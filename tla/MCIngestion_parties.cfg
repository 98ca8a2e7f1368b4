\* Two ticks, a producer that submits or looks first; or two commands at
\* once, none excluding another.
SPECIFICATION Bounded
CONSTANTS
  w1 = w1
  w2 = w2
  o1 = o1
  o2 = o2
  s1 = s1
  e1 = e1
  good = good
  other = other
  bad = bad
  NoProc = NoProc
  None = None
  Proc = {w1, w2, o1, o2, s1}
  Workers = {w1, w2}
  Operators = {o1, o2}
  Producers = {s1}
  Event = {e1}
  Payload = {good, other, bad}
  Malformed = {bad}
  TicksSee = {good, bad}
  RenameReplaces = TRUE
SYMMETRY Interchangeable
INVARIANTS
  TicksRecover
  OneRunPerEvent
  LedgerNamesEveryRun
  LookupMissesNothing
PROPERTIES
  MappingNeverRewritten
\* Finitely many invocations: then nothing is left to do.
CHECK_DEADLOCK FALSE
