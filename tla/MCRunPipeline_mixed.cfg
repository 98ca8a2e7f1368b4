\* Orchestrated invocations that fail, die, follow each other; or one of them, a
\* stage command without a lock, and a hand that edits.
SPECIFICATION FairBounded
CONSTANTS
  p1 = p1
  p2 = p2
  p3 = p3
  c1 = c1
  NoProc = NoProc
  None = None
  Editor = Editor
  Proc = {p1, p2, p3, c1}
  Pipelines = {p1, p2, p3}
  Commands = {c1}
  Kinds = {"ANALYSIS", "NEWS_DIGEST", "TRADE_PLAN"}
INVARIANTS
  ManifestIsTrue
  ApprovedIsReviewed
PROPERTIES
  RecordOnlyGrows
  InvocationsEnd
\* Finitely many invocations: then nothing is left to do.
CHECK_DEADLOCK FALSE
