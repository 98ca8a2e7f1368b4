\* Two publish commands for the same Run at the same time.
SPECIFICATION Bounded
CONSTANTS
  p1 = p1
  c1 = c1
  c2 = c2
  NoProc = NoProc
  Proc = {c1, c2}
  Pipelines = {}
  Clis = {c1, c2}
  NChunks = 1
  MaxRetries = 0
  Texts = {"approved"}
  ApprovedText = "approved"
SYMMETRY Interchangeable
INVARIANTS
  AtMostOnce
\* Finitely many invocations, each of which ends: then nothing is left to do.
CHECK_DEADLOCK FALSE
