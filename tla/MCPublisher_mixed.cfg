\* Three orchestrated invocations, or one of them and a publish command, which
\* takes no lock, while somebody edits the article; every step able to fail or
\* be the last.
SPECIFICATION FairBounded
CONSTANTS
  p1 = p1
  p2 = p2
  p3 = p3
  c1 = c1
  NoProc = NoProc
  Proc = {p1, p2, p3, c1}
  Pipelines = {p1, p2, p3}
  Clis = {c1}
  NChunks = 2
  MaxRetries = 1
  Texts = {"approved", "edited"}
  ApprovedText = "approved"
INVARIANTS
  LockedPostsOnce
  LockedIsConsistent
  OutcomeIsTruthful
  OnlyApprovedText
PROPERTIES
  LockedKeepsPromise
  InvocationsEnd
\* Finitely many invocations, each of which ends: then nothing is left to do.
CHECK_DEADLOCK FALSE
