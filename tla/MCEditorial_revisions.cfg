\* The content of a Run from its draft to the gate's decision.
SPECIFICATION EditorialSpec
CONSTANTS
  Literal <- MCLiteral
  Bars <- MCBars
  Derived <- MCDerived
  NoteNumbers <- MCNoteNumbers
  Paths <- MCPaths
  Items <- MCItems
  Inside <- MCInside
  Shell <- MCShell
  Hours = 2400
  Size <- MCSize
  MediumLimit = 3
  MinChars = 40
  Drafts <- MCDrafts
  Claims <- MCClaims
  News <- MCNews
  Reported <- MCReported
  Styles <- MCStyles
  Additions <- MCAdditions
  Fixed <- MCFixed
INVARIANTS
  SevereFindingsAreRepaired
  FinalizerForestallsGate
  RevisionExists
  ApprovedIsSourced
\* A Run ends approved, blocked or rejected.
CHECK_DEADLOCK FALSE
