SPECIFICATION FairSpec
CONSTANTS
  MaxPages = 4
  MaxCap = 2
  PageValues <- MCPageValues
  NotCandidate = NotCandidate
  Unreadable = Unreadable
  NoMark = NoMark
  NoRange = NoRange
  a = a
  b = b
INVARIANTS
  WindowsTile
  ReportIsGolden
PROPERTIES
  SettlesInRange
CHECK_DEADLOCK FALSE
