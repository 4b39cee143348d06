SPECIFICATION FairSpec
CONSTANTS
  MaxPages = 2
  MaxCap = 2
  PageValues <- MCPageValues
  NotCandidate = NotCandidate
  Unreadable = Unreadable
  NoMark = NoMark
  NoRange = NoRange
  a = a
  b = b
PROPERTY Settles
CHECK_DEADLOCK FALSE
