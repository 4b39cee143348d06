SPECIFICATION FairSpec
CONSTANTS
  MaxIterations = 2
  MaxNudges = 1
  MaxRepeat = 3
  KeepResults = 1
  KeepTurns = 2
  Keys = {k1, k2}
  Items = {i1}
  IdsGiven = {TRUE}
  MaxCalls = 2
  MaxRuns = 2
INVARIANTS
  TypeOK
  ToolPairs
  HonestStop
  LoopGuard
PROPERTIES
  RunEnds
CHECK_DEADLOCK FALSE
