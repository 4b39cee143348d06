SPECIFICATION FairSpec
CONSTANTS
  look = look
  edit = edit
  bash = bash
  spawn = spawn
  Tools <- MCTools
  Effects <- MCEffects
  Mutating <- MCMutating
  Delegation = {spawn}
  Ruling <- MCRuling
  HumanPrompt = TRUE
  MaxSpawns = 4
  MaxParallel = 2
  MaxBatch = 3
  MaxCalls = 1
INVARIANTS
  Exclusive
  Budgeted
  AskedInParallelOnly
PROPERTIES
  BatchEnds
CHECK_DEADLOCK TRUE
