SPECIFICATION FairSpec
CONSTANTS
  MaxShards = 3
  MaxAttempts = 2
  RetryBackoff = 0
  Workers = 2
  MaxAborts = 2
  Plan = Plan
  Reduce = Reduce
INVARIANTS
  TypeOK
  ReduceAtMostOnce
  ReduceSeesEveryShard
  PartialsArePresent
  CounterIsExact
PROPERTIES
  DeadIsFinal
  NeverHangs
  ImplementsJob
CHECK_DEADLOCK FALSE
