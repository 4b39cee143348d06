SPECIFICATION FairSpec
CONSTANTS
  MaxShards = 2
  MaxAttempts = 3
  RetryBackoff = 10
  Workers = 2
  MaxAborts = 0
  Plan = Plan
  Reduce = Reduce
PROPERTY NeverHangs
CHECK_DEADLOCK FALSE
