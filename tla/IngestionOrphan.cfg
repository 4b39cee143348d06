SPECIFICATION FairSpec
CONSTANTS
  Requests = {r1, r2}
  Contents = {c1, c2}
  Keys = {k1}
  NoKey = NoKey
  NoJob = NoJob
PROPERTY AcceptedIsEnqueued
CHECK_DEADLOCK FALSE
