SPECIFICATION FairSpec
CONSTANTS
  Requests = {r1, r2, r3}
  Contents = {c1, c2}
  Keys = {k1}
  NoKey = NoKey
  NoJob = NoJob
INVARIANTS
  TypeOK
  AnswerIsMine
  NoRedundantWork
  KeyReplay
  WorkHasItsObject
PROPERTIES
  AcceptedIsSettled
CHECK_DEADLOCK FALSE
