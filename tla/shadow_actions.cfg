SPECIFICATION ShadowFairSpec
CONSTANTS
  Update = Update
  Get = Get
  Requests <- TwoKeys
  MaxAcks = 2
  MaxTopics = 4
  CallbacksCall = FALSE
  MaxDepth = 2
  MaxFaults = 1
  MaxConnects = 1
INVARIANTS
  ShadowTypeOK
  WaitingIsHeard
  NothingLeftOver
PROPERTIES
  KeepsPromise
  EveryOneTold
CHECK_DEADLOCK FALSE
