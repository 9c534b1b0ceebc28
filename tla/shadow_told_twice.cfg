SPECIFICATION ShadowFairSpec
CONSTANTS
  Update = Update
  Get = Get
  Requests <- Followed
  MaxAcks = 2
  MaxTopics = 4
  CallbacksCall = TRUE
  MaxDepth = 3
  MaxFaults = 1
  MaxConnects = 1
PROPERTIES
  KeepsPromise
CHECK_DEADLOCK FALSE
