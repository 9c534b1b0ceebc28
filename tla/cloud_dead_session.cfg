SPECIFICATION CloudFairSpec
CONSTANTS
  Topics = {t1, t2}
  t1 = t1
  t2 = t2
  NoTopic = NoTopic
  Ladder <- MCLadder
  GetAccepted = t2
  NumHandlers = 3
  MaxWait = 1
  MaxNested = 0
  MaxFaults = 2
  InFlight = 0
  SendLimit = 1
  SubPeriod = 2
PROPERTIES
  DeadSessionClosed
