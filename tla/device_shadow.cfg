SPECIFICATION ShadowFairSpec
CONSTANTS
  Probes = {p1}
  Temperatures = {40, 104}
  Minutes = {0, 90}
  NoValue = NoValue
  XLimit = 1
  ReportEvery = 2
  GetPeriod = 1
  MaxAsks = 2
  MaxFaults = 1
  InFlight = 1
INVARIANTS
  ShadowTypeOK
  RequestNotForgotten
  EchoWithinOneDegree
PROPERTIES
  ReportCatchesUp
