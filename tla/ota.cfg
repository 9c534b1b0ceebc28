SPECIFICATION OtaFairSpec
CHECK_DEADLOCK FALSE
CONSTANTS
  Jobs = {5, 6, 7}
  NoJob = 0
  FirstVersion = 5
  WaitTurns = 1
  DetailSlots = 1
  MaxEvents = 2
INVARIANTS
  OtaTypeOK
  NoDowngrade
PROPERTIES
  RefusedNotUpgraded
  SuccessAfterInstall
  CheckEnds
