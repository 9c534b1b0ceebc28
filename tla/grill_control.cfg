SPECIFICATION GrillSpec
CONSTANTS
  Fine = 2
  Temperatures = {580, 594, 600, 699, 899, 994, 1102}
  SetPoints = {300, 348, 448, 500, 560}
  NotANumber = NotANumber
INVARIANTS
  FanSettles
