SPECIFICATION Spec
CONSTANTS
  Frames <- PilotFrames
  Fixes = {TRUE}
  Flow = {FALSE}
  Batteries = {"LOW_BATTERY1", "LOW_BATTERY2"}
  FsOptions = {0}
  ArmTicks = 1
  Loss1Ticks = 0
  Loss2Ticks = 1
  GroundStation = TRUE
  MaxRecorded = 1
INVARIANT BaseStates
PROPERTY RecoveryKept
