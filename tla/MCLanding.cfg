SPECIFICATION Spec
CONSTANTS
  Frames <- LiveFrames
  Fixes = {TRUE}
  Flow = {FALSE}
  Batteries = {"LOW_BATTERY1"}
  FsOptions = {0}
  ArmTicks = 1
  Loss1Ticks = 0
  Loss2Ticks = 1
  GroundStation = FALSE
  MaxRecorded = 0
PROPERTY OnlyArmingArms
