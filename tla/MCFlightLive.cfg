SPECIFICATION FairSpec
CONSTANTS
  Frames <- LiveFrames
  Fixes = {TRUE, FALSE}
  Flow = {FALSE}
  Batteries = {}
  FsOptions = {1}
  ArmTicks = 1
  Loss1Ticks = 0
  Loss2Ticks = 1
  GroundStation = FALSE
  MaxRecorded = 0
PROPERTIES RecoveryEnds LossNoticed ControlReturned
