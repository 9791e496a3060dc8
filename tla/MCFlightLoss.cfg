SPECIFICATION LossSpec
CONSTANTS
  Frames <- LossFrames
  Fixes = {TRUE, FALSE}
  Flow = {FALSE}
  Batteries = {}
  FsOptions = {2}
  ArmTicks = 1
  Loss1Ticks = 1
  Loss2Ticks = 2
  GroundStation = FALSE
  MaxRecorded = 0
PROPERTY Loss2AfterTimeout
