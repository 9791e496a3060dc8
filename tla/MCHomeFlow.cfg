SPECIFICATION Spec
CONSTANTS
  Frames <- FailsafeFrames
  Fixes = {TRUE, FALSE}
  Flow = {TRUE, FALSE}
  Batteries = {}
  FsOptions = {1}
  ArmTicks = 1
  Loss1Ticks = 1
  Loss2Ticks = 2
  GroundStation = FALSE
  MaxRecorded = 0
INVARIANT HomeKnown
