SPECIFICATION Spec
CONSTANTS
  Frames <- FailsafeFrames
  Fixes = {TRUE, FALSE}
  Flow = {FALSE}
  Batteries = {}
  FsOptions = {2}
  ArmTicks = 1
  Loss1Ticks = 1
  Loss2Ticks = 2
  GroundStation = TRUE
  MaxRecorded = 0
INVARIANTS TypeOK FailsafeInCharge LossStages  HomeKnown
PROPERTY HomeStays
