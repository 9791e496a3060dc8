SPECIFICATION FairSpec
CONSTANTS
  MaxFiles = 2
  Stream = 0
  Names = {"params"}
  ParamFile = "params"
  NewLines <- MCNewLines
  FirstCard <- MCCard
  RingSize = 3
  Enough = 2
  MaxErrors = 1
  MaxLogged = 3
INVARIANTS TypeOK SessionTrue StreamInStep
PROPERTIES HandedOverClosed Answered
