SPECIFICATION FairSpec
CONSTANTS
  Missions <- MCMissions
  MaxLegs = 3
  MaxAttempts = 2
  MaxSent = 3
  MaxLink = 2
INVARIANTS TypeOK LoadedIsSent 
PROPERTIES  UploadEnds
