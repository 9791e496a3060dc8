SPECIFICATION FairSpec
CONSTANTS
  Tasks = {"run", "comm"}
  CommTask = "comm"
  NumBufs = 3
  SizeStarts = {0}
  NumPorts = 3
  CanPorts = {2}
  Streams = {"mavlink", "telemetry", "cli"}
  PortStreams <- MCPortStreams
  UsbStreams = {}
  Sends <- MCSends
  Depth = 2
  None = NONE
INVARIANTS TypeOK StatusCounts NoStall
PROPERTIES PoolSpec Returned
