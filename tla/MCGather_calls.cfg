\* Every program of up to five calls of gathers up the ring, a barrier excepted; MPI
\* buffers nothing.
SPECIFICATION FairSpec
CONSTANTS
  Nodes = {0, 1, 2}
  NumGatherIds = 1
  GatherIndex = {"XUP"}
  RecvFrom <- MCRecvFrom
  SendTo <- MCSendTo
  SendId <- MCSendId
  OffsetIncrement <- MCOffsetIncrement
  Tags = {1, 2}
  Ops = {"declare", "prepare", "start", "do", "wait", "cleanup"}
  Buffered = FALSE
  MaxCalls = 5
PROPERTIES KeepsPromise GatherCompletes AllStop
CHECK_DEADLOCK FALSE
