SPECIFICATION Spec
CONSTANTS
  Nodes = {0, 1, 2}
  NumGatherIds = 3
  GatherIndex = {"PAIR", "X3UP"}
  RecvFrom <- MCRecvFrom
  SendTo <- MCSendTo
  SendId <- MCSendId
  OffsetIncrement <- MCOffsetIncrement
  Tags = {tag1, tag2}
  Ops = {"start", "wait", "cleanup", "sync"}
  Buffered = TRUE
  MaxCalls = 5
INVARIANTS TypeOK IdsExclusive TablesAgree StopTogether RightDataIfSynced NothingLeft
SYMMETRY Alike
CHECK_DEADLOCK FALSE
