SPECIFICATION Spec
CONSTANTS
  Nodes = {0, 1, 2}
  Sites <- MCSites
  NodeOf <- MCNodeOf
  ParityOf <- MCParity
  GatherIndex = {"XDOWN", "X2UP", "MIRROR"}
  Map <- MCMap
  RecvList <- MCRecvList
  SendList <- MCSendList
  SendId <- MCSendId
  OffsetIncrement <- MCIncrement
  Dests = {gen_pt0, gen_pt1}
  Tags = {tag1, mtag}
  Ops = {"declare", "accumulate", "join", "prepare", "cleanup"}
  UsesJoined = TRUE
  Sublattices = {1, 2}
  MaxVersion = 2
INVARIANTS GatherFetches EndsMeet
SYMMETRY Alike
CHECK_DEADLOCK FALSE
