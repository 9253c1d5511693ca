SPECIFICATION FairSpec
CONSTANTS
  Nodes = {0, 1, 2}
  Sites <- Ring
  NodeOf <- RingNode
  IndexOf <- RingIndex
  ParityOf <- RingParity
  Maps <- RingMaps
  Requests <- GoodRequests
  Buffering = {TRUE, FALSE}
INVARIANTS IdsAgree MapFetched
PROPERTY MakeGatherReturns
CHECK_DEADLOCK FALSE
