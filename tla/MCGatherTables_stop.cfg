SPECIFICATION FairSpec
CONSTANTS
  Nodes = {0, 1}
  Sites <- MCSites
  NodeOf <- TwoNode
  IndexOf <- TwoIndex
  ParityOf <- TwoParity
  Maps <- AllMaps
  Requests <- NoInverse
  Buffering = {TRUE, FALSE}
PROPERTY TerminateEnds
CHECK_DEADLOCK FALSE
