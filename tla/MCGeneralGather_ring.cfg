\* Slices of four sites; with an MPI that buffers and one that does not.
SPECIFICATION FairSpec
CONSTANTS
  Nodes = {0, 1, 2}
  nx = 12
  NodeNumber <- MCThick
  NodeIndex <- MCThickIndex
  Displacements <- MCDisplacements
  Parities = {"even", "odd", "all"}
  Tags = {1, 2}
  Buffering = {TRUE, FALSE}
  MaxCalls = 4
INVARIANTS MessagesMatch FetchesDisplaced RefusedTogether
PROPERTY GatherCompletes
CHECK_DEADLOCK FALSE
