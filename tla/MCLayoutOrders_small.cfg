SPECIFICATION SpecOrders
CONSTANTS
  prime <- MCPrime
  Lattices <- MCLattices
  MachineSizes <- MCMachineSizes
  Geometries <- MCGeometries
  IoGeometries <- MCIoGeometries
INVARIANTS
  LatticeDivided RefusesOnlyIndivisible PlacedOnce PlacedByColor PlacedByMorton
  IoPartitions
CHECK_DEADLOCK FALSE
