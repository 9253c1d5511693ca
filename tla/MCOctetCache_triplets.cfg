\* Four octets and four addresses; up to three triplets in an input set, any
\* number of input sets.
CONSTANTS
  Octets = {o1, o2, o3, o4}
  Addr = {a1, a2, a3, a4}
  NULL = NULL
  Free = Free
  Garbage <- MCGarbage
  MaxTriplets = 3
SYMMETRY Symm
SPECIFICATION Spec
INVARIANTS TieReadsItsOctets CachesMatch
PROPERTY KeepsWanted
