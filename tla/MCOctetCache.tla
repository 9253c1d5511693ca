--------------------------- MODULE MCOctetCache ---------------------------
(* OctetCache for TLC: the pointers of a new array are all the same, null   *)
(* or an address that may be taken.                                         *)
EXTENDS OctetCache, TLC

MCGarbage == {[l \in Slots |-> p] : p \in Ptr}
Symm == Permutations(Octets) \cup Permutations(Addr)
=============================================================================
