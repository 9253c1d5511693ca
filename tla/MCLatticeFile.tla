--------------------------- MODULE MCLatticeFile ---------------------------
(* A lattice of six sites in rows of two, on one, two or three nodes.     *)
EXTENDS LatticeFile

\* on three nodes, on two with the even sites first, each reading from a file
\* in natural order what the other one owns, and on one
Thirds == 0 :> <<1, 4>> @@ 1 :> <<5, 0>> @@ 2 :> <<2, 3>>
Swapped == 0 :> <<3, 4, 5>> @@ 1 :> <<0, 2, 1>>
Single == 0 :> <<0, 3, 4, 1, 2, 5>>

SixSites == {Thirds, Swapped, Single}

ThreeMachines ==
  {[faults |-> TRUE, eager |-> TRUE], [faults |-> FALSE, eager |-> TRUE],
   [faults |-> FALSE, eager |-> FALSE]}
=============================================================================
