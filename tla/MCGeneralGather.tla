---------------------------- MODULE MCGeneralGather ----------------------------
(* GeneralGather on a ring of sites dealt to three nodes in slices.        *)
EXTENDS GeneralGather

MCDisplacements == {1, -2, 3}

(* Three slices of four sites each have two even and two odd sites; the    *)
(* even ones come first, as in every layout.                               *)
MCThick == [x \in Coords |-> x \div 4]
MCThickIndex == [x \in Coords |-> (x % 4) \div 2 + 2 * (x % 2)]
=============================================================================
