----------------------------- MODULE MCLinkTwist -----------------------------
(***************************************************************************)
(* Two small lattices, each too short to twist in some directions; origins *)
(* that are even and odd, and far from zero; phases a quarter of a turn, a *)
(* half, and the half turn in time that makes the boundary periodic.       *)
(***************************************************************************)
EXTENDS LinkTwist

TwoLattices == {<<4, 2, 2, 4>>, <<2, 4, 2, 6>>}
SomeOrigins == {<<0, 0, 0, 0>>, <<1, 0, 0, 0>>, <<0, 1, 1, 3>>, <<1, 1, 0, 2>>,
                <<3, 0, 0, 3>>, <<0, 3, 1, 5>>}
SomePhases == {<<0, 0, 0, 0>>, <<0, 0, 0, 8>>, <<4, 0, 0, 0>>, <<0, 4, 0, 3>>,
               <<8, 0, 0, 5>>}
=============================================================================
