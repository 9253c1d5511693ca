------------------------------ MODULE MCGather ------------------------------
(* Gather on small machines.  A lattice cut in slices in one direction has *)
(* the gathers XUP and XDOWN; one whose slices are thinner than a step of  *)
(* three sites has X3UP, with several messages for each node; a map made   *)
(* by hand (make_gather takes any function of the coordinates) may connect *)
(* a few nodes only, so that the others are free to run ahead: PAIR.       *)
EXTENDS Gather, TLC

\* the tags of the program are alike
Alike == Permutations(Tags)

Size == Cardinality(Nodes)

MCFrom(g, n) ==
  CASE g = "XUP"   -> <<(n + 1) % Size>>
    [] g = "XDOWN" -> <<(n - 1) % Size>>
    [] g = "X3UP"  -> LET other == Nodes \ {n}
                          lo == CHOOSE x \in other : \A y \in other : x <= y
                          hi == CHOOSE x \in other : \A y \in other : x >= y
                      IN  IF lo = hi THEN <<lo>> ELSE <<lo, hi>>
    [] g = "PAIR"  -> IF n \in {0, 1} THEN <<1 - n>> ELSE <<>>

MCRecvFrom == [g \in GatherIndex |-> [n \in Nodes |-> MCFrom(g, n)]]

MCSendTo == [g \in GatherIndex |-> [n \in Nodes |->
  IF g = "XUP" THEN MCFrom("XDOWN", n)
  ELSE IF g = "XDOWN" THEN MCFrom("XUP", n) ELSE MCFrom(g, n)]]

MCSendId == [g \in GatherIndex |-> [n \in Nodes |->
  [k \in DOMAIN MCSendTo[g][n] |->
     CHOOSE i \in DOMAIN MCFrom(g, MCSendTo[g][n][k]) :
       MCFrom(g, MCSendTo[g][n][k])[i] = n]]]

MCOffsetIncrement == [g \in GatherIndex |->
  CHOOSE m \in 0 .. 2 : /\ \A n \in Nodes : Len(MCFrom(g, n)) <= m
                        /\ \E n \in Nodes : Len(MCFrom(g, n)) = m]
=============================================================================
