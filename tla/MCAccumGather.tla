--------------------------- MODULE MCAccumGather ---------------------------
(* AccumGather on a ring of six sites, even and odd in turn, cut in slices *)
(* for the nodes, with the tables GatherTables makes for it.               *)
EXTENDS AccumGather

\* the program's vectors and tags are alike
Alike == Permutations(Dests) \union Permutations(Tags)

MCSites  == 0 .. 5
MCParity == [x \in MCSites |-> x % 2]
MCNodeOf == [x \in MCSites |-> x \div (6 \div Cardinality(Nodes))]

Image(g, x) ==
  CASE g = "XDOWN" -> x - 1 [] g = "X2UP" -> x + 2 [] g = "MIRROR" -> 5 - x
MCMap == [g \in GatherIndex |-> [x \in MCSites |-> Image(g, x) % 6]]

(* The receivers on node n of sites of node j, as both ends order them.    *)
Receivers(g, n, j, p) ==
  LET key(x) == IF n < j THEN x ELSE MCMap[g][x]
  IN  SetToSortSeq({x \in MCSites : /\ MCNodeOf[x] = n /\ MCNodeOf[MCMap[g][x]] = j
                                    /\ MCParity[x] = p},
                   LAMBDA x, y : key(x) < key(y))

Sitelists(even, odd) == <<even, odd, even \o odd>>
Partners(set) == SetToSortSeq(set, LAMBDA i, j : i < j)

MCRecvList == [g \in GatherIndex |-> [n \in Nodes |->
  LET from == Partners({j \in Nodes \ {n} : \E p \in 0 .. 1 : Receivers(g, n, j, p) /= <<>>})
  IN  [k \in DOMAIN from |->
        [othernode |-> from[k],
         sitelist  |-> Sitelists(Receivers(g, n, from[k], 0),
                                 Receivers(g, n, from[k], 1))]]]]

MCSendList == [g \in GatherIndex |-> [n \in Nodes |->
  LET to == Partners({j \in Nodes \ {n} : \E p \in 0 .. 1 : Receivers(g, j, n, p) /= <<>>})
      senders(j, p) == [k \in DOMAIN Receivers(g, j, n, p) |->
                          MCMap[g][Receivers(g, j, n, p)[k]]]
  IN  [k \in DOMAIN to |->
        [othernode |-> to[k],
         sitelist  |-> Sitelists(senders(to[k], 0), senders(to[k], 1))]]]]

MCSendId == [g \in GatherIndex |-> [n \in Nodes |->
  [k \in DOMAIN MCSendList[g][n] |->
     LET r == MCRecvList[g][MCSendList[g][n][k].othernode]
     IN  (CHOOSE i \in DOMAIN r : r[i].othernode = n) - 1]]]

MCIncrement == [g \in GatherIndex |->
  CHOOSE m \in 0 .. 2 : /\ \A n \in Nodes : Len(MCRecvList[g][n]) <= m
                        /\ \E n \in Nodes : Len(MCRecvList[g][n]) = m]
=============================================================================
