----------------------------- MODULE LayoutBasics ------------------------------
(***************************************************************************)
(* What the files generic/layout_*.c have in common: coordinates of sites  *)
(* and of nodes, lexicographic ranks, parity, and the promise that the     *)
(* other routines rely on (doc/milcv7.texi, "Distributing sites among      *)
(* nodes"): "node_index must provide a one-to-one mapping of the           *)
(* coordinates of the sites on one node to the integers from 0 to          *)
(* num_sites(node)-1".                                                     *)
(***************************************************************************)
EXTENDS Integers, FiniteSets

XUP == 0
YUP == 1
ZUP == 2
TUP == 3
Dirs == XUP .. TUP

Vector(a, b, c, d) ==
  [dir \in Dirs |-> CASE dir = XUP -> a [] dir = YUP -> b
                      [] dir = ZUP -> c [] dir = TUP -> d]

Product(v) == v[XUP] * v[YUP] * v[ZUP] * v[TUP]

(* All coordinates of a box of the given size.                             *)
Box(size) ==
  {Vector(x, y, z, t) : x \in 0 .. size[XUP] - 1, y \in 0 .. size[YUP] - 1,
                        z \in 0 .. size[ZUP] - 1, t \in 0 .. size[TUP] - 1}

(* The rank of the first site with coordinate 1 in direction d.            *)
Stride(size, d) ==
  CASE d = XUP -> 1
    [] d = YUP -> size[XUP]
    [] d = ZUP -> size[XUP] * size[YUP]
    [] d = TUP -> size[XUP] * size[YUP] * size[ZUP]

lex_coords(size, rank) == [d \in Dirs |-> (rank \div Stride(size, d)) % size[d]]

lex_rank(coords, size) ==
  coords[XUP] + size[XUP] * (coords[YUP] + size[YUP] *
    (coords[ZUP] + size[ZUP] * coords[TUP]))

coord_parity(x) == (x[XUP] + x[YUP] + x[ZUP] + x[TUP]) % 2

(* Direction by direction.                                                 *)
Quotients(v, w) == [d \in Dirs |-> v[d] \div w[d]]
Remainders(v, w) == [d \in Dirs |-> v[d] % w[d]]

(***************************************************************************)
(* The promise of a layout, with the functions it hands out.  Even sites   *)
(* come first on every node, as the loops over sites of a parity want it.  *)
(***************************************************************************)
OneToOne(sites, ranks, Number(_), Index(_), NumSites(_)) ==
  \A r \in ranks :
    LET mine == {x \in sites : Number(x) = r} IN
      /\ Cardinality(mine) = NumSites(r)
      /\ {Index(x) : x \in mine} = 0 .. NumSites(r) - 1

AllPlaced(sites, ranks, Number(_)) == \A x \in sites : Number(x) \in ranks

EvenFirst(sites, Number(_), Index(_), EvenSites(_)) ==
  \A x \in sites : coord_parity(x) = 0 <=> Index(x) < EvenSites(Number(x))
=============================================================================
