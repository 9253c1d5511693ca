----------------------------- MODULE LayoutOrders ------------------------------
(***************************************************************************)
(* Two layouts that divide the lattice as LayoutPrime does and differ in   *)
(* the order of the sites on a node: generic/layout_hyper_sl32.c (by 32    *)
(* colors, for extended actions) and generic/layout_hyper_morton_prime.c   *)
(* (Morton order within each parity).                                      *)
(*                                                                         *)
(* Both are followed in one behavior: setup_morton is a further step after *)
(* LayoutPrime's, and what setup_layout by colors refuses at its end is a  *)
(* condition on the "ready" state.                                         *)
(* Definitions marked "variant" are the code with one plausible mistake.   *)
(***************************************************************************)
EXTENDS LayoutPrime, SequencesExt

VARIABLES
  order,  \* the sites of the first node as morton_hash meets them
  hc2m,   \* hash converting morton index to hypercube index
  m2hc,   \* hash converting hypercube index to morton index
  morton  \* "no" tables of the Morton layout yet, "made" or "refused"

tables == <<order, hc2m, m2hc, morton>>

-----------------------------------------------------------------------------
(* layout_hyper_sl32.c                                                     *)

(* "Need number of sites per hypercube divisible by 32"                    *)
Accepted32 == phase = "ready" /\ sites_on_node % 32 = 0

subl_sites_on_node == sites_on_node \div 32

Halves(v) == [d \in Dirs |-> v[d] \div 2]

(* The color: which corner of its cell of sixteen the site is, and whether *)
(* the cell is an even or an odd one.                                      *)
Corner(x) == lex_rank([d \in Dirs |-> x[d] % 2], [d \in Dirs |-> 2])
Color(x) == Corner(x) + 16 * coord_parity(Halves(x))

node_index32(x) ==
  LET cell == lex_rank(Halves(Remainders(x, squaresize)), Halves(squaresize))
  IN  cell \div 2 + Color(x) * subl_sites_on_node

(* get_coords: the cell within the node, then the corner, then the node.   *)
NextCellNoCarry(c) == [c EXCEPT ![XUP] = @ + 1]   \* variant

NextCell(c) ==
  LET full(d) == c[d] + 1 >= squaresize[d] \div 2
      back(d) == c[d] + 1 - squaresize[d] \div 2
  IN  CASE ~full(XUP) -> [c EXCEPT ![XUP] = @ + 1]
        [] full(XUP) /\ ~full(YUP) ->
             [c EXCEPT ![XUP] = back(XUP), ![YUP] = @ + 1]
        [] full(XUP) /\ full(YUP) /\ ~full(ZUP) ->
             [c EXCEPT ![XUP] = back(XUP), ![YUP] = back(YUP), ![ZUP] = @ + 1]
        [] OTHER -> [c EXCEPT ![XUP] = back(XUP), ![YUP] = back(YUP),
                              ![ZUP] = back(ZUP), ![TUP] = @ + 1]

get_coords32(r, index) ==
  LET color  == index \div subl_sites_on_node
      corner == lex_coords([d \in Dirs |-> 2], color % 16)
      first  == lex_coords(Halves(squaresize), 2 * (index % subl_sites_on_node))
      cell   == IF coord_parity(first) /= color \div 16 THEN NextCell(first)
                ELSE first
  IN  [d \in Dirs |-> 2 * cell[d] + corner[d]
                        + MachineCoordinates(r)[d] * squaresize[d]]

-----------------------------------------------------------------------------
(* layout_hyper_morton_prime.c                                             *)

LeastPrime(n) ==
  prime[CHOOSE k \in DOMAIN prime :
          n % prime[k] = 0 /\ \A l \in 1 .. k - 1 : n % prime[l] /= 0]

(* prime_factors: the digits of a coordinate have these bases.             *)
MaxLen == 64     \* bound: the longest dimension the model factors
MaxDigits == 6   \* and how many factors it can have
Factors ==
  [n \in 1 .. MaxLen |->
     LET f[m \in 1 .. n] == IF m = 1 THEN <<>>
                            ELSE <<LeastPrime(m)>> \o f[m \div LeastPrime(m)]
     IN  f[n]]

(* The odometer of morton_hash: the first digits of x, y, z and t, then    *)
(* the second ones, ...  Every place has a direction and a base.           *)
Places ==
  LET nfactors(d) == Len(Factors[squaresize[d]])
      all == [p \in 1 .. 4 * MaxDigits |->
                [dir |-> (p - 1) % 4, digit |-> (p - 1) \div 4 + 1]]
      present == SelectSeq(all, LAMBDA p : p.digit <= nfactors(p.dir))
  IN  [k \in DOMAIN present |->
         [dir  |-> present[k].dir,
          base |-> Factors[squaresize[present[k].dir]][present[k].digit]]]

(* The coordinates after n counts: digits are split off n place by place,  *)
(* scale[d] is what the next digit of direction d counts.                  *)
MortonSite(places, n) ==
  FoldLeft(LAMBDA a, p :
             [rest  |-> a.rest \div p.base,
              scale |-> [a.scale EXCEPT ![p.dir] = @ * p.base],
              x     |-> [a.x EXCEPT ![p.dir] =
                           @ + (a.rest % p.base) * a.scale[p.dir]]],
           [rest |-> n, scale |-> Ones, x |-> [d \in Dirs |-> 0]],
           places).x

MortonOrderOnePass ==   \* variant: counts once, for both parities
  LET places == Places
  IN  [n \in 1 .. sites_on_node |-> MortonSite(places, n - 1)]

(* morton_hash counts twice, for the even sites and for the odd ones.      *)
MortonOrder ==
  LET places == Places
      met == [n \in 1 .. sites_on_node |-> MortonSite(places, n - 1)]
  IN  SelectSeq(met, LAMBDA x : coord_parity(x) = 0)
        \o SelectSeq(met, LAMBDA x : coord_parity(x) = 1)

Indices == 0 .. sites_on_node - 1

(* setup_morton, and the end of setup_layout.  prime_factors refuses 1.    *)
(* morton_hash enters each pair of indices in the table of the other name. *)
SetupMorton ==
  /\ phase = "ready"
  /\ morton = "no" /\ morton' = "made"
  /\ \A d \in Dirs : squaresize[d] > 1
  /\ sites_on_node % 2 = 0
  /\ order' = MortonOrder
  /\ hc2m' = [m \in Indices |-> node_index(order'[m + 1])]
  /\ m2hc' = [h \in Indices |-> CHOOSE m \in Indices : hc2m'[m] = h]
  /\ UNCHANGED vars

RefuseMorton ==
  /\ phase = "ready"
  /\ morton = "no" /\ morton' = "refused"
  /\ (\E d \in Dirs : squaresize[d] <= 1) \/ sites_on_node % 2 /= 0
  /\ UNCHANGED <<vars, order, hc2m, m2hc>>

AcceptedMorton == morton = "made"

node_indexM(x) == hc2m[node_index(x)]

get_coordsM(r, index) == get_coords(r, m2hc[index])

-----------------------------------------------------------------------------
InitOrders ==
  Init /\ order = <<>> /\ hc2m = <<>> /\ m2hc = <<>> /\ morton = "no"

NextOrders ==
  \/ Next /\ UNCHANGED tables
  \/ SetupMorton \/ RefuseMorton

SpecOrders == InitOrders /\ [][NextOrders]_<<vars, tables>>

-----------------------------------------------------------------------------
(***************************************************************************)
(* With 32 colors, too, every site of a node has an index of its own below *)
(* num_sites, and the sites of one color follow each other, if the boxes   *)
(* have even dimensions.  setup_layout asks for a multiple of 32 sites     *)
(* only, which 3 x 4 x 4 x 2 is as well.                                   *)
(***************************************************************************)
WholeCells == \A d \in Dirs : squaresize[d] % 2 = 0

SitesPlaced32 ==
  Accepted32 /\ WholeCells =>
    /\ AllPlaced(LatticeSites, Ranks, node_number)
    /\ OneToOne(LatticeSites, Ranks, node_number, node_index32, num_sites)
    /\ \A x \in LatticeSites :
         node_index32(x) \div subl_sites_on_node = Color(x)

(***************************************************************************)
(* get_coords of the layout by colors is the inverse of its node_number    *)
(* and node_index, if every box begins with an even cell: get_coords takes *)
(* the parity of a cell within the node for that in the lattice.           *)
(***************************************************************************)
EvenCells == \A d \in Dirs : nsquares[d] > 1 => squaresize[d] % 4 = 0

CoordsInverse32 ==
  Accepted32 /\ WholeCells /\ EvenCells =>
    \A r \in Ranks : \A k \in 0 .. num_sites(r) - 1 :
      LET x == get_coords32(r, k) IN node_number(x) = r /\ node_index32(x) = k

(***************************************************************************)
(* In the layout by Morton order every site has an index of its own below  *)
(* num_sites, even sites first, although one table serves all nodes.       *)
(***************************************************************************)
SitesPlacedMorton ==
  AcceptedMorton =>
    /\ OneToOne(LatticeSites, Ranks, node_number, node_indexM, num_sites)
    /\ EvenFirst(LatticeSites, node_number, node_indexM, EvenSitesOnNode)

(***************************************************************************)
(* get_coords of the Morton layout is the inverse of its node_index.       *)
(***************************************************************************)
CoordsInverseMorton ==
  AcceptedMorton =>
    \A r \in Ranks : \A k \in Indices :
      LET x == get_coordsM(r, k) IN node_number(x) = r /\ node_indexM(x) = k

(***************************************************************************)
(* The places of the layout by 32 colors, and the way back from them.      *)
(***************************************************************************)
PlacedByColor == SitesPlaced32 /\ CoordsInverse32

(***************************************************************************)
(* Those of the layout by Morton order, wherever its setup_layout accepts  *)
(* the lattice.                                                            *)
(***************************************************************************)
PlacedByMorton == SitesPlacedMorton /\ CoordsInverseMorton

=============================================================================
