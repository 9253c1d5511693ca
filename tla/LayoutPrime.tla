------------------------------ MODULE LayoutPrime ------------------------------
(***************************************************************************)
(* generic/layout_hyper_prime.c: how the lattice is divided among the MPI  *)
(* ranks and in which order the sites are kept on a rank.                  *)
(*                                                                         *)
(* setup_layout() either takes the machine geometry it is given or finds   *)
(* one: it divides the lattice by primes, the largest first, until there   *)
(* are as many hypercubes as nodes.  Every node does the same with the     *)
(* same numbers, so one copy of the variables stands for all; what a node  *)
(* derives from its own rank (machine_coordinates, even_sites_on_node) is  *)
(* a function of the rank.                                                 *)
(*                                                                         *)
(* Plain MPI (no QMP, no Grid).  terminate() is the phase "refused".       *)
(* Definitions marked "variant" are the code with one plausible mistake.   *)
(***************************************************************************)
EXTENDS LayoutBasics, Sequences

CONSTANTS
  prime,        \* the table of primes
  Lattices,     \* the sizes <<nx, ny, nz, nt>> to be laid out, as vectors
  MachineSizes, \* the values of numnodes()
  Geometries,   \* machine geometries given by -geom or node_geometry
  IoGeometries  \* geometries given by -ionodes or ionode_geometry

NoGeom == [d \in Dirs |-> 0]   \* the NULL pointer
Sizes == [Dirs -> Nat \ {0}]

ASSUME PrimeAssumption ==
  prime \in Seq(Nat \ {0, 1}) /\ prime /= <<>>
ASSUME SizesAssumption ==
  /\ Lattices \subseteq Sizes /\ Geometries \subseteq Sizes
  /\ IoGeometries \subseteq Sizes
  /\ MachineSizes \subseteq Nat \ {0}

VARIABLES
  len,        \* nx, ny, nz, nt
  numnodes,   \* numnodes()
  geom,       \* the machine geometry asked for, or NoGeom
  iogeom,     \* ionodegeomvals
  squaresize, \* local dimensions of the sublattice on one node
  nsquares,   \* number of hypercubes in each direction
  i,          \* current number of hypercubes
  phase       \* "divide", "divided", "ready" or "refused"

vars == <<len, numnodes, geom, iogeom, squaresize, nsquares, i, phase>>
inputs == <<len, numnodes, geom, iogeom>>

-----------------------------------------------------------------------------
(* setup_hyper_prime.                                                      *)

(* The search goes down the table to a prime that divides m, and stops at  *)
(* the first entry whether or not that one divides m.                      *)
StopsAt(m, k) ==
  /\ m % prime[k] = 0 \/ k = 1
  /\ \A l \in DOMAIN prime : l > k => m % prime[l] /= 0

LongestOfAll(p) ==   \* variant: refuses if the largest is not divisible
  {d \in Dirs : /\ squaresize[d] % p = 0
                /\ \A e \in Dirs : squaresize[e] <= squaresize[d]}

(* The directions with the largest dimension divisible by p.               *)
Longest(p) ==
  {d \in Dirs : /\ squaresize[d] % p = 0
                /\ \A e \in Dirs : squaresize[e] % p = 0 =>
                                      squaresize[e] <= squaresize[d]}

(* One that has been divided already is preferred, then the first one.     *)
Preferred(dirs, dir) ==
  LET divided == {d \in dirs : nsquares[d] > 1}
      those   == IF divided = {} THEN dirs ELSE divided
  IN  dir \in those /\ \A d \in those : dir <= d

DivideBy(p, dir) ==
  /\ i' = i * p
  /\ squaresize' = [squaresize EXCEPT ![dir] = @ \div p]
  /\ nsquares' = [nsquares EXCEPT ![dir] = @ * p]
  /\ UNCHANGED <<inputs, phase>>

DivideOnce ==
  /\ phase = "divide"
  /\ i < numnodes
  /\ \E k \in DOMAIN prime, dir \in Dirs :
       /\ StopsAt(numnodes \div i, k)
       /\ Preferred(Longest(prime[k]), dir)
       /\ DivideBy(prime[k], dir)

(* "Can't lay out this lattice, not enough factors"                        *)
RunOutOfFactors ==
  /\ phase = "divide"
  /\ i < numnodes
  /\ \E k \in DOMAIN prime :
       StopsAt(numnodes \div i, k) /\ Longest(prime[k]) = {}
  /\ phase' = "refused"
  /\ UNCHANGED <<inputs, squaresize, nsquares, i>>

(* The last test of the loop.                                              *)
Divided ==
  /\ phase = "divide"
  /\ i >= numnodes
  /\ phase' = "divided"
  /\ UNCHANGED <<inputs, squaresize, nsquares, i>>

(* setup_fixed_geom: "does not match number of nodes", "is not             *)
(* commensurate with the lattice dims".                                    *)
GeometryFitsLattice(g) ==   \* variant: the nodes are not counted
  \A d \in Dirs : len[d] % g[d] = 0

GeometryFits(g) ==
  /\ Product(g) = numnodes
  /\ \A d \in Dirs : len[d] % g[d] = 0

SetupFixedGeom ==
  /\ phase = "fixed"
  /\ nsquares' = geom
  /\ squaresize' = Quotients(len, geom)
  /\ i' = Product(geom)
  /\ phase' = IF GeometryFits(geom) THEN "divided" ELSE "refused"
  /\ UNCHANGED inputs

(* The rest of setup_layout, with init_io_node.                            *)
IoGeometryFits ==
  iogeom = NoGeom \/ \A d \in Dirs : nsquares[d] % iogeom[d] = 0

SetupLayout ==
  /\ phase = "divided"
  /\ phase' = IF IoGeometryFits THEN "ready" ELSE "refused"
  /\ UNCHANGED <<inputs, squaresize, nsquares, i>>

-----------------------------------------------------------------------------
(* What the layout hands out.                                              *)

Ranks == 0 .. numnodes - 1
LatticeSites == Box(len)

sites_on_node == Product(squaresize)
MachineCoordinates(r) == lex_coords(nsquares, r)

EvenSitesOnNode(r) ==
  sites_on_node \div 2 +
    (IF sites_on_node % 2 /= 0 /\ coord_parity(MachineCoordinates(r)) = 0
     THEN 1 ELSE 0)

node_number(x) == lex_rank(Quotients(x, squaresize), nsquares)

node_index(x) ==
  LET k == lex_rank(Remainders(x, squaresize), squaresize)
  IN  IF coord_parity(x) = 0 THEN k \div 2 ELSE (k + sites_on_node) \div 2

num_sites(r) == sites_on_node

(* get_coords.  Rounding the index down to an even lexicographic index     *)
(* leaves two neighboring sites of unlike parity; Advance is the step to   *)
(* the next site of the box that begins at origin.                         *)
AdvanceNoCarry(x, origin) == [x EXCEPT ![XUP] = @ + 1]   \* variant

Advance(x, origin) ==
  LET full(d) == x[d] + 1 >= origin[d] + squaresize[d]
      back(d) == x[d] + 1 - squaresize[d]
  IN  CASE ~full(XUP) -> [x EXCEPT ![XUP] = @ + 1]
        [] full(XUP) /\ ~full(YUP) ->
             [x EXCEPT ![XUP] = back(XUP), ![YUP] = @ + 1]
        [] full(XUP) /\ full(YUP) /\ ~full(ZUP) ->
             [x EXCEPT ![XUP] = back(XUP), ![YUP] = back(YUP), ![ZUP] = @ + 1]
        [] OTHER -> [x EXCEPT ![XUP] = back(XUP), ![YUP] = back(YUP),
                              ![ZUP] = back(ZUP), ![TUP] = @ + 1]

get_coords(r, index) ==
  LET mc     == MachineCoordinates(r)
      neven  == (sites_on_node + 1 - coord_parity(mc)) \div 2
      parity == IF index < neven THEN 0 ELSE 1
      ir     == IF index < neven THEN 2 * index ELSE 2 * (index - neven)
      origin == [d \in Dirs |-> mc[d] * squaresize[d]]
      local  == lex_coords(squaresize, ir)
      x      == [d \in Dirs |-> origin[d] + local[d]]
  IN  IF coord_parity(x) /= parity THEN Advance(x, origin) ELSE x

(* io_node: the coordinates of the node rounded down to its partition.     *)
PesPerIopartition == Quotients(nsquares, iogeom)

io_nodeByGeometry(r) ==   \* variant: rounds to the number of partitions
  IF iogeom = NoGeom THEN r
  ELSE LET c == MachineCoordinates(r)
       IN  lex_rank([d \in Dirs |-> iogeom[d] * (c[d] \div iogeom[d])], nsquares)

io_node(r) ==
  IF iogeom = NoGeom THEN r
  ELSE LET c == MachineCoordinates(r)
           s == PesPerIopartition
       IN  lex_rank([d \in Dirs |-> s[d] * (c[d] \div s[d])], nsquares)

-----------------------------------------------------------------------------
Ones == [d \in Dirs |-> 1]

Init ==
  /\ len \in Lattices
  /\ numnodes \in MachineSizes
  /\ geom \in {NoGeom} \union Geometries
  /\ iogeom \in {NoGeom} \union IoGeometries
  /\ squaresize = len
  /\ nsquares = Ones
  /\ i = 1
  /\ phase = IF geom = NoGeom THEN "divide" ELSE "fixed"

Next ==
  \/ DivideOnce \/ RunOutOfFactors \/ Divided
  \/ SetupFixedGeom
  \/ SetupLayout

Spec == Init /\ [][Next]_vars

-----------------------------------------------------------------------------
(* The type invariant.                                                     *)
TypeOK ==
  /\ len \in Sizes
  /\ numnodes \in Nat \ {0}
  /\ geom \in {NoGeom} \union Sizes
  /\ iogeom \in {NoGeom} \union Sizes
  /\ squaresize \in [Dirs -> Nat]
  /\ phase /= "refused" => squaresize \in Sizes
  /\ nsquares \in Sizes
  /\ i \in Nat \ {0}
  /\ phase \in {"fixed", "divide", "divided", "ready", "refused"}

(***************************************************************************)
(* While it is being divided the lattice is a grid of i equal boxes, and   *)
(* the nodes still to be provided for come out as a whole number: the      *)
(* prime taken at each step divides both the machine and the box.          *)
(***************************************************************************)
Tiling ==
  phase /= "refused" =>
    /\ \A d \in Dirs : squaresize[d] * nsquares[d] = len[d]
    /\ Product(nsquares) = i

(***************************************************************************)
(* When the loop ends there are as many boxes as nodes.  (It stops as soon *)
(* as there are not fewer.)                                                *)
(***************************************************************************)
BoxesMatchNodes ==
  phase \in {"divided", "ready"} => Product(nsquares) = numnodes

(***************************************************************************)
(* A lattice whose volume the number of nodes divides is always laid out:  *)
(* no choice of prime or direction, made greedily, leads to a dead end.    *)
(***************************************************************************)
RefusesOnlyIndivisible ==
  phase = "refused" /\ geom = NoGeom /\ IoGeometryFits =>
    Product(len) % numnodes /= 0

(***************************************************************************)
(* Every site has a place: its rank exists, and the indices of the sites   *)
(* of a rank are exactly those below num_sites (doc/milcv7.texi:2399), the *)
(* even sites first, also if a node has an odd number of sites.            *)
(***************************************************************************)
SitesPlaced ==
  phase = "ready" =>
    /\ AllPlaced(LatticeSites, Ranks, node_number)
    /\ OneToOne(LatticeSites, Ranks, node_number, node_index, num_sites)
    /\ EvenFirst(LatticeSites, node_number, node_index, EvenSitesOnNode)

(***************************************************************************)
(* get_coords is the inverse of node_number and node_index, so that its    *)
(* consistency checks never stop the program.                              *)
(***************************************************************************)
CoordsInverse ==
  phase = "ready" =>
    \A r \in Ranks : \A k \in 0 .. num_sites(r) - 1 :
      LET x == get_coords(r, k) IN
        node_number(x) = r /\ node_index(x) = k

(***************************************************************************)
(* The I/O nodes: one for each box of the I/O geometry, each its own I/O   *)
(* node, each serving equally many ranks, none higher than its own.        *)
(***************************************************************************)
IoPartitions ==
  phase = "ready" /\ iogeom /= NoGeom =>
    LET ionodes == {io_node(r) : r \in Ranks} IN
      /\ Cardinality(ionodes) = Product(iogeom)
      /\ \A r \in Ranks : io_node(r) \in Ranks /\ io_node(r) <= r
      /\ \A r \in ionodes :
           /\ io_node(r) = r
           /\ Cardinality({s \in Ranks : io_node(s) = r}) * Product(iogeom)
                = numnodes

(***************************************************************************)
(* The boxes tile the lattice at each step of the division, and at its end *)
(* there is one for each node, whether the division was computed or given. *)
(***************************************************************************)
LatticeDivided == TypeOK /\ Tiling /\ BoxesMatchNodes

(***************************************************************************)
(* Every site has a place of its own on exactly one node, even sites       *)
(* first, and get_coords leads from the place back to the site.            *)
(***************************************************************************)
PlacedOnce == SitesPlaced /\ CoordsInverse

=============================================================================
