----------------------------- MODULE LayoutProofs ------------------------------
(***************************************************************************)
(* Theorems about LayoutPrime and LayoutOrders, for lattices and machines  *)
(* of any size and any table of primes.                                    *)
(*                                                                         *)
(* The division: the boxes always tile the lattice, and if the table has   *)
(* the prime factors of the machine there are as many boxes as nodes when  *)
(* the division ends, and a lattice is refused only if the number of nodes *)
(* does not divide its volume.                                             *)
(*                                                                         *)
(* The places: every site has one, on a node and in the order of the node, *)
(* and the way back from the place leads to the site, in the order by      *)
(* parity and in that by 32 colors; the nodes that do I/O divide the ranks *)
(* evenly.                                                                 *)
(***************************************************************************)
EXTENDS LayoutOrders, TLAPS, WellFoundedInduction, FiniteSetTheorems

-----------------------------------------------------------------------------
(* Arithmetic.                                                             *)

LEMMA ProductType ==
  ASSUME NEW v \in Sizes PROVE Product(v) \in Nat \ {0}
<1> DEFINE a == v[XUP]  b == v[YUP]  c == v[ZUP]  d == v[TUP]
<1>1. a \in Nat \ {0} /\ b \in Nat \ {0} /\ c \in Nat \ {0} /\ d \in Nat \ {0}
  BY DEF Sizes, Dirs, XUP, YUP, ZUP, TUP
<1>2. ASSUME NEW x \in Nat \ {0}, NEW y \in Nat \ {0} PROVE x * y \in Nat \ {0}
  OBVIOUS
<1>3. a * b \in Nat \ {0}
  BY <1>1, <1>2
<1>4. a * b * c \in Nat \ {0}
  BY <1>1, <1>2, <1>3
<1>5. a * b * c * d \in Nat \ {0}
  BY <1>1, <1>2, <1>4
<1> QED BY <1>5 DEF Product

LEMMA Quotient ==
  ASSUME NEW n \in Nat, NEW p \in Nat \ {0}, n % p = 0
  PROVE  n \div p \in Nat /\ n = (n \div p) * p
OBVIOUS

LEMMA CancelQuotient ==
  ASSUME NEW n \in Nat \ {0}, NEW q \in Nat
  PROVE  (n * q) \div n = q
OBVIOUS

LEMMA TimesTimes ==
  ASSUME NEW x \in Nat, NEW y \in Nat, NEW z \in Nat
  PROVE  x * y \in Nat /\ x * (y * z) = (x * y) * z
OBVIOUS

LEMMA ProductRemainder ==
  ASSUME NEW n \in Nat, NEW q \in Nat \ {0}
  PROVE  (n * q) % q = 0
OBVIOUS

LEMMA ProductTimes ==
  ASSUME NEW v \in Sizes, NEW d \in Dirs, NEW p \in Nat \ {0}
  PROVE  Product([v EXCEPT ![d] = @ * p]) = Product(v) * p
<1>1. CASE d = XUP
  BY <1>1 DEF Product, Sizes, Dirs, XUP, YUP, ZUP, TUP
<1>2. CASE d = YUP
  BY <1>2 DEF Product, Sizes, Dirs, XUP, YUP, ZUP, TUP
<1>3. CASE d = ZUP
  BY <1>3 DEF Product, Sizes, Dirs, XUP, YUP, ZUP, TUP
<1>4. CASE d = TUP
  BY <1>4 DEF Product, Sizes, Dirs, XUP, YUP, ZUP, TUP
<1> QED BY <1>1, <1>2, <1>3, <1>4 DEF Dirs, XUP, YUP, ZUP, TUP

-----------------------------------------------------------------------------
(* The steps of the division.                                              *)

(* The inputs are those Init chose.                                        *)
InputsKept ==
  /\ len \in Lattices /\ numnodes \in MachineSizes
  /\ geom \in {NoGeom} \union Geometries
  /\ iogeom \in {NoGeom} \union IoGeometries
  /\ phase = "fixed" => geom /= NoGeom

LInv == TypeOK /\ InputsKept /\ Tiling

LEMMA PrimeType ==
  ASSUME NEW k \in DOMAIN prime PROVE prime[k] \in Nat \ {0, 1}
BY PrimeAssumption

LEMMA InitLInv == Init => LInv
<1> SUFFICES ASSUME Init PROVE LInv
  OBVIOUS
<1> USE SizesAssumption
<1>1. len \in Sizes /\ Ones \in Sizes
  BY DEF Init, Ones, Sizes
<1>2. TypeOK
  BY <1>1 DEF Init, TypeOK, Sizes
<1>3. InputsKept
  BY DEF Init, InputsKept
<1>4. Tiling
  <2>1. \A d \in Dirs : squaresize[d] * nsquares[d] = len[d]
    BY <1>1 DEF Init, Ones, Sizes
  <2>2. Product(nsquares) = i
    BY DEF Init, Ones, Product, Dirs, XUP, YUP, ZUP, TUP
  <2> QED BY <2>1, <2>2 DEF Tiling
<1> QED BY <1>2, <1>3, <1>4 DEF LInv

LEMMA DivideOnceLInv ==
  ASSUME LInv, DivideOnce PROVE LInv'
<1> USE DEF LInv
<1>1. PICK k \in DOMAIN prime, dir \in Dirs :
        Preferred(Longest(prime[k]), dir) /\ DivideBy(prime[k], dir)
  BY DEF DivideOnce
<1> DEFINE p == prime[k]
           s == squaresize[dir]
<1>2. p \in Nat \ {0, 1}
  BY PrimeType
<1>3. dir \in Longest(p)
  BY <1>1 DEF Preferred
<1>4. squaresize \in Sizes /\ nsquares \in Sizes /\ i \in Nat \ {0}
  BY DEF DivideOnce, TypeOK
<1>5. s \in Nat \ {0} /\ s % p = 0
  BY <1>3, <1>4 DEF Longest, Sizes
<1>6. s \div p \in Nat /\ s = (s \div p) * p
  BY <1>2, <1>5, Quotient
<1>7. s \div p \in Nat \ {0}
  BY <1>2, <1>5, <1>6
<1>8. squaresize' = [squaresize EXCEPT ![dir] = s \div p] /\ squaresize' \in Sizes
  BY <1>1, <1>4, <1>7 DEF DivideBy, Sizes
<1>9. nsquares' = [nsquares EXCEPT ![dir] = @ * p] /\ nsquares' \in Sizes
  BY <1>1, <1>2, <1>4 DEF DivideBy, Sizes
<1>10. i' = i * p /\ i' \in Nat \ {0}
  BY <1>1, <1>2, <1>4 DEF DivideBy
<1>11. UNCHANGED <<inputs, phase>>
  BY <1>1 DEF DivideBy
<1>12. TypeOK'
  BY <1>8, <1>9, <1>10, <1>11 DEF TypeOK, Sizes, inputs
<1>13. InputsKept'
  BY <1>11 DEF InputsKept, inputs
<1>14. Tiling'
  <2>1. Tiling /\ phase = "divide"
    BY DEF DivideOnce
  <2>2. ASSUME NEW d \in Dirs PROVE squaresize'[d] * nsquares'[d] = len'[d]
    <3>1. CASE d /= dir
      BY <2>1, <3>1, <1>4, <1>8, <1>9, <1>11 DEF Tiling, Sizes, inputs
    <3>2. CASE d = dir
      <4> DEFINE n == nsquares[dir]  t == s \div p
      <4>1. n \in Nat /\ t \in Nat
        BY <1>4, <1>6 DEF Sizes
      <4>2. squaresize'[d] = t /\ nsquares'[d] = n * p
        BY <3>2, <1>4, <1>8, <1>9 DEF Sizes
      <4>3. s * n = len[d]
        BY <2>1, <3>2 DEF Tiling
      <4>4. (t * p) * n = t * (n * p)
        BY <4>1, <1>2
      <4>5. t * (n * p) = len[d]
        BY <4>3, <4>4, <1>6
      <4> HIDE DEF n, t
      <4> QED BY <4>2, <4>5, <1>11 DEF inputs
    <3> QED BY <3>1, <3>2
  <2>3. Product(nsquares') = i'
    <3>1. Product([nsquares EXCEPT ![dir] = @ * p]) = Product(nsquares) * p
      BY <1>2, <1>4, ProductTimes
    <3>2. Product(nsquares) = i
      BY <2>1 DEF Tiling
    <3> QED BY <3>1, <3>2, <1>9, <1>10
  <2> QED BY <2>2, <2>3 DEF Tiling
<1> QED BY <1>12, <1>13, <1>14

LEMMA SetupFixedGeomLInv ==
  ASSUME LInv, SetupFixedGeom PROVE LInv'
<1> USE DEF LInv
<1>1. geom \in Sizes
  BY SizesAssumption DEF InputsKept, SetupFixedGeom
<1>2. squaresize' = Quotients(len, geom) /\ nsquares' = geom
      /\ i' = Product(geom) /\ UNCHANGED inputs
  BY DEF SetupFixedGeom
<1>3. Product(geom) \in Nat \ {0}
  BY <1>1, ProductType
<1>4. ASSUME NEW d \in Dirs
      PROVE  squaresize'[d] \in Nat
  BY <1>1, <1>2 DEF TypeOK, Sizes, Quotients
<1>5. squaresize' \in [Dirs -> Nat]
  BY <1>2, <1>4 DEF Quotients
<1>6. CASE GeometryFits(geom)
  <2>1. ASSUME NEW d \in Dirs
        PROVE  /\ squaresize'[d] * geom[d] = len[d]
               /\ squaresize'[d] \in Nat \ {0}
    <3>1. len[d] \in Nat \ {0} /\ geom[d] \in Nat \ {0}
      BY <1>1 DEF TypeOK, Sizes
    <3>2. len[d] % geom[d] = 0
      BY <1>6 DEF GeometryFits
    <3>3. squaresize'[d] = len[d] \div geom[d]
      BY <1>2 DEF Quotients
    <3>4. len[d] \div geom[d] \in Nat /\ len[d] = (len[d] \div geom[d]) * geom[d]
      BY <3>1, <3>2, Quotient
    <3>5. len[d] \div geom[d] /= 0
      BY <3>1, <3>4
    <3> QED BY <3>3, <3>4, <3>5
  <2>2. squaresize' \in Sizes
    BY <2>1, <1>5 DEF Sizes
  <2>3. phase' = "divided"
    BY <1>6 DEF SetupFixedGeom
  <2>4. TypeOK'
    BY <1>1, <1>2, <1>3, <1>5, <2>2, <2>3 DEF TypeOK, inputs
  <2>5. InputsKept'
    BY <1>2, <2>3 DEF InputsKept, inputs
  <2>6. Tiling'
    BY <1>2, <2>1 DEF Tiling, inputs
  <2> QED BY <2>4, <2>5, <2>6
<1>7. CASE ~GeometryFits(geom)
  <2>1. phase' = "refused"
    BY <1>7 DEF SetupFixedGeom
  <2> QED BY <1>1, <1>2, <1>3, <1>5, <2>1 DEF TypeOK, InputsKept, Tiling, inputs
<1> QED BY <1>6, <1>7

LEMMA NextLInv == LInv /\ [Next]_vars => LInv'
<1> SUFFICES ASSUME LInv, [Next]_vars PROVE LInv'
  OBVIOUS
<1>1. CASE DivideOnce
  BY <1>1, DivideOnceLInv
<1>2. CASE RunOutOfFactors
  BY <1>2 DEF RunOutOfFactors, LInv, TypeOK, InputsKept, Tiling, inputs
<1>3. CASE Divided
  BY <1>3 DEF Divided, LInv, TypeOK, InputsKept, Tiling, inputs
<1>4. CASE SetupFixedGeom
  BY <1>4, SetupFixedGeomLInv
<1>5. CASE SetupLayout
  BY <1>5 DEF SetupLayout, LInv, TypeOK, InputsKept, Tiling, inputs
<1>6. CASE UNCHANGED vars
  BY <1>6 DEF vars, LInv, TypeOK, InputsKept, Tiling, inputs
<1> QED BY <1>1, <1>2, <1>3, <1>4, <1>5, <1>6 DEF Next

(***************************************************************************)
(* Type correctness of setup_layout: no dimension is ever divided to       *)
(* nothing unless a geometry that does not fit is refused.                 *)
(***************************************************************************)
THEOREM LayoutTypeCorrect == Spec => []TypeOK
<1>1. LInv => TypeOK
  BY DEF LInv
<1> QED BY InitLInv, NextLInv, <1>1, PTL DEF Spec

(***************************************************************************)
(* For every lattice, machine and table of primes, the boxes tile the      *)
(* lattice at every step of the division.                                  *)
(***************************************************************************)
THEOREM BoxesTile == Spec => []Tiling
<1>1. LInv => Tiling
  BY DEF LInv
<1> QED BY InitLInv, NextLInv, <1>1, PTL DEF Spec

-----------------------------------------------------------------------------
(* The end of the division.                                                *)

(* Every divisor of a machine has a prime of the table.                    *)
TableSuffices ==
  \A n \in MachineSizes : \A m \in 2 .. n :
    n % m = 0 => \E k \in DOMAIN prime : m % prime[k] = 0

(* The boxes made so far divide the nodes evenly.                          *)
NodesLeft ==
  phase = "divide" => \E q \in Nat \ {0} : numnodes = i * q

DInv == LInv /\ NodesLeft /\ BoxesMatchNodes

LEMMA StopsAtDivisor ==
  ASSUME NEW m, NEW k \in DOMAIN prime, StopsAt(m, k),
         NEW l \in DOMAIN prime, m % prime[l] = 0
  PROVE  m % prime[k] = 0
<1>1. l \in Nat \ {0} /\ k \in Nat \ {0}
  BY PrimeAssumption
<1>2. ~(l > k)
  BY DEF StopsAt
<1>3. CASE k = 1
  BY <1>1, <1>2, <1>3
<1> QED BY <1>3 DEF StopsAt

LEMMA DivideOnceNodesLeft ==
  ASSUME TableSuffices, LInv, NodesLeft, DivideOnce PROVE NodesLeft'
<1>1. PICK k \in DOMAIN prime, dir \in Dirs :
        StopsAt(numnodes \div i, k) /\ DivideBy(prime[k], dir)
  BY DEF DivideOnce
<1>2. PICK q \in Nat \ {0} : numnodes = i * q
  BY DEF DivideOnce, NodesLeft
<1> DEFINE p == prime[k]
<1>3. i \in Nat \ {0} /\ numnodes \in Nat \ {0} /\ i < numnodes
      /\ numnodes \in MachineSizes
  BY DEF LInv, TypeOK, InputsKept, DivideOnce
<1>4. p \in Nat \ {0, 1}
  BY PrimeType
<1>5. numnodes \div i = q
  BY <1>2, <1>3, CancelQuotient
<1>6. q \in 2 .. numnodes
  <2>1. q /= 1
    BY <1>2, <1>3
  <2>2. q <= i * q
    BY <1>2, <1>3
  <2> QED BY <1>2, <1>3, <2>1, <2>2
<1>7. numnodes % q = 0
  BY <1>2, <1>3, ProductRemainder
<1>8. PICK l \in DOMAIN prime : q % prime[l] = 0
  BY <1>3, <1>6, <1>7 DEF TableSuffices
<1>9. q % p = 0
  BY <1>1, <1>5, <1>8, StopsAtDivisor
<1> DEFINE r == q \div p
<1>10. r \in Nat /\ q = r * p
  BY <1>2, <1>4, <1>9, Quotient
<1>11. r \in Nat \ {0}
  BY <1>2, <1>4, <1>10
<1>12. i * (r * p) = (i * p) * r
  BY <1>3, <1>4, <1>10
<1>13. i' = i * p /\ numnodes' = numnodes
  BY <1>1 DEF DivideBy, inputs
<1>14. numnodes' = i' * r
  BY <1>2, <1>10, <1>12, <1>13
<1> HIDE DEF r
<1> QED BY <1>11, <1>14 DEF NodesLeft

LEMMA DividedMatches ==
  ASSUME LInv, NodesLeft, Divided PROVE Product(nsquares') = numnodes'
<1>1. PICK q \in Nat \ {0} : numnodes = i * q
  BY DEF Divided, NodesLeft
<1>2. i \in Nat \ {0} /\ i >= numnodes /\ Product(nsquares) = i
  BY DEF LInv, TypeOK, Tiling, Divided
<1>3. i * q >= i
  BY <1>1, <1>2
<1>4. numnodes = i
  BY <1>1, <1>2, <1>3
<1> QED BY <1>2, <1>4 DEF Divided, inputs

LEMMA NextDInv == TableSuffices => (DInv /\ [Next]_vars => DInv')
<1> SUFFICES ASSUME TableSuffices, DInv, [Next]_vars PROVE DInv'
  OBVIOUS
<1>1. LInv'
  BY NextLInv DEF DInv
<1> USE DEF DInv
<1>2. CASE DivideOnce
  <2>1. phase' = "divide"
    BY <1>2 DEF DivideOnce, DivideBy
  <2> QED BY <1>1, <1>2, <2>1, DivideOnceNodesLeft DEF BoxesMatchNodes
<1>3. CASE RunOutOfFactors
  BY <1>1, <1>3 DEF RunOutOfFactors, NodesLeft, BoxesMatchNodes
<1>4. CASE Divided
  <2>1. phase' = "divided"
    BY <1>4 DEF Divided
  <2> QED BY <1>1, <1>4, <2>1, DividedMatches DEF NodesLeft, BoxesMatchNodes
<1>5. CASE SetupFixedGeom
  <2>1. phase' = "divided" => Product(nsquares') = numnodes'
    BY <1>5 DEF SetupFixedGeom, GeometryFits, inputs
  <2>2. phase' \in {"divided", "refused"}
    BY <1>5 DEF SetupFixedGeom
  <2> QED BY <1>1, <2>1, <2>2 DEF NodesLeft, BoxesMatchNodes
<1>6. CASE SetupLayout
  BY <1>1, <1>6 DEF SetupLayout, NodesLeft, BoxesMatchNodes, inputs
<1>7. CASE UNCHANGED vars
  BY <1>1, <1>7 DEF vars, inputs, NodesLeft, BoxesMatchNodes
<1> QED BY <1>2, <1>3, <1>4, <1>5, <1>6, <1>7 DEF Next

LEMMA InitDInv == Init => DInv
<1> SUFFICES ASSUME Init PROVE DInv
  OBVIOUS
<1>1. LInv
  BY InitLInv
<1>2. NodesLeft
  <2>1. i = 1 /\ numnodes \in Nat \ {0}
    BY <1>1 DEF Init, LInv, TypeOK
  <2>2. numnodes = i * numnodes
    BY <2>1
  <2> QED BY <2>1, <2>2 DEF NodesLeft
<1>3. BoxesMatchNodes
  BY DEF Init, BoxesMatchNodes
<1> QED BY <1>1, <1>2, <1>3 DEF DInv

(***************************************************************************)
(* If every divisor of the machine has a prime of the table, the division  *)
(* ends with exactly as many boxes as there are nodes.  (The table of the  *)
(* code ends at 53: of 59 nodes it makes 116 boxes.)                       *)
(***************************************************************************)
THEOREM DivisionExact == TableSuffices => (Spec => []BoxesMatchNodes)
<1>1. Init => DInv
  BY InitDInv
<1>2. DInv => BoxesMatchNodes
  BY DEF DInv
<1> SUFFICES ASSUME TableSuffices PROVE Spec => []BoxesMatchNodes
  OBVIOUS
<1>3. DInv /\ [Next]_vars => DInv'
  BY NextDInv
<1> QED BY <1>1, <1>2, <1>3, PTL DEF Spec

(***************************************************************************)
(* What the run checks of the division, for every lattice, machine, given  *)
(* geometry and sufficient table of primes: the boxes tile the lattice at  *)
(* each step and match the nodes at the end.                               *)
(***************************************************************************)
THEOREM LatticeIsDivided == TableSuffices => (Spec => []LatticeDivided)
<1> SUFFICES ASSUME TableSuffices PROVE Spec => []LatticeDivided
  OBVIOUS
<1>1. Spec => []BoxesMatchNodes
  BY DivisionExact
<1>2. TypeOK /\ Tiling /\ BoxesMatchNodes => LatticeDivided
  BY DEF LatticeDivided
<1> QED BY <1>1, <1>2, LayoutTypeCorrect, BoxesTile, PTL

-----------------------------------------------------------------------------
(* Greed is not punished: a prime that divides the lattice divides one of  *)
(* its dimensions.                                                         *)

LEMMA LeastNumber ==
  ASSUME NEW S, S \subseteq Nat, S /= {}
  PROVE  \E x \in S : \A y \in S : x <= y
<1>1. PICK R : R = OpToRel(<, Nat)
  OBVIOUS
<1>2. IsWellFoundedOn(R, Nat)
  BY <1>1, NatLessThanWellFounded, Zenon
<1>3. PICK x \in S : \A y \in S : <<y, x>> \notin R
  BY <1>2, WFMin
<1>4. \A y \in S : x \in Nat /\ y \in Nat /\ ~(y < x)
  BY <1>1, <1>3 DEF OpToRel
<1> QED BY <1>3, <1>4

Multiple(n, p) == \E q \in Nat : n = q * p

LEMMA MultipleRemainder ==
  ASSUME NEW n \in Nat, NEW p \in Nat \ {0}
  PROVE  Multiple(n, p) <=> n % p = 0
<1>1. ASSUME n % p = 0 PROVE Multiple(n, p)
  BY <1>1, Quotient DEF Multiple
<1>2. ASSUME NEW q \in Nat, n = q * p PROVE n % p = 0
  BY <1>2, ProductRemainder
<1> QED BY <1>1, <1>2 DEF Multiple

LEMMA MultipleDifference ==
  ASSUME NEW m \in Nat, NEW n \in Nat, NEW p \in Nat \ {0},
         Multiple(m + n, p), Multiple(n, p)
  PROVE  Multiple(m, p)
<1>1. PICK x \in Nat : m + n = x * p
  BY DEF Multiple
<1>2. PICK y \in Nat : n = y * p
  BY DEF Multiple
<1>3. y <= x
  <2> SUFFICES ASSUME y > x PROVE FALSE
    OBVIOUS
  <2>1. PICK z \in Nat : y = x + z /\ z > 0
    <3>1. y - x \in Nat /\ y = x + (y - x) /\ y - x > 0
      OBVIOUS
    <3> QED BY <3>1
  <2>2. y * p = x * p + z * p
    BY <2>1
  <2>3. z * p > 0
    BY <2>1
  <2> QED BY <1>1, <1>2, <2>2, <2>3
<1>4. x - y \in Nat
  BY <1>3
<1>5. m = (x - y) * p
  <2>1. (x - y) * p = x * p - y * p
    OBVIOUS
  <2> QED BY <1>1, <1>2, <2>1
<1> QED BY <1>4, <1>5 DEF Multiple

(* What brings a up to a multiple of p is a multiple of the least such     *)
(* number.                                                                 *)
Cofactor(x, a, p) == x \in Nat /\ Multiple(a * x, p)

LEMMA LeastCofactor ==
  ASSUME NEW a \in Nat, NEW p \in Nat \ {0}, NEW m \in Nat \ {0},
         Cofactor(m, a, p),
         \A x \in Nat \ {0} : Cofactor(x, a, p) => m <= x,
         NEW n \in Nat, Cofactor(n, a, p)
  PROVE  n % m = 0
<1> USE DEF Cofactor
<1> DEFINE q == n \div m
           r == n % m
<1>1. q \in Nat /\ r \in Nat /\ r < m /\ n = q * m + r
  OBVIOUS
<1> HIDE DEF q, r
<1>2. a * n = a * r + q * (a * m)
  BY <1>1
<1>3. Multiple(q * (a * m), p)
  <2>1. PICK z \in Nat : a * m = z * p
    BY DEF Multiple
  <2>2. q * z \in Nat /\ q * (z * p) = (q * z) * p
    BY <1>1
  <2> QED BY <2>1, <2>2 DEF Multiple
<1>4. Multiple(a * r, p)
  <2>1. a * r \in Nat /\ q * (a * m) \in Nat
    BY <1>1
  <2>2. Multiple(a * r + q * (a * m), p)
    BY <1>2
  <2> QED BY <1>3, <2>1, <2>2, MultipleDifference
<1>5. r = 0
  BY <1>1, <1>4
<1> QED BY <1>5 DEF r

IsPrime(p) == p \in Nat \ {0, 1} /\ \A m \in 2 .. p - 1 : p % m /= 0

(* Euclid's lemma.                                                         *)
LEMMA PrimeDividesFactor ==
  ASSUME NEW p, IsPrime(p), NEW a \in Nat, NEW b \in Nat, (a * b) % p = 0
  PROVE  a % p = 0 \/ b % p = 0
<1> SUFFICES ASSUME a % p /= 0 PROVE b % p = 0
  OBVIOUS
<1>1. p \in Nat \ {0, 1}
  BY DEF IsPrime
<1> DEFINE S == {x \in Nat \ {0} : Cofactor(x, a, p)}
<1>2. Cofactor(p, a, p)
  BY <1>1 DEF Cofactor, Multiple
<1>3. PICK m \in S : \A x \in S : m <= x
  <2>1. S \subseteq Nat /\ S /= {}
    BY <1>1, <1>2
  <2> HIDE DEF S
  <2> QED BY <2>1, LeastNumber
<1>4. /\ m \in Nat \ {0} /\ Cofactor(m, a, p) /\ m <= p
      /\ \A x \in Nat \ {0} : Cofactor(x, a, p) => m <= x
  BY <1>1, <1>2, <1>3
<1> HIDE DEF S
<1>0. \A n \in Nat : Cofactor(n, a, p) => n % m = 0
  <2>1. p \in Nat \ {0} /\ a \in Nat
    BY <1>1
  <2> QED BY <1>4, <2>1, LeastCofactor, Zenon
<1>5. p % m = 0
  BY <1>0, <1>1, <1>2
<1>6. m /= 1
  <2> SUFFICES ASSUME m = 1 PROVE FALSE
    OBVIOUS
  <2>1. a * m = a
    OBVIOUS
  <2>2. Multiple(a, p)
    BY <1>4, <2>1 DEF Cofactor
  <2> QED BY <1>1, <2>2, MultipleRemainder
<1>7. m = p
  BY <1>1, <1>4, <1>5, <1>6 DEF IsPrime
<1>8. Cofactor(b, a, p)
  <2>1. a * b \in Nat
    OBVIOUS
  <2> QED BY <1>1, <2>1, MultipleRemainder DEF Cofactor
<1>9. b % m = 0
  BY <1>0, <1>8
<1> QED BY <1>7, <1>9

LEMMA PrimeDividesDimension ==
  ASSUME NEW p, IsPrime(p), NEW v \in Sizes, Product(v) % p = 0
  PROVE  \E d \in Dirs : v[d] % p = 0
<1> DEFINE a == v[XUP]  b == v[YUP]  c == v[ZUP]  d == v[TUP]
<1>1. a \in Nat /\ b \in Nat /\ c \in Nat /\ d \in Nat
  BY DEF Sizes, Dirs, XUP, YUP, ZUP, TUP
<1>2. XUP \in Dirs /\ YUP \in Dirs /\ ZUP \in Dirs /\ TUP \in Dirs
  BY DEF Dirs, XUP, YUP, ZUP, TUP
<1>3. ((a * b * c) * d) % p = 0
  BY DEF Product
<1> HIDE DEF a, b, c, d
<1>4. a * b \in Nat /\ a * b * c \in Nat
  BY <1>1
<1>5. (a * b * c) % p = 0 \/ d % p = 0
  BY <1>1, <1>3, <1>4, PrimeDividesFactor
<1>6. (a * b) % p = 0 \/ c % p = 0 \/ d % p = 0
  BY <1>1, <1>4, <1>5, PrimeDividesFactor
<1>7. a % p = 0 \/ b % p = 0 \/ c % p = 0 \/ d % p = 0
  BY <1>1, <1>6, PrimeDividesFactor
<1> QED BY <1>2, <1>7 DEF a, b, c, d

LEMMA LongestExists ==
  ASSUME NEW p, squaresize \in Sizes, \E d \in Dirs : squaresize[d] % p = 0
  PROVE  Longest(p) /= {}
<1> DEFINE D == {d \in Dirs : squaresize[d] % p = 0}
           M == squaresize[XUP] + squaresize[YUP] + squaresize[ZUP] + squaresize[TUP]
           S == {M - squaresize[d] : d \in D}
<1>1. \A d \in Dirs : squaresize[d] \in Nat /\ M - squaresize[d] \in Nat
  BY DEF Sizes, Dirs, XUP, YUP, ZUP, TUP
<1>2. M \in Nat
  BY DEF Sizes, Dirs, XUP, YUP, ZUP, TUP
<1> HIDE DEF M
<1>3. S \subseteq Nat /\ S /= {}
  BY <1>1
<1>4. PICK x \in S : \A y \in S : x <= y
  <2> HIDE DEF S
  <2> QED BY <1>3, LeastNumber
<1>5. PICK d \in D : x = M - squaresize[d]
  BY <1>4
<1>6. ASSUME NEW e \in D PROVE squaresize[e] <= squaresize[d]
  <2>1. M - squaresize[e] \in S
    OBVIOUS
  <2>2. x <= M - squaresize[e]
    BY <1>4, <2>1
  <2>3. squaresize[e] \in Nat /\ squaresize[d] \in Nat
    BY <1>1
  <2> QED BY <1>2, <1>5, <2>2, <2>3
<1> QED BY <1>5, <1>6 DEF Longest

LEMMA ProductOfGrid ==
  ASSUME NEW v \in Sizes, NEW w \in Sizes, NEW u \in Sizes,
         \A d \in Dirs : v[d] * w[d] = u[d]
  PROVE  Product(v) * Product(w) = Product(u)
<1>1. /\ v[XUP] \in Nat /\ v[YUP] \in Nat /\ v[ZUP] \in Nat /\ v[TUP] \in Nat
      /\ w[XUP] \in Nat /\ w[YUP] \in Nat /\ w[ZUP] \in Nat /\ w[TUP] \in Nat
      /\ u[XUP] = v[XUP] * w[XUP] /\ u[YUP] = v[YUP] * w[YUP]
      /\ u[ZUP] = v[ZUP] * w[ZUP] /\ u[TUP] = v[TUP] * w[TUP]
  BY DEF Sizes, Dirs, XUP, YUP, ZUP, TUP
<1>2. ASSUME NEW a \in Nat, NEW b \in Nat, NEW c \in Nat, NEW d \in Nat
      PROVE  (a * b) * (c * d) = (a * c) * (b * d)
  OBVIOUS
<1> DEFINE a == v[XUP] * v[YUP]  b == w[XUP] * w[YUP]
<1>3. a * b = u[XUP] * u[YUP] /\ a \in Nat /\ b \in Nat
  BY <1>1, <1>2
<1> HIDE DEF a, b
<1> DEFINE c == a * v[ZUP]  d == b * w[ZUP]
<1>4. c * d = u[XUP] * u[YUP] * u[ZUP] /\ c \in Nat /\ d \in Nat
  BY <1>1, <1>2, <1>3
<1> HIDE DEF c, d
<1>5. (c * v[TUP]) * (d * w[TUP]) = u[XUP] * u[YUP] * u[ZUP] * u[TUP]
  BY <1>1, <1>2, <1>4
<1> QED BY <1>5 DEF Product, a, b, c, d

(* The entries of the table are prime numbers.                             *)
TableOfPrimes == \A k \in DOMAIN prime : IsPrime(prime[k])

LEMMA RunsOutOnlyIndivisible ==
  ASSUME TableSuffices, TableOfPrimes, DInv, RunOutOfFactors
  PROVE  Product(len) % numnodes /= 0
<1> SUFFICES ASSUME Product(len) % numnodes = 0 PROVE FALSE
  OBVIOUS
<1>1. PICK k \in DOMAIN prime :
        StopsAt(numnodes \div i, k) /\ Longest(prime[k]) = {}
  BY DEF RunOutOfFactors
<1> DEFINE p == prime[k]
<1>2. IsPrime(p) /\ p \in Nat \ {0, 1}
  BY PrimeType DEF TableOfPrimes
<1>3. /\ phase = "divide" /\ i < numnodes
      /\ LInv /\ NodesLeft
  BY DEF RunOutOfFactors, DInv
<1>4. /\ i \in Nat \ {0} /\ numnodes \in Nat \ {0} /\ numnodes \in MachineSizes
      /\ len \in Sizes /\ squaresize \in Sizes /\ nsquares \in Sizes
  BY <1>3 DEF LInv, TypeOK, InputsKept
<1>5. PICK q \in Nat \ {0} : numnodes = i * q
  BY <1>3 DEF NodesLeft
<1>6. q % p = 0
  <2>1. numnodes \div i = q
    BY <1>4, <1>5, CancelQuotient
  <2>2. q \in 2 .. numnodes
    <3>1. q /= 1
      BY <1>3, <1>4, <1>5
    <3>2. q <= i * q
      BY <1>4
    <3> QED BY <1>5, <3>1, <3>2
  <2>3. numnodes % q = 0
    BY <1>4, <1>5, ProductRemainder
  <2>4. PICK l \in DOMAIN prime : q % prime[l] = 0
    BY <1>4, <2>2, <2>3 DEF TableSuffices
  <2> QED BY <1>1, <2>1, <2>4, StopsAtDivisor
<1> DEFINE s == Product(squaresize)
<1>7. s \in Nat /\ Product(len) \in Nat /\ s * i = Product(len)
  <2>1. \A d \in Dirs : squaresize[d] * nsquares[d] = len[d]
    BY <1>3 DEF LInv, Tiling
  <2>2. Product(squaresize) * Product(nsquares) = Product(len)
    BY <1>4, <2>1, ProductOfGrid
  <2>3. Product(nsquares) = i
    BY <1>3 DEF LInv, Tiling
  <2> QED BY <1>4, <2>2, <2>3, ProductType
<1> HIDE DEF s
<1>8. PICK z \in Nat : Product(len) = z * numnodes
  BY <1>4, <1>7, Quotient
<1>9. s = z * q
  <2>1. s * i = (z * q) * i
    BY <1>4, <1>5, <1>7, <1>8
  <2>2. z * q \in Nat
    OBVIOUS
  <2>3. \A x, y \in Nat : x * i = y * i => x = y
    BY <1>4
  <2> QED BY <1>7, <2>1, <2>2, <2>3
<1>10. s % p = 0
  <2>1. PICK r \in Nat : q = r * p
    BY <1>2, <1>6, Quotient
  <2>2. z * (r * p) = (z * r) * p /\ z * r \in Nat
    BY <1>2, TimesTimes
  <2> DEFINE t == z * r
  <2>3. t \in Nat /\ s = t * p
    BY <1>9, <2>1, <2>2
  <2> HIDE DEF t
  <2>4. (t * p) % p = 0
    BY <1>2, <2>3, ProductRemainder
  <2> QED BY <2>3, <2>4
<1>11. \E d \in Dirs : squaresize[d] % p = 0
  BY <1>2, <1>4, <1>10, PrimeDividesDimension DEF s
<1> QED BY <1>1, <1>4, <1>11, LongestExists

LEMMA NextRefuses ==
  ASSUME TableSuffices, TableOfPrimes, DInv, RefusesOnlyIndivisible, [Next]_vars
  PROVE  RefusesOnlyIndivisible'
<1>1. CASE DivideOnce
  BY <1>1 DEF DivideOnce, DivideBy, RefusesOnlyIndivisible
<1>2. CASE RunOutOfFactors
  <2>1. UNCHANGED inputs
    BY <1>2 DEF RunOutOfFactors
  <2> QED BY <1>2, <2>1, RunsOutOnlyIndivisible DEF RefusesOnlyIndivisible, inputs
<1>3. CASE Divided
  BY <1>3 DEF Divided, RefusesOnlyIndivisible
<1>4. CASE SetupFixedGeom
  <2>1. geom' /= NoGeom
    BY <1>4 DEF SetupFixedGeom, inputs, DInv, LInv, InputsKept
  <2> QED BY <2>1 DEF RefusesOnlyIndivisible, NoGeom
<1>5. CASE SetupLayout
  <2>1. phase' = "refused" => ~IoGeometryFits'
    BY <1>5 DEF SetupLayout, IoGeometryFits, inputs, NoGeom
  <2> QED BY <2>1 DEF RefusesOnlyIndivisible
<1>6. CASE UNCHANGED vars
  BY <1>6 DEF vars, inputs, RefusesOnlyIndivisible, IoGeometryFits, NoGeom
<1> QED BY <1>1, <1>2, <1>3, <1>4, <1>5, <1>6 DEF Next

(***************************************************************************)
(* setup_hyper_prime divides greedily, the largest prime first and the     *)
(* longest dimension, and never takes a step back.  If its table has the   *)
(* primes of the machine, it fails with "not enough factors" only for a    *)
(* lattice whose volume the number of nodes does not divide.               *)
(***************************************************************************)
THEOREM GreedSuffices ==
  TableSuffices /\ TableOfPrimes => (Spec => []RefusesOnlyIndivisible)
<1> SUFFICES ASSUME TableSuffices, TableOfPrimes
             PROVE  Spec => []RefusesOnlyIndivisible
  OBVIOUS
<1>1. Init => DInv
  BY InitDInv
<1>2. Init => RefusesOnlyIndivisible
  BY DEF Init, RefusesOnlyIndivisible
<1>3. DInv /\ [Next]_vars => DInv'
  BY NextDInv
<1>4. DInv /\ RefusesOnlyIndivisible /\ [Next]_vars => RefusesOnlyIndivisible'
  BY NextRefuses
<1> QED BY <1>1, <1>2, <1>3, <1>4, PTL DEF Spec

-----------------------------------------------------------------------------
(* Lexicographic ranks.                                                    *)

LEMMA DivRem ==
  ASSUME NEW n \in Nat, NEW s \in Nat \ {0}
  PROVE  /\ n \div s \in Nat /\ n % s \in Nat /\ n % s < s
         /\ n = (n \div s) * s + (n % s)
OBVIOUS

LEMMA LessThanOnce ==
  ASSUME NEW s \in Nat \ {0}, NEW x \in Nat, NEW y \in Nat, x < y
  PROVE  x * s + s <= y * s
<1>1. PICK z \in Nat : y = x + 1 + z
  <2>1. y - x - 1 \in Nat /\ y = x + 1 + (y - x - 1)
    OBVIOUS
  <2> QED BY <2>1
<1>2. y * s = x * s + s + z * s /\ z * s \in Nat
  BY <1>1
<1> QED BY <1>2

LEMMA DivRemUnique ==
  ASSUME NEW s \in Nat \ {0}, NEW q \in Nat, NEW r \in Nat, r < s
  PROVE  (q * s + r) \div s = q /\ (q * s + r) % s = r
<1> DEFINE n == q * s + r
           x == n \div s
           y == n % s
<1>1. n \in Nat
  OBVIOUS
<1>2. n = q * s + r
  OBVIOUS
<1> HIDE DEF n
<1>3. x \in Nat /\ y \in Nat /\ y < s /\ n = x * s + y
  BY <1>1, DivRem
<1> HIDE DEF x, y
<1>4. ~(x < q)
  <2> SUFFICES ASSUME x < q PROVE FALSE
    OBVIOUS
  <2>1. x * s + s <= q * s
    BY <1>3, LessThanOnce
  <2> QED BY <1>2, <1>3, <2>1
<1>5. ~(q < x)
  <2> SUFFICES ASSUME q < x PROVE FALSE
    OBVIOUS
  <2>1. q * s + s <= x * s
    BY <1>3, LessThanOnce
  <2> QED BY <1>2, <1>3, <2>1
<1>6. x = q /\ y = r
  BY <1>2, <1>3, <1>4, <1>5
<1> QED BY <1>6 DEF x, y, n

(* The coordinates of a box, without the vectors they are written with.    *)
LEMMA BoxIs ==
  ASSUME NEW v \in Sizes, NEW x
  PROVE  x \in Box(v) <=> x \in [Dirs -> Nat] /\ \A d \in Dirs : x[d] < v[d]
<1>0. /\ XUP \in Dirs /\ YUP \in Dirs /\ ZUP \in Dirs /\ TUP \in Dirs
      /\ \A d \in Dirs : d = XUP \/ d = YUP \/ d = ZUP \/ d = TUP
  BY DEF Dirs, XUP, YUP, ZUP, TUP
<1>1. ASSUME x \in Box(v)
      PROVE  x \in [Dirs -> Nat] /\ \A d \in Dirs : x[d] < v[d]
  <2>1. PICK a \in 0 .. v[XUP] - 1, b \in 0 .. v[YUP] - 1,
             c \in 0 .. v[ZUP] - 1, e \in 0 .. v[TUP] - 1 : x = Vector(a, b, c, e)
    BY <1>1 DEF Box
  <2>2. /\ a \in Nat /\ b \in Nat /\ c \in Nat /\ e \in Nat
        /\ a < v[XUP] /\ b < v[YUP] /\ c < v[ZUP] /\ e < v[TUP]
    BY <1>0 DEF Sizes
  <2>3. /\ x = [dir \in Dirs |-> x[dir]]
        /\ x[XUP] = a /\ x[YUP] = b /\ x[ZUP] = c /\ x[TUP] = e
    BY <2>1 DEF Vector, Dirs, XUP, YUP, ZUP, TUP
  <2>4. \A d \in Dirs : x[d] \in Nat /\ x[d] < v[d]
    BY <1>0, <2>2, <2>3
  <2> QED BY <2>3, <2>4
<1>2. ASSUME x \in [Dirs -> Nat], \A d \in Dirs : x[d] < v[d]
      PROVE  x \in Box(v)
  <2>1. x = Vector(x[XUP], x[YUP], x[ZUP], x[TUP])
    BY <1>2 DEF Vector, Dirs, XUP, YUP, ZUP, TUP
  <2>2. /\ x[XUP] \in 0 .. v[XUP] - 1 /\ x[YUP] \in 0 .. v[YUP] - 1
        /\ x[ZUP] \in 0 .. v[ZUP] - 1 /\ x[TUP] \in 0 .. v[TUP] - 1
    BY <1>0, <1>2 DEF Sizes
  <2> QED BY <2>1, <2>2 DEF Box
<1> QED BY <1>1, <1>2

(* A number below s * m, as a digit with base s and the rest.              *)
LEMMA DigitBounds ==
  ASSUME NEW s \in Nat \ {0}, NEW m \in Nat, NEW c \in Nat, c < s,
         NEW k \in Nat, k < m
  PROVE  c + s * k \in Nat /\ c + s * k < s * m
<1>1. k * s + s <= m * s
  BY LessThanOnce
<1> QED BY <1>1

LEMMA DigitRest ==
  ASSUME NEW s \in Nat \ {0}, NEW m \in Nat, NEW n \in Nat, n < s * m
  PROVE  n \div s < m
<1> DEFINE x == n \div s
           y == n % s
<1>1. x \in Nat /\ y \in Nat /\ n = x * s + y
  BY DivRem
<1> HIDE DEF x, y
<1>2. ~(m <= x)
  <2> SUFFICES ASSUME m <= x PROVE FALSE
    OBVIOUS
  <2>1. m * s <= x * s
    BY <1>1
  <2> QED BY <1>1, <2>1
<1> QED BY <1>1, <1>2 DEF x

LEMMA DivDiv ==
  ASSUME NEW n \in Nat, NEW a \in Nat \ {0}, NEW b \in Nat \ {0}
  PROVE  n \div (a * b) = (n \div a) \div b
<1> DEFINE x == n \div a
           c == n % a
           y == x \div b
           e == x % b
<1>1. x \in Nat /\ c \in Nat /\ c < a /\ n = x * a + c
  BY DivRem
<1> HIDE DEF x, c
<1>2. y \in Nat /\ e \in Nat /\ e < b /\ x = y * b + e
  BY <1>1, DivRem
<1> HIDE DEF y, e
<1>3. n = y * (a * b) + (c + a * e)
  BY <1>1, <1>2
<1>4. c + a * e \in Nat /\ c + a * e < a * b
  BY <1>1, <1>2, DigitBounds
<1>5. a * b \in Nat \ {0}
  OBVIOUS
<1> DEFINE p == a * b
           r == c + a * e
<1>6. p \in Nat \ {0} /\ r \in Nat /\ r < p /\ n = y * p + r
  BY <1>3, <1>4, <1>5
<1> HIDE DEF p, r
<1>7. n \div p = y
  BY <1>2, <1>6, DivRemUnique
<1> QED BY <1>7 DEF p, y, x

LEMMA FourDirs ==
  /\ XUP \in Dirs /\ YUP \in Dirs /\ ZUP \in Dirs /\ TUP \in Dirs
  /\ \A d \in Dirs : d = XUP \/ d = YUP \/ d = ZUP \/ d = TUP
  /\ XUP /= YUP /\ XUP /= ZUP /\ XUP /= TUP
  /\ YUP /= ZUP /\ YUP /= TUP /\ ZUP /= TUP
BY DEF Dirs, XUP, YUP, ZUP, TUP

LEMMA SizesAre ==
  ASSUME NEW v \in Sizes
  PROVE  /\ v[XUP] \in Nat \ {0} /\ v[YUP] \in Nat \ {0}
         /\ v[ZUP] \in Nat \ {0} /\ v[TUP] \in Nat \ {0}
         /\ v[XUP] * v[YUP] \in Nat \ {0}
         /\ v[XUP] * v[YUP] * v[ZUP] \in Nat \ {0}
         /\ Product(v) = v[XUP] * (v[YUP] * (v[ZUP] * v[TUP]))
<1>1. /\ v[XUP] \in Nat \ {0} /\ v[YUP] \in Nat \ {0}
      /\ v[ZUP] \in Nat \ {0} /\ v[TUP] \in Nat \ {0}
  BY FourDirs DEF Sizes
<1>2. ASSUME NEW a \in Nat \ {0}, NEW b \in Nat \ {0},
             NEW c \in Nat \ {0}, NEW d \in Nat \ {0}
      PROVE  /\ a * b \in Nat \ {0} /\ a * b * c \in Nat \ {0}
             /\ a * b * c * d = a * (b * (c * d))
  <2>1. \A x, y \in Nat \ {0} : x * y \in Nat \ {0}
    OBVIOUS
  <2>2. a * b \in Nat \ {0}
    BY <2>1
  <2>3. a * b * c \in Nat \ {0}
    BY <2>1, <2>2
  <2>4. a * b * c * d = a * (b * (c * d))
    OBVIOUS
  <2> QED BY <2>2, <2>3, <2>4
<1> QED BY <1>1, <1>2 DEF Product

(* The last digit of a rank, and the rank of the other coordinates.        *)
LEMMA LexRankBound ==
  ASSUME NEW v \in Sizes, NEW x \in Box(v)
  PROVE  lex_rank(x, v) \in Nat /\ lex_rank(x, v) < Product(v)
<1>1. \A d \in Dirs : x[d] \in Nat /\ x[d] < v[d]
  BY BoxIs
<1> DEFINE m == v[ZUP] * v[TUP]
           n == v[YUP] * m
           j == x[ZUP] + v[ZUP] * x[TUP]
           k == x[YUP] + v[YUP] * j
<1>2. m \in Nat /\ j \in Nat /\ j < m
  BY <1>1, FourDirs, SizesAre, DigitBounds
<1> HIDE DEF m, j
<1>3. n \in Nat /\ k \in Nat /\ k < n
  BY <1>1, <1>2, FourDirs, SizesAre, DigitBounds
<1> HIDE DEF n, k
<1>4. x[XUP] + v[XUP] * k \in Nat /\ x[XUP] + v[XUP] * k < v[XUP] * n
  BY <1>1, <1>3, FourDirs, SizesAre, DigitBounds
<1> QED BY <1>4, SizesAre DEF lex_rank, m, n, j, k

LEMMA FirstDigit ==
  ASSUME NEW s \in Nat \ {0}, NEW c \in Nat, c < s, NEW k \in Nat
  PROVE  (c + s * k) \div s = k /\ (c + s * k) % s = c
<1>1. c + s * k = k * s + c
  OBVIOUS
<1> QED BY <1>1, DivRemUnique

(* The coordinates of a rank, digit by digit.                              *)
LEMMA LexCoordsAre ==
  ASSUME NEW v \in Sizes, NEW k \in Nat
  PROVE  LET c == lex_coords(v, k)
             y == k \div v[XUP]
             z == y \div v[YUP]
             t == z \div v[ZUP]
         IN  /\ c = [d \in Dirs |-> c[d]]
             /\ y \in Nat /\ z \in Nat /\ t \in Nat
             /\ c[XUP] = k % v[XUP] /\ c[YUP] = y % v[YUP]
             /\ c[ZUP] = z % v[ZUP] /\ c[TUP] = t % v[TUP]
<1> DEFINE y == k \div v[XUP]
           z == y \div v[YUP]
           t == z \div v[ZUP]
<1>0. /\ v[XUP] \in Nat \ {0} /\ v[YUP] \in Nat \ {0}
      /\ v[ZUP] \in Nat \ {0} /\ v[TUP] \in Nat \ {0}
      /\ v[XUP] * v[YUP] \in Nat \ {0}
  BY SizesAre
<1>1. y \in Nat
  BY <1>0, DivRem
<1>2. z \in Nat /\ z = k \div (v[XUP] * v[YUP])
  BY <1>0, <1>1, DivRem, DivDiv
<1>3. t \in Nat /\ t = k \div (v[XUP] * v[YUP] * v[ZUP])
  <2> HIDE DEF y, z
  <2> DEFINE p == v[XUP] * v[YUP]
  <2>1. p \in Nat \ {0}
    BY <1>0
  <2>2. z = k \div p
    BY <1>2
  <2> HIDE DEF p
  <2>3. z \div v[ZUP] = k \div (p * v[ZUP])
    BY <1>0, <2>1, <2>2, DivDiv
  <2>4. z \div v[ZUP] \in Nat
    BY <1>0, <1>2, DivRem
  <2> QED BY <2>3, <2>4 DEF p
<1>4. /\ Stride(v, XUP) = 1 /\ Stride(v, YUP) = v[XUP]
      /\ Stride(v, ZUP) = v[XUP] * v[YUP]
      /\ Stride(v, TUP) = v[XUP] * v[YUP] * v[ZUP]
  BY DEF Stride, XUP, YUP, ZUP, TUP
<1>5. k \div 1 = k
  OBVIOUS
<1> DEFINE c == lex_coords(v, k)
<1>6. /\ c = [d \in Dirs |-> c[d]]
      /\ \A d \in Dirs : c[d] = (k \div Stride(v, d)) % v[d]
  BY DEF lex_coords
<1> HIDE DEF c
<1>7. /\ c[XUP] = k % v[XUP]
      /\ c[YUP] = y % v[YUP]
      /\ c[ZUP] = (k \div (v[XUP] * v[YUP])) % v[ZUP]
      /\ c[TUP] = (k \div (v[XUP] * v[YUP] * v[ZUP])) % v[TUP]
  BY <1>4, <1>5, <1>6, FourDirs
<1> HIDE DEF y, z, t
<1>8. c[ZUP] = z % v[ZUP] /\ c[TUP] = t % v[TUP]
  BY <1>2, <1>3, <1>7
<1> QED BY <1>1, <1>2, <1>3, <1>6, <1>7, <1>8 DEF c, y, z, t

LEMMA CoordsOfRank ==
  ASSUME NEW v \in Sizes, NEW x \in Box(v)
  PROVE  lex_coords(v, lex_rank(x, v)) = x
<1>0. x \in [Dirs -> Nat] /\ \A d \in Dirs : x[d] \in Nat /\ x[d] < v[d]
  BY BoxIs
<1> DEFINE j == x[ZUP] + v[ZUP] * x[TUP]
           k == x[YUP] + v[YUP] * j
           l == x[XUP] + v[XUP] * k
           c == lex_coords(v, l)
<1>1. /\ v[XUP] \in Nat \ {0} /\ v[YUP] \in Nat \ {0}
      /\ v[ZUP] \in Nat \ {0} /\ v[TUP] \in Nat \ {0}
  BY SizesAre
<1>2. j \in Nat
  BY <1>0, <1>1, FourDirs
<1>3. j \div v[ZUP] = x[TUP] /\ j % v[ZUP] = x[ZUP]
  BY <1>0, <1>1, FourDirs, FirstDigit
<1> HIDE DEF j
<1>4. k \in Nat
  BY <1>0, <1>1, <1>2, FourDirs
<1>5. k \div v[YUP] = j /\ k % v[YUP] = x[YUP]
  BY <1>0, <1>1, <1>2, FourDirs, FirstDigit
<1> HIDE DEF k
<1>6. l \in Nat
  BY <1>0, <1>1, <1>4, FourDirs
<1>7. l \div v[XUP] = k /\ l % v[XUP] = x[XUP]
  BY <1>0, <1>1, <1>4, FourDirs, FirstDigit
<1> HIDE DEF l
<1>8. x[TUP] % v[TUP] = x[TUP]
  BY <1>0, <1>1, FourDirs
<1>9. /\ c = [d \in Dirs |-> c[d]]
      /\ c[XUP] = l % v[XUP] /\ c[YUP] = (l \div v[XUP]) % v[YUP]
      /\ c[ZUP] = ((l \div v[XUP]) \div v[YUP]) % v[ZUP]
      /\ c[TUP] = (((l \div v[XUP]) \div v[YUP]) \div v[ZUP]) % v[TUP]
  BY <1>6, LexCoordsAre
<1> HIDE DEF c
<1>10. /\ c[XUP] = x[XUP] /\ c[YUP] = x[YUP]
       /\ c[ZUP] = x[ZUP] /\ c[TUP] = x[TUP]
  BY <1>3, <1>5, <1>7, <1>8, <1>9
<1>11. c = x
  BY <1>0, <1>9, <1>10, FourDirs
<1>12. l = lex_rank(x, v)
  BY DEF l, k, j, lex_rank
<1> QED BY <1>11, <1>12 DEF c

LEMMA RankOfCoords ==
  ASSUME NEW v \in Sizes, NEW k \in Nat, k < Product(v)
  PROVE  lex_coords(v, k) \in Box(v) /\ lex_rank(lex_coords(v, k), v) = k
<1> DEFINE y == k \div v[XUP]
           z == y \div v[YUP]
           t == z \div v[ZUP]
           c == lex_coords(v, k)
           m == v[ZUP] * v[TUP]
           n == v[YUP] * m
<1>1. /\ v[XUP] \in Nat \ {0} /\ v[YUP] \in Nat \ {0}
      /\ v[ZUP] \in Nat \ {0} /\ v[TUP] \in Nat \ {0}
      /\ Product(v) = v[XUP] * n
  BY SizesAre
<1>2. m \in Nat /\ n \in Nat
  BY <1>1
<1>3. /\ c = [d \in Dirs |-> c[d]]
      /\ y \in Nat /\ z \in Nat /\ t \in Nat
      /\ c[XUP] = k % v[XUP] /\ c[YUP] = y % v[YUP]
      /\ c[ZUP] = z % v[ZUP] /\ c[TUP] = t % v[TUP]
  BY LexCoordsAre
<1> HIDE DEF c, n
<1>4. y < n
  BY <1>1, <1>2, DigitRest
<1>5. k = y * v[XUP] + (k % v[XUP]) /\ k % v[XUP] \in Nat /\ k % v[XUP] < v[XUP]
  BY <1>1, DivRem
<1> HIDE DEF y, m
<1>6. z < m
  BY <1>1, <1>2, <1>3, <1>4, DigitRest DEF n
<1>7. y = z * v[YUP] + (y % v[YUP]) /\ y % v[YUP] \in Nat /\ y % v[YUP] < v[YUP]
  BY <1>1, <1>3, DivRem
<1> HIDE DEF z
<1>8. t < v[TUP]
  BY <1>1, <1>2, <1>3, <1>6, DigitRest DEF m
<1>9. z = t * v[ZUP] + (z % v[ZUP]) /\ z % v[ZUP] \in Nat /\ z % v[ZUP] < v[ZUP]
  BY <1>1, <1>3, DivRem
<1> HIDE DEF t
<1>10. t % v[TUP] = t
  BY <1>1, <1>3, <1>8
<1>11. \A d \in Dirs : c[d] \in Nat /\ c[d] < v[d]
  BY <1>3, <1>5, <1>7, <1>8, <1>9, <1>10, FourDirs
<1>12. c \in [Dirs -> Nat]
  BY <1>3, <1>11
<1>13. c \in Box(v)
  BY <1>11, <1>12, BoxIs
<1>14. z = c[ZUP] + v[ZUP] * c[TUP]
  BY <1>1, <1>3, <1>9, <1>10, <1>11, FourDirs
<1>15. y = c[YUP] + v[YUP] * z
  BY <1>1, <1>3, <1>7, <1>11, FourDirs
<1>16. k = c[XUP] + v[XUP] * y
  BY <1>1, <1>3, <1>5, <1>11, FourDirs
<1>17. lex_rank(c, v) = k
  BY <1>14, <1>15, <1>16 DEF lex_rank
<1> QED BY <1>13, <1>17 DEF c

LEMMA RanksApart ==
  ASSUME NEW v \in Sizes, NEW x \in Box(v), NEW y \in Box(v),
         lex_rank(x, v) = lex_rank(y, v)
  PROVE  x = y
BY CoordsOfRank

(* A set counted by numbering its elements from 0.                         *)
LEMMA CountedByNumber ==
  ASSUME NEW S, NEW n \in Nat, NEW f \in [S -> 0 .. n - 1],
         \A x, y \in S : f[x] = f[y] => x = y,
         \A k \in 0 .. n - 1 : \E x \in S : f[x] = k
  PROVE  IsFiniteSet(S) /\ Cardinality(S) = n
<1> DEFINE T == 0 .. n - 1
<1>1. IsFiniteSet(T) /\ Cardinality(T) = n
  BY FS_Interval
<1> HIDE DEF T
<1>2. f \in Injection(S, T) /\ f \in Surjection(S, T)
  BY DEF Injection, IsInjective, Surjection, T
<1> QED BY <1>1, <1>2, FS_Injection

LEMMA BoxCount ==
  ASSUME NEW v \in Sizes
  PROVE  IsFiniteSet(Box(v)) /\ Cardinality(Box(v)) = Product(v)
<1> DEFINE f == [x \in Box(v) |-> lex_rank(x, v)]
<1>1. Product(v) \in Nat
  BY ProductType
<1>2. \A x \in Box(v) : lex_rank(x, v) \in 0 .. Product(v) - 1
  BY <1>1, LexRankBound
<1>3. f \in [Box(v) -> 0 .. Product(v) - 1]
  BY <1>2
<1>4. \A x, y \in Box(v) : f[x] = f[y] => x = y
  BY RanksApart
<1>5. \A k \in 0 .. Product(v) - 1 :
        lex_coords(v, k) \in Box(v) /\ lex_rank(lex_coords(v, k), v) = k
  BY <1>1, RankOfCoords
<1>6. \A k \in 0 .. Product(v) - 1 : \E x \in Box(v) : f[x] = k
  BY <1>5
<1> HIDE DEF f
<1> QED BY <1>1, <1>3, <1>4, <1>6, CountedByNumber

(***************************************************************************)
(* A box that is a grid of w boxes of size v: a site is given by its box   *)
(* and its place in the box.                                               *)
(***************************************************************************)
IsGrid(v, w, u) ==
  v \in Sizes /\ w \in Sizes /\ u \in Sizes /\ \A d \in Dirs : v[d] * w[d] = u[d]

SiteAt(v, q, r) == [d \in Dirs |-> q[d] * v[d] + r[d]]

LEMMA SplitSite ==
  ASSUME NEW v, NEW w, NEW u, IsGrid(v, w, u), NEW x \in Box(u)
  PROVE  /\ Quotients(x, v) \in Box(w) /\ Remainders(x, v) \in Box(v)
         /\ x = SiteAt(v, Quotients(x, v), Remainders(x, v))
<1> USE DEF IsGrid
<1>1. x \in [Dirs -> Nat] /\ \A d \in Dirs : x[d] \in Nat /\ x[d] < u[d]
  BY BoxIs
<1>2. ASSUME NEW d \in Dirs
      PROVE  /\ x[d] \div v[d] \in Nat /\ x[d] \div v[d] < w[d]
             /\ x[d] % v[d] \in Nat /\ x[d] % v[d] < v[d]
             /\ x[d] = (x[d] \div v[d]) * v[d] + (x[d] % v[d])
  <2>1. v[d] \in Nat \ {0} /\ w[d] \in Nat /\ x[d] \in Nat /\ x[d] < v[d] * w[d]
    BY <1>1 DEF Sizes
  <2> QED BY <2>1, DivRem, DigitRest
<1>3. Quotients(x, v) \in Box(w)
  BY <1>2, BoxIs DEF Quotients
<1>4. Remainders(x, v) \in Box(v)
  BY <1>2, BoxIs DEF Remainders
<1>5. \A d \in Dirs : SiteAt(v, Quotients(x, v), Remainders(x, v))[d] = x[d]
  BY <1>2 DEF SiteAt, Quotients, Remainders
<1>6. x = SiteAt(v, Quotients(x, v), Remainders(x, v))
  BY <1>1, <1>5 DEF SiteAt
<1> QED BY <1>3, <1>4, <1>6

LEMMA JoinSite ==
  ASSUME NEW v, NEW w, NEW u, IsGrid(v, w, u), NEW q \in Box(w), NEW r \in Box(v)
  PROVE  LET x == SiteAt(v, q, r)
         IN  x \in Box(u) /\ Quotients(x, v) = q /\ Remainders(x, v) = r
<1> USE DEF IsGrid
<1> DEFINE x == SiteAt(v, q, r)
<1>1. /\ q \in [Dirs -> Nat] /\ \A d \in Dirs : q[d] \in Nat /\ q[d] < w[d]
      /\ r \in [Dirs -> Nat] /\ \A d \in Dirs : r[d] \in Nat /\ r[d] < v[d]
  BY BoxIs
<1>2. ASSUME NEW d \in Dirs
      PROVE  /\ x[d] \in Nat /\ x[d] < u[d]
             /\ x[d] \div v[d] = q[d] /\ x[d] % v[d] = r[d]
  <2>1. v[d] \in Nat \ {0} /\ w[d] \in Nat /\ q[d] \in Nat /\ r[d] \in Nat
        /\ q[d] < w[d] /\ r[d] < v[d] /\ u[d] = v[d] * w[d]
    BY <1>1 DEF Sizes
  <2>2. x[d] = q[d] * v[d] + r[d]
    BY DEF SiteAt
  <2> HIDE DEF x
  <2>3. x[d] = r[d] + v[d] * q[d]
    BY <2>1, <2>2
  <2>4. x[d] \in Nat /\ x[d] < u[d]
    BY <2>1, <2>3, DigitBounds
  <2>5. /\ (q[d] * v[d] + r[d]) \div v[d] = q[d]
        /\ (q[d] * v[d] + r[d]) % v[d] = r[d]
    BY <2>1, DivRemUnique
  <2> QED BY <2>2, <2>4, <2>5
<1>3. x \in [Dirs -> Nat]
  BY <1>2 DEF SiteAt
<1>4. x \in Box(u)
  BY <1>2, <1>3, BoxIs
<1>5. Quotients(x, v) = q /\ Remainders(x, v) = r
  BY <1>1, <1>2 DEF Quotients, Remainders
<1> QED BY <1>4, <1>5

(* Each box of the grid has as many sites as the first.                    *)
LEMMA GridBoxCount ==
  ASSUME NEW v, NEW w, NEW u, IsGrid(v, w, u), NEW q \in Box(w)
  PROVE  LET S == {x \in Box(u) : Quotients(x, v) = q}
         IN  IsFiniteSet(S) /\ Cardinality(S) = Product(v)
<1> DEFINE S == {x \in Box(u) : Quotients(x, v) = q}
           f == [x \in S |-> lex_rank(Remainders(x, v), v)]
<1>0. v \in Sizes /\ Product(v) \in Nat
  BY ProductType DEF IsGrid
<1>1. ASSUME NEW x \in S
      PROVE  /\ Remainders(x, v) \in Box(v) /\ x = SiteAt(v, q, Remainders(x, v))
             /\ f[x] = lex_rank(Remainders(x, v), v)
             /\ f[x] \in 0 .. Product(v) - 1
  <2>1. Remainders(x, v) \in Box(v) /\ x = SiteAt(v, q, Remainders(x, v))
    BY SplitSite
  <2>2. lex_rank(Remainders(x, v), v) \in 0 .. Product(v) - 1
    BY <1>0, <2>1, LexRankBound
  <2> QED BY <2>1, <2>2
<1>2. f \in [S -> 0 .. Product(v) - 1]
  BY <1>1
<1>3. ASSUME NEW x \in S, NEW y \in S, f[x] = f[y] PROVE x = y
  <2>1. lex_rank(Remainders(x, v), v) = lex_rank(Remainders(y, v), v)
    BY <1>3
  <2>2. Remainders(x, v) = Remainders(y, v)
    BY <1>0, <1>1, <2>1, RanksApart
  <2> QED BY <1>1, <2>2
<1>4. ASSUME NEW k \in 0 .. Product(v) - 1 PROVE \E x \in S : f[x] = k
  <2> DEFINE r == lex_coords(v, k)
             x == SiteAt(v, q, r)
  <2>1. r \in Box(v) /\ lex_rank(r, v) = k
    BY <1>0, RankOfCoords
  <2> HIDE DEF r
  <2>2. x \in Box(u) /\ Quotients(x, v) = q /\ Remainders(x, v) = r
    BY <2>1, JoinSite
  <2> HIDE DEF x
  <2> QED BY <2>1, <2>2
<1>5. \A x, y \in S : f[x] = f[y] => x = y
  BY <1>3
<1>6. \A k \in 0 .. Product(v) - 1 : \E x \in S : f[x] = k
  BY <1>4
<1> DEFINE n == Product(v)
<1>7. /\ n \in Nat /\ f \in [S -> 0 .. n - 1]
      /\ \A x, y \in S : f[x] = f[y] => x = y
      /\ \A k \in 0 .. n - 1 : \E x \in S : f[x] = k
  BY <1>0, <1>2, <1>5, <1>6
<1> HIDE DEF f, S, n
<1>8. IsFiniteSet(S) /\ Cardinality(S) = n
  BY <1>7, CountedByNumber
<1> QED BY <1>8 DEF S, n

-----------------------------------------------------------------------------
(* The two sites of get_coords.                                            *)

LEMMA EvenOrOdd ==
  ASSUME NEW n \in Nat
  PROVE  /\ n % 2 = 0 \/ n % 2 = 1
         /\ n % 2 = 0 <=> \E a \in Nat : n = 2 * a
         /\ n % 2 = 1 <=> \E a \in Nat : n = 2 * a + 1
<1>1. n \div 2 \in Nat /\ n = 2 * (n \div 2) + (n % 2) /\ (n % 2 = 0 \/ n % 2 = 1)
  OBVIOUS
<1>2. ASSUME NEW a \in Nat PROVE (2 * a) % 2 = 0 /\ (2 * a + 1) % 2 = 1
  OBVIOUS
<1> DEFINE h == n \div 2
           t == n % 2
<1>3. h \in Nat /\ n = 2 * h + t /\ (t = 0 \/ t = 1)
  BY <1>1
<1>4. ASSUME NEW a \in Nat
      PROVE  (n = 2 * a => t = 0) /\ (n = 2 * a + 1 => t = 1)
  BY <1>2
<1> HIDE DEF h, t
<1>5. /\ t = 0 \/ t = 1
      /\ t = 0 <=> \E a \in Nat : n = 2 * a
      /\ t = 1 <=> \E a \in Nat : n = 2 * a + 1
  BY <1>3, <1>4
<1> QED BY <1>5 DEF t

(* A carry out of the last digit of an even rank.                          *)
LEMMA EvenCarry ==
  ASSUME NEW c \in Nat, NEW m \in Nat, (c + (c + 1) * m) % 2 = 0
  PROVE  c % 2 = 0 /\ m % 2 = 0
<1>1. c % 2 = 0
  <2> SUFFICES ASSUME c % 2 /= 0 PROVE FALSE
    OBVIOUS
  <2>1. PICK a \in Nat : c = 2 * a + 1
    BY EvenOrOdd
  <2>2. (c + 1) * m = 2 * ((a + 1) * m) /\ (a + 1) * m \in Nat
    BY <2>1
  <2> DEFINE z == (a + 1) * m
  <2>3. c + (c + 1) * m = 2 * (a + z) + 1 /\ a + z \in Nat
    BY <2>1, <2>2
  <2>4. c + (c + 1) * m \in Nat
    OBVIOUS
  <2> HIDE DEF z
  <2>5. (c + (c + 1) * m) % 2 = 1
    BY <2>3, <2>4, EvenOrOdd
  <2> QED BY <2>5
<1>2. PICK a \in Nat : c = 2 * a
  BY <1>1, EvenOrOdd
<1>3. (c + 1) * m = 2 * (a * m) + m /\ a * m \in Nat
  BY <1>2
<1> DEFINE z == a * m
           s == (c + 1) * m
<1>4. z \in Nat /\ s = 2 * z + m /\ (c + s) % 2 = 0
  BY <1>3
<1> HIDE DEF z, s
<1>5. m % 2 = 0
  BY <1>2, <1>4
<1> QED BY <1>1, <1>5

Full(v, c, d) == c[d] + 1 >= v[d]

NextInBox(v, c) ==
  CASE ~Full(v, c, XUP) -> [c EXCEPT ![XUP] = @ + 1]
    [] Full(v, c, XUP) /\ ~Full(v, c, YUP) ->
         [c EXCEPT ![XUP] = 0, ![YUP] = @ + 1]
    [] Full(v, c, XUP) /\ Full(v, c, YUP) /\ ~Full(v, c, ZUP) ->
         [c EXCEPT ![XUP] = 0, ![YUP] = 0, ![ZUP] = @ + 1]
    [] OTHER -> [c EXCEPT ![XUP] = 0, ![YUP] = 0, ![ZUP] = 0, ![TUP] = @ + 1]

CoordSum(c) == c[XUP] + c[YUP] + c[ZUP] + c[TUP]

(* It is the site of the next rank, and if the rank was even it is of      *)
(* unlike parity: only odd dimensions have been passed.                    *)
LEMMA NextInBoxStep ==
  ASSUME NEW v \in Sizes, NEW c \in Box(v), lex_rank(c, v) + 1 < Product(v)
  PROVE  LET n == NextInBox(v, c)
         IN  /\ n \in Box(v) /\ lex_rank(n, v) = lex_rank(c, v) + 1
             /\ lex_rank(c, v) % 2 = 0 => (CoordSum(c) + CoordSum(n)) % 2 = 1
<1> DEFINE n == NextInBox(v, c)
           cx == c[XUP]  cy == c[YUP]  cz == c[ZUP]  ct == c[TUP]
           vx == v[XUP]  vy == v[YUP]  vz == v[ZUP]  vt == v[TUP]
           j == cz + vz * ct
           k == cy + vy * j
           l == cx + vx * k
<1>1. c \in [Dirs -> Nat] /\ \A d \in Dirs : c[d] \in Nat /\ c[d] < v[d]
  BY BoxIs
<1>2. /\ cx \in Nat /\ cy \in Nat /\ cz \in Nat /\ ct \in Nat
      /\ cx < vx /\ cy < vy /\ cz < vz /\ ct < vt
      /\ vx \in Nat \ {0} /\ vy \in Nat \ {0} /\ vz \in Nat \ {0} /\ vt \in Nat \ {0}
      /\ Product(v) = vx * (vy * (vz * vt))
  BY <1>1, FourDirs, SizesAre
<1>3. lex_rank(c, v) = l
  BY DEF lex_rank
<1>4. ASSUME NEW d \in Dirs PROVE Full(v, c, d) <=> c[d] + 1 = v[d]
  <2>1. c[d] \in Nat /\ v[d] \in Nat /\ c[d] < v[d]
    BY <1>1 DEF Sizes
  <2> QED BY <2>1 DEF Full
<1>5. /\ Full(v, c, XUP) <=> cx + 1 = vx
      /\ Full(v, c, YUP) <=> cy + 1 = vy
      /\ Full(v, c, ZUP) <=> cz + 1 = vz
  BY <1>4, FourDirs
<1>7. /\ cx + 1 /= vx =>
           /\ n[XUP] = cx + 1 /\ n[YUP] = cy /\ n[ZUP] = cz /\ n[TUP] = ct
      /\ cx + 1 = vx /\ cy + 1 /= vy =>
           /\ n[XUP] = 0 /\ n[YUP] = cy + 1 /\ n[ZUP] = cz /\ n[TUP] = ct
      /\ cx + 1 = vx /\ cy + 1 = vy /\ cz + 1 /= vz =>
           /\ n[XUP] = 0 /\ n[YUP] = 0 /\ n[ZUP] = cz + 1 /\ n[TUP] = ct
      /\ cx + 1 = vx /\ cy + 1 = vy /\ cz + 1 = vz =>
           /\ n[XUP] = 0 /\ n[YUP] = 0 /\ n[ZUP] = 0 /\ n[TUP] = ct + 1
      /\ n = [d \in Dirs |-> n[d]]
  <2>1. CASE cx + 1 /= vx
    <3>1. n = [c EXCEPT ![XUP] = cx + 1]
      BY <1>5, <2>1 DEF NextInBox
    <3> HIDE DEF n
    <3> QED BY <1>1, <2>1, <3>1, FourDirs
  <2>2. CASE cx + 1 = vx /\ cy + 1 /= vy
    <3>1. n = [c EXCEPT ![XUP] = 0, ![YUP] = cy + 1]
      BY <1>5, <2>2 DEF NextInBox
    <3> HIDE DEF n
    <3> QED BY <1>1, <2>2, <3>1, FourDirs
  <2>3. CASE cx + 1 = vx /\ cy + 1 = vy /\ cz + 1 /= vz
    <3>1. n = [c EXCEPT ![XUP] = 0, ![YUP] = 0, ![ZUP] = cz + 1]
      BY <1>5, <2>3 DEF NextInBox
    <3> HIDE DEF n
    <3> QED BY <1>1, <2>3, <3>1, FourDirs
  <2>4. CASE cx + 1 = vx /\ cy + 1 = vy /\ cz + 1 = vz
    <3>1. n = [c EXCEPT ![XUP] = 0, ![YUP] = 0, ![ZUP] = 0, ![TUP] = ct + 1]
      BY <1>5, <2>4 DEF NextInBox
    <3> HIDE DEF n
    <3> QED BY <1>1, <2>4, <3>1, FourDirs
  <2> QED BY <2>1, <2>2, <2>3, <2>4
<1> DEFINE x == n[XUP]  y == n[YUP]  z == n[ZUP]  t == n[TUP]
(* What is left is arithmetic.                                             *)
<1>8. ASSUME x \in Nat, y \in Nat, z \in Nat, t \in Nat,
             x < vx, y < vy, z < vz, t < vt,
             x + vx * (y + vy * (z + vz * t)) = l + 1,
             l % 2 = 0 => ((cx + cy + cz + ct) + (x + y + z + t)) % 2 = 1
      PROVE  /\ n \in Box(v) /\ lex_rank(n, v) = lex_rank(c, v) + 1
             /\ lex_rank(c, v) % 2 = 0 => (CoordSum(c) + CoordSum(n)) % 2 = 1
  <2>1. \A d \in Dirs : n[d] \in Nat /\ n[d] < v[d]
    BY <1>8, FourDirs
  <2>2. n \in [Dirs -> Nat]
    BY <1>7, <2>1
  <2>3. n \in Box(v)
    BY <2>1, <2>2, BoxIs
  <2>4. lex_rank(n, v) = l + 1
    BY <1>8 DEF lex_rank
  <2>5. CoordSum(c) = cx + cy + cz + ct /\ CoordSum(n) = x + y + z + t
    BY DEF CoordSum
  <2> QED BY <1>3, <1>8, <2>3, <2>4, <2>5
<1> DEFINE Goal == /\ n \in Box(v) /\ lex_rank(n, v) = lex_rank(c, v) + 1
                   /\ lex_rank(c, v) % 2 = 0 => (CoordSum(c) + CoordSum(n)) % 2 = 1
<1> SUFFICES Goal
  OBVIOUS
<1>9. j \in Nat /\ k \in Nat /\ l \in Nat
  BY <1>2
<1>10. j = cz + vz * ct /\ k = cy + vy * j /\ l = cx + vx * k
  OBVIOUS
<1>11. l + 1 < vx * (vy * (vz * vt))
  BY <1>2, <1>3
<1> HIDE DEF Goal, n, cx, cy, cz, ct, vx, vy, vz, vt, j, k, l, x, y, z, t
<1>12. ASSUME x \in Nat, y \in Nat, z \in Nat, t \in Nat,
              x < vx, y < vy, z < vz, t < vt,
              x + vx * (y + vy * (z + vz * t)) = l + 1,
              l % 2 = 0 => ((cx + cy + cz + ct) + (x + y + z + t)) % 2 = 1
       PROVE  Goal
  BY <1>8, <1>12 DEF Goal
<1>13. /\ cx + 1 /= vx => x = cx + 1 /\ y = cy /\ z = cz /\ t = ct
       /\ cx + 1 = vx /\ cy + 1 /= vy => x = 0 /\ y = cy + 1 /\ z = cz /\ t = ct
       /\ cx + 1 = vx /\ cy + 1 = vy /\ cz + 1 /= vz =>
            x = 0 /\ y = 0 /\ z = cz + 1 /\ t = ct
       /\ cx + 1 = vx /\ cy + 1 = vy /\ cz + 1 = vz =>
            x = 0 /\ y = 0 /\ z = 0 /\ t = ct + 1
  BY <1>7 DEF x, y, z, t
<1>14. CASE cx + 1 /= vx
  <2>1. x = cx + 1 /\ y = cy /\ z = cz /\ t = ct
    BY <1>13, <1>14
  <2>2. x + vx * (y + vy * (z + vz * t)) = l + 1
    <3>1. z + vz * t = j
      BY <1>10, <2>1
    <3>2. y + vy * j = k
      BY <1>10, <2>1
    <3> QED BY <1>2, <1>9, <1>10, <2>1, <3>1, <3>2
  <2>3. ((cx + cy + cz + ct) + (x + y + z + t)) % 2 = 1
    BY <1>2, <2>1
  <2>4. x < vx /\ y < vy /\ z < vz /\ t < vt
    BY <1>2, <1>14, <2>1
  <2>5. x \in Nat /\ y \in Nat /\ z \in Nat /\ t \in Nat
    BY <1>2, <2>1
  <2> QED BY <1>12, <2>2, <2>3, <2>4, <2>5
<1>15. CASE cx + 1 = vx /\ cy + 1 /= vy
  <2>1. x = 0 /\ y = cy + 1 /\ z = cz /\ t = ct
    BY <1>13, <1>15
  <2>2. x + vx * (y + vy * (z + vz * t)) = l + 1
    <3>1. z + vz * t = j
      BY <1>10, <2>1
    <3>2. y + vy * j = k + 1
      BY <1>2, <1>9, <1>10, <2>1
    <3>3. vx * (k + 1) = l + 1
      BY <1>2, <1>9, <1>10, <1>15
    <3> QED BY <1>2, <1>9, <2>1, <3>1, <3>2, <3>3
  <2>3. ASSUME l % 2 = 0
        PROVE  ((cx + cy + cz + ct) + (x + y + z + t)) % 2 = 1
    <3>1. cx % 2 = 0
      BY <1>2, <1>9, <1>10, <1>15, <2>3, EvenCarry
    <3> QED BY <1>2, <2>1, <3>1
  <2>4. x < vx /\ y < vy /\ z < vz /\ t < vt
    BY <1>2, <1>15, <2>1
  <2>5. x \in Nat /\ y \in Nat /\ z \in Nat /\ t \in Nat
    BY <1>2, <2>1
  <2> QED BY <1>12, <2>2, <2>3, <2>4, <2>5
<1>16. CASE cx + 1 = vx /\ cy + 1 = vy /\ cz + 1 /= vz
  <2>1. x = 0 /\ y = 0 /\ z = cz + 1 /\ t = ct
    BY <1>13, <1>16
  <2>2. x + vx * (y + vy * (z + vz * t)) = l + 1
    <3>1. z + vz * t = j + 1
      BY <1>2, <1>9, <1>10, <2>1
    <3>2. vy * (j + 1) = k + 1
      BY <1>2, <1>9, <1>10, <1>16
    <3>3. vx * (k + 1) = l + 1
      BY <1>2, <1>9, <1>10, <1>16
    <3> QED BY <1>2, <1>9, <2>1, <3>1, <3>2, <3>3
  <2>3. ASSUME l % 2 = 0
        PROVE  ((cx + cy + cz + ct) + (x + y + z + t)) % 2 = 1
    <3>1. cx % 2 = 0 /\ k % 2 = 0
      BY <1>2, <1>9, <1>10, <1>16, <2>3, EvenCarry
    <3>2. cy % 2 = 0
      BY <1>2, <1>9, <1>10, <1>16, <3>1, EvenCarry
    <3> QED BY <1>2, <2>1, <3>1, <3>2
  <2>4. x < vx /\ y < vy /\ z < vz /\ t < vt
    BY <1>2, <1>16, <2>1
  <2>5. x \in Nat /\ y \in Nat /\ z \in Nat /\ t \in Nat
    BY <1>2, <2>1
  <2> QED BY <1>12, <2>2, <2>3, <2>4, <2>5
<1>17. CASE cx + 1 = vx /\ cy + 1 = vy /\ cz + 1 = vz
  <2>1. x = 0 /\ y = 0 /\ z = 0 /\ t = ct + 1
    BY <1>13, <1>17
  <2>2. vz * (ct + 1) = j + 1 /\ vy * (j + 1) = k + 1 /\ vx * (k + 1) = l + 1
    <3>1. vz * (ct + 1) = j + 1
      BY <1>2, <1>9, <1>10, <1>17
    <3>2. vy * (j + 1) = k + 1
      BY <1>2, <1>9, <1>10, <1>17
    <3>3. vx * (k + 1) = l + 1
      BY <1>2, <1>9, <1>10, <1>17
    <3> QED BY <3>1, <3>2, <3>3
  <2>3. x + vx * (y + vy * (z + vz * t)) = l + 1
    BY <1>2, <1>9, <2>1, <2>2
  <2>4. t /= vt
    <3> SUFFICES ASSUME t = vt PROVE FALSE
      OBVIOUS
    <3>1. vx * (vy * (vz * vt)) = l + 1
      BY <2>1, <2>2
    <3> QED BY <1>9, <1>11, <3>1
  <2>5. ASSUME l % 2 = 0
        PROVE  ((cx + cy + cz + ct) + (x + y + z + t)) % 2 = 1
    <3>1. cx % 2 = 0 /\ k % 2 = 0
      BY <1>2, <1>9, <1>10, <1>17, <2>5, EvenCarry
    <3>2. cy % 2 = 0 /\ j % 2 = 0
      BY <1>2, <1>9, <1>10, <1>17, <3>1, EvenCarry
    <3>3. cz % 2 = 0
      BY <1>2, <1>9, <1>10, <1>17, <3>2, EvenCarry
    <3> QED BY <1>2, <2>1, <3>1, <3>2, <3>3
  <2>6. x < vx /\ y < vy /\ z < vz /\ t < vt
    BY <1>2, <1>17, <2>1, <2>4
  <2>7. x \in Nat /\ y \in Nat /\ z \in Nat /\ t \in Nat
    BY <1>2, <2>1
  <2> QED BY <1>12, <2>3, <2>5, <2>6, <2>7
<1> QED BY <1>14, <1>15, <1>16, <1>17

LEMMA OddTimes ==
  ASSUME NEW s \in Nat, s % 2 = 1, NEW m \in Nat
  PROVE  s * m \in Nat /\ (s * m) % 2 = m % 2
<1>1. PICK a \in Nat : s = 2 * a + 1
  BY EvenOrOdd
<1> DEFINE z == a * m
           p == s * m
<1>2. z \in Nat /\ p \in Nat /\ p = 2 * z + m
  BY <1>1
<1> HIDE DEF z, p
<1>3. p % 2 = m % 2
  BY <1>2
<1> QED BY <1>2, <1>3 DEF p

LEMMA OddFactors ==
  ASSUME NEW a \in Nat, NEW b \in Nat, (a * b) % 2 = 1
  PROVE  a % 2 = 1 /\ b % 2 = 1
<1>1. ASSUME NEW x \in Nat, NEW y \in Nat, x % 2 = 0 PROVE (x * y) % 2 = 0
  <2>1. PICK z \in Nat : x = 2 * z
    BY <1>1, EvenOrOdd
  <2>2. x * y = 2 * (z * y) /\ z * y \in Nat /\ x * y \in Nat
    BY <2>1
  <2> DEFINE p == x * y
             t == z * y
  <2>3. p \in Nat /\ t \in Nat /\ p = 2 * t
    BY <2>2
  <2> HIDE DEF p, t
  <2>4. p % 2 = 0
    BY <2>3, EvenOrOdd
  <2> QED BY <2>4 DEF p
<1>2. a * b = b * a
  OBVIOUS
<1>3. a % 2 /= 0
  <2> SUFFICES ASSUME a % 2 = 0 PROVE FALSE
    OBVIOUS
  <2>1. (a * b) % 2 = 0
    BY <1>1
  <2> QED BY <2>1
<1>4. b % 2 /= 0
  <2> SUFFICES ASSUME b % 2 = 0 PROVE FALSE
    OBVIOUS
  <2>1. (b * a) % 2 = 0
    BY <1>1
  <2> QED BY <1>2, <2>1
<1> QED BY <1>3, <1>4, EvenOrOdd

LEMMA OddBox ==
  ASSUME NEW v \in Sizes, Product(v) % 2 = 1
  PROVE  \A d \in Dirs : v[d] % 2 = 1
<1> DEFINE a == v[XUP]  b == v[YUP]  c == v[ZUP]  d == v[TUP]
<1>1. /\ a \in Nat /\ b \in Nat /\ c \in Nat /\ d \in Nat
      /\ Product(v) = a * (b * (c * d))
  BY SizesAre
<1> DEFINE p == c * d
           q == b * p
<1>2. p \in Nat /\ q \in Nat /\ (a * q) % 2 = 1
  BY <1>1
<1> HIDE DEF a, b, c, d, p, q
<1>3. a % 2 = 1 /\ q % 2 = 1
  BY <1>1, <1>2, OddFactors
<1>4. b % 2 = 1 /\ p % 2 = 1
  BY <1>1, <1>2, <1>3, OddFactors DEF q
<1>5. c % 2 = 1 /\ d % 2 = 1
  BY <1>1, <1>4, OddFactors DEF p
<1> QED BY <1>3, <1>4, <1>5, FourDirs DEF a, b, c, d

LEMMA SumType ==
  ASSUME NEW v \in Sizes, NEW c \in Box(v)
  PROVE  CoordSum(c) \in Nat
BY BoxIs, FourDirs DEF CoordSum

LEMMA SameParity ==
  ASSUME NEW a \in Nat, NEW b \in Nat, NEW c \in Nat, a % 2 = b % 2
  PROVE  c + a \in Nat /\ (c + a) % 2 = (c + b) % 2
OBVIOUS

LEMMA OddDigit ==
  ASSUME NEW x \in Nat, NEW s \in Nat, s % 2 = 1, NEW m \in Nat
  PROVE  x + s * m \in Nat /\ (x + s * m) % 2 = (x + m) % 2
<1> DEFINE p == s * m
<1>1. p \in Nat /\ p % 2 = m % 2
  BY OddTimes
<1> HIDE DEF p
<1>2. x + p \in Nat /\ (x + p) % 2 = (x + m) % 2
  BY <1>1
<1> QED BY <1>2 DEF p

(* In a box of odd dimensions ranks and coordinates agree in parity.       *)
LEMMA OddRank ==
  ASSUME NEW v \in Sizes, Product(v) % 2 = 1, NEW c \in Box(v)
  PROVE  lex_rank(c, v) % 2 = CoordSum(c) % 2
<1> DEFINE j == c[ZUP] + v[ZUP] * c[TUP]
           k == c[YUP] + v[YUP] * j
           l == c[XUP] + v[XUP] * k
<1>1. /\ c[XUP] \in Nat /\ c[YUP] \in Nat /\ c[ZUP] \in Nat /\ c[TUP] \in Nat
      /\ v[XUP] \in Nat /\ v[YUP] \in Nat /\ v[ZUP] \in Nat /\ v[TUP] \in Nat
      /\ v[XUP] % 2 = 1 /\ v[YUP] % 2 = 1 /\ v[ZUP] % 2 = 1
  BY BoxIs, FourDirs, OddBox, SizesAre
<1>3. j \in Nat /\ j % 2 = (c[ZUP] + c[TUP]) % 2
  <2>1. c[ZUP] \in Nat /\ v[ZUP] \in Nat /\ c[TUP] \in Nat /\ v[ZUP] % 2 = 1
    BY <1>1
  <2> QED BY <2>1, OddDigit
<1> HIDE DEF j
<1>4. k \in Nat /\ k % 2 = (c[YUP] + j) % 2
  <2>1. c[YUP] \in Nat /\ v[YUP] \in Nat /\ j \in Nat /\ v[YUP] % 2 = 1
    BY <1>1, <1>3
  <2> QED BY <2>1, OddDigit
<1> HIDE DEF k
<1>5. l \in Nat /\ l % 2 = (c[XUP] + k) % 2
  <2>1. c[XUP] \in Nat /\ v[XUP] \in Nat /\ k \in Nat /\ v[XUP] % 2 = 1
    BY <1>1, <1>4
  <2> QED BY <2>1, OddDigit
<1> HIDE DEF l
<1>6. (c[YUP] + j) % 2 = (c[YUP] + (c[ZUP] + c[TUP])) % 2
  BY <1>1, <1>3, SameParity
<1>7. (c[XUP] + k) % 2 = (c[XUP] + (c[YUP] + (c[ZUP] + c[TUP]))) % 2
  <2>1. k % 2 = (c[YUP] + (c[ZUP] + c[TUP])) % 2
    BY <1>4, <1>6
  <2>2. c[YUP] + (c[ZUP] + c[TUP]) \in Nat
    BY <1>1
  <2> QED BY <1>1, <1>4, <2>1, <2>2, SameParity
<1>8. c[XUP] + (c[YUP] + (c[ZUP] + c[TUP])) = CoordSum(c)
  BY <1>1 DEF CoordSum
<1>9. l % 2 = CoordSum(c) % 2
  BY <1>5, <1>7, <1>8
<1> QED BY <1>9 DEF l, k, j, lex_rank

(* The coordinates of a site are its own within its box and those of the   *)
(* origin of the box.                                                      *)
OriginSum(v, q) ==
  q[XUP] * v[XUP] + q[YUP] * v[YUP] + q[ZUP] * v[ZUP] + q[TUP] * v[TUP]

LEMMA SiteParity ==
  ASSUME NEW v \in Sizes, NEW w \in Sizes, NEW q \in Box(w), NEW c \in Box(v)
  PROVE  /\ OriginSum(v, q) \in Nat
         /\ coord_parity(SiteAt(v, q, c)) = (OriginSum(v, q) + CoordSum(c)) % 2
<1> DEFINE a == q[XUP] * v[XUP]  b == q[YUP] * v[YUP]
           e == q[ZUP] * v[ZUP]  f == q[TUP] * v[TUP]
           x == SiteAt(v, q, c)
<1>1. /\ q[XUP] \in Nat /\ q[YUP] \in Nat /\ q[ZUP] \in Nat /\ q[TUP] \in Nat
      /\ c[XUP] \in Nat /\ c[YUP] \in Nat /\ c[ZUP] \in Nat /\ c[TUP] \in Nat
      /\ v[XUP] \in Nat /\ v[YUP] \in Nat /\ v[ZUP] \in Nat /\ v[TUP] \in Nat
  BY BoxIs, FourDirs, SizesAre
<1>2. a \in Nat /\ b \in Nat /\ e \in Nat /\ f \in Nat
  BY <1>1
<1>3. OriginSum(v, q) = a + b + e + f
  BY DEF OriginSum
<1>4. /\ x[XUP] = a + c[XUP] /\ x[YUP] = b + c[YUP]
      /\ x[ZUP] = e + c[ZUP] /\ x[TUP] = f + c[TUP]
  BY FourDirs DEF SiteAt
<1> HIDE DEF a, b, e, f, x
<1>5. x[XUP] + x[YUP] + x[ZUP] + x[TUP] = OriginSum(v, q) + CoordSum(c)
  BY <1>1, <1>2, <1>3, <1>4 DEF CoordSum
<1>6. coord_parity(x) = (OriginSum(v, q) + CoordSum(c)) % 2
  BY <1>5 DEF coord_parity
<1> QED BY <1>2, <1>3, <1>6 DEF x

LEMMA OddOrigin ==
  ASSUME NEW v \in Sizes, Product(v) % 2 = 1, NEW w \in Sizes, NEW q \in Box(w)
  PROVE  OriginSum(v, q) % 2 = coord_parity(q)
<1> DEFINE a == q[XUP] * v[XUP]  b == q[YUP] * v[YUP]
           e == q[ZUP] * v[ZUP]  f == q[TUP] * v[TUP]
<1>1. /\ q[XUP] \in Nat /\ q[YUP] \in Nat /\ q[ZUP] \in Nat /\ q[TUP] \in Nat
      /\ v[XUP] \in Nat /\ v[YUP] \in Nat /\ v[ZUP] \in Nat /\ v[TUP] \in Nat
      /\ v[XUP] % 2 = 1 /\ v[YUP] % 2 = 1 /\ v[ZUP] % 2 = 1 /\ v[TUP] % 2 = 1
  BY BoxIs, FourDirs, SizesAre, OddBox
<1>2. ASSUME NEW s \in Nat, s % 2 = 1, NEW m \in Nat
      PROVE  m * s \in Nat /\ (m * s) % 2 = m % 2
  <2>1. m * s = s * m
    OBVIOUS
  <2> QED BY <1>2, <2>1, OddTimes
<1>3. /\ a \in Nat /\ b \in Nat /\ e \in Nat /\ f \in Nat
      /\ a % 2 = q[XUP] % 2 /\ b % 2 = q[YUP] % 2
      /\ e % 2 = q[ZUP] % 2 /\ f % 2 = q[TUP] % 2
  BY <1>1, <1>2
<1>4. OriginSum(v, q) = a + b + e + f
  BY DEF OriginSum
<1> HIDE DEF a, b, e, f
<1>5. (a + b + e + f) % 2 = (q[XUP] + q[YUP] + q[ZUP] + q[TUP]) % 2
  BY <1>1, <1>3
<1> QED BY <1>4, <1>5 DEF coord_parity

-----------------------------------------------------------------------------
(* The index of a site, from its rank K in a box of V sites and its parity *)
(* P; M is the parity of the coordinates of the node.                      *)
IndexOf(V, K, P) == IF P = 0 THEN K \div 2 ELSE (K + V) \div 2
Evens(V, M) == V \div 2 + (IF V % 2 /= 0 /\ M = 0 THEN 1 ELSE 0)

LEMMA IndexBounds ==
  ASSUME NEW V \in Nat, NEW K \in Nat, K < V, NEW P \in {0, 1}, NEW M \in {0, 1},
         V % 2 = 1 => P = (M + K) % 2
  PROVE  /\ IndexOf(V, K, P) \in 0 .. V - 1
         /\ P = 0 <=> IndexOf(V, K, P) < Evens(V, M)
<1>1. CASE V % 2 = 0
  <2>1. PICK h \in Nat : V = 2 * h
    BY <1>1, EvenOrOdd
  <2>2. Evens(V, M) = h
    BY <1>1, <2>1 DEF Evens
  <2> QED BY <2>1, <2>2 DEF IndexOf
<1>2. CASE V % 2 = 1
  <2>1. PICK h \in Nat : V = 2 * h + 1
    BY <1>2, EvenOrOdd
  <2>2. Evens(V, M) = IF M = 0 THEN h + 1 ELSE h
    BY <1>2, <2>1 DEF Evens
  <2> QED BY <1>2, <2>1, <2>2 DEF IndexOf
<1> QED BY <1>1, <1>2, EvenOrOdd

(* get_coords: the number of even sites, the parity that an index stands   *)
(* for, and the even one of the two ranks.                                 *)
NEven(V, M) == (V + 1 - M) \div 2
ParityAt(V, M, k) == IF k < NEven(V, M) THEN 0 ELSE 1
EvenRank(V, M, k) == IF k < NEven(V, M) THEN 2 * k ELSE 2 * (k - NEven(V, M))

(* An even rank e and a parity p that suit index k: of e and e + 1, that   *)
(* of a site of parity p has index k.                                      *)
Suits(V, M, k, e, p) ==
  /\ e \in Nat /\ e < V /\ e % 2 = 0
  /\ ~(V % 2 = 1 => p = (M + e) % 2) => e + 1 < V
  /\ V % 2 = 0 => e + 1 < V
  /\ (V % 2 = 1 => p = (M + e) % 2) => IndexOf(V, e, p) = k
  /\ (V % 2 = 1 => p = (M + e + 1) % 2) => IndexOf(V, e + 1, p) = k

LEMMA RankOfIndex ==
  ASSUME NEW V \in Nat, NEW M \in {0, 1}, NEW k \in Nat, k < V
  PROVE  Suits(V, M, k, EvenRank(V, M, k), ParityAt(V, M, k))
<1> USE DEF Suits
<1>1. CASE V % 2 = 0
  <2>1. PICK h \in Nat : V = 2 * h
    BY <1>1, EvenOrOdd
  <2>2. NEven(V, M) = h
    BY <2>1 DEF NEven
  <2>3. CASE k < h
    <3>1. ParityAt(V, M, k) = 0 /\ EvenRank(V, M, k) = 2 * k
      BY <2>2, <2>3 DEF ParityAt, EvenRank
    <3> QED BY <1>1, <2>1, <2>3, <3>1 DEF IndexOf
  <2>4. CASE ~(k < h)
    <3>1. ParityAt(V, M, k) = 1 /\ EvenRank(V, M, k) = 2 * (k - h)
      BY <2>2, <2>4 DEF ParityAt, EvenRank
    <3>2. PICK l \in Nat : k = h + l
      <4>1. k - h \in Nat /\ k = h + (k - h)
        BY <2>4
      <4> QED BY <4>1
    <3>3. EvenRank(V, M, k) = 2 * l
      BY <3>1, <3>2
    <3> QED BY <1>1, <2>1, <3>1, <3>2, <3>3 DEF IndexOf
  <2> QED BY <2>3, <2>4
<1>2. CASE V % 2 = 1
  <2>1. PICK h \in Nat : V = 2 * h + 1
    BY <1>2, EvenOrOdd
  <2>2. NEven(V, M) = h + 1 - M
    BY <2>1 DEF NEven
  <2>3. CASE k < h + 1 - M
    <3>1. ParityAt(V, M, k) = 0 /\ EvenRank(V, M, k) = 2 * k
      BY <2>2, <2>3 DEF ParityAt, EvenRank
    <3> QED BY <1>2, <2>1, <2>3, <3>1 DEF IndexOf
  <2>4. CASE ~(k < h + 1 - M)
    <3>1. ParityAt(V, M, k) = 1 /\ EvenRank(V, M, k) = 2 * (k - (h + 1 - M))
      BY <2>2, <2>4 DEF ParityAt, EvenRank
    <3>2. PICK l \in Nat : k = h + 1 - M + l
      <4>1. k - (h + 1 - M) \in Nat /\ k = h + 1 - M + (k - (h + 1 - M))
        BY <2>4
      <4> QED BY <4>1
    <3>3. EvenRank(V, M, k) = 2 * l
      BY <3>1, <3>2
    <3> QED BY <1>2, <2>1, <3>1, <3>2, <3>3 DEF IndexOf
  <2> QED BY <2>3, <2>4
<1> QED BY <1>1, <1>2, EvenOrOdd

-----------------------------------------------------------------------------
(* A node of the divided lattice.                                          *)
LatticeGrid ==
  /\ IsGrid(squaresize, nsquares, len)
  /\ numnodes \in Nat \ {0} /\ Product(nsquares) = numnodes

LEMMA NodeSites ==
  ASSUME LatticeGrid, NEW r \in Ranks
  PROVE  LET mc == MachineCoordinates(r)
         IN  /\ mc \in Box(nsquares) /\ lex_rank(mc, nsquares) = r
             /\ coord_parity(mc) \in {0, 1}
             /\ \A x \in LatticeSites :
                  node_number(x) = r <=> Quotients(x, squaresize) = mc
<1> USE DEF LatticeGrid, IsGrid
<1> DEFINE mc == MachineCoordinates(r)
<1>1. r \in Nat /\ r < Product(nsquares)
  BY DEF Ranks
<1>2. mc \in Box(nsquares) /\ lex_rank(mc, nsquares) = r
  BY <1>1, RankOfCoords DEF MachineCoordinates
<1> HIDE DEF mc
<1>3. coord_parity(mc) \in {0, 1}
  <2>1. CoordSum(mc) \in Nat
    BY <1>2, SumType
  <2>2. coord_parity(mc) = CoordSum(mc) % 2
    BY DEF coord_parity, CoordSum
  <2> QED BY <2>1, <2>2, EvenOrOdd
<1>4. ASSUME NEW x \in LatticeSites
      PROVE  node_number(x) = r <=> Quotients(x, squaresize) = mc
  <2>1. Quotients(x, squaresize) \in Box(nsquares)
    BY SplitSite DEF LatticeSites
  <2> QED BY <1>2, <2>1, RanksApart DEF node_number
<1> QED BY <1>2, <1>3, <1>4 DEF mc

LEMMA SumParity ==
  ASSUME NEW a \in Nat, NEW b \in Nat, NEW x \in Nat, NEW y \in Nat,
         a % 2 = b, x % 2 = y % 2
  PROVE  (a + x) % 2 = (b + y) % 2
<1>1. b = 0 \/ b = 1
  BY EvenOrOdd
<1> QED BY <1>1

(* The parity of a site, if a node has an odd number of sites.             *)
LEMMA OddNodeParity ==
  ASSUME LatticeGrid, sites_on_node % 2 = 1,
         NEW q \in Box(nsquares), NEW c \in Box(squaresize)
  PROVE  coord_parity(SiteAt(squaresize, q, c))
           = (coord_parity(q) + lex_rank(c, squaresize)) % 2
<1> USE DEF LatticeGrid, IsGrid
<1> DEFINE O == OriginSum(squaresize, q)
           S == CoordSum(c)
           M == coord_parity(q)
           K == lex_rank(c, squaresize)
<1>1. Product(squaresize) % 2 = 1
  BY DEF sites_on_node
<1>2. O % 2 = M
  BY <1>1, OddOrigin
<1>3. K % 2 = S % 2
  BY <1>1, OddRank
<1>4. O \in Nat /\ coord_parity(SiteAt(squaresize, q, c)) = (O + S) % 2
  BY SiteParity
<1>5. S \in Nat /\ K \in Nat
  BY SumType, LexRankBound
<1> HIDE DEF O, S, M, K
<1>6. (O + S) % 2 = (M + K) % 2
  <2>1. M \in Nat /\ S % 2 = K % 2
    BY <1>2, <1>3, <1>4
  <2> QED BY <1>2, <1>4, <1>5, <2>1, SumParity
<1> QED BY <1>4, <1>6 DEF M, K

LEMMA ParityType ==
  ASSUME NEW v \in Sizes, NEW w \in Sizes, NEW q \in Box(w), NEW c \in Box(v)
  PROVE  coord_parity(SiteAt(v, q, c)) \in {0, 1}
<1> DEFINE s == OriginSum(v, q) + CoordSum(c)
<1>1. s \in Nat /\ coord_parity(SiteAt(v, q, c)) = s % 2
  BY SiteParity, SumType
<1> HIDE DEF s
<1> QED BY <1>1, EvenOrOdd

(* The sites of a node have indices below num_sites, the even ones first.  *)
LEMMA SiteIndex ==
  ASSUME LatticeGrid, NEW x \in LatticeSites
  PROVE  /\ node_number(x) \in Ranks
         /\ node_index(x) \in 0 .. sites_on_node - 1
         /\ coord_parity(x) = 0 <=> node_index(x) < EvenSitesOnNode(node_number(x))
<1> USE DEF LatticeGrid, IsGrid
<1> DEFINE q == Quotients(x, squaresize)
           c == Remainders(x, squaresize)
           r == node_number(x)
           V == sites_on_node
           K == lex_rank(c, squaresize)
           P == coord_parity(x)
           M == coord_parity(MachineCoordinates(r))
<1>1. q \in Box(nsquares) /\ c \in Box(squaresize) /\ x = SiteAt(squaresize, q, c)
  BY SplitSite DEF LatticeSites
<1>2. r \in Ranks
  BY <1>1, LexRankBound DEF Ranks, node_number
<1>3. MachineCoordinates(r) = q /\ M \in {0, 1}
  BY <1>2, NodeSites
<1>4. V \in Nat /\ K \in Nat /\ K < V
  BY <1>1, LexRankBound, ProductType DEF sites_on_node
<1>5. V % 2 = 1 => P = (M + K) % 2
  <2> HIDE DEF q, c
  <2> QED BY <1>1, <1>3, OddNodeParity
<1>6. P \in {0, 1}
  <2> HIDE DEF q, c
  <2> QED BY <1>1, ParityType
<1>7. node_index(x) = IndexOf(V, K, P) /\ EvenSitesOnNode(r) = Evens(V, M)
  BY DEF node_index, EvenSitesOnNode, IndexOf, Evens
<1> HIDE DEF q, c, r, V, K, P, M
<1>8. /\ IndexOf(V, K, P) \in 0 .. V - 1
      /\ P = 0 <=> IndexOf(V, K, P) < Evens(V, M)
  BY <1>3, <1>4, <1>5, <1>6, IndexBounds
<1> QED BY <1>2, <1>7, <1>8 DEF r, V, P

LEMMA AdvanceIsNext ==
  ASSUME LatticeGrid, NEW q \in Box(nsquares), NEW c \in Box(squaresize)
  PROVE  LET origin == [d \in Dirs |-> q[d] * squaresize[d]]
         IN  Advance(SiteAt(squaresize, q, c), origin)
               = SiteAt(squaresize, q, NextInBox(squaresize, c))
<1> USE DEF LatticeGrid, IsGrid
<1> DEFINE origin == [d \in Dirs |-> q[d] * squaresize[d]]
           x == SiteAt(squaresize, q, c)
           n == NextInBox(squaresize, c)
           y == SiteAt(squaresize, q, n)
           full(d) == x[d] + 1 >= origin[d] + squaresize[d]
           back(d) == x[d] + 1 - squaresize[d]
           a == Advance(x, origin)
<1> SUFFICES a = y
  OBVIOUS
<1>1. /\ c \in [Dirs -> Nat]
      /\ \A d \in Dirs : /\ q[d] \in Nat /\ c[d] \in Nat /\ c[d] < squaresize[d]
                         /\ squaresize[d] \in Nat
  BY BoxIs DEF Sizes
<1>2. \A d \in Dirs : /\ origin[d] \in Nat
                      /\ x[d] = origin[d] + c[d] /\ y[d] = origin[d] + n[d]
  BY <1>1 DEF SiteAt
<1>3. x = [d \in Dirs |-> x[d]] /\ y = [d \in Dirs |-> y[d]]
  BY DEF SiteAt
<1>4. /\ ~full(XUP) => a = [x EXCEPT ![XUP] = @ + 1]
      /\ full(XUP) /\ ~full(YUP) =>
           a = [x EXCEPT ![XUP] = back(XUP), ![YUP] = @ + 1]
      /\ full(XUP) /\ full(YUP) /\ ~full(ZUP) =>
           a = [x EXCEPT ![XUP] = back(XUP), ![YUP] = back(YUP), ![ZUP] = @ + 1]
      /\ full(XUP) /\ full(YUP) /\ full(ZUP) =>
           a = [x EXCEPT ![XUP] = back(XUP), ![YUP] = back(YUP),
                         ![ZUP] = back(ZUP), ![TUP] = @ + 1]
  BY DEF Advance
<1>5. /\ ~Full(squaresize, c, XUP) => n = [c EXCEPT ![XUP] = @ + 1]
      /\ Full(squaresize, c, XUP) /\ ~Full(squaresize, c, YUP) =>
           n = [c EXCEPT ![XUP] = 0, ![YUP] = @ + 1]
      /\ Full(squaresize, c, XUP) /\ Full(squaresize, c, YUP)
         /\ ~Full(squaresize, c, ZUP) =>
           n = [c EXCEPT ![XUP] = 0, ![YUP] = 0, ![ZUP] = @ + 1]
      /\ Full(squaresize, c, XUP) /\ Full(squaresize, c, YUP)
         /\ Full(squaresize, c, ZUP) =>
           n = [c EXCEPT ![XUP] = 0, ![YUP] = 0, ![ZUP] = 0, ![TUP] = @ + 1]
  BY DEF NextInBox
<1> HIDE DEF origin, x, n, y, a
<1>6. \A d \in Dirs : full(d) <=> Full(squaresize, c, d)
  BY <1>1, <1>2 DEF Full
<1>7. \A d \in Dirs : full(d) => back(d) = origin[d]
  BY <1>1, <1>2
<1> HIDE DEF full, back
<1>8. \A d \in Dirs : x[d] + 1 = origin[d] + (c[d] + 1)
  BY <1>1, <1>2
<1>9. \A d \in Dirs : origin[d] + 0 = origin[d]
  BY <1>2
<1>10. CASE ~full(XUP)
  <2>1. a = [x EXCEPT ![XUP] = x[XUP] + 1] /\ n = [c EXCEPT ![XUP] = c[XUP] + 1]
    BY <1>4, <1>5, <1>6, <1>10, FourDirs
  <2>2. /\ a[XUP] = x[XUP] + 1 /\ a[YUP] = x[YUP] /\ a[ZUP] = x[ZUP]
        /\ a[TUP] = x[TUP] /\ a = [d \in Dirs |-> a[d]]
    BY <1>3, <2>1, FourDirs
  <2>3. /\ n[XUP] = c[XUP] + 1 /\ n[YUP] = c[YUP] /\ n[ZUP] = c[ZUP]
        /\ n[TUP] = c[TUP]
    BY <1>1, <2>1, FourDirs
  <2>4. \A d \in Dirs : a[d] = y[d]
    BY <1>2, <1>8, <2>2, <2>3, FourDirs
  <2> QED BY <1>3, <2>2, <2>4
<1>11. CASE full(XUP) /\ ~full(YUP)
  <2>1. /\ a = [x EXCEPT ![XUP] = back(XUP), ![YUP] = x[YUP] + 1]
        /\ n = [c EXCEPT ![XUP] = 0, ![YUP] = c[YUP] + 1]
    BY <1>4, <1>5, <1>6, <1>11, FourDirs
  <2>2. /\ a[XUP] = back(XUP) /\ a[YUP] = x[YUP] + 1 /\ a[ZUP] = x[ZUP]
        /\ a[TUP] = x[TUP] /\ a = [d \in Dirs |-> a[d]]
    BY <1>3, <2>1, FourDirs
  <2>3. /\ n[XUP] = 0 /\ n[YUP] = c[YUP] + 1 /\ n[ZUP] = c[ZUP]
        /\ n[TUP] = c[TUP]
    BY <1>1, <2>1, FourDirs
  <2>4. \A d \in Dirs : a[d] = y[d]
    BY <1>2, <1>7, <1>8, <1>9, <1>11, <2>2, <2>3, FourDirs
  <2> QED BY <1>3, <2>2, <2>4
<1>12. CASE full(XUP) /\ full(YUP) /\ ~full(ZUP)
  <2>1. /\ a = [x EXCEPT ![XUP] = back(XUP), ![YUP] = back(YUP), ![ZUP] = x[ZUP] + 1]
        /\ n = [c EXCEPT ![XUP] = 0, ![YUP] = 0, ![ZUP] = c[ZUP] + 1]
    BY <1>4, <1>5, <1>6, <1>12, FourDirs
  <2>2. /\ a[XUP] = back(XUP) /\ a[YUP] = back(YUP) /\ a[ZUP] = x[ZUP] + 1
        /\ a[TUP] = x[TUP] /\ a = [d \in Dirs |-> a[d]]
    BY <1>3, <2>1, FourDirs
  <2>3. /\ n[XUP] = 0 /\ n[YUP] = 0 /\ n[ZUP] = c[ZUP] + 1
        /\ n[TUP] = c[TUP]
    BY <1>1, <2>1, FourDirs
  <2>4. \A d \in Dirs : a[d] = y[d]
    BY <1>2, <1>7, <1>8, <1>9, <1>12, <2>2, <2>3, FourDirs
  <2> QED BY <1>3, <2>2, <2>4
<1>13. CASE full(XUP) /\ full(YUP) /\ full(ZUP)
  <2>1. /\ a = [x EXCEPT ![XUP] = back(XUP), ![YUP] = back(YUP),
                         ![ZUP] = back(ZUP), ![TUP] = x[TUP] + 1]
        /\ n = [c EXCEPT ![XUP] = 0, ![YUP] = 0, ![ZUP] = 0, ![TUP] = c[TUP] + 1]
    BY <1>4, <1>5, <1>6, <1>13, FourDirs
  <2>2. /\ a[XUP] = back(XUP) /\ a[YUP] = back(YUP) /\ a[ZUP] = back(ZUP)
        /\ a[TUP] = x[TUP] + 1 /\ a = [d \in Dirs |-> a[d]]
    BY <1>3, <2>1, FourDirs
  <2>3. n[XUP] = 0 /\ n[YUP] = 0 /\ n[ZUP] = 0 /\ n[TUP] = c[TUP] + 1
    BY <1>1, <2>1, FourDirs
  <2>4. \A d \in Dirs : a[d] = y[d]
    BY <1>2, <1>7, <1>8, <1>9, <1>13, <2>2, <2>3, FourDirs
  <2> QED BY <1>3, <2>2, <2>4
<1> QED BY <1>10, <1>11, <1>12, <1>13

(* get_coords finds the site of an index.                                  *)
LEMMA CoordsOfIndex ==
  ASSUME LatticeGrid, NEW r \in Ranks, NEW k \in 0 .. num_sites(r) - 1
  PROVE  LET x == get_coords(r, k)
         IN  x \in LatticeSites /\ node_number(x) = r /\ node_index(x) = k
<1> USE DEF LatticeGrid, IsGrid
<1> DEFINE V == sites_on_node
           q == MachineCoordinates(r)
           M == coord_parity(q)
           p == ParityAt(V, M, k)
           e == EvenRank(V, M, k)
           origin == [d \in Dirs |-> q[d] * squaresize[d]]
           c == lex_coords(squaresize, e)
           n == NextInBox(squaresize, c)
           x == SiteAt(squaresize, q, c)
           y == SiteAt(squaresize, q, n)
           g == get_coords(r, k)
<1>1. V \in Nat /\ k \in Nat /\ k < V /\ V = Product(squaresize)
  BY ProductType DEF num_sites, sites_on_node
<1>2. q \in Box(nsquares) /\ M \in {0, 1} /\ lex_rank(q, nsquares) = r
  BY NodeSites
<1>3. g = IF coord_parity(x) /= p THEN Advance(x, origin) ELSE x
  <2>1. SiteAt(squaresize, q, c) = [d \in Dirs |-> origin[d] + c[d]]
    BY DEF SiteAt
  <2>2. p = IF k < NEven(V, M) THEN 0 ELSE 1
    BY DEF ParityAt
  <2>3. e = IF k < NEven(V, M) THEN 2 * k ELSE 2 * (k - NEven(V, M))
    BY DEF EvenRank
  <2>4. NEven(V, M) = (sites_on_node + 1 - coord_parity(q)) \div 2
    BY DEF NEven
  <2> QED BY <2>1, <2>2, <2>3, <2>4 DEF get_coords
<1>5. p \in {0, 1}
  BY DEF ParityAt
<1> HIDE DEF V, M
<1>10. Suits(V, M, k, e, p)
  BY <1>1, <1>2, RankOfIndex
<1> HIDE DEF p, e
<1>4. /\ e \in Nat /\ e < V /\ e % 2 = 0
      /\ ~(V % 2 = 1 => p = (M + e) % 2) => e + 1 < V
      /\ V % 2 = 0 => e + 1 < V
      /\ (V % 2 = 1 => p = (M + e) % 2) => IndexOf(V, e, p) = k
      /\ (V % 2 = 1 => p = (M + e + 1) % 2) => IndexOf(V, e + 1, p) = k
  BY <1>10 DEF Suits
(* What holds of a site of the node with the right parity.                 *)
<1>6. ASSUME NEW s \in Box(squaresize), coord_parity(SiteAt(squaresize, q, s)) = p
      PROVE  LET z == SiteAt(squaresize, q, s)
                 K == lex_rank(s, squaresize)
             IN  /\ z \in LatticeSites /\ node_number(z) = r
                 /\ node_index(z) = IndexOf(V, K, p)
                 /\ V % 2 = 1 => p = (M + K) % 2
  <2> DEFINE z == SiteAt(squaresize, q, s)
             K == lex_rank(s, squaresize)
  <2> HIDE DEF q
  <2>1. z \in LatticeSites /\ Quotients(z, squaresize) = q
        /\ Remainders(z, squaresize) = s
    BY <1>2, JoinSite DEF LatticeSites
  <2>2. node_number(z) = r
    BY <1>2, <2>1 DEF node_number
  <2>3. node_index(z) = IndexOf(V, K, p)
    BY <1>6, <2>1 DEF node_index, IndexOf, V
  <2>4. V % 2 = 1 => p = (M + K) % 2
    BY <1>2, <1>6, OddNodeParity DEF V, M
  <2> QED BY <2>1, <2>2, <2>3, <2>4
<1>7. c \in Box(squaresize) /\ lex_rank(c, squaresize) = e
  BY <1>1, <1>4, RankOfCoords
<1> HIDE DEF c, q
<1>8. CASE coord_parity(x) = p
  <2>1. g = x
    BY <1>3, <1>8
  <2>2. x \in LatticeSites /\ node_number(x) = r /\ node_index(x) = k
    BY <1>4, <1>6, <1>7, <1>8
  <2> HIDE DEF g, x
  <2>3. g \in LatticeSites /\ node_number(g) = r /\ node_index(g) = k
    BY <2>1, <2>2
  <2> QED BY <2>3 DEF g
<1>9. CASE coord_parity(x) /= p
  <2>1. g = y
    <3>1. g = Advance(x, origin)
      BY <1>3, <1>9
    <3>2. Advance(x, origin) = y
      BY <1>2, <1>7, AdvanceIsNext
    <3> QED BY <3>1, <3>2
  <2>2. coord_parity(x) \in {0, 1}
    BY <1>2, <1>7, ParityType
  <2>3. e + 1 < V
    <3>1. V % 2 = 1 => coord_parity(x) = (M + e) % 2
      BY <1>2, <1>7, OddNodeParity DEF V, M
    <3>2. V % 2 = 0 \/ V % 2 = 1
      BY <1>1, EvenOrOdd
    <3> QED BY <1>4, <1>9, <3>1, <3>2
  <2>4. /\ n \in Box(squaresize) /\ lex_rank(n, squaresize) = e + 1
        /\ (CoordSum(c) + CoordSum(n)) % 2 = 1
    BY <1>1, <1>4, <1>7, <2>3, NextInBoxStep
  <2>5. coord_parity(y) = p
    <3> DEFINE O == OriginSum(squaresize, q)
    <3>1. /\ O \in Nat /\ coord_parity(x) = (O + CoordSum(c)) % 2
          /\ coord_parity(y) = (O + CoordSum(n)) % 2
      BY <1>2, <1>7, <2>4, SiteParity
    <3>2. CoordSum(c) \in Nat /\ CoordSum(n) \in Nat
      BY <1>7, <2>4, SumType
    <3> HIDE DEF O, x, y, n
    <3>3. ASSUME NEW a \in Nat, NEW b \in Nat, NEW o \in Nat, (a + b) % 2 = 1
          PROVE  (o + a) % 2 /= (o + b) % 2 /\ (o + b) % 2 \in {0, 1}
      BY <3>3
    <3>4. coord_parity(y) /= coord_parity(x) /\ coord_parity(y) \in {0, 1}
      BY <2>4, <3>1, <3>2, <3>3
    <3> QED BY <1>5, <1>9, <2>2, <3>4
  <2>6. /\ y \in LatticeSites /\ node_number(y) = r
        /\ node_index(y) = IndexOf(V, e + 1, p)
        /\ V % 2 = 1 => p = (M + (e + 1)) % 2
    BY <1>6, <2>4, <2>5
  <2>7. M + (e + 1) = M + e + 1
    BY <1>2, <1>4 DEF M
  <2>8. node_index(y) = k
    BY <1>4, <2>6, <2>7
  <2> HIDE DEF g, y
  <2>9. g \in LatticeSites /\ node_number(g) = r /\ node_index(g) = k
    BY <2>1, <2>6, <2>8
  <2> QED BY <2>9 DEF g
<1> QED BY <1>8, <1>9

LEMMA NodeIsOneToOne ==
  ASSUME LatticeGrid
  PROVE  OneToOne(LatticeSites, Ranks, node_number, node_index, num_sites)
<1> SUFFICES ASSUME NEW r \in Ranks
             PROVE  LET mine == {x \in LatticeSites : node_number(x) = r}
                    IN  /\ Cardinality(mine) = num_sites(r)
                        /\ {node_index(x) : x \in mine} = 0 .. num_sites(r) - 1
  BY DEF OneToOne
<1> DEFINE mine == {x \in LatticeSites : node_number(x) = r}
           mc == MachineCoordinates(r)
<1>1. mc \in Box(nsquares)
      /\ mine = {x \in Box(len) : Quotients(x, squaresize) = mc}
  <2>1. /\ mc \in Box(nsquares)
        /\ \A x \in LatticeSites :
             node_number(x) = r <=> Quotients(x, squaresize) = mc
    BY NodeSites
  <2> HIDE DEF mc
  <2> QED BY <2>1 DEF LatticeSites
<1>2. Cardinality(mine) = num_sites(r)
  <2> HIDE DEF mc, mine
  <2> QED BY <1>1, GridBoxCount DEF LatticeGrid, num_sites, sites_on_node
<1>3. \A x \in mine : node_index(x) \in 0 .. num_sites(r) - 1
  BY SiteIndex DEF num_sites
<1>4. \A k \in 0 .. num_sites(r) - 1 : \E x \in mine : node_index(x) = k
  <2> SUFFICES ASSUME NEW k \in 0 .. num_sites(r) - 1
               PROVE  \E x \in mine : node_index(x) = k
    OBVIOUS
  <2>1. /\ get_coords(r, k) \in LatticeSites
        /\ node_number(get_coords(r, k)) = r /\ node_index(get_coords(r, k)) = k
    BY CoordsOfIndex
  <2> QED BY <2>1
<1> HIDE DEF mine
<1>5. {node_index(x) : x \in mine} = 0 .. num_sites(r) - 1
  BY <1>3, <1>4
<1> QED BY <1>2, <1>5 DEF mine

LEMMA GridIsPlaced == LatticeGrid => PlacedOnce
<1> SUFFICES ASSUME LatticeGrid PROVE PlacedOnce
  OBVIOUS
<1>1. AllPlaced(LatticeSites, Ranks, node_number)
  BY SiteIndex DEF AllPlaced
<1>2. OneToOne(LatticeSites, Ranks, node_number, node_index, num_sites)
  BY NodeIsOneToOne
<1>3. EvenFirst(LatticeSites, node_number, node_index, EvenSitesOnNode)
  BY SiteIndex DEF EvenFirst
<1>4. CoordsInverse
  BY CoordsOfIndex DEF CoordsInverse
<1> QED BY <1>1, <1>2, <1>3, <1>4 DEF PlacedOnce, SitesPlaced

LEMMA ReadyGrid ==
  DInv /\ phase = "ready" => LatticeGrid
<1> SUFFICES ASSUME DInv, phase = "ready" PROVE LatticeGrid
  OBVIOUS
<1>1. TypeOK /\ Tiling /\ BoxesMatchNodes
  BY DEF DInv, LInv
<1> QED BY <1>1 DEF TypeOK, Tiling, BoxesMatchNodes, LatticeGrid, IsGrid

(***************************************************************************)
(* For every lattice, machine and given geometry (and a table of primes    *)
(* that has those of the machine): node_number and node_index put every    *)
(* site in a place of its own, even sites first, also where a node has an  *)
(* odd number of sites, and get_coords, which looks at no other node and   *)
(* searches nothing, leads from each place back to its site.               *)
(***************************************************************************)
THEOREM SitesHavePlaces == TableSuffices => (Spec => []PlacedOnce)
<1> SUFFICES ASSUME TableSuffices PROVE Spec => []PlacedOnce
  OBVIOUS
<1>1. Init => DInv
  BY InitDInv
<1>2. DInv /\ [Next]_vars => DInv'
  BY NextDInv
<1>3. DInv => PlacedOnce
  <2>1. phase /= "ready" => PlacedOnce
    BY DEF PlacedOnce, SitesPlaced, CoordsInverse
  <2> QED BY <2>1, ReadyGrid, GridIsPlaced
<1> QED BY <1>1, <1>2, <1>3, PTL DEF Spec

-----------------------------------------------------------------------------
(* The I/O nodes.                                                          *)

(* Only a machine geometry that the I/O geometry divides becomes ready.    *)
IoFits == phase = "ready" => IoGeometryFits

LEMMA IoFitsKept ==
  /\ Init => IoFits
  /\ IoFits /\ [Next]_vars => IoFits'
<1>1. Init => IoFits
  BY DEF Init, IoFits
<1>2. ASSUME IoFits, [Next]_vars PROVE IoFits'
  <2>1. CASE DivideOnce
    BY <2>1 DEF DivideOnce, DivideBy, IoFits
  <2>2. CASE RunOutOfFactors
    BY <2>2 DEF RunOutOfFactors, IoFits
  <2>3. CASE Divided
    BY <2>3 DEF Divided, IoFits
  <2>4. CASE SetupFixedGeom
    BY <2>4 DEF SetupFixedGeom, IoFits
  <2>5. CASE SetupLayout
    BY <2>5 DEF SetupLayout, IoFits, IoGeometryFits, inputs, NoGeom
  <2>6. CASE UNCHANGED vars
    BY <1>2, <2>6 DEF vars, inputs, IoFits, IoGeometryFits, NoGeom
  <2> QED BY <1>2, <2>1, <2>2, <2>3, <2>4, <2>5, <2>6 DEF Next
<1> QED BY <1>1, <1>2

(* The ranks of a box grow with each coordinate.                           *)
LEMMA LexRankMonotonic ==
  ASSUME NEW v \in Sizes, NEW x \in Box(v), NEW y \in Box(v),
         \A d \in Dirs : x[d] <= y[d]
  PROVE  lex_rank(x, v) <= lex_rank(y, v)
<1>0. ASSUME NEW s \in Nat, NEW a \in Nat, NEW b \in Nat, a <= b,
             NEW k \in Nat, NEW m \in Nat, k <= m
      PROVE  a + s * k \in Nat /\ b + s * m \in Nat /\ a + s * k <= b + s * m
  <2>1. PICK n \in Nat : m = k + n
    <3>1. m - k \in Nat /\ m = k + (m - k)
      BY <1>0
    <3> QED BY <3>1
  <2>2. s * m = s * k + s * n /\ s * k \in Nat /\ s * n \in Nat
    BY <2>1
  <2> DEFINE p == s * k  q == s * n  t == s * m
  <2>3. p \in Nat /\ q \in Nat /\ t = p + q
    BY <2>2
  <2> HIDE DEF p, q, t
  <2>4. a + p \in Nat /\ b + t \in Nat /\ a + p <= b + t
    BY <1>0, <2>3
  <2> QED BY <2>4 DEF p, t
<1>1. \A d \in Dirs : x[d] \in Nat /\ y[d] \in Nat /\ v[d] \in Nat /\ x[d] <= y[d]
  BY BoxIs DEF Sizes
<1> DEFINE jx == x[ZUP] + v[ZUP] * x[TUP]  jy == y[ZUP] + v[ZUP] * y[TUP]
           kx == x[YUP] + v[YUP] * jx      ky == y[YUP] + v[YUP] * jy
           lx == x[XUP] + v[XUP] * kx      ly == y[XUP] + v[XUP] * ky
<1>2. jx \in Nat /\ jy \in Nat /\ jx <= jy
  BY <1>0, <1>1, FourDirs
<1> HIDE DEF jx, jy
<1>3. kx \in Nat /\ ky \in Nat /\ kx <= ky
  BY <1>0, <1>1, <1>2, FourDirs
<1> HIDE DEF kx, ky
<1>4. lx <= ly
  BY <1>0, <1>1, <1>3, FourDirs
<1> QED BY <1>4 DEF lx, ly, kx, ky, jx, jy, lex_rank

Zeros == [d \in Dirs |-> 0]

LEMMA ZerosInBox ==
  ASSUME NEW v \in Sizes PROVE Zeros \in Box(v)
<1>1. Zeros \in [Dirs -> Nat] /\ \A d \in Dirs : Zeros[d] < v[d]
  BY DEF Zeros, Sizes
<1> QED BY <1>1, BoxIs

(* io_node, as the first node of the partition of the rank.                *)
Partition(r) == Quotients(lex_coords(nsquares, r), PesPerIopartition)
FirstOf(b) == lex_rank(SiteAt(PesPerIopartition, b, Zeros), nsquares)

IoGrid ==
  /\ IsGrid(PesPerIopartition, iogeom, nsquares) /\ iogeom /= NoGeom
  /\ numnodes \in Nat \ {0} /\ Product(nsquares) = numnodes

LEMMA IoNodeIs ==
  ASSUME IoGrid, NEW r \in Ranks
  PROVE  /\ Partition(r) \in Box(iogeom)
         /\ io_node(r) = FirstOf(Partition(r))
         /\ io_node(r) <= r
<1> USE DEF IoGrid, IsGrid
<1> DEFINE c == lex_coords(nsquares, r)
           s == PesPerIopartition
           b == Quotients(c, s)
           z == SiteAt(s, b, Zeros)
<1>1. c \in Box(nsquares) /\ lex_rank(c, nsquares) = r
  BY RankOfCoords DEF Ranks
<1> HIDE DEF c
<1>2. /\ b \in Box(iogeom) /\ Remainders(c, s) \in Box(s)
      /\ c = SiteAt(s, b, Remainders(c, s))
  BY <1>1, SplitSite
<1>3. z \in Box(nsquares)
  BY <1>2, ZerosInBox, JoinSite
<1>4. z = [d \in Dirs |-> s[d] * (c[d] \div s[d])]
  <2>1. ASSUME NEW d \in Dirs PROVE z[d] = s[d] * (c[d] \div s[d])
    <3>1. b[d] \in Nat /\ s[d] \in Nat
      BY <1>2, BoxIs DEF Sizes
    <3>2. b[d] = c[d] \div s[d]
      BY DEF Quotients
    <3>3. z[d] = b[d] * s[d] + 0
      BY DEF SiteAt, Zeros
    <3> HIDE DEF b, z, s
    <3>4. b[d] * s[d] + 0 = s[d] * b[d]
      BY <3>1
    <3> QED BY <3>2, <3>3, <3>4
  <2> QED BY <2>1 DEF SiteAt
<1>5. io_node(r) = lex_rank(z, nsquares)
  BY <1>4 DEF io_node, MachineCoordinates, c
<1>6. \A d \in Dirs : z[d] <= c[d]
  <2> SUFFICES ASSUME NEW d \in Dirs PROVE z[d] <= c[d]
    OBVIOUS
  <2> DEFINE m == Remainders(c, s)
  <2>1. b[d] \in Nat /\ s[d] \in Nat /\ m[d] \in Nat
    BY <1>2, BoxIs DEF Sizes
  <2>2. z[d] = b[d] * s[d] + 0 /\ c[d] = b[d] * s[d] + m[d]
    BY <1>2 DEF SiteAt, Zeros
  <2> HIDE DEF b, z, s, m
  <2>3. b[d] * s[d] \in Nat
    BY <2>1
  <2> QED BY <2>1, <2>2, <2>3
<1>7. lex_rank(z, nsquares) <= lex_rank(c, nsquares)
  BY <1>1, <1>3, <1>6, LexRankMonotonic
<1> QED BY <1>1, <1>2, <1>5, <1>7 DEF Partition, FirstOf, c

LEMMA FirstIsIoNode ==
  ASSUME IoGrid, NEW b \in Box(iogeom)
  PROVE  FirstOf(b) \in Ranks /\ Partition(FirstOf(b)) = b
<1> USE DEF IoGrid, IsGrid
<1> DEFINE z == SiteAt(PesPerIopartition, b, Zeros)
<1>1. z \in Box(nsquares) /\ Quotients(z, PesPerIopartition) = b
  BY ZerosInBox, JoinSite
<1> HIDE DEF z
<1>2. /\ lex_rank(z, nsquares) \in Nat /\ lex_rank(z, nsquares) < numnodes
      /\ lex_coords(nsquares, lex_rank(z, nsquares)) = z
  BY <1>1, LexRankBound, CoordsOfRank
<1>3. lex_rank(z, nsquares) \in Ranks
  BY <1>2 DEF Ranks
<1> QED BY <1>1, <1>2, <1>3 DEF FirstOf, Partition, z

LEMMA FirstsApart ==
  ASSUME IoGrid, NEW a \in Box(iogeom), NEW b \in Box(iogeom)
  PROVE  FirstOf(a) = FirstOf(b) <=> a = b
BY FirstIsIoNode

(* As many ranks belong to a partition as a partition has nodes.           *)
LEMMA PartitionCount ==
  ASSUME IoGrid, NEW b \in Box(iogeom)
  PROVE  Cardinality({s \in Ranks : Partition(s) = b}) = Product(PesPerIopartition)
<1> USE DEF IoGrid, IsGrid
<1> DEFINE S == {s \in Ranks : Partition(s) = b}
           T == {c \in Box(nsquares) : Quotients(c, PesPerIopartition) = b}
           f == [c \in T |-> lex_rank(c, nsquares)]
<1>1. IsFiniteSet(T) /\ Cardinality(T) = Product(PesPerIopartition)
  BY GridBoxCount
<1>2. ASSUME NEW c \in T PROVE f[c] \in S
  <2>1. /\ lex_rank(c, nsquares) \in Nat /\ lex_rank(c, nsquares) < numnodes
        /\ lex_coords(nsquares, lex_rank(c, nsquares)) = c
    BY LexRankBound, CoordsOfRank
  <2>2. lex_rank(c, nsquares) \in Ranks
    BY <2>1 DEF Ranks
  <2>3. Partition(lex_rank(c, nsquares)) = b
    BY <2>1 DEF Partition
  <2> QED BY <2>2, <2>3
<1>3. \A x, y \in T : f[x] = f[y] => x = y
  BY RanksApart
<1>4. ASSUME NEW s \in S PROVE \E c \in T : f[c] = s
  <2> DEFINE c == lex_coords(nsquares, s)
  <2>1. c \in Box(nsquares) /\ lex_rank(c, nsquares) = s
    BY RankOfCoords DEF Ranks
  <2>2. Quotients(c, PesPerIopartition) = b
    BY DEF Partition
  <2> HIDE DEF c
  <2> QED BY <2>1, <2>2
<1>5. f \in [T -> S]
  BY <1>2
<1> HIDE DEF f, S, T
<1>6. f \in Bijection(T, S)
  BY <1>3, <1>4, <1>5 DEF Bijection, Injection, IsInjective, Surjection
<1>7. ExistsBijection(T, S)
  BY <1>6 DEF ExistsBijection
<1>8. Cardinality(S) = Cardinality(T)
  BY <1>1, <1>7, FS_Bijection
<1> QED BY <1>1, <1>8 DEF S

LEMMA GridHasIoNodes ==
  ASSUME IoGrid
  PROVE  LET ionodes == {io_node(r) : r \in Ranks} IN
           /\ Cardinality(ionodes) = Product(iogeom)
           /\ \A r \in Ranks : io_node(r) \in Ranks /\ io_node(r) <= r
           /\ \A r \in ionodes :
                /\ io_node(r) = r
                /\ Cardinality({s \in Ranks : io_node(s) = r}) * Product(iogeom)
                     = numnodes
<1> USE DEF IoGrid, IsGrid
<1> DEFINE ionodes == {io_node(r) : r \in Ranks}
           f == [b \in Box(iogeom) |-> FirstOf(b)]
<1>1. \A r \in Ranks : /\ Partition(r) \in Box(iogeom)
                       /\ io_node(r) = FirstOf(Partition(r)) /\ io_node(r) <= r
  BY IoNodeIs
<1>2. \A b \in Box(iogeom) : FirstOf(b) \in Ranks /\ Partition(FirstOf(b)) = b
  BY FirstIsIoNode
<1>3. \A b \in Box(iogeom) : io_node(FirstOf(b)) = FirstOf(b)
  BY <1>1, <1>2
<1>4. ionodes = {FirstOf(b) : b \in Box(iogeom)}
  <2>1. \A r \in ionodes : \E b \in Box(iogeom) : r = FirstOf(b)
    BY <1>1
  <2>2. \A b \in Box(iogeom) : FirstOf(b) \in ionodes
    BY <1>2, <1>3
  <2> QED BY <2>1, <2>2
<1>5. Cardinality(ionodes) = Product(iogeom)
  <2>1. IsFiniteSet(Box(iogeom)) /\ Cardinality(Box(iogeom)) = Product(iogeom)
    BY BoxCount
  <2>2. f \in [Box(iogeom) -> ionodes]
    BY <1>4
  <2>3. \A a, b \in Box(iogeom) : f[a] = f[b] => a = b
    BY FirstsApart
  <2>4. \A r \in ionodes : \E b \in Box(iogeom) : f[b] = r
    BY <1>4
  <2> HIDE DEF f, ionodes
  <2>5. f \in Bijection(Box(iogeom), ionodes)
    BY <2>2, <2>3, <2>4 DEF Bijection, Injection, IsInjective, Surjection
  <2>6. ExistsBijection(Box(iogeom), ionodes)
    BY <2>5 DEF ExistsBijection
  <2> QED BY <2>1, <2>6, FS_Bijection
<1>6. \A r \in Ranks : io_node(r) \in Ranks /\ io_node(r) <= r
  BY <1>1, <1>2
<1>7. ASSUME NEW r \in ionodes
      PROVE  /\ io_node(r) = r
             /\ Cardinality({s \in Ranks : io_node(s) = r}) * Product(iogeom)
                  = numnodes
  <2>1. PICK b \in Box(iogeom) : r = FirstOf(b)
    BY <1>4
  <2>2. \A s \in Ranks : io_node(s) = r <=> Partition(s) = b
    BY <1>1, <2>1, FirstsApart
  <2>3. {s \in Ranks : io_node(s) = r} = {s \in Ranks : Partition(s) = b}
    BY <2>2
  <2>4. Cardinality({s \in Ranks : io_node(s) = r}) = Product(PesPerIopartition)
    BY <2>3, PartitionCount
  <2>5. Product(PesPerIopartition) * Product(iogeom) = Product(nsquares)
    BY ProductOfGrid
  <2> QED BY <1>3, <2>1, <2>4, <2>5
<1> HIDE DEF ionodes
<1> QED BY <1>5, <1>6, <1>7 DEF ionodes

LEMMA ReadyIoGrid ==
  ASSUME DInv, IoFits, phase = "ready", iogeom /= NoGeom PROVE IoGrid
<1>1. /\ nsquares \in Sizes /\ numnodes \in Nat \ {0}
      /\ iogeom \in Sizes /\ Product(nsquares) = numnodes
  BY DEF DInv, LInv, TypeOK, BoxesMatchNodes
<1>2. ASSUME NEW d \in Dirs
      PROVE  /\ PesPerIopartition[d] \in Nat \ {0}
             /\ PesPerIopartition[d] * iogeom[d] = nsquares[d]
  <2>1. nsquares[d] \in Nat \ {0} /\ iogeom[d] \in Nat \ {0}
    BY <1>1 DEF Sizes
  <2>2. nsquares[d] % iogeom[d] = 0
    BY DEF IoFits, IoGeometryFits
  <2>3. PesPerIopartition[d] = nsquares[d] \div iogeom[d]
    BY DEF PesPerIopartition, Quotients
  <2>4. /\ nsquares[d] \div iogeom[d] \in Nat
        /\ nsquares[d] = (nsquares[d] \div iogeom[d]) * iogeom[d]
    BY <2>1, <2>2, Quotient
  <2>5. nsquares[d] \div iogeom[d] /= 0
    BY <2>1, <2>4
  <2> QED BY <2>3, <2>4, <2>5
<1>3. PesPerIopartition \in Sizes
  BY <1>2 DEF PesPerIopartition, Quotients, Sizes
<1> QED BY <1>1, <1>2, <1>3 DEF IoGrid, IsGrid

(***************************************************************************)
(* The I/O nodes, for every machine and every I/O geometry that the        *)
(* program does not refuse: as many as the geometry has boxes, each its    *)
(* own I/O node and the lowest rank of those it serves, and each serving   *)
(* as many ranks as the others.                                            *)
(***************************************************************************)
THEOREM IoNodesPartition == TableSuffices => (Spec => []IoPartitions)
<1> SUFFICES ASSUME TableSuffices PROVE Spec => []IoPartitions
  OBVIOUS
<1>1. Init => DInv /\ IoFits
  BY InitDInv, IoFitsKept
<1>2. DInv /\ IoFits /\ [Next]_vars => DInv' /\ IoFits'
  BY NextDInv, IoFitsKept
<1>3. DInv /\ IoFits => IoPartitions
  <2> SUFFICES ASSUME DInv, IoFits, phase = "ready", iogeom /= NoGeom
               PROVE  IoPartitions
    BY DEF IoPartitions
  <2>1. IoGrid
    BY ReadyIoGrid
  <2> QED BY <2>1, GridHasIoNodes DEF IoPartitions
<1> QED BY <1>1, <1>2, <1>3, PTL DEF Spec

-----------------------------------------------------------------------------
(* The layout by 32 colors.                                                *)

(* A box of even dimensions is a grid of cells of sixteen sites.           *)
Twos == [d \in Dirs |-> 2]

Cells == Halves(squaresize)

EvenBoxes ==
  /\ LatticeGrid /\ WholeCells
  /\ sites_on_node % 32 = 0

LEMMA TwosAre == Twos \in Sizes /\ Product(Twos) = 16
<1>1. Twos \in Sizes
  BY DEF Twos, Sizes
<1>2. Twos[XUP] = 2 /\ Twos[YUP] = 2 /\ Twos[ZUP] = 2 /\ Twos[TUP] = 2
  BY FourDirs DEF Twos
<1> QED BY <1>1, <1>2 DEF Product

LEMMA HalvesAreQuotients ==
  ASSUME NEW v PROVE Halves(v) = Quotients(v, Twos)
BY DEF Halves, Quotients, Twos

LEMMA CellGrid ==
  ASSUME EvenBoxes
  PROVE  /\ IsGrid(Twos, Cells, squaresize)
         /\ \A d \in Dirs : squaresize[d] = 2 * Cells[d]
         /\ Product(Cells) = 2 * subl_sites_on_node
         /\ sites_on_node = 32 * subl_sites_on_node
         /\ subl_sites_on_node \in Nat \ {0}
<1> USE DEF EvenBoxes, LatticeGrid
<1>1. squaresize \in Sizes
  BY DEF IsGrid
<1>2. ASSUME NEW d \in Dirs
      PROVE  Cells[d] \in Nat \ {0} /\ squaresize[d] = 2 * Cells[d]
  <2>1. squaresize[d] \in Nat \ {0} /\ squaresize[d] % 2 = 0
    BY <1>1 DEF Sizes, WholeCells
  <2>2. Cells[d] = squaresize[d] \div 2
    BY DEF Cells, Halves
  <2> QED BY <2>1, <2>2
<1>3. Cells \in Sizes
  BY <1>2 DEF Cells, Halves, Sizes
<1>4. \A d \in Dirs : Twos[d] * Cells[d] = squaresize[d]
  BY <1>2 DEF Twos
<1>5. IsGrid(Twos, Cells, squaresize)
  BY <1>1, <1>3, <1>4, TwosAre DEF IsGrid
<1> DEFINE V == sites_on_node
           H == Product(Cells)
           s == subl_sites_on_node
<1>6. H \in Nat /\ 16 * H = V
  <2>1. Product(Twos) * Product(Cells) = Product(squaresize)
    BY <1>1, <1>3, <1>4, TwosAre, ProductOfGrid
  <2> QED BY <1>3, <2>1, TwosAre, ProductType DEF sites_on_node
<1>7. V \in Nat \ {0} /\ V % 32 = 0 /\ s = V \div 32
  BY <1>1, ProductType DEF sites_on_node, subl_sites_on_node
<1> HIDE DEF V, H, s
<1>8. H = 2 * s /\ V = 32 * s /\ s \in Nat \ {0}
  BY <1>6, <1>7
<1> QED BY <1>2, <1>5, <1>8 DEF V, H, s

(* The site with the given corner in a cell of a node.                     *)
SiteOfCell(q, cell, corner) == SiteAt(squaresize, q, SiteAt(Twos, cell, corner))

LEMMA CornerRank ==
  ASSUME NEW c \in Box(Twos)
  PROVE  lex_rank(c, Twos) \in 0 .. 15
BY TwosAre, LexRankBound

(* What the layout makes of that site.                                     *)
LEMMA ColoredSite ==
  ASSUME EvenBoxes, NEW q \in Box(nsquares), NEW cell \in Box(Cells),
         NEW corner \in Box(Twos)
  PROVE  LET x == SiteOfCell(q, cell, corner)
             p == coord_parity(SiteAt(Cells, q, cell))
         IN  /\ x \in LatticeSites /\ node_number(x) = lex_rank(q, nsquares)
             /\ p \in {0, 1}
             /\ Color(x) = lex_rank(corner, Twos) + 16 * p
             /\ node_index32(x) = lex_rank(cell, Cells) \div 2
                                    + Color(x) * subl_sites_on_node
<1> USE DEF EvenBoxes, LatticeGrid
<1> DEFINE c == SiteAt(Twos, cell, corner)
           x == SiteOfCell(q, cell, corner)
           y == SiteAt(Cells, q, cell)
           L == Quotients(len, Twos)
<1>1. /\ IsGrid(Twos, Cells, squaresize) /\ IsGrid(squaresize, nsquares, len)
      /\ \A d \in Dirs : squaresize[d] = 2 * Cells[d]
  BY CellGrid
<1>2. /\ c \in Box(squaresize) /\ Quotients(c, Twos) = cell
      /\ Remainders(c, Twos) = corner
  BY <1>1, JoinSite
<1>3. /\ x \in Box(len) /\ Quotients(x, squaresize) = q
      /\ Remainders(x, squaresize) = c
  BY <1>1, <1>2, JoinSite DEF SiteOfCell
<1>4. ASSUME NEW d \in Dirs
      PROVE  /\ Cells[d] \in Nat \ {0} /\ nsquares[d] \in Nat \ {0}
             /\ len[d] = 2 * (Cells[d] * nsquares[d]) /\ L[d] = Cells[d] * nsquares[d]
  <2>1. Cells[d] \in Nat \ {0} /\ nsquares[d] \in Nat \ {0}
    BY <1>1 DEF IsGrid, Sizes
  <2>2. len[d] = (2 * Cells[d]) * nsquares[d]
    BY <1>1 DEF IsGrid
  <2>3. L[d] = len[d] \div 2
    BY DEF Quotients, Twos
  <2>4. (2 * Cells[d]) * nsquares[d] = 2 * (Cells[d] * nsquares[d])
        /\ Cells[d] * nsquares[d] \in Nat
    BY <2>1
  <2> DEFINE m == Cells[d] * nsquares[d]
  <2>5. m \in Nat /\ len[d] = 2 * m
    BY <2>2, <2>4
  <2> HIDE DEF m
  <2>6. len[d] \div 2 = m
    BY <2>5
  <2> QED BY <2>1, <2>3, <2>5, <2>6 DEF m
<1>5. L \in Sizes
  <2>1. ASSUME NEW d \in Dirs PROVE L[d] \in Nat \ {0}
    <3>1. \A a, b \in Nat \ {0} : a * b \in Nat \ {0}
      OBVIOUS
    <3> HIDE DEF L
    <3> QED BY <1>4, <3>1
  <2> QED BY <2>1 DEF Sizes, Quotients
<1>6. IsGrid(Cells, nsquares, L) /\ IsGrid(Twos, L, len)
  <2>1. \A d \in Dirs : Cells[d] * nsquares[d] = L[d] /\ Twos[d] * L[d] = len[d]
    <3> HIDE DEF L
    <3> QED BY <1>4 DEF Twos
  <2> HIDE DEF L
  <2> QED BY <1>1, <1>5, <2>1, TwosAre DEF IsGrid
<1>7. y \in Box(L)
  <2> HIDE DEF L
  <2> QED BY <1>6, JoinSite
<1>8. x = SiteAt(Twos, y, corner)
  <2>1. ASSUME NEW d \in Dirs PROVE x[d] = SiteAt(Twos, y, corner)[d]
    <3>1. /\ q[d] \in Nat /\ cell[d] \in Nat /\ corner[d] \in Nat
          /\ Cells[d] \in Nat
      BY <1>1, <1>4, TwosAre, BoxIs DEF IsGrid
    <3>2. x[d] = q[d] * (2 * Cells[d]) + (cell[d] * 2 + corner[d])
      BY <1>1 DEF SiteOfCell, SiteAt, Twos
    <3>3. SiteAt(Twos, y, corner)[d] = (q[d] * Cells[d] + cell[d]) * 2 + corner[d]
      BY DEF SiteAt, Twos
    <3>4. q[d] * (2 * Cells[d]) + (cell[d] * 2 + corner[d])
            = (q[d] * Cells[d] + cell[d]) * 2 + corner[d]
      BY <3>1
    <3> QED BY <3>2, <3>3, <3>4
  <2>2. x = [d \in Dirs |-> x[d]]
    BY DEF SiteOfCell, SiteAt
  <2>3. SiteAt(Twos, y, corner) = [d \in Dirs |-> SiteAt(Twos, y, corner)[d]]
    BY DEF SiteAt
  <2> HIDE DEF x, y
  <2> QED BY <2>1, <2>2, <2>3
<1>9. Quotients(x, Twos) = y /\ Remainders(x, Twos) = corner
  <2> HIDE DEF L, y, x
  <2> QED BY <1>6, <1>7, <1>8, JoinSite
<1>10. coord_parity(y) \in {0, 1}
  BY <1>1, ParityType DEF IsGrid
<1> HIDE DEF x, y, c
<1>11. Corner(x) = lex_rank(corner, Twos)
  BY <1>9 DEF Corner, Remainders, Twos
<1>12. Halves(x) = y
  BY <1>9, HalvesAreQuotients
<1>13. Color(x) = lex_rank(corner, Twos) + 16 * coord_parity(y)
  BY <1>11, <1>12 DEF Color
<1>14. node_index32(x) = lex_rank(cell, Cells) \div 2 + Color(x) * subl_sites_on_node
  BY <1>2, <1>3, HalvesAreQuotients DEF node_index32, Cells
<1>15. x \in LatticeSites /\ node_number(x) = lex_rank(q, nsquares)
  BY <1>3 DEF LatticeSites, node_number
<1> QED BY <1>10, <1>13, <1>14, <1>15 DEF x, y

(* Every site is one of these.                                             *)
LEMMA SiteHasCell ==
  ASSUME EvenBoxes, NEW x \in LatticeSites
  PROVE  \E q \in Box(nsquares), cell \in Box(Cells), corner \in Box(Twos) :
           x = SiteOfCell(q, cell, corner)
<1> DEFINE q == Quotients(x, squaresize)
           c == Remainders(x, squaresize)
           cell == Quotients(c, Twos)
           corner == Remainders(c, Twos)
<1>1. q \in Box(nsquares) /\ c \in Box(squaresize) /\ x = SiteAt(squaresize, q, c)
  BY SplitSite DEF EvenBoxes, LatticeGrid, LatticeSites
<1> HIDE DEF q, c
<1>2. cell \in Box(Cells) /\ corner \in Box(Twos) /\ c = SiteAt(Twos, cell, corner)
  BY <1>1, CellGrid, SplitSite
<1> HIDE DEF cell, corner
<1> QED BY <1>1, <1>2 DEF SiteOfCell

(* Of two cells of ranks 2 * k and 2 * k + 1 one has the parity wanted.    *)
ChosenCell(v, first, o, p) ==
  IF (o + CoordSum(first)) % 2 = p THEN first ELSE NextInBox(v, first)

LEMMA CellOfParity ==
  ASSUME NEW v \in Sizes, NEW s \in Nat, Product(v) = 2 * s,
         NEW k \in Nat, k < s, NEW o \in Nat, NEW p \in {0, 1}
  PROVE  LET cell == ChosenCell(v, lex_coords(v, 2 * k), o, p)
         IN  /\ cell \in Box(v) /\ lex_rank(cell, v) \div 2 = k
             /\ (o + CoordSum(cell)) % 2 = p
<1> DEFINE first == lex_coords(v, 2 * k)
           next  == NextInBox(v, first)
           cell  == ChosenCell(v, first, o, p)
<1> SUFFICES /\ cell \in Box(v) /\ lex_rank(cell, v) \div 2 = k
             /\ (o + CoordSum(cell)) % 2 = p
  OBVIOUS
<1>1. 2 * k \in Nat /\ 2 * k + 1 < Product(v) /\ (2 * k) % 2 = 0
  OBVIOUS
<1>2. first \in Box(v) /\ lex_rank(first, v) = 2 * k
  <2>1. 2 * k < Product(v)
    OBVIOUS
  <2> QED BY <1>1, <2>1, RankOfCoords
<1>3. cell = IF (o + CoordSum(first)) % 2 = p THEN first ELSE next
  BY DEF ChosenCell
<1> HIDE DEF first, cell
<1>4. /\ next \in Box(v) /\ lex_rank(next, v) = 2 * k + 1
      /\ (CoordSum(first) + CoordSum(next)) % 2 = 1
  <2>1. lex_rank(first, v) + 1 < Product(v) /\ lex_rank(first, v) % 2 = 0
    BY <1>1, <1>2
  <2>2. /\ next \in Box(v) /\ lex_rank(next, v) = lex_rank(first, v) + 1
        /\ lex_rank(first, v) % 2 = 0 => (CoordSum(first) + CoordSum(next)) % 2 = 1
    BY <1>2, <2>1, NextInBoxStep
  <2> QED BY <1>2, <2>1, <2>2
<1> HIDE DEF next
<1> DEFINE a == CoordSum(first)
           b == CoordSum(next)
<1>5. a \in Nat /\ b \in Nat
  BY <1>2, <1>4, SumType
<1>6. (2 * k) \div 2 = k /\ (2 * k + 1) \div 2 = k
  OBVIOUS
<1>7. CASE (o + a) % 2 = p
  <2>1. cell = first
    BY <1>3, <1>7
  <2> QED BY <1>2, <1>6, <1>7, <2>1
<1>8. CASE (o + a) % 2 /= p
  <2>1. cell = next
    BY <1>3, <1>8
  <2>2. (a + b) % 2 = 1
    BY <1>4
  <2> HIDE DEF a, b
  <2>3. (o + b) % 2 = p
    BY <1>5, <1>8, <2>2
  <2> QED BY <1>4, <1>6, <2>1, <2>3 DEF b
<1> QED BY <1>7, <1>8

(* What the search of the k-th pair of cells finds.                        *)
FindsCell(v, k, o, p) ==
  LET cell == ChosenCell(v, lex_coords(v, 2 * k), o, p)
  IN  /\ cell \in Box(v) /\ lex_rank(cell, v) \div 2 = k
      /\ (o + CoordSum(cell)) % 2 = p

LEMMA CellIsFound ==
  ASSUME NEW v \in Sizes, NEW s \in Nat, Product(v) = 2 * s,
         NEW k \in Nat, k < s, NEW o \in Nat, NEW p \in {0, 1}
  PROVE  FindsCell(v, k, o, p)
BY CellOfParity DEF FindsCell

(* The site of an index: its color chooses the corner and the parity of    *)
(* the cell.                                                               *)
LEMMA ColorOfIndex ==
  ASSUME NEW s \in Nat \ {0}, NEW k \in Nat, k < 32 * s
  PROVE  /\ k % s \in Nat /\ k % s < s
         /\ k \div s \in Nat /\ k \div s < 32
         /\ (k \div s) % 16 \in 0 .. 15 /\ (k \div s) \div 16 \in {0, 1}
         /\ k \div s = ((k \div s) % 16) + 16 * ((k \div s) \div 16)
         /\ k = (k % s) + (k \div s) * s
<1>1. k < s * 32
  OBVIOUS
<1> DEFINE c == k \div s
           m == k % s
<1>2. c < 32
  BY <1>1, DigitRest
<1>3. c \in Nat /\ m \in Nat /\ m < s /\ k = c * s + m
  BY DivRem
<1> HIDE DEF c, m
<1>4. /\ c % 16 \in 0 .. 15 /\ c \div 16 \in {0, 1}
      /\ c = (c % 16) + 16 * (c \div 16)
  BY <1>2, <1>3
<1>5. k = m + c * s
  BY <1>3
<1> QED BY <1>2, <1>3, <1>4, <1>5 DEF c, m

LEMMA ColorBounds ==
  ASSUME NEW s \in Nat \ {0}, NEW a \in 0 .. 15, NEW p \in {0, 1},
         NEW e \in Nat, e < 2 * s
  PROVE  /\ e \div 2 + (a + 16 * p) * s \in 0 .. 32 * s - 1
         /\ (e \div 2 + (a + 16 * p) * s) \div s = a + 16 * p
<1> DEFINE c == a + 16 * p
           h == e \div 2
<1>1. c \in Nat /\ c < 32 /\ h \in Nat /\ h < s
  OBVIOUS
<1> HIDE DEF c, h
<1>2. h + s * c \in Nat /\ h + s * c < s * 32
  BY <1>1, DigitBounds
<1>3. (h + s * c) \div s = c
  BY <1>1, FirstDigit
<1>4. h + c * s = h + s * c /\ s * 32 = 32 * s
  BY <1>1
<1> DEFINE n == h + c * s
<1>5. n \in Nat /\ n < 32 * s /\ n \div s = c
  BY <1>2, <1>3, <1>4
<1> HIDE DEF n
<1>6. n \in 0 .. 32 * s - 1 /\ n \div s = c
  BY <1>5
<1> QED BY <1>6 DEF n, c, h

LEMMA BoxesHaveCells ==
  EvenBoxes => /\ Cells \in Sizes /\ squaresize \in Sizes /\ nsquares \in Sizes
               /\ subl_sites_on_node \in Nat \ {0}
               /\ Product(Cells) = 2 * subl_sites_on_node
               /\ sites_on_node = 32 * subl_sites_on_node
BY CellGrid DEF IsGrid, EvenBoxes, LatticeGrid

LEMMA ColorRange ==
  ASSUME EvenBoxes, NEW x \in LatticeSites
  PROVE  /\ node_index32(x) \in 0 .. sites_on_node - 1
         /\ node_index32(x) \div subl_sites_on_node = Color(x)
<1>1. PICK q \in Box(nsquares), cell \in Box(Cells), corner \in Box(Twos) :
        x = SiteOfCell(q, cell, corner)
  BY SiteHasCell
<1> DEFINE p == coord_parity(SiteAt(Cells, q, cell))
           a == lex_rank(corner, Twos)
           e == lex_rank(cell, Cells)
           s == subl_sites_on_node
<1>2. /\ p \in {0, 1} /\ Color(x) = a + 16 * p
      /\ node_index32(x) = e \div 2 + Color(x) * s
  BY <1>1, ColoredSite
<1>3. a \in 0 .. 15 /\ e \in Nat /\ e < 2 * s /\ s \in Nat \ {0}
      /\ sites_on_node = 32 * s
  BY CornerRank, BoxesHaveCells, LexRankBound
<1> HIDE DEF p, a, e, s
<1>4. /\ e \div 2 + (a + 16 * p) * s \in 0 .. 32 * s - 1
      /\ (e \div 2 + (a + 16 * p) * s) \div s = a + 16 * p
  BY <1>2, <1>3, ColorBounds
<1> QED BY <1>2, <1>3, <1>4 DEF s

(* The site of node q with index k, by the corner of the color and a cell  *)
(* of the parity of the color.                                             *)
LEMMA SiteOfIndex ==
  ASSUME EvenBoxes, NEW q \in Box(nsquares), NEW k \in 0 .. sites_on_node - 1
  PROVE  LET s      == subl_sites_on_node
             color  == k \div s
             corner == lex_coords(Twos, color % 16)
             cell   == ChosenCell(Cells, lex_coords(Cells, 2 * (k % s)),
                                  OriginSum(Cells, q), color \div 16)
             x      == SiteOfCell(q, cell, corner)
         IN  /\ cell \in Box(Cells) /\ corner \in Box(Twos)
             /\ x \in LatticeSites
             /\ node_number(x) = lex_rank(q, nsquares) /\ node_index32(x) = k
<1> DEFINE s      == subl_sites_on_node
           color  == k \div s
           m      == k % s
           a      == color % 16
           p      == color \div 16
           o      == OriginSum(Cells, q)
           corner == lex_coords(Twos, a)
           cell   == ChosenCell(Cells, lex_coords(Cells, 2 * m), o, p)
           x      == SiteOfCell(q, cell, corner)
<1> SUFFICES /\ cell \in Box(Cells) /\ corner \in Box(Twos)
             /\ x \in LatticeSites
             /\ node_number(x) = lex_rank(q, nsquares) /\ node_index32(x) = k
  OBVIOUS
<1>1. /\ s \in Nat \ {0} /\ Product(Cells) = 2 * s /\ k \in Nat /\ k < 32 * s
      /\ Cells \in Sizes /\ nsquares \in Sizes
  BY BoxesHaveCells
<1>2. /\ m \in Nat /\ m < s /\ a \in 0 .. 15 /\ p \in {0, 1}
      /\ color = a + 16 * p /\ k = m + color * s
  <2> HIDE DEF s
  <2> QED BY <1>1, ColorOfIndex
<1> HIDE DEF s, color, m, a, p
<1>3. corner \in Box(Twos) /\ lex_rank(corner, Twos) = a
  <2>1. a \in Nat /\ a < Product(Twos)
    BY <1>2, TwosAre
  <2> QED BY <2>1, TwosAre, RankOfCoords
<1> HIDE DEF corner
<1>4. o \in Nat
  <2>1. /\ \A d \in Dirs : q[d] \in Nat /\ Cells[d] \in Nat
    BY <1>1, BoxIs DEF Sizes
  <2>2. \A i1, i2 \in Nat : i1 * i2 \in Nat
    OBVIOUS
  <2>3. /\ q[XUP] * Cells[XUP] \in Nat /\ q[YUP] * Cells[YUP] \in Nat
        /\ q[ZUP] * Cells[ZUP] \in Nat /\ q[TUP] * Cells[TUP] \in Nat
    BY <2>1, <2>2, FourDirs
  <2> QED BY <2>3 DEF OriginSum
<1>5. /\ cell \in Box(Cells) /\ lex_rank(cell, Cells) \div 2 = m
      /\ (o + CoordSum(cell)) % 2 = p
  <2>1. s \in Nat
    BY <1>1
  <2> HIDE DEF o
  <2>2. m \in Nat /\ m < s /\ p \in {0, 1}
    BY <1>2
  <2>3. Product(Cells) = 2 * s /\ Cells \in Sizes
    BY <1>1
  <2>4. FindsCell(Cells, m, o, p)
    BY <1>4, <2>1, <2>2, <2>3, CellIsFound
  <2> QED BY <2>4 DEF FindsCell
<1> HIDE DEF cell
<1>6. coord_parity(SiteAt(Cells, q, cell)) = p
  BY <1>1, <1>5, SiteParity
<1>7. /\ x \in LatticeSites /\ node_number(x) = lex_rank(q, nsquares)
      /\ Color(x) = a + 16 * p
      /\ node_index32(x) = m + Color(x) * s
  BY <1>3, <1>5, <1>6, ColoredSite DEF s
<1> HIDE DEF x
<1>8. node_index32(x) = k
  BY <1>2, <1>7
<1> QED BY <1>3, <1>5, <1>7, <1>8

LEMMA ColorsAreOneToOne ==
  ASSUME EvenBoxes
  PROVE  OneToOne(LatticeSites, Ranks, node_number, node_index32, num_sites)
<1> USE DEF EvenBoxes
<1> SUFFICES ASSUME NEW r \in Ranks
             PROVE  LET mine == {x \in LatticeSites : node_number(x) = r}
                    IN  /\ Cardinality(mine) = num_sites(r)
                        /\ {node_index32(x) : x \in mine} = 0 .. num_sites(r) - 1
  BY DEF OneToOne
<1> DEFINE mine == {x \in LatticeSites : node_number(x) = r}
<1>1. Cardinality(mine) = num_sites(r)
  BY NodeIsOneToOne DEF OneToOne
<1>2. \A x \in mine : node_index32(x) \in 0 .. num_sites(r) - 1
  BY ColorRange DEF num_sites
<1>3. ASSUME NEW k \in 0 .. num_sites(r) - 1
      PROVE  \E x \in mine : node_index32(x) = k
  <2> DEFINE q == MachineCoordinates(r)
  <2>1. q \in Box(nsquares) /\ lex_rank(q, nsquares) = r
    BY NodeSites
  <2> HIDE DEF q
  <2>2. k \in 0 .. sites_on_node - 1
    BY DEF num_sites
  <2>3. \E x \in LatticeSites : node_number(x) = lex_rank(q, nsquares)
                                /\ node_index32(x) = k
    BY <2>1, <2>2, SiteOfIndex
  <2> QED BY <2>1, <2>3
<1> HIDE DEF mine
<1>4. {node_index32(x) : x \in mine} = 0 .. num_sites(r) - 1
  BY <1>2, <1>3
<1> QED BY <1>1, <1>4 DEF mine

(* get_coords steps to the next cell as to the next site of a box.         *)
LEMMA NextCellIs ==
  ASSUME EvenBoxes, NEW c \in Box(Cells)
  PROVE  NextCell(c) = NextInBox(Cells, c)
<1> DEFINE full(d) == c[d] + 1 >= squaresize[d] \div 2
           back(d) == c[d] + 1 - squaresize[d] \div 2
           a == NextCell(c)
           b == NextInBox(Cells, c)
<1>1. \A d \in Dirs : Cells[d] = squaresize[d] \div 2
  BY DEF Cells, Halves
<1>2. \A d \in Dirs : full(d) <=> Full(Cells, c, d)
  BY <1>1 DEF Full
<1>3. \A d \in Dirs : full(d) => back(d) = 0
  <2> SUFFICES ASSUME NEW d \in Dirs, c[d] + 1 >= squaresize[d] \div 2
               PROVE  c[d] + 1 - squaresize[d] \div 2 = 0
    OBVIOUS
  <2>1. c[d] \in Nat /\ c[d] < Cells[d] /\ Cells[d] \in Nat
    BY BoxesHaveCells, BoxIs DEF Sizes
  <2>2. Cells[d] = squaresize[d] \div 2
    BY <1>1
  <2> QED BY <2>1, <2>2
<1>4. /\ ~full(XUP) => a = [c EXCEPT ![XUP] = @ + 1]
      /\ full(XUP) /\ ~full(YUP) =>
           a = [c EXCEPT ![XUP] = back(XUP), ![YUP] = @ + 1]
      /\ full(XUP) /\ full(YUP) /\ ~full(ZUP) =>
           a = [c EXCEPT ![XUP] = back(XUP), ![YUP] = back(YUP), ![ZUP] = @ + 1]
      /\ full(XUP) /\ full(YUP) /\ full(ZUP) =>
           a = [c EXCEPT ![XUP] = back(XUP), ![YUP] = back(YUP),
                         ![ZUP] = back(ZUP), ![TUP] = @ + 1]
  BY DEF NextCell
<1>5. /\ ~Full(Cells, c, XUP) => b = [c EXCEPT ![XUP] = @ + 1]
      /\ Full(Cells, c, XUP) /\ ~Full(Cells, c, YUP) =>
           b = [c EXCEPT ![XUP] = 0, ![YUP] = @ + 1]
      /\ Full(Cells, c, XUP) /\ Full(Cells, c, YUP) /\ ~Full(Cells, c, ZUP) =>
           b = [c EXCEPT ![XUP] = 0, ![YUP] = 0, ![ZUP] = @ + 1]
      /\ Full(Cells, c, XUP) /\ Full(Cells, c, YUP) /\ Full(Cells, c, ZUP) =>
           b = [c EXCEPT ![XUP] = 0, ![YUP] = 0, ![ZUP] = 0, ![TUP] = @ + 1]
  BY DEF NextInBox
<1> SUFFICES a = b
  OBVIOUS
<1> HIDE DEF full, back, a, b
<1> QED BY <1>2, <1>3, <1>4, <1>5, FourDirs

(* Every box begins with an even cell.                                     *)
LEMMA OriginIsEven ==
  ASSUME EvenBoxes, EvenCells, NEW q \in Box(nsquares)
  PROVE  OriginSum(Cells, q) \in Nat /\ OriginSum(Cells, q) % 2 = 0
<1>1. ASSUME NEW d \in Dirs
      PROVE  q[d] * Cells[d] \in Nat /\ (q[d] * Cells[d]) % 2 = 0
  <2>1. /\ q[d] \in Nat /\ q[d] < nsquares[d] /\ Cells[d] \in Nat
        /\ squaresize[d] = 2 * Cells[d]
    BY BoxesHaveCells, CellGrid, BoxIs DEF Sizes
  <2>2. CASE nsquares[d] > 1
    <3>1. (2 * Cells[d]) % 4 = 0
      BY <2>1, <2>2 DEF EvenCells
    <3>2. PICK h \in Nat : Cells[d] = 2 * h
      <4> DEFINE c == Cells[d]
      <4>1. c \in Nat /\ (2 * c) % 4 = 0
        BY <2>1, <3>1
      <4> HIDE DEF c
      <4>2. c % 2 = 0
        BY <4>1
      <4> QED BY <4>1, <4>2, EvenOrOdd DEF c
    <3>3. q[d] * Cells[d] = 2 * (q[d] * h) /\ q[d] * h \in Nat
      BY <2>1, <3>2
    <3> DEFINE p == q[d] * Cells[d]
               t == q[d] * h
    <3>4. t \in Nat /\ p = 2 * t
      BY <3>3
    <3> HIDE DEF p, t
    <3>5. p \in Nat /\ p % 2 = 0
      BY <3>4
    <3> QED BY <3>5 DEF p
  <2>3. CASE ~(nsquares[d] > 1)
    <3>1. nsquares[d] \in Nat
      BY BoxesHaveCells DEF Sizes
    <3>2. q[d] = 0
      BY <2>1, <2>3, <3>1
    <3>3. q[d] * Cells[d] = 0
      BY <2>1, <3>2
    <3> QED BY <3>3
  <2> QED BY <2>2, <2>3
<1> DEFINE a == q[XUP] * Cells[XUP]  b == q[YUP] * Cells[YUP]
           e == q[ZUP] * Cells[ZUP]  f == q[TUP] * Cells[TUP]
<1>2. /\ a \in Nat /\ b \in Nat /\ e \in Nat /\ f \in Nat
      /\ a % 2 = 0 /\ b % 2 = 0 /\ e % 2 = 0 /\ f % 2 = 0
  BY <1>1, FourDirs
<1>3. OriginSum(Cells, q) = a + b + e + f
  BY DEF OriginSum
<1> HIDE DEF a, b, e, f
<1>4. a + b + e + f \in Nat /\ (a + b + e + f) % 2 = 0
  BY <1>2
<1> QED BY <1>3, <1>4

LEMMA Coords32AreInverse ==
  ASSUME EvenBoxes, EvenCells, NEW r \in Ranks, NEW k \in 0 .. num_sites(r) - 1
  PROVE  LET x == get_coords32(r, k) IN node_number(x) = r /\ node_index32(x) = k
<1> USE DEF EvenBoxes
<1> DEFINE s      == subl_sites_on_node
           q      == MachineCoordinates(r)
           color  == k \div s
           p      == color \div 16
           corner == lex_coords(Twos, color % 16)
           first  == lex_coords(Cells, 2 * (k % s))
           o      == OriginSum(Cells, q)
           cell   == ChosenCell(Cells, first, o, p)
           x      == SiteOfCell(q, cell, corner)
           g      == get_coords32(r, k)
<1>1. q \in Box(nsquares) /\ lex_rank(q, nsquares) = r
  BY NodeSites
<1>2. k \in 0 .. sites_on_node - 1
  BY DEF num_sites
<1>3. /\ cell \in Box(Cells) /\ corner \in Box(Twos)
      /\ node_number(x) = r /\ node_index32(x) = k
  <2> HIDE DEF q
  <2> QED BY <1>1, <1>2, SiteOfIndex
<1>4. first \in Box(Cells)
  <2>1. /\ k \in Nat /\ k < 32 * s /\ s \in Nat \ {0}
        /\ Cells \in Sizes /\ Product(Cells) = 2 * s
    BY <1>2, BoxesHaveCells
  <2> DEFINE m == k % s
  <2>2. m \in Nat /\ m < s
    <3> HIDE DEF s
    <3> QED BY <2>1, DivRem
  <2> HIDE DEF m, s
  <2>3. 2 * m \in Nat /\ 2 * m < Product(Cells)
    BY <2>1, <2>2
  <2>4. lex_coords(Cells, 2 * m) \in Box(Cells)
    BY <2>1, <2>3, RankOfCoords
  <2> QED BY <2>4 DEF m, s
<1> HIDE DEF first
<1>5. cell = IF coord_parity(first) /= p THEN NextCell(first) ELSE first
  <2>1. o \in Nat /\ o % 2 = 0
    BY <1>1, OriginIsEven
  <2>2. CoordSum(first) \in Nat
    BY <1>4, BoxesHaveCells, SumType
  <2>3. coord_parity(first) = CoordSum(first) % 2
    BY DEF coord_parity, CoordSum
  <2> DEFINE t == CoordSum(first)
  <2>4. (o + t) % 2 = t % 2
    <3> HIDE DEF o, t
    <3> QED BY <2>1, <2>2 DEF t
  <2>5. cell = IF t % 2 = p THEN first ELSE NextInBox(Cells, first)
    <3>1. cell = IF (o + t) % 2 = p THEN first ELSE NextInBox(Cells, first)
      BY DEF ChosenCell
    <3> HIDE DEF o, t, cell, p
    <3> QED BY <2>4, <3>1
  <2>6. NextCell(first) = NextInBox(Cells, first)
    BY <1>4, NextCellIs
  <2> HIDE DEF cell, p
  <2> QED BY <2>3, <2>5, <2>6
<1>6. g = [d \in Dirs |-> 2 * cell[d] + corner[d] + q[d] * squaresize[d]]
  <2>1. Twos = [d \in Dirs |-> 2]
    BY DEF Twos
  <2>2. corner = lex_coords([d \in Dirs |-> 2], color % 16)
    BY <2>1
  <2>3. first = lex_coords(Halves(squaresize), 2 * (k % subl_sites_on_node))
    BY DEF first, Cells
  <2> HIDE DEF cell, corner, Cells
  <2> QED BY <1>5, <2>2, <2>3 DEF get_coords32
<1>7. g = x
  <2>1. ASSUME NEW d \in Dirs
        PROVE  2 * cell[d] + corner[d] + q[d] * squaresize[d] = x[d]
    <3>1. /\ q[d] \in Nat /\ cell[d] \in Nat /\ corner[d] \in Nat
          /\ squaresize[d] \in Nat
      BY <1>1, <1>3, BoxesHaveCells, TwosAre, BoxIs DEF Sizes
    <3>2. x[d] = q[d] * squaresize[d] + (cell[d] * 2 + corner[d])
      BY DEF SiteOfCell, SiteAt, Twos
    <3> DEFINE m == q[d] * squaresize[d]
    <3>3. m \in Nat
      BY <3>1
    <3> HIDE DEF q, cell, corner, x, m
    <3> QED BY <3>1, <3>2, <3>3 DEF m
  <2>2. x = [d \in Dirs |-> x[d]]
    BY DEF SiteOfCell, SiteAt
  <2> HIDE DEF x, g, cell, corner, q
  <2> QED BY <1>6, <2>1, <2>2
<1> HIDE DEF x, g
<1>8. node_number(g) = r /\ node_index32(g) = k
  BY <1>3, <1>7
<1> QED BY <1>8 DEF g

LEMMA GridIsPlacedByColor == LatticeGrid => PlacedByColor
<1> SUFFICES ASSUME LatticeGrid PROVE PlacedByColor
  OBVIOUS
<1>1. ASSUME Accepted32, WholeCells PROVE EvenBoxes
  BY <1>1 DEF Accepted32, EvenBoxes
<1>2. SitesPlaced32
  <2> SUFFICES ASSUME Accepted32, WholeCells
               PROVE  /\ AllPlaced(LatticeSites, Ranks, node_number)
                      /\ OneToOne(LatticeSites, Ranks, node_number, node_index32,
                                  num_sites)
                      /\ \A x \in LatticeSites :
                           node_index32(x) \div subl_sites_on_node = Color(x)
    BY DEF SitesPlaced32
  <2>1. AllPlaced(LatticeSites, Ranks, node_number)
    BY SiteIndex DEF AllPlaced
  <2> QED BY <1>1, <2>1, ColorsAreOneToOne, ColorRange
<1>3. CoordsInverse32
  BY <1>1, Coords32AreInverse DEF CoordsInverse32
<1> QED BY <1>2, <1>3 DEF PlacedByColor

(***************************************************************************)
(* In the layout by 32 colors, too, for every lattice and machine: if the  *)
(* boxes have even dimensions every site of a node has an index of its own *)
(* and the sites of a color follow each other; and get_coords, which takes *)
(* the parity of a cell within the node, is the inverse if every box       *)
(* begins with an even cell.                                               *)
(***************************************************************************)
THEOREM ColorsHavePlaces == TableSuffices => (SpecOrders => []PlacedByColor)
<1> SUFFICES ASSUME TableSuffices PROVE SpecOrders => []PlacedByColor
  OBVIOUS
<1>1. InitOrders => DInv
  BY InitDInv DEF InitOrders
<1>2. DInv /\ [NextOrders]_<<vars, tables>> => DInv'
  <2> SUFFICES ASSUME DInv, [NextOrders]_<<vars, tables>> PROVE DInv'
    OBVIOUS
  <2>1. [Next]_vars
    BY DEF NextOrders, SetupMorton, RefuseMorton
  <2> QED BY <2>1, NextDInv
<1>3. DInv => PlacedByColor
  <2>1. phase /= "ready" => PlacedByColor
    BY DEF PlacedByColor, SitesPlaced32, CoordsInverse32, Accepted32
  <2> QED BY <2>1, ReadyGrid, GridIsPlacedByColor
<1> QED BY <1>1, <1>2, <1>3, PTL DEF SpecOrders

=============================================================================
