----------------------------- MODULE QuarkProofs -----------------------------
(***************************************************************************)
(* Theorems about QuarkLifetimes, for any number of propagators and any    *)
(* inputs: what is needed is kept, what is not needed is freed, the links  *)
(* are twisted by the momentum of the ancestor, and the program goes wrong *)
(* in the places named and nowhere else.                                   *)
(***************************************************************************)
EXTENDS QuarkLifetimes, TLAPS, WellFoundedInduction

-----------------------------------------------------------------------------
(* Natural numbers: induction, for definitions by recursion.               *)

LEMMA LeastNat ==
  ASSUME NEW T, T \subseteq Nat, T # {}
  PROVE  \E x \in T : \A y \in T : x <= y
<1>1. PICK R : R = OpToRel(<, Nat)
  OBVIOUS
<1>2. IsWellFoundedOn(R, Nat)
  BY <1>1, NatLessThanWellFounded, Zenon
<1>3. \A x, y \in Nat : <<y, x>> \in R <=> y < x
  BY <1>1 DEF OpToRel
<1>4. PICK x \in T : \A y \in T : ~ (<<y, x>> \in R)
  BY <1>2, WFMin
<1>5. \A y \in T : x <= y
  <2> SUFFICES ASSUME NEW y \in T PROVE x <= y
    OBVIOUS
  <2>1. x \in Nat /\ y \in Nat
    OBVIOUS
  <2>2. ~(y < x)
    BY <1>3, <1>4, <2>1
  <2> QED BY <2>1, <2>2
<1> QED BY <1>5

LEMMA LastOfSet ==
  ASSUME NEW N \in Nat, NEW S, S \subseteq 0 .. N - 1, S # {}
  PROVE  Last(S) \in S /\ \A l \in S : l <= Last(S)
<1>1. PICK T : T = {N - x : x \in S}
  OBVIOUS
<1>2. T \subseteq Nat /\ T # {}
  <2>1. \A x \in S : x \in 0 .. N - 1 /\ N - x \in Nat
    OBVIOUS
  <2> QED BY <1>1, <2>1
<1>3. PICK y \in T : \A z \in T : y <= z
  BY <1>2, LeastNat
<1>4. PICK x \in S : y = N - x
  BY <1>1
<1>5. \A l \in S : l <= x
  <2> SUFFICES ASSUME NEW l \in S PROVE l <= x
    OBVIOUS
  <2>1. N - l \in T
    BY <1>1
  <2>2. x \in Int /\ l \in Int /\ y <= N - l
    BY <1>3, <2>1
  <2> QED BY <1>4, <2>2
<1>6. Last(S) = CHOOSE j \in S : \A l \in S : l <= j
  BY DEF Last
<1> QED BY <1>5, <1>6

-----------------------------------------------------------------------------
(* The input                                                               *)

InputOK ==
  /\ Lean \in BOOLEAN
  /\ param.num_qk \in Nat \ {0}
  /\ \A j \in Quarks : param.parent[j] \in Parents(j)
  /\ param.pair \in Seq(Quarks \X Quarks)
  /\ param.prop_type \in [Props -> {"clover", "ifla", "ks", "ks4"}]
  /\ param.wsave \in [Props -> BOOLEAN]
  /\ param.qsave \in [Quarks -> {"forget", "propagator", "source"}]

LEMMA InputInit ==
  ASSUME Init PROVE InputOK
<1>1. PICK b \in Builds : Lean = b.lean /\ param \in Inputs(b)
  BY DEF Init
<1>2. /\ b.lean \in BOOLEAN /\ b.num_qk \in Nat \ {0}
      /\ b.prop_type \in [Props -> {"clover", "ifla", "ks", "ks4"}]
      /\ \A f \in b.parents : \A j \in 0 .. b.num_qk - 1 : f[j] \in Parents(j)
      /\ b.pairs \subseteq Seq((0 .. b.num_qk - 1) \X (0 .. b.num_qk - 1))
      /\ b.saves \subseteq {"forget", "propagator", "source"}
  BY LifetimeAssumption
<1>3. /\ param.num_qk = b.num_qk /\ param.prop_type = b.prop_type
      /\ param.parent \in b.parents /\ param.pair \in b.pairs
      /\ param.wsave \in [Props -> BOOLEAN]
      /\ param.qsave \in [0 .. b.num_qk - 1 -> b.saves]
  BY <1>1, Zenon DEF Inputs
<1>4. Quarks = 0 .. b.num_qk - 1
  BY <1>3 DEF Quarks
<1>5. param.pair \in Seq(Quarks \X Quarks)
  BY <1>2, <1>3, <1>4
<1>6. param.qsave \in [Quarks -> {"forget", "propagator", "source"}]
  BY <1>2, <1>3, <1>4
<1>7. \A j \in Quarks : param.parent[j] \in Parents(j)
  BY <1>2, <1>3, <1>4
<1> QED BY <1>1, <1>2, <1>3, <1>5, <1>6, <1>7 DEF InputOK

LEMMA InputKept ==
  ASSUME InputOK, [Next]_vars
  PROVE  Lean' = Lean /\ param' = param /\ InputOK'
<1>1. Lean' = Lean /\ param' = param
  BY DEF vars, input, Next, Solve, MakeFromProp, MakeFromQuark, Combine, FreeProps,
         Meson, EndSet, NextSet, Release, Break
<1> QED BY <1>1 DEF InputOK, Quarks, Parents

(* The quarks that depend on a field.                                      *)

LEMMA PropDependence ==
  ASSUME InputOK, NEW i \in Props
  PROVE  /\ prop_dep_qkno(i) \in Nat
         /\ \A j \in Quarks : IsParent(i, j, {"prop"}) => j <= prop_dep_qkno(i)
         /\ prop_dep_qkno(i) > 0 => /\ prop_dep_qkno(i) \in Quarks
                                    /\ IsParent(i, prop_dep_qkno(i), {"prop"})
<1>1. PICK S : S = {j \in Quarks : IsParent(i, j, {"prop"})}
  OBVIOUS
<1>2. prop_dep_qkno(i) = Last(S)
  BY <1>1 DEF prop_dep_qkno
<1>3. CASE S = {}
  <2>1. Last(S) = 0
    BY <1>3 DEF Last
  <2> QED BY <1>1, <1>2, <1>3, <2>1
<1>4. CASE S # {}
  <2>1. Last(S) \in S /\ \A l \in S : l <= Last(S)
    BY <1>1, <1>4, LastOfSet DEF InputOK, Quarks
  <2> QED BY <1>1, <1>2, <2>1 DEF Quarks, InputOK
<1> QED BY <1>3, <1>4

LEMMA QuarkDependence ==
  ASSUME InputOK, NEW i \in Quarks
  PROVE  /\ quark_dep_qkno(i) \in Nat
         /\ Paired(i) => quark_dep_qkno(i) = param.num_qk
         /\ \A j \in Quarks : IsParent(i, j, {"quark", "combo"}) => j <= quark_dep_qkno(i)
         /\ quark_dep_qkno(i) > 0 =>
              Paired(i) \/ /\ quark_dep_qkno(i) \in Quarks
                           /\ IsParent(i, quark_dep_qkno(i), {"quark", "combo"})
<1>1. PICK S : S = {j \in Quarks : IsParent(i, j, {"quark", "combo"})}
  OBVIOUS
<1>2. quark_dep_qkno(i) = IF Paired(i) THEN param.num_qk ELSE Last(S)
  BY <1>1 DEF quark_dep_qkno
<1>3. CASE Paired(i)
  BY <1>2, <1>3 DEF InputOK, Quarks
<1>4. CASE ~Paired(i) /\ S = {}
  <2>1. Last(S) = 0
    BY <1>4 DEF Last
  <2> QED BY <1>1, <1>2, <1>4, <2>1
<1>5. CASE ~Paired(i) /\ S # {}
  <2>1. Last(S) \in S /\ \A l \in S : l <= Last(S)
    BY <1>1, <1>5, LastOfSet DEF InputOK, Quarks
  <2> QED BY <1>1, <1>2, <1>5, <2>1 DEF Quarks, InputOK
<1> QED BY <1>3, <1>4, <1>5

-----------------------------------------------------------------------------
(* Fields in memory                                                        *)

States == {"none", "full", "freed"}
Olds   == [ip0 : Props \cup {None}, iq0 : Quarks \cup {None}, iq1 : Quarks \cup {None}]

(* The types, without those of the twists and the wrong quarks.            *)
Types ==
  /\ prop \in [Props -> States] /\ quark \in [Quarks -> States] /\ old \in Olds
  /\ stop \in {"no", "freed field", "cannot reread", "no such quark"}
  /\ \/ phase = "solve"  /\ at \in Props
     \/ phase = "quarks" /\ at \in Quarks
     \/ phase = "free"   /\ at = 0
     \/ phase = "mesons" /\ at \in DOMAIN param.pair
     \/ phase = "end"    /\ at = 1
     \/ phase = "done"   /\ at = 0

LEMMA FreeField ==
  ASSUME NEW D, NEW m \in [D -> States], NEW S
  PROVE  /\ Free(m, S) \in [D -> States]
         /\ \A i \in D : Free(m, S)[i] = IF i \in S /\ m[i] = "full" THEN "freed" ELSE m[i]
BY DEF Free, States

(* Clover propagators that are saved.                                      *)
SavedClover(i) == param.prop_type[i] = "clover" /\ param.wsave[i]

UsedFrom(i, a) == \E j \in Quarks : a <= j /\ IsParent(i, j, {"prop"})
QuarkUsedFrom(i, a) == \E j \in Quarks : a <= j /\ IsParent(i, j, {"quark", "combo"})

(* Propagator i in state s when quark a is to be made.                     *)
PropGood(i, s, a, o) ==
  /\ s # "none"
  /\ UsedFrom(i, a) => s = "full" \/ (Lean /\ param.wsave[i])
  /\ a > 1 /\ s = "full" => UsedFrom(i, a - 1)
  /\ Lean /\ s = "full" /\ SavedClover(i) => i = o.ip0

(* Quark i, made before quark a is.                                        *)
QuarkGood(i, s, a, o) ==
  /\ s # "none"
  /\ QuarkUsedFrom(i, a) => s = "full" \/ (Lean /\ QSaved(i))
  /\ Paired(i) => s = "full" \/ (Lean /\ QSaved(i))
  /\ i < a - 1 /\ s = "full" => Paired(i) \/ QuarkUsedFrom(i, a - 1)
  /\ Lean /\ s = "full" /\ QSaved(i) => i \in {o.iq0, o.iq1} \/ LostToCombination(i)

(* A quark while pairs are tied, saved ones being in memory if held.       *)
PairGood(i, s, held) ==
  /\ s # "none"
  /\ Paired(i) => s = "full" \/ (Lean /\ QSaved(i))
  /\ Lean /\ s = "full" /\ QSaved(i) => i \in held \/ LostToCombination(i)

FieldsInv ==
  /\ phase = "solve" =>
       /\ \A i \in Props :
            IF i < at THEN /\ prop[i] = "full" \/ (prop[i] = "freed" /\ Lean /\ param.wsave[i])
                           /\ Lean /\ prop[i] = "full" => ~SavedClover(i)
            ELSE prop[i] = "none"
       /\ \A i \in Quarks : quark[i] = "none"
  /\ phase = "quarks" =>
       /\ \A i \in Props : PropGood(i, prop[i], at, old)
       /\ \A i \in Quarks : IF i < at THEN QuarkGood(i, quark[i], at, old)
                            ELSE quark[i] = "none"
       /\ Lean /\ at > 0 => old.iq1 = at - 1
  /\ phase = "free" =>
       \A i \in Quarks : QuarkGood(i, quark[i], param.num_qk, old)
  /\ phase = "mesons" =>
       /\ \A i \in Quarks :
            PairGood(i, quark[i], IF at > 1 THEN {old.iq0, old.iq1} ELSE {})
       /\ Lean /\ at > 1 => old.iq0 \in Quarks /\ old.iq1 \in Quarks
       /\ \A i \in Props : prop[i] = "none"
  /\ phase = "end" =>
       /\ Lean /\ param.pair # <<>> => old.iq0 \in Quarks /\ old.iq1 \in Quarks
       /\ \A i \in Quarks : Lean /\ quark[i] = "full" /\ QSaved(i)
                            => i \in {old.iq0, old.iq1} \/ LostToCombination(i)
       /\ \A i \in Props : prop[i] = "none"
  /\ phase = "done" => /\ \A i \in Props : prop[i] = "none"
                       /\ \A i \in Quarks : quark[i] = "none"

-----------------------------------------------------------------------------
(* The end of an iteration, m and q being the fields, o the old indices.   *)

(* What it takes of the fields: those yet to be used are there.            *)
PropMade(i, s, o) ==
  /\ s # "none"
  /\ UsedFrom(i, at + 1) => s = "full" \/ (Lean /\ param.wsave[i])
  /\ Lean /\ s = "full" /\ SavedClover(i) => i = o.ip0

QuarkMade(i, s, o) ==
  /\ s # "none"
  /\ QuarkUsedFrom(i, at + 1) => s = "full" \/ (Lean /\ QSaved(i))
  /\ Paired(i) => s = "full" \/ (Lean /\ QSaved(i))
  /\ Lean /\ s = "full" /\ QSaved(i) => i \in {o.iq0, at} \/ LostToCombination(i)

LEMMA ReleaseProp ==
  ASSUME InputOK, at \in Quarks, NEW m \in [Props -> States], NEW o, NEW i \in Props,
         PropMade(i, m[i], o), NEW n, n.ip0 = o.ip0,
         NEW s, s = Free(m, UnneededProps(at))[i]
  PROVE  PropGood(i, s, at + 1, n)
<1>1. /\ prop_dep_qkno(i) \in Nat
      /\ \A j \in Quarks : IsParent(i, j, {"prop"}) => j <= prop_dep_qkno(i)
      /\ prop_dep_qkno(i) > 0 => /\ prop_dep_qkno(i) \in Quarks
                                 /\ IsParent(i, prop_dep_qkno(i), {"prop"})
  BY PropDependence
<1>2. at \in Nat /\ \A j \in Quarks : j \in Nat
  BY DEF InputOK, Quarks
<1>3. s = IF prop_dep_qkno(i) < at /\ m[i] = "full" THEN "freed" ELSE m[i]
  BY FreeField DEF UnneededProps
<1>4. s # "none"
  BY <1>3 DEF PropMade
<1>5. ASSUME UsedFrom(i, at + 1) PROVE s = "full" \/ (Lean /\ param.wsave[i])
  <2>1. PICK j \in Quarks : at + 1 <= j /\ IsParent(i, j, {"prop"})
    BY <1>5 DEF UsedFrom
  <2>2. j <= prop_dep_qkno(i)
    BY <1>1, <2>1
  <2>3. ~(prop_dep_qkno(i) < at)
    BY <1>1, <1>2, <2>1, <2>2
  <2>4. s = m[i]
    BY <1>3, <2>3
  <2> QED BY <1>5, <2>4, Zenon DEF PropMade
<1>6. ASSUME at + 1 > 1, s = "full" PROVE UsedFrom(i, (at + 1) - 1)
  <2>1. ~(prop_dep_qkno(i) < at)
    BY <1>3, <1>6
  <2>2. prop_dep_qkno(i) >= (at + 1) - 1 /\ prop_dep_qkno(i) > 0
    BY <1>1, <1>2, <1>6, <2>1
  <2>3. PICK j \in Quarks : j = prop_dep_qkno(i) /\ IsParent(i, j, {"prop"})
    BY <1>1, <2>2
  <2> QED BY <2>2, <2>3 DEF UsedFrom
<1>7. ASSUME Lean, s = "full", SavedClover(i) PROVE i = n.ip0
  BY <1>3, <1>7 DEF PropMade
<1>8. at + 1 > 1 /\ s = "full" => UsedFrom(i, (at + 1) - 1)
  BY <1>6
<1>9. Lean /\ s = "full" /\ SavedClover(i) => i = n.ip0
  BY <1>7
<1>10. UsedFrom(i, at + 1) => s = "full" \/ (Lean /\ param.wsave[i])
  BY <1>5
<1> QED BY <1>4, <1>8, <1>9, <1>10, Zenon DEF PropGood

LEMMA ReleaseQuark ==
  ASSUME InputOK, at \in Quarks, NEW q \in [Quarks -> States], NEW o,
         NEW i \in Quarks, i <= at,
         QuarkMade(i, q[i], o), NEW n, n.iq0 = o.iq0, Lean => n.iq1 = at,
         NEW s, s = Free(q, UnneededQuarks(at))[i]
  PROVE  QuarkGood(i, s, at + 1, n)
<1>1. /\ quark_dep_qkno(i) \in Nat
      /\ Paired(i) => quark_dep_qkno(i) = param.num_qk
      /\ \A j \in Quarks : IsParent(i, j, {"quark", "combo"}) => j <= quark_dep_qkno(i)
      /\ quark_dep_qkno(i) > 0 =>
           Paired(i) \/ /\ quark_dep_qkno(i) \in Quarks
                        /\ IsParent(i, quark_dep_qkno(i), {"quark", "combo"})
  BY QuarkDependence
<1>2. /\ at \in Nat /\ at < param.num_qk /\ param.num_qk \in Nat
      /\ \A j \in Quarks : j \in Nat
  BY DEF InputOK, Quarks
<1>3. s = IF i < at /\ quark_dep_qkno(i) < at /\ q[i] = "full" THEN "freed" ELSE q[i]
  BY FreeField DEF UnneededQuarks
<1>4. s # "none"
  BY <1>3 DEF QuarkMade
<1>5. ASSUME QuarkUsedFrom(i, at + 1) PROVE s = "full" \/ (Lean /\ QSaved(i))
  <2>1. ~(quark_dep_qkno(i) < at)
    BY <1>1, <1>2, <1>5 DEF QuarkUsedFrom
  <2> QED BY <1>3, <1>5, <2>1 DEF QuarkMade
<1>6. ASSUME Paired(i) PROVE s = "full" \/ (Lean /\ QSaved(i))
  <2>1. ~(quark_dep_qkno(i) < at)
    BY <1>1, <1>2, <1>6
  <2> QED BY <1>3, <1>6, <2>1 DEF QuarkMade
<1>7. ASSUME i < (at + 1) - 1, s = "full"
      PROVE  Paired(i) \/ QuarkUsedFrom(i, (at + 1) - 1)
  <2>1. ~(quark_dep_qkno(i) < at)
    <3>1. i < at
      BY <1>2, <1>7
    <3> QED BY <1>3, <1>7, <3>1
  <2>2. i \in Nat /\ i < at
    BY <1>2, <1>7
  <2>3. quark_dep_qkno(i) >= (at + 1) - 1 /\ quark_dep_qkno(i) > 0
    BY <1>1, <1>2, <2>1, <2>2
  <2>4. CASE ~Paired(i)
    <3>1. PICK j \in Quarks : /\ j = quark_dep_qkno(i)
                              /\ IsParent(i, j, {"quark", "combo"})
      BY <1>1, <2>3, <2>4
    <3> QED BY <2>3, <3>1 DEF QuarkUsedFrom
  <2> QED BY <2>4
<1>8. ASSUME Lean, s = "full", QSaved(i)
      PROVE  i \in {n.iq0, n.iq1} \/ LostToCombination(i)
  BY <1>3, <1>8 DEF QuarkMade
<1> QED BY <1>4, <1>5, <1>6, <1>7, <1>8, Zenon DEF QuarkGood

LEMMA ReleaseFields ==
  ASSUME InputOK, stop = "no", phase = "quarks", at \in Quarks,
         NEW m \in [Props -> States], NEW q \in [Quarks -> States], NEW o \in Olds,
         \A i \in Props : PropMade(i, m[i], o),
         \A i \in Quarks : IF i <= at THEN QuarkMade(i, q[i], o) ELSE q[i] = "none",
         Release(m, q, o)
  PROVE  FieldsInv' /\ Types' /\ BreaksOffOnly'
<1>1. PICK n : n = IF Lean THEN [o EXCEPT !.iq1 = at] ELSE o
  OBVIOUS
<1>2. n \in Olds /\ n.ip0 = o.ip0 /\ n.iq0 = o.iq0 /\ (Lean => n.iq1 = at)
  BY <1>1 DEF Olds
<1>3. /\ prop' = Free(m, UnneededProps(at)) /\ quark' = Free(q, UnneededQuarks(at))
      /\ old' = n /\ Lean' = Lean /\ param' = param /\ stop' = "no"
      /\ IF at = param.num_qk - 1 THEN phase' = "free" /\ at' = 0
         ELSE phase' = "quarks" /\ at' = at + 1
  BY <1>1 DEF Release, input
<1>4. prop' \in [Props -> States] /\ quark' \in [Quarks -> States]
  BY <1>3, FreeField
<1>5. \A i \in Props : PropGood(i, prop'[i], at + 1, n)
  <2> TAKE i \in Props
  <2> QED BY <1>2, <1>3, ReleaseProp
<1>6. \A i \in Quarks : IF i < at + 1 THEN QuarkGood(i, quark'[i], at + 1, n)
                         ELSE quark'[i] = "none"
  <2> TAKE i \in Quarks
  <2>1. at \in Nat /\ i \in Nat
    BY DEF InputOK, Quarks
  <2>2. CASE i <= at
    <3>1. QuarkGood(i, quark'[i], at + 1, n)
      BY <1>2, <1>3, <2>2, ReleaseQuark
    <3> QED BY <2>1, <2>2, <3>1
  <2>3. CASE ~(i <= at)
    <3>1. quark'[i] = "none"
      BY <1>3, <2>3, FreeField
    <3> QED BY <2>1, <2>3, <3>1
  <2> QED BY <2>2, <2>3
<1>7. \A i \in Props : phase' = "quarks" => PropGood(i, prop[i], at, old)'
  <2> SUFFICES ASSUME NEW i \in Props, phase' = "quarks"
               PROVE  PropGood(i, prop[i], at, old)'
    OBVIOUS
  <2>1. PropGood(i, prop'[i], at', old')
    BY <1>3, <1>5
  <2> QED BY <1>3, <2>1 DEF PropGood, UsedFrom, Quarks, IsParent, SavedClover
<1>8. at' \in Nat /\ at \in Nat /\ param.num_qk \in Nat
      /\ at <= param.num_qk - 1 /\ \A i \in Quarks : i \in 0 .. param.num_qk - 1
  BY <1>3 DEF InputOK, Quarks
<1>9. \A i \in Quarks : phase' = "quarks" =>
        (IF i < at THEN QuarkGood(i, quark[i], at, old) ELSE quark[i] = "none")'
  <2> SUFFICES ASSUME NEW i \in Quarks, phase' = "quarks"
               PROVE  (IF i < at THEN QuarkGood(i, quark[i], at, old)
                       ELSE quark[i] = "none")'
    OBVIOUS
  <2>1. IF i < at' THEN QuarkGood(i, quark'[i], at', old') ELSE quark'[i] = "none"
    BY <1>3, <1>6
  <2>2. QuarkGood(i, quark'[i], at', old') => QuarkGood(i, quark[i], at, old)'
    BY <1>3 DEF QuarkGood, QuarkUsedFrom, Quarks, IsParent, Paired, LostToCombination,
                QSaved
  <2> QED BY <2>1, <2>2
<1>10. \A i \in Quarks : phase' = "free" =>
         QuarkGood(i, quark[i], param.num_qk, old)'
  <2> SUFFICES ASSUME NEW i \in Quarks, phase' = "free"
               PROVE  QuarkGood(i, quark[i], param.num_qk, old)'
    OBVIOUS
  <2>1. at + 1 = param.num_qk
    BY <1>3, <1>8
  <2>2. QuarkGood(i, quark'[i], param.num_qk, old')
    <3>1. i < at + 1
      BY <1>8, <2>1
    <3> QED BY <1>3, <1>6, <2>1, <3>1
  <2> QED BY <1>3, <2>2 DEF QuarkGood, QuarkUsedFrom, Quarks, IsParent, Paired,
                            LostToCombination, QSaved
<1>11. Quarks' = Quarks
  BY <1>3 DEF Quarks
<1>12. phase' = "quarks" /\ Lean' /\ at' > 0 => old'.iq1 = at' - 1
  BY <1>2, <1>3, <1>8
<1>13. FieldsInv'
  BY <1>3, <1>7, <1>9, <1>10, <1>11, <1>12 DEF FieldsInv
<1>14. phase' = "quarks" => at' \in Quarks
  BY <1>3, <1>8 DEF Quarks
<1>15. Types'
  BY <1>2, <1>3, <1>4, <1>11, <1>14 DEF Types, Olds
<1>16. BreaksOffOnly'
  BY <1>3 DEF BreaksOffOnly
<1> QED BY <1>13, <1>15, <1>16

-----------------------------------------------------------------------------
(* The actions                                                             *)

LEMMA SolveKeeps ==
  ASSUME InputOK, Types, FieldsInv, Solve PROVE FieldsInv' /\ Types' /\ BreaksOffOnly'
<1>1. /\ at \in Props /\ NumProp \in Nat \ {0} /\ phase = "solve" /\ stop = "no"
      /\ Lean' = Lean /\ param' = param /\ quark' = quark /\ old' = old /\ stop' = stop
  BY LifetimeAssumption DEF Types, Solve, input
<1>2. PICK s : s = IF Lean /\ param.prop_type[at] \in {"clover", "ifla"} /\ param.wsave[at]
                   THEN "freed" ELSE "full"
  OBVIOUS
<1>3. prop' = [prop EXCEPT ![at] = s] /\ s \in {"freed", "full"}
  BY <1>2 DEF Solve
<1>4. s = "full" \/ (s = "freed" /\ Lean /\ param.wsave[at])
  BY <1>1, <1>2 DEF InputOK
<1>5. Lean /\ s = "full" => ~SavedClover(at)
  BY <1>1, <1>2 DEF SavedClover, InputOK
<1>6. \A i \in Props : IF i < at + 1
                       THEN /\ prop'[i] = "full" \/ (prop'[i] = "freed" /\ Lean /\ param.wsave[i])
                            /\ Lean /\ prop'[i] = "full" => ~SavedClover(i)
                       ELSE prop'[i] = "none"
  <2> TAKE i \in Props
  <2>1. i \in Nat /\ at \in Nat
    BY <1>1 DEF Props
  <2>2. CASE i = at
    BY <1>1, <1>3, <1>4, <1>5, <2>1, <2>2 DEF Types
  <2>3. CASE i < at
    BY <1>1, <1>3, <2>1, <2>3 DEF Types, FieldsInv
  <2>4. CASE at < i
    BY <1>1, <1>3, <2>1, <2>4 DEF Types, FieldsInv
  <2> QED BY <2>1, <2>2, <2>3, <2>4
<1>7. prop' \in [Props -> States] /\ Quarks' = Quarks /\ quark' \in [Quarks -> States]
  BY <1>1, <1>3 DEF Types, States, Quarks
<1>8. \A i \in Quarks : quark'[i] = "none"
  BY <1>1 DEF FieldsInv
<1>9. BreaksOffOnly'
  BY <1>1 DEF BreaksOffOnly
<1>10. CASE at = NumProp - 1
  <2>1. phase' = "quarks" /\ at' = 0
    BY <1>10 DEF Solve
  <2>2. at' \in Quarks'
    <3>1. 0 \in Quarks
      BY DEF InputOK, Quarks
    <3> QED BY <1>7, <2>1, <3>1
  <2>3. \A i \in Props : PropGood(i, prop[i], at, old)'
    <3> SUFFICES ASSUME NEW i \in Props PROVE PropGood(i, prop[i], at, old)'
      OBVIOUS
    <3>1. i < at + 1
      BY <1>10, <1>1 DEF Props
    <3>2. /\ prop'[i] = "full" \/ (prop'[i] = "freed" /\ Lean /\ param.wsave[i])
          /\ Lean /\ prop'[i] = "full" => ~SavedClover(i)
      BY <1>6, <3>1
    <3> QED BY <1>1, <2>1, <3>2 DEF PropGood, SavedClover
  <2>4. \A i \in Quarks : (IF i < at THEN QuarkGood(i, quark[i], at, old)
                           ELSE quark[i] = "none")'
    <3> SUFFICES ASSUME NEW i \in Quarks PROVE ~(i < at') /\ quark'[i] = "none"
      OBVIOUS
    <3> QED BY <1>8, <2>1 DEF Quarks
  <2>5. FieldsInv'
    BY <1>1, <1>7, <2>1, <2>3, <2>4 DEF FieldsInv
  <2>6. Types'
    BY <1>1, <1>7, <2>1, <2>2 DEF Types, Olds
  <2> QED BY <1>9, <2>5, <2>6
<1>11. CASE at # NumProp - 1
  <2>1. phase' = "solve" /\ at' = at + 1
    BY <1>1, <1>11 DEF Solve
  <2>2. at' \in Props
    BY <1>1, <1>11, <2>1 DEF Props
  <2>3. FieldsInv'
    BY <1>1, <1>6, <1>7, <1>8, <2>1 DEF FieldsInv, SavedClover
  <2>4. Types'
    BY <1>1, <1>7, <2>1, <2>2 DEF Types, Olds
  <2> QED BY <1>9, <2>3, <2>4
<1> QED BY <1>10, <1>11

LEMMA Parent ==
  ASSUME InputOK, NEW j \in Quarks
  PROVE  /\ j \in Nat /\ param.parent[j].type \in {"prop", "quark", "combo"}
         /\ param.parent[j].type = "prop" =>
              /\ prop_for_qk(j) \in Props /\ IsParent(prop_for_qk(j), j, {"prop"})
         /\ param.parent[j].type = "quark" =>
              /\ prop_for_qk(j) \in Quarks /\ prop_for_qk(j) < j
              /\ IsParent(prop_for_qk(j), j, {"quark", "combo"})
         /\ param.parent[j].type = "combo" =>
              /\ prop_for_qk(j) \in Quarks /\ prop_for_qk(j) < j
              /\ \A n \in DOMAIN param.parent[j].of :
                   LET i == param.parent[j].of[n]
                   IN  i \in Quarks /\ i < j /\ IsParent(i, j, {"quark", "combo"})
<1>1. param.parent[j] \in Parents(j) /\ param.num_qk \in Nat /\ j \in 0 .. param.num_qk - 1
  BY DEF InputOK, Quarks
<1>2. PICK p : p = param.parent[j]
  OBVIOUS
<1>3. p \in Parents(j)
  BY <1>1, <1>2
<1>4. CASE p \in {[type |-> "prop", of |-> <<i>>] : i \in Props}
  <2>1. PICK i \in Props : p = [type |-> "prop", of |-> <<i>>]
    BY <1>4
  <2>2. p.type = "prop" /\ p.of[1] = i /\ 1 \in DOMAIN p.of
    BY <2>1
  <2> QED BY <1>1, <1>2, <2>2 DEF prop_for_qk, IsParent
<1>5. CASE p \in {[type |-> "quark", of |-> <<i>>] : i \in 0 .. j - 1}
  <2>1. PICK i \in 0 .. j - 1 : p = [type |-> "quark", of |-> <<i>>]
    BY <1>5
  <2>2. p.type = "quark" /\ p.of[1] = i /\ 1 \in DOMAIN p.of
    BY <2>1
  <2>3. i \in Quarks /\ i < j
    BY <1>1 DEF Quarks
  <2> QED BY <1>1, <1>2, <2>2, <2>3 DEF prop_for_qk, IsParent
<1>6. CASE p \in {[type |-> "combo", of |-> s] :
                    s \in [1 .. 1 -> 0 .. j - 1] \cup [1 .. 2 -> 0 .. j - 1]}
  <2>1. PICK s \in [1 .. 1 -> 0 .. j - 1] \cup [1 .. 2 -> 0 .. j - 1] :
          p = [type |-> "combo", of |-> s]
    BY <1>6
  <2>2. p.type = "combo" /\ p.of = s
    BY <2>1
  <2>3. 1 \in DOMAIN s /\ \A n \in DOMAIN s : s[n] \in 0 .. j - 1
    OBVIOUS
  <2>4. \A n \in DOMAIN s : s[n] \in Quarks /\ s[n] < j
    BY <1>1, <2>3 DEF Quarks
  <2>5. \A n \in DOMAIN s : IsParent(s[n], j, {"quark", "combo"})
    BY <1>2, <2>2 DEF IsParent
  <2> QED BY <1>1, <1>2, <2>2, <2>3, <2>4, <2>5 DEF prop_for_qk
<1> QED BY <1>3, <1>4, <1>5, <1>6 DEF Parents

(* What CLOV_LEAN frees is in a file.                                      *)
LEMMA FreedIsSaved ==
  ASSUME InputOK
  PROVE  /\ \A ip : \A i \in SavedOldProp(ip) :
              i \in Props /\ i = ip /\ SavedClover(i) /\ param.wsave[i]
         /\ \A ip : \A i \in Props : i = ip /\ SavedClover(i) => i \in SavedOldProp(ip)
         /\ \A iq : \A i \in SavedOldQuark(iq) : i \in Quarks /\ i = iq /\ QSaved(i)
         /\ \A iq : \A i \in Quarks : i = iq /\ QSaved(i) => i \in SavedOldQuark(iq)
BY DEF SavedOldProp, SavedOldQuark, SavedClover

LEMMA FieldsUnchanged ==
  ASSUME FieldsInv, Lean' = Lean, param' = param, phase' = phase, at' = at,
         prop' = prop, quark' = quark, old' = old
  PROVE  FieldsInv'
<1>1. Quarks' = Quarks
  BY DEF Quarks
<1>2. \A i \in Props : PropGood(i, prop[i], at, old) => PropGood(i, prop[i], at, old)'
  BY <1>1 DEF PropGood, UsedFrom, IsParent, SavedClover
<1>3. \A i \in Quarks : QuarkGood(i, quark[i], at, old) => QuarkGood(i, quark[i], at, old)'
  BY <1>1 DEF QuarkGood, QuarkUsedFrom, IsParent, Paired, LostToCombination, QSaved
<1>4. \A i \in Quarks : QuarkGood(i, quark[i], param.num_qk, old)
                        => QuarkGood(i, quark[i], param.num_qk, old)'
  BY <1>1 DEF QuarkGood, QuarkUsedFrom, IsParent, Paired, LostToCombination, QSaved
<1>5. \A i \in Quarks : PairGood(i, quark[i], IF at > 1 THEN {old.iq0, old.iq1} ELSE {})
                        => PairGood(i, quark[i], IF at > 1 THEN {old.iq0, old.iq1} ELSE {})'
  BY <1>1 DEF PairGood, Paired, LostToCombination, QSaved
<1> QED BY <1>1, <1>2, <1>3, <1>4, <1>5
        DEF FieldsInv, LostToCombination, QSaved, SavedClover

LEMMA BreakKeeps ==
  ASSUME InputOK, Types, FieldsInv, NEW why \in {"freed field", "no such quark"}, Break(why)
  PROVE  FieldsInv' /\ Types'
<1>1. /\ Lean' = Lean /\ param' = param /\ phase' = phase /\ at' = at
      /\ prop' = prop /\ quark' = quark /\ old' = old /\ stop' = why
  BY DEF Break, input
<1>2. FieldsInv'
  BY <1>1, FieldsUnchanged
<1>3. Types'
  BY <1>1 DEF Types, Quarks, Olds
<1> QED BY <1>2, <1>3

LEMMA MakeFromPropKeeps ==
  ASSUME InputOK, Types, FieldsInv, MakeFromProp PROVE FieldsInv' /\ Types' /\ BreaksOffOnly'
<1>1. /\ stop = "no" /\ phase = "quarks" /\ param.parent[at].type = "prop"
      /\ at \in Quarks /\ prop \in [Props -> States] /\ quark \in [Quarks -> States]
      /\ old \in Olds /\ Lean \in BOOLEAN
  BY DEF MakeFromProp, Types, InputOK
<1>2. /\ \A j \in Props : PropGood(j, prop[j], at, old)
      /\ \A j \in Quarks : IF j < at THEN QuarkGood(j, quark[j], at, old)
                           ELSE quark[j] = "none"
  BY <1>1 DEF FieldsInv
<1>3. PICK i : i = prop_for_qk(at)
  OBVIOUS
<1>4. i \in Props /\ IsParent(i, at, {"prop"}) /\ at \in Nat
  BY <1>1, <1>3, Parent
<1>5. PICK m : m = IF Lean /\ old.ip0 # i THEN Free(prop, SavedOldProp(old.ip0)) ELSE prop
  OBVIOUS
<1>6. PICK q : q = IF Lean THEN Free(quark, SavedOldQuark(old.iq0) \cup SavedOldQuark(old.iq1))
                   ELSE quark
  OBVIOUS
<1>7. PICK o : o = IF Lean THEN [old EXCEPT !.ip0 = i, !.iq0 = None] ELSE old
  OBVIOUS
<1>8. o \in Olds /\ (Lean => o.ip0 = i /\ o.iq0 = None)
  BY <1>1, <1>4, <1>7 DEF Olds
<1>9. /\ m \in [Props -> States]
      /\ \A j \in Props : m[j] = IF Lean /\ old.ip0 # i /\ j \in SavedOldProp(old.ip0)
                                    /\ prop[j] = "full" THEN "freed" ELSE prop[j]
  BY <1>1, <1>5, FreeField
<1>10. /\ q \in [Quarks -> States]
       /\ \A j \in Quarks : q[j] = IF /\ Lean /\ quark[j] = "full"
                                      /\ j \in SavedOldQuark(old.iq0) \cup SavedOldQuark(old.iq1)
                                   THEN "freed" ELSE quark[j]
  BY <1>1, <1>6, FreeField
<1>11. GoesOn(m[i], param.wsave[i])
  <2>1. PropGood(i, prop[i], at, old) /\ UsedFrom(i, at)
    BY <1>1, <1>2, <1>4 DEF UsedFrom
  <2>2. prop[i] \in States /\ prop[i] # "none" /\ (prop[i] = "full" \/ (Lean /\ param.wsave[i]))
    BY <1>1, <1>4, <2>1 DEF PropGood
  <2>3. m[i] = prop[i]
    BY <1>4, <1>9, FreedIsSaved
  <2> QED BY <2>2, <2>3 DEF GoesOn, States
<1>12. Release([m EXCEPT ![i] = "full"], [q EXCEPT ![at] = "full"], o)
  BY <1>3, <1>5, <1>6, <1>7, <1>11, Zenon DEF MakeFromProp
<1>13. PICK mm : mm = [m EXCEPT ![i] = "full"]
  OBVIOUS
<1>14. PICK qq : qq = [q EXCEPT ![at] = "full"]
  OBVIOUS
<1>15. mm \in [Props -> States] /\ qq \in [Quarks -> States]
  BY <1>9, <1>10, <1>13, <1>14 DEF States
<1>16. \A j \in Props : PropMade(j, mm[j], o)
  <2> TAKE j \in Props
  <2>1. PropGood(j, prop[j], at, old)
    BY <1>2
  <2>2. UsedFrom(j, at + 1) => UsedFrom(j, at)
    BY <1>4 DEF UsedFrom, Quarks, InputOK
  <2>3. CASE j = i
    <3>1. mm[j] = "full"
      BY <1>9, <1>13, <2>3
    <3> QED BY <1>8, <2>3, <3>1 DEF PropMade
  <2>4. CASE j # i
    <3>1. mm[j] = m[j]
      BY <1>9, <1>13, <2>4
    <3>2. Lean /\ m[j] = "full" => ~SavedClover(j)
      BY <1>9, <2>1, <2>4, FreedIsSaved DEF PropGood
    <3>3. m[j] = prop[j] \/ (m[j] = "freed" /\ Lean /\ param.wsave[j])
      BY <1>9, FreedIsSaved
    <3> QED BY <2>1, <2>2, <3>1, <3>2, <3>3 DEF PropMade, PropGood
  <2> QED BY <2>3, <2>4
<1>17. \A j \in Quarks : IF j <= at THEN QuarkMade(j, qq[j], o) ELSE qq[j] = "none"
  <2> TAKE j \in Quarks
  <2>1. j \in Nat
    BY DEF InputOK, Quarks
  <2>2. CASE j = at
    <3>1. qq[j] = "full"
      BY <1>10, <1>14, <2>2
    <3> QED BY <2>1, <2>2, <3>1 DEF QuarkMade
  <2>3. CASE at < j
    BY <1>2, <1>4, <1>10, <1>14, <2>1, <2>3
  <2>4. CASE j < at
    <3>1. QuarkGood(j, quark[j], at, old) /\ qq[j] = q[j]
      BY <1>2, <1>10, <1>14, <2>4, <1>4, <2>1
    <3>2. QuarkUsedFrom(j, at + 1) => QuarkUsedFrom(j, at)
      BY <1>4 DEF QuarkUsedFrom, Quarks, InputOK
    <3>3. Lean /\ q[j] = "full" /\ QSaved(j) => LostToCombination(j)
      BY <1>10, <3>1, FreedIsSaved DEF QuarkGood
    <3>4. q[j] = quark[j] \/ (q[j] = "freed" /\ Lean /\ QSaved(j))
      BY <1>10, FreedIsSaved
    <3>5. QuarkMade(j, qq[j], o)
      BY <3>1, <3>2, <3>3, <3>4 DEF QuarkMade, QuarkGood
    <3> QED BY <1>4, <2>1, <2>4, <3>5
  <2> QED BY <1>4, <2>1, <2>2, <2>3, <2>4
<1> QED BY <1>1, <1>8, <1>12, <1>13, <1>14, <1>15, <1>16, <1>17, ReleaseFields

LEMMA MakeFromQuarkKeeps ==
  ASSUME InputOK, Types, FieldsInv, MakeFromQuark PROVE FieldsInv' /\ Types' /\ BreaksOffOnly'
<1>1. /\ stop = "no" /\ phase = "quarks" /\ param.parent[at].type = "quark"
      /\ at \in Quarks /\ prop \in [Props -> States] /\ quark \in [Quarks -> States]
      /\ old \in Olds /\ Lean \in BOOLEAN
  BY DEF MakeFromQuark, Types, InputOK
<1>2. /\ \A j \in Props : PropGood(j, prop[j], at, old)
      /\ \A j \in Quarks : IF j < at THEN QuarkGood(j, quark[j], at, old)
                           ELSE quark[j] = "none"
  BY <1>1 DEF FieldsInv
<1>3. PICK i : i = prop_for_qk(at)
  OBVIOUS
<1>4. i \in Quarks /\ i < at /\ IsParent(i, at, {"quark", "combo"}) /\ at \in Nat
  BY <1>1, <1>3, Parent
<1>5. PICK m : m = IF Lean THEN Free(prop, SavedOldProp(old.ip0)) ELSE prop
  OBVIOUS
<1>6. PICK q : q = IF Lean
                   THEN Free(quark, (SavedOldQuark(old.iq0) \cup SavedOldQuark(old.iq1)) \ {i})
                   ELSE quark
  OBVIOUS
<1>7. PICK o : o = IF Lean THEN [old EXCEPT !.ip0 = None, !.iq0 = i] ELSE old
  OBVIOUS
<1>8. o \in Olds /\ (Lean => o.iq0 = i)
  BY <1>1, <1>4, <1>7 DEF Olds
<1>9. /\ m \in [Props -> States]
      /\ \A j \in Props : m[j] = IF Lean /\ j \in SavedOldProp(old.ip0) /\ prop[j] = "full"
                                 THEN "freed" ELSE prop[j]
  BY <1>1, <1>5, FreeField
<1>10. /\ q \in [Quarks -> States]
       /\ \A j \in Quarks : q[j] = IF /\ Lean /\ quark[j] = "full" /\ j # i
                                      /\ j \in SavedOldQuark(old.iq0) \cup SavedOldQuark(old.iq1)
                                   THEN "freed" ELSE quark[j]
  BY <1>1, <1>6, FreeField
<1>11. GoesOn(q[i], QSaved(i))
  <2>1. QuarkGood(i, quark[i], at, old) /\ QuarkUsedFrom(i, at)
    BY <1>1, <1>2, <1>4 DEF QuarkUsedFrom
  <2>2. quark[i] \in States /\ quark[i] # "none"
        /\ (quark[i] = "full" \/ (Lean /\ QSaved(i)))
    BY <1>1, <1>4, <2>1 DEF QuarkGood
  <2> QED BY <1>4, <1>10, <2>2 DEF GoesOn, States
<1>12. Release(m, [q EXCEPT ![i] = "full", ![at] = "full"], o)
  BY <1>3, <1>5, <1>6, <1>7, <1>11, Zenon DEF MakeFromQuark
<1>13. PICK qq : qq = [q EXCEPT ![i] = "full", ![at] = "full"]
  OBVIOUS
<1>14. qq \in [Quarks -> States]
  BY <1>10, <1>13 DEF States
<1>15. \A j \in Props : PropMade(j, m[j], o)
  <2> TAKE j \in Props
  <2>1. PropGood(j, prop[j], at, old)
    BY <1>2
  <2>2. UsedFrom(j, at + 1) => UsedFrom(j, at)
    BY <1>4 DEF UsedFrom, Quarks, InputOK
  <2>3. Lean /\ m[j] = "full" => ~SavedClover(j)
    BY <1>9, <2>1, FreedIsSaved DEF PropGood
  <2>4. m[j] = prop[j] \/ (m[j] = "freed" /\ Lean /\ param.wsave[j])
    BY <1>9, FreedIsSaved
  <2> QED BY <2>1, <2>2, <2>3, <2>4 DEF PropMade, PropGood
<1>16. \A j \in Quarks : IF j <= at THEN QuarkMade(j, qq[j], o) ELSE qq[j] = "none"
  <2> TAKE j \in Quarks
  <2>1. j \in Nat /\ i \in Nat
    BY <1>4 DEF InputOK, Quarks
  <2>2. CASE j = at
    <3>1. qq[j] = "full"
      BY <1>10, <1>13, <2>2
    <3> QED BY <2>1, <2>2, <3>1 DEF QuarkMade
  <2>3. CASE j = i
    <3>1. qq[j] = "full"
      BY <1>4, <1>10, <1>13, <2>3
    <3> QED BY <1>4, <1>8, <2>1, <2>3, <3>1 DEF QuarkMade
  <2>4. CASE at < j
    BY <1>2, <1>4, <1>10, <1>13, <2>1, <2>4
  <2>5. CASE j < at /\ j # i
    <3>1. QuarkGood(j, quark[j], at, old) /\ qq[j] = q[j]
      BY <1>2, <1>10, <1>13, <2>5, <1>4, <2>1
    <3>2. QuarkUsedFrom(j, at + 1) => QuarkUsedFrom(j, at)
      BY <1>4 DEF QuarkUsedFrom, Quarks, InputOK
    <3>3. Lean /\ q[j] = "full" /\ QSaved(j) => LostToCombination(j)
      BY <1>10, <2>5, <3>1, FreedIsSaved DEF QuarkGood
    <3>4. q[j] = quark[j] \/ (q[j] = "freed" /\ Lean /\ QSaved(j))
      BY <1>10, FreedIsSaved
    <3>5. QuarkMade(j, qq[j], o)
      BY <3>1, <3>2, <3>3, <3>4 DEF QuarkMade, QuarkGood
    <3> QED BY <1>4, <2>1, <2>5, <3>5
  <2> QED BY <1>4, <2>1, <2>2, <2>3, <2>4, <2>5
<1> QED BY <1>1, <1>8, <1>9, <1>12, <1>13, <1>14, <1>15, <1>16, ReleaseFields

LEMMA CombineKeeps ==
  ASSUME InputOK, Types, FieldsInv, Combine PROVE FieldsInv' /\ Types' /\ BreaksOffOnly'
<1>1. /\ stop = "no" /\ phase = "quarks" /\ param.parent[at].type = "combo"
      /\ at \in Quarks /\ prop \in [Props -> States] /\ quark \in [Quarks -> States]
      /\ old \in Olds /\ Lean \in BOOLEAN
  BY DEF Combine, Types, InputOK
<1>2. /\ \A j \in Props : PropGood(j, prop[j], at, old)
      /\ \A j \in Quarks : IF j < at THEN QuarkGood(j, quark[j], at, old)
                           ELSE quark[j] = "none"
      /\ Lean /\ at > 0 => old.iq1 = at - 1
  BY <1>1 DEF FieldsInv
<1>3. /\ at \in Nat /\ param.num_qk \in Nat
      /\ \A j \in Quarks : j \in Nat /\ j < param.num_qk
  BY <1>1 DEF InputOK, Quarks
<1>4. CASE \E n \in DOMAIN param.parent[at].of : quark[param.parent[at].of[n]] # "full"
  <2>1. PICK n \in DOMAIN param.parent[at].of : quark[param.parent[at].of[n]] # "full"
    BY <1>4
  <2>2. PICK i : i = param.parent[at].of[n]
    OBVIOUS
  <2>3. i \in Quarks /\ i < at /\ IsParent(i, at, {"quark", "combo"})
    BY <1>1, <2>2, Parent
  <2>4. QuarkGood(i, quark[i], at, old) /\ QuarkUsedFrom(i, at)
    BY <1>1, <1>2, <1>3, <2>3 DEF QuarkUsedFrom
  <2>5. Lean /\ QSaved(i) /\ quark[i] = "freed"
    BY <1>1, <2>1, <2>2, <2>3, <2>4 DEF QuarkGood, States
  <2>6. IsParent(i, at, {"combo"})
    BY <1>1, <2>2 DEF IsParent
  <2>7. Break("freed field")
    BY <1>4, Zenon DEF Combine
  <2>8. FieldsInv' /\ Types'
    BY <2>7, BreakKeeps
  <2>9. BreaksOffOnly'
    BY <1>1, <2>3, <2>5, <2>6, <2>7 DEF Break, BreaksOffOnly, input, Quarks, IsParent, QSaved
  <2> QED BY <2>8, <2>9
<1>5. CASE \A n \in DOMAIN param.parent[at].of : quark[param.parent[at].of[n]] = "full"
  <2>1. Release(prop, [quark EXCEPT ![at] = "full"], old)
    BY <1>5, Zenon DEF Combine
  <2>2. PICK qq : qq = [quark EXCEPT ![at] = "full"]
    OBVIOUS
  <2>3. qq \in [Quarks -> States]
    BY <1>1, <2>2 DEF States
  <2>4. \A j \in Props : PropMade(j, prop[j], old)
    <3> TAKE j \in Props
    <3>1. UsedFrom(j, at + 1) => UsedFrom(j, at)
      BY <1>3 DEF UsedFrom, Quarks, InputOK
    <3> QED BY <1>2, <3>1 DEF PropMade, PropGood
  <2>5. \A j \in Quarks : IF j <= at THEN QuarkMade(j, qq[j], old) ELSE qq[j] = "none"
    <3> TAKE j \in Quarks
    <3>1. CASE j = at
      <4>1. qq[j] = "full"
        BY <1>1, <2>2, <3>1
      <4> QED BY <1>3, <3>1, <4>1 DEF QuarkMade
    <3>2. CASE j < at
      <4>1. j # at
        BY <1>3, <3>2
      <4>2. QuarkGood(j, quark[j], at, old) /\ qq[j] = quark[j]
        BY <1>1, <1>2, <2>2, <3>2, <4>1
      <4>3. QuarkUsedFrom(j, at + 1) => QuarkUsedFrom(j, at)
        BY <1>3 DEF QuarkUsedFrom, Quarks, InputOK
      <4>4. Lean /\ j = old.iq1 => LostToCombination(j)
        <5> HAVE Lean /\ j = old.iq1
        <5>1. j + 1 = at
          BY <1>2, <1>3, <3>2
        <5> QED BY <1>1, <5>1 DEF LostToCombination
      <4>5. QuarkMade(j, qq[j], old)
        BY <4>2, <4>3, <4>4 DEF QuarkMade, QuarkGood
      <4> QED BY <1>3, <3>2, <4>5
    <3>3. CASE at < j
      BY <1>1, <1>2, <1>3, <2>2, <3>3
    <3> QED BY <1>3, <3>1, <3>2, <3>3
  <2> QED BY <1>1, <2>1, <2>2, <2>3, <2>4, <2>5, ReleaseFields
<1> QED BY <1>4, <1>5

LEMMA FreePropsKeeps ==
  ASSUME InputOK, Types, FieldsInv, FreeProps PROVE FieldsInv' /\ Types' /\ BreaksOffOnly'
<1>1. /\ phase = "free" /\ stop' = "no" /\ Lean' = Lean /\ param' = param
      /\ old' = old /\ at' = 1
      /\ quark \in [Quarks -> States] /\ old \in Olds
      /\ \A i \in Quarks : QuarkGood(i, quark[i], param.num_qk, old)
  BY DEF FreeProps, Types, FieldsInv, input
<1>2. \A i \in Props : prop'[i] = "none"
  BY DEF FreeProps
<1>3. prop' \in [Props -> States]
  BY DEF FreeProps, States
<1>4. PICK q : q = Free(quark, SavedOldQuark(old.iq0) \cup SavedOldQuark(old.iq1))
  OBVIOUS
<1>5. quark' = IF Lean THEN q ELSE quark
  BY <1>4 DEF FreeProps
<1>6. /\ q \in [Quarks -> States]
      /\ \A i \in Quarks : q[i] = IF /\ quark[i] = "full"
                                     /\ i \in SavedOldQuark(old.iq0) \cup SavedOldQuark(old.iq1)
                                  THEN "freed" ELSE quark[i]
  BY <1>1, <1>4, FreeField
<1>7. quark' \in [Quarks -> States] /\ Quarks' = Quarks
  BY <1>1, <1>5, <1>6 DEF Quarks
<1>8. \A i \in Quarks : PairGood(i, quark'[i], {})
  <2> TAKE i \in Quarks
  <2>1. QuarkGood(i, quark[i], param.num_qk, old)
    BY <1>1
  <2>2. quark'[i] = quark[i] \/ (quark'[i] = "freed" /\ Lean /\ QSaved(i))
    BY <1>5, <1>6, FreedIsSaved
  <2>3. Lean /\ quark'[i] = "full" /\ QSaved(i) => LostToCombination(i)
    BY <1>5, <1>6, <2>1, FreedIsSaved DEF QuarkGood
  <2> QED BY <2>1, <2>2, <2>3 DEF PairGood, QuarkGood
<1>9. BreaksOffOnly'
  BY <1>1 DEF BreaksOffOnly
<1>10. CASE param.pair = <<>>
  <2>1. phase' = "end"
    BY <1>10 DEF FreeProps
  <2>2. \A i \in Quarks : Lean /\ quark'[i] = "full" /\ QSaved(i) => LostToCombination(i)
    BY <1>8 DEF PairGood
  <2>3. FieldsInv'
    BY <1>1, <1>2, <1>7, <1>10, <2>1, <2>2 DEF FieldsInv, LostToCombination, QSaved
  <2>4. Types'
    BY <1>1, <1>3, <1>7, <2>1 DEF Types, Olds
  <2> QED BY <1>9, <2>3, <2>4
<1>11. CASE param.pair # <<>>
  <2>1. phase' = "mesons"
    BY <1>11 DEF FreeProps
  <2>2. 1 \in DOMAIN param.pair
    BY <1>11 DEF InputOK
  <2>3. \A i \in Quarks : PairGood(i, quark[i], {})'
    BY <1>1, <1>7, <1>8 DEF PairGood, Paired, LostToCombination, QSaved
  <2>4. FieldsInv'
    BY <1>1, <1>2, <1>7, <2>1, <2>3 DEF FieldsInv
  <2>5. Types'
    BY <1>1, <1>3, <1>7, <2>1, <2>2 DEF Types, Olds
  <2> QED BY <1>9, <2>4, <2>5
<1> QED BY <1>10, <1>11

LEMMA MesonKeeps ==
  ASSUME InputOK, Types, FieldsInv, Meson PROVE FieldsInv' /\ Types' /\ BreaksOffOnly'
<1>1. /\ stop = "no" /\ phase = "mesons" /\ at \in DOMAIN param.pair
      /\ quark \in [Quarks -> States] /\ old \in Olds /\ Lean \in BOOLEAN
      /\ prop \in [Props -> States] /\ \A i \in Props : prop[i] = "none"
      /\ \A i \in Quarks :
           PairGood(i, quark[i], IF at > 1 THEN {old.iq0, old.iq1} ELSE {})
  BY DEF Meson, Types, FieldsInv, InputOK
<1>2. /\ param.pair[at] \in Quarks \X Quarks
      /\ at \in Nat /\ 1 <= at /\ at <= Len(param.pair) /\ Len(param.pair) \in Nat
      /\ DOMAIN param.pair = 1 .. Len(param.pair)
  BY <1>1 DEF InputOK
<1>3. PICK a, b : a = param.pair[at][1] /\ b = param.pair[at][2]
  OBVIOUS
<1>4. a \in Quarks /\ b \in Quarks /\ Paired(a) /\ Paired(b)
  BY <1>1, <1>2, <1>3 DEF Paired
<1>5. PICK q : q = IF Lean /\ at > 1
                   THEN Free(quark, (SavedOldQuark(old.iq0) \cup SavedOldQuark(old.iq1)) \ {a, b})
                   ELSE quark
  OBVIOUS
<1>6. /\ q \in [Quarks -> States]
      /\ \A i \in Quarks : q[i] = IF /\ Lean /\ at > 1 /\ quark[i] = "full" /\ i \notin {a, b}
                                     /\ i \in SavedOldQuark(old.iq0) \cup SavedOldQuark(old.iq1)
                                  THEN "freed" ELSE quark[i]
  BY <1>1, <1>5, FreeField
<1>7. \A i \in {a, b} : GoesOn(q[i], QSaved(i))
  <2> TAKE i \in {a, b}
  <2>1. i \in Quarks /\ Paired(i) /\ quark[i] \in States /\ q[i] = quark[i]
    BY <1>1, <1>4, <1>6
  <2>2. quark[i] # "none" /\ (quark[i] = "full" \/ (Lean /\ QSaved(i)))
    BY <1>1, <2>1 DEF PairGood
  <2> QED BY <2>1, <2>2 DEF GoesOn, States
<1>8. /\ quark' = [i \in Quarks |-> IF i \in {a, b} THEN "full" ELSE q[i]]
      /\ old' = IF Lean THEN [old EXCEPT !.iq0 = a, !.iq1 = b] ELSE old
      /\ IF at = Len(param.pair) THEN phase' = "end" /\ at' = 1
         ELSE phase' = "mesons" /\ at' = at + 1
      /\ Lean' = Lean /\ param' = param /\ prop' = prop /\ stop' = "no"
  BY <1>1, <1>3, <1>5, <1>7, Zenon DEF Meson, input
<1>9. old' \in Olds /\ (Lean => old'.iq0 = a /\ old'.iq1 = b)
  BY <1>1, <1>4, <1>8 DEF Olds
<1>10. quark' \in [Quarks -> States] /\ Quarks' = Quarks
  BY <1>6, <1>8 DEF Quarks, States
<1>11. \A i \in Quarks : PairGood(i, quark'[i], {old'.iq0, old'.iq1})
  <2> TAKE i \in Quarks
  <2>1. PairGood(i, quark[i], IF at > 1 THEN {old.iq0, old.iq1} ELSE {})
    BY <1>1
  <2>2. CASE i \in {a, b}
    <3>1. quark'[i] = "full"
      BY <1>8, <2>2
    <3> QED BY <1>9, <2>2, <3>1 DEF PairGood
  <2>3. CASE i \notin {a, b}
    <3>1. quark'[i] = q[i]
      BY <1>8, <2>3
    <3>2. q[i] = quark[i] \/ (q[i] = "freed" /\ Lean /\ QSaved(i))
      BY <1>6, FreedIsSaved
    <3>3. Lean /\ q[i] = "full" /\ QSaved(i) => LostToCombination(i)
      <4>1. CASE at > 1
        BY <1>6, <2>1, <2>3, <4>1, FreedIsSaved DEF PairGood
      <4>2. CASE ~(at > 1)
        BY <1>6, <2>1, <4>2 DEF PairGood
      <4> QED BY <4>1, <4>2
    <3> QED BY <2>1, <3>1, <3>2, <3>3 DEF PairGood
  <2> QED BY <2>2, <2>3
<1>12. BreaksOffOnly'
  BY <1>8 DEF BreaksOffOnly
<1>13. CASE at = Len(param.pair)
  <2>1. phase' = "end" /\ at' = 1
    BY <1>8, <1>13
  <2>2. \A i \in Quarks : Lean /\ quark'[i] = "full" /\ QSaved(i)
                          => i \in {old'.iq0, old'.iq1} \/ LostToCombination(i)
    BY <1>11 DEF PairGood
  <2>3. FieldsInv'
    BY <1>1, <1>4, <1>8, <1>9, <1>10, <2>1, <2>2 DEF FieldsInv, LostToCombination, QSaved
  <2>4. Types'
    BY <1>1, <1>8, <1>9, <1>10, <2>1 DEF Types, Olds
  <2> QED BY <1>12, <2>3, <2>4
<1>14. CASE at # Len(param.pair)
  <2>1. phase' = "mesons" /\ at' = at + 1
    BY <1>8, <1>14
  <2>2. at' > 1 /\ at' \in DOMAIN param.pair
    BY <1>2, <1>14, <2>1
  <2>3. \A i \in Quarks :
          PairGood(i, quark[i], IF at > 1 THEN {old.iq0, old.iq1} ELSE {})'
    <3> TAKE i \in Quarks
    <3>1. PairGood(i, quark'[i], {old'.iq0, old'.iq1})
      BY <1>11
    <3>2. PairGood(i, quark[i], {old.iq0, old.iq1})'
      BY <1>8, <1>10, <3>1 DEF PairGood, Paired, LostToCombination, QSaved
    <3> QED BY <2>2, <3>2
  <2>4. FieldsInv'
    <3>1. /\ stop' = "no" /\ (Lean' => old'.iq0 \in Quarks' /\ old'.iq1 \in Quarks')
          /\ \A i \in Props : prop'[i] = "none"
      BY <1>1, <1>4, <1>8, <1>9, <1>10
    <3> QED BY <1>10, <2>1, <2>3, <3>1 DEF FieldsInv
  <2>5. Types'
    BY <1>1, <1>8, <1>9, <1>10, <2>1, <2>2 DEF Types, Olds
  <2> QED BY <1>12, <2>4, <2>5
<1> QED BY <1>13, <1>14

LEMMA EndSetKeeps ==
  ASSUME InputOK, Types, FieldsInv, EndSet PROVE FieldsInv' /\ Types' /\ BreaksOffOnly'
<1>1. /\ phase = "end" /\ stop = "no" /\ Lean \in BOOLEAN
      /\ Lean /\ param.pair # <<>> => old.iq0 \in Quarks /\ old.iq1 \in Quarks
      /\ \A i \in Props : prop[i] = "none"
  BY DEF EndSet, FieldsInv, InputOK
<1>2. None \notin Quarks
  BY DEF None, Quarks, InputOK
<1>3. CASE Lean /\ None \in {old.iq0, old.iq1}
  <2>1. Break("no such quark") /\ param.pair = <<>>
    BY <1>1, <1>2, <1>3 DEF EndSet
  <2>2. FieldsInv' /\ Types'
    BY <2>1, BreakKeeps
  <2>3. BreaksOffOnly'
    BY <1>1, <1>3, <2>1 DEF Break, BreaksOffOnly, input
  <2> QED BY <2>2, <2>3
<1>4. CASE ~(Lean /\ None \in {old.iq0, old.iq1})
  <2>1. /\ quark' = [j \in Quarks |-> "none"] /\ phase' = "done" /\ at' = 0
        /\ Lean' = Lean /\ param' = param /\ prop' = prop /\ old' = old /\ stop' = stop
    BY <1>4, Zenon DEF EndSet, input
  <2>2. Quarks' = Quarks
    BY <2>1 DEF Quarks
  <2>3. FieldsInv'
    BY <1>1, <2>1, <2>2 DEF FieldsInv
  <2>4. Types'
    BY <1>1, <2>1, <2>2 DEF Types, Olds, States
  <2>5. BreaksOffOnly'
    BY <1>1, <2>1 DEF BreaksOffOnly
  <2> QED BY <2>3, <2>4, <2>5
<1> QED BY <1>3, <1>4

LEMMA NextSetKeeps ==
  ASSUME InputOK, Types, FieldsInv, NextSet PROVE FieldsInv' /\ Types' /\ BreaksOffOnly'
<1>1. /\ phase = "done" /\ stop = "no" /\ at = 0
      /\ \A i \in Props : prop[i] = "none"
      /\ \A i \in Quarks : quark[i] = "none"
  BY DEF NextSet, FieldsInv, Types
<1>2. /\ phase' = "solve" /\ old' = [ip0 |-> None, iq0 |-> None, iq1 |-> None]
      /\ Lean' = Lean /\ param' = param /\ at' = at /\ prop' = prop
      /\ quark' = quark /\ stop' = stop
  BY DEF NextSet, input
<1>3. Quarks' = Quarks
  BY <1>2 DEF Quarks
<1>4. at' \in Props /\ \A i \in Props : ~(i < at')
  BY <1>1, <1>2, LifetimeAssumption DEF Props
<1>5. FieldsInv'
  BY <1>1, <1>2, <1>3, <1>4 DEF FieldsInv
<1>6. Types'
  BY <1>1, <1>2, <1>3, <1>4 DEF Types, Olds
<1>7. BreaksOffOnly'
  BY <1>1, <1>2 DEF BreaksOffOnly
<1> QED BY <1>5, <1>6, <1>7

LEMMA FieldsInit ==
  ASSUME Init, InputOK PROVE FieldsInv /\ Types /\ BreaksOffOnly
<1>1. 0 \in Props /\ \A i \in Props : ~(i < 0)
  BY LifetimeAssumption DEF Props
<1> QED BY <1>1 DEF Init, FieldsInv, Types, States, Olds, BreaksOffOnly

LEMMA FieldsStep ==
  ASSUME InputOK, Types, FieldsInv, BreaksOffOnly, [Next]_vars
  PROVE  FieldsInv' /\ Types' /\ BreaksOffOnly'
<1>1. CASE UNCHANGED vars
  <2>1. FieldsInv'
    BY <1>1, FieldsUnchanged DEF vars, input
  <2>2. Types'
    BY <1>1 DEF vars, input, Types, Quarks, Olds
  <2>3. BreaksOffOnly'
    BY <1>1 DEF vars, input, BreaksOffOnly, Quarks, IsParent, QSaved
  <2> QED BY <2>1, <2>2, <2>3
<1> QED BY <1>1, SolveKeeps, MakeFromPropKeeps, MakeFromQuarkKeeps, CombineKeeps,
           FreePropsKeeps, MesonKeeps, EndSetKeeps, NextSetKeeps DEF Next

-----------------------------------------------------------------------------
(* What the properties say of the fields                                   *)

LEMMA FieldsKept ==
  ASSUME InputOK, Types, FieldsInv PROVE NeededIsKept
<1>1. ASSUME phase = "quarks", NEW i \in Props, NEW j \in at .. param.num_qk - 1,
             IsParent(i, j, {"prop"})
      PROVE  prop[i] = "full" \/ (Lean /\ param.wsave[i])
  <2>1. at \in Quarks /\ PropGood(i, prop[i], at, old)
    BY <1>1 DEF FieldsInv, Types
  <2>2. j \in Quarks /\ at <= j
    BY <2>1 DEF Quarks, InputOK
  <2>3. UsedFrom(i, at)
    BY <1>1, <2>2 DEF UsedFrom
  <2> QED BY <2>1, <2>3 DEF PropGood
<1>2. ASSUME phase = "quarks", NEW i \in 0 .. at - 1, NEW j \in at .. param.num_qk - 1,
             IsParent(i, j, {"quark", "combo"})
      PROVE  quark[i] = "full" \/ (Lean /\ QSaved(i))
  <2>1. at \in Quarks
    BY <1>2 DEF Types
  <2>2. j \in Quarks /\ at <= j /\ i \in Quarks /\ i < at
    BY <2>1 DEF Quarks, InputOK
  <2>3. QuarkGood(i, quark[i], at, old)
    BY <1>2, <2>2 DEF FieldsInv
  <2>4. QuarkUsedFrom(i, at)
    BY <1>2, <2>2 DEF QuarkUsedFrom
  <2> QED BY <2>3, <2>4 DEF QuarkGood
<1>3. ASSUME phase \in {"quarks", "free", "mesons"}, NEW i \in Quarks,
             Paired(i), quark[i] = "freed"
      PROVE  Lean /\ QSaved(i)
  <2>1. CASE phase = "quarks"
    <3>1. QuarkGood(i, quark[i], at, old)
      BY <1>3, <2>1 DEF FieldsInv
    <3> QED BY <1>3, <3>1 DEF QuarkGood
  <2>2. CASE phase = "free"
    <3>1. QuarkGood(i, quark[i], param.num_qk, old)
      BY <2>2 DEF FieldsInv
    <3> QED BY <1>3, <3>1 DEF QuarkGood
  <2>3. CASE phase = "mesons"
    <3>1. PairGood(i, quark[i], IF at > 1 THEN {old.iq0, old.iq1} ELSE {})
      BY <2>3 DEF FieldsInv
    <3> QED BY <1>3, <3>1 DEF PairGood
  <2> QED BY <1>3, <2>1, <2>2, <2>3
<1> QED BY <1>1, <1>2, <1>3, Zenon DEF NeededIsKept

LEMMA FieldsFew ==
  ASSUME InputOK, Types, FieldsInv PROVE NoLongerThanNeeded /\ LeanHoldsFew
<1>1. ASSUME phase = "quarks", at > 1, NEW i \in Props, prop[i] = "full"
      PROVE  \E j \in at - 1 .. param.num_qk - 1 : IsParent(i, j, {"prop"})
  <2>1. at \in Quarks /\ PropGood(i, prop[i], at, old)
    BY <1>1 DEF FieldsInv, Types
  <2>2. PICK j \in Quarks : at - 1 <= j /\ IsParent(i, j, {"prop"})
    BY <1>1, <2>1 DEF PropGood, UsedFrom
  <2>3. j \in at - 1 .. param.num_qk - 1
    BY <2>1, <2>2 DEF Quarks, InputOK
  <2> QED BY <2>2, <2>3
<1>2. ASSUME phase = "quarks", at > 1, NEW i \in 0 .. at - 2, quark[i] = "full"
      PROVE  \/ Paired(i)
             \/ \E j \in at - 1 .. param.num_qk - 1 : IsParent(i, j, {"quark", "combo"})
  <2>1. at \in Quarks
    BY <1>2 DEF Types
  <2>2. i \in Quarks /\ i < at /\ i < at - 1
    BY <2>1 DEF Quarks, InputOK
  <2>3. QuarkGood(i, quark[i], at, old)
    BY <1>2, <2>2 DEF FieldsInv
  <2>4. CASE ~Paired(i)
    <3>1. PICK j \in Quarks : at - 1 <= j /\ IsParent(i, j, {"quark", "combo"})
      BY <1>2, <2>2, <2>3, <2>4 DEF QuarkGood, QuarkUsedFrom
    <3>2. j \in at - 1 .. param.num_qk - 1
      BY <2>1, <3>1 DEF Quarks, InputOK
    <3> QED BY <3>1, <3>2
  <2> QED BY <2>4
<1>3. NoLongerThanNeeded
  BY <1>1, <1>2, Zenon DEF NoLongerThanNeeded
<1>4. ASSUME Lean, phase = "quarks", NEW i \in Props, prop[i] = "full",
             param.prop_type[i] = "clover", param.wsave[i]
      PROVE  i = old.ip0
  BY <1>4 DEF FieldsInv, PropGood, SavedClover
<1>5. ASSUME Lean, phase \in {"quarks", "free", "mesons", "end"}, NEW i \in Quarks,
             quark[i] = "full", QSaved(i)
      PROVE  i \in {old.iq0, old.iq1} \/ LostToCombination(i)
  <2>1. CASE phase = "quarks"
    <3>1. QuarkGood(i, quark[i], at, old)
      BY <1>5, <2>1 DEF FieldsInv
    <3> QED BY <1>5, <3>1 DEF QuarkGood
  <2>2. CASE phase = "free"
    <3>1. QuarkGood(i, quark[i], param.num_qk, old)
      BY <2>2 DEF FieldsInv
    <3> QED BY <1>5, <3>1 DEF QuarkGood
  <2>3. CASE phase = "mesons"
    <3>1. PairGood(i, quark[i], IF at > 1 THEN {old.iq0, old.iq1} ELSE {})
      BY <2>3 DEF FieldsInv
    <3> QED BY <1>5, <3>1 DEF PairGood
  <2>4. CASE phase = "end"
    BY <1>5, <2>4 DEF FieldsInv
  <2> QED BY <1>5, <2>1, <2>2, <2>3, <2>4
<1>6. LeanHoldsFew
  BY <1>4, <1>5, Zenon DEF LeanHoldsFew
<1> QED BY <1>3, <1>6

(* The quarks that are wrong.                                              *)

WrongInv == wrong \subseteq Quarks /\ WrongFromSource

\* a step that spoils only quarks that are in source files or made from wrong ones
LEMMA WrongGrows ==
  ASSUME InputOK, WrongInv, Lean' = Lean, param' = param,
         wrong \subseteq wrong', wrong' \subseteq Quarks,
         \A i \in wrong' \ wrong :
           Lean /\ \/ param.qsave[i] = "source"
                   \/ \E l \in wrong' : IsParent(l, i, {"quark", "combo"})
  PROVE  WrongInv'
<1>1. \A i \in wrong' : Lean /\ \/ param.qsave[i] = "source"
                                \/ \E l \in wrong' : IsParent(l, i, {"quark", "combo"})
  BY DEF WrongInv, WrongFromSource
<1> QED BY <1>1 DEF WrongInv, WrongFromSource, Quarks, IsParent

\* those read again from a file in source format were freed by CLOV_LEAN
LEMMA UnreadInLean ==
  ASSUME NEW q, NEW S, \A i \in S : GoesOn(q[i], QSaved(i))
  PROVE  /\ Unread(q, S) \subseteq S
         /\ \A i \in Unread(q, S) : Lean /\ param.qsave[i] = "source"
BY DEF Unread, GoesOn

LEMMA WrongStep ==
  ASSUME InputOK, Types, WrongInv, [Next]_vars PROVE WrongInv'
<1>1. Lean' = Lean /\ param' = param
  BY InputKept
<1>2. ASSUME wrong' = wrong PROVE WrongInv'
  BY <1>1, <1>2, WrongGrows DEF WrongInv
<1>3. phase = "quarks" => at \in Quarks
  BY DEF Types
<1>4. CASE Solve
  BY <1>2, <1>4 DEF Solve
<1>5. CASE MakeFromProp
  BY <1>2, <1>5 DEF MakeFromProp, Break
<1>6. CASE MakeFromQuark
  <2>1. phase = "quarks" /\ param.parent[at].type = "quark"
    BY <1>6 DEF MakeFromQuark
  <2>2. PICK i : i = prop_for_qk(at)
    OBVIOUS
  <2>3. i \in Quarks /\ IsParent(i, at, {"quark", "combo"})
    BY <1>3, <2>1, <2>2, Parent
  <2>4. PICK q : \/ Break(Refusal)
                 \/ /\ GoesOn(q[i], QSaved(i))
                    /\ wrong' = IF i \in wrong \cup Unread(q, {i})
                                THEN (wrong \cup Unread(q, {i})) \cup {at}
                                ELSE wrong \cup Unread(q, {i})
    BY <1>6, <2>2, Zenon DEF MakeFromQuark
  <2>5. CASE Break(Refusal)
    BY <1>2, <2>5 DEF Break
  <2>6. CASE ~Break(Refusal)
    <3>1. PICK u : u = Unread(q, {i})
      OBVIOUS
    <3>2. u \subseteq {i} /\ \A l \in u : Lean /\ param.qsave[l] = "source"
      BY <2>4, <2>6, <3>1, UnreadInLean
    <3>3. wrong' = IF i \in wrong \cup u THEN (wrong \cup u) \cup {at} ELSE wrong \cup u
      BY <2>4, <2>6, <3>1
    <3>4. wrong \subseteq wrong' /\ wrong' \subseteq Quarks
      BY <1>3, <2>1, <2>3, <3>2, <3>3 DEF WrongInv
    <3>5. \A l \in wrong : Lean
      BY DEF WrongInv, WrongFromSource
    <3>6. \A l \in wrong' \ wrong : l \in u \/ (l = at /\ i \in wrong' /\ Lean)
      BY <3>2, <3>3, <3>5
    <3> QED BY <1>1, <2>3, <3>2, <3>4, <3>6, WrongGrows
  <2> QED BY <2>5, <2>6
<1>7. CASE Combine
  <2>1. phase = "quarks" /\ param.parent[at].type = "combo"
    BY <1>7 DEF Combine
  <2>2. PICK of : of = param.parent[at].of
    OBVIOUS
  <2>3. \/ Break("freed field")
        \/ wrong' = wrong \cup {j \in {at} : \E n \in DOMAIN of : of[n] \in wrong}
    BY <1>7, <2>2, Zenon DEF Combine
  <2>4. CASE Break("freed field")
    BY <1>2, <2>4 DEF Break
  <2>5. CASE wrong' = wrong \cup {j \in {at} : \E n \in DOMAIN of : of[n] \in wrong}
    <3>1. wrong \subseteq wrong' /\ wrong' \subseteq Quarks
      BY <1>3, <2>1, <2>5 DEF WrongInv
    <3>2. ASSUME NEW i \in wrong' \ wrong
          PROVE  Lean /\ \E l \in wrong' : IsParent(l, i, {"quark", "combo"})
      <4>1. PICK n \in DOMAIN of : i = at /\ of[n] \in wrong
        BY <2>5, <3>2
      <4>2. IsParent(of[n], at, {"quark", "combo"})
        BY <1>3, <2>1, <2>2, Parent
      <4> QED BY <3>1, <4>1, <4>2 DEF WrongInv, WrongFromSource
    <3> QED BY <1>1, <3>1, <3>2, WrongGrows
  <2> QED BY <2>3, <2>4, <2>5
<1>8. CASE FreeProps
  BY <1>2, <1>8 DEF FreeProps
<1>9. CASE Meson
  <2>1. at \in DOMAIN param.pair
    BY <1>9 DEF Meson, Types
  <2>2. PICK iq : iq = {param.pair[at][1], param.pair[at][2]}
    OBVIOUS
  <2>3. iq \subseteq Quarks
    BY <2>1, <2>2 DEF InputOK
  <2>4. PICK q : \/ Break(Refusal)
                 \/ /\ \A i \in iq : GoesOn(q[i], QSaved(i))
                    /\ wrong' = wrong \cup Unread(q, iq)
    BY <1>9, <2>2, Zenon DEF Meson
  <2>5. CASE Break(Refusal)
    BY <1>2, <2>5 DEF Break
  <2>6. CASE ~Break(Refusal)
    <3>1. PICK u : u = Unread(q, iq)
      OBVIOUS
    <3>2. u \subseteq iq /\ \A l \in u : Lean /\ param.qsave[l] = "source"
      BY <2>4, <2>6, <3>1, UnreadInLean
    <3>3. wrong' = wrong \cup u
      BY <2>4, <2>6, <3>1
    <3>4. wrong \subseteq wrong' /\ wrong' \subseteq Quarks
      BY <2>3, <3>2, <3>3 DEF WrongInv
    <3> QED BY <1>1, <3>2, <3>3, <3>4, WrongGrows
  <2> QED BY <2>5, <2>6
<1>10. CASE EndSet
  BY <1>2, <1>10 DEF EndSet, Break
<1>11. CASE NextSet
  <2>1. wrong' = {}
    BY <1>11 DEF NextSet
  <2> QED BY <2>1 DEF WrongInv, WrongFromSource
<1>12. CASE UNCHANGED vars
  BY <1>2, <1>12 DEF vars
<1> QED BY <1>4, <1>5, <1>6, <1>7, <1>8, <1>9, <1>10, <1>11, <1>12 DEF Next

\* Nothing a later quark or pair needs is freed, unless it was saved and
\* CLOV_LEAN asks for it again (clover_invert2/control.c with the dependencies
\* of setup.c); the program breaks off only at a combination of a quark CLOV_LEAN
\* freed and at the end of a lean set without pairs; and a quark is wrong only if
\* it, or one it was made from, was saved in source format.  This holds for any
\* number of propagators, quarks and pairs, whoever their parents are and
\* whatever is saved, in either build.
THEOREM NeededFieldsAreKept == Spec => []NeededKept
<1>1. Init => InputOK /\ FieldsInv /\ Types /\ BreaksOffOnly /\ WrongInv
  <2>1. Init => WrongInv
    BY DEF Init, WrongInv, WrongFromSource
  <2> QED BY <2>1, InputInit, FieldsInit
<1>2. InputOK /\ FieldsInv /\ Types /\ BreaksOffOnly /\ WrongInv /\ [Next]_vars
      => (InputOK /\ FieldsInv /\ Types /\ BreaksOffOnly /\ WrongInv)'
  BY InputKept, FieldsStep, WrongStep
<1>3. InputOK /\ FieldsInv /\ Types /\ BreaksOffOnly /\ WrongInv => NeededKept
  BY FieldsKept DEF NeededKept, WrongInv
<1> QED BY <1>1, <1>2, <1>3, PTL DEF Spec

-----------------------------------------------------------------------------
(* The walk to the propagator at the root of the ancestors                 *)

\* row n of get_eve from the rows before it
EveStep(f, n) ==
  [j \in Quarks |-> IF param.parent[j].type = "prop" \/ n = 1 THEN prop_for_qk(j)
                    ELSE f[n - 1][prop_for_qk(j)]]

LEMMA EveTables ==
  ASSUME NEW N \in Nat PROVE \E f : f = [n \in 1 .. N |-> EveStep(f, n)]
<1>1. PICK T : T = {m \in Nat : ~ \E f : f = [n \in 1 .. m |-> EveStep(f, n)]}
  OBVIOUS
<1>2. SUFFICES ASSUME T # {} PROVE FALSE
  BY <1>1
<1>3. PICK m \in T : \A l \in T : m <= l
  BY <1>1, <1>2, LeastNat
<1>4. CASE m = 0
  <2>1. PICK f : f = [n \in 1 .. m |-> <<>>]
    OBVIOUS
  <2>2. 1 .. m = {}
    BY <1>4
  <2>3. f = [n \in 1 .. m |-> EveStep(f, n)]
    BY <2>1, <2>2
  <2> QED BY <1>1, <2>3
<1>5. CASE m # 0
  <2>1. m - 1 \in Nat /\ m - 1 \notin T /\ m \in Nat
    BY <1>1, <1>3, <1>5
  <2>2. PICK g : g = [n \in 1 .. m - 1 |-> EveStep(g, n)]
    BY <1>1, <2>1
  <2>3. PICK f : f = [n \in 1 .. m |-> IF n = m THEN EveStep(g, m) ELSE g[n]]
    OBVIOUS
  <2>4. \A n \in 1 .. m : EveStep(f, n) = EveStep(g, n)
    <3> TAKE n \in 1 .. m
    <3>1. n = 1 \/ (n - 1 \in 1 .. m /\ n - 1 # m)
      BY <2>1
    <3>2. n = 1 \/ f[n - 1] = g[n - 1]
      BY <2>3, <3>1
    <3> QED BY <3>2 DEF EveStep
  <2>5. \A n \in 1 .. m : f[n] = EveStep(f, n)
    <3> TAKE n \in 1 .. m
    <3>1. n \in 1 .. m - 1 \/ n = m
      BY <2>1
    <3> QED BY <2>1, <2>2, <2>3, <2>4, <3>1
  <2>6. f = [n \in 1 .. m |-> EveStep(f, n)]
    BY <2>3, <2>5
  <2> QED BY <1>1, <2>6
<1> QED BY <1>4, <1>5

LEMMA EveRows ==
  \A n \in 1 .. MAX_HISTORY - 1, j \in Quarks :
    get_eve[n][j] = IF param.parent[j].type = "prop" \/ n = 1 THEN prop_for_qk(j)
                    ELSE get_eve[n - 1][prop_for_qk(j)]
<1>1. MAX_HISTORY - 1 \in Nat
  BY LifetimeAssumption
<1>2. \E f : f = [n \in 1 .. MAX_HISTORY - 1 |-> EveStep(f, n)]
  BY <1>1, EveTables
<1>3. get_eve = [n \in 1 .. MAX_HISTORY - 1 |-> EveStep(get_eve, n)]
  BY <1>2 DEF get_eve, EveStep
<1>4. PICK g : g = get_eve
  OBVIOUS
<1>5. PICK h : h = [n \in 1 .. MAX_HISTORY - 1 |-> EveStep(g, n)]
  OBVIOUS
<1>6. \A n \in 1 .. MAX_HISTORY - 1 : h[n] = EveStep(g, n)
  BY <1>5
<1>7. g = h
  BY <1>3, <1>4, <1>5, Zenon
<1>8. \A n \in 1 .. MAX_HISTORY - 1 : g[n] = EveStep(g, n)
  BY <1>6, <1>7
<1>9. ASSUME NEW n \in 1 .. MAX_HISTORY - 1, NEW j \in Quarks
      PROVE  g[n][j] = IF param.parent[j].type = "prop" \/ n = 1 THEN prop_for_qk(j)
                       ELSE g[n - 1][prop_for_qk(j)]
  <2>1. EveStep(g, n)[j] = IF param.parent[j].type = "prop" \/ n = 1 THEN prop_for_qk(j)
                           ELSE g[n - 1][prop_for_qk(j)]
    BY DEF EveStep
  <2> QED BY <1>8, <2>1
<1> QED BY <1>4, <1>9

LEMMA EveTyped ==
  ASSUME InputOK
  PROVE  \A n \in 1 .. MAX_HISTORY - 1 : \A k \in Quarks : get_eve[n][k] \in Props \cup Quarks
<1>1. PICK T : T = {n \in 1 .. MAX_HISTORY - 1 :
                      \E k \in Quarks : get_eve[n][k] \notin Props \cup Quarks}
  OBVIOUS
<1>2. SUFFICES ASSUME T # {} PROVE FALSE
  BY <1>1
<1>3. PICK n \in T : \A l \in T : n <= l
  BY <1>1, <1>2, LeastNat
<1>4. PICK k \in Quarks : get_eve[n][k] \notin Props \cup Quarks
  BY <1>1, <1>3
<1>5. prop_for_qk(k) \in Props \cup Quarks
  BY Parent
<1>6. param.parent[k].type # "prop" /\ n # 1 /\ get_eve[n][k] = get_eve[n - 1][prop_for_qk(k)]
  BY <1>1, <1>3, <1>4, <1>5, EveRows
<1>7. prop_for_qk(k) \in Quarks
  BY <1>6, Parent
<1>8. n \in 1 .. MAX_HISTORY - 1 /\ MAX_HISTORY \in Nat
  BY <1>1, <1>3, LifetimeAssumption
<1>9. n - 1 \in 1 .. MAX_HISTORY - 1 /\ ~(n <= n - 1)
  BY <1>6, <1>8
<1>10. n - 1 \notin T
  BY <1>3, <1>9
<1> QED BY <1>1, <1>4, <1>6, <1>7, <1>9, <1>10

\* entry j of Lineage from the entries before it
LineageStep(f, j) ==
  IF param.parent[j].type = "prop" THEN [root |-> prop_for_qk(j), steps |-> 1]
  ELSE [root |-> f[prop_for_qk(j)].root, steps |-> f[prop_for_qk(j)].steps + 1]

LEMMA LineageTables ==
  ASSUME InputOK
  PROVE  \A m \in 0 .. param.num_qk : \E f : f = [j \in 0 .. m - 1 |-> LineageStep(f, j)]
<1>1. PICK T : T = {m \in 0 .. param.num_qk :
                      ~ \E f : f = [j \in 0 .. m - 1 |-> LineageStep(f, j)]}
  OBVIOUS
<1>2. SUFFICES ASSUME T # {} PROVE FALSE
  BY <1>1
<1>3. param.num_qk \in Nat
  BY DEF InputOK
<1>4. T \subseteq Nat
  BY <1>1, <1>3
<1>5. PICK m \in T : \A l \in T : m <= l
  BY <1>2, <1>4, LeastNat
<1>6. CASE m = 0
  <2>1. PICK f : f = [j \in 0 .. m - 1 |-> <<>>]
    OBVIOUS
  <2>2. 0 .. m - 1 = {}
    BY <1>6
  <2>3. f = [j \in 0 .. m - 1 |-> LineageStep(f, j)]
    BY <2>1, <2>2
  <2> QED BY <1>1, <2>3
<1>7. CASE m # 0
  <2>1. m \in Nat /\ m <= param.num_qk /\ m - 1 \in 0 .. param.num_qk /\ ~(m <= m - 1)
    BY <1>1, <1>3, <1>5, <1>7
  <2>2. PICK g : g = [j \in 0 .. (m - 1) - 1 |-> LineageStep(g, j)]
    BY <1>1, <1>5, <2>1
  <2>3. PICK f : f = [j \in 0 .. m - 1 |-> IF j = m - 1 THEN LineageStep(g, m - 1) ELSE g[j]]
    OBVIOUS
  <2>4. \A j \in 0 .. m - 1 : LineageStep(f, j) = LineageStep(g, j)
    <3> TAKE j \in 0 .. m - 1
    <3>1. j \in Quarks /\ j \in Nat
      BY <1>3, <2>1 DEF Quarks
    <3>2. CASE param.parent[j].type = "prop"
      BY <3>2 DEF LineageStep
    <3>3. CASE param.parent[j].type # "prop"
      <4>1. prop_for_qk(j) \in Quarks /\ prop_for_qk(j) < j
        BY <3>1, <3>3, Parent
      <4>2. prop_for_qk(j) \in 0 .. m - 1 /\ prop_for_qk(j) # m - 1
        BY <1>3, <2>1, <3>1, <4>1 DEF Quarks
      <4>3. f[prop_for_qk(j)] = g[prop_for_qk(j)]
        BY <2>3, <4>2
      <4> QED BY <4>3 DEF LineageStep
    <3> QED BY <3>2, <3>3
  <2>5. \A j \in 0 .. m - 1 : f[j] = LineageStep(f, j)
    <3> TAKE j \in 0 .. m - 1
    <3>1. j \in 0 .. (m - 1) - 1 \/ j = m - 1
      BY <2>1
    <3> QED BY <2>1, <2>2, <2>3, <2>4, <3>1
  <2>6. f = [j \in 0 .. m - 1 |-> LineageStep(f, j)]
    BY <2>3, <2>5
  <2> QED BY <1>1, <1>5, <2>6
<1> QED BY <1>6, <1>7

LEMMA LineageEntries ==
  ASSUME InputOK
  PROVE  \A j \in Quarks :
           /\ param.parent[j].type = "prop" =>
                Lineage[j].root = prop_for_qk(j) /\ Lineage[j].steps = 1
           /\ param.parent[j].type # "prop" =>
                /\ Lineage[j].root = Lineage[prop_for_qk(j)].root
                /\ Lineage[j].steps = Lineage[prop_for_qk(j)].steps + 1
<1>1. param.num_qk \in 0 .. param.num_qk
  BY DEF InputOK
<1>2. \E f : f = [j \in Quarks |-> LineageStep(f, j)]
  BY <1>1, LineageTables DEF Quarks
<1>3. Lineage = [j \in Quarks |-> LineageStep(Lineage, j)]
  BY <1>2 DEF Lineage, LineageStep
<1>4. PICK g : g = Lineage
  OBVIOUS
<1>5. PICK h : h = [j \in Quarks |-> LineageStep(g, j)]
  OBVIOUS
<1>6. \A j \in Quarks : h[j] = LineageStep(g, j)
  BY <1>5
<1>7. g = h
  BY <1>3, <1>4, <1>5, Zenon
<1>8. \A j \in Quarks : g[j] = LineageStep(g, j)
  BY <1>6, <1>7
<1>9. ASSUME NEW j \in Quarks, param.parent[j].type = "prop"
      PROVE  g[j].root = prop_for_qk(j) /\ g[j].steps = 1
  <2>1. g[j] = [root |-> prop_for_qk(j), steps |-> 1]
    BY <1>8, <1>9 DEF LineageStep
  <2> QED BY <2>1
<1>10. ASSUME NEW j \in Quarks, param.parent[j].type # "prop"
       PROVE  /\ g[j].root = g[prop_for_qk(j)].root
              /\ g[j].steps = g[prop_for_qk(j)].steps + 1
  <2>1. g[j] = [root |-> g[prop_for_qk(j)].root, steps |-> g[prop_for_qk(j)].steps + 1]
    BY <1>8, <1>10 DEF LineageStep
  <2> QED BY <2>1
<1> QED BY <1>4, <1>9, <1>10

(* A walk of as many steps as the propagator is away comes to it.          *)
LEMMA EveFound ==
  ASSUME InputOK
  PROVE  \A k \in Quarks :
           /\ Lineage[k].steps \in Nat \ {0}
           /\ \A n \in 1 .. MAX_HISTORY - 1 :
                Lineage[k].steps <= n => get_eve[n][k] = Lineage[k].root
<1>1. PICK g, f : g = get_eve /\ f = Lineage
  OBVIOUS
<1>2. \A n \in 1 .. MAX_HISTORY - 1, j \in Quarks :
        g[n][j] = IF param.parent[j].type = "prop" \/ n = 1 THEN prop_for_qk(j)
                  ELSE g[n - 1][prop_for_qk(j)]
  BY <1>1, EveRows
<1>3. \A j \in Quarks :
        /\ param.parent[j].type = "prop" => f[j].root = prop_for_qk(j) /\ f[j].steps = 1
        /\ param.parent[j].type # "prop" => /\ f[j].root = f[prop_for_qk(j)].root
                                            /\ f[j].steps = f[prop_for_qk(j)].steps + 1
  BY <1>1, LineageEntries
<1> DEFINE Found(k) ==
             /\ f[k].steps \in Nat \ {0}
             /\ \A n \in 1 .. MAX_HISTORY - 1 : f[k].steps <= n => g[n][k] = f[k].root
<1>4. PICK T : T = {k \in Quarks : ~Found(k)}
  OBVIOUS
<1>5. SUFFICES ASSUME T # {} PROVE FALSE
  BY <1>1, <1>4
<1>6. T \subseteq Nat
  BY <1>4 DEF Quarks, InputOK
<1>7. PICK k \in T : \A l \in T : k <= l
  BY <1>5, <1>6, LeastNat
<1>8. k \in Quarks /\ k \in Nat /\ ~Found(k)
  BY <1>4, <1>6
<1>9. CASE param.parent[k].type = "prop"
  <2>1. Found(k)
    BY <1>2, <1>3, <1>8, <1>9
  <2> QED BY <1>8, <2>1
<1>10. CASE param.parent[k].type # "prop"
  <2>1. PICK p : p = prop_for_qk(k)
    OBVIOUS
  <2>2. p \in Quarks /\ p < k /\ p \in Nat
    BY <1>8, <1>10, <2>1, Parent
  <2>3. p \notin T
    BY <1>7, <1>8, <2>2
  <2>4. Found(p)
    BY <1>4, <2>2, <2>3
  <2>5. f[k].root = f[p].root /\ f[k].steps = f[p].steps + 1
    BY <1>3, <1>8, <1>10, <2>1
  <2>6. f[k].steps \in Nat \ {0}
    BY <2>4, <2>5
  <2>7. ASSUME NEW n \in 1 .. MAX_HISTORY - 1, f[k].steps <= n PROVE g[n][k] = f[k].root
    <3>1. n - 1 \in 1 .. MAX_HISTORY - 1 /\ n # 1 /\ f[p].steps <= n - 1
      BY <2>4, <2>5, <2>7, LifetimeAssumption
    <3>2. g[n - 1][p] = f[p].root
      BY <2>4, <3>1
    <3> QED BY <1>2, <1>8, <1>10, <2>1, <2>5, <3>1, <3>2
  <2>8. Found(k)
    BY <2>6, <2>7
  <2> QED BY <1>8, <2>8
<1> QED BY <1>9, <1>10

\* What the walk of momentum_twist_ape_links finds.
Eve(k) == get_eve[MAX_HISTORY - 1][k]

LEMMA EveOfQuark ==
  ASSUME InputOK, NEW k \in Quarks
  PROVE  /\ Eve(k) \in Props \cup Quarks
         /\ Lineage[k].steps <= MAX_HISTORY - 1 => Eve(k) = Lineage[k].root
<1>1. MAX_HISTORY - 1 \in 1 .. MAX_HISTORY - 1
  BY LifetimeAssumption
<1> QED BY <1>1, EveTyped, EveFound DEF Eve

LEMMA EveKept ==
  ASSUME param' = param PROVE get_eve' = get_eve
BY DEF get_eve, Quarks, prop_for_qk

(* The twist of the quarks made so far.                                    *)

FromQuark(j) == param.parent[j].type = "quark"

TwistInv ==
  /\ twist \in [Quarks -> Props \cup Quarks \cup {None}]
  /\ \A j \in Quarks : FromQuark(j) /\ twist[j] # None => twist[j] = Eve(prop_for_qk(j))

\* a step that makes no quark by an operator
LEMMA TwistUnchanged ==
  ASSUME TwistInv, param' = param, twist' = twist PROVE TwistInv'
<1>1. Quarks' = Quarks /\ get_eve' = get_eve
  BY EveKept DEF Quarks
<1> QED BY <1>1 DEF TwistInv, FromQuark, Eve, prop_for_qk

\* the step that makes quark at from a quark or propagator
LEMMA TwistMade ==
  ASSUME InputOK, TwistInv, param' = param, at \in Quarks, Twist PROVE TwistInv'
<1>1. twist \in [Quarks -> Props \cup Quarks \cup {None}]
  BY DEF TwistInv
<1>2. PICK i : i = prop_for_qk(at)
  OBVIOUS
<1>3. PICK e \in TwistOf(i) : twist' = [twist EXCEPT ![at] = e]
  BY <1>2 DEF Twist
<1>4. e \in Props \cup Quarks /\ (i \in Quarks => e = Eve(i))
  BY <1>3, EveOfQuark DEF TwistOf, Eve
<1>5. FromQuark(at) => i \in Quarks
  BY <1>2, Parent DEF FromQuark
<1>6. /\ twist' \in [Quarks -> Props \cup Quarks \cup {None}] /\ twist'[at] = e
      /\ \A j \in Quarks : j # at => twist'[j] = twist[j]
  BY <1>1, <1>3, <1>4
<1>7. \A j \in Quarks : FromQuark(j) /\ twist'[j] # None => twist'[j] = Eve(prop_for_qk(j))
  BY <1>2, <1>4, <1>5, <1>6 DEF TwistInv
<1>8. Quarks' = Quarks /\ get_eve' = get_eve
  BY EveKept DEF Quarks
<1> QED BY <1>6, <1>7, <1>8 DEF TwistInv, FromQuark, Eve, prop_for_qk

LEMMA TwistStep ==
  ASSUME InputOK, Types, TwistInv, [Next]_vars PROVE TwistInv'
<1>1. Lean' = Lean /\ param' = param
  BY InputKept
<1>2. phase = "quarks" => at \in Quarks
  BY DEF Types
<1>3. ASSUME twist' = twist PROVE TwistInv'
  BY <1>1, <1>3, TwistUnchanged
<1>4. ASSUME phase = "quarks", Twist PROVE TwistInv'
  BY <1>1, <1>2, <1>4, TwistMade
<1>5. ASSUME Break(Refusal) \/ Break("freed field") PROVE TwistInv'
  BY <1>3, <1>5 DEF Break
<1>6. CASE MakeFromProp
  <2>1. phase = "quarks" /\ (Break(Refusal) \/ Twist)
    BY <1>6, Zenon DEF MakeFromProp
  <2> QED BY <1>4, <1>5, <2>1
<1>7. CASE MakeFromQuark
  <2>1. phase = "quarks" /\ (Break(Refusal) \/ Twist)
    BY <1>7, Zenon DEF MakeFromQuark
  <2> QED BY <1>4, <1>5, <2>1
<1>8. CASE Combine
  <2>1. Break("freed field") \/ UNCHANGED twist
    BY <1>8, Zenon DEF Combine
  <2> QED BY <1>3, <1>5, <2>1
<1>9. CASE NextSet
  <2>1. twist' = [j \in Quarks |-> None] /\ Quarks' = Quarks
    BY <1>1, <1>9 DEF NextSet, Quarks
  <2> QED BY <2>1 DEF TwistInv
<1>10. CASE Solve \/ FreeProps \/ Meson \/ EndSet \/ UNCHANGED vars
  BY <1>3, <1>10 DEF Solve, FreeProps, Meson, EndSet, Break, vars
<1> QED BY <1>6, <1>7, <1>8, <1>9, <1>10 DEF Next

LEMMA TwistInit ==
  ASSUME Init PROVE TwistInv
BY DEF Init, TwistInv

LEMMA TwistsAsAncestor ==
  ASSUME InputOK, TwistInv PROVE TwistOfAncestor
<1> SUFFICES ASSUME NEW j \in Quarks, FromQuark(j), twist[j] # None,
                    Lineage[prop_for_qk(j)].steps <= MAX_HISTORY - 1
             PROVE  twist[j] = Lineage[prop_for_qk(j)].root
  BY DEF TwistOfAncestor, FromQuark
<1>1. prop_for_qk(j) \in Quarks
  BY Parent DEF FromQuark
<1> QED BY <1>1, EveOfQuark DEF TwistInv

\* A quark made from a quark uses links twisted by the momentum of the
\* propagator its ancestors go back to (momentum_twist_ape_links and get_eve
\* of clover_invert2), whatever is saved and whether the build is lean, however
\* many quarks there are, if that propagator is no more steps away than get_eve
\* takes.
THEOREM TwistsOfAncestors == Spec => []TwistOfAncestor
<1>1. Init => InputOK /\ FieldsInv /\ Types /\ BreaksOffOnly /\ TwistInv
  BY InputInit, FieldsInit, TwistInit
<1>2. InputOK /\ FieldsInv /\ Types /\ BreaksOffOnly /\ TwistInv /\ [Next]_vars
      => (InputOK /\ FieldsInv /\ Types /\ BreaksOffOnly /\ TwistInv)'
  BY InputKept, FieldsStep, TwistStep
<1>3. InputOK /\ TwistInv => TwistOfAncestor
  BY TwistsAsAncestor
<1> QED BY <1>1, <1>2, <1>3, PTL DEF Spec

LEMMA TypesOfAll ==
  ASSUME InputOK, Types, WrongInv, TwistInv PROVE TypeOK
<1>1. /\ param.num_qk \in Nat /\ param.num_qk > 0 /\ Len(param.pair) \in Nat
      /\ NumProp \in Nat /\ DOMAIN param.pair = 1 .. Len(param.pair)
  BY LifetimeAssumption DEF InputOK
<1>2. at \in Props \/ at \in Quarks \/ at \in DOMAIN param.pair \/ at \in {0, 1}
  BY DEF Types
<1>3. at \in 0 .. NumProp + param.num_qk + Len(param.pair)
  BY <1>1, <1>2 DEF Props, Quarks
<1>4. phase \in {"solve", "quarks", "free", "mesons", "end", "done"}
  BY DEF Types
<1>5. prop \in [Props -> {"none", "full", "freed"}]
      /\ quark \in [Quarks -> {"none", "full", "freed"}]
  BY DEF Types, States
<1>6. old \in [ip0 : Props \cup {None}, iq0 : Quarks \cup {None}, iq1 : Quarks \cup {None}]
      /\ stop \in {"no", "freed field", "cannot reread", "no such quark"}
  BY DEF Types, Olds
<1>7. twist \in [Quarks -> Props \cup Quarks \cup {None}] /\ wrong \subseteq Quarks
  BY DEF TwistInv, WrongInv
<1> QED BY <1>3, <1>4, <1>5, <1>6, <1>7, Zenon DEF TypeOK

\* Memory holds no propagator and no quark beyond the quark after its last use,
\* and of the fields in files a lean build holds but one clover propagator, two
\* quarks, which its old indices name, and those made just before a combination
\* (the end of the loop over quarks in clover_invert2/control.c, and what
\* CLOV_LEAN frees before an operator is applied), for any inputs.
THEOREM FewFieldsAreHeld == Spec => []HoldsFew
<1>1. Init => InputOK /\ FieldsInv /\ Types /\ BreaksOffOnly /\ WrongInv /\ TwistInv
  <2>1. Init => WrongInv
    BY DEF Init, WrongInv, WrongFromSource
  <2> QED BY <2>1, InputInit, FieldsInit, TwistInit
<1>2. InputOK /\ FieldsInv /\ Types /\ BreaksOffOnly /\ WrongInv /\ TwistInv /\ [Next]_vars
      => (InputOK /\ FieldsInv /\ Types /\ BreaksOffOnly /\ WrongInv /\ TwistInv)'
  BY InputKept, FieldsStep, WrongStep, TwistStep
<1>3. InputOK /\ FieldsInv /\ Types /\ WrongInv /\ TwistInv => HoldsFew
  BY TypesOfAll, FieldsFew DEF HoldsFew
<1> QED BY <1>1, <1>2, <1>3, PTL DEF Spec

=============================================================================
