--------------------------- MODULE QuarkLifetimes ---------------------------
(***************************************************************************)
(* Which propagators and quarks clover_invert2 holds in memory while it    *)
(* works through an input set (clover_invert2/control.c and setup.c).      *)
(*                                                                         *)
(* Propagators are solved first.  Then quarks are made one after another,  *)
(* each by an operator from a propagator or from an earlier quark, or as a *)
(* combination of earlier quarks, and at last pairs of quarks are tied     *)
(* into mesons.  A field nothing later depends on is freed as quarks are   *)
(* made.  Built with CLOV_LEAN, the program also frees fields that are     *)
(* saved in files, and reads them again when it needs them.                *)
(***************************************************************************)
EXTENDS Integers, FiniteSets, Sequences

CONSTANTS
  NumProp,     \* num_prop
  Builds,      \* what programs are tried on: records of lean (built with
               \* CLOV_LEAN?), prop_type ("clover", "ifla", "ks" or "ks4" for
               \* each propagator), num_qk, and what the inputs may have for the
               \* parents of all quarks, for the pairs, and for the way a quark
               \* is saved
  MAX_HISTORY  \* one more than the steps get_eve takes

Props  == 0 .. NumProp - 1
None   == 0 - 1

\* the parents quark j may name, as parent_type and the indices that follow
\* it; a combination names one or two quarks
Parents(j) ==
  {[type |-> "prop", of |-> <<i>>] : i \in Props}
  \cup {[type |-> "quark", of |-> <<i>>] : i \in 0 .. j - 1}
  \cup {[type |-> "combo", of |-> s] :
          s \in [1 .. 1 -> 0 .. j - 1] \cup [1 .. 2 -> 0 .. j - 1]}

ASSUME LifetimeAssumption ==
  /\ NumProp \in Nat \ {0} /\ MAX_HISTORY \in Nat \ {0, 1}
  /\ \A b \in Builds :
       /\ b.lean \in BOOLEAN /\ b.num_qk \in Nat \ {0}
       /\ b.prop_type \in [Props -> {"clover", "ifla", "ks", "ks4"}]
       /\ \A f \in b.parents : \A j \in 0 .. b.num_qk - 1 : f[j] \in Parents(j)
       /\ b.pairs \subseteq Seq((0 .. b.num_qk - 1) \X (0 .. b.num_qk - 1))
       /\ b.saves \subseteq {"forget", "propagator", "source"}

VARIABLES
  Lean,    \* built with CLOV_LEAN?
  param,   \* the input: types of propagators, quarks with their parents, pairs,
           \* what is saved
  phase,   \* "solve", "quarks", "free", "mesons", "end" or "done"
  at,      \* the propagator, quark or pair the loop has come to
  prop,    \* prop[i]: not made (a null pointer), "full", or "freed"
  quark,   \* quark[j], likewise
  old,     \* oldip0, oldiq0 and oldiq1 of CLOV_LEAN
  twist,   \* the propagator whose momentum twisted the links for each quark
  wrong,   \* the quarks that are not what the input asks for
  stop     \* how the program broke off: "no", or why

input == <<Lean, param>>
vars == <<input, phase, at, prop, quark, old, twist, wrong, stop>>

-----------------------------------------------------------------------------
(* The input                                                               *)

Quarks == 0 .. param.num_qk - 1

Inputs(b) ==
  {p \in [num_qk : {b.num_qk}, prop_type : {b.prop_type},
          parent : b.parents, pair : b.pairs,
          wsave  : [Props -> BOOLEAN],                     \* saveflag_w # FORGET
          qsave  : [0 .. b.num_qk - 1 -> b.saves]] :       \* saveflag_q, savetype_q
     \* for these saveflag_ks is asked instead
     \A i \in Props : p.wsave[i] => b.prop_type[i] # "ks"}

\* prop_for_qk; for a combination the first quark of it ("Provisional: For
\* constructing the ancestry for the correlator file")
prop_for_qk(j) == param.parent[j].of[1]

IsParent(i, j, types) ==
  /\ param.parent[j].type \in types
  /\ \E n \in DOMAIN param.parent[j].of : param.parent[j].of[n] = i

Paired(i) == \E n \in DOMAIN param.pair : i \in {param.pair[n][1], param.pair[n][2]}

\* the last of a set of indices in the order of the input, 0 if there is none
Last(S) == IF S = {} THEN 0 ELSE CHOOSE j \in S : \A l \in S : l <= j

\* prop_dep_qkno: the last quark made from propagator i
prop_dep_qkno(i) == Last({j \in Quarks : IsParent(i, j, {"prop"})})

quark_dep_qknoFirst(i) ==    \* variant: pairs do not count
  Last({j \in Quarks : IsParent(i, j, {"quark", "combo"})})

\* quark_dep_qkno: the last quark made from quark i, num_qk if it is paired
quark_dep_qkno(i) ==
  IF Paired(i) THEN param.num_qk
  ELSE Last({j \in Quarks : IsParent(i, j, {"quark", "combo"})})

-----------------------------------------------------------------------------
(* Fields in memory                                                        *)

\* free_wp_field of the fields in S
Free(m, S) == [i \in DOMAIN m |-> IF i \in S /\ m[i] = "full" THEN "freed" ELSE m[i]]

\* saved by dump_wprop_from_wp_field, in one of its two formats
QSaved(i) == param.qsave[i] # "forget"

\* the propagator in an old index that CLOV_LEAN frees: a saved clover one
SavedOldProp(ip) ==
  {i \in Props \cap {ip} : param.prop_type[i] = "clover" /\ param.wsave[i]}

\* the quark in an old index that CLOV_LEAN frees: a saved one
SavedOldQuark(iq) == {i \in Quarks \cap {iq} : QSaved(i)}

\* does the program go on to use a field?  If it was freed, CLOV_LEAN calls
\* reread_wprop_to_wp_field, which terminates if the field was not saved.
GoesOn(state, saved) == state = "full" \/ (Lean /\ state = "freed" /\ saved)
Refusal == IF Lean THEN "cannot reread" ELSE "freed field"

\* of the quarks S to be used, those read again from a file in source format:
\* r_open_wprop knows files of propagators only, so that the field stays as it
\* was allocated, and the status reload_wprop_to_wp_field returns is dropped
Unread(q, S) == {i \in S : q[i] = "freed" /\ param.qsave[i] = "source"}

UnneededQuarksIfSaved(j) ==    \* variant: only those in files are freed
  {i \in Quarks : i < j /\ quark_dep_qkno(i) < j /\ QSaved(i)}

\* after quark j: the propagators and earlier quarks nothing later needs
UnneededProps(j)  == {i \in Props : prop_dep_qkno(i) < j}
UnneededQuarks(j) == {i \in Quarks : i < j /\ quark_dep_qkno(i) < j}

\* get_eve: the propagator at the root of the ancestors of quark j, looked for
\* in n steps; if they are too few, the quark the walk has come to
get_eve[n \in 1 .. MAX_HISTORY - 1] ==
  [j \in Quarks |-> IF param.parent[j].type = "prop" \/ n = 1 THEN prop_for_qk(j)
                    ELSE get_eve[n - 1][prop_for_qk(j)]]

TwistOfShorterWalk(i) ==   \* variant: i < MAX_HISTORY-2
  IF i \in Quarks THEN {get_eve[MAX_HISTORY - 2][i]} ELSE Props

\* the propagator whose momentum momentum_twist_ape_links(i, +1) takes.  It is
\* given what prop_for_qk holds and looks that up as a quark; beyond the quarks
\* of the input it finds what an earlier input left in param.
TwistOf(i) == IF i \in Quarks THEN {get_eve[MAX_HISTORY - 1][i]} ELSE Props

-----------------------------------------------------------------------------
Init ==
  /\ \E b \in Builds : Lean = b.lean /\ param \in Inputs(b)
  /\ phase = "solve" /\ at = 0
  /\ prop = [i \in Props |-> "none"] /\ quark = [j \in Quarks |-> "none"]
  /\ old = [ip0 |-> None, iq0 |-> None, iq1 |-> None]
  /\ twist = [j \in Quarks |-> None] /\ wrong = {}
  /\ stop = "no"

\* solve propagator at; CLOV_LEAN frees a saved clover one at once
Solve ==
  /\ stop = "no" /\ phase = "solve"
  /\ prop' = [prop EXCEPT ![at] =
        IF Lean /\ param.prop_type[at] \in {"clover", "ifla"} /\ param.wsave[at]
        THEN "freed" ELSE "full"]
  /\ IF at = NumProp - 1 THEN phase' = "quarks" /\ at' = 0
                         ELSE phase' = phase /\ at' = at + 1
  /\ UNCHANGED <<input, quark, old, twist, wrong, stop>>

Break(why) ==
  stop' = why /\ UNCHANGED <<input, phase, at, prop, quark, old, twist, wrong>>

\* momentum_twist_ape_links around the operator that makes quark at
Twist == \E e \in TwistOf(prop_for_qk(at)) : twist' = [twist EXCEPT ![at] = e]

\* the end of an iteration: free what nothing later depends on; m and q are the
\* fields in memory, quark at among them, and o the old indices
Release(m, q, o) ==
  /\ prop'  = Free(m, UnneededProps(at))
  /\ quark' = Free(q, UnneededQuarks(at))
  /\ old'   = IF Lean THEN [o EXCEPT !.iq1 = at] ELSE o
  /\ IF at = param.num_qk - 1 THEN phase' = "free" /\ at' = 0
                       ELSE phase' = phase /\ at' = at + 1
  /\ UNCHANGED <<input, stop>>

\* quark at from propagator i
MakeFromProp ==
  /\ stop = "no" /\ phase = "quarks" /\ param.parent[at].type = "prop"
  /\ LET i == prop_for_qk(at)
         m == IF Lean /\ old.ip0 # i THEN Free(prop, SavedOldProp(old.ip0)) ELSE prop
         q == IF Lean
              THEN Free(quark, SavedOldQuark(old.iq0) \cup SavedOldQuark(old.iq1))
              ELSE quark
         o == IF Lean THEN [old EXCEPT !.ip0 = i, !.iq0 = None] ELSE old
     IN IF GoesOn(m[i], param.wsave[i])
        THEN /\ Release([m EXCEPT ![i] = "full"], [q EXCEPT ![at] = "full"], o)
             /\ Twist /\ UNCHANGED wrong
        ELSE Break(Refusal)

\* quark at from quark i
MakeFromQuark ==
  /\ stop = "no" /\ phase = "quarks" /\ param.parent[at].type = "quark"
  /\ LET i == prop_for_qk(at)
         m == IF Lean THEN Free(prop, SavedOldProp(old.ip0)) ELSE prop
         q == IF Lean
              THEN Free(quark, (SavedOldQuark(old.iq0) \cup SavedOldQuark(old.iq1)) \ {i})
              ELSE quark
         o == IF Lean THEN [old EXCEPT !.ip0 = None, !.iq0 = i] ELSE old
         w == wrong \cup Unread(q, {i})
     IN IF GoesOn(q[i], QSaved(i))
        THEN /\ Release(m, [q EXCEPT ![i] = "full", ![at] = "full"], o)
             /\ Twist
             /\ wrong' = IF i \in w THEN w \cup {at} ELSE w
        ELSE Break(Refusal)

\* quark at as a combination: its quarks are read as they are
Combine ==
  /\ stop = "no" /\ phase = "quarks" /\ param.parent[at].type = "combo"
  /\ LET of == param.parent[at].of
     IN IF \A n \in DOMAIN of : quark[of[n]] = "full"
        THEN /\ Release(prop, [quark EXCEPT ![at] = "full"], old)
             /\ wrong' = wrong \cup {j \in {at} : \E n \in DOMAIN of : of[n] \in wrong}
             /\ UNCHANGED twist
        ELSE Break("freed field")

\* after the loop: CLOV_LEAN frees what the old indices name, then all
\* propagators are destroyed
FreeProps ==
  /\ stop = "no" /\ phase = "free"
  /\ prop'  = [i \in Props |-> "none"]
  /\ quark' = IF Lean
              THEN Free(quark, SavedOldQuark(old.iq0) \cup SavedOldQuark(old.iq1))
              ELSE quark
  /\ phase' = IF param.pair = <<>> THEN "end" ELSE "mesons"
  /\ at' = 1
  /\ UNCHANGED <<input, old, twist, wrong, stop>>

\* tie the quarks of pair at, which CLOV_LEAN reads again if they were freed
Meson ==
  /\ stop = "no" /\ phase = "mesons"
  /\ LET iq == {param.pair[at][1], param.pair[at][2]}
         q  == IF Lean /\ at > 1
               THEN Free(quark, (SavedOldQuark(old.iq0) \cup SavedOldQuark(old.iq1)) \ iq)
               ELSE quark
     IN IF \A i \in iq : GoesOn(q[i], QSaved(i))
        THEN
           /\ wrong' = wrong \cup Unread(q, iq)
           /\ quark' = [i \in Quarks |-> IF i \in iq THEN "full" ELSE q[i]]
           /\ old' = IF Lean
                     THEN [old EXCEPT !.iq0 = param.pair[at][1], !.iq1 = param.pair[at][2]]
                     ELSE old
           /\ IF at = Len(param.pair) THEN phase' = "end" /\ at' = 1
                                      ELSE phase' = phase /\ at' = at + 1
           /\ UNCHANGED <<input, prop, twist, stop>>
        ELSE Break(Refusal)

\* the end of the set: CLOV_LEAN looks at quark[oldiq0] and quark[oldiq1]
\* without asking whether they are indices, then all quarks are destroyed
EndSet ==
  /\ stop = "no" /\ phase = "end"
  /\ IF Lean /\ None \in {old.iq0, old.iq1}
     THEN Break("no such quark")
     ELSE
        /\ quark' = [j \in Quarks |-> "none"]
        /\ phase' = "done" /\ at' = 0
        /\ UNCHANGED <<input, prop, old, twist, wrong, stop>>

\* the next input set: main loops over readin.  The memory it starts from is
\* that of Init, where every input is tried.
NextSet ==
  /\ stop = "no" /\ phase = "done"
  /\ phase' = "solve"
  /\ old' = [ip0 |-> None, iq0 |-> None, iq1 |-> None]
  /\ twist' = [j \in Quarks |-> None] /\ wrong' = {}
  /\ UNCHANGED <<input, at, prop, quark, stop>>

Next ==
  \/ Solve \/ MakeFromProp \/ MakeFromQuark \/ Combine
  \/ FreeProps \/ Meson \/ EndSet \/ NextSet

Spec == Init /\ [][Next]_vars
-----------------------------------------------------------------------------
(* Properties                                                              *)

TypeOK ==
  /\ phase \in {"solve", "quarks", "free", "mesons", "end", "done"}
  /\ at \in 0 .. NumProp + param.num_qk + Len(param.pair)
  /\ prop \in [Props -> {"none", "full", "freed"}]
  /\ quark \in [Quarks -> {"none", "full", "freed"}]
  /\ old \in [ip0 : Props \cup {None}, iq0 : Quarks \cup {None}, iq1 : Quarks \cup {None}]
  /\ twist \in [Quarks -> Props \cup Quarks \cup {None}]
  /\ wrong \subseteq Quarks
  /\ stop \in {"no", "freed field", "cannot reread", "no such quark"}

\* No quark is made from a field that was freed, no field that was not saved is
\* asked for again, and no index is used that is none.
NeverBreaks == stop = "no"

\* Where the program breaks off is in a lean build only: at a combination that
\* names a quark saved and freed, and at the end of a set without pairs.
BreaksOffOnly ==
  stop # "no" =>
    /\ Lean
    /\ \/ /\ stop = "freed field" /\ phase = "quarks" /\ param.parent[at].type = "combo"
          /\ \E i \in Quarks : /\ IsParent(i, at, {"combo"})
                               /\ quark[i] = "freed" /\ QSaved(i)
       \/ stop = "no such quark" /\ phase = "end" /\ param.pair = <<>>

\* What a quark or a pair still to come needs is in memory or, with CLOV_LEAN,
\* in a file: this is what the dependencies of setup.c are for.
NeededIsKept ==
  /\ phase = "quarks" =>
       /\ \A i \in Props, j \in at .. param.num_qk - 1 :
            IsParent(i, j, {"prop"}) => prop[i] = "full" \/ (Lean /\ param.wsave[i])
       /\ \A i \in 0 .. at - 1, j \in at .. param.num_qk - 1 :
            IsParent(i, j, {"quark", "combo"}) =>
              quark[i] = "full" \/ (Lean /\ QSaved(i))
  /\ phase \in {"quarks", "free", "mesons"} =>
       \A i \in Quarks : Paired(i) /\ quark[i] = "freed" => Lean /\ QSaved(i)

\* A quark is not what it should be only in a lean build, if it is itself saved
\* in source format or made from a quark that is wrong.
WrongFromSource ==
  \A i \in wrong : /\ Lean
                   /\ \/ param.qsave[i] = "source"
                      \/ \E l \in wrong : IsParent(l, i, {"quark", "combo"})

\* What the saving and reading again of quarks is for: "Create a
\* wilson_prop_field and restore it from a dump file", in either format.
RereadIsRestored == wrong = {}

\* "If nothing later depends on a prop or quark, free it up": while quark at is
\* made, memory holds only propagators that the quark before it or a later one
\* is made from, and earlier quarks that these or a pair need.
NoLongerThanNeeded ==
  phase = "quarks" /\ at > 1 =>
    /\ \A i \in Props :
         prop[i] = "full" => \E j \in at - 1 .. param.num_qk - 1 : IsParent(i, j, {"prop"})
    /\ \A i \in 0 .. at - 2 :
         quark[i] = "full" =>
           Paired(i) \/ \E j \in at - 1 .. param.num_qk - 1 : IsParent(i, j, {"quark", "combo"})

\* oldiq1 names the quark made last; a combination sets it as any quark does, but
\* frees nothing before, so that the quark made before it is no longer named.
LostToCombination(i) == i + 1 \in Quarks /\ param.parent[i + 1].type = "combo"

\* CLOV_LEAN saves memory: of the fields saved in files it holds at most one
\* clover propagator and two quarks, those its old indices name, so that it
\* will find them to free, and what was made just before a combination.
LeanHoldsFew ==
  Lean =>
    /\ phase = "quarks" =>
         \A i \in Props : prop[i] = "full" /\ param.prop_type[i] = "clover" /\ param.wsave[i]
                          => i = old.ip0
    /\ phase \in {"quarks", "free", "mesons", "end"} =>
         \A i \in Quarks : quark[i] = "full" /\ QSaved(i)
                           => i \in {old.iq0, old.iq1} \/ LostToCombination(i)

\* The propagator at the root of the ancestors of quark j, and how many steps it
\* is away.
Lineage[j \in Quarks] ==
  IF param.parent[j].type = "prop" THEN [root |-> prop_for_qk(j), steps |-> 1]
  ELSE [root  |-> Lineage[prop_for_qk(j)].root,
        steps |-> Lineage[prop_for_qk(j)].steps + 1]

\* A quark made from a quark uses links twisted by the momentum of the
\* propagator its ancestors go back to, if it is no more steps away than get_eve
\* takes.
TwistOfAncestor ==
  \A j \in Quarks :
    /\ param.parent[j].type = "quark" /\ twist[j] # None
    /\ Lineage[prop_for_qk(j)].steps <= MAX_HISTORY - 1
    => twist[j] = Lineage[prop_for_qk(j)].root

\* "Chase linked list to find the original propagator ancestor", however many
\* steps it is away.
TwistOfFarAncestor ==
  \A j \in Quarks :
    param.parent[j].type = "quark" /\ twist[j] # None
    => twist[j] = Lineage[prop_for_qk(j)].root

\* "Use the momentum twist of the parent propagator", for a quark made from one.
TwistOfParent ==
  \A j \in Quarks :
    param.parent[j].type = "prop" /\ twist[j] # None => twist[j] = prop_for_qk(j)

\* Nothing is freed before its last use by a quark or pair, unless it was saved;
\* the program breaks off at the two places named, and uses a wrong quark only
\* if one was saved in source format.
NeededKept == BreaksOffOnly /\ NeededIsKept /\ WrongFromSource

\* Nothing outlives its last use by more than one quark, and a lean build holds
\* but the fields it is working on and those it lost to a combination.
HoldsFew == TypeOK /\ NoLongerThanNeeded /\ LeanHoldsFew

=============================================================================
