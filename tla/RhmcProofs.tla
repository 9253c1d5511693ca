----------------------------- MODULE RhmcProofs -----------------------------
(***************************************************************************)
(* Theorems about the RHMC program, for every scheme, every file of        *)
(* rational functions and every number of steps, trajectories and input    *)
(* sets: the fermion links in use are those of the gauge field, the phases *)
(* are where the program believes them to be, and the program is a Markov  *)
(* chain of gauge configurations.                                          *)
(*                                                                         *)
(* The argument.  Between two actions of a running trajectory the phases   *)
(* are in, the flag says so, there is a links structure and what it holds  *)
(* was made from the field: "InOrder".  Taking the phases out and putting  *)
(* them back then changes nothing; moving the links empties the structure; *)
(* making the matrices unitary always comes after moving the links, when   *)
(* the structure is empty.                                                 *)
(***************************************************************************)
EXTENDS Rhmc, TLAPS

InOrder(mm) ==
  /\ mm.phases_in = ON /\ mm.signs = ON
  /\ mm.fn.state # "null"
  /\ LinksOfField(mm)

-----------------------------------------------------------------------------
\* With the phases out nothing but the phases differs, and putting them back
\* changes nothing.
LEMMA PhasesOut ==
  ASSUME NEW mm \in Machine, mm.stop = "no", InOrder(mm)
  PROVE  /\ rephase(mm, OFF) = [mm EXCEPT !.signs = OFF, !.phases_in = OFF]
         /\ rephase(rephase(mm, OFF), ON) = mm
<1> DEFINE out == [mm EXCEPT !.signs = OFF, !.phases_in = OFF]
<1>1. /\ mm.stop = "no" /\ mm.phases_in = ON /\ mm.signs = ON
      /\ 1 - mm.signs = OFF
  BY DEF InOrder, ON, OFF
<1>2. rephase(mm, OFF) = out
  BY <1>1 DEF rephase, ON, OFF
<1>3. /\ out.stop = "no" /\ out.phases_in = OFF /\ out.signs = OFF
      /\ 1 - out.signs = ON
  BY <1>1 DEF Machine, ON, OFF
<1>4. rephase(out, ON) = [out EXCEPT !.signs = ON, !.phases_in = ON]
  <2> HIDE DEF out
  <2> QED BY <1>3 DEF rephase, ON, OFF
<1>5. [out EXCEPT !.signs = ON, !.phases_in = ON] = mm
  BY <1>1 DEF Machine
<1> QED BY <1>2, <1>4, <1>5

\* So a computation between the two finds the field as it was.
LEMMA UnphasedSame ==
  ASSUME NEW mm \in Machine, mm.stop = "no", InOrder(mm)
  PROVE  Unphased(mm) = mm
  BY PhasesOut DEF Unphased

\* Restoring makes links of the field, where there are none.
LEMMA Restored ==
  ASSUME NEW mm \in Machine, mm.stop = "no", InOrder(mm)
  PROVE  LET r == restore_fermion_links_from_site(mm) IN
         /\ r \in Machine /\ InOrder(r)
         /\ r.stop = "no" /\ r.gauge = mm.gauge
         /\ r.fn.state = "valid" /\ r.fn.gauge = mm.gauge
<1>1. mm.fn \in LinkStates /\ mm.gauge \in Fields /\ mm.signs \in {OFF, ON}
  BY DEF Machine
<1>2. CASE mm.fn.state = "valid"
  BY <1>2 DEF restore_fermion_links_from_site, InOrder, LinksOfField
<1>3. CASE mm.fn.state # "valid"
  <2>1. restore_fermion_links_from_site(mm) = [mm EXCEPT !.fn = MadeFrom(mm)]
    BY <1>3 DEF restore_fermion_links_from_site, InOrder
  <2>2. MadeFrom(mm) \in LinkStates
    BY <1>1 DEF MadeFrom, LinkStates
  <2>3. [mm EXCEPT !.fn = MadeFrom(mm)] \in Machine
    BY <2>2 DEF Machine
  <2> QED BY <2>1, <2>3 DEF InOrder, LinksOfField, MadeFrom, Machine
<1> QED BY <1>2, <1>3

\* Moving the links empties the structure.
LEMMA Moved ==
  ASSUME NEW mm \in Machine, mm.stop = "no", InOrder(mm)
  PROVE  LET u == update_u(mm) IN
         /\ u \in Machine /\ InOrder(u) /\ u.stop = "no"
         /\ u.fn = Invalid
<1>1. invalidate_fermion_links(mm) = [mm EXCEPT !.fn = Invalid]
  BY DEF invalidate_fermion_links, InOrder
<1>2. [mm EXCEPT !.fn = Invalid] \in Machine
  BY DEF Machine, LinkStates
<1>3. FreshField(mm, FALSE) \in Fields
  BY DEF FreshField, Fields, Machine
<1>4. update_u(mm) = [mm EXCEPT !.fn = Invalid, !.gauge = FreshField(mm, FALSE)]
  BY <1>1 DEF update_u, SetLinks, Machine
<1>5. update_u(mm) \in Machine
  BY <1>2, <1>3, <1>4 DEF Machine
<1>6. /\ update_u(mm).fn = Invalid /\ update_u(mm).stop = mm.stop
      /\ update_u(mm).signs = mm.signs
      /\ update_u(mm).phases_in = mm.phases_in
  BY <1>4 DEF Machine
<1> QED BY <1>5, <1>6 DEF InOrder, LinksOfField, Invalid

\* Making the matrices unitary keeps an empty structure in order.
LEMMA Reunitarized ==
  ASSUME NEW mm \in Machine, mm.stop = "no", InOrder(mm), mm.fn = Invalid
  PROVE  LET r == reunitarize_ks(mm) IN
         /\ r \in Machine /\ InOrder(r) /\ r.stop = "no"
         /\ r.gauge.unitary = TRUE
<1>1. rephase(mm, OFF) = [mm EXCEPT !.signs = OFF, !.phases_in = OFF]
  BY PhasesOut
<1>2. FreshField(mm, TRUE) \in Fields /\ FreshField(mm, TRUE).unitary = TRUE
  BY DEF FreshField, Fields, Machine
<1>3. FreshField(rephase(mm, OFF), TRUE) = FreshField(mm, TRUE)
  BY <1>1 DEF FreshField, Machine
<1> DEFINE set == [mm EXCEPT !.signs = OFF, !.phases_in = OFF,
                               !.gauge = FreshField(mm, TRUE)]
<1>4. SetLinks(rephase(mm, OFF), FreshField(mm, TRUE)) = set
  BY <1>1 DEF SetLinks, Machine
<1>5. /\ set.stop = "no" /\ set.phases_in = OFF /\ set.signs = OFF
      /\ set.gauge = FreshField(mm, TRUE) /\ set.fn = Invalid
      /\ 1 - set.signs = ON
  BY DEF Machine, ON, OFF
<1>6. set \in Machine
  BY <1>2 DEF Machine
<1>7. reunitarize_ks(mm) = [set EXCEPT !.signs = ON, !.phases_in = ON]
  <2>1. reunitarize_ks(mm) = rephase(set, ON)
    BY <1>3, <1>4 DEF reunitarize_ks
  <2> HIDE DEF set
  <2> QED BY <2>1, <1>5 DEF rephase, ON, OFF
<1>8. /\ reunitarize_ks(mm) \in Machine
      /\ reunitarize_ks(mm).stop = "no" /\ reunitarize_ks(mm).fn = Invalid
      /\ reunitarize_ks(mm).signs = ON /\ reunitarize_ks(mm).phases_in = ON
      /\ reunitarize_ks(mm).gauge = FreshField(mm, TRUE)
  <2> HIDE DEF set
  <2> QED BY <1>5, <1>6, <1>7 DEF Machine
<1>9. InOrder(reunitarize_ks(mm))
  BY <1>8 DEF InOrder, LinksOfField, Invalid
<1> QED BY <1>2, <1>8, <1>9

\* The action is computed with links of the field, and changes nothing else.
LEMMA ActionTaken ==
  ASSUME NEW mm \in Machine, mm.stop = "no", InOrder(mm)
  PROVE  LET r == d_action_rhmc(mm) IN
         /\ r \in Machine /\ InOrder(r)
         /\ r.stop = "no" /\ r.gauge = mm.gauge
  BY UnphasedSame, Restored DEF d_action_rhmc

\* So is every update of the momenta.
LEMMA Kicked ==
  ASSUME NEW mm \in Machine, mm.stop = "no", InOrder(mm), NEW routine
  PROVE  LET r == KickMomenta(mm, routine) IN
         /\ r \in Machine /\ InOrder(r) /\ r.stop = "no"
<1>1. restore_fermion_links_from_site(mm) \in Machine
      /\ InOrder(restore_fermion_links_from_site(mm))
      /\ restore_fermion_links_from_site(mm).stop = "no"
  BY Restored
<1>2. Unphased(mm) = mm
  BY UnphasedSame
<1>3. LET i == invalidate_fermion_links(mm) IN
      /\ i \in Machine /\ i.stop = "no" /\ InOrder(i)
  BY DEF invalidate_fermion_links, Machine, LinkStates, InOrder, LinksOfField,
         Invalid
<1>4. LET r == update_h_fermion(imp_gauge_force_ks(invalidate_fermion_links(mm)))
      IN r \in Machine /\ InOrder(r) /\ r.stop = "no"
  BY <1>3, Restored, UnphasedSame DEF update_h_fermion, imp_gauge_force_ks
<1> QED BY <1>1, <1>2, <1>4
        DEF KickMomenta, update_h_fermion, imp_gauge_force_ks

\* A lattice is started, fresh or from one with the phases in: the field has its
\* phases in, and is the one that was asked for.
LEMMA PhasesPut ==
  ASSUME NEW mm \in Machine, mm.stop = "no", mm.signs = OFF, mm.phases_in = OFF
  PROVE  LET on == PutPhasesIn(mm) IN
         /\ on \in Machine /\ on.gauge = mm.gauge /\ on.stop = "no"
         /\ on.signs = ON /\ on.phases_in = ON
<1>1. [mm EXCEPT !.phases_in = OFF] = mm
  BY DEF Machine
<1>2. 1 - mm.signs = ON
  BY DEF ON, OFF
<1>3. PutPhasesIn(mm) = [mm EXCEPT !.signs = ON, !.phases_in = ON]
  <2>1. PutPhasesIn(mm) = rephase(mm, ON)
    BY <1>1 DEF PutPhasesIn
  <2>2. mm.phases_in # ON
    BY DEF ON, OFF
  <2> QED BY <2>1, <2>2, <1>2 DEF rephase
<1> QED BY <1>3 DEF Machine

LEMMA FreshStart ==
  ASSUME NEW mm \in Machine, mm.stop = "no", NEW g \in Fields
  PROVE  LET on == PutPhasesIn(ReloadLattice(mm, g)) IN
         /\ on \in Machine /\ on.gauge = g /\ on.stop = "no"
         /\ on.signs = ON /\ on.phases_in = ON
<1> DEFINE loaded == [mm EXCEPT !.gauge = g, !.signs = OFF, !.phases_in = OFF]
<1>1. PutPhasesIn(ReloadLattice(mm, g)) = PutPhasesIn(loaded)
  <2>1. [ReloadLattice(mm, g) EXCEPT !.phases_in = OFF] = loaded
    BY DEF ReloadLattice, SetLinks, Machine
  <2>2. [loaded EXCEPT !.phases_in = OFF] = loaded
    BY DEF Machine
  <2> HIDE DEF loaded
  <2> QED BY <2>1, <2>2 DEF PutPhasesIn
<1>2. /\ loaded.stop = "no" /\ loaded.phases_in = OFF /\ loaded.signs = OFF
      /\ loaded.gauge = g /\ loaded \in Machine
  BY DEF Machine
<1> HIDE DEF loaded
<1> QED BY <1>1, <1>2, PhasesPut

\* A lattice that is continued must have its phases in.
LEMMA ContinuedStart ==
  ASSUME NEW mm \in Machine, mm.stop = "no", FlagTrue(mm)
  PROVE  LET on == PutPhasesIn(rephase(mm, OFF)) IN
         /\ on \in Machine /\ on.gauge = mm.gauge
         /\ on.stop = "no" => on.signs = ON /\ on.phases_in = ON
         /\ on.stop \in {"no", "fouled up the phases"}
         /\ mm.phases_in = ON => on.stop = "no"
<1>1. CASE mm.phases_in = ON
  <2> DEFINE out == [mm EXCEPT !.signs = OFF, !.phases_in = OFF]
  <2>1. rephase(mm, OFF) = out
    <3>1. mm.signs = ON /\ 1 - mm.signs = OFF
      BY <1>1 DEF FlagTrue, ON, OFF
    <3> QED BY <1>1, <3>1 DEF rephase, ON, OFF
  <2>2. /\ out.stop = "no" /\ out.phases_in = OFF /\ out.gauge = mm.gauge
        /\ out.signs = OFF /\ out \in Machine
    BY DEF Machine
  <2> HIDE DEF out
  <2> QED BY <1>1, <2>1, <2>2, PhasesPut
<1>2. CASE mm.phases_in # ON
  <2> DEFINE bad == [mm EXCEPT !.stop = "fouled up the phases"]
  <2>1. mm.phases_in = OFF
    BY <1>2 DEF Machine
  <2>2. rephase(mm, OFF) = bad
    BY <2>1 DEF rephase, Terminate
  <2>3. /\ bad.stop = "fouled up the phases" /\ bad \in Machine
        /\ bad.gauge = mm.gauge
    BY DEF Machine, Stops
  <2>4. [bad EXCEPT !.phases_in = OFF] = bad
    BY <2>1 DEF Machine
  <2>5. PutPhasesIn(bad) = bad
    <3> HIDE DEF bad
    <3> QED BY <2>3, <2>4 DEF PutPhasesIn, rephase, Terminate
  <2> HIDE DEF bad
  <2> QED BY <1>2, <2>2, <2>3, <2>5
<1> QED BY <1>1, <1>2

-----------------------------------------------------------------------------
\* The inductive invariant.  Between sets of parameters there are no links; a
\* lattice that was worked on keeps its phases.  Outside a step of a trajectory
\* the matrices are unitary, and a trajectory of no steps leaves the field alone.
IInv ==
  /\ m \in Machine
  /\ int_alg \in INT_ALG /\ param \in Params \cup {NoParam} /\ sets \in Nat
  /\ step \in Nat /\ kick \in Nat \ {0}
  /\ stage \in {"readin", "control", "md", "measure"}
  /\ NeverFouled
  /\ Running => FlagTrue(m)
  /\ Running /\ stage # "readin" => InOrder(m)
  /\ Running /\ stage = "readin" =>
       m.fn = Null /\ (sets > 0 => m.phases_in = ON)
  /\ stage # "md" => m.gauge.unitary = TRUE
  /\ stage = "md" =>
       /\ old_link = chain /\ chain \in Fields /\ chain.unitary = TRUE
       /\ kick = 1 => m.gauge.unitary = TRUE
       /\ kick # 1 => step <= param.steps
       /\ param.steps = 0 => m.gauge = chain /\ kick = 1 /\ step > 0

\* A scheme counts its steps in ones, twos or sixes.
LEMMA SchemeCount == int_alg \in INT_ALG => Scheme.count \in Nat \ {0}
  BY RhmcAssumption DEF Scheme, LEAPFROG, OMELYAN, TwoG1F, ThreeG1F, FiveG1F,
                        SixG1F, TwoEps3To1

\* The invariant holds when the program has been set up.
LEMMA InitIInv == Init => IInv
<1> SUFFICES ASSUME Init PROVE IInv
  OBVIOUS
<1> DEFINE start == NoLattice([v |-> 0, unitary |-> TRUE])
<1>1. /\ start \in Machine /\ start.stop = "no" /\ start.fn = Null
      /\ start.signs = OFF /\ start.phases_in = OFF
      /\ start.gauge.unitary = TRUE
  BY DEF NoLattice, Machine, Fields, LinkStates, Stops
<1>2. m = start \/ m = Terminate(start, "setup")
  <2> HIDE DEF start
  <2> QED BY DEF Init, start
<1>3. /\ m \in Machine /\ m.fn = Null /\ m.signs = m.phases_in
      /\ m.gauge.unitary = TRUE /\ m.stop \in {"no", "setup"}
  <2> HIDE DEF start
  <2> QED BY <1>1, <1>2 DEF Machine, Stops, Terminate
<1>4. /\ stage = "readin" /\ param = NoParam /\ sets = 0 /\ step = 0 /\ kick = 1
      /\ int_alg \in INT_ALG
  BY DEF Init
<1>5. 0 \in Nat /\ 1 \in Nat \ {0} /\ ~(sets > 0)
  BY <1>4
<1> QED BY <1>3, <1>4, <1>5 DEF IInv, NeverFouled, Running, FlagTrue

\* The parameters are numbers.
LEMMA ParamSteps == param \in Params \cup {NoParam} => param.steps \in Nat
  BY RhmcAssumption DEF NoParam

\* A new field of unitary matrices.
LEMMA Fresh ==
  ASSUME NEW mm \in Machine, NEW u \in BOOLEAN
  PROVE  FreshField(mm, u) \in Fields /\ FreshField(mm, u).unitary = u
  BY DEF FreshField, Fields, Machine

LEMMA ReadInIInv == IInv /\ ReadIn => IInv'
<1> SUFFICES ASSUME IInv, ReadIn PROVE IInv'
  OBVIOUS
<1>1. /\ m \in Machine /\ m.stop = "no" /\ FlagTrue(m) /\ m.fn = Null
      /\ m.gauge.unitary = TRUE /\ (sets > 0 => m.phases_in = ON)
      /\ sets \in Nat
  BY DEF IInv, ReadIn, Running
<1>2. PICK p \in Params, fresh \in BOOLEAN :
        /\ param' = p
        /\ \/ m' = Terminate(m, "epsilon table full")
           \/ m' = create_fermion_links_from_site(
                     StartLattice(m, fresh, FreshField(m, TRUE)))
  BY DEF ReadIn
<1> DEFINE on == StartLattice(m, fresh, FreshField(m, TRUE))
<1>3. /\ on \in Machine /\ on.gauge.unitary = TRUE
      /\ on.stop = "no" => on.signs = ON /\ on.phases_in = ON
      /\ on.stop \in {"no", "fouled up the phases"}
      /\ on.stop # "no" => sets = 0
  <2>1. FreshField(m, TRUE) \in Fields /\ FreshField(m, TRUE).unitary = TRUE
    BY <1>1, Fresh
  <2>2. /\ on \in Machine
        /\ on.gauge = IF fresh THEN FreshField(m, TRUE) ELSE m.gauge
        /\ on.stop = "no" => on.signs = ON /\ on.phases_in = ON
        /\ on.stop \in {"no", "fouled up the phases"}
        /\ m.phases_in = ON => on.stop = "no"
    <3>1. CASE fresh
      <4>1. on = PutPhasesIn(ReloadLattice(m, FreshField(m, TRUE)))
        BY <3>1 DEF StartLattice
      <4> HIDE DEF on
      <4> QED BY <1>1, <2>1, <3>1, <4>1, FreshStart
    <3>2. CASE ~fresh
      <4>1. on = PutPhasesIn(rephase(m, OFF))
        BY <3>2 DEF StartLattice
      <4> HIDE DEF on
      <4> QED BY <1>1, <3>2, <4>1, ContinuedStart
    <3> QED BY <3>1, <3>2
  <2>3. sets = 0 \/ sets > 0
    BY <1>1
  <2> HIDE DEF on
  <2> QED BY <1>1, <2>1, <2>2, <2>3
<1> HIDE DEF on
<1>4. /\ m' \in Machine /\ m'.gauge.unitary = TRUE
      /\ m'.stop = "no" => InOrder(m')
      /\ m'.stop \in {"no", "fouled up the phases", "epsilon table full"}
      /\ m'.stop = "fouled up the phases" => sets = 0
  <2>1. CASE m' = Terminate(m, "epsilon table full")
    BY <1>1, <2>1 DEF Terminate, Machine, Stops
  <2>2. CASE m' = create_fermion_links_from_site(on) /\ on.stop = "no"
    <3>1. m' = [on EXCEPT !.fn = MadeFrom(on)]
      BY <1>3, <2>2 DEF create_fermion_links_from_site
    <3>2. MadeFrom(on) \in LinkStates /\ MadeFrom(on).state = "valid"
          /\ MadeFrom(on).gauge = on.gauge /\ MadeFrom(on).signs = on.signs
      BY <1>3 DEF MadeFrom, LinkStates, Machine
    <3>3. /\ m' \in Machine /\ m'.gauge = on.gauge /\ m'.stop = "no"
          /\ m'.signs = ON /\ m'.phases_in = ON /\ m'.fn = MadeFrom(on)
      BY <1>3, <2>2, <3>1, <3>2 DEF Machine
    <3>4. InOrder(m')
      BY <1>3, <2>2, <3>2, <3>3 DEF InOrder, LinksOfField
    <3> QED BY <1>3, <3>3, <3>4
  <2>3. CASE m' = create_fermion_links_from_site(on) /\ on.stop # "no"
    <3>1. m' = on
      BY <2>3 DEF create_fermion_links_from_site, Terminate
    <3> QED BY <1>3, <2>3, <3>1
  <2> QED BY <1>2, <2>1, <2>2, <2>3 DEF on
<1>5. /\ stage' = "control" /\ sets' = sets + 1 /\ param' \in Params
      /\ UNCHANGED <<int_alg, step, kick>>
  BY <1>2 DEF ReadIn, setupVars
<1>6. sets' \in Nat /\ (sets = 0 => sets' = 1)
  BY <1>1, <1>5
<1> QED BY <1>4, <1>5, <1>6 DEF IInv, NeverFouled, Running, InOrder, FlagTrue

LEMMA BeginTrajectoryIInv == IInv /\ BeginTrajectory => IInv'
<1> SUFFICES ASSUME IInv, BeginTrajectory PROVE IInv'
  OBVIOUS
<1>1. /\ m \in Machine /\ m.stop = "no" /\ InOrder(m) /\ m.gauge.unitary = TRUE
      /\ m.gauge \in Fields
  BY DEF IInv, BeginTrajectory, Running, Machine
<1>2. /\ m' \in Machine /\ m'.gauge = m.gauge
      /\ m'.stop = "no" => InOrder(m')
      /\ m'.stop \in {"no", "integration scheme", "n_pseudo_naik overrun"}
  <2>1. CASE m' = d_action_rhmc(restore_fermion_links_from_site(m))
    BY <1>1, <2>1, Restored, ActionTaken
  <2>2. CASE m' = Terminate(m, "integration scheme")
    BY <1>1, <2>2 DEF Terminate, Machine, Stops
  <2>3. CASE m' = Terminate(m, "n_pseudo_naik overrun")
    BY <1>1, <2>3 DEF Terminate, Machine, Stops
  <2> QED BY <2>1, <2>2, <2>3 DEF BeginTrajectory
<1>3. /\ stage' = "md" /\ step' = Scheme.count /\ kick' = 1
      /\ chain' = m.gauge /\ old_link' = m.gauge
      /\ UNCHANGED <<int_alg, param, sets>>
  BY DEF BeginTrajectory, setupVars
<1>4. Scheme.count \in Nat /\ Scheme.count > 0
  BY SchemeCount DEF IInv
<1>5. kick' \in Nat \ {0} /\ step' \in Nat /\ step' > 0
  BY <1>3, <1>4
<1> QED BY <1>1, <1>2, <1>3, <1>5
        DEF IInv, NeverFouled, Running, InOrder, FlagTrue

\* In the middle of a step there are steps to do.
LEMMA KickIInv == IInv /\ Kick => IInv'
<1> SUFFICES ASSUME IInv, Kick PROVE IInv'
  OBVIOUS
<1>1. /\ m \in Machine /\ m.stop = "no" /\ InOrder(m)
  BY DEF IInv, Kick, Running
<1>2. m' \in Machine /\ InOrder(m') /\ m'.stop = "no"
  <2>1. m' = KickMomenta(update_u(m), Scheme.body[kick].routine)
    BY DEF Kick
  <2> QED BY <1>1, <2>1, Moved, Kicked
<1>3. /\ stage = "md" /\ stage' = "md" /\ kick' = kick + 1
      /\ step <= param.steps
      /\ UNCHANGED <<int_alg, param, sets, step, chain, old_link>>
  BY DEF Kick, setupVars
<1>4. kick' \in Nat \ {0} /\ kick' # 1
  BY <1>3 DEF IInv
<1>5. param.steps \in Nat /\ step \in Nat
  BY ParamSteps DEF IInv
<1>6. param.steps # 0
  BY <1>3, <1>5 DEF IInv
<1> QED BY <1>2, <1>3, <1>4, <1>6
        DEF IInv, NeverFouled, Running, InOrder, FlagTrue

LEMMA EndStepIInv == IInv /\ EndStep => IInv'
<1> SUFFICES ASSUME IInv, EndStep PROVE IInv'
  OBVIOUS
<1>1. /\ m \in Machine /\ m.stop = "no" /\ InOrder(m)
  BY DEF IInv, EndStep, Running
<1> DEFINE done == reunitarize_ks(update_u(m))
<1>2. /\ done \in Machine /\ InOrder(done) /\ done.stop = "no"
      /\ done.gauge.unitary = TRUE
  BY <1>1, Moved, Reunitarized
<1>3. m' = done \/ m' = d_action_rhmc(done)
  BY DEF EndStep
<1> HIDE DEF done
<1>4. /\ m' \in Machine /\ InOrder(m') /\ m'.stop = "no"
      /\ m'.gauge.unitary = TRUE
  BY <1>2, <1>3, ActionTaken
<1>5. /\ stage = "md" /\ stage' = "md" /\ kick' = 1
      /\ step' = step + Scheme.count /\ step <= param.steps
      /\ UNCHANGED <<int_alg, param, sets, chain, old_link>>
  BY DEF EndStep, setupVars
<1>6. step' \in Nat /\ kick' \in Nat \ {0}
  BY <1>5, SchemeCount DEF IInv
<1>7. param.steps # 0
  BY <1>5, ParamSteps DEF IInv
<1> QED BY <1>4, <1>5, <1>6, <1>7
        DEF IInv, NeverFouled, Running, InOrder, FlagTrue

\* Refusing gives back the field the trajectory set out from.
LEMMA RefusedField ==
  ASSUME NEW mm \in Machine, mm.stop = "no", InOrder(mm),
         old_link \in Fields, param.steps \in Nat
  PROVE  LET r == Refused(mm) IN
         /\ r \in Machine /\ InOrder(r) /\ r.stop = "no"
         /\ r.gauge = IF param.steps > 0 THEN old_link ELSE mm.gauge
<1> DEFINE back == IF param.steps > 0 THEN SetLinks(mm, old_link) ELSE mm
<1>1. /\ back \in Machine /\ back.stop = "no" /\ back.fn = mm.fn
      /\ back.signs = ON /\ back.phases_in = ON
      /\ back.gauge = IF param.steps > 0 THEN old_link ELSE mm.gauge
  BY DEF SetLinks, Machine, InOrder
<1>2. Refused(mm) = invalidate_fermion_links(back)
  BY DEF Refused
<1> HIDE DEF back
<1>3. Refused(mm) = [back EXCEPT !.fn = Invalid]
  BY <1>1, <1>2 DEF invalidate_fermion_links, InOrder
<1>4. /\ Refused(mm) \in Machine /\ Refused(mm).stop = "no"
      /\ Refused(mm).fn = Invalid /\ Refused(mm).signs = ON
      /\ Refused(mm).phases_in = ON /\ Refused(mm).gauge = back.gauge
  BY <1>1, <1>3 DEF Machine, LinkStates
<1> QED BY <1>1, <1>4 DEF InOrder, LinksOfField, Invalid

\* What the end of a trajectory leaves.
LEMMA TrajectoryEnds ==
  ASSUME IInv, EndTrajectory
  PROVE  /\ m' \in Machine /\ InOrder(m') /\ m'.stop = "no"
         /\ m'.gauge.unitary = TRUE
         /\ verdict' = "accepted"
            \/ (HMC /\ verdict' = "refused" /\ m'.gauge = chain)
<1>1. /\ m \in Machine /\ m.stop = "no" /\ InOrder(m) /\ stage = "md"
      /\ step > param.steps
  BY DEF IInv, EndTrajectory, Running
<1>2. param.steps \in Nat /\ step \in Nat
  BY ParamSteps DEF IInv
<1>3. /\ old_link = chain /\ chain \in Fields /\ chain.unitary = TRUE
      /\ kick = 1 /\ m.gauge.unitary = TRUE
      /\ (param.steps = 0 => m.gauge = chain)
  BY <1>1, <1>2 DEF IInv
<1> DEFINE taken == d_action_rhmc(m)
<1>4. /\ taken \in Machine /\ InOrder(taken) /\ taken.stop = "no"
      /\ taken.gauge = m.gauge
  BY <1>1, ActionTaken
<1>5. \/ m' = taken /\ verdict' = "accepted"
      \/ MayRefuse /\ m' = Refused(taken) /\ verdict' = "refused"
  BY DEF EndTrajectory
<1> HIDE DEF taken
<1>6. CASE m' = taken /\ verdict' = "accepted"
  BY <1>3, <1>4, <1>6
<1>7. CASE MayRefuse /\ m' = Refused(taken) /\ verdict' = "refused"
  <2>1. /\ m' \in Machine /\ InOrder(m') /\ m'.stop = "no"
        /\ m'.gauge = IF param.steps > 0 THEN old_link ELSE taken.gauge
    BY <1>2, <1>3, <1>4, <1>7, RefusedField
  <2>2. m'.gauge = chain
    BY <1>2, <1>3, <1>4, <2>1
  <2> QED BY <1>3, <1>7, <2>1, <2>2 DEF MayRefuse
<1> QED BY <1>5, <1>6, <1>7

LEMMA EndTrajectoryIInv == IInv /\ EndTrajectory => IInv'
<1> SUFFICES ASSUME IInv, EndTrajectory PROVE IInv'
  OBVIOUS
<1>1. /\ m' \in Machine /\ InOrder(m') /\ m'.stop = "no"
      /\ m'.gauge.unitary = TRUE
  BY TrajectoryEnds
<1>2. /\ stage' \in {"control", "measure"}
      /\ UNCHANGED <<int_alg, param, sets, step, kick>>
  BY DEF EndTrajectory, setupVars
<1> QED BY <1>1, <1>2 DEF IInv, NeverFouled, Running, InOrder, FlagTrue

\* A measurement: the phases are out for the gauge observables, and the links of
\* the field are there for the fermion ones.
LEMMA Measured ==
  ASSUME IInv, Measure
  PROVE  /\ m' \in Machine /\ InOrder(m') /\ m'.stop = "no"
         /\ m'.gauge = m.gauge
         /\ m.gauge.unitary = TRUE
         /\ seen' = {[gauge |-> m.gauge, phases |-> FALSE, links |-> m.gauge]}
<1>1. /\ m \in Machine /\ m.stop = "no" /\ InOrder(m) /\ m.gauge.unitary = TRUE
  BY DEF IInv, Measure, Running
<1> DEFINE off == rephase(m, OFF)
           on == restore_fermion_links_from_site(rephase(off, ON))
<1>2. rephase(off, ON) = m
  BY <1>1, PhasesOut
<1>3. /\ on \in Machine /\ InOrder(on) /\ on.stop = "no" /\ on.gauge = m.gauge
      /\ on.fn.gauge = m.gauge
  <2>1. on = restore_fermion_links_from_site(m)
    BY <1>2
  <2> HIDE DEF on
  <2> QED BY <1>1, <2>1, Restored
<1>4. off.gauge = m.gauge /\ off.signs # ON
  <2>1. off = [m EXCEPT !.signs = OFF, !.phases_in = OFF]
    BY <1>1, PhasesOut
  <2> HIDE DEF off
  <2> QED BY <1>1, <2>1 DEF Machine, ON, OFF
<1>5. /\ m' = on
      /\ seen' = IF on.stop # "no" THEN seen
                 ELSE {[gauge |-> off.gauge, phases |-> off.signs = ON,
                        links |-> on.fn.gauge]}
  BY DEF Measure
<1> HIDE DEF off, on
<1> QED BY <1>1, <1>3, <1>4, <1>5

LEMMA MeasureIInv == IInv /\ Measure => IInv'
<1> SUFFICES ASSUME IInv, Measure PROVE IInv'
  OBVIOUS
<1>1. /\ m' \in Machine /\ InOrder(m') /\ m'.stop = "no"
      /\ m'.gauge.unitary = TRUE
  BY Measured
<1>2. /\ stage' = "control"
      /\ UNCHANGED <<int_alg, param, sets, step, kick>>
  BY DEF Measure, setupVars
<1> QED BY <1>1, <1>2 DEF IInv, NeverFouled, Running, InOrder, FlagTrue

\* The end of an input set: what is saved, and no links left.
LEMMA SetEnded ==
  ASSUME IInv, EndSet
  PROVE  /\ m' \in Machine /\ m'.stop = "no" /\ m'.fn = Null
         /\ m'.signs = ON /\ m'.phases_in = ON
         /\ m'.gauge = m.gauge /\ m.gauge.unitary = TRUE
         /\ seen' = IF param.save
                    THEN {[gauge |-> m.gauge, phases |-> FALSE,
                           links |-> m.gauge]}
                    ELSE seen
<1>1. /\ m \in Machine /\ m.stop = "no" /\ InOrder(m) /\ m.gauge.unitary = TRUE
  BY DEF IInv, EndSet, Running
<1> DEFINE off == rephase(m, OFF)
           saved == IF param.save THEN rephase(off, ON) ELSE m
<1>2. saved = m
  BY <1>1, PhasesOut
<1>3. off.gauge = m.gauge /\ off.signs # ON
  <2>1. off = [m EXCEPT !.signs = OFF, !.phases_in = OFF]
    BY <1>1, PhasesOut
  <2> HIDE DEF off
  <2> QED BY <1>1, <2>1 DEF Machine, ON, OFF
<1>4. /\ m' = destroy_fermion_links(saved)
      /\ seen' = IF param.save /\ saved.stop = "no"
                 THEN {[gauge |-> off.gauge, phases |-> off.signs = ON,
                        links |-> off.gauge]}
                 ELSE seen
  BY DEF EndSet
<1>5. m' = [m EXCEPT !.fn = Null]
  <2> HIDE DEF saved
  <2> QED BY <1>1, <1>2, <1>4 DEF destroy_fermion_links
<1>6. /\ m' \in Machine /\ m'.stop = "no" /\ m'.fn = Null
      /\ m'.signs = ON /\ m'.phases_in = ON /\ m'.gauge = m.gauge
  BY <1>1, <1>5 DEF Machine, LinkStates, InOrder
<1> HIDE DEF off, saved
<1> QED BY <1>1, <1>2, <1>3, <1>4, <1>6

LEMMA EndSetIInv == IInv /\ EndSet => IInv'
<1> SUFFICES ASSUME IInv, EndSet PROVE IInv'
  OBVIOUS
<1>1. /\ m' \in Machine /\ m'.stop = "no" /\ m'.fn = Null
      /\ m'.signs = ON /\ m'.phases_in = ON /\ m'.gauge.unitary = TRUE
  BY SetEnded
<1>2. /\ stage' = "readin"
      /\ UNCHANGED <<int_alg, param, sets, step, kick>>
  BY DEF EndSet, setupVars
<1> QED BY <1>1, <1>2 DEF IInv, NeverFouled, Running, FlagTrue

\* Every step keeps the invariant.
LEMMA StepIInv == IInv /\ [Next]_vars => IInv'
<1>1. ASSUME IInv, UNCHANGED vars PROVE IInv'
  BY <1>1 DEF vars, program, setupVars, history, IInv, NeverFouled, Running,
              FlagTrue
<1> QED BY <1>1, ReadInIInv, BeginTrajectoryIInv, KickIInv, EndStepIInv,
           EndTrajectoryIInv, MeasureIInv, EndSetIInv DEF Next

LEMMA Invariance == Spec => []IInv
  BY InitIInv, StepIInv, PTL DEF Spec

-----------------------------------------------------------------------------
\* The links that restore_fermion_links_from_site takes to be valid are those of
\* the gauge field as it is, whatever the scheme, the number of trajectories and
\* the order of measurements, refusals and input sets.
THEOREM RhmcLinksCurrent == Spec => []LinksCurrent
<1>1. IInv => LinksCurrent
  BY DEF IInv, LinksCurrent, Running, InOrder, LinksOfField, Null
<1> QED BY <1>1, Invariance, PTL

\* phases_in tells the truth, and the phases are in while the program works.
THEOREM RhmcPhasesRight == Spec => []PhasesRight
<1>1. IInv => PhasesRight
  BY DEF IInv, PhasesRight, Running, InOrder
<1> QED BY <1>1, Invariance, PTL

\* The bookkeeping of phases never stops the program, but for an input that
\* continues a lattice before there is one.
THEOREM RhmcNeverFouled == Spec => []NeverFouled
<1>1. IInv => NeverFouled
  BY DEF IInv
<1> QED BY <1>1, Invariance, PTL

\* Both, for every scheme, rational function, input and number of trajectories:
\* phases_in can be trusted wherever it is read.
THEOREM RhmcPhasesKept == Spec => []PhasesKept
<1>1. PhasesRight /\ NeverFouled => PhasesKept
  BY DEF PhasesKept
<1> QED BY <1>1, RhmcPhasesRight, RhmcNeverFouled, PTL

\* The program is a Markov chain of gauge configurations: every action starts,
\* accepts or refuses a trajectory, reads or observes a configuration, or leaves
\* the chain alone.
THEOREM RhmcIsMarkovChain == Spec => RefinesMarkovChain
<1> DEFINE Unitary == [v : Nat, unitary : {TRUE}]
           cfg == IF stage = "md" THEN chain ELSE m.gauge
<1>1. \A f \in Fields : f.unitary = TRUE => f \in Unitary
  BY DEF Fields
<1>2. Init => Chain!Init
  <2> SUFFICES ASSUME Init PROVE Chain!Init
    OBVIOUS
  <2>1. m.gauge \in Unitary
    BY <1>1, InitIInv DEF IInv, Init, Machine
  <2> QED BY <2>1 DEF Init, Chain!Init
<1>3. IInv /\ [Next]_vars => [Chain!Next]_Chain!chainVars
  <2> SUFFICES ASSUME IInv, [Next]_vars PROVE [Chain!Next]_Chain!chainVars
    OBVIOUS
  <2>1. CASE ReadIn
    <3>1. m' \in Machine /\ stage' # "md" /\ m'.gauge.unitary = TRUE
      BY <2>1, ReadInIInv DEF IInv, ReadIn
    <3>2. m'.gauge \in Unitary /\ stage # "md" /\ seen' = seen /\ verdict' = verdict
      BY <1>1, <2>1, <3>1 DEF ReadIn, history, Machine
    <3> QED BY <3>1, <3>2 DEF Chain!Next, Chain!Load
  <2>2. CASE BeginTrajectory
    BY <2>2 DEF BeginTrajectory, Chain!Next, Chain!Begin
  <2>3. CASE Kick
    BY <2>3 DEF Kick, Chain!chainVars
  <2>4. CASE EndStep
    BY <2>4 DEF EndStep, Chain!chainVars
  <2>5. CASE EndTrajectory
    <3>1. /\ m' \in Machine /\ m'.gauge.unitary = TRUE
          /\ verdict' = "accepted"
             \/ (HMC /\ verdict' = "refused" /\ m'.gauge = chain)
      BY <2>5, TrajectoryEnds
    <3>2. m'.gauge \in Unitary
      BY <1>1, <3>1 DEF Machine
    <3>3. /\ stage = "md" /\ stage' # "md" /\ seen' = seen
      BY <2>5 DEF EndTrajectory, history
    <3>4. Chain!Accept \/ Chain!Refuse
      BY <3>1, <3>2, <3>3 DEF Chain!Accept, Chain!Refuse
    <3> QED BY <3>4 DEF Chain!Next
  <2>6. CASE Measure
    <3>1. /\ m'.gauge = m.gauge
          /\ seen' = {[gauge |-> m.gauge, phases |-> FALSE, links |-> m.gauge]}
      BY <2>6, Measured
    <3>2. stage = "measure" /\ stage' = "control" /\ verdict' = verdict
      BY <2>6 DEF Measure
    <3>3. Chain!Observe
      BY <3>1, <3>2 DEF Chain!Observe
    <3> QED BY <3>3 DEF Chain!Next
  <2>7. CASE EndSet
    <3>1. /\ m'.gauge = m.gauge
          /\ seen' = IF param.save
                     THEN {[gauge |-> m.gauge, phases |-> FALSE,
                            links |-> m.gauge]}
                     ELSE seen
      BY <2>7, SetEnded
    <3>2. stage = "control" /\ stage' = "readin" /\ verdict' = verdict
      BY <2>7 DEF EndSet
    <3>3. CASE param.save
      BY <3>1, <3>2, <3>3 DEF Chain!Next, Chain!Observe
    <3>4. CASE ~param.save
      BY <3>1, <3>2, <3>4 DEF Chain!chainVars
    <3> QED BY <3>3, <3>4
  <2>8. CASE UNCHANGED vars
    BY <2>8 DEF vars, program, history, Chain!chainVars
  <2> QED BY <2>1, <2>2, <2>3, <2>4, <2>5, <2>6, <2>7, <2>8 DEF Next
<1> QED BY <1>2, <1>3, Invariance, PTL DEF Spec, Chain!Spec, RefinesMarkovChain
=============================================================================
