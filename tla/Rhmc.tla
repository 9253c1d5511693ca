-------------------------------- MODULE Rhmc --------------------------------
(***************************************************************************)
(* The rational hybrid Monte Carlo program (ks_imp_rhmc/control.c,         *)
(* setup.c, update_rhmc.c, update_u.c, update_h_rhmc.c, d_action_rhmc.c):  *)
(* sets of input parameters, each a number of trajectories with            *)
(* measurements in between; a trajectory alternates updates of the links   *)
(* ("drifts") and of the momenta ("kicks") following one of seven          *)
(* integration schemes, and with -DHMC is refused by a Metropolis test.    *)
(*                                                                         *)
(* Every action does all that the code does between two points where the   *)
(* links change hands: one drift with the kick after it is one action.     *)
(* Numbers are left out but for the times: what is computed, and of which  *)
(* field, is what the properties are about.                                *)
(***************************************************************************)
EXTENDS FermionLinks, Integers, Sequences, FiniteSetsExt

CONSTANTS
  INT_ALG,        \* the integration schemes the program is compiled for
  HMC,            \* compile-time switch
  FermionActions, \* values of the compile-time switch HISQ
  RatFuncs,       \* what a file of rational functions may hold: sequences of
                  \* [eps, MD, FA, GR], one for each pseudofermion field
  Params,         \* what a set of input parameters may ask for: records
                  \* [steps, warms, trajecs, propinterval, pbp, save], pbp the
                  \* number of Naik epsilons the table does not have yet
  MAX_N_PSEUDO,   \* the length of n_pseudo_naik
  MAX_NAIK,       \* the length of the table of epsilons
  MaxSets         \* bound: input sets

ASSUME RhmcAssumption ==
  /\ INT_ALG \subseteq {"LEAPFROG", "OMELYAN", "2G1F", "3G1F", "5G1F", "6G1F",
                        "2EPS_3TO1"}
  /\ HMC \in BOOLEAN /\ FermionActions \subseteq BOOLEAN
  /\ Params \subseteq [steps : Nat, warms : Nat, trajecs : Nat,
                       propinterval : Nat \ {0}, pbp : Nat, save : BOOLEAN]
  /\ MaxSets \in Nat

VARIABLES
  m,          \* the gauge field, its phases, the fermion links
  int_alg,    \* the integration scheme of this program
  HISQ,       \* is it built for the HISQ action, with Naik epsilons?
  rparam,     \* the rational functions read at setup
  n_naiks,    \* entries of the table of epsilons
  stage,      \* "readin", "control", "md" (in update()), or "measure"
  param,      \* the parameters of this input set
  traj_done,  \* trajectories done in this input set
  step,       \* the loop variable of the integrator
  kick,       \* which drift and kick of the loop body is next
  old_link,   \* the copy of the links a refused trajectory goes back to
  sets,       \* input sets read
  \* kept to state the properties:
  chain,      \* the field the trajectory set out from
  drift,      \* the time the links were moved by in this trajectory
  kicks,      \* the kicks of this trajectory: <<time, routine, length>>
  verdict,    \* of the last Metropolis test: "accepted" or "refused"
  seen        \* what was measured or saved last

setupVars == <<int_alg, HISQ, rparam>>
program == <<m, setupVars, n_naiks, stage, param, traj_done, step, kick,
             old_link, sets>>
history == <<chain, drift, kicks, verdict, seen>>
vars == <<program, history>>

-----------------------------------------------------------------------------
\* The schemes.  A step epsilon is 300 units of time, so that the constants of
\* the code are whole numbers: alpha = beta = 0.1, lambda = 0.8.
epsilon == 300
alpha == 30
beta == 30
lambda == 240

\* update_u(u), and then one of the routines that change the momenta
K(u, routine, e) == [u |-> u, routine |-> routine, e |-> e]
H(u) == K(u, "update_h_rhmc", epsilon)
G(u, part) == K(u, "update_h_gauge", epsilon \div part)
F(u) == K(u, "update_h_fermion", epsilon)

\* The body of the loop over steps: drifts with kicks, a last drift, and how
\* many steps the body counts for.  The lengths are written as in the code.
LEAPFROG == [body |-> <<H(epsilon \div 2)>>, last |-> epsilon \div 2, count |-> 1]

\* variant: the last drift of a step joined to the first of the next
OMELYANMerged ==
  [body |-> <<H(lambda), H(2 * epsilon - lambda)>>, last |-> 0, count |-> 2]

OMELYAN == [body |-> <<H(lambda \div 2), H(2 * epsilon - lambda)>>,
            last |-> lambda \div 2, count |-> 2]

TwoG1F ==
  LET a == alpha \div 2  q == epsilon \div 4  h == epsilon \div 2 IN
  [body |-> <<G(q - a, 2),
              F((h - beta) - (q - a)),
              G((3 * q + a) - (h - beta), 2),
              G((5 * q - a) - (3 * q + a), 2),
              F((3 * h + beta) - (5 * q - a)),
              G((7 * q + a) - (3 * h + beta), 2)>>,
   last |-> 2 * epsilon - (7 * q + a), count |-> 2]

ThreeG1F ==
  LET a == alpha \div 3  s == epsilon \div 6  h == epsilon \div 2 IN
  [body |-> <<G(s - a, 3),
              F((h - beta) - (s - a)),
              G((3 * s + a) - (h - beta), 3),
              G((5 * s - a) - (3 * s + a), 3),
              G((7 * s + a) - (5 * s - a), 3),
              G((9 * s - a) - (7 * s + a), 3),
              F((3 * h + beta) - (9 * s - a)),
              G((11 * s + a) - (3 * h + beta), 3)>>,
   last |-> 2 * epsilon - (11 * s + a), count |-> 2]

FiveG1F ==
  LET a == alpha \div 5  t == epsilon \div 10  h == epsilon \div 2 IN
  [body |-> <<G(t - a, 5),
              G((3 * t + a) - (t - a), 5),
              F((h - beta) - (3 * t + a)),
              G((5 * t - a) - (h - beta), 5),
              G((7 * t + a) - (5 * t - a), 5),
              G((9 * t - a) - (7 * t + a), 5),
              G((11 * t + a) - (9 * t - a), 5),
              G((13 * t - a) - (11 * t + a), 5),
              G((15 * t + a) - (13 * t - a), 5),
              F((3 * h + beta) - (15 * t + a)),
              G((17 * t - a) - (3 * h + beta), 5),
              G((19 * t + a) - (17 * t - a), 5)>>,
   last |-> 2 * epsilon - (19 * t + a), count |-> 2]

SixG1F ==
  LET a == alpha \div 6  w == epsilon \div 12  h == epsilon \div 2 IN
  [body |-> <<G(w - a, 6),
              G((3 * w + a) - (w - a), 6),
              G((5 * w - a) - (3 * w + a), 6),
              F((h - beta) - (5 * w - a)),
              G((7 * w + a) - (h - beta), 6),
              G((9 * w - a) - (7 * w + a), 6),
              G((11 * w + a) - (9 * w - a), 6),
              G((13 * w - a) - (11 * w + a), 6),
              G((15 * w + a) - (13 * w - a), 6),
              G((17 * w - a) - (15 * w + a), 6),
              F((3 * h + beta) - (17 * w - a)),
              G((19 * w + a) - (3 * h + beta), 6),
              G((21 * w - a) - (19 * w + a), 6),
              G((23 * w + a) - (21 * w - a), 6)>>,
   last |-> 2 * epsilon - (23 * w + a), count |-> 2]

\* The gauge field and factor 1 in three Omelyan steps, factor 0 in one leapfrog
\* step three times as long; two drifts meet between the Omelyan steps.
GF1(u) == K(u, "gauge and factor 1", epsilon)
F0(u) == K(u, "factor 0", 3 * epsilon)
TwoEps3To1 ==
  LET l == lambda \div 2  d == (epsilon - lambda) \div 2 IN
  [body |-> <<GF1(l), F0(epsilon + d), GF1(d), K(l, "none", 0),
              GF1(l), GF1(2 * epsilon - lambda), K(l, "none", 0),
              GF1(l), F0(d), GF1(epsilon + d)>>,
   last |-> l, count |-> 6]

Scheme ==
  CASE int_alg = "LEAPFROG" -> LEAPFROG
    [] int_alg = "OMELYAN" -> OMELYAN
    [] int_alg = "2G1F" -> TwoG1F
    [] int_alg = "3G1F" -> ThreeG1F
    [] int_alg = "5G1F" -> FiveG1F
    [] int_alg = "6G1F" -> SixG1F
    [] int_alg = "2EPS_3TO1" -> TwoEps3To1

-----------------------------------------------------------------------------
\* The pseudofermion fields.
n_pseudo == Len(rparam)
Phi == 1..n_pseudo

max_rat_order ==
  Max({0} \cup UNION {{rparam[i].MD, rparam[i].FA, rparam[i].GR} : i \in Phi})

\* variant: compares with the first field
StartsGroupFromFirst(rp, i) == i > 1 /\ rp[i].eps # rp[1].eps

\* initial_set() groups the fields by runs of equal epsilon: a field starts a
\* new group when its epsilon differs from the one before it.
StartsGroup(rp, i) == i > 1 /\ rp[i].eps # rp[i - 1].eps
GroupOf(rp, i) == Cardinality({j \in 1..i : StartsGroup(rp, j)})
Groups(rp) == 1 + Cardinality({j \in DOMAIN rp : StartsGroup(rp, j)})
n_pseudo_naik(k) == Cardinality({i \in Phi : GroupOf(rparam, i) = k})
eps_naik(k) == rparam[Min({i \in Phi : GroupOf(rparam, i) = k})].eps
n_order_naik_total == MapThenSumSet(LAMBDA i : rparam[i].MD, Phi)

\* The loops over inaik and jphi, with iphi counting on.  The number of groups
\* is that of the fermion links, which have the measurements' epsilons too.
n == IF HISQ THEN n_naiks ELSE 1
PseudoBefore(k) == MapThenSumSet(LAMBDA j : n_pseudo_naik(j), 0..(k - 1))
Visits ==
  {v \in Phi \X (0..(n - 1)) :
     PseudoBefore(v[2]) < v[1] /\ v[1] <= PseudoBefore(v[2] + 1)}
TableOverrun == n > MAX_N_PSEUDO

\* How many vectors of multi_x a routine fills.
MultiXOf(routine) ==
  CASE routine \in {"update_h_rhmc", "update_h_fermion"} ->
         MapThenSumSet(LAMBDA i : rparam[i].MD, {v[1] : v \in Visits})
    [] routine = "gauge and factor 1" -> rparam[2].MD
    [] routine = "factor 0" -> rparam[1].MD
    [] routine = "grsource" -> Max({rparam[v[1]].GR : v \in Visits})
    [] routine = "action" -> Max({rparam[v[1]].FA : v \in Visits})
    [] OTHER -> 0

n_multi_x ==
  IF int_alg = "2EPS_3TO1" THEN max_rat_order
  ELSE Max({max_rat_order, n_order_naik_total})

-----------------------------------------------------------------------------
\* What the routines do to the field and the links.
FreshField(mm, unitary) == [v |-> mm.gauge.v + 1, unitary |-> unitary]

update_uKept(mm) == SetLinks(mm, FreshField(mm, FALSE))   \* variant: links stay

update_u(mm) ==
  SetLinks(invalidate_fermion_links(mm), FreshField(mm, FALSE))

\* rephase(OFF); reunitarize_cpu(); rephase(ON)
reunitarize_ks(mm) ==
  LET off == rephase(mm, OFF) IN
  rephase(SetLinks(off, FreshField(off, TRUE)), ON)

imp_gauge_force_ks(mm) == Unphased(mm)
update_h_fermion(mm) == restore_fermion_links_from_site(mm)
d_action_rhmc(mm) == restore_fermion_links_from_site(Unphased(mm))

KickMomenta(mm, routine) ==
  CASE routine = "update_h_rhmc" ->
         update_h_fermion(imp_gauge_force_ks(invalidate_fermion_links(mm)))
    [] routine = "update_h_gauge" -> imp_gauge_force_ks(mm)
    [] routine \in {"update_h_fermion", "factor 0"} -> update_h_fermion(mm)
    [] routine = "gauge and factor 1" -> update_h_fermion(imp_gauge_force_ks(mm))
    [] OTHER -> mm

-----------------------------------------------------------------------------
Running == m.stop = "no"
NoParam == [steps |-> 0, warms |-> 0, trajecs |-> 0, propinterval |-> 1,
            pbp |-> 0, save |-> FALSE]

\* setup(): the rational functions are read, the pseudofermions grouped.
Init ==
  /\ int_alg \in INT_ALG /\ HISQ \in FermionActions /\ rparam \in RatFuncs
  /\ n_naiks = Groups(rparam)
  /\ m = LET start == NoLattice([v |-> 0, unitary |-> TRUE]) IN
         IF \/ HISQ /\ eps_naik(0) # 0
            \/ HISQ /\ n_naiks + 1 > MAX_NAIK
            \/ ~HISQ /\ n_naiks > 1
         THEN Terminate(start, "setup") ELSE start
  /\ stage = "readin" /\ param = NoParam /\ sets = 0
  /\ traj_done = 0 /\ step = 0 /\ kick = 1
  /\ old_link = m.gauge /\ chain = m.gauge
  /\ drift = 0 /\ kicks = {} /\ verdict = "accepted" /\ seen = {}

\* readin(): the table of epsilons grows by those of the measurements, the
\* lattice is read or continued, the links are made.
ReadIn ==
  /\ Running /\ stage = "readin" /\ sets < MaxSets
  /\ \E p \in Params, fresh \in BOOLEAN :
       LET grown == IF HISQ THEN n_naiks + p.pbp ELSE n_naiks
           on == StartLattice(m, fresh, FreshField(m, TRUE))
       IN /\ param' = p
          /\ n_naiks' = Min({grown, MAX_NAIK})
          /\ m' = IF grown > MAX_NAIK THEN Terminate(m, "epsilon table full")
                  ELSE create_fermion_links_from_site(on)
  /\ stage' = "control" /\ sets' = sets + 1 /\ traj_done' = 0
  /\ UNCHANGED <<setupVars, step, kick, old_link, history>>

\* The head of update(): the scheme's demands, momenta and pseudofermions, the
\* action at the start, the copy of the links, and into the first step.
SchemeRefused ==
  \/ Scheme.count > 1 /\ param.steps % Scheme.count # 0
  \/ int_alg = "2EPS_3TO1" /\ (n_pseudo # 2 \/ HISQ)

BeginTrajectory ==
  /\ Running /\ stage = "control"
  /\ traj_done < param.warms + param.trajecs
  /\ m' = IF SchemeRefused THEN Terminate(m, "integration scheme")
          ELSE IF TableOverrun THEN Terminate(m, "n_pseudo_naik overrun")
          ELSE d_action_rhmc(restore_fermion_links_from_site(m))
  /\ old_link' = m.gauge
  /\ stage' = "md" /\ step' = Scheme.count /\ kick' = 1
  /\ chain' = m.gauge /\ drift' = 0 /\ kicks' = {}
  /\ UNCHANGED <<setupVars, n_naiks, param, traj_done, sets, verdict, seen>>

\* One update of the links and one of the momenta.
Kick ==
  /\ Running /\ stage = "md"
  /\ step <= param.steps /\ kick <= Len(Scheme.body)
  /\ LET k == Scheme.body[kick] IN
       /\ m' = KickMomenta(update_u(m), k.routine)
       /\ drift' = drift + k.u
       /\ kicks' = IF k.routine = "none" THEN kicks
                   ELSE kicks \cup {<<drift + k.u, k.routine, k.e>>}
  /\ kick' = kick + 1
  /\ UNCHANGED <<setupVars, n_naiks, stage, param, traj_done, step, old_link, sets,
                 chain, verdict, seen>>

\* The last update of the links of a step, and the matrices made unitary; the
\* leapfrog scheme looks at the action every fourth step.
EndStep ==
  /\ Running /\ stage = "md"
  /\ step <= param.steps /\ kick = Len(Scheme.body) + 1
  /\ LET done == reunitarize_ks(update_u(m)) IN
       m' = IF int_alg = "LEAPFROG" /\ step % 4 = 0
            THEN d_action_rhmc(done) ELSE done
  /\ drift' = drift + Scheme.last
  /\ step' = step + Scheme.count /\ kick' = 1
  /\ UNCHANGED <<setupVars, n_naiks, stage, param, traj_done, old_link, sets, chain,
                 kicks, verdict, seen>>

\* The Metropolis test, with the action at the end.  A refused field is
\* overwritten, if there were any steps, and its links are given up.
MayRefuse == HMC

RefusedKept(mm) == invalidate_fermion_links(mm)   \* variant: no copy back

Refused(mm) ==
  invalidate_fermion_links(
    IF param.steps > 0 THEN SetLinks(mm, old_link) ELSE mm)

EndTrajectory ==
  /\ Running /\ stage = "md" /\ step > param.steps
  /\ \/ m' = d_action_rhmc(m) /\ verdict' = "accepted"
     \/ /\ MayRefuse /\ verdict' = "refused"
        /\ m' = Refused(d_action_rhmc(m))
  /\ stage' = IF traj_done >= param.warms
                /\ (traj_done - param.warms) % param.propinterval
                     = param.propinterval - 1
             THEN "measure" ELSE "control"
  /\ traj_done' = traj_done + 1
  /\ UNCHANGED <<setupVars, n_naiks, param, step, kick, old_link, sets, chain, drift,
                 kicks, seen>>

\* rephase(OFF); g_measure(); rephase(ON), then the chiral condensate.
Measure ==
  /\ Running /\ stage = "measure"
  /\ LET off == rephase(m, OFF)
         on == restore_fermion_links_from_site(rephase(off, ON))
     IN /\ m' = on
        /\ seen' = IF on.stop # "no" THEN seen
                   ELSE {[gauge |-> off.gauge, phases |-> off.signs = ON,
                          links |-> on.fn.gauge]}
  /\ stage' = "control"
  /\ UNCHANGED <<setupVars, n_naiks, param, traj_done, step, kick, old_link, sets,
                 chain, drift, kicks, verdict>>

\* After the last trajectory: rephase(OFF); save_lattice(); rephase(ON), the
\* links destroyed, and on to the next set of parameters.
EndSet ==
  /\ Running /\ stage = "control"
  /\ traj_done = param.warms + param.trajecs
  /\ LET off == rephase(m, OFF)
         saved == IF param.save THEN rephase(off, ON) ELSE m
     IN /\ m' = destroy_fermion_links(saved)
        /\ seen' = IF param.save /\ saved.stop = "no"
                   THEN {[gauge |-> off.gauge, phases |-> off.signs = ON,
                          links |-> off.gauge]}   \* a file holds no links
                   ELSE seen
  /\ stage' = "readin"
  /\ UNCHANGED <<setupVars, n_naiks, param, traj_done, step, kick, old_link, sets,
                 chain, drift, kicks, verdict>>

Next == \/ ReadIn \/ BeginTrajectory \/ Kick \/ EndStep \/ EndTrajectory
        \/ Measure \/ EndSet
Spec == Init /\ [][Next]_vars

-----------------------------------------------------------------------------
Fields == [v : Nat, unitary : BOOLEAN]
Stops == {"no", "setup", "fouled up the phases", "needs phases in",
          "integration scheme", "epsilon table full", "n_pseudo_naik overrun"}
LinkStates == {Null, Invalid}
  \cup [state : {"valid"}, gauge : Fields, signs : {OFF, ON}]

Machine == [gauge : Fields, signs : {OFF, ON}, phases_in : {OFF, ON},
            fn : LinkStates, stop : Stops]

TypeOK ==
  /\ m \in Machine
  /\ int_alg \in INT_ALG /\ HISQ \in FermionActions
  /\ rparam \in RatFuncs /\ n_naiks \in Nat
  /\ stage \in {"readin", "control", "md", "measure"}
  /\ param \in Params \cup {NoParam}
  /\ traj_done \in Nat /\ step \in Nat /\ kick \in Nat /\ sets \in Nat
  /\ verdict \in {"accepted", "refused"}
  /\ old_link \in Fields /\ chain \in Fields /\ drift \in Int
  /\ seen \subseteq [gauge : Fields, phases : BOOLEAN, links : Fields]

\* Links that are taken to be valid were computed from the gauge field as it is
\* now, with the phases in: nothing in a trajectory, in a refusal, in a
\* measurement or between two sets of parameters changes the field and leaves
\* old links for restore_fermion_links_from_site to accept.
LinksCurrent == Running => LinksOfField(m)

\* phases_in tells whether the phases are in the links, and while a set of
\* parameters is worked on they are in.
PhasesRight == Running => FlagTrue(m) /\ (stage # "readin" => m.phases_in = ON)

\* The program is never stopped by its own bookkeeping of phases ("you fouled up
\* the phases", "BOTCH: needs phases in"), but for an input that continues a
\* lattice before there is one.
NeverFouled ==
  m.stop \in {"fouled up the phases", "needs phases in"} => sets = 1

\* At the end of a trajectory the links and each part of the momenta, that of the
\* gauge action and of every pseudofermion field, were moved over the same time:
\* the steps asked for.
TermsOf(routine) ==    \* 0 is the gauge action, i the i-th pseudofermion
  CASE routine = "update_h_rhmc" -> {0} \cup {v[1] : v \in Visits}
    [] routine = "update_h_gauge" -> {0}
    [] routine = "update_h_fermion" -> {v[1] : v \in Visits}
    [] routine = "gauge and factor 1" -> {0, 2}
    [] routine = "factor 0" -> {1}
    [] OTHER -> {}
TimeOf(term) ==
  MapThenSumSet(LAMBDA k : IF term \in TermsOf(k[2]) THEN k[3] ELSE 0, kicks)
AtEnd == Running /\ stage = "md" /\ step > param.steps
SameTime ==
  AtEnd => /\ drift = param.steps * epsilon
           /\ \A term \in {0} \cup Phi : TimeOf(term) = param.steps * epsilon

\* A trajectory is reversible: run backwards from its end it has the same kicks
\* at the same times, which is what the Metropolis test rests on.
Reversible ==
  AtEnd => \A k \in kicks : <<drift - k[1], k[2], k[3]>> \in kicks

\* The vectors a routine fills fit the array multi_x that update() allocated,
\* and the fermion force gets as many as it was told to expect.
MultiXFits ==
  Running /\ stage = "md" =>
    /\ \A r \in {"grsource", "action"} \cup {Scheme.body[i].routine :
                                             i \in 1..Len(Scheme.body)} :
         MultiXOf(r) <= n_multi_x
    /\ MultiXOf("update_h_fermion") = n_order_naik_total

\* Every pseudofermion field is visited once, with the links of its own epsilon.
EveryFactor ==
  Running /\ stage = "md" =>
    \A i \in Phi : \E k \in 0..(n - 1) :
      /\ {v \in Visits : v[1] = i} = {<<i, k>>}
      /\ eps_naik(k) = rparam[i].eps

\* The program is a Markov chain of gauge configurations: what it measures and
\* saves is the current configuration, and its links; a refused trajectory
\* leaves the configuration it started from.
Chain == INSTANCE MarkovChain WITH
  Field <- [v : Nat, unitary : {TRUE}],
  Metropolis <- HMC,
  config <- IF stage = "md" THEN chain ELSE m.gauge,
  busy <- stage = "md",
  verdict <- verdict,
  seen <- seen
RefinesMarkovChain == Chain!Spec

\* phases_in tells the truth about the links at every step of every trajectory,
\* and the program never stops itself for finding the phases the wrong way round,
\* except when told to continue a lattice it never had.
PhasesKept == PhasesRight /\ NeverFouled

\* Every scheme moves each term of the action over the same time and reads the
\* same backwards, as a refusal or acceptance of the trajectory presumes.
Integrates == TypeOK /\ SameTime /\ Reversible

\* Every factor of every pseudofermion field is visited once with the links of
\* its epsilon, and its solutions fit in the array allocated for them.
FactorsFit == EveryFactor /\ MultiXFits

=============================================================================
