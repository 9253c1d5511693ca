----------------------------- MODULE MarkovChain -----------------------------
(***************************************************************************)
(* What a hybrid Monte Carlo program promises about its gauge              *)
(* configurations.  There is a current configuration, a field of SU(3)     *)
(* matrices.  A trajectory starts from it and ends by replacing it with    *)
(* the field it reached or, when the Metropolis test refuses that field,   *)
(* by leaving it as it was.  Everything that is measured or saved is the   *)
(* current configuration, and the links the fermion observables are        *)
(* computed with are made of it: never of the field of a trajectory under  *)
(* way, or of one that was refused.  The gauge observables and the file    *)
(* have no staggered phases in them.                                       *)
(***************************************************************************)
CONSTANTS Field,        \* the fields of unitary matrices
          Metropolis    \* TRUE if a trajectory may be refused (HMC)

VARIABLES config,    \* the current configuration
          busy,      \* a trajectory is under way
          verdict,   \* on the last trajectory: "accepted" or "refused"
          seen       \* what was measured or saved last: {} or one record

chainVars == <<config, busy, verdict, seen>>

Init == config \in Field /\ busy = FALSE /\ verdict = "accepted" /\ seen = {}

\* A lattice is read from a file, or a fresh one made.
Load == ~busy /\ config' \in Field /\ UNCHANGED <<busy, verdict, seen>>

Begin == ~busy /\ busy' = TRUE /\ UNCHANGED <<config, verdict, seen>>

Accept ==
  /\ busy /\ busy' = FALSE /\ verdict' = "accepted"
  /\ config' \in Field /\ UNCHANGED seen

Refuse ==
  /\ Metropolis /\ busy /\ busy' = FALSE /\ verdict' = "refused"
  /\ UNCHANGED <<config, seen>>

Observe ==
  /\ ~busy
  /\ seen' = {[gauge |-> config, phases |-> FALSE, links |-> config]}
  /\ UNCHANGED <<config, busy, verdict>>

Next == Load \/ Begin \/ Accept \/ Refuse \/ Observe
Spec == Init /\ [][Next]_chainVars
=============================================================================
