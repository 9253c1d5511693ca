---------------------------- MODULE FermionLinks ----------------------------
(***************************************************************************)
(* The gauge field of a staggered program and the fermion links made of it *)
(* (generic_ks/rephase.c, fermion_links_from_site.c, fermion_links_milc.c, *)
(* fermion_links_hisq_milc.c).  A program holds one gauge field in the     *)
(* site structure, with or without the Kogut-Susskind phases and the       *)
(* antiperiodic boundary signs multiplied in, one flag phases_in that is   *)
(* meant to say which, and one structure fn_links of fat and long links    *)
(* computed from the field.  The links are kept until someone invalidates  *)
(* them: a structure that holds links is taken to be right.                *)
(*                                                                         *)
(* The three are one record, and every routine of those files is an        *)
(* operator from the record before the call to the record after it; the    *)
(* modules of the applications compose them in the order of their calls.   *)
(*   gauge      the gauge field, any value that tells two fields apart     *)
(*   signs      ON when the phases really are in the field                 *)
(*   phases_in  what the program believes                                  *)
(*   fn         the links: "null" (no structure), "invalid" (a structure   *)
(*              with no links), or "valid" with the field and the signs    *)
(*              they were computed from                                    *)
(*   stop       why the program was terminated, "no" while it runs         *)
(***************************************************************************)
EXTENDS Naturals

OFF == 0
ON == 1

Null == [state |-> "null"]
Invalid == [state |-> "invalid"]
MadeFrom(m) == [state |-> "valid", gauge |-> m.gauge, signs |-> m.signs]

\* terminate(): the first reason is kept
Terminate(m, why) == IF m.stop = "no" THEN [m EXCEPT !.stop = why] ELSE m

\* A program before its first lattice: the globals are zero.
NoLattice(g) ==
  [gauge |-> g, signs |-> OFF, phases_in |-> OFF, fn |-> Null, stop |-> "no"]

-----------------------------------------------------------------------------
\* rephase() multiplies every link by its phase, whatever is in the field, and
\* refuses a call that does not change the flag.
rephase(m, flag) ==
  IF m.stop # "no" \/ m.phases_in = flag
  THEN Terminate(m, "fouled up the phases")
  ELSE [m EXCEPT !.signs = 1 - @, !.phases_in = flag]

\* The phases are taken out around a computation that leaves the field alone.
Unphased(m) == rephase(rephase(m, OFF), ON)

\* A new field is written over the links, phases and all; the flag and the
\* fermion links know nothing of it.
SetLinks(m, g) == IF m.stop # "no" THEN m ELSE [m EXCEPT !.gauge = g]

\* reload_lattice: a file or a fresh start gives a field without phases.
ReloadLattice(m, g) == [SetLinks(m, g) EXCEPT !.signs = OFF]

PutPhasesInOnly(m) == rephase(m, ON)   \* variant: the flag is not set by hand

\* The end of every readin(): the flag is set by hand and the phases put in.
PutPhasesIn(m) == rephase([m EXCEPT !.phases_in = OFF], ON)

\* readin() up to there: a continued lattice has its phases taken out first.
StartLattice(m, fresh, g) ==
  PutPhasesIn(IF fresh THEN ReloadLattice(m, g) ELSE rephase(m, OFF))

-----------------------------------------------------------------------------
create_fermion_links_from_site(m) ==
  IF m.stop # "no" \/ m.phases_in # ON
  THEN Terminate(m, "needs phases in")
  ELSE [m EXCEPT !.fn = MadeFrom(m)]

\* The links are computed only if there are none.
restore_fermion_links_from_site(m) ==
  IF m.stop # "no" \/ m.fn.state = "valid" THEN m
  ELSE IF m.fn.state = "null" \/ m.phases_in # ON
       THEN Terminate(m, "needs phases in")
       ELSE [m EXCEPT !.fn = MadeFrom(m)]

invalidate_fermion_links(m) ==
  IF m.stop # "no" \/ m.fn.state = "null" THEN m ELSE [m EXCEPT !.fn = Invalid]

destroy_fermion_links(m) == IF m.stop # "no" THEN m ELSE [m EXCEPT !.fn = Null]

-----------------------------------------------------------------------------
\* Links that are taken to be right are those of the field as it is, with the
\* phases in.
LinksOfField(m) ==
  m.fn.state = "valid" => m.fn.gauge = m.gauge /\ m.fn.signs = ON

\* The flag tells the truth.
FlagTrue(m) == m.signs = m.phases_in
=============================================================================
