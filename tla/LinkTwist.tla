------------------------------ MODULE LinkTwist ------------------------------
(***************************************************************************)
(* Boundary twists of the fat and long links                               *)
(* (generic_ks/fermion_links_fn_twist_milc.c, generic/momentum_twist.c).   *)
(* A propagator may have its origin,                                       *)
(* and with it the Kogut-Susskind phases and the antiperiodic boundary, at *)
(* any site r0, and a phase exp(i Pi bdry_phase[mu]) where it crosses the  *)
(* boundary.  The links computed from the gauge field are not computed     *)
(* again: they are multiplied by what the change of the gauge field would  *)
(* have made of them, and divided by it afterwards.                        *)
(*                                                                         *)
(* A link is modelled by the phase it was multiplied with since it was     *)
(* computed, a whole number of Pi/PI modulo 2 PI.                          *)
(***************************************************************************)
EXTENDS Integers, Sequences, FiniteSetsExt, SequencesExt

CONSTANTS
  Lattices,      \* <<nx, ny, nz, nt>>
  Origins,       \* coord_origin, r0
  BdryPhases,    \* bdry_phase, in units of Pi/PI
  PI             \* half of the circle

Dir == 1..4
XUP == 1
YUP == 2
ZUP == 3
TUP == 4

ASSUME LinkTwistAssumption ==
  /\ PI \in Nat \ {0}
  /\ \A n \in Lattices, mu \in Dir : n[mu] % 2 = 0
  /\ \A n \in Lattices : n[TUP] > 3
  /\ \A n \in Lattices, mu \in Dir \ {TUP}, b \in BdryPhases : b[mu] % n[mu] = 0

VARIABLES
  dims,      \* the lattice
  kinds,     \* the links this structure has, back links only if wanted
  fn,        \* the phase of every link
  lp,        \* link_phase_info_t: twist_in, bdry_phase, r0
  stop       \* terminated

vars == <<dims, kinds, fn, lp, stop>>

OFF == 0
ON == 1
Zero == <<0, 0, 0, 0>>
Phases == 0..(2 * PI - 1)

Sites ==
  (0..(dims[1] - 1)) \X (0..(dims[2] - 1)) \X (0..(dims[3] - 1)) \X (0..(dims[4] - 1))

\* s[mu] relative to an origin
Coord(s, mu, r0) == (s[mu] + dims[mu] - r0[mu]) % dims[mu]

-----------------------------------------------------------------------------
\* Where a link of a kind crosses the boundary: a fat link in the last slice, a
\* long link from three slices before it; the back links are kept at their end.
CrossesFatOnly(kind, c, n) ==   \* variant: a long link as deep as a fat one
  CASE kind \in {"fat", "lng"} -> c = n - 1
    [] kind = "fatback" -> c = 0
    [] kind = "lngback" -> c <= 2

Crosses(kind, c, n) ==
  CASE kind = "fat" -> c = n - 1
    [] kind = "lng" -> c >= n - 3
    [] kind = "fatback" -> c = 0
    [] kind = "lngback" -> c <= 2

Wrap(p) == p % (2 * PI)

Multiply(links, phase) ==
  [kind \in kinds |->
     [s \in Sites |-> [mu \in Dir |-> Wrap(links[kind][s][mu] + phase[kind, s, mu])]]]

switch_time_apbc(links, old, new) ==
  IF old[TUP] = new[TUP] THEN links
  ELSE Multiply(links, [kind \in kinds, s \in Sites, mu \in Dir |->
         IF mu = TUP /\ Crosses(kind, Coord(s, TUP, old), dims[TUP])
                          # Crosses(kind, Coord(s, TUP, new), dims[TUP])
         THEN PI ELSE 0])

\* The standard phases: the sign of a link counts the coordinates before its
\* direction in the order t, x, y, z.
Before(mu) == IF mu = TUP THEN {} ELSE {TUP} \cup 1..(mu - 1)
alpha_offset(s, mu, r0) ==
  MapThenSumSet(LAMBDA nu : (s[nu] - r0[nu]) % 2, Before(mu)) % 2

switch_KS_phases(links, old, new) ==
  IF \A mu \in Dir : (old[mu] - new[mu]) % 2 = 0 THEN links
  ELSE Multiply(links, [kind \in kinds, s \in Sites, mu \in Dir |->
         IF alpha_offset(s, mu, old) # alpha_offset(s, mu, new) THEN PI ELSE 0])

\* Back links are adjoint, and divided by the phase.
apply_twist(links, r0, cphase) ==
  Multiply(links, [kind \in kinds, s \in Sites, mu \in Dir |->
    IF ~Crosses(kind, Coord(s, mu, r0), dims[mu]) THEN 0
    ELSE IF kind \in {"fat", "lng"} THEN cphase[mu] ELSE 0 - cphase[mu]])

\* rephase_v_field, for a vector at site s
rephase_v_fieldAtZero(s, bdry_phase, r0) ==   \* variant: the origin is left out
  MapThenSumSet(LAMBDA mu : (bdry_phase[mu] * s[mu]) \div dims[mu], Dir)

rephase_v_field(s, bdry_phase, r0) ==
  MapThenSumSet(LAMBDA mu : (bdry_phase[mu] * Coord(s, mu, r0)) \div dims[mu], Dir)

-----------------------------------------------------------------------------
NotMultiplied == [kind \in kinds |-> [s \in Sites |-> [mu \in Dir |-> 0]]]

Init ==
  /\ dims \in Lattices
  /\ kinds \in {{"fat", "lng"}, {"fat", "lng", "fatback", "lngback"}}
  /\ fn = NotMultiplied
  /\ lp = [twist_in |-> OFF, bdry_phase |-> Zero, r0 |-> Zero]
  /\ stop = FALSE

\* set_boundary_twist_fn takes effect when the twist is next put in.  The
\* programs call it on links that are not twisted, or with the values it has.
\* No double wraparound: dimensions below 3 cannot be twisted.
SetBoundaryTwist ==
  /\ ~stop /\ lp.twist_in = OFF
  /\ \E b \in BdryPhases, r0 \in Origins :
       /\ \A mu \in Dir : dims[mu] < 3 => b[mu] = 0
       /\ \A mu \in Dir : r0[mu] < dims[mu]
       /\ lp' = [lp EXCEPT !.bdry_phase = b, !.r0 = r0]
  /\ UNCHANGED <<dims, kinds, fn, stop>>

\* boundary_twist_fn(fn, flag)
boundary_twist(links, flag) ==
  LET b == lp.bdry_phase
      moved == IF flag = ON
               THEN switch_KS_phases(switch_time_apbc(links, Zero, lp.r0), Zero, lp.r0)
               ELSE switch_KS_phases(switch_time_apbc(links, lp.r0, Zero), lp.r0, Zero)
  IN IF b = Zero THEN moved
     ELSE apply_twist(moved, lp.r0, IF flag = ON THEN b ELSE [mu \in Dir |-> -b[mu]])

BoundaryTwist ==
  /\ ~stop
  /\ \E flag \in {OFF, ON} :
       IF lp.twist_in = flag THEN stop' = TRUE /\ UNCHANGED <<fn, lp>>
       ELSE /\ fn' = boundary_twist(fn, flag)
            /\ lp' = [lp EXCEPT !.twist_in = flag]
            /\ UNCHANGED stop
  /\ UNCHANGED <<dims, kinds>>

Next == SetBoundaryTwist \/ BoundaryTwist
Spec == Init /\ [][Next]_vars

-----------------------------------------------------------------------------
\* The change of the gauge field itself, from the standard phases and the
\* antiperiodic boundary at the origin to those of r0 with the twist.
Signs(s, mu, r0) ==
  PI * (alpha_offset(s, mu, r0)
        + IF mu = TUP /\ Coord(s, TUP, r0) = dims[TUP] - 1 THEN 1 ELSE 0)
GaugeChange(s, mu) ==
  Signs(s, mu, lp.r0) - Signs(s, mu, Zero)
  + IF Coord(s, mu, lp.r0) = dims[mu] - 1 THEN lp.bdry_phase[mu] ELSE 0

\* Some of the paths a link of the action is the sum of, as directions, negative
\* for a step backwards: the link, its staples of three and five, Lepage's.
Staple(nu, path) == <<nu>> \o path \o <<-nu>>
FatPaths(mu) ==
  {<<mu>>} \cup {Staple(nu, <<mu>>) : nu \in Dir \ {mu}}
    \cup {Staple(-nu, <<mu>>) : nu \in Dir \ {mu}}
    \cup {Staple(p[1], Staple(p[2], <<mu>>)) : p \in (Dir \ {mu}) \X (Dir \ {mu})}
Paths(kind, mu) == IF kind \in {"fat", "fatback"} THEN FatPaths(mu) ELSE {<<mu, mu, mu>>}

Shift(s, mu, by) == [s EXCEPT ![mu] = (@ + by) % dims[mu]]
StepPhase(s, step) ==
  IF step > 0 THEN GaugeChange(s, step) ELSE -GaugeChange(Shift(s, -step, -1), -step)

\* [site reached, phase collected] along a path
Along(s, path) ==
  FoldLeft(LAMBDA at, step : [site |-> Shift(at.site, IF step > 0 THEN step ELSE -step,
                                             IF step > 0 THEN 1 ELSE -1),
                              phase |-> at.phase + StepPhase(at.site, step)],
           [site |-> s, phase |-> 0], path)
Length(kind) == IF kind \in {"fat", "fatback"} THEN 1 ELSE 3
IsBack(kind) == kind \in {"fatback", "lngback"}

TypeOK ==
  /\ dims \in Lattices /\ stop \in BOOLEAN
  /\ lp.twist_in \in {OFF, ON} /\ lp.bdry_phase \in BdryPhases \cup {Zero}
  /\ lp.r0 \in Origins \cup {Zero}
  /\ \A kind \in kinds : fn[kind] \in [Sites -> [Dir -> Phases]]

\* Multiplying the fat and long links is the same as changing the gauge field
\* and computing them anew: every path a link sums over gets the phase the link
\* was given, back links the opposite one of the link they are adjoint to.
TwistedField ==
  ~stop /\ lp.twist_in = ON =>
    \A kind \in kinds, s \in Sites, mu \in Dir :
      LET from == IF IsBack(kind) THEN Shift(s, mu, -Length(kind)) ELSE s IN
      \A path \in Paths(kind, mu) :
        LET phase == Along(from, path).phase IN
        fn[kind][s][mu] = (IF IsBack(kind) THEN 0 - phase ELSE phase) % (2 * PI)

\* When the twist is taken out every link is again as it was computed, however
\* often it has been twisted and with whatever origins.
Untwisted == ~stop /\ lp.twist_in = OFF => fn = NotMultiplied

\* A solver that multiplies the source by the phases of rephase_v_field, solves
\* with the twisted links and divides the solution by them has solved with links
\* twisted evenly over the volume, in the three directions of space.
VolumeTwist ==
  ~stop /\ lp.twist_in = ON =>
    LET b == [lp.bdry_phase EXCEPT ![TUP] = 0] IN
    \A kind \in {"fat", "lng"}, s \in Sites, mu \in Dir \ {TUP} :
      LET sign == PI * (alpha_offset(s, mu, lp.r0) - alpha_offset(s, mu, Zero)) IN
      (fn[kind][s][mu] + rephase_v_field(Shift(s, mu, Length(kind)), b, lp.r0)
         - rephase_v_field(s, b, lp.r0)) % (2 * PI)
      = (sign + Length(kind) * (b[mu] \div dims[mu])) % (2 * PI)

\* Links computed first and twisted later are those of the twisted gauge field,
\* or with the phases of the source twisted evenly over the volume, and taking
\* the twist out restores them, for every sequence of calls.
TwistsRight == TypeOK /\ TwistedField /\ VolumeTwist /\ Untwisted

=============================================================================
