--------------------------- MODULE MCGatherTables ---------------------------
(* Small layouts for GatherTables, and all the maps of their sites.        *)
EXTENDS GatherTables, Functions

MCSites == 0 .. 5

\* two nodes of three sites: even, even, odd and even, odd, odd
TwoNode   == [x \in MCSites |-> IF x < 3 THEN 0 ELSE 1]
TwoIndex  == [x \in MCSites |-> x % 3]
TwoParity == [x \in MCSites |-> IF x \in {0, 1, 3} THEN 0 ELSE 1]

AllMaps == Bijection(MCSites, MCSites)

\* three nodes of four sites: two even and two odd
Ring       == 0 .. 11
RingNode   == [x \in Ring |-> x \div 4]
RingIndex  == [x \in Ring |-> x % 4]
RingParity == [x \in Ring |-> x % 2]

\* maps that keep or switch parity: steps, turns and shuffles of the ring;
\* and the same with two images exchanged, which mix the parities
Affine(a, c) == [x \in Ring |-> (a * x + c) % 12]
Mixed(f)     == [f EXCEPT ![0] = f[1], ![1] = f[0]]
RingMaps ==
  LET regular == {Affine(a, c) : a \in {1, 5, 11}, c \in {0, 1, 4}}
  IN  regular \union {Mixed(f) : f \in regular}

Request(inv, eo, par) == [inverse : inv, eo : eo, parity : par]
EO  == {"ALLOW_EVEN_ODD", "NO_EVEN_ODD"}
PAR == {"SAME_PARITY", "SWITCH_PARITY", "SCRAMBLE_PARITY"}

AnyRequest == Request({"WANT_INVERSE", "NO_INVERSE", "OWN_INVERSE"}, EO, PAR)

SwitchOwn   == Request({"OWN_INVERSE"}, {"ALLOW_EVEN_ODD"}, {"SWITCH_PARITY"})
ScrambleOwn == Request({"OWN_INVERSE"}, {"NO_EVEN_ODD"}, {"SCRAMBLE_PARITY"})

\* the requests make_gather serves as documented.  It does not serve SwitchOwn,
\* whose list of all sites it leaves in the wrong order, and ScrambleOwn, whose
\* map it never looks at: with AnyRequest MapFetched is violated
GoodRequests == AnyRequest \ (SwitchOwn \union ScrambleOwn)
NoInverse   == Request({"NO_INVERSE"}, EO, PAR)
=============================================================================
