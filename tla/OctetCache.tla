----------------------------- MODULE OctetCache -----------------------------
(***************************************************************************)
(* The caches of quark octets that ks_spectrum keeps while it ties         *)
(* Golterman-Bailey baryons (ks_spectrum/control.c, GB_BARYON_MMAP).       *)
(*                                                                         *)
(* A baryon is tied from a triplet of octets, iqo0, iqo1 and iqo2.  Each   *)
(* octet needs a large memory-mapped cache, reached through the pointer in *)
(* one of three slots (gb_qk_cache).  The caches of octets that the next   *)
(* triplet uses again are kept: their pointers move through tmp_cache0..2  *)
(* to their new slots.  Caches the next triplet does not use are freed,    *)
(* equal octets of a triplet share one cache, and the last triplet of the  *)
(* input frees all that is left.  Freed slots keep their dangling pointer. *)
(***************************************************************************)
EXTENDS Naturals, FiniteSets

CONSTANTS
  Octets,        \* the indices of quark octets (param.qk_oct)
  Addr,          \* the addresses malloc gives caches at
  NULL, Free,    \* the null pointer; the content of an address not allocated
  Garbage,       \* what the pointers of an array just allocated may be
  MaxTriplets    \* bound: triplets in one input set

Slots == 0 .. 2
Ptr   == Addr \cup {NULL}
Triplets == [Slots -> Octets]

ASSUME OctetAssumption ==
  /\ NULL \notin Addr
  /\ Free \notin Octets
  /\ Garbage # {}
  /\ Garbage \subseteq [Slots -> Ptr]
  /\ MaxTriplets \in Nat \ {0}

VARIABLES
  phase,    \* where control.c stands in its loop over triplets
  k,        \* the slot that phase has come to, 3 when it is done
  left,     \* triplets of this input set not yet tied
  first,    \* is this the first triplet of the input set (i == 0)?
  iq, jq,   \* the octets of this triplet and of the one before it
  slot,     \* gb_qk_cache: the pointer to the cache of each slot
  tmp,      \* tmp_cache0, tmp_cache1, tmp_cache2
  heap      \* what each address holds: the octet of its cache, or Free

vars == <<phase, k, left, first, iq, jq, slot, tmp, heap>>

Phases == {"idle", "next", "retire", "reassign", "create", "tie", "last"}

-----------------------------------------------------------------------------

Used(q, o) == \E l \in Slots : q[l] = o

\* slot n is the first of its triplet with its octet: the code's tests that
\* an octet differs from those of the slots before it
Leads(q, n) == \A l \in Slots : l < n => q[l] # q[n]

\* the first slot of q that has octet o
Leader(q, o) == CHOOSE l \in Slots : q[l] = o /\ Leads(q, l)

Live == {a \in Addr : heap[a] # Free}

\* free_mmap_cache and free of the cache a pointer leads to; a null pointer
\* is left alone with a warning
Freed(h, p) == IF p = NULL THEN h ELSE [h EXCEPT ![p] = Free]

\* malloc and populate_qk_oct_point_split: a cache at an address of malloc's
\* choice, filled with the octet
Allocated(h, a, o) == [h EXCEPT ![a] = o]

-----------------------------------------------------------------------------

Init ==
  /\ phase = "idle" /\ k = 0 /\ left = 0 /\ first = TRUE
  /\ iq \in Triplets /\ jq = iq
  /\ slot \in Garbage /\ tmp = slot
  /\ heap = [a \in Addr |-> Free]

\* create_gb_qk_cache: the slots of a new input set with at least a triplet;
\* neither they nor jqo and tmp_cache have a value yet
StartSet ==
  /\ phase = "idle"
  /\ phase' = "next" /\ first' = TRUE /\ k' = 0
  /\ left' \in 1 .. MaxTriplets
  /\ jq' \in Triplets
  /\ slot' \in Garbage /\ tmp' \in Garbage
  /\ UNCHANGED <<iq, heap>>

\* the octets of the next triplet; only the first one has nothing to retire
NextTriplet ==
  /\ phase = "next"
  /\ iq' \in Triplets
  /\ phase' = IF first THEN "create" ELSE "retire"
  /\ k' = 0
  /\ UNCHANGED <<left, first, jq, slot, tmp, heap>>

WantedHere == iq[k] = jq[k]   \* variant: only the same slot is looked at

\* does this triplet use the octet that slot k had?
Wanted == Used(iq, jq[k])

\* slot k of the triplet before: unless an earlier slot had the same octet,
\* free its cache if no slot of this triplet wants it, else keep the pointer
Retire ==
  /\ phase = "retire" /\ k \in Slots
  /\ LET same == {l \in Slots : l >= k /\ jq[l] = jq[k]}
     IN \/ /\ Leads(jq, k) /\ ~Wanted
           /\ heap' = Freed(heap, slot[k])
           /\ tmp'  = [l \in Slots |-> IF l \in same THEN NULL ELSE tmp[l]]
           /\ slot' = [l \in Slots |->
                         IF l \in same /\ l # k THEN NULL ELSE slot[l]]
        \/ /\ Leads(jq, k) /\ Wanted
           /\ tmp'  = [l \in Slots |-> IF l \in same THEN slot[k] ELSE tmp[l]]
           /\ slot' = [l \in Slots |-> IF l \in same THEN NULL ELSE slot[l]]
           /\ UNCHANGED heap
        \/ ~Leads(jq, k) /\ UNCHANGED <<slot, tmp, heap>>
  /\ IF k = 2 THEN phase' = "reassign" /\ k' = 0
              ELSE phase' = phase /\ k' = k + 1
  /\ UNCHANGED <<left, first, iq, jq>>

\* slot k of this triplet takes over the cache of its octet, if it was kept
Reassign ==
  /\ phase = "reassign" /\ k \in Slots
  /\ \/ /\ Used(jq, iq[k])
        /\ slot' = [slot EXCEPT ![k] = tmp[Leader(jq, iq[k])]]
     \/ ~Used(jq, iq[k]) /\ UNCHANGED slot
  /\ IF k = 2 THEN phase' = "create" /\ k' = 0
              ELSE phase' = phase /\ k' = k + 1
  /\ UNCHANGED <<left, first, iq, jq, tmp, heap>>

NewAlways == ~Used(jq, iq[k])         \* variant: jqo is read before it is set

\* is the octet of slot k one the triplet before did not have?
New == first \/ ~Used(jq, iq[k])

\* slot k takes the cache of an earlier slot with the same octet, or one of
\* its own, when the triplet before did not have the octet
Create ==
  /\ phase = "create" /\ k \in Slots
  /\ \/ /\ New /\ Leads(iq, k)
        /\ \E a \in Addr \ Live :
             /\ heap' = Allocated(heap, a, iq[k])
             /\ slot' = [slot EXCEPT ![k] = a]
     \/ /\ New /\ ~Leads(iq, k)
        /\ slot' = [slot EXCEPT ![k] = slot[Leader(iq, iq[k])]]
        /\ UNCHANGED heap
     \/ ~New /\ UNCHANGED <<slot, heap>>
  /\ IF k = 2 THEN phase' = "tie" /\ k' = 0
              ELSE phase' = phase /\ k' = k + 1
  /\ UNCHANGED <<left, first, iq, jq, tmp>>

\* i == param.num_gb_triplet - 1
IsLast == left = 1

\* spectrum_ks_gb_baryon reads the three caches; jqo becomes iqo
Tie ==
  /\ phase = "tie"
  /\ phase' = IF IsLast THEN "last" ELSE "next"
  /\ left' = left - 1
  /\ k' = 0 /\ first' = FALSE
  /\ jq' = iq
  /\ UNCHANGED <<iq, slot, tmp, heap>>

FreedIfNotTheFirst(n) == n = 0 \/ iq[n] # iq[0]             \* variant: slots 1 and 2 may share

\* does the end of the input set free slot n?
FreedAtEnd(n) == Leads(iq, n)

\* after the last triplet: free the cache of slot k unless an earlier slot
\* shared it; after the third, destroy_gb_qk_cache
FreeLast ==
  /\ phase = "last" /\ k \in Slots
  /\ heap' = IF FreedAtEnd(k) THEN Freed(heap, slot[k]) ELSE heap
  /\ IF k = 2 THEN phase' = "idle" /\ k' = 0
              ELSE phase' = phase /\ k' = k + 1
  /\ UNCHANGED <<left, first, iq, jq, slot, tmp>>

Next == StartSet \/ NextTriplet \/ Retire \/ Reassign \/ Create \/ Tie \/ FreeLast

Spec == Init /\ [][Next]_vars

-----------------------------------------------------------------------------

TypeOK ==
  /\ phase \in Phases /\ k \in Slots
  /\ left \in 0 .. MaxTriplets /\ first \in BOOLEAN
  /\ iq \in Triplets /\ jq \in Triplets
  /\ slot \in [Slots -> Ptr] /\ tmp \in [Slots -> Ptr]
  /\ heap \in [Addr -> Octets \cup {Free}]

\* a pointer leads to a cache of octet o
Caches(p, o) == p \in Addr /\ heap[p] = o

\* When a baryon is tied, each slot leads to a cache in memory that holds the
\* octet of that slot, whatever triplets came before: spectrum_ks_gb_baryon
\* reads gb_qk_cache[0..2] without looking at which octets they are.
TieReadsItsOctets ==
  phase = "tie" => \A l \in Slots : Caches(slot[l], iq[l])

\* No octet has two caches at once: equal octets of a triplet share one, and
\* a kept cache is not built a second time.
OneCachePerOctet ==
  \A a, b \in Live : heap[a] = heap[b] => a = b

\* While a baryon is tied, memory holds the caches of its octets and no
\* others: nothing that a slot no longer leads to is left behind.
NoCacheLost ==
  phase = "tie" => \A a \in Live : \E l \in Slots : slot[l] = a

\* Between input sets no cache is in memory.
NothingCached ==
  phase = "idle" => Live = {}

\* The cache of an octet that this triplet uses again stays where it is, with
\* its content, until the input set ends ("retain memory in temporary
\* pointers"): it costs the most to build.
KeepsWanted ==
  [][phase # "last" =>
       \A a \in Live : Used(iq, heap[a]) => heap'[a] = heap[a]]_vars

\* free is never called on a slot whose cache is already gone, nor asked to
\* free a missing one ("Warning: cache missing, cannot destroy").
NoFreeTwice ==
  /\ phase = "retire" /\ Leads(jq, k) /\ ~Wanted => slot[k] \in Live
  /\ phase = "last" /\ FreedAtEnd(k) => slot[k] \in Live

\* The caches in memory are those of the triplet being tied, each octet's once,
\* none after the last triplet, and nothing is freed that was freed before.
CachesMatch ==
  /\ TypeOK
  /\ OneCachePerOctet
  /\ NoCacheLost
  /\ NothingCached
  /\ NoFreeTwice

=============================================================================
