---------------------------- MODULE OctetProofs ----------------------------
(***************************************************************************)
(* The caches of quark octets are right for any set of octets, any number  *)
(* of triplets in any order, and whatever uninitialized pointers hold.     *)
(*                                                                         *)
(* The inductive invariant says, for each place control.c can stand at,    *)
(* which pointers lead to the cache of which octet and which octets are    *)
(* cached at all; that no octet is cached twice makes "leads to a cache of *)
(* the octet" determine the pointer, so that sharing needs no invariant of *)
(* its own.                                                                *)
(***************************************************************************)
EXTENDS OctetCache, TLAPS

\* slot n of triplet q has an octet that some slot before k has too
Seen(q, o) == \E m \in Slots : m < k /\ q[m] = o

\* octets the triplet before has left in its caches
Kept(o) == ~first /\ Used(jq, o)

InvCount == phase \notin {"idle", "last"} => left \in 1 .. MaxTriplets

InvFirst == phase \in {"retire", "reassign"} => ~first

InvIdle == phase = "idle" => Live = {}

InvNext ==
  phase = "next" =>
    /\ ~first => \A l \in Slots : Caches(slot[l], jq[l])
    /\ \A a \in Live : Kept(heap[a])

InvRetire ==
  phase = "retire" =>
    /\ \A l \in Slots :
         IF Seen(jq, jq[l]) THEN Used(iq, jq[l]) => Caches(tmp[l], jq[l])
                            ELSE Caches(slot[l], jq[l])
    /\ \A a \in Live :
         Used(jq, heap[a]) /\ (Seen(jq, heap[a]) => Used(iq, heap[a]))

InvReassign ==
  phase = "reassign" =>
    /\ \A l \in Slots : Used(iq, jq[l]) => Caches(tmp[l], jq[l])
    /\ \A l \in Slots : l < k /\ Used(jq, iq[l]) => Caches(slot[l], iq[l])
    /\ \A a \in Live : Used(jq, heap[a]) /\ Used(iq, heap[a])

InvCreate ==
  phase = "create" =>
    /\ \A l \in Slots : l < k \/ Kept(iq[l]) => Caches(slot[l], iq[l])
    /\ \A a \in Live :
         Used(iq, heap[a]) /\ (Kept(heap[a]) \/ Seen(iq, heap[a]))

InvTie ==
  phase = "tie" =>
    /\ \A l \in Slots : Caches(slot[l], iq[l])
    /\ \A a \in Live : Used(iq, heap[a])

InvLast ==
  phase = "last" =>
    /\ \A l \in Slots : ~Seen(iq, iq[l]) => Caches(slot[l], iq[l])
    /\ \A a \in Live : Used(iq, heap[a]) /\ ~Seen(iq, heap[a])

IInv ==
  /\ TypeOK /\ OneCachePerOctet /\ InvCount /\ InvFirst
  /\ InvIdle /\ InvNext /\ InvRetire /\ InvReassign /\ InvCreate
  /\ InvTie /\ InvLast

-----------------------------------------------------------------------------
\* An octet that a triplet uses has a leading slot.
LEMMA LeaderLeads ==
  ASSUME NEW q \in Triplets, NEW o, Used(q, o)
  PROVE  /\ Leader(q, o) \in Slots
         /\ q[Leader(q, o)] = o
         /\ Leads(q, Leader(q, o))
<1>1. \E l \in Slots : q[l] = o /\ Leads(q, l)
  <2>1. CASE q[0] = o
    BY <2>1 DEF Slots, Leads
  <2>2. CASE q[0] # o /\ q[1] = o
    BY <2>2 DEF Slots, Leads
  <2>3. CASE q[0] # o /\ q[1] # o /\ q[2] = o
    BY <2>3 DEF Slots, Leads
  <2> QED BY <2>1, <2>2, <2>3 DEF Used, Slots
<1> QED BY <1>1 DEF Leader

\* What the initial state must satisfy.
LEMMA InitInvariant == Init => IInv
  BY OctetAssumption
  DEF Init, IInv, TypeOK, OneCachePerOctet, InvCount, InvFirst, InvIdle,
      InvNext, InvRetire, InvReassign, InvCreate, InvTie, InvLast, Live,
      Phases, Slots

\* A new input set begins with nothing cached.
LEMMA StartSetKeeps == IInv /\ StartSet => IInv'
<1> SUFFICES ASSUME IInv, StartSet PROVE IInv'
  OBVIOUS
<1>1. TypeOK'
  BY OctetAssumption DEF IInv, TypeOK, StartSet, Phases, Slots
<1>2. Live' = {}
  BY DEF IInv, InvIdle, StartSet, Live
<1>3. /\ OneCachePerOctet' /\ InvCount' /\ InvFirst' /\ InvIdle' /\ InvNext'
  BY <1>2 DEF StartSet, OneCachePerOctet, InvCount, InvFirst, InvIdle, InvNext
<1>4. InvRetire' /\ InvReassign' /\ InvCreate' /\ InvTie' /\ InvLast'
  BY DEF StartSet, InvRetire, InvReassign, InvCreate, InvTie, InvLast
<1> QED BY <1>1, <1>3, <1>4 DEF IInv

\* The next triplet finds the caches as the one before left them.
LEMMA NextTripletKeeps == IInv /\ NextTriplet => IInv'
<1> SUFFICES ASSUME IInv, NextTriplet PROVE IInv'
  OBVIOUS
<1>1. TypeOK'
  BY DEF IInv, TypeOK, NextTriplet, Phases, Slots
<1>2. heap' = heap /\ slot' = slot /\ Live' = Live /\ k' = 0 /\ jq' = jq
      /\ first' = first /\ phase = "next"
  BY DEF NextTriplet, Live
<1>3. \A m \in Slots : ~(m < k')
  BY <1>2 DEF Slots
<1>4. InvRetire'
  BY <1>2, <1>3 DEF IInv, InvNext, NextTriplet, InvRetire, Seen, Caches, Kept
<1>5. InvCreate'
  BY <1>2, <1>3 DEF IInv, InvNext, NextTriplet, InvCreate, Kept, Caches
<1>6. OneCachePerOctet' /\ InvCount' /\ InvFirst'
  BY <1>2 DEF IInv, OneCachePerOctet, InvCount, InvFirst, NextTriplet
<1>7. InvIdle' /\ InvNext' /\ InvReassign' /\ InvTie' /\ InvLast'
  BY DEF NextTriplet, InvIdle, InvNext, InvReassign, InvTie, InvLast
<1> QED BY <1>1, <1>4, <1>5, <1>6, <1>7 DEF IInv

\* Where slot k goes next: to the one after it, or on to phase p.
Forward(p) ==
  IF k = 2 THEN phase' = p /\ k' = 0 ELSE phase' = phase /\ k' = k + 1

\* Retiring slot k: its octet is the only one whose cache moves or goes.
LEMMA RetireKeeps == IInv /\ Retire => IInv'
<1> SUFFICES ASSUME IInv, Retire PROVE IInv'
  OBVIOUS
<1>0. /\ phase = "retire" /\ k \in Slots /\ Forward("reassign")
      /\ iq' = iq /\ jq' = jq /\ first' = first /\ left' = left
      /\ TypeOK /\ OneCachePerOctet /\ InvRetire /\ InvCount /\ InvFirst
  BY DEF Retire, IInv, Forward
<1> DEFINE o == jq[k]
           same == {l \in Slots : l >= k /\ jq[l] = jq[k]}
           Sees(x) == \E m \in Slots : (m < k \/ m = k) /\ jq[m] = x
           LeadsTo(p, x) == p \in Addr /\ heap'[p] = x
<1>1. /\ o \in Octets /\ o # Free
      /\ Leads(jq, k) <=> ~Seen(jq, o)
      /\ \A x : Sees(x) <=> Seen(jq, x) \/ x = o
      /\ \A l \in Slots : ~Seen(jq, jq[l]) => l >= k
      /\ \A l \in Slots : jq[l] = o /\ ~Seen(jq, o) => l \in same
  BY <1>0, OctetAssumption DEF TypeOK, Triplets, Leads, Seen, Slots
<1>2. /\ \A l \in Slots :
            IF Sees(jq[l]) THEN Used(iq, jq[l]) => LeadsTo(tmp'[l], jq[l])
                           ELSE LeadsTo(slot'[l], jq[l])
      /\ \A a \in Live' :
            Used(jq, heap'[a]) /\ (Sees(heap'[a]) => Used(iq, heap'[a]))
      /\ slot' \in [Slots -> Ptr] /\ tmp' \in [Slots -> Ptr]
      /\ heap' \in [Addr -> Octets \cup {Free}]
      /\ OneCachePerOctet'
  <2>1. CASE Leads(jq, k) /\ ~Wanted
    <3>1. /\ tmp'  = [l \in Slots |-> IF l \in same THEN NULL ELSE tmp[l]]
          /\ slot' = [l \in Slots |->
                        IF l \in same /\ l # k THEN NULL ELSE slot[l]]
          /\ heap' = Freed(heap, slot[k])
      BY <2>1 DEF Retire
    <3>2. slot[k] \in Addr /\ heap[slot[k]] = o
      BY <1>0, <1>1, <2>1 DEF InvRetire, Caches
    <3>3. heap' = [heap EXCEPT ![slot[k]] = Free]
      BY <3>1, <3>2, OctetAssumption DEF Freed
    <3>4. /\ slot' \in [Slots -> Ptr] /\ tmp' \in [Slots -> Ptr]
          /\ heap' \in [Addr -> Octets \cup {Free}]
      BY <1>0, <3>1, <3>3 DEF TypeOK, Ptr
    <3>5. \A a \in Live' : a \in Live /\ heap'[a] = heap[a] /\ heap[a] # o
      BY <1>0, <1>1, <3>2, <3>3 DEF TypeOK, Live, OneCachePerOctet
    <3>6. OneCachePerOctet'
      BY <1>0, <3>5 DEF OneCachePerOctet
    <3>7. \A a \in Live' :
            Used(jq, heap'[a]) /\ (Sees(heap'[a]) => Used(iq, heap'[a]))
      BY <1>0, <1>1, <3>5 DEF InvRetire
    <3>8. \A l \in Slots : Used(iq, jq[l]) => jq[l] # o
      BY <2>1 DEF Wanted
    <3>9. ASSUME NEW l \in Slots, Sees(jq[l]), Used(iq, jq[l])
          PROVE  LeadsTo(tmp'[l], jq[l])
      <4>1. Seen(jq, jq[l]) /\ jq[l] # o
        BY <1>1, <3>8, <3>9
      <4>2. tmp'[l] = tmp[l] /\ tmp[l] \in Addr /\ heap[tmp[l]] = jq[l]
        BY <1>0, <3>1, <3>9, <4>1 DEF InvRetire, Caches
      <4> QED BY <1>0, <3>2, <3>3, <4>1, <4>2 DEF TypeOK
    <3>10. ASSUME NEW l \in Slots, ~Sees(jq[l])
           PROVE  LeadsTo(slot'[l], jq[l])
      <4>1. ~Seen(jq, jq[l]) /\ jq[l] # o
        BY <1>1, <3>10
      <4>2. slot'[l] = slot[l] /\ slot[l] \in Addr /\ heap[slot[l]] = jq[l]
        BY <1>0, <3>1, <4>1 DEF InvRetire, Caches
      <4> QED BY <1>0, <3>2, <3>3, <4>1, <4>2 DEF TypeOK
    <3> QED BY <3>4, <3>6, <3>7, <3>9, <3>10
  <2>2. CASE Leads(jq, k) /\ Wanted
    <3>1. /\ tmp'  = [l \in Slots |-> IF l \in same THEN slot[k] ELSE tmp[l]]
          /\ slot' = [l \in Slots |-> IF l \in same THEN NULL ELSE slot[l]]
          /\ heap' = heap
      BY <2>2 DEF Retire
    <3>2. slot[k] \in Addr /\ heap[slot[k]] = o
      BY <1>0, <1>1, <2>2 DEF InvRetire, Caches
    <3>3. /\ slot' \in [Slots -> Ptr] /\ tmp' \in [Slots -> Ptr]
          /\ heap' \in [Addr -> Octets \cup {Free}]
      BY <1>0, <3>1, <3>2 DEF TypeOK, Ptr
    <3>4. OneCachePerOctet' /\ Live' = Live
      BY <1>0, <3>1 DEF OneCachePerOctet, Live
    <3>5. \A a \in Live' :
            Used(jq, heap'[a]) /\ (Sees(heap'[a]) => Used(iq, heap'[a]))
      BY <1>0, <1>1, <2>2, <3>1, <3>4 DEF InvRetire, Wanted
    <3>6. ASSUME NEW l \in Slots, Sees(jq[l]), Used(iq, jq[l])
          PROVE  LeadsTo(tmp'[l], jq[l])
      <4>1. CASE jq[l] = o
        BY <1>1, <2>2, <3>1, <3>2, <4>1
      <4>2. CASE jq[l] # o
        BY <1>0, <1>1, <3>1, <3>6, <4>2 DEF InvRetire, Caches
      <4> QED BY <4>1, <4>2
    <3>7. ASSUME NEW l \in Slots, ~Sees(jq[l])
          PROVE  LeadsTo(slot'[l], jq[l])
      BY <1>0, <1>1, <3>1, <3>7 DEF InvRetire, Caches
    <3> QED BY <3>3, <3>4, <3>5, <3>6, <3>7
  <2>3. CASE ~Leads(jq, k)
    <3>1. slot' = slot /\ tmp' = tmp /\ heap' = heap
      BY <2>3 DEF Retire
    <3>2. \A x : Sees(x) <=> Seen(jq, x)
      BY <1>1, <2>3
    <3>3. OneCachePerOctet' /\ Live' = Live
      BY <1>0, <3>1 DEF OneCachePerOctet, Live
    <3> QED BY <1>0, <3>1, <3>2, <3>3 DEF InvRetire, Caches, TypeOK
  <2> QED BY <2>1, <2>2, <2>3
<1>3. TypeOK'
  BY <1>0, <1>2 DEF TypeOK, Forward, Phases, Slots
<1>6. InvRetire' /\ InvReassign'
  <2>1. CASE k = 2
    <3>1. /\ phase' = "reassign" /\ k' = 0
          /\ \A m \in Slots : ~(m < k')
      BY <1>0, <2>1 DEF Forward, Slots
    <3>2. \A m \in Slots : m < k \/ m = k
      BY <2>1 DEF Slots
    <3>3. \A l \in Slots : Sees(jq[l])
      BY <3>2
    <3>4. \A x : Used(jq, x) => Sees(x)
      BY <3>2 DEF Used
    <3> HIDE DEF Sees
    <3> QED BY <1>0, <1>2, <3>1, <3>3, <3>4
            DEF InvRetire, InvReassign, Caches, Used
  <2>2. CASE k # 2
    <3>1. /\ phase' = "retire" /\ k' = k + 1
          /\ \A m \in Slots : m < k + 1 <=> m < k \/ m = k
      BY <1>0, <2>2 DEF Forward, Slots
    <3>2. \A x : Sees(x) <=> Seen(jq, x)'
      BY <1>0, <3>1 DEF Seen
    <3> HIDE DEF Sees
    <3>3. InvReassign'
      BY <3>1 DEF InvReassign
    <3> QED BY <1>0, <1>2, <3>1, <3>2, <3>3 DEF InvRetire, Caches, Used
  <2> QED BY <2>1, <2>2
<1>4. InvCount' /\ InvFirst'
  BY <1>0 DEF Forward, InvCount, InvFirst
<1>5. InvIdle' /\ InvNext' /\ InvCreate' /\ InvTie' /\ InvLast'
  BY <1>0 DEF Forward, InvIdle, InvNext, InvCreate, InvTie, InvLast
<1> QED BY <1>2, <1>3, <1>4, <1>5, <1>6 DEF IInv

\* Reassigning slot k: it gets the kept cache of its octet, if there is one.
LEMMA ReassignKeeps == IInv /\ Reassign => IInv'
<1> SUFFICES ASSUME IInv, Reassign PROVE IInv'
  OBVIOUS
<1>0. /\ phase = "reassign" /\ k \in Slots /\ Forward("create")
      /\ iq' = iq /\ jq' = jq /\ first' = first /\ left' = left
      /\ tmp' = tmp /\ heap' = heap /\ Live' = Live
      /\ TypeOK /\ OneCachePerOctet /\ InvReassign /\ InvCount /\ InvFirst
  BY DEF Reassign, IInv, Forward, Live
<1>1. ~first /\ \A x : Kept(x) <=> Used(jq, x)
  BY <1>0 DEF InvFirst, Kept
<1>2. /\ slot' \in [Slots -> Ptr]
      /\ \A l \in Slots : (l < k \/ l = k) /\ Used(jq, iq[l])
                            => Caches(slot'[l], iq[l])
  <2>1. CASE Used(jq, iq[k])
    <3> DEFINE n == Leader(jq, iq[k])
    <3>1. n \in Slots /\ jq[n] = iq[k]
      BY <1>0, <2>1, LeaderLeads DEF TypeOK
    <3>2. Used(iq, jq[n])
      BY <1>0, <3>1 DEF Used
    <3>3. Caches(tmp[n], iq[k])
      BY <1>0, <3>1, <3>2 DEF InvReassign
    <3>4. slot' = [slot EXCEPT ![k] = tmp[n]]
      BY <2>1 DEF Reassign
    <3> HIDE DEF n
    <3> QED BY <1>0, <3>1, <3>3, <3>4 DEF InvReassign, Caches, TypeOK, Ptr
  <2>2. CASE ~Used(jq, iq[k])
    BY <1>0, <2>2 DEF Reassign, InvReassign, TypeOK
  <2> QED BY <2>1, <2>2
<1>3. TypeOK'
  BY <1>0, <1>2 DEF TypeOK, Forward, Phases, Slots
<1>4. InvReassign' /\ InvCreate'
  <2>1. CASE k = 2
    <3>1. /\ phase' = "create" /\ k' = 0
          /\ \A m \in Slots : ~(m < k')
      BY <1>0, <2>1 DEF Forward, Slots
    <3>2. \A m \in Slots : m < k \/ m = k
      BY <2>1 DEF Slots
    <3> QED BY <1>0, <1>1, <1>2, <3>1, <3>2
            DEF InvReassign, InvCreate, Caches, Used, Kept
  <2>2. CASE k # 2
    <3>1. /\ phase' = "reassign" /\ k' = k + 1
          /\ \A m \in Slots : m < k + 1 <=> m < k \/ m = k
      BY <1>0, <2>2 DEF Forward, Slots
    <3>2. InvCreate'
      BY <3>1 DEF InvCreate
    <3> QED BY <1>0, <1>2, <3>1, <3>2 DEF InvReassign, Caches, Used
  <2> QED BY <2>1, <2>2
<1>5. OneCachePerOctet' /\ InvCount' /\ InvFirst'
  BY <1>0 DEF OneCachePerOctet, InvCount, InvFirst, Forward
<1>6. InvIdle' /\ InvNext' /\ InvRetire' /\ InvTie' /\ InvLast'
  BY <1>0 DEF Forward, InvIdle, InvNext, InvRetire, InvTie, InvLast
<1> QED BY <1>3, <1>4, <1>5, <1>6 DEF IInv

\* Creating for slot k: a new cache only for an octet that has none.
LEMMA CreateKeeps == IInv /\ Create => IInv'
<1> SUFFICES ASSUME IInv, Create PROVE IInv'
  OBVIOUS
<1>0. /\ phase = "create" /\ k \in Slots /\ Forward("tie")
      /\ iq' = iq /\ jq' = jq /\ first' = first /\ left' = left
      /\ tmp' = tmp
      /\ TypeOK /\ OneCachePerOctet /\ InvCreate /\ InvCount /\ InvFirst
  BY DEF Create, IInv, Forward
<1> DEFINE o == iq[k]
           Sees(x) == \E m \in Slots : (m < k \/ m = k) /\ iq[m] = x
           LeadsTo(p, x) == p \in Addr /\ heap'[p] = x
<1>1. /\ o \in Octets /\ o # Free /\ Used(iq, o)
      /\ Leads(iq, k) <=> ~Seen(iq, o)
      /\ \A x : Sees(x) <=> Seen(iq, x) \/ x = o
      /\ New <=> ~Kept(o)
  BY <1>0, OctetAssumption
     DEF TypeOK, Triplets, Leads, Seen, Slots, New, Kept, Used
<1>2. /\ slot' \in [Slots -> Ptr] /\ heap' \in [Addr -> Octets \cup {Free}]
      /\ OneCachePerOctet'
      /\ \A l \in Slots : l < k \/ l = k \/ Kept(iq[l])
                            => LeadsTo(slot'[l], iq[l])
      /\ \A a \in Live' :
           Used(iq, heap'[a]) /\ (Kept(heap'[a]) \/ Sees(heap'[a]))
  <2>1. CASE New /\ Leads(iq, k)
    <3>1. PICK a \in Addr \ Live : /\ heap' = [heap EXCEPT ![a] = o]
                                   /\ slot' = [slot EXCEPT ![k] = a]
      BY <1>1, <2>1 DEF Create, Allocated
    <3>2. \A b \in Live : heap[b] # o
      BY <1>0, <1>1, <2>1 DEF InvCreate
    <3>3. \A b \in Live' : b = a \/ (b \in Live /\ heap'[b] = heap[b])
      BY <1>0, <3>1 DEF TypeOK, Live
    <3>4. heap'[a] = o
      BY <1>0, <3>1 DEF TypeOK
    <3>5. OneCachePerOctet'
      BY <1>0, <3>2, <3>3, <3>4 DEF OneCachePerOctet
    <3>6. ASSUME NEW l \in Slots, l < k \/ l = k \/ Kept(iq[l])
          PROVE  LeadsTo(slot'[l], iq[l])
      <4>1. CASE l = k
        BY <1>0, <3>1, <3>4, <4>1 DEF TypeOK
      <4>2. CASE l # k
        <5>1. Caches(slot[l], iq[l]) /\ slot'[l] = slot[l]
          BY <1>0, <3>1, <3>6, <4>2 DEF InvCreate, TypeOK
        <5>2. iq[l] # Free
          BY <1>0, OctetAssumption DEF TypeOK, Triplets
        <5>3. slot[l] \in Live /\ slot[l] # a
          BY <3>1, <5>1, <5>2 DEF Caches, Live
        <5> QED BY <1>0, <3>1, <5>1, <5>3 DEF Caches, TypeOK
      <4> QED BY <4>1, <4>2
    <3>7. \A b \in Live' :
            Used(iq, heap'[b]) /\ (Kept(heap'[b]) \/ Sees(heap'[b]))
      BY <1>0, <1>1, <3>3, <3>4 DEF InvCreate
    <3>8. /\ slot' \in [Slots -> Ptr]
          /\ heap' \in [Addr -> Octets \cup {Free}]
      BY <1>0, <1>1, <3>1 DEF TypeOK, Ptr
    <3> HIDE DEF Sees, LeadsTo
    <3> QED BY <3>5, <3>6, <3>7, <3>8
  <2>2. CASE New /\ ~Leads(iq, k)
    <3> DEFINE n == Leader(iq, o)
    <3>1. n \in Slots /\ iq[n] = o /\ Leads(iq, n)
      BY <1>0, <1>1, LeaderLeads DEF TypeOK
    <3>2. n < k
      BY <1>0, <1>1, <2>2, <3>1 DEF Seen, Leads, Slots
    <3>3. slot' = [slot EXCEPT ![k] = slot[n]] /\ heap' = heap
      BY <2>2 DEF Create
    <3>4. Caches(slot[n], o)
      BY <1>0, <3>1, <3>2 DEF InvCreate
    <3>5. Live' = Live
      BY <3>3 DEF Live
    <3> HIDE DEF n
    <3>6. ASSUME NEW l \in Slots, l < k \/ l = k \/ Kept(iq[l])
          PROVE  LeadsTo(slot'[l], iq[l])
      BY <1>0, <3>3, <3>4, <3>6 DEF InvCreate, Caches, TypeOK
    <3>7. slot' \in [Slots -> Ptr]
      BY <1>0, <3>3, <3>4 DEF TypeOK, Ptr, Caches
    <3>8. \A b \in Live' :
            Used(iq, heap'[b]) /\ (Kept(heap'[b]) \/ Sees(heap'[b]))
      BY <1>0, <1>1, <3>3, <3>5 DEF InvCreate
    <3>9. OneCachePerOctet' /\ heap' \in [Addr -> Octets \cup {Free}]
      BY <1>0, <3>3, <3>5 DEF OneCachePerOctet, TypeOK
    <3> HIDE DEF Sees, LeadsTo
    <3> QED BY <3>6, <3>7, <3>8, <3>9
  <2>3. CASE ~New
    <3>1. slot' = slot /\ heap' = heap /\ Live' = Live
      BY <2>3 DEF Create, Live
    <3>2. Kept(o)
      BY <1>1, <2>3
    <3> QED BY <1>0, <1>1, <3>1, <3>2
            DEF InvCreate, Caches, TypeOK, OneCachePerOctet
  <2> QED BY <2>1, <2>2, <2>3
<1>3. TypeOK'
  BY <1>0, <1>2 DEF TypeOK, Forward, Phases, Slots
<1>4. InvCreate' /\ InvTie'
  <2>1. CASE k = 2
    <3>1. phase' = "tie" /\ \A m \in Slots : m < k \/ m = k
      BY <1>0, <2>1 DEF Forward, Slots
    <3> HIDE DEF Sees
    <3> QED BY <1>0, <1>2, <3>1 DEF InvCreate, InvTie, Caches, Used
  <2>2. CASE k # 2
    <3>1. /\ phase' = "create" /\ k' = k + 1
          /\ \A m \in Slots : m < k + 1 <=> m < k \/ m = k
      BY <1>0, <2>2 DEF Forward, Slots
    <3>2. \A x : Sees(x) <=> Seen(iq, x)'
      BY <1>0, <3>1 DEF Seen
    <3>3. InvTie'
      BY <3>1 DEF InvTie
    <3> HIDE DEF Sees
    <3> QED BY <1>0, <1>2, <3>1, <3>2, <3>3 DEF InvCreate, Caches, Used, Kept
  <2> QED BY <2>1, <2>2
<1>5. InvCount' /\ InvFirst'
  BY <1>0 DEF InvCount, InvFirst, Forward
<1>6. InvIdle' /\ InvNext' /\ InvRetire' /\ InvReassign' /\ InvLast'
  BY <1>0 DEF Forward, InvIdle, InvNext, InvRetire, InvReassign, InvLast
<1> QED BY <1>2, <1>3, <1>4, <1>5, <1>6 DEF IInv

\* Tying moves no cache.
LEMMA TieKeeps == IInv /\ Tie => IInv'
<1> SUFFICES ASSUME IInv, Tie PROVE IInv'
  OBVIOUS
<1>1. /\ phase = "tie" /\ heap' = heap /\ slot' = slot /\ Live' = Live
      /\ iq' = iq /\ jq' = iq /\ k' = 0 /\ first' = FALSE
      /\ left' = left - 1 /\ phase' = IF left = 1 THEN "last" ELSE "next"
      /\ left \in 1 .. MaxTriplets
      /\ TypeOK /\ InvTie
      /\ \A m \in Slots : ~(m < k')
  BY DEF Tie, IsLast, IInv, Live, InvCount, Slots
<1>2. TypeOK'
  <2>1. left - 1 \in 0 .. MaxTriplets
    BY <1>1, OctetAssumption
  <2>2. phase' \in {"last", "next"} /\ k' \in Slots /\ first' \in BOOLEAN
    <3>1. phase' = "last" \/ phase' = "next"
      BY <1>1
    <3>2. k' \in Slots
      BY <1>1 DEF Slots
    <3>3. first' \in BOOLEAN
      BY <1>1
    <3> QED BY <3>1, <3>2, <3>3
  <2>3. phase' \in Phases
    BY <2>2 DEF Phases
  <2>4. tmp' = tmp
    BY DEF Tie
  <2> QED BY <1>1, <2>1, <2>2, <2>3, <2>4 DEF TypeOK
<1>3. InvNext' /\ InvLast'
  BY <1>1 DEF InvTie, InvNext, InvLast, Caches, Kept, Used, Seen
<1>4. OneCachePerOctet' /\ InvCount'
  BY <1>1, OctetAssumption DEF IInv, OneCachePerOctet, InvCount
<1>5. InvFirst' /\ InvIdle' /\ InvRetire' /\ InvReassign' /\ InvCreate' /\ InvTie'
  BY <1>1 DEF InvFirst, InvIdle, InvRetire, InvReassign, InvCreate, InvTie
<1> QED BY <1>2, <1>3, <1>4, <1>5 DEF IInv

\* The end of an input set frees each cache once, the last with slot 2.
LEMMA FreeLastKeeps == IInv /\ FreeLast => IInv'
<1> SUFFICES ASSUME IInv, FreeLast PROVE IInv'
  OBVIOUS
<1>0. /\ phase = "last" /\ k \in Slots /\ Forward("idle")
      /\ iq' = iq /\ jq' = jq /\ first' = first /\ left' = left
      /\ tmp' = tmp /\ slot' = slot
      /\ heap' = IF Leads(iq, k) THEN Freed(heap, slot[k]) ELSE heap
      /\ TypeOK /\ OneCachePerOctet /\ InvLast
  BY DEF FreeLast, FreedAtEnd, IInv, Forward
<1> DEFINE o == iq[k]
           Sees(x) == \E m \in Slots : (m < k \/ m = k) /\ iq[m] = x
<1>1. /\ o \in Octets /\ o # Free
      /\ Leads(iq, k) <=> ~Seen(iq, o)
      /\ \A x : Sees(x) <=> Seen(iq, x) \/ x = o
  BY <1>0, OctetAssumption DEF TypeOK, Triplets, Leads, Seen, Slots
<1>2. /\ heap' \in [Addr -> Octets \cup {Free}]
      /\ \A a \in Live' : a \in Live /\ heap'[a] = heap[a] /\ heap[a] # o
      /\ \A a \in Addr : heap[a] # o => heap'[a] = heap[a]
  <2>1. CASE Leads(iq, k)
    <3>1. slot[k] \in Addr /\ heap[slot[k]] = o
      BY <1>0, <1>1, <2>1 DEF InvLast, Caches
    <3>2. heap' = [heap EXCEPT ![slot[k]] = Free]
      BY <1>0, <2>1, <3>1, OctetAssumption DEF Freed
    <3> QED BY <1>0, <1>1, <3>1, <3>2 DEF TypeOK, Live, OneCachePerOctet
  <2>2. CASE ~Leads(iq, k)
    BY <1>0, <1>1, <2>2 DEF InvLast, TypeOK, Live
  <2> QED BY <2>1, <2>2
<1>3. TypeOK'
  BY <1>0, <1>2 DEF TypeOK, Forward, Phases, Slots
<1>4. OneCachePerOctet'
  BY <1>0, <1>2 DEF OneCachePerOctet
<1>5. InvLast' /\ InvIdle'
  <2>1. CASE k = 2
    <3>1. phase' = "idle" /\ \A m \in Slots : m < k \/ m = k
      BY <1>0, <2>1 DEF Forward, Slots
    <3>2. \A x : Used(iq, x) => Sees(x)
      BY <3>1 DEF Used
    <3>3. \A x : Used(iq, x) /\ x # o => Seen(iq, x)
      BY <1>1, <3>2
    <3>4. Live' = {}
      BY <1>0, <1>2, <3>3 DEF InvLast
    <3> QED BY <3>1, <3>4 DEF InvLast, InvIdle
  <2>2. CASE k # 2
    <3>1. /\ phase' = "last" /\ k' = k + 1
          /\ \A m \in Slots : m < k + 1 <=> m < k \/ m = k
      BY <1>0, <2>2 DEF Forward, Slots
    <3>2. \A x : Sees(x) <=> Seen(iq, x)'
      BY <1>0, <3>1 DEF Seen
    <3>3. InvIdle'
      BY <3>1 DEF InvIdle
    <3> HIDE DEF Sees
    <3> QED BY <1>0, <1>1, <1>2, <3>1, <3>2, <3>3 DEF InvLast, Caches, Used
  <2> QED BY <2>1, <2>2
<1>6. InvCount' /\ InvFirst' /\ InvNext' /\ InvRetire' /\ InvReassign'
      /\ InvCreate' /\ InvTie'
  BY <1>0 DEF Forward, InvCount, InvFirst, InvNext, InvRetire, InvReassign,
              InvCreate, InvTie
<1> QED BY <1>3, <1>4, <1>5, <1>6 DEF IInv

-----------------------------------------------------------------------------
\* The pointers lead where each place in the loop needs them to.
THEOREM OctetInvariant == Spec => []IInv
<1>1. IInv /\ [Next]_vars => IInv'
  <2>1. IInv /\ UNCHANGED vars => IInv'
    <3> SUFFICES ASSUME IInv, UNCHANGED vars PROVE IInv'
      OBVIOUS
    <3>1. TypeOK' /\ OneCachePerOctet' /\ InvCount' /\ InvFirst'
      BY DEF IInv, vars, TypeOK, OneCachePerOctet, Live, InvCount, InvFirst
    <3>2. InvIdle' /\ InvNext' /\ InvRetire' /\ InvReassign'
      BY DEF IInv, vars, Live, InvIdle, InvNext, InvRetire, InvReassign,
             Caches, Used, Seen, Kept
    <3>3. InvCreate' /\ InvTie' /\ InvLast'
      BY DEF IInv, vars, Live, InvCreate, InvTie, InvLast, Caches, Used,
             Seen, Kept
    <3> QED BY <3>1, <3>2, <3>3 DEF IInv
  <2> QED BY <2>1, StartSetKeeps, NextTripletKeeps, RetireKeeps,
             ReassignKeeps, CreateKeeps, TieKeeps, FreeLastKeeps DEF Next
<1> QED BY <1>1, InitInvariant, PTL DEF Spec

\* Type correctness.
THEOREM TypeCorrect == Spec => []TypeOK
<1>1. IInv => TypeOK
  BY DEF IInv
<1> QED BY <1>1, OctetInvariant, PTL

\* spectrum_ks_gb_baryon finds in each slot a cache of the octet the triplet
\* names for it.
THEOREM SlotsRight == Spec => []TieReadsItsOctets
<1>1. IInv => TieReadsItsOctets
  BY DEF IInv, InvTie, TieReadsItsOctets
<1> QED BY <1>1, OctetInvariant, PTL

\* No octet is cached twice.
THEOREM CachedOnce == Spec => []OneCachePerOctet
<1>1. IInv => OneCachePerOctet
  BY DEF IInv
<1> QED BY <1>1, OctetInvariant, PTL

\* While a triplet is tied nothing but its caches is in memory, and nothing at
\* all between input sets.
THEOREM NoLeak == Spec => [](NoCacheLost /\ NothingCached)
<1>1. IInv => NothingCached
  BY DEF IInv, InvIdle, NothingCached
<1>2. IInv => NoCacheLost
  <2> SUFFICES ASSUME IInv, phase = "tie", NEW a \in Live
               PROVE  \E l \in Slots : slot[l] = a
    BY DEF NoCacheLost
  <2>1. PICK l \in Slots : iq[l] = heap[a]
    BY DEF IInv, InvTie, Used
  <2>2. slot[l] \in Addr /\ heap[slot[l]] = heap[a]
    BY <2>1 DEF IInv, InvTie, Caches
  <2>3. slot[l] = a
    BY <2>2 DEF IInv, OneCachePerOctet, Live
  <2> QED BY <2>3
<1> QED BY <1>1, <1>2, OctetInvariant, PTL

\* Nothing is freed twice.
THEOREM FreedOnce == Spec => []NoFreeTwice
<1>1. IInv => NoFreeTwice
  <2> SUFFICES ASSUME IInv PROVE NoFreeTwice
    OBVIOUS
  <2>1. k \in Slots /\ iq[k] # Free /\ jq[k] # Free
    BY OctetAssumption DEF IInv, TypeOK, Triplets
  <2>2. ASSUME NEW q \in Triplets, Leads(q, k) PROVE ~Seen(q, q[k])
    BY <2>2 DEF Leads, Seen
  <2>3. phase = "retire" /\ Leads(jq, k) => slot[k] \in Live
    BY <2>1, <2>2 DEF IInv, TypeOK, InvRetire, Caches, Live
  <2>4. phase = "last" /\ Leads(iq, k) => slot[k] \in Live
    BY <2>1, <2>2 DEF IInv, TypeOK, InvLast, Caches, Live
  <2> QED BY <2>3, <2>4 DEF NoFreeTwice, FreedAtEnd
<1> QED BY <1>1, OctetInvariant, PTL

\* The caches in memory are those of the triplet being tied, each octet's once,
\* and none is freed twice, for any octets and any number of triplets.
THEOREM CachesAlwaysMatch == Spec => []CachesMatch
<1>1. /\ TypeOK /\ OneCachePerOctet
      /\ NoCacheLost /\ NothingCached
      /\ NoFreeTwice
      => CachesMatch
  BY DEF CachesMatch
<1> QED BY <1>1, TypeCorrect, CachedOnce, NoLeak, FreedOnce, PTL

\* The cache of an octet that is used again is neither freed nor rebuilt.
THEOREM KeptInPlace == Spec => KeepsWanted
<1> DEFINE Keeps == phase # "last" =>
                      \A a \in Live : Used(iq, heap[a]) => heap'[a] = heap[a]
<1>1. ASSUME IInv, [Next]_vars PROVE [Keeps]_vars
  <2> SUFFICES ASSUME phase # "last", NEW a \in Live, Used(iq, heap[a])
               PROVE  heap'[a] = heap[a]
    OBVIOUS
  <2>1. CASE Retire /\ Leads(jq, k) /\ ~Wanted
    <3>1. k \in Slots /\ phase = "retire" /\ ~Seen(jq, jq[k])
      BY <2>1 DEF Retire, Leads, Seen
    <3>2. slot[k] \in Addr /\ heap[slot[k]] = jq[k]
      BY <1>1, <3>1 DEF IInv, InvRetire, Caches
    <3>3. heap' = [heap EXCEPT ![slot[k]] = Free]
      BY <2>1, <3>2, OctetAssumption DEF Retire, Freed
    <3>4. a # slot[k]
      BY <2>1, <3>2 DEF Wanted
    <3> QED BY <1>1, <3>2, <3>3, <3>4 DEF IInv, TypeOK, Live
  <2>2. CASE Create
    <3>1. heap' = heap \/ \E b \in Addr \ Live : heap' = [heap EXCEPT ![b] = iq[k]]
      BY <2>2 DEF Create, Allocated
    <3> QED BY <1>1, <3>1 DEF IInv, TypeOK, Live
  <2>3. CASE heap' = heap
    BY <2>3
  <2>4. Retire /\ ~(Leads(jq, k) /\ ~Wanted) => heap' = heap
    BY DEF Retire
  <2>5. StartSet \/ NextTriplet \/ Reassign \/ Tie \/ UNCHANGED vars
          => heap' = heap
    BY DEF StartSet, NextTriplet, Reassign, Tie, vars
  <2>6. ~FreeLast
    BY DEF FreeLast
  <2> QED BY <1>1, <2>1, <2>2, <2>3, <2>4, <2>5, <2>6 DEF Next
<1> QED BY <1>1, OctetInvariant, PTL DEF KeepsWanted, Spec

=============================================================================
