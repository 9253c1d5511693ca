------------------------ MODULE GatherPromiseProofs ------------------------
(***************************************************************************)
(* Two theorems about what a program has of the gather runtime in the end. *)
(*                                                                         *)
(* Nothing is left, whatever ids a program reuses: no message outlives its *)
(* gather.  Which message a receive gets is up to the network, so the      *)
(* proof counts: among the messages for one node with one id, those sent   *)
(* are those in the network and those received.                            *)
(*                                                                         *)
(* The gather runtime implements GatherPromise, whatever the machine: step *)
(* by step, a call of a node is that call of the abstract machine and the  *)
(* delivery of a message is no step of it.                                 *)
(***************************************************************************)
EXTENDS GatherProofs, SequenceTheorems

-----------------------------------------------------------------------------
(* The messages are counted.                                               *)

(* Receive i of gather p on node d has this id.                            *)
Bears(p, d, i, id) ==
  /\ IsStart(p) /\ i \in DOMAIN RecvFrom[Gat(p)][d]
  /\ IdList(p)[i] = id

(* The gathers for which d is sent a message with this id, by a node that  *)
(* has come to them; for which d has got one; the messages under way.      *)
SentFor(d, id) ==
  {p \in 1 .. Len(prog) :
     \E i : Bears(p, d, i, id) /\ pc[RecvFrom[Gat(p)][d][i]] >= p}

GotBy(d, id) ==
  {p \in 1 .. Len(prog) : \E i : Bears(p, d, i, id) /\ ~Waits(d, p, i)}

InFlight(d, id) ==
  {y \in Nodes \X Nat : \E x \in DOMAIN net[y[1]][d][id] : net[y[1]][d][id][x].at = y[2]}

Balanced(S, F, G) ==
  /\ IsFiniteSet(S) /\ IsFiniteSet(F) /\ IsFiniteSet(G)
  /\ Cardinality(S) = Cardinality(F) + Cardinality(G)

CountInv ==
  \A d \in Nodes, id \in Ids : Balanced(SentFor(d, id), InFlight(d, id), GotBy(d, id))

LEMMA BalancedSent ==
  ASSUME NEW S, NEW F, NEW G, Balanced(S, F, G), NEW x, x \notin S, NEW y, y \notin F
  PROVE  Balanced(S \union {x}, F \union {y}, G)
<1>1. /\ IsFiniteSet(S \union {x}) /\ Cardinality(S \union {x}) = Cardinality(S) + 1
      /\ IsFiniteSet(F \union {y}) /\ Cardinality(F \union {y}) = Cardinality(F) + 1
  BY FS_AddElement DEF Balanced
<1>2. Cardinality(F) \in Nat /\ Cardinality(G) \in Nat
  BY FS_CardinalityType DEF Balanced
<1> QED BY <1>1, <1>2 DEF Balanced

LEMMA BalancedGot ==
  ASSUME NEW S, NEW F, NEW G, Balanced(S, F, G), NEW y, y \in F, NEW z, z \notin G
  PROVE  Balanced(S, F \ {y}, G \union {z})
<1>1. /\ IsFiniteSet(G \union {z}) /\ Cardinality(G \union {z}) = Cardinality(G) + 1
      /\ IsFiniteSet(F \ {y}) /\ Cardinality(F \ {y}) = Cardinality(F) - 1
  BY FS_AddElement, FS_RemoveElement DEF Balanced
<1>2. Cardinality(F) \in Nat /\ Cardinality(G) \in Nat
  BY FS_CardinalityType DEF Balanced
<1> QED BY <1>1, <1>2 DEF Balanced

-----------------------------------------------------------------------------
(* The gather a node starts.                                               *)

LEMMA TagCovers ==
  ASSUME NEW l \in TablesType, Exact(l), Filled(l), NEW t \in Tags,
         l.phase[t] = "started", NEW d \in Nodes,
         NEW i \in DOMAIN RecvFrom[l.g[t]][d]
  PROVE  /\ i \in DOMAIN l.ids[t] /\ l.ids[t][i] \in Ids
         /\ \A j \in DOMAIN RecvFrom[l.g[t]][d] : l.ids[t][i] = l.ids[t][j] => i = j
<1>1. l.g[t] \in GatherIndex /\ l.ids[t] \in Seq(Ids)
  BY DEF TablesType
<1>2. Len(l.ids[t]) = OffsetIncrement[l.g[t]]
  BY DEF Filled, NidsOf
<1>3. ASSUME NEW j \in DOMAIN RecvFrom[l.g[t]][d] PROVE j \in DOMAIN l.ids[t]
  <2>1. RecvFrom[l.g[t]][d] \in Seq(Nodes) /\ OffsetIncrement[l.g[t]] \in Nat
    BY <1>1, TablesAssumption
  <2>2. Len(RecvFrom[l.g[t]][d]) <= OffsetIncrement[l.g[t]]
    BY <1>1, PairingAssumption
  <2> QED BY <1>1, <1>2, <2>1, <2>2
<1> QED BY <1>1, <1>3, ExactIds

LEMMA StartCovers ==
  ASSUME CoreInv, NEW n \in Nodes, NEW c \in Next1Call(n), c.op \in Steps,
         DoesStart(n, c), NEW a, a = pc[n] + 1, NEW d \in Nodes,
         NEW g, g = Gat(a)', NEW f, f = IdList(a)'
  PROVE  /\ g \in GatherIndex
         /\ \A i, j \in DOMAIN RecvFrom[g][d] : f[i] = f[j] => i = j
<1>0. HistoryInv /\ FilledInv /\ Makes(n, c)
  BY DEF CoreInv, DoesStart
<1> DEFINE l == Effect(loc[n], c)
<1>1. /\ pc[n] \in 0 .. Len(prog) /\ prog'[a].call = c /\ prog'[a].after = l
      /\ l \in TablesType /\ ~Blocked(loc[n], c) /\ c \in Call /\ Legal(loc[n], c)
      /\ loc[n] = IF pc[n] = 0 THEN InitTables ELSE prog[pc[n]].after
      /\ c.tag \in Tags
  BY <1>0, Moves
<1>2. loc[n] \in TablesType /\ Exact(loc[n])
  BY <1>0, LocExact
<1>3. Filled(loc[n])
  <2>1. Filled(InitTables)
    BY DEF InitTables, Filled
  <2>2. pc[n] /= 0 => pc[n] \in 1 .. pc[n]
    BY <1>1
  <2> QED BY <1>0, <1>1, <2>1, <2>2 DEF FilledInv
<1>4. Exact(l) /\ Filled(l)
  BY <1>1, <1>2, <1>3, EffectExact, EffectFilled
<1>5. l.phase[c.tag] = "started"
  BY <1>1, <1>2, EffectOnTags DEF DoesStart
<1>6. g = l.g[c.tag] /\ f = l.ids[c.tag]
  BY <1>1 DEF Gat, IdList, Tag
<1> HIDE DEF l
<1>7. g \in GatherIndex
  BY <1>1, <1>6 DEF TablesType
<1> QED BY <1>1, <1>4, <1>5, <1>6, <1>7, TagCovers

LEMMA BearsStable ==
  ASSUME HistoryInv, NEW n \in Nodes, NEW c \in Next1Call(n), c.op \in Steps,
         Makes(n, c) \/ Stops(n, c), NEW p \in 1 .. Len(prog),
         NEW d, NEW i, NEW id
  PROVE  /\ Bears(p, d, i, id)' <=> Bears(p, d, i, id)
         /\ Gat(p)' = Gat(p) /\ Gat(p) \in GatherIndex
<1>1. /\ IsStart(p)' <=> IsStart(p)
      /\ Gat(p)' = Gat(p) /\ IdList(p)' = IdList(p) /\ Gat(p) \in GatherIndex
  BY ProgStable
<1> QED BY <1>1 DEF Bears

(* A call of a node is no receipt.                                         *)
LEMMA GotStays ==
  ASSUME CoreInv, NEW n \in Nodes, NEW c \in Next1Call(n), c.op \in Steps,
         Kinds(n, c), NEW d \in Nodes, NEW id \in Ids
  PROVE  GotBy(d, id)' = GotBy(d, id)
<1>0. HistoryInv /\ Makes(n, c)
  BY KindsMake DEF CoreInv
<1>1. PICK a : a = pc[n] + 1
  OBVIOUS
<1>2. /\ pc[d] \in 0 .. Len(prog) /\ Len(prog) \in Nat /\ a \in Nat
      /\ pc[n] \in 0 .. Len(prog)
  BY <1>0, <1>1, Moves
<1>3. /\ \A p \in 1 .. Len(prog') : p \in 1 .. Len(prog) \/ p = a
      /\ Len(prog) <= Len(prog') /\ Len(prog') \in Nat
  BY <1>0, <1>1, <1>2, ProgGrows, SMTT(30)
<1>4. ASSUME NEW p \in 1 .. Len(prog), NEW i
      PROVE  Bears(p, d, i, id)' /\ ~Waits(d, p, i)'
               <=> Bears(p, d, i, id) /\ ~Waits(d, p, i)
  <2>1. (Bears(p, d, i, id)' <=> Bears(p, d, i, id)) /\ Gat(p)' = Gat(p)
    BY <1>0, BearsStable
  <2>2. CASE ~Bears(p, d, i, id)
    BY <2>1, <2>2
  <2>3. CASE Bears(p, d, i, id)
    <3>1. IsStart(p)' /\ i \in DOMAIN RecvFrom[Gat(p)][d]
      BY <2>1, <2>3 DEF Bears
    <3>2. p \in 1 .. Len(prog')
      BY <1>2, <1>3
    <3>3. Waits(d, p, i)' <=> Waits(d, p, i)
      BY <2>1, <3>1, <3>2, WaitsStep
    <3> QED BY <2>1, <3>3
  <2> QED BY <2>2, <2>3
<1>5. ASSUME NEW p \in 1 .. Len(prog'), p \notin 1 .. Len(prog), NEW i,
             Bears(p, d, i, id)'
      PROVE  Waits(d, p, i)'
  <2>1. p = a /\ p > pc[d]
    BY <1>2, <1>3, <1>5
  <2>2. Waits(d, p, i)
    BY <2>1 DEF Waits
  <2>3. IsStart(p)' /\ i \in DOMAIN RecvFrom[Gat(p)'][d]
    BY <1>5 DEF Bears
  <2>4. ~(p <= pc[d])
    BY <1>2, <2>1
  <2> QED BY <2>2, <2>3, <2>4, WaitsStep
<1>6. \A p : p \in GotBy(d, id)' <=> p \in GotBy(d, id)
  BY <1>2, <1>3, <1>4, <1>5 DEF GotBy
<1> QED BY <1>6

-----------------------------------------------------------------------------
(* A call of do_gather sends one message to d with this id, or none.       *)

SendsOne(n, a, d, id) == \E k : SentIn(a, n, d, k, id)

LEMMA SentGrows ==
  ASSUME CoreInv, NEW n \in Nodes, NEW c \in Next1Call(n), c.op \in Steps,
         Kinds(n, c), NEW a, a = pc[n] + 1, NEW d \in Nodes, NEW id \in Ids
  PROVE  IF SendsOne(n, a, d, id)'
         THEN SentFor(d, id)' = SentFor(d, id) \union {a} /\ a \notin SentFor(d, id)
         ELSE SentFor(d, id)' = SentFor(d, id)
<1>0. HistoryInv /\ Makes(n, c)
  BY KindsMake DEF CoreInv
<1>2. /\ pc \in [Nodes -> Nat] /\ pc' = [pc EXCEPT ![n] = a]
      /\ \A m \in Nodes : pc[m] \in 0 .. Len(prog)
      /\ Len(prog) \in Nat /\ a \in Nat /\ a \in 1 .. Len(prog')
      /\ prog'[a].call = c /\ prog'[a].after \in TablesType /\ c.tag \in Tags
  BY <1>0, Moves
<1>3. /\ \A p \in 1 .. Len(prog') : p \in 1 .. Len(prog) \/ p = a
      /\ Len(prog) <= Len(prog') /\ Len(prog') \in Nat
  BY <1>0, <1>2, ProgGrows
<1>4. ASSUME NEW p \in 1 .. Len(prog), p /= a, NEW i
      PROVE  Bears(p, d, i, id)' /\ pc'[RecvFrom[Gat(p)'][d][i]] >= p
               <=> Bears(p, d, i, id) /\ pc[RecvFrom[Gat(p)][d][i]] >= p
  <2>1. /\ Bears(p, d, i, id)' <=> Bears(p, d, i, id)
        /\ Gat(p)' = Gat(p) /\ Gat(p) \in GatherIndex
    BY <1>0, BearsStable
  <2>2. CASE ~Bears(p, d, i, id)
    BY <2>1, <2>2
  <2>3. CASE Bears(p, d, i, id)
    <3>1. PICK s : s = RecvFrom[Gat(p)][d][i]
      OBVIOUS
    <3>2. s \in Nodes
      <4>1. RecvFrom[Gat(p)][d] \in Seq(Nodes)
        BY <2>1, TablesAssumption
      <4> QED BY <2>3, <3>1, <4>1 DEF Bears
    <3>3. pc'[s] >= p <=> pc[s] >= p
      BY <1>2, <1>4, <3>2
    <3> QED BY <2>1, <3>1, <3>3
  <2> QED BY <2>2, <2>3
<1>5. \A p : p /= a => (p \in SentFor(d, id)' <=> p \in SentFor(d, id))
  BY <1>2, <1>3, <1>4, SMTT(30) DEF SentFor
<1>6. PICK g : g = Gat(a)'
  OBVIOUS
<1>7. g \in GatherIndex
  BY <1>2, <1>6 DEF Gat, Tag, TablesType
<1>8. ASSUME a \in 1 .. Len(prog)
      PROVE  /\ Gat(a) = g
             /\ \A i : Bears(a, d, i, id)' <=> Bears(a, d, i, id)
  BY <1>0, <1>6, <1>8, BearsStable
<1>9. CASE SendsOne(n, a, d, id)'
  <2>1. PICK k : SentIn(a, n, d, k, id)'
    BY <1>9 DEF SendsOne
  <2>2. PICK i : i = SendId[g][n][k]
    OBVIOUS
  <2>3. /\ IsStart(a)' /\ k \in DOMAIN SendTo[g][n] /\ SendTo[g][n][k] = d
        /\ IdList(a)'[i] = id
    BY <1>6, <2>1, <2>2 DEF SentIn, Slot
  <2>4. i \in DOMAIN RecvFrom[g][d] /\ RecvFrom[g][d][i] = n
    BY <1>7, <2>2, <2>3, PairFits
  <2>5. Bears(a, d, i, id)'
    BY <1>6, <2>3, <2>4 DEF Bears
  <2>6. a \in SentFor(d, id)'
    BY <1>2, <1>6, <2>4, <2>5 DEF SentFor
  <2>7. a \notin SentFor(d, id)
    <3> SUFFICES ASSUME a \in SentFor(d, id) PROVE FALSE
      OBVIOUS
    <3>1. PICK j : Bears(a, d, j, id) /\ pc[RecvFrom[Gat(a)][d][j]] >= a
      BY DEF SentFor
    <3>2. a \in 1 .. Len(prog)
      BY DEF SentFor
    <3>3. Bears(a, d, j, id)' /\ Gat(a) = g
      BY <1>8, <3>1, <3>2
    <3>4. /\ j \in DOMAIN RecvFrom[g][d] /\ IdList(a)'[j] = id
      BY <1>6, <3>3 DEF Bears
    <3>5. i = j
      <4>1. DoesStart(n, c)
        BY <1>2, <2>3 DEF IsStart, Kinds, DoesWait, DoesCleanup, DoesOther
      <4>2. PICK f : f = IdList(a)'
        OBVIOUS
      <4>3. \A x, y \in DOMAIN RecvFrom[g][d] : f[x] = f[y] => x = y
        BY <1>6, <4>1, <4>2, StartCovers
      <4> QED BY <2>3, <2>4, <3>4, <4>2, <4>3
    <3>6. pc[n] >= a
      BY <2>4, <3>1, <3>3, <3>5
    <3> QED BY <1>2, <3>6
  <2> QED BY <1>5, <1>9, <2>6, <2>7
<1>10. CASE ~SendsOne(n, a, d, id)'
  <2>1. ASSUME NEW i, Bears(a, d, i, id)'
        PROVE  /\ RecvFrom[g][d][i] \in Nodes
               /\ RecvFrom[g][d][i] /= n
    <3>1. i \in DOMAIN RecvFrom[g][d] /\ IsStart(a)' /\ IdList(a)'[i] = id
      BY <1>6, <2>1 DEF Bears
    <3>2. RecvFrom[g][d] \in Seq(Nodes)
      BY <1>7, TablesAssumption
    <3>3. ASSUME RecvFrom[g][d][i] = n PROVE FALSE
      <4>1. PICK k \in DOMAIN SendTo[g][n] : SendTo[g][n][k] = d /\ SendId[g][n][k] = i
        BY <1>7, <3>1, <3>3, PairingAssumption, SMTT(60)
      <4>2. SentIn(a, n, d, k, id)'
        BY <1>6, <3>1, <4>1 DEF SentIn, Slot
      <4> QED BY <1>10, <4>2 DEF SendsOne
    <3> QED BY <3>1, <3>2, <3>3
  <2>2. ASSUME NEW i, Bears(a, d, i, id)', pc'[RecvFrom[g][d][i]] >= a
        PROVE  a \in SentFor(d, id)
    <3>1. PICK s \in Nodes : s = RecvFrom[g][d][i] /\ s /= n
      BY <2>1, <2>2
    <3>2. pc[s] >= a
      BY <1>2, <2>2, <3>1
    <3>3. a \in 1 .. Len(prog)
      BY <1>2, <3>2
    <3> QED BY <1>8, <2>2, <3>1, <3>2, <3>3 DEF SentFor
  <2>3. ASSUME a \in SentFor(d, id) PROVE a \in SentFor(d, id)'
    <3>1. PICK j : Bears(a, d, j, id) /\ pc[RecvFrom[Gat(a)][d][j]] >= a
      BY <2>3 DEF SentFor
    <3>2. a \in 1 .. Len(prog)
      BY <2>3 DEF SentFor
    <3>3. Bears(a, d, j, id)' /\ Gat(a) = g
      BY <1>8, <3>1, <3>2
    <3>4. PICK s \in Nodes : s = RecvFrom[g][d][j] /\ s /= n
      BY <2>1, <3>3
    <3>5. pc'[s] >= a
      BY <1>2, <3>1, <3>3, <3>4
    <3> QED BY <1>2, <1>6, <3>3, <3>4, <3>5 DEF SentFor
  <2>4. a \in SentFor(d, id)' => a \in SentFor(d, id)
    BY <1>6, <2>2 DEF SentFor
  <2> QED BY <1>5, <1>10, <2>3, <2>4
<1> QED BY <1>9, <1>10

LEMMA FlightGrows ==
  ASSUME CoreInv, NEW n \in Nodes, NEW c \in Next1Call(n), c.op \in Steps,
         Kinds(n, c), NEW a, a = pc[n] + 1, NEW d \in Nodes, NEW id \in Ids
  PROVE  IF SendsOne(n, a, d, id)'
         THEN /\ InFlight(d, id)' = InFlight(d, id) \union {<<n, a>>}
              /\ <<n, a>> \notin InFlight(d, id)
         ELSE InFlight(d, id)' = InFlight(d, id)
<1>0. HistoryInv /\ MsgType /\ QueueInv /\ Makes(n, c)
  BY KindsMake DEF CoreInv
<1>2. pc[n] \in Nat /\ a \in Nat
  BY <1>0, Moves
<1>3. \A s \in Nodes : Grows(n, a, s, d, id)
  BY <1>0, QueueGrows
<1>4. <<n, a>> \notin InFlight(d, id)
  <2>1. \A x \in DOMAIN net[n][d][id] : net[n][d][id][x].at \in 1 .. pc[n]
    BY <1>0 DEF QueueInv, Sound
  <2> QED BY <1>2, <2>1 DEF InFlight
<1>5. ASSUME NEW s \in Nodes, ~(s = n /\ SendsOne(n, a, d, id)')
      PROVE  net'[s][d][id] = net[s][d][id]
  BY <1>3, <1>5 DEF Grows, SendsOne
<1>6. CASE ~SendsOne(n, a, d, id)'
  BY <1>5, <1>6 DEF InFlight
<1>7. CASE SendsOne(n, a, d, id)'
  <2>1. PICK m \in Msg : m.at = a /\ net'[n][d][id] = Append(net[n][d][id], m)
    BY <1>3, <1>7 DEF Grows, SendsOne, SentIn
  <2>2. PICK queue : queue = net[n][d][id]
    OBVIOUS
  <2>3. queue \in Seq(Msg)
    BY <1>0, <2>2 DEF MsgType
  <2>4. ASSUME NEW v \in Nat
        PROVE  (\E x \in DOMAIN net'[n][d][id] : net'[n][d][id][x].at = v)
                 <=> (\E x \in DOMAIN queue : queue[x].at = v) \/ v = a
    <3>1. PICK longer : longer = Append(queue, m)
      OBVIOUS
    <3>2. net'[n][d][id] = longer
      BY <2>1, <2>2, <3>1, Zenon
    <3>3. (\E x \in DOMAIN longer : longer[x].at = v)
            <=> (\E x \in DOMAIN queue : queue[x].at = v) \/ v = m.at
      BY <2>3, <3>1, AppendAt
    <3> QED BY <2>1, <3>2, <3>3, Zenon
  <2>5. ASSUME NEW y \in Nodes \X Nat
        PROVE  y \in InFlight(d, id)' <=> y \in InFlight(d, id) \/ y = <<n, a>>
    <3>1. PICK s \in Nodes, v \in Nat : y = <<s, v>>
      OBVIOUS
    <3>2. CASE s /= n
      BY <1>5, <3>1, <3>2 DEF InFlight
    <3>3. CASE s = n
      <4>1. y \in InFlight(d, id)' <=>
              \E x \in DOMAIN net'[n][d][id] : net'[n][d][id][x].at = v
        BY <3>1, <3>3 DEF InFlight
      <4>2. y \in InFlight(d, id) <=> \E x \in DOMAIN queue : queue[x].at = v
        BY <2>2, <3>1, <3>3 DEF InFlight
      <4>3. y = <<n, a>> <=> v = a
        BY <3>1, <3>3
      <4> QED BY <2>4, <4>1, <4>2, <4>3
    <3> QED BY <3>2, <3>3
  <2>6. <<n, a>> \in Nodes \X Nat
    BY <1>2
  <2>7. InFlight(d, id)' \subseteq Nodes \X Nat /\ InFlight(d, id) \subseteq Nodes \X Nat
    BY DEF InFlight
  <2>8. InFlight(d, id)' = InFlight(d, id) \union {<<n, a>>}
    BY <2>5, <2>6, <2>7
  <2> QED BY <1>4, <1>7, <2>8
<1> QED BY <1>6, <1>7

-----------------------------------------------------------------------------
(* A match moves one message from the network to a gather.                 *)

LEMMA FlightTaken ==
  ASSUME CoreInv, NEW s \in Nodes, NEW d \in Nodes, NEW t \in Tags, NEW id \in Ids,
         NEW i \in Nat, Takes(s, d, t, id, i), NEW e \in Nodes, NEW j \in Ids
  PROVE  IF e = d /\ j = id
         THEN \E y \in InFlight(e, j) : InFlight(e, j)' = InFlight(e, j) \ {y}
         ELSE InFlight(e, j)' = InFlight(e, j)
<1>0. MsgType /\ QueueInv
  BY DEF CoreInv
<1>1. NetTaken(s, d, id)
  BY <1>0, MatchNet
<1>2. CASE ~(e = d /\ j = id)
  BY <1>1, <1>2 DEF NetTaken, InFlight
<1>3. CASE e = d /\ j = id
  <2>1. PICK queue : queue = net[s][d][id]
    OBVIOUS
  <2>2. queue \in Seq(Msg) /\ queue /= <<>> /\ Ordered(queue)
    BY <1>0, <2>1 DEF MsgType, QueueInv, Takes
  <2>3. PICK v \in Nat : v = queue[1].at
    <3>1. queue[1] \in Msg
      BY <2>2
    <3> QED BY <3>1 DEF Msg
  <2>4. ASSUME NEW u \in Nat
        PROVE  (\E x \in DOMAIN Tail(queue) : Tail(queue)[x].at = u)
                 <=> (\E x \in DOMAIN queue : queue[x].at = u) /\ u /= v
    <3>1. ASSUME NEW x \in DOMAIN Tail(queue), Tail(queue)[x].at = u
          PROVE  (\E z \in DOMAIN queue : queue[z].at = u) /\ u /= v
      <4>1. /\ x + 1 \in DOMAIN queue /\ queue[x + 1].at = u
            /\ 1 \in DOMAIN queue /\ 1 < x + 1
        BY <2>2, <3>1, TailOf
      <4>2. queue[1].at < queue[x + 1].at
        BY <2>2, <4>1 DEF Ordered
      <4> QED BY <2>3, <4>1, <4>2
    <3>2. ASSUME NEW x \in DOMAIN queue, queue[x].at = u, u /= v
          PROVE  \E z \in DOMAIN Tail(queue) : Tail(queue)[z].at = u
      <4>1. x /= 1
        BY <2>3, <3>2
      <4> QED BY <2>2, <3>2, <4>1, TailOf
    <3> QED BY <3>1, <3>2
  <2>5. /\ net'[s][d][id] = Tail(queue)
        /\ \A r \in Nodes : r /= s => net'[r][d][id] = net[r][d][id]
    BY <1>1, <2>1 DEF NetTaken
  <2>6. <<s, v>> \in InFlight(d, id)
    BY <2>1, <2>2, <2>3, TailOf DEF InFlight
  <2>7. ASSUME NEW y \in Nodes \X Nat
        PROVE  y \in InFlight(d, id)' <=> y \in InFlight(d, id) /\ y /= <<s, v>>
    <3>1. PICK r \in Nodes, u \in Nat : y = <<r, u>>
      OBVIOUS
    <3>2. CASE r /= s
      BY <2>5, <3>1, <3>2 DEF InFlight
    <3>3. CASE r = s
      <4>1. y \in InFlight(d, id)' <=> \E x \in DOMAIN Tail(queue) : Tail(queue)[x].at = u
        BY <2>5, <3>1, <3>3 DEF InFlight
      <4>2. y \in InFlight(d, id) <=> \E x \in DOMAIN queue : queue[x].at = u
        BY <2>1, <3>1, <3>3 DEF InFlight
      <4>3. y = <<s, v>> <=> u = v
        BY <3>1, <3>3
      <4> QED BY <2>4, <4>1, <4>2, <4>3
    <3> QED BY <3>2, <3>3
  <2>8. InFlight(d, id)' \subseteq Nodes \X Nat /\ InFlight(d, id) \subseteq Nodes \X Nat
    BY DEF InFlight
  <2>9. InFlight(d, id)' = InFlight(d, id) \ {<<s, v>>}
    BY <2>7, <2>8
  <2> QED BY <1>3, <2>6, <2>9
<1> QED BY <1>2, <1>3

LEMMA GotOne ==
  ASSUME CoreInv, NEW s \in Nodes, NEW d \in Nodes, NEW t \in Tags, NEW id \in Ids,
         NEW i \in Nat, Takes(s, d, t, id, i), NEW e \in Nodes, NEW j \in Ids
  PROVE  IF e = d /\ j = id
         THEN \E p : p \notin GotBy(e, j) /\ GotBy(e, j)' = GotBy(e, j) \union {p}
         ELSE GotBy(e, j)' = GotBy(e, j)
<1>0. HistoryInv /\ MsgType /\ PlacesInv /\ FilledInv /\ SlotInv /\ pc[d] \in Nat
  BY DEF CoreInv, HistoryInv, ProgType
<1>1. PICK p \in 1 .. pc[d] :
        /\ p \in 1 .. Len(prog) /\ IsStart(p) /\ Tag(p) = t /\ Latest(p, pc[d])
        /\ loc[d].g[t] = Gat(p) /\ loc[d].ids[t] = IdList(p) /\ InGather(d, p)
  BY <1>0, TagGather DEF Takes
<1>2. i \in DOMAIN RecvFrom[Gat(p)][d] /\ IdList(p)[i] = id
  BY <1>0, <1>1 DEF SlotInv, Takes
<1>3. \A k \in DOMAIN RecvFrom[Gat(p)][d] : IdList(p)[k] = id => k = i
  BY <1>0, <1>1, <1>2, IdsCover
<1>4. Waits(d, p, i)
  BY <1>1 DEF Waits, Takes
<1>5. \A q \in 1 .. pc[d] : InGather(d, q) /\ Tag(q) = t => q = p
  <2> SUFFICES ASSUME NEW q \in 1 .. pc[d], InGather(d, q), Tag(q) = t PROVE q = p
    OBVIOUS
  <2>1. Latest(q, pc[d]) /\ IsStart(q)
    BY <1>0, GatherHeld DEF InGather
  <2>2. PICK b \in Nat : b = pc[d]
    BY <1>0
  <2> QED BY <1>1, <2>1, <2>2, LatestUnique
<1>6. \A r \in Nodes, q \in Nat : \A k :
        Waits(r, q, k)' <=> Waits(r, q, k) /\ ~(r = d /\ InGather(d, q) /\ Tag(q) = t /\ k = i)
  BY WaitsMatch
<1>7. ASSUME NEW q \in 1 .. Len(prog), NEW k
      PROVE  Waits(e, q, k)' <=> Waits(e, q, k) /\ ~(e = d /\ q = p /\ k = i)
  <2>1. InGather(d, q) => q \in 1 .. pc[d]
    BY DEF InGather
  <2>2. InGather(d, q) /\ Tag(q) = t <=> q = p
    BY <1>1, <1>5, <2>1
  <2> QED BY <1>6, <2>2
<1>8. prog' = prog /\ \A q, k : Bears(q, e, k, j)' <=> Bears(q, e, k, j)
  BY DEF Takes, Bears, IsStart, Gat, IdList, Tag
<1>9. \A q : q \in GotBy(e, j)' <=>
               /\ q \in 1 .. Len(prog)
               /\ \E k : Bears(q, e, k, j) /\ ~(Waits(e, q, k) /\ ~(e = d /\ q = p /\ k = i))
  BY <1>7, <1>8 DEF GotBy
<1>10. CASE ~(e = d /\ j = id)
  <2>1. e = d => ~Bears(p, e, i, j)
    BY <1>2, <1>10 DEF Bears
  <2>2. \A q : q \in GotBy(e, j)' <=> q \in GotBy(e, j)
    BY <1>9, <2>1 DEF GotBy
  <2> QED BY <1>10, <2>2
<1>11. CASE e = d /\ j = id
  <2>1. Bears(p, d, i, id)
    BY <1>1, <1>2 DEF Bears
  <2>2. p \notin GotBy(d, id)
    BY <1>3, <1>4 DEF GotBy, Bears
  <2>3. \A q : q \in GotBy(e, j)' <=> q \in GotBy(e, j) \/ q = p
    BY <1>1, <1>9, <1>11, <2>1 DEF GotBy
  <2>4. GotBy(e, j)' = GotBy(e, j) \union {p}
    BY <2>3
  <2> QED BY <1>11, <2>2, <2>4
<1> QED BY <1>10, <1>11

-----------------------------------------------------------------------------
(* The count is kept by every step.                                        *)

LEMMA CountInit == Init => CountInv
<1> SUFFICES ASSUME Init, NEW d \in Nodes, NEW id \in Ids
             PROVE  Balanced(SentFor(d, id), InFlight(d, id), GotBy(d, id))
  BY DEF CountInv
<1>1. Len(prog) = 0 /\ \A s \in Nodes : DOMAIN net[s][d][id] = {}
  BY DEF Init
<1>2. SentFor(d, id) = {} /\ GotBy(d, id) = {} /\ InFlight(d, id) = {}
  BY <1>1 DEF SentFor, GotBy, InFlight
<1> QED BY <1>2, FS_EmptySet DEF Balanced

LEMMA CountMade ==
  ASSUME CoreInv, CountInv, NEW n \in Nodes, NEW c \in Next1Call(n), c.op \in Steps,
         Kinds(n, c)
  PROVE  CountInv'
<1>1. PICK a : a = pc[n] + 1
  OBVIOUS
<1>2. ASSUME NEW d \in Nodes, NEW id \in Ids
      PROVE  Balanced(SentFor(d, id)', InFlight(d, id)', GotBy(d, id)')
  <2>1. Balanced(SentFor(d, id), InFlight(d, id), GotBy(d, id))
    BY DEF CountInv
  <2>2. GotBy(d, id)' = GotBy(d, id)
    BY GotStays
  <2>3. IF SendsOne(n, a, d, id)'
        THEN SentFor(d, id)' = SentFor(d, id) \union {a} /\ a \notin SentFor(d, id)
        ELSE SentFor(d, id)' = SentFor(d, id)
    BY <1>1, SentGrows
  <2>4. IF SendsOne(n, a, d, id)'
        THEN /\ InFlight(d, id)' = InFlight(d, id) \union {<<n, a>>}
             /\ <<n, a>> \notin InFlight(d, id)
        ELSE InFlight(d, id)' = InFlight(d, id)
    BY <1>1, FlightGrows
  <2>5. CASE SendsOne(n, a, d, id)'
    BY <2>1, <2>2, <2>3, <2>4, <2>5, BalancedSent
  <2>6. CASE ~SendsOne(n, a, d, id)'
    BY <2>1, <2>2, <2>3, <2>4, <2>6
  <2> QED BY <2>5, <2>6
<1> QED BY <1>2 DEF CountInv, Balanced

LEMMA CountStopped ==
  ASSUME CoreInv, CountInv, NEW n \in Nodes, NEW c \in Next1Call(n), c.op \in Steps,
         DoesStop(n, c)
  PROVE  CountInv'
<1>0. HistoryInv /\ Stops(n, c) /\ pc' = pc /\ recvs' = recvs /\ net' = net
  BY DEF CoreInv, DoesStop, Stops, Terminate
<1>1. /\ pc \in [Nodes -> Nat] /\ \A m \in Nodes : pc[m] <= Len(prog)
      /\ Len(prog) \in Nat
  BY <1>0 DEF HistoryInv, ProgType
<1>2. /\ \A p \in 1 .. Len(prog') : p \in 1 .. Len(prog) \/ p = pc[n] + 1
      /\ Len(prog) <= Len(prog') /\ Len(prog') \in Nat
  BY <1>0, <1>1, ProgGrows
<1>3. ASSUME NEW d \in Nodes, NEW id \in Ids
      PROVE  /\ SentFor(d, id)' = SentFor(d, id) /\ InFlight(d, id)' = InFlight(d, id)
             /\ GotBy(d, id)' = GotBy(d, id)
  <2>1. ASSUME NEW p \in 1 .. Len(prog), NEW i
        PROVE  /\ Bears(p, d, i, id)' <=> Bears(p, d, i, id)
               /\ Gat(p)' = Gat(p)
               /\ Waits(d, p, i)' <=> Waits(d, p, i)
    <3>1. (Bears(p, d, i, id)' <=> Bears(p, d, i, id)) /\ Gat(p)' = Gat(p)
      BY <1>0, BearsStable
    <3>2. Waits(d, p, i)' <=> Waits(d, p, i)
      <4>1. PICK b : b = pc[d]
        OBVIOUS
      <4>2. (IsStart(p)' <=> IsStart(p)) /\ Tag(p)' = Tag(p)
        BY <1>0, ProgStable
      <4>3. CASE p \in 1 .. b
        <5>1. b \in 1 .. Len(prog)
          BY <1>1, <4>1, <4>3
        <5>2. Unwaited(p, b)' <=> Unwaited(p, b)
          BY <1>0, <4>3, <5>1, IntervalStable
        <5>3. InGather(d, p)' <=> InGather(d, p)
          BY <1>0, <4>1, <4>2, <4>3, <5>2 DEF InGather
        <5> QED BY <1>0, <4>2, <5>3 DEF Waits
      <4>4. CASE p \notin 1 .. b
        BY <1>0, <1>1, <4>1, <4>4 DEF Waits
      <4> QED BY <4>3, <4>4
    <3> QED BY <3>1, <3>2
  <2>2. ASSUME NEW p \in 1 .. Len(prog'), p \notin 1 .. Len(prog), NEW i,
               Bears(p, d, i, id)'
        PROVE  ~(pc[RecvFrom[Gat(p)'][d][i]] >= p) /\ Waits(d, p, i)'
    <3>1. p = pc[n] + 1 /\ \A m \in Nodes : p > pc[m]
      BY <1>1, <1>2, <2>2
    <3>2. Gat(p)' \in GatherIndex
      <4>1. PICK a : a = p
        OBVIOUS
      <4>2. /\ prog'[a].call = c
            /\ prog'[a].after = IF Blocked(loc[n], c) THEN loc[n] ELSE Effect(loc[n], c)
        BY <1>0, <3>1, <4>1, ProgGrows
      <4>3. prog'[a].after = loc[n] /\ loc[n] \in TablesType
        BY <1>0, <4>2, LocExact DEF Stops
      <4>4. c.tag \in Tags
        BY <1>0, NextCallFits DEF Call
      <4> QED BY <4>1, <4>2, <4>3, <4>4 DEF Gat, Tag, TablesType
    <3>3. RecvFrom[Gat(p)'][d][i] \in Nodes
      <4>1. PICK g : g = Gat(p)'
        OBVIOUS
      <4>2. RecvFrom[g][d] \in Seq(Nodes)
        BY <3>2, <4>1, TablesAssumption
      <4> QED BY <2>2, <4>1, <4>2 DEF Bears
    <3>4. pc[RecvFrom[Gat(p)'][d][i]] \in Nat
      BY <1>1, <3>3
    <3> QED BY <1>0, <3>1, <3>3, <3>4 DEF Waits
  <2>3. \A p : p \in SentFor(d, id)' <=> p \in SentFor(d, id)
    BY <1>0, <1>1, <1>2, <2>1, <2>2 DEF SentFor
  <2>4. \A p : p \in GotBy(d, id)' <=> p \in GotBy(d, id)
    BY <1>1, <1>2, <2>1, <2>2 DEF GotBy
  <2>5. InFlight(d, id)' = InFlight(d, id)
    BY <1>0 DEF InFlight
  <2> QED BY <2>3, <2>4, <2>5
<1>4. ASSUME NEW d \in Nodes, NEW id \in Ids
      PROVE  Balanced(SentFor(d, id)', InFlight(d, id)', GotBy(d, id)')
  BY <1>3 DEF CountInv
<1> QED BY <1>4 DEF CountInv, Balanced

LEMMA CountMatch ==
  ASSUME CoreInv, CountInv, NEW s \in Nodes, NEW d \in Nodes, Match(s, d)
  PROVE  CountInv'
<1>0. MsgType
  BY DEF CoreInv
<1>1. PICK t \in Tags, id \in Ids, i \in Nat : Takes(s, d, t, id, i)
  BY <1>0, MatchTakes
<1>2. ASSUME NEW e \in Nodes, NEW j \in Ids
      PROVE  Balanced(SentFor(e, j)', InFlight(e, j)', GotBy(e, j)')
  <2>1. Balanced(SentFor(e, j), InFlight(e, j), GotBy(e, j))
    BY DEF CountInv
  <2>2. SentFor(e, j)' = SentFor(e, j)
    BY <1>1 DEF Takes, SentFor, Bears, IsStart, Gat, IdList, Tag
  <2>3. IF e = d /\ j = id
        THEN \E y \in InFlight(e, j) : InFlight(e, j)' = InFlight(e, j) \ {y}
        ELSE InFlight(e, j)' = InFlight(e, j)
    BY <1>1, FlightTaken
  <2>4. IF e = d /\ j = id
        THEN \E p : p \notin GotBy(e, j) /\ GotBy(e, j)' = GotBy(e, j) \union {p}
        ELSE GotBy(e, j)' = GotBy(e, j)
    BY <1>1, GotOne
  <2>5. CASE e = d /\ j = id
    <3>1. PICK y \in InFlight(e, j) : InFlight(e, j)' = InFlight(e, j) \ {y}
      BY <2>3, <2>5
    <3>2. PICK p : p \notin GotBy(e, j) /\ GotBy(e, j)' = GotBy(e, j) \union {p}
      BY <2>4, <2>5
    <3> QED BY <2>1, <2>2, <3>1, <3>2, BalancedGot
  <2>6. CASE ~(e = d /\ j = id)
    BY <2>1, <2>2, <2>3, <2>4, <2>6
  <2> QED BY <2>5, <2>6
<1> QED BY <1>2 DEF CountInv, Balanced

LEMMA CountKept ==
  ASSUME CountInv, UNCHANGED vars
  PROVE  CountInv'
<1>1. prog' = prog /\ pc' = pc /\ recvs' = recvs /\ net' = net
  BY DEF vars
<1>2. ASSUME NEW d \in Nodes, NEW id \in Ids
      PROVE  /\ SentFor(d, id)' = SentFor(d, id) /\ InFlight(d, id)' = InFlight(d, id)
             /\ GotBy(d, id)' = GotBy(d, id)
  <2>1. \A p, i : /\ Bears(p, d, i, id)' <=> Bears(p, d, i, id)
                  /\ Waits(d, p, i)' <=> Waits(d, p, i)
                  /\ Gat(p)' = Gat(p)
    BY <1>1 DEF Bears, Waits, InGather, Unwaited, IsWait, IsStart, Gat, IdList, Tag
  <2> QED BY <1>1, <2>1 DEF SentFor, InFlight, GotBy
<1>3. ASSUME NEW d \in Nodes, NEW id \in Ids
      PROVE  Balanced(SentFor(d, id)', InFlight(d, id)', GotBy(d, id)')
  BY <1>2 DEF CountInv
<1> QED BY <1>3 DEF CountInv, Balanced

(***************************************************************************)
(* Of the messages for a node with one id, as many were sent as are under  *)
(* way or were received, whichever receive took which message.             *)
(***************************************************************************)
THEOREM MessagesCounted == Spec => []CountInv
<1>1. Init => CountInv
  BY CountInit
<1>2. ArrivalInv /\ CountInv /\ [Next]_vars => CountInv'
  <2> SUFFICES ASSUME ArrivalInv, CountInv, [Next]_vars PROVE CountInv'
    OBVIOUS
  <2>0. CoreInv /\ HistoryInv
    BY DEF ArrivalInv, CoreInv
  <2>1. ASSUME NEW n \in Nodes, Step(n) PROVE CountInv'
    <3>1. PICK c \in Next1Call(n) : c.op \in Steps /\ (Kinds(n, c) \/ DoesStop(n, c))
      BY <2>0, <2>1, StepKinds DEF Kinds
    <3> QED BY <2>0, <3>1, CountMade, CountStopped
  <2>2. ASSUME NEW s \in Nodes, NEW d \in Nodes, Match(s, d) PROVE CountInv'
    BY <2>0, <2>2, CountMatch
  <2>3. CASE UNCHANGED vars
    BY <2>3, CountKept
  <2> QED BY <2>1, <2>2, <2>3 DEF Next
<1> QED BY <1>1, <1>2, ArrivalInvariant, PTL DEF Spec

(***************************************************************************)
(* When all nodes have come to the end of the program and have waited for  *)
(* all gathers, no message is left in the network: each was taken by some  *)
(* wait_gather, even where ids were reused with nothing to hold a node up. *)
(***************************************************************************)
THEOREM NothingIsLeft == Spec => []NothingLeft
<1>1. ArrivalInv /\ CountInv => NothingLeft
  <2> SUFFICES ASSUME ArrivalInv, CountInv,
                      \A n \in Nodes : /\ pc[n] = Len(prog)
                                       /\ \A t \in Tags : loc[n].phase[t] /= "started",
                      NEW s \in Nodes, NEW d \in Nodes, NEW id \in Ids
               PROVE  net[s][d][id] = <<>>
    BY DEF NothingLeft
  <2>0. HistoryInv /\ MsgType /\ PlacesInv
    BY DEF ArrivalInv, CoreInv
  <2>1. Len(prog) \in Nat /\ pc[d] = Len(prog)
    BY <2>0 DEF HistoryInv, ProgType
  <2>2. ASSUME NEW p \in 1 .. Len(prog), NEW i PROVE ~Waits(d, p, i)
    <3>1. ~InGather(d, p)
      BY <2>0, GatherHeld
    <3> QED BY <2>1, <3>1 DEF Waits
  <2>3. ASSUME NEW p \in 1 .. Len(prog), NEW i, Bears(p, d, i, id)
        PROVE  pc[RecvFrom[Gat(p)][d][i]] >= p
    <3>1. Gat(p) \in GatherIndex
      BY <2>0, PlaceTyped
    <3>2. RecvFrom[Gat(p)][d] \in Seq(Nodes)
      BY <3>1, TablesAssumption
    <3>3. RecvFrom[Gat(p)][d][i] \in Nodes
      BY <2>3, <3>2 DEF Bears
    <3> QED BY <2>1, <3>3
  <2>4. SentFor(d, id) = GotBy(d, id)
    BY <2>2, <2>3 DEF SentFor, GotBy
  <2>5. Balanced(SentFor(d, id), InFlight(d, id), GotBy(d, id))
    BY DEF CountInv
  <2>6. InFlight(d, id) = {}
    <3>1. Cardinality(InFlight(d, id)) \in Nat /\ Cardinality(GotBy(d, id)) \in Nat
      BY <2>5, FS_CardinalityType DEF Balanced
    <3>2. Cardinality(InFlight(d, id)) = 0
      BY <2>4, <2>5, <3>1 DEF Balanced
    <3> QED BY <2>5, <3>2, FS_EmptySet DEF Balanced
  <2>7. PICK queue : queue = net[s][d][id]
    OBVIOUS
  <2>8. queue \in Seq(Msg)
    BY <2>0, <2>7 DEF MsgType
  <2>9. ASSUME queue /= <<>> PROVE FALSE
    <3>1. 1 \in DOMAIN queue /\ queue[1] \in Msg
      BY <2>8, <2>9
    <3>2. <<s, queue[1].at>> \in InFlight(d, id)
      BY <2>7, <3>1 DEF InFlight, Msg
    <3> QED BY <2>6, <3>2
  <2> QED BY <2>7, <2>9
<1> QED BY <1>1, ArrivalInvariant, MessagesCounted, PTL

-----------------------------------------------------------------------------
(* The calls are those of GatherPromise.                                   *)

(* What GatherPromise sees of a state.                                     *)
Calls == [p \in DOMAIN prog |-> prog[p].call]
Jobs  == [n \in Nodes |-> [t \in Tags |-> AbstractJob(n, t)]]

Starts(n, t) == {p \in 1 .. pc[n] : /\ prog[p].call.tag = t
                                    /\ prog[p].call.op \in {"do", "start"}}

LEMMA StartedAtLatest ==
  ASSUME NEW n \in Nodes, NEW t, NEW p, p \in Starts(n, t), pc[n] \in Nat,
         \A q \in Starts(n, t) : q <= p
  PROVE  StartedAt(n, t) = p
<1>1. \A q \in Starts(n, t) : (\A r \in Starts(n, t) : r <= q) => q = p
  <2> SUFFICES ASSUME NEW q \in Starts(n, t), \A r \in Starts(n, t) : r <= q
               PROVE  q = p
    OBVIOUS
  <2>1. q <= p /\ p <= q /\ q \in Nat /\ p \in Nat
    BY DEF Starts
  <2> QED BY <2>1
<1>2. StartedAt(n, t) = CHOOSE q \in Starts(n, t) : \A r \in Starts(n, t) : r <= q
  BY DEF StartedAt, Starts
<1> QED BY <1>1, <1>2

LEMMA StartedAtGather ==
  ASSUME NEW n \in Nodes, pc[n] \in Nat, NEW p \in 1 .. pc[n], IsStart(p),
         Latest(p, pc[n])
  PROVE  StartedAt(n, Tag(p)) = p
<1>1. p \in Starts(n, Tag(p))
  BY DEF Starts, IsStart, Tag
<1>2. ASSUME NEW q \in Starts(n, Tag(p)), ~(q <= p) PROVE FALSE
  <2>1. q \in p + 1 .. pc[n]
    BY <1>2 DEF Starts
  <2> QED BY <2>1 DEF Latest, IsStart, Tag, Starts
<1> QED BY <1>1, <1>2, StartedAtLatest

LEMMA CallsTyped ==
  ASSUME HistoryInv
  PROVE  /\ Calls \in Seq(Call) /\ Len(Calls) = Len(prog)
         /\ \A p \in 1 .. Len(prog) : Calls[p] = prog[p].call
<1>1. Len(prog) \in Nat /\ DOMAIN prog = 1 .. Len(prog)
  BY DEF HistoryInv, ProgType
<1>2. \A p \in 1 .. Len(prog) : Calls[p] = prog[p].call /\ Calls[p] \in Call
  BY <1>1, CallTyped DEF Calls
<1>3. DOMAIN Calls = 1 .. Len(prog)
  BY <1>1 DEF Calls
<1>4. Calls \in [1 .. Len(prog) -> Call]
  BY <1>2, <1>3 DEF Calls
<1> QED BY <1>1, <1>2, <1>3, <1>4

(* Every node makes the same calls.                                        *)
LEMMA Arrives ==
  ASSUME HistoryInv, HistoryInv', NEW n \in Nodes, NEW c \in Next1Call(n),
         c.op \in Steps, Makes(n, c) \/ Stops(n, c)
  PROVE  /\ c \in Call /\ n \notin stopped
         /\ IF pc[n] < Len(Calls) THEN c = Calls[pc[n] + 1] /\ UNCHANGED Calls
            ELSE Calls' = Append(Calls, c)
<1>1. /\ c \in Call
      /\ pc[n] < Len(prog) => c = prog[pc[n] + 1].call
  BY NextCallFits
<1>2. /\ pc[n] \in Nat /\ Len(prog) \in Nat /\ pc[n] <= Len(prog)
      /\ prog \in Seq([call : Call, after : TablesType])
  BY DEF HistoryInv, ProgType
<1>3. \E l : prog' = IF pc[n] = Len(prog) THEN Append(prog, [call |-> c, after |-> l])
                     ELSE prog
  BY DEF Makes, Stops, Complete, Terminate
<1>4. /\ Calls \in Seq(Call) /\ Len(Calls) = Len(prog)
      /\ \A p \in 1 .. Len(prog) : Calls[p] = prog[p].call
  BY CallsTyped
<1>5. n \notin stopped
  BY DEF Makes, Stops, Complete
<1>6. CASE pc[n] < Len(prog)
  <2>1. prog' = prog
    BY <1>2, <1>3, <1>6
  <2>2. Calls' = Calls
    BY <2>1 DEF Calls
  <2> QED BY <1>1, <1>2, <1>4, <1>5, <1>6, <2>2
<1>7. CASE pc[n] = Len(prog)
  <2>1. PICK l : prog' = Append(prog, [call |-> c, after |-> l])
    BY <1>3, <1>7
  <2>2. /\ Len(prog') = Len(prog) + 1
        /\ DOMAIN prog' = 1 .. Len(prog) + 1
        /\ \A p \in 1 .. Len(prog) : prog'[p] = prog[p]
        /\ prog'[Len(prog) + 1].call = c
    BY <1>2, <2>1
  <2>3. Calls' = [p \in 1 .. Len(prog) + 1 |-> prog'[p].call]
    BY <2>2 DEF Calls
  <2>4. /\ DOMAIN Append(Calls, c) = 1 .. Len(prog) + 1
        /\ \A p \in 1 .. Len(prog) : Append(Calls, c)[p] = Calls[p]
        /\ Append(Calls, c)[Len(prog) + 1] = c
        /\ Append(Calls, c) \in Seq(Call)
    BY <1>1, <1>2, <1>4
  <2>5. \A p \in 1 .. Len(prog) + 1 : prog'[p].call = Append(Calls, c)[p]
    BY <1>2, <1>4, <2>2, <2>4
  <2>6. Calls' = Append(Calls, c)
    <3>1. PICK f : f = Append(Calls, c)
      OBVIOUS
    <3>0. f \in Seq(Call) /\ Len(f) = Len(prog) + 1
      BY <1>1, <1>2, <1>4, <3>1
    <3>2. f \in [1 .. Len(f) -> Call]
      BY <3>0, LenProperties
    <3>3. f = [p \in 1 .. Len(prog) + 1 |-> f[p]]
      BY <3>0, <3>2
    <3> QED BY <2>3, <2>5, <3>1, <3>3
  <2> QED BY <1>1, <1>2, <1>4, <1>5, <1>7, <2>6
<1> QED BY <1>2, <1>6, <1>7

-----------------------------------------------------------------------------
(* Nobody passes a call in which another node stopped.                     *)

LEMMA PassesNoStop ==
  ASSUME HistoryInv, NEW n \in Nodes, NEW c \in Next1Call(n), c.op \in Steps,
         Makes(n, c)
  PROVE  \A m \in stopped : pc[n] < pc[m]
<1> SUFFICES ASSUME NEW m \in stopped, ~(pc[n] < pc[m]) PROVE FALSE
  OBVIOUS
<1>1. /\ m \in Nodes /\ pc[m] \in Nat /\ pc[n] \in Nat
      /\ pc[m] <= pc[n] /\ pc[n] <= Len(prog) /\ Len(prog) \in Nat
  BY DEF HistoryInv, ProgType
<1>2. pc[m] < Len(prog) /\ Blocked(loc[m], prog[pc[m] + 1].call)
  BY DEF HistoryInv, Stuck
<1>3. loc[m] = Before(pc[m] + 1) /\ loc[n] = Before(pc[n] + 1)
  BY <1>1 DEF HistoryInv, AgreeInv
<1>4. CASE pc[m] = pc[n]
  <2>1. c = prog[pc[n] + 1].call
    BY <1>2, <1>4, NextCallFits
  <2> QED BY <1>2, <1>3, <1>4, <2>1 DEF Makes
<1>5. CASE pc[m] < pc[n]
  <2>1. pc[m] + 1 \in 1 .. pc[n]
    BY <1>1, <1>5
  <2>2. ~Blocked(Before(pc[m] + 1), prog[pc[m] + 1].call)
    BY <2>1 DEF HistoryInv, Passed
  <2> QED BY <1>2, <1>3, <2>2
<1> QED BY <1>1, <1>4, <1>5

LEMMA StopsFirst ==
  ASSUME HistoryInv, NEW n \in Nodes, NEW c \in Next1Call(n), c.op \in Steps,
         Stops(n, c)
  PROVE  c.op \in {"prepare", "do", "start"} /\ \A m \in Nodes : pc[m] <= pc[n]
<1>1. c.op \in {"prepare", "do", "start"}
  BY DEF Stops, Blocked
<1> SUFFICES ASSUME NEW m \in Nodes, ~(pc[m] <= pc[n]) PROVE FALSE
  BY <1>1
<1>2. /\ pc[m] \in Nat /\ pc[n] \in Nat /\ pc[n] < pc[m] /\ pc[m] <= Len(prog)
      /\ Len(prog) \in Nat
  BY DEF HistoryInv, ProgType
<1>3. c = prog[pc[n] + 1].call
  BY <1>2, NextCallFits
<1>4. pc[n] + 1 \in 1 .. pc[m]
  BY <1>2
<1>5. ~Blocked(Before(pc[n] + 1), prog[pc[n] + 1].call)
  BY <1>4 DEF HistoryInv, Passed
<1> QED BY <1>3, <1>5 DEF HistoryInv, AgreeInv, Stops

-----------------------------------------------------------------------------
(* What a call leaves of the jobs.                                         *)

LEMMA StartedAtStays ==
  ASSUME HistoryInv, NEW n \in Nodes, NEW c \in Next1Call(n), c.op \in Steps,
         Makes(n, c) \/ Stops(n, c), NEW d \in Nodes, NEW t \in Tags,
         d /= n \/ t /= c.tag \/ c.op \notin {"do", "start"} \/ Stops(n, c)
  PROVE  StartedAt(d, t)' = StartedAt(d, t)
<1>1. PICK a : a = pc[n] + 1
  OBVIOUS
<1>2. /\ pc \in [Nodes -> Nat] /\ \A m \in Nodes : pc[m] \in 0 .. Len(prog)
      /\ Len(prog) \in Nat
  BY DEF HistoryInv, ProgType
<1>3. /\ Makes(n, c) => pc' = [pc EXCEPT ![n] = a]
      /\ Stops(n, c) => pc' = pc
  BY <1>1 DEF Makes, Stops, Complete, Terminate
<1>4. \A p \in 1 .. pc[d] : prog'[p] = prog[p]
  BY <1>2, ProgGrows
<1>5. prog'[a].call = c
  BY <1>1, ProgGrows
<1>6. Starts(d, t)' = Starts(d, t)
  <2>1. \A p \in 1 .. pc[d] : p \in Starts(d, t)' <=> p \in Starts(d, t)
    <3>1. \A p \in 1 .. pc[d] : p \in 1 .. pc'[d]
      BY <1>1, <1>2, <1>3
    <3> QED BY <1>4, <3>1 DEF Starts
  <2>2. ASSUME NEW p \in Starts(d, t)' PROVE p \in 1 .. pc[d]
    <3>1. p \in 1 .. pc'[d] /\ prog'[p].call.tag = t /\ prog'[p].call.op \in {"do", "start"}
      BY <2>2 DEF Starts
    <3>2. CASE Stops(n, c)
      BY <1>3, <3>1, <3>2
    <3>3. CASE Makes(n, c) /\ d /= n
      BY <1>2, <1>3, <3>1, <3>3
    <3>4. CASE Makes(n, c) /\ d = n
      <4>1. p \in 1 .. pc[d] \/ p = a
        BY <1>1, <1>2, <1>3, <3>1, <3>4
      <4>2. ~Stops(n, c)
        BY <3>4 DEF Makes, Stops
      <4>3. p /= a
        BY <1>5, <3>1, <3>4, <4>2
      <4> QED BY <4>1, <4>3
    <3> QED BY <3>2, <3>3, <3>4
  <2>3. \A p \in Starts(d, t) : p \in 1 .. pc[d]
    BY DEF Starts
  <2> QED BY <2>1, <2>2, <2>3
<1>7. StartedAt(d, t) = IF Starts(d, t) = {} THEN 0
                        ELSE CHOOSE p \in Starts(d, t) : \A q \in Starts(d, t) : q <= p
  BY DEF StartedAt, Starts
<1>8. StartedAt(d, t)' = IF Starts(d, t)' = {} THEN 0
                         ELSE CHOOSE p \in Starts(d, t)' : \A q \in Starts(d, t)' : q <= p
  BY DEF StartedAt, Starts
<1> QED BY <1>6, <1>7, <1>8

LEMMA JobStays ==
  ASSUME HistoryInv, MsgType, NEW n \in Nodes, NEW c \in Next1Call(n),
         c.op \in Steps, Kinds(n, c), NEW d \in Nodes, NEW t \in Tags,
         d /= n \/ t /= c.tag \/ c.op = "sync"
  PROVE  AbstractJob(d, t)' = AbstractJob(d, t)
<1>0. Makes(n, c)
  BY KindsMake
<1>1. loc'[d].phase[t] = loc[d].phase[t] /\ loc'[d].g[t] = loc[d].g[t]
  BY <1>0, TagsAfter
<1>2. recvs'[d][t] = recvs[d][t]
  BY RecvsStay
<1>3. StartedAt(d, t)' = StartedAt(d, t)
  BY <1>0, StartedAtStays
<1> QED BY <1>1, <1>2, <1>3 DEF AbstractJob

LEMMA JobsChange ==
  ASSUME HistoryInv, MsgType, NEW n \in Nodes, NEW c \in Next1Call(n),
         c.op \in Steps, Kinds(n, c), NEW j, j = AbstractJob(n, c.tag)'
  PROVE  Jobs' = [Jobs EXCEPT ![n][c.tag] = j]
<1>1. c.tag \in Tags
  BY NextCallFits DEF Call
<1>2. \A d \in Nodes, t \in Tags :
        Jobs'[d][t] = IF d = n /\ t = c.tag THEN j ELSE Jobs[d][t]
  <2> SUFFICES ASSUME NEW d \in Nodes, NEW t \in Tags
               PROVE  Jobs'[d][t] = IF d = n /\ t = c.tag THEN j ELSE Jobs[d][t]
    OBVIOUS
  <2>1. Jobs'[d][t] = AbstractJob(d, t)' /\ Jobs[d][t] = AbstractJob(d, t)
    BY DEF Jobs
  <2>2. CASE d = n /\ t = c.tag
    BY <2>1, <2>2
  <2>3. CASE ~(d = n /\ t = c.tag)
    BY <2>1, <2>3, JobStays
  <2> QED BY <2>2, <2>3
<1>3. PICK J, K : J = Jobs /\ K = Jobs'
  OBVIOUS
<1>4. /\ J = [d \in Nodes |-> [t \in Tags |-> J[d][t]]]
      /\ K = [d \in Nodes |-> [t \in Tags |-> K[d][t]]]
  BY <1>3 DEF Jobs
<1>5. K = [J EXCEPT ![n][c.tag] = j]
  <2>1. \A d \in Nodes, t \in Tags : K[d][t] = IF d = n /\ t = c.tag THEN j ELSE J[d][t]
    BY <1>2, <1>3
  <2>2. PICK row : row = [J[n] EXCEPT ![c.tag] = j]
    OBVIOUS
  <2>3. J[n] = [t \in Tags |-> J[n][t]] /\ K[n] = [t \in Tags |-> K[n][t]]
    BY <1>4
  <2>4. row = [t \in Tags |-> IF t = c.tag THEN j ELSE J[n][t]]
    BY <2>2, <2>3
  <2>5. K[n] = row
    BY <2>1, <2>3, <2>4
  <2>6. \A d \in Nodes : d /= n => K[d] = J[d]
    BY <1>4, <2>1
  <2>7. K = [J EXCEPT ![n] = row]
    BY <1>4, <2>5, <2>6
  <2> QED BY <2>2, <2>7
<1> QED BY <1>3, <1>5

-----------------------------------------------------------------------------
(* Call by call.                                                           *)

LEMMA DeclaredLeaves ==
  ASSUME NEW l \in TablesType, NEW t \in Tags, NEW g \in GatherIndex
  PROVE  Declared(l, t, g).phase[t] = "declared" /\ Declared(l, t, g).g[t] = g
BY DEF Declared, TablesType

LEMMA FreedLeaves ==
  ASSUME NEW l \in TablesType, NEW t \in Tags
  PROVE  Freed(l, t).phase[t] = "none"
BY DEF Freed, TablesType

Ready(g) == [phase |-> "ready", g |-> g, at |-> 0, got |-> <<>>]

LEMMA JobDeclared ==
  ASSUME HistoryInv, NEW n \in Nodes, NEW c \in Next1Call(n), c.op = "declare",
         Makes(n, c)
  PROVE  /\ AbstractJob(n, c.tag).phase = "none"
         /\ AbstractJob(n, c.tag)' = Ready(c.g)
<1>1. /\ loc' = [loc EXCEPT ![n] = Effect(loc[n], c)]
      /\ loc \in [Nodes -> TablesType] /\ c.tag \in Tags /\ Legal(loc[n], c)
  BY Moves DEF Steps
<1>2. loc'[n] = Declared(loc[n], c.tag, c.g) /\ loc[n] \in TablesType
  BY <1>1 DEF Effect
<1>3. loc'[n].phase[c.tag] = "declared" /\ loc'[n].g[c.tag] = c.g
  BY <1>1, <1>2, DeclaredLeaves, NextCallFits DEF Call
<1>4. loc[n].phase[c.tag] = "none"
  BY <1>1 DEF Legal
<1> QED BY <1>3, <1>4 DEF AbstractJob, Ready

LEMMA JobPrepared ==
  ASSUME HistoryInv, NEW n \in Nodes, NEW c \in Next1Call(n), c.op = "prepare",
         Makes(n, c)
  PROVE  /\ AbstractJob(n, c.tag).phase = "ready"
         /\ AbstractJob(n, c.tag)' = AbstractJob(n, c.tag)
<1>1. /\ loc' = [loc EXCEPT ![n] = Effect(loc[n], c)]
      /\ loc \in [Nodes -> TablesType] /\ c.tag \in Tags /\ Legal(loc[n], c)
      /\ ~Blocked(loc[n], c)
  BY Moves DEF Steps
<1>2. PICK l : l = TakeIds(loc[n], c.tag)
  OBVIOUS
<1>3. loc'[n] = [l EXCEPT !.phase[c.tag] = "prepared"] /\ loc[n] \in TablesType
  BY <1>1, <1>2 DEF Effect, Prepared
<1>4. l \in TablesType /\ l.g = loc[n].g
  BY <1>1, <1>2, <1>3, TakeIdsType, TakeIdsLeaves DEF Blocked
<1>5. loc'[n].phase[c.tag] = "prepared" /\ loc'[n].g[c.tag] = loc[n].g[c.tag]
  BY <1>1, <1>3, <1>4, ZenonT(30) DEF TablesType
<1>6. loc[n].phase[c.tag] = "declared"
  BY <1>1 DEF Legal
<1> QED BY <1>5, <1>6 DEF AbstractJob

LEMMA JobStarted ==
  ASSUME HistoryInv, NEW n \in Nodes, NEW c \in Next1Call(n),
         c.op \in {"do", "start"}, Makes(n, c)
  PROVE  /\ \/ c.op = "do"    /\ AbstractJob(n, c.tag).phase \in {"ready", "done"}
            \/ c.op = "start" /\ AbstractJob(n, c.tag).phase = "none"
         /\ AbstractJob(n, c.tag)' =
              [phase |-> "started", at |-> pc[n] + 1, got |-> <<>>,
               g |-> IF c.op = "start" THEN c.g ELSE AbstractJob(n, c.tag).g]
<1>1. PICK a : a = pc[n] + 1
  OBVIOUS
<1>2. /\ loc' = [loc EXCEPT ![n] = Effect(loc[n], c)]
      /\ loc \in [Nodes -> TablesType] /\ c.tag \in Tags /\ Legal(loc[n], c)
      /\ ~Blocked(loc[n], c) /\ pc' = [pc EXCEPT ![n] = a] /\ pc \in [Nodes -> Nat]
      /\ prog'[a].call = c
  BY <1>1, Moves DEF Steps
<1>3. loc'[n] = Effect(loc[n], c) /\ loc[n] \in TablesType
  BY <1>2
<1>4. /\ loc'[n].phase[c.tag] = "started"
      /\ loc'[n].g[c.tag] = IF c.op = "start" THEN c.g ELSE loc[n].g[c.tag]
  <2>1. CASE c.op = "do"
    <3>1. ~(Unprepared(loc[n], c.tag) /\ OutOfIds(loc[n], c.tag))
      BY <1>2, <2>1 DEF Blocked
    <3> QED BY <1>2, <1>3, <2>1, <3>1, StartTablesLeave DEF Effect
  <2>2. CASE c.op = "start"
    <3>1. PICK l : l = Declared(loc[n], c.tag, c.g)
      OBVIOUS
    <3>2. l \in TablesType /\ l.g[c.tag] = c.g
      BY <1>2, <1>3, <3>1, DeclaredType, DeclaredLeaves, NextCallFits DEF Call
    <3>3. ~(Unprepared(l, c.tag) /\ OutOfIds(l, c.tag))
      BY <1>2, <2>2, <3>1 DEF Blocked
    <3>4. loc'[n] = StartTables(l, c.tag)
      BY <1>3, <2>2, <3>1 DEF Effect
    <3> QED BY <1>2, <2>2, <3>2, <3>3, <3>4, StartTablesLeave
  <2> QED BY <2>1, <2>2
<1>5. StartedAt(n, c.tag)' = a
  <2>1. a \in Starts(n, c.tag)' /\ \A q \in Starts(n, c.tag)' : q <= a
    BY <1>1, <1>2 DEF Starts
  <2>2. \A q \in Starts(n, c.tag)' : (\A r \in Starts(n, c.tag)' : r <= q) => q = a
    <3> SUFFICES ASSUME NEW q \in Starts(n, c.tag)', \A r \in Starts(n, c.tag)' : r <= q
                 PROVE  q = a
      OBVIOUS
    <3>1. q <= a /\ a <= q /\ q \in Nat /\ a \in Nat
      BY <1>1, <1>2, <2>1 DEF Starts
    <3> QED BY <3>1
  <2>3. StartedAt(n, c.tag)' =
          CHOOSE q \in Starts(n, c.tag)' : \A r \in Starts(n, c.tag)' : r <= q
    BY <2>1 DEF StartedAt, Starts
  <2> QED BY <2>1, <2>2, <2>3
<1>6. /\ c.op = "do" => loc[n].phase[c.tag] \in {"declared", "prepared", "done"}
      /\ c.op = "start" => loc[n].phase[c.tag] = "none"
  BY <1>2 DEF Legal
<1>7. /\ c.op = "do" => /\ AbstractJob(n, c.tag).phase \in {"ready", "done"}
                        /\ AbstractJob(n, c.tag).g = loc[n].g[c.tag]
      /\ c.op = "start" => AbstractJob(n, c.tag).phase = "none"
  BY <1>6 DEF AbstractJob
<1>8. AbstractJob(n, c.tag)' =
        [phase |-> "started", g |-> loc'[n].g[c.tag], at |-> a, got |-> <<>>]
  BY <1>4, <1>5 DEF AbstractJob
<1> QED BY <1>1, <1>4, <1>7, <1>8

LEMMA JobFreed ==
  ASSUME HistoryInv, NEW n \in Nodes, NEW c \in Next1Call(n), c.op = "cleanup",
         Makes(n, c)
  PROVE  /\ AbstractJob(n, c.tag).phase \in {"ready", "done"}
         /\ AbstractJob(n, c.tag)' =
              [phase |-> "none", g |-> CHOOSE g \in GatherIndex : TRUE,
               at |-> 0, got |-> <<>>]
<1>1. /\ loc' = [loc EXCEPT ![n] = Effect(loc[n], c)]
      /\ loc \in [Nodes -> TablesType] /\ c.tag \in Tags /\ Legal(loc[n], c)
  BY Moves DEF Steps
<1>2. loc'[n] = Freed(loc[n], c.tag) /\ loc[n] \in TablesType
  BY <1>1 DEF Effect
<1>3. loc'[n].phase[c.tag] = "none"
  BY <1>1, <1>2, FreedLeaves
<1>4. loc[n].phase[c.tag] \in {"declared", "prepared", "done"}
  BY <1>1 DEF Legal
<1>5. InitTables.g[c.tag] = CHOOSE g \in GatherIndex : TRUE
  BY <1>1 DEF InitTables
<1> QED BY <1>3, <1>4, <1>5 DEF AbstractJob

(* What a wait leaves of the job q, the neighbors being f.                 *)
WaitLeaves(q, f) == [q EXCEPT !.phase = "done",
                          !.got = [i \in DOMAIN f |-> [src |-> f[i], at |-> q.at]]]

(* A wait returns with what its neighbors had at their call of do_gather.  *)
LEMMA JobWaited ==
  ASSUME CoreInv, RightInv, NEW n \in Nodes, NEW c \in Next1Call(n), DoesWait(n, c),
         NEW j, j = AbstractJob(n, c.tag), NEW from, from = RecvFrom[j.g][n]
  PROVE  /\ j.phase = "started"
         /\ \A i \in DOMAIN from : pc[from[i]] >= j.at
         /\ AbstractJob(n, c.tag)' = WaitLeaves(j, from)
<1>0. HistoryInv /\ MsgType /\ PlacesInv /\ SlotInv /\ Makes(n, c) /\ Kinds(n, c)
      /\ c.op = "wait" /\ c.op \in Steps
  BY DEF CoreInv, DoesWait, Kinds, Steps
<1>1. c.tag \in Tags /\ Legal(loc[n], c) /\ pc[n] \in Nat
  BY <1>0, Moves
<1>2. loc[n].phase[c.tag] = "started"
  BY <1>0, <1>1 DEF Legal
<1>3. PICK p \in 1 .. pc[n] :
        /\ IsStart(p) /\ Tag(p) = c.tag /\ Latest(p, pc[n])
        /\ loc[n].g[c.tag] = Gat(p) /\ InGather(n, p)
  BY <1>0, <1>1, <1>2, TagGather
<1>4. StartedAt(n, c.tag) = p
  BY <1>1, <1>3, StartedAtGather
<1>5. j = [phase |-> "started", g |-> Gat(p), at |-> p, got |-> <<>>]
  BY <1>2, <1>3, <1>4 DEF AbstractJob
<1>6. from = RecvFrom[Gat(p)][n]
  BY <1>5
<1>7. \A i \in DOMAIN from : Right(n, p, i)
  BY <1>3, <1>6, WaitFinds
<1>8. PICK r : r = recvs[n][c.tag]
  OBVIOUS
<1>9. r = [i \in DOMAIN from |-> [src |-> from[i], at |-> p]]
  <2>1. DOMAIN r = DOMAIN from
    BY <1>0, <1>1, <1>2, <1>3, <1>6, <1>8 DEF SlotInv
  <2>2. \A i \in DOMAIN from : r[i] = [src |-> from[i], at |-> p]
    BY <1>3, <1>6, <1>7, <1>8 DEF Right
  <2>3. r \in Seq(Receipt)
    BY <1>0, <1>1, <1>8 DEF MsgType
  <2>4. r = [i \in DOMAIN r |-> r[i]]
    BY <2>3, LenProperties
  <2> QED BY <2>1, <2>2, <2>4
<1>10. /\ loc'[n].phase[c.tag] = "done" /\ loc'[n].g = loc[n].g
       /\ StartedAt(n, c.tag)' = p /\ recvs'[n][c.tag] = r
  <2>1. StartedAt(n, c.tag)' = StartedAt(n, c.tag)
    BY <1>0, <1>1, StartedAtStays
  <2>2. loc'[n].phase[c.tag] = "done" /\ loc'[n].g = loc[n].g
    BY <1>0, <1>1, TagsAfter
  <2> QED BY <1>4, <1>8, <2>1, <2>2 DEF DoesWait
<1>11. AbstractJob(n, c.tag)' = [phase |-> "done", g |-> Gat(p), at |-> p, got |-> r]
  BY <1>3, <1>10 DEF AbstractJob
<1>12. j.at = p /\ j.phase = "started"
  BY <1>5
<1>13. \A i \in DOMAIN from : pc[from[i]] >= p
  BY <1>6, <1>7 DEF Right
<1>14. [j EXCEPT !.phase = "done", !.got = r]
         = [phase |-> "done", g |-> Gat(p), at |-> p, got |-> r]
  <2>1. j \in [phase : {"started", "done"}, g : {Gat(p)}, at : {p}, got : {<<>>, r}]
    BY <1>5
  <2>2. [j EXCEPT !.phase = "done", !.got = r]
          \in [phase : {"done"}, g : {Gat(p)}, at : {p}, got : {r}]
    BY <2>1
  <2>3. \A e \in [phase : {"done"}, g : {Gat(p)}, at : {p}, got : {r}] :
          e = [phase |-> "done", g |-> Gat(p), at |-> p, got |-> r]
    OBVIOUS
  <2> QED BY <2>2, <2>3
<1>15. [i \in DOMAIN from |-> [src |-> from[i], at |-> j.at]] = r
  BY <1>9, <1>12
<1>16. AbstractJob(n, c.tag)' = WaitLeaves(j, from)
  BY <1>11, <1>14, <1>15, Zenon DEF WaitLeaves
<1> QED BY <1>12, <1>13, <1>16

LEMMA JobSynced ==
  ASSUME HistoryInv, MsgType, NEW n \in Nodes, NEW c \in Next1Call(n), c.op = "sync",
         Kinds(n, c)
  PROVE  AbstractJob(n, c.tag)' = AbstractJob(n, c.tag)
<1>1. c.tag \in Tags /\ c.op \in Steps
  BY NextCallFits DEF Call, Steps
<1> QED BY <1>1, JobStays

-----------------------------------------------------------------------------
(* The steps of Gather as steps of GatherPromise.                          *)

LEMMA PromisePasses ==
  ASSUME CoreInv, HistoryInv', NEW n \in Nodes, NEW c \in Next1Call(n),
         c.op \in Steps, Kinds(n, c), NEW j, j = AbstractJob(n, c.tag)'
  PROVE  /\ c \in Call /\ Promise!Arrive(n, c) /\ Promise!Pass(n, c, j)
<1>0. HistoryInv /\ MsgType /\ Makes(n, c) /\ UNCHANGED stopped
  BY KindsMake DEF CoreInv
<1>1. /\ c \in Call /\ n \notin stopped
      /\ IF pc[n] < Len(Calls) THEN c = Calls[pc[n] + 1] /\ UNCHANGED Calls
         ELSE Calls' = Append(Calls, c)
  BY <1>0, Arrives
<1>2. Promise!Arrive(n, c)
  BY <1>1 DEF Promise!Arrive, Calls
<1>3. Jobs' = [Jobs EXCEPT ![n][c.tag] = j]
  BY <1>0, JobsChange
<1>4. \A m \in stopped : pc[n] < pc[m]
  BY <1>0, PassesNoStop
<1>5. pc' = [pc EXCEPT ![n] = pc[n] + 1]
  BY <1>0, Moves
<1>6. Promise!Pass(n, c, j)
  BY <1>0, <1>3, <1>4, <1>5 DEF Promise!Pass, Jobs
<1> QED BY <1>1, <1>2, <1>6

LEMMA PromiseCall ==
  ASSUME CoreInv, RightInv, HistoryInv', NEW n \in Nodes, NEW c \in Next1Call(n),
         c.op \in Steps, Kinds(n, c)
  PROVE  Promise!Next
<1>0. HistoryInv /\ MsgType /\ Makes(n, c) /\ c.tag \in Tags
  BY KindsMake, NextCallFits DEF CoreInv, Call
<1>1. PICK j : j = AbstractJob(n, c.tag)'
  OBVIOUS
<1>2. PICK k : k = AbstractJob(n, c.tag)
  OBVIOUS
<1>3. /\ c \in Call /\ Promise!Arrive(n, c) /\ Promise!Pass(n, c, j)
  BY <1>1, PromisePasses
<1>4. Jobs[n][c.tag] = k
  BY <1>0, <1>2 DEF Jobs
<1>5. CASE c.op = "declare"
  <2>1. k.phase = "none" /\ j = Ready(c.g)
    BY <1>0, <1>1, <1>2, <1>5, JobDeclared
  <2>2. [Promise!Idle EXCEPT !.phase = "ready", !.g = c.g] = Ready(c.g)
    <3>1. PICK g : g = CHOOSE x \in GatherIndex : TRUE
      OBVIOUS
    <3>2. PICK i : i = [phase |-> "none", g |-> g, at |-> 0, got |-> <<>>]
      OBVIOUS
    <3>3. Promise!Idle = i
      BY <3>1, <3>2, Zenon DEF Promise!Idle
    <3>4. i \in [phase : {"none", "ready"}, g : {g, c.g}, at : {0}, got : {<<>>}]
      BY <3>2
    <3>5. [i EXCEPT !.phase = "ready", !.g = c.g]
            \in [phase : {"ready"}, g : {c.g}, at : {0}, got : {<<>>}]
      BY <3>4
    <3>6. \A e \in [phase : {"ready"}, g : {c.g}, at : {0}, got : {<<>>}] :
            e = Ready(c.g)
      BY DEF Ready
    <3>7. [i EXCEPT !.phase = "ready", !.g = c.g] = Ready(c.g)
      BY <3>5, <3>6
    <3> QED BY <3>3, <3>7, Zenon
  <2>3. Promise!Pass(n, c, [Promise!Idle EXCEPT !.phase = "ready", !.g = c.g])
    BY <1>3, <2>1, <2>2, Zenon
  <2>4. Jobs[n][c.tag].phase = "none"
    BY <1>4, <2>1
  <2>5. Promise!Declare(n, c)
    BY <1>5, <2>3, <2>4, Zenon DEF Promise!Declare, Jobs
  <2> QED BY <1>3, <2>5 DEF Promise!Next, Promise!Call, Call
<1>6. CASE c.op = "prepare"
  <2>1. k.phase = "ready" /\ j = k
    BY <1>0, <1>1, <1>2, <1>6, JobPrepared
  <2>2. Promise!Prepare(n, c)
    BY <1>3, <1>4, <1>6, <2>1 DEF Promise!Prepare, Jobs
  <2> QED BY <1>3, <2>2 DEF Promise!Next, Promise!Call, Call
<1>7. CASE c.op \in {"do", "start"}
  <2>1. /\ \/ c.op = "do"    /\ k.phase \in {"ready", "done"}
           \/ c.op = "start" /\ k.phase = "none"
        /\ j = [phase |-> "started", at |-> pc[n] + 1, got |-> <<>>,
                g |-> IF c.op = "start" THEN c.g ELSE k.g]
    BY <1>0, <1>1, <1>2, <1>7, JobStarted
  <2>2. Promise!Do(n, c)
    BY <1>3, <1>4, <1>7, <2>1 DEF Promise!Do, Jobs
  <2> QED BY <1>3, <2>2 DEF Promise!Next, Promise!Call, Call
<1>8. CASE c.op = "wait"
  <2>1. PICK from : from = RecvFrom[k.g][n]
    OBVIOUS
  <2>2. DoesWait(n, c)
    BY <1>8 DEF Kinds, DoesStart, DoesCleanup, DoesOther
  <2>3. /\ k.phase = "started"
        /\ \A i \in DOMAIN from : pc[from[i]] >= k.at
        /\ j = WaitLeaves(k, from)
    BY <1>1, <1>2, <2>1, <2>2, JobWaited
  <2>4. Jobs[n][c.tag].phase = "started"
    BY <1>4, <2>3
  <2>5. Jobs[n][c.tag] = k /\ RecvFrom[Jobs[n][c.tag].g][n] = from
    BY <1>4, <2>1, Zenon
  <2>6. WaitLeaves(Jobs[n][c.tag], RecvFrom[Jobs[n][c.tag].g][n]) = j
    BY <2>3, <2>5, Zenon
  <2>7. Promise!Pass(n, c, WaitLeaves(Jobs[n][c.tag], RecvFrom[Jobs[n][c.tag].g][n]))
    BY <1>3, <2>6, Zenon
  <2>8. \A i \in DOMAIN RecvFrom[Jobs[n][c.tag].g][n] :
          pc[RecvFrom[Jobs[n][c.tag].g][n][i]] >= Jobs[n][c.tag].at
    BY <2>3, <2>5, Zenon
  <2>9. LET q == Jobs[n][c.tag]
            f == RecvFrom[q.g][n]
        IN  /\ \A i \in DOMAIN f : pc[f[i]] >= q.at
            /\ Promise!Pass(n, c, [q EXCEPT !.phase = "done",
                 !.got = [i \in DOMAIN f |-> [src |-> f[i], at |-> q.at]]])
    BY <2>7, <2>8, Zenon DEF WaitLeaves
  <2>10. Promise!Wait(n, c)
    BY <1>8, <2>4, <2>9, Zenon DEF Promise!Wait, Jobs
  <2> QED BY <1>3, <2>10 DEF Promise!Next, Promise!Call, Call
<1>9. CASE c.op = "cleanup"
  <2>1. /\ k.phase \in {"ready", "done"}
        /\ j = Promise!Idle
    BY <1>0, <1>1, <1>2, <1>9, JobFreed DEF Promise!Idle
  <2>2. Promise!Cleanup(n, c)
    BY <1>3, <1>4, <1>9, <2>1 DEF Promise!Cleanup, Jobs
  <2> QED BY <1>3, <2>2 DEF Promise!Next, Promise!Call, Call
<1>10. CASE c.op = "sync"
  <2>1. j = k
    BY <1>0, <1>1, <1>2, <1>10, JobSynced
  <2>2. \A m \in Nodes : pc[m] >= pc[n]
    BY <1>10 DEF Kinds, DoesStart, DoesWait, DoesCleanup, DoesOther
  <2>3. Promise!Sync(n, c)
    BY <1>3, <1>4, <1>10, <2>1, <2>2 DEF Promise!Sync, Jobs
  <2> QED BY <1>3, <2>3 DEF Promise!Next, Promise!Call, Call
<1> QED BY <1>5, <1>6, <1>7, <1>8, <1>9, <1>10 DEF Steps

LEMMA PromiseStop ==
  ASSUME CoreInv, HistoryInv', NEW n \in Nodes, NEW c \in Next1Call(n),
         c.op \in Steps, DoesStop(n, c)
  PROVE  Promise!Next
<1>0. HistoryInv /\ Stops(n, c) /\ recvs' = recvs
  BY DEF CoreInv, DoesStop
<1>1. /\ pc' = pc /\ loc' = loc /\ stopped' = stopped \union {n}
  BY <1>0 DEF Stops, Terminate
<1>2. /\ c \in Call /\ n \notin stopped
      /\ IF pc[n] < Len(Calls) THEN c = Calls[pc[n] + 1] /\ UNCHANGED Calls
         ELSE Calls' = Append(Calls, c)
  BY <1>0, Arrives
<1>3. Promise!Arrive(n, c)
  BY <1>2 DEF Promise!Arrive, Calls
<1>4. \A d \in Nodes, t \in Tags : AbstractJob(d, t)' = AbstractJob(d, t)
  <2> SUFFICES ASSUME NEW d \in Nodes, NEW t \in Tags
               PROVE  AbstractJob(d, t)' = AbstractJob(d, t)
    OBVIOUS
  <2>1. StartedAt(d, t)' = StartedAt(d, t)
    BY <1>0, StartedAtStays
  <2> QED BY <1>0, <1>1, <2>1 DEF AbstractJob
<1>5. Jobs' = Jobs
  BY <1>4 DEF Jobs
<1>6. Promise!Stop(n, c)
  BY <1>0, <1>1, <1>5, StopsFirst DEF Promise!Stop, Jobs
<1> QED BY <1>2, <1>3, <1>6 DEF Promise!Next, Promise!Call, Call

(* No message is a step of the promise.                                    *)
LEMMA PromiseMatch ==
  ASSUME CoreInv, NEW s \in Nodes, NEW d \in Nodes, Match(s, d)
  PROVE  UNCHANGED <<Calls, pc, stopped, Jobs>>
<1>0. MsgType
  BY DEF CoreInv
<1>1. PICK t \in Tags, id \in Ids, i \in Nat : Takes(s, d, t, id, i)
  BY <1>0, MatchTakes
<1>2. prog' = prog /\ pc' = pc /\ stopped' = stopped /\ loc' = loc
  BY <1>1 DEF Takes
<1>3. ASSUME NEW e \in Nodes, NEW u \in Tags
      PROVE  AbstractJob(e, u)' = AbstractJob(e, u)
  <2>1. StartedAt(e, u)' = StartedAt(e, u)
    BY <1>2 DEF StartedAt
  <2>2. loc[e].phase[u] = "done" => recvs'[e][u] = recvs[e][u]
    <3>1. loc[d].phase[t] = "started"
      BY <1>1 DEF Takes
    <3>2. PICK r : recvs' = [recvs EXCEPT ![d][t][i] = r]
      BY <1>1 DEF Takes
    <3>3. /\ e /= d => recvs'[e] = recvs[e]
          /\ recvs'[d] = [recvs[d] EXCEPT ![t][i] = r]
      BY <1>0, <3>2 DEF MsgType
    <3>4. u /= t => recvs'[d][u] = recvs[d][u]
      BY <1>0, <3>3 DEF MsgType
    <3> QED BY <3>1, <3>3, <3>4
  <2> QED BY <1>2, <2>1, <2>2 DEF AbstractJob
<1>4. Jobs' = Jobs
  BY <1>3 DEF Jobs
<1> QED BY <1>2, <1>4 DEF Calls

LEMMA PromiseInit == Init => Promise!Init
<1> SUFFICES ASSUME Init PROVE Promise!Init
  OBVIOUS
<1>1. HistoryInv
  BY HistoryInit
<1>2. Calls = <<>>
  <2>1. Calls \in Seq(Call) /\ Len(Calls) = 0
    BY <1>1, CallsTyped DEF Init
  <2> QED BY <2>1, EmptySeq
<1>3. ASSUME NEW n \in Nodes, NEW t \in Tags PROVE AbstractJob(n, t) = Promise!Idle
  <2>1. loc[n].phase[t] = "none"
    BY DEF Init, InitTables
  <2>2. InitTables.g[t] = CHOOSE g \in GatherIndex : TRUE
    BY DEF InitTables
  <2> QED BY <2>1, <2>2 DEF AbstractJob, Promise!Idle
<1>4. Jobs = [n \in Nodes |-> [t \in Tags |-> Promise!Idle]]
  BY <1>3 DEF Jobs
<1> QED BY <1>2, <1>4 DEF Init, Promise!Init, Calls, Jobs

(***************************************************************************)
(* The gather runtime is an implementation of GatherPromise in any program *)
(* whose nodes meet before an id is reused for another neighbor: a wait    *)
(* returns only when all its neighbors have come to the do_gather it waits *)
(* for, with what they had then, and ids run out for all nodes alike.      *)
(***************************************************************************)
THEOREM ImplementsPromise == Spec /\ []ReuseSynced => KeepsPromise
<1>1. Init => Promise!Init
  BY PromiseInit
<1>2. ArrivalInv /\ ReuseSynced /\ HistoryInv' /\ [Next]_vars => [Promise!Next]_Promise!pvars
  <2> SUFFICES ASSUME ArrivalInv, ReuseSynced, HistoryInv', [Next]_vars
               PROVE  [Promise!Next]_Promise!pvars
    OBVIOUS
  <2>0. CoreInv /\ HistoryInv /\ RightInv
    BY DEF ArrivalInv, CoreInv, DataInv
  <2>1. ASSUME NEW n \in Nodes, Step(n) PROVE Promise!Next
    <3>1. PICK c \in Next1Call(n) : c.op \in Steps /\ (Kinds(n, c) \/ DoesStop(n, c))
      BY <2>0, <2>1, StepKinds DEF Kinds
    <3> QED BY <2>0, <3>1, PromiseCall, PromiseStop
  <2>2. ASSUME NEW s \in Nodes, NEW d \in Nodes, Match(s, d)
        PROVE  UNCHANGED Promise!pvars
    BY <2>0, <2>2, PromiseMatch DEF Promise!pvars, Calls, Jobs
  <2>3. CASE UNCHANGED vars
    <3>1. Calls' = Calls
      BY <2>3 DEF vars, Calls
    <3>2. Jobs' = Jobs
      BY <2>3 DEF vars, Jobs, AbstractJob, StartedAt
    <3> QED BY <2>3, <3>1, <3>2 DEF vars, Promise!pvars, Calls, Jobs
  <2> QED BY <2>1, <2>2, <2>3 DEF Next
<1> QED BY <1>1, <1>2, ArrivalInvariant, HistoryInvariant, PTL
        DEF Spec, KeepsPromise, Promise!Spec

=============================================================================
