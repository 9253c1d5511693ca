---------------------------- MODULE GatherProofs ----------------------------
(***************************************************************************)
(* Theorems about Gather, for any number of nodes, ids, gathers and tags   *)
(* and for programs of any length.                                         *)
(*                                                                         *)
(* First the tables: they stay well formed, no id is ever held twice on a  *)
(* node, all nodes go through the same tables without exchanging a message *)
(* about them, and the job stops at one call.                              *)
(*                                                                         *)
(* Then the data Gather delivers: what a wait finds.                       *)
(***************************************************************************)
EXTENDS Gather, TLAPS, FiniteSetTheorems

(* A call that prepare_gather cannot serve.                                *)
Blocked(l, c) ==
  \/ c.op = "prepare" /\ OutOfIds(l, c.tag)
  \/ c.op = "do" /\ Unprepared(l, c.tag) /\ OutOfIds(l, c.tag)
  \/ /\ c.op = "start"
     /\ Unprepared(Declared(l, c.tag, c.g), c.tag)
     /\ OutOfIds(Declared(l, c.tag, c.g), c.tag)

(* do_gather, with the call of prepare_gather it may need first.           *)
StartTables(l, t) == Started(IF Unprepared(l, t) THEN Prepared(l, t) ELSE l, t)

(* What a call does to the tables of the node that makes it.               *)
Effect(l, c) ==
  CASE c.op = "declare" -> Declared(l, c.tag, c.g)
    [] c.op = "prepare" -> Prepared(l, c.tag)
    [] c.op = "start"   -> StartTables(Declared(l, c.tag, c.g), c.tag)
    [] c.op = "do"      -> StartTables(l, c.tag)
    [] c.op = "wait"    -> Waited(l, c.tag)
    [] c.op = "cleanup" -> Freed(l, c.tag)
    [] c.op = "sync"    -> l

Steps == {"declare", "prepare", "start", "do", "wait", "cleanup", "sync"}

-----------------------------------------------------------------------------
(* The ids prepare_gather takes.                                           *)

LEMMA ModRange ==
  ASSUME NEW a \in Int PROVE a % NumGatherIds \in Ids
BY IdsAssumption DEF Ids

(* The ids chosen are distinct, and free.                                  *)
LEMMA NextIdsFree ==
  ASSUME NEW l \in TablesType, NEW n \in Nat, NEW s \in NextIds(l, n)
  PROVE  /\ s \in Seq(Ids) /\ DOMAIN s = 1 .. n
         /\ \A i \in 1 .. n : s[i] \in Ids \ l.used
         /\ \A i, j \in 1 .. n : i /= j => s[i] /= s[j]
<1>1. s \in [1 .. n -> Ids \ l.used]
  BY DEF NextIds
<1>2. \A i, j \in 1 .. n : i < j => Dist(l.off, s[i]) < Dist(l.off, s[j])
  BY DEF NextIds
<1>3. ASSUME NEW i \in 1 .. n, NEW j \in 1 .. n, i < j PROVE s[i] /= s[j]
  <2>1. Dist(l.off, s[i]) \in Int
    <3>1. l.off \in Int /\ s[i] \in Int
      BY <1>1, IdsAssumption DEF TablesType, Ids
    <3>2. (s[i] - l.off) % NumGatherIds \in Ids
      BY <3>1, ModRange
    <3> QED BY <3>2, IdsAssumption DEF Dist, Ids
  <2>2. Dist(l.off, s[i]) < Dist(l.off, s[j])
    BY <1>2, <1>3
  <2> QED BY <2>1, <2>2
<1>4. \A i, j \in 1 .. n : i /= j => s[i] /= s[j]
  BY <1>3
<1>5. s \in Seq(Ids)
  BY <1>1
<1> QED BY <1>1, <1>4, <1>5

-----------------------------------------------------------------------------
(* Each operation on the tables of a node gives tables again.              *)

LEMMA DeclaredType ==
  ASSUME NEW l \in TablesType, NEW t \in Tags, NEW g \in GatherIndex
  PROVE  Declared(l, t, g) \in TablesType
<1>1. [l.ids EXCEPT ![t] = <<>>] \in [Tags -> Seq(Ids)]
  BY DEF TablesType
<1>2. [l.phase EXCEPT ![t] = "declared"] \in [Tags -> Phases]
  BY DEF TablesType, Phases
<1>3. [l.g EXCEPT ![t] = g] \in [Tags -> GatherIndex]
  BY DEF TablesType
<1> QED BY <1>1, <1>2, <1>3 DEF Declared, TablesType

LEMMA TakeIdsType ==
  ASSUME NEW l \in TablesType, NEW t \in Tags, ~OutOfIds(l, t)
  PROVE  TakeIds(l, t) \in TablesType
<1> DEFINE m == NidsOf(l, t)
           s == CHOOSE x \in NextIds(l, m) : TRUE
<1>1. m \in Nat
  BY TablesAssumption DEF NidsOf, TablesType
<1>2. s \in NextIds(l, m)
  BY DEF OutOfIds
<1>3. CASE m = 0
  BY <1>3 DEF TakeIds
<1>4. CASE m /= 0
  <2> HIDE DEF m, s
  <2>1. s \in Seq(Ids) /\ {s[i] : i \in DOMAIN s} \subseteq Ids /\ s[m] \in Int
    BY <1>1, <1>2, <1>4, NextIdsFree, IdsAssumption DEF Ids
  <2>2. (s[m] + 1) % NumGatherIds \in Ids
    BY <2>1, ModRange
  <2>3. TakeIds(l, t) = [l EXCEPT !.ids[t] = s,
                           !.used = @ \union {s[i] : i \in DOMAIN s},
                           !.off = (s[m] + 1) % NumGatherIds]
    BY <1>4 DEF TakeIds, m, s
  <2>4. [l.ids EXCEPT ![t] = s] \in [Tags -> Seq(Ids)]
    BY <2>1 DEF TablesType
  <2>5. l.used \union {s[i] : i \in DOMAIN s} \in SUBSET Ids
    BY <2>1 DEF TablesType
  <2> HIDE DEF TakeIds
  <2> QED BY <2>2, <2>3, <2>4, <2>5 DEF TablesType
<1> QED BY <1>3, <1>4

LEMMA PreparedType ==
  ASSUME NEW l \in TablesType, NEW t \in Tags, ~OutOfIds(l, t)
  PROVE  Prepared(l, t) \in TablesType
BY TakeIdsType DEF Prepared, TablesType, Phases

LEMMA StartedType ==
  ASSUME NEW l \in TablesType, NEW t \in Tags
  PROVE  Started(l, t) \in TablesType /\ Waited(l, t) \in TablesType
BY DEF Started, Waited, TablesType, Phases

LEMMA FreedType ==
  ASSUME NEW l \in TablesType, NEW t \in Tags
  PROVE  Freed(l, t) \in TablesType
<1>1. [l.ids EXCEPT ![t] = <<>>] \in [Tags -> Seq(Ids)]
  BY DEF TablesType
<1>2. [l.phase EXCEPT ![t] = "none"] \in [Tags -> Phases]
  BY DEF TablesType, Phases
<1>3. l.used \ {l.ids[t][i] : i \in DOMAIN l.ids[t]} \in SUBSET Ids
  BY DEF TablesType
<1> QED BY <1>1, <1>2, <1>3 DEF Freed, TablesType

LEMMA EffectType ==
  ASSUME NEW l \in TablesType, NEW c \in Call, c.op \in Steps, ~Blocked(l, c)
  PROVE  Effect(l, c) \in TablesType
<1> USE DEF Call
<1>1. CASE c.op = "declare"
  BY <1>1, DeclaredType DEF Effect
<1>2. CASE c.op = "prepare"
  BY <1>2, PreparedType DEF Effect, Blocked
<1>3. CASE c.op = "start"
  <2> DEFINE d == Declared(l, c.tag, c.g)
  <2>1. d \in TablesType
    BY DeclaredType
  <2>2. StartTables(d, c.tag) \in TablesType
    BY <1>3, <2>1, PreparedType, StartedType DEF StartTables, Blocked
  <2> QED BY <1>3, <2>2 DEF Effect
<1>4. CASE c.op = "do"
  <2>1. StartTables(l, c.tag) \in TablesType
    BY <1>4, PreparedType, StartedType DEF StartTables, Blocked
  <2> QED BY <1>4, <2>1 DEF Effect
<1>5. CASE c.op = "wait"
  BY <1>5, StartedType DEF Effect
<1>6. CASE c.op = "cleanup"
  BY <1>6, FreedType DEF Effect
<1>7. CASE c.op = "sync"
  BY <1>7 DEF Effect
<1> QED BY <1>1, <1>2, <1>3, <1>4, <1>5, <1>6, <1>7 DEF Steps

-----------------------------------------------------------------------------
(* Each operation keeps the table of ids exact.                            *)

(* A tag that was not prepared holds no id.                                *)
Exact(l) ==
  /\ ExclusiveIn(l)
  /\ \A t \in Tags : l.phase[t] \in {"none", "declared"} => l.ids[t] = <<>>

LEMMA SameIdsExclusive ==
  ASSUME NEW l, NEW d, ExclusiveIn(l), d.ids = l.ids, d.used = l.used
  PROVE  ExclusiveIn(d)
<1>1. \A u \in Tags : IdsOf(d, u) = IdsOf(l, u)
  BY DEF IdsOf
<1>2. UNION {IdsOf(d, u) : u \in Tags} = UNION {IdsOf(l, u) : u \in Tags}
  BY <1>1
<1> QED BY <1>1, <1>2 DEF ExclusiveIn

LEMMA DeclaredExact ==
  ASSUME NEW l \in TablesType, Exact(l), NEW t \in Tags,
         NEW g \in GatherIndex, l.phase[t] = "none"
  PROVE  Exact(Declared(l, t, g))
<1> DEFINE d == Declared(l, t, g)
<1>1. d.ids = l.ids /\ d.used = l.used
  BY DEF Declared, TablesType, Exact
<1>2. \A u \in Tags : IdsOf(d, u) = IdsOf(l, u)
  BY <1>1 DEF IdsOf
<1>3. \A u \in Tags : d.phase[u] \in {"none", "declared"} => d.ids[u] = <<>>
  BY <1>1 DEF Declared, TablesType, Exact
<1> HIDE DEF d
<1>4. ExclusiveIn(d)
  BY <1>1, <1>2, SameIdsExclusive DEF Exact
<1> QED BY <1>3, <1>4 DEF Exact, d

LEMMA TakeIdsExact ==
  ASSUME NEW l \in TablesType, ExclusiveIn(l), NEW t \in Tags,
         ~OutOfIds(l, t), l.ids[t] = <<>>
  PROVE  ExclusiveIn(TakeIds(l, t))
<1> DEFINE m == NidsOf(l, t)
           s == CHOOSE x \in NextIds(l, m) : TRUE
           d == TakeIds(l, t)
<1>1. m \in Nat
  BY TablesAssumption DEF NidsOf, TablesType
<1>2. s \in NextIds(l, m)
  BY DEF OutOfIds
<1>3. CASE m = 0
  BY <1>3 DEF TakeIds
<1>4. CASE m /= 0
  <2>1. /\ d.ids = [l.ids EXCEPT ![t] = s]
        /\ d.used = l.used \union {s[i] : i \in DOMAIN s}
    BY <1>4 DEF TakeIds, TablesType
  <2> HIDE DEF m, s, d
  <2>2. /\ DOMAIN s = 1 .. m
        /\ \A i \in 1 .. m : s[i] \notin l.used
        /\ \A i, j \in 1 .. m : i /= j => s[i] /= s[j]
    BY <1>1, <1>2, NextIdsFree
  <2>3. IdsOf(d, t) = {s[i] : i \in DOMAIN s} /\ d.ids[t] = s
    BY <2>1 DEF IdsOf, TablesType
  <2>4. \A u \in Tags \ {t} : IdsOf(d, u) = IdsOf(l, u) /\ d.ids[u] = l.ids[u]
    BY <2>1 DEF IdsOf, TablesType
  <2>5. IdsOf(l, t) = {}
    BY DEF IdsOf
  <2>6. \A u \in Tags : IdsOf(l, u) \subseteq l.used
    BY DEF ExclusiveIn
  <2>7. \A u \in Tags \ {t} : IdsOf(d, u) \intersect IdsOf(d, t) = {}
    BY <2>2, <2>3, <2>4, <2>6
  <2>8. d.used = UNION {IdsOf(d, u) : u \in Tags}
    <3>1. ASSUME NEW x \in d.used PROVE x \in UNION {IdsOf(d, u) : u \in Tags}
      <4>1. CASE x \in {s[i] : i \in DOMAIN s}
        BY <4>1, <2>3
      <4>2. CASE x \in l.used
        <5>1. PICK u \in Tags : x \in IdsOf(l, u)
          BY <4>2 DEF ExclusiveIn
        <5> QED BY <5>1, <2>4, <2>5
      <4> QED BY <3>1, <4>1, <4>2, <2>1
    <3>2. \A u \in Tags : IdsOf(d, u) \subseteq d.used
      BY <2>1, <2>3, <2>4, <2>6
    <3> QED BY <3>1, <3>2
  <2>9. \A u \in Tags : \A i, j \in DOMAIN d.ids[u] :
          i /= j => d.ids[u][i] /= d.ids[u][j]
    <3>1. \A i, j \in DOMAIN d.ids[t] :
            i /= j => d.ids[t][i] /= d.ids[t][j]
      BY <2>2, <2>3
    <3>2. \A u \in Tags \ {t} : \A i, j \in DOMAIN l.ids[u] :
            i /= j => l.ids[u][i] /= l.ids[u][j]
      BY DEF ExclusiveIn
    <3> QED BY <3>1, <3>2, <2>4
  <2>10. \A u, v \in Tags : u /= v => IdsOf(d, u) \intersect IdsOf(d, v) = {}
    BY <2>4, <2>7 DEF ExclusiveIn
  <2>11. ExclusiveIn(d)
    BY <2>8, <2>9, <2>10 DEF ExclusiveIn
  <2> QED BY <2>11 DEF d
<1> QED BY <1>3, <1>4

LEMMA FreedExact ==
  ASSUME NEW l \in TablesType, Exact(l), NEW t \in Tags
  PROVE  Exact(Freed(l, t))
<1> DEFINE d == Freed(l, t)
<1>1. /\ d.ids = [l.ids EXCEPT ![t] = <<>>]
      /\ d.used = l.used \ IdsOf(l, t)
      /\ d.phase = [l.phase EXCEPT ![t] = "none"]
  BY DEF Freed, IdsOf, TablesType
<1> HIDE DEF d
<1>2. d.ids[t] = <<>> /\ IdsOf(d, t) = {}
  BY <1>1 DEF IdsOf, TablesType
<1>3. \A u \in Tags \ {t} : d.ids[u] = l.ids[u] /\ IdsOf(d, u) = IdsOf(l, u)
  BY <1>1 DEF IdsOf, TablesType
<1>4. \A u, v \in Tags : u /= v => IdsOf(d, u) \intersect IdsOf(d, v) = {}
  BY <1>2, <1>3 DEF Exact, ExclusiveIn
<1>5. \A u \in Tags : \A i, j \in DOMAIN d.ids[u] :
         i /= j => d.ids[u][i] /= d.ids[u][j]
  <2>1. \A u \in Tags \ {t} : \A i, j \in DOMAIN l.ids[u] :
          i /= j => l.ids[u][i] /= l.ids[u][j]
    BY DEF Exact, ExclusiveIn
  <2> QED BY <1>2, <1>3, <2>1
<1>6. d.used = UNION {IdsOf(d, u) : u \in Tags}
  <2>1. ASSUME NEW x \in d.used PROVE x \in UNION {IdsOf(d, u) : u \in Tags}
    <3>1. PICK u \in Tags : x \in IdsOf(l, u)
      BY <2>1, <1>1 DEF Exact, ExclusiveIn
    <3>2. u /= t
      BY <2>1, <3>1, <1>1
    <3> QED BY <3>1, <3>2, <1>3
  <2>2. ASSUME NEW u \in Tags PROVE IdsOf(d, u) \subseteq d.used
    <3>1. CASE u = t
      BY <3>1, <1>2
    <3>2. CASE u /= t
      <4>1. IdsOf(l, u) \subseteq l.used
        BY DEF Exact, ExclusiveIn
      <4>2. IdsOf(l, u) \intersect IdsOf(l, t) = {}
        BY <3>2 DEF Exact, ExclusiveIn
      <4> QED BY <4>1, <4>2, <3>2, <1>1, <1>3
    <3> QED BY <3>1, <3>2
  <2> QED BY <2>1, <2>2
<1>7. ExclusiveIn(d)
  BY <1>4, <1>5, <1>6 DEF ExclusiveIn
<1>8. \A u \in Tags : d.phase[u] \in {"none", "declared"} => d.ids[u] = <<>>
  BY <1>1, <1>2, <1>3 DEF Exact, TablesType
<1> QED BY <1>7, <1>8 DEF Exact, d

(* Moving a tag on leaves its ids alone.                                   *)
LEMMA PhaseExact ==
  ASSUME NEW l \in TablesType, Exact(l), NEW t \in Tags
  PROVE  Exact(Started(l, t)) /\ Exact(Waited(l, t))
<1>1. ASSUME NEW d \in {Started(l, t), Waited(l, t)} PROVE Exact(d)
  <2>1. /\ d.ids = l.ids /\ d.used = l.used
        /\ \A u \in Tags : d.phase[u] \in {"none", "declared"}
                           => l.phase[u] \in {"none", "declared"}
    BY <1>1 DEF Started, Waited, TablesType
  <2>2. ExclusiveIn(d)
    BY <2>1, SameIdsExclusive DEF Exact
  <2> QED BY <2>1, <2>2 DEF Exact
<1> QED BY <1>1

LEMMA PreparedExact ==
  ASSUME NEW l \in TablesType, Exact(l), NEW t \in Tags,
         ~OutOfIds(l, t), l.ids[t] = <<>>
  PROVE  Exact(Prepared(l, t))
<1> DEFINE k == TakeIds(l, t)
           d == Prepared(l, t)
<1>1. k \in TablesType /\ ExclusiveIn(k)
  BY TakeIdsType, TakeIdsExact DEF Exact
<1>2. k.phase = l.phase /\ \A u \in Tags \ {t} : k.ids[u] = l.ids[u]
  BY DEF TakeIds, TablesType
<1> HIDE DEF k
<1>3. /\ d.ids = k.ids /\ d.used = k.used
      /\ d.phase = [k.phase EXCEPT ![t] = "prepared"]
  BY <1>1 DEF Prepared, TablesType, k
<1> HIDE DEF d
<1>4. ExclusiveIn(d)
  BY <1>1, <1>3, SameIdsExclusive
<1>5. \A u \in Tags : d.phase[u] \in {"none", "declared"} => d.ids[u] = <<>>
  BY <1>1, <1>2, <1>3 DEF Exact, TablesType
<1> QED BY <1>4, <1>5 DEF Exact, d

LEMMA EffectExact ==
  ASSUME NEW l \in TablesType, Exact(l), NEW c \in Call, c.op \in Steps,
         Legal(l, c), ~Blocked(l, c)
  PROVE  Exact(Effect(l, c))
<1> USE DEF Call
<1>1. CASE c.op = "declare"
  BY <1>1, DeclaredExact DEF Effect, Legal
<1>2. CASE c.op = "prepare"
  BY <1>2, PreparedExact DEF Effect, Legal, Blocked, Exact
<1>3. CASE c.op = "start"
  <2> DEFINE d == Declared(l, c.tag, c.g)
  <2>1. d \in TablesType /\ Exact(d)
    BY <1>3, DeclaredType, DeclaredExact DEF Legal
  <2>2. Exact(StartTables(d, c.tag))
    BY <1>3, <2>1, PreparedType, PreparedExact, PhaseExact
       DEF StartTables, Blocked, Unprepared
  <2> QED BY <1>3, <2>2 DEF Effect
<1>4. CASE c.op = "do"
  <2>1. Exact(StartTables(l, c.tag))
    BY <1>4, PreparedType, PreparedExact, PhaseExact
       DEF StartTables, Blocked, Unprepared
  <2> QED BY <1>4, <2>1 DEF Effect
<1>5. CASE c.op = "wait"
  BY <1>5, PhaseExact DEF Effect
<1>6. CASE c.op = "cleanup"
  BY <1>6, FreedExact DEF Effect
<1>7. CASE c.op = "sync"
  BY <1>7 DEF Effect
<1> QED BY <1>1, <1>2, <1>3, <1>4, <1>5, <1>6, <1>7 DEF Steps

-----------------------------------------------------------------------------
(* Every step of a node completes a call, with the effect of that call on  *)
(* its tables, or stops in a call that is blocked.                         *)

Makes(n, c) == /\ ~Blocked(loc[n], c)
               /\ Complete(n, c, Effect(loc[n], c))
               /\ UNCHANGED stopped

Stops(n, c) == /\ Blocked(loc[n], c)
               /\ n \notin stopped
               /\ Terminate(n, c)

LEMMA StepShape ==
  ASSUME NEW n \in Nodes, Step(n)
  PROVE  \E c \in Next1Call(n) : c.op \in Steps /\ (Makes(n, c) \/ Stops(n, c))
<1>1. CASE DeclareGather(n)
  BY <1>1 DEF DeclareGather, Makes, Effect, Blocked, Steps
<1>2. CASE PrepareGather(n)
  BY <1>2 DEF PrepareGather, Makes, Stops, Effect, Blocked, Steps
<1>3. ASSUME NEW c \in Next1Call(n), c.op = "start",
             StartWith(n, c, Declared(loc[n], c.tag, c.g))
      PROVE  Makes(n, c) \/ Stops(n, c)
  BY <1>3 DEF StartWith, Makes, Stops, Effect, Blocked, StartTables
<1>4. CASE StartGather(n)
  BY <1>3, <1>4 DEF StartGather, Steps
<1>5. ASSUME NEW c \in Next1Call(n), c.op = "do", StartWith(n, c, loc[n])
      PROVE  Makes(n, c) \/ Stops(n, c)
  BY <1>5 DEF StartWith, Makes, Stops, Effect, Blocked, StartTables
<1>6. CASE DoGather(n)
  BY <1>5, <1>6 DEF DoGather, Steps
<1>7. CASE WaitGather(n)
  BY <1>7 DEF WaitGather, Makes, Effect, Blocked, Steps
<1>8. CASE CleanupGather(n)
  BY <1>8 DEF CleanupGather, Makes, Effect, Blocked, Steps
<1>9. CASE GSync(n)
  BY <1>9 DEF GSync, Makes, Effect, Blocked, Steps
<1> QED BY <1>1, <1>2, <1>4, <1>6, <1>7, <1>8, <1>9 DEF Step

-----------------------------------------------------------------------------
(* The inductive invariant: the run of every node replays prog, and prog   *)
(* records what each call does to the tables the call before it left.      *)

Before(p) == IF p = 1 THEN InitTables ELSE prog[p - 1].after

ProgType == /\ prog \in Seq([call : Call, after : TablesType])
            /\ pc \in [Nodes -> Nat]
            /\ stopped \subseteq Nodes
            /\ loc \in [Nodes -> TablesType]
            /\ \A n \in Nodes : pc[n] <= Len(prog)

Recorded ==
  \A p \in 1 .. Len(prog) :
    /\ Before(p) \in TablesType /\ Exact(Before(p))
    /\ prog[p].call.op \in Steps
    /\ Legal(Before(p), prog[p].call)
    /\ prog[p].after = IF Blocked(Before(p), prog[p].call) THEN Before(p)
                       ELSE Effect(Before(p), prog[p].call)

Passed ==
  \A n \in Nodes : \A p \in 1 .. pc[n] : ~Blocked(Before(p), prog[p].call)

Stuck ==
  \A n \in stopped : /\ pc[n] < Len(prog)
                     /\ Blocked(loc[n], prog[pc[n] + 1].call)

AgreeInv == \A n \in Nodes : loc[n] = Before(pc[n] + 1)

HistoryInv == ProgType /\ Recorded /\ Passed /\ Stuck /\ AgreeInv

LEMMA InitType == InitTables \in TablesType /\ Exact(InitTables)
<1>1. 0 \in Ids
  BY IdsAssumption DEF Ids
<1>2. (CHOOSE g \in GatherIndex : TRUE) \in GatherIndex
  BY NonEmptyAssumption
<1>3. [t \in Tags |-> <<>>] \in [Tags -> Seq(Ids)]
  OBVIOUS
<1>4. InitTables \in TablesType
  BY <1>1, <1>2, <1>3 DEF InitTables, TablesType, Phases
<1>5. InitTables.used = {} /\ InitTables.ids = [t \in Tags |-> <<>>]
  BY DEF InitTables
<1>6. \A t \in Tags : IdsOf(InitTables, t) = {}
  BY <1>5 DEF IdsOf
<1>7. ExclusiveIn(InitTables)
  BY <1>5, <1>6 DEF ExclusiveIn
<1> QED BY <1>4, <1>5, <1>7 DEF Exact

LEMMA HistoryInit == Init => HistoryInv
<1> SUFFICES ASSUME Init PROVE HistoryInv
  OBVIOUS
<1>1. ProgType
  BY InitType DEF Init, ProgType
<1>2. AgreeInv
  BY DEF Init, AgreeInv, Before
<1>3. Recorded /\ Passed /\ Stuck
  BY DEF Init, Recorded, Passed, Stuck
<1> QED BY <1>1, <1>2, <1>3 DEF HistoryInv

LEMMA CallTyped ==
  ASSUME HistoryInv, NEW p \in 1 .. Len(prog)
  PROVE  prog[p].call \in Call
<1> DEFINE R == [call : Call, after : TablesType]
<1>1. prog \in Seq(R)
  BY DEF HistoryInv, ProgType
<1> HIDE DEF R
<1>2. prog[p] \in R
  BY <1>1
<1> QED BY <1>2 DEF R

(* The tables a node has when it comes to a call.                          *)
LEMMA NextCallFits ==
  ASSUME HistoryInv, NEW n \in Nodes, NEW c \in Next1Call(n)
  PROVE  /\ c \in Call /\ Legal(loc[n], c)
         /\ loc[n] \in TablesType
         /\ pc[n] \in Nat
         /\ pc[n] < Len(prog) => c = prog[pc[n] + 1].call
         /\ pc[n] >= Len(prog) => pc[n] = Len(prog)
<1> USE DEF HistoryInv, ProgType
<1>1. loc[n] = Before(pc[n] + 1) /\ loc[n] \in TablesType /\ pc[n] \in Nat
  BY DEF AgreeInv
<1>2. CASE pc[n] < Len(prog)
  <2>1. c = prog[pc[n] + 1].call /\ pc[n] + 1 \in 1 .. Len(prog)
    BY <1>1, <1>2 DEF Next1Call
  <2>2. c \in Call
    BY <2>1, CallTyped
  <2>3. Legal(Before(pc[n] + 1), prog[pc[n] + 1].call)
    BY <2>1 DEF Recorded
  <2> QED BY <1>1, <1>2, <2>1, <2>2, <2>3
<1>3. CASE ~(pc[n] < Len(prog))
  BY <1>1, <1>3 DEF Next1Call
<1> QED BY <1>2, <1>3

(* The tables of a node are exact: those after a call are either the ones  *)
(* before the next call, or the effect of the last call of the program.    *)
LEMMA LocExact ==
  ASSUME HistoryInv, NEW n \in Nodes
  PROVE  loc[n] \in TablesType /\ Exact(loc[n])
<1> USE DEF HistoryInv, ProgType
<1>1. loc[n] \in TablesType /\ loc[n] = Before(pc[n] + 1)
  BY DEF AgreeInv
<1>2. CASE pc[n] = 0
  BY <1>1, <1>2, InitType DEF Before
<1>3. CASE pc[n] > 0
  <2>1. pc[n] \in 1 .. Len(prog) /\ loc[n] = prog[pc[n]].after
    BY <1>1, <1>3 DEF Before
  <2>2. /\ Before(pc[n]) \in TablesType /\ Exact(Before(pc[n]))
        /\ prog[pc[n]].call.op \in Steps
        /\ Legal(Before(pc[n]), prog[pc[n]].call)
        /\ prog[pc[n]].call \in Call
    BY <2>1, CallTyped DEF Recorded
  <2>3. prog[pc[n]].after = Effect(Before(pc[n]), prog[pc[n]].call)
        /\ ~Blocked(Before(pc[n]), prog[pc[n]].call)
    BY <2>1, <1>3 DEF Recorded, Passed
  <2> QED BY <1>1, <2>1, <2>2, <2>3, EffectExact
<1>4. pc[n] = 0 \/ pc[n] > 0
  OBVIOUS
<1> QED BY <1>2, <1>3, <1>4

(* The program only grows, by the call of the node that is furthest on.    *)
LEMMA ProgGrows ==
  ASSUME HistoryInv, NEW n \in Nodes, NEW c \in Next1Call(n), c.op \in Steps,
         Makes(n, c) \/ Stops(n, c)
  PROVE  /\ prog' \in Seq([call : Call, after : TablesType])
         /\ Len(prog) <= Len(prog')
         /\ \A p \in 1 .. Len(prog) : prog'[p] = prog[p]
         /\ pc[n] + 1 \in 1 .. Len(prog')
         /\ prog'[pc[n] + 1].call = c
         /\ \A p \in 1 .. Len(prog') : p <= Len(prog) \/ p = pc[n] + 1
         /\ \A p \in 1 .. Len(prog) + 1 : Before(p)' = Before(p)
         /\ prog'[pc[n] + 1].after = IF Blocked(loc[n], c) THEN loc[n]
                                    ELSE Effect(loc[n], c)
<1> DEFINE l == IF Blocked(loc[n], c) THEN loc[n] ELSE Effect(loc[n], c)
           R == [call : Call, after : TablesType]
<1>1. /\ c \in Call /\ loc[n] \in TablesType /\ pc[n] \in Nat
      /\ pc[n] < Len(prog) => c = prog[pc[n] + 1].call
      /\ pc[n] >= Len(prog) => pc[n] = Len(prog)
      /\ prog \in Seq(R)
  BY NextCallFits DEF HistoryInv, ProgType
<1>2. l \in TablesType
  BY <1>1, EffectType
<1>3. prog' = IF pc[n] = Len(prog)
              THEN Append(prog, [call |-> c, after |-> l]) ELSE prog
  BY DEF Makes, Stops, Complete, Terminate
<1>4. pc[n] < Len(prog) => prog[pc[n] + 1].after = l
  <2>1. loc[n] = Before(pc[n] + 1)
    BY DEF HistoryInv, AgreeInv
  <2>2. pc[n] < Len(prog) => pc[n] + 1 \in 1 .. Len(prog)
    BY <1>1
  <2>3. pc[n] < Len(prog) =>
          prog[pc[n] + 1].after =
            IF Blocked(Before(pc[n] + 1), prog[pc[n] + 1].call)
            THEN Before(pc[n] + 1)
            ELSE Effect(Before(pc[n] + 1), prog[pc[n] + 1].call)
    BY <2>2 DEF HistoryInv, Recorded
  <2> QED BY <1>1, <2>1, <2>3
<1> HIDE DEF l
<1>5. CASE pc[n] = Len(prog)
  <2>1. prog' = Append(prog, [call |-> c, after |-> l])
    BY <1>3, <1>5
  <2>2. [call |-> c, after |-> l] \in R
    BY <1>1, <1>2
  <2>3. /\ prog' \in Seq(R) /\ Len(prog') = Len(prog) + 1
        /\ \A p \in 1 .. Len(prog) : prog'[p] = prog[p]
        /\ prog'[Len(prog) + 1] = [call |-> c, after |-> l]
    BY <1>1, <2>1, <2>2
  <2>4. \A p \in 1 .. Len(prog) + 1 : Before(p)' = Before(p)
    BY <1>1, <2>3 DEF Before
  <2> QED BY <1>1, <1>5, <2>3, <2>4 DEF l
<1>6. CASE pc[n] < Len(prog)
  <2>1. prog' = prog
    BY <1>1, <1>3, <1>6
  <2>2. \A p \in 1 .. Len(prog) + 1 : Before(p)' = Before(p)
    BY <2>1 DEF Before
  <2> QED BY <1>1, <1>4, <1>6, <2>1, <2>2 DEF l
<1>7. pc[n] = Len(prog) \/ pc[n] < Len(prog)
  BY <1>1
<1> QED BY <1>5, <1>6, <1>7

LEMMA RecordedStep ==
  ASSUME HistoryInv, NEW n \in Nodes, NEW c \in Next1Call(n), c.op \in Steps,
         Makes(n, c) \/ Stops(n, c)
  PROVE  Recorded'
<1>1. ASSUME NEW p \in 1 .. Len(prog'), p <= Len(prog)
      PROVE  /\ Before(p)' \in TablesType /\ Exact(Before(p)')
             /\ prog'[p].call.op \in Steps
             /\ Legal(Before(p)', prog'[p].call)
             /\ prog'[p].after = IF Blocked(Before(p)', prog'[p].call)
                                 THEN Before(p)'
                                 ELSE Effect(Before(p)', prog'[p].call)
  <2>1. prog \in Seq([call : Call, after : TablesType]) /\ p \in 1 .. Len(prog)
    BY <1>1 DEF HistoryInv, ProgType
  <2>2. Before(p)' = Before(p) /\ prog'[p] = prog[p]
    BY <2>1, ProgGrows
  <2> QED BY <2>1, <2>2 DEF HistoryInv, Recorded
<1>2. ASSUME NEW p \in 1 .. Len(prog'), p > Len(prog)
      PROVE  /\ Before(p)' \in TablesType /\ Exact(Before(p)')
             /\ prog'[p].call.op \in Steps
             /\ Legal(Before(p)', prog'[p].call)
             /\ prog'[p].after = IF Blocked(Before(p)', prog'[p].call)
                                 THEN Before(p)'
                                 ELSE Effect(Before(p)', prog'[p].call)
  <2>1. prog \in Seq([call : Call, after : TablesType]) /\ Len(prog) \in Nat
    BY DEF HistoryInv, ProgType
  <2>2. p = pc[n] + 1 /\ prog'[p].call = c
    BY <1>2, <2>1, ProgGrows
  <2>3. pc[n] \in Nat /\ pc[n] = Len(prog)
    BY <1>2, <2>1, <2>2, NextCallFits
  <2>4. Before(p)' = loc[n]
    <3>1. Before(p)' = Before(p)
      BY <2>1, <2>2, <2>3, ProgGrows
    <3> QED BY <3>1, <2>2 DEF HistoryInv, AgreeInv
  <2>5. Exact(loc[n]) /\ loc[n] \in TablesType
    BY LocExact
  <2> QED BY <2>2, <2>4, <2>5, NextCallFits, ProgGrows
<1>3. prog' \in Seq([call : Call, after : TablesType])
  BY ProgGrows
<1>4. prog \in Seq([call : Call, after : TablesType])
  BY DEF HistoryInv, ProgType
<1>5. \A p \in 1 .. Len(prog') : p <= Len(prog) \/ p > Len(prog)
  BY <1>3, <1>4
<1> QED BY <1>1, <1>2, <1>5 DEF Recorded, Before

(* A call that is made: the node moves on to the tables it left.           *)
LEMMA MakesStep ==
  ASSUME HistoryInv, NEW n \in Nodes, NEW c \in Next1Call(n), c.op \in Steps,
         Makes(n, c)
  PROVE  HistoryInv'
<1> DEFINE q == pc[n] + 1
<1>1. Recorded'
  BY RecordedStep
<1>2. /\ pc \in [Nodes -> Nat] /\ loc \in [Nodes -> TablesType]
      /\ stopped \subseteq Nodes
      /\ prog \in Seq([call : Call, after : TablesType])
      /\ \A m \in Nodes : pc[m] <= Len(prog)
  BY DEF HistoryInv, ProgType
<1>3. /\ c \in Call /\ n \notin stopped
      /\ pc' = [pc EXCEPT ![n] = q] /\ stopped' = stopped
      /\ loc' = [loc EXCEPT ![n] = Effect(loc[n], c)]
      /\ ~Blocked(loc[n], c)
  BY NextCallFits DEF Makes, Complete
<1>4. /\ prog' \in Seq([call : Call, after : TablesType])
      /\ Len(prog) <= Len(prog') /\ q \in 1 .. Len(prog')
      /\ \A p \in 1 .. Len(prog) : prog'[p] = prog[p]
      /\ \A p \in 1 .. Len(prog) + 1 : Before(p)' = Before(p)
      /\ prog'[q].call = c /\ prog'[q].after = Effect(loc[n], c)
  BY <1>3, ProgGrows
<1>5. Effect(loc[n], c) \in TablesType
  BY <1>3, LocExact, EffectType
<1>6. ProgType'
  <2>1. \A m \in Nodes : pc'[m] <= Len(prog')
    BY <1>2, <1>3, <1>4
  <2> QED BY <1>2, <1>3, <1>4, <1>5, <2>1 DEF ProgType
<1>7. AgreeInv'
  <2> DEFINE After(p) == IF p = 1 THEN InitTables ELSE prog'[p - 1].after
  <2>1. \A p \in 1 .. Len(prog) + 1 : After(p) = Before(p)
    BY <1>4 DEF Before
  <2>2. ASSUME NEW m \in Nodes PROVE loc'[m] = After(pc'[m] + 1)
    <3>1. CASE m = n
      BY <3>1, <1>2, <1>3, <1>4
    <3>2. CASE m /= n
      <4>1. pc'[m] = pc[m] /\ loc'[m] = loc[m]
        BY <3>2, <1>2, <1>3
      <4>2. pc[m] + 1 \in 1 .. Len(prog) + 1
        BY <1>2
      <4> HIDE DEF After
      <4> QED BY <4>1, <4>2, <2>1 DEF HistoryInv, AgreeInv
    <3> QED BY <3>1, <3>2
  <2> QED BY <2>2 DEF AgreeInv, Before
<1>8. Passed'
  <2>1. ASSUME NEW m \in Nodes, NEW p \in 1 .. pc'[m]
        PROVE  ~Blocked(Before(p)', prog'[p].call)
    <3>1. CASE p <= pc[m]
      <4>1. p \in 1 .. pc[m] /\ p \in 1 .. Len(prog)
        BY <3>1, <1>2
      <4>2. Before(p)' = Before(p) /\ prog'[p] = prog[p]
        BY <4>1, <1>2, <1>4
      <4> QED BY <4>1, <4>2 DEF HistoryInv, Passed
    <3>2. CASE ~(p <= pc[m])
      <4>1. m = n /\ p = q
        BY <3>2, <1>2, <1>3
      <4>2. Before(p)' = Before(p)
        BY <4>1, <1>2, <1>4
      <4>3. Before(p) = loc[n]
        BY <4>1 DEF HistoryInv, AgreeInv
      <4> QED BY <4>1, <4>2, <4>3, <1>3, <1>4
    <3> QED BY <3>1, <3>2
  <2> QED BY <2>1 DEF Passed, Before
<1>9. Stuck'
  <2>1. ASSUME NEW m \in stopped
        PROVE  pc'[m] < Len(prog') /\ Blocked(loc'[m], prog'[pc'[m] + 1].call)
    <3>1. pc'[m] = pc[m] /\ loc'[m] = loc[m] /\ m \in Nodes
      BY <1>2, <1>3
    <3>2. pc[m] < Len(prog) /\ Blocked(loc[m], prog[pc[m] + 1].call)
      BY DEF HistoryInv, Stuck
    <3>3. pc[m] + 1 \in 1 .. Len(prog)
      BY <3>1, <3>2, <1>2
    <3> QED BY <3>1, <3>2, <3>3, <1>2, <1>4
  <2> QED BY <2>1, <1>3 DEF Stuck
<1> QED BY <1>1, <1>6, <1>7, <1>8, <1>9 DEF HistoryInv

(* A call that cannot be made: the node stays where it is.                 *)
LEMMA StopsStep ==
  ASSUME HistoryInv, NEW n \in Nodes, NEW c \in Next1Call(n), c.op \in Steps,
         Stops(n, c)
  PROVE  HistoryInv'
<1>1. Recorded'
  BY RecordedStep
<1>2. /\ pc \in [Nodes -> Nat] /\ loc \in [Nodes -> TablesType]
      /\ stopped \subseteq Nodes
      /\ prog \in Seq([call : Call, after : TablesType])
      /\ \A m \in Nodes : pc[m] <= Len(prog)
  BY DEF HistoryInv, ProgType
<1>3. /\ pc' = pc /\ loc' = loc /\ stopped' = stopped \union {n}
      /\ Blocked(loc[n], c)
  BY DEF Stops, Terminate
<1>4. /\ prog' \in Seq([call : Call, after : TablesType])
      /\ Len(prog) <= Len(prog') /\ pc[n] + 1 \in 1 .. Len(prog')
      /\ \A p \in 1 .. Len(prog) : prog'[p] = prog[p]
      /\ \A p \in 1 .. Len(prog) + 1 : Before(p)' = Before(p)
      /\ prog'[pc[n] + 1].call = c
  BY ProgGrows
<1>5. ProgType'
  <2>1. \A m \in Nodes : pc'[m] <= Len(prog')
    BY <1>2, <1>3, <1>4
  <2> QED BY <1>2, <1>3, <1>4, <2>1 DEF ProgType
<1>6. AgreeInv'
  <2> DEFINE After(p) == IF p = 1 THEN InitTables ELSE prog'[p - 1].after
  <2>1. \A p \in 1 .. Len(prog) + 1 : After(p) = Before(p)
    BY <1>4 DEF Before
  <2>2. ASSUME NEW m \in Nodes PROVE loc'[m] = After(pc'[m] + 1)
    <3>1. pc[m] + 1 \in 1 .. Len(prog) + 1
      BY <1>2
    <3> HIDE DEF After
    <3> QED BY <3>1, <2>1, <1>3 DEF HistoryInv, AgreeInv
  <2> QED BY <2>2 DEF AgreeInv, Before
<1>7. Passed'
  <2>1. ASSUME NEW m \in Nodes, NEW p \in 1 .. pc'[m]
        PROVE  ~Blocked(Before(p)', prog'[p].call)
    <3>1. p \in 1 .. pc[m] /\ p \in 1 .. Len(prog)
      BY <1>2, <1>3
    <3>2. Before(p)' = Before(p) /\ prog'[p] = prog[p]
      BY <3>1, <1>2, <1>4
    <3> QED BY <3>1, <3>2 DEF HistoryInv, Passed
  <2> QED BY <2>1 DEF Passed, Before
<1>8. Stuck'
  <2>1. ASSUME NEW m \in stopped'
        PROVE  pc'[m] < Len(prog') /\ Blocked(loc'[m], prog'[pc'[m] + 1].call)
    <3>1. CASE m = n
      BY <3>1, <1>2, <1>3, <1>4
    <3>2. CASE m \in stopped
      <4>1. pc[m] < Len(prog) /\ Blocked(loc[m], prog[pc[m] + 1].call)
        BY <3>2 DEF HistoryInv, Stuck
      <4>2. pc[m] + 1 \in 1 .. Len(prog)
        BY <3>2, <4>1, <1>2
      <4> QED BY <4>1, <4>2, <1>2, <1>3, <1>4
    <3> QED BY <2>1, <3>1, <3>2, <1>3
  <2> QED BY <2>1 DEF Stuck
<1> QED BY <1>1, <1>5, <1>6, <1>7, <1>8 DEF HistoryInv

LEMMA HistoryNext == HistoryInv /\ [Next]_vars => HistoryInv'
<1> SUFFICES ASSUME HistoryInv, [Next]_vars PROVE HistoryInv'
  OBVIOUS
<1>1. ASSUME NEW n \in Nodes, Step(n) PROVE HistoryInv'
  BY <1>1, StepShape, MakesStep, StopsStep
<1>2. ASSUME UNCHANGED <<prog, pc, stopped, loc>> PROVE HistoryInv'
  BY <1>2 DEF HistoryInv, ProgType, Recorded, Passed, Stuck, AgreeInv, Before
<1>3. ASSUME NEW s \in Nodes, NEW d \in Nodes, Match(s, d) PROVE HistoryInv'
  BY <1>2, <1>3 DEF Match
<1>4. CASE UNCHANGED vars
  BY <1>2, <1>4 DEF vars
<1> QED BY <1>1, <1>3, <1>4 DEF Next

-----------------------------------------------------------------------------
THEOREM HistoryInvariant == Spec => []HistoryInv
<1>1. Init => HistoryInv
  BY HistoryInit
<1>2. HistoryInv /\ [Next]_vars => HistoryInv'
  BY HistoryNext
<1> QED BY <1>1, <1>2, PTL DEF Spec

(***************************************************************************)
(* On every node, in every state, no two gathers hold the same message id  *)
(* and id_array marks exactly the ids held (prepare_gather and             *)
(* cleanup_gather).                                                        *)
(***************************************************************************)
THEOREM IdsAreExclusive == Spec => []IdsExclusive
<1>1. HistoryInv => IdsExclusive
  BY LocExact DEF IdsExclusive, Exact
<1> QED BY <1>1, HistoryInvariant, PTL

(***************************************************************************)
(* Any two nodes have the same id_offset, id_array and tags at the same    *)
(* place in the program, though prepare_gather asks no other node.         *)
(***************************************************************************)
THEOREM NodesAgreeOnTables == Spec => []TablesAgree
<1>1. HistoryInv => TablesAgree
  BY DEF HistoryInv, ProgType, AgreeInv, TablesAgree, Before
<1> QED BY <1>1, HistoryInvariant, PTL

(***************************************************************************)
(* No node gets past a call of prepare_gather in which another one ran out *)
(* of message ids, so terminate() finds all nodes in its barrier.          *)
(***************************************************************************)
THEOREM NodesStopTogether == Spec => []StopTogether
<1>1. HistoryInv => StopTogether
  <2> SUFFICES ASSUME HistoryInv, NEW n \in stopped, NEW m \in Nodes,
                      ~(pc[m] <= pc[n])
               PROVE  FALSE
    BY DEF StopTogether
  <2>1. n \in Nodes /\ pc[n] \in Nat /\ pc[m] \in Nat
    BY DEF HistoryInv, ProgType
  <2>2. Blocked(loc[n], prog[pc[n] + 1].call)
    BY DEF HistoryInv, Stuck
  <2>3. loc[n] = Before(pc[n] + 1)
    BY <2>1 DEF HistoryInv, AgreeInv
  <2>4. pc[n] + 1 \in 1 .. pc[m]
    BY <2>1
  <2> QED BY <2>2, <2>3, <2>4 DEF HistoryInv, Passed
<1> QED BY <1>1, HistoryInvariant, PTL

-----------------------------------------------------------------------------
(* The messages: what is in the network, received and not yet sent.        *)

Receipt == [src : Nodes, at : Nat]

MsgType == /\ unsent \in [Nodes -> [Tags -> SUBSET Nat]]
           /\ net \in [Nodes -> [Nodes -> [Ids -> Seq(Msg)]]]
           /\ recvs \in [Nodes -> [Tags -> Seq(Receipt)]]

Bounded == Len(prog) <= MaxCalls

LEMMA NoMsgType == NoMsg \in Receipt
BY NonEmptyAssumption DEF NoMsg, Receipt

LEMMA PostAndSendType ==
  ASSUME HistoryInv, MsgType, NEW n \in Nodes, NEW l \in TablesType,
         NEW t \in Tags, PostAndSend(n, l, t)
  PROVE  MsgType'
<1> DEFINE g == l.g[t]
           sentTo(d, id) ==
             {k \in DOMAIN SendTo[g][n] :
                SendTo[g][n][k] = d /\ l.ids[t][SendId[g][n][k]] = id}
           message(k) == [src |-> n, at |-> pc[n] + 1, tag |-> t, k |-> k]
           queue(d, id) ==
             IF sentTo(d, id) = {} THEN net[n][d][id]
             ELSE Append(net[n][d][id],
                         message(CHOOSE k \in sentTo(d, id) : TRUE))
           new == [i \in DOMAIN RecvFrom[g][n] |-> NoMsg]
<1>1. /\ recvs' = [recvs EXCEPT ![n][t] = new]
      /\ net' = [net EXCEPT ![n] = [d \in Nodes |-> [id \in Ids |-> queue(d, id)]]]
      /\ unsent' = [unsent EXCEPT ![n][t] =
                      IF Buffered THEN {} ELSE DOMAIN SendTo[g][n]]
  BY DEF PostAndSend, Send, Sends, Posted, Unsent
<1>2. g \in GatherIndex /\ pc[n] \in Nat
  BY DEF TablesType, HistoryInv, ProgType
<1>3. SendTo[g][n] \in Seq(Nodes) /\ RecvFrom[g][n] \in Seq(Nodes)
  BY <1>2, TablesAssumption
<1>4. DOMAIN SendTo[g][n] \in SUBSET Nat
  BY <1>3
<1>5. new \in Seq(Receipt)
  BY <1>3, NoMsgType
<1>6. ASSUME NEW d \in Nodes, NEW id \in Ids PROVE queue(d, id) \in Seq(Msg)
  <2>1. net[n][d][id] \in Seq(Msg)
    BY DEF MsgType
  <2>2. CASE sentTo(d, id) = {}
    BY <2>1, <2>2
  <2>3. CASE sentTo(d, id) /= {}
    <3>1. PICK k \in sentTo(d, id) : k = CHOOSE x \in sentTo(d, id) : TRUE
      BY <2>3
    <3>2. k \in Nat
      BY <1>4
    <3>3. message(k) \in Msg
      BY <1>2, <3>2 DEF Msg
    <3>4. queue(d, id) = Append(net[n][d][id], message(k))
      BY <2>3, <3>1
    <3> HIDE DEF queue, message, sentTo
    <3> QED BY <2>1, <3>3, <3>4
  <2> QED BY <2>2, <2>3
<1> HIDE DEF queue, new, g, sentTo, message
<1>7. net' \in [Nodes -> [Nodes -> [Ids -> Seq(Msg)]]]
  BY <1>1, <1>6 DEF MsgType
<1>8. recvs' \in [Nodes -> [Tags -> Seq(Receipt)]]
  BY <1>1, <1>5 DEF MsgType
<1>9. unsent' \in [Nodes -> [Tags -> SUBSET Nat]]
  BY <1>1, <1>4 DEF MsgType
<1> QED BY <1>7, <1>8, <1>9 DEF MsgType

LEMMA MatchType ==
  ASSUME MsgType, NEW s \in Nodes, NEW d \in Nodes, Match(s, d)
  PROVE  MsgType'
<1> DEFINE m(id) == Head(net[s][d][id])
           Taken(t, id, i) ==
             /\ net[s][d][id] /= <<>>
             /\ recvs' = [recvs EXCEPT ![d][t][i] =
                            [src |-> m(id).src, at |-> m(id).at]]
             /\ net' = [net EXCEPT ![s][d][id] = Tail(net[s][d][id])]
             /\ unsent' = [unsent EXCEPT ![s][m(id).tag] =
                             unsent[s][m(id).tag] \ {m(id).k}]
<1>1. PICK t \in Tags, id \in Ids : \E i \in DOMAIN recvs[d][t] : Taken(t, id, i)
  BY DEF Match
<1>2. PICK i \in DOMAIN recvs[d][t] : Taken(t, id, i)
  BY <1>1
<1>3. net[s][d][id] \in Seq(Msg) /\ net[s][d][id] /= <<>>
  BY <1>2 DEF MsgType
<1>4. m(id) \in Msg /\ Tail(net[s][d][id]) \in Seq(Msg)
  BY <1>3
<1>5. net' \in [Nodes -> [Nodes -> [Ids -> Seq(Msg)]]]
  BY <1>2, <1>4 DEF MsgType
<1>6. recvs' \in [Nodes -> [Tags -> Seq(Receipt)]]
  <2> DEFINE r == [src |-> m(id).src, at |-> m(id).at]
  <2>1. r \in Receipt
    BY <1>4 DEF Msg, Receipt
  <2>2. recvs' = [recvs EXCEPT ![d][t][i] = r]
    BY <1>2
  <2> HIDE DEF r
  <2>3. recvs[d][t] \in Seq(Receipt) /\ i \in DOMAIN recvs[d][t]
    BY <1>2 DEF MsgType
  <2>4. [recvs[d][t] EXCEPT ![i] = r] \in Seq(Receipt)
    BY <2>1, <2>3
  <2> QED BY <2>2, <2>4 DEF MsgType
<1>7. unsent' \in [Nodes -> [Tags -> SUBSET Nat]]
  <2>1. m(id).tag \in Tags
    BY <1>4 DEF Msg
  <2> HIDE DEF m
  <2> QED BY <1>2, <2>1 DEF MsgType
<1> QED BY <1>5, <1>6, <1>7 DEF MsgType

(***************************************************************************)
(* The type invariant of Gather, for any number of nodes and ids.          *)
(***************************************************************************)
THEOREM TypeCorrect == Spec => []TypeOK
<1>1. Init => MsgType /\ Bounded
  BY BoundAssumption DEF Init, MsgType, Bounded, Receipt
<1>2. HistoryInv /\ MsgType /\ Bounded /\ [Next]_vars => MsgType' /\ Bounded'
  <2> SUFFICES ASSUME HistoryInv, MsgType, Bounded, [Next]_vars
               PROVE  MsgType' /\ Bounded'
    OBVIOUS
  <2>1. ASSUME NEW n \in Nodes, NEW c \in Next1Call(n), NEW l, Complete(n, c, l)
        PROVE  Bounded'
    BY <2>1, BoundAssumption
       DEF Complete, Bounded, Next1Call, HistoryInv, ProgType
  <2>2. ASSUME NEW n \in Nodes, NEW c \in Next1Call(n), Terminate(n, c)
        PROVE  MsgType' /\ Bounded'
    <3>1. Bounded'
      BY <2>2, BoundAssumption
         DEF Terminate, Bounded, Next1Call, HistoryInv, ProgType
    <3> QED BY <2>2, <3>1 DEF Terminate, MsgType
  <2>3. ASSUME NEW n \in Nodes, NEW c \in Next1Call(n), NEW l \in TablesType,
               StartWith(n, c, l)
        PROVE  MsgType' /\ Bounded'
    <3> DEFINE p == IF Unprepared(l, c.tag) THEN Prepared(l, c.tag) ELSE l
    <3>1. CASE Unprepared(l, c.tag) /\ OutOfIds(l, c.tag)
      BY <2>2, <2>3, <3>1 DEF StartWith
    <3>2. CASE ~(Unprepared(l, c.tag) /\ OutOfIds(l, c.tag))
      <4>1. c.tag \in Tags
        BY NextCallFits DEF Call
      <4>2. p \in TablesType
        BY <3>2, <4>1, PreparedType
      <4>3. Complete(n, c, Started(p, c.tag)) /\ PostAndSend(n, p, c.tag)
        BY <2>3, <3>2 DEF StartWith
      <4> QED BY <4>1, <4>2, <4>3, <2>1, PostAndSendType
    <3> QED BY <3>1, <3>2
  <2>4. ASSUME NEW n \in Nodes, Step(n) PROVE MsgType' /\ Bounded'
    <3>1. CASE DeclareGather(n)
      BY <2>1, <3>1 DEF DeclareGather, MsgType
    <3>2. CASE PrepareGather(n)
      BY <2>1, <2>2, <3>2 DEF PrepareGather, MsgType
    <3>3. CASE StartGather(n)
      <4>1. PICK c \in Next1Call(n) :
               StartWith(n, c, Declared(loc[n], c.tag, c.g))
        BY <3>3 DEF StartGather
      <4>2. Declared(loc[n], c.tag, c.g) \in TablesType
        BY NextCallFits, DeclaredType DEF Call
      <4> QED BY <4>1, <4>2, <2>3
    <3>4. CASE DoGather(n)
      <4>1. PICK c \in Next1Call(n) : StartWith(n, c, loc[n])
        BY <3>4 DEF DoGather
      <4>2. loc[n] \in TablesType
        BY LocExact
      <4> QED BY <4>1, <4>2, <2>3
    <3>5. CASE WaitGather(n)
      BY <2>1, <3>5 DEF WaitGather, MsgType
    <3>6. CASE CleanupGather(n)
      <4>1. PICK c \in Next1Call(n) :
              /\ Complete(n, c, Freed(loc[n], c.tag))
              /\ recvs' = [recvs EXCEPT ![n][c.tag] = <<>>]
              /\ UNCHANGED <<stopped, net, unsent>>
        BY <3>6 DEF CleanupGather
      <4>2. c.tag \in Tags /\ <<>> \in Seq(Receipt)
        BY NextCallFits DEF Call
      <4>3. recvs' \in [Nodes -> [Tags -> Seq(Receipt)]]
        BY <4>1, <4>2 DEF MsgType
      <4> QED BY <4>1, <4>3, <2>1 DEF MsgType
    <3>7. CASE GSync(n)
      BY <2>1, <3>7 DEF GSync, MsgType
    <3> QED BY <2>4, <3>1, <3>2, <3>3, <3>4, <3>5, <3>6, <3>7 DEF Step
  <2>5. ASSUME NEW s \in Nodes, NEW d \in Nodes, Match(s, d)
        PROVE  MsgType' /\ Bounded'
    BY <2>5, MatchType DEF Match, Bounded
  <2>6. CASE UNCHANGED vars
    BY <2>6 DEF vars, MsgType, Bounded
  <2> QED BY <2>4, <2>5, <2>6 DEF Next
<1>3. HistoryInv /\ MsgType /\ Bounded => TypeOK
  <2> SUFFICES ASSUME HistoryInv, MsgType, Bounded PROVE TypeOK
    OBVIOUS
  <2>1. /\ prog \in Seq([call : Call, after : TablesType])
        /\ stopped \subseteq Nodes
        /\ loc \in [Nodes -> TablesType]
        /\ pc \in [Nodes -> Nat]
        /\ \A n \in Nodes : pc[n] <= Len(prog)
    BY DEF HistoryInv, ProgType
  <2>2. pc \in [Nodes -> 0 .. Len(prog)]
    BY <2>1
  <2> QED BY <2>1, <2>2 DEF MsgType, Bounded, TypeOK, Receipt
<1> QED BY <1>1, <1>2, <1>3, HistoryInvariant, PTL DEF Spec

-----------------------------------------------------------------------------
(***************************************************************************)
(* A gather is named by the place p in prog of the call that started it.   *)
(***************************************************************************)
IsStart(p) == prog[p].call.op \in {"do", "start"}
Tag(p)     == prog[p].call.tag
Gat(p)     == prog[p].after.g[Tag(p)]
IdList(p)  == prog[p].after.ids[Tag(p)]
IsWait(p, t) == prog[p].call.op = "wait" /\ prog[p].call.tag = t

(* Up to the call q nothing waits for gather p; nothing starts its tag     *)
(* again; the tag has the ids of p.                                        *)
Unwaited(p, q) == \A w \in p + 1 .. q : ~IsWait(w, Tag(p))
Latest(p, q)   == \A r \in p + 1 .. q : IsStart(r) => Tag(r) /= Tag(p)
Same(p, q) == /\ prog[q].after.ids[Tag(p)] = IdList(p)
              /\ prog[q].after.g[Tag(p)] = Gat(p)

(* Node d started gather p and did not wait for it yet.                    *)
InGather(d, p) == p \in 1 .. pc[d] /\ IsStart(p) /\ Unwaited(p, pc[d])

(* A gather holds its ids until it is waited for.                          *)
HeldAt(q) ==
  \A p \in 1 .. q :
    IsStart(p) =>
      IF Unwaited(p, q)
      THEN prog[q].after.phase[Tag(p)] = "started" /\ Same(p, q) /\ Latest(p, q)
      ELSE \E w \in p + 1 .. q : IsWait(w, Tag(p)) /\ Same(p, w)

(* A tag that is started or done belongs to a gather.                      *)
StartAt(q) ==
  \A t \in Tags :
    prog[q].after.phase[t] \in {"started", "done"} =>
      \E p \in 1 .. q :
        /\ IsStart(p) /\ Tag(p) = t /\ Latest(p, q) /\ Same(p, q)
        /\ prog[q].after.phase[t] = "started" => Unwaited(p, q)

PlacesInv == \A n \in Nodes : \A q \in 1 .. pc[n] : HeldAt(q) /\ StartAt(q)

-----------------------------------------------------------------------------
(* What a call leaves of the tags.                                         *)

LEMMA TakeIdsLeaves ==
  ASSUME NEW l \in TablesType, NEW t \in Tags, NEW u \in Tags
  PROVE  /\ TakeIds(l, t).phase = l.phase /\ TakeIds(l, t).g = l.g
         /\ u /= t => TakeIds(l, t).ids[u] = l.ids[u]
BY DEF TakeIds, TablesType

LEMMA StartTablesLeave ==
  ASSUME NEW l \in TablesType, NEW t \in Tags, NEW u \in Tags,
         ~(Unprepared(l, t) /\ OutOfIds(l, t))
  PROVE  LET d == StartTables(l, t) IN
         /\ d.phase[t] = "started" /\ d.g = l.g
         /\ u /= t => d.phase[u] = l.phase[u] /\ d.ids[u] = l.ids[u]
<1> DEFINE k == TakeIds(l, t)
<1>1. /\ k.phase = l.phase /\ k.g = l.g
      /\ u /= t => k.ids[u] = l.ids[u]
  BY TakeIdsLeaves
<1>2. CASE Unprepared(l, t)
  <2>1. k \in TablesType
    BY <1>2, TakeIdsType
  <2> HIDE DEF k
  <2>2. StartTables(l, t) = Started([k EXCEPT !.phase[t] = "prepared"], t)
    BY <1>2 DEF StartTables, Prepared, k
  <2> QED BY <1>1, <2>1, <2>2 DEF Started, TablesType
<1>3. CASE ~Unprepared(l, t)
  <2>1. StartTables(l, t) = Started(l, t)
    BY <1>3 DEF StartTables
  <2> QED BY <2>1 DEF Started, TablesType
<1> QED BY <1>2, <1>3

LEMMA EffectOnTags ==
  ASSUME NEW l \in TablesType, NEW c \in Call, c.op \in Steps, ~Blocked(l, c),
         NEW t \in Tags
  PROVE  LET d == Effect(l, c) IN
         /\ c.tag /= t \/ c.op = "sync" =>
              d.phase[t] = l.phase[t] /\ d.ids[t] = l.ids[t] /\ d.g[t] = l.g[t]
         /\ c.op \in {"do", "start"} => d.phase[c.tag] = "started"
         /\ c.op = "wait" => /\ d.phase[c.tag] = "done"
                             /\ d.ids = l.ids /\ d.g = l.g
         /\ c.op \in {"declare", "prepare", "cleanup"} =>
              d.phase[c.tag] \notin {"started", "done"}
<1> USE DEF Call
<1>1. CASE c.op = "declare"
  BY <1>1 DEF Effect, Declared, TablesType
<1>2. CASE c.op = "prepare"
  <2> DEFINE k == TakeIds(l, c.tag)
  <2>1. k \in TablesType
    BY <1>2, TakeIdsType DEF Blocked
  <2>2. /\ k.phase = l.phase /\ k.g = l.g
        /\ t /= c.tag => k.ids[t] = l.ids[t]
    BY TakeIdsLeaves
  <2> HIDE DEF k
  <2>3. Effect(l, c) = [k EXCEPT !.phase[c.tag] = "prepared"]
    BY <1>2 DEF Effect, Prepared, k
  <2> QED BY <1>2, <2>1, <2>2, <2>3 DEF TablesType
<1>3. CASE c.op = "start"
  <2> DEFINE k == Declared(l, c.tag, c.g)
  <2>1. k \in TablesType
    BY DeclaredType
  <2>2. t /= c.tag =>
          k.phase[t] = l.phase[t] /\ k.ids[t] = l.ids[t] /\ k.g[t] = l.g[t]
    BY DEF Declared, TablesType
  <2>3. ~(Unprepared(k, c.tag) /\ OutOfIds(k, c.tag))
    BY <1>3 DEF Blocked
  <2> HIDE DEF k
  <2>4. Effect(l, c) = StartTables(k, c.tag)
    BY <1>3 DEF Effect, k
  <2> QED BY <1>3, <2>1, <2>2, <2>3, <2>4, StartTablesLeave
<1>4. CASE c.op = "do"
  <2>1. Effect(l, c) = StartTables(l, c.tag)
    BY <1>4 DEF Effect
  <2>2. ~(Unprepared(l, c.tag) /\ OutOfIds(l, c.tag))
    BY <1>4 DEF Blocked
  <2> QED BY <1>4, <2>1, <2>2, StartTablesLeave
<1>5. CASE c.op = "wait"
  BY <1>5 DEF Effect, Waited, TablesType
<1>6. CASE c.op = "cleanup"
  BY <1>6 DEF Effect, Freed, TablesType
<1>7. CASE c.op = "sync"
  BY <1>7 DEF Effect
<1> QED BY <1>1, <1>2, <1>3, <1>4, <1>5, <1>6, <1>7 DEF Steps

-----------------------------------------------------------------------------
(* The program of the nodes behind is fixed.                               *)

LEMMA AfterTyped ==
  ASSUME HistoryInv, NEW p \in 1 .. Len(prog)
  PROVE  prog[p].after \in TablesType
<1> DEFINE R == [call : Call, after : TablesType]
<1>1. prog \in Seq(R)
  BY DEF HistoryInv, ProgType
<1> HIDE DEF R
<1>2. prog[p] \in R
  BY <1>1
<1> QED BY <1>2 DEF R

LEMMA ProgStable ==
  ASSUME HistoryInv, NEW n \in Nodes, NEW c \in Next1Call(n), c.op \in Steps,
         Makes(n, c) \/ Stops(n, c), NEW p \in 1 .. Len(prog)
  PROVE  /\ prog'[p] = prog[p]
         /\ IsStart(p)' <=> IsStart(p)
         /\ Tag(p)' = Tag(p) /\ Gat(p)' = Gat(p) /\ IdList(p)' = IdList(p)
         /\ \A t \in Tags : IsWait(p, t)' <=> IsWait(p, t)
         /\ Tag(p) \in Tags /\ Gat(p) \in GatherIndex
         /\ IdList(p) \in Seq(Ids)
         /\ prog[p].after \in TablesType
<1>1. prog'[p] = prog[p]
  BY ProgGrows
<1>2. prog[p].call \in Call /\ prog[p].after \in TablesType
  BY CallTyped, AfterTyped
<1>3. prog[p].call.tag \in Tags
  BY <1>2 DEF Call
<1>4. /\ IsStart(p)' <=> IsStart(p)
      /\ Tag(p)' = Tag(p) /\ Gat(p)' = Gat(p) /\ IdList(p)' = IdList(p)
      /\ \A t \in Tags : IsWait(p, t)' <=> IsWait(p, t)
  BY <1>1 DEF IsStart, Tag, Gat, IdList, IsWait
<1>5. Gat(p) \in GatherIndex /\ IdList(p) \in Seq(Ids)
  BY <1>2, <1>3 DEF Tag, Gat, IdList, TablesType
<1> QED BY <1>1, <1>2, <1>3, <1>4, <1>5 DEF Tag

LEMMA IntervalStable ==
  ASSUME HistoryInv, NEW n \in Nodes, NEW c \in Next1Call(n), c.op \in Steps,
         Makes(n, c) \/ Stops(n, c), NEW q \in 1 .. Len(prog), NEW p \in 1 .. q
  PROVE  /\ Unwaited(p, q)' <=> Unwaited(p, q)
         /\ Latest(p, q)' <=> Latest(p, q)
         /\ Same(p, q)' <=> Same(p, q)
<1>1. p \in 1 .. Len(prog) /\ \A r \in p + 1 .. q : r \in 1 .. Len(prog)
  BY DEF HistoryInv, ProgType
<1>2. Tag(p)' = Tag(p) /\ Gat(p)' = Gat(p) /\ IdList(p)' = IdList(p) /\ Tag(p) \in Tags
  BY <1>1, ProgStable
<1>3. \A r \in p + 1 .. q : IsWait(r, Tag(p))' <=> IsWait(r, Tag(p))
  BY <1>1, <1>2, ProgStable DEF IsWait
<1>4. \A r \in p + 1 .. q : (IsStart(r)' <=> IsStart(r)) /\ Tag(r)' = Tag(r)
  BY <1>1, ProgStable
<1>5. prog'[q] = prog[q]
  BY ProgStable
<1>6. Unwaited(p, q)' <=> Unwaited(p, q)
  BY <1>2, <1>3 DEF Unwaited
<1>7. Latest(p, q)' <=> Latest(p, q)
  BY <1>2, <1>4 DEF Latest
<1>8. Same(p, q)' <=> Same(p, q)
  BY <1>2, <1>5 DEF Same
<1> QED BY <1>6, <1>7, <1>8

(* A call that is made becomes the last one its node has passed.           *)
LEMMA Moves ==
  ASSUME HistoryInv, NEW n \in Nodes, NEW c \in Next1Call(n), c.op \in Steps,
         Makes(n, c)
  PROVE  /\ pc[n] \in Nat /\ pc' = [pc EXCEPT ![n] = pc[n] + 1]
         /\ pc[n] + 1 \in 1 .. Len(prog')
         /\ \A m \in Nodes : pc[m] \in 0 .. Len(prog)
         /\ prog'[pc[n] + 1].call = c
         /\ prog'[pc[n] + 1].after = Effect(loc[n], c)
         /\ loc' = [loc EXCEPT ![n] = Effect(loc[n], c)]
         /\ loc[n] \in TablesType /\ Effect(loc[n], c) \in TablesType
         /\ loc \in [Nodes -> TablesType]
         /\ loc[n] = IF pc[n] = 0 THEN InitTables ELSE prog[pc[n]].after
         /\ ~Blocked(loc[n], c) /\ c \in Call /\ c.tag \in Tags
         /\ Legal(loc[n], c) /\ stopped' = stopped /\ n \notin stopped
         /\ pc[n] < Len(prog) => c = prog[pc[n] + 1].call
         /\ Len(prog) \in Nat /\ pc \in [Nodes -> Nat]
<1>1. /\ pc \in [Nodes -> Nat] /\ loc \in [Nodes -> TablesType]
      /\ prog \in Seq([call : Call, after : TablesType])
      /\ \A m \in Nodes : pc[m] <= Len(prog)
  BY DEF HistoryInv, ProgType
<1>2. /\ c \in Call /\ Legal(loc[n], c)
      /\ pc[n] < Len(prog) => c = prog[pc[n] + 1].call
  BY NextCallFits
<1>3. ~Blocked(loc[n], c)
  BY DEF Makes
<1>4. Effect(loc[n], c) \in TablesType
  BY <1>1, <1>2, <1>3, EffectType
<1>5. /\ pc[n] + 1 \in 1 .. Len(prog') /\ prog'[pc[n] + 1].call = c
      /\ prog'[pc[n] + 1].after = Effect(loc[n], c)
  BY <1>3, ProgGrows
<1>6. loc[n] = IF pc[n] = 0 THEN InitTables ELSE prog[pc[n]].after
  BY <1>1 DEF HistoryInv, AgreeInv, Before
<1>7. Len(prog) \in Nat /\ \A m \in Nodes : pc[m] \in 0 .. Len(prog)
  BY <1>1
<1> QED BY <1>1, <1>2, <1>3, <1>4, <1>5, <1>6, <1>7 DEF Makes, Complete, Call

(* What is true of the places a node has passed stays so.                  *)
LEMMA HistoryStable ==
  ASSUME HistoryInv, NEW n \in Nodes, NEW c \in Next1Call(n), c.op \in Steps,
         Makes(n, c) \/ Stops(n, c), NEW q \in 1 .. Len(prog)
  PROVE  (HeldAt(q) => HeldAt(q)') /\ (StartAt(q) => StartAt(q)')
<1>1. prog'[q] = prog[q]
  BY ProgStable
<1>2. \A p \in 1 .. q : p \in 1 .. Len(prog)
  BY DEF HistoryInv, ProgType
<1>3. \A p \in 1 .. q :
        /\ IsStart(p)' <=> IsStart(p)
        /\ Tag(p)' = Tag(p) /\ Tag(p) \in Tags
        /\ Unwaited(p, q)' <=> Unwaited(p, q)
        /\ Latest(p, q)' <=> Latest(p, q)
        /\ Same(p, q)' <=> Same(p, q)
  BY <1>2, ProgStable, IntervalStable
<1>4. \A p \in 1 .. q : \A w \in p + 1 .. q :
        /\ IsWait(w, Tag(p))' <=> IsWait(w, Tag(p))
        /\ Same(p, w)' <=> Same(p, w)
  <2> SUFFICES ASSUME NEW p \in 1 .. q, NEW w \in p + 1 .. q
               PROVE  /\ IsWait(w, Tag(p))' <=> IsWait(w, Tag(p))
                      /\ Same(p, w)' <=> Same(p, w)
    OBVIOUS
  <2>1. w \in 1 .. Len(prog) /\ p \in 1 .. w
    BY DEF HistoryInv, ProgType
  <2>2. prog'[w] = prog[w]
    BY <2>1, ProgStable
  <2> QED BY <1>3, <2>1, <2>2, IntervalStable DEF IsWait
<1>5. HeldAt(q) => HeldAt(q)'
  BY <1>1, <1>3, <1>4 DEF HeldAt
<1>6. StartAt(q) => StartAt(q)'
  BY <1>1, <1>3 DEF StartAt
<1> QED BY <1>5, <1>6

LEMMA HeldStep ==
  ASSUME HistoryInv, NEW n \in Nodes, NEW c \in Next1Call(n), c.op \in Steps,
         Makes(n, c), \A q \in 1 .. pc[n] : HeldAt(q), NEW a, a = pc[n] + 1
  PROVE  HeldAt(a)'
<1> DEFINE d == Effect(loc[n], c)
<1>1. /\ a \in Nat /\ pc[n] \in 0 .. Len(prog) /\ a - 1 = pc[n]
      /\ prog'[a].call = c /\ prog'[a].after = d
      /\ loc[n] \in TablesType /\ c \in Call /\ c.tag \in Tags
      /\ Legal(loc[n], c) /\ ~Blocked(loc[n], c) /\ Len(prog) \in Nat
      /\ loc[n] = IF pc[n] = 0 THEN InitTables ELSE prog[pc[n]].after
  BY Moves
<1>2. IsWait(a, c.tag)' <=> c.op = "wait"
  BY <1>1 DEF IsWait
<1> SUFFICES ASSUME NEW p \in 1 .. a, IsStart(p)'
             PROVE  IF Unwaited(p, a)'
                    THEN d.phase[Tag(p)'] = "started" /\ Same(p, a)' /\ Latest(p, a)'
                    ELSE \E w \in p + 1 .. a : IsWait(w, Tag(p))' /\ Same(p, w)'
  BY <1>1 DEF HeldAt
<1>3. CASE p = a
  <2>1. c.op \in {"do", "start"} /\ Tag(p)' = c.tag
    BY <1>1, <1>3 DEF IsStart, Tag
  <2>2. d.phase[c.tag] = "started"
    BY <1>1, <2>1, EffectOnTags
  <2>3. Same(p, a)'
    BY <1>3 DEF Same, IdList, Gat
  <2>4. Unwaited(p, a)' /\ Latest(p, a)'
    BY <1>1, <1>3 DEF Unwaited, Latest
  <2> QED BY <2>1, <2>2, <2>3, <2>4
<1>4. CASE p /= a
  <2> DEFINE t == Tag(p)
  <2>0. PICK b : b = pc[n]
    OBVIOUS
  <2>1. b \in 1 .. Len(prog) /\ p \in 1 .. b /\ p \in 1 .. Len(prog) /\ b \in 1 .. pc[n]
    BY <1>1, <1>4, <2>0
  <2>2. /\ IsStart(p) /\ Tag(p)' = t /\ t \in Tags
        /\ IdList(p)' = IdList(p) /\ Gat(p)' = Gat(p)
    BY <2>1, ProgStable
  <2>3. /\ Unwaited(p, b)' <=> Unwaited(p, b)
        /\ Latest(p, b)' <=> Latest(p, b)
        /\ Same(p, b)' <=> Same(p, b)
    BY <2>1, IntervalStable
  <2>4. HeldAt(b)
    BY <2>0, <2>1
  <2>5. loc[n] = prog[b].after
    BY <1>1, <2>0, <2>1
  <2> HIDE DEF t, d
  <2>6. \A w : w \in p + 1 .. a <=> w \in p + 1 .. b \/ w = a
    BY <1>1, <2>0, <2>1
  <2>7. CASE Unwaited(p, b)
    <3>1. loc[n].phase[t] = "started" /\ Same(p, b) /\ Latest(p, b)
      BY <2>1, <2>2, <2>4, <2>5, <2>7 DEF HeldAt, t
    <3>2. loc[n].ids[t] = IdList(p) /\ loc[n].g[t] = Gat(p)
      BY <2>5, <3>1 DEF Same, t
    <3>3. CASE c.op = "wait" /\ c.tag = t
      <4>1. d.ids = loc[n].ids /\ d.g = loc[n].g
        BY <1>1, <3>3, EffectOnTags DEF d
      <4>2. Same(p, a)'
        BY <1>1, <2>2, <3>2, <4>1 DEF Same
      <4>3. IsWait(a, Tag(p))'
        BY <1>2, <2>2, <3>3
      <4>4. ~Unwaited(p, a)'
        BY <2>6, <4>3 DEF Unwaited
      <4> QED BY <2>6, <4>2, <4>3, <4>4
    <3>4. CASE ~(c.op = "wait" /\ c.tag = t)
      <4>1. c.tag /= t \/ c.op = "sync"
        BY <1>1, <3>1, <3>4 DEF Legal, Steps
      <4>2. d.phase[t] = "started" /\ d.ids[t] = IdList(p) /\ d.g[t] = Gat(p)
        BY <1>1, <2>2, <3>1, <3>2, <4>1, EffectOnTags, ZenonT(60) DEF d
      <4>3. Same(p, a)'
        BY <1>1, <2>2, <4>2 DEF Same
      <4>4. ~IsWait(a, Tag(p))'
        BY <1>1, <2>2, <3>4 DEF IsWait
      <4>5. Unwaited(p, a)'
        BY <2>3, <2>6, <2>7, <4>4 DEF Unwaited
      <4>6. IsStart(a)' => Tag(a)' /= Tag(p)'
        BY <1>1, <2>2, <4>1 DEF IsStart, Tag
      <4>7. Latest(p, a)'
        BY <2>3, <2>6, <3>1, <4>6 DEF Latest
      <4> QED BY <2>2, <4>2, <4>3, <4>5, <4>7
    <3> QED BY <3>3, <3>4
  <2>8. CASE ~Unwaited(p, b)
    <3>1. HeldAt(b)'
      BY <2>1, <2>4, HistoryStable
    <3>2. ~Unwaited(p, b)'
      BY <2>3, <2>8
    <3>3. PICK w \in p + 1 .. b : IsWait(w, Tag(p))' /\ Same(p, w)'
      BY <2>1, <3>1, <3>2 DEF HeldAt
    <3>4. w \in p + 1 .. a
      BY <2>6
    <3>5. ~Unwaited(p, a)'
      BY <3>3, <3>4 DEF Unwaited
    <3> QED BY <3>3, <3>4, <3>5
  <2> QED BY <2>7, <2>8
<1> QED BY <1>3, <1>4

LEMMA StartStep ==
  ASSUME HistoryInv, NEW n \in Nodes, NEW c \in Next1Call(n), c.op \in Steps,
         Makes(n, c), \A q \in 1 .. pc[n] : StartAt(q), NEW a, a = pc[n] + 1
  PROVE  StartAt(a)'
<1> DEFINE d == Effect(loc[n], c)
<1>1. /\ a \in Nat /\ pc[n] \in 0 .. Len(prog) /\ a - 1 = pc[n]
      /\ prog'[a].call = c /\ prog'[a].after = d
      /\ loc[n] \in TablesType /\ c \in Call /\ c.tag \in Tags
      /\ Legal(loc[n], c) /\ ~Blocked(loc[n], c) /\ Len(prog) \in Nat
      /\ loc[n] = IF pc[n] = 0 THEN InitTables ELSE prog[pc[n]].after
  BY Moves
<1>0. ASSUME NEW t \in Tags
      PROVE  /\ c.tag /= t \/ c.op = "sync" =>
                  /\ d.phase[t] = loc[n].phase[t] /\ d.ids[t] = loc[n].ids[t]
                  /\ d.g[t] = loc[n].g[t]
             /\ c.op = "wait" => /\ d.phase[c.tag] = "done"
                                 /\ d.ids = loc[n].ids /\ d.g = loc[n].g
             /\ c.op \in {"declare", "prepare", "cleanup"} =>
                  d.phase[c.tag] \notin {"started", "done"}
  BY <1>1, EffectOnTags, ZenonT(60)
<1> SUFFICES ASSUME NEW t \in Tags, d.phase[t] \in {"started", "done"}
             PROVE  \E p \in 1 .. a :
                      /\ IsStart(p)' /\ Tag(p)' = t /\ Latest(p, a)' /\ Same(p, a)'
                      /\ d.phase[t] = "started" => Unwaited(p, a)'
  BY <1>1 DEF StartAt
<1> HIDE DEF d
<1>2. CASE c.op \in {"do", "start"} /\ c.tag = t
  <2>1. IsStart(a)' /\ Tag(a)' = t
    BY <1>1, <1>2 DEF IsStart, Tag
  <2>2. Same(a, a)'
    BY DEF Same, IdList, Gat
  <2>3. Unwaited(a, a)' /\ Latest(a, a)'
    <3>1. a + 1 .. a = {}
      BY <1>1
    <3> QED BY <3>1 DEF Unwaited, Latest
  <2>4. a \in 1 .. a
    <3>1. pc[n] \in Nat /\ a = pc[n] + 1
      BY <1>1
    <3> QED BY <3>1
  <2> QED BY <2>1, <2>2, <2>3, <2>4
<1>3. CASE ~(c.op \in {"do", "start"} /\ c.tag = t)
  <2>1. c.tag /= t \/ c.op \in {"sync", "wait"}
    BY <1>0, <1>3 DEF Steps
  <2>2. /\ \/ /\ c.tag = t /\ c.op = "wait"
              /\ loc[n].phase[t] = "started" /\ d.phase[t] = "done"
           \/ /\ ~(c.tag = t /\ c.op = "wait")
              /\ d.phase[t] = loc[n].phase[t]
        /\ d.ids[t] = loc[n].ids[t] /\ d.g[t] = loc[n].g[t]
    <3>1. CASE c.tag = t /\ c.op = "wait"
      BY <1>0, <1>1, <3>1 DEF Legal
    <3>2. CASE ~(c.tag = t /\ c.op = "wait")
      BY <1>0, <2>1, <3>2
    <3> QED BY <3>1, <3>2
  <2>3. loc[n].phase[t] \in {"started", "done"}
    BY <2>2
  <2>4. pc[n] /= 0
    BY <1>1, <2>3 DEF InitTables
  <2>5. PICK b : /\ b = pc[n] /\ b \in 1 .. pc[n] /\ b \in 1 .. Len(prog)
                 /\ loc[n] = prog[b].after
    BY <1>1, <2>4
  <2>6. PICK p \in 1 .. b :
          /\ IsStart(p) /\ Tag(p) = t /\ Latest(p, b) /\ Same(p, b)
          /\ loc[n].phase[t] = "started" => Unwaited(p, b)
    BY <2>3, <2>5 DEF StartAt
  <2>7. p \in 1 .. Len(prog)
    BY <2>5
  <2>8. /\ IsStart(p)' /\ Tag(p)' = t
        /\ IdList(p)' = IdList(p) /\ Gat(p)' = Gat(p)
    BY <2>6, <2>7, ProgStable
  <2>9. /\ Latest(p, b)'
        /\ loc[n].phase[t] = "started" => Unwaited(p, b)'
    BY <2>5, <2>6, IntervalStable
  <2>10. Same(p, a)'
    BY <1>1, <2>2, <2>5, <2>6, <2>8 DEF Same
  <2>11. \A w : w \in p + 1 .. a <=> w \in p + 1 .. b \/ w = a
    BY <1>1, <2>5
  <2>12. IsStart(a)' => Tag(a)' /= t
    BY <1>1, <1>3 DEF IsStart, Tag
  <2>13. Latest(p, a)'
    BY <2>8, <2>9, <2>11, <2>12 DEF Latest
  <2>14. d.phase[t] = "started" => Unwaited(p, a)'
    <3> SUFFICES ASSUME d.phase[t] = "started" PROVE Unwaited(p, a)'
      OBVIOUS
    <3>1. ~(c.tag = t /\ c.op = "wait") /\ loc[n].phase[t] = "started"
      BY <2>2
    <3>2. ~IsWait(a, t)'
      BY <1>1, <3>1 DEF IsWait
    <3> QED BY <2>8, <2>9, <2>11, <3>1, <3>2 DEF Unwaited
  <2>15. p \in 1 .. a
    BY <1>1, <2>5
  <2> QED BY <2>8, <2>10, <2>13, <2>14, <2>15
<1> QED BY <1>2, <1>3

LEMMA PlacesMade ==
  ASSUME HistoryInv, PlacesInv, NEW n \in Nodes, NEW c \in Next1Call(n),
         c.op \in Steps, Makes(n, c)
  PROVE  PlacesInv'
<1>1. /\ pc' = [pc EXCEPT ![n] = pc[n] + 1] /\ pc[n] \in Nat
      /\ pc \in [Nodes -> Nat] /\ \A m \in Nodes : pc[m] \in 0 .. Len(prog)
  BY Moves
<1>2. PICK a : a = pc[n] + 1
  OBVIOUS
<1>3. ASSUME NEW m \in Nodes, NEW q \in 1 .. pc'[m]
      PROVE  HeldAt(q)' /\ StartAt(q)'
  <2>1. CASE q \in 1 .. pc[m]
    <3>1. q \in 1 .. Len(prog) /\ HeldAt(q) /\ StartAt(q)
      BY <1>1, <2>1 DEF PlacesInv
    <3> QED BY <3>1, HistoryStable
  <2>2. CASE q \notin 1 .. pc[m]
    <3>1. m = n /\ q = a
      BY <1>1, <1>2, <1>3, <2>2
    <3>2. \A r \in 1 .. pc[n] : HeldAt(r) /\ StartAt(r)
      BY DEF PlacesInv
    <3> QED BY <1>2, <3>1, <3>2, HeldStep, StartStep
  <2> QED BY <2>1, <2>2
<1> QED BY <1>3 DEF PlacesInv

LEMMA PlacesKept ==
  ASSUME PlacesInv, UNCHANGED <<prog, pc>> PROVE PlacesInv'
<1>1. ASSUME NEW q PROVE HeldAt(q)' <=> HeldAt(q)
  BY DEF HeldAt, IsStart, IsWait, Tag, Gat, IdList, Unwaited, Latest, Same
<1>2. ASSUME NEW q PROVE StartAt(q)' <=> StartAt(q)
  BY DEF StartAt, IsStart, IsWait, Tag, Gat, IdList, Unwaited, Latest, Same
<1> QED BY <1>1, <1>2 DEF PlacesInv

LEMMA PlacesStopped ==
  ASSUME HistoryInv, PlacesInv, NEW n \in Nodes, NEW c \in Next1Call(n),
         c.op \in Steps, Stops(n, c)
  PROVE  PlacesInv'
<1>1. pc' = pc
  BY DEF Stops, Terminate
<1>2. ASSUME NEW m \in Nodes, NEW q \in 1 .. pc[m]
      PROVE  HeldAt(q)' /\ StartAt(q)'
  <2>1. q \in 1 .. Len(prog) /\ HeldAt(q) /\ StartAt(q)
    BY DEF PlacesInv, HistoryInv, ProgType
  <2> QED BY <2>1, HistoryStable
<1> QED BY <1>1, <1>2 DEF PlacesInv

-----------------------------------------------------------------------------
(* The steps again, with what they do to the messages.                     *)

DoesStart(n, c) ==
  /\ c.op \in {"do", "start"} /\ Makes(n, c)
  /\ \E l \in TablesType :
       /\ l.g[c.tag] = Effect(loc[n], c).g[c.tag]
       /\ l.ids[c.tag] = Effect(loc[n], c).ids[c.tag]
       /\ PostAndSend(n, l, c.tag)

DoesWait(n, c) ==
  /\ c.op = "wait" /\ Makes(n, c)
  /\ \A i \in DOMAIN recvs[n][c.tag] : recvs[n][c.tag][i] /= NoMsg
  /\ UNCHANGED <<recvs, net>>

DoesCleanup(n, c) ==
  /\ c.op = "cleanup" /\ Makes(n, c)
  /\ recvs' = [recvs EXCEPT ![n][c.tag] = <<>>] /\ UNCHANGED net

DoesOther(n, c) ==
  /\ c.op \in {"declare", "prepare", "sync"} /\ Makes(n, c)
  /\ c.op = "sync" => \A m \in Nodes : pc[m] >= pc[n]
  /\ UNCHANGED <<recvs, net>>

DoesStop(n, c) == Stops(n, c) /\ UNCHANGED <<recvs, net>>

LEMMA StartedTables ==
  ASSUME NEW n \in Nodes, NEW c \in Next1Call(n), HistoryInv,
         NEW l \in TablesType, c.op \in {"do", "start"}, StartWith(n, c, l),
         Effect(loc[n], c) = StartTables(l, c.tag),
         Blocked(loc[n], c) <=> Unprepared(l, c.tag) /\ OutOfIds(l, c.tag)
  PROVE  DoesStart(n, c) \/ DoesStop(n, c)
<1> DEFINE p == IF Unprepared(l, c.tag) THEN Prepared(l, c.tag) ELSE l
<1>1. CASE Blocked(loc[n], c)
  BY <1>1 DEF StartWith, DoesStop, Stops, Terminate
<1>2. CASE ~Blocked(loc[n], c)
  <2>1. Complete(n, c, Started(p, c.tag)) /\ PostAndSend(n, p, c.tag) /\ stopped' = stopped
    BY <1>2 DEF StartWith
  <2>2. c.tag \in Tags
    BY NextCallFits DEF Call
  <2>3. p \in TablesType
    BY <1>2, <2>2, PreparedType
  <2>4. Effect(loc[n], c) = Started(p, c.tag)
    BY DEF StartTables
  <2> HIDE DEF p
  <2>5. Started(p, c.tag).g = p.g /\ Started(p, c.tag).ids = p.ids
    BY <2>3 DEF Started, TablesType
  <2>6. Makes(n, c)
    BY <1>2, <2>1, <2>4 DEF Makes
  <2> QED BY <2>1, <2>3, <2>4, <2>5, <2>6 DEF DoesStart
<1> QED BY <1>1, <1>2

LEMMA StepKinds ==
  ASSUME HistoryInv, NEW n \in Nodes, Step(n)
  PROVE  \E c \in Next1Call(n) :
           /\ c.op \in Steps
           /\ \/ DoesStart(n, c) \/ DoesWait(n, c) \/ DoesCleanup(n, c)
              \/ DoesOther(n, c) \/ DoesStop(n, c)
<1>1. CASE DeclareGather(n)
  BY <1>1 DEF DeclareGather, Makes, DoesOther, Effect, Blocked, Steps
<1>2. CASE PrepareGather(n)
  BY <1>2 DEF PrepareGather, Makes, Stops, DoesOther, DoesStop, Effect, Blocked,
              Steps, Terminate
<1>3. CASE StartGather(n)
  <2>1. PICK c \in Next1Call(n) :
          c.op = "start" /\ StartWith(n, c, Declared(loc[n], c.tag, c.g))
    BY <1>3 DEF StartGather
  <2>2. Declared(loc[n], c.tag, c.g) \in TablesType
    BY NextCallFits, DeclaredType DEF Call
  <2>3. Effect(loc[n], c) = StartTables(Declared(loc[n], c.tag, c.g), c.tag)
    BY <2>1 DEF Effect
  <2>4. Blocked(loc[n], c) <=> /\ Unprepared(Declared(loc[n], c.tag, c.g), c.tag)
                               /\ OutOfIds(Declared(loc[n], c.tag, c.g), c.tag)
    BY <2>1 DEF Blocked
  <2>5. DoesStart(n, c) \/ DoesStop(n, c)
    BY <2>1, <2>2, <2>3, <2>4, StartedTables
  <2> QED BY <2>1, <2>5 DEF Steps
<1>4. CASE DoGather(n)
  <2>1. PICK c \in Next1Call(n) : c.op = "do" /\ StartWith(n, c, loc[n])
    BY <1>4 DEF DoGather
  <2>2. loc[n] \in TablesType
    BY LocExact
  <2>3. Effect(loc[n], c) = StartTables(loc[n], c.tag)
    BY <2>1 DEF Effect
  <2>4. Blocked(loc[n], c) <=> Unprepared(loc[n], c.tag) /\ OutOfIds(loc[n], c.tag)
    BY <2>1 DEF Blocked
  <2>5. DoesStart(n, c) \/ DoesStop(n, c)
    BY <2>1, <2>2, <2>3, <2>4, StartedTables
  <2> QED BY <2>1, <2>5 DEF Steps
<1>5. CASE WaitGather(n)
  BY <1>5 DEF WaitGather, Makes, DoesWait, Effect, Blocked, Steps
<1>6. CASE CleanupGather(n)
  BY <1>6 DEF CleanupGather, Makes, DoesCleanup, Effect, Blocked, Steps
<1>7. CASE GSync(n)
  BY <1>7 DEF GSync, Makes, DoesOther, Effect, Blocked, Steps
<1> QED BY <1>1, <1>2, <1>3, <1>4, <1>5, <1>6, <1>7 DEF Step

-----------------------------------------------------------------------------
(* The messages.  Send k of node s in gather p goes to d, into the receive *)
(* Slot(p, s, k) of d, and bears the id of that receive.                   *)

Slot(p, s, k) == SendId[Gat(p)][s][k]

SentIn(p, s, d, k, id) ==
  /\ IsStart(p) /\ k \in DOMAIN SendTo[Gat(p)][s]
  /\ SendTo[Gat(p)][s][k] = d
  /\ IdList(p)[Slot(p, s, k)] = id

(* Every message is that of a send of a gather its sender has started, in  *)
(* the order in which they were started.                                   *)
Sound(m, s, d, id) ==
  /\ m.src = s /\ m.at \in 1 .. pc[s] /\ m.tag = Tag(m.at)
  /\ SentIn(m.at, s, d, m.k, id)

Ordered(queue) == \A x, y \in DOMAIN queue : x < y => queue[x].at < queue[y].at

QueueInv ==
  \A s, d \in Nodes, id \in Ids :
    /\ \A x \in DOMAIN net[s][d][id] : Sound(net[s][d][id][x], s, d, id)
    /\ Ordered(net[s][d][id])

(* A tag that was started has its receives, one that was waited for has    *)
(* got them all.                                                           *)
SlotInv ==
  \A d \in Nodes, t \in Tags :
    loc[d].phase[t] \in {"started", "done"} =>
      /\ DOMAIN recvs[d][t] = DOMAIN RecvFrom[loc[d].g[t]][d]
      /\ loc[d].phase[t] = "done" =>
           \A i \in DOMAIN recvs[d][t] : recvs[d][t][i] /= NoMsg

(* Nobody gets past a barrier another one has not come to.                 *)
SyncInv ==
  \A s, d \in Nodes : \A r \in 1 .. pc[s] :
    prog[r].call.op = "sync" => pc[d] >= r - 1

LEMMA SentStable ==
  ASSUME HistoryInv, NEW n \in Nodes, NEW c \in Next1Call(n), c.op \in Steps,
         Makes(n, c) \/ Stops(n, c), NEW p \in 1 .. Len(prog),
         NEW s, NEW d, NEW k, NEW id
  PROVE  /\ SentIn(p, s, d, k, id)' <=> SentIn(p, s, d, k, id)
         /\ Slot(p, s, k)' = Slot(p, s, k)
<1>1. /\ IsStart(p)' <=> IsStart(p)
      /\ Gat(p)' = Gat(p) /\ IdList(p)' = IdList(p)
  BY ProgStable
<1>2. Slot(p, s, k)' = Slot(p, s, k)
  BY <1>1 DEF Slot
<1> QED BY <1>1, <1>2 DEF SentIn

(* What do_gather adds.                                                    *)
Added(n, c, a) ==
  /\ \A s \in Nodes \ {n} : net'[s] = net[s]
  /\ \A d \in Nodes, id \in Ids :
       \/ /\ net'[n][d][id] = net[n][d][id]
          /\ \A k : ~SentIn(a, n, d, k, id)'
       \/ \E k \in Nat :
            /\ SentIn(a, n, d, k, id)'
            /\ net'[n][d][id] =
                 Append(net[n][d][id],
                        [src |-> n, at |-> a, tag |-> c.tag, k |-> k])

LEMMA Posts ==
  ASSUME HistoryInv, MsgType, NEW n \in Nodes, NEW c \in Next1Call(n),
         c.op \in Steps, DoesStart(n, c), NEW a, a = pc[n] + 1
  PROVE  /\ IsStart(a)' /\ Tag(a)' = c.tag
         /\ recvs' = [recvs EXCEPT ![n][c.tag] =
                        [i \in DOMAIN RecvFrom[Gat(a)'][n] |-> NoMsg]]
         /\ Added(n, c, a)
<1>1. /\ prog'[a].call = c /\ prog'[a].after = Effect(loc[n], c)
      /\ c.tag \in Tags
  BY Moves DEF DoesStart
<1>2. IsStart(a)' /\ Tag(a)' = c.tag
  BY <1>1 DEF IsStart, Tag, DoesStart
<1>3. PICK l \in TablesType :
        /\ l.g[c.tag] = Effect(loc[n], c).g[c.tag]
        /\ l.ids[c.tag] = Effect(loc[n], c).ids[c.tag]
        /\ PostAndSend(n, l, c.tag)
  BY DEF DoesStart
<1>4. Gat(a)' = l.g[c.tag] /\ IdList(a)' = l.ids[c.tag]
  BY <1>1, <1>2, <1>3 DEF Gat, IdList
<1> DEFINE g == l.g[c.tag]
           sentTo(d, id) ==
             {k \in DOMAIN SendTo[g][n] :
                SendTo[g][n][k] = d /\ l.ids[c.tag][SendId[g][n][k]] = id}
           message(k) == [src |-> n, at |-> pc[n] + 1, tag |-> c.tag, k |-> k]
           queue(d, id) ==
             IF sentTo(d, id) = {} THEN net[n][d][id]
             ELSE Append(net[n][d][id],
                         message(CHOOSE k \in sentTo(d, id) : TRUE))
<1>5. /\ recvs' = [recvs EXCEPT ![n][c.tag] = [i \in DOMAIN RecvFrom[g][n] |-> NoMsg]]
      /\ net' = [net EXCEPT ![n] = [d \in Nodes |-> [id \in Ids |-> queue(d, id)]]]
  BY <1>3 DEF PostAndSend, Send, Sends, Posted
<1>6. \A d, id, k : SentIn(a, n, d, k, id)' <=> k \in sentTo(d, id)
  BY <1>2, <1>4 DEF SentIn, Slot
<1>7. g \in GatherIndex /\ \A d, id : sentTo(d, id) \subseteq Nat
  <2>1. g \in GatherIndex
    BY <1>1 DEF TablesType
  <2>2. SendTo[g][n] \in Seq(Nodes)
    BY <2>1, TablesAssumption
  <2>3. PICK S : S = DOMAIN SendTo[g][n]
    OBVIOUS
  <2>4. S \subseteq Nat
    BY <2>2, <2>3
  <2>5. ASSUME NEW d, NEW id PROVE sentTo(d, id) \subseteq S
    BY <2>3
  <2> QED BY <2>1, <2>4, <2>5
<1> HIDE DEF g, sentTo
<1>8. ASSUME NEW d \in Nodes, NEW id \in Ids
      PROVE  \/ /\ net'[n][d][id] = net[n][d][id]
                /\ \A k : ~SentIn(a, n, d, k, id)'
             \/ \E k \in Nat :
                  /\ SentIn(a, n, d, k, id)'
                  /\ net'[n][d][id] =
                       Append(net[n][d][id],
                              [src |-> n, at |-> a, tag |-> c.tag, k |-> k])
  <2>1. net'[n][d][id] = queue(d, id)
    BY <1>5 DEF MsgType
  <2>2. CASE sentTo(d, id) = {}
    BY <1>6, <2>1, <2>2
  <2>3. CASE sentTo(d, id) /= {}
    <3>1. PICK k \in sentTo(d, id) : k = CHOOSE x \in sentTo(d, id) : TRUE
      BY <2>3
    <3>2. SentIn(a, n, d, k, id)' /\ k \in Nat
      BY <1>6, <1>7, <3>1
    <3>3. net'[n][d][id] = Append(net[n][d][id], message(k))
      BY <2>1, <2>3, <3>1
    <3> QED BY <3>2, <3>3
  <2> QED BY <2>2, <2>3
<1>9. \A s \in Nodes \ {n} : net'[s] = net[s]
  BY <1>5 DEF MsgType
<1>10. recvs' = [recvs EXCEPT ![n][c.tag] = [i \in DOMAIN RecvFrom[Gat(a)'][n] |-> NoMsg]]
  BY <1>4, <1>5 DEF g
<1>11. Added(n, c, a)
  BY <1>8, <1>9 DEF Added
<1> QED BY <1>2, <1>10, <1>11

LEMMA SoundStable ==
  ASSUME HistoryInv, NEW n \in Nodes, NEW c \in Next1Call(n), c.op \in Steps,
         Makes(n, c) \/ Stops(n, c), NEW s \in Nodes, NEW d, NEW id,
         NEW m, Sound(m, s, d, id)
  PROVE  Sound(m, s, d, id)'
<1>1. m.src = s /\ m.at \in 1 .. pc[s] /\ m.tag = Tag(m.at) /\ SentIn(m.at, s, d, m.k, id)
  BY DEF Sound
<1>2. pc[s] \in 0 .. Len(prog) /\ pc'[s] \in Nat /\ pc[s] <= pc'[s]
  <2>1. CASE Makes(n, c)
    BY <2>1, Moves
  <2>2. CASE Stops(n, c)
    BY <2>2 DEF Stops, Terminate, HistoryInv, ProgType
  <2> QED BY <2>1, <2>2
<1>3. m.at \in 1 .. Len(prog) /\ m.at \in 1 .. pc'[s]
  BY <1>1, <1>2
<1>4. Tag(m.at)' = Tag(m.at)
  BY <1>3, ProgStable
<1>5. SentIn(m.at, s, d, m.k, id)'
  BY <1>1, <1>3, SentStable
<1> QED BY <1>1, <1>3, <1>4, <1>5 DEF Sound

LEMMA AppendOrdered ==
  ASSUME NEW queue \in Seq(Msg), NEW m \in Msg, Ordered(queue),
         \A x \in DOMAIN queue : queue[x].at < m.at
  PROVE  Ordered(Append(queue, m))
<1>1. /\ DOMAIN queue = 1 .. Len(queue) /\ Len(queue) \in Nat
      /\ DOMAIN Append(queue, m) = 1 .. Len(queue) + 1
      /\ \A x \in 1 .. Len(queue) : Append(queue, m)[x] = queue[x]
      /\ Append(queue, m)[Len(queue) + 1] = m
  OBVIOUS
<1> SUFFICES ASSUME NEW x \in DOMAIN Append(queue, m),
                    NEW y \in DOMAIN Append(queue, m), x < y
             PROVE  Append(queue, m)[x].at < Append(queue, m)[y].at
  BY DEF Ordered
<1>2. x \in DOMAIN queue /\ Append(queue, m)[x] = queue[x]
  BY <1>1
<1>3. CASE y = Len(queue) + 1
  BY <1>1, <1>2, <1>3
<1>4. CASE y /= Len(queue) + 1
  <2>1. y \in DOMAIN queue /\ Append(queue, m)[y] = queue[y]
    BY <1>1, <1>4
  <2> QED BY <1>2, <2>1 DEF Ordered
<1> QED BY <1>3, <1>4

LEMMA QueueStart ==
  ASSUME HistoryInv, MsgType, QueueInv, NEW n \in Nodes, NEW c \in Next1Call(n),
         c.op \in Steps, DoesStart(n, c)
  PROVE  QueueInv'
<1>1. PICK a : a = pc[n] + 1
  OBVIOUS
<1>2. Makes(n, c)
  BY DEF DoesStart
<1>3. /\ pc[n] \in Nat /\ pc' = [pc EXCEPT ![n] = pc[n] + 1] /\ pc \in [Nodes -> Nat]
      /\ c.tag \in Tags
  BY <1>2, Moves
<1>4. /\ IsStart(a)' /\ Tag(a)' = c.tag /\ Added(n, c, a)
  BY <1>1, Posts
<1>5. ASSUME NEW s \in Nodes, NEW d \in Nodes, NEW id \in Ids
      PROVE  /\ \A x \in DOMAIN net'[s][d][id] : Sound(net[s][d][id][x], s, d, id)'
             /\ Ordered(net'[s][d][id])
  <2>0. PICK queue : queue = net[s][d][id]
    OBVIOUS
  <2>1. \A x \in DOMAIN queue : Sound(queue[x], s, d, id)'
    BY <1>2, <2>0, SoundStable DEF QueueInv
  <2>2. Ordered(queue) /\ queue \in Seq(Msg)
    BY <2>0 DEF QueueInv, MsgType
  <2>3. CASE net'[s][d][id] = queue
    BY <2>1, <2>2, <2>3
  <2>4. CASE net'[s][d][id] /= queue
    <3>1. s = n
      BY <1>4, <2>0, <2>4 DEF Added
    <3>2. PICK k \in Nat :
            /\ SentIn(a, n, d, k, id)'
            /\ net'[n][d][id] =
                 Append(queue, [src |-> n, at |-> a, tag |-> c.tag, k |-> k])
      BY <1>4, <2>0, <2>4, <3>1 DEF Added
    <3> DEFINE m == [src |-> n, at |-> a, tag |-> c.tag, k |-> k]
    <3>3. m \in Msg /\ m.src = n /\ m.at = a /\ m.tag = c.tag /\ m.k = k
      BY <1>1, <1>3 DEF Msg
    <3>4. net'[s][d][id] = Append(queue, m)
      BY <3>1, <3>2
    <3> HIDE DEF m
    <3>5. Sound(m, s, d, id)'
      BY <1>1, <1>3, <1>4, <3>1, <3>2, <3>3 DEF Sound
    <3>6. \A x \in DOMAIN queue : queue[x].at < m.at
      <4>1. \A x \in DOMAIN queue : queue[x].at \in 1 .. pc[n]
        BY <2>0, <3>1 DEF QueueInv, Sound
      <4> QED BY <1>1, <1>3, <3>3, <4>1
    <3>7. Ordered(net'[s][d][id])
      BY <2>2, <3>3, <3>4, <3>6, AppendOrdered
    <3>8. \A x \in DOMAIN Append(queue, m) :
            \/ x \in DOMAIN queue /\ Append(queue, m)[x] = queue[x]
            \/ Append(queue, m)[x] = m
      BY <2>2
    <3> QED BY <2>1, <3>4, <3>5, <3>7, <3>8
  <2> QED BY <2>3, <2>4
<1> QED BY <1>5 DEF QueueInv, Ordered

LEMMA QueueKept ==
  ASSUME HistoryInv, QueueInv, NEW n \in Nodes, NEW c \in Next1Call(n),
         c.op \in Steps, Makes(n, c) \/ Stops(n, c), UNCHANGED net
  PROVE  QueueInv'
<1>1. ASSUME NEW s \in Nodes, NEW d \in Nodes, NEW id \in Ids
      PROVE  /\ \A x \in DOMAIN net[s][d][id] : Sound(net[s][d][id][x], s, d, id)'
             /\ Ordered(net[s][d][id])
  <2>1. PICK queue : queue = net[s][d][id]
    OBVIOUS
  <2>2. \A x \in DOMAIN queue : Sound(queue[x], s, d, id)'
    BY <2>1, SoundStable DEF QueueInv
  <2> QED BY <2>1, <2>2 DEF QueueInv
<1> QED BY <1>1 DEF QueueInv, Ordered

(* What a match takes away, and where it goes.                             *)
Takes(s, d, t, id, i) ==
  /\ loc[d].phase[t] = "started" /\ i \in DOMAIN recvs[d][t]
  /\ recvs[d][t][i] = NoMsg /\ loc[d].ids[t][i] = id
  /\ net[s][d][id] /= <<>>
  /\ recvs' = [recvs EXCEPT ![d][t][i] =
                 [src |-> Head(net[s][d][id]).src, at |-> Head(net[s][d][id]).at]]
  /\ net' = [net EXCEPT ![s][d][id] = Tail(net[s][d][id])]
  /\ UNCHANGED <<prog, pc, stopped, loc>>

LEMMA MatchTakes ==
  ASSUME NEW s \in Nodes, NEW d \in Nodes, Match(s, d), MsgType
  PROVE  \E t \in Tags, id \in Ids, i \in Nat : Takes(s, d, t, id, i)
<1>1. PICK t \in Tags, id \in Ids : \E i \in DOMAIN recvs[d][t] : Takes(s, d, t, id, i)
  BY DEF Match, Takes
<1>2. DOMAIN recvs[d][t] \subseteq Nat
  BY DEF MsgType
<1> QED BY <1>1, <1>2

LEMMA TailOf ==
  ASSUME NEW queue \in Seq(Msg), queue /= <<>>
  PROVE  /\ Head(queue) = queue[1] /\ 1 \in DOMAIN queue
         /\ DOMAIN Tail(queue) = 1 .. Len(queue) - 1
         /\ \A x \in DOMAIN Tail(queue) :
              x + 1 \in DOMAIN queue /\ Tail(queue)[x] = queue[x + 1]
         /\ \A x \in DOMAIN queue :
              x /= 1 => x - 1 \in DOMAIN Tail(queue) /\ Tail(queue)[x - 1] = queue[x]
OBVIOUS

NetTaken(s, d, id) ==
  \A r, e \in Nodes, j \in Ids :
    net'[r][e][j] = IF r = s /\ e = d /\ j = id THEN Tail(net[s][d][id])
                    ELSE net[r][e][j]

LEMMA MatchNet ==
  ASSUME MsgType, NEW s \in Nodes, NEW d \in Nodes, NEW t \in Tags,
         NEW id \in Ids, NEW i \in Nat, Takes(s, d, t, id, i)
  PROVE  NetTaken(s, d, id)
<1>1. PICK q : q = Tail(net[s][d][id])
  OBVIOUS
<1>2. ASSUME NEW r \in Nodes, NEW e \in Nodes, NEW j \in Ids
      PROVE  net'[r][e][j] = IF r = s /\ e = d /\ j = id THEN q ELSE net[r][e][j]
  <2>1. net' = [net EXCEPT ![s][d][id] = q]
    BY <1>1 DEF Takes
  <2>2. /\ net'[s] = [net[s] EXCEPT ![d][id] = q]
        /\ r /= s => net'[r] = net[r]
    BY <2>1 DEF MsgType
  <2>3. /\ net'[s][d] = [net[s][d] EXCEPT ![id] = q]
        /\ e /= d => net'[s][e] = net[s][e]
    BY <2>2 DEF MsgType
  <2>4. /\ net'[s][d][id] = q
        /\ j /= id => net'[s][d][j] = net[s][d][j]
    BY <2>3 DEF MsgType
  <2> QED BY <2>2, <2>3, <2>4
<1> QED BY <1>1, <1>2 DEF NetTaken

LEMMA QueueMatch ==
  ASSUME MsgType, QueueInv, NEW s \in Nodes, NEW d \in Nodes, NEW t \in Tags,
         NEW id \in Ids, NEW i \in Nat, Takes(s, d, t, id, i)
  PROVE  QueueInv'
<1>1. \A m, r, e, j : Sound(m, r, e, j)' <=> Sound(m, r, e, j)
  BY DEF Takes, Sound, SentIn, Slot, IsStart, Tag, Gat, IdList
<1>2. PICK q : q = net[s][d][id]
  OBVIOUS
<1>3. q \in Seq(Msg) /\ q /= <<>>
  BY <1>2 DEF MsgType, Takes
<1>4. \A r, e \in Nodes, j \in Ids :
        net'[r][e][j] = IF r = s /\ e = d /\ j = id THEN Tail(q) ELSE net[r][e][j]
  <2>1. NetTaken(s, d, id)
    BY MatchNet
  <2> QED BY <1>2, <2>1 DEF NetTaken
<1>5. Ordered(Tail(q))
  <2>1. Ordered(q)
    BY <1>2 DEF QueueInv
  <2> SUFFICES ASSUME NEW x \in DOMAIN Tail(q), NEW y \in DOMAIN Tail(q), x < y
               PROVE  Tail(q)[x].at < Tail(q)[y].at
    BY DEF Ordered
  <2>2. /\ x + 1 \in DOMAIN q /\ Tail(q)[x] = q[x + 1]
        /\ y + 1 \in DOMAIN q /\ Tail(q)[y] = q[y + 1]
        /\ x + 1 < y + 1
    BY <1>3, TailOf
  <2> QED BY <2>1, <2>2 DEF Ordered
<1>6. \A x \in DOMAIN Tail(q) : Sound(Tail(q)[x], s, d, id)
  BY <1>2, <1>3, TailOf DEF QueueInv
<1>7. ASSUME NEW r \in Nodes, NEW e \in Nodes, NEW j \in Ids
      PROVE  /\ \A x \in DOMAIN net'[r][e][j] : Sound(net'[r][e][j][x], r, e, j)
             /\ Ordered(net'[r][e][j])
  <2>1. CASE r = s /\ e = d /\ j = id
    BY <1>4, <1>5, <1>6, <2>1
  <2>2. CASE ~(r = s /\ e = d /\ j = id)
    BY <1>4, <2>2 DEF QueueInv
  <2> QED BY <2>1, <2>2
<1>8. ASSUME NEW r \in Nodes, NEW e \in Nodes, NEW j \in Ids
      PROVE  \A x \in DOMAIN net'[r][e][j] : Sound(net[r][e][j][x], r, e, j)'
  <2>1. PICK new : new = net'[r][e][j]
    OBVIOUS
  <2>2. \A x \in DOMAIN new : Sound(new[x], r, e, j)'
    BY <1>1, <1>7, <2>1
  <2> QED BY <2>1, <2>2
<1> QED BY <1>7, <1>8 DEF QueueInv, Ordered

-----------------------------------------------------------------------------
(* The gathers a node is in, before and after a call.                      *)

Kinds(n, c) == DoesStart(n, c) \/ DoesWait(n, c) \/ DoesCleanup(n, c) \/ DoesOther(n, c)

LEMMA TagsAfter ==
  ASSUME HistoryInv, NEW n \in Nodes, NEW c \in Next1Call(n), c.op \in Steps,
         Makes(n, c), NEW d \in Nodes, NEW t \in Tags
  PROVE  /\ d /= n => loc'[d] = loc[d]
         /\ d = n /\ (c.tag /= t \/ c.op = "sync") =>
              /\ loc'[d].phase[t] = loc[d].phase[t]
              /\ loc'[d].ids[t] = loc[d].ids[t] /\ loc'[d].g[t] = loc[d].g[t]
         /\ c.op \in {"do", "start"} => loc'[n].phase[c.tag] = "started"
         /\ c.op = "wait" => /\ loc'[n].phase[c.tag] = "done"
                             /\ loc'[n].ids = loc[n].ids /\ loc'[n].g = loc[n].g
         /\ c.op \in {"declare", "prepare", "cleanup"} =>
              loc'[n].phase[c.tag] \notin {"started", "done"}
<1> DEFINE e == Effect(loc[n], c)
<1>1. /\ loc' = [loc EXCEPT ![n] = e] /\ loc \in [Nodes -> TablesType]
      /\ loc[n] \in TablesType /\ c \in Call /\ ~Blocked(loc[n], c)
  BY Moves
<1>2. /\ c.tag /= t \/ c.op = "sync" =>
           e.phase[t] = loc[n].phase[t] /\ e.ids[t] = loc[n].ids[t] /\ e.g[t] = loc[n].g[t]
      /\ c.op \in {"do", "start"} => e.phase[c.tag] = "started"
      /\ c.op = "wait" => /\ e.phase[c.tag] = "done"
                          /\ e.ids = loc[n].ids /\ e.g = loc[n].g
      /\ c.op \in {"declare", "prepare", "cleanup"} =>
           e.phase[c.tag] \notin {"started", "done"}
  BY <1>1, EffectOnTags
<1> HIDE DEF e
<1>3. loc'[n] = e /\ (d /= n => loc'[d] = loc[d])
  BY <1>1
<1> QED BY <1>2, <1>3

LEMMA KindsMake ==
  ASSUME NEW n \in Nodes, NEW c, Kinds(n, c)
  PROVE  Makes(n, c) /\ UNCHANGED stopped
BY DEF Kinds, DoesStart, DoesWait, DoesCleanup, DoesOther, Makes

LEMMA RecvsStay ==
  ASSUME HistoryInv, MsgType, NEW n \in Nodes, NEW c \in Next1Call(n),
         c.op \in Steps, Kinds(n, c), NEW d \in Nodes, NEW t \in Tags,
         d /= n \/ t /= c.tag \/ c.op \notin {"do", "start", "cleanup"}
  PROVE  recvs'[d][t] = recvs[d][t]
<1>1. CASE DoesStart(n, c)
  <2>1. PICK a : a = pc[n] + 1
    OBVIOUS
  <2>2. PICK f : f = [i \in DOMAIN RecvFrom[Gat(a)'][n] |-> NoMsg]
    OBVIOUS
  <2>3. recvs' = [recvs EXCEPT ![n][c.tag] = f]
    BY <1>1, <2>1, <2>2, Posts
  <2>4. d /= n \/ t /= c.tag
    BY <1>1 DEF DoesStart
  <2>5. d /= n => recvs'[d] = recvs[d]
    BY <2>3 DEF MsgType
  <2>6. t /= c.tag => recvs'[n][t] = recvs[n][t]
    BY <2>3 DEF MsgType
  <2> QED BY <2>4, <2>5, <2>6
<1>2. CASE DoesCleanup(n, c)
  BY <1>2 DEF DoesCleanup, MsgType
<1>3. CASE DoesWait(n, c) \/ DoesOther(n, c)
  BY <1>3 DEF DoesWait, DoesOther
<1> QED BY <1>1, <1>2, <1>3 DEF Kinds

LEMMA SlotMade ==
  ASSUME HistoryInv, MsgType, SlotInv, NEW n \in Nodes, NEW c \in Next1Call(n),
         c.op \in Steps, Kinds(n, c)
  PROVE  SlotInv'
<1>1. Makes(n, c)
  BY KindsMake
<1>2. c.tag \in Tags
  BY <1>1, Moves
<1> SUFFICES ASSUME NEW d \in Nodes, NEW t \in Tags,
                    loc'[d].phase[t] \in {"started", "done"}
             PROVE  /\ DOMAIN recvs'[d][t] = DOMAIN RecvFrom[loc'[d].g[t]][d]
                    /\ loc'[d].phase[t] = "done" =>
                         \A i \in DOMAIN recvs'[d][t] : recvs'[d][t][i] /= NoMsg
  BY DEF SlotInv
<1>3. ASSUME recvs'[d][t] = recvs[d][t], loc'[d].g[t] = loc[d].g[t],
             loc'[d].phase[t] = loc[d].phase[t]
      PROVE  /\ DOMAIN recvs'[d][t] = DOMAIN RecvFrom[loc'[d].g[t]][d]
             /\ loc'[d].phase[t] = "done" =>
                  \A i \in DOMAIN recvs'[d][t] : recvs'[d][t][i] /= NoMsg
  BY <1>3 DEF SlotInv
<1>4. CASE d /= n \/ t /= c.tag \/ c.op = "sync"
  <2>1. loc'[d].g[t] = loc[d].g[t] /\ loc'[d].phase[t] = loc[d].phase[t]
    BY <1>1, <1>4, TagsAfter
  <2>2. recvs'[d][t] = recvs[d][t]
    BY <1>4, RecvsStay
  <2> QED BY <1>3, <2>1, <2>2
<1>5. CASE d = n /\ t = c.tag /\ DoesStart(n, c)
  <2>1. PICK l \in TablesType :
          /\ l.g[c.tag] = Effect(loc[n], c).g[c.tag]
          /\ PostAndSend(n, l, c.tag)
    BY <1>5 DEF DoesStart
  <2>2. recvs'[n][c.tag] = [i \in DOMAIN RecvFrom[l.g[c.tag]][n] |-> NoMsg]
    BY <1>2, <2>1 DEF PostAndSend, Posted, MsgType
  <2>3. loc'[n].g[c.tag] = l.g[c.tag]
    BY <1>1, <2>1, Moves
  <2>4. loc'[n].phase[c.tag] = "started"
    BY <1>1, <1>2, <1>5, TagsAfter DEF DoesStart
  <2> QED BY <1>5, <2>2, <2>3, <2>4
<1>6. CASE d = n /\ t = c.tag /\ DoesWait(n, c)
  <2>1. loc[n].phase[t] = "started"
    BY <1>1, <1>6, Moves DEF DoesWait, Legal
  <2>2. loc'[n].g = loc[n].g
    BY <1>1, <1>6, TagsAfter DEF DoesWait
  <2> QED BY <1>6, <2>1, <2>2 DEF DoesWait, SlotInv
<1>7. CASE d = n /\ t = c.tag /\ c.op \in {"declare", "prepare", "cleanup"}
  BY <1>1, <1>7, TagsAfter
<1> QED BY <1>4, <1>5, <1>6, <1>7 DEF Kinds, DoesCleanup, DoesOther

TakenBy(s, d, t, id, i) ==
  /\ recvs'[d][t][i] = [src |-> Head(net[s][d][id]).src, at |-> Head(net[s][d][id]).at]
  /\ recvs'[d][t][i] /= NoMsg
  /\ \A e \in Nodes, u \in Tags : \A j :
       e /= d \/ u /= t \/ j /= i => recvs'[e][u][j] = recvs[e][u][j]

LEMMA SlotMatch ==
  ASSUME MsgType, SlotInv, QueueInv, NEW s \in Nodes, NEW d \in Nodes, NEW t \in Tags,
         NEW id \in Ids, NEW i \in Nat, Takes(s, d, t, id, i)
  PROVE  SlotInv' /\ TakenBy(s, d, t, id, i)
<1> DEFINE r == [src |-> Head(net[s][d][id]).src, at |-> Head(net[s][d][id]).at]
<1>1. recvs' = [recvs EXCEPT ![d][t][i] = r] /\ i \in DOMAIN recvs[d][t]
  BY DEF Takes
<1>2. r.at /= 0
  <2>1. PICK q : q = net[s][d][id]
    OBVIOUS
  <2>2. q \in Seq(Msg) /\ q /= <<>>
    BY <2>1 DEF MsgType, Takes
  <2>3. Sound(q[1], s, d, id) /\ Head(q) = q[1]
    BY <2>1, <2>2, TailOf DEF QueueInv
  <2>4. q[1].at \in 1 .. pc[s]
    BY <2>3 DEF Sound
  <2> QED BY <2>1, <2>3, <2>4
<1>3. r /= NoMsg
  BY <1>2 DEF NoMsg
<1> HIDE DEF r
<1>4. /\ recvs'[d] = [recvs[d] EXCEPT ![t][i] = r]
      /\ \A e \in Nodes : e /= d => recvs'[e] = recvs[e]
  BY <1>1 DEF MsgType
<1>5. /\ recvs'[d][t] = [recvs[d][t] EXCEPT ![i] = r]
      /\ \A u \in Tags : u /= t => recvs'[d][u] = recvs[d][u]
  BY <1>4 DEF MsgType
<1>6. recvs[d][t] \in Seq(Receipt)
  BY DEF MsgType
<1>7. /\ recvs'[d][t][i] = r /\ DOMAIN recvs'[d][t] = DOMAIN recvs[d][t]
      /\ \A j : j /= i => recvs'[d][t][j] = recvs[d][t][j]
  <2>1. recvs'[d][t][i] = r /\ DOMAIN recvs'[d][t] = DOMAIN recvs[d][t]
    BY <1>1, <1>5, <1>6
  <2>2. ASSUME NEW j, j /= i PROVE recvs'[d][t][j] = recvs[d][t][j]
    BY <1>5, <1>6, <2>2
  <2> QED BY <2>1, <2>2
<1>8. SlotInv'
  <2>1. loc' = loc /\ loc[d].phase[t] = "started"
    BY DEF Takes
  <2> SUFFICES ASSUME NEW e \in Nodes, NEW u \in Tags,
                      loc[e].phase[u] \in {"started", "done"}
               PROVE  /\ DOMAIN recvs'[e][u] = DOMAIN RecvFrom[loc[e].g[u]][e]
                      /\ loc[e].phase[u] = "done" =>
                           \A j \in DOMAIN recvs'[e][u] : recvs'[e][u][j] /= NoMsg
    BY <2>1 DEF SlotInv
  <2>2. CASE e = d /\ u = t
    BY <1>7, <2>1, <2>2 DEF SlotInv
  <2>3. CASE ~(e = d /\ u = t)
    <3>1. recvs'[e][u] = recvs[e][u]
      BY <1>4, <1>5, <2>3
    <3> QED BY <3>1 DEF SlotInv
  <2> QED BY <2>2, <2>3
<1>9. recvs'[d][t][i] = r /\ recvs'[d][t][i] /= NoMsg
  BY <1>3, <1>7
<1>10. \A e \in Nodes, u \in Tags : \A j :
         e /= d \/ u /= t \/ j /= i => recvs'[e][u][j] = recvs[e][u][j]
  BY <1>4, <1>5, <1>7
<1> QED BY <1>8, <1>9, <1>10 DEF r, TakenBy

LEMMA SyncMade ==
  ASSUME HistoryInv, SyncInv, NEW n \in Nodes, NEW c \in Next1Call(n),
         c.op \in Steps, Kinds(n, c)
  PROVE  SyncInv'
<1>1. Makes(n, c)
  BY KindsMake
<1>2. /\ pc' = [pc EXCEPT ![n] = pc[n] + 1] /\ pc \in [Nodes -> Nat]
      /\ \A m \in Nodes : pc[m] \in 0 .. Len(prog)
      /\ prog'[pc[n] + 1].call = c
  BY <1>1, Moves
<1>3. c.op = "sync" => \A m \in Nodes : pc[m] >= pc[n]
  BY DEF Kinds, DoesStart, DoesWait, DoesCleanup, DoesOther
<1> SUFFICES ASSUME NEW s \in Nodes, NEW d \in Nodes, NEW r \in 1 .. pc'[s],
                    prog'[r].call.op = "sync"
             PROVE  pc'[d] >= r - 1
  BY DEF SyncInv
<1>4. pc'[d] >= pc[d] /\ pc[d] \in Nat /\ pc'[d] \in Nat
  BY <1>2
<1>5. CASE r \in 1 .. pc[s]
  <2>1. prog'[r] = prog[r]
    BY <1>1, <1>2, <1>5, ProgStable
  <2> QED BY <1>4, <1>5, <2>1 DEF SyncInv
<1>6. CASE r \notin 1 .. pc[s]
  <2>1. s = n /\ r = pc[n] + 1
    BY <1>2, <1>6
  <2> QED BY <1>2, <1>3, <1>4, <2>1
<1> QED BY <1>5, <1>6

LEMMA SyncStopped ==
  ASSUME HistoryInv, SyncInv, NEW n \in Nodes, NEW c \in Next1Call(n),
         c.op \in Steps, Stops(n, c)
  PROVE  SyncInv'
<1>1. pc' = pc
  BY DEF Stops, Terminate
<1>2. ASSUME NEW s \in Nodes, NEW r \in 1 .. pc[s] PROVE prog'[r] = prog[r]
  <2>1. r \in 1 .. Len(prog)
    BY DEF HistoryInv, ProgType
  <2> QED BY <2>1, ProgStable
<1> QED BY <1>1, <1>2 DEF SyncInv

-----------------------------------------------------------------------------
(* The gathers of a node and its tables.                                   *)

LEMMA PlaceTyped ==
  ASSUME HistoryInv, NEW p \in 1 .. Len(prog)
  PROVE  /\ Tag(p) \in Tags /\ Gat(p) \in GatherIndex /\ IdList(p) \in Seq(Ids)
         /\ p \in Nat
<1>1. prog[p].call \in Call /\ prog[p].after \in TablesType
  BY CallTyped, AfterTyped
<1>2. prog[p].call.tag \in Tags
  BY <1>1 DEF Call
<1> QED BY <1>1, <1>2 DEF Tag, Gat, IdList, TablesType

LEMMA GatherHeld ==
  ASSUME HistoryInv, PlacesInv, NEW d \in Nodes, NEW p, InGather(d, p)
  PROVE  /\ p \in 1 .. Len(prog) /\ p \in 1 .. pc[d]
         /\ Tag(p) \in Tags /\ Gat(p) \in GatherIndex
         /\ loc[d].phase[Tag(p)] = "started" /\ loc[d].ids[Tag(p)] = IdList(p)
         /\ loc[d].g[Tag(p)] = Gat(p) /\ Latest(p, pc[d])
<1>1. p \in 1 .. pc[d] /\ IsStart(p) /\ Unwaited(p, pc[d])
  BY DEF InGather
<1>2. PICK b : b = pc[d]
  OBVIOUS
<1>3. b \in 1 .. pc[d] /\ b \in 1 .. Len(prog) /\ p \in 1 .. b /\ p \in 1 .. Len(prog)
  BY <1>1, <1>2 DEF HistoryInv, ProgType
<1>4. HeldAt(b)
  BY <1>3 DEF PlacesInv
<1>5. prog[b].after.phase[Tag(p)] = "started" /\ Same(p, b) /\ Latest(p, b)
  BY <1>1, <1>2, <1>3, <1>4 DEF HeldAt
<1>6. loc[d] = prog[b].after
  BY <1>2, <1>3 DEF HistoryInv, AgreeInv, Before, ProgType
<1>7. Tag(p) \in Tags /\ Gat(p) \in GatherIndex
  BY <1>3, PlaceTyped
<1> QED BY <1>1, <1>2, <1>3, <1>5, <1>6, <1>7 DEF Same

LEMMA TagGather ==
  ASSUME HistoryInv, PlacesInv, NEW d \in Nodes, NEW t \in Tags,
         loc[d].phase[t] \in {"started", "done"}
  PROVE  \E p \in 1 .. pc[d] :
           /\ p \in 1 .. Len(prog) /\ IsStart(p) /\ Tag(p) = t /\ Latest(p, pc[d])
           /\ loc[d].g[t] = Gat(p) /\ loc[d].ids[t] = IdList(p)
           /\ loc[d].phase[t] = "started" => InGather(d, p)
<1>1. PICK b : b = pc[d]
  OBVIOUS
<1>2. loc[d] = Before(b + 1) /\ b \in Nat /\ b <= Len(prog)
  BY <1>1 DEF HistoryInv, AgreeInv, ProgType
<1>3. b /= 0
  BY <1>2 DEF Before, InitTables
<1>4. b \in 1 .. pc[d] /\ b \in 1 .. Len(prog) /\ loc[d] = prog[b].after
  BY <1>1, <1>2, <1>3 DEF Before
<1>5. StartAt(b)
  BY <1>4 DEF PlacesInv
<1>6. PICK p \in 1 .. b :
        /\ IsStart(p) /\ Tag(p) = t /\ Latest(p, b) /\ Same(p, b)
        /\ prog[b].after.phase[t] = "started" => Unwaited(p, b)
  BY <1>4, <1>5 DEF StartAt
<1>7. p \in 1 .. pc[d] /\ p \in 1 .. Len(prog)
  BY <1>1, <1>2
<1> QED BY <1>1, <1>4, <1>6, <1>7 DEF Same, InGather

LEMMA LatestUnique ==
  ASSUME NEW b \in Nat, NEW p \in 1 .. b, NEW q \in 1 .. b, IsStart(p), IsStart(q),
         Tag(p) = Tag(q), Latest(p, b), Latest(q, b)
  PROVE  p = q
<1>1. ~(p < q)
  <2> SUFFICES ASSUME p < q PROVE FALSE
    OBVIOUS
  <2>1. q \in p + 1 .. b
    OBVIOUS
  <2> QED BY <2>1 DEF Latest
<1>2. ~(q < p)
  <2> SUFFICES ASSUME q < p PROVE FALSE
    OBVIOUS
  <2>1. p \in q + 1 .. b
    OBVIOUS
  <2> QED BY <2>1 DEF Latest
<1> QED BY <1>1, <1>2

(* The tables a node had after a call it has passed are exact.             *)
LEMMA AfterExact ==
  ASSUME HistoryInv, NEW n \in Nodes, NEW q \in 1 .. pc[n]
  PROVE  prog[q].after \in TablesType /\ Exact(prog[q].after)
<1>1. q \in 1 .. Len(prog)
  BY DEF HistoryInv, ProgType
<1>2. /\ Before(q) \in TablesType /\ Exact(Before(q))
      /\ prog[q].call.op \in Steps /\ Legal(Before(q), prog[q].call)
      /\ prog[q].call \in Call
  BY <1>1, CallTyped DEF HistoryInv, Recorded
<1>3. /\ prog[q].after = Effect(Before(q), prog[q].call)
      /\ ~Blocked(Before(q), prog[q].call)
  BY <1>1 DEF HistoryInv, Recorded, Passed
<1> QED BY <1>1, <1>2, <1>3, EffectExact, AfterTyped

LEMMA ExactIds ==
  ASSUME NEW l \in TablesType, Exact(l), NEW t \in Tags, NEW u \in Tags,
         NEW i \in DOMAIN l.ids[t], NEW j \in DOMAIN l.ids[u],
         l.ids[t][i] = l.ids[u][j]
  PROVE  t = u /\ i = j
<1>1. ExclusiveIn(l)
  BY DEF Exact
<1>2. t = u
  BY <1>1 DEF ExclusiveIn, IdsOf
<1> QED BY <1>1, <1>2 DEF ExclusiveIn

(* A send and the receive it is for.                                       *)
LEMMA SendFits ==
  ASSUME NEW p, Gat(p) \in GatherIndex, NEW s \in Nodes, NEW d, NEW k, NEW id,
         SentIn(p, s, d, k, id)
  PROVE  /\ d \in Nodes
         /\ Slot(p, s, k) \in DOMAIN RecvFrom[Gat(p)][d]
         /\ RecvFrom[Gat(p)][d][Slot(p, s, k)] = s
         /\ IdList(p)[Slot(p, s, k)] = id /\ IsStart(p)
<1>1. /\ k \in DOMAIN SendTo[Gat(p)][s] /\ SendTo[Gat(p)][s][k] = d
      /\ IdList(p)[Slot(p, s, k)] = id /\ IsStart(p)
  BY DEF SentIn
<1>2. \A j \in DOMAIN SendTo[Gat(p)][s] :
        /\ SendId[Gat(p)][s][j] \in DOMAIN RecvFrom[Gat(p)][SendTo[Gat(p)][s][j]]
        /\ RecvFrom[Gat(p)][SendTo[Gat(p)][s][j]][SendId[Gat(p)][s][j]] = s
  BY PairingAssumption
<1>3. d \in Nodes
  <2>1. SendTo[Gat(p)][s] \in Seq(Nodes)
    BY TablesAssumption
  <2> QED BY <1>1, <2>1
<1> QED BY <1>1, <1>2, <1>3 DEF Slot

LEMMA ReceiveFits ==
  ASSUME NEW p, Gat(p) \in GatherIndex, IsStart(p), NEW d \in Nodes,
         NEW i \in DOMAIN RecvFrom[Gat(p)][d], NEW s, s = RecvFrom[Gat(p)][d][i]
  PROVE  /\ s \in Nodes
         /\ \E k : SentIn(p, s, d, k, IdList(p)[i]) /\ Slot(p, s, k) = i
<1>1. RecvFrom[Gat(p)][d] \in Seq(Nodes)
  BY TablesAssumption
<1>2. PICK k \in DOMAIN SendTo[Gat(p)][s] :
        SendTo[Gat(p)][s][k] = d /\ SendId[Gat(p)][s][k] = i
  BY PairingAssumption, SMTT(60)
<1> QED BY <1>1, <1>2, SMTT(60) DEF SentIn, Slot

(* A tag has offset_increment ids, or none yet.                            *)
Filled(l) ==
  \A t \in Tags :
    /\ Len(l.ids[t]) \in {0, NidsOf(l, t)}
    /\ l.phase[t] \in {"started", "done"} => Len(l.ids[t]) = NidsOf(l, t)

FilledInv == \A n \in Nodes : \A q \in 1 .. pc[n] : Filled(prog[q].after)

LEMMA TakeIdsFills ==
  ASSUME NEW l \in TablesType, NEW t \in Tags, ~OutOfIds(l, t),
         Len(l.ids[t]) \in {0, NidsOf(l, t)}
  PROVE  Len(TakeIds(l, t).ids[t]) = NidsOf(l, t)
<1> DEFINE n == NidsOf(l, t)
           s == CHOOSE s \in NextIds(l, n) : TRUE
<1>1. n \in Nat
  BY TablesAssumption DEF NidsOf, TablesType
<1>2. CASE n = 0
  BY <1>2 DEF TakeIds
<1>3. CASE n /= 0
  <2>1. s \in [1 .. n -> Ids]
    BY DEF OutOfIds, NextIds
  <2>2. TakeIds(l, t).ids[t] = s
    BY <1>3 DEF TakeIds, TablesType
  <2> HIDE DEF s
  <2>3. s \in Seq(Ids) /\ Len(s) = n
    BY <1>1, <2>1
  <2> QED BY <2>2, <2>3
<1> QED BY <1>2, <1>3

LEMMA FilledElsewhere ==
  ASSUME NEW l \in TablesType, Filled(l), NEW d \in TablesType, NEW t \in Tags,
         \A u \in Tags \ {t} :
           d.phase[u] = l.phase[u] /\ d.ids[u] = l.ids[u] /\ d.g[u] = l.g[u],
         Len(d.ids[t]) \in {0, NidsOf(d, t)},
         d.phase[t] \in {"started", "done"} => Len(d.ids[t]) = NidsOf(d, t)
  PROVE  Filled(d)
BY DEF Filled, NidsOf

LEMMA StartTablesFilled ==
  ASSUME NEW l \in TablesType, NEW t \in Tags, Filled(l),
         ~(Unprepared(l, t) /\ OutOfIds(l, t)), StartTables(l, t) \in TablesType
  PROVE  Filled(StartTables(l, t))
<1> DEFINE d == StartTables(l, t)
           k == TakeIds(l, t)
<1>1. \A u \in Tags : /\ d.phase[t] = "started" /\ d.g = l.g
                      /\ u /= t => d.phase[u] = l.phase[u] /\ d.ids[u] = l.ids[u]
  BY StartTablesLeave
<1>2. Len(d.ids[t]) = NidsOf(l, t)
  <2>1. CASE Unprepared(l, t)
    <3>1. k \in TablesType
      BY <2>1, TakeIdsType
    <3>2. Len(k.ids[t]) = NidsOf(l, t)
      BY <2>1, TakeIdsFills DEF Filled
    <3> HIDE DEF k
    <3>3. d = Started([k EXCEPT !.phase[t] = "prepared"], t)
      BY <2>1 DEF StartTables, Prepared, k
    <3>4. d.ids = k.ids
      BY <3>1, <3>3 DEF Started, TablesType
    <3> QED BY <3>2, <3>4
  <2>2. CASE ~Unprepared(l, t)
    <3>1. d = Started(l, t)
      BY <2>2 DEF StartTables
    <3>2. d.ids = l.ids
      BY <3>1 DEF Started, TablesType
    <3>3. l.ids[t] \in Seq(Ids) /\ Len(l.ids[t]) /= 0
      BY <2>2 DEF Unprepared, TablesType
    <3> QED BY <3>2, <3>3 DEF Filled
  <2> QED BY <2>1, <2>2
<1> HIDE DEF d
<1>3. d \in TablesType
  BY DEF d
<1>4. NidsOf(d, t) = NidsOf(l, t)
  BY <1>1 DEF NidsOf
<1>5. Filled(d)
  BY <1>1, <1>2, <1>3, <1>4, FilledElsewhere
<1> QED BY <1>5 DEF d

LEMMA EffectFilled ==
  ASSUME NEW l \in TablesType, NEW c \in Call, c.op \in Steps, ~Blocked(l, c),
         Filled(l), Effect(l, c) \in TablesType, Legal(l, c)
  PROVE  Filled(Effect(l, c))
<1> DEFINE d == Effect(l, c)
<1>0. c.tag \in Tags /\ c.g \in GatherIndex
  BY DEF Call
<1>1. ASSUME NEW u \in Tags
      PROVE  /\ c.tag /= u \/ c.op = "sync" =>
                  d.phase[u] = l.phase[u] /\ d.ids[u] = l.ids[u] /\ d.g[u] = l.g[u]
             /\ c.op = "wait" => /\ d.phase[c.tag] = "done"
                                 /\ d.ids = l.ids /\ d.g = l.g
             /\ c.op \in {"declare", "prepare", "cleanup"} =>
                  d.phase[c.tag] \notin {"started", "done"}
  BY EffectOnTags
<1>2. CASE c.op = "declare"
  <2>1. d.ids[c.tag] = <<>>
    BY <1>0, <1>2, ZenonT(30) DEF Effect, Declared, TablesType
  <2> HIDE DEF d
  <2>2. Filled(d)
    BY <1>0, <1>1, <1>2, <2>1, FilledElsewhere DEF d
  <2> QED BY <2>2 DEF d
<1>3. CASE c.op = "prepare"
  <2> DEFINE k == TakeIds(l, c.tag)
  <2>1. k \in TablesType
    BY <1>0, <1>3, TakeIdsType DEF Blocked
  <2>2. Len(k.ids[c.tag]) = NidsOf(l, c.tag) /\ k.g = l.g
    BY <1>0, <1>3, TakeIdsFills, TakeIdsLeaves DEF Blocked, Filled
  <2> HIDE DEF k
  <2>3. d = [k EXCEPT !.phase[c.tag] = "prepared"]
    BY <1>3 DEF Effect, Prepared, k
  <2>4. d.ids = k.ids /\ d.g = l.g
    BY <2>1, <2>2, <2>3 DEF TablesType
  <2>5. NidsOf(d, c.tag) = NidsOf(l, c.tag)
    BY <2>4 DEF NidsOf
  <2> HIDE DEF d
  <2>6. Filled(d)
    BY <1>0, <1>1, <1>3, <2>2, <2>4, <2>5, FilledElsewhere DEF d
  <2> QED BY <2>6 DEF d
<1>4. CASE c.op = "start"
  <2> DEFINE k == Declared(l, c.tag, c.g)
  <2>1. k \in TablesType
    BY <1>0, DeclaredType
  <2>2. /\ \A u \in Tags \ {c.tag} :
             k.phase[u] = l.phase[u] /\ k.ids[u] = l.ids[u] /\ k.g[u] = l.g[u]
        /\ k.ids[c.tag] = <<>> /\ k.phase[c.tag] = "declared"
    BY <1>0 DEF Declared, TablesType
  <2>3. ~(Unprepared(k, c.tag) /\ OutOfIds(k, c.tag))
    BY <1>4 DEF Blocked
  <2>4. d = StartTables(k, c.tag)
    BY <1>4 DEF Effect
  <2> HIDE DEF k
  <2>5. Filled(k)
    BY <1>0, <2>1, <2>2, FilledElsewhere
  <2> QED BY <1>0, <2>1, <2>3, <2>4, <2>5, StartTablesFilled
<1>5. CASE c.op = "do"
  <2>1. d = StartTables(l, c.tag)
    BY <1>5 DEF Effect
  <2>2. ~(Unprepared(l, c.tag) /\ OutOfIds(l, c.tag))
    BY <1>5 DEF Blocked
  <2> QED BY <1>0, <2>1, <2>2, StartTablesFilled
<1>6. CASE c.op = "wait"
  <2>1. Len(l.ids[c.tag]) = NidsOf(l, c.tag)
    BY <1>0, <1>6 DEF Legal, Filled
  <2>2. NidsOf(d, c.tag) = NidsOf(l, c.tag)
    BY <1>0, <1>1, <1>6 DEF NidsOf
  <2> HIDE DEF d
  <2>3. Filled(d)
    BY <1>0, <1>1, <1>6, <2>1, <2>2, FilledElsewhere DEF d
  <2> QED BY <2>3 DEF d
<1>7. CASE c.op = "cleanup"
  <2>1. d.ids[c.tag] = <<>>
    BY <1>0, <1>7 DEF Effect, Freed, TablesType
  <2> HIDE DEF d
  <2>2. Filled(d)
    BY <1>0, <1>1, <1>7, <2>1, FilledElsewhere DEF d
  <2> QED BY <2>2 DEF d
<1>8. CASE c.op = "sync"
  BY <1>8 DEF Effect
<1> QED BY <1>2, <1>3, <1>4, <1>5, <1>6, <1>7, <1>8 DEF Steps

LEMMA FilledMade ==
  ASSUME HistoryInv, FilledInv, NEW n \in Nodes, NEW c \in Next1Call(n),
         c.op \in Steps, Makes(n, c)
  PROVE  FilledInv'
<1>1. /\ pc' = [pc EXCEPT ![n] = pc[n] + 1] /\ pc \in [Nodes -> Nat]
      /\ \A m \in Nodes : pc[m] \in 0 .. Len(prog)
      /\ prog'[pc[n] + 1].after = Effect(loc[n], c)
      /\ loc[n] \in TablesType /\ c \in Call /\ ~Blocked(loc[n], c)
      /\ Effect(loc[n], c) \in TablesType /\ Legal(loc[n], c)
      /\ loc[n] = IF pc[n] = 0 THEN InitTables ELSE prog[pc[n]].after
  BY Moves
<1>2. Filled(InitTables)
  BY DEF InitTables, Filled
<1>3. Filled(loc[n])
  BY <1>1, <1>2 DEF FilledInv
<1>4. Filled(prog'[pc[n] + 1].after)
  BY <1>1, <1>3, EffectFilled
<1>5. ASSUME NEW m \in Nodes, NEW q \in 1 .. pc'[m]
      PROVE  Filled(prog'[q].after)
  <2>1. CASE q \in 1 .. pc[m]
    <3>1. prog'[q] = prog[q]
      BY <1>1, <2>1, ProgStable
    <3> QED BY <2>1, <3>1 DEF FilledInv
  <2>2. CASE q \notin 1 .. pc[m]
    <3>1. q = pc[n] + 1
      BY <1>1, <2>2
    <3> QED BY <1>4, <3>1
  <2> QED BY <2>1, <2>2
<1> QED BY <1>5 DEF FilledInv, Filled, NidsOf

LEMMA FilledStopped ==
  ASSUME HistoryInv, FilledInv, NEW n \in Nodes, NEW c \in Next1Call(n),
         c.op \in Steps, Stops(n, c)
  PROVE  FilledInv'
<1>1. pc' = pc
  BY DEF Stops, Terminate
<1>2. ASSUME NEW m \in Nodes, NEW q \in 1 .. pc[m] PROVE Filled(prog'[q].after)
  <2>1. q \in 1 .. Len(prog)
    BY DEF HistoryInv, ProgType
  <2>2. prog'[q] = prog[q]
    BY <2>1, ProgStable
  <2> QED BY <2>2 DEF FilledInv
<1> QED BY <1>1, <1>2 DEF FilledInv, Filled, NidsOf

(* So every receive of a gather has an id of its own.                      *)
LEMMA IdsCover ==
  ASSUME HistoryInv, PlacesInv, FilledInv, NEW n \in Nodes, NEW p \in 1 .. pc[n],
         IsStart(p), NEW d \in Nodes, NEW i \in DOMAIN RecvFrom[Gat(p)][d]
  PROVE  /\ i \in DOMAIN IdList(p) /\ IdList(p)[i] \in Ids
         /\ \A j \in DOMAIN RecvFrom[Gat(p)][d] :
              IdList(p)[i] = IdList(p)[j] => i = j
<1>1. p \in 1 .. Len(prog) /\ p \in 1 .. p
  BY DEF HistoryInv, ProgType
<1>2. /\ Tag(p) \in Tags /\ Gat(p) \in GatherIndex /\ IdList(p) \in Seq(Ids)
      /\ prog[p].after \in TablesType /\ Exact(prog[p].after)
  BY <1>1, PlaceTyped, AfterExact
<1>3. Unwaited(p, p)
  <2>1. p + 1 .. p = {}
    BY <1>1
  <2> QED BY <2>1 DEF Unwaited
<1>4. prog[p].after.phase[Tag(p)] = "started"
  BY <1>1, <1>3 DEF PlacesInv, HeldAt
<1>5. Len(IdList(p)) = OffsetIncrement[Gat(p)]
  BY <1>2, <1>4 DEF FilledInv, Filled, NidsOf, IdList, Gat
<1>6. ASSUME NEW j \in DOMAIN RecvFrom[Gat(p)][d] PROVE j \in DOMAIN IdList(p)
  <2>1. RecvFrom[Gat(p)][d] \in Seq(Nodes) /\ OffsetIncrement[Gat(p)] \in Nat
    BY <1>2, TablesAssumption
  <2>2. Len(RecvFrom[Gat(p)][d]) <= OffsetIncrement[Gat(p)]
    BY <1>2, PairingAssumption
  <2> QED BY <1>2, <1>5, <2>1, <2>2
<1>7. i \in DOMAIN IdList(p) /\ IdList(p)[i] \in Ids
  BY <1>2, <1>6
<1>8. ASSUME NEW j \in DOMAIN RecvFrom[Gat(p)][d], IdList(p)[i] = IdList(p)[j]
      PROVE  i = j
  <2>1. j \in DOMAIN IdList(p)
    BY <1>6
  <2> QED BY <1>2, <1>7, <1>8, <2>1, ExactIds DEF IdList
<1> QED BY <1>7, <1>8

-----------------------------------------------------------------------------
(* What holds whatever ids the program reuses.                             *)

CoreInv == /\ HistoryInv /\ MsgType /\ PlacesInv /\ FilledInv
           /\ QueueInv /\ SlotInv /\ SyncInv

(* Node d can still take a message of gather p in its receive i.           *)
Waits(d, p, i) ==
  \/ p > pc[d]
  \/ InGather(d, p) /\ recvs[d][Tag(p)][i] = NoMsg

LEMMA GatherStep ==
  ASSUME HistoryInv, NEW n \in Nodes, NEW c \in Next1Call(n), c.op \in Steps,
         Makes(n, c), NEW d \in Nodes, NEW p \in Nat \ {0}, NEW a, a = pc[n] + 1
  PROVE  /\ d /= n => (InGather(d, p)' <=> InGather(d, p))
         /\ d = n /\ p <= pc[n] =>
              (InGather(d, p)' <=> InGather(d, p) /\ ~(c.op = "wait" /\ c.tag = Tag(p)))
         /\ d = n /\ p = a => (InGather(d, p)' <=> c.op \in {"do", "start"})
         /\ d = n /\ p > a => ~InGather(d, p)'
<1>1. /\ pc' = [pc EXCEPT ![n] = a] /\ pc \in [Nodes -> Nat] /\ a \in Nat
      /\ \A m \in Nodes : pc[m] \in 0 .. Len(prog)
      /\ prog'[a].call = c /\ c.tag \in Tags
  BY Moves
<1>2. PICK b : b = pc[d]
  OBVIOUS
<1>3. b \in Nat /\ b <= Len(prog)
  BY <1>1, <1>2
<1>4. CASE d /= n
  <2>1. pc'[d] = b
    BY <1>1, <1>2, <1>4
  <2>2. CASE p \in 1 .. b
    <3>1. b \in 1 .. Len(prog) /\ p \in 1 .. Len(prog)
      BY <1>3, <2>2
    <3> QED BY <1>2, <1>4, <2>1, <2>2, <3>1, IntervalStable, ProgStable DEF InGather
  <2>3. CASE p \notin 1 .. b
    BY <1>2, <1>4, <2>1, <2>3 DEF InGather
  <2> QED BY <2>2, <2>3
<1>5. CASE d = n /\ p <= pc[n]
  <2>1. pc'[d] = a /\ a = b + 1 /\ p \in 1 .. a /\ p \in 1 .. b
    BY <1>1, <1>2, <1>3, <1>5
  <2>2. b \in 1 .. Len(prog) /\ p \in 1 .. Len(prog)
    BY <1>3, <2>1
  <2>3. /\ Unwaited(p, b)' <=> Unwaited(p, b)
        /\ IsStart(p)' <=> IsStart(p)
        /\ Tag(p)' = Tag(p)
    BY <2>1, <2>2, IntervalStable, ProgStable
  <2>4. IsWait(a, Tag(p))' <=> c.op = "wait" /\ c.tag = Tag(p)
    BY <1>1, <2>3 DEF IsWait
  <2>5. \A w : w \in p + 1 .. a <=> w \in p + 1 .. b \/ w = a
    BY <1>1, <1>3, <2>1
  <2>6. Unwaited(p, a)' <=> Unwaited(p, b)' /\ ~IsWait(a, Tag(p))'
    BY <2>5 DEF Unwaited
  <2>7. InGather(d, p)' <=> IsStart(p)' /\ Unwaited(p, a)'
    BY <2>1 DEF InGather
  <2>8. InGather(d, p) <=> IsStart(p) /\ Unwaited(p, b)
    BY <1>2, <2>1 DEF InGather
  <2>9. ~(p = a) /\ ~(p > a)
    BY <1>3, <1>5, <2>1
  <2> QED BY <1>5, <2>3, <2>4, <2>6, <2>7, <2>8, <2>9
<1>6. CASE d = n /\ p = a
  <2>1. a + 1 .. a = {} /\ pc'[d] = a
    BY <1>1, <1>6
  <2>2. Unwaited(a, a)'
    BY <2>1 DEF Unwaited
  <2>3. IsStart(a)' <=> c.op \in {"do", "start"}
    BY <1>1 DEF IsStart
  <2>4. a \in 1 .. a
    BY <1>1, <1>6
  <2>5. InGather(d, a)' <=> IsStart(a)'
    BY <2>1, <2>2, <2>4 DEF InGather
  <2> QED BY <1>1, <1>3, <1>6, <2>3, <2>5
<1>7. CASE d = n /\ p > a
  <2>1. pc'[d] = a
    BY <1>1, <1>7
  <2> QED BY <1>1, <1>2, <1>3, <1>7, <2>1 DEF InGather
<1>8. pc[n] \in Nat
  BY <1>1
<1> QED BY <1>4, <1>5, <1>6, <1>7, <1>8

LEMMA WaitsStep ==
  ASSUME CoreInv, NEW n \in Nodes, NEW c \in Next1Call(n), c.op \in Steps,
         Kinds(n, c), NEW d \in Nodes, NEW p \in 1 .. Len(prog'), IsStart(p)',
         NEW i, p <= pc[d] => i \in DOMAIN RecvFrom[Gat(p)][d],
         p = pc[n] + 1 => i \in DOMAIN RecvFrom[Gat(p)'][d]
  PROVE  Waits(d, p, i)' <=> Waits(d, p, i)
<1>0. HistoryInv /\ MsgType /\ PlacesInv /\ SlotInv
  BY DEF CoreInv
<1>1. PICK a : a = pc[n] + 1
  OBVIOUS
<1>2. /\ pc' = [pc EXCEPT ![n] = a] /\ pc \in [Nodes -> Nat] /\ a \in Nat
      /\ \A m \in Nodes : pc[m] \in 0 .. Len(prog)
      /\ prog'[a].call = c /\ c.tag \in Tags /\ Legal(loc[n], c)
      /\ Len(prog) \in Nat /\ Makes(n, c)
  BY <1>0, <1>1, KindsMake, Moves
<1>3. p \in Nat \ {0}
  OBVIOUS
<1>4. p <= pc[d] => Tag(p)' = Tag(p) /\ Tag(p) \in Tags
  <2>1. p <= pc[d] => p \in 1 .. Len(prog)
    BY <1>2
  <2> QED BY <1>0, <1>2, <2>1, ProgStable
<1>5. ASSUME p > pc'[d] PROVE Waits(d, p, i)' /\ Waits(d, p, i)
  BY <1>1, <1>2, <1>5 DEF Waits
<1>6. ASSUME p <= pc[d], InGather(d, p)' <=> InGather(d, p),
             InGather(d, p) => recvs'[d][Tag(p)] = recvs[d][Tag(p)]
      PROVE  Waits(d, p, i)' <=> Waits(d, p, i)
  <2>1. ~(p > pc[d]) /\ ~(p > pc'[d])
    BY <1>1, <1>2, <1>6
  <2> QED BY <1>4, <1>6, <2>1 DEF Waits
<1>7. CASE d /= n /\ p <= pc[d]
  <2>1. InGather(d, p)' <=> InGather(d, p)
    BY <1>0, <1>2, <1>3, <1>7, GatherStep
  <2>2. recvs'[d][Tag(p)] = recvs[d][Tag(p)]
    BY <1>0, <1>4, <1>7, RecvsStay
  <2> QED BY <1>6, <1>7, <2>1, <2>2
<1>8. CASE d = n /\ p = a
  <2>1. c.op \in {"do", "start"}
    BY <1>2, <1>8 DEF IsStart
  <2>2. DoesStart(n, c)
    BY <2>1 DEF Kinds, DoesWait, DoesCleanup, DoesOther
  <2>3. /\ InGather(d, p)' /\ Tag(p)' = c.tag
        /\ recvs' = [recvs EXCEPT ![n][c.tag] = [j \in DOMAIN RecvFrom[Gat(a)'][n] |-> NoMsg]]
    BY <1>0, <1>1, <1>2, <1>3, <1>8, <2>1, <2>2, GatherStep, Posts
  <2>4. i \in DOMAIN RecvFrom[Gat(a)'][n]
    BY <1>1, <1>8
  <2>5. PICK f : f = [j \in DOMAIN RecvFrom[Gat(a)'][n] |-> NoMsg]
    OBVIOUS
  <2>6. recvs'[n][c.tag] = f
    BY <1>0, <1>2, <2>3, <2>5 DEF MsgType
  <2>7. recvs'[n][c.tag][i] = NoMsg
    BY <2>4, <2>5, <2>6
  <2>8. Waits(d, p, i)'
    BY <1>8, <2>3, <2>7 DEF Waits
  <2>9. Waits(d, p, i)
    BY <1>1, <1>2, <1>8 DEF Waits
  <2> QED BY <2>8, <2>9
<1>9. CASE d = n /\ p <= pc[n]
  <2>1. InGather(d, p)' <=> InGather(d, p) /\ ~(c.op = "wait" /\ c.tag = Tag(p))
    BY <1>0, <1>2, <1>3, <1>9, GatherStep, SMTT(30)
  <2>2. CASE ~InGather(d, p)
    BY <1>6, <1>9, <2>1, <2>2
  <2>3. CASE InGather(d, p)
    <3>1. loc[d].phase[Tag(p)] = "started" /\ Tag(p) \in Tags /\ loc[d].g[Tag(p)] = Gat(p)
      BY <1>0, <2>3, GatherHeld
    <3>2. CASE DoesWait(n, c) /\ c.tag = Tag(p)
      <4>1. ~InGather(d, p)' /\ ~(p > pc'[d])
        BY <1>1, <1>2, <1>9, <2>1, <3>2 DEF DoesWait
      <4>2. recvs[d][Tag(p)][i] /= NoMsg
        BY <1>0, <1>9, <3>1, <3>2 DEF DoesWait, SlotInv
      <4> QED BY <1>2, <1>9, <4>1, <4>2 DEF Waits
    <3>3. CASE ~(DoesWait(n, c) /\ c.tag = Tag(p))
      <4>1. c.op = "wait" => DoesWait(n, c)
        BY DEF Kinds, DoesStart, DoesCleanup, DoesOther
      <4>2. InGather(d, p)'
        BY <2>1, <2>3, <3>3, <4>1
      <4>3. c.tag /= Tag(p) \/ c.op \notin {"do", "start", "cleanup"}
        BY <1>2, <1>9, <3>1 DEF Legal
      <4>4. recvs'[d][Tag(p)] = recvs[d][Tag(p)]
        BY <1>0, <1>9, <3>1, <4>3, RecvsStay
      <4> QED BY <1>6, <1>9, <2>3, <4>2, <4>4
    <3> QED BY <3>2, <3>3
  <2> QED BY <2>2, <2>3
<1>10. p > pc'[d] \/ p <= pc[d] \/ (d = n /\ p = a)
  BY <1>1, <1>2
<1> QED BY <1>5, <1>7, <1>8, <1>9, <1>10

-----------------------------------------------------------------------------
(* What holds as long as reused ids are synchronised.                      *)

(* Receive i of gather p on d got what it should.                          *)
Right(d, p, i) ==
  /\ recvs[d][Tag(p)][i] = [src |-> RecvFrom[Gat(p)][d][i], at |-> p]
  /\ pc[RecvFrom[Gat(p)][d][i]] >= p

(* A message is waited for, and what is waited for was sent.               *)
AwaitedInv ==
  \A s, d \in Nodes, id \in Ids : \A x \in DOMAIN net[s][d][id] :
    LET m == net[s][d][id][x] IN Waits(d, m.at, Slot(m.at, s, m.k))

SentInv ==
  \A s, d \in Nodes, id \in Ids : \A p \in 1 .. pc[s] :
    \A k \in DOMAIN SendTo[Gat(p)][s] :
      SentIn(p, s, d, k, id) /\ Waits(d, p, Slot(p, s, k)) =>
        \E x \in DOMAIN net[s][d][id] : net[s][d][id][x].at = p

RightInv ==
  \A d \in Nodes : \A p \in 1 .. pc[d] :
    InGather(d, p) =>
      \A i \in DOMAIN RecvFrom[Gat(p)][d] :
        recvs[d][Tag(p)][i] = NoMsg \/ Right(d, p, i)

(* A gather that was waited for, until its tag is freed or started again.  *)
DoneInv ==
  \A d \in Nodes : \A p \in 1 .. pc[d] :
    IsStart(p) /\ Latest(p, pc[d]) /\ loc[d].phase[Tag(p)] = "done" =>
      \A i \in DOMAIN RecvFrom[Gat(p)][d] : Right(d, p, i)

(* Nobody is done with a gather before its neighbors have come to it.      *)
CameInv ==
  \A d \in Nodes : \A p \in 1 .. pc[d] :
    IsStart(p) /\ ~Unwaited(p, pc[d]) =>
      \A i \in DOMAIN RecvFrom[Gat(p)][d] : pc[RecvFrom[Gat(p)][d][i]] >= p

DataInv == AwaitedInv /\ SentInv /\ RightInv /\ DoneInv /\ CameInv

LEMMA RightStays ==
  ASSUME CoreInv, NEW n \in Nodes, NEW c \in Next1Call(n), c.op \in Steps,
         Kinds(n, c), NEW d \in Nodes, NEW p \in 1 .. pc[d],
         d /= n \/ Tag(p) /= c.tag \/ c.op \notin {"do", "start", "cleanup"},
         NEW i \in DOMAIN RecvFrom[Gat(p)][d]
  PROVE  /\ Right(d, p, i) => Right(d, p, i)'
         /\ recvs'[d][Tag(p)] = recvs[d][Tag(p)]
<1>0. HistoryInv /\ MsgType /\ Makes(n, c)
  BY KindsMake DEF CoreInv
<1>1. p \in 1 .. Len(prog)
  BY <1>0 DEF HistoryInv, ProgType
<1>2. Tag(p)' = Tag(p) /\ Gat(p)' = Gat(p) /\ Tag(p) \in Tags /\ Gat(p) \in GatherIndex
  BY <1>0, <1>1, ProgStable
<1>3. recvs'[d][Tag(p)] = recvs[d][Tag(p)]
  BY <1>0, <1>2, RecvsStay
<1>4. RecvFrom[Gat(p)][d][i] \in Nodes
  <2>1. RecvFrom[Gat(p)][d] \in Seq(Nodes)
    BY <1>2, TablesAssumption
  <2> QED BY <2>1
<1>5. \A s \in Nodes : pc[s] \in Nat /\ pc'[s] \in Nat /\ pc'[s] >= pc[s]
  BY <1>0, Moves
<1>6. Right(d, p, i) => Right(d, p, i)'
  BY <1>2, <1>3, <1>4, <1>5 DEF Right
<1> QED BY <1>3, <1>6

LEMMA RightMade ==
  ASSUME CoreInv, RightInv, NEW n \in Nodes, NEW c \in Next1Call(n), c.op \in Steps,
         Kinds(n, c)
  PROVE  RightInv'
<1>0. HistoryInv /\ MsgType /\ PlacesInv /\ Makes(n, c)
  BY KindsMake DEF CoreInv
<1>1. PICK a : a = pc[n] + 1
  OBVIOUS
<1>2. /\ pc' = [pc EXCEPT ![n] = a] /\ pc \in [Nodes -> Nat] /\ a \in Nat
      /\ \A m \in Nodes : pc[m] \in 0 .. Len(prog)
      /\ c.tag \in Tags /\ Legal(loc[n], c)
  BY <1>0, <1>1, Moves
<1> SUFFICES ASSUME NEW d \in Nodes, NEW p \in 1 .. pc'[d], InGather(d, p)',
                    NEW i \in DOMAIN RecvFrom[Gat(p)'][d]
             PROVE  recvs'[d][Tag(p)'][i] = NoMsg \/ Right(d, p, i)'
  BY DEF RightInv
<1>3. p \in Nat \ {0}
  BY <1>2
<1>4. CASE p \in 1 .. pc[d]
  <2>1. InGather(d, p)
    BY <1>0, <1>1, <1>2, <1>3, <1>4, GatherStep
  <2>2. loc[d].phase[Tag(p)] = "started" /\ p \in 1 .. Len(prog)
    BY <1>0, <2>1, GatherHeld
  <2>3. Gat(p)' = Gat(p) /\ Tag(p)' = Tag(p)
    BY <1>0, <2>2, ProgStable
  <2>4. d /= n \/ Tag(p) /= c.tag \/ c.op \notin {"do", "start", "cleanup"}
    BY <1>2, <2>2 DEF Legal
  <2>5. recvs[d][Tag(p)][i] = NoMsg \/ Right(d, p, i)
    BY <1>4, <2>1, <2>3 DEF RightInv
  <2> QED BY <1>4, <2>3, <2>4, <2>5, RightStays
<1>5. CASE p \notin 1 .. pc[d]
  <2>1. d = n /\ p = a
    BY <1>1, <1>2, <1>5
  <2>2. c.op \in {"do", "start"}
    BY <1>0, <1>1, <1>3, <2>1, GatherStep
  <2>3. DoesStart(n, c)
    BY <2>2 DEF Kinds, DoesWait, DoesCleanup, DoesOther
  <2>4. /\ Tag(a)' = c.tag
        /\ recvs' = [recvs EXCEPT ![n][c.tag] = [j \in DOMAIN RecvFrom[Gat(a)'][n] |-> NoMsg]]
    BY <1>0, <1>1, <2>3, Posts
  <2>5. PICK f : f = [j \in DOMAIN RecvFrom[Gat(a)'][n] |-> NoMsg]
    OBVIOUS
  <2>6. recvs'[n][c.tag] = f
    BY <1>0, <1>2, <2>4, <2>5 DEF MsgType
  <2>7. recvs'[n][c.tag][i] = NoMsg
    BY <2>1, <2>5, <2>6
  <2> QED BY <2>1, <2>4, <2>7
<1> QED BY <1>4, <1>5

(* What a wait finds.                                                      *)
LEMMA WaitFinds ==
  ASSUME CoreInv, RightInv, NEW n \in Nodes, NEW c \in Next1Call(n),
         DoesWait(n, c), NEW p, InGather(n, p), Tag(p) = c.tag,
         NEW i \in DOMAIN RecvFrom[Gat(p)][n]
  PROVE  Right(n, p, i)
<1>0. HistoryInv /\ PlacesInv /\ SlotInv
  BY DEF CoreInv
<1>1. /\ p \in 1 .. pc[n] /\ Tag(p) \in Tags
      /\ loc[n].phase[Tag(p)] = "started" /\ loc[n].g[Tag(p)] = Gat(p)
  BY <1>0, GatherHeld
<1>2. i \in DOMAIN recvs[n][Tag(p)]
  BY <1>0, <1>1 DEF SlotInv
<1>3. recvs[n][Tag(p)][i] /= NoMsg
  BY <1>2 DEF DoesWait
<1> QED BY <1>1, <1>3 DEF RightInv

LEMMA CameMade ==
  ASSUME CoreInv, RightInv, CameInv, NEW n \in Nodes, NEW c \in Next1Call(n),
         c.op \in Steps, Kinds(n, c)
  PROVE  CameInv'
<1>0. HistoryInv /\ MsgType /\ PlacesInv /\ Makes(n, c)
  BY KindsMake DEF CoreInv
<1>1. PICK a : a = pc[n] + 1
  OBVIOUS
<1>2. /\ pc' = [pc EXCEPT ![n] = a] /\ pc \in [Nodes -> Nat] /\ a \in Nat
      /\ \A m \in Nodes : pc[m] \in 0 .. Len(prog) /\ pc'[m] >= pc[m] /\ pc'[m] \in Nat
  BY <1>0, <1>1, Moves
<1> SUFFICES ASSUME NEW d \in Nodes, NEW p \in 1 .. pc'[d], IsStart(p)',
                    ~Unwaited(p, pc[d])', NEW i \in DOMAIN RecvFrom[Gat(p)'][d]
             PROVE  pc'[RecvFrom[Gat(p)'][d][i]] >= p
  BY DEF CameInv
<1>3. p \in Nat \ {0} /\ ~InGather(d, p)'
  BY <1>2 DEF InGather
<1>4. CASE p \in 1 .. pc[d]
  <2>1. p \in 1 .. Len(prog)
    BY <1>2, <1>4
  <2>2. Gat(p)' = Gat(p) /\ Gat(p) \in GatherIndex /\ IsStart(p)
    BY <1>0, <2>1, ProgStable
  <2>3. RecvFrom[Gat(p)][d][i] \in Nodes
    <3>1. RecvFrom[Gat(p)][d] \in Seq(Nodes)
      BY <2>2, TablesAssumption
    <3> QED BY <2>2, <3>1
  <2>4. pc[RecvFrom[Gat(p)][d][i]] >= p
    <3>1. CASE ~InGather(d, p)
      BY <1>4, <2>2, <3>1 DEF InGather, CameInv
    <3>2. CASE InGather(d, p)
      <4>1. d = n /\ c.op = "wait" /\ c.tag = Tag(p)
        BY <1>0, <1>1, <1>3, <1>4, <3>2, GatherStep
      <4>2. DoesWait(n, c)
        BY <4>1 DEF Kinds, DoesStart, DoesCleanup, DoesOther
      <4> QED BY <2>2, <3>2, <4>1, <4>2, WaitFinds DEF Right
    <3> QED BY <3>1, <3>2
  <2> QED BY <1>2, <2>2, <2>3, <2>4
<1>5. CASE p \notin 1 .. pc[d]
  <2>1. d = n /\ p = a
    BY <1>1, <1>2, <1>5
  <2>2. a + 1 .. a = {} /\ pc'[d] = a
    BY <1>2, <2>1
  <2>3. Unwaited(a, a)'
    BY <2>2 DEF Unwaited
  <2> QED BY <2>1, <2>2, <2>3 DEF Unwaited
<1> QED BY <1>4, <1>5

LEMMA DoneMade ==
  ASSUME CoreInv, RightInv, DoneInv, NEW n \in Nodes, NEW c \in Next1Call(n),
         c.op \in Steps, Kinds(n, c)
  PROVE  DoneInv'
<1>0. HistoryInv /\ MsgType /\ PlacesInv /\ Makes(n, c)
  BY KindsMake DEF CoreInv
<1>1. PICK a : a = pc[n] + 1
  OBVIOUS
<1>2. /\ pc' = [pc EXCEPT ![n] = a] /\ pc \in [Nodes -> Nat] /\ a \in Nat
      /\ \A m \in Nodes : pc[m] \in 0 .. Len(prog)
      /\ prog'[a].call = c /\ c.tag \in Tags /\ Legal(loc[n], c)
  BY <1>0, <1>1, Moves
<1> SUFFICES ASSUME NEW d \in Nodes, NEW p \in 1 .. pc'[d], IsStart(p)',
                    Latest(p, pc[d])', loc'[d].phase[Tag(p)'] = "done",
                    NEW i \in DOMAIN RecvFrom[Gat(p)'][d]
             PROVE  Right(d, p, i)'
  BY DEF DoneInv
<1>3. CASE p \in 1 .. pc[d]
  <2>0. PICK b : b = pc[d]
    OBVIOUS
  <2>1. p \in 1 .. Len(prog) /\ p \in 1 .. b /\ b \in 1 .. Len(prog)
    BY <1>2, <1>3, <2>0
  <2>2. /\ Gat(p)' = Gat(p) /\ Tag(p)' = Tag(p) /\ IsStart(p)
        /\ Tag(p) \in Tags /\ Gat(p) \in GatherIndex
    BY <1>0, <2>1, ProgStable
  <2>3. Latest(p, b)
    <3>1. CASE d = n
      <4>1. pc'[d] = a /\ \A r \in p + 1 .. b : r \in p + 1 .. a
        BY <1>1, <1>2, <2>0, <3>1
      <4>2. Latest(p, a)'
        BY <4>1 DEF Latest
      <4>3. Latest(p, b)'
        BY <4>1, <4>2 DEF Latest
      <4> QED BY <1>0, <2>1, <4>3, IntervalStable
    <3>2. CASE d /= n
      <4>1. pc'[d] = b
        BY <1>2, <2>0, <3>2
      <4>2. Latest(p, b)'
        BY <4>1 DEF Latest
      <4> QED BY <1>0, <2>1, <4>2, IntervalStable
    <3> QED BY <3>1, <3>2
  <2>4. CASE d = n /\ c.tag = Tag(p) /\ c.op /= "sync"
    <3>1. DoesWait(n, c) /\ c.op = "wait"
      BY <1>0, <2>2, <2>4, TagsAfter
         DEF Kinds, DoesStart, DoesWait, DoesCleanup, DoesOther, Steps
    <3>2. loc[n].phase[c.tag] = "started"
      BY <1>2, <3>1 DEF Legal
    <3>3. PICK q \in 1 .. pc[n] :
            IsStart(q) /\ Tag(q) = c.tag /\ Latest(q, pc[n]) /\ InGather(n, q)
      BY <1>0, <1>2, <3>2, TagGather
    <3>4. p = q
      <4>1. b \in Nat /\ q \in 1 .. b /\ Latest(q, b)
        BY <1>2, <2>0, <2>4, <3>3
      <4> QED BY <2>1, <2>2, <2>3, <2>4, <3>3, <4>1, LatestUnique
    <3>5. Right(n, p, i)
      BY <2>2, <2>4, <3>1, <3>3, <3>4, WaitFinds
    <3> QED BY <1>3, <2>2, <2>4, <3>1, <3>5, RightStays
  <2>5. CASE ~(d = n /\ c.tag = Tag(p) /\ c.op /= "sync")
    <3>1. loc[d].phase[Tag(p)] = "done"
      BY <1>0, <2>2, <2>5, TagsAfter
    <3>2. Right(d, p, i)
      BY <1>3, <2>0, <2>2, <2>3, <3>1 DEF DoneInv
    <3> QED BY <1>3, <2>2, <2>5, <3>2, RightStays
  <2> QED BY <2>4, <2>5
<1>4. CASE p \notin 1 .. pc[d]
  <2>1. d = n /\ p = a
    BY <1>1, <1>2, <1>4
  <2>2. c.op \in {"do", "start"} /\ Tag(p)' = c.tag
    BY <1>2, <2>1 DEF IsStart, Tag
  <2>3. loc'[n].phase[c.tag] = "started"
    BY <1>0, <1>2, <2>2, TagsAfter
  <2> QED BY <2>1, <2>2, <2>3
<1> QED BY <1>3, <1>4

LEMMA PairFits ==
  ASSUME NEW g \in GatherIndex, NEW s \in Nodes, NEW k \in DOMAIN SendTo[g][s],
         NEW d, d = SendTo[g][s][k]
  PROVE  /\ d \in Nodes /\ SendId[g][s][k] \in DOMAIN RecvFrom[g][d]
         /\ RecvFrom[g][d][SendId[g][s][k]] = s
<1>1. SendTo[g][s] \in Seq(Nodes)
  BY TablesAssumption
<1>2. d \in Nodes
  BY <1>1
<1>3. \A j \in DOMAIN SendTo[g][s] :
        /\ SendId[g][s][j] \in DOMAIN RecvFrom[g][SendTo[g][s][j]]
        /\ RecvFrom[g][SendTo[g][s][j]][SendId[g][s][j]] = s
  BY PairingAssumption
<1> QED BY <1>2, <1>3

(* A queue gets a message of gather a, or stays as it is.                  *)
Grows(n, a, s, d, id) ==
  \/ /\ net'[s][d][id] = net[s][d][id]
     /\ IsStart(a)' /\ s = n => \A k : ~SentIn(a, n, d, k, id)'
  \/ \E m \in Msg :
       /\ s = n /\ SentIn(a, n, d, m.k, id)' /\ m.at = a
       /\ net'[s][d][id] = Append(net[s][d][id], m)

LEMMA QueueGrows ==
  ASSUME HistoryInv, MsgType, NEW n \in Nodes, NEW c \in Next1Call(n),
         c.op \in Steps, Kinds(n, c), NEW a, a = pc[n] + 1,
         NEW s \in Nodes, NEW d \in Nodes, NEW id \in Ids
  PROVE  Grows(n, a, s, d, id)
<1>1. CASE DoesStart(n, c) /\ s = n
  <2>1. Added(n, c, a)
    BY <1>1, Posts
  <2>2. a \in Nat /\ c.tag \in Tags
    BY <1>1, Moves DEF DoesStart
  <2>3. CASE net'[n][d][id] = net[n][d][id] /\ \A k : ~SentIn(a, n, d, k, id)'
    BY <1>1, <2>3 DEF Grows
  <2>4. CASE \E k \in Nat :
               /\ SentIn(a, n, d, k, id)'
               /\ net'[n][d][id] =
                    Append(net[n][d][id],
                           [src |-> n, at |-> a, tag |-> c.tag, k |-> k])
    <3>1. PICK k \in Nat :
            /\ SentIn(a, n, d, k, id)'
            /\ net'[n][d][id] =
                 Append(net[n][d][id], [src |-> n, at |-> a, tag |-> c.tag, k |-> k])
      BY <2>4
    <3>2. PICK m : m = [src |-> n, at |-> a, tag |-> c.tag, k |-> k]
      OBVIOUS
    <3>3. m \in Msg /\ m.k = k /\ m.at = a
      BY <2>2, <3>2 DEF Msg
    <3> QED BY <1>1, <3>1, <3>2, <3>3 DEF Grows
  <2> QED BY <2>1, <2>3, <2>4 DEF Added
<1>2. CASE DoesStart(n, c) /\ s /= n
  <2>1. Added(n, c, a)
    BY <1>2, Posts
  <2>2. net'[s] = net[s]
    BY <1>2, <2>1 DEF Added
  <2> QED BY <1>2, <2>2 DEF Grows
<1>3. CASE ~DoesStart(n, c)
  <2>1. net' = net /\ c.op \notin {"do", "start"}
    BY <1>3 DEF Kinds, DoesWait, DoesCleanup, DoesOther
  <2>2. ~IsStart(a)'
    <3>1. prog'[a].call = c
      BY KindsMake, Moves
    <3> QED BY <2>1, <3>1 DEF IsStart
  <2> QED BY <2>1, <2>2 DEF Grows
<1> QED BY <1>1, <1>2, <1>3

LEMMA AppendAt ==
  ASSUME NEW queue \in Seq(Msg), NEW m \in Msg
  PROVE  /\ \A x \in DOMAIN queue :
              x \in DOMAIN Append(queue, m) /\ Append(queue, m)[x] = queue[x]
         /\ \A x \in DOMAIN Append(queue, m) :
              \/ x \in DOMAIN queue /\ Append(queue, m)[x] = queue[x]
              \/ Append(queue, m)[x] = m
         /\ Len(queue) + 1 \in DOMAIN Append(queue, m)
         /\ Append(queue, m)[Len(queue) + 1] = m
OBVIOUS

LEMMA SentMade ==
  ASSUME CoreInv, SentInv, NEW n \in Nodes, NEW c \in Next1Call(n),
         c.op \in Steps, Kinds(n, c)
  PROVE  SentInv'
<1>0. HistoryInv /\ MsgType /\ Makes(n, c)
  BY KindsMake DEF CoreInv
<1>1. PICK a : a = pc[n] + 1
  OBVIOUS
<1>2. /\ pc' = [pc EXCEPT ![n] = a] /\ pc \in [Nodes -> Nat] /\ a \in Nat
      /\ \A m \in Nodes : pc[m] \in 0 .. Len(prog)
      /\ a \in 1 .. Len(prog') /\ Len(prog) \in Nat
  BY <1>0, <1>1, Moves
<1>3. Len(prog) <= Len(prog') /\ Len(prog') \in Nat
  BY <1>0, ProgGrows
<1> SUFFICES ASSUME NEW s \in Nodes, NEW d \in Nodes, NEW id \in Ids,
                    NEW p \in 1 .. pc'[s], NEW k,
                    SentIn(p, s, d, k, id)', Waits(d, p, Slot(p, s, k))'
             PROVE  \E x \in DOMAIN net'[s][d][id] : net'[s][d][id][x].at = p
  BY DEF SentInv
<1>4. PICK queue : queue = net[s][d][id]
  OBVIOUS
<1>5. queue \in Seq(Msg) /\ IsStart(p)'
  BY <1>0, <1>4 DEF MsgType, SentIn
<1>6. Grows(n, a, s, d, id)
  BY <1>0, <1>1, QueueGrows
<1>7. CASE p \in 1 .. pc[s]
  <2>1. p \in 1 .. Len(prog)
    BY <1>2, <1>7
  <2>2. SentIn(p, s, d, k, id) /\ Slot(p, s, k)' = Slot(p, s, k)
    BY <1>0, <2>1, SentStable
  <2>3. PICK i : i = Slot(p, s, k)
    OBVIOUS
  <2>4. Gat(p)' = Gat(p) /\ Gat(p) \in GatherIndex
    BY <1>0, <2>1, ProgStable
  <2>5. i \in DOMAIN RecvFrom[Gat(p)][d]
    BY <2>2, <2>3, <2>4, SendFits
  <2>6. Waits(d, p, i)'
    BY <2>2, <2>3
  <2>7. p \in 1 .. Len(prog')
    BY <1>3, <2>1
  <2>8. Waits(d, p, i)
    BY <1>5, <2>4, <2>5, <2>6, <2>7, WaitsStep
  <2>9. PICK x \in DOMAIN queue : queue[x].at = p
    BY <1>4, <1>7, <2>2, <2>3, <2>8 DEF SentInv, SentIn
  <2>10. net'[s][d][id] = queue \/ \E m \in Msg : net'[s][d][id] = Append(queue, m)
    BY <1>4, <1>6 DEF Grows
  <2>11. x \in DOMAIN net'[s][d][id] /\ net'[s][d][id][x] = queue[x]
    BY <1>5, <2>9, <2>10, AppendAt
  <2> QED BY <2>9, <2>11
<1>8. CASE p \notin 1 .. pc[s]
  <2>1. s = n /\ p = a
    BY <1>1, <1>2, <1>8
  <2>2. PICK m \in Msg : m.at = a /\ net'[s][d][id] = Append(queue, m)
    BY <1>4, <1>5, <1>6, <2>1 DEF Grows
  <2> QED BY <1>5, <2>1, <2>2, AppendAt
<1> QED BY <1>7, <1>8

LEMMA AwaitedMade ==
  ASSUME CoreInv, AwaitedInv, RightInv, CameInv, NEW n \in Nodes,
         NEW c \in Next1Call(n), c.op \in Steps, Kinds(n, c)
  PROVE  AwaitedInv'
<1>0. HistoryInv /\ MsgType /\ QueueInv /\ Makes(n, c)
  BY KindsMake DEF CoreInv
<1>1. PICK a : a = pc[n] + 1
  OBVIOUS
<1>2. /\ pc' = [pc EXCEPT ![n] = a] /\ pc \in [Nodes -> Nat] /\ a \in Nat
      /\ \A m \in Nodes : pc[m] \in 0 .. Len(prog)
      /\ a \in 1 .. Len(prog') /\ Len(prog) \in Nat
      /\ prog'[a].call = c /\ c.tag \in Tags
      /\ prog'[a].after = Effect(loc[n], c) /\ Effect(loc[n], c) \in TablesType
  BY <1>0, <1>1, Moves
<1>3. Len(prog) <= Len(prog') /\ Len(prog') \in Nat
  BY <1>0, ProgGrows
<1>4. ASSUME NEW s \in Nodes, NEW d \in Nodes, NEW id \in Ids,
             NEW x \in DOMAIN net[s][d][id], NEW m, m = net[s][d][id][x]
      PROVE  Waits(d, m.at, Slot(m.at, s, m.k))'
  <2>1. m.at \in 1 .. pc[s] /\ SentIn(m.at, s, d, m.k, id)
    BY <1>0, <1>4 DEF QueueInv, Sound
  <2>2. PICK p : p = m.at
    OBVIOUS
  <2>3. p \in 1 .. Len(prog) /\ p \in 1 .. Len(prog')
    BY <1>2, <1>3, <2>1, <2>2
  <2>4. PICK i : i = Slot(p, s, m.k)
    OBVIOUS
  <2>5. Slot(p, s, m.k)' = i /\ IsStart(p)' /\ Gat(p)' = Gat(p) /\ Gat(p) \in GatherIndex
    <3>1. Slot(p, s, m.k)' = i
      BY <1>0, <2>3, <2>4, SentStable
    <3>2. IsStart(p)
      BY <2>1, <2>2 DEF SentIn
    <3> QED BY <1>0, <2>3, <3>1, <3>2, ProgStable
  <2>6. i \in DOMAIN RecvFrom[Gat(p)][d]
    BY <2>1, <2>2, <2>4, <2>5, SendFits
  <2>7. Waits(d, p, i)
    BY <1>4, <2>2, <2>4 DEF AwaitedInv
  <2>8. Waits(d, p, i)'
    BY <2>3, <2>5, <2>6, <2>7, WaitsStep
  <2> QED BY <2>2, <2>5, <2>8
<1>5. ASSUME NEW d \in Nodes, NEW id \in Ids, NEW k, SentIn(a, n, d, k, id)'
      PROVE  Waits(d, a, Slot(a, n, k))'
  <2>1. PICK g : g = Gat(a)'
    OBVIOUS
  <2>2. PICK i : i = SendId[g][n][k]
    OBVIOUS
  <2>3. /\ Slot(a, n, k)' = i /\ IsStart(a)'
        /\ k \in DOMAIN SendTo[g][n] /\ SendTo[g][n][k] = d
    BY <1>5, <2>1, <2>2 DEF SentIn, Slot
  <2>4. g \in GatherIndex
    BY <1>2, <2>1 DEF Gat, Tag, TablesType
  <2>5. i \in DOMAIN RecvFrom[g][d] /\ RecvFrom[g][d][i] = n
    BY <2>2, <2>3, <2>4, PairFits
  <2>6. a <= pc[d] => /\ a \in 1 .. Len(prog) /\ a \in 1 .. pc[d]
                      /\ Gat(a) = g /\ IsStart(a)
    <3>1. a <= pc[d] => a \in 1 .. Len(prog) /\ a \in 1 .. pc[d]
      BY <1>2
    <3> QED BY <1>0, <2>1, <2>3, <3>1, ProgStable
  <2>7. Waits(d, a, i)
    <3>1. CASE a > pc[d]
      BY <3>1 DEF Waits
    <3>2. CASE a <= pc[d]
      <4>1. ~(pc[n] >= a)
        BY <1>1, <1>2
      <4>2. InGather(d, a)
        BY <2>5, <2>6, <3>2, <4>1 DEF CameInv, InGather
      <4>3. recvs[d][Tag(a)][i] = NoMsg
        BY <2>5, <2>6, <3>2, <4>1, <4>2, ZenonT(30) DEF RightInv, Right
      <4> QED BY <4>2, <4>3 DEF Waits
    <3>3. a > pc[d] \/ a <= pc[d]
      BY <1>2
    <3> QED BY <3>1, <3>2, <3>3
  <2>8. Waits(d, a, i)'
    BY <1>2, <2>1, <2>3, <2>5, <2>6, <2>7, WaitsStep
  <2> QED BY <2>3, <2>8
<1>6. ASSUME NEW s \in Nodes, NEW d \in Nodes, NEW id \in Ids,
             NEW x \in DOMAIN net'[s][d][id], NEW m, m = net'[s][d][id][x]
      PROVE  Waits(d, m.at, Slot(m.at, s, m.k))'
  <2>1. PICK queue : queue = net[s][d][id]
    OBVIOUS
  <2>2. queue \in Seq(Msg)
    BY <1>0, <2>1 DEF MsgType
  <2>3. Grows(n, a, s, d, id)
    BY <1>0, <1>1, QueueGrows
  <2>4. CASE x \in DOMAIN queue /\ m = queue[x]
    BY <1>4, <2>1, <2>4
  <2>5. CASE ~(x \in DOMAIN queue /\ m = queue[x])
    <3>1. PICK new \in Msg :
            /\ s = n /\ SentIn(a, n, d, new.k, id)' /\ new.at = a
            /\ net'[s][d][id] = Append(queue, new)
      BY <1>6, <2>1, <2>3, <2>5 DEF Grows
    <3>2. m = new
      BY <1>6, <2>2, <2>5, <3>1, AppendAt
    <3> QED BY <1>5, <3>1, <3>2
  <2> QED BY <2>4, <2>5
<1>7. ASSUME NEW s \in Nodes, NEW d \in Nodes, NEW id \in Ids,
             NEW x \in DOMAIN net'[s][d][id]
      PROVE  LET m == net[s][d][id][x] IN Waits(d, m.at, Slot(m.at, s, m.k))'
  <2>1. PICK m : m = net'[s][d][id][x]
    OBVIOUS
  <2>2. Waits(d, m.at, Slot(m.at, s, m.k))'
    BY <1>6, <2>1
  <2> QED BY <2>1, <2>2
<1> QED BY <1>7 DEF AwaitedInv

(* A match takes the message it should, when reused ids are synchronised.  *)
LEMMA MatchRight ==
  ASSUME CoreInv, AwaitedInv, SentInv, ReuseSynced,
         NEW s \in Nodes, NEW d \in Nodes, NEW t \in Tags, NEW id \in Ids,
         NEW i \in Nat, Takes(s, d, t, id, i)
  PROVE  \E p \in 1 .. pc[d] :
           /\ InGather(d, p) /\ Tag(p) = t
           /\ i \in DOMAIN RecvFrom[Gat(p)][d] /\ RecvFrom[Gat(p)][d][i] = s
           /\ IdList(p)[i] = id /\ p <= pc[s]
           /\ Head(net[s][d][id]).src = s /\ Head(net[s][d][id]).at = p
<1>0. /\ HistoryInv /\ MsgType /\ PlacesInv /\ FilledInv
      /\ QueueInv /\ SlotInv /\ SyncInv
      /\ \A n \in Nodes : pc[n] \in Nat /\ pc[n] <= Len(prog)
  BY DEF CoreInv, HistoryInv, ProgType
<1>1. PICK p \in 1 .. pc[d] :
        /\ p \in 1 .. Len(prog) /\ IsStart(p) /\ Tag(p) = t /\ Latest(p, pc[d])
        /\ loc[d].g[t] = Gat(p) /\ loc[d].ids[t] = IdList(p) /\ InGather(d, p)
  BY <1>0, TagGather DEF Takes
<1>2. /\ i \in DOMAIN RecvFrom[Gat(p)][d] /\ IdList(p)[i] = id
      /\ recvs[d][t][i] = NoMsg /\ Gat(p) \in GatherIndex
  BY <1>0, <1>1, PlaceTyped DEF Takes, SlotInv
<1>3. i \in DOMAIN IdList(p)
  BY <1>0, <1>1, <1>2, IdsCover
<1>4. PICK queue : queue = net[s][d][id]
  OBVIOUS
<1>5. queue \in Seq(Msg) /\ queue /= <<>> /\ Head(queue) = queue[1] /\ 1 \in DOMAIN queue
  <2>1. queue \in Seq(Msg) /\ queue /= <<>>
    BY <1>0, <1>4 DEF MsgType, Takes
  <2> QED BY <2>1, TailOf
<1>6. PICK m : m = queue[1]
  OBVIOUS
<1>7. PICK q : q = m.at
  OBVIOUS
<1>8. /\ m.src = s /\ q \in 1 .. pc[s] /\ SentIn(q, s, d, m.k, id)
      /\ q \in 1 .. Len(prog)
  BY <1>0, <1>4, <1>5, <1>6, <1>7 DEF QueueInv, Sound
<1>9. PICK j : j = Slot(q, s, m.k)
  OBVIOUS
<1>10. Gat(q) \in GatherIndex /\ Tag(q) \in Tags
  BY <1>0, <1>8, PlaceTyped
<1>11. /\ j \in DOMAIN RecvFrom[Gat(q)][d] /\ RecvFrom[Gat(q)][d][j] = s
       /\ IdList(q)[j] = id /\ IsStart(q)
  BY <1>8, <1>9, <1>10, SendFits
<1>12. j \in DOMAIN IdList(q)
  BY <1>0, <1>8, <1>11, IdsCover
<1>13. Waits(d, q, j)
  BY <1>4, <1>5, <1>6, <1>7, <1>9 DEF AwaitedInv
<1>14. CASE InGather(d, q)
  <2>1. loc[d].ids[Tag(q)] = IdList(q) /\ Latest(q, pc[d]) /\ q \in 1 .. pc[d]
    BY <1>0, <1>14, GatherHeld
  <2>2. loc[d] \in TablesType /\ Exact(loc[d])
    BY <1>0, LocExact
  <2>3. Tag(q) = t /\ j = i
    BY <1>1, <1>2, <1>3, <1>10, <1>11, <1>12, <2>1, <2>2, ExactIds
  <2>4. p = q
    BY <1>0, <1>1, <1>11, <2>1, <2>3, LatestUnique
  <2>5. Head(net[s][d][id]).src = s /\ Head(net[s][d][id]).at = p
    BY <1>4, <1>5, <1>6, <1>7, <1>8, <2>4
  <2>6. RecvFrom[Gat(p)][d][i] = s /\ p <= pc[s]
    BY <1>0, <1>8, <1>11, <2>3, <2>4
  <2> QED BY <1>1, <1>2, <2>5, <2>6
<1>15. CASE ~InGather(d, q)
  <2>1. q > pc[d] /\ q > p /\ p \in 1 .. q /\ p \in 1 .. pc[s] /\ q \in p + 1 .. q
    BY <1>0, <1>8, <1>13, <1>15 DEF Waits
  <2>2. CASE RecvFrom[Gat(p)][d][i] = s
    <3>1. PICK k : SentIn(p, s, d, k, id) /\ Slot(p, s, k) = i
      BY <1>1, <1>2, <2>2, ReceiveFits
    <3>2. Waits(d, p, Slot(p, s, k))
      BY <1>1, <1>2, <3>1 DEF Waits
    <3>3. PICK x \in DOMAIN queue : queue[x].at = p
      BY <1>4, <2>1, <3>1, <3>2 DEF SentInv, SentIn
    <3>4. 1 < x
      BY <1>5, <1>6, <1>7, <2>1, <3>3
    <3>5. queue[1].at < queue[x].at
      BY <1>0, <1>4, <1>5, <3>4 DEF QueueInv, Ordered
    <3> QED BY <1>6, <1>7, <2>1, <3>3, <3>5
  <2>3. CASE RecvFrom[Gat(p)][d][i] /= s
    <3>1. HeldAt(q) /\ prog[q].after \in TablesType /\ Exact(prog[q].after)
      BY <1>0, <1>8, AfterExact DEF PlacesInv
    <3>2. prog[q].after.ids[Tag(q)] = IdList(q) /\ prog[q].after.g[Tag(q)] = Gat(q)
      BY DEF IdList, Gat
    <3>3. CASE Unwaited(p, q)
      <4>1. prog[q].after.ids[t] = IdList(p) /\ Tag(q) /= t
        BY <1>1, <1>11, <2>1, <3>1, <3>3 DEF HeldAt, Same, Latest
      <4> QED BY <1>2, <1>3, <1>10, <1>11, <1>12, <3>1, <3>2, <4>1, ExactIds
    <3>4. CASE ~Unwaited(p, q)
      <4>1. PICK w \in p + 1 .. q : IsWait(w, t) /\ Same(p, w)
        BY <1>1, <2>1, <3>1, <3>4 DEF HeldAt
      <4>2. prog[w].call.op = "wait" /\ prog[w].call.tag = t
        BY <4>1 DEF IsWait
      <4>3. w /= q /\ w < q /\ w \in 1 .. Len(prog) /\ w >= p + 1
        BY <1>8, <1>11, <2>1, <4>1, <4>2 DEF IsStart
      <4>4. prog[w].after.ids[t] = IdList(p) /\ prog[w].after.g[t] = Gat(p)
        BY <1>1, <4>1 DEF Same
      <4>5. OtherSender(w, q)
        <5>1. <<id, RecvFrom[Gat(p)][d][i]>> \in
                Expected(prog[w].after, prog[w].call.tag, d)
          BY <1>2, <1>3, <4>2, <4>4 DEF Expected
        <5>2. <<id, s>> \in Expected(prog[q].after, prog[q].call.tag, d)
          BY <1>11, <1>12, <3>2 DEF Expected, Tag
        <5> QED BY <2>3, <5>1, <5>2 DEF OtherSender
      <4>6. PICK r \in w .. q : prog[r].call.op = "sync"
        BY <1>8, <1>11, <4>2, <4>3, <4>5 DEF ReuseSynced, IsStart
      <4>7. r /= w /\ r \in 1 .. pc[s]
        BY <1>0, <1>8, <4>2, <4>3, <4>6
      <4>8. pc[d] >= r - 1
        BY <1>0, <4>6, <4>7 DEF SyncInv
      <4>9. w \in p + 1 .. pc[d]
        BY <1>0, <4>1, <4>3, <4>6, <4>7, <4>8
      <4> QED BY <1>1, <4>1, <4>9 DEF InGather, Unwaited
    <3> QED BY <3>3, <3>4
  <2> QED BY <2>2, <2>3
<1> QED BY <1>14, <1>15

LEMMA WaitsMatch ==
  ASSUME CoreInv, NEW s \in Nodes, NEW d \in Nodes, NEW t \in Tags, NEW id \in Ids,
         NEW i \in Nat, Takes(s, d, t, id, i)
  PROVE  /\ \A e, p : InGather(e, p)' <=> InGather(e, p)
         /\ \A e \in Nodes, p \in Nat : \A j :
              Waits(e, p, j)' <=>
                Waits(e, p, j) /\ ~(e = d /\ InGather(d, p) /\ Tag(p) = t /\ j = i)
<1>0. HistoryInv /\ MsgType /\ PlacesInv /\ SlotInv /\ QueueInv
      /\ pc[d] \in Nat
  BY DEF CoreInv, HistoryInv, ProgType
<1>1. \A e, p : InGather(e, p)' <=> InGather(e, p)
  BY DEF Takes, InGather, IsStart, Unwaited, IsWait, Tag
<1>2. \A p : Tag(p)' = Tag(p)
  BY DEF Takes, Tag
<1>3. pc' = pc
  BY DEF Takes
<1>5. /\ recvs'[d][t][i] /= NoMsg
      /\ \A e \in Nodes, u \in Tags : \A j :
           e /= d \/ u /= t \/ j /= i => recvs'[e][u][j] = recvs[e][u][j]
  <2>1. TakenBy(s, d, t, id, i)
    BY <1>0, SlotMatch
  <2> QED BY <2>1 DEF TakenBy
<1>4. ASSUME NEW e \in Nodes, NEW p \in Nat, NEW j
      PROVE  Waits(e, p, j)' <=>
               Waits(e, p, j) /\ ~(e = d /\ InGather(d, p) /\ Tag(p) = t /\ j = i)
  <2>1. CASE InGather(e, p)
    <3>1. Tag(p) \in Tags /\ p \in 1 .. pc[e]
      BY <1>0, <2>1, GatherHeld
    <3>2. ~(p > pc[e]) /\ ~(p > pc'[e])
      <4>1. pc[e] \in Nat
        BY <1>0 DEF HistoryInv, ProgType
      <4> QED BY <1>3, <3>1, <4>1
    <3>3. Waits(e, p, j) <=> recvs[e][Tag(p)][j] = NoMsg
      BY <2>1, <3>2 DEF Waits
    <3>4. Waits(e, p, j)' <=> recvs'[e][Tag(p)][j] = NoMsg
      BY <1>1, <1>2, <2>1, <3>2 DEF Waits
    <3>5. CASE e = d /\ Tag(p) = t /\ j = i
      <4>1. recvs'[d][t][i] /= NoMsg
        BY <1>5
      <4> QED BY <2>1, <3>4, <3>5, <4>1
    <3>6. CASE ~(e = d /\ Tag(p) = t /\ j = i)
      <4>1. recvs'[e][Tag(p)][j] = recvs[e][Tag(p)][j]
        BY <1>5, <3>1, <3>6
      <4> QED BY <3>3, <3>4, <3>6, <4>1
    <3> QED BY <3>5, <3>6
  <2>2. CASE ~InGather(e, p)
    <3>1. e = d => ~(InGather(d, p) /\ Tag(p) = t /\ j = i)
      BY <2>2
    <3> QED BY <1>1, <1>3, <2>2, <3>1 DEF Waits
  <2> QED BY <2>1, <2>2
<1> QED BY <1>1, <1>4

(* An element of a queue after a match was in it before, and not in front. *)
Left(new, queue, taken) ==
  /\ \A x \in DOMAIN new : \E y \in DOMAIN queue :
       new[x] = queue[y] /\ (taken => 1 < y)
  /\ \A y \in DOMAIN queue :
       (taken => 1 /= y) => \E x \in DOMAIN new : new[x] = queue[y]

LEMMA MatchLeaves ==
  ASSUME MsgType, NEW s \in Nodes, NEW d \in Nodes, NEW t \in Tags, NEW id \in Ids,
         NEW i \in Nat, Takes(s, d, t, id, i),
         NEW r \in Nodes, NEW e \in Nodes, NEW j \in Ids, NEW new, new = net'[r][e][j]
  PROVE  Left(new, net[r][e][j], r = s /\ e = d /\ j = id)
<1>1. NetTaken(s, d, id)
  BY MatchNet
<1>2. PICK queue : queue = net[r][e][j]
  OBVIOUS
<1>3. CASE r = s /\ e = d /\ j = id
  <2>1. new = Tail(queue) /\ queue \in Seq(Msg) /\ queue /= <<>>
    BY <1>1, <1>2, <1>3 DEF NetTaken, MsgType, Takes
  <2>2. \A x \in DOMAIN new : x + 1 \in DOMAIN queue /\ new[x] = queue[x + 1] /\ 1 < x + 1
    BY <2>1, TailOf
  <2>3. \A y \in DOMAIN queue : y /= 1 => y - 1 \in DOMAIN new /\ new[y - 1] = queue[y]
    BY <2>1, TailOf
  <2> QED BY <1>2, <1>3, <2>2, <2>3 DEF Left
<1>4. CASE ~(r = s /\ e = d /\ j = id)
  <2>1. new = queue
    BY <1>1, <1>2, <1>4 DEF NetTaken
  <2> QED BY <1>2, <1>4, <2>1 DEF Left
<1> QED BY <1>3, <1>4

LEMMA DataMatch ==
  ASSUME CoreInv, DataInv, ReuseSynced,
         NEW s \in Nodes, NEW d \in Nodes, NEW t \in Tags, NEW id \in Ids,
         NEW i \in Nat, Takes(s, d, t, id, i)
  PROVE  DataInv'
<1>0. /\ HistoryInv /\ MsgType /\ PlacesInv /\ FilledInv /\ QueueInv /\ SlotInv
      /\ AwaitedInv /\ SentInv /\ RightInv /\ DoneInv /\ CameInv
      /\ \A n \in Nodes : pc[n] \in Nat /\ pc[n] <= Len(prog)
  BY DEF CoreInv, DataInv, HistoryInv, ProgType
<1>1. PICK p \in 1 .. pc[d] :
        /\ InGather(d, p) /\ Tag(p) = t
        /\ i \in DOMAIN RecvFrom[Gat(p)][d] /\ RecvFrom[Gat(p)][d][i] = s
        /\ IdList(p)[i] = id /\ p <= pc[s]
        /\ Head(net[s][d][id]).src = s /\ Head(net[s][d][id]).at = p
  BY <1>0, MatchRight
<1>2. /\ prog' = prog /\ pc' = pc /\ loc' = loc
      /\ \A q, n, e, k, j : SentIn(q, n, e, k, j)' <=> SentIn(q, n, e, k, j)
      /\ \A q, n, k : Slot(q, n, k)' = Slot(q, n, k)
      /\ \A q : (IsStart(q)' <=> IsStart(q)) /\ Tag(q)' = Tag(q) /\ Gat(q)' = Gat(q)
  BY DEF Takes, SentIn, Slot, IsStart, Tag, Gat, IdList
<1>3. /\ \A e, q : InGather(e, q)' <=> InGather(e, q)
      /\ \A e \in Nodes, q \in Nat : \A j :
           Waits(e, q, j)' <=>
             Waits(e, q, j) /\ ~(e = d /\ InGather(d, q) /\ Tag(q) = t /\ j = i)
  BY WaitsMatch
<1>4. TakenBy(s, d, t, id, i)
  BY <1>0, SlotMatch
<1>5. Gat(p) \in GatherIndex /\ IsStart(p) /\ p \in 1 .. pc[d] /\ p \in Nat
  BY <1>0, <1>1, GatherHeld DEF InGather
<1>6. PICK head : /\ head = net[s][d][id][1] /\ head.at = p
                  /\ 1 \in DOMAIN net[s][d][id]
  <2>1. PICK queue : queue = net[s][d][id]
    OBVIOUS
  <2>2. queue \in Seq(Msg) /\ queue /= <<>>
    BY <1>0, <2>1 DEF MsgType, Takes
  <2>3. Head(queue) = queue[1] /\ 1 \in DOMAIN queue
    BY <2>2, TailOf
  <2> QED BY <1>1, <2>1, <2>3
<1>7. \A q : InGather(d, q) /\ Tag(q) = t => q = p
  <2> SUFFICES ASSUME NEW q, InGather(d, q), Tag(q) = t PROVE q = p
    OBVIOUS
  <2>1. Latest(p, pc[d]) /\ Latest(q, pc[d]) /\ IsStart(q) /\ q \in 1 .. pc[d]
    BY <1>0, <1>1, GatherHeld DEF InGather
  <2> QED BY <1>0, <1>1, <1>5, <2>1, LatestUnique
<1>8. ASSUME NEW r \in Nodes, NEW e \in Nodes, NEW j \in Ids,
             NEW m, NEW x \in DOMAIN net'[r][e][j], m = net'[r][e][j][x]
      PROVE  Waits(e, m.at, Slot(m.at, r, m.k))'
  <2>1. PICK y \in DOMAIN net[r][e][j] :
          /\ m = net[r][e][j][y]
          /\ r = s /\ e = d /\ j = id => 1 < y
    <3>1. PICK new : new = net'[r][e][j]
      OBVIOUS
    <3>2. Left(new, net[r][e][j], r = s /\ e = d /\ j = id)
      BY <1>0, <3>1, MatchLeaves
    <3> QED BY <1>8, <3>1, <3>2 DEF Left
  <2>2. m.at \in 1 .. pc[r] /\ SentIn(m.at, r, e, m.k, j)
    BY <1>0, <2>1 DEF QueueInv, Sound
  <2>3. Waits(e, m.at, Slot(m.at, r, m.k))
    BY <1>0, <2>1 DEF AwaitedInv
  <2>4. ASSUME e = d, InGather(d, m.at), Tag(m.at) = t, Slot(m.at, r, m.k) = i
        PROVE  FALSE
    <3>1. m.at = p
      BY <1>7, <2>4
    <3>2. RecvFrom[Gat(p)][d][i] = r /\ IdList(p)[i] = j
      BY <1>5, <2>2, <2>4, <3>1, SendFits
    <3>3. r = s /\ j = id
      BY <1>1, <3>2
    <3>4. head.at < m.at
      BY <1>0, <1>6, <2>1, <2>4, <3>3 DEF QueueInv, Ordered
    <3> QED BY <1>0, <1>5, <1>6, <3>1, <3>4
  <2>5. PICK q \in Nat : q = m.at
    BY <1>0, <2>2
  <2>6. PICK slot : slot = Slot(q, r, m.k)
    OBVIOUS
  <2>7. Waits(e, q, slot)'
    BY <1>3, <2>3, <2>4, <2>5, <2>6
  <2> QED BY <1>2, <2>5, <2>6, <2>7
<1>9. AwaitedInv'
  <2>1. ASSUME NEW r \in Nodes, NEW e \in Nodes, NEW j \in Ids,
               NEW x \in DOMAIN net'[r][e][j]
        PROVE  LET m == net[r][e][j][x] IN Waits(e, m.at, Slot(m.at, r, m.k))'
    <3>1. PICK m : m = net'[r][e][j][x]
      OBVIOUS
    <3>2. Waits(e, m.at, Slot(m.at, r, m.k))'
      BY <1>8, <3>1
    <3> QED BY <3>1, <3>2
  <2> QED BY <2>1 DEF AwaitedInv
<1>10. SentInv'
  <2> SUFFICES ASSUME NEW r \in Nodes, NEW e \in Nodes, NEW j \in Ids,
                      NEW q \in 1 .. pc[r], NEW k,
                      SentIn(q, r, e, k, j), Waits(e, q, Slot(q, r, k))'
               PROVE  \E x \in DOMAIN net'[r][e][j] : net'[r][e][j][x].at = q
    BY <1>2 DEF SentInv
  <2>1. PICK slot : slot = Slot(q, r, k)
    OBVIOUS
  <2>2. Waits(e, q, slot)' /\ q \in Nat
    BY <1>0, <1>2, <2>1
  <2>3. Waits(e, q, slot) /\ ~(e = d /\ InGather(d, q) /\ Tag(q) = t /\ slot = i)
    BY <1>3, <2>2
  <2>4. PICK y \in DOMAIN net[r][e][j] : net[r][e][j][y].at = q
    BY <1>0, <2>1, <2>3 DEF SentInv, SentIn
  <2>5. ASSUME r = s, e = d, j = id, y = 1 PROVE FALSE
    <3>1. q = p
      BY <1>6, <2>4, <2>5
    <3>2. slot \in DOMAIN RecvFrom[Gat(p)][d] /\ IdList(p)[slot] = id
      BY <1>5, <2>1, <2>5, <3>1, SendFits
    <3>3. slot = i
      BY <1>0, <1>1, <1>5, <3>2, IdsCover
    <3> QED BY <1>1, <2>3, <2>5, <3>1, <3>3
  <2>6. PICK new : new = net'[r][e][j]
    OBVIOUS
  <2>7. \E x \in DOMAIN new : new[x] = net[r][e][j][y]
    <3>1. Left(new, net[r][e][j], r = s /\ e = d /\ j = id)
      BY <1>0, <2>6, MatchLeaves
    <3> QED BY <2>5, <3>1 DEF Left
  <2> QED BY <2>4, <2>6, <2>7
<1>11. RightInv'
  <2> SUFFICES ASSUME NEW e \in Nodes, NEW q \in 1 .. pc[e], InGather(e, q),
                      NEW j \in DOMAIN RecvFrom[Gat(q)][e]
               PROVE  recvs'[e][Tag(q)][j] = NoMsg \/ Right(e, q, j)'
    BY <1>2, <1>3 DEF RightInv
  <2>1. CASE e = d /\ Tag(q) = t /\ j = i
    <3>1. q = p
      BY <1>7, <2>1
    <3>2. recvs'[d][t][i] = [src |-> s, at |-> p]
      BY <1>1, <1>4 DEF TakenBy
    <3>3. pc'[s] >= p
      BY <1>0, <1>1, <1>2, <1>5
    <3> QED BY <1>1, <1>2, <2>1, <3>1, <3>2, <3>3 DEF Right
  <2>2. CASE ~(e = d /\ Tag(q) = t /\ j = i)
    <3>1. recvs'[e][Tag(q)][j] = recvs[e][Tag(q)][j]
      BY <1>0, <1>4, <2>2, GatherHeld DEF TakenBy
    <3>2. recvs[e][Tag(q)][j] = NoMsg \/ Right(e, q, j)
      BY <1>0 DEF RightInv
    <3> QED BY <1>2, <3>1, <3>2 DEF Right
  <2> QED BY <2>1, <2>2
<1>12. DoneInv'
  <2>1. \A q, b : Latest(q, b)' <=> Latest(q, b)
    BY <1>2 DEF Latest
  <2> SUFFICES ASSUME NEW e \in Nodes, NEW q \in 1 .. pc[e], IsStart(q),
                      Latest(q, pc[e]), loc[e].phase[Tag(q)] = "done",
                      NEW j \in DOMAIN RecvFrom[Gat(q)][e]
               PROVE  Right(e, q, j)'
    BY <1>2, <2>1 DEF DoneInv
  <2>2. q \in 1 .. Len(prog)
    BY <1>0
  <2>3. Tag(q) \in Tags /\ (e /= d \/ Tag(q) /= t)
    BY <1>0, <2>2, PlaceTyped DEF Takes
  <2>4. recvs'[e][Tag(q)][j] = recvs[e][Tag(q)][j]
    BY <1>4, <2>3 DEF TakenBy
  <2> QED BY <1>0, <1>2, <2>4 DEF Right, DoneInv
<1>13. CameInv'
  <2>1. \A q, b : Unwaited(q, b)' <=> Unwaited(q, b)
    BY <1>2 DEF Unwaited, IsWait
  <2> QED BY <1>0, <1>2, <2>1 DEF CameInv
<1> QED BY <1>9, <1>10, <1>11, <1>12, <1>13 DEF DataInv

-----------------------------------------------------------------------------
(* The other steps.                                                        *)

LEMMA DataUnmoved ==
  ASSUME CoreInv, DataInv, pc' = pc, loc' = loc, recvs' = recvs, net' = net,
         \A p \in 1 .. Len(prog) : prog'[p] = prog[p]
  PROVE  DataInv'
<1>0. /\ HistoryInv /\ QueueInv
      /\ AwaitedInv /\ SentInv /\ RightInv /\ DoneInv /\ CameInv
      /\ \A m \in Nodes : pc[m] \in Nat /\ pc[m] <= Len(prog)
  BY DEF CoreInv, DataInv, HistoryInv, ProgType
<1>1. pc' = pc /\ loc' = loc /\ recvs' = recvs /\ net' = net
  OBVIOUS
<1>11. ASSUME NEW p \in 1 .. Len(prog)
       PROVE  /\ IsStart(p)' <=> IsStart(p)
              /\ Tag(p)' = Tag(p) /\ Gat(p)' = Gat(p) /\ IdList(p)' = IdList(p)
              /\ \A t : IsWait(p, t)' <=> IsWait(p, t)
  <2>1. prog'[p] = prog[p]
    OBVIOUS
  <2> QED BY <2>1 DEF IsStart, Tag, Gat, IdList, IsWait
<1>2. ASSUME NEW d \in Nodes, NEW p \in 1 .. pc[d]
      PROVE  /\ p \in 1 .. Len(prog)
             /\ IsStart(p)' <=> IsStart(p)
             /\ Tag(p)' = Tag(p) /\ Gat(p)' = Gat(p)
             /\ Unwaited(p, pc[d])' <=> Unwaited(p, pc[d])
             /\ Latest(p, pc[d])' <=> Latest(p, pc[d])
             /\ InGather(d, p)' <=> InGather(d, p)
  <2>1. PICK b : b = pc[d]
    OBVIOUS
  <2>2. p \in 1 .. Len(prog) /\ p \in 1 .. b /\ b \in 1 .. Len(prog)
    BY <1>0, <2>1
  <2>3. /\ IsStart(p)' <=> IsStart(p)
        /\ Tag(p)' = Tag(p) /\ Gat(p)' = Gat(p)
    BY <1>11, <2>2
  <2>4. /\ Unwaited(p, b)' <=> Unwaited(p, b)
        /\ Latest(p, b)' <=> Latest(p, b)
    <3>1. \A r \in p + 1 .. b : r \in 1 .. Len(prog)
      BY <1>0, <2>2
    <3>2. Unwaited(p, b)' <=> Unwaited(p, b)
      BY <1>11, <2>3, <3>1 DEF Unwaited
    <3>3. Latest(p, b)' <=> Latest(p, b)
      BY <1>11, <2>3, <3>1 DEF Latest
    <3> QED BY <3>2, <3>3
  <2>5. pc'[d] = b
    BY <1>1, <2>1
  <2>6. /\ Unwaited(p, pc[d])' <=> Unwaited(p, b)'
        /\ Latest(p, pc[d])' <=> Latest(p, b)'
    BY <2>5 DEF Unwaited, Latest
  <2>7. InGather(d, p)' <=> InGather(d, p)
    BY <2>1, <2>3, <2>4, <2>5, <2>6 DEF InGather
  <2> QED BY <2>1, <2>2, <2>3, <2>4, <2>6, <2>7
<1>3. ASSUME NEW d \in Nodes, NEW p \in Nat, NEW i
      PROVE  Waits(d, p, i)' <=> Waits(d, p, i)
  <2>1. CASE p \in 1 .. pc[d]
    BY <1>1, <1>2, <2>1 DEF Waits
  <2>2. CASE p \notin 1 .. pc[d]
    BY <1>1, <2>2 DEF Waits, InGather
  <2> QED BY <2>1, <2>2
<1>4. ASSUME NEW s \in Nodes, NEW p \in 1 .. pc[s], NEW d, NEW k, NEW id
      PROVE  /\ SentIn(p, s, d, k, id)' <=> SentIn(p, s, d, k, id)
             /\ Slot(p, s, k)' = Slot(p, s, k)
  BY <1>2, <1>11 DEF SentIn, Slot
<1>5. AwaitedInv'
  <2>1. ASSUME NEW s \in Nodes, NEW d \in Nodes, NEW id \in Ids,
               NEW x \in DOMAIN net[s][d][id], NEW m, m = net[s][d][id][x]
        PROVE  Waits(d, m.at, Slot(m.at, s, m.k))'
    <3>1. m.at \in 1 .. pc[s]
      BY <1>0, <2>1 DEF QueueInv, Sound
    <3>2. PICK p \in Nat : p = m.at
      BY <1>0, <3>1
    <3>3. PICK i : i = Slot(p, s, m.k)
      OBVIOUS
    <3>4. Slot(p, s, m.k)' = i
      BY <1>4, <3>1, <3>2, <3>3
    <3>5. Waits(d, p, i)
      BY <1>0, <2>1, <3>2, <3>3 DEF AwaitedInv
    <3>6. Waits(d, p, i)'
      BY <1>3, <3>5
    <3> QED BY <3>2, <3>4, <3>6
  <2>2. ASSUME NEW s \in Nodes, NEW d \in Nodes, NEW id \in Ids,
               NEW x \in DOMAIN net'[s][d][id]
        PROVE  LET m == net[s][d][id][x] IN Waits(d, m.at, Slot(m.at, s, m.k))'
    <3>1. PICK m : m = net[s][d][id][x]
      OBVIOUS
    <3>2. Waits(d, m.at, Slot(m.at, s, m.k))'
      BY <1>1, <2>1, <3>1
    <3> QED BY <1>1, <3>1, <3>2
  <2> QED BY <2>2 DEF AwaitedInv
<1>6. SentInv'
  <2> SUFFICES ASSUME NEW s \in Nodes, NEW d \in Nodes, NEW id \in Ids,
                      NEW p \in 1 .. pc[s], NEW k,
                      SentIn(p, s, d, k, id)', Waits(d, p, Slot(p, s, k))'
               PROVE  \E x \in DOMAIN net[s][d][id] : net[s][d][id][x].at = p
    BY <1>1 DEF SentInv
  <2>1. PICK i : i = Slot(p, s, k)
    OBVIOUS
  <2>2. SentIn(p, s, d, k, id) /\ Waits(d, p, i)'
    BY <1>4, <2>1
  <2>3. Waits(d, p, i)
    BY <1>0, <1>3, <2>2
  <2> QED BY <1>0, <2>1, <2>2, <2>3 DEF SentInv, SentIn
<1>7. ASSUME NEW d \in Nodes, NEW p \in 1 .. pc[d], NEW i
      PROVE  Right(d, p, i)' <=> Right(d, p, i)
  BY <1>1, <1>2 DEF Right
<1>8. RightInv'
  <2> SUFFICES ASSUME NEW d \in Nodes, NEW p \in 1 .. pc[d], InGather(d, p)',
                      NEW i \in DOMAIN RecvFrom[Gat(p)'][d]
               PROVE  recvs[d][Tag(p)'][i] = NoMsg \/ Right(d, p, i)'
    BY <1>1 DEF RightInv
  <2>1. InGather(d, p) /\ i \in DOMAIN RecvFrom[Gat(p)][d] /\ Tag(p)' = Tag(p)
    BY <1>2
  <2> QED BY <1>0, <1>7, <2>1 DEF RightInv
<1>10. DoneInv'
  <2> SUFFICES ASSUME NEW d \in Nodes, NEW p \in 1 .. pc[d], IsStart(p)',
                      Latest(p, pc[d])', loc[d].phase[Tag(p)'] = "done",
                      NEW i \in DOMAIN RecvFrom[Gat(p)'][d]
               PROVE  Right(d, p, i)'
    BY <1>1 DEF DoneInv
  <2>1. /\ IsStart(p) /\ Latest(p, pc[d]) /\ Tag(p)' = Tag(p)
        /\ i \in DOMAIN RecvFrom[Gat(p)][d]
    BY <1>2
  <2> QED BY <1>0, <1>7, <2>1 DEF DoneInv
<1>9. CameInv'
  BY <1>0, <1>1, <1>2 DEF CameInv
<1> QED BY <1>5, <1>6, <1>8, <1>9, <1>10 DEF DataInv

(* The order of the calls made so far does not change.                     *)
LEMMA SyncedBefore ==
  ASSUME HistoryInv, NEW n \in Nodes, NEW c \in Next1Call(n), c.op \in Steps,
         Makes(n, c) \/ Stops(n, c), ReuseSynced'
  PROVE  ReuseSynced
<1>1. /\ Len(prog) \in Nat /\ Len(prog') \in Nat /\ Len(prog) <= Len(prog')
      /\ \A p \in 1 .. Len(prog) : prog'[p] = prog[p]
  BY ProgGrows DEF HistoryInv, ProgType
<1> SUFFICES ASSUME NEW w \in 1 .. Len(prog), NEW q \in 1 .. Len(prog), w < q,
                    prog[w].call.op = "wait", prog[q].call.op \in {"do", "start"},
                    OtherSender(w, q)
             PROVE  \E r \in w .. q : prog[r].call.op = "sync"
  BY DEF ReuseSynced
<1>2. w \in 1 .. Len(prog') /\ q \in 1 .. Len(prog')
  BY <1>1
<1>3. OtherSender(w, q)'
  <2>1. prog'[w] = prog[w] /\ prog'[q] = prog[q]
    BY <1>1
  <2> QED BY <2>1 DEF OtherSender
<1>4. PICK r \in w .. q : prog'[r].call.op = "sync"
  BY <1>1, <1>2, <1>3 DEF ReuseSynced
<1>5. r \in 1 .. Len(prog)
  BY <1>1, <1>4
<1> QED BY <1>1, <1>4, <1>5

LEMMA SyncedSame ==
  ASSUME prog' = prog, ReuseSynced' PROVE ReuseSynced
<1>1. \A w, q : OtherSender(w, q)' <=> OtherSender(w, q)
  BY DEF OtherSender
<1> QED BY <1>1 DEF ReuseSynced

-----------------------------------------------------------------------------
(* The inductive invariant.                                                *)

ArrivalInv == CoreInv /\ (ReuseSynced => DataInv)

LEMMA ArrivalInit == Init /\ TypeOK => ArrivalInv
<1> SUFFICES ASSUME Init, TypeOK PROVE ArrivalInv
  OBVIOUS
<1>1. HistoryInv
  BY HistoryInit
<1>2. MsgType
  BY DEF TypeOK, MsgType, Receipt
<1>3. \A n \in Nodes : pc[n] = 0 /\ 1 .. pc[n] = {}
  BY DEF Init
<1>4. \A s, d \in Nodes, id \in Ids : net[s][d][id] = <<>> /\ DOMAIN net[s][d][id] = {}
  BY DEF Init
<1>5. PlacesInv /\ FilledInv /\ SyncInv /\ QueueInv
  BY <1>3, <1>4 DEF PlacesInv, FilledInv, SyncInv, QueueInv, Ordered
<1>6. SlotInv
  BY DEF Init, InitTables, SlotInv
<1>7. DataInv
  BY <1>3, <1>4 DEF DataInv, AwaitedInv, SentInv, RightInv, DoneInv, CameInv
<1> QED BY <1>1, <1>2, <1>5, <1>6, <1>7 DEF ArrivalInv, CoreInv

LEMMA ArrivalKept ==
  ArrivalInv /\ HistoryInv' /\ UNCHANGED vars => ArrivalInv'
<1> SUFFICES ASSUME ArrivalInv, HistoryInv', UNCHANGED vars PROVE ArrivalInv'
  OBVIOUS
<1>1. /\ prog' = prog /\ pc' = pc /\ loc' = loc /\ recvs' = recvs
      /\ net' = net /\ unsent' = unsent
  BY DEF vars
<1>2. MsgType' /\ PlacesInv' /\ FilledInv' /\ SlotInv' /\ SyncInv'
  BY <1>1, PlacesKept
     DEF ArrivalInv, CoreInv, MsgType, FilledInv, Filled, NidsOf, SlotInv, SyncInv
<1>3. QueueInv'
  <2>1. \A m, s, d, id : Sound(m, s, d, id)' <=> Sound(m, s, d, id)
    BY <1>1 DEF Sound, SentIn, Slot, IsStart, Tag, Gat, IdList
  <2> QED BY <1>1, <2>1 DEF ArrivalInv, CoreInv, QueueInv, Ordered
<1>4. ReuseSynced' => ReuseSynced
  BY <1>1, SyncedSame
<1>5. DataInv => DataInv'
  BY <1>1, DataUnmoved DEF ArrivalInv
<1> QED BY <1>2, <1>3, <1>4, <1>5 DEF ArrivalInv, CoreInv

LEMMA ArrivalStep ==
  ASSUME ArrivalInv, HistoryInv', MsgType', NEW n \in Nodes, Step(n)
  PROVE  ArrivalInv'
<1>0. /\ CoreInv /\ HistoryInv /\ MsgType /\ PlacesInv /\ FilledInv /\ QueueInv
      /\ SlotInv /\ SyncInv
  BY DEF ArrivalInv, CoreInv
<1>1. PICK c \in Next1Call(n) : c.op \in Steps /\ (Kinds(n, c) \/ DoesStop(n, c))
  BY <1>0, StepKinds DEF Kinds
<1>2. CASE Kinds(n, c)
  <2>1. Makes(n, c)
    BY <1>2, KindsMake
  <2>2. PlacesInv' /\ FilledInv' /\ SlotInv' /\ SyncInv'
    BY <1>0, <1>1, <1>2, <2>1, PlacesMade, FilledMade, SlotMade, SyncMade
  <2>3. QueueInv'
    <3>1. CASE DoesStart(n, c)
      BY <1>0, <1>1, <3>1, QueueStart
    <3>2. CASE ~DoesStart(n, c)
      <4>1. UNCHANGED net
        BY <1>2, <3>2 DEF Kinds, DoesWait, DoesCleanup, DoesOther
      <4> QED BY <1>0, <1>1, <2>1, <4>1, QueueKept
    <3> QED BY <3>1, <3>2
  <2>4. ASSUME ReuseSynced' PROVE DataInv'
    <3>1. DataInv
      BY <1>0, <1>1, <2>1, <2>4, SyncedBefore DEF ArrivalInv
    <3>2. AwaitedInv /\ SentInv /\ RightInv /\ DoneInv /\ CameInv
      BY <3>1 DEF DataInv
    <3>3. AwaitedInv' /\ SentInv'
      BY <1>0, <1>1, <1>2, <3>2, AwaitedMade, SentMade
    <3>4. RightInv' /\ DoneInv' /\ CameInv'
      BY <1>0, <1>1, <1>2, <3>2, RightMade, DoneMade, CameMade
    <3> QED BY <3>3, <3>4 DEF DataInv
  <2> QED BY <2>2, <2>3, <2>4 DEF ArrivalInv, CoreInv
<1>3. CASE DoesStop(n, c)
  <2>1. Stops(n, c) /\ UNCHANGED net /\ UNCHANGED recvs /\ UNCHANGED loc
    BY <1>3 DEF DoesStop, Stops, Terminate
  <2>2. PlacesInv' /\ FilledInv' /\ SyncInv'
    BY <1>0, <1>1, <2>1, PlacesStopped, FilledStopped, SyncStopped
  <2>3. QueueInv'
    BY <1>0, <1>1, <2>1, QueueKept
  <2>4. SlotInv'
    BY <1>0, <2>1 DEF SlotInv
  <2>5. ASSUME ReuseSynced' PROVE DataInv'
    <3>1. DataInv
      BY <1>0, <1>1, <2>1, <2>5, SyncedBefore DEF ArrivalInv
    <3>2. pc' = pc /\ loc' = loc /\ recvs' = recvs /\ net' = net
      BY <1>3 DEF DoesStop, Stops, Terminate
    <3>3. \A p \in 1 .. Len(prog) : prog'[p] = prog[p]
      BY <1>0, <1>1, <2>1, ProgStable
    <3> QED BY <1>0, <3>1, <3>2, <3>3, DataUnmoved
  <2> QED BY <2>2, <2>3, <2>4, <2>5 DEF ArrivalInv, CoreInv
<1> QED BY <1>1, <1>2, <1>3

LEMMA ArrivalMatch ==
  ASSUME ArrivalInv, HistoryInv', MsgType', NEW s \in Nodes, NEW d \in Nodes,
         Match(s, d)
  PROVE  ArrivalInv'
<1>0. /\ CoreInv /\ HistoryInv /\ MsgType /\ PlacesInv /\ FilledInv /\ QueueInv
      /\ SlotInv /\ SyncInv
  BY DEF ArrivalInv, CoreInv
<1>1. PICK t \in Tags, id \in Ids, i \in Nat : Takes(s, d, t, id, i)
  BY <1>0, MatchTakes
<1>2. prog' = prog /\ pc' = pc
  BY <1>1 DEF Takes
<1>3. PlacesInv' /\ FilledInv' /\ SyncInv'
  BY <1>0, <1>2, PlacesKept DEF FilledInv, Filled, NidsOf, SyncInv
<1>4. QueueInv'
  BY <1>0, <1>1, QueueMatch
<1>5. SlotInv'
  BY <1>0, <1>1, SlotMatch
<1>6. ReuseSynced' => ReuseSynced
  BY <1>2, SyncedSame
<1>7. ReuseSynced' => DataInv'
  BY <1>0, <1>1, <1>6, DataMatch DEF ArrivalInv
<1> QED BY <1>3, <1>4, <1>5, <1>7 DEF ArrivalInv, CoreInv

(***************************************************************************)
(* The inductive invariant under the theorems: the ids a gather holds, the *)
(* messages in the network and what they are for, and what was received.   *)
(***************************************************************************)
THEOREM ArrivalInvariant == Spec => []ArrivalInv
<1>1. Init /\ TypeOK => ArrivalInv
  BY ArrivalInit
<1>2. ArrivalInv /\ HistoryInv' /\ TypeOK' /\ [Next]_vars => ArrivalInv'
  <2> SUFFICES ASSUME ArrivalInv, HistoryInv', TypeOK', [Next]_vars PROVE ArrivalInv'
    OBVIOUS
  <2>1. MsgType'
    BY DEF TypeOK, MsgType, Receipt
  <2>2. ASSUME NEW n \in Nodes, Step(n) PROVE ArrivalInv'
    BY <2>1, <2>2, ArrivalStep
  <2>3. ASSUME NEW s \in Nodes, NEW d \in Nodes, Match(s, d) PROVE ArrivalInv'
    BY <2>1, <2>3, ArrivalMatch
  <2>4. CASE UNCHANGED vars
    BY <2>4, ArrivalKept
  <2> QED BY <2>2, <2>3, <2>4 DEF Next
<1> QED BY <1>1, <1>2, HistoryInvariant, TypeCorrect, PTL DEF Spec

(***************************************************************************)
(* Every receive gets the data of the right neighbor, packed by the call   *)
(* of do_gather its wait belongs to, however few ids there are, as long as *)
(* all nodes meet before an id is reused for another neighbor: though      *)
(* do_gather posts its receives with MPI_ANY_SOURCE.                       *)
(***************************************************************************)
THEOREM RightDataWhenSynced == Spec => []RightDataIfSynced
<1>1. ArrivalInv => RightDataIfSynced
  <2> SUFFICES ASSUME ArrivalInv, ReuseSynced, NEW n \in Nodes, NEW t \in Tags,
                      loc[n].phase[t] \in {"started", "done"},
                      NEW i \in DOMAIN recvs[n][t]
               PROVE  recvs[n][t][i] \in
                        {NoMsg, [src |-> RecvFrom[loc[n].g[t]][n][i],
                                 at |-> StartedAt(n, t)]}
    BY DEF RightDataIfSynced, RightData
  <2>1. HistoryInv /\ PlacesInv /\ SlotInv /\ RightInv /\ DoneInv /\ pc[n] \in Nat
    BY DEF ArrivalInv, CoreInv, DataInv, HistoryInv, ProgType
  <2>2. PICK p \in 1 .. pc[n] :
          /\ p \in 1 .. Len(prog) /\ IsStart(p) /\ Tag(p) = t /\ Latest(p, pc[n])
          /\ loc[n].g[t] = Gat(p) /\ loc[n].ids[t] = IdList(p)
          /\ loc[n].phase[t] = "started" => InGather(n, p)
    BY <2>1, TagGather
  <2>3. StartedAt(n, t) = p
    <3> DEFINE starts == {q \in 1 .. pc[n] : /\ prog[q].call.tag = t
                                             /\ prog[q].call.op \in {"do", "start"}}
    <3>1. p \in starts
      BY <2>2 DEF IsStart, Tag
    <3>2. \A q \in starts : q <= p
      <4> SUFFICES ASSUME NEW q \in starts, ~(q <= p) PROVE FALSE
        OBVIOUS
      <4>1. q \in p + 1 .. pc[n]
        BY <2>1
      <4> QED BY <2>2, <4>1 DEF Latest, IsStart, Tag
    <3>3. \A q \in starts : (\A r \in starts : r <= q) => q = p
      BY <2>1, <3>1, <3>2
    <3>4. StartedAt(n, t) = CHOOSE q \in starts : \A r \in starts : r <= q
      BY <3>1 DEF StartedAt
    <3> HIDE DEF starts
    <3> QED BY <3>1, <3>2, <3>3, <3>4
  <2>4. i \in DOMAIN RecvFrom[Gat(p)][n]
    BY <2>1, <2>2 DEF SlotInv
  <2>5. recvs[n][t][i] = NoMsg \/ Right(n, p, i)
    BY <2>1, <2>2, <2>4 DEF RightInv, DoneInv
  <2> QED BY <2>2, <2>3, <2>5 DEF Right
<1> QED BY <1>1, ArrivalInvariant, PTL

=============================================================================
