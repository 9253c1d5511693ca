------------------------------- MODULE Gather -------------------------------
(***************************************************************************)
(* The gather runtime of generic/com_mpi.c.  A parallel job is a set of    *)
(* Nodes that all run the same program: every node makes the same calls    *)
(* of declare/prepare/do/wait/cleanup_gather in the same order, each at    *)
(* its own pace.  Nothing synchronises them except the messages.  A call   *)
(* takes message ids from the node's own table (id_array, id_offset), the  *)
(* receives are posted with MPI_ANY_SOURCE, and only the id tells the      *)
(* message of one gather from that of another: the nodes must reach the    *)
(* same ids with no communication at all.                                  *)
(*                                                                         *)
(* Data is abstracted to its origin: a message carries the node that       *)
(* packed it and the place in the program of the do_gather that packed it. *)
(* Addresses, sizes, the packing of sites into a buffer (GatherTables,     *)
(* AccumGather) and the optional checksums are left out.                   *)
(*                                                                         *)
(* Definitions marked "variant" are the code with one plausible mistake;   *)
(* no specification uses them, they show that the properties can fail.     *)
(***************************************************************************)
EXTENDS Integers, Sequences, FiniteSets

CONSTANTS
  Nodes,          \* the ranks of MPI_COMM_THISJOB
  NumGatherIds,   \* num_gather_ids, the size of id_array
  GatherIndex,    \* the gathers made by make_gather
  RecvFrom,       \* RecvFrom[g][n]: othernode of each comlink of neighborlist
  SendTo,         \* SendTo[g][n]: the same for neighborlist_send
  SendId,         \* SendId[g][n]: id_list, one (1-based) id offset per send
  OffsetIncrement,\* OffsetIncrement[g]: offset_increment of gather_t
  Tags,           \* the msg_tag pointers the program keeps
  Ops,            \* the calls the program uses
  Buffered,       \* MPI completes a send before it is matched
  MaxCalls        \* bound: length of the program

ASSUME IdsAssumption   == NumGatherIds \in Nat \ {0}
ASSUME BoundAssumption == MaxCalls \in Nat /\ Buffered \in BOOLEAN
ASSUME NonEmptyAssumption == Nodes /= {} /\ GatherIndex /= {} /\ Tags /= {}
ASSUME TablesAssumption ==
  /\ RecvFrom \in [GatherIndex -> [Nodes -> Seq(Nodes)]]
  /\ SendTo   \in [GatherIndex -> [Nodes -> Seq(Nodes)]]
  /\ SendId   \in [GatherIndex -> [Nodes -> Seq(Nat \ {0})]]
  /\ OffsetIncrement \in [GatherIndex -> Nat]

(***************************************************************************)
(* What make_gather leaves behind, see GatherTables: the id offset of      *)
(* every send is the position of the sender in its receiver's list, and    *)
(* offset_increment is the length of the longest list.                     *)
(***************************************************************************)
ASSUME PairingAssumption ==
  \A g \in GatherIndex, n \in Nodes :
    /\ Len(RecvFrom[g][n]) <= OffsetIncrement[g]
    /\ Len(SendId[g][n]) = Len(SendTo[g][n])
    /\ \A k \in DOMAIN SendTo[g][n] :
         LET d == SendTo[g][n][k] IN
           /\ SendId[g][n][k] \in DOMAIN RecvFrom[g][d]
           /\ RecvFrom[g][d][SendId[g][n][k]] = n
    /\ \A k \in DOMAIN RecvFrom[g][n] :
         \E j \in DOMAIN SendTo[g][RecvFrom[g][n][k]] :
           /\ SendTo[g][RecvFrom[g][n][k]][j] = n
           /\ SendId[g][RecvFrom[g][n][k]][j] = k

Ids  == 0 .. NumGatherIds - 1
Call == [op : Ops, tag : Tags, g : GatherIndex]

VARIABLES
  prog,    \* the calls made so far by the node that is furthest on; with
           \* each, the tables that node had after it (read by no action)
  pc,      \* pc[n]: how many calls node n has made
  stopped, \* the nodes inside terminate()
  loc,     \* loc[n]: id_offset, id_array and the msg_tags of node n
  recvs,   \* recvs[n][t][i]: what the i-th receive of t on n got
  net,     \* net[s][d][id]: messages with that id from s to d, in order
  unsent   \* unsent[n][t]: the Isends of t on n that are not complete

vars == <<prog, pc, stopped, loc, recvs, net, unsent>>

-----------------------------------------------------------------------------
(* The tables of one node.                                                 *)

Phases == {"none", "declared", "prepared", "started", "done"}

TablesType ==
  [off : Ids, used : SUBSET Ids, phase : [Tags -> Phases],
   g : [Tags -> GatherIndex], ids : [Tags -> Seq(Ids)]]

InitTables ==
  [off |-> 0, used |-> {}, phase |-> [t \in Tags |-> "none"],
   g |-> [t \in Tags |-> CHOOSE g \in GatherIndex : TRUE],
   ids |-> [t \in Tags |-> <<>>]]

(***************************************************************************)
(* The ids prepare_gather takes: starting at id_offset and going round the *)
(* table once, the first n that are free, in that order.  There is no such *)
(* sequence when fewer than n are free.                                    *)
(***************************************************************************)
Dist(off, id) == (id - off) % NumGatherIds

NextIdsUnchecked(l, n) ==   \* variant: id_array is not looked at
  {[i \in 1 .. n |-> (l.off + i - 1) % NumGatherIds]}

NextIds(l, n) ==
  {s \in [1 .. n -> Ids \ l.used] :
     /\ \A i, j \in 1 .. n : i < j => Dist(l.off, s[i]) < Dist(l.off, s[j])
     /\ \A free \in Ids \ l.used :
          \/ \E i \in 1 .. n : s[i] = free
          \/ \A i \in 1 .. n : Dist(l.off, s[i]) < Dist(l.off, free)}

NidsOf(l, t) == OffsetIncrement[l.g[t]]
OutOfIds(l, t) == NextIds(l, NidsOf(l, t)) = {}

(* mtag->ids = NULL when no id was taken                                   *)
Unprepared(l, t) == l.ids[t] = <<>>

Declared(l, t, g) ==
  [l EXCEPT !.phase[t] = "declared", !.g[t] = g, !.ids[t] = <<>>]

TakeIdsNoWrap(l, t) ==   \* variant: id_offset = j, before j wraps
  LET s == CHOOSE s \in NextIds(l, NidsOf(l, t)) : TRUE
  IN  IF NidsOf(l, t) = 0 THEN l
      ELSE [l EXCEPT !.ids[t] = s,
                     !.used = @ \union {s[i] : i \in DOMAIN s},
                     !.off = s[NidsOf(l, t)] + 1]

TakeIds(l, t) ==
  LET s == CHOOSE s \in NextIds(l, NidsOf(l, t)) : TRUE
  IN  IF NidsOf(l, t) = 0 THEN l
      ELSE [l EXCEPT !.ids[t] = s,
                     !.used = @ \union {s[i] : i \in DOMAIN s},
                     !.off = (s[NidsOf(l, t)] + 1) % NumGatherIds]

Prepared(l, t) == [TakeIds(l, t) EXCEPT !.phase[t] = "prepared"]
Started(l, t)  == [l EXCEPT !.phase[t] = "started"]
Waited(l, t)   == [l EXCEPT !.phase[t] = "done"]
Freed(l, t) ==
  [l EXCEPT !.phase[t] = "none", !.ids[t] = <<>>,
            !.used = @ \ {l.ids[t][i] : i \in DOMAIN l.ids[t]}]

(***************************************************************************)
(* The order of calls the comment above declare_strided_gather prescribes: *)
(* declare, prepare (optional), do, wait, then do again or cleanup.        *)
(***************************************************************************)
Legal(l, c) ==
  CASE c.op \in {"declare", "start"} -> l.phase[c.tag] = "none"
    [] c.op = "prepare" -> l.phase[c.tag] = "declared"
    [] c.op = "do"      -> l.phase[c.tag] \in {"declared", "prepared", "done"}
    [] c.op = "wait"    -> l.phase[c.tag] = "started"
    [] c.op = "sync"    -> TRUE
    [] c.op = "cleanup" -> l.phase[c.tag] \in {"declared", "prepared", "done"}

(* The next call of node n: what the program says, or, for the node that   *)
(* is furthest on, any legal call.  Only declare looks at the gather, and  *)
(* g_sync at neither: it is recorded with the tag of the call before it.   *)
Next1Call(n) ==
  IF pc[n] < Len(prog) THEN {prog[pc[n] + 1].call}
  ELSE IF Len(prog) = MaxCalls THEN {}
  ELSE {c \in Call : /\ Legal(loc[n], c)
                     /\ c.op \in {"declare", "start"} \/ c.g = loc[n].g[c.tag]
                     /\ c.op = "sync" /\ prog /= <<>> =>
                          c.tag = prog[Len(prog)].call.tag}

(* Node n completes the call c with tables l.                              *)
Complete(n, c, l) ==
  /\ n \notin stopped
  /\ loc' = [loc EXCEPT ![n] = l]
  /\ pc' = [pc EXCEPT ![n] = @ + 1]
  /\ prog' = IF pc[n] = Len(prog)
             THEN Append(prog, [call |-> c, after |-> l]) ELSE prog

(* terminate(1): the node stays in the MPI_Barrier of terminate().         *)
Terminate(n, c) ==
  /\ stopped' = stopped \union {n}
  /\ prog' = IF pc[n] = Len(prog)
             THEN Append(prog, [call |-> c, after |-> loc[n]]) ELSE prog
  /\ UNCHANGED <<pc, loc, recvs, net, unsent>>

-----------------------------------------------------------------------------
(* MPI.  A receive that waits for its message holds NoMsg; calls are       *)
(* numbered from 1, so that no message is NoMsg.                           *)

NoMsg == [src |-> CHOOSE n \in Nodes : TRUE, at |-> 0]

Msg == [src : Nodes, at : Nat, tag : Tags, k : Nat]

(* MPI_Isend for each of these sends of tag t.  A node has at most one     *)
(* send to another in a gather.                                            *)
Send(n, l, t, sends) ==
  LET g == l.g[t]
      sentTo(d, id) ==
        {k \in sends :
           SendTo[g][n][k] = d /\ l.ids[t][SendId[g][n][k]] = id}
      message(k) == [src |-> n, at |-> pc[n] + 1, tag |-> t, k |-> k]
  IN  net' = [net EXCEPT ![n] =
        [d \in Nodes |-> [id \in Ids |->
           IF sentTo(d, id) = {} THEN net[n][d][id]
           ELSE Append(net[n][d][id],
                       message(CHOOSE k \in sentTo(d, id) : TRUE))]]]

Sends(n, l, t) == DOMAIN SendTo[l.g[t]][n]
Posted(n, l, t) == [i \in DOMAIN RecvFrom[l.g[t]][n] |-> NoMsg]
Unsent(n, l, t) == IF Buffered THEN {} ELSE Sends(n, l, t)

PostAllButLastAndSend(n, l, t) ==   \* variant: the last receive is not posted
  /\ recvs' = [recvs EXCEPT ![n][t] =
                 SubSeq(Posted(n, l, t), 1, Len(Posted(n, l, t)) - 1)]
  /\ Send(n, l, t, Sends(n, l, t))
  /\ unsent' = [unsent EXCEPT ![n][t] = Unsent(n, l, t)]

PostOnceAndSend(n, l, t) ==   \* variant: a second do_gather posts no receive
  /\ recvs' = IF recvs[n][t] /= <<>> THEN recvs
              ELSE [recvs EXCEPT ![n][t] = Posted(n, l, t)]
  /\ Send(n, l, t, Sends(n, l, t))
  /\ unsent' = [unsent EXCEPT ![n][t] = Unsent(n, l, t)]

(* MPI_Irecv for every receive of t, then MPI_Isend for every send: the    *)
(* loops of do_gather.                                                     *)
PostAndSend(n, l, t) ==
  /\ recvs' = [recvs EXCEPT ![n][t] = Posted(n, l, t)]
  /\ Send(n, l, t, Sends(n, l, t))
  /\ unsent' = [unsent EXCEPT ![n][t] = Unsent(n, l, t)]

(* A pending receive of d takes the first message from s with its id:      *)
(* MPI_ANY_SOURCE leaves the choice of s to the network, and MPI keeps the *)
(* order of messages between two nodes.                                    *)
Match(s, d) ==
  \E t \in Tags, id \in Ids : \E i \in DOMAIN recvs[d][t] :
    LET m == Head(net[s][d][id]) IN
      /\ loc[d].phase[t] = "started"
      /\ recvs[d][t][i] = NoMsg
      /\ loc[d].ids[t][i] = id
      /\ net[s][d][id] /= <<>>
      /\ recvs' = [recvs EXCEPT ![d][t][i] = [src |-> m.src, at |-> m.at]]
      /\ net' = [net EXCEPT ![s][d][id] = Tail(@)]
      /\ unsent' = [unsent EXCEPT ![s][m.tag] = @ \ {m.k}]
      /\ UNCHANGED <<prog, pc, stopped, loc>>

-----------------------------------------------------------------------------
(* The calls.                                                              *)

DeclareGather(n) ==
  \E c \in Next1Call(n) :
    /\ c.op = "declare"
    /\ Complete(n, c, Declared(loc[n], c.tag, c.g))
    /\ UNCHANGED <<stopped, recvs, net, unsent>>

PrepareGather(n) ==
  \E c \in Next1Call(n) :
    /\ c.op = "prepare"
    /\ n \notin stopped
    /\ \/ /\ OutOfIds(loc[n], c.tag)
          /\ Terminate(n, c)
       \/ /\ ~OutOfIds(loc[n], c.tag)
          /\ Complete(n, c, Prepared(loc[n], c.tag))
          /\ UNCHANGED <<stopped, recvs, net, unsent>>

(* do_gather prepares the tag first if that was not done; start_gather is  *)
(* declare, prepare and do in one call.                                    *)
StartWithOwnCount(n, c, l) ==   \* variant: nids is the node's own n_recv_msgs
  LET own == NextIds(l, Len(RecvFrom[l.g[c.tag]][n]))
      s   == CHOOSE s \in own : TRUE
      p   == [l EXCEPT !.ids[c.tag] = s,
                       !.used = @ \union {s[i] : i \in DOMAIN s}]
  IN  /\ n \notin stopped
      /\ \/ own = {} /\ Terminate(n, c)
         \/ /\ own /= {}
            /\ Complete(n, c, Started(p, c.tag))
            /\ PostAndSend(n, p, c.tag)
            /\ UNCHANGED stopped

StartWithOneStop(n, c, l) ==   \* variant: if(mynode()==0) terminate(1)
  LET p == IF Unprepared(l, c.tag) THEN Prepared(l, c.tag) ELSE l
  IN  /\ n \notin stopped
      /\ IF Unprepared(l, c.tag) /\ OutOfIds(l, c.tag)
         THEN IF n = 0 THEN Terminate(n, c)
              ELSE Complete(n, c, loc[n]) /\ UNCHANGED <<stopped, recvs, net, unsent>>
         ELSE /\ Complete(n, c, Started(p, c.tag))
              /\ PostAndSend(n, p, c.tag)
              /\ UNCHANGED stopped

StartWith(n, c, l) ==
  /\ n \notin stopped
  /\ \/ /\ Unprepared(l, c.tag) /\ OutOfIds(l, c.tag)
        /\ Terminate(n, c)
     \/ /\ ~(Unprepared(l, c.tag) /\ OutOfIds(l, c.tag))
        /\ \E p \in {IF Unprepared(l, c.tag) THEN Prepared(l, c.tag) ELSE l} :
             Complete(n, c, Started(p, c.tag)) /\ PostAndSend(n, p, c.tag)
        /\ UNCHANGED stopped

DoGather(n) ==
  \E c \in Next1Call(n) : c.op = "do" /\ StartWith(n, c, loc[n])

StartGather(n) ==
  \E c \in Next1Call(n) :
    /\ c.op = "start"
    /\ \E l \in {Declared(loc[n], c.tag, c.g)} : StartWith(n, c, l)

(* wait_gather: every MPI_Wait of the receives, then of the sends.         *)
WaitGatherNotAll(n) ==   \* variant: the last receive is not waited for
  \E c \in Next1Call(n) :
    /\ c.op = "wait"
    /\ \A i \in 1 .. Len(recvs[n][c.tag]) - 1 : recvs[n][c.tag][i] /= NoMsg
    /\ unsent[n][c.tag] = {}
    /\ Complete(n, c, Waited(loc[n], c.tag))
    /\ UNCHANGED <<stopped, recvs, net, unsent>>

WaitGather(n) ==
  \E c \in Next1Call(n) :
    /\ c.op = "wait"
    /\ \A i \in DOMAIN recvs[n][c.tag] : recvs[n][c.tag][i] /= NoMsg
    /\ unsent[n][c.tag] = {}
    /\ Complete(n, c, Waited(loc[n], c.tag))
    /\ UNCHANGED <<stopped, recvs, net, unsent>>

CleanupGather(n) ==
  \E c \in Next1Call(n) :
    /\ c.op = "cleanup"
    /\ Complete(n, c, Freed(loc[n], c.tag))
    /\ recvs' = [recvs EXCEPT ![n][c.tag] = <<>>]
    /\ UNCHANGED <<stopped, net, unsent>>

(* g_sync, an MPI_Barrier, and every global sum, an MPI_Allreduce: no node *)
(* leaves before all have come.                                            *)
GSyncNoWait(n) ==   \* variant: the barrier does not hold the node up
  \E c \in Next1Call(n) :
    /\ c.op = "sync"
    /\ Complete(n, c, loc[n])
    /\ UNCHANGED <<stopped, recvs, net, unsent>>

GSync(n) ==
  \E c \in Next1Call(n) :
    /\ c.op = "sync"
    /\ \A m \in Nodes : pc[m] >= pc[n]
    /\ Complete(n, c, loc[n])
    /\ UNCHANGED <<stopped, recvs, net, unsent>>

-----------------------------------------------------------------------------
Init ==
  /\ prog = <<>>
  /\ pc = [n \in Nodes |-> 0]
  /\ stopped = {}
  /\ loc = [n \in Nodes |-> InitTables]
  /\ recvs = [n \in Nodes |-> [t \in Tags |-> <<>>]]
  /\ net = [s \in Nodes |-> [d \in Nodes |-> [id \in Ids |-> <<>>]]]
  /\ unsent = [n \in Nodes |-> [t \in Tags |-> {}]]

Step(n) ==
  \/ DeclareGather(n) \/ PrepareGather(n) \/ StartGather(n)
  \/ DoGather(n) \/ WaitGather(n) \/ CleanupGather(n) \/ GSync(n)

Next ==
  \/ \E n \in Nodes : Step(n)
  \/ \E s, d \in Nodes : Match(s, d)

(* Every node keeps running and MPI delivers what can be delivered.        *)
Fairness ==
  /\ \A n \in Nodes : WF_vars(pc[n] < Len(prog) /\ Step(n))
  /\ \A s, d \in Nodes : WF_vars(Match(s, d))

Spec     == Init /\ [][Next]_vars
FairSpec == Spec /\ Fairness

-----------------------------------------------------------------------------
(* Where in the program node n last started the gather of tag t.           *)
StartedAt(n, t) ==
  LET starts == {p \in 1 .. pc[n] : /\ prog[p].call.tag = t
                                    /\ prog[p].call.op \in {"do", "start"}}
  IN  IF starts = {} THEN 0
      ELSE CHOOSE p \in starts : \A q \in starts : q <= p

IdsOf(l, t) == {l.ids[t][i] : i \in DOMAIN l.ids[t]}

(* The type invariant.                                                     *)
TypeOK ==
  /\ prog \in Seq([call : Call, after : TablesType])
  /\ Len(prog) <= MaxCalls
  /\ pc \in [Nodes -> 0 .. Len(prog)]
  /\ stopped \subseteq Nodes
  /\ loc \in [Nodes -> TablesType]
  /\ unsent \in [Nodes -> [Tags -> SUBSET Nat]]
  /\ net \in [Nodes -> [Nodes -> [Ids -> Seq(Msg)]]]
  /\ recvs \in [Nodes -> [Tags -> Seq([src : Nodes, at : Nat])]]

(***************************************************************************)
(* Two gathers in progress on a node never share a message id, one gather  *)
(* never uses an id twice, and id_array marks exactly the ids that are     *)
(* held: prepare_gather and cleanup_gather keep the table exact, whatever  *)
(* the order in which tags are cleaned up.                                 *)
(***************************************************************************)
ExclusiveIn(l) ==
  /\ l.used = UNION {IdsOf(l, t) : t \in Tags}
  /\ \A t \in Tags :
       /\ \A u \in Tags \ {t} : IdsOf(l, t) \intersect IdsOf(l, u) = {}
       /\ \A i, j \in DOMAIN l.ids[t] :
            i /= j => l.ids[t][i] /= l.ids[t][j]

IdsExclusive == \A n \in Nodes : ExclusiveIn(loc[n])

(***************************************************************************)
(* Without exchanging a word the nodes agree on ids: when node n is where  *)
(* another node was before, its id_offset, id_array and tags are what they *)
(* were there.  Sender and receiver then use the same id for a message.    *)
(***************************************************************************)
TablesAgree ==
  \A n \in Nodes :
    loc[n] = IF pc[n] = 0 THEN InitTables ELSE prog[pc[n]].after

(***************************************************************************)
(* Every receive of wait_gather got the data of the right node, packed by  *)
(* the do_gather that this wait belongs to: not that of another gather, of *)
(* another neighbor, or of an earlier start of the same tag.               *)
(***************************************************************************)
RightData ==
  \A n \in Nodes, t \in Tags :
    loc[n].phase[t] \in {"started", "done"} =>
      \A i \in DOMAIN recvs[n][t] :
        recvs[n][t][i] \in
          {NoMsg, [src |-> RecvFrom[loc[n].g[t]][n][i], at |-> StartedAt(n, t)]}

(***************************************************************************)
(* The order that is enough for RightData, however few ids there are: when *)
(* a start takes an id that a gather waited for before had, on some node   *)
(* for a message from another neighbor, then all nodes meet between that   *)
(* wait and the start.                                                     *)
(***************************************************************************)
Expected(l, t, d) ==   \* the ids of t, each with the neighbor it is for
  {<<l.ids[t][i], RecvFrom[l.g[t]][d][i]>> :
     i \in DOMAIN l.ids[t] \intersect DOMAIN RecvFrom[l.g[t]][d]}

OtherSender(w, q) ==
  \E d \in Nodes :
    \E x \in Expected(prog[w].after, prog[w].call.tag, d),
       y \in Expected(prog[q].after, prog[q].call.tag, d) :
      x[1] = y[1] /\ x[2] /= y[2]

ReuseSynced ==
  \A w, q \in 1 .. Len(prog) :
    /\ w < q
    /\ prog[w].call.op = "wait" /\ prog[q].call.op \in {"do", "start"}
    /\ OtherSender(w, q)
    => \E r \in w .. q : prog[r].call.op = "sync"

(***************************************************************************)
(* With MPI_ANY_SOURCE a node that runs ahead and comes round to an id can *)
(* feed its message to a receive of a slower node that still waits for     *)
(* another sender.  A program that meets between the two uses of an id is  *)
(* safe from that.                                                         *)
(***************************************************************************)
RightDataIfSynced == ReuseSynced => RightData

(***************************************************************************)
(* When the program runs out of message ids it does so on every node at    *)
(* the same call, so that all of them meet in the barrier of terminate():  *)
(* no node ever gets past a call in which another one stopped.             *)
(***************************************************************************)
StopTogether ==
  \A n \in stopped, m \in Nodes : pc[m] <= pc[n]

(***************************************************************************)
(* No message outlives its gather: when every node has finished the        *)
(* program with all tags waited for, nothing is left in the network.       *)
(***************************************************************************)
NothingLeft ==
  (\A n \in Nodes : /\ pc[n] = Len(prog)
                    /\ \A t \in Tags : loc[n].phase[t] /= "started") =>
    \A s, d \in Nodes, id \in Ids : net[s][d][id] = <<>>

(***************************************************************************)
(* A started gather completes: every receive gets a message and every send *)
(* is done, even if MPI buffers nothing, since a node posts all receives   *)
(* and starts all sends of a gather before it waits for any.  It is up to  *)
(* the slower nodes only, and nothing can hold them up for ever: whenever  *)
(* a gather is under way, there comes a time when none is (programs are of *)
(* bounded length).                                                        *)
(***************************************************************************)
UnderWay(n, t) ==
  /\ loc[n].phase[t] = "started"
  /\ (\E i \in DOMAIN recvs[n][t] : recvs[n][t][i] = NoMsg) \/ unsent[n][t] /= {}

GatherCompletes ==
  (\E n \in Nodes, t \in Tags : UnderWay(n, t))
    ~> (\A n \in Nodes, t \in Tags : ~UnderWay(n, t))

(***************************************************************************)
(* The runtime implements GatherPromise: the abstract job of a tag is read *)
(* off the tables, and data counts as delivered once wait_gather returned. *)
(***************************************************************************)
AbstractJob(n, t) ==
  LET ph == loc[n].phase[t] IN
    [phase |-> IF ph \in {"declared", "prepared"} THEN "ready" ELSE ph,
     g     |-> IF ph = "none" THEN InitTables.g[t] ELSE loc[n].g[t],
     at    |-> IF ph \in {"started", "done"} THEN StartedAt(n, t) ELSE 0,
     got   |-> IF ph = "done" THEN recvs[n][t] ELSE <<>>]

Promise == INSTANCE GatherPromise WITH
  prog <- [p \in DOMAIN prog |-> prog[p].call],
  job  <- [n \in Nodes |-> [t \in Tags |-> AbstractJob(n, t)]]

KeepsPromise == Promise!Spec

(* If one node stops, all of them do, and terminate() passes its barrier.  *)
AllStop == (stopped /= {}) ~> (stopped = Nodes)
=============================================================================
