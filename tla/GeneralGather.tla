----------------------------- MODULE GeneralGather -----------------------------
(***************************************************************************)
(* The general gather of generic/com_mpi.c: a gather by an arbitrary       *)
(* displacement, with no tables made beforehand.  Every node works out     *)
(* from the layout to whom it sends and from whom it receives.  All the    *)
(* messages of all general gathers carry the same MPI tag, and what        *)
(* wait_general_gather needs of its start (tdest, from_nodes) is kept in   *)
(* static variables, one copy for each node.                               *)
(*                                                                         *)
(* The lattice is cut down to one direction; the three others, treated in  *)
(* the same lines, have displacement 0.  The data of a site is its origin: *)
(* the site and the call that gathers it (every call gathers a field of    *)
(* its own).  Sizes and addresses are left out.  The program is not fixed: *)
(* the node that is furthest on chooses the next call, the others follow.  *)
(*                                                                         *)
(* Definitions marked "variant" are the code with one plausible mistake.   *)
(***************************************************************************)
EXTENDS Integers, Sequences, SequencesExt, FiniteSets

CONSTANTS
  Nodes,         \* the ranks of MPI_COMM_THISJOB
  nx,            \* size of the lattice
  NodeNumber,    \* NodeNumber[x]: node_number
  NodeIndex,     \* NodeIndex[x]: node_index
  Displacements, \* the displacements the program uses
  Parities,      \* the parities it asks for
  Tags,          \* its msg_tag pointers, each with a vector of pointers
  Buffering,     \* kinds of MPI, see eager
  MaxCalls       \* bound: length of the program

Coords == 0 .. nx - 1
Sites(n) == {x \in Coords : NodeNumber[x] = n}

(* Staggered lattices have even dimensions (generic_ks/rephase.c:9), and   *)
(* (x + d + nx) % nx is a coordinate if d is not below -nx.                *)
ASSUME LatticeAssumption ==
  /\ nx \in Nat \ {0} /\ nx % 2 = 0
  /\ NodeNumber \in [Coords -> Nodes]
  /\ \A n \in Nodes : {NodeIndex[x] : x \in Sites(n)} =
                      0 .. Cardinality(Sites(n)) - 1
  /\ Displacements \subseteq -nx .. nx
ASSUME ProgramAssumption ==
  /\ Parities \subseteq {"even", "odd", "all"}
  /\ MaxCalls \in Nat /\ Buffering \subseteq BOOLEAN

VARIABLES
  eager,   \* this MPI completes a send before it is matched
  prog,    \* the calls made so far by the node that is furthest on
  pc,      \* pc[n]: how many calls node n has made
  stopped, \* the nodes inside terminate()
  static,  \* static[n]: g_gather_flag, tdest and from_nodes of node n
  mtag,    \* mtag[n][t]: the msg_tag, with the state of its requests
  dest,    \* dest[n][t]: the vector of pointers
  net      \* net[s][d]: messages from s to d, in order

vars == <<eager, prog, pc, stopped, static, mtag, dest, net>>

-----------------------------------------------------------------------------
(* Who gets what from whom.                                                *)

OfParity(x, p) == p = "all" \/ (p = "even") = (x % 2 = 0)

(* tx = (s->x + displacement + nx) % nx                                    *)
Shift(x, d) == (x + d + nx) % nx

(* The parity of the sites that may be sent.                               *)
SendParity(p, d) ==
  IF p = "all" \/ d % 2 = 0 THEN p
  ELSE IF p = "even" THEN "odd" ELSE "even"

(* The sites of node n in the order of the loop over sites.                *)
SiteAt(n, i) == CHOOSE x \in Sites(n) : NodeIndex[x] = i

InOrder == [n \in Nodes, p \in {"even", "odd", "all"} |->
  SelectSeq([i \in 1 .. Cardinality(Sites(n)) |-> SiteAt(n, i - 1)],
            LAMBDA x : OfParity(x, p))]
SitesInOrder(n, p) == InOrder[n, p]

(* The other nodes met when the loop looks at the nodes of these sites, in *)
(* the order of first meeting, with how often: to_nodes and from_nodes.    *)
Met(n, sites) ==
  SelectSeq([i \in DOMAIN sites |-> NodeNumber[sites[i]]], LAMBDA m : m /= n)

MetOnce(n, sites) ==
  FoldLeft(LAMBDA list, m : IF m \in ToSet(list) THEN list ELSE Append(list, m),
           <<>>, Met(n, sites))

Others(n, sites) ==
  LET nodes == MetOnce(n, sites) IN
  [i \in DOMAIN nodes |->
     [node  |-> nodes[i],
      count |-> Len(SelectSeq(Met(n, sites), LAMBDA m : m = nodes[i]))]]

(* The lists of node n for sites of a parity that are d away from another  *)
(* node's.                                                                 *)
OthersAway == [n \in Nodes, p \in {"even", "odd", "all"},
               d \in Displacements \union {0 - e : e \in Displacements} |->
  Others(n, [i \in DOMAIN InOrder[n, p] |-> Shift(InOrder[n, p][i], d)])]

FromNodesOfAll(n, c) ==   \* variant: loops over all sites
  OthersAway[n, "all", c.disp]

FromNodes(n, c) == OthersAway[n, c.parity, c.disp]

ToNodesAllButLast(n, c) ==   \* variant: i<n_send-1
  LET to == OthersAway[n, SendParity(c.parity, c.disp), 0 - c.disp]
  IN  SubSeq(to, 1, Len(to) - 1)

ToNodes(n, c) == OthersAway[n, SendParity(c.parity, c.disp), 0 - c.disp]

(* The message of the call number k to node m: each entry is the index of  *)
(* the site the data goes to, then the data.                               *)
PackedFromIndex(n, c, k, m) ==   \* variant: the index of the sender's own site
  LET sites == SelectSeq(SitesInOrder(n, SendParity(c.parity, c.disp)),
                         LAMBDA x : NodeNumber[Shift(x, -c.disp)] = m)
  IN  [i \in DOMAIN sites |->
         [index |-> NodeIndex[sites[i]], data |-> <<k, sites[i]>>]]

Packed(n, c, k, m) ==
  LET sites == SelectSeq(SitesInOrder(n, SendParity(c.parity, c.disp)),
                         LAMBDA x : NodeNumber[Shift(x, -c.disp)] = m)
  IN  [i \in DOMAIN sites |->
         [index |-> NodeIndex[Shift(sites[i], -c.disp)],
          data  |-> <<k, sites[i]>>]]

-----------------------------------------------------------------------------
Indices(n) == {NodeIndex[x] : x \in Sites(n)}

NoTag == [phase |-> "none", call |-> 0, got |-> <<>>, unsent |-> {}]
NoMsg == <<>>     \* a receive whose message has not come

(* A pointer: nowhere, to a site of the node's own field, or to entry j of *)
(* the buffer of receive i of tag t.                                       *)
Nowhere == [to |-> "nowhere"]
OwnSite(k, x) == [to |-> "site", call |-> k, x |-> x]
InBuffer(t, i, j) == [to |-> "buffer", tag |-> t, recv |-> i, entry |-> j]

Call == [op : {"start"}, tag : Tags, disp : Displacements, parity : Parities]
  \union [op : {"wait", "cleanup"}, tag : Tags, disp : {0}, parity : {"all"}]

(* One start for each wait, and no tag used again before it is freed.  The *)
(* program may try to start a second gather while one is in progress.      *)
Legal(n, c) ==
  mtag[n][c.tag].phase = CASE c.op = "start"   -> "none"
                           [] c.op = "wait"    -> "started"
                           [] c.op = "cleanup" -> "done"

NextCall(n) ==
  IF n \in stopped THEN {}
  ELSE IF pc[n] < Len(prog) THEN {prog[pc[n] + 1]}
  ELSE IF Len(prog) = MaxCalls THEN {}
  ELSE {c \in Call : Legal(n, c)}

Record(n, c) ==
  prog' = IF pc[n] = Len(prog) THEN Append(prog, c) ELSE prog

Complete(n, c) == Record(n, c) /\ pc' = [pc EXCEPT ![n] = @ + 1]

-----------------------------------------------------------------------------
(* "two general_gathers() at once": terminate(1) and its barrier.          *)
RefuseStart(n) ==
  \E c \in NextCall(n) :
    /\ c.op = "start"
    /\ static[n].flag
    /\ Record(n, c)
    /\ stopped' = stopped \union {n}
    /\ UNCHANGED <<eager, pc, static, mtag, dest, net>>

(* start_general_strided_gather: pointers to neighbors on the node, a      *)
(* receive for every node in from_nodes, a send for every one in to_nodes. *)
StartGeneralGather(n) ==
  \E c \in NextCall(n) :
    LET k    == pc[n] + 1
        from == FromNodes(n, c)
        to   == ToNodes(n, c)
    IN  /\ c.op = "start"
        /\ ~static[n].flag
        /\ Complete(n, c)
        /\ static' = [static EXCEPT ![n] =
             [flag |-> TRUE, tdest |-> c.tag, from |-> from]]
        /\ dest' = [dest EXCEPT ![n][c.tag] =
             [i \in DOMAIN @ |->
                LET x == SiteAt(n, i)
                    y == Shift(x, c.disp)
                IN  IF OfParity(x, c.parity) /\ NodeNumber[y] = n
                    THEN OwnSite(k, y) ELSE @[i]]]
        /\ mtag' = [mtag EXCEPT ![n][c.tag] =
             [phase  |-> "started", call |-> k,
              got    |-> [i \in DOMAIN from |-> NoMsg],
              unsent |-> IF eager THEN {}
                         ELSE {to[i].node : i \in DOMAIN to}]]
        /\ net' = [net EXCEPT ![n] = [m \in Nodes |->
             IF \E i \in DOMAIN to : to[i].node = m
             THEN Append(@[m], [tag |-> c.tag, entries |-> Packed(n, c, k, m)])
             ELSE @[m]]]
        /\ UNCHANGED <<eager, stopped>>

(* MPI: the oldest message from s goes to the pending receive of d from s. *)
(* There is at most one, since d waits for a gather before the next.       *)
Match(s, d) ==
  \E t \in Tags :
    \E i \in DOMAIN mtag[d][t].got :
      /\ mtag[d][t].phase = "started"
      /\ static[d].from[i].node = s
      /\ mtag[d][t].got[i] = NoMsg
      /\ net[s][d] /= <<>>
      /\ LET m == Head(net[s][d]) IN
           mtag' = [mtag EXCEPT ![d][t].got[i] = m.entries,
                                ![s][m.tag].unsent = @ \ {d}]
      /\ net' = [net EXCEPT ![s][d] = Tail(@)]
      /\ UNCHANGED <<eager, prog, pc, stopped, static, dest>>

(* The pointers wait_general_gather sets: the site named by every entry    *)
(* of every receive points to that entry.                                  *)

Placed(n, got, t) ==
  LET entries == {e \in (DOMAIN got) \X (1 .. nx) :
                    e[2] <= static[n].from[e[1]].count}
  IN  [k \in {got[e[1]][e[2]].index : e \in entries} |->
         LET e == CHOOSE e \in entries : got[e[1]][e[2]].index = k
         IN  InBuffer(t, e[1], e[2])]

(* wait_general_gather: every MPI_Wait, then the pointers.                 *)
WaitFlagAtCleanup(n) ==   \* variant: g_gather_flag is left to the cleanup
  \E c \in NextCall(n) :
    LET got == mtag[n][c.tag].got IN
      /\ c.op = "wait"
      /\ \A i \in DOMAIN got : got[i] /= NoMsg
      /\ Complete(n, c)
      /\ dest' = [dest EXCEPT ![n][static[n].tdest] = Placed(n, got, c.tag) @@ @]
      /\ mtag' = [mtag EXCEPT ![n][c.tag].phase = "done"]
      /\ UNCHANGED <<eager, stopped, static, net>>

WaitGeneralGather(n) ==
  \E c \in NextCall(n) :
    LET got == mtag[n][c.tag].got IN
      /\ c.op = "wait"
      /\ \A i \in DOMAIN got : got[i] /= NoMsg
      /\ Complete(n, c)
      /\ static' = [static EXCEPT ![n].flag = FALSE]
      /\ dest' = [dest EXCEPT ![n][static[n].tdest] = Placed(n, got, c.tag) @@ @]
      /\ mtag' = [mtag EXCEPT ![n][c.tag].phase = "done"]
      /\ UNCHANGED <<eager, stopped, net>>

(* cleanup_general_gather waits for the sends, then frees everything.      *)
CleanupGeneralGather(n) ==
  \E c \in NextCall(n) :
    /\ c.op = "cleanup"
    /\ mtag[n][c.tag].unsent = {}
    /\ Complete(n, c)
    /\ mtag' = [mtag EXCEPT ![n][c.tag] = NoTag]
    /\ UNCHANGED <<eager, stopped, static, dest, net>>

-----------------------------------------------------------------------------
Init ==
  /\ eager \in Buffering
  /\ prog = <<>>
  /\ pc = [n \in Nodes |-> 0]
  /\ stopped = {}
  /\ static = [n \in Nodes |->
       [flag |-> FALSE, tdest |-> CHOOSE t \in Tags : TRUE, from |-> <<>>]]
  /\ mtag = [n \in Nodes |-> [t \in Tags |-> NoTag]]
  /\ dest = [n \in Nodes |-> [t \in Tags |-> [i \in Indices(n) |-> Nowhere]]]
  /\ net = [s \in Nodes |-> [d \in Nodes |-> <<>>]]

Step(n) ==
  \/ RefuseStart(n) \/ StartGeneralGather(n)
  \/ WaitGeneralGather(n) \/ CleanupGeneralGather(n)

Next ==
  \/ \E n \in Nodes : Step(n)
  \/ \E s, d \in Nodes : Match(s, d)

(* Every node keeps running and MPI delivers what can be delivered.        *)
Fairness ==
  /\ \A n \in Nodes : WF_vars(pc[n] < Len(prog) /\ Step(n))
  /\ \A s, d \in Nodes : WF_vars(Match(s, d))

Spec     == Init /\ [][Next]_vars
FairSpec == Spec /\ Fairness

-----------------------------------------------------------------------------
Entry == [index : Int, data : (1 .. MaxCalls) \X Coords]
Pointers(n) == {Nowhere}
  \union {OwnSite(k, x) : k \in 1 .. MaxCalls, x \in Sites(n)}
  \union [to : {"buffer"}, tag : Tags, recv : 1 .. nx, entry : 1 .. nx]

(* The type invariant.                                                     *)
TypeOK ==
  /\ eager \in Buffering
  /\ prog \in Seq(Call) /\ Len(prog) <= MaxCalls
  /\ pc \in [Nodes -> 0 .. Len(prog)]
  /\ stopped \subseteq Nodes
  /\ static \in [Nodes -> [flag : BOOLEAN, tdest : Tags,
                           from : Seq([node : Nodes, count : 1 .. nx])]]
  /\ mtag \in [Nodes -> [Tags ->
       [phase : {"none", "started", "done"}, call : 0 .. MaxCalls,
        got : Seq(Seq(Entry)), unsent : SUBSET Nodes]]]
  /\ \A n \in Nodes : dest[n] \in [Tags -> [Indices(n) -> Pointers(n)]]
  /\ net \in [Nodes -> [Nodes -> Seq([tag : Tags, entries : Seq(Entry)])]]

(***************************************************************************)
(* After wait_general_gather, and until its cleanup, the pointer of every  *)
(* site of the parity asked for leads to the field of that very call at    *)
(* the site displaced, even if a second gather was started meanwhile (by   *)
(* doc/milcv6.texi:1574 the first need not be cleaned up before), other    *)
(* nodes are gathers ahead or behind, and all messages look alike to MPI.  *)
(***************************************************************************)
Deref(n, p) == IF p.to = "site" THEN <<p.call, p.x>>
               ELSE mtag[n][p.tag].got[p.recv][p.entry].data

FetchesDisplaced ==
  \A n \in Nodes, t \in Tags : mtag[n][t].phase = "done" =>
    LET c == prog[mtag[n][t].call] IN
      \A x \in Sites(n) : OfParity(x, c.parity) =>
        LET p == dest[n][t][NodeIndex[x]] IN
          /\ p /= Nowhere
          /\ Deref(n, p) = <<mtag[n][t].call, Shift(x, c.disp)>>

(***************************************************************************)
(* A message is as long as the receive it is matched with: the two nodes   *)
(* count the same sites, one looking up the displacement from the sites of *)
(* the parity, the other one looking back from those of the send parity.   *)
(***************************************************************************)
CountsAgree ==
  \A n \in Nodes, t \in Tags : mtag[n][t].phase = "started" =>
    \A i \in DOMAIN mtag[n][t].got :
      mtag[n][t].got[i] /= NoMsg =>
        Len(mtag[n][t].got[i]) = static[n].from[i].count

(***************************************************************************)
(* A program that starts a second gather before it waited for the first is *)
(* stopped, on all nodes at the same call; one that keeps to the rule is   *)
(* never stopped.                                                          *)
(***************************************************************************)
InProgress(k) ==
  Cardinality({p \in 1 .. k : prog[p].op = "start"}) >
  Cardinality({p \in 1 .. k : prog[p].op = "wait"})

RefusedTogether ==
  /\ \A n \in stopped, m \in Nodes : pc[m] <= pc[n]
  /\ \A n \in stopped : prog[pc[n] + 1].op = "start" /\ InProgress(pc[n])
  /\ \A n \in Nodes : \A k \in 1 .. pc[n] :
       prog[k].op = "start" => ~InProgress(k - 1)

(***************************************************************************)
(* Every gather that is started can be waited for and cleaned up: messages *)
(* come for all receives, and somebody takes every message sent, even if   *)
(* MPI buffers nothing and the parities of the two ends differ.  Whenever  *)
(* a gather is under way there comes a time when none is (programs are of  *)
(* bounded length).                                                        *)
(***************************************************************************)
UnderWay(n, t) ==
  /\ mtag[n][t].phase = "started"
  /\ mtag[n][t].unsent /= {} \/ NoMsg \in ToSet(mtag[n][t].got)

GatherCompletes ==
  (\E n \in Nodes, t \in Tags : UnderWay(n, t))
    ~> (\A n \in Nodes, t \in Tags : ~UnderWay(n, t))

(* When all nodes have done the whole program and nothing is in progress,  *)
(* nothing is left in the network.                                         *)
NothingLeft ==
  (\A n \in Nodes : pc[n] = Len(prog) /\ ~static[n].flag) =>
    \A s, d \in Nodes : net[s][d] = <<>>

(***************************************************************************)
(* Both ends of each message count its sites alike, whatever the           *)
(* displacement and parity, and once every node has done the program and   *)
(* nothing is in progress no message is left.                              *)
(***************************************************************************)
MessagesMatch == TypeOK /\ CountsAgree /\ NothingLeft

=============================================================================
