---------------------------- MODULE GatherTables ----------------------------
(***************************************************************************)
(* make_gather of generic/com_mpi.c: from a one-to-one map of the lattice  *)
(* every node works out, by itself, which of its sites get data from which *)
(* node (neighborlist), which of its sites other nodes need                *)
(* (neighborlist_send) and, by one round of messages and one global        *)
(* maximum, the message ids to use.  No node ever sees the lists of        *)
(* another one; data arrives at the right site only because the k-th site  *)
(* of the list of the receiver and of that of the sender belong together.  *)
(*                                                                         *)
(* A site is a point of a set; a layout gives its node, its index there    *)
(* and its parity.  Coordinates and the running out of memory are left     *)
(* out, and so is the 32-sublattice build.                                 *)
(***************************************************************************)
EXTENDS Integers, Sequences, FiniteSets, SequencesExt

CONSTANTS
  Nodes,     \* 0 .. numnodes()-1
  Sites,     \* the sites of the lattice
  NodeOf,    \* NodeOf[x]: node_number
  IndexOf,   \* IndexOf[x]: node_index, from 0
  ParityOf,  \* ParityOf[x]: parity_function, 0 or 1
  Maps,      \* the maps given to make_gather: the site whose data x gets
  Requests,  \* the arguments inverse, want_even_odd and parity_conserve
  Buffering  \* whether MPI completes an Isend before it is received

SitesOn(n) == {x \in Sites : NodeOf[x] = n}

ASSUME LayoutAssumption ==
  /\ Buffering \subseteq BOOLEAN
  /\ NodeOf \in [Sites -> Nodes] /\ ParityOf \in [Sites -> {0, 1}]
  /\ \A n \in Nodes :
       {IndexOf[x] : x \in SitesOn(n)} = 0 .. Cardinality(SitesOn(n)) - 1

(* "At the moment, only one-to-one (invertible) mappings are supported."   *)
ASSUME MapsAssumption ==
  \A f \in Maps : f \in [Sites -> Sites] /\ \A x \in Sites : \E y \in Sites : f[y] = x

Parities == {0, 1, 2}    \* EVEN, ODD and EVENANDODD (NUM_SUBL)
NOWHERE  == -1

VARIABLES
  eager,   \* this MPI buffers messages
  map,     \* the map of this call of make_gather
  req,     \* and its other arguments
  at,      \* at[n]: where node n is in make_gather
  cur,     \* cur[n]: 1 for the gather, 2 for its inverse
  gather,  \* gather[n][dir]: the entry of gather_array
  idmsg    \* idmsg[s][d]: ids on the way from s to d, message type 0

vars == <<eager, map, req, at, cur, gather, idmsg>>

-----------------------------------------------------------------------------
Inv == [f \in Maps |-> [x \in Sites |-> CHOOSE y \in Sites : f[y] = x]]

(* func(..., forw_back, ...)                                               *)
Func(fb) == IF fb = "FORWARDS" THEN map ELSE Inv[map]
Minus(fb) == IF fb = "FORWARDS" THEN "BACKWARDS" ELSE "FORWARDS"

Other(sr, fb) == IF sr = "RECEIVE" THEN Func(fb) ELSE Func(Minus(fb))

ReceiverParity(sr, fb, x) ==
  IF req.eo = "NO_EVEN_ODD" THEN 0
  ELSE IF sr = "RECEIVE" THEN ParityOf[x] ELSE ParityOf[Other(sr, fb)[x]]

SiteListUnsorted(n, j, subl, sr, fb) ==   \* variant: no sort_site_list
  SetToSortSeq({x \in SitesOn(n) : /\ NodeOf[Other(sr, fb)[x]] = j
                                   /\ ReceiverParity(sr, fb, x) = subl},
               LAMBDA x, y : IndexOf[x] < IndexOf[y])

(***************************************************************************)
(* The list of the sites of node n connected with node j for the receivers *)
(* of sublattice subl, see make_send_receive_list.  It follows the order   *)
(* of the sites on the node with the lower number: the sites are found in  *)
(* order, and sorted by the index of the other site when j is lower.       *)
(***************************************************************************)
SiteList(n, j, subl, sr, fb) ==
  LET other == Other(sr, fb)
      key(x) == IF j > n THEN IndexOf[x] ELSE IndexOf[other[x]]
  IN  SetToSortSeq({x \in SitesOn(n) : /\ NodeOf[other[x]] = j
                                       /\ ReceiverParity(sr, fb, x) = subl},
                   LAMBDA x, y : key(x) < key(y))

(* The lists of all sublattices follow each other in one buffer.           *)
Comlink(n, j, sr, fb) ==
  LET even == SiteList(n, j, 0, sr, fb)
      odd  == SiteList(n, j, 1, sr, fb)
  IN  [othernode |-> j, sitelist |-> <<even, odd, even \o odd>>]

List(link, subl) == link.sitelist[subl + 1]

MakeSendReceiveList(n, sr, fb) ==
  LET connected == {j \in Nodes \ {n} :
                      \E x \in SitesOn(n) : NodeOf[Other(sr, fb)[x]] = j}
      order == SetToSortSeq(connected, LAMBDA i, j : i < j)
  IN  [k \in DOMAIN order |-> Comlink(n, order[k], sr, fb)]

(* send_subl[r]: the parity of the senders of the receivers of parity r    *)
(* on this node, all of one parity when make_gather uses it.               *)
SendSubl(n, r) ==
  LET senders == {ParityOf[map[x]] : x \in {y \in SitesOn(n) : ParityOf[y] = r}}
  IN  IF senders = {} THEN NOWHERE ELSE CHOOSE p \in senders : TRUE

(* copy_list_switch: the lists of the two parities change places, the list *)
(* of all sites stays as it is.                                            *)
CopyListSwitch(n, links) ==
  [k \in DOMAIN links |->
    [links[k] EXCEPT !.sitelist =
      [p \in 1 .. 3 |-> IF p = 3 THEN @[3]
                        ELSE @[1 + CHOOSE r \in {0, 1} : SendSubl(n, r) = p - 1]]]]

Neighbor(n, fb) ==
  [i \in 0 .. Cardinality(SitesOn(n)) - 1 |->
     LET x == CHOOSE y \in SitesOn(n) : IndexOf[y] = i
         y == Func(fb)[x]
     IN  IF NodeOf[y] = n THEN IndexOf[y] ELSE NOWHERE]

Entry(neighbor, recv, send) ==
  [neighbor |-> neighbor, recv |-> recv, send |-> send,
   id_list |-> <<>>, offset_increment |-> 0]

-----------------------------------------------------------------------------
(* What make_gather finds wrong with the map, looking at its own sites.    *)
Refused(n) ==
  /\ req.parity /= "SCRAMBLE_PARITY"
  /\ \E x \in SitesOn(n) :
       \/ /\ req.eo = "ALLOW_EVEN_ODD"
          /\ \E y \in SitesOn(n) : /\ ParityOf[y] = ParityOf[x]
                                   /\ ParityOf[map[y]] /= ParityOf[map[x]]
       \/ req.parity = "SAME_PARITY" /\ ParityOf[map[x]] /= ParityOf[x]
       \/ req.parity = "SWITCH_PARITY" /\ ParityOf[map[x]] = ParityOf[x]
       \/ req.inverse = "OWN_INVERSE" /\ map[map[x]] /= x

(* The gather and the send list make_gather chooses for it.                *)
FirstEntry(n) ==
  LET recv == MakeSendReceiveList(n, "RECEIVE", "FORWARDS")
      reuse == /\ req.inverse = "OWN_INVERSE"
               /\ \/ req.eo /= "ALLOW_EVEN_ODD"
                  \/ req.parity /= "SCRAMBLE_PARITY"
      send == IF ~reuse THEN MakeSendReceiveList(n, "SEND", "FORWARDS")
              ELSE IF \/ req.eo = "NO_EVEN_ODD" \/ req.parity = "SAME_PARITY"
              THEN recv ELSE CopyListSwitch(n, recv)
  IN  Entry(Neighbor(n, "FORWARDS"), recv, send)

(* The inverse gather: the same lists with the two ends changed, if the    *)
(* sublattices allow.                                                      *)
InverseEntry(n) ==
  LET first == gather[n][1]
      neighbor == Neighbor(n, "BACKWARDS")
  IN  IF req.parity = "SAME_PARITY" \/ req.eo = "NO_EVEN_ODD"
      THEN Entry(neighbor, first.send, first.recv)
      ELSE IF req.parity = "SWITCH_PARITY"
      THEN Entry(neighbor, CopyListSwitch(n, first.send),
                           CopyListSwitch(n, first.recv))
      ELSE Entry(neighbor, MakeSendReceiveList(n, "RECEIVE", "BACKWARDS"),
                           MakeSendReceiveList(n, "SEND", "BACKWARDS"))

SendIdsFirstOnly(n, recv) ==   \* variant: none sent for the inverse gather
  IF at[n] = "max" THEN UNCHANGED idmsg
  ELSE idmsg' = [idmsg EXCEPT ![n] =
    [d \in Nodes |->
       idmsg[n][d] \o SelectSeq([k \in DOMAIN recv |-> k - 1],
                               LAMBDA i : recv[i + 1].othernode = d)]]

(* make_id_list starts one send for each node of the receive list, with    *)
(* the place of that node in the list.                                     *)
SendIds(n, recv) ==
  idmsg' = [idmsg EXCEPT ![n] =
    [d \in Nodes |->
       idmsg[n][d] \o SelectSeq([k \in DOMAIN recv |-> k - 1],
                               LAMBDA i : recv[i + 1].othernode = d)]]

BeginGather(n) ==
  /\ at[n] = "begin"
  /\ \/ /\ Refused(n)
        /\ at' = [at EXCEPT ![n] = "stopped"]
        /\ UNCHANGED <<eager, map, req, cur, gather, idmsg>>
     \/ /\ ~Refused(n)
        /\ at' = [at EXCEPT ![n] = "ids"]
        /\ LET first == FirstEntry(n)
           IN  /\ gather' = [gather EXCEPT ![n] = <<first>>]
               /\ SendIds(n, first.recv)
        /\ UNCHANGED <<eager, map, req, cur>>

Now(n) == gather[n][cur[n]]

(* The rest of make_id_list: a blocking receive for each node of the send  *)
(* list, in the order of the list.                                         *)
ReceiveId(n) ==
  LET k == Len(Now(n).id_list) + 1
      s == Now(n).send[k].othernode
  IN  /\ at[n] = "ids"
      /\ k <= Len(Now(n).send)
      /\ idmsg[s][n] /= <<>>
      /\ gather' = [gather EXCEPT ![n][cur[n]].id_list =
                                    Append(@, Head(idmsg[s][n]))]
      /\ idmsg' = [idmsg EXCEPT ![s][n] = Tail(@)]
      /\ UNCHANGED <<eager, map, req, at, cur>>

EnterMaxEarly(n) ==   \* variant: the id of the last send is not received
  /\ at[n] = "ids"
  /\ Len(Now(n).id_list) >= Len(Now(n).send) - 1
  /\ at' = [at EXCEPT ![n] = "max"]
  /\ UNCHANGED <<eager, map, req, cur, gather, idmsg>>

(* Then it waits for its own sends, which an eager MPI has completed at    *)
(* once, and goes into the MPI_Allreduce of get_max_receives.              *)
EnterMax(n) ==
  /\ at[n] = "ids"
  /\ Len(Now(n).id_list) = Len(Now(n).send)
  /\ eager \/ \A d \in Nodes : idmsg[n][d] = <<>>
  /\ at' = [at EXCEPT ![n] = "max"]
  /\ UNCHANGED <<eager, map, req, cur, gather, idmsg>>

MaxReceives(d) ==
  LET lengths == {Len(gather[n][d].recv) : n \in Nodes}
  IN  CHOOSE m \in lengths : \A l \in lengths : l <= m

(* The Allreduce gives every node the maximum once all have come; the node *)
(* returns, or goes on to make the inverse gather.                         *)
LeaveMax(n) ==
  /\ at[n] = "max"
  /\ \A m \in Nodes : \/ cur[m] > cur[n]
                      \/ cur[m] = cur[n] /\ at[m] \in {"max", "done"}
  /\ LET g == [gather EXCEPT ![n][cur[n]].offset_increment = MaxReceives(cur[n])]
     IN  IF req.inverse = "WANT_INVERSE" /\ cur[n] = 1
         THEN /\ at' = [at EXCEPT ![n] = "ids"]
              /\ cur' = [cur EXCEPT ![n] = 2]
              /\ LET inverse == InverseEntry(n)
                 IN  /\ gather' = [g EXCEPT ![n] = Append(@, inverse)]
                     /\ SendIds(n, inverse.recv)
         ELSE /\ at' = [at EXCEPT ![n] = "done"]
              /\ gather' = g
              /\ UNCHANGED <<cur, idmsg>>
  /\ UNCHANGED <<eager, map, req>>

-----------------------------------------------------------------------------
Init ==
  /\ eager \in Buffering
  /\ map \in Maps
  /\ req \in Requests
  /\ at = [n \in Nodes |-> "begin"]
  /\ cur = [n \in Nodes |-> 1]
  /\ gather = [n \in Nodes |-> <<>>]
  /\ idmsg = [s \in Nodes |-> [d \in Nodes |-> <<>>]]

Step(n) == BeginGather(n) \/ ReceiveId(n) \/ EnterMax(n) \/ LeaveMax(n)

Next == \E n \in Nodes : Step(n)

(* The nodes run as long as one of them can.  That is enough, for every    *)
(* step brings make_gather nearer to its end.                              *)
Spec     == Init /\ [][Next]_vars
FairSpec == Spec /\ WF_vars(Next)

-----------------------------------------------------------------------------
TypeOK ==
  /\ eager \in Buffering
  /\ map \in Maps /\ req \in Requests
  /\ at \in [Nodes -> {"begin", "ids", "max", "done", "stopped"}]
  /\ cur \in [Nodes -> {1, 2}]
  /\ \A n \in Nodes : Len(gather[n]) <= 2
  /\ idmsg \in [Nodes -> [Nodes -> Seq(0 .. Cardinality(Nodes) - 2)]]

AllDone == \A n \in Nodes : at[n] = "done"

(* The sites a gather of this parity can be asked for.                     *)
Asked(p) == {x \in Sites : p \in {2, ParityOf[x]}}
Allowed  == IF req.eo = "NO_EVEN_ODD" THEN {2} ELSE Parities

(* The sites whose data site x gets from gather dir: by its pointer, or    *)
(* from the same place of the message its node gets.                       *)
Got(dir, p, x) ==
  LET n == NodeOf[x]
      here == gather[n][dir].neighbor[IndexOf[x]]
      links(m) == gather[m][dir]
  IN  (IF here = NOWHERE THEN {}
       ELSE {y \in SitesOn(n) : IndexOf[y] = here})
      \union
      UNION {{List(s, p)[k] :
                k \in {i \in DOMAIN List(r, p) :
                         List(r, p)[i] = x /\ i \in DOMAIN List(s, p)}} :
             <<r, s>> \in {<<a, b>> \in
                UNION {{<<links(n).recv[i], links(m).send[j]>> :
                          i \in DOMAIN links(n).recv, j \in DOMAIN links(m).send}
                       : m \in Nodes} :
                  b.othernode = n /\ a.othernode = NodeOf[List(b, 2)[1]]}}

(***************************************************************************)
(* A gather through the finished tables brings every site asked for the    *)
(* data of exactly one site, the one the map names: so the lists of sender *)
(* and receiver agree on every pair of nodes, in every sublattice.         *)
(***************************************************************************)
MapFetched ==
  AllDone =>
    \A dir \in DOMAIN gather[CHOOSE n \in Nodes : TRUE], p \in Allowed :
      \A x \in Asked(p) :
        Got(dir, p, x) = {Func(IF dir = 1 THEN "FORWARDS" ELSE "BACKWARDS")[x]}

(***************************************************************************)
(* The ids agree: the id a node uses for a send is the place of that node  *)
(* in the receive list of the other one, and every node reserves as many   *)
(* ids as the longest receive list needs.  The runtime (Gather) relies on  *)
(* exactly this.                                                           *)
(***************************************************************************)
IdsPaired ==
  AllDone =>
    \A n \in Nodes : \A dir \in DOMAIN gather[n] :
      LET g == gather[n][dir] IN
        /\ Len(g.recv) <= g.offset_increment
        /\ \A m \in Nodes :
             gather[m][dir].offset_increment = g.offset_increment
        /\ Len(g.id_list) = Len(g.send)
        /\ \A k \in DOMAIN g.send :
             LET other == gather[g.send[k].othernode][dir].recv
             IN  /\ g.id_list[k] + 1 \in DOMAIN other
                 /\ other[g.id_list[k] + 1].othernode = n

(***************************************************************************)
(* What prepare_gather and do_gather rely on: every exchange of ids        *)
(* between two nodes leaves the same id at both ends of a message, below   *)
(* the number of ids the gather reserves, and stays within the types while *)
(* it goes on.                                                             *)
(***************************************************************************)
IdsAgree == TypeOK /\ IdsPaired

(***************************************************************************)
(* Every node returns from make_gather, unless one refused the map: the    *)
(* exchange of ids and the global maximum, for the gather and then for its *)
(* inverse, never leave a node waiting.                                    *)
(***************************************************************************)
MakeGatherReturns ==
  <>(AllDone \/ \E n \in Nodes : at[n] = "stopped")

(***************************************************************************)
(* "terminate() halts program abruptly and exits", "kill all nodes": when  *)
(* one node gives up, the others do not go on waiting for it.              *)
(***************************************************************************)
TerminateEnds ==
  (\E n \in Nodes : at[n] = "stopped") ~> (\A n \in Nodes : at[n] = "stopped")

=============================================================================
