----------------------------- MODULE AccumGather -----------------------------
(***************************************************************************)
(* How generic/com_mpi.c turns gathers into messages and pointers:         *)
(* declare_strided_gather makes a msg_tag from the tables of make_gather,  *)
(* accumulate_gather joins several msg_tags into one that sends a single   *)
(* message to each node, prepare_gather points the caller's vectors into   *)
(* the message buffers, do_gather packs and sends.  Both ends of a message *)
(* lay it out on their own.                                                *)
(*                                                                         *)
(* All nodes make a call at once here: the order in which nodes run and    *)
(* messages travel, and the taking of ids, are the business of Gather.     *)
(* A do_gather and its wait_gather are one step for the same reason.  All  *)
(* fields have the same size, so that an address in a buffer is a number;  *)
(* a datum is the site it comes from and the version of the field.         *)
(***************************************************************************)
EXTENDS Integers, Sequences, FiniteSets, SequencesExt

CONSTANTS
  Nodes, Sites, NodeOf,
  ParityOf,     \* ParityOf[x]: 0 or 1
  GatherIndex,  \* gathers made by make_gather
  Map,          \* Map[g][x]: the site whose data x gets
  RecvList,     \* RecvList[g][n]: neighborlist, see Comlink in GatherTables
  SendList,     \* SendList[g][n]: neighborlist_send
  SendId,       \* SendId[g][n]: id_list
  OffsetIncrement,
  Dests,        \* the vectors of pointers of the program
  Tags,         \* its msg_tag pointers
  Ops,          \* the calls it uses
  UsesJoined,   \* it uses a tag alone that it has joined to another one
  Sublattices,  \* and the parities: 0 even, 1 odd, 2 EVENANDODD
  MaxVersion    \* bound: how often it changes the field

ASSUME BoundAssumption == MaxVersion \in Nat /\ UsesJoined \in BOOLEAN
ASSUME GatherAssumption ==
  \A g \in GatherIndex : Map[g] \in [Sites -> Sites]

VARIABLES
  tag,   \* the msg_tags of all nodes
  dest,  \* dest[d][x]: the pointer at site x
  buf,   \* buf[t][n][i]: msg_buf of the i-th receive of t on node n
  ver,   \* the version of the field
  last,  \* last[d]: the tag whose data is in d
  aimed  \* aimed[d]: the tag that was prepared last of those with d

vars == <<tag, dest, buf, ver, last, aimed>>

Null == [at |-> "null"]
Hole == [node |-> -1, off |-> 0, gmem |-> <<>>]  \* malloc'd, never written
Junk == [site |-> -1, ver |-> 0]                 \* likewise
NoTag == "none"

-----------------------------------------------------------------------------
(* The message array of a declared gather: the entry of a comlink has the  *)
(* place of the comlink, comlinks with no site of the sublattice are       *)
(* skipped, and the array counts as long as there are such sites.          *)
Messages(links, subl, mem, offsets) ==
  LET used == {i \in DOMAIN links : links[i].sitelist[subl + 1] /= <<>>}
  IN  [i \in 1 .. Cardinality(used) |->
         IF i \notin used THEN Hole
         ELSE [node |-> links[i].othernode, off |-> offsets[i],
               gmem |-> <<[mem |-> mem, sites |-> links[i].sitelist[subl + 1]]>>]]

Recvs(g, subl, d, n) ==
  Messages(RecvList[g][n], subl, d, [i \in DOMAIN RecvList[g][n] |-> i - 1])
Sends(g, subl, n) == Messages(SendList[g][n], subl, "field", SendId[g][n])

Asked(p) == {x \in Sites : p \in {2, ParityOf[x]}}

(* declare_strided_gather points the sites with a neighbor on their own    *)
(* node straight to the field.                                             *)
Local(g, p, d) ==
  [dest EXCEPT ![d] = [x \in Sites |->
     IF x \in Asked(p) /\ NodeOf[Map[g][x]] = NodeOf[x]
     THEN [at |-> "field", site |-> Map[g][x]] ELSE dest[d][x]]]

Declared(g, p, d) ==
  [nids |-> OffsetIncrement[g], prepared |-> FALSE, joined |-> FALSE, at |-> 0,
   recv |-> [n \in Nodes |-> Recvs(g, p, d, n)],
   send |-> [n \in Nodes |-> Sends(g, p, n)],
   asked |-> {[g |-> g, p |-> p, d |-> d]}]  \* what the caller asked for

(* No msg_tag, and the one accumulate_gather makes when it is given none.  *)
Empty ==
  [nids |-> 0, prepared |-> FALSE, joined |-> FALSE, at |-> 0, asked |-> {},
   recv |-> [n \in Nodes |-> <<>>], send |-> [n \in Nodes |-> <<>>]]

MayUse(t) == UsesJoined \/ ~tag[t].joined
Live(t) == tag[t].asked /= {}
DestsOf(t) == {a.d : a \in tag[t].asked}

AddMsgtSameIds(to, from, nids) ==   \* variant: id_offset is not moved up
  LET same(e, f) == e.node = f.node
      old(f) == \E j \in DOMAIN to : same(to[j], f)
      merged(e) ==
        [e EXCEPT !.gmem = @ \o
           FoldSeq(LAMBDA f, parts : parts \o f.gmem, <<>>,
                   SelectSeq(from, LAMBDA f : same(e, f)))]
      new == Len(SelectSeq(from, LAMBDA f : ~old(f)))
  IN  [j \in 1 .. Len(to) + new |->
         IF j <= Len(to) THEN merged(to[j])
         ELSE IF old(from[j - Len(to)]) THEN Hole ELSE from[j - Len(to)]]

(* add_msgt: a message for a node that has one already is added to it;     *)
(* another one is written at the place it had in its own array, counted    *)
(* from the end of this one.                                               *)
AddMsgt(to, from, nids) ==
  LET same(e, f) == e.node = f.node
      old(f) == \E j \in DOMAIN to : same(to[j], f)
      merged(e) ==
        [e EXCEPT !.gmem = @ \o
           FoldSeq(LAMBDA f, parts : parts \o f.gmem, <<>>,
                   SelectSeq(from, LAMBDA f : same(e, f)))]
      new == Len(SelectSeq(from, LAMBDA f : ~old(f)))
  IN  [j \in 1 .. Len(to) + new |->
         IF j <= Len(to) THEN merged(to[j])
         ELSE IF old(from[j - Len(to)]) THEN Hole
         ELSE [from[j - Len(to)] EXCEPT !.off = @ + nids]]

JoinedWith(m, s) ==
  [m EXCEPT !.recv = [n \in Nodes |-> AddMsgt(m.recv[n], s.recv[n], m.nids)],
            !.send = [n \in Nodes |-> AddMsgt(m.send[n], s.send[n], m.nids)],
            !.nids = @ + s.nids, !.asked = @ \union s.asked]

(* Every message of the tag has been filled in; to use one that has not is *)
(* undefined, and no call is modelled then.                                *)
FilledIn(m) == \A n \in Nodes : /\ \A i \in DOMAIN m.recv[n] : m.recv[n][i] /= Hole
                                /\ \A i \in DOMAIN m.send[n] : m.send[n][i] /= Hole

-----------------------------------------------------------------------------
Size(msg) == FoldSeq(LAMBDA part, sum : sum + Len(part.sites), 0, msg.gmem)

(* Where the j-th site of a part of a message is: every part starts at tpt.*)
Offset(msg, part, j) == j

(* Where the receives of t hold site x of vector d: nowhere, or once.      *)
Places(m, n, d, x) ==
  LET in(i, part) == LET p == m.recv[n][i].gmem[part]
                     IN  {j \in DOMAIN p.sites : p.mem = d /\ p.sites[j] = x}
  IN  UNION {UNION {{<<i, part, j>> : j \in in(i, part)} :
                      part \in DOMAIN m.recv[n][i].gmem} : i \in DOMAIN m.recv[n]}

PointedAllButLast(t, m) ==   \* variant: i<mtag->nrecvs-1
  [d \in Dests |-> [x \in Sites |->
     LET places == {q \in Places(m, NodeOf[x], d, x) : q[1] < Len(m.recv[NodeOf[x]])}
         q == CHOOSE q \in places : TRUE
     IN  IF places = {} THEN dest[d][x]
         ELSE [at |-> "buffer", tag |-> t, msg |-> q[1],
               pos |-> Offset(m.recv[NodeOf[x]][q[1]], q[2], q[3])]]]

(* prepare_gather points the vectors into the receive buffers.             *)
Pointed(t, m) ==
  [d \in Dests |-> [x \in Sites |->
     LET places == Places(m, NodeOf[x], d, x)
         q == CHOOSE q \in places : TRUE
     IN  IF places = {} THEN dest[d][x]
         ELSE [at |-> "buffer", tag |-> t, msg |-> q[1],
               pos |-> Offset(m.recv[NodeOf[x]][q[1]], q[2], q[3])]]]

NewBuffers(m) ==
  [n \in Nodes |-> [i \in DOMAIN m.recv[n] |->
     [k \in 1 .. Size(m.recv[n][i]) |-> Junk]]]

(* do_gather packs one part after the other, a later part over an earlier. *)
Packed(msg) ==
  LET written(k) == {<<part, j>> \in (DOMAIN msg.gmem) \X (1 .. Size(msg)) :
                       /\ j \in DOMAIN msg.gmem[part].sites
                       /\ Offset(msg, part, j) = k}
      final(k) == CHOOSE w \in written(k) : \A v \in written(k) : v[1] <= w[1]
  IN  [k \in 1 .. Size(msg) |->
         IF written(k) = {} THEN Junk
         ELSE [site |-> msg.gmem[final(k)[1]].sites[final(k)[2]], ver |-> ver]]

(* The message with the id of the receive, from any node.                  *)
Arriving(m, n, r) ==
  {e \in UNION {{m.send[s][i] : i \in {j \in DOMAIN m.send[s] :
                                         m.send[s][j].node = n}} : s \in Nodes} :
     e.off = r.off}

-----------------------------------------------------------------------------
DeclareGather(t, g, p, d) ==
  /\ "declare" \in Ops
  /\ ~Live(t) /\ \A u \in Tags : d \notin DestsOf(u)
  /\ tag' = [tag EXCEPT ![t] = Declared(g, p, d)]
  /\ dest' = Local(g, p, d)
  /\ UNCHANGED <<buf, ver, last, aimed>>

(* accumulate_gather: t may be NULL; u stays a gather of its own, which the*)
(* program may use alone or not.                                           *)
AccumulateGather(t, u) ==
  /\ "accumulate" \in Ops
  /\ t /= u /\ Live(u) /\ FilledIn(tag[u])
  /\ DestsOf(t) \intersect DestsOf(u) = {}
  /\ Live(t) => ~tag[t].prepared /\ FilledIn(tag[t])
  /\ tag' = [tag EXCEPT ![t] = JoinedWith(tag[t], tag[u]), ![u].joined = TRUE]
  /\ UNCHANGED <<dest, buf, ver, last, aimed>>

(* declare_accumulate_gather_*: the declared gather is joined, then freed. *)
DeclareAccumulate(t, g, p, d) ==
  /\ "join" \in Ops
  /\ \A u \in Tags : d \notin DestsOf(u)
  /\ Live(t) => ~tag[t].prepared /\ FilledIn(tag[t])
  /\ LET new == Declared(g, p, d)
     IN  /\ FilledIn(new)
         /\ tag' = [tag EXCEPT ![t] = IF Live(t) THEN JoinedWith(tag[t], new) ELSE new]
  /\ dest' = Local(g, p, d)
  /\ UNCHANGED <<buf, ver, last, aimed>>

PrepareGather(t) ==
  /\ "prepare" \in Ops
  /\ Live(t) /\ MayUse(t) /\ FilledIn(tag[t]) /\ ~tag[t].prepared
  /\ tag' = [tag EXCEPT ![t].prepared = tag[t].nids /= 0]
  /\ dest' = Pointed(t, tag[t])
  /\ buf' = [buf EXCEPT ![t] = NewBuffers(tag[t])]
  /\ last' = [d \in Dests |-> IF d \in DestsOf(t) THEN NoTag ELSE last[d]]
  /\ aimed' = [d \in Dests |-> IF d \in DestsOf(t) THEN t ELSE aimed[d]]
  /\ UNCHANGED ver

(* do_gather, with prepare_gather when that was not done, and wait_gather. *)
DoAndWait(t) ==
  /\ Live(t) /\ MayUse(t) /\ FilledIn(tag[t])
  /\ LET m == tag[t]
         sent(n, i) == Arriving(m, n, m.recv[n][i])
     IN  /\ dest' = IF ~m.prepared /\ m.nids /= 0 THEN Pointed(t, m) ELSE dest
         /\ \A n \in Nodes : \A i \in DOMAIN m.recv[n] : sent(n, i) /= {}
         /\ buf' = [buf EXCEPT ![t] = [n \in Nodes |-> [i \in DOMAIN m.recv[n] |->
                      Packed(CHOOSE e \in sent(n, i) : TRUE)]]]
         /\ tag' = [tag EXCEPT ![t].prepared = m.nids /= 0, ![t].at = ver]
  /\ last' = [d \in Dests |-> IF d \in DestsOf(t) THEN t ELSE last[d]]
  /\ aimed' = [d \in Dests |-> IF ~tag[t].prepared /\ d \in DestsOf(t) THEN t
                               ELSE aimed[d]]
  /\ UNCHANGED ver

(* What led into its buffers leads nowhere.                                *)
Freed(t) ==
  [d \in Dests |-> [x \in Sites |->
     IF dest[d][x].at = "buffer" /\ dest[d][x].tag = t THEN Null ELSE dest[d][x]]]

CleanupGather(t) ==
  /\ "cleanup" \in Ops
  /\ Live(t) /\ FilledIn(tag[t])
  /\ tag' = [tag EXCEPT ![t] = Empty]
  /\ buf' = [buf EXCEPT ![t] = <<>>]
  /\ last' = [d \in Dests |-> IF last[d] = t THEN NoTag ELSE last[d]]
  /\ aimed' = [d \in Dests |-> IF aimed[d] = t THEN NoTag ELSE aimed[d]]
  /\ dest' = Freed(t)
  /\ UNCHANGED ver

(* The program changes the source field between two gathers.               *)
ModifyField ==
  /\ ver < MaxVersion
  /\ ver' = ver + 1
  /\ UNCHANGED <<tag, dest, buf, last, aimed>>

-----------------------------------------------------------------------------
Init ==
  /\ tag = [t \in Tags |-> Empty]
  /\ dest = [d \in Dests |-> [x \in Sites |-> Null]]
  /\ buf = [t \in Tags |-> <<>>]
  /\ ver = 1
  /\ last = [d \in Dests |-> NoTag]
  /\ aimed = [d \in Dests |-> NoTag]

Next ==
  \/ \E t \in Tags, g \in GatherIndex, p \in Sublattices, d \in Dests :
       DeclareGather(t, g, p, d) \/ DeclareAccumulate(t, g, p, d)
  \/ \E t, u \in Tags : AccumulateGather(t, u)
  \/ \E t \in Tags : PrepareGather(t) \/ DoAndWait(t) \/ CleanupGather(t)
  \/ ModifyField

Spec == Init /\ [][Next]_vars

-----------------------------------------------------------------------------
(* What the program finds behind its pointer.                              *)
Deref(d, x) ==
  LET p == dest[d][x]
      b == buf[p.tag][NodeOf[x]]
  IN  IF p.at = "field" THEN [site |-> p.site, ver |-> ver]
      ELSE IF p.at = "null" \/ ~Live(p.tag) THEN Junk ELSE b[p.msg][p.pos]

Entry == [node : Nodes, off : Nat,
          gmem : Seq([mem : Dests \union {"field"}, sites : Seq(Sites)])]

(* The type invariant.                                                     *)
TypeOK ==
  /\ ver \in 1 .. MaxVersion
  /\ last \in [Dests -> Tags \union {NoTag}]
  /\ aimed \in [Dests -> Tags \union {NoTag}]
  /\ \A t \in {u \in Tags : Live(u)} :
       /\ tag[t].nids \in Nat /\ tag[t].at \in 0 .. ver
       /\ \A n \in Nodes : /\ tag[t].recv[n] \in Seq(Entry \union {Hole})
                           /\ tag[t].send[n] \in Seq(Entry \union {Hole})
       /\ tag[t].prepared =>
            \A n \in Nodes : DOMAIN buf[t][n] = DOMAIN tag[t].recv[n]

\* site x of vector d has its place in a message, and a later part of the same
\* message writes to that place as well
Overwritten(m, d, x) ==
  \E place \in Places(m, NodeOf[x], d, x) :
    LET parts == m.recv[NodeOf[x]][place[1]].gmem
    IN  \E later \in DOMAIN parts : later > place[2] /\ place[3] \in DOMAIN parts[later].sites

\* what a gather promises of site x of vector d: the data of the neighbor as it
\* was when the gather was done, or as it is now if the neighbor is on the same
\* node
Fetched(d, g, x) ==
  Deref(d, x) = [site |-> Map[g][x],
                 ver  |-> IF NodeOf[Map[g][x]] = NodeOf[x] THEN ver ELSE tag[last[d]].at]

(***************************************************************************)
(* What gathers keep of their promise, alone or joined, used in any order: *)
(* after wait_gather of a tag, until the vector is used for another gather *)
(* or the tag cleaned up, the pointer at a site asked for leads to the     *)
(* data of its neighbor, if no tag with the same vector was prepared since *)
(* this one was, and if no later part of its message has taken its place.  *)
(* Without the first condition it is AloneFetches, without the second      *)
(* JoinedFetches; the code keeps neither.                                  *)
(***************************************************************************)
GatherFetches ==
  \A d \in Dests : last[d] /= NoTag /\ aimed[d] = last[d] =>
    \A a \in {b \in tag[last[d]].asked : b.d = d} : \A x \in Asked(a.p) :
      ~Overwritten(tag[last[d]], d, x) => Fetched(d, a.g, x)

(***************************************************************************)
(* "Joins declared gathers together under a single msg_tag": the joined    *)
(* gather fetches what each of them would.  Parts of one message overlap.  *)
(***************************************************************************)
JoinedFetches ==
  \A d \in Dests : last[d] /= NoTag /\ aimed[d] = last[d] =>
    \A a \in {b \in tag[last[d]].asked : b.d = d} : \A x \in Asked(a.p) :
      Fetched(d, a.g, x)

(***************************************************************************)
(* "this is valid as long as the combined gather (mtag) has been waited    *)
(* on": a gather that was joined may be done alone, and the joined one     *)
(* again.  Pointers stay with the tag that was prepared last.              *)
(***************************************************************************)
AloneFetches ==
  \A d \in Dests : last[d] /= NoTag =>
    \A a \in {b \in tag[last[d]].asked : b.d = d} : \A x \in Asked(a.p) :
      ~Overwritten(tag[last[d]], d, x) => Fetched(d, a.g, x)

\* part s at the sender lists, in order, the neighbors of the sites that part r
\* at the receiver lists
SamePart(m, r, s) ==
  \E a \in m.asked :
    /\ a.d = r.mem
    /\ s.sites = [j \in DOMAIN r.sites |-> Map[a.g][r.sites[j]]]

(***************************************************************************)
(* The two ends of a message, made from different tables on two nodes and  *)
(* joined there step by step, fit: for every receive there is one send     *)
(* with its id, from the node it expects, with the same parts in the same  *)
(* order, the sites of each in the order of those that want them, and the  *)
(* ids of the receives of a node differ and are among those reserved.      *)
(***************************************************************************)
EndsFit ==
  \A t \in Tags : Live(t) /\ FilledIn(tag[t]) =>
    \A n \in Nodes : \A i \in DOMAIN tag[t].recv[n] :
      LET m == tag[t]
          r == m.recv[n][i]
      IN  /\ r.off < m.nids
          /\ \A j \in DOMAIN m.recv[n] : m.recv[n][j].off = r.off => i = j
          /\ \A e \in Arriving(m, n, r) :
               /\ DOMAIN e.gmem = DOMAIN r.gmem
               /\ \A k \in DOMAIN r.gmem : SamePart(m, r.gmem[k], e.gmem[k])
          /\ \E j \in DOMAIN m.send[r.node] :
               m.send[r.node][j].node = n /\ m.send[r.node][j].off = r.off

(***************************************************************************)
(* Buffers and lists have their types, and what is sent fits what is       *)
(* expected at the other end, in id, partner, parts and their order.       *)
(***************************************************************************)
EndsMeet == TypeOK /\ EndsFit

=============================================================================
