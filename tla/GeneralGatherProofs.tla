------------------------ MODULE GeneralGatherProofs -------------------------
(***************************************************************************)
(* A theorem about GeneralGather, for any layout, displacements and number *)
(* of nodes: the flag of each node tells how many gathers the calls made   *)
(* so far left in progress, and all nodes refuse the same call.            *)
(***************************************************************************)
EXTENDS GeneralGather, FiniteSetTheorems, TLAPS

-----------------------------------------------------------------------------
(* What the first k calls of a program P leave: the last call on a tag,    *)
(* and how many gathers are in progress.                                   *)

LastCall(P, t, op, k) ==
  \E p \in 1 .. k : /\ P[p].op = op /\ P[p].tag = t
                    /\ \A q \in p + 1 .. k : P[q].tag /= t

Ops(P, op, k) == {p \in 1 .. k : P[p].op = op}
Made(P, op, k) == Cardinality(Ops(P, op, k))

(* No gather is in progress after k calls, or one is.                      *)
NoneOrOne(P, k) ==
  \/ /\ Made(P, "start", k) = Made(P, "wait", k)
     /\ \A t \in Tags : ~LastCall(P, t, "start", k)
  \/ /\ Made(P, "start", k) = Made(P, "wait", k) + 1
     /\ \E t \in Tags : \A u \in Tags : LastCall(P, u, "start", k) => u = t

(* A call fits what the calls before it left of its tag.                   *)
Fits(P, c, k) ==
  /\ c.op = "wait"    => LastCall(P, c.tag, "start", k)
  /\ c.op = "cleanup" => LastCall(P, c.tag, "wait", k)

LEMMA CallType ==
  ASSUME NEW c \in Call
  PROVE  c.op \in {"start", "wait", "cleanup"} /\ c.tag \in Tags
  BY DEF Call

(* A program that grows keeps its past.                                    *)
LEMMA PastIsKept ==
  ASSUME NEW P \in Seq(Call), NEW c \in Call, NEW k \in 0 .. Len(P)
  PROVE  /\ \A op : Made(Append(P, c), op, k) = Made(P, op, k)
         /\ \A t, op : LastCall(Append(P, c), t, op, k) <=> LastCall(P, t, op, k)
         /\ NoneOrOne(Append(P, c), k) <=> NoneOrOne(P, k)
         /\ \A d : Fits(Append(P, c), d, k) <=> Fits(P, d, k)
<1> DEFINE Q == Append(P, c)
<1>1. \A p \in 1 .. k : Q[p] = P[p]
  OBVIOUS
<1> HIDE DEF Q
<1>2. \A op : Made(Q, op, k) = Made(P, op, k)
  <2>1. \A op : Ops(Q, op, k) = Ops(P, op, k)
    BY <1>1 DEF Ops
  <2> QED BY <2>1 DEF Made
<1>3. \A t, op : LastCall(Q, t, op, k) <=> LastCall(P, t, op, k)
  <2> TAKE t, op
  <2>1. \A p \in 1 .. k : \A q \in p + 1 .. k : q \in 1 .. k
    OBVIOUS
  <2>2. \A p \in 1 .. k : (\A q \in p + 1 .. k : Q[q].tag /= t) <=>
                         (\A q \in p + 1 .. k : P[q].tag /= t)
    BY <1>1, <2>1
  <2> QED BY <1>1, <2>2 DEF LastCall
<1>4. NoneOrOne(Q, k) <=> NoneOrOne(P, k)
  BY <1>2, <1>3 DEF NoneOrOne
<1>5. \A d : Fits(Q, d, k) <=> Fits(P, d, k)
  BY <1>3 DEF Fits
<1> QED BY <1>2, <1>3, <1>4, <1>5 DEF Q

(* One call more.                                                          *)
LEMMA LastCallOfOneMore ==
  ASSUME NEW P \in Seq(Call), NEW k \in 0 .. Len(P) - 1, NEW t, NEW op
  PROVE  LastCall(P, t, op, k + 1) <=>
           \/ P[k + 1].tag = t /\ P[k + 1].op = op
           \/ P[k + 1].tag /= t /\ LastCall(P, t, op, k)
<1>1. ASSUME P[k + 1].tag = t, LastCall(P, t, op, k + 1)
      PROVE  P[k + 1].op = op
  <2>1. PICK p \in 1 .. k + 1 : /\ P[p].op = op /\ P[p].tag = t
                                /\ \A q \in p + 1 .. k + 1 : P[q].tag /= t
    BY <1>1 DEF LastCall
  <2>2. p = k + 1
    BY <2>1, <1>1
  <2> QED BY <2>1, <2>2
<1>2. ASSUME P[k + 1].tag = t, P[k + 1].op = op
      PROVE  LastCall(P, t, op, k + 1)
  <2>1. k + 1 \in 1 .. k + 1 /\ \A q \in (k + 1) + 1 .. k + 1 : P[q].tag /= t
    OBVIOUS
  <2> QED BY <2>1, <1>2 DEF LastCall
<1>3. ASSUME P[k + 1].tag /= t, LastCall(P, t, op, k + 1)
      PROVE  LastCall(P, t, op, k)
  <2>1. PICK p \in 1 .. k + 1 : /\ P[p].op = op /\ P[p].tag = t
                                /\ \A q \in p + 1 .. k + 1 : P[q].tag /= t
    BY <1>3 DEF LastCall
  <2>2. p \in 1 .. k /\ \A q \in p + 1 .. k : P[q].tag /= t
    BY <2>1, <1>3
  <2> QED BY <2>1, <2>2 DEF LastCall
<1>4. ASSUME P[k + 1].tag /= t, LastCall(P, t, op, k)
      PROVE  LastCall(P, t, op, k + 1)
  <2>1. PICK p \in 1 .. k : /\ P[p].op = op /\ P[p].tag = t
                            /\ \A q \in p + 1 .. k : P[q].tag /= t
    BY <1>4 DEF LastCall
  <2>2. p \in 1 .. k + 1 /\ \A q \in p + 1 .. k + 1 : P[q].tag /= t
    BY <2>1, <1>4
  <2> QED BY <2>1, <2>2 DEF LastCall
<1> QED BY <1>1, <1>2, <1>3, <1>4

(* The last call on a tag is one call.                                     *)
LEMMA LastCallIsOne ==
  ASSUME NEW P, NEW k \in Nat, NEW t, NEW op1, NEW op2,
         LastCall(P, t, op1, k), LastCall(P, t, op2, k)
  PROVE  op1 = op2
<1>1. PICK p1 \in 1 .. k : /\ P[p1].op = op1 /\ P[p1].tag = t
                           /\ \A q \in p1 + 1 .. k : P[q].tag /= t
  BY DEF LastCall
<1>2. PICK p2 \in 1 .. k : /\ P[p2].op = op2 /\ P[p2].tag = t
                           /\ \A q \in p2 + 1 .. k : P[q].tag /= t
  BY DEF LastCall
<1>3. p1 = p2
  BY <1>1, <1>2
<1> QED BY <1>1, <1>2, <1>3

LEMMA MadeOfOneMore ==
  ASSUME NEW P \in Seq(Call), NEW k \in 0 .. Len(P) - 1, NEW op
  PROVE  /\ Made(P, op, k) \in Nat
         /\ P[k + 1].op = op  => Made(P, op, k + 1) = Made(P, op, k) + 1
         /\ P[k + 1].op /= op => Made(P, op, k + 1) = Made(P, op, k)
<1>1. IsFiniteSet(Ops(P, op, k))
  <2>1. Ops(P, op, k) \subseteq 1 .. k
    BY DEF Ops
  <2>2. IsFiniteSet(1 .. k)
    BY FS_Interval
  <2> QED BY <2>1, <2>2, FS_Subset
<1>2. Made(P, op, k) \in Nat
  BY <1>1, FS_CardinalityType DEF Made
<1>3. ASSUME P[k + 1].op = op
      PROVE  Made(P, op, k + 1) = Made(P, op, k) + 1
  <2>1. Ops(P, op, k + 1) = Ops(P, op, k) \union {k + 1}
    BY <1>3 DEF Ops
  <2>2. k + 1 \notin Ops(P, op, k)
    BY DEF Ops
  <2> QED BY <1>1, <2>1, <2>2, FS_AddElement DEF Made
<1>4. ASSUME P[k + 1].op /= op
      PROVE  Made(P, op, k + 1) = Made(P, op, k)
  <2>1. Ops(P, op, k + 1) = Ops(P, op, k)
    BY <1>4 DEF Ops
  <2> QED BY <2>1 DEF Made
<1> QED BY <1>2, <1>3, <1>4

(* Every call that fits, and starts a gather only when none is in          *)
(* progress, leaves none or one in progress.                               *)
LEMMA NoneOrOneOfOneMore ==
  ASSUME NEW P \in Seq(Call), NEW k \in 0 .. Len(P) - 1,
         NoneOrOne(P, k), Fits(P, P[k + 1], k),
         P[k + 1].op = "start" => ~(Made(P, "start", k) > Made(P, "wait", k))
  PROVE  /\ NoneOrOne(P, k + 1)
         /\ P[k + 1].op = "start" =>
              Made(P, "start", k + 1) > Made(P, "wait", k + 1)
         /\ P[k + 1].op = "wait" =>
              ~(Made(P, "start", k + 1) > Made(P, "wait", k + 1))
         /\ P[k + 1].op = "cleanup" =>
              /\ Made(P, "start", k + 1) = Made(P, "start", k)
              /\ Made(P, "wait", k + 1) = Made(P, "wait", k)
<1> DEFINE c == P[k + 1]
<1>0. c \in Call /\ k \in Nat
  OBVIOUS
<1>1. c.op \in {"start", "wait", "cleanup"} /\ c.tag \in Tags
  BY <1>0, CallType
<1>2. \A op : /\ Made(P, op, k) \in Nat
              /\ c.op = op  => Made(P, op, k + 1) = Made(P, op, k) + 1
              /\ c.op /= op => Made(P, op, k + 1) = Made(P, op, k)
  BY MadeOfOneMore
<1>3. \A t : LastCall(P, t, "start", k + 1) <=>
               \/ c.tag = t /\ c.op = "start"
               \/ c.tag /= t /\ LastCall(P, t, "start", k)
  BY LastCallOfOneMore
<1> HIDE DEF c
<1>4. CASE c.op = "start"
  <2>1. /\ Made(P, "start", k) = Made(P, "wait", k)
        /\ \A t \in Tags : ~LastCall(P, t, "start", k)
    BY <1>2, <1>4 DEF NoneOrOne, c
  <2>2. Made(P, "start", k + 1) = Made(P, "wait", k + 1) + 1
    BY <1>2, <1>4, <2>1
  <2>3. \A u \in Tags : LastCall(P, u, "start", k + 1) => u = c.tag
    BY <1>3, <2>1
  <2>4. Made(P, "wait", k + 1) \in Nat
    BY <1>2, <1>4
  <2> QED BY <1>1, <1>4, <2>2, <2>3, <2>4 DEF NoneOrOne, c
<1>5. CASE c.op = "wait"
  <2>1. LastCall(P, c.tag, "start", k)
    BY <1>5 DEF Fits, c
  <2>2. /\ Made(P, "start", k) = Made(P, "wait", k) + 1
        /\ \A u \in Tags : LastCall(P, u, "start", k) => u = c.tag
    BY <1>1, <2>1 DEF NoneOrOne
  <2>3. Made(P, "start", k + 1) = Made(P, "wait", k + 1)
    BY <1>2, <1>5, <2>2
  <2>4. \A t \in Tags : ~LastCall(P, t, "start", k + 1)
    BY <1>3, <1>5, <2>2
  <2>5. Made(P, "wait", k + 1) \in Nat
    BY <1>2, <1>5
  <2> QED BY <1>5, <2>3, <2>4, <2>5 DEF NoneOrOne, c
<1>6. CASE c.op = "cleanup"
  <2>1. /\ Made(P, "start", k + 1) = Made(P, "start", k)
        /\ Made(P, "wait", k + 1) = Made(P, "wait", k)
    BY <1>2, <1>6
  <2>2. \A u \in Tags : LastCall(P, u, "start", k + 1) =>
                        LastCall(P, u, "start", k)
    BY <1>3, <1>6
  <2> QED BY <1>6, <2>1, <2>2 DEF NoneOrOne, c
<1> QED BY <1>1, <1>4, <1>5, <1>6

-----------------------------------------------------------------------------
(* The shape of the state; the lists of nodes and the entries of messages  *)
(* are whatever the loops over sites make them.                            *)

StartCalls == {c \in Call : c.op = "start"}

FromLists == {<<>>} \union {FromNodes(n, c) : n \in Nodes, c \in StartCalls}
Bodies == {Packed(n, c, k, m) : n \in Nodes, c \in StartCalls,
                                k \in Nat, m \in Nodes}
Message == [tag : Tags, entries : Bodies]
Ranks == UNION {{ToNodes(n, c)[i].node : i \in DOMAIN ToNodes(n, c)} :
                  n \in Nodes, c \in StartCalls}
Gots == UNION {[DOMAIN from -> Bodies \union {NoMsg}] : from \in FromLists}

TagType ==
  [phase : {"none", "started", "done"}, call : Nat,
   got : Gots, unsent : SUBSET Ranks]

StaticType ==
  [flag : BOOLEAN, tdest : Tags \union {CHOOSE t \in Tags : TRUE}, from : FromLists]

Shape ==
  /\ prog \in Seq(Call)
  /\ pc \in [Nodes -> Nat] /\ \A n \in Nodes : pc[n] <= Len(prog)
  /\ stopped \subseteq Nodes
  /\ static \in [Nodes -> StaticType]
  /\ mtag \in [Nodes -> [Tags -> TagType]]
  /\ net \in [Nodes -> [Nodes -> Seq(Message)]]

(* Each node is where the calls it made have left it.                      *)
PhaseInv ==
  \A n \in Nodes, t \in Tags :
    /\ mtag[n][t].phase = "started" <=> LastCall(prog, t, "start", pc[n])
    /\ mtag[n][t].phase = "done" <=> LastCall(prog, t, "wait", pc[n])

Busy(k) == Made(prog, "start", k) > Made(prog, "wait", k)

FlagInv == \A n \in Nodes : static[n].flag <=> Busy(pc[n])

(* The calls of the program fit each other.                                *)
FitsInv == \A k \in DOMAIN prog : Fits(prog, prog[k], k - 1)

OneInv == \A n \in Nodes : NoneOrOne(prog, pc[n])

(* Nobody starts a gather while one is in progress; who tried has stopped. *)
PassedInv ==
  \A n \in Nodes : \A k \in 1 .. pc[n] : prog[k].op = "start" => ~Busy(k - 1)

StoppedInv ==
  \A n \in stopped : /\ pc[n] + 1 \in DOMAIN prog
                     /\ prog[pc[n] + 1].op = "start" /\ Busy(pc[n])

FlagsInv == /\ Shape /\ PhaseInv /\ FlagInv /\ FitsInv /\ OneInv
            /\ PassedInv /\ StoppedInv

-----------------------------------------------------------------------------
(* What each action does to the calls, the phases of the tags and the      *)
(* flags.                                                                  *)

Phase(n, t) == mtag[n][t].phase
Flag(n) == static[n].flag

PhaseAfter(c) == CASE c.op = "start"   -> "started"
                   [] c.op = "wait"    -> "done"
                   [] c.op = "cleanup" -> "none"
FlagAfter(n, c) == CASE c.op = "start"   -> TRUE
                     [] c.op = "wait"    -> FALSE
                     [] c.op = "cleanup" -> Flag(n)

(* Call c is the next one of node n: the program has it, or the node is    *)
(* the furthest on and makes a call that is legal there.                   *)
Recorded(n, c) ==
  /\ c \in Call /\ n \notin stopped
  /\ \/ pc[n] + 1 \in DOMAIN prog /\ c = prog[pc[n] + 1] /\ prog' = prog
     \/ pc[n] = Len(prog) /\ Legal(n, c) /\ prog' = Append(prog, c)

Does(n, c) ==
  /\ Recorded(n, c)
  /\ c.op = "start" => ~Flag(n)
  /\ pc' = [pc EXCEPT ![n] = @ + 1]
  /\ stopped' = stopped
  /\ \A m \in Nodes, t \in Tags :
       Phase(m, t)' = IF m = n /\ t = c.tag THEN PhaseAfter(c) ELSE Phase(m, t)
  /\ \A m \in Nodes : Flag(m)' = IF m = n THEN FlagAfter(n, c) ELSE Flag(m)

LEMMA NextIsRecorded ==
  ASSUME Shape, NEW n \in Nodes, NEW c \in NextCall(n), Record(n, c)
  PROVE  Recorded(n, c)
<1>1. n \notin stopped
  BY DEF NextCall
<1>2. prog \in Seq(Call) /\ pc[n] \in Nat /\ pc[n] <= Len(prog)
  BY DEF Shape
<1>3. CASE pc[n] < Len(prog)
  <2>1. c = prog[pc[n] + 1] /\ prog' = prog
    BY <1>1, <1>2, <1>3 DEF NextCall, Record
  <2>2. pc[n] + 1 \in DOMAIN prog
    BY <1>2, <1>3
  <2> QED BY <1>1, <1>2, <2>1, <2>2 DEF Recorded
<1>4. CASE pc[n] = Len(prog)
  <2>1. c \in Call /\ Legal(n, c)
    BY <1>1, <1>2, <1>4 DEF NextCall
  <2>2. prog' = Append(prog, c)
    BY <1>4 DEF Record
  <2> QED BY <1>1, <1>4, <2>1, <2>2 DEF Recorded
<1> QED BY <1>2, <1>3, <1>4

(* The part of the shape that is about the calls.                          *)
LEMMA CallsKeepShape ==
  ASSUME Shape, NEW n \in Nodes, NEW c, Recorded(n, c)
  PROVE  /\ prog' \in Seq(Call) /\ Len(prog') >= Len(prog)
         /\ pc[n] + 1 \in 1 .. Len(prog') /\ prog'[pc[n] + 1] = c
         /\ \A k \in 1 .. Len(prog) : prog'[k] = prog[k]
         /\ pc' = [pc EXCEPT ![n] = @ + 1] \/ pc' = pc =>
              /\ pc' \in [Nodes -> Nat]
              /\ \A m \in Nodes : pc'[m] <= Len(prog')
<1>1. prog \in Seq(Call) /\ pc \in [Nodes -> Nat] /\ c \in Call
  BY DEF Shape, Recorded
<1>2. \A m \in Nodes : pc[m] <= Len(prog)
  BY DEF Shape
<1>3. CASE pc[n] + 1 \in DOMAIN prog /\ c = prog[pc[n] + 1] /\ prog' = prog
  BY <1>1, <1>2, <1>3
<1>4. CASE pc[n] = Len(prog) /\ prog' = Append(prog, c)
  BY <1>1, <1>2, <1>4
<1> QED BY <1>3, <1>4 DEF Recorded

LEMMA NoTagType == NoTag \in TagType
<1>1. <<>> \in FromLists
  BY DEF FromLists
<1>2. <<>> \in [DOMAIN <<>> -> Bodies \union {NoMsg}]
  OBVIOUS
<1>3. <<>> \in Gots
  BY <1>1, <1>2 DEF Gots
<1> QED BY <1>3 DEF NoTag, TagType

LEMMA StartDoes ==
  ASSUME Shape, NEW n \in Nodes, StartGeneralGather(n)
  PROVE  Shape' /\ \E c : Does(n, c)
<1> DEFINE from(c) == FromNodes(n, c)
           to(c) == ToNodes(n, c)
           started(c) ==
             [phase |-> "started", call |-> pc[n] + 1,
              got |-> [i \in DOMAIN from(c) |-> NoMsg],
              unsent |-> IF eager THEN {}
                         ELSE {to(c)[i].node : i \in DOMAIN to(c)}]
           sent(c) == [m \in Nodes |->
             IF \E i \in DOMAIN to(c) : to(c)[i].node = m
             THEN Append(net[n][m],
                         [tag |-> c.tag, entries |-> Packed(n, c, pc[n] + 1, m)])
             ELSE net[n][m]]
<1>1. PICK c \in NextCall(n) :
        /\ c.op = "start" /\ ~static[n].flag /\ Complete(n, c)
        /\ static' = [static EXCEPT ![n] =
             [flag |-> TRUE, tdest |-> c.tag, from |-> from(c)]]
        /\ mtag' = [mtag EXCEPT ![n][c.tag] = started(c)]
        /\ net' = [net EXCEPT ![n] = sent(c)]
        /\ stopped' = stopped
  BY Zenon DEF StartGeneralGather
<1>2. Recorded(n, c)
  BY <1>1, NextIsRecorded DEF Complete
<1>3. c \in StartCalls /\ c.tag \in Tags
  BY <1>1, <1>2, CallType DEF Recorded, StartCalls
<1>4. pc' = [pc EXCEPT ![n] = @ + 1]
  BY <1>1 DEF Complete
<1>5. from(c) \in FromLists
  BY <1>3 DEF FromLists
<1>6. started(c) \in TagType
  <2>1. [i \in DOMAIN from(c) |-> NoMsg] \in Gots
    <3>1. [i \in DOMAIN from(c) |-> NoMsg] \in [DOMAIN from(c) -> Bodies \union {NoMsg}]
      OBVIOUS
    <3> QED BY <1>5, <3>1 DEF Gots
  <2>2. {to(c)[i].node : i \in DOMAIN to(c)} \in SUBSET Ranks
    <3> DEFINE R(m, d) == {ToNodes(m, d)[i].node : i \in DOMAIN ToNodes(m, d)}
    <3>1. Ranks = UNION {R(m, d) : m \in Nodes, d \in StartCalls}
      BY DEF Ranks
    <3>2. R(n, c) \in {R(m, d) : m \in Nodes, d \in StartCalls}
      BY <1>3
    <3>3. R(n, c) \subseteq Ranks
      <4> HIDE DEF R
      <4> QED BY <3>1, <3>2
    <3> QED BY <3>3
  <2>3. (IF eager THEN {} ELSE {to(c)[i].node : i \in DOMAIN to(c)}) \in SUBSET Ranks
    BY <2>2
  <2>4. pc[n] + 1 \in Nat
    BY DEF Shape
  <2> QED BY <2>1, <2>3, <2>4 DEF TagType
<1>7. [flag |-> TRUE, tdest |-> c.tag, from |-> from(c)] \in StaticType
  BY <1>3, <1>5 DEF StaticType
<1>8. sent(c) \in [Nodes -> Seq(Message)]
  <2> SUFFICES ASSUME NEW m \in Nodes
               PROVE  sent(c)[m] \in Seq(Message)
    OBVIOUS
  <2>1. [tag |-> c.tag, entries |-> Packed(n, c, pc[n] + 1, m)] \in Message
    <3>1. pc[n] + 1 \in Nat
      BY DEF Shape
    <3>2. Packed(n, c, pc[n] + 1, m) \in Bodies
      BY <1>3, <3>1 DEF Bodies
    <3> QED BY <1>3, <3>2 DEF Message
  <2>2. net[n][m] \in Seq(Message)
    BY DEF Shape
  <2> QED BY <2>1, <2>2
<1> HIDE DEF from, to, started, sent
<1>9. mtag' \in [Nodes -> [Tags -> TagType]]
  BY <1>1, <1>3, <1>6 DEF Shape
<1>10. static' \in [Nodes -> StaticType]
  BY <1>1, <1>7 DEF Shape
<1>11. net' \in [Nodes -> [Nodes -> Seq(Message)]]
  BY <1>1, <1>8 DEF Shape
<1>12. Shape'
  BY <1>1, <1>2, <1>4, <1>9, <1>10, <1>11, CallsKeepShape DEF Shape
<1>13. \A m \in Nodes, t \in Tags :
         Phase(m, t)' = IF m = n /\ t = c.tag THEN PhaseAfter(c) ELSE Phase(m, t)
  <2>1. started(c).phase = PhaseAfter(c)
    BY <1>1 DEF started, PhaseAfter
  <2>2. mtag \in [Nodes -> [Tags -> TagType]]
    BY DEF Shape
  <2> QED BY <1>1, <1>3, <2>1, <2>2 DEF Phase
<1>14. \A m \in Nodes : Flag(m)' = IF m = n THEN FlagAfter(n, c) ELSE Flag(m)
  <2>1. static \in [Nodes -> StaticType]
    BY DEF Shape
  <2> QED BY <1>1, <2>1 DEF Flag, FlagAfter
<1> QED BY <1>1, <1>2, <1>4, <1>12, <1>13, <1>14 DEF Does, Flag

LEMMA WaitDoes ==
  ASSUME Shape, NEW n \in Nodes, WaitGeneralGather(n)
  PROVE  Shape' /\ \E c : Does(n, c)
<1>1. PICK c \in NextCall(n) :
        /\ c.op = "wait" /\ Complete(n, c)
        /\ static' = [static EXCEPT ![n].flag = FALSE]
        /\ mtag' = [mtag EXCEPT ![n][c.tag].phase = "done"]
        /\ net' = net /\ stopped' = stopped
  BY Zenon DEF WaitGeneralGather
<1>2. Recorded(n, c)
  BY <1>1, NextIsRecorded DEF Complete
<1>3. c.tag \in Tags
  BY <1>2, CallType DEF Recorded
<1>4. pc' = [pc EXCEPT ![n] = @ + 1]
  BY <1>1 DEF Complete
<1>5. mtag \in [Nodes -> [Tags -> TagType]] /\ static \in [Nodes -> StaticType]
  BY DEF Shape
<1>6. mtag' \in [Nodes -> [Tags -> TagType]]
  <2>0. mtag[n][c.tag] \in TagType
    BY <1>3, <1>5
  <2> DEFINE r == [mtag[n][c.tag] EXCEPT !.phase = "done"]
  <2>1. r \in TagType
    BY <2>0 DEF TagType
  <2>2. mtag' = [mtag EXCEPT ![n][c.tag] = r]
    BY <1>1
  <2> HIDE DEF r
  <2> QED BY <1>3, <1>5, <2>1, <2>2
<1>7. static' \in [Nodes -> StaticType]
  BY <1>1, <1>5 DEF StaticType
<1>8. Shape'
  BY <1>1, <1>2, <1>4, <1>6, <1>7, CallsKeepShape DEF Shape
<1>9. \A m \in Nodes, t \in Tags :
         Phase(m, t)' = IF m = n /\ t = c.tag THEN PhaseAfter(c) ELSE Phase(m, t)
  <2>1. PhaseAfter(c) = "done"
    BY <1>1 DEF PhaseAfter
  <2> QED BY <1>1, <1>3, <1>5, <2>1 DEF Phase, TagType
<1>10. \A m \in Nodes : Flag(m)' = IF m = n THEN FlagAfter(n, c) ELSE Flag(m)
  <2>1. FlagAfter(n, c) = FALSE
    BY <1>1 DEF FlagAfter
  <2> QED BY <1>1, <1>5, <2>1 DEF Flag, StaticType
<1> QED BY <1>1, <1>2, <1>4, <1>8, <1>9, <1>10 DEF Does

LEMMA CleanupDoes ==
  ASSUME Shape, NEW n \in Nodes, CleanupGeneralGather(n)
  PROVE  Shape' /\ \E c : Does(n, c)
<1>1. PICK c \in NextCall(n) :
        /\ c.op = "cleanup" /\ Complete(n, c)
        /\ mtag' = [mtag EXCEPT ![n][c.tag] = NoTag]
        /\ static' = static /\ net' = net /\ stopped' = stopped
  BY Zenon DEF CleanupGeneralGather
<1>2. Recorded(n, c)
  BY <1>1, NextIsRecorded DEF Complete
<1>3. c.tag \in Tags
  BY <1>2, CallType DEF Recorded
<1>4. pc' = [pc EXCEPT ![n] = @ + 1]
  BY <1>1 DEF Complete
<1>5. mtag \in [Nodes -> [Tags -> TagType]]
  BY DEF Shape
<1>6. NoTag \in TagType
  BY NoTagType
<1>7. mtag' \in [Nodes -> [Tags -> TagType]]
  BY <1>1, <1>3, <1>5, <1>6
<1>8. Shape'
  BY <1>1, <1>2, <1>4, <1>7, CallsKeepShape DEF Shape
<1>9. \A m \in Nodes, t \in Tags :
         Phase(m, t)' = IF m = n /\ t = c.tag THEN PhaseAfter(c) ELSE Phase(m, t)
  <2>1. PhaseAfter(c) = NoTag.phase
    BY <1>1 DEF PhaseAfter, NoTag
  <2> QED BY <1>1, <1>3, <1>5, <2>1 DEF Phase
<1>10. \A m \in Nodes : Flag(m)' = IF m = n THEN FlagAfter(n, c) ELSE Flag(m)
  BY <1>1 DEF Flag, FlagAfter
<1> QED BY <1>1, <1>2, <1>4, <1>8, <1>9, <1>10 DEF Does

(* A message that is matched changes no phase.                             *)
LEMMA MatchKeeps ==
  ASSUME Shape, NEW s \in Nodes, NEW d \in Nodes, Match(s, d)
  PROVE  /\ Shape'
         /\ prog' = prog /\ pc' = pc /\ stopped' = stopped /\ static' = static
         /\ \A n \in Nodes, u \in Tags : Phase(n, u)' = Phase(n, u)
<1> DEFINE m == Head(net[s][d])
           Given(t, i) ==
             /\ net[s][d] /= <<>>
             /\ mtag' = [mtag EXCEPT ![d][t].got[i] = m.entries,
                                     ![s][m.tag].unsent = @ \ {d}]
             /\ net' = [net EXCEPT ![s][d] = Tail(@)]
             /\ UNCHANGED <<prog, pc, stopped, static>>
<1>0. PICK t \in Tags : \E i \in DOMAIN mtag[d][t].got : Given(t, i)
  BY Zenon DEF Match
<1>1. PICK i \in DOMAIN mtag[d][t].got : Given(t, i)
  BY <1>0
<1>2. mtag \in [Nodes -> [Tags -> TagType]] /\ net \in [Nodes -> [Nodes -> Seq(Message)]]
  BY DEF Shape
<1>3. net[s][d] \in Seq(Message)
  BY <1>2
<1>4. m \in Message /\ Tail(net[s][d]) \in Seq(Message)
  <2>1. net[s][d] /= <<>>
    BY <1>1
  <2> HIDE DEF Given
  <2> QED BY <1>3, <2>1
<1>5. m.tag \in Tags /\ m.entries \in Bodies
  BY <1>4 DEF Message
<1> HIDE DEF m
<1> DEFINE r == [mtag[d][t] EXCEPT !.got[i] = m.entries]
           mid == [mtag EXCEPT ![d][t] = r]
           q == [mid[s][m.tag] EXCEPT !.unsent = @ \ {d}]
<1>6. r \in TagType /\ r.phase = mtag[d][t].phase
  <2>1. mtag[d][t] \in TagType
    BY <1>2
  <2>2. PICK from \in FromLists :
          mtag[d][t].got \in [DOMAIN from -> Bodies \union {NoMsg}]
    BY <2>1 DEF TagType, Gots
  <2>3. [mtag[d][t].got EXCEPT ![i] = m.entries] \in Gots
    BY <1>5, <2>2 DEF Gots
  <2> QED BY <2>1, <2>3 DEF TagType
<1> HIDE DEF r
<1>7. mid \in [Nodes -> [Tags -> TagType]]
  BY <1>2, <1>6
<1>8. \A n \in Nodes, u \in Tags : mid[n][u].phase = mtag[n][u].phase
  BY <1>2, <1>6
<1>9. mtag' = [mid EXCEPT ![s][m.tag] = q]
  BY <1>1 DEF r
<1> HIDE DEF mid
<1>10. q \in TagType /\ q.phase = mid[s][m.tag].phase
  <2>1. mid[s][m.tag] \in TagType
    BY <1>5, <1>7
  <2> QED BY <2>1 DEF TagType
<1> HIDE DEF q
<1>11. mtag' \in [Nodes -> [Tags -> TagType]]
  BY <1>5, <1>7, <1>9, <1>10
<1>12. \A n \in Nodes, u \in Tags : Phase(n, u)' = Phase(n, u)
  BY <1>5, <1>7, <1>8, <1>9, <1>10 DEF Phase
<1>13. net' \in [Nodes -> [Nodes -> Seq(Message)]]
  BY <1>1, <1>2, <1>4
<1> QED BY <1>1, <1>11, <1>12, <1>13 DEF Shape

-----------------------------------------------------------------------------
(* A call that is recorded keeps the past and fits it.                     *)

LEMMA RecordedKeepsPast ==
  ASSUME Shape, NEW n \in Nodes, NEW c, Recorded(n, c)
  PROVE  \A k \in 0 .. Len(prog) :
           /\ \A op : Made(prog', op, k) = Made(prog, op, k)
           /\ \A t, op : LastCall(prog', t, op, k) <=> LastCall(prog, t, op, k)
           /\ NoneOrOne(prog', k) <=> NoneOrOne(prog, k)
           /\ \A d : Fits(prog', d, k) <=> Fits(prog, d, k)
<1> TAKE k \in 0 .. Len(prog)
<1>1. prog \in Seq(Call) /\ c \in Call
  BY DEF Shape, Recorded
<1>2. CASE prog' = prog
  BY <1>2
<1>3. CASE prog' = Append(prog, c)
  BY <1>1, <1>3, PastIsKept
<1> QED BY <1>2, <1>3 DEF Recorded

LEMMA RecordedFits ==
  ASSUME Shape, PhaseInv, FitsInv, NEW n \in Nodes, NEW c, Recorded(n, c)
  PROVE  Fits(prog, c, pc[n]) /\ FitsInv'
<1>1. prog \in Seq(Call) /\ c \in Call /\ pc[n] \in Nat
  BY DEF Shape, Recorded
<1>2. c.op \in {"start", "wait", "cleanup"} /\ c.tag \in Tags
  BY <1>1, CallType
<1>3. Fits(prog, c, pc[n])
  <2>1. CASE pc[n] + 1 \in DOMAIN prog /\ c = prog[pc[n] + 1]
    BY <1>1, <2>1 DEF FitsInv
  <2>2. CASE Legal(n, c)
    BY <1>2, <2>2 DEF Legal, PhaseInv, Fits
  <2> QED BY <2>1, <2>2 DEF Recorded
<1>4. ASSUME NEW k \in DOMAIN prog'
      PROVE  Fits(prog', prog'[k], k - 1)
  <2>1. CASE k \in DOMAIN prog
    <3>1. prog'[k] = prog[k] /\ k - 1 \in 0 .. Len(prog)
      BY <1>1, <2>1, CallsKeepShape
    <3>2. Fits(prog, prog[k], k - 1)
      BY <2>1 DEF FitsInv
    <3> QED BY <3>1, <3>2, RecordedKeepsPast
  <2>2. CASE k \notin DOMAIN prog
    <3>1. pc[n] = Len(prog) /\ prog' = Append(prog, c)
      BY <2>2 DEF Recorded
    <3>2. k - 1 = Len(prog) /\ prog'[k] = c
      BY <1>1, <2>2, <3>1
    <3>3. Len(prog) \in 0 .. Len(prog)
      BY <1>1
    <3> QED BY <1>3, <3>1, <3>2, <3>3, RecordedKeepsPast
  <2> QED BY <2>1, <2>2
<1> QED BY <1>3, <1>4 DEF FitsInv

-----------------------------------------------------------------------------
(* The flag of a node before and after a call of its own.                  *)

LEMMA OwnCall ==
  ASSUME FlagsInv, NEW n \in Nodes, NEW c, Does(n, c)
  PROVE  LET k == pc[n] + 1 IN
         /\ k \in 1 .. Len(prog') /\ prog'[k] = c
         /\ \A t \in Tags :
              /\ Phase(n, t)' = "started" <=> LastCall(prog', t, "start", k)
              /\ Phase(n, t)' = "done" <=> LastCall(prog', t, "wait", k)
         /\ Flag(n)' <=> Made(prog', "start", k) > Made(prog', "wait", k)
         /\ NoneOrOne(prog', k)
         /\ c.op = "start" =>
              ~(Made(prog', "start", k - 1) > Made(prog', "wait", k - 1))
<1> DEFINE k == pc[n] + 1
           P == prog'
<1>1. Shape /\ Recorded(n, c)
  BY DEF FlagsInv, Does
<1>2. P \in Seq(Call) /\ k \in 1 .. Len(P) /\ P[k] = c
  BY <1>1, CallsKeepShape
<1>3. pc[n] \in 0 .. Len(prog) /\ pc[n] \in 0 .. Len(P) - 1
  BY <1>1, <1>2 DEF Shape
<1>4. Fits(P, c, pc[n])
  BY <1>1, <1>3, RecordedFits, RecordedKeepsPast DEF FlagsInv
<1>5. NoneOrOne(P, pc[n])
  BY <1>1, <1>3, RecordedKeepsPast DEF FlagsInv, OneInv
<1>6. Flag(n) <=> Made(P, "start", pc[n]) > Made(P, "wait", pc[n])
  BY <1>1, <1>3, RecordedKeepsPast DEF FlagsInv, FlagInv, Busy, Flag
<1>7. \A t \in Tags :
        /\ Phase(n, t) = "started" <=> LastCall(P, t, "start", pc[n])
        /\ Phase(n, t) = "done" <=> LastCall(P, t, "wait", pc[n])
  BY <1>1, <1>3, RecordedKeepsPast DEF FlagsInv, PhaseInv, Phase
<1>8. c.op \in {"start", "wait", "cleanup"} /\ c.tag \in Tags
  BY <1>1, CallType DEF Recorded
<1>9. /\ c.op = "start" => ~Flag(n)
      /\ \A t \in Tags :
           Phase(n, t)' = IF t = c.tag THEN PhaseAfter(c) ELSE Phase(n, t)
      /\ Flag(n)' = FlagAfter(n, c)
  BY DEF Does
<1> HIDE DEF P
<1>10. \A t, op : LastCall(P, t, op, k) <=>
                    \/ c.tag = t /\ c.op = op
                    \/ c.tag /= t /\ LastCall(P, t, op, pc[n])
  BY <1>2, <1>3, LastCallOfOneMore
<1>11. ASSUME NEW t \in Tags
       PROVE  /\ Phase(n, t)' = "started" <=> LastCall(P, t, "start", k)
              /\ Phase(n, t)' = "done" <=> LastCall(P, t, "wait", k)
  <2>1. CASE t = c.tag
    BY <1>8, <1>9, <1>10, <2>1 DEF PhaseAfter
  <2>2. CASE t /= c.tag
    BY <1>7, <1>9, <1>10, <2>2
  <2> QED BY <2>1, <2>2
<1>12. /\ NoneOrOne(P, k)
       /\ c.op = "start" => Made(P, "start", k) > Made(P, "wait", k)
       /\ c.op = "wait" => ~(Made(P, "start", k) > Made(P, "wait", k))
       /\ c.op = "cleanup" =>
            /\ Made(P, "start", k) = Made(P, "start", pc[n])
            /\ Made(P, "wait", k) = Made(P, "wait", pc[n])
  BY <1>2, <1>3, <1>4, <1>5, <1>6, <1>9, NoneOrOneOfOneMore
<1>13. Flag(n)' <=> Made(P, "start", k) > Made(P, "wait", k)
  BY <1>6, <1>8, <1>9, <1>12 DEF FlagAfter
<1>14. c.op = "start" => ~(Made(P, "start", k - 1) > Made(P, "wait", k - 1))
  <2>1. k - 1 = pc[n]
    BY <1>3
  <2> QED BY <1>6, <1>9, <2>1
<1> QED BY <1>2, <1>11, <1>12, <1>13, <1>14 DEF P

(* Calls that n has made, and will not make again.                         *)
LEMMA PassedKept ==
  ASSUME FlagsInv, NEW n \in Nodes, NEW c, Recorded(n, c),
         NEW m \in Nodes, NEW k \in 1 .. pc[m], prog'[k].op = "start"
  PROVE  ~(Made(prog', "start", k - 1) > Made(prog', "wait", k - 1))
<1>1. Shape
  BY DEF FlagsInv
<1>2. pc[m] \in Nat /\ pc[m] <= Len(prog) /\ Len(prog) \in Nat
  BY <1>1 DEF Shape
<1>3. k \in 1 .. Len(prog) /\ k - 1 \in 0 .. Len(prog)
  BY <1>2
<1>4. prog[k].op = "start"
  BY <1>1, <1>3, CallsKeepShape
<1>5. ~Busy(k - 1)
  BY <1>4 DEF FlagsInv, PassedInv
<1> QED BY <1>1, <1>3, <1>5, RecordedKeepsPast DEF Busy

(* What holds of a node that does not move is kept when another one makes  *)
(* a call.                                                                 *)
LEMMA OthersKept ==
  ASSUME FlagsInv, NEW n \in Nodes, NEW c, Recorded(n, c), NEW m \in Nodes
  PROVE  /\ \A t \in Tags :
              /\ Phase(m, t) = "started" <=> LastCall(prog', t, "start", pc[m])
              /\ Phase(m, t) = "done" <=> LastCall(prog', t, "wait", pc[m])
         /\ Flag(m) <=> Made(prog', "start", pc[m]) > Made(prog', "wait", pc[m])
         /\ NoneOrOne(prog', pc[m])
         /\ m \in stopped =>
              /\ pc[m] + 1 \in DOMAIN prog' /\ prog'[pc[m] + 1].op = "start"
              /\ Made(prog', "start", pc[m]) > Made(prog', "wait", pc[m])
<1>1. Shape
  BY DEF FlagsInv
<1>2. pc[m] \in 0 .. Len(prog) /\ prog \in Seq(Call)
  BY <1>1 DEF Shape
<1>3. \A t \in Tags :
        /\ Phase(m, t) = "started" <=> LastCall(prog', t, "start", pc[m])
        /\ Phase(m, t) = "done" <=> LastCall(prog', t, "wait", pc[m])
  BY <1>1, <1>2, RecordedKeepsPast DEF FlagsInv, PhaseInv, Phase
<1>4. Flag(m) <=> Made(prog', "start", pc[m]) > Made(prog', "wait", pc[m])
  BY <1>1, <1>2, RecordedKeepsPast DEF FlagsInv, FlagInv, Busy, Flag
<1>5. NoneOrOne(prog', pc[m])
  BY <1>1, <1>2, RecordedKeepsPast DEF FlagsInv, OneInv
<1>6. ASSUME m \in stopped
      PROVE  /\ pc[m] + 1 \in DOMAIN prog' /\ prog'[pc[m] + 1].op = "start"
             /\ Made(prog', "start", pc[m]) > Made(prog', "wait", pc[m])
  <2>1. pc[m] + 1 \in 1 .. Len(prog) /\ prog[pc[m] + 1].op = "start" /\ Busy(pc[m])
    BY <1>2, <1>6 DEF FlagsInv, StoppedInv
  <2>2. /\ prog' \in Seq(Call) /\ Len(prog') >= Len(prog)
        /\ prog'[pc[m] + 1] = prog[pc[m] + 1]
    BY <1>1, <2>1, CallsKeepShape
  <2>3. Made(prog', "start", pc[m]) > Made(prog', "wait", pc[m])
    BY <1>1, <1>2, <2>1, RecordedKeepsPast DEF Busy
  <2>4. pc[m] + 1 \in DOMAIN prog'
    BY <1>2, <2>1, <2>2
  <2> QED BY <2>1, <2>2, <2>3, <2>4
<1> QED BY <1>3, <1>4, <1>5, <1>6

LEMMA CallKeepsFlags ==
  ASSUME FlagsInv, Shape', NEW n \in Nodes, NEW c, Does(n, c)
  PROVE  FlagsInv'
<1>1. Shape /\ Recorded(n, c) /\ pc' = [pc EXCEPT ![n] = @ + 1] /\ stopped' = stopped
  BY DEF FlagsInv, Does
<1>2. \A m \in Nodes : pc'[m] = IF m = n THEN pc[n] + 1 ELSE pc[m]
  BY <1>1 DEF Shape
<1>3. \A m \in Nodes \ {n} :
        (\A t \in Tags : Phase(m, t)' = Phase(m, t)) /\ (Flag(m)' <=> Flag(m))
  BY DEF Does
<1>4. PhaseInv'
  <2> SUFFICES ASSUME NEW m \in Nodes, NEW t \in Tags
               PROVE  /\ Phase(m, t)' = "started" <=> LastCall(prog', t, "start", pc'[m])
                      /\ Phase(m, t)' = "done" <=> LastCall(prog', t, "wait", pc'[m])
    BY DEF PhaseInv, Phase
  <2>1. CASE m = n
    BY <1>2, <2>1, OwnCall
  <2>2. CASE m /= n
    BY <1>1, <1>2, <1>3, <2>2, OthersKept
  <2> QED BY <2>1, <2>2
<1>5. FlagInv'
  <2> SUFFICES ASSUME NEW m \in Nodes
               PROVE  Flag(m)' <=> Made(prog', "start", pc'[m]) > Made(prog', "wait", pc'[m])
    BY DEF FlagInv, Flag, Busy
  <2>1. CASE m = n
    BY <1>2, <2>1, OwnCall
  <2>2. CASE m /= n
    BY <1>1, <1>2, <1>3, <2>2, OthersKept
  <2> QED BY <2>1, <2>2
<1>6. FitsInv'
  BY <1>1, RecordedFits DEF FlagsInv
<1>7. OneInv'
  <2> SUFFICES ASSUME NEW m \in Nodes
               PROVE  NoneOrOne(prog', pc'[m])
    BY DEF OneInv
  <2>1. CASE m = n
    BY <1>2, <2>1, OwnCall
  <2>2. CASE m /= n
    BY <1>1, <1>2, <2>2, OthersKept
  <2> QED BY <2>1, <2>2
<1>8. PassedInv'
  <2> SUFFICES ASSUME NEW m \in Nodes, NEW k \in 1 .. pc'[m], prog'[k].op = "start"
               PROVE  ~(Made(prog', "start", k - 1) > Made(prog', "wait", k - 1))
    BY DEF PassedInv, Busy
  <2>0. pc[m] \in Nat /\ pc[n] \in Nat
    BY <1>1 DEF Shape
  <2>1. CASE k \in 1 .. pc[m]
    BY <1>1, <2>1, PassedKept
  <2>2. CASE m = n /\ k = pc[n] + 1
    BY <2>2, OwnCall
  <2> QED BY <1>2, <2>0, <2>1, <2>2
<1>9. StoppedInv'
  <2> SUFFICES ASSUME NEW m \in stopped
               PROVE  /\ pc'[m] + 1 \in DOMAIN prog' /\ prog'[pc'[m] + 1].op = "start"
                      /\ Made(prog', "start", pc'[m]) > Made(prog', "wait", pc'[m])
    BY <1>1 DEF StoppedInv, Busy
  <2>1. m \in Nodes /\ m /= n
    BY <1>1 DEF Shape, Recorded
  <2> QED BY <1>1, <1>2, <2>1, OthersKept
<1> QED BY <1>4, <1>5, <1>6, <1>7, <1>8, <1>9 DEF FlagsInv

(* A node that refuses a start stops where it is.                          *)
LEMMA RefusalKeepsFlags ==
  ASSUME FlagsInv, NEW n \in Nodes, RefuseStart(n)
  PROVE  FlagsInv'
<1>1. PICK c \in NextCall(n) :
        /\ c.op = "start" /\ static[n].flag /\ Record(n, c)
        /\ stopped' = stopped \union {n}
        /\ UNCHANGED <<pc, static, mtag, net>>
  BY Zenon DEF RefuseStart
<1>2. Shape
  BY DEF FlagsInv
<1>3. Recorded(n, c)
  BY <1>1, <1>2, NextIsRecorded
<1>4. pc' = pc /\ static' = static /\ mtag' = mtag /\ net' = net
  BY <1>1
<1>5. Shape'
  BY <1>1, <1>2, <1>3, <1>4, CallsKeepShape DEF Shape
<1>6. PhaseInv'
  <2> SUFFICES ASSUME NEW m \in Nodes, NEW t \in Tags
               PROVE  /\ Phase(m, t) = "started" <=> LastCall(prog', t, "start", pc[m])
                      /\ Phase(m, t) = "done" <=> LastCall(prog', t, "wait", pc[m])
    BY <1>4 DEF PhaseInv, Phase
  <2> QED BY <1>3, OthersKept
<1>7. FlagInv'
  <2> SUFFICES ASSUME NEW m \in Nodes
               PROVE  Flag(m) <=> Made(prog', "start", pc[m]) > Made(prog', "wait", pc[m])
    BY <1>4 DEF FlagInv, Flag, Busy
  <2> QED BY <1>3, OthersKept
<1>8. FitsInv'
  BY <1>2, <1>3, RecordedFits DEF FlagsInv
<1>9. OneInv'
  <2> SUFFICES ASSUME NEW m \in Nodes
               PROVE  NoneOrOne(prog', pc[m])
    BY <1>4 DEF OneInv
  <2> QED BY <1>3, OthersKept
<1>10. PassedInv'
  <2> SUFFICES ASSUME NEW m \in Nodes, NEW k \in 1 .. pc[m], prog'[k].op = "start"
               PROVE  ~(Made(prog', "start", k - 1) > Made(prog', "wait", k - 1))
    BY <1>4 DEF PassedInv, Busy
  <2> QED BY <1>3, PassedKept
<1>11. StoppedInv'
  <2> SUFFICES ASSUME NEW m \in stopped \union {n}
               PROVE  /\ pc[m] + 1 \in DOMAIN prog' /\ prog'[pc[m] + 1].op = "start"
                      /\ Made(prog', "start", pc[m]) > Made(prog', "wait", pc[m])
    BY <1>1, <1>4 DEF StoppedInv, Busy
  <2>1. m \in Nodes
    BY <1>2 DEF Shape
  <2>2. CASE m \in stopped
    BY <1>3, <2>1, <2>2, OthersKept
  <2>3. CASE m = n
    <3>1. prog' \in Seq(Call) /\ pc[n] + 1 \in 1 .. Len(prog') /\ prog'[pc[n] + 1] = c
      BY <1>2, <1>3, CallsKeepShape
    <3>2. Made(prog', "start", pc[n]) > Made(prog', "wait", pc[n])
      BY <1>1, <1>3, OthersKept DEF Flag
    <3>3. pc[n] + 1 \in DOMAIN prog'
      BY <3>1
    <3> QED BY <1>1, <2>3, <3>1, <3>2, <3>3
  <2> QED BY <2>2, <2>3
<1> QED BY <1>5, <1>6, <1>7, <1>8, <1>9, <1>10, <1>11 DEF FlagsInv

LEMMA MatchKeepsFlags ==
  ASSUME FlagsInv, NEW s \in Nodes, NEW d \in Nodes, Match(s, d)
  PROVE  FlagsInv'
<1>1. /\ Shape'
      /\ prog' = prog /\ pc' = pc /\ stopped' = stopped /\ static' = static
      /\ \A m \in Nodes, t \in Tags : Phase(m, t)' = Phase(m, t)
  BY MatchKeeps DEF FlagsInv
<1>2. PhaseInv'
  BY <1>1 DEF FlagsInv, PhaseInv, Phase
<1> QED BY <1>1, <1>2
    DEF FlagsInv, FlagInv, FitsInv, OneInv, PassedInv, StoppedInv, Busy

-----------------------------------------------------------------------------
LEMMA NothingMade ==
  \A P, op : Made(P, op, 0) = 0 /\ \A t : ~LastCall(P, t, op, 0)
<1>1. \A P, op : Ops(P, op, 0) = {}
  BY DEF Ops
<1>2. \A P, op, t : ~LastCall(P, t, op, 0)
  BY DEF LastCall
<1> QED BY <1>1, <1>2, FS_EmptySet DEF Made

LEMMA FlagsAtStart == Init => FlagsInv
<1> SUFFICES ASSUME Init PROVE FlagsInv
  OBVIOUS
<1>1. /\ prog = <<>> /\ pc = [n \in Nodes |-> 0] /\ stopped = {}
      /\ static = [n \in Nodes |->
           [flag |-> FALSE, tdest |-> CHOOSE t \in Tags : TRUE, from |-> <<>>]]
      /\ mtag = [n \in Nodes |-> [t \in Tags |-> NoTag]]
      /\ net = [s \in Nodes |-> [d \in Nodes |-> <<>>]]
  BY DEF Init
<1>2. Shape
  <2>1. prog \in Seq(Call) /\ Len(prog) = 0
    BY <1>1
  <2>2. [flag |-> FALSE, tdest |-> CHOOSE t \in Tags : TRUE, from |-> <<>>]
          \in StaticType
    BY DEF StaticType, FromLists
  <2>3. <<>> \in Seq(Message)
    OBVIOUS
  <2>4. static \in [Nodes -> StaticType]
    BY <1>1, <2>2
  <2>5. mtag \in [Nodes -> [Tags -> TagType]]
    BY <1>1, NoTagType
  <2>6. net \in [Nodes -> [Nodes -> Seq(Message)]]
    BY <1>1, <2>3
  <2>7. pc \in [Nodes -> Nat] /\ \A n \in Nodes : pc[n] <= Len(prog)
    BY <1>1, <2>1
  <2> QED BY <1>1, <2>1, <2>4, <2>5, <2>6, <2>7 DEF Shape
<1>3. PhaseInv
  BY <1>1, NothingMade DEF PhaseInv, NoTag
<1>4. FlagInv
  BY <1>1, NothingMade DEF FlagInv, Busy
<1>5. OneInv
  BY <1>1, NothingMade DEF OneInv, NoneOrOne
<1>6. FitsInv /\ PassedInv /\ StoppedInv
  BY <1>1 DEF FitsInv, PassedInv, StoppedInv
<1> QED BY <1>2, <1>3, <1>4, <1>5, <1>6 DEF FlagsInv

LEMMA FlagsNext == FlagsInv /\ [Next]_vars => FlagsInv'
<1> SUFFICES ASSUME FlagsInv, [Next]_vars
             PROVE  FlagsInv'
  OBVIOUS
<1>0. Shape
  BY DEF FlagsInv
<1>1. ASSUME NEW n \in Nodes, RefuseStart(n)
      PROVE  FlagsInv'
  BY <1>1, RefusalKeepsFlags
<1>2. ASSUME NEW n \in Nodes, StartGeneralGather(n)
      PROVE  FlagsInv'
  BY <1>0, <1>2, StartDoes, CallKeepsFlags
<1>3. ASSUME NEW n \in Nodes, WaitGeneralGather(n)
      PROVE  FlagsInv'
  BY <1>0, <1>3, WaitDoes, CallKeepsFlags
<1>4. ASSUME NEW n \in Nodes, CleanupGeneralGather(n)
      PROVE  FlagsInv'
  BY <1>0, <1>4, CleanupDoes, CallKeepsFlags
<1>5. ASSUME NEW s \in Nodes, NEW d \in Nodes, Match(s, d)
      PROVE  FlagsInv'
  BY <1>5, MatchKeepsFlags
<1>6. CASE UNCHANGED vars
  BY <1>6 DEF vars, FlagsInv, Shape, PhaseInv, FlagInv, FitsInv, OneInv,
              PassedInv, StoppedInv, Busy
<1> QED BY <1>1, <1>2, <1>3, <1>4, <1>5, <1>6 DEF Next, Step

(***************************************************************************)
(* On every node, at every call, g_gather_flag is set exactly if one       *)
(* gather was started and not yet waited for; the calls fit each other.    *)
(***************************************************************************)
THEOREM FlagCountsGathers == Spec => []FlagsInv
<1>1. Init => FlagsInv
  BY FlagsAtStart
<1>2. FlagsInv /\ [Next]_vars => FlagsInv'
  BY FlagsNext
<1> QED BY <1>1, <1>2, PTL DEF Spec

LEMMA FlagsRefuse == FlagsInv => RefusedTogether
<1> SUFFICES ASSUME FlagsInv PROVE RefusedTogether
  OBVIOUS
<1>1. /\ prog \in Seq(Call) /\ pc \in [Nodes -> Nat] /\ stopped \subseteq Nodes
      /\ \A n \in Nodes : pc[n] <= Len(prog)
  BY DEF FlagsInv, Shape
<1>2. \A k : InProgress(k) <=> Busy(k)
  BY DEF InProgress, Busy, Made, Ops
<1>3. \A n \in stopped : prog[pc[n] + 1].op = "start" /\ Busy(pc[n])
  BY DEF FlagsInv, StoppedInv
<1>4. \A n \in Nodes : \A k \in 1 .. pc[n] : prog[k].op = "start" => ~Busy(k - 1)
  BY DEF FlagsInv, PassedInv
<1>5. ASSUME NEW n \in stopped, NEW m \in Nodes
      PROVE  pc[m] <= pc[n]
  <2> SUFFICES ASSUME pc[m] > pc[n] PROVE FALSE
    BY <1>1
  <2>1. pc[n] + 1 \in 1 .. pc[m] /\ (pc[n] + 1) - 1 = pc[n]
    BY <1>1
  <2>2. ~Busy((pc[n] + 1) - 1)
    BY <1>3, <1>4, <2>1
  <2> QED BY <1>3, <2>1, <2>2
<1> QED BY <1>2, <1>3, <1>4, <1>5 DEF RefusedTogether

(***************************************************************************)
(* start_general_strided_gather's "two general_gathers() at once": a       *)
(* program that starts a second gather before it waited for the first is   *)
(* stopped by all nodes at the same call, whatever the nodes' speeds, and  *)
(* one that keeps to the rule is never stopped.                            *)
(***************************************************************************)
THEOREM SecondStartIsRefusedTogether == Spec => []RefusedTogether
<1>1. FlagsInv => RefusedTogether
  BY FlagsRefuse
<1> QED BY <1>1, FlagCountsGathers, PTL

=============================================================================
