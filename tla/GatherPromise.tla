---------------------------- MODULE GatherPromise ----------------------------
(***************************************************************************)
(* What the comments of generic/com_mpi.c promise of a gather, with no     *)
(* message, no id and no network: after wait_gather a node has the fields  *)
(* of its neighbors as they were when each neighbor made the same call of  *)
(* do_gather.  A wait cannot return before those neighbors have got there; *)
(* nothing else holds a node up.  Gather implements this.                  *)
(***************************************************************************)
EXTENDS Integers, Sequences

CONSTANTS Nodes, GatherIndex, RecvFrom, Tags, Ops

VARIABLES
  prog,    \* the calls of the program, as far as a node has come
  pc,      \* pc[n]: the calls node n has made
  stopped, \* the nodes that have given up, for want of message ids
  job      \* job[n][t]: the state of tag t on node n

pvars == <<prog, pc, stopped, job>>

Call == [op : Ops, tag : Tags, g : GatherIndex]

Idle == [phase |-> "none", g |-> CHOOSE g \in GatherIndex : TRUE,
         at |-> 0, got |-> <<>>]

Init ==
  /\ prog = <<>>
  /\ pc = [n \in Nodes |-> 0]
  /\ stopped = {}
  /\ job = [n \in Nodes |-> [t \in Tags |-> Idle]]

(* Node n comes to the call c, the same call for every node.               *)
Arrive(n, c) ==
  /\ n \notin stopped
  /\ IF pc[n] < Len(prog)
     THEN c = prog[pc[n] + 1] /\ UNCHANGED prog
     ELSE prog' = Append(prog, c)

(* It makes it, unless the job came to its end there.                      *)
Pass(n, c, j) ==
  /\ \A m \in stopped : pc[n] < pc[m]
  /\ pc' = [pc EXCEPT ![n] = @ + 1]
  /\ job' = [job EXCEPT ![n][c.tag] = j]
  /\ UNCHANGED stopped

Declare(n, c) ==
  /\ c.op = "declare" /\ job[n][c.tag].phase = "none"
  /\ Pass(n, c, [Idle EXCEPT !.phase = "ready", !.g = c.g])

Prepare(n, c) ==
  /\ c.op = "prepare" /\ job[n][c.tag].phase = "ready"
  /\ Pass(n, c, job[n][c.tag])

Do(n, c) ==
  /\ \/ c.op = "do"    /\ job[n][c.tag].phase \in {"ready", "done"}
     \/ c.op = "start" /\ job[n][c.tag].phase = "none"
  /\ Pass(n, c, [phase |-> "started", at |-> pc[n] + 1, got |-> <<>>,
                 g |-> IF c.op = "start" THEN c.g ELSE job[n][c.tag].g])

(* The data of each neighbor, as of the call that started this gather.     *)
Wait(n, c) ==
  LET j    == job[n][c.tag]
      from == RecvFrom[j.g][n]
  IN  /\ c.op = "wait" /\ j.phase = "started"
      /\ \A i \in DOMAIN from : pc[from[i]] >= j.at
      /\ Pass(n, c, [j EXCEPT !.phase = "done",
              !.got = [i \in DOMAIN from |-> [src |-> from[i], at |-> j.at]]])

Cleanup(n, c) ==
  /\ c.op = "cleanup" /\ job[n][c.tag].phase \in {"ready", "done"}
  /\ Pass(n, c, Idle)

Sync(n, c) ==
  /\ c.op = "sync" /\ \A m \in Nodes : pc[m] >= pc[n]
  /\ Pass(n, c, job[n][c.tag])

(* The ids run out: at the same call for all nodes.                        *)
Stop(n, c) ==
  /\ c.op \in {"prepare", "do", "start"}
  /\ \A m \in Nodes : pc[m] <= pc[n]
  /\ stopped' = stopped \union {n}
  /\ UNCHANGED <<pc, job>>

Next ==
  \E n \in Nodes, c \in Call :
    /\ Arrive(n, c)
    /\ \/ Declare(n, c) \/ Prepare(n, c) \/ Do(n, c) \/ Wait(n, c)
       \/ Cleanup(n, c) \/ Sync(n, c) \/ Stop(n, c)

Spec == Init /\ [][Next]_pvars
=============================================================================
