----------------------------- MODULE FileProofs -----------------------------
(***************************************************************************)
(* How much a node has sent to another that has not come while a gauge     *)
(* configuration is saved or restored (LatticeFile.tla), and what, for     *)
(* every size of the lattice, layout, number of nodes, size of the buffers *)
(* and of the blocks, with or without faults, and whether MPI buffers or   *)
(* not.                                                                    *)
(*                                                                         *)
(* Each node knows from the layout alone in which turns it sends and in    *)
(* which it receives.  So the messages from s to d are, at any time, those *)
(* of the turns that s has made and d has not, and d makes no turn that    *)
(* takes one before s has made it: Balanced.  The rest of the invariant    *)
(* says how far apart the turns of two nodes may be: g_sync before each    *)
(* block, the "clear to send" of w_serial, and the barriers between the    *)
(* parts of the job.  Fits says that each message is that of its turn, and *)
(* Holds that there is room where a site or a line is put into a buffer.   *)
(*                                                                         *)
(* DataInv follows the sites into the file, if no write fails: what a node *)
(* has put so far are the ranks from From up to Put, in their order, as    *)
(* the turns of its ranks come in that order (w_parallel) and a line that  *)
(* comes is as long as the room node 0 has kept for it (w_serial).         *)
(*                                                                         *)
(* LoadInv follows them from there into the lattice, on whatever layout: a *)
(* node that reads has read, in the turns it has made, the ranks of its    *)
(* part before g, and its buffer holds those from g on; what is under way  *)
(* are the sites of the turns, and what has come is in the lattice.        *)
(***************************************************************************)
EXTENDS LatticeFile, TLAPS, FiniteSetTheorems, SequenceTheorems

(* A sequence, whatever is in it.                                          *)
Listed(s) == s \in Seq({s[k] : k \in DOMAIN s})

(* The sender has made the turns before hi, the receiver those before lo;  *)
(* a message goes over in each turn of P.                                  *)
Between(lo, hi, P) == {p \in P : lo <= p /\ p < hi}
Balanced(queue, lo, hi, P) ==
  /\ \A p \in P : ~(hi <= p /\ p < lo)
  /\ Len(queue) = Cardinality(Between(lo, hi, P))

(* The message of turn p in the queue.                                     *)
Place(lo, p, P) == Cardinality(Between(lo, p + 1, P))

BeforeSum == {"list", "sweep", "signal", "turn"}
Dealt     == {"deal", "check", "over"}
Idle      == {"sum", "close", "closed", "load"}
StageSet  == BeforeSum \union Idle \union Dealt

ChanType ==
  /\ DOMAIN chan = Nodes /\ \A s \in Nodes : DOMAIN chan[s] = Nodes
  /\ \A s, d \in Nodes : Listed(chan[s][d])

Types ==
  /\ lay \in Layouts /\ save \in Saves /\ load \in Loads
  /\ at \in [Nodes -> StageSet] /\ pos \in [Nodes -> 0 .. Volume]
  /\ DOMAIN tbuf = Nodes /\ \A n \in Nodes : Listed(tbuf[n])
  /\ ChanType

(* The barriers: no node is beyond the checksum while another still saves, *)
(* and none restores before all have opened the file.                      *)
Barriers ==
  \A n, m \in Nodes :
    /\ at[n] \in BeforeSum => at[m] \in BeforeSum \union {"sum"}
    /\ at[n] \in Dealt => at[m] \in Dealt \union {"load"}

(* What a stage says of the format, and of the turns made.                 *)
StageInv ==
  \A n \in Nodes :
    /\ at[n] \in {"sweep", "signal"} => save = "serial"
    /\ at[n] \in {"list", "turn"} => save /= "serial"
    /\ at[n] = "list" => save = "checkpoint"
    /\ at[n] = "signal" => pos[n] < Volume
    /\ at[n] = "sum" /\ save /= "checkpoint" => pos[n] = Volume
    /\ at[n] = "load" => pos[n] = 0
    /\ at[n] \in {"check", "over"} /\ load = "parallel" => pos[n] = Volume

(* Between the loops no message is left over.                              *)
QuietInv ==
  (\A n \in Nodes : at[n] \in Idle) => \A s, d \in Nodes : chan[s][d] = <<>>

Saving == \A n \in Nodes : at[n] \in BeforeSum \union {"sum"}

(* w_serial: a line ends at j; node n has sites in its tbuf at j; how many *)
(* sweeps n has made; those in which it sends, and the turns in which it   *)
(* gets a "clear to send".                                                 *)
Turn(j) == j < Volume => NodeNumber(j) /= CurrentNode(j) \/ j % Nx = 0
HasLine(n, j) == j > 0 /\ (n = 0 \/ n = CurrentNode(j))
Clock(n) == IF at[n] = "sweep" THEN pos[n] ELSE pos[n] + 1
Lines(n) == {j \in 1 .. Volume : CurrentNode(j) = n /\ Turn(j)}
Signals(n) == {k \in 0 .. Volume - 1 : NodeNumber(k) = n /\ CurrentNode(k) /= n}

(* Sender and receiver agree when a line is swept, as tbuf of both is not  *)
(* empty then.                                                             *)
LineInv ==
  \A n \in Nodes :
    /\ at[n] = "sweep" => (tbuf[n] /= <<>> <=> HasLine(n, pos[n]))
    /\ at[n] = "signal" => (tbuf[n] /= <<>> <=> HasLine(n, pos[n]) /\ ~Turn(pos[n]))

(* A node that is ahead of node 0 with a site of its own has had the sites *)
(* since then to itself.                                                   *)
SweepInv ==
  /\ \A n, m \in Nodes : (n = 0 <=> m = 0) => chan[n][m] = <<>>
  /\ \A n \in Nodes \ {0} :
       /\ Balanced(chan[n][0], Clock(0), Clock(n), Lines(n))
       /\ Balanced(chan[0][n], pos[n], pos[0], Signals(n))
       /\ \A k \in pos[0] .. pos[n] - 1 :
            NodeNumber(k) = n => \A i \in pos[0] .. k : CurrentNode(i) = n
SerialInv == save = "serial" /\ Saving => LineInv /\ SweepInv

(* The turns of w_parallel in which s has a site that d writes.            *)
Ships(s, d) ==
  {p \in 0 .. Volume - 1 :
     /\ s /= d
     /\ NodeNumber(RankAt(p, MaxBufLength)) = s
     /\ RankAt(p, MaxBufLength) \div SitesOnNode = d}
ParallelInv ==
  save = "parallel" /\ Saving =>
    \A s, d \in Nodes : Balanced(chan[s][d], pos[d], pos[s], Ships(s, d))
CheckpointInv ==
  save = "checkpoint" /\ Saving => \A s, d \in Nodes : chan[s][d] = <<>>

(* The turns of r_parallel in which s reads a site of d; and no node is    *)
(* in a block before the others have begun it.                             *)
Deals(s, d) ==
  {p \in 0 .. Volume - 1 :
     /\ s /= d
     /\ RankAt(p, LoadBlock) \div SitesOnNode = s
     /\ NodeNumber(list[RankAt(p, LoadBlock)]) = d}
BlockStart(p) == BlockOf(p, LoadBlock) * (LoadBlock * Cardinality(Nodes))
DealInv ==
  load = "parallel" /\ (\E n \in Nodes : at[n] \in Dealt) =>
    \A s, d \in Nodes :
      /\ Balanced(chan[s][d], pos[d], pos[s], Deals(s, d))
      /\ pos[s] > 0 => BlockStart(pos[s] - 1) <= pos[d]

IInv == /\ Types /\ Barriers /\ StageInv /\ QuietInv
        /\ SerialInv /\ ParallelInv /\ CheckpointInv /\ DealInv

-----------------------------------------------------------------------------
(* Lists.                                                                  *)

LEMMA SeqListed ==
  ASSUME NEW S, NEW s \in Seq(S) PROVE Listed(s)
<1> DEFINE R == {s[k] : k \in DOMAIN s}
<1>1. s \in [1 .. Len(s) -> S] /\ DOMAIN s = 1 .. Len(s) /\ Len(s) \in Nat
  OBVIOUS
<1>2. s \in [1 .. Len(s) -> R]
  BY <1>1
<1> HIDE DEF R
<1>3. s \in Seq(R)
  BY <1>1, <1>2, SeqDef
<1> QED BY <1>3 DEF Listed, R

LEMMA EmptyListed == Listed(<<>>) /\ Len(<<>>) = 0
<1>1. <<>> \in Seq({})
  OBVIOUS
<1> QED BY <1>1, SeqListed

LEMMA AppendListed ==
  ASSUME NEW s, Listed(s), NEW e
  PROVE  /\ Listed(Append(s, e)) /\ Append(s, e) /= <<>>
         /\ Len(Append(s, e)) = Len(s) + 1
<1> DEFINE R == {s[k] : k \in DOMAIN s}
           T == R \union {e}
<1>1. s \in Seq(R)
  BY DEF Listed
<1> HIDE DEF R
<1>2. s \in Seq(T) /\ e \in T
  BY <1>1
<1> HIDE DEF T
<1>3. Append(s, e) \in Seq(T) /\ Len(Append(s, e)) = Len(s) + 1
  BY <1>2, AppendProperties
<1>4. Append(s, e) /= <<>>
  BY <1>2, AppendProperties
<1> QED BY <1>3, <1>4, SeqListed

LEMMA TailListed ==
  ASSUME NEW s, Listed(s), s /= <<>>
  PROVE  Listed(Tail(s)) /\ Len(Tail(s)) = Len(s) - 1
<1> DEFINE R == {s[k] : k \in DOMAIN s}
<1>1. s \in Seq(R)
  BY DEF Listed
<1> HIDE DEF R
<1>2. Tail(s) \in Seq(R) /\ Len(Tail(s)) = Len(s) - 1
  BY <1>1
<1> QED BY <1>2, SeqListed

LEMMA AddListed ==
  ASSUME NEW s, Listed(s), NEW e
  PROVE  Listed(s \o <<e>>) /\ s \o <<e>> /= <<>> /\ s \o <<>> = s
<1> DEFINE R == {s[k] : k \in DOMAIN s}
           T == R \union {e}
<1>1. s \in Seq(R)
  BY DEF Listed
<1> HIDE DEF R
<1>2. s \in Seq(T) /\ <<e>> \in Seq(T)
  BY <1>1
<1> HIDE DEF T
<1>3. s \o <<e>> \in Seq(T) /\ Len(s \o <<e>>) = Len(s) + Len(<<e>>)
  BY <1>2, ConcatProperties
<1>4. s \o <<e>> /= <<>>
  <2>1. Len(<<e>>) = 1 /\ Len(<<>>) = 0 /\ Len(s) \in Nat
    BY <1>2
  <2> QED BY <1>3, <2>1
<1>5. s \o <<>> = s
  BY <1>2, ConcatEmptySeq
<1> QED BY <1>3, <1>4, <1>5, SeqListed

LEMMA ListedLen ==
  ASSUME NEW s, Listed(s)
  PROVE  Len(s) \in Nat /\ (Len(s) = 0 <=> s = <<>>)
<1> DEFINE R == {s[k] : k \in DOMAIN s}
<1>1. s \in Seq(R)
  BY DEF Listed
<1> HIDE DEF R
<1> QED BY <1>1, EmptySeq

(* Messages sent and not yet taken, by the turns of both ends.             *)
LEMMA BetweenFinite ==
  ASSUME NEW P \in SUBSET Int, NEW lo \in Int, NEW hi \in Int
  PROVE  /\ IsFiniteSet(Between(lo, hi, P))
         /\ Cardinality(Between(lo, hi, P)) \in Nat
<1>1. IsFiniteSet(lo .. hi - 1)
  BY FS_Interval
<1>2. Between(lo, hi, P) \subseteq lo .. hi - 1
  <2>1. \A p \in P : lo <= p /\ p < hi => p \in lo .. hi - 1
    OBVIOUS
  <2> QED BY <2>1 DEF Between
<1>3. IsFiniteSet(Between(lo, hi, P))
  BY <1>1, <1>2, FS_Subset
<1> QED BY <1>3, FS_CardinalityType

LEMMA SendsOne ==
  ASSUME NEW P \in SUBSET Int, NEW lo \in Int, NEW hi \in Int, NEW q, Listed(q),
         Balanced(q, lo, hi, P), hi \in P, NEW e
  PROVE  Balanced(Append(q, e), lo, hi + 1, P)
<1> DEFINE B == Between(lo, hi, P)
<1>1. ~(hi < lo)
  BY DEF Balanced
<1>2. Between(lo, hi + 1, P) = B \union {hi} /\ hi \notin B
  <2>1. \A p \in P : p < hi + 1 <=> p < hi \/ p = hi
    OBVIOUS
  <2>2. lo <= hi /\ ~(hi < hi)
    BY <1>1
  <2> QED BY <2>1, <2>2 DEF Between
<1>3. IsFiniteSet(B)
  BY BetweenFinite
<1> HIDE DEF B
<1>4. Cardinality(B \union {hi}) = Cardinality(B) + 1
  BY <1>2, <1>3, FS_AddElement
<1>5. \A p \in P : ~(hi + 1 <= p /\ p < lo)
  BY DEF Balanced
<1>6. Len(Append(q, e)) = Len(q) + 1 /\ Len(q) = Cardinality(B)
  BY AppendListed DEF Balanced, B
<1> QED BY <1>2, <1>4, <1>5, <1>6 DEF Balanced

LEMMA SendsNone ==
  ASSUME NEW P \in SUBSET Int, NEW lo \in Int, NEW hi \in Int, NEW q,
         Balanced(q, lo, hi, P), hi \notin P
  PROVE  Balanced(q, lo, hi + 1, P)
<1>1. \A p \in P : p < hi + 1 <=> p < hi
  OBVIOUS
<1>2. Between(lo, hi + 1, P) = Between(lo, hi, P)
  BY <1>1 DEF Between
<1>3. \A p \in P : ~(hi + 1 <= p /\ p < lo)
  BY DEF Balanced
<1> QED BY <1>2, <1>3 DEF Balanced

LEMMA SomeLeft ==
  ASSUME NEW P \in SUBSET Int, NEW lo \in Int, NEW hi \in Int, NEW q, Listed(q),
         Balanced(q, lo, hi, P), q /= <<>>
  PROVE  \E p \in P : lo <= p /\ p < hi
<1>1. Cardinality(Between(lo, hi, P)) /= 0
  BY ListedLen DEF Balanced
<1>2. Between(lo, hi, P) /= {}
  BY <1>1, FS_EmptySet
<1> QED BY <1>2 DEF Between

LEMMA TakesOne ==
  ASSUME NEW P \in SUBSET Int, NEW lo \in Int, NEW hi \in Int, NEW q, Listed(q),
         Balanced(q, lo, hi, P), lo \in P, q /= <<>>
  PROVE  Balanced(Tail(q), lo + 1, hi, P)
<1> DEFINE B == Between(lo, hi, P)
<1>1. lo < hi
  BY SomeLeft
<1>2. Between(lo + 1, hi, P) = B \ {lo} /\ lo \in B
  <2>1. \A p \in P : lo + 1 <= p <=> lo <= p /\ p /= lo
    OBVIOUS
  <2>2. lo <= lo
    OBVIOUS
  <2> QED BY <1>1, <2>1, <2>2 DEF Between
<1>3. IsFiniteSet(B)
  BY BetweenFinite
<1> HIDE DEF B
<1>4. Cardinality(B \ {lo}) = Cardinality(B) - 1
  BY <1>2, <1>3, FS_RemoveElement
<1>5. \A p \in P : ~(hi <= p /\ p < lo + 1)
  BY <1>1 DEF Balanced
<1>6. Len(Tail(q)) = Len(q) - 1 /\ Len(q) = Cardinality(B)
  BY TailListed DEF Balanced, B
<1> QED BY <1>2, <1>4, <1>5, <1>6 DEF Balanced

LEMMA TakesNone ==
  ASSUME NEW P \in SUBSET Int, NEW lo \in Int, NEW hi \in Int, NEW q,
         Balanced(q, lo, hi, P), lo \notin P
  PROVE  Balanced(q, lo + 1, hi, P)
<1>1. \A p \in P : lo + 1 <= p <=> lo <= p
  OBVIOUS
<1>2. Between(lo + 1, hi, P) = Between(lo, hi, P)
  BY <1>1 DEF Between
<1>3. \A p \in P : ~(hi <= p /\ p < lo + 1)
  BY DEF Balanced
<1> QED BY <1>2, <1>3 DEF Balanced

LEMMA NoneLeft ==
  ASSUME NEW P \in SUBSET Int, NEW v \in Int, NEW q, Listed(q), Balanced(q, v, v, P)
  PROVE  q = <<>>
<1> SUFFICES ASSUME q /= <<>> PROVE FALSE
  OBVIOUS
<1> QED BY SomeLeft

LEMMA NoneYet ==
  ASSUME NEW P \in SUBSET Int, NEW v \in Int, NEW w \in Int, v = w, NEW q, q = <<>>
  PROVE  Balanced(q, v, w, P)
<1>1. \A p \in P : ~(v <= p /\ p < w)
  OBVIOUS
<1>2. Between(v, w, P) = {}
  BY <1>1 DEF Between
<1>3. \A p \in P : ~(w <= p /\ p < v)
  OBVIOUS
<1> QED BY <1>2, <1>3, EmptyListed, FS_EmptySet DEF Balanced

-----------------------------------------------------------------------------
(* Layouts and stages.                                                     *)

LEMMA NodesAre ==
  ASSUME NEW l \in Layouts
  PROVE  LET N == Cardinality(DOMAIN l)
         IN  /\ N \in Nat \ {0} /\ 0 \in DOMAIN l /\ DOMAIN l = 0 .. N - 1
             /\ Len(l[0]) \in Nat /\ Len(l[0]) * N = Volume
<1> DEFINE N == Cardinality(DOMAIN l)
<1>1. /\ IsFiniteSet(DOMAIN l) /\ l \in [0 .. N - 1 -> Seq(Sites)]
      /\ \A n \in DOMAIN l : Len(l[n]) * N = Volume
      /\ \A s \in Sites : \E n \in DOMAIN l : TRUE
  BY LayoutAssumption
<1>2. N \in Nat /\ DOMAIN l = 0 .. N - 1
  BY <1>1, FS_CardinalityType
<1>3. 0 \in Sites
  BY SizeAssumption DEF Sites
<1>4. N /= 0 /\ 0 \in DOMAIN l
  BY <1>1, <1>2, <1>3
<1>5. Len(l[0]) \in Nat
  BY <1>1, <1>2, <1>4
<1> QED BY <1>1, <1>2, <1>4, <1>5

LEMMA LayoutFacts ==
  ASSUME lay \in Layouts
  PROVE  /\ Cardinality(Nodes) \in Nat \ {0} /\ 0 \in Nodes
         /\ Nodes = 0 .. Cardinality(Nodes) - 1
         /\ SitesOnNode \in Nat
         /\ SitesOnNode * Cardinality(Nodes) = Volume
BY NodesAre DEF Nodes, SitesOnNode

LEMMA StageRanks ==
  /\ Rank("list") = 1 /\ Rank("sweep") = 2 /\ Rank("signal") = 3
  /\ Rank("turn") = 4 /\ Rank("sum") = 5 /\ Rank("close") = 6
  /\ Rank("closed") = 7 /\ Rank("load") = 8 /\ Rank("deal") = 9
  /\ Rank("check") = 10 /\ Rank("over") = 11
<1>1. /\ DOMAIN Stages = 1 .. 11
      /\ Stages[1] = "list" /\ Stages[2] = "sweep" /\ Stages[3] = "signal"
      /\ Stages[4] = "turn" /\ Stages[5] = "sum" /\ Stages[6] = "close"
      /\ Stages[7] = "closed" /\ Stages[8] = "load" /\ Stages[9] = "deal"
      /\ Stages[10] = "check" /\ Stages[11] = "over"
  BY DEF Stages
<1>2. \A i, j \in 1 .. 11 : Stages[i] = Stages[j] => i = j
  BY DEF Stages
<1>3. ASSUME NEW j \in 1 .. 11 PROVE Rank(Stages[j]) = j
  <2>1. \A i \in DOMAIN Stages : Stages[i] = Stages[j] <=> i = j
    BY <1>1, <1>2, <1>3
  <2>2. j \in DOMAIN Stages
    BY <1>1, <1>3
  <2> QED BY <2>1, <2>2 DEF Rank
<1> QED BY <1>1, <1>3

LEMMA SameNodeNumber ==
  ASSUME lay' = lay
  PROVE  /\ Nodes' = Nodes /\ SitesOnNode' = SitesOnNode
         /\ \A s : NodeNumber(s)' = NodeNumber(s)
         /\ \A s : CurrentNode(s)' = CurrentNode(s)
<1>1. Nodes' = Nodes /\ SitesOnNode' = SitesOnNode
  BY DEF Nodes, SitesOnNode
<1>2. ASSUME NEW s PROVE NodeNumber(s)' = NodeNumber(s)
  BY DEF Nodes, NodeNumber
<1>3. ASSUME NEW s PROVE CurrentNode(s)' = CurrentNode(s)
  BY DEF CurrentNode, NodeNumber, Nodes
<1> QED BY <1>1, <1>2, <1>3

LEMMA SameTurns ==
  ASSUME lay' = lay
  PROVE  /\ \A j : Turn(j)' = Turn(j)
         /\ \A n, j : HasLine(n, j)' = HasLine(n, j)
         /\ \A n : Lines(n)' = Lines(n) /\ Signals(n)' = Signals(n)
         /\ \A p, b : RankAt(p, b)' = RankAt(p, b)
         /\ \A s, d : Ships(s, d)' = Ships(s, d)
         /\ list' = list => \A s, d : Deals(s, d)' = Deals(s, d)
         /\ \A p : BlockStart(p)' = BlockStart(p)
<1> USE SameNodeNumber
<1>1. ASSUME NEW j PROVE Turn(j)' = Turn(j)
  BY DEF Turn
<1>2. ASSUME NEW n, NEW j PROVE HasLine(n, j)' = HasLine(n, j)
  BY DEF HasLine
<1>3. ASSUME NEW n PROVE Lines(n)' = Lines(n) /\ Signals(n)' = Signals(n)
  BY <1>1 DEF Lines, Signals
<1>4. ASSUME NEW p, NEW b PROVE BlockOf(p, b)' = BlockOf(p, b) /\ RankAt(p, b)' = RankAt(p, b)
  BY DEF RankAt, BlockOf
<1>5. ASSUME NEW s, NEW d PROVE Ships(s, d)' = Ships(s, d)
  BY <1>4 DEF Ships
<1>6. ASSUME list' = list, NEW s, NEW d PROVE Deals(s, d)' = Deals(s, d)
  BY <1>4, <1>6 DEF Deals
<1>7. ASSUME NEW p PROVE BlockStart(p)' = BlockStart(p)
  BY <1>4 DEF BlockStart
<1> QED BY <1>1, <1>2, <1>3, <1>4, <1>5, <1>6, <1>7

LEMMA TurnsAreNumbers ==
  \A s, d : /\ Lines(s) \in SUBSET Int /\ Signals(s) \in SUBSET Int
            /\ Ships(s, d) \in SUBSET Int /\ Deals(s, d) \in SUBSET Int
BY SizeAssumption DEF Lines, Signals, Ships, Deals

-----------------------------------------------------------------------------
(* Messages.                                                               *)

LEMMA SentIs ==
  ASSUME ChanType, lay' = lay, NEW s, NEW d, NEW msg, chan' = Sent(s, d, msg)
  PROVE  /\ ChanType'
         /\ \A a, b \in Nodes :
              chan'[a][b] = IF a = s /\ b = d THEN Append(chan[a][b], msg)
                            ELSE chan[a][b]
<1>1. \A a, b \in Nodes :
        chan'[a][b] = IF a = s /\ b = d THEN Append(chan[a][b], msg) ELSE chan[a][b]
  BY DEF ChanType, Sent
<1>2. DOMAIN chan' = Nodes /\ \A a \in Nodes : DOMAIN chan'[a] = Nodes
  BY DEF ChanType, Sent
<1>3. \A a, b \in Nodes : Listed(chan'[a][b])
  BY <1>1, AppendListed DEF ChanType
<1>4. Nodes' = Nodes
  BY SameNodeNumber
<1>5. ChanType'
  <2>1. \A a, b \in Nodes : Listed(chan[a][b])'
    BY <1>3 DEF Listed
  <2> QED BY <1>2, <1>4, <2>1 DEF ChanType
<1> QED BY <1>1, <1>5

LEMMA ReceivedIs ==
  ASSUME ChanType, lay' = lay, NEW s, NEW d, Arrived(s, d), chan' = Received(s, d)
  PROVE  /\ ChanType'
         /\ \A a, b \in Nodes :
              chan'[a][b] = IF a = s /\ b = d THEN Tail(chan[a][b]) ELSE chan[a][b]
<1>1. \A a, b \in Nodes :
        chan'[a][b] = IF a = s /\ b = d THEN Tail(chan[a][b]) ELSE chan[a][b]
  BY DEF ChanType, Received
<1>2. DOMAIN chan' = Nodes /\ \A a \in Nodes : DOMAIN chan'[a] = Nodes
  BY DEF ChanType, Received
<1>3. \A a, b \in Nodes : Listed(chan'[a][b])
  BY <1>1, TailListed DEF ChanType, Arrived
<1>4. Nodes' = Nodes
  BY SameNodeNumber
<1>5. ChanType'
  <2>1. \A a, b \in Nodes : Listed(chan[a][b])'
    BY <1>3 DEF Listed
  <2> QED BY <1>2, <1>4, <2>1 DEF ChanType
<1> QED BY <1>1, <1>5

LEMMA UnsentIs ==
  ASSUME ChanType, lay' = lay, chan' = chan PROVE ChanType'
<1>1. Nodes' = Nodes
  BY SameNodeNumber
<1>2. \A a, b \in Nodes : Listed(chan[a][b])'
  BY DEF ChanType, Listed
<1> QED BY <1>1, <1>2 DEF ChanType

-----------------------------------------------------------------------------
(* Division.                                                               *)

LEMMA DivRem ==
  ASSUME NEW n \in Nat, NEW s \in Nat \ {0}
  PROVE  /\ n \div s \in Nat /\ n % s \in Nat /\ n % s < s
         /\ n = (n \div s) * s + (n % s)
OBVIOUS

LEMMA LessThanOnce ==
  ASSUME NEW s \in Nat \ {0}, NEW x \in Nat, NEW y \in Nat, x < y
  PROVE  x * s + s <= y * s
<1>1. PICK z \in Nat : y = x + 1 + z
  <2>1. y - x - 1 \in Nat /\ y = x + 1 + (y - x - 1)
    OBVIOUS
  <2> QED BY <2>1
<1>2. y * s = x * s + s + z * s /\ z * s \in Nat
  BY <1>1
<1> QED BY <1>2

LEMMA DivRemUnique ==
  ASSUME NEW s \in Nat \ {0}, NEW q \in Nat, NEW r \in Nat, r < s
  PROVE  (q * s + r) \div s = q /\ (q * s + r) % s = r
<1> DEFINE n == q * s + r
           x == n \div s
           y == n % s
<1>1. n \in Nat
  OBVIOUS
<1>2. n = q * s + r
  OBVIOUS
<1> HIDE DEF n
<1>3. x \in Nat /\ y \in Nat /\ y < s /\ n = x * s + y
  BY <1>1, DivRem
<1> HIDE DEF x, y
<1>4. ~(x < q)
  <2> SUFFICES ASSUME x < q PROVE FALSE
    OBVIOUS
  <2>1. x * s + s <= q * s
    BY <1>3, LessThanOnce
  <2> QED BY <1>2, <1>3, <2>1
<1>5. ~(q < x)
  <2> SUFFICES ASSUME q < x PROVE FALSE
    OBVIOUS
  <2>1. q * s + s <= x * s
    BY <1>3, LessThanOnce
  <2> QED BY <1>2, <1>3, <2>1
<1>6. x = q /\ y = r
  BY <1>2, <1>3, <1>4, <1>5
<1> QED BY <1>6 DEF x, y, n

(* A turn of w_parallel or r_parallel in its block.                        *)
BlockLen(b, block) ==
  LET left == SitesOnNode - b * block IN IF left < block THEN left ELSE block

LEMMA PlaceInBlock ==
  ASSUME NEW S \in Nat, NEW N \in Nat \ {0}, NEW block \in Nat \ {0},
         NEW p \in Nat, p < S * N
  PROVE  /\ block * N \in Nat \ {0} /\ p \div (block * N) \in Nat
         /\ (p \div (block * N)) * block < S
         /\ p = (p \div (block * N)) * (block * N) + (p % (block * N))
         /\ p % (block * N) \in Nat
<1> DEFINE c == block * N
           B == p \div c
           q == p % c
<1>1. c \in Nat \ {0}
  OBVIOUS
<1>2. B \in Nat /\ q \in Nat /\ p = B * c + q
  <2> HIDE DEF c
  <2> QED BY <1>1, DivRem
<1> HIDE DEF B, q
<1> DEFINE k == B * block
<1>3. B * c = k * N /\ k \in Nat
  BY <1>2
<1> HIDE DEF c, k
<1>4. k < S
  <2> SUFFICES ASSUME ~(k < S) PROVE FALSE
    OBVIOUS
  <2>1. S <= k
    BY <1>3
  <2>2. S * N <= k * N
    <3>1. CASE S = k
      BY <1>3, <3>1
    <3>2. CASE S < k
      BY <1>3, <3>2, LessThanOnce
    <3> QED BY <1>3, <2>1, <3>1, <3>2
  <2>3. k * N \in Nat /\ S * N \in Nat
    BY <1>3
  <2> QED BY <1>2, <1>3, <2>2, <2>3
<1> QED BY <1>1, <1>2, <1>4 DEF B, q, c, k

LEMMA RankInBlock ==
  ASSUME NEW S \in Nat, NEW N \in Nat \ {0}, NEW k \in Nat, NEW block \in Nat \ {0},
         NEW len \in Nat \ {0}, len = IF S - k < block THEN S - k ELSE block,
         NEW q \in Nat, q < block * N, k * N + q < S * N
  PROVE  /\ q \div len \in 0 .. N - 1
         /\ (q \div len) * S + k + (q % len) \in 0 .. S * N - 1
<1> DEFINE a == q \div len
           r == q % len
<1>1. a \in Nat /\ r \in Nat /\ r < len /\ q = a * len + r
  BY DivRem
<1> HIDE DEF a, r
<1>2. q < len * N
  <2>1. CASE len = block
    BY <2>1
  <2>2. CASE len = S - k
    <3>1. len * N = S * N - k * N
      BY <2>2
    <3>2. S * N \in Nat /\ k * N \in Nat
      OBVIOUS
    <3> QED BY <3>1, <3>2
  <2> QED BY <2>1, <2>2
<1>3. a < N
  <2> SUFFICES ASSUME N <= a PROVE FALSE
    BY <1>1
  <2>1. N * len <= a * len
    <3>1. CASE N = a
      BY <3>1
    <3>2. CASE N < a
      BY <1>1, <3>2, LessThanOnce
    <3> QED BY <1>1, <3>1, <3>2
  <2>2. N * len = len * N /\ len * N \in Nat /\ a * len \in Nat
    BY <1>1
  <2> QED BY <1>1, <1>2, <2>1, <2>2
<1>4. a * S + S <= N * S /\ N * S = S * N /\ a * S \in Nat /\ N * S \in Nat
  <2>1. CASE S = 0
    BY <1>1, <2>1
  <2>2. CASE S /= 0
    BY <1>1, <1>3, <2>2, LessThanOnce
  <2> QED BY <2>1, <2>2
<1>5. k + r < S
  BY <1>1
<1> DEFINE x == a * S
           y == S * N
<1>6. x + S <= y /\ x \in Nat /\ y \in Nat
  BY <1>4
<1> HIDE DEF x, y
<1>7. x + k + r \in 0 .. y - 1
  BY <1>1, <1>5, <1>6
<1> QED BY <1>1, <1>3, <1>7 DEF a, r, x, y

LEMMA TurnPlace ==
  ASSUME lay \in Layouts, NEW p \in 0 .. Volume - 1, NEW block \in Nat \ {0}
  PROVE  LET c   == block * Cardinality(Nodes)
             b   == BlockOf(p, block)
             len == BlockLen(b, block)
         IN  /\ c \in Nat \ {0} /\ b \in Nat /\ len \in 1 .. block
             /\ p % c \in Nat /\ p = b * c + (p % c)
             /\ RankAt(p, block) \div SitesOnNode = (p % c) \div len
             /\ RankAt(p, block) \in Sites /\ RankAt(p, block) \div SitesOnNode \in Nodes
<1> DEFINE S   == SitesOnNode
           N   == Cardinality(Nodes)
           c   == block * N
           b   == BlockOf(p, block)
           len == BlockLen(b, block)
           q   == p % c
           k   == b * block
<1>1. S \in Nat /\ N \in Nat \ {0} /\ S * N = Volume /\ p \in Nat /\ p < S * N
  BY LayoutFacts, SizeAssumption
<1>2. b = p \div c
  BY DEF BlockOf
<1> HIDE DEF S, N
<1>0. /\ block * N \in Nat \ {0} /\ p \div (block * N) \in Nat
      /\ (p \div (block * N)) * block < S
      /\ p = (p \div (block * N)) * (block * N) + (p % (block * N))
      /\ p % (block * N) \in Nat
  <2> HIDE DEF c, b, q, k, len
  <2> QED BY <1>1, PlaceInBlock
<1>3. /\ c \in Nat \ {0} /\ b \in Nat /\ k < S
      /\ p = b * c + q /\ q \in Nat
  <2> HIDE DEF b
  <2> QED BY <1>0, <1>2, Zenon
<1> HIDE DEF c, b, q
<1>4. k \in Nat
  BY <1>3
<1> HIDE DEF k
<1>5. len = IF S - k < block THEN S - k ELSE block
  BY DEF BlockLen, S, k
<1> HIDE DEF len
<1>6. len \in 1 .. block /\ len + k <= S /\ len \in Nat \ {0}
  BY <1>1, <1>3, <1>4, <1>5
<1> DEFINE r == q % len
           a == q \div len
<1>7. r \in Nat /\ r < len /\ a \in Nat
  BY <1>3, <1>6, DivRem
<1>8. RankAt(p, block) = a * S + k + r
  BY <1>5 DEF RankAt, S, k, b, c, N, q
<1> HIDE DEF a, r
<1>9. a * S + k + r = a * S + (k + r) /\ k + r \in Nat /\ k + r < S
  BY <1>1, <1>4, <1>6, <1>7
<1>10. RankAt(p, block) \div S = a
  <2>1. S \in Nat \ {0}
    BY <1>3, <1>4, <1>1
  <2> QED BY <1>7, <1>8, <1>9, <2>1, DivRemUnique
<1>11. a \in 0 .. N - 1 /\ a * S + k + r \in 0 .. S * N - 1
  <2>1. q < block * N
    BY <1>3, DivRem DEF q, c
  <2>2. k * N + q < S * N
    <3>1. k * N = b * c
      BY <1>1, <1>3 DEF k, c
    <3> QED BY <1>1, <1>3, <3>1
  <2> QED BY <1>1, <1>3, <1>4, <1>5, <1>6, <2>1, <2>2, RankInBlock DEF a, r
<1>12. RankAt(p, block) \in Sites /\ RankAt(p, block) \div S \in Nodes
  BY <1>1, <1>8, <1>10, <1>11, LayoutFacts DEF Sites, N
<1> QED BY <1>3, <1>6, <1>10, <1>12 DEF S, a, q, c, N, b, len

LEMMA BlockLimit ==
  ASSUME lay \in Layouts, NEW s \in Nodes, NEW b \in Nat, NEW block \in Nat \ {0},
         NEW T \in SUBSET (0 .. Volume - 1),
         \A p \in T : /\ BlockOf(p, block) = b
                      /\ RankAt(p, block) \div SitesOnNode = s
  PROVE  IsFiniteSet(T) /\ Cardinality(T) <= block
<1>1. CASE T = {}
  BY <1>1, FS_EmptySet
<1>2. CASE T /= {}
  <2> DEFINE c   == block * Cardinality(Nodes)
             len == BlockLen(b, block)
             a   == b * c + s * len
  <2>1. s \in Nat
    BY LayoutFacts
  <2>2. ASSUME NEW p \in T
        PROVE  /\ len \in 1 .. block /\ c \in Nat \ {0}
               /\ p % c \in Nat /\ p = b * c + (p % c) /\ (p % c) \div len = s
    BY <2>2, TurnPlace
  <2>3. len \in 1 .. block /\ c \in Nat \ {0}
    BY <1>2, <2>2
  <2> HIDE DEF c, len
  <2>4. a \in Nat
    BY <2>1, <2>3
  <2>5. ASSUME NEW p \in T PROVE p \in a .. a + len - 1
    <3> DEFINE q == p % c
               r == q % len
    <3>1. q \in Nat /\ p = b * c + q /\ q \div len = s /\ len \in Nat \ {0}
      BY <2>2, <2>3, <2>5
    <3> HIDE DEF q
    <3>2. r \in Nat /\ r < len /\ q = s * len + r
      BY <3>1, DivRem
    <3> HIDE DEF r
    <3>3. p = a + r
      BY <2>1, <2>3, <3>1, <3>2
    <3> HIDE DEF a
    <3> QED BY <2>3, <2>4, <3>2, <3>3
  <2> HIDE DEF a
  <2>6. IsFiniteSet(a .. a + len - 1) /\ Cardinality(a .. a + len - 1) = len
    BY <2>3, <2>4, FS_Interval
  <2>7. T \subseteq a .. a + len - 1
    BY <2>5
  <2>8. IsFiniteSet(T) /\ Cardinality(T) <= len /\ Cardinality(T) \in Nat
    BY <2>6, <2>7, FS_Subset, FS_CardinalityType
  <2> QED BY <2>3, <2>8
<1> QED BY <1>1, <1>2

-----------------------------------------------------------------------------
(* The invariant bounds the messages under way.                            *)

LEMMA OneSendsLines ==
  ASSUME IInv, save = "serial", NEW m \in Nodes, at[m] \in {"sweep", "signal"}
  PROVE  Cardinality({n \in Nodes : chan[n][0] /= <<>>}) <= 1
<1> DEFINE B == {n \in Nodes : chan[n][0] /= <<>>}
           c == CurrentNode(pos[0])
<1> USE DEF IInv
<1>1. Saving
  BY DEF Barriers, BeforeSum, Saving
<1>2. LineInv /\ SweepInv
  BY <1>1 DEF SerialInv
<1>3. 0 \in Nodes /\ Nodes \subseteq Int
  BY LayoutFacts DEF Types
<1>4. \A n \in Nodes : pos[n] \in Nat
  BY SizeAssumption DEF Types
<1>5. ASSUME NEW n \in Nodes, chan[n][0] /= <<>> PROVE n = c
  <2>1. n /= 0
    BY <1>2, <1>3, <1>5 DEF SweepInv
  <2>2. /\ Balanced(chan[n][0], Clock(0), Clock(n), Lines(n))
        /\ \A k \in pos[0] .. pos[n] - 1 :
             NodeNumber(k) = n => \A i \in pos[0] .. k : CurrentNode(i) = n
    BY <1>2, <2>1 DEF SweepInv
  <2>3. /\ Clock(0) \in Int /\ pos[0] <= Clock(0)
        /\ Clock(n) \in Int /\ Clock(n) <= pos[n] + 1
    BY <1>3, <1>4 DEF Clock
  <2>4. PICK j \in Lines(n) : Clock(0) <= j /\ j < Clock(n)
    BY <1>3, <1>5, <2>2, <2>3, TurnsAreNumbers, SomeLeft DEF Types, ChanType
  <2>5. j \in 1 .. Volume /\ CurrentNode(j) = n
    BY <2>4 DEF Lines
  <2>6. pos[0] <= j /\ j <= pos[n] /\ j \in Nat /\ j /= 0
    BY <1>3, <1>4, <2>3, <2>4, <2>5, SizeAssumption
  <2>7. CASE j = pos[0]
    BY <2>5, <2>7
  <2>8. CASE j /= pos[0]
    <3>1. j - 1 \in pos[0] .. pos[n] - 1 /\ pos[0] \in pos[0] .. j - 1
      BY <1>3, <1>4, <2>6, <2>8
    <3>2. NodeNumber(j - 1) = n
      BY <2>5, <2>6 DEF CurrentNode
    <3> QED BY <2>2, <3>1, <3>2
  <2> QED BY <2>7, <2>8
<1>6. B \subseteq {c}
  BY <1>5
<1> HIDE DEF B, c
<1>7. IsFiniteSet({c}) /\ Cardinality({c}) = 1
  BY FS_Singleton
<1>8. Cardinality(B) <= 1
  BY <1>6, <1>7, FS_Subset
<1> QED BY <1>8 DEF B

LEMMA FewAreDealt ==
  ASSUME IInv, load = "parallel", NEW s \in Nodes, NEW d \in Nodes, at[d] = "deal"
  PROVE  Len(chan[s][d]) <= LoadBlock
<1> DEFINE D == Deals(s, d)
           T == Between(pos[d], pos[s], D)
           N == Cardinality(Nodes)
           b == BlockOf(pos[s] - 1, LoadBlock)
<1> USE DEF IInv
<1>1. Balanced(chan[s][d], pos[d], pos[s], D) /\ (pos[s] > 0 => BlockStart(pos[s] - 1) <= pos[d])
  BY DEF DealInv, Dealt
<1>2. pos[d] \in Nat /\ pos[s] \in Nat /\ pos[s] <= Volume /\ lay \in Layouts
      /\ LoadBlock \in Nat \ {0} /\ Volume \in Nat
  BY SizeAssumption DEF Types
<1>3. CASE pos[s] = 0
  <2>1. \A p \in D : ~(p < 0)
    BY DEF Deals
  <2>2. T = {}
    BY <1>3, <2>1 DEF Between
  <2> QED BY <1>1, <1>2, <2>2, FS_EmptySet DEF Balanced
<1>4. CASE pos[s] /= 0
  <2>1. pos[s] - 1 \in 0 .. Volume - 1
    BY <1>2, <1>4
  <2> DEFINE c == LoadBlock * N
             last == pos[s] - 1
  <2>2. /\ c \in Nat \ {0} /\ b \in Nat /\ last = b * c + (last % c) /\ last % c \in Nat
        /\ last % c < c
    <3>1. /\ c \in Nat \ {0} /\ b \in Nat /\ last = b * c + (last % c) /\ last % c \in Nat
      BY <1>2, <2>1, TurnPlace
    <3> HIDE DEF c
    <3> QED BY <1>2, <1>4, <3>1, DivRem
  <2>3. b * c <= pos[d]
    BY <1>1, <1>2, <1>4 DEF BlockStart
  <2> HIDE DEF c, b
  <2>4. ASSUME NEW p \in T PROVE p \in 0 .. Volume - 1 /\ BlockOf(p, LoadBlock) = b
                                 /\ RankAt(p, LoadBlock) \div SitesOnNode = s
    <3>1. /\ p \in 0 .. Volume - 1 /\ RankAt(p, LoadBlock) \div SitesOnNode = s
          /\ pos[d] <= p /\ p < pos[s]
      BY DEF Between, Deals
    <3> DEFINE r == p - b * c
    <3>2. b * c \in Nat
      BY <2>2
    <3>3. r \in Nat /\ p = b * c + r /\ r < c
      BY <1>2, <2>2, <2>3, <3>1, <3>2
    <3> HIDE DEF r
    <3>4. p \div c = b
      BY <2>2, <3>3, DivRemUnique
    <3> QED BY <3>1, <3>4 DEF BlockOf, c
  <2>5. T \in SUBSET (0 .. Volume - 1)
    BY <2>4
  <2> HIDE DEF T
  <2>6. Cardinality(T) <= LoadBlock
    BY <1>2, <2>2, <2>4, <2>5, BlockLimit
  <2> QED BY <1>1, <2>6 DEF Balanced, T
<1> QED BY <1>3, <1>4

LEMMA IInvBounds == IInv => NoPileup
BY OneSendsLines, FewAreDealt DEF NoPileup

-----------------------------------------------------------------------------
(* The invariant holds in the beginning, and of a new job.                 *)

LEMMA InitIInv == Init => IInv
<1> SUFFICES ASSUME Init PROVE IInv
  OBVIOUS
<1> USE DEF Init
<1>1. /\ save \in {"serial", "parallel", "checkpoint"}
      /\ at \in [Nodes -> StageSet]
      /\ \A n \in Nodes : at[n] = IF save = "serial" THEN "sweep"
                                  ELSE IF save = "parallel" THEN "turn" ELSE "list"
  BY FormatAssumption DEF StageSet, BeforeSum
<1>2. \A n \in Nodes : pos[n] = 0 /\ tbuf[n] = <<>>
  OBVIOUS
<1>3. \A s, d \in Nodes : chan[s][d] = <<>>
  OBVIOUS
<1>4. Types
  <2>1. pos \in [Nodes -> 0 .. Volume]
    BY SizeAssumption
  <2>2. ChanType
    BY <1>3, EmptyListed DEF ChanType
  <2> QED BY <1>1, <1>2, <2>1, <2>2, EmptyListed DEF Types
<1>5. Barriers
  BY <1>1 DEF Barriers, BeforeSum, Dealt
<1>6. StageInv
  BY <1>1, <1>2, SizeAssumption DEF StageInv
<1>7. 0 \in Nodes
  BY <1>4, LayoutFacts DEF Types
<1>8. QuietInv
  BY <1>3 DEF QuietInv
<1>9. SerialInv
  <2> SUFFICES ASSUME save = "serial" PROVE LineInv /\ SweepInv
    BY DEF SerialInv
  <2>1. LineInv
    BY <1>1, <1>2 DEF LineInv, HasLine
  <2>2. \A n \in Nodes : Clock(n) = 0
    BY <1>1, <1>2 DEF Clock
  <2>3. ASSUME NEW n \in Nodes
        PROVE  /\ Balanced(chan[n][0], Clock(0), Clock(n), Lines(n))
               /\ Balanced(chan[0][n], pos[n], pos[0], Signals(n))
    <3>1. /\ Clock(0) = 0 /\ Clock(n) = 0 /\ pos[n] = 0 /\ pos[0] = 0
          /\ chan[n][0] = <<>> /\ chan[0][n] = <<>>
      BY <1>2, <1>3, <1>7, <2>2
    <3> HIDE DEF Init
    <3> QED BY <3>1, NoneYet, TurnsAreNumbers
  <2>4. \A n \in Nodes : pos[0] .. pos[n] - 1 = {}
    BY <1>2, <1>7
  <2>5. SweepInv
    BY <1>3, <2>3, <2>4 DEF SweepInv
  <2> QED BY <2>1, <2>5
<1>10. ParallelInv
  <2>1. ASSUME NEW s \in Nodes, NEW d \in Nodes
        PROVE  Balanced(chan[s][d], pos[d], pos[s], Ships(s, d))
    <3>1. pos[s] = 0 /\ pos[d] = 0 /\ chan[s][d] = <<>>
      BY <1>2, <1>3
    <3> HIDE DEF Init
    <3> QED BY <3>1, NoneYet, TurnsAreNumbers
  <2> QED BY <2>1 DEF ParallelInv
<1>11. CheckpointInv
  BY <1>3 DEF CheckpointInv
<1>12. DealInv
  BY <1>1 DEF DealInv, Dealt
<1> QED BY <1>4, <1>5, <1>6, <1>8, <1>9, <1>10, <1>11, <1>12 DEF IInv

LEMMA NewJobIInv ==
  ASSUME IInv, NEW l \in Layouts, NewJob(l) PROVE IInv'
<1> USE DEF NewJob, NodeVarsInit
<1>1. /\ lay' \in Layouts /\ save' = save /\ load' = load
      /\ Nodes' = DOMAIN l
  BY DEF Nodes
<1>2. 0 \in Nodes'
  BY <1>1, NodesAre
<1>3. /\ at' \in [Nodes' -> StageSet] /\ \A n \in Nodes' : at'[n] = "closed"
      /\ \A n \in Nodes' : pos'[n] = 0 /\ tbuf'[n] = <<>>
      /\ \A s, d \in Nodes' : chan'[s][d] = <<>>
  <2>1. "closed" \in StageSet
    BY DEF StageSet, Idle
  <2> DEFINE M == DOMAIN l
  <2>2. /\ at' = [n \in M |-> "closed"] /\ pos' = [n \in M |-> 0]
        /\ tbuf' = [n \in M |-> <<>>]
        /\ chan' = [n \in M |-> [m \in M |-> <<>>]]
    OBVIOUS
  <2>3. Nodes' = M
    BY <1>1
  <2> HIDE DEF M, NewJob, NodeVarsInit
  <2> QED BY <2>1, <2>2, <2>3
<1>4. Types'
  <2>1. pos' \in [Nodes' -> 0 .. Volume]
    <3>1. pos' = [n \in Nodes' |-> 0] /\ 0 \in 0 .. Volume
      BY <1>1, SizeAssumption
    <3> HIDE DEF NewJob, NodeVarsInit
    <3> QED BY <3>1
  <2>2. \A n \in Nodes' : Listed(tbuf[n])'
    BY <1>3, EmptyListed DEF Listed
  <2>3. \A s, d \in Nodes' : Listed(chan[s][d])'
    BY <1>3, EmptyListed DEF Listed
  <2>4. DOMAIN chan' = Nodes' /\ \A s \in Nodes' : DOMAIN chan'[s] = Nodes'
    BY <1>1
  <2>5. ChanType'
    BY <2>3, <2>4 DEF ChanType
  <2> QED BY <1>1, <1>3, <2>1, <2>2, <2>5 DEF Types, IInv
<1>5. Barriers'
  BY <1>3 DEF Barriers, BeforeSum, Dealt
<1>6. StageInv'
  BY <1>3 DEF StageInv
<1>7. QuietInv'
  BY <1>3 DEF QuietInv
<1>8. ~Saving'
  BY <1>2, <1>3 DEF Saving, BeforeSum
<1>9. SerialInv' /\ ParallelInv' /\ CheckpointInv'
  BY <1>8 DEF SerialInv, ParallelInv, CheckpointInv
<1>10. DealInv'
  BY <1>3 DEF DealInv, Dealt
<1> QED BY <1>4, <1>5, <1>6, <1>7, <1>9, <1>10 DEF IInv

-----------------------------------------------------------------------------
(* Steps that send and receive nothing.                                    *)

Kept == UNCHANGED <<lay, save, load, pos, tbuf, chan>>

LEMMA KeptTypes ==
  ASSUME Types, Kept, at' \in [Nodes -> StageSet] PROVE Types'
<1> USE DEF Kept
<1>1. Nodes' = Nodes /\ ChanType'
  BY SameNodeNumber, UnsentIs DEF Types
<1>2. \A n \in Nodes : Listed(tbuf[n])'
  BY DEF Types, Listed
<1> QED BY <1>1, <1>2 DEF Types

LEMMA KeptSweep ==
  ASSUME Types, Kept, SweepInv,
         \A m \in Nodes : at'[m] = "sweep" <=> at[m] = "sweep"
  PROVE  SweepInv'
<1> USE DEF Kept
<1>1. Nodes' = Nodes /\ 0 \in Nodes
  BY SameNodeNumber, LayoutFacts DEF Types
<1>2. \A m \in Nodes : Clock(m)' = Clock(m)
  BY DEF Clock
<1>3. \A n, m \in Nodes : (n = 0 <=> m = 0) => chan'[n][m] = <<>>
  BY DEF SweepInv
<1>4. ASSUME NEW n \in Nodes, n /= 0
      PROVE  /\ Balanced(chan[n][0], Clock(0), Clock(n), Lines(n))'
             /\ Balanced(chan[0][n], pos[n], pos[0], Signals(n))'
  <2>1. /\ Balanced(chan[n][0], Clock(0), Clock(n), Lines(n))
        /\ Balanced(chan[0][n], pos[n], pos[0], Signals(n))
    BY <1>4 DEF SweepInv
  <2>2. /\ Lines(n)' = Lines(n) /\ Signals(n)' = Signals(n)
        /\ Clock(n)' = Clock(n) /\ Clock(0)' = Clock(0)
    BY <1>1, <1>2, <1>4, SameTurns
  <2> QED BY <2>1, <2>2 DEF Balanced, Between
<1>5. ASSUME NEW n \in Nodes, n /= 0, NEW k \in pos'[0] .. pos'[n] - 1,
             NodeNumber(k)' = n, NEW i \in pos'[0] .. k
      PROVE  CurrentNode(i)' = n
  <2>1. NodeNumber(k) = n
    BY <1>5, SameNodeNumber
  <2>2. k \in pos[0] .. pos[n] - 1 /\ i \in pos[0] .. k
    OBVIOUS
  <2>3. CurrentNode(i) = n
    BY <1>5, <2>1, <2>2 DEF SweepInv
  <2> QED BY <2>3, SameNodeNumber
<1> QED BY <1>1, <1>3, <1>4, <1>5 DEF SweepInv

LEMMA KeptLine ==
  ASSUME Types, Kept, LineInv,
         \A m \in Nodes : at'[m] = at[m] \/ at'[m] \notin {"sweep", "signal"}
  PROVE  LineInv'
<1> USE DEF Kept
<1>1. Nodes' = Nodes
  BY SameNodeNumber
<1>2. ASSUME NEW n \in Nodes
      PROVE  /\ HasLine(n, pos[n])' = HasLine(n, pos[n])
             /\ Turn(pos[n])' = Turn(pos[n])
  BY SameTurns
<1> QED BY <1>1, <1>2 DEF LineInv

LEMMA KeptShips ==
  ASSUME Types, Kept, NEW s \in Nodes, NEW d \in Nodes,
         Balanced(chan[s][d], pos[d], pos[s], Ships(s, d))
  PROVE  Balanced(chan[s][d], pos[d], pos[s], Ships(s, d))'
<1>1. Ships(s, d)' = Ships(s, d)
  BY SameTurns DEF Kept
<1> QED BY <1>1 DEF Balanced, Between, Kept

LEMMA KeptDeals ==
  ASSUME Types, Kept, list' = list, NEW s \in Nodes, NEW d \in Nodes,
         Balanced(chan[s][d], pos[d], pos[s], Deals(s, d)),
         pos[s] > 0 => BlockStart(pos[s] - 1) <= pos[d]
  PROVE  /\ Balanced(chan[s][d], pos[d], pos[s], Deals(s, d))'
         /\ (pos[s] > 0 => BlockStart(pos[s] - 1) <= pos[d])'
<1>1. Deals(s, d)' = Deals(s, d)
  BY SameTurns DEF Kept
<1>2. BlockStart(pos[s] - 1)' = BlockStart(pos[s] - 1)
  BY SameTurns DEF Kept
<1> QED BY <1>1, <1>2 DEF Balanced, Between, Kept

(* Nothing changes but where a node is, and it does not begin a deal.      *)
LEMMA StageStep ==
  ASSUME IInv, Kept, at' \in [Nodes -> StageSet],
         \A m \in Nodes : at'[m] = at[m] \/ (at[m] /= "sweep" /\ at'[m] \notin {"sweep", "signal"}),
         Saving' => Saving,
         \A m \in Nodes : at'[m] \in Dealt => at[m] \in Dealt /\ list' = list
  PROVE  Types' /\ SerialInv' /\ ParallelInv' /\ CheckpointInv' /\ DealInv'
<1> USE DEF IInv
<1>1. Types'
  BY KeptTypes
<1>2. Nodes' = Nodes /\ save' = save /\ load' = load
  BY SameNodeNumber DEF Kept
<1>3. SerialInv'
  BY <1>2, KeptSweep, KeptLine DEF SerialInv
<1>4. ParallelInv'
  BY <1>2, KeptShips DEF ParallelInv
<1>5. CheckpointInv'
  BY <1>2 DEF CheckpointInv, Kept
<1>6. DealInv'
  BY <1>2, KeptDeals DEF DealInv
<1> QED BY <1>1, <1>3, <1>4, <1>5, <1>6

LEMMA SaveValues ==
  IInv => /\ save \in {"serial", "parallel", "checkpoint"}
          /\ load \in {"serial", "parallel"}
BY FormatAssumption DEF IInv, Types

LEMMA WriteListIInv ==
  ASSUME IInv, NEW n \in Nodes, WriteList(n) PROVE IInv'
<1> USE DEF IInv, WriteList
<1>1. Nodes' = Nodes /\ Kept /\ at[n] = "list" /\ list' = list
  BY SameNodeNumber DEF Kept, nodevars, machine
<1>2. \A m \in Nodes : at'[m] = at[m] \/ (m = n /\ at'[m] = "turn")
  BY DEF Types
<1>3. at' \in [Nodes -> StageSet]
  BY DEF Types, StageSet, BeforeSum
<1>4. Types' /\ SerialInv' /\ ParallelInv' /\ CheckpointInv' /\ DealInv'
  <2>1. Saving' => Saving
    BY <1>1, <1>2 DEF Saving, BeforeSum
  <2> HIDE DEF IInv, WriteList
  <2> QED BY <1>1, <1>2, <1>3, <2>1, StageStep DEF Dealt
<1>5. Barriers'
  BY <1>1, <1>2 DEF Barriers, BeforeSum, Dealt
<1>6. StageInv'
  BY <1>1, <1>2 DEF StageInv, Kept
<1>7. QuietInv'
  BY <1>1, <1>2 DEF QuietInv, Idle, Kept
<1> QED BY <1>4, <1>5, <1>6, <1>7 DEF IInv

LEMMA EndTurnsIInv ==
  ASSUME IInv, NEW n \in Nodes, EndTurns(n) PROVE IInv'
<1> USE DEF IInv, EndTurns
<1>1. /\ Nodes' = Nodes /\ Kept /\ at[n] = "turn" /\ list' = list
      /\ save /= "checkpoint" => pos[n] = Volume
  BY SameNodeNumber, SaveValues DEF Kept, nodevars, machine, StageInv
<1>2. \A m \in Nodes : IF m = n THEN at'[m] = "sum" ELSE at'[m] = at[m]
  BY DEF Types
<1>3. at' \in [Nodes -> StageSet]
  BY DEF Types, StageSet, Idle
<1>4. Types' /\ SerialInv' /\ ParallelInv' /\ CheckpointInv' /\ DealInv'
  <2>1. Saving' => Saving
    BY <1>1, <1>2 DEF Saving, BeforeSum
  <2> HIDE DEF IInv, EndTurns
  <2> QED BY <1>1, <1>2, <1>3, <2>1, StageStep DEF Dealt
<1>5. Barriers'
  BY <1>1, <1>2 DEF Barriers, BeforeSum, Dealt
<1>6. StageInv'
  BY <1>1, <1>2 DEF StageInv, Kept
<1>7. QuietInv'
  <2> SUFFICES ASSUME \A m \in Nodes : at'[m] \in Idle, NEW s \in Nodes, NEW d \in Nodes
               PROVE  chan[s][d] = <<>>
    BY <1>1 DEF QuietInv, Kept
  <2>1. Saving
    BY <1>1 DEF Barriers, Saving, BeforeSum
  <2>2. \A m \in Nodes : m /= n => at[m] = "sum"
    BY <1>1, <1>2 DEF Barriers, BeforeSum, Idle
  <2>3. CASE save = "checkpoint"
    BY <2>1, <2>3 DEF CheckpointInv
  <2>4. CASE save = "parallel"
    <3>1. pos[s] = Volume /\ pos[d] = Volume
      BY <1>1, <2>2, <2>4 DEF StageInv
    <3>2. Balanced(chan[s][d], Volume, Volume, Ships(s, d))
      BY <2>1, <2>4, <3>1 DEF ParallelInv
    <3>3. Listed(chan[s][d]) /\ Volume \in Int /\ Ships(s, d) \in SUBSET Int
      BY SizeAssumption, TurnsAreNumbers DEF Types, ChanType
    <3> QED BY <3>2, <3>3, NoneLeft
  <2> QED BY <1>1, <2>3, <2>4, SaveValues DEF StageInv
<1> QED BY <1>4, <1>5, <1>6, <1>7 DEF IInv

LEMMA WriteBackIInv ==
  ASSUME IInv, NEW n \in Nodes, WriteBack(n) PROVE IInv'
<1> USE DEF IInv, WriteBack
<1>1. Nodes' = Nodes /\ Kept /\ at' = at /\ list' = list
  BY SameNodeNumber DEF Kept, nodevars, machine
<1>2. Types' /\ SerialInv' /\ ParallelInv' /\ CheckpointInv' /\ DealInv'
  <2>1. at' \in [Nodes -> StageSet]
    BY <1>1 DEF Types
  <2>2. Saving' => Saving
    BY <1>1 DEF Saving
  <2> HIDE DEF IInv, WriteBack
  <2> QED BY <1>1, <2>1, <2>2, StageStep
<1>3. Barriers' /\ StageInv' /\ QuietInv'
  BY <1>1 DEF Barriers, StageInv, QuietInv, Kept
<1> QED BY <1>2, <1>3 DEF IInv

(* Every node has come as far as the barrier.                              *)
LEMMA BarrierPassed ==
  ASSUME Types
  PROVE  /\ AllAt("sum") => \A m \in Nodes : at[m] \notin BeforeSum
         /\ AllAt("load") => \A m \in Nodes : at[m] \in Dealt \union {"load"}
<1>1. \A m \in Nodes : at[m] \in StageSet
  BY DEF Types
<1> QED BY <1>1, StageRanks DEF AllAt, StageSet, BeforeSum, Idle, Dealt

(* The steps from one barrier to the next, after the sweep and the turns.  *)
Passes(n, from, to) ==
  /\ Kept /\ list' = list
  /\ at[n] = from /\ at' = [at EXCEPT ![n] = to]

LEMMA PassesIInv ==
  ASSUME IInv, NEW n \in Nodes, NEW from \in {"sum", "close"},
         NEW to \in {"close", "closed"}, Passes(n, from, to),
         from = "sum" => AllAt("sum")
  PROVE  IInv'
<1> USE DEF IInv, Passes
<1>1. /\ Nodes' = Nodes
      /\ \A m \in Nodes : IF m = n THEN at'[m] = to ELSE at'[m] = at[m]
      /\ at' \in [Nodes -> StageSet]
  BY SameNodeNumber DEF Types, Kept, StageSet, Idle
<1>2. \A m \in Nodes : at[m] \notin BeforeSum
  BY BarrierPassed DEF Barriers, BeforeSum
<1>3. Types' /\ SerialInv' /\ ParallelInv' /\ CheckpointInv' /\ DealInv'
  <2>1. ~Saving'
    BY <1>1 DEF Saving, BeforeSum
  <2>2. \A m \in Nodes : at'[m] = at[m] \/ (at[m] /= "sweep" /\ at'[m] \notin {"sweep", "signal"})
    BY <1>1
  <2>3. \A m \in Nodes : at'[m] \in Dealt => at[m] \in Dealt
    BY <1>1 DEF Dealt
  <2>4. Kept /\ list' = list
    OBVIOUS
  <2> HIDE DEF IInv, Passes
  <2> QED BY <1>1, <2>1, <2>2, <2>3, <2>4, StageStep
<1>4. Barriers'
  BY <1>1, <1>2 DEF Barriers, BeforeSum, Dealt
<1>5. StageInv'
  BY <1>1 DEF StageInv, Kept
<1>6. QuietInv'
  BY <1>1 DEF QuietInv, Idle, Kept
<1> QED BY <1>3, <1>4, <1>5, <1>6 DEF IInv

LEMMA WriteChecksumIInv ==
  ASSUME IInv, NEW n \in Nodes, WriteChecksum(n) PROVE IInv'
<1>1. CASE at' = at
  <2>1. Kept /\ list' = list /\ Nodes' = Nodes
    BY SameNodeNumber DEF WriteChecksum, Kept, nodevars, machine
  <2>2. Types' /\ SerialInv' /\ ParallelInv' /\ CheckpointInv' /\ DealInv'
    <3>1. at' \in [Nodes -> StageSet] /\ (Saving' => Saving)
      BY <1>1, <2>1 DEF IInv, Types, Saving
    <3> QED BY <1>1, <2>1, <3>1, StageStep
  <2>3. Barriers' /\ StageInv' /\ QuietInv'
    BY <1>1, <2>1 DEF IInv, Barriers, StageInv, QuietInv, Kept
  <2> QED BY <2>2, <2>3 DEF IInv
<1>2. CASE at' = [at EXCEPT ![n] = "close"]
  <2>1. Passes(n, "sum", "close") /\ AllAt("sum")
    BY <1>2 DEF WriteChecksum, Passes, Kept, nodevars, machine
  <2> QED BY <2>1, PassesIInv
<1> QED BY <1>1, <1>2 DEF WriteChecksum

LEMMA CloseFileIInv ==
  ASSUME IInv, NEW n \in Nodes, CloseFile(n) PROVE IInv'
<1>1. Passes(n, "close", "closed")
  BY DEF CloseFile, Passes, Kept, nodevars, machine
<1> QED BY <1>1, PassesIInv

LEMMA CheckpointSiteIInv ==
  ASSUME IInv, NEW n \in Nodes, CheckpointSite(n) PROVE IInv'
<1> USE DEF IInv, CheckpointSite
<1>1. /\ UNCHANGED <<lay, save, load, at, tbuf, chan, list>>
      /\ at[n] = "turn" /\ save = "checkpoint" /\ Nodes' = Nodes
      /\ pos' = [pos EXCEPT ![n] = @ + 1] /\ pos[n] < SitesOnNode
  BY SameNodeNumber DEF machine
<1>2. ChanType' /\ \A m \in Nodes : Listed(tbuf[m])'
  BY <1>1, UnsentIs DEF Types, Listed
<1>3. pos' \in [Nodes -> 0 .. Volume]
  <2>1. SitesOnNode <= Volume
    <3> DEFINE S == SitesOnNode
               N == Cardinality(Nodes)
    <3>1. S \in Nat /\ N \in Nat \ {0} /\ S * N = Volume
      BY LayoutFacts DEF Types
    <3> HIDE DEF S, N
    <3>2. PICK k \in Nat : N = k + 1
      BY <3>1
    <3>3. S * N = S * k + S /\ S * k \in Nat
      BY <3>1, <3>2
    <3>4. S <= Volume
      BY <3>1, <3>3
    <3> QED BY <3>4 DEF S
  <2>2. pos[n] \in 0 .. Volume /\ SitesOnNode \in Nat /\ Volume \in Nat
    BY LayoutFacts, SizeAssumption DEF Types
  <2>3. pos[n] + 1 \in 0 .. Volume
    BY <1>1, <2>1, <2>2
  <2> QED BY <1>1, <2>3 DEF Types
<1>4. Types'
  BY <1>1, <1>2, <1>3 DEF Types
<1>5. Barriers' /\ QuietInv'
  BY <1>1 DEF Barriers, QuietInv
<1>6. StageInv'
  BY <1>1 DEF StageInv, Types
<1>7. SerialInv' /\ ParallelInv' /\ CheckpointInv'
  BY <1>1 DEF SerialInv, ParallelInv, CheckpointInv, Saving
<1>8. DealInv'
  BY <1>1 DEF DealInv, Barriers, Dealt, BeforeSum
<1> QED BY <1>4, <1>5, <1>6, <1>7, <1>8 DEF IInv

-----------------------------------------------------------------------------
(* The steps of a job that restores a file.                                *)

LEMMA OpenFileIInv ==
  ASSUME IInv, NEW n \in Nodes, OpenFile(n) PROVE IInv'
<1>1. /\ UNCHANGED <<lay, save, load, tbuf, chan>> /\ at[n] = "closed" /\ Nodes' = Nodes
      /\ \/ at' = at /\ pos' = pos /\ list' = list
         \/ at' = [at EXCEPT ![n] = "load"] /\ pos' = [pos EXCEPT ![n] = 0]
  BY SameNodeNumber DEF OpenFile, machine
<1> USE DEF IInv
<1>2. \A m \in Nodes :
        \/ at'[m] = at[m] /\ pos'[m] = pos[m]
        \/ m = n /\ at'[m] = "load" /\ pos'[m] = 0
  BY <1>1 DEF Types
<1>3. Types'
  <2>1. at' \in [Nodes -> StageSet] /\ pos' \in [Nodes -> 0 .. Volume]
    BY <1>1, SizeAssumption DEF Types, StageSet, Idle
  <2>2. ChanType' /\ \A m \in Nodes : Listed(tbuf[m])'
    BY <1>1, UnsentIs DEF Types, Listed
  <2> QED BY <1>1, <2>1, <2>2 DEF Types
<1>4. Barriers'
  BY <1>1, <1>2 DEF Barriers, BeforeSum, Dealt
<1>5. StageInv'
  BY <1>1, <1>2 DEF StageInv
<1>6. QuietInv'
  BY <1>1, <1>2 DEF QuietInv, Idle
<1>7. ~Saving'
  BY <1>1, <1>2 DEF Saving, BeforeSum
<1>8. SerialInv' /\ ParallelInv' /\ CheckpointInv'
  BY <1>7 DEF SerialInv, ParallelInv, CheckpointInv
<1>9. DealInv'
  BY <1>1, <1>2 DEF DealInv, Barriers, Dealt
<1> QED BY <1>3, <1>4, <1>5, <1>6, <1>8, <1>9 DEF IInv

LEMMA BeginDealIInv ==
  ASSUME IInv, NEW n \in Nodes, BeginDeal(n) PROVE IInv'
<1>1. /\ Kept /\ list' = list /\ at[n] = "load" /\ Nodes' = Nodes /\ AllAt("load")
      /\ at' = [at EXCEPT ![n] = "deal"]
  BY SameNodeNumber DEF BeginDeal, Kept, nodevars, machine
<1> USE DEF IInv
<1>2. \A m \in Nodes : IF m = n THEN at'[m] = "deal" ELSE at'[m] = at[m]
  BY <1>1 DEF Types
<1>3. \A m \in Nodes : at[m] \in Dealt \union {"load"}
  BY <1>1, BarrierPassed
<1>4. Types'
  <2>1. at' \in [Nodes -> StageSet]
    BY <1>1 DEF Types, StageSet, Dealt
  <2> QED BY <1>1, <2>1, KeptTypes
<1>5. Barriers'
  BY <1>1, <1>2, <1>3 DEF Barriers, BeforeSum, Dealt
<1>6. StageInv'
  BY <1>1, <1>2 DEF StageInv, Kept
<1>7. QuietInv' /\ ~Saving'
  BY <1>1, <1>2 DEF QuietInv, Saving, Idle, BeforeSum
<1>8. SerialInv' /\ ParallelInv' /\ CheckpointInv'
  BY <1>7 DEF SerialInv, ParallelInv, CheckpointInv
<1>9. DealInv'
  <2> SUFFICES ASSUME load = "parallel", NEW s \in Nodes, NEW d \in Nodes
               PROVE  /\ Balanced(chan[s][d], pos[d], pos[s], Deals(s, d))'
                      /\ (pos[s] > 0 => BlockStart(pos[s] - 1) <= pos[d])'
    BY <1>1 DEF DealInv, Kept
  <2>1. CASE \E m \in Nodes : at[m] \in Dealt
    BY <1>1, <2>1, KeptDeals DEF DealInv
  <2>2. CASE ~\E m \in Nodes : at[m] \in Dealt
    <3>1. \A m \in Nodes : at[m] = "load"
      BY <1>3, <2>2
    <3>2. pos[s] = 0 /\ pos[d] = 0 /\ chan[s][d] = <<>>
      BY <3>1 DEF StageInv, QuietInv, Idle
    <3>3. Balanced(chan[s][d], pos[d], pos[s], Deals(s, d))
      BY <3>2, NoneYet, TurnsAreNumbers
    <3> QED BY <1>1, <3>2, <3>3, KeptDeals
  <2> QED BY <2>1, <2>2
<1> QED BY <1>4, <1>5, <1>6, <1>7, <1>8, <1>9 DEF IInv

LEMMA EndOfDealIInv ==
  ASSUME IInv, NEW n \in Nodes, NEW to \in {"check", "over"},
         at[n] \in {"deal", "check"}, Kept, list' = list, at' = [at EXCEPT ![n] = to],
         load = "parallel" => pos[n] = Volume
  PROVE  IInv'
<1> USE DEF IInv
<1>1. /\ Nodes' = Nodes /\ at' \in [Nodes -> StageSet]
      /\ \A m \in Nodes : IF m = n THEN at'[m] = to ELSE at'[m] = at[m]
  BY SameNodeNumber DEF Types, Kept, StageSet, Dealt
<1>2. Types' /\ SerialInv' /\ ParallelInv' /\ CheckpointInv' /\ DealInv'
  <2>1. ~Saving'
    BY <1>1 DEF Saving, BeforeSum
  <2>2. \A m \in Nodes : at'[m] = at[m] \/ (at[m] /= "sweep" /\ at'[m] \notin {"sweep", "signal"})
    BY <1>1
  <2>3. \A m \in Nodes : at'[m] \in Dealt => at[m] \in Dealt
    BY <1>1 DEF Dealt
  <2> HIDE DEF IInv
  <2> QED BY <1>1, <2>1, <2>2, <2>3, StageStep
<1>3. Barriers'
  BY <1>1 DEF Barriers, BeforeSum, Dealt
<1>4. StageInv'
  BY <1>1 DEF StageInv, Kept
<1>5. QuietInv'
  BY <1>1 DEF QuietInv, Idle, Kept
<1> QED BY <1>2, <1>3, <1>4, <1>5 DEF IInv

LEMMA EndDealIInv ==
  ASSUME IInv, NEW n \in Nodes, EndDeal(n) PROVE IInv'
<1>1. /\ at[n] = "deal" /\ Kept /\ list' = list /\ at' = [at EXCEPT ![n] = "check"]
      /\ pos[n] = Volume
  BY DEF EndDeal, Kept, nodevars, machine
<1> QED BY <1>1, EndOfDealIInv

LEMMA ReadChecksumIInv ==
  ASSUME IInv, NEW n \in Nodes, ReadChecksum(n) PROVE IInv'
<1>1. at[n] = "check" /\ Kept /\ list' = list /\ at' = [at EXCEPT ![n] = "over"]
  BY DEF ReadChecksum, Kept, nodevars, machine
<1>2. load = "parallel" => pos[n] = Volume
  BY <1>1 DEF IInv, StageInv
<1> QED BY <1>1, <1>2, EndOfDealIInv

LEMMA SerialDealIInv ==
  ASSUME IInv, NEW n \in Nodes, SerialDeal(n) PROVE IInv'
<1> DEFINE s == list[pos[n]]
           dest == NodeNumber(s)
<1>1. /\ UNCHANGED <<lay, save, load, at, tbuf, list>> /\ Nodes' = Nodes
      /\ at[n] = "deal" /\ load = "serial" /\ pos[n] < Volume
  BY SameNodeNumber DEF SerialDeal, machine
<1>2. /\ \/ pos' = pos
         \/ pos' = [pos EXCEPT ![n] = @ + 1]
      /\ \/ chan' = chan
         \/ \E msg : chan' = Sent(0, dest, msg)
         \/ Arrived(0, n) /\ chan' = Received(0, n)
  BY DEF SerialDeal, ReadFails
<1> USE DEF IInv
<1>3. Types'
  <2>1. pos' \in [Nodes -> 0 .. Volume]
    <3>1. pos[n] \in 0 .. Volume /\ Volume \in Nat
      BY SizeAssumption DEF Types
    <3>2. pos[n] + 1 \in 0 .. Volume
      BY <1>1, <3>1
    <3> QED BY <1>2, <3>2 DEF Types
  <2>2. ChanType'
    <3> HIDE DEF dest
    <3> QED BY <1>1, <1>2, SentIs, ReceivedIs, UnsentIs DEF Types
  <2>3. \A m \in Nodes : Listed(tbuf[m])'
    BY <1>1 DEF Types, Listed
  <2> QED BY <1>1, <2>1, <2>2, <2>3 DEF Types
<1>4. Barriers' /\ QuietInv' /\ ~Saving'
  BY <1>1 DEF Barriers, QuietInv, Saving, Idle, BeforeSum
<1>5. SerialInv' /\ ParallelInv' /\ CheckpointInv'
  BY <1>4 DEF SerialInv, ParallelInv, CheckpointInv
<1>6. StageInv'
  BY <1>1, <1>2 DEF StageInv, Barriers, Types, Dealt
<1>7. DealInv'
  BY <1>1 DEF DealInv
<1> QED BY <1>3, <1>4, <1>5, <1>6, <1>7 DEF IInv

-----------------------------------------------------------------------------
(* Steps that send and receive: the messages from s to d remain those of   *)
(* the turns that s has made and d has not.                                *)

Moves(n) == lay' = lay /\ pos' = [pos EXCEPT ![n] = @ + 1]

LEMMA MovesTo ==
  ASSUME Types, NEW n \in Nodes, Moves(n)
  PROVE  \A m \in Nodes : /\ pos[m] \in Int
                          /\ pos'[m] = IF m = n THEN pos[m] + 1 ELSE pos[m]
BY SizeAssumption DEF Types, Moves

LEMMA Exchange ==
  ASSUME Types, NEW n \in Nodes, Moves(n), NEW s \in Nodes, NEW d \in Nodes,
         NEW P \in SUBSET Int, s = d => P = {}, NEW msg,
         Balanced(chan[s][d], pos[d], pos[s], P),
         n = d /\ pos[n] \in P => chan[s][d] /= <<>>,
         chan'[s][d] = IF pos[n] \notin P THEN chan[s][d]
                       ELSE IF n = s THEN Append(chan[s][d], msg)
                       ELSE IF n = d THEN Tail(chan[s][d]) ELSE chan[s][d]
  PROVE  Balanced(chan'[s][d], pos'[d], pos'[s], P)
<1>1. Listed(chan[s][d]) /\ pos[s] \in Int /\ pos[d] \in Int
  BY MovesTo DEF Types, ChanType
<1>2. CASE n = s /\ n = d
  <2>1. pos[n] \notin P /\ pos'[s] = pos[n] + 1 /\ pos'[d] = pos[n] + 1
    BY <1>2, MovesTo
  <2>2. Balanced(chan[s][d], pos[n], pos[n] + 1, P)
    BY <1>1, <1>2, <2>1, SendsNone
  <2>3. Balanced(chan[s][d], pos[n] + 1, pos[n] + 1, P)
    BY <1>1, <1>2, <2>1, <2>2, TakesNone
  <2> QED BY <2>1, <2>3
<1>3. CASE n = s /\ n /= d
  <2>1. pos'[s] = pos[s] + 1 /\ pos'[d] = pos[d]
    BY <1>3, MovesTo
  <2> QED BY <1>1, <1>3, <2>1, SendsOne, SendsNone
<1>4. CASE n /= s /\ n = d
  <2>1. pos'[s] = pos[s] /\ pos'[d] = pos[d] + 1
    BY <1>4, MovesTo
  <2> QED BY <1>1, <1>4, <2>1, TakesOne, TakesNone
<1>5. CASE n /= s /\ n /= d
  BY <1>5, MovesTo
<1> QED BY <1>2, <1>3, <1>4, <1>5

(* A turn of node n in which the node src has something for the node dest. *)
Trades(n, src, dest) ==
  \/ n = src /\ n /= dest /\ \E msg : chan' = Sent(n, dest, msg)
  \/ n = src /\ n = dest /\ chan' = chan
  \/ n /= src /\ n = dest /\ Arrived(src, n) /\ chan' = Received(src, n)
  \/ n \notin {src, dest} /\ chan' = chan

LEMMA TradesBalanced ==
  ASSUME Types, NEW n \in Nodes, Moves(n), NEW src, NEW dest, Trades(n, src, dest)
  PROVE  /\ ChanType'
         /\ \A s, d \in Nodes : \A P \in SUBSET Int :
              /\ s = d => P = {}
              /\ pos[n] \in P <=> s /= d /\ s = src /\ d = dest
              /\ Balanced(chan[s][d], pos[d], pos[s], P)
              => Balanced(chan'[s][d], pos'[d], pos'[s], P)
<1>1. lay' = lay /\ ChanType
  BY DEF Moves, Types
<1>2. ChanType'
  BY <1>1, SentIs, ReceivedIs, UnsentIs DEF Trades
<1>3. ASSUME NEW s \in Nodes, NEW d \in Nodes, NEW P \in SUBSET Int, s = d => P = {},
             pos[n] \in P <=> s /= d /\ s = src /\ d = dest,
             Balanced(chan[s][d], pos[d], pos[s], P)
      PROVE  Balanced(chan'[s][d], pos'[d], pos'[s], P)
  <2>1. CASE n = src /\ n /= dest /\ \E msg : chan' = Sent(n, dest, msg)
    <3>1. PICK msg : chan' = Sent(n, dest, msg)
      BY <2>1
    <3>2. chan'[s][d] = IF s = n /\ d = dest THEN Append(chan[s][d], msg) ELSE chan[s][d]
      BY <1>1, <3>1, SentIs
    <3>3. (s = n /\ d = dest) <=> (pos[n] \in P /\ n = s)
      BY <1>3, <2>1
    <3>4. pos[n] \in P => n = s /\ n /= d
      BY <1>3, <2>1
    <3>5. chan'[s][d] = IF pos[n] \notin P THEN chan[s][d]
                        ELSE IF n = s THEN Append(chan[s][d], msg)
                        ELSE IF n = d THEN Tail(chan[s][d]) ELSE chan[s][d]
      BY <3>2, <3>3, <3>4
    <3> QED BY <1>3, <3>4, <3>5, Exchange
  <2>2. CASE (n \notin {src, dest} \/ (n = src /\ n = dest)) /\ chan' = chan
    <3>1. pos[n] \in P => n /= s /\ n /= d
      BY <1>3, <2>2
    <3>2. chan'[s][d] = chan[s][d]
      BY <2>2
    <3>3. chan'[s][d] = IF pos[n] \notin P THEN chan[s][d]
                        ELSE IF n = s THEN Append(chan[s][d], 0)
                        ELSE IF n = d THEN Tail(chan[s][d]) ELSE chan[s][d]
      BY <3>1, <3>2
    <3> QED BY <1>3, <3>1, <3>3, Exchange
  <2>3. CASE n /= src /\ n = dest /\ Arrived(src, n) /\ chan' = Received(src, n)
    <3>1. chan'[s][d] = IF s = src /\ d = n THEN Tail(chan[s][d]) ELSE chan[s][d]
      BY <1>1, <2>3, ReceivedIs
    <3>2. (s = src /\ d = n) <=> pos[n] \in P
      BY <1>3, <2>3
    <3>3. pos[n] \in P => n /= s /\ n = d /\ chan[s][d] /= <<>>
      BY <1>3, <2>3 DEF Arrived
    <3>4. chan'[s][d] = IF pos[n] \notin P THEN chan[s][d]
                        ELSE IF n = s THEN Append(chan[s][d], 0)
                        ELSE IF n = d THEN Tail(chan[s][d]) ELSE chan[s][d]
      BY <3>1, <3>2, <3>3
    <3> QED BY <1>3, <3>3, <3>4, Exchange
  <2>4. \/ n = src /\ n /= dest /\ \E msg : chan' = Sent(n, dest, msg)
        \/ (n \notin {src, dest} \/ (n = src /\ n = dest)) /\ chan' = chan
        \/ n /= src /\ n = dest /\ Arrived(src, n) /\ chan' = Received(src, n)
    BY Zenon DEF Trades
  <2> QED BY <2>1, <2>2, <2>3, <2>4, Zenon
<1> QED BY <1>2, <1>3

LEMMA TradesTypes ==
  ASSUME Types, NEW n \in Nodes, Moves(n), pos[n] < Volume,
         UNCHANGED <<save, load, at, tbuf>>, ChanType'
  PROVE  Types' /\ Nodes' = Nodes
<1>1. Nodes' = Nodes
  BY SameNodeNumber DEF Moves
<1>2. pos' \in [Nodes -> 0 .. Volume]
  <2>1. pos[n] \in 0 .. Volume /\ Volume \in Nat
    BY SizeAssumption DEF Types
  <2>2. pos[n] + 1 \in 0 .. Volume
    BY <2>1
  <2> QED BY <2>2 DEF Types, Moves
<1>3. \A m \in Nodes : Listed(tbuf[m])'
  BY DEF Types, Listed
<1> QED BY <1>1, <1>2, <1>3 DEF Types, Moves

LEMMA ParallelTurnIInv ==
  ASSUME IInv, NEW n \in Nodes, ParallelTurn(n) PROVE IInv'
<1> DEFINE rank == RankAt(pos[n], MaxBufLength)
           dest == rank \div SitesOnNode
           src  == NodeNumber(rank)
<1>1. /\ UNCHANGED <<lay, save, load, at, tbuf, list>> /\ Moves(n)
      /\ at[n] = "turn" /\ save = "parallel" /\ pos[n] < Volume
  BY DEF ParallelTurn, Moves, machine
<1>2. Trades(n, src, dest)
  BY DEF ParallelTurn, Trades
<1> USE DEF IInv
<1>3. /\ ChanType'
      /\ \A s, d \in Nodes : \A P \in SUBSET Int :
           /\ s = d => P = {}
           /\ pos[n] \in P <=> s /= d /\ s = src /\ d = dest
           /\ Balanced(chan[s][d], pos[d], pos[s], P)
           => Balanced(chan'[s][d], pos'[d], pos'[s], P)
  <2> HIDE DEF src, dest, IInv
  <2> QED BY <1>1, <1>2, TradesBalanced DEF IInv
<1>4. Types' /\ Nodes' = Nodes
  BY <1>1, <1>3, TradesTypes
<1>5. Barriers' /\ QuietInv'
  BY <1>1, <1>4 DEF Barriers, QuietInv, Idle
<1>6. StageInv'
  <2>1. \A m \in Nodes : m /= n => pos'[m] = pos[m]
    BY <1>1, MovesTo
  <2> QED BY <1>1, <1>4, <2>1 DEF StageInv
<1>7. SerialInv' /\ CheckpointInv'
  BY <1>1 DEF SerialInv, CheckpointInv
<1>8. DealInv'
  BY <1>1, <1>4 DEF DealInv, Barriers, Dealt, BeforeSum
<1>9. ParallelInv'
  <2>1. Saving' <=> Saving
    BY <1>1, <1>4 DEF Saving
  <2>2. ASSUME Saving, NEW s \in Nodes, NEW d \in Nodes
        PROVE  Balanced(chan[s][d], pos[d], pos[s], Ships(s, d))'
    <3> DEFINE P == Ships(s, d)
    <3>1. P \in SUBSET Int /\ (s = d => P = {})
      BY TurnsAreNumbers DEF Ships
    <3>2. pos[n] \in P <=> s /= d /\ s = src /\ d = dest
      <4>1. pos[n] \in 0 .. Volume - 1
        BY <1>1, SizeAssumption DEF Types
      <4> QED BY <4>1 DEF Ships
    <3>3. Balanced(chan[s][d], pos[d], pos[s], P)
      BY <1>1, <2>2 DEF ParallelInv
    <3>4. P' = P
      BY <1>1, SameTurns
    <3> HIDE DEF P, src, dest
    <3>5. Balanced(chan'[s][d], pos'[d], pos'[s], P)
      BY <1>3, <3>1, <3>2, <3>3
    <3> QED BY <3>4, <3>5 DEF P, Balanced, Between
  <2> QED BY <1>1, <1>4, <2>1, <2>2 DEF ParallelInv
<1> QED BY <1>4, <1>5, <1>6, <1>7, <1>8, <1>9 DEF IInv

LEMMA ParallelDealIInv ==
  ASSUME IInv, NEW n \in Nodes, ParallelDeal(n) PROVE IInv'
<1> DEFINE rank == RankAt(pos[n], LoadBlock)
           src  == rank \div SitesOnNode
           dest == NodeNumber(list[rank])
<1>1. /\ UNCHANGED <<lay, save, load, at, tbuf, list>>
      /\ at[n] = "deal" /\ load = "parallel" /\ pos[n] < Volume
      /\ BlockBegun(n, LoadBlock)
  BY DEF ParallelDeal, machine
<1>2. \/ UNCHANGED <<pos, chan>>
      \/ Moves(n) /\ Trades(n, src, dest)
  BY DEF ParallelDeal, ReadFails, Trades, Moves
<1> USE DEF IInv
<1>3. CASE UNCHANGED <<pos, chan>>
  <2>1. Kept /\ Nodes' = Nodes
    BY <1>1, <1>3, SameNodeNumber DEF Kept
  <2>2. Types' /\ SerialInv' /\ ParallelInv' /\ CheckpointInv' /\ DealInv'
    <3>1. at' \in [Nodes -> StageSet] /\ (Saving' => Saving)
      BY <1>1, <2>1 DEF Types, Saving
    <3> HIDE DEF IInv
    <3> QED BY <1>1, <2>1, <3>1, StageStep
  <2>3. Barriers' /\ StageInv' /\ QuietInv'
    BY <1>1, <2>1 DEF Barriers, StageInv, QuietInv, Kept
  <2> QED BY <2>2, <2>3
<1>4. CASE Moves(n) /\ Trades(n, src, dest)
  <2>1. /\ ChanType'
        /\ \A s, d \in Nodes : \A P \in SUBSET Int :
             /\ s = d => P = {}
             /\ pos[n] \in P <=> s /= d /\ s = src /\ d = dest
             /\ Balanced(chan[s][d], pos[d], pos[s], P)
             => Balanced(chan'[s][d], pos'[d], pos'[s], P)
    <3> HIDE DEF src, dest, IInv
    <3> QED BY <1>4, TradesBalanced DEF IInv
  <2>2. Types' /\ Nodes' = Nodes
    BY <1>1, <1>4, <2>1, TradesTypes
  <2>3. Barriers' /\ QuietInv' /\ ~Saving'
    BY <1>1, <2>2 DEF Barriers, QuietInv, Idle, Saving, BeforeSum
  <2>4. StageInv'
    <3>1. \A m \in Nodes : m /= n => pos'[m] = pos[m]
      BY <1>4, MovesTo
    <3>2. at[n] = "deal"
      BY <1>1
    <3> QED BY <1>1, <2>2, <3>1, <3>2 DEF StageInv, Barriers, Dealt
  <2>5. SerialInv' /\ ParallelInv' /\ CheckpointInv'
    BY <2>3 DEF SerialInv, ParallelInv, CheckpointInv
  <2>6. \A s, d \in Nodes :
          /\ Balanced(chan[s][d], pos[d], pos[s], Deals(s, d))
          /\ pos[s] > 0 => BlockStart(pos[s] - 1) <= pos[d]
    BY <1>1 DEF DealInv, Dealt
  <2>7. ASSUME NEW s \in Nodes, NEW d \in Nodes
        PROVE  Balanced(chan[s][d], pos[d], pos[s], Deals(s, d))'
    <3> DEFINE P == Deals(s, d)
    <3>1. P \in SUBSET Int /\ (s = d => P = {})
      BY TurnsAreNumbers DEF Deals
    <3>2. pos[n] \in P <=> s /= d /\ s = src /\ d = dest
      <4>1. pos[n] \in 0 .. Volume - 1
        BY <1>1, SizeAssumption DEF Types
      <4> QED BY <4>1 DEF Deals
    <3>3. Balanced(chan[s][d], pos[d], pos[s], P)
      BY <2>6
    <3>4. P' = P
      BY <1>1, SameTurns
    <3> HIDE DEF P, src, dest
    <3>5. Balanced(chan'[s][d], pos'[d], pos'[s], P)
      BY <2>1, <3>1, <3>2, <3>3
    <3> QED BY <3>4, <3>5 DEF P, Balanced, Between
  <2>8. ASSUME NEW s \in Nodes, NEW d \in Nodes, pos'[s] > 0
        PROVE  BlockStart(pos'[s] - 1) <= pos'[d]
    <3>1. \A m \in Nodes : /\ pos[m] \in Nat /\ pos[m] <= Volume
                           /\ pos'[m] = IF m = n THEN pos[m] + 1 ELSE pos[m]
      BY <1>4, MovesTo, SizeAssumption DEF Types
    <3>2. CASE s /= n
      <4>1. pos[s] > 0 /\ pos[s] - 1 \in 0 .. Volume - 1
        BY <2>8, <3>1, <3>2, SizeAssumption
      <4> DEFINE B == BlockStart(pos[s] - 1)
      <4>2. B \in Int
        <5>1. /\ LoadBlock * Cardinality(Nodes) \in Nat
              /\ BlockOf(pos[s] - 1, LoadBlock) \in Nat
          BY <4>1, TurnPlace, SizeAssumption DEF Types
        <5> QED BY <5>1 DEF BlockStart
      <4>3. B <= pos[d]
        BY <2>6, <4>1
      <4>4. BlockStart(pos'[s] - 1) = B
        BY <3>1, <3>2
      <4> HIDE DEF B
      <4> QED BY <3>1, <4>2, <4>3, <4>4
    <3>3. CASE s = n
      <4> DEFINE b == BlockOf(pos[n], LoadBlock)
                 c == LoadBlock * Cardinality(Nodes)
                 B == BlockStart(pos[n])
      <4>1. pos[n] \in 0 .. Volume - 1
        BY <1>1, <3>1, SizeAssumption
      <4>2. B \in Int /\ B <= pos[n]
        <5>1. c \in Nat \ {0} /\ b \in Nat /\ pos[n] = b * c + (pos[n] % c) /\ pos[n] % c \in Nat
          BY <4>1, TurnPlace, SizeAssumption DEF Types
        <5>2. B = b * c
          BY DEF BlockStart
        <5> DEFINE r == pos[n] % c
        <5> HIDE DEF b, c, B, r
        <5>3. b * c \in Nat
          BY <5>1
        <5>4. pos[n] = b * c + r /\ r \in Nat
          BY <5>1 DEF r
        <5> QED BY <5>2, <5>3, <5>4
      <4>3. pos'[s] - 1 = pos[n]
        BY <3>1, <3>3
      <4>4. BlockStart(pos'[s] - 1) = B
        BY <4>3
      <4>5. B <= pos[d]
        <5>1. CASE pos[n] > 0 /\ BlockOf(pos[n], LoadBlock) = BlockOf(pos[n] - 1, LoadBlock)
          <6>1. BlockStart(pos[n] - 1) = B
            BY <5>1 DEF BlockStart
          <6> QED BY <2>6, <5>1, <6>1
        <5>2. CASE \A m \in Nodes : pos[m] >= pos[n] \/ Rank(at[m]) > Rank(at[n])
          <6>1. CASE pos[d] >= pos[n]
            <7> HIDE DEF B
            <7> QED BY <3>1, <4>2, <6>1
          <6>2. CASE Rank(at[d]) > Rank(at[n])
            <7>1. at[d] \in StageSet /\ at[n] = "deal"
              BY <1>1 DEF Types
            <7>2. at[d] \in {"check", "over"}
              BY <6>2, <7>1, StageRanks DEF StageSet, BeforeSum, Idle, Dealt
            <7>3. pos[d] = Volume
              BY <1>1, <7>2 DEF StageInv
            <7> HIDE DEF B
            <7> QED BY <3>1, <4>2, <7>3
          <6> QED BY <5>2, <6>1, <6>2
        <5> QED BY <1>1, <5>1, <5>2 DEF BlockBegun
      <4> HIDE DEF B
      <4> QED BY <3>1, <4>2, <4>4, <4>5
    <3> QED BY <3>2, <3>3
  <2>9. DealInv'
    <3>1. \A s, d \in Nodes :
            (pos[s] > 0 => BlockStart(pos[s] - 1) <= pos[d])'
      BY <1>1, <2>8, SameTurns DEF Moves
    <3> QED BY <2>2, <2>7, <3>1 DEF DealInv
  <2> QED BY <2>2, <2>3, <2>4, <2>5, <2>9
<1> QED BY <1>2, <1>3, <1>4

-----------------------------------------------------------------------------
(* The sweep of the lines to node 0.                                       *)

LEMMA SweptEmpty ==
  ASSUME Types, lay' = lay, ChanType', SweepInv', NEW v \in Int, NEW w \in Int,
         \A n \in Nodes : Clock(n)' = v /\ pos'[n] = w
  PROVE  \A s, d \in Nodes : chan'[s][d] = <<>>
<1> SUFFICES ASSUME NEW s \in Nodes, NEW d \in Nodes PROVE chan'[s][d] = <<>>
  OBVIOUS
<1>1. 0 \in Nodes /\ Nodes' = Nodes
  <2>1. 0 \in Nodes
    BY LayoutFacts DEF Types
  <2> QED BY <2>1, SameNodeNumber
<1>2. Listed(chan'[s][d])
  BY <1>1 DEF ChanType, Listed
<1>3. CASE s = 0 <=> d = 0
  BY <1>1, <1>3 DEF SweepInv
<1>4. CASE s /= 0 /\ d = 0
  <2>1. Balanced(chan[s][0], Clock(0), Clock(s), Lines(s))'
    BY <1>1, <1>4 DEF SweepInv
  <2>2. Lines(s)' = Lines(s) /\ Clock(0)' = v /\ Clock(s)' = v
    BY <1>1, SameTurns
  <2>3. Balanced(chan'[s][0], v, v, Lines(s))
    BY <2>1, <2>2 DEF Balanced, Between
  <2> QED BY <1>2, <1>4, <2>3, TurnsAreNumbers, NoneLeft
<1>5. CASE s = 0 /\ d /= 0
  <2>1. Balanced(chan[0][d], pos[d], pos[0], Signals(d))'
    BY <1>1, <1>5 DEF SweepInv
  <2>2. Signals(d)' = Signals(d) /\ pos'[0] = w /\ pos'[d] = w
    BY <1>1, SameTurns
  <2>3. Balanced(chan'[0][d], w, w, Signals(d))
    BY <2>1, <2>2 DEF Balanced, Between
  <2> QED BY <1>2, <1>5, <2>3, TurnsAreNumbers, NoneLeft
<1> QED BY <1>3, <1>4, <1>5

(* A node that sweeps its line, by the turn that this is.                  *)
Sweeps(n) ==
  LET j == pos[n]
      c == CurrentNode(j)
  IN  \/ ~Retires(n, j) /\ UNCHANGED <<tbuf, chan>>
      \/ /\ Retires(n, j) /\ n /= 0
         /\ \E msg : chan' = Sent(n, 0, msg)
         /\ tbuf' = [tbuf EXCEPT ![n] = <<>>]
      \/ /\ Retires(n, j) /\ n = 0
         /\ IF c = 0 THEN chan' = chan ELSE Arrived(c, 0) /\ chan' = Received(c, 0)
         /\ tbuf' = [tbuf EXCEPT ![0] = <<>>]

LEMMA SweepsChan ==
  ASSUME Types, LineInv, lay' = lay, NEW n \in Nodes, at[n] = "sweep", Sweeps(n)
  PROVE  /\ ChanType'
         /\ \A s, d \in Nodes : d /= 0 \/ s = 0 => chan'[s][d] = chan[s][d]
         /\ \A s \in Nodes \ {0} :
              LET mine == pos[n] \in Lines(s)
              IN  /\ n = s /\ mine => \E msg : chan'[s][0] = Append(chan[s][0], msg)
                  /\ n = 0 /\ mine => /\ chan[s][0] /= <<>>
                                      /\ chan'[s][0] = Tail(chan[s][0])
                  /\ n \notin {0, s} \/ ~mine => chan'[s][0] = chan[s][0]
<1> DEFINE j == pos[n]
           c == CurrentNode(j)
<1>1. j \in 0 .. Volume /\ Volume \in Nat /\ 0 \in Nodes /\ ChanType
  BY LayoutFacts, SizeAssumption DEF Types
<1>2. Retires(n, j) <=> HasLine(n, j) /\ Turn(j)
  BY DEF LineInv, Retires, Turn
<1>3. c /= 0 => j > 0
  BY <1>1 DEF CurrentNode
<1>4. ASSUME NEW s \in Nodes \ {0}
      PROVE  j \in Lines(s) <=> c = s /\ Turn(j)
  BY <1>1, <1>3, <1>4 DEF Lines
<1>5. CASE ~Retires(n, j) /\ UNCHANGED <<tbuf, chan>>
  <2>1. ChanType'
    BY <1>1, <1>5, UnsentIs
  <2>2. ASSUME NEW s \in Nodes \ {0}, n \in {0, s} PROVE j \notin Lines(s)
    BY <1>2, <1>3, <1>4, <1>5, <2>2 DEF HasLine
  <2> HIDE DEF j
  <2> QED BY <1>5, <2>1, <2>2 DEF j
<1>6. CASE Retires(n, j) /\ n /= 0 /\ \E msg : chan' = Sent(n, 0, msg)
  <2>1. PICK msg : chan' = Sent(n, 0, msg)
    BY <1>6
  <2>2. /\ ChanType'
        /\ \A a, b \in Nodes :
             chan'[a][b] = IF a = n /\ b = 0 THEN Append(chan[a][b], msg) ELSE chan[a][b]
    BY <1>1, <2>1, SentIs
  <2>3. j \in Lines(n)
    BY <1>2, <1>4, <1>6 DEF HasLine
  <2> HIDE DEF j, c
  <2> QED BY <1>1, <1>6, <2>2, <2>3 DEF j
<1>7. CASE Retires(n, j) /\ n = 0 /\ c = 0 /\ chan' = chan
  <2>1. ChanType'
    BY <1>1, <1>7, UnsentIs
  <2>2. ASSUME NEW s \in Nodes \ {0} PROVE j \notin Lines(s)
    BY <1>4, <1>7, <2>2
  <2> HIDE DEF j, c
  <2> QED BY <1>7, <2>1, <2>2 DEF j
<1>8. CASE Retires(n, j) /\ n = 0 /\ c /= 0 /\ Arrived(c, 0) /\ chan' = Received(c, 0)
  <2>1. /\ ChanType'
        /\ \A a, b \in Nodes :
             chan'[a][b] = IF a = c /\ b = 0 THEN Tail(chan[a][b]) ELSE chan[a][b]
    <3> HIDE DEF c
    <3> QED BY <1>1, <1>8, ReceivedIs
  <2>2. ASSUME NEW s \in Nodes \ {0} PROVE j \in Lines(s) <=> s = c
    BY <1>2, <1>4, <1>8, <2>2
  <2> HIDE DEF j, c
  <2> QED BY <1>1, <1>8, <2>1, <2>2 DEF j, Arrived
<1>9. \/ ~Retires(n, j) /\ UNCHANGED <<tbuf, chan>>
      \/ Retires(n, j) /\ n /= 0 /\ \E msg : chan' = Sent(n, 0, msg)
      \/ Retires(n, j) /\ n = 0 /\ c = 0 /\ chan' = chan
      \/ Retires(n, j) /\ n = 0 /\ c /= 0 /\ Arrived(c, 0) /\ chan' = Received(c, 0)
  BY DEF Sweeps
<1> HIDE DEF j, c
<1> QED BY <1>5, <1>6, <1>7, <1>8, <1>9

LEMMA SweepsSweepInv ==
  ASSUME Types, LineInv, SweepInv, lay' = lay, pos' = pos, NEW n \in Nodes,
         at[n] = "sweep", Sweeps(n), NEW to \in {"signal", "sum"},
         at' = [at EXCEPT ![n] = to]
  PROVE  SweepInv'
<1>1. /\ ChanType'
      /\ \A s, d \in Nodes : d /= 0 \/ s = 0 => chan'[s][d] = chan[s][d]
      /\ \A s \in Nodes \ {0} :
           LET mine == pos[n] \in Lines(s)
           IN  /\ n = s /\ mine => \E msg : chan'[s][0] = Append(chan[s][0], msg)
               /\ n = 0 /\ mine => /\ chan[s][0] /= <<>>
                                   /\ chan'[s][0] = Tail(chan[s][0])
               /\ n \notin {0, s} \/ ~mine => chan'[s][0] = chan[s][0]
  BY SweepsChan
<1>2. Nodes' = Nodes /\ 0 \in Nodes /\ \A m \in Nodes : pos[m] \in Int
  <2>1. Nodes' = Nodes
    BY SameNodeNumber
  <2>2. 0 \in Nodes
    BY LayoutFacts DEF Types
  <2>3. \A m \in Nodes : pos[m] \in Int
    BY SizeAssumption DEF Types
  <2> QED BY <2>1, <2>2, <2>3
<1>3. /\ Clock(n) = pos[n] /\ Clock(n)' = pos[n] + 1
      /\ \A m \in Nodes : Clock(m) \in Int /\ (m /= n => Clock(m)' = Clock(m))
  BY <1>2 DEF Clock, Types
<1>4. \A s, d \in Nodes : (s = 0 <=> d = 0) => chan'[s][d] = <<>>
  BY <1>1 DEF SweepInv
<1>5. ASSUME NEW s \in Nodes, s /= 0
      PROVE  Balanced(chan[s][0], Clock(0), Clock(s), Lines(s))'
  <2> DEFINE P == Lines(s)
             mine == pos[n] \in P
             q == chan[s][0]
             r == chan'[s][0]
             lo == Clock(0)'
             hi == Clock(s)'
  <2>1. P \in SUBSET Int /\ Listed(q) /\ Balanced(q, Clock(0), Clock(s), P)
    BY <1>2, <1>5, TurnsAreNumbers DEF SweepInv, Types, ChanType
  <2>2. /\ n = s /\ mine => \E msg : r = Append(q, msg)
        /\ n = 0 /\ mine => q /= <<>> /\ r = Tail(q)
        /\ n \notin {0, s} \/ ~mine => r = q
    BY <1>1, <1>5
  <2>3. P' = P
    BY SameTurns
  <2>4. Balanced(r, lo, hi, P)
    <3>1. CASE n = s
      <4>1. Clock(s) = pos[n] /\ hi = Clock(s) + 1 /\ lo = Clock(0) /\ Clock(0) \in Int /\ Clock(s) \in Int
        BY <1>2, <1>3, <1>5, <3>1
      <4> HIDE DEF P, q, r, lo, hi
      <4>2. CASE mine
        <5>1. PICK msg : r = Append(q, msg)
          BY <2>2, <3>1, <4>2
        <5> QED BY <2>1, <4>1, <4>2, <5>1, SendsOne
      <4>3. CASE ~mine
        BY <2>1, <2>2, <4>1, <4>3, SendsNone
      <4> QED BY <4>2, <4>3
    <3>2. CASE n = 0
      <4>1. Clock(0) = pos[n] /\ lo = Clock(0) + 1 /\ hi = Clock(s) /\ Clock(0) \in Int /\ Clock(s) \in Int
        BY <1>2, <1>3, <1>5, <3>2
      <4> HIDE DEF P, q, r, lo, hi
      <4>2. CASE mine
        BY <2>1, <2>2, <3>2, <4>1, <4>2, TakesOne
      <4>3. CASE ~mine
        BY <2>1, <2>2, <4>1, <4>3, TakesNone
      <4> QED BY <4>2, <4>3
    <3>3. CASE n \notin {0, s}
      BY <1>2, <1>3, <2>1, <2>2, <3>3
    <3> QED BY <3>1, <3>2, <3>3
  <2> HIDE DEF P
  <2> QED BY <2>3, <2>4 DEF P, Balanced, Between
<1>6. ASSUME NEW s \in Nodes, s /= 0
      PROVE  Balanced(chan[0][s], pos[s], pos[0], Signals(s))'
  <2>1. Balanced(chan[0][s], pos[s], pos[0], Signals(s))
    BY <1>6 DEF SweepInv
  <2>2. chan'[0][s] = chan[0][s] /\ Signals(s)' = Signals(s)
    BY <1>1, <1>2, <1>6, SameTurns
  <2> QED BY <2>1, <2>2 DEF Balanced, Between
<1>7. ASSUME NEW s \in Nodes, s /= 0, NEW k \in pos'[0] .. pos'[s] - 1,
             NodeNumber(k)' = s, NEW i \in pos'[0] .. k
      PROVE  CurrentNode(i)' = s
  <2>1. NodeNumber(k) = s
    BY <1>7, SameNodeNumber
  <2>2. CurrentNode(i) = s
    BY <1>7, <2>1 DEF SweepInv
  <2> QED BY <2>2, SameNodeNumber
<1> QED BY <1>2, <1>4, <1>5, <1>6, <1>7 DEF SweepInv

LEMMA SweepsLineInv ==
  ASSUME Types, LineInv, lay' = lay, pos' = pos, NEW n \in Nodes,
         at[n] = "sweep", Sweeps(n), NEW to \in {"signal", "sum"},
         at' = [at EXCEPT ![n] = to]
  PROVE  LineInv'
<1>1. Nodes' = Nodes
  BY SameNodeNumber
<1>2. \A m \in Nodes : HasLine(m, pos[m])' = HasLine(m, pos[m]) /\ Turn(pos[m])' = Turn(pos[m])
  BY SameTurns
<1>3. \A m \in Nodes : m /= n => tbuf'[m] = tbuf[m] /\ at'[m] = at[m]
  BY DEF Sweeps, Types
<1>4. tbuf'[n] /= <<>> <=> HasLine(n, pos[n]) /\ ~Turn(pos[n])
  <2>1. Retires(n, pos[n]) <=> tbuf[n] /= <<>> /\ Turn(pos[n])
    BY DEF Retires, Turn
  <2>2. tbuf'[n] = IF Retires(n, pos[n]) THEN <<>> ELSE tbuf[n]
    BY DEF Sweeps, Types
  <2> QED BY <2>1, <2>2 DEF LineInv
<1>5. at'[n] = to
  BY DEF Types
<1> QED BY <1>1, <1>2, <1>3, <1>4, <1>5 DEF LineInv

LEMMA SweepLineIInv ==
  ASSUME IInv, NEW n \in Nodes, SweepLine(n) PROVE IInv'
<1> DEFINE to == IF pos[n] = Volume THEN "sum" ELSE "signal"
<1>1. /\ UNCHANGED <<lay, save, load, pos, list>> /\ Nodes' = Nodes
      /\ at[n] = "sweep" /\ save = "serial" /\ at' = [at EXCEPT ![n] = to]
  BY SameNodeNumber DEF SweepLine, machine
<1>2. Sweeps(n)
  BY DEF SweepLine, Sweeps
<1> USE DEF IInv
<1>3. Saving /\ LineInv /\ SweepInv
  <2>1. Saving
    BY <1>1 DEF Barriers, BeforeSum, Saving
  <2> QED BY <1>1, <2>1 DEF SerialInv
<1>4. \A m \in Nodes : IF m = n THEN at'[m] = to ELSE at'[m] = at[m]
  BY <1>1 DEF Types
<1>5. to \in {"signal", "sum"} /\ to \in StageSet
  BY DEF StageSet, BeforeSum, Idle
<1>6. LineInv' /\ SweepInv'
  <2> HIDE DEF to
  <2> QED BY <1>1, <1>2, <1>3, <1>5, SweepsSweepInv, SweepsLineInv
<1>7. Types'
  <2>1. ChanType'
    BY <1>1, <1>2, <1>3, SweepsChan
  <2>2. DOMAIN tbuf' = Nodes /\ \A m \in Nodes : tbuf'[m] = tbuf[m] \/ tbuf'[m] = <<>>
    BY <1>2 DEF Sweeps, Types
  <2>3. \A m \in Nodes : Listed(tbuf[m])'
    BY <2>2, EmptyListed DEF Types, Listed
  <2>4. at' \in [Nodes -> StageSet]
    BY <1>1, <1>5 DEF Types
  <2> QED BY <1>1, <2>1, <2>2, <2>3, <2>4 DEF Types
<1>8. Barriers'
  BY <1>1, <1>4, <1>5 DEF Barriers, BeforeSum, Dealt
<1>9. StageInv'
  <2>1. pos[n] \in 0 .. Volume /\ Volume \in Nat
    BY SizeAssumption DEF Types
  <2>2. pos[n] /= Volume => pos[n] < Volume
    BY <2>1
  <2> QED BY <1>1, <1>4, <2>2 DEF StageInv
<1>10. QuietInv'
  <2> SUFFICES ASSUME \A m \in Nodes : at'[m] \in Idle
               PROVE  \A s, d \in Nodes : chan'[s][d] = <<>>
    BY <1>1 DEF QuietInv
  <2>1. \A m \in Nodes : at'[m] = "sum"
    BY <1>3, <1>4, <1>5 DEF Saving, Idle, BeforeSum
  <2>2. \A m \in Nodes : pos'[m] = Volume
    BY <1>1, <1>9, <2>1 DEF StageInv
  <2>3. \A m \in Nodes : Clock(m)' = Volume + 1
    BY <2>1, <2>2 DEF Clock
  <2>4. Volume \in Int /\ Volume + 1 \in Int
    BY SizeAssumption
  <2>5. Types /\ ChanType'
    BY <1>7 DEF Types
  <2> HIDE DEF IInv
  <2> QED BY <1>1, <1>6, <2>2, <2>3, <2>4, <2>5, SweptEmpty
<1>11. SerialInv' /\ ParallelInv' /\ CheckpointInv'
  BY <1>1, <1>6 DEF SerialInv, ParallelInv, CheckpointInv
<1>12. DealInv'
  BY <1>1, <1>4, <1>3, <1>5 DEF DealInv, Saving, Dealt, BeforeSum
<1> QED BY <1>7, <1>8, <1>9, <1>10, <1>11, <1>12

(* A node that makes room for the next site, and its clear to send signal. *)
Signalled(n) ==
  LET new == NodeNumber(pos[n])
  IN  IF new = CurrentNode(pos[n]) \/ new = 0 \/ n \notin {0, new} THEN chan' = chan
      ELSE IF n = 0 THEN \E msg : chan' = Sent(0, new, msg)
      ELSE Arrived(0, n) /\ chan' = Received(0, n)

LEMMA SignalledChan ==
  ASSUME Types, lay' = lay, NEW n \in Nodes, pos[n] < Volume, Signalled(n)
  PROVE  /\ ChanType'
         /\ \A s, d \in Nodes : d = 0 \/ s /= 0 => chan'[s][d] = chan[s][d]
         /\ \A d \in Nodes \ {0} :
              LET mine == pos[n] \in Signals(d)
              IN  /\ n = 0 /\ mine => \E msg : chan'[0][d] = Append(chan[0][d], msg)
                  /\ n = d /\ mine => /\ chan[0][d] /= <<>>
                                      /\ chan'[0][d] = Tail(chan[0][d])
                  /\ n \notin {0, d} \/ ~mine => chan'[0][d] = chan[0][d]
<1> DEFINE j == pos[n]
           c == CurrentNode(j)
           new == NodeNumber(j)
<1>1. ChanType /\ j \in 0 .. Volume - 1
  BY SizeAssumption DEF Types
<1>2. 0 \in Nodes
  BY LayoutFacts DEF Types
<1>3. \A d \in Nodes : j \in Signals(d) <=> new = d /\ c /= d
  BY <1>1 DEF Signals
<1> HIDE DEF j, c, new
<1>4. CASE (new = c \/ new = 0 \/ n \notin {0, new}) /\ chan' = chan
  <2>1. ChanType'
    BY <1>1, <1>4, UnsentIs
  <2>2. ASSUME NEW d \in Nodes \ {0}, n \in {0, d} PROVE j \notin Signals(d)
    BY <1>3, <1>4, <2>2
  <2> QED BY <1>4, <2>1, <2>2 DEF j
<1>5. CASE new /= c /\ new /= 0 /\ n = 0 /\ \E msg : chan' = Sent(0, new, msg)
  <2>1. PICK msg : chan' = Sent(0, new, msg)
    BY <1>5
  <2>2. /\ ChanType'
        /\ \A a, b \in Nodes :
             chan'[a][b] = IF a = 0 /\ b = new THEN Append(chan[a][b], msg) ELSE chan[a][b]
    BY <1>1, <2>1, SentIs
  <2>3. \A d \in Nodes : j \in Signals(d) <=> new = d
    BY <1>3, <1>5
  <2> QED BY <1>2, <1>5, <2>2, <2>3 DEF j
<1>6. CASE new /= c /\ n /= 0 /\ n = new /\ Arrived(0, n) /\ chan' = Received(0, n)
  <2>1. /\ ChanType'
        /\ \A a, b \in Nodes :
             chan'[a][b] = IF a = 0 /\ b = n THEN Tail(chan[a][b]) ELSE chan[a][b]
    BY <1>1, <1>6, ReceivedIs
  <2>2. \A d \in Nodes : j \in Signals(d) <=> n = d
    BY <1>3, <1>6
  <2> QED BY <1>2, <1>6, <2>1, <2>2 DEF j, Arrived
<1>7. \/ (new = c \/ new = 0 \/ n \notin {0, new}) /\ chan' = chan
      \/ new /= c /\ new /= 0 /\ n = 0 /\ \E msg : chan' = Sent(0, new, msg)
      \/ new /= c /\ n /= 0 /\ n = new /\ Arrived(0, n) /\ chan' = Received(0, n)
  BY DEF Signalled, j, c, new
<1> QED BY <1>4, <1>5, <1>6, <1>7

LEMMA SignalledSweepInv ==
  ASSUME Types, SweepInv, NEW n \in Nodes, Moves(n), pos[n] < Volume,
         at[n] = "signal", at' = [at EXCEPT ![n] = "sweep"], Signalled(n)
  PROVE  SweepInv'
<1>1. lay' = lay
  BY DEF Moves
<1>2. /\ ChanType'
      /\ \A s, d \in Nodes : d = 0 \/ s /= 0 => chan'[s][d] = chan[s][d]
      /\ \A d \in Nodes \ {0} :
           LET mine == pos[n] \in Signals(d)
           IN  /\ n = 0 /\ mine => \E msg : chan'[0][d] = Append(chan[0][d], msg)
               /\ n = d /\ mine => /\ chan[0][d] /= <<>>
                                   /\ chan'[0][d] = Tail(chan[0][d])
               /\ n \notin {0, d} \/ ~mine => chan'[0][d] = chan[0][d]
  BY <1>1, SignalledChan
<1>3. 0 \in Nodes /\ Nodes' = Nodes
  <2>1. 0 \in Nodes
    BY LayoutFacts DEF Types
  <2> QED BY <1>1, <2>1, SameNodeNumber
<1>4. \A m \in Nodes : /\ pos[m] \in Nat
                       /\ pos'[m] = IF m = n THEN pos[m] + 1 ELSE pos[m]
  BY MovesTo, SizeAssumption DEF Types
<1>5. \A m \in Nodes : Clock(m)' = Clock(m)
  <2>1. \A m \in Nodes : at'[m] = IF m = n THEN "sweep" ELSE at[m]
    BY DEF Types
  <2> QED BY <1>4, <2>1 DEF Clock
<1>6. \A s, d \in Nodes : (s = 0 <=> d = 0) => chan'[s][d] = <<>>
  BY <1>2 DEF SweepInv
<1>7. ASSUME NEW s \in Nodes, s /= 0
      PROVE  Balanced(chan[s][0], Clock(0), Clock(s), Lines(s))'
  <2>1. Balanced(chan[s][0], Clock(0), Clock(s), Lines(s))
    BY <1>7 DEF SweepInv
  <2>2. chan'[s][0] = chan[s][0] /\ Lines(s)' = Lines(s)
        /\ Clock(s)' = Clock(s) /\ Clock(0)' = Clock(0)
    BY <1>1, <1>2, <1>3, <1>5, <1>7, SameTurns
  <2> QED BY <2>1, <2>2 DEF Balanced, Between
<1>8. ASSUME NEW d \in Nodes, d /= 0
      PROVE  Balanced(chan[0][d], pos[d], pos[0], Signals(d))'
  <2> DEFINE P == Signals(d)
             mine == pos[n] \in P
             q == chan[0][d]
             r == chan'[0][d]
             lo == pos'[d]
             hi == pos'[0]
  <2>1. P \in SUBSET Int /\ Listed(q) /\ Balanced(q, pos[d], pos[0], P)
    BY <1>3, <1>8, TurnsAreNumbers DEF SweepInv, Types, ChanType
  <2>2. /\ n = 0 /\ mine => \E msg : r = Append(q, msg)
        /\ n = d /\ mine => q /= <<>> /\ r = Tail(q)
        /\ n \notin {0, d} \/ ~mine => r = q
    BY <1>2, <1>8
  <2>3. P' = P
    BY <1>1, SameTurns
  <2>4. Balanced(r, lo, hi, P)
    <3>1. CASE n = 0
      <4>1. pos[0] \in Int /\ pos[d] \in Int /\ hi = pos[0] + 1 /\ lo = pos[d]
        BY <1>3, <1>4, <1>8, <3>1
      <4> HIDE DEF P, q, r, lo, hi
      <4>2. CASE mine
        <5>1. PICK msg : r = Append(q, msg)
          BY <2>2, <3>1, <4>2
        <5> QED BY <2>1, <3>1, <4>1, <4>2, <5>1, SendsOne
      <4>3. CASE ~mine
        BY <2>1, <2>2, <3>1, <4>1, <4>3, SendsNone
      <4> QED BY <4>2, <4>3
    <3>2. CASE n = d
      <4>1. pos[0] \in Int /\ pos[d] \in Int /\ hi = pos[0] /\ lo = pos[d] + 1
        BY <1>3, <1>4, <1>8, <3>2
      <4> HIDE DEF P, q, r, lo, hi
      <4>2. CASE mine
        BY <2>1, <2>2, <3>2, <4>1, <4>2, TakesOne
      <4>3. CASE ~mine
        BY <2>1, <2>2, <3>2, <4>1, <4>3, TakesNone
      <4> QED BY <4>2, <4>3
    <3>3. CASE n \notin {0, d}
      BY <1>3, <1>4, <2>1, <2>2, <3>3
    <3> QED BY <3>1, <3>2, <3>3
  <2> HIDE DEF P
  <2> QED BY <2>3, <2>4 DEF P, Balanced, Between
<1>9. ASSUME NEW d \in Nodes, d /= 0, NEW k \in pos'[0] .. pos'[d] - 1,
             NodeNumber(k) = d, NEW i \in pos'[0] .. k
      PROVE  CurrentNode(i) = d
  <2>1. \A k1 \in pos[0] .. pos[d] - 1 :
          NodeNumber(k1) = d => \A i1 \in pos[0] .. k1 : CurrentNode(i1) = d
    BY <1>9 DEF SweepInv
  <2>2. /\ pos[0] \in Nat /\ pos[d] \in Nat /\ pos[0] <= pos'[0]
        /\ pos'[d] = IF d = n THEN pos[d] + 1 ELSE pos[d]
        /\ pos'[0] \in Nat
    BY <1>3, <1>4
  <2>3. CASE k < pos[d]
    <3>1. k \in pos[0] .. pos[d] - 1 /\ i \in pos[0] .. k
      BY <2>2, <2>3
    <3> QED BY <1>9, <2>1, <3>1
  <2>4. CASE ~(k < pos[d])
    <3>1. k = pos[d] /\ d = n /\ pos[0] <= i /\ i <= k /\ i \in Nat
      BY <2>2, <2>4
    <3>2. CurrentNode(k) = d
      <4> SUFFICES ASSUME CurrentNode(k) /= d PROVE FALSE
        OBVIOUS
      <4>1. k \in Signals(d)
        <5>1. k \in 0 .. Volume - 1
          BY <2>2, <3>1, SizeAssumption
        <5> QED BY <1>9, <5>1 DEF Signals
      <4>2. chan[0][d] /= <<>>
        BY <1>2, <1>9, <3>1, <4>1
      <4>3. Listed(chan[0][d]) /\ Balanced(chan[0][d], pos[d], pos[0], Signals(d))
        BY <1>3, <1>9 DEF SweepInv, Types, ChanType
      <4>4. \E p \in Signals(d) : pos[d] <= p /\ p < pos[0]
        BY <2>2, <4>2, <4>3, SomeLeft, TurnsAreNumbers
      <4>5. Signals(d) \subseteq Int
        BY TurnsAreNumbers
      <4> QED BY <2>2, <3>1, <4>4, <4>5
    <3>3. CASE i = k
      BY <3>2, <3>3
    <3>4. CASE i /= k
      <4>1. k - 1 \in pos[0] .. pos[d] - 1 /\ i \in pos[0] .. k - 1
        BY <2>2, <3>1, <3>4
      <4>2. k /= 0
        BY <2>2, <3>1, <3>4
      <4>3. NodeNumber(k - 1) = d
        BY <3>2, <4>2 DEF CurrentNode
      <4> QED BY <2>1, <4>1, <4>3
    <3> QED BY <3>3, <3>4
  <2> QED BY <2>3, <2>4
<1>10. ASSUME NEW d \in Nodes, d /= 0, NEW k \in pos'[0] .. pos'[d] - 1,
              NodeNumber(k)' = d, NEW i \in pos'[0] .. k
       PROVE  CurrentNode(i)' = d
  <2>1. NodeNumber(k) = d
    BY <1>1, <1>10, SameNodeNumber
  <2>2. CurrentNode(i) = d
    BY <1>9, <1>10, <2>1
  <2> QED BY <1>1, <2>2, SameNodeNumber
<1> QED BY <1>3, <1>6, <1>7, <1>8, <1>10 DEF SweepInv

LEMMA SignalNewNodeIInv ==
  ASSUME IInv, NEW n \in Nodes, SignalNewNode(n) PROVE IInv'
<1> DEFINE j == pos[n]
           new == NodeNumber(j)
           mine == IF n = new THEN <<j>> ELSE IF n = 0 THEN <<None>> ELSE <<>>
<1> USE DEF IInv
<1>1. /\ UNCHANGED <<save, load, list>> /\ Moves(n) /\ lay' = lay
      /\ at[n] = "signal" /\ save = "serial" /\ at' = [at EXCEPT ![n] = "sweep"]
      /\ tbuf' = [tbuf EXCEPT ![n] = @ \o mine]
  BY DEF SignalNewNode, machine, Moves
<1>2. Signalled(n)
  BY DEF SignalNewNode, Signalled
<1>3. pos[n] < Volume
  BY <1>1 DEF StageInv
<1>4. Saving /\ LineInv /\ SweepInv
  <2>1. Saving
    BY <1>1 DEF Barriers, BeforeSum, Saving
  <2> QED BY <1>1, <2>1 DEF SerialInv
<1>5. SweepInv' /\ ChanType' /\ Nodes' = Nodes
  <2> HIDE DEF IInv
  <2>1. Types
    BY DEF IInv
  <2> QED BY <1>1, <1>2, <1>3, <1>4, <2>1, SignalledSweepInv, SignalledChan, SameNodeNumber
<1>6. /\ \A m \in Nodes : m /= n => tbuf'[m] = tbuf[m]
      /\ tbuf'[n] = IF n = new \/ n = 0 THEN tbuf[n] \o mine ELSE tbuf[n]
      /\ \A m \in Nodes : Listed(tbuf'[m])
      /\ n = new \/ n = 0 => tbuf'[n] /= <<>>
  <2>1. \A m \in Nodes : m /= n => tbuf'[m] = tbuf[m]
    BY <1>1 DEF Types
  <2>2. tbuf'[n] = tbuf[n] \o mine /\ Listed(tbuf[n])
    BY <1>1 DEF Types
  <2>3. CASE n = new \/ n = 0
    <3>1. \E e : mine = <<e>>
      BY <2>3
    <3>2. \A m \in Nodes : Listed(tbuf[m])
      BY DEF Types
    <3> HIDE DEF mine, new, IInv
    <3>3. Listed(tbuf'[n]) /\ tbuf'[n] /= <<>>
      BY <2>2, <3>1, AddListed
    <3>4. \A m \in Nodes : Listed(tbuf'[m])
      BY <2>1, <3>2, <3>3
    <3> QED BY <2>1, <2>2, <2>3, <3>3, <3>4
  <2>4. CASE ~(n = new \/ n = 0)
    <3>1. mine = <<>>
      BY <2>4
    <3>2. \A m \in Nodes : Listed(tbuf[m])
      BY DEF Types
    <3> HIDE DEF mine, new, IInv
    <3>3. tbuf'[n] = tbuf[n]
      BY <2>2, <3>1, AddListed
    <3>4. \A m \in Nodes : Listed(tbuf'[m])
      BY <2>1, <3>2, <3>3
    <3> QED BY <2>1, <2>4, <3>3, <3>4
  <2> QED BY <2>3, <2>4
<1>7. Types'
  <2>1. pos' \in [Nodes -> 0 .. Volume]
    <3>1. pos[n] \in 0 .. Volume /\ Volume \in Nat
      BY SizeAssumption DEF Types
    <3>2. pos[n] + 1 \in 0 .. Volume
      BY <1>3, <3>1
    <3> QED BY <1>1, <3>2 DEF Types, Moves
  <2>2. at' \in [Nodes -> StageSet]
    BY <1>1 DEF Types, StageSet, BeforeSum
  <2>3. DOMAIN tbuf' = Nodes /\ \A m \in Nodes : Listed(tbuf[m])'
    BY <1>1, <1>6 DEF Types, Listed
  <2> QED BY <1>1, <1>5, <2>1, <2>2, <2>3 DEF Types
<1>8. \A m \in Nodes : IF m = n THEN at'[m] = "sweep" ELSE at'[m] = at[m]
  BY <1>1 DEF Types
<1>9. \A m \in Nodes : /\ pos[m] \in Nat
                       /\ pos'[m] = IF m = n THEN pos[m] + 1 ELSE pos[m]
  BY <1>1, MovesTo, SizeAssumption DEF Types
<1>10. Barriers'
  BY <1>1, <1>5, <1>8 DEF Barriers, BeforeSum, Dealt
<1>11. StageInv'
  BY <1>1, <1>5, <1>8, <1>9 DEF StageInv
<1>12. QuietInv'
  BY <1>5, <1>8 DEF QuietInv, Idle
<1>13. LineInv'
  <2>1. ASSUME NEW m \in Nodes, m /= n
        PROVE  /\ at'[m] = "sweep" => (tbuf'[m] /= <<>> <=> HasLine(m, pos[m])')
               /\ at'[m] = "signal" =>
                    (tbuf'[m] /= <<>> <=> HasLine(m, pos[m])' /\ ~Turn(pos[m])')
    <3>1. HasLine(m, pos[m])' = HasLine(m, pos[m]) /\ Turn(pos[m])' = Turn(pos[m])
      BY <1>1, <1>9, <2>1, SameTurns
    <3> QED BY <1>4, <1>6, <1>8, <2>1, <3>1 DEF LineInv
  <2>2. tbuf'[n] /= <<>> <=> HasLine(n, pos[n])'
    <3>1. HasLine(n, pos[n])' = HasLine(n, j + 1)
      BY <1>1, <1>9, SameTurns
    <3>2. CurrentNode(j + 1) = new /\ j + 1 > 0
      BY <1>9 DEF CurrentNode
    <3>3. HasLine(n, j + 1) <=> n = 0 \/ n = new
      BY <3>2 DEF HasLine
    <3>4. CASE n = 0 \/ n = new
      BY <1>6, <3>1, <3>3, <3>4
    <3>5. CASE ~(n = 0 \/ n = new)
      <4>1. tbuf'[n] = tbuf[n]
        BY <1>6, <3>5
      <4>2. tbuf[n] /= <<>> <=> HasLine(n, j) /\ ~Turn(j)
        BY <1>1, <1>4 DEF LineInv
      <4>3. ~Turn(j) => new = CurrentNode(j)
        BY <1>3 DEF Turn
      <4>4. ~(HasLine(n, j) /\ ~Turn(j))
        BY <3>5, <4>3 DEF HasLine
      <4> QED BY <3>1, <3>3, <3>5, <4>1, <4>2, <4>4
    <3> QED BY <3>4, <3>5
  <2> QED BY <1>5, <1>8, <2>1, <2>2 DEF LineInv
<1>14. SerialInv' /\ ParallelInv' /\ CheckpointInv'
  BY <1>1, <1>5, <1>13 DEF SerialInv, ParallelInv, CheckpointInv
<1>15. DealInv'
  BY <1>1, <1>4, <1>5, <1>8 DEF DealInv, Saving, Dealt, BeforeSum
<1> QED BY <1>7, <1>10, <1>11, <1>12, <1>14, <1>15

-----------------------------------------------------------------------------
(* Every step.                                                             *)

LEMMA NextIInv == IInv /\ [Next]_vars => IInv'
<1> SUFFICES ASSUME IInv, [Next]_vars PROVE IInv'
  OBVIOUS
<1>1. CASE UNCHANGED vars
  <2>1. /\ UNCHANGED <<lay, save, load, at, pos, tbuf, chan, list>> /\ Kept /\ Nodes' = Nodes
    BY <1>1, SameNodeNumber DEF vars, nodevars, machine, Kept
  <2>2. Types' /\ SerialInv' /\ ParallelInv' /\ CheckpointInv' /\ DealInv'
    <3>1. at' \in [Nodes -> StageSet] /\ (Saving' => Saving)
      BY <2>1 DEF IInv, Types, Saving
    <3> QED BY <2>1, <3>1, StageStep
  <2>3. Barriers' /\ StageInv' /\ QuietInv'
    BY <2>1 DEF IInv, Barriers, StageInv, QuietInv, Kept
  <2> QED BY <2>2, <2>3 DEF IInv
<1>2. ASSUME NEW n \in Nodes, SaveStep(n) PROVE IInv'
  BY <1>2, SweepLineIInv, SignalNewNodeIInv, ParallelTurnIInv, WriteListIInv,
     CheckpointSiteIInv, EndTurnsIInv, WriteChecksumIInv, CloseFileIInv DEF SaveStep
<1>3. ASSUME NEW n \in Nodes, LoadStep(n) PROVE IInv'
  BY <1>3, OpenFileIInv, BeginDealIInv, SerialDealIInv, ParallelDealIInv,
     EndDealIInv, ReadChecksumIInv DEF LoadStep
<1>4. ASSUME NEW n \in Nodes, WriteBack(n) PROVE IInv'
  BY <1>4, WriteBackIInv
<1>5. ASSUME NEW l \in Layouts, NewJob(l) PROVE IInv'
  BY <1>5, NewJobIInv
<1> QED BY <1>1, <1>2, <1>3, <1>4, <1>5 DEF Next

-----------------------------------------------------------------------------
(* What the messages are.                                                  *)

(* The queue after a turn of the sender, or of the receiver.               *)
Appended(r, q, e) == r = Append(q, e)
AfterSend(r, q, e, sends) == r = IF sends THEN Append(q, e) ELSE q
AfterReceive(r, q, takes) == r = IF takes THEN Tail(q) ELSE q

LEMMA AppendedPlaces ==
  ASSUME NEW P \in SUBSET Int, NEW lo \in Int, NEW hi \in Int, NEW q, NEW e, NEW r,
         Listed(q), Balanced(q, lo, hi, P), Appended(r, q, e), hi \in P
  PROVE  \A p \in Between(lo, hi + 1, P) :
           r[Place(lo, p, P)] = IF p = hi THEN e ELSE q[Place(lo, p, P)]
<1> DEFINE B == Between(lo, hi, P)
           R == {q[k] : k \in DOMAIN q}
<1>1. lo <= hi
  BY DEF Balanced
<1>2. Between(lo, hi + 1, P) = B \union {hi} /\ hi \notin B
  <2>1. \A p \in P : p < hi + 1 <=> p < hi \/ p = hi
    OBVIOUS
  <2>2. lo <= hi /\ ~(hi < hi)
    BY <1>1
  <2> QED BY <2>1, <2>2 DEF Between
<1>3. IsFiniteSet(B)
  BY BetweenFinite
<1>4. q \in Seq(R) /\ Len(q) = Cardinality(B) /\ Len(q) \in Nat
  BY ListedLen DEF Listed, Balanced
<1>5. Place(lo, hi, P) = Len(q) + 1
  <2> HIDE DEF B
  <2>1. Cardinality(B \union {hi}) = Cardinality(B) + 1
    BY <1>2, <1>3, FS_AddElement
  <2> QED BY <1>2, <1>4, <2>1 DEF Place
<1>6. ASSUME NEW p \in B PROVE Place(lo, p, P) \in 1 .. Len(q)
  <2> DEFINE C == Between(lo, p + 1, P)
  <2>1. p \in Int /\ lo <= p /\ p < hi /\ p \in P
    BY DEF Between
  <2>2. C \subseteq B
    <3>1. \A x \in P : x < p + 1 => x < hi
      BY <2>1
    <3> QED BY <3>1 DEF Between
  <2>3. p \in C
    BY <2>1 DEF Between
  <2>4. Cardinality(C) <= Cardinality(B) /\ IsFiniteSet(C)
    <3> HIDE DEF B, C
    <3> QED BY <1>3, <2>2, FS_Subset
  <2>5. Cardinality(C) \in Nat /\ Cardinality(C) /= 0
    <3> HIDE DEF C
    <3> QED BY <2>3, <2>4, FS_EmptySet, FS_CardinalityType
  <2> HIDE DEF C
  <2> QED BY <1>4, <2>4, <2>5 DEF Place, C
<1>7. ASSUME NEW p \in Between(lo, hi + 1, P)
      PROVE  Append(q, e)[Place(lo, p, P)] = IF p = hi THEN e ELSE q[Place(lo, p, P)]
  <2> DEFINE T == R \union {e}
  <2>0. q \in Seq(T) /\ e \in T
    BY <1>4
  <2> HIDE DEF T, R
  <2>1. /\ \A i \in 1 .. Len(q) : Append(q, e)[i] = q[i]
        /\ Append(q, e)[Len(q) + 1] = e
    BY <2>0, AppendProperties
  <2>2. p = hi \/ p \in B
    BY <1>2
  <2> HIDE DEF B
  <2> QED BY <1>2, <1>5, <1>6, <2>1, <2>2
<1>8. r = Append(q, e)
  BY DEF Appended
<1> QED BY <1>7, <1>8

LEMMA TakenPlaces ==
  ASSUME NEW P \in SUBSET Int, NEW lo \in Int, NEW hi \in Int, NEW q, Listed(q),
         Balanced(q, lo, hi, P), lo \in P, q /= <<>>
  PROVE  /\ lo \in Between(lo, hi, P) /\ Head(q) = q[Place(lo, lo, P)]
         /\ \A p \in Between(lo + 1, hi, P) :
              p \in Between(lo, hi, P) /\ Tail(q)[Place(lo + 1, p, P)] = q[Place(lo, p, P)]
<1> DEFINE B == Between(lo, hi, P)
           R == {q[k] : k \in DOMAIN q}
<1>1. lo < hi
  BY SomeLeft
<1>2. lo \in B
  BY <1>1 DEF Between
<1>3. q \in Seq(R) /\ Len(q) = Cardinality(B) /\ Len(q) \in Nat
  BY ListedLen DEF Listed, Balanced
<1>4. Head(q) = q[Place(lo, lo, P)]
  <2>1. Between(lo, lo + 1, P) = {lo}
    <3>1. \A p \in P : lo <= p /\ p < lo + 1 <=> p = lo
      OBVIOUS
    <3> QED BY <3>1 DEF Between
  <2>2. Place(lo, lo, P) = 1
    BY <2>1, FS_Singleton DEF Place
  <2> HIDE DEF R
  <2> QED BY <1>3, <2>2
<1>5. ASSUME NEW p \in Between(lo + 1, hi, P)
      PROVE  p \in B /\ Tail(q)[Place(lo + 1, p, P)] = q[Place(lo, p, P)]
  <2> DEFINE C == Between(lo + 1, p + 1, P)
             D == Between(lo, p + 1, P)
  <2>1. p \in Int /\ lo + 1 <= p /\ p < hi /\ p \in P
    BY DEF Between
  <2>2. p \in B
    BY <2>1 DEF Between
  <2>3. C = D \ {lo} /\ lo \in D
    <3>1. \A x \in P : lo + 1 <= x <=> lo <= x /\ x /= lo
      OBVIOUS
    <3>2. lo <= lo /\ lo < p + 1
      BY <2>1
    <3> QED BY <3>1, <3>2 DEF Between
  <2>4. p \in C
    BY <2>1 DEF Between
  <2>5. D \subseteq B
    <3>1. \A x \in P : x < p + 1 => x < hi
      BY <2>1
    <3> QED BY <3>1 DEF Between
  <2>6. IsFiniteSet(B) /\ IsFiniteSet(C) /\ IsFiniteSet(D)
    BY <2>1, BetweenFinite
  <2>7. Place(lo, p, P) = Cardinality(D) /\ Place(lo + 1, p, P) = Cardinality(C)
    BY DEF Place
  <2> HIDE DEF B, C, D, R
  <2>8. Cardinality(C) = Cardinality(D) - 1
    BY <2>3, <2>6, FS_RemoveElement
  <2>9. Cardinality(C) \in Nat /\ Cardinality(C) /= 0
    BY <2>4, <2>6, FS_EmptySet, FS_CardinalityType
  <2>10. Cardinality(D) <= Len(q) /\ Cardinality(D) \in Nat
    BY <1>3, <2>5, <2>6, FS_Subset, FS_CardinalityType
  <2>11. Cardinality(C) \in 1 .. Len(q) - 1
    BY <1>3, <2>8, <2>9, <2>10
  <2>12. Tail(q)[Cardinality(C)] = q[Cardinality(C) + 1]
    BY <1>3, <2>11
  <2> QED BY <2>2, <2>7, <2>8, <2>9, <2>10, <2>12
<1> QED BY <1>2, <1>4, <1>5

LEMMA SentPlaces ==
  ASSUME NEW P \in SUBSET Int, NEW lo \in Int, NEW hi \in Int, NEW q, NEW e, NEW r,
         Listed(q), Balanced(q, lo, hi, P),
         AfterSend(r, q, e, hi \in P)
  PROVE  \A p \in Between(lo, hi + 1, P) :
           \/ p \in Between(lo, hi, P) /\ r[Place(lo, p, P)] = q[Place(lo, p, P)]
           \/ p = hi /\ hi \in P /\ r[Place(lo, p, P)] = e
<1>1. CASE hi \in P
  <2>1. \A p \in P : p < hi + 1 => p < hi \/ p = hi
    OBVIOUS
  <2>2. \A p \in Between(lo, hi + 1, P) : p = hi \/ p \in Between(lo, hi, P)
    BY <2>1 DEF Between
  <2>3. Appended(r, q, e)
    BY <1>1 DEF AfterSend, Appended
  <2>4. \A p \in Between(lo, hi + 1, P) :
          r[Place(lo, p, P)] = IF p = hi THEN e ELSE q[Place(lo, p, P)]
    BY <1>1, <2>3, AppendedPlaces
  <2> QED BY <1>1, <2>2, <2>4
<1>2. CASE hi \notin P
  <2>1. \A p \in P : p < hi + 1 <=> p < hi
    BY <1>2
  <2>2. Between(lo, hi + 1, P) = Between(lo, hi, P)
    BY <2>1 DEF Between
  <2> QED BY <1>2, <2>2 DEF AfterSend
<1> QED BY <1>1, <1>2

LEMMA KeptPlaces ==
  ASSUME NEW P \in SUBSET Int, NEW lo \in Int, NEW hi \in Int, NEW q, NEW r,
         Listed(q), Balanced(q, lo, hi, P), lo \in P => q /= <<>>,
         AfterReceive(r, q, lo \in P)
  PROVE  \A p \in Between(lo + 1, hi, P) :
           p \in Between(lo, hi, P) /\ r[Place(lo + 1, p, P)] = q[Place(lo, p, P)]
<1>1. CASE lo \in P
  BY <1>1, TakenPlaces DEF AfterReceive
<1>2. CASE lo \notin P
  <2>1. \A p \in P : lo + 1 <= p <=> lo <= p
    BY <1>2
  <2>2. /\ Between(lo + 1, hi, P) = Between(lo, hi, P)
        /\ \A p : Place(lo + 1, p, P) = Place(lo, p, P)
    BY <2>1 DEF Between, Place
  <2> QED BY <1>2, <2>2 DEF AfterReceive
<1> QED BY <1>1, <1>2

(* The queue from s to d after a turn of n.                                *)
AfterTurn(n, s, d, P, msg) ==
  chan'[s][d] = IF pos[n] \notin P THEN chan[s][d]
                ELSE IF n = s THEN Append(chan[s][d], msg)
                ELSE IF n = d THEN Tail(chan[s][d]) ELSE chan[s][d]

LEMMA ExchangePlaces ==
  ASSUME NEW n \in Nodes, NEW s \in Nodes, NEW d \in Nodes,
         NEW P \in SUBSET Int, NEW msg, Types, Moves(n), s = d => P = {},
         Balanced(chan[s][d], pos[d], pos[s], P),
         n = d /\ pos[n] \in P => chan[s][d] /= <<>>,
         AfterTurn(n, s, d, P, msg)
  PROVE  \A p \in Between(pos'[d], pos'[s], P) :
           LET m == chan'[s][d][Place(pos'[d], p, P)]
           IN  \/ p \in Between(pos[d], pos[s], P) /\ m = chan[s][d][Place(pos[d], p, P)]
               \/ n = s /\ p = pos[n] /\ p \in P /\ m = msg
<1> DEFINE q  == chan[s][d]
           r  == chan'[s][d]
           lo == pos[d]
           hi == pos[s]
<1>1. Listed(q) /\ hi \in Int /\ lo \in Int /\ Balanced(q, lo, hi, P)
  BY MovesTo DEF Types, ChanType
<1>2. CASE s = d
  BY <1>2 DEF Between
<1>3. CASE n = s /\ n /= d
  <2>1. pos'[s] = hi + 1 /\ pos'[d] = lo /\ pos[n] = hi
    BY <1>3, MovesTo
  <2>2. AfterSend(r, q, msg, hi \in P)
    BY <1>3 DEF AfterSend, AfterTurn
  <2> HIDE DEF q, r, lo, hi
  <2>3. \A p \in Between(lo, hi + 1, P) :
           \/ p \in Between(lo, hi, P) /\ r[Place(lo, p, P)] = q[Place(lo, p, P)]
           \/ p = hi /\ hi \in P /\ r[Place(lo, p, P)] = msg
    BY <1>1, <2>2, SentPlaces
  <2> QED BY <1>3, <2>1, <2>3 DEF q, r, lo, hi
<1>4. CASE n /= s /\ n = d
  <2>1. pos'[s] = hi /\ pos'[d] = lo + 1 /\ pos[n] = lo
    BY <1>4, MovesTo
  <2>2. AfterReceive(r, q, lo \in P) /\ (lo \in P => q /= <<>>)
    BY <1>4 DEF AfterReceive, AfterTurn
  <2> HIDE DEF q, r, lo, hi
  <2>3. \A p \in Between(lo + 1, hi, P) :
           p \in Between(lo, hi, P) /\ r[Place(lo + 1, p, P)] = q[Place(lo, p, P)]
    BY <1>1, <2>2, KeptPlaces
  <2> QED BY <2>1, <2>3 DEF q, r, lo, hi
<1>5. CASE n /= s /\ n /= d
  <2>1. pos'[s] = pos[s] /\ pos'[d] = pos[d] /\ chan'[s][d] = chan[s][d]
    BY <1>5, MovesTo DEF AfterTurn
  <2> QED BY <2>1
<1> QED BY <1>2, <1>3, <1>4, <1>5

(* What node n sends, if it sends in its turn; and what is under way then: *)
(* what was, and that.                                                     *)
Sends(n, src, dest, msg) == n = src /\ n /= dest => chan' = Sent(n, dest, msg)
Carried(n, s, d, P, msg) ==
  \A p \in Between(pos'[d], pos'[s], P) :
    LET m == chan'[s][d][Place(pos'[d], p, P)]
    IN  \/ p \in Between(pos[d], pos[s], P) /\ m = chan[s][d][Place(pos[d], p, P)]
        \/ n = s /\ p = pos[n] /\ p \in P /\ m = msg

LEMMA TradesPlaces ==
  ASSUME NEW n \in Nodes, NEW src, NEW dest, NEW msg,
         Types, Moves(n), Trades(n, src, dest), Sends(n, src, dest, msg)
  PROVE  \A s, d \in Nodes : \A P \in SUBSET Int :
           /\ s = d => P = {}
           /\ pos[n] \in P <=> s /= d /\ s = src /\ d = dest
           /\ Balanced(chan[s][d], pos[d], pos[s], P)
           => Carried(n, s, d, P, msg)
<1>1. lay' = lay /\ ChanType
  BY DEF Moves, Types
<1> SUFFICES ASSUME NEW s \in Nodes, NEW d \in Nodes, NEW P \in SUBSET Int, s = d => P = {},
                    pos[n] \in P <=> s /= d /\ s = src /\ d = dest,
                    Balanced(chan[s][d], pos[d], pos[s], P)
             PROVE  Carried(n, s, d, P, msg)
  OBVIOUS
<1>2. /\ chan'[s][d] = IF pos[n] \notin P THEN chan[s][d]
                       ELSE IF n = s THEN Append(chan[s][d], msg)
                       ELSE IF n = d THEN Tail(chan[s][d]) ELSE chan[s][d]
      /\ n = d /\ pos[n] \in P => chan[s][d] /= <<>>
  <2>1. CASE n = src /\ n /= dest
    <3>1. chan' = Sent(n, dest, msg)
      BY <2>1 DEF Sends
    <3>2. chan'[s][d] = IF s = n /\ d = dest THEN Append(chan[s][d], msg) ELSE chan[s][d]
      BY <1>1, <3>1, SentIs
    <3>3. (s = n /\ d = dest) <=> (pos[n] \in P /\ n = s)
      BY <2>1
    <3>4. pos[n] \in P => n = s /\ n /= d
      BY <2>1
    <3> QED BY <3>2, <3>3, <3>4
  <2>2. CASE (n \notin {src, dest} \/ (n = src /\ n = dest)) /\ chan' = chan
    BY <2>2
  <2>3. CASE n /= src /\ n = dest /\ Arrived(src, n) /\ chan' = Received(src, n)
    <3>1. chan'[s][d] = IF s = src /\ d = n THEN Tail(chan[s][d]) ELSE chan[s][d]
      BY <1>1, <2>3, ReceivedIs
    <3> QED BY <2>3, <3>1 DEF Arrived
  <2>4. \/ n = src /\ n /= dest
        \/ (n \notin {src, dest} \/ (n = src /\ n = dest)) /\ chan' = chan
        \/ n /= src /\ n = dest /\ Arrived(src, n) /\ chan' = Received(src, n)
    BY Zenon DEF Trades
  <2> QED BY <2>1, <2>2, <2>3, <2>4, Zenon
<1>3. AfterTurn(n, s, d, P, msg)
  BY <1>2 DEF AfterTurn
<1> QED BY <1>2, <1>3, ExchangePlaces DEF Carried

(* What is under way in w_parallel and r_parallel.                         *)
Shipped(p) == Links(RankAt(p, MaxBufLength), RankAt(p, MaxBufLength))
ShipsFit ==
  save = "parallel" /\ Saving =>
    \A s, d \in Nodes : \A p \in Between(pos[d], pos[s], Ships(s, d)) :
      chan[s][d][Place(pos[d], p, Ships(s, d))] = Shipped(p)
DealsFit ==
  load = "parallel" /\ (\E n \in Nodes : at[n] \in Dealt) =>
    \A s, d \in Nodes : \A p \in Between(pos[d], pos[s], Deals(s, d)) :
      chan[s][d][Place(pos[d], p, Deals(s, d))].coord = list[RankAt(p, LoadBlock)]

Fits == ShipsFit /\ DealsFit

LEMMA NothingYet ==
  ASSUME NEW P \in SUBSET Int, NEW v \in Int, NEW w \in Int, v = w
  PROVE  Between(v, w, P) = {}
<1>1. \A p \in P : ~(v <= p /\ p < w)
  OBVIOUS
<1> QED BY <1>1 DEF Between

LEMMA InitFits == Init => Fits
<1> SUFFICES ASSUME Init PROVE Fits
  OBVIOUS
<1>1. \A n \in Nodes : pos[n] = 0
  BY DEF Init
<1>2. \A s, d \in Nodes : \A P \in SUBSET Int : Between(pos[d], pos[s], P) = {}
  BY <1>1, NothingYet
<1> QED BY <1>2, TurnsAreNumbers DEF Fits, ShipsFit, DealsFit

(* No node saves that did not before, nor do the nodes begin to deal out.  *)
GoesOn ==
  /\ \A m \in Nodes :
       at'[m] \in BeforeSum \union {"sum"} => at[m] \in BeforeSum \union {"sum"}
  /\ (\E m \in Nodes : at'[m] \in Dealt) => \E m \in Nodes : at[m] \in Dealt

LEMMA KeptFits ==
  ASSUME Fits, Kept, list' = list, GoesOn PROVE Fits'
<1> USE DEF Kept
<1>1. Nodes' = Nodes
  BY SameNodeNumber
<1>2. ASSUME NEW p PROVE Shipped(p)' = Shipped(p) /\ RankAt(p, LoadBlock)' = RankAt(p, LoadBlock)
  BY SameTurns DEF Shipped, Links
<1>3. ASSUME NEW s, NEW d PROVE Ships(s, d)' = Ships(s, d) /\ Deals(s, d)' = Deals(s, d)
  BY SameTurns
<1>4. ASSUME NEW lo, NEW p, NEW P
      PROVE  Place(lo, p, P)' = Place(lo, p, P) /\ Between(lo, p, P)' = Between(lo, p, P)
  BY DEF Place, Between
<1>5. ShipsFit'
  <2>1. Saving' => Saving
    BY <1>1 DEF Saving, GoesOn
  <2> QED BY <1>1, <1>2, <1>3, <2>1 DEF ShipsFit, Fits, Place, Between
<1>6. DealsFit'
  <2>1. (\E m \in Nodes : at'[m] \in Dealt) => \E m \in Nodes : at[m] \in Dealt
    BY DEF GoesOn
  <2> QED BY <1>1, <1>2, <1>3, <2>1 DEF DealsFit, Fits, Place, Between
<1> QED BY <1>5, <1>6 DEF Fits

(* The steps that pass no message of these loops.                          *)
LEMMA OthersFit ==
  ASSUME IInv, Fits, NEW n \in Nodes,
         \/ WriteList(n) \/ EndTurns(n) \/ WriteChecksum(n) \/ CloseFile(n)
         \/ WriteBack(n) \/ EndDeal(n) \/ ReadChecksum(n)
  PROVE  Fits'
<1>1. Kept /\ list' = list
  BY DEF WriteList, EndTurns, WriteChecksum, CloseFile, WriteBack, EndDeal, ReadChecksum,
         Kept, nodevars, machine
<1>2. \/ at' = at
      \/ at[n] = "list" /\ at' = [at EXCEPT ![n] = "turn"]
      \/ at[n] = "turn" /\ at' = [at EXCEPT ![n] = "sum"]
      \/ at' = [at EXCEPT ![n] = "close"]
      \/ at' = [at EXCEPT ![n] = "closed"]
      \/ at[n] = "deal" /\ at' = [at EXCEPT ![n] = "check"]
      \/ at[n] = "check" /\ at' = [at EXCEPT ![n] = "over"]
  BY DEF WriteList, EndTurns, WriteChecksum, CloseFile, WriteBack, EndDeal, ReadChecksum
<1>3. DOMAIN at = Nodes
  BY DEF IInv, Types
<1>4. GoesOn
  BY <1>2, <1>3 DEF GoesOn, BeforeSum, Dealt
<1> QED BY <1>1, <1>4, KeptFits

(* The steps of the other formats, and those between saving and dealing.   *)
LEMMA OtherFormatsFit ==
  ASSUME IInv, NEW n \in Nodes,
         \/ SweepLine(n) \/ SignalNewNode(n) \/ CheckpointSite(n)
         \/ OpenFile(n) \/ SerialDeal(n)
  PROVE  Fits'
<1> USE DEF IInv
<1>1. /\ lay' = lay /\ save' = save /\ load' = load /\ Nodes' = Nodes
      /\ DOMAIN at = Nodes
  <2>1. lay' = lay /\ save' = save /\ load' = load
    BY DEF SweepLine, SignalNewNode, CheckpointSite, OpenFile, SerialDeal, machine
  <2> QED BY <2>1, SameNodeNumber DEF Types
<1>2. CASE SweepLine(n) \/ SignalNewNode(n) \/ CheckpointSite(n)
  <2>1. save /= "parallel" /\ at[n] \in BeforeSum
        /\ (at' = at \/ \E x \in {"sum", "signal", "sweep"} : at' = [at EXCEPT ![n] = x])
    BY <1>2 DEF SweepLine, SignalNewNode, CheckpointSite, BeforeSum
  <2>2. \A m \in Nodes : at[m] \notin Dealt
    BY <2>1 DEF Barriers, BeforeSum, Dealt
  <2>3. \A m \in Nodes : at'[m] \notin Dealt
    BY <1>1, <2>1, <2>2 DEF Dealt
  <2> QED BY <1>1, <2>1, <2>3 DEF Fits, ShipsFit, DealsFit
<1>3. CASE OpenFile(n)
  <2>1. at[n] = "closed" /\ (at' = at \/ at' = [at EXCEPT ![n] = "load"])
    BY <1>3 DEF OpenFile
  <2>2. \A m \in Nodes : at[m] \notin Dealt
    BY <2>1 DEF Barriers, Dealt
  <2>3. at'[n] \in {"closed", "load"} /\ \A m \in Nodes : at'[m] \notin Dealt
    BY <1>1, <2>1, <2>2 DEF Dealt
  <2> QED BY <1>1, <2>3 DEF Fits, ShipsFit, DealsFit, Saving, BeforeSum
<1>4. CASE SerialDeal(n)
  <2>1. load /= "parallel" /\ at'[n] = "deal"
    BY <1>4 DEF SerialDeal
  <2> QED BY <1>1, <2>1 DEF Fits, ShipsFit, DealsFit, Saving, BeforeSum
<1> QED BY <1>2, <1>3, <1>4

LEMMA BeginDealFits ==
  ASSUME IInv, Fits, NEW n \in Nodes, BeginDeal(n) PROVE Fits'
<1> USE DEF IInv
<1>1. /\ Kept /\ list' = list /\ Nodes' = Nodes /\ AllAt("load")
      /\ at[n] = "load" /\ at' = [at EXCEPT ![n] = "deal"]
  BY SameNodeNumber DEF BeginDeal, Kept, nodevars, machine
<1>2. \A m \in Nodes : IF m = n THEN at'[m] = "deal" ELSE at'[m] = at[m]
  BY <1>1 DEF Types
<1>3. CASE \E m \in Nodes : at[m] \in Dealt
  <2>1. GoesOn
    BY <1>2, <1>3 DEF GoesOn, BeforeSum
  <2> QED BY <1>1, <2>1, KeptFits
<1>4. CASE ~\E m \in Nodes : at[m] \in Dealt
  <2>1. \A m \in Nodes : at[m] = "load"
    BY <1>1, <1>4, BarrierPassed
  <2>2. \A m \in Nodes : pos'[m] = 0
    BY <1>1, <2>1 DEF StageInv, Kept
  <2>3. \A s, d \in Nodes' : \A P \in SUBSET Int : Between(pos'[d], pos'[s], P) = {}
    BY <1>1, <2>2, NothingYet
  <2>4. \A s, d : Ships(s, d)' \in SUBSET Int /\ Deals(s, d)' \in SUBSET Int
    BY <1>1, SameTurns, TurnsAreNumbers DEF Kept
  <2> QED BY <2>3, <2>4 DEF Fits, ShipsFit, DealsFit, Between
<1> QED BY <1>3, <1>4

LEMMA NewJobFits ==
  ASSUME NEW l \in Layouts, NewJob(l) PROVE Fits'
<1>1. /\ Nodes' = DOMAIN l /\ 0 \in Nodes'
      /\ at' = [m \in DOMAIN l |-> "closed"]
  BY NodesAre DEF NewJob, Nodes
<1>2. \A m \in Nodes' : at'[m] = "closed"
  BY <1>1
<1> QED BY <1>1, <1>2 DEF Fits, ShipsFit, DealsFit, Saving, BeforeSum, Dealt

LEMMA ParallelTurnFits ==
  ASSUME IInv, Fits, NEW n \in Nodes, ParallelTurn(n) PROVE Fits'
<1> DEFINE rank == RankAt(pos[n], MaxBufLength)
           dest == rank \div SitesOnNode
           src  == NodeNumber(rank)
           msg  == Links(rank, rank)
<1>1. /\ UNCHANGED <<lay, save, load, at, list>> /\ Moves(n) /\ Nodes' = Nodes
      /\ at[n] = "turn" /\ save = "parallel" /\ pos[n] < Volume
  BY SameNodeNumber DEF ParallelTurn, Moves, machine
<1>2. Trades(n, src, dest) /\ Sends(n, src, dest, msg)
  BY DEF ParallelTurn, Trades, Sends
<1>3. Types /\ Barriers /\ ParallelInv
  BY DEF IInv
<1>4. \A s, d \in Nodes : \A P \in SUBSET Int :
        /\ s = d => P = {}
        /\ pos[n] \in P <=> s /= d /\ s = src /\ d = dest
        /\ Balanced(chan[s][d], pos[d], pos[s], P)
        => Carried(n, s, d, P, msg)
  <2> HIDE DEF rank, dest, src, msg
  <2> QED BY <1>1, <1>2, <1>3, TradesPlaces
<1>5. ASSUME Saving, NEW s \in Nodes, NEW d \in Nodes,
             NEW p \in Between(pos'[d], pos'[s], Ships(s, d))
      PROVE  chan'[s][d][Place(pos'[d], p, Ships(s, d))] = Shipped(p)
  <2> DEFINE P == Ships(s, d)
  <2>1. P \in SUBSET Int /\ (s = d => P = {})
    BY TurnsAreNumbers DEF Ships
  <2>2. pos[n] \in P <=> s /= d /\ s = src /\ d = dest
    <3>1. pos[n] \in 0 .. Volume - 1
      BY <1>1, <1>3, SizeAssumption DEF Types
    <3> QED BY <3>1 DEF Ships
  <2>3. Balanced(chan[s][d], pos[d], pos[s], P)
    BY <1>1, <1>3, <1>5 DEF ParallelInv
  <2>4. \A x \in Between(pos[d], pos[s], P) : chan[s][d][Place(pos[d], x, P)] = Shipped(x)
    BY <1>1, <1>5 DEF Fits, ShipsFit
  <2>5. msg = Shipped(pos[n])
    BY DEF Shipped
  <2> HIDE DEF P, src, dest, msg
  <2>6. Carried(n, s, d, P, msg)
    BY <1>4, <2>1, <2>2, <2>3
  <2> QED BY <1>5, <2>4, <2>5, <2>6 DEF P, Carried
<1>6. /\ \A s, d : Ships(s, d)' = Ships(s, d)
      /\ \A p : Shipped(p)' = Shipped(p)
  BY <1>1, SameTurns DEF Shipped, Links
<1>7. ShipsFit'
  <2>1. Saving' => Saving
    BY <1>1 DEF Saving
  <2> QED BY <1>1, <1>5, <1>6, <2>1 DEF ShipsFit, Between, Place
<1>8. DealsFit'
  BY <1>1, <1>3 DEF DealsFit, Barriers, Dealt, BeforeSum
<1> QED BY <1>7, <1>8 DEF Fits

LEMMA ParallelDealFits ==
  ASSUME IInv, Fits, NEW n \in Nodes, ParallelDeal(n) PROVE Fits'
<1> DEFINE rank == RankAt(pos[n], LoadBlock)
           src  == rank \div SitesOnNode
           s_n  == list[rank]
           dest == NodeNumber(s_n)
<1>1. /\ UNCHANGED <<lay, save, load, at, tbuf, list>> /\ Nodes' = Nodes
      /\ at[n] = "deal" /\ load = "parallel" /\ pos[n] < Volume
  BY SameNodeNumber DEF ParallelDeal, machine
<1>2. \/ UNCHANGED <<pos, chan>>
      \/ /\ Moves(n) /\ Trades(n, src, dest)
         /\ \E links : Sends(n, src, dest, Links(s_n, links))
  BY DEF ParallelDeal, ReadFails, Trades, Moves, Sends
<1>3. Types /\ Barriers /\ DealInv
  BY DEF IInv
<1>4. CASE UNCHANGED <<pos, chan>>
  <2>1. Kept /\ GoesOn
    BY <1>1, <1>4 DEF Kept, GoesOn
  <2> QED BY <1>1, <2>1, KeptFits
<1>5. ASSUME Moves(n), Trades(n, src, dest), NEW links,
             Sends(n, src, dest, Links(s_n, links))
      PROVE  Fits'
  <2> DEFINE msg == Links(s_n, links)
  <2>1. \A s, d \in Nodes : \A P \in SUBSET Int :
          /\ s = d => P = {}
          /\ pos[n] \in P <=> s /= d /\ s = src /\ d = dest
          /\ Balanced(chan[s][d], pos[d], pos[s], P)
          => Carried(n, s, d, P, msg)
    <3>1. Types /\ Moves(n) /\ Trades(n, src, dest) /\ Sends(n, src, dest, msg)
      BY <1>3, <1>5
    <3> HIDE DEF dest, src, msg
    <3> SUFFICES ASSUME NEW s \in Nodes, NEW d \in Nodes, NEW P \in SUBSET Int,
                        s = d => P = {},
                        pos[n] \in P <=> s /= d /\ s = src /\ d = dest,
                        Balanced(chan[s][d], pos[d], pos[s], P)
                 PROVE  Carried(n, s, d, P, msg)
      OBVIOUS
    <3> QED BY <3>1, TradesPlaces
  <2>2. ASSUME NEW s \in Nodes, NEW d \in Nodes,
               NEW p \in Between(pos'[d], pos'[s], Deals(s, d))
        PROVE  chan'[s][d][Place(pos'[d], p, Deals(s, d))].coord = list[RankAt(p, LoadBlock)]
    <3> DEFINE P == Deals(s, d)
    <3>1. P \in SUBSET Int /\ (s = d => P = {})
      BY TurnsAreNumbers DEF Deals
    <3>2. pos[n] \in P <=> s /= d /\ s = src /\ d = dest
      <4>1. pos[n] \in 0 .. Volume - 1
        BY <1>1, <1>3, SizeAssumption DEF Types
      <4> QED BY <4>1 DEF Deals
    <3>3. Balanced(chan[s][d], pos[d], pos[s], P)
      BY <1>1, <1>3 DEF DealInv, Dealt
    <3>4. \A x \in Between(pos[d], pos[s], P) :
            chan[s][d][Place(pos[d], x, P)].coord = list[RankAt(x, LoadBlock)]
      BY <1>1 DEF Fits, DealsFit, Dealt
    <3>5. msg.coord = list[RankAt(pos[n], LoadBlock)]
      BY DEF Links
    <3> HIDE DEF P, src, dest, msg
    <3>6. Carried(n, s, d, P, msg)
      BY <2>1, <3>1, <3>2, <3>3
    <3> QED BY <2>2, <3>4, <3>5, <3>6 DEF P, Carried
  <2>3. /\ \A s, d : Deals(s, d)' = Deals(s, d)
        /\ \A p : RankAt(p, LoadBlock)' = RankAt(p, LoadBlock)
    BY <1>1, SameTurns
  <2>4. DealsFit'
    BY <1>1, <2>2, <2>3 DEF DealsFit, Between, Place
  <2>5. ShipsFit'
    BY <1>1 DEF ShipsFit, Saving, BeforeSum
  <2> QED BY <2>4, <2>5 DEF Fits
<1> QED BY <1>2, <1>4, <1>5

LEMMA NextFits == IInv /\ Fits /\ [Next]_vars => Fits'
<1> SUFFICES ASSUME IInv, Fits, [Next]_vars PROVE Fits'
  OBVIOUS
<1>1. CASE UNCHANGED vars
  <2>1. Kept /\ list' = list /\ GoesOn
    BY <1>1 DEF vars, nodevars, machine, Kept, GoesOn
  <2> QED BY <2>1, KeptFits
<1>2. ASSUME NEW n \in Nodes, SaveStep(n) \/ LoadStep(n) \/ WriteBack(n) PROVE Fits'
  BY <1>2, OthersFit, OtherFormatsFit, BeginDealFits, ParallelTurnFits, ParallelDealFits
     DEF SaveStep, LoadStep
<1>3. ASSUME NEW l \in Layouts, NewJob(l) PROVE Fits'
  BY <1>3, NewJobFits
<1> QED BY <1>1, <1>2, <1>3 DEF Next

(* The message a node comes to is the first of those under way.            *)
LEMMA FitsMessages == IInv /\ Fits => MessagesFit
<1> SUFFICES ASSUME IInv, Fits, NEW n \in Nodes, pos[n] < Volume
             PROVE  /\ save = "parallel" /\ at[n] = "turn" =>
                         LET rank == RankAt(pos[n], MaxBufLength)
                             src  == NodeNumber(rank)
                         IN  n /= src /\ n = rank \div SitesOnNode /\ Arrived(src, n) =>
                               Head(chan[src][n]) = Links(rank, rank)
                    /\ load = "parallel" /\ at[n] = "deal" =>
                         LET rank == RankAt(pos[n], LoadBlock)
                             src  == rank \div SitesOnNode
                         IN  n /= src /\ n = NodeNumber(list[rank]) /\ Arrived(src, n) =>
                               Head(chan[src][n]).coord = list[rank]
  BY DEF MessagesFit
<1> USE DEF IInv
<1>1. /\ pos[n] \in 0 .. Volume - 1 /\ lay \in Layouts /\ Nodes = DOMAIN lay
      /\ \A s \in Nodes : pos[s] \in Int /\ Listed(chan[s][n])
  BY SizeAssumption DEF Types, ChanType, Nodes
<1>2. MaxBufLength \in Nat \ {0} /\ LoadBlock \in Nat \ {0}
  BY SizeAssumption
<1> DEFINE First(s, P) ==
      /\ pos[n] \in Between(pos[n], pos[s], P)
      /\ Head(chan[s][n]) = chan[s][n][Place(pos[n], pos[n], P)]
<1>3. ASSUME NEW s \in Nodes, NEW P \in SUBSET Int, pos[n] \in P, Arrived(s, n),
             Balanced(chan[s][n], pos[n], pos[s], P)
      PROVE  First(s, P)
  BY <1>1, <1>3, TakenPlaces DEF Arrived
<1> HIDE DEF First
<1>4. ASSUME save = "parallel", at[n] = "turn", NEW rank, rank = RankAt(pos[n], MaxBufLength),
             n /= NodeNumber(rank), n = rank \div SitesOnNode, Arrived(NodeNumber(rank), n)
      PROVE  Head(chan[NodeNumber(rank)][n]) = Links(rank, rank)
  <2> DEFINE src == NodeNumber(rank)
             P   == Ships(src, n)
  <2>1. rank \in Sites
    BY <1>1, <1>2, <1>4, TurnPlace
  <2>2. src \in Nodes
    BY <1>1, <2>1, LayoutAssumption DEF NodeNumber
  <2>3. P \in SUBSET Int /\ pos[n] \in P
    BY <1>1, <1>4, TurnsAreNumbers DEF Ships
  <2>4. Saving
    BY <1>4 DEF Saving, Barriers, BeforeSum
  <2>5. Balanced(chan[src][n], pos[n], pos[src], P)
    BY <1>4, <2>2, <2>4 DEF ParallelInv
  <2>6. \A p \in Between(pos[n], pos[src], P) : chan[src][n][Place(pos[n], p, P)] = Shipped(p)
    BY <1>4, <2>2, <2>4 DEF Fits, ShipsFit
  <2> HIDE DEF P, src
  <2>7. First(src, P)
    BY <1>3, <1>4, <2>2, <2>3, <2>5 DEF src
  <2>8. Head(chan[src][n]) = Shipped(pos[n])
    BY <2>6, <2>7 DEF First
  <2> QED BY <1>4, <2>8 DEF Shipped, src
<1>5. ASSUME load = "parallel", at[n] = "deal", NEW rank, rank = RankAt(pos[n], LoadBlock),
             n /= rank \div SitesOnNode, n = NodeNumber(list[rank]),
             Arrived(rank \div SitesOnNode, n)
      PROVE  Head(chan[rank \div SitesOnNode][n]).coord = list[rank]
  <2> DEFINE src == rank \div SitesOnNode
             P   == Deals(src, n)
  <2>1. src \in Nodes
    BY <1>1, <1>2, <1>5, TurnPlace
  <2>2. P \in SUBSET Int /\ pos[n] \in P
    BY <1>1, <1>5, TurnsAreNumbers DEF Deals
  <2>3. Balanced(chan[src][n], pos[n], pos[src], P)
    BY <1>5, <2>1 DEF DealInv, Dealt
  <2>4. \A p \in Between(pos[n], pos[src], P) :
          chan[src][n][Place(pos[n], p, P)].coord = list[RankAt(p, LoadBlock)]
    BY <1>5, <2>1 DEF Fits, DealsFit, Dealt
  <2> HIDE DEF P, src
  <2>5. First(src, P)
    BY <1>3, <1>5, <2>1, <2>2, <2>3 DEF src
  <2>6. Head(chan[src][n]).coord = list[RankAt(pos[n], LoadBlock)]
    BY <2>4, <2>5 DEF First
  <2> QED BY <1>5, <2>6 DEF src
<1> QED BY <1>4, <1>5

-----------------------------------------------------------------------------
(* What the buffers, the messages and the file hold.                       *)

Values == Sites \union {None}
LineSet == {line \in Seq(Values) : Len(line) <= Nx}
AllLinks(queue, T) == \A i \in DOMAIN queue : queue[i].links \in T

Sound(w) == w.part = "sum" \/ (w.part \in {"data", "order"} /\ w.what \in Seq(Values))
AllSound(ws) == \A i \in DOMAIN ws : Sound(ws[i])

MachineTypes ==
  /\ [faults |-> faults, eager |-> eager] \in Machines
  /\ stopped \subseteq Nodes /\ verdict \in {"none", "OK", "violation"}
BufferTypes ==
  /\ blen \in [Nodes -> 0 .. MaxBufLength] /\ where \in [Nodes -> Nat]
  /\ lbuf \in [Nodes -> [0 .. MaxBufLength - 1 -> Values]]
  /\ tbuf \in [Nodes -> Seq(Values)] /\ lat \in [Nodes -> Content]
FileTypes ==
  /\ DOMAIN file = {"data", "order", "sum"} /\ file.data \in Content /\ file.order \in Content
  /\ DOMAIN out = Nodes /\ \A n \in Nodes : Listed(out[n]) /\ AllSound(out[n])
  /\ list \in [Sites -> Sites]

(* There is room for the next site, or the next line.                      *)
Filling ==
  \A n \in Nodes :
    /\ at[n] \in {"list", "turn"} => blen[n] < MaxBufLength
    /\ at[n] \in {"sweep", "signal"} => blen[n] <= MaxBufLength - Nx
    /\ at[n] = "sweep" /\ pos[n] > 0 => Len(tbuf[n]) <= ((pos[n] - 1) % Nx) + 1
    /\ at[n] = "signal" => Len(tbuf[n]) <= pos[n] % Nx
    /\ Len(tbuf[n]) <= Nx

(* Lines go to node 0, and links of sites between all nodes.               *)
LineTypes == save = "serial" /\ Saving => \A n \in Nodes : AllLinks(chan[n][0], LineSet)
LinkTypes ==
  (save = "parallel" /\ Saving) \/ (\E n \in Nodes : at[n] \in Dealt) =>
    \A s, d \in Nodes : AllLinks(chan[s][d], Values)

Holds == /\ MachineTypes /\ BufferTypes /\ FileTypes
         /\ Filling /\ LineTypes /\ LinkTypes

LEMMA HoldsTypes == IInv /\ Holds => TypeOK
<1> SUFFICES ASSUME IInv, Holds PROVE TypeOK
  OBVIOUS
<1>1. \A n \in Nodes : Rank(at[n]) \in 1 .. Len(Stages)
  <2>1. Len(Stages) = 11
    BY DEF Stages
  <2>2. \A n \in Nodes : at[n] \in StageSet
    BY DEF IInv, Types
  <2> QED BY <2>1, <2>2, StageRanks DEF StageSet, BeforeSum, Idle, Dealt
<1>2. \A n \in Nodes : pos[n] \in 0 .. Volume
  BY DEF IInv, Types
<1>3. \A n \in Nodes : blen[n] \in 0 .. MaxBufLength /\ Len(tbuf[n]) <= Nx /\ lat[n] \in Content
  BY DEF Holds, BufferTypes, Filling
<1> QED BY <1>1, <1>2, <1>3 DEF TypeOK, IInv, Types, Holds, MachineTypes, FileTypes

LEMMA NothingToCarry ==
  ASSUME NEW T PROVE AllLinks(<<>>, T)
BY DEF AllLinks

LEMMA InitHolds == Init => Holds
<1> SUFFICES ASSUME Init PROVE Holds
  OBVIOUS
<1> USE DEF Init
<1>1. MachineTypes
  <2>1. PICK c \in Machines : faults = c.faults /\ eager = c.eager
    OBVIOUS
  <2>2. c = [faults |-> faults, eager |-> eager]
    BY <2>1, FormatAssumption
  <2> QED BY <2>1, <2>2 DEF MachineTypes
<1>2. /\ MaxBufLength \in Nat /\ Nx \in 1 .. MaxBufLength /\ lay \in Layouts
      /\ None \in Values /\ 0 \in Nodes
  <2>1. lay \in Layouts
    OBVIOUS
  <2> HIDE DEF Init
  <2> QED BY <2>1, SizeAssumption, LayoutFacts DEF Values
<1>3. BufferTypes
  <2>1. EmptyBuf \in [0 .. MaxBufLength - 1 -> Values]
    BY <1>2 DEF EmptyBuf
  <2>2. where \in [Nodes -> Nat]
    BY <1>2, LayoutFacts
  <2>3. lat \in [Nodes -> Content]
    <3>1. [s \in Sites |-> None] \in Content
      BY DEF Content
    <3> QED BY <3>1
  <2>4. tbuf \in [Nodes -> Seq(Values)] /\ blen \in [Nodes -> 0 .. MaxBufLength]
    BY <1>2
  <2> QED BY <2>1, <2>2, <2>3, <2>4 DEF BufferTypes
<1>4. FileTypes
  <2>1. list \in [Sites -> Sites]
    BY DEF NaturalOrder
  <2>2. \A n \in Nodes : Listed(out[n]) /\ AllSound(out[n])
    BY EmptyListed DEF AllSound
  <2> QED BY <2>1, <2>2 DEF FileTypes, Content
<1>5. Filling
  BY <1>2, EmptyListed DEF Filling
<1>6. LineTypes /\ LinkTypes
  <2>1. \A s, d \in Nodes : chan[s][d] = <<>>
    OBVIOUS
  <2> HIDE DEF Init
  <2> QED BY <1>2, <2>1, NothingToCarry DEF LineTypes, LinkTypes
<1> QED BY <1>1, <1>3, <1>4, <1>5, <1>6 DEF Holds

LEMMA AppendElements ==
  ASSUME NEW q, Listed(q), NEW e
  PROVE  \A i \in DOMAIN Append(q, e) :
           \/ i \in DOMAIN q /\ Append(q, e)[i] = q[i]
           \/ Append(q, e)[i] = e
<1> DEFINE T == {q[k] : k \in DOMAIN q} \union {e}
<1>1. q \in Seq({q[k] : k \in DOMAIN q})
  BY DEF Listed
<1>2. q \in Seq(T) /\ e \in T
  BY <1>1
<1> HIDE DEF T
<1> QED BY <1>2

LEMMA TailElements ==
  ASSUME NEW q, Listed(q), q /= <<>>
  PROVE  /\ 1 \in DOMAIN q /\ Head(q) = q[1]
         /\ \A i \in DOMAIN Tail(q) : i + 1 \in DOMAIN q /\ Tail(q)[i] = q[i + 1]
<1> DEFINE T == {q[k] : k \in DOMAIN q}
<1>1. q \in Seq(T)
  BY DEF Listed
<1> HIDE DEF T
<1> QED BY <1>1

LEMMA SoundAppend ==
  ASSUME NEW q, Listed(q), AllSound(q), NEW w, Sound(w)
  PROVE  Listed(Append(q, w)) /\ AllSound(Append(q, w))
<1> SUFFICES AllSound(Append(q, w))
  BY AppendListed
<1> SUFFICES ASSUME NEW i \in DOMAIN Append(q, w) PROVE Sound(Append(q, w)[i])
  BY DEF AllSound
<1>1. (i \in DOMAIN q /\ Append(q, w)[i] = q[i]) \/ Append(q, w)[i] = w
  BY AppendElements
<1> QED BY <1>1 DEF AllSound

LEMMA SoundTail ==
  ASSUME NEW q, Listed(q), AllSound(q), q /= <<>>
  PROVE  Sound(Head(q)) /\ Listed(Tail(q)) /\ AllSound(Tail(q))
<1>1. Sound(Head(q)) /\ Listed(Tail(q))
  BY TailElements, TailListed DEF AllSound
<1>2. ASSUME NEW i \in DOMAIN Tail(q) PROVE Sound(Tail(q)[i])
  <2>1. i + 1 \in DOMAIN q /\ Tail(q)[i] = q[i + 1]
    BY TailElements
  <2> QED BY <2>1 DEF AllSound
<1> QED BY <1>1, <1>2 DEF AllSound

(* What a message may carry, after a step that sends or receives one.      *)
LEMMA LinksSent ==
  ASSUME ChanType, lay' = lay, NEW s, NEW d, NEW msg, chan' = Sent(s, d, msg),
         NEW a \in Nodes, NEW b \in Nodes, NEW T, AllLinks(chan[a][b], T),
         a = s /\ b = d => msg.links \in T
  PROVE  AllLinks(chan'[a][b], T)
<1> DEFINE q == chan[a][b]
<1>1. Listed(q) /\ chan'[a][b] = IF a = s /\ b = d THEN Append(q, msg) ELSE q
  BY SentIs DEF ChanType
<1> HIDE DEF q
<1>2. CASE a = s /\ b = d
  <2> SUFFICES ASSUME NEW i \in DOMAIN Append(q, msg) PROVE Append(q, msg)[i].links \in T
    BY <1>1, <1>2 DEF AllLinks
  <2>1. (i \in DOMAIN q /\ Append(q, msg)[i] = q[i]) \/ Append(q, msg)[i] = msg
    BY <1>1, AppendElements
  <2> QED BY <1>2, <2>1 DEF AllLinks, q
<1> QED BY <1>1, <1>2 DEF q

LEMMA LinksReceived ==
  ASSUME ChanType, lay' = lay, NEW s, NEW d, Arrived(s, d), chan' = Received(s, d),
         NEW a \in Nodes, NEW b \in Nodes, NEW T, AllLinks(chan[a][b], T)
  PROVE  AllLinks(chan'[a][b], T)
<1> DEFINE q == chan[a][b]
<1>1. /\ Listed(q) /\ chan'[a][b] = IF a = s /\ b = d THEN Tail(q) ELSE q
      /\ a = s /\ b = d => q /= <<>>
  BY ReceivedIs DEF ChanType, Arrived
<1> HIDE DEF q
<1>2. CASE a = s /\ b = d
  <2> SUFFICES ASSUME NEW i \in DOMAIN Tail(q) PROVE Tail(q)[i].links \in T
    BY <1>1, <1>2 DEF AllLinks
  <2>1. i + 1 \in DOMAIN q /\ Tail(q)[i] = q[i + 1]
    BY <1>1, <1>2, TailElements
  <2> QED BY <2>1 DEF AllLinks, q
<1> QED BY <1>1, <1>2 DEF q

LEMMA HeadLinks ==
  ASSUME ChanType, NEW s \in Nodes, NEW d \in Nodes, NEW T, Arrived(s, d),
         AllLinks(chan[s][d], T)
  PROVE  Head(chan[s][d]).links \in T
<1>1. Listed(chan[s][d]) /\ chan[s][d] /= <<>>
  BY DEF ChanType, Arrived
<1> QED BY <1>1, TailElements DEF AllLinks

(* Buffers and parts of the file.                                          *)
LEMMA LoadedType ==
  ASSUME NEW D, NEW buf \in [D -> Values], NEW i, NEW sites \in Seq(Values)
  PROVE  Loaded(buf, i, sites) \in [D -> Values]
<1>1. \A k \in DOMAIN sites : sites[k] \in Values
  OBVIOUS
<1> QED BY <1>1 DEF Loaded

LEMMA FirstOfType ==
  ASSUME NEW buf \in [0 .. MaxBufLength - 1 -> Values], NEW len \in 0 .. MaxBufLength
  PROVE  FirstOf(buf, len) \in Seq(Values)
<1>1. MaxBufLength \in Nat
  BY SizeAssumption
<1>2. len \in Nat /\ \A k \in 1 .. len : buf[k - 1] \in Values
  BY <1>1
<1> QED BY <1>2 DEF FirstOf

FileType(f) == DOMAIN f = {"data", "order", "sum"} /\ f.data \in Content /\ f.order \in Content

LEMMA InFileType ==
  ASSUME NEW f, FileType(f), NEW w, Sound(w) PROVE FileType(InFile(f, w))
<1>1. CASE w.part = "sum"
  BY <1>1 DEF FileType, InFile
<1>2. CASE w.part \in {"data", "order"} /\ w.part /= "sum"
  <2>1. w.what \in Seq(Values) /\ Content = [Sites -> Values]
    BY <1>2 DEF Sound, Content, Values
  <2>2. \A g \in Content : Loaded(g, w.from, w.what) \in Content
    BY <2>1, LoadedType
  <2> QED BY <1>2, <2>2 DEF FileType, InFile
<1> QED BY <1>1, <1>2 DEF Sound

(* Steps that leave the variables of the nodes alone.                      *)
LEMMA KeptFile ==
  ASSUME lay' = lay, UNCHANGED <<file, out, list>>, FileTypes PROVE FileTypes'
<1>1. Nodes' = Nodes /\ \A m \in Nodes : Listed(out[m])' /\ AllSound(out[m])'
  BY SameNodeNumber DEF FileTypes, Listed, AllSound, Sound
<1> QED BY <1>1 DEF FileTypes

LEMMA NewFileTypes ==
  ASSUME lay' = lay, list' \in [Sites -> Sites], FileType(file'), DOMAIN out' = Nodes,
         \A m \in Nodes : Listed(out'[m]) /\ AllSound(out'[m])
  PROVE  FileTypes'
<1>1. Nodes' = Nodes /\ \A m \in Nodes : Listed(out[m])' /\ AllSound(out[m])'
  BY SameNodeNumber DEF Listed, AllSound, Sound
<1>2. DOMAIN file' = {"data", "order", "sum"} /\ file'.data \in Content /\ file'.order \in Content
  BY DEF FileType
<1>3. Content' = Content
  BY DEF Content
<1> QED BY <1>1, <1>2, <1>3 DEF FileTypes

LEMMA KeptHolds ==
  ASSUME IInv, Holds, UNCHANGED <<machine, lay, save, nodevars>>,
         stopped' \subseteq Nodes, verdict' \in {"none", "OK", "violation"}, FileTypes',
         \A m \in Nodes : \/ at'[m] = at[m]
                          \/ at'[m] \notin {"list", "turn", "sweep", "signal"}
                          \/ at[m] = "list" /\ at'[m] = "turn",
         Saving' => Saving,
         \/ \A m \in Nodes : at'[m] \in Dealt => at[m] \in Dealt
         \/ \A s, d \in Nodes : chan[s][d] = <<>>
  PROVE  Holds'
<1>1. /\ Nodes' = Nodes
      /\ UNCHANGED <<pos, tbuf, lbuf, blen, where, lat, chan, faults, eager>>
  BY SameNodeNumber DEF nodevars, machine
<1>2. MachineTypes'
  BY <1>1 DEF Holds, MachineTypes
<1>3. BufferTypes'
  BY <1>1 DEF Holds, BufferTypes, Content
<1>4. Filling'
  BY <1>1 DEF Holds, Filling
<1>5. LineTypes'
  BY <1>1 DEF Holds, LineTypes, AllLinks
<1>6. LinkTypes'
  <2> SUFFICES ASSUME (save = "parallel" /\ Saving') \/ (\E m \in Nodes : at'[m] \in Dealt),
                      NEW s \in Nodes, NEW d \in Nodes
               PROVE  AllLinks(chan[s][d], Values)
    BY <1>1 DEF LinkTypes, AllLinks
  <2>1. CASE chan[s][d] = <<>>
    BY <2>1, NothingToCarry
  <2>2. CASE (save = "parallel" /\ Saving) \/ (\E m \in Nodes : at[m] \in Dealt)
    BY <2>2 DEF Holds, LinkTypes
  <2> QED BY <2>1, <2>2
<1> QED BY <1>2, <1>3, <1>4, <1>5, <1>6 DEF Holds

LEMMA WriteListHolds ==
  ASSUME IInv, Holds, NEW n \in Nodes, WriteList(n) PROVE Holds'
<1>1. /\ UNCHANGED <<machine, lay, save, nodevars, verdict, out, list>> /\ at[n] = "list"
      /\ stopped' = stopped \/ stopped' = stopped \union {n}
      /\ at' = at \/ at' = [at EXCEPT ![n] = "turn"]
      /\ file' = file \/ file' = InFile(file, Write("order", n * SitesOnNode, lay[n]))
  BY DEF WriteList, Stop
<1>2. /\ stopped' \subseteq Nodes /\ verdict' \in {"none", "OK", "violation"}
      /\ Nodes' = Nodes
  BY <1>1, SameNodeNumber DEF Holds, MachineTypes
<1>3. \A m \in Nodes : at'[m] = at[m] \/ (at[m] = "list" /\ at'[m] = "turn")
  BY <1>1 DEF IInv, Types
<1>4. Saving' => Saving
  BY <1>1, <1>2, <1>3 DEF Saving, BeforeSum
<1>5. \A m \in Nodes : at'[m] \in Dealt => at[m] \in Dealt
  BY <1>3 DEF Dealt
<1>6. FileType(file')
  <2>1. Sound(Write("order", n * SitesOnNode, lay[n]))
    <3>1. lay[n] \in Seq(Sites)
      BY LayoutAssumption DEF IInv, Types, Nodes
    <3>2. lay[n] \in Seq(Values)
      BY <3>1 DEF Values
    <3> QED BY <3>2 DEF Sound, Write
  <2>2. FileType(file)
    BY DEF Holds, FileTypes, FileType
  <2> QED BY <1>1, <2>1, <2>2, InFileType
<1>7. FileTypes'
  <2>1. /\ list' \in [Sites -> Sites] /\ DOMAIN out' = Nodes
        /\ \A m \in Nodes : Listed(out'[m]) /\ AllSound(out'[m])
    BY <1>1 DEF Holds, FileTypes
  <2> QED BY <1>1, <1>6, <2>1, NewFileTypes
<1> QED BY <1>1, <1>2, <1>3, <1>4, <1>5, <1>7, KeptHolds

LEMMA EndTurnsHolds ==
  ASSUME IInv, Holds, NEW n \in Nodes, EndTurns(n) PROVE Holds'
<1>1. /\ UNCHANGED <<machine, lay, save, nodevars, verdict, stopped, file, out, list>>
      /\ at' = [at EXCEPT ![n] = "sum"] /\ at[n] = "turn"
  BY DEF EndTurns
<1>2. FileTypes' /\ Nodes' = Nodes
  BY <1>1, KeptFile, SameNodeNumber DEF Holds
<1>3. \A m \in Nodes : at'[m] = at[m] \/ (m = n /\ at'[m] = "sum")
  BY <1>1 DEF IInv, Types
<1>4. Saving' => Saving
  BY <1>1, <1>2, <1>3 DEF Saving, BeforeSum
<1>5. /\ stopped' \subseteq Nodes /\ verdict' \in {"none", "OK", "violation"}
      /\ \A m \in Nodes : at'[m] \in Dealt => at[m] \in Dealt
  BY <1>1, <1>3 DEF Holds, MachineTypes, Dealt
<1> QED BY <1>1, <1>2, <1>3, <1>4, <1>5, KeptHolds

LEMMA WriteBackHolds ==
  ASSUME IInv, Holds, NEW n \in Nodes, WriteBack(n) PROVE Holds'
<1>1. /\ UNCHANGED <<machine, lay, save, nodevars, verdict, stopped, at, list>>
      /\ out[n] /= <<>> /\ out' = [out EXCEPT ![n] = Tail(@)]
      /\ file' = file \/ file' = InFile(file, Head(out[n]))
  BY DEF WriteBack
<1>2. /\ Nodes' = Nodes /\ stopped' \subseteq Nodes /\ verdict' \in {"none", "OK", "violation"}
      /\ (Saving' => Saving) /\ \A m \in Nodes : at'[m] \in Dealt => at[m] \in Dealt
  BY <1>1, SameNodeNumber DEF Holds, MachineTypes, Saving
<1>3. /\ Sound(Head(out[n])) /\ Listed(Tail(out[n])) /\ AllSound(Tail(out[n]))
      /\ FileType(file) /\ DOMAIN out = Nodes
      /\ \A m \in Nodes : Listed(out[m]) /\ AllSound(out[m])
  <2>1. FileType(file) /\ DOMAIN out = Nodes /\ \A m \in Nodes : Listed(out[m]) /\ AllSound(out[m])
    BY DEF Holds, FileTypes, FileType
  <2> QED BY <1>1, <2>1, SoundTail
<1>4. FileTypes'
  <2>1. FileType(file')
    BY <1>1, <1>3, InFileType
  <2>2. DOMAIN out' = Nodes /\ \A m \in Nodes : out'[m] = IF m = n THEN Tail(out[m]) ELSE out[m]
    BY <1>1, <1>3
  <2>3. list' \in [Sites -> Sites] /\ \A m \in Nodes : Listed(out'[m]) /\ AllSound(out'[m])
    BY <1>1, <1>3, <2>2 DEF Holds, FileTypes
  <2> QED BY <1>1, <2>1, <2>2, <2>3, NewFileTypes
<1> QED BY <1>1, <1>2, <1>4, KeptHolds

LEMMA WriteChecksumHolds ==
  ASSUME IInv, Holds, NEW n \in Nodes, WriteChecksum(n) PROVE Holds'
<1>1. /\ UNCHANGED <<machine, lay, save, nodevars, verdict, file, list>>
      /\ stopped' = stopped \/ stopped' = stopped \union {0}
      /\ at[n] = "sum" /\ (at' = at \/ at' = [at EXCEPT ![n] = "close"])
      /\ out' = out \/ out' = [out EXCEPT ![0] = <<Write("sum", 0, GlobalXor)>>]
  BY DEF WriteChecksum, Stop
<1>2. 0 \in Nodes /\ Nodes' = Nodes
  <2>1. 0 \in Nodes
    BY LayoutFacts DEF IInv, Types
  <2> QED BY <1>1, <2>1, SameNodeNumber
<1>3. \A m \in Nodes : at'[m] = at[m] \/ (at[m] = "sum" /\ at'[m] = "close")
  BY <1>1 DEF IInv, Types
<1>4. Saving' => Saving
  BY <1>1, <1>2, <1>3 DEF Saving, BeforeSum
<1>5. /\ stopped' \subseteq Nodes /\ verdict' \in {"none", "OK", "violation"}
      /\ \A m \in Nodes : at'[m] \in Dealt => at[m] \in Dealt
  BY <1>1, <1>2, <1>3 DEF Holds, MachineTypes, Dealt
<1>6. FileTypes'
  <2> DEFINE w == Write("sum", 0, GlobalXor)
  <2>1. Sound(w)
    BY DEF Sound, Write
  <2>2. DOMAIN out = Nodes /\ \A m \in Nodes : Listed(out[m]) /\ AllSound(out[m])
    BY DEF Holds, FileTypes
  <2>3. out' = out \/ out' = [out EXCEPT ![0] = <<w>>]
    BY <1>1
  <2> HIDE DEF w
  <2>4. Listed(<<w>>) /\ AllSound(<<w>>)
    <3>1. <<w>> = Append(<<>>, w) /\ AllSound(<<>>)
      BY DEF AllSound
    <3> QED BY <2>1, <3>1, SoundAppend, EmptyListed
  <2>5. DOMAIN out' = Nodes /\ \A m \in Nodes : Listed(out'[m]) /\ AllSound(out'[m])
    BY <2>2, <2>3, <2>4
  <2>6. list' \in [Sites -> Sites] /\ FileType(file')
    BY <1>1 DEF Holds, FileTypes, FileType
  <2> QED BY <1>1, <2>5, <2>6, NewFileTypes
<1> QED BY <1>1, <1>3, <1>4, <1>5, <1>6, KeptHolds

LEMMA CloseFileHolds ==
  ASSUME IInv, Holds, NEW n \in Nodes, CloseFile(n) PROVE Holds'
<1>1. /\ UNCHANGED <<machine, lay, save, nodevars, verdict, stopped, file, out, list>>
      /\ at' = [at EXCEPT ![n] = "closed"] /\ at[n] = "close"
  BY DEF CloseFile
<1>2. FileTypes' /\ Nodes' = Nodes
  BY <1>1, KeptFile, SameNodeNumber DEF Holds
<1>3. \A m \in Nodes : at'[m] = at[m] \/ (m = n /\ at'[m] = "closed")
  BY <1>1 DEF IInv, Types
<1>4. Saving' => Saving
  BY <1>1, <1>2, <1>3 DEF Saving, BeforeSum
<1>5. /\ stopped' \subseteq Nodes /\ verdict' \in {"none", "OK", "violation"}
      /\ \A m \in Nodes : at'[m] \in Dealt => at[m] \in Dealt
  BY <1>1, <1>3 DEF Holds, MachineTypes, Dealt
<1> QED BY <1>1, <1>2, <1>3, <1>4, <1>5, KeptHolds

LEMMA BeginDealHolds ==
  ASSUME IInv, Holds, NEW n \in Nodes, BeginDeal(n) PROVE Holds'
<1>1. /\ UNCHANGED <<machine, lay, save, nodevars, verdict, stopped, file, out, list>>
      /\ at' = [at EXCEPT ![n] = "deal"] /\ at[n] = "load" /\ AllAt("load")
  BY DEF BeginDeal
<1>2. FileTypes' /\ Nodes' = Nodes
  BY <1>1, KeptFile, SameNodeNumber DEF Holds
<1>3. \A m \in Nodes : at'[m] = at[m] \/ (m = n /\ at'[m] = "deal")
  BY <1>1 DEF IInv, Types
<1>4. Saving' => Saving
  BY <1>1, <1>2, <1>3 DEF Saving, BeforeSum
<1>5. stopped' \subseteq Nodes /\ verdict' \in {"none", "OK", "violation"}
  BY <1>1 DEF Holds, MachineTypes
<1>6. CASE \E m \in Nodes : at[m] \in Dealt
  <2>1. UNCHANGED <<pos, tbuf, lbuf, blen, where, lat, chan, faults, eager, save>>
    BY <1>1 DEF nodevars, machine
  <2>2. MachineTypes' /\ BufferTypes' /\ Filling'
    BY <1>1, <1>2, <1>3, <1>5, <2>1 DEF Holds, MachineTypes, BufferTypes, Filling, Content
  <2>3. LineTypes'
    BY <1>2, <1>4, <2>1 DEF Holds, LineTypes, AllLinks
  <2>4. \A s, d \in Nodes : AllLinks(chan'[s][d], Values)
    BY <1>6, <2>1 DEF Holds, LinkTypes
  <2>5. LinkTypes'
    BY <1>2, <2>4 DEF LinkTypes, AllLinks, Values
  <2> QED BY <1>2, <2>2, <2>3, <2>5 DEF Holds
<1>7. CASE ~\E m \in Nodes : at[m] \in Dealt
  <2>1. \A m \in Nodes : at[m] = "load"
    BY <1>1, <1>7, BarrierPassed DEF IInv
  <2>2. \A s, d \in Nodes : chan[s][d] = <<>>
    BY <2>1 DEF IInv, QuietInv, Idle
  <2> QED BY <1>1, <1>2, <1>3, <1>4, <1>5, <2>2, KeptHolds
<1> QED BY <1>6, <1>7

LEMMA EndOfDealHolds ==
  ASSUME IInv, Holds, NEW n \in Nodes, NEW to \in {"check", "over"},
         at[n] \in {"deal", "check"}, at' = [at EXCEPT ![n] = to],
         UNCHANGED <<machine, lay, save, nodevars, stopped, file, out, list>>,
         verdict' \in {"none", "OK", "violation"}
  PROVE  Holds'
<1>1. FileTypes' /\ Nodes' = Nodes
  BY KeptFile, SameNodeNumber DEF Holds
<1>2. \A m \in Nodes : at'[m] = at[m] \/ (m = n /\ at'[m] = to)
  BY DEF IInv, Types
<1>3. Saving' => Saving
  BY <1>1, <1>2 DEF Saving, BeforeSum
<1>4. stopped' \subseteq Nodes /\ \A m \in Nodes : at'[m] \in Dealt => at[m] \in Dealt
  BY <1>1, <1>2 DEF Holds, MachineTypes, Dealt
<1> QED BY <1>1, <1>2, <1>3, <1>4, KeptHolds

LEMMA EndDealHolds ==
  ASSUME IInv, Holds, NEW n \in Nodes, EndDeal(n) PROVE Holds'
<1>1. /\ at[n] = "deal" /\ at' = [at EXCEPT ![n] = "check"]
      /\ UNCHANGED <<machine, lay, save, nodevars, stopped, file, out, list, verdict>>
  BY DEF EndDeal
<1>2. verdict' \in {"none", "OK", "violation"}
  BY <1>1 DEF Holds, MachineTypes
<1> QED BY <1>1, <1>2, EndOfDealHolds

LEMMA ReadChecksumHolds ==
  ASSUME IInv, Holds, NEW n \in Nodes, ReadChecksum(n) PROVE Holds'
<1>1. /\ at[n] = "check" /\ at' = [at EXCEPT ![n] = "over"]
      /\ UNCHANGED <<machine, lay, save, nodevars, stopped, file, out, list>>
      /\ verdict' \in {verdict, "OK", "violation"}
  BY DEF ReadChecksum
<1>2. verdict' \in {"none", "OK", "violation"}
  BY <1>1 DEF Holds, MachineTypes
<1> QED BY <1>1, <1>2, EndOfDealHolds

LEMMA NewJobHolds ==
  ASSUME IInv, Holds, NEW l \in Layouts, NewJob(l) PROVE Holds'
<1> DEFINE M == DOMAIN l
<1>1. /\ Nodes' = M /\ UNCHANGED <<faults, eager, save, file, list, verdict>> /\ stopped' = {}
      /\ at' = [n \in M |-> "closed"] /\ tbuf' = [n \in M |-> <<>>]
      /\ lbuf' = [n \in M |-> EmptyBuf] /\ blen' = [n \in M |-> 0]
      /\ where' = [n \in M |-> 0] /\ lat' = [n \in M |-> [s \in Sites |-> None]]
      /\ out' = [n \in M |-> <<>>]
  BY DEF NewJob, NodeVarsInit, Nodes, machine
<1> HIDE DEF M
<1>2. MachineTypes'
  BY <1>1 DEF Holds, MachineTypes
<1>3. BufferTypes'
  <2>1. EmptyBuf \in [0 .. MaxBufLength - 1 -> Values]
    BY DEF EmptyBuf, Values
  <2>2. [s \in Sites |-> None] \in Content /\ 0 \in 0 .. MaxBufLength
    BY SizeAssumption DEF Content
  <2>3. tbuf' \in [M -> Seq(Values)]
    BY <1>1
  <2> QED BY <1>1, <2>1, <2>2, <2>3 DEF BufferTypes, Content, Values
<1>4. FileTypes'
  <2>1. \A n \in M : out'[n] = <<>>
    BY <1>1
  <2>2. DOMAIN out' = Nodes' /\ \A n \in Nodes' : Listed(out[n])' /\ AllSound(out[n])'
    BY <1>1, <2>1, EmptyListed DEF Listed, AllSound
  <2>3. /\ DOMAIN file' = {"data", "order", "sum"} /\ file'.data \in Content
        /\ file'.order \in Content /\ list' \in [Sites -> Sites] /\ Content' = Content
    BY <1>1 DEF Holds, FileTypes, Content
  <2> QED BY <2>2, <2>3 DEF FileTypes
<1>5. \A n \in M : at'[n] = "closed" /\ Len(tbuf'[n]) = 0
  BY <1>1, EmptyListed
<1>6. Filling'
  BY <1>1, <1>5, SizeAssumption DEF Filling
<1>7. 0 \in M
  BY NodesAre DEF M
<1>8. LineTypes' /\ LinkTypes'
  BY <1>1, <1>5, <1>7 DEF LineTypes, LinkTypes, Saving, BeforeSum, Dealt
<1> QED BY <1>2, <1>3, <1>4, <1>6, <1>8 DEF Holds

LEMMA OpenFileHolds ==
  ASSUME IInv, Holds, NEW n \in Nodes, OpenFile(n) PROVE Holds'
<1>1. /\ UNCHANGED <<faults, eager, lay, save, tbuf, lbuf, lat, chan, out, file, verdict>>
      /\ at[n] = "closed" /\ Nodes' = Nodes
      /\ stopped' = stopped \/ stopped' = stopped \union {n}
      /\ list' = list \/ list' = SiteList
      /\ \/ UNCHANGED <<at, pos, where, blen>>
         \/ /\ at' = [at EXCEPT ![n] = "load"] /\ pos' = [pos EXCEPT ![n] = 0]
            /\ where' = [where EXCEPT ![n] = 0] /\ blen' = [blen EXCEPT ![n] = 0]
  BY SameNodeNumber DEF OpenFile, Stop, machine
<1>2. \A m \in Nodes : \/ at'[m] = at[m] /\ pos'[m] = pos[m] /\ blen'[m] = blen[m]
                       \/ m = n /\ at'[m] = "load"
  BY <1>1 DEF IInv, Types, Holds, BufferTypes
<1>3. MachineTypes'
  BY <1>1 DEF Holds, MachineTypes
<1>4. BufferTypes'
  <2>1. 0 \in 0 .. MaxBufLength /\ 0 \in Nat
    BY SizeAssumption
  <2> QED BY <1>1, <2>1 DEF Holds, BufferTypes, Content
<1>5. FileTypes'
  <2>1. SiteList \in [Sites -> Sites]
    <3>1. 0 \in Sites
      BY SizeAssumption DEF Sites
    <3>2. \A r \in Sites : Zero(file.order[r]) \in Sites
      BY <3>1 DEF Holds, FileTypes, Content, Zero
    <3> QED BY <3>2 DEF SiteList, NaturalOrder
  <2>2. /\ list' \in [Sites -> Sites] /\ FileType(file') /\ DOMAIN out' = Nodes
        /\ \A m \in Nodes : Listed(out'[m]) /\ AllSound(out'[m])
    BY <1>1, <2>1 DEF Holds, FileTypes, FileType
  <2> QED BY <1>1, <2>2, NewFileTypes
<1>6. Filling'
  <2> SUFFICES ASSUME NEW m \in Nodes
               PROVE  /\ at'[m] \in {"list", "turn"} => blen'[m] < MaxBufLength
                      /\ at'[m] \in {"sweep", "signal"} => blen'[m] <= MaxBufLength - Nx
                      /\ at'[m] = "sweep" /\ pos'[m] > 0 => Len(tbuf[m]) <= ((pos'[m] - 1) % Nx) + 1
                      /\ at'[m] = "signal" => Len(tbuf[m]) <= pos'[m] % Nx
                      /\ Len(tbuf[m]) <= Nx
    BY <1>1 DEF Filling
  <2> QED BY <1>2 DEF Holds, Filling
<1>7. LineTypes' /\ LinkTypes'
  <2>1. ~Saving'
    BY <1>1, <1>2 DEF Saving, BeforeSum
  <2>2. LineTypes'
    BY <2>1 DEF LineTypes
  <2>3. \A m \in Nodes : at'[m] \notin Dealt
    BY <1>1, <1>2 DEF Dealt, IInv, Barriers
  <2>4. LinkTypes'
    BY <1>1, <2>1, <2>3 DEF LinkTypes
  <2> QED BY <2>2, <2>4
<1> QED BY <1>3, <1>4, <1>5, <1>6, <1>7 DEF Holds

-----------------------------------------------------------------------------
(* The buffer that is written when there is no room for another line, or   *)
(* another site.                                                           *)

LEMMA NextInLine ==
  ASSUME NEW N \in Nat \ {0}, NEW j \in Nat \ {0}
  PROVE  /\ (j - 1) % N \in Nat /\ (j - 1) % N < N /\ j % N \in Nat /\ j % N < N
         /\ j % N /= 0 => ((j - 1) % N) + 1 = j % N
<1> DEFINE q == j \div N
           r == j % N
<1>1. q \in Nat /\ r \in Nat /\ r < N /\ j = q * N + r
  BY DivRem
<1>2. (j - 1) % N \in Nat /\ (j - 1) % N < N
  <2>1. j - 1 \in Nat
    OBVIOUS
  <2> QED BY <2>1, DivRem
<1> HIDE DEF q, r
<1>3. ASSUME r /= 0 PROVE (j - 1) % N = r - 1
  <2> DEFINE t == r - 1
  <2>1. j - 1 = q * N + t /\ t \in Nat /\ t < N
    BY <1>1, <1>3
  <2> HIDE DEF t
  <2>2. (q * N + t) % N = t
    BY <1>1, <2>1, DivRemUnique
  <2> QED BY <2>1, <2>2 DEF t
<1> QED BY <1>1, <1>2, <1>3 DEF r

LEMMA WrittenSound ==
  ASSUME FileTypes, NEW n \in Nodes, NEW w, Sound(w),
         out' = out \/ out' = [out EXCEPT ![n] = Append(@, w)]
  PROVE  DOMAIN out' = Nodes /\ \A m \in Nodes : Listed(out'[m]) /\ AllSound(out'[m])
<1>1. DOMAIN out = Nodes /\ \A m \in Nodes : Listed(out[m]) /\ AllSound(out[m])
  BY DEF FileTypes
<1>2. Listed(Append(out[n], w)) /\ AllSound(Append(out[n], w))
  BY <1>1, SoundAppend
<1> QED BY <1>1, <1>2

LEMMA DataSound ==
  ASSUME NEW from, NEW buf \in [0 .. MaxBufLength - 1 -> Values], NEW len \in 0 .. MaxBufLength
  PROVE  Sound(Write("data", from, FirstOf(buf, len)))
BY FirstOfType DEF Sound, Write

LEMMA FlushHolds ==
  ASSUME IInv, Holds, at[0] \in {"sweep", "signal"},
         NEW sites \in LineSet, Flush(sites)
  PROVE  /\ lbuf' \in [Nodes -> [0 .. MaxBufLength - 1 -> Values]]
         /\ blen' \in [Nodes -> 0 .. MaxBufLength] /\ where' \in [Nodes -> Nat]
         /\ blen'[0] <= MaxBufLength - Nx /\ \A m \in Nodes : m /= 0 => blen'[m] = blen[m]
         /\ DOMAIN out' = Nodes /\ \A m \in Nodes : Listed(out'[m]) /\ AllSound(out'[m])
         /\ stopped' \subseteq Nodes
<1> DEFINE len == blen[0] + Len(sites)
           buf == Loaded(lbuf[0], blen[0], sites)
           w   == Write("data", where[0], FirstOf(buf, len))
<1>1. /\ 0 \in Nodes /\ MaxBufLength \in Nat /\ Nx \in 1 .. MaxBufLength
      /\ BufferTypes /\ FileTypes /\ stopped \subseteq Nodes /\ blen[0] \in Nat
      /\ blen[0] <= MaxBufLength - Nx
  <2>1. 0 \in Nodes /\ MaxBufLength \in Nat /\ Nx \in 1 .. MaxBufLength
    BY LayoutFacts, SizeAssumption DEF IInv, Types
  <2> QED BY <2>1 DEF Holds, BufferTypes, Filling, MachineTypes
<1>2. sites \in Seq(Values) /\ Len(sites) \in Nat /\ Len(sites) <= Nx
  <2>1. sites \in Seq(Values) /\ Len(sites) <= Nx
    BY DEF LineSet
  <2> QED BY <2>1
<1>3. len \in 0 .. MaxBufLength
  BY <1>1, <1>2
<1>4. buf \in [0 .. MaxBufLength - 1 -> Values]
  BY <1>1, <1>2, LoadedType DEF BufferTypes
<1>5. Sound(w)
  BY <1>3, <1>4, DataSound
<1>6. /\ lbuf' = [lbuf EXCEPT ![0] = buf]
      /\ \/ /\ out' = [out EXCEPT ![0] = Append(@, w)]
            /\ where' = [where EXCEPT ![0] = where[0] + len]
            /\ blen' = [blen EXCEPT ![0] = 0] /\ stopped' = stopped
         \/ /\ ~Full(len) /\ UNCHANGED <<out, where, stopped>>
            /\ blen' = [blen EXCEPT ![0] = len]
         \/ /\ UNCHANGED <<out, where, blen>> /\ stopped' = stopped \union {0}
  BY DEF Flush, Stop
<1>7. ~Full(len) => len <= MaxBufLength - Nx
  BY <1>1, <1>3 DEF Full
<1> HIDE DEF len, buf, w
<1>8. DOMAIN out' = Nodes /\ \A m \in Nodes : Listed(out'[m]) /\ AllSound(out'[m])
  <2>1. out' = out \/ out' = [out EXCEPT ![0] = Append(@, w)]
    BY <1>6
  <2> QED BY <1>1, <1>5, <2>1, WrittenSound
<1>9. where[0] + len \in Nat /\ 0 <= MaxBufLength - Nx
  BY <1>1, <1>3 DEF BufferTypes
<1>10. where' \in [Nodes -> Nat] /\ stopped' \subseteq Nodes
  BY <1>1, <1>6, <1>9 DEF BufferTypes
<1>11. /\ blen' \in [Nodes -> 0 .. MaxBufLength] /\ blen'[0] <= MaxBufLength - Nx
       /\ \A m \in Nodes : m /= 0 => blen'[m] = blen[m]
  <2>1. blen \in [Nodes -> 0 .. MaxBufLength]
    BY <1>1 DEF BufferTypes
  <2>2. 0 \in 0 .. MaxBufLength
    BY <1>1
  <2>3. CASE blen' = [blen EXCEPT ![0] = 0]
    BY <1>1, <1>9, <2>1, <2>2, <2>3
  <2>4. CASE blen' = [blen EXCEPT ![0] = len] /\ ~Full(len)
    BY <1>1, <1>3, <1>7, <2>1, <2>4
  <2>5. CASE blen' = blen
    BY <1>1, <2>1, <2>5
  <2> QED BY <1>6, <2>3, <2>4, <2>5
<1>12. lbuf' \in [Nodes -> [0 .. MaxBufLength - 1 -> Values]]
  BY <1>1, <1>4, <1>6 DEF BufferTypes
<1> QED BY <1>8, <1>10, <1>11, <1>12

LEMMA PutSiteHolds ==
  ASSUME IInv, Holds, NEW n \in Nodes, blen[n] < MaxBufLength,
         NEW rank, NEW i, NEW s \in Values, NEW last, PutSite(n, rank, i, s, last)
  PROVE  /\ lbuf' \in [Nodes -> [0 .. MaxBufLength - 1 -> Values]]
         /\ blen' \in [Nodes -> 0 .. MaxBufLength] /\ where' \in [Nodes -> Nat]
         /\ blen'[n] < MaxBufLength /\ \A m \in Nodes : m /= n => blen'[m] = blen[m]
         /\ DOMAIN out' = Nodes /\ \A m \in Nodes : Listed(out'[m]) /\ AllSound(out'[m])
         /\ stopped' \subseteq Nodes
<1> DEFINE len == blen[n] + 1
           buf == Loaded(lbuf[n], i, <<s>>)
           w   == Write("data", where[n], FirstOf(buf, len))
<1>1. /\ MaxBufLength \in Nat /\ Nx \in 1 .. MaxBufLength
      /\ BufferTypes /\ FileTypes /\ stopped \subseteq Nodes /\ blen[n] \in Nat /\ where[n] \in Nat
  BY SizeAssumption DEF Holds, BufferTypes, MachineTypes
<1>2. len \in 0 .. MaxBufLength /\ where[n] + blen[n] + 1 \in Nat /\ 0 < MaxBufLength
  BY <1>1
<1>3. buf \in [0 .. MaxBufLength - 1 -> Values] /\ EmptyBuf \in [0 .. MaxBufLength - 1 -> Values]
  <2>1. <<s>> \in Seq(Values)
    OBVIOUS
  <2>2. EmptyBuf \in [0 .. MaxBufLength - 1 -> Values]
    BY DEF EmptyBuf, Values
  <2> QED BY <1>1, <2>1, <2>2, LoadedType DEF BufferTypes
<1>4. Sound(w)
  BY <1>2, <1>3, DataSound
<1>5. /\ \/ lbuf' = [lbuf EXCEPT ![n] = EmptyBuf] \/ lbuf' = [lbuf EXCEPT ![n] = buf] \/ lbuf' = lbuf
      /\ \/ /\ out' = [out EXCEPT ![n] = Append(@, w)]
            /\ where' = [where EXCEPT ![n] = where[n] + blen[n] + 1]
            /\ blen' = [blen EXCEPT ![n] = 0] /\ stopped' = stopped
         \/ /\ len /= MaxBufLength /\ UNCHANGED <<out, where, stopped>>
            /\ blen' = [blen EXCEPT ![n] = len]
         \/ /\ UNCHANGED <<out, where, blen>> /\ stopped' = stopped \union {n}
  BY <1>1 DEF PutSite, Stop, BufferTypes
<1>6. len /= MaxBufLength => len < MaxBufLength
  BY <1>1, <1>2
<1> HIDE DEF len, buf, w
<1>7. DOMAIN out' = Nodes /\ \A m \in Nodes : Listed(out'[m]) /\ AllSound(out'[m])
  <2>1. out' = out \/ out' = [out EXCEPT ![n] = Append(@, w)]
    BY <1>5
  <2> QED BY <1>1, <1>4, <2>1, WrittenSound
<1>8. where' \in [Nodes -> Nat] /\ stopped' \subseteq Nodes
  BY <1>1, <1>2, <1>5 DEF BufferTypes
<1>9. /\ blen' \in [Nodes -> 0 .. MaxBufLength] /\ blen'[n] < MaxBufLength
      /\ \A m \in Nodes : m /= n => blen'[m] = blen[m]
  <2>1. blen \in [Nodes -> 0 .. MaxBufLength] /\ 0 \in 0 .. MaxBufLength
    BY <1>1 DEF BufferTypes
  <2>2. CASE blen' = [blen EXCEPT ![n] = 0]
    BY <1>2, <2>1, <2>2
  <2>3. CASE blen' = [blen EXCEPT ![n] = len] /\ len /= MaxBufLength
    BY <1>2, <1>6, <2>1, <2>3
  <2>4. CASE blen' = blen
    BY <2>1, <2>4
  <2> QED BY <1>5, <2>2, <2>3, <2>4
<1>10. lbuf' \in [Nodes -> [0 .. MaxBufLength - 1 -> Values]]
  BY <1>1, <1>3, <1>5 DEF BufferTypes
<1> QED BY <1>7, <1>8, <1>9, <1>10

LEMMA NodeOfSite ==
  ASSUME lay \in Layouts, NEW s \in Sites PROVE NodeNumber(s) \in Nodes
<1>1. \E n \in Nodes : \E i \in DOMAIN lay[n] : lay[n][i] = s
  BY LayoutAssumption DEF Nodes
<1> QED BY <1>1 DEF NodeNumber

LEMMA SweepLineHolds ==
  ASSUME IInv, Holds, NEW n \in Nodes, SweepLine(n) PROVE Holds'
<1> DEFINE j == pos[n]
           c == CurrentNode(j)
           to == IF j = Volume THEN "sum" ELSE "signal"
<1>1. /\ UNCHANGED <<faults, eager, lay, save, pos, lat, file, list, verdict>> /\ Nodes' = Nodes
      /\ at[n] = "sweep" /\ save = "serial" /\ at' = [at EXCEPT ![n] = to]
  BY SameNodeNumber DEF SweepLine, machine
<1>2. \/ ~Retires(n, j) /\ UNCHANGED <<tbuf, lbuf, blen, where, chan, out, stopped>>
      \/ /\ Retires(n, j) /\ n /= 0
         /\ chan' = Sent(n, 0, [kind |-> "line", links |-> tbuf[n]])
         /\ tbuf' = [tbuf EXCEPT ![n] = <<>>]
         /\ UNCHANGED <<lbuf, blen, where, out, stopped>>
      \/ /\ Retires(n, j) /\ n = 0 /\ c = 0 /\ Flush(tbuf[0]) /\ chan' = chan
         /\ tbuf' = [tbuf EXCEPT ![n] = <<>>]
      \/ /\ Retires(n, j) /\ n = 0 /\ c /= 0 /\ Arrived(c, 0)
         /\ Flush(Head(chan[c][0]).links) /\ chan' = Received(c, 0)
         /\ tbuf' = [tbuf EXCEPT ![n] = <<>>]
  BY DEF SweepLine
<1>3. /\ 0 \in Nodes /\ lay \in Layouts /\ j \in 0 .. Volume /\ ChanType
      /\ MaxBufLength \in Nat /\ Nx \in 1 .. MaxBufLength
      /\ \A m \in Nodes : at'[m] = IF m = n THEN to ELSE at[m]
  <2>1. lay \in Layouts /\ j \in 0 .. Volume /\ ChanType
    BY DEF IInv, Types
  <2>2. 0 \in Nodes
    BY <2>1, LayoutFacts
  <2> QED BY <1>1, <2>1, <2>2, SizeAssumption DEF IInv, Types
<1>4. Saving /\ LineInv /\ (\A m \in Nodes : at[m] \in {"sweep", "signal", "sum"})
  <2>1. \A m \in Nodes : at[m] \in BeforeSum \union {"sum"}
    BY <1>1 DEF IInv, Barriers, BeforeSum
  <2>2. \A m \in Nodes : at[m] \notin {"list", "turn"}
    BY <1>1 DEF IInv, StageInv
  <2> QED BY <1>1, <2>1, <2>2 DEF IInv, SerialInv, Saving, BeforeSum
<1>5. /\ tbuf \in [Nodes -> Seq(Values)] /\ tbuf' \in [Nodes -> Seq(Values)]
      /\ \A m \in Nodes : m /= n => tbuf'[m] = tbuf[m]
      /\ tbuf'[n] = IF Retires(n, j) THEN <<>> ELSE tbuf[n]
      /\ \A m \in Nodes : tbuf[m] \in LineSet
  <2>1. tbuf \in [Nodes -> Seq(Values)]
    BY DEF Holds, BufferTypes
  <2>2. <<>> \in Seq(Values)
    OBVIOUS
  <2>3. \A m \in Nodes : tbuf[m] \in LineSet
    BY <2>1 DEF LineSet, Holds, Filling
  <2>4. tbuf' = IF Retires(n, j) THEN [tbuf EXCEPT ![n] = <<>>] ELSE tbuf
    BY <1>2
  <2> HIDE DEF j
  <2> QED BY <2>1, <2>2, <2>3, <2>4
<1>6. \A m \in Nodes : AllLinks(chan[m][0], LineSet)
  BY <1>1, <1>4 DEF Holds, LineTypes
<1>7. c /= 0 => c \in Nodes
  <2>1. c /= 0 => j - 1 \in Sites /\ c = NodeNumber(j - 1)
    BY <1>3, SizeAssumption DEF CurrentNode, Sites
  <2> QED BY <1>3, <2>1, NodeOfSite
<1>8. /\ lbuf' \in [Nodes -> [0 .. MaxBufLength - 1 -> Values]]
      /\ blen' \in [Nodes -> 0 .. MaxBufLength] /\ where' \in [Nodes -> Nat]
      /\ \A m \in Nodes : at[m] \in {"sweep", "signal"} => blen'[m] <= MaxBufLength - Nx
      /\ DOMAIN out' = Nodes /\ \A m \in Nodes : Listed(out'[m]) /\ AllSound(out'[m])
      /\ stopped' \subseteq Nodes
  <2>1. CASE UNCHANGED <<lbuf, blen, where, out, stopped>>
    BY <2>1 DEF Holds, BufferTypes, FileTypes, Filling, MachineTypes
  <2>2. ASSUME n = 0, NEW sites \in LineSet, Flush(sites)
        PROVE  /\ lbuf' \in [Nodes -> [0 .. MaxBufLength - 1 -> Values]]
               /\ blen' \in [Nodes -> 0 .. MaxBufLength] /\ where' \in [Nodes -> Nat]
               /\ \A m \in Nodes : at[m] \in {"sweep", "signal"} => blen'[m] <= MaxBufLength - Nx
               /\ DOMAIN out' = Nodes /\ \A m \in Nodes : Listed(out'[m]) /\ AllSound(out'[m])
               /\ stopped' \subseteq Nodes
    <3>1. at[0] \in {"sweep", "signal"}
      BY <1>1, <2>2
    <3>2. \A m \in Nodes : at[m] \in {"sweep", "signal"} => blen[m] <= MaxBufLength - Nx
      BY DEF Holds, Filling
    <3> QED BY <2>2, <3>1, <3>2, FlushHolds
  <2>3. c /= 0 /\ Arrived(c, 0) => Head(chan[c][0]).links \in LineSet
    BY <1>3, <1>6, <1>7, HeadLinks
  <2> HIDE DEF j, c, to
  <2> QED BY <1>2, <1>3, <1>5, <2>1, <2>2, <2>3
<1>9. MachineTypes' /\ BufferTypes'
  BY <1>1, <1>5, <1>8 DEF Holds, MachineTypes, BufferTypes, Content
<1>10. FileTypes'
  <2>1. list' \in [Sites -> Sites] /\ FileType(file')
    BY <1>1 DEF Holds, FileTypes, FileType
  <2> QED BY <1>1, <1>8, <2>1, NewFileTypes
<1>11. Len(tbuf'[n]) <= Nx /\ (j < Volume => Len(tbuf'[n]) <= j % Nx)
  <2>1. Len(tbuf[n]) <= Nx /\ (j > 0 => Len(tbuf[n]) <= ((j - 1) % Nx) + 1)
    BY <1>1 DEF Holds, Filling
  <2>2. j \in Nat /\ Nx \in Nat \ {0} /\ j % Nx \in Nat
    BY <1>3, DivRem
  <2>3. CASE tbuf'[n] = <<>>
    BY <1>3, <2>2, <2>3, EmptyListed
  <2>4. CASE tbuf'[n] /= <<>>
    <3>1. ~Retires(n, j) /\ tbuf'[n] = tbuf[n] /\ tbuf[n] /= <<>>
      BY <1>5, <2>4
    <3>2. j > 0
      BY <1>1, <1>4, <3>1 DEF LineInv, HasLine
    <3>3. j < Volume => j % Nx /= 0
      BY <3>1 DEF Retires
    <3> HIDE DEF j
    <3>4. j \in Nat \ {0} /\ Nx \in Nat \ {0}
      BY <2>2, <3>2
    <3>5. j % Nx /= 0 => ((j - 1) % Nx) + 1 = j % Nx
      BY ONLY <3>4, NextInLine
    <3> QED BY <2>1, <3>1, <3>2, <3>3, <3>5
  <2> QED BY <2>3, <2>4
<1>12. Filling'
  <2> SUFFICES ASSUME NEW m \in Nodes
               PROVE  /\ at'[m] \in {"list", "turn"} => blen'[m] < MaxBufLength
                      /\ at'[m] \in {"sweep", "signal"} => blen'[m] <= MaxBufLength - Nx
                      /\ at'[m] = "sweep" /\ pos[m] > 0 => Len(tbuf'[m]) <= ((pos[m] - 1) % Nx) + 1
                      /\ at'[m] = "signal" => Len(tbuf'[m]) <= pos[m] % Nx
                      /\ Len(tbuf'[m]) <= Nx
    BY <1>1 DEF Filling
  <2>1. CASE m = n
    <3>1. at'[m] = "signal" => j < Volume
      BY <1>3, <2>1, SizeAssumption
    <3> QED BY <1>1, <1>3, <1>8, <1>11, <2>1, <3>1
  <2>2. CASE m /= n
    <3>1. at'[m] = at[m] /\ tbuf'[m] = tbuf[m]
      BY <1>3, <1>5, <2>2
    <3> QED BY <1>4, <1>8, <3>1 DEF Holds, Filling
  <2> QED BY <2>1, <2>2
<1>13. LineTypes'
  <2>1. ASSUME NEW m \in Nodes PROVE AllLinks(chan'[m][0], LineSet)
    <3> DEFINE msg == [kind |-> "line", links |-> tbuf[n]]
    <3>1. msg.links \in LineSet /\ AllLinks(chan[m][0], LineSet)
      BY <1>5, <1>6
    <3>2. CASE chan' = chan
      BY <3>1, <3>2
    <3>3. CASE chan' = Sent(n, 0, msg)
      <4> HIDE DEF msg
      <4> QED BY <1>1, <1>3, <3>1, <3>3, LinksSent
    <3>4. CASE Arrived(c, 0) /\ chan' = Received(c, 0)
      BY <1>1, <1>3, <3>1, <3>4, LinksReceived
    <3> QED BY <1>2, <3>2, <3>3, <3>4
  <2> QED BY <1>1, <2>1 DEF LineTypes, AllLinks, LineSet, Values
<1>14. LinkTypes'
  BY <1>1, <1>3, <1>4 DEF LinkTypes, Dealt
<1> QED BY <1>9, <1>10, <1>12, <1>13, <1>14 DEF Holds

LEMMA SignalNewNodeHolds ==
  ASSUME IInv, Holds, NEW n \in Nodes, SignalNewNode(n) PROVE Holds'
<1> DEFINE j == pos[n]
           new == NodeNumber(j)
           mine == IF n = new THEN <<j>> ELSE IF n = 0 THEN <<None>> ELSE <<>>
<1>1. /\ UNCHANGED <<faults, eager, lay, save, lbuf, blen, where, lat, file, out, list,
                     stopped, verdict>>
      /\ Nodes' = Nodes /\ at[n] = "signal" /\ save = "serial"
      /\ at' = [at EXCEPT ![n] = "sweep"] /\ pos' = [pos EXCEPT ![n] = @ + 1]
      /\ tbuf' = [tbuf EXCEPT ![n] = @ \o mine]
      /\ \/ chan' = chan
         \/ new /= 0 /\ chan' = Sent(0, new, [kind |-> "go"])
         \/ Arrived(0, n) /\ chan' = Received(0, n)
  BY SameNodeNumber DEF SignalNewNode, machine
<1>2. /\ ChanType /\ Nx \in Nat \ {0} /\ j \in 0 .. Volume - 1 /\ 0 \in Nodes
      /\ \A m \in Nodes : at'[m] = IF m = n THEN "sweep" ELSE at[m]
      /\ \A m \in Nodes : pos'[m] = IF m = n THEN j + 1 ELSE pos[m]
  <2>1. lay \in Layouts /\ j \in 0 .. Volume /\ j < Volume /\ ChanType
    BY <1>1 DEF IInv, Types, StageInv
  <2>2. 0 \in Nodes
    BY <2>1, LayoutFacts
  <2> QED BY <1>1, <2>1, <2>2, SizeAssumption DEF IInv, Types
<1>3. /\ Saving /\ (\A m \in Nodes : at[m] \notin Dealt)
      /\ j % Nx \in Nat /\ j % Nx < Nx
  <2>1. Saving /\ \A m \in Nodes : at[m] \notin Dealt
    BY <1>1 DEF IInv, Barriers, BeforeSum, Saving, Dealt
  <2>2. j \in Nat /\ Nx \in Nat \ {0}
    BY <1>2
  <2> HIDE DEF j
  <2> QED BY <2>1, <2>2, DivRem
<1>4. mine \in Seq(Values) /\ Len(mine) <= 1
  <2>1. j \in Values /\ None \in Values
    BY <1>2 DEF Values, Sites
  <2> HIDE DEF j, new
  <2>2. <<j>> \in Seq(Values) /\ <<None>> \in Seq(Values) /\ <<>> \in Seq(Values)
    BY <2>1
  <2>3. Len(<<j>>) = 1 /\ Len(<<None>>) = 1 /\ Len(<<>>) = 0
    OBVIOUS
  <2> QED BY <2>2, <2>3
<1> HIDE DEF mine
<1>5. /\ tbuf' \in [Nodes -> Seq(Values)] /\ \A m \in Nodes : m /= n => tbuf'[m] = tbuf[m]
      /\ Len(tbuf'[n]) <= (j % Nx) + 1
  <2>1. tbuf \in [Nodes -> Seq(Values)] /\ Len(tbuf[n]) <= j % Nx
    BY <1>1 DEF Holds, BufferTypes, Filling
  <2>2. /\ tbuf[n] \o mine \in Seq(Values)
        /\ Len(tbuf[n] \o mine) = Len(tbuf[n]) + Len(mine)
    BY <1>4, <2>1, ConcatProperties
  <2>3. Len(tbuf[n]) \in Nat /\ Len(mine) \in Nat /\ j % Nx \in Nat
    BY <1>2, <1>4, <2>1, DivRem
  <2>4. Len(tbuf[n] \o mine) <= (j % Nx) + 1
    BY <1>4, <2>1, <2>2, <2>3
  <2> HIDE DEF j
  <2> QED BY <1>1, <2>1, <2>2, <2>4
<1>6. MachineTypes' /\ BufferTypes' /\ FileTypes'
  <2>1. MachineTypes' /\ BufferTypes'
    BY <1>1, <1>5 DEF Holds, MachineTypes, BufferTypes, Content
  <2> QED BY <1>1, <2>1, KeptFile DEF Holds
<1>7. Filling'
  <2> SUFFICES ASSUME NEW m \in Nodes
               PROVE  /\ at'[m] \in {"list", "turn"} => blen[m] < MaxBufLength
                      /\ at'[m] \in {"sweep", "signal"} => blen[m] <= MaxBufLength - Nx
                      /\ at'[m] = "sweep" /\ pos'[m] > 0 => Len(tbuf'[m]) <= ((pos'[m] - 1) % Nx) + 1
                      /\ at'[m] = "signal" => Len(tbuf'[m]) <= pos'[m] % Nx
                      /\ Len(tbuf'[m]) <= Nx
    BY <1>1 DEF Filling
  <2>1. CASE m = n
    <3>1. blen[m] <= MaxBufLength - Nx
      BY <1>1, <2>1 DEF Holds, Filling
    <3>2. pos'[m] - 1 = j
      BY <1>2, <2>1
    <3>3. Len(tbuf'[n]) \in Nat
      BY <1>5
    <3>4. Len(tbuf'[n]) <= Nx
      BY <1>2, <1>3, <1>5, <3>3
    <3>5. at'[m] = "sweep"
      BY <1>2, <2>1
    <3> QED BY <1>5, <2>1, <3>1, <3>2, <3>4, <3>5
  <2>2. CASE m /= n
    <3>1. at'[m] = at[m] /\ tbuf'[m] = tbuf[m] /\ pos'[m] = pos[m]
      BY <1>2, <1>5, <2>2
    <3> QED BY <3>1 DEF Holds, Filling
  <2> QED BY <2>1, <2>2
<1>8. LineTypes'
  <2>1. ASSUME NEW m \in Nodes PROVE AllLinks(chan'[m][0], LineSet)
    <3> DEFINE msg == [kind |-> "go"]
    <3>1. AllLinks(chan[m][0], LineSet)
      BY <1>1, <1>3 DEF Holds, LineTypes
    <3>2. CASE chan' = chan
      BY <3>1, <3>2
    <3>3. CASE new /= 0 /\ chan' = Sent(0, new, msg)
      <4> HIDE DEF msg, new
      <4> QED BY <1>1, <1>2, <3>1, <3>3, LinksSent
    <3>4. CASE Arrived(0, n) /\ chan' = Received(0, n)
      BY <1>1, <1>2, <3>1, <3>4, LinksReceived
    <3> QED BY <1>1, <3>2, <3>3, <3>4
  <2> QED BY <1>1, <2>1 DEF LineTypes, AllLinks, LineSet, Values
<1>9. LinkTypes'
  BY <1>1, <1>2, <1>3 DEF LinkTypes, Dealt
<1> QED BY <1>6, <1>7, <1>8, <1>9 DEF Holds

(* The steps of the other formats change the buffers, not tbuf.            *)
Puts(n) == \E rank, i, last : \E s \in Values : PutSite(n, rank, i, s, last)
SaveTurn(n) ==
  /\ UNCHANGED <<faults, eager, lay, save, at, tbuf, lat, file, list, verdict>>
  /\ at[n] = "turn" /\ pos' = [pos EXCEPT ![n] = @ + 1]
  /\ UNCHANGED <<lbuf, blen, where, out, stopped>> \/ Puts(n)

LEMMA SaveTurnHolds ==
  ASSUME IInv, Holds, NEW n \in Nodes, SaveTurn(n),
         save = "parallel" => \A s, d \in Nodes : AllLinks(chan'[s][d], Values)
  PROVE  Holds'
<1>1. /\ UNCHANGED <<faults, eager, save, tbuf, lat, file, list, verdict>> /\ lay' = lay
      /\ Nodes' = Nodes /\ (Saving' <=> Saving) /\ at[n] = "turn"
      /\ \A m \in Nodes : at'[m] = at[m] /\ (m /= n => pos'[m] = pos[m])
      /\ UNCHANGED <<lbuf, blen, where, out, stopped>> \/ Puts(n)
  BY SameNodeNumber DEF SaveTurn, Saving, IInv, Types
<1>2. /\ lbuf' \in [Nodes -> [0 .. MaxBufLength - 1 -> Values]]
      /\ blen' \in [Nodes -> 0 .. MaxBufLength] /\ where' \in [Nodes -> Nat]
      /\ blen'[n] < MaxBufLength
      /\ \A m \in Nodes : m /= n => blen'[m] = blen[m]
      /\ DOMAIN out' = Nodes /\ \A m \in Nodes : Listed(out'[m]) /\ AllSound(out'[m])
      /\ stopped' \subseteq Nodes
  <2>1. blen[n] < MaxBufLength
    BY <1>1 DEF Holds, Filling
  <2>2. CASE UNCHANGED <<lbuf, blen, where, out, stopped>>
    BY <2>1, <2>2 DEF Holds, BufferTypes, FileTypes, MachineTypes
  <2>3. CASE Puts(n)
    <3>1. PICK rank, i, last : \E s \in Values : PutSite(n, rank, i, s, last)
      BY <2>3 DEF Puts
    <3>2. PICK s \in Values : PutSite(n, rank, i, s, last)
      BY <3>1
    <3> QED BY <2>1, <3>2, PutSiteHolds
  <2> QED BY <1>1, <2>2, <2>3
<1>3. MachineTypes' /\ BufferTypes'
  BY <1>1, <1>2 DEF Holds, MachineTypes, BufferTypes, Content
<1>4. FileTypes'
  <2>1. list' \in [Sites -> Sites] /\ FileType(file')
    BY <1>1 DEF Holds, FileTypes, FileType
  <2> QED BY <1>1, <1>2, <2>1, NewFileTypes
<1>5. Filling'
  <2> SUFFICES ASSUME NEW m \in Nodes
               PROVE  /\ at[m] \in {"list", "turn"} => blen'[m] < MaxBufLength
                      /\ at[m] \in {"sweep", "signal"} => blen'[m] <= MaxBufLength - Nx
                      /\ at[m] = "sweep" /\ pos'[m] > 0 => Len(tbuf[m]) <= ((pos'[m] - 1) % Nx) + 1
                      /\ at[m] = "signal" => Len(tbuf[m]) <= pos'[m] % Nx
                      /\ Len(tbuf[m]) <= Nx
    BY <1>1 DEF Filling
  <2>1. CASE m = n
    BY <1>1, <1>2, <2>1 DEF Holds, Filling
  <2>2. CASE m /= n
    BY <1>1, <1>2, <2>2 DEF Holds, Filling
  <2> QED BY <2>1, <2>2
<1>6. save /= "serial" /\ \A m \in Nodes : at[m] \notin Dealt
  BY <1>1 DEF IInv, StageInv, Barriers, BeforeSum, Dealt
<1>7. LineTypes'
  BY <1>1, <1>6 DEF LineTypes
<1>8. LinkTypes'
  BY <1>1, <1>6 DEF LinkTypes, AllLinks, Values
<1> QED BY <1>3, <1>4, <1>5, <1>7, <1>8 DEF Holds

LEMMA CheckpointSiteHolds ==
  ASSUME IInv, Holds, NEW n \in Nodes, CheckpointSite(n) PROVE Holds'
<1>1. /\ UNCHANGED <<faults, eager, lay, save, at, tbuf, lat, chan, file, list, verdict>>
      /\ at[n] = "turn" /\ save = "checkpoint" /\ pos[n] < SitesOnNode
      /\ pos' = [pos EXCEPT ![n] = @ + 1]
      /\ PutSite(n, n * SitesOnNode + pos[n], blen[n], lay[n][pos[n] + 1],
                 pos[n] = SitesOnNode - 1)
  BY DEF CheckpointSite, machine
<1>3. lay[n][pos[n] + 1] \in Values
  <2>1. lay[n] \in Seq(Sites) /\ pos[n] + 1 \in 1 .. Len(lay[n])
    <3>1. lay \in Layouts /\ pos[n] \in Nat
      BY SizeAssumption DEF IInv, Types
    <3>2. lay[n] \in Seq(Sites)
      BY <3>1, LayoutAssumption DEF Nodes
    <3>3. Len(lay[n]) = SitesOnNode
      <4> DEFINE N == Cardinality(Nodes)
                 a == Len(lay[n])
                 b == SitesOnNode
      <4>1. N \in Nat \ {0} /\ b \in Nat /\ b * N = Volume
        BY <3>1, LayoutFacts
      <4>2. a \in Nat /\ a * N = Volume
        BY <3>1, <3>2, LayoutAssumption DEF Nodes
      <4> HIDE DEF N, a, b
      <4>3. a * N = b * N
        BY <4>1, <4>2
      <4>4. ~(a < b) /\ ~(b < a)
        BY <4>1, <4>2, <4>3, LessThanOnce
      <4>5. a = b
        BY <4>1, <4>2, <4>4
      <4> QED BY <4>5 DEF a, b
    <3> QED BY <1>1, <3>1, <3>2, <3>3
  <2> QED BY <2>1 DEF Values
<1>4. Puts(n)
  BY <1>1, <1>3 DEF Puts
<1>5. SaveTurn(n) /\ save /= "parallel"
  BY <1>1, <1>4 DEF SaveTurn
<1> QED BY <1>5, SaveTurnHolds

LEMMA ParallelTurnHolds ==
  ASSUME IInv, Holds, NEW n \in Nodes, ParallelTurn(n) PROVE Holds'
<1> DEFINE rank == RankAt(pos[n], MaxBufLength)
           dest == rank \div SitesOnNode
           src  == NodeNumber(rank)
           msg  == Head(chan[src][n])
<1>1. /\ UNCHANGED <<faults, eager, lay, save, at, tbuf, lat, file, list, verdict>>
      /\ at[n] = "turn" /\ save = "parallel" /\ pos[n] < Volume
      /\ pos' = [pos EXCEPT ![n] = @ + 1]
  BY DEF ParallelTurn, machine
<1>2. \/ /\ chan' = Sent(n, dest, Links(rank, rank))
         /\ UNCHANGED <<lbuf, blen, where, out, stopped>>
      \/ /\ chan' = chan
         /\ \E i, last : PutSite(n, rank, i, rank, last)
      \/ /\ Arrived(src, n) /\ chan' = Received(src, n)
         /\ \E r, i, last : PutSite(n, r, i, msg.links, last)
      \/ UNCHANGED <<lbuf, blen, where, chan, out, stopped>>
  BY DEF ParallelTurn
<1>3. rank \in Sites /\ rank \in Values /\ src \in Nodes /\ ChanType
  <2>1. lay \in Layouts /\ pos[n] \in 0 .. Volume - 1 /\ MaxBufLength \in Nat \ {0} /\ ChanType
    BY <1>1, SizeAssumption DEF IInv, Types
  <2>2. rank \in Sites
    BY <2>1, TurnPlace
  <2> QED BY <2>1, <2>2, NodeOfSite DEF Values
<1>4. \A s, d \in Nodes : AllLinks(chan[s][d], Values)
  <2>1. Saving
    BY <1>1 DEF IInv, Barriers, BeforeSum, Saving
  <2> QED BY <1>1, <2>1 DEF Holds, LinkTypes
<1>5. Arrived(src, n) => msg.links \in Values
  BY <1>3, <1>4, HeadLinks
<1> HIDE DEF rank, dest, src, msg
<1>6. UNCHANGED <<lbuf, blen, where, out, stopped>> \/ Puts(n)
  BY <1>2, <1>3, <1>5 DEF Puts
<1>7. ASSUME NEW s \in Nodes, NEW d \in Nodes PROVE AllLinks(chan'[s][d], Values)
  <2> DEFINE m == Links(rank, rank)
  <2>1. AllLinks(chan[s][d], Values) /\ m.links \in Values
    BY <1>3, <1>4 DEF Links
  <2> HIDE DEF m
  <2>2. CASE chan' = Sent(n, dest, m)
    BY <1>1, <1>3, <2>1, <2>2, LinksSent
  <2>3. CASE Arrived(src, n) /\ chan' = Received(src, n)
    BY <1>1, <1>3, <2>1, <2>3, LinksReceived
  <2>4. CASE chan' = chan
    BY <2>1, <2>4
  <2> QED BY <1>2, <2>2, <2>3, <2>4 DEF m
<1>8. SaveTurn(n)
  BY <1>1, <1>6 DEF SaveTurn
<1> QED BY <1>7, <1>8, SaveTurnHolds

(* What a node that restores the file reads.                               *)
LEMMA RefilledType ==
  ASSUME IInv, Holds, NEW n \in Nodes, NEW rank \in Nat, NEW left \in Nat
  PROVE  LET b == Refilled(n, rank, left)
         IN  /\ b.buf \in [0 .. MaxBufLength - 1 -> Values] /\ b.len \in 0 .. MaxBufLength
             /\ b.next + 1 \in Nat /\ b.buf[b.next] \in Values
<1> DEFINE b == Refilled(n, rank, left)
           len == IF left > MaxBufLength THEN MaxBufLength ELSE left
           read == [k \in 1 .. len |-> file.data[(rank + k - 1) % Volume]]
<1>1. /\ MaxBufLength \in Nat /\ 0 < MaxBufLength /\ Volume \in Nat \ {0}
      /\ lbuf[n] \in [0 .. MaxBufLength - 1 -> Values] /\ blen[n] \in 0 .. MaxBufLength
      /\ where[n] \in Nat /\ file.data \in [Sites -> Values]
  BY SizeAssumption DEF Holds, BufferTypes, FileTypes, Content, Values
<1>2. len \in 0 .. MaxBufLength /\ len \in Nat
  BY <1>1
<1>3. read \in Seq(Values)
  <2>1. ASSUME NEW k \in 1 .. len PROVE file.data[(rank + k - 1) % Volume] \in Values
    <3>1. rank + k - 1 \in Nat
      BY <1>2
    <3>2. (rank + k - 1) % Volume \in Sites
      BY <1>1, <3>1, DivRem DEF Sites
    <3> QED BY <1>1, <3>2
  <2> HIDE DEF len
  <2> QED BY <1>2, <2>1
<1>4. Loaded(lbuf[n], 0, read) \in [0 .. MaxBufLength - 1 -> Values]
  <2> HIDE DEF read
  <2> QED BY <1>1, <1>3, LoadedType
<1>5. CASE where[n] < blen[n]
  <2>1. b.buf = lbuf[n] /\ b.len = blen[n] /\ b.next = where[n]
    BY <1>5 DEF Refilled
  <2>2. where[n] \in 0 .. MaxBufLength - 1 /\ where[n] + 1 \in Nat
    BY <1>1, <1>5
  <2>3. lbuf[n][where[n]] \in Values
    BY <1>1, <2>2
  <2> HIDE DEF b
  <2> QED BY <1>1, <2>1, <2>2, <2>3 DEF b
<1>6. CASE ~(where[n] < blen[n])
  <2>1. b.buf = Loaded(lbuf[n], 0, read) /\ b.len = len /\ b.next = 0
    BY <1>6 DEF Refilled
  <2>2. 0 \in 0 .. MaxBufLength - 1 /\ 0 + 1 \in Nat
    BY <1>1
  <2> HIDE DEF b, len, read
  <2>3. Loaded(lbuf[n], 0, read)[0] \in Values
    BY <1>4, <2>2
  <2> QED BY <1>2, <1>4, <2>1, <2>2, <2>3 DEF b
<1> QED BY <1>5, <1>6

Reads(n, b) ==
  /\ lbuf' = [lbuf EXCEPT ![n] = b.buf] /\ blen' = [blen EXCEPT ![n] = b.len]
  /\ where' = [where EXCEPT ![n] = b.next + 1]
Keeps(n) == \E s : \E links \in Values : lat' = [lat EXCEPT ![n][s] = links]
DealTurn(n, b) ==
  /\ UNCHANGED <<faults, eager, lay, save, at, tbuf, out, file, list, verdict>>
  /\ at[n] = "deal" /\ (stopped' = stopped \/ stopped' = stopped \union {n})
  /\ \A m \in Nodes : pos'[m] = pos[m] \/ m = n
  /\ UNCHANGED <<lbuf, blen, where>> \/ Reads(n, b)
  /\ lat' = lat \/ Keeps(n)

LEMMA DealTurnHolds ==
  ASSUME IInv, Holds, NEW n \in Nodes, NEW b,
         b.buf \in [0 .. MaxBufLength - 1 -> Values], b.len \in 0 .. MaxBufLength,
         b.next + 1 \in Nat, DealTurn(n, b),
         \A s, d \in Nodes : AllLinks(chan'[s][d], Values)
  PROVE  Holds'
<1>1. /\ UNCHANGED <<faults, eager, save, at, tbuf, out, file, list, verdict>> /\ lay' = lay
      /\ Nodes' = Nodes /\ at[n] = "deal" /\ ~Saving'
      /\ \A m \in Nodes : pos'[m] = pos[m] \/ m = n
      /\ stopped' = stopped \/ stopped' = stopped \union {n}
      /\ UNCHANGED <<lbuf, blen, where>> \/ Reads(n, b)
      /\ lat' = lat \/ Keeps(n)
  BY SameNodeNumber DEF DealTurn, Saving, BeforeSum
<1>2. lat' \in [Nodes -> Content]
  <2>1. lat \in [Nodes -> Content]
    BY DEF Holds, BufferTypes
  <2>2. CASE Keeps(n)
    <3>1. PICK s : \E links \in Values : lat' = [lat EXCEPT ![n][s] = links]
      BY <2>2 DEF Keeps
    <3>2. PICK links \in Values : lat' = [lat EXCEPT ![n][s] = links]
      BY <3>1
    <3> QED BY <2>1, <3>2 DEF Content, Values
  <2> QED BY <1>1, <2>1, <2>2
<1>3. /\ lbuf' \in [Nodes -> [0 .. MaxBufLength - 1 -> Values]]
      /\ blen' \in [Nodes -> 0 .. MaxBufLength] /\ where' \in [Nodes -> Nat]
      /\ \A m \in Nodes : m /= n => blen'[m] = blen[m]
  BY <1>1 DEF Holds, BufferTypes, Reads
<1>4. MachineTypes' /\ BufferTypes'
  BY <1>1, <1>2, <1>3 DEF Holds, MachineTypes, BufferTypes, Content
<1>5. FileTypes'
  BY <1>1, KeptFile DEF Holds
<1>6. Filling'
  <2> SUFFICES ASSUME NEW m \in Nodes
               PROVE  /\ at[m] \in {"list", "turn"} => blen'[m] < MaxBufLength
                      /\ at[m] \in {"sweep", "signal"} => blen'[m] <= MaxBufLength - Nx
                      /\ at[m] = "sweep" /\ pos'[m] > 0 => Len(tbuf[m]) <= ((pos'[m] - 1) % Nx) + 1
                      /\ at[m] = "signal" => Len(tbuf[m]) <= pos'[m] % Nx
                      /\ Len(tbuf[m]) <= Nx
    BY <1>1 DEF Filling
  <2>1. CASE m = n
    BY <1>1, <2>1 DEF Holds, Filling
  <2>2. CASE m /= n
    BY <1>1, <1>3, <2>2 DEF Holds, Filling
  <2> QED BY <2>1, <2>2
<1>7. LineTypes'
  BY <1>1 DEF LineTypes
<1>8. LinkTypes'
  BY <1>1 DEF LinkTypes, AllLinks, Values
<1> QED BY <1>4, <1>5, <1>6, <1>7, <1>8 DEF Holds

LEMMA SerialDealHolds ==
  ASSUME IInv, Holds, NEW n \in Nodes, SerialDeal(n) PROVE Holds'
<1> DEFINE rank == pos[n]
           s    == list[rank]
           dest == NodeNumber(s)
           b    == Refilled(0, rank, Volume - rank)
           links == b.buf[b.next]
           msg  == Head(chan[0][n])
<1>1. /\ UNCHANGED <<faults, eager, lay, save, at, tbuf, out, file, list, verdict>>
      /\ at[n] = "deal" /\ rank < Volume
      /\ pos' = pos \/ pos' = [pos EXCEPT ![n] = @ + 1]
      /\ \/ /\ UNCHANGED <<lbuf, blen, where, lat, chan>>
            /\ stopped' = stopped \/ (n = 0 /\ stopped' = stopped \union {n})
         \/ /\ n = 0 /\ ReadSite(0, b) /\ stopped' = stopped
            /\ \/ Keep(0, s, links) /\ chan' = chan
               \/ chan' = Sent(0, dest, Links(None, links)) /\ lat' = lat
         \/ /\ Arrived(0, n) /\ Keep(n, s, msg.links) /\ chan' = Received(0, n)
            /\ UNCHANGED <<lbuf, blen, where, stopped>>
  BY DEF SerialDeal, ReadFails, Stop, machine
<1>2. 0 \in Nodes /\ rank \in Nat /\ Volume - rank \in Nat /\ ChanType
  <2>1. lay \in Layouts /\ pos[n] \in 0 .. Volume /\ Volume \in Nat /\ ChanType
    BY SizeAssumption DEF IInv, Types
  <2> QED BY <1>1, <2>1, LayoutFacts
<1>3. /\ b.buf \in [0 .. MaxBufLength - 1 -> Values] /\ b.len \in 0 .. MaxBufLength
      /\ b.next + 1 \in Nat /\ links \in Values
  <2> DEFINE left == Volume - rank
  <2>1. left \in Nat
    BY <1>2
  <2> HIDE DEF rank, left
  <2> QED BY <1>2, <2>1, RefilledType DEF left
<1>4. \A x, d \in Nodes : AllLinks(chan[x][d], Values)
  BY <1>1 DEF Holds, LinkTypes, Dealt
<1>5. Arrived(0, n) => msg.links \in Values
  BY <1>2, <1>4, HeadLinks
<1> HIDE DEF rank, s, dest, b, links, msg
<1>6. ASSUME NEW x \in Nodes, NEW d \in Nodes PROVE AllLinks(chan'[x][d], Values)
  <2> DEFINE m == Links(None, links)
  <2>1. AllLinks(chan[x][d], Values) /\ m.links \in Values
    BY <1>3, <1>4 DEF Links
  <2> HIDE DEF m
  <2>2. CASE chan' = Sent(0, dest, m)
    BY <1>1, <1>2, <2>1, <2>2, LinksSent
  <2>3. CASE Arrived(0, n) /\ chan' = Received(0, n)
    BY <1>1, <1>2, <2>1, <2>3, LinksReceived
  <2>4. CASE chan' = chan
    BY <2>1, <2>4
  <2> QED BY <1>1, <2>2, <2>3, <2>4 DEF m
<1>7. DealTurn(n, b)
  <2>1. \A m \in Nodes : pos'[m] = pos[m] \/ m = n
    BY <1>1 DEF IInv, Types
  <2>2. UNCHANGED <<lbuf, blen, where>> \/ Reads(n, b)
    BY <1>1 DEF Reads, ReadSite
  <2>3. lat' = lat \/ Keeps(n)
    BY <1>1, <1>3, <1>5 DEF Keeps, Keep
  <2> QED BY <1>1, <2>1, <2>2, <2>3 DEF DealTurn
<1> QED BY <1>3, <1>6, <1>7, DealTurnHolds

LEMMA ParallelDealHolds ==
  ASSUME IInv, Holds, NEW n \in Nodes, ParallelDeal(n) PROVE Holds'
<1> DEFINE rank == RankAt(pos[n], LoadBlock)
           src  == rank \div SitesOnNode
           s    == list[rank]
           dest == NodeNumber(s)
           left == SitesOnNode - (rank % SitesOnNode)
           b    == Refilled(n, rank, left)
           links == b.buf[b.next]
           msg  == Head(chan[src][n])
<1>1. /\ UNCHANGED <<faults, eager, lay, save, at, tbuf, out, file, list, verdict>>
      /\ at[n] = "deal" /\ pos[n] < Volume
      /\ pos' = pos \/ pos' = [pos EXCEPT ![n] = @ + 1]
      /\ stopped' = stopped \/ stopped' = stopped \union {n}
      /\ \/ UNCHANGED <<lbuf, blen, where, lat, chan>>
         \/ /\ ReadSite(n, b)
            /\ \/ Keep(n, s, links) /\ chan' = chan
               \/ chan' = Sent(n, dest, Links(s, links)) /\ lat' = lat
         \/ /\ Arrived(src, n) /\ chan' = Received(src, n)
            /\ Keep(n, msg.coord, msg.links) \/ lat' = lat
            /\ UNCHANGED <<lbuf, blen, where>>
  BY DEF ParallelDeal, ReadFails, Stop, machine
<1>2. /\ lay \in Layouts /\ pos[n] \in 0 .. Volume - 1 /\ LoadBlock \in Nat \ {0} /\ ChanType
      /\ Volume \in Nat \ {0}
  BY <1>1, SizeAssumption DEF IInv, Types
<1>3. rank \in Sites /\ src \in Nodes
  BY <1>2, TurnPlace
<1>4. rank \in Nat /\ left \in Nat
  <2> DEFINE S == SitesOnNode
  <2>1. S \in Nat /\ S * Cardinality(Nodes) = Volume /\ Cardinality(Nodes) \in Nat
    BY <1>2, LayoutFacts
  <2>2. rank \in Nat
    BY <1>2, <1>3 DEF Sites
  <2> HIDE DEF S, rank
  <2>3. S /= 0
    BY <1>2, <2>1
  <2>4. rank % S \in Nat /\ rank % S < S
    BY <2>1, <2>2, <2>3, DivRem
  <2>5. S - (rank % S) \in Nat
    BY <2>1, <2>4
  <2> QED BY <2>2, <2>5 DEF S
<1>5. /\ b.buf \in [0 .. MaxBufLength - 1 -> Values] /\ b.len \in 0 .. MaxBufLength
      /\ b.next + 1 \in Nat /\ links \in Values
  <2> HIDE DEF rank, left
  <2> QED BY <1>4, RefilledType
<1>6. \A x, d \in Nodes : AllLinks(chan[x][d], Values)
  BY <1>1 DEF Holds, LinkTypes, Dealt
<1> HIDE DEF rank, src, s, dest, left, b, links
<1>7. Arrived(src, n) => msg.links \in Values
  BY <1>2, <1>3, <1>6, HeadLinks
<1> HIDE DEF msg
<1>8. ASSUME NEW x \in Nodes, NEW d \in Nodes PROVE AllLinks(chan'[x][d], Values)
  <2> DEFINE m == Links(s, links)
  <2>1. AllLinks(chan[x][d], Values) /\ m.links \in Values
    BY <1>5, <1>6 DEF Links
  <2> HIDE DEF m
  <2>2. CASE chan' = Sent(n, dest, m)
    BY <1>1, <1>2, <2>1, <2>2, LinksSent
  <2>3. CASE Arrived(src, n) /\ chan' = Received(src, n)
    BY <1>1, <1>2, <2>1, <2>3, LinksReceived
  <2>4. CASE chan' = chan
    BY <2>1, <2>4
  <2> QED BY <1>1, <2>2, <2>3, <2>4 DEF m
<1>9. DealTurn(n, b)
  <2>1. \A m \in Nodes : pos'[m] = pos[m] \/ m = n
    BY <1>1 DEF IInv, Types
  <2>2. UNCHANGED <<lbuf, blen, where>> \/ Reads(n, b)
    BY <1>1 DEF Reads, ReadSite
  <2>3. lat' = lat \/ Keeps(n)
    BY <1>1, <1>5, <1>7 DEF Keeps, Keep
  <2> QED BY <1>1, <2>1, <2>2, <2>3 DEF DealTurn
<1> QED BY <1>5, <1>8, <1>9, DealTurnHolds

LEMMA NextHolds == IInv /\ Holds /\ [Next]_vars => Holds'
<1> SUFFICES ASSUME IInv, Holds, [Next]_vars PROVE Holds'
  OBVIOUS
<1>1. CASE UNCHANGED vars
  <2>1. /\ UNCHANGED <<machine, lay, save, nodevars>> /\ Nodes' = Nodes
        /\ UNCHANGED <<at, stopped, verdict, file, out, list>>
    BY <1>1, SameNodeNumber DEF vars
  <2>2. FileTypes' /\ (Saving' => Saving)
    BY <2>1, KeptFile DEF Holds, Saving
  <2>3. stopped' \subseteq Nodes /\ verdict' \in {"none", "OK", "violation"}
    BY <2>1 DEF Holds, MachineTypes
  <2> QED BY <2>1, <2>2, <2>3, KeptHolds
<1>2. ASSUME NEW n \in Nodes, SaveStep(n) PROVE Holds'
  BY <1>2, SweepLineHolds, SignalNewNodeHolds, ParallelTurnHolds, WriteListHolds,
     CheckpointSiteHolds, EndTurnsHolds, WriteChecksumHolds, CloseFileHolds DEF SaveStep
<1>3. ASSUME NEW n \in Nodes, LoadStep(n) PROVE Holds'
  BY <1>3, OpenFileHolds, BeginDealHolds, SerialDealHolds, ParallelDealHolds,
     EndDealHolds, ReadChecksumHolds DEF LoadStep
<1>4. ASSUME NEW n \in Nodes, WriteBack(n) PROVE Holds'
  BY <1>4, WriteBackHolds
<1>5. ASSUME NEW l \in Layouts, NewJob(l) PROVE Holds'
  BY <1>5, NewJobHolds
<1> QED BY <1>1, <1>2, <1>3, <1>4, <1>5 DEF Next

-----------------------------------------------------------------------------
(* Where the sites go.                                                     *)

(* What is saved at rank r; the ranks node n writes, from From(n) up to    *)
(* Until(n); and how far it has put them in its buffer or written them.    *)
Due(r) == IF save = "checkpoint" THEN file.order[r] ELSE r
From(n) == IF save = "serial" THEN 0 ELSE n * SitesOnNode
Until(n) == IF save /= "serial" THEN n * SitesOnNode + SitesOnNode
            ELSE IF n = 0 THEN Volume ELSE 0
Put(n) == where[n] + blen[n]

(* A write of node n has the right sites; it covers rank r; rank r is in   *)
(* the file, or stdio will write it.                                       *)
Right(n, w) ==
  /\ w.part \in {"data", "sum"}
  /\ w.part = "data" => /\ w.from \in Nat
                        /\ \A k \in DOMAIN w.what :
                             LET r == w.from + k - 1
                             IN  r \in From(n) .. Until(n) - 1 /\ w.what[k] = Due(r)
Covers(w, r) == w.part = "data" /\ r - w.from + 1 \in DOMAIN w.what
Delivered(n, r) == file.data[r] = Due(r) \/ \E i \in DOMAIN out[n] : Covers(out[n][i], r)

(* What node n has written is right, and so is what its buffer holds; and  *)
(* nothing is left out.                                                    *)
Writing == {"sweep", "signal", "turn", "sum", "close"}
WritesRight(n) == \A i \in DOMAIN out[n] : Right(n, out[n][i])
SavedNode(n) ==
  /\ WritesRight(n)
  /\ at[n] \notin Writing => out[n] = <<>>
  /\ \A r \in From(n) .. Until(n) - 1 :
       (at[n] \in BeforeSum => r < where[n]) => Delivered(n, r)
  /\ at[n] \in BeforeSum =>
       /\ From(n) <= where[n] /\ Put(n) <= Until(n)
       /\ \A i \in 0 .. blen[n] - 1 : lbuf[n][i] = Due(where[n] + i)
SavedInv == \A n \in Nodes : SavedNode(n)

(* w_checkpoint: the lists of sites that are written are right.            *)
OrderInv ==
  save = "checkpoint" =>
    /\ \A n \in Nodes : at[n] \in {"turn", "sum"} =>
         \A i \in 1 .. SitesOnNode : file.order[n * SitesOnNode + i - 1] = lay[n][i]
    /\ (\A n \in Nodes : at[n] /= "list") => \A s \in Sites : \E r \in Sites : file.order[r] = s

(* w_checkpoint and w_parallel: the turns made are those of the ranks that *)
(* have been put.                                                          *)
IsRank(n, p) == RankAt(p, MaxBufLength) \div SitesOnNode = n
TurnNode(n) ==
  /\ at[n] = "list" => where[n] = From(n) /\ blen[n] = 0
  /\ at[n] = "turn" /\ Put(n) = Until(n) => blen[n] = 0
  /\ save = "checkpoint" /\ at[n] \in {"list", "turn"} => Put(n) = From(n) + pos[n]
  /\ save = "parallel" /\ at[n] = "turn" =>
       /\ \A p \in 0 .. Volume - 1 :
            IsRank(n, p) => (p < pos[n] <=> RankAt(p, MaxBufLength) < Put(n))
       /\ Put(n) < Until(n) => (where[n] - From(n)) % MaxBufLength = 0
TurnInv == \A n \in Nodes : TurnNode(n)

(* w_serial: the lines in tbuf and on the way to node 0.  A line begins at *)
(* i and no other does before j.                                           *)
Begun(i, j) == i \in Nat /\ Turn(i) /\ \A k \in i + 1 .. j - 1 : ~Turn(k)
IsLine(line, i) == \A k \in DOMAIN line : line[k] = i + k - 1
LineNode(n) ==
  at[n] \in BeforeSum =>
    LET i == pos[n] - Len(tbuf[n])
    IN  /\ n \in {0, CurrentNode(pos[n])} => Begun(i, Clock(n))
        /\ n = CurrentNode(pos[n]) => IsLine(tbuf[n], i)
SweptLine(line, p) ==
  line /= <<>> /\ Begun(p - Len(line), p) /\ IsLine(line, p - Len(line))
SweptInv ==
  \A n \in Nodes \ {0} : \A p \in Between(Clock(0), Clock(n), Lines(n)) :
    SweptLine(chan[n][0][Place(Clock(0), p, Lines(n))].links, p)
LinesInv ==
  save = "serial" /\ Saving =>
    /\ at[0] \in BeforeSum => Put(0) + Len(tbuf[0]) = pos[0]
    /\ \A n \in Nodes : LineNode(n)
    /\ SweptInv

DataInv == ~faults => SavedInv /\ OrderInv /\ TurnInv /\ LinesInv

LEMMA LayoutRanks ==
  ASSUME NEW l \in Layouts, NEW n \in DOMAIN l
  PROVE  LET S == Len(l[0])
         IN  S \in Nat \ {0} /\ n * S \in Nat /\ n * S + S <= Volume
<1> DEFINE S == Len(l[0])
           N == Cardinality(DOMAIN l)
<1>1. /\ S \in Nat /\ N \in Nat \ {0} /\ S * N = Volume /\ n \in 0 .. N - 1
      /\ Volume \in Nat \ {0}
  BY NodesAre, SizeAssumption
<1>2. S /= 0
  BY <1>1
<1> HIDE DEF S, N
<1>3. n < N /\ n \in Nat /\ S \in Nat \ {0}
  BY <1>1, <1>2
<1>4. n * S + S <= N * S
  BY <1>1, <1>3, LessThanOnce
<1> QED BY <1>1, <1>3, <1>4 DEF S

LEMMA RankLimits ==
  ASSUME lay \in Layouts, NEW n \in Nodes
  PROVE  /\ SitesOnNode \in Nat \ {0} /\ From(n) \in Nat /\ Until(n) \in Nat
         /\ \A r \in From(n) .. Until(n) - 1 : r \in Sites
<1> DEFINE S == SitesOnNode
<1>1. Volume \in Nat \ {0}
  BY SizeAssumption
<1>2. S \in Nat \ {0} /\ n * S + S <= Volume /\ n * S \in Nat
  BY LayoutRanks DEF SitesOnNode, Nodes
<1> HIDE DEF S
<1>3. n * S + S <= Volume /\ n * S \in Nat /\ S \in Nat \ {0}
  BY <1>2
<1>4. /\ From(n) = IF save = "serial" THEN 0 ELSE n * S
      /\ Until(n) = IF save /= "serial" THEN n * S + S ELSE IF n = 0 THEN Volume ELSE 0
  BY DEF From, Until, S
<1> DEFINE x == n * S
<1>5. x \in Nat /\ x + S <= Volume
  BY <1>3
<1> HIDE DEF x
<1>6. /\ From(n) = IF save = "serial" THEN 0 ELSE x
      /\ Until(n) = IF save /= "serial" THEN x + S ELSE IF n = 0 THEN Volume ELSE 0
  BY <1>4 DEF x
<1>7. From(n) \in Nat /\ Until(n) \in Nat /\ Until(n) <= Volume
  BY <1>1, <1>2, <1>5, <1>6
<1> QED BY <1>1, <1>2, <1>7 DEF Sites, S

LEMMA EveryRank ==
  ASSUME lay \in Layouts, NEW r \in Sites
  PROVE  \E n \in Nodes : r \in From(n) .. Until(n) - 1
<1> DEFINE S == SitesOnNode
           N == Cardinality(Nodes)
           a == r \div S
<1>1. /\ S \in Nat /\ N \in Nat \ {0} /\ S * N = Volume /\ Nodes = 0 .. N - 1 /\ 0 \in Nodes
      /\ r \in Nat /\ r < Volume
  BY LayoutFacts, SizeAssumption DEF Sites
<1>2. CASE save = "serial"
  BY <1>1, <1>2 DEF From, Until
<1>3. CASE save /= "serial"
  <2>1. S /= 0
    BY <1>1
  <2> HIDE DEF S, N
  <2>2. a \in Nat /\ r % S \in Nat /\ r % S < S /\ r = a * S + (r % S)
    BY <1>1, <2>1, DivRem
  <2> HIDE DEF a
  <2>3. a < N
    <3> SUFFICES ASSUME N <= a PROVE FALSE
      BY <1>1, <2>2
    <3>1. N * S <= a * S
      <4>1. CASE N = a
        BY <2>2, <4>1, <1>1
      <4>2. CASE N < a
        BY <1>1, <2>1, <2>2, <4>2, LessThanOnce
      <4> QED BY <1>1, <2>2, <4>1, <4>2
    <3>2. N * S = Volume /\ a * S \in Nat
      BY <1>1, <2>2
    <3> QED BY <1>1, <2>2, <3>1, <3>2
  <2>4. a \in Nodes
    BY <1>1, <2>2, <2>3
  <2>5. From(a) = a * S /\ Until(a) = a * S + S
    BY <1>3 DEF From, Until, S
  <2>6. a * S \in Nat
    BY <1>1, <2>2
  <2> DEFINE x == a * S
  <2> HIDE DEF x
  <2>7. x \in Nat /\ r = x + (r % S) /\ From(a) = x /\ Until(a) = x + S
    BY <2>2, <2>5, <2>6 DEF x
  <2>8. r \in From(a) .. Until(a) - 1
    BY <1>1, <2>2, <2>7
  <2> QED BY <2>4, <2>8
<1> QED BY <1>2, <1>3

LEMMA OneWriter ==
  ASSUME lay \in Layouts, NEW n \in Nodes, NEW m \in Nodes,
         NEW r \in From(n) .. Until(n) - 1, r \in From(m) .. Until(m) - 1
  PROVE  n = m
<1> DEFINE S == SitesOnNode
<1>1. S \in Nat \ {0} /\ n \in Nat /\ m \in Nat
  BY RankLimits, LayoutFacts
<1>2. CASE save = "serial"
  <2>1. \A k \in Nodes : k /= 0 => From(k) = 0 /\ Until(k) = 0
    BY <1>2 DEF From, Until
  <2>2. \A x : ~(x \in 0 .. 0 - 1)
    OBVIOUS
  <2> QED BY <2>1, <2>2
<1>3. CASE save /= "serial"
  <2> HIDE DEF S
  <2>1. /\ From(n) = n * S /\ Until(n) = n * S + S
        /\ From(m) = m * S /\ Until(m) = m * S + S
    BY <1>3 DEF From, Until, S
  <2> DEFINE x == n * S
             y == m * S
  <2>2. x \in Nat /\ y \in Nat
    BY <1>1
  <2>3. (n < m => x + S <= y) /\ (m < n => y + S <= x)
    BY <1>1, LessThanOnce
  <2> HIDE DEF x, y
  <2>4. x <= r /\ r < x + S /\ y <= r /\ r < y + S /\ r \in Int
    BY <1>1, <2>1, <2>2 DEF x, y
  <2>5. ~(n < m) /\ ~(m < n)
    BY <1>1, <2>2, <2>3, <2>4
  <2> QED BY <1>1, <2>5
<1> QED BY <1>2, <1>3

LEMMA SameRanks ==
  ASSUME lay' = lay, save' = save
  PROVE  \A n : From(n)' = From(n) /\ Until(n)' = Until(n)
BY SameNodeNumber DEF From, Until

LEMMA DataIsSaved == IInv /\ DataInv => DataSaved
<1> SUFFICES ASSUME IInv, DataInv, ~faults, AllAt("closed")
             PROVE  /\ \A r \in Sites : file.data[r] = Due(r)
                    /\ \A s \in Sites : \E r \in Sites : file.data[r] = s
  BY DEF DataSaved, Due
<1>1. \A n \in Nodes : at[n] \in {"closed", "load", "deal", "check", "over"}
  <2> SUFFICES ASSUME NEW n \in Nodes PROVE at[n] \in {"closed", "load", "deal", "check", "over"}
    OBVIOUS
  <2>1. at[n] \in StageSet /\ Rank(at[n]) >= 7
    BY StageRanks DEF AllAt, IInv, Types
  <2> QED BY <2>1, StageRanks DEF StageSet, BeforeSum, Idle, Dealt
<1>2. \A r \in Sites : file.data[r] = Due(r)
  <2> SUFFICES ASSUME NEW r \in Sites PROVE file.data[r] = Due(r)
    OBVIOUS
  <2>1. PICK n \in Nodes : r \in From(n) .. Until(n) - 1
    BY EveryRank DEF IInv, Types
  <2>2. SavedNode(n) /\ at[n] \notin Writing /\ at[n] \notin BeforeSum
    BY <1>1 DEF DataInv, SavedInv, Writing, BeforeSum
  <2>3. out[n] = <<>> /\ Delivered(n, r)
    BY <2>1, <2>2 DEF SavedNode
  <2> QED BY <2>3 DEF Delivered
<1>3. \A s \in Sites : \E r \in Sites : file.data[r] = s
  <2>1. CASE save = "checkpoint"
    <3>1. \A s \in Sites : \E r \in Sites : file.order[r] = s
      BY <1>1, <2>1 DEF DataInv, OrderInv
    <3> QED BY <1>2, <2>1, <3>1 DEF Due
  <2>2. CASE save /= "checkpoint"
    BY <1>2, <2>2 DEF Due
  <2> QED BY <2>1, <2>2
<1> QED BY <1>2, <1>3

(* Nothing changes at this node, but perhaps its stage.                    *)
LEMMA KeptNode ==
  ASSUME lay' = lay, save' = save, NEW m \in Nodes, out'[m] = out[m], SavedNode(m),
         \/ at'[m] = at[m]
         \/ /\ at[m] \in BeforeSum /\ at'[m] \in Writing
            /\ at'[m] \in BeforeSum \/ Until(m) <= where[m],
         at[m] \in BeforeSum => where'[m] = where[m] /\ blen'[m] = blen[m] /\ lbuf'[m] = lbuf[m],
         blen[m] \in Nat, where[m] \in Nat, lay \in Layouts,
         \A r \in From(m) .. Until(m) - 1 :
           Due(r)' = Due(r) /\ (file.data[r] = Due(r) => file'.data[r] = Due(r))
  PROVE  SavedNode(m)'
<1>1. From(m)' = From(m) /\ Until(m)' = Until(m) /\ From(m) \in Nat /\ Until(m) \in Nat
  BY SameRanks, RankLimits
<1>2. WritesRight(m)'
  <2> SUFFICES ASSUME NEW i \in DOMAIN out[m] PROVE Right(m, out[m][i])'
    BY DEF WritesRight
  <2> DEFINE w == out[m][i]
  <2>1. Right(m, w) /\ out'[m][i] = w
    BY DEF SavedNode, WritesRight
  <2>2. ASSUME w.part = "data", NEW k \in DOMAIN w.what
        PROVE  LET r == w.from + k - 1
               IN  r \in From(m) .. Until(m) - 1 /\ w.what[k] = Due(r)'
    BY <2>1, <2>2 DEF Right
  <2>3. w.part \in {"data", "sum"} /\ (w.part = "data" => w.from \in Nat)
    BY <2>1 DEF Right
  <2> HIDE DEF w
  <2> QED BY <1>1, <2>1, <2>2, <2>3 DEF Right
<1>3. ASSUME NEW r \in From(m) .. Until(m) - 1, Delivered(m, r) PROVE Delivered(m, r)'
  BY <1>3 DEF Delivered, Covers
<1>4. \A r \in From(m) .. Until(m) - 1 : (at'[m] \in BeforeSum => r < where'[m]) => Delivered(m, r)'
  <2> SUFFICES ASSUME NEW r \in From(m) .. Until(m) - 1, at'[m] \in BeforeSum => r < where'[m]
               PROVE  Delivered(m, r)'
    OBVIOUS
  <2>1. at[m] \in BeforeSum => r < where[m]
    BY <1>1
  <2> QED BY <1>3, <2>1 DEF SavedNode
<1>5. ASSUME at[m] \in BeforeSum, NEW i \in 0 .. blen[m] - 1
      PROVE  lbuf[m][i] = IF save = "checkpoint" THEN file'.order[where[m] + i] ELSE where[m] + i
  <2> DEFINE r == where[m] + i
  <2>1. lbuf[m][i] = Due(r) /\ From(m) <= where[m] /\ where[m] + blen[m] <= Until(m)
    BY <1>5 DEF SavedNode, Put
  <2>2. r \in From(m) .. Until(m) - 1
    BY <1>1, <2>1
  <2>3. \A q \in From(m) .. Until(m) - 1 :
          Due(q) = IF save = "checkpoint" THEN file'.order[q] ELSE q
    BY DEF Due
  <2> QED BY <2>1, <2>2, <2>3
<1>6. /\ at'[m] \in BeforeSum => From(m) <= where'[m] /\ Put(m)' <= Until(m)
      /\ at'[m] \notin Writing => out'[m] = <<>>
  BY DEF SavedNode, Put
<1>7. at'[m] \in BeforeSum => \A i \in 0 .. blen'[m] - 1 : lbuf'[m][i] = Due(where[m] + i)'
  BY <1>5 DEF Due
<1> QED BY <1>1, <1>2, <1>4, <1>6, <1>7 DEF SavedNode

LEMMA AppendKeeps ==
  ASSUME NEW q, Listed(q), NEW e
  PROVE  /\ \A i \in DOMAIN q : i \in DOMAIN Append(q, e) /\ Append(q, e)[i] = q[i]
         /\ \E i \in DOMAIN Append(q, e) : Append(q, e)[i] = e
<1> DEFINE T == {q[k] : k \in DOMAIN q} \union {e}
<1>1. q \in Seq({q[k] : k \in DOMAIN q})
  BY DEF Listed
<1>2. q \in Seq(T) /\ e \in T
  BY <1>1
<1> HIDE DEF T
<1>3. /\ DOMAIN q = 1 .. Len(q) /\ Len(q) \in Nat
      /\ DOMAIN Append(q, e) = 1 .. Len(q) + 1
      /\ \A i \in 1 .. Len(q) : Append(q, e)[i] = q[i]
      /\ Append(q, e)[Len(q) + 1] = e
  BY <1>2, AppendProperties
<1>4. Len(q) + 1 \in DOMAIN Append(q, e) /\ \A i \in DOMAIN q : i \in DOMAIN Append(q, e)
  BY <1>3
<1> QED BY <1>3, <1>4

(* Sites that are due are put in the buffer of node n, which is written    *)
(* or not.                                                                 *)
AreDue(n, sites) == \A k \in 1 .. Len(sites) : sites[k] = Due(Put(n) + k - 1)
Adds(n, sites) ==
  LET len == blen[n] + Len(sites)
      buf == Loaded(lbuf[n], blen[n], sites)
  IN  \/ /\ out'[n] = Append(out[n], Write("data", where[n], FirstOf(buf, len)))
         /\ where'[n] = where[n] + len /\ blen'[n] = 0
      \/ /\ out'[n] = out[n] /\ where'[n] = where[n]
         /\ blen'[n] = len /\ lbuf'[n] = buf

LEMMA LoadedDue ==
  ASSUME NEW n \in Nodes, BufferTypes, SavedNode(n), at[n] \in BeforeSum,
         NEW sites \in Seq(Values), AreDue(n, sites), blen[n] + Len(sites) <= MaxBufLength
  PROVE  \A i \in 0 .. blen[n] + Len(sites) - 1 :
           Loaded(lbuf[n], blen[n], sites)[i] = Due(where[n] + i)
<1> DEFINE b == blen[n]
           v == where[n]
           L == Len(sites)
<1>1. /\ b \in Nat /\ v \in Nat /\ L \in Nat /\ DOMAIN sites = 1 .. L
      /\ DOMAIN lbuf[n] = 0 .. MaxBufLength - 1 /\ MaxBufLength \in Nat
  BY SizeAssumption DEF BufferTypes
<1>2. /\ \A i \in 0 .. b - 1 : lbuf[n][i] = Due(v + i)
      /\ \A k \in 1 .. L : sites[k] = Due((v + b) + k - 1)
  BY DEF SavedNode, AreDue, Put
<1> SUFFICES ASSUME NEW i \in 0 .. b + L - 1
             PROVE  Loaded(lbuf[n], b, sites)[i] = Due(v + i)
  OBVIOUS
<1> HIDE DEF b, v, L
<1>3. i \in 0 .. MaxBufLength - 1
  BY <1>1 DEF b, L
<1>4. Loaded(lbuf[n], b, sites)[i] = IF i - b + 1 \in DOMAIN sites THEN sites[i - b + 1] ELSE lbuf[n][i]
  BY <1>1, <1>3 DEF Loaded
<1>5. CASE i < b
  <2>1. i - b + 1 \notin 1 .. L /\ i \in 0 .. b - 1
    BY <1>1, <1>5
  <2> QED BY <1>1, <1>2, <1>4, <2>1
<1>6. CASE b <= i
  <2> DEFINE k == i - b + 1
  <2>1. k \in 1 .. L /\ (v + b) + k - 1 = v + i
    BY <1>1, <1>6
  <2> HIDE DEF k
  <2>2. sites[k] = Due((v + b) + k - 1)
    BY <1>2, <2>1
  <2>3. Loaded(lbuf[n], b, sites)[i] = sites[k]
    BY <1>1, <1>4, <2>1 DEF k
  <2> QED BY <2>1, <2>2, <2>3
<1> QED BY <1>1, <1>5, <1>6

LEMMA AddsRight ==
  ASSUME lay \in Layouts, UNCHANGED <<lay, save, file>>, NEW n \in Nodes, SavedNode(n),
         BufferTypes, Listed(out[n]), at[n] \in BeforeSum,
         at'[n] \in Writing, at'[n] \notin BeforeSum => where'[n] = Until(n),
         NEW sites \in Seq(Values), AreDue(n, sites), Put(n) + Len(sites) <= Until(n),
         blen[n] + Len(sites) <= MaxBufLength, Adds(n, sites)
  PROVE  SavedNode(n)' /\ Put(n)' = Put(n) + Len(sites)
<1> DEFINE b   == blen[n]
           v   == where[n]
           L   == Len(sites)
           buf == Loaded(lbuf[n], b, sites)
           w   == Write("data", v, FirstOf(buf, b + L))
<1>1. /\ b \in Nat /\ v \in Nat /\ L \in Nat /\ v + b + L <= Until(n) /\ From(n) <= v
      /\ From(n) \in Nat /\ Until(n) \in Nat
      /\ From(n)' = From(n) /\ Until(n)' = Until(n) /\ lay' = lay
  BY RankLimits, SameRanks DEF BufferTypes, SavedNode, Put
<1>2. \A i \in 0 .. b + L - 1 : buf[i] = Due(v + i)
  BY LoadedDue
<1>3. \A r : Due(r)' = Due(r)
  BY DEF Due
<1>4. \/ out'[n] = Append(out[n], w) /\ where'[n] = v + (b + L) /\ blen'[n] = 0
      \/ /\ out'[n] = out[n] /\ where'[n] = v
         /\ blen'[n] = b + L /\ lbuf'[n] = buf
  BY DEF Adds
<1> HIDE DEF buf, b, v, L
<1>5. Right(n, w) /\ \A r \in From(n) .. Until(n) - 1 : v <= r /\ r < v + (b + L) => Covers(w, r)
  <2>1. w.part = "data" /\ w.from = v /\ w.what = [k \in 1 .. b + L |-> buf[k - 1]]
    BY DEF Write, FirstOf
  <2> HIDE DEF w
  <2>2. ASSUME NEW k \in 1 .. b + L
        PROVE  v + k - 1 \in From(n) .. Until(n) - 1 /\ buf[k - 1] = Due(v + k - 1)
    <3>1. k - 1 \in 0 .. b + L - 1 /\ v + (k - 1) = v + k - 1
      BY <1>1
    <3>2. buf[k - 1] = Due(v + (k - 1))
      BY <1>2, <3>1
    <3>3. v + k - 1 \in From(n) .. Until(n) - 1
      BY <1>1
    <3> QED BY <3>1, <3>2, <3>3
  <2>3. ASSUME NEW r \in From(n) .. Until(n) - 1, v <= r, r < v + (b + L)
        PROVE  r - v + 1 \in 1 .. b + L
    BY <1>1, <2>3
  <2> QED BY <1>1, <2>1, <2>2, <2>3 DEF Right, Covers
<1> HIDE DEF w
<1>6. WritesRight(n)'
  <2> SUFFICES ASSUME NEW i \in DOMAIN out'[n] PROVE Right(n, out[n][i])'
    BY DEF WritesRight
  <2>1. \A e : Right(n, e) => /\ e.part \in {"data", "sum"}
                              /\ e.part = "data" => e.from \in Nat
                              /\ e.part = "data" => \A k \in DOMAIN e.what :
                                   LET r == e.from + k - 1
                                   IN  r \in From(n) .. Until(n) - 1 /\ e.what[k] = Due(r)'
    BY <1>3 DEF Right
  <2>2. (i \in DOMAIN out[n] /\ out'[n][i] = out[n][i]) \/ out'[n][i] = w
    BY <1>4, AppendElements
  <2>3. Right(n, out'[n][i])
    BY <1>5, <2>2 DEF SavedNode, WritesRight
  <2> QED BY <1>1, <2>1, <2>3 DEF Right
<1>7. ASSUME NEW r \in From(n) .. Until(n) - 1, r < where'[n] PROVE Delivered(n, r)'
  <2>1. Due(r)' = Due(r) /\ file' = file
    BY <1>3
  <2>2. ASSUME r < v PROVE \/ file.data[r] = Due(r)
                           \/ \E i \in DOMAIN out'[n] : Covers(out'[n][i], r)
    <3>1. Delivered(n, r)
      BY <2>2 DEF SavedNode, v
    <3>2. CASE file.data[r] = Due(r)
      BY <3>2
    <3>3. ASSUME NEW i \in DOMAIN out[n], Covers(out[n][i], r)
          PROVE  \E k \in DOMAIN out'[n] : Covers(out'[n][k], r)
      <4>1. i \in DOMAIN out'[n] /\ out'[n][i] = out[n][i]
        BY <1>4, AppendKeeps
      <4> QED BY <3>3, <4>1
    <3> QED BY <3>1, <3>2, <3>3 DEF Delivered
  <2>3. ASSUME v <= r PROVE \E i \in DOMAIN out'[n] : Covers(out'[n][i], r)
    <3>1. out'[n] = Append(out[n], w) /\ r < v + (b + L)
      BY <1>1, <1>4, <1>7, <2>3
    <3>2. \E i \in DOMAIN out'[n] : out'[n][i] = w
      BY <3>1, AppendKeeps
    <3> QED BY <1>5, <2>3, <3>1, <3>2
  <2>4. r < v \/ v <= r
    BY <1>1
  <2> QED BY <2>1, <2>2, <2>3, <2>4 DEF Delivered, Covers
<1>8. /\ at'[n] \in BeforeSum => From(n) <= where'[n] /\ Put(n)' <= Until(n)
      /\ Put(n)' = Put(n) + L
  <2>1. Put(n) = v + b /\ Put(n)' = where'[n] + blen'[n]
    BY DEF Put, b, v
  <2>2. CASE where'[n] = v + (b + L) /\ blen'[n] = 0
    BY <1>1, <2>1, <2>2
  <2>3. CASE where'[n] = v /\ blen'[n] = b + L
    BY <1>1, <2>1, <2>3
  <2> QED BY <1>4, <2>2, <2>3
<1>9. \A i \in 0 .. blen'[n] - 1 : lbuf'[n][i] = Due(where'[n] + i)
  BY <1>1, <1>2, <1>4
<1>10. \A i \in 0 .. blen'[n] - 1 : lbuf'[n][i] = Due(where[n] + i)'
  BY <1>9 DEF Due
<1>11. \A r \in From(n) .. Until(n) - 1 : (at'[n] \in BeforeSum => r < where'[n]) => Delivered(n, r)'
  <2> SUFFICES ASSUME NEW r \in From(n) .. Until(n) - 1, at'[n] \in BeforeSum => r < where'[n]
               PROVE  Delivered(n, r)'
    OBVIOUS
  <2>1. r < where'[n]
    BY <1>1
  <2> QED BY <1>7, <2>1
<1> QED BY <1>1, <1>6, <1>8, <1>10, <1>11 DEF SavedNode, L

(* The parts of the invariant in the steps that leave them alone.          *)
LEMMA KeptOrder ==
  ASSUME lay' = lay, save' = save, file'.order = file.order, OrderInv,
         \A m \in Nodes : at'[m] \in {"turn", "sum"} => at[m] \in {"turn", "sum"},
         \A m \in Nodes : at[m] = "list" => at'[m] = "list"
  PROVE  OrderInv'
<1>1. Nodes' = Nodes /\ SitesOnNode' = SitesOnNode
  BY SameNodeNumber
<1> QED BY <1>1 DEF OrderInv

LEMMA KeptTurn ==
  ASSUME lay' = lay, save' = save, NEW m \in Nodes, TurnNode(m),
         \/ at'[m] \notin {"list", "turn"}
         \/ at'[m] = at[m] /\ pos'[m] = pos[m] /\ where'[m] = where[m] /\ blen'[m] = blen[m]
  PROVE  TurnNode(m)'
<1>1. /\ From(m)' = From(m) /\ Until(m)' = Until(m) /\ SitesOnNode' = SitesOnNode
      /\ \A p : RankAt(p, MaxBufLength)' = RankAt(p, MaxBufLength)
  BY SameRanks, SameNodeNumber, SameTurns
<1>2. CASE at'[m] \notin {"list", "turn"}
  BY <1>2 DEF TurnNode
<1>3. CASE at'[m] = at[m] /\ pos'[m] = pos[m] /\ where'[m] = where[m] /\ blen'[m] = blen[m]
  <2>1. Put(m)' = Put(m) /\ \A p : IsRank(m, p)' = IsRank(m, p)
    BY <1>1, <1>3 DEF Put, IsRank
  <2> QED BY <1>1, <1>3, <2>1 DEF TurnNode
<1> QED BY <1>2, <1>3

LEMMA KeptLines ==
  ASSUME save' = save, LinesInv,
         \/ save /= "serial" \/ ~Saving'
         \/ lay' = lay /\ UNCHANGED <<at, pos, tbuf, chan, where, blen>>
  PROVE  LinesInv'
<1>1. CASE lay' = lay /\ UNCHANGED <<at, pos, tbuf, chan, where, blen>>
  <2>1. /\ Nodes' = Nodes /\ Saving' = Saving /\ Put(0)' = Put(0)
        /\ \A n : Lines(n)' = Lines(n) /\ CurrentNode(pos[n])' = CurrentNode(pos[n])
                  /\ Clock(n)' = Clock(n)
        /\ \A j : Turn(j)' = Turn(j)
    BY <1>1, SameNodeNumber, SameTurns DEF Saving, Put, Clock, CurrentNode, NodeNumber
  <2>2. \A i, j : Begun(i, j)' = Begun(i, j)
    BY <2>1 DEF Begun
  <2>3. ASSUME NEW n \in Nodes, LineNode(n) PROVE LineNode(n)'
    BY <1>1, <2>1, <2>2, <2>3 DEF LineNode, IsLine, Begun
  <2>4. \A line, p : SweptLine(line, p)' = SweptLine(line, p)
    BY <2>2 DEF SweptLine, IsLine, Begun
  <2>5. SweptInv => SweptInv'
    BY <1>1, <2>1, <2>4 DEF SweptInv, Between, Place
  <2> QED BY <1>1, <2>1, <2>3, <2>5 DEF LinesInv
<1> QED BY <1>1 DEF LinesInv

LEMMA TailCovers ==
  ASSUME NEW q, Listed(q), q /= <<>>, NEW r, NEW i \in DOMAIN q, Covers(q[i], r)
  PROVE  Covers(Head(q), r) \/ \E k \in DOMAIN Tail(q) : Covers(Tail(q)[k], r)
<1> DEFINE T == {q[k] : k \in DOMAIN q}
<1>1. q \in Seq(T)
  BY DEF Listed
<1> HIDE DEF T
<1>2. /\ DOMAIN q = 1 .. Len(q) /\ Len(q) \in Nat \ {0} /\ Head(q) = q[1]
      /\ DOMAIN Tail(q) = 1 .. Len(q) - 1
      /\ \A k \in 1 .. Len(q) - 1 : Tail(q)[k] = q[k + 1]
  BY <1>1
<1>3. CASE i = 1
  BY <1>2, <1>3
<1>4. CASE i /= 1
  <2> DEFINE k == i - 1
  <2>1. k \in 1 .. Len(q) - 1 /\ k + 1 = i
    BY <1>2, <1>4
  <2> HIDE DEF k
  <2>2. Tail(q)[k] = q[i] /\ k \in DOMAIN Tail(q)
    BY <1>2, <2>1
  <2> QED BY <2>2
<1> QED BY <1>3, <1>4

LEMMA WriteBackData ==
  ASSUME IInv, Holds, DataInv, NEW n \in Nodes, WriteBack(n) PROVE DataInv'
<1> DEFINE w == Head(out[n])
<1>1. /\ UNCHANGED <<faults, lay, save, at, pos, tbuf, lbuf, blen, where, chan>>
      /\ out[n] /= <<>> /\ out' = [out EXCEPT ![n] = Tail(@)]
      /\ faults \/ file' = InFile(file, w)
  BY DEF WriteBack, machine, nodevars
<1> SUFFICES ASSUME ~faults PROVE SavedInv' /\ OrderInv' /\ TurnInv' /\ LinesInv'
  BY <1>1 DEF DataInv
<1>2. /\ SavedInv /\ OrderInv /\ TurnInv /\ LinesInv /\ lay \in Layouts /\ Nodes' = Nodes
      /\ FileTypes /\ BufferTypes
  BY <1>1, SameNodeNumber DEF DataInv, IInv, Types, Holds
<1>3. /\ Listed(out[n]) /\ Sound(w) /\ Right(n, w) /\ SavedNode(n)
      /\ DOMAIN out = Nodes /\ out'[n] = Tail(out[n])
      /\ \A m \in Nodes : m /= n => out'[m] = out[m]
  <2>1. SavedNode(n) /\ Listed(out[n]) /\ AllSound(out[n]) /\ DOMAIN out = Nodes
    BY <1>2 DEF SavedInv, FileTypes
  <2>2. 1 \in DOMAIN out[n] /\ w = out[n][1]
    BY <1>1, <2>1, TailElements
  <2> HIDE DEF w
  <2>3. Sound(w) /\ Right(n, w)
    BY <2>1, <2>2 DEF AllSound, SavedNode, WritesRight
  <2> QED BY <1>1, <2>1, <2>3
<1> HIDE DEF w
<1>4. /\ file'.order = file.order
      /\ \A r \in Sites : file'.data[r] = IF Covers(w, r) THEN w.what[r - w.from + 1] ELSE file.data[r]
  <2>1. DOMAIN file = {"data", "order", "sum"} /\ DOMAIN file.data = Sites
    BY <1>2 DEF FileTypes, Content
  <2>2. CASE w.part = "sum"
    BY <1>1, <2>1, <2>2 DEF InFile, Covers
  <2>3. CASE w.part = "data"
    <3>1. file'.order = file.order /\ file'.data = Loaded(file.data, w.from, w.what)
      BY <1>1, <2>1, <2>3 DEF InFile
    <3> QED BY <2>1, <2>3, <3>1 DEF Loaded, Covers
  <2> QED BY <1>3, <2>2, <2>3 DEF Right
<1>5. \A r : Due(r)' = Due(r)
  BY <1>1, <1>4 DEF Due
<1>6. ASSUME NEW r \in Sites, Covers(w, r) PROVE file'.data[r] = Due(r)
  <2> DEFINE k == r - w.from + 1
  <2>1. k \in DOMAIN w.what /\ w.part = "data" /\ w.from \in Nat /\ r \in Int
    BY <1>3, <1>6, SizeAssumption DEF Covers, Right, Sites
  <2>2. w.from + k - 1 = r
    BY <2>1
  <2> HIDE DEF k
  <2>3. w.what[k] = Due(r)
    BY <1>3, <2>1, <2>2 DEF Right
  <2> QED BY <1>4, <1>6, <2>3 DEF k
<1>7. \A r \in Sites : file.data[r] = Due(r) => file'.data[r] = Due(r)
  BY <1>4, <1>6
<1>8. SavedInv'
  <2> SUFFICES ASSUME NEW m \in Nodes PROVE SavedNode(m)'
    BY <1>2 DEF SavedInv
  <2>1. /\ SavedNode(m) /\ blen[m] \in Nat /\ where[m] \in Nat
        /\ \A r \in From(m) .. Until(m) - 1 : r \in Sites
        /\ From(m)' = From(m) /\ Until(m)' = Until(m)
    BY <1>1, <1>2, RankLimits, SameRanks DEF SavedInv, BufferTypes
  <2>2. CASE m /= n
    <3>1. at'[m] = at[m] /\ where'[m] = where[m] /\ blen'[m] = blen[m] /\ lbuf'[m] = lbuf[m]
          /\ out'[m] = out[m] /\ lay' = lay /\ save' = save
      BY <1>1, <1>3, <2>2
    <3>2. \A r \in From(m) .. Until(m) - 1 :
            Due(r)' = Due(r) /\ (file.data[r] = Due(r) => file'.data[r] = Due(r))
      BY <1>5, <1>7, <2>1
    <3> QED BY <1>2, <2>1, <3>1, <3>2, KeptNode
  <2>3. CASE m = n
    <3>1. WritesRight(n)'
      <4> SUFFICES ASSUME NEW i \in DOMAIN out'[n] PROVE Right(n, out[n][i])'
        BY DEF WritesRight
      <4>1. i + 1 \in DOMAIN out[n] /\ out'[n][i] = out[n][i + 1]
        BY <1>1, <1>3, TailElements
      <4>2. Right(n, out'[n][i])
        BY <1>3, <4>1 DEF SavedNode, WritesRight
      <4>3. \A k : Due(k) = IF save = "checkpoint" THEN file'.order[k] ELSE k
        BY <1>4 DEF Due
      <4> QED BY <1>1, <2>1, <2>3, <4>2, <4>3 DEF Right, Due
    <3>2. ASSUME NEW r \in From(n) .. Until(n) - 1, Delivered(n, r) PROVE Delivered(n, r)'
      <4>1. r \in Sites /\ Due(r)' = Due(r)
        BY <1>5, <2>1, <2>3
      <4>2. CASE file.data[r] = Due(r)
        BY <1>7, <4>1, <4>2 DEF Delivered
      <4>3. ASSUME NEW i \in DOMAIN out[n], Covers(out[n][i], r) PROVE Delivered(n, r)'
        <5>1. Covers(w, r) \/ \E k \in DOMAIN out'[n] : Covers(out'[n][k], r)
          BY <1>1, <1>3, <4>3, TailCovers DEF w
        <5> QED BY <1>6, <4>1, <5>1 DEF Delivered, Covers
      <4> QED BY <3>2, <4>2, <4>3 DEF Delivered
    <3>3. /\ at[n] \in Writing
          /\ at'[n] = at[n] /\ where'[n] = where[n] /\ blen'[n] = blen[n] /\ lbuf'[n] = lbuf[n]
      BY <1>1, <1>3 DEF SavedNode
    <3>4. \A r \in From(n) .. Until(n) - 1 : (at'[n] \in BeforeSum => r < where'[n]) => Delivered(n, r)'
      BY <1>3, <3>2, <3>3 DEF SavedNode
    <3>5. at'[n] \in BeforeSum =>
            /\ From(n) <= where'[n] /\ Put(n)' <= Until(n)
            /\ \A i \in 0 .. blen'[n] - 1 : lbuf'[n][i] = Due(where[n] + i)'
      BY <1>1, <1>3, <1>4, <3>3 DEF SavedNode, Put, Due
    <3> QED BY <2>1, <2>3, <3>1, <3>3, <3>4, <3>5 DEF SavedNode
  <2> QED BY <2>2, <2>3
<1>9. OrderInv'
  BY <1>1, <1>2, <1>4, KeptOrder
<1>10. TurnInv'
  <2>1. \A m \in Nodes : TurnNode(m)'
    BY <1>1, <1>2, KeptTurn DEF TurnInv
  <2> QED BY <1>2, <2>1 DEF TurnInv
<1>11. LinesInv'
  BY <1>1, <1>2, KeptLines
<1> QED BY <1>8, <1>9, <1>10, <1>11

(* Node n has saved its part, and closes the file or restores one.         *)
LateStep(n) ==
  /\ UNCHANGED <<faults, lay, save, file>>
  /\ at[n] \notin BeforeSum /\ at'[n] \notin BeforeSum \union {"sum"}
  /\ \A m \in Nodes : m /= n => /\ at'[m] = at[m] /\ out'[m] = out[m] /\ pos'[m] = pos[m]
                                /\ where'[m] = where[m] /\ blen'[m] = blen[m] /\ lbuf'[m] = lbuf[m]
  /\ \/ out'[n] = out[n] /\ (at'[n] \notin Writing => out[n] = <<>>)
     \/ out[n] = <<>> /\ at'[n] = "close" /\ \E x : out'[n] = <<Write("sum", 0, x)>>

LEMMA LateStepData ==
  ASSUME IInv, Holds, DataInv, NEW n \in Nodes, ~faults => LateStep(n), faults' = faults
  PROVE  DataInv'
<1> SUFFICES ASSUME ~faults PROVE SavedInv' /\ OrderInv' /\ TurnInv' /\ LinesInv'
  BY DEF DataInv
<1>1. LateStep(n)
  OBVIOUS
<1>2. /\ SavedInv /\ OrderInv /\ TurnInv /\ LinesInv /\ lay \in Layouts /\ Nodes' = Nodes
      /\ BufferTypes /\ lay' = lay /\ save' = save /\ file' = file
  BY <1>1, SameNodeNumber DEF DataInv, IInv, Types, Holds, LateStep
<1>3. \A r : Due(r)' = Due(r)
  BY <1>2 DEF Due
<1>4. SavedInv'
  <2> SUFFICES ASSUME NEW m \in Nodes PROVE SavedNode(m)'
    BY <1>2 DEF SavedInv
  <2>1. /\ SavedNode(m) /\ blen[m] \in Nat /\ where[m] \in Nat
        /\ From(m)' = From(m) /\ Until(m)' = Until(m)
    BY <1>2, SameRanks DEF SavedInv, BufferTypes
  <2>2. CASE m /= n
    <3>1. /\ at'[m] = at[m] /\ where'[m] = where[m] /\ blen'[m] = blen[m] /\ lbuf'[m] = lbuf[m]
          /\ out'[m] = out[m]
      BY <1>1, <2>2 DEF LateStep
    <3> QED BY <1>2, <1>3, <2>1, <3>1, KeptNode
  <2>3. CASE m = n
    <3>1. /\ at[n] \notin BeforeSum /\ at'[n] \notin BeforeSum
          /\ at'[n] \notin Writing => out'[n] = <<>>
      BY <1>1 DEF LateStep, Writing
    <3>2. CASE out'[n] = out[n]
      <4>1. WritesRight(n)' /\ \A r \in From(n) .. Until(n) - 1 : Delivered(n, r)'
        BY <1>2, <1>3, <2>1, <2>3, <3>1, <3>2 DEF SavedNode, WritesRight, Right, Delivered, Covers, Due
      <4> QED BY <2>1, <2>3, <3>1, <4>1 DEF SavedNode
    <3>3. ASSUME out[n] = <<>>, NEW x, out'[n] = <<Write("sum", 0, x)>> PROVE SavedNode(n)'
      <4>1. DOMAIN out'[n] = {1} /\ out'[n][1].part = "sum"
        BY <3>3 DEF Write
      <4>2. WritesRight(n)'
        BY <4>1 DEF WritesRight, Right
      <4>3. ASSUME NEW r \in From(n) .. Until(n) - 1 PROVE Delivered(n, r)'
        <5>1. Delivered(n, r) /\ DOMAIN out[n] = {}
          BY <2>1, <2>3, <3>1, <3>3, <4>3 DEF SavedNode
        <5> QED BY <1>2, <1>3, <5>1 DEF Delivered
      <4> QED BY <2>1, <2>3, <3>1, <4>2, <4>3 DEF SavedNode
    <3> QED BY <1>1, <2>3, <3>2, <3>3 DEF LateStep
  <2> QED BY <2>2, <2>3
<1>5. OrderInv'
  <2>1. \A m \in Nodes : /\ at'[m] \in {"turn", "sum"} => at[m] \in {"turn", "sum"}
                         /\ at[m] = "list" => at'[m] = "list"
    BY <1>1 DEF LateStep, BeforeSum
  <2> QED BY <1>2, <2>1, KeptOrder
<1>6. TurnInv'
  <2> SUFFICES ASSUME NEW m \in Nodes PROVE TurnNode(m)'
    BY <1>2 DEF TurnInv
  <2>1. TurnNode(m)
    BY <1>2 DEF TurnInv
  <2>2. \/ at'[m] \notin {"list", "turn"}
        \/ at'[m] = at[m] /\ pos'[m] = pos[m] /\ where'[m] = where[m] /\ blen'[m] = blen[m]
    BY <1>1 DEF LateStep, BeforeSum
  <2> QED BY <1>2, <2>1, <2>2, KeptTurn
<1>7. LinesInv'
  <2>1. ~Saving'
    BY <1>1, <1>2 DEF LateStep, Saving
  <2> QED BY <1>2, <2>1, KeptLines
<1> QED BY <1>4, <1>5, <1>6, <1>7

(* The steps of a node that has saved its part of the file.                *)
LEMMA LateData ==
  ASSUME IInv, Holds, DataInv, NEW n \in Nodes,
         WriteChecksum(n) \/ CloseFile(n) \/ LoadStep(n)
  PROVE  DataInv'
<1>1. /\ faults' = faults /\ lay' = lay /\ save' = save /\ file' = file
      /\ DOMAIN at = Nodes /\ DOMAIN out = Nodes /\ DOMAIN pos = Nodes /\ DOMAIN where = Nodes
      /\ DOMAIN blen = Nodes /\ DOMAIN lbuf = Nodes
  <2>1. UNCHANGED <<faults, lay, save, file>>
    BY DEF WriteChecksum, CloseFile, LoadStep, OpenFile, BeginDeal, SerialDeal, ParallelDeal,
           EndDeal, ReadChecksum, machine
  <2> QED BY <2>1 DEF IInv, Types, Holds, BufferTypes, FileTypes
<1> SUFFICES ASSUME ~faults PROVE LateStep(n)
  BY <1>1, LateStepData
<1>2. SavedNode(n)
  BY DEF DataInv, SavedInv
<1>3. CASE WriteChecksum(n)
  <2>1. /\ UNCHANGED <<pos, where, blen, lbuf>> /\ at[n] = "sum"
        /\ at' = [at EXCEPT ![n] = "close"]
        /\ \/ out' = out
           \/ n = 0 /\ out[0] = <<>> /\ \E x : out' = [out EXCEPT ![0] = <<Write("sum", 0, x)>>]
    BY <1>3 DEF WriteChecksum, nodevars
  <2> QED BY <1>1, <2>1 DEF LateStep, BeforeSum, Writing
<1>4. CASE CloseFile(n)
  <2>1. /\ UNCHANGED <<pos, where, blen, lbuf, out>> /\ at[n] = "close" /\ out[n] = <<>>
        /\ at' = [at EXCEPT ![n] = "closed"]
    BY <1>4 DEF CloseFile, nodevars
  <2> QED BY <1>1, <2>1 DEF LateStep, BeforeSum, Writing
<1>5. CASE LoadStep(n)
  <2>1. /\ out' = out /\ at[n] \in {"closed", "load", "deal", "check"}
        /\ at' = at \/ \E x \in {"load", "deal", "check", "over"} : at' = [at EXCEPT ![n] = x]
        /\ \A m \in Nodes : m /= n => at'[m] = at[m]
    BY <1>1, <1>5 DEF LoadStep, OpenFile, BeginDeal, SerialDeal, ParallelDeal, EndDeal, ReadChecksum
  <2>2. \A m \in Nodes : m /= n => pos'[m] = pos[m] /\ where'[m] = where[m]
                                   /\ blen'[m] = blen[m] /\ lbuf'[m] = lbuf[m]
    <3>1. CASE OpenFile(n) \/ BeginDeal(n) \/ EndDeal(n) \/ ReadChecksum(n)
      BY <1>1, <3>1 DEF OpenFile, BeginDeal, EndDeal, ReadChecksum, nodevars
    <3>2. CASE SerialDeal(n)
      BY <1>1, <3>2 DEF SerialDeal, ReadSite, ReadFails
    <3>3. CASE ParallelDeal(n)
      BY <1>1, <3>3 DEF ParallelDeal, ReadSite, ReadFails
    <3> QED BY <1>5, <3>1, <3>2, <3>3 DEF LoadStep
  <2>3. out[n] = <<>> /\ at'[n] \in {"closed", "load", "deal", "check", "over"}
    BY <1>1, <1>2, <2>1 DEF SavedNode, Writing
  <2> QED BY <1>1, <2>1, <2>2, <2>3 DEF LateStep, BeforeSum
<1> QED BY <1>3, <1>4, <1>5

LEMMA InitData == Init => DataInv
<1> SUFFICES ASSUME Init PROVE SavedInv /\ OrderInv /\ TurnInv /\ LinesInv
  BY DEF DataInv
<1>1. /\ lay \in Layouts /\ Nodes = DOMAIN lay /\ 0 \in Nodes
      /\ \A n \in Nodes : /\ pos[n] = 0 /\ tbuf[n] = <<>> /\ blen[n] = 0 /\ out[n] = <<>>
                          /\ where[n] = From(n)
                          /\ at[n] = CASE save = "serial"     -> "sweep"
                                       [] save = "parallel"   -> "turn"
                                       [] save = "checkpoint" -> "list"
      /\ \A s, d \in Nodes : chan[s][d] = <<>>
      /\ save \in {"serial", "parallel", "checkpoint"}
  <2>1. lay \in Layouts /\ save \in {"serial", "parallel", "checkpoint"}
    BY FormatAssumption DEF Init
  <2>2. 0 \in Nodes
    BY <2>1, LayoutFacts
  <2> QED BY <2>1, <2>2 DEF Init, Nodes, From
<1>2. \A n \in Nodes : /\ From(n) \in Nat /\ Until(n) \in Nat /\ From(n) <= Until(n)
                       /\ Put(n) = From(n) /\ SitesOnNode \in Nat \ {0}
  <2> SUFFICES ASSUME NEW n \in Nodes
               PROVE  /\ From(n) \in Nat /\ Until(n) \in Nat /\ From(n) <= Until(n)
                      /\ Put(n) = From(n) /\ SitesOnNode \in Nat \ {0}
    OBVIOUS
  <2>1. From(n) \in Nat /\ Until(n) \in Nat /\ SitesOnNode \in Nat \ {0}
    BY <1>1, RankLimits
  <2>2. From(n) <= Until(n)
    BY <2>1, SizeAssumption DEF From, Until
  <2> QED BY <1>1, <2>1, <2>2 DEF Put
<1>3. SavedInv
  <2> SUFFICES ASSUME NEW n \in Nodes PROVE SavedNode(n)
    BY DEF SavedInv
  <2>1. at[n] \in BeforeSum /\ WritesRight(n)
    BY <1>1 DEF BeforeSum, WritesRight
  <2>2. \A r \in From(n) .. Until(n) - 1 : ~(r < where[n])
    BY <1>1, <1>2
  <2>3. \A i : ~(i \in 0 .. blen[n] - 1)
    BY <1>1
  <2> QED BY <1>1, <1>2, <2>1, <2>2, <2>3 DEF SavedNode
<1>4. OrderInv
  BY <1>1 DEF OrderInv
<1>5. TurnInv
  <2> SUFFICES ASSUME NEW n \in Nodes PROVE TurnNode(n)
    BY DEF TurnInv
  <2>1. save = "checkpoint" => Put(n) = From(n) + pos[n]
    BY <1>1, <1>2
  <2>2. ASSUME save = "parallel", NEW p \in 0 .. Volume - 1, IsRank(n, p)
        PROVE  ~(p < pos[n]) /\ ~(RankAt(p, MaxBufLength) < Put(n))
    <3> DEFINE r == RankAt(p, MaxBufLength)
               S == SitesOnNode
    <3>1. r \in Nat /\ S \in Nat \ {0} /\ p \in Nat
      BY <1>1, <1>2, TurnPlace, SizeAssumption DEF Sites
    <3> HIDE DEF r, S
    <3>2. r = (r \div S) * S + (r % S) /\ r % S \in Nat
      BY <3>1, DivRem
    <3>3. r \div S = n /\ From(n) = n * S
      BY <2>2 DEF IsRank, From, r, S
    <3> QED BY <1>1, <1>2, <3>1, <3>2, <3>3 DEF r
  <2>3. (where[n] - From(n)) % MaxBufLength = 0
    <3>1. MaxBufLength \in Nat \ {0} /\ where[n] - From(n) = 0
      BY <1>1, <1>2, SizeAssumption
    <3> QED BY <3>1
  <2> QED BY <1>1, <2>1, <2>2, <2>3 DEF TurnNode
<1>6. LinesInv
  <2> SUFFICES ASSUME save = "serial" PROVE LinesInv
    BY DEF LinesInv
  <2>1. Len(<<>>) = 0
    BY EmptyListed
  <2>2. Put(0) + Len(tbuf[0]) = pos[0]
    BY <1>1, <1>2, <2>1 DEF From
  <2>3. Turn(0)
    <3>1. 0 % Nx = 0
      BY SizeAssumption
    <3> QED BY <3>1 DEF Turn
  <2>4. ASSUME NEW n \in Nodes PROVE LineNode(n)
    <3>1. at[n] = "sweep" /\ Clock(n) = 0 /\ pos[n] - Len(tbuf[n]) = 0
      BY <1>1, <2>1 DEF Clock
    <3>2. Begun(0, 0) /\ IsLine(tbuf[n], 0)
      BY <1>1, <2>3 DEF Begun, IsLine
    <3> QED BY <3>1, <3>2 DEF LineNode
  <2>5. \A n \in Nodes : Between(Clock(0), Clock(n), Lines(n)) = {}
    <3>1. \A n \in Nodes : Clock(n) = 0 /\ Lines(n) \in SUBSET Int
      BY <1>1, TurnsAreNumbers DEF Clock
    <3> QED BY <1>1, <3>1, NothingYet
  <2> QED BY <2>2, <2>4, <2>5 DEF LinesInv, SweptInv
<1> QED BY <1>3, <1>4, <1>5, <1>6

LEMMA NewJobData ==
  ASSUME IInv, DataInv, NEW l \in Layouts, NewJob(l) PROVE DataInv'
<1>1. /\ faults' = faults /\ save' = save /\ file' = file /\ lay' = l
      /\ faults \/ \A n \in Nodes : at[n] = "closed"
      /\ at' = [n \in DOMAIN l |-> "closed"] /\ out' = [n \in DOMAIN l |-> <<>>]
  BY DEF NewJob, machine
<1> SUFFICES ASSUME ~faults PROVE SavedInv' /\ OrderInv' /\ TurnInv' /\ LinesInv'
  BY <1>1 DEF DataInv
<1>2. /\ Nodes' = DOMAIN l /\ (\A n \in Nodes : at[n] = "closed") /\ lay' \in Layouts
      /\ 0 \in Nodes'
      /\ \A n \in Nodes' : at'[n] = "closed" /\ out'[n] = <<>>
  <2>1. 0 \in DOMAIN l
    BY NodesAre
  <2> QED BY <1>1, <2>1 DEF Nodes
<1>3. \A r \in Sites : file.data[r] = Due(r)
  <2>1. AllAt("closed")
    BY <1>2, StageRanks DEF AllAt
  <2>2. DataSaved
    BY DataIsSaved
  <2> QED BY <2>1, <2>2 DEF DataSaved, Due
<1>4. SavedInv'
  <2> SUFFICES ASSUME NEW n \in Nodes' PROVE SavedNode(n)'
    BY DEF SavedInv
  <2>1. at'[n] \notin BeforeSum /\ WritesRight(n)'
    BY <1>2 DEF BeforeSum, WritesRight
  <2>2. ASSUME NEW r \in (From(n) .. Until(n) - 1)' PROVE Delivered(n, r)'
    <3>1. r \in Sites
      <4> DEFINE S == Len(l[0])
                 x == n * S
      <4>1. x \in Nat /\ S \in Nat /\ x + S <= Volume /\ Volume \in Nat
        BY <1>2, LayoutRanks, SizeAssumption
      <4>2. /\ From(n)' = IF save = "serial" THEN 0 ELSE x
            /\ Until(n)' = IF save /= "serial" THEN x + S ELSE IF n = 0 THEN Volume ELSE 0
        BY <1>1 DEF From, Until, SitesOnNode
      <4> HIDE DEF x, S
      <4> QED BY <2>2, <4>1, <4>2 DEF Sites
    <3> QED BY <1>1, <1>3, <3>1 DEF Delivered, Due
  <2> QED BY <1>2, <2>1, <2>2 DEF SavedNode
<1>5. OrderInv'
  BY <1>1, <1>2 DEF OrderInv, DataInv
<1>6. TurnInv'
  BY <1>2 DEF TurnInv, TurnNode
<1>7. LinesInv'
  BY <1>2 DEF LinesInv, Saving, BeforeSum
<1> QED BY <1>4, <1>5, <1>6, <1>7

-----------------------------------------------------------------------------
(* The turns of the ranks of one node come in the order of the ranks, and  *)
(* there is one for each rank.                                             *)

LEMMA TurnParts ==
  ASSUME lay \in Layouts, NEW p \in 0 .. Volume - 1, NEW block \in Nat \ {0}
  PROVE  LET S   == SitesOnNode
             c   == block * Cardinality(Nodes)
             b   == BlockOf(p, block)
             len == BlockLen(b, block)
             a   == RankAt(p, block) \div S
         IN  /\ a \in Nat /\ b \in Nat /\ c \in Nat \ {0} /\ len \in 1 .. block /\ S \in Nat
             /\ \E r \in 0 .. len - 1 :
                  /\ p = b * c + (a * len + r) /\ a * len + r \in Nat /\ a * len + r < c
                  /\ RankAt(p, block) = a * S + (b * block + r)
<1> DEFINE S   == SitesOnNode
           c   == block * Cardinality(Nodes)
           b   == BlockOf(p, block)
           len == BlockLen(b, block)
           a   == RankAt(p, block) \div S
           q   == p % c
           r   == q % len
<1>1. /\ c \in Nat \ {0} /\ b \in Nat /\ len \in 1 .. block
      /\ q \in Nat /\ p = b * c + q /\ a = q \div len /\ S \in Nat
  <2>1. /\ c \in Nat \ {0} /\ b \in Nat /\ len \in 1 .. block
        /\ q \in Nat /\ p = b * c + q /\ a = q \div len
    BY TurnPlace, Zenon
  <2>2. S \in Nat
    BY LayoutFacts
  <2> QED BY <2>1, <2>2
<1>2. RankAt(p, block) = (q \div len) * S + b * block + (q % len)
  BY DEF RankAt, BlockLen, BlockOf
<1>3. q < c
  <2>1. p \in Nat /\ c \in Nat \ {0}
    BY <1>1, SizeAssumption
  <2> HIDE DEF c
  <2> QED BY <2>1, DivRem
<1> HIDE DEF q, c, b, len, a, S
<1>4. a \in Nat /\ r \in Nat /\ r < len /\ q = a * len + r
  BY <1>1, DivRem
<1> DEFINE x == a * S
           y == b * block
<1>5. x \in Nat /\ y \in Nat /\ RankAt(p, block) = x + y + r
  BY <1>1, <1>2, <1>4
<1> HIDE DEF r, x, y
<1>6. RankAt(p, block) = x + (y + r) /\ r \in 0 .. len - 1
  BY <1>1, <1>4, <1>5
<1> QED BY <1>1, <1>3, <1>4, <1>6 DEF S, c, b, len, a, x, y

LEMMA BlocksInOrder ==
  ASSUME NEW c \in Nat \ {0}, NEW b \in Nat, NEW d \in Nat, NEW x \in Nat, NEW y \in Nat,
         x < c, b * c + x < d * c + y, y < c
  PROVE  b < d \/ (b = d /\ x < y)
<1>1. b * c \in Nat /\ d * c \in Nat
  OBVIOUS
<1>2. CASE d < b
  <2>1. d * c + c <= b * c
    BY <1>2, LessThanOnce
  <2> QED BY <1>1, <2>1
<1>3. CASE b = d
  BY <1>1, <1>3
<1> QED BY <1>2, <1>3

LEMMA TurnsInOrder ==
  ASSUME lay \in Layouts, NEW block \in Nat \ {0},
         NEW p \in 0 .. Volume - 1, NEW q \in 0 .. Volume - 1, p < q,
         RankAt(p, block) \div SitesOnNode = RankAt(q, block) \div SitesOnNode
  PROVE  RankAt(p, block) < RankAt(q, block)
<1> DEFINE S == SitesOnNode
           c == block * Cardinality(Nodes)
           a == RankAt(p, block) \div S
           b == BlockOf(p, block)
           d == BlockOf(q, block)
           m == BlockLen(b, block)
           k == BlockLen(d, block)
<1>1. PICK r \in 0 .. m - 1 :
         /\ p = b * c + (a * m + r) /\ a * m + r \in Nat /\ a * m + r < c
         /\ RankAt(p, block) = a * S + (b * block + r)
  BY TurnParts
<1>2. PICK t \in 0 .. k - 1 :
         /\ q = d * c + (a * k + t) /\ a * k + t \in Nat /\ a * k + t < c
         /\ RankAt(q, block) = a * S + (d * block + t)
  BY TurnParts
<1>3. /\ a \in Nat /\ b \in Nat /\ d \in Nat /\ c \in Nat \ {0} /\ S \in Nat
      /\ m \in 1 .. block /\ k \in 1 .. block
  BY TurnParts
<1>4. b = d => m = k
  OBVIOUS
<1> HIDE DEF S, c, a, b, d, m, k
<1>5. b < d \/ (b = d /\ a * m + r < a * k + t)
  <2> DEFINE x == a * m + r
             y == a * k + t
  <2>1. x \in Nat /\ y \in Nat /\ x < c /\ y < c /\ b * c + x < d * c + y
    BY <1>1, <1>2
  <2> HIDE DEF x, y
  <2>2. b < d \/ (b = d /\ x < y)
    BY ONLY <1>3, <2>1, BlocksInOrder
  <2> QED BY <2>2 DEF x, y
<1> DEFINE z == a * S
           u == b * block
           v == d * block
<1>6. z \in Nat /\ u \in Nat /\ v \in Nat /\ (b < d => u + block <= v)
  BY <1>3, LessThanOnce
<1> HIDE DEF z, u, v
<1>7. RankAt(p, block) = z + (u + r) /\ RankAt(q, block) = z + (v + t)
  BY <1>1, <1>2 DEF z, u, v
<1>8. r \in Nat /\ r < m /\ m <= block /\ t \in Nat
  BY <1>1, <1>2, <1>3
<1>9. CASE b < d
  BY <1>3, <1>6, <1>7, <1>8, <1>9
<1>10. CASE b = d /\ a * m + r < a * k + t
  <2> DEFINE w == a * m
  <2>1. w \in Nat /\ w + r < w + t /\ u = v
    BY <1>3, <1>4, <1>8, <1>10 DEF u, v
  <2> HIDE DEF w
  <2> QED BY <1>6, <1>7, <1>8, <2>1
<1> QED BY <1>5, <1>9, <1>10

LEMMA EveryTurn ==
  ASSUME lay \in Layouts, NEW block \in Nat \ {0}, NEW s \in Sites
  PROVE  \E p \in 0 .. Volume - 1 : RankAt(p, block) = s
<1> DEFINE S == SitesOnNode
           N == Cardinality(Nodes)
           a == s \div S
           t == s % S
           b == t \div block
           r == t % block
           c == block * N
           y == b * block
           len == BlockLen(b, block)
           q == a * len + r
           p == b * c + q
<1>1. /\ S \in Nat /\ N \in Nat \ {0} /\ S * N = Volume /\ s \in Nat /\ s < Volume
      /\ Volume \in Nat
  BY LayoutFacts, SizeAssumption DEF Sites
<1>2. S \in Nat \ {0}
  BY <1>1
<1> HIDE DEF S, N
<1>3. a \in Nat /\ t \in Nat /\ t < S /\ s = a * S + t
  BY <1>1, <1>2, DivRem
<1>4. a < N
  <2> HIDE DEF a, t
  <2> SUFFICES ASSUME N <= a PROVE FALSE
    BY <1>1, <1>3
  <2>1. N * S <= a * S
    <3>1. CASE N = a
      BY <1>1, <1>3, <3>1
    <3>2. CASE N < a
      BY <1>1, <1>2, <1>3, <3>2, LessThanOnce
    <3> QED BY <1>1, <1>3, <3>1, <3>2
  <2>2. N * S = Volume /\ a * S \in Nat
    BY <1>1, <1>3
  <2> QED BY <1>1, <1>3, <2>1, <2>2
<1> HIDE DEF t
<1>5. b \in Nat /\ r \in Nat /\ r < block /\ t = y + r /\ y \in Nat
  <2>1. b \in Nat /\ r \in Nat /\ r < block /\ t = b * block + r
    BY <1>3, DivRem
  <2> HIDE DEF b, r
  <2> QED BY <2>1
<1> HIDE DEF a, b, r
<1>6. len = IF S - y < block THEN S - y ELSE block
  BY DEF BlockLen, S
<1> HIDE DEF y, len
<1>7. len \in Nat \ {0} /\ r < len /\ len <= block /\ y + len <= S
  BY <1>2, <1>3, <1>5, <1>6
<1>8. a * len + len <= N * len /\ a * len \in Nat /\ N * len \in Nat
  BY <1>1, <1>3, <1>4, <1>7, LessThanOnce
<1>9. q \in Nat /\ q < N * len
  <2> DEFINE u == a * len
             v == N * len
  <2> HIDE DEF u, v
  <2>1. u \in Nat /\ v \in Nat /\ u + len <= v
    BY <1>8 DEF u, v
  <2>2. u + r \in Nat /\ u + r < v
    BY <1>5, <1>7, <2>1
  <2> QED BY <2>2 DEF u, v
<1>10. c \in Nat \ {0} /\ N * len <= c
  <2>1. c \in Nat \ {0} /\ c = block * N /\ N * len = len * N
    BY <1>1, <1>7
  <2>2. CASE len = block
    BY <2>1, <2>2
  <2>3. CASE len < block
    <3>1. len * N + N <= block * N
      BY <1>1, <1>7, <2>3, LessThanOnce
    <3> QED BY <1>1, <1>7, <2>1, <3>1
  <2> QED BY <1>7, <2>2, <2>3
<1>11. q < c
  <2> DEFINE v == N * len
  <2> HIDE DEF v, q, c
  <2>1. q \in Nat /\ q < v /\ v <= c /\ c \in Nat /\ v \in Nat
    BY <1>8, <1>9, <1>10 DEF v
  <2> QED BY <2>1
<1>12. b * c + N * len = N * (y + len)
  <2>1. b * c = y * N
    BY <1>1, <1>5 DEF y, c
  <2> QED BY <1>1, <1>5, <1>7, <2>1
<1>13. N * (y + len) <= Volume
  <2> DEFINE z == y + len
  <2>1. z \in Nat /\ z <= S
    BY <1>2, <1>5, <1>7
  <2> HIDE DEF z
  <2>2. z * N <= S * N
    <3>1. CASE z = S
      BY <1>1, <3>1
    <3>2. CASE z < S
      <4>1. z * N + N <= S * N
        BY <1>1, <2>1, <3>2, LessThanOnce
      <4> QED BY <1>1, <2>1, <4>1
    <3> QED BY <1>2, <2>1, <3>1, <3>2
  <2>3. z * N = N * z
    BY <1>1, <2>1
  <2> QED BY <1>1, <2>2, <2>3 DEF z
<1>14. p \in 0 .. Volume - 1
  <2> DEFINE u == b * c
             v == N * len
             w == N * (y + len)
  <2>1. u \in Nat /\ v \in Nat /\ u + v = w /\ w <= Volume /\ q \in Nat /\ q < v
    BY <1>5, <1>8, <1>9, <1>10, <1>12, <1>13
  <2> HIDE DEF u, v, w, q
  <2>2. u + q \in 0 .. Volume - 1
    BY <1>1, <2>1
  <2> QED BY <2>2 DEF u
<1>15. p \div c = b /\ p % c = q
  <2> HIDE DEF q, c
  <2> QED BY <1>5, <1>9, <1>10, <1>11, DivRemUnique
<1>16. q \div len = a /\ q % len = r
  BY <1>3, <1>5, <1>7, DivRemUnique
<1>17. RankAt(p, block) = a * S + y + r
  <2> HIDE DEF p, q
  <2>1. BlockOf(p, block) = b
    BY <1>15 DEF BlockOf, c, N
  <2>2. p % (block * Cardinality(Nodes)) = q
    BY <1>15 DEF c, N
  <2>3. RankAt(p, block) = (q \div len) * S + b * block + (q % len)
    BY <2>1, <2>2 DEF RankAt, S, len, BlockLen, y
  <2> QED BY <1>16, <2>3 DEF y
<1>18. a * S + y + r = s
  <2> DEFINE u == a * S
  <2>1. u \in Nat /\ s = u + t
    BY <1>2, <1>3
  <2> HIDE DEF u
  <2>2. u + y + r = s
    BY <1>5, <2>1
  <2> QED BY <2>2 DEF u
<1> QED BY <1>14, <1>17, <1>18

-----------------------------------------------------------------------------
(* The turns of w_checkpoint and w_parallel.                               *)

OnlyNode(n) ==
  \A m \in Nodes : m /= n => /\ out'[m] = out[m] /\ where'[m] = where[m]
                             /\ blen'[m] = blen[m] /\ lbuf'[m] = lbuf[m]

LEMMA PutSiteAdds ==
  ASSUME BufferTypes, FileTypes, ~faults, NEW n \in Nodes, NEW rank, NEW s, NEW last,
         PutSite(n, rank, blen[n], s, last)
  PROVE  /\ Adds(n, <<s>>) /\ OnlyNode(n)
         /\ IF blen[n] + 1 = MaxBufLength \/ last
            THEN where'[n] = where[n] + (blen[n] + 1) /\ blen'[n] = 0
            ELSE where'[n] = where[n] /\ blen'[n] = blen[n] + 1
<1> DEFINE buf == Loaded(lbuf[n], blen[n], <<s>>)
           w   == Write("data", where[n], FirstOf(buf, blen[n] + 1))
           full == blen[n] + 1 = MaxBufLength \/ last
<1>1. /\ DOMAIN blen = Nodes /\ DOMAIN where = Nodes /\ DOMAIN lbuf = Nodes /\ DOMAIN out = Nodes
      /\ blen[n] \in Nat /\ where[n] \in Nat /\ Len(<<s>>) = 1
  BY SizeAssumption DEF BufferTypes, FileTypes
<1>2. \/ /\ full /\ out' = [out EXCEPT ![n] = Append(@, w)]
         /\ where' = [where EXCEPT ![n] = @ + blen[n] + 1]
         /\ blen' = [blen EXCEPT ![n] = 0] /\ lbuf' = [lbuf EXCEPT ![n] = EmptyBuf]
      \/ /\ ~full /\ blen' = [blen EXCEPT ![n] = @ + 1] /\ lbuf' = [lbuf EXCEPT ![n] = buf]
         /\ UNCHANGED <<out, where>>
  BY DEF PutSite
<1> HIDE DEF buf, full
<1>3. OnlyNode(n)
  BY <1>1, <1>2 DEF OnlyNode
<1>4. \/ /\ full /\ out'[n] = Append(out[n], w)
         /\ where'[n] = where[n] + (blen[n] + 1) /\ blen'[n] = 0
      \/ /\ ~full /\ out'[n] = out[n] /\ where'[n] = where[n]
         /\ blen'[n] = blen[n] + 1 /\ lbuf'[n] = buf
  BY <1>1, <1>2
<1>5. Adds(n, <<s>>)
  BY <1>1, <1>4 DEF Adds, buf
<1> QED BY <1>3, <1>4, <1>5 DEF full

LEMMA TurnData ==
  ASSUME IInv, Holds, DataInv, ~faults, NEW n \in Nodes, save /= "serial",
         UNCHANGED <<lay, save, at, file>>, OnlyNode(n), pos' = [pos EXCEPT ![n] = @ + 1],
         SavedNode(n)', TurnNode(n)'
  PROVE  SavedInv' /\ OrderInv' /\ TurnInv' /\ LinesInv'
<1>1. /\ SavedInv /\ OrderInv /\ TurnInv /\ LinesInv /\ lay \in Layouts /\ Nodes' = Nodes
      /\ BufferTypes /\ lay' = lay /\ save' = save /\ file' = file
      /\ \A m \in Nodes : m /= n => pos'[m] = pos[m]
  BY SameNodeNumber DEF DataInv, IInv, Types, Holds
<1>2. \A r : Due(r)' = Due(r)
  BY <1>1 DEF Due
<1>3. ASSUME NEW m \in Nodes PROVE SavedNode(m)' /\ TurnNode(m)'
  <2>1. SavedNode(m) /\ TurnNode(m) /\ blen[m] \in Nat /\ where[m] \in Nat
    BY <1>1 DEF SavedInv, TurnInv, BufferTypes
  <2>2. CASE m /= n
    <3>1. /\ at'[m] = at[m] /\ where'[m] = where[m] /\ blen'[m] = blen[m] /\ lbuf'[m] = lbuf[m]
          /\ out'[m] = out[m] /\ pos'[m] = pos[m]
      BY <1>1, <2>2 DEF OnlyNode
    <3>2. SavedNode(m)'
      BY <1>1, <1>2, <2>1, <3>1, KeptNode
    <3>3. TurnNode(m)'
      BY <1>1, <2>1, <3>1, KeptTurn
    <3> QED BY <3>2, <3>3
  <2> QED BY <2>2
<1>4. OrderInv'
  BY <1>1, KeptOrder
<1>5. LinesInv'
  BY <1>1, KeptLines
<1> QED BY <1>1, <1>3, <1>4, <1>5 DEF SavedInv, TurnInv

LEMMA CheckpointSiteData ==
  ASSUME IInv, Holds, DataInv, NEW n \in Nodes, CheckpointSite(n) PROVE DataInv'
<1> DEFINE s == lay[n][pos[n] + 1]
           last == pos[n] = SitesOnNode - 1
<1>1. /\ UNCHANGED <<faults, lay, save, at, file>> /\ at[n] = "turn" /\ save = "checkpoint"
      /\ pos[n] < SitesOnNode /\ pos' = [pos EXCEPT ![n] = @ + 1]
      /\ PutSite(n, n * SitesOnNode + pos[n], blen[n], s, last)
  BY DEF CheckpointSite, machine
<1> SUFFICES ASSUME ~faults PROVE SavedInv' /\ OrderInv' /\ TurnInv' /\ LinesInv'
  BY <1>1 DEF DataInv
<1>2. /\ SavedNode(n) /\ TurnNode(n) /\ OrderInv /\ lay \in Layouts
      /\ BufferTypes /\ FileTypes /\ Listed(out[n]) /\ blen[n] < MaxBufLength
      /\ blen[n] \in Nat /\ where[n] \in Nat /\ pos[n] \in Nat /\ MaxBufLength \in Nat
  <2>1. FileTypes /\ BufferTypes /\ blen[n] < MaxBufLength /\ MaxBufLength \in Nat
    BY <1>1, SizeAssumption DEF Holds, Filling
  <2> QED BY <2>1, SizeAssumption DEF DataInv, SavedInv, TurnInv, IInv, Types, FileTypes, BufferTypes
<1>3. /\ SitesOnNode \in Nat \ {0} /\ From(n) \in Nat /\ From(n) = n * SitesOnNode
      /\ Until(n) = From(n) + SitesOnNode
      /\ From(n)' = From(n) /\ Until(n)' = Until(n) /\ Put(n) = From(n) + pos[n]
  <2>1. SitesOnNode \in Nat \ {0} /\ From(n) \in Nat
    BY <1>2, RankLimits
  <2> QED BY <1>1, <1>2, <2>1, SameRanks DEF From, Until, TurnNode
<1>4. /\ Adds(n, <<s>>) /\ OnlyNode(n)
      /\ last => blen'[n] = 0
  BY <1>1, <1>2, PutSiteAdds
<1>5. s = Due(Put(n))
  <2> DEFINE i == pos[n] + 1
  <2>1. i \in 1 .. SitesOnNode /\ From(n) + pos[n] = n * SitesOnNode + i - 1
    BY <1>1, <1>2, <1>3
  <2> HIDE DEF i
  <2>2. file.order[n * SitesOnNode + i - 1] = lay[n][i]
    BY <1>1, <1>2, <2>1 DEF OrderInv
  <2> QED BY <1>1, <1>3, <2>1, <2>2 DEF Due, i
<1>6. s \in Values
  <2>1. s = file.order[Put(n)] /\ Put(n) \in From(n) .. Until(n) - 1
    BY <1>1, <1>2, <1>3, <1>5 DEF Due
  <2>2. Put(n) \in Sites
    BY <1>2, <2>1, RankLimits
  <2> QED BY <1>2, <2>1, <2>2 DEF FileTypes, Content, Values
<1> HIDE DEF s, last
<1>7. SavedNode(n)' /\ Put(n)' = Put(n) + 1
  <2>1. Len(<<s>>) = 1 /\ <<s>> \in Seq(Values)
    BY <1>6
  <2>2. AreDue(n, <<s>>)
    <3>1. Put(n) \in Nat /\ Put(n) + 1 - 1 = Put(n)
      BY <1>2 DEF Put
    <3> QED BY <1>5, <2>1, <3>1 DEF AreDue
  <2>3. Put(n) + 1 <= Until(n) /\ blen[n] + 1 <= MaxBufLength
    BY <1>1, <1>2, <1>3
  <2>4. at[n] \in BeforeSum /\ at'[n] \in BeforeSum /\ at'[n] \in Writing
    BY <1>1 DEF BeforeSum, Writing
  <2>5. UNCHANGED <<lay, save, file>>
    BY <1>1
  <2> QED BY <1>2, <1>4, <2>1, <2>2, <2>3, <2>4, <2>5, AddsRight
<1>8. TurnNode(n)'
  <2>1. pos'[n] = pos[n] + 1 /\ Put(n)' = From(n) + pos'[n]
    BY <1>1, <1>2, <1>3, <1>7 DEF IInv, Types
  <2>2. Put(n)' = Until(n) => blen'[n] = 0
    BY <1>2, <1>3, <1>4, <2>1 DEF last
  <2> QED BY <1>1, <1>3, <2>1, <2>2 DEF TurnNode
<1> QED BY <1>1, <1>4, <1>7, <1>8, TurnData

LEMMA Multiple ==
  ASSUME NEW M \in Nat \ {0}, NEW x \in Nat, x % M = 0, NEW y \in Nat
  PROVE  /\ y < M => (x + y) % M = y
         /\ (x + M) % M = 0
<1> DEFINE q == x \div M
<1>1. q \in Nat /\ x = q * M
  BY DivRem
<1> HIDE DEF q
<1>2. ASSUME NEW z \in Nat, z < M PROVE (q * M + z) % M = z
  BY <1>1, <1>2, DivRemUnique
<1>3. y < M => (x + y) % M = y
  BY <1>1, <1>2
<1>4. (x + M) % M = 0
  <2>1. x + M = (q + 1) * M + 0 /\ q + 1 \in Nat
    BY <1>1
  <2>2. ((q + 1) * M + 0) % M = 0
    BY <2>1, DivRemUnique
  <2> QED BY <2>1, <2>2
<1> QED BY <1>3, <1>4

(* The rank whose turn it is is the first that is left.                    *)
LEMMA NextRank ==
  ASSUME lay \in Layouts, NEW block \in Nat \ {0}, NEW n \in Nodes,
         NEW p \in 0 .. Volume - 1, RankAt(p, block) \div SitesOnNode = n,
         NEW g \in Nat, n * SitesOnNode <= g,
         \A q \in 0 .. Volume - 1 :
           RankAt(q, block) \div SitesOnNode = n => (q < p <=> RankAt(q, block) < g)
  PROVE  /\ RankAt(p, block) = g /\ g < n * SitesOnNode + SitesOnNode
         /\ \A q \in 0 .. Volume - 1 :
              RankAt(q, block) \div SitesOnNode = n => (q < p + 1 <=> RankAt(q, block) < g + 1)
<1> DEFINE S == SitesOnNode
           x == n * S
           R(q) == RankAt(q, block)
           Own(q) == R(q) \div S = n
<1>1. S \in Nat \ {0} /\ n \in Nat /\ x \in Nat /\ x + S <= Volume /\ Volume \in Nat
  <2>1. S \in Nat \ {0} /\ x \in Nat /\ x + S <= Volume
    BY LayoutRanks DEF Nodes, SitesOnNode
  <2> QED BY <2>1, LayoutFacts, SizeAssumption
<1>2. /\ \A q \in 0 .. Volume - 1 : R(q) \in Sites /\ R(q) \in Nat
      /\ \A q, t \in 0 .. Volume - 1 : Own(q) /\ Own(t) /\ q < t => R(q) < R(t)
  <2>1. ASSUME NEW q \in 0 .. Volume - 1 PROVE R(q) \in Sites /\ R(q) \in Nat
    <3>1. R(q) \in Sites
      BY TurnPlace
    <3> QED BY <3>1 DEF Sites
  <2>2. ASSUME NEW q \in 0 .. Volume - 1, NEW t \in 0 .. Volume - 1, Own(q), Own(t), q < t
        PROVE  R(q) < R(t)
    BY <2>2, TurnsInOrder
  <2> QED BY <2>1, <2>2
<1>3. /\ Own(p) /\ x <= g
      /\ \A q \in 0 .. Volume - 1 : Own(q) => (q < p <=> R(q) < g)
  OBVIOUS
<1>4. \A r \in Sites : \E q \in 0 .. Volume - 1 : R(q) = r
  BY EveryTurn
<1> HIDE DEF R, S
<1>5. ASSUME NEW r \in Nat PROVE r \div S = n <=> x <= r /\ r < x + S
  <2>1. ASSUME r \div S = n PROVE x <= r /\ r < x + S
    <3> DEFINE t == r % S
    <3>1. t \in Nat /\ t < S /\ r = x + t
      BY <1>1, <2>1, DivRem
    <3> HIDE DEF t, x
    <3> QED BY <1>1, <3>1
  <2>2. ASSUME x <= r, r < x + S PROVE r \div S = n
    <3> DEFINE t == r - x
    <3>1. t \in Nat /\ t < S /\ r = x + t
      <4> HIDE DEF x
      <4> QED BY <1>1, <2>2
    <3> HIDE DEF t
    <3>2. (n * S + t) \div S = n
      BY ONLY <1>1, <3>1, DivRemUnique
    <3> QED BY <3>1, <3>2
  <2> QED BY <2>1, <2>2
<1> HIDE DEF x
<1>6. R(p) < x + S /\ g <= R(p)
  BY <1>2, <1>3, <1>5
<1>7. g < x + S /\ g \in Sites /\ g \div S = n
  <2>1. g < x + S
    BY <1>1, <1>2, <1>6
  <2>2. g \in Sites
    BY <1>1, <2>1 DEF Sites
  <2> QED BY <1>3, <1>5, <2>1, <2>2
<1>8. R(p) = g
  <2>1. PICK q \in 0 .. Volume - 1 : R(q) = g
    BY <1>4, <1>7
  <2>2. Own(q)
    BY <1>7, <2>1
  <2>3. ~(q < p)
    BY <1>3, <2>1, <2>2
  <2>4. ~(p < q)
    BY <1>2, <1>3, <1>6, <2>1, <2>2
  <2>5. p = q
    BY <2>3, <2>4
  <2> QED BY <2>1, <2>5
<1>9. ASSUME NEW q \in 0 .. Volume - 1, Own(q)
      PROVE  q < p + 1 <=> R(q) < g + 1
  <2>1. R(q) \in Nat /\ (q < p <=> R(q) < g)
    BY <1>2, <1>3, <1>9
  <2>2. CASE q < p
    BY <2>1, <2>2
  <2>3. CASE q = p
    BY <1>8, <2>3
  <2>4. CASE p < q
    <3>1. g < R(q)
      BY <1>2, <1>3, <1>8, <1>9, <2>4
    <3> QED BY <2>1, <2>4, <3>1
  <2> QED BY <2>2, <2>3, <2>4
<1> QED BY <1>7, <1>8, <1>9 DEF R, S, x

LEMMA ParallelTurnData ==
  ASSUME IInv, Fits, Holds, DataInv, NEW n \in Nodes, ParallelTurn(n) PROVE DataInv'
<1> DEFINE p    == pos[n]
           rank == RankAt(p, MaxBufLength)
           dest == rank \div SitesOnNode
           src  == NodeNumber(rank)
           last == rank % SitesOnNode = SitesOnNode - 1
           msg  == Head(chan[src][n])
           M    == MaxBufLength
           S    == SitesOnNode
<1>1. /\ UNCHANGED <<faults, lay, save, at, file>> /\ at[n] = "turn" /\ save = "parallel"
      /\ p < Volume /\ pos' = [pos EXCEPT ![n] = @ + 1]
      /\ \/ n /= dest /\ UNCHANGED <<lbuf, blen, where, out>>
         \/ n = dest /\ n = src /\ PutSite(n, rank, blen[n], rank, last)
         \/ /\ n = dest /\ n /= src /\ Arrived(src, n)
            /\ PutSite(n, msg.coord, (msg.coord % S) % M, msg.links, last)
  BY DEF ParallelTurn, machine
<1> SUFFICES ASSUME ~faults PROVE SavedInv' /\ OrderInv' /\ TurnInv' /\ LinesInv'
  BY <1>1 DEF DataInv
<1>2. /\ SavedNode(n) /\ TurnNode(n) /\ lay \in Layouts /\ p \in 0 .. Volume - 1 /\ p \in Nat
      /\ BufferTypes /\ FileTypes /\ Listed(out[n]) /\ blen[n] < M /\ pos'[n] = p + 1
      /\ blen[n] \in Nat /\ where[n] \in Nat /\ M \in Nat \ {0} /\ From(n) <= where[n]
  <2>1. FileTypes /\ BufferTypes /\ blen[n] < M /\ M \in Nat \ {0} /\ SavedNode(n)
    BY <1>1, SizeAssumption DEF Holds, Filling, DataInv, SavedInv
  <2>2. p \in 0 .. Volume /\ lay \in Layouts /\ pos'[n] = p + 1
    BY <1>1 DEF IInv, Types
  <2>3. From(n) <= where[n]
    BY <1>1, <2>1 DEF SavedNode, BeforeSum
  <2> QED BY <1>1, <2>1, <2>2, <2>3, SizeAssumption DEF DataInv, TurnInv, FileTypes, BufferTypes
<1>3. /\ S \in Nat \ {0} /\ From(n) \in Nat /\ From(n) = n * S
      /\ Until(n) = From(n) + S /\ Put(n) \in Nat /\ From(n) <= Put(n)
      /\ From(n)' = From(n) /\ Until(n)' = Until(n) /\ Put(n) = where[n] + blen[n]
      /\ \A q : RankAt(q, M)' = RankAt(q, M) /\ IsRank(n, q)' = IsRank(n, q)
  <2>1. S \in Nat \ {0} /\ From(n) \in Nat
    BY <1>2, RankLimits
  <2>2. \A q : RankAt(q, M)' = RankAt(q, M) /\ IsRank(n, q)' = IsRank(n, q)
    BY <1>1, SameTurns, SameNodeNumber DEF IsRank
  <2>3. From(n) = n * S /\ Until(n) = n * S + S /\ Put(n) = where[n] + blen[n]
    BY <1>1 DEF From, Until, Put
  <2>4. From(n)' = From(n) /\ Until(n)' = Until(n)
    BY <1>1, SameRanks
  <2> HIDE DEF S
  <2> QED BY <1>2, <2>1, <2>2, <2>3, <2>4
<1>4. /\ \A q \in 0 .. Volume - 1 : IsRank(n, q) => (q < p <=> RankAt(q, M) < Put(n))
      /\ Put(n) < Until(n) => (where[n] - From(n)) % M = 0
  BY <1>1, <1>2 DEF TurnNode
<1>5. CASE n /= dest
  <2>1. UNCHANGED <<lbuf, blen, where, out>> /\ ~IsRank(n, p)
    BY <1>1, <1>5 DEF IsRank
  <2>2. OnlyNode(n) /\ Put(n)' = Put(n)
    BY <2>1 DEF OnlyNode, Put
  <2>3. SavedNode(n)'
    <3>1. \A r : Due(r)' = Due(r)
      BY <1>1 DEF Due
    <3> HIDE DEF p, rank, dest, src, last, msg, M, S
    <3> QED BY <1>1, <1>2, <2>1, <3>1, KeptNode
  <2>4. ASSUME NEW q \in 0 .. Volume - 1, IsRank(n, q)
        PROVE  q < p + 1 <=> RankAt(q, M) < Put(n)
    <3>1. q /= p
      BY <2>1, <2>4
    <3>2. q < p + 1 <=> q < p
      BY <1>2, <3>1
    <3> QED BY <1>4, <2>4, <3>2
  <2>5. TurnNode(n)'
    BY <1>1, <1>2, <1>3, <2>1, <2>2, <2>4 DEF TurnNode
  <2> HIDE DEF p, rank, dest, src, last, msg, M, S
  <2> QED BY <1>1, <2>2, <2>3, <2>5, TurnData
<1>6. CASE n = dest
  <2>1. /\ rank = Put(n) /\ Put(n) < Until(n)
        /\ \A q \in 0 .. Volume - 1 : IsRank(n, q) => (q < p + 1 <=> RankAt(q, M) < Put(n) + 1)
    <3>1. /\ RankAt(p, M) \div S = n /\ Put(n) \in Nat /\ n * S <= Put(n)
          /\ \A q \in 0 .. Volume - 1 : RankAt(q, M) \div S = n => (q < p <=> RankAt(q, M) < Put(n))
      BY <1>3, <1>4, <1>6 DEF IsRank
    <3> HIDE DEF p, M
    <3>2. /\ RankAt(p, M) = Put(n) /\ Put(n) < n * S + S
          /\ \A q \in 0 .. Volume - 1 :
               RankAt(q, M) \div S = n => (q < p + 1 <=> RankAt(q, M) < Put(n) + 1)
      BY <1>2, <3>1, NextRank
    <3> QED BY <1>3, <3>2 DEF IsRank, M
  <2> DEFINE x == where[n] - From(n)
             b == blen[n]
  <2>2. x \in Nat /\ b \in Nat /\ b < M /\ x % M = 0 /\ x + b < S /\ rank = n * S + (x + b)
    BY <1>2, <1>3, <1>4, <2>1
  <2>3. rank % S = x + b /\ (rank % S) % M = b
    <3> HIDE DEF x, b, M, S, rank
    <3>1. n \in Nat /\ x + b \in Nat
      BY <1>2, <2>2, LayoutFacts
    <3> DEFINE y == x + b
    <3>2. (n * S + y) % S = y
      <4> HIDE DEF y
      <4>1. y \in Nat /\ y < S /\ S \in Nat \ {0}
        BY <1>3, <2>2, <3>1 DEF y
      <4> QED BY ONLY <3>1, <4>1, DivRemUnique
    <3>3. (x + b) % M = b
      BY <1>2, <2>2, Multiple
    <3> QED BY <2>2, <3>2, <3>3 DEF y
  <2>4. last <=> Put(n) + 1 = Until(n)
    <3>1. last <=> x + b = S - 1
      BY <2>3
    <3> QED BY <1>2, <1>3, <2>2, <3>1
  <2>5. \E r : PutSite(n, r, b, rank, last)
    <3>1. CASE n = src
      BY <1>1, <1>6, <3>1
    <3>2. CASE n /= src
      <4>1. Arrived(src, n) /\ PutSite(n, msg.coord, (msg.coord % S) % M, msg.links, last)
        BY <1>1, <1>6, <3>2
      <4>2. msg = Links(rank, rank)
        BY <1>1, <1>6, <3>2, <4>1, FitsMessages DEF MessagesFit
      <4>3. msg.coord = rank /\ msg.links = rank
        BY <4>2 DEF Links
      <4> QED BY <2>3, <4>1, <4>3
    <3> QED BY <3>1, <3>2
  <2> HIDE DEF last
  <2>6. /\ Adds(n, <<rank>>) /\ OnlyNode(n)
        /\ IF b + 1 = M \/ last
           THEN where'[n] = where[n] + (b + 1) /\ blen'[n] = 0
           ELSE where'[n] = where[n] /\ blen'[n] = b + 1
    <3> HIDE DEF rank, b, M
    <3>1. PICK r : PutSite(n, r, b, rank, last)
      BY <2>5
    <3>2. /\ Adds(n, <<rank>>) /\ OnlyNode(n)
          /\ IF blen[n] + 1 = MaxBufLength \/ rank % SitesOnNode = SitesOnNode - 1
             THEN where'[n] = where[n] + (blen[n] + 1) /\ blen'[n] = 0
             ELSE where'[n] = where[n] /\ blen'[n] = blen[n] + 1
      <4> HIDE DEF S, p
      <4>1. PutSite(n, r, blen[n], rank, rank % SitesOnNode = SitesOnNode - 1)
        BY <3>1 DEF b, last
      <4> QED BY <1>2, <4>1, PutSiteAdds
    <3> QED BY <3>2 DEF b, M, last
  <2>7. SavedNode(n)' /\ Put(n)' = Put(n) + 1
    <3>1. Put(n) \in Sites
      <4>1. Put(n) \in From(n) .. Until(n) - 1
        BY <1>3, <2>1
      <4> QED BY <1>2, <4>1, RankLimits
    <3>2. Len(<<rank>>) = 1 /\ <<rank>> \in Seq(Values)
      BY <2>1, <3>1 DEF Values
    <3>3. AreDue(n, <<rank>>)
      <4>1. Put(n) + 1 - 1 = Put(n) /\ Due(Put(n)) = Put(n)
        BY <1>1, <1>3 DEF Due
      <4> QED BY <2>1, <3>2, <4>1 DEF AreDue
    <3>4. Put(n) + 1 <= Until(n) /\ blen[n] + 1 <= M
      BY <1>2, <1>3, <2>1
    <3>5. at[n] \in BeforeSum /\ at'[n] \in BeforeSum /\ at'[n] \in Writing
      BY <1>1 DEF BeforeSum, Writing
    <3>6. UNCHANGED <<lay, save, file>>
      BY <1>1
    <3> HIDE DEF rank
    <3> QED BY <1>2, <2>6, <3>2, <3>3, <3>4, <3>5, <3>6, AddsRight
  <2>8. TurnNode(n)'
    <3>1. Put(n)' = Until(n) => blen'[n] = 0
      BY <2>4, <2>6, <2>7
    <3>2. Put(n)' < Until(n) => (where'[n] - From(n)) % M = 0
      <4> SUFFICES ASSUME Put(n)' < Until(n) PROVE (where'[n] - From(n)) % M = 0
        OBVIOUS
      <4>1. ~last
        BY <1>3, <2>4, <2>7
      <4>2. CASE b + 1 = M
        <5>1. where'[n] - From(n) = x + M
          BY <1>2, <1>3, <2>6, <4>2
        <5>2. (x + M) % M = 0
          <6> HIDE DEF x, M
          <6> QED BY <1>2, <2>2, Multiple
        <5> QED BY <5>1, <5>2
      <4>3. CASE b + 1 /= M
        BY <2>2, <2>6, <4>1, <4>3
      <4> QED BY <4>2, <4>3
    <3>3. \A q \in 0 .. Volume - 1 : IsRank(n, q) => (q < pos'[n] <=> RankAt(q, M) < Put(n)')
      BY <1>2, <2>1, <2>7
    <3> QED BY <1>1, <1>3, <3>1, <3>2, <3>3 DEF TurnNode
  <2> HIDE DEF rank
  <2> QED BY <1>1, <2>6, <2>7, <2>8, TurnData
<1> QED BY <1>5, <1>6

LEMMA OwnRank ==
  ASSUME lay \in Layouts, save /= "serial", NEW n \in Nodes, NEW r \in From(n) .. Until(n) - 1
  PROVE  r \in Sites /\ r \div SitesOnNode = n
<1> DEFINE S == SitesOnNode
           x == n * S
           y == r - x
<1>1. S \in Nat \ {0} /\ n \in Nat /\ r \in Sites
  BY RankLimits, LayoutFacts
<1>2. From(n) = x /\ Until(n) = x + S
  BY DEF From, Until
<1> HIDE DEF S
<1>3. x \in Nat
  BY <1>1
<1> HIDE DEF x
<1>4. y \in Nat /\ y < S /\ r = x + y
  BY <1>1, <1>2, <1>3
<1> HIDE DEF y
<1>5. (n * S + y) \div S = n
  BY <1>1, <1>4, DivRemUnique
<1> QED BY <1>1, <1>4, <1>5 DEF x, S

(* When the turns are over the node has put all its ranks.                 *)
LEMMA EndTurnsData ==
  ASSUME IInv, Holds, DataInv, NEW n \in Nodes, EndTurns(n) PROVE DataInv'
<1>1. /\ UNCHANGED <<faults, lay, save, file, out, pos, lbuf, blen, where>> /\ at[n] = "turn"
      /\ at' = [at EXCEPT ![n] = "sum"]
      /\ pos[n] = IF save = "parallel" THEN Volume ELSE SitesOnNode
  BY DEF EndTurns, nodevars, machine
<1> SUFFICES ASSUME ~faults PROVE SavedInv' /\ OrderInv' /\ TurnInv' /\ LinesInv'
  BY <1>1 DEF DataInv
<1>2. /\ SavedInv /\ OrderInv /\ TurnInv /\ LinesInv /\ lay \in Layouts /\ Nodes' = Nodes
      /\ BufferTypes /\ save \in {"parallel", "checkpoint"} /\ at[n] \in BeforeSum
      /\ at'[n] = "sum" /\ \A m \in Nodes : m /= n => at'[m] = at[m]
  <2>1. save /= "serial"
    BY <1>1 DEF IInv, StageInv
  <2>2. DOMAIN at = Nodes
    BY DEF IInv, Types
  <2> QED BY <1>1, <2>1, <2>2, SaveValues, SameNodeNumber DEF DataInv, IInv, Types, Holds, BeforeSum
<1>3. /\ SavedNode(n) /\ TurnNode(n) /\ blen[n] \in Nat /\ where[n] \in Nat
      /\ SitesOnNode \in Nat \ {0} /\ From(n) \in Nat /\ Until(n) = From(n) + SitesOnNode
      /\ From(n) <= where[n] /\ Put(n) = where[n] + blen[n] /\ Put(n) <= Until(n)
  <2>1. SavedNode(n) /\ TurnNode(n) /\ blen[n] \in Nat /\ where[n] \in Nat
    BY <1>2, SizeAssumption DEF SavedInv, TurnInv, BufferTypes
  <2>2. SitesOnNode \in Nat \ {0} /\ From(n) \in Nat
    BY <1>2, RankLimits
  <2>3. Until(n) = From(n) + SitesOnNode
    BY <1>2 DEF From, Until
  <2>4. From(n) <= where[n] /\ Put(n) <= Until(n)
    BY <1>2, <2>1 DEF SavedNode
  <2> QED BY <2>1, <2>2, <2>3, <2>4 DEF Put
<1>4. Put(n) = Until(n)
  <2>1. CASE save = "checkpoint"
    BY <1>1, <1>3, <2>1 DEF TurnNode
  <2>2. CASE save = "parallel"
    <3> SUFFICES ASSUME Put(n) < Until(n) PROVE FALSE
      BY <1>3
    <3>1. Put(n) \in From(n) .. Until(n) - 1
      BY <1>3
    <3>2. Put(n) \in Sites /\ Put(n) \div SitesOnNode = n
      BY <1>2, <2>2, <3>1, OwnRank
    <3>3. PICK p \in 0 .. Volume - 1 : RankAt(p, MaxBufLength) = Put(n)
      BY <1>2, <3>2, EveryTurn, SizeAssumption
    <3>4. IsRank(n, p) /\ p < pos[n]
      BY <1>1, <2>2, <3>2, <3>3, SizeAssumption DEF IsRank
    <3>5. RankAt(p, MaxBufLength) < Put(n)
      BY <1>1, <1>3, <2>2, <3>4 DEF TurnNode
    <3> QED BY <1>3, <3>3, <3>5
  <2> QED BY <1>2, <2>1, <2>2
<1>5. where[n] = Until(n)
  <2>1. blen[n] = 0
    BY <1>1, <1>3, <1>4 DEF TurnNode
  <2> QED BY <1>3, <1>4, <2>1
<1>6. \A r : Due(r)' = Due(r)
  BY <1>1 DEF Due
<1>7. SavedInv'
  <2> SUFFICES ASSUME NEW m \in Nodes PROVE SavedNode(m)'
    BY <1>2 DEF SavedInv
  <2>1. SavedNode(m) /\ blen[m] \in Nat /\ where[m] \in Nat
    BY <1>2, SizeAssumption DEF SavedInv, BufferTypes
  <2>2. \/ at'[m] = at[m]
        \/ at[m] \in BeforeSum /\ at'[m] \in Writing /\ Until(m) <= where[m]
    BY <1>2, <1>3, <1>5 DEF Writing
  <2> QED BY <1>1, <1>2, <1>6, <2>1, <2>2, KeptNode
<1>8. OrderInv'
  BY <1>1, <1>2, KeptOrder
<1>9. TurnInv'
  BY <1>1, <1>2, KeptTurn DEF TurnInv
<1>10. LinesInv'
  BY <1>1, <1>2, KeptLines
<1> QED BY <1>7, <1>8, <1>9, <1>10

LEMMA NodeLists ==
  ASSUME lay \in Layouts, NEW n \in Nodes
  PROVE  lay[n] \in Seq(Sites) /\ Len(lay[n]) = SitesOnNode /\ DOMAIN lay[n] = 1 .. SitesOnNode
<1>1. lay[n] \in Seq(Sites)
  BY LayoutAssumption DEF Nodes
<1>2. Len(lay[n]) = SitesOnNode
  <2> DEFINE N == Cardinality(Nodes)
             a == Len(lay[n])
             b == SitesOnNode
  <2>1. N \in Nat \ {0} /\ b \in Nat /\ b * N = Volume
    BY LayoutFacts
  <2>2. a \in Nat /\ a * N = Volume
    BY <1>1, LayoutAssumption DEF Nodes
  <2> HIDE DEF N, a, b
  <2>3. a * N = b * N
    BY <2>1, <2>2
  <2>4. ~(a < b) /\ ~(b < a)
    BY <2>1, <2>2, <2>3, LessThanOnce
  <2>5. a = b
    BY <2>1, <2>2, <2>4
  <2> QED BY <2>5 DEF a, b
<1> QED BY <1>1, <1>2

(* The list of the sites of a node is in its own part of the file.         *)
LEMMA WriteListData ==
  ASSUME IInv, Holds, DataInv, NEW n \in Nodes, WriteList(n) PROVE DataInv'
<1> DEFINE S == SitesOnNode
           x == n * S
<1>1. /\ UNCHANGED <<faults, lay, save, out, pos, lbuf, blen, where>> /\ at[n] = "list"
      /\ faults \/ (at' = [at EXCEPT ![n] = "turn"] /\ file' = InFile(file, Write("order", x, lay[n])))
  BY DEF WriteList, nodevars, machine
<1> SUFFICES ASSUME ~faults PROVE SavedInv' /\ OrderInv' /\ TurnInv' /\ LinesInv'
  BY <1>1 DEF DataInv
<1>2. /\ SavedInv /\ OrderInv /\ TurnInv /\ LinesInv /\ lay \in Layouts /\ Nodes' = Nodes
      /\ BufferTypes /\ save = "checkpoint" /\ SitesOnNode' = S
      /\ at'[n] = "turn" /\ \A m \in Nodes : m /= n => at'[m] = at[m]
  <2>1. save = "checkpoint"
    BY <1>1 DEF IInv, StageInv
  <2>2. DOMAIN at = Nodes
    BY DEF IInv, Types
  <2> QED BY <1>1, <2>1, <2>2, SameNodeNumber DEF DataInv, IInv, Types, Holds
<1>3. /\ S \in Nat \ {0} /\ DOMAIN lay[n] = 1 .. S /\ From(n) = x /\ Until(n) = x + S /\ x \in Nat
      /\ \A r \in x .. x + S - 1 : r \in Sites
  <2>1. From(n) = x /\ Until(n) = x + S
    BY <1>2 DEF From, Until
  <2> HIDE DEF x
  <2> QED BY <1>2, <2>1, RankLimits, NodeLists
<1>4. /\ file'.data = file.data
      /\ \A r \in Sites : file'.order[r] = IF r - x + 1 \in 1 .. S THEN lay[n][r - x + 1] ELSE file.order[r]
  <2>1. DOMAIN file = {"data", "order", "sum"} /\ DOMAIN file.order = Sites
    BY DEF Holds, FileTypes, Content
  <2>2. file'.data = file.data /\ file'.order = Loaded(file.order, x, lay[n])
    <3> HIDE DEF x
    <3> QED BY <1>1, <2>1 DEF InFile, Write
  <2> HIDE DEF x, S
  <2> QED BY <1>3, <2>1, <2>2 DEF Loaded
<1>5. ASSUME NEW m \in Nodes, m /= n, NEW r \in From(m) .. Until(m) - 1
      PROVE  file'.order[r] = file.order[r] /\ Due(r)' = Due(r)
  <2>1. r \in Sites /\ r \in Int /\ ~(r \in From(n) .. Until(n) - 1)
    BY <1>2, <1>5, OneWriter, RankLimits DEF Sites
  <2> HIDE DEF x, S
  <2>2. ~(r - x + 1 \in 1 .. S)
    BY <1>3, <2>1
  <2>3. file'.order[r] = file.order[r]
    BY <1>4, <2>1, <2>2
  <2> QED BY <1>1, <2>3 DEF Due
<1> HIDE DEF x, S
<1>6. \A i \in 1 .. S : file'.order[x + i - 1] = lay[n][i]
  <2> SUFFICES ASSUME NEW i \in 1 .. S PROVE file'.order[x + i - 1] = lay[n][i]
    OBVIOUS
  <2> DEFINE r == x + i - 1
  <2>1. r \in Sites /\ r - x + 1 = i
    BY <1>3
  <2> HIDE DEF r
  <2>2. file'.order[r] = lay[n][i]
    BY <1>4, <2>1
  <2> QED BY <2>2 DEF r
<1>7. SavedInv'
  <2> SUFFICES ASSUME NEW m \in Nodes PROVE SavedNode(m)'
    BY <1>2 DEF SavedInv
  <2>1. SavedNode(m) /\ blen[m] \in Nat /\ where[m] \in Nat
    BY <1>2, SizeAssumption DEF SavedInv, BufferTypes
  <2>2. CASE m /= n
    BY <1>1, <1>2, <1>4, <1>5, <2>1, <2>2, KeptNode
  <2>3. CASE m = n
    <3>1. out[n] = <<>> /\ where[n] = From(n) /\ blen[n] = 0 /\ Put(n)' = Put(n) /\ TurnNode(n)
      BY <1>1, <1>2, <2>1, <2>3 DEF SavedNode, Writing, TurnInv, TurnNode, Put
    <3>2. WritesRight(n)'
      BY <1>1, <3>1 DEF WritesRight
    <3>3. From(n)' = From(n) /\ Until(n)' = Until(n)
      BY <1>1, SameRanks
    <3>4. /\ \A r \in From(n) .. Until(n) - 1 : ~(r < where[n])
          /\ \A i : ~(i \in 0 .. blen[n] - 1)
      BY <1>3, <3>1
    <3>5. From(n) <= where[n] /\ Put(n) <= Until(n)
      BY <1>1, <2>1, <2>3 DEF SavedNode, BeforeSum
    <3> QED BY <1>1, <1>2, <2>3, <3>1, <3>2, <3>3, <3>4, <3>5 DEF SavedNode, BeforeSum, Writing
  <2> QED BY <2>2, <2>3
<1>8. OrderInv'
  <2>1. ASSUME NEW m \in Nodes, at'[m] \in {"turn", "sum"}, NEW i \in 1 .. S
        PROVE  file'.order[m * S + i - 1] = lay[m][i]
    <3>1. CASE m = n
      BY <1>6, <2>1, <3>1 DEF x
    <3>2. CASE m /= n
      <4>1. file.order[m * S + i - 1] = lay[m][i]
        BY <1>2, <2>1, <3>2 DEF OrderInv, S
      <4>2. m * S + i - 1 \in From(m) .. Until(m) - 1
        <5> DEFINE y == m * S
        <5>1. From(m) = y /\ Until(m) = y + S /\ From(m) \in Nat
          BY <1>2, RankLimits DEF From, Until, S
        <5> HIDE DEF y
        <5>2. y + i - 1 \in From(m) .. Until(m) - 1
          BY <1>3, <5>1
        <5> QED BY <5>2 DEF y
      <4> QED BY <1>5, <3>2, <4>1, <4>2
    <3> QED BY <3>1, <3>2
  <2>2. ASSUME \A m \in Nodes : at'[m] /= "list", NEW s \in Sites
        PROVE  \E r \in Sites : file'.order[r] = s
    <3>1. PICK m \in Nodes : \E i \in DOMAIN lay[m] : lay[m][i] = s
      BY <1>2, LayoutAssumption DEF Nodes
    <3>2. PICK i \in 1 .. S : lay[m][i] = s
      BY <1>2, <3>1, NodeLists DEF S
    <3>3. at'[m] \in {"turn", "sum"}
      <4>1. at[m] \in BeforeSum \union {"sum"} /\ at[m] \notin {"sweep", "signal"}
        BY <1>1, <1>2 DEF IInv, Barriers, StageInv, BeforeSum
      <4> QED BY <1>2, <2>2, <4>1 DEF BeforeSum
    <3>4. file'.order[m * S + i - 1] = s
      BY <2>1, <3>2, <3>3
    <3>5. m * S + i - 1 \in Sites
      <4> DEFINE y == m * S
      <4>1. /\ From(m) = y /\ Until(m) = y + S /\ From(m) \in Nat
            /\ \A r \in From(m) .. Until(m) - 1 : r \in Sites
        BY <1>2, RankLimits DEF From, Until, S
      <4> HIDE DEF y
      <4>2. y + i - 1 \in From(m) .. Until(m) - 1
        BY <1>3, <4>1
      <4>3. y + i - 1 \in Sites
        BY <4>1, <4>2
      <4> QED BY <4>3 DEF y
    <3> QED BY <3>4, <3>5
  <2> QED BY <1>1, <1>2, <2>1, <2>2 DEF OrderInv
<1>9. TurnInv'
  <2>1. TurnNode(n)'
    <3>1. /\ From(n)' = From(n) /\ Until(n)' = Until(n) /\ Put(n)' = Put(n) /\ blen'[n] = 0
          /\ Put(n) = From(n) + pos[n] /\ save' = save /\ pos' = pos
      BY <1>1, <1>2, SameRanks DEF TurnInv, TurnNode, Put
    <3> QED BY <1>2, <3>1 DEF TurnNode
  <2> QED BY <1>1, <1>2, <2>1, KeptTurn DEF TurnInv
<1>10. LinesInv'
  BY <1>1, <1>2, KeptLines
<1> QED BY <1>7, <1>8, <1>9, <1>10

-----------------------------------------------------------------------------
(* The lines of w_serial.                                                  *)

LEMMA OneBeginning ==
  ASSUME NEW p \in Nat, NEW i, NEW k, Begun(i, p), Begun(k, p), i < p, k < p
  PROVE  i = k
<1>1. i \in Nat /\ k \in Nat
  BY DEF Begun
<1>2. ~(i < k)
  <2>1. i < k => k \in i + 1 .. p - 1
    BY <1>1
  <2> QED BY <2>1 DEF Begun
<1>3. ~(k < i)
  <2>1. k < i => i \in k + 1 .. p - 1
    BY <1>1
  <2> QED BY <2>1 DEF Begun
<1> QED BY <1>1, <1>2, <1>3

(* After a sweep.                                                          *)
LEMMA BegunNext ==
  ASSUME NEW p \in Nat, NEW i \in Nat, i <= p
  PROVE  /\ Turn(p) => Begun(p, p + 1)
         /\ ~Turn(p) /\ Begun(i, p) => Begun(i, p + 1)
<1>1. ASSUME Turn(p) PROVE Begun(p, p + 1)
  <2>1. \A k : ~(k \in p + 1 .. (p + 1) - 1)
    OBVIOUS
  <2> QED BY <1>1, <2>1 DEF Begun
<1>2. ASSUME ~Turn(p), Begun(i, p) PROVE Begun(i, p + 1)
  <2> SUFFICES ASSUME NEW k \in i + 1 .. (p + 1) - 1 PROVE ~Turn(k)
    BY <1>2 DEF Begun
  <2>1. k = p \/ k \in i + 1 .. p - 1
    OBVIOUS
  <2> QED BY <1>2, <2>1 DEF Begun
<1> QED BY <1>1, <1>2

LEMMA FlushAdds ==
  ASSUME BufferTypes, FileTypes, 0 \in Nodes, ~faults, NEW sites \in Seq(Values), Flush(sites)
  PROVE  /\ Adds(0, sites) /\ OnlyNode(0)
         /\ pos[0] = Volume => blen'[0] = 0 /\ where'[0] = where[0] + (blen[0] + Len(sites))
<1> DEFINE len == blen[0] + Len(sites)
           buf == Loaded(lbuf[0], blen[0], sites)
           w   == Write("data", where[0], FirstOf(buf, len))
<1>1. DOMAIN blen = Nodes /\ DOMAIN where = Nodes /\ DOMAIN lbuf = Nodes /\ DOMAIN out = Nodes
  BY DEF BufferTypes, FileTypes
<1>2. /\ lbuf' = [lbuf EXCEPT ![0] = buf]
      /\ \/ /\ out' = [out EXCEPT ![0] = Append(@, w)]
            /\ where' = [where EXCEPT ![0] = where[0] + len]
            /\ blen' = [blen EXCEPT ![0] = 0]
         \/ /\ ~Full(len) /\ UNCHANGED <<out, where>>
            /\ blen' = [blen EXCEPT ![0] = len]
  BY DEF Flush
<1>3. pos[0] = Volume => Full(len)
  BY DEF Full
<1> HIDE DEF len, buf, w
<1>4. OnlyNode(0)
  BY <1>1, <1>2 DEF OnlyNode
<1>5. \/ out'[0] = Append(out[0], w) /\ where'[0] = where[0] + len /\ blen'[0] = 0
      \/ /\ ~Full(len) /\ out'[0] = out[0] /\ where'[0] = where[0]
         /\ blen'[0] = len /\ lbuf'[0] = buf
  BY <1>1, <1>2
<1>6. Adds(0, sites)
  BY <1>5 DEF Adds, len, buf, w
<1> QED BY <1>3, <1>4, <1>5, <1>6 DEF len

(* The lines on the way after a sweep.                                     *)
LEMMA SweepsSwept ==
  ASSUME Types, LineInv, SweepInv, SweptInv, lay' = lay, pos' = pos, NEW n \in Nodes,
         at[n] = "sweep", Sweeps(n), NEW to, to /= "sweep", at' = [at EXCEPT ![n] = to],
         n /= 0 /\ Retires(n, pos[n]) =>
           chan' = Sent(n, 0, [kind |-> "line", links |-> tbuf[n]]),
         n /= 0 => LineNode(n)
  PROVE  SweptInv'
<1> DEFINE j == pos[n]
           msg == [kind |-> "line", links |-> tbuf[n]]
<1>1. /\ Nodes' = Nodes /\ 0 \in Nodes /\ j \in Int /\ ChanType /\ at[n] \in BeforeSum
      /\ \A m \in Nodes : pos[m] \in Int
      /\ \A m : Lines(m)' = Lines(m)
  <2>1. 0 \in Nodes /\ ChanType /\ \A m \in Nodes : pos[m] \in Int
    BY LayoutFacts, SizeAssumption DEF Types
  <2> QED BY <2>1, SameNodeNumber, SameTurns DEF BeforeSum
<1>2. /\ Clock(n) = j /\ Clock(n)' = j + 1
      /\ \A m \in Nodes : Clock(m) \in Int /\ (m /= n => Clock(m)' = Clock(m))
  BY <1>1 DEF Clock, Types
<1> SUFFICES ASSUME NEW s \in Nodes, s /= 0,
                    NEW p \in Between(Clock(0)', Clock(s)', Lines(s))
             PROVE  SweptLine(chan'[s][0][Place(Clock(0)', p, Lines(s))].links, p)
  <2>1. \A k : Turn(k)' = Turn(k)
    BY SameTurns
  <2>2. \A line, x : SweptLine(line, x)' = SweptLine(line, x)
    BY <2>1 DEF SweptLine, IsLine, Begun
  <2> QED BY <1>1, <2>2 DEF SweptInv, Between, Place
<1> DEFINE P == Lines(s)
           q == chan[s][0]
           r == chan'[s][0]
           lo == Clock(0)
           hi == Clock(s)
<1>3. /\ P \in SUBSET Int /\ Listed(q) /\ Balanced(q, lo, hi, P) /\ lo \in Int /\ hi \in Int
      /\ \A x \in Between(lo, hi, P) : SweptLine(q[Place(lo, x, P)].links, x)
  BY <1>1, <1>2, TurnsAreNumbers DEF SweepInv, SweptInv, ChanType
<1>5. /\ n = 0 /\ j \in P => q /= <<>> /\ r = Tail(q)
      /\ n \notin {0, s} \/ j \notin P => r = q
  BY SweepsChan
<1>6. n = s /\ j \in P => r = Append(q, msg) /\ SweptLine(tbuf[n], j)
  <2> SUFFICES ASSUME n = s, j \in P PROVE r = Append(q, msg) /\ SweptLine(tbuf[n], j)
    OBVIOUS
  <2>1. CurrentNode(j) = n /\ Turn(j) /\ j > 0
    BY <1>1 DEF Lines
  <2>2. tbuf[n] /= <<>>
    BY <2>1 DEF LineInv, HasLine
  <2>3. Retires(n, j)
    BY <2>1, <2>2 DEF Retires, Turn
  <2>4. Begun(j - Len(tbuf[n]), j) /\ IsLine(tbuf[n], j - Len(tbuf[n]))
    BY <1>1, <1>2, <2>1 DEF LineNode
  <2>5. chan' = Sent(n, 0, msg)
    BY <2>3
  <2>6. r = Append(q, msg)
    <3> HIDE DEF msg
    <3>1. \A a, b \in Nodes :
            chan'[a][b] = IF a = n /\ b = 0 THEN Append(chan[a][b], msg) ELSE chan[a][b]
      BY <1>1, <2>5, SentIs
    <3> QED BY <1>1, <3>1
  <2> QED BY <2>2, <2>4, <2>6 DEF SweptLine
<1> HIDE DEF msg, P, q, r, lo, hi, j
<1>7. CASE n = s
  <2>1. hi = j /\ Clock(s)' = hi + 1 /\ Clock(0)' = lo
    BY <1>1, <1>2, <1>7 DEF lo, hi
  <2>2. AfterSend(r, q, msg, hi \in P)
    BY <1>5, <1>6, <1>7, <2>1 DEF AfterSend
  <2>3. p \in Between(lo, hi + 1, P)
    BY <2>1 DEF P
  <2>4. \/ p \in Between(lo, hi, P) /\ r[Place(lo, p, P)] = q[Place(lo, p, P)]
        \/ p = hi /\ hi \in P /\ r[Place(lo, p, P)] = msg
    BY <1>3, <2>2, <2>3, SentPlaces
  <2>5. SweptLine(r[Place(lo, p, P)].links, p)
    <3>1. msg.links = tbuf[n]
      BY DEF msg
    <3> QED BY <1>3, <1>6, <1>7, <2>1, <2>4, <3>1
  <2> QED BY <2>1, <2>5 DEF r, P
<1>8. CASE n = 0
  <2>1. lo = j /\ Clock(0)' = lo + 1 /\ Clock(s)' = hi
    BY <1>2, <1>8 DEF lo, hi
  <2>2. AfterReceive(r, q, lo \in P) /\ (lo \in P => q /= <<>>)
    BY <1>5, <1>8, <2>1 DEF AfterReceive
  <2>3. p \in Between(lo + 1, hi, P)
    BY <2>1 DEF P
  <2>4. p \in Between(lo, hi, P) /\ r[Place(lo + 1, p, P)] = q[Place(lo, p, P)]
    BY <1>3, <2>2, <2>3, KeptPlaces
  <2>5. SweptLine(r[Place(lo + 1, p, P)].links, p)
    BY <1>3, <2>4
  <2> QED BY <2>1, <2>5 DEF r, P
<1>9. CASE n \notin {0, s}
  <2>1. r = q /\ Clock(0)' = lo /\ Clock(s)' = hi
    BY <1>1, <1>2, <1>5, <1>9 DEF lo, hi
  <2>2. p \in Between(lo, hi, P)
    BY <2>1 DEF P
  <2>3. SweptLine(r[Place(lo, p, P)].links, p)
    BY <1>3, <2>1, <2>2
  <2> QED BY <2>1, <2>3 DEF r, P
<1> QED BY <1>7, <1>8, <1>9

(* The line of the node that has swept.                                    *)
LEMMA SweepsLine ==
  ASSUME Types, LineInv, lay' = lay, pos' = pos, NEW n \in Nodes, at[n] = "sweep",
         Sweeps(n), NEW to \in {"signal", "sum"}, at' = [at EXCEPT ![n] = to], LineNode(n)
  PROVE  LineNode(n)'
<1> DEFINE j == pos[n]
           c == CurrentNode(j)
           i == j - Len(tbuf[n])
           k == j - Len(tbuf'[n])
<1>1. /\ j \in Nat /\ at'[n] = to /\ Len(tbuf[n]) \in Nat
      /\ tbuf'[n] = IF Retires(n, j) THEN <<>> ELSE tbuf[n]
      /\ (Retires(n, j) <=> tbuf[n] /= <<>> /\ Turn(j))
      /\ (tbuf[n] /= <<>> <=> HasLine(n, j))
      /\ Clock(n) = j /\ (to = "signal" => Clock(n)' = j + 1)
  <2>1. j \in Nat /\ at'[n] = to /\ Listed(tbuf[n])
    BY SizeAssumption DEF Types
  <2>2. Len(tbuf[n]) \in Nat
    BY <2>1, ListedLen
  <2>3. tbuf'[n] = IF Retires(n, j) THEN <<>> ELSE tbuf[n]
    BY DEF Sweeps, Types
  <2>4. Retires(n, j) <=> tbuf[n] /= <<>> /\ Turn(j)
    BY DEF Retires, Turn
  <2>5. tbuf[n] /= <<>> <=> HasLine(n, j)
    BY DEF LineInv
  <2> QED BY <2>1, <2>2, <2>3, <2>4, <2>5 DEF Clock
<1>2. CASE to = "sum"
  BY <1>1, <1>2 DEF LineNode, BeforeSum
<1>3. CASE to = "signal"
  <2>1. /\ n \in {0, c} => Begun(i, j)
        /\ n = c => IsLine(tbuf[n], i)
    BY <1>1 DEF LineNode, BeforeSum
  <2>2. /\ n \in {0, c} => Begun(k, j + 1)
        /\ n = c => IsLine(tbuf'[n], k)
    <3>1. CASE Turn(j)
      <4>1. tbuf'[n] = <<>> /\ k = j
        BY <1>1, <3>1, EmptyListed
      <4>2. Begun(j, j + 1)
        <5> HIDE DEF j
        <5> QED BY <1>1, <3>1, BegunNext
      <4> HIDE DEF j, k, c
      <4> QED BY <4>1, <4>2 DEF IsLine
    <3>2. CASE ~Turn(j)
      <4>1. tbuf'[n] = tbuf[n] /\ k = i
        BY <1>1, <3>2
      <4>2. Begun(i, j) => i \in Nat /\ i <= j
        BY <1>1 DEF Begun
      <4>3. Begun(i, j) => Begun(i, j + 1)
        <5> HIDE DEF i, j
        <5> QED BY <1>1, <3>2, <4>2, BegunNext
      <4> HIDE DEF i, j, k, c
      <4> QED BY <2>1, <4>1, <4>3
    <3> QED BY <3>1, <3>2
  <2>3. \A x : Turn(x)' = Turn(x) /\ CurrentNode(x)' = CurrentNode(x)
    BY SameTurns, SameNodeNumber
  <2>4. Begun(k, j + 1) => Begun(pos[n] - Len(tbuf[n]), Clock(n))'
    BY <1>1, <1>3, <2>3 DEF Begun
  <2>5. CurrentNode(pos[n])' = c
    BY <2>3
  <2> QED BY <2>2, <2>4, <2>5 DEF LineNode, IsLine
<1> QED BY <1>2, <1>3

LEMMA SweepLineData ==
  ASSUME IInv, Holds, DataInv, NEW n \in Nodes, SweepLine(n) PROVE DataInv'
<1> DEFINE j == pos[n]
           c == CurrentNode(j)
           to == IF j = Volume THEN "sum" ELSE "signal"
           L == Len(tbuf[0])
<1>1. /\ UNCHANGED <<faults, lay, save, pos, file>> /\ Nodes' = Nodes
      /\ at[n] = "sweep" /\ save = "serial" /\ at' = [at EXCEPT ![n] = to]
  BY SameNodeNumber DEF SweepLine, machine
<1>2. \/ ~Retires(n, j) /\ UNCHANGED <<tbuf, lbuf, blen, where, chan, out>>
      \/ /\ Retires(n, j) /\ n /= 0
         /\ chan' = Sent(n, 0, [kind |-> "line", links |-> tbuf[n]])
         /\ tbuf' = [tbuf EXCEPT ![n] = <<>>]
         /\ UNCHANGED <<lbuf, blen, where, out>>
      \/ /\ Retires(n, j) /\ n = 0 /\ c = 0 /\ Flush(tbuf[0]) /\ chan' = chan
         /\ tbuf' = [tbuf EXCEPT ![n] = <<>>]
      \/ /\ Retires(n, j) /\ n = 0 /\ c /= 0 /\ Arrived(c, 0)
         /\ Flush(Head(chan[c][0]).links) /\ chan' = Received(c, 0)
         /\ tbuf' = [tbuf EXCEPT ![n] = <<>>]
  BY DEF SweepLine
<1> SUFFICES ASSUME ~faults PROVE SavedInv' /\ OrderInv' /\ TurnInv' /\ LinesInv'
  BY <1>1 DEF DataInv
<1>3. /\ 0 \in Nodes /\ lay \in Layouts /\ j \in 0 .. Volume /\ j \in Nat /\ ChanType /\ Types
      /\ BufferTypes /\ FileTypes /\ SavedInv /\ Volume \in Nat \ {0} /\ at[n] \in BeforeSum
      /\ \A m \in Nodes : at'[m] = IF m = n THEN to ELSE at[m]
  <2>1. lay \in Layouts /\ j \in 0 .. Volume /\ ChanType /\ Types
    BY DEF IInv, Types
  <2>2. 0 \in Nodes
    BY <2>1, LayoutFacts
  <2> QED BY <1>1, <2>1, <2>2, SizeAssumption DEF IInv, Types, Holds, DataInv, BeforeSum
<1>4. /\ Saving /\ LineInv /\ SweepInv /\ LinesInv /\ SweptInv
      /\ (\A m \in Nodes : LineNode(m)) /\ (\A m \in Nodes : at[m] \in {"sweep", "signal", "sum"})
  <2>1. \A m \in Nodes : at[m] \in BeforeSum \union {"sum"}
    BY <1>1 DEF IInv, Barriers, BeforeSum
  <2>2. \A m \in Nodes : at[m] \notin {"list", "turn"}
    BY <1>1 DEF IInv, StageInv
  <2>3. Saving /\ LineInv /\ SweepInv
    BY <1>1, <2>1 DEF IInv, SerialInv, Saving
  <2> QED BY <1>1, <2>1, <2>2, <2>3 DEF DataInv, LinesInv, BeforeSum
<1>5. /\ Sweeps(n) /\ to \in {"signal", "sum"}
      /\ n /= 0 /\ Retires(n, j) => chan' = Sent(n, 0, [kind |-> "line", links |-> tbuf[n]])
      /\ (Retires(n, j) <=> tbuf[n] /= <<>> /\ Turn(j))
      /\ tbuf'[n] = IF Retires(n, j) THEN <<>> ELSE tbuf[n]
      /\ \A m \in Nodes : m /= n => tbuf'[m] = tbuf[m]
  <2>1. DOMAIN tbuf = Nodes
    BY <1>3 DEF Types
  <2>2. Retires(n, j) <=> tbuf[n] /= <<>> /\ Turn(j)
    BY DEF Retires, Turn
  <2> HIDE DEF c
  <2> QED BY <1>2, <2>1, <2>2 DEF Sweeps, c
<1> HIDE DEF to
<1>6. SweptInv' /\ LineNode(n)'
  <2> HIDE DEF j
  <2>1. to /= "sweep"
    BY <1>5
  <2> QED BY <1>1, <1>3, <1>4, <1>5, <2>1, SweepsSwept, SweepsLine DEF j
<1>7. ASSUME NEW m \in Nodes, m /= n PROVE LineNode(m)'
  <2>1. LineNode(m) /\ at'[m] = at[m] /\ tbuf'[m] = tbuf[m] /\ pos'[m] = pos[m]
    BY <1>1, <1>3, <1>4, <1>5, <1>7
  <2>2. \A k : Turn(k)' = Turn(k) /\ CurrentNode(k)' = CurrentNode(k)
    BY <1>1, SameTurns, SameNodeNumber
  <2> QED BY <2>1, <2>2 DEF LineNode, IsLine, Begun, Clock
<1>8. L \in Nat /\ (n = 0 => Put(0) + L = j /\ (L = 0 <=> tbuf[0] = <<>>))
  <2>1. Listed(tbuf[0])
    BY <1>3 DEF Types
  <2>2. L \in Nat /\ (L = 0 <=> tbuf[0] = <<>>)
    BY <2>1, ListedLen
  <2> QED BY <1>1, <1>3, <1>4, <2>2 DEF LinesInv
<1>9. ASSUME n = 0, Retires(n, j)
      PROVE  \E sites \in Seq(Values) : /\ Flush(sites) /\ Len(sites) = L /\ L <= Nx
                                        /\ IsLine(sites, Put(0))
  <2>1. L /= 0 /\ L \in Nat /\ Put(0) = j - L /\ Len(tbuf[0]) <= Nx /\ Turn(j)
    <3>1. L /= 0 /\ L \in Nat /\ Put(0) + L = j /\ Turn(j)
      BY <1>5, <1>8, <1>9
    <3>2. Put(0) \in Int
      BY <1>3 DEF Put, BufferTypes
    <3>3. Len(tbuf[0]) <= Nx
      BY <1>3 DEF Holds, Filling
    <3> HIDE DEF L, j
    <3> QED BY <1>3, <3>1, <3>2, <3>3
  <2>2. CASE c = 0
    <3>1. Flush(tbuf[0]) /\ tbuf[0] \in Seq(Values)
      BY <1>2, <1>3, <1>9, <2>2 DEF BufferTypes
    <3>2. IsLine(tbuf[0], j - L)
      BY <1>1, <1>3, <1>4, <1>9, <2>2 DEF LineNode
    <3> QED BY <2>1, <3>1, <3>2
  <2>3. CASE c /= 0
    <3> DEFINE q == chan[c][0]
               line == Head(q).links
               P == Lines(c)
    <3>1. Arrived(c, 0) /\ Flush(line)
      BY <1>2, <1>9, <2>3
    <3>2. c \in Nodes /\ j \in P
      <4>1. j - 1 \in Sites /\ c = NodeNumber(j - 1)
        BY <1>3, <2>3 DEF CurrentNode, Sites
      <4>2. c \in Nodes
        BY <1>3, <4>1, NodeOfSite
      <4>3. j \in 1 .. Volume
        BY <1>3, <4>1 DEF Sites
      <4> QED BY <2>1, <4>2, <4>3 DEF Lines
    <3>3. line \in Seq(Values)
      <4>1. AllLinks(q, LineSet)
        BY <1>1, <1>4, <3>2 DEF Holds, LineTypes
      <4> HIDE DEF c
      <4>2. line \in LineSet
        BY <1>3, <3>1, <3>2, <4>1, HeadLinks
      <4> QED BY <4>2 DEF LineSet
    <3>4. SweptLine(line, j)
      <4>1. /\ P \in SUBSET Int /\ Listed(q) /\ q /= <<>> /\ j \in Int /\ Clock(0) = j
            /\ Clock(c) \in Int /\ Balanced(q, j, Clock(c), P)
            /\ \A p \in Between(j, Clock(c), P) : SweptLine(q[Place(j, p, P)].links, p)
        <5>1. Clock(0) = j /\ Clock(c) \in Int
          BY <1>1, <1>3, <1>9, <3>2 DEF Clock, Types
        <5> HIDE DEF j, c
        <5> QED BY <1>3, <1>4, <2>3, <3>1, <3>2, <5>1, TurnsAreNumbers
            DEF SweepInv, SweptInv, ChanType, Arrived
      <4> HIDE DEF q, P, c, j
      <4>2. j \in Between(j, Clock(c), P) /\ Head(q) = q[Place(j, j, P)]
        BY <3>2, <4>1, TakenPlaces
      <4> QED BY <4>1, <4>2
    <3>5. Begun(j - L, j)
      BY <1>1, <1>3, <1>4, <1>9 DEF LineNode, Clock
    <3> HIDE DEF line, L, j
    <3>6. Len(line) = L
      <4> DEFINE M == Len(line)
      <4>1. M \in Nat /\ M /= 0 /\ Begun(j - M, j)
        BY <3>3, <3>4, EmptySeq DEF SweptLine
      <4> HIDE DEF M
      <4>2. j - M < j /\ j - L < j
        BY <1>3, <2>1, <4>1
      <4>3. j - M = j - L
        BY <1>3, <3>5, <4>1, <4>2, OneBeginning
      <4>4. M = L
        BY <1>3, <2>1, <4>1, <4>3
      <4> QED BY <4>4 DEF M
    <3>7. IsLine(line, j - L)
      BY <3>4, <3>6 DEF SweptLine
    <3> QED BY <2>1, <3>1, <3>3, <3>6, <3>7 DEF L
  <2> QED BY <2>2, <2>3
<1>10. \A r : Due(r)' = Due(r)
  BY <1>1 DEF Due
<1>11. ASSUME n = 0, Retires(n, j)
       PROVE  /\ \A m \in Nodes : SavedNode(m)'
              /\ Put(0)' + Len(tbuf'[0]) = pos'[0]
  <2>1. PICK sites \in Seq(Values) : /\ Flush(sites) /\ Len(sites) = L /\ L <= Nx
                                     /\ IsLine(sites, Put(0))
    BY <1>9, <1>11
  <2>2. /\ Adds(0, sites) /\ OnlyNode(0)
        /\ j = Volume => blen'[0] = 0 /\ where'[0] = where[0] + (blen[0] + Len(sites))
    <3> HIDE DEF L
    <3> QED BY <1>3, <1>11, <2>1, FlushAdds DEF j
  <2>3. /\ SavedNode(0) /\ Listed(out[0]) /\ blen[0] \in Nat /\ where[0] \in Nat
        /\ Put(0) = where[0] + blen[0] /\ Put(0) + L = j /\ Until(0) = Volume
        /\ blen[0] + L <= MaxBufLength /\ Len(sites) = L
    <3>1. SavedNode(0) /\ Listed(out[0]) /\ blen[0] \in Nat /\ where[0] \in Nat
      BY <1>3, SizeAssumption DEF SavedInv, FileTypes, BufferTypes
    <3>2. blen[0] <= MaxBufLength - Nx
      BY <1>1, <1>3, <1>11 DEF Holds, Filling
    <3>3. blen[0] + L <= MaxBufLength
      BY <1>8, <2>1, <3>1, <3>2, SizeAssumption
    <3> QED BY <1>1, <1>8, <1>11, <2>1, <3>1, <3>3 DEF Put, Until
  <2> HIDE DEF L
  <2>4. SavedNode(0)' /\ Put(0)' = j
    <3>1. AreDue(0, sites)
      <4> SUFFICES ASSUME NEW k \in 1 .. Len(sites) PROVE sites[k] = Due(Put(0) + k - 1)
        BY DEF AreDue
      <4>1. k \in DOMAIN sites
        OBVIOUS
      <4>2. sites[k] = Put(0) + k - 1
        BY <2>1, <4>1 DEF IsLine
      <4> QED BY <1>1, <4>2 DEF Due
    <3>2. Put(0) + Len(sites) <= Until(0) /\ blen[0] + Len(sites) <= MaxBufLength
      BY <1>3, <2>3
    <3>3. at[0] \in BeforeSum /\ at'[0] \in Writing
      BY <1>3, <1>5, <1>11 DEF Writing
    <3>4. at'[0] \notin BeforeSum => where'[0] = Until(0)
      <4> SUFFICES ASSUME at'[0] \notin BeforeSum PROVE where'[0] = Until(0)
        OBVIOUS
      <4>1. j = Volume
        BY <1>3, <1>11 DEF to, BeforeSum
      <4>2. where[0] + (blen[0] + L) = Put(0) + L
        BY <1>8, <2>3
      <4> QED BY <2>2, <2>3, <4>1, <4>2
    <3>5. UNCHANGED <<lay, save, file>>
      BY <1>1
    <3>6. SavedNode(0)' /\ Put(0)' = Put(0) + Len(sites)
      <4> HIDE DEF j
      <4> QED BY <1>3, <2>2, <2>3, <3>1, <3>2, <3>3, <3>4, <3>5, AddsRight
    <3> QED BY <2>3, <3>6
  <2>5. ASSUME NEW m \in Nodes, m /= 0 PROVE SavedNode(m)'
    <3>1. /\ at'[m] = at[m] /\ where'[m] = where[m] /\ blen'[m] = blen[m] /\ lbuf'[m] = lbuf[m]
          /\ out'[m] = out[m]
      BY <1>3, <1>11, <2>2, <2>5 DEF OnlyNode
    <3>2. SavedNode(m) /\ blen[m] \in Nat /\ where[m] \in Nat
      BY <1>3, SizeAssumption DEF SavedInv, BufferTypes
    <3> HIDE DEF j
    <3> QED BY <1>1, <1>3, <1>10, <3>1, <3>2, KeptNode
  <2>6. Put(0)' + Len(tbuf'[0]) = pos'[0]
    BY <1>1, <1>3, <1>5, <1>11, <2>4, EmptyListed
  <2> QED BY <2>4, <2>5, <2>6
<1>12. ASSUME ~(n = 0 /\ Retires(n, j))
       PROVE  /\ \A m \in Nodes : SavedNode(m)'
              /\ at'[0] \in BeforeSum => Put(0)' + Len(tbuf'[0]) = pos'[0]
  <2>1. UNCHANGED <<lbuf, blen, where, out>>
    BY <1>2, <1>12
  <2>2. ASSUME NEW m \in Nodes PROVE SavedNode(m)'
    <3>1. SavedNode(m) /\ blen[m] \in Nat /\ where[m] \in Nat
      BY <1>3, SizeAssumption DEF SavedInv, BufferTypes
    <3>2. \/ at'[m] = at[m]
          \/ /\ at[m] \in BeforeSum /\ at'[m] \in Writing
             /\ at'[m] \in BeforeSum \/ Until(m) <= where[m]
      <4>1. CASE m /= n
        BY <1>3, <4>1
      <4>2. CASE m = n /\ to = "signal"
        BY <1>3, <4>2 DEF Writing, BeforeSum
      <4>3. CASE m = n /\ to = "sum"
        <5>1. j = Volume
          BY <4>3 DEF to
        <5>2. n /= 0
          <6> SUFFICES ASSUME n = 0 PROVE FALSE
            OBVIOUS
          <6>1. HasLine(0, Volume) /\ Turn(Volume)
            BY <1>3 DEF HasLine, Turn
          <6>2. tbuf[0] /= <<>>
            BY <1>1, <1>3, <1>4, <5>1, <6>1 DEF LineInv
          <6> QED BY <1>5, <1>12, <5>1, <6>1, <6>2
        <5>3. Until(n) = 0
          BY <1>1, <5>2 DEF Until
        <5> QED BY <1>3, <3>1, <4>3, <5>3 DEF Writing
      <4> QED BY <1>5, <4>1, <4>2, <4>3
    <3> HIDE DEF j
    <3> QED BY <1>1, <1>3, <1>10, <2>1, <3>1, <3>2, KeptNode
  <2>3. ASSUME at'[0] \in BeforeSum PROVE Put(0)' + Len(tbuf'[0]) = pos'[0]
    <3>1. tbuf'[0] = tbuf[0] /\ Put(0)' = Put(0) /\ pos'[0] = pos[0]
      BY <1>1, <1>3, <1>5, <1>12, <2>1 DEF Put
    <3>2. at[0] \in BeforeSum
      BY <1>3, <2>3
    <3> QED BY <1>4, <3>1, <3>2, <1>1 DEF LinesInv
  <2> QED BY <2>2, <2>3
<1>13. SavedInv' /\ (at'[0] \in BeforeSum => Put(0)' + Len(tbuf'[0]) = pos'[0])
  BY <1>1, <1>11, <1>12 DEF SavedInv
<1>14. TurnInv'
  <2> SUFFICES ASSUME NEW m \in Nodes PROVE TurnNode(m)'
    BY <1>1 DEF TurnInv
  <2>1. TurnNode(m) /\ at'[m] \notin {"list", "turn"}
    BY <1>3, <1>4, <1>5 DEF DataInv, TurnInv
  <2> QED BY <1>1, <2>1, KeptTurn
<1>15. LinesInv'
  <2>1. \A m \in Nodes : LineNode(m)'
    BY <1>6, <1>7
  <2> QED BY <1>1, <1>6, <1>13, <2>1 DEF LinesInv
<1>16. OrderInv'
  BY <1>1 DEF OrderInv
<1> QED BY <1>13, <1>14, <1>15, <1>16

LEMMA SignalNewNodeData ==
  ASSUME IInv, Holds, DataInv, NEW n \in Nodes, SignalNewNode(n) PROVE DataInv'
<1> DEFINE j == pos[n]
           new == NodeNumber(j)
           mine == IF n = new THEN <<j>> ELSE IF n = 0 THEN <<None>> ELSE <<>>
           k == j - Len(tbuf[n])
           b == tbuf'[n]
<1>1. /\ UNCHANGED <<faults, lay, save, lbuf, blen, where, out, file>> /\ Nodes' = Nodes
      /\ at[n] = "signal" /\ save = "serial"
      /\ at' = [at EXCEPT ![n] = "sweep"] /\ pos' = [pos EXCEPT ![n] = @ + 1]
      /\ tbuf' = [tbuf EXCEPT ![n] = @ \o mine]
      /\ Signalled(n)
  BY SameNodeNumber DEF SignalNewNode, machine, Signalled
<1> SUFFICES ASSUME ~faults PROVE SavedInv' /\ OrderInv' /\ TurnInv' /\ LinesInv'
  BY <1>1 DEF DataInv
<1>2. /\ Types /\ BufferTypes /\ lay \in Layouts /\ 0 \in Nodes /\ j \in 0 .. Volume - 1 /\ j \in Nat
      /\ SavedInv /\ (\A m \in Nodes : at[m] \notin {"list", "turn"}) /\ at[n] \in BeforeSum
      /\ Saving /\ LineInv /\ LinesInv /\ SweptInv
      /\ \A m \in Nodes : at'[m] = IF m = n THEN "sweep" ELSE at[m]
      /\ \A m \in Nodes : pos'[m] = IF m = n THEN j + 1 ELSE pos[m]
      /\ \A m \in Nodes : tbuf'[m] = IF m = n THEN tbuf[m] \o mine ELSE tbuf[m]
  <2>1. /\ Types /\ BufferTypes /\ lay \in Layouts /\ j \in 0 .. Volume /\ j < Volume
        /\ Volume \in Nat /\ SavedInv
    BY <1>1, SizeAssumption DEF IInv, Types, StageInv, Holds, DataInv, SavedInv
  <2>2. 0 \in Nodes
    BY <2>1, LayoutFacts
  <2>3. Saving /\ \A m \in Nodes : at[m] \notin {"list", "turn"}
    BY <1>1 DEF IInv, Barriers, BeforeSum, Saving, StageInv
  <2>4. LineInv /\ LinesInv /\ SweptInv
    BY <1>1, <2>3 DEF IInv, SerialInv, DataInv, LinesInv
  <2>5. \A m \in Nodes : /\ at'[m] = IF m = n THEN "sweep" ELSE at[m]
                         /\ pos'[m] = IF m = n THEN j + 1 ELSE pos[m]
                         /\ tbuf'[m] = IF m = n THEN tbuf[m] \o mine ELSE tbuf[m]
    <3> HIDE DEF mine
    <3> QED BY <1>1, <2>1 DEF Types
  <2> HIDE DEF mine
  <2> QED BY <1>1, <2>1, <2>2, <2>3, <2>4, <2>5 DEF BeforeSum
<1>3. \A p : Turn(p)' = Turn(p) /\ CurrentNode(p)' = CurrentNode(p)
  BY <1>1, SameTurns, SameNodeNumber
<1>4. \A m \in Nodes : Clock(m)' = Clock(m)
  BY <1>1, <1>2 DEF Clock
<1>5. SavedInv'
  <2> SUFFICES ASSUME NEW m \in Nodes PROVE SavedNode(m)'
    BY <1>1 DEF SavedInv
  <2>1. SavedNode(m) /\ blen[m] \in Nat /\ where[m] \in Nat
    BY <1>2, SizeAssumption DEF SavedInv, BufferTypes
  <2>2. at'[m] = at[m] \/ (at[m] \in BeforeSum /\ at'[m] \in Writing /\ at'[m] \in BeforeSum)
    BY <1>2 DEF Writing, BeforeSum
  <2>3. \A r : Due(r)' = Due(r)
    BY <1>1 DEF Due
  <2> HIDE DEF j, new, mine
  <2> QED BY <1>1, <1>2, <2>1, <2>2, <2>3, KeptNode
<1>6. /\ Len(tbuf[n]) \in Nat /\ k \in Int
      /\ n \in {0, new} => Len(b) = Len(tbuf[n]) + 1 /\ (j + 1) - Len(b) = k
      /\ n = new => Len(b) = Len(tbuf[n]) + 1 /\ b[Len(tbuf[n]) + 1] = j
                    /\ \A x \in 1 .. Len(tbuf[n]) : b[x] = tbuf[n][x]
      /\ DOMAIN b = 1 .. Len(b)
      /\ DOMAIN tbuf[n] = 1 .. Len(tbuf[n])
  <2>1. tbuf[n] \in Seq(Values) /\ Len(tbuf[n]) \in Nat
    BY <1>2 DEF BufferTypes
  <2>2. mine \in Seq(Values) /\ (n \in {0, new} => Len(mine) = 1) /\ (n = new => mine[1] = j)
    <3>1. j \in Values /\ None \in Values
      BY <1>2 DEF Values, Sites
    <3> HIDE DEF j, new
    <3>2. <<j>> \in Seq(Values) /\ <<None>> \in Seq(Values) /\ <<>> \in Seq(Values)
      BY <3>1
    <3>3. Len(<<j>>) = 1 /\ Len(<<None>>) = 1 /\ <<j>>[1] = j
      OBVIOUS
    <3> QED BY <3>2, <3>3
  <2> HIDE DEF mine, new, j
  <2>3. b = tbuf[n] \o mine
    BY <1>2
  <2>4. /\ Len(b) = Len(tbuf[n]) + Len(mine) /\ DOMAIN b = 1 .. Len(b)
        /\ DOMAIN tbuf[n] = 1 .. Len(tbuf[n]) /\ Len(mine) \in Nat
        /\ \A x \in 1 .. Len(tbuf[n]) : b[x] = tbuf[n][x]
    <3> HIDE DEF b
    <3> QED BY <2>1, <2>2, <2>3
  <2>5. ASSUME Len(mine) = 1 PROVE b[Len(tbuf[n]) + 1] = mine[1]
    <3> HIDE DEF b
    <3>1. Len(tbuf[n]) + 1 \in 1 .. Len(tbuf[n]) + Len(mine)
      BY <2>1, <2>5
    <3>2. (Len(tbuf[n]) + 1) - Len(tbuf[n]) = 1 /\ Len(tbuf[n]) + 1 > Len(tbuf[n])
      BY <2>1
    <3> QED BY <2>1, <2>2, <2>3, <3>1, <3>2, ConcatProperties
  <2> HIDE DEF b
  <2>6. k \in Int
    BY <1>2, <2>1
  <2>7. n \in {0, new} => Len(b) = Len(tbuf[n]) + 1 /\ (j + 1) - Len(b) = k
    <3> SUFFICES ASSUME n \in {0, new} PROVE Len(b) = Len(tbuf[n]) + 1 /\ (j + 1) - Len(b) = k
      OBVIOUS
    <3>1. Len(mine) = 1
      BY <2>2
    <3>2. Len(b) = Len(tbuf[n]) + 1
      BY <2>4, <3>1
    <3>3. j \in Nat
      BY <1>2
    <3> QED BY <2>1, <3>2, <3>3
  <2> QED BY <2>1, <2>2, <2>4, <2>5, <2>6, <2>7
<1>7. LineNode(n)'
  <2>1. /\ CurrentNode(pos[n])' = new /\ Clock(n) = j + 1 /\ pos'[n] = j + 1 /\ Clock(n)' = j + 1
    <3>1. CurrentNode(j + 1) = new
      BY <1>2 DEF CurrentNode
    <3>2. Clock(n) = j + 1
      BY <1>1 DEF Clock
    <3> QED BY <1>2, <1>3, <1>4, <3>1, <3>2
  <2>2. ASSUME n \in {0, new} PROVE Begun(k, j + 1) /\ (n = new => IsLine(tbuf[n], k))
    <3>1. CASE n \in {0, CurrentNode(j)}
      <4>1. Begun(k, j + 1) /\ (n = CurrentNode(j) => IsLine(tbuf[n], k))
        BY <1>1, <1>2, <2>1, <3>1 DEF LinesInv, LineNode
      <4>2. ASSUME n = new, n /= CurrentNode(j) PROVE IsLine(tbuf[n], k)
        <5>1. Turn(j)
          BY <1>2, <4>2 DEF Turn
        <5>2. tbuf[n] = <<>>
          BY <1>1, <1>2, <5>1 DEF LineInv
        <5> QED BY <5>2 DEF IsLine
      <4> QED BY <4>1, <4>2
    <3>2. CASE n \notin {0, CurrentNode(j)}
      <4>1. Turn(j)
        BY <1>2, <2>2, <3>2 DEF Turn
      <4>2. tbuf[n] = <<>>
        BY <1>1, <1>2, <4>1 DEF LineInv
      <4>3. k = j
        BY <1>2, <4>2, EmptyListed
      <4>4. Begun(j, j + 1)
        <5> HIDE DEF j
        <5> QED BY <1>2, <4>1, BegunNext
      <4> HIDE DEF k, j, new
      <4> QED BY <4>2, <4>3, <4>4 DEF IsLine
    <3> QED BY <3>1, <3>2
  <2>3. n \in {0, new} => Begun((j + 1) - Len(b), j + 1)
    <3> HIDE DEF b, k, j, new
    <3> QED BY <1>6, <2>2
  <2>4. n = new => IsLine(b, (j + 1) - Len(b))
    <3> SUFFICES ASSUME n = new, NEW x \in DOMAIN b PROVE b[x] = ((j + 1) - Len(b)) + x - 1
      BY DEF IsLine
    <3>1. IsLine(tbuf[n], k) /\ (j + 1) - Len(b) = k /\ k = j - Len(tbuf[n])
      BY <1>6, <2>2
    <3>5. /\ j \in Nat /\ Len(tbuf[n]) \in Nat /\ b[Len(tbuf[n]) + 1] = j
          /\ x \in 1 .. Len(tbuf[n]) + 1
          /\ \A y \in 1 .. Len(tbuf[n]) : b[y] = tbuf[n][y] /\ y \in DOMAIN tbuf[n]
      BY <1>2, <1>6
    <3> HIDE DEF b, j, new, k
    <3>2. CASE x \in 1 .. Len(tbuf[n])
      <4>1. b[x] = k + x - 1
        BY <3>1, <3>2, <3>5 DEF IsLine
      <4> QED BY <3>1, <4>1
    <3>3. CASE x = Len(tbuf[n]) + 1
      <4>1. b[x] = j /\ k + x - 1 = j
        BY <3>1, <3>3, <3>5
      <4> QED BY <3>1, <4>1
    <3>4. x \in 1 .. Len(tbuf[n]) \/ x = Len(tbuf[n]) + 1
      BY <3>5
    <3> QED BY <3>2, <3>3, <3>4
  <2>5. Begun((j + 1) - Len(b), j + 1) => Begun(pos[n] - Len(tbuf[n]), Clock(n))'
    BY <1>3, <2>1 DEF Begun
  <2>6. IsLine(b, (j + 1) - Len(b)) => IsLine(tbuf[n], pos[n] - Len(tbuf[n]))'
    BY <2>1 DEF IsLine
  <2> HIDE DEF b, j, new, k
  <2> QED BY <2>1, <2>3, <2>4, <2>5, <2>6 DEF LineNode
<1>8. ASSUME NEW m \in Nodes, m /= n PROVE LineNode(m)'
  <2>1. LineNode(m) /\ at'[m] = at[m] /\ tbuf'[m] = tbuf[m] /\ pos'[m] = pos[m] /\ Clock(m)' = Clock(m)
    BY <1>1, <1>2, <1>4, <1>8 DEF LinesInv
  <2> QED BY <1>3, <2>1 DEF LineNode, IsLine, Begun
<1>9. at'[0] \in BeforeSum => Put(0)' + Len(tbuf'[0]) = pos'[0]
  <2> SUFFICES ASSUME at'[0] \in BeforeSum PROVE Put(0)' + Len(tbuf'[0]) = pos'[0]
    OBVIOUS
  <2>1. Put(0)' = Put(0) /\ Put(0) \in Nat
    BY <1>1, <1>2, SizeAssumption DEF Put, BufferTypes
  <2>2. Put(0) + Len(tbuf[0]) = pos[0]
    <3>1. at[0] \in BeforeSum
      BY <1>2
    <3> QED BY <1>1, <1>2, <3>1 DEF LinesInv
  <2>3. CASE n = 0
    <3>1. Len(b) = Len(tbuf[n]) + 1
      BY <1>6, <2>3
    <3>2. Put(0) + Len(tbuf[n]) = j /\ pos'[0] = j + 1
      BY <1>2, <2>2, <2>3
    <3> HIDE DEF b, j
    <3>3. Put(0) + Len(b) = j + 1
      BY <1>2, <1>6, <2>1, <3>1, <3>2
    <3> QED BY <2>1, <2>3, <3>2, <3>3 DEF b
  <2>4. CASE n /= 0
    BY <1>2, <2>1, <2>2, <2>4
  <2> QED BY <2>3, <2>4
<1>10. SweptInv'
  <2>1. \A m \in Nodes : Lines(m)' = Lines(m)
    BY <1>1, SameTurns
  <2>2. \A s, d \in Nodes : d = 0 \/ s /= 0 => chan'[s][d] = chan[s][d]
    <3>1. pos[n] < Volume
      BY <1>2, SizeAssumption
    <3> QED BY <1>1, <1>2, <3>1, SignalledChan
  <2>3. \A line, p : SweptLine(line, p)' = SweptLine(line, p)
    BY <1>3 DEF SweptLine, IsLine, Begun
  <2> QED BY <1>1, <1>2, <1>4, <2>1, <2>2, <2>3 DEF SweptInv, Between, Place
<1>11. LinesInv'
  <2>1. \A m \in Nodes : LineNode(m)'
    BY <1>7, <1>8
  <2> QED BY <1>1, <1>9, <1>10, <2>1 DEF LinesInv
<1>12. TurnInv'
  <2> SUFFICES ASSUME NEW m \in Nodes PROVE TurnNode(m)'
    BY <1>1 DEF TurnInv
  <2>1. TurnNode(m) /\ at'[m] \notin {"list", "turn"}
    BY <1>2 DEF DataInv, TurnInv
  <2> QED BY <1>1, <2>1, KeptTurn
<1>13. OrderInv'
  BY <1>1 DEF OrderInv
<1> QED BY <1>5, <1>11, <1>12, <1>13

LEMMA NextData ==
  IInv /\ Fits /\ Holds /\ DataInv /\ [Next]_vars => DataInv'
<1> SUFFICES ASSUME IInv, Fits, Holds, DataInv, [Next]_vars PROVE DataInv'
  OBVIOUS
<1>1. CASE UNCHANGED vars
  <2>1. /\ UNCHANGED <<faults, lay, save, at, pos, tbuf, lbuf, blen, where, chan, out, file>>
        /\ Nodes' = Nodes
    BY <1>1, SameNodeNumber DEF vars, nodevars, machine
  <2> SUFFICES ASSUME ~faults PROVE SavedInv' /\ OrderInv' /\ TurnInv' /\ LinesInv'
    BY <2>1 DEF DataInv
  <2>2. SavedInv'
    <3> SUFFICES ASSUME NEW m \in Nodes PROVE SavedNode(m)'
      BY <2>1 DEF SavedInv
    <3>1. SavedNode(m) /\ blen[m] \in Nat /\ where[m] \in Nat /\ lay \in Layouts
      BY SizeAssumption DEF DataInv, SavedInv, Holds, BufferTypes, IInv, Types
    <3>2. \A r : Due(r)' = Due(r)
      BY <2>1 DEF Due
    <3> QED BY <2>1, <3>1, <3>2, KeptNode
  <2>3. TurnInv'
    <3> SUFFICES ASSUME NEW m \in Nodes PROVE TurnNode(m)'
      BY <2>1 DEF TurnInv
    <3> QED BY <2>1, KeptTurn DEF DataInv, TurnInv
  <2>4. OrderInv' /\ LinesInv'
    BY <2>1, KeptOrder, KeptLines DEF DataInv
  <2> QED BY <2>2, <2>3, <2>4
<1>2. ASSUME NEW n \in Nodes, SaveStep(n) PROVE DataInv'
  BY <1>2, SweepLineData, SignalNewNodeData, ParallelTurnData, WriteListData,
     CheckpointSiteData, EndTurnsData, LateData DEF SaveStep
<1>3. ASSUME NEW n \in Nodes, LoadStep(n) PROVE DataInv'
  BY <1>3, LateData
<1>4. ASSUME NEW n \in Nodes, WriteBack(n) PROVE DataInv'
  BY <1>4, WriteBackData
<1>5. ASSUME NEW l \in Layouts, NewJob(l) PROVE DataInv'
  BY <1>5, NewJobData
<1> QED BY <1>1, <1>2, <1>3, <1>4, <1>5 DEF Next

-----------------------------------------------------------------------------
(* Where the sites come from.                                              *)

(* The rank that is read in turn p, the node that reads it, and the turns  *)
(* in which s reads a site of d.                                           *)
DealRank(p) == IF load = "serial" THEN p ELSE RankAt(p, LoadBlock)
Dealer(p)   == IF load = "serial" THEN 0 ELSE RankAt(p, LoadBlock) \div SitesOnNode
Taker(p)    == NodeNumber(list[DealRank(p)])
Dealings(s, d) == {p \in 0 .. Volume - 1 : s /= d /\ Dealer(p) = s /\ Taker(p) = d}

(* What is saved are sites, and the list of sites that node 0 has read is  *)
(* what is saved.                                                          *)
Loading == {"load", "deal", "check", "over"}
ListRight ==
  /\ (\A n \in Nodes : at[n] /= "list") => \A r \in Sites : Due(r) \in Sites
  /\ at[0] \in Loading => \A r \in Sites : list[r] = Due(r)

(* Node n has made the turns of its ranks before g, and has in its buffer  *)
(* the sites of those from g on.                                           *)
FirstRank(n) == IF load = "serial" THEN 0 ELSE n * SitesOnNode
ReadTo(n, p, g) ==
  \A q \in 0 .. Volume - 1 : Dealer(q) = n => (q < p <=> DealRank(q) < g)
Buffered(n, g) ==
  \A i \in where[n] .. blen[n] - 1 : lbuf[n][i] = list[g + (i - where[n])]
ReadsOn(n) == \E g \in 0 .. Volume : FirstRank(n) <= g /\ ReadTo(n, pos[n], g) /\ Buffered(n, g)

(* The sites of the turns it has made are in its lattice.                  *)
Has(n, s) == lat[n][s] = s
LoadNode(n) ==
  /\ at[n] = "load" => where[n] = 0 /\ blen[n] = 0
  /\ at[n] \in {"check", "over"} => pos[n] = Volume
  /\ at[n] \in Dealt => \A p \in 0 .. pos[n] - 1 : Taker(p) = n => Has(n, list[DealRank(p)])
  /\ at[n] = "deal" => ReadsOn(n)

(* What is under way are the sites of the turns that the one has made and  *)
(* the other has not.                                                      *)
DealingsInv ==
  (\E n \in Nodes : at[n] \in Dealt) =>
    \A s, d \in Nodes :
      /\ Balanced(chan[s][d], pos[d], pos[s], Dealings(s, d))
      /\ \A p \in Between(pos[d], pos[s], Dealings(s, d)) :
           chan[s][d][Place(pos[d], p, Dealings(s, d))].links = list[DealRank(p)]

LoadInv == ~faults => ListRight /\ (\A n \in Nodes : LoadNode(n)) /\ DealingsInv

LEMMA Quotient ==
  ASSUME NEW S \in Nat \ {0}, NEW N \in Nat, NEW r \in Nat, r < S * N
  PROVE  r \div S \in 0 .. N - 1
<1> DEFINE a == r \div S
           t == r % S
<1>1. a \in Nat /\ t \in Nat /\ r = a * S + t
  BY DivRem
<1> HIDE DEF a, t
<1> SUFFICES ASSUME N <= a PROVE FALSE
  BY <1>1 DEF a
<1>2. N * S <= a * S
  <2>1. CASE N = a
    BY <1>1, <2>1
  <2>2. CASE N < a
    BY <1>1, <2>2, LessThanOnce
  <2> QED BY <1>1, <2>1, <2>2
<1>3. N * S = S * N /\ a * S \in Nat
  BY <1>1
<1> QED BY <1>1, <1>2, <1>3

(* A site is on one node only, as there are as many sites as places.       *)
LEMMA OneOwner ==
  ASSUME lay \in Layouts, NEW n \in Nodes, NEW i \in DOMAIN lay[n],
         NEW m \in Nodes, NEW j \in DOMAIN lay[m], lay[n][i] = lay[m][j]
  PROVE  n = m
<1> DEFINE S == SitesOnNode
           f == [k \in Sites |-> lay[k \div S][(k % S) + 1]]
<1>1. /\ S \in Nat \ {0} /\ Volume \in Nat
      /\ \A k \in Nodes : k \in Nat /\ lay[k] \in Seq(Sites) /\ DOMAIN lay[k] = 1 .. S
  <2>1. S \in Nat \ {0}
    BY RankLimits
  <2>2. Volume \in Nat
    BY SizeAssumption
  <2>3. \A k \in Nodes : k \in Nat
    BY LayoutFacts
  <2>4. \A k \in Nodes : lay[k] \in Seq(Sites) /\ DOMAIN lay[k] = 1 .. S
    BY NodeLists
  <2> HIDE DEF S
  <2> QED BY <2>1, <2>2, <2>3, <2>4
<1>2. ASSUME NEW k \in Sites
      PROVE  k \div S \in Nodes /\ (k % S) + 1 \in 1 .. S
  <2> DEFINE N == Cardinality(Nodes)
             r == k % S
  <2>1. /\ k \in Nat /\ k < S * N /\ N \in Nat /\ S \in Nat \ {0}
        /\ Nodes = 0 .. N - 1
    BY <1>1, LayoutFacts, SizeAssumption DEF Sites
  <2> HIDE DEF S, N
  <2>2. r \in Nat /\ r < S /\ k \div S \in 0 .. N - 1
    BY <2>1, DivRem, Quotient
  <2> HIDE DEF r
  <2>3. r + 1 \in 1 .. S
    BY <2>1, <2>2
  <2> QED BY <2>1, <2>2, <2>3 DEF r
<1>3. ASSUME NEW a \in Nodes, NEW r \in 1 .. S
      PROVE  a * S + (r - 1) \in Sites /\ f[a * S + (r - 1)] = lay[a][r]
  <2> DEFINE x == a * S
             k == x + (r - 1)
  <2>1. x \in Nat /\ x + S <= Volume
    BY <1>1, LayoutRanks DEF Nodes, SitesOnNode
  <2> HIDE DEF x, S
  <2>2. r - 1 \in Nat /\ r - 1 < S /\ k \in Sites
    BY <1>1, <2>1, <1>3 DEF Sites
  <2> DEFINE t == r - 1
  <2>3. t \in Nat /\ t < S /\ t + 1 = r
    BY <2>2, <1>3, <1>1
  <2> HIDE DEF t
  <2>4. (a * S + t) \div S = a /\ (a * S + t) % S = t
    BY <1>1, <2>3, DivRemUnique
  <2>5. k \div S = a /\ (k % S) + 1 = r
    BY <2>3, <2>4 DEF x, t
  <2> HIDE DEF k
  <2>6. f[k] = lay[a][r]
    BY <2>2, <2>5
  <2> QED BY <2>2, <2>6 DEF k, x
<1>4. f \in [Sites -> Sites]
  <2> SUFFICES ASSUME NEW k \in Sites PROVE lay[k \div S][(k % S) + 1] \in Sites
    OBVIOUS
  <2> DEFINE a == k \div S
             r == (k % S) + 1
  <2>1. a \in Nodes /\ r \in 1 .. S
    BY <1>2
  <2> HIDE DEF a, r
  <2>2. lay[a][r] \in Sites
    BY <1>1, <2>1
  <2> QED BY <2>2 DEF a, r
<1>5. \A s \in Sites : \E k \in Sites : f[k] = s
  <2> SUFFICES ASSUME NEW s \in Sites PROVE \E k \in Sites : f[k] = s
    OBVIOUS
  <2>1. PICK a \in Nodes : \E r \in DOMAIN lay[a] : lay[a][r] = s
    BY LayoutAssumption DEF Nodes
  <2>2. PICK r \in 1 .. S : lay[a][r] = s
    BY <1>1, <2>1
  <2> HIDE DEF f
  <2> QED BY <1>3, <2>2
<1>6. f \in Injection(Sites, Sites)
  <2> HIDE DEF f
  <2>1. f \in Surjection(Sites, Sites)
    BY <1>4, <1>5 DEF Surjection
  <2>2. IsFiniteSet(Sites)
    BY <1>1, FS_Interval DEF Sites
  <2> QED BY <2>1, <2>2, FS_SurjSameCardinalityImpliesInj
<1>7. \A k, l \in Sites : f[k] = f[l] => k = l
  <2> HIDE DEF f
  <2> QED BY <1>6 DEF Injection, IsInjective
<1> DEFINE k == n * S + (i - 1)
           l == m * S + (j - 1)
<1>8. k \in Sites /\ l \in Sites /\ f[k] = lay[n][i] /\ f[l] = lay[m][j]
  <2> HIDE DEF f
  <2> QED BY <1>1, <1>3
<1>9. k = l
  <2> HIDE DEF f, k, l
  <2> QED BY <1>7, <1>8
<1>10. k \div S = n /\ l \div S = m
  <2> DEFINE t == i - 1
             u == j - 1
  <2>1. t \in Nat /\ t < S /\ u \in Nat /\ u < S
    BY <1>1
  <2> HIDE DEF t, u, S
  <2>2. (n * S + t) \div S = n /\ (m * S + u) \div S = m
    BY <1>1, <2>1, DivRemUnique
  <2> QED BY <2>2 DEF t, u
<1> QED BY <1>9, <1>10

LEMMA HeldIsOwn ==
  ASSUME lay \in Layouts, NEW n \in Nodes, NEW s \in Held(n)
  PROVE  s \in Sites /\ NodeNumber(s) = n
<1>1. PICK i \in DOMAIN lay[n] : lay[n][i] = s
  BY DEF Held
<1>2. s \in Sites
  BY <1>1, NodeLists
<1>3. \A m \in Nodes : (\E j \in DOMAIN lay[m] : lay[m][j] = s) => m = n
  BY <1>1, OneOwner
<1>4. NodeNumber(s) \in Nodes /\ \E j \in DOMAIN lay[NodeNumber(s)] : lay[NodeNumber(s)][j] = s
  BY <1>1 DEF NodeNumber
<1> QED BY <1>2, <1>3, <1>4

-----------------------------------------------------------------------------
(* The turns of dealing out.                                               *)

LEMMA LoadValues ==
  ASSUME Types PROVE load \in {"serial", "parallel"}
BY FormatAssumption DEF Types

LEMMA DealPlace ==
  ASSUME Types, FileTypes, NEW p \in 0 .. Volume - 1
  PROVE  DealRank(p) \in Sites /\ Dealer(p) \in Nodes /\ list[DealRank(p)] \in Sites
         /\ Taker(p) \in Nodes
<1>1. DealRank(p) \in Sites /\ Dealer(p) \in Nodes
  <2>1. lay \in Layouts /\ 0 \in Nodes /\ p \in Sites
    BY LayoutFacts DEF Types, Sites
  <2>2. RankAt(p, LoadBlock) \in Sites /\ RankAt(p, LoadBlock) \div SitesOnNode \in Nodes
    BY <2>1, TurnPlace, SizeAssumption
  <2> QED BY <2>1, <2>2 DEF DealRank, Dealer
<1>2. list[DealRank(p)] \in Sites
  BY <1>1 DEF FileTypes
<1> QED BY <1>1, <1>2, NodeOfSite DEF Types, Taker

LEMMA EveryDeal ==
  ASSUME Types, NEW r \in Sites
  PROVE  \E p \in 0 .. Volume - 1 : DealRank(p) = r
<1>1. CASE load = "serial"
  BY <1>1 DEF DealRank, Sites
<1>2. CASE load /= "serial"
  BY <1>2, EveryTurn, SizeAssumption DEF DealRank, Types
<1> QED BY <1>1, <1>2

LEMMA SameDeals ==
  ASSUME UNCHANGED <<lay, load>>
  PROVE  /\ \A p : DealRank(p)' = DealRank(p) /\ Dealer(p)' = Dealer(p)
         /\ \A n : FirstRank(n)' = FirstRank(n)
         /\ list' = list => /\ \A p : Taker(p)' = Taker(p)
                            /\ \A s, d : Dealings(s, d)' = Dealings(s, d)
<1>1. ASSUME NEW p PROVE DealRank(p)' = DealRank(p) /\ Dealer(p)' = Dealer(p)
  BY SameTurns, SameNodeNumber DEF DealRank, Dealer
<1>2. ASSUME NEW n PROVE FirstRank(n)' = FirstRank(n)
  BY SameNodeNumber DEF FirstRank
<1>3. ASSUME list' = list, NEW p PROVE Taker(p)' = Taker(p)
  BY <1>1, <1>3, SameNodeNumber DEF Taker
<1>4. ASSUME list' = list, NEW s, NEW d PROVE Dealings(s, d)' = Dealings(s, d)
  BY <1>1, <1>3, <1>4 DEF Dealings
<1> QED BY <1>1, <1>2, <1>3, <1>4

(* The last rank that node n reads is the one before this.                 *)
LastRank(n) == IF load = "serial" THEN Volume ELSE n * SitesOnNode + SitesOnNode

LEMMA NextDealt ==
  ASSUME Types, NEW n \in Nodes, NEW p \in 0 .. Volume - 1, Dealer(p) = n,
         NEW g \in Nat, FirstRank(n) <= g, ReadTo(n, p, g)
  PROVE  DealRank(p) = g /\ g < LastRank(n) /\ ReadTo(n, p + 1, g + 1)
<1>1. CASE load = "serial"
  <2>1. /\ n = 0 /\ \A q : Dealer(q) = 0 /\ DealRank(q) = q
        /\ p \in Nat /\ p < Volume /\ Volume \in Nat
    BY <1>1, SizeAssumption DEF Dealer, DealRank
  <2>2. \A q \in 0 .. Volume - 1 : q < p <=> q < g
    BY <2>1 DEF ReadTo
  <2>3. p = g
    <3>1. ~(p < g)
      BY <2>1, <2>2
    <3>2. CASE g < p
      <4>1. g \in 0 .. Volume - 1
        BY <2>1, <3>2
      <4> QED BY <2>2, <3>2, <4>1
    <3> QED BY <2>1, <3>1, <3>2
  <2> QED BY <1>1, <2>1, <2>3 DEF ReadTo, LastRank
<1>2. CASE load /= "serial"
  <2>1. /\ \A q : DealRank(q) = RankAt(q, LoadBlock)
        /\ \A q : Dealer(q) = RankAt(q, LoadBlock) \div SitesOnNode
        /\ FirstRank(n) = n * SitesOnNode /\ lay \in Layouts
        /\ LoadBlock \in Nat \ {0}
    BY <1>2, SizeAssumption DEF DealRank, Dealer, FirstRank, Types
  <2>2. \A q \in 0 .. Volume - 1 :
          RankAt(q, LoadBlock) \div SitesOnNode = n => (q < p <=> RankAt(q, LoadBlock) < g)
    BY <2>1 DEF ReadTo
  <2>3. /\ RankAt(p, LoadBlock) = g /\ g < n * SitesOnNode + SitesOnNode
        /\ \A q \in 0 .. Volume - 1 :
             RankAt(q, LoadBlock) \div SitesOnNode = n
               => (q < p + 1 <=> RankAt(q, LoadBlock) < g + 1)
    BY <2>1, <2>2, NextRank
  <2> QED BY <1>2, <2>1, <2>3 DEF ReadTo, LastRank
<1> QED BY <1>1, <1>2

-----------------------------------------------------------------------------
(* The steps that deal nothing.                                            *)

LEMMA KeptLoadNode ==
  ASSUME UNCHANGED <<lay, load, list>>, NEW m \in Nodes, LoadNode(m),
         pos'[m] = pos[m], lbuf'[m] = lbuf[m], blen'[m] = blen[m], where'[m] = where[m],
         lat'[m] = lat[m],
         \/ at'[m] = at[m] \/ at'[m] \notin Loading
         \/ at[m] \in Dealt /\ at'[m] \in {"check", "over"} /\ pos[m] = Volume
  PROVE  LoadNode(m)'
<1>1. /\ \A p : DealRank(p)' = DealRank(p) /\ Dealer(p)' = Dealer(p) /\ Taker(p)' = Taker(p)
      /\ FirstRank(m)' = FirstRank(m)
  BY SameDeals
<1>2. \A s : Has(m, s)' = Has(m, s)
  BY DEF Has
<1>3. \A g : ReadTo(m, pos[m], g)' = ReadTo(m, pos[m], g) /\ Buffered(m, g)' = Buffered(m, g)
  BY <1>1 DEF ReadTo, Buffered
<1>4. ReadsOn(m)' = ReadsOn(m)
  BY <1>1, <1>3 DEF ReadsOn
<1> QED BY <1>1, <1>2, <1>4 DEF LoadNode, Dealt, Loading

LEMMA KeptDealings ==
  ASSUME UNCHANGED <<lay, load, list, pos, chan>>, DealingsInv,
         (\E n \in Nodes : at'[n] \in Dealt) => \E n \in Nodes : at[n] \in Dealt
  PROVE  DealingsInv'
<1>1. /\ \A p : DealRank(p)' = DealRank(p) /\ \A s, d : Dealings(s, d)' = Dealings(s, d)
      /\ Nodes' = Nodes
  BY SameDeals, SameNodeNumber
<1>2. ASSUME NEW s \in Nodes, NEW d \in Nodes, \E n \in Nodes : at[n] \in Dealt
      PROVE  /\ Balanced(chan[s][d], pos[d], pos[s], Dealings(s, d))'
             /\ \A p \in Between(pos[d], pos[s], Dealings(s, d))' :
                  chan'[s][d][Place(pos[d], p, Dealings(s, d))'].links = list[DealRank(p)]'
  <2>1. Balanced(chan[s][d], pos[d], pos[s], Dealings(s, d))'
    BY <1>1, <1>2 DEF DealingsInv, Balanced
  <2>2. /\ Between(pos[d], pos[s], Dealings(s, d))' = Between(pos[d], pos[s], Dealings(s, d))
        /\ \A p : Place(pos[d], p, Dealings(s, d))' = Place(pos[d], p, Dealings(s, d))
    BY <1>1 DEF Between, Place
  <2>3. \A p \in Between(pos[d], pos[s], Dealings(s, d)) :
          chan[s][d][Place(pos[d], p, Dealings(s, d))].links = list[DealRank(p)]
    BY <1>2 DEF DealingsInv
  <2> QED BY <1>1, <2>1, <2>2, <2>3
<1> QED BY <1>1, <1>2 DEF DealingsInv

LEMMA KeptList ==
  ASSUME lay' = lay, save' = save, list' = list, file'.order = file.order, ListRight,
         \A m \in Nodes : at[m] = "list" => at'[m] = "list",
         at'[0] \in Loading => at[0] \in Loading
  PROVE  ListRight'
<1>1. Nodes' = Nodes /\ \A r : Due(r)' = Due(r)
  BY SameNodeNumber DEF Due
<1> QED BY <1>1 DEF ListRight

(* No node restores.                                                       *)
LEMMA NobodyLoads ==
  ASSUME lay' \in Layouts, \A m \in Nodes' : at'[m] \notin Loading,
         (\A m \in Nodes' : at'[m] /= "list") => \A r \in Sites : Due(r)' \in Sites
  PROVE  LoadInv'
<1>1. 0 \in Nodes'
  BY NodesAre DEF Nodes
<1>2. ListRight'
  BY <1>1 DEF ListRight
<1>3. \A m \in Nodes' : LoadNode(m)'
  BY DEF LoadNode, Loading, Dealt
<1>4. DealingsInv'
  BY DEF DealingsInv, Loading, Dealt
<1> QED BY <1>2, <1>3, <1>4 DEF LoadInv

LEMMA InitLoad == Init => LoadInv
<1> SUFFICES ASSUME Init PROVE LoadInv
  OBVIOUS
<1>1. /\ lay \in Layouts /\ 0 \in Nodes /\ save \in {"serial", "parallel", "checkpoint"}
      /\ \A n \in Nodes : /\ at[n] \notin Loading
                          /\ save = "checkpoint" => at[n] = "list"
  <2>1. lay \in Layouts /\ save \in {"serial", "parallel", "checkpoint"}
    BY FormatAssumption DEF Init
  <2>2. 0 \in Nodes
    BY <2>1, LayoutFacts
  <2> QED BY <2>1, <2>2 DEF Init, Loading
<1>2. ListRight
  BY <1>1 DEF ListRight, Due
<1> QED BY <1>1, <1>2 DEF LoadInv, LoadNode, DealingsInv, Loading, Dealt

LEMMA NewJobLoad ==
  ASSUME IInv, LoadInv, NEW l \in Layouts, NewJob(l) PROVE LoadInv'
<1>1. /\ faults' = faults /\ save' = save /\ file' = file /\ lay' = l
      /\ faults \/ \A n \in Nodes : at[n] = "closed"
      /\ at' = [n \in DOMAIN l |-> "closed"]
  BY DEF NewJob, machine
<1> SUFFICES ASSUME ~faults PROVE LoadInv'
  BY <1>1 DEF LoadInv
<1>2. \A r \in Sites : Due(r)' \in Sites
  BY <1>1 DEF LoadInv, ListRight, Due
<1>3. \A m \in Nodes' : at'[m] \notin Loading
  BY <1>1 DEF Nodes, Loading
<1> QED BY <1>1, <1>2, <1>3, NobodyLoads

(* The steps of a node that saves.                                         *)
LEMMA EarlyLoad ==
  ASSUME IInv, LoadInv, NEW n \in Nodes,
         \/ SweepLine(n) \/ SignalNewNode(n) \/ ParallelTurn(n) \/ CheckpointSite(n)
         \/ EndTurns(n)
  PROVE  LoadInv'
<1>1. /\ faults' = faults /\ save' = save /\ file' = file /\ lay' = lay /\ DOMAIN at = Nodes
      /\ at[n] \in {"sweep", "signal", "turn"} /\ lay \in Layouts
      /\ at' = at \/ \E x \in {"sum", "signal", "sweep"} : at' = [at EXCEPT ![n] = x]
  <2>1. /\ UNCHANGED <<faults, save, file, lay>> /\ at[n] \in {"sweep", "signal", "turn"}
        /\ at' = at \/ \E x \in {"sum", "signal", "sweep"} : at' = [at EXCEPT ![n] = x]
    BY DEF SweepLine, SignalNewNode, ParallelTurn, CheckpointSite, EndTurns, machine
  <2> QED BY <2>1 DEF IInv, Types
<1> SUFFICES ASSUME ~faults PROVE LoadInv'
  BY <1>1 DEF LoadInv
<1>2. \A m \in Nodes : at[m] \in BeforeSum \union {"sum"}
  BY <1>1 DEF IInv, Barriers, BeforeSum
<1>3. Nodes' = Nodes /\ \A r : Due(r)' = Due(r)
  BY <1>1, SameNodeNumber DEF Due
<1>4. \A m \in Nodes' : at'[m] \notin Loading /\ (at[m] = "list" => at'[m] = "list")
  BY <1>1, <1>2, <1>3 DEF Loading, BeforeSum
<1> QED BY <1>1, <1>3, <1>4, NobodyLoads DEF LoadInv, ListRight

(* When the last node has written its list, all ranks have their sites.    *)
LEMMA WriteListLoad ==
  ASSUME IInv, Holds, DataInv, LoadInv, NEW n \in Nodes, WriteList(n) PROVE LoadInv'
<1>1. /\ UNCHANGED <<faults, lay, save>> /\ at[n] = "list" /\ DOMAIN at = Nodes
      /\ (at' = at \/ at' = [at EXCEPT ![n] = "turn"]) /\ lay \in Layouts
  BY DEF WriteList, machine, IInv, Types
<1> SUFFICES ASSUME ~faults PROVE LoadInv'
  BY <1>1 DEF LoadInv
<1>2. /\ Nodes' = Nodes /\ save = "checkpoint" /\ SitesOnNode' = SitesOnNode
      /\ \A m \in Nodes : at[m] \in {"list", "turn", "sum"}
  <2>1. \A m \in Nodes : at[m] \in BeforeSum \union {"sum"}
    BY <1>1 DEF IInv, Barriers, BeforeSum
  <2> QED BY <1>1, <2>1, SameNodeNumber DEF IInv, StageInv, BeforeSum
<1>3. \A m \in Nodes : at'[m] \in {"list", "turn", "sum"}
  BY <1>1, <1>2
<1>4. OrderInv'
  BY <1>1, WriteListData DEF DataInv
<1>5. ASSUME \A m \in Nodes' : at'[m] /= "list", NEW r \in Sites PROVE Due(r)' \in Sites
  <2>1. PICK m \in Nodes : r \in From(m) .. Until(m) - 1
    BY <1>1, EveryRank
  <2> DEFINE S == SitesOnNode
             x == m * S
             i == r - x + 1
  <2>2. /\ From(m) = x /\ Until(m) = x + S /\ S \in Nat /\ x \in Nat
        /\ \A k \in 1 .. S : file'.order[m * S + k - 1] = lay[m][k]
    <3>1. From(m) = x /\ Until(m) = x + S /\ S \in Nat
      BY <1>1, <1>2, RankLimits DEF From, Until
    <3>2. x \in Nat
      BY <1>1, <3>1, RankLimits
    <3>3. \A k \in 1 .. S : file'.order[m * S + k - 1] = lay[m][k]
      BY <1>1, <1>2, <1>3, <1>4, <1>5 DEF OrderInv
    <3> QED BY <3>1, <3>2, <3>3
  <2> HIDE DEF x, S
  <2>3. i \in 1 .. S /\ x + i - 1 = r
    BY <2>1, <2>2
  <2> HIDE DEF i
  <2>4. file'.order[r] = lay[m][i]
    BY <2>2, <2>3 DEF x
  <2>5. lay[m][i] \in Sites
    BY <1>1, <2>3, NodeLists DEF S
  <2> QED BY <1>1, <1>2, <2>4, <2>5 DEF Due
<1>6. \A m \in Nodes' : at'[m] \notin Loading
  BY <1>2, <1>3 DEF Loading
<1> QED BY <1>1, <1>5, <1>6, NobodyLoads

(* The steps from one barrier to the next, and those of stdio.             *)
LEMMA LateLoad ==
  ASSUME IInv, Holds, DataInv, LoadInv, NEW n \in Nodes,
         \/ WriteChecksum(n) \/ CloseFile(n) \/ WriteBack(n) \/ EndDeal(n) \/ ReadChecksum(n)
  PROVE  LoadInv'
<1>1. /\ UNCHANGED <<faults, lay, save, load, pos, lbuf, blen, where, lat, chan, list>>
      /\ DOMAIN at = Nodes /\ lay \in Layouts
      /\ \/ at' = at
         \/ at[n] = "sum" /\ at' = [at EXCEPT ![n] = "close"]
         \/ at[n] = "close" /\ at' = [at EXCEPT ![n] = "closed"]
         \/ at[n] = "deal" /\ pos[n] = Volume /\ at' = [at EXCEPT ![n] = "check"]
         \/ at[n] = "check" /\ at' = [at EXCEPT ![n] = "over"]
  <2>1. DOMAIN at = Nodes /\ lay \in Layouts
    BY DEF IInv, Types
  <2> QED BY <2>1 DEF WriteChecksum, CloseFile, WriteBack, EndDeal, ReadChecksum, machine, nodevars
<1> SUFFICES ASSUME ~faults PROVE LoadInv'
  BY <1>1 DEF LoadInv
<1>2. Nodes' = Nodes /\ ListRight /\ DealingsInv /\ 0 \in Nodes
      /\ \A m \in Nodes : LoadNode(m)
  BY <1>1, SameNodeNumber, LayoutFacts DEF LoadInv
<1>3. file'.order = file.order
  <2>1. CASE WriteBack(n)
    <3> DEFINE w == Head(out[n])
    <3>1. out[n] /= <<>> /\ (faults \/ file' = InFile(file, w))
      BY <2>1 DEF WriteBack
    <3>2. w.part \in {"data", "sum"}
      <4>1. SavedNode(n) /\ Listed(out[n])
        BY DEF DataInv, SavedInv, Holds, FileTypes
      <4>2. 1 \in DOMAIN out[n] /\ w = out[n][1]
        BY <3>1, <4>1, TailElements
      <4> HIDE DEF w
      <4> QED BY <4>1, <4>2 DEF SavedNode, WritesRight, Right
    <3> HIDE DEF w
    <3>3. DOMAIN file = {"data", "order", "sum"}
      BY DEF Holds, FileTypes
    <3> QED BY <3>1, <3>2, <3>3 DEF InFile
  <2>2. CASE ~WriteBack(n)
    BY <2>2 DEF WriteChecksum, CloseFile, EndDeal, ReadChecksum
  <2> QED BY <2>1, <2>2
<1>4. ListRight'
  <2>1. /\ \A m \in Nodes : at[m] = "list" => at'[m] = "list"
        /\ at'[0] \in Loading => at[0] \in Loading
    BY <1>1, <1>2 DEF Loading
  <2> QED BY <1>1, <1>2, <1>3, <2>1, KeptList
<1>5. DealingsInv'
  <2>1. \A m \in Nodes : at'[m] \in Dealt => at[m] \in Dealt
    BY <1>1 DEF Dealt
  <2> QED BY <1>1, <1>2, <2>1, KeptDealings
<1>6. ASSUME NEW m \in Nodes PROVE LoadNode(m)'
  <2>1. \/ at'[m] = at[m] \/ at'[m] \notin Loading
        \/ at[m] \in Dealt /\ at'[m] \in {"check", "over"} /\ pos[m] = Volume
    BY <1>1, <1>2 DEF Loading, Dealt, LoadNode
  <2> QED BY <1>1, <1>2, <2>1, KeptLoadNode
<1> QED BY <1>2, <1>4, <1>5, <1>6 DEF LoadInv

-----------------------------------------------------------------------------
(* The turns of dealing out.                                               *)

(* What is read is what belongs at this rank, and so is what is left in    *)
(* the buffer.                                                             *)
LEMMA ReadsRight ==
  ASSUME BufferTypes, NEW n \in Nodes, NEW g \in Nat, NEW left \in Nat \ {0}, g + left <= Volume,
         \A r \in Sites : file.data[r] = list[r], Buffered(n, g)
  PROVE  LET b == Refilled(n, g, left)
         IN  /\ b.next \in Nat /\ b.buf[b.next] = list[g]
             /\ \A i \in b.next + 1 .. b.len - 1 : b.buf[i] = list[g + (i - b.next)]
<1> DEFINE b   == Refilled(n, g, left)
           M   == MaxBufLength
           len == IF left > M THEN M ELSE left
           read == [k \in 1 .. len |-> file.data[(g + k - 1) % Volume]]
<1>1. /\ M \in Nat \ {0} /\ Volume \in Nat \ {0} /\ where[n] \in Nat /\ blen[n] \in 0 .. M
      /\ DOMAIN lbuf[n] = 0 .. M - 1
  BY SizeAssumption DEF BufferTypes
<1>2. CASE where[n] < blen[n]
  <2>1. b.buf = lbuf[n] /\ b.len = blen[n] /\ b.next = where[n]
    BY <1>2 DEF Refilled
  <2>2. \A i \in where[n] .. blen[n] - 1 : lbuf[n][i] = list[g + (i - where[n])]
    BY DEF Buffered
  <2>3. where[n] \in where[n] .. blen[n] - 1 /\ g + (where[n] - where[n]) = g
    BY <1>1, <1>2
  <2>4. lbuf[n][where[n]] = list[g]
    BY <2>2, <2>3
  <2> HIDE DEF b
  <2>5. b.next \in Nat /\ b.buf[b.next] = list[g]
    BY <1>1, <2>1, <2>4
  <2>6. ASSUME NEW i \in b.next + 1 .. b.len - 1 PROVE b.buf[i] = list[g + (i - b.next)]
    BY <1>1, <2>1, <2>2
  <2> HIDE DEF M, len
  <2> QED BY <2>5, <2>6 DEF b
<1>3. CASE ~(where[n] < blen[n])
  <2>1. b.buf = Loaded(lbuf[n], 0, read) /\ b.len = len /\ b.next = 0
    BY <1>3 DEF Refilled
  <2>2. len \in 1 .. M /\ len <= left
    BY <1>1
  <2> HIDE DEF len
  <2>3. ASSUME NEW i \in 0 .. len - 1 PROVE Loaded(lbuf[n], 0, read)[i] = list[g + i]
    <3>1. /\ i \in 0 .. M - 1 /\ i - 0 + 1 \in 1 .. len /\ i - 0 + 1 = i + 1
          /\ g + (i + 1) - 1 = g + i /\ g + i \in 0 .. Volume - 1
      BY <1>1, <2>2
    <3>2. (g + i) % Volume = g + i
      <4> DEFINE x == g + i
      <4>1. x \in Nat /\ x < Volume
        BY <1>1, <3>1
      <4> HIDE DEF x
      <4>2. (0 * Volume + x) % Volume = x
        BY <1>1, <4>1, DivRemUnique
      <4> QED BY <1>1, <4>1, <4>2 DEF x
    <3>3. read[i + 1] = file.data[g + i]
      BY <3>1, <3>2
    <3>4. Loaded(lbuf[n], 0, read)[i] = read[i + 1]
      <4>1. DOMAIN read = 1 .. len
        OBVIOUS
      <4> HIDE DEF read
      <4> QED BY <1>1, <3>1, <4>1 DEF Loaded
    <3> QED BY <3>1, <3>3, <3>4 DEF Sites
  <2> HIDE DEF b, read
  <2>4. b.buf[0] = list[g]
    <3>1. 0 \in 0 .. len - 1 /\ g + 0 = g
      BY <2>2
    <3> QED BY <2>1, <2>3, <3>1
  <2>5. ASSUME NEW i \in b.next + 1 .. b.len - 1 PROVE b.buf[i] = list[g + (i - b.next)]
    <3>1. i \in 0 .. len - 1 /\ i - b.next = i
      BY <2>1, <2>2
    <3> QED BY <2>1, <2>3, <3>1
  <2>6. b.next \in Nat /\ b.buf[b.next] = list[g]
    BY <2>1, <2>4
  <2>7. \A i \in b.next + 1 .. b.len - 1 : b.buf[i] = list[g + (i - b.next)]
    BY <2>5
  <2> HIDE DEF M, len
  <2> QED BY <2>6, <2>7 DEF b
<1> QED BY <1>2, <1>3

(* A turn of node n in which it reads, sends or keeps these links.         *)
Deal(n, links) ==
  LET rank == DealRank(pos[n])
      src  == Dealer(pos[n])
      dest == Taker(pos[n])
      b    == Refilled(n, rank, LastRank(n) - rank)
  IN  /\ UNCHANGED <<faults, lay, save, load, at, file, list>>
      /\ at[n] = "deal" /\ pos[n] < Volume /\ Moves(n) /\ Trades(n, src, dest)
      /\ \E x : Sends(n, src, dest, Links(x, links))
      /\ lat' = IF n /= dest THEN lat
                ELSE [lat EXCEPT ![n][list[rank]] =
                        IF n = src THEN links ELSE Head(chan[src][n]).links]
      /\ IF n = src THEN links = b.buf[b.next] /\ ReadSite(n, b)
         ELSE UNCHANGED <<lbuf, blen, where>>
FailedDeal(n) ==
  UNCHANGED <<faults, lay, save, load, at, file, list, pos, lbuf, blen, where, lat, chan>>

LEMMA SerialIsDeal ==
  ASSUME IInv, Holds, NEW n \in Nodes, SerialDeal(n)
  PROVE  FailedDeal(n) \/ \E links : Deal(n, links)
<1> DEFINE rank == pos[n]
           s    == list[rank]
           dest == NodeNumber(s)
           b    == Refilled(0, rank, Volume - rank)
           links == b.buf[b.next]
<1>1. /\ load = "serial" /\ at[n] = "deal" /\ rank < Volume
      /\ UNCHANGED <<faults, lay, save, load, at, file, list>>
  BY DEF SerialDeal, machine
<1>2. DealRank(pos[n]) = rank /\ Dealer(pos[n]) = 0 /\ Taker(pos[n]) = dest /\ LastRank(n) = Volume
  BY <1>1 DEF DealRank, Dealer, Taker, LastRank
<1>3. CASE UNCHANGED <<pos, lbuf, blen, where, lat, chan>>
  BY <1>1, <1>3 DEF FailedDeal
<1>4. CASE ~UNCHANGED <<pos, lbuf, blen, where, lat, chan>>
  <2>1. /\ pos' = [pos EXCEPT ![n] = @ + 1]
        /\ \/ /\ n = 0 /\ ReadSite(0, b)
              /\ \/ dest = 0 /\ Keep(0, s, links) /\ chan' = chan
                 \/ dest /= 0 /\ chan' = Sent(0, dest, Links(None, links)) /\ lat' = lat
           \/ /\ n /= 0 /\ n = dest /\ Arrived(0, n) /\ Keep(n, s, Head(chan[0][n]).links)
              /\ chan' = Received(0, n) /\ UNCHANGED <<lbuf, blen, where>>
           \/ n \notin {0, dest} /\ UNCHANGED <<lbuf, blen, where, lat, chan>>
    BY <1>4 DEF SerialDeal, ReadFails
  <2>2. Moves(n)
    BY <1>1, <2>1 DEF Moves
  <2> HIDE DEF rank, s, dest, b, links
  <2>3. Trades(n, 0, dest) /\ Sends(n, 0, dest, Links(None, links))
    BY <2>1 DEF Trades, Sends
  <2>4. lat' = IF n /= dest THEN lat
               ELSE [lat EXCEPT ![n][s] = IF n = 0 THEN links ELSE Head(chan[0][n]).links]
    BY <2>1 DEF Keep
  <2>5. IF n = 0 THEN links = b.buf[b.next] /\ ReadSite(n, b) ELSE UNCHANGED <<lbuf, blen, where>>
    BY <2>1 DEF links
  <2>6. n = 0 => b = Refilled(n, rank, LastRank(n) - rank)
    BY <1>2 DEF b
  <2>7. s = list[rank] /\ pos[n] = rank
    BY DEF s, rank
  <2> QED BY <1>1, <1>2, <2>2, <2>3, <2>4, <2>5, <2>6, <2>7 DEF Deal
<1> QED BY <1>3, <1>4

LEMMA ParallelIsDeal ==
  ASSUME IInv, Fits, Holds, NEW n \in Nodes, ParallelDeal(n)
  PROVE  FailedDeal(n) \/ \E links : Deal(n, links)
<1> DEFINE rank == RankAt(pos[n], LoadBlock)
           src  == rank \div SitesOnNode
           s    == list[rank]
           dest == NodeNumber(s)
           b    == Refilled(n, rank, SitesOnNode - (rank % SitesOnNode))
           links == b.buf[b.next]
           msg  == Head(chan[src][n])
<1>1. /\ load = "parallel" /\ at[n] = "deal" /\ pos[n] < Volume
      /\ UNCHANGED <<faults, lay, save, load, at, file, list>>
  BY DEF ParallelDeal, machine
<1>2. /\ DealRank(pos[n]) = rank /\ Dealer(pos[n]) = src /\ Taker(pos[n]) = dest
      /\ LastRank(n) = n * SitesOnNode + SitesOnNode
  BY <1>1 DEF DealRank, Dealer, Taker, LastRank
<1>3. CASE UNCHANGED <<pos, lbuf, blen, where, lat, chan>>
  BY <1>1, <1>3 DEF FailedDeal
<1>4. CASE ~UNCHANGED <<pos, lbuf, blen, where, lat, chan>>
  <2>1. /\ pos' = [pos EXCEPT ![n] = @ + 1]
        /\ \/ /\ n = src /\ ReadSite(n, b)
              /\ \/ dest = n /\ Keep(n, s, links) /\ chan' = chan
                 \/ dest /= n /\ chan' = Sent(n, dest, Links(s, links)) /\ lat' = lat
           \/ /\ n /= src /\ n = dest /\ Arrived(src, n) /\ chan' = Received(src, n)
              /\ IF NodeNumber(msg.coord) = n THEN Keep(n, msg.coord, msg.links) ELSE lat' = lat
              /\ UNCHANGED <<lbuf, blen, where>>
           \/ n \notin {src, dest} /\ UNCHANGED <<lbuf, blen, where, lat, chan>>
    BY <1>4 DEF ParallelDeal, ReadFails
  <2>2. Moves(n)
    BY <1>1, <2>1 DEF Moves
  <2>3. n /= src /\ n = dest /\ Arrived(src, n) => msg.coord = s
    BY <1>1, FitsMessages DEF MessagesFit
  <2>4. n = src => SitesOnNode - (rank % SitesOnNode) = LastRank(n) - rank
    <3> DEFINE S == SitesOnNode
    <3>1. S \in Nat \ {0} /\ rank \in Nat /\ n \in Nat
      <4>1. lay \in Layouts /\ pos[n] \in 0 .. Volume - 1
        BY <1>1, SizeAssumption DEF IInv, Types
      <4>2. rank \in Sites
        BY <4>1, TurnPlace, SizeAssumption
      <4> QED BY <4>1, <4>2, RankLimits, LayoutFacts DEF Sites
    <3> HIDE DEF rank, S
    <3>2. rank = (rank \div S) * S + (rank % S) /\ rank % S \in Nat
      BY <3>1, DivRem
    <3>3. n = src => rank = n * S + (rank % S)
      BY <3>2 DEF S
    <3> DEFINE x == n * S
               t == rank % S
    <3>4. x \in Nat /\ t \in Nat /\ LastRank(n) = x + S /\ (n = src => rank = x + t)
      BY <1>2, <3>1, <3>2, <3>3 DEF S
    <3> HIDE DEF x, t
    <3> QED BY <3>1, <3>4 DEF t, S
  <2>5. n = src => b = Refilled(n, rank, LastRank(n) - rank)
    BY <2>4
  <2>6. links = b.buf[b.next] /\ s = list[rank] /\ dest = NodeNumber(s)
    OBVIOUS
  <2> HIDE DEF rank, s, dest, b, links, src, msg
  <2>7. Trades(n, src, dest) /\ Sends(n, src, dest, Links(s, links))
    BY <2>1 DEF Trades, Sends
  <2>8. lat' = IF n /= dest THEN lat
               ELSE [lat EXCEPT ![n][s] = IF n = src THEN links ELSE msg.links]
    BY <2>1, <2>3, <2>6 DEF Keep
  <2>9. IF n = src THEN links = b.buf[b.next] /\ ReadSite(n, b) ELSE UNCHANGED <<lbuf, blen, where>>
    BY <2>1, <2>6
  <2> QED BY <1>1, <1>2, <2>2, <2>5, <2>6, <2>7, <2>8, <2>9 DEF Deal, msg
<1> QED BY <1>3, <1>4

(* While a file is dealt out, what it holds is what the list says.         *)
LEMMA DataIsListed ==
  ASSUME IInv, DataInv, LoadInv, ~faults, NEW n \in Nodes, at[n] \in Dealt \union {"load"},
         \E m \in Nodes : at[m] \in Dealt
  PROVE  \A r \in Sites : file.data[r] = list[r]
<1>1. \A m \in Nodes : at[m] \in Dealt \union {"load"}
  BY DEF IInv, Barriers
<1>2. AllAt("closed")
  <2> SUFFICES ASSUME NEW m \in Nodes PROVE Rank(at[m]) >= Rank("closed")
    BY DEF AllAt
  <2>1. at[m] \in {"load", "deal", "check", "over"}
    BY <1>1 DEF Dealt
  <2> QED BY <2>1, StageRanks
<1>3. \A r \in Sites : file.data[r] = Due(r)
  BY <1>2, DataIsSaved DEF DataSaved, Due
<1>4. at[0] \in Loading /\ ListRight
  <2>1. 0 \in Nodes
    BY LayoutFacts DEF IInv, Types
  <2> QED BY <1>1, <2>1 DEF LoadInv, Loading, Dealt
<1> QED BY <1>3, <1>4 DEF ListRight

LEMMA SameReads ==
  ASSUME UNCHANGED <<lay, load, list>>, NEW n
  PROVE  /\ \A g : (\A i \in where'[n] .. blen'[n] - 1 : lbuf'[n][i] = list[g + (i - where'[n])])
                   => Buffered(n, g)'
         /\ \A p, g : pos'[n] = p /\ ReadTo(n, p, g) => ReadTo(n, pos[n], g)'
<1>1. \A p : DealRank(p)' = DealRank(p) /\ Dealer(p)' = Dealer(p)
  BY SameDeals
<1>2. ASSUME NEW p, NEW g, pos'[n] = p, ReadTo(n, p, g) PROVE ReadTo(n, pos[n], g)'
  BY <1>1, <1>2 DEF ReadTo
<1>3. ASSUME NEW g, \A i \in where'[n] .. blen'[n] - 1 : lbuf'[n][i] = list[g + (i - where'[n])]
      PROVE  Buffered(n, g)'
  BY <1>3 DEF Buffered
<1> QED BY <1>2, <1>3

(* A node that has read a site has read that of its turn.                  *)
LEMMA DealReads ==
  ASSUME IInv, Holds, DataInv, LoadInv, ~faults, NEW n \in Nodes, NEW links, Deal(n, links)
  PROVE  /\ Dealer(pos[n]) = n => links = list[DealRank(pos[n])]
         /\ ReadsOn(n)'
<1> DEFINE p == pos[n]
<1>1. /\ UNCHANGED <<lay, load, at, file, list>> /\ at[n] = "deal" /\ p \in 0 .. Volume - 1
      /\ pos'[n] = p + 1 /\ Nodes' = Nodes /\ Types /\ BufferTypes /\ FileTypes
      /\ Volume \in Nat /\ p \in Nat
  BY SizeAssumption, MovesTo, SameNodeNumber DEF Deal, IInv, Types, Holds
<1>2. PICK g \in 0 .. Volume : FirstRank(n) <= g /\ ReadTo(n, p, g) /\ Buffered(n, g)
  BY <1>1 DEF LoadInv, LoadNode, ReadsOn
<1>3. FirstRank(n)' = FirstRank(n)
  BY <1>1, SameDeals
<1>4. CASE Dealer(p) = n
  <2> DEFINE left == LastRank(n) - g
             b == Refilled(n, g, left)
  <2>1. DealRank(p) = g /\ g < LastRank(n) /\ ReadTo(n, p + 1, g + 1)
    BY <1>1, <1>2, <1>4, NextDealt
  <2>2. LastRank(n) \in Nat /\ LastRank(n) <= Volume
    <3> DEFINE S == SitesOnNode
               x == n * S
    <3>1. x \in Nat /\ S \in Nat /\ x + S <= Volume
      <4>1. lay \in Layouts
        BY <1>1 DEF Types
      <4> QED BY <4>1, LayoutRanks DEF Nodes, SitesOnNode
    <3>2. LastRank(n) = IF load = "serial" THEN Volume ELSE x + S
      BY DEF LastRank
    <3> HIDE DEF x, S
    <3> QED BY <1>1, <3>1, <3>2
  <2>3. left \in Nat \ {0} /\ g + left <= Volume /\ g + 1 \in 0 .. Volume /\ g \in Nat
    BY <1>1, <2>1, <2>2
  <2>4. \A r \in Sites : file.data[r] = list[r]
    BY <1>1, DataIsListed DEF Dealt
  <2> HIDE DEF left
  <2>5. /\ b.next \in Nat /\ b.buf[b.next] = list[g]
        /\ \A i \in b.next + 1 .. b.len - 1 : b.buf[i] = list[g + (i - b.next)]
    BY <1>1, <1>2, <2>3, <2>4, ReadsRight
  <2>6. links = b.buf[b.next] /\ ReadSite(n, b)
    BY <1>4, <2>1 DEF Deal, left
  <2> HIDE DEF b
  <2>7. lbuf'[n] = b.buf /\ blen'[n] = b.len /\ where'[n] = b.next + 1
    BY <1>1, <2>6 DEF ReadSite, BufferTypes
  <2>8. ASSUME NEW i \in where'[n] .. blen'[n] - 1
        PROVE  lbuf'[n][i] = list[(g + 1) + (i - where'[n])]
    <3>1. b.buf[i] = list[g + (i - b.next)]
      BY <2>5, <2>7
    <3>2. g + (i - b.next) = (g + 1) + (i - where'[n])
      BY <2>3, <2>5, <2>7
    <3> QED BY <2>7, <3>1, <3>2
  <2>9. Buffered(n, g + 1)'
    BY <1>1, <2>8, SameReads
  <2>10. ReadTo(n, pos[n], g + 1)'
    BY <1>1, <2>1, SameReads
  <2>11. FirstRank(n) <= g + 1
    <3>1. FirstRank(n) \in Int
      <4>1. SitesOnNode \in Nat /\ n \in Nat
        BY <1>1, RankLimits, LayoutFacts DEF Types
      <4>2. n * SitesOnNode \in Nat
        BY <4>1
      <4> QED BY <4>2 DEF FirstRank
    <3> QED BY <1>2, <2>3, <3>1
  <2>12. ReadsOn(n)'
    BY <1>1, <1>3, <2>3, <2>9, <2>10, <2>11 DEF ReadsOn
  <2> QED BY <2>1, <2>5, <2>6, <2>12
<1>5. CASE Dealer(p) /= n
  <2>1. lbuf'[n] = lbuf[n] /\ blen'[n] = blen[n] /\ where'[n] = where[n]
    BY <1>5 DEF Deal
  <2>2. ReadTo(n, p + 1, g)
    <3>1. \A q \in 0 .. Volume - 1 : q < p + 1 <=> q < p \/ q = p
      BY <1>1
    <3> QED BY <1>2, <1>5, <3>1 DEF ReadTo
  <2>3. ReadTo(n, pos[n], g)'
    BY <1>1, <2>2, SameReads
  <2>5. Buffered(n, g)'
    <3>1. \A i \in where'[n] .. blen'[n] - 1 : lbuf'[n][i] = list[g + (i - where'[n])]
      BY <1>2, <2>1 DEF Buffered
    <3> QED BY <1>1, <3>1, SameReads
  <2>4. ReadsOn(n)'
    BY <1>1, <1>2, <1>3, <2>3, <2>5 DEF ReadsOn
  <2> QED BY <1>5, <2>4
<1> QED BY <1>4, <1>5

(* What a node receives in its turn are the links of the site of its turn. *)
LEMMA DealReceives ==
  ASSUME IInv, LoadInv, ~faults, NEW n \in Nodes, NEW links, Deal(n, links),
         n /= Dealer(pos[n]), n = Taker(pos[n])
  PROVE  Head(chan[Dealer(pos[n])][n]).links = list[DealRank(pos[n])]
<1> DEFINE src == Dealer(pos[n])
           P   == Dealings(src, n)
<1>1. /\ at[n] = "deal" /\ Arrived(src, n) /\ pos[n] \in 0 .. Volume - 1 /\ Types
      /\ \A s \in Nodes : pos[s] \in Int /\ Listed(chan[s][n])
  BY SizeAssumption DEF Deal, Trades, IInv, Types, ChanType
<1>2. CASE src \in Nodes
  <2>1. P \in SUBSET Int /\ pos[n] \in P
    BY <1>1, TurnsAreNumbers DEF Dealings
  <2>2. /\ Balanced(chan[src][n], pos[n], pos[src], P)
        /\ \A p \in Between(pos[n], pos[src], P) :
             chan[src][n][Place(pos[n], p, P)].links = list[DealRank(p)]
    BY <1>1, <1>2 DEF LoadInv, DealingsInv, Dealt
  <2> HIDE DEF P, src
  <2>3. /\ pos[n] \in Between(pos[n], pos[src], P)
        /\ Head(chan[src][n]) = chan[src][n][Place(pos[n], pos[n], P)]
    BY <1>1, <1>2, <2>1, <2>2, TakenPlaces DEF Arrived
  <2> QED BY <2>2, <2>3 DEF src
<1>3. src \in Nodes
  <2>1. lay \in Layouts /\ 0 \in Nodes
    BY <1>1, LayoutFacts DEF Types
  <2>2. RankAt(pos[n], LoadBlock) \div SitesOnNode \in Nodes
    BY <1>1, <2>1, TurnPlace, SizeAssumption
  <2> QED BY <2>1, <2>2 DEF Dealer
<1> QED BY <1>2, <1>3

LEMMA DealCarries ==
  ASSUME IInv, LoadInv, ~faults, NEW n \in Nodes, NEW links, Deal(n, links),
         Dealer(pos[n]) = n => links = list[DealRank(pos[n])]
  PROVE  DealingsInv'
<1> DEFINE src  == Dealer(pos[n])
           dest == Taker(pos[n])
<1>1. /\ UNCHANGED <<lay, load, at, list>> /\ Nodes' = Nodes /\ at[n] = "deal" /\ Types
      /\ pos[n] \in 0 .. Volume - 1 /\ Moves(n) /\ Trades(n, src, dest)
  BY SizeAssumption, SameNodeNumber DEF Deal, IInv, Types
<1>2. PICK x : Sends(n, src, dest, Links(x, links))
  BY DEF Deal
<1> DEFINE msg == Links(x, links)
<1>3. \A s, d \in Nodes : \A P \in SUBSET Int :
        /\ s = d => P = {}
        /\ pos[n] \in P <=> s /= d /\ s = src /\ d = dest
        /\ Balanced(chan[s][d], pos[d], pos[s], P)
        => Carried(n, s, d, P, msg) /\ Balanced(chan'[s][d], pos'[d], pos'[s], P)
  <2>1. Types /\ Moves(n) /\ Trades(n, src, dest) /\ Sends(n, src, dest, msg)
    BY <1>1, <1>2
  <2> HIDE DEF dest, src, msg
  <2> SUFFICES ASSUME NEW s \in Nodes, NEW d \in Nodes, NEW P \in SUBSET Int,
                      s = d => P = {},
                      pos[n] \in P <=> s /= d /\ s = src /\ d = dest,
                      Balanced(chan[s][d], pos[d], pos[s], P)
               PROVE  Carried(n, s, d, P, msg) /\ Balanced(chan'[s][d], pos'[d], pos'[s], P)
    OBVIOUS
  <2>2. Carried(n, s, d, P, msg)
    BY <2>1, TradesPlaces
  <2>3. Balanced(chan'[s][d], pos'[d], pos'[s], P)
    BY <2>1, TradesBalanced
  <2> QED BY <2>2, <2>3
<1>4. DealingsInv
  BY DEF LoadInv
<1>5. ASSUME NEW s \in Nodes, NEW d \in Nodes
      PROVE  /\ Balanced(chan'[s][d], pos'[d], pos'[s], Dealings(s, d))
             /\ \A p \in Between(pos'[d], pos'[s], Dealings(s, d)) :
                  chan'[s][d][Place(pos'[d], p, Dealings(s, d))].links = list[DealRank(p)]
  <2> DEFINE P == Dealings(s, d)
  <2>1. P \in SUBSET Int /\ (s = d => P = {})
    BY TurnsAreNumbers DEF Dealings
  <2>2. pos[n] \in P <=> s /= d /\ s = src /\ d = dest
    BY <1>1 DEF Dealings
  <2>3. /\ Balanced(chan[s][d], pos[d], pos[s], P)
        /\ \A p \in Between(pos[d], pos[s], P) :
             chan[s][d][Place(pos[d], p, P)].links = list[DealRank(p)]
    BY <1>1, <1>4 DEF DealingsInv, Dealt
  <2>4. msg.links = links
    BY DEF Links
  <2> HIDE DEF P, src, dest, msg
  <2>5. Carried(n, s, d, P, msg) /\ Balanced(chan'[s][d], pos'[d], pos'[s], P)
    BY <1>3, <2>1, <2>2, <2>3
  <2>6. n = s /\ pos[n] \in P => links = list[DealRank(pos[n])]
    BY <2>2 DEF src
  <2>7. ASSUME NEW p \in Between(pos'[d], pos'[s], P)
        PROVE  chan'[s][d][Place(pos'[d], p, P)].links = list[DealRank(p)]
    BY <2>3, <2>4, <2>5, <2>6, <2>7 DEF Carried
  <2> QED BY <2>5, <2>7 DEF P
<1>6. /\ \A s, d : Dealings(s, d)' = Dealings(s, d)
      /\ \A p : DealRank(p)' = DealRank(p)
  BY <1>1, SameDeals
<1>7. ASSUME NEW s \in Nodes, NEW d \in Nodes
      PROVE  /\ Balanced(chan[s][d], pos[d], pos[s], Dealings(s, d))'
             /\ \A p \in Between(pos[d], pos[s], Dealings(s, d))' :
                  chan'[s][d][Place(pos[d], p, Dealings(s, d))'].links = (list[DealRank(p)])'
  BY <1>1, <1>5, <1>6 DEF Balanced, Between, Place
<1> QED BY <1>1, <1>7 DEF DealingsInv

(* A turn leaves in the lattice what is there, and adds the site of this   *)
(* turn if the node takes it.                                              *)
LEMMA DealKeeps ==
  ASSUME IInv, Holds, LoadInv, ~faults, NEW n \in Nodes, NEW links, Deal(n, links),
         Dealer(pos[n]) = n => links = list[DealRank(pos[n])]
  PROVE  /\ \A s \in Sites : lat[n][s] = s => lat'[n][s] = s
         /\ Taker(pos[n]) = n => LET s == list[DealRank(pos[n])] IN lat'[n][s] = s
         /\ \A m \in Nodes : m /= n => lat'[m] = lat[m]
<1> DEFINE src == Dealer(pos[n])
           s   == list[DealRank(pos[n])]
           v   == IF n = src THEN links ELSE Head(chan[src][n]).links
<1>1. pos[n] \in 0 .. Volume - 1 /\ lat \in [Nodes -> Content] /\ s \in Sites
  <2>1. pos[n] \in 0 .. Volume - 1 /\ lat \in [Nodes -> Content] /\ Types /\ FileTypes
    BY SizeAssumption DEF Deal, IInv, Types, Holds, BufferTypes
  <2> QED BY <2>1, DealPlace
<1>2. /\ Taker(pos[n]) /= n => lat' = lat
      /\ Taker(pos[n]) = n => lat' = [lat EXCEPT ![n][s] = v]
  BY DEF Deal
<1>3. Taker(pos[n]) = n => v = s
  BY DealReceives
<1> HIDE DEF s, v
<1>4. \A t \in Sites : Taker(pos[n]) = n => lat'[n][t] = IF t = s THEN s ELSE lat[n][t]
  BY <1>1, <1>2, <1>3 DEF Content
<1>5. \A m \in Nodes : m /= n => lat'[m] = lat[m]
  BY <1>1, <1>2
<1>6. \A t \in Sites : lat[n][t] = t => lat'[n][t] = t
  BY <1>2, <1>4
<1>7. Taker(pos[n]) = n => lat'[n][s] = s
  BY <1>1, <1>4
<1> QED BY <1>5, <1>6, <1>7 DEF s

LEMMA DealLoad ==
  ASSUME IInv, Holds, DataInv, LoadInv, NEW n \in Nodes, NEW links, Deal(n, links)
  PROVE  LoadInv'
<1>1. /\ UNCHANGED <<faults, lay, save, load, at, file, list>> /\ at[n] = "deal"
      /\ pos[n] \in 0 .. Volume - 1 /\ Volume \in Nat /\ Nodes' = Nodes /\ Types /\ FileTypes
      /\ \A m \in Nodes : pos'[m] = IF m = n THEN pos[m] + 1 ELSE pos[m]
  BY SizeAssumption, MovesTo, SameNodeNumber DEF Deal, IInv, Types, Holds
<1> SUFFICES ASSUME ~faults PROVE LoadInv'
  BY <1>1 DEF LoadInv
<1>2. /\ Dealer(pos[n]) = n => links = list[DealRank(pos[n])]
      /\ ReadsOn(n)'
  BY DealReads
<1>3. DealingsInv'
  BY <1>2, DealCarries
<1>4. ListRight'
  BY <1>1, KeptList DEF LoadInv
<1>5. ASSUME NEW m \in Nodes, m /= n PROVE LoadNode(m)'
  <2>1. LoadNode(m) /\ lat'[m] = lat[m] /\ pos'[m] = pos[m] /\ at'[m] = at[m]
    BY <1>1, <1>2, <1>5, DealKeeps DEF LoadInv
  <2>2. lbuf'[m] = lbuf[m] /\ blen'[m] = blen[m] /\ where'[m] = where[m]
    <3>1. \/ UNCHANGED <<lbuf, blen, where>>
          \/ \E b : ReadSite(n, b)
      BY DEF Deal
    <3> QED BY <1>5, <3>1 DEF ReadSite, Holds, BufferTypes
  <2> QED BY <1>1, <2>1, <2>2, KeptLoadNode
<1>6. LoadNode(n)'
  <2>1. /\ at'[n] = "deal" /\ pos'[n] = pos[n] + 1
        /\ \A p \in 0 .. pos[n] - 1 : Taker(p) = n => Has(n, list[DealRank(p)])
    BY <1>1 DEF LoadInv, LoadNode, Dealt
  <2>2. ASSUME NEW p \in 0 .. pos'[n] - 1, Taker(p) = n
        PROVE  lat'[n][list[DealRank(p)]] = list[DealRank(p)]
    <3>1. CASE p = pos[n]
      BY <1>2, <2>2, <3>1, DealKeeps
    <3>2. CASE p /= pos[n]
      <4>1. p \in 0 .. pos[n] - 1 /\ p \in 0 .. Volume - 1
        BY <1>1, <2>1, <3>2
      <4>2. list[DealRank(p)] \in Sites
        BY <1>1, <4>1, DealPlace
      <4>3. lat[n][list[DealRank(p)]] = list[DealRank(p)]
        BY <2>1, <2>2, <4>1 DEF Has
      <4> QED BY <1>2, <4>2, <4>3, DealKeeps
    <3> QED BY <3>1, <3>2
  <2>3. \A p : DealRank(p)' = DealRank(p) /\ Taker(p)' = Taker(p)
    BY <1>1, SameDeals
  <2>4. \A p \in 0 .. pos'[n] - 1 : Taker(p)' = n => Has(n, list[DealRank(p)])'
    BY <1>1, <2>2, <2>3 DEF Has
  <2> QED BY <1>1, <1>2, <2>4 DEF LoadNode
<1> QED BY <1>1, <1>3, <1>4, <1>5, <1>6 DEF LoadInv

LEMMA FailedDealLoad ==
  ASSUME LoadInv, NEW n \in Nodes, FailedDeal(n) PROVE LoadInv'
<1>1. UNCHANGED <<faults, lay, save, load, at, file, list, pos, lbuf, blen, where, lat, chan>>
      /\ Nodes' = Nodes
  BY SameNodeNumber DEF FailedDeal
<1> SUFFICES ASSUME ~faults PROVE LoadInv'
  BY <1>1 DEF LoadInv
<1>2. ListRight' /\ DealingsInv'
  BY <1>1, KeptList, KeptDealings DEF LoadInv
<1>3. ASSUME NEW m \in Nodes PROVE LoadNode(m)'
  BY <1>1, KeptLoadNode DEF LoadInv
<1> QED BY <1>1, <1>2, <1>3 DEF LoadInv

-----------------------------------------------------------------------------
(* Before the turns of dealing out.                                        *)

LEMMA OpenFileLoad ==
  ASSUME IInv, Holds, LoadInv, NEW n \in Nodes, OpenFile(n) PROVE LoadInv'
<1>1. /\ UNCHANGED <<faults, lay, save, load, lat, lbuf, chan, file>> /\ at[n] = "closed"
      /\ \/ UNCHANGED <<at, list, pos, where, blen>>
         \/ /\ list' = IF n = 0 THEN SiteList ELSE list
            /\ at' = [at EXCEPT ![n] = "load"]
            /\ where' = [where EXCEPT ![n] = 0] /\ blen' = [blen EXCEPT ![n] = 0]
  BY DEF OpenFile, machine
<1>2. /\ Nodes' = Nodes /\ 0 \in Nodes /\ DOMAIN at = Nodes /\ DOMAIN where = Nodes
      /\ DOMAIN blen = Nodes
  BY <1>1, SameNodeNumber, LayoutFacts DEF IInv, Types, Holds, BufferTypes
<1> SUFFICES ASSUME ~faults PROVE LoadInv'
  BY <1>1 DEF LoadInv
<1>3. ListRight /\ DealingsInv /\ \A m \in Nodes : LoadNode(m)
  BY DEF LoadInv
<1>4. CASE UNCHANGED <<at, list, pos, where, blen>>
  <2>1. ListRight' /\ DealingsInv'
    BY <1>1, <1>3, <1>4, KeptList, KeptDealings
  <2>2. ASSUME NEW m \in Nodes PROVE LoadNode(m)'
    BY <1>1, <1>3, <1>4, KeptLoadNode
  <2> QED BY <1>2, <2>1, <2>2 DEF LoadInv
<1>5. CASE /\ list' = IF n = 0 THEN SiteList ELSE list
           /\ at' = [at EXCEPT ![n] = "load"]
           /\ where' = [where EXCEPT ![n] = 0] /\ blen' = [blen EXCEPT ![n] = 0]
  <2>1. \A m \in Nodes : at[m] \notin Dealt /\ at[m] /= "list"
    BY <1>1 DEF IInv, Barriers, Dealt, BeforeSum
  <2>2. \A m \in Nodes : at'[m] = IF m = n THEN "load" ELSE at[m]
    BY <1>2, <1>5
  <2>3. DealingsInv'
    BY <1>2, <2>1, <2>2 DEF DealingsInv, Dealt
  <2>4. ASSUME NEW m \in Nodes PROVE LoadNode(m)'
    <3>1. CASE m = n
      BY <1>2, <1>5, <2>2, <3>1 DEF LoadNode, Dealt
    <3>2. CASE m /= n
      BY <1>3, <1>5, <2>1, <2>2, <3>2 DEF LoadNode, Dealt
    <3> QED BY <3>1, <3>2
  <2>5. \A r : Due(r)' = Due(r)
    BY <1>1 DEF Due
  <2>6. \A r \in Sites : Due(r) \in Sites
    BY <1>3, <2>1 DEF ListRight
  <2>7. ASSUME n = 0, NEW r \in Sites PROVE list'[r] = Due(r)
    <3>1. list'[r] = IF save = "checkpoint" THEN Zero(file.order[r]) ELSE r
      BY <1>5, <2>7 DEF SiteList, NaturalOrder
    <3>2. save = "checkpoint" => Zero(file.order[r]) = file.order[r]
      <4>1. save = "checkpoint" => file.order[r] \in Sites
        BY <2>6 DEF Due
      <4>2. None \notin Sites
        BY SizeAssumption DEF None, Sites
      <4> QED BY <4>1, <4>2 DEF Zero
    <3> QED BY <3>1, <3>2 DEF Due
  <2>8. ASSUME n /= 0, at'[0] \in Loading, NEW r \in Sites PROVE list'[r] = Due(r)
    BY <1>2, <1>3, <1>5, <2>2, <2>8 DEF ListRight
  <2>9. ListRight'
    BY <1>2, <2>5, <2>6, <2>7, <2>8 DEF ListRight
  <2> QED BY <1>2, <2>3, <2>4, <2>9 DEF LoadInv
<1> QED BY <1>1, <1>4, <1>5

LEMMA BeginDealLoad ==
  ASSUME IInv, Holds, LoadInv, NEW n \in Nodes, BeginDeal(n) PROVE LoadInv'
<1>1. /\ UNCHANGED <<faults, lay, save, load, pos, lbuf, blen, where, lat, chan, file, list>>
      /\ at[n] = "load" /\ AllAt("load") /\ at' = [at EXCEPT ![n] = "deal"]
      /\ Nodes' = Nodes /\ Types /\ 0 \in Nodes
  BY SameNodeNumber, LayoutFacts DEF BeginDeal, nodevars, machine, IInv, Types
<1> SUFFICES ASSUME ~faults PROVE LoadInv'
  BY <1>1 DEF LoadInv
<1>2. ListRight /\ DealingsInv /\ (\A m \in Nodes : LoadNode(m)) /\ StageInv /\ QuietInv
  BY DEF LoadInv, IInv
<1>3. \A m \in Nodes : at'[m] = IF m = n THEN "deal" ELSE at[m]
  BY <1>1 DEF Types
<1>4. ListRight'
  <2>1. at'[0] \in Loading => at[0] \in Loading
    BY <1>1, <1>3 DEF Loading
  <2>2. \A m \in Nodes : at[m] = "list" => at'[m] = "list"
    BY <1>1, <1>3
  <2> QED BY <1>1, <1>2, <2>1, <2>2, KeptList
<1>5. pos[n] = 0 /\ where[n] = 0 /\ blen[n] = 0
  BY <1>1, <1>2 DEF LoadNode, StageInv
<1>6. ASSUME NEW m \in Nodes, m /= n PROVE LoadNode(m)'
  BY <1>1, <1>2, <1>3, <1>6, KeptLoadNode
<1>7. ReadTo(n, 0, FirstRank(n)) /\ FirstRank(n) \in 0 .. Volume
  <2> DEFINE S == SitesOnNode
             x == n * S
  <2>1. S \in Nat \ {0} /\ x \in Nat /\ x + S <= Volume /\ Volume \in Nat /\ n \in Nat
    <3>1. lay \in Layouts
      BY <1>1 DEF Types
    <3>2. S \in Nat \ {0} /\ x \in Nat /\ x + S <= Volume
      BY <3>1, LayoutRanks DEF Nodes, SitesOnNode
    <3> QED BY <3>1, <3>2, LayoutFacts, SizeAssumption
  <2>2. ASSUME NEW q \in 0 .. Volume - 1, Dealer(q) = n, load /= "serial"
        PROVE  ~(DealRank(q) < x)
    <3> DEFINE rank == DealRank(q)
    <3>1. lay \in Layouts /\ LoadBlock \in Nat \ {0}
      BY <1>1, SizeAssumption DEF Types
    <3>2. rank \in Nat /\ rank \div S = n
      <4>1. RankAt(q, LoadBlock) \in Sites
        BY <3>1, TurnPlace
      <4> QED BY <2>2, <4>1, <2>1 DEF DealRank, Dealer, Sites
    <3> HIDE DEF rank, S
    <3>3. rank = n * S + (rank % S) /\ rank % S \in Nat
      BY <2>1, <3>2, DivRem
    <3> DEFINE t == rank % S
    <3>4. rank = x + t /\ t \in Nat /\ x \in Nat
      BY <2>1, <3>3
    <3> HIDE DEF x, t
    <3> QED BY <3>4 DEF rank
  <2>3. CASE load = "serial"
    <3>1. FirstRank(n) = 0 /\ \A q : DealRank(q) = q
      BY <2>3 DEF FirstRank, DealRank
    <3> QED BY <2>1, <3>1 DEF ReadTo
  <2>4. CASE load /= "serial"
    <3>1. FirstRank(n) = x
      BY <2>4 DEF FirstRank
    <3> HIDE DEF x, S
    <3>2. x \in 0 .. Volume /\ \A q \in 0 .. Volume - 1 : ~(q < 0)
      BY <2>1
    <3> QED BY <2>2, <2>4, <3>1, <3>2 DEF ReadTo
  <2> QED BY <2>3, <2>4
<1>8. ReadsOn(n)'
  <2>1. PICK g \in 0 .. Volume : g = FirstRank(n)
    BY <1>7
  <2>2. pos'[n] = 0 /\ where'[n] = 0 /\ blen'[n] = 0 /\ FirstRank(n)' = g
    BY <1>1, <1>5, <2>1, SameDeals
  <2>3. ReadTo(n, pos[n], g)'
    BY <1>1, <1>7, <2>1, <2>2, SameReads
  <2>4. Buffered(n, g)'
    <3>1. \A i \in where'[n] .. blen'[n] - 1 : lbuf'[n][i] = list[g + (i - where'[n])]
      BY <2>2
    <3> QED BY <1>1, <3>1, SameReads
  <2>5. g <= g
    BY SizeAssumption
  <2> QED BY <2>2, <2>3, <2>4, <2>5 DEF ReadsOn
<1>9. LoadNode(n)'
  <2>1. pos'[n] = 0 /\ at'[n] = "deal"
    BY <1>1, <1>3, <1>5
  <2> QED BY <1>8, <2>1 DEF LoadNode
<1>10. DealingsInv'
  <2>1. CASE \E m \in Nodes : at[m] \in Dealt
    BY <1>1, <1>2, <2>1, KeptDealings
  <2>2. CASE ~\E m \in Nodes : at[m] \in Dealt
    <3>1. \A m \in Nodes : at[m] = "load"
      BY <1>1, <2>2, BarrierPassed
    <3>2. \A m \in Nodes : pos'[m] = 0
      BY <1>1, <1>2, <3>1 DEF StageInv
    <3>3. \A s, d \in Nodes : chan'[s][d] = <<>>
      BY <1>1, <1>2, <3>1 DEF QuietInv, Idle
    <3>4. \A s, d : Dealings(s, d)' \in SUBSET Int
      BY <1>1, SameDeals, TurnsAreNumbers DEF Dealings
    <3>5. ASSUME NEW s \in Nodes, NEW d \in Nodes
          PROVE  /\ Balanced(chan[s][d], pos[d], pos[s], Dealings(s, d))'
                 /\ Between(pos[d], pos[s], Dealings(s, d))' = {}
      <4> DEFINE P == Dealings(s, d)'
      <4>1. P \in SUBSET Int /\ pos'[s] = 0 /\ pos'[d] = 0 /\ chan'[s][d] = <<>>
        BY <3>2, <3>3, <3>4
      <4> HIDE DEF P
      <4>2. Balanced(chan'[s][d], pos'[d], pos'[s], P) /\ Between(pos'[d], pos'[s], P) = {}
        BY <4>1, NoneYet, NothingYet
      <4> QED BY <4>2 DEF Balanced, Between, P
    <3> QED BY <1>1, <3>5 DEF DealingsInv
  <2> QED BY <2>1, <2>2
<1> QED BY <1>1, <1>4, <1>6, <1>9, <1>10 DEF LoadInv

-----------------------------------------------------------------------------
(* The invariant holds.                                                    *)

LEMMA SameLoad ==
  ASSUME LoadInv, UNCHANGED vars PROVE LoadInv'
<1>1. UNCHANGED <<faults, lay, save, load, at, file, list, pos, lbuf, blen, where, lat, chan>>
  BY DEF vars, nodevars, machine
<1>2. Nodes' = Nodes
  BY <1>1, SameNodeNumber
<1> SUFFICES ASSUME ~faults PROVE LoadInv'
  BY <1>1 DEF LoadInv
<1>3. ListRight' /\ DealingsInv'
  BY <1>1, KeptList, KeptDealings DEF LoadInv
<1>4. ASSUME NEW m \in Nodes PROVE LoadNode(m)'
  BY <1>1, KeptLoadNode DEF LoadInv
<1> QED BY <1>2, <1>3, <1>4 DEF LoadInv

LEMMA NextLoad ==
  IInv /\ Fits /\ Holds /\ DataInv /\ LoadInv /\ [Next]_vars => LoadInv'
<1> SUFFICES ASSUME IInv, Fits, Holds, DataInv, LoadInv, [Next]_vars PROVE LoadInv'
  OBVIOUS
<1>1. CASE UNCHANGED vars
  BY <1>1, SameLoad
<1>2. ASSUME NEW n \in Nodes, SaveStep(n) PROVE LoadInv'
  BY <1>2, EarlyLoad, WriteListLoad, LateLoad DEF SaveStep
<1>3. ASSUME NEW n \in Nodes, SerialDeal(n) \/ ParallelDeal(n) PROVE LoadInv'
  <2>1. FailedDeal(n) \/ \E links : Deal(n, links)
    BY <1>3, SerialIsDeal, ParallelIsDeal
  <2> QED BY <2>1, FailedDealLoad, DealLoad
<1>4. ASSUME NEW n \in Nodes, LoadStep(n) PROVE LoadInv'
  BY <1>3, <1>4, OpenFileLoad, BeginDealLoad, LateLoad DEF LoadStep
<1>5. ASSUME NEW n \in Nodes, WriteBack(n) PROVE LoadInv'
  BY <1>5, LateLoad
<1>6. ASSUME NEW l \in Layouts, NewJob(l) PROVE LoadInv'
  BY <1>6, NewJobLoad
<1> QED BY <1>1, <1>2, <1>4, <1>5, <1>6 DEF Next

(* When all nodes have restored, each has made every turn.                 *)
LEMMA LatticeIsRestored == IInv /\ Holds /\ DataInv /\ LoadInv => LatticeRestored
<1> SUFFICES ASSUME IInv, Holds, DataInv, LoadInv, ~faults, \A n \in Nodes : at[n] = "over",
                    NEW n \in Nodes, NEW s \in Held(n)
             PROVE  lat[n][s] = s
  BY DEF LatticeRestored, RestoredRight
<1>1. Types /\ FileTypes /\ Volume \in Nat /\ lay \in Layouts
  BY SizeAssumption DEF IInv, Types, Holds
<1>2. s \in Sites /\ NodeNumber(s) = n
  BY <1>1, HeldIsOwn
<1>3. AllAt("closed")
  <2>1. \A m \in Nodes : Rank(at[m]) >= Rank("closed")
    BY StageRanks
  <2> QED BY <2>1 DEF AllAt
<1>4. PICK r \in Sites : file.data[r] = s
  BY <1>2, <1>3, DataIsSaved DEF DataSaved
<1>5. list[r] = s
  BY <1>4, DataIsListed DEF Dealt
<1>6. PICK p \in 0 .. Volume - 1 : DealRank(p) = r
  BY <1>1, EveryDeal
<1>7. Taker(p) = n
  BY <1>2, <1>5, <1>6 DEF Taker
<1>8. p \in 0 .. pos[n] - 1
  BY <1>1 DEF LoadInv, LoadNode
<1>9. Has(n, list[DealRank(p)])
  BY <1>7, <1>8 DEF LoadInv, LoadNode, Dealt
<1> QED BY <1>5, <1>6, <1>9 DEF Has

(***************************************************************************)
(* At all times of saving and restoring a file, in every format, w_serial, *)
(* w_parallel, w_checkpoint, r_serial and r_parallel, the invariant holds: *)
(* what is under way between two nodes is what the one has sent in turns   *)
(* that the other has still to make, in that order, nothing is left over   *)
(* from one loop to the next; where a site or a line is put into a buffer  *)
(* there is room for it; and unless a write fails, every rank that a node  *)
(* has gone past is in the file, or on its way there through stdio, and    *)
(* every site it has come to while the file is dealt out is in its         *)
(* lattice.                                                                *)
(***************************************************************************)
THEOREM FileInvariant == Spec => [](IInv /\ Fits /\ Holds /\ DataInv /\ LoadInv)
<1>1. Init => IInv /\ Fits /\ Holds /\ DataInv /\ LoadInv
  BY InitIInv, InitFits, InitHolds, InitData, InitLoad
<1>2. /\ IInv /\ Fits /\ Holds /\ DataInv /\ LoadInv /\ [Next]_vars
      => (IInv /\ Fits /\ Holds /\ DataInv /\ LoadInv)'
  BY NextIInv, NextFits, NextHolds, NextData, NextLoad
<1> QED BY <1>1, <1>2, PTL DEF Spec

(***************************************************************************)
(* The line and file buffers never hold more sites than they have room     *)
(* for, and what they hold are sites or zeros.  The "clear to send" of     *)
(* w_serial keeps all nodes but one from sending to node 0, and the g_sync *)
(* of r_parallel keeps a node from sending another more than a block of    *)
(* sites that have not come; and what w_parallel and r_parallel send is    *)
(* what its receiver has come to in its own loop: no coordinates are       *)
(* "BOTCH".  If no write fails, each of w_serial, w_parallel and           *)
(* w_checkpoint puts every site into the file, in the place that belongs   *)
(* to it, and r_serial and r_parallel give every node, of this job or of   *)
(* one on another layout, the links of its own sites back.                 *)
(***************************************************************************)
THEOREM TrafficIsRight == Spec => []TrafficRight
<1>1. IInv /\ Fits /\ Holds /\ DataInv /\ LoadInv => TrafficRight
  BY IInvBounds, FitsMessages, HoldsTypes, DataIsSaved, LatticeIsRestored DEF TrafficRight
<1> QED BY <1>1, FileInvariant, PTL
=============================================================================
