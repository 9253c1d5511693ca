----------------------------- MODULE LatticeFile -----------------------------
(***************************************************************************)
(* Saving and restoring a gauge configuration, generic/io_lat4.c and the   *)
(* part of generic/io_lat_utils.c that opens and closes the file: w_serial *)
(* (node 0 writes what the others send it), w_parallel (every node writes  *)
(* a block of the file in natural order), w_checkpoint (every node writes  *)
(* its own sites and a list of them), r_serial and r_parallel.  Each node  *)
(* runs the same loop over the sites and works out from the layout alone   *)
(* whether it has to send, to receive or to go on.                         *)
(*                                                                         *)
(* The links of a site are that site.  stdio buffers what is written, so a *)
(* file holds it only at some time up to fclose.  A write may fail, a job  *)
(* may be killed, and another job, on another number of nodes, may read    *)
(* what is there.  Byte order, headers and the other formats are left out. *)
(***************************************************************************)
EXTENDS Integers, Sequences, FiniteSets, FiniteSetsExt, SequencesExt

CONSTANTS
  Volume, Nx,     \* sites are numbered in natural order
  MaxBufLength,   \* MAX_BUF_LENGTH, in sites
  LoadBlock,      \* site_block of r_parallel
  Words, Moduli,  \* 32-bit words of a site; 29 and 31
  Layouts,        \* the layouts of the jobs
  Saves, Loads,   \* formats used
  Machines        \* kinds of machines, see faults and eager

Sites == 0 .. Volume - 1

ASSUME SizeAssumption ==
  /\ Volume \in Nat \ {0} /\ Nx \in 1 .. MaxBufLength /\ MaxBufLength \in Nat
  /\ LoadBlock \in Nat \ {0} /\ Volume % Nx = 0

(* A layout gives the sites of each node, as many for each.                *)
ASSUME LayoutAssumption ==
  \A l \in Layouts :
    /\ IsFiniteSet(DOMAIN l)
    /\ l \in [0 .. Cardinality(DOMAIN l) - 1 -> Seq(Sites)]
    /\ \A s \in Sites : \E n \in DOMAIN l : \E i \in DOMAIN l[n] : l[n][i] = s
    /\ \A n \in DOMAIN l : Len(l[n]) * Cardinality(DOMAIN l) = Volume

ASSUME FormatAssumption ==
  /\ Saves \subseteq {"serial", "parallel", "checkpoint"}
  /\ Loads \subseteq {"serial", "parallel"}
  /\ Machines \subseteq [faults : BOOLEAN, eager : BOOLEAN]

None == -1   \* never written: zeros

VARIABLES
  faults,  \* on this machine writes may fail and jobs be killed while they save
  eager,   \* its MPI buffers messages: MPI_Send may return before the receive
  lay,     \* the layout of the job
  save,    \* how it saves
  load,    \* and how the file is restored
  at,      \* at[n]: where node n is, see Stages
  pos,     \* pos[n]: how often it has gone round the loop
  tbuf,    \* tbuf[n]: sites in tbuf (w_serial)
  lbuf,    \* lbuf[n]: the file buffer
  blen,    \* blen[n]: buf_length
  where,   \* where[n]: where_in_buf
  sum,     \* sum[n]: the checksums of node n
  lat,     \* lat[n]: the links it has restored
  chan,    \* chan[s][d]: send_field messages from s to d
  out,     \* out[n]: what node n has written and stdio still holds
  file,    \* what is in the file
  list,    \* gf->rank2rcv, after read_site_list
  stopped, \* nodes in terminate()
  verdict  \* of read_checksum

nodevars == <<pos, tbuf, lbuf, blen, where, sum, lat, chan>>
machine == <<faults, eager>>
vars == <<machine, lay, save, load, at, nodevars, out, file, list, stopped, verdict>>

-----------------------------------------------------------------------------
Nodes == DOMAIN lay
SitesOnNode == Len(lay[0])
NodeNumber(s) == CHOOSE n \in Nodes : \E i \in DOMAIN lay[n] : lay[n][i] = s

(* The steps of a job in their order: "sum" to "closed" end the saving.    *)
Stages == <<"list", "sweep", "signal", "turn", "sum", "close", "closed",
            "load", "deal", "check", "over">>
Rank(stage) == CHOOSE i \in DOMAIN Stages : Stages[i] = stage

(* g_sync and the global exclusive or: every node has come to this stage.  *)
AllAt(stage) == \A n \in Nodes : Rank(at[n]) >= Rank(stage)

(* Unless MPI buffers it, a message holds its sender until it is received. *)
Runs(n) == /\ n \in Nodes \ stopped
           /\ eager \/ \A d \in Nodes : chan[n][d] = <<>>

SentOvertaking(s, d, msg) ==   \* variant: a message overtakes the others
  [chan EXCEPT ![s][d] = <<msg>> \o @]

Sent(s, d, msg) == [chan EXCEPT ![s][d] = Append(@, msg)]
Received(s, d)  == [chan EXCEPT ![s][d] = Tail(@)]
Arrived(s, d)   == chan[s][d] /= <<>>

(* The checksum words of a site: each is turned by its place in the file   *)
(* and the words of all sites are combined by exclusive or.                *)
SumOf(rank, s) ==
  IF s = None THEN {}
  ELSE {<<m, (rank * Words + k) % m, s, k>> : m \in Moduli, k \in 0 .. Words - 1}

Xor(a, b) == (a \ b) \union (b \ a)
GlobalXor == FoldSet(LAMBDA n, x : Xor(sum[n], x), {}, Nodes)

EmptyBuf == [i \in 0 .. MaxBufLength - 1 |-> None]
Loaded(buf, i, sites) ==
  [k \in DOMAIN buf |-> IF k - i + 1 \in DOMAIN sites THEN sites[k - i + 1] ELSE buf[k]]
FirstWithoutLast(buf, len) ==   \* variant: one site too few is written
  [k \in 1 .. len - 1 |-> buf[k - 1]]

FirstOf(buf, len) == [k \in 1 .. len |-> buf[k - 1]]

(* g_write of these sites, from this place of a part of the file.          *)
Write(part, from, what) == [part |-> part, from |-> from, what |-> what]

InFile(f, w) ==
  IF w.part = "sum" THEN [f EXCEPT !.sum = w.what]
  ELSE [f EXCEPT ![w.part] = Loaded(@, w.from, w.what)]

(* terminate(1)                                                            *)
Stop(n) == stopped' = stopped \union {n}

-----------------------------------------------------------------------------
(* w_serial.                                                               *)

CurrentNode(j) == IF j = 0 THEN 0 ELSE NodeNumber(j - 1)

RetiresNoPurge(n, j) ==   \* variant: what is left at the end is not sent
  /\ tbuf[n] /= <<>>
  /\ IF j = Volume THEN n = 0 ELSE NodeNumber(j) /= CurrentNode(j) \/ j % Nx = 0

(* The retiring node's line is swept to node 0.                            *)
Retires(n, j) ==
  tbuf[n] /= <<>> /\ (j < Volume => NodeNumber(j) /= CurrentNode(j) \/ j % Nx = 0)

FullAtEnd(len) == pos[0] = Volume   \* variant: nobody looks whether another line fits

(* lbuf may not hold another line, or the end is reached.                  *)
Full(len) == pos[0] = Volume \/ len > MaxBufLength - Nx

(* flush_tbuf_to_lbuf and flush_lbuf_to_file                               *)
Flush(sites) ==
  LET len  == blen[0] + Len(sites)
      buf  == Loaded(lbuf[0], blen[0], sites)
      from == where[0]
      rank(k) == from + blen[0] + k - 1
  IN  /\ sum' = [sum EXCEPT ![0] = FoldSet(LAMBDA k, x : Xor(SumOf(rank(k), sites[k]), x),
                                           sum[0], DOMAIN sites)]
      /\ \/ /\ Full(len)
            /\ out' = [out EXCEPT ![0] = Append(@, Write("data", from, FirstOf(buf, len)))]
            /\ where' = [where EXCEPT ![0] = from + len]
            /\ blen' = [blen EXCEPT ![0] = 0]
            /\ UNCHANGED stopped
         \/ /\ ~Full(len)
            /\ blen' = [blen EXCEPT ![0] = len]
            /\ UNCHANGED <<out, where, stopped>>
         \/ /\ Full(len) /\ faults
            /\ Stop(0)
            /\ UNCHANGED <<out, where, blen>>
      /\ lbuf' = [lbuf EXCEPT ![0] = buf]

SweepLine(n) ==
  LET c == CurrentNode(pos[n])
  IN  /\ Runs(n) /\ save = "serial" /\ at[n] = "sweep"
      /\ at' = [at EXCEPT ![n] = IF pos[n] = Volume THEN "sum" ELSE "signal"]
      /\ \/ /\ ~Retires(n, pos[n])
            /\ UNCHANGED <<tbuf, lbuf, blen, where, sum, chan, out, stopped>>
         \/ /\ Retires(n, pos[n]) /\ n /= 0
            /\ chan' = Sent(n, 0, [kind |-> "line", links |-> tbuf[n]])
            /\ tbuf' = [tbuf EXCEPT ![n] = <<>>]
            /\ UNCHANGED <<lbuf, blen, where, sum, out, stopped>>
         \/ /\ Retires(n, pos[n]) /\ n = 0
            /\ IF c = 0 THEN Flush(tbuf[0]) /\ UNCHANGED chan
               ELSE /\ Arrived(c, 0)
                    /\ Flush(Head(chan[c][0]).links)
                    /\ chan' = Received(c, 0)
            /\ tbuf' = [tbuf EXCEPT ![0] = <<>>]
      /\ UNCHANGED <<machine, lay, save, load, pos, lat, file, list, verdict>>

(* Node 0 sends a clear to send signal to the node that takes over; then   *)
(* the node with the site, and node 0, make room for it in tbuf.           *)
SignalNewNode(n) ==
  LET c == CurrentNode(pos[n])
      new == NodeNumber(pos[n])
      mine == IF n = new THEN <<pos[n]>> ELSE IF n = 0 THEN <<None>> ELSE <<>>
  IN  /\ Runs(n) /\ save = "serial" /\ at[n] = "signal"
      /\ IF new = c \/ new = 0 \/ n \notin {0, new} THEN UNCHANGED chan
         ELSE IF n = 0 THEN chan' = Sent(0, new, [kind |-> "go"])
         ELSE Arrived(0, n) /\ chan' = Received(0, n)
      /\ tbuf' = [tbuf EXCEPT ![n] = @ \o mine]
      /\ pos' = [pos EXCEPT ![n] = @ + 1]
      /\ at' = [at EXCEPT ![n] = "sweep"]
      /\ UNCHANGED <<machine, lay, save, load, lbuf, blen, where, sum, lat, out, file,
                     list, stopped, verdict>>

-----------------------------------------------------------------------------
(* The order in which w_parallel and r_parallel go through the ranks: a    *)
(* block of each node's part of the file at a time.  Turn p is for this    *)
(* rank, in this block.                                                    *)
BlockOf(p, block) == p \div (block * Cardinality(Nodes))

RankAt(p, block) ==
  LET ksite == BlockOf(p, block) * block
      left  == SitesOnNode - ksite
      len   == IF left < block THEN left ELSE block
      q     == p % (block * Cardinality(Nodes))
  IN  (q \div len) * SitesOnNode + ksite + (q % len)

BlockBegunAtOnce(n, block) == TRUE   \* variant: no g_sync

(* g_sync at the end of each block                                         *)
BlockBegun(n, block) ==
  \/ pos[n] > 0 /\ BlockOf(pos[n], block) = BlockOf(pos[n] - 1, block)
  \/ \A m \in Nodes : pos[m] >= pos[n] \/ Rank(at[m]) > Rank(at[n])

(* Put a site in the write buffer of w_parallel or w_checkpoint, which is  *)
(* written when it is full or the last site of the node is in.  w_parallel *)
(* then clears it; in w_checkpoint the next sites overwrite it.            *)
PutSite(n, rank, i, s, last) ==
  LET buf == Loaded(lbuf[n], i, <<s>>)
      full == blen[n] + 1 = MaxBufLength \/ last
  IN  /\ sum' = [sum EXCEPT ![n] = Xor(@, SumOf(rank, s))]
      /\ \/ /\ full
            /\ out' = [out EXCEPT ![n] =
                         Append(@, Write("data", where[n], FirstOf(buf, blen[n] + 1)))]
            /\ where' = [where EXCEPT ![n] = @ + blen[n] + 1]
            /\ blen' = [blen EXCEPT ![n] = 0]
            /\ lbuf' = [lbuf EXCEPT ![n] = EmptyBuf]
            /\ UNCHANGED stopped
         \/ /\ ~full
            /\ blen' = [blen EXCEPT ![n] = @ + 1]
            /\ lbuf' = [lbuf EXCEPT ![n] = buf]
            /\ UNCHANGED <<out, where, stopped>>
         \/ /\ full /\ faults
            /\ Stop(n)
            /\ UNCHANGED <<out, where, blen, lbuf>>

Links(coord, links) == [kind |-> "site", coord |-> coord, links |-> links]

(* One turn of w_parallel: the node that has the site of this rank sends   *)
(* it to the node that writes this rank.                                   *)
ParallelTurn(n) ==
  LET rank == RankAt(pos[n], MaxBufLength)
      dest == rank \div SitesOnNode
      src  == NodeNumber(rank)
      last == rank % SitesOnNode = SitesOnNode - 1
      msg  == Head(chan[src][n])
  IN  /\ Runs(n) /\ save = "parallel" /\ at[n] = "turn"
      /\ pos[n] < Volume /\ BlockBegun(n, MaxBufLength)
      /\ \/ /\ n = src /\ n /= dest
            /\ chan' = Sent(n, dest, Links(rank, rank))
            /\ UNCHANGED <<lbuf, blen, where, sum, out, stopped>>
         \/ /\ n = dest /\ n = src
            /\ PutSite(n, rank, blen[n], rank, last)
            /\ UNCHANGED chan
         \/ /\ n = dest /\ n /= src
            /\ Arrived(src, n)
            /\ PutSite(n, msg.coord, (msg.coord % SitesOnNode) % MaxBufLength,
                       msg.links, last)
            /\ chan' = Received(src, n)
         \/ n \notin {src, dest} /\ UNCHANGED <<lbuf, blen, where, sum, chan, out, stopped>>
      /\ pos' = [pos EXCEPT ![n] = @ + 1]
      /\ UNCHANGED <<machine, lay, save, load, at, tbuf, lat, file, list, verdict>>

(* write_site_list; the g_seek of w_parallel_setup then brings it to the   *)
(* file.                                                                   *)
WriteList(n) ==
  LET list_n == Write("order", n * SitesOnNode, lay[n])
  IN  /\ Runs(n) /\ at[n] = "list"
      /\ \/ /\ file' = InFile(file, list_n)
            /\ at' = [at EXCEPT ![n] = "turn"]
            /\ UNCHANGED stopped
         \/ /\ faults
            /\ Stop(n)
            /\ UNCHANGED <<at, file>>
      /\ UNCHANGED <<machine, lay, save, load, nodevars, out, list, verdict>>

(* w_checkpoint: the sites of the node as they come.                       *)
CheckpointSite(n) ==
  /\ Runs(n) /\ save = "checkpoint" /\ at[n] = "turn" /\ pos[n] < SitesOnNode
  /\ PutSite(n, n * SitesOnNode + pos[n], blen[n], lay[n][pos[n] + 1],
             pos[n] = SitesOnNode - 1)
  /\ pos' = [pos EXCEPT ![n] = @ + 1]
  /\ UNCHANGED <<machine, lay, save, load, at, tbuf, lat, chan, file, list, verdict>>

EndTurns(n) ==
  /\ Runs(n) /\ at[n] = "turn"
  /\ pos[n] = IF save = "parallel" THEN Volume ELSE SitesOnNode
  /\ save = "parallel" => \A m \in Nodes : pos[m] = Volume   \* last g_sync
  /\ at' = [at EXCEPT ![n] = "sum"]
  /\ UNCHANGED <<machine, lay, save, load, nodevars, out, file, list, stopped, verdict>>

-----------------------------------------------------------------------------
(* The end of saving: after a g_sync or the global exclusive or, node 0    *)
(* writes the combined checksum.  Its g_seek waits until stdio has brought *)
(* what it holds to the file (WriteBack), or fails.                        *)
WriteChecksum(n) ==
  /\ Runs(n) /\ at[n] = "sum" /\ AllAt("sum")
  /\ \/ /\ n /= 0
        /\ at' = [at EXCEPT ![n] = "close"]
        /\ UNCHANGED <<out, stopped>>
     \/ /\ n = 0 /\ out[0] = <<>>
        /\ out' = [out EXCEPT ![0] = <<Write("sum", 0, GlobalXor)>>]
        /\ at' = [at EXCEPT ![0] = "close"]
        /\ UNCHANGED stopped
     \/ /\ n = 0 /\ faults
        /\ Stop(0)
        /\ UNCHANGED <<at, out>>
  /\ UNCHANGED <<machine, lay, save, load, nodevars, file, list, verdict>>

(* After another g_sync the file is closed; nobody asks whether what stdio *)
(* still held came to the disk.                                            *)
CloseFile(n) ==
  /\ Runs(n) /\ at[n] = "close" /\ AllAt("close")
  /\ out[n] = <<>>
  /\ at' = [at EXCEPT ![n] = "closed"]
  /\ UNCHANGED <<machine, lay, save, load, nodevars, out, file, list, stopped, verdict>>

(* stdio and the file system: a write reaches the file, or is lost.        *)
WriteBack(n) ==
  /\ n \in Nodes /\ out[n] /= <<>>
  /\ out' = [out EXCEPT ![n] = Tail(@)]
  /\ \/ file' = InFile(file, Head(out[n]))
     \/ faults /\ UNCHANGED file
  /\ UNCHANGED <<machine, lay, save, load, at, nodevars, list, stopped, verdict>>

(* The job ends, or is killed; another one will restore the file.          *)
NodeVarsInit(l) ==
  /\ pos' = [n \in DOMAIN l |-> 0]
  /\ tbuf' = [n \in DOMAIN l |-> <<>>]
  /\ lbuf' = [n \in DOMAIN l |-> EmptyBuf]
  /\ blen' = [n \in DOMAIN l |-> 0]
  /\ where' = [n \in DOMAIN l |-> 0]
  /\ sum' = [n \in DOMAIN l |-> {}]
  /\ lat' = [n \in DOMAIN l |-> [s \in Sites |-> None]]
  /\ chan' = [n \in DOMAIN l |-> [m \in DOMAIN l |-> <<>>]]

NewJob(l) ==
  /\ \A n \in Nodes : Rank(at[n]) <= Rank("closed")
  /\ faults \/ \A n \in Nodes : at[n] = "closed"
  /\ lay' = l
  /\ at' = [n \in DOMAIN l |-> "closed"]
  /\ NodeVarsInit(l)
  /\ out' = [n \in DOMAIN l |-> <<>>]
  /\ stopped' = {}
  /\ UNCHANGED <<machine, save, load, file, list, verdict>>

-----------------------------------------------------------------------------
(* fread finds this part of the file, or the file ends before it.  The     *)
(* list of sites comes before the checksum, and that before the data.      *)
Written(part) == {r \in Sites : file[part][r] /= None}
Readable(r) == \E q \in Written("data") : q >= r
Zero(s) == IF s = None THEN 0 ELSE s

NaturalOrder == [r \in Sites |-> r]

SiteListNatural == NaturalOrder   \* variant: the order of the file is not looked at

(* The table rank2rcv, if the file is not in natural order.                *)
SiteList == IF save /= "checkpoint" THEN NaturalOrder
            ELSE [r \in Sites |-> Zero(file.order[r])]

(* Node 0 opens the file, reads the list of sites if there is one, and     *)
(* broadcasts it.  r_serial_i begins with a g_sync, r_parallel_i does not. *)
OpenFile(n) ==
  LET complete == \/ Written("data") /= {} \/ file.sum /= {}
                  \/ file.order[Volume - 1] /= None
  IN  /\ Runs(n) /\ at[n] = "closed"
      /\ load = "serial" => AllAt("closed")
      /\ n /= 0 => Rank(at[0]) > Rank("closed")
      /\ IF n = 0 /\ save = "checkpoint" /\ ~complete
         THEN Stop(n) /\ UNCHANGED <<at, list, pos, where, blen, sum>>
         ELSE /\ list' = IF n = 0 THEN SiteList ELSE list
              /\ at' = [at EXCEPT ![n] = "load"]
              /\ pos' = [pos EXCEPT ![n] = 0]
              /\ where' = [where EXCEPT ![n] = 0]
              /\ blen' = [blen EXCEPT ![n] = 0]
              /\ sum' = [sum EXCEPT ![n] = {}]
              /\ UNCHANGED stopped
      /\ UNCHANGED <<machine, lay, save, load, tbuf, lbuf, lat, chan, out, file, verdict>>

(* The g_sync before the loop.                                             *)
BeginDeal(n) ==
  /\ Runs(n) /\ at[n] = "load" /\ AllAt("load")
  /\ at' = [at EXCEPT ![n] = "deal"]
  /\ UNCHANGED <<machine, lay, save, load, nodevars, out, file, list, stopped, verdict>>

(* The reader refills its buffer when it is used up: min(left, max) sites  *)
(* from this rank on.                                                      *)
Refilled(n, rank, left) ==
  LET len == IF left > MaxBufLength THEN MaxBufLength ELSE left
  IN  IF where[n] < blen[n]
      THEN [ok |-> TRUE, buf |-> lbuf[n], len |-> blen[n], next |-> where[n]]
      ELSE [ok |-> Readable(rank + len - 1), len |-> len, next |-> 0,
            buf |-> Loaded(lbuf[n], 0, [k \in 1 .. len |-> file.data[(rank + k - 1) % Volume]])]

ReadSite(n, b) ==
  /\ lbuf' = [lbuf EXCEPT ![n] = b.buf]
  /\ blen' = [blen EXCEPT ![n] = b.len]
  /\ where' = [where EXCEPT ![n] = b.next + 1]

Keep(n, s, links) == lat' = [lat EXCEPT ![n][s] = links]
AddToSumHere(n, rank, links) ==   \* variant: counts from the node's own first site
  sum' = [sum EXCEPT ![n] = Xor(@, SumOf(rank % SitesOnNode, links))]

AddToSum(n, rank, links) == sum' = [sum EXCEPT ![n] = Xor(@, SumOf(rank, links))]

ReadFails(n) ==
  /\ Stop(n)
  /\ UNCHANGED <<pos, lbuf, blen, where, sum, lat, chan>>

(* r_serial: node 0 reads, the node that has the site keeps it and counts  *)
(* it in its checksum.                                                     *)
SerialDeal(n) ==
  LET rank == pos[n]
      s    == list[rank]
      dest == NodeNumber(s)
      b    == Refilled(0, rank, Volume - rank)
      links == b.buf[b.next]
  IN  /\ Runs(n) /\ load = "serial" /\ at[n] = "deal" /\ rank < Volume
      /\ \/ n = 0 /\ ~b.ok /\ ReadFails(0)
         \/ /\ n = 0 /\ b.ok
            /\ ReadSite(0, b)
            /\ IF dest = 0
               THEN Keep(0, s, links) /\ AddToSum(0, rank, links) /\ UNCHANGED chan
               ELSE /\ chan' = Sent(0, dest, Links(None, links))
                    /\ UNCHANGED <<lat, sum>>
            /\ pos' = [pos EXCEPT ![n] = @ + 1]
            /\ UNCHANGED stopped
         \/ /\ n /= 0 /\ n = dest
            /\ Arrived(0, n)
            /\ Keep(n, s, Head(chan[0][n]).links)
            /\ AddToSum(n, rank, Head(chan[0][n]).links)
            /\ chan' = Received(0, n)
            /\ pos' = [pos EXCEPT ![n] = @ + 1]
            /\ UNCHANGED <<lbuf, blen, where, stopped>>
         \/ /\ n \notin {0, dest}
            /\ pos' = [pos EXCEPT ![n] = @ + 1]
            /\ UNCHANGED <<lbuf, blen, where, sum, lat, chan, stopped>>
      /\ UNCHANGED <<machine, lay, save, load, at, tbuf, out, file, list, verdict>>

(* r_parallel: each node reads its part of the file and deals it out, with *)
(* the coordinates of the site.  A node that gets one that is not its own  *)
(* stops ("BOTCH").                                                        *)
ParallelDeal(n) ==
  LET rank == RankAt(pos[n], LoadBlock)
      src  == rank \div SitesOnNode
      s    == list[rank]
      dest == NodeNumber(s)
      b    == Refilled(n, rank, SitesOnNode - (rank % SitesOnNode))
      links == b.buf[b.next]
      msg  == Head(chan[src][n])
  IN  /\ Runs(n) /\ load = "parallel" /\ at[n] = "deal"
      /\ pos[n] < Volume /\ BlockBegun(n, LoadBlock)
      /\ \/ n = src /\ ~b.ok /\ ReadFails(n)
         \/ /\ n = src /\ b.ok
            /\ ReadSite(n, b)
            /\ AddToSum(n, rank, links)
            /\ IF dest = n THEN Keep(n, s, links) /\ UNCHANGED chan
               ELSE chan' = Sent(n, dest, Links(s, links)) /\ UNCHANGED lat
            /\ pos' = [pos EXCEPT ![n] = @ + 1]
            /\ UNCHANGED stopped
         \/ /\ n /= src /\ n = dest
            /\ Arrived(src, n)
            /\ chan' = Received(src, n)
            /\ IF NodeNumber(msg.coord) = n
               THEN Keep(n, msg.coord, msg.links) /\ UNCHANGED stopped
               ELSE Stop(n) /\ UNCHANGED lat
            /\ pos' = [pos EXCEPT ![n] = @ + 1]
            /\ UNCHANGED <<lbuf, blen, where, sum>>
         \/ /\ n \notin {src, dest}
            /\ pos' = [pos EXCEPT ![n] = @ + 1]
            /\ UNCHANGED <<lbuf, blen, where, sum, lat, chan, stopped>>
      /\ UNCHANGED <<machine, lay, save, load, at, tbuf, out, file, list, verdict>>

EndDeal(n) ==
  /\ Runs(n) /\ at[n] = "deal" /\ pos[n] = Volume
  /\ load = "parallel" => \A m \in Nodes : pos[m] = Volume   \* last g_sync
  /\ at' = [at EXCEPT ![n] = "check"]
  /\ UNCHANGED <<machine, lay, save, load, nodevars, out, file, list, stopped, verdict>>

(* g_xor32, then node 0 compares the checksum with that of the file, and   *)
(* goes on whether they agree or not.                                      *)
ReadChecksum(n) ==
  /\ Runs(n) /\ at[n] = "check" /\ AllAt("check")
  /\ at' = [at EXCEPT ![n] = "over"]
  /\ verdict' = IF n /= 0 THEN verdict
                ELSE IF file.sum = GlobalXor THEN "OK" ELSE "violation"
  /\ UNCHANGED <<machine, lay, save, load, nodevars, out, file, list, stopped>>

-----------------------------------------------------------------------------
Init ==
  /\ \E c \in Machines : faults = c.faults /\ eager = c.eager
  /\ lay \in Layouts /\ save \in Saves /\ load \in Loads
  /\ at = [n \in Nodes |-> CASE save = "serial"     -> "sweep"
                           [] save = "parallel"   -> "turn"
                           [] save = "checkpoint" -> "list"]
  /\ pos = [n \in Nodes |-> 0]
  /\ tbuf = [n \in Nodes |-> <<>>]
  /\ lbuf = [n \in Nodes |-> EmptyBuf]
  /\ blen = [n \in Nodes |-> 0]
  /\ where = [n \in Nodes |-> IF save = "serial" THEN 0 ELSE n * SitesOnNode]
  /\ sum = [n \in Nodes |-> {}]
  /\ lat = [n \in Nodes |-> [s \in Sites |-> None]]
  /\ chan = [n \in Nodes |-> [m \in Nodes |-> <<>>]]
  /\ out = [n \in Nodes |-> <<>>]
  /\ file = [data |-> [r \in Sites |-> None], order |-> [r \in Sites |-> None],
             sum |-> {}]
  /\ list = NaturalOrder
  /\ stopped = {}
  /\ verdict = "none"

SaveStep(n) ==
  \/ SweepLine(n) \/ SignalNewNode(n) \/ ParallelTurn(n)
  \/ WriteList(n) \/ CheckpointSite(n)
  \/ EndTurns(n) \/ WriteChecksum(n) \/ CloseFile(n)

LoadStep(n) ==
  \/ OpenFile(n) \/ BeginDeal(n) \/ SerialDeal(n) \/ ParallelDeal(n)
  \/ EndDeal(n) \/ ReadChecksum(n)

Next ==
  \/ \E n \in Nodes : SaveStep(n) \/ LoadStep(n) \/ WriteBack(n)
  \/ \E l \in Layouts : NewJob(l)

MaxNodes == 0 .. Max({Cardinality(DOMAIN l) : l \in Layouts}) - 1

Fairness ==
  \A n \in MaxNodes :
    /\ WF_vars(n \in Nodes /\ (SaveStep(n) \/ LoadStep(n)))
    /\ WF_vars(n \in Nodes /\ WriteBack(n))

Spec     == Init /\ [][Next]_vars
FairSpec == Spec /\ Fairness

-----------------------------------------------------------------------------
Content == [Sites -> Sites \union {None}]

TypeOK ==
  /\ [faults |-> faults, eager |-> eager] \in Machines
  /\ lay \in Layouts /\ save \in Saves /\ load \in Loads
  /\ stopped \subseteq Nodes
  /\ \A n \in Nodes :
       /\ Rank(at[n]) \in 1 .. Len(Stages)
       /\ pos[n] \in 0 .. Volume
       /\ blen[n] \in 0 .. MaxBufLength
       /\ Len(tbuf[n]) <= Nx
       /\ lat[n] \in Content
  /\ file.data \in Content /\ file.order \in Content
  /\ list \in [Sites -> Sites]
  /\ verdict \in {"none", "OK", "violation"}

(***************************************************************************)
(* When a job has saved, the data in the file are right whatever the       *)
(* format, the number of nodes and the layout: rank r holds the site of    *)
(* that rank, in natural order or as the list of sites says, and every     *)
(* site is there.  It stays so while the file is restored.                 *)
(***************************************************************************)
DataSaved ==
  ~faults /\ AllAt("closed") =>
    /\ \A r \in Sites :
         file.data[r] = IF save = "checkpoint" THEN file.order[r] ELSE r
    /\ \A s \in Sites : \E r \in Sites : file.data[r] = s

(***************************************************************************)
(* And the checksum is that of the file read from beginning to end.        *)
(***************************************************************************)
SavedRight ==
  /\ DataSaved
  /\ ~faults /\ AllAt("closed") =>
       file.sum = UNION {SumOf(r, file.data[r]) : r \in Sites}

Held(n) == {lay[n][i] : i \in DOMAIN lay[n]}
RestoredRight == \A n \in Nodes : \A s \in Held(n) : lat[n][s] = s

(***************************************************************************)
(* A file that passes the checksum gives every node the links of its own   *)
(* sites, also if the job that wrote it was killed or could not write, and *)
(* also on another number of nodes.                                        *)
(***************************************************************************)
ChecksumTells == verdict = "OK" => RestoredRight

(***************************************************************************)
(* What one job saved in full, the same job or another restores, also on   *)
(* another number of nodes: when all have gone through the file, serially  *)
(* or each its part, every node has the links of its own sites.            *)
(***************************************************************************)
LatticeRestored == ~faults /\ (\A n \in Nodes : at[n] = "over") => RestoredRight

(***************************************************************************)
(* And it finds the checksum in order: the checksums that one node or all  *)
(* nodes work out in their own ways agree.                                 *)
(***************************************************************************)
RestoresSaved ==
  /\ LatticeRestored
  /\ ~faults /\ (\A n \in Nodes : at[n] = "over") => verdict = "OK"

(***************************************************************************)
(* At most one node has data on the way to node 0 while it saves serially  *)
(* ("clear to send"), and no more than a block of each node is on the way  *)
(* while a file is dealt out ("To prevent incoming message pileups").      *)
(***************************************************************************)
NoPileup ==
  /\ (save = "serial" /\ \E n \in Nodes : at[n] \in {"sweep", "signal"}) =>
       Cardinality({n \in Nodes : chan[n][0] /= <<>>}) <= 1
  /\ load = "parallel" =>
       \A s, d \in Nodes : at[d] = "deal" => Len(chan[s][d]) <= LoadBlock

(***************************************************************************)
(* The coordinates that are sent with the links of a site are those the    *)
(* receiver has reached in its own loop: w_parallel puts the site where it *)
(* belongs in the file, and r_parallel never finds "BOTCH", a site that is *)
(* not its own.                                                            *)
(***************************************************************************)
MessagesFit ==
  \A n \in Nodes :
    pos[n] < Volume =>
      /\ save = "parallel" /\ at[n] = "turn" =>
           LET rank == RankAt(pos[n], MaxBufLength)
               src  == NodeNumber(rank)
           IN  n /= src /\ n = rank \div SitesOnNode /\ Arrived(src, n) =>
                 Head(chan[src][n]) = Links(rank, rank)
      /\ load = "parallel" /\ at[n] = "deal" =>
           LET rank == RankAt(pos[n], LoadBlock)
               src  == rank \div SitesOnNode
           IN  n /= src /\ n = NodeNumber(list[rank]) /\ Arrived(src, n) =>
                 Head(chan[src][n]).coord = list[rank]

(***************************************************************************)
(* The buffers on the way never hold more than they can, and what goes     *)
(* between two nodes is bounded, and what they expect; so all sites reach  *)
(* their places in the file, and come from there to their own nodes.       *)
(***************************************************************************)
TrafficRight == TypeOK /\ NoPileup /\ MessagesFit /\ DataSaved /\ LatticeRestored

(***************************************************************************)
(* Unless a read or a write fails, saving and restoring come to an end: no *)
(* node waits for a message or in a barrier for ever, even if MPI buffers  *)
(* nothing.                                                                *)
(***************************************************************************)
Ends == ~faults ~> (\A n \in Nodes : at[n] = "over")

(***************************************************************************)
(* With a machine that loses nothing, a lattice saved in any of the        *)
(* formats is in the file as it was, with the checksum of the whole, and   *)
(* restoring it on any other layout gives it back and finds the checksum   *)
(* in order.                                                               *)
(***************************************************************************)
SavedAndRestored == SavedRight /\ RestoresSaved

=============================================================================
