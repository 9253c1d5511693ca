# Verification of the MILC lattice QCD code

This directory holds TLA+ specifications of the distributed core of the MILC
code, the configurations that check them with TLC, and theorems about them
checked with the TLA+ proof system. Paths are relative to the repository; line
numbers are those of the commit the models were written from.

## 1. The system

A MILC program simulates quarks and gluons on a four-dimensional lattice. The
sites are divided among the processes ("nodes") of an MPI job. All nodes run the
same program and make the same calls in the same order (SPMD); each works on its
own sites. Whatever a node needs of another one comes through a *gather*: for
every site, a pointer to the field at another site, by a map made known
beforehand. Everything else that crosses nodes is a global sum, a broadcast, or
the traffic of reading and writing files.

The library (`generic/`, `generic_ks/`, ...) is shared by some forty application
directories. Its core logic, and the part that is hard to test, lies in a few
places: the tables a gather is made from, the run of gathers, the joining of
gathers, the division of the lattice, the parallel reading and writing of
configurations, and the keeping of things computed earlier (fermion links, twisted
links, caches, quarks) by programs that change what they were computed from. They
are the subject here. By far the most lines of the code are floating-point
arithmetic on a node's own sites, in many variants for actions, libraries and
processors; they keep no state a model could be about.

### Components

| component | state | operations | interacts through |
|---|---|---|---|
| gather runtime (`generic/com_mpi.c`) | `id_array`, `id_offset`, a `msg_tag` per gather, MPI requests | `declare/prepare/do/wait/cleanup_gather`, `start_gather`, `g_sync`, `terminate` | MPI messages told apart by id only |
| gather tables (`make_gather`) | `gather_array`: neighbor table, receive and send list, id list of each map | `make_gather` | one round of messages, one global maximum |
| joined gathers | lists of parts (`gmem`) in `recv_msgs`, `send_msgs`; the program's vectors of pointers; message buffers | `accumulate_gather`, `declare_accumulate_gather_*` | pointers the program follows |
| general gather | static `g_gather_flag`, `to_nodes`, `from_nodes`, `tdest` | start, wait, cleanup, one at a time | MPI messages told apart by sender and order |
| configuration files (`generic/io_lat4.c`, `io_lat_utils.c`) | write and read buffers, checksums, site list, the file | save and restore, serial, parallel, checkpoint | `send_field`/`get_field`, barriers, stdio, the next job |
| layout (`generic/layout_hyper_*.c`) | `squaresize`, `nsquares`, tables of the Morton order | `setup_layout`, `node_number`, `node_index`, `get_coords`, `io_node` | read by everything |
| fermion links (`generic_ks/fermion_links*.c`, `rephase.c`) | gauge field, `phases_in`, fat and long links kept until invalidated | create, restore, invalidate, destroy, phases in and out | validity depends on who changed the field |
| twists (`fermion_links_fn_twist_milc.c`) | `link_phase_info`: boundary phases, origin, in or out | `set_boundary_twist_fn`, `boundary_twist_fn` | multiplies links other code made |
| RHMC update (`ks_imp_rhmc`) | momenta, old links, pseudofermions | seven integration schemes, accept or refuse, warm-up, measure, save | fermion links, files |
| octet caches (`ks_spectrum/control.c`, `gb_baryon_mmap.c`) | three pointers to memory-mapped caches, three temporaries | build, share, move, free, over a list of triplets | the baryon code reads the slots |
| clover spectroscopy (`clover_invert2`) | propagators and quarks in memory, what later needs them | solve, make quarks, combine, free, tie | files it reads fields back from |
| conjugate gradient (`d_congrad5_*`) | residuals, counters | iterate, restart, give up | global sums decide for all nodes |
| start-up, job partition, collectives | communicators, ranks | `initialize_machine`, sums, broadcasts, exits | MPI collectives |
| random numbers, SU(3) library, smearing, forces, other spectroscopy | fields | local arithmetic | gathers only |
| other back ends (`com_qmp.c`, `com_vanilla.c`), QIO, GPU bindings | as above | as above | outside libraries |

`PROJECT.json` lists every component with its status.

### What is hard in this code

* **No agreement protocol.** The nodes never tell each other which message id,
  which list order, which box of the lattice or which file position they use.
  Each works it out alone, and everything depends on their coming to the same
  result.
* **Interleaving.** A node may be many calls ahead of another. Receives are
  posted with `MPI_ANY_SOURCE`, so a message of a later gather can be taken for
  one of an earlier gather if an id comes round.
* **Blocking.** MPI may buffer a send or not; code that works with one may stop
  for ever with the other.
* **Aliasing.** After a gather the program holds pointers into buffers that belong
  to a tag; the three slots of octet caches share and hand on their pointers.
* **Staleness.** Links that exist are taken to be valid; whoever changes the gauge
  field has to say so. A flag, `phases_in`, stands for what is multiplied into it.
* **Boundaries.** Odd boxes, boundary slices one or three deep, origins anywhere:
  the same slice is worked out in several places.
* **Failure.** A node that sees an error calls `terminate()`, which begins with a
  barrier. A job can be killed in the middle of a file, a write can fail or be
  lost at `fclose`; another job, on another machine layout, reads what is there.

### What makes each component correct

* Tables: after `make_gather` every site gets the data of the site the map names,
  the two ends of a message agree on its id, and every node returns.
* Runtime: ids are exclusive, all nodes have the same tables at the same call, a
  wait gives the data of that gather and no other, nothing is left over, a started
  gather completes, and the job stops as a whole.
* Joined gathers: every pointer leads to the data of its neighbor; the ends of a
  message have the same size and id.
* General gathers: every pointer leads to the site displaced, the two ends count
  alike though each counts from its own side, a second start too early is refused
  everywhere, and what is started completes.
* Files: a finished file is right; what passes the checksum restores right on any
  layout; traffic is bounded; saving and restoring end.
* Layout: boxes tile the lattice, one for each node; every site has one place and
  the way back from the place leads to the site; only what cannot be divided is
  refused.
* Links and update: no stale links are used, phases are where the flag says, a
  refused trajectory restores the field, every scheme is reversible and moves every
  term over the same time.
* Twists: links twisted afterwards are what the twisted gauge field gives, and
  can be untwisted.
* Caches and lifetimes: what is read is in memory and is the right thing; what
  nothing needs is freed, once.

## 2. The modules

```
LayoutBasics    lexicographic ranks and coordinates, boxes
LayoutPrime     setup_layout by primes; node_number, node_index, get_coords, io_node
  LayoutOrders  the orders by 32 colors and by Morton index
  LayoutProofs  theorems about both

GatherTables    what make_gather leaves  -->  assumptions of Gather, constants of
                                              AccumGather
Gather          the runtime  -- implements -->  GatherPromise
  GatherProofs         ids and tables; what the messages carry and where they go
  GatherPromiseProofs  that none is left, and that Gather implements GatherPromise
AccumGather     messages and pointers of single and joined gathers
GeneralGather   gathers by an arbitrary displacement, one at a time
  GeneralGatherProofs  who is refused a second gather
LatticeFile     saving, restoring, crash, another job
  FileProofs    theorems about LatticeFile

FermionLinks    the gauge field, its phases and the links made of it, as operators
  Rhmc          the RHMC program composed of them -- implements --> MarkovChain
  RhmcProofs    theorems about Rhmc
LinkTwist       boundary twists of fat and long links
OctetCache      caches of quark octets in ks_spectrum
  OctetProofs   theorems about OctetCache
QuarkLifetimes  propagators and quarks in memory in clover_invert2
  QuarkProofs   theorems about QuarkLifetimes
MC*             small instances of each
```

### Gather

| code | model |
|---|---|
| `id_offset`, `id_array`, the `msg_tag`s of a node | `loc[n].off`, `.used`, `.phase`, `.g`, `.ids` |
| `msg_req` of the receives, of the sends | `recvs[n][t][i]`, `unsent[n][t]` |
| the MPI network, in order between two nodes for an id | `net[s][d][id]` |
| the one program all nodes run | `prog`; node `n` has made `pc[n]` calls |
| inside `terminate()` | `stopped` |

The program is not fixed. The node that is furthest on chooses the next call
among all calls that are legal by the comment above `declare_strided_gather`; the
others follow. So a run covers every legal program up to `MaxCalls`, at every
relative speed of the nodes. An action is one library call; `PostAndSend` is the
two loops of `do_gather`, which is atomic here because nothing it does can block
and MPI's matching (`Match`) is a step of its own. `prepare_gather` takes the
first free ids going round the table once; if there are too few, `terminate`.

`prog` also records the tables each call led to. No action reads them; they let
`TablesAgree` compare a node with what another one was at the same call.

The parity argument, sizes and addresses are abstracted: a message is its origin
and the call that packed it. `RecvFrom`, `SendTo`, `SendId`, `OffsetIncrement` are
the tables, and `PairingAssumption` is `IdsPaired` of GatherTables in the form the
runtime needs: every send has its receive at the other end and every receive its send.
The optional CRC words are left out.

Receives from any source make the ids the only thing that tells messages apart, and
they come round. `ReuseSynced` is what a program can do about it: all nodes meet between
the wait of a gather and a later start that takes one of its ids for a message from
another neighbor. For the same neighbor nothing is needed, MPI keeps the order.

### GatherPromise

What the comments promise, without messages: a node may return from a wait when
its neighbors have made the same `do_gather`, and then has their data as of that
call. No node passes a call at which another one stopped. `KeepsPromise` states
that Gather implements it, with the refinement mapping `AbstractJob`.

### GatherTables

`make_gather` on all nodes: looking at its own sites a node refuses the map
(`Refused`) or makes its lists (`BeginGather`), sends an id to every node of its
receive list, receives one from every node of its send list in list order
(`ReceiveId`), waits for its own sends and goes into the global maximum
(`EnterMax`, `LeaveMax`), then perhaps again for the inverse. `SiteList` is the
building and sorting of a site list; its order is the whole point, since sender
and receiver each pack and unpack by position. The map, the three other arguments
and whether MPI buffers are chosen in `Init`. Coordinates are gone: a site is a
point with a node, an index and a parity.

### AccumGather

The data side of gathers: what `declare_strided_gather` puts in the message
arrays, how `add_msgt` joins two tags, where `prepare_gather` points the vectors
and in which place of a message `do_gather` packs a site. A pointer is the field
itself or a place in a buffer of a tag; `Deref` follows it as the program would.
A pointer into a buffer that
was freed is as good as none, and is made `Null`.
All nodes make a call in one step here, since their interleaving is Gather's
subject. An entry of an array that was allocated and never written is `Hole`; no
call is modelled on a tag that has one, for the code's behaviour is undefined.
A write past the end of an array is dropped, which is one of its outcomes.

`last[d]` remembers whose data is in vector `d`: it is set by a `do_gather` and
given up when another gather is prepared into the vector or the tag is cleaned up.
`aimed[d]` is the tag prepared last of those with vector `d`, which is where its pointers
lead. `joined` marks a tag that was joined to another. With `UsesJoined = FALSE` the
program uses such a tag only through the joined one, with `TRUE` alone as well, before and
after the joined one, as the example in the comment of `accumulate_gather` does.

The code keeps its promise with two exceptions, and `GatherFetches` names them site by site:
where a later part of the same message was packed to the same place (`Overwritten`), and where
`aimed[d]` is another tag than `last[d]`. `JoinedFetches` and `AloneFetches` are the
promise without the one and without the other exception; they fail (section 5). `EndsFit`
compares the two ends part by part, in order, and each part site by site.

### LatticeFile

One job saves in one of the formats (`w_serial`, `w_parallel`, `w_checkpoint`),
and it or another job on another layout restores (`r_serial`, `r_parallel`). Every
node runs the loop over sites by itself (`pos[n]`) and decides from the layout
whether to send, to receive or to skip. `SweepLine`/`SignalNewNode` are the two
parts of the serial loop body, `ParallelTurn` a turn of the parallel one,
`BlockBegun` the barrier after each block. `send_field` with an MPI that does not
buffer holds its sender (`Runs`).

What is written goes to stdio (`out[n]`) and reaches the file later (`WriteBack`),
or is lost when writes may fail; a seek brings it there. `NewJob` ends or kills the
job. A checksum is the set of its (bit position, word) pairs, with exclusive or as
symmetric difference: rotation by place modulo 29 and 31 (2 and 3 in the runs) is
kept, the collisions of a real 32-bit sum are not.

`OpenFile` treats the missing barrier of `r_parallel_i` and the one of
`r_serial_i` as they are. A file shorter than expected stops the reader.

### GeneralGather

`start_general_strided_gather` needs no tables: each node goes over its sites of the
parity asked for, counts from how many nodes it receives how much (`FromNodes`), goes
over the sites of the other parity if the displacement changes it (`SendParity`), finds
to whom it sends (`ToNodes`), posts receives by rank and sends. All messages have one
MPI tag, so sender and order alone tell them apart (`Match`). `static[n]` holds
`g_gather_flag`, `tdest` and `from_nodes`: a second start before the first wait is refused
(`RefuseStart`), a start after the wait but before the cleanup is allowed, as the
documentation says, and `wait_general_gather` sets the pointers it finds in `tdest`.
One direction of the lattice is kept; the loops treat all four in the same lines.

### LayoutPrime and LayoutOrders

`setup_layout` divides the lattice by primes, the largest first (`StopsAt`), each time in
the longest direction the prime divides, one already divided if there are several
(`DivideOnce`), until there are at least as many boxes as nodes; or it takes a geometry
(`SetupFixedGeom`). `node_number`, `node_index`, `get_coords` and `io_node` are functions of
the result. `get_coords` steps to the next site of the parity with a carry (`Advance`).
LayoutOrders adds the two layouts that differ in the order of a node's sites: by 32
colors (`Color`, `node_index32`, `get_coords32`) and by Morton index, whose tables `hc2m` and
`m2hc` are made for the first node and used by all (`SetupMorton`).

### FermionLinks, Rhmc and MarkovChain

FermionLinks is the gauge field of a staggered program with the links made of it, as one
record, and an operator for each routine that changes part of it: `rephase`,
`restore_fermion_links_from_site`, `invalidate_fermion_links`, `reload_lattice` and so on.
`signs` is what really is in the field, `phases_in` what the program believes. A field is
a number that grows with every update, and whether its matrices are unitary.

Rhmc composes them as `control.c`, `setup.c`, `update_rhmc.c`, `update_u.c`,
`update_h_rhmc.c` and `d_action_rhmc.c` do. A scheme is the list of its drifts and kicks
with their lengths, as written out in `update()`: lengths are whole multiples of a small
unit, `alpha`, `beta` and `lambda` chosen generic, so that sums agree only if the formulas do.
`BeginTrajectory` is the head of `update()`, `Kick` one drift with the kick behind it,
`EndStep` reunitarizes, `EndTrajectory` takes the action, accepts or refuses; `ReadIn`,
`Measure` and `EndSet` are the loops of `control.c`. The grouping of pseudofermion fields by
Naik epsilon (`StartsGroup`, `Visits`) and the size of `multi_x` are worked out from the
rational functions that were read.

MarkovChain is what such a program promises: what is measured and saved is the current
configuration, with links of its own, and a refused trajectory leaves it as it was.
`RefinesMarkovChain` maps `config` to the field at the start of the trajectory while one is
under way.

### LinkTwist

A link is the phase it was multiplied with since it was computed. `apply_twist`,
`switch_time_apbc` and `switch_KS_phases` are the loops over sites with their slice tests;
`BoundaryTwist` calls them in the order of `boundary_twist_fn`. The reference they are
compared with (`Paths`, `Along`) is the definition of the smeared links themselves: every
path a fat or long link sums over, followed link by link through a gauge field with the
phase at the boundary.

### OctetCache

The loop of `ks_spectrum/control.c` over baryon triplets, one step for each slot of each of
its inner loops: `Retire` (free what the next triplet does not use, save pointers of what
it does), `Reassign`, `Create`, `Tie`, `FreeLast`. A pointer is an address or null; a freed
slot keeps its pointer, the array is uninitialized before the first triplet, and an
address freed may be handed out again.

### QuarkLifetimes

An input of `clover_invert2` is chosen in `Init`: parents of each quark, pairs, which
fields are saved, and whether the program is built with `CLOV_LEAN`. `prop_dep_qkno` and
`quark_dep_qkno` are computed as `setup.c` does; actions follow the loops of `control.c`,
with the three old indices by which a lean build finds what to free. A field is not
made, full or freed; reading a freed one or following an index of -1 ends the run in
`stop`. `twist` notes by whose momentum the links were twisted for each quark, `wrong` the
quarks that are not what the input asks for.

A quark is saved in the format of a propagator or in that of a source (`qsave`).
`reread_wprop_to_wp_field` looks only at whether it was saved (`GoesOn`); a file in source
format is not read (`Unread`), and the quark, with all that are made from it, is wrong.

## 3. Runs

All bounds are constants of the configurations. Properties that belong together are
one invariant that names its parts.

| run | instance | shows |
|---|---|---|
| `gather_reuse` | 3 nodes, 3 ids, gathers PAIR (nodes 0 and 1 only, one id) and X3UP (all, two ids), 5 calls with barriers | `TypeOK`, `IdsExclusive`, `TablesAgree`, `StopTogether` while ids run out, wrap around and are freed in any order; `RightDataIfSynced`: a barrier between two uses of an id for different neighbors is enough for the right data; `NothingLeft`: when all tags are waited for no message remains |
| `gather_calls` | 3 nodes on a ring, 1 id, 2 tags, all calls but barriers, a second `do_gather` among them, nothing buffered, 5 calls | `KeepsPromise`: Gather implements GatherPromise; under fairness, `GatherCompletes` and `AllStop` |
| `tables_made` | 3 nodes of 4 sites, 18 maps, all arguments except two (section 6), buffering and not | `MapFetched`, `IdsAgree`, `MakeGatherReturns` |
| `tables_stop` | 2 nodes of 3 sites, all 720 maps | disagreement 2: `TerminateEnds` fails |
| `accum_ring` | 3 nodes on a ring of 6 sites, gathers of neighbors one down, two up and mirrored, of the odd sites or of all, 2 tags and 2 vectors up to renaming, both ways of joining, joined gathers used alone as well, one change of the field | `GatherFetches`, `EndsMeet` |
| `general_ring` | 3 nodes of 4 sites, displacements 1, -2 and 3, three parities, 2 tags, 4 calls, buffering and not | `FetchesDisplaced`, `MessagesMatch`, `RefusedTogether`; under fairness `GatherCompletes` |
| `orders_small` | 8 lattices, 13 numbers of nodes, 4 geometries, 3 I/O geometries, the table of primes of the code | `LatticeDivided`, `RefusesOnlyIndivisible`, `PlacedOnce`, `PlacedByColor`, `PlacedByMorton`, `IoPartitions` |
| `file_jobs` | 6 sites, 3 nodes, 2 or 1, three formats, two ways of restoring; with failing and lost writes and kills, and without them with and without buffering | `ChecksumTells`: a file that passes its checksum restores right; `TrafficRight`: buffers that never hold more than they can (`TypeOK`), bounded queues (`NoPileup`), each message is what its receiver has come to (`MessagesFit`), and without faults all sites come to their places in the file (`DataSaved`) and from there to their own nodes (`LatticeRestored`); `SavedAndRestored`, which adds the checksum and the verdict on it; under fairness `Ends` |
| `rhmc_chain` | 7 schemes, both actions, 4 sets of rational functions, 2 input sets of up to two trajectories | `LinksCurrent`, `PhasesKept`, `Integrates`, `FactorsFit`, `RefinesMarkovChain` |
| `twist_twist` | lattices 4x2x2x4 and 2x4x2x6, 6 origins, 5 sets of phases, with and without back links | `TwistsRight` |
| `octet_triplets` | 4 octets, 4 addresses, input sets of up to 3 triplets, any number of sets | `TieReadsItsOctets`, `CachesMatch`, `KeepsWanted` |
| `quarks_sets` | 2 propagators; 4 quarks with parents of any type and up to one pair; with `CLOV_LEAN` 3 quarks, combinations of two among them, up to 2 pairs, any fields saved in either format; 2 quarks of other types of propagators; chains of 18 quarks | `NeededKept`, `HoldsFew`, `TwistOfAncestor` |

### Why the bounds are enough

*Gather.* Five calls are start, wait, cleanup and a second start and its wait:
one node can be two gathers ahead of another, every id can be freed and taken
again, and with three ids and gathers of one or two the table wraps and runs out.
PAIR gives a node with no messages, the case in which nothing holds a node back;
on a ring every node waits for both others. Three nodes are the least with a
wrong sender to receive from.

*Tables.* Four sites on each of three nodes give two sites of either parity to a
node, lists of several sites in both directions, nodes with a higher and a lower
partner (the two cases of the sort), and maps that keep, switch and mix parity
(affine maps of the ring, and each with two images exchanged). The two-node run
takes all maps of six sites.

*AccumGather.* Two vectors and two tags allow a gather alone, joined, joined after
being declared, and joined by name, and the one used after the other in any order. On a ring
of three nodes of two sites, x - 1 leads to the node before, x + 2 to the one after, and
5 - x exchanges the outer nodes and stays inside the middle one. Joined, the mirror image shares
a message with x - 1 on the first node and with x + 2 on the last, and adds one of its own,
or none, elsewhere; so do the same gather in two vectors, and the odd sites with all. Parts that
share a message have one site or two, so that a part is overwritten in full, by half, or not.
`JoinedFetches` and `AloneFetches` both fail on this instance.

*GeneralGather.* With slices of four sites a displacement of 3 sends most of a node's
sites to one neighbor and -2 half of them, 1 and 3 change the parity and -2 does not.
Four calls are two gathers with the cleanup of the first left until after the second
start, or a start that comes too early.

*Layout.* The lattices have equal and unequal, even and odd dimensions; 6x6x6x2 on
sixteen nodes and 3x3x6x2 on four give boxes with an odd number of sites, several have
boxes of 32 sites and more. Node counts with one, two and three prime factors occur
with lattices they do and do not divide.

*LatticeFile.* Three nodes of two sites and two of three make lines split between
nodes, short last blocks, and blocks longer and shorter than a node's share; the
write buffer holds three sites, a block of the parallel reader two, and a line is two.
The layouts are not in natural order and differ in every way a restoring job can
differ.

*Rhmc.* A refusal after a warm-up, a measurement after a refusal, a second input set
that continues the first lattice, reads another or makes a fresh one: one or two
trajectories in each of two sets reach them all, and the invariant proved in section 4
says that more add nothing. 12 steps are two of the longest scheme. The tables of
lengths 10 and 24 in the code are 3 and 4 here, so that they can be seen to overflow.

*LinkTwist.* A long link is three deep, so time must be at least four; one lattice
has a spatial direction of four to twist, the other another. Origins are at zero, odd
in one direction, and within the last three slices.

*OctetCache.* Every pattern of equality between two successive triplets occurs with
four octets; the proof has no bound.

*QuarkLifetimes.* Four quarks are a chain of three steps from a propagator, or a
combination of two quarks of different age; three quarks and two pairs are what the
three old indices need to lose track, three quarks with a combination last what it takes to
combine one that was freed. The walk of `get_eve` takes 15 steps, as in the code: in
a chain of 18 quarks the last ones are beyond its reach.

`CHECK_DEADLOCK FALSE` is set where a behavior may end: programs come to an end, a
stopped job stays in its barrier, `clover_invert2` may break off. `octet_triplets` has no end
and is checked for deadlock.

### Fairness

`Gather` and `GeneralGather`: weak fairness of each node for calls that are already in the
program (the choice of new calls is the program's, and may stop), and of message
delivery. MPI guarantees progress of matched operations and the operating system runs
every process; nothing stronger is used. `LatticeFile`: weak fairness of every node
and of the file system's writing back. `GatherTables`: only that the nodes do not all
rest while one could go on, which is enough, for `make_gather` has no loop that could be
gone round for ever. No fairness is assumed of failures or kills. A node that waits in
a receive or a barrier is not enabled, so no fairness pushes it through. The other
modules are sequential programs and have safety properties only.

### Mutants

Each module contains a few definitions marked "variant": the code with one
plausible slip (an id offset not wrapped, a second `do_gather` that posts no
receive, a list left unsorted, a barrier that does not hold, links kept after an
update, a carry forgotten, a slice not deep enough). No specification uses them. Put in
place of the definition they vary, each makes a property of a passing run fail;
`PROJECT.json` lists which.

## 4. Theorems

| module | theorem | statement |
|---|---|---|
| `GatherProofs` | `HistoryInvariant` | `Spec => []HistoryInv`, the inductive invariant |
| | `IdsAreExclusive` | no id is held twice on a node; `id_array` marks exactly the ids held |
| | `NodesAgreeOnTables` | at the same call all nodes have the same tables |
| | `NodesStopTogether` | no node passes a call at which another one stopped |
| | `TypeCorrect` | the type invariant |
| | `ArrivalInvariant` | `Spec => []ArrivalInv`, the inductive invariant of the messages |
| | `RightDataWhenSynced` | under `ReuseSynced` each receive has the data of its neighbor, of its own gather |
| `GatherPromiseProofs` | `MessagesCounted` | sent is under way or received, for each receiver and id |
| | `NothingIsLeft` | a program that has waited for all gathers leaves no message |
| | `ImplementsPromise` | `Spec /\ []ReuseSynced => KeepsPromise` |
| `GeneralGatherProofs` | `FlagCountsGathers` | `Spec => []FlagsInv`: the flag of a node tells what its calls left in progress |
| | `SecondStartIsRefusedTogether` | a second start is refused by all nodes at the same call, other programs are not stopped |
| `LayoutProofs` | `BoxesTile` | the boxes tile the lattice at each step of the division |
| | `LatticeIsDivided` | with a table of primes that suffices, the division ends with one box for each node |
| | `GreedSuffices` | with such a table of primes, only a lattice that the nodes do not divide is refused |
| | `SitesHavePlaces` | every site has its own place, even sites first, and `get_coords` leads back to it |
| | `ColorsHavePlaces` | the same in the layout by 32 colors, with even boxes |
| | `IoNodesPartition` | the I/O nodes divide the ranks evenly |
| `RhmcProofs` | `RhmcLinksCurrent` | links taken to be valid are those of the field as it is |
| | `RhmcPhasesKept` | `phases_in` tells the truth, and the program does not stop for it |
| | `RhmcIsMarkovChain` | the program implements MarkovChain |
| `OctetProofs` | `OctetInvariant` | the inductive invariant |
| | `SlotsRight` | a triplet is tied from the caches of its own octets |
| | `CachesAlwaysMatch` | one cache for an octet, none left behind, none freed twice |
| | `KeptInPlace` | a cache used again is neither freed nor rebuilt |
| `FileProofs` | `FileInvariant` | the inductive invariant |
| | `TrafficIsRight` | one node at a time sends to node 0 (`w_serial`); at most a block is under way between two nodes (`r_parallel`); the coordinates that come are those expected: no "BOTCH"; no buffer is overrun; unless a write fails, each format puts every site into its place in the file, and both ways of restoring give every node its own sites back |
| `QuarkProofs` | `NeededFieldsAreKept` | nothing is freed that is needed and was not saved; the program breaks off, and quarks are wrong, only where disagreements 11 and 13 say |
| | `TwistsOfAncestors` | links are twisted by the momentum of the propagator at the root, if it is no more than 15 steps (`MAX_HISTORY - 1`) away |
| | `FewFieldsAreHeld` | nothing outlives its last use by more than one quark; a lean build holds what it can find to free, and what it loses to combinations |

**GatherProofs** holds for any set of nodes, any number of ids, any tables that meet the
assumptions and programs of any bound. None of the three safety properties is
inductive. That node `n` agrees with the record at its place says nothing of what the
record will be at the next place, so the argument goes through the history.
`HistoryInv` is the conjunction of

* `ProgType`: the recorded program and the tables are typed;
* `Recorded`: every entry of the program is a call that fits the tables before it, and
  its recorded result is the effect of that call on them (`Effect`), or the call is
  one for which there were not enough ids;
* `Passed`: no node has got past such a call;
* `Stuck`: a stopped node stands before one;
* `AgreeInv`: a node's tables are those recorded before its next call.

A step of the furthest node appends an entry, one of any other node repeats an
effect on equal tables, which gives an equal result because the ids chosen depend on
the tables only. Exclusiveness is then a lemma for each operation on the tables
(`TakeIdsExact`, `FreedExact`, ...), applied along the record, and stopping together is
arithmetic on places in the program. `TypeCorrect` adds the network, for which
`PostAndSendType` and `MatchType` do the work. The proofs use `IdsAssumption`,
`BoundAssumption`, `NonEmptyAssumption` and `TablesAssumption`; that the tables fit together
(`PairingAssumption`) is needed for the messages only.

The second part of **GatherProofs** is about one message meeting one receive, while both ends are
described by the places of calls in the program: gather `p` is the `p`-th call. `ArrivalInv` is
`HistoryInv` with

* `PlacesInv`: a tag that is started or done belongs to the last start of it, and has the
  ids and neighbors of that call until it is waited for; `FilledInv`: it has as many ids
  as its gather needs;
* `QueueInv`: each message under way is that of a send of a gather its sender has come
  to, bears the id of the receive it is meant for, and messages from one node with one id
  stand in the order of their gathers;
* `SlotInv`: a gather waited for has got all it waited for; `SyncInv`: nobody is past a
  barrier another one has not come to;

and, if the program is `ReuseSynced`, with `DataInv`: a message is wanted still by the
receive it was sent for; a message a receive wants and whose sender has come to the gather
is under way; what was received is right; nobody has waited for a gather its neighbors have
not come to. The step that matters is `Match`: the head of a queue is taken
by the receive of the same id. If it was meant for another gather, that is a later one the
receiver has not come to, for no two gathers in progress on a node share an id. With the
same neighbor the older message is still under way and stands before it in the queue. With another
neighbor `ReuseSynced` puts a barrier between the wait of the older and the start
of the newer gather; the receiver still waits for the older, so it has not come to the
barrier, so nobody has started the newer. Without `DataInv`'s second part the argument
does not close, for the message the receive did wait for could be missing from its queue.

**GatherPromiseProofs** first counts. This needs no such condition, which is its point: a message may be taken
by the wrong receive, yet of those with one id as many are received as were
sent. `CountInv` says so with cardinalities: for each node and id the gathers that are to
bring it a message with that id and whose sender has come to them are as many as messages under way
and receives filled. When the program is over each gather was waited for, all sums
are of equal sets and what is under way is none.

The module then maps Gather to GatherPromise, `Job` by `Job`: every call is the same
call of the abstract specification, `Match` and the completion of a send are stutters.
Start, cleanup and the rest come from the effects on the tables; a wait comes from `DoneInv`
and `CameInv`; terminating from `Stuck`. Liveness of GatherPromise is not part of the statement.

**GeneralGatherProofs** is about control only: it holds for any layout, lists of nodes and
entries (`Shape` types the lists and messages by whatever the loops over sites return), any
tags, displacements and nodes, and programs of any length. `g_gather_flag` is the node's own
and no message carries it, so that all nodes refuse the same call must come from the program
they share. `FlagsInv` ties the state of a node to its place in the program: the last
call on a tag determines the phase of its msg_tag (`PhaseInv`), the numbers of starts and
waits so far determine the flag (`FlagInv`), and these numbers differ by at most one
(`OneInv`). The last is what makes the flag, a single bit, enough: a wait clears it, which is
right only if no other gather is in progress. Two nodes at one call then have the same flag;
nobody passes a start made while a gather is in progress (`PassedInv`), and a node that
stopped stands before one (`StoppedInv`). Every conjunct was checked with TLC on the
instance of `general_ring`.

**LayoutProofs** holds for any lattices, numbers of nodes, geometries and table of primes
(`PrimeAssumption`, `SizesAssumption`). `LInv` adds to `TypeOK` and `Tiling` that the inputs
stay those chosen; the step of interest divides one direction by a prime that divides
it, which needs lemmas on quotients and on the product of four numbers, for the prover
has no theory of either. That the boxes match the nodes is not inductive: `DInv`
adds `NodesLeft`, that the boxes so far divide the nodes. It is kept because the search
stops at a prime that divides what is left, and that needs `TableSuffices`: every divisor
of the number of nodes has a prime in the table. This is a hypothesis of the theorem,
and the code can fail it (disagreement 6). `GreedSuffices` is about the choices of the
division, of a prime and a direction, none of which is ever taken back: if the nodes divide
the volume, the volume of a box is the nodes left times a whole number, so the prime that
divides the nodes left divides the volume of the box, and so, being prime, one of its
dimensions. "Being prime" is Euclid's lemma (`PrimeDividesFactor`), which is not in the
library; it is proved from the least cofactor, without induction. The theorem adds the
hypothesis `TableOfPrimes`, that the entries of the table have no divisors; the table of
the code (`layout_hyper_prime.c`) meets it and the instance has the same table.

The places are arithmetic on the state in which the division ends (`ReadyGrid`): the
lattice is a grid of equal boxes (`IsGrid`), one for each node. Lexicographic ranks are
a bijection of a box with the numbers below its volume (`CoordsOfRank`, `RankOfCoords`),
proved by digits: a remainder and a quotient determine a number (`DivRemUnique`). A site is a
box and a place in the box (`SplitSite`, `JoinSite`), so `node_number` and the rank in the
box are its coordinates. `node_index` halves that rank, and that this is one-to-one for
each parity rests on a lemma about neighbors: the site of rank `2k+1` has the other
parity than that of rank `2k` (`NextInBoxStep`). It is the next one in x, or a carry; a coordinate that ends
there is even, because the rank is (`EvenCarry`), so setting it to zero leaves the parity and the
step in the direction after it changes it. A box with an odd
number of sites has its last site alone, and the parity of its origin says which half it belongs
to (`OddNodeParity`); this is where `even_sites_on_node` and `node_index` must agree. What
`get_coords` finds (`AdvanceIsNext`, `CoordsOfIndex`) is an inverse, and a map with
an inverse into the right range is one-to-one and onto (`CountedByNumber`), so cardinalities need no
induction. `ColorsHavePlaces` repeats the argument one level up: a box is a grid of cells of
sixteen sites, the corner and the parity of the cell are the color, and the neighbors are
cells. `IoNodesPartition` is about a third grid, of the boxes of an I/O geometry: rounding
down is the split into box and place, and `io_node` is the place at the origin.

**RhmcProofs** holds for any schemes, rational functions, input sets and number of
trajectories. There is a lemma for every routine that touches the record (`Restored`,
`Moved`, `Reunitarized`, `Kicked`, `FreshStart`, ...), each saying what the routine leaves of
field, signs, flag and links, and the step of the invariant is one lemma for each action.
`IInv` says that between sets there are no links but phases that stay, that links are in
order while a set is worked on, that the field is unitary outside the steps of a
trajectory, and that a trajectory of no steps leaves it alone: without the last, a refusal
could not be matched with a step of the chain. `RhmcIsMarkovChain` then is one step
of `MarkovChain` or a stutter for each action.

**OctetProofs** holds for any octets and addresses, any number of triplets, and any
content of uninitialized pointers. `IInv` says, for each place `control.c` can stand at,
which pointers lead to the cache of which octet and which octets are cached. "No octet
is cached twice" makes that determine the pointers, so that sharing needs no
invariant of its own; `Seen` tells the leading slot of an octet from the others.

**FileProofs** holds for any lattice, buffer, block and set of layouts, for all formats, and
whatever fails. Every node works out by itself in which turns
it sends and in which it receives; so the invariant counts turns at both ends: `Balanced`
says that the queue from `s` to `d` has as many messages as there are turns with one between
the turn of `d` and that of `s`, and that `d` is never ahead in a turn that takes one. The
formats differ in the turns only (`Ships`, `Deals`, `Lines`, `Signals`), and a step of a node
adds one at one end (`Exchange`, `TradesBalanced`). What bounds the queue is how far apart
the ends can be:

* `r_parallel`: `DealInv` says that who is in a block has seen all others come to its start,
  which `g_sync` after each block keeps; a block has at most `LoadBlock` turns of one reader
  (`BlockLimit`, from the arithmetic of `TurnPlace`).
* `w_serial`: there is no barrier. `SweepInv` says that a node ahead of node 0 with a site of
  its own has had all sites since node 0's to itself. When another node takes over, it
  waits for the "clear to send", which node 0 sends in that turn only: having
  received it, it is not ahead of node 0 any more. So all lines under way come from the node that
  node 0 is waiting for (`OneSendsLines`). That sender and receiver of a line agree on when it is
  swept, although each looks at its own `tbuf`, is `LineInv`.
* `Barriers` and `QuietInv` carry this from one loop to the next: a loop begins with empty
  queues, `r_parallel_i` included, which opens the file without a barrier.

`MessagesFit` needs what the messages are: `Fits` says that the message of turn `p` stands in the
queue at `Place`, the number of turns with one from that of the receiver to `p`, and holds the
coordinates of the rank of turn `p`. A send adds the last place and a receive takes the first
(`SentPlaces`, `KeptPlaces`, `TradesPlaces`). So the receiver finds its own rank, if MPI
keeps messages of two nodes in order; the mutant `SentOvertaking` shows that it must.

`Holds` types what the buffers, the messages and the file hold. That no buffer is overrun
needs where the code looks at the room (`Filling`): after each line there is room in `lbuf` for
another whole line, because `w_serial` writes it when there is not (the mutant `FullAtEnd`);
`tbuf` grows with the place in the line, `pos % Nx`, as a line ends at each multiple of `Nx`
at the latest; and after each site `w_parallel` and `w_checkpoint` leave room for another.

`DataInv` follows the sites into the file of a machine that loses no writes. Node `n` writes the ranks
from `From(n)` up to `Until(n)`, which are disjoint and all of them (`OneWriter`, `EveryRank`); it has
put those before `Put(n)`: the ones before `where` are in the file or will be written by
stdio (`Delivered`), the others are in `lbuf` in their order (`SavedNode`). What keeps this
differs:

* `w_parallel` computes the place of a site from its rank, but counts what is in the buffer.
  They agree because the turns of the ranks of one node come in the order of the ranks
  (`TurnsInOrder`, from `TurnParts` and `BlocksInOrder`), none is left out (`EveryTurn`), and each
  write but the last begins at a multiple of the buffer (`TurnNode`, `NextRank`).
* `w_serial`: node 0 gets the sites themselves of other nodes only with their line, and keeps
  room for them in its own `tbuf`, whose length decides where the line goes. `LineNode` and
  `SweptInv` say that a line, swept or not, holds the sites from its beginning on,
  and that it began where node 0 began to keep room (`Begun`, `OneBeginning`), although
  the two nodes work that out from different variables at different times.
* `w_checkpoint`: each node writes its sites as they come and a list of them; `OrderInv`
  says that the list is that of the layout, in which every site occurs.

`LoadInv` follows them on, through the file into the lattice, on the same layout or another.
`list` is what is in the file (`ListRight`, from `OrderInv` if it is a checkpoint).

* A reader counts through its buffer and the file, not looking at the rank it has come to.
  `ReadsOn` says that there is one number `g` such that the turns it has made are those of its
  ranks before `g`, and its buffer holds the sites from `g` on; a turn in which it reads is
  that of rank `g` (`NextDealt`, again by `NextRank`), for `r_serial` as for the blocks of `r_parallel`.
* The links under way from a reader are those of the sites of its turns (`DealingsInv`, by the
  same `Balanced` and `Place`), so the receiver, which keeps them for the site its own loop has
  come to, keeps the right ones, although `r_serial` sends no coordinates.
* A node has in its lattice the sites of the turns it has made (`LoadNode`): each site is
  dealt out once it is in the file (`DataSaved`), and nothing is overwritten.

At the end every turn is made, every rank has one (`EveryDeal`), and a site a layout gives to
a node is taken by that node only (`OneOwner`: as many places as sites, so that no site has two).

The mutants `FirstWithoutLast`, `SentOvertaking`, `FullAtEnd` and `SiteListNatural` show that these are needed.

**QuarkProofs** holds for any numbers of propagators, quarks and pairs, any parents, anything
saved in any format, and either build: its theorems have no hypotheses. Where the code goes
wrong, the properties say where and how far, and the proofs show that it goes wrong nowhere
else. `FieldsInv` describes each field on its own, between two
quarks: `PropGood` and `QuarkGood` say that a field still used is in memory or was
saved, that one in memory was used by the last quark or is used later, and that a lean
build finds what it holds through its old indices or has lost it to a combination. That the
indices name what is held has to be part of the invariant, since a field forgotten by them
would never be freed; so has `old.iq1 = at - 1`, without which the quark a combination
loses could be any. `PropMade` and `QuarkMade` say what holds inside an iteration, and
`ReleaseFields` carries them over the freeing at its end by what `prop_dep_qkno` and
`quark_dep_qkno` are (`PropDependence`, `QuarkDependence`: the last user, which exists by
`LastOfSet`). `BreaksOffOnly` is proved along with it: at a combination `FieldsInv` says that
a quark not in memory was saved and is used, so that a lean build freed it. `WrongInv` needs of the
fields only that those read again were freed by `CLOV_LEAN` (`UnreadInLean`). `TwistInv` says
that a quark made from a quark has the twist the walk of `get_eve` finds from its parent.

The library's theorems of induction cannot be used with these provers, but the least element
of a set of numbers can: `LeastNat` follows from `NatLessThanWellFounded` and `WFMin`. So the
two recursive functions are dealt with by least counterexamples: the table of `get_eve` and
that of `Lineage` exist (`EveTables`, `LineageTables`), so that they are what their
equations say (`EveRows`, `LineageEntries`), and a walk of as many steps as the propagator is
away ends there (`EveFound`).

TLC evaluates all named assumptions in the runs, and has found the properties to hold
where they are proved.

### Only model-checked

Liveness (`GatherCompletes`, `AllStop`, `MakeGatherReturns`, `Ends`), which the prover
cannot treat under fairness; `PlacedByMorton`, whose table is made by folding over lists of
prime factors; `Integrates` and `FactorsFit`, sums over lists; everything about GatherTables
and AccumGather, of LatticeFile what `SavedAndRestored` says of checksums, which are folded over
the sites, and `ChecksumTells`, and of GeneralGather
`FetchesDisplaced` and `MessagesMatch`, where the statements speak of the result of sorting
and folding data; LinkTwist.

## 5. Where the code does not do what is said of it

Number 2 has a run that fails. Numbers 3, 4, 11, 12 and 13 happen in the instances of passing
runs, whose properties say exactly how far the code goes; what is said of the code is stated
next to them as an invariant of its own, and TLC refutes it when the configuration of the
run is given that one instead. Others can be seen by changing the constants of a run as
noted. The counterexample is short in every case.

1. **`copy_list_switch` keeps the list of all sites** (`com_mpi.c:1238-1239`). With
   `OWN_INVERSE`, `ALLOW_EVEN_ODD`, `SWITCH_PARITY` the receive list is reused as send list
   with even and odd exchanged. The all-sites list then is receivers even first, where
   the other node's is senders in that order: a gather of EVENANDODD pairs wrong sites.
   No caller in the library asks for this combination; applications can. (`tables_made`
   with `Requests <- AnyRequest` violates `MapFetched`.)
2. **`terminate()` on one node hangs the job** (`com_mpi.c:670`). Its first act is a
   barrier. If only one node sees the error, as in `make_gather` with a map that is
   wrong in one place, the others wait for its messages and it for them.
3. **Parts of a joined message overlap** (`com_mpi.c:1950` and `1999`). The pointer `tpt`
   stays at the start of the buffer for every part. Packing and pointing agree, and the
   second part overwrites the first. It shows as soon as two joined gathers have a
   common partner: two nodes in a direction, or the two parities of one direction.
   (`accum_ring` refutes `JoinedFetches`; `GatherFetches` is about the sites that are not overwritten.)
4. **Single and joined use of the same gather** (`com_mpi.c:1977`). The example in the
   comment leaves the vectors pointing to the tag prepared last; the next `do_gather` of
   the other one fills buffers nobody looks at. (`accum_ring` refutes
   `AloneFetches`; `GatherFetches` is about
   vectors that lead to the tag in question.)
5. **`add_msgt` writes past its array** (`com_mpi.c:2433`), when some of the messages were
   merged and a later one is new.
6. **The search for a prime stops at the first one** whether it divides or not
   (`layout_hyper_prime.c:203`): with a prime above 53 in the number of nodes the division
   goes by 2. On 59 nodes it divides by 2, 29 and 2, where the sides allow it, into 116
   boxes, 57 of which have no node.
   (`orders_small` with 59 among the machine sizes violates `LatticeDivided`.)
7. **The layout by colors accepts odd boxes** (`layout_hyper_sl32.c:371`): it asks for 32
   sites, which 3x4x4x2 has as well, not for even sides; and its `get_coords` (line 462) takes
   the parity of a cell within the node, which is that in the lattice only if every
   divided side is a multiple of four. `PlacedByColor` has both as conditions.
8. **The tables of the Morton layout have each other's names**
   (`layout_hyper_morton_prime.c:389`); reader and writer agree, so nothing is wrong but
   the comments.
9. **`apply_apbc` moves the boundary the other way** (`rephase.c:184`): slice `nt-1-r0`
   where `boundary_twist_fn` takes `r0-1`. They agree for `r0 = 0` and `nt/2` only.
10. **Loops over epsilons overrun a table** (`update_rhmc.c:290`): they run to the number
    of epsilons of the links, measurements included, over `n_pseudo_naik[10]`.
11. **A lean build reads freed fields** (`clover_invert2/control.c:541`): a combination
    takes its quarks without reading them again; and at the end of a set without pairs
    line 651 follows an index that is -1. (`quarks_sets` refutes `NeverBreaks`; `BreaksOffOnly` says that these are
    the only places.) A combination also sets `oldiq1` (line 568) without having freed what
    it named: a saved quark made just before stays in memory (`LostToCombination`).
12. **An index means two things** (`control.c:485`): `momentum_twist_ape_links` takes the
    index of a quark and is given that of a propagator in the branch that makes quarks
    from propagators, and finds the propagator of the quark of that number
    (`quarks_sets` refutes `TwistOfParent`); `TwistOfAncestor` is about quarks made from quarks. The walk to
    the ancestor is bounded by 15 steps (`spectrum_cl.c:718`) and does not tell when it ends
    early: it returns the index of a quark as that of a propagator (`quarks_sets`
    refutes `TwistOfFarAncestor`).
13. **A quark saved as a source cannot be read again** (`make_prop.c:693`). The dump writes
    either of two formats (`make_prop.c:629`); `reread_wprop_to_wp_field` knows neither the
    format nor what became of the reading: `r_open_wprop` returns NULL for a file of a source
    (`io_helpers_w.c:197-201`), `reload_wprop_to_wp_field` returns 1, nobody looks at it, and
    a lean build goes on with the field as it was allocated. (`quarks_sets` refutes `RereadIsRestored`;
    `WrongFromSource` says that nothing else makes a quark wrong.)

Smaller ones, met on the way. With `SCRAMBLE_PARITY` the test that a map with
`OWN_INVERSE` is its own inverse is never reached (`com_mpi.c:1586`, inside the test of
`parity_conserve`), though the comment at 1539 announces it. With `NO_EVEN_ODD` a map
without the claimed parity is refused, while `doc/gathers.doc` says the argument then does
nothing. `declare_strided_gather` (1853-1869) numbers its messages by comlink but counts
those with sites of the parity: with a map that connects two nodes in one parity only,
the array has a hole (`Hole`). `copy_list_switch` writes before its table for a parity with
no receiver (1234). A checksum rotation of 0 shifts a word by 32 (`io_lat4.c:345`), which C
leaves undefined and usual machines take as no harm; a checksum that does not fit is
printed and nothing else (`io_lat_utils.c:779`). `layout_timeslices_2.c` does not compile.

## 6. What is not modelled

* In `tables_made` two sets of arguments are left out: that of disagreement 1, and
  `OWN_INVERSE` with `SCRAMBLE_PARITY` and `NO_EVEN_ODD`, whose map is not looked at.
* 32 sublattices in gathers (`N_SUBL32`), the CRC options, running out of memory.
* Sizes of different fields in one joined message. The model has one size.
* Byte order, headers, the ASCII, archive, SciDAC and partitioned formats; the files of
  propagators and eigenvectors, which deal sites as `io_lat4.c` does.
* Checksum collisions.
* Several jobs in one MPI run (`-jobs`); every job waits for all others at its end.
* The layouts for Grid and QMP, and the older ones, of which one does not compile.
* The smearing of links: fat and long links are a function of the field. The EO actions,
  and the links smeared with `apply_apbc`.
* The R and phi algorithms and the other update programs, whose updates have the same
  frame as `ks_imp_rhmc`.
* The caches of sinks and sources of `ks_spectrum`, made and destroyed around one
  computation, and the baryons of `clover_invert2`, which use quarks as pairs do.
* `com_qmp.c` repeats the tables and the joining of `com_mpi.c` over channels of QMP;
  `com_vanilla.c` has one node, on which a gather is a pointer copy.
* Floating-point arithmetic of any kind, which is most of the code: solvers, forces,
  smearing, contractions, the SU(3) library. It runs on a node's own sites between
  gathers, decides nothing but how long to go on, and is beyond a model checker.
* Code that calls libraries that are not in the repository (QIO, QMP, QUDA, QPhiX,
  Grid, QOP), and scripts.

## 7. Plan

Done in this order: Gather, GatherPromise, GatherProofs, GatherTables, AccumGather,
LatticeFile; GeneralGather, LayoutPrime, LayoutOrders, LayoutProofs, FermionLinks, Rhmc,
MarkovChain, RhmcProofs, LinkTwist, OctetCache, OctetProofs, QuarkLifetimes; GatherPromiseProofs, QuarkProofs, GeneralGatherProofs, FileProofs. To come, the most useful first:

1. **Proofs**: for LatticeFile, the checksum: what the nodes add is the sum of what is in the
   file, once it is written without a fold; for AccumGather, `EndsMeet` of a single gather.
   Least elements now stand for induction over lists, which `Integrates` and `FactorsFit` need.
   The theorems of one area share a module.
2. **CongradControl**: restarts, iteration limits and the rule that all nodes leave the
   loop at the same iteration.
3. **KsSpectrum**: the input sets of `ks_spectrum` over FermionLinks and LinkTwist: which
   links, twisted how, each solve uses.
4. **QuarkSources** of `clover_invert2` and `ks_spectrum`: sources made, saved and reread.
