# MCC-Simulator: a verification project in TLA+

The simulator is a fork of BookSim 2 in which every node of the network holds a
model of a compute core of a DNN accelerator (`core.cpp`), some routers belong
to DDRs (`ddr.cpp`), and wireless hubs (`routers/hub.cpp`) shorten long ways.
The cores run the workloads of a JSON file: a core asks the producers of its
inputs for them, computes, cuts its outputs into tiles and sends them to those
who asked.  The traffic manager (`trafficmanager.cpp`) calls everything once per
cycle and ends when every core reports its end.

Line numbers below are those of `src/src/`.

## Inventory

| component | state it keeps | operations | talks to | hard behaviour |
|---|---|---|---|---|
| Configuration, `booksim_config.cpp`, `config_utils.cpp`, and the constructors | options by name and type | `GetInt`, `GetStr`, `GetIntArray`..., one constructor per class | everything, once | sizes worked out twice from the same options, lists of lists, options looked up that are not declared |
| Core, `core.cpp` | workload index and flags (`_wl_fn`, `_next_start`, `_running`, `cnt1`, `pending`), tile times and sizes, output buffers `o_buf`, pointers `_cur_rc_obuf`, `_cur_sd_obuf`, `_sd_mini_tile_id`, request maps `_cur_wl_rq`, `_r_rq_list`, `_s_rq_list`, `_send_data_list`, `_core_buffer`, `_left_data` | `run` (with `_update`, `_buffer_update`, `_data_ready`, `_write_obuf`, `_send_data`), `receive_message` | traffic manager: injection queue, messages | requests earlier or later than the workload they are for; buffers full; end of transfer counted in bytes; flags set in one phase and used in another |
| DDR, `ddr.cpp` | write queue, per-transfer counts, outputs waiting for inputs and requests, outputs being cut, arbiter and its timer | `run` once per router and cycle, `receive_message` | traffic manager | shared state among the router calls of one cycle, random grants used later, packets of a transfer overtaking each other |
| Traffic manager, `trafficmanager.cpp` | `_partial_packets`, flits in flight, `_buf_states`, last VC and class, ids, retired heads | `_Step`, `_Inject`, `_RetireFlit`, `Run` | everything | wormhole injection under credits, priorities of classes, ids of copies made inside the network, ending and draining |
| Credit flow control, `buffer_state.cpp` | occupancy per VC, owner of a VC, reserved slots, limits | `TakeBuffer`, `SendingFlit`, `ProcessCredit`, seven policies | input buffer of the next router through two channels | delay of credits; shared space; when a VC is free again |
| Input buffers, `buffer.cpp`, `vc.cpp`; channels, `channel.hpp`, `flitchannel.cpp` | flits and state per VC; delay line | `AddFlit`, `RemoveFlit`, `SetState`; `Send`, `Receive` | router | overflow, packets mixing in a VC, order and latency |
| IQ router, `routers/iq_router.cpp` | pipeline queues of routing, VC allocation, switch allocation and switch hold, each with its multicast twin; output buffers | `ReadInputs`, `_InternalStep`, `WriteOutputs` | channels, allocators, buffers | multicast forks, speculative allocation, held switches, blocked branches, the `_active` flag |
| Event-driven and chaos routers | event queues, output states; input frames, multi-queue | the same three | channels | one VC in line for many heads; deflection |
| Hubs, `routers/hub.cpp` | buffers from the router, queue of whole packets, receive queue, switch to the router | the same three | routers, the wireless channel, `token_hold` and `ready_receive` shared by all hubs | medium access, room at all receivers, drops of flits not for this hub |
| Arbiters and allocators, `arbiters/`, `allocators/` | priorities and pointers; tables of requests | `AddRequest`, `Allocate`, `Arbitrate`, `UpdateState` | routers | conflicting grants, fairness |
| Routing functions, `routefunc.cpp`, and those beside the topologies in `networks/` | `ph`, `intm`, `minimal` in the flit | pure functions | routers | deadlock freedom, livelock, adaptive escape, agreement of copies that go by air |
| Traffic patterns, `traffic.cpp` | seeds, permutations | `dest`, constructors | traffic manager | edge cases of sizes |
| Statistics, power, JSON | sums | | standard output | none that other parts depend on |

What must be right, component by component: an output is computed once, kept
until sent and sent once, to those who asked and only after they asked; no core
starts without its inputs; a transfer ends once, with its last byte; every core
reaches its end; a DDR serves every output exactly once, when it is complete; a
buffer never overflows and credits are neither lost nor invented; packets never
mix in a VC; grants are a matching and nobody who keeps asking starves; a router
and a hub deliver every copy of a packet once, and never sleep over work; channels
are waited for in an order without a circle; the ids of flits in flight are unique
and all retired; a run ends, clean.

## Plan

1. `CoreOps`, `Core` (one core, open environment), its proofs. *Done.*
2. `DDROps`, `DDR` (one DDR with several routers), its proofs. *Done.*
3. `Dataflow`, `ManyCore`: cores and DDRs composed, refining the dataflow of jobs, with the proof. *Done.*
4. `FlowControl`, `Link`: `BufferState` and the link it guards, refining a bounded FIFO per VC, with proofs. *Done.*
5. `Arbiters`, `Allocators`: grants are a matching, progress of round robin, with proofs. *Done.*
6. `Router`: the pipeline of `IQRouter` with multicast; `EventRouter` and `ChaosRouter` beside it. *Done.*
7. `Hub`: the hubs, their routers and the token, with proofs of who talks, and that there is room for it. *Done.*
8. `Routing` with a module per topology, and `Patterns`. *Done.*
9. `Traffic`: injection under credits, retiring, ending and draining, over the settings `Setup` builds. *Done.*
10. Open: proofs that the counts of `ManyCore` match and that a hub delivers each packet once; the arithmetic of the feedback policies;
    VC priorities by age or queue length (`VC::UpdatePriority`); cut-through in the
    event-driven router; a composition of several routers.

## Modules

Cores and DDRs

- `Platform` - the constants cores and DDRs share.
- `CoreOps` - `core.cpp`: the record of a `Core` object, an operator per phase of `run`
  (`Tick`, `Start`, `PickRc`, `PickSd`, `Compute`, `Advance`: together `Work`; then
  `RequestSent` or `DataSent`) and one per kind of message.
- `Core` - one core.  `RunOnly`, `RunRequest`, `RunSend` are the three ways `Core::run` can
  end; `Inject` is the network taking the waiting packet; `ReceiveRequest` and
  `ReceiveData` are `receive_message`, with packets in any order the protocol allows.
- `CoreOpsProofs` - what each operator of `CoreOps` keeps, for any core.  `CoreProofs` -
  theorems about `Core`: its control flow, inputs and outputs.
- `DDROps`, `DDR` - `ddr.cpp`: `BeginCycle` is `_Inject` collecting the free routers,
  `RunRouter` one call of `DDR::run`.
- `DDRProofs` - theorems about `DDR`: its queues and arbiter, its outputs.
- `ManyCore` - cores and DDRs over a network that delivers every packet copy once, after
  any time and in any order.
- `Dataflow` - the abstract promise: jobs in order, each after those it depends on.
- `ManyCoreProofs` - the proof that `ManyCore` implements `Dataflow`.
- `SumLemmas` - lemmas about finite sets and sums over them, for these, `LinkProofs`,
  `AllocProofs` and `HubProofs`.

Links

- `FlowControl` - `buffer_state.cpp`: the record of a `BufferState`; `IsFullFor`,
  `AvailableFor`, `TakeBuffer`, `SendingFlit`, `ProcessCredit` for the policies private,
  shared, limited, dynamic, shifting, feedback and simplefeedback.
- `Link` - a sender, the flit channel, the input buffer (`buffer.cpp`, `vc.cpp`) and the
  credit channel.  `Take` is VC allocation as the router does it, `Send` the flit leaving,
  `Arrive` is `VC::AddFlit` with its check, `Forward` takes a flit out and sends the
  credit, `ReceiveCredit` is `ProcessCredit`.
- `Lanes` - the abstract promise of a link: one bounded queue per VC.
- `LinkProofs` - theorems about `Link`.

Routers

- `Arbiters` - round robin, matrix and tree arbiters, and the dense and the sparse table of
  requests.  `Allocators` - iSLIP, PIM, LOA, select, the wavefronts, the separable allocators,
  maximum-size, the tree arbiter and the tables; a step is one cycle of `AddRequest`,
  `Allocate` and `Clear`, with any requests of those `RequestsOf` names for the allocator.
- `AllocProofs` - theorems about `Allocators`.
- `Router` - the IQ router.  An operator per stage, in the order of `_InternalStep`: the
  `Evaluate` operators of routing, switch hold, VC allocation, switch allocation and the
  switch, and then the `Update` ones, each with its multicast form.  The allocators grant
  any matching `Allocators` shows they may.  A queue is evaluated as a whole: its loop ends at
  the first entry that has its time, and those evaluated together leave together.  Only a
  packet that `Suits` the setting is sent.  What it keeps out is multicast with lookahead
  routing (the head is queued like that of a packet for one output, `routers/iq_router.cpp:568`,
  and the other destinations are lost), with piggyback (without a VC allocator nobody gives
  VCs to branches, 379), with a held switch (4077-4079 assert that none is held), or with a
  bounded output buffer (no allocator decides between branches for one output, so that more flits
  come in one cycle than 4660 allows).
- `EventRouter`, `ChaosRouter` - the other two, in the same place: they EXTEND `Router` for
  the upstreams and downstreams.  `Routers` chooses one by the settings, and states what is
  promised of any.
- `Hub` - all hubs, one cycle a step: they run one after the other because they share
  `token_hold` and `ready_receive`; then the token moves, as the end of `_Step` does.
- `HubProofs` - theorems about `Hub`.

Routes

- `Routes` - offers, VC ranges and legs that all functions use.
- `Cubes` (mesh and torus), `WMesh` (mesh with hubs), `Trees` (fly, fat tree, quad tree,
  tree4), `CMesh`, `FlatFly`, `Dragonfly`, `AnyNet` - the wiring of a topology and its
  routing functions.  `Routing` sends packets, or copies of one, hop by hop.
- `Patterns` - `traffic.cpp`: for each pattern, where a node may send.

The run

- `Setup` - options and constructors: `Declared` and `Shipped` are the options and their
  defaults, `Cut` and `Tokens` cut lists, `PerClass`, `PacketSizes` fill them, `BufferSize`,
  `PrivateSize`, `PartSizes`, `First`, `Final` size the buffers, `CoreIds` and `DdrRouters`
  place cores and DDRs, the `Refused` operators are the errors, the `Reads` what is looked up.
- `Traffic` - the traffic manager.  `Build` is the constructors, `Step` one `_Step` with the
  look `Run` takes at it; `GetReady` (a core or DDR has a packet) and `Pass` (a router
  passes on a flit, copying it) are its surroundings.

`MCCore`, `MCDDR`, `MCManyCore`, `MCLink`, `MCAlloc`, `MCRouter`, `MCHub`, `MCRouting`,
`MCTraffic` hold inputs for TLC.

Abstractions.  A core's `_time` and `_end_tile_time` appear only as their difference `due`.
A DDR's `_grant_timer` and `_time_minus` only as "was it in this cycle".  The channels
of a link have any delay, and the feedback policies keep which flits are being timed but not
the times.  The limit they compute from these is one slot at least and only delays a flit,
so here their limit on a VC is the whole buffer.  Random choices are choices.  A router is
modelled with one flit channel in and out of each port and any delay between the parts of
the upstream; its allocators are any matching, not empty, of what is asked, which is what
`alloc_run` shows of each.  In `Traffic` the network is external: flits of different VCs and
nodes may overtake each other, those of a packet may not.

## Runs

| run | question | bounds |
|---|---|---|
| `core_run` | do the buffers, requests and ends of a core stay right whatever the order of arrivals, and does it finish? | 2 workloads, 2 output buffers, 3 tiles, one output multicast to two cores and DRAM, one for a core that asks twice, one kept; a prefetch |
| `core_short_tile` | a workload of as many cycles as tiles: finding | |
| `ddr_run` | is every output served exactly once, and at last? | 2 routers, 3 outputs, 2 inputs, 3 packets; those of one input come in order (the theorems take any) |
| `manycore_run` | do cores and DDRs agree on what is sent and expected, keep the promise of `Dataflow`, and does every core report its end? | 2 cores, 2 DDRs, a pipeline of 4 jobs with a way through DRAM and a prefetch |
| `link_private` | are credits and slots right, and is the link a bounded queue per VC, with private buffers and `wait_for_tail_credit`? | 2 VCs of 2 slots, 4 packets of 3, 1, 2 and 2 flits, one of them for several destinations |
| `link_dynamic` | do the slots of a shared buffer add up while the share of a VC changes, can a packet that has begun go on, and does every packet arrive? | 2 VCs, 3 slots, 4 packets |
| `alloc_run` | are grants a matching, never none, as large or as stable as the allocator promises, and is nobody starved? | every allocator and arbiter with 3 inputs, 2 outputs, priorities; trees of 4; request tables with 3 VCs; starvation of inputs that ask one output; the sets of requests and priorities are in `MCAlloc` |
| `router_run` | IQ, event-driven and chaos router: do packets stay apart, copies go out once, credits add up, the stages agree, and is everything delivered? | 2 inputs, 2 outputs, 2 VCs of 2 slots; 8 settings of the IQ router (speculation, piggyback, lookahead, held switch, routing delay, output buffers), with a multicast packet in the three that allow it; 2 settings each of the others |
| `router_delay` | allocators of two cycles: finding | 2 settings, no multicast |
| `hub_run` | does one hub talk at a time, into room that is there, whole packets, each heard once, and is everything delivered? | 3 hubs, 2 VCs, 4 packets, two of them for several hubs, receive queues of 3 flits |
| `route_run` | does every function always offer a route, in an order of channels without a circle, do copies by air agree, do patterns spread as promised, is every destination reached? | each function on a small network of its topology; see `MCRouting` |
| `traffic_run` | are flits in flight counted exactly, do packets keep their VC, does the run end clean; and is what the constructors make of settings consistent? | 4 nodes, 2 cores and a DDR, 2 classes, 4 packets, a multicast and one by air, 4 settings that run, none with class priorities and `wait_for_tail_credit` together (see the findings); over a hundred that are only built |

The bounds are small because every distinction the code makes is present.  Core: full and
free buffers (2), first, middle and last tile (3), first and last packet of a mini
tile, remainder in the last tile, early and late requests, an input that comes from
a core, from DRAM, from the core itself.  Link: a packet shorter than, as long
as and longer than its VC; two VCs that compete for the shared slots; more packets than
VCs, so that a VC is taken again while flits of the last packet are under way.  Each link run
takes the policy its question is about: private is the default, dynamic is the one whose
share changes.  Router: a packet for both outputs against one that may use either, and one
behind the first on its VC; more packets than the chaos router has places for.  Hub: a
packet as long as a VC and one of a single flit, for one hub, for all others, and for two
destinations of one hub; a third hub that must drop.  Routing: networks with at least three
nodes in a dimension where the middle matters and rings with a dateline.  Traffic: a class
that waits while the other has begun, a packet longer than a VC, an answer that needs what
came before, and packets still under way when the last core ends.

One property often gathers what belongs together: `BuffersSafe`, `OutputsComplete`,
`QueueSafe`, `TransfersMatch`, `CreditsSafe`, `SharesAddUp`, `GrantsSound`, `NothingLeft`,
`PipelineSound`, `PlacesKept`, `PromisesKept`, `TalkInTurn`, `HeardWhole` and
`BuiltToFit` are conjunctions of named parts.

Functions that `Ascends` leaves out: `chaos_torus`, `min_anynet` and `dim_order_wmesh` keep no
order of channels (the first is for the chaos router, which deflects; the second takes any
shortest path; the third takes hubs between hops of a mesh on the same VCs); `valiant_mesh`,
`valiant_torus` and `valiant_ni_torus` mix phases on one VC (see below); `ugal_dragonflynew`
is cyclic although it claims otherwise.

## Fairness

`_Step` calls `run` on every core and DDR in every cycle, so `run` is weakly
fair; the network is assumed to take and deliver what it is given.  The arbiter of a
DDR draws `rand() % 2`, and packets meet it in any cycle, hence strong fairness of
each side and each router.  `RunFair` and `CoreMoves` spell weak fairness out with a
state predicate for ENABLED.

On a link every channel and every flit that can move does so in some later cycle (weak
fairness); the VC allocator grants a free VC now to one packet and now to another, and
by its round robin to each that keeps asking (strong fairness of taking a VC).

Routers, hubs and the traffic manager are stepped by the loop of `Run` for ever: steps go on
unless nothing can change (`Still`, or the run is done).  The upstream keeps sending what it
may and the downstream keeps taking what it has; both are finite.  Of a router nothing is
assumed about which grant is chosen: it delivers whatever non-empty matching the allocators
choose.  `alloc_run` assumes only that cycles go on; `route_run` that packets move.

## Proofs

The theorems hold for every value of the constants; what they assume of these is named where
the constants are declared, and TLC evaluates it on every run.

Sums.  Much of what must be right is a sum: bytes of an output, slots of a buffer.
`SumFunctionOnSet` of the community modules takes the elements of a set in an order of its own,
and the induction theorems of the library take an operator, which the provers cannot
instantiate.  `SumLemmas` gets around this with a smallest counterexample: a set of subsets of a
finite set that has an element has a smallest one (`Smallest`).  From it follow that the order
does not matter (`SumAdd`), and how a sum changes with one value, with the set, with the names of
the elements.  All proofs about sums cite these.

Core.  `CoreProofs` proves types (`TypeCorrect`), the buffers (`BuffersStayApart`,
`TileHasBuffer`), and that the buffer being drained stays sendable (`DrainStaysJustified`).  None
of these is inductive: `_write_obuf` is safe because rc is a buffer, which is because a running
core that is not pending has one, which depends on `cnt1`, `_wl_fn` and `_next_start` having only
the combinations `run` leaves.  `Orderly` states these, `Safe` is its conjunction with the
properties, and each phase of `run` has a lemma that it keeps `Safe`; `Counting` and `Books` say
the rest (`_end_tile_time` ahead only while computing; what waits for injection is a packet).
It also proves `InputsPresent` with `Fed`: whatever was announced is in the buffer or
recorded where its arrival will find it, and `_left_data` holds all that is missing.
`FetchAssumption` is needed, as `_left_data` is filled from the needs of a layer and emptied by
the arrival of what was announced for it.
It proves `OutputsComplete`, too.  The invariant `OutInv` sets the account of the
environment against the lists of the code, a part for each: `Owes`, what the suppliers still
have against `_s_rq_list`; `RequestsIn`, the requests received against `_r_rq_list`
(early ones) and `_cur_wl_rq`; `Stock`, tiles to come and bytes in `o_buf` against
`_send_data_list`; `SentIn`, bytes handed over, and the end, against the size of the output;
`OutAsked`, that a packet of data that waits has been asked for by all its destinations.  Assumed is `OutputAssumption`:
ids of their own for outputs, and a byte at least per tile.  Without the second an empty tile
becomes a packet of no bytes, which is its own end.

Link.  `LinkProofs` proves for any set of VCs, packets of any size, any grouping and size of the
buffer and all seven policies: types, `CreditsConserved`, `PolicyHasRoom`, `TimedComesBack`,
`ActiveCounted`, `NoMixing`, all of `SharesAddUp`, that a packet that has begun can go on
(`BegunAlwaysGoesOn`), and that the link with private buffers implements `Lanes`
(`PrivateLinkIsLanes`).  Two parts of the inductive invariant `LinkInv` are no property by
themselves.  `Holding` says which packet has a VC and what a reserved slot means; without it a
second slot could be reserved for a VC, or a VC in use have no packet to end it.  `Trains` says
that the flits of a packet stand together in the channel: `NoMixing` speaks of the first flit
only, and the one behind it becomes the first.  `SharesInv` adds the sums.  The operators of
`FlowControl` have a lemma each (`SendingFields`, `ProcessFields`, ...) that says what becomes
of every field; the steps cite these and never open the operators.  Assumed are
`FlowAssumption`, `SharedAssumption`, `PacketAssumption` and `RoomAssumption`.  The last excludes
what the code rejects only when it happens: shares that come to nothing, as with `shifting` and
three VCs of one slot, and a private buffer with fewer slots than VCs, which may overflow.

DDR.  `DDRProofs` proves `WriteQueueCounted` (the count of a transfer is that of its
packets in the write queue, and an end mark waits for one of them), `ChosenRouterFree` (the
router the arbiter chose is empty until its packet comes, `assert(time_emty)`) and both
together, `QueuesStaySafe`.  The second looks local and is not: a router may be chosen when
its turn in the cycle is over, keep the choice into the next cycle, and be chosen again there.
`Chosen` and `FreeRight`, the parts of the inductive invariant `DdrInv` that are no
property, say why it works: while a router is chosen there is something to serve, so the
choice is used at its next turn; a choice that was carried over found the channel idle ever
since, so the arbiter draws again at the first turn of the cycle, while its list of free routers
is still right.
`ServedExactly` is proved with `ServedInv`: what the cores still send has at most
one end per transfer, and none if it was seen (`Coming`); an open entry counts at least the
inputs whose end has not drained and exactly the consumers that have not asked, and waits for
one of them (`Entries`); the bytes and ends of an output are none while its entry is open and
its share, with one end once the last byte is cut, afterwards (`Accounts`); `_time_cnt` is
never negative (`Timed`).  That a DDR finds the last drain rests on the first two together,
with packets in any order.  Assumed are `DDRAssumption`, `RoutersAssumption`,
`StreamsAssumption` (packets of a byte at least, one end) and `RelationAssumption` (an output waits
for as many inputs as name it, and has a byte for each DDR: a share of nothing would make
`_time_cnt` -1, and the channel would never be idle again).

Cores and DDRs together.  `ManyCoreProofs` proves `PromiseKept`: for any number of cores and
DDRs, any input that satisfies the assumptions, and a network that delivers in any order,
`ManyCore` implements `Dataflow`.  A step of `ManyCore` maps to a job that begins or ends, or to
nothing; what has to be shown is that a job begins only when those it depends on have ended.
Nothing in the program says so: a core begins when `_left_data` is empty, which is when
`_s_rq_list` has come to zero for all it fetched, and a DDR hands out an output when the ends of
its inputs have drained.  That zero means "all was made" rests on what is under way anywhere, so
the inductive invariant `IInv` is about all nodes and the network at once (`Sound`):
- `CoreOk`: each core is in a state `CoreProofs` allows, taken over by the lemmas of
  `CoreOpsProofs` (`Safe`, `Counting`, `Stock`, `Fed`), and what lies in its buffer is finished;
- `MailOk`: data that waits or flies is an output of the core it is from, or, out of DRAM, one
  whose inputs are finished;
- `FlowsFit`: what the writer of an output has still to send to a core, what waits and what flies
  there together are at most the size of the output, and at most what the core still expects
  once it has announced it.  So the last byte cannot come while one is unmade: it would leave
  the core less than what is to follow;
- `OneEnd`: a transfer on its way to a DDR has one end mark: still to be made, waiting, in
  flight, or in the DDR;
- `DdrOk`: a DDR waits for at least the inputs whose end has not drained (`Joins`), so that
  an output is on offer only when its inputs are finished.
`Finished` says what a job depends on, through DRAM or not, and is never taken back (`Forward`).
The lemmas of a step say by how much it raises or lowers each of these sums (`Gains`, `Takes`,
`Cuts`, `Leaves`), for bytes and ends alike, and the invariant follows from these alone (`Ebbs`,
`Flows`).  Assumed are, besides those of core and DDR for each, `NodesAssumption` (finitely many
cores, none of them a DDR) and `InputAssumption`: an id is that of one output, of one core or of
the DRAM; what is announced to be fetched from another core has the size it is written with; and
what a core announces to fetch from itself an earlier job of it wrote.  The scheduler that writes the input gives every transfer an id of its own, and its size to both
ends; `run` takes both for granted.  With a smaller size at the receiving end a core would start
before the last byte.

Allocators.  `AllocProofs` proves `GrantsSound` and `NothingLeft` for every allocator of
`NewAllocator`, any numbers of
ports and VCs, any requests and integer priorities, and any number of iterations.  `IInv` says that
the pointers and matrices are fit to decide (`PortsKeep`: a matrix orders its inputs, each pair one
way; without it a matrix arbiter might find no winner), that grants are matchings of what was
asked (`Matchings`) which leave nothing (`NoneLeft`), and that each table is what the requests make
of it (`MadeBy`, `DenseHolds`,
`SparseHolds`).  An allocator is a fold over iterations, inputs, outputs or diagonals, so its lemma
says what one turn keeps or adds; `FoldFollows` and `FoldThrough` carry that through the fold, which
they unfold with a recursive function (`ISlipThrough`, `SwapsThrough` and the like, one for each).
Most turns only match what is free at both ends, and the first matches somebody (`GrantedSome`).
After each diagonal of the wavefront what asks there with the priority of the turn is matched or
has lost to a match made before, so of at least its priority (`SweptTo`, `SweptBy`).  The
search of `maxsize` turns a whole path round.  There `Reached` says that every `_from` points
to the layer before, and `SwapAt`, that after each swap only one output is
matched twice; the layer falls with each swap, so after at most as many as there are inputs the
path has ended at a free one, and one more input is matched than before (`Grown`).  That this ends
in a matching of the largest size is the theorem of Kőnig: a search without an end has, as each of
its layers looks from somebody new (`LayeredBy`), looked at everything from its tree (`Closed`),
and any other matching has for each of its pairs one of ours (`ClosedBounds`).  Assumed is
`AllocAssumption`: besides ports and requests that exist, an iteration at least, one output and inputs
in pairs for the tree arbiter, at most one iteration of
`select`, and for `maxsize` no more outputs than inputs (both are findings, below).

Hubs.  `HubProofs` proves for any number of hubs and VCs, any packets and all policies that
a hub sleeps only when it has nothing to do (`NeverAsleepStays`), and with
`wait_for_tail_credit` that one hub talks at a time (`OneTalkerStays`) and sends a packet whole
(`WholePacketsStay`; `TalkStaysInTurn` is both), which it finds in the VC on its turn
(`HasPacketStays`).
A cycle is one fold over the hubs, each of which folds over stages, and some of these over flits:
`CycleChain`, `FlattenDoes` and `Comes` unfold them into chains whose links are one hub, one
flit.  `NeverAsleep` needs `AwakeInv`: a hub that rests has nothing queued when its
turn comes, and what is newly put in the crossbar keeps it awake for one more cycle.  The others
need `TalkInv`.  That one hub talks at a time rests on what is in the VCs: a hub that holds the
token lets go of it with a tail, so the VC has to hold one, and one only.  `Lane` says that a VC
carries the part of a packet that was sent, or all of one, or nothing, and stays in use until
the credits are back; `Counted`, that credits and flits add up, so that a VC the router may
take is empty here; `Ready`, that packets queued are whole, each on a VC of its own.  What is queued is the tail
of the packet, whose VC is set to 0 when it is sent; the lemmas show that its entry has gone by then
(`ReadyPops`).  Without `wait_for_tail_credit` two packets can be in one VC, go in one turn, and
leave entries behind that name VC 0 (see the findings): that is why all but the first
of the theorems have the option as hypothesis.

That room is there for all that is said (`PromisesStayKept`), and that nothing is mixed with
anything else behind the air (`NothingMixes`), need `HearInv`.  `Owed` says that of one hub at most
something is in the air, and that at every hub the free places, the flits queued and what is in the
air for it add up to the receive queue; in the middle of a cycle some hubs have heard the last
packet and some not (`Owes`, `Attended`).  `RoomAt`: a hub that has begun its turn still has room at all
its receivers, because the places of others only grow meanwhile.  `Strung`: a receive queue has
whole packets, but for the first.  `Flows` follows them through the switch: `Along` says what is on the way
on a VC, that the hub counts just that, and that the VC is taken by the packet at the front or by none.
A packet heard, a VC taken, a flit sent, one drained and a cycle of the crossbar each keep it
(`HearFlows`, `TakeFlows`, `SwitchFlows`, `DrainFlows`, `WayLeaves`).  Both theorems assume `RoomWhenTaken`: a VC that is
taken has room for a flit, as with the private policy it always has, or else with
`vc_busy_when_full` and a policy that does not shrink the share of a VC in between.  Without it
`hub.cpp` gives the head that waits another VC in every cycle (see the findings).  Assumed are
`HubAssumption` and `VcAssumption` (there is a VC 0, which the code writes into what it sends).

Only model-checked.  Liveness (`Finishes`, `Delivers`, `AllArrive` and the rest) and ENABLED are
out of the prover's reach.  Of `ManyCore`, that its parts agree to the byte at every moment
(`TransfersMatch`) is checked; what the refinement needs of it is proved.  Of the allocators, that nobody
starves (`NoStarvation`) is liveness.  Of the hubs, that each packet gets to each hub it is for exactly once (`EachHubOnce` of
`HeardWhole`) is checked.  So is everything about routers, routing, set-up and the traffic manager; `Routing`, `Patterns`, `Setup` and
`Traffic` compute over finite tables, where a run already visits the cases.

## Findings

Two disagreements are runs: `core_short_tile` and `router_delay`, quoted in `PROJECT.json`.
Others were reproduced with these modules and other bounds, and are not kept as runs:

- The arbiter of a DDR can serve a read and a write in the time of one (`ddr.cpp:208`), and the
  end packet of a transfer may overtake others of it on another router (`ddr.cpp:182`).
- A size `DDR_num` does not divide loses its remainder when it is interleaved (`ddr.cpp:102`).
- With `shifting`, three VCs and one slot each, the share of a VC becomes nothing.
- A multicast packet longer than a VC buffer waits for ever (`routers/iq_router.cpp:2895`).
- The select allocator with two iterations does not clear `grants` between them
  (`allocators/selalloc.cpp:62`).
- A head keeps the VC found for it when a class of higher priority is sent instead
  (`trafficmanager.cpp:1845-1985`); with class priorities and `wait_for_tail_credit = 1` the VC
  can be taken by then and `TakeBuffer` fails.
- With the shared policy, two slots and `vc_busy_when_full = 0`, a hub gives a head a VC without
  room, and in the next cycle another one, as it is still first in the receive queue
  (`routers/hub.cpp:785-975`): the head goes out twice and takes the flit behind it along
  (`HeardWhole` fails).
- With `wait_for_tail_credit = 0`, the default, two packets of one flit can be in one VC of a hub.
  Both go in the turn of the first (`routers/hub.cpp:1089`), which takes the entry of a packet on
  another VC off the queue; the tail left there has VC 0 by then (529, 1132), which the next turn
  finds empty, against the assertion at 1086 (`HasPacket` fails).
- `valiant_ni_torus` uses `f->ph` where the phase was just worked out (`routefunc.cpp:1771-1780`):
  packets never get to phase 1 and can circle for ever.  `Delivered` leaves it out.
- `xy_yx_cmesh` with `k = 8` sends packets to and fro over the express channel (358 against 680).

Read in the code, and not a state the models can reach or a property of them:

- Set-up.  `ParseFile` and `ParseString` have `yyparse()` commented out, and `main` its
  `ParseArgs`: only defaults and the ten numbers read from standard input count, and if these
  cannot be read `flit_width` and `method` stay uninitialised (`booksim_config.cpp:67-82`).
  `const_flits_per_packet` and `multi_queue_size` (`routers/chaos_router.cpp:63,65`) are not
  declared, so that choosing the chaos router ends the program.  `NewAllocator` is called
  without the configuration: `alloc_iters` and `arb_type` never apply.
- With `buf_size` below `num_vcs` a private sender counts on `vc_buf_size` slots per VC of a
  buffer of `buf_size` (`buffer_state.cpp:108-111`, `buffer.cpp:50`); and the link to a hub is
  built with `connect_to_hub` false (`routers/iq_router.cpp:134`), so that 34 slots per VC are
  counted on where the hub has 16.  `CreditsFit` excludes both by name.
- The grid has `Core_x + 2` columns while `k` is 6: only `Core_x = 4` matches the mesh, and a
  larger grid writes past `_core` (`trafficmanager.cpp:513-523`).  Every DDR is given the first
  group of `ddr_routers` (551-553).
- `private_buf_start_vc` given as one value for several parts is read past its end, and a VC in
  no part has index -1.  `link_failures` above 0 always ends in an error: the loop declares a
  second `node` (`networks/kncube.cpp`), and other topologies have no such function.
- `tech_file` is never parsed: all power parameters are 0.  `hubstatistacks` divides by the
  number of packets of each hub (`main.cpp`), which may be 0.
- `OutputSet` drops a second range of equal priority (`outputset.hpp:59`): `tree4_anca`,
  `planar_adapt_mesh`, `chaos_*` and `min_adapt_*` offer fewer outputs than they add.
- `f->record` is used before it is set (`trafficmanager.cpp:1604-1616`).
- The event-driven router needs credits with `tail` set, and `trafficmanager.cpp:2096` sends them
  without; the chaos router needs packets of `vc_buf_size` flits without gaps.
- `_from` of the maximum-size allocator has an entry per input and is indexed by outputs
  (`allocators/maxsize.cpp:115`): with more outputs than inputs it is read past its end.
- `NumInputRequests` of the sparse allocator counts to 1; nobody calls it.
- `valiant_mesh` lets classes mix in phase 0 at a packet's own destination (1624), an odd number
  of VCs makes its halves overlap, and `ring_part` of `valiant_torus` can be uninitialised.
  `ugal_dragonflynew` says it needs three VCs (461) and is cyclic with them.  `networks/anynet.cpp:405`
  makes a link one way where the comment at 38-43 says two.
- `tornado` and `neighbor` permute only if the nodes are `(xr * k)^n`; `background` loops if all
  nodes are excluded; `asymmetric` divides by zero with one node.

## Not modelled

- Statistics, their display and sampling (`stats.cpp`, `trafficmanager.cpp` 1193-1539, 2150-2543,
  2661-3340), power (floating-point formulas over counts), `json.hpp` (a vendored library of
  24 640 lines), random number generators.
- Dead code: injection processes, `_IssuePacket`, `_GeneratePacket`, `_SingleSim`, batch mode and
  `dest()` of the traffic patterns have no caller left (the patterns are modelled all the same,
  since their constructors run); `limited_adapt_mesh`, `north_last` and `edge_direct` are not
  registered; the commented parts of `iq_router.cpp`.
- `vct = 1` of the event-driven router, VC priorities other than none, `_UpdateNOQ` beyond the
  ranges `Traffic` uses, more than one subnet, a second simulation in one run.
- Inputs of the JSON file the scheduler does not produce: an output smaller than its number of
  tiles, a core without workloads.
- A network of several routers: `router_run` has one, `route_run` has the paths without buffers,
  `link_*` one link; `Traffic` leaves the network open.
