# Verification of mpSelect and the simulator core it runs on

This directory holds TLA+ models of the multipath selection protocol *mpSelect*
(`src/mpSelect/`), a routing agent added to the ns-2 network simulator, of the
`myPing` agent (`src/myPing/`), and of the parts of ns-2 under them: timers and all
four simulated-time schedulers (`src/common/`), links and their queues (`src/link/`,
`src/queue/`), and AODV (`src/aodv/`), the on-demand routing agent that the Tcl library
offers in the same place as mpSelect.  The models are checked with TLC on small instances; most
safety properties of the table, the mpSelect network, timers, links, myPing and AODV, and
two of the refinements, are also proved with TLAPS, for tables, networks and runs of any
size.  `PROJECT.json` maps every definition to the lines it models.

## 1. The system

The repository is a fork of ns-2.  Almost all of its 6646 files are upstream
ns-2 (protocols, MAC layers, queues, the OTcl library, tests) and vendored
libraries.  The author's own code is `src/mpSelect`, `src/myPing`, the
topologies of `src/TclTestSrc`, and the lines that register the two agents in the
Tcl library (`src/tcl/lib/ns-lib.tcl:633,865-870`, `src/tcl/lib/ns-agent.tcl:201-205`).

### Components

**Routing table** (`mpSelect_rtable.cc/.h`).  State: a doubly linked
list of `route_item`s (destination segment, mask, next hop, a multipath flag and a
raw pointer to an `mpath`), a list of `mpath` objects (one per peer core), and in
each a list of `mpath_item`s (one per path: interfaces, delays, times, ping
sequence number, use count).  Operations: add and delete routes, paths and peers,
attach and detach a peer to a route, two lookups, the updates that arriving
packets make, and the iterator `get_path_item` that the ping timer uses.  What
makes it correct: a route never points at a freed `mpath`; a peer and an address
have one object; the two lookups agree; the table behaves as the map from
destinations to peers and from peers to paths that its commands describe.

**Agent** (`mpSelect.cc/.h`, `mpSelect_pkt.*`).  State: the role (core or
interface), an address `ra_addr_`, the table and a ping timer.  A *core* sends a
ping over every path once per `SEND_PING_INTERVAL`, answers the pings of its
peers, derives delays, and encapsulates data for destinations whose route is
attached to a peer, choosing a path with `select_path`.  An *interface* agent
passes mpSelect packets on: away from its core to the far interface, or towards
its core.  A packet of a path so travels core, own interface, far interface, far
core.  Operations: `recv` and the handlers it calls, the timer's `expire`, and the
Tcl commands.  What makes it correct: a packet reaches the core it is meant for
by the path it is meant for; a measured delay belongs to the ping it is computed
from; hosts do not notice the encapsulation; no packet circulates for ever.

**Timers and scheduler** (`timer-handler.*`, `scheduler.*`).  State: per timer a
status (IDLE, PENDING, HANDLING) and one event object, whose uid is positive while
it is in the scheduler's list and negative otherwise; the list, sorted by time; the
clock.  Operations: `sched`, `resched`, `cancel`, `force_cancel`, `handle`,
`schedule`, `dispatch`, and insert, cancel and deque of the list.  What makes it
correct: the three records of "this timer is set" agree, and events come out in
the order of time, then of scheduling, and never after being cancelled.

**Event queues** (`scheduler.*`, `heap.h`, `splay-scheduler.cc`).  The same interface
over a sorted list, a binary heap, a calendar queue (the default) and a splay tree.
State of the calendar: buckets of a year, the number of events and of distinct times,
the bucket and clock of the last event.  Operations: insert, deque, cancel, lookup by
uid, resize, and the script's commands `at`, `cancel`, `run`, `resume`, `halt`,
`dumpq`.  What makes it correct: all four dispatch the same events in the same order,
and an event that is queued can be found to be cancelled.

**Links and queues** (`dynalink.cc`, `queue.cc`, `drop-tail.cc`, `priqueue.cc`,
`delay.cc`).  State of a direction of a link: up or down, the packets waiting, the
`blocked_` flag, the packets on their way, and the event by which the link calls the
queue back.  Operations: `recv`, `resume`, `handle`, `reset`, `shrink_queue`, and
changes of delay, limit and status while packets are on the way.  What makes it
correct: a blocked queue is always called back, once; packets do not overtake each
other; none stays behind.

**myPing** (`myPing.cc`).  Keeps no state: the sending time travels in the packet.  What
makes it correct: an agent reports round-trip times of its own pings.

**AODV** (`aodv.cc`, `aodv_rtable.cc`, `aodv_rqueue.cc`).  State of a node: a sequence
number, the routes with their number, hops, next hop, flags and request state, the
requests seen, a buffer of data without a route.  Operations: data from above and from
neighbours, requests, replies and errors, packets the MAC gives back, the timer of a
local repair, the periodic `rt_purge`.  What makes it correct: no routing loops;
sequence numbers come from the nodes they are about; no data waits for ever.

**Around them**: the TTL check of links (`src/common/ttl.cc`), the node classifiers
that route by address, MAC layers, packet allocation, tracing, and the other agents
of ns-2.

### Interaction

The simulator is one thread: the scheduler takes the first event, and the handler
runs to its end.  Components interact by direct calls inside a handler
(agent -> table, agent -> timer), by packets handed to `target_`, which come back as
later events at another node, and by timer events.  Interleaving is therefore
between *handlers*: any packets in flight, timers due and Tcl commands of the
script may come next in any order.  Two pieces of state are shared in less visible
ways: the static cursor of `get_path_item` is shared by all agents, and a route and
the `mpath` list share `mpath` objects by address.

### What is hard

Answers that return after later pings have overwritten the stored sending time;
commands given in the middle of a measurement; heap addresses freed and used
again; iteration over a list that the loop body changes; packets that come back to
the node they are sent from, where no link counts their TTL; timers rescheduled or
cancelled by other handlers or inside their own `expire()`; loss and reordering on
the links; a year of the calendar searched while it is being resized and its clock is
set back; a link that goes down, or whose delay is shortened, with packets and a call
to the queue on the way; routes that fail, expire and are repaired in any order with
the messages about them.  `PROJECT.json` lists these hazards line by line with the properties
aimed at them.

## 2. The modules

| Module | Models | Role |
|---|---|---|
| `MpRtable` | `mpSelect_rtable.cc/.h` | every method of `mpath` and `mpRtable` as an operator on a table value |
| `MpTypes` | the classes of `mpSelect_rtable.h` | the types of a table, and what is true of every table the methods make (`Good`) |
| `MpTable` | the table-changing commands and handler calls | state machine: one table, any order of operations |
| `RouteMap` | what the table promises | abstract specification: maps, no pointers |
| `TableMap`, `MpTableRefinement` | | the map a table stands for; the mapping from `MpTable` to `RouteMap` |
| `PingRound` | `get_path_item`, the loop of `send_ping_handler` | one step per call, with the static cursor and several agents |
| `MpSelect` | `mpSelect.cc`, `ttl.cc`, `ll.cc` | a network of agents, packets in flight, timers, commands |
| `TimerHandler` | `timer-handler.*`, `scheduler.*` (list scheduler) | timers and the event list |
| `EventQueue` | what a scheduler promises | abstract specification |
| `HeapQueue`, `CalendarQueue`, `SplayTree` | `heap.h`, `CalendarScheduler`, `splay-scheduler.cc` | the structures, as operators on values |
| `Schedulers` | `Scheduler` with any of its four queues | state machine, implements `EventQueue` |
| `SimpleLink` | `dynalink.cc`, `queue.cc`, `drop-tail.cc`, `priqueue.cc`, `delay.cc` | one direction of a link, as operators on a record |
| `MyPing` | `myPing.cc` over a duplex link | two agents, two `SimpleLink`s, a routing agent, commands |
| `Aodv` | `aodv*.cc` | the handlers of a node, as operators on a step |
| `AodvNetwork` | the agents, the radio between them, their timers | state machine |
| `ListLemmas`, `MpRtableProofs` | | lemmas on sequences; lemmas on each method of the table |
| `MpTableProofs`, `PingRoundProofs`, `MpSelectProofs`, `TimerHandlerProofs`, `MyPingProofs`, `AodvProofs` | | theorems about the state machines |
| `MC...` | | the instances TLC checks |

Names are the source's.  A C++ method is an operator of the same name
(`add_mpath`, `update_sdelay`); a command or handler is an action
(`DeleteSelect`, `RecvPing`).

**`MpRtable`**.  A table is a record of the two lists, newest first as the code
keeps them, and a status.  An `mpath` object carries its heap address, because
routes refer to it by address; allocation is a choice of any address not in use, so
a freed address may come back for another peer.  Of the back links only
`prev_select` is kept as data, since only `delete_select` depends on it.  A NULL
dereference makes the status `"crashed"` and a loop without progress `"hung"`, after
which nothing happens any more.  `delete_select` reads `next_select` of an object it
has just freed: `free()` overwrites at most the object's first two words, and
`next_select_` is not one of them, so the model lets the walk go on.

**`MpTable`**.  One action per command of `mpSelect::command`, one per use a packet
handler or the timer makes of the table.  The sequence number `ping_seq_` wraps at
`SeqSpace`, which is 2^32 in the code.

**`RouteMap`**.  Routes are a list of (segment, mask, hop, peer or none); each peer
has a list of interface pairs.  Deleting a peer detaches its routes.  Traffic changes
nothing.

**`PingRound`**.  The other models give a round of pings in one step: the pings are
those of the table before the round, and the table afterwards is `ping_round`.  This
module takes the loop apart: each call of `get_path_item` moves the static cursor,
each turn sends one ping and updates the list under the cursor.

**`MpSelect`**.  One action is one call of `recv` (split by what it does:
`RecvLooped`, `ForwardMpS`, `RecvPing`, `RecvBak`, `RecvData`, `RecvPlain`), one timer
expiry (`Expire`, with the whole round), or one command (`Start`, `StopPing`,
`DeleteMpPath`, `AddMpPath`).  `net` is the set of packets in flight, each with the
node it comes up at next; `Launch` is what happens between two agents.  On wires
(`OnWire`) classifiers deliver by destination address, with one off the TTL and a drop at
zero; a packet to the node it is on crosses no link and is due again at once (`local`).
Through a MAC (`OnAir`) the LL delivers to `next_hop`, not to the destination address, and
the MAC counts `num_forwards` and turns the direction up; a packet that is still turned up
from an earlier MAC the LL hands back to its own node, whoever sends it, so that no
mpSelect packet crosses two MACs.  Who hears a packet takes it if it is for this node or if
the agent is the default target of the node's classifier (`Default`); any other is routed
on by address.  `Tap` says which data a node's classifier hands to the agent, the way
`RouteLogic` is set up in the script.  A broadcast that an agent on wires sends finds no
slot in the classifier, and `Classifier::no-slot` exits (`ns-lib.tcl:1932`, `NoSlot`).
Packets carry history fields (`orig`, `nth`, `via`, `flow`) that only the properties read.

What a script has to set up is stated as three assumptions on the constants.
`WiringAssumption`: a core is created with its own address and an interface agent with its
core's or its own (as `create-mpselect-agent` does); every path given to a core, at time 0
or by a command, leads through an interface of this core and one of the peer (`Wire`); the
tables at time 0 are ones the commands make (`Good`).  `SetUpAssumption`: at time 0 no ping
has been sent, so every path counts from 0.  `FlowAssumption`: data comes from
hosts, whose addresses are not those of agents, by wire or through a MAC, and no host
sends packets of type `PT_MPSELECT`; it may go to any address, that of an agent's node and
the broadcast address included.  Data that an agent's own node sends is left out.  Nothing in the code checks a path's wiring, and with
other paths packets end up at agents that know nothing of them.

**`TimerHandler`**.  The list is a sequence of (event, time, uid).  A handler's run is
bracketed by `Dispatch` and `EndExpire`, and every call on every timer may happen in
between, which covers calls from `expire()` and from other handlers.  Each `abort()` of
the code is a value of `aborted`.

**`Schedulers`** and its three structures.  An event is its time and its uid.  The heap
is the array with `heap.h`'s sifting, the tree is splayed as in the code, and the
calendar has its buckets, counters, year search, direct search and resizing.  Which
width a resize computes, and when `deque` resizes for the width alone, depends on
averages of gaps and search lengths; here it may be any of `Width` at any time, so
`insert` and `deque` give sets of calendars.  The calendar's asserts and the "did not
find it" aborts are `aborted = "lost"`.  `Restart` and `Clear` of `EventQueue` are what
the commands `run` (which resets the clock) and `dumpq` do.

**`SimpleLink`**, **`MyPing`**.  A link record holds its own events in the scheduler, the
packets on their way and `intr_`, with time and uid, and `itq_` of a dynamic link holds the same events; `MyPing` dispatches the first
of all events of both directions.  The answer to a ping is sent in the event of its
arrival, as in `recv`.  The mode of a link (plain, dynamic, `avoidReordering_`), a
preference for routing packets and `drop_front_` are chosen initially.

**`Aodv`**, **`AodvNetwork`**.  A handler is an operator from a step (node, messages sent,
status) to a step, in the order of the code, so that an `assert` that fails midway, or
the copy of a packet that has been freed, ends in a status of its own.  Time is
abstracted: a route that is up may have expired at any `rt_purge`, the `rt_req_timeout` of
each destination may have passed or not (`due`), and the timer of a repair comes at any moment.
`PriQueue::filter`, by which AODV takes packets back from the interface queue, chooses
any of those on their way to the neighbour.  Copies of a request that the receiver
already knows are left out: their arrival would change nothing.

## 3. The runs

| Run | Instance | What it shows |
|---|---|---|
| `table_structure` | 2 peers, 3 addresses, 2 routes over 2 overlapping masks | no sequence of commands leaves a dangling route or a second object for a peer (`NoDangling`, `UniqueSelects`); the two lookups agree (`FindMPAgrees`); the process crashes exactly when `delete-select` names a peer that is not the newest (`CrashesOnOlderPeer`); the pointer structure implements `RouteMap` |
| `table_paths` | 1 peer, 4 interface pairs, duplicates, clock 0..3 | a lookup hangs only on a peer with two different paths (`HangNeedsTwoPaths`); traffic never changes the map |
| `ping_round` | 2 agents, every table of at most 2 peers with at most 2 paths, 2 rounds | the loop sends exactly the pings and leaves exactly the table of the one-step round (`RoundIsAtomic`), and its shared cursor is NULL between rounds (`CursorAtRest`) |
| `ping` | up to 3 paths, loss, any order, one command at any moment, one interface with its own address, one path whose interfaces send through MACs | every ping in flight or answered can be dated from the last sending time and the sequence numbers while the rhythm is kept (`SendTimeRecoverable`); paths are not mixed up (`ArrivesByItsPath`); a packet comes back to an interface only where that has its own address or a MAC (`InterfaceForwards`); interface agents with the sender's address, and no others, count its IP header again, each once (`HeaderPerOwnAgent`); a started agent always has its timer pending within one interval, so `stop-ping` does not abort (`StartedMeansPending`); all other packets leave the network, unless one that circles without taking time stops the clock (`Drains`) |
| `data` | any 2 of 6 flows: to hosts by multipath, by a route that leads back to the agent and by multipath without a route at its end; to a core's own node; to the node of an interface agent with its own address; to everyone. Both cores ping; core 20 on a MAC | hosts get what was sent (`Transparent`); packets keep to their path, but for the answers of the core on the MAC, which skip its interface (`ArrivesByItsPath`); loops end by `recv`'s own TTL count (`Drains`); what `recv` drops as a loop has been there before or was sent through a MAC by the core whose address the agent has (`LoopDropNeedsMac`); only local data and broadcasts reach the unset `dmux_` or a classifier without a slot (`AbortNeedsLocalData`) |
| `timers` | 2 timers, delays -1..1 | status, uid and list agree (`PendingIsQueued`); the three defensive aborts are dead code (`DefensiveAbortsUnreachable`); the list implements `EventQueue`; timers left alone come to rest (`TimersComeToRest`) |
| `schedulers` | the four kinds, nine events, then four calls | every kind implements `EventQueue`; the calendar's counters are true (`CalendarCounts`); `cancel` finds what is queued (`LostOnlyByDumpq`) |
| `link` | every kind of link, 3 pings, a routing packet, 2 commands | a queue is blocked exactly while its callback is scheduled (`BlockedMeansCallback`); the assert of `LinkDelay::handle` needs a shortened delay (`AssertNeedsShorterDelay`); order is kept (`NoOvertaking`); reports are about own pings (`ReportsOwnPings`); everything comes out or is dropped (`LinksDrain`) |
| `aodv` | 4 nodes in a row, weak last link, two packets of one flow, two faults | next hops form no loop until a local repair is given up (`LoopFree`); asserts fail only after a local repair (`AssertNeedsRepair`); nobody is ahead of the owner of a number (`SeqnoFromOwner`); a packet is copied after it was freed only when an earlier repair of the same route is under way (`FreedNeedsTwoRepairs`); all data arrives or is dropped (`Drains`) |
| `path_choice` | as `table_paths` | **violated**: `select_path` picks a path that has been silent too long |
| `delay` | 1 path, 2 commands of `start`, `stop-ping`, `delete-mp-path` and `add-mp-path` | **violated**: an answer is dated by another ping than its own |
| `aodv_asserts` | the row of `aodv`, with wider rings, and the second packet the repairing node's own | **violated**: the second data packet given back meets a route under repair, and `handle_link_failure` asserts |

Every property that holds has a mutant in `PROJECT.json`: a changed form of one definition,
kept beside it as a "Variant", under which the same run finds the property violated.

### Bounds

* Times are ticks.  The code's `SEND_PING_INTERVAL` (1.0 s) and `ALIVE_INTERVAL`
  (2.0 s) are 1 and 2 ticks.
* `ping` has two rounds and one command: enough for an answer to be a round late, for a
  path to be added, deleted or pinged out of rhythm with packets on the way, and for a
  packet to reach the interface that sends it back to itself.  Its `steady` is true
  until a command breaks the rhythm.
* `is_alive` lets only paths be chosen that have been silent for more than
  `ALIVE_INTERVAL`; the runs with data let the clock go beyond it.
* `IP_DEF_TTL` is 5 to 8 instead of 32: enough for the four links of a path, and small
  enough that a loop runs out.
* `SeqSpace` is 1 in the table runs and 3 in `ping_round`, so that the sequence number
  wraps, and 100 in the network runs, where it never gets there: in the code 2^32 pings
  at one a second take 136 years of simulated time.
* Three heap addresses for two peers let an address be freed and reused while a route
  still holds it.  The addresses are interchangeable, and the table runs use that
  symmetry (no liveness is checked in them).
* `schedulers`: the nine events have eight distinct times, just what a calendar of four
  buckets takes, so that the next call makes it grow; the calls that follow let it be
  shrunk, cleared, cancelled from, restarted and scheduled into the past.  `KeySpace`, at
  which the heap's order of equal times wraps (2^32 in the code), is 100 and not reached;
  at 3 TLC finds `EventQueueSpec` violated by the heap.
* `link`: pings take one tick to transmit and routing packets two, delays are 1 or 3 and
  limits 1 or 3, so that queues fill, packets overtake and limits fall below the length.
* `aodv`: the row is long enough for a node to repair a route in the middle and for one
  that only relays; `RREQ_RETRIES` 0 and `AODV_RTQ_MAX_LEN` 1 let both limits be met.
  The one weak link fails data and loses routing packets.  `MaxFaults` counts packets
  given back and routes expired; it is 2, so that a second packet is given back while its
  route is under repair.  `NETWORK_DIAMETER` is 3, the length of the row, and
  `TTL_THRESHOLD` 1, so that a repair asks the whole network at once.  With one ring before
  that (`TTL_THRESHOLD` and `TTL_INCREMENT` 2) the invariants hold in 841,939 states, too
  many for the liveness check.
* `data` has the clock go to 2, so that a path is silent for long enough to be used, a core
  on a MAC answers a ping, and data meets the answers.  `MaxSent` is 2: data packets meet
  in the network only by the table they refresh and the loops they share, for which two
  are enough.
* `MaxCmds`, `MaxSent`, `MaxTime`, `MaxRoutes`, `MaxPaths`, `MaxUses`, `MaxLag`, `MaxRounds` and the
  bounds of the timer run are guards, named in the modules.

Deadlock is not checked: at the bounds of the clock and the commands, after a crash or
hang, and when the event list is empty the system really stops.

### Fairness

`MpSelect` assumes weak fairness of the delivery of packets that are due now
(`DeliverLocal`), and, only when there are none, of the others (`DeliverLater`): a packet
in flight is an event in the scheduler's list, and `Scheduler::run` dispatches the first
event until there are none.  A packet that an interface agent sends to its own node with
`schedule(target_, p, 0.0)` is always the first; it stops the clock (`Tick`) and nothing
else is dispatched any more, which `Drains` says.  `TimerHandler` assumes weak fairness of `Dispatch \/ EndExpire`: the same loop, and
handlers that return.  `MyPing` assumes it of `Dispatch`, for the same reason, and
`AodvNetwork` of `Scheduled`: a packet on the air comes up or is lost, and `rt_purge`
runs every half second, by which time a request timeout has passed.  Nothing is assumed of commands, of hosts, of losses or of calls on
timers.

## 4. What is proved

Each theorem holds for every value of the constants that satisfies the named
assumptions, and the assumptions are evaluated by TLC in the runs.  None of the invariants
below is inductive as it stands; each subsection names the strengthening.  One lemma per
method or action says that it keeps the inductive invariant, and `PTL` combines the steps.

### The table

| Module | Theorem | Statement |
|---|---|---|
| `MpTableProofs` | `TypeCorrect` | `Spec => []TypeOK` |
| | `RoutesNeverDangle` | `Spec => []NoDangling` |
| | `SelectsStayUnique` | `Spec => []UniqueSelects` |
| | `FindMPSound` | `Spec => []FindMPAgrees` |
| | `HangCharacterised` | `Spec => []HangNeedsTwoPaths` |
| | `CrashCharacterised` | `Spec => CrashesOnOlderPeer` |
| | `TableImplementsRouteMap` | `Spec => RouteMapSpec` |

For any sets of peers, interfaces, segments, masks and heap addresses, any bounds, and any
`BitAnd`; from `PtrAssumption` (NULL and uninitialised memory are not heap addresses),
`IntervalAssumption`, `SeqSpaceAssumption` and `BoundsAssumption`.

`NoDangling` needs `UniqueSelects`: `delete_select` unmarks the routes whose object has the
peer's address and frees the object it finds for the peer, and these are the same only if a
peer has one object and an address one object.  The crash theorem needs the fact that no
object ever has a `prev_select` (`NoBackLinks`), because only then every deletion that is
not at the head dereferences NULL.  The inductive invariant
`IInv == Good(table) /\ now \in Nat` collects these: types, live pointers, distinct objects
and no back links.  `FindMPAgrees` follows from it state by state: a marked route has a
live pointer, hence not NULL.  The hang theorem has an induction of its own on top of
`IInv`, that a hung table has a peer with two different paths.

For the refinement, `MpRtableProofs` says of every method what it does to the routes and
the peers that a `Good` table stands for (`AbsRoutes`, `AbsPeers` of `TableMap`): adding a
path changes one peer's list, deleting a peer unbinds its routes and removes it, and the
updates that packets make change nothing (`SameMap`).  `Good` is needed because the map
reads a route's peer through its pointer.  These lemmas speak of a table, not of `MpTable`,
and the network's proofs use the same ones.  `ListLemmas` holds the facts on sequences (what
`RemoveAt`, `Tail` and consing keep, that the first position of a match is one).

### The ping loop

`PingRoundProofs`, for any number of agents and tables of any size, from
`RoundAssumption` (the tables a round starts from are `Good`, as the theorems above say of
every table of `MpTable`) and `SeqSpaceAssumption`:

| Theorem | Statement |
|---|---|
| `CursorComesToRest` | `Spec => []CursorAtRest` |
| `RoundsAreAtomic` | `Spec => RoundIsAtomic` |

`MpTable` and `MpSelect` take a round for one step; these theorems are what allows that.
The invariant `RoundOK` describes a round half done: the table is the one before the round
in which the paths up to the cursor have been pinged (`Pinged`), the pings sent are those of
these paths, all different, and no other agent's table has changed.  `NextPath` says that
`get_path_item` goes to the path after the cursor, and `PingedStep` what one
`update_ping_info` makes of a half-done list.  With two entries for one pair of interfaces
the update always takes the first of them, which then counts once for each (`Turns`); the
one-step round adds their number at once, and `ModStep` says that counting one by one
modulo `SeqSpace` gives the same.  Since the loop itself is the induction, none over data
is needed.

### The mpSelect network

`MpSelectProofs`, for any number of nodes, cores, interfaces and flows, any tables, losses
and bounds, from `NetworkAssumption`, `WiringAssumption`, `SetUpAssumption` and
`FlowAssumption` (section 2):

| Theorem | Statement |
|---|---|
| `NetworkInvariant` | `Spec => []IInv` |
| `NetworkTypes` | `Spec => []TypeOK` |
| `PathsAreNotMixedUp` | `Spec => []ArrivesByItsPath` |
| `InterfacesMoveOn` | `Spec => []InterfaceForwards` |
| `HostsNoticeNothing` | `Spec => []Transparent` |
| `StartedStaysPending` | `Spec => []StartedMeansPending` |
| `OnlyLocalDataAborts` | `Spec => []AbortNeedsLocalData` |
| `LoopDropsExplained` | `Spec => LoopDropNeedsMac` |
| `SendTimesRecoverable` | `NoWrap => (Spec => []SendTimeRecoverable)` |

`ArrivesByItsPath` only speaks of packets at a core.  The invariant says of a packet
anywhere that it is at a stage of its path, has passed the stages before and has the far
interface or the one it is at as its next hop (`OnPath`), since a MAC goes by that.  The one
exception is `Skips`: an answer leaves its core with the far interface as its next hop
(`mpSelect.cc:290`), and a MAC takes it there directly.  It also says that
a path in a header or in a table is a path of the topology (`Wire`, `Wired`), and that the
tables are `Good`, since a dangling route could name any path.  A ping keeps its sender's
address, and before its first interface has been through a MAC only if its core has one
(`PingOK`): that gives `LoopDropNeedsMac` and `InterfaceForwards`.  Encapsulated data
carries the address, port, type and size it needs to be restored (`DataFor`), and any other
packet has those of its flow (`PlainOK`): that gives `Transparent`, for any number of
encapsulations.  That a packet is turned up only by a MAC or by decapsulation at the node
it is for (`TurnedOK`), and where it may then be, gives `AbortNeedsLocalData`, with data
for any address.  Without `WiringAssumption` `ArrivesByItsPath` is false: an agent believes
whatever path it was given.

`SendTimesRecoverable` is about `ping_seq_` and `ping_send_time_`, which a core overwrites
with every round, and about packets that are anywhere.  `DateInv`, an invariant on top of
`IInv` for as long as `steady` holds, says three things.  No list has two entries for one
pair of interfaces (`PathsOnce`); with two, a round would add two to the first one's number
and none to the other's.  An entry that has been pinged was so one interval before its
timer is due, and has been pinged at most once for every interval that has passed (`Beat`);
so one round moves the number by one and the time by one interval, and the sum that
dates an earlier ping stays the same (`RoundDated`).  And the path that a ping or answer in
flight measures is in its core's table and dates it right (`Dated`); so a path added
during the run, whose number is 0, is never the one that a packet already in flight asks
about (`GrownDated`).  An answer measures the path its ping measured, reversed
(`AnswerEchoes`), and no other handler touches numbers or sending times (`SameClocks`).

The hypothesis `NoWrap`, `MaxTime + SEND_PING_INTERVAL < SeqSpace * SEND_PING_INTERVAL`,
says that the simulation ends before a sequence number wraps: after 2^32 rounds of one
second in the code.  It cannot be dropped, because `update_send_delay` compares the numbers
as they are.

### Timers and the event list

`TimerHandlerProofs`, for any number of timers, any set of integer delays (zero and
negative ones too) and any bounds, from `TimerAssumption`:

| Theorem | Statement |
|---|---|
| `TimersTypeCorrect` | `Spec => []TypeOK` |
| `StatusUidListAgree` | `Spec => []PendingIsQueued` |
| `DefensiveAbortsAreDead` | `Spec => []DefensiveAbortsUnreachable` |
| `ListImplementsEventQueue` | `Spec => EventQueueSpec` |

That `handle()` finds its timer pending needs that only events of pending timers are in the
list, that `schedule` finds no valid uid needs that the uid's sign is the status, and both
need that an event is in the list once, because cancelling takes out only the first.  `TInv`
is the conjunction; three lemmas say what `insert`, `unlink` and `Tail` do to the set of
events in a list and to their being there once.  The refinement adds `QInv`: the list is in
the order of time and then of uid, and no uid in it is yet to be given out; so `insert` puts
an event where `EventQueue` would dispatch it, and the head is the earliest.

### Links and myPing

`MyPingProofs`, for any configurations, delays, limits, transmission times and numbers of
packets, from `LinkAssumption` and `MyPingAssumption`:

| Theorem | Statement |
|---|---|
| `LinksInvariant` | `Spec => []IInv` |
| `QueueIsCalledBack` | `Spec => []BlockedMeansCallback` |
| `AssertHolds` | `Spec => []AssertNeedsShorterDelay` |
| `ReportsAreOwn` | `Spec => []ReportsOwnPings` |
| `PingsKeepTheirOrder` | `Spec => NoOvertaking` |

The invariant says of each link that no event is overdue (`NotLate`), that `itq_` of a
dynamic link is what is on the way, in the order of sending (`ItqOK`), that what is sent now
comes out after what is on the way (`TimesOK`), that pings and answers belong to pings that
were sent and are as old as their crossings (`ContentOK`), and of both links together that
answers come before the pings still to be answered (`OrderOK`).  The assert of
`LinkDelay::handle` needs `TimesOK` *and* the order of `itq_`; order needs both links,
because the order of answers is that of the pings' arrivals on the other one.

### AODV

`AodvProofs`, for any finite set of nodes, any links and flows, any number of faults, from
`AodvAssumption`:

| Theorem | Statement |
|---|---|
| `AodvTypes` | `Spec => []TypeInv` |
| `NumbersFromOwner` | `Spec => []SeqnoFromOwner` |
| `RoutesLoopFree` | `Spec => []LoopFree` |
| `AssertsNeedRepair` | `Small => (Spec => []AssertNeedsRepair)` |

`LoopFree` is about cycles of next hops.  The invariant says of one hop that the next
node's entry is better than one's own: its number is higher, or the same with fewer hops
(`HopOK`); of a request or reply in flight that its sender's entry is better than what it
offers (`RreqOK`, `RrepOK`); and that numbers of routes in use are even and at most their
owner's, while those of broken ones are odd, so that a broken route never ties with one in
use (`EntryOK`).  Entries only improve (`Improves`), so a step of one node keeps what its
neighbours know of it.  Among finitely
many nodes that lead to each other one has the best entry, and its next hop would have a
better one.  All of it holds
until a local repair is given up (`undone`), as in the run.

An assertion of the handlers fails when flags, hop count and number of a route disagree.
The code marks a broken route by the hop count `INFINITY2`, so they would disagree as soon as
a route in use had that many hops, and no handler looks at that.  `AssertsNeedRepair` shows
that the size of the network keeps the counts below: `HopInv` says that whoever has or
offers a route of h hops was led there by h - 1 different nodes, each with a better route
(`Far`, counted by `Closer`), and of a request that it has come through as many nodes as it
counts hops, each of which has seen it (`Through`).  A node that passes a route on offers one
hop more than it has itself and so is one of the better ones, and not counted before; one
that has seen a request drops it.  The theorem's hypothesis `Small` is that there are fewer
than `INFINITY2` nodes, 255 in the code.  In a longer row, where nodes in the middle answer
from the routes they have, counts may get there.

### Only model-checked

* Liveness (`Drains` of both networks, `TimersComeToRest`, `LinksDrain`): outside what the
  prover handles, like `ENABLED`.
* `HeapQueue`, `SplayTree`, `CalendarQueue` and `Schedulers`: sifting, splaying and draining
  are recursive.

## 5. Where code and comments disagree

Shown by runs:

1. `is_alive` (`mpSelect_rtable.cc:178`) answers the opposite of its comment, so data
   goes only over silent paths (`path_choice`).
2. The delay computed from an answer assumes an unbroken rhythm of pings; `start` during
   a run breaks it (`delay`).  After deleting and re-adding a path, whose new entry counts
   from 0 again, an old answer yields a negative delay: the same run with `Operated` empty.
3. A route under local repair keeps its hops and next hop, so that a second failure on
   the same link takes it for one in use; `assert (rt->rt_flags == RTF_UP)`
   (`aodv.cc:357`) ends the simulator (`aodv_asserts`).

Characterised by properties that hold:

4. `forward_mpS_pkt` works only if an interface agent is created with its *core's*
   address; created with its own, as `create-mpselect-agent` does, it sends every packet
   to itself (`InterfaceForwards`), and the simulated clock stands still (`Drains`).
5. With the core's address, `recv`'s loop check drops the core's own packets at the
   interface when a MAC has counted the hop (`LoopDropNeedsMac`).
6. The IP header of a ping or answer, part of its size from the start (`mpSelect.cc:52`
   and 288), is added again at the interface agent with the core's address
   (`mpSelect.cc:86`, "添加ip报头"), which takes the packet for a new one of its own
   (`HeaderPerOwnAgent`).
7. The answers of a core on a MAC go past the core's own interface (`ArrivesByItsPath`),
   and what has come through a MAC does not leave through another: the LL takes it for
   incoming and returns it (`InterfaceForwards`).
8. The loop of `is_alive` does not advance, so a peer with two different paths hangs the
   simulator (`HangNeedsTwoPaths`).
9. `delete-select` of a peer that is not the newest dereferences NULL
   (`CrashesOnOlderPeer`).
10. Data for a core's own node, data through a MAC for the node of an interface agent
    with its own address, and broadcasts through a MAC are passed to `dmux_`, which
    nothing sets: `mpSelect::command` does not know the `port-dmux` that
    `add-target-rtagent` of `ns-mobilenode.tcl` gives to routing agents
    (`AbortNeedsLocalData`).
11. `dumpq` takes events out and leaves their uid positive; a later `cancel` of one
    aborts on a list, calendar or tree, and succeeds silently on a heap
    (`LostOnlyByDumpq`).
12. Shortening the delay of a dynamic link with packets on their way makes them come out
    in an order that `LinkDelay::handle` asserts against (`AssertNeedsShorterDelay`).
13. `LocalRepairTimer::handle` brings a route down without raising its number and
    without the error messages that its comment announces (`aodv.cc:199-200`), so that
    the nodes upstream keep the route and the node may take an older one that leads back
    to itself: `LoopFree` excepts the states after that (`undone`), and without the
    exception TLC finds a loop.
14. `local_rt_repair` copies the packet after `sendRequest`, which may have dropped it
    from the buffer and freed it (the status `"freed"`): the second packet given back
    during a repair is (`FreedNeedsTwoRepairs`).

Met while modelling, visible in the definitions: the heap's second key wraps after 2^32
insertions, and simultaneous events are then not dispatched in the order that
`sim.tex:60-64` promises (`KeySpace`); `send_delay_` ends at the *sending* of
the answer (`mpSelect.cc:306`), while `mpSelect_rtable.h:21` says its receipt; `sched` aborts inside a timer's own `expire()` too, while
`timer-handler.h:83` only says "cannot be pending"; a queue with limit n holds n - 1
packets and the one it lets go (`drop-tail.cc:92`); the timer of a local repair is
scheduled with the absolute `rt_req_timeout` as its delay (`aodv.cc:399`); `TTL_START`
is used for no destination that was never reached, since `rt_last_hop_count` starts at
`INFINITY2`.

## 6. What is not modelled

* Formatting and output: `print`, `addr2str`, tracing.
* `mpRtable::clear`, which nothing calls; agents told neither `core` nor `intf`.
* In the mpSelect network, links beyond TTL, `num_forwards`, direction, loss and
  arbitrary delay; MACs, ARP and the radio beyond who gets a packet; data sent by an
  agent's own node, which `recv` treats as its own.
* The order in which one `rt_purge` sends the requests for several destinations: the model
  takes them by address, the code by their place in the table.  It decides which of them
  gets which request number.
* Of queues, limits in bytes, utilisation statistics, and the disciplines other than
  `DropTail` and `PriQueue`.
* The overflow of AODV's `unreachable_dst[100]` (`aodv.cc:360`): the model has a set.
* The real-time scheduler: it adds waiting for the wall clock and Tcl's I/O to the
  calendar queue.  Packet allocation: a free list used inside single handlers.
* Of AODV, hellos and the neighbour list (never started with
  `AODV_LINK_LAYER_DETECTION`), `id_purge`, the buffer's 30 s timeout, the latency
  history, and broadcast data.
* The rest of upstream ns-2.  Of about 310,000 lines, mpSelect, myPing and what they run
  on are a few thousand.  The others are some hundred protocols and traffic generators
  (TCP variants, SCTP, 802.11 and 802.15.4 MACs, DSR, TORA, diffusion, satellites, web
  caches, ...) and generated Tcl tables, independent of each other and of mpSelect; each
  would be a development of its own, so the map covers a small share of the
  repository's lines and most of those of the parts it is about.

## 7. Plan

Done, in this order: the table and its abstract map; its proofs; the ping loop; the
network; timers and the list scheduler, with their proofs; the other schedulers; links,
queues and myPing; AODV; the proofs of the two refinements, of the ping loop, of the
links, of AODV and of the mpSelect network, ending with the dating of pings and the hop
counts of AODV.  Next:

1. Packet allocation and the free list; the mpSelect network over `SimpleLink`s.
2. `CalendarCounts` for calendars of any size, with `deque`'s search as a definition
   without recursion.
