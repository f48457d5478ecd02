# SmeshLink libraries: TLA+ models, checks and proofs

This directory holds the formal models of the SmeshLink Arduino libraries. They
cover the mesh protocol (`src/MxBmesh` on `src/MxRadio`) and the Contiki kernel
under the `iduinos` core (`src/iduinos`). Every definition that stands for code is
listed in `PROJECT.json` ("map") with the lines it translates.

## 1. The system and its parts

The repository is a set of Arduino libraries for SmeshLink's ATmega RF nodes.

| Part | Source | State | Operations |
|---|---|---|---|
| Frame rings | `MxBmesh/Queue.cpp` | `front`, `rear`, slots | `inqueue`, `dequeue`, `peerqueue`, `init_queue` |
| Mesh link layer | `MxBmesh/MxBmesh.cpp` | `rxqueue`, `txqueue`, `retrysend`, `needchecksenddone`, `needrecievebroadcastdata` | `recievehandler`, `sendbmeshdata`, `handlerftx`, `onXmitDone`, `timer2function`, `poll` |
| Mesh routing | `MxBmesh/MxBmesh.cpp` | `pathnode`, `lasthandledseq`, `lastrbseq`, `sendpacketseq`, `uploaddataAcked`, `NODEINFO` | `handlerfrx`, `package_recieve`, `uploaddata`, `broadcastdata` |
| Configuration | `MxBmesh/MxBMeshConfig.cpp` | EEPROM image | `LoadCONFIG`, `SaveCONFIG` |
| Neighbour table | `MxBmesh/MxBmesh.cpp:50-67,431-440,594-627` | `neigbour[MAX_NB]` | entry on NB/RB, ageing |
| Serial line of the sink | `MxBmesh/MxBmesh.cpp:699-893` | receive buffer | framing, unframing |
| Radio driver | `MxRadio/MxRadio.cpp`, `uracolib/radio_rfa.c` | `radiostatus`, `txIsBusy`, receive FIFO | `endTransmission`, `radio_set_state`, interrupt handlers |
| Sleep timer | `MxTimer2` | timer registers | `set`, `start`, `sleepms` |
| Contiki kernel | `iduinos/sys/process.c` | process list, event queue, `poll_requested` | `process_start`, `process_exit`, `process_post`, `process_post_synch`, `process_poll`, `process_run` |
| Contiki timers | `iduinos/sys/etimer.c`, `ctimer.c`, `timer.c` | timer lists, next expiration | set, reset, stop, poll |
| C++ wrappers | `Contiki/Timer.cpp`, `Contiki/Process.cpp` | one timer, list of processes | `start`, `stop`, `run` |
| CoAP server | `CoAP/` | resource list, separate response | `accept`, `send` |
| Sensors, camera, cloud client | `MXS*`, `MXN820`, `MXS2101`, `misty_arduino` | none that outlives a call | bus reads, unit conversion, HTTP |

Vendored and generated code (`arduino_uip`, `NanodeUIP*`, `contiki_*`, the board
and register headers of `uracolib`) is left aside.

**How the parts interact.** A mesh node is one main loop, the sketch's `loop`
calling `MxBmesh.poll`, and interrupt handlers. The receive interrupt calls
`recievehandler`, which fills `rxqueue`. The transmit-end interrupt calls
`onXmitDone`, which empties `txqueue`. The timer interrupt calls
`timer2function`, which may send. The main loop takes frames from `rxqueue`
(`handlerfrx`), answers and relays by way of `sendbmeshdata` into `txqueue`, and
transmits the front of `txqueue` (`handlerftx`). They share the rings, the retry
counter, the wake-up mark and the radio state without a lock. Between nodes there
are only frames: a unicast is acknowledged by the receiver's transceiver and sent
again up to `RETRYSEND_MAX` times, a broadcast is sent once. The computer on the
sink's serial line decides everything else: it floods route broadcasts (RB) and
sends commands down explicit paths.

**What is hard.** Interrupts between any two steps of the main loop; slots read
after they have been given back; frames lost, repeated and overtaken; one
remembered sequence number per source to tell repeats from new messages; restarts
by watchdog or command in the middle of an exchange, a save or a serial frame; full
rings; timers that are stopped and set again while their events wait. `PROJECT.json`
("hazards") lists each of these at its line with the property that covers it.

**What makes each part correct.**
A ring is a bounded first-in first-out buffer for its two ends.
The link layer transmits each accepted packet in order until it is acknowledged
or given up, loses no frame that fits, and goes back to listening.
Routing hands every unicast to each node once, records paths that are routes, and
floods a broadcast once. A configured node stays configured. The serial line loses
no more than the message that lost a byte. The kernel's walks along its list miss
nobody whatever the threads they call do. A timer fires once, not early, not after it
was stopped, and every request for a separate response is answered.

## 2. Modules

| Module | What it is |
|---|---|
| `Queue` | the ring of `Queue.cpp` as pure operators |
| `BoundedFifo` | abstract specification: what a ring promises its users |
| `MeshLink` | one node: main loop, interrupt handlers, radio state |
| `MeshRoute` | several nodes and the computer: routing, commands, uploads, restarts |
| `ContikiProcess` | the Contiki kernel: process list, event queue, polls |
| `ContikiTimer` | the timers on the kernel: `timer.c`, `etimer.c`, `ctimer.c`, `clock.c`, `Contiki/Timer.cpp` |
| `SeparateResource` | a CoAP resource that answers later, on top of `ContikiTimer` |
| `SerialLine` | the serial line of the sink: framing, unframing, lost bytes |
| `NodeConfig` | a node's configuration and its EEPROM image, cell by cell |
| `MeshNeighbours` | the neighbour table, entered in the main loop and aged in an interrupt |
| `SinkNode` | the sink: composes the three above with restarts |
| `MCMeshLink`, `MCMeshRoute`, `MCContikiProcess`, `MCContikiTimer`, `MCSinkNode` | instances for TLC |
| `MeshLinkProof`, `MeshFifoProof` | theorems about `MeshLink`: slots, radio, the two rings as buffers |
| `MeshRouteProof` | theorems about `MeshRoute` |
| `ContikiProcessProof` | theorems about `ContikiProcess` |
| `ContikiTimerProof` | theorems about `ContikiTimer` and `SeparateResource` |
| `SinkNodeProof`, `SerialLineProof`, `NeighboursProof` | theorems about `SinkNode`: its configuration and all types, its serial line, its neighbours |

### MeshLink

`pc` says where the main loop is; the names follow the code: `frx`/`handle` are
`handlerfrx`, `enqueue`/`reserve`/`fill` are `sendbmeshdata` (up to the read of
the rear index in `inqueue`, up to its store, up to the filled slot), `ftx` to
`sent` are `handlerftx` with `endTransmission` inside it, `power` to `woken` are the
low-power end of `poll`. A step of the main loop is a stretch of code in which an
interrupt cannot be told from one just before or after it. An interrupt handler
is one step: AVR handlers are not interrupted.

`rxq`/`txq` are the index pairs and `rxslot`/`txslot` the slots themselves, so that
a slot can be out of its ring and still in use: `handlerfrx` works on
`rxslot[rxindex]` after `dequeue`, and `handlerftx` looks into `txslot[txindex]`
(for the reboot answer) after `onXmitDone` may have removed it. `state` is what the
driver believes of the transceiver, `chip` what was last commanded, `air` what is
being transmitted. The transmission of a unicast may last longer than `waitTxDone` waits
and end at any later place of the main loop, inside `radio_set_state` too, where the end is lost
on one of the two (`cutoff`); the handler of the end heeds it only in a transmit state. `awaiting`
is history: a wake-up frame was heard before the node's last look at the mark, and no data frame since. What a handled frame makes the node do is reduced here to
"up to two calls of `sendbmeshdata`, and the power mode may change".

`FramesServedInOrder` and `PacketsDrainInOrder` are refinements: the rings with
their slots implement `BoundedFifo` under the mapping that reads the ring's slots
from front to rear, a reserved slot counting as filled with the packet that is
about to be written.

### MeshRoute

The rings are sequences here, which is what `MeshLink` shows them to be. One
handled frame (`handlerfrx` with everything it calls) and one transmission
(`handlerftx` with its `onXmitDone`) are a step each. `RelayPacket`, `HandleRB`,
`ObeyCommand`, `TakeDown` and `TakeUp` are the ways through `handlerfrx`,
`DropFrame` its early returns; `SerialTask` is `package_recieve` on a message of the
computer. `pathnode` drops the count in the code's element 0, the length of the
sequence. `sendpacketseq` and the computer's numbers start at 255 and wrap, as in
the code (`FirstSeq`; a run may start the computer elsewhere). `saved` is what the EEPROM holds of
a node. RD is three steps, as in the code: the change of interval and path, `SaveCONFIG`,
the answer; a watchdog reset may come between them and in the middle of the saving. `Stored`
is what such a reset leaves: the old configuration, the new one, or, if they differ,
nothing that `LoadCONFIG` takes, since the checksum is written last (`torn` remembers
that). A mixture whose sum is right by chance is left to `NodeConfig`. A task of the computer that is a
DU_ACK, its answer to an upload that asks for an application's, is sent when such an upload has
come (`Due`). `PowerMode` is the mode the sketch gives `begin`.
`handled` and `again` are history, read by
properties alone. Frames and acknowledgements are lost where `Lossy` is TRUE.

### ContikiProcess

The kernel is calls inside calls: `process_run` calls `do_poll` or `do_event`, these
call threads, a thread calls `process_exit`, which calls other threads. `stack`
holds the calls under way, innermost first; a record in it is an activation with
its local variables. A walk along the process list keeps its place in `at` and goes
on from the link of that process, which may have left the list by then: `next` is
modelled pointer by pointer for this reason (`next[HEAD]` is `process_list`).
`UserCode` is where the kernel can be called from: a thread, or the sketch's `loop`
when the stack is empty. `process_poll` can happen at any moment, as it does in the
clock's interrupt. The event queue is the ring of the code, and implements
`BoundedFifo`. What threads do with their events is left open: they call what they
like and return when they like. By `Init` the kernel has started what
`initialize()` starts. `owed` and `missed` are history.

`undone` is history too. `process.h` lets a thread exit its own process with
`process_exit` and go on; when it then returns anything but ENDED, `call_process` sets
the process running again (`process.c:198`) though it has left the list. The same
happens to a process that a listener of its exit makes exit, and to one that `do_poll`
comes to over the stale link of a process that has left the list: `do_poll` sets whatever
it comes to running first (`process.c:235`). The properties excuse the processes this has
happened to, and no others.

### ContikiTimer and SeparateResource

The kernel is reduced to its event queue and the two timer processes; what
`ContikiProcess` shows about delivery is used. `pc` is the place of the main loop:
in the sketch, in `etimer_process` (a walk along the list that posts the events of the
timers that expired), in `ctimer_process` (a callback under way). The clock's
interrupt ticks at any place; the clock wraps at `CLOCK`, and `MaxLag` bounds the ticks
between two calls of `process_run`, so that differences stay far below its range, as
they do in the code, whose clock has 32 bits. `Start`, `Stop` and the reset at the end of a repeating
tick are those of `Contiki/Timer.cpp`, `Wait` is an event timer set by a thread
(`ExpiryTimer`), `Exit` and `Restart` take its owner away. `SeparateResource` adds
clients, the engine's few transactions, `accept`, `send` and the callback.

### SinkNode

`SerialLine` reads the line a byte a step, an escape and its byte in two (the code
waits between them); what the line carries is tagged with the number of its message and
its place in the frame, so that the properties can tell which of them were harmed and the
proofs which bytes are missing; the reader sees neither tag. `NodeConfig` writes a cell a step.
`MeshNeighbours` has three steps for an entry (found, node written, rest written) with the
timer interrupt in between. `SinkNode` puts them into one main loop. `Poll` tests the address
once and then reads the line until it is empty (`reading`, `Return`), also when a SETCONFIG on it
changes the address; the next `Poll` then leaves the line alone. SETCONFIG saves and REBOOT stops in
`package_recieve`; a reset can come at any step, loses the bytes that arrive
meanwhile, and is followed by `begin`. A packet that is not what was sent may act as any
message, because the checksum is not compared (`MxBmesh.cpp:788`).

## 3. Runs

| Run | Question | Bounds |
|---|---|---|
| `link_fifo` | do both rings keep every promise, does the node listen again, wait for announced broadcasts and count failures for the right packet, when the main loop is the only sender, late ends included? | 3 slots, 3 packets, 4 frames |
| `link_live` | does every packet leave and every frame get handled, and what remains true of the slots, when the timer interrupt sends too, late ends included? | 3 slots, 3 packets, 1 frame |
| `route_commands` | duplicates, acknowledgements, and does an answered HIGHPOWER wake the whole way, with losses? | line of 3, RD and HIGHPOWER; two uploads of the far node, one to be answered by the sink and one by the computer, whose numbers start at 100 |
| `route_restart` | does RD survive restarts, in the middle of its saving too? | 2 nodes; RD, HIGHPOWER, RD and a reboot command; 2 watchdog resets |
| `route_lossless` | is everything passed on once, answered and finished when nothing is lost, and is every path right? | line of 3, RB and three orders, one of them for a node out of reach |
| `route_path` | violation: the recorded path is a route | line of 4, one RB |
| `route_storm` | violation: every node broadcasts one time | triangle, two RBs |
| `route_down` | violation: every node in the path handles RD | line of 3 |
| `kernel_walks` | list, queue, polls and nested calls of the Contiki kernel: is every polled process called, and does `process_run` return? | 3 processes, 2 of them started; queue of 2; a broadcast and an EXIT event; one process polled; 2 calls that start, exit or post synchronously |
| `timers` | is no timer lost, early, late for ever or called after it was stopped, and is every accepted request accounted for and answered? | a repeating timer, the resource's timer and an event timer of a process; 2 calls; 2 clients, 1 transaction; queue of 2; clock of 32 |
| `sink` | what do a lost byte, a reset and an interrupt cost the sink? | 2 messages out of 4, one byte lost, 2 resets besides those ordered; a SETCONFIG that takes the address 0 from it; 3 neighbours, 2 entries |
| `sink_lost` | violation: a neighbour is lost at the count | the same |

**Why the bounds are enough.** With 3 slots a ring holds two items, so it gets
empty, full and half full, and the indices wrap within 4 items; a slot in hand
plus a full ring uses all three slots, the tightest case. The code has 10 to 35
slots and `RETRYSEND_MAX` 10: the proofs of section 5 cover every size. One wake-up
frame before a broadcast already separates the counted and the uncounted end of
a transmission. In `MeshRoute` a line of three has a relay, a line of four is the shortest path on which the second hop of a recorded
path can be wrong. Queues of 3 slots overflow in the lossy runs; the
lossless run gives them the room its traffic needs, because a full queue is a
loss. Mesh runs do not check deadlock: with nothing left to send the mesh is
silent, as it should be; the `sink` and `timers` runs do not for the same reason.
In `ContikiProcess` two calls are enough to start the third process and restart another in the middle of a
broadcast, next to exits by return and by event, which are not counted; three
processes are one before, one at and one behind a walk's place. `do_poll` comes to an exited
process only when two processes are polled, which the run leaves out for its size; the
theorems of section 5 cover any number of processes, polled ones and calls. In `timers` a queue of
two is full when both timers have expired; two calls are enough to stop a timer whose
event waits and set it again. In `sink` the buffer holds 8 bytes instead of 256, so
that two frames without their beginning make the index wrap; the two
configurations differ in three cells of which the first two make up for one another, so
that a torn save does pass the checksum; three neighbours and two entries make the
replacement happen. The table and the line share a state only through resets and the
configuration, so `Settings` has one with traffic on the line alone, one with
neighbours alone, and one with a little of both.
In `route_commands` the computer starts at 100, because the sink's own numbers start at 255:
with the same start the first acknowledgement may be refused as a repeat of a command (section 4).
With two uploads the acknowledgement of the first can come after the second was sent.

**Fairness.** `MeshLink!FairSpec`: the main loop never stops, which is what
`loop()` does for ever; a transmission on the air ends; and the transceiver is not
busy receiving each and every time it is asked to transmit a packet (strong
fairness on the successful `SwitchToTx`; without it a jammed channel starves
`txqueue`, in the code too). No fairness makes transmissions end within `waitTxDone`, and
nothing in the code does: its count of 65535 is 70 to 80 ms, a broadcast takes at most about 42 ms
with its waits for a free channel, but the 16 attempts of a long unicast that nobody acknowledges
take about 100 ms. So `WaitTxDone` may run out on a unicast in every run and every theorem, and `EveryPacketLeaves`
has its own premise: from some time on the ends of transmissions are heeded. `MeshRoute!FairSpec`: every node goes on polling and
the computer sends what it has to send; applications may or may not upload.
`ContikiProcess!FairSpec`: `main` calls `process_run` for ever and threads return,
which a cooperative kernel takes for granted; polls and posts may come or not.
`SeparateResource!SepFairSpec`: the clock ticks, the main loop goes on calling
`process_run` and callbacks return; the sketch, the threads, the clients and the
engine's transactions may do nothing for ever.
`SinkNode` states no fairness: nothing it promises needs any.

## 4. What the checks show

What holds: the rings are first-in first-out buffers although they have no
lock, as long as the main loop is the only sender, because one slot always stays
empty; `onXmitDone` removes exactly what was on the air, however late it comes; a packet that
comes to the front has no failures, and only its own are counted; a node that heard a wake-up frame
before its last look at the mark waits for the broadcast. A node goes back to
listening after every transmission that ends within `waitTxDone`, and after the later
ones unless the end falls into `radio_set_state` itself. Every packet leaves `txqueue`,
unless the ends of its transmissions are ignored again and again, because they outlast `waitTxDone`. A node believes an upload acknowledged only after one of its uploads arrived (which one
nothing in the acknowledgement says, so a late one may be of an earlier upload); a
broadcast in the company of commands is passed on once; an answered RD survives restarts, except
one that cuts a later saving of something else short, after which the node has neither interval
nor path until it is configured again.

The kernel's walks survive everything the threads they call do to the list, because
a removed process keeps its link and new ones come first; no poll is lost; no thread
is re-entered; `process_run` returns.

Of the timers: each is on the list at most once and none that was set is lost,
a full event queue only delays them (and within the bounds never for half the clock's
range, `Punctual`), none is called early, a stopped one stays quiet even if its event was
queued. Of the separate response: the flag, the stored request and the timer agree,
every accepted request has been answered once or is the stored one, and one that found
a transaction is sent to the client it is for.

Of the sink: a lost byte costs the message it was in, unless it was an end of the
frame; a restart goes on with what was saved last; no neighbour is listed that has been silent
for longer than `BROADCASTINTERVALPAST_MAX`; as long as one is listed so is every nearer one
heard as lately, and every other one unless a nearer one could have its place.

Where the code disagrees with its own comments (violation runs):

* `sink_lost`: "neigbour lost count" 4 (`MxBmeshConfig.h:51`), but the age is incremented
  twice a round (`MxBmesh.cpp:56-57`) and a neighbour is lost in its third silent round.
* `route_path`: the path recorded from a route broadcast is off by one from the
  second hop on (`MxBmesh.cpp:450` copies the list, which begins with the sink, one
  place too far). Nodes at most two hops away are right.
* `route_storm`: "every node broadcast one time" (`MxBmesh.cpp:442`) fails when two
  broadcasts are under way: one remembered number per table cannot tell their
  alternating copies from new ones.
* `route_down`: "every node in the path should handle" RD (`MxBmesh.cpp:481`), but a
  relay returns at line 409, before the command is looked at.

Noted while modelling and visible in the models, without a run of their own:

* `lasthandledseq` and `lastrbseq` start at 0, which is a sequence number too: the
  first message numbered 0 is refused. The instances start the computer at 255 and
  spend number 0 on a message whose loss no property needs.
* The computer and the sink share source address 0 with independent numbers: a node refuses the
  sink's acknowledgement as a repeat if the computer's last message to it had the same number.
* A unicast repeated by the link layer is handled twice if an echo of a route
  broadcast is handled between the two copies. (`HandledOnce` is checked where no
  command and broadcast mix.)
* A node that relays the answer to a reboot command restarts too
  (`MxBmesh.cpp:345` looks at the packet, not at its source).
* A unicast that nobody acknowledges is repeated by the transceiver for longer than `waitTxDone`
  counts when it is long (section 3). If it ends between the command to receive and the record of it
  (`radio_rfa.c:149`), the transceiver is off and `radiostatus.state` at RXAUTO, and the node is deaf
  until it transmits or sleeps: `Listening` excuses that race (`cutoff`). If it ends later, the end is
  ignored (`radio_rfa.c:125`), no failure is counted, and a packet to which this happens again
  and again is sent without end, the others waiting: the premise of `EveryPacketLeaves`.
* The mark of a wake-up frame is looked at before the radio is switched off: one heard
  in between is slept over and forgotten (`MxBmesh.cpp:916-925`). `WaitsForBroadcast` covers
  those heard before.
* `recievehandler` clears the mark of a wake-up frame but not the count of polls that goes with
  it, so the wait for the next broadcast is shorter by what the last one took.
* With the timer interrupt sending, `sendbmeshdata` can be interrupted by itself;
  both calls get the same slot and one packet is lost. `link_live` checks what
  remains true.
* After a watchdog reset a node takes an echo of an old broadcast for a new one.
* A process that exits itself is set running by its own return (`process.c:198`), see
  `undone` in section 2.
* `do_poll`, standing at a process that left the list under it, goes on over that process's
  old link, and may set a process running and call it though it has exited
  (`process.c:231-237`). It takes two polled processes.
* The index of a new event is cut to a byte before the remainder is taken
  (`process.c:348`): a queue of more than 128 events, which `PROCESS_CONF_NUMEVENTS` (32)
  allows, would be written in the wrong slots unless its size divides 256.
  `ProcessAssumption` keeps to 128.
* A process that restarts while a broadcast is stopped in front of it, for polls,
  comes first on the list, and those behind it get the broadcast again.
* `process_exit` from the sketch's loop compares with the process that ran last
  (`process.c:155`): if that is the one that exits, its thread is not told.
* A listener of PROCESS_EVENT_EXITED cannot restart the process: it is still
  listed, and `process_start` returns without a sign (`process.c:109`).
* A `Timer` that is started again while the event of its former run waits in the queue
  is called by that event, early (`ctimer.c:76`).
* `start` or `setTime` in the tick of a repeating `Timer` is followed by a reset
  (`Timer.cpp:40`) that puts its start into the future: it then fires at every poll
  until the clock has caught up. `stop` in the tick has no effect.
* A separate response that finds no transaction leaves the resource active for ever;
  all later requests are rejected (`SeparateResource.cpp:30`).
* After a lost end of a serial frame the reader takes the gaps for frames, whatever
  the comment at `MxBmesh.cpp:708` hopes, until its index wraps around.
* A damaged serial message is obeyed (`MxBmesh.cpp:788`), and one that gives the
  sink another address makes it deaf to the line (`MxBmesh.cpp:900`).
* A save cut short may leave a mixture of two configurations whose sum is right.
* The acknowledgement of SETCONFIG is written before the configuration is saved.
* `MxBmesh.cpp:878` (and 541) takes two bytes with two `i++` in one expression: which
  comes first is up to the compiler, so the interval is one cell in `NodeConfig`.
* A neighbour heard while an earlier entry is free gets a second one
  (`MxBmesh.cpp:599`), and a node with two keeps another out until one is too old.

## 5. Proofs

Each theorem holds for every value of the constants that satisfies the named
assumptions of the modules it is about: `QueueAssumption`, `LinkAssumption` and
`NothingAssumption` for `MeshLink`; `RouteAssumption` for `MeshRoute`;
`ProcessAssumption` for `ContikiProcess`; `TimerAssumption` and `SeparateAssumption`
for `ContikiTimer` and `SeparateResource`; `ConfigAssumption`, `NeighbourAssumption`,
`SerialAssumption` and `SinkAssumption` for `SinkNode`. What a theorem assumes besides
is in the last column, and why further down.

| Theorem | Module | States | Assumes |
|---|---|---|---|
| `TypeCorrect` | `MeshLinkProof` | `Spec => []TypeOK` | |
| `FailuresAreTheFronts` | `MeshLinkProof` | `Spec => FailuresOfTheFront` | |
| `SentSlotIsStable` | `MeshLinkProof` | `Spec => SentSlotStays` | |
| `Inductive` | `MeshLinkProof` | `Spec => []IInv` | |
| `ListensButForTheRace` | `MeshLinkProof` | `Spec => []Listening` | |
| `RemovesWhatWasOnAir` | `MeshLinkProof` | `Spec => RemovedWasOnAir` | |
| `BroadcastsAreAwaited` | `MeshLinkProof` | `Spec => WaitsForBroadcast` | |
| `RadioInvariant` | `MeshLinkProof` | `Spec => []RadioInv` | |
| `RxImplementsFifo` | `MeshFifoProof` | `Spec => FramesServedInOrder` | |
| `TxImplementsFifo` | `MeshFifoProof` | `Spec => PacketsDrainInOrder` | `~TimerSends` |
| `RxSlotsHoldFrames` | `MeshFifoProof` | `Spec => []RxSlotsFilled` | |
| `RouteTypes` | `MeshRouteProof` | `Spec => []TypeOK` | |
| `AckedUploadsArrive` | `MeshRouteProof` | `Spec => []AckedUploadArrived` | |
| `AnsweredRDIsDurable` | `MeshRouteProof` | `Spec => []RouteDownIsDurable` | |
| `NextHopIsNeighbour` | `MeshRouteProof` | every path begins with a link | |
| `CommandsTeachRoutes` | `MeshRouteProof` | `Spec => []RecordedPathIsRoute` | no RB orders |
| `BroadcastPassedOnce` | `MeshRouteProof` | `Spec => []BroadcastOnce` | one RB order, no restart |
| `AnswerMeansPathLit` | `MeshRouteProof` | `Spec => []HighPowerLightsPath` | no restart, one path per node in HIGHPOWER orders |
| `KernelTypeOK` | `ContikiProcessProof` | `Spec => []TypeOK` | |
| `KernelList` | `ContikiProcessProof` | `Spec => []ListedAreRunning` | |
| `KernelThreads` | `ContikiProcessProof` | `Spec => []ThreadsNotReentered` | |
| `KernelCurrent` | `ContikiProcessProof` | `Spec => []CurrentIsCalled` | |
| `KernelRunsAlone` | `ContikiProcessProof` | `Spec => []ThreadRunsAlone` (both of the above) | |
| `KernelWalks` | `ContikiProcessProof` | `Spec => []WalksMissNobody` | |
| `KernelEvents` | `ContikiProcessProof` | `Spec => EventsTakenInOrder` | |
| `KernelInvariant` | `ContikiProcessProof` | `Spec => [](KernelInv /\ QueueInv)` | |
| `TimersInvariant` | `ContikiTimerProof` | `SepSpec => [](TypeOK /\ NoTimerLost)` | |
| `TimersAloneInvariant` | `ContikiTimerProof` | the same of `Spec` | |
| `TimersTypes` | `ContikiTimerProof` | `SepSpec => []TypeOK` | |
| `StoppedTimersStayQuiet` | `ContikiTimerProof` | `SepSpec => StoppedStaysQuiet` | |
| `TimersAreNotEarly` | `ContikiTimerProof` | `SepSpec => NotEarly` | `[]Punctual` |
| `SeparateAccount` | `ContikiTimerProof` | `SepSpec => []RequestsAccountedFor` | |
| `RestartIsFaithful` | `SinkNodeProof` | `Spec => RestartLoadsSaved` | |
| `ConfigInvariant` | `SinkNodeProof` | `Spec => []ConfigInv` | |
| `SinkTypes` | `SinkNodeProof` | `Spec => []TypeOK` of `SinkNode` | |
| `OneLossCostsOne` | `SinkNodeProof` | `Spec => []OneLossOneMessage` of `SinkNode` | `NoneLeftOfAnother` |
| `NeighboursAreHeard` | `NeighboursProof` | `Spec => []NeighboursHeard` | |
| `NbInvariant` | `NeighboursProof` | `Spec => []NbInv` | |

"No restart" is `Orders("REBOOT") = {}` and `MaxReset = 0`. None of the properties is
inductive; the invariants below are what the steps need besides. TLC checked each of
them on an instance before it was proved.

**`IInv`, the slots of the link layer.**
`FrameSlotFreed` (the slot in hand is just behind the front of `rxq`, so the
interrupt can reach it only through the slot that stays empty), `PacketInHand`
(`handlerftx` holds the front of `txq` or the slot before it), `NotYetRemoved` (before
the transmission ends the packet is still the front), `ReservedHasRoom` (a rear index
read but not yet stored has a free successor) and `SlotsFilled` (every slot in use
holds a packet, the reserved one excepted). The interrupt that matters is
`TimerTick` between `ReadRear` and `StoreRear`: the store then sets the rear back.
`StaleStore` shows that this adds no slot that was not filled. The lemmas about the rings
(`InqueueRing`, `DequeueRing`, `InqueueUses`, `StaleStore`) rest on arithmetic modulo
`RFQUENEMAX` and are stated once.

**`RadioInv`, transceiver and driver.** What is on the air is the front of `txqueue`, also when
`handlerftx` has left the transmission behind (`OnAirIsFront`): nobody but the end of a
transmission moves the front, nobody writes its slot (the timer's slot is the rear), and a
broadcast, whose slot is a wake-up copy for a while, is not left behind. The only slot with a
wake-up copy is the one in hand, and only while ends do not count (`WakeCopyInHand`). Outside
`endTransmission` and sleep driver and transceiver receive, but after an end inside
`radio_set_state` (`CommandedState`). None of it assumes that transmissions end within
`waitTxDone`; `RemovesWhatWasOnAir`, `FailuresAreTheFronts` and `ListensButForTheRace` follow.
`BroadcastsAreAwaited` needs `IInv` alone.

**The rings as first-in first-out buffers.** `Contents` maps a ring to a sequence;
`ContentsInqueue` and `ContentsDequeue` show that `inqueue` appends and `dequeue` takes the
head, for any front and rear. For `rxqueue` the invariant is `RxSlotsFilled`; for
`txqueue` it is `ReservedAtRear`: the index `inqueue` read is still the rear when it is
stored. A timer that sends breaks that between the two (both calls get one slot), which is
why `TxImplementsFifo` assumes `~TimerSends`, as the two refinements are run.

**`RouteInv`, packets on the mesh.** A packet in a queue of a node is one that the
node may meet: a unicast has a list that ends with its destination and has the node
on it, a broadcast ends with `BROADCASTADDR`, a path ends with the sink and does not begin
with its owner. So no list is read beyond its ends, whatever is lost, repeated,
overtaken or restarted. On top of it:

* `AckedInv`: an acknowledgement in flight, the sink's or the computer's, is to a node of which
  the computer has an upload.
* `DurableInv`: an answer to RD in flight is of a node that has saved what RD told it; what is
  being saved is always what an RD told (`SavesRD`), and nothing undoes that but a reset in the
  middle of a later saving of something else (`StaysDurable`).
* `BeginInv` and `LedInv`: a command is only where its own list has led it link by link
  (`QueuesLed`), so the list read backwards is a route. A path recorded from a broadcast is one
  only up to its first hop (section 4, `route_path`): `NextHopIsNeighbour` has no
  hypothesis, `CommandsTeachRoutes` assumes that there are no broadcasts. The run `route_lossless`
  checks it for both on two hops.
* `FloodInv`: there is one sequence number of broadcasts in flight and everybody who
  passed one on remembers it. Two broadcasts are what `route_storm` needs; a restart
  forgets the number.
* `LitInv`: where the order is, everybody it has passed is lit; an answer in
  flight means all are. A restart goes back to the saved mode; and the answer does not say
  which way the order went, so the orders to one node must name the same path.
  No hypothesis is needed about LOWPOWER: the property speaks only of orders without it.

**`KernelInv`, the processes.** The links from `process_list` are a list that ends
(`HasChain`). The calls under way are nested as the code nests them (`Shape`), each agrees
with the states of the processes (`Fits`: a called thread is CALLED, a process being
exited is NONE and still listed) and none is there twice (`Single`). The heart is `Reaches`: from
the place where a walk stands, following the links as they are now, one comes to
everybody the walk has still to visit. Being listed is not enough for that, because
the walk may stand at a process that has left the list and follow its old link.
Two facts keep it: `process_exit` leaves the link of the process it removes alone, so what
the place could reach it still can; and `process_start` puts a process in front, where no
walk under way looks. `Reaches` is stated without recursion, by the sets closed under the
links. `ListFits` and `PollsFit` relate list and polls to the states, except for processes in
`undone` (section 2). `QueueInv` says that the slots of waiting events hold events;
`DeliveryInv`, that what is being delivered was posted; with them `EventsTakenInOrder`
maps each step to one of `BoundedFifo` or a stutter.

**`TimerInv` and `QuietInv`, the timers.** `NoTimerLost` becomes inductive with two
facts: a `ctimer` on the list belongs to `ctimer_process`, which never exits, and outside a
walk the walk's place is the front. What `RemoveFirst` and `Append` leave of a list, and
where, is stated once (`RemoveFirstList`). `QuietInv`: the list of
ctimers holds none that was stopped, but one that did so in its own repeating tick.

**`OnTimeInv` and `SeparateInv`, when timers are called and what for.** A timer not set in
haste has one event in the queue at most, is then neither on the list nor being called,
and the event, if somebody still waits for it, was posted when the interval was over.
A clock that has gone half round since the start is the one thing that could make that
untrue: to `timer_expired` such a timer has not begun. How long a timer waits for room in the queue
nothing in the code bounds, so `TimersAreNotEarly` assumes `Punctual`, an invariant of
the `timers` run. `SeparateInv` adds to `RequestsAccountedFor` that the resource's timer is
not waiting while its function runs and that a refused resource stays active; what the
kernel does with the timer meanwhile leaves it either waiting or called (`SepTimerKept`),
and nobody else sets, stops or resets it.

**`ConfigInv`, the EEPROM.** While `SaveCONFIG` runs, the cells before the one it writes
hold what it saves (`Saving`); once it has run to its end they all do, the checksum
too (`Saved`); until it ends the checksum is the one of the configuration saved
before (`OldChecksum`); a node that never saved has no tag (`NeverSaved`). The proof
uses nothing of how the checksum is computed.

**`NbInv`, the neighbours.** The count of every entry is at least twice the rounds its
node has been silent (`NoneYounger`), so that an entry goes in time; and a node heard
lately has an entry whose count is no more than that, so that it stays, or a
nearer node may have taken its place (`SomeYoung`); a node refused or replaced in this round was so by
nearer ones that are still there (`RefusedByNearer`), and no node has an entry while a nearer one heard
as lately has none (`NearerKept`). They exempt a node into whose
entering the interrupt fell. `RightRssi`, `FoundFits` and `EnteredIsListed` say what is
true of the entry between the three steps of `handlerfrx`, whatever rounds come
between them: it is still free, the node's own or a worse node's, the worst of all. `RoundKeeps` is the
place where the count taken twice makes half of `BROADCASTINTERVALPAST_MAX` (`BeingHeld`): the
invariant is about that, and implies the property, which speaks of the documented count alone. `RefusedIsOutdone` shows that a node is refused only if every
entry is a nearer node's who was heard lately.

**`SinkInv`, the sink's types.** Besides the two above: `Cells` (the tag and the checksum
are bytes too), `LineInv` (a byte on the line belongs to a message that was sent, and
the buffer has room for the next) and `RssiKnown`. The checksum is a fold and a frame a
concatenation of pieces, both defined by recursion in the library. That such recursions end, and
what they give is a number or a sequence, is shown from `EveryNat` (induction as a fact
about sets of numbers): `SumExists`, `SumIsInt`, `FlatIsSeq`.

**`StepInv`, the reader in step.** As long as no end of a frame is lost, there are a
number `d` of frames the reader is through with and a place `p` it has come to in the
next one (`InStep`). Through with: `handled` is exactly the unharmed ones of the
first `d`. On the line there is nothing of those, and of each later one both ends, all
bytes if it is unharmed, not all if it is harmed, and behind every ESC its byte
(`Reached`). Within a frame the buffer is START and what is left of the bytes gone by:
some of them, in order, and all of them if none was lost (`Within`). So at the end of a
frame an unharmed message is read as it was sent. A harmed one is read
as what is left of it, which lacks a byte or has one that lost its ESC: it is never the
message itself, and, by `NoneLeftOfAnother`, never another one. That assumption is about
the bytes the computer sends, whose program is not in the repository; without it no reader
that does not compare the checksum (`MxBmesh.cpp:788`) could tell the two apart.
The `sink` run evaluates it for its messages. The proof has one lemma per way the line and
the buffer change: a frame's first byte, a byte, an ESC, the byte behind it, the end
(`FrameBegins`, `BufferNext`, `EscIsRead`, `ByteIsRead`, `EndIsRead`), a message sent
(`SendInStep`), a byte lost from the line (`LoseInStep`) and bytes missed in a
restart (`MissInStep`). That the buffer's index does not wrap within a frame in step follows from
the bound on a packet in `SerialAssumption`. What `WritePacketData` puts on the line, in
which order and at which places, is proved of the frame once (`FrameInOrder`, `PlacesOf`).

Only model-checked:

* `HandledOnce`: sequence numbers wrap around, restarts forget them, and source 0 is the sink
  and the computer at once. It holds where each source's packets keep to one
  way and stay behind each other, which is more than an invariant of single packets;
* `Punctual`: that a full queue does not keep a timer for half the clock's range is a bound
  on waiting, which holds on an instance by the bounds on the calls and on the main loop's lag;
* the violations of section 4; and liveness under fairness, which the proof system cannot
  do.

## 6. Not modelled, and the plan

Left out of the modelled parts: the payload formats; RSSI, but for its order among
neighbours; the effect of SETCONFIG on a mesh that runs (it changes a
node's address and channel); GETDATA (whose type is refused as
malformed at `MxBmesh.cpp:376` before its handler can be reached); GETCONFIG, whose
answer is longer than the array of 8 bytes it is put together in
(`MxBmesh.cpp:800`, 846-858): what that overwrites is up to the compiler; the entries that route
broadcasts make in the neighbour table; the path's cells in the EEPROM, which a sink
does not have; event timers of the kernel that other code than `ExpiryTimer` sets; the
`MxBmesh_iduino` copy (same protocol; the periodic work runs in a Contiki timer
instead of an interrupt, so `TimerSends` interleavings do not exist there).

Next, in this order:

1. `MxRadio`'s receive FIFO, filled in an interrupt, read byte by byte in the main
   loop and flushed by both (`MxRadio.cpp:289`);
2. `MxTimer2::sleepms` against the clock's interrupt, and the list of
   `Contiki/Process.cpp`;
3. proofs: `HandledOnce` for sources whose packets keep to one way, without broadcasts and
   restarts.

Not planned: sensor drivers, camera, cloud client, serial configuration
(sequential input and output). The repository is for the most part copies of
other projects' code (uIP three times, Contiki's headers, register and board
files, drivers of displays and cards): the map covers what SmeshLink
wrote, which is a small share of all lines.
