# usbvfiod in TLA+

usbvfiod gives a virtual machine a USB host controller: a vfio-user server that
emulates an xHCI controller, passes real USB devices through it, and hands the
controller from one VMM to another while the guest migrates. This directory
holds TLA+ modules of the parts in which threads, tasks, the guest driver and
devices interact, the TLC configurations that check them, and machine-checked
proofs about the hand-over, the shared guest memory, the event ring, the endpoints and
their transfer rings, the command side and the ports. Paths below are relative to the crate (`src/` of the repository).

    tlc -workers 2 -config Handover_default.cfg MCHandover.tla     # a run
    tlapm HandoverProofs.tla                                       # proofs

## 1. The system

### Parts, state and operations

| Part | Code | State | Operations |
|---|---|---|---|
| Hand-over | `shared_backend.rs`, `hotplug_server.rs` (`handle_handover`), `main.rs` (`run_multi_client`) | `Ownership` behind one mutex: owner, previous owner, epoch, lease clock, staged candidate, recorded registrations, mapped ranges per connection, live connections | data path: map, unmap, reset, `set_irqs`, disconnect; control socket: status, watch, ready, abort, commit, reclaim |
| Event ring, interrupter | `event_ring.rs`, `interrupter.rs` | segment table, enqueue pointer, cycle state; ERSTBA/ERDP; the interrupt line | send event, update line, reset |
| Transfer endpoints | `endpoint.rs`, `endpoint_handle.rs`, `hotplug_endpoint_handle.rs`, `linked_ring.rs`, `real_endpoint_handle.rs`, `nusb.rs` | worker state, dequeue pointer, endpoint context, submission state of two layers, transfers on the device | doorbell, stop, reset, set dequeue pointer, terminate, completion, hot-unplug |
| Commands and slots | `command_ring.rs`, `slot_manager.rs`, `controller_reset.rs` | command ring pointer, CRR, worker states, slots and their endpoints, HCRST | the xHCI commands, doorbells, ring stop, controller reset |
| Ports and hot-plug | `port.rs`, `endpoint_launcher.rs`, `hotplug_server.rs` | device per port, PORTSC, detach tokens, detach listeners | attach, detach, unplug, port reset, opening an endpoint |
| Registers | `registers.rs`, `device/pci/xhci.rs` | register words, some shared with the workers | register reads and writes of the guest |
| DMA bus | `device/bus.rs`, `dynamic_bus.rs`, `memory_segment.rs`, `device/interval.rs` | mappings of guest memory, the published bus | map, unmap, single and bulk access |
| TRB formats | `trb.rs`, `usbrequest.rs` | none | parse, encode |
| Configuration space, register sets, protocol encoding, packet capture, command line | see `PROJECT.json` | sequential or none | |

### How the parts interact

* One thread per vfio-user connection and one control thread share `Ownership`.
  A change of hands sends the new line to the interrupter's channel.
* All connections map into one DMA bus. Requests change it under the `ownership` mutex;
  the workers read and write through whatever bus is published when an access begins.
  The hand-over decides by a record of the mapped ranges, not by the bus.
* Guest register writes run on the connection threads and reach the workers
  through unbounded channels (doorbells, reset) or `Notify` (ERSTBA, HCRST).
* The command worker sends a request to the slot worker and awaits the reply; the
  slot worker does the same with endpoint workers. The reset coordinator walks
  over command worker, slot worker and interrupter.
* Endpoint, command and port workers send events to the interrupter.
* The port worker cancels the *detach token* of a device; endpoint handlers and a
  listener per device wait for it. An endpoint that sees its device disappear
  cancels the token itself, and the listener asks the port worker to detach.

### Behaviours that are hard, and what has to hold

* **Hand-over.** Two VMMs serve one guest in turn. Any of them may die, a decision
  may be late, repeated or never come, and the descriptor duplication may fail
  between two assignments. Always: one owner; the installed line is its own; while
  there is a way back it is complete; an unowned device is as at boot; nobody but
  the owner takes memory away; readiness is earned per candidacy; a held reply is
  sent.
* **DMA bus.** Two VMMs map the same guest memory into one bus, in ranges that need
  not agree, and each tears its own down in its own time; a worker may be in the
  middle of an access. Mappings never overlap, what a live VMM has on the bus is on
  record, memory leaves the bus only by right, and an access sees one bus.
* **Event ring.** Producer and consumer share nothing but cycle bits and ERDP;
  lines change while events are under way. Events are read exactly once, in order,
  and never left unsignalled.
* **Endpoints.** Commands, completions and hot-unplug race for each TRB. No TRB is
  done twice or left behind, the driver is told where an endpoint halted, the
  context tells the truth, an answer of the device goes to its own request, the worker
  dies of nothing unknown, every command of a worker that lives is answered, a gone device is let go of.
* **Commands and reset.** Three workers wait for each other. Commands are
  completed; endpoints never outlive their slot configuration; a reset ends, and when HCRST reads 0 the slots,
  endpoints and requests of before are gone (what may be left of the command ring is in section 5).
* **Ports.** A device may be replaced under the same identifier while everyone
  still holds the old one. Registers, events and devices agree, the listener of
  the old instance does not detach the new one, and every token is honoured.
* **Workers that end.** A panic or an error ends one task, and whoever sends to it or awaits its answer gets an error
  in turn: an interrupter that meets a full event ring takes the workers with it that have an event to send.

The full list of hazards, each with its line and the properties that cover it or the
reason none does, is `hazards` in `PROJECT.json`.

## 2. The modules

| Module | Models | Used by |
|---|---|---|
| `DeviceOwnership` | abstract: what the hand-over promises | `Handover` as a refinement target; `DmaBus` as its environment |
| `Handover` | hand-over with connection threads and control thread | `MCHandover`, `HandoverProofs` |
| `Bus` | functions: what a bus of mappings delivers | `DmaBus` |
| `DmaBus` | the shared DMA bus, its record, a worker's access | `MCDmaBus`, `DmaBusProofs` |
| `EventQueue` | abstract: the event ring as a bounded queue | `Interrupter`, as a refinement target |
| `EventRing` | producer ring over segments | `Interrupter` |
| `Interrupter` | interrupter worker, interrupt line, guest driver | `MCInterrupter`, `InterrupterProofs` |
| `EndpointStates` | what an endpoint worker is to its slot | `EndpointContract`, `Controller` |
| `EndpointContract` | abstract: what an endpoint promises to its slot | `Endpoint`, as a refinement target |
| `Endpoint` | endpoint worker, handles, transfers, driver | `MCEndpoint`, `EndpointProofs`, `EndpointRingProofs` |
| `Controller` | USBCMD, command worker, slot worker, coordinator, driver | runs directly; `ControllerProofs` |
| `Ports` | port worker, listeners, PORTSC, launcher, driver | `MCPorts`, `PortsProofs` |
| `HandoverProofs`, `DmaBusProofs`, `InterrupterProofs`, `EndpointProofs`, `ControllerProofs`, `PortsProofs` | proofs about these modules | |
| `EndpointRingProofs` | proofs about the transfer ring of `Endpoint`, on top of `EndpointProofs` | |

`MC*` modules only give sizes and symmetry. Operators whose name has the form
`Action_Mistake`, under the comment "Mutant", are not part of any specification: each is
a plausible bug of the definition it precedes, and substituting it makes one named property
fail, which shows that the property depends on that code.

### Handover

Every critical section of the `ownership` mutex is one action; commands that give
the mutex up are several: `Establish` (first command), `StageCandidate` followed
by `WakeParked` (each return from the condition variable in `set_irqs`),
`HandoverWatch` followed by `WatchPoll`, and, before each hand-over command,
`BeginCommand` and `NoteInventory` of the control thread. `Disconnect` holds the four-way
decision of `disconnect`: fall back to the previous owner, promote the candidate,
become unowned, or nothing because another connection owns the device. Rust's early returns appear as
the refusing disjunct of an action, which still drops an expired candidate
(`Unexpired`), as `expire_candidate` does before the decision. `cloned` is
the outcome of `dup(2)`: a failed clone leaves a commit without a candidate but with its owner, and
must leave a reclaim with `prev_reg` put back. Guest memory is a set of
disjoint regions; an interrupt registration is whose eventfd it is, which vector
it names, and whether the descriptor is an eventfd. Deadlines count ticks from the moment
they are set.

### Bus and DmaBus

`Bus` has the routing of a request over disjoint mappings (`Bus::add`, `Bus::read`, and `Chunk`
for a turn of `BulkRequestIterator`) as functions of a set of mappings. Instead of bytes an
access delivers where each byte comes from, a mapping and an offset, or `Ones` for the
default device. `DmaBus` is the state: `segments` is what `DynamicBus` holds, `mapped` the
record in `Ownership`, and `io` the bulk access of a worker with the bus it loaded.
`DmaMap` replaces only a mapping that starts at the same address, `DmaUnmap` goes by where a mapping
starts, whether the range is on record or not, `Disconnect` clears the record and leaves the bus. Who owns the device changes
as `DeviceOwnership` allows (`Owning!Claim`, `HandOver`, `GiveBack`, `Inherit`, `Release`), with the
coverage check of the code (`Covers`); that `Handover` does no more than this is its refinement.

### EventRing and Interrupter

`EventRing` has the three-branch pointer advance (`Enqueue`, `AdvanceSegment`) over
segments of different size and the ring-full test of `check_event_ring_full`.
`Interrupter` has both worker states, the wake-up by `notify_waiters` (which only
a registered waiter receives, and which `select!` drops), the channel shared by
events, line changes and resets, and the eventfd as a pending signal per line. The
guest driver reads until the cycle bit differs, then writes ERDP, with or without
the Event Handler Busy bit (`DriverSetsEhb`). `EventQueue` is what all of this amounts to for the
driver: `Unread` is what the driver would find if it went on reading now.

### Endpoint

One model with a choice of three kinds of endpoint (control, OUT, IN), since all
share the worker. `LookForTrb`, `Complete...`, `Receive...` are the steps of
`run_loop` in its states; a completion that halts the endpoint or puts it in error is two: the event goes out, with the
worker `halting` or `failing`, and `WriteContext` brings the endpoint context up to date, which until then reads
as running; `SubmitControl`, `SubmitOut`, `SubmitIn` the three
`submit_trb`. The hot-plug wrapper's `hot` and the inner handle's `sub` are separate,
because a stop has to withdraw both. A transfer sits in `requests`, moves to `responses` when
the device is done, and `Cancel` empties both except for control transfers,
which cannot be cancelled. `dev` is whether the endpoint of the device is open: an OUT or IN endpoint is opened when
first used, which may fail (`Request`, `OpenFails`), and the task of a control endpoint may panic over a request
(`ControlTaskDies`). TRBs of type `todo` are those the handles meet with `todo!()`. Without an interrupter an event cannot be
sent (`SendFails`). All of these end the worker. The ring is one segment with a Link TRB that
toggles the cycle state, and the driver of the model follows the xHCI rules: it never overwrites
a TRB it has not been told is finished, and recovers from a halt by Reset Endpoint, then Set
TR Dequeue Pointer.

### Controller

The states of `CommandWorker` (`looking` drains the channel,
`checking` tests USBCMD.RS and looks at the ring); the slot worker's requests (enable, disable, address, configure, evaluate, reset device, doorbells);
the coordinator's walk. An endpoint is what `EndpointStates` leaves of it: `quiet` (it would answer a
Terminate), `busy` (it would drop it), `dead`; once it is `ended` or `left` the slot has
forgotten it. `Rung`, `Commanded` and `Settled` say what a doorbell, an answered command and
its own work may make of it, and that this is all an endpoint does is the refinement
`ImplementsContract` of `Endpoint`. The driver stays within xHCI: it rings doorbells for commands it has queued, names slots it was given, and, between
writing HCRST and reading 0, at most writes USBCMD again; it writes CRCR once after each reset, when CRR reads 0.

A worker that answers a reset while it drains its messages goes on to test RS and the ring
(`command_ring.rs:235-260`). `stale` records that it has found the controller running again before it stopped. It then
works on the ring of before the reset, in whose memory the model lets it find commands of old or none (`NextTrb`). Requests to
the launcher may fail (`LaunchMayFail`: an unsupported endpoint type, or a port worker that has ended), the
interrupter may end, and the driver may issue ForceHeader, which is `todo!()`; `Faults` says which of these a run includes.

### Ports

An *instance* is one attachment of a device and stands for its detach token.
`devices[p]` is the instance at a port, `portsc[p]` its bits, `listeners` and
`endpoints` hold instances that may be out of date. The port worker's `attach` is several
actions where it awaits the interrupter. The driver follows port status change events and
writes back what it has read, and after a connect status change looks at CCS again; `view` is whether it takes a port for
connected. The register does not tell one device from another. When the interrupter has ended, an event to be sent ends the
port worker (`PortDies`), the server's thread, which panics for want of an answer (`Ask`), and the launcher, which ends
likewise; the launcher also panics over endpoint types it does not support.

## 3. The runs

| Run | Question | Result |
|---|---|---|
| `handover_default` | default policy, three connections: one owner with its own line, an intact way back, refinement of `DeviceOwnership` | holds |
| `handover_binding` | replies held for the controller: are they sent, do watches end, is the candidate one that waits | holds |
| `dmabus_layout` | two VMMs map ranges that overlap, touch or share a start while a worker reads: disjoint, on record, taken away only by right, one bus per access | holds |
| `interrupter_ring` | the ring is a bounded FIFO queue to the driver, which is signalled, over wrap-around, line hand-over, reset | holds |
| `endpoint_worker` | TRBs done once and in order, halts reported, answers their own, commands answered, devices let go of, deaths accounted for, the contract with the slot kept | holds |
| `controller_reset` | commands complete, slots and endpoints agree, a reset ends, and what HCRST = 0 means | holds |
| `ports_hotplug` | ports, registers and events agree, the driver learns of every change of a connection, cancelled devices leave, requests are answered | holds |
| `handover_deadowner` | "a dead connection cannot service an interrupt": the owner is connected | violated |
| `handover_memory` | the receiver's memory is on the bus | violated |
| `interrupter_ehb` | the driver reads what was sent, with a driver that sets EHB in ERDP | violated |
| `endpoint_assert` | a submission is completed before the next | violated |
| `controller_wedge` | "slot worker should be alive" | violated |

### Properties, by module

* `Handover`: `LineFollowsOwner`, `FallbackIsIntact`, `UnownedIsBoot`,
  `CandidateIsHeld` (invariants); `TeardownIsOwners`, `ReadinessIsEarned`,
  `HandedOverMemoryIsCovered` (what a step may never do); `ImplementsOwnership`
  (refinement, with `holder <- owner`, `fallback <- prev`, `generation <- epoch` and
  `signal` the connection whose line is installed); `HeldReplyIsSent`, `WatchEnds`.
* `DmaBus`: `MappingsAreDisjoint`, `BusIsOnRecord`, `AccessSeesOneBus` (byte by byte what
  single reads of the bus it began with deliver), `MappingsLeaveByRight`.
* `Interrupter`: `ImplementsQueue` (refinement of `EventQueue`: nothing lost, read twice,
  overwritten or out of order, and no stale slot taken for an event); `NoLostSignal`;
  `EventsAreRead`. `DriverReadsWhatWasSent` says the same slot by slot; it is what `interrupter_ehb` violates.
* `Endpoint`: `PointerIsOutstanding`, `NothingLeftBehind`, `ContextTellsTheTruth`, `AnswersAreOwn`;
  `HaltIsReported`, `DeathsHaveACause`, `TrbErrorHasACause`; `ImplementsContract` (refinement of
  `EndpointContract`); `CommandsAreAnswered`, `DetachReleases`.
* `Controller`: `EndpointsFitSlot`, `NothingLeftBehind`, `ResetIsComplete`,
  `CommandsAreCompleted`, `ResetEnds`.
* `Ports`: `PortsAgree`, `ConnectionIsAnnounced`, `OnlyOwnInstance`,
  `CancelledIsDetached`, `RequestsAreAnswered`.

Exceptions are written into the properties and say what the code does not
guarantee: `ResetEnds` exempts a reset written while the coordinator was not waiting
(`notify_waiters` reaches nobody) and a worker on its way that has died; `NothingLeftBehind` of `Controller` and
`CommandsAreCompleted` a worker that went on after a reset without stopping (`stale`), and the latter a ring that was
stopped or whose worker has died; `ResetIsComplete` a command worker that is about to test USBCMD.RS;
`CommandsAreAnswered` a worker that has died, which drops the answer (a Terminate may also be dropped by a worker that lives:
`controller_wedge`); `CancelledIsDetached` and `RequestsAreAnswered` a port worker that has ended, the latter only for want of
an interrupter; `ConnectionIsAnnounced` a device that is replaced between a read of the driver and its write-back: it reads CCS = 1
again, and the change bit of the new device is cleared; `HandedOverMemoryIsCovered` the commit in binding mode, whose memory check is
deferred by design, `DeathsHaveACause` the deaths the code has (`Cause`), among them the stopped OUT TRB that is submitted again
(`endpoint_assert`) and the late answer of a stopped control transfer, and a device that is going; `TrbErrorHasACause` a control
transfer with a command in the middle, and `MappingsLeaveByRight` a new mapping at the very start of an old one, and an owner that unmaps what it never mapped.
`PointerIsOutstanding` and `NothingLeftBehind` of `Endpoint` exempt an IN endpoint whose device is going. Its
handle, until it is dropped, keeps the TRBs of the TD under way across the Reset Endpoint that follows, in front of those of the
next TD; a fault then takes the pointer back to a TRB the driver has written off, whose slot it may use again. On the ring
of the run that cannot yet make a worker sleep in front of a TRB it was rung for; it can on a ring of eight
slots, which the attempt to prove `NothingLeftBehind` for every size brought out.

### Bounds, and why they are enough

* `Conn`: three connections in `handover_default` are a source, a destination and
  a third that arrives after a hand-over, which is what tells a stale previous owner or
  candidate from the present one. `handover_binding` has two, with two vectors
  so that the vector check matters. One region suffices, as coverage is
  a subset test and the mappings of the two connections at the same address are what collide.
* `MaxEpoch` 3 allows claim, commit, and a reclaim, fall-back, promotion or second commit;
  timers of one tick give "within" and "elapsed", which is all the code distinguishes. In the
  default run the lease is zero ticks, and a reclaim may come before or after it is over.
* `DmaBus`: four addresses on the bus and four ranges, which between them start at the same
  address with different sizes, overlap, touch, and reach past the end of the bus; two connections,
  so that one's mapping meets the other's; accesses of up to three addresses span two borders; three changes of
  hands are claim, commit and a way back. The proofs cover every other size.
* `Interrupter`: three slots in segments of two and one, five events: the ring wraps
  and fills; two lines and one reset.
* `Endpoint`: rings of 4 (control 5) slots with the Link TRB, so TRBs wrap past it; enough TRBs to
  go round; two endpoint commands, e.g. reset and set dequeue pointer; one TD that is malformed or not supported.
  The interrupter ends when an event is due, as nobody can tell an earlier end from it; likewise in `Controller` and `Ports`.
* `Controller`: one slot with two endpoints, two commands on the ring at once (completed commands make room
  for further ones), one reset, one message of the driver in a channel next to those
  of the coordinator. Behind another command the driver queues only a no-op, and after the last reset only the
  commands of `OldOps`: an enable, a disable, an endpoint command and a no-op, which are those of each length of way to an
  answer.
* `Ports`: a USB 2 and a USB 3 port, two attachments, among them
  the same identifier at another speed, a second device for an occupied port and one of unknown speed.

`CHECK_DEADLOCK FALSE` appears where everything may stop for good: bounded drivers that have
nothing left to do, and workers that have died. The hand-over runs keep deadlock detection.

### Fairness

* `Handover`: time passes, and a thread asleep on a condition variable *with timeout* is woken
  (`WakeParked`, `WatchPoll`). VMMs and the controller are not fair: they may never act.
* `DmaBus`: none; its properties are about safety only.
* `Interrupter`: the worker task runs, and a driver that has been interrupted goes on handling;
  nothing obliges anybody to send an event or a line.
* `Endpoint`: the worker, purely local completions, the completion of a detached device, the failure to send an event and the
  detach handler run. The device itself is not fair, it may never complete a transfer.
* `Controller`: the three workers run (tokio schedules every task that can proceed); the driver is not fair.
* `Ports`: port worker, listeners, handlers and launcher run; the driver and the hot-plug client are not fair.

All of it is weak fairness of tasks or threads that stay enabled; none is assumed of the
outside.

## 4. The proofs

Each proof module has the theorems of one component, for every value of its constants
that satisfies the named assumptions, and rests on one inductive invariant, which TLC has
checked on the instance of the run before.

`HandoverProofs`, for every set of connections, regions and vectors, every policy and every
timeout. Assumptions: `NoOwnerAssumption` and `NoneAssumption` (the sentinels are not values),
`TimersAssumption`, `PolicyAssumption`, `BoundAssumption`.

* `OwnershipInvariant`: `Spec => []OwnershipInv`, the inductive invariant

      OwnershipInv == TypeOK /\ LineFollowsOwner /\ FallbackIsIntact
                      /\ UnownedIsBoot /\ CandidateIsOwn

  `LineFollowsOwner` is not inductive alone: a commit installs the registration of the candidate, so
  the candidate's registration has to be the candidate's own (`CandidateIsOwn`);
  a fall-back installs `prev_reg`, so that has to be the previous owner's
  (`FallbackIsIntact`); and the first registration on an unowned device must find
  nothing left over (`UnownedIsBoot`). The proof has a lemma per group of steps (connection
  threads, their end, control thread, clock); those that only touch the candidate share
  `CandidateOnly`.
* `TypeCorrect`, `LineFollowsOwnerAlways`, `FallbackIsIntactAlways`,
  `UnownedIsBootAlways` follow.
* `HandoverImplementsOwnership`: every step is a step of `DeviceOwnership` or a stutter of
  it, using the invariant for `GiveBack` and `Rewire`.
* `CandidateIsHeldAlways`: needs `OwnCandidateIsLast` beside it. A previous owner that waits for a reply may
  get the device back and is then candidate and owner at once, no longer waiting; that this harms nobody
  rests on there being no previous owner then, to whom the device could go and leave the candidate behind.
* `TeardownIsOwnersAlways`, `ReadinessIsEarnedAlways`, `HandedOverMemoryIsCoveredAlways`: the three
  action properties.

`DmaBusProofs`, for every set of connections and ranges, every size of the bus and every length of an
access. Assumptions: `BusSizeAssumption`, `RegionAssumption` (ranges are not empty), `OwnerAssumption`,
`LimitsAssumption`.

* `BusInvariant`: the inductive invariant

      BusInv == TypeOK /\ MappingsAreDisjoint /\ BusIsOnRecord
                /\ MappedByEstablished /\ AccessSeesOneBus

  `MappedByEstablished` is what lets `BusIsOnRecord` hold when a connection is established: the bus has nothing of
  it yet. That an access has carried its bus since it began, and that this bus was disjoint then, is
  part of `AccessSeesOneBus`.
* `ChunkReads`: a chunk of the bulk iterator agrees byte by byte with single reads, on any disjoint bus. On it
  rests `AccessIsWhole`. `Disjointness` and `RecordCoversBus` follow from the invariant.
* `LeavingByRight`: the action property `MappingsLeaveByRight`.

`InterrupterProofs`, for every segment table, every set of lines, and any number of events, line changes and
resets. Assumptions: `SegmentsAssumption` (a segment at least, none of them empty), `LineAssumption` (lines are not messages of another kind), `BoundsAssumption`, `EhbAssumption`.

* `TypeCorrect`: whatever the driver writes to ERDP. Its invariant is `TypeOK /\ ProducerIsPlaced`: the segment index and
  the count of TRBs left belong to the enqueue pointer, so that the three-branch advance stays in the ring.
* `RingInvariant`: `~DriverSetsEhb => (Spec => []RingInv)`, the inductive invariant

      RingInv == TypeInv /\ StartsInOrder /\ SlotsAreTrue
                 /\ PointersAgree /\ LastLineIsGiven /\ NoLostSignal

  The hypothesis is needed: the run `interrupter_ehb` shows that the ring is overrun without it, and `NoLostSignal`
  falls with it. `SlotsAreTrue`: a slot has the cycle bit the driver expects exactly if its distance from the
  driver's pointer (`Ahead`) is less than the number of unread events, and then holds the event of that
  distance. `PointersAgree`: the enqueue pointer is that far ahead, with the cycle
  state to match, and ERDP, which lags behind the driver, is no nearer, which is why the ring-full test errs on
  the safe side. `StartsInOrder`: a ring is started only for a driver that has just set it up. `LastLineIsGiven`:
  the last line message under way, or else the line installed, is the guest's; on it `NoLostSignal` rests.
  The segments enter by a few lemmas on `Index` and `Ahead` (the successor of a slot is one further, or
  the first), and nothing after them speaks of segments.
* `NoLostSignalAlways` and `DriverReadsWhatWasSentAlways` follow.
* `InterrupterImplementsQueue`: every step is a step of `EventQueue` or a stutter of it. By the invariant `Unread`
  is the sequence of the events after the last one read.

`EndpointProofs`, for every kind of endpoint, every size of the ring and any number of TRBs, commands and
messages. Assumptions: `KindsAssumption`, `RingAssumption` (two slots besides the Link TRB),
`BoundsAssumption`, `NoneAssumption` (the sentinel is no number, command or state of a parser).

* `EndpointInvariant`: the inductive invariant

      EndpointInv == WorkerInv /\ DeviceOfKind
      WorkerInv   == ContextTellsTheTruth /\ TrbsAreQueued /\ CommandsArePending
                     /\ WaitingHasSubmitted /\ SubmissionOfKind
                     /\ WithdrawsWhole /\ LateAnswersAreCounted

  `WaitingHasSubmitted`: a TRB is submitted exactly while the worker waits, so no second submission meets the
  first. `CommandsArePending`: a command in the channel is the one awaited, nothing follows a Terminate, and a closed channel
  holds nothing else. `WithdrawsWhole`: an OUT or IN endpoint has one transfer under way when it awaits
  one and none otherwise. `LateAnswersAreCounted`: a control endpoint cannot withdraw, so each command that came
  in between may have left one answer, and the awaited transfer is the youngest. `DeviceOfKind`: only a control endpoint has
  a task that may be gone, which then has no requests, and only the others are opened late.
* `ContextTellsTheTruthAlways`, `AnswersAreOwnAlways`, and the action property `DeathsHaveACauseAlways`, whose causes (`Cause`)
  are the ways in which the code ends a worker, one by one.
* `EndpointImplementsContract`: every step of an endpoint is one of `EndpointContract` or a stutter. It is what
  lets `Controller`, and the theorems about it, take an endpoint to be five states. It needs `CommandsArePending`: a
  Terminate is alone in the channel, so that it is dropped by a worker at work and by no other.

`EndpointRingProofs`, about the ring of the same module, from the same assumptions.

* `TransferRingInvariant`: `Spec => []RingInv`, where `RingInv` is `EndpointInv` with

      RingRules == MemoryIsQueued /\ TdsAreWhole
                   /\ PlaceIsQueued /\ MoveIsAlone /\ OutstandingIsKept
                   /\ CollectsTd /\ ParserFollows /\ ErrorIsBad /\ NothingLeftBehind

  `MemoryIsQueued`: a slot holds the last TRB queued there, with the cycle bit of its lap, and the Link TRB has the cycle bit
  of the slot before it. `OutstandingIsKept`: the driver waits for less than a lap of TRBs, so that among these a place and a
  cycle bit belong to one TRB only, and the worker is at one of them; this is what tells a fresh TRB from a stale one.
  `PlaceIsQueued`: the pointer denotes a queued TRB, and while the worker waits the one it has
  submitted. `CollectsTd`: the TRBs an IN endpoint has collected, to which a fault may take it back, are all still waited for.
  `MoveIsAlone`: the pointer is moved only at rest, and nothing else is in the channel. `ParserFollows`: until the first command
  the state of the control parser belongs to the TRB the pointer is at, and with `TdsAreWhole` only a malformed TRB is rejected
  (`ErrorIsBad`).
  The arithmetic (`Place` and `Cycle` are remainder and parity of the lap) is in the lemmas `Division` to
  `PlacesApart`; the steps that leave the ring alone share `Staying`.
* `PointerIsOutstandingAlways`, `NothingLeftBehindAlways`, and the action properties `HaltIsReportedAlways`, which holds
  also when a fault takes the pointer back across the Link TRB, and `TrbErrorHasACauseAlways`.

`ControllerProofs`, for every number of slots and every bound. Assumptions: `SlotsAssumption`,
`EndingsAssumption`, `FaultsAssumption`, `BoundsAssumption`, `NoneAssumption`.

* `ControllerInvariant`: the inductive invariant

      ControllerInv == TypeOK /\ SlotsFit /\ RequestsAreAwaited /\ ResetInOrder
                       /\ RunsOnNewRing /\ RingIsCurrent /\ NothingLeftBehind

  `SlotsFit` is `EndpointsFitSlot` slot by slot. `RequestsAreAwaited`: the command worker has one request with the slot worker at a time
  and is waiting for it, so whatever the slot worker answers finds the command it belongs to. `ResetInOrder`: the
  requests of the reset coordinator are the last in their channels, and what its walk has
  passed stays at rest, which makes `ResetIsComplete` true at its end.
  `RunsOnNewRing`: the driver starts the controller on a ring set up after the last reset. `RingIsCurrent`: a worker that
  has stopped since it answered a reset works on that ring, or the move to it is the next message it takes; this is
  what `NothingLeftBehind` needs across a reset, and where `stale` comes in.
* `EndpointsFitSlotAlways`, `NothingLeftBehindAlways` (with the exception of `stale`), and the action property `ResetIsCompleteAlways`,
  which says that the command worker has stopped or is about to test RS, no more.

`PortsProofs`, for every set of ports, every set of devices and any number of attachments. Assumptions:
`PortsAssumption`, `BoundsAssumption`, `DevicesAssumption`, `NoneAssumption`, `HandledAssumption`.

* `PortsInvariant`: the inductive invariant

      PortsInv == PortsAgree /\ ConnectionIsAnnounced /\ ChangesAreSeen
                  /\ InstancesAreMade /\ MessagesAreTrue /\ AttachIsClear /\ OpenOnDevice

  `ChangesAreSeen`: where the driver takes a port for what it is not, CSC is set or it is going to look again, so that its
  write-back cannot clear the last trace of a change. An attach detaches the holder of the identifier first and then, steps later, takes a port: that no
  identifier is attached twice needs it to stay free in between (`AttachIsClear`). A detach message
  of a listener names an instance whose token is cancelled (`MessagesAreTrue`), on which
  `OnlyOwnInstance` rests.
* `PortsAgreeAlways`, `ConnectionIsAnnouncedAlways`, and the action property `OnlyOwnInstanceAlways`.

Only model-checked: liveness (`HeldReplyIsSent`, `WatchEnds`, `EventsAreRead`, `CommandsAreAnswered`, `DetachReleases`,
`CommandsAreCompleted`, `ResetEnds`, `CancelledIsDetached`, `RequestsAreAnswered`): it is stated under fairness,
which is, like ENABLED, out of the prover's reach. Every safety property of a passing run is proved.

## 5. What the violated runs show

1. `handover_deadowner`: `disconnect` returns early for a connection that is not the
   owner and leaves that connection's *staged candidate* in place. A later commit, or the
   promotion when the owner goes, makes a connection that no longer exists the owner.
2. `handover_memory`: memory coverage is judged by per-connection bookkeeping, but the
   bus has one mapping per address. When both VMMs have mapped a region, the unmap of the owner
   removes it for both.
3. `interrupter_ehb`: `check_event_ring_full` compares ERDP as written, low bits included,
   with an address. A driver that sets Event Handler Busy to clear it, as drivers do,
   defeats the check, and unread events are overwritten.
4. `endpoint_assert`: `OutEndpointHandle::cancel` leaves `submission_state` at
   `AwaitingRealTransfer`; the doorbell after a Stop Endpoint then meets the assertion in `submit_trb`.
5. `controller_wedge`: an endpoint that awaits a transfer, or is in its error state, drops a
   Terminate request; the slot worker that awaits the answer ends with an error.

Also met while modelling, and written into a property as an exception or left without one:

* `docs/handover-two-phase-design_cn.md:227` has the DMA mappings of a candidate reclaimed when its connection
  closes; `shared_backend.rs:455` removes their record only.
* A mapping at the start of an old one replaces it whatever their sizes and owners: a shorter one takes
  memory away from the owner (second disjunct of `MappingsLeaveByRight`).
* An ERSTBA write while the interrupter handles a message wakes nobody (`interrupter.rs:179`), although the comment
  there (line 174) reckons with it: the ring is then never started.
* A control transfer that is stopped in its status stage is rejected with a TRB error when it is resumed.
* A reset may be answered before it has been applied. `controller_reset.rs:8-9` says that the "completion notifier must be
  triggered by the worker after it has applied its reset side effects", but a command worker that takes the reset while it drains
  its messages answers it, leaves the loop and goes on to test USBCMD.RS. If by then the coordinator has cleared HCRST and
  the driver has written CRCR and RS = 1, the worker finds the controller running, goes idle on the ring of before
  with CRR = 0, and drops the new dequeue pointer (only a stopped worker takes one): the commands that the driver rings for
  stay behind. Without `~stale`, `NothingLeftBehind` fails with this behaviour.
* A reset that is written before the coordinator waits again (`controller_reset.rs:46`) wakes nobody, and HCRST stays set.
* CRR stays 1 when the command worker stops because RS is 0 (`command_ring.rs:251-257`); only a reset or a ring stop clears it.
* `endpoint_launcher.rs:220` is `unreachable!()` because "the slot should early-reject configure endpoint commands with unsupported
  endpoint types". The slot does not: such a command ends the launcher, and then the slot worker.
* ForceHeader is `todo!()` (`command_ring.rs:393`) and ends the command worker.
* An interrupter that panics over a full event ring (`event_ring.rs:142`) ends the port worker with its next event. The
  thread of the hotplug server, which also serves the hand-over commands, then panics at `port.rs:395`.
* A device that is replaced between the driver's read of PORTSC and its write-back goes unnoticed: the write clears the CSC of the
  new one (`registers.rs:70-77`), and CCS reads 1 before and after.

## 6. What is not modelled, and why

* Payloads, TRB bit layout, descriptors, USB requests: no control decision depends on them
  beyond the types that are modelled. No-op TRBs and short Immediate Data are left out.
* The address decoding of registers, capability registers, PCI configuration space, MSI-X table: sequential
  storage.
* The contents of DMA memory (accesses are followed to where a byte comes from), sub-buses, which the DMA bus does
  not have, and `compare_exchange_request`, which nothing calls.
* Re-configuration of the event ring segment table while it runs, and more than one interrupter
  (the code has one).
* Serialisation of the hot-plug protocol, the `remote` tool, packet capture, logging,
  argument parsing; the debug-build test hooks of the hand-over.
* The single-client mode, which has no ownership state.

## 7. Plan

The order of work puts first what the program promises to its users, the hand-over, then what
the guest depends on.

1. Done: `DeviceOwnership`, `Handover`; `EventRing`, `Interrupter` and the `EventQueue` it implements;
   `Endpoint`, with the contract between it and `Controller` as a specification of its own
   (`EndpointStates`, `EndpointContract`); `Controller`; `Ports`; `Bus` and `DmaBus`; the runs above; the proofs of `Handover`,
   `DmaBus`, `Interrupter`, `Endpoint`, `Controller` and `Ports`.
2. Next, extending the model: `Controller` composed with `Ports` (a slot names a root hub port by number, and after a quick
   detach and re-attach another device answers); the control client with lost replies (is a repeated commit told the
   truth?).
3. Then, more proofs: the safety half of the liveness properties (what is owed is never forgotten, e.g. that a request
   awaited in `Ports` is always in some queue), and that the states `Controller` gives to the endpoints of a slot are those of as many
   instances of `EndpointContract`.
