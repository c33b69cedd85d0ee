----------------------------- MODULE Interrupter -----------------------------
(***************************************************************************)
(* The interrupter (interrupter.rs): one worker task that owns the event   *)
(* ring and the interrupt line, fed by a channel that the other workers,   *)
(* the vfio-user threads (a new interrupt line) and the reset coordinator  *)
(* send to; with the guest driver that reads the ring (external).          *)
(*                                                                         *)
(* The ERSTBA register wakes the worker with tokio's notify_waiters, which *)
(* reaches only a future that is registered at that moment; `listening`    *)
(* says whether there is one and whether it has been notified.  select!    *)
(* drops it, with its notification, whenever the other branch wins.        *)
(***************************************************************************)
EXTENDS EventRing, Sequences

CONSTANTS
    Line,           \* interrupt lines (eventfds) of the VMMs
    NoLine,         \* DummyInterruptLine
    DriverSetsEhb,  \* whether the driver writes ERDP with Event Handler Busy set
    MaxEvents,      \* bound: events sent between two resets
    MaxLines,       \* bound: interrupt line updates
    MaxResets       \* bound: controller resets

ASSUME LineAssumption == /\ NoLine \notin Line \cup {"event", "reset"}
                         /\ Line \cap {"event", "reset"} = {}
ASSUME BoundsAssumption == MaxEvents \in Nat /\ MaxLines \in Nat /\ MaxResets \in Nat
ASSUME EhbAssumption == DriverSetsEhb \in BOOLEAN

VARIABLES
    queue,      \* the worker's channel: "event", "reset" or a line
    worker,     \* "waiting" for ERSTBA, "configured", "dead" (panicked)
    listening,  \* ERSTBA future: "no", "armed", "notified"
    line,       \* EventWorker.interrupt_line
    erdp,       \* register ERDP: the address and the Event Handler Busy bit
    pending,    \* lines with an interrupt their VMM has not injected yet
    given,      \* line the VMM that runs the guest has handed over last
    driver,     \* "down", "setup" (ERSTBA not written), "running", "resetting"
    handling,   \* the driver is in its interrupt handler
    deq, ccs,   \* the driver's dequeue pointer and consumer cycle state
    enq, got,   \* events written to the ring since its setup, events read
    sends, updates, resets    \* counters for the bounds

workerVars == <<worker, listening, line>>
driverVars == <<driver, handling, deq, ccs, got>>
counters   == <<sends, updates, resets>>
vars == <<ringVars, mem, queue, workerVars, erdp, pending, given, driverVars, enq, counters>>

Message == {"event", "reset"} \cup Line \cup {NoLine}

TypeOK ==
    /\ RingTypeOK
    /\ queue \in Seq(Message)
    /\ worker \in {"waiting", "configured", "dead"}
    /\ listening \in {"no", "armed", "notified"}
    /\ line \in Line \cup {NoLine}
    /\ erdp \in [ptr : Slot \cup {Null}, ehb : BOOLEAN]
    /\ pending \in SUBSET Line
    /\ given \in Line \cup {NoLine}
    /\ driver \in {"down", "setup", "running", "resetting"}
    /\ handling \in BOOLEAN
    /\ deq \in Slot
    /\ ccs \in BOOLEAN
    /\ enq \in Nat /\ got \in Nat
    /\ sends \in Nat /\ updates \in Nat /\ resets \in Nat

Init ==
    /\ RingInit
    /\ mem = [p \in Slot |-> [event |-> 0, cycle |-> FALSE]]
    /\ queue = <<>>
    /\ worker = "waiting" /\ listening = "no" /\ line = NoLine
    /\ erdp = [ptr |-> Null, ehb |-> FALSE]
    /\ pending = {} /\ given = NoLine
    /\ driver = "down" /\ handling = FALSE /\ deq = SegBase(0) /\ ccs = TRUE
    /\ enq = 0 /\ got = 0
    /\ sends = 0 /\ updates = 0 /\ resets = 0

-----------------------------------------------------------------------------
(* Senders *)

\* EventSender::send by an endpoint, command, slot or port worker.
SendEvent ==
    /\ worker # "dead" /\ sends < MaxEvents
    /\ queue' = Append(queue, "event")
    /\ sends' = sends + 1
    /\ UNCHANGED <<ringVars, mem, workerVars, erdp, pending, given, driverVars, enq,
                   updates, resets>>

\* Interrupter::set_interrupt_line: SetIrqs of the owner, or a hand-over.  The
\* guest runs, from now on, behind the VMM that listens on l.
SetInterruptLine(l) ==
    /\ worker # "dead" /\ updates < MaxLines
    /\ queue' = Append(queue, l)
    /\ given' = l
    /\ updates' = updates + 1
    /\ UNCHANGED <<ringVars, mem, workerVars, erdp, pending, driverVars, enq, sends, resets>>

-----------------------------------------------------------------------------
(* The worker (EventWorker) *)

Raise(l) == pending' = pending \cup ({l} \cap Line)

\* A turn of the select! in wait_for_event_ring_configuration registers for ERSTBA.
Listen ==
    /\ worker = "waiting" /\ listening = "no"
    /\ listening' = "armed"
    /\ UNCHANGED <<ringVars, mem, queue, worker, line, erdp, pending, given, driverVars,
                   enq, counters>>

\* The notification branch wins: configure and go on to run_configured.
StartRing ==
    /\ worker = "waiting" /\ listening = "notified"
    /\ worker' = "configured" /\ listening' = "no"
    /\ Configure
    /\ UNCHANGED <<mem, queue, line, erdp, pending, given, driverVars, enq, counters>>

\* The message branch wins: events are dropped, a line is noted without a kick.
ReceiveWaiting ==
    /\ worker = "waiting" /\ queue # <<>>
    /\ queue' = Tail(queue)
    /\ listening' = "no"
    /\ line' = IF Head(queue) \in {"event", "reset"} THEN line ELSE Head(queue)
    /\ IF Head(queue) = "reset"
       THEN RingReset /\ erdp' = [ptr |-> Null, ehb |-> FALSE]
       ELSE UNCHANGED <<ringVars, erdp>>
    /\ UNCHANGED <<mem, worker, pending, given, driverVars, enq, counters>>

\* What check_event_ring_full compares with: the register as it was written.
DequeuePointer == IF erdp.ehb THEN Null ELSE erdp.ptr

\* SendEvent while configured: written and signalled, or the todo!() panic.
WorkerEvent ==
    /\ worker = "configured" /\ queue # <<>> /\ Head(queue) = "event"
    /\ queue' = Tail(queue)
    /\ IF IsFull(DequeuePointer)
       THEN worker' = "dead" /\ UNCHANGED <<ringVars, mem, pending, enq>>
       ELSE /\ Enqueue(enq + 1)
            /\ enq' = enq + 1
            /\ Raise(line)
            /\ UNCHANGED worker
    /\ UNCHANGED <<listening, line, erdp, given, driverVars, counters>>

\* Mutant: no interrupt on the new line.
WorkerLine_NoKick ==
    /\ worker = "configured" /\ queue # <<>> /\ Head(queue) \in Line \cup {NoLine}
    /\ queue' = Tail(queue)
    /\ line' = Head(queue)
    /\ UNCHANGED <<ringVars, mem, worker, listening, erdp, pending, given, driverVars, enq,
                   counters>>

\* UpdateInterruptLine while configured: install, then kick the new line.
WorkerLine ==
    /\ worker = "configured" /\ queue # <<>> /\ Head(queue) \in Line \cup {NoLine}
    /\ queue' = Tail(queue)
    /\ line' = Head(queue)
    /\ Raise(Head(queue))
    /\ UNCHANGED <<ringVars, mem, worker, listening, erdp, given, driverVars, enq, counters>>

\* Reset while configured: registers and ring cleared, back to waiting.
WorkerReset ==
    /\ worker = "configured" /\ queue # <<>> /\ Head(queue) = "reset"
    /\ queue' = Tail(queue)
    /\ worker' = "waiting"
    /\ RingReset
    /\ erdp' = [ptr |-> Null, ehb |-> FALSE]
    /\ UNCHANGED <<mem, listening, line, pending, given, driverVars, enq, counters>>

-----------------------------------------------------------------------------
(* The guest driver *)

\* ErstbaRegister::write: notify_waiters reaches a registered future only.
NotifyErstba == listening' = IF listening = "armed" THEN "notified" ELSE listening

\* A zeroed ring, its segment table, ERSTSZ and ERDP are in place.
DriverSetup ==
    /\ driver = "down"
    /\ driver' = "setup"
    /\ mem' = [p \in Slot |-> [event |-> 0, cycle |-> FALSE]]
    /\ deq' = SegBase(0) /\ ccs' = TRUE
    /\ enq' = 0 /\ got' = 0
    /\ erdp' = [ptr |-> SegBase(0), ehb |-> FALSE]
    /\ UNCHANGED <<ringVars, queue, workerVars, pending, given, handling, counters>>

DriverWritesErstba ==
    /\ driver = "setup"
    /\ driver' = "running"
    /\ NotifyErstba
    /\ UNCHANGED <<ringVars, mem, queue, worker, line, erdp, pending, given, handling, deq,
                   ccs, got, enq, counters>>

\* The VMM injects the interrupt and the driver enters its handler.
DriverInterrupt ==
    /\ driver = "running" /\ ~handling
    /\ given \in pending
    /\ pending' = pending \ {given}
    /\ handling' = TRUE
    /\ UNCHANGED <<ringVars, mem, queue, workerVars, erdp, given, driver, deq, ccs, got,
                   enq, counters>>

LastSlot(p) == p[1] = ERSTSZ - 1 /\ p[2] = SegSize[p[1]] - 1

NextSlot(p) ==
    IF p[2] < SegSize[p[1]] - 1 THEN Plus1(p) ELSE SegBase((p[1] + 1) % ERSTSZ)

\* An event with the expected cycle bit is read ...
DriverReads ==
    /\ handling /\ mem[deq].cycle = ccs
    /\ got' = got + 1
    /\ deq' = NextSlot(deq)
    /\ ccs' = IF LastSlot(deq) THEN ~ccs ELSE ccs
    /\ UNCHANGED <<ringVars, mem, queue, workerVars, erdp, pending, given, driver, handling,
                   enq, counters>>

\* ... until the cycle bit says the ring is empty; then ERDP is updated.
DriverDone ==
    /\ handling /\ mem[deq].cycle # ccs
    /\ handling' = FALSE
    /\ erdp' = [ptr |-> deq, ehb |-> DriverSetsEhb]
    /\ UNCHANGED <<ringVars, mem, queue, workerVars, pending, given, driver, deq, ccs, got,
                   enq, counters>>

\* The driver resets the controller (USBCMD.HCRST) ...
DriverResets ==
    /\ driver = "running" /\ worker # "dead" /\ resets < MaxResets
    /\ driver' = "resetting" /\ handling' = FALSE
    /\ queue' = Append(queue, "reset")
    /\ resets' = resets + 1 /\ sends' = 0
    /\ UNCHANGED <<ringVars, mem, workerVars, erdp, pending, given, deq, ccs, got, enq, updates>>

\* ... and sees HCRST cleared once the worker has completed its part.
DriverResetDone ==
    /\ driver = "resetting"
    /\ \A i \in 1 .. Len(queue) : queue[i] # "reset"
    /\ driver' = "down"
    /\ UNCHANGED <<ringVars, mem, queue, workerVars, erdp, pending, given, handling, deq,
                   ccs, got, enq, counters>>

-----------------------------------------------------------------------------
Worker == Listen \/ StartRing \/ ReceiveWaiting \/ WorkerEvent \/ WorkerLine \/ WorkerReset

Driver == \/ DriverSetup \/ DriverWritesErstba
          \/ DriverInterrupt \/ DriverReads \/ DriverDone

Next ==
    \/ SendEvent
    \/ \E l \in Line \cup {NoLine} : SetInterruptLine(l)
    \/ Worker
    \/ Driver
    \/ DriverResets
    \/ DriverResetDone

Spec == Init /\ [][Next]_vars

\* The runtime keeps polling the worker and the guest keeps running; nobody has
\* to send, reset or change the line.
Fairness ==
    /\ WF_vars(Worker)
    /\ WF_vars(Driver)
    /\ WF_vars(DriverResetDone)

FairSpec == Spec /\ Fairness

-----------------------------------------------------------------------------
(* Properties *)

\* The k-th slot from p on, and whether the ring wraps on the way.
Total == Cardinality(Slot)
Index(p) == Cardinality({q \in Slot : q[1] < p[1] \/ (q[1] = p[1] /\ q[2] < p[2])})
SlotAt(i) == CHOOSE p \in Slot : Index(p) = i % Total

\* From its dequeue pointer the driver finds exactly the events written and not
\* yet read, in the order they were sent, each with the cycle bit it expects,
\* and after them a slot that tells it to stop: nothing unread is overwritten
\* and nothing is read twice, across segments and wraps.
DriverReadsWhatWasSent ==
    driver = "running" =>
        /\ \A k \in 1 .. enq - got :
              LET i == Index(deq) + k - 1
              IN  /\ mem[SlotAt(i)].event = got + k
                  /\ mem[SlotAt(i)].cycle = (ccs = (i < Total))
        /\ LET i == Index(deq) + enq - got
           IN  mem[SlotAt(i)].cycle # (ccs = (i < Total))

\* What the driver would find if it read on now: the events from its dequeue pointer
\* on, as long as the cycle bits are those it expects.
Expected(i) == mem[SlotAt(i)].cycle = (ccs = (i < Total))

Unread ==
    LET d == Index(deq)
        n == CHOOSE n \in 0 .. Total :
                /\ \A k \in 0 .. n - 1 : Expected(d + k)
                /\ n = Total \/ ~Expected(d + n)
    IN  [k \in 1 .. n |-> mem[SlotAt(d + k - 1)].event]

\* The queue of module EventQueue, as the driver finds it in its ring.
QueueUnread == IF driver = "running" THEN Unread ELSE <<>>
QueueSent   == IF driver = "running" THEN enq ELSE 0

Queue == INSTANCE EventQueue WITH
    Capacity <- Total - 1, unread <- QueueUnread, sent <- QueueSent

\* The ring with its segments, cycle bits and pointers is to the driver the queue of
\* module EventQueue: no event is lost, read twice, overwritten or out of order, and no
\* stale slot is taken for an event.
ImplementsQueue == Queue!QSpec

\* Unread events are never left without a signal: while the guest has a line,
\* either an interrupt is pending on it, or the driver is looking at the ring,
\* or the message that will install the line and kick it is on its way.
NoLostSignal ==
    driver = "running" /\ ~handling /\ enq > got /\ given # NoLine =>
        \/ given \in pending
        \/ \E i \in 1 .. Len(queue) : queue[i] \in Line \cup {NoLine}
        \/ worker = "dead"

\* Every event that reached the ring is read by the driver, however the line is
\* handed over in between, unless the guest is left without a line, resets the
\* controller, or the ring overflowed.
EventsAreRead ==
    \A k \in 1 .. MaxEvents :
        (enq >= k /\ driver = "running") ~>
            (got >= k \/ driver # "running" \/ given = NoLine \/ worker = "dead")

=============================================================================
