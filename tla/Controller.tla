------------------------------ MODULE Controller ------------------------------
(***************************************************************************)
(* The command side of the controller: USBCMD and the reset coordinator    *)
(* (registers.rs, controller_reset.rs), the command ring and its worker    *)
(* (command_ring.rs), and the slot worker with its slots (slot_manager.rs);*)
(* with a guest driver that keeps to the xHCI rules (external).            *)
(*                                                                         *)
(* The endpoints are those of module Endpoint as the slot sees them, which *)
(* is what EndpointContract promises of them (EndpointStates).             *)
(*                                                                         *)
(* A command ring is a generation: writing CRCR starts a new, empty one.   *)
(***************************************************************************)
EXTENDS Integers, Sequences, FiniteSets, EndpointStates

CONSTANTS
    Slots,         \* slot numbers, 1 .. n
    None,
    Endings,       \* what a busy endpoint may become: "quiet", "dead"
    Faults,        \* what a run lets happen besides: a driver with "isoch" endpoints, a
                   \* "forceheader" command, the end of the "interrupter"
    OldOps,        \* bound: commands that may be found on a ring the driver has given up,
                   \* and that it gives after the last reset
    MaxCommands,   \* bound: commands on the ring
    MaxResets,     \* bound: host controller resets
    MaxMessages    \* bound: messages in a worker's channel that the driver adds to

ASSUME SlotsAssumption ==
    IsFiniteSet(Slots) /\ Slots # {} /\ Slots = 1 .. Cardinality(Slots)
ASSUME EndingsAssumption == Endings \subseteq {"quiet", "dead"}
ASSUME FaultsAssumption == Faults \subseteq {"isoch", "forceheader", "interrupter"}
ASSUME BoundsAssumption == {MaxCommands, MaxResets, MaxMessages} \subseteq Nat

Eps == {1, 2}    \* the control endpoint and one other

VARIABLES
    rs, hcrst,         \* USBCMD
    coord,             \* ResetCoordinator
    crr,               \* commandring_running
    cw,                \* CommandWorker's state
    cchan,             \* its messages
    cgen,              \* its LinkedRing: the generation it points into
    cmd,               \* the command in ProcessingCommand
    reply,             \* what came back for it
    stale,             \* history: since it answered a reset, the worker has looked for
                       \* a command before it had stopped
    sw,                \* SlotWorker: "alive" or "dead"
    schan,             \* its messages
    num,               \* ConfigureRegister: slots enabled
    slots,             \* the slots
    interrupter,       \* whether there is someone to send events to
    gen, queue, rung,  \* driver: its ring, commands from the dequeue pointer on, and how
                       \* many of them a doorbell has announced
    resets             \* bound: resets so far

usbcmd  == <<rs, hcrst>>
command == <<crr, cw, cchan, cgen, cmd, reply, stale>>
slotmgr == <<sw, schan, num, slots>>
driver  == <<gen, queue, rung, resets>>
vars    == <<usbcmd, coord, command, slotmgr, driver, interrupter>>

NoEps == [e \in Eps |-> "none"]
NoSlot == [st |-> "none", eps |-> NoEps]

Command ==
    [op : {"enable", "noop", "forceheader"}, slot : {0}, arg : {0}]
    \cup [op : {"disable", "resetdevice", "evaluate"}, slot : Slots, arg : {0}]
    \cup [op : {"address", "endpoint"}, slot : Slots, arg : {1, 2}]
    \cup [op : {"configure"}, slot : Slots,
          arg : {"deconfigure", "add", "drop", "replace", "isoch"}]

\* The commands that this run's driver uses.
Issued == {c \in Command : /\ c.op = "forceheader" => "forceheader" \in Faults
                           /\ c.op = "configure" => (c.arg = "isoch" => "isoch" \in Faults)}

ASSUME NoneAssumption == None \notin Command /\ None \notin {"sent", "answered", "dropped"}

SlotMessage == Command \cup [op : {"resetall"}, slot : {0}, arg : {0}]
               \cup [op : {"doorbell"}, slot : Slots, arg : Eps]
CommandMessage == [op : {"doorbell", "stop", "reset"}, gen : {0}] \cup [op : {"setdeq"}, gen : Nat]

TypeOK ==
    /\ {rs, hcrst, crr, stale, interrupter} \subseteq BOOLEAN
    /\ coord \in {"rearm", "waiting", "awake", "command", "interrupter", "slots", "clear"}
    /\ cw \in {"stopped", "idle", "looking", "checking", "processing", "stopping", "dead"}
    /\ cchan \in Seq(CommandMessage)
    /\ cgen \in 0 .. gen
    /\ cmd \in Command \cup {None}
    /\ reply \in {None, "sent", "answered", "dropped"} /\ (reply # None => cmd # None)
    /\ sw \in {"alive", "dead"}
    /\ schan \in Seq(SlotMessage)
    /\ num \in {0, Cardinality(Slots)}
    /\ slots \in [Slots -> [st : {"none", "enabled", "default", "addressed", "configured"},
                            eps : [Eps -> {"none", "quiet", "busy", "dead"}]]]
    /\ gen \in Nat /\ queue \in Seq(Command) /\ rung \in 0 .. Len(queue)
    /\ resets \in 0 .. MaxResets

Init ==
    /\ rs = FALSE /\ hcrst = FALSE /\ coord = "rearm"
    /\ crr = FALSE /\ cw = "stopped" /\ cchan = <<>> /\ cgen = 0
    /\ cmd = None /\ reply = None /\ stale = FALSE /\ interrupter = TRUE
    /\ sw = "alive" /\ schan = <<>> /\ num = 0 /\ slots = [s \in Slots |-> NoSlot]
    /\ gen = 0 /\ queue = <<>> /\ rung = 0 /\ resets = 0

-----------------------------------------------------------------------------
(* Host controller reset *)

\* UsbcmdRegister::write; notify_waiters wakes only a coordinator that waits.
UsbcmdWrite(run, reset) ==
    /\ rs' = run
    /\ hcrst' = (hcrst \/ reset)
    /\ coord' = IF reset /\ coord = "waiting" THEN "awake" ELSE coord

\* ResetCoordinator::run_loop reaches hcrst_notification().await.
CoordinatorWaits ==
    /\ coord = "rearm" /\ coord' = "waiting"
    /\ UNCHANGED <<usbcmd, command, slotmgr, driver, interrupter>>

\* It wakes up and sends the first reset.
CoordinatorStarts ==
    /\ coord = "awake"
    /\ IF hcrst /\ cw # "dead"
       THEN coord' = "command" /\ cchan' = Append(cchan, [op |-> "reset", gen |-> 0])
       ELSE coord' = "rearm" /\ UNCHANGED cchan
    /\ UNCHANGED <<usbcmd, crr, cw, cgen, stale, cmd, reply, slotmgr, driver, interrupter>>

\* The interrupter has been reset (module Interrupter), unless it is gone; the slots
\* are next.
CoordinatorResetsSlots ==
    /\ coord = "interrupter"
    /\ IF interrupter /\ sw = "alive"
       THEN coord' = "slots" /\ schan' = Append(schan, [op |-> "resetall", slot |-> 0, arg |-> 0])
       ELSE coord' = "rearm" /\ UNCHANGED schan
    /\ UNCHANGED <<usbcmd, command, sw, num, slots, driver, interrupter>>

\* Mutant: HCRST is left set.
CoordinatorClears_Forgets ==
    /\ coord = "clear" /\ coord' = "rearm"
    /\ UNCHANGED <<usbcmd, command, slotmgr, driver, interrupter>>

CoordinatorClears ==
    /\ coord = "clear" /\ coord' = "rearm"
    /\ hcrst' = FALSE
    /\ UNCHANGED <<rs, command, slotmgr, driver, interrupter>>

-----------------------------------------------------------------------------
(* CommandWorker *)

ToCommand(op, g) == cchan' = Append(cchan, [op |-> op, gen |-> g])

TakeMessage(op) == cchan # <<>> /\ Head(cchan).op = op /\ cchan' = Tail(cchan)

\* Mutant: a reset that finds the ring idle leaves it idle.
CommandReset_StaysIdle ==
    /\ cw \in {"stopped", "idle", "looking"} /\ TakeMessage("reset")
    /\ crr' = FALSE
    /\ cw' = CASE cw = "stopped" -> "stopped" [] cw = "idle" -> "idle" [] OTHER -> "checking"
    /\ coord' = "interrupter" /\ stale' = FALSE
    /\ UNCHANGED <<usbcmd, cgen, cmd, reply, slotmgr, driver, interrupter>>

\* Reset, answered to the coordinator.  LookingForNewCommand then leaves its loop
\* and goes on to the check of USBCMD.
CommandReset ==
    /\ cw \in {"stopped", "idle", "looking"} /\ TakeMessage("reset")
    /\ crr' = FALSE
    /\ cw' = IF cw = "looking" THEN "checking" ELSE "stopped"
    /\ coord' = "interrupter" /\ stale' = FALSE
    /\ UNCHANGED <<usbcmd, cgen, cmd, reply, slotmgr, driver, interrupter>>

\* Only a stopped worker takes a new dequeue pointer.
CommandSetDequeuePointer ==
    /\ cw \in {"stopped", "idle", "looking"} /\ TakeMessage("setdeq")
    /\ cgen' = IF cw = "stopped" THEN Head(cchan).gen ELSE cgen
    /\ UNCHANGED <<usbcmd, coord, crr, cw, cmd, reply, stale, slotmgr, driver, interrupter>>

\* Mutant: an idle ring swallows the doorbell.
CommandDoorbell_Swallowed ==
    /\ cw \in {"stopped", "idle", "looking"} /\ TakeMessage("doorbell")
    /\ IF cw = "idle" \/ (cw = "stopped" /\ ~rs) THEN UNCHANGED <<cw, crr>>
       ELSE cw' = "looking" /\ crr' = (crr \/ cw = "stopped")
    /\ UNCHANGED <<usbcmd, coord, cgen, stale, cmd, reply, slotmgr, driver, interrupter>>

CommandDoorbell ==
    /\ cw \in {"stopped", "idle", "looking"} /\ TakeMessage("doorbell")
    /\ IF cw = "stopped" /\ ~rs THEN UNCHANGED <<cw, crr>>
       ELSE cw' = "looking" /\ crr' = (crr \/ cw = "stopped")
    /\ UNCHANGED <<usbcmd, coord, cgen, stale, cmd, reply, slotmgr, driver, interrupter>>

CommandStop ==
    /\ cw \in {"stopped", "idle", "looking"} /\ TakeMessage("stop")
    /\ cw' = IF cw = "stopped" THEN cw ELSE "stopping"
    /\ UNCHANGED <<usbcmd, coord, crr, cgen, stale, cmd, reply, slotmgr, driver, interrupter>>

\* LookingForNewCommand has consumed its messages.
CommandDrained ==
    /\ cw = "looking" /\ cchan = <<>>
    /\ cw' = "checking"
    /\ UNCHANGED <<usbcmd, coord, crr, cchan, cgen, stale, cmd, reply, slotmgr, driver, interrupter>>

\* next_trb: the first command of the driver's ring; a command of old or nothing on a
\* ring that the driver has given up.
NextTrb ==
    IF cgen # gen THEN {c \in Issued : c.op \in OldOps} \cup {None}
    ELSE IF queue = <<>> THEN {None} ELSE {Head(queue)}

\* The rest of LookingForNewCommand.
CommandChecks ==
    /\ cw = "checking"
    /\ IF rs
       THEN /\ cmd' \in NextTrb
            /\ cw' = IF cmd' = None THEN "idle" ELSE "processing"
            /\ stale' = (stale \/ ~crr)
       ELSE cw' = "stopped" /\ UNCHANGED <<cmd, stale>>
    /\ UNCHANGED <<usbcmd, coord, crr, cchan, cgen, reply, slotmgr, driver, interrupter>>

\* The worker's task ends with an error; its messages are dropped with it.
CommandDies ==
    /\ cw' = "dead" /\ cchan' = <<>> /\ cmd' = None /\ reply' = None
    /\ coord' = IF coord = "command" THEN "rearm" ELSE coord
    /\ UNCHANGED <<usbcmd, cgen, stale, slotmgr, driver, interrupter>>

\* process_command sends the request to the slot worker.
CommandSends ==
    /\ cw = "processing" /\ reply = None /\ cmd.op \notin {"noop", "forceheader"}
    /\ UNCHANGED crr
    /\ IF sw = "dead" THEN CommandDies
       ELSE /\ schan' = Append(schan, cmd) /\ reply' = "sent"
            /\ UNCHANGED <<usbcmd, coord, cw, cchan, cgen, stale, cmd, sw, num, slots, driver,
                           interrupter>>

\* The worker survives the end of a command when it was answered and there is someone
\* to send the completion to; ForceHeader is todo!().
Completed == (reply = "answered" \/ cmd.op = "noop") /\ interrupter

\* Mutant: the ring goes idle after a command.
CommandCompletes_GoesIdle ==
    /\ cw = "processing" /\ (reply \in {"answered", "dropped"} \/ cmd.op \in {"noop", "forceheader"})
    /\ UNCHANGED crr
    /\ IF ~Completed THEN CommandDies
       ELSE /\ cw' = "idle" /\ cmd' = None /\ reply' = None
            /\ IF cgen = gen /\ queue # <<>>
               THEN queue' = Tail(queue) /\ rung' = IF rung = 0 THEN 0 ELSE rung - 1
               ELSE UNCHANGED <<queue, rung>>
            /\ UNCHANGED <<usbcmd, coord, cchan, cgen, stale, slotmgr, gen, resets, interrupter>>

\* The answer becomes a command completion event; the ring advances.
CommandCompletes ==
    /\ cw = "processing" /\ (reply \in {"answered", "dropped"} \/ cmd.op \in {"noop", "forceheader"})
    /\ UNCHANGED crr
    /\ IF ~Completed THEN CommandDies
       ELSE /\ cw' = "looking" /\ cmd' = None /\ reply' = None
            /\ IF cgen = gen /\ queue # <<>>
               THEN queue' = Tail(queue) /\ rung' = IF rung = 0 THEN 0 ELSE rung - 1
               ELSE UNCHANGED <<queue, rung>>
            /\ UNCHANGED <<usbcmd, coord, cchan, cgen, stale, slotmgr, gen, resets, interrupter>>

\* Stopping, with its Command Ring Stopped event.
CommandStopped ==
    /\ cw = "stopping" /\ crr' = FALSE
    /\ IF ~interrupter THEN CommandDies
       ELSE /\ cw' = "stopped"
            /\ UNCHANGED <<usbcmd, coord, cchan, cgen, stale, cmd, reply, slotmgr, driver,
                           interrupter>>

-----------------------------------------------------------------------------
(* SlotWorker *)

\* An endpoint, if there is one, is terminated: whether it answers.
Terminates(ep) == ep = "none" \/ Answers(ep)

\* The answers of a request that the slot worker cannot finish are dropped; it ends.
SlotWorkerDies ==
    /\ sw' = "dead" /\ schan' = <<>>
    /\ reply' = IF reply = "sent" THEN "dropped" ELSE reply
    /\ coord' = IF coord = "slots" THEN "rearm" ELSE coord
    /\ slots' = [s \in Slots |-> NoSlot]

\* A request is answered and the slot becomes what the handler left.
Answer(s, slot) ==
    /\ reply' = "answered"
    /\ slots' = [slots EXCEPT ![s] = slot]
    /\ schan' = Tail(schan)
    /\ UNCHANGED <<sw, coord>>

Take(op) == sw = "alive" /\ schan # <<>> /\ Head(schan).op = op
Rest == UNCHANGED <<usbcmd, crr, cw, cchan, cgen, stale, cmd, num, driver, interrupter>>

\* allocate_slot's candidates
Free == {s \in 1 .. num : slots[s].st = "none"}

SlotEnable ==
    /\ Take("enable")
    /\ IF Free = {} THEN Answer(1, slots[1])
       ELSE \E s \in Free : /\ \A t \in Free : s <= t
                            /\ Answer(s, [st |-> "enabled", eps |-> NoEps])
    /\ Rest

\* disable_slot; it asserts that the slot is one of those configured.
SlotDisable ==
    /\ Take("disable")
    /\ LET s == Head(schan).slot
       IN  IF s > num \/ \E e \in Eps : ~Terminates(slots[s].eps[e])
           THEN SlotWorkerDies ELSE Answer(s, NoSlot)
    /\ Rest

\* request_launch fails when the launcher ends: it panics when a device is there and the
\* endpoint's type is not supported, and the port worker that it asks for the device
\* may have ended for want of an interrupter (module Ports).
LaunchMayFail(kind) == kind = "isoch" \/ ~interrupter

\* handle_address_device; argument 1 is BSR = 1.
SlotAddress ==
    /\ Take("address")
    /\ LET s == Head(schan).slot
           slot == slots[s]
           next == [st |-> IF Head(schan).arg = 1 THEN "default" ELSE "addressed",
                    eps |-> [slot.eps EXCEPT ![1] = "quiet"]]
       IN  IF slot.st # "enabled" /\ (slot.st # "default" \/ next.st # "addressed")
           THEN Answer(s, slot)
           ELSE IF ~Terminates(slot.eps[1]) THEN SlotWorkerDies
           ELSE Answer(s, next) \/ (LaunchMayFail("control") /\ SlotWorkerDies)
    /\ Rest

\* Mutant: deconfiguring leaves the endpoints behind.
Deconfigured_Keeps(slot, st) == [slot EXCEPT !.st = st]

\* All endpoints but the control endpoint are gone.
Deconfigured(slot, st) == [st |-> st, eps |-> [NoEps EXCEPT ![1] = slot.eps[1]]]

\* handle_configure_endpoint; "replace" has both the drop and the add flag, "isoch" adds
\* an endpoint of a type the launcher does not support.
SlotConfigure ==
    /\ Take("configure")
    /\ LET s == Head(schan).slot
           arg == Head(schan).arg
           slot == slots[s]
       IN  IF slot.st \notin {"addressed", "configured"} THEN Answer(s, slot)
           ELSE IF arg \notin {"add", "isoch"} /\ ~Terminates(slot.eps[2]) THEN SlotWorkerDies
           ELSE \/ Answer(s, CASE arg = "deconfigure" -> Deconfigured(slot, "addressed")
                               [] arg = "drop" -> Deconfigured(slot, "configured")
                               [] OTHER -> [st |-> "configured",
                                            eps |-> [slot.eps EXCEPT ![2] = "quiet"]])
                \/ arg \in {"add", "replace", "isoch"} /\ LaunchMayFail(arg) /\ SlotWorkerDies
    /\ Rest

\* handle_reset_device
SlotResetDevice ==
    /\ Take("resetdevice")
    /\ LET s == Head(schan).slot
           slot == slots[s]
       IN  IF slot.st \notin {"addressed", "configured"} THEN Answer(s, slot)
           ELSE IF ~Terminates(slot.eps[2]) THEN SlotWorkerDies
           ELSE Answer(s, Deconfigured(slot, "default"))
    /\ Rest

SlotEvaluate ==
    /\ Take("evaluate")
    /\ Answer(Head(schan).slot, slots[Head(schan).slot])
    /\ Rest

\* Stop, reset and set-dequeue-pointer are passed on to the endpoint, which answers
\* the command worker itself.  They may make a busy endpoint quiet; one that dies
\* over it drops the request.
SlotEndpoint ==
    /\ Take("endpoint")
    /\ LET s == Head(schan).slot
           e == Head(schan).arg
       IN  IF slots[s].eps[e] = "dead" THEN SlotWorkerDies
           ELSE \/ \E st \in Commanded(slots[s].eps[e]) :
                      Answer(s, [slots[s] EXCEPT !.eps[e] = st])
                \/ /\ "dead" \in Failed(slots[s].eps[e]) \cap Endings
                   /\ reply' = "dropped"
                   /\ slots' = [slots EXCEPT ![s].eps[e] = "dead"]
                   /\ schan' = Tail(schan)
                   /\ UNCHANGED <<sw, coord>>
    /\ Rest

\* A doorbell may make the endpoint busy.
SlotDoorbell ==
    /\ Take("doorbell")
    /\ LET s == Head(schan).slot
           e == Head(schan).arg
       IN  IF slots[s].eps[e] = "dead" THEN SlotWorkerDies
           ELSE /\ schan' = Tail(schan)
                /\ \E st \in Rung(slots[s].eps[e]) : slots' = [slots EXCEPT ![s].eps[e] = st]
                /\ UNCHANGED <<sw, reply, coord>>
    /\ Rest

\* SlotWorker::reset takes every slot and terminates all of its endpoints.
SlotResetAll ==
    /\ Take("resetall")
    /\ num' = 0
    /\ IF \A s \in Slots, e \in Eps : Terminates(slots[s].eps[e])
       THEN /\ slots' = [s \in Slots |-> NoSlot]
            /\ schan' = Tail(schan)
            /\ coord' = "clear"
            /\ UNCHANGED <<sw, reply>>
       ELSE SlotWorkerDies
    /\ UNCHANGED <<usbcmd, crr, cw, cchan, cgen, stale, cmd, driver, interrupter>>

\* An endpoint's transfer ends, or its worker does (module Endpoint).
EndpointSettles(s, e, st) ==
    /\ st \in Settled(slots[s].eps[e])
    /\ slots' = [slots EXCEPT ![s].eps[e] = st]
    /\ UNCHANGED <<usbcmd, coord, command, sw, schan, num, driver, interrupter>>

\* The interrupter's task ends (module Interrupter).  Bound: when someone is about to
\* notice, the coordinator, the command worker, or the slot worker over a launch.
InterrupterDies ==
    /\ "interrupter" \in Faults /\ interrupter /\ interrupter' = FALSE
    /\ coord = "interrupter" \/ cw = "stopping" \/ (cw = "processing" /\ reply = "sent")
    /\ UNCHANGED <<usbcmd, coord, command, slotmgr, driver>>

-----------------------------------------------------------------------------
(* The guest driver.  The operations end in a panic of the calling thread when the *)
(* worker they talk to is dead; a driver that gets that far does nothing more.     *)

DriverRuns == cw # "dead" /\ sw # "dead"
Undisturbed == UNCHANGED <<crr, cw, cgen, stale, cmd, reply, interrupter>>

\* Starting takes a configured controller that is not in reset.
DriverStarts ==
    /\ ~rs /\ ~hcrst /\ num > 0 /\ gen = resets + 1
    /\ UsbcmdWrite(TRUE, FALSE)
    /\ UNCHANGED <<command, slotmgr, driver, interrupter>>

DriverHalts ==
    /\ rs /\ UsbcmdWrite(FALSE, FALSE)
    /\ UNCHANGED <<command, slotmgr, driver, interrupter>>

\* A reset is asked for on a halted controller; what was configured is forgotten.
DriverResets ==
    /\ ~rs /\ ~hcrst /\ resets < MaxResets
    /\ UsbcmdWrite(FALSE, TRUE)
    /\ resets' = resets + 1
    /\ queue' = <<>> /\ rung' = 0
    /\ UNCHANGED <<command, slotmgr, gen, interrupter>>

\* USBCMD is written again while a reset is under way.
DriverRewrites ==
    /\ hcrst /\ UsbcmdWrite(FALSE, FALSE)
    /\ UNCHANGED <<command, slotmgr, driver, interrupter>>

\* CONFIG
DriverConfigures ==
    /\ ~rs /\ ~hcrst /\ num = 0
    /\ num' = Cardinality(Slots)
    /\ UNCHANGED <<usbcmd, coord, command, sw, schan, slots, driver, interrupter>>

\* CommandRing::control, for a halted controller whose CRCR reads CRR = 0; once
\* after start-up and once after each reset.
DriverWritesCrcr ==
    /\ ~rs /\ ~hcrst /\ ~crr /\ DriverRuns /\ gen <= resets
    /\ gen' = resets + 1 /\ queue' = <<>> /\ rung' = 0
    /\ ToCommand("setdeq", resets + 1)
    /\ Undisturbed /\ UNCHANGED <<usbcmd, coord, slotmgr, resets>>

\* CommandRing::control with the stop or the abort bit, while CRR = 1.
DriverStopsRing ==
    /\ rs /\ crr /\ DriverRuns /\ Len(cchan) < MaxMessages
    /\ ToCommand("stop", 0)
    /\ Undisturbed /\ UNCHANGED <<usbcmd, coord, slotmgr, driver, interrupter>>

\* Slots the driver has been given are the ones it has commands for.  Bounds: behind
\* another command it queues only a no-op, and after the last reset those of OldOps.
DriverQueues(c) ==
    /\ rs /\ DriverRuns /\ Len(queue) < MaxCommands
    /\ queue # <<>> => c.op = "noop"
    /\ resets = MaxResets => c.op \in OldOps
    /\ c.op \notin {"enable", "noop", "forceheader"} => slots[c.slot].st # "none"
    /\ queue' = Append(queue, c)
    /\ UNCHANGED <<usbcmd, coord, command, slotmgr, gen, rung, resets, interrupter>>

\* DOORBELL_CONTROLLER
DriverRings ==
    /\ rs /\ DriverRuns /\ Len(cchan) < MaxMessages
    /\ ToCommand("doorbell", 0)
    /\ rung' = Len(queue)
    /\ Undisturbed /\ UNCHANGED <<usbcmd, coord, slotmgr, gen, queue, resets>>

\* SlotManager::doorbell
DriverRingsDevice(s, e) ==
    /\ rs /\ DriverRuns /\ slots[s].eps[e] # "none" /\ Len(schan) < MaxMessages
    /\ schan' = Append(schan, [op |-> "doorbell", slot |-> s, arg |-> e])
    /\ UNCHANGED <<usbcmd, coord, command, sw, num, slots, driver, interrupter>>

-----------------------------------------------------------------------------
CommandNext ==
    \/ CommandReset \/ CommandSetDequeuePointer \/ CommandDoorbell \/ CommandStop
    \/ CommandDrained \/ CommandChecks \/ CommandSends \/ CommandCompletes \/ CommandStopped

SlotNext ==
    \/ SlotEnable \/ SlotDisable \/ SlotAddress \/ SlotConfigure \/ SlotResetDevice
    \/ SlotEvaluate \/ SlotEndpoint \/ SlotDoorbell \/ SlotResetAll

CoordinatorNext ==
    CoordinatorWaits \/ CoordinatorStarts \/ CoordinatorResetsSlots \/ CoordinatorClears

DriverNext ==
    \/ DriverStarts \/ DriverHalts \/ DriverResets \/ DriverRewrites \/ DriverConfigures
    \/ DriverWritesCrcr \/ DriverStopsRing \/ DriverRings
    \/ \E c \in Issued : DriverQueues(c)
    \/ \E s \in Slots, e \in Eps : DriverRingsDevice(s, e)

EndpointNext == \E s \in Slots, e \in Eps, st \in Endings : EndpointSettles(s, e, st)

Next ==
    \/ CommandNext \/ SlotNext \/ CoordinatorNext \/ DriverNext \/ EndpointNext
    \/ InterrupterDies

Spec == Init /\ [][Next]_vars

\* The runtime polls its tasks; nothing is assumed of the driver or of a device.
FairSpec == Spec /\ WF_vars(CommandNext) /\ WF_vars(SlotNext) /\ WF_vars(CoordinatorNext)

-----------------------------------------------------------------------------
(* Properties *)

\* The state is well typed, and the endpoints of a slot are those its state calls for,
\* whatever order the commands for it come in and whatever the endpoints were doing.
EndpointsFitSlot ==
    /\ TypeOK
    /\ \A s \in Slots :
          LET slot == slots[s]
          IN  /\ (slot.eps[1] # "none") = (slot.st \in {"default", "addressed", "configured"})
              /\ slot.eps[2] # "none" => slot.st = "configured"

\* No doorbell is on its way to the command worker.
NoDoorbell == \A i \in 1 .. Len(cchan) : cchan[i].op # "doorbell"

\* A command ring that went idle, with no doorbell on its way, has processed every
\* command a doorbell was rung for.  The exception is real: a worker that answers a
\* reset while it looks for commands has not stopped yet, and if it then finds the
\* controller running again it goes on with the ring of before the reset and ignores
\* the driver's new one.
NothingLeftBehind == cw = "idle" /\ ~stale /\ NoDoorbell => rung = 0

\* When HCRST reads 0 again, no slot, no endpoint and no slot configuration is
\* left, the command ring reads as not running, no command is under way, and the
\* command worker has stopped or is about to look at USBCMD.RS, by which it stops
\* unless the driver has been quick enough to start the controller again.
ResetIsComplete ==
    [][hcrst /\ ~hcrst' =>
         /\ num = 0 /\ slots = [s \in Slots |-> NoSlot]
         /\ ~crr /\ cw \in {"stopped", "checking"} /\ schan = <<>>]_vars

\* Once the driver stops ringing, the commands it has rung for on a running command
\* ring are completed, through all that a command, a stop and the slot worker may do
\* on the way, unless the ring is stopped or reset or its worker ends.
CommandsAreCompleted ==
    <>[]NoDoorbell =>
        (crr /\ rung > 0 ~> rung = 0 \/ stale \/ cw \in {"stopped", "dead"})

\* A reset that the coordinator was woken for ends with HCRST read as 0, whatever the
\* command ring was at, unless a worker it has to wait for has died.
ResetEnds ==
    coord = "awake" /\ hcrst ~> ~hcrst \/ sw = "dead" \/ cw = "dead" \/ ~interrupter

\* XhciController::write_io expects that the slot "worker should be alive" whenever
\* a device doorbell is written.
SlotWorkerIsAlive == sw = "alive"

=============================================================================
