------------------------------- MODULE Endpoint -------------------------------
(***************************************************************************)
(* One xHCI endpoint: its worker (endpoint.rs), the transfer ring it reads *)
(* (linked_ring.rs), the handle that hides hot-unplug from it              *)
(* (hotplug_endpoint_handle.rs), the three kinds of handles that turn TRBs *)
(* into USB transfers (endpoint_handle.rs) and the transfers on the real   *)
(* device (nusb.rs); with the guest driver, which fills the ring, rings    *)
(* the doorbell and issues one endpoint command at a time (external).      *)
(*                                                                         *)
(* TRBs are numbered in the order the driver queues them.  A ring is one   *)
(* segment closed by a Link TRB with the toggle-cycle flag.  Data is left  *)
(* out: of a TRB only its type counts, of a transfer only how it ends; a   *)
(* stall and a transaction error, which halt the endpoint alike, are both  *)
(* a "fault".  A "bad" TRB is one the handles reject, a "todo" TRB one they *)
(* meet with todo!() (OUT: immediate data of more than 8 bytes; IN: Event  *)
(* Data).                                                                  *)
(***************************************************************************)
EXTENDS Integers, Sequences, FiniteSets

CONSTANTS
    Kinds,         \* kinds of endpoint looked at: "control", "out", "in"
    RingSize,      \* slots of the transfer ring of each kind, the Link TRB included
    None,          \* Rust's None
    MaxTrbs,       \* bound: TRBs queued, for each kind
    MaxCommands,   \* bound: endpoint commands issued
    MaxQueue       \* bound: messages waiting for the worker

ASSUME KindsAssumption == Kinds \subseteq {"control", "out", "in"} /\ Kinds # {}
ASSUME RingAssumption == RingSize \in [Kinds -> Nat] /\ \A k \in Kinds : RingSize[k] >= 3
ASSUME BoundsAssumption ==
    MaxTrbs \in [Kinds -> Nat] /\ MaxCommands \in Nat /\ MaxQueue \in Nat

TrbTypes == [control |-> {"setup_in", "setup_out", "data", "status", "bad"},
             out     |-> {"normal", "bad", "todo"},
             in      |-> {"chained", "normal", "bad", "todo"}]
EndsTd == {"normal", "status", "bad", "todo"}

VARIABLES
    kind,               \* what the endpoint is
    mem, trbs,          \* ring memory; TRBs queued
    rung, ack,          \* TRBs queued at the last doorbell; TRBs known to be finished
    deq, cs,            \* struct LinkedRing
    worker,             \* WorkerState, or "ended", or "dead" (panic or error)
    ctx,                \* endpoint context: state and dequeue pointer
    chan, cmd, cmds,    \* messages; command awaiting its answer; commands so far
    hot, handle, token, \* HotplugEndpointHandleImpl: TRB submitted, handle, detach token
    parser, sub,        \* ControlRequestParser; submission_state
    dev,                \* the real endpoint: not opened yet, open, or its task is gone
    requests, responses,\* transfers on the device, transfers it has completed
    interrupter,        \* whether the interrupter still takes events
    out                 \* transfer events sent by the last step

ring   == <<deq, cs>>
guest  == <<kind, mem, trbs, rung, interrupter>>
real   == <<dev, requests, responses>>
inner  == <<parser, sub>>
hotplug == <<handle, token>>
vars   == <<guest, ack, ring, worker, ctx, chan, cmd, cmds, hot, hotplug, inner, real, out>>

Slot   == 0 .. RingSize[kind] - 1
Link   == RingSize[kind] - 1     \* the slot of the Link TRB
Usable == RingSize[kind] - 1     \* slots for other TRBs

\* Slot and cycle bit of TRB number k.
Place(k) == (k - 1) % Usable
Cycle(k) == ((k - 1) \div Usable) % 2 = 0

Receiving == {"doorbell", "wait", "halted", "error", "continuable", "stopped"}
Commands  == {"stop", "reset", "setdeq", "terminate"}
ASSUME NoneAssumption ==
    None \notin Nat \cup Commands \cup [st : {"initial", "setup", "data"}, dir : {"in", "out"}]
Message   == [op : {"doorbell", "closed"} \cup Commands, trb : Nat]
Statuses  == {"success", "fault", "disconnect"}
Events    == [trb : Nat, code : {"success", "short", "fault", "trberror"}]

TypeOK ==
    /\ kind \in Kinds
    /\ mem \in [Slot -> [trb : Nat, cycle : BOOLEAN]]
    /\ trbs \in Seq(TrbTypes[kind])
    /\ rung \in 0 .. Len(trbs)
    /\ ack \in 0 .. Len(trbs)
    /\ deq \in Slot /\ cs \in BOOLEAN
    /\ worker \in Receiving \cup {"look", "halting", "failing", "ended", "dead"}
    /\ ctx \in [state : {"running", "stopped", "halted", "error", "disabled"},
                deq : Slot, cs : BOOLEAN]
    /\ chan \in Seq(Message)
    /\ cmd \in Commands \cup {None}
    /\ cmds \in 0 .. MaxCommands
    /\ hot \in Nat \cup {None}
    /\ handle \in BOOLEAN /\ token \in BOOLEAN
    /\ parser \in [st : {"initial", "setup", "data"}, dir : {"in", "out"}]
    /\ sub \in [st : {"idle", "collecting", "consumed", "awaiting", "error"},
                trbs : Seq(Nat), dir : {"in", "out"}]
    /\ dev \in {"closed", "open", "gone"} /\ interrupter \in BOOLEAN
    /\ requests \in Seq({"in", "out"})
    /\ responses \in Seq([dir : {"in", "out"}, status : Statuses])
    /\ out \subseteq Events

\* submission_state as it is created, and after a completion.
Idle(k) == [st |-> IF k = "in" THEN "collecting" ELSE "idle", trbs |-> <<>>, dir |-> "out"]

\* EndpointWorker::launch with a device behind the endpoint.  The task of a control
\* endpoint runs from the start, other endpoints are opened when first used.
Init ==
    /\ kind \in Kinds
    /\ mem = [s \in Slot |-> [trb |-> 0, cycle |-> FALSE]]
    /\ trbs = <<>> /\ rung = 0 /\ ack = 0
    /\ deq = 0 /\ cs = TRUE
    /\ worker = "doorbell"
    /\ ctx = [state |-> "running", deq |-> 0, cs |-> TRUE]
    /\ chan = <<>> /\ cmd = None /\ cmds = 0
    /\ hot = None /\ handle = TRUE /\ token = FALSE
    /\ parser = [st |-> "initial", dir |-> "out"]
    /\ sub = Idle(kind)
    /\ dev = IF kind = "control" THEN "open" ELSE "closed"
    /\ requests = <<>> /\ responses = <<>>
    /\ interrupter = TRUE /\ out = {}

-----------------------------------------------------------------------------
(* The worker looks for a TRB and submits it *)

\* next_trb_raw: the slot holds a TRB the driver has handed over.
Fresh(d, c) == mem[d].cycle = c

\* Mutant: the Link TRB is followed without its toggle flag.
NextTrb_NoToggle == IF deq = Link /\ Fresh(deq, cs) THEN <<0, cs>> ELSE <<deq, cs>>

\* next_trb: where the pointer is once Link TRBs have been followed.
NextTrb == IF deq = Link /\ Fresh(deq, cs) THEN <<0, ~cs>> ELSE <<deq, cs>>

\* Mutant: a request without a data stage is an error.
Parse_WantsData(t) ==
    CASE parser.st = "initial" /\ t \in {"setup_in", "setup_out"} ->
            [st |-> "setup", dir |-> IF t = "setup_in" THEN "in" ELSE "out"]
      [] parser.st = "setup" /\ t = "data"  -> [parser EXCEPT !.st = "data"]
      [] parser.st = "data" /\ t = "status" -> [st |-> "initial", dir |-> "out"]
      [] OTHER                              -> None

\* ControlRequestParser::trb: what the parser becomes, or None for an error.
Parse(t) ==
    CASE parser.st = "initial" /\ t \in {"setup_in", "setup_out"} ->
            [st |-> "setup", dir |-> IF t = "setup_in" THEN "in" ELSE "out"]
      [] parser.st = "setup" /\ t = "data"             -> [parser EXCEPT !.st = "data"]
      [] parser.st \in {"setup", "data"} /\ t = "status" -> [st |-> "initial", dir |-> "out"]
      [] OTHER                                         -> None

\* The request goes to the device.  Opening its endpoint (the expect in endpoint())
\* or handing the request to a task that is gone fails: the worker dies.
Request(dir, next) ==
    \/ /\ dev # "gone" /\ dev' = "open"
       /\ worker' = "wait" /\ sub' = next /\ requests' = Append(requests, dir)
    \/ /\ dev # "open"
       /\ worker' = "dead" /\ UNCHANGED <<sub, dev, requests>>

\* The TRB stays with the handle.
Keep(next) == worker' = "wait" /\ sub' = next /\ UNCHANGED <<dev, requests>>

\* An assertion, an error or a todo!() ends the worker.
Die == worker' = "dead" /\ UNCHANGED <<sub, dev, requests>>

\* ControlEndpointHandle::submit_trb; only a complete request goes to the device.
SubmitControl(k) ==
    LET next == Parse(trbs[k])
    IN  /\ parser' = IF next = None THEN parser ELSE next
        /\ IF next # None /\ next.st = "initial"
           THEN Request(parser.dir, [st |-> "awaiting", trbs |-> <<k>>, dir |-> parser.dir])
           ELSE Keep([st |-> IF next = None THEN "error" ELSE "consumed",
                      trbs |-> <<k>>, dir |-> "out"])

\* OutEndpointHandle::submit_trb.
SubmitOut(k) ==
    /\ IF sub.st # "idle" \/ trbs[k] = "todo" THEN Die
       ELSE IF trbs[k] = "bad" THEN Keep([sub EXCEPT !.st = "error", !.trbs = <<k>>])
       ELSE Request("out", [sub EXCEPT !.st = "awaiting", !.trbs = <<k>>])
    /\ UNCHANGED parser

\* TdBasedInEndpointHandle::submit_trb; a TD is requested with its last TRB.
SubmitIn(k) ==
    /\ IF sub.st # "collecting" THEN Die
       ELSE IF trbs[k] = "bad" THEN Keep([sub EXCEPT !.st = "error"])
       ELSE IF trbs[k] = "chained" THEN Keep([sub EXCEPT !.trbs = Append(@, k)])
       ELSE Request("in", [sub EXCEPT !.trbs = Append(@, k), !.st = "awaiting"])
    /\ UNCHANGED parser

\* State LookForTrb.
LookForTrb ==
    /\ worker = "look"
    /\ deq' = NextTrb[1] /\ cs' = NextTrb[2]
    /\ IF ~Fresh(NextTrb[1], NextTrb[2])
       THEN worker' = "doorbell" /\ UNCHANGED <<hot, inner, dev, requests>>
       ELSE IF hot # None
       THEN Die /\ UNCHANGED <<hot, parser>>
       ELSE LET k == mem[NextTrb[1]].trb
            IN  /\ hot' = k
                /\ \/ ~handle /\ worker' = "wait" /\ UNCHANGED <<inner, dev, requests>>
                   \/ handle /\ kind = "control" /\ SubmitControl(k)
                   \/ handle /\ kind = "out" /\ SubmitOut(k)
                   \/ handle /\ kind = "in" /\ SubmitIn(k)
    /\ out' = {}
    /\ UNCHANGED <<guest, ack, ctx, chan, cmd, cmds, hotplug, responses>>

-----------------------------------------------------------------------------
(* The worker waits for the completion of the TRB *)

Event(k, code) == [trb |-> k, code |-> code]

\* Transfer events go out, to an interrupter that lives; the driver takes note of the
\* last TRB that went well.
Send(events) ==
    /\ events = {} \/ interrupter
    /\ out' = events
    /\ ack' = LET done == {e.trb : e \in {e \in events : e.code \in {"success", "short"}}}
              IN  IF done = {} THEN ack ELSE CHOOSE k \in done : \A j \in done : j <= k

\* HotplugTrbProcessingResult::Ok
Advance ==
    /\ deq' = deq + 1
    /\ worker' = "look"
    /\ UNCHANGED <<cs, ctx>>

\* HotplugTrbProcessingResult::Stall or TransactionError, at a given place.  The event
\* is out; the endpoint context is still to be written (WriteContext).
HaltAt(d, c) ==
    /\ deq' = d /\ cs' = c
    /\ worker' = "halting"
    /\ UNCHANGED ctx

\* HotplugTrbProcessingResult::TrbError, likewise.
TrbError ==
    /\ worker' = "failing"
    /\ UNCHANGED <<ring, ctx>>

\* What all completions leave alone.
Completed == hot' = None /\ UNCHANGED <<guest, chan, cmd, cmds, handle, parser, dev, requests>>

\* next_completion with the device detached, before or while waiting.
CompleteDetached ==
    /\ worker = "wait" /\ (token \/ ~handle)
    /\ Send({Event(hot, "fault")})
    /\ HaltAt(deq, cs)
    /\ Completed
    /\ UNCHANGED <<token, sub, responses>>

\* next_completion of TRBs that never went to the device.
CompleteLocally ==
    /\ worker = "wait" /\ handle
    /\ \/ sub.st = "consumed" /\ sub' = Idle(kind) /\ Send({}) /\ Advance
       \/ sub.st = "collecting" /\ UNCHANGED sub /\ Send({}) /\ Advance
       \/ /\ sub.st = "error" /\ sub' = Idle(kind)
          /\ Send(IF kind = "in" THEN {} ELSE {Event(hot, "trberror")})
          /\ TrbError
    /\ Completed
    /\ UNCHANGED <<token, responses>>

\* What the real endpoint returns; a control task that is gone closes its channel,
\* which counts as a transaction error.
Results ==
    IF responses # <<>> THEN {Head(responses)}
    ELSE IF dev = "gone" THEN {[dir |-> sub.dir, status |-> "fault"]} ELSE {}

\* next_completion of a control or OUT transfer.  The answer of a request in the
\* other direction is unreachable!().
CompleteTransfer ==
    /\ worker = "wait" /\ handle /\ kind \in {"control", "out"}
    /\ sub.st = "awaiting"
    /\ \E r \in Results :
          IF r.status = "success" /\ r.dir # sub.dir
          THEN /\ Die
               /\ out' = {} /\ UNCHANGED <<ack, ring, ctx, hot, guest, chan, cmd, cmds, hotplug,
                                          parser>>
          ELSE /\ \/ /\ r.status = "success"
                     /\ Send({Event(hot, "success")}) /\ Advance
                  \/ /\ r.status # "success"
                     /\ Send({Event(hot, "fault")}) /\ HaltAt(deq, cs)
               /\ token' = (token \/ r.status = "disconnect")
               /\ sub' = Idle(kind)
               /\ Completed
    /\ responses' = IF responses = <<>> THEN <<>> ELSE Tail(responses)

\* Mutant: the pointer goes back to the failed TRB with the cycle state of now.
RewindTo_KeepsCycle(k) == HaltAt(Place(k), cs)

\* Stall(Some(addr, cs)): back to a TRB of the TD, with that TRB's cycle bit.
RewindTo(k) == HaltAt(Place(k), mem[Place(k)].cycle)

\* next_completion of an IN transfer (process_real_transfer_response).  The data
\* fills the TD, or ends in its TRB k; then a good transfer was a short one, and
\* the TRBs that follow k in the TD say so too.  A failure is noticed only if
\* data is missing.  TDs ask for an event on their last TRB and on a short packet.
CompleteIn ==
    /\ worker = "wait" /\ handle /\ kind = "in"
    /\ sub.st = "awaiting" /\ responses # <<>>
    /\ LET status == Head(responses).status
           last   == sub.trbs[Len(sub.trbs)]
       IN  \/ /\ trbs[hot] # "todo"
              /\ Send({Event(last, "success")}) /\ Advance /\ UNCHANGED token
           \/ \E i \in 1 .. Len(sub.trbs) :
                LET k == sub.trbs[i]
                IN  \/ /\ status = "success" /\ trbs[hot] # "todo"
                       /\ Send({Event(k, "short"), Event(last, "short")})
                       /\ Advance /\ UNCHANGED token
                    \/ /\ status = "fault" /\ trbs[k] # "todo"
                       /\ Send({Event(k, "fault")}) /\ RewindTo(k) /\ UNCHANGED token
                    \/ /\ status = "disconnect" /\ trbs[k] # "todo"
                       /\ Send({Event(k, "fault")}) /\ HaltAt(deq, cs) /\ token' = TRUE
    /\ sub' = Idle(kind)
    /\ responses' = Tail(responses)
    /\ Completed

\* process_trb comes to the Event Data TRB that ends a TD (and leaves the events of
\* the TD to it), with no data missing before it or after a short packet.
MeetEventData ==
    /\ worker = "wait" /\ handle /\ kind = "in"
    /\ sub.st = "awaiting" /\ responses # <<>> /\ trbs[hot] = "todo"
    /\ Die /\ out' = {}
    /\ responses' = Tail(responses)
    /\ UNCHANGED <<guest, ack, ring, ctx, chan, cmd, cmds, hot, hotplug, parser>>

\* One of these is about to send an event.
EventIsDue ==
    /\ worker = "wait"
    /\ \/ token \/ ~handle
       \/ sub.st = "error" /\ kind # "in"
       \/ sub.st = "awaiting" /\ Results # {}

\* event_sender.send when the interrupter is gone: the worker ends.
SendFails ==
    /\ EventIsDue /\ ~interrupter
    /\ Die /\ out' = {}
    /\ UNCHANGED <<guest, ack, ring, ctx, chan, cmd, cmds, hot, hotplug, parser, responses>>

\* The endpoint context gets the state and the dequeue pointer.
Enter(w, state) ==
    /\ worker' = w
    /\ ctx' = [state |-> state, deq |-> deq, cs |-> cs]

\* The worker has the result of next_completion, whose event is out already.
WriteContext ==
    /\ \/ worker = "halting" /\ Enter("halted", "halted")
       \/ worker = "failing" /\ Enter("error", "error")
    /\ out' = {}
    /\ UNCHANGED <<guest, ack, ring, chan, cmd, cmds, hot, hotplug, inner, real>>

-----------------------------------------------------------------------------
(* Messages to the worker *)

Receive(op) ==
    /\ worker \in Receiving
    /\ chan # <<>> /\ Head(chan).op = op
    /\ chan' = Tail(chan)
    /\ out' = {}

\* Mutant: a doorbell in the middle of a transfer sends the worker to wait for one.
ReceiveDoorbell_Drops ==
    /\ Receive("doorbell")
    /\ worker' = IF worker = "wait" THEN "doorbell"
                 ELSE IF worker \in {"doorbell", "stopped", "continuable"} THEN "look" ELSE worker
    /\ ctx' = IF worker \in {"stopped", "continuable"}
              THEN [ctx EXCEPT !.state = "running"] ELSE ctx
    /\ UNCHANGED <<guest, ack, ring, cmd, cmds, hot, hotplug, inner, real>>

ReceiveDoorbell ==
    /\ Receive("doorbell")
    /\ worker' = IF worker \in {"doorbell", "stopped", "continuable"} THEN "look" ELSE worker
    /\ ctx' = IF worker \in {"stopped", "continuable"}
              THEN [ctx EXCEPT !.state = "running"] ELSE ctx
    /\ UNCHANGED <<guest, ack, ring, cmd, cmds, hot, hotplug, inner, real>>

\* Mutant: what the endpoint has completed is left to be picked up.
Withdraw_KeepsCompleted ==
    IF handle /\ kind # "control"
    THEN dev' = "open" /\ requests' = <<>> /\ UNCHANGED responses
    ELSE UNCHANGED real

\* cancel of the real endpoint: what it has in flight is withdrawn and what it has
\* completed is thrown away.  A control endpoint can do neither.
Withdraw ==
    IF handle /\ kind # "control"
    THEN dev' = "open" /\ requests' = <<>> /\ responses' = <<>>
    ELSE UNCHANGED real

\* The endpoint is opened for cancel or clear_halt, which fails.
OpenFails == handle /\ dev = "closed" /\ worker' = "dead"

\* Mutant: a stopped endpoint keeps its TRB marked as submitted.
Cancel_KeepsHot ==
    /\ UNCHANGED hot
    /\ sub' = IF handle /\ kind = "in" THEN Idle(kind) ELSE sub
    /\ Withdraw

\* cancel of the handles; an IN endpoint forgets the TD it was collecting.
Cancel ==
    /\ hot' = None
    /\ sub' = IF handle /\ kind = "in" THEN Idle(kind) ELSE sub
    /\ Withdraw

\* Mutant: the endpoint context is not brought up to date.
ReceiveStop_StaleContext ==
    /\ Receive("stop")
    /\ \/ /\ worker = "doorbell" /\ worker' = "stopped" /\ ctx' = [ctx EXCEPT !.state = "stopped"]
          /\ cmd' = None /\ UNCHANGED <<hot, sub, real>>
       \/ worker = "wait" /\ Enter("continuable", "stopped") /\ Cancel /\ cmd' = None
       \/ worker \notin {"doorbell", "wait"} /\ cmd' = None /\ UNCHANGED <<worker, ctx, hot, sub, real>>
    /\ UNCHANGED <<guest, ack, ring, cmds, hotplug, parser>>

\* Mutant: the stop waits for the transfer to end by itself.
ReceiveStop_Waits ==
    /\ Receive("stop") /\ (worker = "wait" => requests = <<>>)
    /\ \/ worker = "doorbell" /\ Enter("stopped", "stopped") /\ cmd' = None /\ UNCHANGED <<hot, sub, real>>
       \/ worker = "wait" /\ Enter("continuable", "stopped") /\ Cancel /\ cmd' = None
       \/ worker \notin {"doorbell", "wait"} /\ cmd' = None /\ UNCHANGED <<worker, ctx, hot, sub, real>>
    /\ UNCHANGED <<guest, ack, ring, cmds, hotplug, parser>>

\* Stop Endpoint.  The context is written before the transfer is cancelled.  (A
\* command that a dying worker leaves pending has its answer dropped.)
ReceiveStop ==
    /\ Receive("stop")
    /\ \/ /\ worker = "doorbell" /\ Enter("stopped", "stopped")
          /\ cmd' = None /\ UNCHANGED <<hot, sub, real>>
       \/ worker = "wait" /\ Enter("continuable", "stopped") /\ cmd' = None /\ Cancel
       \/ /\ worker = "wait" /\ OpenFails
          /\ ctx' = [state |-> "stopped", deq |-> deq, cs |-> cs]
          /\ UNCHANGED <<cmd, hot, sub, real>>
       \/ /\ worker \notin {"doorbell", "wait"}
          /\ cmd' = None /\ UNCHANGED <<worker, ctx, hot, sub, real>>
    /\ UNCHANGED <<guest, ack, ring, cmds, hotplug, parser>>

\* Reset Endpoint; of clear_halt on the device only the opening leaves a trace here.
ReceiveReset ==
    /\ Receive("reset")
    /\ \/ /\ worker = "halted" /\ Enter("stopped", "stopped") /\ cmd' = None
          /\ dev' = IF handle /\ dev = "closed" THEN "open" ELSE dev
       \/ worker = "halted" /\ OpenFails /\ UNCHANGED <<ctx, cmd, dev>>
       \/ worker # "halted" /\ cmd' = None /\ UNCHANGED <<worker, ctx, dev>>
    /\ UNCHANGED <<guest, ack, ring, cmds, hot, hotplug, inner, requests, responses>>

\* Set TR Dequeue Pointer to TRB k; state SettingTrDequeuePointer is passed
\* through at once.
ReceiveSetDeq ==
    /\ Receive("setdeq")
    /\ cmd' = None
    /\ LET k == Head(chan).trb
       IN  \/ /\ worker \in {"error", "continuable", "stopped"}
              /\ deq' = Place(k) /\ cs' = Cycle(k)
              /\ ctx' = [state |-> "stopped", deq |-> Place(k), cs |-> Cycle(k)]
              /\ worker' = "stopped"
              /\ ack' = k - 1
           \/ worker \in {"doorbell", "wait", "halted"} /\ UNCHANGED <<ring, ctx, worker, ack>>
    /\ UNCHANGED <<guest, cmds, hot, hotplug, inner, real>>

\* Mutant: a halted worker drops the request, too.
ReceiveTerminate_NotHalted ==
    /\ worker \in Receiving
    /\ chan # <<>> /\ Head(chan).op = "terminate"
    /\ out' = {}
    /\ cmd' = None
    /\ IF worker \in {"wait", "error", "halted"}
       THEN chan' = <<[op |-> "closed", trb |-> 0]>> /\ UNCHANGED <<worker, ctx>>
       ELSE chan' = <<>> /\ worker' = "ended" /\ ctx' = [ctx EXCEPT !.state = "disabled"]
    /\ UNCHANGED <<guest, ack, ring, cmds, hot, hotplug, inner, real>>

\* Terminate.  A worker that waits for a completion or is in its error state drops
\* the request unanswered; the slot gives the endpoint up and the channel closes.
ReceiveTerminate ==
    /\ worker \in Receiving
    /\ chan # <<>> /\ Head(chan).op = "terminate"
    /\ out' = {}
    /\ cmd' = None
    /\ IF worker \in {"wait", "error"}
       THEN chan' = <<[op |-> "closed", trb |-> 0]>> /\ UNCHANGED <<worker, ctx>>
       ELSE chan' = <<>> /\ worker' = "ended" /\ ctx' = [ctx EXCEPT !.state = "disabled"]
    /\ UNCHANGED <<guest, ack, ring, cmds, hot, hotplug, inner, real>>

\* recv returns None: the worker stops with an error.
ReceiveClosed ==
    /\ Receive("closed")
    /\ worker' = "dead"
    /\ UNCHANGED <<guest, ack, ring, ctx, cmd, cmds, hot, hotplug, inner, real>>

-----------------------------------------------------------------------------
(* The device and its detachment *)

\* A transfer ends on the device.
DeviceCompletes(status) ==
    /\ requests # <<>>
    /\ requests' = Tail(requests)
    /\ responses' = Append(responses, [dir |-> Head(requests), status |-> status])
    /\ out' = {}
    /\ UNCHANGED <<guest, ack, ring, worker, ctx, chan, cmd, cmds, hot, hotplug, inner, dev>>

\* The task of a control endpoint takes a request and panics over its recipient or
\* type; its channels close, what it has answered can still be read.
ControlTaskDies ==
    /\ kind = "control" /\ handle /\ requests # <<>>
    /\ dev' = "gone" /\ requests' = <<>>
    /\ out' = {}
    /\ UNCHANGED <<guest, ack, ring, worker, ctx, chan, cmd, cmds, hot, hotplug, inner, responses>>

\* The interrupter panics, over a full event ring (module Interrupter).  Bound: when
\* the next event is due; the worker cannot tell an earlier death from it.
InterrupterDies ==
    /\ interrupter /\ interrupter' = FALSE
    /\ EventIsDue
    /\ out' = {}
    /\ UNCHANGED <<kind, mem, trbs, rung, ack, ring, worker, ctx, chan, cmd, cmds, hot, hotplug,
                   inner, real>>

\* The port, or another endpoint of the device, cancels the detach token.
Detach ==
    /\ ~token
    /\ token' = TRUE
    /\ out' = {}
    /\ UNCHANGED <<guest, ack, ring, worker, ctx, chan, cmd, cmds, hot, handle, inner, real>>

\* Mutant: the task that lets go of the device waits for a quiet endpoint.
DetachHandler_Lazy ==
    /\ token /\ handle /\ sub = Idle(kind)
    /\ handle' = FALSE
    /\ requests' = <<>> /\ responses' = <<>>
    /\ sub' = Idle(kind) /\ parser' = [st |-> "initial", dir |-> "out"]
    /\ out' = {}
    /\ UNCHANGED <<guest, ack, ring, worker, ctx, chan, cmd, cmds, hot, token, dev>>

\* detach_handler drops the handle and with it everything it was doing.  It needs
\* the lock, which a waiting next_completion holds; that one then ends by itself
\* (CompleteDetached), and takes the lock anew after each doorbell.
DetachHandler ==
    /\ token /\ handle
    /\ handle' = FALSE
    /\ requests' = <<>> /\ responses' = <<>>
    /\ sub' = Idle(kind) /\ parser' = [st |-> "initial", dir |-> "out"]
    /\ out' = {}
    /\ UNCHANGED <<guest, ack, ring, worker, ctx, chan, cmd, cmds, hot, token, dev>>

-----------------------------------------------------------------------------
(* The guest driver *)

\* TDs, each handed over whole (the cycle bit of its first TRB is written last).
Tds == [control |-> {<<"setup_out", "status">>, <<"setup_in", "data", "status">>, <<"bad">>},
        out     |-> {<<"normal">>, <<"bad">>, <<"todo">>},
        in      |-> {<<"normal">>, <<"chained", "normal">>, <<"bad">>, <<"chained", "todo">>}]

\* One slot stays free.  Bound: one TD that is malformed or not supported.
QueueTd(td) ==
    LET new == Len(trbs) + 1 .. Len(trbs) + Len(td)
        odd == {"bad", "todo"}
    IN  /\ td[Len(td)] \in odd => \A k \in 1 .. Len(trbs) : trbs[k] \notin odd
        /\ Len(trbs) + Len(td) <= MaxTrbs[kind]
        /\ Len(trbs) + Len(td) - ack < Usable
        /\ trbs' = trbs \o td
        /\ mem' = [s \in Slot |->
               IF \E k \in new : Place(k) = s
               THEN LET k == CHOOSE k \in new : Place(k) = s IN [trb |-> k, cycle |-> Cycle(k)]
               ELSE IF s = Link /\ \E k \in new : Place(k) = Link - 1
               THEN [trb |-> 0, cycle |-> Cycle(CHOOSE k \in new : Place(k) = Link - 1)]
               ELSE mem[s]]
        /\ out' = {}
        /\ UNCHANGED <<kind, rung, interrupter, ack, ring, worker, ctx, chan, cmd, cmds, hot, hotplug, inner,
                       real>>

Open ==
    /\ worker \notin {"ended", "dead"}
    /\ Len(chan) < MaxQueue
    /\ \A i \in 1 .. Len(chan) : chan[i].op \notin {"closed", "terminate"}

NoDoorbell == \A i \in 1 .. Len(chan) : chan[i].op # "doorbell"

\* The doorbell does not ring while the dequeue pointer is being moved.  Bounds: it
\* rings for new TRBs or for an endpoint that does not run, and one doorbell waits in
\* the channel.
RingDoorbell ==
    /\ Open /\ NoDoorbell /\ cmd # "setdeq"
    /\ rung < Len(trbs) \/ ctx.state # "running"
    /\ chan' = Append(chan, [op |-> "doorbell", trb |-> 0])
    /\ rung' = Len(trbs)
    /\ out' = {}
    /\ UNCHANGED <<kind, mem, trbs, interrupter, ack, ring, worker, ctx, cmd, cmds, hot, hotplug, inner, real>>

\* Where a TD starts, or will start.
Boundary(k) == IF k = 1 THEN TRUE ELSE trbs[k - 1] \in EndsTd

\* The command ring carries one command at a time.
Issue(op, k) ==
    /\ Open /\ cmd = None /\ cmds < MaxCommands
    /\ op = "setdeq" => /\ ctx.state \in {"stopped", "halted", "error"}
                        /\ NoDoorbell /\ Boundary(k)
    /\ op # "setdeq" => k = Len(trbs) + 1
    /\ chan' = Append(chan, [op |-> op, trb |-> IF op = "setdeq" THEN k ELSE 0])
    /\ cmd' = op /\ cmds' = cmds + 1
    /\ out' = {}
    /\ UNCHANGED <<guest, ack, ring, worker, ctx, hot, hotplug, inner, real>>

-----------------------------------------------------------------------------
Worker ==
    \/ LookForTrb \/ WriteContext
    \/ ReceiveDoorbell \/ ReceiveStop \/ ReceiveReset \/ ReceiveSetDeq
    \/ ReceiveTerminate \/ ReceiveClosed

Next ==
    \/ Worker
    \/ CompleteDetached \/ CompleteLocally \/ CompleteTransfer \/ CompleteIn
    \/ MeetEventData \/ SendFails
    \/ \E status \in Statuses : DeviceCompletes(status)
    \/ ControlTaskDies \/ InterrupterDies
    \/ Detach \/ DetachHandler
    \/ \E td \in Tds[kind] : QueueTd(td)
    \/ RingDoorbell
    \/ \E op \in Commands, k \in ack + 1 .. Len(trbs) + 1 : Issue(op, k)

Spec == Init /\ [][Next]_vars

\* The runtime keeps polling the worker and the detach task; nothing is assumed of
\* the device or of the driver.
Fairness ==
    /\ WF_vars(Worker)
    /\ WF_vars(CompleteLocally)
    /\ WF_vars(CompleteDetached)
    /\ WF_vars(SendFails)
    /\ WF_vars(DetachHandler)

FairSpec == Spec /\ Fairness

-----------------------------------------------------------------------------
(* Properties *)

\* The dequeue pointer and cycle state denote TRB k.
At(k) ==
    \/ deq = Place(k) /\ cs = Cycle(k)
    \/ deq = Link /\ Place(k) = 0 /\ cs # Cycle(k)

\* Through links, stops, rewinds to a failed TRB and moves by the driver, the
\* dequeue pointer with its cycle state denotes a TRB the driver still waits
\* for, or the place of the next one: nothing reported finished is read again
\* and no slot with a stale cycle bit is taken for a TRB.  (Not so an IN endpoint
\* whose device is going: until the handle is dropped, the TRBs it has collected
\* stay in front of those of the next TD.)
PointerIsOutstanding ==
    (kind = "in" /\ token) \/ \E k \in ack + 1 .. Len(trbs) + 1 : At(k)

\* An endpoint that went back to waiting for a doorbell, with none on its way,
\* has left no TRB behind that a doorbell was rung for (with the same exception).
NothingLeftBehind ==
    (kind = "in" /\ token) \/
        (worker = "doorbell" /\ NoDoorbell => \A k \in ack + 1 .. rung : ~At(k))

\* The state is well typed, and the context the driver reads agrees with the worker
\* whenever it takes a message: its state, and, if the endpoint does not run, the
\* place where it would go on.  The lag between the event of a failed transfer and the
\* context (in which it still reads as running) is over before a command that the
\* driver sends upon the event is looked at.
ContextTellsTheTruth ==
    /\ TypeOK
    /\ worker \in {"doorbell", "look", "wait", "halting", "failing"} => ctx.state = "running"
    /\ worker \in {"stopped", "continuable"} => ctx.state = "stopped"
    /\ worker \in {"halted", "error"} => ctx.state = worker
    /\ worker \in {"stopped", "continuable", "halted", "error"} => ctx.deq = deq /\ ctx.cs = cs

\* An endpoint goes to halt together with exactly one event that names the TRB it will
\* halt at; if an IN transfer ends because the device is gone, a TRB of the same TD.
HaltIsReported ==
    [][worker # "halting" /\ worker' = "halting" =>
         \E e \in out' :
            /\ out' = {e} /\ e.code = "fault"
            /\ \/ Place(e.trb) = deq' /\ Cycle(e.trb) = cs'
               \/ kind = "in" /\ token' /\ e.trb \in {sub.trbs[i] : i \in 1 .. Len(sub.trbs)}]_vars

\* A stop, reset or set-dequeue-pointer does not stay pending, whatever the device does,
\* unless the worker dies, which drops its answer.  (A Terminate may be dropped by a
\* worker that lives; ImplementsContract says when.)
CommandsAreAnswered ==
    cmd \in {"stop", "reset", "setdeq"} ~> (cmd = None \/ worker = "dead")

\* A detached device is let go of, and a TRB that waits for it is given up.
DetachReleases == token ~> (~handle /\ worker # "wait")

\* The causes a worker of a device that stays may die of: a closed channel; no
\* interrupter to take its event; an endpoint that cannot be opened at its first use; a
\* control task that has panicked; a TRB met with todo!(); an OUT TRB that was stopped
\* and is submitted again; a control request whose answer is preceded by that of a
\* stopped one.
Cause ==
    \/ chan # <<>> /\ Head(chan).op = "closed"
    \/ worker = "wait" /\ ~interrupter
    \/ kind # "control" /\ dev = "closed"
    \/ kind = "control" /\ dev = "gone"
    \/ kind = "out" /\ worker = "look" /\ trbs[mem[NextTrb[1]].trb] = "todo"
    \/ kind = "in" /\ worker = "wait" /\ trbs[hot] = "todo"
    \/ kind = "out" /\ cmds > 0 /\ sub.st # "idle" /\ requests = <<>> /\ responses = <<>>
    \/ kind = "control" /\ Len(requests) + Len(responses) > 1

\* The worker dies of nothing else.  Otherwise submission and completion keep
\* alternating, whatever stops, resets and moves come between them.  (A device that is
\* going may leave its answer behind as well.)
DeathsHaveACause == [][worker # "dead" /\ worker' = "dead" /\ ~token => Cause]_vars

\* The answer a worker takes from the device is that of the transfer it waits for:
\* exactly one is out.  On a control endpoint, which cannot withdraw a transfer, there
\* may be one more for each command that came in between, and none after its task died.
AnswersAreOwn ==
    handle /\ worker = "wait" /\ sub.st = "awaiting" =>
        LET open == Len(requests) + Len(responses)
        IN  \/ open = 1
            \/ kind = "control" /\ open \in 2 .. 1 + cmds
            \/ kind = "control" /\ dev = "gone" /\ requests = <<>>

\* A TRB error goes to a TRB that is malformed.  A control endpoint also gives one to a
\* good TRB, but only after a command has come between the TRBs of a TD: the parser
\* keeps its place when a TD is abandoned, and has left it when the TD is resumed.
TrbErrorHasACause ==
    [][worker # "failing" /\ worker' = "failing" =>
         trbs[hot] = "bad" \/ (kind = "control" /\ cmds > 0)]_vars

\* To the slot the endpoint is what module EndpointContract says, and what module
\* Controller makes of it: it dies over nothing but work or a command, and a Terminate
\* is answered exactly when it is not at work.
AtWork == worker \in {"look", "wait", "halting", "failing", "error"} \/ ~NoDoorbell

Closed == \E i \in 1 .. Len(chan) : chan[i].op = "closed"

ContractSt ==
    IF worker \in {"ended", "dead"} THEN worker
    ELSE IF Closed THEN "left" ELSE IF AtWork THEN "busy" ELSE "quiet"

ContractAsk == IF cmd \in {None, "terminate"} THEN cmd ELSE "command"

Contract == INSTANCE EndpointContract WITH st <- ContractSt, ask <- ContractAsk

ImplementsContract == Contract!CSpec

\* OutEndpointHandle::submit_trb asserts that it is never "called twice without
\* calling next_completion".
SubmissionsAreCompleted ==
    kind = "out" /\ handle /\ ~token /\ worker = "look" /\ Fresh(NextTrb[1], NextTrb[2])
        => sub.st = "idle"

=============================================================================
