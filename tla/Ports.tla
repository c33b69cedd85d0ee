-------------------------------- MODULE Ports --------------------------------
(***************************************************************************)
(* Hot-plug: the port worker with its detach listeners (port.rs), the      *)
(* PORTSC registers (registers.rs), the requests of the hotplug server     *)
(* (hotplug_server.rs) and the launcher that opens endpoints on attached   *)
(* devices (endpoint_launcher.rs, hotplug_endpoint_handle.rs); with a      *)
(* guest driver that follows port status change events (external).         *)
(*                                                                         *)
(* An instance is one attachment of a device: it is numbered when the      *)
(* device is handed in, and its number stands for its detach token.        *)
(***************************************************************************)
EXTENDS Integers, Sequences, FiniteSets

CONSTANTS
    Ports,         \* port numbers
    Usb3Ports,     \* the ones for USB 3 devices
    Devices,       \* devices to attach: identifier (bus and device number) and speed
    Eps,           \* endpoints that may be opened
    None,
    MaxInstances,  \* bound: devices handed in
    MaxRequests    \* bound: endpoints opened

ASSUME PortsAssumption == Ports \subseteq Nat /\ IsFiniteSet(Ports) /\ Usb3Ports \subseteq Ports
ASSUME BoundsAssumption == MaxInstances \in Nat /\ MaxRequests \in Nat
ASSUME DevicesAssumption == \A d \in Devices : d.speed \in {"usb2", "usb3", "unknown"}
ASSUME NoneAssumption == None \notin Nat

Instances == 1 .. MaxInstances
Ids == {d.id : d \in Devices}

VARIABLES
    made,       \* the instances so far: identifier and speed
    devices,    \* PortWorker::devices: the instance at each port
    portsc,     \* the bits set in each PORTSC
    msgs,       \* messages for the port worker
    wk,         \* where the port worker is
    cancelled,  \* instances whose detach token is cancelled
    listeners,  \* instances whose detach listener waits for the token
    server,     \* HotplugControl: whether a request waits for its answer
    endpoints, requests, \* endpoints and the instance they were opened on
    launcher,   \* whether the endpoint launcher is alive
    interrupter,         \* whether there is someone to send events to
    events,     \* ports with a port status change event not yet taken
    view, drv   \* driver: ports it takes for connected, and the register it handles

register == <<devices, portsc>>
control  == <<made, server>>
handles  == <<endpoints, requests, launcher>>
guest    == <<view, drv>>
vars     == <<register, control, msgs, wk, cancelled, listeners, handles, interrupter,
              events, guest>>

Message == [op : {"attach"}, id : Ids, inst : Instances]
           \cup [op : {"detach"}, id : Ids, inst : Instances \cup {None}]
           \cup [op : {"get"}, port : Ports]
Change == {"CSC", "PEC", "PRC"}                     \* BITMASK_RW1C
Bits == {"CCS", "PED", "PP", "RXDETECT", "POLLING"} \cup Change
Handled == [port : Ports, seen : SUBSET Bits, at : {"write", "look", "gone"}]
ASSUME HandledAssumption == None \notin Handled

TypeOK ==
    /\ made \in Seq(Devices) /\ Len(made) <= MaxInstances
    /\ devices \in [Ports -> Instances \cup {None}]
    /\ portsc \in [Ports -> SUBSET Bits]
    /\ msgs \in Seq(Message)
    /\ wk \in [pc : {"recv", "attach", "event", "dead"}, port : Ports \cup {None},
               inst : Instances \cup {None}, answers : BOOLEAN]
    /\ cancelled \subseteq Instances /\ listeners \subseteq Instances
    /\ server \in {"idle", "waiting", "ended"}
    /\ endpoints \in [Eps -> [st : {"none", "asking", "got", "open", "dropped"},
                              inst : Instances \cup {None}]]
    /\ requests \in 0 .. MaxRequests /\ launcher \in BOOLEAN /\ interrupter \in BOOLEAN
    /\ events \subseteq Ports /\ view \in [Ports -> BOOLEAN]
    /\ drv \in Handled \cup {None}

Receiving == [pc |-> "recv", port |-> None, inst |-> None, answers |-> FALSE]
Dead == [Receiving EXCEPT !.pc = "dead"]
Closed == [st |-> "none", inst |-> None]

Init ==
    /\ made = <<>> /\ server = "idle"
    /\ devices = [p \in Ports |-> None]
    /\ portsc = [p \in Ports |-> {"PP", "RXDETECT"}]
    /\ msgs = <<>> /\ wk = Receiving
    /\ cancelled = {} /\ listeners = {}
    /\ endpoints = [e \in Eps |-> Closed] /\ requests = 0
    /\ launcher = TRUE /\ interrupter = TRUE
    /\ events = {} /\ view = [p \in Ports |-> FALSE] /\ drv = None

-----------------------------------------------------------------------------
(* Requests: the server handles one connection at a time *)

\* A request is sent to the port worker; the server's thread panics when there is none.
Ask(m) ==
    /\ server = "idle"
    /\ IF wk.pc = "dead" THEN server' = "ended" /\ UNCHANGED msgs
       ELSE server' = "waiting" /\ msgs' = Append(msgs, m)

HandleAttach(d) ==
    /\ Len(made) < MaxInstances
    /\ made' = Append(made, d)
    /\ Ask([op |-> "attach", id |-> d.id, inst |-> Len(made) + 1])
    /\ UNCHANGED <<register, wk, cancelled, listeners, handles, interrupter, events, guest>>

HandleDetach(id) ==
    /\ \E i \in 1 .. Len(made) : made[i].id = id
    /\ Ask([op |-> "detach", id |-> id, inst |-> None])
    /\ UNCHANGED <<register, made, wk, cancelled, listeners, handles, interrupter, events, guest>>

\* EndpointLauncher::run_loop asks for the device, one launch request at a time; the
\* driver has seen one at the port.  Without a port worker the launcher ends.
RequestLaunch(e, p) ==
    /\ launcher /\ requests < MaxRequests /\ view[p]
    /\ endpoints[e] = Closed /\ \A f \in Eps : endpoints[f].st \notin {"asking", "got"}
    /\ requests' = requests + 1
    /\ IF wk.pc = "dead" THEN launcher' = FALSE /\ UNCHANGED <<msgs, endpoints>>
       ELSE /\ msgs' = Append(msgs, [op |-> "get", port |-> p])
            /\ endpoints' = [endpoints EXCEPT ![e].st = "asking"]
            /\ UNCHANGED launcher
    /\ UNCHANGED <<register, control, wk, cancelled, listeners, interrupter, events, guest>>

-----------------------------------------------------------------------------
(* PortWorker *)

Take(op) ==
    /\ wk.pc = "recv" /\ msgs # <<>> /\ Head(msgs).op = op
    /\ msgs' = Tail(msgs)

\* The answer goes to the server, or to a listener that does nothing with it.
Reply(answers) == server' = IF answers THEN "idle" ELSE server

\* Mutant: the instance is not compared.
Matches_AnyInstance(p, id, inst) == devices[p] # None /\ made[devices[p]].id = id

\* Whether the device at a port is the one to detach.
Matches(p, id, inst) ==
    devices[p] # None /\ made[devices[p]].id = id /\ inst \in {None, devices[p]}

\* Mutant: the change bit is not set.
DetachAt_NoChange(p) ==
    /\ devices' = [devices EXCEPT ![p] = None]
    /\ cancelled' = cancelled \cup {devices[p]}
    /\ portsc' = [portsc EXCEPT ![p] = {"PP"}]

\* Mutant: the register keeps the bits of the device that was there.
DetachAt_KeepsPortsc(p) ==
    /\ devices' = [devices EXCEPT ![p] = None]
    /\ cancelled' = cancelled \cup {devices[p]}
    /\ portsc' = [portsc EXCEPT ![p] = @ \cup {"CSC"}]

\* What detach does to the port it found.
DetachAt(p) ==
    /\ devices' = [devices EXCEPT ![p] = None]
    /\ cancelled' = cancelled \cup {devices[p]}
    /\ portsc' = [portsc EXCEPT ![p] = {"PP", "CSC"}]

\* PortMessage::Detach
PortDetach ==
    /\ Take("detach")
    /\ LET id == Head(msgs).id
           inst == Head(msgs).inst
           found == {p \in Ports : Matches(p, id, inst)}
       IN  IF found = {}
           THEN Reply(inst = None) /\ UNCHANGED <<register, cancelled, wk>>
           ELSE \E p \in found :
                    /\ \A q \in found : p <= q
                    /\ DetachAt(p)
                    /\ wk' = [pc |-> "event", port |-> p, inst |-> None, answers |-> inst = None]
                    /\ UNCHANGED server
    /\ UNCHANGED <<made, listeners, handles, interrupter, events, guest>>

\* PortMessage::Attach; a device with the same identifier is detached first.
PortAttach ==
    /\ Take("attach")
    /\ LET id == Head(msgs).id
           inst == Head(msgs).inst
           found == {p \in Ports : Matches(p, id, None)}
       IN  IF found = {}
           THEN /\ wk' = [pc |-> "attach", port |-> None, inst |-> inst, answers |-> TRUE]
                /\ UNCHANGED <<register, cancelled>>
           ELSE \E p \in found :
                    /\ DetachAt(p)
                    /\ wk' = [pc |-> "event", port |-> p, inst |-> inst, answers |-> TRUE]
    /\ UNCHANGED <<control, listeners, handles, interrupter, events, guest>>

Free(speed) ==
    {p \in Ports : devices[p] = None /\ (p \in Usb3Ports) = (speed = "usb3")}

\* Mutant: the answer for a device of unknown speed is dropped, and the server panics.
NotAttached_Drops(speed) == IF speed = "unknown" THEN server' = "ended" ELSE Reply(TRUE)

\* CouldNotDetermineSpeed, NoFreePort
NotAttached(speed) == Reply(TRUE)

\* Mutant: the listener is forgotten.
Listen_Never(inst) == UNCHANGED listeners

\* A detach listener is spawned.
Listen(inst) == listeners' = listeners \cup {inst}

\* The rest of attach.
PortAttachDevice ==
    /\ wk.pc = "attach"
    /\ LET speed == made[wk.inst].speed
           free == Free(speed)
       IN  IF speed = "unknown" \/ free = {}
           THEN /\ NotAttached(speed) /\ wk' = Receiving
                /\ UNCHANGED <<register, listeners>>
           ELSE \E p \in free :
                    /\ \A q \in free : p <= q
                    /\ devices' = [devices EXCEPT ![p] = wk.inst]
                    /\ Listen(wk.inst)
                    /\ portsc' = [portsc EXCEPT ![p] =
                           IF speed = "usb3" THEN {"CCS", "PED", "PP", "CSC", "PEC", "PRC"}
                           ELSE {"CCS", "POLLING", "PP", "CSC"}]
                    /\ wk' = [pc |-> "event", port |-> p, inst |-> None, answers |-> TRUE]
                    /\ UNCHANGED server
    /\ UNCHANGED <<made, msgs, cancelled, handles, interrupter, events, guest>>

\* The worker ends.  Answers it owes are dropped: the server panics, the launcher ends.
PortDies ==
    /\ wk' = Dead /\ msgs' = <<>>
    /\ server' = IF server = "waiting" THEN "ended" ELSE server
    /\ launcher' = (launcher /\ \A e \in Eps : endpoints[e].st # "asking")
    /\ endpoints' = [e \in Eps |-> IF endpoints[e].st = "asking" THEN Closed ELSE endpoints[e]]

\* The port status change event, which without an interrupter is an error; an attach
\* that detached first goes on.
PortAnnounce ==
    /\ wk.pc = "event"
    /\ IF ~interrupter THEN PortDies /\ UNCHANGED events
       ELSE /\ events' = events \cup {wk.port}
            /\ IF wk.inst = None
               THEN wk' = Receiving /\ Reply(wk.answers)
               ELSE wk' = [wk EXCEPT !.pc = "attach", !.port = None] /\ UNCHANGED server
            /\ UNCHANGED <<msgs, endpoints, launcher>>
    /\ UNCHANGED <<register, made, cancelled, listeners, requests, interrupter, guest>>

\* PortMessage::GetDevice
PortGetDevice ==
    /\ Take("get")
    /\ endpoints' = [e \in Eps |->
           IF endpoints[e].st = "asking"
           THEN [st |-> "got", inst |-> devices[Head(msgs).port]] ELSE endpoints[e]]
    /\ UNCHANGED <<register, control, wk, cancelled, listeners, requests, launcher, interrupter,
                   events, guest>>

\* detach_listener
ListenerFires(i) ==
    /\ i \in listeners \cap cancelled
    /\ listeners' = listeners \ {i}
    /\ msgs' = IF wk.pc = "dead" THEN msgs
               ELSE Append(msgs, [op |-> "detach", id |-> made[i].id, inst |-> i])
    /\ UNCHANGED <<register, control, wk, cancelled, handles, interrupter, events, guest>>

-----------------------------------------------------------------------------
(* Endpoints *)

\* The launcher opens the endpoint, or a dummy, which is as good as dropped; it panics
\* over an endpoint type it does not support.
LauncherOpens(e) ==
    /\ endpoints[e].st = "got"
    /\ \/ /\ endpoints' = [endpoints EXCEPT ![e].st =
                 IF endpoints[e].inst = None THEN "dropped" ELSE "open"]
          /\ UNCHANGED launcher
       \/ /\ endpoints[e].inst # None
          /\ endpoints' = [endpoints EXCEPT ![e] = Closed] /\ launcher' = FALSE
    /\ UNCHANGED <<register, control, msgs, wk, cancelled, listeners, requests, interrupter,
                   events, guest>>

\* HotplugEndpointHandleImpl::detach_handler drops the device when its token is
\* cancelled, now or earlier.
DetachHandler(e) ==
    /\ endpoints[e].st = "open" /\ endpoints[e].inst \in cancelled
    /\ endpoints' = [endpoints EXCEPT ![e].st = "dropped"]
    /\ UNCHANGED <<register, control, msgs, wk, cancelled, listeners, requests, launcher,
                   interrupter, events, guest>>

\* An endpoint is terminated; its handle goes with it.
EndpointCloses(e) ==
    /\ endpoints[e].st \in {"open", "dropped"}
    /\ endpoints' = [endpoints EXCEPT ![e] = Closed]
    /\ UNCHANGED <<register, control, msgs, wk, cancelled, listeners, requests, launcher,
                   interrupter, events, guest>>

\* A transfer finds its device unplugged (TrbProcessingResult::Disconnect).
EndpointNotices(e) ==
    /\ endpoints[e].st = "open"
    /\ cancelled' = cancelled \cup {endpoints[e].inst}
    /\ UNCHANGED <<register, control, msgs, wk, listeners, handles, interrupter, events, guest>>

-----------------------------------------------------------------------------
(* The guest driver *)

\* PortscRegister::port_reset
PortReset(p, bits) ==
    IF p \in Usb3Ports THEN bits \cup {"PRC"}
    ELSE (bits \ {"RXDETECT", "POLLING"}) \cup {"PED", "PRC"}

\* It takes an event and reads the register.
DriverReads(p) ==
    /\ p \in events /\ drv = None
    /\ events' = events \ {p}
    /\ drv' = [port |-> p, seen |-> portsc[p], at |-> "write"]
    /\ UNCHANGED <<register, control, msgs, wk, cancelled, listeners, handles, interrupter, view>>

\* A port that is connected but not enabled is to be reset.
ToReset == "CCS" \in drv.seen /\ "PED" \notin drv.seen

\* PortscRegister::write with the change bits it saw, and with PR.  The port's event
\* is an error without an interrupter, and the thread that serves the driver panics.
DriverWrites ==
    /\ drv # None /\ drv.at = "write"
    /\ LET p == drv.port
           kept == portsc[p] \ (drv.seen \cap Change)
       IN  /\ portsc' = [portsc EXCEPT ![p] = IF ToReset THEN PortReset(p, kept) ELSE kept]
           /\ events' = IF ToReset /\ interrupter THEN events \cup {p} ELSE events
    /\ drv' = IF ToReset /\ ~interrupter THEN [drv EXCEPT !.at = "gone"]
              ELSE IF "CSC" \in drv.seen THEN [drv EXCEPT !.at = "look"] ELSE None
    /\ UNCHANGED <<devices, control, msgs, wk, cancelled, listeners, handles, interrupter, view>>

\* After a connect status change it reads CCS again.
DriverLooks ==
    /\ drv # None /\ drv.at = "look" /\ drv' = None
    /\ view' = [view EXCEPT ![drv.port] = "CCS" \in portsc[drv.port]]
    /\ UNCHANGED <<register, control, msgs, wk, cancelled, listeners, handles, interrupter, events>>

\* The interrupter's task ends (module Interrupter).  Bound: when an event is due.
InterrupterDies ==
    /\ interrupter /\ interrupter' = FALSE
    /\ wk.pc = "event" \/ (drv # None /\ drv.at = "write" /\ ToReset)
    /\ UNCHANGED <<register, control, msgs, wk, cancelled, listeners, handles, events, guest>>

-----------------------------------------------------------------------------
PortWorker ==
    PortDetach \/ PortAttach \/ PortAttachDevice \/ PortAnnounce \/ PortGetDevice

Next ==
    \/ PortWorker
    \/ \E d \in Devices : HandleAttach(d)
    \/ \E id \in Ids : HandleDetach(id)
    \/ \E e \in Eps, p \in Ports : RequestLaunch(e, p)
    \/ \E i \in Instances : ListenerFires(i)
    \/ \E e \in Eps : LauncherOpens(e) \/ DetachHandler(e) \/ EndpointCloses(e) \/ EndpointNotices(e)
    \/ \E p \in Ports : DriverReads(p)
    \/ DriverWrites \/ DriverLooks
    \/ InterrupterDies

Spec == Init /\ [][Next]_vars

\* Every task is polled.  Nothing is assumed of the driver, of the clients of the
\* hotplug socket, or of a transfer that would notice an unplugged device.
Fairness ==
    /\ WF_vars(PortWorker)
    /\ \A i \in Instances : WF_vars(ListenerFires(i))
    /\ \A e \in Eps : WF_vars(DetachHandler(e)) /\ WF_vars(LauncherOpens(e))

FairSpec == Spec /\ Fairness

-----------------------------------------------------------------------------
(* Properties *)

\* The state is well typed; CCS is set exactly at the ports with a device, whatever the
\* driver writes; each device is at a port of its USB version; and no identifier is
\* attached twice.
PortsAgree ==
    /\ TypeOK
    /\ \A p \in Ports : ("CCS" \in portsc[p]) = (devices[p] # None)
    /\ \A p \in Ports : devices[p] # None =>
           /\ (p \in Usb3Ports) = (made[devices[p]].speed = "usb3")
           /\ \A q \in Ports \ {p} : devices[q] # None => made[devices[q]].id # made[devices[p]].id

\* The driver is going to look at a port again, or its thread has panicked over it.
LooksAgain(p) == drv # None /\ drv.port = p /\ (drv.at = "write" => "CSC" \in drv.seen)

\* What the driver takes a port for is what its register says, unless an event for the
\* port is pending or about to be sent, the driver is going to look again, or the
\* worker ended over an event: no race of the worker's changes with the driver's
\* write-back of change bits it saw earlier leaves it with a device that is gone, or
\* without one that is there.  (A device that another one replaces between a read and
\* its write-back is taken for the old one: CCS reads 1 again and CSC is cleared.)
ConnectionIsAnnounced ==
    \A p \in Ports :
        p \notin events /\ ~(wk.pc = "event" /\ wk.port = p) /\ wk.pc # "dead" /\ ~LooksAgain(p)
            => view[p] = ("CCS" \in portsc[p])

\* A device leaves its port only on a request for its identifier, or because its own
\* token was cancelled: the listener of an instance that has been replaced does not
\* detach its successor.
OnlyOwnInstance ==
    [][\A p \in Ports :
         devices[p] # None /\ devices'[p] # devices[p] =>
            \/ devices[p] \in cancelled
            \/ msgs # <<>> /\ Head(msgs).op \in {"attach", "detach"}
                 /\ Head(msgs).id = made[devices[p]].id
                 /\ (Head(msgs).op = "detach" => Head(msgs).inst = None)]_vars

\* A device whose token an endpoint has cancelled leaves its port, unless the port
\* worker has ended.
CancelledIsDetached ==
    \A i \in Instances : i \in cancelled ~> wk.pc = "dead" \/ \A p \in Ports : devices[p] # i

\* Every attach and detach request is answered, and none makes the server's thread
\* panic, unless the port worker ends for want of an interrupter.
RequestsAreAnswered == server = "waiting" ~> server = "idle" \/ (wk.pc = "dead" /\ ~interrupter)

=============================================================================
