----------------------------- MODULE PortsProofs -----------------------------
(***************************************************************************)
(* Proofs about Ports for every set of ports and devices and every number  *)
(* of attachments: ports, registers and devices agree, the driver is told  *)
(* of every change, and a device leaves its port only for a reason of its  *)
(* own.                                                                    *)
(***************************************************************************)
EXTENDS Ports, SequenceTheorems, TLAPS

\* Whatever is referred to has been handed in.
InstancesAreMade ==
    /\ \A p \in Ports : devices[p] # None => devices[p] <= Len(made)
    /\ listeners \subseteq 1 .. Len(made)
    /\ wk.inst # None => wk.inst <= Len(made)

\* An attach message names the identifier of its instance, a listener's detach message
\* an instance whose token is cancelled.
MessagesAreTrue ==
    \A i \in 1 .. Len(msgs) :
        /\ msgs[i].op = "attach" =>
              msgs[i].inst <= Len(made) /\ made[msgs[i].inst].id = msgs[i].id
        /\ msgs[i].op = "detach" /\ msgs[i].inst # None => msgs[i].inst \in cancelled

\* The instance that is being attached has its identifier to itself.
AttachIsClear ==
    /\ wk.pc = "event" => wk.port \in Ports
    /\ wk.pc = "attach" => wk.inst # None
    /\ wk.inst # None =>
          \A p \in Ports : devices[p] # None => made[devices[p]].id # made[wk.inst].id

\* An open endpoint has been opened on a device.
OpenOnDevice == \A e \in Eps : endpoints[e].st = "open" => endpoints[e].inst # None

\* A change that the driver has not looked at yet shows in the register.
ChangesAreSeen ==
    \A p \in Ports :
        view[p] = ("CCS" \in portsc[p]) \/ "CSC" \in portsc[p] \/ LooksAgain(p)

\* The inductive invariant.
PortsInv ==
    /\ PortsAgree
    /\ ConnectionIsAnnounced
    /\ ChangesAreSeen
    /\ InstancesAreMade
    /\ MessagesAreTrue
    /\ AttachIsClear
    /\ OpenOnDevice

-----------------------------------------------------------------------------
(* Lemmas *)

\* What the worker takes is a message, and what is left is what came after it.
LEMMA Taking ==
    ASSUME msgs \in Seq(Message), msgs # <<>>
    PROVE  /\ Head(msgs) = msgs[1] /\ Head(msgs) \in Message /\ 1 \in 1 .. Len(msgs)
           /\ Tail(msgs) \in Seq(Message)
           /\ \A i \in 1 .. Len(Tail(msgs)) :
                 i + 1 \in 1 .. Len(msgs) /\ Tail(msgs)[i] = msgs[i + 1]
BY HeadTailProperties, EmptySeq

\* Messages that stay in the channel stay true while instances and cancelled tokens
\* only grow in number.
LEMMA MessagesStayTrue ==
    ASSUME PortsInv, msgs # <<>>, msgs' = Tail(msgs), made' = made, cancelled \subseteq cancelled'
    PROVE  msgs' \in Seq(Message) /\ MessagesAreTrue'
<1>1. msgs \in Seq(Message)
  BY DEF PortsInv, PortsAgree, TypeOK
<1>2. /\ Tail(msgs) \in Seq(Message)
      /\ \A i \in 1 .. Len(Tail(msgs)) :
            i + 1 \in 1 .. Len(msgs) /\ Tail(msgs)[i] = msgs[i + 1]
  BY <1>1, Taking
<1>3. \A i \in 1 .. Len(Tail(msgs)) :
         /\ msgs[i + 1].op = "attach" =>
               msgs[i + 1].inst <= Len(made) /\ made[msgs[i + 1].inst].id = msgs[i + 1].id
         /\ msgs[i + 1].op = "detach" /\ msgs[i + 1].inst # None => msgs[i + 1].inst \in cancelled
  BY <1>2 DEF PortsInv, MessagesAreTrue
<1> QED
  BY <1>2, <1>3 DEF MessagesAreTrue

\* A message that is sent and is true leaves the others true.
LEMMA SendingTrue ==
    ASSUME PortsInv, NEW m \in Message, msgs' \in {msgs, Append(msgs, m)},
           cancelled' = cancelled,
           Len(made) <= Len(made'), \A i \in 1 .. Len(made) : made'[i] = made[i],
           m.op = "attach" => m.inst <= Len(made') /\ made'[m.inst].id = m.id,
           m.op = "detach" /\ m.inst # None => m.inst \in cancelled
    PROVE  msgs' \in Seq(Message) /\ MessagesAreTrue'
<1>1. msgs \in Seq(Message) /\ made \in Seq(Devices)
  BY DEF PortsInv, PortsAgree, TypeOK
<1>2. /\ msgs' \in Seq(Message)
      /\ \A i \in 1 .. Len(msgs') : msgs'[i] = m \/ (i \in 1 .. Len(msgs) /\ msgs'[i] = msgs[i])
  <2>1. CASE msgs' = msgs
    BY <1>1, <2>1
  <2>2. CASE msgs' = Append(msgs, m)
    <3>1. /\ msgs' \in Seq(Message) /\ Len(msgs') = Len(msgs) + 1 /\ Len(msgs) \in Nat
          /\ \A i \in 1 .. Len(msgs) : msgs'[i] = msgs[i]
          /\ msgs'[Len(msgs) + 1] = m
      BY <1>1, <2>2, AppendProperties
    <3> QED
      BY <3>1
  <2> QED
    BY <2>1, <2>2
<1>3. \A i \in 1 .. Len(msgs) : msgs[i] \in Message
  BY <1>1, ElementOfSeq
<1>4. \A i \in 1 .. Len(msgs) : msgs[i].op = "attach" => msgs[i].inst \in Instances
  BY <1>3 DEF Message
<1>5. ASSUME NEW i \in 1 .. Len(msgs)
      PROVE  /\ msgs[i].op = "attach" =>
                   msgs[i].inst <= Len(made') /\ made'[msgs[i].inst].id = msgs[i].id
             /\ msgs[i].op = "detach" /\ msgs[i].inst # None => msgs[i].inst \in cancelled'
  <2>1. CASE msgs[i].op = "attach"
    <3>1. msgs[i].inst \in 1 .. Len(made) /\ made[msgs[i].inst].id = msgs[i].id
      BY <1>1, <1>4, <2>1, BoundsAssumption DEF PortsInv, MessagesAreTrue, Instances
    <3> QED
      BY <3>1, <2>1
  <2>2. CASE msgs[i].op # "attach"
    BY <2>2 DEF PortsInv, MessagesAreTrue
  <2> QED
    BY <2>1, <2>2
<1>6. /\ m.op = "attach" => m.inst <= Len(made') /\ made'[m.inst].id = m.id
      /\ m.op = "detach" /\ m.inst # None => m.inst \in cancelled'
  OBVIOUS
<1> QED
  BY <1>2, <1>5, <1>6 DEF MessagesAreTrue

\* An address in use: an instance at a port has been handed in.
LEMMA AtPort ==
    ASSUME PortsInv, NEW p \in Ports, devices[p] # None
    PROVE  devices[p] \in 1 .. Len(made) /\ devices[p] \in Instances
BY BoundsAssumption DEF PortsInv, PortsAgree, TypeOK, InstancesAreMade, Instances

-----------------------------------------------------------------------------
(* The invariant *)

\* No device, no event, nothing asked.
LEMMA InitPorts == Init => PortsInv
<1> SUFFICES ASSUME Init PROVE PortsInv
  OBVIOUS
<1>1. TypeOK
  <2>1. /\ wk \in [pc : {"recv", "attach", "event", "dead"}, port : Ports \cup {None},
                   inst : Instances \cup {None}, answers : BOOLEAN]
        /\ endpoints \in [Eps -> [st : {"none", "asking", "got", "open", "dropped"},
                                  inst : Instances \cup {None}]]
    BY DEF Init, Receiving, Closed
  <2> QED
    BY <2>1, BoundsAssumption DEF Init, TypeOK, Bits
<1>2. ASSUME NEW p \in Ports
      PROVE  view[p] = ("CCS" \in portsc[p]) /\ devices[p] = None /\ "CCS" \notin portsc[p]
  <2>1. view[p] = FALSE /\ "CCS" \notin portsc[p] /\ devices[p] = None
    BY DEF Init
  <2>2. ("CCS" \in portsc[p]) = FALSE
    BY <2>1
  <2> QED
    BY <2>1, <2>2
<1>3. PortsAgree /\ ConnectionIsAnnounced /\ ChangesAreSeen
  BY <1>1, <1>2 DEF PortsAgree, ConnectionIsAnnounced, ChangesAreSeen
<1> QED
  BY <1>3 DEF Init, PortsInv, InstancesAreMade, MessagesAreTrue, AttachIsClear, OpenOnDevice,
              Receiving, Closed

\* Steps of endpoints and their launcher change endpoints, and cancel tokens.
LEMMA EndpointPorts ==
    ASSUME PortsInv,
           NEW e \in Eps,
           LauncherOpens(e) \/ DetachHandler(e) \/ EndpointCloses(e) \/ EndpointNotices(e)
    PROVE  PortsInv'
<1>1. /\ UNCHANGED <<register, control, msgs, wk, listeners, requests, interrupter, events,
                     guest>>
      /\ cancelled \subseteq cancelled' /\ launcher' \in {launcher, FALSE}
  BY DEF LauncherOpens, DetachHandler, EndpointCloses, EndpointNotices, handles
<1>2. OpenOnDevice'
  BY DEF LauncherOpens, DetachHandler, EndpointCloses, EndpointNotices, Closed, handles,
         PortsInv, PortsAgree, TypeOK, OpenOnDevice
<1>3. TypeOK'
  <2>1. endpoints' \in [Eps -> [st : {"none", "asking", "got", "open", "dropped"},
                                inst : Instances \cup {None}]]
    BY DEF LauncherOpens, DetachHandler, EndpointCloses, EndpointNotices, Closed, handles,
           PortsInv, PortsAgree, TypeOK
  <2>2. cancelled' \subseteq Instances
    <3>1. CASE EndpointNotices(e)
      BY <3>1 DEF EndpointNotices, PortsInv, PortsAgree, TypeOK, OpenOnDevice
    <3>2. CASE ~EndpointNotices(e)
      BY <3>2 DEF LauncherOpens, DetachHandler, EndpointCloses, PortsInv, PortsAgree, TypeOK
    <3> QED
      BY <3>1, <3>2
  <2> QED
    BY <1>1, <2>1, <2>2 DEF PortsInv, PortsAgree, TypeOK, register, control, handles, guest
<1>4. PortsAgree' /\ ConnectionIsAnnounced' /\ ChangesAreSeen' /\ InstancesAreMade'
      /\ AttachIsClear'
  BY <1>1, <1>3 DEF PortsInv, PortsAgree, ConnectionIsAnnounced, ChangesAreSeen, LooksAgain,
     InstancesAreMade,
                    AttachIsClear, register, control, handles, guest
<1>5. MessagesAreTrue'
  BY <1>1 DEF PortsInv, MessagesAreTrue, control
<1> QED
  BY <1>2, <1>4, <1>5 DEF PortsInv

\* Instances that have been handed in keep their device when another one comes.
LEMMA MadeGrows ==
    ASSUME PortsInv, NEW d \in Devices, made' = Append(made, d), Len(made) < MaxInstances
    PROVE  /\ made' \in Seq(Devices) /\ Len(made') = Len(made) + 1
           /\ \A i \in 1 .. Len(made) : made'[i] = made[i]
           /\ made'[Len(made) + 1] = d
BY AppendProperties DEF PortsInv, PortsAgree, TypeOK

\* A request, or the message of a detach listener, is queued.
LEMMA RequestPorts ==
    ASSUME PortsInv,
           \/ \E d \in Devices : HandleAttach(d)
           \/ \E id \in Ids : HandleDetach(id)
           \/ \E e \in Eps, p \in Ports : RequestLaunch(e, p)
           \/ \E i \in Instances : ListenerFires(i)
    PROVE  PortsInv'
<1>t. /\ made \in Seq(Devices) /\ Len(made) \in Nat /\ Len(made) <= MaxInstances
      /\ msgs \in Seq(Message)
  BY DEF PortsInv, PortsAgree, TypeOK
<1>1. ASSUME NEW d \in Devices, HandleAttach(d)
      PROVE  PortsInv'
  <2>1. /\ Len(made) < MaxInstances /\ made' = Append(made, d)
        /\ server' \in {"waiting", "ended"}
        /\ UNCHANGED <<register, wk, cancelled, listeners, handles, interrupter, events, guest>>
    BY <1>1 DEF HandleAttach, Ask
  <2> DEFINE m == [op |-> "attach", id |-> d.id, inst |-> Len(made) + 1]
  <2>2. msgs' \in {msgs, Append(msgs, m)}
    BY <1>1 DEF HandleAttach, Ask
  <2>3. /\ made' \in Seq(Devices) /\ Len(made') = Len(made) + 1
        /\ \A i \in 1 .. Len(made) : made'[i] = made[i]
        /\ made'[Len(made) + 1] = d
    BY <2>1, MadeGrows
  <2>4. Len(made) + 1 \in Instances /\ d.id \in Ids
    BY <1>t, <2>1, BoundsAssumption DEF Instances, Ids
  <2>5. m \in Message
    BY <2>4 DEF Message
  <2>6. m.op = "attach" /\ m.inst = Len(made) + 1 /\ m.id = d.id
    OBVIOUS
  <2> HIDE DEF m
  <2>7. cancelled' = cancelled /\ Len(made) <= Len(made')
    BY <1>t, <2>1, <2>3
  <2>8. m.inst <= Len(made') /\ made'[m.inst].id = m.id
    BY <1>t, <2>3, <2>6
  <2>9. msgs' \in Seq(Message) /\ MessagesAreTrue'
    BY <2>2, <2>3, <2>5, <2>6, <2>7, <2>8, SendingTrue
  <2>10. Len(made') <= MaxInstances
    BY <1>t, <2>1, <2>3, BoundsAssumption
  <2>11. TypeOK'
    BY <2>1, <2>3, <2>9, <2>10 DEF PortsInv, PortsAgree, TypeOK, register, handles, guest
  <2>12. \A p \in Ports : devices[p] # None => made'[devices[p]] = made[devices[p]]
    BY <2>3, AtPort
  <2>13. wk.inst # None => made'[wk.inst] = made[wk.inst] /\ wk.inst <= Len(made')
    BY <1>t, <2>3, BoundsAssumption DEF PortsInv, PortsAgree, TypeOK, InstancesAreMade, Instances
  <2>14. PortsAgree'
    <3>1. devices' = devices /\ portsc' = portsc
      BY <2>1 DEF register
    <3>2. ASSUME NEW p \in Ports, devices[p] # None
          PROVE  (p \in Usb3Ports) = (made'[devices[p]].speed = "usb3")
      BY <2>12, <3>2 DEF PortsInv, PortsAgree
    <3>3. ASSUME NEW p \in Ports, NEW q \in Ports \ {p}, devices[p] # None, devices[q] # None
          PROVE  made'[devices[q]].id # made'[devices[p]].id
      BY <2>12, <3>3 DEF PortsInv, PortsAgree
    <3>4. \A p \in Ports : ("CCS" \in portsc[p]) = (devices[p] # None)
      BY DEF PortsInv, PortsAgree
    <3> QED
      BY <2>11, <3>1, <3>2, <3>3, <3>4 DEF PortsAgree
  <2>15. AttachIsClear'
    BY <2>1, <2>12, <2>13 DEF PortsInv, AttachIsClear, register
  <2>16. InstancesAreMade'
    <3>1. \A p \in Ports : devices[p] # None => devices[p] <= Len(made')
      BY <1>t, <2>3, AtPort
    <3>2. listeners \subseteq 1 .. Len(made')
      BY <1>t, <2>3 DEF PortsInv, InstancesAreMade
    <3> QED
      BY <2>1, <2>13, <3>1, <3>2 DEF InstancesAreMade, register
  <2>17. ConnectionIsAnnounced' /\ ChangesAreSeen' /\ OpenOnDevice'
    BY <2>1 DEF PortsInv, ConnectionIsAnnounced, ChangesAreSeen, LooksAgain, OpenOnDevice,
       handles, register, guest
  <2> QED
    BY <2>9, <2>14, <2>15, <2>16, <2>17 DEF PortsInv
<1>2. ASSUME NEW m \in Message, msgs' \in {msgs, Append(msgs, m)}, m.op # "attach",
             m.op = "detach" /\ m.inst # None => m.inst \in cancelled,
             UNCHANGED <<register, made, wk, cancelled, events, guest>>,
             listeners' \subseteq listeners, TypeOK' \/ msgs' \notin Seq(Message),
             OpenOnDevice'
      PROVE  PortsInv'
  <2>1. Len(made) <= Len(made') /\ \A i \in 1 .. Len(made) : made'[i] = made[i]
    BY <1>t, <1>2
  <2>2. msgs' \in Seq(Message) /\ MessagesAreTrue'
    BY <1>2, <2>1, SendingTrue
  <2>3. PortsAgree'
    BY <1>2, <2>2 DEF PortsInv, PortsAgree, register
  <2>4. ConnectionIsAnnounced' /\ ChangesAreSeen' /\ InstancesAreMade' /\ AttachIsClear'
    BY <1>2 DEF PortsInv, ConnectionIsAnnounced, ChangesAreSeen, LooksAgain, InstancesAreMade,
       AttachIsClear, register,
                guest
  <2> QED
    BY <1>2, <2>2, <2>3, <2>4 DEF PortsInv
<1>3. ASSUME NEW id \in Ids, HandleDetach(id)
      PROVE  PortsInv'
  <2> DEFINE m == [op |-> "detach", id |-> id, inst |-> None]
  <2>1. m \in Message /\ m.op = "detach" /\ m.inst = None
    BY DEF Message
  <2>2. /\ msgs' \in {msgs, Append(msgs, m)} /\ server' \in {"waiting", "ended"}
        /\ UNCHANGED <<register, made, wk, cancelled, listeners, handles, interrupter,
                       events, guest>>
    BY <1>3 DEF HandleDetach, Ask
  <2> HIDE DEF m
  <2>3. TypeOK' \/ msgs' \notin Seq(Message)
    BY <2>2 DEF PortsInv, PortsAgree, TypeOK, register, handles, guest
  <2>4. OpenOnDevice'
    BY <2>2 DEF PortsInv, OpenOnDevice, handles
  <2> QED
    BY <1>2, <2>1, <2>2, <2>3, <2>4
<1>4. ASSUME NEW e \in Eps, NEW p \in Ports, RequestLaunch(e, p)
      PROVE  PortsInv'
  <2> DEFINE m == [op |-> "get", port |-> p]
  <2>1. m \in Message /\ m.op = "get"
    BY DEF Message
  <2>2. /\ msgs' \in {msgs, Append(msgs, m)}
        /\ endpoints' \in {endpoints, [endpoints EXCEPT ![e].st = "asking"]}
        /\ requests' = requests + 1 /\ requests < MaxRequests /\ launcher' \in {launcher, FALSE}
        /\ UNCHANGED <<register, control, wk, cancelled, listeners, interrupter, events, guest>>
    BY <1>4 DEF RequestLaunch
  <2> HIDE DEF m
  <2>3. endpoints' \in [Eps -> [st : {"none", "asking", "got", "open", "dropped"},
                                inst : Instances \cup {None}]]
    BY <2>2 DEF PortsInv, PortsAgree, TypeOK
  <2>4. requests' \in 0 .. MaxRequests
    BY <2>2, BoundsAssumption DEF PortsInv, PortsAgree, TypeOK
  <2>5. TypeOK' \/ msgs' \notin Seq(Message)
    BY <2>2, <2>3, <2>4 DEF PortsInv, PortsAgree, TypeOK, register, control, handles, guest
  <2>6. OpenOnDevice'
    <3>1. CASE endpoints' = endpoints
      BY <3>1 DEF PortsInv, OpenOnDevice
    <3>2. CASE endpoints' = [endpoints EXCEPT ![e].st = "asking"]
      BY <3>2 DEF PortsInv, PortsAgree, TypeOK, OpenOnDevice
    <3> QED
      BY <2>2, <3>1, <3>2
  <2> QED
    BY <1>2, <2>1, <2>2, <2>5, <2>6 DEF control
<1>5. ASSUME NEW i \in Instances, ListenerFires(i)
      PROVE  PortsInv'
  <2> DEFINE m == [op |-> "detach", id |-> made[i].id, inst |-> i]
  <2>1. i \in listeners /\ i \in cancelled
    BY <1>5 DEF ListenerFires
  <2>2. made[i] \in Devices
    BY <1>t, <2>1, ElementOfSeq DEF PortsInv, InstancesAreMade
  <2>3. m \in Message /\ m.op = "detach" /\ m.inst = i
    BY <2>2 DEF Message, Ids
  <2>4. /\ msgs' \in {msgs, Append(msgs, m)} /\ listeners' = listeners \ {i}
        /\ UNCHANGED <<register, control, wk, cancelled, handles, interrupter, events, guest>>
    BY <1>5 DEF ListenerFires
  <2> HIDE DEF m
  <2>5. TypeOK' \/ msgs' \notin Seq(Message)
    BY <2>4 DEF PortsInv, PortsAgree, TypeOK, register, control, handles, guest
  <2>6. OpenOnDevice'
    BY <2>4 DEF PortsInv, OpenOnDevice, handles
  <2> QED
    BY <1>2, <2>1, <2>3, <2>4, <2>5, <2>6 DEF control
<1> QED
  BY <1>1, <1>3, <1>4, <1>5

\* A device that leaves its port takes its bits and its identifier with it.
LEMMA Detaching ==
    ASSUME PortsInv, NEW p \in Ports, devices[p] # None, DetachAt(p)
    PROVE  /\ devices' \in [Ports -> Instances \cup {None}]
           /\ portsc' \in [Ports -> SUBSET Bits]
           /\ cancelled \subseteq cancelled' /\ cancelled' \subseteq Instances
           /\ \A q \in Ports : devices'[q] = IF q = p THEN None ELSE devices[q]
           /\ \A q \in Ports : ("CCS" \in portsc'[q]) = (devices'[q] # None)
           /\ \A q \in Ports : devices'[q] # None => devices'[q] = devices[q]
           /\ \A q \in Ports : portsc'[q] = IF q = p THEN {"PP", "CSC"} ELSE portsc[q]
<1>1. /\ devices' = [devices EXCEPT ![p] = None] /\ cancelled' = cancelled \cup {devices[p]}
      /\ portsc' = [portsc EXCEPT ![p] = {"PP", "CSC"}]
  BY DEF DetachAt
<1>2. devices \in [Ports -> Instances \cup {None}] /\ portsc \in [Ports -> SUBSET Bits]
  BY DEF PortsInv, PortsAgree, TypeOK
<1>3. devices' \in [Ports -> Instances \cup {None}] /\ portsc' \in [Ports -> SUBSET Bits]
  BY <1>1, <1>2 DEF Bits, Change
<1>4. cancelled \subseteq cancelled' /\ cancelled' \subseteq Instances
  BY <1>1, AtPort DEF PortsInv, PortsAgree, TypeOK
<1>5. \A q \in Ports : devices'[q] = IF q = p THEN None ELSE devices[q]
  BY <1>1, <1>2
<1>6. \A q \in Ports : portsc'[q] = IF q = p THEN {"PP", "CSC"} ELSE portsc[q]
  BY <1>1, <1>2
<1>7. ASSUME NEW q \in Ports
      PROVE  ("CCS" \in portsc'[q]) = (devices'[q] # None)
  <2>1. CASE q = p
    BY <1>5, <1>6, <2>1
  <2>2. CASE q # p
    BY <1>5, <1>6, <2>2 DEF PortsInv, PortsAgree
  <2> QED
    BY <2>1, <2>2
<1> QED
  BY <1>3, <1>4, <1>5, <1>6, <1>7

\* The worker detaches a device and turns to its event, with an instance to attach
\* next whose identifier nobody else has, or with none.
LEMMA DetachPorts ==
    ASSUME PortsInv, NEW p \in Ports, devices[p] # None, DetachAt(p),
           msgs # <<>>, msgs' = Tail(msgs), NEW i \in Instances \cup {None},
           NEW a \in BOOLEAN,
           wk' = [pc |-> "event", port |-> p, inst |-> i, answers |-> a],
           wk.pc = "recv",
           i # None => i <= Len(made) /\ made[i].id = made[devices[p]].id,
           UNCHANGED <<control, listeners, handles, interrupter, events, guest>>
    PROVE  PortsInv'
<1>1. /\ devices' \in [Ports -> Instances \cup {None}]
      /\ portsc' \in [Ports -> SUBSET Bits]
      /\ cancelled \subseteq cancelled' /\ cancelled' \subseteq Instances
      /\ \A q \in Ports : devices'[q] = IF q = p THEN None ELSE devices[q]
      /\ \A q \in Ports : ("CCS" \in portsc'[q]) = (devices'[q] # None)
      /\ \A q \in Ports : devices'[q] # None => devices'[q] = devices[q]
      /\ \A q \in Ports : portsc'[q] = IF q = p THEN {"PP", "CSC"} ELSE portsc[q]
  BY Detaching
<1>2. made' = made /\ msgs' \in Seq(Message) /\ MessagesAreTrue'
  BY <1>1, MessagesStayTrue DEF control
<1>3. TypeOK'
  BY <1>1, <1>2 DEF PortsInv, PortsAgree, TypeOK, control, handles, guest
<1>4. PortsAgree'
  <2>1. ASSUME NEW q \in Ports, devices'[q] # None
        PROVE  (q \in Usb3Ports) = (made[devices'[q]].speed = "usb3")
    BY <1>1, <2>1 DEF PortsInv, PortsAgree
  <2>2. ASSUME NEW q \in Ports, NEW r \in Ports \ {q}, devices'[q] # None, devices'[r] # None
        PROVE  made[devices'[r]].id # made[devices'[q]].id
    BY <1>1, <2>2 DEF PortsInv, PortsAgree
  <2> QED
    BY <1>1, <1>2, <1>3, <2>1, <2>2 DEF PortsAgree
<1>5. AttachIsClear'
  <2>1. wk'.port = p /\ wk'.pc = "event" /\ wk'.inst = i
    OBVIOUS
  <2>2. ASSUME i # None, NEW q \in Ports, devices'[q] # None
        PROVE  made[devices'[q]].id # made[i].id
    <3>1. q # p /\ devices'[q] = devices[q] /\ devices[q] # None
      BY <1>1, <2>2
    <3>2. made[devices[q]].id # made[devices[p]].id
      BY <3>1 DEF PortsInv, PortsAgree
    <3> QED
      BY <2>2, <3>1, <3>2
  <2> QED
    BY <1>2, <2>1, <2>2 DEF AttachIsClear
<1>6. InstancesAreMade'
  <2>1. \A q \in Ports : devices'[q] # None => devices'[q] <= Len(made)
    BY <1>1 DEF PortsInv, InstancesAreMade
  <2> QED
    BY <1>2, <2>1 DEF PortsInv, InstancesAreMade
<1>7. ConnectionIsAnnounced' /\ ChangesAreSeen'
  <2>1. ASSUME NEW q \in Ports \ {p}
        PROVE  /\ q \notin events /\ ~LooksAgain(q) => view[q] = ("CCS" \in portsc[q])
               /\ portsc'[q] = portsc[q] /\ (LooksAgain(q))' = LooksAgain(q)
    BY <1>1 DEF PortsInv, ConnectionIsAnnounced, LooksAgain, guest
  <2>2. "CSC" \in portsc'[p] /\ wk'.port = p /\ wk'.pc = "event"
    BY <1>1
  <2> QED
    BY <2>1, <2>2 DEF PortsInv, ConnectionIsAnnounced, ChangesAreSeen, guest
<1>8. OpenOnDevice'
  BY DEF PortsInv, OpenOnDevice, handles
<1> QED
  BY <1>2, <1>4, <1>5, <1>6, <1>7, <1>8 DEF PortsInv

\* What an attach or detach request finds is a port with a device of that identifier.
LEMMA Finding ==
    ASSUME NEW p \in Ports, NEW id, NEW inst, Matches(p, id, inst)
    PROVE  devices[p] # None /\ made[devices[p]].id = id
BY DEF Matches

\* A detach takes the device off its port before anything else is told.
LEMMA PortDetachPorts ==
    ASSUME PortsInv, PortDetach
    PROVE  PortsInv'
<1> DEFINE id == Head(msgs).id
           inst == Head(msgs).inst
           found == {p \in Ports : Matches(p, id, inst)}
<1>1. wk.pc = "recv" /\ msgs # <<>> /\ msgs' = Tail(msgs)
  BY DEF PortDetach, Take
<1>2. UNCHANGED <<made, listeners, handles, interrupter, events, guest>>
  BY DEF PortDetach
<1>3. CASE found = {}
  <2>1. Reply(inst = None) /\ UNCHANGED <<register, cancelled, wk>>
    BY <1>3 DEF PortDetach
  <2>2. server' \in {"idle", "waiting", "ended"}
    BY <2>1 DEF Reply, PortsInv, PortsAgree, TypeOK
  <2>3. msgs' \in Seq(Message) /\ MessagesAreTrue'
    BY <1>1, <1>2, <2>1, MessagesStayTrue
  <2>4. TypeOK'
    BY <1>2, <2>1, <2>2, <2>3 DEF PortsInv, PortsAgree, TypeOK, register, handles, guest
  <2>5. PortsAgree' /\ ConnectionIsAnnounced' /\ ChangesAreSeen' /\ InstancesAreMade'
        /\ AttachIsClear'
        /\ OpenOnDevice'
    BY <1>2, <2>1, <2>4 DEF PortsInv, PortsAgree, ConnectionIsAnnounced, ChangesAreSeen,
       LooksAgain, InstancesAreMade,
                            AttachIsClear, OpenOnDevice, handles, register, guest
  <2> QED
    BY <2>3, <2>5 DEF PortsInv
<1>4. ASSUME NEW p \in found, DetachAt(p), UNCHANGED server,
             wk' = [pc |-> "event", port |-> p, inst |-> None, answers |-> inst = None]
      PROVE  PortsInv'
  <2>1. p \in Ports /\ devices[p] # None
    BY Finding
  <2>2. UNCHANGED <<control, listeners, handles, interrupter, events, guest>>
    BY <1>2, <1>4 DEF control
  <2>3. (inst = None) \in BOOLEAN
    OBVIOUS
  <2> QED
    BY <1>1, <1>4, <2>1, <2>2, <2>3, DetachPorts
<1> QED
  BY <1>3, <1>4 DEF PortDetach

\* PortMessage::Attach leaves the identifier of its instance to it alone.
LEMMA PortAttachPorts ==
    ASSUME PortsInv, PortAttach
    PROVE  PortsInv'
<1> DEFINE id == Head(msgs).id
           inst == Head(msgs).inst
           found == {p \in Ports : Matches(p, id, None)}
<1>1. wk.pc = "recv" /\ msgs # <<>> /\ msgs' = Tail(msgs) /\ Head(msgs).op = "attach"
  BY DEF PortAttach, Take
<1>2. UNCHANGED <<control, listeners, handles, interrupter, events, guest>>
  BY DEF PortAttach
<1>3. inst \in Instances /\ inst <= Len(made) /\ made[inst].id = id
  <2>1. msgs \in Seq(Message)
    BY DEF PortsInv, PortsAgree, TypeOK
  <2>2. Head(msgs) = msgs[1] /\ Head(msgs) \in Message /\ 1 \in 1 .. Len(msgs)
    BY <1>1, <2>1, Taking
  <2>3. msgs[1].inst <= Len(made) /\ made[msgs[1].inst].id = msgs[1].id
    BY <1>1, <2>2 DEF PortsInv, MessagesAreTrue
  <2>4. inst \in Instances
    BY <1>1, <2>2 DEF Message
  <2> QED
    BY <2>2, <2>3, <2>4
<1>4. inst # None
  BY <1>3, NoneAssumption DEF Instances
<1>5. CASE found = {}
  <2>1. /\ wk' = [pc |-> "attach", port |-> None, inst |-> inst, answers |-> TRUE]
        /\ UNCHANGED <<register, cancelled>>
    BY <1>5 DEF PortAttach
  <2>2. msgs' \in Seq(Message) /\ MessagesAreTrue'
    BY <1>1, <1>2, <2>1, MessagesStayTrue DEF control
  <2>3. TypeOK'
    BY <1>2, <1>3, <2>1, <2>2 DEF PortsInv, PortsAgree, TypeOK, register, control, handles, guest
  <2>4. ASSUME NEW p \in Ports, devices[p] # None
        PROVE  made[devices[p]].id # id
    BY <1>5, <2>4 DEF Matches
  <2>5. AttachIsClear'
    BY <1>2, <1>3, <1>4, <2>1, <2>4 DEF AttachIsClear, register, control
  <2>6. PortsAgree' /\ ConnectionIsAnnounced' /\ ChangesAreSeen' /\ InstancesAreMade'
        /\ OpenOnDevice'
    BY <1>1, <1>2, <1>3, <2>1, <2>3 DEF PortsInv, PortsAgree, ConnectionIsAnnounced,
       ChangesAreSeen, LooksAgain,
                        InstancesAreMade, OpenOnDevice, handles, register, control, guest
  <2> QED
    BY <2>2, <2>5, <2>6 DEF PortsInv
<1>6. ASSUME NEW p \in found, DetachAt(p),
             wk' = [pc |-> "event", port |-> p, inst |-> inst, answers |-> TRUE]
      PROVE  PortsInv'
  <2>1. p \in Ports /\ devices[p] # None /\ made[devices[p]].id = id
    BY Finding
  <2> QED
    BY <1>1, <1>2, <1>3, <1>6, <2>1, DetachPorts
<1> QED
  BY <1>5, <1>6 DEF PortAttach

\* The device goes to a free port of its version, with its bits and its listener.
LEMMA PortAttachDevicePorts ==
    ASSUME PortsInv, PortAttachDevice
    PROVE  PortsInv'
<1> DEFINE i == wk.inst
           speed == made[i].speed
           free == Free(speed)
<1>1. wk.pc = "attach" /\ UNCHANGED <<made, msgs, cancelled, handles, interrupter, events, guest>>
  BY DEF PortAttachDevice
<1>2. i \in Instances /\ i \in 1 .. Len(made) /\ i # None
  BY <1>1, BoundsAssumption, NoneAssumption
     DEF PortsInv, AttachIsClear, InstancesAreMade, PortsAgree, TypeOK, Instances
<1>3. \A p \in Ports : devices[p] # None => made[devices[p]].id # made[i].id
  BY <1>2 DEF PortsInv, AttachIsClear
<1>4. MessagesAreTrue' /\ OpenOnDevice'
  BY <1>1 DEF PortsInv, MessagesAreTrue, OpenOnDevice, handles
<1>5. CASE speed = "unknown" \/ free = {}
  <2>1. NotAttached(speed) /\ wk' = Receiving /\ UNCHANGED <<register, listeners>>
    BY <1>5 DEF PortAttachDevice
  <2>2. TypeOK'
    BY <1>1, <2>1 DEF NotAttached, Reply, Receiving, PortsInv, PortsAgree, TypeOK, register,
                      handles, guest
  <2>3. PortsAgree' /\ ConnectionIsAnnounced' /\ ChangesAreSeen' /\ InstancesAreMade'
        /\ AttachIsClear'
    BY <1>1, <2>1, <2>2 DEF Receiving, PortsInv, PortsAgree, ConnectionIsAnnounced,
       ChangesAreSeen, LooksAgain,
                            InstancesAreMade, AttachIsClear, register, handles, guest
  <2> QED
    BY <1>4, <2>3 DEF PortsInv
<1>6. ASSUME NEW p \in free,
             devices' = [devices EXCEPT ![p] = i], Listen(i),
             portsc' = [portsc EXCEPT ![p] =
                 IF speed = "usb3" THEN {"CCS", "PED", "PP", "CSC", "PEC", "PRC"}
                 ELSE {"CCS", "POLLING", "PP", "CSC"}],
             wk' = [pc |-> "event", port |-> p, inst |-> None, answers |-> TRUE],
             UNCHANGED server
      PROVE  PortsInv'
  <2>1. p \in Ports /\ devices[p] = None /\ (p \in Usb3Ports) = (speed = "usb3")
    BY DEF Free
  <2>2. /\ devices \in [Ports -> Instances \cup {None}] /\ portsc \in [Ports -> SUBSET Bits]
        /\ listeners \subseteq Instances
    BY DEF PortsInv, PortsAgree, TypeOK
  <2>3. \A q \in Ports : devices'[q] = IF q = p THEN i ELSE devices[q]
    BY <1>6, <2>1, <2>2
  <2>4. \A q \in Ports \ {p} : portsc'[q] = portsc[q]
    BY <1>6, <2>1, <2>2
  <2>5. "CCS" \in portsc'[p]
    BY <1>6, <2>1, <2>2
  <2>6. listeners' = listeners \cup {i}
    BY <1>6 DEF Listen
  <2>7. TypeOK'
    <3>1. devices' \in [Ports -> Instances \cup {None}] /\ portsc' \in [Ports -> SUBSET Bits]
      BY <1>2, <1>6, <2>1, <2>2 DEF Bits, Change
    <3>2. listeners' \subseteq Instances
      BY <1>2, <2>2, <2>6
    <3> QED
      BY <1>1, <1>6, <2>1, <3>1, <3>2 DEF PortsInv, PortsAgree, TypeOK, handles, guest
  <2>8. PortsAgree'
    <3>1. ASSUME NEW q \in Ports
          PROVE  ("CCS" \in portsc'[q]) = (devices'[q] # None)
      <4>1. CASE q = p
        BY <1>2, <2>3, <2>5, <4>1
      <4>2. CASE q # p
        BY <2>3, <2>4, <4>2 DEF PortsInv, PortsAgree
      <4> QED
        BY <4>1, <4>2
    <3>2. ASSUME NEW q \in Ports, devices'[q] # None
          PROVE  (q \in Usb3Ports) = (made[devices'[q]].speed = "usb3")
      <4>1. CASE q = p
        BY <2>1, <2>3, <4>1
      <4>2. CASE q # p
        BY <2>3, <3>2, <4>2 DEF PortsInv, PortsAgree
      <4> QED
        BY <4>1, <4>2
    <3>3. ASSUME NEW q \in Ports, NEW r \in Ports \ {q}, devices'[q] # None,
                 devices'[r] # None
          PROVE  made[devices'[r]].id # made[devices'[q]].id
      <4>1. CASE q = p
        BY <1>3, <2>3, <3>3, <4>1
      <4>2. CASE r = p
        BY <1>3, <2>3, <3>3, <4>2
      <4>3. CASE q # p /\ r # p
        BY <2>3, <3>3, <4>3 DEF PortsInv, PortsAgree
      <4> QED
        BY <4>1, <4>2, <4>3
    <3> QED
      BY <1>1, <2>7, <3>1, <3>2, <3>3 DEF PortsAgree
  <2>9. ConnectionIsAnnounced' /\ ChangesAreSeen'
    <3>1. ASSUME NEW q \in Ports \ {p}
          PROVE  /\ q \notin events /\ ~LooksAgain(q) => view[q] = ("CCS" \in portsc[q])
                 /\ (LooksAgain(q))' = LooksAgain(q)
      BY <1>1 DEF PortsInv, ConnectionIsAnnounced, LooksAgain, guest
    <3>2. "CSC" \in portsc'[p] /\ wk'.port = p /\ wk'.pc = "event"
      BY <1>6, <2>1, <2>2
    <3> QED
      BY <1>1, <2>4, <3>1, <3>2 DEF PortsInv, ConnectionIsAnnounced, ChangesAreSeen, guest
  <2>10. InstancesAreMade'
    <3>1. \A q \in Ports : devices'[q] # None => devices'[q] <= Len(made)
      BY <1>2, <2>3 DEF PortsInv, InstancesAreMade
    <3>2. listeners' \subseteq 1 .. Len(made)
      BY <1>2, <2>6 DEF PortsInv, InstancesAreMade
    <3> QED
      BY <1>1, <1>6, <3>1, <3>2 DEF InstancesAreMade
  <2>11. AttachIsClear'
    BY <1>6, <2>1 DEF AttachIsClear
  <2> QED
    BY <1>4, <2>8, <2>9, <2>10, <2>11 DEF PortsInv
<1> QED
  BY <1>5, <1>6 DEF PortAttachDevice

\* The event is sent, or a device looked up.
LEMMA AnnouncePorts ==
    ASSUME PortsInv, PortAnnounce \/ PortGetDevice
    PROVE  PortsInv'
<1>1. CASE PortAnnounce
  <2>1. /\ wk.pc = "event" /\ wk.port \in Ports
        /\ UNCHANGED <<register, made, cancelled, listeners, requests, interrupter, guest>>
    BY <1>1 DEF PortAnnounce, PortsInv, AttachIsClear
  <2>2. CASE ~interrupter
    <3>1. /\ wk' = Dead /\ msgs' = <<>> /\ events' = events
          /\ server' \in {server, "ended"} /\ launcher' \in {launcher, FALSE}
          /\ endpoints' = [e \in Eps |->
                 IF endpoints[e].st = "asking" THEN Closed ELSE endpoints[e]]
      BY <1>1, <2>2 DEF PortAnnounce, PortDies, PortsInv, PortsAgree, TypeOK
    <3>2. /\ wk'.pc = "dead" /\ wk'.inst = None
          /\ wk' \in [pc : {"recv", "attach", "event", "dead"}, port : Ports \cup {None},
                      inst : Instances \cup {None}, answers : BOOLEAN]
      BY <3>1 DEF Dead, Receiving
    <3>3. endpoints' \in [Eps -> [st : {"none", "asking", "got", "open", "dropped"},
                                  inst : Instances \cup {None}]]
      BY <3>1 DEF PortsInv, PortsAgree, TypeOK, Closed
    <3>4. msgs' \in Seq(Message) /\ MessagesAreTrue'
      BY <3>1 DEF MessagesAreTrue
    <3>5. TypeOK'
      BY <2>1, <3>1, <3>2, <3>3, <3>4 DEF PortsInv, PortsAgree, TypeOK, register, guest
    <3>6. PortsAgree' /\ InstancesAreMade' /\ AttachIsClear'
      BY <2>1, <3>2, <3>5 DEF PortsInv, PortsAgree, InstancesAreMade, AttachIsClear, register
    <3>7. OpenOnDevice'
      BY <3>1 DEF PortsInv, OpenOnDevice, Closed
    <3>8. ConnectionIsAnnounced' /\ ChangesAreSeen'
      BY <2>1, <3>2 DEF PortsInv, ConnectionIsAnnounced, ChangesAreSeen, LooksAgain, register,
         guest
    <3> QED
      BY <3>4, <3>6, <3>7, <3>8 DEF PortsInv
  <2>3. CASE interrupter
    <3>1. /\ events' = events \cup {wk.port}
          /\ IF wk.inst = None THEN wk' = Receiving /\ Reply(wk.answers)
             ELSE wk' = [wk EXCEPT !.pc = "attach", !.port = None] /\ server' = server
          /\ UNCHANGED <<msgs, endpoints, launcher>>
      BY <1>1, <2>3 DEF PortAnnounce
    <3>2. /\ wk'.pc \in {"recv", "attach"} /\ wk'.inst = wk.inst
          /\ wk'.pc = "attach" => wk.inst # None
          /\ wk' \in [pc : {"recv", "attach", "event", "dead"}, port : Ports \cup {None},
                      inst : Instances \cup {None}, answers : BOOLEAN]
          /\ server' \in {"idle", "waiting", "ended"}
      <4>1. CASE wk.inst = None
        <5>1. wk' = Receiving /\ server' \in {"idle", "waiting", "ended"}
          BY <3>1, <4>1 DEF Reply, PortsInv, PortsAgree, TypeOK
        <5> QED
          BY <4>1, <5>1 DEF Receiving
      <4>2. CASE wk.inst # None
        BY <3>1, <4>2 DEF PortsInv, PortsAgree, TypeOK
      <4> QED
        BY <4>1, <4>2
    <3>3. TypeOK'
      BY <2>1, <3>1, <3>2 DEF PortsInv, PortsAgree, TypeOK, register, guest
    <3>4. PortsAgree' /\ InstancesAreMade' /\ AttachIsClear' /\ MessagesAreTrue' /\ OpenOnDevice'
      BY <2>1, <3>1, <3>2, <3>3 DEF PortsInv, PortsAgree, InstancesAreMade, AttachIsClear,
                                    MessagesAreTrue, OpenOnDevice, register
    <3>5. ConnectionIsAnnounced' /\ ChangesAreSeen'
      BY <2>1, <3>1, <3>2
         DEF PortsInv, ConnectionIsAnnounced, ChangesAreSeen, LooksAgain, register, guest
    <3> QED
      BY <3>4, <3>5 DEF PortsInv
  <2> QED
    BY <2>2, <2>3
<1>2. CASE PortGetDevice
  <2>1. /\ wk.pc = "recv" /\ msgs # <<>> /\ msgs' = Tail(msgs) /\ Head(msgs).op = "get"
        /\ UNCHANGED <<register, control, wk, cancelled, listeners, requests, launcher,
                       interrupter, events, guest>>
        /\ endpoints' = [e \in Eps |->
               IF endpoints[e].st = "asking"
               THEN [st |-> "got", inst |-> devices[Head(msgs).port]] ELSE endpoints[e]]
    BY <1>2 DEF PortGetDevice, Take
  <2>2. msgs' \in Seq(Message) /\ MessagesAreTrue'
    BY <2>1, MessagesStayTrue DEF control
  <2>3. Head(msgs).port \in Ports
    <3>1. Head(msgs) \in Message
      BY <2>1, Taking DEF PortsInv, PortsAgree, TypeOK
    <3> QED
      BY <2>1, <3>1 DEF Message
  <2>4. devices[Head(msgs).port] \in Instances \cup {None}
    BY <2>3 DEF PortsInv, PortsAgree, TypeOK
  <2>5. endpoints' \in [Eps -> [st : {"none", "asking", "got", "open", "dropped"},
                                inst : Instances \cup {None}]]
    BY <2>1, <2>4 DEF PortsInv, PortsAgree, TypeOK
  <2>6. OpenOnDevice'
    BY <2>1 DEF PortsInv, OpenOnDevice
  <2>7. TypeOK'
    BY <2>1, <2>2, <2>5 DEF PortsInv, PortsAgree, TypeOK, register, control, handles, guest
  <2>8. PortsAgree' /\ ConnectionIsAnnounced' /\ ChangesAreSeen' /\ InstancesAreMade'
        /\ AttachIsClear'
    BY <2>1, <2>7 DEF PortsInv, PortsAgree, ConnectionIsAnnounced, ChangesAreSeen, LooksAgain,
       InstancesAreMade,
                      AttachIsClear, register, control, handles, guest
  <2> QED
    BY <2>2, <2>6, <2>8 DEF PortsInv
<1> QED
  BY <1>1, <1>2

\* The driver clears change bits and resets ports; CCS is not its to write, and it does
\* not clear CSC without looking at CCS afterwards.
LEMMA DriverPorts ==
    ASSUME PortsInv, (\E p \in Ports : DriverReads(p)) \/ DriverWrites \/ DriverLooks
    PROVE  PortsInv'
<1>1. UNCHANGED <<devices, control, msgs, wk, cancelled, listeners, handles, interrupter>>
  BY DEF DriverReads, DriverWrites, DriverLooks, register
<1>2. InstancesAreMade' /\ AttachIsClear' /\ MessagesAreTrue' /\ OpenOnDevice'
  BY <1>1 DEF PortsInv, InstancesAreMade, AttachIsClear, MessagesAreTrue, OpenOnDevice, control,
              handles
<1>3. ASSUME NEW p \in Ports, DriverReads(p)
      PROVE  TypeOK' /\ portsc' = portsc /\ ConnectionIsAnnounced' /\ ChangesAreSeen'
  <2>1. /\ events' = events \ {p} /\ drv = None /\ view' = view /\ portsc' = portsc
        /\ drv' = [port |-> p, seen |-> portsc[p], at |-> "write"]
    BY <1>3 DEF DriverReads, register
  <2>2. TypeOK'
    BY <1>1, <2>1 DEF PortsInv, PortsAgree, TypeOK, Handled, control, handles
  <2>3. \A q \in Ports : (LooksAgain(q))' = (q = p /\ "CSC" \in portsc[p]) /\ ~LooksAgain(q)
    <3>1. drv' \in Handled
      BY <2>1 DEF Handled, PortsInv, PortsAgree, TypeOK
    <3> QED
      BY <2>1, <3>1, HandledAssumption DEF LooksAgain
  <2> QED
    BY <1>1, <2>1, <2>2, <2>3 DEF PortsInv, ConnectionIsAnnounced, ChangesAreSeen
<1>4. ASSUME DriverWrites
      PROVE  /\ TypeOK' /\ ConnectionIsAnnounced' /\ ChangesAreSeen'
             /\ \A q \in Ports : ("CCS" \in portsc'[q]) = ("CCS" \in portsc[q])
  <2>0. drv # None /\ drv.at = "write" /\ drv \in Handled
    BY <1>4 DEF DriverWrites, PortsInv, PortsAgree, TypeOK
  <2>p. PICK p \in Ports : p = drv.port
    BY <2>0 DEF Handled
  <2> DEFINE kept == portsc[p] \ (drv.seen \cap Change)
  <2>1. /\ view' = view
        /\ portsc' = [portsc EXCEPT ![p] = IF ToReset THEN PortReset(p, kept) ELSE kept]
        /\ events' = IF ToReset /\ interrupter THEN events \cup {p} ELSE events
        /\ drv' = IF ToReset /\ ~interrupter THEN [drv EXCEPT !.at = "gone"]
                  ELSE IF "CSC" \in drv.seen THEN [drv EXCEPT !.at = "look"] ELSE None
    BY <1>4, <2>p DEF DriverWrites
  <2>2. portsc \in [Ports -> SUBSET Bits]
    BY DEF PortsInv, PortsAgree, TypeOK
  <2>3. p \in Ports /\ portsc[p] \in SUBSET Bits
    BY <2>2
  <2>4. kept \in SUBSET Bits /\ PortReset(p, kept) \in SUBSET Bits
    BY <2>3 DEF PortReset, Bits, Change
  <2>5. /\ ("CCS" \in kept) = ("CCS" \in portsc[p])
        /\ ("CCS" \in PortReset(p, kept)) = ("CCS" \in portsc[p])
        /\ "CSC" \notin drv.seen => /\ ("CSC" \in kept) = ("CSC" \in portsc[p])
                                   /\ ("CSC" \in PortReset(p, kept)) = ("CSC" \in portsc[p])
    BY DEF PortReset, Change
  <2> HIDE DEF kept
  <2>6. portsc' \in [Ports -> SUBSET Bits]
    BY <2>1, <2>2, <2>3, <2>4
  <2>7. /\ \A q \in Ports : ("CCS" \in portsc'[q]) = ("CCS" \in portsc[q])
        /\ \A q \in Ports : q # p \/ "CSC" \notin drv.seen =>
                              ("CSC" \in portsc'[q]) = ("CSC" \in portsc[q])
    BY <2>1, <2>2, <2>3, <2>5
  <2>8. events' \subseteq Ports /\ events \subseteq events'
    BY <2>1, <2>3 DEF PortsInv, PortsAgree, TypeOK
  <2>9. /\ drv' \in Handled \cup {None}
        /\ "CSC" \in drv.seen => drv' \in Handled /\ drv'.port = p /\ drv'.at # "write"
    BY <2>0, <2>1, <2>p DEF Handled
  <2>10. TypeOK'
    BY <1>1, <2>1, <2>6, <2>8, <2>9 DEF PortsInv, PortsAgree, TypeOK, control, handles
  <2>11. ASSUME NEW q \in Ports
         PROVE  /\ LooksAgain(q) => (LooksAgain(q))'
                /\ ~LooksAgain(q) => ("CSC" \in portsc'[q]) = ("CSC" \in portsc[q])
    BY <2>0, <2>p, <2>7, <2>9, HandledAssumption DEF LooksAgain
  <2>12. ConnectionIsAnnounced' /\ ChangesAreSeen'
    BY <1>1, <2>1, <2>7, <2>8, <2>11 DEF PortsInv, ConnectionIsAnnounced, ChangesAreSeen
  <2> QED
    BY <2>7, <2>10, <2>12
<1>5. ASSUME DriverLooks
      PROVE  TypeOK' /\ portsc' = portsc /\ ConnectionIsAnnounced' /\ ChangesAreSeen'
  <2>1. /\ drv # None /\ drv' = None /\ portsc' = portsc /\ events' = events
        /\ view' = [view EXCEPT ![drv.port] = "CCS" \in portsc[drv.port]]
    BY <1>5 DEF DriverLooks, register
  <2>2. drv.port \in Ports /\ view \in [Ports -> BOOLEAN]
    BY <2>1 DEF PortsInv, PortsAgree, TypeOK, Handled
  <2>3. \A q \in Ports : view'[q] = IF q = drv.port THEN "CCS" \in portsc[q] ELSE view[q]
    BY <2>1, <2>2
  <2>4. TypeOK'
    <3>1. view' \in [Ports -> BOOLEAN]
      BY <2>1, <2>2
    <3> QED
      BY <1>1, <2>1, <3>1 DEF PortsInv, PortsAgree, TypeOK, control, handles
  <2>5. \A q \in Ports : q # drv.port => ~LooksAgain(q)
    BY <2>1 DEF LooksAgain
  <2>6. ConnectionIsAnnounced' /\ ChangesAreSeen'
    BY <1>1, <2>1, <2>3, <2>5 DEF PortsInv, ConnectionIsAnnounced, ChangesAreSeen
  <2> QED
    BY <2>1, <2>4, <2>6
<1>6. /\ TypeOK' /\ ConnectionIsAnnounced' /\ ChangesAreSeen'
      /\ \A q \in Ports : ("CCS" \in portsc'[q]) = ("CCS" \in portsc[q])
  BY <1>3, <1>4, <1>5
<1>7. PortsAgree'
  BY <1>1, <1>6 DEF PortsInv, PortsAgree, control
<1> QED
  BY <1>2, <1>6, <1>7 DEF PortsInv

\* The end of the interrupter is noticed later.
LEMMA InterrupterPorts ==
    ASSUME PortsInv, InterrupterDies
    PROVE  PortsInv'
<1>1. /\ interrupter' = FALSE
      /\ UNCHANGED <<register, control, msgs, wk, cancelled, listeners, handles, events, guest>>
  BY DEF InterrupterDies
<1>2. TypeOK'
  BY <1>1 DEF PortsInv, PortsAgree, TypeOK, register, control, handles, guest
<1> QED
  BY <1>1, <1>2 DEF PortsInv, PortsAgree, ConnectionIsAnnounced, ChangesAreSeen, LooksAgain,
     InstancesAreMade, MessagesAreTrue, AttachIsClear, OpenOnDevice, register, control, handles,
     guest

\* Every step preserves the invariant.
LEMMA NextPorts ==
    ASSUME PortsInv, [Next]_vars
    PROVE  PortsInv'
<1>1. CASE UNCHANGED vars
  BY <1>1 DEF vars, register, control, handles, guest, PortsInv, PortsAgree, TypeOK,
              ConnectionIsAnnounced, ChangesAreSeen, LooksAgain, InstancesAreMade,
              MessagesAreTrue, AttachIsClear,
              OpenOnDevice
<1>2. CASE Next
  BY <1>2, RequestPorts, EndpointPorts, PortDetachPorts, PortAttachPorts,
     PortAttachDevicePorts, AnnouncePorts, DriverPorts, InterrupterPorts
     DEF Next, PortWorker
<1> QED
  BY <1>1, <1>2

\* The port worker, its listeners and the driver keep the invariant: registers, devices
\* and messages agree, and a device that is being attached has its identifier to itself.
THEOREM PortsInvariant == Spec => []PortsInv
<1>1. Init => PortsInv
  BY InitPorts
<1>2. PortsInv /\ [Next]_vars => PortsInv'
  BY NextPorts
<1> QED
  BY <1>1, <1>2, PTL DEF Spec

-----------------------------------------------------------------------------
(* The properties *)

\* attach and detach keep PORTSC.CCS, the version of a port and the uniqueness of
\* identifiers in step with the devices, whatever the driver writes back.
THEOREM PortsAgreeAlways == Spec => []PortsAgree
<1>1. PortsInv => PortsAgree
  BY DEF PortsInv
<1> QED
  BY <1>1, PortsInvariant, PTL

\* No change of PORTSC.CCS escapes the driver, whatever change bits it writes back: the
\* event is pending or about to be sent, or the driver is going to look again.
THEOREM ConnectionIsAnnouncedAlways == Spec => []ConnectionIsAnnounced
<1>1. PortsInv => ConnectionIsAnnounced
  BY DEF PortsInv
<1> QED
  BY <1>1, PortsInvariant, PTL

\* A detach message that names an instance comes from the listener of that instance,
\* whose token is cancelled (MessagesAreTrue), so no device goes for another's sake.
THEOREM OnlyOwnInstanceAlways == Spec => OnlyOwnInstance
<1> DEFINE OwnReason(p) ==
        \/ devices[p] \in cancelled
        \/ msgs # <<>> /\ Head(msgs).op \in {"attach", "detach"}
             /\ Head(msgs).id = made[devices[p]].id
             /\ (Head(msgs).op = "detach" => Head(msgs).inst = None)
<1>1. ASSUME PortsInv, NEW p \in Ports, devices[p] # None, devices'[p] # devices[p], PortDetach
      PROVE  OwnReason(p)
  <2> DEFINE m == Head(msgs)
  <2>1. msgs # <<>> /\ m.op = "detach"
    BY <1>1 DEF PortDetach, Take
  <2>2. PICK q \in Ports : Matches(q, m.id, m.inst) /\ DetachAt(q)
    BY <1>1 DEF PortDetach, register
  <2>3. q = p
    BY <1>1, <2>2, Detaching, Finding
  <2>4. made[devices[p]].id = m.id /\ m.inst \in {None, devices[p]}
    BY <2>2, <2>3 DEF Matches
  <2>5. m = msgs[1] /\ 1 \in 1 .. Len(msgs)
    BY <1>1, <2>1, Taking DEF PortsInv, PortsAgree, TypeOK
  <2>6. m.inst # None => m.inst \in cancelled
    BY <1>1, <2>1, <2>5 DEF PortsInv, MessagesAreTrue
  <2> QED
    BY <2>1, <2>4, <2>6
<1>2. ASSUME PortsInv, NEW p \in Ports, devices[p] # None, devices'[p] # devices[p], PortAttach
      PROVE  OwnReason(p)
  <2>1. msgs # <<>> /\ Head(msgs).op = "attach"
    BY <1>2 DEF PortAttach, Take
  <2>2. PICK q \in Ports : Matches(q, Head(msgs).id, None) /\ DetachAt(q)
    BY <1>2 DEF PortAttach, register
  <2>3. q = p
    BY <1>2, <2>2, Detaching, Finding
  <2> QED
    BY <2>1, <2>2, <2>3, Finding
<1>3. ASSUME PortsInv, NEW p \in Ports, devices[p] # None, PortAttachDevice
      PROVE  devices'[p] = devices[p]
  BY <1>3 DEF PortAttachDevice, Free, register, PortsInv, PortsAgree, TypeOK
<1>4. ASSUME PortsInv, [Next]_vars, NEW p \in Ports, devices[p] # None, devices'[p] # devices[p]
      PROVE  OwnReason(p)
  BY <1>1, <1>2, <1>3, <1>4
     DEF Next, vars, register, PortWorker, PortAnnounce, PortGetDevice, HandleAttach,
         HandleDetach, RequestLaunch, ListenerFires, LauncherOpens, DetachHandler,
         EndpointCloses, EndpointNotices, DriverReads, DriverWrites, DriverLooks,
         InterrupterDies
<1>5. PortsInv /\ [Next]_vars =>
         [\A p \in Ports : devices[p] # None /\ devices'[p] # devices[p] => OwnReason(p)]_vars
  BY <1>4
<1> QED
  BY <1>5, PortsInvariant, PTL DEF Spec, OnlyOwnInstance

=============================================================================
