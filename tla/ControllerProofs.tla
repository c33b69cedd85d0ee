--------------------------- MODULE ControllerProofs ---------------------------
(***************************************************************************)
(* Proofs about Controller for every number of slots, commands and resets: *)
(* the endpoints of a slot fit its state, no announced command is left     *)
(* behind, and a host controller reset leaves nothing from before.         *)
(***************************************************************************)
EXTENDS Controller, SequenceTheorems, FiniteSetTheorems, TLAPS

\* Slots whose endpoints fit their state.
Fitting ==
    {slot \in [st : {"none", "enabled", "default", "addressed", "configured"},
               eps : [Eps -> {"none", "quiet", "busy", "dead"}]] :
        /\ (slot.eps[1] # "none") = (slot.st \in {"default", "addressed", "configured"})
        /\ slot.eps[2] # "none" => slot.st = "configured"}

SlotsFit == slots \in [Slots -> Fitting]

FromCommandWorker(m) == m.op \notin {"doorbell", "resetall"}

\* The command worker has one request with the slot worker at a time, and waits for
\* its answer; a new dequeue pointer is the last one the driver has written.
RequestsAreAwaited ==
    /\ (cmd # None) = (cw = "processing")
    /\ reply # None => cmd.op \notin {"noop", "forceheader"}
    /\ \A i \in 1 .. Len(schan) :
          FromCommandWorker(schan[i]) =>
              /\ reply = "sent"
              /\ \A j \in 1 .. Len(schan) : FromCommandWorker(schan[j]) => i = j
    /\ \A i \in 1 .. Len(cchan) : cchan[i].op = "setdeq" => cchan[i].gen = gen

\* A reset stops everything in the order of the coordinator's walk: its requests are
\* the last in their channels, and what it has passed stays at rest.
ResetInOrder ==
    /\ hcrst => ~rs
    /\ coord \notin {"rearm", "waiting"} => hcrst
    /\ \A i \in 1 .. Len(cchan) :
          cchan[i].op = "reset" => coord = "command" /\ i = Len(cchan)
    /\ coord \in {"interrupter", "slots", "clear"} =>
          cchan = <<>> /\ ~crr /\ cw \in {"stopped", "checking"}
    /\ \A i \in 1 .. Len(schan) :
          schan[i].op = "resetall" => coord = "slots" /\ i = Len(schan)
    /\ coord = "clear" =>
          num = 0 /\ schan = <<>> /\ slots = [s \in Slots |-> NoSlot]

\* The controller runs on a ring that was set up after the last reset.  Between the two
\* the command worker has nothing to do, except to find out that it should stop.
RunsOnNewRing ==
    /\ rs => gen = resets + 1
    /\ gen <= resets + 1 /\ (hcrst => gen <= resets)
    /\ gen <= resets /\ ~hcrst =>
          ~crr /\ cw \in {"stopped", "checking", "dead"} /\ cchan = <<>>

\* A worker that has stopped since it answered a reset works on the driver's ring, or
\* is going to learn of it before anything else.
RingIsCurrent ==
    /\ ~stale /\ cw \in {"idle", "looking", "processing", "stopping"} => crr
    /\ gen = resets + 1 /\ ~stale /\ cw # "dead" /\ cgen # gen =>
          /\ cw = "stopped" \/ (cw = "checking" /\ ~crr)
          /\ cchan # <<>> /\ Head(cchan).op = "setdeq"

\* The inductive invariant.
ControllerInv ==
    /\ TypeOK
    /\ SlotsFit
    /\ RequestsAreAwaited
    /\ ResetInOrder
    /\ RunsOnNewRing
    /\ RingIsCurrent
    /\ NothingLeftBehind

-----------------------------------------------------------------------------
(* Channels and slots *)

\* What is sent comes last.
LEMMA Sending ==
    ASSUME NEW S, NEW s \in Seq(S), NEW m \in S, NEW t, t = Append(s, m)
    PROVE  /\ t \in Seq(S) /\ Len(t) = Len(s) + 1 /\ Len(s) \in Nat
           /\ \A i \in 1 .. Len(s) : t[i] = s[i]
           /\ t[Len(t)] = m
BY AppendProperties

\* What is taken comes first.
LEMMA Taking ==
    ASSUME NEW S, NEW s \in Seq(S), s # <<>>, NEW t, t = Tail(s)
    PROVE  /\ t \in Seq(S) /\ Len(t) = Len(s) - 1 /\ Len(s) \in Nat \ {0}
           /\ Head(s) = s[1] /\ Head(s) \in S
           /\ \A i \in 1 .. Len(t) : t[i] = s[i + 1]
<1>1. Len(s) \in Nat \ {0} /\ Head(s) = s[1] /\ Head(s) \in S
  BY EmptySeq, HeadTailProperties
<1>2. t \in Seq(S) /\ Len(t) = Len(s) - 1 /\ \A i \in 1 .. Len(t) : t[i] = s[i + 1]
  BY HeadTailProperties
<1> QED
  BY <1>1, <1>2

\* An empty slot fits.
LEMMA NoSlotFits == NoSlot \in Fitting /\ NoEps \in [Eps -> {"none", "quiet", "busy", "dead"}]
BY DEF NoSlot, NoEps, Fitting, Eps

\* What a slot request names.
LEMMA SlotRequest ==
    ASSUME NEW m \in SlotMessage
    PROVE  /\ m.op \in {"disable", "resetdevice", "evaluate", "address", "endpoint",
                        "configure", "doorbell"} => m.slot \in Slots
           /\ m.op \in {"address", "endpoint", "doorbell"} => m.arg \in Eps
BY DEF SlotMessage, Command, Eps

\* Slots are numbered from 1.
LEMMA SlotNumbers == 1 \in Slots /\ Slots = 1 .. Cardinality(Slots) /\ Cardinality(Slots) \in Nat
<1>1. Slots = 1 .. Cardinality(Slots) /\ Slots # {} /\ Cardinality(Slots) \in Nat
  BY SlotsAssumption, FS_CardinalityType
<1> QED
  BY <1>1

LEMMA InitController == Init => ControllerInv
<1> SUFFICES ASSUME Init PROVE ControllerInv
  OBVIOUS
<1>1. TypeOK
  <2>1. slots \in [Slots -> [st : {"none", "enabled", "default", "addressed", "configured"},
                             eps : [Eps -> {"none", "quiet", "busy", "dead"}]]]
    BY NoSlotFits DEF Init, Fitting
  <2>2. MaxResets \in Nat
    BY BoundsAssumption
  <2>3. queue \in Seq(Command) /\ cchan \in Seq(CommandMessage) /\ schan \in Seq(SlotMessage)
        /\ Len(queue) = 0
    BY DEF Init
  <2>4. cgen \in 0 .. gen /\ rung \in 0 .. Len(queue) /\ resets \in 0 .. MaxResets /\ gen \in Nat
    BY <2>2, <2>3 DEF Init
  <2> QED
    BY <2>1, <2>3, <2>4 DEF Init, TypeOK
<1>2. SlotsFit
  BY NoSlotFits DEF Init, SlotsFit
<1>3. RequestsAreAwaited /\ ResetInOrder /\ RunsOnNewRing /\ NothingLeftBehind
      /\ RingIsCurrent
  BY DEF Init, RequestsAreAwaited, ResetInOrder, RunsOnNewRing, NothingLeftBehind,
         RingIsCurrent
<1> QED
  BY <1>1, <1>2, <1>3 DEF ControllerInv

-----------------------------------------------------------------------------
(* The command worker *)

\* Messages that stay in the command channel when its first one is taken.
LEMMA CommandTaken ==
    ASSUME ControllerInv, NEW op, TakeMessage(op)
    PROVE  /\ cchan' \in Seq(CommandMessage) /\ Head(cchan) \in CommandMessage
           /\ \A i \in 1 .. Len(cchan') : cchan'[i].op = "setdeq" => cchan'[i].gen = gen
           /\ op = "setdeq" => Head(cchan).gen = gen
           /\ \A i \in 1 .. Len(cchan') :
                 cchan'[i].op = "reset" => coord = "command" /\ i = Len(cchan')
           /\ op = "reset" => coord = "command" /\ cchan' = <<>>
           /\ coord \notin {"interrupter", "slots", "clear"}
           /\ cchan # <<>> /\ Head(cchan).op = op
           /\ op # "doorbell" /\ (\A i \in 1 .. Len(cchan') : cchan'[i].op # "doorbell")
                 => \A i \in 1 .. Len(cchan) : cchan[i].op # "doorbell"
<1>1. cchan \in Seq(CommandMessage) /\ cchan # <<>> /\ Head(cchan).op = op /\ cchan' = Tail(cchan)
  BY DEF ControllerInv, TypeOK, TakeMessage
<1>2. /\ cchan' \in Seq(CommandMessage) /\ Len(cchan') = Len(cchan) - 1
      /\ Len(cchan) \in Nat \ {0}
      /\ Head(cchan) = cchan[1] /\ Head(cchan) \in CommandMessage
      /\ \A i \in 1 .. Len(cchan') : cchan'[i] = cchan[i + 1]
  BY <1>1, Taking
<1>3. \A i \in 1 .. Len(cchan') : i + 1 \in 1 .. Len(cchan)
  BY <1>2
<1>4. 1 \in 1 .. Len(cchan)
  BY <1>2
<1>5. /\ \A i \in 1 .. Len(cchan') : cchan'[i].op = "setdeq" => cchan'[i].gen = gen
      /\ op = "setdeq" => Head(cchan).gen = gen
  BY <1>1, <1>2, <1>3, <1>4 DEF ControllerInv, RequestsAreAwaited
<1>6. /\ \A i \in 1 .. Len(cchan') :
            cchan'[i].op = "reset" => coord = "command" /\ i = Len(cchan')
      /\ op = "reset" => coord = "command" /\ Len(cchan) = 1
      /\ coord \notin {"interrupter", "slots", "clear"}
  <2>1. ASSUME NEW i \in 1 .. Len(cchan'), cchan'[i].op = "reset"
        PROVE  coord = "command" /\ i = Len(cchan')
    <3>1. cchan[i + 1].op = "reset" /\ i + 1 \in 1 .. Len(cchan)
      BY <1>2, <1>3, <2>1
    <3>2. coord = "command" /\ i + 1 = Len(cchan)
      BY <3>1 DEF ControllerInv, ResetInOrder
    <3> QED
      BY <1>2, <3>2
  <2>2. op = "reset" => coord = "command" /\ 1 = Len(cchan)
    BY <1>1, <1>2, <1>4 DEF ControllerInv, ResetInOrder
  <2>3. coord \notin {"interrupter", "slots", "clear"}
    BY <1>1 DEF ControllerInv, ResetInOrder
  <2> QED
    BY <2>1, <2>2, <2>3
<1>7. ASSUME op = "reset" PROVE cchan' = <<>>
  <2>1. Len(cchan) = 1
    BY <1>6, <1>7
  <2>2. Len(cchan') = 0 /\ cchan' \in Seq(CommandMessage)
    BY <1>2, <2>1
  <2> QED
    BY <2>2, EmptySeq
<1>8. op # "doorbell" /\ (\A i \in 1 .. Len(cchan') : cchan'[i].op # "doorbell")
         => \A i \in 1 .. Len(cchan) : cchan[i].op # "doorbell"
  <2> SUFFICES ASSUME op # "doorbell", \A i \in 1 .. Len(cchan') : cchan'[i].op # "doorbell",
                      NEW i \in 1 .. Len(cchan)
               PROVE  cchan[i].op # "doorbell"
    OBVIOUS
  <2>1. CASE i = 1
    BY <1>1, <1>2, <2>1
  <2>2. CASE i # 1
    <3>1. i - 1 \in 1 .. Len(cchan') /\ (i - 1) + 1 = i
      BY <1>2, <2>2
    <3> QED
      BY <1>2, <3>1
  <2> QED
    BY <2>1, <2>2
<1> QED
  BY <1>1, <1>2, <1>5, <1>6, <1>7, <1>8

LEMMA CommandTakes ==
    ASSUME ControllerInv,
           CommandReset \/ CommandSetDequeuePointer \/ CommandDoorbell \/ CommandStop
    PROVE  ControllerInv'
<1> USE DEF ControllerInv
<1>1. CASE CommandReset
  <2>1. TakeMessage("reset") /\ cw \in {"stopped", "idle", "looking"}
    BY <1>1 DEF CommandReset
  <2>2. coord = "command" /\ cchan' = <<>> /\ cchan' \in Seq(CommandMessage)
    BY <2>1, CommandTaken
  <2>3. /\ crr' = FALSE /\ coord' = "interrupter" /\ cw' \in {"stopped", "checking"}
        /\ stale' = FALSE /\ UNCHANGED <<usbcmd, cgen, cmd, reply, slotmgr, driver, interrupter>>
    BY <1>1 DEF CommandReset
  <2>4. TypeOK'
    BY <2>2, <2>3 DEF TypeOK, usbcmd, slotmgr, driver
  <2>8. hcrst /\ gen <= resets /\ gen \in Nat /\ resets \in Nat
    BY <2>2 DEF ResetInOrder, RunsOnNewRing, TypeOK
  <2>5. SlotsFit' /\ RunsOnNewRing' /\ NothingLeftBehind' /\ RingIsCurrent'
    BY <2>3, <2>8 DEF SlotsFit, RunsOnNewRing, NothingLeftBehind, NoDoorbell, RingIsCurrent,
       usbcmd, slotmgr, driver
  <2>6. RequestsAreAwaited'
    BY <2>1, <2>2, <2>3 DEF RequestsAreAwaited, usbcmd, slotmgr, driver
  <2>7. ResetInOrder'
    BY <2>2, <2>3 DEF ResetInOrder, usbcmd, slotmgr, driver
  <2> QED
    BY <2>4, <2>5, <2>6, <2>7
<1>2. CASE CommandSetDequeuePointer
  <2>1. TakeMessage("setdeq") /\ cw \in {"stopped", "idle", "looking"}
    BY <1>2 DEF CommandSetDequeuePointer
  <2>2. /\ cgen' = IF cw = "stopped" THEN Head(cchan).gen ELSE cgen
        /\ UNCHANGED <<usbcmd, coord, crr, cw, cmd, reply, stale, slotmgr, driver, interrupter>>
    BY <1>2 DEF CommandSetDequeuePointer
  <2>3. cgen' \in 0 .. gen
    <3>1. Head(cchan).gen = gen
      BY <2>1, CommandTaken
    <3> QED
      BY <2>2, <3>1 DEF TypeOK
  <2>4. TypeOK'
    BY <2>1, <2>2, <2>3, CommandTaken DEF TypeOK, usbcmd, slotmgr, driver
  <2>5. SlotsFit' /\ RunsOnNewRing'
    BY <2>1, <2>2 DEF SlotsFit, RunsOnNewRing, TakeMessage, usbcmd, slotmgr, driver
  <2>6. NothingLeftBehind' /\ RingIsCurrent'
    <3>1. Head(cchan).gen = gen
      BY <2>1, CommandTaken
    <3> QED
      BY <2>1, <2>2, <3>1, CommandTaken DEF NothingLeftBehind, NoDoorbell, RingIsCurrent, driver
  <2>7. RequestsAreAwaited' /\ ResetInOrder'
    BY <2>1, <2>2, CommandTaken DEF RequestsAreAwaited, ResetInOrder, usbcmd, slotmgr, driver
  <2> QED
    BY <2>4, <2>5, <2>6, <2>7
<1>3. CASE CommandDoorbell
  <2>1. TakeMessage("doorbell") /\ cw \in {"stopped", "idle", "looking"}
    BY <1>3 DEF CommandDoorbell
  <2>2. /\ \/ cw' = "stopped" /\ cw = "stopped" /\ crr' = crr
           \/ cw' = "looking" /\ crr' = (crr \/ cw = "stopped") /\ crr' \in BOOLEAN
        /\ UNCHANGED <<usbcmd, coord, cgen, stale, cmd, reply, slotmgr, driver, interrupter>>
    BY <1>3 DEF CommandDoorbell, TypeOK
  <2>4. TypeOK'
    BY <2>1, <2>2, CommandTaken DEF TypeOK, usbcmd, slotmgr, driver
  <2>5. SlotsFit' /\ RunsOnNewRing' /\ NothingLeftBehind' /\ RingIsCurrent'
    BY <2>1, <2>2, CommandTaken DEF SlotsFit, RunsOnNewRing, NothingLeftBehind, NoDoorbell,
       RingIsCurrent, usbcmd,
                      slotmgr, driver
  <2>7. RequestsAreAwaited' /\ ResetInOrder'
    BY <2>1, <2>2, CommandTaken DEF RequestsAreAwaited, ResetInOrder, usbcmd, slotmgr, driver
  <2> QED
    BY <2>4, <2>5, <2>7
<1>4. CASE CommandStop
  <2>1. TakeMessage("stop") /\ cw \in {"stopped", "idle", "looking"}
    BY <1>4 DEF CommandStop
  <2>2. /\ cw' = IF cw = "stopped" THEN cw ELSE "stopping"
        /\ UNCHANGED <<usbcmd, coord, crr, cgen, stale, cmd, reply, slotmgr, driver, interrupter>>
    BY <1>4 DEF CommandStop
  <2>4. TypeOK'
    BY <2>1, <2>2, CommandTaken DEF TypeOK, usbcmd, slotmgr, driver
  <2>5. SlotsFit' /\ RunsOnNewRing' /\ NothingLeftBehind' /\ RingIsCurrent'
    BY <2>1, <2>2, CommandTaken DEF SlotsFit, RunsOnNewRing, NothingLeftBehind, NoDoorbell,
       RingIsCurrent, usbcmd,
                      slotmgr, driver
  <2>7. RequestsAreAwaited' /\ ResetInOrder'
    BY <2>1, <2>2, CommandTaken DEF RequestsAreAwaited, ResetInOrder, usbcmd, slotmgr, driver
  <2> QED
    BY <2>4, <2>5, <2>7
<1> QED
  BY <1>1, <1>2, <1>3, <1>4

LEMMA CommandGoesOn ==
    ASSUME ControllerInv, CommandDrained \/ CommandChecks
    PROVE  ControllerInv'
<1> USE DEF ControllerInv
<1>1. CASE CommandDrained
  <2>1. /\ cw = "looking" /\ cw' = "checking"
        /\ UNCHANGED <<usbcmd, coord, crr, cchan, cgen, stale, cmd, reply, slotmgr, driver,
                       interrupter>>
    BY <1>1 DEF CommandDrained
  <2>2. TypeOK'
    BY <2>1 DEF TypeOK, usbcmd, slotmgr, driver
  <2>3. SlotsFit' /\ RunsOnNewRing' /\ NothingLeftBehind' /\ RingIsCurrent'
        /\ RequestsAreAwaited' /\ ResetInOrder'
    BY <2>1 DEF SlotsFit, RunsOnNewRing, NothingLeftBehind, NoDoorbell, RingIsCurrent,
       RequestsAreAwaited, ResetInOrder,
                usbcmd, slotmgr, driver
  <2> QED
    BY <2>2, <2>3
<1>2. CASE CommandChecks
  <2>1. /\ cw = "checking" /\ cmd = None /\ reply = None
        /\ UNCHANGED <<usbcmd, coord, crr, cchan, cgen, reply, slotmgr, driver, interrupter>>
    BY <1>2 DEF CommandChecks, RequestsAreAwaited, TypeOK
  <2>2. CASE ~rs
    <3>1. cw' = "stopped" /\ cmd' = cmd /\ stale' = stale
      BY <1>2, <2>2 DEF CommandChecks
    <3>2. TypeOK'
      BY <2>1, <3>1 DEF TypeOK, usbcmd, slotmgr, driver
    <3>3. SlotsFit' /\ RunsOnNewRing' /\ RequestsAreAwaited' /\ ResetInOrder'
      BY <2>1, <3>1 DEF SlotsFit, RunsOnNewRing, RequestsAreAwaited, ResetInOrder, usbcmd,
                  slotmgr, driver
    <3>4. NothingLeftBehind' /\ RingIsCurrent'
      BY <2>1, <3>1 DEF NothingLeftBehind, RingIsCurrent, driver
    <3> QED
      BY <3>2, <3>3, <3>4
  <2>3. CASE rs
    <3>1. /\ cmd' \in NextTrb /\ cw' = IF cmd' = None THEN "idle" ELSE "processing"
          /\ stale' = (stale \/ ~crr) /\ stale' \in BOOLEAN
      BY <1>2, <2>3 DEF CommandChecks, TypeOK
    <3>2. cmd' \in Command \cup {None}
      BY <3>1, Taking DEF NextTrb, Issued, TypeOK
    <3>3. TypeOK'
      BY <2>1, <3>1, <3>2 DEF TypeOK, usbcmd, slotmgr, driver
    <3>4. coord \notin {"interrupter", "slots", "clear"} /\ gen = resets + 1 /\ ~(gen <= resets)
      BY <2>3 DEF ResetInOrder, RunsOnNewRing, TypeOK
    <3>5. SlotsFit' /\ RunsOnNewRing'
      BY <2>1, <3>4 DEF SlotsFit, RunsOnNewRing, usbcmd, slotmgr, driver
    <3>6. RequestsAreAwaited' /\ ResetInOrder'
      BY <2>1, <3>1, <3>4 DEF RequestsAreAwaited, ResetInOrder, usbcmd, slotmgr, driver
    <3>7. ~stale' => ~stale /\ crr /\ cgen = gen
      BY <2>1, <3>1, <3>4 DEF RingIsCurrent
    <3>8. ~stale' /\ cw' = "idle" => rung = 0
      <4>1. ASSUME ~stale', cw' = "idle" PROVE cmd' = None /\ cmd' \notin Command
        BY <3>1, <4>1, NoneAssumption
      <4>2. ASSUME ~stale', cw' = "idle" PROVE queue = <<>>
        BY <3>1, <3>7, <4>1, <4>2, Taking DEF NextTrb, TypeOK
      <4> QED
        BY <4>2 DEF TypeOK
    <3>9. NothingLeftBehind' /\ RingIsCurrent'
      BY <2>1, <3>7, <3>8 DEF NothingLeftBehind, RingIsCurrent, driver
    <3> QED
      BY <3>3, <3>5, <3>6, <3>9
  <2> QED
    BY <2>2, <2>3
<1> QED
  BY <1>1, <1>2

\* The end of the command worker leaves nothing that could be answered.
LEMMA CommandEnds ==
    ASSUME ControllerInv, cw \in {"processing", "stopping"}, CommandDies, crr' \in {crr, FALSE},
           \A i \in 1 .. Len(schan) : ~FromCommandWorker(schan[i])
    PROVE  ControllerInv'
<1> USE DEF ControllerInv
<1>1. /\ cw' = "dead" /\ cchan' = <<>> /\ cmd' = None /\ reply' = None
      /\ coord' = IF coord = "command" THEN "rearm" ELSE coord
      /\ UNCHANGED <<usbcmd, cgen, stale, slotmgr, driver, interrupter>>
  BY DEF CommandDies
<1>2. coord \notin {"interrupter", "slots", "clear"}
  BY DEF ResetInOrder
<1>3. cchan' \in Seq(CommandMessage) /\ Len(cchan') = 0
  BY <1>1
<1>4. TypeOK'
  BY <1>1, <1>3 DEF TypeOK, usbcmd, slotmgr, driver
<1>5. SlotsFit' /\ RunsOnNewRing' /\ NothingLeftBehind' /\ RingIsCurrent'
  BY <1>1 DEF SlotsFit, RunsOnNewRing, NothingLeftBehind, RingIsCurrent, usbcmd, slotmgr, driver
<1>6. RequestsAreAwaited'
  BY <1>1, <1>3 DEF RequestsAreAwaited, slotmgr
<1>7. ResetInOrder'
  BY <1>1, <1>2, <1>3 DEF ResetInOrder, usbcmd, slotmgr
<1> QED
  BY <1>4, <1>5, <1>6, <1>7

LEMMA CommandStops ==
    ASSUME ControllerInv, CommandStopped
    PROVE  ControllerInv'
<1> USE DEF ControllerInv
<1>1. cw = "stopping" /\ crr' = FALSE
  BY DEF CommandStopped
<1>2. CASE ~interrupter
  <2>1. cmd = None /\ reply = None
    BY <1>1 DEF RequestsAreAwaited, TypeOK
  <2>2. \A i \in 1 .. Len(schan) : ~FromCommandWorker(schan[i])
    BY <2>1, NoneAssumption DEF RequestsAreAwaited
  <2>3. CommandDies
    BY <1>2 DEF CommandStopped
  <2> QED
    BY <1>1, <2>2, <2>3, CommandEnds
<1>3. CASE interrupter
  <2>1. /\ cw' = "stopped"
        /\ UNCHANGED <<usbcmd, coord, cchan, cgen, stale, cmd, reply, slotmgr, driver,
                       interrupter>>
    BY <1>3 DEF CommandStopped
  <2>2. TypeOK'
    BY <1>1, <2>1 DEF TypeOK, usbcmd, slotmgr, driver
  <2>3. SlotsFit' /\ RunsOnNewRing' /\ RequestsAreAwaited' /\ ResetInOrder'
    BY <1>1, <2>1 DEF SlotsFit, RunsOnNewRing, RequestsAreAwaited, ResetInOrder, usbcmd,
                slotmgr, driver
  <2>4. NothingLeftBehind' /\ RingIsCurrent'
    BY <1>1, <2>1 DEF NothingLeftBehind, RingIsCurrent, driver
  <2> QED
    BY <2>2, <2>3, <2>4
<1> QED
  BY <1>2, <1>3

LEMMA CommandProcesses ==
    ASSUME ControllerInv, CommandSends \/ CommandCompletes
    PROVE  ControllerInv'
<1> USE DEF ControllerInv
<1>1. cw = "processing" /\ cmd # None /\ coord \notin {"interrupter", "slots", "clear"}
  BY DEF CommandSends, CommandCompletes, RequestsAreAwaited, ResetInOrder
<1>2. reply # "sent" => \A i \in 1 .. Len(schan) : ~FromCommandWorker(schan[i])
  BY DEF RequestsAreAwaited
<1>3. CASE CommandSends
  <2>1. /\ reply = None /\ reply # "sent" /\ cmd \in Command
        /\ cmd.op \notin {"noop", "forceheader"} /\ crr' = crr
    BY <1>1, <1>3, NoneAssumption DEF CommandSends, TypeOK
  <2>2. CASE sw = "dead"
    BY <1>1, <1>2, <1>3, <2>1, <2>2, CommandEnds DEF CommandSends
  <2>3. CASE sw # "dead"
    <3>1. /\ schan' = Append(schan, cmd) /\ reply' = "sent"
          /\ UNCHANGED <<usbcmd, coord, crr, cw, cchan, cgen, stale, cmd, sw, num, slots,
                         driver, interrupter>>
      BY <1>3, <2>3 DEF CommandSends
    <3>2. cmd \in SlotMessage /\ cmd.op # "resetall" /\ schan \in Seq(SlotMessage)
      BY <2>1 DEF SlotMessage, Command, TypeOK
    <3>3. /\ schan' \in Seq(SlotMessage) /\ Len(schan') = Len(schan) + 1 /\ Len(schan) \in Nat
          /\ \A i \in 1 .. Len(schan) : schan'[i] = schan[i]
          /\ schan'[Len(schan')] = cmd
      BY <3>1, <3>2, Sending
    <3>4. TypeOK'
      BY <1>1, <3>1, <3>3 DEF TypeOK, usbcmd, driver
    <3>5. SlotsFit' /\ RunsOnNewRing' /\ NothingLeftBehind' /\ RingIsCurrent'
      BY <3>1 DEF SlotsFit, RunsOnNewRing, NothingLeftBehind, NoDoorbell, RingIsCurrent, usbcmd,
         driver
    <3>6. \A i \in 1 .. Len(schan') :
             FromCommandWorker(schan'[i]) \/ schan'[i].op = "resetall" => i = Len(schan')
                                                    /\ schan'[i].op # "resetall"
      <4>1. TAKE i \in 1 .. Len(schan')
      <4>2. CASE i = Len(schan')
        BY <3>2, <3>3, <4>2
      <4>3. CASE i # Len(schan')
        <5>1. i \in 1 .. Len(schan) /\ schan'[i] = schan[i]
          BY <3>3, <4>3
        <5>2. ~FromCommandWorker(schan[i])
          BY <1>2, <2>1, <5>1
        <5>3. coord # "slots" => schan[i].op # "resetall"
          BY <5>1 DEF ResetInOrder
        <5> QED
          BY <1>1, <5>1, <5>2, <5>3
      <4> QED
        BY <4>2, <4>3
    <3>7. RequestsAreAwaited'
      BY <1>1, <2>1, <3>1, <3>3, <3>6 DEF RequestsAreAwaited, driver
    <3>8. ResetInOrder'
      BY <1>1, <3>1, <3>6 DEF ResetInOrder, usbcmd
    <3> QED
      BY <3>4, <3>5, <3>7, <3>8
  <2> QED
    BY <2>2, <2>3
<1>4. CASE CommandCompletes
  <2>1. /\ crr' = crr
        /\ reply \in {"answered", "dropped"} \/ cmd.op \in {"noop", "forceheader"}
    BY <1>4 DEF CommandCompletes
  <2>2. \A i \in 1 .. Len(schan) : ~FromCommandWorker(schan[i])
    BY <1>2, <2>1, NoneAssumption DEF RequestsAreAwaited
  <2>3. CASE ~Completed
    BY <1>1, <1>4, <2>1, <2>2, <2>3, CommandEnds DEF CommandCompletes
  <2>4. CASE Completed
    <3>1. /\ IF cgen = gen /\ queue # <<>>
             THEN queue' = Tail(queue) /\ rung' = IF rung = 0 THEN 0 ELSE rung - 1
             ELSE UNCHANGED <<queue, rung>>
          /\ cw' = "looking" /\ cmd' = None /\ reply' = None
          /\ UNCHANGED <<usbcmd, coord, cchan, cgen, stale, slotmgr, gen, resets, interrupter>>
      BY <1>4, <2>4 DEF CommandCompletes
    <3>2. queue' \in Seq(Command) /\ rung' \in 0 .. Len(queue')
      <4>1. CASE cgen = gen /\ queue # <<>>
        <5>1. /\ queue' \in Seq(Command) /\ Len(queue') = Len(queue) - 1
              /\ Len(queue) \in Nat \ {0}
          BY <3>1, <4>1, Taking DEF TypeOK
        <5>2. rung' = (IF rung = 0 THEN 0 ELSE rung - 1) /\ rung \in 0 .. Len(queue)
          BY <3>1, <4>1 DEF TypeOK
        <5> QED
          BY <5>1, <5>2
      <4>2. CASE ~(cgen = gen /\ queue # <<>>)
        BY <3>1, <4>2 DEF TypeOK
      <4> QED
        BY <4>1, <4>2
    <3>3. TypeOK'
      BY <2>1, <3>1, <3>2 DEF TypeOK, usbcmd, slotmgr
    <3>4. SlotsFit' /\ RunsOnNewRing' /\ RequestsAreAwaited' /\ ResetInOrder'
      BY <1>1, <2>1, <2>2, <3>1 DEF SlotsFit, RunsOnNewRing, RequestsAreAwaited, ResetInOrder,
                  usbcmd, slotmgr
    <3>5. NothingLeftBehind' /\ RingIsCurrent'
      BY <1>1, <2>1, <3>1 DEF NothingLeftBehind, RingIsCurrent
    <3> QED
      BY <3>3, <3>4, <3>5
  <2> QED
    BY <2>3, <2>4
<1> QED
  BY <1>3, <1>4

LEMMA CommandSteps ==
    ASSUME ControllerInv, CommandNext
    PROVE  ControllerInv'
BY CommandTakes, CommandGoesOn, CommandProcesses, CommandStops DEF CommandNext

-----------------------------------------------------------------------------
(* The reset coordinator *)

LEMMA CoordinatorSteps ==
    ASSUME ControllerInv, CoordinatorNext
    PROVE  ControllerInv'
<1> USE DEF ControllerInv
<1>1. CASE CoordinatorWaits
  <2>1. coord = "rearm" /\ coord' = "waiting" /\ UNCHANGED <<usbcmd, command, slotmgr, driver,
                                                             interrupter>>
    BY <1>1 DEF CoordinatorWaits
  <2>2. TypeOK'
    BY <2>1 DEF TypeOK, usbcmd, command, slotmgr, driver
  <2>3. SlotsFit' /\ RunsOnNewRing' /\ NothingLeftBehind' /\ RingIsCurrent'
        /\ RequestsAreAwaited' /\ ResetInOrder'
    BY <2>1 DEF SlotsFit, RunsOnNewRing, NothingLeftBehind, NoDoorbell, RingIsCurrent,
       RequestsAreAwaited, ResetInOrder,
                usbcmd, command, slotmgr, driver
  <2> QED
    BY <2>2, <2>3
<1>2. CASE CoordinatorStarts
  <2> DEFINE m == [op |-> "reset", gen |-> 0]
  <2>1. coord = "awake" /\ UNCHANGED <<usbcmd, crr, cw, cgen, stale, cmd, reply, slotmgr,
                                       driver, interrupter>>
    BY <1>2 DEF CoordinatorStarts
  <2>2. CASE hcrst /\ coord' = "command" /\ cchan' = Append(cchan, m)
    <3>1. m \in CommandMessage /\ cchan \in Seq(CommandMessage)
      BY DEF CommandMessage, TypeOK
    <3>2. /\ cchan' \in Seq(CommandMessage) /\ Len(cchan') = Len(cchan) + 1 /\ Len(cchan) \in Nat
          /\ \A i \in 1 .. Len(cchan) : cchan'[i] = cchan[i]
          /\ cchan'[Len(cchan')] = m
      BY <2>2, <3>1, Sending
    <3>3. TypeOK'
      BY <2>1, <2>2, <3>2 DEF TypeOK, usbcmd, slotmgr, driver
    <3>4. \A i \in 1 .. Len(cchan') :
             /\ i # Len(cchan') => i \in 1 .. Len(cchan) /\ cchan'[i] = cchan[i]
             /\ i = Len(cchan') => cchan'[i].op = "reset"
      BY <3>2
    <3>5. SlotsFit' /\ RunsOnNewRing'
      BY <2>1, <2>2 DEF SlotsFit, RunsOnNewRing, usbcmd, slotmgr, driver
    <3>6. NothingLeftBehind' /\ RingIsCurrent'
      <4>1. \A i \in 1 .. Len(cchan) : i \in 1 .. Len(cchan') /\ cchan'[i] = cchan[i]
        BY <3>2
      <4> QED
        BY <2>1, <2>2, <4>1 DEF NothingLeftBehind, NoDoorbell, RingIsCurrent, RunsOnNewRing,
           TypeOK,
                    driver
    <3>7. RequestsAreAwaited'
      BY <2>1, <3>4 DEF RequestsAreAwaited, slotmgr, driver
    <3>8. ResetInOrder'
      BY <2>1, <2>2, <3>4 DEF ResetInOrder, usbcmd, slotmgr
    <3> QED
      BY <3>3, <3>5, <3>6, <3>7, <3>8
  <2>3. CASE coord' = "rearm" /\ UNCHANGED cchan
    <3>1. TypeOK'
      BY <2>1, <2>3 DEF TypeOK, usbcmd, slotmgr, driver
    <3>2. SlotsFit' /\ RunsOnNewRing' /\ NothingLeftBehind' /\ RingIsCurrent'
          /\ RequestsAreAwaited' /\ ResetInOrder'
      BY <2>1, <2>3 DEF SlotsFit, RunsOnNewRing, NothingLeftBehind, NoDoorbell, RingIsCurrent,
         RequestsAreAwaited,
                  ResetInOrder, usbcmd, slotmgr, driver
    <3> QED
      BY <3>1, <3>2
  <2> QED
    BY <1>2, <2>2, <2>3 DEF CoordinatorStarts
<1>3. CASE CoordinatorResetsSlots
  <2> DEFINE m == [op |-> "resetall", slot |-> 0, arg |-> 0]
  <2>1. coord = "interrupter" /\ UNCHANGED <<usbcmd, command, sw, num, slots, driver,
                                             interrupter>>
    BY <1>3 DEF CoordinatorResetsSlots
  <2>2. CASE coord' = "slots" /\ schan' = Append(schan, m)
    <3>1. m \in SlotMessage /\ schan \in Seq(SlotMessage) /\ ~FromCommandWorker(m)
      BY DEF SlotMessage, TypeOK, FromCommandWorker
    <3>2. /\ schan' \in Seq(SlotMessage) /\ Len(schan') = Len(schan) + 1 /\ Len(schan) \in Nat
          /\ \A i \in 1 .. Len(schan) : schan'[i] = schan[i]
          /\ schan'[Len(schan')] = m
      BY <2>2, <3>1, Sending
    <3>3. TypeOK'
      BY <2>1, <2>2, <3>2 DEF TypeOK, usbcmd, command, driver
    <3>4. \A i \in 1 .. Len(schan') :
             /\ i # Len(schan') => i \in 1 .. Len(schan) /\ schan'[i] = schan[i]
             /\ i = Len(schan') => schan'[i].op = "resetall" /\ ~FromCommandWorker(schan'[i])
      BY <3>1, <3>2
    <3>5. SlotsFit' /\ RunsOnNewRing' /\ NothingLeftBehind' /\ RingIsCurrent'
      BY <2>1 DEF SlotsFit, RunsOnNewRing, NothingLeftBehind, NoDoorbell, RingIsCurrent, usbcmd,
         command, driver
    <3>7. RequestsAreAwaited'
      BY <2>1, <3>4 DEF RequestsAreAwaited, command, driver
    <3>8. ResetInOrder'
      BY <2>1, <2>2, <3>4 DEF ResetInOrder, usbcmd, command
    <3> QED
      BY <3>3, <3>5, <3>7, <3>8
  <2>3. CASE coord' = "rearm" /\ UNCHANGED schan
    <3>1. TypeOK'
      BY <2>1, <2>3 DEF TypeOK, usbcmd, command, driver
    <3>2. SlotsFit' /\ RunsOnNewRing' /\ NothingLeftBehind' /\ RingIsCurrent'
          /\ RequestsAreAwaited' /\ ResetInOrder'
      BY <2>1, <2>3 DEF SlotsFit, RunsOnNewRing, NothingLeftBehind, NoDoorbell, RingIsCurrent,
         RequestsAreAwaited,
                  ResetInOrder, usbcmd, command, driver
    <3> QED
      BY <3>1, <3>2
  <2> QED
    BY <1>3, <2>2, <2>3 DEF CoordinatorResetsSlots
<1>4. CASE CoordinatorClears
  <2>1. /\ coord = "clear" /\ coord' = "rearm" /\ hcrst' = FALSE
        /\ UNCHANGED <<rs, command, slotmgr, driver, interrupter>>
    BY <1>4 DEF CoordinatorClears
  <2>2. TypeOK'
    BY <2>1 DEF TypeOK, command, slotmgr, driver
  <2>3. SlotsFit' /\ RunsOnNewRing' /\ NothingLeftBehind' /\ RingIsCurrent'
        /\ RequestsAreAwaited' /\ ResetInOrder'
    BY <2>1 DEF SlotsFit, RunsOnNewRing, NothingLeftBehind, NoDoorbell, RingIsCurrent,
       RequestsAreAwaited, ResetInOrder,
                command, slotmgr, driver
  <2> QED
    BY <2>2, <2>3
<1> QED
  BY <1>1, <1>2, <1>3, <1>4 DEF CoordinatorNext

-----------------------------------------------------------------------------
(* The slot worker *)

\* What the slot worker takes, and what is left in its channel.
LEMMA SlotTaken ==
    ASSUME ControllerInv, schan # <<>>
    PROVE  /\ schan \in Seq(SlotMessage) /\ Head(schan) \in SlotMessage
           /\ Tail(schan) \in Seq(SlotMessage)
           /\ FromCommandWorker(Head(schan)) =>
                 /\ reply = "sent"
                 /\ \A i \in 1 .. Len(Tail(schan)) : ~FromCommandWorker(Tail(schan)[i])
           /\ \A i \in 1 .. Len(Tail(schan)) :
                 /\ FromCommandWorker(Tail(schan)[i]) =>
                       /\ reply = "sent"
                       /\ \A j \in 1 .. Len(Tail(schan)) : FromCommandWorker(Tail(schan)[j]) => i = j
                 /\ Tail(schan)[i].op = "resetall" => coord = "slots" /\ i = Len(Tail(schan))
           /\ Head(schan).op = "resetall" => coord = "slots" /\ Tail(schan) = <<>>
           /\ coord # "clear"
<1> DEFINE t == Tail(schan)
<1>1. schan \in Seq(SlotMessage)
  BY DEF ControllerInv, TypeOK
<1>2. /\ t \in Seq(SlotMessage) /\ Len(t) = Len(schan) - 1 /\ Len(schan) \in Nat \ {0}
      /\ Head(schan) = schan[1] /\ Head(schan) \in SlotMessage
      /\ \A i \in 1 .. Len(t) : t[i] = schan[i + 1]
  BY <1>1, Taking
<1>3. 1 \in 1 .. Len(schan)
  BY <1>2
<1>4. \A i \in 1 .. Len(t) : i + 1 \in 1 .. Len(schan) /\ i + 1 # 1
  BY <1>2
<1> HIDE DEF t
<1>5. ASSUME FromCommandWorker(Head(schan))
      PROVE  reply = "sent" /\ \A i \in 1 .. Len(t) : ~FromCommandWorker(t[i])
  <2>1. \A j \in 1 .. Len(schan) : FromCommandWorker(schan[j]) => 1 = j
    BY <1>2, <1>3, <1>5 DEF ControllerInv, RequestsAreAwaited
  <2> QED
    BY <1>2, <1>3, <1>4, <1>5, <2>1 DEF ControllerInv, RequestsAreAwaited
<1>6. ASSUME NEW i \in 1 .. Len(t), FromCommandWorker(t[i])
      PROVE  /\ reply = "sent"
             /\ \A j \in 1 .. Len(t) : FromCommandWorker(t[j]) => i = j
  <2>1. /\ reply = "sent"
        /\ \A j \in 1 .. Len(schan) : FromCommandWorker(schan[j]) => i + 1 = j
    BY <1>2, <1>4, <1>6 DEF ControllerInv, RequestsAreAwaited
  <2>2. ASSUME NEW j \in 1 .. Len(t), FromCommandWorker(t[j])
        PROVE  i = j
    <3>1. i + 1 = j + 1
      BY <1>2, <1>4, <2>1, <2>2
    <3> QED
      BY <3>1
  <2> QED
    BY <2>1, <2>2
<1>7. ASSUME NEW i \in 1 .. Len(t), t[i].op = "resetall"
      PROVE  coord = "slots" /\ i = Len(t)
  <2>1. coord = "slots" /\ i + 1 = Len(schan)
    BY <1>2, <1>4, <1>7 DEF ControllerInv, ResetInOrder
  <2> QED
    BY <1>2, <2>1
<1>8. ASSUME Head(schan).op = "resetall"
      PROVE  coord = "slots" /\ t = <<>>
  <2>1. coord = "slots" /\ 1 = Len(schan)
    BY <1>2, <1>3, <1>8 DEF ControllerInv, ResetInOrder
  <2>2. Len(t) = Len(schan) - 1 /\ t \in Seq(SlotMessage)
    BY <1>2
  <2>3. Len(t) = 0
    BY <2>1, <2>2
  <2> QED
    BY <2>1, <2>2, <2>3, EmptySeq
<1>9. coord # "clear"
  BY DEF ControllerInv, ResetInOrder
<1> QED
  BY <1>1, <1>2, <1>5, <1>6, <1>7, <1>8, <1>9 DEF t

\* The end of the slot worker.
LEMMA SlotWorkerEnds ==
    ASSUME ControllerInv, schan # <<>>, SlotWorkerDies, num' \in {0, num},
           UNCHANGED <<usbcmd, crr, cw, cchan, cgen, stale, cmd, driver, interrupter>>
    PROVE  ControllerInv'
<1> USE DEF ControllerInv
<1>1. /\ sw' = "dead" /\ schan' = <<>>
      /\ reply' = IF reply = "sent" THEN "dropped" ELSE reply
      /\ coord' = IF coord = "slots" THEN "rearm" ELSE coord
      /\ slots' = [s \in Slots |-> NoSlot]
  BY DEF SlotWorkerDies
<1>2. coord # "clear"
  BY SlotTaken
<1>3. schan' \in Seq(SlotMessage) /\ Len(schan') = 0
  BY <1>1
<1>4. SlotsFit'
  BY <1>1, NoSlotFits DEF SlotsFit
<1>5. TypeOK'
  <2>1. slots' \in [Slots -> [st : {"none", "enabled", "default", "addressed", "configured"},
                              eps : [Eps -> {"none", "quiet", "busy", "dead"}]]]
    BY <1>4 DEF SlotsFit, Fitting
  <2>2. reply' \in {None, "sent", "answered", "dropped"} /\ (reply' # None => cmd' # None)
    BY <1>1, NoneAssumption DEF TypeOK
  <2> QED
    BY <1>1, <1>3, <2>1, <2>2 DEF TypeOK, usbcmd, driver
<1>6. RunsOnNewRing' /\ NothingLeftBehind' /\ RingIsCurrent'
  BY DEF RunsOnNewRing, NothingLeftBehind, NoDoorbell, RingIsCurrent, usbcmd, driver
<1>7. RequestsAreAwaited'
  BY <1>1, <1>3, NoneAssumption DEF RequestsAreAwaited, driver
<1>8. ResetInOrder'
  BY <1>1, <1>2, <1>3 DEF ResetInOrder, usbcmd
<1> QED
  BY <1>4, <1>5, <1>6, <1>7, <1>8

\* A request has been dealt with; one of the command worker is now answered or dropped.
LEMMA RequestIsDone ==
    ASSUME ControllerInv, schan # <<>>, Head(schan).op # "resetall",
           NEW s \in Slots, NEW slot \in Fitting,
           slots' = [slots EXCEPT ![s] = slot],
           schan' = Tail(schan),
           \/ reply' = reply
           \/ FromCommandWorker(Head(schan)) /\ reply' \in {"answered", "dropped"},
           FromCommandWorker(Head(schan)) => reply' # reply,
           UNCHANGED <<sw, coord, usbcmd, crr, cw, cchan, cgen, stale, cmd, num, driver,
                       interrupter>>
    PROVE  ControllerInv'
<1> USE DEF ControllerInv
<1>1. SlotsFit'
  BY DEF SlotsFit
<1>2. reply' \in {None, "sent", "answered", "dropped"} /\ (reply' # None => cmd' # None)
  BY SlotTaken, NoneAssumption DEF TypeOK
<1>3. TypeOK'
  <2>1. slots' \in [Slots -> [st : {"none", "enabled", "default", "addressed", "configured"},
                              eps : [Eps -> {"none", "quiet", "busy", "dead"}]]]
    BY <1>1 DEF SlotsFit, Fitting
  <2> QED
    BY <1>2, <2>1, SlotTaken DEF TypeOK, usbcmd, driver
<1>4. RunsOnNewRing' /\ NothingLeftBehind' /\ RingIsCurrent'
  BY DEF RunsOnNewRing, NothingLeftBehind, NoDoorbell, RingIsCurrent, usbcmd, driver
<1>5. RequestsAreAwaited'
  <2>1. ASSUME NEW i \in 1 .. Len(schan'), FromCommandWorker(schan'[i])
        PROVE  /\ reply' = "sent"
               /\ \A j \in 1 .. Len(schan') : FromCommandWorker(schan'[j]) => i = j
    <3>1. ~FromCommandWorker(Head(schan))
      BY <2>1, SlotTaken
    <3> QED
      BY <2>1, <3>1, SlotTaken
  <2>2. reply' # None => cmd.op \notin {"noop", "forceheader"}
    BY SlotTaken, NoneAssumption DEF RequestsAreAwaited
  <2> QED
    BY <2>1, <2>2 DEF RequestsAreAwaited, driver, FromCommandWorker
<1>6. ResetInOrder'
  BY SlotTaken DEF ResetInOrder, usbcmd
<1> QED
  BY <1>1, <1>3, <1>4, <1>5, <1>6

\* An answered request of the command worker.
LEMMA Answered ==
    ASSUME ControllerInv, schan # <<>>, FromCommandWorker(Head(schan)),
           NEW s \in Slots, NEW slot \in Fitting, Answer(s, slot), Rest
    PROVE  ControllerInv'
<1>1. reply = "sent"
  BY SlotTaken
<1>2. Head(schan).op # "resetall"
  BY DEF FromCommandWorker
<1> QED
  BY <1>1, <1>2, RequestIsDone DEF Answer, Rest

\* Slots of different states, with their endpoints.
LEMMA SlotShapes ==
    ASSUME SlotsFit, NEW s \in Slots
    PROVE  /\ slots[s] \in Fitting
           /\ \A st \in {"none", "quiet", "busy", "dead"}, e \in Eps :
                 (st # "none") = (slots[s].eps[e] # "none") =>
                    [slots[s] EXCEPT !.eps[e] = st] \in Fitting
           /\ \A st \in {"default", "addressed"} :
                 /\ slots[s].st \in {"default", "addressed", "configured"} =>
                       Deconfigured(slots[s], st) \in Fitting
                 /\ slots[s].st \in {"enabled", "default"} =>
                       [st |-> st, eps |-> [slots[s].eps EXCEPT ![1] = "quiet"]] \in Fitting
           /\ slots[s].st \in {"addressed", "configured"} =>
                 /\ Deconfigured(slots[s], "configured") \in Fitting
                 /\ [st |-> "configured", eps |-> [slots[s].eps EXCEPT ![2] = "quiet"]] \in Fitting
<1> DEFINE slot == slots[s]
           All == {"none", "quiet", "busy", "dead"}
<1>1. slot \in Fitting
  BY DEF SlotsFit
<1>2. /\ slot = [st |-> slot.st, eps |-> slot.eps]
      /\ slot.st \in {"none", "enabled", "default", "addressed", "configured"}
      /\ slot.eps \in [Eps -> All]
      /\ (slot.eps[1] # "none") = (slot.st \in {"default", "addressed", "configured"})
      /\ slot.eps[2] # "none" => slot.st = "configured"
  BY <1>1 DEF Fitting
<1> HIDE DEF slot
<1>3. ASSUME NEW st \in All, NEW e \in Eps, (st # "none") = (slot.eps[e] # "none")
      PROVE  [slot EXCEPT !.eps[e] = st] \in Fitting
  <2> DEFINE eps == [slot.eps EXCEPT ![e] = st]
  <2>1. /\ eps \in [Eps -> All] /\ \A d \in Eps : (eps[d] # "none") = (slot.eps[d] # "none")
    BY <1>2, <1>3 DEF Eps
  <2>2. [slot EXCEPT !.eps[e] = st] = [st |-> slot.st, eps |-> eps]
    BY <1>2
  <2> HIDE DEF eps
  <2> QED
    BY <1>2, <2>1, <2>2 DEF Fitting, Eps
<1>4. ASSUME NEW st \in {"default", "addressed", "configured"},
             slot.st \in {"default", "addressed", "configured"}
      PROVE  Deconfigured(slot, st) \in Fitting
  <2> DEFINE eps == [NoEps EXCEPT ![1] = slot.eps[1]]
  <2>1. eps \in [Eps -> All] /\ eps[1] = slot.eps[1] /\ eps[2] = "none"
    BY <1>2 DEF NoEps, Eps
  <2>2. Deconfigured(slot, st) = [st |-> st, eps |-> eps]
    BY DEF Deconfigured
  <2> HIDE DEF eps
  <2> QED
    BY <1>2, <1>4, <2>1, <2>2 DEF Fitting
<1>5. ASSUME NEW st \in {"default", "addressed"}, slot.st \in {"enabled", "default"}
      PROVE  [st |-> st, eps |-> [slot.eps EXCEPT ![1] = "quiet"]] \in Fitting
  <2> DEFINE eps == [slot.eps EXCEPT ![1] = "quiet"]
  <2>1. eps \in [Eps -> All] /\ eps[1] = "quiet" /\ eps[2] = "none"
    BY <1>2, <1>5 DEF Eps
  <2> HIDE DEF eps
  <2>2. [st |-> st, eps |-> eps] \in Fitting
    BY <1>5, <2>1 DEF Fitting
  <2> QED
    BY <2>2 DEF eps
<1>6. ASSUME slot.st \in {"addressed", "configured"}
      PROVE  [st |-> "configured", eps |-> [slot.eps EXCEPT ![2] = "quiet"]] \in Fitting
  <2> DEFINE eps == [slot.eps EXCEPT ![2] = "quiet"]
  <2>1. eps \in [Eps -> All] /\ eps[1] # "none"
    BY <1>2, <1>6 DEF Eps
  <2> HIDE DEF eps
  <2>2. [st |-> "configured", eps |-> eps] \in Fitting
    BY <2>1 DEF Fitting
  <2> QED
    BY <2>2 DEF eps
<1> QED
  BY <1>1, <1>3, <1>4, <1>5, <1>6 DEF slot

\* Requests that the command worker waits for.
LEMMA SlotAnswers ==
    ASSUME ControllerInv,
           \/ SlotEnable \/ SlotDisable \/ SlotAddress \/ SlotConfigure \/ SlotResetDevice
           \/ SlotEvaluate
    PROVE  ControllerInv'
<1>t. TypeOK /\ SlotsFit
  BY DEF ControllerInv
<1>1. ASSUME schan # <<>>, SlotWorkerDies, Rest
      PROVE  ControllerInv'
  BY <1>1, SlotWorkerEnds DEF Rest
<1>2. CASE SlotEnable
  <2>1. schan # <<>> /\ FromCommandWorker(Head(schan)) /\ Rest
    BY <1>2 DEF SlotEnable, Take, FromCommandWorker
  <2>2. CASE Answer(1, slots[1])
    BY <1>t, <2>1, <2>2, SlotNumbers, SlotShapes, Answered
  <2>3. ASSUME NEW s \in Free, Answer(s, [st |-> "enabled", eps |-> NoEps])
        PROVE  ControllerInv'
    <3>1. s \in Slots
      BY <1>t, SlotNumbers DEF Free, TypeOK
    <3>2. [st |-> "enabled", eps |-> NoEps] \in Fitting
      BY NoSlotFits DEF Fitting, NoEps, Eps
    <3> QED
      BY <2>1, <2>3, <3>1, <3>2, Answered
  <2> QED
    BY <1>2, <2>2, <2>3 DEF SlotEnable
<1>3. CASE SlotDisable
  <2>1. schan # <<>> /\ FromCommandWorker(Head(schan)) /\ Rest /\ Head(schan).slot \in Slots
    BY <1>3, SlotTaken, SlotRequest DEF SlotDisable, Take, FromCommandWorker
  <2> QED
    BY <1>1, <1>3, <2>1, NoSlotFits, Answered DEF SlotDisable
<1>4. CASE SlotAddress
  <2> DEFINE s == Head(schan).slot
             next == [st |-> IF Head(schan).arg = 1 THEN "default" ELSE "addressed",
                      eps |-> [slots[s].eps EXCEPT ![1] = "quiet"]]
  <2>1. schan # <<>> /\ FromCommandWorker(Head(schan)) /\ Rest /\ s \in Slots
    BY <1>4, SlotTaken, SlotRequest DEF SlotAddress, Take, FromCommandWorker
  <2>2. slots[s] \in Fitting /\ (slots[s].st \in {"enabled", "default"} => next \in Fitting)
    BY <1>t, <2>1, SlotShapes
  <2>3. \/ slots[s].st \in {"enabled", "default"} /\ Answer(s, next)
        \/ SlotWorkerDies
        \/ Answer(s, slots[s])
    BY <1>4 DEF SlotAddress
  <2> HIDE DEF s, next
  <2> QED
    BY <1>1, <2>1, <2>2, <2>3, Answered
<1>5. CASE SlotConfigure
  <2> DEFINE s == Head(schan).slot
             added == [st |-> "configured", eps |-> [slots[s].eps EXCEPT ![2] = "quiet"]]
  <2>1. schan # <<>> /\ FromCommandWorker(Head(schan)) /\ Rest /\ s \in Slots
    BY <1>5, SlotTaken, SlotRequest DEF SlotConfigure, Take, FromCommandWorker
  <2>2. /\ slots[s] \in Fitting
        /\ slots[s].st \in {"addressed", "configured"} =>
              /\ added \in Fitting
              /\ Deconfigured(slots[s], "addressed") \in Fitting
              /\ Deconfigured(slots[s], "configured") \in Fitting
    BY <1>t, <2>1, SlotShapes
  <2>3. \/ Answer(s, slots[s])
        \/ SlotWorkerDies
        \/ /\ slots[s].st \in {"addressed", "configured"}
           /\ \/ Answer(s, Deconfigured(slots[s], "addressed"))
              \/ Answer(s, Deconfigured(slots[s], "configured"))
              \/ Answer(s, added)
    BY <1>5 DEF SlotConfigure
  <2> HIDE DEF s, added
  <2> QED
    BY <1>1, <2>1, <2>2, <2>3, Answered
<1>6. CASE SlotResetDevice
  <2> DEFINE s == Head(schan).slot
  <2>1. schan # <<>> /\ FromCommandWorker(Head(schan)) /\ Rest /\ s \in Slots
    BY <1>6, SlotTaken, SlotRequest DEF SlotResetDevice, Take, FromCommandWorker
  <2>2. /\ slots[s] \in Fitting
        /\ slots[s].st \in {"addressed", "configured"} =>
              Deconfigured(slots[s], "default") \in Fitting
    BY <1>t, <2>1, SlotShapes
  <2>3. \/ Answer(s, slots[s])
        \/ SlotWorkerDies
        \/ /\ slots[s].st \in {"addressed", "configured"}
           /\ Answer(s, Deconfigured(slots[s], "default"))
    BY <1>6 DEF SlotResetDevice
  <2> HIDE DEF s
  <2> QED
    BY <1>1, <2>1, <2>2, <2>3, Answered
<1>7. CASE SlotEvaluate
  <2>1. /\ schan # <<>> /\ FromCommandWorker(Head(schan)) /\ Rest /\ Head(schan).slot \in Slots
        /\ Answer(Head(schan).slot, slots[Head(schan).slot])
    BY <1>7, SlotTaken, SlotRequest DEF SlotEvaluate, Take, FromCommandWorker
  <2>2. slots[Head(schan).slot] \in Fitting
    BY <1>t, <2>1, SlotShapes
  <2> QED
    BY <2>1, <2>2, Answered
<1> QED
  BY <1>2, <1>3, <1>4, <1>5, <1>6, <1>7

\* Whatever an endpoint does, it is there or not as before.
LEMMA EndpointStays ==
    ASSUME NEW st \in {"none", "quiet", "busy", "dead"}
    PROVE  \A next \in Commanded(st) \cup Rung(st) \cup Settled(st) \cup Failed(st) :
              next \in {"none", "quiet", "busy", "dead"} /\ (next # "none") = (st # "none")
BY DEF Commanded, Rung, Settled, Failed

\* Endpoints that are commanded, rung or left to themselves, and the reset of all slots.
LEMMA SlotEndpoints ==
    ASSUME ControllerInv, SlotEndpoint \/ SlotDoorbell \/ SlotResetAll
    PROVE  ControllerInv'
<1>t. TypeOK /\ SlotsFit
  BY DEF ControllerInv
<1>1. ASSUME schan # <<>>, SlotWorkerDies, Rest
      PROVE  ControllerInv'
  BY <1>1, SlotWorkerEnds DEF Rest
<1>2. ASSUME NEW s \in Slots, NEW e \in Eps,
             NEW st \in Commanded(slots[s].eps[e]) \cup Rung(slots[s].eps[e])
                        \cup Settled(slots[s].eps[e]) \cup Failed(slots[s].eps[e])
      PROVE  [slots[s] EXCEPT !.eps[e] = st] \in Fitting
  <2>1. slots[s].eps[e] \in {"none", "quiet", "busy", "dead"}
    BY <1>t DEF TypeOK
  <2> QED
    BY <1>t, <1>2, <2>1, EndpointStays, SlotShapes
<1>3. CASE SlotEndpoint
  <2> DEFINE s == Head(schan).slot
             e == Head(schan).arg
  <2>1. /\ schan # <<>> /\ FromCommandWorker(Head(schan)) /\ Rest /\ s \in Slots /\ e \in Eps
        /\ Head(schan).op # "resetall"
    BY <1>3, SlotTaken, SlotRequest DEF SlotEndpoint, Take, FromCommandWorker
  <2>2. CASE SlotWorkerDies
    BY <1>1, <2>1, <2>2
  <2>3. ASSUME NEW st \in Commanded(slots[s].eps[e]), Answer(s, [slots[s] EXCEPT !.eps[e] = st])
        PROVE  ControllerInv'
    BY <1>2, <2>1, <2>3, Answered
  <2>4. CASE /\ "dead" \in Failed(slots[s].eps[e])
             /\ reply' = "dropped"
             /\ slots' = [slots EXCEPT ![s].eps[e] = "dead"]
             /\ schan' = Tail(schan)
             /\ UNCHANGED <<sw, coord>>
    <3>1. [slots[s] EXCEPT !.eps[e] = "dead"] \in Fitting
      BY <1>2, <2>1, <2>4
    <3>2. slots' = [slots EXCEPT ![s] = [slots[s] EXCEPT !.eps[e] = "dead"]]
      BY <2>4
    <3>3. reply' # reply
      BY <2>1, <2>4, SlotTaken
    <3> HIDE DEF s, e
    <3> QED
      BY <2>1, <2>4, <3>1, <3>2, <3>3, RequestIsDone DEF Rest
  <2> QED
    BY <1>3, <2>2, <2>3, <2>4 DEF SlotEndpoint
<1>4. CASE SlotDoorbell
  <2> DEFINE s == Head(schan).slot
             e == Head(schan).arg
  <2>1. /\ schan # <<>> /\ ~FromCommandWorker(Head(schan)) /\ Rest /\ s \in Slots /\ e \in Eps
        /\ Head(schan).op # "resetall"
    BY <1>4, SlotTaken, SlotRequest DEF SlotDoorbell, Take, FromCommandWorker
  <2>2. CASE SlotWorkerDies
    BY <1>1, <2>1, <2>2
  <2>3. ASSUME NEW st \in Rung(slots[s].eps[e]), slots' = [slots EXCEPT ![s].eps[e] = st],
               schan' = Tail(schan), UNCHANGED <<sw, reply, coord>>
        PROVE  ControllerInv'
    <3>1. [slots[s] EXCEPT !.eps[e] = st] \in Fitting
      BY <1>2, <2>1
    <3>2. slots' = [slots EXCEPT ![s] = [slots[s] EXCEPT !.eps[e] = st]]
      BY <2>3
    <3> HIDE DEF s, e
    <3> QED
      BY <2>1, <2>3, <3>1, <3>2, RequestIsDone DEF Rest
  <2> QED
    BY <1>4, <2>2, <2>3 DEF SlotDoorbell
<1>5. CASE SlotResetAll
  <2> USE DEF ControllerInv
  <2>1. /\ schan # <<>> /\ Head(schan).op = "resetall" /\ num' = 0
        /\ UNCHANGED <<usbcmd, crr, cw, cchan, cgen, stale, cmd, driver, interrupter>>
    BY <1>5 DEF SlotResetAll, Take
  <2>2. CASE SlotWorkerDies
    BY <2>1, <2>2, SlotWorkerEnds
  <2>3. CASE /\ slots' = [s \in Slots |-> NoSlot] /\ schan' = Tail(schan)
             /\ coord' = "clear" /\ UNCHANGED <<sw, reply>>
    <3>1. coord = "slots" /\ schan' = <<>> /\ schan' \in Seq(SlotMessage) /\ Len(schan') = 0
      BY <2>1, <2>3, SlotTaken
    <3>2. SlotsFit'
      BY <2>3, NoSlotFits DEF SlotsFit
    <3>3. slots' \in [Slots -> [st : {"none", "enabled", "default", "addressed", "configured"},
                                eps : [Eps -> {"none", "quiet", "busy", "dead"}]]]
      BY <3>2 DEF SlotsFit, Fitting
    <3>4. TypeOK'
      BY <2>1, <2>3, <3>1, <3>3 DEF TypeOK, usbcmd, driver
    <3>5. RunsOnNewRing' /\ NothingLeftBehind' /\ RingIsCurrent'
      BY <2>1 DEF RunsOnNewRing, NothingLeftBehind, NoDoorbell, RingIsCurrent, usbcmd, driver
    <3>6. RequestsAreAwaited'
      BY <2>1, <2>3, <3>1 DEF RequestsAreAwaited, driver
    <3>7. /\ cchan = <<>> /\ Len(cchan) = 0 /\ ~crr /\ cw \in {"stopped", "checking"}
          /\ hcrst /\ ~rs
      BY <3>1 DEF ResetInOrder
    <3>8. /\ coord' = "clear" /\ hcrst' /\ ~rs' /\ ~crr' /\ cw' \in {"stopped", "checking"}
          /\ cchan' = <<>> /\ Len(cchan') = 0 /\ num' = 0
          /\ schan' = <<>> /\ Len(schan') = 0 /\ slots' = [s \in Slots |-> NoSlot]
      BY <2>1, <2>3, <3>1, <3>7 DEF usbcmd
    <3>9. ResetInOrder'
      BY <3>8 DEF ResetInOrder
    <3> QED
      BY <3>2, <3>4, <3>5, <3>6, <3>9
  <2> QED
    BY <1>5, <2>2, <2>3 DEF SlotResetAll
<1> QED
  BY <1>3, <1>4, <1>5

\* An endpoint settles by itself.
LEMMA EndpointSteps ==
    ASSUME ControllerInv, EndpointNext
    PROVE  ControllerInv'
<1> USE DEF ControllerInv
<1>1. PICK s \in Slots, e \in Eps, st \in Endings : EndpointSettles(s, e, st)
  BY DEF EndpointNext
<1>2. /\ st \in Settled(slots[s].eps[e])
      /\ slots' = [slots EXCEPT ![s] = [slots[s] EXCEPT !.eps[e] = st]]
      /\ UNCHANGED <<usbcmd, coord, command, sw, schan, num, driver, interrupter>>
  BY <1>1 DEF EndpointSettles
<1>3. slots[s].eps[e] \in {"none", "quiet", "busy", "dead"}
  BY DEF TypeOK
<1>4. slots[s].eps[e] # "none"
  BY <1>2, <1>3 DEF Settled
<1>5. [slots[s] EXCEPT !.eps[e] = st] \in Fitting
  BY <1>2, <1>3, EndpointStays, SlotShapes
<1>6. SlotsFit'
  BY <1>2, <1>5 DEF SlotsFit
<1>7. slots' \in [Slots -> [st : {"none", "enabled", "default", "addressed", "configured"},
                            eps : [Eps -> {"none", "quiet", "busy", "dead"}]]]
  BY <1>6 DEF SlotsFit, Fitting
<1>8. TypeOK'
  BY <1>2, <1>7 DEF TypeOK, usbcmd, command, driver
<1>9. coord # "clear"
  <2>1. coord = "clear" => slots[s].eps[e] = "none"
    BY DEF ResetInOrder, NoSlot, NoEps
  <2> QED
    BY <1>4, <2>1
<1>10. RunsOnNewRing' /\ NothingLeftBehind' /\ RingIsCurrent'
       /\ RequestsAreAwaited' /\ ResetInOrder'
  BY <1>2, <1>9 DEF RunsOnNewRing, NothingLeftBehind, NoDoorbell, RingIsCurrent,
     RequestsAreAwaited, ResetInOrder,
              usbcmd, command, driver
<1> QED
  BY <1>6, <1>8, <1>10

-----------------------------------------------------------------------------
(* The driver *)

\* Steps that write USBCMD, or begin a reset of a halted controller.
LEMMA UsbcmdSteps ==
    ASSUME ControllerInv,
           \/ DriverStarts \/ DriverHalts \/ DriverResets \/ DriverRewrites \/ DriverConfigures
    PROVE  ControllerInv'
<1> USE DEF ControllerInv
<1>1. CASE DriverStarts \/ DriverHalts \/ DriverRewrites
  <2>1. /\ rs' \in BOOLEAN /\ hcrst' = hcrst /\ coord' = coord
        /\ (rs' => ~hcrst /\ gen = resets + 1)
        /\ UNCHANGED <<command, slotmgr, driver, interrupter>>
    BY <1>1 DEF DriverStarts, DriverHalts, DriverRewrites, UsbcmdWrite, TypeOK
  <2>2. TypeOK'
    BY <2>1 DEF TypeOK, command, slotmgr, driver
  <2>3. SlotsFit' /\ RunsOnNewRing' /\ NothingLeftBehind' /\ RingIsCurrent'
        /\ RequestsAreAwaited' /\ ResetInOrder'
    BY <2>1 DEF SlotsFit, RunsOnNewRing, NothingLeftBehind, NoDoorbell, RingIsCurrent,
       RequestsAreAwaited, ResetInOrder,
                command, slotmgr, driver
  <2> QED
    BY <2>2, <2>3
<1>2. CASE DriverResets
  <2>1. /\ ~rs /\ ~hcrst /\ resets < MaxResets /\ rs' = FALSE /\ hcrst' = TRUE
        /\ coord' = IF coord = "waiting" THEN "awake" ELSE coord
        /\ resets' = resets + 1 /\ queue' = <<>> /\ rung' = 0
        /\ UNCHANGED <<command, slotmgr, gen, interrupter>>
    BY <1>2 DEF DriverResets, UsbcmdWrite
  <2>2. coord \in {"rearm", "waiting"}
    BY <2>1 DEF ResetInOrder
  <2>3. queue' \in Seq(Command) /\ rung' \in 0 .. Len(queue') /\ resets' \in 0 .. MaxResets
    BY <2>1, BoundsAssumption DEF TypeOK
  <2>4. TypeOK'
    BY <2>1, <2>2, <2>3 DEF TypeOK, command, slotmgr
  <2>6. gen \in Nat /\ resets \in Nat /\ gen <= resets + 1
    BY DEF RunsOnNewRing, TypeOK
  <2>5. SlotsFit' /\ RunsOnNewRing' /\ NothingLeftBehind' /\ RingIsCurrent'
        /\ RequestsAreAwaited' /\ ResetInOrder'
    BY <2>1, <2>2, <2>6 DEF SlotsFit, RunsOnNewRing, NothingLeftBehind, NoDoorbell,
       RingIsCurrent, RequestsAreAwaited, ResetInOrder,
                command, slotmgr
  <2> QED
    BY <2>4, <2>5
<1>3. CASE DriverConfigures
  <2>1. /\ ~hcrst /\ num' = Cardinality(Slots)
        /\ UNCHANGED <<usbcmd, coord, command, sw, schan, slots, driver, interrupter>>
    BY <1>3 DEF DriverConfigures
  <2>2. TypeOK'
    BY <2>1 DEF TypeOK, usbcmd, command, driver
  <2>3. SlotsFit' /\ RunsOnNewRing' /\ NothingLeftBehind' /\ RingIsCurrent'
        /\ RequestsAreAwaited' /\ ResetInOrder'
    BY <2>1 DEF SlotsFit, RunsOnNewRing, NothingLeftBehind, NoDoorbell, RingIsCurrent,
       RequestsAreAwaited, ResetInOrder,
                usbcmd, command, driver
  <2> QED
    BY <2>2, <2>3
<1> QED
  BY <1>1, <1>2, <1>3

\* A message of the driver to the command worker, on a controller that is not in reset.
LEMMA DriverSends ==
    ASSUME ControllerInv, ~hcrst, NEW op \in {"doorbell", "stop", "setdeq"}, NEW g \in Nat,
           op # "setdeq" => g = 0, op = "setdeq" => g = gen', ToCommand(op, g), gen' \in Nat,
           gen' = gen \/ cchan = <<>>,
           UNCHANGED <<cmd, schan, reply, coord, usbcmd, crr, cw, num, slots>>
    PROVE  /\ cchan' \in Seq(CommandMessage)
           /\ RequestsAreAwaited' /\ ResetInOrder'
           /\ \E i \in 1 .. Len(cchan') : cchan'[i].op = op
           /\ \A i \in 1 .. Len(cchan) : i \in 1 .. Len(cchan') /\ cchan'[i] = cchan[i]
           /\ cchan # <<>> => cchan' # <<>> /\ Head(cchan') = Head(cchan)
<1> USE DEF ControllerInv
<1> DEFINE m == [op |-> op, gen |-> g]
<1>1. m \in CommandMessage /\ cchan \in Seq(CommandMessage) /\ gen \in Nat
  BY DEF CommandMessage, TypeOK
<1>2. /\ cchan' \in Seq(CommandMessage) /\ Len(cchan') = Len(cchan) + 1 /\ Len(cchan) \in Nat
      /\ \A i \in 1 .. Len(cchan) : cchan'[i] = cchan[i]
      /\ cchan'[Len(cchan')] = m
  BY <1>1, Sending DEF ToCommand
<1>3. \A i \in 1 .. Len(cchan') :
         /\ i # Len(cchan') => i \in 1 .. Len(cchan) /\ cchan'[i] = cchan[i]
         /\ i = Len(cchan') => cchan'[i].op = op /\ cchan'[i].gen = g
  BY <1>2
<1>4. coord \in {"rearm", "waiting"}
  BY DEF ResetInOrder, TypeOK
<1>5. \A i \in 1 .. Len(cchan') : cchan'[i].op = "setdeq" => cchan'[i].gen = gen'
  <2>1. ASSUME NEW i \in 1 .. Len(cchan'), i # Len(cchan'), cchan'[i].op = "setdeq"
        PROVE  cchan'[i].gen = gen'
    <3>1. i \in 1 .. Len(cchan) /\ cchan'[i] = cchan[i] /\ cchan # <<>>
      BY <1>3, <2>1
    <3> QED
      BY <2>1, <3>1 DEF RequestsAreAwaited
  <2> QED
    BY <1>3, <2>1
<1>6. RequestsAreAwaited'
  BY <1>5 DEF RequestsAreAwaited, FromCommandWorker
<1>7. ResetInOrder'
  BY <1>3, <1>4 DEF ResetInOrder, usbcmd
<1>8. /\ \E i \in 1 .. Len(cchan') : cchan'[i].op = op
      /\ \A i \in 1 .. Len(cchan) : i \in 1 .. Len(cchan') /\ cchan'[i] = cchan[i]
  <2>1. Len(cchan') \in 1 .. Len(cchan') /\ cchan'[Len(cchan')].op = op
    BY <1>2
  <2> QED
    BY <1>2, <2>1
<1> QED
  BY <1>1, <1>2, <1>6, <1>7, <1>8 DEF ToCommand

\* Steps that talk to the command ring.
LEMMA RingSteps ==
    ASSUME ControllerInv,
           \/ DriverWritesCrcr \/ DriverStopsRing \/ DriverRings
           \/ \E c \in Issued : DriverQueues(c)
    PROVE  ControllerInv'
<1> USE DEF ControllerInv
<1>1. CASE DriverWritesCrcr
  <2>1. /\ ~rs /\ ~hcrst /\ gen <= resets /\ gen' = resets + 1 /\ queue' = <<>> /\ rung' = 0
        /\ ToCommand("setdeq", resets + 1)
        /\ UNCHANGED <<crr, cw, cgen, stale, cmd, reply, usbcmd, coord, slotmgr, resets,
                       interrupter>>
    BY <1>1 DEF DriverWritesCrcr, Undisturbed
  <2>2. gen \in Nat /\ cgen \in 0 .. gen /\ resets \in Nat
    BY DEF TypeOK
  <2>3. ~crr /\ cw \in {"stopped", "checking", "dead"} /\ cchan = <<>>
    BY <2>1 DEF RunsOnNewRing
  <2>4. cchan' \in Seq(CommandMessage) /\ RequestsAreAwaited' /\ ResetInOrder'
    BY <2>1, <2>2, <2>3, DriverSends DEF slotmgr
  <2>5. cchan' # <<>> /\ Head(cchan').op = "setdeq"
    BY <2>1, <2>3 DEF ToCommand
  <2>6. gen' \in Nat /\ cgen' \in 0 .. gen' /\ queue' \in Seq(Command)
        /\ rung' \in 0 .. Len(queue')
    BY <2>1, <2>2
  <2>7. TypeOK'
    BY <2>1, <2>4, <2>6 DEF TypeOK, usbcmd, slotmgr
  <2>8. SlotsFit' /\ RunsOnNewRing'
    BY <2>1, <2>2 DEF SlotsFit, RunsOnNewRing, usbcmd, slotmgr
  <2>9. NothingLeftBehind' /\ RingIsCurrent'
    BY <2>1, <2>2, <2>3, <2>5 DEF NothingLeftBehind, RingIsCurrent
  <2> QED
    BY <2>4, <2>7, <2>8, <2>9
<1>2. CASE DriverStopsRing
  <2>1. /\ rs /\ ToCommand("stop", 0)
        /\ UNCHANGED <<crr, cw, cgen, stale, cmd, reply, usbcmd, coord, slotmgr, driver,
                       interrupter>>
    BY <1>2 DEF DriverStopsRing, Undisturbed
  <2>2. ~hcrst /\ gen \in Nat
    BY <2>1 DEF ResetInOrder, TypeOK
  <2>3. /\ cchan' \in Seq(CommandMessage) /\ RequestsAreAwaited' /\ ResetInOrder'
        /\ \A i \in 1 .. Len(cchan) : i \in 1 .. Len(cchan') /\ cchan'[i] = cchan[i]
        /\ cchan # <<>> => cchan' # <<>> /\ Head(cchan') = Head(cchan)
    BY <2>1, <2>2, DriverSends DEF slotmgr, driver
  <2>4. TypeOK'
    BY <2>1, <2>3 DEF TypeOK, usbcmd, slotmgr, driver
  <2>7. gen = resets + 1 /\ ~(gen <= resets)
    BY <2>1 DEF RunsOnNewRing, TypeOK
  <2>5. SlotsFit' /\ RunsOnNewRing'
    BY <2>1, <2>7 DEF SlotsFit, RunsOnNewRing, usbcmd, slotmgr, driver
  <2>6. NothingLeftBehind' /\ RingIsCurrent'
    BY <2>1, <2>3 DEF NothingLeftBehind, NoDoorbell, RingIsCurrent, driver
  <2> QED
    BY <2>3, <2>4, <2>5, <2>6
<1>3. CASE DriverRings
  <2>1. /\ rs /\ ToCommand("doorbell", 0) /\ rung' = Len(queue)
        /\ UNCHANGED <<crr, cw, cgen, stale, cmd, reply, usbcmd, coord, slotmgr, gen, queue,
                       resets, interrupter>>
    BY <1>3 DEF DriverRings, Undisturbed
  <2>2. ~hcrst /\ gen \in Nat /\ Len(queue) \in Nat
    BY <2>1 DEF ResetInOrder, TypeOK
  <2>3. /\ cchan' \in Seq(CommandMessage) /\ RequestsAreAwaited' /\ ResetInOrder'
        /\ \E i \in 1 .. Len(cchan') : cchan'[i].op = "doorbell"
        /\ cchan # <<>> => cchan' # <<>> /\ Head(cchan') = Head(cchan)
    BY <2>1, <2>2, DriverSends DEF slotmgr
  <2>4. rung' \in 0 .. Len(queue')
    BY <2>1, <2>2
  <2>5. TypeOK'
    BY <2>1, <2>3, <2>4 DEF TypeOK, usbcmd, slotmgr
  <2>7. gen = resets + 1 /\ ~(gen <= resets)
    BY <2>1 DEF RunsOnNewRing, TypeOK
  <2>6. SlotsFit' /\ RunsOnNewRing' /\ NothingLeftBehind' /\ RingIsCurrent'
    BY <2>1, <2>3, <2>7 DEF SlotsFit, RunsOnNewRing, NothingLeftBehind, NoDoorbell,
       RingIsCurrent, usbcmd, slotmgr
  <2> QED
    BY <2>3, <2>5, <2>6
<1>4. ASSUME NEW c \in Issued, DriverQueues(c)
      PROVE  ControllerInv'
  <2>1. /\ rs /\ queue' = Append(queue, c)
        /\ UNCHANGED <<usbcmd, coord, command, slotmgr, gen, rung, resets, interrupter>>
    BY <1>4 DEF DriverQueues
  <2>2. queue' \in Seq(Command) /\ Len(queue') = Len(queue) + 1 /\ Len(queue) \in Nat
    BY <1>4, <2>1, Sending DEF Issued, TypeOK
  <2>3. rung' \in 0 .. Len(queue')
    BY <2>1, <2>2 DEF TypeOK
  <2>4. TypeOK'
    BY <2>1, <2>2, <2>3 DEF TypeOK, usbcmd, command, slotmgr
  <2>5. SlotsFit' /\ RunsOnNewRing' /\ NothingLeftBehind' /\ RingIsCurrent'
        /\ RequestsAreAwaited' /\ ResetInOrder'
    BY <2>1 DEF SlotsFit, RunsOnNewRing, NothingLeftBehind, NoDoorbell, RingIsCurrent,
       RequestsAreAwaited, ResetInOrder,
                usbcmd, command, slotmgr
  <2> QED
    BY <2>4, <2>5
<1> QED
  BY <1>1, <1>2, <1>3, <1>4

\* A device doorbell.
LEMMA DoorbellStep ==
    ASSUME ControllerInv, NEW s \in Slots, NEW e \in Eps, DriverRingsDevice(s, e)
    PROVE  ControllerInv'
<1> USE DEF ControllerInv
<1> DEFINE m == [op |-> "doorbell", slot |-> s, arg |-> e]
<1>1. /\ rs /\ schan' = Append(schan, m)
      /\ UNCHANGED <<usbcmd, coord, command, sw, num, slots, driver, interrupter>>
  BY DEF DriverRingsDevice
<1>2. m \in SlotMessage /\ schan \in Seq(SlotMessage)
  BY DEF SlotMessage, TypeOK
<1>3. /\ schan' \in Seq(SlotMessage) /\ Len(schan') = Len(schan) + 1 /\ Len(schan) \in Nat
      /\ \A i \in 1 .. Len(schan) : schan'[i] = schan[i]
      /\ schan'[Len(schan')] = m
  BY <1>1, <1>2, Sending
<1>4. \A i \in 1 .. Len(schan') :
         /\ i # Len(schan') => i \in 1 .. Len(schan) /\ schan'[i] = schan[i]
         /\ i = Len(schan') => ~FromCommandWorker(schan'[i]) /\ schan'[i].op # "resetall"
  BY <1>3 DEF FromCommandWorker
<1>5. coord \in {"rearm", "waiting"}
  BY <1>1 DEF ResetInOrder, TypeOK
<1>6. TypeOK'
  BY <1>1, <1>3 DEF TypeOK, usbcmd, command, driver
<1>7. SlotsFit' /\ RunsOnNewRing' /\ NothingLeftBehind' /\ RingIsCurrent'
  BY <1>1 DEF SlotsFit, RunsOnNewRing, NothingLeftBehind, NoDoorbell, RingIsCurrent, usbcmd,
     command, driver
<1>8. RequestsAreAwaited'
  BY <1>1, <1>4 DEF RequestsAreAwaited, command, driver
<1>9. ResetInOrder'
  BY <1>1, <1>4, <1>5 DEF ResetInOrder, usbcmd, command
<1> QED
  BY <1>6, <1>7, <1>8, <1>9

\* The end of the interrupter is noticed later.
LEMMA InterrupterStep ==
    ASSUME ControllerInv, InterrupterDies
    PROVE  ControllerInv'
<1>1. interrupter' = FALSE /\ UNCHANGED <<usbcmd, coord, command, slotmgr, driver>>
  BY DEF InterrupterDies
<1>2. TypeOK'
  BY <1>1 DEF ControllerInv, TypeOK, usbcmd, command, slotmgr, driver
<1> QED
  BY <1>1, <1>2 DEF ControllerInv, SlotsFit, RunsOnNewRing, NothingLeftBehind, NoDoorbell,
     RingIsCurrent, RequestsAreAwaited, ResetInOrder, usbcmd, command, slotmgr, driver

-----------------------------------------------------------------------------
(* The theorems *)

\* Every step keeps the invariant.
LEMMA NextController ==
    ASSUME ControllerInv, [Next]_vars
    PROVE  ControllerInv'
<1>1. CASE Next
  BY <1>1, CommandSteps, SlotAnswers, SlotEndpoints, CoordinatorSteps, EndpointSteps,
     UsbcmdSteps, RingSteps, DoorbellStep, InterrupterStep DEF Next, SlotNext, DriverNext
<1>2. CASE UNCHANGED vars
  <2>1. TypeOK'
    BY <1>2 DEF ControllerInv, TypeOK, vars, usbcmd, command, slotmgr, driver
  <2>2. SlotsFit' /\ RunsOnNewRing' /\ NothingLeftBehind' /\ RingIsCurrent'
        /\ RequestsAreAwaited' /\ ResetInOrder'
    BY <1>2 DEF ControllerInv, SlotsFit, RunsOnNewRing, NothingLeftBehind, NoDoorbell,
       RingIsCurrent, RequestsAreAwaited,
                ResetInOrder, vars, usbcmd, command, slotmgr, driver
  <2> QED
    BY <2>1, <2>2 DEF ControllerInv
<1> QED
  BY <1>1, <1>2

\* The three workers, the driver and the endpoints keep the invariant: requests are
\* awaited one at a time, a reset passes in order, and slots fit their endpoints.
THEOREM ControllerInvariant == Spec => []ControllerInv
<1>1. Init => ControllerInv
  BY InitController
<1>2. ControllerInv /\ [Next]_vars => ControllerInv'
  BY NextController
<1> QED
  BY <1>1, <1>2, PTL DEF Spec

\* Enable, disable, address, configure and reset device keep the endpoints of a slot
\* to those its state calls for, whatever the endpoints do meanwhile.
THEOREM EndpointsFitSlotAlways == Spec => []EndpointsFitSlot
<1>1. ControllerInv => EndpointsFitSlot
  BY DEF ControllerInv, SlotsFit, Fitting, EndpointsFitSlot
<1> QED
  BY <1>1, ControllerInvariant, PTL

\* The command worker goes idle only when it has processed every command announced by
\* a doorbell that it has taken, unless it has answered a reset since it last stopped
\* and found the controller running again before it could stop (stale): then it is on
\* the ring of before the reset.
THEOREM NothingLeftBehindAlways == Spec => []NothingLeftBehind
<1>1. ControllerInv => NothingLeftBehind
  BY DEF ControllerInv
<1> QED
  BY <1>1, ControllerInvariant, PTL

\* The coordinator clears HCRST after its walk over command worker and slot worker: no
\* slot, endpoint or request is left, and no command is under way.  The command worker
\* itself has stopped or is yet to look at USBCMD.RS, on the ring it had before.
THEOREM ResetIsCompleteAlways == Spec => ResetIsComplete
<1> DEFINE Complete == hcrst /\ ~hcrst' =>
              /\ num = 0 /\ slots = [s \in Slots |-> NoSlot]
              /\ ~crr /\ cw \in {"stopped", "checking"} /\ schan = <<>>
<1>1. ASSUME ControllerInv, Next, hcrst, ~hcrst'
      PROVE  Complete
  <2>1. coord = "clear"
    BY <1>1 DEF Next, CommandNext, CommandReset, CommandSetDequeuePointer, CommandDoorbell,
       CommandStop, CommandDrained, CommandChecks, CommandSends, CommandDies, CommandCompletes,
       CommandStopped, SlotNext, SlotEnable, SlotDisable, SlotAddress, SlotConfigure,
       SlotResetDevice, SlotEvaluate, SlotEndpoint, SlotDoorbell, SlotResetAll, Rest,
       CoordinatorNext, CoordinatorWaits, CoordinatorStarts, CoordinatorResetsSlots,
       CoordinatorClears, DriverNext, DriverStarts, DriverHalts, DriverResets, DriverRewrites,
       DriverConfigures, DriverWritesCrcr, DriverStopsRing, DriverQueues, DriverRings,
       DriverRingsDevice, EndpointNext, EndpointSettles, InterrupterDies, UsbcmdWrite, usbcmd
  <2> QED
    BY <1>1, <2>1 DEF ControllerInv, ResetInOrder
<1>2. ControllerInv /\ [Next]_vars => [Complete]_vars
  BY <1>1
<1> QED
  BY <1>2, ControllerInvariant, PTL DEF Spec, ResetIsComplete

=============================================================================
