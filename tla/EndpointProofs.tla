---------------------------- MODULE EndpointProofs ----------------------------
(***************************************************************************)
(* Proofs about Endpoint for every kind of endpoint, every size of its     *)
(* ring and any number of TRBs and commands: the context tells the truth,  *)
(* a worker takes the answers of its own transfers and dies of nothing but *)
(* the causes listed, and to its slot it is what EndpointContract says.    *)
(***************************************************************************)
EXTENDS Endpoint, SequenceTheorems, TLAPS

\* What is in the ring, submitted or collected has been queued by the driver.
TrbsAreQueued ==
    /\ \A s \in Slot : mem[s].trb <= Len(trbs)
    /\ hot # None => hot <= Len(trbs)
    /\ \A i \in 1 .. Len(sub.trbs) : sub.trbs[i] <= Len(trbs)
    /\ kind = "in" /\ sub.st = "awaiting" => sub.trbs # <<>>

\* A command is in the channel only as long as its answer is awaited, once; nothing
\* follows a Terminate, and a closed channel holds nothing else.
CommandsArePending ==
    /\ cmd # None => cmds > 0
    /\ \A i \in 1 .. Len(chan) :
          /\ chan[i].op \in Commands =>
                cmd = chan[i].op /\ \A j \in 1 .. Len(chan) : chan[j].op \in Commands => i = j
          /\ chan[i].op = "setdeq" => chan[i].trb \in 1 .. Len(trbs) + 1
          /\ chan[i].op = "terminate" => i = Len(chan)
          /\ chan[i].op = "closed" => Len(chan) = 1

\* A TRB is submitted exactly while the worker waits, and never a Link TRB; only a
\* detached device has no handle.
WaitingHasSubmitted ==
    /\ worker = "wait" => hot # None /\ deq # Link
    /\ hot # None => worker \in {"wait", "dead"}
    /\ ~handle => token

\* The submission states and directions of an OUT and of an IN endpoint.
SubmissionOfKind ==
    /\ kind = "in" => sub.st \in {"collecting", "error", "awaiting"}
    /\ kind = "out" =>
          /\ sub.st \in {"idle", "error", "awaiting"} /\ sub.dir = "out"
          /\ \A i \in 1 .. Len(requests) : requests[i] = "out"
          /\ \A i \in 1 .. Len(responses) : responses[i].dir = "out"

\* Transfers that are on the device or have come back from it.
UnderWay == Len(requests) + Len(responses)

\* An endpoint that can withdraw its transfer has one under way exactly when it
\* awaits it, and outside a submission is ready for the next (an OUT endpoint that
\* was stopped excepted).
WithdrawsWhole ==
    kind # "control" /\ handle =>
        /\ UnderWay <= 1
        /\ sub.st # "awaiting" => UnderWay = 0
        /\ worker = "wait" /\ sub.st = "awaiting" => UnderWay = 1
        /\ ~token /\ worker \notin {"wait", "dead"} =>
              IF kind = "in" THEN sub.st = "collecting"
              ELSE sub.st # "idle" => cmds > 0 /\ UnderWay = 0

\* A control endpoint has no more late answers before it than commands were carried
\* out, and the transfer it awaits is the youngest, if the task that answers lives.
LateAnswersAreCounted ==
    kind = "control" /\ handle =>
        LET awaits == worker = "wait" /\ sub.st = "awaiting"
            leaves == worker \in {"halting", "halted"} /\ token
        IN  /\ worker # "dead" =>
                  UnderWay <= (IF cmd = None THEN cmds ELSE cmds - 1)
                                + (IF awaits \/ leaves THEN 1 ELSE 0)
            /\ awaits /\ dev # "gone" =>
                  /\ UnderWay >= 1
                  /\ sub.dir = IF requests # <<>> THEN requests[Len(requests)]
                               ELSE responses[Len(responses)].dir

WorkerInv ==
    /\ ContextTellsTheTruth
    /\ TrbsAreQueued
    /\ CommandsArePending
    /\ WaitingHasSubmitted
    /\ SubmissionOfKind
    /\ WithdrawsWhole
    /\ LateAnswersAreCounted

\* Only the task of a control endpoint can go, with what it had to do, and it need not
\* be opened.
DeviceOfKind ==
    /\ kind = "control" => dev \in {"open", "gone"}
    /\ kind # "control" => dev \in {"closed", "open"}
    /\ dev = "gone" => requests = <<>>

\* The inductive invariant.
EndpointInv == WorkerInv /\ DeviceOfKind

-----------------------------------------------------------------------------
(* The ring and the channel *)

\* The places of TRBs are slots before the Link TRB.
LEMMA RingShape ==
    ASSUME kind \in Kinds
    PROVE  /\ Slot = 0 .. Link /\ Link \in Nat /\ Link >= 2 /\ Usable = Link
           /\ \A k \in Int : Place(k) \in Slot /\ Place(k) # Link /\ Cycle(k) \in BOOLEAN
<1>1. RingSize[kind] \in Nat /\ RingSize[kind] >= 3
  BY RingAssumption
<1>2. Slot = 0 .. Link /\ Link \in Nat /\ Link >= 2 /\ Usable = Link
  BY <1>1 DEF Slot, Link, Usable
<1>3. ASSUME NEW k \in Int
      PROVE  Place(k) \in 0 .. Usable - 1
  BY <1>2 DEF Place
<1> QED
  BY <1>2, <1>3 DEF Cycle

\* What the worker takes is a message, and what is left is what came after it.
LEMMA Taking ==
    ASSUME chan \in Seq(Message), chan # <<>>
    PROVE  /\ Head(chan) = chan[1] /\ Head(chan) \in Message /\ 1 \in 1 .. Len(chan)
           /\ Tail(chan) \in Seq(Message) /\ Len(Tail(chan)) = Len(chan) - 1
           /\ \A i \in 1 .. Len(Tail(chan)) :
                 i + 1 \in 1 .. Len(chan) /\ Tail(chan)[i] = chan[i + 1]
BY HeadTailProperties, EmptySeq

LEMMA Sending ==
    ASSUME chan \in Seq(Message), NEW m \in Message
    PROVE  /\ Append(chan, m) \in Seq(Message) /\ Len(Append(chan, m)) = Len(chan) + 1
           /\ Append(chan, m)[Len(chan) + 1] = m
           /\ \A i \in 1 .. Len(chan) : Append(chan, m)[i] = chan[i]
BY AppendProperties

\* A command that is taken leaves none behind in the channel.
LEMMA CommandTaken ==
    ASSUME WorkerInv, NEW op \in Commands, Receive(op), cmd' \in {None, cmd},
           UNCHANGED <<trbs, cmds>>
    PROVE  /\ CommandsArePending' /\ chan' \in Seq(Message)
           /\ cmd = op /\ cmds > 0 /\ Head(chan).op = op
           /\ \A i \in 1 .. Len(chan') : chan'[i].op = "doorbell"
           /\ \A i \in 1 .. Len(chan) : chan[i].op # "closed"
           /\ op = "setdeq" => Head(chan).trb \in 1 .. Len(trbs) + 1
<1>1. chan \in Seq(Message) /\ chan # <<>> /\ Head(chan).op = op /\ chan' = Tail(chan)
  BY DEF WorkerInv, ContextTellsTheTruth, TypeOK, Receive
<1>2. /\ Head(chan) = chan[1] /\ 1 \in 1 .. Len(chan) /\ Tail(chan) \in Seq(Message)
      /\ \A i \in 1 .. Len(Tail(chan)) :
            i + 1 \in 1 .. Len(chan) /\ Tail(chan)[i] = chan[i + 1]
      /\ Len(Tail(chan)) = Len(chan) - 1
  BY <1>1, Taking
<1>3. /\ chan[1].op = op /\ cmd = op /\ \A j \in 1 .. Len(chan) : chan[j].op \in Commands => j = 1
      /\ op = "setdeq" => chan[1].trb \in 1 .. Len(trbs) + 1
  BY <1>1, <1>2 DEF WorkerInv, CommandsArePending
<1>4. op # "closed" /\ op # None
  BY NoneAssumption DEF Commands
<1>5. \A i \in 1 .. Len(chan) : chan[i] \in Message
  BY <1>1, ElementOfSeq
<1>6. \A i \in 1 .. Len(chan) : chan[i].op # "closed"
  <2> SUFFICES ASSUME NEW i \in 1 .. Len(chan), chan[i].op = "closed" PROVE FALSE
    OBVIOUS
  <2>1. Len(chan) = 1
    BY DEF WorkerInv, CommandsArePending
  <2> QED
    BY <1>3, <1>4, <2>1
<1>7. \A i \in 1 .. Len(chan') : chan'[i].op = "doorbell"
  <2> SUFFICES ASSUME NEW i \in 1 .. Len(chan') PROVE chan'[i].op = "doorbell"
    OBVIOUS
  <2>1. chan'[i] = chan[i + 1] /\ i + 1 \in 1 .. Len(chan) /\ i + 1 # 1
    BY <1>1, <1>2
  <2> QED
    BY <1>3, <1>5, <1>6, <2>1 DEF Message
<1>8. cmds > 0
  BY <1>3, <1>4 DEF WorkerInv, CommandsArePending
<1>9. CommandsArePending'
  BY <1>7, <1>8 DEF CommandsArePending, Commands
<1> QED
  BY <1>1, <1>2, <1>3, <1>6, <1>7, <1>8, <1>9

-----------------------------------------------------------------------------
(* The initial states and the worker's search for a TRB *)

LEMMA InitEndpoint == Init => EndpointInv
<1> SUFFICES ASSUME Init PROVE EndpointInv
  OBVIOUS
<1>1. RingSize[kind] \in Nat /\ RingSize[kind] >= 3
  BY RingAssumption DEF Init
<1>2. 0 \in Slot /\ Slot \subseteq Nat
  BY <1>1 DEF Slot
<1>3. Len(trbs) = 0 /\ Len(chan) = 0 /\ Len(sub.trbs) = 0 /\ Len(requests) = 0
      /\ Len(responses) = 0
  BY DEF Init, Idle
<1>4. TypeOK
  <2>1. /\ mem \in [Slot -> [trb : Nat, cycle : BOOLEAN]]
        /\ deq \in Slot /\ cs \in BOOLEAN
        /\ ctx \in [state : {"running", "stopped", "halted", "error", "disabled"},
                    deq : Slot, cs : BOOLEAN]
    BY <1>2 DEF Init
  <2>2. /\ trbs \in Seq(TrbTypes[kind]) /\ chan \in Seq(Message)
        /\ requests \in Seq({"in", "out"})
        /\ responses \in Seq([dir : {"in", "out"}, status : Statuses])
    BY DEF Init
  <2>3. sub \in [st : {"idle", "collecting", "consumed", "awaiting", "error"},
                trbs : Seq(Nat), dir : {"in", "out"}]
    BY DEF Init, Idle
  <2>4. /\ kind \in Kinds /\ rung \in 0 .. Len(trbs) /\ ack \in 0 .. Len(trbs)
        /\ worker \in Receiving \cup {"look", "halting", "failing", "ended", "dead"}
        /\ cmd \in Commands \cup {None} /\ cmds \in 0 .. MaxCommands
    BY <1>3, BoundsAssumption DEF Init, Receiving
  <2>5. /\ hot \in Nat \cup {None} /\ handle \in BOOLEAN /\ token \in BOOLEAN
        /\ parser \in [st : {"initial", "setup", "data"}, dir : {"in", "out"}]
        /\ dev \in {"closed", "open", "gone"} /\ interrupter \in BOOLEAN
        /\ out \subseteq Events
    BY DEF Init
  <2> QED
    BY <2>1, <2>2, <2>3, <2>4, <2>5 DEF TypeOK
<1>5. ContextTellsTheTruth /\ TrbsAreQueued /\ CommandsArePending /\ WaitingHasSubmitted
  BY <1>3, <1>4 DEF Init, ContextTellsTheTruth, TrbsAreQueued, CommandsArePending,
                    WaitingHasSubmitted, Idle
<1>6. SubmissionOfKind /\ WithdrawsWhole /\ LateAnswersAreCounted
  BY <1>3, <1>4 DEF Init, SubmissionOfKind, WithdrawsWhole, LateAnswersAreCounted, Idle, UnderWay,
                    TypeOK
<1>7. DeviceOfKind
  BY DEF Init, DeviceOfKind
<1> QED
  BY <1>4, <1>5, <1>6, <1>7 DEF EndpointInv, WorkerInv

\* What the transfer under way last was, after another has been requested.
LEMMA Requesting ==
    ASSUME requests \in Seq({"in", "out"}), NEW d \in {"in", "out"},
           requests' = Append(requests, d)
    PROVE  /\ requests' \in Seq({"in", "out"}) /\ Len(requests') = Len(requests) + 1
           /\ requests'[Len(requests')] = d /\ requests' # <<>>
           /\ (\A i \in 1 .. Len(requests) : requests[i] = d)
                 => \A i \in 1 .. Len(requests') : requests'[i] = d
<1>1. /\ requests' \in Seq({"in", "out"}) /\ Len(requests') = Len(requests) + 1
      /\ requests'[Len(requests) + 1] = d
      /\ \A i \in 1 .. Len(requests) : requests'[i] = requests[i]
  BY AppendProperties
<1>2. Len(requests) \in Nat
  OBVIOUS
<1>3. ASSUME \A i \in 1 .. Len(requests) : requests[i] = d, NEW i \in 1 .. Len(requests')
      PROVE  requests'[i] = d
  <2>1. i \in 1 .. Len(requests) \/ i = Len(requests) + 1
    BY <1>1, <1>2
  <2> QED
    BY <1>1, <1>3, <2>1
<1> QED
  BY <1>1, <1>2, <1>3, EmptySeq

\* A submission to a control endpoint.
LEMMA SubmitControlKeeps ==
    ASSUME WorkerInv, handle, kind = "control", worker = "look", NEW k \in Nat, SubmitControl(k),
           k <= Len(trbs), UNCHANGED <<kind, trbs, cmd, cmds, handle, token, responses>>
    PROVE  /\ worker' \in {"wait", "dead"} /\ dev' \in {"closed", "open", "gone"}
           /\ parser' \in [st : {"initial", "setup", "data"}, dir : {"in", "out"}]
           /\ sub' \in [st : {"idle", "collecting", "consumed", "awaiting", "error"},
                        trbs : Seq(Nat), dir : {"in", "out"}]
           /\ requests' \in Seq({"in", "out"})
           /\ \A i \in 1 .. Len(sub'.trbs) : sub'.trbs[i] <= Len(trbs)
           /\ SubmissionOfKind' /\ WithdrawsWhole' /\ LateAnswersAreCounted'
<1> DEFINE next == Parse(trbs[k])
           goes == next # None /\ next.st = "initial"
<1>0. /\ parser \in [st : {"initial", "setup", "data"}, dir : {"in", "out"}]
      /\ requests \in Seq({"in", "out"}) /\ Len(requests) \in Nat /\ Len(responses) \in Nat
      /\ cmds \in Nat
  BY BoundsAssumption DEF WorkerInv, ContextTellsTheTruth, TypeOK
<1>1. dev \in {"closed", "open", "gone"}
  BY DEF WorkerInv, ContextTellsTheTruth, TypeOK
<1>2. next = None \/ next \in [st : {"initial", "setup", "data"}, dir : {"in", "out"}]
  BY <1>0 DEF Parse
<1>3. parser' \in [st : {"initial", "setup", "data"}, dir : {"in", "out"}]
  BY <1>0, <1>2 DEF SubmitControl
<1>4. <<k>> \in Seq(Nat) /\ Len(<<k>>) = 1 /\ <<k>>[1] = k
  OBVIOUS
<1>5. UnderWay <= IF cmd = None THEN cmds ELSE cmds - 1
  BY <1>0 DEF WorkerInv, LateAnswersAreCounted, UnderWay
<1>6. CASE goes /\ worker' # "dead"
  <2>1. /\ sub' = [st |-> "awaiting", trbs |-> <<k>>, dir |-> parser.dir]
        /\ requests' = Append(requests, parser.dir) /\ worker' = "wait" /\ dev' = "open"
    BY <1>6 DEF SubmitControl, Request
  <2>2. /\ requests' \in Seq({"in", "out"}) /\ Len(requests') = Len(requests) + 1
        /\ requests'[Len(requests')] = parser.dir /\ requests' # <<>>
    BY <1>0, <2>1, Requesting
  <2>3. LateAnswersAreCounted'
    BY <1>0, <1>5, <2>1, <2>2 DEF LateAnswersAreCounted, UnderWay
  <2> QED
    BY <1>0, <1>3, <1>4, <2>1, <2>2, <2>3 DEF SubmissionOfKind, WithdrawsWhole
<1>7. CASE goes /\ worker' = "dead"
  <2>1. UNCHANGED <<sub, dev, requests>>
    BY <1>7 DEF SubmitControl, Request
  <2>2. /\ sub \in [st : {"idle", "collecting", "consumed", "awaiting", "error"},
                    trbs : Seq(Nat), dir : {"in", "out"}]
        /\ \A i \in 1 .. Len(sub.trbs) : sub.trbs[i] <= Len(trbs)
    BY DEF WorkerInv, ContextTellsTheTruth, TypeOK, TrbsAreQueued
  <2>3. LateAnswersAreCounted'
    BY <1>7 DEF LateAnswersAreCounted
  <2> QED
    BY <1>0, <1>1, <1>3, <1>7, <2>1, <2>2, <2>3 DEF SubmissionOfKind, WithdrawsWhole
<1>8. CASE ~goes
  <2>1. /\ sub' = [st |-> IF next = None THEN "error" ELSE "consumed",
                    trbs |-> <<k>>, dir |-> "out"]
        /\ worker' = "wait" /\ UNCHANGED <<dev, requests>>
    BY <1>8 DEF SubmitControl, Keep
  <2>2. sub'.st # "awaiting"
    BY <2>1
  <2>3. LateAnswersAreCounted'
    BY <1>0, <1>5, <2>1, <2>2 DEF LateAnswersAreCounted, UnderWay
  <2> QED
    BY <1>0, <1>1, <1>3, <1>4, <2>1, <2>3 DEF SubmissionOfKind, WithdrawsWhole
<1> QED
  BY <1>6, <1>7, <1>8

\* A submission to an OUT endpoint.
LEMMA SubmitOutKeeps ==
    ASSUME WorkerInv, handle, kind = "out", worker = "look", NEW k \in Nat, SubmitOut(k),
           k <= Len(trbs), UNCHANGED <<kind, trbs, cmd, cmds, handle, token, responses>>
    PROVE  /\ worker' \in {"wait", "dead"} /\ dev' \in {"closed", "open", "gone"}
           /\ parser' \in [st : {"initial", "setup", "data"}, dir : {"in", "out"}]
           /\ sub' \in [st : {"idle", "collecting", "consumed", "awaiting", "error"},
                        trbs : Seq(Nat), dir : {"in", "out"}]
           /\ requests' \in Seq({"in", "out"})
           /\ \A i \in 1 .. Len(sub'.trbs) : sub'.trbs[i] <= Len(trbs)
           /\ SubmissionOfKind' /\ WithdrawsWhole' /\ LateAnswersAreCounted'
<1>0. /\ parser \in [st : {"initial", "setup", "data"}, dir : {"in", "out"}]
      /\ requests \in Seq({"in", "out"}) /\ Len(requests) \in Nat /\ Len(responses) \in Nat
      /\ sub \in [st : {"idle", "collecting", "consumed", "awaiting", "error"},
                  trbs : Seq(Nat), dir : {"in", "out"}]
      /\ \A i \in 1 .. Len(sub.trbs) : sub.trbs[i] <= Len(trbs)
      /\ dev \in {"closed", "open", "gone"}
  BY DEF WorkerInv, ContextTellsTheTruth, TypeOK, TrbsAreQueued
<1>1. UNCHANGED parser
  BY DEF SubmitOut
<1>2. <<k>> \in Seq(Nat) /\ Len(<<k>>) = 1 /\ <<k>>[1] = k
  OBVIOUS
<1>3. /\ sub.st \in {"idle", "error", "awaiting"} /\ sub.dir = "out"
      /\ \A i \in 1 .. Len(requests) : requests[i] = "out"
      /\ \A i \in 1 .. Len(responses) : responses[i].dir = "out"
  BY DEF WorkerInv, SubmissionOfKind
<1>4. /\ UnderWay <= 1
      /\ sub.st # "awaiting" => UnderWay = 0
  BY DEF WorkerInv, WithdrawsWhole
<1>5. CASE worker' = "dead"
  <2>1. UNCHANGED <<sub, dev, requests>>
    BY <1>5 DEF SubmitOut, Die, Keep, Request
  <2> QED
    BY <1>0, <1>1, <1>3, <1>4, <1>5, <2>1
       DEF SubmissionOfKind, WithdrawsWhole, LateAnswersAreCounted, UnderWay
<1>6. CASE worker' # "dead" /\ trbs[k] = "bad"
  <2>1. /\ worker' = "wait" /\ sub' = [sub EXCEPT !.st = "error", !.trbs = <<k>>]
        /\ UNCHANGED <<dev, requests>> /\ sub.st = "idle"
    BY <1>6 DEF SubmitOut, Die, Keep
  <2>2. sub' = [st |-> "error", trbs |-> <<k>>, dir |-> "out"]
    BY <1>0, <1>3, <2>1
  <2>3. SubmissionOfKind'
    BY <1>3, <2>1, <2>2 DEF SubmissionOfKind
  <2>4. WithdrawsWhole' /\ LateAnswersAreCounted'
    BY <1>0, <1>4, <1>6, <2>1, <2>2 DEF WithdrawsWhole, LateAnswersAreCounted, UnderWay
  <2>5. sub' \in [st : {"idle", "collecting", "consumed", "awaiting", "error"},
                 trbs : Seq(Nat), dir : {"in", "out"}]
    BY <1>2, <2>2
  <2> QED
    BY <1>0, <1>1, <1>2, <2>1, <2>2, <2>3, <2>4, <2>5
<1>7. CASE worker' # "dead" /\ trbs[k] # "bad"
  <2>1. /\ worker' = "wait" /\ sub' = [sub EXCEPT !.st = "awaiting", !.trbs = <<k>>]
        /\ requests' = Append(requests, "out") /\ dev' = "open" /\ sub.st = "idle"
    BY <1>7 DEF SubmitOut, Die, Request
  <2>2. sub' = [st |-> "awaiting", trbs |-> <<k>>, dir |-> "out"]
    BY <1>0, <1>3, <2>1
  <2>3. /\ requests' \in Seq({"in", "out"}) /\ Len(requests') = Len(requests) + 1
        /\ \A i \in 1 .. Len(requests') : requests'[i] = "out"
    BY <1>0, <1>3, <2>1, Requesting
  <2>4. SubmissionOfKind'
    <3>1. sub'.st = "awaiting" /\ sub'.dir = "out" /\ kind' = "out" /\ responses' = responses
      BY <2>2
    <3>2. \A i \in 1 .. Len(responses') : responses'[i].dir = "out"
      BY <1>3, <3>1
    <3> QED
      BY <2>3, <3>1, <3>2 DEF SubmissionOfKind
  <2>5. WithdrawsWhole' /\ LateAnswersAreCounted'
    BY <1>0, <1>4, <1>7, <2>1, <2>2, <2>3 DEF WithdrawsWhole, LateAnswersAreCounted, UnderWay
  <2>6. sub' \in [st : {"idle", "collecting", "consumed", "awaiting", "error"},
                 trbs : Seq(Nat), dir : {"in", "out"}]
    BY <1>2, <2>2
  <2> QED
    BY <1>0, <1>1, <1>2, <2>1, <2>2, <2>3, <2>4, <2>5, <2>6
<1> QED
  BY <1>5, <1>6, <1>7

\* A TRB is collected.
LEMMA Collecting ==
    ASSUME NEW q \in Seq(Nat), NEW k \in Nat
    PROVE  /\ Len(Append(q, k)) = Len(q) + 1 /\ Append(q, k)[Len(q) + 1] = k
           /\ \A i \in 1 .. Len(q) : Append(q, k)[i] = q[i]
           /\ Len(q) \in Nat /\ Append(q, k) # <<>>
BY AppendProperties

\* A submission to an IN endpoint.
LEMMA SubmitInKeeps ==
    ASSUME WorkerInv, handle, kind = "in", worker = "look", NEW k \in Nat, SubmitIn(k),
           k <= Len(trbs), UNCHANGED <<kind, trbs, cmd, cmds, handle, token, responses>>
    PROVE  /\ worker' \in {"wait", "dead"} /\ dev' \in {"closed", "open", "gone"}
           /\ parser' \in [st : {"initial", "setup", "data"}, dir : {"in", "out"}]
           /\ sub' \in [st : {"idle", "collecting", "consumed", "awaiting", "error"},
                        trbs : Seq(Nat), dir : {"in", "out"}]
           /\ requests' \in Seq({"in", "out"})
           /\ \A i \in 1 .. Len(sub'.trbs) : sub'.trbs[i] <= Len(trbs)
           /\ sub'.st = "awaiting" => sub'.trbs # <<>>
           /\ SubmissionOfKind' /\ WithdrawsWhole' /\ LateAnswersAreCounted'
<1>0. /\ parser \in [st : {"initial", "setup", "data"}, dir : {"in", "out"}]
      /\ requests \in Seq({"in", "out"}) /\ Len(requests) \in Nat /\ Len(responses) \in Nat
      /\ sub \in [st : {"idle", "collecting", "consumed", "awaiting", "error"},
                  trbs : Seq(Nat), dir : {"in", "out"}]
      /\ \A i \in 1 .. Len(sub.trbs) : sub.trbs[i] <= Len(trbs)
      /\ sub.st = "awaiting" => sub.trbs # <<>>
      /\ dev \in {"closed", "open", "gone"}
  BY DEF WorkerInv, ContextTellsTheTruth, TypeOK, TrbsAreQueued
<1>1. UNCHANGED parser
  BY DEF SubmitIn
<1>2. sub.st \in {"collecting", "error", "awaiting"}
  BY DEF WorkerInv, SubmissionOfKind
<1>3. /\ UnderWay <= 1
      /\ sub.st # "awaiting" => UnderWay = 0
  BY DEF WorkerInv, WithdrawsWhole
<1>4. LateAnswersAreCounted'
  BY DEF LateAnswersAreCounted
<1>5. CASE worker' = "dead"
  <2>1. UNCHANGED <<sub, dev, requests>>
    BY <1>5 DEF SubmitIn, Die, Keep, Request
  <2>2. SubmissionOfKind' /\ WithdrawsWhole'
    BY <1>2, <1>3, <1>5, <2>1 DEF SubmissionOfKind, WithdrawsWhole, UnderWay
  <2> QED
    BY <1>0, <1>1, <1>4, <1>5, <2>1, <2>2
<1>6. CASE worker' # "dead" /\ trbs[k] = "bad"
  <2>1. /\ worker' = "wait" /\ sub' = [sub EXCEPT !.st = "error"]
        /\ UNCHANGED <<dev, requests>> /\ sub.st = "collecting"
    BY <1>6 DEF SubmitIn, Die, Keep
  <2>2. /\ sub' \in [st : {"idle", "collecting", "consumed", "awaiting", "error"},
                     trbs : Seq(Nat), dir : {"in", "out"}]
        /\ sub'.st = "error" /\ sub'.trbs = sub.trbs
    BY <1>0, <2>1
  <2>3. SubmissionOfKind' /\ WithdrawsWhole'
    BY <1>0, <1>3, <1>6, <2>1, <2>2 DEF SubmissionOfKind, WithdrawsWhole, UnderWay
  <2> QED
    BY <1>0, <1>1, <1>4, <2>1, <2>2, <2>3
<1>7. CASE worker' # "dead" /\ trbs[k] # "bad"
  <2>1. /\ worker' = "wait" /\ sub.st = "collecting" /\ dev' \in {dev, "open"}
        /\ sub' = IF trbs[k] = "chained" THEN [sub EXCEPT !.trbs = Append(@, k)]
                  ELSE [sub EXCEPT !.trbs = Append(@, k), !.st = "awaiting"]
        /\ requests' = IF trbs[k] = "chained" THEN requests ELSE Append(requests, "in")
    BY <1>7 DEF SubmitIn, Die, Keep, Request
  <2>2. /\ sub' \in [st : {"idle", "collecting", "consumed", "awaiting", "error"},
                     trbs : Seq(Nat), dir : {"in", "out"}]
        /\ sub'.trbs = Append(sub.trbs, k)
        /\ sub'.st = IF trbs[k] = "chained" THEN "collecting" ELSE "awaiting"
    <3>1. Append(sub.trbs, k) \in Seq(Nat)
      BY <1>0, AppendProperties
    <3>2. CASE trbs[k] = "chained"
      <4>1. sub' = [st |-> "collecting", trbs |-> Append(sub.trbs, k), dir |-> sub.dir]
        BY <1>0, <2>1, <3>2
      <4> QED
        BY <1>0, <3>1, <3>2, <4>1
    <3>3. CASE trbs[k] # "chained"
      <4>1. sub' = [st |-> "awaiting", trbs |-> Append(sub.trbs, k), dir |-> sub.dir]
        BY <1>0, <2>1, <3>3
      <4> QED
        BY <1>0, <3>1, <3>3, <4>1
    <3> QED
      BY <3>2, <3>3
  <2>3. /\ sub'.trbs # <<>>
        /\ \A i \in 1 .. Len(sub'.trbs) : sub'.trbs[i] <= Len(trbs)
    <3>1. /\ Len(sub'.trbs) = Len(sub.trbs) + 1 /\ sub'.trbs[Len(sub.trbs) + 1] = k
          /\ \A i \in 1 .. Len(sub.trbs) : sub'.trbs[i] = sub.trbs[i]
          /\ Len(sub.trbs) \in Nat /\ Append(sub.trbs, k) # <<>>
      <4>1. sub.trbs \in Seq(Nat) /\ sub'.trbs = Append(sub.trbs, k)
        BY <1>0, <2>2
      <4> QED
        BY <4>1, Collecting
    <3>2. ASSUME NEW i \in 1 .. Len(sub'.trbs)
          PROVE  sub'.trbs[i] <= Len(trbs)
      <4>1. i \in 1 .. Len(sub.trbs) \/ i = Len(sub.trbs) + 1
        BY <3>1
      <4> QED
        BY <1>0, <3>1, <4>1
    <3> QED
      BY <2>2, <3>1, <3>2
  <2>4. /\ requests' \in Seq({"in", "out"})
        /\ Len(requests') = Len(requests) + IF trbs[k] = "chained" THEN 0 ELSE 1
    BY <1>0, <2>1, Requesting
  <2>5. SubmissionOfKind'
    BY <2>2 DEF SubmissionOfKind
  <2>6. WithdrawsWhole'
    <3>1. UnderWay' = (IF sub'.st = "awaiting" THEN 1 ELSE 0)
      BY <1>0, <1>3, <2>1, <2>2, <2>4 DEF UnderWay
    <3>2. kind' = "in" /\ worker' = "wait"
      BY <2>1
    <3> QED
      BY <3>1, <3>2 DEF WithdrawsWhole
  <2> QED
    BY <1>0, <1>1, <1>4, <2>1, <2>2, <2>3, <2>4, <2>5, <2>6
<1> QED
  BY <1>5, <1>6, <1>7

\* The worker finds a TRB and submits it, or finds none.
LEMMA LookEndpoint == ASSUME WorkerInv, LookForTrb PROVE WorkerInv'
<1>0. /\ TypeOK /\ kind \in Kinds /\ worker = "look"
      /\ UNCHANGED <<kind, mem, trbs, rung, interrupter, ack, ctx, chan, cmd, cmds, handle,
                     token, responses>>
      /\ out' = {}
  BY DEF WorkerInv, ContextTellsTheTruth, TypeOK, LookForTrb, guest, hotplug
<1>1. /\ Slot = 0 .. Link /\ Link \in Nat /\ Link >= 2 /\ Slot' = Slot /\ Link' = Link
  <2>1. Slot' = Slot /\ Link' = Link
    BY <1>0 DEF Slot, Link
  <2> QED
    BY <1>0, <2>1, RingShape
<1>2. /\ NextTrb[1] \in Slot /\ NextTrb[2] \in BOOLEAN
      /\ Fresh(NextTrb[1], NextTrb[2]) => NextTrb[1] # Link
  <2>1. deq \in Slot /\ cs \in BOOLEAN
    BY <1>0 DEF TypeOK
  <2>2. CASE deq = Link /\ Fresh(deq, cs)
    <3>1. NextTrb = <<0, ~cs>>
      BY <2>2 DEF NextTrb
    <3> QED
      BY <1>1, <2>1, <3>1
  <2>3. CASE ~(deq = Link /\ Fresh(deq, cs))
    <3>1. NextTrb = <<deq, cs>>
      BY <2>3 DEF NextTrb
    <3> QED
      BY <2>1, <2>3, <3>1
  <2> QED
    BY <2>2, <2>3
<1>3. deq' = NextTrb[1] /\ cs' = NextTrb[2]
  BY DEF LookForTrb
<1>4. /\ mem[NextTrb[1]].trb \in Nat /\ mem[NextTrb[1]].trb <= Len(trbs)
  BY <1>0, <1>2 DEF TypeOK, WorkerInv, TrbsAreQueued
<1>5. hot = None
  BY <1>0 DEF WorkerInv, WaitingHasSubmitted
<1>6. CommandsArePending'
  BY <1>0 DEF WorkerInv, CommandsArePending
<1>7. ctx.state = "running"
  BY <1>0 DEF WorkerInv, ContextTellsTheTruth
<1>8. CASE ~Fresh(NextTrb[1], NextTrb[2])
  <2>1. worker' = "doorbell" /\ UNCHANGED <<hot, parser, sub, dev, requests>>
    BY <1>8 DEF LookForTrb, inner
  <2>2. ContextTellsTheTruth'
    BY <1>0, <1>1, <1>2, <1>3, <1>7, <2>1 DEF ContextTellsTheTruth, TypeOK, Receiving
  <2>3. TrbsAreQueued' /\ WaitingHasSubmitted' /\ SubmissionOfKind'
    BY <1>0, <1>1, <1>5, <2>1
       DEF WorkerInv, TrbsAreQueued, WaitingHasSubmitted, SubmissionOfKind
  <2>4. WithdrawsWhole' /\ LateAnswersAreCounted'
    BY <1>0, <2>1 DEF WorkerInv, WithdrawsWhole, LateAnswersAreCounted, UnderWay
  <2> QED
    BY <1>6, <2>2, <2>3, <2>4 DEF WorkerInv
<1>9. CASE Fresh(NextTrb[1], NextTrb[2])
  <2> DEFINE k == mem[NextTrb[1]].trb
  <2>1. /\ hot' = k
        /\ \/ ~handle /\ worker' = "wait" /\ UNCHANGED <<parser, sub, dev, requests>>
           \/ handle /\ kind = "control" /\ SubmitControl(k)
           \/ handle /\ kind = "out" /\ SubmitOut(k)
           \/ handle /\ kind = "in" /\ SubmitIn(k)
    BY <1>5, <1>9 DEF LookForTrb, inner
  <2>2. /\ worker' \in {"wait", "dead"} /\ dev' \in {"closed", "open", "gone"}
        /\ parser' \in [st : {"initial", "setup", "data"}, dir : {"in", "out"}]
        /\ sub' \in [st : {"idle", "collecting", "consumed", "awaiting", "error"},
                     trbs : Seq(Nat), dir : {"in", "out"}]
        /\ requests' \in Seq({"in", "out"})
        /\ \A i \in 1 .. Len(sub'.trbs) : sub'.trbs[i] <= Len(trbs)
        /\ kind = "in" /\ sub'.st = "awaiting" => sub'.trbs # <<>>
        /\ SubmissionOfKind' /\ WithdrawsWhole' /\ LateAnswersAreCounted'
    <3>1. CASE ~handle /\ worker' = "wait" /\ UNCHANGED <<parser, sub, dev, requests>>
      <4>1. /\ parser \in [st : {"initial", "setup", "data"}, dir : {"in", "out"}]
            /\ sub \in [st : {"idle", "collecting", "consumed", "awaiting", "error"},
                        trbs : Seq(Nat), dir : {"in", "out"}]
            /\ requests \in Seq({"in", "out"}) /\ dev \in {"closed", "open", "gone"}
            /\ \A i \in 1 .. Len(sub.trbs) : sub.trbs[i] <= Len(trbs)
            /\ kind = "in" /\ sub.st = "awaiting" => sub.trbs # <<>>
        BY DEF WorkerInv, ContextTellsTheTruth, TypeOK, TrbsAreQueued
      <4>2. SubmissionOfKind'
        BY <1>0, <3>1 DEF WorkerInv, SubmissionOfKind
      <4>3. WithdrawsWhole' /\ LateAnswersAreCounted'
        BY <1>0, <3>1 DEF WithdrawsWhole, LateAnswersAreCounted
      <4> QED
        BY <3>1, <4>1, <4>2, <4>3
    <3>2. CASE handle /\ kind = "control" /\ SubmitControl(k)
      BY <1>0, <1>4, <3>2, SubmitControlKeeps
    <3>3. CASE handle /\ kind = "out" /\ SubmitOut(k)
      BY <1>0, <1>4, <3>3, SubmitOutKeeps
    <3>4. CASE handle /\ kind = "in" /\ SubmitIn(k)
      BY <1>0, <1>4, <3>4, SubmitInKeeps
    <3> QED
      BY <2>1, <3>1, <3>2, <3>3, <3>4
  <2>3. deq' # Link' /\ hot' # None /\ hot' \in Nat /\ hot' <= Len(trbs)
    BY <1>1, <1>2, <1>3, <1>4, <1>9, <2>1, NoneAssumption
  <2>4. ContextTellsTheTruth'
    <3>1. TypeOK'
      BY <1>0, <1>1, <1>2, <1>3, <2>2, <2>3 DEF TypeOK, Receiving
    <3> QED
      BY <1>0, <1>7, <2>2, <3>1 DEF ContextTellsTheTruth
  <2>5. TrbsAreQueued'
    BY <1>0, <1>1, <2>2, <2>3 DEF WorkerInv, TrbsAreQueued
  <2>6. WaitingHasSubmitted'
    BY <1>0, <2>2, <2>3 DEF WorkerInv, WaitingHasSubmitted
  <2> QED
    BY <1>6, <2>2, <2>4, <2>5, <2>6 DEF WorkerInv
<1> QED
  BY <1>8, <1>9

-----------------------------------------------------------------------------
(* Completions *)

Codes == {"success", "short", "fault", "trberror"}

\* Of one or two TRBs that went well there is a last, which the driver takes note of.
LEMMA SendsOfQueued ==
    ASSUME TypeOK, NEW k \in 0 .. Len(trbs), NEW l \in 0 .. Len(trbs),
           NEW x \in Codes, NEW y \in Codes, Send({Event(k, x), Event(l, y)})
    PROVE  out' \subseteq Events /\ ack' \in 0 .. Len(trbs)
<1> DEFINE events == {Event(k, x), Event(l, y)}
           done == {e.trb : e \in {e \in events : e.code \in {"success", "short"}}}
<1>1. Len(trbs) \in Nat /\ ack \in 0 .. Len(trbs)
  BY DEF TypeOK
<1>2. out' = events /\ events \subseteq Events
  BY <1>1 DEF Send, Event, Events, Codes
<1>3. done \subseteq {k, l}
  BY DEF Event
<1>4. ack' = IF done = {} THEN ack ELSE CHOOSE i \in done : \A j \in done : j <= i
  BY DEF Send
<1> HIDE DEF done
<1>5. CASE done = {}
  BY <1>1, <1>2, <1>4, <1>5
<1>6. CASE done # {}
  <2>1. \E i \in done : \A j \in done : j <= i
    <3>1. PICK i \in done : TRUE
      BY <1>6
    <3>2. CASE \A j \in done : j <= i
      BY <3>2
    <3>3. CASE \E j \in done : ~(j <= i)
      <4>1. PICK j \in done : ~(j <= i)
        BY <3>3
      <4>2. i \in Nat /\ j \in Nat /\ i # j
        BY <1>3, <4>1
      <4>3. \A h \in done : h = i \/ h = j
        BY <1>3, <4>2
      <4> QED
        BY <4>1, <4>2, <4>3
    <3> QED
      BY <3>2, <3>3
  <2>2. ack' \in done
    BY <1>4, <1>6, <2>1
  <2> QED
    BY <1>2, <1>3, <2>2
<1> QED
  BY <1>5, <1>6

LEMMA SendsOfOne ==
    ASSUME TypeOK, NEW k \in 0 .. Len(trbs), NEW x \in Codes, Send({Event(k, x)})
    PROVE  out' \subseteq Events /\ ack' \in 0 .. Len(trbs)
<1>1. {Event(k, x)} = {Event(k, x), Event(k, x)}
  OBVIOUS
<1> QED
  BY <1>1, SendsOfQueued

LEMMA SendsOfNone == ASSUME TypeOK,
Send({}) PROVE out' \subseteq Events /\ ack' \in 0 .. Len(trbs)
<1>1. {e.trb : e \in {e \in {} : e.code \in {"success", "short"}}} = {}
  OBVIOUS
<1> QED
  BY <1>1 DEF Send, TypeOK

\* What a completion leaves true whatever its outcome: the worker goes on behind the
\* TRB, or is about to write the context.
LEMMA Completing ==
    ASSUME WorkerInv, worker = "wait", Completed,
           worker' \in {"look", "halting", "failing"}, deq' \in Slot, cs' \in BOOLEAN, ctx' = ctx,
           out' \subseteq Events, ack' \in 0 .. Len(trbs),
           token' \in BOOLEAN, token => token', sub' = sub \/ sub' = Idle(kind),
           responses' \in Seq([dir : {"in", "out"}, status : Statuses])
    PROVE  /\ ContextTellsTheTruth' /\ TrbsAreQueued'
           /\ CommandsArePending' /\ WaitingHasSubmitted'
<1>0. /\ TypeOK /\ ctx.state = "running"
      /\ UNCHANGED <<kind, mem, trbs, rung, interrupter, chan, cmd, cmds, handle, parser, dev,
                     requests>>
      /\ hot' = None
  BY DEF WorkerInv, ContextTellsTheTruth, Completed, guest
<1>1. Slot' = Slot
  BY <1>0 DEF Slot
<1>2. /\ sub \in [st : {"idle", "collecting", "consumed", "awaiting", "error"},
                  trbs : Seq(Nat), dir : {"in", "out"}]
      /\ Idle(kind) \in [st : {"idle", "collecting", "consumed", "awaiting", "error"},
                         trbs : Seq(Nat), dir : {"in", "out"}]
      /\ Len(Idle(kind).trbs) = 0 /\ Idle(kind).st # "awaiting"
  BY <1>0 DEF TypeOK, Idle
<1>3. ContextTellsTheTruth'
  <2>1. ctx' \in [state : {"running", "stopped", "halted", "error", "disabled"},
                  deq : Slot, cs : BOOLEAN]
    BY <1>0 DEF TypeOK
  <2>2. TypeOK'
    BY <1>0, <1>1, <1>2, <2>1 DEF TypeOK, Receiving
  <2> QED
    BY <1>0, <2>2 DEF ContextTellsTheTruth
<1>4. TrbsAreQueued'
  BY <1>0, <1>1, <1>2 DEF WorkerInv, TrbsAreQueued
<1>5. CommandsArePending' /\ WaitingHasSubmitted'
  BY <1>0 DEF WorkerInv, CommandsArePending, WaitingHasSubmitted
<1> QED
  BY <1>3, <1>4, <1>5

\* The TRB that is waited for has been queued, and the pointer can go past it.
LEMMA Waiting ==
    ASSUME WorkerInv, worker = "wait"
    PROVE  /\ hot \in 0 .. Len(trbs) /\ deq \in Slot /\ deq + 1 \in Slot /\ cs \in BOOLEAN
           /\ TypeOK /\ Len(trbs) \in Nat
<1>1. TypeOK /\ Slot = 0 .. Link /\ Link \in Nat /\ hot # None /\ deq # Link
  BY RingShape DEF WorkerInv, ContextTellsTheTruth, TypeOK, WaitingHasSubmitted
<1> QED
  BY <1>1 DEF TypeOK, WorkerInv, TrbsAreQueued

LEMMA DetachedEndpoint == ASSUME WorkerInv, CompleteDetached PROVE WorkerInv'
<1>1. /\ worker = "wait" /\ token /\ (handle => token) /\ Completed
      /\ worker' = "halting" /\ deq' = deq /\ cs' = cs /\ ctx' = ctx
      /\ UNCHANGED <<token, sub, responses>> /\ Send({Event(hot, "fault")})
  BY DEF CompleteDetached, HaltAt, WorkerInv, WaitingHasSubmitted
<1>2. UNCHANGED <<kind, cmd, cmds, handle, requests>>
  BY <1>1 DEF Completed, guest
<1>3. hot \in 0 .. Len(trbs) /\ TypeOK /\ deq \in Slot /\ cs \in BOOLEAN
  BY <1>1, Waiting
<1>4. out' \subseteq Events /\ ack' \in 0 .. Len(trbs)
  BY <1>1, <1>3, SendsOfOne DEF Codes
<1>5. token \in BOOLEAN /\ responses \in Seq([dir : {"in", "out"}, status : Statuses])
  BY <1>3 DEF TypeOK
<1>6. ContextTellsTheTruth' /\ TrbsAreQueued' /\ CommandsArePending' /\ WaitingHasSubmitted'
  BY <1>1, <1>3, <1>4, <1>5, Completing
<1>7. SubmissionOfKind'
  BY <1>1, <1>2 DEF WorkerInv, SubmissionOfKind
<1>8. WithdrawsWhole' /\ LateAnswersAreCounted'
  <2>1. UnderWay' = UnderWay /\ UnderWay \in Nat /\ cmds \in Nat
    BY <1>1, <1>2, <1>3, BoundsAssumption DEF UnderWay, TypeOK
  <2> QED
    BY <1>1, <1>2, <2>1 DEF WorkerInv, WithdrawsWhole, LateAnswersAreCounted
<1> QED
  BY <1>6, <1>7, <1>8 DEF WorkerInv

LEMMA IdleOfKind ==
    ASSUME kind \in Kinds
    PROVE  /\ Idle(kind).st = (IF kind = "in" THEN "collecting" ELSE "idle")
           /\ Idle(kind).dir = "out" /\ Idle(kind).st # "awaiting"
BY DEF Idle

LEMMA LocalEndpoint == ASSUME WorkerInv, CompleteLocally PROVE WorkerInv'
<1>1. /\ worker = "wait" /\ handle /\ Completed /\ UNCHANGED <<token, responses>>
  BY DEF CompleteLocally
<1>2. UNCHANGED <<kind, cmd, cmds, handle, requests>>
  BY <1>1 DEF Completed, guest
<1>3. /\ hot \in 0 .. Len(trbs) /\ TypeOK /\ deq \in Slot /\ deq + 1 \in Slot /\ cs \in BOOLEAN
      /\ kind \in Kinds
  BY <1>1, Waiting DEF TypeOK
<1>4. /\ sub.st \in {"consumed", "collecting", "error"}
      /\ worker' \in {"look", "failing"} /\ deq' \in Slot /\ cs' \in BOOLEAN /\ ctx' = ctx
      /\ sub' = Idle(kind) \/ (sub.st = "collecting" /\ sub' = sub)
      /\ out' \subseteq Events /\ ack' \in 0 .. Len(trbs)
  <2>1. CASE sub.st = "consumed" /\ sub' = Idle(kind) /\ Send({}) /\ Advance
    BY <1>3, <2>1, SendsOfNone DEF Advance
  <2>2. CASE sub.st = "collecting" /\ UNCHANGED sub /\ Send({}) /\ Advance
    BY <1>3, <2>2, SendsOfNone DEF Advance
  <2>3. CASE /\ sub.st = "error" /\ sub' = Idle(kind)
             /\ Send(IF kind = "in" THEN {} ELSE {Event(hot, "trberror")})
             /\ TrbError
    <3>1. out' \subseteq Events /\ ack' \in 0 .. Len(trbs)
      BY <1>3, <2>3, SendsOfNone, SendsOfOne DEF Codes
    <3> QED
      BY <1>3, <2>3, <3>1 DEF TrbError, ring
  <2> QED
    BY <2>1, <2>2, <2>3 DEF CompleteLocally
<1>5. token \in BOOLEAN /\ responses \in Seq([dir : {"in", "out"}, status : Statuses])
  BY <1>3 DEF TypeOK
<1>6. ContextTellsTheTruth' /\ TrbsAreQueued' /\ CommandsArePending' /\ WaitingHasSubmitted'
  <2>1. sub' = sub \/ sub' = Idle(kind)
    BY <1>4
  <2> QED
    BY <1>1, <1>3, <1>4, <1>5, <2>1, Completing
<1>7. SubmissionOfKind'
  BY <1>1, <1>2, <1>3, <1>4, IdleOfKind DEF WorkerInv, SubmissionOfKind
<1>8. UnderWay' = UnderWay /\ UnderWay \in Nat /\ cmds \in Nat
  BY <1>1, <1>2, <1>3, BoundsAssumption DEF UnderWay, TypeOK
<1>9. sub'.st # "awaiting"
  BY <1>3, <1>4, IdleOfKind
<1>10. WithdrawsWhole'
  <2> SUFFICES ASSUME kind # "control" PROVE WithdrawsWhole'
    BY <1>2 DEF WithdrawsWhole
  <2>1. UnderWay = 0
    BY <1>1, <1>4 DEF WorkerInv, WithdrawsWhole
  <2>2. sub'.st = IF kind = "in" THEN "collecting" ELSE "idle"
    BY <1>3, <1>4, IdleOfKind, KindsAssumption DEF WorkerInv, SubmissionOfKind
  <2> QED
    BY <1>2, <1>4, <1>8, <2>1, <2>2 DEF WithdrawsWhole
<1>11. LateAnswersAreCounted'
  BY <1>1, <1>2, <1>4, <1>8, <1>9 DEF WorkerInv, LateAnswersAreCounted
<1> QED
  BY <1>6, <1>7, <1>10, <1>11 DEF WorkerInv

\* An answer is taken from those the device has given.
LEMMA TakingAnswer ==
    ASSUME TypeOK, responses # <<>>, responses' = Tail(responses)
    PROVE  /\ responses' \in Seq([dir : {"in", "out"}, status : Statuses])
           /\ Len(responses') = Len(responses) - 1 /\ Len(responses) \in Nat
           /\ Head(responses) = responses[1] /\ 1 \in 1 .. Len(responses)
           /\ Head(responses) \in [dir : {"in", "out"}, status : Statuses]
           /\ \A i \in 1 .. Len(responses') :
                 responses'[i] = responses[i + 1] /\ i + 1 \in 1 .. Len(responses)
<1> DEFINE Answer == [dir : {"in", "out"}, status : Statuses]
<1>1. responses \in Seq(Answer)
  BY DEF TypeOK
<1> HIDE DEF Answer
<1>2. /\ responses' \in Seq(Answer)
      /\ Len(responses') = Len(responses) - 1 /\ Len(responses) \in Nat /\ Len(responses) > 0
      /\ Head(responses) = responses[1]
      /\ Head(responses) \in Answer
      /\ \A i \in 1 .. Len(responses') :
            responses'[i] = responses[i + 1] /\ i + 1 \in 1 .. Len(responses)
  BY <1>1, HeadTailProperties, EmptySeq
<1> QED
  BY <1>2 DEF Answer

\* The answer of the transfer that was awaited has been taken, or there will be none.
LEMMA AnswerTaken ==
    ASSUME WorkerInv, DeviceOfKind, worker = "wait", handle, sub.st = "awaiting",
           \/ responses # <<>> /\ responses' = Tail(responses)
           \/ responses = <<>> /\ responses' = <<>> /\ dev = "gone",
           UNCHANGED <<kind, cmd, cmds, handle, dev, requests>>,
           worker' \in {"look", "halting"}, sub' = Idle(kind), token => token', token \in BOOLEAN
    PROVE  SubmissionOfKind' /\ WithdrawsWhole' /\ LateAnswersAreCounted'
<1>1. TypeOK /\ kind \in Kinds /\ cmds \in Nat /\ Len(requests) \in Nat
  BY BoundsAssumption DEF WorkerInv, ContextTellsTheTruth, TypeOK
<1>2. /\ sub'.st = (IF kind = "in" THEN "collecting" ELSE "idle")
      /\ sub'.dir = "out" /\ sub'.st # "awaiting"
  BY <1>1, IdleOfKind
<1>3. CASE responses # <<>> /\ responses' = Tail(responses)
  <2>1. /\ UnderWay' = UnderWay - 1 /\ UnderWay \in Nat
        /\ \A i \in 1 .. Len(responses') :
              responses'[i] = responses[i + 1] /\ i + 1 \in 1 .. Len(responses)
    BY <1>1, <1>3, TakingAnswer DEF UnderWay
  <2>2. SubmissionOfKind'
    BY <1>2, <2>1 DEF WorkerInv, SubmissionOfKind
  <2>3. WithdrawsWhole'
    BY <1>2, <2>1 DEF WorkerInv, WithdrawsWhole
  <2>4. LateAnswersAreCounted'
    BY <1>1, <1>2, <2>1 DEF WorkerInv, LateAnswersAreCounted
  <2> QED
    BY <2>2, <2>3, <2>4
<1>4. CASE responses = <<>> /\ responses' = <<>> /\ dev = "gone"
  <2>1. kind = "control" /\ Len(requests') = 0 /\ Len(responses') = 0
    BY <1>4 DEF DeviceOfKind
  <2>2. UnderWay' = 0 /\ (cmd # None => cmds > 0)
    BY <2>1 DEF UnderWay, WorkerInv, CommandsArePending
  <2>3. SubmissionOfKind' /\ WithdrawsWhole'
    BY <2>1 DEF SubmissionOfKind, WithdrawsWhole
  <2>4. LateAnswersAreCounted'
    BY <1>1, <1>2, <2>2 DEF LateAnswersAreCounted
  <2> QED
    BY <2>3, <2>4
<1> QED
  BY <1>3, <1>4

\* A worker that dies may have taken a message or an answer.
LEMMA Dying ==
    ASSUME WorkerInv, worker # "dead", worker' = "dead", out' = {},
           UNCHANGED <<kind, mem, trbs, rung, interrupter, ack, deq, cs, cmds, hot, handle, token,
                       parser, sub, dev, requests>>,
           ctx' \in [state : {"running", "stopped", "halted", "error", "disabled"},
                     deq : Slot, cs : BOOLEAN],
           cmd' \in Commands \cup {None}, chan' \in Seq(Message), CommandsArePending',
           responses' = responses \/ (responses # <<>> /\ responses' = Tail(responses))
    PROVE  WorkerInv'
<1>1. TypeOK
  BY DEF WorkerInv, ContextTellsTheTruth
<1>2. Slot' = Slot /\ Link' = Link
  BY DEF Slot, Link
<1>3. /\ responses' \in Seq([dir : {"in", "out"}, status : Statuses])
      /\ UnderWay' <= UnderWay /\ UnderWay \in Nat /\ UnderWay' \in Nat
      /\ (\A i \in 1 .. Len(responses) : responses[i].dir = "out")
            => \A i \in 1 .. Len(responses') : responses'[i].dir = "out"
  <2>1. CASE UNCHANGED responses
    <3>1. UnderWay' = UnderWay /\ UnderWay \in Nat
      BY <1>1, <2>1 DEF TypeOK, UnderWay
    <3> QED
      BY <1>1, <2>1, <3>1 DEF TypeOK
  <2>2. CASE responses # <<>> /\ responses' = Tail(responses)
    <3>1. /\ responses' \in Seq([dir : {"in", "out"}, status : Statuses])
          /\ Len(responses') = Len(responses) - 1 /\ Len(responses) \in Nat
          /\ 1 \in 1 .. Len(responses)
          /\ \A i \in 1 .. Len(responses') :
                responses'[i] = responses[i + 1] /\ i + 1 \in 1 .. Len(responses)
      BY <1>1, <2>2, TakingAnswer
    <3>2. Len(requests) \in Nat
      BY <1>1 DEF TypeOK
    <3>3. UnderWay' = UnderWay - 1 /\ UnderWay \in Nat /\ UnderWay' \in Nat
      BY <3>1, <3>2 DEF UnderWay
    <3> QED
      BY <3>1, <3>3
  <2> QED
    BY <2>1, <2>2
<1>4. ContextTellsTheTruth'
  <2>1. TypeOK'
    BY <1>1, <1>2, <1>3 DEF TypeOK
  <2> QED
    BY <2>1 DEF ContextTellsTheTruth
<1>5. TrbsAreQueued' /\ WaitingHasSubmitted'
  BY <1>2 DEF WorkerInv, TrbsAreQueued, WaitingHasSubmitted
<1>6. SubmissionOfKind'
  BY <1>3 DEF WorkerInv, SubmissionOfKind
<1>7. WithdrawsWhole'
  BY <1>3 DEF WorkerInv, WithdrawsWhole
<1>8. LateAnswersAreCounted'
  BY DEF LateAnswersAreCounted
<1> QED
  BY <1>4, <1>5, <1>6, <1>7, <1>8 DEF WorkerInv

\* A worker that dies without having taken a message.
LEMMA DyingAlone ==
    ASSUME WorkerInv, worker # "dead", worker' = "dead", out' = {},
           UNCHANGED <<kind, mem, trbs, rung, interrupter, ack, deq, cs, ctx, chan, cmd, cmds,
                       hot,
                       handle, token, parser, sub, dev, requests>>,
           responses' = responses \/ (responses # <<>> /\ responses' = Tail(responses))
    PROVE  WorkerInv'
<1>1. /\ ctx' \in [state : {"running", "stopped", "halted", "error", "disabled"},
                   deq : Slot, cs : BOOLEAN]
      /\ cmd' \in Commands \cup {None} /\ chan' \in Seq(Message)
  BY DEF WorkerInv, ContextTellsTheTruth, TypeOK
<1>2. CommandsArePending'
  BY DEF WorkerInv, CommandsArePending
<1> QED
  BY <1>1, <1>2, Dying

LEMMA TransferEndpoint ==
    ASSUME WorkerInv, DeviceOfKind, CompleteTransfer
    PROVE  WorkerInv'
<1>1. /\ worker = "wait" /\ handle /\ sub.st = "awaiting" /\ kind \in {"control", "out"}
      /\ responses' = IF responses = <<>> THEN <<>> ELSE Tail(responses)
  BY DEF CompleteTransfer
<1>2. /\ hot \in 0 .. Len(trbs) /\ TypeOK /\ deq \in Slot /\ deq + 1 \in Slot /\ cs \in BOOLEAN
  BY <1>1, Waiting
<1>3. token \in BOOLEAN /\ responses' \in Seq([dir : {"in", "out"}, status : Statuses])
  BY <1>1, <1>2, TakingAnswer DEF TypeOK
<1>4. PICK r \in Results :
         IF r.status = "success" /\ r.dir # sub.dir
         THEN /\ Die
              /\ out' = {} /\ UNCHANGED <<ack, ring, ctx, hot, guest, chan, cmd, cmds, hotplug,
                                         parser>>
         ELSE /\ \/ /\ r.status = "success"
                    /\ Send({Event(hot, "success")}) /\ Advance
                 \/ /\ r.status # "success"
                    /\ Send({Event(hot, "fault")}) /\ HaltAt(deq, cs)
              /\ token' = (token \/ r.status = "disconnect")
              /\ sub' = Idle(kind)
              /\ Completed
  BY DEF CompleteTransfer
<1>5. \/ responses # <<>> /\ responses' = Tail(responses)
      \/ /\ responses = <<>> /\ responses' = <<>> /\ dev = "gone"
         /\ r = [dir |-> sub.dir, status |-> "fault"]
  BY <1>1, <1>4 DEF Results
<1>6. CASE r.status = "success" /\ r.dir # sub.dir
  <2>1. /\ worker' = "dead" /\ out' = {}
        /\ UNCHANGED <<kind, mem, trbs, rung, interrupter, ack, deq, cs, ctx, chan, cmd, cmds,
                       hot,
                       handle, token, parser, sub, dev, requests>>
    BY <1>4, <1>6 DEF Die, guest, ring, hotplug
  <2> QED
    BY <1>1, <1>5, <2>1, DyingAlone
<1>7. CASE ~(r.status = "success" /\ r.dir # sub.dir)
  <2>1. /\ \/ Send({Event(hot, "success")}) /\ Advance
           \/ Send({Event(hot, "fault")}) /\ HaltAt(deq, cs)
        /\ token' = (token \/ r.status = "disconnect") /\ sub' = Idle(kind) /\ Completed
    BY <1>4, <1>7
  <2>2. /\ worker' \in {"look", "halting"} /\ deq' \in Slot /\ cs' \in BOOLEAN /\ ctx' = ctx
        /\ out' \subseteq Events /\ ack' \in 0 .. Len(trbs)
    BY <1>2, <2>1, SendsOfOne DEF Codes, Advance, HaltAt
  <2>3. ContextTellsTheTruth' /\ TrbsAreQueued' /\ CommandsArePending' /\ WaitingHasSubmitted'
    BY <1>1, <1>3, <2>1, <2>2, Completing
  <2>4. UNCHANGED <<kind, cmd, cmds, handle, dev, requests>>
    BY <2>1 DEF Completed, guest
  <2>5. token => token'
    BY <1>3, <2>1
  <2>6. SubmissionOfKind' /\ WithdrawsWhole' /\ LateAnswersAreCounted'
    BY <1>1, <1>3, <1>5, <2>1, <2>2, <2>4, <2>5, AnswerTaken
  <2> QED
    BY <2>3, <2>6 DEF WorkerInv
<1> QED
  BY <1>6, <1>7

\* The deaths over an Event Data TRB and over an interrupter that is gone.
LEMMA EventDataEndpoint == ASSUME WorkerInv, MeetEventData PROVE WorkerInv'
<1>1. /\ worker = "wait" /\ worker' = "dead" /\ out' = {}
      /\ responses # <<>> /\ responses' = Tail(responses)
      /\ UNCHANGED <<kind, mem, trbs, rung, interrupter, ack, deq, cs, ctx, chan, cmd, cmds, hot,
                     handle, token, parser, sub, dev, requests>>
  BY DEF MeetEventData, Die, guest, ring, hotplug
<1> QED
  BY <1>1, DyingAlone

LEMMA SendFailsEndpoint == ASSUME WorkerInv, SendFails PROVE WorkerInv'
<1>1. /\ worker = "wait" /\ worker' = "dead" /\ out' = {} /\ UNCHANGED responses
      /\ UNCHANGED <<kind, mem, trbs, rung, interrupter, ack, deq, cs, ctx, chan, cmd, cmds, hot,
                     handle, token, parser, sub, dev, requests>>
  BY DEF SendFails, EventIsDue, Die, guest, ring, hotplug
<1> QED
  BY <1>1, DyingAlone

\* The context follows the event of a failed transfer.
LEMMA ContextEndpoint == ASSUME WorkerInv, WriteContext PROVE WorkerInv'
<1>1. /\ TypeOK /\ out' = {}
      /\ \/ worker = "halting" /\ worker' = "halted"
         \/ worker = "failing" /\ worker' = "error"
      /\ ctx' = [state |-> worker', deq |-> deq, cs |-> cs]
      /\ UNCHANGED <<kind, mem, trbs, rung, interrupter, ack, deq, cs, chan, cmd, cmds, hot,
                     handle,
                     token, parser, sub, dev, requests, responses>>
  BY DEF WriteContext, Enter, guest, ring, hotplug, inner, real, WorkerInv, ContextTellsTheTruth
<1>2. Slot' = Slot /\ Link' = Link
  BY <1>1 DEF Slot, Link
<1>3. ContextTellsTheTruth'
  <2>1. ctx' \in [state : {"running", "stopped", "halted", "error", "disabled"},
                  deq : Slot, cs : BOOLEAN]
    BY <1>1 DEF TypeOK
  <2>2. TypeOK'
    BY <1>1, <1>2, <2>1 DEF TypeOK, Receiving
  <2> QED
    BY <1>1, <2>2 DEF ContextTellsTheTruth
<1>4. TrbsAreQueued' /\ CommandsArePending' /\ WaitingHasSubmitted' /\ SubmissionOfKind'
  BY <1>1, <1>2
     DEF WorkerInv, TrbsAreQueued, CommandsArePending, WaitingHasSubmitted, SubmissionOfKind
<1>5. WithdrawsWhole' /\ LateAnswersAreCounted'
  BY <1>1 DEF WorkerInv, WithdrawsWhole, LateAnswersAreCounted, UnderWay
<1> QED
  BY <1>3, <1>4, <1>5 DEF WorkerInv

LEMMA InEndpoint == ASSUME WorkerInv, DeviceOfKind, CompleteIn PROVE WorkerInv'
<1>1. /\ worker = "wait" /\ handle /\ kind = "in" /\ sub.st = "awaiting" /\ responses # <<>>
      /\ responses' = Tail(responses) /\ sub' = Idle(kind) /\ Completed
  BY DEF CompleteIn
<1>2. /\ TypeOK /\ deq \in Slot /\ deq + 1 \in Slot /\ cs \in BOOLEAN /\ kind \in Kinds
  BY <1>1, Waiting DEF TypeOK
<1>3. token \in BOOLEAN /\ responses' \in Seq([dir : {"in", "out"}, status : Statuses])
  BY <1>1, <1>2, TakingAnswer DEF TypeOK
<1>4. \A i \in 1 .. Len(sub.trbs) : sub.trbs[i] \in 0 .. Len(trbs)
  BY <1>2 DEF TypeOK, WorkerInv, TrbsAreQueued
<1> DEFINE last == sub.trbs[Len(sub.trbs)]
<1>5. last \in 0 .. Len(trbs)
  <2>1. sub.trbs # <<>> /\ sub.trbs \in Seq(Nat)
    BY <1>1, <1>2 DEF WorkerInv, TrbsAreQueued, TypeOK
  <2>2. Len(sub.trbs) \in 1 .. Len(sub.trbs)
    BY <2>1, EmptySeq
  <2> QED
    BY <1>4, <2>2
<1>6. /\ worker' \in {"look", "halting"} /\ deq' \in Slot /\ cs' \in BOOLEAN /\ ctx' = ctx
      /\ out' \subseteq Events /\ ack' \in 0 .. Len(trbs)
      /\ token' \in BOOLEAN
      /\ token => token'
  <2>1. CASE Send({Event(last, "success")}) /\ Advance /\ UNCHANGED token
    BY <1>2, <1>3, <1>5, <2>1, SendsOfOne DEF Codes, Advance
  <2>2. ASSUME NEW i \in 1 .. Len(sub.trbs),
               \/ /\ Send({Event(sub.trbs[i], "short"), Event(last, "short")})
                  /\ Advance /\ UNCHANGED token
               \/ /\ Send({Event(sub.trbs[i], "fault")}) /\ RewindTo(sub.trbs[i])
                  /\ UNCHANGED token
               \/ /\ Send({Event(sub.trbs[i], "fault")}) /\ HaltAt(deq, cs) /\ token' = TRUE
        PROVE  <1>6!:
    <3>1. out' \subseteq Events /\ ack' \in 0 .. Len(trbs)
      BY <1>2, <1>4, <1>5, <2>2, SendsOfOne, SendsOfQueued DEF Codes
    <3>2. Place(sub.trbs[i]) \in Slot /\ mem[Place(sub.trbs[i])].cycle \in BOOLEAN
      <4>1. sub.trbs[i] \in Int
        BY <1>2, <1>4 DEF TypeOK
      <4> QED
        BY <1>2, <4>1, RingShape DEF TypeOK
    <3> QED
      BY <1>2, <1>3, <2>2, <3>1, <3>2 DEF Advance, HaltAt, RewindTo
  <2> QED
    BY <2>1, <2>2 DEF CompleteIn
<1> HIDE DEF last
<1>7. ContextTellsTheTruth' /\ TrbsAreQueued' /\ CommandsArePending' /\ WaitingHasSubmitted'
  BY <1>1, <1>3, <1>6, Completing
<1>8. UNCHANGED <<kind, cmd, cmds, handle, dev, requests>>
  BY <1>1 DEF Completed, guest
<1>9. SubmissionOfKind' /\ WithdrawsWhole' /\ LateAnswersAreCounted'
  BY <1>1, <1>3, <1>6, <1>8, AnswerTaken
<1> QED
  BY <1>7, <1>9 DEF WorkerInv

-----------------------------------------------------------------------------
(* Messages *)

\* A doorbell that is taken leaves the other messages in order.
LEMMA DoorbellTaken ==
    ASSUME WorkerInv, Receive("doorbell"), UNCHANGED <<trbs, cmd, cmds>>
    PROVE  CommandsArePending' /\ chan' \in Seq(Message)
<1>1. chan \in Seq(Message) /\ chan # <<>> /\ Head(chan).op = "doorbell" /\ chan' = Tail(chan)
  BY DEF WorkerInv, ContextTellsTheTruth, TypeOK, Receive
<1>2. /\ Head(chan) = chan[1] /\ chan' \in Seq(Message) /\ Len(chan') = Len(chan) - 1
      /\ Len(chan) \in Nat
      /\ \A i \in 1 .. Len(chan') : i + 1 \in 1 .. Len(chan) /\ chan'[i] = chan[i + 1]
  BY <1>1, Taking
<1>3. ASSUME NEW i \in 1 .. Len(chan')
      PROVE  /\ chan'[i].op \in Commands =>
                   cmd = chan'[i].op /\ \A j \in 1 .. Len(chan') : chan'[j].op \in Commands => i = j
             /\ chan'[i].op = "setdeq" => chan'[i].trb \in 1 .. Len(trbs) + 1
             /\ chan'[i].op = "terminate" => i = Len(chan')
             /\ chan'[i].op = "closed" => Len(chan') = 1
  <2>1. i + 1 \in 1 .. Len(chan) /\ chan'[i] = chan[i + 1]
    BY <1>2
  <2>2. /\ chan[i + 1].op \in Commands =>
              /\ cmd = chan[i + 1].op
              /\ \A j \in 1 .. Len(chan) : chan[j].op \in Commands => i + 1 = j
        /\ chan[i + 1].op = "setdeq" => chan[i + 1].trb \in 1 .. Len(trbs) + 1
        /\ chan[i + 1].op = "terminate" => i + 1 = Len(chan)
        /\ chan[i + 1].op = "closed" => Len(chan) = 1
    BY <2>1 DEF WorkerInv, CommandsArePending
  <2>3. ASSUME chan[i + 1].op \in Commands, NEW j \in 1 .. Len(chan'), chan'[j].op \in Commands
        PROVE  i = j
    <3>1. j + 1 \in 1 .. Len(chan) /\ chan[j + 1].op \in Commands
      BY <1>2, <2>3
    <3>2. i + 1 = j + 1
      BY <2>2, <2>3, <3>1
    <3> QED
      BY <3>2
  <2> QED
    BY <1>2, <2>1, <2>2, <2>3
<1> QED
  BY <1>2, <1>3 DEF WorkerInv, CommandsArePending

LEMMA DoorbellEndpoint == ASSUME WorkerInv, ReceiveDoorbell PROVE WorkerInv'
<1>1. /\ Receive("doorbell") /\ worker \in Receiving /\ out' = {} /\ TypeOK
      /\ UNCHANGED <<kind, mem, trbs, rung, interrupter, ack, deq, cs, cmd, cmds, hot, handle,
                     token, parser, sub,
                     dev, requests, responses>>
  BY DEF ReceiveDoorbell, Receive, guest, ring, hotplug, inner, real, WorkerInv,
         ContextTellsTheTruth
<1>2. CommandsArePending' /\ chan' \in Seq(Message)
  BY <1>1, DoorbellTaken
<1>3. /\ worker' = IF worker \in {"doorbell", "stopped", "continuable"} THEN "look" ELSE worker
      /\ ctx' = IF worker \in {"stopped", "continuable"}
                THEN [ctx EXCEPT !.state = "running"] ELSE ctx
  BY DEF ReceiveDoorbell
<1>4. Slot' = Slot /\ Link' = Link
  BY <1>1 DEF Slot, Link
<1>5. ctx' \in [state : {"running", "stopped", "halted", "error", "disabled"},
                deq : Slot, cs : BOOLEAN]
      /\ (worker \in {"stopped", "continuable"} => ctx'.state = "running")
  BY <1>1, <1>3 DEF TypeOK
<1>6. ContextTellsTheTruth'
  <2>1. TypeOK'
    BY <1>1, <1>2, <1>3, <1>4, <1>5 DEF TypeOK, Receiving
  <2> QED
    BY <1>1, <1>3, <1>5, <2>1 DEF WorkerInv, ContextTellsTheTruth, Receiving
<1>7. TrbsAreQueued' /\ SubmissionOfKind'
  BY <1>1, <1>4 DEF WorkerInv, TrbsAreQueued, SubmissionOfKind
<1>8. WaitingHasSubmitted'
  BY <1>1, <1>3, <1>4 DEF WorkerInv, WaitingHasSubmitted
<1>9. /\ worker' = "wait" <=> worker = "wait"
      /\ worker' \in {"halting", "halted"} <=> worker \in {"halting", "halted"}
      /\ worker' # "dead" /\ worker # "dead"
  BY <1>1, <1>3 DEF Receiving
<1>10. WithdrawsWhole' /\ LateAnswersAreCounted'
  BY <1>1, <1>9 DEF WorkerInv, WithdrawsWhole, LateAnswersAreCounted, UnderWay
<1> QED
  BY <1>2, <1>6, <1>7, <1>8, <1>10 DEF WorkerInv

\* What a command leaves true that leaves the TRB and its transfer alone.
LEMMA Commanding ==
    ASSUME WorkerInv, NEW op \in Commands, Receive(op), cmd' = None,
           UNCHANGED <<kind, mem, trbs, rung, interrupter, cmds, hot, handle, token, parser, sub,
                       requests, responses>>,
           dev' \in {"closed", "open", "gone"}, dev' = "gone" => dev = "gone",
           dev = "gone" => dev' = "gone",
           deq' \in Slot, cs' \in BOOLEAN, ack' \in 0 .. Len(trbs),
           \/ UNCHANGED <<worker, ctx, deq, cs>>
           \/ /\ worker \in {"doorbell", "halted", "error", "continuable", "stopped"}
              /\ worker' = "stopped" /\ ctx' = [state |-> "stopped", deq |-> deq', cs |-> cs']
    PROVE  WorkerInv'
<1>1. TypeOK /\ worker \in Receiving /\ out' = {}
  BY DEF Receive, WorkerInv, ContextTellsTheTruth
<1>2. /\ CommandsArePending' /\ chan' \in Seq(Message)
      /\ cmd = op /\ cmds > 0 /\ cmd # None
  BY CommandTaken, NoneAssumption
<1>3. Slot' = Slot /\ Link' = Link
  BY DEF Slot, Link
<1>4. \/ UNCHANGED <<worker, ctx, deq, cs>>
      \/ /\ worker \in {"doorbell", "halted", "error", "continuable", "stopped"}
         /\ worker' = "stopped" /\ ctx' = [state |-> "stopped", deq |-> deq', cs |-> cs']
  OBVIOUS
<1>5. ContextTellsTheTruth'
  <2>1. ctx' \in [state : {"running", "stopped", "halted", "error", "disabled"},
                  deq : Slot, cs : BOOLEAN]
    BY <1>1, <1>4 DEF TypeOK
  <2>2. worker' \in Receiving \cup {"look", "halting", "failing", "ended", "dead"}
        /\ cmds' \in 0 .. MaxCommands
    BY <1>1, <1>4 DEF TypeOK, Receiving
  <2>3. TypeOK'
    BY <1>1, <1>2, <1>3, <2>1, <2>2 DEF TypeOK
  <2> QED
    BY <1>4, <2>3 DEF WorkerInv, ContextTellsTheTruth
<1>6. TrbsAreQueued' /\ SubmissionOfKind'
  BY <1>3 DEF WorkerInv, TrbsAreQueued, SubmissionOfKind
<1>7. WaitingHasSubmitted'
  BY <1>3, <1>4 DEF WorkerInv, WaitingHasSubmitted
<1>8. UnderWay' = UnderWay /\ UnderWay \in Nat /\ cmds \in Nat
  BY <1>1, BoundsAssumption DEF UnderWay, TypeOK
<1>9. WithdrawsWhole'
  BY <1>4, <1>8 DEF WorkerInv, WithdrawsWhole
<1>10. LateAnswersAreCounted'
  BY <1>2, <1>4, <1>8 DEF WorkerInv, LateAnswersAreCounted
<1> QED
  BY <1>2, <1>5, <1>6, <1>7, <1>9, <1>10 DEF WorkerInv

\* A command over which the endpoint could not be opened.
LEMMA CommandKills ==
    ASSUME WorkerInv, NEW op \in Commands, Receive(op), worker' = "dead", UNCHANGED cmd,
           UNCHANGED <<kind, mem, trbs, rung, interrupter, ack, deq, cs, cmds, hot, handle, token,
                       parser, sub, dev, requests, responses>>,
           ctx' = ctx \/ ctx' = [state |-> "stopped", deq |-> deq, cs |-> cs]
    PROVE  WorkerInv'
<1>1. TypeOK /\ worker # "dead" /\ out' = {}
  BY DEF Receive, Receiving, WorkerInv, ContextTellsTheTruth
<1>2. /\ ctx' \in [state : {"running", "stopped", "halted", "error", "disabled"},
                   deq : Slot, cs : BOOLEAN]
      /\ cmd' \in Commands \cup {None}
  BY <1>1 DEF TypeOK
<1>3. CommandsArePending' /\ chan' \in Seq(Message)
  BY CommandTaken
<1> QED
  BY <1>1, <1>2, <1>3, Dying

LEMMA ResetEndpoint == ASSUME WorkerInv, ReceiveReset PROVE WorkerInv'
<1>1. /\ Receive("reset") /\ "reset" \in Commands /\ TypeOK
      /\ UNCHANGED <<kind, mem, trbs, rung, interrupter, ack, deq, cs, cmds, hot, handle, token,
                     parser, sub, requests, responses>>
  BY DEF ReceiveReset, guest, ring, hotplug, inner, WorkerInv, ContextTellsTheTruth, Commands
<1>2. CASE cmd' = None /\ ~(worker = "halted" /\ OpenFails /\ UNCHANGED <<ctx, cmd, dev>>)
  <2>1. \/ UNCHANGED <<worker, ctx, deq, cs>>
        \/ /\ worker \in {"doorbell", "halted", "error", "continuable", "stopped"}
           /\ worker' = "stopped" /\ ctx' = [state |-> "stopped", deq |-> deq', cs |-> cs']
    BY <1>1, <1>2 DEF ReceiveReset, Enter
  <2>2. /\ deq' \in Slot /\ cs' \in BOOLEAN /\ ack' \in 0 .. Len(trbs)
        /\ dev' = dev \/ (dev = "closed" /\ dev' = "open")
    BY <1>1, <1>2 DEF TypeOK, ReceiveReset
  <2>3. dev' \in {"closed", "open", "gone"} /\ (dev' = "gone" => dev = "gone")
        /\ (dev = "gone" => dev' = "gone")
    BY <1>1, <2>2 DEF TypeOK
  <2> QED
    BY <1>1, <1>2, <2>1, <2>2, <2>3, Commanding
<1>3. CASE worker = "halted" /\ OpenFails /\ UNCHANGED <<ctx, cmd, dev>>
  BY <1>1, <1>3, CommandKills DEF OpenFails
<1> QED
  BY <1>2, <1>3 DEF ReceiveReset

LEMMA SetDeqEndpoint == ASSUME WorkerInv, ReceiveSetDeq PROVE WorkerInv'
<1>1. /\ Receive("setdeq") /\ cmd' = None /\ "setdeq" \in Commands /\ TypeOK
      /\ UNCHANGED <<kind, mem, trbs, rung, interrupter, cmds, hot, handle, token, parser, sub,
                     dev, requests, responses>>
  BY DEF ReceiveSetDeq, guest, hotplug, inner, real, WorkerInv, ContextTellsTheTruth, Commands
<1> DEFINE k == Head(chan).trb
<1>2. k \in 1 .. Len(trbs) + 1 /\ Len(trbs) \in Nat /\ kind \in Kinds
  BY <1>1, CommandTaken DEF TypeOK
<1> HIDE DEF k
<1>3. Place(k) \in Slot /\ Cycle(k) \in BOOLEAN /\ k - 1 \in 0 .. Len(trbs)
  BY <1>2, RingShape
<1>4. \/ /\ worker \in {"error", "continuable", "stopped"} /\ worker' = "stopped"
         /\ deq' = Place(k) /\ cs' = Cycle(k)
         /\ ctx' = [state |-> "stopped", deq |-> Place(k), cs |-> Cycle(k)]
         /\ ack' = k - 1
      \/ UNCHANGED <<deq, cs, ctx, worker, ack>>
  BY DEF ReceiveSetDeq, ring, k
<1>5. \/ UNCHANGED <<worker, ctx, deq, cs>>
      \/ /\ worker \in {"doorbell", "halted", "error", "continuable", "stopped"}
         /\ worker' = "stopped" /\ ctx' = [state |-> "stopped", deq |-> deq', cs |-> cs']
  BY <1>4
<1>6. deq' \in Slot /\ cs' \in BOOLEAN /\ ack' \in 0 .. Len(trbs)
  BY <1>1, <1>3, <1>4 DEF TypeOK
<1>7. dev' \in {"closed", "open", "gone"} /\ dev' = dev
  BY <1>1 DEF TypeOK
<1> QED
  BY <1>1, <1>5, <1>6, <1>7, Commanding

\* A stop in the middle of a TRB withdraws it, but for the transfer of a control endpoint.
LEMMA StopEndpoint == ASSUME WorkerInv, ReceiveStop PROVE WorkerInv'
<1>1. /\ Receive("stop") /\ "stop" \in Commands /\ TypeOK /\ kind \in Kinds
      /\ UNCHANGED <<kind, mem, trbs, rung, interrupter, ack, deq, cs, cmds, handle, token,
                     parser>>
      /\ deq \in Slot /\ cs \in BOOLEAN /\ ack \in 0 .. Len(trbs) /\ out' = {}
  BY DEF ReceiveStop, guest, ring, hotplug, WorkerInv, ContextTellsTheTruth, Commands, TypeOK,
     Receive
<1>2. CASE worker # "wait"
  <2>1. /\ UNCHANGED <<hot, sub, dev, requests, responses>> /\ cmd' = None
        /\ \/ UNCHANGED <<worker, ctx, deq, cs>>
           \/ /\ worker \in {"doorbell", "halted", "error", "continuable", "stopped"}
              /\ worker' = "stopped" /\ ctx' = [state |-> "stopped", deq |-> deq', cs |-> cs']
    BY <1>1, <1>2 DEF ReceiveStop, Enter, real
  <2>2. dev' \in {"closed", "open", "gone"} /\ dev' = dev
    BY <1>1, <2>1 DEF TypeOK
  <2>3. deq' \in Slot /\ cs' \in BOOLEAN /\ ack' \in 0 .. Len(trbs)
    BY <1>1
  <2> QED
    BY <1>1, <2>1, <2>2, <2>3, Commanding
<1>3. CASE worker = "wait" /\ OpenFails /\ UNCHANGED <<cmd, hot, sub, real>>
  <2>1. /\ ctx' = [state |-> "stopped", deq |-> deq, cs |-> cs] /\ worker' = "dead"
        /\ UNCHANGED <<cmd, hot, sub, dev, requests, responses>>
    BY <1>3 DEF ReceiveStop, OpenFails, Enter, real
  <2> QED
    BY <1>1, <2>1, CommandKills
<1>4. CASE worker = "wait" /\ Enter("continuable", "stopped") /\ cmd' = None /\ Cancel
  <2>1. /\ worker' = "continuable" /\ worker = "wait" /\ cmd' = None
        /\ ctx' = [state |-> "stopped", deq |-> deq, cs |-> cs]
        /\ hot' = None /\ sub' = (IF handle /\ kind = "in" THEN Idle(kind) ELSE sub)
        /\ IF handle /\ kind # "control"
           THEN dev' = "open" /\ requests' = <<>> /\ responses' = <<>>
           ELSE UNCHANGED <<dev, requests, responses>>
    BY <1>4 DEF Enter, Cancel, Withdraw, real
  <2>2. /\ CommandsArePending' /\ chan' \in Seq(Message)
        /\ cmd # None /\ cmds > 0
    BY <1>1, <2>1, CommandTaken, NoneAssumption
  <2>3. Slot' = Slot /\ Link' = Link
    BY <1>1 DEF Slot, Link
  <2>4. /\ sub \in [st : {"idle", "collecting", "consumed", "awaiting", "error"},
                    trbs : Seq(Nat), dir : {"in", "out"}]
        /\ Idle(kind) \in [st : {"idle", "collecting", "consumed", "awaiting", "error"},
                           trbs : Seq(Nat), dir : {"in", "out"}]
        /\ Len(Idle(kind).trbs) = 0 /\ Idle(kind).st # "awaiting"
        /\ (kind = "in" => Idle(kind).st = "collecting")
    BY <1>1 DEF TypeOK, Idle
  <2>5. /\ requests' \in Seq({"in", "out"})
        /\ responses' \in Seq([dir : {"in", "out"}, status : Statuses])
        /\ UnderWay \in Nat /\ cmds \in Nat /\ dev' \in {"closed", "open", "gone"}
        /\ handle /\ kind # "control" => UnderWay' = 0
        /\ kind = "control" => UnderWay' = UnderWay
    <3>1. requests \in Seq({"in", "out"})
          /\ responses \in Seq([dir : {"in", "out"}, status : Statuses])
      BY <1>1 DEF TypeOK
    <3>2. CASE handle /\ kind # "control"
      <4>1. Len(requests') = 0 /\ Len(responses') = 0
        BY <2>1, <3>2
      <4> QED
        BY <1>1, <2>1, <3>1, <3>2, <4>1, BoundsAssumption DEF TypeOK, UnderWay
    <3>3. CASE ~(handle /\ kind # "control")
      BY <1>1, <2>1, <3>1, <3>3, BoundsAssumption DEF TypeOK, UnderWay
    <3> QED
      BY <3>2, <3>3
  <2>6. ContextTellsTheTruth'
    <3>1. ctx' \in [state : {"running", "stopped", "halted", "error", "disabled"},
                    deq : Slot, cs : BOOLEAN]
      BY <1>1, <2>1
    <3>2. TypeOK'
      BY <1>1, <2>1, <2>2, <2>3, <2>4, <2>5, <3>1 DEF TypeOK, Receiving
    <3> QED
      BY <1>1, <2>1, <3>2 DEF ContextTellsTheTruth
  <2>7. TrbsAreQueued'
    BY <1>1, <2>1, <2>3, <2>4 DEF WorkerInv, TrbsAreQueued
  <2>8. WaitingHasSubmitted'
    BY <1>1, <2>1 DEF WorkerInv, WaitingHasSubmitted
  <2>9. SubmissionOfKind'
    <3>1. CASE handle /\ kind # "control"
      <4>1. Len(requests') = 0 /\ Len(responses') = 0
        BY <2>1, <3>1
      <4> QED
        BY <1>1, <2>1, <2>4, <4>1 DEF WorkerInv, SubmissionOfKind
    <3>2. CASE ~(handle /\ kind # "control")
      BY <1>1, <2>1, <3>2 DEF WorkerInv, SubmissionOfKind
    <3> QED
      BY <3>1, <3>2
  <2>10. WithdrawsWhole'
    BY <1>1, <2>1, <2>2, <2>4, <2>5 DEF WorkerInv, WithdrawsWhole
  <2>11. LateAnswersAreCounted'
    BY <1>1, <2>1, <2>2, <2>5 DEF WorkerInv, LateAnswersAreCounted
  <2> QED
    BY <2>2, <2>6, <2>7, <2>8, <2>9, <2>10, <2>11 DEF WorkerInv
<1>5. \/ worker # "wait"
      \/ worker = "wait" /\ OpenFails /\ UNCHANGED <<cmd, hot, sub, real>>
      \/ worker = "wait" /\ Enter("continuable", "stopped") /\ cmd' = None /\ Cancel
  BY DEF ReceiveStop
<1> QED
  BY <1>2, <1>3, <1>4, <1>5

\* A Terminate that comes is alone in the channel, and awaited.
LEMMA TerminateTaken ==
    ASSUME WorkerInv, chan # <<>>, Head(chan).op = "terminate"
    PROVE  Len(chan) = 1 /\ chan[1].op = "terminate" /\ cmd = "terminate" /\ cmd # None
<1>1. chan \in Seq(Message)
  BY DEF WorkerInv, ContextTellsTheTruth, TypeOK
<1>2. chan[1].op = "terminate" /\ 1 \in 1 .. Len(chan)
  BY <1>1, Taking
<1>3. "terminate" \in Commands
  BY DEF Commands
<1> QED
  BY <1>2, <1>3, NoneAssumption DEF WorkerInv, CommandsArePending

LEMMA TerminateEndpoint == ASSUME WorkerInv, ReceiveTerminate PROVE WorkerInv'
<1>1. /\ TypeOK /\ worker \in Receiving /\ cmd' = None /\ out' = {} /\ cmds \in Nat
      /\ UNCHANGED <<kind, mem, trbs, rung, interrupter, ack, deq, cs, cmds, hot, handle, token,
                     parser, sub,
                     dev, requests, responses>>
      /\ \/ /\ worker \in {"wait", "error"} /\ chan' = <<[op |-> "closed", trb |-> 0]>>
            /\ UNCHANGED <<worker, ctx>>
         \/ /\ worker \notin {"wait", "error"} /\ chan' = <<>>
            /\ worker' = "ended" /\ ctx' = [ctx EXCEPT !.state = "disabled"]
  BY BoundsAssumption
     DEF ReceiveTerminate, guest, ring, hotplug, inner, real, WorkerInv, ContextTellsTheTruth,
     TypeOK
<1>2. cmd # None
  BY TerminateTaken DEF ReceiveTerminate
<1>3. Slot' = Slot /\ Link' = Link
  BY <1>1 DEF Slot, Link
<1>4. /\ chan' \in Seq(Message) /\ Len(chan') <= 1
      /\ \A i \in 1 .. Len(chan') : chan'[i].op = "closed" /\ Len(chan') = 1
  <2>1. [op |-> "closed", trb |-> 0] \in Message
    BY DEF Message
  <2>2. CASE chan' = <<[op |-> "closed", trb |-> 0]>>
    BY <2>1, <2>2
  <2>3. CASE chan' = <<>>
    BY <2>3
  <2> QED
    BY <1>1, <2>2, <2>3
<1>5. ContextTellsTheTruth'
  <2>1. ctx' \in [state : {"running", "stopped", "halted", "error", "disabled"},
                  deq : Slot, cs : BOOLEAN]
    BY <1>1 DEF TypeOK
  <2>2. worker' \in Receiving \cup {"look", "halting", "failing", "ended", "dead"}
        /\ cmd' \in Commands \cup {None}
    BY <1>1
  <2>3. TypeOK'
    BY <1>1, <1>3, <1>4, <2>1, <2>2 DEF TypeOK
  <2> QED
    BY <1>1, <2>3 DEF WorkerInv, ContextTellsTheTruth
<1>6. TrbsAreQueued' /\ SubmissionOfKind'
  BY <1>1, <1>3 DEF WorkerInv, TrbsAreQueued, SubmissionOfKind
<1>7. CommandsArePending'
  BY <1>1, <1>4 DEF CommandsArePending, Commands
<1>8. WaitingHasSubmitted'
  BY <1>1, <1>3 DEF WorkerInv, WaitingHasSubmitted, Receiving
<1>9. UnderWay' = UnderWay /\ UnderWay \in Nat
  BY <1>1 DEF UnderWay, TypeOK
<1>10. WithdrawsWhole' /\ LateAnswersAreCounted'
  BY <1>1, <1>2, <1>9 DEF WorkerInv, WithdrawsWhole, LateAnswersAreCounted, Receiving
<1> QED
  BY <1>5, <1>6, <1>7, <1>8, <1>10 DEF WorkerInv

LEMMA ClosedEndpoint == ASSUME WorkerInv, ReceiveClosed PROVE WorkerInv'
<1>1. /\ TypeOK /\ worker # "dead" /\ worker' = "dead" /\ out' = {} /\ chan' = Tail(chan)
      /\ chan # <<>> /\ Head(chan).op = "closed" /\ UNCHANGED <<ctx, cmd>>
      /\ UNCHANGED <<kind, mem, trbs, rung, interrupter, ack, deq, cs, cmds, hot, handle, token,
                     parser, sub, dev, requests, responses>>
  BY DEF ReceiveClosed, Receive, Receiving, guest, ring, hotplug, inner, real, WorkerInv,
         ContextTellsTheTruth
<1>2. chan' \in Seq(Message) /\ Len(chan') = 0
  <2>1. chan \in Seq(Message)
    BY <1>1 DEF TypeOK
  <2>2. chan[1].op = "closed" /\ 1 \in 1 .. Len(chan) /\ chan' \in Seq(Message)
        /\ Len(chan') = Len(chan) - 1
    BY <1>1, <2>1, Taking
  <2> QED
    BY <2>2 DEF WorkerInv, CommandsArePending
<1>3. CommandsArePending'
  BY <1>1, <1>2 DEF WorkerInv, CommandsArePending
<1>4. /\ ctx' \in [state : {"running", "stopped", "halted", "error", "disabled"},
                   deq : Slot, cs : BOOLEAN]
      /\ cmd' \in Commands \cup {None}
  BY <1>1 DEF TypeOK
<1> QED
  BY <1>1, <1>2, <1>3, <1>4, Dying

-----------------------------------------------------------------------------
(* The device and its detachment *)

\* A transfer that ends moves from the requests to the answers, and stays the youngest
\* or the oldest it was.
LEMMA Ending ==
    ASSUME TypeOK, NEW status \in Statuses, requests # <<>>, requests' = Tail(requests),
           responses' = Append(responses, [dir |-> Head(requests), status |-> status])
    PROVE  /\ requests' \in Seq({"in", "out"})
           /\ responses' \in Seq([dir : {"in", "out"}, status : Statuses])
           /\ UnderWay' = UnderWay /\ UnderWay \in Nat
           /\ requests' # <<>> => requests'[Len(requests')] = requests[Len(requests)]
           /\ requests' = <<>> => responses'[Len(responses')].dir = requests[Len(requests)]
           /\ (\A i \in 1 .. Len(requests) : requests[i] = "out")
                 /\ (\A i \in 1 .. Len(responses) : responses[i].dir = "out")
                 => /\ \A i \in 1 .. Len(requests') : requests'[i] = "out"
                    /\ \A i \in 1 .. Len(responses') : responses'[i].dir = "out"
<1> DEFINE Answer == [dir : {"in", "out"}, status : Statuses]
           answer == [dir |-> Head(requests), status |-> status]
<1>1. requests \in Seq({"in", "out"}) /\ responses \in Seq(Answer)
  BY DEF TypeOK
<1>2. /\ Head(requests) = requests[1] /\ Head(requests) \in {"in", "out"}
      /\ requests' \in Seq({"in", "out"}) /\ Len(requests') = Len(requests) - 1
      /\ Len(requests) \in Nat /\ Len(requests) > 0
      /\ \A i \in 1 .. Len(requests') :
            requests'[i] = requests[i + 1] /\ i + 1 \in 1 .. Len(requests)
  BY <1>1, HeadTailProperties, EmptySeq
<1>3. answer \in Answer /\ answer.dir = requests[1]
  BY <1>2
<1> HIDE DEF Answer, answer
<1>4. /\ responses' \in Seq(Answer) /\ Len(responses') = Len(responses) + 1
      /\ Len(responses) \in Nat
      /\ responses'[Len(responses) + 1] = answer
      /\ \A i \in 1 .. Len(responses) : responses'[i] = responses[i]
  <2>1. responses' = Append(responses, answer)
    BY DEF answer
  <2> QED
    BY <1>1, <1>3, <2>1, AppendProperties
<1>5. UnderWay' = UnderWay /\ UnderWay \in Nat
  BY <1>2, <1>4 DEF UnderWay
<1>6. requests' # <<>> => requests'[Len(requests')] = requests[Len(requests)]
  <2> SUFFICES ASSUME requests' # <<>> PROVE requests'[Len(requests')] = requests[Len(requests)]
    OBVIOUS
  <2>1. Len(requests') \in 1 .. Len(requests')
    BY <1>2, EmptySeq
  <2> QED
    BY <1>2, <2>1
<1>7. requests' = <<>> => responses'[Len(responses')].dir = requests[Len(requests)]
  <2> SUFFICES ASSUME requests' = <<>>
               PROVE  responses'[Len(responses')].dir = requests[Len(requests)]
    OBVIOUS
  <2>1. Len(requests') = 0
    BY EmptySeq
  <2>2. Len(requests) = 1
    BY <1>2, <2>1
  <2> QED
    BY <1>3, <1>4, <2>2
<1>8. ASSUME \A i \in 1 .. Len(requests) : requests[i] = "out",
             \A i \in 1 .. Len(responses) : responses[i].dir = "out"
      PROVE  /\ \A i \in 1 .. Len(requests') : requests'[i] = "out"
             /\ \A i \in 1 .. Len(responses') : responses'[i].dir = "out"
  <2>1. \A i \in 1 .. Len(requests') : requests'[i] = "out"
    BY <1>2, <1>8
  <2>2. ASSUME NEW i \in 1 .. Len(responses')
        PROVE  responses'[i].dir = "out"
    <3>1. i \in 1 .. Len(responses) \/ i = Len(responses) + 1
      BY <1>4
    <3>2. requests[1] = "out"
      BY <1>2, <1>8
    <3> QED
      BY <1>3, <1>4, <1>8, <3>1, <3>2
  <2> QED
    BY <2>1, <2>2
<1> QED
  BY <1>2, <1>4, <1>5, <1>6, <1>7, <1>8 DEF Answer

LEMMA DeviceEndpoint ==
    ASSUME WorkerInv, NEW status \in Statuses, DeviceCompletes(status)
    PROVE  WorkerInv'
<1>1. /\ TypeOK /\ out' = {} /\ requests # <<>> /\ requests' = Tail(requests)
      /\ responses' = Append(responses, [dir |-> Head(requests), status |-> status])
      /\ UNCHANGED <<kind, mem, trbs, rung, interrupter, ack, deq, cs, worker, ctx, chan, cmd,
                     cmds,
                     hot, handle, token, parser, sub, dev>>
  BY DEF DeviceCompletes, guest, ring, hotplug, inner, WorkerInv, ContextTellsTheTruth
<1>2. /\ requests' \in Seq({"in", "out"})
      /\ responses' \in Seq([dir : {"in", "out"}, status : Statuses])
      /\ UnderWay' = UnderWay /\ UnderWay \in Nat
      /\ requests' # <<>> => requests'[Len(requests')] = requests[Len(requests)]
      /\ requests' = <<>> => responses'[Len(responses')].dir = requests[Len(requests)]
      /\ (\A i \in 1 .. Len(requests) : requests[i] = "out")
            /\ (\A i \in 1 .. Len(responses) : responses[i].dir = "out")
            => /\ \A i \in 1 .. Len(requests') : requests'[i] = "out"
               /\ \A i \in 1 .. Len(responses') : responses'[i].dir = "out"
  BY <1>1, Ending
<1>3. Slot' = Slot /\ Link' = Link
  BY <1>1 DEF Slot, Link
<1>4. ContextTellsTheTruth'
  <2>1. TypeOK'
    BY <1>1, <1>2, <1>3 DEF TypeOK
  <2> QED
    BY <1>1, <2>1 DEF WorkerInv, ContextTellsTheTruth
<1>5. TrbsAreQueued' /\ CommandsArePending' /\ WaitingHasSubmitted'
  BY <1>1, <1>3 DEF WorkerInv, TrbsAreQueued, CommandsArePending, WaitingHasSubmitted
<1>6. SubmissionOfKind'
  BY <1>1, <1>2 DEF WorkerInv, SubmissionOfKind
<1>7. WithdrawsWhole' /\ LateAnswersAreCounted'
  BY <1>1, <1>2 DEF WorkerInv, WithdrawsWhole, LateAnswersAreCounted
<1> QED
  BY <1>4, <1>5, <1>6, <1>7 DEF WorkerInv

LEMMA DetachEndpoint == ASSUME WorkerInv, Detach PROVE WorkerInv'
<1>1. /\ TypeOK /\ out' = {} /\ ~token /\ token' = TRUE
      /\ UNCHANGED <<kind, mem, trbs, rung, interrupter, ack, deq, cs, worker, ctx, chan, cmd,
                     cmds, hot, handle,
                     parser, sub, dev, requests, responses>>
  BY DEF Detach, guest, ring, inner, real, WorkerInv, ContextTellsTheTruth
<1>2. Slot' = Slot /\ Link' = Link
  BY <1>1 DEF Slot, Link
<1>3. ContextTellsTheTruth'
  <2>1. TypeOK'
    BY <1>1, <1>2 DEF TypeOK
  <2> QED
    BY <1>1, <2>1 DEF WorkerInv, ContextTellsTheTruth
<1>4. TrbsAreQueued' /\ CommandsArePending' /\ WaitingHasSubmitted' /\ SubmissionOfKind'
  BY <1>1, <1>2
     DEF WorkerInv, TrbsAreQueued, CommandsArePending, WaitingHasSubmitted, SubmissionOfKind
<1>5. WithdrawsWhole' /\ LateAnswersAreCounted'
  <2>1. UnderWay' = UnderWay /\ UnderWay \in Nat /\ cmds \in Nat
    BY <1>1, BoundsAssumption DEF UnderWay, TypeOK
  <2> QED
    BY <1>1, <2>1 DEF WorkerInv, WithdrawsWhole, LateAnswersAreCounted
<1> QED
  BY <1>3, <1>4, <1>5 DEF WorkerInv

LEMMA HandlerEndpoint == ASSUME WorkerInv, DetachHandler PROVE WorkerInv'
<1>1. /\ TypeOK /\ kind \in Kinds /\ out' = {} /\ token /\ handle' = FALSE
      /\ requests' = <<>> /\ responses' = <<>>
      /\ sub' = Idle(kind) /\ parser' = [st |-> "initial", dir |-> "out"]
      /\ UNCHANGED <<kind, mem, trbs, rung, interrupter, ack, deq, cs, worker, ctx, chan, cmd,
                     cmds, hot, token,
                     dev>>
  BY DEF DetachHandler, guest, ring, WorkerInv, ContextTellsTheTruth, TypeOK
<1>2. Slot' = Slot /\ Link' = Link
  BY <1>1 DEF Slot, Link
<1>3. /\ sub' \in [st : {"idle", "collecting", "consumed", "awaiting", "error"},
                   trbs : Seq(Nat), dir : {"in", "out"}]
      /\ Len(sub'.trbs) = 0 /\ sub'.dir = "out"
      /\ sub'.st = (IF kind = "in" THEN "collecting" ELSE "idle")
      /\ Len(requests') = 0 /\ Len(responses') = 0
  BY <1>1 DEF Idle
<1>4. ContextTellsTheTruth'
  <2>1. parser' \in [st : {"initial", "setup", "data"}, dir : {"in", "out"}]
    BY <1>1
  <2>2. /\ requests' \in Seq({"in", "out"})
        /\ responses' \in Seq([dir : {"in", "out"}, status : Statuses])
    BY <1>1
  <2>3. /\ TypeOK /\ handle' \in BOOLEAN /\ out' = {}
        /\ UNCHANGED <<kind, mem, trbs, rung, interrupter, ack, deq, cs, worker, ctx, chan, cmd,
                       cmds,
                       hot, token, dev>>
    BY <1>1
  <2>4. TypeOK'
    BY <1>2, <1>3, <2>1, <2>2, <2>3 DEF TypeOK
  <2> QED
    BY <1>1, <2>4 DEF WorkerInv, ContextTellsTheTruth
<1>5. TrbsAreQueued' /\ CommandsArePending' /\ WaitingHasSubmitted' /\ SubmissionOfKind'
  BY <1>1, <1>2, <1>3
     DEF WorkerInv, TrbsAreQueued, CommandsArePending, WaitingHasSubmitted, SubmissionOfKind
<1>6. WithdrawsWhole' /\ LateAnswersAreCounted'
  BY <1>1 DEF WithdrawsWhole, LateAnswersAreCounted
<1> QED
  BY <1>4, <1>5, <1>6 DEF WorkerInv

\* The task of a control endpoint goes with the requests it has not answered.
LEMMA TaskEndpoint == ASSUME WorkerInv, ControlTaskDies PROVE WorkerInv'
<1>1. /\ TypeOK /\ kind = "control" /\ out' = {} /\ dev' = "gone" /\ requests' = <<>>
      /\ UNCHANGED <<kind, mem, trbs, rung, interrupter, ack, deq, cs, worker, ctx, chan, cmd,
                     cmds,
                     hot, handle, token, parser, sub, responses>>
  BY DEF ControlTaskDies, guest, ring, hotplug, inner, WorkerInv, ContextTellsTheTruth
<1>2. Slot' = Slot /\ Link' = Link
  BY <1>1 DEF Slot, Link
<1>3. requests' \in Seq({"in", "out"}) /\ Len(requests') = 0
  BY <1>1
<1>4. ContextTellsTheTruth'
  <2>1. TypeOK'
    BY <1>1, <1>2, <1>3 DEF TypeOK
  <2> QED
    BY <1>1, <2>1 DEF WorkerInv, ContextTellsTheTruth
<1>5. TrbsAreQueued' /\ CommandsArePending' /\ WaitingHasSubmitted' /\ SubmissionOfKind'
  BY <1>1, <1>2
     DEF WorkerInv, TrbsAreQueued, CommandsArePending, WaitingHasSubmitted, SubmissionOfKind
<1>6. UnderWay' <= UnderWay /\ UnderWay' \in Nat /\ UnderWay \in Nat /\ cmds \in Nat
  BY <1>1, <1>3, BoundsAssumption DEF UnderWay, TypeOK
<1>7. WithdrawsWhole' /\ LateAnswersAreCounted'
  BY <1>1, <1>6 DEF WorkerInv, WithdrawsWhole, LateAnswersAreCounted
<1> QED
  BY <1>4, <1>5, <1>7 DEF WorkerInv

LEMMA InterrupterEndpoint == ASSUME WorkerInv, InterrupterDies PROVE WorkerInv'
<1>1. /\ TypeOK /\ out' = {} /\ interrupter' \in BOOLEAN
      /\ UNCHANGED <<kind, mem, trbs, rung, ack, deq, cs, worker, ctx, chan, cmd, cmds, hot,
                     handle,
                     token, parser, sub, dev, requests, responses>>
  BY DEF InterrupterDies, ring, hotplug, inner, real, WorkerInv, ContextTellsTheTruth
<1>2. Slot' = Slot /\ Link' = Link
  BY <1>1 DEF Slot, Link
<1>3. ContextTellsTheTruth'
  <2>1. TypeOK'
    BY <1>1, <1>2 DEF TypeOK
  <2> QED
    BY <1>1, <2>1 DEF WorkerInv, ContextTellsTheTruth
<1>4. TrbsAreQueued' /\ CommandsArePending' /\ WaitingHasSubmitted' /\ SubmissionOfKind'
  BY <1>1, <1>2
     DEF WorkerInv, TrbsAreQueued, CommandsArePending, WaitingHasSubmitted, SubmissionOfKind
<1>5. WithdrawsWhole' /\ LateAnswersAreCounted'
  BY <1>1 DEF WorkerInv, WithdrawsWhole, LateAnswersAreCounted, UnderWay
<1> QED
  BY <1>3, <1>4, <1>5 DEF WorkerInv

\* No step but the death of a control endpoint's task takes a device away.
LEMMA DeviceNext == ASSUME DeviceOfKind, [Next]_vars PROVE DeviceOfKind'
<1>1. CASE LookForTrb
  <2>1. ASSUME NEW d, NEW n, Request(d, n), UNCHANGED kind
        PROVE  DeviceOfKind'
    BY <2>1 DEF Request, DeviceOfKind
  <2>2. ASSUME UNCHANGED <<kind, dev, requests>>
        PROVE  DeviceOfKind'
    BY <2>2 DEF DeviceOfKind
  <2>3. UNCHANGED kind
    BY <1>1 DEF LookForTrb, guest
  <2>4. ASSUME NEW k, SubmitControl(k) \/ SubmitOut(k) \/ SubmitIn(k)
        PROVE  DeviceOfKind'
    BY <2>1, <2>2, <2>3, <2>4 DEF SubmitControl, SubmitOut, SubmitIn, Keep, Die
  <2> QED
    BY <1>1, <2>2, <2>3, <2>4 DEF LookForTrb, Die
<1>2. CASE ReceiveStop
  BY <1>2 DEF ReceiveStop, Cancel, Withdraw, DeviceOfKind, guest, real
<1>3. CASE ReceiveReset
  BY <1>3 DEF ReceiveReset, DeviceOfKind, guest
<1>4. CASE WriteContext \/ ReceiveDoorbell \/ ReceiveSetDeq \/ ReceiveTerminate \/ ReceiveClosed
  BY <1>4 DEF WriteContext, ReceiveDoorbell, ReceiveSetDeq, ReceiveTerminate, ReceiveClosed,
              DeviceOfKind, guest, real
<1>5. CASE CompleteDetached \/ CompleteLocally \/ CompleteTransfer \/ CompleteIn
  <2>1. UNCHANGED <<kind, dev, requests>>
    BY <1>5 DEF CompleteDetached, CompleteLocally, CompleteTransfer, CompleteIn, Completed, Die,
       guest
  <2> QED
    BY <2>1 DEF DeviceOfKind
<1>6. CASE MeetEventData \/ SendFails \/ InterrupterDies \/ Detach
  BY <1>6 DEF MeetEventData, SendFails, InterrupterDies, Detach, Die, DeviceOfKind, guest, real
<1>7. CASE \/ \E status \in Statuses : DeviceCompletes(status)
           \/ ControlTaskDies \/ DetachHandler
  BY <1>7 DEF DeviceCompletes, ControlTaskDies, DetachHandler, DeviceOfKind, guest
<1>8. CASE \/ \E td \in Tds[kind] : QueueTd(td)
           \/ RingDoorbell
           \/ \E op \in Commands, k \in ack + 1 .. Len(trbs) + 1 : Issue(op, k)
           \/ UNCHANGED vars
  <2>1. UNCHANGED <<kind, dev, requests>>
    BY <1>8 DEF QueueTd, RingDoorbell, Issue, vars, guest, real
  <2> QED
    BY <2>1 DEF DeviceOfKind
<1> QED
  BY <1>1, <1>2, <1>3, <1>4, <1>5, <1>6, <1>7, <1>8 DEF Next, Worker

-----------------------------------------------------------------------------
(* The driver *)

\* What steps of the driver leave alone.
LEMMA Driving ==
    ASSUME WorkerInv,
           UNCHANGED <<kind, interrupter, ack, deq, cs, worker, ctx, hot, handle, token, parser,
                       sub, dev, requests,
                       responses>>,
           out' = {}, mem' \in [Slot -> [trb : Nat, cycle : BOOLEAN]],
           trbs' \in Seq(TrbTypes[kind]), Len(trbs) <= Len(trbs'), rung' \in 0 .. Len(trbs'),
           \A s \in Slot : mem'[s].trb <= Len(trbs'),
           chan' \in Seq(Message), cmd' \in Commands \cup {None}, cmds' \in 0 .. MaxCommands,
           cmds <= cmds',
           (IF cmd = None THEN cmds ELSE cmds - 1) <= (IF cmd' = None THEN cmds' ELSE cmds' - 1)
    PROVE  /\ ContextTellsTheTruth' /\ TrbsAreQueued' /\ WaitingHasSubmitted'
           /\ SubmissionOfKind' /\ WithdrawsWhole' /\ LateAnswersAreCounted'
<1>1. TypeOK
  BY DEF WorkerInv, ContextTellsTheTruth
<1>2. Slot' = Slot /\ Link' = Link
  BY DEF Slot, Link
<1>3. Len(trbs) \in Nat /\ Len(trbs') \in Nat /\ ack' \in 0 .. Len(trbs')
  BY <1>1 DEF TypeOK
<1>4. ContextTellsTheTruth'
  <2>1. TypeOK'
    BY <1>1, <1>2, <1>3 DEF TypeOK
  <2> QED
    BY <2>1 DEF WorkerInv, ContextTellsTheTruth
<1>5. TrbsAreQueued'
  <2>1. \A i \in 1 .. Len(sub.trbs) : sub.trbs[i] \in Nat
    <3>1. sub.trbs \in Seq(Nat)
      BY <1>1 DEF TypeOK
    <3> QED
      BY <3>1, ElementOfSeq
  <2>2. hot # None => hot \in Nat
    BY <1>1 DEF TypeOK
  <2> QED
    BY <1>2, <1>3, <2>1, <2>2 DEF WorkerInv, TrbsAreQueued
<1>6. WaitingHasSubmitted' /\ SubmissionOfKind'
  BY <1>2 DEF WorkerInv, WaitingHasSubmitted, SubmissionOfKind
<1>7. UnderWay' = UnderWay /\ UnderWay \in Nat /\ cmds \in Nat /\ cmds' \in Nat
  BY <1>1, BoundsAssumption DEF UnderWay, TypeOK
<1>8. WithdrawsWhole'
  BY <1>7 DEF WorkerInv, WithdrawsWhole
<1>9. LateAnswersAreCounted'
  <2> DEFINE before == IF cmd = None THEN cmds ELSE cmds - 1
             after  == IF cmd' = None THEN cmds' ELSE cmds' - 1
  <2>1. before \in Int /\ after \in Int /\ before <= after
    <3>1. before \in Int
      BY <1>7
    <3>2. after \in Int
      BY <1>7
    <3> QED
      BY <3>1, <3>2
  <2> SUFFICES ASSUME kind = "control", handle PROVE LateAnswersAreCounted'
    BY DEF LateAnswersAreCounted
  <2> HIDE DEF before, after
  <2>2. worker # "dead" =>
           UnderWay <= before + (IF \/ worker = "wait" /\ sub.st = "awaiting"
                                    \/ worker \in {"halting", "halted"} /\ token THEN 1 ELSE 0)
    BY DEF WorkerInv, LateAnswersAreCounted, before
  <2>3. worker # "dead" =>
           UnderWay' <= after + (IF \/ worker = "wait" /\ sub.st = "awaiting"
                                    \/ worker \in {"halting", "halted"} /\ token THEN 1 ELSE 0)
    BY <1>7, <2>1, <2>2
  <2>4. worker = "wait" /\ sub.st = "awaiting" /\ dev # "gone" =>
           /\ UnderWay >= 1
           /\ sub.dir = IF requests # <<>> THEN requests[Len(requests)]
                        ELSE responses[Len(responses)].dir
    BY DEF WorkerInv, LateAnswersAreCounted
  <2> QED
    BY <1>7, <2>3, <2>4 DEF LateAnswersAreCounted, after
<1> QED
  BY <1>4, <1>5, <1>6, <1>8, <1>9

LEMMA ShortSequences ==
    ASSUME NEW S, NEW a \in S, NEW b \in S, NEW c \in S
    PROVE  <<a>> \in Seq(S) /\ <<a, b>> \in Seq(S) /\ <<a, b, c>> \in Seq(S)
OBVIOUS

LEMMA TdsAreTrbs ==
    ASSUME kind \in Kinds, NEW td \in Tds[kind]
    PROVE  td \in Seq(TrbTypes[kind])
<1>1. kind \in {"control", "out", "in"}
  BY KindsAssumption
<1>2. CASE kind = "control"
  <2>1. TrbTypes[kind] = {"setup_in", "setup_out", "data", "status", "bad"}
    BY <1>2 DEF TrbTypes
  <2>2. td \in {<<"setup_out", "status">>, <<"setup_in", "data", "status">>, <<"bad">>}
    BY <1>2 DEF Tds
  <2> QED
    BY <2>1, <2>2, ShortSequences
<1>3. CASE kind = "out"
  <2>1. TrbTypes[kind] = {"normal", "bad", "todo"}
    BY <1>3 DEF TrbTypes
  <2>2. td \in {<<"normal">>, <<"bad">>, <<"todo">>}
    BY <1>3 DEF Tds
  <2> QED
    BY <2>1, <2>2, ShortSequences
<1>4. CASE kind = "in"
  <2>1. TrbTypes[kind] = {"chained", "normal", "bad", "todo"}
    BY <1>4 DEF TrbTypes
  <2>2. td \in {<<"normal">>, <<"chained", "normal">>, <<"bad">>, <<"chained", "todo">>}
    BY <1>4 DEF Tds
  <2> QED
    BY <2>1, <2>2, ShortSequences
<1> QED
  BY <1>1, <1>2, <1>3, <1>4

LEMMA QueueEndpoint ==
    ASSUME WorkerInv, NEW td \in Tds[kind], QueueTd(td)
    PROVE  WorkerInv'
<1> DEFINE new == Len(trbs) + 1 .. Len(trbs) + Len(td)
<1>1. /\ TypeOK /\ kind \in Kinds /\ out' = {} /\ trbs' = trbs \o td
      /\ mem' = [s \in Slot |->
               IF \E k \in new : Place(k) = s
               THEN LET k == CHOOSE k \in new : Place(k) = s IN [trb |-> k, cycle |-> Cycle(k)]
               ELSE IF s = Link /\ \E k \in new : Place(k) = Link - 1
               THEN [trb |-> 0, cycle |-> Cycle(CHOOSE k \in new : Place(k) = Link - 1)]
               ELSE mem[s]]
      /\ UNCHANGED <<kind, rung, interrupter, ack, deq, cs, worker, ctx, chan, cmd, cmds, hot,
                     handle, token,
                     parser, sub, dev, requests, responses>>
  BY DEF QueueTd, ring, hotplug, inner, real, WorkerInv, ContextTellsTheTruth, TypeOK
<1>2. /\ trbs' \in Seq(TrbTypes[kind]) /\ Len(trbs') = Len(trbs) + Len(td)
      /\ Len(trbs) \in Nat /\ Len(td) \in Nat
  <2>1. trbs \in Seq(TrbTypes[kind]) /\ td \in Seq(TrbTypes[kind])
    BY <1>1, TdsAreTrbs DEF TypeOK
  <2> QED
    BY <1>1, <2>1, ConcatProperties
<1>3. ASSUME NEW s \in Slot
      PROVE  mem'[s] \in [trb : Nat, cycle : BOOLEAN] /\ mem'[s].trb <= Len(trbs')
  <2>1. CASE \E k \in new : Place(k) = s
    <3> DEFINE k == CHOOSE k \in new : Place(k) = s
    <3>1. k \in new
      BY <2>1
    <3>2. mem'[s] = [trb |-> k, cycle |-> Cycle(k)]
      BY <1>1, <2>1
    <3> HIDE DEF k
    <3>3. k \in Nat /\ k <= Len(trbs')
      BY <1>2, <3>1
    <3>4. kind \in Kinds /\ k \in Int
      BY <1>1, <3>3
    <3>5. Cycle(k) \in BOOLEAN
      BY <3>4, RingShape
    <3> QED
      BY <3>2, <3>3, <3>5
  <2>2. CASE ~(\E k \in new : Place(k) = s) /\ s = Link /\ \E k \in new : Place(k) = Link - 1
    <3> DEFINE k == CHOOSE k \in new : Place(k) = Link - 1
    <3>1. k \in new
      BY <2>2
    <3>2. mem'[s] = [trb |-> 0, cycle |-> Cycle(k)]
      BY <1>1, <2>2
    <3> HIDE DEF k
    <3>3. k \in Nat
      BY <1>2, <3>1
    <3>4. kind \in Kinds /\ k \in Int
      BY <1>1, <3>3
    <3>5. Cycle(k) \in BOOLEAN
      BY <3>4, RingShape
    <3> QED
      BY <1>2, <3>2, <3>5
  <2>3. CASE /\ ~(\E k \in new : Place(k) = s)
             /\ ~(s = Link /\ \E k \in new : Place(k) = Link - 1)
    <3>1. mem'[s] = mem[s]
      BY <1>1, <2>3
    <3>2. mem[s] \in [trb : Nat, cycle : BOOLEAN] /\ mem[s].trb <= Len(trbs)
      BY <1>1 DEF TypeOK, WorkerInv, TrbsAreQueued
    <3> QED
      BY <1>2, <3>1, <3>2
  <2> QED
    BY <2>1, <2>2, <2>3
<1>4. mem' \in [Slot -> [trb : Nat, cycle : BOOLEAN]]
  <2>1. DOMAIN mem' = Slot /\ mem' = [s \in Slot |-> mem'[s]]
    BY <1>1
  <2> QED
    BY <1>3, <2>1
<1>5. /\ rung' \in 0 .. Len(trbs') /\ Len(trbs) <= Len(trbs')
      /\ chan' \in Seq(Message) /\ cmd' \in Commands \cup {None} /\ cmds' \in 0 .. MaxCommands
      /\ cmds \in Nat /\ cmds <= cmds'
  BY <1>1, <1>2, BoundsAssumption DEF TypeOK
<1>6. (IF cmd = None THEN cmds ELSE cmds - 1) <= (IF cmd' = None THEN cmds' ELSE cmds' - 1)
  BY <1>1, <1>5
<1>7. /\ ContextTellsTheTruth' /\ TrbsAreQueued' /\ WaitingHasSubmitted'
      /\ SubmissionOfKind' /\ WithdrawsWhole' /\ LateAnswersAreCounted'
  BY <1>1, <1>2, <1>3, <1>4, <1>5, <1>6, Driving
<1>8. CommandsArePending'
  BY <1>1, <1>2 DEF WorkerInv, CommandsArePending
<1> QED
  BY <1>7, <1>8 DEF WorkerInv

LEMMA RingDoorbellEndpoint == ASSUME WorkerInv, RingDoorbell PROVE WorkerInv'
<1> DEFINE m == [op |-> "doorbell", trb |-> 0]
<1>1. /\ TypeOK /\ out' = {} /\ rung' = Len(trbs) /\ chan' = Append(chan, m)
      /\ \A i \in 1 .. Len(chan) : chan[i].op \notin {"closed", "terminate"}
      /\ UNCHANGED <<kind, mem, trbs, interrupter, ack, deq, cs, worker, ctx, cmd, cmds, hot,
                     handle, token,
                     parser, sub, dev, requests, responses>>
  BY DEF RingDoorbell, Open, ring, hotplug, inner, real, WorkerInv, ContextTellsTheTruth
<1>2. m \in Message /\ m.op = "doorbell"
  BY DEF Message
<1> HIDE DEF m
<1>3. /\ chan' \in Seq(Message) /\ Len(chan') = Len(chan) + 1 /\ Len(chan) \in Nat
      /\ chan'[Len(chan) + 1] = m
      /\ \A i \in 1 .. Len(chan) : chan'[i] = chan[i]
  BY <1>1, <1>2, Sending DEF TypeOK
<1>4. /\ mem' \in [Slot -> [trb : Nat, cycle : BOOLEAN]] /\ trbs' \in Seq(TrbTypes[kind])
      /\ rung' \in 0 .. Len(trbs') /\ Len(trbs) <= Len(trbs')
      /\ \A s \in Slot : mem'[s].trb <= Len(trbs')
      /\ cmd' \in Commands \cup {None} /\ cmds' \in 0 .. MaxCommands
      /\ cmds \in Nat /\ cmds <= cmds'
  BY <1>1, BoundsAssumption DEF TypeOK, WorkerInv, TrbsAreQueued
<1>5. (IF cmd = None THEN cmds ELSE cmds - 1) <= (IF cmd' = None THEN cmds' ELSE cmds' - 1)
  BY <1>1, <1>4
<1>6. /\ ContextTellsTheTruth' /\ TrbsAreQueued' /\ WaitingHasSubmitted'
      /\ SubmissionOfKind' /\ WithdrawsWhole' /\ LateAnswersAreCounted'
  BY <1>1, <1>3, <1>4, <1>5, Driving
<1>7. CommandsArePending'
  <2>1. "doorbell" \notin Commands
    BY DEF Commands
  <2>2. ASSUME NEW i \in 1 .. Len(chan')
        PROVE  \/ /\ i \in 1 .. Len(chan) /\ chan'[i] = chan[i]
                  /\ chan'[i].op \notin {"closed", "terminate"}
               \/ chan'[i].op = "doorbell"
    <3>1. i \in 1 .. Len(chan) \/ i = Len(chan) + 1
      BY <1>3
    <3> QED
      BY <1>1, <1>2, <1>3, <3>1
  <2>3. ASSUME NEW i \in 1 .. Len(chan'), chan'[i].op \in Commands
        PROVE  cmd = chan'[i].op /\ \A j \in 1 .. Len(chan') : chan'[j].op \in Commands => i = j
    <3>1. i \in 1 .. Len(chan) /\ chan[i].op \in Commands /\ chan'[i] = chan[i]
      BY <2>1, <2>2, <2>3
    <3>2. \A j \in 1 .. Len(chan') :
             chan'[j].op \in Commands => j \in 1 .. Len(chan) /\ chan[j].op \in Commands
      BY <2>1, <2>2
    <3> QED
      BY <3>1, <3>2 DEF WorkerInv, CommandsArePending
  <2>4. ASSUME NEW i \in 1 .. Len(chan')
        PROVE  /\ chan'[i].op = "setdeq" => chan'[i].trb \in 1 .. Len(trbs) + 1
               /\ chan'[i].op \notin {"closed", "terminate"}
    BY <2>2 DEF WorkerInv, CommandsArePending
  <2> QED
    BY <1>1, <2>3, <2>4 DEF WorkerInv, CommandsArePending
<1> QED
  BY <1>6, <1>7 DEF WorkerInv

LEMMA IssueEndpoint ==
    ASSUME WorkerInv, NEW op \in Commands, NEW k \in ack + 1 .. Len(trbs) + 1, Issue(op, k)
    PROVE  WorkerInv'
<1> DEFINE m == [op |-> op, trb |-> IF op = "setdeq" THEN k ELSE 0]
<1>1. /\ TypeOK /\ out' = {} /\ chan' = Append(chan, m)
      /\ cmd = None /\ cmds < MaxCommands /\ cmd' = op /\ cmds' = cmds + 1
      /\ \A i \in 1 .. Len(chan) : chan[i].op \notin {"closed", "terminate"}
      /\ UNCHANGED <<kind, mem, trbs, rung, interrupter, ack, deq, cs, worker, ctx, hot, handle,
                     token,
                     parser, sub, dev, requests, responses>>
  BY DEF Issue, Open, guest, ring, hotplug, inner, real, WorkerInv, ContextTellsTheTruth
<1>2. k \in 1 .. Len(trbs) + 1 /\ op # None /\ op # "closed"
  BY <1>1, NoneAssumption DEF TypeOK, Commands
<1>3. m \in Message /\ m.op = op /\ (op = "setdeq" => m.trb = k)
  BY <1>1, <1>2 DEF Message, TypeOK
<1> HIDE DEF m
<1>4. /\ chan' \in Seq(Message) /\ Len(chan') = Len(chan) + 1 /\ Len(chan) \in Nat
      /\ chan'[Len(chan) + 1] = m
      /\ \A i \in 1 .. Len(chan) : chan'[i] = chan[i]
  BY <1>1, <1>3, Sending DEF TypeOK
<1>5. /\ mem' \in [Slot -> [trb : Nat, cycle : BOOLEAN]] /\ trbs' \in Seq(TrbTypes[kind])
      /\ rung' \in 0 .. Len(trbs') /\ Len(trbs) <= Len(trbs')
      /\ \A s \in Slot : mem'[s].trb <= Len(trbs')
      /\ cmd' \in Commands \cup {None} /\ cmds' \in 0 .. MaxCommands
      /\ cmds \in Nat /\ cmds <= cmds'
  BY <1>1, BoundsAssumption DEF TypeOK, WorkerInv, TrbsAreQueued
<1>6. (IF cmd = None THEN cmds ELSE cmds - 1) <= (IF cmd' = None THEN cmds' ELSE cmds' - 1)
  BY <1>1, <1>2, <1>5
<1>7. /\ ContextTellsTheTruth' /\ TrbsAreQueued' /\ WaitingHasSubmitted'
      /\ SubmissionOfKind' /\ WithdrawsWhole' /\ LateAnswersAreCounted'
  BY <1>1, <1>4, <1>5, <1>6, Driving
<1>8. CommandsArePending'
  <2>1. ASSUME NEW i \in 1 .. Len(chan)
        PROVE  chan[i].op \notin Commands
    <3>1. chan[i].op \in Commands => cmd = chan[i].op
      BY DEF WorkerInv, CommandsArePending
    <3> QED
      BY <1>1, <3>1, NoneAssumption
  <2>2. ASSUME NEW i \in 1 .. Len(chan')
        PROVE  \/ /\ chan'[i].op \notin Commands \cup {"closed"}
                  /\ chan'[i].op \notin {"setdeq", "terminate"}
               \/ i = Len(chan) + 1 /\ chan'[i] = m
    <3>1. i \in 1 .. Len(chan) \/ i = Len(chan) + 1
      BY <1>4
    <3> QED
      BY <1>1, <1>4, <2>1, <3>1 DEF Commands
  <2>3. cmds' > 0
    BY <1>1, <1>5
  <2> QED
    BY <1>1, <1>2, <1>3, <1>4, <2>2, <2>3 DEF CommandsArePending
<1> QED
  BY <1>7, <1>8 DEF WorkerInv

-----------------------------------------------------------------------------
(* The invariant *)

LEMMA NextEndpoint == ASSUME EndpointInv, [Next]_vars PROVE EndpointInv'
<1>0. WorkerInv /\ DeviceOfKind /\ DeviceOfKind'
  BY DeviceNext DEF EndpointInv
<1> SUFFICES WorkerInv'
  BY <1>0 DEF EndpointInv
<1>1. CASE Worker
  BY <1>0, <1>1, LookEndpoint, ContextEndpoint, DoorbellEndpoint, StopEndpoint, ResetEndpoint,
     SetDeqEndpoint, TerminateEndpoint, ClosedEndpoint DEF Worker
<1>2. CASE CompleteDetached \/ CompleteLocally \/ CompleteTransfer \/ CompleteIn
  BY <1>0, <1>2, DetachedEndpoint, LocalEndpoint, TransferEndpoint, InEndpoint
<1>3. CASE MeetEventData \/ SendFails \/ ControlTaskDies \/ InterrupterDies
  BY <1>0, <1>3, EventDataEndpoint, SendFailsEndpoint, TaskEndpoint, InterrupterEndpoint
<1>4. CASE (\E status \in Statuses : DeviceCompletes(status)) \/ Detach \/ DetachHandler
  BY <1>0, <1>4, DeviceEndpoint, DetachEndpoint, HandlerEndpoint
<1>5. CASE \/ \E td \in Tds[kind] : QueueTd(td)
           \/ RingDoorbell
           \/ \E op \in Commands, k \in ack + 1 .. Len(trbs) + 1 : Issue(op, k)
  BY <1>0, <1>5, QueueEndpoint, RingDoorbellEndpoint, IssueEndpoint
<1>6. CASE UNCHANGED vars
  BY <1>0, <1>6
     DEF WorkerInv, ContextTellsTheTruth, TypeOK, Slot, Link, TrbsAreQueued, CommandsArePending,
         WaitingHasSubmitted, SubmissionOfKind, WithdrawsWhole, LateAnswersAreCounted, UnderWay,
         vars, guest, ring, hotplug, inner, real
<1> QED
  BY <1>1, <1>2, <1>3, <1>4, <1>5, <1>6 DEF Next

\* The inductive invariant holds in every behaviour of an endpoint worker, whatever its
\* kind, the driver, the device and the ports do.
THEOREM EndpointInvariant == Spec => []EndpointInv
<1>1. Init => EndpointInv
  BY InitEndpoint
<1>2. EndpointInv /\ [Next]_vars => EndpointInv'
  BY NextEndpoint
<1> QED
  BY <1>1, <1>2, PTL DEF Spec

\* ContextTellsTheTruth: the endpoint context that the driver recovers by agrees with the
\* worker in state and place.
THEOREM ContextTellsTheTruthAlways == Spec => []ContextTellsTheTruth
<1>1. EndpointInv => ContextTellsTheTruth
  BY DEF EndpointInv, WorkerInv
<1> QED
  BY <1>1, EndpointInvariant, PTL

\* AnswersAreOwn: the answer a worker takes is that of its own transfer, with no more
\* late ones before it, on a control endpoint, than commands came in between.
THEOREM AnswersAreOwnAlways == Spec => []AnswersAreOwn
<1>1. EndpointInv => AnswersAreOwn
  <2> SUFFICES ASSUME WorkerInv, DeviceOfKind, handle, worker = "wait", sub.st = "awaiting"
               PROVE  \/ UnderWay = 1
                      \/ kind = "control" /\ UnderWay \in 2 .. 1 + cmds
                      \/ kind = "control" /\ dev = "gone" /\ requests = <<>>
    BY DEF AnswersAreOwn, UnderWay, EndpointInv
  <2>1. UnderWay \in Nat /\ cmds \in Nat
    BY BoundsAssumption DEF WorkerInv, ContextTellsTheTruth, TypeOK, UnderWay
  <2>2. CASE kind # "control"
    BY <2>2 DEF WorkerInv, WithdrawsWhole
  <2>3. CASE kind = "control" /\ dev # "gone"
    BY <2>1, <2>3 DEF WorkerInv, LateAnswersAreCounted
  <2>4. CASE kind = "control" /\ dev = "gone"
    BY <2>4 DEF DeviceOfKind
  <2> QED
    BY <2>2, <2>3, <2>4
<1> QED
  BY <1>1, EndpointInvariant, PTL

-----------------------------------------------------------------------------
(* Why a worker dies *)

\* A worker that looks for a TRB has none submitted, so it dies only in submit_trb.
LEMMA LookDeath ==
    ASSUME EndpointInv, LookForTrb, worker' = "dead", ~token
    PROVE  Cause
<1>0. WorkerInv /\ DeviceOfKind
  BY DEF EndpointInv
<1>1. worker = "look" /\ hot = None /\ handle
  BY <1>0 DEF LookForTrb, WorkerInv, WaitingHasSubmitted
<1> DEFINE k == mem[NextTrb[1]].trb
<1>2. \/ kind = "control" /\ SubmitControl(k)
      \/ kind = "out" /\ SubmitOut(k)
      \/ kind = "in" /\ SubmitIn(k)
  BY <1>1 DEF LookForTrb
<1>3. CASE dev # "open"
  BY <1>0, <1>3 DEF DeviceOfKind, Cause
<1>4. CASE kind = "control" /\ SubmitControl(k) /\ dev = "open"
  BY <1>4 DEF SubmitControl, Request, Keep
<1>5. CASE kind = "out" /\ SubmitOut(k) /\ dev = "open"
  <2>1. sub.st # "idle" \/ trbs[k] = "todo"
    BY <1>5 DEF SubmitOut, Request, Keep
  <2>2. CASE trbs[k] = "todo"
    BY <1>1, <1>5, <2>2 DEF Cause
  <2>3. CASE sub.st # "idle"
    <3>1. cmds > 0 /\ UnderWay = 0
      BY <1>0, <1>1, <1>5, <2>3 DEF WorkerInv, WithdrawsWhole
    <3>2. /\ requests \in Seq({"in", "out"})
          /\ responses \in Seq([dir : {"in", "out"}, status : Statuses])
      BY <1>0 DEF WorkerInv, ContextTellsTheTruth, TypeOK
    <3>3. Len(requests) = 0 /\ Len(responses) = 0
      BY <3>1, <3>2 DEF UnderWay
    <3>4. requests = <<>> /\ responses = <<>>
      BY <3>2, <3>3, EmptySeq
    <3> QED
      BY <1>5, <2>3, <3>1, <3>4 DEF Cause
  <2> QED
    BY <2>1, <2>2, <2>3
<1>6. CASE kind = "in" /\ SubmitIn(k) /\ dev = "open"
  <2>1. sub.st # "collecting"
    BY <1>6 DEF SubmitIn, Request, Keep
  <2> QED
    BY <1>0, <1>1, <1>6, <2>1 DEF WorkerInv, WithdrawsWhole
<1> QED
  BY <1>2, <1>3, <1>4, <1>5, <1>6

\* A worker that takes an answer dies only over one of the other direction, which no
\* answer to its own request has.
LEMMA TransferDeath ==
    ASSUME EndpointInv, CompleteTransfer, worker' = "dead"
    PROVE  Cause
<1>0. WorkerInv /\ DeviceOfKind
  BY DEF EndpointInv
<1>1. /\ TypeOK /\ worker = "wait" /\ handle /\ sub.st = "awaiting"
      /\ kind \in {"control", "out"}
  BY <1>0 DEF CompleteTransfer, WorkerInv, ContextTellsTheTruth
<1>2. PICK r \in Results : r.status = "success" /\ r.dir # sub.dir
  BY DEF CompleteTransfer, Advance, HaltAt
<1>3. responses # <<>> /\ Head(responses).dir # sub.dir
  BY <1>2 DEF Results
<1>4. /\ responses \in Seq([dir : {"in", "out"}, status : Statuses])
      /\ requests \in Seq({"in", "out"})
  BY <1>1 DEF TypeOK
<1>5. /\ Head(responses) = responses[1] /\ 1 \in 1 .. Len(responses)
      /\ Len(responses) \in Nat /\ Len(requests) \in Nat
  BY <1>4, <1>3, HeadTailProperties, EmptySeq
<1>6. CASE kind = "out"
  BY <1>0, <1>3, <1>5, <1>6 DEF WorkerInv, SubmissionOfKind
<1>7. CASE kind = "control" /\ dev = "gone"
  BY <1>7 DEF Cause
<1>8. CASE kind = "control" /\ dev # "gone"
  <2> SUFFICES ASSUME ~(UnderWay > 1) PROVE FALSE
    BY <1>8 DEF Cause, UnderWay
  <2> DEFINE m == Len(responses)
             n == Len(requests)
  <2>0. m \in Nat /\ n \in Nat /\ m >= 1 /\ ~(n + m > 1)
    BY <1>5 DEF UnderWay
  <2>1. m = 1 /\ n = 0
    <3> HIDE DEF m, n
    <3> QED
      BY <2>0
  <2>2. requests = <<>>
    BY <1>4, <2>1, EmptySeq
  <2>3. sub.dir = responses[1].dir
    BY <1>0, <1>1, <1>8, <2>1, <2>2 DEF WorkerInv, LateAnswersAreCounted
  <2> QED
    BY <1>3, <1>5, <2>3
<1> QED
  BY <1>1, <1>6, <1>7, <1>8

\* DeathsHaveACause: the worker dies of the known causes only, in any order of stops,
\* resets, moves of the dequeue pointer, answers and doorbells, and whichever of the
\* endpoint's opening, the control task and the interrupter fails.
THEOREM DeathsHaveACauseAlways == Spec => DeathsHaveACause
<1>1. ASSUME EndpointInv, [Next]_vars, worker # "dead", worker' = "dead", ~token
      PROVE  Cause
  <2>1. CASE LookForTrb
    BY <1>1, <2>1, LookDeath
  <2>2. CASE CompleteTransfer
    BY <1>1, <2>2, TransferDeath
  <2>3. CASE ReceiveClosed
    BY <2>3 DEF ReceiveClosed, Receive, Cause
  <2>4. CASE ReceiveStop \/ ReceiveReset
    <3>1. dev = "closed"
      BY <1>1, <2>4 DEF ReceiveStop, ReceiveReset, Enter, OpenFails
    <3> QED
      BY <1>1, <3>1 DEF Cause, EndpointInv, DeviceOfKind
  <2>5. CASE WriteContext \/ ReceiveDoorbell \/ ReceiveSetDeq \/ ReceiveTerminate
    BY <1>1, <2>5 DEF WriteContext, ReceiveDoorbell, ReceiveSetDeq, ReceiveTerminate, Enter
  <2>6. CASE CompleteDetached \/ CompleteLocally \/ CompleteIn
    BY <1>1, <2>6
       DEF CompleteDetached, CompleteLocally, CompleteIn, Advance, HaltAt, RewindTo, TrbError
  <2>7. CASE MeetEventData \/ SendFails
    BY <2>7 DEF MeetEventData, SendFails, EventIsDue, Cause
  <2>8. CASE \/ \E status \in Statuses : DeviceCompletes(status)
             \/ ControlTaskDies \/ InterrupterDies
             \/ Detach \/ DetachHandler
             \/ \E td \in Tds[kind] : QueueTd(td)
             \/ RingDoorbell
             \/ \E op \in Commands, k \in ack + 1 .. Len(trbs) + 1 : Issue(op, k)
             \/ UNCHANGED vars
    BY <1>1, <2>8
       DEF DeviceCompletes, ControlTaskDies, InterrupterDies, Detach, DetachHandler, QueueTd,
           RingDoorbell, Issue, vars
  <2> QED
    BY <1>1, <2>1, <2>2, <2>3, <2>4, <2>5, <2>6, <2>7, <2>8 DEF Next, Worker
<1>2. EndpointInv /\ [Next]_vars =>
         [worker # "dead" /\ worker' = "dead" /\ ~token => Cause]_vars
  BY <1>1
<1> QED
  BY <1>2, EndpointInvariant, PTL DEF Spec, DeathsHaveACause

-----------------------------------------------------------------------------
(* The endpoint as its slot sees it *)

\* The steps of EndpointContract, spelled out.
Idles == ContractSt' = ContractSt /\ ContractAsk' = ContractAsk

Settles ==
    /\ ContractAsk' = ContractAsk
    /\ \/ ContractSt = "busy" /\ ContractSt' \in {"quiet", "dead"}
       \/ ContractSt = "left" /\ ContractSt' = "dead"

Obeys ==
    /\ ContractAsk = "command" /\ ContractAsk' = None
    /\ \/ ContractSt \in {"quiet", "busy"} /\ ContractSt' = ContractSt
       \/ ContractSt = "busy" /\ ContractSt' = "quiet"

Fails ==
    /\ ContractAsk = "command" /\ ContractAsk' = ContractAsk
    /\ ContractSt \in {"quiet", "busy"} /\ ContractSt' = "dead"

Parts ==
    /\ ContractAsk = "terminate" /\ ContractAsk' = None
    /\ \/ ContractSt = "quiet" /\ ContractSt' = "ended"
       \/ ContractSt = "busy" /\ ContractSt' = "left"

IsAsked ==
    /\ ContractSt \in {"quiet", "busy"} /\ ContractSt' = ContractSt
    /\ ContractAsk = None /\ ContractAsk' \in {"command", "terminate"}

IsRung ==
    /\ ContractAsk' = ContractAsk
    /\ ContractSt \in {"quiet", "busy"}
    /\ ContractSt' = ContractSt \/ (ContractSt = "quiet" /\ ContractSt' = "busy")

\* What leaves the worker, its channel and its command alone, the slot does not see.
LEMMA Unseen == ASSUME UNCHANGED <<worker, chan, cmd>> PROVE Idles
BY DEF Idles, ContractSt, ContractAsk, Closed, AtWork, NoDoorbell

\* A worker that looks for TRBs, waits for one or deals with its end may go on, rest or die.
LEMMA Working ==
    ASSUME worker \in {"look", "wait", "halting", "failing"}, UNCHANGED <<chan, cmd>>,
                                                                          worker' # "ended"
    PROVE  Idles \/ Settles
<1>1. ContractAsk' = ContractAsk /\ Closed' = Closed /\ NoDoorbell' = NoDoorbell
  BY DEF ContractAsk, Closed, NoDoorbell
<1>2. ContractSt = IF Closed THEN "left" ELSE "busy"
  BY DEF ContractSt, AtWork
<1>3. ContractSt' = IF worker' = "dead" THEN "dead" ELSE IF Closed THEN "left"
                    ELSE IF AtWork' THEN "busy" ELSE "quiet"
  BY <1>1 DEF ContractSt
<1> QED
  BY <1>1, <1>2, <1>3 DEF Idles, Settles

\* A doorbell that is taken was work; what it wakes may have nothing to do.
LEMMA DoorbellSettles == ASSUME WorkerInv, ReceiveDoorbell PROVE Idles \/ Settles
<1>1. /\ chan \in Seq(Message) /\ chan # <<>> /\ Head(chan).op = "doorbell" /\ chan' = Tail(chan)
      /\ worker \notin {"ended", "dead"} /\ worker' \notin {"ended", "dead"} /\ cmd' = cmd
  BY DEF ReceiveDoorbell, Receive, Receiving, WorkerInv, ContextTellsTheTruth, TypeOK
<1>2. /\ chan[1].op = "doorbell" /\ 1 \in 1 .. Len(chan)
      /\ \A i \in 1 .. Len(chan') : i + 1 \in 1 .. Len(chan) /\ chan'[i] = chan[i + 1]
  BY <1>1, Taking
<1>3. \A i \in 1 .. Len(chan) : chan[i].op = "closed" => Len(chan) = 1
  BY DEF WorkerInv, CommandsArePending
<1>4. ~Closed
  BY <1>2, <1>3 DEF Closed
<1>5. ~Closed'
  BY <1>2, <1>4 DEF Closed
<1>6. ~NoDoorbell
  BY <1>2 DEF NoDoorbell
<1>7. ContractSt = "busy" /\ ContractSt' \in {"busy", "quiet"} /\ ContractAsk' = ContractAsk
  BY <1>1, <1>4, <1>5, <1>6 DEF ContractSt, AtWork, ContractAsk
<1> QED
  BY <1>7 DEF Idles, Settles

\* A command is carried out by a worker that has not been given up, or kills it.
LEMMA CommandObeys ==
    ASSUME WorkerInv, ReceiveStop \/ ReceiveReset \/ ReceiveSetDeq
    PROVE  Obeys \/ Fails
<1>1. PICK op \in {"stop", "reset", "setdeq"} : Receive(op)
  BY DEF ReceiveStop, ReceiveReset, ReceiveSetDeq
<1>2. /\ UNCHANGED <<trbs, cmds>> /\ op \in Commands /\ op # "terminate"
      /\ worker \in Receiving
      /\ \/ cmd' = None /\ worker' \in {worker, "stopped", "continuable"}
         \/ cmd' = cmd /\ worker' = "dead"
  BY <1>1 DEF ReceiveStop, ReceiveReset, ReceiveSetDeq, Receive, guest, Commands, Enter, OpenFails
<1>3. /\ cmd = op
      /\ \A i \in 1 .. Len(chan') : chan'[i].op = "doorbell"
      /\ \A i \in 1 .. Len(chan) : chan[i].op # "closed"
  BY <1>1, <1>2, CommandTaken
<1>4. ContractAsk = "command" /\ ContractAsk' = IF cmd' = None THEN None ELSE "command"
  BY <1>2, <1>3, NoneAssumption DEF ContractAsk
<1>5. ~Closed /\ ~Closed'
  BY <1>3 DEF Closed
<1>6. NoDoorbell => NoDoorbell'
  <2>1. chan \in Seq(Message) /\ chan # <<>> /\ chan' = Tail(chan)
    BY <1>1 DEF Receive, WorkerInv, ContextTellsTheTruth, TypeOK
  <2>2. \A i \in 1 .. Len(chan') : i + 1 \in 1 .. Len(chan) /\ chan'[i] = chan[i + 1]
    BY <2>1, Taking
  <2> QED
    BY <2>2 DEF NoDoorbell
<1>7. AtWork' => AtWork
  <2>1. ~NoDoorbell' => AtWork
    BY <1>6 DEF AtWork
  <2>2. worker' \in {"look", "wait", "halting", "failing", "error"} =>
           worker \in {"look", "wait", "halting", "failing", "error"}
    BY <1>2
  <2> QED
    BY <2>1, <2>2 DEF AtWork
<1>8. worker \notin {"ended", "dead"} /\ worker' # "ended"
  BY <1>2 DEF Receiving
<1>9. ContractSt \in {"quiet", "busy"}
  BY <1>5, <1>8 DEF ContractSt
<1>10. CASE cmd' = None /\ worker' # "dead"
  BY <1>4, <1>5, <1>7, <1>8, <1>10 DEF Obeys, ContractSt
<1>11. CASE cmd' = cmd /\ worker' = "dead"
  <2>1. ContractSt' = "dead" /\ ContractAsk' = "command"
    BY <1>3, <1>2, <1>4, <1>11, NoneAssumption DEF ContractSt
  <2> QED
    BY <1>4, <1>9, <2>1 DEF Fails
<1> QED
  BY <1>2, <1>8, <1>10, <1>11

\* A Terminate is alone in the channel, so the endpoint is at work only if its worker is.
LEMMA TerminateParts == ASSUME WorkerInv, ReceiveTerminate PROVE Parts
<1>1. /\ worker \in Receiving /\ chan # <<>> /\ Head(chan).op = "terminate" /\ cmd' = None
      /\ \/ /\ worker \in {"wait", "error"} /\ chan' = <<[op |-> "closed", trb |-> 0]>>
            /\ worker' = worker
         \/ worker \notin {"wait", "error"} /\ worker' = "ended"
  BY DEF ReceiveTerminate
<1>2. Len(chan) = 1 /\ chan[1].op = "terminate" /\ cmd = "terminate" /\ cmd # None
  BY <1>1, TerminateTaken
<1>3. ~Closed /\ NoDoorbell
  BY <1>2 DEF Closed, NoDoorbell
<1>4. ContractAsk = "terminate" /\ ContractAsk' = None
  BY <1>1, <1>2 DEF ContractAsk
<1>5. CASE worker \in {"wait", "error"}
  <2>1. Len(chan') = 1 /\ chan'[1].op = "closed"
    BY <1>1, <1>5
  <2>2. Closed'
    BY <2>1 DEF Closed
  <2>3. ContractSt = "busy" /\ ContractSt' = "left"
    BY <1>1, <1>3, <1>5, <2>2 DEF ContractSt, AtWork
  <2> QED
    BY <1>4, <2>3 DEF Parts
<1>6. CASE worker \notin {"wait", "error"}
  <2>1. ContractSt = "quiet" /\ ContractSt' = "ended"
    BY <1>1, <1>3, <1>6 DEF ContractSt, AtWork, Receiving
  <2> QED
    BY <1>4, <2>1 DEF Parts
<1> QED
  BY <1>5, <1>6

LEMMA ClosedSettles == ASSUME WorkerInv, ReceiveClosed PROVE Settles
<1>1. /\ chan \in Seq(Message) /\ chan # <<>> /\ Head(chan).op = "closed"
      /\ worker \in Receiving /\ worker' = "dead" /\ cmd' = cmd
  BY DEF ReceiveClosed, Receive, WorkerInv, ContextTellsTheTruth, TypeOK
<1>2. Closed
  BY <1>1, Taking DEF Closed
<1> QED
  BY <1>1, <1>2 DEF Settles, ContractSt, ContractAsk, Receiving

\* What the slot and the driver send is for a worker that lives and has a channel.
LEMMA Asking ==
    ASSUME WorkerInv,
           RingDoorbell \/ \E op \in Commands, k \in ack + 1 .. Len(trbs) + 1 : Issue(op, k)
    PROVE  IsRung \/ IsAsked
<1>1. /\ worker \notin {"ended", "dead"} /\ worker' = worker
      /\ \A i \in 1 .. Len(chan) : chan[i].op # "closed"
      /\ chan \in Seq(Message)
  BY DEF RingDoorbell, Issue, Open, WorkerInv, ContextTellsTheTruth, TypeOK
<1>2. ~Closed
  BY <1>1 DEF Closed
<1>3. CASE RingDoorbell
  <2> DEFINE m == [op |-> "doorbell", trb |-> 0]
  <2>1. chan' = Append(chan, m) /\ cmd' = cmd /\ m \in Message /\ m.op = "doorbell"
    BY <1>3 DEF RingDoorbell, Message
  <2> HIDE DEF m
  <2>2. /\ Len(chan') = Len(chan) + 1 /\ Len(chan) \in Nat /\ chan'[Len(chan) + 1] = m
        /\ \A i \in 1 .. Len(chan) : chan'[i] = chan[i]
    BY <1>1, <2>1, Sending
  <2>3. \A i \in 1 .. Len(chan') : i \in 1 .. Len(chan) \/ i = Len(chan) + 1
    BY <2>2
  <2>4. ~Closed'
    BY <1>1, <2>1, <2>2, <2>3 DEF Closed
  <2>5. ContractSt \in {"quiet", "busy"} /\ ContractSt' \in {"quiet", "busy"}
        /\ ContractAsk' = ContractAsk
    BY <1>1, <1>2, <2>1, <2>4 DEF ContractSt, ContractAsk
  <2>6. ~NoDoorbell'
    BY <2>1, <2>2 DEF NoDoorbell
  <2>7. ContractSt' = "busy"
    BY <1>1, <2>4, <2>6 DEF ContractSt, AtWork
  <2> QED
    BY <2>5, <2>7 DEF IsRung
<1>4. ASSUME NEW op \in Commands, NEW k \in ack + 1 .. Len(trbs) + 1, Issue(op, k)
      PROVE  IsAsked
  <2> DEFINE m == [op |-> op, trb |-> IF op = "setdeq" THEN k ELSE 0]
  <2>1. chan' = Append(chan, m) /\ cmd = None /\ cmd' = op /\ m.op = op
    BY <1>4 DEF Issue
  <2>2. m \in Message
    <3>1. ack \in Nat /\ Len(trbs) \in Nat
      BY DEF WorkerInv, ContextTellsTheTruth, TypeOK
    <3>2. k \in Nat
      BY <1>4, <3>1
    <3> QED
      BY <3>2 DEF Message
  <2> HIDE DEF m
  <2>3. /\ Len(chan') = Len(chan) + 1 /\ Len(chan) \in Nat /\ chan'[Len(chan) + 1] = m
        /\ \A i \in 1 .. Len(chan) : chan'[i] = chan[i]
    BY <1>1, <2>1, <2>2, Sending
  <2>4. /\ \A i \in 1 .. Len(chan') : i \in 1 .. Len(chan) \/ i = Len(chan) + 1
        /\ \A i \in 1 .. Len(chan) : i \in 1 .. Len(chan')
        /\ op \notin {"closed", "doorbell", None}
    BY <2>3, NoneAssumption DEF Commands
  <2>5. ~Closed' /\ NoDoorbell' = NoDoorbell
    BY <1>1, <2>1, <2>3, <2>4 DEF Closed, NoDoorbell
  <2>6. ContractSt \in {"quiet", "busy"} /\ ContractSt' = ContractSt
    BY <1>1, <1>2, <2>5 DEF ContractSt, AtWork
  <2>7. ContractAsk = None /\ ContractAsk' \in {"command", "terminate"}
    BY <2>1, <2>4 DEF ContractAsk
  <2> QED
    BY <2>6, <2>7 DEF IsAsked
<1> QED
  BY <1>3, <1>4

LEMMA NextContract ==
    ASSUME WorkerInv, [Next]_vars
    PROVE  Idles \/ Settles \/ Obeys \/ Fails \/ Parts \/ IsRung \/ IsAsked
<1>1. CASE LookForTrb
  <2>1. worker = "look" /\ UNCHANGED <<chan, cmd>> /\ worker' # "ended"
    BY <1>1 DEF LookForTrb, SubmitControl, SubmitOut, SubmitIn, Request, Keep, Die
  <2> QED
    BY <2>1, Working
<1>2. CASE WriteContext
  <2>1. worker \in {"halting", "failing"} /\ UNCHANGED <<chan, cmd>> /\ worker' # "ended"
    BY <1>2 DEF WriteContext, Enter
  <2> QED
    BY <2>1, Working
<1>3. CASE CompleteDetached \/ CompleteLocally \/ CompleteTransfer \/ CompleteIn
  <2>1. worker = "wait" /\ UNCHANGED <<chan, cmd>>
    BY <1>3 DEF CompleteDetached, CompleteLocally, CompleteTransfer, CompleteIn, Completed
  <2>2. CompleteDetached \/ CompleteLocally => worker' # "ended"
    BY DEF CompleteDetached, CompleteLocally, Advance, HaltAt, TrbError
  <2>3. CompleteTransfer \/ CompleteIn => worker' # "ended"
    BY DEF CompleteTransfer, CompleteIn, Advance, HaltAt, RewindTo, Die
  <2> QED
    BY <1>3, <2>1, <2>2, <2>3, Working
<1>4. CASE MeetEventData \/ SendFails
  <2>1. worker = "wait" /\ UNCHANGED <<chan, cmd>> /\ worker' # "ended"
    BY <1>4 DEF MeetEventData, SendFails, EventIsDue, Die
  <2> QED
    BY <2>1, Working
<1>5. CASE ReceiveDoorbell
  BY <1>5, DoorbellSettles
<1>6. CASE ReceiveStop \/ ReceiveReset \/ ReceiveSetDeq
  BY <1>6, CommandObeys
<1>7. CASE ReceiveTerminate \/ ReceiveClosed
  BY <1>7, TerminateParts, ClosedSettles
<1>8. CASE \/ \E status \in Statuses : DeviceCompletes(status)
           \/ ControlTaskDies \/ InterrupterDies
           \/ Detach \/ DetachHandler
           \/ \E td \in Tds[kind] : QueueTd(td)
           \/ UNCHANGED vars
  BY <1>8, Unseen
     DEF DeviceCompletes, ControlTaskDies, InterrupterDies, Detach, DetachHandler, QueueTd, vars
<1>9. CASE RingDoorbell \/ \E op \in Commands, k \in ack + 1 .. Len(trbs) + 1 : Issue(op, k)
  BY <1>9, Asking
<1> QED
  BY <1>1, <1>2, <1>3, <1>4, <1>5, <1>6, <1>7, <1>8, <1>9 DEF Next, Worker

\* ImplementsContract: whatever the driver, the device and the ports do, the endpoint is
\* to the slot and command workers what EndpointContract says.
THEOREM EndpointImplementsContract == Spec => ImplementsContract
<1>1. Init => Contract!CInit
  <2> SUFFICES ASSUME Init PROVE ContractSt = "quiet" /\ ContractAsk = None
    BY DEF Contract!CInit
  <2>1. Len(chan) = 0 /\ worker = "doorbell" /\ cmd = None
    BY DEF Init
  <2> QED
    BY <2>1 DEF ContractSt, ContractAsk, Closed, AtWork, NoDoorbell
<1>2. ASSUME EndpointInv, [Next]_vars
      PROVE  [Contract!CNext]_(Contract!cvars)
  <2>1. Idles => UNCHANGED Contract!cvars
    BY DEF Idles, Contract!cvars
  <2>2. Settles => Contract!Settle
    BY DEF Settles, Contract!Settle, Contract!Settled
  <2>3. Obeys => Contract!Answer
    BY DEF Obeys, Contract!Answer, Contract!Alive, Contract!Commanded
  <2>4. Fails => Contract!Fail
    BY DEF Fails, Contract!Fail, Contract!Failed
  <2>5. Parts => Contract!End \/ Contract!Drop
    BY DEF Parts, Contract!End, Contract!Drop, Contract!Alive, Contract!Answers
  <2>6. IsRung => Contract!Doorbell
    BY DEF IsRung, Contract!Doorbell, Contract!Alive, Contract!Rung
  <2>7. IsAsked => \E op \in {"command", "terminate"} : Contract!Ask(op)
    BY DEF IsAsked, Contract!Ask, Contract!Alive
  <2> QED
    BY <1>2, <2>1, <2>2, <2>3, <2>4, <2>5, <2>6, <2>7, NextContract DEF Contract!CNext,
       EndpointInv
<1>3. EndpointInv /\ [Next]_vars => [Contract!CNext]_(Contract!cvars)
  BY <1>2
<1> QED
  BY <1>1, <1>3, EndpointInvariant, PTL DEF Spec, ImplementsContract, Contract!CSpec

=============================================================================
