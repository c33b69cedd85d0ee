---------------------------- MODULE HandoverProofs ----------------------------
(***************************************************************************)
(* Proofs about Handover for every set of connections and regions, every   *)
(* policy and every timeout: the ownership invariants, the refinement of    *)
(* DeviceOwnership, and that a candidate waits for its reply.              *)
(***************************************************************************)
EXTENDS Handover, TLAPS

\* A staged registration is the staging connection's own: what a commit or a
\* promotion installs belongs to the connection it makes the owner.
CandidateIsOwn == candidate # None => candidate.reg.conn = candidate.id

\* The inductive invariant.
OwnershipInv ==
    /\ TypeOK
    /\ LineFollowsOwner
    /\ FallbackIsIntact
    /\ UnownedIsBoot
    /\ CandidateIsOwn

USE DEF Candidate

\* expire_candidate leaves the candidate or nothing.
LEMMA UnexpiredCases == Unexpired = candidate \/ Unexpired = None
BY DEF Unexpired

\* The invariant says nothing of readiness or waiting time, so replacing the
\* candidate by one of the same connection and registration, or by nothing,
\* keeps it.
LEMMA CandidateOnly ==
    ASSUME OwnershipInv,
           UNCHANGED <<owner, prev, epoch, sinceCommit, owner_reg, prev_reg, line>>,
           conn' \in [Conn -> {"slot", "serving", "parked", "gone"}],
           UNCHANGED memory,
           controller_seen' \in BOOLEAN,
           device_count' \in {"unknown", "none", "some"},
           ctl' \in {"idle", "listing", "executing", "watching"},
           watch_epoch' \in Nat,
           candidate' \in Candidate \cup {None},
           candidate' # None => /\ candidate # None
                                /\ candidate'.id = candidate.id
                                /\ candidate'.reg = candidate.reg
    PROVE  OwnershipInv'
BY DEF OwnershipInv, TypeOK, LineFollowsOwner, FallbackIsIntact, UnownedIsBoot,
       CandidateIsOwn, memory

LEMMA InitOwnership == Init => OwnershipInv
<1> SUFFICES ASSUME Init PROVE OwnershipInv
  OBVIOUS
<1>1. TypeOK
  BY DEF Init, TypeOK
<1>2. LineFollowsOwner /\ FallbackIsIntact /\ UnownedIsBoot /\ CandidateIsOwn
  BY DEF Init, LineFollowsOwner, FallbackIsIntact, UnownedIsBoot, CandidateIsOwn
<1> QED
  BY <1>1, <1>2 DEF OwnershipInv

\* Steps of a connection thread keep the invariant.
LEMMA ConnStepOwnership ==
    ASSUME OwnershipInv, NEW c \in Conn, ConnStep(c)
    PROVE  OwnershipInv'
<1> USE DEF OwnershipInv
<1>t. TypeOK
  OBVIOUS
<1>n. None \notin Registration /\ NoOwner \notin Conn
  BY NoneAssumption, NoOwnerAssumption
<1>u. Unexpired \in Candidate \cup {None} /\ (Unexpired # None => Unexpired = candidate)
  BY <1>t DEF Unexpired, TypeOK
<1>1. CASE Establish(c)
  BY <1>1, CandidateOnly DEF Establish, TypeOK, ownership, control, memory
<1>2. ASSUME NEW r \in Region, DmaMap(c, r) \/ DmaUnmap(c, r)
      PROVE  OwnershipInv'
  BY <1>2 DEF DmaMap, DmaUnmap, TypeOK, LineFollowsOwner, FallbackIsIntact,
              UnownedIsBoot, CandidateIsOwn, ownership, control
<1>3. CASE DisableIrqs(c)
  BY <1>3, <1>u, <1>n DEF DisableIrqs, TypeOK, LineFollowsOwner, FallbackIsIntact,
              UnownedIsBoot, CandidateIsOwn, memory, control
<1>4. CASE SetIrqsRejected(c)
  BY <1>4, <1>u, CandidateOnly DEF SetIrqsRejected, TypeOK, memory, control
<1>5. ASSUME NEW reg \in Registration, reg.conn = c, RegisterOwner(c, reg)
      PROVE  OwnershipInv'
  BY <1>5, <1>u, <1>n DEF RegisterOwner, Install, NextEpoch, TypeOK, LineFollowsOwner,
              FallbackIsIntact, UnownedIsBoot, CandidateIsOwn, memory, control
<1>6. ASSUME NEW reg \in Registration, reg.conn = c, StageCandidate(c, reg)
      PROVE  OwnershipInv'
  <2> DEFINE cand == [id |-> c, reg |-> reg, waited |-> 0, ready |-> KeepsReady(c)]
  <2>1. KeepsReady(c) \in BOOLEAN
    BY <1>u DEF KeepsReady
  <2>2. cand \in Candidate /\ cand.reg.conn = cand.id
    BY <1>6, <2>1, TimersAssumption
  <2>3. candidate' = cand
    BY <1>6 DEF StageCandidate
  <2> HIDE DEF cand
  <2> QED
    BY <1>6, <2>2, <2>3 DEF StageCandidate, TypeOK, LineFollowsOwner, FallbackIsIntact,
                UnownedIsBoot, CandidateIsOwn, memory, control
<1>7. CASE WakeParked(c)
  <2>1. candidate' \in {candidate, None}
    BY <1>7 DEF WakeParked
  <2> QED
    BY <1>7, <2>1, CandidateOnly DEF WakeParked, TypeOK, memory, control
<1>8. ASSUME NEW cloned1 \in DupOutcome, NEW cloned2 \in DupOutcome,
             Disconnect(c, cloned1, cloned2)
      PROVE  OwnershipInv'
  <2> DEFINE fallback == prev \in live \ {c} /\ prev_reg # None
             promote  == candidate # None
  <2>1. /\ conn' \in [Conn -> {"slot", "serving", "parked", "gone"}]
        /\ mapped' \in [Conn -> SUBSET Region]
        /\ UNCHANGED <<bus, control>>
    BY <1>8 DEF Disconnect, TypeOK
  <2>2. CASE UNCHANGED ownership
    BY <2>1, <2>2 DEF TypeOK, LineFollowsOwner, FallbackIsIntact, UnownedIsBoot,
                CandidateIsOwn, ownership, control
  <2>3. CASE /\ fallback
             /\ NextEpoch
             /\ Install(prev, prev_reg)
             /\ prev' = NoOwner /\ prev_reg' = None
             /\ sinceCommit' = 0
             /\ UNCHANGED candidate
    BY <2>1, <2>3, <1>n, TimersAssumption DEF Install, NextEpoch, TypeOK, LineFollowsOwner,
                FallbackIsIntact, UnownedIsBoot, CandidateIsOwn, live, control
  <2>4. CASE /\ promote
             /\ NextEpoch
             /\ Install(candidate.id, candidate.reg)
             /\ prev' = NoOwner /\ prev_reg' = None
             /\ sinceCommit' = 0
             /\ candidate' = None
    BY <2>1, <2>4, <1>n, TimersAssumption DEF Install, NextEpoch, TypeOK, LineFollowsOwner,
                FallbackIsIntact, UnownedIsBoot, CandidateIsOwn, control
  <2>5. CASE MakeUnowned
    BY <2>1, <2>5, <1>n DEF MakeUnowned, NextEpoch, TypeOK, LineFollowsOwner,
                FallbackIsIntact, UnownedIsBoot, CandidateIsOwn, control
  <2> QED
    BY <1>8, <2>2, <2>3, <2>4, <2>5 DEF Disconnect
<1> QED
  BY <1>1, <1>2, <1>3, <1>4, <1>5, <1>6, <1>7, <1>8 DEF ConnStep

\* Steps of the control thread keep the invariant.
LEMMA ControlStepOwnership ==
    ASSUME OwnershipInv, ControlStep
    PROVE  OwnershipInv'
<1> USE DEF OwnershipInv
<1>t. TypeOK
  OBVIOUS
<1>n. None \notin Registration /\ NoOwner \notin Conn
  BY NoneAssumption, NoOwnerAssumption
<1>u. Unexpired \in Candidate \cup {None} /\ (Unexpired # None => Unexpired = candidate)
  BY <1>t DEF Unexpired, TypeOK
<1>1. CASE BeginCommand
  BY <1>1, CandidateOnly DEF BeginCommand, TypeOK, ownership, memory
<1>2. ASSUME NEW n \in {"none", "some"}, NoteInventory(n)
      PROVE  OwnershipInv'
  BY <1>2, CandidateOnly DEF NoteInventory, TypeOK, ownership, memory
<1>3. CASE HandoverStatus
  BY <1>3, <1>u, CandidateOnly DEF HandoverStatus, Execute, AnswerOnly, TypeOK, memory
<1>4. CASE HandoverWatch
  BY <1>4, CandidateOnly DEF HandoverWatch, TypeOK, ownership, memory
<1>5. ASSUME NEW late \in BOOLEAN, WatchPoll(late)
      PROVE  OwnershipInv'
  BY <1>5, <1>u, CandidateOnly DEF WatchPoll, AnswerOnly, TypeOK, memory
<1>6. ASSUME NEW id \in Conn, HandoverReady(id)
      PROVE  OwnershipInv'
  <2>1. /\ candidate' \in Candidate \cup {None}
        /\ candidate' # None => /\ candidate # None
                                /\ candidate'.id = candidate.id
                                /\ candidate'.reg = candidate.reg
    BY <1>6, <1>u DEF HandoverReady
  <2> QED
    BY <1>6, <2>1, CandidateOnly DEF HandoverReady, Execute, TypeOK, memory
<1>7. ASSUME NEW id \in Conn, HandoverAbort(id)
      PROVE  OwnershipInv'
  <2>1. candidate' \in {Unexpired, None}
    BY <1>7 DEF HandoverAbort
  <2> QED
    BY <1>7, <1>u, <2>1, CandidateOnly DEF HandoverAbort, Execute, TypeOK, memory
<1>8. ASSUME NEW id \in Conn, NEW e \in 0 .. epoch, NEW cloned \in DupOutcome,
             HandoverCommit(id, e, cloned)
      PROVE  OwnershipInv'
  <2>1. CASE AnswerOnly
    BY <1>8, <1>u, <2>1, CandidateOnly DEF HandoverCommit, Execute, AnswerOnly, TypeOK, memory
  <2>2. CASE /\ candidate' = None
             /\ UNCHANGED <<owner, prev, epoch, sinceCommit, owner_reg, prev_reg, line>>
    BY <1>8, <2>2, CandidateOnly DEF HandoverCommit, Execute, TypeOK, memory
  <2>3. CASE /\ CommitAccepted(id, e)
             /\ NextEpoch
             /\ Install(candidate.id, candidate.reg)
             /\ candidate' = None
             /\ prev' = owner /\ prev_reg' = owner_reg
             /\ sinceCommit' = 0
    <3>1. candidate # None /\ owner # NoOwner
      BY <1>u, <2>3 DEF CommitAccepted, UnownedIsBoot
    <3>2. 0 # None
      BY NoneAssumption
    <3> QED
      BY <1>8, <1>n, <2>3, <3>1, <3>2, TimersAssumption
         DEF HandoverCommit, Execute, Install, NextEpoch, TypeOK, LineFollowsOwner,
             FallbackIsIntact, UnownedIsBoot, CandidateIsOwn, memory
  <2> QED
    BY <1>8, <2>1, <2>2, <2>3 DEF HandoverCommit
<1>9. ASSUME NEW id \in Conn, NEW e \in 0 .. epoch, NEW cloned \in DupOutcome,
             HandoverReclaim(id, e, cloned)
      PROVE  OwnershipInv'
  <2>1. CASE AnswerOnly
    BY <1>9, <1>u, <2>1, CandidateOnly DEF HandoverReclaim, Execute, AnswerOnly, TypeOK, memory
  <2>2. CASE ~AnswerOnly
    BY <1>9, <1>n, <1>u, <2>2
       DEF HandoverReclaim, ReclaimAccepted, Execute, Install, NextEpoch, TypeOK,
           LineFollowsOwner, FallbackIsIntact, UnownedIsBoot, CandidateIsOwn, live, memory
  <2> QED
    BY <2>1, <2>2
<1> QED
  BY <1>1, <1>2, <1>3, <1>4, <1>5, <1>6, <1>7, <1>8, <1>9 DEF ControlStep

\* Time does not touch the ownership.
LEMMA TickOwnership ==
    ASSUME OwnershipInv, Tick
    PROVE  OwnershipInv'
<1> USE DEF OwnershipInv
<1>1. sinceCommit' \in (0 .. Lease + 1) \cup {None} /\ (sinceCommit' = None <=> sinceCommit = None)
  BY NoneAssumption, TimersAssumption DEF Tick, TypeOK
<1>2. candidate = None => candidate' = None
  BY DEF Tick
<1>3. ASSUME candidate # None
      PROVE  /\ candidate' \in Candidate
             /\ candidate'.id = candidate.id
             /\ candidate'.reg = candidate.reg
  BY <1>3, TimersAssumption DEF Tick, TypeOK
<1> QED
  BY <1>1, <1>2, <1>3 DEF Tick, TypeOK, LineFollowsOwner, FallbackIsIntact,
     UnownedIsBoot, CandidateIsOwn, memory, control

\* The ownership invariant holds in every state the hand-over can reach.
THEOREM OwnershipInvariant == Spec => []OwnershipInv
<1>1. OwnershipInv /\ [Next]_vars => OwnershipInv'
  <2> SUFFICES ASSUME OwnershipInv, [Next]_vars PROVE OwnershipInv'
    OBVIOUS
  <2>1. CASE UNCHANGED vars
    BY <2>1 DEF OwnershipInv, TypeOK, LineFollowsOwner, FallbackIsIntact, UnownedIsBoot,
                CandidateIsOwn, vars, ownership, memory, control
  <2>2. CASE Next
    BY <2>2, ConnStepOwnership, ControlStepOwnership, TickOwnership DEF Next
  <2> QED
    BY <2>1, <2>2
<1> QED
  BY <1>1, InitOwnership, PTL DEF Spec

\* TypeOK for every instance: every variable keeps the type of its Rust field.
THEOREM TypeCorrect == Spec => []TypeOK
BY OwnershipInvariant, PTL DEF OwnershipInv

\* The installed line is the owner's own (or none) whatever clients, controller
\* and timeouts do: the property the two-phase staging exists for.
THEOREM LineFollowsOwnerAlways == Spec => []LineFollowsOwner
BY OwnershipInvariant, PTL DEF OwnershipInv

\* A remembered previous owner can always be put back.
THEOREM FallbackIsIntactAlways == Spec => []FallbackIsIntact
BY OwnershipInvariant, PTL DEF OwnershipInv

\* An unowned device is as at boot.
THEOREM UnownedIsBootAlways == Spec => []UnownedIsBoot
BY OwnershipInvariant, PTL DEF OwnershipInv

-----------------------------------------------------------------------------
(* The hand-over implements DeviceOwnership *)

\* The part of the state the abstract machine sees.
seen == <<owner, prev, epoch, line>>

LEMMA SeenIsPromise == UNCHANGED seen => UNCHANGED Promise!avars
BY DEF seen, Promise!avars

LEMMA ConnStepImplements ==
    ASSUME OwnershipInv, NEW c \in Conn, ConnStep(c)
    PROVE  Promise!ANext \/ UNCHANGED Promise!avars
<1> USE DEF OwnershipInv
<1>n. None \notin Registration /\ NoOwner \notin Conn
  BY NoneAssumption, NoOwnerAssumption
<1>1. CASE UNCHANGED seen
  BY <1>1, SeenIsPromise
<1>2. CASE DisableIrqs(c)
  <2>1. Promise!Rewire
    BY <1>2, <1>n DEF DisableIrqs, Promise!Rewire
  <2> QED
    BY <2>1 DEF Promise!ANext
<1>3. ASSUME NEW reg \in Registration, reg.conn = c, RegisterOwner(c, reg)
      PROVE  Promise!ANext
  <2>1. CASE owner = NoOwner
    <3>1. Promise!Claim(c)
      BY <1>3, <1>n, <2>1 DEF RegisterOwner, Install, NextEpoch, Promise!Claim, Promise!Receive
    <3> QED
      BY <3>1 DEF Promise!ANext
  <2>2. CASE owner # NoOwner
    <3>1. Promise!Rewire
      BY <1>3, <1>n, <2>2 DEF RegisterOwner, Install, Promise!Rewire
    <3> QED
      BY <3>1 DEF Promise!ANext
  <2> QED
    BY <2>1, <2>2
<1>4. ASSUME NEW cloned1 \in DupOutcome, NEW cloned2 \in DupOutcome,
             Disconnect(c, cloned1, cloned2), ~UNCHANGED seen
      PROVE  Promise!ANext
  <2>0. owner = c /\ owner # NoOwner
    BY <1>4, <1>n DEF Disconnect, seen, ownership
  <2>1. CASE /\ prev \in live \ {c} /\ prev_reg # None
             /\ NextEpoch
             /\ Install(prev, prev_reg)
             /\ prev' = NoOwner
    <3>1. prev # NoOwner /\ prev_reg.conn = prev
      BY <2>1, <1>n DEF FallbackIsIntact, live
    <3>2. Promise!GiveBack
      BY <2>1, <3>1 DEF Install, NextEpoch, Promise!GiveBack, Promise!Receive
    <3> QED
      BY <3>2 DEF Promise!ANext
  <2>2. CASE /\ candidate # None
             /\ NextEpoch
             /\ Install(candidate.id, candidate.reg)
             /\ prev' = NoOwner
    <3>1. candidate.id \in Conn /\ candidate.reg # None /\ candidate.reg.conn = candidate.id
      BY <2>2, <1>n DEF CandidateIsOwn, TypeOK
    <3>2. Promise!Inherit(candidate.id)
      BY <2>0, <2>2, <3>1 DEF Install, NextEpoch, Promise!Inherit, Promise!Receive
    <3> QED
      BY <3>1, <3>2 DEF Promise!ANext
  <2>3. CASE MakeUnowned
    <3>1. Promise!Release
      BY <2>0, <2>3 DEF MakeUnowned, NextEpoch, Promise!Release
    <3> QED
      BY <3>1 DEF Promise!ANext
  <2> QED
    BY <1>4, <2>0, <2>1, <2>2, <2>3 DEF Disconnect
<1>5. CASE \/ Establish(c)
           \/ \E r \in Region : DmaMap(c, r) \/ DmaUnmap(c, r)
           \/ SetIrqsRejected(c)
           \/ \E reg \in Registration : StageCandidate(c, reg)
           \/ WakeParked(c)
  <2>1. UNCHANGED seen
    BY <1>5 DEF Establish, DmaMap, DmaUnmap, SetIrqsRejected, StageCandidate, WakeParked,
                ownership, seen
  <2> QED
    BY <2>1, <1>1
<1> QED
  BY <1>1, <1>2, <1>3, <1>4, <1>5 DEF ConnStep

LEMMA ControlStepImplements ==
    ASSUME OwnershipInv, ControlStep
    PROVE  Promise!ANext \/ UNCHANGED Promise!avars
<1> USE DEF OwnershipInv
<1>n. None \notin Registration /\ NoOwner \notin Conn
  BY NoneAssumption, NoOwnerAssumption
<1>1. CASE UNCHANGED seen
  BY <1>1, SeenIsPromise
<1>2. ASSUME NEW id \in Conn, NEW e \in 0 .. epoch, NEW cloned \in DupOutcome,
             HandoverCommit(id, e, cloned), ~UNCHANGED seen
      PROVE  Promise!ANext
  <2>1. /\ CommitAccepted(id, e)
        /\ NextEpoch
        /\ Install(candidate.id, candidate.reg)
        /\ prev' = owner
    BY <1>2 DEF HandoverCommit, AnswerOnly, seen
  <2>2. candidate # None
    BY <2>1 DEF CommitAccepted, Unexpired
  <2>3. /\ candidate.id \in Conn
        /\ candidate.reg # None
        /\ candidate.reg.conn = candidate.id
        /\ owner # NoOwner
    BY <2>2, <1>n DEF CandidateIsOwn, UnownedIsBoot, TypeOK
  <2>4. Promise!HandOver(candidate.id)
    BY <2>1, <2>3 DEF Install, NextEpoch, Promise!HandOver, Promise!Receive
  <2> QED
    BY <2>3, <2>4 DEF Promise!ANext
<1>3. ASSUME NEW id \in Conn, NEW e \in 0 .. epoch, NEW cloned \in DupOutcome,
             HandoverReclaim(id, e, cloned), ~UNCHANGED seen
      PROVE  Promise!ANext
  <2>1. /\ ReclaimAccepted(id, e)
        /\ NextEpoch
        /\ Install(id, prev_reg)
        /\ prev' = NoOwner
    BY <1>3 DEF HandoverReclaim, AnswerOnly, seen
  <2>2. prev = id /\ prev # NoOwner /\ prev_reg # None /\ prev_reg.conn = prev
    BY <2>1, <1>n DEF ReclaimAccepted, FallbackIsIntact
  <2>3. Promise!GiveBack
    BY <2>1, <2>2 DEF Install, NextEpoch, Promise!GiveBack, Promise!Receive
  <2> QED
    BY <2>3 DEF Promise!ANext
<1>4. CASE \/ BeginCommand
           \/ \E n \in {"none", "some"} : NoteInventory(n)
           \/ HandoverStatus
           \/ HandoverWatch
           \/ \E late \in BOOLEAN : WatchPoll(late)
           \/ \E id \in Conn : HandoverReady(id) \/ HandoverAbort(id)
  <2>1. UNCHANGED seen
    BY <1>4 DEF BeginCommand, NoteInventory, HandoverStatus, HandoverWatch, WatchPoll,
                HandoverReady, HandoverAbort, AnswerOnly, ownership, seen
  <2> QED
    BY <2>1, <1>1
<1> QED
  BY <1>1, <1>2, <1>3, <1>4 DEF ControlStep

\* Every behaviour of the hand-over is one of the abstract ownership machine:
\* one holder, one generation per change of hands, only the holder's line, and
\* a return only to the connection the last commit took the device from.
THEOREM HandoverImplementsOwnership == Spec => ImplementsOwnership
<1>1. Init => Promise!AInit
  BY DEF Init, Promise!AInit
<1>2. OwnershipInv /\ [Next]_vars => [Promise!ANext]_(Promise!avars)
  <2> SUFFICES ASSUME OwnershipInv, [Next]_vars
               PROVE  Promise!ANext \/ UNCHANGED Promise!avars
    OBVIOUS
  <2>1. CASE UNCHANGED seen
    BY <2>1, SeenIsPromise
  <2>2. CASE UNCHANGED vars \/ Tick
    BY <2>1, <2>2 DEF Tick, vars, ownership, seen
  <2>3. CASE Next
    BY <2>2, <2>3, ConnStepImplements, ControlStepImplements DEF Next
  <2> QED
    BY <2>2, <2>3
<1> QED
  BY <1>1, <1>2, OwnershipInvariant, PTL DEF Spec, ImplementsOwnership, Promise!ASpec

-----------------------------------------------------------------------------
(* The candidate waits for its reply *)

\* A previous owner that got the device back while it was waiting is a candidate and
\* the owner at once; then nobody is remembered who could take the device from it.
OwnCandidateIsLast == candidate # None /\ candidate.id = owner => prev = NoOwner

\* The part of it that speaks of fail-closed binding mode.
Held == candidate # None => conn[candidate.id] = "parked" \/ owner = candidate.id

HeldInv == OwnershipInv /\ OwnCandidateIsLast /\ Held

\* Where owner, previous owner and connections stay, a candidate that is no other
\* connection's than before stays held.
LEMMA StaysHeld ==
    ASSUME HeldInv, UNCHANGED <<owner, prev, conn>>,
           candidate' # None => candidate # None /\ candidate'.id = candidate.id
    PROVE  OwnCandidateIsLast' /\ Held'
BY DEF HeldInv, OwnCandidateIsLast, Held

\* A connection thread stages only a candidate that then waits, and ends only when it
\* does not wait itself.
LEMMA ConnStepHeld ==
    ASSUME BlockRegistration, RequireController, HeldInv, NEW c \in Conn, ConnStep(c)
    PROVE  OwnCandidateIsLast' /\ Held'
<1>t. TypeOK /\ UnownedIsBoot
  BY DEF HeldInv, OwnershipInv
<1>u. Unexpired # None => Unexpired = candidate
  BY DEF Unexpired
<1>b. Binding
  BY DEF Binding
<1>1. CASE Establish(c)
  BY <1>1, <1>t DEF Establish, HeldInv, OwnCandidateIsLast, Held, ownership, TypeOK
<1>2. ASSUME NEW r \in Region, DmaMap(c, r) \/ DmaUnmap(c, r)
      PROVE  OwnCandidateIsLast' /\ Held'
  BY <1>2, StaysHeld DEF DmaMap, DmaUnmap, ownership
<1>3. CASE DisableIrqs(c) \/ SetIrqsRejected(c)
  BY <1>3, <1>u, StaysHeld DEF DisableIrqs, SetIrqsRejected
<1>4. ASSUME NEW reg \in Registration, RegisterOwner(c, reg)
      PROVE  OwnCandidateIsLast' /\ Held'
  <2>1. /\ owner \in {NoOwner, c} /\ owner' = c
        /\ candidate' = Unexpired /\ UNCHANGED <<conn, prev>>
    BY <1>4 DEF RegisterOwner, Install
  <2>2. CASE owner = c
    BY <2>1, <2>2, <1>u, StaysHeld
  <2>3. CASE owner = NoOwner
    BY <2>1, <2>3, <1>t, <1>u DEF UnownedIsBoot, OwnCandidateIsLast, Held
  <2> QED
    BY <2>1, <2>2, <2>3
<1>5. ASSUME NEW reg \in Registration, StageCandidate(c, reg)
      PROVE  OwnCandidateIsLast' /\ Held'
  BY <1>5, <1>b, <1>t DEF StageCandidate, OwnCandidateIsLast, Held, TypeOK
<1>6. CASE WakeParked(c)
  <2>1. /\ conn' = [conn EXCEPT ![c] = "serving"] /\ UNCHANGED <<owner, prev>>
        /\ candidate' # None => candidate' = candidate /\ (owner = c \/ candidate.id # c)
    BY <1>6 DEF WakeParked, IsCandidate
  <2>2. candidate' # None => candidate.id \in Conn
    BY <2>1, <1>t DEF TypeOK
  <2> QED
    BY <2>1, <2>2, <1>t DEF HeldInv, OwnCandidateIsLast, Held, TypeOK
<1>7. ASSUME NEW cloned1 \in DupOutcome, NEW cloned2 \in DupOutcome,
             Disconnect(c, cloned1, cloned2)
      PROVE  OwnCandidateIsLast' /\ Held'
  <2>1. conn[c] # "parked" /\ conn' = [conn EXCEPT ![c] = "gone"]
    BY <1>7 DEF Disconnect
  <2>2. CASE UNCHANGED ownership
    BY <2>1, <2>2, <1>t DEF HeldInv, OwnCandidateIsLast, Held, TypeOK, ownership
  <2>3. CASE candidate' = None
    BY <2>3 DEF OwnCandidateIsLast, Held
  <2>4. CASE /\ owner = c /\ prev \in Conn /\ prev' = NoOwner
             /\ UNCHANGED candidate
    <3>1. candidate # None => candidate.id # c /\ candidate.id \in Conn
      BY <2>4, <1>t, NoOwnerAssumption DEF HeldInv, OwnCandidateIsLast, TypeOK
    <3> QED
      BY <2>1, <2>4, <3>1, <1>t DEF HeldInv, OwnCandidateIsLast, Held, TypeOK
  <2> QED
    BY <1>7, <2>2, <2>3, <2>4 DEF Disconnect, Install, MakeUnowned, live
<1> QED
  BY <1>1, <1>2, <1>3, <1>4, <1>5, <1>6, <1>7 DEF ConnStep

\* A commit consumes the candidate, a reclaim leaves no previous owner.
LEMMA ControlStepHeld ==
    ASSUME HeldInv, ControlStep
    PROVE  OwnCandidateIsLast' /\ Held'
<1>t. TypeOK
  BY DEF HeldInv, OwnershipInv
<1>u. Unexpired # None => Unexpired = candidate
  BY DEF Unexpired
<1>1. ASSUME NEW id \in Conn, NEW e \in 0 .. epoch, NEW cloned \in DupOutcome,
             HandoverCommit(id, e, cloned)
      PROVE  OwnCandidateIsLast' /\ Held'
  <2>1. CASE AnswerOnly
    BY <1>1, <2>1, <1>u, StaysHeld DEF HandoverCommit, Execute, AnswerOnly
  <2>2. CASE candidate' = None
    BY <2>2 DEF OwnCandidateIsLast, Held
  <2> QED
    BY <1>1, <2>1, <2>2 DEF HandoverCommit
<1>2. ASSUME NEW id \in Conn, NEW e \in 0 .. epoch, NEW cloned \in DupOutcome,
             HandoverReclaim(id, e, cloned)
      PROVE  OwnCandidateIsLast' /\ Held'
  <2>1. CASE AnswerOnly
    BY <1>2, <2>1, <1>u, StaysHeld DEF HandoverReclaim, Execute, AnswerOnly
  <2>2. CASE ReclaimAccepted(id, e) /\ prev' = NoOwner /\ candidate' = Unexpired
    <3>1. prev # NoOwner /\ UNCHANGED conn
      BY <1>2, <2>2, NoOwnerAssumption DEF ReclaimAccepted, HandoverReclaim, Execute
    <3> QED
      BY <2>2, <3>1, <1>u DEF HeldInv, OwnCandidateIsLast, Held
  <2> QED
    BY <1>2, <2>1, <2>2 DEF HandoverReclaim
<1>3. ASSUME NEW id \in Conn, HandoverReady(id) \/ HandoverAbort(id)
      PROVE  OwnCandidateIsLast' /\ Held'
  BY <1>3, <1>u, <1>t, StaysHeld DEF HandoverReady, HandoverAbort, Execute, TypeOK
<1>4. CASE \/ BeginCommand
           \/ \E n \in {"none", "some"} : NoteInventory(n)
           \/ HandoverStatus
           \/ HandoverWatch
           \/ \E late \in BOOLEAN : WatchPoll(late)
  BY <1>4, <1>u, StaysHeld DEF BeginCommand, NoteInventory, HandoverStatus, HandoverWatch,
     WatchPoll, Execute, AnswerOnly, ownership
<1> QED
  BY <1>1, <1>2, <1>3, <1>4 DEF ControlStep

\* In fail-closed binding mode set_irqs holds the reply of every candidate it stages,
\* and neither a refused reply, the end of a connection nor a reclaim leaves a candidate
\* behind that does not wait.
THEOREM CandidateIsHeldAlways == Spec => []CandidateIsHeld
<1>1. CASE BlockRegistration /\ RequireController
  <2>1. Init => HeldInv
    BY InitOwnership DEF Init, HeldInv, OwnCandidateIsLast, Held
  <2>2. HeldInv /\ OwnershipInv' /\ [Next]_vars => HeldInv'
    <3> SUFFICES ASSUME HeldInv, OwnershipInv', [Next]_vars
                 PROVE  OwnCandidateIsLast' /\ Held'
      BY DEF HeldInv
    <3>1. CASE \E c \in Conn : ConnStep(c)
      BY <1>1, <3>1, ConnStepHeld
    <3>2. CASE ControlStep
      BY <3>2, ControlStepHeld
    <3>3. CASE Tick
      <4>1. UNCHANGED <<owner, prev, conn>>
        BY <3>3 DEF Tick
      <4>2. candidate' # None => candidate # None /\ candidate'.id = candidate.id
        BY <3>3 DEF Tick, HeldInv, OwnershipInv, TypeOK
      <4> QED
        BY <4>1, <4>2, StaysHeld
    <3>4. CASE UNCHANGED vars
      BY <3>4, StaysHeld DEF vars, ownership
    <3> QED
      BY <3>1, <3>2, <3>3, <3>4 DEF Next
  <2>3. HeldInv => CandidateIsHeld
    BY DEF HeldInv, Held, CandidateIsHeld
  <2> QED
    BY <2>1, <2>2, <2>3, OwnershipInvariant, PTL DEF Spec
<1>2. CASE ~(BlockRegistration /\ RequireController)
  <2>1. CandidateIsHeld
    BY <1>2 DEF CandidateIsHeld
  <2> QED
    BY <2>1, PTL
<1> QED
  BY <1>1, <1>2

-----------------------------------------------------------------------------
(* Action properties *)

\* Only dma_unmap removes memory from the bus, and while the device is owned
\* only the owner's own dma_unmap gets past the guard.
THEOREM TeardownIsOwnersAlways == Spec => TeardownIsOwners
<1> DEFINE Kept == \A r \in Region :
        bus[r] # None /\ bus'[r] = None /\ owner # NoOwner => r \notin mapped'[owner]
<1>1. OwnershipInv /\ [Next]_vars => [Kept]_vars
  <2> SUFFICES ASSUME OwnershipInv, [Next]_vars PROVE Kept
    OBVIOUS
  <2>t. TypeOK /\ None \notin Conn
    BY NoneAssumption DEF OwnershipInv
  <2>1. CASE UNCHANGED bus
    BY <2>1
  <2>2. ASSUME NEW c \in Conn, NEW r \in Region, DmaUnmap(c, r)
        PROVE  Kept
    BY <2>2, <2>t DEF DmaUnmap, IsStale, TypeOK
  <2>3. ASSUME NEW c \in Conn, NEW r \in Region, DmaMap(c, r)
        PROVE  Kept
    BY <2>3, <2>t DEF DmaMap, TypeOK
  <2>4. ASSUME NEW c \in Conn, ConnStep(c), ~UNCHANGED bus
        PROVE  Kept
    BY <2>2, <2>3, <2>4 DEF ConnStep, Establish, DisableIrqs, SetIrqsRejected, RegisterOwner,
          StageCandidate, WakeParked, Disconnect, memory
  <2>5. ControlStep \/ Tick \/ UNCHANGED vars => UNCHANGED bus
    BY DEF ControlStep, BeginCommand, NoteInventory, HandoverStatus, HandoverWatch, WatchPoll,
           HandoverReady, HandoverAbort, HandoverCommit, HandoverReclaim, Execute, Tick,
           vars, memory
  <2> QED
    BY <2>1, <2>4, <2>5 DEF Next
<1> QED
  BY <1>1, OwnershipInvariant, PTL DEF Spec, TeardownIsOwners

\* A new candidacy starts without readiness, and only the control thread's
\* ready command for the staged candidate sets it.
THEOREM ReadinessIsEarnedAlways == Spec => ReadinessIsEarned
<1> DEFINE Earned == candidate' # None /\ candidate'.ready =>
        /\ candidate # None
        /\ candidate.id = candidate'.id
        /\ candidate.waited <= PreflightTimeout \/ candidate' = candidate
<1>1. OwnershipInv /\ [Next]_vars => [Earned]_vars
  <2> SUFFICES ASSUME OwnershipInv, [Next]_vars PROVE Earned
    OBVIOUS
  <2>t. TypeOK
    BY DEF OwnershipInv
  <2>1. CASE candidate' \in {candidate, Unexpired, None}
    BY <2>1 DEF Unexpired
  <2>2. ASSUME NEW c \in Conn, NEW reg \in Registration, StageCandidate(c, reg)
        PROVE  Earned
    <3>1. candidate' = [id |-> c, reg |-> reg, waited |-> 0, ready |-> KeepsReady(c)]
      BY <2>2 DEF StageCandidate
    <3>2. SUFFICES ASSUME KeepsReady(c) PROVE Earned
      BY <3>1
    <3>3. candidate # None /\ candidate.id = c /\ ~(candidate.waited > PreflightTimeout)
      BY <3>2 DEF KeepsReady, Unexpired
    <3>4. candidate.waited <= PreflightTimeout
      BY <3>3, <2>t, TimersAssumption DEF TypeOK
    <3> QED
      BY <3>1, <3>3, <3>4
  <2>3. ASSUME NEW id \in Conn, HandoverReady(id)
        PROVE  Earned
    BY <2>3, <2>t, TimersAssumption DEF HandoverReady, Unexpired, TypeOK
  <2>4. CASE Tick
    BY <2>4, <2>t, TimersAssumption DEF Tick, TypeOK
  <2>5. ASSUME NEW c \in Conn, ConnStep(c)
        PROVE  Earned
    BY <2>1, <2>2, <2>5 DEF ConnStep, Establish, DmaMap, DmaUnmap, DisableIrqs,
          SetIrqsRejected, RegisterOwner, WakeParked, Disconnect, MakeUnowned, ownership
  <2>6. CASE ControlStep
    BY <2>1, <2>3, <2>6 DEF ControlStep, BeginCommand, NoteInventory, HandoverStatus,
          HandoverWatch, WatchPoll, HandoverAbort, HandoverCommit, HandoverReclaim,
          AnswerOnly, ownership
  <2> QED
    BY <2>1, <2>4, <2>5, <2>6 DEF Next, vars, ownership
<1> QED
  BY <1>1, OwnershipInvariant, PTL DEF Spec, ReadinessIsEarned

\* What a candidate receives from an owner it has published, also when the
\* owner's own bookkeeping disappears in the very step of the hand-over.
THEOREM HandedOverMemoryIsCoveredAlways == Spec => HandedOverMemoryIsCovered
<1> DEFINE Received == /\ owner # NoOwner
                       /\ candidate # None /\ candidate' = None
                       /\ owner' = candidate.id /\ owner' # owner /\ owner' # prev
                       /\ ~Binding \/ conn'[owner] # conn[owner]
           Covered == Received => mapped[owner] \subseteq mapped'[owner']
<1>1. OwnershipInv /\ [Next]_vars => [Covered]_vars
  <2> SUFFICES ASSUME OwnershipInv, [Next]_vars, Received
               PROVE  mapped[owner] \subseteq mapped'[owner']
    OBVIOUS
  <2>t. TypeOK /\ NoOwner \notin Conn
    BY NoOwnerAssumption DEF OwnershipInv
  <2>1. ASSUME NEW c \in Conn, NEW cloned1 \in DupOutcome, NEW cloned2 \in DupOutcome,
               Disconnect(c, cloned1, cloned2)
        PROVE  mapped[owner] \subseteq mapped'[owner']
    <3>1. owner = c
      BY <2>1 DEF Disconnect, ownership
    <3>2. PreflightHard(candidate, mapped'[candidate.id], mapped[c], TRUE)
      BY <2>1, <2>t, <3>1 DEF Disconnect, Install, MakeUnowned, TypeOK
    <3> QED
      BY <3>1, <3>2 DEF PreflightHard
  <2>2. ASSUME NEW id \in Conn, NEW e \in 0 .. epoch, NEW cloned \in DupOutcome,
               HandoverCommit(id, e, cloned)
        PROVE  mapped[owner] \subseteq mapped'[owner']
    <3>1. CommitAccepted(id, e) /\ UNCHANGED <<conn, mapped>>
      BY <2>2 DEF HandoverCommit, AnswerOnly, Execute, memory
    <3>2. candidate.id = id
      BY <3>1 DEF CommitAccepted, Unexpired
    <3>3. CASE ~Binding
      BY <3>1, <3>2, <3>3 DEF CommitAccepted, PreflightHard, OwnerRanges
    <3>4. CASE Binding
      BY <3>1, <3>4
    <3> QED
      BY <3>3, <3>4
  <2>3. ASSUME NEW c \in Conn, ConnStep(c)
        PROVE  mapped[owner] \subseteq mapped'[owner']
    BY <2>1, <2>3, <2>t DEF ConnStep, Establish, DmaMap, DmaUnmap, DisableIrqs,
          SetIrqsRejected, RegisterOwner, Install, StageCandidate, WakeParked, ownership
  <2>4. ASSUME ControlStep
        PROVE  mapped[owner] \subseteq mapped'[owner']
    BY <2>2, <2>4, <2>t DEF ControlStep, BeginCommand, NoteInventory, HandoverStatus,
          HandoverWatch, WatchPoll, HandoverReady, HandoverAbort, HandoverReclaim,
          ReclaimAccepted, Install, AnswerOnly, ownership
  <2> QED
    BY <2>3, <2>4 DEF Next, Tick, vars, ownership
<1> QED
  BY <1>1, OwnershipInvariant, PTL DEF Spec, HandedOverMemoryIsCovered

=============================================================================
