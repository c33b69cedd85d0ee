------------------------------ MODULE Handover ------------------------------
(***************************************************************************)
(* Two-phase hand-over of the shared xHCI controller between vfio-user     *)
(* connections (shared_backend.rs), with the connection threads that drive *)
(* it (main.rs, run_multi_client) and the control-socket thread            *)
(* (hotplug_server.rs, handle_handover).                                   *)
(*                                                                         *)
(* Every critical section of the `ownership` mutex is one action.  A       *)
(* command that gives the mutex up in the middle is several: the first     *)
(* command of a connection marks it live in a section of its own, a held   *)
(* registration reply sleeps on the condition variable, and a hand-over    *)
(* command of the control thread is preceded by two sections that record   *)
(* that a controller exists and how many devices the port holds.           *)
(*                                                                         *)
(* Guest memory is a set of disjoint regions and an interrupt registration *)
(* is a record: whose eventfd it is, which vector it names and whether the *)
(* descriptor really is an eventfd.  Deadlines are counters that Tick      *)
(* advances and that stop one past the value the code compares them with.  *)
(***************************************************************************)
EXTENDS Naturals, FiniteSets

CONSTANTS
    Conn,               \* vfio-user connections; an id is never reused
    NoOwner,            \* NO_OWNER
    None,               \* Rust's None
    Region,             \* disjoint guest memory regions
    Vector,             \* (index, start, count) of a well-formed SetIrqs
    PreflightTimeout,   \* ticks a candidate may stay staged
    Lease,              \* ticks after a commit during which reclaim is allowed
    RequireReady, AutoReclaim, RequireDevice,
    BlockRegistration, RequireController,
    DupMayFail,         \* whether dup(2) of an eventfd may fail
    MaxEpoch            \* bound: ownership changes explored

ASSUME TimersAssumption == PreflightTimeout \in Nat /\ Lease \in Nat
ASSUME PolicyAssumption ==
    {RequireReady, AutoReclaim, RequireDevice, BlockRegistration,
     RequireController, DupMayFail} \subseteq BOOLEAN
ASSUME NoOwnerAssumption == NoOwner \notin Conn
ASSUME BoundAssumption == MaxEpoch \in Nat

\* What one SetIrqs with descriptors carries.
Registration == [conn : Conn, vector : Vector, eventfd : BOOLEAN]

\* A staged registration; `waited` counts from the moment it was staged.
Candidate == [id : Conn, reg : Registration,
              waited : 0 .. PreflightTimeout + 1, ready : BOOLEAN]

ASSUME NoneAssumption == None \notin Conn \cup Registration \cup Candidate \cup Nat

VARIABLES
    conn,            \* "slot" (accepting), "serving", "parked", "gone"
    owner, prev, epoch,
    sinceCommit,     \* ticks since committed_at, or None
    candidate, owner_reg, prev_reg,
    mapped,          \* regions each connection has mapped (bookkeeping)
    bus,             \* whose mapping each region of the DMA bus is, or None
    line,            \* registration last handed to the interrupter, or None
    controller_seen,
    device_count,    \* "unknown", "none" or "some"
    ctl,             \* control thread: "idle", "listing", "executing", "watching"
    watch_epoch      \* start_epoch of the watch in progress

ownership == <<owner, prev, epoch, sinceCommit, candidate, owner_reg, prev_reg, line>>
memory    == <<mapped, bus>>
control   == <<ctl, watch_epoch, controller_seen, device_count>>
vars      == <<conn, ownership, memory, control>>

\* `live`: connections that have sent a command and not ended.
live == {c \in Conn : conn[c] \in {"serving", "parked"}}

TypeOK ==
    /\ conn \in [Conn -> {"slot", "serving", "parked", "gone"}]
    /\ owner \in Conn \cup {NoOwner}
    /\ prev \in Conn \cup {NoOwner}
    /\ epoch \in Nat
    /\ sinceCommit \in (0 .. Lease + 1) \cup {None}
    /\ candidate \in Candidate \cup {None}
    /\ owner_reg \in Registration \cup {None}
    /\ prev_reg \in Registration \cup {None}
    /\ mapped \in [Conn -> SUBSET Region]
    /\ bus \in [Region -> Conn \cup {None}]
    /\ line \in Registration \cup {None}
    /\ controller_seen \in BOOLEAN
    /\ device_count \in {"unknown", "none", "some"}
    /\ ctl \in {"idle", "listing", "executing", "watching"}
    /\ watch_epoch \in Nat

Init ==
    /\ conn = [c \in Conn |-> "slot"]
    /\ owner = NoOwner
    /\ prev = NoOwner
    /\ epoch = 0
    /\ sinceCommit = None
    /\ candidate = None
    /\ owner_reg = None
    /\ prev_reg = None
    /\ mapped = [c \in Conn |-> {}]
    /\ bus = [r \in Region |-> None]
    /\ line = None
    /\ controller_seen = FALSE
    /\ device_count = "unknown"
    /\ ctl = "idle"
    /\ watch_epoch = 0

-----------------------------------------------------------------------------
(* Helpers *)

\* Whether a dup(2) may succeed (TRUE) or fail (FALSE).
DupOutcome == IF DupMayFail THEN BOOLEAN ELSE {TRUE}

\* expire_candidate: what is left of the candidate once its window is checked.
Unexpired ==
    IF candidate # None /\ candidate.waited > PreflightTimeout
    THEN None
    ELSE candidate

\* Whether a destination's registration reply is held for the controller,
\* which is also when a commit does without the memory check.
Binding == BlockRegistration /\ (controller_seen \/ RequireController)

\* Mutant: the two sides of the coverage check swapped.
PreflightHard_Swapped(cand, published, owner_ranges, check_dma) ==
    /\ cand.reg.eventfd
    /\ ~(RequireDevice /\ device_count = "none")
    /\ owner_reg # None => cand.reg.vector = owner_reg.vector
    /\ check_dma => published \subseteq owner_ranges

\* preflight_hard: eventfd, device still there, same vector, memory covered.
PreflightHard(cand, published, owner_ranges, check_dma) ==
    /\ cand.reg.eventfd
    /\ ~(RequireDevice /\ device_count = "none")
    /\ owner_reg # None => cand.reg.vector = owner_reg.vector
    /\ check_dma => owner_ranges \subseteq published

\* Mutant: no ownership guard on teardown.
IsStale_Never(c) == FALSE

\* is_stale: some other connection owns the device.
IsStale(c) == owner # c /\ owner # NoOwner

\* Mutant: a change of hands that keeps the epoch.
NextEpoch_Kept == UNCHANGED epoch

\* The device changes hands; at most MaxEpoch times are explored.
NextEpoch == epoch < MaxEpoch /\ epoch' = epoch + 1

\* Mutant: the staged candidate survives its owner.
MakeUnowned_KeepsCandidate ==
    /\ NextEpoch
    /\ owner' = NoOwner
    /\ prev' = NoOwner
    /\ sinceCommit' = None
    /\ owner_reg' = None
    /\ prev_reg' = None
    /\ UNCHANGED <<candidate, line>>

\* make_unowned: back to the boot state, except that the line stays installed.
MakeUnowned ==
    /\ NextEpoch
    /\ owner' = NoOwner
    /\ prev' = NoOwner
    /\ sinceCommit' = None
    /\ candidate' = None
    /\ owner_reg' = None
    /\ prev_reg' = None
    /\ UNCHANGED line

\* install_registration: c's line goes to the interrupter and is recorded.
Install(c, reg) == line' = reg /\ owner' = c /\ owner_reg' = reg

-----------------------------------------------------------------------------
(* Connection threads (run_multi_client and ServerBackend for SharedBackend) *)

\* touch/establish: the first data-path command of a connection marks it live.
Establish(c) ==
    /\ conn[c] = "slot"
    /\ conn' = [conn EXCEPT ![c] = "serving"]
    /\ UNCHANGED <<ownership, memory, control>>

\* dma_map: any client; replaces whatever the shared bus holds at that address.
DmaMap(c, r) ==
    /\ conn[c] = "serving"
    /\ bus' = [bus EXCEPT ![r] = c]
    /\ mapped' = [mapped EXCEPT ![c] = @ \cup {r}]
    /\ UNCHANGED <<conn, ownership, control>>

\* dma_unmap: ignored from a stale client.
DmaUnmap(c, r) ==
    /\ conn[c] = "serving"
    /\ ~IsStale(c)
    /\ bus' = [bus EXCEPT ![r] = None]
    /\ mapped' = [mapped EXCEPT ![c] = @ \ {r}]
    /\ UNCHANGED <<conn, ownership, control>>

\* set_irqs without descriptors: the owner silences its line.
DisableIrqs(c) ==
    /\ conn[c] = "serving"
    /\ owner = c
    /\ candidate' = Unexpired
    /\ line' = None
    /\ UNCHANGED <<conn, owner, prev, epoch, sinceCommit, owner_reg, prev_reg,
                   memory, control>>

\* set_irqs that is malformed, a stale disable, or fails to clone its
\* descriptors: only the expiry check has happened.
SetIrqsRejected(c) ==
    /\ conn[c] = "serving"
    /\ candidate' = Unexpired
    /\ UNCHANGED <<conn, owner, prev, epoch, sinceCommit, owner_reg, prev_reg, line,
                   memory, control>>

\* set_irqs with no owner, or by the owner: applied at once.
RegisterOwner(c, reg) ==
    /\ conn[c] = "serving"
    /\ owner \in {NoOwner, c}
    /\ candidate' = Unexpired
    /\ Install(c, reg)
    /\ IF owner = NoOwner THEN NextEpoch ELSE UNCHANGED epoch
    /\ UNCHANGED <<conn, prev, sinceCommit, prev_reg, memory, control>>

\* Mutant: readiness declared in an elapsed window is carried over.
KeepsReady_AfterExpiry(c) == candidate # None /\ candidate.id = c /\ candidate.ready

\* Readiness survives only a re-registration of the still valid candidate.
KeepsReady(c) == Unexpired # None /\ Unexpired.id = c /\ Unexpired.ready

\* Mutant: the second client's line is installed at once.
StageCandidate_Eager(c, reg) ==
    /\ conn[c] = "serving"
    /\ owner \notin {NoOwner, c}
    /\ candidate' = [id |-> c, reg |-> reg, waited |-> 0, ready |-> KeepsReady(c)]
    /\ conn' = [conn EXCEPT ![c] = IF Binding THEN "parked" ELSE "serving"]
    /\ line' = reg
    /\ UNCHANGED <<owner, prev, epoch, sinceCommit, owner_reg, prev_reg,
                   memory, control>>

\* set_irqs by a second client: staged, and the reply held in binding mode.
StageCandidate(c, reg) ==
    /\ conn[c] = "serving"
    /\ owner \notin {NoOwner, c}
    /\ candidate' = [id |-> c, reg |-> reg, waited |-> 0, ready |-> KeepsReady(c)]
    /\ conn' = [conn EXCEPT ![c] = IF Binding THEN "parked" ELSE "serving"]
    /\ UNCHANGED <<owner, prev, epoch, sinceCommit, owner_reg, prev_reg, line,
                   memory, control>>

IsCandidate(c) == candidate # None /\ candidate.id = c

\* Mutant: the reply is refused in time but the candidate stays staged.
WakeParked_LeavesCandidate(c) ==
    /\ conn[c] = "parked"
    /\ owner # c /\ IsCandidate(c) => candidate.waited >= PreflightTimeout
    /\ conn' = [conn EXCEPT ![c] = "serving"]
    /\ UNCHANGED <<ownership, memory, control>>

\* Mutant: the held reply has no deadline of its own.
WakeParked_NoDeadline(c) ==
    /\ conn[c] = "parked"
    /\ owner = c \/ ~IsCandidate(c)
    /\ conn' = [conn EXCEPT ![c] = "serving"]
    /\ UNCHANGED <<ownership, memory, control>>

\* The loop that holds the reply: committed, dropped, or out of time.
WakeParked(c) ==
    /\ conn[c] = "parked"
    /\ \/ owner = c /\ UNCHANGED candidate
       \/ /\ owner # c
          /\ ~IsCandidate(c)
          /\ UNCHANGED candidate
       \/ /\ owner # c
          /\ IsCandidate(c)
          /\ candidate.waited >= PreflightTimeout
          /\ candidate' = None
    /\ conn' = [conn EXCEPT ![c] = "serving"]
    /\ UNCHANGED <<owner, prev, epoch, sinceCommit, owner_reg, prev_reg, line,
                   memory, control>>

\* disconnect: the command loop of a connection has ended.  In order of
\* preference the previous owner takes the device back, the staged candidate
\* is promoted, nobody owns it.  cloned1 and cloned2 are the outcomes of the
\* two installations that may be attempted.
Disconnect(c, cloned1, cloned2) ==
    LET published == [mapped EXCEPT ![c] = {}]
        fallback  == /\ AutoReclaim
                     /\ prev \in live \ {c}
                     /\ prev_reg # None
                     /\ cloned1
        promote   == /\ AutoReclaim
                     /\ candidate # None
                     /\ PreflightHard(candidate, published[candidate.id], mapped[c], TRUE)
                     /\ cloned2
    IN  /\ conn[c] \in {"slot", "serving"}
        /\ conn' = [conn EXCEPT ![c] = "gone"]
        /\ mapped' = published
        /\ \/ owner # c /\ UNCHANGED ownership
           \/ /\ owner = c /\ fallback
              /\ NextEpoch
              /\ Install(prev, prev_reg)
              /\ prev' = NoOwner /\ prev_reg' = None
              /\ sinceCommit' = 0
              /\ UNCHANGED candidate
           \/ /\ owner = c /\ ~fallback /\ promote
              /\ NextEpoch
              /\ Install(candidate.id, candidate.reg)
              /\ prev' = NoOwner /\ prev_reg' = None
              /\ sinceCommit' = 0
              /\ candidate' = None
           \/ owner = c /\ ~fallback /\ ~promote /\ MakeUnowned
        /\ UNCHANGED <<bus, control>>

-----------------------------------------------------------------------------
(* Control thread (handle_handover): one command at a time *)

\* note_controller_seen, then the question to the hot-plug port.
BeginCommand ==
    /\ ctl = "idle"
    /\ ctl' = "listing"
    /\ controller_seen' = TRUE
    /\ UNCHANGED <<conn, ownership, memory, watch_epoch, device_count>>

\* note_device_inventory with the port's answer.
NoteInventory(n) ==
    /\ ctl = "listing"
    /\ ctl' = "executing"
    /\ device_count' = n
    /\ UNCHANGED <<conn, ownership, memory, watch_epoch, controller_seen>>

\* The command proper ends the request.
Execute ==
    /\ ctl = "executing"
    /\ ctl' = "idle"
    /\ UNCHANGED <<conn, memory, watch_epoch, controller_seen, device_count>>

\* A command that is answered without changing anything but an expired candidate.
AnswerOnly ==
    /\ candidate' = Unexpired
    /\ UNCHANGED <<owner, prev, epoch, sinceCommit, owner_reg, prev_reg, line>>

HandoverStatus == Execute /\ AnswerOnly

HandoverWatch ==
    /\ ctl = "executing"
    /\ ctl' = "watching"
    /\ watch_epoch' = epoch
    /\ UNCHANGED <<conn, ownership, memory, controller_seen, device_count>>

\* Mutant: the watch forgets its deadline.
WatchPoll_NoDeadline(late) ==
    /\ ctl = "watching"
    /\ AnswerOnly
    /\ IF Unexpired # None \/ epoch # watch_epoch
       THEN ctl' = "idle" /\ watch_epoch' = 0
       ELSE UNCHANGED <<ctl, watch_epoch>>
    /\ UNCHANGED <<conn, memory, controller_seen, device_count>>

\* One turn of the watch loop.  `late` is whether its own deadline has passed.
WatchPoll(late) ==
    /\ ctl = "watching"
    /\ AnswerOnly
    /\ IF Unexpired # None \/ epoch # watch_epoch \/ late
       THEN ctl' = "idle" /\ watch_epoch' = 0
       ELSE UNCHANGED <<ctl, watch_epoch>>
    /\ UNCHANGED <<conn, memory, controller_seen, device_count>>

HandoverReady(id) ==
    /\ Execute
    /\ candidate' = IF Unexpired # None /\ Unexpired.id = id
                    THEN [Unexpired EXCEPT !.ready = TRUE]
                    ELSE Unexpired
    /\ UNCHANGED <<owner, prev, epoch, sinceCommit, owner_reg, prev_reg, line>>

HandoverAbort(id) ==
    /\ Execute
    /\ candidate' = IF Unexpired # None /\ Unexpired.id = id THEN None ELSE Unexpired
    /\ UNCHANGED <<owner, prev, epoch, sinceCommit, owner_reg, prev_reg, line>>

\* Ranges the device uses now.
OwnerRanges == IF owner = NoOwner THEN {} ELSE mapped[owner]

\* The checks a commit of `id`, decided at epoch e, has to pass.
CommitAccepted(id, e) ==
    /\ Unexpired # None
    /\ e = epoch
    /\ Unexpired.id = id
    /\ RequireReady => Unexpired.ready
    /\ PreflightHard(Unexpired, mapped[id], OwnerRanges, ~Binding)

\* handover_commit.  A refusal, and the Ok for a commit that is already done,
\* only answer.  The candidate is consumed before its descriptors are cloned.
HandoverCommit(id, e, cloned) ==
    /\ Execute
    /\ \/ ~CommitAccepted(id, e) /\ AnswerOnly
       \/ /\ CommitAccepted(id, e) /\ ~cloned
          /\ candidate' = None
          /\ UNCHANGED <<owner, prev, epoch, sinceCommit, owner_reg, prev_reg, line>>
       \/ /\ CommitAccepted(id, e) /\ cloned
          /\ NextEpoch
          /\ Install(candidate.id, candidate.reg)
          /\ candidate' = None
          /\ prev' = owner /\ prev_reg' = owner_reg
          /\ sinceCommit' = 0

\* The checks a reclaim has to pass.
ReclaimAccepted(id, e) ==
    /\ prev = id
    /\ id \in live
    /\ e = epoch
    /\ sinceCommit # None /\ sinceCommit <= Lease
    /\ prev_reg # None

\* Mutant: a reclaim that fails to install does not put the registration back.
HandoverReclaim_LosesReg(id, e, cloned) ==
    /\ Execute
    /\ \/ ~ReclaimAccepted(id, e) /\ AnswerOnly
       \/ /\ ReclaimAccepted(id, e) /\ ~cloned
          /\ prev_reg' = None
          /\ candidate' = Unexpired
          /\ UNCHANGED <<owner, prev, epoch, sinceCommit, owner_reg, line>>
       \/ /\ ReclaimAccepted(id, e) /\ cloned
          /\ NextEpoch
          /\ Install(id, prev_reg)
          /\ prev' = NoOwner /\ prev_reg' = None
          /\ candidate' = Unexpired
          /\ UNCHANGED sinceCommit

\* handover_reclaim; a failed installation puts prev_reg back.
HandoverReclaim(id, e, cloned) ==
    /\ Execute
    /\ \/ ~(ReclaimAccepted(id, e) /\ cloned) /\ AnswerOnly
       \/ /\ ReclaimAccepted(id, e) /\ cloned
          /\ NextEpoch
          /\ Install(id, prev_reg)
          /\ prev' = NoOwner /\ prev_reg' = None
          /\ candidate' = Unexpired
          /\ UNCHANGED sinceCommit

-----------------------------------------------------------------------------
\* Time passes for the preflight window and for the lease.
Tick ==
    LET waited == IF candidate.waited > PreflightTimeout
                  THEN candidate.waited ELSE candidate.waited + 1
    IN  /\ candidate' = IF candidate = None THEN None
                        ELSE [candidate EXCEPT !.waited = waited]
        /\ sinceCommit' = IF sinceCommit = None \/ sinceCommit > Lease
                          THEN sinceCommit ELSE sinceCommit + 1
        /\ UNCHANGED <<conn, owner, prev, epoch, owner_reg, prev_reg, line, memory, control>>

ConnStep(c) ==
    \/ Establish(c)
    \/ \E r \in Region : DmaMap(c, r) \/ DmaUnmap(c, r)
    \/ DisableIrqs(c)
    \/ SetIrqsRejected(c)
    \/ \E reg \in Registration :
          reg.conn = c /\ (RegisterOwner(c, reg) \/ StageCandidate(c, reg))
    \/ WakeParked(c)
    \/ \E cloned1, cloned2 \in DupOutcome : Disconnect(c, cloned1, cloned2)

ControlStep ==
    \/ BeginCommand
    \/ \E n \in {"none", "some"} : NoteInventory(n)
    \/ HandoverStatus
    \/ HandoverWatch
    \/ \E late \in BOOLEAN : WatchPoll(late)
    \/ \E id \in Conn : HandoverReady(id) \/ HandoverAbort(id)
    \/ \E id \in Conn, e \in 0 .. epoch, cloned \in DupOutcome :   \* e: once observed
          HandoverCommit(id, e, cloned) \/ HandoverReclaim(id, e, cloned)

Next == (\E c \in Conn : ConnStep(c)) \/ ControlStep \/ Tick

Spec == Init /\ [][Next]_vars

\* Time advances, a thread asleep in a timed wait wakes up (every 50 ms at the
\* latest), and the deadline of a watch is reached.
Fairness ==
    /\ WF_vars(Tick)
    /\ \A c \in Conn : WF_vars(WakeParked(c))
    /\ \A late \in BOOLEAN : WF_vars(WatchPoll(late))

FairSpec == Spec /\ Fairness

-----------------------------------------------------------------------------
(* Properties *)

\* The line handed to the interrupter while somebody owns the device is the
\* owner's current registration, or none after the owner disabled interrupts;
\* and an owner always has a registration on record (install_registration,
\* set_irqs, handover_commit).
LineFollowsOwner ==
    owner # NoOwner =>
        /\ owner_reg # None
        /\ owner_reg.conn = owner
        /\ line \in {owner_reg, None}

\* As long as a previous owner is remembered, everything a reclaim or an
\* automatic fall-back needs of it is there: its own registration and the time
\* of the commit, whatever reclaims failed in between.
FallbackIsIntact ==
    prev # NoOwner =>
        /\ prev_reg # None
        /\ prev_reg.conn = prev
        /\ sinceCommit # None

\* "Exactly as at boot": an unowned device has no candidate, no previous owner
\* and no recorded registration, so the next registration claims it and nothing
\* left over from before can be committed, promoted or reclaimed.
UnownedIsBoot ==
    owner = NoOwner =>
        /\ candidate = None
        /\ prev = NoOwner
        /\ owner_reg = None
        /\ prev_reg = None
        /\ sinceCommit = None

\* Memory disappears from the DMA bus while the device is owned only when the
\* owner itself unmaps it: the teardown of a departing VMM does not take away
\* what the owner counts on (dma_unmap's ownership guard).
TeardownIsOwners ==
    [][\A r \in Region :
         bus[r] # None /\ bus'[r] = None /\ owner # NoOwner => r \notin mapped'[owner]]_vars

\* Readiness is declared for one candidacy: a registration that starts a new
\* one (a different connection, or the same after its window elapsed) is not
\* ready, whatever was declared before.
ReadinessIsEarned ==
    [][candidate' # None /\ candidate'.ready =>
         /\ candidate # None
         /\ candidate.id = candidate'.id
         /\ candidate.waited <= PreflightTimeout \/ candidate' = candidate]_vars

\* A candidate that receives the device from an owner has published all the
\* memory that owner had, also when the owner's bookkeeping is being removed in
\* the same step; only a commit in binding mode does without.
HandedOverMemoryIsCovered ==
    [][/\ owner # NoOwner
       /\ candidate # None /\ candidate' = None
       /\ owner' = candidate.id /\ owner' # owner /\ owner' # prev
       /\ ~Binding \/ conn'[owner] # conn[owner]
       => mapped[owner] \subseteq mapped'[owner']]_vars

\* Fail-closed binding mode: the candidate a controller decides about is a
\* destination that is still waiting for its reply, never one that was already
\* refused or is gone (the exception is a previous owner that got the device
\* back while it was waiting).
CandidateIsHeld ==
    BlockRegistration /\ RequireController /\ candidate # None =>
        conn[candidate.id] = "parked" \/ owner = candidate.id

\* The hand-over implements the abstract ownership machine.
Promise == INSTANCE DeviceOwnership WITH
    holder <- owner,
    fallback <- prev,
    generation <- epoch,
    signal <- IF line = None THEN None ELSE line.conn

ImplementsOwnership == Promise!ASpec

\* A destination whose registration reply is held is answered, whatever the
\* controller does: the loop in set_irqs has its own deadline.
HeldReplyIsSent == \A c \in Conn : conn[c] = "parked" ~> conn[c] = "serving"

\* A watch ends, so the control thread becomes free for the next command.
WatchEnds == ctl = "watching" ~> ctl = "idle"

-----------------------------------------------------------------------------
(* What the comments and the design document say and the code does not do. *)

\* disconnect: "An owner that disappears must not keep the device, because a
\* dead connection cannot service an interrupt."
OwnerIsConnected == owner # NoOwner => owner \in live

\* preflight_hard: the candidate "must have published at least the memory the
\* device was already DMAing into"; disconnect: the device "goes back" to a
\* previous owner.  The memory the new owner mapped is then reachable.
ReceiverMemoryIsOnBus ==
    [][owner # NoOwner /\ owner' \notin {owner, NoOwner}
       => \A r \in mapped'[owner'] : bus'[r] # None]_vars

=============================================================================
