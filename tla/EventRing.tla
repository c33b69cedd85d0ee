------------------------------ MODULE EventRing ------------------------------
(***************************************************************************)
(* The producer side of the xHCI event ring (event_ring.rs) and the guest  *)
(* memory it writes to.  The ring spans the segments of the Event Ring     *)
(* Segment Table; an address is a pair <<segment, index>>, so that adding  *)
(* TRB_SIZE is the next index of the same segment.                         *)
(***************************************************************************)
EXTENDS Integers, FiniteSets

CONSTANTS
    ERSTSZ,      \* number of segments
    SegSize      \* TRBs of each segment

Segment == 0 .. ERSTSZ - 1

ASSUME SegmentsAssumption ==
    /\ ERSTSZ \in Nat \ {0}
    /\ DOMAIN SegSize = Segment
    /\ \A s \in Segment : SegSize[s] \in Nat \ {0}

Slot    == UNION {{s} \X (0 .. SegSize[s] - 1) : s \in Segment}
Null    == <<>>                 \* address 0
SegBase(s) == <<s, 0>>
Plus1(p)   == <<p[1], p[2] + 1>>  \* p + TRB_SIZE

VARIABLES
    enqueue_pointer, trb_count, erst_count, cycle_state,  \* struct EventRing
    mem      \* guest memory of the ring: event number and cycle bit per slot

ringVars == <<enqueue_pointer, trb_count, erst_count, cycle_state>>

RingTypeOK ==
    /\ enqueue_pointer \in Slot \cup {Null}
    /\ trb_count \in Nat
    /\ erst_count \in Segment
    /\ cycle_state \in BOOLEAN
    /\ mem \in [Slot -> [event : Nat, cycle : BOOLEAN]]

RingInit ==
    /\ enqueue_pointer = Null
    /\ trb_count = 0
    /\ erst_count = 0
    /\ cycle_state = FALSE

\* EventRing::reset
RingReset ==
    /\ enqueue_pointer' = Null
    /\ trb_count' = 0
    /\ erst_count' = 0
    /\ cycle_state' = FALSE

\* EventRing::configure; the segment index is left as it is.
Configure ==
    /\ enqueue_pointer' = SegBase(0)
    /\ trb_count' = SegSize[0]
    /\ cycle_state' = TRUE
    /\ UNCHANGED erst_count

\* check_event_ring_full: would the next enqueue pointer meet ERDP?
IsFull(erdp) ==
    erdp = IF trb_count = 1
           THEN SegBase((erst_count + 1) % ERSTSZ)
           ELSE Plus1(enqueue_pointer)

\* Mutant: the producer cycle state flips at every segment.
AdvanceSegment_FlipsAlways ==
    /\ erst_count' = (erst_count + 1) % ERSTSZ
    /\ cycle_state' = ~cycle_state
    /\ enqueue_pointer' = SegBase(erst_count')
    /\ trb_count' = SegSize[erst_count']

\* advance_segment_or_wrap: the cycle state flips on the wrap to segment 0.
AdvanceSegment ==
    /\ erst_count' = IF erst_count + 1 = ERSTSZ THEN 0 ELSE erst_count + 1
    /\ cycle_state' = IF erst_count + 1 = ERSTSZ THEN ~cycle_state ELSE cycle_state
    /\ enqueue_pointer' = SegBase(erst_count')
    /\ trb_count' = SegSize[erst_count']

\* Mutant: the segment is left one TRB too late.
Enqueue_LateAdvance(e) ==
    /\ mem' = [mem EXCEPT ![enqueue_pointer] = [event |-> e, cycle |-> cycle_state]]
    /\ IF trb_count = 0
       THEN AdvanceSegment
       ELSE /\ enqueue_pointer' = Plus1(enqueue_pointer)
            /\ trb_count' = trb_count - 1
            /\ UNCHANGED <<erst_count, cycle_state>>

\* EventRing::enqueue of event number e into a ring that is not full.
Enqueue(e) ==
    /\ mem' = [mem EXCEPT ![enqueue_pointer] = [event |-> e, cycle |-> cycle_state]]
    /\ IF trb_count = 1
       THEN AdvanceSegment
       ELSE /\ enqueue_pointer' = Plus1(enqueue_pointer)
            /\ trb_count' = trb_count - 1
            /\ UNCHANGED <<erst_count, cycle_state>>

=============================================================================
