-------------------------- MODULE InterrupterProofs --------------------------
(***************************************************************************)
(* Proofs about Interrupter for every segment table, every set of          *)
(* interrupt lines and any number of events, line changes and resets: to a *)
(* driver that writes ERDP without Event Handler Busy the event ring is a  *)
(* first-in first-out queue, and no event is left without a signal.        *)
(***************************************************************************)
EXTENDS Interrupter, FiniteSetTheorems, SequenceTheorems, TLAPS

Lines == Line \cup {NoLine}
Resetting == \E i \in 1 .. Len(queue) : queue[i] = "reset"

\* The number of slots from p up to q.
Ahead(p, q) == IF Index(q) >= Index(p) THEN Index(q) - Index(p) ELSE Index(q) - Index(p) + Total

\* The segment index and the count of TRBs belong to the enqueue pointer.
ProducerIsPlaced ==
    /\ worker = "waiting" => erst_count = 0
    /\ worker # "waiting" =>
          /\ enqueue_pointer \in Slot
          /\ erst_count = enqueue_pointer[1]
          /\ trb_count = SegSize[erst_count] - enqueue_pointer[2]

\* The ring is started only for a driver that has set it up, and a reset stops it.
StartsInOrder ==
    /\ handling => driver = "running"
    /\ driver # "resetting" => ~Resetting
    /\ driver \in {"down", "setup"} \/ (driver = "resetting" /\ ~Resetting) =>
          worker = "waiting" /\ listening # "notified"
    /\ worker # "waiting" => listening = "no"
    /\ driver \in {"setup", "running"} /\ worker = "waiting" =>
          /\ enq = 0 /\ got = 0 /\ deq = SegBase(0) /\ ccs
          /\ erdp = [ptr |-> SegBase(0), ehb |-> FALSE]

\* A slot has the cycle bit the driver expects exactly when it holds an unread event.
SlotsAreTrue ==
    driver \in {"setup", "running"} =>
        /\ enq - got \in 0 .. Total - 1
        /\ \A q \in Slot :
              /\ Ahead(deq, q) < enq - got <=> (mem[q].cycle <=> (ccs <=> Index(q) >= Index(deq)))
              /\ Ahead(deq, q) < enq - got => mem[q].event = got + Ahead(deq, q) + 1

\* The enqueue pointer is as far ahead of the driver as there are unread events, and
\* the register ERDP is at most further behind.
PointersAgree ==
    driver = "running" /\ worker # "waiting" =>
        /\ Ahead(deq, enqueue_pointer) = enq - got
        /\ cycle_state <=> (ccs <=> Index(enqueue_pointer) >= Index(deq))
        /\ erdp.ptr \in Slot /\ ~erdp.ehb
        /\ enq - got <= Ahead(erdp.ptr, enqueue_pointer)

\* The line installed, or else the last one on its way, is the one given last.
LastLineIsGiven ==
    \/ line = given /\ \A i \in 1 .. Len(queue) : queue[i] \notin Lines
    \/ \E i \in 1 .. Len(queue) :
          /\ queue[i] = given
          /\ \A j \in i + 1 .. Len(queue) : queue[j] \notin Lines

\* What holds of any driver, and what holds of one that leaves Event Handler Busy clear.
TypeInv == TypeOK /\ ProducerIsPlaced

RingInv ==
    /\ TypeInv
    /\ StartsInOrder
    /\ SlotsAreTrue
    /\ PointersAgree
    /\ LastLineIsGiven
    /\ NoLostSignal

-----------------------------------------------------------------------------
(* The geometry of the ring *)

Below(p) == {q \in Slot : q[1] < p[1] \/ (q[1] = p[1] /\ q[2] < p[2])}

LEMMA SegmentSizes ==
    /\ ERSTSZ \in Nat /\ ERSTSZ >= 1
    /\ \A s \in Segment : SegSize[s] \in Nat /\ SegSize[s] >= 1
BY SegmentsAssumption

LEMMA SlotMember ==
    /\ \A p \in Slot : /\ p = <<p[1], p[2]>> /\ p[1] \in Segment /\ p[2] \in Nat
                       /\ p[2] < SegSize[p[1]]
    /\ \A s \in Segment, i \in Nat : i < SegSize[s] => <<s, i>> \in Slot
<1>1. ASSUME NEW p \in Slot
      PROVE  p = <<p[1], p[2]>> /\ p[1] \in Segment /\ p[2] \in Nat /\ p[2] < SegSize[p[1]]
  <2>1. PICK s \in Segment : p \in {s} \X (0 .. SegSize[s] - 1)
    BY DEF Slot
  <2> QED
    BY <2>1, SegmentSizes
<1>2. ASSUME NEW s \in Segment, NEW i \in Nat, i < SegSize[s]
      PROVE  <<s, i>> \in Slot
  <2>1. <<s, i>> \in {s} \X (0 .. SegSize[s] - 1)
    BY <1>2, SegmentSizes
  <2> QED
    BY <2>1 DEF Slot
<1> QED
  BY <1>1, <1>2

LEMMA SlotsAreFinite == IsFiniteSet(Slot) /\ Total \in Nat
<1> DEFINE f == [s \in Segment |-> {s} \X (0 .. SegSize[s] - 1)]
           S == {{s} \X (0 .. SegSize[s] - 1) : s \in Segment}
<1>1. IsFiniteSet(Segment)
  BY FS_Interval, SegmentSizes DEF Segment
<1>2. f \in Surjection(Segment, S)
  BY DEF Surjection
<1>3. IsFiniteSet(S)
  BY <1>1, <1>2, FS_Surjection
<1>4. ASSUME NEW s \in Segment
      PROVE  IsFiniteSet({s} \X (0 .. SegSize[s] - 1))
  <2>1. SegSize[s] - 1 \in Int
    BY SegmentSizes
  <2>2. IsFiniteSet({s})
    BY FS_Singleton
  <2>3. IsFiniteSet(0 .. SegSize[s] - 1)
    BY <2>1, FS_Interval
  <2> QED
    BY <2>2, <2>3, FS_Product
<1>5. \A U \in S : IsFiniteSet(U)
  BY <1>4
<1>6. IsFiniteSet(UNION S)
  BY <1>3, <1>5, FS_UNION
<1>7. IsFiniteSet(Slot)
  BY <1>6 DEF Slot
<1> QED
  BY <1>7, FS_CardinalityType DEF Total

LEMMA IndexRange ==
    ASSUME NEW p \in Slot
    PROVE  /\ IsFiniteSet(Below(p)) /\ Index(p) = Cardinality(Below(p))
           /\ Index(p) \in Nat /\ Index(p) < Total
<1>1. Below(p) \in SUBSET Slot /\ p \notin Below(p)
  BY SlotMember DEF Below, Segment
<1>2. /\ IsFiniteSet(Below(p)) /\ Cardinality(Below(p)) <= Total
      /\ Total = Cardinality(Below(p)) => Slot = Below(p)
  BY <1>1, SlotsAreFinite, FS_Subset DEF Total
<1>3. Cardinality(Below(p)) \in Nat
  BY <1>2, FS_CardinalityType
<1>4. Index(p) = Cardinality(Below(p))
  BY DEF Index, Below
<1> QED
  BY <1>1, <1>2, <1>3, <1>4, SlotsAreFinite

LEMMA IndexOrder ==
    ASSUME NEW p \in Slot, NEW q \in Slot, Index(p) = Index(q)
    PROVE  p = q
<1>1. ASSUME NEW a \in Slot, NEW b \in Slot, a \in Below(b)
      PROVE  Index(a) # Index(b)
  <2>1. /\ a[1] \in Segment /\ a[2] \in Nat /\ b[1] \in Segment /\ b[2] \in Nat
        /\ a[1] < b[1] \/ (a[1] = b[1] /\ a[2] < b[2])
    BY <1>1, SlotMember DEF Below
  <2>2. Below(a) \in SUBSET Below(b)
    <3> SUFFICES ASSUME NEW c \in Below(a) PROVE c \in Below(b)
      OBVIOUS
    <3>1. c \in Slot /\ c[1] \in Segment /\ c[2] \in Nat /\ (c[1] < a[1] \/ (c[1] = a[1] /\ c[2] < a[2]))
      BY SlotMember DEF Below
    <3>2. c[1] < b[1] \/ (c[1] = b[1] /\ c[2] < b[2])
      BY <2>1, <3>1 DEF Segment
    <3> QED
      BY <3>1, <3>2 DEF Below
  <2>3. a \notin Below(a)
    BY <2>1 DEF Below, Segment
  <2>4. Cardinality(Below(b)) = Cardinality(Below(a)) => Below(b) = Below(a)
    BY <2>2, IndexRange, FS_Subset
  <2> QED
    BY <1>1, <2>3, <2>4, IndexRange
<1>2. p = q \/ p \in Below(q) \/ q \in Below(p)
  <2>1. /\ p = <<p[1], p[2]>> /\ p[1] \in Segment /\ p[2] \in Nat
        /\ q = <<q[1], q[2]>> /\ q[1] \in Segment /\ q[2] \in Nat
    BY SlotMember
  <2>2. \/ p[1] < q[1] \/ (p[1] = q[1] /\ p[2] < q[2])
        \/ q[1] < p[1] \/ (q[1] = p[1] /\ q[2] < p[2])
        \/ p[1] = q[1] /\ p[2] = q[2]
    BY <2>1 DEF Segment
  <2> QED
    BY <2>1, <2>2 DEF Below
<1> QED
  BY <1>1, <1>2

\* Every index is taken.
LEMMA IndexOnto ==
    ASSUME NEW i \in Nat, i < Total
    PROVE  \E p \in Slot : Index(p) = i
<1> DEFINE f == [p \in Slot |-> Index(p)]
<1>1. f \in Injection(Slot, 0 .. Total - 1)
  <2>1. f \in [Slot -> 0 .. Total - 1]
    BY IndexRange, SlotsAreFinite
  <2> QED
    BY <2>1, IndexOrder DEF Injection, IsInjective
<1>2. IsFiniteSet(0 .. Total - 1) /\ Cardinality(0 .. Total - 1) = Total
  BY SlotsAreFinite, FS_Interval
<1>3. f \in Surjection(Slot, 0 .. Total - 1)
  BY <1>1, <1>2, FS_Injection DEF Total
<1>4. i \in 0 .. Total - 1
  BY SlotsAreFinite
<1> QED
  BY <1>3, <1>4 DEF Surjection

LEMMA FirstSlot == SegBase(0) \in Slot /\ Index(SegBase(0)) = 0 /\ Total >= 1
<1>1. 0 \in Segment /\ SegSize[0] >= 1
  BY SegmentSizes DEF Segment
<1>2. <<0, 0>> \in Slot
  BY <1>1, SlotMember, SegmentSizes
<1>3. Below(<<0, 0>>) = {}
  BY SlotMember DEF Below, Segment
<1>4. Index(<<0, 0>>) = 0
  BY <1>2, <1>3, IndexRange, FS_EmptySet
<1> QED
  BY <1>2, <1>4, IndexRange, SlotsAreFinite DEF SegBase

\* NextSlot goes from index to index, and from the last slot to the first.
LEMMA NextSlotIndex ==
    ASSUME NEW p \in Slot
    PROVE  /\ NextSlot(p) \in Slot
           /\ LastSlot(p) <=> Index(p) = Total - 1
           /\ Index(NextSlot(p)) = IF Index(p) = Total - 1 THEN 0 ELSE Index(p) + 1
           /\ NextSlot(p) = IF p[2] = SegSize[p[1]] - 1
                            THEN SegBase(IF p[1] + 1 = ERSTSZ THEN 0 ELSE p[1] + 1) ELSE Plus1(p)
<1>1. /\ p = <<p[1], p[2]>> /\ p[1] \in Nat /\ p[1] < ERSTSZ /\ p[2] \in Nat
      /\ p[1] \in Segment /\ SegSize[p[1]] \in Nat /\ p[2] < SegSize[p[1]]
      /\ ERSTSZ \in Nat
  BY SlotMember, SegmentSizes DEF Segment
<1>2. (p[1] + 1) % ERSTSZ = IF p[1] + 1 = ERSTSZ THEN 0 ELSE p[1] + 1
  BY <1>1
<1>3. NextSlot(p) = IF p[2] = SegSize[p[1]] - 1
                    THEN SegBase(IF p[1] + 1 = ERSTSZ THEN 0 ELSE p[1] + 1) ELSE Plus1(p)
  <2>1. p[2] < SegSize[p[1]] - 1 <=> p[2] # SegSize[p[1]] - 1
    BY <1>1
  <2>2. CASE p[2] = SegSize[p[1]] - 1
    BY <1>2, <2>1, <2>2 DEF NextSlot
  <2>3. CASE p[2] # SegSize[p[1]] - 1
    BY <2>1, <2>3 DEF NextSlot
  <2> QED
    BY <2>2, <2>3
<1>4. CASE LastSlot(p)
  <2>1. NextSlot(p) = SegBase(0)
    BY <1>1, <1>3, <1>4 DEF LastSlot
  <2>2. Below(p) = Slot \ {p}
    <3>1. \A q \in Slot : q # p => q \in Below(p)
      <4> SUFFICES ASSUME NEW q \in Slot, q # p PROVE q \in Below(p)
        OBVIOUS
      <4>1. q = <<q[1], q[2]>> /\ q[1] \in Nat /\ q[1] < ERSTSZ /\ q[2] \in Nat /\ q[2] < SegSize[q[1]]
        BY SlotMember, SegmentSizes DEF Segment
      <4>2. p[1] = ERSTSZ - 1 /\ p[2] = SegSize[p[1]] - 1
        BY <1>4 DEF LastSlot
      <4>3. q[1] < p[1] \/ (q[1] = p[1] /\ q[2] < p[2])
        BY <1>1, <4>1, <4>2
      <4> QED
        BY <4>3 DEF Below
    <3>2. p \notin Below(p)
      BY <1>1 DEF Below
    <3> QED
      BY <3>1, <3>2 DEF Below
  <2>3. Index(p) = Total - 1
    BY <2>2, IndexRange, SlotsAreFinite, FS_RemoveElement DEF Total
  <2> QED
    BY <1>3, <1>4, <2>1, <2>3, FirstSlot
<1>5. CASE ~LastSlot(p)
  <2>1. NextSlot(p) \in Slot
    <3>1. CASE p[2] = SegSize[p[1]] - 1
      <4>1. NextSlot(p) = <<p[1] + 1, 0>> /\ p[1] + 1 \in Segment
        BY <1>1, <1>3, <1>5, <3>1 DEF LastSlot, SegBase, Segment
      <4> QED
        BY <4>1, SlotMember, SegmentSizes
    <3>2. CASE p[2] # SegSize[p[1]] - 1
      <4>1. NextSlot(p) = <<p[1], p[2] + 1>> /\ p[2] + 1 < SegSize[p[1]]
        BY <1>1, <1>3, <3>2 DEF Plus1
      <4> QED
        BY <1>1, <4>1, SlotMember
    <3> QED
      BY <3>1, <3>2
  <2>2. Below(NextSlot(p)) = Below(p) \cup {p}
    <3>1. CASE p[2] = SegSize[p[1]] - 1
      <4>1. NextSlot(p) = <<p[1] + 1, 0>>
        BY <1>1, <1>3, <1>5, <3>1 DEF LastSlot, SegBase
      <4>2. ASSUME NEW q \in Slot
            PROVE  q \in Below(NextSlot(p)) <=> q \in Below(p) \/ q = p
        <5>1. q = <<q[1], q[2]>> /\ q[1] \in Nat /\ q[2] \in Nat /\ q[2] < SegSize[q[1]]
          BY SlotMember DEF Segment
        <5>2. q \in Below(NextSlot(p)) <=> q[1] < p[1] + 1
          BY <1>1, <4>1, <5>1 DEF Below
        <5>3. q \in Below(p) \/ q = p <=> q[1] < p[1] \/ q[1] = p[1]
          BY <1>1, <3>1, <5>1 DEF Below
        <5> QED
          BY <1>1, <5>1, <5>2, <5>3
      <4> QED
        BY <4>2 DEF Below
    <3>2. CASE p[2] # SegSize[p[1]] - 1
      <4>1. NextSlot(p) = <<p[1], p[2] + 1>>
        BY <1>1, <1>3, <3>2 DEF Plus1
      <4>2. ASSUME NEW q \in Slot
            PROVE  q \in Below(NextSlot(p)) <=> q \in Below(p) \/ q = p
        <5>1. q = <<q[1], q[2]>> /\ q[1] \in Nat /\ q[2] \in Nat
          BY SlotMember DEF Segment
        <5>2. q \in Below(NextSlot(p)) <=> q[1] < p[1] \/ (q[1] = p[1] /\ q[2] < p[2] + 1)
          BY <1>1, <4>1, <5>1 DEF Below
        <5> QED
          BY <1>1, <5>1, <5>2 DEF Below
      <4> QED
        BY <4>2 DEF Below
    <3> QED
      BY <3>1, <3>2
  <2>3. p \notin Below(p)
    BY <1>1 DEF Below
  <2>4. Index(NextSlot(p)) = Index(p) + 1
    BY <2>1, <2>2, <2>3, IndexRange, FS_AddElement
  <2> QED
    BY <1>3, <1>5, <2>1, <2>4, IndexRange, SlotsAreFinite
<1> QED
  BY <1>4, <1>5

-----------------------------------------------------------------------------
(* The producer *)

\* The enqueue pointer moves to the next slot, and the check for a full ring looks at it.
LEMMA Producing ==
    ASSUME TypeInv, worker # "waiting"
    PROVE  /\ enqueue_pointer \in Slot
           /\ \A x : IsFull(x) <=> x = NextSlot(enqueue_pointer)
           /\ \A e \in Nat : Enqueue(e) =>
                 /\ mem' = [mem EXCEPT ![enqueue_pointer] = [event |-> e, cycle |-> cycle_state]]
                 /\ enqueue_pointer' = NextSlot(enqueue_pointer)
                 /\ erst_count' = enqueue_pointer'[1] /\ erst_count' \in Segment
                 /\ trb_count' = SegSize[erst_count'] - enqueue_pointer'[2] /\ trb_count' \in Nat
                 /\ cycle_state' = IF LastSlot(enqueue_pointer) THEN ~cycle_state ELSE cycle_state
                 /\ cycle_state' \in BOOLEAN
<1> DEFINE p == enqueue_pointer
<1>1. /\ p \in Slot /\ erst_count = p[1] /\ trb_count = SegSize[p[1]] - p[2] /\ cycle_state \in BOOLEAN
  BY DEF TypeInv, ProducerIsPlaced, TypeOK, RingTypeOK
<1>2. /\ p[1] \in Nat /\ p[1] < ERSTSZ /\ p[2] \in Nat /\ p[1] \in Segment
      /\ SegSize[p[1]] \in Nat /\ p[2] < SegSize[p[1]] /\ ERSTSZ \in Nat
  BY <1>1, SlotMember, SegmentSizes DEF Segment
<1>3. trb_count = 1 <=> p[2] = SegSize[p[1]] - 1
  BY <1>1, <1>2
<1>4. (p[1] + 1) % ERSTSZ = IF p[1] + 1 = ERSTSZ THEN 0 ELSE p[1] + 1
  BY <1>2
<1>5. NextSlot(p) = IF trb_count = 1
                    THEN SegBase(IF p[1] + 1 = ERSTSZ THEN 0 ELSE p[1] + 1) ELSE Plus1(p)
  BY <1>1, <1>3, NextSlotIndex
<1>6. NextSlot(p) \in Slot
  BY <1>1, NextSlotIndex
<1>7. ASSUME NEW x
      PROVE  IsFull(x) <=> x = NextSlot(p)
  BY <1>1, <1>4, <1>5 DEF IsFull
<1>8. ASSUME NEW e \in Nat, Enqueue(e)
      PROVE  /\ mem' = [mem EXCEPT ![p] = [event |-> e, cycle |-> cycle_state]]
             /\ p' = NextSlot(p)
             /\ erst_count' = p'[1] /\ erst_count' \in Segment
             /\ trb_count' = SegSize[erst_count'] - p'[2] /\ trb_count' \in Nat
             /\ cycle_state' = IF LastSlot(p) THEN ~cycle_state ELSE cycle_state
             /\ cycle_state' \in BOOLEAN
  <2>1. mem' = [mem EXCEPT ![p] = [event |-> e, cycle |-> cycle_state]]
    BY <1>8 DEF Enqueue
  <2>2. CASE trb_count = 1
    <3> DEFINE s == IF p[1] + 1 = ERSTSZ THEN 0 ELSE p[1] + 1
    <3>1. s \in Segment /\ SegSize[s] \in Nat
      BY <1>2, SegmentSizes DEF Segment
    <3>2. /\ erst_count' = s /\ p' = SegBase(s) /\ trb_count' = SegSize[s]
          /\ cycle_state' = IF p[1] + 1 = ERSTSZ THEN ~cycle_state ELSE cycle_state
      BY <1>1, <1>8, <2>2 DEF Enqueue, AdvanceSegment
    <3>3. LastSlot(p) <=> p[1] + 1 = ERSTSZ
      BY <1>2, <1>3, <2>2 DEF LastSlot
    <3> HIDE DEF s
    <3>4. p'[1] = s /\ p'[2] = 0
      BY <3>2 DEF SegBase
    <3>5. p' = NextSlot(p)
      BY <1>5, <2>2, <3>2 DEF s
    <3>6. trb_count' = SegSize[erst_count'] - p'[2] /\ trb_count' \in Nat
      BY <3>1, <3>2, <3>4
    <3>7. erst_count' = p'[1] /\ erst_count' \in Segment
      BY <3>1, <3>2, <3>4
    <3>8. /\ cycle_state' = IF LastSlot(p) THEN ~cycle_state ELSE cycle_state
          /\ cycle_state' \in BOOLEAN
      BY <1>1, <3>2, <3>3
    <3> QED
      BY <2>1, <3>5, <3>6, <3>7, <3>8
  <2>3. CASE trb_count # 1
    <3>1. /\ p' = Plus1(p) /\ trb_count' = trb_count - 1 /\ erst_count' = erst_count
          /\ cycle_state' = cycle_state
      BY <1>8, <2>3 DEF Enqueue
    <3>2. ~LastSlot(p)
      BY <1>3, <2>3 DEF LastSlot
    <3>3. p'[1] = p[1] /\ p'[2] = p[2] + 1
      BY <3>1 DEF Plus1
    <3>4. SegSize[p[1]] - p[2] - 1 = SegSize[p[1]] - (p[2] + 1) /\ trb_count - 1 \in Nat
      BY <1>1, <1>2
    <3> QED
      BY <1>1, <1>2, <1>5, <2>1, <2>3, <3>1, <3>2, <3>3, <3>4
  <2> QED
    BY <2>2, <2>3
<1> QED
  BY <1>1, <1>7, <1>8

LEMMA MessageTaken ==
    ASSUME queue \in Seq(Message), queue # <<>>
    PROVE  /\ Head(queue) = queue[1] /\ Head(queue) \in Message /\ 1 \in 1 .. Len(queue)
           /\ Tail(queue) \in Seq(Message) /\ Len(Tail(queue)) = Len(queue) - 1
           /\ \A i \in 1 .. Len(Tail(queue)) :
                 i + 1 \in 1 .. Len(queue) /\ Tail(queue)[i] = queue[i + 1]
BY HeadTailProperties, EmptySeq

LEMMA MessageSent ==
    ASSUME queue \in Seq(Message), NEW m \in Message, queue' = Append(queue, m)
    PROVE  /\ queue' \in Seq(Message) /\ Len(queue') = Len(queue) + 1
           /\ queue'[Len(queue) + 1] = m
           /\ \A i \in 1 .. Len(queue) : queue'[i] = queue[i]
BY AppendProperties

LEMMA InitTypes == Init => TypeInv
<1> SUFFICES ASSUME Init PROVE TypeInv
  OBVIOUS
<1>1. /\ queue \in Seq(Message) /\ 0 \in Segment /\ SegBase(0) \in Slot
  BY FirstSlot, SegmentSizes DEF Init, Segment
<1>2. RingTypeOK
  BY <1>1 DEF Init, RingInit, RingTypeOK
<1>3. TypeOK
  BY <1>1, <1>2 DEF Init, TypeOK
<1> QED
  BY <1>3 DEF Init, RingInit, TypeInv, ProducerIsPlaced

LEMMA RingKept ==
    ASSUME TypeInv, UNCHANGED <<ringVars, mem, worker>>
    PROVE  RingTypeOK' /\ ProducerIsPlaced'
BY DEF TypeInv, TypeOK, RingTypeOK, ProducerIsPlaced, ringVars

LEMMA NextTypes == ASSUME TypeInv, [Next]_vars PROVE TypeInv'
<1> USE DEF TypeInv
<1>1. TypeOK /\ RingTypeOK /\ ProducerIsPlaced
  BY DEF TypeOK
<1>2. CASE SendEvent
  <2>1. queue' \in Seq(Message)
    BY <1>1, <1>2, MessageSent DEF SendEvent, TypeOK, Message
  <2> QED
    BY <1>1, <1>2, <2>1
       DEF SendEvent, TypeOK, RingTypeOK, ProducerIsPlaced, ringVars, workerVars, driverVars
<1>3. ASSUME NEW l \in Lines, SetInterruptLine(l)
      PROVE  TypeInv'
  <2>1. queue' \in Seq(Message)
    BY <1>1, <1>3, MessageSent DEF SetInterruptLine, TypeOK, Message, Lines
  <2> QED
    BY <1>1, <1>3, <2>1
       DEF SetInterruptLine, TypeOK, RingTypeOK, ProducerIsPlaced, ringVars, workerVars, driverVars, Lines
<1>4. CASE Listen
  BY <1>1, <1>4 DEF Listen, TypeOK, RingTypeOK, ProducerIsPlaced, ringVars, driverVars, counters
<1>5. CASE StartRing
  <2>1. SegBase(0) \in Slot /\ SegBase(0)[1] = 0 /\ SegBase(0)[2] = 0 /\ SegSize[0] \in Nat
    BY FirstSlot, SegmentSizes DEF SegBase, Segment
  <2> QED
    BY <1>1, <1>5, <2>1
       DEF StartRing, Configure, TypeOK, RingTypeOK, ProducerIsPlaced, driverVars, counters
<1>6. CASE ReceiveWaiting
  <2>1. queue' \in Seq(Message) /\ Head(queue) \in Message
    BY <1>1, <1>6, MessageTaken DEF ReceiveWaiting, TypeOK
  <2>2. line' \in Lines
    BY <1>1, <1>6, <2>1 DEF ReceiveWaiting, TypeOK, Message, Lines
  <2>3. RingTypeOK' /\ ProducerIsPlaced' /\ erdp' \in [ptr : Slot \cup {Null}, ehb : BOOLEAN]
    <3>1. CASE Head(queue) = "reset"
      <4>1. 0 \in Segment
        BY SegmentSizes DEF Segment
      <4>2. /\ enqueue_pointer' = Null /\ trb_count' = 0 /\ erst_count' = 0 /\ cycle_state' = FALSE
            /\ mem' = mem /\ worker' = "waiting" /\ erdp' = [ptr |-> Null, ehb |-> FALSE]
        BY <1>6, <3>1 DEF ReceiveWaiting, RingReset
      <4>3. RingTypeOK'
        BY <1>1, <4>1, <4>2 DEF RingTypeOK
      <4> QED
        BY <4>2, <4>3 DEF ProducerIsPlaced
    <3>2. CASE Head(queue) # "reset"
      BY <1>1, <1>6, <3>2 DEF ReceiveWaiting, RingTypeOK, ProducerIsPlaced, ringVars, TypeOK
    <3> QED
      BY <3>1, <3>2
  <2> QED
    BY <1>1, <1>6, <2>1, <2>2, <2>3 DEF ReceiveWaiting, TypeOK, driverVars, counters, Lines
<1>7. CASE WorkerEvent
  <2>1. /\ queue' \in Seq(Message) /\ worker = "configured" /\ enq \in Nat
        /\ UNCHANGED <<listening, line, erdp, given, driver, handling, deq, ccs, got, sends, updates, resets>>
    BY <1>1, <1>7, MessageTaken DEF WorkerEvent, TypeOK, driverVars, counters
  <2>2. CASE IsFull(DequeuePointer)
    BY <1>1, <1>7, <2>1, <2>2 DEF WorkerEvent, TypeOK, RingTypeOK, ProducerIsPlaced, ringVars
  <2>3. CASE ~IsFull(DequeuePointer)
    <3>1. /\ Enqueue(enq + 1) /\ enq' = enq + 1 /\ Raise(line) /\ worker' = worker /\ enq + 1 \in Nat
      BY <1>7, <2>1, <2>3 DEF WorkerEvent
    <3>2. enqueue_pointer \in Slot /\ NextSlot(enqueue_pointer) \in Slot
      BY <2>1, Producing, NextSlotIndex
    <3>3. /\ mem' = [mem EXCEPT ![enqueue_pointer] = [event |-> enq + 1, cycle |-> cycle_state]]
          /\ enqueue_pointer' = NextSlot(enqueue_pointer)
          /\ erst_count' = enqueue_pointer'[1] /\ erst_count' \in Segment
          /\ trb_count' = SegSize[erst_count'] - enqueue_pointer'[2] /\ trb_count' \in Nat
          /\ cycle_state' \in BOOLEAN
      BY <2>1, <3>1, Producing
    <3>4. mem' \in [Slot -> [event : Nat, cycle : BOOLEAN]]
      BY <1>1, <3>1, <3>2, <3>3 DEF RingTypeOK
    <3>5. RingTypeOK' /\ ProducerIsPlaced'
      BY <2>1, <3>1, <3>2, <3>3, <3>4 DEF RingTypeOK, ProducerIsPlaced
    <3>6. pending' \in SUBSET Line
      BY <1>1, <3>1 DEF Raise, TypeOK
    <3> QED
      BY <1>1, <2>1, <3>1, <3>5, <3>6 DEF TypeOK
  <2> QED
    BY <2>2, <2>3
<1>8. CASE WorkerLine
  <2>1. queue' \in Seq(Message)
    BY <1>1, <1>8, MessageTaken DEF WorkerLine, TypeOK
  <2> QED
    BY <1>1, <1>8, <2>1
       DEF WorkerLine, Raise, TypeOK, RingTypeOK, ProducerIsPlaced, ringVars, driverVars, counters
<1>9. CASE WorkerReset
  <2>1. queue' \in Seq(Message) /\ 0 \in Segment
    BY <1>1, <1>9, MessageTaken, SegmentSizes DEF WorkerReset, TypeOK, Segment
  <2> QED
    BY <1>1, <1>9, <2>1
       DEF WorkerReset, RingReset, TypeOK, RingTypeOK, ProducerIsPlaced, driverVars, counters
<1>10. CASE DriverSetup
  BY <1>1, <1>10, FirstSlot
     DEF DriverSetup, TypeOK, RingTypeOK, ProducerIsPlaced, ringVars, workerVars, counters
<1>11. CASE DriverWritesErstba \/ DriverInterrupt \/ DriverDone \/ DriverResetDone
  <2>1. UNCHANGED <<ringVars, mem, queue, worker, line, given, deq, ccs, got, enq, sends, updates, resets>>
    BY <1>11 DEF DriverWritesErstba, DriverInterrupt, DriverDone, DriverResetDone, workerVars,
                 driverVars, counters
  <2>2. RingTypeOK' /\ ProducerIsPlaced'
    BY <2>1, RingKept
  <2>3. /\ listening' \in {"no", "armed", "notified"} /\ pending' \in SUBSET Line
        /\ driver' \in {"down", "setup", "running", "resetting"} /\ handling' \in BOOLEAN
    BY <1>1, <1>11
       DEF DriverWritesErstba, NotifyErstba, DriverInterrupt, DriverDone, DriverResetDone, workerVars,
           driverVars, TypeOK
  <2>4. erdp' \in [ptr : Slot \cup {Null}, ehb : BOOLEAN]
    BY <1>1, <1>11, EhbAssumption
       DEF DriverWritesErstba, DriverInterrupt, DriverDone, DriverResetDone, TypeOK
  <2> QED
    BY <1>1, <2>1, <2>2, <2>3, <2>4 DEF TypeOK
<1>12. CASE DriverReads
  <2>1. NextSlot(deq) \in Slot
    BY <1>1, NextSlotIndex DEF TypeOK
  <2>2. /\ UNCHANGED <<ringVars, mem, queue, worker, listening, line, erdp, pending, given, driver,
                       handling, enq, sends, updates, resets>>
        /\ got' = got + 1 /\ deq' = NextSlot(deq) /\ ccs' \in BOOLEAN
    BY <1>1, <1>12 DEF DriverReads, workerVars, counters, TypeOK
  <2>3. RingTypeOK' /\ ProducerIsPlaced'
    BY <2>2, RingKept
  <2> QED
    BY <1>1, <2>1, <2>2, <2>3 DEF TypeOK
<1>13. CASE DriverResets
  <2>1. queue' \in Seq(Message)
    BY <1>1, <1>13, MessageSent DEF DriverResets, TypeOK, Message
  <2>2. /\ UNCHANGED <<ringVars, mem, worker, listening, line, erdp, pending, given, deq, ccs, got,
                       enq, updates>>
        /\ driver' = "resetting"
    BY <1>13 DEF DriverResets, workerVars
  <2>3. RingTypeOK' /\ ProducerIsPlaced'
    BY <2>2, RingKept
  <2>4. handling' \in BOOLEAN
    BY <1>13 DEF DriverResets
  <2>5. resets' \in Nat /\ sends' \in Nat
    BY <1>1, <1>13 DEF DriverResets, TypeOK
  <2> QED
    BY <1>1, <2>1, <2>2, <2>3, <2>4, <2>5 DEF TypeOK
<1>14. CASE UNCHANGED vars
  BY <1>1, <1>14
     DEF vars, TypeOK, RingTypeOK, ProducerIsPlaced, ringVars, workerVars, driverVars, counters
<1> QED
  BY <1>2, <1>3, <1>4, <1>5, <1>6, <1>7, <1>8, <1>9, <1>10, <1>11, <1>12, <1>13, <1>14
     DEF Next, Worker, Driver, Lines

\* TypeOK: for every segment table, and whatever the driver writes to ERDP, the producer
\* stays in the ring.
THEOREM TypeCorrect == Spec => []TypeOK
<1>1. TypeInv => TypeOK
  BY DEF TypeInv
<1> QED
  BY <1>1, InitTypes, NextTypes, PTL DEF Spec

-----------------------------------------------------------------------------
(* Distances *)

LEMMA Distances ==
    ASSUME NEW p \in Slot, NEW q \in Slot
    PROVE  /\ Ahead(p, q) \in 0 .. Total - 1
           /\ Ahead(p, q) = 0 <=> p = q
           /\ \A r \in Slot : Ahead(p, q) = Ahead(p, r) => q = r
           /\ NextSlot(q) \in Slot
           /\ Ahead(p, NextSlot(q)) = IF Ahead(p, q) = Total - 1 THEN 0 ELSE Ahead(p, q) + 1
           /\ Ahead(NextSlot(p), q) = IF Ahead(p, q) = 0 THEN Total - 1 ELSE Ahead(p, q) - 1
<1>1. /\ Index(p) \in Nat /\ Index(p) < Total /\ Index(q) \in Nat /\ Index(q) < Total /\ Total \in Nat
      /\ Index(p) = Index(q) <=> p = q
  BY IndexRange, IndexOrder, SlotsAreFinite
<1>2. /\ NextSlot(q) \in Slot
      /\ Index(NextSlot(q)) = IF Index(q) = Total - 1 THEN 0 ELSE Index(q) + 1
      /\ Index(NextSlot(p)) = IF Index(p) = Total - 1 THEN 0 ELSE Index(p) + 1
  BY NextSlotIndex
<1>3. ASSUME NEW r \in Slot, Ahead(p, q) = Ahead(p, r)
      PROVE  q = r
  <2>1. Index(r) \in Nat /\ Index(r) < Total
    BY IndexRange
  <2>2. Index(q) = Index(r)
    BY <1>1, <1>3, <2>1 DEF Ahead
  <2> QED
    BY <2>2, IndexOrder
<1>4. /\ Ahead(p, q) \in 0 .. Total - 1
      /\ Ahead(p, q) = 0 <=> p = q
  BY <1>1 DEF Ahead
<1>5. Ahead(p, NextSlot(q)) = IF Ahead(p, q) = Total - 1 THEN 0 ELSE Ahead(p, q) + 1
  BY <1>1, <1>2 DEF Ahead
<1>6. Ahead(NextSlot(p), q) = IF Ahead(p, q) = 0 THEN Total - 1 ELSE Ahead(p, q) - 1
  BY <1>1, <1>2 DEF Ahead
<1> QED
  BY <1>2, <1>3, <1>4, <1>5, <1>6

\* Whether a slot is on the driver's lap, when the driver or the producer moves.
LEMMA Laps ==
    ASSUME NEW p \in Slot, NEW q \in Slot
    PROVE  /\ Ahead(p, q) # Total - 1 =>
                 ((Index(NextSlot(q)) >= Index(p)) <=> (~LastSlot(q) /\ Index(q) >= Index(p)))
           /\ ~LastSlot(p) => ((Index(q) >= Index(NextSlot(p))) <=> (Index(q) >= Index(p) /\ q # p))
           /\ LastSlot(p) => Index(q) >= Index(NextSlot(p)) /\ (Index(q) >= Index(p) <=> q = p)
           /\ LastSlot(q) => Index(q) >= Index(p)
<1>1. /\ Index(p) \in Nat /\ Index(p) < Total /\ Index(q) \in Nat /\ Index(q) < Total /\ Total \in Nat
      /\ Index(p) = Index(q) <=> p = q
  BY IndexRange, IndexOrder, SlotsAreFinite
<1>2. /\ Index(NextSlot(q)) = IF Index(q) = Total - 1 THEN 0 ELSE Index(q) + 1
      /\ Index(NextSlot(p)) = IF Index(p) = Total - 1 THEN 0 ELSE Index(p) + 1
      /\ LastSlot(p) <=> Index(p) = Total - 1
      /\ LastSlot(q) <=> Index(q) = Total - 1
  BY NextSlotIndex
<1>3. Ahead(p, q) # Total - 1 =>
                 ((Index(NextSlot(q)) >= Index(p)) <=> (~LastSlot(q) /\ Index(q) >= Index(p)))
  BY <1>1, <1>2 DEF Ahead
<1> QED
  BY <1>1, <1>2, <1>3

-----------------------------------------------------------------------------
(* Messages of the interrupter *)

HasLine == \E i \in 1 .. Len(queue) : queue[i] \in Lines

LEMMA Received ==
    ASSUME TypeOK, queue # <<>>, queue' = Tail(queue)
    PROVE  /\ Resetting <=> Head(queue) = "reset" \/ Resetting'
           /\ HasLine <=> Head(queue) \in Lines \/ HasLine'
           /\ LastLineIsGiven /\ given' = given
                 /\ (Head(queue) \notin Lines => line' = line)
                 /\ (Head(queue) \in Lines => line' = Head(queue))
                 => LastLineIsGiven'
<1>1. /\ Head(queue) = queue[1] /\ 1 \in 1 .. Len(queue) /\ Len(queue) \in Nat
      /\ Len(queue') = Len(queue) - 1
      /\ \A i \in 1 .. Len(queue') : i + 1 \in 1 .. Len(queue) /\ queue'[i] = queue[i + 1]
  BY MessageTaken DEF TypeOK
<1>2. \A i \in 1 .. Len(queue) : i = 1 \/ (i - 1 \in 1 .. Len(queue') /\ queue'[i - 1] = queue[i])
  <2> SUFFICES ASSUME NEW i \in 1 .. Len(queue), i # 1
               PROVE  i - 1 \in 1 .. Len(queue') /\ queue'[i - 1] = queue[i]
    OBVIOUS
  <2>1. i - 1 \in 1 .. Len(queue') /\ (i - 1) + 1 = i
    BY <1>1
  <2> QED
    BY <1>1, <2>1
<1>3. Resetting <=> Head(queue) = "reset" \/ Resetting'
  <2>1. Resetting => Head(queue) = "reset" \/ Resetting'
    BY <1>1, <1>2 DEF Resetting
  <2>2. Head(queue) = "reset" \/ Resetting' => Resetting
    BY <1>1 DEF Resetting
  <2> QED
    BY <2>1, <2>2
<1>4. HasLine <=> Head(queue) \in Lines \/ HasLine'
  BY <1>1, <1>2 DEF HasLine
<1>5. ASSUME LastLineIsGiven, given' = given,
             Head(queue) \notin Lines => line' = line,
             Head(queue) \in Lines => line' = Head(queue)
      PROVE  LastLineIsGiven'
  <2>1. CASE line = given /\ \A i \in 1 .. Len(queue) : queue[i] \notin Lines
    BY <1>1, <1>5, <2>1 DEF LastLineIsGiven
  <2>2. ASSUME NEW i \in 1 .. Len(queue), queue[i] = given,
               \A j \in i + 1 .. Len(queue) : queue[j] \notin Lines
        PROVE  LastLineIsGiven'
    <3>1. CASE i = 1
      <4>1. \A j \in 1 .. Len(queue') : queue'[j] \notin Lines
        <5> SUFFICES ASSUME NEW j \in 1 .. Len(queue') PROVE queue'[j] \notin Lines
          OBVIOUS
        <5>1. queue'[j] = queue[j + 1] /\ j + 1 \in 2 .. Len(queue)
          BY <1>1
        <5> QED
          BY <2>2, <3>1, <5>1
      <4>2. given \in Lines => line' = given'
        BY <1>1, <1>5, <2>2, <3>1
      <4>3. given \in Lines
        BY DEF TypeOK, Lines
      <4> QED
        BY <4>1, <4>2, <4>3 DEF LastLineIsGiven
    <3>2. CASE i # 1
      <4>1. i - 1 \in 1 .. Len(queue') /\ queue'[i - 1] = given'
        BY <1>2, <1>5, <2>2, <3>2
      <4>2. \A j \in (i - 1) + 1 .. Len(queue') : queue'[j] \notin Lines
        <5> SUFFICES ASSUME NEW j \in (i - 1) + 1 .. Len(queue') PROVE queue'[j] \notin Lines
          OBVIOUS
        <5>1. j \in 1 .. Len(queue') /\ j + 1 \in i + 1 .. Len(queue)
          BY <1>1, <4>1
        <5>2. queue'[j] = queue[j + 1]
          BY <1>1, <5>1
        <5> QED
          BY <2>2, <5>1, <5>2
      <4> QED
        BY <4>1, <4>2 DEF LastLineIsGiven
    <3> QED
      BY <3>1, <3>2
  <2> QED
    BY <1>5, <2>1, <2>2 DEF LastLineIsGiven
<1> QED
  BY <1>3, <1>4, <1>5

LEMMA Sent ==
    ASSUME TypeOK, NEW m \in Message, queue' = Append(queue, m)
    PROVE  /\ Resetting' <=> m = "reset" \/ Resetting
           /\ HasLine' <=> m \in Lines \/ HasLine
           /\ LastLineIsGiven /\ m \notin Lines /\ UNCHANGED <<line, given>> => LastLineIsGiven'
           /\ given' = m => LastLineIsGiven'
<1>1. /\ Len(queue') = Len(queue) + 1 /\ Len(queue) \in Nat /\ queue'[Len(queue) + 1] = m
      /\ \A i \in 1 .. Len(queue) : queue'[i] = queue[i]
  BY MessageSent DEF TypeOK
<1>2. \A i \in 1 .. Len(queue') : i \in 1 .. Len(queue) \/ (i = Len(queue) + 1 /\ queue'[i] = m)
  BY <1>1
<1>3. \A i \in 1 .. Len(queue) : i \in 1 .. Len(queue')
  BY <1>1
<1>4. Len(queue) + 1 \in 1 .. Len(queue')
  BY <1>1
<1>5. Resetting' <=> m = "reset" \/ Resetting
  BY <1>1, <1>2, <1>3, <1>4 DEF Resetting
<1>6. HasLine' <=> m \in Lines \/ HasLine
  BY <1>1, <1>2, <1>3, <1>4 DEF HasLine
<1>7. ASSUME LastLineIsGiven, m \notin Lines, UNCHANGED <<line, given>>
      PROVE  LastLineIsGiven'
  <2>1. CASE line = given /\ \A i \in 1 .. Len(queue) : queue[i] \notin Lines
    BY <1>1, <1>2, <1>7, <2>1 DEF LastLineIsGiven
  <2>2. ASSUME NEW i \in 1 .. Len(queue), queue[i] = given,
               \A j \in i + 1 .. Len(queue) : queue[j] \notin Lines
        PROVE  LastLineIsGiven'
    <3>1. i \in 1 .. Len(queue') /\ queue'[i] = given'
      BY <1>1, <1>3, <1>7, <2>2
    <3>2. \A j \in i + 1 .. Len(queue') : queue'[j] \notin Lines
      <4> SUFFICES ASSUME NEW j \in i + 1 .. Len(queue') PROVE queue'[j] \notin Lines
        OBVIOUS
      <4>1. j = Len(queue) + 1 \/ (j \in i + 1 .. Len(queue) /\ j \in 1 .. Len(queue))
        BY <1>1
      <4> QED
        BY <1>1, <1>7, <2>2, <4>1
    <3> QED
      BY <3>1, <3>2 DEF LastLineIsGiven
  <2> QED
    BY <1>7, <2>1, <2>2 DEF LastLineIsGiven
<1>8. ASSUME given' = m
      PROVE  LastLineIsGiven'
  <2>1. \A j \in (Len(queue) + 1) + 1 .. Len(queue') : queue'[j] \notin Lines
    BY <1>1
  <2> QED
    BY <1>1, <1>4, <1>8, <2>1 DEF LastLineIsGiven
<1> QED
  BY <1>5, <1>6, <1>7, <1>8

-----------------------------------------------------------------------------
(* The ring and its signal, for a driver that leaves Event Handler Busy clear *)

LEMMA InitRing == Init => RingInv
<1> SUFFICES ASSUME Init PROVE RingInv
  OBVIOUS
<1>1. TypeInv
  BY InitTypes
<1>2. Len(queue) = 0
  BY DEF Init
<1>3. StartsInOrder
  BY <1>2 DEF Init, StartsInOrder, Resetting
<1>4. SlotsAreTrue /\ PointersAgree /\ NoLostSignal
  BY DEF Init, SlotsAreTrue, PointersAgree, NoLostSignal
<1>5. LastLineIsGiven
  BY <1>2 DEF Init, LastLineIsGiven
<1> QED
  BY <1>1, <1>3, <1>4, <1>5 DEF RingInv

LEMMA SlotsSame ==
    ASSUME SlotsAreTrue, UNCHANGED <<mem, deq, ccs, got, enq>>,
           driver' \in {"setup", "running"} => driver \in {"setup", "running"}
    PROVE  SlotsAreTrue'
BY DEF SlotsAreTrue

LEMMA PointersSame ==
    ASSUME PointersAgree, UNCHANGED <<deq, ccs, got, enq, enqueue_pointer, cycle_state, erdp>>,
           driver' = "running" /\ worker' # "waiting" => driver = "running" /\ worker # "waiting"
    PROVE  PointersAgree'
BY DEF PointersAgree

LEMMA SignalSame ==
    ASSUME NoLostSignal, UNCHANGED <<enq, got, given>>, pending \subseteq pending',
           HasLine => HasLine', worker = "dead" => worker' = "dead",
           driver' = "running" /\ ~handling' => driver = "running" /\ ~handling
    PROVE  NoLostSignal'
BY DEF NoLostSignal, HasLine, Lines

LEMMA MessagesApart ==
    /\ "event" \notin Lines /\ "reset" \notin Lines
    /\ \A m \in Message : m \in Lines \/ m = "event" \/ m = "reset"
BY LineAssumption DEF Lines, Message

LEMMA SendEventRing == ASSUME RingInv, SendEvent PROVE RingInv'
<1>1. TypeInv'
  BY NextTypes DEF RingInv, Next
<1>2. /\ queue' = Append(queue, "event") /\ TypeOK /\ "event" \in Message
      /\ UNCHANGED <<enqueue_pointer, trb_count, erst_count, cycle_state, mem, worker, listening, line,
                     erdp, pending, given, driver, handling, deq, ccs, got, enq>>
  BY DEF SendEvent, ringVars, workerVars, driverVars, RingInv, TypeInv, Message
<1>3. /\ Resetting' <=> Resetting
      /\ HasLine' <=> HasLine
      /\ LastLineIsGiven'
  <2>1. "event" \notin Lines
    BY MessagesApart
  <2> QED
    BY <1>2, <2>1, Sent DEF RingInv
<1>4. StartsInOrder'
  BY <1>2, <1>3 DEF RingInv, StartsInOrder
<1>5. SlotsAreTrue' /\ PointersAgree'
  BY <1>2, SlotsSame, PointersSame DEF RingInv
<1>6. NoLostSignal'
  BY <1>2, <1>3, SignalSame DEF RingInv
<1> QED
  BY <1>1, <1>3, <1>4, <1>5, <1>6 DEF RingInv

LEMMA SetLineRing == ASSUME RingInv, NEW l \in Lines, SetInterruptLine(l) PROVE RingInv'
<1>1. TypeInv'
  BY NextTypes DEF RingInv, Next, Lines
<1>2. /\ queue' = Append(queue, l) /\ TypeOK /\ l \in Message /\ given' = l
      /\ UNCHANGED <<enqueue_pointer, trb_count, erst_count, cycle_state, mem, worker, listening, line,
                     erdp, pending, driver, handling, deq, ccs, got, enq>>
  BY DEF SetInterruptLine, ringVars, workerVars, driverVars, RingInv, TypeInv, Message, Lines
<1>3. /\ Resetting' <=> Resetting
      /\ HasLine' /\ LastLineIsGiven'
  <2>1. l # "reset"
    BY MessagesApart
  <2> QED
    BY <1>2, <2>1, Sent DEF RingInv
<1>4. StartsInOrder'
  BY <1>2, <1>3 DEF RingInv, StartsInOrder
<1>5. SlotsAreTrue' /\ PointersAgree'
  BY <1>2, SlotsSame, PointersSame DEF RingInv
<1>6. NoLostSignal'
  BY <1>3 DEF NoLostSignal, HasLine, Lines
<1> QED
  BY <1>1, <1>3, <1>4, <1>5, <1>6 DEF RingInv

LEMMA ListenRing == ASSUME RingInv, Listen PROVE RingInv'
<1>1. TypeInv'
  BY NextTypes DEF RingInv, Next, Worker
<1>2. /\ worker = "waiting" /\ listening' = "armed"
      /\ UNCHANGED <<enqueue_pointer, trb_count, erst_count, cycle_state, mem, queue, worker, line,
                     erdp, pending, given, driver, handling, deq, ccs, got, enq>>
  BY DEF Listen, ringVars, driverVars
<1>3. /\ Resetting' <=> Resetting
      /\ HasLine' <=> HasLine
      /\ LastLineIsGiven'
  BY <1>2 DEF Resetting, HasLine, LastLineIsGiven, RingInv
<1>4. StartsInOrder'
  BY <1>2, <1>3 DEF RingInv, StartsInOrder
<1>5. SlotsAreTrue' /\ PointersAgree'
  BY <1>2, SlotsSame, PointersSame DEF RingInv
<1>6. NoLostSignal'
  BY <1>2, <1>3, SignalSame DEF RingInv
<1> QED
  BY <1>1, <1>3, <1>4, <1>5, <1>6 DEF RingInv

\* The worker starts at the slot where the driver has begun to look.
LEMMA StartRingRing == ASSUME RingInv, StartRing PROVE RingInv'
<1>1. TypeInv'
  BY NextTypes DEF RingInv, Next, Worker
<1>2. /\ worker = "waiting" /\ listening = "notified" /\ worker' = "configured" /\ listening' = "no"
      /\ enqueue_pointer' = SegBase(0) /\ cycle_state' = TRUE
      /\ UNCHANGED <<mem, queue, line, erdp, pending, given, driver, handling, deq, ccs, got, enq>>
  BY DEF StartRing, Configure, driverVars
<1>3. /\ Resetting' <=> Resetting
      /\ HasLine' <=> HasLine
      /\ LastLineIsGiven'
  BY <1>2 DEF Resetting, HasLine, LastLineIsGiven, RingInv
<1>4. StartsInOrder'
  BY <1>2, <1>3 DEF RingInv, StartsInOrder
<1>5. SlotsAreTrue'
  BY <1>2, SlotsSame DEF RingInv
<1>6. PointersAgree'
  <2> SUFFICES ASSUME driver = "running" PROVE PointersAgree'
    BY <1>2 DEF PointersAgree
  <2>1. enq = 0 /\ got = 0 /\ deq = SegBase(0) /\ ccs = TRUE /\ erdp.ptr = SegBase(0) /\ erdp.ehb = FALSE
    BY <1>2 DEF RingInv, StartsInOrder, TypeInv, TypeOK
  <2>2. SegBase(0) \in Slot /\ Ahead(SegBase(0), SegBase(0)) = 0 /\ Index(SegBase(0)) = 0
    BY FirstSlot, Distances
  <2>3. Ahead(deq', enqueue_pointer') = enq' - got' /\ enq' - got' <= Ahead(erdp'.ptr, enqueue_pointer')
    BY <1>2, <2>1, <2>2
  <2>4. cycle_state' <=> (ccs' <=> Index(enqueue_pointer') >= Index(deq'))
    BY <1>2, <2>1, <2>2
  <2> QED
    BY <1>2, <2>1, <2>2, <2>3, <2>4 DEF PointersAgree
<1>7. NoLostSignal'
  BY <1>2, <1>3, SignalSame DEF RingInv
<1> QED
  BY <1>1, <1>3, <1>4, <1>5, <1>6, <1>7 DEF RingInv

LEMMA ReceiveWaitingRing == ASSUME RingInv, ReceiveWaiting PROVE RingInv'
<1>1. TypeInv'
  BY NextTypes DEF RingInv, Next, Worker
<1>2. /\ worker = "waiting" /\ queue # <<>> /\ queue' = Tail(queue) /\ listening' = "no" /\ TypeOK
      /\ line' = IF Head(queue) \in {"event", "reset"} THEN line ELSE Head(queue)
      /\ UNCHANGED <<mem, worker, pending, given, driver, handling, deq, ccs, got, enq>>
      /\ Head(queue) # "reset" => erdp' = erdp
  BY DEF ReceiveWaiting, driverVars, RingInv, TypeInv
<1>3. Head(queue) \in Message
  BY <1>2, MessageTaken DEF TypeOK
<1>4. (Head(queue) \notin Lines => line' = line) /\ (Head(queue) \in Lines => line' = Head(queue))
  BY <1>2, <1>3, MessagesApart
<1>5. /\ Resetting <=> Head(queue) = "reset" \/ Resetting'
      /\ LastLineIsGiven'
  BY <1>2, <1>4, Received DEF RingInv
<1>6. StartsInOrder'
  BY <1>2, <1>5 DEF RingInv, StartsInOrder
<1>7. SlotsAreTrue' /\ PointersAgree'
  BY <1>2, SlotsSame DEF RingInv, PointersAgree
<1>8. NoLostSignal'
  BY <1>2 DEF RingInv, NoLostSignal, StartsInOrder
<1> QED
  BY <1>1, <1>5, <1>6, <1>7, <1>8 DEF RingInv

LEMMA WorkerLineRing == ASSUME RingInv, WorkerLine PROVE RingInv'
<1>1. TypeInv'
  BY NextTypes DEF RingInv, Next, Worker
<1>2. /\ worker = "configured" /\ queue # <<>> /\ Head(queue) \in Lines /\ queue' = Tail(queue) /\ TypeOK
      /\ line' = Head(queue) /\ pending' = pending \cup ({Head(queue)} \cap Line)
      /\ UNCHANGED <<enqueue_pointer, trb_count, erst_count, cycle_state, mem, worker, listening,
                     erdp, given, driver, handling, deq, ccs, got, enq>>
  BY DEF WorkerLine, Raise, ringVars, driverVars, RingInv, TypeInv, Lines
<1>3. /\ Resetting <=> Resetting'
      /\ LastLineIsGiven'
  BY <1>2, Received, MessagesApart DEF RingInv
<1>4. StartsInOrder'
  BY <1>2, <1>3 DEF RingInv, StartsInOrder
<1>5. SlotsAreTrue' /\ PointersAgree'
  BY <1>2, SlotsSame, PointersSame DEF RingInv
<1>6. NoLostSignal'
  <2>1. line' = given' \/ \E i \in 1 .. Len(queue') : queue'[i] = given'
    BY <1>3 DEF LastLineIsGiven
  <2>2. given' \in Lines
    BY <1>1 DEF TypeInv, TypeOK, Lines
  <2> QED
    BY <1>2, <2>1, <2>2 DEF NoLostSignal, Lines
<1> QED
  BY <1>1, <1>3, <1>4, <1>5, <1>6 DEF RingInv

LEMMA WorkerResetRing == ASSUME RingInv, WorkerReset PROVE RingInv'
<1>1. TypeInv'
  BY NextTypes DEF RingInv, Next, Worker
<1>2. /\ worker = "configured" /\ queue # <<>> /\ Head(queue) = "reset" /\ queue' = Tail(queue) /\ TypeOK
      /\ worker' = "waiting"
      /\ UNCHANGED <<mem, listening, line, pending, given, driver, handling, deq, ccs, got, enq>>
  BY DEF WorkerReset, driverVars, RingInv, TypeInv
<1>3. Resetting /\ LastLineIsGiven'
  BY <1>2, Received, MessagesApart DEF RingInv
<1>4. driver = "resetting" /\ listening = "no"
  BY <1>2, <1>3 DEF RingInv, StartsInOrder
<1>5. StartsInOrder'
  BY <1>2, <1>4 DEF RingInv, StartsInOrder
<1>6. SlotsAreTrue' /\ PointersAgree' /\ NoLostSignal'
  BY <1>2, <1>4 DEF SlotsAreTrue, PointersAgree, NoLostSignal
<1> QED
  BY <1>1, <1>3, <1>5, <1>6 DEF RingInv

\* An event goes to the first slot after the unread ones, and the line is signalled.
LEMMA WorkerEventRing == ASSUME RingInv, WorkerEvent PROVE RingInv'
<1> DEFINE p == enqueue_pointer
<1>1. TypeInv' /\ TypeInv
  BY NextTypes DEF RingInv, Next, Worker
<1>2. /\ worker = "configured" /\ queue # <<>> /\ Head(queue) = "event" /\ queue' = Tail(queue) /\ TypeOK
      /\ UNCHANGED <<listening, line, erdp, given, driver, handling, deq, ccs, got>>
      /\ worker' = "configured" \/ worker' = "dead"
  BY DEF WorkerEvent, driverVars, RingInv, TypeInv
<1>3. /\ Resetting <=> Resetting'
      /\ HasLine <=> HasLine'
      /\ LastLineIsGiven'
  <2>1. "event" \notin Lines
    BY MessagesApart
  <2> QED
    BY <1>2, <2>1, Received DEF RingInv
<1>4. driver \in {"running", "resetting"}
  BY <1>2 DEF RingInv, StartsInOrder, TypeOK
<1>5. StartsInOrder'
  BY <1>2, <1>3 DEF RingInv, StartsInOrder
<1>6. CASE IsFull(DequeuePointer)
  <2>1. worker' = "dead" /\ UNCHANGED <<enqueue_pointer, cycle_state, mem, pending, enq>>
    BY <1>6 DEF WorkerEvent, ringVars
  <2>2. SlotsAreTrue' /\ PointersAgree'
    BY <1>2, <2>1, SlotsSame, PointersSame DEF RingInv
  <2>3. NoLostSignal'
    BY <2>1 DEF NoLostSignal
  <2> QED
    BY <1>1, <1>3, <1>5, <2>2, <2>3 DEF RingInv
<1>7. CASE ~IsFull(DequeuePointer)
  <2>1. /\ Enqueue(enq + 1) /\ enq' = enq + 1 /\ pending' = pending \cup ({line} \cap Line)
        /\ enq \in Nat /\ got \in Nat /\ enq + 1 \in Nat
    BY <1>2, <1>7 DEF WorkerEvent, Raise, TypeOK
  <2>2. /\ p \in Slot /\ DequeuePointer # NextSlot(p)
        /\ mem' = [mem EXCEPT ![p] = [event |-> enq + 1, cycle |-> cycle_state]]
        /\ p' = NextSlot(p)
        /\ cycle_state' = IF LastSlot(p) THEN ~cycle_state ELSE cycle_state
    BY <1>1, <1>2, <1>7, <2>1, Producing
  <2>3. NoLostSignal'
    <3>1. line' = given' \/ HasLine'
      <4>1. given' \in Lines
        BY <1>1 DEF TypeInv, TypeOK, Lines
      <4> QED
        BY <1>3, <4>1 DEF LastLineIsGiven, HasLine
    <3>2. given' # NoLine /\ line' = given' => given' \in pending'
      BY <1>2, <2>1 DEF TypeOK
    <3> QED
      BY <3>1, <3>2 DEF NoLostSignal, HasLine, Lines
  <2>4. CASE driver = "resetting"
    <3>1. SlotsAreTrue' /\ PointersAgree'
      BY <1>2, <2>4 DEF SlotsAreTrue, PointersAgree
    <3> QED
      BY <1>1, <1>3, <1>5, <2>3, <3>1 DEF RingInv
  <2>5. CASE driver = "running"
    <3>1. /\ Ahead(deq, p) = enq - got /\ enq - got <= Ahead(erdp.ptr, p)
          /\ cycle_state <=> (ccs <=> Index(p) >= Index(deq))
          /\ erdp.ptr \in Slot /\ ~erdp.ehb
          /\ deq \in Slot /\ Total \in Nat
      BY <1>2, <2>5, SlotsAreFinite DEF RingInv, PointersAgree, TypeOK
    <3>2. Ahead(erdp.ptr, p) # Total - 1
      <4>1. Ahead(erdp.ptr, NextSlot(p)) # 0
        BY <2>2, <3>1, Distances DEF DequeuePointer
      <4> QED
        BY <2>2, <3>1, <4>1, Distances
    <3>3. enq' - got' = enq - got + 1 /\ enq - got + 1 \in 0 .. Total - 1
          /\ Ahead(deq, p) # Total - 1
      <4>1. Ahead(erdp.ptr, p) \in 0 .. Total - 1 /\ Ahead(deq, p) \in 0 .. Total - 1
        BY <2>2, <3>1, Distances
      <4> QED
        BY <1>2, <2>1, <3>1, <3>2, <4>1
    <3>4. SlotsAreTrue'
      <4> SUFFICES ASSUME NEW q \in Slot
                   PROVE  /\ Ahead(deq, q) < enq' - got' <=>
                                (mem'[q].cycle <=> (ccs <=> Index(q) >= Index(deq)))
                          /\ Ahead(deq, q) < enq' - got' => mem'[q].event = got + Ahead(deq, q) + 1
        BY <1>2, <3>3 DEF SlotsAreTrue
      <4>1. CASE q = p
        <5>1. mem'[q].cycle = cycle_state /\ mem'[q].event = enq + 1
          BY <1>2, <2>2, <4>1 DEF TypeOK, RingTypeOK
        <5>2. Ahead(deq, q) < enq' - got' /\ enq + 1 = got + Ahead(deq, q) + 1
          BY <2>1, <3>1, <3>3, <4>1
        <5> QED
          BY <3>1, <4>1, <5>1, <5>2
      <4>2. CASE q # p
        <5>1. mem'[q] = mem[q]
          BY <1>2, <2>2, <4>2 DEF TypeOK, RingTypeOK
        <5>2. Ahead(deq, q) # Ahead(deq, p) /\ Ahead(deq, q) \in Int
          BY <2>2, <3>1, <4>2, Distances
        <5>3. Ahead(deq, q) < enq' - got' <=> Ahead(deq, q) < enq - got
          BY <2>1, <3>1, <3>3, <5>2
        <5> QED
          BY <2>5, <5>1, <5>3 DEF RingInv, SlotsAreTrue
      <4> QED
        BY <4>1, <4>2
    <3>5. PointersAgree'
      <4>1. Ahead(deq, NextSlot(p)) = enq' - got' /\ enq' - got' <= Ahead(erdp.ptr, NextSlot(p))
        <5>1. Ahead(erdp.ptr, p) \in Int
          BY <2>2, <3>1, Distances
        <5>2. /\ Ahead(deq, NextSlot(p)) = Ahead(deq, p) + 1
              /\ Ahead(erdp.ptr, NextSlot(p)) = Ahead(erdp.ptr, p) + 1
          BY <2>2, <3>1, <3>2, <3>3, Distances
        <5> QED
          BY <2>1, <3>1, <3>3, <5>1, <5>2
      <4>2. /\ Index(NextSlot(p)) >= Index(deq) <=> (~LastSlot(p) /\ Index(p) >= Index(deq))
            /\ LastSlot(p) => Index(p) >= Index(deq)
        BY <2>2, <3>1, <3>3, Laps
      <4>3. cycle_state' <=> (ccs <=> Index(NextSlot(p)) >= Index(deq))
        <5>1. cycle_state \in BOOLEAN /\ ccs \in BOOLEAN
          BY <1>2 DEF TypeOK, RingTypeOK
        <5>2. CASE LastSlot(p)
          <6>1. cycle_state' = ~cycle_state
            BY <2>2, <5>2
          <6> QED
            BY <3>1, <4>2, <5>1, <5>2, <6>1
        <5>3. CASE ~LastSlot(p)
          <6>1. cycle_state' = cycle_state
            BY <2>2, <5>3
          <6> QED
            BY <3>1, <4>2, <5>1, <5>3, <6>1
        <5> QED
          BY <5>2, <5>3
      <4> QED
        BY <1>2, <2>2, <3>1, <4>1, <4>3 DEF PointersAgree
    <3> QED
      BY <1>1, <1>3, <1>5, <2>3, <3>4, <3>5 DEF RingInv
  <2> QED
    BY <1>4, <2>4, <2>5
<1> QED
  BY <1>6, <1>7

\* A zeroed ring is empty to a driver that expects cycle bits that are set.
LEMMA DriverSetupRing == ASSUME RingInv, DriverSetup PROVE RingInv'
<1>1. TypeInv'
  BY NextTypes DEF RingInv, Next, Driver
<1>2. /\ driver = "down" /\ driver' = "setup" /\ deq' = SegBase(0) /\ ccs' = TRUE /\ enq' = 0 /\ got' = 0
      /\ mem' = [p \in Slot |-> [event |-> 0, cycle |-> FALSE]]
      /\ erdp' = [ptr |-> SegBase(0), ehb |-> FALSE]
      /\ UNCHANGED <<queue, worker, listening, line, pending, given, handling>>
  BY DEF DriverSetup, workerVars
<1>3. /\ Resetting' <=> Resetting
      /\ LastLineIsGiven'
  BY <1>2 DEF Resetting, LastLineIsGiven, RingInv
<1>4. StartsInOrder'
  BY <1>2, <1>3 DEF RingInv, StartsInOrder
<1>5. SlotsAreTrue'
  <2>1. enq' - got' = 0 /\ 0 \in 0 .. Total - 1
    BY <1>2, FirstSlot, SlotsAreFinite
  <2>2. ASSUME NEW q \in Slot
        PROVE  /\ ~(Ahead(deq', q) < 0) /\ mem'[q].cycle = FALSE /\ ccs'
               /\ Index(q) >= Index(deq')
    <3>1. Ahead(deq', q) \in Nat /\ Index(q) \in Nat /\ Index(deq') = 0
      BY <1>2, FirstSlot, Distances, IndexRange
    <3> QED
      BY <1>2, <3>1
  <2> QED
    BY <2>1, <2>2 DEF SlotsAreTrue
<1>6. PointersAgree' /\ NoLostSignal'
  BY <1>2 DEF PointersAgree, NoLostSignal
<1> QED
  BY <1>1, <1>3, <1>4, <1>5, <1>6 DEF RingInv

LEMMA DriverWritesErstbaRing == ASSUME RingInv, DriverWritesErstba PROVE RingInv'
<1>1. TypeInv'
  BY NextTypes DEF RingInv, Next, Driver
<1>2. /\ driver = "setup" /\ driver' = "running" /\ worker = "waiting"
      /\ UNCHANGED <<mem, queue, worker, line, erdp, pending, given, handling, deq, ccs, got, enq>>
  BY DEF DriverWritesErstba, RingInv, StartsInOrder
<1>3. /\ Resetting' <=> Resetting
      /\ LastLineIsGiven'
  BY <1>2 DEF Resetting, LastLineIsGiven, RingInv
<1>4. StartsInOrder'
  BY <1>2, <1>3 DEF RingInv, StartsInOrder
<1>5. SlotsAreTrue' /\ PointersAgree'
  BY <1>2, SlotsSame DEF RingInv, PointersAgree
<1>6. NoLostSignal'
  BY <1>2 DEF RingInv, StartsInOrder, NoLostSignal
<1> QED
  BY <1>1, <1>3, <1>4, <1>5, <1>6 DEF RingInv

LEMMA DriverInterruptRing == ASSUME RingInv, DriverInterrupt PROVE RingInv'
<1>1. TypeInv'
  BY NextTypes DEF RingInv, Next, Driver
<1>2. /\ driver = "running" /\ handling' = TRUE
      /\ UNCHANGED <<enqueue_pointer, cycle_state, mem, queue, worker, listening, line, erdp, given,
                     driver, deq, ccs, got, enq>>
  BY DEF DriverInterrupt, ringVars, workerVars
<1>3. /\ Resetting' <=> Resetting
      /\ LastLineIsGiven'
  BY <1>2 DEF Resetting, LastLineIsGiven, RingInv
<1>4. StartsInOrder'
  BY <1>2, <1>3 DEF RingInv, StartsInOrder
<1>5. SlotsAreTrue' /\ PointersAgree'
  BY <1>2, SlotsSame, PointersSame DEF RingInv
<1>6. NoLostSignal'
  BY <1>2 DEF NoLostSignal
<1> QED
  BY <1>1, <1>3, <1>4, <1>5, <1>6 DEF RingInv

\* The cycle bit at the dequeue pointer tells the driver whether there is an event.
LEMMA SeesEvent ==
    ASSUME RingInv, driver = "running"
    PROVE  /\ mem[deq].cycle = ccs <=> enq - got > 0
           /\ enq \in Nat /\ got \in Nat /\ deq \in Slot /\ ccs \in BOOLEAN
           /\ enq - got \in 0 .. Total - 1
           /\ mem[deq].event = got + 1 \/ enq = got
<1>1. /\ deq \in Slot /\ ccs \in BOOLEAN /\ mem[deq].cycle \in BOOLEAN
      /\ enq \in Nat /\ got \in Nat
  BY DEF RingInv, TypeInv, TypeOK, RingTypeOK
<1>2. Ahead(deq, deq) = 0 /\ Index(deq) >= Index(deq)
  BY <1>1, Distances, IndexRange
<1>3. /\ Ahead(deq, deq) < enq - got <=> (mem[deq].cycle <=> (ccs <=> Index(deq) >= Index(deq)))
      /\ Ahead(deq, deq) < enq - got => mem[deq].event = got + Ahead(deq, deq) + 1
      /\ enq - got \in 0 .. Total - 1
  BY <1>1 DEF RingInv, SlotsAreTrue
<1>4. 0 < enq - got <=> (mem[deq].cycle <=> ccs)
  BY <1>2, <1>3
<1>5. mem[deq].cycle = ccs <=> (mem[deq].cycle <=> ccs)
  BY <1>1
<1>6. mem[deq].event = got + 1 \/ enq = got
  BY <1>1, <1>2, <1>3, SlotsAreFinite
<1> QED
  BY <1>1, <1>3, <1>4, <1>5, <1>6

LEMMA DriverReadsRing == ASSUME RingInv, DriverReads PROVE RingInv'
<1> DEFINE p == enqueue_pointer
<1>1. TypeInv' /\ TypeOK
  BY NextTypes DEF RingInv, TypeInv, Next, Driver
<1>2. /\ driver = "running" /\ handling /\ mem[deq].cycle = ccs /\ got' = got + 1
      /\ deq' = NextSlot(deq)
      /\ ccs' = IF LastSlot(deq) THEN ~ccs ELSE ccs
      /\ UNCHANGED <<enqueue_pointer, cycle_state, mem, queue, worker, listening, line, erdp, pending,
                     given, driver, handling, enq>>
  BY DEF DriverReads, ringVars, workerVars, RingInv, StartsInOrder
<1>3. /\ enq - got > 0 /\ enq \in Nat /\ got \in Nat /\ deq \in Slot /\ ccs \in BOOLEAN
      /\ enq - got \in 0 .. Total - 1 /\ enq' - got' = enq - got - 1 /\ Total \in Nat
      /\ enq - got - 1 \in 0 .. Total - 1
  BY <1>2, SeesEvent, SlotsAreFinite
<1>4. worker # "waiting"
  BY <1>2, <1>3 DEF RingInv, StartsInOrder
<1>5. /\ Resetting' <=> Resetting
      /\ LastLineIsGiven'
  BY <1>2 DEF Resetting, LastLineIsGiven, RingInv
<1>6. StartsInOrder'
  BY <1>2, <1>4, <1>5 DEF RingInv, StartsInOrder
<1>7. NoLostSignal'
  BY <1>2 DEF NoLostSignal
<1>8. ASSUME NEW q \in Slot
      PROVE  /\ (ccs' <=> Index(q) >= Index(deq')) <=>
                   IF q = deq THEN ~ccs ELSE (ccs <=> Index(q) >= Index(deq))
             /\ Ahead(deq, q) \in 0 .. Total - 1
             /\ Ahead(deq', q) = IF q = deq THEN Total - 1 ELSE Ahead(deq, q) - 1
             /\ q # deq => Ahead(deq, q) > 0
  <2>1. /\ Ahead(deq, q) \in 0 .. Total - 1
        /\ Ahead(deq, q) = 0 <=> deq = q
        /\ Ahead(deq', q) = IF Ahead(deq, q) = 0 THEN Total - 1 ELSE Ahead(deq, q) - 1
    BY <1>2, <1>3, Distances
  <2>2. /\ ~LastSlot(deq) => (Index(q) >= Index(deq') <=> (Index(q) >= Index(deq) /\ q # deq))
        /\ LastSlot(deq) => Index(q) >= Index(deq') /\ (Index(q) >= Index(deq) <=> q = deq)
    BY <1>2, <1>3, Laps
  <2>3. (ccs' <=> Index(q) >= Index(deq')) <=>
                   IF q = deq THEN ~ccs ELSE (ccs <=> Index(q) >= Index(deq))
    <3>1. CASE LastSlot(deq)
      <4>1. ccs' = ~ccs
        BY <1>2, <3>1
      <4> QED
        BY <1>3, <2>2, <3>1, <4>1
    <3>2. CASE ~LastSlot(deq)
      <4>1. ccs' = ccs
        BY <1>2, <3>2
      <4> QED
        BY <1>3, <2>2, <3>2, <4>1
    <3> QED
      BY <3>1, <3>2
  <2> QED
    BY <1>3, <2>1, <2>3
<1>9. SlotsAreTrue'
  <2> SUFFICES ASSUME NEW q \in Slot
               PROVE  /\ Ahead(deq', q) < enq' - got' <=>
                            (mem[q].cycle <=> (ccs' <=> Index(q) >= Index(deq')))
                      /\ Ahead(deq', q) < enq' - got' => mem[q].event = got' + Ahead(deq', q) + 1
    BY <1>2, <1>3 DEF SlotsAreTrue
  <2>1. /\ Ahead(deq, q) < enq - got <=> (mem[q].cycle <=> (ccs <=> Index(q) >= Index(deq)))
        /\ Ahead(deq, q) < enq - got => mem[q].event = got + Ahead(deq, q) + 1
    BY <1>2 DEF RingInv, SlotsAreTrue
  <2>2. CASE q = deq
    <3>1. ~(Ahead(deq', q) < enq' - got')
      BY <1>3, <1>8, <2>2
    <3>2. mem[q].cycle = ccs /\ ((ccs' <=> Index(q) >= Index(deq')) <=> ~ccs)
      BY <1>2, <1>8, <2>2
    <3> QED
      BY <1>3, <3>1, <3>2
  <2>3. CASE q # deq
    <3>1. Ahead(deq', q) < enq' - got' <=> Ahead(deq, q) < enq - got
      BY <1>3, <1>8, <2>3
    <3>2. got' + Ahead(deq', q) + 1 = got + Ahead(deq, q) + 1
      BY <1>2, <1>3, <1>8, <2>3
    <3>3. (ccs' <=> Index(q) >= Index(deq')) <=> (ccs <=> Index(q) >= Index(deq))
      BY <1>8, <2>3
    <3> QED
      BY <2>1, <3>1, <3>2, <3>3
  <2> QED
    BY <2>2, <2>3
<1>10. PointersAgree'
  <2>1. /\ p \in Slot /\ Ahead(deq, p) = enq - got /\ enq - got <= Ahead(erdp.ptr, p)
        /\ cycle_state <=> (ccs <=> Index(p) >= Index(deq))
        /\ erdp.ptr \in Slot /\ ~erdp.ehb
    BY <1>2, <1>4 DEF RingInv, TypeInv, ProducerIsPlaced, PointersAgree
  <2>2. p # deq /\ Ahead(erdp.ptr, p) \in Int
    BY <1>3, <2>1, Distances
  <2>3. Ahead(deq', p) = enq' - got' /\ enq' - got' <= Ahead(erdp.ptr, p)
    BY <1>3, <1>8, <2>1, <2>2
  <2>4. cycle_state <=> (ccs' <=> Index(p) >= Index(deq'))
    BY <1>8, <2>1, <2>2
  <2> QED
    BY <1>2, <2>1, <2>3, <2>4 DEF PointersAgree
<1> QED
  BY <1>1, <1>5, <1>6, <1>7, <1>9, <1>10 DEF RingInv

\* The handler leaves an empty ring behind, so no signal is owed.
LEMMA DriverDoneRing == ASSUME RingInv, ~DriverSetsEhb, DriverDone PROVE RingInv'
<1>1. TypeInv' /\ TypeOK
  BY NextTypes DEF RingInv, TypeInv, Next, Driver
<1>2. /\ driver = "running" /\ mem[deq].cycle # ccs /\ handling' = FALSE
      /\ erdp' = [ptr |-> deq, ehb |-> FALSE]
      /\ UNCHANGED <<enqueue_pointer, cycle_state, mem, queue, worker, listening, line, pending,
                     given, driver, deq, ccs, got, enq>>
  BY EhbAssumption DEF DriverDone, ringVars, workerVars, RingInv, StartsInOrder
<1>3. enq = got /\ enq \in Nat /\ deq \in Slot
  BY <1>2, SeesEvent, SlotsAreFinite
<1>4. /\ Resetting' <=> Resetting
      /\ LastLineIsGiven'
  BY <1>2 DEF Resetting, LastLineIsGiven, RingInv
<1>5. StartsInOrder'
  BY <1>2, <1>4 DEF RingInv, StartsInOrder
<1>6. SlotsAreTrue'
  BY <1>2, SlotsSame DEF RingInv
<1>7. PointersAgree'
  <2> SUFFICES ASSUME worker # "waiting" PROVE PointersAgree'
    BY <1>2 DEF PointersAgree
  <2>1. Ahead(deq, enqueue_pointer) = enq - got /\ enq - got <= Ahead(deq, enqueue_pointer)
    BY <1>2, <1>3 DEF RingInv, PointersAgree
  <2> QED
    BY <1>2, <1>3, <2>1 DEF RingInv, PointersAgree
<1>8. NoLostSignal'
  BY <1>2, <1>3 DEF NoLostSignal
<1> QED
  BY <1>1, <1>4, <1>5, <1>6, <1>7, <1>8 DEF RingInv

LEMMA DriverResetsRing == ASSUME RingInv, DriverResets PROVE RingInv'
<1>1. TypeInv'
  BY NextTypes DEF RingInv, Next
<1>2. /\ driver' = "resetting" /\ handling' = FALSE /\ queue' = Append(queue, "reset") /\ TypeOK
      /\ "reset" \in Message /\ UNCHANGED <<worker, listening, line, given>>
  BY DEF DriverResets, workerVars, RingInv, TypeInv, Message
<1>3. Resetting' /\ LastLineIsGiven'
  <2>1. "reset" \notin Lines
    BY MessagesApart
  <2> QED
    BY <1>2, <2>1, Sent DEF RingInv
<1>4. StartsInOrder'
  BY <1>2, <1>3 DEF RingInv, StartsInOrder
<1>5. SlotsAreTrue' /\ PointersAgree' /\ NoLostSignal'
  BY <1>2 DEF SlotsAreTrue, PointersAgree, NoLostSignal
<1> QED
  BY <1>1, <1>3, <1>4, <1>5 DEF RingInv

LEMMA DriverResetDoneRing == ASSUME RingInv, DriverResetDone PROVE RingInv'
<1>1. TypeInv'
  BY NextTypes DEF RingInv, Next
<1>2. /\ driver = "resetting" /\ ~Resetting /\ driver' = "down"
      /\ UNCHANGED <<queue, worker, listening, line, given, handling>>
  BY DEF DriverResetDone, workerVars, Resetting
<1>3. /\ Resetting' <=> Resetting
      /\ LastLineIsGiven'
  BY <1>2 DEF Resetting, LastLineIsGiven, RingInv
<1>4. StartsInOrder'
  BY <1>2, <1>3 DEF RingInv, StartsInOrder
<1>5. SlotsAreTrue' /\ PointersAgree' /\ NoLostSignal'
  BY <1>2 DEF SlotsAreTrue, PointersAgree, NoLostSignal
<1> QED
  BY <1>1, <1>3, <1>4, <1>5 DEF RingInv

LEMMA NextRing == ASSUME RingInv, ~DriverSetsEhb, [Next]_vars PROVE RingInv'
<1>1. CASE UNCHANGED vars
  <2>1. TypeInv'
    BY NextTypes DEF RingInv
  <2>2. UNCHANGED <<enqueue_pointer, trb_count, erst_count, cycle_state, mem, queue, worker, listening, line,
                    erdp, pending, given, driver, handling, deq, ccs, got, enq>>
    BY <1>1 DEF vars, ringVars, workerVars, driverVars
  <2>3. StartsInOrder' /\ LastLineIsGiven' /\ NoLostSignal'
    BY <2>2 DEF RingInv, StartsInOrder, Resetting, LastLineIsGiven, NoLostSignal
  <2>4. SlotsAreTrue' /\ PointersAgree'
    BY <2>2, SlotsSame, PointersSame DEF RingInv
  <2> QED
    BY <2>1, <2>3, <2>4 DEF RingInv
<1>2. CASE Worker
  BY <1>2, ListenRing, StartRingRing, ReceiveWaitingRing, WorkerEventRing, WorkerLineRing, WorkerResetRing
     DEF Worker
<1>3. CASE Driver
  BY <1>3, DriverSetupRing, DriverWritesErstbaRing, DriverInterruptRing, DriverReadsRing, DriverDoneRing
     DEF Driver
<1> QED
  BY <1>1, <1>2, <1>3, SendEventRing, SetLineRing, DriverResetsRing, DriverResetDoneRing DEF Next, Lines

\* With a driver that writes ERDP with Event Handler Busy clear, the cycle bits of the
\* ring and its pointers (event_ring.rs, enqueue and check_event_ring_full) always agree
\* with the events that are unread, for every segment table.
THEOREM RingInvariant == ~DriverSetsEhb => (Spec => []RingInv)
<1> SUFFICES ASSUME ~DriverSetsEhb PROVE Spec => []RingInv
  OBVIOUS
<1>1. Init => RingInv
  BY InitRing
<1>2. RingInv /\ [Next]_vars => RingInv'
  BY NextRing
<1> QED
  BY <1>1, <1>2, PTL DEF Spec

\* An unread event always has an interrupt on its way to the guest, also when the line
\* is replaced while events are written (interrupter.rs, handle_event and the kick of
\* UpdateInterruptLine).
THEOREM NoLostSignalAlways == ~DriverSetsEhb => (Spec => []NoLostSignal)
<1>1. RingInv => NoLostSignal
  BY DEF RingInv
<1> QED
  BY <1>1, RingInvariant, PTL

-----------------------------------------------------------------------------
(* The ring is a queue *)

\* The slot that is k slots ahead of p, and whether the ring wraps before it.
LEMMA SlotAhead ==
    ASSUME NEW p \in Slot, NEW k \in 0 .. Total - 1
    PROVE  /\ SlotAt(Index(p) + k) \in Slot
           /\ Ahead(p, SlotAt(Index(p) + k)) = k
           /\ Index(p) + k < Total <=> Index(SlotAt(Index(p) + k)) >= Index(p)
<1> DEFINE i == Index(p) + k
           r == IF i < Total THEN i ELSE i - Total
<1>1. Index(p) \in Nat /\ Index(p) < Total /\ Total \in Nat
  BY IndexRange, SlotsAreFinite
<1>2. i % Total = r /\ r \in Nat /\ r < Total
  BY <1>1
<1>3. \E q \in Slot : Index(q) = i % Total
  BY <1>2, IndexOnto
<1>4. SlotAt(i) \in Slot /\ Index(SlotAt(i)) = i % Total
  BY <1>3 DEF SlotAt
<1> HIDE DEF r
<1>5. SlotAt(i) \in Slot /\ Index(SlotAt(i)) = r
  BY <1>2, <1>4
<1> QED
  BY <1>1, <1>5 DEF Ahead, r

\* The driver finds an event where one is unread, and nothing after the last.
LEMMA ExpectedIsUnread ==
    ASSUME RingInv, driver = "running", NEW k \in 0 .. Total - 1
    PROVE  /\ Expected(Index(deq) + k) <=> k < enq - got
           /\ k < enq - got => mem[SlotAt(Index(deq) + k)].event = got + k + 1
<1> DEFINE q == SlotAt(Index(deq) + k)
           ahead == Index(deq) + k < Total
<1>1. deq \in Slot /\ ccs \in BOOLEAN
  BY DEF RingInv, TypeInv, TypeOK
<1>2. q \in Slot /\ Ahead(deq, q) = k /\ (ahead <=> Index(q) >= Index(deq))
  BY <1>1, SlotAhead
<1>3. mem[q].cycle \in BOOLEAN
  BY <1>2 DEF RingInv, TypeInv, TypeOK, RingTypeOK
<1>4. /\ Ahead(deq, q) < enq - got <=> (mem[q].cycle <=> (ccs <=> Index(q) >= Index(deq)))
      /\ Ahead(deq, q) < enq - got => mem[q].event = got + Ahead(deq, q) + 1
  BY <1>2 DEF RingInv, SlotsAreTrue
<1> HIDE DEF q
<1>5. k < enq - got <=> (mem[q].cycle <=> (ccs <=> ahead))
  BY <1>2, <1>4
<1>6. Expected(Index(deq) + k) <=> mem[q].cycle = (ccs = ahead)
  BY DEF Expected, q
<1> HIDE DEF ahead
<1>7. mem[q].cycle = (ccs = ahead) <=> (mem[q].cycle <=> (ccs <=> ahead))
  <2>1. ahead \in BOOLEAN
    BY DEF ahead
  <2>2. (ccs = ahead) \in BOOLEAN /\ ((ccs = ahead) <=> (ccs <=> ahead))
    BY <1>1, <2>1
  <2> QED
    BY <1>3, <2>2
<1> QED
  BY <1>2, <1>4, <1>5, <1>6, <1>7 DEF q

Numbers(a, n) == [k \in 1 .. n |-> a + k]

LEMMA UnreadNumbers ==
    ASSUME RingInv, driver = "running"
    PROVE  Unread = Numbers(got, enq - got)
<1> DEFINE P(n) == /\ \A k \in 0 .. n - 1 : Expected(Index(deq) + k)
                   /\ n = Total \/ ~Expected(Index(deq) + n)
           c == CHOOSE n \in 0 .. Total : P(n)
<1>1. enq \in Nat /\ got \in Nat /\ enq - got \in 0 .. Total - 1 /\ Total \in Nat
  BY SeesEvent, SlotsAreFinite
<1>2. \A k \in 0 .. Total - 1 : Expected(Index(deq) + k) <=> k < enq - got
  BY ExpectedIsUnread
<1>3. P(enq - got) /\ enq - got \in 0 .. Total
  BY <1>1, <1>2
<1>4. ASSUME NEW n \in 0 .. Total, P(n) PROVE n = enq - got
  <2>1. n >= enq - got
    <3> SUFFICES ASSUME n < enq - got PROVE FALSE
      BY <1>1
    <3>1. n \in 0 .. Total - 1 /\ n # Total
      BY <1>1
    <3> QED
      BY <1>2, <1>4, <3>1
  <2>2. n <= enq - got
    <3> SUFFICES ASSUME n > enq - got PROVE FALSE
      BY <1>1
    <3>1. enq - got \in 0 .. n - 1
      BY <1>1
    <3> QED
      BY <1>1, <1>2, <1>4, <3>1
  <2> QED
    BY <1>1, <2>1, <2>2
<1>5. Unread = [k \in 1 .. c |-> mem[SlotAt(Index(deq) + k - 1)].event]
  BY DEF Unread
<1> HIDE DEF P
<1>6. c \in 0 .. Total /\ P(c)
  BY <1>3
<1>7. c = enq - got
  BY <1>4, <1>6
<1> HIDE DEF c
<1>8. ASSUME NEW k \in 1 .. enq - got
      PROVE  mem[SlotAt(Index(deq) + k - 1)].event = got + k
  <2>1. k - 1 \in 0 .. Total - 1 /\ k - 1 < enq - got /\ got + (k - 1) + 1 = got + k
    BY <1>1
  <2>2. Index(deq) + (k - 1) = Index(deq) + k - 1
    BY <1>1, IndexRange, SeesEvent
  <2>3. mem[SlotAt(Index(deq) + (k - 1))].event = got + (k - 1) + 1
    BY <2>1, ExpectedIsUnread
  <2> QED
    BY <2>1, <2>2, <2>3
<1> QED
  BY <1>5, <1>7, <1>8 DEF Numbers

LEMMA NumbersOps ==
    ASSUME NEW a \in Nat, NEW n \in Nat
    PROVE  /\ Len(Numbers(a, n)) = n /\ Numbers(a, 0) = <<>> /\ (Numbers(a, n) = <<>> => n = 0)
           /\ Append(Numbers(a, n), a + n + 1) = Numbers(a, n + 1)
           /\ n > 0 => Tail(Numbers(a, n)) = Numbers(a + 1, n - 1)
<1>1. Numbers(a, n) \in Seq(Nat) /\ Len(Numbers(a, n)) = n
  BY DEF Numbers
<1>2. Numbers(a, 0) = <<>>
  BY DEF Numbers
<1>3. Append(Numbers(a, n), a + n + 1) = Numbers(a, n + 1)
  BY DEF Numbers
<1>4. n > 0 => Tail(Numbers(a, n)) = Numbers(a + 1, n - 1)
  BY DEF Numbers
<1> QED
  BY <1>1, <1>2, <1>3, <1>4, EmptySeq

\* The queue the driver finds, in terms of the two counts.
QueueIsCounted == QueueUnread = IF driver = "running" THEN Numbers(got, enq - got) ELSE <<>>

LEMMA CountedQueue == RingInv => QueueIsCounted
BY UnreadNumbers DEF QueueIsCounted, QueueUnread

LEMMA QueueStep ==
    ASSUME RingInv, RingInv', QueueIsCounted, QueueIsCounted', [Next]_vars
    PROVE  [Queue!Deliver \/ Queue!Read \/ Queue!Discard]_(Queue!qvars)
<1>1. /\ enq \in Nat /\ got \in Nat /\ enq' \in Nat /\ got' \in Nat /\ Total \in Nat
  BY SlotsAreFinite DEF RingInv, TypeInv, TypeOK
<1>2. /\ driver \in {"setup", "running"} => enq - got \in 0 .. Total - 1
      /\ driver' \in {"setup", "running"} => enq' - got' \in 0 .. Total - 1
  BY DEF RingInv, SlotsAreTrue
<1>3. ASSUME UNCHANGED <<enq, got>>, driver' = "running" <=> driver = "running"
      PROVE  UNCHANGED Queue!qvars
  BY <1>3 DEF QueueIsCounted, QueueSent, Queue!qvars
<1>4. ASSUME driver # "running", driver' # "running"
      PROVE  UNCHANGED Queue!qvars
  BY <1>4 DEF QueueIsCounted, QueueSent, Queue!qvars
<1>5. CASE WorkerEvent
  <2>1. CASE IsFull(DequeuePointer)
    BY <1>3, <1>5, <2>1 DEF WorkerEvent, driverVars
  <2>2. CASE driver # "running"
    BY <1>4, <1>5, <2>2 DEF WorkerEvent, driverVars
  <2>3. CASE ~IsFull(DequeuePointer) /\ driver = "running"
    <3>1. enq' = enq + 1 /\ got' = got /\ driver' = "running"
      BY <1>5, <2>3 DEF WorkerEvent, driverVars
    <3>2. /\ enq - got \in Nat /\ got + (enq - got) + 1 = enq + 1 /\ enq' - got' = (enq - got) + 1
          /\ enq - got < Total - 1
      BY <1>1, <1>2, <2>3, <3>1
    <3>3. QueueUnread = Numbers(got, enq - got) /\ QueueUnread' = Numbers(got, (enq - got) + 1)
      BY <2>3, <3>1, <3>2 DEF QueueIsCounted
    <3>4. Len(QueueUnread) < Total - 1 /\ QueueUnread' = Append(QueueUnread, enq + 1)
      <4>1. /\ Len(Numbers(got, enq - got)) = enq - got
            /\ Append(Numbers(got, enq - got), got + (enq - got) + 1) = Numbers(got, (enq - got) + 1)
        BY <1>1, <3>2, NumbersOps
      <4> QED
        BY <3>2, <3>3, <4>1
    <3>5. Queue!Deliver
      BY <2>3, <3>1, <3>4 DEF Queue!Deliver, QueueSent
    <3> QED
      BY <3>5
  <2> QED
    BY <2>1, <2>2, <2>3
<1>6. CASE DriverReads
  <2>1. /\ driver = "running" /\ driver' = "running" /\ enq' = enq /\ got' = got + 1
        /\ mem[deq].cycle = ccs
    BY <1>6 DEF DriverReads, RingInv, StartsInOrder
  <2>2. enq - got > 0 /\ enq - got \in Nat /\ enq' - got' = (enq - got) - 1
    BY <1>1, <2>1, SeesEvent
  <2>3. QueueUnread = Numbers(got, enq - got) /\ QueueUnread' = Numbers(got + 1, (enq - got) - 1)
    BY <2>1, <2>2 DEF QueueIsCounted
  <2>4. QueueUnread # <<>> /\ QueueUnread' = Tail(QueueUnread)
    <3>1. Numbers(got, enq - got) = <<>> => enq - got = 0
      BY <1>1, <2>2, NumbersOps
    <3>2. Tail(Numbers(got, enq - got)) = Numbers(got + 1, (enq - got) - 1)
      BY <1>1, <2>2, NumbersOps
    <3> QED
      BY <2>2, <2>3, <3>1, <3>2
  <2>5. Queue!Read
    BY <2>1, <2>4 DEF Queue!Read, QueueSent
  <2> QED
    BY <2>5
<1>7. CASE DriverResets
  <2>1. driver' = "resetting"
    BY <1>7 DEF DriverResets
  <2>2. Queue!Discard
    BY <2>1 DEF Queue!Discard, QueueIsCounted, QueueSent
  <2> QED
    BY <2>2
<1>8. CASE DriverWritesErstba
  <2>1. /\ driver = "setup" /\ driver' = "running" /\ enq' = 0 /\ got' = 0
    BY <1>8 DEF DriverWritesErstba, RingInv, StartsInOrder
  <2>2. QueueUnread = <<>> /\ QueueUnread' = <<>> /\ QueueSent = 0 /\ QueueSent' = 0
    BY <2>1, NumbersOps DEF QueueIsCounted, QueueSent
  <2> QED
    BY <2>2 DEF Queue!qvars
<1>9. CASE SendEvent \/ (\E l \in Line \cup {NoLine} : SetInterruptLine(l)) \/ Listen \/ StartRing
           \/ ReceiveWaiting \/ WorkerLine \/ WorkerReset \/ DriverInterrupt \/ DriverDone
           \/ UNCHANGED vars
  <2>1. UNCHANGED <<enq, got, driver>>
    BY <1>9 DEF SendEvent, SetInterruptLine, Listen, StartRing, ReceiveWaiting, WorkerLine, WorkerReset,
                DriverInterrupt, DriverDone, vars, driverVars
  <2> QED
    BY <1>3, <2>1
<1>10. CASE DriverSetup \/ DriverResetDone
  BY <1>4, <1>10 DEF DriverSetup, DriverResetDone
<1> QED
  BY <1>5, <1>6, <1>7, <1>8, <1>9, <1>10 DEF Next, Worker, Driver

LEMMA QueueStart == Init => Queue!QInit
BY DEF Init, Queue!QInit, QueueUnread, QueueSent

\* To a driver that writes ERDP with Event Handler Busy clear, the ring of event_ring.rs
\* is a first-in first-out queue, whatever the segments are: every event written is read
\* once, in order, and no stale slot is taken for an event.
THEOREM InterrupterImplementsQueue == ~DriverSetsEhb => (Spec => ImplementsQueue)
<1> SUFFICES ASSUME ~DriverSetsEhb PROVE Spec => ImplementsQueue
  OBVIOUS
<1>1. Init => Queue!QInit
  BY QueueStart
<1>2. RingInv => QueueIsCounted
  BY CountedQueue
<1>3. RingInv /\ RingInv' /\ QueueIsCounted /\ QueueIsCounted' /\ [Next]_vars
         => [Queue!Deliver \/ Queue!Read \/ Queue!Discard]_(Queue!qvars)
  BY QueueStep
<1>4. Spec => []RingInv
  BY RingInvariant
<1> QED
  BY <1>1, <1>2, <1>3, <1>4, PTL DEF Spec, ImplementsQueue, Queue!QSpec

\* The same, slot by slot: the statement that run interrupter_ehb refutes for a driver
\* that sets Event Handler Busy holds for one that does not.
THEOREM DriverReadsWhatWasSentAlways == ~DriverSetsEhb => (Spec => []DriverReadsWhatWasSent)
<1>1. RingInv => DriverReadsWhatWasSent
  <2> SUFFICES ASSUME RingInv, driver = "running" PROVE DriverReadsWhatWasSent
    BY DEF DriverReadsWhatWasSent
  <2>1. /\ enq \in Nat /\ got \in Nat /\ enq - got \in 0 .. Total - 1 /\ Total \in Nat
        /\ Index(deq) \in Nat
    BY SeesEvent, SlotsAreFinite, IndexRange
  <2>2. ASSUME NEW k \in 1 .. enq - got
        PROVE  /\ mem[SlotAt(Index(deq) + k - 1)].event = got + k
               /\ Expected(Index(deq) + k - 1)
    <3>1. k - 1 \in 0 .. Total - 1 /\ k - 1 < enq - got /\ got + (k - 1) + 1 = got + k
      BY <2>1
    <3>2. Index(deq) + (k - 1) = Index(deq) + k - 1
      BY <2>1
    <3>3. /\ mem[SlotAt(Index(deq) + (k - 1))].event = got + (k - 1) + 1
          /\ Expected(Index(deq) + (k - 1))
      BY <3>1, ExpectedIsUnread
    <3> QED
      BY <3>1, <3>2, <3>3
  <2>3. ~Expected(Index(deq) + (enq - got))
    BY <2>1, ExpectedIsUnread
  <2>4. Index(deq) + (enq - got) = Index(deq) + enq - got
    BY <2>1
  <2>5. ~Expected(Index(deq) + enq - got)
    BY <2>3, <2>4
  <2> QED
    BY <2>2, <2>5 DEF DriverReadsWhatWasSent, Expected
<1> QED
  BY <1>1, RingInvariant, PTL

=============================================================================
