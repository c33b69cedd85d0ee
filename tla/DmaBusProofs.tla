----------------------------- MODULE DmaBusProofs -----------------------------
(***************************************************************************)
(* Proofs about DmaBus for every set of connections and ranges, every size *)
(* of the bus and every length of an access: what is on the bus stays      *)
(* disjoint and on record, mappings leave it by right only, and accesses   *)
(* deliver what single reads of one bus deliver.                           *)
(***************************************************************************)
EXTENDS DmaBus, SequenceTheorems, TLAPS

Disjoint(bus) == \A m, n \in bus : m # n => ~Overlaps(m, n.start, n.size)

\* Only a connection that has been established has anything on the bus.
MappedByEstablished == \A m \in segments : conn[m.mem] # "slot"

\* The inductive invariant.
BusInv ==
    /\ TypeOK
    /\ MappingsAreDisjoint
    /\ BusIsOnRecord
    /\ MappedByEstablished
    /\ AccessSeesOneBus

-----------------------------------------------------------------------------
(* The operators of module Bus *)

\* On a disjoint bus an address has at most one mapping behind it.
LEMMA OneMapping ==
    ASSUME NEW bus \in SUBSET Mapping, Disjoint(bus), NEW a \in Nat,
           NEW m \in bus, NEW n \in bus, Contains(m, a, 1), Contains(n, a, 1)
    PROVE  m = n
BY DEF Mapping, Disjoint, Contains, Overlaps, End

\* A single read delivers the byte of the mapping that holds the address.
LEMMA ReadOfMapping ==
    ASSUME NEW bus \in SUBSET Mapping, Disjoint(bus), NEW a \in Nat,
           NEW m \in bus, Contains(m, a, 1)
    PROVE  Read(bus, a, 1)[1] = ByteOf(m, a)
<1> DEFINE claiming == {e \in bus : Contains(e, a, 1)}
<1>1. m \in claiming
  OBVIOUS
<1>2. (CHOOSE e \in claiming : TRUE) = m
  BY <1>1, OneMapping
<1>3. Read(bus, a, 1) = [i \in 1 .. 1 |-> ByteOf(m, a + i - 1)]
  BY <1>1, <1>2 DEF Read
<1>4. Read(bus, a, 1)[1] = ByteOf(m, a + 1 - 1)
  BY <1>3
<1>5. a + 1 - 1 = a
  OBVIOUS
<1> QED
  BY <1>4, <1>5

\* An address that nothing is mapped at reads as all ones.
LEMMA ReadOfGap ==
    ASSUME NEW bus, NEW a \in Nat, {m \in bus : Contains(m, a, 1)} = {}
    PROVE  Read(bus, a, 1)[1] = Ones
BY DEF Read

\* A chunk is not empty, does not exceed the request, and delivers what single reads do.
LEMMA ChunkReads ==
    ASSUME NEW bus \in SUBSET Mapping, Disjoint(bus), NEW a \in Nat, NEW left \in Nat \ {0}
    PROVE  /\ Chunk(bus, a, left) \in Seq(Byte)
           /\ Len(Chunk(bus, a, left)) \in 1 .. left
           /\ \A i \in 1 .. Len(Chunk(bus, a, left)) :
                 Chunk(bus, a, left)[i] = Read(bus, a + i - 1, 1)[1]
<1> DEFINE claiming == {e \in bus : Contains(e, a, 1)}
<1>1. CASE claiming = {}
  <2>1. Chunk(bus, a, left) = <<Ones>>
    BY <1>1 DEF Chunk
  <2>2. Ones \in Byte
    BY DEF Byte
  <2>3. Read(bus, a, 1)[1] = Ones
    BY <1>1, ReadOfGap
  <2>4. \A i \in 1 .. 1 : <<Ones>>[i] = Read(bus, a + i - 1, 1)[1]
    BY <2>3
  <2> QED
    BY <2>1, <2>2, <2>4
<1>2. CASE claiming # {}
  <2> DEFINE m == CHOOSE e \in claiming : TRUE
             n == Smaller(left, End(m) - a)
  <2>1. m \in bus /\ Contains(m, a, 1)
    BY <1>2
  <2>2. m \in Mapping /\ m.start \in Nat /\ m.size \in Nat \ {0} /\ m.mem \in Conn
    BY <2>1 DEF Mapping
  <2>3. m.start <= a /\ a < End(m) /\ End(m) \in Nat
    BY <2>1, <2>2 DEF Contains, End
  <2>4. n \in 1 .. left /\ n <= End(m) - a
    BY <2>3 DEF Smaller
  <2>5. Chunk(bus, a, left) = [i \in 1 .. n |-> ByteOf(m, a + i - 1)]
    BY <1>2 DEF Chunk
  <2> HIDE DEF m, n
  <2>6. \A i \in 1 .. n : ByteOf(m, a + i - 1) \in Byte
    BY <2>2, <2>3, <2>4 DEF ByteOf, Byte
  <2>7. Chunk(bus, a, left) \in Seq(Byte) /\ Len(Chunk(bus, a, left)) = n
    BY <2>4, <2>5, <2>6
  <2>8. ASSUME NEW i \in 1 .. n
        PROVE  Chunk(bus, a, left)[i] = Read(bus, a + i - 1, 1)[1]
    <3>1. a + i - 1 \in Nat /\ Contains(m, a + i - 1, 1)
      BY <2>2, <2>3, <2>4 DEF Contains, End
    <3>2. Read(bus, a + i - 1, 1)[1] = ByteOf(m, a + i - 1)
      BY <3>1, <2>1, ReadOfMapping
    <3> QED
      BY <3>2, <2>5
  <2> QED
    BY <2>4, <2>7, <2>8
<1> QED
  BY <1>1, <1>2

-----------------------------------------------------------------------------
(* The invariant *)

\* An empty bus, with no connection there, satisfies the invariant.
LEMMA InitBus == Init => BusInv
BY DEF Init, Owning!AInit, BusInv, TypeOK, MappingsAreDisjoint, BusIsOnRecord,
       MappedByEstablished, AccessSeesOneBus

\* What DynamicBus::add leaves of the mappings, with the new one, is disjoint.
LEMMA AddKeepsDisjoint ==
    ASSUME BusInv, NEW c \in Conn, NEW r \in Region, NEW m \in Mapping,
           m = [start |-> r.start, size |-> r.size, mem |-> c],
           CanAdd(Kept(r), m)
    PROVE  Disjoint(Kept(r) \cup {m})
<1>1. Kept(r) \subseteq segments /\ segments \subseteq Mapping
  BY DEF Kept, BusInv, TypeOK
<1>2. Disjoint(Kept(r))
  BY <1>1 DEF Disjoint, BusInv, MappingsAreDisjoint
<1>3. ASSUME NEW e \in Kept(r)
      PROVE  ~Overlaps(e, m.start, m.size) /\ ~Overlaps(m, e.start, e.size)
  BY <1>1, <1>3 DEF CanAdd, Overlaps, End, Mapping
<1> QED
  BY <1>2, <1>3 DEF Disjoint

\* dma_map records what it publishes, and replaces only what starts where it starts.
LEMMA DmaMapBus ==
    ASSUME BusInv, NEW c \in Conn, NEW r \in Region, DmaMap(c, r)
    PROVE  BusInv'
<1> DEFINE m == [start |-> r.start, size |-> r.size, mem |-> c]
<1>r. r \in [start : Nat, size : Nat \ {0}]
  BY RegionAssumption
<1>1. m \in Mapping /\ r = [start |-> r.start, size |-> r.size]
  BY <1>r DEF Mapping
<1>2. /\ conn[c] = "serving" /\ CanAdd(Kept(r), m)
      /\ segments' = Kept(r) \cup {m}
      /\ mapped' = [mapped EXCEPT ![c] = @ \cup {r}]
      /\ UNCHANGED <<conn, ownership, io>>
  BY DEF DmaMap
<1>3. m.start = r.start /\ m.size = r.size /\ m.mem = c
  OBVIOUS
<1> HIDE DEF m
<1>4. Kept(r) \subseteq segments
  BY DEF Kept
<1>5. TypeOK'
  <2>1. mapped' \in [Conn -> SUBSET Region] /\ segments' \subseteq Mapping
    BY <1>1, <1>2, <1>4 DEF BusInv, TypeOK
  <2> QED
    BY <1>2, <2>1 DEF BusInv, TypeOK, ownership
<1>6. MappingsAreDisjoint'
  BY <1>1, <1>2, <1>3, AddKeepsDisjoint DEF m, Disjoint, MappingsAreDisjoint
<1>7. BusIsOnRecord'
  <2> SUFFICES ASSUME NEW e \in segments', conn[e.mem] = "serving"
               PROVE  [start |-> e.start, size |-> e.size] \in mapped'[e.mem]
    BY <1>2 DEF BusIsOnRecord
  <2>1. CASE e = m
    BY <2>1, <1>1, <1>2, <1>3 DEF BusInv, TypeOK
  <2>2. CASE e \in segments
    <3>1. e.mem \in Conn /\ [start |-> e.start, size |-> e.size] \in mapped[e.mem]
      BY <2>2 DEF BusInv, TypeOK, BusIsOnRecord, Mapping
    <3> QED
      BY <3>1, <1>2 DEF BusInv, TypeOK
  <2> QED
    BY <1>2, <1>4, <2>1, <2>2
<1>8. MappedByEstablished'
  BY <1>2, <1>3, <1>4 DEF BusInv, MappedByEstablished
<1>9. AccessSeesOneBus'
  BY <1>2 DEF BusInv, AccessSeesOneBus
<1> QED
  BY <1>5, <1>6, <1>7, <1>8, <1>9 DEF BusInv

\* dma_unmap takes off the record the very range it empties on the bus; one that is not
\* on record only shrinks the bus.
LEMMA DmaUnmapBus ==
    ASSUME BusInv, NEW c \in Conn, NEW r \in Region, DmaUnmap(c, r)
    PROVE  BusInv'
<1>1. /\ segments' = Remaining(r) /\ Remaining(r) \subseteq segments
      /\ mapped' = [mapped EXCEPT ![c] = @ \ {r}]
      /\ UNCHANGED <<conn, ownership, io>>
  BY DEF DmaUnmap, Remaining
<1>2. TypeOK'
  BY <1>1 DEF BusInv, TypeOK, ownership
<1>3. MappingsAreDisjoint' /\ MappedByEstablished' /\ AccessSeesOneBus'
  BY <1>1 DEF BusInv, MappingsAreDisjoint, MappedByEstablished, AccessSeesOneBus
<1>4. BusIsOnRecord'
  <2> SUFFICES ASSUME NEW e \in segments', conn[e.mem] = "serving"
               PROVE  [start |-> e.start, size |-> e.size] \in mapped'[e.mem]
    BY <1>1 DEF BusIsOnRecord
  <2>1. e.mem \in Conn /\ e.start \in Nat
    BY <1>1 DEF BusInv, TypeOK, Mapping
  <2>2. [start |-> e.start, size |-> e.size] \in mapped[e.mem]
    BY <1>1 DEF BusInv, BusIsOnRecord
  <2>3. e.start < r.start \/ e.start >= End(r)
    BY <1>1 DEF Remaining
  <2>r. r \in [start : Nat, size : Nat \ {0}]
    BY RegionAssumption
  <2>s. e.start # r.start
    BY <2>1, <2>3, <2>r DEF End
  <2>4. [start |-> e.start, size |-> e.size] # r
    BY <2>s
  <2> QED
    BY <1>1, <2>1, <2>2, <2>4 DEF BusInv, TypeOK
<1> QED
  BY <1>2, <1>3, <1>4 DEF BusInv

\* A bulk access goes on from where its last chunk ended, on the bus it began with.
LEMMA AccessBus ==
    ASSUME BusInv,
           \/ \E a \in 0 .. BusSize, n \in 1 .. MaxLength : BeginAccess(a, n)
           \/ AccessChunk \/ EndAccess
    PROVE  BusInv'
<1>1. UNCHANGED <<conn, ownership, mapped, segments>>
  BY DEF BeginAccess, AccessChunk, EndAccess
<1>2. MappingsAreDisjoint' /\ BusIsOnRecord' /\ MappedByEstablished'
  BY <1>1 DEF BusInv, MappingsAreDisjoint, BusIsOnRecord, MappedByEstablished
<1>3. CASE EndAccess
  BY <1>1, <1>2, <1>3 DEF EndAccess, BusInv, TypeOK, AccessSeesOneBus, ownership
<1>4. ASSUME NEW a \in 0 .. BusSize, NEW n \in 1 .. MaxLength, BeginAccess(a, n)
      PROVE  TypeOK' /\ AccessSeesOneBus'
  <2>1. io' = [bus |-> segments, addr |-> a, len |-> n, got |-> <<>>]
    BY <1>4 DEF BeginAccess
  <2>2. TypeOK'
    BY <1>1, <2>1, BusSizeAssumption, LimitsAssumption DEF BusInv, TypeOK, ownership
  <2>3. AccessSeesOneBus'
    BY <2>1 DEF BusInv, MappingsAreDisjoint, AccessSeesOneBus
  <2> QED
    BY <2>2, <2>3
<1>5. CASE AccessChunk
  <2> DEFINE next == io.addr + Len(io.got)
             left == io.len - Len(io.got)
             chunk == Chunk(io.bus, next, left)
  <2>1. io # None /\ Len(io.got) < io.len /\ io' = [io EXCEPT !.got = @ \o chunk]
    BY <1>5 DEF AccessChunk
  <2>2. /\ io \in [bus : SUBSET Mapping, addr : Nat, len : Nat, got : Seq(Byte)]
        /\ Len(io.got) \in Nat
    BY <2>1 DEF BusInv, TypeOK
  <2>3. next \in Nat /\ left \in Nat \ {0}
    BY <2>1, <2>2
  <2>4. Disjoint(io.bus)
    BY <2>1 DEF BusInv, AccessSeesOneBus, Disjoint
  <2>5. /\ chunk \in Seq(Byte) /\ Len(chunk) \in 1 .. left
        /\ \A i \in 1 .. Len(chunk) : chunk[i] = Read(io.bus, next + i - 1, 1)[1]
    BY <2>2, <2>3, <2>4, ChunkReads
  <2>6. /\ io'.bus = io.bus /\ io'.addr = io.addr /\ io'.len = io.len
        /\ io'.got = io.got \o chunk
    BY <2>1, <2>2
  <2> HIDE DEF chunk
  <2>7. /\ io'.got \in Seq(Byte) /\ Len(io'.got) = Len(io.got) + Len(chunk)
        /\ \A i \in 1 .. Len(io.got) + Len(chunk) : io'.got[i] =
              IF i <= Len(io.got) THEN io.got[i] ELSE chunk[i - Len(io.got)]
    BY <2>2, <2>5, <2>6, ConcatProperties
  <2>8. TypeOK'
    <3>1. io' \in [bus : SUBSET Mapping, addr : Nat, len : Nat, got : Seq(Byte)]
      BY <2>1, <2>2, <2>6, <2>7
    <3>2. Len(io'.got) <= io'.len
      BY <2>2, <2>5, <2>6, <2>7
    <3> QED
      BY <1>1, <3>1, <3>2 DEF BusInv, TypeOK, ownership
  <2>9. ASSUME NEW i \in 1 .. Len(io'.got)
        PROVE  io'.got[i] = Read(io'.bus, io'.addr + i - 1, 1)[1]
    <3>1. CASE i <= Len(io.got)
      <4>1. i \in 1 .. Len(io.got) /\ io'.got[i] = io.got[i]
        BY <2>2, <2>5, <2>7, <3>1
      <4> QED
        BY <2>1, <2>6, <4>1 DEF BusInv, AccessSeesOneBus
    <3>2. CASE i > Len(io.got)
      <4> DEFINE k == i - Len(io.got)
      <4>i. i \in 1 .. Len(io.got) + Len(chunk)
        BY <2>7
      <4>k. k \in 1 .. Len(chunk)
        BY <2>2, <2>5, <3>2, <4>i
      <4>1. k \in 1 .. Len(chunk) /\ io'.got[i] = chunk[k]
        BY <2>2, <2>7, <3>2, <4>i, <4>k
      <4>2. next + k - 1 = io'.addr + i - 1
        BY <2>2, <2>6, <2>7
      <4> QED
        BY <2>5, <2>6, <4>1, <4>2
    <3> QED
      BY <2>2, <2>5, <2>7, <3>1, <3>2
  <2> QED
    BY <1>2, <2>4, <2>6, <2>8, <2>9 DEF BusInv, AccessSeesOneBus, Disjoint
<1> QED
  BY <1>2, <1>3, <1>4, <1>5 DEF BusInv

\* Connections that come, change hands and end leave the bus alone.
LEMMA HandsBus ==
    ASSUME BusInv,
           \/ \E c \in Conn : Establish(c) \/ Claim(c) \/ Commit(c) \/ Disconnect(c)
           \/ Reclaim
    PROVE  BusInv'
<1>1. ASSUME NEW c \in Conn, Establish(c)
      PROVE  BusInv'
  <2>1. /\ conn[c] = "slot" /\ conn' = [conn EXCEPT ![c] = "serving"]
        /\ UNCHANGED <<ownership, mapped, segments, io>>
    BY <1>1 DEF Establish
  <2>2. TypeOK' /\ MappingsAreDisjoint' /\ AccessSeesOneBus'
    BY <2>1 DEF BusInv, TypeOK, MappingsAreDisjoint, AccessSeesOneBus, ownership
  <2>3. \A e \in segments : e.mem \in Conn /\ e.mem # c
    BY <2>1 DEF BusInv, TypeOK, Mapping, MappedByEstablished
  <2>4. BusIsOnRecord' /\ MappedByEstablished'
    BY <2>1, <2>3 DEF BusInv, TypeOK, BusIsOnRecord, MappedByEstablished
  <2> QED
    BY <2>2, <2>4 DEF BusInv
<1>2. ASSUME TypeOK', UNCHANGED <<conn, mapped, segments, io>>
      PROVE  BusInv'
  BY <1>2 DEF BusInv, MappingsAreDisjoint, BusIsOnRecord, MappedByEstablished,
              AccessSeesOneBus
<1>3. ASSUME NEW c \in Conn, Claim(c) \/ Commit(c)
      PROVE  BusInv'
  <2>1. TypeOK'
    BY <1>3 DEF Claim, Commit, Owning!Claim, Owning!HandOver, Owning!Receive, BusInv, TypeOK
  <2> QED
    BY <1>2, <1>3, <2>1 DEF Claim, Commit
<1>4. CASE Reclaim
  <2>1. TypeOK'
    BY <1>4 DEF Reclaim, Owning!GiveBack, Owning!Receive, BusInv, TypeOK
  <2> QED
    BY <1>2, <1>4, <2>1 DEF Reclaim
<1>5. ASSUME NEW c \in Conn, Disconnect(c)
      PROVE  BusInv'
  <2>1. /\ conn[c] = "serving" /\ conn' = [conn EXCEPT ![c] = "gone"]
        /\ mapped' = [mapped EXCEPT ![c] = {}]
        /\ UNCHANGED <<segments, io>>
    BY <1>5 DEF Disconnect
  <2>2. /\ owner' \in Conn \cup {NoOwner} /\ prev' \in Conn \cup {NoOwner}
        /\ epoch' \in Nat /\ line' \in Conn \cup {None}
    BY <1>5 DEF Disconnect, Owning!GiveBack, Owning!Inherit, Owning!Release, Owning!Receive,
                ownership, BusInv, TypeOK
  <2>3. TypeOK'
    BY <2>1, <2>2 DEF BusInv, TypeOK
  <2>4. MappingsAreDisjoint' /\ AccessSeesOneBus'
    BY <2>1 DEF BusInv, MappingsAreDisjoint, AccessSeesOneBus
  <2>5. \A e \in segments : e.mem \in Conn
    BY DEF BusInv, TypeOK, Mapping
  <2>6. BusIsOnRecord' /\ MappedByEstablished'
    BY <2>1, <2>5 DEF BusInv, TypeOK, BusIsOnRecord, MappedByEstablished
  <2> QED
    BY <2>3, <2>4, <2>6 DEF BusInv
<1> QED
  BY <1>1, <1>3, <1>4, <1>5

\* Every step preserves the invariant.
LEMMA NextBus ==
    ASSUME BusInv, [Next]_vars
    PROVE  BusInv'
<1>1. CASE UNCHANGED vars
  BY <1>1 DEF vars, ownership, BusInv, TypeOK, MappingsAreDisjoint, BusIsOnRecord,
              MappedByEstablished, AccessSeesOneBus
<1>2. CASE Next
  BY <1>2, HandsBus, DmaMapBus, DmaUnmapBus, AccessBus DEF Next
<1> QED
  BY <1>1, <1>2

\* The DMA bus keeps its invariant: the mappings that DynamicBus publishes are disjoint,
\* those of live connections are in Ownership::mapped, only established connections
\* have any, and a bulk access has delivered what single reads of its bus deliver.
THEOREM BusInvariant == Spec => []BusInv
<1>1. Init => BusInv
  BY InitBus
<1>2. BusInv /\ [Next]_vars => BusInv'
  BY NextBus
<1> QED
  BY <1>1, <1>2, PTL DEF Spec

-----------------------------------------------------------------------------
(* The properties *)

\* What is on the bus stays disjoint, in whatever order VMMs map, unmap, depart and
\* take over: DynamicBus::add and remove_range never publish two memories for an address.
THEOREM Disjointness == Spec => []MappingsAreDisjoint
<1>1. BusInv => MappingsAreDisjoint
  BY DEF BusInv
<1> QED
  BY <1>1, BusInvariant, PTL

\* The record the hand-over decides by covers what its connection has on the bus.
THEOREM RecordCoversBus == Spec => []BusIsOnRecord
<1>1. BusInv => BusIsOnRecord
  BY DEF BusInv
<1> QED
  BY <1>1, BusInvariant, PTL

\* BulkRequestIterator cuts an access at the borders of mappings and loses or repeats
\* nothing, on the bus that DynamicBus::read_bulk loaded.
THEOREM AccessIsWhole == Spec => []AccessSeesOneBus
<1>1. BusInv => AccessSeesOneBus
  BY DEF BusInv
<1> QED
  BY <1>1, BusInvariant, PTL

\* A mapping leaves the bus of an owned device only by an unmap of the owner or by
\* a new mapping at its start, whatever dma_unmap finds on record; the proof needs the mappings to be disjoint, as a map
\* that repeats an existing one must not remove another one with it.
THEOREM LeavingByRight == Spec => MappingsLeaveByRight
<1> DEFINE Leaves(m) ==
        \/ \E r \in Region :
              DmaUnmap(owner, r) /\ m.start >= r.start /\ m.start < End(r)
        \/ \E n \in segments' \ segments : n.start = m.start
<1>1. ASSUME BusInv, NEW c \in Conn, NEW r \in Region, DmaMap(c, r),
             NEW m \in segments \ segments'
      PROVE  Leaves(m)
  <2> DEFINE new == [start |-> r.start, size |-> r.size, mem |-> c]
  <2>1. segments' = Kept(r) \cup {new} /\ new.start = r.start /\ new.size = r.size
    BY <1>1 DEF DmaMap
  <2>2. m.start = r.start /\ m # new
    BY <2>1 DEF Kept
  <2>r. r \in [start : Nat, size : Nat \ {0}]
    BY RegionAssumption
  <2>m. m \in Mapping
    BY <1>1 DEF BusInv, TypeOK
  <2>3. Overlaps(m, new.start, new.size)
    BY <2>1, <2>2, <2>r, <2>m DEF Overlaps, End, Mapping
  <2>4. new \notin segments
    BY <1>1, <2>2, <2>3 DEF BusInv, MappingsAreDisjoint
  <2> QED
    BY <2>1, <2>2, <2>4
<1>2. ASSUME BusInv, NEW c \in Conn, NEW r \in Region, DmaUnmap(c, r), owner # NoOwner,
             NEW m \in segments \ segments'
      PROVE  Leaves(m)
  <2>1. owner = c /\ segments' = Remaining(r)
    BY <1>2 DEF DmaUnmap, IsStale
  <2>2. m.start \in Nat /\ r.start \in Nat /\ End(r) \in Nat
    BY <1>2, RegionAssumption DEF BusInv, TypeOK, Mapping, End
  <2>3. m.start >= r.start /\ m.start < End(r)
    BY <1>2, <2>1, <2>2 DEF Remaining
  <2> QED
    BY <1>2, <2>1, <2>3
<1>3. ASSUME BusInv, [Next]_vars, owner # NoOwner, NEW m \in segments \ segments'
      PROVE  Leaves(m)
  BY <1>1, <1>2, <1>3
     DEF Next, vars, Establish, Claim, Commit, Reclaim, Disconnect, BeginAccess, AccessChunk,
         EndAccess
<1>4. BusInv /\ [Next]_vars =>
         [owner # NoOwner => \A m \in segments \ segments' :
            \/ \E r \in Region :
                  DmaUnmap(owner, r) /\ m.start >= r.start /\ m.start < End(r)
            \/ \E n \in segments' \ segments : n.start = m.start]_vars
  BY <1>3
<1> QED
  BY <1>4, BusInvariant, PTL DEF Spec, MappingsLeaveByRight

=============================================================================
