------------------------------- MODULE DmaBus -------------------------------
(***************************************************************************)
(* Guest memory behind the shared controller: the DMA bus that all vfio-   *)
(* user connections map into (dynamic_bus.rs; dma_map and dma_unmap of     *)
(* xhci_backend.rs and shared_backend.rs), the record of mapped ranges     *)
(* that the hand-over decides by, and a device worker that reads through   *)
(* the bus meanwhile.  Who owns the device changes as DeviceOwnership      *)
(* allows, which is what module Handover does.                             *)
(*                                                                         *)
(* Requests run under the `ownership` mutex, so each is one action.  The   *)
(* workers do not take it: an access loads the published bus once and then *)
(* works chunk by chunk.                                                   *)
(***************************************************************************)
EXTENDS Bus, FiniteSets

CONSTANTS
    Conn, NoOwner, None,
    Region,       \* ranges the VMMs map and unmap
    Deferred,    \* binding mode: a commit does without the memory check
    MaxLength,   \* bound: addresses of one bulk access
    MaxEpoch     \* bound: ownership changes explored

ASSUME RegionAssumption == Region \subseteq [start : Nat, size : Nat \ {0}]
ASSUME OwnerAssumption == NoOwner \notin Conn /\ None \notin Conn
ASSUME LimitsAssumption == MaxLength \in Nat /\ MaxEpoch \in Nat /\ Deferred \in BOOLEAN

Mapping == [start : Nat, size : Nat \ {0}, mem : Conn]

VARIABLES
    conn,       \* "slot", "serving", "gone"
    owner, prev, epoch, line,   \* DeviceOwnership; line: whose line is installed
    mapped,     \* Ownership::mapped: ranges on record for each connection
    segments,   \* DynamicBus: the mappings, and the bus built from them
    io          \* bulk access of a worker under way, or None

ownership == <<owner, prev, epoch, line>>
vars == <<conn, ownership, mapped, segments, io>>

Owning == INSTANCE DeviceOwnership WITH
    holder <- owner, fallback <- prev, generation <- epoch, signal <- line

Byte == {Ones} \cup (Mapping \X Nat)

TypeOK ==
    /\ conn \in [Conn -> {"slot", "serving", "gone"}]
    /\ owner \in Conn \cup {NoOwner}
    /\ prev \in Conn \cup {NoOwner}
    /\ epoch \in Nat
    /\ line \in Conn \cup {None}
    /\ mapped \in [Conn -> SUBSET Region]
    /\ segments \subseteq Mapping
    /\ io # None =>
          /\ io \in [bus : SUBSET Mapping, addr : Nat, len : Nat, got : Seq(Byte)]
          /\ Len(io.got) <= io.len

Init ==
    /\ conn = [c \in Conn |-> "slot"]
    /\ Owning!AInit
    /\ mapped = [c \in Conn |-> {}]
    /\ segments = {}
    /\ io = None

-----------------------------------------------------------------------------
(* Requests of the connections *)

\* touch
Establish(c) ==
    /\ conn[c] = "slot"
    /\ conn' = [conn EXCEPT ![c] = "serving"]
    /\ UNCHANGED <<ownership, mapped, segments, io>>

\* Mutant: whatever is in the way is replaced, wherever it starts.
Kept_ReplacesAll(r) == {m \in segments : ~Overlaps(m, r.start, r.size)}

\* DynamicBus::add keeps the mappings that start elsewhere.
Kept(r) == {m \in segments : m.start # r.start}

\* dma_map; a mapping that is refused, by the bus or before, changes nothing.
DmaMap(c, r) ==
    LET m == [start |-> r.start, size |-> r.size, mem |-> c]
    IN  /\ conn[c] = "serving"
        /\ CanAdd(Kept(r), m)
        /\ segments' = Kept(r) \cup {m}
        /\ mapped' = [mapped EXCEPT ![c] = @ \cup {r}]
        /\ UNCHANGED <<conn, ownership, io>>

\* is_stale: some other connection owns the device.
IsStale(c) == owner # c /\ owner # NoOwner

\* DynamicBus::remove_range goes by where a mapping starts.
Remaining(r) == {m \in segments : m.start < r.start \/ m.start >= End(r)}

\* Mutant: the record is cleared although the unmap was ignored.
DmaUnmap_Forgets(c, r) ==
    /\ conn[c] = "serving"
    /\ segments' = IF IsStale(c) THEN segments ELSE Remaining(r)
    /\ mapped' = [mapped EXCEPT ![c] = @ \ {r}]
    /\ UNCHANGED <<conn, ownership, io>>

\* dma_unmap of any range, on record or not; ignored from a stale client.
DmaUnmap(c, r) ==
    /\ conn[c] = "serving"
    /\ ~IsStale(c)
    /\ segments' = Remaining(r)
    /\ mapped' = [mapped EXCEPT ![c] = @ \ {r}]
    /\ UNCHANGED <<conn, ownership, io>>

-----------------------------------------------------------------------------
(* Changes of hands *)

\* ranges_cover
Covers(have, needed) ==
    \A r \in needed : \E h \in have : h.start <= r.start /\ End(r) <= End(h)

\* SetIrqs on an unowned device.
Claim(c) ==
    /\ epoch < MaxEpoch /\ conn[c] = "serving"
    /\ Owning!Claim(c)
    /\ UNCHANGED <<conn, mapped, segments, io>>

\* handover_commit; the candidate's connection may have ended meanwhile.
Commit(c) ==
    /\ epoch < MaxEpoch /\ conn[c] # "slot" /\ c # owner
    /\ owner # NoOwner
    /\ Deferred \/ Covers(mapped[c], mapped[owner])
    /\ Owning!HandOver(c)
    /\ UNCHANGED <<conn, mapped, segments, io>>

\* handover_reclaim
Reclaim ==
    /\ epoch < MaxEpoch /\ prev # NoOwner
    /\ conn[prev] = "serving"
    /\ Owning!GiveBack
    /\ UNCHANGED <<conn, mapped, segments, io>>

\* disconnect: the record goes, the mappings stay.
Disconnect(c) ==
    /\ conn[c] = "serving"
    /\ conn' = [conn EXCEPT ![c] = "gone"]
    /\ mapped' = [mapped EXCEPT ![c] = {}]
    /\ \/ owner # c /\ UNCHANGED ownership
       \/ /\ owner = c /\ epoch < MaxEpoch
          /\ \/ prev # NoOwner /\ conn'[prev] = "serving" /\ Owning!GiveBack
             \/ \E d \in Conn \ {c} :
                   conn[d] # "slot" /\ Covers(mapped[d], mapped[c]) /\ Owning!Inherit(d)
             \/ Owning!Release
    /\ UNCHANGED <<segments, io>>

-----------------------------------------------------------------------------
(* A worker of the device (endpoint, command ring, slot manager) *)

\* DynamicBus::read_bulk loads the bus.  Bound: accesses that end within the bus.
BeginAccess(a, n) ==
    /\ io = None /\ a + n <= BusSize
    /\ io' = [bus |-> segments, addr |-> a, len |-> n, got |-> <<>>]
    /\ UNCHANGED <<conn, ownership, mapped, segments>>

\* Mutant: every chunk is taken from the bus of the moment.
AccessChunk_Reloads ==
    /\ io # None /\ Len(io.got) < io.len
    /\ io' = [io EXCEPT !.got =
           @ \o Chunk(segments, io.addr + Len(@), io.len - Len(@))]
    /\ UNCHANGED <<conn, ownership, mapped, segments>>

\* Bus::read_bulk, one turn of its for_each.
AccessChunk ==
    /\ io # None /\ Len(io.got) < io.len
    /\ io' = [io EXCEPT !.got =
           @ \o Chunk(io.bus, io.addr + Len(@), io.len - Len(@))]
    /\ UNCHANGED <<conn, ownership, mapped, segments>>

EndAccess ==
    /\ io # None /\ Len(io.got) = io.len
    /\ io' = None
    /\ UNCHANGED <<conn, ownership, mapped, segments>>

-----------------------------------------------------------------------------
Next ==
    \/ \E c \in Conn :
          \/ Establish(c) \/ Claim(c) \/ Commit(c) \/ Disconnect(c)
          \/ \E r \in Region : DmaMap(c, r) \/ DmaUnmap(c, r)
    \/ Reclaim
    \/ \E a \in 0 .. BusSize, n \in 1 .. MaxLength : BeginAccess(a, n)
    \/ AccessChunk
    \/ EndAccess

Spec == Init /\ [][Next]_vars

-----------------------------------------------------------------------------
(* Properties *)

\* The mappings on the bus do not overlap, whatever the VMMs that come and go map
\* and in which order; so no address has two memories behind it, and residue of an
\* earlier connection never shadows a mapping that was accepted later.
MappingsAreDisjoint ==
    \A m, n \in segments : m # n => ~Overlaps(m, n.start, n.size)

\* What a live connection has on the bus is on its record: the memory check of a
\* hand-over never refuses a candidate for memory that it has in fact published.
BusIsOnRecord ==
    \A m \in segments :
        conn[m.mem] = "serving" => [start |-> m.start, size |-> m.size] \in mapped[m.mem]

\* While the device is owned, a mapping leaves the bus only because the owner unmaps
\* a range in which it starts (one it has on record or not, and whoever mapped it), or
\* because a VMM maps anew at its very start address: neither a departing VMM nor one
\* that maps something else takes memory away from the device.
MappingsLeaveByRight ==
    [][owner # NoOwner =>
         \A m \in segments \ segments' :
            \/ \E r \in Region :
                  DmaUnmap(owner, r) /\ m.start >= r.start /\ m.start < End(r)
            \/ \E n \in segments' \ segments : n.start = m.start]_vars

\* A bulk access delivers, byte by byte, what single reads of one and the same bus
\* deliver, the one that was published when it began (so its mappings are disjoint),
\* across their borders and the gaps between them, whatever is mapped meanwhile.
AccessSeesOneBus ==
    io # None =>
        /\ \A i \in 1 .. Len(io.got) : io.got[i] = Read(io.bus, io.addr + i - 1, 1)[1]
        /\ \A m, n \in io.bus : m # n => ~Overlaps(m, n.start, n.size)

=============================================================================
