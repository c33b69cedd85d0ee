--------------------------------- MODULE Bus ---------------------------------
(***************************************************************************)
(* The memory bus (device/bus.rs, device/interval.rs) with segments of     *)
(* guest memory on it (memory_segment.rs).                                 *)
(*                                                                         *)
(* A mapping is a range of bus addresses and the VMM whose memory lies     *)
(* behind it.  The mappings of a bus are disjoint, so that their order in  *)
(* the Vec does not matter and a bus is a set.  What an access delivers is *)
(* not bytes but where they come from: a mapping and the offset in its     *)
(* memory, or Ones where the default or the error device answers.  Writes  *)
(* are routed like reads.                                                  *)
(***************************************************************************)
EXTENDS Integers, Sequences

CONSTANTS
    BusSize,   \* addresses of the bus: u64::MAX for the DMA bus
    Ones       \* all bits set

ASSUME BusSizeAssumption == BusSize \in Nat

End(m) == m.start + m.size

\* Interval::contains_interval and Interval::overlaps for the n addresses from a on.
Contains(m, a, n) == m.start <= a /\ a + n <= End(m)
Overlaps(m, a, n) == m.start < a + n /\ a < End(m)

\* Mutant: only the first address of a new range is compared.
CanAdd_StartOnly(bus, m) == End(m) <= BusSize /\ \A e \in bus : ~Contains(e, m.start, 1)

\* Bus::add accepts a mapping inside the bus that overlaps no other.  Its sum does
\* not overflow then, as no address is above BusSize.
CanAdd(bus, m) == End(m) <= BusSize /\ \A e \in bus : ~Overlaps(e, m.start, m.size)

\* The byte of mapping m at bus address a: its offset in the memory segment.
ByteOf(m, a) == <<m, a - m.start>>

\* Bus::read: a request goes to the mapping that claims all of it.  One that is
\* claimed in part, by nobody, or that wraps around, is answered by a default device.
Read(bus, a, n) ==
    LET claiming == {m \in bus : Contains(m, a, n)}
    IN  IF claiming = {} THEN [i \in 1 .. n |-> Ones]
        ELSE LET m == CHOOSE m \in claiming : TRUE
             IN  [i \in 1 .. n |-> ByteOf(m, a + i - 1)]

Smaller(x, y) == IF x < y THEN x ELSE y

\* BulkRequestIterator::next: the rest of a bulk request is served by the mapping
\* that holds its first address, as far as it reaches, or else byte by byte by the
\* default device.
Chunk(bus, a, left) ==
    LET claiming == {m \in bus : Contains(m, a, 1)}
    IN  IF claiming = {} THEN <<Ones>>
        ELSE LET m == CHOOSE m \in claiming : TRUE
             IN  [i \in 1 .. Smaller(left, End(m) - a) |-> ByteOf(m, a + i - 1)]

=============================================================================
