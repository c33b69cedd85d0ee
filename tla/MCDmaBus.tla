------------------------------ MODULE MCDmaBus ------------------------------
(***************************************************************************)
(* Regions for TLC: two with the same start, one that overlaps the longer  *)
(* and touches the shorter of them, and one that reaches past the bus.     *)
(***************************************************************************)
EXTENDS DmaBus, TLC

R(a, n) == [start |-> a, size |-> n]
MCRegion == {R(0, 2), R(0, 1), R(1, 2), R(2, 3)}

\* Connections are interchangeable.
Symmetry == Permutations(Conn)

=============================================================================
