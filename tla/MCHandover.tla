------------------------------ MODULE MCHandover ------------------------------
(***************************************************************************)
(* Instances of Handover for TLC.                                          *)
(***************************************************************************)
EXTENDS Handover, TLC

\* Connections and regions are interchangeable (safety runs only).
Symmetry == Permutations(Conn) \cup Permutations(Region)

=============================================================================
