---------------------------- MODULE MCInterrupter ----------------------------
(***************************************************************************)
(* Instances of Interrupter for TLC: three slots in two segments.          *)
(***************************************************************************)
EXTENDS Interrupter

MCSegSize == [s \in 0 .. 1 |-> IF s = 0 THEN 2 ELSE 1]

=============================================================================
