------------------------------ MODULE EventQueue ------------------------------
(***************************************************************************)
(* What an event ring is to the driver that reads it: a first-in first-out *)
(* queue of bounded length, in which every event sent since the ring was   *)
(* set up appears once and in order.                                       *)
(***************************************************************************)
EXTENDS Naturals, Sequences

CONSTANT Capacity   \* slots of the ring but one

VARIABLES
    unread,   \* numbers of the events that are there to be read
    sent      \* number of events sent

qvars == <<unread, sent>>

QInit == unread = <<>> /\ sent = 0

Deliver ==
    /\ Len(unread) < Capacity
    /\ unread' = Append(unread, sent + 1) /\ sent' = sent + 1

Read == unread # <<>> /\ unread' = Tail(unread) /\ UNCHANGED sent

\* The controller is reset and the ring given up.
Discard == unread' = <<>> /\ sent' = 0

QSpec == QInit /\ [][Deliver \/ Read \/ Discard]_qvars

=============================================================================
