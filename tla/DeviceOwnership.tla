--------------------------- MODULE DeviceOwnership ---------------------------
(***************************************************************************)
(* What the two-phase hand-over promises to the VMMs, as an abstract state *)
(* machine: at most one connection holds the device; every change of hands *)
(* is a new generation; the interrupt line that is installed while the     *)
(* device is held is the holder's own, or none; and the device goes back   *)
(* only to the connection the last commit took it from.                    *)
(***************************************************************************)
EXTENDS Naturals

CONSTANTS Conn, NoOwner, None

VARIABLES
    holder,      \* who holds the device, or NoOwner
    fallback,    \* who may get it back, or NoOwner
    generation,  \* number of changes of hands so far
    signal       \* whose interrupt line is installed, or None

avars == <<holder, fallback, generation, signal>>

AInit ==
    /\ holder = NoOwner
    /\ fallback = NoOwner
    /\ generation = 0
    /\ signal = None

\* c receives the device together with its own line.
Receive(c) ==
    /\ holder' = c
    /\ signal' = c
    /\ generation' = generation + 1

\* A free device goes to the first connection that registers.
Claim(c) == holder = NoOwner /\ Receive(c) /\ UNCHANGED fallback

\* A commit: the holder until now becomes the one that may get it back.
HandOver(c) == holder # NoOwner /\ Receive(c) /\ fallback' = holder

\* The device returns to the connection it was taken from.
GiveBack == fallback # NoOwner /\ Receive(fallback) /\ fallback' = NoOwner

\* The holder is gone and a waiting connection inherits, with nobody behind it.
Inherit(c) == holder # NoOwner /\ Receive(c) /\ fallback' = NoOwner

\* The holder is gone and nobody takes over; the old line is left installed.
Release ==
    /\ holder # NoOwner
    /\ holder' = NoOwner
    /\ fallback' = NoOwner
    /\ generation' = generation + 1
    /\ UNCHANGED signal

\* The holder installs or removes its line.
Rewire ==
    /\ holder # NoOwner
    /\ signal' \in {holder, None}
    /\ UNCHANGED <<holder, fallback, generation>>

ANext ==
    \/ \E c \in Conn : Claim(c) \/ HandOver(c) \/ Inherit(c)
    \/ GiveBack
    \/ Release
    \/ Rewire

ASpec == AInit /\ [][ANext]_avars

=============================================================================
