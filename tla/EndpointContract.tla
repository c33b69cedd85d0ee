--------------------------- MODULE EndpointContract ---------------------------
(***************************************************************************)
(* What an endpoint promises to the slot and command workers, and all that *)
(* module Controller assumes of it: requests are answered one at a time; a *)
(* Terminate only by a quiet endpoint, which then has ended; and no worker *)
(* fails out of the quiet state unless its channel was closed or a command *)
(* is what it fails over.                                                  *)
(***************************************************************************)
EXTENDS EndpointStates

CONSTANT None

VARIABLES
    st,    \* a member of States
    ask    \* the request that waits for an answer: "command", "terminate", or None

cvars == <<st, ask>>

CInit == st = "quiet" /\ ask = None

Alive == st \in {"quiet", "busy"}

Doorbell == Alive /\ st' \in Rung(st) /\ UNCHANGED ask

Ask(op) == Alive /\ ask = None /\ ask' = op /\ UNCHANGED st

\* A command is answered, or kills the worker, which drops it.
Answer == Alive /\ ask = "command" /\ ask' = None /\ st' \in Commanded(st)

Fail == ask = "command" /\ st' \in Failed(st) /\ UNCHANGED ask

\* A Terminate that is answered, and one that is dropped.
End  == ask = "terminate" /\ Answers(st) /\ ask' = None /\ st' = "ended"
Drop == ask = "terminate" /\ Alive /\ ~Answers(st) /\ ask' = None /\ st' = "left"

Settle == st' \in Settled(st) /\ UNCHANGED ask

CNext ==
    \/ Doorbell
    \/ \E op \in {"command", "terminate"} : Ask(op)
    \/ Answer
    \/ Fail
    \/ End
    \/ Drop
    \/ Settle

CSpec == CInit /\ [][CNext]_cvars

=============================================================================
