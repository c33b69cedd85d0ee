---------------------------- MODULE EndpointStates ----------------------------
(***************************************************************************)
(* What an endpoint worker is to the slot that commands it: "quiet" when   *)
(* it would answer a Terminate, "busy" when it would not (a doorbell is on *)
(* its way to it, it looks for TRBs, waits for a completion or deals with  *)
(* it, or is in its error state), "ended" after an answered Terminate,     *)
(* "left" when the slot has given it up and closed its channel, "dead"     *)
(* when its task has failed.                                               *)
(***************************************************************************)

States == {"quiet", "busy", "ended", "left", "dead"}

\* A Terminate that comes now is answered.
Answers(st) == st = "quiet"

\* What a doorbell may make of it.
Rung(st) == IF st = "quiet" THEN {"quiet", "busy"} ELSE {st}

\* What it may be when it answers a stop, a reset or a move of the dequeue pointer.
Commanded(st) == IF st = "busy" THEN {"busy", "quiet"} ELSE {st}

\* What it may become over such a command instead of answering it.
Failed(st) == IF st \in {"quiet", "busy"} THEN {"dead"} ELSE {}

\* What it may become by itself.
Settled(st) == CASE st = "busy" -> {"quiet", "dead"}
                 [] st = "left" -> {"dead"}
                 [] OTHER       -> {}

=============================================================================
