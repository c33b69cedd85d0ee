----------------------------- MODULE MCEndpoint -----------------------------
(* Rings that the TRBs of a run go round: a control TD takes up to three      *)
(* slots, and one slot stays free.                                            *)
EXTENDS Endpoint

MCRingSize == [k \in Kinds |-> IF k = "control" THEN 5 ELSE 4]
MCMaxTrbs  == [k \in Kinds |-> IF k = "control" THEN 5 ELSE 4]

=============================================================================
