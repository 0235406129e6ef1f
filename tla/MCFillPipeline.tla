--------------------------- MODULE MCFillPipeline ---------------------------
(* Instances of FillPipeline for TLC. *)
EXTENDS FillPipeline

CONSTANTS i1, i2

\* Two notionals that fit in the budget of 10 one at a time only.
MCAmountUsd == [i \in Intents |-> IF i = i1 THEN 7 ELSE 4]
=============================================================================
