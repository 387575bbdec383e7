----------------------------- MODULE MCEvaluator -----------------------------
(***************************************************************************)
(* Instances of Evaluator for TLC, with the code's default times.          *)
(***************************************************************************)
EXTENDS Evaluator

Good == [json |-> TRUE, severity |-> "info", blank |-> FALSE,
         confidence |-> "low", grounding |-> "stated"]

MCAnswer == {Good, [Good EXCEPT !.json = FALSE], [Good EXCEPT !.blank = TRUE],
             [Good EXCEPT !.confidence = "sure"]}
=============================================================================
