---------------------------- MODULE MCEvaluation ----------------------------
(* Small instances of Evaluation. *)
EXTENDS Evaluation, TLC

CONSTANTS w1, w2, q1, r1, r2
=============================================================================
