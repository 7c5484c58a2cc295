------------------------- MODULE MCInferFlowService -------------------------
(* Instances of InferFlowService for TLC.                                   *)
EXTENDS InferFlowService

CONSTANTS r1, r2, r3

LimitOneOrNone  == {1, -1}
NoLimit         == {-1}
=============================================================================
