-------------------------- MODULE MCInferenceEngine --------------------------
(* Instances of InferenceEngine for TLC.                                    *)
EXTENDS InferenceEngine, TLC

CONSTANTS r1, r2, r3

LimitOneOrNone == {1, -1}
NoLimit        == {-1}
RequestSymmetry == Permutations(Requests)
=============================================================================
