-------------------------- MODULE MCTensorParallel --------------------------
(* TensorParallel for TLC; its constants are given in the configurations.   *)
EXTENDS TensorParallel
=============================================================================
