--------------------------- MODULE MCModelBuilding ---------------------------
(* ModelBuilding for TLC; its constants are given in the configurations.    *)
EXTENDS ModelBuilding
==============================================================================
