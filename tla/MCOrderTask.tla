---------------------------- MODULE MCOrderTask ----------------------------
(***************************************************************************)
(* OrderTask for TLC: a constant that a configuration cannot write.        *)
(***************************************************************************)
EXTENDS OrderTaskSums, OrderTaskClaims

SignedSizes == {-1, 2}
=============================================================================
