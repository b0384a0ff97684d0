------------------------------ MODULE MCWakeup ------------------------------
(***************************************************************************)
(* Wakeup for TLC.                                                         *)
(***************************************************************************)
EXTENDS Wakeup, TLC

CONSTANTS j1, j2, j3

JobSymmetry == Permutations(Jobs)
=============================================================================
