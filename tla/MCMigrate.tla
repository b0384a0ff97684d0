----------------------------- MODULE MCMigrate -----------------------------
(***************************************************************************)
(* Migrate for TLC: two processes, the first with a pool of two.           *)
(***************************************************************************)
EXTENDS Migrate

CONSTANTS p1, p2, c1, c2, c3

Pools == [s \in Sessions |-> IF s = c3 THEN p2 ELSE p1]
=============================================================================
