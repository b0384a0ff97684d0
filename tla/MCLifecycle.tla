---------------------------- MODULE MCLifecycle ----------------------------
(***************************************************************************)
(* Lifecycle for TLC.  Both workers write the same claimed_by: worker      *)
(* identities are host:pid, and containers without HOSTNAME are all        *)
(* "unknown:1".  Only the claim epoch then tells two claims apart.         *)
(***************************************************************************)
EXTENDS Lifecycle, TLC

CONSTANTS w1, w2, j1, j2

SharedIdentity == [w \in Workers |-> "unknown:1"]
IdentityNames == {"unknown:1"}

WorkerSymmetry == Permutations(Workers)
=============================================================================
