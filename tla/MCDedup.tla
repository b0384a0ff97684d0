------------------------------ MODULE MCDedup ------------------------------
(***************************************************************************)
(* Dedup for TLC: submissions of one key, and one without a key.           *)
(***************************************************************************)
EXTENDS Dedup, TLC

CONSTANTS s0, s1, s2, s3, k1

IdentityNames == {"unknown:1"}

OneKeyless  == [s \in Submissions |-> IF s = s0 THEN None ELSE k1]
AllDecisions == {"Keep", "Replace", "With", "Independent"}

SubmissionSymmetry == Permutations({s1, s2, s3})
=============================================================================
