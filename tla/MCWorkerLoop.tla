---------------------------- MODULE MCWorkerLoop ----------------------------
(***************************************************************************)
(* WorkerLoop for TLC: streams of jobs of two kinds in three tiers.        *)
(***************************************************************************)
EXTENDS WorkerLoop, TLC

CONSTANTS t1, t2

ThreeTiers == {"fetch-high", "mail-normal", "fetch-low"}
TwoTiers   == {"mail-normal", "fetch-low"}
KindNames  == {"fetch", "mail"}

MCKindOf == [j \in Jobs |-> IF j = "mail-normal" THEN "mail" ELSE "fetch"]
MCTiersOf ==
  [j \in Jobs |-> CASE j = "fetch-high"  -> {0}
                    [] j = "mail-normal" -> {1}
                    [] j = "fetch-low"   -> {2}]
(* A merge may raise a job by one tier, and a later one lower it again. *)
MergedTiersOf == [j \in Jobs |-> MCTiersOf[j] \cup {p - 1 : p \in MCTiersOf[j] \ {0}}]
WatchedJob == "fetch-low"

NoCaps      == [k \in KindNames |-> None]
FetchCapped == [k \in KindNames |-> IF k = "fetch" THEN 1 ELSE None]
MailCapped  == [k \in KindNames |-> IF k = "mail" THEN 1 ELSE None]

TaskSymmetry == Permutations(Tasks)
=============================================================================
