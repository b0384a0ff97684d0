--------------------------- MODULE AbstractQueue ---------------------------
(***************************************************************************)
(* What the Store trait promises the users of a queue, without tables,     *)
(* workers, leases or clocks: a job waits, is run by one run at a time,    *)
(* and every run that is over has left exactly one result, which decides   *)
(* whether the job waits again or has ended for good.                      *)
(*                                                                         *)
(* Lifecycle implements this (its ImplementsQueue).                        *)
(***************************************************************************)
EXTENDS Naturals

CONSTANTS
  Jobs,   \* job ids
  Again,  \* the results after which the job waits for another run
  Ending  \* the results that end the job

VARIABLES
  phase,    \* per job: "none", "waiting", "running", "ended" or "removed"
  started,  \* per job: the number of its runs
  results   \* per job: the results of its runs, each under its run number

vars == <<phase, started, results>>

Result(n, outcome) == [run_no |-> n, outcome |-> outcome]

Init ==
  /\ phase = [j \in Jobs |-> "none"]
  /\ started = [j \in Jobs |-> 0]
  /\ results = [j \in Jobs |-> {}]

Submit(j) ==
  /\ phase[j] = "none"
  /\ phase' = [phase EXCEPT ![j] = "waiting"]
  /\ UNCHANGED <<started, results>>

Start(j) ==
  /\ phase[j] = "waiting"
  /\ phase' = [phase EXCEPT ![j] = "running"]
  /\ started' = [started EXCEPT ![j] = @ + 1]
  /\ UNCHANGED results

(* The run under way ends: its result is recorded, the first and only one  *)
(* of this run.                                                            *)
Conclude(j, outcome) ==
  /\ phase[j] = "running"
  /\ \A r \in results[j] : r.run_no < started[j]
  /\ results' = [results EXCEPT ![j] = @ \cup {Result(started[j], outcome)}]
  /\ phase' = [phase EXCEPT ![j] =
                 IF outcome \in Ending THEN "ended" ELSE "waiting"]
  /\ UNCHANGED started

(* Ended jobs are removed with their results. *)
Remove(S) ==
  /\ S # {}
  /\ \A j \in S : phase[j] = "ended"
  /\ phase' = [j \in Jobs |-> IF j \in S THEN "removed" ELSE phase[j]]
  /\ started' = [j \in Jobs |-> IF j \in S THEN 0 ELSE started[j]]
  /\ results' = [j \in Jobs |-> IF j \in S THEN {} ELSE results[j]]

Next ==
  \/ \E j \in Jobs : Submit(j) \/ Start(j)
  \/ \E j \in Jobs, outcome \in Again \cup Ending : Conclude(j, outcome)
  \/ \E S \in SUBSET Jobs : Remove(S)

Spec == Init /\ [][Next]_vars
=============================================================================
