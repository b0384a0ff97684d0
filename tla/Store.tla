------------------------------- MODULE Store -------------------------------
(***************************************************************************)
(* What each SQL statement of the PostgreSQL adapter does to the row it    *)
(* matches: one guard (the WHERE clause) and one row function (the SET     *)
(* clause) per statement, without state of its own.  The modules with      *)
(* state (Lifecycle, Dedup, WorkerLoop) apply these to their jobs table,   *)
(* each application being one transaction.                                 *)
(*                                                                         *)
(* A row carries the columns of {prefix}_jobs that the lifecycle reads or  *)
(* writes.  Time is a natural number on the database's clock.  `carry` is  *)
(* abstracted to its provenance: the run number whose handler produced it, *)
(* 0 for a carry that comes from an enqueue.                               *)
(*                                                                         *)
(* Operators named Faulty... are deliberately wrong variants of the        *)
(* definition that follows them.  Nothing uses them but the mutation tests *)
(* of PROJECT.json.                                                        *)
(***************************************************************************)
EXTENDS Naturals, FiniteSets

CONSTANTS
  None,        \* SQL NULL
  Identities,  \* worker identities ("host:pid")
  MaxInt,      \* largest value of an SQL integer column
  StaleLimit   \* rows one stale scan returns (LIMIT 100 in the code)

ASSUME StoreAssumption ==
  /\ None \notin Nat
  /\ None \notin Identities
  /\ MaxInt \in Nat \ {0}
  /\ StaleLimit \in Nat \ {0}

-----------------------------------------------------------------------------
(* Rows.  "absent" is an id no insert has used yet, "deleted" one whose    *)
(* row cleanup removed; the other four are the stored status values.       *)

Pending   == "pending"
Claimed   == "claimed"
Completed == "completed"
Dead      == "dead"
Stored    == {Pending, Claimed, Completed, Dead}
Terminal  == {Completed, Dead}
Status    == Stored \cup {"absent", "deleted"}

Row == [status           : Status,
        visible_at       : Nat,
        run_count        : 0..MaxInt,
        failure_count    : 0..MaxInt,
        carry            : 0..MaxInt,
        claimed_by       : Identities \cup {None},
        claim_expires_at : Nat \cup {None},
        finished_at      : Nat \cup {None}]

AbsentRow ==
  [status |-> "absent", visible_at |-> 0, run_count |-> 0,
   failure_count |-> 0, carry |-> 0, claimed_by |-> None,
   claim_expires_at |-> None, finished_at |-> None]

DeletedRow == [AbsentRow EXCEPT !.status = "deleted"]

ClearClaim(row) ==
  [row EXCEPT !.claimed_by = None, !.claim_expires_at = None]

(* Rust's i32::saturating_add(1). *)
SaturatingInc(n) == IF n < MaxInt THEN n + 1 ELSE MaxInt

-----------------------------------------------------------------------------
(* Journal entries. *)

JournalOutcome ==
  {"completed", "paused", "retried", "dead",
   "stale-recovered", "released", "merged"}

IsFailure(outcome) == outcome \in {"retried", "dead", "stale-recovered"}

JournalEntry == [run_no : 0..MaxInt, outcome : JournalOutcome]

Entry(n, outcome) == [run_no |-> n, outcome |-> outcome]

-----------------------------------------------------------------------------
(* enqueue: INSERT of a fresh pending row. *)

EnqueuedRow(visible_at) ==
  [AbsentRow EXCEPT !.status = Pending, !.visible_at = visible_at]

(* claim_next: the eligibility gate and the claim stamp.  The statement    *)
(* fails with "integer out of range" on a row whose run_count is MaxInt.   *)

FaultyEligible(row, now) ==
  \/ row.status = Pending /\ row.visible_at <= now
  \/ row.status = Claimed /\ row.claim_expires_at < now

Eligible(row, now) ==
  /\ row.status = Pending
  /\ row.visible_at <= now

FaultyClaimedRow(row, identity, expires) ==
  [row EXCEPT !.status = Claimed, !.claimed_by = identity,
              !.claim_expires_at = expires]

ClaimedRow(row, identity, expires) ==
  [row EXCEPT !.status = Claimed, !.claimed_by = identity,
              !.claim_expires_at = expires, !.run_count = @ + 1]

-----------------------------------------------------------------------------
(* settle: the ownership guard shared by all settlements (and by           *)
(* extend_lease), and the five transitions.                                *)

FaultyHolds(row, identity, run_no) ==
  /\ row.status = Claimed
  /\ row.claimed_by = identity

Holds(row, identity, run_no) ==
  /\ row.status = Claimed
  /\ row.claimed_by = identity
  /\ row.run_count = run_no

Complete(finished_at) ==
  [op |-> "complete", finished_at |-> finished_at]
GiveUp(finished_at, failure_count) ==
  [op |-> "dead", finished_at |-> finished_at,
   failure_count |-> failure_count]
Retry(visible_at, failure_count, carry) ==
  [op |-> "retry", visible_at |-> visible_at,
   failure_count |-> failure_count, carry |-> carry]
Pause(visible_at, carry) ==
  [op |-> "pause", visible_at |-> visible_at, carry |-> carry]
Release(visible_at) ==
  [op |-> "release", visible_at |-> visible_at]

SettledRow(row, s) ==
  LET cleared == ClearClaim(row)
  IN  CASE s.op = "complete" ->
             [cleared EXCEPT !.status = Completed,
                             !.finished_at = s.finished_at]
        [] s.op = "dead" ->
             [cleared EXCEPT !.status = Dead,
                             !.finished_at = s.finished_at,
                             !.failure_count = s.failure_count]
        [] s.op = "retry" ->
             [cleared EXCEPT !.status = Pending,
                             !.visible_at = s.visible_at,
                             !.failure_count = s.failure_count,
                             !.carry = s.carry]
        [] s.op = "pause" ->
             [cleared EXCEPT !.status = Pending,
                             !.visible_at = s.visible_at,
                             !.carry = s.carry]
        [] s.op = "release" ->
             [cleared EXCEPT !.status = Pending,
                             !.visible_at = s.visible_at]

(* journal_outcome_for: the entry a settlement writes. *)
JournalOutcomeFor(s) ==
  CASE s.op = "complete" -> "completed"
    [] s.op = "pause"    -> "paused"
    [] s.op = "retry"    -> "retried"
    [] s.op = "dead"     -> "dead"
    [] s.op = "release"  -> "released"

-----------------------------------------------------------------------------
(* Stale recovery. *)

Expired(row, now) ==
  /\ row.status = Claimed
  /\ row.claim_expires_at < now

FaultyIsStaleBatch(batch, jobs, now) ==
  LET stale == {j \in DOMAIN jobs : Expired(jobs[j], now)}
  IN  /\ batch \subseteq stale
      /\ Cardinality(batch) < StaleLimit

(* find_stale: batch is what SELECT ... ORDER BY claim_expires_at LIMIT    *)
(* StaleLimit may return out of the table jobs.                            *)
IsStaleBatch(batch, jobs, now) ==
  LET stale == {j \in DOMAIN jobs : Expired(jobs[j], now)}
  IN  /\ batch \subseteq stale
      /\ Cardinality(batch) <= StaleLimit
      /\ batch # stale => Cardinality(batch) = StaleLimit
      /\ \A j \in batch, k \in stale \ batch :
            jobs[j].claim_expires_at <= jobs[k].claim_expires_at

FaultyRecoverable(row, run_no, now) ==
  /\ row.status = Claimed
  /\ row.run_count = run_no

(* recover: the WHERE clause re-checks the lease and the epoch. *)
Recoverable(row, run_no, now) ==
  /\ Expired(row, now)
  /\ row.run_count = run_no

FaultyRecoveredRow(row, visible_at, failure_count) ==
  [ClearClaim(row) EXCEPT !.status = Pending, !.visible_at = visible_at]

RecoveredRow(row, visible_at, failure_count) ==
  [ClearClaim(row) EXCEPT !.status = Pending, !.visible_at = visible_at,
                          !.failure_count = failure_count]

(* extend_lease, for a row that satisfies Holds. *)
LeasedRow(row, expires) == [row EXCEPT !.claim_expires_at = expires]

-----------------------------------------------------------------------------
(* merge_into: a Replace or With overwrites the carry, a Keep does not. *)

FaultyMergeable(row) == row.status \in Stored

Mergeable(row) == row.status = Pending

MergedRow(row, replaces) == IF replaces THEN [row EXCEPT !.carry = 0] ELSE row

(* cleanup: DELETE of rows finished before the cutoff, optionally of one   *)
(* status (None for both).                                                 *)
Removable(row, cutoff, status) ==
  /\ row.finished_at # None
  /\ row.finished_at < cutoff
  /\ status \in {None, row.status}
=============================================================================
