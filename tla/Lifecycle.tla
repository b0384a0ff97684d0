----------------------------- MODULE Lifecycle -----------------------------
(***************************************************************************)
(* The life of a job: the jobs and journal tables of one queue, the        *)
(* workers that claim, run, settle, release and recover its jobs, and the  *)
(* producers and operators that enqueue, merge and clean up.               *)
(*                                                                         *)
(* Every action is one database transaction (with what the worker does in  *)
(* memory before its next await), so everything that can interleave in     *)
(* the code interleaves here: a handler outliving its lease, a stale scan  *)
(* acted on after the claim it saw was renewed or settled, a crash between *)
(* any two transactions, a store call that fails, a claim whose reply is   *)
(* lost.                                                                   *)
(*                                                                         *)
(* The choice among eligible jobs is left open here (SKIP LOCKED makes it  *)
(* depend on which rows other transactions hold); WorkerLoop models the    *)
(* order, the kinds and the per-kind caps.                                 *)
(***************************************************************************)
EXTENDS Store, Sequences

CONSTANTS
  Jobs,         \* job ids (ULIDs, never reused)
  Workers,      \* worker processes
  Identity,     \* [Workers -> Identities], what a worker writes as claimed_by
  Concurrency,  \* WorkerConfig::concurrency
  Lease,        \* WorkerConfig::lease; clamp_lease keeps it positive
  TaskLeases,   \* the leases Task::lease may ask for, clamped likewise
  Delays,       \* the delays of enqueue_at, of a pause and of retry_delay
  Backstop,     \* WorkerConfig::backstop; None disables it
  PanicPolicy,  \* WorkerConfig::panic_policy, "Retry" or "Dead"
  MaxTime,      \* bound: last instant of the clock
  MaxMerges,    \* bound: merges into one job
  MaxFaults     \* bound: crashes and store errors in one behaviour

ASSUME LifecycleAssumption ==
  /\ Identity \in [Workers -> Identities]
  /\ Concurrency \in Nat \ {0}
  /\ Lease \in Nat \ {0}
  /\ TaskLeases \subseteq Nat \ {0}
  /\ Delays \subseteq Nat
  /\ Backstop \in Nat \cup {None}
  /\ PanicPolicy \in {"Retry", "Dead"}
  /\ MaxTime \in Nat /\ MaxMerges \in Nat /\ MaxFaults \in Nat

VARIABLES
  now,      \* the database's clock
  jobs,     \* the jobs table
  journal,  \* the journal table: per job, the entries in insertion order
  runs,     \* the claimed jobs in the workers' memory
  stale,    \* per worker, the rows of its last stale scan still to recover
  mode,     \* per worker: "up", "draining", "releasing" or "down"
  faults    \* crashes and store errors so far

vars == <<now, jobs, journal, runs, stale, mode, faults>>

(* What a worker remembers of a claim: the JobRecord that claim_next       *)
(* returned, as spawn copies it into the RunInput and the FinishedRun.     *)
Run == [worker : Workers, id : Jobs, run_no : 0..MaxInt,
        failure_count : 0..MaxInt, carry : 0..MaxInt,
        phase : {"claimed", "running"}]

StaleJob == [id : Jobs, run_no : 0..MaxInt, failure_count : 0..MaxInt]

TypeOK ==
  /\ now \in Nat
  /\ jobs \in [Jobs -> Row]
  /\ journal \in [Jobs -> Seq(JournalEntry)]
  /\ runs \subseteq Run
  /\ stale \in [Workers -> SUBSET StaleJob]
  /\ mode \in [Workers -> {"up", "draining", "releasing", "down"}]
  /\ faults \in 0..MaxFaults

Init ==
  /\ now = 0
  /\ jobs = [j \in Jobs |-> AbsentRow]
  /\ journal = [j \in Jobs |-> << >>]
  /\ runs = {}
  /\ stale = [w \in Workers |-> {}]
  /\ mode = [w \in Workers |-> "up"]
  /\ faults = 0

-----------------------------------------------------------------------------
RunsOf(w) == {r \in runs : r.worker = w}

(* The worker's loop is between two of its awaits: no stale batch half     *)
(* recovered and no claim whose handler is not spawned yet.                *)
AtLoop(w) ==
  /\ stale[w] = {}
  /\ \A r \in RunsOf(w) : r.phase = "running"

Fault == faults < MaxFaults /\ faults' = faults + 1

(* The transaction that re-pends or ends job j: its new row, and the       *)
(* journal entry written with it.                                          *)
Conclude(j, row, entry) ==
  /\ jobs' = [jobs EXCEPT ![j] = row]
  /\ journal' = [journal EXCEPT ![j] = Append(@, entry)]

-----------------------------------------------------------------------------
(* Producers and operators. *)

(* Queue::insert through Store::enqueue. *)
Enqueue(j, delay) ==
  /\ jobs[j].status = "absent"
  /\ jobs' = [jobs EXCEPT ![j] = EnqueuedRow(now + delay)]
  /\ UNCHANGED <<now, journal, runs, stale, mode, faults>>

Merges(j) == {i \in DOMAIN journal[j] : journal[j][i].outcome = "merged"}

(* merge_into by an enqueue that read the candidate at run_count n, which  *)
(* may have run since: only the status is guarded.                         *)
MergeInto(j, n, replaces) ==
  /\ Mergeable(jobs[j])
  /\ n <= jobs[j].run_count
  /\ Cardinality(Merges(j)) < MaxMerges
  /\ Conclude(j, MergedRow(jobs[j], replaces), Entry(n, "merged"))
  /\ UNCHANGED <<now, runs, stale, mode, faults>>

(* cleanup deletes the finished rows; their journal goes with them. *)
Cleanup(cutoff, status) ==
  LET removed == {j \in Jobs : Removable(jobs[j], cutoff, status)}
  IN  /\ removed # {}
      /\ jobs' = [j \in Jobs |->
                    IF j \in removed THEN DeletedRow ELSE jobs[j]]
      /\ journal' = [j \in Jobs |->
                       IF j \in removed THEN << >> ELSE journal[j]]
      /\ UNCHANGED <<now, runs, stale, mode, faults>>

-----------------------------------------------------------------------------
(* Workers: claim and dispatch. *)

FaultyCanClaim(w, j) ==
  /\ mode[w] = "up"
  /\ AtLoop(w)
  /\ Cardinality(RunsOf(w)) < Concurrency
  /\ Eligible(jobs[j], now)

CanClaim(w, j) ==
  /\ mode[w] = "up"
  /\ AtLoop(w)
  /\ Cardinality(RunsOf(w)) < Concurrency
  /\ Eligible(jobs[j], now)
  /\ jobs[j].run_count < MaxInt

Claim(w, j) ==
  /\ CanClaim(w, j)
  /\ jobs' = [jobs EXCEPT ![j] = ClaimedRow(@, Identity[w], now + Lease)]
  /\ runs' = runs \cup
       {[worker |-> w, id |-> j, run_no |-> jobs'[j].run_count,
         failure_count |-> jobs[j].failure_count, carry |-> jobs[j].carry,
         phase |-> "claimed"]}
  /\ UNCHANGED <<now, journal, stale, mode, faults>>

(* The claim commits and the worker sees an error: nobody runs the job.    *)
ClaimReplyLost(w, j) ==
  /\ CanClaim(w, j)
  /\ Fault
  /\ jobs' = [jobs EXCEPT ![j] = ClaimedRow(@, Identity[w], now + Lease)]
  /\ UNCHANGED <<now, journal, runs, stale, mode>>

(* apply_task_lease and spawn.  lease is None when the task asks for none, *)
(* for the worker's own, or when the override fails and is only logged.    *)
Spawn(r, lease) ==
  /\ r.phase = "claimed"
  /\ jobs' = [jobs EXCEPT ![r.id] =
       IF lease # None /\ Holds(@, Identity[r.worker], r.run_no)
       THEN LeasedRow(@, now + lease) ELSE @]
  /\ runs' = (runs \ {r}) \cup {[r EXCEPT !.phase = "running"]}
  /\ UNCHANGED <<now, journal, stale, mode, faults>>

-----------------------------------------------------------------------------
(* Workers: settlement. *)

(* What a dispatched handler can do, and the report erased_run makes of    *)
(* it.  A panic discards the handler's carry for the one it started from.  *)
Behaviours == {"completes", "pauses", "fails", "gives up", "panics",
               "carry not serializable", "payload not decodable"}

ReportFor(r, behaviour) ==
  [result |-> CASE behaviour = "completes" -> "completed"
                [] behaviour = "pauses"    -> "pause"
                [] behaviour = "fails"     -> "retryable"
                [] behaviour = "panics" /\ PanicPolicy = "Retry" -> "retryable"
                [] OTHER                   -> "permanent",
   carry  |-> IF behaviour = "panics" THEN r.carry ELSE r.run_no]

RetryOrBackstop(report, delay, next_failures) ==
  IF Backstop # None /\ next_failures >= Backstop
  THEN GiveUp(now, next_failures)
  ELSE Retry(now + delay, next_failures, report.carry)

SettlementFor(report, delay, next_failures) ==
  CASE report.result = "completed" -> Complete(now)
    [] report.result = "pause"     -> Pause(now + delay, report.carry)
    [] report.result = "permanent" -> GiveUp(now, next_failures)
    [] report.result = "retryable" ->
         RetryOrBackstop(report, delay, next_failures)

(* Store::settle: the guarded transition with its entry, or nothing. *)
ApplySettlement(r, s) ==
  IF Holds(jobs[r.id], Identity[r.worker], r.run_no)
  THEN Conclude(r.id, SettledRow(jobs[r.id], s),
                Entry(r.run_no, JournalOutcomeFor(s)))
  ELSE UNCHANGED <<jobs, journal>>

(* reap and settle, and likewise the join loop of force_finish, which      *)
(* settles the handlers that finished before the abort reached them: the   *)
(* run leaves the worker's memory whatever the store answers.              *)
Settle(r, behaviour, delay) ==
  /\ mode[r.worker] \in {"up", "draining"}
  /\ AtLoop(r.worker)
  /\ ApplySettlement(r, SettlementFor(ReportFor(r, behaviour), delay,
                                      SaturatingInc(r.failure_count)))
  /\ runs' = runs \ {r}
  /\ UNCHANGED <<now, stale, mode, faults>>

(* The settle or release call fails, or the task itself is lost to a panic *)
(* outside the handler: the run is forgotten and the claim stays.          *)
LoseRun(r) ==
  /\ mode[r.worker] \in {"up", "draining", "releasing"}
  /\ AtLoop(r.worker)
  /\ Fault
  /\ runs' = runs \ {r}
  /\ UNCHANGED <<now, jobs, journal, stale, mode>>

-----------------------------------------------------------------------------
(* Workers: stale recovery, at the top of every loop iteration. *)

FindStale(w) ==
  /\ mode[w] = "up"
  /\ AtLoop(w)
  /\ \E batch \in SUBSET Jobs :
       /\ IsStaleBatch(batch, jobs, now)
       /\ stale' = [stale EXCEPT ![w] =
            {[id |-> j, run_no |-> jobs[j].run_count,
              failure_count |-> jobs[j].failure_count] : j \in batch}]
  /\ UNCHANGED <<now, jobs, journal, runs, mode, faults>>

Recover(w, s, delay) ==
  /\ stale' = [stale EXCEPT ![w] = @ \ {s}]
  /\ IF Recoverable(jobs[s.id], s.run_no, now)
     THEN Conclude(s.id,
                   RecoveredRow(jobs[s.id], now + delay,
                                SaturatingInc(s.failure_count)),
                   Entry(s.run_no, "stale-recovered"))
     ELSE UNCHANGED <<jobs, journal>>
  /\ UNCHANGED <<now, runs, mode, faults>>

RecoverFails(w, s) ==
  /\ Fault
  /\ stale' = [stale EXCEPT ![w] = @ \ {s}]
  /\ UNCHANGED <<now, jobs, journal, runs, mode>>

-----------------------------------------------------------------------------
(* Workers: shutdown, crash and restart. *)

Shutdown(w) ==
  /\ mode[w] = "up"
  /\ AtLoop(w)
  /\ mode' = [mode EXCEPT ![w] = "draining"]
  /\ UNCHANGED <<now, jobs, journal, runs, stale, faults>>

(* The join loop of force_finish is over: the runs that are left belong to *)
(* the handlers aborted at the drain deadline.                             *)
ForceFinish(w) ==
  /\ mode[w] = "draining"
  /\ mode' = [mode EXCEPT ![w] = "releasing"]
  /\ UNCHANGED <<now, jobs, journal, runs, stale, faults>>

ReleaseRun(r) ==
  /\ mode[r.worker] = "releasing"
  /\ ApplySettlement(r, Release(now))
  /\ runs' = runs \ {r}
  /\ UNCHANGED <<now, stale, mode, faults>>

Stop(w) ==
  /\ mode[w] = "releasing"
  /\ RunsOf(w) = {}
  /\ mode' = [mode EXCEPT ![w] = "down"]
  /\ UNCHANGED <<now, jobs, journal, runs, stale, faults>>

Crash(w) ==
  /\ mode[w] # "down"
  /\ Fault
  /\ mode' = [mode EXCEPT ![w] = "down"]
  /\ runs' = runs \ RunsOf(w)
  /\ stale' = [stale EXCEPT ![w] = {}]
  /\ UNCHANGED <<now, jobs, journal>>

(* A process started again, under the identity of the one before it. *)
Restart(w) ==
  /\ mode[w] = "down"
  /\ mode' = [mode EXCEPT ![w] = "up"]
  /\ UNCHANGED <<now, jobs, journal, runs, stale, faults>>

Tick ==
  /\ now < MaxTime
  /\ now' = now + 1
  /\ UNCHANGED <<jobs, journal, runs, stale, mode, faults>>

-----------------------------------------------------------------------------
RunStep(r) ==
  \/ \E lease \in TaskLeases \cup {None} : Spawn(r, lease)
  \/ \E b \in Behaviours, d \in Delays : Settle(r, b, d)
  \/ LoseRun(r)
  \/ ReleaseRun(r)

WorkerStep(w) ==
  \/ \E j \in Jobs : Claim(w, j) \/ ClaimReplyLost(w, j)
  \/ FindStale(w)
  \/ \E s \in stale[w] : RecoverFails(w, s) \/ \E d \in Delays : Recover(w, s, d)
  \/ Shutdown(w) \/ ForceFinish(w) \/ Stop(w) \/ Crash(w) \/ Restart(w)

ClientStep(j) ==
  \/ \E d \in Delays : Enqueue(j, d)
  \/ \E n \in 0..jobs[j].run_count, replaces \in BOOLEAN :
       MergeInto(j, n, replaces)

Next ==
  \/ \E j \in Jobs : ClientStep(j)
  \/ \E cutoff \in 0..(now + 1), status \in Terminal \cup {None} :
       Cleanup(cutoff, status)
  \/ \E r \in runs : RunStep(r)
  \/ \E w \in Workers : WorkerStep(w)
  \/ Tick

Spec == Init /\ [][Next]_vars

(* A worker that is up keeps going round its loop: the wait at its end is  *)
(* bounded by poll_max, and each iteration starts with a stale scan whose  *)
(* rows it works through, and spawns what it claimed.  Nothing is assumed  *)
(* of handlers, producers, operators or the clock.                         *)
Fairness ==
  \A w \in Workers :
    /\ WF_vars(FindStale(w))
    /\ WF_vars(\E s \in stale[w], d \in Delays : Recover(w, s, d))
    /\ WF_vars(\E r \in RunsOf(w), l \in TaskLeases \cup {None} : Spawn(r, l))

FairSpec == Spec /\ Fairness

-----------------------------------------------------------------------------
(* Properties. *)

(* The places of a journal that record an execution, and a failed one. *)
Executions(entries) == {i \in DOMAIN entries : entries[i].outcome # "merged"}
Failures(entries)   == {i \in DOMAIN entries : IsFailure(entries[i].outcome)}

(* How many of a job's runs are over: all but the one a live claim stands  *)
(* for.                                                                    *)
Concluded(row) ==
  IF row.status = Claimed THEN row.run_count - 1 ELSE row.run_count

(* The executions recorded are the runs 1..n, once each, in order. *)
HoleFree(entries, n) ==
  /\ \A i \in Executions(entries) : entries[i].run_no \in 1..n
  /\ \A m \in 1..n : \E i \in Executions(entries) : entries[i].run_no = m
  /\ \A i, k \in Executions(entries) :
       i < k => entries[i].run_no < entries[k].run_no

(* The stored failure_count, which the backstop reads, is the number of    *)
(* failed executions in the journal (what Context::failure_count counts),  *)
(* although settle and recover both write it from a snapshot taken before. *)
FailureCountMatchesJournal ==
  \A j \in Jobs : jobs[j].failure_count = Cardinality(Failures(journal[j]))

(* The journal is hole-free and in order: the executions it records are    *)
(* exactly the runs concluded so far, once each, in the order they ran;    *)
(* the run of a live claim has no entry yet.                               *)
JournalHoleFree ==
  \A j \in Jobs : HoleFree(journal[j], Concluded(jobs[j]))

(* A claim epoch is handed to one handler: no two claims in the workers'   *)
(* memory are of the same run of the same job, and none is ahead of the    *)
(* row, even when the workers share one identity.                          *)
OneHandlerPerEpoch ==
  /\ \A r, q \in runs : r.id = q.id /\ r.run_no = q.run_no => r = q
  /\ \A r \in runs : jobs[r.id].status # "deleted" =>
                       r.run_no \in 1..jobs[r.id].run_count

(* A handler loses its claim while it runs in one way only: its lease      *)
(* expired and a recovery journalled that.  So two live handlers of one    *)
(* job, or a job that finished under a handler, imply such an entry.       *)
SupersededOnlyByRecovery ==
  \A r \in runs :
    \/ Holds(jobs[r.id], Identity[r.worker], r.run_no)
    \/ jobs[r.id].status = "deleted"
    \/ \E i \in DOMAIN journal[r.id] :
         journal[r.id][i] = Entry(r.run_no, "stale-recovered")

(* What a worker remembers is still true when it acts on it: a claim that  *)
(* is live at the remembered run has the remembered failure count, carry   *)
(* and owner, for the handlers' settlements and for the rows of a stale    *)
(* scan.  settle and recover write failure_count from these copies.        *)
SnapshotsCurrent ==
  /\ \A r \in runs :
       jobs[r.id].status = Claimed /\ jobs[r.id].run_count = r.run_no =>
         /\ r.failure_count = jobs[r.id].failure_count
         /\ r.carry = jobs[r.id].carry
         /\ jobs[r.id].claimed_by = Identity[r.worker]
  /\ \A w \in Workers : \A s \in stale[w] :
       jobs[s.id].status = Claimed /\ jobs[s.id].run_count = s.run_no =>
         s.failure_count = jobs[s.id].failure_count

(* A claim ends in one of two ways: the handler it was given to settles or *)
(* releases it (and is gone), or its lease has run out.  No recovery from  *)
(* an old scan ends a lease that was extended or taken anew since.         *)
ClaimEndsByHolderOrExpiry ==
  [][\A j \in Jobs :
       /\ jobs[j].status = Claimed
       /\ jobs'[j].status # Claimed
       => \/ Expired(jobs[j], now)
          \/ \E r \in runs \ runs' :
               r.id = j /\ r.run_no = jobs[j].run_count]_vars

(* The carry of a job changes only to what the run holding the claim       *)
(* produced, or by a merge into the pending job: no superseded handler     *)
(* overwrites it, and no conclusion but a pause or a retry touches it.     *)
CarryOnlyFromHolder ==
  [][\A j \in Jobs :
       /\ jobs[j].status = Claimed
       /\ jobs'[j].carry # jobs[j].carry
       => /\ jobs'[j].carry = jobs[j].run_count
          /\ jobs'[j].status = Pending]_vars

(* Completed and dead are final: such a row never changes again except by  *)
(* being deleted, and only such rows are deleted, by a cleanup that looks  *)
(* at finished_at and not at the status.                                   *)
TerminalIsFinal ==
  [][\A j \in Jobs :
       /\ jobs[j].status \in Terminal =>
            jobs'[j] = jobs[j] \/ jobs'[j] = DeletedRow
       /\ jobs'[j].status = "deleted" =>
            jobs[j].status \in Terminal \cup {"deleted"}]_vars

(* As long as some worker stays up, an expired claim does not stay: it is  *)
(* recovered, or settled by the handler that outlived it.                  *)
ExpiredClaimIsRecovered ==
  (\E w \in Workers : <>[](mode[w] = "up")) =>
    \A j \in Jobs : \A n \in 1..MaxInt :
      (Expired(jobs[j], now) /\ jobs[j].run_count = n)
        ~> ~(jobs[j].status = Claimed /\ jobs[j].run_count = n)

(* The tables, seen as a queue: the status as its phase, run_count as the  *)
(* number of runs, and the journal without merges as their results.        *)
PhaseOf(row) ==
  CASE row.status = "absent"     -> "none"
    [] row.status = Pending      -> "waiting"
    [] row.status = Claimed      -> "running"
    [] row.status \in Terminal   -> "ended"
    [] row.status = "deleted"    -> "removed"

ResultsOf(entries) == {entries[i] : i \in Executions(entries)}

Queue == INSTANCE AbstractQueue WITH
  Again   <- JournalOutcome \ {"completed", "dead", "merged"},
  Ending  <- {"completed", "dead"},
  phase   <- [j \in Jobs |-> PhaseOf(jobs[j])],
  started <- [j \in Jobs |-> jobs[j].run_count],
  results <- [j \in Jobs |-> ResultsOf(journal[j])]

(* Lifecycle implements the abstract queue: whatever workers, leases,      *)
(* recoveries, crashes and lost replies do, each transaction is a step of  *)
(* AbstractQueue or leaves its variables alone.  So each run ends once,    *)
(* with one result, and only the result of the current run counts.         *)
ImplementsQueue == Queue!Spec

(* ADR 13: "When a job's failure count reaches the backstop, it            *)
(* transitions to dead".  recover_stale re-pends without consulting the    *)
(* backstop, so this does not hold.                                        *)
BackstopEndsJob ==
  Backstop # None =>
    \A j \in Jobs : jobs[j].status = Pending => jobs[j].failure_count < Backstop
=============================================================================
