----------------------------- MODULE Execution -----------------------------
(***************************************************************************)
(* One job through all its runs: what a handler is given (carry, history), *)
(* what erased_run makes of what it does, how the report becomes a         *)
(* settlement, and when the job runs next.                                 *)
(*                                                                         *)
(* Lifecycle leaves a handler's result and every delay open; here they are *)
(* those of the code, with the actual backoff schedule, for a task that    *)
(* follows the guide: it counts the failures in ctx.history() and gives up *)
(* once there are `limit` of them.  Contention is left to Lifecycle: a     *)
(* claim that expires is recovered, and what its handler does afterwards   *)
(* is lost.                                                                *)
(*                                                                         *)
(* Times in the row are relative to now: visible_at is the number of ticks *)
(* left, and the database's clock is 0.                                    *)
(***************************************************************************)
EXTENDS Store, Backoff, Sequences

CONSTANTS
  Worker,         \* the identity of the worker
  Backstop,       \* WorkerConfig::backstop; None disables it
  PanicPolicy,    \* WorkerConfig::panic_policy, "Retry" or "Dead"
  WorkerBackoff,  \* <<base, cap>> of WorkerConfig::backoff
  TaskBackoff,    \* <<base, cap>> of Task::backoff, None for the default
  Fraction,       \* jitter_fraction, in Grain-ths
  Limits,         \* after how many failures tasks give up; None: never
  Resumes,        \* the resume_in of the handler's pauses
  MaxYields,      \* bound: pauses and releases
  MaxUnruly       \* bound: panics, expired leases and failed journal reads

ASSUME ExecutionAssumption ==
  /\ Worker \in Identities
  /\ Backstop \in Nat \cup {None}
  /\ PanicPolicy \in {"Retry", "Dead"}
  /\ WorkerBackoff \in Nat \X Nat
  /\ TaskBackoff \in (Nat \X Nat) \cup {None}
  /\ Fraction \in Nat
  /\ Limits \subseteq Nat \cup {None}
  /\ Resumes \subseteq Nat
  /\ MaxYields \in Nat /\ MaxUnruly \in Nat

VARIABLES
  row,      \* the job's row
  journal,  \* its journal
  limit,    \* the failures this task counts to
  pc,       \* "idle", "claimed" (journal not read yet) or "running"
  history,  \* ctx.history() of the run under way
  torn,     \* per run number, whether its handler panicked (the note says so)
  waited,   \* history: ticks since the job was last re-pended
  asked,    \* history: the resume_in of the last pause
  yields, unruly

vars == <<row, journal, limit, pc, history, torn, waited, asked, yields,
          unruly>>

TypeOK ==
  /\ row \in Row
  /\ journal \in Seq(JournalEntry)
  /\ limit \in Limits
  /\ pc \in {"idle", "claimed", "running"}
  /\ (row.status = Claimed) <=> (pc # "idle")
  /\ history \in Seq(JournalEntry)
  /\ torn \subseteq 1..MaxInt
  /\ waited \in Nat /\ asked \in Nat
  /\ yields \in 0..MaxYields /\ unruly \in 0..MaxUnruly

Init ==
  /\ row = EnqueuedRow(0)
  /\ journal = << >>
  /\ limit \in Limits
  /\ pc = "idle"
  /\ history = << >>
  /\ torn = {}
  /\ waited = 0 /\ asked = 0
  /\ yields = 0 /\ unruly = 0

FailuresIn(entries) ==
  Cardinality({i \in DOMAIN entries : IsFailure(entries[i].outcome)})

Yield  == yields < MaxYields /\ yields' = yields + 1
Unruly == unruly < MaxUnruly /\ unruly' = unruly + 1

FaultyConclude(new, outcome) ==
  /\ row' = new
  /\ journal' = Append(journal, Entry(row.run_count, outcome))
  /\ history' = << >>
  /\ waited' = 0
  /\ UNCHANGED <<limit, pc>>

(* The transaction that ends the claim: row and entry. *)
Conclude(new, outcome) ==
  /\ row' = new
  /\ journal' = Append(journal, Entry(row.run_count, outcome))
  /\ pc' = "idle"
  /\ history' = << >>
  /\ waited' = 0
  /\ UNCHANGED limit

ApplySettlement(s) == Conclude(SettledRow(row, s), JournalOutcomeFor(s))

-----------------------------------------------------------------------------
(* Time.  Waiting is counted up to the longest delay there is. *)

Horizon == AtLeast(Far, MaxU64)

Tick ==
  /\ row.status = Pending
  /\ \/ row.visible_at > 0
     \/ waited < Horizon
  /\ row' = [row EXCEPT !.visible_at = IF @ > 0 THEN @ - 1 ELSE 0]
  /\ waited' = AtMost(waited + 1, Horizon)
  /\ UNCHANGED <<journal, limit, pc, history, torn, asked, yields, unruly>>

(* Claim and the history handed to the handler. *)

Claim ==
  /\ Eligible(row, 0)
  /\ row.run_count < MaxInt
  /\ row' = ClaimedRow(row, Worker, 0)
  /\ pc' = "claimed"
  /\ UNCHANGED <<journal, limit, history, torn, waited, asked, yields, unruly>>

FaultyHistoryFor == SelectSeq(journal, LAMBDA e : e.outcome = "dead")

(* history_for when the read succeeds: every entry, merged ones included *)
HistoryFor == journal

FaultyLoadHistory ==
  /\ pc = "claimed"
  /\ \/ pc' = "running" /\ history' = HistoryFor /\ UNCHANGED unruly
     \/ pc' = "idle" /\ UNCHANGED history /\ Unruly
  /\ UNCHANGED <<row, journal, limit, torn, waited, asked, yields>>

LoadHistory ==
  /\ pc = "claimed"
  /\ \/ history' = HistoryFor /\ UNCHANGED unruly
     \/ history' = << >> /\ Unruly
  /\ pc' = "running"
  /\ UNCHANGED <<row, journal, limit, torn, waited, asked, yields>>

-----------------------------------------------------------------------------
(* The handler, erased_run and settle. *)

Counted == limit # None /\ FailuresIn(history) >= limit

(* An error the handler returns: permanent once it has counted enough. *)
TaskError == IF Counted THEN "permanent" ELSE "retryable"

PanicError == IF PanicPolicy = "Retry" THEN "retryable" ELSE "permanent"

FaultyReport(result) ==
  [result |-> CASE result = "panic" -> PanicError
                [] result = "error" -> TaskError
                [] result \in {"completed", "pause"} -> result
                [] OTHER -> "permanent",
   carry  |-> row.run_count]

(* The RunReport.  A handler that returned leaves its carry, which stands  *)
(* for the run it comes from; after a panic it is the one before the run,  *)
(* and one that cannot be encoded is null.                                 *)
Report(result) ==
  [result |-> CASE result = "panic" -> PanicError
                [] result = "error" -> TaskError
                [] result \in {"completed", "pause"} -> result
                [] OTHER -> "permanent",
   carry  |-> CASE result = "panic"       -> row.carry
                [] result = "unencodable" -> 0
                [] OTHER                  -> row.run_count]

(* report.backoff.unwrap_or(self.config.backoff) *)
BackoffFor(override) ==
  LET b == IF override = None THEN WorkerBackoff ELSE override
  IN  NewBackoff(b[1], b[2])

FaultyRetryOrBackstop(report, unit, next_failures) ==
  Retry(AddDuration(RetryDelay(BackoffFor(TaskBackoff), Fraction,
                               next_failures, unit)),
        next_failures, report.carry)

RetryOrBackstop(report, unit, next_failures) ==
  IF Backstop # None /\ next_failures >= Backstop
  THEN GiveUp(0, next_failures)
  ELSE Retry(AddDuration(RetryDelay(BackoffFor(TaskBackoff), Fraction,
                                    next_failures, unit)),
             next_failures, report.carry)

SettlementFor(report, resume_in, unit, next_failures) ==
  CASE report.result = "completed" -> Complete(0)
    [] report.result = "pause"     -> Pause(AddDuration(resume_in), report.carry)
    [] report.result = "permanent" -> GiveUp(0, next_failures)
    [] report.result = "retryable" -> RetryOrBackstop(report, unit, next_failures)

Finish(result, resume_in, unit) ==
  /\ pc = "running"
  /\ ApplySettlement(SettlementFor(Report(result), resume_in, unit,
                                   SaturatingInc(row.failure_count)))
  /\ torn' = IF result = "panic" THEN torn \cup {row.run_count} ELSE torn

(* The handler returns, or its data does not convert. *)
Returns ==
  /\ \E result \in {"completed", "error", "unencodable", "undecodable"},
        unit \in JitterUnits : Finish(result, 0, unit)
  /\ UNCHANGED <<asked, yields, unruly>>

Pauses ==
  /\ Yield
  /\ \E resume_in \in Resumes :
       Finish("pause", resume_in, 0) /\ asked' = resume_in
  /\ UNCHANGED unruly

Panics ==
  /\ Unruly
  /\ \E unit \in JitterUnits : Finish("panic", 0, unit)
  /\ UNCHANGED <<asked, yields>>

(* A forced shutdown aborts the handler and releases the job. *)
Released ==
  /\ pc = "running"
  /\ Yield
  /\ ApplySettlement(Release(0))
  /\ UNCHANGED <<torn, asked, unruly>>

(* recover_stale, which knows the worker's backoff and not the task's. *)
Expires ==
  /\ pc # "idle"
  /\ Unruly
  /\ LET failures == SaturatingInc(row.failure_count) IN
       \E unit \in JitterUnits :
         Conclude(RecoveredRow(row,
                    AddDuration(RetryDelay(BackoffFor(None), Fraction,
                                           failures, unit)), failures),
                  "stale-recovered")
  /\ UNCHANGED <<torn, asked, yields>>

Next ==
  \/ Tick \/ Claim \/ LoadHistory
  \/ Returns \/ Pauses \/ Panics \/ Released \/ Expires

Spec == Init /\ [][Next]_vars

(* The clock runs, a worker polls, and handlers end.  *)
FairSpec ==
  /\ Spec
  /\ WF_vars(Tick) /\ WF_vars(Claim) /\ WF_vars(LoadHistory)
  /\ WF_vars(Returns)

-----------------------------------------------------------------------------
(* Properties. *)

Last == journal[Len(journal)]

(* The curve of the documentation, without saturation: fib(n) - 1 is the   *)
(* sum of the first n - 2 Fibonacci numbers.                               *)
Fibonacci[n \in Nat] ==
  IF n <= 2 THEN 1 ELSE Fibonacci[n - 1] + Fibonacci[n - 2]
Multiplier[n \in Nat] ==
  IF n <= 2 THEN 0 ELSE Multiplier[n - 1] + Fibonacci[n - 2]

(* backoff.rs: the delay before the run after the n-th failure, and the    *)
(* least that jitter may leave of it.                                      *)
Longest(b, n) ==
  AtMost(AtLeast(b[1], MinBase) * Multiplier[n],
         AtLeast(b[2], AtLeast(b[1], MinBase)))
Shortest(b, n) ==
  (Longest(b, n) * (Grain - AtMost(Fraction, Grain))) \div Grain

OwnBackoff == IF TaskBackoff = None THEN WorkerBackoff ELSE TaskBackoff

(* The job's wait fits the schedule b: it does not run before the shortest *)
(* jittered delay for its number of failures, nor is it hidden longer than *)
(* the full one.                                                           *)
WaitFits(b) ==
  LET n == row.failure_count
  IN  /\ row.visible_at + waited >= Shortest(b, n)
      /\ row.visible_at > 0 => row.visible_at + waited <= Longest(b, n)

(* A job that failed runs again when its schedule says so: the task's own, *)
(* or the worker's if it has none.  After an expired lease the code takes  *)
(* the worker's although the task has one, where ADR 19 asks for the same  *)
(* in both cases; either is accepted here, and nothing shorter or longer.  *)
(* A pause hides the job for as long as was asked, up to the end of the    *)
(* calendar.                                                               *)
RunsWhenDue ==
  row.status = Pending /\ journal # << >> =>
    /\ Last.outcome = "retried" => WaitFits(OwnBackoff)
    /\ Last.outcome = "stale-recovered" => WaitFits(OwnBackoff) \/ WaitFits(WorkerBackoff)
    /\ Last.outcome = "paused" => row.visible_at + waited >= AtMost(asked, Far)

(* guide.md lets a task give up by counting the failures in ctx.history(). *)
(* It does so in time: it is scheduled again after `limit` failures only   *)
(* as often as a run could not count (the journal read failed) or          *)
(* could not answer (a panic, an expired lease).                           *)
GivesUpInTime ==
  limit # None /\ row.status = Pending =>
    row.failure_count <= limit + unruly

(* The backstop lets no failing handler go on.  What gets a job past it is *)
(* only the recovery of an expired lease, which does not look at it.       *)
BackstopPassedOnlyByExpiry ==
  /\ Backstop # None /\ row.status = Pending
  /\ row.failure_count >= AtLeast(Backstop, 1)
  => \E i \in DOMAIN journal :
       /\ journal[i].outcome = "stale-recovered"
       /\ FailuresIn(SubSeq(journal, 1, i)) = row.failure_count

(* The runs whose handler returned to be run again. *)
Kept(entries) ==
  {entries[i].run_no : i \in {k \in DOMAIN entries :
     /\ entries[k].outcome \in {"paused", "retried"}
     /\ entries[k].run_no \notin torn}}

(* The next run continues from what the last handler that returned left:   *)
(* neither a panic, nor an abort, nor a lost lease replaces it, nor resets *)
(* the job to its first carry.                                             *)
CarryIsLastReturned ==
  row.status \in {Pending, Claimed} =>
    /\ row.carry \in Kept(journal) \cup {0}
    /\ \A n \in Kept(journal) : n <= row.carry

(* A job does not go round for ever: with a backstop, or a task that       *)
(* counts, it ends although every attempt fails, unless it keeps pausing,  *)
(* being released or losing its lease.                                     *)
JobEnds == <>(row.status \in Terminal)
=============================================================================
