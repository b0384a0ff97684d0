------------------------------- MODULE Dedup -------------------------------
(***************************************************************************)
(* Queue::submit: the deduplicating enqueue, a read-modify-write over      *)
(* three store calls (read the candidate, decide from its content, write   *)
(* the merge or insert a new job), by several producers at once and        *)
(* against workers that claim, run and re-pend the very candidate.         *)
(*                                                                         *)
(* A payload is the set of submissions whose content is in it, so that a   *)
(* With (the union of both contents) and a Replace (the incoming one only) *)
(* can be told apart.  A carry is, as in Store, the run that produced it;  *)
(* a With continues from the carry it read.  The clock is left out: a      *)
(* pending job may become visible, and a lease expire, at any moment.      *)
(***************************************************************************)
EXTENDS Store, Sequences

CONSTANTS
  Submissions,  \* the calls of Queue::enqueue; also the ids of the jobs they insert
  Keys,         \* the (KIND, dedup_key) pairs
  KeyOf,        \* [Submissions -> Keys or None], Task::dedup_key
  Decisions,    \* what Task::merge may answer
  Stamps,       \* the producers' clocks: values of created_at
  MaxOpen,      \* how many submissions may be under way at once
  MaxFaults     \* bound: store calls that fail

ASSUME DedupAssumption ==
  /\ None \notin Keys /\ None \notin Submissions
  /\ KeyOf \in [Submissions -> Keys \cup {None}]
  /\ Decisions \subseteq {"Keep", "Replace", "With", "Independent"}
  /\ Stamps \subseteq Nat
  /\ MaxOpen \in Nat /\ MaxFaults \in Nat

VARIABLES
  jobs,      \* the jobs table; the job a submission inserts has its name
  payload,   \* the payload column
  created,   \* the created_at column
  journal,   \* the journal table, per job in insertion order
  call,      \* per submission, where its call of submit is
  seen,      \* per submission, the candidate it read, or None
  decision,  \* per submission, the merge decision it writes
  acked,     \* per submission answered Ok: the job and its run_count then
  applied,   \* history: per job, the writes to its payload in commit order
  faults

vars == <<jobs, payload, created, journal, call, seen, decision, acked,
          applied, faults>>
table == <<jobs, payload, journal, applied>>

Phases == {"idle", "lookup", "decide", "merge", "insert", "acked", "failed"}

Candidate == [id : Submissions, run_count : 0..MaxInt, carry : 0..MaxInt,
              payload : SUBSET Submissions, base : Nat]

(* One write to a payload: by whom, how, and how many writes to the same   *)
(* payload preceded the read it is based on.                               *)
Write == [by : Submissions, base : Nat,
          how : {"Insert", "Keep", "Replace", "With"}]

TypeOK ==
  /\ jobs \in [Submissions -> Row]
  /\ payload \in [Submissions -> SUBSET Submissions]
  /\ created \in [Submissions -> Stamps \cup {None}]
  /\ journal \in [Submissions -> Seq(JournalEntry)]
  /\ call \in [Submissions -> Phases]
  /\ seen \in [Submissions -> Candidate \cup {None}]
  /\ decision \in [Submissions -> Decisions \cup {None}]
  /\ acked \in [Submissions ->
                  [job : Submissions, run_count : 0..MaxInt] \cup {None}]
  /\ applied \in [Submissions -> Seq(Write)]
  /\ faults \in 0..MaxFaults

Init ==
  /\ jobs = [j \in Submissions |-> AbsentRow]
  /\ payload = [j \in Submissions |-> {}]
  /\ created = [j \in Submissions |-> None]
  /\ journal = [j \in Submissions |-> << >>]
  /\ call = [s \in Submissions |-> "idle"]
  /\ seen = [s \in Submissions |-> None]
  /\ decision = [s \in Submissions |-> None]
  /\ acked = [s \in Submissions |-> None]
  /\ applied = [j \in Submissions |-> << >>]
  /\ faults = 0

-----------------------------------------------------------------------------
(* Producers. *)

Open == {s \in Submissions : call[s] \in {"lookup", "decide", "merge", "insert"}}

Goto(s, phase) == call' = [call EXCEPT ![s] = phase]

(* submit is done with the candidate. *)
Forget(s) ==
  /\ seen' = [seen EXCEPT ![s] = None]
  /\ decision' = [decision EXCEPT ![s] = None]

(* submit: created_at is taken from the producer's clock, and a task       *)
(* without a key is inserted without looking.                              *)
Submit(s, stamp) ==
  /\ call[s] = "idle"
  /\ Cardinality(Open) < MaxOpen
  /\ created' = [created EXCEPT ![s] = stamp]
  /\ Goto(s, IF KeyOf[s] = None THEN "insert" ELSE "lookup")
  /\ UNCHANGED <<table, seen, decision, acked, faults>>

Siblings(key) ==
  {j \in Submissions : jobs[j].status = Pending /\ KeyOf[j] = key}

(* dedup_candidate: the oldest pending job of the key. *)
Lookup(s) ==
  /\ call[s] = "lookup"
  /\ \/ /\ Siblings(KeyOf[s]) = {}
        /\ Goto(s, "insert")
        /\ UNCHANGED seen
     \/ \E j \in Siblings(KeyOf[s]) :
          /\ \A k \in Siblings(KeyOf[s]) : created[j] <= created[k]
          /\ seen' = [seen EXCEPT ![s] =
               [id |-> j, run_count |-> jobs[j].run_count,
                carry |-> jobs[j].carry, payload |-> payload[j],
                base |-> Len(applied[j])]]
          /\ Goto(s, "decide")
  /\ UNCHANGED <<table, created, decision, acked, faults>>

(* The journal is read, and Task::merge answers.  What it answers is up to *)
(* the task.                                                               *)
Decide(s, d) ==
  /\ call[s] = "decide"
  /\ IF d = "Independent"
     THEN Goto(s, "insert") /\ Forget(s)
     ELSE /\ Goto(s, "merge")
          /\ decision' = [decision EXCEPT ![s] = d]
          /\ UNCHANGED seen
  /\ UNCHANGED <<table, created, acked, faults>>

(* The call commits, and its answer reaches the producer or is lost. *)
Answer(s, j) ==
  \/ /\ Goto(s, "acked")
     /\ acked' = [acked EXCEPT ![s] = [job |-> j, run_count |-> jobs'[j].run_count]]
     /\ UNCHANGED faults
  \/ /\ faults < MaxFaults /\ faults' = faults + 1
     /\ Goto(s, "failed")
     /\ UNCHANGED acked

FaultyMergedPayload(s, j) ==
  IF decision[s] = "Keep" THEN payload[j] ELSE {s}

MergedPayload(s, j) ==
  CASE decision[s] = "Keep"    -> payload[j]
    [] decision[s] = "Replace" -> {s}
    [] decision[s] = "With"    -> seen[s].payload \cup {s}

FaultyMergedCarry(s, j) == IF decision[s] = "Replace" THEN 0 ELSE seen[s].carry

MergedCarry(s, j) ==
  CASE decision[s] = "Keep"    -> jobs[j].carry
    [] decision[s] = "Replace" -> 0
    [] decision[s] = "With"    -> seen[s].carry

(* apply_merge and merge_into: guarded by the status alone, so the write   *)
(* is based on what was read even if the job has run since; a candidate    *)
(* that is no longer pending sends the task to a fresh insert.             *)
ApplyMerge(s) ==
  /\ call[s] = "merge"
  /\ LET j == seen[s].id
     IN  \/ /\ Mergeable(jobs[j])
            /\ jobs' = [jobs EXCEPT ![j].carry = MergedCarry(s, j)]
            /\ payload' = [payload EXCEPT ![j] = MergedPayload(s, j)]
            /\ journal' = [journal EXCEPT ![j] =
                 Append(@, Entry(seen[s].run_count, "merged"))]
            /\ applied' = [applied EXCEPT ![j] =
                 Append(@, [by |-> s, base |-> seen[s].base, how |-> decision[s]])]
            /\ Answer(s, j)
         \/ /\ ~ Mergeable(jobs[j])
            /\ Goto(s, "insert")
            /\ UNCHANGED <<table, acked, faults>>
  /\ Forget(s)
  /\ UNCHANGED created

Insert(s) ==
  /\ call[s] = "insert"
  /\ jobs' = [jobs EXCEPT ![s] = EnqueuedRow(0)]
  /\ payload' = [payload EXCEPT ![s] = {s}]
  /\ applied' = [applied EXCEPT ![s] =
       Append(@, [by |-> s, base |-> 0, how |-> "Insert"])]
  /\ Answer(s, s)
  /\ UNCHANGED <<created, journal, seen, decision>>

(* A store call fails before it commits, or the candidate's payload or     *)
(* carry does not deserialize: the error goes to the caller.               *)
Fail(s) ==
  /\ s \in Open
  /\ faults < MaxFaults /\ faults' = faults + 1
  /\ Goto(s, "failed")
  /\ Forget(s)
  /\ UNCHANGED <<table, created, acked>>

-----------------------------------------------------------------------------
(* Workers and operators, as far as the producers can tell. *)

FaultyClaim(j) ==
  /\ Eligible(jobs[j], 0)
  /\ \E w \in Identities : jobs' = [jobs EXCEPT ![j] = ClaimedRow(@, w, 0)]
  /\ UNCHANGED <<payload, created, journal, call, seen, decision, acked,
                 applied, faults>>

Claim(j) ==
  /\ Eligible(jobs[j], 0)
  /\ jobs[j].run_count < MaxInt
  /\ \E w \in Identities : jobs' = [jobs EXCEPT ![j] = ClaimedRow(@, w, 0)]
  /\ UNCHANGED <<payload, created, journal, call, seen, decision, acked,
                 applied, faults>>

(* How a claim ends, as far as a producer can tell: giving up looks like   *)
(* completing to it, a retry that keeps the new carry like a pause, and    *)
(* one that does not, or a stale recovery, like a release.                 *)
Settlements(j) == {Complete(0), Pause(0, jobs[j].run_count), Release(0)}

Conclude(j) ==
  /\ jobs[j].status = Claimed
  /\ \E s \in Settlements(j) :
       /\ jobs' = [jobs EXCEPT ![j] = SettledRow(@, s)]
       /\ journal' = [journal EXCEPT ![j] =
            Append(@, Entry(jobs[j].run_count, JournalOutcomeFor(s)))]
  /\ UNCHANGED <<payload, created, call, seen, decision, acked, applied, faults>>

Cleanup(j) ==
  /\ Removable(jobs[j], 1, None)
  /\ jobs' = [jobs EXCEPT ![j] = DeletedRow]
  /\ journal' = [journal EXCEPT ![j] = << >>]
  /\ UNCHANGED <<payload, created, call, seen, decision, acked, applied, faults>>

-----------------------------------------------------------------------------
Producer(s) ==
  \/ \E stamp \in Stamps : Submit(s, stamp)
  \/ Lookup(s)
  \/ \E d \in Decisions : Decide(s, d)
  \/ ApplyMerge(s) \/ Insert(s) \/ Fail(s)

Next ==
  \/ \E s \in Submissions : Producer(s)
  \/ \E j \in Submissions : Claim(j) \/ Conclude(j) \/ Cleanup(j)

Spec == Init /\ [][Next]_vars

-----------------------------------------------------------------------------
(* Properties. *)

(* "so no work is lost" (apply_merge): the job a submission was answered   *)
(* with is still going to run, or a run of it began after the submission   *)
(* was applied.  No merge goes to a job that is running or over.           *)
NoSubmissionLost ==
  \A s \in Submissions : acked[s] # None =>
    LET row == jobs[acked[s].job]
    IN  \/ row.status \in {Pending, "deleted"}
        \/ row.run_count > acked[s].run_count

(* What contention can cost, and nothing else can: content that was        *)
(* written to a payload is in it until a Replace is applied after it, or a *)
(* With whose base was read before it ("last-writer-wins", Task::merge).   *)
(* Neither runs, nor re-pends, nor a Keep, nor submissions one after the   *)
(* other lose any.                                                         *)
LostOnlyByContention ==
  \A j \in Submissions : \A i \in DOMAIN applied[j] :
    LET w == applied[j][i]
    IN  \/ w.how = "Keep"
        \/ w.by \in payload[j]
        \/ \E k \in (i + 1)..Len(applied[j]) :
             \/ applied[j][k].how = "Replace"
             \/ applied[j][k].how = "With" /\ applied[j][k].base < i

(* A run's progress is undone by a merge only if the task asked for it     *)
(* (Replace), or if the carry that a With writes back was read before that *)
(* run began or before another merge.  Task::merge promises that           *)
(* coalescing "under non-concurrent or lightly contended enqueue is        *)
(* exact"; a single enqueue that straddles a run is contention enough.     *)
ProgressLostOnlyByStaleMerge ==
  [][\A j \in Submissions :
       jobs'[j].carry < jobs[j].carry =>
         \/ jobs'[j].status = "deleted"
         \/ \E s \in Submissions :
              /\ call[s] = "merge" /\ call'[s] # "merge" /\ seen[s].id = j
              /\ \/ decision[s] = "Replace"
                 \/ /\ decision[s] = "With"
                    /\ \/ seen[s].run_count < jobs[j].carry
                       \/ seen[s].base < Len(applied[j])]_vars
=============================================================================
