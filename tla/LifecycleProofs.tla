-------------------------- MODULE LifecycleProofs --------------------------
(***************************************************************************)
(* Proofs, for every set of jobs and workers and every value of the other  *)
(* constants, of the safety properties of Lifecycle, of its action         *)
(* properties and of its refinement of AbstractQueue, in three parts.      *)
(*                                                                         *)
(* The argument.  A claim raises run_count, and nothing else changes it,   *)
(* so a remembered run number names one claim.  failure_count and carry of *)
(* a claimed row change only in the step that ends the claim, so what a    *)
(* worker copied from the row at the claim is what the row holds whenever  *)
(* its guarded statement applies.  Hence each conclusion appends the one   *)
(* entry the journal lacked and raises the stored count exactly when that  *)
(* entry is a failure.  Inv collects what this needs.                      *)
(***************************************************************************)
EXTENDS Lifecycle, StoreProofs, FiniteSetTheorems, SequenceTheorems

-----------------------------------------------------------------------------
(* The inductive invariant, per job, per run and per scanned row. *)

RowInv(row, entries) ==
  /\ row.status = "absent" => row = AbsentRow /\ entries = << >>
  /\ row.status = "deleted" => row = DeletedRow /\ entries = << >>
  /\ row.status = Claimed => row.run_count > 0 /\ row.claim_expires_at \in Nat
  /\ row.finished_at # None <=> row.status \in Terminal
  /\ row.failure_count <= Concluded(row)
  /\ row.failure_count = Cardinality(Failures(entries))
  /\ HoleFree(entries, Concluded(row))

RunInv(r, row, entries) ==
  /\ row.status # "absent"
  /\ row.status # "deleted" => r.run_no \in 1..row.run_count
  /\ row.status = Claimed /\ row.run_count = r.run_no =>
       /\ r.failure_count = row.failure_count
       /\ r.carry = row.carry
       /\ row.claimed_by = Identity[r.worker]
  /\ \/ Holds(row, Identity[r.worker], r.run_no)
     \/ row.status = "deleted"
     \/ \E i \in DOMAIN entries :
          entries[i] = Entry(r.run_no, "stale-recovered")

StaleInv(s, row) ==
  /\ row.status # "absent"
  /\ row.status # "deleted" => s.run_no \in 1..row.run_count
  /\ row.status = Claimed /\ row.run_count = s.run_no =>
       s.failure_count = row.failure_count

Inv ==
  /\ TypeOK
  /\ \A j \in Jobs : RowInv(jobs[j], journal[j])
  /\ \A r \in runs : RunInv(r, jobs[r.id], journal[r.id])
  /\ \A r, q \in runs : r.id = q.id /\ r.run_no = q.run_no => r = q
  /\ \A w \in Workers : \A s \in stale[w] : StaleInv(s, jobs[s.id])

USE DEF Pending, Claimed, Completed, Dead

-----------------------------------------------------------------------------
(* The journal as a sequence. *)

(* Appending an entry adds its place, and only it, to the failures and to  *)
(* the executions, if it is one; the count of failures follows.            *)
LEMMA AppendEntry ==
  ASSUME NEW entries \in Seq(JournalEntry), NEW e \in JournalEntry
  PROVE  /\ Append(entries, e) \in Seq(JournalEntry)
         /\ DOMAIN Append(entries, e) = DOMAIN entries \cup {Len(entries) + 1}
         /\ \A i \in DOMAIN entries : Append(entries, e)[i] = entries[i]
         /\ Append(entries, e)[Len(entries) + 1] = e
         /\ DOMAIN entries = 1..Len(entries)
         /\ Len(entries) \in Nat
  BY AppendProperties

(* The failures of a journal can be counted. *)
LEMMA FailuresFinite ==
  ASSUME NEW entries \in Seq(JournalEntry)
  PROVE  /\ IsFiniteSet(Failures(entries))
         /\ Cardinality(Failures(entries)) \in Nat
<1>1. IsFiniteSet(1..Len(entries))
  BY FS_Interval
<1>2. Failures(entries) \in SUBSET (1..Len(entries))
  BY DEF Failures
<1> QED
  BY <1>1, <1>2, FS_Subset, FS_CardinalityType

(* The count of failures rises by one exactly when a failure is appended. *)
LEMMA AppendFailures ==
  ASSUME NEW entries \in Seq(JournalEntry), NEW e \in JournalEntry
  PROVE  Cardinality(Failures(Append(entries, e))) =
           IF IsFailure(e.outcome) THEN Cardinality(Failures(entries)) + 1
                                   ELSE Cardinality(Failures(entries))
<1>1. Len(entries) + 1 \notin Failures(entries)
  BY DEF Failures
<1>2. Failures(Append(entries, e)) =
        IF IsFailure(e.outcome) THEN Failures(entries) \cup {Len(entries) + 1}
                                ELSE Failures(entries)
  BY AppendEntry DEF Failures
<1> QED
  BY <1>1, <1>2, FailuresFinite, FS_AddElement

(* The journal of a job that never ran has no failures and no holes. *)
LEMMA EmptyJournal ==
  /\ << >> \in Seq(JournalEntry)
  /\ Executions(<< >>) = {}
  /\ Failures(<< >>) = {}
  /\ Cardinality(Failures(<< >>)) = 0
<1>1. Executions(<< >>) = {} /\ Failures(<< >>) = {}
  BY DEF Executions, Failures
<1> QED
  BY <1>1, FS_EmptySet

(* An entry for the next run extends a hole-free journal by that run. *)
LEMMA AppendExecution ==
  ASSUME NEW entries \in Seq(JournalEntry), NEW e \in JournalEntry,
         NEW n \in Nat, n > 0, HoleFree(entries, n - 1),
         e.run_no = n, e.outcome # "merged"
  PROVE  HoleFree(Append(entries, e), n)
<1> DEFINE new == Len(entries) + 1
           longer == Append(entries, e)
<1>1. /\ Executions(longer) = Executions(entries) \cup {new}
      /\ \A i \in Executions(entries) :
           i < new /\ i \in Nat /\ longer[i] = entries[i]
      /\ longer[new].run_no = n
      /\ new \in Nat
  BY AppendEntry DEF Executions
<1> HIDE DEF new, longer
<1>2. \A i \in Executions(entries) : longer[i].run_no \in 1..(n - 1)
  BY <1>1 DEF HoleFree
<1>3. \A i \in Executions(longer) : longer[i].run_no \in 1..n
  BY <1>1, <1>2
<1>4. \A m \in 1..n : \E i \in Executions(longer) : longer[i].run_no = m
  <2> TAKE m \in 1..n
  <2>1. CASE m = n
    BY <1>1, <2>1
  <2>2. CASE m # n
    <3>1. PICK i \in Executions(entries) : entries[i].run_no = m
      BY <2>2 DEF HoleFree
    <3> QED
      BY <1>1, <3>1
  <2> QED
    BY <2>1, <2>2
<1>5. \A i, k \in Executions(longer) :
        i < k => longer[i].run_no < longer[k].run_no
  BY <1>1, <1>2, SMTT(30) DEF HoleFree
<1>6. HoleFree(longer, n)
  BY <1>3, <1>4, <1>5 DEF HoleFree
<1> QED
  BY <1>6 DEF longer

(* A merged entry changes neither the executions nor their order. *)
LEMMA AppendMerged ==
  ASSUME NEW entries \in Seq(JournalEntry), NEW e \in JournalEntry,
         NEW n \in Nat, HoleFree(entries, n), e.outcome = "merged"
  PROVE  HoleFree(Append(entries, e), n)
<1>1. /\ Executions(Append(entries, e)) = Executions(entries)
      /\ \A i \in Executions(entries) : Append(entries, e)[i] = entries[i]
  BY AppendEntry DEF Executions
<1> QED
  BY <1>1 DEF HoleFree

-----------------------------------------------------------------------------
(* Ending a claim: the row leaves "claimed" at its run, with one execution *)
(* entry for that run, and the failure count rises with it.                *)
EndedRow(old, row, outcome) ==
  /\ old.status = Claimed
  /\ outcome \in JournalOutcome \ {"merged"}
  /\ row \in Row
  /\ row.status \in Stored \ {Claimed}
  /\ row.run_count = old.run_count
  /\ row.failure_count = IF IsFailure(outcome) THEN old.failure_count + 1
                                               ELSE old.failure_count
  /\ row.finished_at # None <=> row.status \in Terminal

(* The end of a claim, with its entry, keeps the row and its journal in    *)
(* agreement: no hole, and the failure count counts.                       *)
LEMMA EndedRowInv ==
  ASSUME NEW old \in Row, NEW row, NEW outcome, NEW entries \in Seq(JournalEntry),
         RowInv(old, entries), EndedRow(old, row, outcome)
  PROVE  RowInv(row, Append(entries, Entry(old.run_count, outcome)))
<1> DEFINE n == old.run_count
           e == Entry(n, outcome)
<1>1. /\ n \in Nat /\ n > 0 /\ old.failure_count \in Nat
      /\ Concluded(old) = n - 1
      /\ Concluded(row) = n
      /\ e \in JournalEntry /\ e.run_no = n /\ e.outcome = outcome
  BY DEF EndedRow, RowInv, Row, Concluded, Entry, JournalEntry
<1>2. HoleFree(Append(entries, e), n)
  BY <1>1, AppendExecution DEF RowInv, EndedRow
<1>3. row.failure_count = Cardinality(Failures(Append(entries, e)))
  BY <1>1, AppendFailures DEF RowInv, EndedRow
<1>4. row.failure_count <= n
  BY <1>1 DEF RowInv, EndedRow
<1> QED
  BY <1>1, <1>2, <1>3, <1>4 DEF EndedRow, RowInv, Stored

(* A run in memory survives the end of a claim on its job, except the      *)
(* holder's own unless it is a recovery that ends the claim.               *)
LEMMA EndedRunInv ==
  ASSUME NEW old \in Row, NEW row, NEW outcome, NEW entries \in Seq(JournalEntry),
         EndedRow(old, row, outcome),
         NEW r \in Run, RunInv(r, old, entries),
         r.run_no # old.run_count \/ outcome = "stale-recovered"
  PROVE  RunInv(r, row, Append(entries, Entry(old.run_count, outcome)))
<1> DEFINE e == Entry(old.run_count, outcome)
           longer == Append(entries, e)
<1>1. e \in JournalEntry
  BY DEF EndedRow, Row, Entry, JournalEntry
<1>2. \E i \in DOMAIN longer : longer[i] = Entry(r.run_no, "stale-recovered")
  <2>1. CASE r.run_no = old.run_count
    BY <1>1, <2>1, AppendEntry
  <2>2. CASE r.run_no # old.run_count
    <3>1. PICK i \in DOMAIN entries :
            entries[i] = Entry(r.run_no, "stale-recovered")
      BY <2>2 DEF RunInv, Holds, EndedRow
    <3> QED
      BY <1>1, <3>1, AppendEntry
  <2> QED
    BY <2>1, <2>2
<1> QED
  BY <1>2 DEF RunInv, EndedRow, Stored

(* A row remembered from a stale scan survives the end of a claim. *)
LEMMA EndedStaleInv ==
  ASSUME NEW old \in Row, NEW row, NEW outcome, EndedRow(old, row, outcome),
         NEW s, StaleInv(s, old)
  PROVE  StaleInv(s, row)
  BY DEF StaleInv, EndedRow, Stored

-----------------------------------------------------------------------------
(* The tables after a step, as the rest of Inv sees them. *)
TablesInv ==
  /\ jobs \in [Jobs -> Row]
  /\ journal \in [Jobs -> Seq(JournalEntry)]
  /\ \A j \in Jobs : RowInv(jobs[j], journal[j])

(* What remains to be shown of memory once the tables are done. *)
MemoryInv ==
  /\ runs \subseteq Run
  /\ stale \in [Workers -> SUBSET StaleJob]
  /\ \A r \in runs : RunInv(r, jobs[r.id], journal[r.id])
  /\ \A r, q \in runs : r.id = q.id /\ r.run_no = q.run_no => r = q
  /\ \A w \in Workers : \A s \in stale[w] : StaleInv(s, jobs[s.id])

ControlInv ==
  /\ now \in Nat
  /\ mode \in [Workers -> {"up", "draining", "releasing", "down"}]
  /\ faults \in 0..MaxFaults

(* The invariant, split into what the tables, the workers' memory and the  *)
(* control state contribute.                                               *)
LEMMA InvParts == Inv <=> TablesInv /\ MemoryInv /\ ControlInv
  BY DEF Inv, TablesInv, MemoryInv, ControlInv, TypeOK

(* One transaction that ends the claim on j. *)
LEMMA ConcludeInv ==
  ASSUME TablesInv, MemoryInv, NEW j \in Jobs, NEW row, NEW outcome,
         EndedRow(jobs[j], row, outcome),
         Conclude(j, row, Entry(jobs[j].run_count, outcome))
  PROVE  /\ TablesInv'
         /\ \A r \in runs :
              \/ /\ r.id = j /\ r.run_no = jobs[j].run_count
                 /\ outcome # "stale-recovered"
              \/ RunInv(r, jobs'[r.id], journal'[r.id])
         /\ \A w \in Workers : \A s \in stale[w] : StaleInv(s, jobs'[s.id])
<1> DEFINE e == Entry(jobs[j].run_count, outcome)
<1>1. /\ jobs[j] \in Row /\ journal[j] \in Seq(JournalEntry)
      /\ RowInv(jobs[j], journal[j])
      /\ row \in Row
  BY DEF TablesInv, EndedRow
<1>2. e \in JournalEntry
  BY <1>1 DEF EndedRow, Row, Entry, JournalEntry
<1>3. Append(journal[j], e) \in Seq(JournalEntry)
  BY <1>1, <1>2, AppendEntry
<1>4. /\ jobs' \in [Jobs -> Row]
      /\ journal' \in [Jobs -> Seq(JournalEntry)]
      /\ jobs'[j] = row /\ journal'[j] = Append(journal[j], e)
      /\ \A k \in Jobs \ {j} : jobs'[k] = jobs[k] /\ journal'[k] = journal[k]
  BY <1>1, <1>3 DEF TablesInv, Conclude
<1>5. RowInv(row, Append(journal[j], e))
  BY <1>1, EndedRowInv
<1>6. TablesInv'
  BY <1>4, <1>5 DEF TablesInv
<1>7. ASSUME NEW r \in runs,
             ~ (/\ r.id = j /\ r.run_no = jobs[j].run_count
                /\ outcome # "stale-recovered")
      PROVE  RunInv(r, jobs'[r.id], journal'[r.id])
  <2>1. r \in Run /\ r.id \in Jobs /\ RunInv(r, jobs[r.id], journal[r.id])
    BY DEF MemoryInv, Run
  <2>2. CASE r.id # j
    BY <1>4, <2>1, <2>2
  <2>3. CASE r.id = j
    <3>1. RunInv(r, row, Append(journal[j], e))
      BY <1>1, <1>7, <2>1, <2>3, EndedRunInv
    <3> QED
      BY <1>4, <2>3, <3>1
  <2> QED
    BY <2>2, <2>3
<1>8. ASSUME NEW w \in Workers, NEW s \in stale[w]
      PROVE  StaleInv(s, jobs'[s.id])
  <2>1. s.id \in Jobs /\ StaleInv(s, jobs[s.id])
    BY DEF MemoryInv, StaleJob
  <2>2. CASE s.id # j
    BY <1>4, <2>1, <2>2
  <2>3. CASE s.id = j
    BY <1>1, <1>4, <2>1, <2>3, EndedStaleInv
  <2> QED
    BY <2>2, <2>3
<1> QED
  BY <1>6, <1>7, <1>8

(* Every settlement ends a claim, and counts a failure exactly when the    *)
(* entry it writes is one.                                                 *)
LEMMA SettledRowEnds ==
  ASSUME NEW row \in Row, row.status = Claimed, row.finished_at = None,
         NEW t \in Nat, NEW v \in Nat, NEW carry \in 0..MaxInt,
         NEW next \in 0..MaxInt, next = row.failure_count + 1,
         NEW s \in {Complete(t), Pause(v, carry), GiveUp(t, next),
                    Retry(v, next, carry), Release(v)}
  PROVE  /\ EndedRow(row, SettledRow(row, s), JournalOutcomeFor(s))
         /\ JournalOutcomeFor(s) # "stale-recovered"
<1>1. t # None
  BY StoreAssumption
<1>2. CASE s = Complete(t)
  <2>1. /\ SettledRow(row, s) =
             [ClearClaim(row) EXCEPT !.status = Completed, !.finished_at = t]
        /\ JournalOutcomeFor(s) = "completed"
    BY <1>2 DEF Complete, SettledRow, JournalOutcomeFor
  <2>2. SettledRow(row, s) \in Row
    BY <2>1 DEF ClearClaim, Row, Stored, Status
  <2> QED
    BY <1>1, <2>1, <2>2 DEF EndedRow, ClearClaim, Row, Stored, Terminal,
       JournalOutcome, IsFailure
<1>3. CASE s = Pause(v, carry)
  <2>1. /\ SettledRow(row, s) =
             [ClearClaim(row) EXCEPT !.status = Pending, !.visible_at = v,
                                     !.carry = carry]
        /\ JournalOutcomeFor(s) = "paused"
    BY <1>3 DEF Pause, SettledRow, JournalOutcomeFor
  <2>2. SettledRow(row, s) \in Row
    BY <2>1 DEF ClearClaim, Row, Stored, Status
  <2> QED
    BY <1>1, <2>1, <2>2 DEF EndedRow, ClearClaim, Row, Stored, Terminal,
       JournalOutcome, IsFailure
<1>4. CASE s = GiveUp(t, next)
  <2>1. /\ SettledRow(row, s) =
             [ClearClaim(row) EXCEPT !.status = Dead, !.finished_at = t,
                                     !.failure_count = next]
        /\ JournalOutcomeFor(s) = "dead"
    BY <1>4 DEF GiveUp, SettledRow, JournalOutcomeFor
  <2>2. SettledRow(row, s) \in Row
    BY <2>1 DEF ClearClaim, Row, Stored, Status
  <2> QED
    BY <1>1, <2>1, <2>2 DEF EndedRow, ClearClaim, Row, Stored, Terminal,
       JournalOutcome, IsFailure
<1>5. CASE s = Retry(v, next, carry)
  <2>1. /\ SettledRow(row, s) =
             [ClearClaim(row) EXCEPT !.status = Pending, !.visible_at = v,
                                     !.failure_count = next,
                                     !.carry = carry]
        /\ JournalOutcomeFor(s) = "retried"
    BY <1>5 DEF Retry, SettledRow, JournalOutcomeFor
  <2>2. SettledRow(row, s) \in Row
    BY <2>1 DEF ClearClaim, Row, Stored, Status
  <2> QED
    BY <1>1, <2>1, <2>2 DEF EndedRow, ClearClaim, Row, Stored, Terminal,
       JournalOutcome, IsFailure
<1>6. CASE s = Release(v)
  <2>1. /\ SettledRow(row, s) =
             [ClearClaim(row) EXCEPT !.status = Pending, !.visible_at = v]
        /\ JournalOutcomeFor(s) = "released"
    BY <1>6 DEF Release, SettledRow, JournalOutcomeFor
  <2>2. SettledRow(row, s) \in Row
    BY <2>1 DEF ClearClaim, Row, Stored, Status
  <2> QED
    BY <1>1, <2>1, <2>2 DEF EndedRow, ClearClaim, Row, Stored, Terminal,
       JournalOutcome, IsFailure
<1> QED
  BY <1>2, <1>3, <1>4, <1>5, <1>6

(* While a run holds its claim, the failure count it remembers is the      *)
(* row's, and the next one is within the column's range.                   *)
LEMMA HeldRow ==
  ASSUME TablesInv, MemoryInv, NEW r \in runs,
         Holds(jobs[r.id], Identity[r.worker], r.run_no)
  PROVE  /\ r \in Run /\ r.id \in Jobs
         /\ jobs[r.id] \in Row
         /\ jobs[r.id].status = Claimed
         /\ jobs[r.id].run_count = r.run_no
         /\ jobs[r.id].finished_at = None
         /\ r.failure_count = jobs[r.id].failure_count
         /\ r.carry = jobs[r.id].carry
         /\ SaturatingInc(r.failure_count) = jobs[r.id].failure_count + 1
         /\ SaturatingInc(r.failure_count) \in 0..MaxInt
<1>1. /\ r \in Run /\ r.id \in Jobs /\ RunInv(r, jobs[r.id], journal[r.id])
      /\ jobs[r.id] \in Row /\ RowInv(jobs[r.id], journal[r.id])
  BY DEF TablesInv, MemoryInv, Run
<1>2. /\ jobs[r.id].status = Claimed
      /\ jobs[r.id].run_count = r.run_no
      /\ r.failure_count = jobs[r.id].failure_count
      /\ r.carry = jobs[r.id].carry
  BY <1>1 DEF RunInv, Holds
<1>3. jobs[r.id].finished_at = None
  BY <1>1, <1>2 DEF RowInv, Terminal
<1>4. jobs[r.id].failure_count < jobs[r.id].run_count
  BY <1>1, <1>2 DEF RowInv, Row, Concluded
<1>5. /\ SaturatingInc(r.failure_count) = jobs[r.id].failure_count + 1
      /\ SaturatingInc(r.failure_count) \in 0..MaxInt
  BY <1>1, <1>2, <1>4, StoreAssumption DEF Row, SaturatingInc
<1> QED
  BY <1>1, <1>2, <1>3, <1>5

(* What settle computes from a report is one of those settlements. *)
LEMMA SettlementForms ==
  ASSUME NEW r \in Run, NEW behaviour \in Behaviours, NEW delay \in Delays,
         NEW next
  PROVE  LET report == ReportFor(r, behaviour)
         IN  /\ report.carry \in {r.carry, r.run_no}
             /\ SettlementFor(report, delay, next)
                  \in {Complete(now), Pause(now + delay, report.carry),
                       GiveUp(now, next),
                       Retry(now + delay, next, report.carry)}
<1> DEFINE report == ReportFor(r, behaviour)
<1>1. report.carry \in {r.carry, r.run_no}
  BY DEF ReportFor
<1>2. report.result \in {"completed", "pause", "permanent", "retryable"}
  BY DEF ReportFor
<1> HIDE DEF report
<1>3. SettlementFor(report, delay, next)
        \in {Complete(now), Pause(now + delay, report.carry),
             GiveUp(now, next), Retry(now + delay, next, report.carry)}
  BY <1>2 DEF SettlementFor, RetryOrBackstop
<1> QED
  BY <1>1, <1>3 DEF report

(* A settlement that applies ends the claim of the run it is for. *)
LEMMA SettlementEnds ==
  ASSUME TablesInv, MemoryInv, now \in Nat, NEW r \in runs,
         NEW behaviour \in Behaviours, NEW delay \in Delays,
         Holds(jobs[r.id], Identity[r.worker], r.run_no),
         NEW s, s = SettlementFor(ReportFor(r, behaviour), delay,
                                  SaturatingInc(r.failure_count))
  PROVE  /\ EndedRow(jobs[r.id], SettledRow(jobs[r.id], s),
                     JournalOutcomeFor(s))
         /\ JournalOutcomeFor(s) # "stale-recovered"
<1> DEFINE report == ReportFor(r, behaviour)
           next == SaturatingInc(r.failure_count)
<1>1. now + delay \in Nat
  BY LifecycleAssumption
<1>2. s \in {Complete(now), Pause(now + delay, report.carry),
             GiveUp(now, next), Retry(now + delay, next, report.carry)}
  BY HeldRow, SettlementForms
<1>3. report.carry \in 0..MaxInt
  <2>1. report.carry \in {r.carry, r.run_no} /\ r \in Run
    BY HeldRow, SettlementForms
  <2> HIDE DEF report
  <2> QED
    BY <2>1 DEF Run
<1>4. /\ jobs[r.id] \in Row /\ jobs[r.id].status = Claimed
      /\ jobs[r.id].finished_at = None
      /\ next \in 0..MaxInt /\ next = jobs[r.id].failure_count + 1
  BY HeldRow
<1> HIDE DEF report, next
<1> QED
  BY <1>1, <1>2, <1>3, <1>4, SettledRowEnds

-----------------------------------------------------------------------------
(* Each action preserves the invariant. *)

(* settle and release: the run that settles is the only one of its epoch,  *)
(* so the others keep what Inv says of them.                               *)
LEMMA ApplySettlementInv ==
  ASSUME TablesInv, MemoryInv, NEW r \in runs, NEW s,
         ApplySettlement(r, s), runs' = runs \ {r}, UNCHANGED stale,
         Holds(jobs[r.id], Identity[r.worker], r.run_no) =>
           /\ EndedRow(jobs[r.id], SettledRow(jobs[r.id], s),
                       JournalOutcomeFor(s))
           /\ JournalOutcomeFor(s) # "stale-recovered"
  PROVE  TablesInv' /\ MemoryInv'
<1>1. CASE ~ Holds(jobs[r.id], Identity[r.worker], r.run_no)
  <2>1. UNCHANGED <<jobs, journal>>
    BY <1>1 DEF ApplySettlement
  <2>2. TablesInv'
    BY <2>1 DEF TablesInv
  <2>3. MemoryInv'
    BY <2>1 DEF MemoryInv
  <2> QED
    BY <2>2, <2>3
<1>2. CASE Holds(jobs[r.id], Identity[r.worker], r.run_no)
  <2>1. r \in Run /\ r.id \in Jobs /\ jobs[r.id].run_count = r.run_no
    BY <1>2, HeldRow
  <2>2. Conclude(r.id, SettledRow(jobs[r.id], s),
                 Entry(jobs[r.id].run_count, JournalOutcomeFor(s)))
    BY <1>2, <2>1 DEF ApplySettlement
  <2>3. /\ TablesInv'
        /\ \A q \in runs :
             \/ q.id = r.id /\ q.run_no = r.run_no
             \/ RunInv(q, jobs'[q.id], journal'[q.id])
        /\ \A w \in Workers : \A x \in stale[w] : StaleInv(x, jobs'[x.id])
    BY <1>2, <2>1, <2>2, ConcludeInv
  <2>4. \A q \in runs' : q \in runs /\ RunInv(q, jobs'[q.id], journal'[q.id])
    BY <2>3 DEF MemoryInv
  <2>5. MemoryInv'
    BY <2>3, <2>4 DEF MemoryInv
  <2> QED
    BY <2>3, <2>5
<1> QED
  BY <1>1, <1>2

(* reap, and the join loop of force_finish, keep the invariant. *)
LEMMA SettleInv ==
  ASSUME Inv, NEW r \in runs, NEW behaviour \in Behaviours, NEW delay \in Delays,
         Settle(r, behaviour, delay)
  PROVE  Inv'
<1> DEFINE s == SettlementFor(ReportFor(r, behaviour), delay,
                              SaturatingInc(r.failure_count))
<1>1. TablesInv /\ MemoryInv /\ ControlInv /\ now \in Nat
  BY InvParts DEF ControlInv
<1>2. /\ ApplySettlement(r, s) /\ runs' = runs \ {r}
      /\ UNCHANGED <<now, stale, mode, faults>>
  BY DEF Settle
<1>3. Holds(jobs[r.id], Identity[r.worker], r.run_no) =>
        /\ EndedRow(jobs[r.id], SettledRow(jobs[r.id], s),
                    JournalOutcomeFor(s))
        /\ JournalOutcomeFor(s) # "stale-recovered"
  BY <1>1, SettlementEnds
<1> HIDE DEF s
<1>4. TablesInv' /\ MemoryInv'
  BY <1>1, <1>2, <1>3, ApplySettlementInv
<1>5. ControlInv'
  BY <1>1, <1>2 DEF ControlInv
<1> QED
  BY <1>4, <1>5, InvParts, PTL

(* The release of an aborted handler's claim keeps the invariant. *)
LEMMA ReleaseRunInv ==
  ASSUME Inv, NEW r \in runs, ReleaseRun(r)
  PROVE  Inv'
<1> DEFINE s == Release(now)
<1>1. TablesInv /\ MemoryInv /\ ControlInv /\ now \in Nat
  BY InvParts DEF ControlInv
<1>2. /\ ApplySettlement(r, s) /\ runs' = runs \ {r}
      /\ UNCHANGED <<now, stale, mode, faults>>
  BY DEF ReleaseRun
<1>3. Holds(jobs[r.id], Identity[r.worker], r.run_no) =>
        /\ EndedRow(jobs[r.id], SettledRow(jobs[r.id], s),
                    JournalOutcomeFor(s))
        /\ JournalOutcomeFor(s) # "stale-recovered"
  <2> HAVE Holds(jobs[r.id], Identity[r.worker], r.run_no)
  <2> DEFINE next == SaturatingInc(r.failure_count)
  <2>1. /\ jobs[r.id] \in Row /\ jobs[r.id].status = Claimed
        /\ jobs[r.id].finished_at = None
        /\ next \in 0..MaxInt /\ next = jobs[r.id].failure_count + 1
    BY <1>1, HeldRow
  <2>2. 0 \in 0..MaxInt
    BY StoreAssumption
  <2> HIDE DEF next
  <2> QED
    BY <1>1, <2>1, <2>2, SettledRowEnds
<1> HIDE DEF s
<1>4. TablesInv' /\ MemoryInv'
  BY <1>1, <1>2, <1>3, ApplySettlementInv
<1>5. ControlInv'
  BY <1>1, <1>2 DEF ControlInv
<1> QED
  BY <1>4, <1>5, InvParts, PTL

(* A recovery that applies ends the claim its scan saw. *)
LEMMA RecoveredRowEnds ==
  ASSUME Inv, NEW w \in Workers, NEW s \in stale[w], NEW delay \in Delays,
         Recoverable(jobs[s.id], s.run_no, now)
  PROVE  /\ s.id \in Jobs
         /\ EndedRow(jobs[s.id],
                     RecoveredRow(jobs[s.id], now + delay,
                                  SaturatingInc(s.failure_count)),
                     "stale-recovered")
<1> DEFINE old == jobs[s.id]
           row == RecoveredRow(old, now + delay, SaturatingInc(s.failure_count))
<1>1. TablesInv /\ MemoryInv /\ now + delay \in Nat
  BY InvParts, LifecycleAssumption DEF ControlInv
<1>2. /\ s.id \in Jobs /\ old \in Row /\ RowInv(old, journal[s.id])
      /\ StaleInv(s, old)
  BY <1>1 DEF TablesInv, MemoryInv, StaleJob
<1>3. old.status = Claimed /\ old.run_count = s.run_no
  BY DEF Recoverable, Expired
<1>4. /\ SaturatingInc(s.failure_count) = old.failure_count + 1
      /\ old.failure_count + 1 \in 0..MaxInt
  <2>1. s.failure_count = old.failure_count
    BY <1>2, <1>3 DEF StaleInv
  <2>2. old.failure_count < old.run_count
    BY <1>2, <1>3 DEF RowInv, Row, Concluded
  <2> HIDE DEF old
  <2> QED
    BY <1>2, <2>1, <2>2, StoreAssumption DEF Row, SaturatingInc
<1>5. old.finished_at = None
  BY <1>2, <1>3 DEF RowInv, Terminal
<1>6. row = [ClearClaim(old) EXCEPT !.status = Pending,
                                    !.visible_at = now + delay,
                                    !.failure_count = old.failure_count + 1]
  BY <1>4 DEF RecoveredRow
<1> HIDE DEF old, row
<1>7. row \in Row
  BY <1>1, <1>2, <1>4, <1>6 DEF ClearClaim, Row, Stored, Status
<1>8. EndedRow(old, row, "stale-recovered")
  BY <1>2, <1>3, <1>5, <1>6, <1>7
  DEF EndedRow, ClearClaim, Row, Stored, Terminal, JournalOutcome, IsFailure
<1> QED
  BY <1>2, <1>8 DEF old, row

(* recover keeps the invariant. *)
LEMMA RecoverInv ==
  ASSUME Inv, NEW w \in Workers, NEW s \in stale[w], NEW delay \in Delays,
         Recover(w, s, delay)
  PROVE  Inv'
<1>1. TablesInv /\ MemoryInv /\ ControlInv /\ now + delay \in Nat
  BY InvParts, LifecycleAssumption DEF ControlInv
<1>2. /\ stale' = [stale EXCEPT ![w] = @ \ {s}]
      /\ UNCHANGED <<now, runs, mode, faults>>
  BY DEF Recover
<1>3. ControlInv'
  BY <1>1, <1>2 DEF ControlInv
<1>4. /\ stale' \in [Workers -> SUBSET StaleJob]
      /\ \A v \in Workers : stale'[v] \subseteq stale[v]
  BY <1>1, <1>2 DEF MemoryInv
<1>5. CASE ~ Recoverable(jobs[s.id], s.run_no, now)
  <2>1. UNCHANGED <<jobs, journal>>
    BY <1>5 DEF Recover
  <2>2. TablesInv' /\ MemoryInv'
    BY <1>1, <1>2, <1>4, <2>1 DEF TablesInv, MemoryInv
  <2> QED
    BY <1>3, <2>2, InvParts, PTL
<1>6. CASE Recoverable(jobs[s.id], s.run_no, now)
  <2> DEFINE old == jobs[s.id]
             row == RecoveredRow(old, now + delay, SaturatingInc(s.failure_count))
  <2>1. s.id \in Jobs /\ EndedRow(old, row, "stale-recovered")
    BY <1>6, RecoveredRowEnds
  <2>2. old.run_count = s.run_no
    BY <1>6 DEF Recoverable
  <2>3. Conclude(s.id, row, Entry(old.run_count, "stale-recovered"))
    BY <1>6, <2>2 DEF Recover
  <2> HIDE DEF row
  <2>4. /\ TablesInv'
        /\ \A r \in runs : RunInv(r, jobs'[r.id], journal'[r.id])
        /\ \A v \in Workers : \A x \in stale[v] : StaleInv(x, jobs'[x.id])
    BY <1>1, <2>1, <2>3, ConcludeInv
  <2>5. MemoryInv'
    BY <1>1, <1>2, <1>4, <2>4 DEF MemoryInv
  <2> QED
    BY <1>3, <2>4, <2>5, InvParts, PTL
<1> QED
  BY <1>5, <1>6

(* A fresh job has no history and nobody remembers it. *)
LEMMA EnqueueInv ==
  ASSUME Inv, NEW j \in Jobs, NEW delay \in Delays, Enqueue(j, delay)
  PROVE  Inv'
<1>1. TablesInv /\ MemoryInv /\ ControlInv /\ now + delay \in Nat
  BY InvParts, LifecycleAssumption DEF ControlInv
<1> DEFINE row == EnqueuedRow(now + delay)
<1>2. /\ row \in Row /\ row.status = Pending /\ row.run_count = 0
      /\ row.failure_count = 0 /\ row.finished_at = None
  BY <1>1, EnqueuedRowFacts
<1> HIDE DEF row
<1>3. /\ jobs[j].status = "absent" /\ journal[j] = << >>
      /\ jobs' = [jobs EXCEPT ![j] = row]
      /\ UNCHANGED <<now, journal, runs, stale, mode, faults>>
  BY <1>1 DEF Enqueue, TablesInv, RowInv, row
<1>4. RowInv(row, << >>)
  <2>1. HoleFree(<< >>, 0)
    BY EmptyJournal DEF HoleFree
  <2> QED
    BY <1>2, <2>1, EmptyJournal DEF RowInv, Concluded, Terminal
<1>5. TablesInv'
  BY <1>1, <1>2, <1>3, <1>4 DEF TablesInv
<1>6. MemoryInv'
  <2>1. \A r \in runs : r.id \in Jobs \ {j}
    BY <1>1, <1>3 DEF MemoryInv, RunInv, Run
  <2>2. \A w \in Workers : \A s \in stale[w] : s.id \in Jobs \ {j}
    BY <1>1, <1>3 DEF MemoryInv, StaleInv, StaleJob
  <2>3. \A k \in Jobs \ {j} : jobs'[k] = jobs[k]
    BY <1>1, <1>3 DEF TablesInv
  <2> QED
    BY <1>1, <1>3, <2>1, <2>2, <2>3 DEF MemoryInv
<1>7. ControlInv'
  BY <1>1, <1>3 DEF ControlInv
<1> QED
  BY <1>5, <1>6, <1>7, InvParts, PTL

(* A merge touches a pending row, so nothing a worker remembers as live,   *)
(* and its entry is not an execution.                                      *)
LEMMA MergeIntoInv ==
  ASSUME Inv, NEW j \in Jobs, NEW n \in 0..jobs[j].run_count,
         NEW replaces \in BOOLEAN, MergeInto(j, n, replaces)
  PROVE  Inv'
<1>1. TablesInv /\ MemoryInv /\ ControlInv
  BY InvParts
<1> DEFINE old == jobs[j]
           row == MergedRow(old, replaces)
           e == Entry(n, "merged")
           longer == Append(journal[j], e)
<1>2. /\ old \in Row /\ old.status = Pending /\ RowInv(old, journal[j])
      /\ journal[j] \in Seq(JournalEntry)
      /\ jobs' = [jobs EXCEPT ![j] = row]
      /\ journal' = [journal EXCEPT ![j] = longer]
      /\ UNCHANGED <<now, runs, stale, mode, faults>>
  BY <1>1 DEF MergeInto, Mergeable, Conclude, TablesInv
<1>3. /\ row \in Row /\ row.status = Pending
      /\ row.run_count = old.run_count
      /\ row.failure_count = old.failure_count
      /\ row.finished_at = old.finished_at
  BY <1>2, MergedRowFacts
<1>4. e \in JournalEntry /\ e.outcome = "merged" /\ ~ IsFailure(e.outcome)
  <2>0. jobs[j].run_count \in 0..MaxInt
    BY <1>2 DEF Row
  <2>1. n \in 0..MaxInt
    BY <2>0, StoreAssumption
  <2> QED
    BY <2>1 DEF Entry, JournalEntry, JournalOutcome, IsFailure
<1>5. /\ longer \in Seq(JournalEntry)
      /\ Cardinality(Failures(longer)) = Cardinality(Failures(journal[j]))
      /\ \A i \in DOMAIN journal[j] :
           i \in DOMAIN longer /\ longer[i] = journal[j][i]
  BY <1>2, <1>4, AppendEntry, AppendFailures
<1>6. HoleFree(longer, old.run_count)
  BY <1>2, <1>4, AppendMerged DEF RowInv, Concluded, Row
<1> HIDE DEF old, row, e, longer
<1>7. RowInv(row, longer)
  BY <1>2, <1>3, <1>5, <1>6 DEF RowInv, Concluded
<1>8. TablesInv'
  BY <1>1, <1>2, <1>3, <1>5, <1>7 DEF TablesInv
<1>9. /\ jobs'[j] = row /\ journal'[j] = longer
      /\ \A k \in Jobs \ {j} : jobs'[k] = jobs[k] /\ journal'[k] = journal[k]
  BY <1>1, <1>2 DEF TablesInv
<1>10. ASSUME NEW r \in runs
       PROVE  RunInv(r, jobs'[r.id], journal'[r.id])
  <2>1. r.id \in Jobs /\ RunInv(r, jobs[r.id], journal[r.id])
    BY <1>1 DEF MemoryInv, Run
  <2>2. CASE r.id # j
    BY <1>9, <2>1, <2>2
  <2>3. CASE r.id = j
    <3>1. RunInv(r, old, journal[j])
      BY <2>1, <2>3 DEF old
    <3>2. RunInv(r, row, longer)
      BY <1>2, <1>3, <1>5, <3>1 DEF RunInv, Holds
    <3> QED
      BY <1>9, <2>3, <3>2
  <2> QED
    BY <2>2, <2>3
<1>11. ASSUME NEW w \in Workers, NEW s \in stale[w]
       PROVE  StaleInv(s, jobs'[s.id])
  <2>1. s.id \in Jobs /\ StaleInv(s, jobs[s.id])
    BY <1>1 DEF MemoryInv, StaleJob
  <2>2. CASE s.id # j
    BY <1>9, <2>1, <2>2
  <2>3. CASE s.id = j
    BY <1>2, <1>3, <1>9, <2>1, <2>3 DEF StaleInv, old
  <2> QED
    BY <2>2, <2>3
<1>12. MemoryInv'
  BY <1>1, <1>2, <1>10, <1>11 DEF MemoryInv
<1>13. ControlInv'
  BY <1>1, <1>2 DEF ControlInv
<1> QED
  BY <1>8, <1>12, <1>13, InvParts, PTL

(* cleanup removes rows with their journal, and only finished ones. *)
LEMMA CleanupInv ==
  ASSUME Inv, NEW cutoff \in Nat, NEW status, Cleanup(cutoff, status)
  PROVE  Inv'
<1>1. TablesInv /\ MemoryInv /\ ControlInv
  BY InvParts
<1> DEFINE removed == {j \in Jobs : Removable(jobs[j], cutoff, status)}
<1>2.   /\ removed \subseteq Jobs
        /\ jobs' = [j \in Jobs |-> IF j \in removed THEN DeletedRow
                                                    ELSE jobs[j]]
        /\ journal' = [j \in Jobs |-> IF j \in removed THEN << >>
                                                       ELSE journal[j]]
        /\ UNCHANGED <<now, runs, stale, mode, faults>>
  BY DEF Cleanup
<1> HIDE DEF removed
<1>3. DeletedRow \in Row /\ RowInv(DeletedRow, << >>)
  <2>1. HoleFree(<< >>, 0)
    BY EmptyJournal DEF HoleFree
  <2>2. DeletedRow \in Row
    BY StoreAssumption DEF DeletedRow, AbsentRow, Row, Status
  <2>3. /\ DeletedRow.status = "deleted" /\ DeletedRow.run_count = 0
        /\ DeletedRow.failure_count = 0 /\ DeletedRow.finished_at = None
    BY DEF DeletedRow, AbsentRow
  <2> QED
    BY <2>1, <2>2, <2>3, EmptyJournal DEF RowInv, Concluded, Terminal
<1>4. TablesInv'
  BY <1>1, <1>2, <1>3, EmptyJournal DEF TablesInv
<1>5. \A j \in Jobs :
        IF j \in removed THEN jobs'[j].status = "deleted"
                         ELSE jobs'[j] = jobs[j] /\ journal'[j] = journal[j]
  BY <1>2 DEF DeletedRow, AbsentRow
<1>6. ASSUME NEW r \in runs
      PROVE  RunInv(r, jobs'[r.id], journal'[r.id])
  <2>1. r.id \in Jobs /\ RunInv(r, jobs[r.id], journal[r.id])
    BY <1>1 DEF MemoryInv, Run
  <2>2. CASE r.id \notin removed
    BY <1>5, <2>1, <2>2
  <2>3. CASE r.id \in removed
    BY <1>5, <2>1, <2>3 DEF RunInv
  <2> QED
    BY <2>2, <2>3
<1>7. ASSUME NEW w \in Workers, NEW s \in stale[w]
      PROVE  StaleInv(s, jobs'[s.id])
  <2>1. s.id \in Jobs /\ StaleInv(s, jobs[s.id])
    BY <1>1 DEF MemoryInv, StaleJob
  <2> QED
    BY <1>5, <2>1 DEF StaleInv
<1>8. MemoryInv'
  BY <1>1, <1>2, <1>6, <1>7 DEF MemoryInv
<1>9. ControlInv'
  BY <1>1, <1>2 DEF ControlInv
<1> QED
  BY <1>4, <1>8, <1>9, InvParts, PTL

(* What a claim of j does to the tables, and to what memory knew before:   *)
(* every run and scanned row of j is of an earlier epoch.                  *)
LEMMA ClaimTables ==
  ASSUME Inv, NEW w \in Workers, NEW j \in Jobs, CanClaim(w, j),
         jobs' = [jobs EXCEPT ![j] = ClaimedRow(@, Identity[w], now + Lease)],
         UNCHANGED journal
  PROVE  /\ TablesInv'
         /\ jobs[j] \in Row /\ jobs'[j] \in Row
         /\ jobs'[j].run_count = jobs[j].run_count + 1
         /\ jobs'[j].status = Claimed
         /\ jobs'[j].failure_count = jobs[j].failure_count
         /\ jobs'[j].carry = jobs[j].carry
         /\ jobs'[j].claimed_by = Identity[w]
         /\ \A r \in runs : RunInv(r, jobs'[r.id], journal'[r.id])
         /\ \A v \in Workers : \A s \in stale[v] : StaleInv(s, jobs'[s.id])
         /\ \A r \in runs : r.id = j => r.run_no < jobs'[j].run_count
<1> DEFINE old == jobs[j]
           row == ClaimedRow(old, Identity[w], now + Lease)
<1>1. TablesInv /\ MemoryInv /\ ControlInv
  BY InvParts
<1>2. /\ old \in Row /\ RowInv(old, journal[j]) /\ old.status = Pending
      /\ old.run_count < MaxInt
      /\ journal[j] \in Seq(JournalEntry)
  BY <1>1 DEF TablesInv, CanClaim, Eligible
<1>3. Identity[w] \in Identities /\ now + Lease \in Nat
  BY <1>1, LifecycleAssumption DEF ControlInv
<1>4. /\ row \in Row /\ row.status = Claimed
      /\ row.run_count = old.run_count + 1
      /\ row.failure_count = old.failure_count
      /\ row.carry = old.carry
      /\ row.claimed_by = Identity[w]
      /\ row.claim_expires_at \in Nat
      /\ row.finished_at = old.finished_at
  BY <1>2, <1>3, ClaimedRowFacts
<1>5. /\ jobs'[j] = row /\ journal'[j] = journal[j]
      /\ jobs' \in [Jobs -> Row]
      /\ \A k \in Jobs \ {j} : jobs'[k] = jobs[k] /\ journal'[k] = journal[k]
  BY <1>1, <1>4 DEF TablesInv
<1>6. old.run_count \in Nat
  BY <1>2 DEF Row
<1> HIDE DEF old, row
<1>7. RowInv(row, journal[j])
  <2>1. Concluded(row) = old.run_count /\ Concluded(old) = old.run_count
    BY <1>2, <1>4, <1>6 DEF Concluded
  <2> QED
    BY <1>2, <1>4, <1>6, <2>1 DEF RowInv, Terminal
<1>8. TablesInv'
  BY <1>1, <1>5, <1>7 DEF TablesInv
<1>9. ASSUME NEW r \in runs
      PROVE  /\ RunInv(r, jobs'[r.id], journal'[r.id])
             /\ r.id = j => r.run_no < row.run_count
  <2>1. r \in Run /\ r.id \in Jobs /\ RunInv(r, jobs[r.id], journal[r.id])
    BY <1>1 DEF MemoryInv, Run
  <2>2. CASE r.id # j
    BY <1>5, <2>1, <2>2
  <2>3. CASE r.id = j
    <3>1. RunInv(r, old, journal[j])
      BY <2>1, <2>3 DEF old
    <3>2. r.run_no \in 1..old.run_count
      BY <1>2, <3>1 DEF RunInv
    <3>3. /\ r.run_no \in 1..row.run_count
          /\ r.run_no < row.run_count
      BY <1>4, <1>6, <3>2
    <3>4. \E i \in DOMAIN journal[j] :
            journal[j][i] = Entry(r.run_no, "stale-recovered")
      BY <1>2, <3>1 DEF RunInv, Holds
    <3>5. RunInv(r, row, journal[j])
      BY <1>4, <3>2, <3>3, <3>4 DEF RunInv
    <3> QED
      BY <1>5, <2>3, <3>3, <3>5
  <2> QED
    BY <2>2, <2>3
<1>10. ASSUME NEW v \in Workers, NEW s \in stale[v]
       PROVE  StaleInv(s, jobs'[s.id])
  <2>1. s.id \in Jobs /\ StaleInv(s, jobs[s.id])
    BY <1>1 DEF MemoryInv, StaleJob
  <2>2. CASE s.id # j
    BY <1>5, <2>1, <2>2
  <2>3. CASE s.id = j
    <3>1. StaleInv(s, old)
      BY <2>1, <2>3 DEF old
    <3>2. s.run_no \in 1..old.run_count
      BY <1>2, <3>1 DEF StaleInv
    <3>3. StaleInv(s, row)
      BY <1>4, <1>6, <3>2 DEF StaleInv
    <3> QED
      BY <1>5, <2>3, <3>3
  <2> QED
    BY <2>2, <2>3
<1> QED
  BY <1>2, <1>4, <1>5, <1>8, <1>9, <1>10 DEF old

(* claim_next hands out an epoch no run in memory has. *)
LEMMA ClaimInv ==
  ASSUME Inv, NEW w \in Workers, NEW j \in Jobs, Claim(w, j)
  PROVE  Inv'
<1> DEFINE new == [worker |-> w, id |-> j, run_no |-> jobs'[j].run_count,
                   failure_count |-> jobs[j].failure_count,
                   carry |-> jobs[j].carry, phase |-> "claimed"]
<1>1. TablesInv /\ MemoryInv /\ ControlInv
  BY InvParts
<1>2. /\ CanClaim(w, j)
      /\ jobs' = [jobs EXCEPT ![j] = ClaimedRow(@, Identity[w], now + Lease)]
      /\ runs' = runs \cup {new}
      /\ UNCHANGED <<now, journal, stale, mode, faults>>
  BY DEF Claim
<1>3. /\ TablesInv'
      /\ jobs[j] \in Row /\ jobs'[j] \in Row
      /\ jobs'[j].run_count = jobs[j].run_count + 1
      /\ jobs'[j].status = Claimed
      /\ jobs'[j].failure_count = jobs[j].failure_count
      /\ jobs'[j].carry = jobs[j].carry
      /\ jobs'[j].claimed_by = Identity[w]
      /\ \A r \in runs : RunInv(r, jobs'[r.id], journal'[r.id])
      /\ \A v \in Workers : \A s \in stale[v] : StaleInv(s, jobs'[s.id])
      /\ \A r \in runs : r.id = j => r.run_no < jobs'[j].run_count
  BY <1>2, ClaimTables
<1>4. /\ new \in Run /\ new.worker = w /\ new.id = j
      /\ new.run_no = jobs'[j].run_count
      /\ new.failure_count = jobs[j].failure_count
      /\ new.carry = jobs[j].carry
  BY <1>3 DEF Run, Row
<1> HIDE DEF new
<1>5. RunInv(new, jobs'[new.id], journal'[new.id])
  <2>1. jobs'[j].run_count \in 1..jobs'[j].run_count
    BY <1>3 DEF Row
  <2> QED
    BY <1>3, <1>4, <2>1 DEF RunInv, Holds
<1>6. \A r \in runs : r.id = j => r.run_no # new.run_no
  <2> SUFFICES ASSUME NEW r \in runs, r.id = j
               PROVE  r.run_no # new.run_no
    OBVIOUS
  <2>1. r.run_no \in Nat /\ jobs'[j].run_count \in Nat
    BY <1>1, <1>3 DEF MemoryInv, Run, Row
  <2> QED
    BY <1>3, <1>4, <2>1
<1>7. MemoryInv'
  BY <1>1, <1>2, <1>3, <1>4, <1>5, <1>6 DEF MemoryInv
<1>8. ControlInv'
  BY <1>1, <1>2 DEF ControlInv
<1> QED
  BY <1>3, <1>7, <1>8, InvParts, PTL

(* A claim whose reply is lost leaves a claimed row that nobody runs. *)
LEMMA ClaimReplyLostInv ==
  ASSUME Inv, NEW w \in Workers, NEW j \in Jobs, ClaimReplyLost(w, j)
  PROVE  Inv'
<1>1. TablesInv /\ MemoryInv /\ ControlInv
  BY InvParts
<1>2. /\ CanClaim(w, j)
      /\ jobs' = [jobs EXCEPT ![j] = ClaimedRow(@, Identity[w], now + Lease)]
      /\ faults < MaxFaults /\ faults' = faults + 1
      /\ UNCHANGED <<now, journal, runs, stale, mode>>
  BY DEF ClaimReplyLost, Fault
<1>3. /\ TablesInv'
      /\ \A r \in runs : RunInv(r, jobs'[r.id], journal'[r.id])
      /\ \A v \in Workers : \A s \in stale[v] : StaleInv(s, jobs'[s.id])
  BY <1>2, ClaimTables
<1>4. MemoryInv'
  BY <1>1, <1>2, <1>3 DEF MemoryInv
<1>5. ControlInv'
  BY <1>1, <1>2, LifecycleAssumption DEF ControlInv
<1> QED
  BY <1>3, <1>4, <1>5, InvParts, PTL

(* spawn moves a run from "claimed" to "running", and may extend the lease *)
(* of the claim it still holds: nothing Inv says depends on either.        *)
LEMMA SpawnInv ==
  ASSUME Inv, NEW r \in runs, NEW lease \in TaskLeases \cup {None},
         Spawn(r, lease)
  PROVE  Inv'
<1> DEFINE old == jobs[r.id]
           extends == lease # None /\ Holds(old, Identity[r.worker], r.run_no)
           row == IF extends THEN LeasedRow(old, now + lease) ELSE old
           new == [r EXCEPT !.phase = "running"]
<1>1. TablesInv /\ MemoryInv /\ ControlInv
  BY InvParts
<1>2. /\ r \in Run /\ r.id \in Jobs /\ old \in Row
      /\ RowInv(old, journal[r.id])
  BY <1>1 DEF MemoryInv, TablesInv, Run
<1>3. /\ jobs' = [jobs EXCEPT ![r.id] = row]
      /\ runs' = (runs \ {r}) \cup {new}
      /\ UNCHANGED <<now, journal, stale, mode, faults>>
  BY DEF Spawn
<1>4. /\ row \in Row /\ row.status = old.status
      /\ row.run_count = old.run_count
      /\ row.failure_count = old.failure_count
      /\ row.carry = old.carry
      /\ row.claimed_by = old.claimed_by
      /\ row.finished_at = old.finished_at
      /\ row = old \/ (row.claim_expires_at \in Nat /\ row.status = Claimed)
  <2> HIDE DEF old
  <2>1. CASE extends
    <3>1. now + lease \in Nat
      BY <1>1, <2>1, LifecycleAssumption DEF ControlInv
    <3>2. row = [old EXCEPT !.claim_expires_at = now + lease]
      BY <2>1 DEF LeasedRow
    <3>3. old.status = Claimed
      BY <2>1 DEF Holds
    <3> HIDE DEF row
    <3> QED
      BY <1>2, <3>1, <3>2, <3>3 DEF Row
  <2>2. CASE ~ extends
    <3>1. row = old
      BY <2>2
    <3> HIDE DEF row
    <3> QED
      BY <1>2, <3>1
  <2> QED
    BY <2>1, <2>2
<1>5. /\ new \in Run /\ new.worker = r.worker /\ new.id = r.id
      /\ new.run_no = r.run_no /\ new.failure_count = r.failure_count
      /\ new.carry = r.carry
  BY <1>2 DEF Run
<1>6. /\ jobs'[r.id] = row /\ jobs' \in [Jobs -> Row]
      /\ \A k \in Jobs \ {r.id} : jobs'[k] = jobs[k]
  BY <1>1, <1>2, <1>3, <1>4 DEF TablesInv
<1> HIDE DEF old, row, new, extends
<1>7. RowInv(row, journal[r.id])
  BY <1>2, <1>4 DEF RowInv, Concluded, AbsentRow, DeletedRow
<1>8. TablesInv'
  BY <1>1, <1>2, <1>3, <1>6, <1>7 DEF TablesInv
<1>9. ASSUME NEW q \in runs
      PROVE  RunInv(q, jobs'[q.id], journal'[q.id])
  <2>1. q.id \in Jobs /\ RunInv(q, jobs[q.id], journal[q.id])
    BY <1>1 DEF MemoryInv, Run
  <2>2. CASE q.id # r.id
    BY <1>3, <1>6, <2>1, <2>2
  <2>3. CASE q.id = r.id
    <3>1. RunInv(q, old, journal[r.id])
      BY <2>1, <2>3 DEF old
    <3>2. RunInv(q, row, journal[r.id])
      BY <1>4, <3>1 DEF RunInv, Holds
    <3> QED
      BY <1>3, <1>6, <2>3, <3>2
  <2> QED
    BY <2>2, <2>3
<1>10. RunInv(new, jobs'[new.id], journal'[new.id])
  BY <1>5, <1>9 DEF RunInv
<1>11. ASSUME NEW w \in Workers, NEW s \in stale[w]
       PROVE  StaleInv(s, jobs'[s.id])
  <2>1. s.id \in Jobs /\ StaleInv(s, jobs[s.id])
    BY <1>1 DEF MemoryInv, StaleJob
  <2>2. CASE s.id # r.id
    BY <1>6, <2>1, <2>2
  <2>3. CASE s.id = r.id
    BY <1>4, <1>6, <2>1, <2>3 DEF StaleInv, old
  <2> QED
    BY <2>2, <2>3
<1>12. MemoryInv'
  <2>1. \A q \in runs : q.id = r.id /\ q.run_no = r.run_no => q = r
    BY <1>1 DEF MemoryInv
  <2> QED
    BY <1>1, <1>3, <1>5, <1>9, <1>10, <1>11, <2>1 DEF MemoryInv
<1>13. ControlInv'
  BY <1>1, <1>3 DEF ControlInv
<1> QED
  BY <1>8, <1>12, <1>13, InvParts, PTL

(* find_stale copies the epoch and the failure count of expired claims. *)
LEMMA FindStaleInv ==
  ASSUME Inv, NEW w \in Workers, FindStale(w)
  PROVE  Inv'
<1>1. TablesInv /\ MemoryInv /\ ControlInv
  BY InvParts
<1>2. PICK batch \in SUBSET Jobs :
        /\ IsStaleBatch(batch, jobs, now)
        /\ stale' = [stale EXCEPT ![w] =
             {[id |-> j, run_no |-> jobs[j].run_count,
               failure_count |-> jobs[j].failure_count] : j \in batch}]
  BY DEF FindStale
<1>3. UNCHANGED <<now, jobs, journal, runs, mode, faults>>
  BY DEF FindStale
<1>4. \A j \in batch : j \in Jobs /\ jobs[j].status = Claimed
  <2>1. DOMAIN jobs = Jobs
    BY <1>1 DEF TablesInv
  <2> QED
    BY <1>2, <2>1 DEF IsStaleBatch, Expired
<1> DEFINE seen(j) == [id |-> j, run_no |-> jobs[j].run_count,
                       failure_count |-> jobs[j].failure_count]
<1>5. ASSUME NEW j \in batch
      PROVE  seen(j) \in StaleJob /\ StaleInv(seen(j), jobs[seen(j).id])
  <2>1. jobs[j] \in Row /\ RowInv(jobs[j], journal[j])
    BY <1>1, <1>4 DEF TablesInv
  <2>2. jobs[j].run_count \in 1..jobs[j].run_count
    BY <1>4, <2>1 DEF RowInv, Row
  <2>3. seen(j) \in StaleJob
    BY <1>4, <2>1 DEF StaleJob, Row
  <2>4. StaleInv(seen(j), jobs[j])
    BY <1>4, <2>2 DEF StaleInv
  <2> QED
    BY <2>3, <2>4
<1>6. stale' = [stale EXCEPT ![w] = {seen(j) : j \in batch}]
  BY <1>2
<1> HIDE DEF seen
<1>7. /\ stale' \in [Workers -> SUBSET StaleJob]
      /\ stale'[w] = {seen(j) : j \in batch}
      /\ \A v \in Workers \ {w} : stale'[v] = stale[v]
  BY <1>1, <1>5, <1>6 DEF MemoryInv
<1>8. \A v \in Workers : \A s \in stale'[v] : StaleInv(s, jobs[s.id])
  BY <1>1, <1>5, <1>7 DEF MemoryInv
<1>9. MemoryInv'
  BY <1>1, <1>3, <1>7, <1>8 DEF MemoryInv
<1>10. TablesInv' /\ ControlInv'
  BY <1>1, <1>3 DEF TablesInv, ControlInv
<1> QED
  BY <1>9, <1>10, InvParts, PTL

(* The steps that only forget runs or scanned rows, change a worker's mode *)
(* or pass the time.                                                       *)
LEMMA ForgetInv ==
  ASSUME Inv, UNCHANGED <<jobs, journal>>,
         runs' \subseteq runs,
         stale' \in [Workers -> SUBSET StaleJob],
         \A w \in Workers : stale'[w] \subseteq stale[w],
         ControlInv'
  PROVE  Inv'
<1>1. TablesInv /\ MemoryInv
  BY InvParts
<1>2. TablesInv'
  BY <1>1 DEF TablesInv
<1>3. MemoryInv'
  BY <1>1 DEF MemoryInv
<1> QED
  BY <1>2, <1>3, InvParts, PTL

(* A lost run, a failed recovery, a shutdown, a crash, a restart and the   *)
(* passing of time are such steps.                                         *)
LEMMA ForgettingSteps ==
  ASSUME Inv,
         \/ \E r \in runs : LoseRun(r)
         \/ \E w \in Workers : \E s \in stale[w] : RecoverFails(w, s)
         \/ \E w \in Workers :
              Shutdown(w) \/ ForceFinish(w) \/ Stop(w) \/ Crash(w) \/ Restart(w)
         \/ Tick
         \/ UNCHANGED vars
  PROVE  Inv'
<1>1. MemoryInv /\ ControlInv
  BY InvParts
<1>2. ASSUME NEW r \in runs, LoseRun(r) PROVE Inv'
  <2>1. ControlInv'
    BY <1>1, <1>2, LifecycleAssumption DEF LoseRun, Fault, ControlInv
  <2> QED
    BY <1>1, <1>2, <2>1, ForgetInv DEF LoseRun, MemoryInv
<1>3. ASSUME NEW w \in Workers, NEW s \in stale[w], RecoverFails(w, s)
      PROVE  Inv'
  <2>1. ControlInv'
    BY <1>1, <1>3, LifecycleAssumption DEF RecoverFails, Fault, ControlInv
  <2>2. /\ stale' \in [Workers -> SUBSET StaleJob]
        /\ \A v \in Workers : stale'[v] \subseteq stale[v]
    BY <1>1, <1>3 DEF RecoverFails, MemoryInv
  <2> QED
    BY <1>3, <2>1, <2>2, ForgetInv DEF RecoverFails
<1>4. ASSUME NEW w \in Workers,
             Shutdown(w) \/ ForceFinish(w) \/ Stop(w) \/ Restart(w)
      PROVE  Inv'
  <2>1. ControlInv'
    BY <1>1, <1>4 DEF Shutdown, ForceFinish, Stop, Restart, ControlInv
  <2>2. UNCHANGED <<jobs, journal, runs, stale>>
    BY <1>4 DEF Shutdown, ForceFinish, Stop, Restart
  <2> QED
    BY <1>1, <2>1, <2>2, ForgetInv DEF MemoryInv
<1>5. ASSUME NEW w \in Workers, Crash(w) PROVE Inv'
  <2>1. ControlInv'
    BY <1>1, <1>5, LifecycleAssumption DEF Crash, Fault, ControlInv
  <2>2. /\ stale' \in [Workers -> SUBSET StaleJob]
        /\ \A v \in Workers : stale'[v] \subseteq stale[v]
    BY <1>1, <1>5 DEF Crash, MemoryInv
  <2> QED
    BY <1>5, <2>1, <2>2, ForgetInv DEF Crash
<1>6. ASSUME Tick PROVE Inv'
  <2>1. ControlInv'
    BY <1>1, <1>6, LifecycleAssumption DEF Tick, ControlInv
  <2> QED
    BY <1>1, <1>6, <2>1, ForgetInv DEF Tick, MemoryInv
<1>7. ASSUME UNCHANGED vars PROVE Inv'
  <2>1. ControlInv'
    BY <1>1, <1>7 DEF vars, ControlInv
  <2> QED
    BY <1>1, <1>7, <2>1, ForgetInv DEF vars, MemoryInv
<1> QED
  BY <1>2, <1>3, <1>4, <1>5, <1>6, <1>7

-----------------------------------------------------------------------------
(* The theorems. *)

(* An empty queue and workers that remember nothing satisfy Inv. *)
LEMMA InitInv == Init => Inv
<1> SUFFICES ASSUME Init PROVE Inv
  OBVIOUS
<1>1. AbsentRow \in Row /\ RowInv(AbsentRow, << >>)
  <2>1. HoleFree(<< >>, 0)
    BY EmptyJournal DEF HoleFree
  <2>2. AbsentRow \in Row
    BY StoreAssumption DEF AbsentRow, Row, Status
  <2>3. /\ AbsentRow.status = "absent" /\ AbsentRow.run_count = 0
        /\ AbsentRow.failure_count = 0 /\ AbsentRow.finished_at = None
    BY DEF AbsentRow
  <2> QED
    BY <2>1, <2>2, <2>3, EmptyJournal DEF RowInv, Concluded, Terminal
<1>2. TablesInv
  BY <1>1, EmptyJournal DEF Init, TablesInv
<1>3. MemoryInv
  BY DEF Init, MemoryInv
<1>4. ControlInv
  BY LifecycleAssumption DEF Init, ControlInv
<1> QED
  BY <1>2, <1>3, <1>4, InvParts

(* Every step of every action preserves Inv. *)
LEMMA NextInv == Inv /\ [Next]_vars => Inv'
<1> SUFFICES ASSUME Inv, [Next]_vars PROVE Inv'
  OBVIOUS
<1>1. ASSUME NEW j \in Jobs, ClientStep(j) PROVE Inv'
  BY <1>1, EnqueueInv, MergeIntoInv DEF ClientStep
<1>2. ASSUME NEW cutoff \in 0..(now + 1), NEW status \in Terminal \cup {None},
             Cleanup(cutoff, status)
      PROVE  Inv'
  <2>1. cutoff \in Nat
    BY <1>2 DEF Inv, TypeOK
  <2> QED
    BY <1>2, <2>1, CleanupInv
<1>3. ASSUME NEW r \in runs, RunStep(r) PROVE Inv'
  BY <1>3, SpawnInv, SettleInv, ReleaseRunInv, ForgettingSteps DEF RunStep
<1>4. ASSUME NEW w \in Workers, WorkerStep(w) PROVE Inv'
  BY <1>4, ClaimInv, ClaimReplyLostInv, FindStaleInv, RecoverInv,
     ForgettingSteps DEF WorkerStep
<1>5. ASSUME Tick \/ UNCHANGED vars PROVE Inv'
  BY <1>5, ForgettingSteps
<1> QED
  BY <1>1, <1>2, <1>3, <1>4, <1>5 DEF Next

(* Inv holds in every reachable state. *)
THEOREM Invariance == Spec => []Inv
  BY InitInv, NextInv, PTL DEF Spec

(* The tables and the workers' memory stay well typed: in particular the   *)
(* run and failure counts stay within their columns' range although settle *)
(* and recover compute them in memory.                                     *)
THEOREM TypeCorrect == Spec => []TypeOK
<1>1. Inv => TypeOK
  BY DEF Inv
<1> QED
  BY <1>1, Invariance, PTL

(* The stored failure count is the number of failures journalled. *)
THEOREM FailuresCounted == Spec => []FailureCountMatchesJournal
<1>1. Inv => FailureCountMatchesJournal
  BY DEF Inv, RowInv, FailureCountMatchesJournal
<1> QED
  BY <1>1, Invariance, PTL

(* The journal is hole-free: settle and recover write one entry per run,   *)
(* none twice and none out of order.                                       *)
THEOREM HistoryComplete == Spec => []JournalHoleFree
<1>1. Inv => JournalHoleFree
  BY DEF Inv, RowInv, JournalHoleFree
<1> QED
  BY <1>1, Invariance, PTL

(* claim_next gives a claim epoch to one handler, whatever identities the  *)
(* workers have.                                                           *)
THEOREM EpochsUnique == Spec => []OneHandlerPerEpoch
<1>1. Inv => OneHandlerPerEpoch
  BY DEF Inv, RunInv, OneHandlerPerEpoch
<1> QED
  BY <1>1, Invariance, PTL

(* A running handler is superseded only by a journalled recovery. *)
THEOREM SupersessionJournalled == Spec => []SupersededOnlyByRecovery
<1>1. Inv => SupersededOnlyByRecovery
  BY DEF Inv, RunInv, SupersededOnlyByRecovery
<1> QED
  BY <1>1, Invariance, PTL

(* The copies settle and recover compute from are current when they apply. *)
THEOREM SnapshotsStayCurrent == Spec => []SnapshotsCurrent
<1>1. Inv => SnapshotsCurrent
  BY DEF Inv, RunInv, StaleInv, SnapshotsCurrent
<1> QED
  BY <1>1, Invariance, PTL

-----------------------------------------------------------------------------
(***************************************************************************)
(* Proofs of the action properties of Lifecycle: what one step may never   *)
(* do to a row.                                                            *)
(*                                                                         *)
(* RowStep lists the ways a row can change, each with what the properties  *)
(* need of it.  Given the invariant above, every step of the               *)
(* specification is a RowStep for every job, and the properties follow     *)
(* from RowStep alone.                                                     *)
(***************************************************************************)

(* The claim on j was ended by the run that held it, which is gone. *)
EndedByHolder(j) ==
  \E r \in runs \ runs' : r.id = j /\ r.run_no = jobs[j].run_count

RowStep(j) ==
  \/ jobs'[j] = jobs[j]
  \/ jobs[j].status = "absent" /\ jobs'[j].status = Pending
  \/ jobs[j].status = Pending /\ jobs'[j].status \in {Pending, Claimed}
  \/ /\ jobs[j].status = Claimed /\ jobs'[j].status = Claimed
     /\ jobs'[j].carry = jobs[j].carry
  \/ /\ Expired(jobs[j], now) /\ jobs'[j].status = Pending
     /\ jobs'[j].carry = jobs[j].carry
  \/ /\ jobs[j].status = Claimed
     /\ jobs'[j].status \in {Pending, Completed, Dead}
     /\ EndedByHolder(j)
     /\ \/ jobs'[j].carry = jobs[j].carry
        \/ jobs'[j].carry = jobs[j].run_count /\ jobs'[j].status = Pending
  \/ jobs[j].status \in Terminal /\ jobs'[j] = DeletedRow

(* What each settlement leaves of the row. *)
LEMMA SettledRowCarry ==
  ASSUME NEW row \in Row, NEW t, NEW v, NEW next, NEW carry
  PROVE  /\ SettledRow(row, Complete(t)).status = Completed
         /\ SettledRow(row, Complete(t)).carry = row.carry
         /\ SettledRow(row, GiveUp(t, next)).status = Dead
         /\ SettledRow(row, GiveUp(t, next)).carry = row.carry
         /\ SettledRow(row, Pause(v, carry)).status = Pending
         /\ SettledRow(row, Pause(v, carry)).carry = carry
         /\ SettledRow(row, Retry(v, next, carry)).status = Pending
         /\ SettledRow(row, Retry(v, next, carry)).carry = carry
         /\ SettledRow(row, Release(v)).status = Pending
         /\ SettledRow(row, Release(v)).carry = row.carry
<1>1. SettledRow(row, Complete(t)) =
        [ClearClaim(row) EXCEPT !.status = Completed, !.finished_at = t]
  BY DEF Complete, SettledRow
<1>2. SettledRow(row, GiveUp(t, next)) =
        [ClearClaim(row) EXCEPT !.status = Dead, !.finished_at = t,
                                !.failure_count = next]
  BY DEF GiveUp, SettledRow
<1>3. SettledRow(row, Pause(v, carry)) =
        [ClearClaim(row) EXCEPT !.status = Pending, !.visible_at = v,
                                !.carry = carry]
  BY DEF Pause, SettledRow
<1>4. SettledRow(row, Retry(v, next, carry)) =
        [ClearClaim(row) EXCEPT !.status = Pending, !.visible_at = v,
                                !.failure_count = next, !.carry = carry]
  BY DEF Retry, SettledRow
<1>5. SettledRow(row, Release(v)) =
        [ClearClaim(row) EXCEPT !.status = Pending, !.visible_at = v]
  BY DEF Release, SettledRow
<1> QED
  BY <1>1, <1>2, <1>3, <1>4, <1>5 DEF ClearClaim, Row

(* A settlement or release of r ends the claim r holds, or changes no row. *)
LEMMA ApplySettlementSteps ==
  ASSUME Inv, NEW r \in runs, NEW s, ApplySettlement(r, s), runs' = runs \ {r},
         NEW carry \in {r.carry, r.run_no}, NEW v, NEW next,
         s \in {Complete(now), Pause(v, carry), GiveUp(now, next),
                Retry(v, next, carry), Release(v)}
  PROVE  \A j \in Jobs : RowStep(j)
<1>1. TablesInv /\ MemoryInv
  BY InvParts
<1>2. CASE ~ Holds(jobs[r.id], Identity[r.worker], r.run_no)
  BY <1>2 DEF ApplySettlement, RowStep
<1>3. CASE Holds(jobs[r.id], Identity[r.worker], r.run_no)
  <2> DEFINE old == jobs[r.id]
             row == SettledRow(old, s)
  <2>1. /\ r.id \in Jobs /\ old \in Row /\ old.status = Claimed
        /\ old.run_count = r.run_no /\ r.carry = old.carry
    BY <1>1, <1>3, HeldRow
  <2>2. /\ jobs'[r.id] = row
        /\ \A k \in Jobs \ {r.id} : jobs'[k] = jobs[k]
    BY <1>1, <1>3, <2>1 DEF ApplySettlement, Conclude, TablesInv
  <2>3. EndedByHolder(r.id)
    BY <2>1 DEF EndedByHolder
  <2>4. /\ row.status \in {Pending, Completed, Dead}
        /\ \/ row.carry = old.carry
           \/ row.carry = old.run_count /\ row.status = Pending
    <3> HIDE DEF old
    <3> QED
      BY <2>1, SettledRowCarry
  <2>5. RowStep(r.id)
    BY <2>1, <2>2, <2>3, <2>4 DEF RowStep
  <2> QED
    BY <2>2, <2>5 DEF RowStep
<1> QED
  BY <1>2, <1>3

(* settle, with what the handler reported. *)
LEMMA SettleSteps ==
  ASSUME Inv, NEW r \in runs, NEW behaviour \in Behaviours, NEW delay \in Delays,
         Settle(r, behaviour, delay)
  PROVE  \A j \in Jobs : RowStep(j)
<1> DEFINE report == ReportFor(r, behaviour)
           next == SaturatingInc(r.failure_count)
           s == SettlementFor(report, delay, next)
<1>1. r \in Run
  BY DEF Inv, TypeOK
<1>2. /\ report.carry \in {r.carry, r.run_no}
      /\ s \in {Complete(now), Pause(now + delay, report.carry),
                GiveUp(now, next), Retry(now + delay, next, report.carry)}
  BY <1>1, SettlementForms
<1>3. ApplySettlement(r, s) /\ runs' = runs \ {r}
  BY DEF Settle
<1> HIDE DEF report, next, s
<1> QED
  BY <1>2, <1>3, ApplySettlementSteps

(* release, of a handler aborted at the drain deadline. *)
LEMMA ReleaseSteps ==
  ASSUME Inv, NEW r \in runs, ReleaseRun(r)
  PROVE  \A j \in Jobs : RowStep(j)
<1>1. ApplySettlement(r, Release(now)) /\ runs' = runs \ {r}
  BY DEF ReleaseRun
<1> QED
  BY <1>1, ApplySettlementSteps

(* recover, which re-checks the lease in its own transaction. *)
LEMMA RecoverSteps ==
  ASSUME Inv, NEW w \in Workers, NEW s \in stale[w], NEW delay \in Delays,
         Recover(w, s, delay)
  PROVE  \A j \in Jobs : RowStep(j)
<1>1. CASE ~ Recoverable(jobs[s.id], s.run_no, now)
  BY <1>1 DEF Recover, RowStep
<1>2. CASE Recoverable(jobs[s.id], s.run_no, now)
  <2> DEFINE old == jobs[s.id]
             next == SaturatingInc(s.failure_count)
             row == [ClearClaim(old) EXCEPT !.status = Pending,
                                            !.visible_at = now + delay,
                                            !.failure_count = next]
  <2>1. s.id \in Jobs /\ jobs \in [Jobs -> Row] /\ old \in Row
    BY DEF Inv, TypeOK, StaleJob
  <2>2. jobs' = [jobs EXCEPT ![s.id] = row]
    BY <1>2 DEF Recover, Conclude, RecoveredRow
  <2>3. row.status = Pending /\ row.carry = old.carry
    <3> HIDE DEF old, next
    <3> QED
      BY <2>1 DEF ClearClaim, Row
  <2> HIDE DEF row
  <2>4. /\ jobs'[s.id] = row
        /\ \A k \in Jobs \ {s.id} : jobs'[k] = jobs[k]
    BY <2>1, <2>2
  <2>5. RowStep(s.id)
    BY <1>2, <2>3, <2>4 DEF RowStep, Recoverable
  <2> QED
    BY <2>4, <2>5 DEF RowStep
<1> QED
  BY <1>1, <1>2

(* claim_next, whether or not its reply arrives. *)
LEMMA ClaimSteps ==
  ASSUME Inv, NEW w \in Workers, NEW j \in Jobs,
         Claim(w, j) \/ ClaimReplyLost(w, j)
  PROVE  \A k \in Jobs : RowStep(k)
<1>1. /\ CanClaim(w, j) /\ UNCHANGED journal
      /\ jobs' = [jobs EXCEPT ![j] = ClaimedRow(@, Identity[w], now + Lease)]
  BY DEF Claim, ClaimReplyLost
<1>2. jobs'[j].status = Claimed
  BY <1>1, ClaimTables
<1>3. \A k \in Jobs \ {j} : jobs'[k] = jobs[k]
  BY <1>1 DEF Inv, TypeOK
<1>4. RowStep(j)
  BY <1>1, <1>2 DEF RowStep, CanClaim, Eligible
<1> QED
  BY <1>3, <1>4 DEF RowStep

(* extend_lease at the spawn touches the lease alone. *)
LEMMA SpawnSteps ==
  ASSUME Inv, NEW r \in runs, NEW lease \in TaskLeases \cup {None},
         Spawn(r, lease)
  PROVE  \A j \in Jobs : RowStep(j)
<1>1. r.id \in Jobs /\ jobs \in [Jobs -> Row]
  BY DEF Inv, TypeOK, Run
<1>2. \A k \in Jobs \ {r.id} : jobs'[k] = jobs[k]
  BY <1>1 DEF Spawn
<1>3. CASE Holds(jobs[r.id], Identity[r.worker], r.run_no) /\ lease # None
  <2>1. jobs'[r.id] = [jobs[r.id] EXCEPT !.claim_expires_at = now + lease]
    BY <1>1, <1>3 DEF Spawn, LeasedRow
  <2>2. jobs[r.id].status = Claimed /\ jobs[r.id] \in Row
    BY <1>1, <1>3 DEF Holds
  <2>3. RowStep(r.id)
    BY <2>1, <2>2 DEF RowStep, Row
  <2> QED
    BY <1>2, <2>3 DEF RowStep
<1>4. CASE ~ (Holds(jobs[r.id], Identity[r.worker], r.run_no) /\ lease # None)
  <2>1. jobs'[r.id] = jobs[r.id]
    BY <1>1, <1>4 DEF Spawn
  <2> QED
    BY <1>2, <2>1 DEF RowStep
<1> QED
  BY <1>3, <1>4

(* enqueue, merge_into and cleanup. *)
LEMMA ClientSteps ==
  ASSUME Inv,
         \/ \E j \in Jobs : ClientStep(j)
         \/ \E cutoff \in 0..(now + 1), status \in Terminal \cup {None} :
              Cleanup(cutoff, status)
  PROVE  \A j \in Jobs : RowStep(j)
<1>1. ASSUME NEW j \in Jobs, NEW d \in Delays, Enqueue(j, d)
      PROVE  \A k \in Jobs : RowStep(k)
  <2>1. now + d \in Nat /\ jobs \in [Jobs -> Row]
    BY LifecycleAssumption DEF Inv, TypeOK
  <2>2. EnqueuedRow(now + d).status = Pending
    BY <2>1, EnqueuedRowFacts
  <2> QED
    BY <1>1, <2>1, <2>2 DEF Enqueue, RowStep
<1>2. ASSUME NEW j \in Jobs, NEW n, NEW replaces \in BOOLEAN,
             MergeInto(j, n, replaces)
      PROVE  \A k \in Jobs : RowStep(k)
  <2>1. jobs \in [Jobs -> Row] /\ jobs[j] \in Row
    BY DEF Inv, TypeOK
  <2>2. MergedRow(jobs[j], replaces).status = jobs[j].status
    BY <2>1, MergedRowFacts
  <2> QED
    BY <1>2, <2>1, <2>2 DEF MergeInto, Mergeable, Conclude, RowStep
<1>3. ASSUME NEW cutoff, NEW status, Cleanup(cutoff, status)
      PROVE  \A k \in Jobs : RowStep(k)
  <2>1. \A k \in Jobs : jobs'[k] = jobs[k] \/
                        (jobs'[k] = DeletedRow /\ jobs[k].finished_at # None)
    BY <1>3 DEF Cleanup, Removable
  <2>2. \A k \in Jobs : jobs[k].finished_at # None => jobs[k].status \in Terminal
    BY DEF Inv, RowInv
  <2> QED
    BY <2>1, <2>2 DEF RowStep
<1> QED
  BY <1>1, <1>2, <1>3 DEF ClientStep

(* Every step of the specification changes every row in a listed way. *)
LEMMA EveryStepIsRowStep ==
  Inv /\ [Next]_vars => \A j \in Jobs : RowStep(j)
<1> SUFFICES ASSUME Inv, [Next]_vars PROVE \A j \in Jobs : RowStep(j)
  OBVIOUS
<1>1. ASSUME UNCHANGED jobs PROVE \A j \in Jobs : RowStep(j)
  BY <1>1 DEF RowStep
<1>2. ASSUME NEW r \in runs, RunStep(r) PROVE \A j \in Jobs : RowStep(j)
  BY <1>1, <1>2, SpawnSteps, SettleSteps, ReleaseSteps DEF RunStep, LoseRun
<1>3. ASSUME NEW w \in Workers, WorkerStep(w) PROVE \A j \in Jobs : RowStep(j)
  BY <1>1, <1>3, ClaimSteps, RecoverSteps
  DEF WorkerStep, FindStale, RecoverFails, Shutdown, ForceFinish, Stop, Crash,
      Restart
<1>4. ASSUME Tick \/ UNCHANGED vars PROVE \A j \in Jobs : RowStep(j)
  BY <1>1, <1>4 DEF Tick, vars
<1> QED
  BY <1>2, <1>3, <1>4, ClientSteps DEF Next

-----------------------------------------------------------------------------
(* A live claim is ended by its holder or after its lease ran out. *)
THEOREM ClaimsEndProperly == Spec => ClaimEndsByHolderOrExpiry
<1>1. Inv /\ [Next]_vars =>
        [\A j \in Jobs :
           /\ jobs[j].status = Claimed
           /\ jobs'[j].status # Claimed
           => \/ Expired(jobs[j], now)
              \/ \E r \in runs \ runs' :
                   r.id = j /\ r.run_no = jobs[j].run_count]_vars
  BY EveryStepIsRowStep DEF RowStep, EndedByHolder, Terminal
<1> QED
  BY <1>1, Invariance, PTL DEF Spec, ClaimEndsByHolderOrExpiry

(* No superseded handler overwrites the carry of a claimed job. *)
THEOREM CarryComesFromHolder == Spec => CarryOnlyFromHolder
<1>1. Inv /\ [Next]_vars =>
        [\A j \in Jobs :
           /\ jobs[j].status = Claimed
           /\ jobs'[j].carry # jobs[j].carry
           => /\ jobs'[j].carry = jobs[j].run_count
              /\ jobs'[j].status = Pending]_vars
  BY EveryStepIsRowStep DEF RowStep, Expired, Terminal
<1> QED
  BY <1>1, Invariance, PTL DEF Spec, CarryOnlyFromHolder

(* Completed and dead jobs never change but by deletion, and only they are *)
(* deleted.                                                                *)
THEOREM TerminalRowsFinal == Spec => TerminalIsFinal
<1>1. Inv /\ [Next]_vars =>
        [\A j \in Jobs :
           /\ jobs[j].status \in Terminal =>
                jobs'[j] = jobs[j] \/ jobs'[j] = DeletedRow
           /\ jobs'[j].status = "deleted" =>
                jobs[j].status \in Terminal \cup {"deleted"}]_vars
  BY EveryStepIsRowStep DEF RowStep, Expired, Terminal
<1> QED
  BY <1>1, Invariance, PTL DEF Spec, TerminalIsFinal

-----------------------------------------------------------------------------
(***************************************************************************)
(* Proof that Lifecycle implements AbstractQueue, for every value of the   *)
(* constants.                                                              *)
(*                                                                         *)
(* The argument.  Only five kinds of transaction change what the mapping   *)
(* looks at.  enqueue, claim_next and cleanup are Submit, Start and Remove *)
(* as they stand.  A settlement, release or recovery that applies is a     *)
(* Conclude: its guard says that the row is still claimed at the run it    *)
(* concludes, and Inv says that the journal has no entry for that run yet. *)
(* Everything else, a merge included, is a stuttering step.                *)
(***************************************************************************)

(* The phases of the rows that conclusions and claims deal with. *)
LEMMA Phases ==
  ASSUME NEW row
  PROVE  /\ row.status = "absent" => PhaseOf(row) = "none"
         /\ row.status = Pending => PhaseOf(row) = "waiting"
         /\ row.status = Claimed => PhaseOf(row) = "running"
         /\ row.status \in Terminal => PhaseOf(row) = "ended"
         /\ row.status = "deleted" => PhaseOf(row) = "removed"
  BY DEF PhaseOf, Terminal

(* Appending an execution adds one result, appending a merge none. *)
LEMMA AppendResult ==
  ASSUME NEW entries \in Seq(JournalEntry), NEW e \in JournalEntry
  PROVE  ResultsOf(Append(entries, e)) =
           IF e.outcome = "merged" THEN ResultsOf(entries)
                                   ELSE ResultsOf(entries) \cup {e}
<1> DEFINE longer == Append(entries, e)
           new == Len(entries) + 1
<1>1. /\ DOMAIN longer = DOMAIN entries \cup {new}
      /\ \A i \in DOMAIN entries : longer[i] = entries[i]
      /\ longer[new] = e
  BY AppendEntry
<1> HIDE DEF longer, new
<1>2. Executions(longer) = IF e.outcome = "merged" THEN Executions(entries)
                           ELSE Executions(entries) \cup {new}
  BY <1>1 DEF Executions
<1>3. \A i \in Executions(entries) : longer[i] = entries[i]
  BY <1>1 DEF Executions
<1>4. CASE e.outcome = "merged"
  <2>1. Executions(longer) = Executions(entries)
    BY <1>2, <1>4
  <2>2. ResultsOf(longer) = ResultsOf(entries)
    BY <1>3, <2>1 DEF ResultsOf
  <2> QED
    BY <1>4, <2>2 DEF longer
<1>5. CASE e.outcome # "merged"
  <2>1. Executions(longer) = Executions(entries) \cup {new}
    BY <1>2, <1>5
  <2>2. ResultsOf(longer) = ResultsOf(entries) \cup {e}
    BY <1>1, <1>3, <2>1 DEF ResultsOf
  <2> QED
    BY <1>5, <2>2 DEF longer
<1> QED
  BY <1>4, <1>5

(* The end of a claim is a Conclude. *)
LEMMA ConcludeRefines ==
  ASSUME Inv, NEW j \in Jobs, NEW row, NEW outcome,
         EndedRow(jobs[j], row, outcome),
         outcome \in {"completed", "dead"} <=> row.status \in Terminal,
         Conclude(j, row, Entry(jobs[j].run_count, outcome))
  PROVE  Queue!Conclude(j, outcome)
<1> DEFINE n == jobs[j].run_count
           e == Entry(n, outcome)
<1>1. /\ jobs \in [Jobs -> Row] /\ journal \in [Jobs -> Seq(JournalEntry)]
      /\ RowInv(jobs[j], journal[j]) /\ jobs[j] \in Row
      /\ journal[j] \in Seq(JournalEntry)
  BY DEF Inv, TypeOK
<1>2. /\ jobs' = [jobs EXCEPT ![j] = row]
      /\ journal' = [journal EXCEPT ![j] = Append(journal[j], e)]
  BY DEF Conclude
<1>3. e \in JournalEntry /\ e.outcome # "merged" /\ n \in Nat
  BY <1>1 DEF EndedRow, Row, Entry, JournalEntry
<1>4. \A r \in ResultsOf(journal[j]) : r.run_no < n
  <2>1. HoleFree(journal[j], n - 1)
    BY <1>1 DEF EndedRow, RowInv, Concluded
  <2> QED
    BY <1>3, <2>1 DEF HoleFree, ResultsOf
<1>5. [k \in Jobs |-> ResultsOf(journal'[k])] =
        [[k \in Jobs |-> ResultsOf(journal[k])] EXCEPT
           ![j] = ResultsOf(journal[j]) \cup {e}]
  <2>1. ResultsOf(Append(journal[j], e)) = ResultsOf(journal[j]) \cup {e}
    BY <1>1, <1>3, AppendResult
  <2> QED
    BY <1>1, <1>2, <2>1
<1>6. [k \in Jobs |-> PhaseOf(jobs'[k])] =
        [[k \in Jobs |-> PhaseOf(jobs[k])] EXCEPT
           ![j] = IF outcome \in {"completed", "dead"} THEN "ended"
                                                       ELSE "waiting"]
  <2>1. PhaseOf(row) = IF outcome \in {"completed", "dead"} THEN "ended"
                                                            ELSE "waiting"
    BY Phases DEF EndedRow, Stored, Terminal
  <2> QED
    BY <1>1, <1>2, <2>1
<1>7. [k \in Jobs |-> jobs'[k].run_count] = [k \in Jobs |-> jobs[k].run_count]
  BY <1>1, <1>2 DEF EndedRow
<1>8. PhaseOf(jobs[j]) = "running"
  BY Phases DEF EndedRow
<1> QED
  BY <1>4, <1>5, <1>6, <1>7, <1>8 DEF Queue!Conclude, Queue!Result, Entry

(* A settlement or a release that applies concludes the run, and one that  *)
(* does not changes nothing.                                               *)
LEMMA ApplySettlementRefines ==
  ASSUME Inv, NEW r \in runs, NEW s, ApplySettlement(r, s),
         NEW v, NEW next, NEW carry,
         s \in {Complete(now), Pause(v, carry), GiveUp(now, next),
                Retry(v, next, carry), Release(v)},
         Holds(jobs[r.id], Identity[r.worker], r.run_no) =>
           EndedRow(jobs[r.id], SettledRow(jobs[r.id], s), JournalOutcomeFor(s))
  PROVE  [Queue!Next]_(Queue!vars)
<1>1. CASE ~ Holds(jobs[r.id], Identity[r.worker], r.run_no)
  <2>1. UNCHANGED <<jobs, journal>>
    BY <1>1 DEF ApplySettlement
  <2> QED
    BY <2>1 DEF Queue!vars
<1>2. CASE Holds(jobs[r.id], Identity[r.worker], r.run_no)
  <2> DEFINE old == jobs[r.id]
             row == SettledRow(old, s)
             outcome == JournalOutcomeFor(s)
  <2>1. r.id \in Jobs /\ old \in Row /\ old.run_count = r.run_no
    BY <1>2, InvParts, HeldRow
  <2>2. EndedRow(old, row, outcome)
    BY <1>2
  <2>3. outcome \in {"completed", "dead"} <=> row.status \in Terminal
    <3>1. /\ JournalOutcomeFor(Complete(now)) = "completed"
          /\ JournalOutcomeFor(GiveUp(now, next)) = "dead"
          /\ JournalOutcomeFor(Pause(v, carry)) = "paused"
          /\ JournalOutcomeFor(Retry(v, next, carry)) = "retried"
          /\ JournalOutcomeFor(Release(v)) = "released"
      BY DEF JournalOutcomeFor, Complete, Pause, GiveUp, Retry, Release
    <3>2. /\ SettledRow(old, Complete(now)).status = Completed
          /\ SettledRow(old, GiveUp(now, next)).status = Dead
          /\ SettledRow(old, Pause(v, carry)).status = Pending
          /\ SettledRow(old, Retry(v, next, carry)).status = Pending
          /\ SettledRow(old, Release(v)).status = Pending
      BY <2>1, SettledRowCarry
    <3> HIDE DEF old
    <3> QED
      BY <3>1, <3>2 DEF Terminal
  <2>4. Conclude(r.id, row, Entry(old.run_count, outcome))
    BY <1>2, <2>1 DEF ApplySettlement
  <2> HIDE DEF row, outcome
  <2>5. Queue!Conclude(r.id, outcome)
    BY <2>1, <2>2, <2>3, <2>4, ConcludeRefines
  <2> QED
    BY <2>1, <2>2, <2>5 DEF EndedRow, Queue!Next
<1> QED
  BY <1>1, <1>2

(* reap and settle. *)
LEMMA SettleRefines ==
  ASSUME Inv, NEW r \in runs, NEW behaviour \in Behaviours, NEW delay \in Delays,
         Settle(r, behaviour, delay)
  PROVE  [Queue!Next]_(Queue!vars)
<1> DEFINE report == ReportFor(r, behaviour)
           next == SaturatingInc(r.failure_count)
           s == SettlementFor(report, delay, next)
<1>1. r \in Run /\ TablesInv /\ MemoryInv /\ now \in Nat
  BY InvParts DEF Inv, TypeOK
<1>2. s \in {Complete(now), Pause(now + delay, report.carry),
             GiveUp(now, next), Retry(now + delay, next, report.carry)}
  BY <1>1, SettlementForms
<1>3. ApplySettlement(r, s)
  BY DEF Settle
<1>4. Holds(jobs[r.id], Identity[r.worker], r.run_no) =>
        EndedRow(jobs[r.id], SettledRow(jobs[r.id], s), JournalOutcomeFor(s))
  BY <1>1, SettlementEnds
<1> HIDE DEF report, next, s
<1> QED
  BY <1>2, <1>3, <1>4, ApplySettlementRefines

(* release, of a handler aborted at the drain deadline. *)
LEMMA ReleaseRefines ==
  ASSUME Inv, NEW r \in runs, ReleaseRun(r)
  PROVE  [Queue!Next]_(Queue!vars)
<1> DEFINE s == Release(now)
           next == SaturatingInc(r.failure_count)
<1>1. TablesInv /\ MemoryInv /\ now \in Nat
  BY InvParts DEF Inv, TypeOK
<1>2. ApplySettlement(r, s) /\ s \in {Release(now)}
  BY DEF ReleaseRun
<1>3. ASSUME Holds(jobs[r.id], Identity[r.worker], r.run_no)
      PROVE  EndedRow(jobs[r.id], SettledRow(jobs[r.id], s), JournalOutcomeFor(s))
  <2>1. /\ jobs[r.id] \in Row /\ jobs[r.id].status = Claimed
        /\ jobs[r.id].finished_at = None
        /\ next \in 0..MaxInt /\ next = jobs[r.id].failure_count + 1
    BY <1>1, <1>3, HeldRow
  <2>2. 0 \in 0..MaxInt
    BY StoreAssumption
  <2> HIDE DEF next
  <2> QED
    BY <1>1, <2>1, <2>2, SettledRowEnds
<1> HIDE DEF s
<1> QED
  BY <1>2, <1>3, ApplySettlementRefines

(* recover. *)
LEMMA RecoverRefines ==
  ASSUME Inv, NEW w \in Workers, NEW s \in stale[w], NEW delay \in Delays,
         Recover(w, s, delay)
  PROVE  [Queue!Next]_(Queue!vars)
<1>1. CASE ~ Recoverable(jobs[s.id], s.run_no, now)
  <2>1. UNCHANGED <<jobs, journal>>
    BY <1>1 DEF Recover
  <2> QED
    BY <2>1 DEF Queue!vars
<1>2. CASE Recoverable(jobs[s.id], s.run_no, now)
  <2> DEFINE old == jobs[s.id]
             row == RecoveredRow(old, now + delay, SaturatingInc(s.failure_count))
  <2>1. s.id \in Jobs /\ EndedRow(old, row, "stale-recovered")
    BY <1>2, RecoveredRowEnds
  <2>2. old.run_count = s.run_no
    BY <1>2 DEF Recoverable
  <2>3. Conclude(s.id, row, Entry(old.run_count, "stale-recovered"))
    BY <1>2, <2>2 DEF Recover
  <2>4. row.status \notin Terminal
    BY <2>1 DEF RecoveredRow, ClearClaim, Row, EndedRow, Terminal
  <2> HIDE DEF row
  <2>5. Queue!Conclude(s.id, "stale-recovered")
    BY <2>1, <2>3, <2>4, ConcludeRefines
  <2> QED
    BY <2>1, <2>5 DEF Queue!Next, JournalOutcome
<1> QED
  BY <1>1, <1>2

(* enqueue. *)
LEMMA EnqueueRefines ==
  ASSUME Inv, NEW j \in Jobs, NEW d \in Delays, Enqueue(j, d)
  PROVE  Queue!Submit(j)
<1> DEFINE row == EnqueuedRow(now + d)
<1>1. /\ now + d \in Nat /\ jobs \in [Jobs -> Row] /\ jobs[j].status = "absent"
      /\ jobs' = [jobs EXCEPT ![j] = row] /\ UNCHANGED journal
  BY LifecycleAssumption DEF Inv, TypeOK, Enqueue
<1>2. row.status = Pending /\ row.run_count = 0
  BY <1>1, EnqueuedRowFacts
<1>3. jobs[j].run_count = 0
  BY <1>1 DEF Inv, RowInv, AbsentRow
<1>4. PhaseOf(jobs[j]) = "none" /\ PhaseOf(row) = "waiting"
  BY <1>1, <1>2, Phases
<1> HIDE DEF row
<1>5. [k \in Jobs |-> PhaseOf(jobs'[k])] =
        [[k \in Jobs |-> PhaseOf(jobs[k])] EXCEPT ![j] = "waiting"]
  BY <1>1, <1>4
<1>6. [k \in Jobs |-> jobs'[k].run_count] = [k \in Jobs |-> jobs[k].run_count]
  BY <1>1, <1>2, <1>3
<1>7. [k \in Jobs |-> ResultsOf(journal'[k])] = [k \in Jobs |-> ResultsOf(journal[k])]
  BY <1>1
<1> QED
  BY <1>4, <1>5, <1>6, <1>7 DEF Queue!Submit

(* claim_next, whether or not its reply arrives. *)
LEMMA ClaimRefines ==
  ASSUME Inv, NEW w \in Workers, NEW j \in Jobs,
         Claim(w, j) \/ ClaimReplyLost(w, j)
  PROVE  Queue!Start(j)
<1>1. /\ CanClaim(w, j) /\ UNCHANGED journal
      /\ jobs' = [jobs EXCEPT ![j] = ClaimedRow(@, Identity[w], now + Lease)]
  BY DEF Claim, ClaimReplyLost
<1>2. /\ jobs'[j].status = Claimed
      /\ jobs'[j].run_count = jobs[j].run_count + 1
  BY <1>1, ClaimTables
<1>3. /\ jobs \in [Jobs -> Row] /\ jobs[j].status = Pending
      /\ \A k \in Jobs \ {j} : jobs'[k] = jobs[k]
  BY <1>1 DEF Inv, TypeOK, CanClaim, Eligible
<1>4. PhaseOf(jobs[j]) = "waiting" /\ PhaseOf(jobs'[j]) = "running"
  BY <1>2, <1>3, Phases
<1>5. [k \in Jobs |-> PhaseOf(jobs'[k])] =
        [[k \in Jobs |-> PhaseOf(jobs[k])] EXCEPT ![j] = "running"]
  BY <1>3, <1>4
<1>6. [k \in Jobs |-> jobs'[k].run_count] =
        [[k \in Jobs |-> jobs[k].run_count] EXCEPT ![j] = jobs[j].run_count + 1]
  BY <1>2, <1>3
<1>7. [k \in Jobs |-> ResultsOf(journal'[k])] = [k \in Jobs |-> ResultsOf(journal[k])]
  BY <1>1
<1> QED
  BY <1>4, <1>5, <1>6, <1>7 DEF Queue!Start

(* merge_into changes the carry and writes no execution. *)
LEMMA MergeStutters ==
  ASSUME Inv, NEW j \in Jobs, NEW n \in 0..jobs[j].run_count,
         NEW replaces \in BOOLEAN, MergeInto(j, n, replaces)
  PROVE  UNCHANGED Queue!vars
<1> DEFINE row == MergedRow(jobs[j], replaces)
           e == Entry(n, "merged")
<1>1. /\ jobs \in [Jobs -> Row] /\ journal \in [Jobs -> Seq(JournalEntry)]
      /\ jobs[j] \in Row /\ journal[j] \in Seq(JournalEntry)
  BY DEF Inv, TypeOK
<1>2. e \in JournalEntry /\ e.outcome = "merged"
  BY <1>1, StoreAssumption DEF Row, Entry, JournalEntry, JournalOutcome
<1>3. /\ jobs' = [jobs EXCEPT ![j] = row]
      /\ journal' = [journal EXCEPT ![j] = Append(journal[j], e)]
  BY DEF MergeInto, Conclude
<1>4. row.status = jobs[j].status /\ row.run_count = jobs[j].run_count
  BY <1>1, MergedRowFacts
<1>5. PhaseOf(row) = PhaseOf(jobs[j])
  BY <1>4 DEF PhaseOf
<1>6. ResultsOf(Append(journal[j], e)) = ResultsOf(journal[j])
  BY <1>1, <1>2, AppendResult
<1> HIDE DEF row, e
<1>7. \A k \in Jobs : /\ PhaseOf(jobs'[k]) = PhaseOf(jobs[k])
                      /\ jobs'[k].run_count = jobs[k].run_count
                      /\ ResultsOf(journal'[k]) = ResultsOf(journal[k])
  BY <1>1, <1>3, <1>4, <1>5, <1>6
<1> QED
  BY <1>7 DEF Queue!vars

(* extend_lease at the spawn changes the lease alone. *)
LEMMA SpawnStutters ==
  ASSUME Inv, NEW r \in runs, NEW lease \in TaskLeases \cup {None},
         Spawn(r, lease)
  PROVE  UNCHANGED Queue!vars
<1>1. r.id \in Jobs /\ jobs \in [Jobs -> Row] /\ UNCHANGED journal
  BY DEF Inv, TypeOK, Run, Spawn
<1>2. \A k \in Jobs \ {r.id} : jobs'[k] = jobs[k]
  BY <1>1 DEF Spawn
<1>3. /\ jobs'[r.id].status = jobs[r.id].status
      /\ jobs'[r.id].run_count = jobs[r.id].run_count
  <2>1. jobs[r.id] \in Row
    BY <1>1
  <2>2. \/ jobs'[r.id] = jobs[r.id]
        \/ jobs'[r.id] = [jobs[r.id] EXCEPT !.claim_expires_at = now + lease]
    BY <1>1 DEF Spawn, LeasedRow
  <2> QED
    BY <2>1, <2>2 DEF Row
<1>4. \A k \in Jobs : /\ jobs'[k].status = jobs[k].status
                      /\ jobs'[k].run_count = jobs[k].run_count
  BY <1>2, <1>3
<1>5. \A k \in Jobs : PhaseOf(jobs'[k]) = PhaseOf(jobs[k])
  BY <1>4 DEF PhaseOf
<1> QED
  BY <1>1, <1>4, <1>5 DEF Queue!vars

(* cleanup removes ended jobs, with their results. *)
LEMMA CleanupRefines ==
  ASSUME Inv, NEW cutoff, NEW status, Cleanup(cutoff, status)
  PROVE  \E S \in SUBSET Jobs : Queue!Remove(S)
<1>0. PICK removed \in SUBSET Jobs :
        removed = {j \in Jobs : Removable(jobs[j], cutoff, status)}
  OBVIOUS
<1>1. /\ removed # {}
      /\ jobs' = [j \in Jobs |-> IF j \in removed THEN DeletedRow ELSE jobs[j]]
      /\ journal' = [j \in Jobs |-> IF j \in removed THEN << >> ELSE journal[j]]
  BY <1>0 DEF Cleanup
<1>2. \A j \in removed : jobs[j].status \in Terminal
  BY <1>0 DEF Inv, RowInv, Removable
<1>3. \A j \in removed : PhaseOf(jobs[j]) = "ended"
  BY <1>2, Phases
<1>4. /\ PhaseOf(DeletedRow) = "removed" /\ DeletedRow.run_count = 0
      /\ ResultsOf(<< >>) = {}
  BY Phases, EmptyJournal DEF DeletedRow, AbsentRow, ResultsOf
<1>5. [k \in Jobs |-> PhaseOf(jobs'[k])] =
        [k \in Jobs |-> IF k \in removed THEN "removed"
                        ELSE [i \in Jobs |-> PhaseOf(jobs[i])][k]]
  BY <1>1, <1>4
<1>6. [k \in Jobs |-> jobs'[k].run_count] =
        [k \in Jobs |-> IF k \in removed THEN 0
                        ELSE [i \in Jobs |-> jobs[i].run_count][k]]
  BY <1>1, <1>4
<1>7. [k \in Jobs |-> ResultsOf(journal'[k])] =
        [k \in Jobs |-> IF k \in removed THEN {}
                        ELSE [i \in Jobs |-> ResultsOf(journal[i])][k]]
  BY <1>1, <1>4
<1>8. Queue!Remove(removed)
  BY <1>1, <1>3, <1>5, <1>6, <1>7 DEF Queue!Remove
<1> QED
  BY <1>8

(* An empty table is an empty queue. *)
LEMMA InitRefines == Init => Queue!Init
<1> SUFFICES ASSUME Init PROVE Queue!Init
  OBVIOUS
<1>1. /\ PhaseOf(AbsentRow) = "none" /\ AbsentRow.run_count = 0
      /\ ResultsOf(<< >>) = {}
  BY Phases, EmptyJournal DEF AbsentRow, ResultsOf
<1> QED
  BY <1>1 DEF Init, Queue!Init

(* Every step of the workers, the producers and the operators is a step of *)
(* the queue or changes nothing of it.                                     *)
LEMMA NextRefines == Inv /\ [Next]_vars => [Queue!Next]_(Queue!vars)
<1> SUFFICES ASSUME Inv, [Next]_vars PROVE [Queue!Next]_(Queue!vars)
  OBVIOUS
<1>1. ASSUME UNCHANGED <<jobs, journal>> PROVE [Queue!Next]_(Queue!vars)
  BY <1>1 DEF Queue!vars
<1>2. ASSUME NEW j \in Jobs, ClientStep(j) PROVE [Queue!Next]_(Queue!vars)
  <2>1. ASSUME NEW d \in Delays, Enqueue(j, d) PROVE Queue!Next
    BY <2>1, EnqueueRefines DEF Queue!Next
  <2> QED
    BY <1>2, <2>1, MergeStutters DEF ClientStep
<1>3. ASSUME NEW cutoff, NEW status, Cleanup(cutoff, status)
      PROVE  [Queue!Next]_(Queue!vars)
  BY <1>3, CleanupRefines DEF Queue!Next
<1>4. ASSUME NEW r \in runs, RunStep(r) PROVE [Queue!Next]_(Queue!vars)
  BY <1>1, <1>4, SpawnStutters, SettleRefines, ReleaseRefines DEF RunStep, LoseRun
<1>5. ASSUME NEW w \in Workers, WorkerStep(w) PROVE [Queue!Next]_(Queue!vars)
  <2>1. ASSUME NEW j \in Jobs, Claim(w, j) \/ ClaimReplyLost(w, j)
        PROVE  [Queue!Next]_(Queue!vars)
    BY <2>1, ClaimRefines DEF Queue!Next
  <2> QED
    BY <1>1, <1>5, <2>1, RecoverRefines
    DEF WorkerStep, FindStale, RecoverFails, Shutdown, ForceFinish, Stop, Crash,
        Restart
<1>6. ASSUME Tick \/ UNCHANGED vars PROVE [Queue!Next]_(Queue!vars)
  BY <1>1, <1>6 DEF Tick, vars
<1> QED
  BY <1>2, <1>3, <1>4, <1>5, <1>6 DEF Next

(* The tables under any number of workers implement the queue the Store    *)
(* trait promises: every run of a job ends once, with one result, and only *)
(* its current run can end it.                                             *)
THEOREM Refinement == Spec => ImplementsQueue
  BY InitRefines, NextRefines, Invariance, PTL
  DEF Spec, ImplementsQueue, Queue!Spec
=============================================================================
