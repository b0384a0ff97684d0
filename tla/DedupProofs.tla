---------------------------- MODULE DedupProofs ----------------------------
(***************************************************************************)
(* Proofs, for every set of submissions and keys, that the deduplicating   *)
(* enqueue is well typed, loses no submission, and loses content and       *)
(* progress of a job only as its merges were asked to or by contention.    *)
(*                                                                         *)
(* No submission is lost.  A submission is answered in the step that       *)
(* commits its insert or merge, and both leave the job pending; from       *)
(* pending a job goes on only by a claim, which raises run_count above     *)
(* what it was at the answer, and nothing lowers it again.  For that the   *)
(* row must not be written anew by an insert: SubmitInv says that the job  *)
(* of a submission that has not inserted yet does not exist.               *)
(*                                                                         *)
(* Content and progress.  A candidate that was read holds what the writes  *)
(* before it left, and the row can have moved on since only in known ways: *)
(* by later writes, which the list of writes shows, or by a later run,     *)
(* which run_count and carry show.  MergeInv says so of every submission,  *)
(* and the merge that writes a candidate back is judged against it.        *)
(***************************************************************************)
EXTENDS Dedup, StoreProofs, SequenceTheorems

(* Where a call of submit is, against its job and what it remembers. *)
SubmitInv ==
  \A s \in Submissions :
    /\ call[s] \in {"idle", "lookup", "decide", "merge", "insert"} =>
         jobs[s].status = "absent" /\ jobs[s].finished_at = None
    /\ call[s] = "decide" => seen[s] \in Candidate
    /\ call[s] = "merge" =>
         seen[s] \in Candidate /\ decision[s] \in {"Keep", "Replace", "With"}

(* An answered submission: its job ran since, or is to run. *)
Served(ack, row) ==
  /\ row.status # "absent"
  /\ \/ row.status = "deleted"
     \/ row.status = Pending /\ row.run_count >= ack.run_count
     \/ row.run_count > ack.run_count

AckInv == \A s \in Submissions : acked[s] # None =>
                                   Served(acked[s], jobs[acked[s].job])

Inv == TypeOK /\ SubmitInv /\ AckInv

USE DEF Pending, Claimed, Completed, Dead

-----------------------------------------------------------------------------
(* Whatever ends a claim keeps run_count and does not unmake the row. *)
LEMMA SettledRowType ==
  ASSUME NEW j \in Submissions, jobs[j] \in Row, NEW s \in Settlements(j)
  PROVE  /\ SettledRow(jobs[j], s) \in Row
         /\ SettledRow(jobs[j], s).status # "absent"
         /\ SettledRow(jobs[j], s).run_count = jobs[j].run_count
         /\ JournalOutcomeFor(s) \in JournalOutcome
<1> DEFINE row == jobs[j]
<1>1. CASE s = Complete(0)
  BY <1>1, StoreAssumption
  DEF Complete, SettledRow, JournalOutcomeFor, JournalOutcome, ClearClaim, Row,
      Status, Stored
<1>2. CASE s = Pause(0, row.run_count)
  BY <1>2, StoreAssumption
  DEF Pause, SettledRow, JournalOutcomeFor, JournalOutcome, ClearClaim, Row,
      Status, Stored
<1>3. CASE s = Release(0)
  BY <1>3, StoreAssumption
  DEF Release, SettledRow, JournalOutcomeFor, JournalOutcome, ClearClaim, Row,
      Status, Stored
<1> QED BY <1>1, <1>2, <1>3 DEF Settlements

-----------------------------------------------------------------------------
(* The initial state satisfies the invariant. *)
LEMMA InitInv == Init => Inv
BY StoreAssumption, DedupAssumption
DEF Init, Inv, TypeOK, SubmitInv, AckInv, AbsentRow, Row, Status, Stored, Phases

(* The steps of a producer before it writes. *)
LEMMA ReadingInv ==
  ASSUME Inv, NEW s \in Submissions,
         \/ \E stamp \in Stamps : Submit(s, stamp)
         \/ Lookup(s)
         \/ \E d \in Decisions : Decide(s, d)
         \/ Fail(s)
  PROVE  Inv'
<1>1. CASE \E stamp \in Stamps : Submit(s, stamp)
  BY <1>1 DEF Inv, TypeOK, SubmitInv, AckInv, Submit, Goto, Phases, table
<1>2. CASE Lookup(s)
  <2>1. UNCHANGED <<jobs, payload, created, journal, decision, acked, applied, faults>>
    BY <1>2 DEF Lookup, table
  <2>2. CASE call' = [call EXCEPT ![s] = "insert"] /\ UNCHANGED seen
    BY <2>1, <2>2, <1>2 DEF Inv, TypeOK, SubmitInv, AckInv, Lookup, Phases
  <2>3. ASSUME NEW j \in Submissions,
               seen' = [seen EXCEPT ![s] =
                 [id |-> j, run_count |-> jobs[j].run_count,
                  carry |-> jobs[j].carry, payload |-> payload[j],
                  base |-> Len(applied[j])]],
               call' = [call EXCEPT ![s] = "decide"]
        PROVE  Inv'
    <3>1. [id |-> j, run_count |-> jobs[j].run_count, carry |-> jobs[j].carry,
           payload |-> payload[j], base |-> Len(applied[j])] \in Candidate
      BY DEF Inv, TypeOK, Row, Candidate
    <3> QED
      BY <2>1, <2>3, <3>1, <1>2
      DEF Inv, TypeOK, SubmitInv, AckInv, Lookup, Phases
  <2> QED BY <1>2, <2>2, <2>3 DEF Lookup, Goto, Siblings
<1>3. CASE \E d \in Decisions : Decide(s, d)
  <2>1. PICK d \in Decisions : Decide(s, d)
    BY <1>3
  <2>2. /\ UNCHANGED <<jobs, payload, created, journal, acked, applied, faults>>
        /\ call[s] = "decide" /\ seen[s] \in Candidate
    BY <2>1 DEF Decide, table, Inv, SubmitInv
  <2>3. CASE d = "Independent"
    BY <2>1, <2>2, <2>3, ZenonT(60)
    DEF Inv, TypeOK, SubmitInv, AckInv, Decide, Goto, Forget, Phases
  <2>4. CASE d # "Independent"
    <3>1. d \in {"Keep", "Replace", "With"}
      BY <2>4, DedupAssumption
    <3> QED
      BY <2>1, <2>2, <2>4, <3>1, ZenonT(60)
      DEF Inv, TypeOK, SubmitInv, AckInv, Decide, Goto, Phases
  <2> QED BY <2>3, <2>4
<1>4. CASE Fail(s)
  BY <1>4, DedupAssumption
  DEF Inv, TypeOK, SubmitInv, AckInv, Fail, Open, Goto, Forget, Phases, table
<1> QED BY <1>1, <1>2, <1>3, <1>4

(* A commit that is answered keeps AckInv, if it leaves the answered       *)
(* submissions' jobs served and the job it wrote to pending.               *)
LEMMA AnswerInv ==
  ASSUME Inv, NEW s \in Submissions, NEW j \in Submissions,
         call[s] \in {"merge", "insert"}, Answer(s, j),
         Forget(s) \/ UNCHANGED <<seen, decision>>,
         jobs' \in [Submissions -> Row],
         jobs'[j].status = Pending,
         \A i \in Submissions \ {j} : jobs'[i] = jobs[i],
         jobs[j].status = "absent" \/ jobs'[j].run_count = jobs[j].run_count,
         jobs[j].status = "absent" \/ jobs[j].status = Pending,
         jobs[j].status = "absent" => j = s
  PROVE  /\ SubmitInv' /\ AckInv'
         /\ call' \in [Submissions -> Phases]
         /\ seen' \in [Submissions -> Candidate \cup {None}]
         /\ decision' \in [Submissions -> Decisions \cup {None}]
         /\ acked' \in [Submissions ->
                           [job : Submissions, run_count : 0..MaxInt] \cup {None}]
         /\ faults' \in 0..MaxFaults
<1>1. PICK phase \in {"acked", "failed"} : call' = [call EXCEPT ![s] = phase]
  BY DEF Answer, Goto
<1>2. /\ call' \in [Submissions -> Phases]
      /\ seen' \in [Submissions -> Candidate \cup {None}]
      /\ decision' \in [Submissions -> Decisions \cup {None}]
      /\ faults' \in 0..MaxFaults
  <2>1. call' \in [Submissions -> Phases]
    BY <1>1 DEF Inv, TypeOK, Phases
  <2>2. /\ seen' \in [Submissions -> Candidate \cup {None}]
        /\ decision' \in [Submissions -> Decisions \cup {None}]
    BY DEF Inv, TypeOK, Forget
  <2>3. faults' \in 0..MaxFaults
    BY DedupAssumption DEF Inv, TypeOK, Answer
  <2> QED BY <2>1, <2>2, <2>3
<1>3. jobs'[j].run_count \in 0..MaxInt
  BY DEF Row
<1>4. \/ acked' = acked
      \/ acked' = [acked EXCEPT ![s] = [job |-> j, run_count |-> jobs'[j].run_count]]
  BY DEF Answer
<1>5. acked' \in [Submissions ->
                    [job : Submissions, run_count : 0..MaxInt] \cup {None}]
  <2>1. [job |-> j, run_count |-> jobs'[j].run_count]
          \in [job : Submissions, run_count : 0..MaxInt]
    BY <1>3
  <2> QED BY <2>1, <1>4 DEF Inv, TypeOK
<1>6. SubmitInv'
  BY <1>1 DEF Inv, TypeOK, SubmitInv, Forget
<1>7. ASSUME NEW q \in Submissions, acked'[q] # None
      PROVE  Served(acked'[q], jobs'[acked'[q].job])
  <2>1. CASE acked'[q] = [job |-> j, run_count |-> jobs'[j].run_count]
    BY <2>1, <1>3 DEF Served
  <2>2. CASE acked'[q] = acked[q]
    <3>1. /\ acked[q] \in [job : Submissions, run_count : 0..MaxInt]
          /\ Served(acked[q], jobs[acked[q].job])
      BY <2>2, <1>7 DEF Inv, TypeOK, AckInv
    <3>2. CASE acked[q].job = j
      BY <2>2, <3>1, <3>2, <1>3 DEF Served, Inv, TypeOK, Row
    <3>3. CASE acked[q].job # j
      BY <2>2, <3>1, <3>3
    <3> QED BY <3>2, <3>3
  <2> QED BY <1>4, <2>1, <2>2 DEF Inv, TypeOK
<1> QED BY <1>2, <1>5, <1>6, <1>7 DEF AckInv

(* A merge, or the fall-back to an insert, keeps the invariant. *)
LEMMA ApplyMergeInv ==
  ASSUME Inv, NEW s \in Submissions, ApplyMerge(s)
  PROVE  Inv'
<1> DEFINE j == seen[s].id
<1>1. /\ call[s] = "merge" /\ j \in Submissions /\ seen[s] \in Candidate
      /\ decision[s] \in {"Keep", "Replace", "With"}
      /\ Forget(s) /\ UNCHANGED created
  BY DEF ApplyMerge, Inv, SubmitInv, Candidate
<1>2. CASE ~ Mergeable(jobs[j])
  <2>1. Goto(s, "insert") /\ UNCHANGED <<table, acked, faults>>
    BY <1>2 DEF ApplyMerge
  <2> QED
    BY <1>1, <2>1 DEF Inv, TypeOK, SubmitInv, AckInv, Forget, Goto, table, Phases
<1>3. CASE Mergeable(jobs[j])
  <2>1. PICK c \in 0..MaxInt : jobs' = [jobs EXCEPT ![j].carry = c]
    <3>1. jobs[j].carry \in 0..MaxInt /\ seen[s].carry \in 0..MaxInt /\ 0 \in 0..MaxInt
      BY <1>1, StoreAssumption DEF Inv, TypeOK, Row, Candidate
    <3> QED BY <1>1, <1>3, <3>1 DEF ApplyMerge, MergedCarry
  <2>2. /\ jobs' \in [Submissions -> Row]
        /\ jobs'[j].status = Pending /\ jobs[j].status = Pending
        /\ jobs'[j].run_count = jobs[j].run_count
        /\ \A i \in Submissions \ {j} : jobs'[i] = jobs[i]
    <3>1. jobs[j] \in Row /\ jobs[j].status = Pending
      BY <1>1, <1>3 DEF Inv, TypeOK, Mergeable
    <3>2. /\ [jobs[j] EXCEPT !.carry = c] \in Row
          /\ [jobs[j] EXCEPT !.carry = c].status = Pending
          /\ [jobs[j] EXCEPT !.carry = c].run_count = jobs[j].run_count
      BY <3>1 DEF Row
    <3>3. jobs' = [jobs EXCEPT ![j] = [jobs[j] EXCEPT !.carry = c]]
      BY <2>1
    <3> QED BY <1>1, <3>1, <3>2, <3>3 DEF Inv, TypeOK
  <2>3. Answer(s, j)
    BY <1>3 DEF ApplyMerge
  <2>4. payload' \in [Submissions -> SUBSET Submissions]
    <3>1. MergedPayload(s, j) \in SUBSET Submissions
      BY <1>1 DEF MergedPayload, Inv, TypeOK, Candidate
    <3> QED BY <1>1, <1>3, <3>1, ZenonT(60) DEF ApplyMerge, Inv, TypeOK
  <2>5. journal' \in [Submissions -> Seq(JournalEntry)]
    <3>1. Entry(seen[s].run_count, "merged") \in JournalEntry
      BY <1>1 DEF Entry, JournalEntry, JournalOutcome, Candidate
    <3>2. journal' = [journal EXCEPT ![j] =
                        Append(journal[j], Entry(seen[s].run_count, "merged"))]
      BY <1>3 DEF ApplyMerge
    <3> QED BY <1>1, <3>1, <3>2 DEF Inv, TypeOK
  <2>6. applied' \in [Submissions -> Seq(Write)]
    <3>1. [by |-> s, base |-> seen[s].base, how |-> decision[s]] \in Write
      BY <1>1 DEF Write, Candidate
    <3>2. applied' = [applied EXCEPT ![j] = Append(applied[j],
                        [by |-> s, base |-> seen[s].base, how |-> decision[s]])]
      BY <1>3 DEF ApplyMerge
    <3> QED BY <1>1, <3>1, <3>2 DEF Inv, TypeOK
  <2>7. created' \in [Submissions -> Stamps \cup {None}]
    BY <1>1 DEF Inv, TypeOK
  <2> QED BY <1>1, <2>2, <2>3, <2>4, <2>5, <2>6, <2>7, AnswerInv DEF Inv, TypeOK
<1> QED BY <1>2, <1>3

(* An insert keeps the invariant: nobody was answered with its job yet. *)
LEMMA InsertInv ==
  ASSUME Inv, NEW s \in Submissions, Insert(s)
  PROVE  Inv'
<1>1. /\ EnqueuedRow(0) \in Row /\ EnqueuedRow(0).status = Pending
  BY EnqueuedRowFacts
<1>2. /\ jobs' \in [Submissions -> Row] /\ jobs'[s].status = Pending
      /\ \A i \in Submissions \ {s} : jobs'[i] = jobs[i]
      /\ jobs[s].status = "absent"
  BY <1>1 DEF Insert, Inv, TypeOK, SubmitInv
<1>3. applied' \in [Submissions -> Seq(Write)]
  <2>1. [by |-> s, base |-> 0, how |-> "Insert"] \in Write
    BY DEF Write
  <2> QED BY <2>1 DEF Insert, Inv, TypeOK
<1>4. /\ payload' \in [Submissions -> SUBSET Submissions]
      /\ journal' \in [Submissions -> Seq(JournalEntry)]
      /\ created' \in [Submissions -> Stamps \cup {None}]
  BY DEF Insert, Inv, TypeOK
<1>5. call[s] = "insert" /\ Answer(s, s) /\ UNCHANGED <<seen, decision>>
  BY DEF Insert
<1> QED BY <1>2, <1>3, <1>4, <1>5, AnswerInv DEF Inv, TypeOK

(* A step of a worker or an operator on job j that only raises run_count,  *)
(* and leaves the row pending or deleted unless it raises it, keeps every  *)
(* answered submission served.                                             *)
LEMMA WorkerInv ==
  ASSUME Inv, NEW j \in Submissions, Claim(j) \/ Conclude(j) \/ Cleanup(j)
  PROVE  Inv'
<1>1. UNCHANGED <<payload, created, call, seen, decision, acked, applied, faults>>
  BY DEF Claim, Conclude, Cleanup
<1>2. ASSUME NEW row \in Row, jobs' = [jobs EXCEPT ![j] = row],
             journal' \in [Submissions -> Seq(JournalEntry)],
             jobs[j].status # "absent" \/ jobs[j].finished_at # None,
             row.status # "absent",
             \/ row.status = "deleted"
             \/ row.run_count > jobs[j].run_count /\ jobs[j].status = Pending
             \/ row.run_count = jobs[j].run_count /\ jobs[j].status = Claimed
      PROVE  Inv'
  <2>1. TypeOK'
    BY <1>1, <1>2 DEF Inv, TypeOK
  <2>2. SubmitInv'
    BY <1>1, <1>2 DEF Inv, TypeOK, SubmitInv
  <2>3. ASSUME NEW q \in Submissions, acked[q] # None
        PROVE  Served(acked[q], jobs'[acked[q].job])
    <3>1. /\ acked[q].job \in Submissions /\ acked[q].run_count \in Nat
          /\ Served(acked[q], jobs[acked[q].job])
          /\ jobs[j].run_count \in Nat /\ row.run_count \in Nat
      <4>1. /\ acked[q] \in [job : Submissions, run_count : 0..MaxInt]
            /\ Served(acked[q], jobs[acked[q].job])
        BY <2>3 DEF Inv, TypeOK, AckInv
      <4>2. jobs[j] \in Row
        BY DEF Inv, TypeOK
      <4>3. /\ jobs[j].run_count \in 0..MaxInt /\ row.run_count \in 0..MaxInt
            /\ acked[q].run_count \in 0..MaxInt /\ acked[q].job \in Submissions
        BY <1>2, <4>1, <4>2 DEF Row
      <4> QED BY <4>1, <4>3, StoreAssumption
    <3>2. CASE acked[q].job # j
      BY <1>2, <3>1, <3>2 DEF Inv, TypeOK
    <3>3. CASE acked[q].job = j
      <4>1. jobs'[j] = row
        BY <1>2 DEF Inv, TypeOK
      <4> QED BY <1>2, <3>1, <3>3, <4>1 DEF Served
    <3> QED BY <3>2, <3>3
  <2> QED BY <1>1, <2>1, <2>2, <2>3 DEF Inv, AckInv
<1>3. CASE Claim(j)
  <2>1. PICK w \in Identities : jobs' = [jobs EXCEPT ![j] = ClaimedRow(jobs[j], w, 0)]
    BY <1>3 DEF Claim
  <2>2. /\ jobs[j] \in Row /\ jobs[j].run_count < MaxInt
        /\ jobs[j].status = Pending /\ jobs[j].run_count \in Nat
        /\ journal' \in [Submissions -> Seq(JournalEntry)]
    BY <1>3, StoreAssumption DEF Claim, Eligible, Inv, TypeOK, Row
  <2>3. /\ ClaimedRow(jobs[j], w, 0) \in Row
        /\ ClaimedRow(jobs[j], w, 0).status = Claimed
        /\ ClaimedRow(jobs[j], w, 0).run_count = jobs[j].run_count + 1
    BY <2>2, ClaimedRowFacts
  <2>4. /\ ClaimedRow(jobs[j], w, 0).run_count > jobs[j].run_count
        /\ ClaimedRow(jobs[j], w, 0).status # "absent"
        /\ jobs[j].status # "absent"
    BY <2>2, <2>3
  <2> QED BY <1>2, <2>1, <2>2, <2>3, <2>4
<1>4. CASE Conclude(j)
  <2>1. PICK s \in Settlements(j) :
          /\ jobs' = [jobs EXCEPT ![j] = SettledRow(jobs[j], s)]
          /\ journal' = [journal EXCEPT ![j] =
               Append(journal[j], Entry(jobs[j].run_count, JournalOutcomeFor(s)))]
    BY <1>4 DEF Conclude
  <2>2. jobs[j] \in Row /\ jobs[j].status = Claimed
    BY <1>4 DEF Conclude, Inv, TypeOK
  <2>3. /\ SettledRow(jobs[j], s) \in Row
        /\ SettledRow(jobs[j], s).status # "absent"
        /\ SettledRow(jobs[j], s).run_count = jobs[j].run_count
        /\ JournalOutcomeFor(s) \in JournalOutcome
    BY <2>2, SettledRowType
  <2>4. journal' \in [Submissions -> Seq(JournalEntry)]
    <3>1. Entry(jobs[j].run_count, JournalOutcomeFor(s)) \in JournalEntry
      BY <2>2, <2>3 DEF Entry, JournalEntry, Row
    <3> QED BY <2>1, <3>1 DEF Inv, TypeOK
  <2> QED BY <1>2, <2>1, <2>2, <2>3, <2>4
<1>5. CASE Cleanup(j)
  <2>1. DeletedRow \in Row /\ DeletedRow.status = "deleted"
    <3>1. AbsentRow \in Row
      BY StoreAssumption DEF AbsentRow, Row, Status
    <3> QED BY <3>1 DEF DeletedRow, Row, Status
  <2>2. journal' \in [Submissions -> Seq(JournalEntry)]
    BY <1>5 DEF Cleanup, Inv, TypeOK
  <2>3. jobs' = [jobs EXCEPT ![j] = DeletedRow] /\ jobs[j].finished_at # None
    BY <1>5 DEF Cleanup, Removable
  <2> QED BY <1>2, <2>1, <2>2, <2>3
<1> QED BY <1>3, <1>4, <1>5

(* Every step keeps the invariant. *)
LEMMA NextInv == Inv /\ [Next]_vars => Inv'
<1> SUFFICES ASSUME Inv, [Next]_vars PROVE Inv'
  OBVIOUS
<1>1. ASSUME NEW s \in Submissions, Producer(s) PROVE Inv'
  BY <1>1, ReadingInv, ApplyMergeInv, InsertInv DEF Producer
<1>2. ASSUME NEW j \in Submissions, Claim(j) \/ Conclude(j) \/ Cleanup(j)
      PROVE  Inv'
  BY <1>2, WorkerInv
<1>3. CASE UNCHANGED vars
  BY <1>3 DEF vars, Inv, TypeOK, SubmitInv, AckInv
<1> QED BY <1>1, <1>2, <1>3 DEF Next

(* The inductive invariant holds throughout. *)
THEOREM Invariance == Spec => []Inv
<1> QED BY InitInv, NextInv, PTL DEF Spec

(* The state of the deduplicating enqueue is well typed: a carry or a run  *)
(* number written from a stale candidate is still one of a job.            *)
THEOREM TypeCorrect == Spec => []TypeOK
<1>1. Inv => TypeOK
  BY DEF Inv
<1> QED BY <1>1, Invariance, PTL

(* submit loses no work: whatever the producers and workers do between its *)
(* three store calls, a submission that was answered Ok is for a job that  *)
(* is still to run, or that has begun a run since.                         *)
THEOREM NoWorkLost == Spec => []NoSubmissionLost
<1>1. Inv => NoSubmissionLost
  BY DEF Inv, AckInv, NoSubmissionLost, Served
<1> QED BY <1>1, Invariance, PTL

-----------------------------------------------------------------------------
(* What a merge can cost.  The argument: a candidate remembers how many    *)
(* writes preceded it (base) and holds what they left (SnapshotInv), so a  *)
(* With that writes it back loses only what came after.  The same base     *)
(* dates the carry: as long as no merge came in between, the candidate's   *)
(* carry is the job's, or a run that began after the read has left one     *)
(* (StaleInv).                                                             *)

(* The i-th write of ws is accounted for by the content, or by one of the  *)
(* writes up to the n-th.                                                  *)
Accounted(ws, i, n, content) ==
  \/ ws[i].how = "Keep"
  \/ ws[i].by \in content
  \/ \E k \in (i + 1)..n :
       \/ ws[k].how = "Replace"
       \/ ws[k].how = "With" /\ ws[k].base < i

(* A job that is not inserted yet has no writes and no carry. *)
AbsentInv ==
  \A j \in Submissions : jobs[j].status = "absent" =>
                           applied[j] = << >> /\ jobs[j].carry = 0

(* A candidate holds what the writes before it left. *)
SnapshotInv ==
  \A s \in Submissions : call[s] \in {"decide", "merge"} =>
    /\ seen[s].base <= Len(applied[seen[s].id])
    /\ \A i \in 1..seen[s].base :
         Accounted(applied[seen[s].id], i, seen[s].base, seen[s].payload)

(* No row holds the carry of a run that it did not begin. *)
CarryInv == \A j \in Submissions : jobs[j].carry <= jobs[j].run_count

(* How a row can differ from the candidate that was read from it. *)
Stale(c, row, writes) ==
  /\ c.carry <= c.run_count
  /\ row.status # "absent"
  /\ row.status # "deleted" =>
       /\ row.run_count >= c.run_count
       /\ row.status = Claimed => row.run_count > c.run_count
       /\ writes = c.base => row.carry = c.carry \/ row.carry > c.run_count

StaleInv ==
  \A s \in Submissions : call[s] \in {"decide", "merge"} =>
    Stale(seen[s], jobs[seen[s].id], Len(applied[seen[s].id]))

MergeInv ==
  AbsentInv /\ SnapshotInv /\ LostOnlyByContention /\ CarryInv /\ StaleInv

(* LostOnlyByContention in the terms of Accounted. *)
LEMMA LostAccounted ==
  ASSUME TypeOK
  PROVE  LostOnlyByContention <=>
           \A j \in Submissions : \A i \in 1..Len(applied[j]) :
             Accounted(applied[j], i, Len(applied[j]), payload[j])
<1>1. \A j \in Submissions : DOMAIN applied[j] = 1..Len(applied[j])
  BY DEF TypeOK
<1> QED BY <1>1 DEF LostOnlyByContention, Accounted

(* Neither later writes nor more content unaccount for a write. *)
LEMMA AccountedGrows ==
  \A ws, vs, c, d : \A n, m \in Nat : \A i \in 1..n :
    /\ n <= m /\ \A k \in 1..n : vs[k] = ws[k]
    /\ c \subseteq d /\ Accounted(ws, i, n, c)
    => Accounted(vs, i, m, d)
<1> SUFFICES ASSUME NEW ws, NEW vs, NEW c, NEW d, NEW n \in Nat, NEW m \in Nat,
                    NEW i \in 1..n, n <= m, \A k \in 1..n : vs[k] = ws[k],
                    c \subseteq d, Accounted(ws, i, n, c)
             PROVE  Accounted(vs, i, m, d)
  OBVIOUS
<1>1. vs[i] = ws[i]
  OBVIOUS
<1>2. CASE ws[i].how = "Keep" \/ ws[i].by \in c
  BY <1>1, <1>2 DEF Accounted
<1>3. ASSUME NEW k \in (i + 1)..n,
             ws[k].how = "Replace" \/ (ws[k].how = "With" /\ ws[k].base < i)
      PROVE  Accounted(vs, i, m, d)
  <2>1. k \in (i + 1)..m /\ vs[k] = ws[k]
    OBVIOUS
  <2> QED BY <1>3, <2>1 DEF Accounted
<1> QED BY <1>2, <1>3 DEF Accounted

(* A candidate is of a job of the table, and of a number of writes. *)
LEMMA CandidateType ==
  ASSUME Inv, NEW s \in Submissions, call[s] \in {"decide", "merge"}
  PROVE  /\ seen[s] \in Candidate /\ seen[s].id \in Submissions
         /\ seen[s].base \in Nat /\ seen[s].run_count \in Nat
         /\ seen[s].carry \in Nat
         /\ jobs[seen[s].id] \in Row
         /\ applied[seen[s].id] \in Seq(Write)
         /\ Len(applied[seen[s].id]) \in Nat
         /\ jobs[seen[s].id].run_count \in Nat /\ jobs[seen[s].id].carry \in Nat
<1>1. seen[s] \in Candidate
  BY DEF Inv, SubmitInv
<1>2. /\ seen[s].id \in Submissions /\ seen[s].base \in Nat
      /\ seen[s].run_count \in 0..MaxInt /\ seen[s].carry \in 0..MaxInt
  BY <1>1 DEF Candidate
<1>3. jobs[seen[s].id] \in Row /\ applied[seen[s].id] \in Seq(Write)
  BY <1>2 DEF Inv, TypeOK
<1>4. jobs[seen[s].id].run_count \in 0..MaxInt /\ jobs[seen[s].id].carry \in 0..MaxInt
  BY <1>3 DEF Row
<1> QED BY <1>1, <1>2, <1>3, <1>4, StoreAssumption

(* Nothing is written and no candidate read at the start. *)
LEMMA InitMerge == Init => MergeInv
BY DEF Init, MergeInv, AbsentInv, SnapshotInv, LostOnlyByContention, CarryInv,
       StaleInv, AbsentRow

(* The steps of a producer before it writes: only a lookup takes a new     *)
(* candidate, and it is the row and the payload as they are.               *)
LEMMA ReadingMerge ==
  ASSUME Inv, MergeInv, NEW s \in Submissions,
         \/ \E stamp \in Stamps : Submit(s, stamp)
         \/ Lookup(s)
         \/ \E d \in Decisions : Decide(s, d)
         \/ Fail(s)
  PROVE  MergeInv'
<1>1. UNCHANGED <<jobs, payload, journal, applied>>
  BY DEF Submit, Lookup, Decide, Fail, table
<1>2. AbsentInv' /\ LostOnlyByContention' /\ CarryInv'
  BY <1>1 DEF MergeInv, AbsentInv, LostOnlyByContention, CarryInv
<1>3. ASSUME \A q \in Submissions : call'[q] \in {"decide", "merge"} =>
               call[q] \in {"decide", "merge"} /\ seen'[q] = seen[q]
      PROVE  MergeInv'
  BY <1>1, <1>2, <1>3 DEF MergeInv, SnapshotInv, StaleInv
<1>4. CASE \E stamp \in Stamps : Submit(s, stamp)
  BY <1>3, <1>4 DEF Inv, TypeOK, Submit, Goto
<1>5. CASE \E d \in Decisions : Decide(s, d)
  BY <1>3, <1>5 DEF Inv, TypeOK, Decide, Goto, Forget
<1>6. CASE Fail(s)
  BY <1>3, <1>6 DEF Inv, TypeOK, Fail, Goto, Forget
<1>7. CASE Lookup(s)
  <2>1. CASE Goto(s, "insert") /\ UNCHANGED seen
    BY <1>3, <2>1 DEF Inv, TypeOK, Goto
  <2>2. ASSUME NEW j \in Siblings(KeyOf[s]),
               seen' = [seen EXCEPT ![s] =
                 [id |-> j, run_count |-> jobs[j].run_count,
                  carry |-> jobs[j].carry, payload |-> payload[j],
                  base |-> Len(applied[j])]],
               call' = [call EXCEPT ![s] = "decide"]
        PROVE  MergeInv'
    <3>1. j \in Submissions /\ jobs[j].status = Pending
      BY DEF Siblings
    <3>2. \A q \in Submissions \ {s} : call'[q] = call[q] /\ seen'[q] = seen[q]
      BY <2>2 DEF Inv, TypeOK
    <3>3. /\ seen'[s].id = j /\ seen'[s].run_count = jobs[j].run_count
          /\ seen'[s].carry = jobs[j].carry /\ seen'[s].payload = payload[j]
          /\ seen'[s].base = Len(applied[j])
      BY <2>2 DEF Inv, TypeOK
    <3>4. Len(applied[j]) \in Nat /\ jobs[j].run_count \in Nat
      <4>1. jobs[j].run_count \in 0..MaxInt
        BY <3>1 DEF Inv, TypeOK, Row
      <4> QED BY <3>1, <4>1, StoreAssumption DEF Inv, TypeOK
    <3>5. SnapshotInv'
      <4>1. \A i \in 1..Len(applied[j]) :
              Accounted(applied[j], i, Len(applied[j]), payload[j])
        BY <3>1, LostAccounted DEF Inv, MergeInv
      <4>2. ASSUME NEW q \in Submissions, call'[q] \in {"decide", "merge"}
            PROVE  /\ seen'[q].base <= Len(applied[seen'[q].id])
                   /\ \A i \in 1..seen'[q].base :
                        Accounted(applied[seen'[q].id], i, seen'[q].base,
                                  seen'[q].payload)
        <5>1. CASE q = s
          BY <3>3, <3>4, <4>1, <5>1
        <5>2. CASE q # s
          BY <3>2, <4>2, <5>2 DEF MergeInv, SnapshotInv
        <5> QED BY <5>1, <5>2
      <4> QED BY <1>1, <4>2 DEF SnapshotInv
    <3>6. StaleInv'
      <4>1. Stale(seen'[s], jobs[seen'[s].id], Len(applied[seen'[s].id]))
        BY <3>1, <3>3, <3>4 DEF Stale, MergeInv, CarryInv
      <4> QED BY <1>1, <3>2, <4>1 DEF MergeInv, StaleInv
    <3> QED BY <1>2, <3>5, <3>6 DEF MergeInv
  <2> QED BY <1>7, <2>1, <2>2 DEF Lookup, Goto
<1> QED BY <1>4, <1>5, <1>6, <1>7

(* What a step of a worker or an operator may do to one row. *)
LEMMA WorkerMerge ==
  ASSUME Inv, MergeInv, NEW j \in Submissions,
         Claim(j) \/ Conclude(j) \/ Cleanup(j)
  PROVE  MergeInv'
<1>1. UNCHANGED <<payload, call, seen, applied>>
  BY DEF Claim, Conclude, Cleanup
<1>2. LostOnlyByContention' /\ SnapshotInv'
  BY <1>1 DEF MergeInv, LostOnlyByContention, SnapshotInv
<1>3. jobs[j] \in Row /\ jobs[j].run_count \in Nat /\ jobs[j].carry \in Nat
  <2>1. jobs[j] \in Row
    BY DEF Inv, TypeOK
  <2>2. jobs[j].run_count \in 0..MaxInt /\ jobs[j].carry \in 0..MaxInt
    BY <2>1 DEF Row
  <2> QED BY <2>1, <2>2, StoreAssumption
<1>4. ASSUME NEW row, jobs' = [jobs EXCEPT ![j] = row], row.status # "absent",
             \/ row.status = "deleted" /\ row.carry = 0 /\ row.run_count = 0
             \/ /\ jobs[j].status = Pending /\ row.status = Claimed
                /\ row.run_count = jobs[j].run_count + 1
                /\ row.carry = jobs[j].carry
             \/ /\ jobs[j].status = Claimed /\ row.status # Claimed
                /\ row.run_count = jobs[j].run_count
                /\ row.carry \in {jobs[j].carry, jobs[j].run_count}
      PROVE  MergeInv'
  <2>1. /\ jobs'[j] = row
        /\ \A i \in Submissions \ {j} : jobs'[i] = jobs[i]
    BY <1>4 DEF Inv, TypeOK
  <2>2. AbsentInv' /\ CarryInv'
    <3>1. AbsentInv'
      BY <1>1, <1>4, <2>1 DEF MergeInv, AbsentInv
    <3>2. row.carry <= row.run_count
      BY <1>3, <1>4 DEF MergeInv, CarryInv
    <3> QED BY <2>1, <3>1, <3>2 DEF MergeInv, CarryInv
  <2>3. ASSUME NEW s \in Submissions, call[s] \in {"decide", "merge"}
        PROVE  Stale(seen[s], jobs'[seen[s].id], Len(applied[seen[s].id]))
    <3>1. Stale(seen[s], jobs[seen[s].id], Len(applied[seen[s].id]))
      BY <2>3 DEF MergeInv, StaleInv
    <3>2. seen[s].id \in Submissions /\ seen[s].run_count \in Nat
      BY <2>3, CandidateType
    <3>3. CASE seen[s].id # j
      BY <2>1, <3>1, <3>2, <3>3
    <3>4. CASE seen[s].id = j
      BY <1>3, <1>4, <2>1, <3>1, <3>2, <3>4 DEF Stale
    <3> QED BY <3>3, <3>4
  <2> QED BY <1>1, <1>2, <2>2, <2>3 DEF MergeInv, StaleInv
<1>5. CASE Claim(j)
  <2>1. PICK w \in Identities : jobs' = [jobs EXCEPT ![j] = ClaimedRow(jobs[j], w, 0)]
    BY <1>5 DEF Claim
  <2>2. jobs[j].run_count < MaxInt /\ jobs[j].status = Pending
    BY <1>5 DEF Claim, Eligible
  <2>3. /\ ClaimedRow(jobs[j], w, 0).status = Claimed
        /\ ClaimedRow(jobs[j], w, 0).run_count = jobs[j].run_count + 1
        /\ ClaimedRow(jobs[j], w, 0).carry = jobs[j].carry
    BY <1>3, <2>2, ClaimedRowFacts
  <2> QED BY <1>4, <2>1, <2>2, <2>3
<1>6. CASE Conclude(j)
  <2>1. PICK s \in Settlements(j) : jobs' = [jobs EXCEPT ![j] = SettledRow(jobs[j], s)]
    BY <1>6 DEF Conclude
  <2>2. jobs[j].status = Claimed
    BY <1>6 DEF Conclude
  <2>3. /\ SettledRow(jobs[j], s).status # "absent"
        /\ SettledRow(jobs[j], s).run_count = jobs[j].run_count
    BY <1>3, SettledRowType
  <2>4. /\ SettledRow(jobs[j], s).status # Claimed
        /\ SettledRow(jobs[j], s).carry \in {jobs[j].carry, jobs[j].run_count}
    BY <1>3
    DEF Settlements, Complete, Pause, Release, SettledRow, ClearClaim, Row
  <2> QED BY <1>4, <2>1, <2>2, <2>3, <2>4
<1>7. CASE Cleanup(j)
  <2>1. DeletedRow.status = "deleted" /\ DeletedRow.carry = 0 /\ DeletedRow.run_count = 0
    BY DEF DeletedRow, AbsentRow
  <2> QED BY <1>4, <1>7, <2>1 DEF Cleanup
<1> QED BY <1>5, <1>6, <1>7

(* A merge appends one write to the job's.  A Keep leaves the content; a   *)
(* Replace and a With account for what their content drops themselves, a   *)
(* With because its candidate holds all the writes up to its base.         *)
LEMMA ApplyMergeMerge ==
  ASSUME Inv, Inv', MergeInv, NEW s \in Submissions, ApplyMerge(s)
  PROVE  MergeInv'
<1> DEFINE j == seen[s].id
           w == [by |-> s, base |-> seen[s].base, how |-> decision[s]]
           n == Len(applied[j])
<1>1. /\ call[s] = "merge" /\ Forget(s)
      /\ decision[s] \in {"Keep", "Replace", "With"}
  BY DEF ApplyMerge, Inv, SubmitInv
<1>2. /\ j \in Submissions /\ seen[s].base \in Nat /\ n \in Nat
      /\ applied[j] \in Seq(Write) /\ seen[s] \in Candidate
  BY <1>1, CandidateType
<1>3. \A q \in Submissions \ {s} : seen'[q] = seen[q]
  BY <1>1 DEF Forget, Inv, TypeOK
<1>4. PICK phase \in {"acked", "failed", "insert"} : call' = [call EXCEPT ![s] = phase]
  BY DEF ApplyMerge, Answer, Goto
<1>5. \A q \in Submissions : call'[q] \in {"decide", "merge"} =>
        q # s /\ call[q] \in {"decide", "merge"} /\ seen'[q] = seen[q]
  BY <1>3, <1>4 DEF Inv, TypeOK
<1>6. CASE ~ Mergeable(jobs[j])
  <2>1. UNCHANGED <<jobs, payload, applied>>
    BY <1>6 DEF ApplyMerge, table
  <2> QED BY <1>5, <2>1
    DEF MergeInv, AbsentInv, SnapshotInv, LostOnlyByContention, CarryInv, StaleInv
<1>7. CASE Mergeable(jobs[j])
  <2>1. /\ jobs[j].status = Pending
        /\ jobs' = [jobs EXCEPT ![j].carry = MergedCarry(s, j)]
        /\ payload' = [payload EXCEPT ![j] = MergedPayload(s, j)]
        /\ applied' = [applied EXCEPT ![j] = Append(applied[j], w)]
    BY <1>7 DEF ApplyMerge, Mergeable
  <2>2. w \in Write
    BY <1>1, <1>2 DEF Write
  <2>3. /\ \A i \in Submissions \ {j} :
              jobs'[i] = jobs[i] /\ payload'[i] = payload[i] /\ applied'[i] = applied[i]
        /\ payload'[j] = MergedPayload(s, j)
        /\ applied'[j] = Append(applied[j], w)
    BY <1>2, <2>1 DEF Inv, TypeOK
  <2>4. jobs'[j].status = Pending /\ jobs'[j].run_count = jobs[j].run_count
    <3>1. jobs[j] \in Row
      BY <1>2 DEF Inv, TypeOK
    <3>2. jobs'[j] = [jobs[j] EXCEPT !.carry = MergedCarry(s, j)]
      BY <1>2, <2>1, ZenonT(60) DEF Inv, TypeOK
    <3> QED BY <2>1, <3>1, <3>2 DEF Row
  <2>5. /\ Len(applied'[j]) = n + 1
        /\ applied'[j][n + 1] = w
        /\ \A i \in 1..n : applied'[j][i] = applied[j][i]
    BY <1>2, <2>2, <2>3
  <2> HIDE DEF w, n
  <2>6. AbsentInv'
    BY <2>3, <2>4 DEF MergeInv, AbsentInv
  <2>7. SnapshotInv'
    <3>1. ASSUME NEW q \in Submissions, q # s, call[q] \in {"decide", "merge"}
          PROVE  /\ seen[q].base <= Len(applied'[seen[q].id])
                 /\ \A i \in 1..seen[q].base :
                      Accounted(applied'[seen[q].id], i, seen[q].base,
                                seen[q].payload)
      <4>1. /\ seen[q].base <= Len(applied[seen[q].id])
            /\ \A i \in 1..seen[q].base :
                 Accounted(applied[seen[q].id], i, seen[q].base, seen[q].payload)
        BY <3>1 DEF MergeInv, SnapshotInv
      <4>2. /\ seen[q].id \in Submissions /\ seen[q].base \in Nat
            /\ applied[seen[q].id] \in Seq(Write)
            /\ Len(applied[seen[q].id]) \in Nat
        BY <3>1, CandidateType
      <4>3. CASE seen[q].id # j
        BY <2>3, <4>1, <4>2, <4>3
      <4>4. CASE seen[q].id = j
        <5>1. seen[q].base <= n
          BY <4>1, <4>4 DEF n
        <5>2. \A k \in 1..seen[q].base : applied'[j][k] = applied[j][k]
          BY <1>2, <2>5, <4>2, <5>1
        <5>3. seen[q].base <= Len(applied'[j])
          BY <1>2, <2>5, <4>2, <5>1
        <5>4. ASSUME NEW i \in 1..seen[q].base
              PROVE  Accounted(applied'[j], i, seen[q].base, seen[q].payload)
          <6>1. Accounted(applied[j], i, seen[q].base, seen[q].payload)
            BY <4>1, <4>4
          <6>2. seen[q].base <= seen[q].base
            BY <4>2
          <6> QED BY <4>2, <5>2, <6>1, <6>2, AccountedGrows
        <5> QED BY <4>4, <5>3, <5>4
      <4> QED BY <4>3, <4>4
    <3> QED BY <1>5, <3>1 DEF SnapshotInv
  <2>8. StaleInv'
    <3>1. ASSUME NEW q \in Submissions, q # s, call[q] \in {"decide", "merge"}
          PROVE  Stale(seen[q], jobs'[seen[q].id], Len(applied'[seen[q].id]))
      <4>1. Stale(seen[q], jobs[seen[q].id], Len(applied[seen[q].id]))
        BY <3>1 DEF MergeInv, StaleInv
      <4>2. /\ seen[q].id \in Submissions /\ seen[q].base \in Nat
            /\ seen[q].base <= Len(applied[seen[q].id])
        BY <3>1, CandidateType DEF MergeInv, SnapshotInv
      <4>3. CASE seen[q].id # j
        BY <2>3, <4>1, <4>2, <4>3
      <4>4. CASE seen[q].id = j
        <5>1. Len(applied'[j]) # seen[q].base
          BY <1>2, <2>5, <4>2, <4>4 DEF n
        <5> QED BY <2>1, <2>4, <4>1, <4>4, <5>1 DEF Stale
      <4> QED BY <4>3, <4>4
    <3> QED BY <1>5, <3>1 DEF StaleInv
  <2>9. LostOnlyByContention'
    <3>1. \A q \in Submissions : \A i \in 1..Len(applied[q]) :
            Accounted(applied[q], i, Len(applied[q]), payload[q])
      BY LostAccounted DEF Inv, MergeInv
    <3>2. ASSUME NEW i \in 1..(n + 1)
          PROVE  Accounted(applied'[j], i, n + 1, payload'[j])
      <4>1. w.how = decision[s] /\ w.by = s /\ w.base = seen[s].base
        BY DEF w
      <4>2. CASE i = n + 1
        BY <1>1, <2>3, <2>5, <4>1, <4>2 DEF Accounted, MergedPayload
      <4>3. CASE i # n + 1 /\ decision[s] = "Keep"
        <5>1. Accounted(applied[j], i, n, payload[j])
          BY <1>2, <3>1, <4>3, SMTT(30) DEF n
        <5>2. payload'[j] = payload[j]
          BY <2>3, <4>3 DEF MergedPayload
        <5>3. n \in Nat /\ n + 1 \in Nat /\ n <= n + 1 /\ i \in 1..n
          BY <1>2, <4>3
        <5> QED BY <2>5, <5>1, <5>2, <5>3, AccountedGrows
      <4>4. CASE i # n + 1 /\ decision[s] = "Replace"
        BY <1>2, <2>5, <4>1, <4>4 DEF Accounted
      <4>5. CASE i # n + 1 /\ decision[s] = "With"
        <5>1. CASE seen[s].base < i
          BY <1>2, <2>5, <4>1, <4>5, <5>1 DEF Accounted
        <5>2. CASE i <= seen[s].base
          <6>1. Accounted(applied[j], i, seen[s].base, seen[s].payload)
            BY <1>1, <1>2, <5>2 DEF MergeInv, SnapshotInv
          <6>2. seen[s].base <= n
            BY <1>1 DEF MergeInv, SnapshotInv, n
          <6>3. payload'[j] = seen[s].payload \cup {s}
            BY <2>3, <4>5 DEF MergedPayload
          <6>4. n + 1 \in Nat /\ seen[s].base <= n + 1 /\ i \in 1..seen[s].base
            BY <1>2, <5>2, <6>2
          <6>5. \A k \in 1..seen[s].base : applied'[j][k] = applied[j][k]
            <7>1. \A k \in 1..seen[s].base : k \in 1..n
              BY <1>2, <6>2
            <7> QED BY <2>5, <7>1
          <6>6. seen[s].payload \subseteq payload'[j]
            BY <6>3
          <6> QED BY <1>2, <6>1, <6>4, <6>5, <6>6, AccountedGrows
        <5> QED BY <1>2, <5>1, <5>2
      <4> QED BY <1>1, <4>2, <4>3, <4>4, <4>5
    <3>3. \A q \in Submissions : \A i \in 1..Len(applied'[q]) :
            Accounted(applied'[q], i, Len(applied'[q]), payload'[q])
      <4> SUFFICES ASSUME NEW q \in Submissions, NEW i \in 1..Len(applied'[q])
                   PROVE  Accounted(applied'[q], i, Len(applied'[q]), payload'[q])
        OBVIOUS
      <4>1. CASE q = j
        BY <2>5, <3>2, <4>1
      <4>2. CASE q # j
        <5>1. applied'[q] = applied[q] /\ payload'[q] = payload[q]
          BY <2>3, <4>2
        <5> QED BY <3>1, <5>1
      <4> QED BY <4>1, <4>2
    <3>4. \A q \in Submissions : DOMAIN applied'[q] = 1..Len(applied'[q])
      BY DEF Inv, TypeOK
    <3> QED BY <3>3, <3>4 DEF LostOnlyByContention, Accounted
  <2>10. CarryInv'
    <3>1. jobs'[j].carry = MergedCarry(s, j)
      BY <1>2, <2>1 DEF Inv, TypeOK, Row
    <3>2. /\ jobs[j].carry <= jobs[j].run_count
          /\ seen[s].carry <= seen[s].run_count
          /\ seen[s].run_count <= jobs[j].run_count
      BY <1>1, <1>2, <2>1 DEF MergeInv, CarryInv, StaleInv, Stale
    <3>3. MergedCarry(s, j) <= jobs[j].run_count
      BY <1>1, <3>2, CandidateType DEF MergedCarry
    <3> QED BY <2>3, <2>4, <3>1, <3>3 DEF MergeInv, CarryInv
  <2> QED BY <2>6, <2>7, <2>8, <2>9, <2>10 DEF MergeInv
<1> QED BY <1>6, <1>7

(* An insert writes to a job without writes, of which there is no          *)
(* candidate.                                                              *)
LEMMA InsertMerge ==
  ASSUME Inv, Inv', MergeInv, NEW s \in Submissions, Insert(s)
  PROVE  MergeInv'
<1> DEFINE w == [by |-> s, base |-> 0, how |-> "Insert"]
<1>1. jobs[s].status = "absent" /\ applied[s] = << >> /\ jobs[s].carry = 0
  BY DEF Insert, Inv, SubmitInv, MergeInv, AbsentInv
<1>2. /\ \A i \in Submissions \ {s} :
           jobs'[i] = jobs[i] /\ payload'[i] = payload[i] /\ applied'[i] = applied[i]
      /\ jobs'[s] = EnqueuedRow(0) /\ payload'[s] = {s}
      /\ applied'[s] = Append(applied[s], w)
  BY DEF Insert, Inv, TypeOK
<1>3. jobs'[s].status = Pending
  BY <1>2, EnqueuedRowFacts
<1>4. Len(applied'[s]) = 1 /\ applied'[s][1] = w
  BY <1>1, <1>2
<1>5. \A q \in Submissions : call'[q] \in {"decide", "merge"} =>
        call[q] \in {"decide", "merge"} /\ seen'[q] = seen[q]
  <2>1. PICK phase \in {"acked", "failed"} : call' = [call EXCEPT ![s] = phase]
    BY DEF Insert, Answer, Goto
  <2> QED BY <2>1 DEF Insert, Inv, TypeOK
<1>6. \A q \in Submissions : call[q] \in {"decide", "merge"} =>
        seen[q].id \in Submissions /\ seen[q].id # s
  BY <1>1, CandidateType DEF MergeInv, StaleInv, Stale
<1>7. AbsentInv'
  BY <1>2, <1>3 DEF MergeInv, AbsentInv
<1>8. SnapshotInv' /\ StaleInv'
  BY <1>2, <1>5, <1>6 DEF MergeInv, SnapshotInv, StaleInv
<1>9. CarryInv'
  <2>1. EnqueuedRow(0).carry = 0 /\ EnqueuedRow(0).run_count = 0
    BY DEF EnqueuedRow, AbsentRow
  <2> QED BY <1>2, <2>1 DEF MergeInv, CarryInv
<1>10. LostOnlyByContention'
  <2>1. \A q \in Submissions : DOMAIN applied'[q] = 1..Len(applied'[q])
    BY DEF Inv, TypeOK
  <2>2. ASSUME NEW i \in 1..Len(applied'[s])
        PROVE  applied'[s][i].by \in payload'[s]
    BY <1>2, <1>4
  <2>3. ASSUME NEW q \in Submissions, NEW i \in DOMAIN applied'[q]
        PROVE  \/ applied'[q][i].how = "Keep"
               \/ applied'[q][i].by \in payload'[q]
               \/ \E k \in (i + 1)..Len(applied'[q]) :
                    \/ applied'[q][k].how = "Replace"
                    \/ applied'[q][k].how = "With" /\ applied'[q][k].base < i
    <3>1. CASE q = s
      BY <2>1, <2>2, <3>1
    <3>2. CASE q # s
      <4>1. applied'[q] = applied[q] /\ payload'[q] = payload[q]
        BY <1>2, <3>2
      <4>2. i \in DOMAIN applied[q]
        BY <4>1
      <4>3. \/ applied[q][i].how = "Keep"
            \/ applied[q][i].by \in payload[q]
            \/ \E k \in (i + 1)..Len(applied[q]) :
                 \/ applied[q][k].how = "Replace"
                 \/ applied[q][k].how = "With" /\ applied[q][k].base < i
        BY <4>2 DEF MergeInv, LostOnlyByContention
      <4> QED BY <4>1, <4>3
    <3> QED BY <3>1, <3>2
  <2> QED BY <2>3 DEF LostOnlyByContention
<1> QED BY <1>7, <1>8, <1>9, <1>10 DEF MergeInv

(* Every step keeps it. *)
LEMMA NextMerge == Inv /\ Inv' /\ MergeInv /\ [Next]_vars => MergeInv'
<1> SUFFICES ASSUME Inv, Inv', MergeInv, [Next]_vars PROVE MergeInv'
  OBVIOUS
<1>1. ASSUME NEW s \in Submissions, Producer(s) PROVE MergeInv'
  BY <1>1, ReadingMerge, ApplyMergeMerge, InsertMerge DEF Producer
<1>2. ASSUME NEW j \in Submissions, Claim(j) \/ Conclude(j) \/ Cleanup(j)
      PROVE  MergeInv'
  BY <1>2, WorkerMerge
<1>3. CASE UNCHANGED vars
  BY <1>3
  DEF vars, MergeInv, AbsentInv, SnapshotInv, LostOnlyByContention, CarryInv,
      StaleInv
<1> QED BY <1>1, <1>2, <1>3 DEF Next

(* What a candidate holds, and how stale it can be, holds throughout. *)
THEOREM CandidatesKnown == Spec => []MergeInv
<1> QED BY InitMerge, NextMerge, Invariance, PTL DEF Spec

(* submit loses content only to contention: what was written to a payload  *)
(* stays in it until a Replace, or a With based on an earlier read, is     *)
(* applied to it.                                                          *)
THEOREM ContentKept == Spec => []LostOnlyByContention
<1>1. MergeInv => LostOnlyByContention
  BY DEF MergeInv
<1> QED BY <1>1, CandidatesKnown, PTL

-----------------------------------------------------------------------------
(* A merge lowers the carry only as the task asked, or from a candidate    *)
(* that a run or another merge has overtaken.                              *)
LEMMA MergeLowers ==
  ASSUME Inv, MergeInv, NEW s \in Submissions, ApplyMerge(s),
         NEW j \in Submissions, jobs'[j].carry < jobs[j].carry
  PROVE  /\ call[s] = "merge" /\ call'[s] # "merge" /\ seen[s].id = j
         /\ \/ decision[s] = "Replace"
            \/ /\ decision[s] = "With"
               /\ \/ seen[s].run_count < jobs[j].carry
                  \/ seen[s].base < Len(applied[j])
<1>1. call[s] = "merge" /\ decision[s] \in {"Keep", "Replace", "With"}
  BY DEF ApplyMerge, Inv, SubmitInv
<1>2. /\ seen[s].id \in Submissions /\ seen[s].base \in Nat
      /\ seen[s].run_count \in Nat /\ seen[s].carry \in Nat
      /\ Len(applied[seen[s].id]) \in Nat
      /\ seen[s].base <= Len(applied[seen[s].id])
  BY <1>1, CandidateType DEF MergeInv, SnapshotInv
<1>3. call'[s] # "merge"
  BY DEF ApplyMerge, Answer, Goto, Inv, TypeOK
<1>4. jobs[j] \in Row /\ jobs[j].carry \in Nat
  <2>1. jobs[j] \in Row
    BY DEF Inv, TypeOK
  <2>2. jobs[j].carry \in 0..MaxInt
    BY <2>1 DEF Row
  <2> QED BY <2>1, <2>2, StoreAssumption
<1>5. CASE ~ Mergeable(jobs[seen[s].id])
  BY <1>4, <1>5 DEF ApplyMerge, table
<1>6. CASE Mergeable(jobs[seen[s].id])
  <2>1. /\ jobs[seen[s].id].status = Pending
        /\ jobs' = [jobs EXCEPT ![seen[s].id].carry = MergedCarry(s, seen[s].id)]
    BY <1>6 DEF ApplyMerge, Mergeable
  <2>2. seen[s].id = j
    BY <1>2, <1>4, <2>1 DEF Inv, TypeOK
  <2>3. jobs'[j].carry = MergedCarry(s, j)
    BY <1>4, <2>1, <2>2 DEF Inv, TypeOK, Row
  <2>4. decision[s] # "Keep"
    BY <1>4, <2>3 DEF MergedCarry
  <2>5. ASSUME decision[s] = "With", seen[s].base = Len(applied[j])
        PROVE  seen[s].run_count < jobs[j].carry
    <3>1. jobs'[j].carry = seen[s].carry
      BY <2>3, <2>5 DEF MergedCarry
    <3>2. jobs[j].carry = seen[s].carry \/ jobs[j].carry > seen[s].run_count
      BY <1>1, <2>1, <2>2, <2>5 DEF MergeInv, StaleInv, Stale
    <3> QED BY <1>2, <1>4, <3>1, <3>2
  <2> QED BY <1>1, <1>2, <1>3, <2>2, <2>4, <2>5
<1> QED BY <1>5, <1>6

(* No other step lowers a carry, but for the deletion of the row. *)
LEMMA OthersKeepCarry ==
  ASSUME Inv, MergeInv, [Next]_vars, NEW j \in Submissions,
         jobs'[j].carry < jobs[j].carry
  PROVE  \/ jobs'[j].status = "deleted"
         \/ \E s \in Submissions : ApplyMerge(s)
<1>1. /\ jobs[j] \in Row /\ jobs[j].carry \in Nat /\ jobs[j].run_count \in Nat
      /\ jobs[j].carry <= jobs[j].run_count
  <2>1. jobs[j] \in Row
    BY DEF Inv, TypeOK
  <2>2. jobs[j].carry \in 0..MaxInt /\ jobs[j].run_count \in 0..MaxInt
    BY <2>1 DEF Row
  <2> QED BY <2>1, <2>2, StoreAssumption DEF MergeInv, CarryInv
<1>2. jobs'[j] # jobs[j]
  BY <1>1
<1>3. CASE \E i \in Submissions : Claim(i) \/ Conclude(i) \/ Cleanup(i)
  <2>1. PICK i \in Submissions : Claim(i) \/ Conclude(i) \/ Cleanup(i)
    BY <1>3
  <2>2. i = j
    BY <1>2, <2>1 DEF Claim, Conclude, Cleanup, Inv, TypeOK
  <2>3. CASE Claim(j)
    <3>1. PICK w \in Identities : jobs' = [jobs EXCEPT ![j] = ClaimedRow(jobs[j], w, 0)]
      BY <2>3 DEF Claim
    <3>2. jobs'[j].carry = jobs[j].carry
      BY <1>1, <2>3, <3>1, ClaimedRowFacts DEF Claim, Inv, TypeOK
    <3> QED BY <1>1, <3>2
  <2>4. CASE Conclude(j)
    <3>1. PICK s \in Settlements(j) : jobs' = [jobs EXCEPT ![j] = SettledRow(jobs[j], s)]
      BY <2>4 DEF Conclude
    <3>2. jobs'[j].carry \in {jobs[j].carry, jobs[j].run_count}
      BY <1>1, <3>1 DEF Settlements, Complete, Pause, Release, SettledRow,
                        ClearClaim, Row, Inv, TypeOK
    <3> QED BY <1>1, <3>2
  <2>5. CASE Cleanup(j)
    BY <2>5 DEF Cleanup, DeletedRow, AbsentRow, Inv, TypeOK
  <2> QED BY <2>1, <2>2, <2>3, <2>4, <2>5
<1>4. ASSUME NEW s \in Submissions, Insert(s) PROVE FALSE
  <2>1. s = j
    BY <1>2, <1>4 DEF Insert, Inv, TypeOK
  <2>2. jobs[j].carry = 0
    BY <1>4, <2>1 DEF Insert, Inv, SubmitInv, MergeInv, AbsentInv
  <2>3. jobs'[j].carry = 0
    BY <1>4, <2>1 DEF Insert, EnqueuedRow, AbsentRow, Inv, TypeOK
  <2> QED BY <2>2, <2>3
<1>5. ASSUME NEW s \in Submissions,
             \/ \E stamp \in Stamps : Submit(s, stamp)
             \/ Lookup(s)
             \/ \E d \in Decisions : Decide(s, d)
             \/ Fail(s)
      PROVE  FALSE
  BY <1>2, <1>5 DEF Submit, Lookup, Decide, Fail, table
<1>6. CASE UNCHANGED vars
  BY <1>2, <1>6 DEF vars
<1> QED BY <1>3, <1>4, <1>5, <1>6 DEF Next, Producer

(* No merge undoes a run's progress unless the task asked for it with a    *)
(* Replace, or the With writes back a candidate that was read before that  *)
(* run began or before another merge.                                      *)
THEOREM ProgressKept == Spec => ProgressLostOnlyByStaleMerge
<1> DEFINE Lowered(j) ==
             \/ jobs'[j].status = "deleted"
             \/ \E s \in Submissions :
                  /\ call[s] = "merge" /\ call'[s] # "merge" /\ seen[s].id = j
                  /\ \/ decision[s] = "Replace"
                     \/ /\ decision[s] = "With"
                        /\ \/ seen[s].run_count < jobs[j].carry
                           \/ seen[s].base < Len(applied[j])
           Step == \A j \in Submissions :
                     jobs'[j].carry < jobs[j].carry => Lowered(j)
<1>1. Inv /\ MergeInv /\ [Next]_vars => [Step]_vars
  <2> SUFFICES ASSUME Inv, MergeInv, [Next]_vars, NEW j \in Submissions,
                      jobs'[j].carry < jobs[j].carry
               PROVE  Lowered(j)
    OBVIOUS
  <2>1. CASE jobs'[j].status = "deleted"
    BY <2>1
  <2>2. ASSUME NEW s \in Submissions, ApplyMerge(s) PROVE Lowered(j)
    BY <2>2, MergeLowers
  <2> QED BY <2>1, <2>2, OthersKeepCarry
<1> QED
  BY <1>1, Invariance, CandidatesKnown, PTL DEF Spec, ProgressLostOnlyByStaleMerge
=============================================================================
