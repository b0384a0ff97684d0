---------------------------- MODULE WakeupProofs ----------------------------
(***************************************************************************)
(* Proofs about Wakeup, for any number of jobs and slots and any poll_max: *)
(* a sleep is covered by its timeout or a wakeup, and an idle worker's     *)
(* delay is bounded by poll_max per disturbance.                           *)
(***************************************************************************)
EXTENDS Wakeup, FiniteSetTheorems, TLAPS

(* The waits of j that are paid for: poll_max for each disturbance and for *)
(* each scan that left j's claim over.  Kept opaque below.                 *)
Budget(n) == PollMax * n
Paid(j) == Budget(disturbed + left[j])

(* A job whose moment has not come was never kept waiting. *)
NotYetDue == \A j \in Jobs : due[j] > 0 => late[j] = 0

(* A merge pays for the wait of the row it locks in advance. *)
LockedPaid == \A j \in locked \cap Is("pending") : late[j] <= Paid(j)

(* What a round has not taken up although it could is new, or paid for. *)
RoundPaid ==
  /\ pc \in {"fill", "query"} => \A j \in Expired : late[j] <= Paid(j)
  /\ pc = "query" /\ SlotFree => \A j \in Claimable : late[j] <= Paid(j)

(* The rest of a sleep fits into what is left of the budget. *)
SleepPaid ==
  pc = "wait" => \A j \in Overdue : late[j] + sleep <= Paid(j) + PollMax

Within == \A j \in Jobs : late[j] <= Paid(j) + PollMax

(* DelayBounded is not inductive: it needs to know how long the sleep      *)
(* still is, and why a job that is overdue when it begins was not taken.   *)
DelayInv ==
  /\ NotYetDue
  /\ LockedPaid
  /\ RoundPaid
  /\ SleepPaid
  /\ Within

(* The expired claims that may go before j's in the scan, and j's own.     *)
Older(j) == {k \in Expired : left[k] >= left[j]}

(* Each scan that left a claim over took StaleLimit of the older ones, and *)
(* no claim has become older than it since.                                *)
LeftInv ==
  \A j \in Jobs : left[j] > 0 =>
    /\ j \in Expired
    /\ Cardinality(Older(j)) + StaleLimit * left[j] <= Cardinality(Jobs)

-----------------------------------------------------------------------------
(* One more disturbance, or scan that left a claim over, adds one poll_max. *)
LEMMA BudgetStep ==
  ASSUME NEW n \in Nat
  PROVE  /\ Budget(n) \in Nat
         /\ Budget(n + 1) = Budget(n) + PollMax
BY WakeupAssumption DEF Budget

(* The bound on the delay that is counted. *)
LEMMA LateBoundNat == LateBound \in Nat
<1>1. Cardinality(Jobs) \in Nat
  BY WakeupAssumption, FS_CardinalityType
<1> QED
  BY <1>1, WakeupAssumption DEF LateBound

(* What the helper on rows writes, and what it leaves. *)
LEMMA RewriteFacts ==
  ASSUME TypeOK, NEW S \in SUBSET Jobs,
         NEW s \in {"absent", "pending", "ours", "theirs"},
         NEW D \in SUBSET Nat, Rewrite(S, s, D)
  PROVE  /\ status' \in [Jobs -> {"absent", "pending", "ours", "theirs"}]
         /\ due' \in [Jobs -> Nat]
         /\ late' \in [Jobs -> 0..LateBound]
         /\ blind' \subseteq Jobs /\ blind' = blind \ S
         /\ \A j \in S : status'[j] = s /\ due'[j] \in D /\ late'[j] = 0
         /\ \A j \in Jobs \ S : /\ status'[j] = status[j]
                                /\ due'[j] = due[j]
                                /\ late'[j] = late[j]
<1>1. LateBound \in Nat
  BY LateBoundNat
<1>2. PICK d \in [S -> D] :
        due' = [j \in Jobs |-> IF j \in S THEN d[j] ELSE due[j]]
  BY DEF Rewrite
<1>3. /\ due' \in [Jobs -> Nat]
      /\ \A j \in S : due'[j] \in D
      /\ \A j \in Jobs \ S : due'[j] = due[j]
  BY <1>2 DEF TypeOK
<1>4. /\ status' \in [Jobs -> {"absent", "pending", "ours", "theirs"}]
      /\ \A j \in S : status'[j] = s
      /\ \A j \in Jobs \ S : status'[j] = status[j]
  BY DEF Rewrite, TypeOK
<1>5. /\ late' \in [Jobs -> 0..LateBound]
      /\ \A j \in S : late'[j] = 0
      /\ \A j \in Jobs \ S : late'[j] = late[j]
  BY <1>1 DEF Rewrite, TypeOK
<1>6. blind' \subseteq Jobs /\ blind' = blind \ S
  BY DEF Rewrite, TypeOK
<1> QED
  BY <1>3, <1>4, <1>5, <1>6

LEMMA RewriteFrame ==
  ASSUME TypeOK, NEW S \in SUBSET Jobs, NEW s, NEW D, Rewrite(S, s, D)
  PROVE  /\ \A j \in S : status'[j] = s /\ late'[j] = 0
         /\ \A j \in Jobs \ S : /\ status'[j] = status[j]
                                /\ due'[j] = due[j]
                                /\ late'[j] = late[j]
<1>1. PICK d \in [S -> D] :
        due' = [j \in Jobs |-> IF j \in S THEN d[j] ELSE due[j]]
  BY DEF Rewrite
<1>2. \A j \in Jobs \ S : due'[j] = due[j]
  BY <1>1
<1>3. /\ \A j \in S : status'[j] = s /\ late'[j] = 0
      /\ \A j \in Jobs \ S : status'[j] = status[j] /\ late'[j] = late[j]
  BY DEF Rewrite
<1> QED
  BY <1>2, <1>3

(* The same with the count of scans, which starts anew. *)
LEMMA WriteFacts ==
  ASSUME TypeOK, NEW S \in SUBSET Jobs,
         NEW s \in {"absent", "pending", "ours", "theirs"},
         NEW D \in SUBSET Nat, Write(S, s, D)
  PROVE  /\ status' \in [Jobs -> {"absent", "pending", "ours", "theirs"}]
         /\ due' \in [Jobs -> Nat]
         /\ late' \in [Jobs -> 0..LateBound]
         /\ left' \in [Jobs -> Nat]
         /\ blind' \subseteq Jobs
<1>1. Rewrite(S, s, D)
  BY DEF Write
<1>2. left' \in [Jobs -> Nat]
  BY DEF Write, TypeOK
<1> QED
  BY <1>1, <1>2, RewriteFacts

(* The same for one row. *)
LEMMA WriteOneFacts ==
  ASSUME TypeOK, NEW j \in Jobs, NEW s, NEW D, Write({j}, s, D)
  PROVE  /\ status'[j] = s /\ due'[j] \in D /\ late'[j] = 0 /\ left'[j] = 0
         /\ blind' = blind \ {j}
         /\ \A k \in Jobs : k # j => /\ status'[k] = status[k]
                                     /\ due'[k] = due[k]
                                     /\ late'[k] = late[k]
                                     /\ left'[k] = left[k]
<1>1. Rewrite({j}, s, D)
  BY DEF Write
<1>2. PICK d \in [{j} -> D] :
        due' = [k \in Jobs |-> IF k \in {j} THEN d[k] ELSE due[k]]
  BY <1>1 DEF Rewrite
<1>3. due'[j] \in D /\ \A k \in Jobs : k # j => due'[k] = due[k]
  BY <1>2 DEF TypeOK
<1>4. status'[j] = s /\ \A k \in Jobs : k # j => status'[k] = status[k]
  BY <1>1 DEF Rewrite, TypeOK
<1>5. late'[j] = 0 /\ \A k \in Jobs : k # j => late'[k] = late[k]
  BY <1>1 DEF Rewrite, TypeOK
<1>6. left'[j] = 0 /\ \A k \in Jobs : k # j => left'[k] = left[k]
  BY DEF Write, TypeOK
<1> QED
  BY <1>1, <1>3, <1>4, <1>5, <1>6 DEF Rewrite

-----------------------------------------------------------------------------
(* Each step of the module keeps the types. *)
LEMMA Typing ==
  ASSUME TypeOK, [Next]_vars
  PROVE  TypeOK'
<1> USE WakeupAssumption
<1>0. /\ LateBound \in Nat
      /\ {0..MaxDelay, 0..Lease, {Lease}, {0}} \subseteq SUBSET Nat
  BY LateBoundNat
<1>1. ASSUME NEW j \in Jobs, MakePending(j) PROVE TypeOK'
  BY <1>0, <1>1, WriteFacts DEF MakePending, Repend, Notify, TypeOK
<1>2. ASSUME NEW j \in Jobs, ClaimElsewhere(j) PROVE TypeOK'
  <2>1. Write({j}, "theirs", {Lease})
    BY <1>2 DEF ClaimElsewhere
  <2>2. /\ status' \in [Jobs -> {"absent", "pending", "ours", "theirs"}]
        /\ due' \in [Jobs -> Nat]
        /\ late' \in [Jobs -> 0..LateBound]
        /\ left' \in [Jobs -> Nat]
        /\ blind' \subseteq Jobs
    BY <1>0, <2>1, WriteFacts
  <2> QED
    BY <1>2, <2>2 DEF ClaimElsewhere, notifier, TypeOK
<1>3. ASSUME NEW j \in Jobs, FinishElsewhere(j) PROVE TypeOK'
  <2>1. Write({j}, "absent", {0})
    BY <1>3 DEF FinishElsewhere
  <2>2. /\ status' \in [Jobs -> {"absent", "pending", "ours", "theirs"}]
        /\ due' \in [Jobs -> Nat]
        /\ late' \in [Jobs -> 0..LateBound]
        /\ left' \in [Jobs -> Nat]
        /\ blind' \subseteq Jobs
    BY <1>0, <2>1, WriteFacts
  <2> QED
    BY <1>3, <2>2 DEF FinishElsewhere, notifier, TypeOK
<1>4. ASSUME NEW j \in Jobs, MergeBegin(j) PROVE TypeOK'
  BY <1>4 DEF MergeBegin, Disturb, notifier, TypeOK
<1>5. ASSUME NEW j \in Jobs, MergeEnd(j) PROVE TypeOK'
  BY <1>5 DEF MergeEnd, notifier, history, TypeOK
<1>6. ASSUME NEW j \in Jobs, FinishHandler(j) PROVE TypeOK'
  BY <1>6 DEF FinishHandler, rows, notifier, history, TypeOK
<1>7. ASSUME NEW j \in Jobs, ClaimNext(j) PROVE TypeOK'
  <2>1. Write({j}, "ours", {0})
    BY <1>7 DEF ClaimNext
  <2>2. /\ status' \in [Jobs -> {"absent", "pending", "ours", "theirs"}]
        /\ due' \in [Jobs -> Nat]
        /\ late' \in [Jobs -> 0..LateBound]
        /\ left' \in [Jobs -> Nat]
        /\ blind' \subseteq Jobs
    BY <1>0, <2>1, WriteFacts
  <2> QED
    BY <1>7, <2>2 DEF ClaimNext, notifier, TypeOK
<1>8. ASSUME NEW j \in Jobs, Reap(j) PROVE TypeOK'
  <2>1. /\ pc' \in {"start", "top", "fill", "query", "wait"}
        /\ done' \subseteq Jobs
        /\ disturbed' \in 0..MaxDisturbances
    BY <1>8 DEF Reap, Wake, Repend, Disturb, TypeOK
  <2>2. sent' \in BOOLEAN
    <3>1. sent' = sent \/ Notify
      BY <1>8 DEF Reap, Repend
    <3> QED
      BY <3>1 DEF Notify, TypeOK
  <2>3. \E s \in {"absent", "pending", "theirs"}, D \in SUBSET Nat : Write({j}, s, D)
    BY <1>0, <1>8 DEF Reap, Repend
  <2> QED
    BY <1>8, <2>1, <2>2, <2>3, WriteFacts DEF Reap, TypeOK
<1>9. CASE Forward
  BY <1>9 DEF Forward, rows, history, TypeOK
<1>10. CASE LoseConnection
  BY <1>10 DEF LoseConnection, rows, history, TypeOK
<1>11. CASE Start
  BY <1>11 DEF Start, rows, history, TypeOK
<1>12. CASE RecoverStale
  <2>1. PICK S \in SUBSET Expired :
          /\ Rewrite(S, "pending", 0..MaxDelay)
          /\ left' = [j \in Jobs |-> IF j \in S THEN 0
                                     ELSE IF j \in Expired THEN left[j] + 1
                                     ELSE left[j]]
          /\ NotifyEach(S)
    BY <1>12 DEF RecoverStale
  <2>2. S \in SUBSET Jobs
    BY DEF Expired, Is
  <2>3. /\ status' \in [Jobs -> {"absent", "pending", "ours", "theirs"}]
        /\ due' \in [Jobs -> Nat]
        /\ late' \in [Jobs -> 0..LateBound]
        /\ blind' \subseteq Jobs
    BY <1>0, <2>1, <2>2, RewriteFacts
  <2>4. left' \in [Jobs -> Nat]
    BY <2>1 DEF TypeOK
  <2>5. sent' \in BOOLEAN
    BY <2>1 DEF NotifyEach, Notify, TypeOK
  <2> QED
    BY <1>12, <2>3, <2>4, <2>5 DEF RecoverStale, TypeOK
<1>13. CASE RecoverFails
  <2>1. PICK T \in SUBSET Expired : Write(T, "pending", 0..MaxDelay) /\ NotifyEach(T)
    BY <1>13 DEF RecoverFails
  <2>2. T \in SUBSET Jobs
    BY DEF Expired, Is
  <2>3. /\ status' \in [Jobs -> {"absent", "pending", "ours", "theirs"}]
        /\ due' \in [Jobs -> Nat]
        /\ late' \in [Jobs -> 0..LateBound]
        /\ left' \in [Jobs -> Nat]
        /\ blind' \subseteq Jobs
    BY <1>0, <2>1, <2>2, WriteFacts
  <2>4. sent' \in BOOLEAN
    BY <2>1 DEF NotifyEach, Notify, TypeOK
  <2> QED
    BY <1>13, <2>3, <2>4 DEF RecoverFails, Disturb, TypeOK
<1>14. CASE FillEnds
  BY <1>14 DEF FillEnds, rows, notifier, history, TypeOK
<1>15. CASE ClaimFails
  BY <1>15 DEF ClaimFails, Disturb, rows, notifier, TypeOK
<1>16. CASE Query
  <2>1. sleep' \in 0..PollMax
    BY <1>16 DEF Query, Upcoming, Is, WaitDuration, AtMost, AtLeast, TypeOK
  <2>2. blind' \subseteq Jobs
    BY <1>16 DEF Query, Eligible, Is
  <2> QED
    BY <1>16, <2>1, <2>2 DEF Query, rows, notifier, TypeOK
<1>17. CASE QueryFails
  BY <1>17 DEF QueryFails, Disturb, Is, rows, notifier, TypeOK
<1>18. CASE SleepOver
  BY <1>18 DEF SleepOver, Wake, rows, notifier, history, TypeOK
<1>19. CASE Notified
  BY <1>19 DEF Notified, Wake, rows, history, TypeOK
<1>20. CASE Reconnect
  BY <1>20 DEF Reconnect, Wake, rows, history, TypeOK
<1>21. CASE Tick
  <2>1. due' \in [Jobs -> Nat]
    BY <1>21 DEF Tick, AtLeast, TypeOK
  <2>2. late' \in [Jobs -> 0..LateBound]
    BY <1>0, <1>21 DEF Tick, AtMost, TypeOK
  <2>3. sleep' \in 0..PollMax
    BY <1>21 DEF Tick, AtLeast, TypeOK
  <2> QED
    BY <1>21, <2>1, <2>2, <2>3 DEF Tick, notifier, TypeOK
<1>22. CASE UNCHANGED vars
  BY <1>22 DEF vars, TypeOK
<1> QED
  BY <1>1, <1>2, <1>3, <1>4, <1>5, <1>6, <1>7, <1>8, <1>9, <1>10, <1>11, <1>12,
     <1>13, <1>14, <1>15, <1>16, <1>17, <1>18, <1>19, <1>20, <1>21, <1>22
  DEF Next

-----------------------------------------------------------------------------
(* Writing rows that are not this worker's takes no slot and frees none. *)
LEMMA WriteKeepsSlots ==
  ASSUME TypeOK, NEW j \in Jobs, NEW s \in {"absent", "pending", "theirs"},
         NEW D \in SUBSET Nat, Write({j}, s, D), status[j] # "ours"
  PROVE  Is("ours")' = Is("ours") /\ SlotFree' = SlotFree
<1>1. Is("ours")' = Is("ours")
  BY WriteOneFacts DEF Is
<1> QED
  BY <1>1 DEF SlotFree

(* Each step keeps a sleep covered. *)
LEMMA Covering ==
  ASSUME TypeOK, TypeOK', SleepCovered, [Next]_vars
  PROVE  SleepCovered'
<1> USE WakeupAssumption
<1> SUFFICES ASSUME pc' = "wait", conn' = "up", SlotFree',
                    NEW k \in Jobs, status'[k] = "pending", k \notin blind'
             PROVE  sleep' <= due'[k] + Skew \/ Signalled'
  BY DEF SleepCovered, Is
<1>0. {0..MaxDelay, {Lease}, {0}} \subseteq SUBSET Nat
  OBVIOUS
<1>a. ASSUME pc = "wait", conn = "up", SlotFree, status[k] = "pending",
             k \notin blind
      PROVE  sleep <= due[k] + Skew \/ Signalled
  BY <1>a DEF SleepCovered, Is
<1>1. ASSUME NEW j \in Jobs, MakePending(j) PROVE sent' \/ k # j
  BY <1>1 DEF MakePending, Repend, Notify
<1>2. ASSUME NEW j \in Jobs, NEW s \in {"absent", "pending", "theirs"},
             NEW D \in SUBSET Nat, Write({j}, s, D), status[j] # "ours",
             k # j, UNCHANGED <<conn, token, pc, sleep>>, sent => sent'
      PROVE  sleep' <= due'[k] + Skew \/ Signalled'
  <2>1. status[k] = "pending" /\ k \notin blind /\ due'[k] = due[k]
    BY <1>2, WriteOneFacts
  <2>2. SlotFree
    BY <1>2, WriteKeepsSlots
  <2> QED
    BY <1>2, <1>a, <2>1, <2>2 DEF Signalled
<1>3. ASSUME NEW j \in Jobs, MakePending(j)
      PROVE  sleep' <= due'[k] + Skew \/ Signalled'
  <2>1. CASE k = j
    BY <1>1, <1>3, <2>1 DEF Signalled
  <2>2. CASE k # j
    BY <1>0, <1>2, <1>3, <2>2 DEF MakePending, Repend, Notify
  <2> QED
    BY <2>1, <2>2
<1>4. ASSUME NEW j \in Jobs, ClaimElsewhere(j)
      PROVE  sleep' <= due'[k] + Skew \/ Signalled'
  <2>1. Write({j}, "theirs", {Lease}) /\ status[j] # "ours"
    BY <1>4 DEF ClaimElsewhere, Claimable, Eligible, Is
  <2>2. k # j
    <3>1. status'[j] = "theirs"
      BY <2>1, WriteOneFacts, Zenon
    <3> QED
      BY <3>1
  <2> QED
    BY <1>0, <1>2, <1>4, <2>1, <2>2 DEF ClaimElsewhere, notifier
<1>5. ASSUME NEW j \in Jobs, FinishElsewhere(j)
      PROVE  sleep' <= due'[k] + Skew \/ Signalled'
  <2>1. Write({j}, "absent", {0}) /\ status[j] # "ours"
    BY <1>5 DEF FinishElsewhere
  <2>2. k # j
    <3>1. status'[j] = "absent"
      BY <2>1, WriteOneFacts, Zenon
    <3> QED
      BY <3>1
  <2> QED
    BY <1>0, <1>2, <1>5, <2>1, <2>2 DEF FinishElsewhere, notifier
<1>6. ASSUME UNCHANGED <<status, due, pc, sleep, blind>>,
             conn = "up", Signalled => Signalled'
      PROVE  sleep' <= due'[k] + Skew \/ Signalled'
  BY <1>6, <1>a DEF SlotFree, Is
<1>7. ASSUME NEW j \in Jobs, MergeBegin(j) \/ MergeEnd(j) \/ FinishHandler(j)
      PROVE  sleep' <= due'[k] + Skew \/ Signalled'
  BY <1>6, <1>7 DEF MergeBegin, MergeEnd, FinishHandler, rows, notifier, history,
                    Signalled
<1>8. CASE Forward
  BY <1>8 DEF Forward, Signalled
<1>9. CASE Query
  <2>1. due[k] \in Upcoming /\ due'[k] = due[k] /\ due[k] > 0
    BY <1>9 DEF Query, rows, Upcoming, Eligible, Is, TypeOK
  <2>2. PICK next \in Upcoming, reading \in (-Skew)..Skew :
          /\ \A d \in Upcoming : next <= d
          /\ sleep' = WaitDuration(next, reading)
    BY <1>9, <2>1 DEF Query
  <2>3. next \in Nat /\ next > 0 /\ next <= due[k]
    BY <2>1, <2>2 DEF Upcoming, Eligible, Is, TypeOK
  <2> QED
    BY <2>1, <2>2, <2>3 DEF WaitDuration, AtMost, AtLeast, TypeOK
<1>10. CASE QueryFails
  BY <1>10 DEF QueryFails, Is, rows
<1>11. CASE Tick
  <2>1. pc = "wait" /\ conn = "up" /\ SlotFree /\ status[k] = "pending"
        /\ k \notin blind /\ (Signalled => Signalled')
    BY <1>11 DEF Tick, notifier, Signalled, SlotFree, Is
  <2>2. sleep # 0 /\ sleep' = AtLeast(0, sleep - 1) /\ due'[k] = AtLeast(0, due[k] - 1)
    BY <1>11, <2>1 DEF Tick
  <2> QED
    BY <1>a, <2>1, <2>2 DEF AtLeast, TypeOK
<1>12. CASE UNCHANGED vars
  BY <1>6, <1>12 DEF vars, Signalled
<1>13. ASSUME NEW j \in Jobs, ClaimNext(j) \/ Reap(j) PROVE FALSE
  BY <1>13 DEF ClaimNext, Reap, Wake
<1>14. CASE LoseConnection \/ Start \/ RecoverStale \/ RecoverFails \/ FillEnds
            \/ ClaimFails \/ SleepOver \/ Notified \/ Reconnect
  BY <1>14 DEF LoseConnection, Start, RecoverStale, RecoverFails, FillEnds,
               ClaimFails, SleepOver, Notified, Reconnect, Wake
<1> QED
  BY <1>3, <1>4, <1>5, <1>7, <1>8, <1>9, <1>10, <1>11, <1>12, <1>13, <1>14
  DEF Next

-----------------------------------------------------------------------------
(* A disturbance, or a scan that left a claim over, adds one poll_max to  *)
(* what is paid for it.                                                    *)
LEMMA PaidGrows ==
  ASSUME TypeOK, TypeOK', NEW j \in Jobs
  PROVE  /\ Paid(j) \in Nat /\ Paid(j)' \in Nat
         /\ disturbed' + left'[j] = disturbed + left[j] => Paid(j)' = Paid(j)
         /\ disturbed' + left'[j] = disturbed + left[j] + 1
              => Paid(j)' = Paid(j) + PollMax
<1>1. /\ disturbed \in Nat /\ disturbed' \in Nat
      /\ left[j] \in Nat /\ left'[j] \in Nat
  BY WakeupAssumption DEF TypeOK
<1>2. PICK m \in Nat, n \in Nat : m = disturbed + left[j] /\ n = disturbed' + left'[j]
  BY <1>1
<1>3. /\ Budget(m) \in Nat /\ Budget(m + 1) = Budget(m) + PollMax
      /\ Budget(n) \in Nat
  BY BudgetStep
<1> QED
  BY <1>2, <1>3 DEF Paid

(* The same for all the jobs of which no such scan is counted. *)
LEMMA PaidKept ==
  ASSUME TypeOK, TypeOK', left' = left, disturbed' \in {disturbed, disturbed + 1}
  PROVE  \A j \in Jobs :
           /\ Paid(j) \in Nat /\ Paid(j)' \in Nat
           /\ Paid(j) <= Paid(j)'
           /\ disturbed' = disturbed => Paid(j)' = Paid(j)
           /\ disturbed' = disturbed + 1 => Paid(j)' = Paid(j) + PollMax
<1> SUFFICES ASSUME NEW j \in Jobs
             PROVE  /\ Paid(j) \in Nat /\ Paid(j)' \in Nat
                    /\ Paid(j) <= Paid(j)'
                    /\ disturbed' = disturbed => Paid(j)' = Paid(j)
                    /\ disturbed' = disturbed + 1 => Paid(j)' = Paid(j) + PollMax
  OBVIOUS
<1>1. /\ disturbed' = disturbed \/ disturbed' = disturbed + 1
      /\ left'[j] = left[j] /\ left[j] \in Nat /\ disturbed \in Nat
  BY WakeupAssumption DEF TypeOK
<1> QED
  BY <1>1, PaidGrows, WakeupAssumption

(* After a write to the rows of S every wait of theirs starts afresh, and  *)
(* the others keep theirs.                                                 *)
LEMMA WriteDelay ==
  ASSUME TypeOK, TypeOK', DelayInv, NEW S \in SUBSET Jobs,
         \A j \in S : late'[j] = 0,
         \A j \in Jobs \ S : /\ status'[j] = status[j]
                             /\ due'[j] = due[j]
                             /\ late'[j] = late[j]
                             /\ Paid(j) <= Paid(j)',
         locked' = locked
  PROVE  /\ NotYetDue' /\ LockedPaid' /\ Within'
         /\ pc' = pc /\ sleep' = sleep /\ (SlotFree' => SlotFree)
              => RoundPaid' /\ SleepPaid'
         /\ pc' = "fill" /\ pc = "fill" => RoundPaid' /\ SleepPaid'
<1>0. /\ PollMax \in Nat
      /\ \A j \in Jobs : Paid(j) \in Nat /\ Paid(j)' \in Nat
  BY PaidGrows, WakeupAssumption
<1> USE <1>0
<1>1. NotYetDue' /\ LockedPaid' /\ Within'
  <2>1. NotYetDue'
    BY DEF DelayInv, NotYetDue, TypeOK
  <2>2. LockedPaid'
    BY DEF DelayInv, LockedPaid, Is, TypeOK
  <2>3. Within'
    BY DEF DelayInv, Within, TypeOK
  <2> QED
    BY <2>1, <2>2, <2>3
<1>2. /\ \A j \in Expired' : (j \in Expired /\ late'[j] = late[j]) \/ late'[j] = 0
      /\ \A j \in Claimable' : (j \in Claimable /\ late'[j] = late[j]) \/ late'[j] = 0
      /\ Expired' \subseteq Jobs /\ Claimable' \subseteq Jobs
  BY DEF Expired, Claimable, Eligible, Is
<1>3. ASSUME pc' = pc, sleep' = sleep, SlotFree' => SlotFree
      PROVE  RoundPaid' /\ SleepPaid'
  <2>1. RoundPaid'
    BY <1>2, <1>3 DEF DelayInv, RoundPaid, TypeOK
  <2>2. \A j \in Overdue' : (j \in Overdue /\ late'[j] = late[j]) \/ late'[j] = 0
    BY <1>2, <1>3 DEF Overdue
  <2>3. sleep \in 0..PollMax
    BY DEF TypeOK
  <2>4. SleepPaid'
    BY <1>3, <2>2, <2>3, WakeupAssumption DEF DelayInv, SleepPaid, Overdue, TypeOK,
       Expired, Claimable, Eligible, Is
  <2> QED
    BY <2>1, <2>4
<1>4. ASSUME pc' = "fill", pc = "fill" PROVE RoundPaid' /\ SleepPaid'
  BY <1>2, <1>4 DEF DelayInv, RoundPaid, SleepPaid, TypeOK
<1> QED
  BY <1>1, <1>3, <1>4

(* The same for one row, as the actions use it. *)
LEMMA WriteOneDelay ==
  ASSUME TypeOK, TypeOK', DelayInv, NEW j \in Jobs, NEW s, NEW D,
         Write({j}, s, D),
         locked' = locked, disturbed' \in {disturbed, disturbed + 1}
  PROVE  /\ NotYetDue' /\ LockedPaid' /\ Within'
         /\ pc' = pc /\ sleep' = sleep /\ (SlotFree' => SlotFree)
              => RoundPaid' /\ SleepPaid'
         /\ pc' = "fill" /\ pc = "fill" => RoundPaid' /\ SleepPaid'
<1>1. /\ \A k \in {j} : late'[k] = 0
      /\ \A k \in Jobs \ {j} : /\ status'[k] = status[k]
                               /\ due'[k] = due[k]
                               /\ late'[k] = late[k]
                               /\ left'[k] = left[k]
  BY WriteOneFacts
<1>2. \A k \in Jobs \ {j} : Paid(k) <= Paid(k)'
  <2> SUFFICES ASSUME NEW k \in Jobs, k # j PROVE Paid(k) <= Paid(k)'
    OBVIOUS
  <2>1. /\ disturbed' = disturbed \/ disturbed' = disturbed + 1
        /\ left'[k] = left[k] /\ left[k] \in Nat /\ disturbed \in Nat
    BY <1>1, WakeupAssumption DEF TypeOK
  <2> QED
    BY <2>1, PaidGrows, WakeupAssumption
<1>3. {j} \in SUBSET Jobs
  OBVIOUS
<1> QED
  BY <1>1, <1>2, <1>3, WriteDelay

(* Each step keeps the delay within its budget. *)
LEMMA Delaying ==
  ASSUME TypeOK, TypeOK', DelayInv, [Next]_vars
  PROVE  DelayInv'
<1> USE WakeupAssumption
<1>0. {0..MaxDelay, {Lease}, {0}} \subseteq SUBSET Nat
  OBVIOUS
<1>1. ASSUME NEW j \in Jobs, MakePending(j) PROVE DelayInv'
  <2>1. Write({j}, "pending", 0..MaxDelay) /\ status[j] # "ours"
    BY <1>1 DEF MakePending, Repend
  <2>2. SlotFree' = SlotFree
    BY <1>0, <2>1, WriteKeepsSlots
  <2> QED
    BY <1>1, <2>1, <2>2, WriteOneDelay DEF MakePending, DelayInv
<1>2. ASSUME NEW j \in Jobs, ClaimElsewhere(j) PROVE DelayInv'
  <2>1. Write({j}, "theirs", {Lease}) /\ status[j] # "ours"
    BY <1>2 DEF ClaimElsewhere, Claimable, Eligible, Is
  <2>2. SlotFree' = SlotFree
    BY <1>0, <2>1, WriteKeepsSlots
  <2> QED
    BY <1>2, <2>1, <2>2, WriteOneDelay DEF ClaimElsewhere, DelayInv
<1>3. ASSUME NEW j \in Jobs, FinishElsewhere(j) PROVE DelayInv'
  <2>1. Write({j}, "absent", {0}) /\ status[j] # "ours"
    BY <1>3 DEF FinishElsewhere
  <2>2. SlotFree' = SlotFree
    BY <1>0, <2>1, WriteKeepsSlots
  <2> QED
    BY <1>3, <2>1, <2>2, WriteOneDelay DEF FinishElsewhere, DelayInv
<1>4. ASSUME NEW j \in Jobs, ClaimNext(j) PROVE DelayInv'
  <2>1. Write({j}, "ours", {0}) /\ pc = "fill" /\ pc' = "fill"
    BY <1>4 DEF ClaimNext
  <2> QED
    BY <1>4, <2>1, WriteOneDelay DEF ClaimNext, DelayInv
<1>5. ASSUME NEW j \in Jobs, Reap(j) PROVE DelayInv'
  <2>1. PICK s, D : Write({j}, s, D)
    BY <1>5 DEF Reap, Repend
  <2>2. /\ locked' = locked /\ disturbed' \in {disturbed, disturbed + 1}
        /\ pc' = "top"
    BY <1>5 DEF Reap, Disturb, Wake
  <2>3. NotYetDue' /\ LockedPaid' /\ Within'
    BY <2>1, <2>2, WriteOneDelay
  <2> QED
    BY <2>2, <2>3 DEF DelayInv, RoundPaid, SleepPaid
<1>6. ASSUME NEW j \in Jobs, MergeBegin(j) PROVE DelayInv'
  <2>1. /\ disturbed' = disturbed + 1 /\ locked' = locked \cup {j}
        /\ UNCHANGED <<status, due, pc, sleep, late, left>>
    BY <1>6 DEF MergeBegin, Disturb
  <2>2. /\ Expired' = Expired /\ Claimable' \subseteq Claimable
        /\ SlotFree' = SlotFree /\ Overdue' \subseteq Overdue
        /\ Overdue \subseteq Jobs /\ Claimable \subseteq Jobs /\ Expired \subseteq Jobs
    BY <2>1 DEF Expired, Claimable, Eligible, SlotFree, Overdue, Is
  <2>3. NotYetDue' /\ Within'
    BY <2>1, PaidKept DEF DelayInv, NotYetDue, Within, TypeOK
  <2>4. LockedPaid'
    BY <2>1, PaidKept DEF DelayInv, LockedPaid, Within, Is, TypeOK
  <2>5. RoundPaid' /\ SleepPaid'
    BY <2>1, <2>2, PaidKept DEF DelayInv, RoundPaid, SleepPaid, TypeOK
  <2> QED
    BY <2>3, <2>4, <2>5 DEF DelayInv
<1>7. ASSUME NEW j \in Jobs, MergeEnd(j) PROVE DelayInv'
  <2>1. /\ disturbed' = disturbed /\ locked' = locked \ {j} /\ j \in locked
        /\ UNCHANGED <<status, due, pc, sleep, late, left>>
    BY <1>7 DEF MergeEnd, history
  <2>a. \A k \in Jobs : Paid(k)' = Paid(k) /\ Paid(k) \in Nat
    BY <2>1, PaidKept
  <2> DEFINE Freed == {j} \cap Is("pending")
  <2>2. /\ Expired' = Expired /\ Claimable' \subseteq Claimable \cup Freed
        /\ SlotFree' = SlotFree /\ Overdue' \subseteq Overdue \cup Freed
        /\ Overdue \subseteq Jobs /\ Claimable \subseteq Jobs /\ Expired \subseteq Jobs
    BY <2>1 DEF Expired, Claimable, Eligible, SlotFree, Overdue, Is
  <2>3. /\ \A k \in Freed : late[k] <= Paid(k) /\ late[k] \in Nat
        /\ sleep \in Nat /\ sleep <= PollMax
    BY <2>1 DEF DelayInv, LockedPaid, TypeOK
  <2>4. NotYetDue' /\ Within' /\ LockedPaid'
    BY <2>1, <2>a DEF DelayInv, NotYetDue, Within, LockedPaid, Is
  <2>b. Freed \subseteq Jobs
    BY DEF Freed, Is
  <2> HIDE DEF Freed
  <2>5. RoundPaid'
    <3>1. pc \in {"fill", "query"} => \A k \in Expired' : late'[k] <= Paid(k)'
      BY <2>1, <2>2, <2>a DEF DelayInv, RoundPaid
    <3>2. pc = "query" /\ SlotFree => \A k \in Claimable' : late'[k] <= Paid(k)'
      BY <2>1, <2>2, <2>3, <2>a, <2>b DEF DelayInv, RoundPaid
    <3> QED
      BY <2>1, <2>2, <3>1, <3>2 DEF RoundPaid
  <2>6. SleepPaid'
    <3> SUFFICES ASSUME pc = "wait", NEW k \in Overdue'
                 PROVE  late'[k] + sleep' <= Paid(k)' + PollMax
      BY <2>1 DEF SleepPaid
    <3>1. CASE k \in Overdue
      BY <2>1, <2>2, <2>a, <3>1 DEF DelayInv, SleepPaid
    <3>2. CASE k \in Freed
      BY <2>1, <2>3, <2>a, <2>b, <3>2
    <3> QED
      BY <2>2, <3>1, <3>2
  <2> QED
    BY <2>4, <2>5, <2>6 DEF DelayInv
<1>8. ASSUME UNCHANGED <<status, due, locked, late, left, disturbed>>,
             pc' = "top" \/ (pc' = pc /\ sleep' = sleep)
      PROVE  DelayInv'
  <2>1. \A k \in Jobs : Paid(k)' = Paid(k)
    BY <1>8, PaidKept
  <2>2. /\ Expired' = Expired /\ Claimable' = Claimable /\ SlotFree' = SlotFree
        /\ Overdue' = Overdue /\ Is("pending")' = Is("pending")
        /\ Overdue \subseteq Jobs /\ Claimable \subseteq Jobs /\ Expired \subseteq Jobs
        /\ Is("pending") \subseteq Jobs
    BY <1>8 DEF Expired, Claimable, Overdue, Eligible, SlotFree, Is
  <2> QED
    BY <1>8, <2>1, <2>2 DEF DelayInv, NotYetDue, LockedPaid, RoundPaid, SleepPaid, Within
<1>9. ASSUME NEW j \in Jobs, FinishHandler(j) PROVE DelayInv'
  BY <1>8, <1>9 DEF FinishHandler, rows, history
<1>10. CASE Forward \/ LoseConnection \/ Start \/ SleepOver \/ Notified \/ Reconnect
  BY <1>8, <1>10 DEF Forward, LoseConnection, Start, SleepOver, Notified,
                     Reconnect, Wake, rows, history
<1>11. CASE RecoverStale
  <2>1. /\ pc' = "fill" /\ locked' = locked /\ disturbed' = disturbed
    BY <1>11 DEF RecoverStale
  <2>2. PICK S \in SUBSET Expired :
          /\ Rewrite(S, "pending", 0..MaxDelay)
          /\ left' = [j \in Jobs |-> IF j \in S THEN 0
                                     ELSE IF j \in Expired THEN left[j] + 1
                                     ELSE left[j]]
    BY <1>11 DEF RecoverStale
  <2>3. S \in SUBSET Jobs /\ Expired \in SUBSET Jobs /\ 0..MaxDelay \in SUBSET Nat
    BY DEF Expired, Is
  <2>4. /\ \A j \in S : status'[j] = "pending" /\ late'[j] = 0
        /\ \A j \in Jobs \ S : /\ status'[j] = status[j]
                               /\ due'[j] = due[j]
                               /\ late'[j] = late[j]
    BY <2>2, <2>3, RewriteFrame
  <2>5. /\ \A j \in Jobs : Paid(j) \in Nat /\ Paid(j)' \in Nat
        /\ \A j \in Expired \ S : Paid(j)' = Paid(j) + PollMax
        /\ \A j \in Jobs \ Expired : Paid(j)' = Paid(j)
    <3>1. /\ \A j \in Expired \ S : left'[j] = left[j] + 1
          /\ \A j \in Jobs \ Expired : left'[j] = left[j]
          /\ \A j \in Jobs : left[j] \in Nat
          /\ disturbed \in Nat
      BY <2>2, <2>3 DEF TypeOK
    <3>2. /\ \A j \in Expired \ S : disturbed' + left'[j] = disturbed + left[j] + 1
          /\ \A j \in Jobs \ Expired : disturbed' + left'[j] = disturbed + left[j]
      BY <2>1, <2>3, <3>1
    <3> QED
      BY <2>3, <3>2, PaidGrows
  <2>6. \A j \in Jobs \ S : Paid(j) <= Paid(j)'
    BY <2>5
  <2>7. NotYetDue' /\ LockedPaid' /\ Within'
    BY <2>1, <2>3, <2>4, <2>6, WriteDelay
  <2>8. \A j \in Expired' : j \in Expired \ S
    BY <2>4 DEF Expired, Is
  <2>9. \A j \in Expired' : late'[j] <= Paid(j)'
    BY <2>3, <2>4, <2>5, <2>8 DEF DelayInv, Within
  <2> QED
    BY <2>1, <2>7, <2>9 DEF DelayInv, RoundPaid, SleepPaid
<1>12. CASE RecoverFails \/ ClaimFails
  <2>1. /\ disturbed' = disturbed + 1 /\ locked' = locked
        /\ pc' \in {"fill", "query"}
    BY <1>12 DEF RecoverFails, ClaimFails, Disturb, rows
  <2>2. \E T \in SUBSET Jobs :
          /\ \A j \in T : late'[j] = 0
          /\ \A j \in Jobs \ T : /\ status'[j] = status[j]
                                 /\ due'[j] = due[j]
                                 /\ late'[j] = late[j]
                                 /\ left'[j] = left[j]
    <3>1. CASE ClaimFails
      <4>1. UNCHANGED <<status, due, late, left>>
        BY <3>1 DEF ClaimFails, rows
      <4>2. /\ {} \in SUBSET Jobs
            /\ \A j \in {} : late'[j] = 0
            /\ \A j \in Jobs \ {} : /\ status'[j] = status[j]
                                    /\ due'[j] = due[j]
                                    /\ late'[j] = late[j]
                                    /\ left'[j] = left[j]
        BY <4>1
      <4> QED
        BY <4>2, Zenon
    <3>2. CASE RecoverFails
      <4>1. PICK T \in SUBSET Expired : Write(T, "pending", 0..MaxDelay)
        BY <3>2 DEF RecoverFails
      <4>2. T \in SUBSET Jobs /\ 0..MaxDelay \in SUBSET Nat /\ Rewrite(T, "pending", 0..MaxDelay)
        BY <4>1 DEF Expired, Is, Write
      <4>3. /\ \A j \in T : late'[j] = 0
            /\ \A j \in Jobs \ T : /\ status'[j] = status[j]
                                   /\ due'[j] = due[j]
                                   /\ late'[j] = late[j]
        BY <4>2, RewriteFrame
      <4>4. \A j \in Jobs \ T : left'[j] = left[j]
        BY <4>1 DEF Write
      <4> QED
        BY <4>2, <4>3, <4>4
    <3> QED
      BY <1>12, <3>1, <3>2
  <2>3. PICK T \in SUBSET Jobs :
          /\ \A j \in T : late'[j] = 0
          /\ \A j \in Jobs \ T : /\ status'[j] = status[j]
                                 /\ due'[j] = due[j]
                                 /\ late'[j] = late[j]
                                 /\ left'[j] = left[j]
    BY <2>2
  <2>4. /\ \A j \in Jobs : Paid(j) \in Nat /\ Paid(j)' \in Nat
        /\ \A j \in Jobs \ T : Paid(j)' = Paid(j) + PollMax
    <3>1. \A j \in Jobs \ T : disturbed' + left'[j] = disturbed + left[j] + 1
      BY <2>1, <2>3 DEF TypeOK
    <3> QED
      BY <3>1, PaidGrows
  <2>5. \A j \in Jobs \ T : Paid(j) <= Paid(j)'
    BY <2>4
  <2>6. NotYetDue' /\ LockedPaid' /\ Within'
    BY <2>1, <2>3, <2>5, WriteDelay
  <2>7. \A j \in Jobs : late'[j] <= Paid(j)'
    BY <2>3, <2>4 DEF DelayInv, Within
  <2>8. RoundPaid' /\ SleepPaid'
    BY <2>1, <2>7 DEF RoundPaid, SleepPaid, Expired, Claimable, Eligible, Is
  <2> QED
    BY <2>6, <2>8 DEF DelayInv
<1>13. CASE FillEnds
  <2>1. /\ UNCHANGED <<status, due, locked, late, left, disturbed>>
        /\ pc = "fill" /\ pc' = "query" /\ (SlotFree => Claimable = {})
    BY <1>13 DEF FillEnds, rows, history
  <2>2. /\ Expired' = Expired /\ Claimable' = Claimable /\ SlotFree' = SlotFree
        /\ Expired \subseteq Jobs
        /\ Is("pending")' = Is("pending") /\ Is("pending") \subseteq Jobs
    BY <2>1 DEF Expired, Claimable, Eligible, SlotFree, Is
  <2>3. \A k \in Jobs : Paid(k)' = Paid(k)
    BY <2>1, PaidKept
  <2> QED
    BY <2>1, <2>2, <2>3 DEF DelayInv, NotYetDue, LockedPaid, RoundPaid, SleepPaid, Within
<1>14. CASE Query
  <2>1. /\ UNCHANGED <<status, due, locked, late, left, disturbed>>
        /\ pc = "query" /\ pc' = "wait"
    BY <1>14 DEF Query, rows
  <2>2. Overdue' = Overdue /\ \A j \in Overdue : late[j] <= Paid(j)
    BY <2>1 DEF Overdue, Expired, Claimable, Eligible, SlotFree, Is, DelayInv, RoundPaid
  <2>3. sleep' \in Nat /\ sleep' <= PollMax /\ \A j \in Overdue : late[j] \in Nat
    BY DEF TypeOK, Overdue, Expired, Claimable, Eligible, Is
  <2>4. \A k \in Jobs : Paid(k)' = Paid(k) /\ Paid(k) \in Nat
    BY <2>1, PaidKept
  <2>5. Overdue \subseteq Jobs /\ Is("pending")' = Is("pending") /\ Is("pending") \subseteq Jobs
    BY <2>1 DEF Overdue, Expired, Claimable, Eligible, Is
  <2>6. SleepPaid'
    BY <2>1, <2>2, <2>3, <2>4, <2>5 DEF SleepPaid
  <2> QED
    BY <2>1, <2>4, <2>5, <2>6 DEF DelayInv, NotYetDue, LockedPaid, RoundPaid, Within
<1>15. CASE QueryFails
  <2>1. /\ UNCHANGED <<status, due, locked, late, left>> /\ disturbed' = disturbed + 1
        /\ pc' = "wait" /\ sleep' = PollMax
    BY <1>15 DEF QueryFails, Disturb, rows
  <2>2. NotYetDue' /\ LockedPaid' /\ Within'
    BY <2>1, PaidKept DEF DelayInv, NotYetDue, LockedPaid, Within, Is, TypeOK
  <2>3. \A j \in Jobs : /\ late'[j] \in Nat /\ late'[j] <= Paid(j)'
                        /\ Paid(j)' \in Nat
    BY <2>1, PaidKept DEF DelayInv, Within, TypeOK
  <2>5. Overdue' \subseteq Jobs
    BY DEF Overdue, Expired, Claimable, Eligible, Is
  <2>4. SleepPaid'
    BY <2>1, <2>3, <2>5 DEF SleepPaid
  <2> QED
    BY <2>1, <2>2, <2>4 DEF DelayInv, RoundPaid
<1>16. CASE Tick
  <2>1. /\ UNCHANGED <<status, locked, pc, left, disturbed>>
        /\ \A j \in Jobs : due'[j] = AtLeast(0, due[j] - 1)
        /\ sleep' = AtLeast(0, sleep - 1)
        /\ pc = "wait" => sleep # 0
        /\ \A j \in Jobs : late'[j] = IF pc = "wait" /\ j \in Overdue
                                      THEN AtMost(LateBound, late[j] + 1) ELSE late[j]
    BY <1>16 DEF Tick
  <2>2. SlotFree' = SlotFree
    BY <2>1 DEF SlotFree, Is
  <2>a. \A j \in Jobs : Paid(j)' = Paid(j) /\ Paid(j) \in Nat
    BY <2>1, PaidKept
  <2>3. /\ \A j \in Expired' : j \in Expired \/ late[j] = 0
        /\ \A j \in Claimable' : j \in Claimable \/ late[j] = 0
        /\ Expired' \subseteq Jobs /\ Claimable' \subseteq Jobs
    BY <2>1 DEF Expired, Claimable, Eligible, Is, AtLeast, DelayInv, NotYetDue, TypeOK
  <2>4. /\ \A j \in Overdue : j \in Jobs /\ due[j] = 0
        /\ \A j \in locked \cap Is("pending") : j \in Jobs /\ j \notin Overdue
    BY DEF Overdue, Expired, Claimable, Eligible, Is, TypeOK
  <2>5. \A j \in Jobs : /\ late[j] \in Nat /\ late'[j] \in Nat
                        /\ j \in Overdue => late'[j] <= late[j] + 1
                        /\ j \notin Overdue => late'[j] = late[j]
                        /\ pc # "wait" => late'[j] = late[j]
    BY <2>1 DEF TypeOK, AtMost, LateBound
  <2>6. NotYetDue'
    <3>1. \A j \in Jobs : due'[j] > 0 => due[j] > 0
      BY <2>1 DEF AtLeast, TypeOK
    <3> QED
      BY <2>4, <2>5, <3>1 DEF DelayInv, NotYetDue
  <2>7. LockedPaid'
    BY <2>1, <2>4, <2>5, <2>a DEF DelayInv, LockedPaid, Is
  <2>8. RoundPaid'
    BY <2>1, <2>2, <2>3, <2>5, <2>a DEF DelayInv, RoundPaid
  <2>9. ASSUME pc = "wait" PROVE SleepPaid' /\ Within'
    <3>1. /\ sleep \in Nat /\ sleep > 0 /\ sleep <= PollMax /\ sleep' = sleep - 1
          /\ \A j \in Overdue : late[j] + sleep <= Paid(j) + PollMax
      BY <2>1, <2>9 DEF DelayInv, SleepPaid, AtLeast, TypeOK
    <3>2. \A j \in Overdue' : j \in Jobs /\ (j \in Overdue \/ late[j] = 0)
      BY <2>2, <2>3 DEF Overdue
    <3>3. SleepPaid'
      <4> SUFFICES ASSUME NEW j \in Overdue'
                   PROVE  late'[j] + sleep' <= Paid(j) + PollMax
        BY <2>1, <2>a, <3>2 DEF SleepPaid
      <4>1. CASE j \in Overdue
        BY <2>5, <3>1, <3>2, <4>1, <2>a, <2>1
      <4>2. CASE j \notin Overdue
        BY <2>5, <3>1, <3>2, <4>2, <2>a, <2>1
      <4> QED
        BY <4>1, <4>2
    <3>4. Within'
      BY <2>1, <2>4, <2>5, <3>1, <2>a DEF DelayInv, Within
    <3> QED
      BY <3>3, <3>4
  <2>10. ASSUME pc # "wait" PROVE SleepPaid' /\ Within'
    BY <2>1, <2>5, <2>10, <2>a DEF DelayInv, SleepPaid, Within
  <2> QED
    BY <2>6, <2>7, <2>8, <2>9, <2>10 DEF DelayInv
<1>17. CASE UNCHANGED vars
  BY <1>8, <1>17 DEF vars
<1> QED
  BY <1>1, <1>2, <1>3, <1>4, <1>5, <1>6, <1>7, <1>9, <1>10, <1>11, <1>12, <1>13,
     <1>14, <1>15, <1>16, <1>17
  DEF Next

-----------------------------------------------------------------------------
(* A step that is not a scan makes no expired claim older than another. *)
LEMMA LeftFrame ==
  ASSUME TypeOK, TypeOK', LeftInv,
         \A j \in Jobs :
           \/ left'[j] = 0
           \/ /\ left'[j] = left[j] /\ status'[j] = status[j]
              /\ due[j] = 0 => due'[j] = 0
  PROVE  LeftInv'
<1> USE WakeupAssumption
<1> SUFFICES ASSUME NEW j \in Jobs, left'[j] > 0
             PROVE  /\ j \in Expired'
                    /\ Cardinality(Older(j)') + StaleLimit * left'[j] <= Cardinality(Jobs)
  BY DEF LeftInv, Older
<1>1. /\ left'[j] = left[j] /\ left[j] > 0
      /\ status'[j] = status[j] /\ (due[j] = 0 => due'[j] = 0)
  OBVIOUS
<1>2. j \in Expired /\ Cardinality(Older(j)) + StaleLimit * left[j] <= Cardinality(Jobs)
  BY <1>1 DEF LeftInv
<1>3. j \in Expired'
  BY <1>1, <1>2 DEF Expired, Is
<1>4. Older(j)' \subseteq Older(j)
  <2> SUFFICES ASSUME NEW k \in Jobs, k \in Expired', left'[k] >= left'[j]
               PROVE  k \in Expired /\ left[k] >= left[j]
    BY DEF Older, Expired, Is
  <2>1. left'[k] \in Nat /\ left'[j] \in Nat
    BY DEF TypeOK
  <2>2. left'[k] > 0
    BY <2>1
  <2>3. left'[k] = left[k]
    BY <2>2
  <2> QED
    BY <1>1, <2>2, <2>3 DEF LeftInv
<1>5. IsFiniteSet(Older(j))
  BY FS_Subset DEF Older, Expired, Is
<1>6. /\ Cardinality(Older(j)') <= Cardinality(Older(j))
      /\ Cardinality(Older(j)') \in Nat /\ Cardinality(Older(j)) \in Nat
      /\ Cardinality(Jobs) \in Nat
  BY <1>4, <1>5, FS_Subset, FS_CardinalityType
<1>7. PICK n \in Nat : n = StaleLimit * left[j]
  BY DEF TypeOK
<1> QED
  BY <1>1, <1>2, <1>3, <1>6, <1>7

(* A scan that leaves claims over has taken StaleLimit that are older. *)
LEMMA ScanFacts ==
  ASSUME TypeOK, NEW S \in SUBSET Expired, FindStale(S), NEW j \in Expired \ S
  PROVE  /\ IsFiniteSet(Older(j)) /\ Cardinality(Older(j)) \in Nat
         /\ Cardinality(Older(j)) <= Cardinality(Jobs)
         /\ Cardinality(Older(j) \ S) = Cardinality(Older(j)) - StaleLimit
<1> USE WakeupAssumption
<1>1. /\ Expired \in SUBSET Jobs /\ Older(j) \in SUBSET Jobs
      /\ IsFiniteSet(Expired) /\ IsFiniteSet(Older(j)) /\ IsFiniteSet(S)
  BY FS_Subset DEF Older, Expired, Is
<1>2. /\ Cardinality(Older(j)) \in Nat /\ Cardinality(Expired) \in Nat
      /\ Cardinality(S) \in Nat /\ Cardinality(Jobs) \in Nat
      /\ Cardinality(Older(j)) <= Cardinality(Jobs)
  BY <1>1, FS_CardinalityType, FS_Subset
<1>3. Cardinality(S) # Cardinality(Expired)
  <2>1. S # Expired
    OBVIOUS
  <2> QED
    BY <1>1, <2>1, FS_Subset
<1>4. Cardinality(S) = StaleLimit
  BY <1>2, <1>3 DEF FindStale, AtMost
<1>5. Older(j) \cap S = S
  <2>1. \A k \in S : left[k] \in Nat /\ left[j] \in Nat /\ left[j] <= left[k]
    BY <1>1 DEF FindStale, TypeOK
  <2> QED
    BY <2>1 DEF Older
<1> QED
  BY <1>1, <1>2, <1>4, <1>5, FS_Difference

(* Each step keeps the number of scans that left a claim over in its bound. *)
LEMMA Leaving ==
  ASSUME TypeOK, TypeOK', LeftInv, [Next]_vars
  PROVE  LeftInv'
<1> USE WakeupAssumption
<1>1. ASSUME NEW j \in Jobs, NEW s, NEW D, Write({j}, s, D) PROVE LeftInv'
  <2>1. /\ left'[j] = 0
        /\ \A k \in Jobs : k # j => /\ status'[k] = status[k]
                                    /\ due'[k] = due[k]
                                    /\ left'[k] = left[k]
    BY <1>1, WriteOneFacts
  <2> QED
    BY <2>1, LeftFrame
<1>2. ASSUME UNCHANGED <<status, due, left>> PROVE LeftInv'
  BY <1>2, LeftFrame
<1>3. ASSUME NEW j \in Jobs, MakePending(j) \/ ClaimElsewhere(j) \/ FinishElsewhere(j)
                              \/ ClaimNext(j)
      PROVE  LeftInv'
  <2>1. PICK s, D : Write({j}, s, D)
    BY <1>3 DEF MakePending, ClaimElsewhere, FinishElsewhere, ClaimNext, Repend
  <2> QED
    BY <1>1, <2>1
<1>4. ASSUME NEW j \in Jobs, Reap(j) PROVE LeftInv'
  <2>1. PICK s, D : Write({j}, s, D)
    BY <1>4 DEF Reap, Repend
  <2> QED
    BY <1>1, <2>1
<1>5. ASSUME NEW j \in Jobs, MergeBegin(j) \/ MergeEnd(j) \/ FinishHandler(j)
      PROVE  LeftInv'
  BY <1>2, <1>5 DEF MergeBegin, MergeEnd, FinishHandler, rows, history
<1>6. CASE Forward \/ LoseConnection \/ Start \/ SleepOver \/ Notified \/ Reconnect
  BY <1>2, <1>6 DEF Forward, LoseConnection, Start, SleepOver, Notified, Reconnect,
                    rows, history
<1>7. CASE FillEnds \/ ClaimFails \/ Query \/ QueryFails
  BY <1>2, <1>7 DEF FillEnds, ClaimFails, Query, QueryFails, rows, history
<1>8. CASE RecoverStale
  <2>1. PICK S \in SUBSET Expired :
          /\ FindStale(S)
          /\ Rewrite(S, "pending", 0..MaxDelay)
          /\ left' = [j \in Jobs |-> IF j \in S THEN 0
                                     ELSE IF j \in Expired THEN left[j] + 1
                                     ELSE left[j]]
    BY <1>8 DEF RecoverStale
  <2>2. S \in SUBSET Jobs /\ Expired \in SUBSET Jobs /\ 0..MaxDelay \in SUBSET Nat
    BY DEF Expired, Is
  <2>3. /\ \A j \in S : status'[j] = "pending"
        /\ \A j \in Jobs \ S : status'[j] = status[j] /\ due'[j] = due[j]
    BY <2>1, <2>2, RewriteFrame
  <2>4. Expired' = Expired \ S
    BY <2>2, <2>3 DEF Expired, Is
  <2>5. /\ \A j \in S : left'[j] = 0
        /\ \A j \in Expired \ S : left'[j] = left[j] + 1
        /\ \A j \in Jobs \ Expired : left'[j] = left[j]
        /\ \A j \in Jobs : left[j] \in Nat
    BY <2>1, <2>2 DEF TypeOK
  <2> SUFFICES ASSUME NEW j \in Jobs, left'[j] > 0
               PROVE  /\ j \in Expired'
                      /\ Cardinality(Older(j)') + StaleLimit * left'[j]
                           <= Cardinality(Jobs)
    BY DEF LeftInv, Older
  <2>6. j \in Expired \ S
    <3>1. j \in Jobs \ Expired => left[j] > 0 /\ j \in Expired
      BY <2>5 DEF LeftInv
    <3> QED
      BY <2>5, <3>1
  <2>7. Older(j)' = Older(j) \ S
    <3>1. \A k \in Expired \ S : left'[k] >= left'[j] <=> left[k] >= left[j]
      BY <2>2, <2>5, <2>6
    <3> QED
      BY <2>4, <3>1 DEF Older
  <2>8. /\ Cardinality(Older(j)') = Cardinality(Older(j)) - StaleLimit
        /\ Cardinality(Older(j)) \in Nat /\ Cardinality(Older(j)) <= Cardinality(Jobs)
        /\ Cardinality(Jobs) \in Nat
    BY <2>1, <2>6, <2>7, ScanFacts, FS_CardinalityType
  <2>9. StaleLimit * left'[j] = StaleLimit * left[j] + StaleLimit
    BY <2>5, <2>6
  <2>10. PICK n \in Nat : n = StaleLimit * left[j]
    BY <2>5
  <2>11. left[j] = 0 => n = 0
    BY <2>10
  <2>12. left[j] # 0 => Cardinality(Older(j)) + n <= Cardinality(Jobs)
    BY <2>5, <2>10 DEF LeftInv
  <2> QED
    BY <2>4, <2>6, <2>8, <2>9, <2>10, <2>11, <2>12
<1>9. CASE RecoverFails
  <2>1. PICK T \in SUBSET Expired : Write(T, "pending", 0..MaxDelay)
    BY <1>9 DEF RecoverFails
  <2>2. T \in SUBSET Jobs /\ 0..MaxDelay \in SUBSET Nat /\ Rewrite(T, "pending", 0..MaxDelay)
    BY <2>1 DEF Expired, Is, Write
  <2>3. \A j \in Jobs \ T : status'[j] = status[j] /\ due'[j] = due[j]
    BY <2>2, RewriteFrame
  <2>4. \A j \in Jobs : left'[j] = IF j \in T THEN 0 ELSE left[j]
    BY <2>1 DEF Write
  <2> QED
    BY <2>3, <2>4, LeftFrame
<1>10. CASE Tick
  <2>1. \A j \in Jobs : /\ status'[j] = status[j] /\ left'[j] = left[j]
                        /\ due[j] = 0 => due'[j] = 0
    BY <1>10 DEF Tick, AtLeast, TypeOK
  <2> QED
    BY <2>1, LeftFrame
<1>11. CASE UNCHANGED vars
  BY <1>2, <1>11 DEF vars
<1> QED
  BY <1>3, <1>4, <1>5, <1>6, <1>7, <1>8, <1>9, <1>10, <1>11 DEF Next

-----------------------------------------------------------------------------
(* Type correctness, for any constants. *)
THEOREM TypeCorrect == Spec => []TypeOK
<1>1. Init => TypeOK
  <2>1. LateBound \in Nat
    BY LateBoundNat
  <2>2. 0 \in 0..PollMax /\ 0 \in 0..LateBound /\ 0 \in 0..MaxDisturbances /\ 0 \in Nat
    BY <2>1, WakeupAssumption
  <2>3. Init => /\ late \in [Jobs -> 0..LateBound]
                /\ due \in [Jobs -> Nat] /\ left \in [Jobs -> Nat]
    BY <2>2 DEF Init
  <2> QED
    BY <2>2, <2>3 DEF Init, TypeOK
<1>2. TypeOK /\ [Next]_vars => TypeOK'
  BY Typing
<1> QED
  BY <1>1, <1>2, PTL DEF Spec

(* With the connection up, a worker with a free slot never sleeps past the *)
(* moment a pending job becomes eligible by more than the clock skew,      *)
(* except for rows that were eligible when next_visible_at looked.         *)
THEOREM SleepIsCovered == Spec => []SleepCovered
<1>1. Init => SleepCovered
  BY DEF Init, SleepCovered
<1>2. TypeOK /\ TypeOK' /\ SleepCovered /\ [Next]_vars => SleepCovered'
  BY Covering
<1> QED
  BY <1>1, <1>2, TypeCorrect, PTL DEF Spec

(* Whatever happens to notifications, an idle worker leaves a claimable    *)
(* job for at most poll_max, and poll_max more for each store error and    *)
(* merge.  An expired claim waits poll_max more for each scan whose LIMIT  *)
(* left it over; with n jobs in all these are fewer than n / StaleLimit.   *)
THEOREM DelayIsBounded == Spec => []DelayBounded
<1>1. ASSUME Init PROVE DelayInv /\ LeftInv
  <2>1. /\ disturbed = 0
        /\ \A j \in Jobs : late[j] = 0 /\ left[j] = 0
    BY <1>1 DEF Init
  <2>2. \A j \in Jobs : Paid(j) \in Nat
    BY <2>1, BudgetStep DEF Paid
  <2>3. NotYetDue /\ LockedPaid /\ Within
    BY <1>1, <2>1, <2>2, WakeupAssumption DEF Init, NotYetDue, LockedPaid, Within, Is
  <2>4. RoundPaid /\ SleepPaid
    BY <1>1 DEF Init, RoundPaid, SleepPaid
  <2>5. LeftInv
    BY <2>1 DEF LeftInv
  <2> QED
    BY <2>3, <2>4, <2>5 DEF DelayInv
<1>2. TypeOK /\ TypeOK' /\ DelayInv /\ [Next]_vars => DelayInv'
  BY Delaying
<1>3. TypeOK /\ TypeOK' /\ LeftInv /\ [Next]_vars => LeftInv'
  BY Leaving
<1>4. TypeOK /\ DelayInv /\ LeftInv => DelayBounded
  <2> SUFFICES ASSUME TypeOK, DelayInv, LeftInv, NEW j \in Jobs
               PROVE  /\ late[j] <= PollMax * (disturbed + left[j] + 1)
                      /\ left[j] > 0 => j \in Expired
                      /\ StaleLimit * left[j] < Cardinality(Jobs)
    BY DEF DelayBounded
  <2>1. disturbed \in Nat /\ left[j] \in Nat
    BY WakeupAssumption DEF TypeOK
  <2>2. PICK n \in Nat : n = disturbed + left[j]
    BY <2>1
  <2>3. late[j] <= PollMax * (n + 1)
    BY <2>2, BudgetStep DEF DelayInv, Within, Paid, Budget
  <2>4. IsFiniteSet(Older(j)) /\ Older(j) \subseteq Jobs
    BY FS_Subset, WakeupAssumption DEF Older, Expired, Is
  <2>5. Cardinality(Jobs) \in Nat /\ Cardinality(Older(j)) \in Nat
    BY <2>4, FS_CardinalityType, WakeupAssumption
  <2>6. ASSUME left[j] > 0 PROVE StaleLimit * left[j] < Cardinality(Jobs)
    <3>1. /\ j \in Expired
          /\ Cardinality(Older(j)) + StaleLimit * left[j] <= Cardinality(Jobs)
      BY <2>6 DEF LeftInv
    <3>2. Older(j) # {}
      BY <2>1, <3>1 DEF Older
    <3>3. Cardinality(Older(j)) # 0
      BY <2>4, <3>2, FS_EmptySet
    <3>4. PICK m \in Nat : m = StaleLimit * left[j]
      BY <2>1, WakeupAssumption
    <3> QED
      BY <2>5, <3>1, <3>3, <3>4
  <2>7. ASSUME left[j] = 0 PROVE StaleLimit * left[j] < Cardinality(Jobs)
    <3>1. Cardinality(Jobs) # 0
      BY FS_EmptySet, WakeupAssumption
    <3> QED
      BY <2>5, <2>7, <3>1, WakeupAssumption
  <2>8. left[j] > 0 => j \in Expired
    BY DEF LeftInv
  <2> QED
    BY <2>1, <2>2, <2>3, <2>6, <2>7, <2>8
<1> QED
  BY <1>1, <1>2, <1>3, <1>4, TypeCorrect, PTL DEF Spec
=============================================================================
