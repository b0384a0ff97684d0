------------------------------- MODULE Wakeup -------------------------------
(***************************************************************************)
(* How an idle worker learns of work: notifications over the dedicated     *)
(* LISTEN connection, the timeout computed from next_visible_at, and the   *)
(* poll_max fallback, against producers, other workers, merges that hold a *)
(* row lock, and a connection that drops.                                  *)
(*                                                                         *)
(* Time is kept as what is left of it: a countdown per row and one for the *)
(* sleep, all moved by Tick.  One tick is the least wait the loop accepts  *)
(* (5 ms).  Kinds, caps and the order of claims are in WorkerLoop; leases  *)
(* of this worker's own claims are in Lifecycle and outlive their handlers *)
(* here.                                                                   *)
(***************************************************************************)
EXTENDS Integers, FiniteSets

CONSTANTS
  Jobs,
  Concurrency,     \* WorkerConfig::concurrency
  StaleLimit,      \* the LIMIT of the stale scan
  PollMax,         \* WorkerConfig::poll_max, in ticks
  MaxDelay,        \* bound: how far ahead a visible_at may lie
  Lease,           \* the lease of a claim by another worker, in ticks
  Skew,            \* how far this host's clock and the database's may differ
  MaxDisturbances  \* bound: store errors and merges in one behaviour

ASSUME WakeupAssumption ==
  /\ IsFiniteSet(Jobs)
  /\ Concurrency \in Nat \ {0} /\ StaleLimit \in Nat \ {0}
  /\ PollMax \in Nat \ {0}
  /\ MaxDelay \in Nat /\ Lease \in Nat /\ Skew \in Nat
  /\ MaxDisturbances \in Nat

VARIABLES
  status,     \* per job: "absent", "pending", "ours", "theirs"
  due,        \* ticks to visible_at of a pending job, to lease expiry of theirs
  locked,     \* the rows locked by a merge that has not committed
  done,       \* the jobs whose handler here has ended and is not reaped
  conn,       \* the LISTEN connection: "up", "mute" (dead but not noticed),
              \* "closed", or "never" (NeverNotifier)
  sent,       \* a notification is on its way on the connection
  token,      \* the wakeup channel, of capacity one, is full
  pc,         \* where the loop is
  sleep,      \* ticks left of tokio::time::sleep(wait)
  blind,      \* history: pending rows the wait was computed without
  late,       \* history: ticks a job was overdue while the loop slept
  left,       \* history: scans that left the expired claim of a job over
  disturbed   \* history: store errors and merges so far

vars == <<status, due, locked, done, conn, sent, token, pc, sleep, blind, late,
          left, disturbed>>
rows == <<status, due, locked>>
notifier == <<conn, sent, token>>
history == <<blind, late, left, disturbed>>

LateBound == PollMax * (MaxDisturbances + Cardinality(Jobs) + 1) + 1

TypeOK ==
  /\ status \in [Jobs -> {"absent", "pending", "ours", "theirs"}]
  /\ due \in [Jobs -> Nat]
  /\ locked \subseteq Jobs
  /\ done \subseteq Jobs
  /\ conn \in {"up", "mute", "closed", "never"}
  /\ sent \in BOOLEAN /\ token \in BOOLEAN
  /\ pc \in {"start", "top", "fill", "query", "wait"}
  /\ sleep \in 0..PollMax
  /\ blind \subseteq Jobs
  /\ late \in [Jobs -> 0..LateBound]
  /\ left \in [Jobs -> Nat]
  /\ disturbed \in 0..MaxDisturbances

Init ==
  /\ status = [j \in Jobs |-> "absent"]
  /\ due = [j \in Jobs |-> 0]
  /\ locked = {} /\ done = {}
  /\ conn = "never" /\ sent = FALSE /\ token = FALSE
  /\ pc = "start"
  /\ sleep = 0
  /\ blind = {}
  /\ late = [j \in Jobs |-> 0]
  /\ left = [j \in Jobs |-> 0]
  /\ disturbed = 0

-----------------------------------------------------------------------------
Is(s) == {j \in Jobs : status[j] = s}
Eligible == {j \in Is("pending") : due[j] = 0}
Expired == {j \in Is("theirs") : due[j] = 0}
SlotFree == Cardinality(Is("ours")) < Concurrency
Claimable == Eligible \ locked

(* What the loop would take up at once if it were awake. *)
Overdue == Expired \cup (IF SlotFree THEN Claimable ELSE {})

AtMost(bound, n) == IF n > bound THEN bound ELSE n
AtLeast(bound, n) == IF n < bound THEN bound ELSE n

Disturb == disturbed < MaxDisturbances /\ disturbed' = disturbed + 1

FaultyNotify == UNCHANGED sent

(* pg_notify in the transaction of the write: delivered with the commit,   *)
(* to a connection that listens, or to nobody.                             *)
Notify == sent' = (sent \/ conn = "up")

(* Every row of S is written with status s, due somewhere in D. *)
Rewrite(S, s, D) ==
  /\ status' = [j \in Jobs |-> IF j \in S THEN s ELSE status[j]]
  /\ \E d \in [S -> D] : due' = [j \in Jobs |-> IF j \in S THEN d[j] ELSE due[j]]
  /\ late' = [j \in Jobs |-> IF j \in S THEN 0 ELSE late[j]]
  /\ blind' = blind \ S

Write(S, s, D) ==
  /\ Rewrite(S, s, D)
  /\ left' = [j \in Jobs |-> IF j \in S THEN 0 ELSE left[j]]

Repend(S) == Write(S, "pending", 0..MaxDelay) /\ Notify

-----------------------------------------------------------------------------
(* Producers and other workers.  What they do leaves the loop alone. *)

(* An enqueue, or a retry, pause or release by another worker. *)
MakePending(j) ==
  /\ status[j] \in {"absent", "theirs"}
  /\ Repend({j})
  /\ UNCHANGED <<locked, done, conn, token, pc, sleep, disturbed>>

ClaimElsewhere(j) ==
  /\ j \in Claimable
  /\ Write({j}, "theirs", {Lease})
  /\ UNCHANGED <<locked, done, notifier, pc, sleep, disturbed>>

(* A terminal settlement by another worker: no notification. *)
FinishElsewhere(j) ==
  /\ status[j] = "theirs"
  /\ Write({j}, "absent", {0})
  /\ UNCHANGED <<locked, done, notifier, pc, sleep, disturbed>>

(* merge_into locks the row from its UPDATE to its COMMIT, and notifies    *)
(* nobody.                                                                 *)
MergeBegin(j) ==
  /\ status[j] = "pending" /\ j \notin locked
  /\ locked' = locked \cup {j}
  /\ Disturb
  /\ UNCHANGED <<status, due, done, notifier, pc, sleep, blind, late, left>>

MergeEnd(j) ==
  /\ j \in locked
  /\ locked' = locked \ {j}
  /\ UNCHANGED <<status, due, done, notifier, pc, sleep, history>>

FinishHandler(j) ==
  /\ status[j] = "ours" /\ j \notin done
  /\ done' = done \cup {j}
  /\ UNCHANGED <<rows, notifier, pc, sleep, history>>

-----------------------------------------------------------------------------
(* The listening connection and its forwarding task. *)

(* try_send into the channel; a wakeup that is already there subsumes it. *)
Forward ==
  /\ sent /\ conn = "up"
  /\ token' = TRUE
  /\ sent' = FALSE
  /\ UNCHANGED <<rows, done, conn, pc, sleep, history>>

(* The peer is gone without a word, or the connection task ends.  What was *)
(* under way is lost; a wakeup in the channel stays there.                 *)
LoseConnection ==
  /\ \/ conn = "up" /\ conn' \in {"mute", "closed"}
     \/ conn = "mute" /\ conn' = "closed"
  /\ sent' = FALSE
  /\ UNCHANGED <<rows, done, token, pc, sleep, history>>

-----------------------------------------------------------------------------
(* The loop. *)

(* Store::notifier; on failure the worker polls for the rest of its life. *)
Start ==
  /\ pc = "start"
  /\ conn' \in {"up", "never"}
  /\ pc' = "top"
  /\ UNCHANGED <<rows, done, sent, token, sleep, history>>

FaultyFindStale(S) ==
  /\ S \subseteq Expired
  /\ Cardinality(S) = AtMost(StaleLimit, Cardinality(Expired))

(* find_stale: the claims that expired first, StaleLimit of them at most.  *)
(* A claim that more scans have left over expired before one that fewer    *)
(* have.                                                                   *)
FindStale(S) ==
  /\ S \subseteq Expired
  /\ Cardinality(S) = AtMost(StaleLimit, Cardinality(Expired))
  /\ \A j \in S, k \in Expired \ S : left[k] <= left[j]

(* recover notifies in its transaction, once per row. *)
NotifyEach(S) == IF S = {} THEN UNCHANGED sent ELSE Notify

(* The claims beyond the limit wait for a later round. *)
RecoverStale ==
  /\ pc = "top"
  /\ \E S \in SUBSET Expired :
       /\ FindStale(S)
       /\ Rewrite(S, "pending", 0..MaxDelay)
       /\ left' = [j \in Jobs |-> IF j \in S THEN 0
                                  ELSE IF j \in Expired THEN left[j] + 1
                                  ELSE left[j]]
       /\ NotifyEach(S)
  /\ pc' = "fill"
  /\ UNCHANGED <<locked, done, conn, token, sleep, disturbed>>

(* The scan fails, or the recovery of some of the rows it found. *)
RecoverFails ==
  /\ pc = "top"
  /\ Disturb
  /\ \E S \in SUBSET Expired :
       /\ FindStale(S)
       /\ \E T \in SUBSET S : Write(T, "pending", 0..MaxDelay) /\ NotifyEach(T)
  /\ pc' = "fill"
  /\ UNCHANGED <<locked, done, conn, token, sleep>>

(* A claim, and the spawn of its handler.  Locked rows are skipped. *)
ClaimNext(j) ==
  /\ pc = "fill" /\ SlotFree
  /\ j \in Claimable
  /\ Write({j}, "ours", {0})
  /\ UNCHANGED <<locked, done, notifier, pc, sleep, disturbed>>

(* No slot, or nothing to claim. *)
FillEnds ==
  /\ pc = "fill"
  /\ ~ SlotFree \/ Claimable = {}
  /\ pc' = "query"
  /\ UNCHANGED <<rows, done, notifier, sleep, history>>

ClaimFails ==
  /\ pc = "fill" /\ SlotFree
  /\ Disturb
  /\ pc' = "query"
  /\ UNCHANGED <<rows, done, notifier, sleep, blind, late, left>>

(* next_visible_at: the rows not visible yet, and only those. *)
Upcoming == {due[j] : j \in Is("pending") \ Eligible}

FaultyWaitDuration(next, reading) == AtLeast(1, next - reading)

(* wait_duration, when this host's clock is `reading` ahead: no less than  *)
(* 5 ms and no more than poll_max.                                         *)
WaitDuration(next, reading) == AtMost(PollMax, AtLeast(1, next - reading))

Query ==
  /\ pc = "query"
  /\ \/ Upcoming = {} /\ sleep' = PollMax
     \/ \E next \in Upcoming, reading \in (-Skew)..Skew :
          /\ \A d \in Upcoming : next <= d
          /\ sleep' = WaitDuration(next, reading)
  /\ blind' = Eligible
  /\ pc' = "wait"
  /\ UNCHANGED <<rows, done, notifier, late, left, disturbed>>

QueryFails ==
  /\ pc = "query"
  /\ Disturb
  /\ sleep' = PollMax
  /\ blind' = Is("pending")
  /\ pc' = "wait"
  /\ UNCHANGED <<rows, done, notifier, late, left>>

-----------------------------------------------------------------------------
(* The branches of select!; the others are dropped, and what they had      *)
(* received stays where it was.                                            *)

Wake == pc = "wait" /\ pc' = "top"

SleepOver ==
  /\ Wake /\ sleep = 0
  /\ UNCHANGED <<rows, done, notifier, sleep, history>>

Notified ==
  /\ Wake /\ token
  /\ token' = FALSE
  /\ UNCHANGED <<rows, done, conn, sent, sleep, history>>

(* recv finds the channel empty and closed.  It returns once it is         *)
(* connected again, or after a pause if it cannot be.                      *)
Reconnect ==
  /\ Wake /\ conn = "closed" /\ ~ token
  /\ conn' \in {"up", "closed"}
  /\ UNCHANGED <<rows, done, sent, token, sleep, history>>

(* A finished handler is settled: terminally, back to pending, or not at   *)
(* all, which leaves the claim to its lease.                               *)
Reap(j) ==
  /\ Wake /\ j \in done
  /\ done' = done \ {j}
  /\ \/ Write({j}, "absent", {0}) /\ UNCHANGED <<sent, disturbed>>
     \/ Repend({j}) /\ UNCHANGED disturbed
     \/ Write({j}, "theirs", 0..Lease) /\ Disturb /\ UNCHANGED sent
  /\ UNCHANGED <<locked, conn, token, sleep>>

-----------------------------------------------------------------------------
(* The clock.  A sleep that is over ends before the next tick; everything  *)
(* else, store calls and connection attempts included, may take any time.  *)
Tick ==
  /\ ~ (pc = "wait" /\ sleep = 0)
  /\ due' = [j \in Jobs |-> AtLeast(0, due[j] - 1)]
  /\ sleep' = AtLeast(0, sleep - 1)
  /\ late' = [j \in Jobs |->
                IF pc = "wait" /\ j \in Overdue
                THEN AtMost(LateBound, late[j] + 1) ELSE late[j]]
  /\ UNCHANGED <<status, locked, done, notifier, pc, blind, left, disturbed>>

Next ==
  \/ \E j \in Jobs :
       \/ MakePending(j) \/ ClaimElsewhere(j) \/ FinishElsewhere(j)
       \/ MergeBegin(j) \/ MergeEnd(j)
       \/ FinishHandler(j) \/ ClaimNext(j) \/ Reap(j)
  \/ Forward \/ LoseConnection
  \/ Start \/ RecoverStale \/ RecoverFails
  \/ FillEnds \/ ClaimFails \/ Query \/ QueryFails
  \/ SleepOver \/ Notified \/ Reconnect
  \/ Tick

Spec == Init /\ [][Next]_vars

-----------------------------------------------------------------------------
(* Properties. *)

(* A wakeup is in the channel, on its way, or the closed channel is one. *)
Signalled == token \/ sent \/ conn = "closed"

(* guide.md: poll_max "only bounds the delay of a dropped notification".   *)
(* Over all its sleeps, an idle worker leaves a claimable job for at most  *)
(* poll_max, whatever happens to the connection; a store error, or a merge *)
(* that locked the row just then, costs another poll_max.  A claim whose   *)
(* lease has expired waits a poll_max more for each scan that left it over *)
(* to the LIMIT; and each of these scans took StaleLimit older claims, so  *)
(* their number is bounded by the jobs there are.                          *)
DelayBounded ==
  \A j \in Jobs :
    /\ late[j] <= PollMax * (disturbed + left[j] + 1)
    /\ left[j] > 0 => j \in Expired
    /\ StaleLimit * left[j] < Cardinality(Jobs)

(* As long as the connection works, a worker with a free slot never sleeps *)
(* past the moment a job becomes eligible by more than the clocks differ:  *)
(* its timeout is early enough or a wakeup is on its way, in particular    *)
(* for a job written after the timeout was computed.  The exception are    *)
(* rows that were eligible by the time next_visible_at looked.             *)
SleepCovered ==
  pc = "wait" /\ conn = "up" /\ SlotFree =>
    \A j \in Is("pending") \ blind : sleep <= due[j] + Skew \/ Signalled

(* guide.md: the worker "wakes exactly when a delayed job [...] becomes    *)
(* eligible, rather than only at its poll interval".  One that becomes     *)
(* eligible between the last claim and next_visible_at is in neither.      *)
WakesWhenEligible ==
  pc = "wait" /\ conn = "up" /\ SlotFree =>
    \A j \in Eligible : sleep <= Skew \/ Signalled
=============================================================================
