----------------------------- MODULE WorkerLoop -----------------------------
(***************************************************************************)
(* One worker's claim/dispatch loop, step by step: recover, fill the free  *)
(* slots by claims at a rotating priority floor with the kinds at their    *)
(* cap left out, wait, reap, and on shutdown drain, abort and release.     *)
(*                                                                         *)
(* What Lifecycle keeps of a row (counts, carry, lease) is left out here:  *)
(* a settlement or release applies exactly when its task is in `live`,     *)
(* that is when no recovery has ended its claim; Lifecycle shows that the  *)
(* SQL guard decides this.  What Lifecycle leaves out is modelled instead: *)
(* the order of claims, kinds and caps, and the loop's own bookkeeping,    *)
(* where an error in by_kind or inflight would leak a slot or a claim.     *)
(*                                                                         *)
(* A job name stands for a stream of jobs of one kind: when one is         *)
(* finished the next may be enqueued under the same name, behind every job *)
(* that is in the queue by then.  A merge may rewrite the priority of a    *)
(* job that is pending; while a merge or a claim of another session holds  *)
(* a row locked, the claims of this worker skip it.                        *)
(***************************************************************************)
EXTENDS Integers, FiniteSets, Sequences

CONSTANTS
  None,
  Jobs,         \* job names
  Kinds,        \* registered kinds
  KindOf,       \* [Jobs -> Kinds]
  TiersOf,      \* [Jobs -> subsets of 0..2], 0 high, 1 normal, 2 low
  Cap,          \* [Kinds -> positive or None], register_capped
  Concurrency,  \* WorkerConfig::concurrency
  Ratio,        \* WorkerConfig::priority_ratio, None for strict priority
  Tasks,        \* tokio task ids, reused once a task is gone
  Watched,      \* the job whose wait is counted
  MaxFaults     \* bound: store errors, lost tasks and claims that skip a
                \* locked row in one behaviour

(* A handle of the JoinSet: the job of a task, and how far the task is.  A *)
(* task that was told to abort is "aborting" until it reaches an await.    *)
Handles == [job : Jobs,
            state : {"running", "aborting", "finished", "lost", "aborted"}]

ASSUME WorkerLoopAssumption ==
  /\ KindOf \in [Jobs -> Kinds]
  /\ TiersOf \in [Jobs -> (SUBSET (0..2)) \ {{}}]
  /\ Cap \in [Kinds -> (Nat \ {0}) \cup {None}]
  /\ Concurrency \in Nat \ {0}
  /\ Ratio \in Nat \cup {None}
  /\ None \notin Nat /\ None \notin Jobs /\ None \notin Handles
  /\ Watched \in Jobs
  /\ IsFiniteSet(Tasks) /\ Cardinality(Tasks) >= Concurrency
  /\ MaxFaults \in Nat

VARIABLES
  queue,     \* the unfinished jobs, in the order of created_at
  status,    \* per job: "none", "hidden" (visible_at ahead), "eligible", "claimed"
  priority,  \* per job, its tier: the column the claims are ordered by
  pc,        \* where the loop is
  counter,   \* claim_counter, modulo the rotation's period
  floor,     \* the priority floor of the claim under way
  held,      \* the claimed job whose handler is not spawned yet
  running,   \* the JoinSet: per task id, its job and state, or None
  inflight,  \* per task id, the job the loop tracks behind it, or None
  by_kind,   \* per kind, the in-flight count the caps are checked against
  live,      \* the task ids whose claim no recovery has ended
  shutdown,  \* the cancellation token
  passed,    \* history: claims of other jobs since Watched became eligible
             \* in a tier with no other change of who shares it
  faults,    \* store errors and lost tasks so far
  skips      \* claims so far that found a row locked

vars == <<queue, status, priority, pc, counter, floor, held, running, inflight,
          by_kind, live, shutdown, passed, faults, skips>>
store == <<queue, status, priority>>
memory == <<held, running, inflight, by_kind, live>>

FloorAll    == 0
FloorNormal == 1
FloorLow    == 2

(* The rotation repeats after Ratio^2 claims; without one it is trivial. *)
Rotates == Ratio # None /\ Ratio >= 2
Period  == IF Rotates THEN Ratio * Ratio ELSE 1
PassedBound == Period * (MaxFaults + 1) + 1

TypeOK ==
  /\ queue \in Seq(Jobs)
  /\ status \in [Jobs -> {"none", "hidden", "eligible", "claimed"}]
  /\ priority \in [Jobs -> 0..2]
  /\ pc \in {"top", "fill", "claim", "spawn", "wait", "drain", "join",
             "release", "stopped"}
  /\ counter \in 0..(Period - 1)
  /\ floor \in {FloorAll, FloorNormal, FloorLow}
  /\ held \in Jobs \cup {None}
  /\ running \in [Tasks -> Handles \cup {None}]
  /\ inflight \in [Tasks -> Jobs \cup {None}]
  /\ by_kind \in [Kinds -> 0..Concurrency]
  /\ live \subseteq Tasks
  /\ shutdown \in BOOLEAN
  /\ passed \in 0..PassedBound
  /\ faults \in 0..MaxFaults
  /\ skips \in 0..(MaxFaults - faults)

Init ==
  /\ queue = << >>
  /\ status = [j \in Jobs |-> "none"]
  /\ priority \in {p \in [Jobs -> 0..2] : \A j \in Jobs : p[j] \in TiersOf[j]}
  /\ pc = "top"
  /\ counter = 0
  /\ floor = FloorAll
  /\ held = None
  /\ running = [t \in Tasks |-> None]
  /\ inflight = [t \in Tasks |-> None]
  /\ by_kind = [k \in Kinds |-> 0]
  /\ live = {}
  /\ shutdown = FALSE
  /\ passed = 0
  /\ faults = 0
  /\ skips = 0

-----------------------------------------------------------------------------
JoinSet == {t \in Tasks : running[t] # None}
TasksOf(k) == {t \in JoinSet : KindOf[running[t].job] = k}
Joinable == {t \in JoinSet : running[t].state \notin {"running", "aborting"}}

StartsWaiting(j) == passed' = IF j = Watched THEN 0 ELSE passed

(* A write of j's priority.  The count restarts when the job is Watched,   *)
(* or joins or leaves its tier.                                            *)
SetPriority(j, p) ==
  /\ priority' = [priority EXCEPT ![j] = p]
  /\ passed' = IF \/ j = Watched
                  \/ p # priority[j] /\ priority[Watched] \in {p, priority[j]}
                THEN 0 ELSE passed

Fault == faults + skips < MaxFaults /\ faults' = faults + 1

(* The rows in S become invisible until a backoff or pause is over. *)
Hide(S) == status' = [j \in Jobs |-> IF j \in S THEN "hidden" ELSE status[j]]

FinishJob(j) ==
  /\ status' = [status EXCEPT ![j] = "none"]
  /\ \E i \in DOMAIN queue :
       /\ queue[i] = j
       /\ queue' = SubSeq(queue, 1, i - 1) \o SubSeq(queue, i + 1, Len(queue))

-----------------------------------------------------------------------------
(* Producers, the passing of time, handlers, and the operator. *)

Enqueue(j) ==
  /\ status[j] = "none"
  /\ \E s \in {"hidden", "eligible"} : status' = [status EXCEPT ![j] = s]
  /\ queue' = Append(queue, j)
  /\ \E p \in TiersOf[j] : SetPriority(j, p)
  /\ UNCHANGED <<pc, counter, floor, memory, shutdown, faults, skips>>

(* merge_into with a payload: the task of a duplicate submission takes the *)
(* place of the pending one, and its priority too; the place in the order  *)
(* of created_at stays.                                                    *)
Merge(j) ==
  /\ status[j] \in {"hidden", "eligible"}
  /\ \E p \in TiersOf[j] \ {priority[j]} : SetPriority(j, p)
  /\ UNCHANGED <<queue, status, pc, counter, floor, memory, shutdown, faults,
                 skips>>

BecomeVisible(j) ==
  /\ status[j] = "hidden"
  /\ status' = [status EXCEPT ![j] = "eligible"]
  /\ StartsWaiting(j)
  /\ UNCHANGED <<queue, priority, pc, counter, floor, memory, shutdown, faults,
                 skips>>

HandlerStep(t, state) ==
  /\ running[t] # None /\ running[t].state \in {"running", "aborting"}
  /\ running' = [running EXCEPT ![t].state = state]
  /\ UNCHANGED <<store, pc, counter, floor, held, inflight, by_kind, live,
                 shutdown, passed, skips>>

FinishHandler(t) == HandlerStep(t, "finished") /\ UNCHANGED faults

(* A panic outside the handler (in the task's serde or backoff code) is    *)
(* not caught: the JoinSet yields a JoinError.                             *)
LoseTask(t) == HandlerStep(t, "lost") /\ Fault

(* An aborted task is cancelled where it awaits.  A handler that blocks    *)
(* its thread, or computes without an await, may never get there.          *)
Cancel(t) ==
  /\ running[t] # None /\ running[t].state = "aborting"
  /\ HandlerStep(t, "aborted")
  /\ UNCHANGED faults

RequestShutdown ==
  /\ ~ shutdown
  /\ shutdown' = TRUE
  /\ UNCHANGED <<store, pc, counter, floor, memory, passed, faults, skips>>

-----------------------------------------------------------------------------
(* Recover and fill. *)

(* recover_stale: some claims had expired.  They may be of this worker's   *)
(* own handlers, which go on running without a claim.                      *)
RecoverStale ==
  /\ pc = "top"
  /\ \E S \in SUBSET {j \in Jobs : status[j] = "claimed"} :
       /\ Hide(S)
       /\ live' = {t \in live : inflight[t] \notin S}
  /\ pc' = "fill"
  /\ UNCHANGED <<queue, priority, counter, floor, held, running, inflight, by_kind,
                 shutdown, passed, faults, skips>>

FaultyClaimableKinds == Kinds

ClaimableKinds == {k \in Kinds : Cap[k] = None \/ by_kind[k] < Cap[k]}

FaultyFloorFor(n) ==
  IF ~ Rotates THEN FloorAll
  ELSE IF n % Ratio = 0 THEN FloorNormal
  ELSE FloorAll

FloorFor(n) ==
  IF ~ Rotates THEN FloorAll
  ELSE IF n % (Ratio * Ratio) = 0 THEN FloorLow
  ELSE IF n % Ratio = 0 THEN FloorNormal
  ELSE FloorAll

SlotFree == Cardinality(JoinSet) < Concurrency

(* The slots are full, or every kind is at its cap. *)
FillNothing ==
  /\ pc = "fill"
  /\ \/ ~ SlotFree
     \/ SlotFree /\ ~ shutdown /\ ClaimableKinds = {}
  /\ pc' = "wait"
  /\ UNCHANGED <<store, counter, floor, memory, shutdown, passed, faults, skips>>

FillShutdown ==
  /\ pc = "fill" /\ SlotFree /\ shutdown
  /\ pc' = "drain"
  /\ UNCHANGED <<store, counter, floor, memory, shutdown, passed, faults, skips>>

FillAttempt ==
  /\ pc = "fill" /\ SlotFree /\ ~ shutdown /\ ClaimableKinds # {}
  /\ counter' = (counter + 1) % Period
  /\ floor' = FloorFor(counter')
  /\ pc' = "claim"
  /\ UNCHANGED <<store, memory, shutdown, passed, faults, skips>>

Candidates ==
  {i \in DOMAIN queue : /\ status[queue[i]] = "eligible"
                        /\ KindOf[queue[i]] \in ClaimableKinds
                        /\ priority[queue[i]] >= floor}

(* FOR UPDATE SKIP LOCKED: other sessions hold the candidates in L. *)
SkipLocked(L) ==
  /\ L \subseteq Candidates
  /\ \/ L = {} /\ UNCHANGED skips
     \/ L # {} /\ faults + skips < MaxFaults /\ skips' = skips + 1

(* ORDER BY priority, created_at LIMIT 1, of the rows not locked *)
IsNext(i, L) ==
  /\ i \in Candidates \ L
  /\ \A k \in Candidates \ L :
       \/ priority[queue[i]] < priority[queue[k]]
       \/ priority[queue[i]] = priority[queue[k]] /\ i <= k

Take(j) ==
  /\ status' = [status EXCEPT ![j] = "claimed"]
  /\ passed' = IF /\ j # Watched /\ status[Watched] = "eligible"
                   /\ passed < PassedBound
                THEN passed + 1 ELSE passed

ClaimNext ==
  /\ pc = "claim"
  /\ \E L \in SUBSET Candidates :
       /\ SkipLocked(L)
       /\ \E i \in DOMAIN queue :
            IsNext(i, L) /\ Take(queue[i]) /\ held' = queue[i]
  /\ pc' = "spawn"
  /\ UNCHANGED <<queue, priority, counter, floor, running, inflight, by_kind,
                 live, shutdown, faults>>

(* A claim for a lower tier that found nothing, or only locked rows, is    *)
(* followed by one for all.                                                *)
ClaimFallback ==
  /\ pc = "claim" /\ SkipLocked(Candidates) /\ floor # FloorAll
  /\ floor' = FloorAll
  /\ UNCHANGED <<store, pc, counter, memory, shutdown, passed, faults>>

ClaimNone ==
  /\ pc = "claim" /\ SkipLocked(Candidates) /\ floor = FloorAll
  /\ pc' = "wait"
  /\ UNCHANGED <<store, counter, floor, memory, shutdown, passed, faults>>

(* claim_next fails, before or after it committed; what it took then       *)
(* depends on what was locked.                                             *)
ClaimFails ==
  /\ pc = "claim"
  /\ Fault
  /\ \/ UNCHANGED <<status, passed>>
     \/ \E i \in Candidates : Take(queue[i])
  /\ pc' = "wait"
  /\ UNCHANGED <<queue, priority, counter, floor, memory, shutdown, skips>>

FaultyBump(k) == by_kind

(* by_kind.entry(kind).or_insert(0) += 1 *)
Bump(k) == [by_kind EXCEPT ![k] = @ + 1]

Spawn(t) ==
  /\ pc = "spawn" /\ running[t] = None /\ inflight[t] = None
  /\ running' = [running EXCEPT ![t] = [job |-> held, state |-> "running"]]
  /\ inflight' = [inflight EXCEPT ![t] = held]
  /\ by_kind' = Bump(KindOf[held])
  /\ live' = live \cup {t}
  /\ held' = None
  /\ pc' = "fill"
  /\ UNCHANGED <<store, counter, floor, shutdown, passed, faults, skips>>

-----------------------------------------------------------------------------
(* Wait and reap. *)

(* A notification, the next eligibility, or poll_max. *)
Wake ==
  /\ pc = "wait"
  /\ pc' = "top"
  /\ UNCHANGED <<store, counter, floor, memory, shutdown, passed, faults, skips>>

WaitShutdown ==
  /\ pc = "wait" /\ shutdown
  /\ pc' = "drain"
  /\ UNCHANGED <<store, counter, floor, memory, shutdown, passed, faults, skips>>

(* settle: the job ends or is re-pended, if the claim still stands; or the *)
(* store fails, which is only logged.                                      *)
SettleJob(t, j) ==
  \/ t \notin live /\ UNCHANGED <<store, faults>>
  \/ t \in live /\ FinishJob(j) /\ UNCHANGED <<priority, faults>>
  \/ t \in live /\ Hide({j}) /\ UNCHANGED <<queue, priority, faults>>
  \/ Fault /\ UNCHANGED store

FaultyReleaseSlot(k) == by_kind

(* release_slot *)
ReleaseSlot(k) == [by_kind EXCEPT ![k] = IF @ > 0 THEN @ - 1 ELSE 0]

Reap(t) ==
  /\ pc \in {"wait", "drain"}
  /\ t \in Joinable
  /\ running' = [running EXCEPT ![t] = None]
  /\ inflight' = [inflight EXCEPT ![t] = None]
  /\ by_kind' = ReleaseSlot(KindOf[inflight[t]])
  /\ live' = live \ {t}
  /\ IF running[t].state = "finished" THEN SettleJob(t, running[t].job)
                                      ELSE UNCHANGED <<store, faults>>
  /\ pc' = IF pc = "wait" THEN "top" ELSE "drain"
  /\ UNCHANGED <<counter, floor, held, shutdown, passed, skips>>

-----------------------------------------------------------------------------
(* Drain, abort and release. *)

FaultyAbortAll ==
  /\ pc = "drain" /\ JoinSet = {}
  /\ pc' = "join"
  /\ UNCHANGED <<store, counter, floor, memory, shutdown, passed, faults, skips>>

(* The JoinSet is empty or the deadline has passed: abort_all, which only  *)
(* asks a running task to stop and does nothing to one that is over.       *)
AbortAll ==
  /\ pc = "drain"
  /\ running' = [t \in Tasks |->
       IF running[t] # None /\ running[t].state = "running"
       THEN [running[t] EXCEPT !.state = "aborting"] ELSE running[t]]
  /\ pc' = "join"
  /\ UNCHANGED <<store, counter, floor, held, inflight, by_kind, live,
                 shutdown, passed, faults, skips>>

FaultyJoin(t) ==
  /\ pc = "join" /\ t \in Joinable
  /\ running' = [running EXCEPT ![t] = None]
  /\ inflight' = [inflight EXCEPT ![t] = None]
  /\ IF running[t].state = "finished"
     THEN SettleJob(t, running[t].job) /\ live' = live \ {t}
     ELSE UNCHANGED <<live, store, faults>>
  /\ UNCHANGED <<pc, counter, floor, held, by_kind, shutdown, passed, skips>>

(* join_next_with_id, with no deadline: the loop waits for a task to end.  *)
(* A finished one is settled and forgotten; of any other the loop only     *)
(* learns that it is gone, and its job stays in inflight.                  *)
Join(t) ==
  /\ pc = "join" /\ t \in Joinable
  /\ running' = [running EXCEPT ![t] = None]
  /\ IF running[t].state = "finished"
     THEN /\ inflight' = [inflight EXCEPT ![t] = None]
          /\ live' = live \ {t}
          /\ SettleJob(t, running[t].job)
     ELSE UNCHANGED <<inflight, live, store, faults>>
  /\ UNCHANGED <<pc, counter, floor, held, by_kind, shutdown, passed, skips>>

JoinedAll ==
  /\ pc = "join" /\ JoinSet = {}
  /\ pc' = "release"
  /\ UNCHANGED <<store, counter, floor, memory, shutdown, passed, faults, skips>>

Release(t) ==
  /\ pc = "release" /\ inflight[t] # None
  /\ inflight' = [inflight EXCEPT ![t] = None]
  /\ live' = live \ {t}
  /\ \/ /\ t \in live
        /\ status' = [status EXCEPT ![inflight[t]] = "eligible"]
        /\ StartsWaiting(inflight[t])
        /\ UNCHANGED faults
     \/ t \notin live /\ UNCHANGED <<status, passed, faults>>
     \/ Fault /\ UNCHANGED <<status, passed>>
  /\ UNCHANGED <<queue, priority, pc, counter, floor, held, running, by_kind,
                 shutdown, skips>>

Stop ==
  /\ pc = "release" /\ \A t \in Tasks : inflight[t] = None
  /\ pc' = "stopped"
  /\ UNCHANGED <<store, counter, floor, memory, shutdown, passed, faults, skips>>

-----------------------------------------------------------------------------
Environment ==
  \/ \E j \in Jobs : Enqueue(j) \/ Merge(j) \/ BecomeVisible(j)
  \/ \E t \in Tasks : FinishHandler(t) \/ LoseTask(t) \/ Cancel(t)
  \/ RequestShutdown

Loop ==
  \/ RecoverStale
  \/ FillNothing \/ FillShutdown \/ FillAttempt
  \/ ClaimNext \/ ClaimFallback \/ ClaimNone \/ ClaimFails
  \/ \E t \in Tasks : Spawn(t)
  \/ Wake \/ WaitShutdown

Draining ==
  \/ AbortAll \/ JoinedAll \/ Stop
  \/ \E t \in Tasks : Join(t) \/ Release(t)

Next == Environment \/ Loop \/ Draining \/ \E t \in Tasks : Reap(t)

Spec == Init /\ [][Next]_vars

(* The loop never blocks for good before the join: each of its awaits is   *)
(* bounded, the drain by its deadline; the join ends only when each task   *)
(* has, and nothing is assumed of the handlers here.  select! polls its    *)
(* branches in random order, so neither the shutdown nor a finished        *)
(* handler is passed over for ever (strong fairness).                      *)
LoopFairness ==
  /\ WF_vars(Loop)
  /\ WF_vars(Draining)
  /\ SF_vars(WaitShutdown)
  /\ \A t \in Tasks : SF_vars(Reap(t))

LoopSpec == Spec /\ LoopFairness

-----------------------------------------------------------------------------
(* Properties. *)

(* The in-memory bookkeeping is exact whenever the loop can act on it:     *)
(* inflight names the job of every task of the JoinSet and no other, and   *)
(* by_kind counts them per kind, through panics, lost tasks, failed        *)
(* settlements and jobs recovered and claimed again under a live handler.  *)
BookkeepingExact ==
  pc \in {"top", "fill", "claim", "spawn", "wait", "drain"} =>
    /\ \A t \in Tasks :
         inflight[t] = IF running[t] = None THEN None ELSE running[t].job
    /\ \A k \in Kinds : by_kind[k] = Cardinality(TasksOf(k))

(* The caps hold of what really runs, and the slots too: no more handlers  *)
(* of a kind than its cap, and no more in all than the concurrency.        *)
CapsRespected ==
  /\ Cardinality(JoinSet) <= Concurrency
  /\ \A k \in Kinds : Cap[k] # None => Cardinality(TasksOf(k)) <= Cap[k]

(* Every claim of this worker has somebody to end it: a job about to be    *)
(* spawned, or a tracked task.  Only a store error or a lost task leaves a *)
(* claim to lease expiry.  When the worker has stopped there is nobody, so *)
(* there is no claim: every job was settled or released.                   *)
ClaimsAccountedFor ==
  faults = 0 =>
    \A j \in Jobs : status[j] = "claimed" =>
      held = j \/ \E t \in live : inflight[t] = j

(* The only job of its tier, once eligible, waits for at most Ratio^2      *)
(* claims of other jobs, if its kind has no cap.  The last of them is lost *)
(* to a job that becomes eligible between a reserved claim and the         *)
(* fallback claim after it.  Each store error, and each claim that skips a *)
(* row because a merge or a claim elsewhere holds it, may cost one more    *)
(* round; a merge that moves the job to another tier starts the wait anew. *)
BoundedBypass ==
  /\ Rotates
  /\ status[Watched] = "eligible"
  /\ Cap[KindOf[Watched]] = None
  /\ \A k \in Jobs \ {Watched} : priority[k] # priority[Watched]
  => passed <= Period * (faults + skips + 1)

(* ADR 22: with a ratio set, "every tier keeps a nonzero long-run share,   *)
(* so nothing starves".  A tier that has eligible work, and goes on having *)
(* it, gets a claim, as long as the worker runs, the store answers, rows   *)
(* are not skipped as locked for ever (skips is bounded), and no slot is   *)
(* taken for good by a handler that hangs.  The rotation guarantees it for *)
(* kinds without a cap only: see the run on caps.                          *)
EveryTierServed ==
  LET InTier(p, st) == \E j \in Jobs : priority[j] = p /\ status[j] = st
  IN  /\ [](~ shutdown /\ faults = 0)
      /\ \A t \in Tasks : []<>(t \notin JoinSet \/ running[t].state # "running")
      =>
        \A p \in 0..2 :
          InTier(p, "eligible")
            ~> (InTier(p, "claimed") \/ ~ InTier(p, "eligible"))

(* A worker told to stop does stop, with its handlers wedged in an await   *)
(* for ever or not; but only if each handler that is aborted does reach    *)
(* its next await, or its end: force_finish joins them without a deadline. *)
ShutdownCompletes ==
  (\A t \in Tasks : []<>(t \notin JoinSet \/ running[t].state # "aborting"))
    => (shutdown ~> pc = "stopped")
=============================================================================
