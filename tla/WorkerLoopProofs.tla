------------------------- MODULE WorkerLoopProofs -------------------------
(***************************************************************************)
(* Proofs, for any jobs, kinds, caps, concurrency and ratio, of the safety *)
(* properties of the worker's claim/dispatch loop.                         *)
(*                                                                         *)
(* The argument.  Between the fill and the drain the bookkeeping is exact, *)
(* so a free slot and a kind below its cap, seen before the claim, still   *)
(* are when the handler is spawned (SpawnInv).  A live task is behind a    *)
(* claim of its own (ClaimInv), so what a settlement or a release does to  *)
(* a row takes it from nobody else.  The bound on the wait comes from the  *)
(* distance of the claim counter from the value reserved for the tier of   *)
(* the watched job (BypassInv): every claim of another job is one further  *)
(* from it, and at the reserved value only a store error, or a lock on the *)
(* job's row, can keep the job waiting.                                    *)
(***************************************************************************)
EXTENDS WorkerLoop, FiniteSetTheorems, SequenceTheorems, TLAPS

Active == {"top", "fill", "claim", "spawn", "wait", "drain"}

(* An unfinished job is in the queue. *)
QueueInv ==
  \A j \in Jobs : status[j] # "none" => \E i \in DOMAIN queue : queue[i] = j

(* While the loop joins, inflight still names the job of every task. *)
JoinInv ==
  pc = "join" =>
    \A t \in Tasks : running[t] # None => inflight[t] = running[t].job

(* What the fill found still holds when the claim and the spawn follow. *)
SpawnInv ==
  /\ held # None <=> pc = "spawn"
  /\ pc \in {"claim", "spawn"} => SlotFree
  /\ pc = "spawn" => KindOf[held] \in ClaimableKinds

(* A lost task is a fault, and tasks are aborted after the drain only. *)
HandleInv ==
  \A t \in Tasks : running[t] # None =>
    /\ running[t].state = "lost" => faults > 0
    /\ running[t].state \in {"aborting", "aborted"} => pc \notin Active

(* Every live task, and the job about to be spawned, has a claim that is   *)
(* no other's.                                                             *)
ClaimInv ==
  /\ \A t \in live : inflight[t] # None /\ status[inflight[t]] = "claimed"
  /\ \A t, u \in live : inflight[t] = inflight[u] => t = u
  /\ held # None =>
       status[held] = "claimed" /\ \A t \in live : inflight[t] # held

(* A value of the counter at which the floor is tier p, and how many       *)
(* claims ago the counter had the one of Watched's tier.                   *)
ReservedFor(p) == IF p = 2 THEN 0 ELSE IF p = 1 THEN Ratio ELSE 1
After(n, r) == IF n >= r THEN n - r ELSE n - r + Period
Reserved == ReservedFor(priority[Watched])
Distance == After(counter, Reserved)

(* Watched is alone in its tier. *)
Alone == \A k \in Jobs \ {Watched} : priority[k] # priority[Watched]

(* The premises of BoundedBypass that are not about Watched's wait. *)
Rotated == Rotates /\ Cap[KindOf[Watched]] = None /\ Alone

(* What the faults and skipped rows so far may have cost. *)
Penalty == Period * (faults + skips)

BypassInv ==
  Rotated /\ status[Watched] = "eligible" =>
    \/ pc # "claim" /\ passed <= Penalty + Distance + 1
    \/ /\ pc = "claim"
       /\ \/ Distance > 0 /\ passed <= Penalty + Distance
          \/ /\ Distance = 0 /\ floor = priority[Watched]
             /\ passed <= Penalty + Period
          \/ Distance = 0 /\ passed <= Penalty

Inv ==
  /\ TypeOK
  /\ QueueInv
  /\ BookkeepingExact
  /\ CapsRespected
  /\ JoinInv
  /\ SpawnInv
  /\ HandleInv
  /\ ClaimInv
  /\ ClaimsAccountedFor
  /\ BypassInv

-----------------------------------------------------------------------------
(* The rotation. *)

(* The ratio of a rotation is less than the rotation's period. *)
LEMMA RatioSquared ==
  ASSUME NEW r \in Nat, r >= 2
  PROVE  r * r \in Nat /\ r < r * r
<1>1. r * r = r + r * (r - 1)
  OBVIOUS
<1>2. r * (r - 1) \in Nat /\ r * (r - 1) > 0
  OBVIOUS
<1> QED
  BY <1>1, <1>2

(* The period of claim_counter is a positive number. *)
LEMMA PeriodType ==
  /\ Period \in Nat /\ Period >= 1
  /\ Rotates => /\ Ratio \in Nat /\ Ratio >= 2
                /\ Period = Ratio * Ratio /\ Ratio < Period
BY RatioSquared, WorkerLoopAssumption DEF Period, Rotates

(* A remainder is the number itself while it is below the divisor. *)
LEMMA SmallRemainder ==
  ASSUME NEW a \in Nat, NEW b \in Nat, a < b
  PROVE  a % b = a
OBVIOUS

(* A number leaves nothing when divided by itself. *)
LEMMA OwnRemainder ==
  ASSUME NEW b \in Nat, b > 0
  PROVE  b % b = 0
OBVIOUS

(* claim_counter counts up and starts again after a period. *)
LEMMA CounterStep ==
  ASSUME NEW n \in 0..(Period - 1)
  PROVE  (n + 1) % Period = IF n = Period - 1 THEN 0 ELSE n + 1
BY PeriodType, SmallRemainder, OwnRemainder

(* floor_for yields one of the three floors. *)
LEMMA FloorType ==
  ASSUME NEW n \in Nat
  PROVE  FloorFor(n) \in {FloorAll, FloorNormal, FloorLow}
BY DEF FloorFor

(* The reserved value of a tier has the tier as its floor. *)
LEMMA ReservedFloor ==
  ASSUME Rotates, NEW p \in 0..2
  PROVE  ReservedFor(p) \in 0..(Period - 1) /\ FloorFor(ReservedFor(p)) = p
<1>1. p \in {0, 1, 2}
  OBVIOUS
<1>2. Ratio \in Nat /\ Ratio >= 2 /\ Period \in Nat /\ Period = Ratio * Ratio
      /\ Ratio < Period
  BY PeriodType
<1>3. CASE p = 2
  <2>1. 0 % Period = 0
    BY <1>2, SmallRemainder
  <2> QED
    BY <1>2, <1>3, <2>1 DEF ReservedFor, FloorFor, FloorLow
<1>4. CASE p = 1
  <2>1. Ratio % Period = Ratio /\ Ratio % Ratio = 0
    BY <1>2, SmallRemainder, OwnRemainder
  <2> QED
    BY <1>2, <1>4, <2>1 DEF ReservedFor, FloorFor, FloorNormal
<1>5. CASE p = 0
  <2>1. 1 % Period = 1 /\ 1 % Ratio = 1
    BY <1>2, SmallRemainder
  <2> QED
    BY <1>2, <1>5, <2>1 DEF ReservedFor, FloorFor, FloorAll
<1> QED
  BY <1>1, <1>3, <1>4, <1>5

(* The reserved value of a tier came up fewer than a period of claims ago. *)
LEMMA AfterType ==
  ASSUME Rotates, NEW p \in 0..2, NEW n \in 0..(Period - 1)
  PROVE  After(n, ReservedFor(p)) \in 0..(Period - 1)
<1>1. ReservedFor(p) \in 0..(Period - 1) /\ Period \in Nat
  BY ReservedFloor, PeriodType
<1>2. CASE n >= ReservedFor(p)
  BY <1>1, <1>2 DEF After
<1>3. CASE n < ReservedFor(p)
  BY <1>1, <1>3 DEF After
<1> QED
  BY <1>1, <1>2, <1>3

(* The bound on bypasses is a number. *)
LEMMA BoundType == PassedBound \in Nat
<1>1. Period * (MaxFaults + 1) \in Nat
  BY PeriodType, WorkerLoopAssumption
<1> QED
  BY <1>1 DEF PassedBound

-----------------------------------------------------------------------------
(* The JoinSet and its counts. *)

(* There are finitely many tasks. *)
LEMMA TasksFinite ==
  /\ IsFiniteSet(JoinSet) /\ Cardinality(JoinSet) \in Nat
  /\ \A k : IsFiniteSet(TasksOf(k)) /\ Cardinality(TasksOf(k)) \in Nat
            /\ Cardinality(TasksOf(k)) <= Cardinality(JoinSet)
<1>1. JoinSet \subseteq Tasks
  BY DEF JoinSet
<1>2. IsFiniteSet(JoinSet) /\ Cardinality(JoinSet) \in Nat
  BY <1>1, FS_Subset, FS_CardinalityType, WorkerLoopAssumption
<1>3. ASSUME NEW k
      PROVE  IsFiniteSet(TasksOf(k)) /\ Cardinality(TasksOf(k)) \in Nat
             /\ Cardinality(TasksOf(k)) <= Cardinality(JoinSet)
  <2>1. TasksOf(k) \subseteq JoinSet
    BY DEF TasksOf
  <2> QED
    BY <1>2, <2>1, FS_Subset, FS_CardinalityType
<1> QED
  BY <1>2, <1>3

(* A step that keeps every task and its job keeps the counts. *)
LEMMA SameTasks ==
  ASSUME \A t \in Tasks : running'[t] = None <=> running[t] = None,
         \A t \in Tasks : running[t] # None => running'[t].job = running[t].job
  PROVE  JoinSet' = JoinSet /\ \A k : TasksOf(k)' = TasksOf(k)
BY DEF JoinSet, TasksOf

(* A step that removes one task lowers the counts of its kind by one. *)
LEMMA OneTaskLess ==
  ASSUME TypeOK, NEW t \in Tasks, running[t] # None,
         running' = [running EXCEPT ![t] = None]
  PROVE  /\ JoinSet' = JoinSet \ {t}
         /\ Cardinality(JoinSet') = Cardinality(JoinSet) - 1
         /\ \A k \in Kinds : Cardinality(TasksOf(k)') =
              IF k = KindOf[running[t].job] THEN Cardinality(TasksOf(k)) - 1
                                            ELSE Cardinality(TasksOf(k))
         /\ Cardinality(TasksOf(KindOf[running[t].job])) >= 1
<1>1. JoinSet' = JoinSet \ {t} /\ t \in JoinSet
  BY DEF JoinSet, TypeOK
<1>2. Cardinality(JoinSet') = Cardinality(JoinSet) - 1
  BY <1>1, TasksFinite, FS_RemoveElement
<1>3. ASSUME NEW k \in Kinds, k = KindOf[running[t].job]
      PROVE  Cardinality(TasksOf(k)') = Cardinality(TasksOf(k)) - 1
  <2>1. TasksOf(k)' = TasksOf(k) \ {t} /\ t \in TasksOf(k)
    BY <1>1, <1>3 DEF TasksOf, TypeOK, JoinSet
  <2> QED
    BY <2>1, TasksFinite, FS_RemoveElement
<1>4. ASSUME NEW k \in Kinds, k # KindOf[running[t].job]
      PROVE  TasksOf(k)' = TasksOf(k)
  BY <1>1, <1>4 DEF TasksOf, TypeOK, JoinSet
<1>5. Cardinality(TasksOf(KindOf[running[t].job])) >= 1
  <2>1. t \in TasksOf(KindOf[running[t].job])
    BY <1>1 DEF TasksOf
  <2> QED
    BY <2>1, TasksFinite, FS_EmptySet
<1> QED
  BY <1>1, <1>2, <1>3, <1>4, <1>5

(* A step that adds one task raises the counts of its kind by one. *)
LEMMA OneTaskMore ==
  ASSUME TypeOK, NEW t \in Tasks, running[t] = None, NEW h \in Handles,
         running' = [running EXCEPT ![t] = h]
  PROVE  /\ Cardinality(JoinSet') = Cardinality(JoinSet) + 1
         /\ \A k \in Kinds : Cardinality(TasksOf(k)') =
              IF k = KindOf[h.job] THEN Cardinality(TasksOf(k)) + 1
                                   ELSE Cardinality(TasksOf(k))
<1>0. h # None
  BY WorkerLoopAssumption
<1>1. JoinSet' = JoinSet \cup {t} /\ t \notin JoinSet
  BY <1>0 DEF JoinSet, TypeOK
<1>2. Cardinality(JoinSet') = Cardinality(JoinSet) + 1
  BY <1>1, TasksFinite, FS_AddElement
<1>3. ASSUME NEW k \in Kinds, k = KindOf[h.job]
      PROVE  Cardinality(TasksOf(k)') = Cardinality(TasksOf(k)) + 1
  <2>1. TasksOf(k)' = TasksOf(k) \cup {t} /\ t \notin TasksOf(k)
    BY <1>0, <1>1, <1>3 DEF TasksOf, TypeOK, JoinSet
  <2> QED
    BY <2>1, TasksFinite, FS_AddElement
<1>4. ASSUME NEW k \in Kinds, k # KindOf[h.job]
      PROVE  TasksOf(k)' = TasksOf(k)
  BY <1>0, <1>1, <1>4 DEF TasksOf, TypeOK, JoinSet
<1> QED
  BY <1>2, <1>3, <1>4

-----------------------------------------------------------------------------
(* What a step must leave alone to keep a part of the invariant. *)

(* What a step leaves alone stays accounted for. *)
LEMMA MemoryFrame ==
  ASSUME Inv, UNCHANGED memory, faults' \in {faults, faults + 1},
         pc' \in Active => pc \in Active, pc' = "join" => pc = "join"
  PROVE  /\ BookkeepingExact' /\ CapsRespected' /\ JoinInv' /\ HandleInv'
         /\ SlotFree' = SlotFree /\ ClaimableKinds' = ClaimableKinds
<1>1. JoinSet' = JoinSet /\ \A k : TasksOf(k)' = TasksOf(k)
  BY SameTasks DEF memory
<1>2. BookkeepingExact'
  BY <1>1 DEF Inv, BookkeepingExact, memory, Active
<1>3. CapsRespected'
  BY <1>1 DEF Inv, CapsRespected
<1>4. JoinInv' /\ HandleInv'
  BY WorkerLoopAssumption DEF Inv, TypeOK, JoinInv, HandleInv, memory
<1>5. SlotFree' = SlotFree /\ ClaimableKinds' = ClaimableKinds
  BY <1>1 DEF SlotFree, ClaimableKinds, memory
<1> QED
  BY <1>2, <1>3, <1>4, <1>5

(* The distance from the reserved value is less than a period. *)
LEMMA DistanceType ==
  ASSUME TypeOK, Rotates
  PROVE  /\ Distance \in 0..(Period - 1) /\ Distance \in Nat
         /\ priority[Watched] \in 0..2
<1>1. counter \in 0..(Period - 1) /\ priority[Watched] \in 0..2
  BY WorkerLoopAssumption DEF TypeOK
<1>2. Distance \in 0..(Period - 1)
  BY <1>1, AfterType DEF Distance, Reserved
<1> QED
  BY <1>1, <1>2, PeriodType

(* Arithmetic that leaves need by name. *)
LEMMA SumsAreNatural ==
  ASSUME NEW a \in Nat, NEW n \in Nat
  PROVE  0 <= a + n + 1 /\ 0 <= a + n /\ 0 <= a /\ (n = 0 \/ n > 0)
OBVIOUS

(* A bound may be raised. *)
LEMMA Raise ==
  ASSUME NEW a \in Nat, NEW b \in Nat, b >= a, NEW n \in Nat, NEW x \in Nat
  PROVE  /\ x <= a => x <= b
         /\ x <= a + n => x <= b + n
         /\ x <= a + n + 1 => x <= b + n + 1
OBVIOUS

(* What is below a bound is below a higher one. *)
LEMMA Room ==
  ASSUME NEW x \in Nat, NEW a \in Nat, NEW n \in Nat, x <= a
  PROVE  x <= a + n /\ x <= a + n + 1 /\ (n = 0 \/ n > 0)
OBVIOUS

(* A fault or a skipped row adds one period to what is tolerated. *)
LEMMA PenaltyStep ==
  ASSUME TypeOK, faults' \in {faults, faults + 1}, skips' \in {skips, skips + 1}
  PROVE  /\ Penalty \in Nat /\ Penalty' \in Nat /\ Penalty' >= Penalty
         /\ faults' = faults + 1 \/ skips' = skips + 1 =>
              Penalty' >= Penalty + Period
<1>1. Period \in Nat /\ faults \in Nat /\ skips \in Nat
  BY PeriodType, WorkerLoopAssumption DEF TypeOK
<1>2. \A n \in Nat : /\ Period * n \in Nat
                     /\ Period * (n + 1) = Period * n + Period
                     /\ Period * (n + 2) = Period * n + Period + Period
  BY <1>1
<1>3. PICK n \in Nat : n = faults + skips
  BY <1>1
<1>4. PICK m \in Nat : m = faults' + skips'
  <2>1. faults' \in Nat /\ skips' \in Nat
    <3>1. \A x \in Nat : x + 1 \in Nat
      OBVIOUS
    <3> QED
      BY <1>1, <3>1
  <2>2. \A x, y \in Nat : x + y \in Nat
    OBVIOUS
  <2>3. faults' + skips' \in Nat
    BY <2>1, <2>2, Zenon
  <2> QED
    BY <2>3, Zenon
<1>5. Penalty = Period * n /\ Penalty' = Period * m
  BY <1>3, <1>4 DEF Penalty
<1>6. /\ m = n \/ m = n + 1 \/ m = n + 2
      /\ faults' = faults + 1 \/ skips' = skips + 1 => m = n + 1 \/ m = n + 2
  <2>1. CASE faults' = faults /\ skips' = skips
    BY <1>1, <1>3, <1>4, <2>1
  <2>2. CASE faults' = faults + 1 /\ skips' = skips
    BY <1>1, <1>3, <1>4, <2>2
  <2>3. CASE faults' = faults /\ skips' = skips + 1
    BY <1>1, <1>3, <1>4, <2>3
  <2>4. CASE faults' = faults + 1 /\ skips' = skips + 1
    BY <1>1, <1>3, <1>4, <2>4
  <2> QED
    BY <2>1, <2>2, <2>3, <2>4
<1>7. CASE m = n
  BY <1>1, <1>2, <1>5, <1>6, <1>7
<1>8. CASE m = n + 1
  BY <1>1, <1>2, <1>5, <1>8
<1>9. CASE m = n + 2
  BY <1>1, <1>2, <1>5, <1>9
<1> QED
  BY <1>6, <1>7, <1>8, <1>9

(* A step that counts no claim keeps the bound, and so does one with which *)
(* the watched job starts to wait, alone in a tier.                        *)
LEMMA BypassFrame ==
  ASSUME Inv, TypeOK', UNCHANGED <<counter, floor>>,
         faults' \in {faults, faults + 1}, skips' \in {skips, skips + 1},
         pc' = "claim" <=> pc = "claim",
         \/ passed' = 0
         \/ /\ passed' = passed
            /\ priority'[Watched] = priority[Watched]
            /\ Alone' => Alone
            /\ status'[Watched] = "eligible" => status[Watched] = "eligible"
  PROVE  BypassInv'
<1> SUFFICES ASSUME Rotated', status'[Watched] = "eligible"
             PROVE  BypassInv'
  BY DEF BypassInv
<1>1. Period \in Nat /\ Penalty \in Nat /\ Penalty' \in Nat /\ Penalty' >= Penalty
  BY PenaltyStep, PeriodType DEF Inv
<1>2. Distance \in Nat /\ Distance' \in Nat
  <2>1. Rotates /\ TypeOK
    BY DEF Rotated, Inv
  <2>2. counter' \in 0..(Period - 1) /\ priority'[Watched] \in 0..2
    BY WorkerLoopAssumption DEF TypeOK
  <2>3. After(counter', ReservedFor(priority'[Watched])) \in 0..(Period - 1)
    BY <2>1, <2>2, AfterType
  <2>4. Distance' = After(counter', ReservedFor(priority'[Watched]))
    BY DEF Distance, Reserved
  <2> QED
    BY <1>1, <2>1, <2>3, <2>4, DistanceType
<1>3. passed \in Nat
  BY BoundType DEF Inv, TypeOK
<1>4. CASE passed' = 0
  <2>1. /\ 0 <= Penalty' + Distance' + 1 /\ 0 <= Penalty' + Distance' /\ 0 <= Penalty'
        /\ Distance' = 0 \/ Distance' > 0
    BY <1>1, <1>2, SumsAreNatural, Zenon
  <2> QED
    BY <1>4, <2>1, Zenon DEF BypassInv
<1>5. CASE /\ passed' = passed
           /\ priority'[Watched] = priority[Watched]
           /\ Alone' => Alone
           /\ status'[Watched] = "eligible" => status[Watched] = "eligible"
  <2>0. Rotated /\ status[Watched] = "eligible"
    BY <1>5 DEF Rotated
  <2>1. BypassInv /\ floor' = floor /\ Distance' = Distance
    BY <1>5 DEF Inv, Distance, Reserved
  <2>2. CASE pc # "claim"
    <3>1. passed <= Penalty + Distance + 1
      BY <2>0, <2>1, <2>2 DEF BypassInv
    <3>2. passed' <= Penalty' + Distance' + 1
      BY <1>1, <1>2, <1>3, <1>5, <2>1, <3>1, Raise, Zenon
    <3> QED
      BY <2>2, <3>2 DEF BypassInv
  <2>3. CASE pc = "claim"
    <3>1. \/ Distance > 0 /\ passed <= Penalty + Distance
          \/ /\ Distance = 0 /\ floor = priority[Watched]
             /\ passed <= Penalty + Period
          \/ Distance = 0 /\ passed <= Penalty
      BY <2>0, <2>1, <2>3 DEF BypassInv
    <3>2. \/ Distance' > 0 /\ passed' <= Penalty' + Distance'
          \/ /\ Distance' = 0 /\ floor' = priority'[Watched]
             /\ passed' <= Penalty' + Period
          \/ Distance' = 0 /\ passed' <= Penalty'
      BY <1>1, <1>2, <1>3, <1>5, <2>1, <3>1, Raise, Zenon
    <3> QED
      BY <2>3, <3>2 DEF BypassInv
  <2> QED
    BY <2>2, <2>3
<1> QED
  BY <1>4, <1>5

-----------------------------------------------------------------------------
(* The initial states. *)
LEMMA InitInv == Init => Inv
<1> SUFFICES ASSUME Init PROVE Inv
  OBVIOUS
<1>1. TypeOK
  <2>1. queue \in Seq(Jobs)
    BY DEF Init
  <2>2. counter \in 0..(Period - 1) /\ passed \in 0..PassedBound
        /\ faults \in 0..MaxFaults /\ skips \in 0..(MaxFaults - faults)
        /\ by_kind \in [Kinds -> 0..Concurrency]
    BY BoundType, PeriodType, WorkerLoopAssumption DEF Init
  <2> QED
    BY <2>1, <2>2 DEF Init, TypeOK
<1>2. JoinSet = {} /\ \A k : TasksOf(k) = {}
  BY DEF Init, JoinSet, TasksOf
<1>3. BookkeepingExact
  BY <1>2, FS_EmptySet DEF Init, BookkeepingExact
<1>4. CapsRespected
  <2>1. Cardinality(JoinSet) = 0 /\ \A k : Cardinality(TasksOf(k)) = 0
    BY <1>2, FS_EmptySet, Zenon
  <2>2. Concurrency \in Nat /\ \A k \in Kinds : Cap[k] # None => Cap[k] \in Nat
    BY WorkerLoopAssumption
  <2> QED
    BY <2>1, <2>2 DEF CapsRespected
<1>5. QueueInv /\ JoinInv /\ SpawnInv
  BY DEF Init, QueueInv, JoinInv, SpawnInv
<1>6. HandleInv /\ ClaimInv /\ ClaimsAccountedFor
  BY DEF Init, HandleInv, ClaimInv, ClaimsAccountedFor
<1>7. BypassInv
  BY WorkerLoopAssumption DEF Init, BypassInv
<1> QED
  BY <1>1, <1>3, <1>4, <1>5, <1>6, <1>7 DEF Inv

-----------------------------------------------------------------------------
(* Producers, the passing of time, handlers, and the operator. *)

(* A write of a priority leaves Watched as it is, alone or not, or has its *)
(* wait counted anew.                                                      *)
LEMMA PriorityFacts ==
  ASSUME TypeOK, NEW j \in Jobs, NEW p \in TiersOf[j], SetPriority(j, p)
  PROVE  /\ priority' \in [Jobs -> 0..2] /\ passed' \in 0..PassedBound
         /\ \/ passed' = 0
            \/ /\ passed' = passed /\ j # Watched
               /\ priority'[Watched] = priority[Watched]
               /\ Alone' => Alone
<1>1. p \in 0..2 /\ Watched \in Jobs
  BY WorkerLoopAssumption
<1>2. priority \in [Jobs -> 0..2] /\ priority' = [priority EXCEPT ![j] = p]
  BY DEF TypeOK, SetPriority
<1>3. priority' \in [Jobs -> 0..2] /\ passed' \in 0..PassedBound
  BY <1>1, <1>2, BoundType DEF TypeOK, SetPriority
<1>4. CASE \/ j = Watched
           \/ p # priority[j] /\ priority[Watched] \in {p, priority[j]}
  BY <1>3, <1>4 DEF SetPriority
<1>5. CASE /\ j # Watched
           /\ p = priority[j] \/ priority[Watched] \notin {p, priority[j]}
  <2>1. passed' = passed /\ priority'[Watched] = priority[Watched]
    BY <1>1, <1>2, <1>5 DEF SetPriority
  <2>2. Alone' => Alone
    <3> SUFFICES ASSUME Alone', NEW k \in Jobs \ {Watched}
                 PROVE  priority[k] # priority[Watched]
      BY DEF Alone
    <3>1. priority'[k] # priority'[Watched]
      BY DEF Alone
    <3> QED
      BY <1>1, <1>2, <1>5, <3>1
  <2> QED
    BY <1>3, <1>5, <2>1, <2>2
<1> QED
  BY <1>4, <1>5

(* A job is enqueued at the end of the queue. *)
LEMMA EnqueueInv ==
  ASSUME Inv, NEW j \in Jobs, Enqueue(j)
  PROVE  Inv'
<1> USE DEF Inv, Enqueue
<1>1. queue' \in Seq(Jobs) /\ \A i \in DOMAIN queue : i \in DOMAIN queue' /\ queue'[i] = queue[i]
  BY AppendProperties, LenProperties DEF TypeOK
<1>2. Len(queue') \in DOMAIN queue' /\ queue'[Len(queue')] = j
  BY AppendProperties, LenProperties DEF TypeOK
<1>3. PICK p \in TiersOf[j] : SetPriority(j, p)
  OBVIOUS
<1>4. /\ priority' \in [Jobs -> 0..2] /\ passed' \in 0..PassedBound
      /\ \/ passed' = 0
         \/ /\ passed' = passed /\ j # Watched
            /\ priority'[Watched] = priority[Watched]
            /\ Alone' => Alone
  BY <1>3, PriorityFacts
<1>5. TypeOK'
  BY <1>1, <1>4 DEF TypeOK, memory
<1>6. QueueInv'
  BY <1>1, <1>2 DEF TypeOK, QueueInv
<1>7. BookkeepingExact' /\ CapsRespected' /\ JoinInv' /\ HandleInv'
      /\ SlotFree' = SlotFree /\ ClaimableKinds' = ClaimableKinds
  BY MemoryFrame DEF Active
<1>8. SpawnInv' /\ ClaimInv' /\ ClaimsAccountedFor'
  BY <1>7 DEF TypeOK, SpawnInv, ClaimInv, ClaimsAccountedFor, memory
<1>9. BypassInv'
  <2>1. j # Watched => status'[Watched] = status[Watched]
    BY WorkerLoopAssumption DEF TypeOK
  <2> QED
    BY <1>4, <1>5, <2>1, BypassFrame
<1> QED
  BY <1>5, <1>6, <1>7, <1>8, <1>9

(* A merge may move a pending job to another tier. *)
LEMMA MergeInv ==
  ASSUME Inv, NEW j \in Jobs, Merge(j)
  PROVE  Inv'
<1> USE DEF Inv, Merge
<1>1. PICK p \in TiersOf[j] : SetPriority(j, p)
  OBVIOUS
<1>2. /\ priority' \in [Jobs -> 0..2] /\ passed' \in 0..PassedBound
      /\ \/ passed' = 0
         \/ /\ passed' = passed /\ j # Watched
            /\ priority'[Watched] = priority[Watched]
            /\ Alone' => Alone
  BY <1>1, PriorityFacts
<1>3. TypeOK' /\ QueueInv'
  BY <1>2 DEF TypeOK, QueueInv, memory
<1>4. BookkeepingExact' /\ CapsRespected' /\ JoinInv' /\ HandleInv'
      /\ SlotFree' = SlotFree /\ ClaimableKinds' = ClaimableKinds
  BY MemoryFrame DEF Active
<1>5. SpawnInv' /\ ClaimInv' /\ ClaimsAccountedFor'
  BY <1>4 DEF SpawnInv, ClaimInv, ClaimsAccountedFor, memory
<1>6. BypassInv'
  BY <1>2, <1>3, BypassFrame
<1> QED
  BY <1>3, <1>4, <1>5, <1>6

(* A hidden job becomes visible. *)
LEMMA BecomeVisibleInv ==
  ASSUME Inv, NEW j \in Jobs, BecomeVisible(j)
  PROVE  Inv'
<1> USE DEF Inv, BecomeVisible
<1>1. TypeOK' /\ QueueInv'
  BY BoundType DEF TypeOK, QueueInv, StartsWaiting, memory
<1>2. BookkeepingExact' /\ CapsRespected' /\ JoinInv' /\ HandleInv'
      /\ SlotFree' = SlotFree /\ ClaimableKinds' = ClaimableKinds
  BY MemoryFrame DEF Active
<1>3. SpawnInv' /\ ClaimInv' /\ ClaimsAccountedFor'
  BY <1>2 DEF TypeOK, SpawnInv, ClaimInv, ClaimsAccountedFor, memory
<1>4. BypassInv'
  <2>1. \/ passed' = 0
        \/ passed' = passed /\ status'[Watched] = status[Watched]
    BY WorkerLoopAssumption DEF TypeOK, StartsWaiting
  <2> QED
    BY <1>1, <2>1, BypassFrame DEF Alone
<1> QED
  BY <1>1, <1>2, <1>3, <1>4

(* A handler ends, its task is lost, or it meets the abort, beside the     *)
(* loop.                                                                   *)
LEMMA HandlerStepInv ==
  ASSUME Inv, NEW t \in Tasks, FinishHandler(t) \/ LoseTask(t) \/ Cancel(t)
  PROVE  Inv'
<1>1. PICK s \in {"finished", "lost", "aborted"} :
        /\ HandlerStep(t, s)
        /\ faults' \in {faults, faults + 1} /\ faults' \in 0..MaxFaults
        /\ skips \in 0..(MaxFaults - faults')
        /\ s = "lost" => faults' > 0
        /\ s = "aborted" => running[t].state = "aborting"
  BY WorkerLoopAssumption
     DEF Inv, TypeOK, FinishHandler, LoseTask, Cancel, Fault
<1> USE <1>1 DEF Inv, HandlerStep
<1>2. running[t] \in Handles
  BY DEF TypeOK
<1>3. running' = [running EXCEPT ![t] = [job |-> running[t].job, state |-> s]]
  <2>1. [running[t] EXCEPT !.state = s] = [job |-> running[t].job, state |-> s]
    BY <1>2 DEF Handles
  <2> QED
    BY <2>1
<1>4. [job |-> running[t].job, state |-> s] \in Handles
  BY <1>2 DEF Handles
<1>5. TypeOK'
  BY <1>3, <1>4 DEF TypeOK, store
<1>6. [job |-> running[t].job, state |-> s] # None
  BY <1>4, WorkerLoopAssumption
<1>7. JoinSet' = JoinSet /\ \A k : TasksOf(k)' = TasksOf(k)
  <2>1. \A u \in Tasks : running'[u] =
          IF u = t THEN [job |-> running[t].job, state |-> s] ELSE running[u]
    BY <1>3 DEF TypeOK
  <2>2. \A u \in Tasks : running'[u] = None <=> running[u] = None
    BY <1>2, <1>6, <2>1, WorkerLoopAssumption
  <2>3. \A u \in Tasks : running[u] # None => running'[u].job = running[u].job
    BY <2>1
  <2> QED
    BY <2>2, <2>3, SameTasks
<1>8. BookkeepingExact'
  BY <1>3, <1>6, <1>7 DEF TypeOK, BookkeepingExact
<1>9. CapsRespected' /\ SlotFree' = SlotFree /\ ClaimableKinds' = ClaimableKinds
  BY <1>7 DEF CapsRespected, SlotFree, ClaimableKinds
<1>10. JoinInv' /\ HandleInv'
  <2>1. \A u \in Tasks : running'[u] =
          IF u = t THEN [job |-> running[t].job, state |-> s] ELSE running[u]
    BY <1>3 DEF TypeOK
  <2>2. running[t] # None /\ faults' >= faults /\ faults \in Nat /\ faults' \in Nat
    BY WorkerLoopAssumption DEF TypeOK
  <2>3. JoinInv'
    BY <2>1, <2>2 DEF JoinInv
  <2>4. HandleInv'
    BY <2>1, <2>2 DEF HandleInv
  <2> QED
    BY <2>3, <2>4
<1>11. QueueInv' /\ SpawnInv' /\ ClaimInv' /\ ClaimsAccountedFor'
  BY <1>9 DEF TypeOK, QueueInv, SpawnInv, ClaimInv, ClaimsAccountedFor, store
<1>12. BypassInv'
  BY <1>5, BypassFrame DEF store, Alone
<1> QED
  BY <1>5, <1>8, <1>9, <1>10, <1>11, <1>12

(* The steps that move the loop on, and the operator's. *)
LEMMA QuietInv ==
  ASSUME Inv,
         \/ RequestShutdown \/ FillNothing \/ FillShutdown
         \/ Wake \/ WaitShutdown \/ JoinedAll \/ Stop
  PROVE  Inv'
<1>1. /\ UNCHANGED <<store, counter, floor, memory, passed, faults, skips>>
      /\ shutdown' \in BOOLEAN
      /\ pc' \in {"top", "fill", "claim", "spawn", "wait", "drain", "join",
                  "release", "stopped"}
      /\ (pc' = "claim" <=> pc = "claim") /\ (pc' = "spawn" <=> pc = "spawn")
      /\ (pc' \in Active => pc \in Active) /\ (pc' = "join" => pc = "join")
  BY DEF Inv, TypeOK, RequestShutdown, FillNothing, FillShutdown, Wake,
         WaitShutdown, JoinedAll, Stop, Active
<1>2. UNCHANGED <<queue, status, priority, held, running, inflight, by_kind, live>>
  BY <1>1 DEF store, memory
<1> USE DEF Inv
<1>3. TypeOK' /\ QueueInv'
  BY <1>1, <1>2 DEF TypeOK, QueueInv
<1>4. BookkeepingExact' /\ CapsRespected' /\ JoinInv' /\ HandleInv'
      /\ SlotFree' = SlotFree /\ ClaimableKinds' = ClaimableKinds
  BY <1>1, MemoryFrame
<1>5. SpawnInv' /\ ClaimInv' /\ ClaimsAccountedFor'
  BY <1>1, <1>2, <1>4 DEF SpawnInv, ClaimInv, ClaimsAccountedFor
<1>6. BypassInv'
  BY <1>1, <1>2, <1>3, BypassFrame DEF Alone
<1> QED
  BY <1>3, <1>4, <1>5, <1>6

-----------------------------------------------------------------------------
(* Recover, fill, claim and spawn. *)

(* recover_stale hides jobs whose claims had expired. *)
LEMMA RecoverStaleInv ==
  ASSUME Inv, RecoverStale
  PROVE  Inv'
<1> USE DEF Inv, RecoverStale
<1>1. PICK S \in SUBSET {j \in Jobs : status[j] = "claimed"} :
        /\ status' = [j \in Jobs |-> IF j \in S THEN "hidden" ELSE status[j]]
        /\ live' = {t \in live : inflight[t] \notin S}
  BY DEF Hide
<1>2. TypeOK' /\ QueueInv'
  BY <1>1 DEF TypeOK, QueueInv
<1>3. JoinSet' = JoinSet /\ \A k : TasksOf(k)' = TasksOf(k)
  BY SameTasks
<1>4. BookkeepingExact' /\ CapsRespected'
  BY <1>3 DEF BookkeepingExact, CapsRespected
<1>5. JoinInv' /\ HandleInv' /\ SpawnInv'
  BY DEF JoinInv, HandleInv, SpawnInv, Active
<1>6. ClaimInv'
  BY <1>1 DEF TypeOK, ClaimInv, SpawnInv
<1>7. ClaimsAccountedFor'
  BY <1>1 DEF TypeOK, ClaimsAccountedFor, SpawnInv
<1>8. BypassInv'
  <2>1. status'[Watched] = "eligible" => status[Watched] = "eligible"
    BY <1>1, WorkerLoopAssumption
  <2> QED
    BY <1>2, <2>1, BypassFrame DEF Alone
<1> QED
  BY <1>2, <1>4, <1>5, <1>6, <1>7, <1>8

(* The counter moves one further from the reserved value, or reaches it.   *)
LEMMA FillAttemptInv ==
  ASSUME Inv, FillAttempt
  PROVE  Inv'
<1> USE DEF Inv, FillAttempt
<1>1. UNCHANGED <<queue, status, priority, held, running, inflight, by_kind, live>>
  BY DEF store, memory
<1>2. counter' = IF counter = Period - 1 THEN 0 ELSE counter + 1
  BY CounterStep DEF TypeOK
<1>3. counter' \in 0..(Period - 1) /\ counter' \in Nat
  BY <1>2, PeriodType DEF TypeOK
<1>4. TypeOK' /\ QueueInv'
  BY <1>1, <1>3, FloorType DEF TypeOK, QueueInv
<1>5. BookkeepingExact' /\ CapsRespected' /\ JoinInv' /\ HandleInv'
      /\ SlotFree' = SlotFree /\ ClaimableKinds' = ClaimableKinds
  BY MemoryFrame DEF Active
<1>6. SpawnInv' /\ ClaimInv' /\ ClaimsAccountedFor'
  BY <1>1, <1>5 DEF SpawnInv, ClaimInv, ClaimsAccountedFor
<1>7. BypassInv'
  <2> SUFFICES ASSUME Rotated, status[Watched] = "eligible"
               PROVE  BypassInv'
    BY <1>1 DEF BypassInv, Rotated, Alone
  <2>1. passed <= Penalty + Distance + 1 /\ Penalty' = Penalty
        /\ Reserved' = Reserved
    BY <1>1 DEF BypassInv, Penalty, Reserved
  <2>2. /\ Period \in Nat /\ Penalty \in Nat /\ passed \in Nat
        /\ Distance \in 0..(Period - 1) /\ Reserved \in 0..(Period - 1)
        /\ FloorFor(Reserved) = priority[Watched]
    <3>1. Rotates /\ faults' \in {faults, faults + 1} /\ skips' \in {skips, skips + 1}
      BY DEF Rotated
    <3>2. passed \in Nat
      BY BoundType DEF TypeOK
    <3>3. Distance \in 0..(Period - 1) /\ priority[Watched] \in 0..2
      BY <3>1, DistanceType
    <3>4. Reserved \in 0..(Period - 1) /\ FloorFor(Reserved) = priority[Watched]
      BY <3>1, <3>3, ReservedFloor DEF Reserved
    <3> QED
      BY <3>1, <3>2, <3>3, <3>4, PeriodType, PenaltyStep, Zenon
  <2>3. CASE Distance < Period - 1
    <3>1. Distance' = Distance + 1
      <4>1. CASE counter = Period - 1
        BY <1>2, <2>1, <2>2, <2>3, <4>1 DEF Distance, After
      <4>2. CASE counter # Period - 1
        <5>1. counter \in Nat /\ counter' = counter + 1
          BY <1>2, <4>2, PeriodType DEF TypeOK
        <5>2. CASE counter >= Reserved
          BY <2>1, <2>2, <5>1, <5>2 DEF Distance, After
        <5>3. CASE counter < Reserved
          BY <2>1, <2>2, <2>3, <5>1, <5>3 DEF Distance, After
        <5> QED
          BY <2>2, <5>1, <5>2, <5>3
      <4> QED
        BY <4>1, <4>2
    <3> QED
      BY <2>1, <2>2, <3>1 DEF BypassInv
  <2>4. CASE Distance = Period - 1
    <3>1. counter' = Reserved /\ Distance' = 0
      BY <1>2, <2>1, <2>2, <2>4 DEF Distance, After, TypeOK
    <3>2. floor' = priority'[Watched] /\ passed' <= Penalty' + Period
      BY <1>1, <2>1, <2>2, <2>4, <3>1
    <3> QED
      BY <3>1, <3>2 DEF BypassInv
  <2> QED
    BY <2>2, <2>3, <2>4
<1> QED
  BY <1>4, <1>5, <1>6, <1>7

(* A job without a cap that is eligible is a candidate at its own floor. *)
LEMMA WatchedIsCandidate ==
  ASSUME Inv, Rotated, status[Watched] = "eligible",
         floor <= priority[Watched]
  PROVE  \E i \in Candidates : queue[i] = Watched
<1>1. PICK i \in DOMAIN queue : queue[i] = Watched
  BY WorkerLoopAssumption DEF Inv, QueueInv
<1>2. KindOf[Watched] \in ClaimableKinds
  BY WorkerLoopAssumption DEF Rotated, ClaimableKinds
<1>3. priority[Watched] >= floor
  BY WorkerLoopAssumption DEF Inv, TypeOK, FloorAll, FloorNormal, FloorLow
<1> QED
  BY <1>1, <1>2, <1>3 DEF Candidates

(* A claim at the floor of its tier is a claim of the watched job, if no   *)
(* row is skipped.                                                         *)
LEMMA ReservedClaim ==
  ASSUME Inv, Rotated, status[Watched] = "eligible",
         floor = priority[Watched], NEW i \in Candidates, IsNext(i, {})
  PROVE  queue[i] = Watched
<1>0. priority \in [Jobs -> 0..2] /\ priority[Watched] \in 0..2 /\ floor \in 0..2
  BY WorkerLoopAssumption
     DEF Inv, TypeOK, FloorAll, FloorNormal, FloorLow
<1>1. PICK w \in Candidates : queue[w] = Watched
  BY <1>0, WatchedIsCandidate
<1>2. queue[i] \in Jobs /\ priority[queue[i]] \in 0..2
      /\ priority[queue[i]] >= floor
  BY <1>0, ElementOfSeq DEF Inv, TypeOK, Candidates
<1>3. priority[queue[i]] <= priority[Watched]
  BY <1>0, <1>1, <1>2 DEF IsNext
<1>4. priority[queue[i]] = priority[Watched]
  BY <1>0, <1>2, <1>3
<1> QED
  BY <1>2, <1>4 DEF Rotated, Alone

(* What a claim does, whether the loop learns of it or not. *)
LEMMA TakeFacts ==
  ASSUME Inv, NEW i \in Candidates, Take(queue[i])
  PROVE  /\ queue[i] \in Jobs /\ status[queue[i]] = "eligible"
         /\ KindOf[queue[i]] \in ClaimableKinds
         /\ passed \in Nat /\ passed' \in {passed, passed + 1}
         /\ passed' \in 0..PassedBound
<1>1. queue[i] \in Jobs
  BY ElementOfSeq DEF Inv, TypeOK, Candidates
<1>2. status[queue[i]] = "eligible" /\ KindOf[queue[i]] \in ClaimableKinds
  BY DEF Candidates
<1>3. passed \in 0..PassedBound /\ PassedBound \in Nat
  BY BoundType DEF Inv, TypeOK
<1>4. \/ passed' = passed
      \/ passed' = passed + 1 /\ passed < PassedBound
  BY DEF Take
<1>5. passed \in Nat /\ passed' \in {passed, passed + 1}
      /\ passed' \in 0..PassedBound
  BY <1>3, <1>4
<1> QED
  BY <1>1, <1>2, <1>5

(* A claim that finds rows locked is counted, and stays within the bound.  *)
LEMMA SkipFacts ==
  ASSUME TypeOK, NEW L, SkipLocked(L)
  PROVE  /\ skips' \in {skips, skips + 1} /\ skips' \in 0..(MaxFaults - faults)
         /\ L = {} \/ skips' = skips + 1
BY WorkerLoopAssumption DEF TypeOK, SkipLocked

(* Whatever the counter, a claim starts within what is tolerated and one   *)
(* period: a fault or a skipped row makes up for the period.               *)
LEMMA ClaimBound ==
  ASSUME Inv, pc = "claim", Rotated, status[Watched] = "eligible",
         faults' \in {faults, faults + 1}, skips' \in {skips, skips + 1}
  PROVE  /\ passed \in Nat /\ Penalty' \in Nat
         /\ Distance \in Nat
         /\ faults' = faults + 1 \/ skips' = skips + 1 => passed <= Penalty'
<1>1. Period \in Nat /\ Penalty \in Nat /\ Penalty' \in Nat
      /\ (faults' = faults + 1 \/ skips' = skips + 1 => Penalty' >= Penalty + Period)
  BY PeriodType, PenaltyStep DEF Inv
<1>2. Distance \in 0..(Period - 1) /\ Distance \in Nat
  BY DistanceType DEF Inv, Rotated
<1>3. passed \in Nat
  BY BoundType DEF Inv, TypeOK
<1>4. \/ passed <= Penalty + Distance
      \/ passed <= Penalty + Period
      \/ passed <= Penalty
  BY DEF Inv, BypassInv
<1>5. passed <= Penalty + Period
  BY <1>1, <1>2, <1>3, <1>4
<1> QED
  BY <1>1, <1>2, <1>3, <1>5

(* A claim that takes another job is counted as one bypass. *)
LEMMA BypassTake ==
  ASSUME Inv, pc = "claim", pc' # "claim", UNCHANGED <<counter, priority>>,
         faults' \in {faults, faults + 1}, skips' \in {skips, skips + 1},
         NEW i \in Candidates, Take(queue[i]),
         IsNext(i, {}) \/ faults' = faults + 1 \/ skips' = skips + 1
  PROVE  BypassInv'
<1> SUFFICES ASSUME Rotated, status'[Watched] = "eligible"
             PROVE  BypassInv'
  BY DEF BypassInv, Rotated, Alone
<1>1. queue[i] # Watched /\ status[Watched] = "eligible"
  BY TakeFacts, WorkerLoopAssumption DEF Take, Inv, TypeOK
<1>2. Distance' = Distance
  BY DEF Distance, Reserved
<1>3. Penalty \in Nat /\ Penalty' \in Nat /\ Penalty' >= Penalty
  BY PenaltyStep DEF Inv
<1>4. passed \in Nat /\ passed' \in {passed, passed + 1} /\ Distance \in Nat
  BY <1>1, TakeFacts, ClaimBound
<1>5. passed <= Penalty' + Distance
  <2>1. CASE faults' = faults + 1 \/ skips' = skips + 1
    <3>1. passed <= Penalty'
      BY <1>1, <2>1, ClaimBound
    <3> QED
      BY <1>3, <1>4, <3>1, Room, Zenon
  <2>2. CASE IsNext(i, {})
    <3>1. floor # priority[Watched]
      BY <1>1, <2>2, ReservedClaim
    <3>2. \/ Distance > 0 /\ passed <= Penalty + Distance
          \/ Distance = 0 /\ passed <= Penalty
      BY <1>1, <3>1 DEF Inv, BypassInv
    <3>3. passed <= Penalty + Distance
      BY <1>3, <1>4, <3>2, Room, Zenon
    <3> QED
      BY <1>3, <1>4, <3>3, Raise, Zenon
  <2> QED
    BY <2>1, <2>2
<1>6. passed' <= Penalty' + Distance' + 1
  <2> DEFINE a == Penalty'
             x == passed'
  <2>1. a \in Nat /\ x \in {passed, passed + 1} /\ passed <= a + Distance
    BY <1>3, <1>4, <1>5
  <2> HIDE DEF a, x
  <2>2. x <= a + Distance + 1
    BY <1>4, <2>1
  <2> QED
    BY <1>2, <2>2 DEF a, x
<1> QED
  BY <1>6 DEF BypassInv

(* A claim takes the first of its candidates that is not locked; *)
LEMMA ClaimNextInv ==
  ASSUME Inv, ClaimNext
  PROVE  Inv'
<1> USE DEF Inv, ClaimNext
<1>0. PICK L \in SUBSET Candidates :
        /\ SkipLocked(L)
        /\ \E i \in DOMAIN queue :
             IsNext(i, L) /\ Take(queue[i]) /\ held' = queue[i]
  OBVIOUS
<1>1. PICK i \in Candidates : IsNext(i, L) /\ Take(queue[i]) /\ held' = queue[i]
  BY <1>0 DEF IsNext
<1>12. /\ skips' \in {skips, skips + 1} /\ skips' \in 0..(MaxFaults - faults)
       /\ L = {} \/ skips' = skips + 1
  BY <1>0, SkipFacts
<1> DEFINE j == queue[i]
<1>2. j \in Jobs /\ status[j] = "eligible" /\ KindOf[j] \in ClaimableKinds
      /\ passed' \in 0..PassedBound
  BY <1>1, TakeFacts
<1>3. held' = j /\ status' = [status EXCEPT ![j] = "claimed"]
  BY <1>1 DEF Take
<1> HIDE DEF j
<1>4. TypeOK' /\ QueueInv'
  BY <1>2, <1>3, <1>12 DEF TypeOK, QueueInv
<1>5. JoinSet' = JoinSet /\ \A k : TasksOf(k)' = TasksOf(k)
  BY SameTasks
<1>6. BookkeepingExact' /\ CapsRespected'
  BY <1>5 DEF BookkeepingExact, CapsRespected
<1>7. JoinInv' /\ HandleInv'
  BY DEF JoinInv, HandleInv, Active
<1>8. SpawnInv'
  BY <1>2, <1>3, <1>5, WorkerLoopAssumption DEF SpawnInv, SlotFree, ClaimableKinds
<1>9. ClaimInv'
  BY <1>2, <1>3 DEF TypeOK, ClaimInv, SpawnInv
<1>10. ClaimsAccountedFor'
  <2> SUFFICES ASSUME faults = 0, NEW q \in Jobs, q # j, status[q] = "claimed"
               PROVE  \E u \in live : inflight[u] = q
    BY <1>2, <1>3 DEF TypeOK, ClaimsAccountedFor
  <2>1. held # q
    BY WorkerLoopAssumption DEF SpawnInv
  <2> QED
    BY <2>1 DEF ClaimsAccountedFor
<1>11. BypassInv'
  BY <1>1, <1>12, BypassTake
<1> QED
  BY <1>4, <1>6, <1>7, <1>8, <1>9, <1>10, <1>11

(* if there is none of the floor's tiers it looks at all, *)
LEMMA ClaimFallbackInv ==
  ASSUME Inv, ClaimFallback
  PROVE  Inv'
<1> USE DEF Inv, ClaimFallback
<1>1. UNCHANGED <<queue, status, priority, held, running, inflight, by_kind, live>>
  BY DEF store, memory
<1>2. /\ skips' \in {skips, skips + 1} /\ skips' \in 0..(MaxFaults - faults)
      /\ Candidates = {} \/ skips' = skips + 1
  BY SkipFacts
<1>3. TypeOK' /\ QueueInv'
  BY <1>1, <1>2 DEF TypeOK, QueueInv
<1>4. BookkeepingExact' /\ CapsRespected' /\ JoinInv' /\ HandleInv'
      /\ SlotFree' = SlotFree /\ ClaimableKinds' = ClaimableKinds
  BY MemoryFrame
<1>5. SpawnInv' /\ ClaimInv' /\ ClaimsAccountedFor'
  BY <1>1, <1>4 DEF SpawnInv, ClaimInv, ClaimsAccountedFor
<1>6. BypassInv'
  <2> SUFFICES ASSUME Rotated, status[Watched] = "eligible"
               PROVE  BypassInv'
    BY <1>1 DEF BypassInv, Rotated, Alone
  <2>1. Distance' = Distance
    BY <1>1 DEF Distance, Reserved
  <2>2. CASE Candidates = {} /\ skips' = skips
    <3>1. floor # priority[Watched]
      <4>1. floor = priority[Watched] => floor <= priority[Watched]
        BY WorkerLoopAssumption DEF TypeOK
      <4> QED
        BY <2>2, <4>1, WatchedIsCandidate
    <3>2. Penalty' = Penalty
      BY <2>2 DEF Penalty
    <3> QED
      BY <2>1, <3>1, <3>2 DEF BypassInv
  <2>3. CASE skips' = skips + 1
    <3>1. /\ passed \in Nat /\ Penalty' \in Nat /\ Distance \in Nat
          /\ passed <= Penalty'
      BY <2>3, ClaimBound
    <3>2. \/ Distance > 0 /\ passed <= Penalty' + Distance
          \/ Distance = 0 /\ passed <= Penalty'
      BY <3>1, Room, Zenon
    <3> QED
      BY <2>1, <3>2 DEF BypassInv
  <2> QED
    BY <1>2, <2>2, <2>3
<1> QED
  BY <1>3, <1>4, <1>5, <1>6

(* and if there is none at all the loop waits. *)
LEMMA ClaimNoneInv ==
  ASSUME Inv, ClaimNone
  PROVE  Inv'
<1> USE DEF Inv, ClaimNone
<1>1. UNCHANGED <<queue, status, priority, held, running, inflight, by_kind, live>>
  BY DEF store, memory
<1>2. /\ skips' \in {skips, skips + 1} /\ skips' \in 0..(MaxFaults - faults)
      /\ Candidates = {} \/ skips' = skips + 1
  BY SkipFacts
<1>3. TypeOK' /\ QueueInv'
  BY <1>1, <1>2 DEF TypeOK, QueueInv
<1>4. BookkeepingExact' /\ CapsRespected' /\ JoinInv' /\ HandleInv'
      /\ SlotFree' = SlotFree /\ ClaimableKinds' = ClaimableKinds
  BY MemoryFrame DEF Active
<1>5. SpawnInv' /\ ClaimInv' /\ ClaimsAccountedFor'
  BY <1>1, <1>4 DEF SpawnInv, ClaimInv, ClaimsAccountedFor
<1>6. BypassInv'
  <2> SUFFICES ASSUME Rotated, status[Watched] = "eligible"
               PROVE  BypassInv'
    BY <1>1 DEF BypassInv, Rotated, Alone
  <2>1. skips' = skips + 1
    <3>1. floor <= priority[Watched]
      <4>1. floor = 0 /\ priority[Watched] \in 0..2
        BY WorkerLoopAssumption DEF TypeOK, FloorAll
      <4> QED
        BY <4>1
    <3> QED
      BY <1>2, <3>1, WatchedIsCandidate
  <2>2. /\ passed \in Nat /\ Penalty' \in Nat /\ Distance \in Nat
        /\ passed <= Penalty'
    BY <2>1, ClaimBound
  <2>3. Distance' = Distance
    BY <1>1 DEF Distance, Reserved
  <2>4. passed' <= Penalty' + Distance' + 1
    BY <2>2, <2>3, Room, Zenon
  <2> QED
    BY <2>4 DEF BypassInv
<1> QED
  BY <1>3, <1>4, <1>5, <1>6

(* A fault, and perhaps a claim that nobody knows of. *)
LEMMA ClaimFailsInv ==
  ASSUME Inv, ClaimFails
  PROVE  Inv'
<1> USE DEF Inv, ClaimFails
<1>1. UNCHANGED <<held, running, inflight, by_kind, live>>
      /\ faults' = faults + 1 /\ faults \in Nat /\ faults' \in 0..MaxFaults
      /\ skips' = skips /\ skips \in 0..(MaxFaults - faults')
  BY WorkerLoopAssumption DEF memory, Fault, TypeOK
<1>2. /\ \A j \in Jobs : \/ status'[j] = status[j]
                         \/ status[j] = "eligible" /\ status'[j] = "claimed"
      /\ status' \in [Jobs -> {"none", "hidden", "eligible", "claimed"}]
      /\ passed' \in 0..PassedBound
  <2>1. CASE UNCHANGED <<status, passed>>
    BY <2>1 DEF TypeOK
  <2>2. CASE \E i \in Candidates : Take(queue[i])
    <3>1. PICK i \in Candidates : Take(queue[i])
      BY <2>2
    <3>2. queue[i] \in Jobs /\ status[queue[i]] = "eligible"
          /\ passed' \in 0..PassedBound
      BY <3>1, TakeFacts
    <3> QED
      BY <3>1, <3>2 DEF Take, TypeOK
  <2> QED
    BY <2>1, <2>2
<1>3. TypeOK' /\ QueueInv'
  BY <1>1, <1>2 DEF TypeOK, QueueInv
<1>4. BookkeepingExact' /\ CapsRespected' /\ JoinInv' /\ HandleInv'
      /\ SlotFree' = SlotFree /\ ClaimableKinds' = ClaimableKinds
  BY <1>1, MemoryFrame DEF Active
<1>5. SpawnInv'
  BY <1>1 DEF SpawnInv
<1>6. ClaimInv'
  BY <1>1, <1>2, WorkerLoopAssumption DEF ClaimInv, TypeOK
<1>7. ClaimsAccountedFor'
  BY <1>1 DEF ClaimsAccountedFor
<1>8. BypassInv'
  <2>1. CASE \E i \in Candidates : Take(queue[i])
    BY <1>1, <2>1, BypassTake
  <2>2. CASE UNCHANGED <<status, passed>>
    <3> SUFFICES ASSUME Rotated, status[Watched] = "eligible"
                 PROVE  BypassInv'
      BY <2>2 DEF BypassInv, Rotated, Alone
    <3>1. /\ passed \in Nat /\ Penalty' \in Nat /\ Distance \in Nat
          /\ passed <= Penalty'
      BY <1>1, ClaimBound
    <3>2. Distance' = Distance
      BY DEF Distance, Reserved
    <3>3. passed <= Penalty' + Distance + 1
      BY <3>1, Room, Zenon
    <3>4. passed' <= Penalty' + Distance' + 1
      BY <2>2, <3>2, <3>3
    <3> QED
      BY <3>4 DEF BypassInv
  <2> QED
    BY <2>1, <2>2
<1> QED
  BY <1>3, <1>4, <1>5, <1>6, <1>7, <1>8

(* The handler of the held job takes a slot that was free, of a kind that  *)
(* was below its cap.                                                      *)
LEMMA SpawnStepInv ==
  ASSUME Inv, NEW t \in Tasks, Spawn(t)
  PROVE  Inv'
<1> USE DEF Inv, Spawn
<1> DEFINE h == [job |-> held, state |-> "running"]
           c == Cardinality(JoinSet)
<1>1. held \in Jobs /\ held # None /\ h \in Handles /\ h # None
      /\ KindOf[held] \in Kinds /\ h.job = held /\ h.state = "running"
  BY WorkerLoopAssumption DEF TypeOK, SpawnInv, Handles
<1>2. running' = [running EXCEPT ![t] = h]
  OBVIOUS
<1> HIDE DEF h
<1>3. /\ Cardinality(JoinSet') = c + 1
      /\ \A k \in Kinds : Cardinality(TasksOf(k)') =
           IF k = KindOf[held] THEN Cardinality(TasksOf(k)) + 1
                               ELSE Cardinality(TasksOf(k))
  BY <1>1, <1>2, OneTaskMore
<1>4. /\ c \in Nat /\ c < Concurrency /\ Concurrency \in Nat
      /\ \A k : Cardinality(TasksOf(k)) \in Nat /\ Cardinality(TasksOf(k)) <= c
  BY TasksFinite, WorkerLoopAssumption DEF SpawnInv, SlotFree
<1> HIDE DEF c
<1>5. \A k \in Kinds : by_kind[k] = Cardinality(TasksOf(k))
  BY DEF BookkeepingExact
<1>6. by_kind' = [by_kind EXCEPT ![KindOf[held]] = @ + 1]
  BY DEF Bump
<1>7. by_kind' \in [Kinds -> 0..Concurrency]
  BY <1>1, <1>4, <1>5, <1>6 DEF TypeOK
<1>8. TypeOK' /\ QueueInv'
  BY <1>1, <1>2, <1>7 DEF TypeOK, QueueInv, store
<1>9. \A u \in Tasks : running'[u] = IF u = t THEN h ELSE running[u]
  BY <1>2 DEF TypeOK
<1>10. BookkeepingExact'
  <2>1. \A u \in Tasks :
          inflight'[u] = IF running'[u] = None THEN None ELSE running'[u].job
    BY <1>1, <1>9 DEF TypeOK, BookkeepingExact
  <2>2. \A k \in Kinds : by_kind'[k] = Cardinality(TasksOf(k)')
    BY <1>1, <1>3, <1>5, <1>6 DEF TypeOK
  <2> QED
    BY <2>1, <2>2 DEF BookkeepingExact
<1>11. CapsRespected'
  <2>1. Cardinality(JoinSet') <= Concurrency
    BY <1>3, <1>4
  <2>2. ASSUME NEW k \in Kinds, Cap[k] # None
        PROVE  Cardinality(TasksOf(k)') <= Cap[k]
    <3>1. Cap[k] \in Nat /\ Cardinality(TasksOf(k)) <= Cap[k]
      BY <2>2, WorkerLoopAssumption DEF CapsRespected
    <3>2. CASE k = KindOf[held]
      <4>1. by_kind[k] < Cap[k]
        BY <2>2, <3>2 DEF SpawnInv, ClaimableKinds
      <4> QED
        BY <1>3, <1>4, <1>5, <3>1, <3>2, <4>1
    <3>3. CASE k # KindOf[held]
      BY <1>3, <3>1, <3>3
    <3> QED
      BY <3>2, <3>3
  <2> QED
    BY <2>1, <2>2 DEF CapsRespected
<1>12. JoinInv' /\ SpawnInv'
  BY DEF JoinInv, SpawnInv
<1>13. HandleInv'
  BY <1>1, <1>9 DEF HandleInv, Active
<1>14. ClaimInv' /\ ClaimsAccountedFor'
  BY <1>1 DEF TypeOK, ClaimInv, ClaimsAccountedFor, store
<1>15. BypassInv'
  BY <1>8, BypassFrame DEF store, Alone
<1> QED
  BY <1>8, <1>10, <1>11, <1>12, <1>13, <1>14, <1>15

-----------------------------------------------------------------------------
(* Settle, reap, drain and release. *)

(* A row that is deleted takes no other job out of the queue. *)
LEMMA RemoveOne ==
  ASSUME NEW S, NEW s \in Seq(S), NEW i \in DOMAIN s
  PROVE  LET r == SubSeq(s, 1, i - 1) \o SubSeq(s, i + 1, Len(s))
         IN  /\ r \in Seq(S)
             /\ \A k \in DOMAIN s :
                  s[k] # s[i] => \E m \in DOMAIN r : r[m] = s[k]
<1>1. Len(s) \in Nat /\ i \in 1..Len(s) /\ DOMAIN s = 1..Len(s)
  BY LenProperties
<1> DEFINE a == SubSeq(s, 1, i - 1)
           b == SubSeq(s, i + 1, Len(s))
           r == a \o b
<1>2. /\ a \in Seq(S) /\ Len(a) = i - 1
      /\ \A k \in 1..(i - 1) : a[k] = s[k]
  BY <1>1
<1>3. /\ b \in Seq(S) /\ Len(b) = Len(s) - i
      /\ \A k \in 1..(Len(s) - i) : b[k] = s[i + k]
  BY <1>1
<1> HIDE DEF a, b
<1>4. /\ r \in Seq(S) /\ Len(r) = Len(a) + Len(b)
      /\ \A m \in 1..(Len(a) + Len(b)) :
           r[m] = IF m <= Len(a) THEN a[m] ELSE b[m - Len(a)]
  BY <1>2, <1>3, ConcatProperties, Zenon
<1> HIDE DEF r
<1>5. Len(r) = Len(s) - 1 /\ DOMAIN r = 1..(Len(s) - 1)
  BY <1>1, <1>2, <1>3, <1>4, LenProperties
<1>6. ASSUME NEW m \in 1..(Len(s) - 1)
      PROVE  r[m] = IF m <= i - 1 THEN s[m] ELSE s[m + 1]
  <2>1. m \in 1..(Len(a) + Len(b))
    BY <1>1, <1>2, <1>3
  <2>2. r[m] = IF m <= i - 1 THEN a[m] ELSE b[m - (i - 1)]
    BY <1>2, <1>4, <2>1
  <2>3. CASE m <= i - 1
    BY <1>1, <1>2, <2>2, <2>3
  <2>4. CASE m > i - 1
    <3>1. m - (i - 1) \in 1..(Len(s) - i) /\ i + (m - (i - 1)) = m + 1
      BY <1>1, <2>4
    <3>2. b[m - (i - 1)] = s[i + (m - (i - 1))]
      BY <1>3, <3>1
    <3> QED
      BY <1>1, <2>2, <2>4, <3>1, <3>2
  <2> QED
    BY <1>1, <2>3, <2>4
<1>7. ASSUME NEW k \in DOMAIN s, s[k] # s[i]
      PROVE  \E m \in DOMAIN r : r[m] = s[k]
  <2>1. k \in 1..Len(s) /\ k # i
    BY <1>1, <1>7
  <2>2. CASE k < i
    <3>1. k \in 1..(Len(s) - 1) /\ k <= i - 1
      BY <1>1, <2>1, <2>2
    <3>2. r[k] = s[k]
      BY <1>6, <3>1
    <3> QED
      BY <1>5, <3>1, <3>2
  <2>3. CASE k > i
    <3>1. k - 1 \in 1..(Len(s) - 1) /\ ~ (k - 1 <= i - 1) /\ (k - 1) + 1 = k
      BY <1>1, <2>1, <2>3
    <3>2. r[k - 1] = s[(k - 1) + 1]
      BY <1>6, <3>1
    <3> QED
      BY <1>5, <3>1, <3>2
  <2> QED
    BY <1>1, <2>1, <2>2, <2>3
<1> QED
  BY <1>4, <1>7, Zenon DEF a, b, r

(* A settlement ends the claim of its own task, if that task has one, or   *)
(* is a fault; it changes no other job.                                    *)
LEMMA SettleFacts ==
  ASSUME Inv, NEW t \in Tasks, NEW j \in Jobs, inflight[t] = j, SettleJob(t, j)
  PROVE  /\ queue' \in Seq(Jobs) /\ QueueInv'
         /\ status' \in [Jobs -> {"none", "hidden", "eligible", "claimed"}]
         /\ faults' \in {faults, faults + 1} /\ faults' \in 0..MaxFaults
         /\ skips \in 0..(MaxFaults - faults') /\ priority' = priority
         /\ \A i \in Jobs : i # j => status'[i] = status[i]
         /\ t \notin live => status' = status
         /\ t \in live /\ faults' = 0 => status'[j] # "claimed"
         /\ status'[Watched] = "eligible" => status[Watched] = "eligible"
<1>1. faults \in Nat /\ faults \in 0..MaxFaults /\ Watched \in Jobs
      /\ skips \in 0..(MaxFaults - faults)
      /\ status \in [Jobs -> {"none", "hidden", "eligible", "claimed"}]
      /\ queue \in Seq(Jobs) /\ QueueInv
  BY WorkerLoopAssumption DEF Inv, TypeOK
<1>2. CASE t \notin live /\ UNCHANGED <<store, faults>>
  BY <1>1, <1>2 DEF store, QueueInv
<1>3. CASE t \in live /\ FinishJob(j) /\ UNCHANGED <<priority, faults>>
  <2>1. PICK i \in DOMAIN queue :
          /\ queue[i] = j
          /\ queue' = SubSeq(queue, 1, i - 1) \o SubSeq(queue, i + 1, Len(queue))
    BY <1>3 DEF FinishJob
  <2>2. /\ queue' \in Seq(Jobs)
        /\ \A k \in DOMAIN queue : queue[k] # queue[i] =>
             \E m \in DOMAIN queue' : queue'[m] = queue[k]
    BY <1>1, <2>1, RemoveOne, Zenon
  <2>3. status' = [status EXCEPT ![j] = "none"]
    BY <1>3 DEF FinishJob
  <2>4. QueueInv'
    <3> SUFFICES ASSUME NEW q \in Jobs, status'[q] # "none"
                 PROVE  \E m \in DOMAIN queue' : queue'[m] = q
      BY DEF QueueInv
    <3>1. q # j /\ status[q] # "none"
      BY <1>1, <2>3
    <3>2. PICK k \in DOMAIN queue : queue[k] = q
      BY <1>1, <3>1 DEF QueueInv
    <3> QED
      BY <2>1, <2>2, <3>1, <3>2, Zenon
  <2> QED
    BY <1>1, <1>3, <2>2, <2>3, <2>4
<1>4. CASE t \in live /\ Hide({j}) /\ UNCHANGED <<queue, priority, faults>>
  <2>1. status' = [i \in Jobs |-> IF i = j THEN "hidden" ELSE status[i]]
    BY <1>4 DEF Hide
  <2>2. t \in live /\ faults' = faults /\ queue' = queue /\ priority' = priority
    BY <1>4
  <2>3. QueueInv'
    <3>1. \A q \in Jobs : status'[q] # "none" => status[q] # "none" \/ q = j
      BY <2>1
    <3>2. status[j] # "none"
      BY <2>2 DEF Inv, ClaimInv
    <3> QED
      BY <1>1, <2>2, <3>1, <3>2 DEF QueueInv
  <2> QED
    BY <1>1, <2>1, <2>2, <2>3
<1>5. CASE Fault /\ UNCHANGED store
  BY <1>1, <1>5, WorkerLoopAssumption DEF Fault, store, QueueInv
<1> QED
  BY <1>2, <1>3, <1>4, <1>5 DEF SettleJob

(* A handler that is reaped gives back its slot. *)
LEMMA ReapInv ==
  ASSUME Inv, NEW t \in Tasks, Reap(t)
  PROVE  Inv'
<1> USE DEF Inv, Reap
<1>1. pc \in Active /\ pc' \in {"top", "drain"} /\ pc \in {"wait", "drain"}
  BY DEF Active
<1>2. running[t] # None /\ running[t] \in Handles /\ t \in JoinSet
  BY DEF Joinable, JoinSet, TypeOK
<1> DEFINE j == running[t].job
<1>3. j \in Jobs /\ inflight[t] = j /\ KindOf[j] \in Kinds
  BY <1>1, <1>2, WorkerLoopAssumption DEF Handles, BookkeepingExact, Active
<1>4. held = None /\ held' = None
  BY <1>1 DEF SpawnInv
<1>5. /\ queue' \in Seq(Jobs) /\ QueueInv'
      /\ status' \in [Jobs -> {"none", "hidden", "eligible", "claimed"}]
      /\ faults' \in {faults, faults + 1} /\ faults' \in 0..MaxFaults
      /\ skips \in 0..(MaxFaults - faults') /\ priority' = priority
      /\ \A i \in Jobs : i # j => status'[i] = status[i]
      /\ t \notin live => status' = status
      /\ t \in live /\ faults' = 0 => status'[j] # "claimed"
      /\ status'[Watched] = "eligible" => status[Watched] = "eligible"
  <2>1. CASE running[t].state = "finished"
    BY <1>3, <2>1, SettleFacts
  <2>2. CASE running[t].state # "finished"
    <3>1. faults' = faults /\ faults > 0 /\ status' = status /\ queue' = queue
          /\ priority' = priority
      BY <1>1, <1>2, <2>2 DEF Joinable, Handles, HandleInv, store
    <3> QED
      BY <3>1 DEF QueueInv, TypeOK
  <2> QED
    BY <2>1, <2>2
<1> HIDE DEF j
<1>6. /\ Cardinality(JoinSet') = Cardinality(JoinSet) - 1
      /\ \A k \in Kinds : Cardinality(TasksOf(k)') =
           IF k = KindOf[j] THEN Cardinality(TasksOf(k)) - 1
                            ELSE Cardinality(TasksOf(k))
      /\ Cardinality(TasksOf(KindOf[j])) >= 1
  BY <1>2, OneTaskLess DEF j
<1>7. /\ Cardinality(JoinSet) \in Nat
      /\ \A k : Cardinality(TasksOf(k)) \in Nat
  BY TasksFinite
<1>8. \A k \in Kinds : by_kind[k] = Cardinality(TasksOf(k))
  BY <1>1 DEF BookkeepingExact, Active
<1>9. by_kind' = [by_kind EXCEPT ![KindOf[j]] = IF @ > 0 THEN @ - 1 ELSE 0]
  BY <1>3 DEF ReleaseSlot
<1>10. TypeOK'
  <2>1. by_kind' \in [Kinds -> 0..Concurrency]
    <3>1. \A n \in 0..Concurrency : (IF n > 0 THEN n - 1 ELSE 0) \in 0..Concurrency
      BY WorkerLoopAssumption
    <3> QED
      BY <1>3, <1>9, <3>1 DEF TypeOK
  <2>2. running' \in [Tasks -> Handles \cup {None}]
        /\ inflight' \in [Tasks -> Jobs \cup {None}]
    BY DEF TypeOK
  <2> QED
    BY <1>1, <1>5, <2>1, <2>2 DEF TypeOK
<1>11. BookkeepingExact'
  <2>1. \A u \in Tasks :
          inflight'[u] = IF running'[u] = None THEN None ELSE running'[u].job
    BY <1>1 DEF TypeOK, BookkeepingExact, Active
  <2>2. \A k \in Kinds : by_kind'[k] = Cardinality(TasksOf(k)')
    BY <1>3, <1>6, <1>7, <1>8, <1>9 DEF TypeOK
  <2> QED
    BY <2>1, <2>2 DEF BookkeepingExact
<1>12. CapsRespected'
  BY <1>6, <1>7, WorkerLoopAssumption DEF CapsRespected
<1>13. JoinInv' /\ SpawnInv'
  BY <1>1, <1>4 DEF JoinInv, SpawnInv
<1>14. HandleInv'
  BY <1>1, <1>5, WorkerLoopAssumption DEF TypeOK, HandleInv, Active
<1>15. ClaimInv'
  BY <1>3, <1>4, <1>5, WorkerLoopAssumption DEF TypeOK, ClaimInv
<1>16. ClaimsAccountedFor'
  <2> SUFFICES ASSUME faults' = 0, NEW q \in Jobs, status'[q] = "claimed"
               PROVE  \E u \in live' : inflight'[u] = q
    BY DEF ClaimsAccountedFor
  <2>1. faults = 0 /\ status[q] = "claimed"
    BY <1>3, <1>5, WorkerLoopAssumption DEF TypeOK, ClaimInv
  <2>2. PICK u \in live : inflight[u] = q
    BY <1>4, <2>1, WorkerLoopAssumption DEF ClaimsAccountedFor
  <2>3. u # t
    BY <1>3, <1>5, <2>2
  <2> QED
    BY <2>2, <2>3 DEF TypeOK
<1>17. BypassInv'
  BY <1>1, <1>5, <1>10, BypassFrame DEF Alone
<1> QED
  BY <1>5, <1>10, <1>11, <1>12, <1>13, <1>14, <1>15, <1>16, <1>17

(* abort_all asks the tasks to end, which still have to be joined. *)
LEMMA AbortAllInv ==
  ASSUME Inv, AbortAll
  PROVE  Inv'
<1> USE DEF Inv, AbortAll
<1>1. ASSUME NEW t \in Tasks
      PROVE  /\ running'[t] \in Handles \cup {None}
             /\ running'[t] = None <=> running[t] = None
             /\ running[t] # None =>
                  /\ running'[t].job = running[t].job
                  /\ running'[t].state = "lost" => running[t].state = "lost"
  <2>1. running[t] \in Handles \cup {None} /\ None \notin Handles
    BY WorkerLoopAssumption DEF TypeOK
  <2>2. CASE running[t] # None /\ running[t].state = "running"
    <3>1. [running[t] EXCEPT !.state = "aborting"]
            = [job |-> running[t].job, state |-> "aborting"]
      BY <2>1, <2>2 DEF Handles
    <3>2. running'[t] = [job |-> running[t].job, state |-> "aborting"]
      BY <2>2, <3>1
    <3>3. running'[t] \in Handles
      BY <2>1, <2>2, <3>2 DEF Handles
    <3> QED
      BY <2>1, <2>2, <3>2, <3>3
  <2>3. CASE ~ (running[t] # None /\ running[t].state = "running")
    BY <2>1, <2>3
  <2> QED
    BY <2>2, <2>3
<1>2. TypeOK' /\ QueueInv'
  BY <1>1 DEF TypeOK, QueueInv, store
<1>3. JoinSet' = JoinSet /\ \A k : TasksOf(k)' = TasksOf(k)
  BY <1>1, SameTasks
<1>4. BookkeepingExact' /\ CapsRespected' /\ SpawnInv'
  BY <1>3 DEF BookkeepingExact, CapsRespected, SpawnInv
<1>5. JoinInv'
  BY <1>1 DEF JoinInv, BookkeepingExact
<1>6. HandleInv'
  BY <1>1 DEF HandleInv, Active
<1>7. ClaimInv' /\ ClaimsAccountedFor'
  BY DEF ClaimInv, ClaimsAccountedFor, store
<1>8. BypassInv'
  BY <1>2, BypassFrame DEF store, Alone
<1> QED
  BY <1>2, <1>4, <1>5, <1>6, <1>7, <1>8

(* After the abort every task is joined. *)
LEMMA JoinStepInv ==
  ASSUME Inv, NEW t \in Tasks, Join(t)
  PROVE  Inv'
<1> USE DEF Inv, Join
<1>1. running[t] # None /\ running[t] \in Handles /\ pc' = "join"
  BY DEF Joinable, JoinSet, TypeOK
<1> DEFINE j == running[t].job
<1>2. j \in Jobs /\ inflight[t] = j
  BY <1>1 DEF Handles, JoinInv
<1>3. held = None /\ held' = None
  BY DEF SpawnInv
<1>4. running' \in [Tasks -> Handles \cup {None}]
      /\ \A u \in Tasks : running'[u] # None => u # t /\ running'[u] = running[u]
  BY DEF TypeOK
<1>5. CapsRespected'
  <2>1. /\ Cardinality(JoinSet') = Cardinality(JoinSet) - 1
        /\ \A k \in Kinds : Cardinality(TasksOf(k)') =
             IF k = KindOf[j] THEN Cardinality(TasksOf(k)) - 1
                              ELSE Cardinality(TasksOf(k))
    BY <1>1, OneTaskLess
  <2>2. /\ Cardinality(JoinSet) \in Nat
        /\ \A k : Cardinality(TasksOf(k)) \in Nat
    BY TasksFinite
  <2> QED
    BY <2>1, <2>2, WorkerLoopAssumption DEF CapsRespected
<1> HIDE DEF j
<1>6. BookkeepingExact' /\ SpawnInv'
  BY <1>1, <1>3 DEF BookkeepingExact, SpawnInv
<1>7. CASE running[t].state = "finished"
  <2>1. /\ inflight' = [inflight EXCEPT ![t] = None]
        /\ live' = live \ {t}
        /\ SettleJob(t, j)
    BY <1>7 DEF j
  <2>2. /\ queue' \in Seq(Jobs) /\ QueueInv'
        /\ status' \in [Jobs -> {"none", "hidden", "eligible", "claimed"}]
        /\ faults' \in {faults, faults + 1} /\ faults' \in 0..MaxFaults
        /\ skips \in 0..(MaxFaults - faults') /\ priority' = priority
        /\ \A i \in Jobs : i # j => status'[i] = status[i]
        /\ t \notin live => status' = status
        /\ t \in live /\ faults' = 0 => status'[j] # "claimed"
        /\ status'[Watched] = "eligible" => status[Watched] = "eligible"
    BY <1>2, <2>1, SettleFacts
  <2>3. TypeOK'
    BY <1>4, <2>1, <2>2 DEF TypeOK
  <2>4. JoinInv'
    BY <1>4, <2>1 DEF TypeOK, JoinInv
  <2>5. HandleInv'
    BY <1>1, <1>4, <2>2, WorkerLoopAssumption DEF TypeOK, HandleInv
  <2>6. ClaimInv'
    BY <1>2, <1>3, <2>1, <2>2, WorkerLoopAssumption DEF TypeOK, ClaimInv
  <2>7. ClaimsAccountedFor'
    <3> SUFFICES ASSUME faults' = 0, NEW q \in Jobs, status'[q] = "claimed"
                 PROVE  \E u \in live' : inflight'[u] = q
      BY DEF ClaimsAccountedFor
    <3>1. faults = 0 /\ status[q] = "claimed"
      BY <1>2, <2>2, WorkerLoopAssumption DEF TypeOK, ClaimInv
    <3>2. PICK u \in live : inflight[u] = q
      BY <1>3, <3>1, WorkerLoopAssumption DEF ClaimsAccountedFor
    <3>3. u # t
      BY <1>2, <2>2, <3>2
    <3> QED
      BY <2>1, <3>2, <3>3 DEF TypeOK
  <2>8. BypassInv'
    BY <2>2, <2>3, BypassFrame DEF Alone
  <2> QED
    BY <1>5, <1>6, <2>2, <2>3, <2>4, <2>5, <2>6, <2>7, <2>8
<1>8. CASE running[t].state # "finished"
  <2>1. UNCHANGED <<inflight, live, queue, status, priority, faults>>
    BY <1>8 DEF store
  <2>2. TypeOK' /\ QueueInv'
    BY <1>4, <2>1 DEF TypeOK, QueueInv
  <2>3. JoinInv' /\ HandleInv'
    BY <1>1, <1>4, <2>1 DEF TypeOK, JoinInv, HandleInv, Active
  <2>4. ClaimInv' /\ ClaimsAccountedFor'
    BY <2>1 DEF ClaimInv, ClaimsAccountedFor
  <2>5. BypassInv'
    BY <2>1, <2>2, BypassFrame DEF Alone
  <2> QED
    BY <1>5, <1>6, <2>2, <2>3, <2>4, <2>5
<1> QED
  BY <1>7, <1>8

(* A job whose task was aborted is released. *)
LEMMA ReleaseInv ==
  ASSUME Inv, NEW t \in Tasks, Release(t)
  PROVE  Inv'
<1> USE DEF Inv, Release
<1> DEFINE j == inflight[t]
<1>1. j \in Jobs /\ j # None
  BY DEF TypeOK
<1>2. inflight' = [inflight EXCEPT ![t] = None] /\ live' = live \ {t}
  OBVIOUS
<1>3. \/ /\ t \in live /\ faults' = faults
         /\ status' = [status EXCEPT ![j] = "eligible"]
         /\ passed' = IF j = Watched THEN 0 ELSE passed
      \/ t \notin live /\ UNCHANGED <<status, passed, faults>>
      \/ /\ faults' = faults + 1 /\ faults + skips < MaxFaults
         /\ UNCHANGED <<status, passed>>
  BY DEF StartsWaiting, Fault
<1> HIDE DEF j
<1>4. faults' \in {faults, faults + 1} /\ faults' \in 0..MaxFaults /\ faults \in Nat
      /\ skips \in 0..(MaxFaults - faults')
  BY <1>3, WorkerLoopAssumption DEF TypeOK
<1>5. TypeOK'
  BY <1>1, <1>2, <1>3, <1>4, BoundType DEF TypeOK
<1>6. QueueInv'
  BY <1>1, <1>3 DEF TypeOK, QueueInv, ClaimInv, j
<1>7. JoinSet' = JoinSet /\ \A k : TasksOf(k)' = TasksOf(k)
  BY SameTasks
<1>8. BookkeepingExact' /\ CapsRespected' /\ JoinInv' /\ SpawnInv'
  BY <1>7 DEF BookkeepingExact, CapsRespected, JoinInv, SpawnInv
<1>9. HandleInv'
  BY <1>4 DEF HandleInv
<1>10. held = None /\ held' = None
  BY DEF SpawnInv
<1>11. ClaimInv'
  BY <1>1, <1>2, <1>3, <1>10 DEF TypeOK, ClaimInv, j
<1>12. ClaimsAccountedFor'
  <2> SUFFICES ASSUME faults' = 0, NEW q \in Jobs, status'[q] = "claimed"
               PROVE  \E u \in live' : inflight'[u] = q
    BY DEF ClaimsAccountedFor
  <2>1. faults = 0 /\ status[q] = "claimed" /\ (t \in live => q # j)
    BY <1>1, <1>3, <1>4 DEF TypeOK
  <2>2. PICK u \in live : inflight[u] = q
    BY <1>10, <2>1, WorkerLoopAssumption DEF ClaimsAccountedFor
  <2>3. u # t
    BY <2>1, <2>2 DEF j
  <2> QED
    BY <1>2, <2>2, <2>3 DEF TypeOK
<1>13. BypassInv'
  <2>1. \/ passed' = 0
        \/ /\ passed' = passed
           /\ status'[Watched] = "eligible" => status[Watched] = "eligible"
    BY <1>1, <1>3, WorkerLoopAssumption DEF TypeOK
  <2> QED
    BY <1>4, <1>5, <2>1, BypassFrame DEF Alone
<1> QED
  BY <1>5, <1>6, <1>8, <1>9, <1>11, <1>12, <1>13

-----------------------------------------------------------------------------
(* The loop as a whole. *)

(* Every step keeps the invariant. *)
LEMMA NextInv ==
  ASSUME Inv, [Next]_vars
  PROVE  Inv'
<1>1. CASE Environment
  BY <1>1, EnqueueInv, MergeInv, BecomeVisibleInv, HandlerStepInv, QuietInv DEF Environment
<1>2. CASE Loop
  BY <1>2, RecoverStaleInv, QuietInv, FillAttemptInv, ClaimNextInv,
     ClaimFallbackInv, ClaimNoneInv, ClaimFailsInv, SpawnStepInv DEF Loop
<1>3. CASE Draining
  BY <1>3, AbortAllInv, QuietInv, JoinStepInv, ReleaseInv DEF Draining
<1>4. CASE \E t \in Tasks : Reap(t)
  BY <1>4, ReapInv
<1>5. CASE UNCHANGED vars
  <2>1. UNCHANGED <<queue, status, priority, pc, counter, floor, held, running,
                    inflight, by_kind, live, shutdown, passed, faults, skips>>
    BY <1>5 DEF vars
  <2> USE DEF Inv
  <2>2. BookkeepingExact' /\ CapsRespected' /\ JoinInv' /\ HandleInv'
        /\ SlotFree' = SlotFree /\ ClaimableKinds' = ClaimableKinds
    BY <2>1, MemoryFrame DEF memory
  <2>3. TypeOK' /\ QueueInv' /\ SpawnInv' /\ ClaimInv' /\ ClaimsAccountedFor'
    BY <2>1, <2>2 DEF TypeOK, QueueInv, SpawnInv, ClaimInv, ClaimsAccountedFor
  <2>4. BypassInv'
    BY <2>1, <2>3, BypassFrame DEF Alone
  <2> QED
    BY <2>2, <2>3, <2>4
<1> QED
  BY <1>1, <1>2, <1>3, <1>4, <1>5 DEF Next

(* The invariant above holds of every behaviour of the loop. *)
THEOREM Invariance == Spec => []Inv
<1>1. Init => Inv
  BY InitInv
<1>2. Inv /\ [Next]_vars => Inv'
  BY NextInv
<1> QED
  BY <1>1, <1>2, PTL DEF Spec

(* Every variable of the loop keeps its type; of these, that claim_counter *)
(* stays within one period and that no by_kind entry exceeds the           *)
(* concurrency need the whole invariant.                                   *)
THEOREM TypeCorrect == Spec => []TypeOK
BY Invariance, PTL DEF Inv

(* inflight and by_kind describe the JoinSet exactly, whatever handlers,   *)
(* recoveries and store errors do, as long as the loop acts on them.       *)
THEOREM Bookkeeping == Spec => []BookkeepingExact
BY Invariance, PTL DEF Inv

(* No more handlers run than the concurrency allows, nor more of a kind    *)
(* than its cap, for any caps.                                             *)
THEOREM Capped == Spec => []CapsRespected
BY Invariance, PTL DEF Inv

(* Without store errors and lost tasks every claim has a task or the loop  *)
(* itself to end it, down to the last step of the shutdown.                *)
THEOREM NoClaimForgotten == Spec => []ClaimsAccountedFor
BY Invariance, PTL DEF Inv

(* For any ratio of at least two, and in any of the three tiers, the only  *)
(* job of its tier is passed over at most Ratio^2 times, and Ratio^2 times *)
(* more for each fault and for each claim that found rows locked.          *)
THEOREM NoStarvation == Spec => []BoundedBypass
<1>1. Inv => BoundedBypass
  <2> SUFFICES ASSUME Inv, Rotated, status[Watched] = "eligible"
               PROVE  passed <= Period * (faults + skips + 1)
    BY DEF BoundedBypass, Rotated, Alone
  <2>1. faults + skips \in Nat /\ Period \in Nat /\ passed \in Nat
        /\ Distance \in 0..(Period - 1)
    BY PeriodType, BoundType, DistanceType, WorkerLoopAssumption
       DEF Inv, TypeOK, Rotated
  <2>2. Period * (faults + skips + 1) = Penalty + Period /\ Penalty \in Nat
    <3>1. \A n \in Nat : Period * (n + 1) = Period * n + Period /\ Period * n \in Nat
      BY <2>1
    <3> QED
      BY <2>1, <3>1 DEF Penalty
  <2>3. \/ passed <= Penalty + Distance + 1
        \/ passed <= Penalty + Distance
        \/ passed <= Penalty + Period
        \/ passed <= Penalty
    BY DEF Inv, BypassInv
  <2>4. passed <= Penalty + Period
    BY <2>1, <2>2, <2>3
  <2> QED
    BY <2>2, <2>4
<1> QED
  BY Invariance, <1>1, PTL
=============================================================================
