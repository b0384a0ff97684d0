--------------------------- MODULE MigrateProofs ---------------------------
(***************************************************************************)
(* Proofs, for any number of processes, connections, versions and faults,  *)
(* of the safety properties of concurrent startups.                        *)
(*                                                                         *)
(* The argument.  A connection belongs to one pool, so a session that      *)
(* holds the lock names at most one call; a call at work on an open        *)
(* session has the lock (LockInv), so there is at most one.  What it read  *)
(* of the history is therefore true until it writes, and a version it      *)
(* applies is the next one (SchemaInv).  A call that lost its connection   *)
(* knows less, but what it saw applied stays applied (ResultInv).          *)
(***************************************************************************)
EXTENDS Migrate, FiniteSetTheorems, TLAPS

(* A call uses a connection of its own pool. *)
PoolInv ==
  \A p \in Stores : session[p] # None => PoolOf[session[p]] = p

(* A call at work on an open session holds the lock, and no request of a   *)
(* dropped call is on its way over that session.                           *)
LockInv ==
  \A p \in Stores : call[p] \in Working /\ Connected(p) =>
    holder = session[p] /\ session[p] \notin queued

(* The history is a prefix of the versions, and it is in effect. *)
SchemaInv ==
  /\ schema = recorded
  /\ \E n \in 0..Versions : recorded = 1..n
  /\ \A p \in Stores : call[p] = "apply" /\ Connected(p) => recorded = 1..seen[p]

(* What a call knows is true, also after it has lost its connection. *)
ResultInv ==
  \A p \in Stores :
    /\ call[p] # "conflict" /\ result[p] # "conflict"
    /\ call[p] = "apply" => 1..seen[p] \subseteq recorded
    /\ call[p] = "unlock" /\ result[p] = "ok" => recorded = 1..Versions
    /\ call[p] = "ok" => recorded = 1..Versions

Inv ==
  /\ TypeOK /\ PoolInv /\ LockInv /\ LockHasOwner /\ SchemaInv /\ ResultInv

USE DEF Working, Connected

-----------------------------------------------------------------------------
(* Two calls at work on open sessions are one. *)
LEMMA OneAtWork ==
  ASSUME TypeOK, PoolInv, LockInv, NEW p \in Stores, NEW q \in Stores,
         call[p] \in Working, Connected(p), call[q] \in Working, Connected(q)
  PROVE  p = q
BY MigrateAssumption DEF TypeOK, PoolInv, LockInv

(* No two calls share a session. *)
LEMMA SessionsApart ==
  ASSUME PoolInv, NEW p \in Stores, NEW q \in Stores,
         session[p] # None, session[p] = session[q]
  PROVE  p = q
BY DEF PoolInv

(* The next version extends the history. *)
LEMMA IntervalGrows ==
  ASSUME NEW n \in 0..Versions, n < Versions
  PROVE  /\ n + 1 \in 0..Versions
         /\ n + 1 \notin 1..n
         /\ 1..n \cup {n + 1} = 1..(n + 1)
         /\ 1..n \cup {n + 1} \subseteq 1..Versions
         /\ 1..n # 1..Versions
<1>1. Versions \in 1..Versions /\ Versions \notin 1..n
  BY MigrateAssumption
<1> QED
  BY <1>1, MigrateAssumption

(* No process has migrated anything yet. *)
LEMMA InitInv == Init => Inv
<1> SUFFICES ASSUME Init PROVE Inv
  OBVIOUS
<1>1. TypeOK
  BY MigrateAssumption DEF Init, TypeOK
<1>2. PoolInv /\ LockInv /\ LockHasOwner /\ ResultInv
  BY MigrateAssumption DEF Init, PoolInv, LockInv, LockHasOwner, ResultInv
<1>3. recorded = 1..0 /\ 0 \in 0..Versions
  BY MigrateAssumption DEF Init
<1>4. SchemaInv
  BY <1>3 DEF Init, SchemaInv
<1> QED
  BY <1>1, <1>2, <1>4 DEF Inv

-----------------------------------------------------------------------------
(* The steps of a call. *)

(* A start-up begins by asking the pool for a connection. *)
LEMMA CallInv ==
  ASSUME Inv, NEW p \in Stores, Call(p)
  PROVE  Inv'
<1> USE DEF Inv, Call, Goto, lock, tables
<1>1. TypeOK'
  BY DEF TypeOK
<1>2. PoolInv' /\ LockInv' /\ LockHasOwner'
  BY DEF TypeOK, PoolInv, LockInv, LockHasOwner
<1>3. SchemaInv' /\ ResultInv'
  BY DEF TypeOK, SchemaInv, ResultInv
<1> QED
  BY <1>1, <1>2, <1>3

(* The pool hands out one of its own connections, or fails. *)
LEMMA GetInv ==
  ASSUME Inv, NEW p \in Stores,
         GetFails(p) \/ \E s \in Sessions : Get(p, s)
  PROVE  Inv'
<1>1. CASE GetFails(p)
  <2> USE <1>1 DEF Inv, GetFails, Fault, Goto, lock, tables
  <2>1. TypeOK'
    BY MigrateAssumption DEF TypeOK
  <2>2. PoolInv' /\ LockInv' /\ LockHasOwner'
    BY DEF TypeOK, PoolInv, LockInv, LockHasOwner
  <2>3. SchemaInv' /\ ResultInv'
    BY DEF TypeOK, SchemaInv, ResultInv
  <2> QED
    BY <2>1, <2>2, <2>3
<1>2. ASSUME NEW s \in Sessions, Get(p, s)
      PROVE  Inv'
  <2> USE <1>2 DEF Inv, Get, Goto, lock, tables
  <2>1. TypeOK'
    BY MigrateAssumption DEF TypeOK
  <2>2. PoolInv'
    BY DEF TypeOK, PoolInv
  <2>3. ASSUME NEW q \in Stores, (call[q] \in Working)'
        PROVE  q # p /\ call[q] \in Working /\ session'[q] = session[q]
    BY <2>3 DEF TypeOK
  <2>4. ASSUME NEW q \in Stores, (call[q] \in Working)', Connected(q)'
        PROVE  Connected(q)
    <3>1. session[q] # s
      BY <2>3, <2>4, MigrateAssumption DEF TypeOK, PoolInv
    <3> QED
      BY <2>3, <2>4, <3>1
  <2>5. LockInv'
    BY <2>3, <2>4 DEF LockInv
  <2>6. LockHasOwner'
    BY <2>3 DEF TypeOK, LockHasOwner
  <2>7. SchemaInv' /\ ResultInv'
    BY <2>3, <2>4 DEF TypeOK, SchemaInv, ResultInv
  <2> QED
    BY <2>1, <2>2, <2>5, <2>6, <2>7
<1> QED
  BY <1>1, <1>2

(* The lock goes to a session if no other one holds it. *)
LEMMA LockStepInv ==
  ASSUME Inv, NEW p \in Stores, Lock(p)
  PROVE  Inv'
<1> USE DEF Inv, Lock, Goto, tables
<1>1. session[p] \in Sessions /\ session[p] # None
  BY MigrateAssumption DEF TypeOK
<1>2. TypeOK'
  BY <1>1 DEF TypeOK
<1>3. PoolInv'
  BY DEF PoolInv
<1>4. ASSUME NEW q \in Stores, q # p, call[q] \in Working, Connected(q)
      PROVE  FALSE
  BY <1>1, <1>4, SessionsApart, MigrateAssumption DEF TypeOK, LockInv
<1>5. LockInv'
  BY <1>4 DEF TypeOK, LockInv
<1>6. LockHasOwner'
  <2>1. CASE holder = None
    BY <1>1, <2>1 DEF TypeOK, LockHasOwner
  <2>2. CASE holder = session[p]
    BY <1>1, <2>2, SessionsApart DEF LockHasOwner
  <2> QED
    BY <2>1, <2>2
<1>7. SchemaInv' /\ ResultInv'
  BY DEF TypeOK, SchemaInv, ResultInv
<1> QED
  BY <1>2, <1>3, <1>5, <1>6, <1>7

(* Steps that end the call or move it on without touching the lock's state *)
(* or the tables, and without a claim to know more.                        *)
LEMMA LockFailsInv ==
  ASSUME Inv, NEW p \in Stores, LockFails(p)
  PROVE  Inv'
<1> USE DEF Inv, LockFails, Return, Goto, Fault, lock, tables
<1>1. TypeOK'
  BY MigrateAssumption DEF TypeOK
<1>2. PoolInv' /\ LockInv' /\ LockHasOwner'
  BY DEF TypeOK, PoolInv, LockInv, LockHasOwner
<1>3. SchemaInv' /\ ResultInv'
  BY DEF TypeOK, SchemaInv, ResultInv
<1> QED
  BY <1>1, <1>2, <1>3

(* What is read under the lock is the recorded history. *)
LEMMA ReadInv ==
  ASSUME Inv, NEW p \in Stores, Read(p)
  PROVE  Inv'
<1> USE DEF Inv, Read, Goto, lock, tables
<1>1. PICK n \in 0..Versions : recorded = 1..n
  BY DEF SchemaInv
<1>2. Cardinality(recorded) = n
  BY <1>1, FS_Interval, MigrateAssumption
<1>3. TypeOK'
  BY <1>2 DEF TypeOK
<1>4. PoolInv' /\ LockInv' /\ LockHasOwner'
  BY DEF TypeOK, PoolInv, LockInv, LockHasOwner
<1>5. SchemaInv' /\ ResultInv'
  BY <1>1, <1>2 DEF TypeOK, SchemaInv, ResultInv
<1> QED
  BY <1>3, <1>4, <1>5

(* Whoever extends the history by the version after the ones it saw is the *)
(* only call at work, and so it keeps what the others know.                *)
LEMMA ExecuteFacts ==
  ASSUME Inv, NEW p \in Stores,
         call[p] = "apply", Connected(p), seen[p] < Versions,
         Execute(seen[p] + 1)
  PROVE  /\ seen[p] + 1 \notin schema
         /\ schema' = recorded' /\ recorded' = 1..(seen[p] + 1)
         /\ seen[p] + 1 \in 0..Versions
         /\ recorded \subseteq recorded'
         /\ recorded' \subseteq 1..Versions
         /\ recorded # 1..Versions
         /\ \A q \in Stores \ {p} : ~ (call[q] \in Working /\ Connected(q))
<1>1. seen[p] \in 0..Versions /\ schema = recorded /\ recorded = 1..seen[p]
  BY DEF Inv, TypeOK, SchemaInv
<1>2. /\ seen[p] + 1 \notin schema
      /\ schema' = recorded' /\ recorded' = 1..(seen[p] + 1)
      /\ seen[p] + 1 \in 0..Versions
      /\ recorded \subseteq recorded'
      /\ recorded' \subseteq 1..Versions
      /\ recorded # 1..Versions
  BY <1>1, IntervalGrows DEF Execute
<1>3. \A q \in Stores \ {p} : ~ (call[q] \in Working /\ Connected(q))
  BY OneAtWork DEF Inv
<1> QED
  BY <1>2, <1>3

(* A version that is not recorded does not exist either, and the two come  *)
(* together.                                                               *)
LEMMA ApplyInv ==
  ASSUME Inv, NEW p \in Stores, Apply(p)
  PROVE  Inv'
<1> USE DEF Inv, Apply, lock, tables
<1>1. seen[p] + 1 \notin schema
  BY IntervalGrows DEF TypeOK, SchemaInv
<1>2. Execute(seen[p] + 1) /\ seen' = [seen EXCEPT ![p] = seen[p] + 1]
      /\ UNCHANGED <<call, result, session, alive, holder, depth, queued, stray,
                     faults>>
  BY <1>1
<1>3. /\ schema' = recorded' /\ recorded' = 1..(seen[p] + 1)
      /\ seen[p] + 1 \in 0..Versions
      /\ recorded \subseteq recorded'
      /\ recorded' \subseteq 1..Versions
      /\ recorded # 1..Versions
      /\ \A q \in Stores \ {p} : ~ (call[q] \in Working /\ Connected(q))
  BY <1>2, ExecuteFacts
<1>4. TypeOK'
  BY <1>2, <1>3 DEF TypeOK
<1>5. PoolInv' /\ LockInv' /\ LockHasOwner'
  BY <1>2 DEF PoolInv, LockInv, LockHasOwner
<1>6. SchemaInv'
  BY <1>2, <1>3 DEF TypeOK, SchemaInv
<1>7. ResultInv'
  BY <1>2, <1>3 DEF TypeOK, ResultInv
<1> QED
  BY <1>4, <1>5, <1>6, <1>7

(* When the runner ends well, everything is recorded. *)
LEMMA ApplyEndsInv ==
  ASSUME Inv, NEW p \in Stores, ApplyEnds(p) \/ ApplyFails(p)
  PROVE  Inv'
<1> USE DEF Inv, ApplyEnds, ApplyFails, Applied, Goto, Fault, lock, tables
<1>1. PICK answer \in {"ok", "failed"} :
        /\ answer = "ok" => recorded = 1..Versions
        /\ call[p] \in {"read", "apply"}
        /\ result' = [result EXCEPT ![p] = answer]
        /\ call' = [call EXCEPT ![p] = "unlock"]
        /\ faults' \in 0..MaxFaults
        /\ UNCHANGED <<session, alive, holder, depth, queued, stray, seen, recorded,
                       schema>>
  <2>1. CASE ApplyEnds(p)
    BY <2>1 DEF TypeOK, ResultInv
  <2>2. CASE ApplyFails(p)
    BY <2>2, MigrateAssumption DEF TypeOK
  <2> QED
    BY <2>1, <2>2
<1>2. TypeOK'
  BY <1>1 DEF TypeOK
<1>3. PoolInv' /\ LockInv' /\ LockHasOwner'
  BY <1>1 DEF TypeOK, PoolInv, LockInv, LockHasOwner
<1>4. SchemaInv'
  BY <1>1 DEF TypeOK, SchemaInv
<1>5. ResultInv'
  BY <1>1 DEF TypeOK, ResultInv
<1> QED
  BY <1>2, <1>3, <1>4, <1>5

(* Who unlocks has the lock, *)
LEMMA UnlockInv ==
  ASSUME Inv, NEW p \in Stores, Unlock(p)
  PROVE  Inv'
<1> USE DEF Inv, Unlock, Return, Goto, lock, tables
<1>1. /\ session[p] \in Sessions /\ session[p] # None
      /\ holder = session[p] /\ depth \in Nat /\ depth # 0
  BY MigrateAssumption DEF TypeOK, LockInv
<1>2. TypeOK'
  BY <1>1, MigrateAssumption DEF TypeOK
<1>3. PoolInv'
  BY DEF TypeOK, PoolInv
<1>4. \A q \in Stores \ {p} : ~ (call[q] \in Working /\ Connected(q))
  BY OneAtWork
<1>5. LockInv'
  BY <1>4 DEF TypeOK, LockInv
<1>6. LockHasOwner'
  BY <1>1, SessionsApart DEF TypeOK, LockHasOwner
<1>7. SchemaInv' /\ ResultInv'
  BY DEF TypeOK, SchemaInv, ResultInv
<1> QED
  BY <1>2, <1>3, <1>5, <1>6, <1>7

(* and if that fails the session keeps it, and is a stray. *)
LEMMA UnlockFailsInv ==
  ASSUME Inv, NEW p \in Stores, UnlockFails(p)
  PROVE  Inv'
<1> USE DEF Inv, UnlockFails, Return, Goto, Fault, lock, tables
<1>1. TypeOK'
  BY MigrateAssumption DEF TypeOK
<1>2. PoolInv' /\ LockInv'
  BY DEF TypeOK, PoolInv, LockInv
<1>3. LockHasOwner'
  <2>1. CASE ~ Connected(p) /\ UNCHANGED stray
    BY <2>1 DEF TypeOK, LockHasOwner
  <2>2. CASE Connected(p) /\ stray' = stray \cup {session[p]}
    BY <2>2, SessionsApart, MigrateAssumption DEF TypeOK, LockInv, LockHasOwner
  <2> QED
    BY <2>1, <2>2
<1>4. SchemaInv' /\ ResultInv'
  BY DEF TypeOK, SchemaInv, ResultInv
<1> QED
  BY <1>1, <1>2, <1>3, <1>4

-----------------------------------------------------------------------------
(* Sessions that end, calls that are dropped, processes that die. *)

(* A commit on its way extends the history by one version or not at all,   *)
(* while its call is the only one at work.                                 *)
LEMMA LateCommitFacts ==
  ASSUME Inv, NEW p \in Stores, LateCommit(p)
  PROVE  /\ schema' = recorded' /\ recorded \subseteq recorded'
         /\ recorded' \subseteq 1..Versions
         /\ \E n \in 0..Versions : recorded' = 1..n
         /\ recorded = 1..Versions => recorded' = 1..Versions
         /\ \A q \in Stores \ {p} :
              call[q] = "apply" /\ Connected(q) => recorded' = recorded
<1>1. CASE UNCHANGED tables
  BY <1>1 DEF tables, Inv, TypeOK, SchemaInv
<1>2. CASE /\ call[p] = "apply" /\ Connected(p) /\ seen[p] < Versions
           /\ Execute(seen[p] + 1)
  <2>1. /\ schema' = recorded' /\ recorded' = 1..(seen[p] + 1)
        /\ seen[p] + 1 \in 0..Versions
        /\ recorded \subseteq recorded'
        /\ recorded' \subseteq 1..Versions
        /\ recorded # 1..Versions
        /\ \A q \in Stores \ {p} : ~ (call[q] \in Working /\ Connected(q))
    BY <1>2, ExecuteFacts
  <2> QED
    BY <2>1
<1> QED
  BY <1>1, <1>2 DEF LateCommit

(* Ending sessions keeps what is said of the lock, whatever call goes on   *)
(* to, as long as no call is at work that was not.                         *)
LEMMA CloseFacts ==
  ASSUME Inv, NEW S \in SUBSET Sessions, Close(S)
  PROVE  /\ alive' \subseteq alive /\ alive' \subseteq Sessions
         /\ queued' \subseteq alive' /\ queued' \subseteq queued
         /\ stray' \subseteq Sessions
         /\ holder' \in alive' \cup {None}
         /\ depth' \in Nat /\ (depth' = 0 <=> holder' = None)
         /\ holder' # None => holder' = holder /\ depth' = depth
         /\ holder' # None /\ holder \in stray => holder' \in stray'
         /\ holder \in alive' => holder' = holder
BY MigrateAssumption DEF Inv, TypeOK, Close

(* A commit whose answer is lost came through as a whole or not at all. *)
LEMMA CommitReplyLostInv ==
  ASSUME Inv, NEW p \in Stores, CommitReplyLost(p)
  PROVE  Inv'
<1> USE DEF Inv, CommitReplyLost, Applied, Goto, Fault
<1>1. session[p] \in Sessions /\ {session[p]} \in SUBSET Sessions
  BY MigrateAssumption DEF TypeOK
<1>2. /\ schema' = recorded' /\ recorded \subseteq recorded'
      /\ recorded' \subseteq 1..Versions
      /\ \E n \in 0..Versions : recorded' = 1..n
      /\ recorded = 1..Versions => recorded' = 1..Versions
      /\ \A q \in Stores \ {p} :
           call[q] = "apply" /\ Connected(q) => recorded' = recorded
  BY LateCommitFacts
<1>3. /\ alive' \subseteq alive /\ alive' \subseteq Sessions
      /\ queued' \subseteq alive' /\ queued' \subseteq queued
      /\ stray' \subseteq Sessions
      /\ holder' \in alive' \cup {None}
      /\ depth' \in Nat /\ (depth' = 0 <=> holder' = None)
      /\ holder' # None => holder' = holder /\ depth' = depth
      /\ holder' # None /\ holder \in stray => holder' \in stray'
      /\ holder \in alive' => holder' = holder
  BY <1>1, CloseFacts
<1>4. /\ call' = [call EXCEPT ![p] = "unlock"]
      /\ result' = [result EXCEPT ![p] = "failed"]
      /\ call[p] = "apply" /\ faults' \in 0..MaxFaults
      /\ UNCHANGED <<session, seen>>
  BY MigrateAssumption DEF TypeOK
<1>5. TypeOK'
  BY <1>2, <1>3, <1>4 DEF TypeOK
<1>6. PoolInv' /\ LockInv'
  BY <1>3, <1>4 DEF TypeOK, PoolInv, LockInv
<1>7. LockHasOwner'
  BY <1>3, <1>4 DEF TypeOK, LockHasOwner
<1>8. SchemaInv' /\ ResultInv'
  BY <1>2, <1>3, <1>4 DEF TypeOK, SchemaInv, ResultInv
<1> QED
  BY <1>5, <1>6, <1>7, <1>8

(* A connection that breaks gives back what it holds. *)
LEMMA LoseConnectionInv ==
  ASSUME Inv, NEW s \in Sessions, LoseConnection(s)
  PROVE  Inv'
<1> USE DEF Inv, LoseConnection, Fault, tables
<1>1. /\ alive' \subseteq alive /\ alive' \subseteq Sessions
      /\ queued' \subseteq alive' /\ queued' \subseteq queued
      /\ stray' \subseteq Sessions
      /\ holder' \in alive' \cup {None}
      /\ depth' \in Nat /\ (depth' = 0 <=> holder' = None)
      /\ holder' # None => holder' = holder /\ depth' = depth
      /\ holder' # None /\ holder \in stray => holder' \in stray'
      /\ holder \in alive' => holder' = holder
  <2>1. {s} \in SUBSET Sessions
    OBVIOUS
  <2> QED
    BY <2>1, CloseFacts
<1>2. faults' \in 0..MaxFaults
  BY MigrateAssumption DEF TypeOK
<1>3. TypeOK'
  BY <1>1, <1>2 DEF TypeOK
<1>4. PoolInv' /\ LockInv' /\ LockHasOwner'
  BY <1>1 DEF TypeOK, PoolInv, LockInv, LockHasOwner
<1>5. SchemaInv' /\ ResultInv'
  BY <1>1 DEF TypeOK, SchemaInv, ResultInv
<1> QED
  BY <1>3, <1>4, <1>5

(* A process that dies loses all its connections. *)
LEMMA CrashInv ==
  ASSUME Inv, NEW p \in Stores, Crash(p)
  PROVE  Inv'
<1> USE DEF Inv, Crash, Return, Goto, Fault
<1>1. {s \in alive : PoolOf[s] = p} \in SUBSET Sessions
  BY DEF TypeOK
<1>2. /\ schema' = recorded' /\ recorded \subseteq recorded'
      /\ recorded' \subseteq 1..Versions
      /\ \E n \in 0..Versions : recorded' = 1..n
      /\ recorded = 1..Versions => recorded' = 1..Versions
      /\ \A q \in Stores \ {p} :
           call[q] = "apply" /\ Connected(q) => recorded' = recorded
  BY LateCommitFacts
<1>3. /\ alive' \subseteq alive /\ alive' \subseteq Sessions
      /\ queued' \subseteq alive' /\ queued' \subseteq queued
      /\ stray' \subseteq Sessions
      /\ holder' \in alive' \cup {None}
      /\ depth' \in Nat /\ (depth' = 0 <=> holder' = None)
      /\ holder' # None => holder' = holder /\ depth' = depth
      /\ holder' # None /\ holder \in stray => holder' \in stray'
      /\ holder \in alive' => holder' = holder
  BY <1>1, CloseFacts
<1>4. /\ call' = [call EXCEPT ![p] = "idle"]
      /\ session' = [session EXCEPT ![p] = None]
      /\ faults' \in 0..MaxFaults
      /\ UNCHANGED <<result, seen>>
  BY MigrateAssumption DEF TypeOK
<1>5. TypeOK'
  BY <1>2, <1>3, <1>4 DEF TypeOK
<1>6. PoolInv' /\ LockInv'
  BY <1>3, <1>4, MigrateAssumption DEF TypeOK, PoolInv, LockInv
<1>7. LockHasOwner'
  <2>1. ASSUME holder' # None
        PROVE  PoolOf[holder] # p
    BY <2>1, <1>3 DEF TypeOK, Close
  <2>2. ASSUME holder' # None, session[p] = holder
        PROVE  FALSE
    BY <2>1, <2>2, <1>3 DEF PoolInv
  <2> QED
    BY <1>3, <1>4, <2>2 DEF TypeOK, LockHasOwner
<1>8. SchemaInv' /\ ResultInv'
  BY <1>2, <1>3, <1>4, MigrateAssumption DEF TypeOK, SchemaInv, ResultInv
<1> QED
  BY <1>5, <1>6, <1>7, <1>8

(* A start-up that is dropped leaves its session with the lock, or waiting *)
(* for it.                                                                 *)
LEMMA DropInv ==
  ASSUME Inv, NEW p \in Stores, Drop(p)
  PROVE  Inv'
<1> USE DEF Inv, Drop, Return, Goto, Fault
<1>1. session[p] \in Sessions /\ session[p] # None
  BY MigrateAssumption DEF TypeOK
<1>2. /\ schema' = recorded' /\ recorded \subseteq recorded'
      /\ recorded' \subseteq 1..Versions
      /\ \E n \in 0..Versions : recorded' = 1..n
      /\ recorded = 1..Versions => recorded' = 1..Versions
      /\ \A q \in Stores \ {p} :
           call[q] = "apply" /\ Connected(q) => recorded' = recorded
  BY LateCommitFacts
<1>3. /\ call' = [call EXCEPT ![p] = "idle"]
      /\ session' = [session EXCEPT ![p] = None]
      /\ faults' \in 0..MaxFaults
      /\ UNCHANGED <<result, alive, holder, depth, seen>>
  BY MigrateAssumption DEF TypeOK
<1>4. /\ queued' \subseteq queued \cup {session[p]}
      /\ stray \subseteq stray' /\ stray' \subseteq stray \cup {session[p]}
      /\ call[p] \in Working => session[p] \in stray'
  BY DEF TypeOK
<1>5. TypeOK'
  BY <1>1, <1>2, <1>3, <1>4 DEF TypeOK
<1>6. PoolInv'
  BY <1>3 DEF TypeOK, PoolInv
<1>7. LockInv'
  BY <1>1, <1>3, <1>4, SessionsApart, MigrateAssumption DEF TypeOK, LockInv
<1>8. LockHasOwner'
  BY <1>3, <1>4 DEF TypeOK, LockHasOwner
<1>9. SchemaInv' /\ ResultInv'
  BY <1>2, <1>3, MigrateAssumption DEF TypeOK, SchemaInv, ResultInv
<1> QED
  BY <1>5, <1>6, <1>7, <1>8, <1>9

(* A request whose start-up is gone is granted to its session. *)
LEMMA GrantDroppedInv ==
  ASSUME Inv, NEW s \in Sessions, GrantDropped(s)
  PROVE  Inv'
<1> USE DEF Inv, GrantDropped, tables
<1>1. TypeOK'
  BY MigrateAssumption DEF TypeOK
<1>2. PoolInv' /\ LockInv' /\ LockHasOwner'
  BY MigrateAssumption DEF TypeOK, PoolInv, LockInv, LockHasOwner
<1>3. SchemaInv' /\ ResultInv'
  BY DEF TypeOK, SchemaInv, ResultInv
<1> QED
  BY <1>1, <1>2, <1>3

-----------------------------------------------------------------------------
(* Every step preserves the invariant. *)
LEMMA StepInv == Inv /\ [Next]_vars => Inv'
<1> SUFFICES ASSUME Inv, [Next]_vars PROVE Inv'
  OBVIOUS
<1>1. CASE UNCHANGED vars
  <2> USE <1>1 DEF Inv, vars
  <2>1. TypeOK' /\ PoolInv' /\ LockInv'
    BY DEF TypeOK, PoolInv, LockInv
  <2>2. LockHasOwner' /\ SchemaInv' /\ ResultInv'
    BY DEF LockHasOwner, SchemaInv, ResultInv
  <2> QED
    BY <2>1, <2>2
<1>2. ASSUME NEW p \in Stores, Call(p) \/ CallStep(p) \/ Drop(p) \/ Crash(p)
      PROVE  Inv'
  BY <1>2, CallInv, GetInv, LockStepInv, LockFailsInv, ReadInv, ApplyInv,
     ApplyEndsInv, CommitReplyLostInv, UnlockInv, UnlockFailsInv, DropInv, CrashInv
  DEF CallStep
<1>3. ASSUME NEW s \in Sessions, GrantDropped(s) \/ LoseConnection(s)
      PROVE  Inv'
  BY <1>3, GrantDroppedInv, LoseConnectionInv
<1> QED
  BY <1>1, <1>2, <1>3 DEF Next

(* The inductive invariant holds throughout. *)
THEOREM Invariance == Spec => []Inv
BY InitInv, StepInv, PTL DEF Spec

(* migrate, for any number of processes: what the server and the calls     *)
(* remember is well typed; the lock is held some number of times exactly   *)
(* if somebody holds it, and only by an open session.                      *)
THEOREM TypeCorrect == Spec => []TypeOK
<1>1. Inv => TypeOK
  BY DEF Inv
<1> QED
  BY <1>1, Invariance, PTL

(* The history a call has read is true when it applies the next version,   *)
(* so that no startup ever applies a version twice.                        *)
THEOREM StartupsExclude == Spec => []HistoryStaysCurrent
<1>1. Inv => HistoryStaysCurrent
  BY DEF Inv, SchemaInv, ResultInv, HistoryStaysCurrent
<1> QED
  BY <1>1, Invariance, PTL

(* The versions recorded are those in effect, they are the first ones, and *)
(* a call that reported success leaves all of them.                        *)
THEOREM MigrationsWhole == Spec => []NoHalfMigration
<1>1. Inv => NoHalfMigration
  BY DEF Inv, SchemaInv, ResultInv, NoHalfMigration
<1> QED
  BY <1>1, Invariance, PTL

(* The advisory lock is held by a call at work, once, or was left behind   *)
(* by a call that was dropped or could not unlock.                         *)
THEOREM LockOwned == Spec => []LockHasOwner
<1>1. Inv => LockHasOwner
  BY DEF Inv
<1> QED
  BY <1>1, Invariance, PTL
=============================================================================
