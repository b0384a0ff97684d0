------------------------------ MODULE Migrate ------------------------------
(***************************************************************************)
(* Concurrent startups: PostgresStore::migrate called by several processes *)
(* that share a prefix, each over a connection of its own pool.  The call  *)
(* takes a session-level advisory lock, lets refinery read the history     *)
(* table and apply what is missing, one transaction per version, and       *)
(* unlocks.                                                                *)
(*                                                                         *)
(* The lock belongs to the session, not to the call: it outlives a call    *)
(* that is dropped or whose unlock fails, because the connection goes back *)
(* to the pool (RecyclingMethod::Fast resets nothing); it can be taken     *)
(* again by the same session; and it is gone when the session ends.        *)
(***************************************************************************)
EXTENDS Naturals, FiniteSets

CONSTANTS
  None,
  Stores,    \* processes that start up
  Sessions,  \* connection slots of their pools
  PoolOf,    \* [Sessions -> Stores]
  Versions,  \* number of migrations (3 in the code)
  MaxFaults  \* bound: failures, dropped calls, crashes, lost connections

ASSUME MigrateAssumption ==
  /\ PoolOf \in [Sessions -> Stores]
  /\ None \notin Sessions
  /\ Versions \in Nat
  /\ MaxFaults \in Nat

VARIABLES
  call,      \* per store: where its call of migrate is
  result,    \* per store: the result of migrations::apply
  session,   \* per store: the session its call uses, or None
  alive,     \* the sessions the server has
  holder,    \* the session that holds the advisory lock, or None
  depth,     \* how often it holds it
  queued,    \* sessions with a lock request in flight whose call is gone
  seen,      \* per store: the version its call has got to
  recorded,  \* the history table: the versions recorded as applied
  schema,    \* the versions whose DDL is in effect
  stray,     \* history: sessions that went back to the pool with the lock
  faults

vars == <<call, result, session, alive, holder, depth, queued, seen, recorded,
          schema, stray, faults>>
lock == <<holder, depth, queued, stray>>
tables == <<recorded, schema>>

Working == {"read", "apply", "unlock"}

TypeOK ==
  /\ call \in [Stores -> {"idle", "connect", "lock", "ok", "failed",
                          "conflict"} \cup Working]
  /\ result \in [Stores -> {"ok", "failed", "conflict"}]
  /\ session \in [Stores -> Sessions \cup {None}]
  /\ alive \subseteq Sessions
  /\ holder \in alive \cup {None}
  /\ depth \in Nat /\ (depth = 0 <=> holder = None)
  /\ queued \subseteq alive
  /\ seen \in [Stores -> 0..Versions]
  /\ recorded \subseteq 1..Versions /\ schema \subseteq 1..Versions
  /\ stray \subseteq Sessions
  /\ faults \in 0..MaxFaults

Init ==
  /\ call = [p \in Stores |-> "idle"]
  /\ result = [p \in Stores |-> "ok"]
  /\ session = [p \in Stores |-> None]
  /\ alive = {}
  /\ holder = None /\ depth = 0
  /\ queued = {}
  /\ seen = [p \in Stores |-> 0]
  /\ recorded = {} /\ schema = {}
  /\ stray = {}
  /\ faults = 0

-----------------------------------------------------------------------------
Fault == faults < MaxFaults /\ faults' = faults + 1

Connected(p) == session[p] \in alive

Goto(p, where) == call' = [call EXCEPT ![p] = where]

(* The call is over: its connection goes back to the pool as it is. *)
Return(p, answer) ==
  /\ Goto(p, answer)
  /\ session' = [session EXCEPT ![p] = None]

(* migrations::apply is over: on to the unlock, whatever it returned. *)
Applied(p, answer) ==
  /\ result' = [result EXCEPT ![p] = answer]
  /\ Goto(p, "unlock")

(* The server ends the sessions in S, with their locks and requests. *)
Close(S) ==
  /\ alive' = alive \ S
  /\ queued' = queued \ S
  /\ stray' = stray \ S
  /\ holder' = IF holder \in S THEN None ELSE holder
  /\ depth' = IF holder \in S THEN 0 ELSE depth

-----------------------------------------------------------------------------
(* migrate *)

Call(p) ==
  /\ call[p] \in {"idle", "ok", "failed", "conflict"}
  /\ Goto(p, "connect")
  /\ UNCHANGED <<result, session, alive, lock, seen, tables, faults>>

(* pool.get: an idle connection, or a new one in its place if it is closed *)
Get(p, s) ==
  /\ call[p] = "connect"
  /\ PoolOf[s] = p
  /\ session' = [session EXCEPT ![p] = s]
  /\ alive' = alive \cup {s}
  /\ Goto(p, "lock")
  /\ UNCHANGED <<result, lock, seen, tables, faults>>

GetFails(p) ==
  /\ call[p] = "connect"
  /\ Fault
  /\ Goto(p, "failed")
  /\ UNCHANGED <<result, session, alive, lock, seen, tables>>

FaultyLock(p) ==
  /\ call[p] = "lock" /\ Connected(p) /\ session[p] \notin queued
  /\ holder' = session[p]
  /\ depth' = depth + 1
  /\ Goto(p, "read")
  /\ UNCHANGED <<result, session, alive, queued, seen, tables, stray, faults>>

(* pg_advisory_lock waits for other sessions, not for its own. *)
Lock(p) ==
  /\ call[p] = "lock" /\ Connected(p) /\ session[p] \notin queued
  /\ holder \in {None, session[p]}
  /\ holder' = session[p]
  /\ depth' = depth + 1
  /\ Goto(p, "read")
  /\ UNCHANGED <<result, session, alive, queued, seen, tables, stray, faults>>

(* The lock statement fails, with the connection or without it. *)
LockFails(p) ==
  /\ call[p] = "lock"
  /\ \/ ~ Connected(p) /\ UNCHANGED faults
     \/ Connected(p) /\ Fault
  /\ Return(p, "failed")
  /\ UNCHANGED <<result, alive, lock, seen, tables>>

(* The runner creates the history table if need be and reads it. *)
Read(p) ==
  /\ call[p] = "read" /\ Connected(p)
  /\ seen' = [seen EXCEPT ![p] = Cardinality(recorded)]
  /\ Goto(p, "apply")
  /\ UNCHANGED <<result, session, alive, lock, tables, faults>>

FaultyExecute(v) ==
  /\ schema' = schema \cup {v}
  /\ UNCHANGED recorded

(* PgMigrationClient::execute: the DDL and the history row, committed *)
(* together.                                                          *)
Execute(v) ==
  /\ schema' = schema \cup {v}
  /\ recorded' = recorded \cup {v}

(* The next missing version.  Creating what exists already is an error. *)
Apply(p) ==
  /\ call[p] = "apply" /\ Connected(p) /\ seen[p] < Versions
  /\ LET v == seen[p] + 1 IN
       IF v \in schema
       THEN Applied(p, "conflict") /\ UNCHANGED <<seen, tables>>
       ELSE /\ Execute(v)
            /\ seen' = [seen EXCEPT ![p] = v]
            /\ UNCHANGED <<call, result>>
  /\ UNCHANGED <<session, alive, lock, faults>>

ApplyEnds(p) ==
  /\ call[p] = "apply" /\ seen[p] = Versions
  /\ Applied(p, "ok")
  /\ UNCHANGED <<session, alive, lock, seen, tables, faults>>

(* A statement of apply fails and its transaction is rolled back. *)
ApplyFails(p) ==
  /\ call[p] \in {"read", "apply"}
  /\ \/ ~ Connected(p) /\ UNCHANGED faults
     \/ Connected(p) /\ Fault
  /\ Applied(p, "failed")
  /\ UNCHANGED <<session, alive, lock, seen, tables>>

(* A commit that is on its way when nobody listens any more goes through, *)
(* or it does not.                                                         *)
LateCommit(p) ==
  \/ /\ call[p] = "apply" /\ Connected(p) /\ seen[p] < Versions
     /\ seen[p] + 1 \notin schema
     /\ Execute(seen[p] + 1)
  \/ UNCHANGED tables

(* The connection breaks and the answer to the commit is lost with it. *)
CommitReplyLost(p) ==
  /\ call[p] = "apply" /\ Connected(p)
  /\ Fault
  /\ LateCommit(p)
  /\ Applied(p, "failed")
  /\ Close({session[p]})
  /\ UNCHANGED <<session, seen>>

FaultyUnlock(p) ==
  /\ call[p] = "unlock" /\ Connected(p)
  /\ IF result[p] = "ok"
     THEN /\ depth' = depth - 1
          /\ holder' = IF depth = 1 THEN None ELSE holder
     ELSE UNCHANGED <<holder, depth>>
  /\ Return(p, result[p])
  /\ UNCHANGED <<result, alive, queued, seen, tables, stray, faults>>

Unlock(p) ==
  /\ call[p] = "unlock" /\ Connected(p)
  /\ depth' = depth - 1
  /\ holder' = IF depth = 1 THEN None ELSE holder
  /\ Return(p, result[p])
  /\ UNCHANGED <<result, alive, queued, seen, tables, stray, faults>>

(* The unlock fails, which is only logged. *)
UnlockFails(p) ==
  /\ call[p] = "unlock"
  /\ \/ ~ Connected(p) /\ UNCHANGED <<stray, faults>>
     \/ Connected(p) /\ Fault /\ stray' = stray \cup {session[p]}
  /\ Return(p, result[p])
  /\ UNCHANGED <<result, alive, holder, depth, queued, seen, tables>>

-----------------------------------------------------------------------------
(* The environment. *)

(* The caller drops the future, by a timeout say: what the session holds   *)
(* it keeps, and a lock request on its way is granted some time.           *)
Drop(p) ==
  /\ call[p] \in {"lock"} \cup Working
  /\ Connected(p)
  /\ Fault
  /\ Return(p, "idle")
  /\ IF call[p] = "lock"
     THEN queued' = queued \cup {session[p]} /\ UNCHANGED stray
     ELSE stray' = stray \cup {session[p]} /\ UNCHANGED queued
  /\ LateCommit(p)
  /\ UNCHANGED <<result, alive, holder, depth, seen>>

GrantDropped(s) ==
  /\ s \in queued
  /\ holder \in {None, s}
  /\ holder' = s
  /\ depth' = depth + 1
  /\ queued' = queued \ {s}
  /\ stray' = stray \cup {s}
  /\ UNCHANGED <<call, result, session, alive, seen, tables, faults>>

Crash(p) ==
  /\ Fault
  /\ Close({s \in alive : PoolOf[s] = p})
  /\ Return(p, "idle")
  /\ LateCommit(p)
  /\ UNCHANGED <<result, seen>>

LoseConnection(s) ==
  /\ s \in alive
  /\ Fault
  /\ Close({s})
  /\ UNCHANGED <<call, result, session, seen, tables>>

-----------------------------------------------------------------------------
CallStep(p) ==
  \/ \E s \in Sessions : Get(p, s)
  \/ GetFails(p) \/ Lock(p) \/ LockFails(p)
  \/ Read(p) \/ Apply(p) \/ ApplyEnds(p) \/ ApplyFails(p) \/ CommitReplyLost(p)
  \/ Unlock(p) \/ UnlockFails(p)

Next ==
  \/ \E p \in Stores : Call(p) \/ CallStep(p) \/ Drop(p) \/ Crash(p)
  \/ \E s \in Sessions : GrantDropped(s) \/ LoseConnection(s)

Spec == Init /\ [][Next]_vars

(* A call under way goes on, and PostgreSQL serves the waiters of a lock   *)
(* in turn, so one that waits is not passed over for ever.                 *)
FairSpec ==
  /\ Spec
  /\ \A p \in Stores : WF_vars(CallStep(p)) /\ SF_vars(Lock(p))

-----------------------------------------------------------------------------
(* Properties. *)

(* Startups do not get in each other's way: what a call read of the        *)
(* history is still true when it applies the next version, so no version   *)
(* is applied twice, although the history is read before and outside the   *)
(* transactions that change it.                                            *)
HistoryStaysCurrent ==
  \A p \in Stores :
    /\ call[p] = "apply" /\ Connected(p) => recorded = 1..seen[p]
    /\ call[p] # "conflict"

(* Whenever a process dies, the versions recorded are those in effect, and *)
(* they are the first ones: the next startup can go on from there.  A call *)
(* that reported success found or left all of them.                        *)
NoHalfMigration ==
  /\ schema = recorded
  /\ \E n \in 0..Versions : recorded = 1..n
  /\ \A p \in Stores : call[p] = "ok" => recorded = 1..Versions

(* The lock is held by the session of a call at work on the schema, or it  *)
(* was left behind by a call that was dropped or could not unlock: no      *)
(* failed migration keeps it, and none that took it twice.                 *)
LockHasOwner ==
  holder # None =>
    \/ holder \in stray
    \/ /\ depth = 1
       /\ \E p \in Stores : session[p] = holder /\ call[p] \in Working

(* Every startup gets through, or fails and says so, as long as no lock is *)
(* left behind.                                                            *)
MigrateReturns ==
  [](stray = {} /\ queued = {}) =>
    \A p \in Stores :
      call[p] = "connect" ~> call[p] \in {"idle", "ok", "failed"}
=============================================================================
