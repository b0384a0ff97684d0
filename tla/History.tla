------------------------------ MODULE History ------------------------------
(***************************************************************************)
(* The read side: Queue::jobs walked page by page with the keyset cursor,  *)
(* and Queue::stats, each against a table that enqueues, claims,           *)
(* settlements and cleanups keep changing between the statements.          *)
(*                                                                         *)
(* An id is a natural number in ULID order.  Its created_at is stamped by  *)
(* the enqueuing process, so stamps of different processes may be equal or *)
(* in another order than the inserts.  Readers do not disturb each other:  *)
(* one of them at a time is enough.                                        *)
(***************************************************************************)
EXTENDS Store, Sequences

CONSTANTS
  Jobs,     \* ids
  Kinds,
  KindOf,   \* [Jobs -> Kinds]
  Stamps,   \* values created_at may have
  Filters,  \* the HistoryFilters walked, without their cursor
  MaxTime   \* bound: last tick of the clock

ASSUME HistoryAssumption ==
  /\ Jobs \subseteq Nat /\ IsFiniteSet(Jobs)
  /\ KindOf \in [Jobs -> Kinds]
  /\ Stamps \subseteq Nat /\ None \notin Stamps \X Jobs
  /\ Filters \subseteq [kind  : Kinds \cup {None}, status : Stored \cup {None},
                        since : Nat \cup {None}, until : Nat \cup {None},
                        limit : (Nat \ {0}) \cup {None}]
  /\ MaxTime \in Nat

VARIABLES
  status,       \* per id, a Status of Store
  created_at,   \* per id; kept here when the row is gone
  finished_at,  \* per id, None unless completed or dead
  clock,
  pc,           \* the reader: "idle", "walking", "walked", or in stats
                \* "pending", "claimed", "dead" (its next statement), "counted"
  filter,       \* the filter of the walk, or None
  cursor,       \* created_before: <<created_at, id>>, or None at the start
  pages,        \* the pages received so far, as sets of ids
  called_at,    \* Utc::now() in stats
  snapshot,     \* the Snapshot stats fills
  steady        \* history: ids that matched the filter since the walk began,
                \* or kept their status since stats was called

table  == <<status, created_at, finished_at>>
reader == <<pc, filter, cursor, pages, called_at, snapshot>>
vars   == <<table, clock, reader, steady>>

Empty == [pending |-> [k \in Kinds |-> 0], oldest |-> [k \in Kinds |-> None],
          claimed |-> 0, dead |-> [k \in Kinds |-> 0]]

TypeOK ==
  /\ status \in [Jobs -> Status]
  /\ created_at \in [Jobs -> Stamps \cup {0}]
  /\ finished_at \in [Jobs -> (0..MaxTime) \cup {None}]
  /\ clock \in 0..MaxTime
  /\ pc \in {"idle", "walking", "walked", "pending", "claimed", "dead",
             "counted"}
  /\ filter \in Filters \cup {None}
  /\ cursor \in (Stamps \X Jobs) \cup {None}
  /\ pages \in Seq(SUBSET Jobs)
  /\ called_at \in 0..MaxTime
  /\ snapshot \in [pending : [Kinds -> Nat], oldest : [Kinds -> Nat \cup {None}],
                   claimed : Nat, dead : [Kinds -> Nat]]
  /\ steady \subseteq Jobs

Init ==
  /\ status = [j \in Jobs |-> "absent"]
  /\ created_at = [j \in Jobs |-> 0]
  /\ finished_at = [j \in Jobs |-> None]
  /\ clock = 0
  /\ pc = "idle"
  /\ filter = None
  /\ cursor = None
  /\ pages = << >>
  /\ called_at = 0
  /\ snapshot = Empty
  /\ steady = {}

-----------------------------------------------------------------------------
(* query_jobs *)

(* The WHERE clause without the cursor; a NULL finished_at fails both      *)
(* comparisons.                                                            *)
Matches(j, f, st, fin) ==
  /\ st \in Stored
  /\ f.kind \in {None, KindOf[j]}
  /\ f.status \in {None, st}
  /\ f.since # None => fin # None /\ fin >= f.since
  /\ f.until # None => fin # None /\ fin < f.until

Matching(f) == {j \in Jobs : Matches(j, f, status[j], finished_at[j])}

(* Row-value comparison of (created_at, id). *)
Less(a, b) == a[1] < b[1] \/ (a[1] = b[1] /\ a[2] < b[2])

Key(j) == <<created_at[j], j>>

FaultyOlder(j, c) == c # None => created_at[j] < c[1]
FaultyOlderOrEqual(j, c) == c # None => created_at[j] <= c[1]

(* The keyset bound. *)
Older(j, c) == c # None => Less(Key(j), c)

(* page is what the query returns: ORDER BY created_at DESC, id DESC, the  *)
(* first f.limit of the rows older than c.                                 *)
IsPage(page, f, c) ==
  LET rows == {j \in Matching(f) : Older(j, c)}
  IN  /\ page \subseteq rows
      /\ f.limit = None => page = rows
      /\ f.limit # None =>
           /\ Cardinality(page) <= f.limit
           /\ page # rows => Cardinality(page) = f.limit
      /\ \A j \in page, k \in rows \ page : Less(Key(k), Key(j))

(* The cursor for the next page is the last row of this one. *)
IsLast(page, c) ==
  \E j \in page : c = Key(j) /\ \A k \in page \ {j} : Less(c, Key(k))

IsFull(page, f) == f.limit # None /\ Cardinality(page) = f.limit

WalkBegins(f) ==
  /\ pc = "idle"
  /\ pc' = "walking"
  /\ filter' = f
  /\ cursor' = None
  /\ pages' = << >>
  /\ steady' = Matching(f)
  /\ UNCHANGED <<table, clock, called_at, snapshot>>

(* The caller stops at the first page that is not full. *)
NextPage(page) ==
  /\ pc = "walking"
  /\ IsPage(page, filter, cursor)
  /\ pages' = Append(pages, page)
  /\ IF IsFull(page, filter)
     THEN /\ \E c \in Stamps \X Jobs : IsLast(page, c) /\ cursor' = c
          /\ UNCHANGED pc
     ELSE pc' = "walked" /\ UNCHANGED cursor
  /\ UNCHANGED <<table, clock, filter, called_at, snapshot, steady>>

-----------------------------------------------------------------------------
(* stats: three statements, each its own snapshot of the table. *)

InStatus(st) == {j \in Jobs : status[j] = st}
PerKind(S) == [k \in Kinds |-> Cardinality({j \in S : KindOf[j] = k})]

StatsCalled ==
  /\ pc = "idle"
  /\ pc' = "pending"
  /\ called_at' = clock
  /\ snapshot' = Empty
  /\ steady' = Jobs
  /\ UNCHANGED <<table, clock, filter, cursor, pages>>

FaultyAge(created) == called_at - created

(* An enqueue stamped later than the call has age zero. *)
Age(created) == IF created <= called_at THEN called_at - created ELSE 0

OldestAge(S) ==
  IF S = {} THEN None
  ELSE CHOOSE a \in {Age(created_at[j]) : j \in S} :
         \A j \in S : Age(created_at[j]) <= a

CountPending ==
  /\ pc = "pending"
  /\ pc' = "claimed"
  /\ snapshot' =
       [snapshot EXCEPT
          !.pending = PerKind(InStatus(Pending)),
          !.oldest = [k \in Kinds |->
                        OldestAge({j \in InStatus(Pending) : KindOf[j] = k})]]
  /\ UNCHANGED <<table, clock, filter, cursor, pages, called_at, steady>>

CountClaimed ==
  /\ pc = "claimed"
  /\ pc' = "dead"
  /\ snapshot' = [snapshot EXCEPT !.claimed = Cardinality(InStatus(Claimed))]
  /\ UNCHANGED <<table, clock, filter, cursor, pages, called_at, steady>>

FaultyCountDead ==
  /\ pc = "dead"
  /\ pc' = "counted"
  /\ snapshot' = [snapshot EXCEPT !.dead =
                    PerKind({j \in Jobs : finished_at[j] # None})]
  /\ UNCHANGED <<table, clock, filter, cursor, pages, called_at, steady>>

CountDead ==
  /\ pc = "dead"
  /\ pc' = "counted"
  /\ snapshot' = [snapshot EXCEPT !.dead = PerKind(InStatus(Dead))]
  /\ UNCHANGED <<table, clock, filter, cursor, pages, called_at, steady>>

(* The reader has its answer, or a statement failed, or it lost interest. *)
ReaderLeaves ==
  /\ pc # "idle"
  /\ pc' = "idle"
  /\ filter' = None
  /\ cursor' = None
  /\ pages' = << >>
  /\ snapshot' = Empty
  /\ called_at' = 0
  /\ steady' = {}
  /\ UNCHANGED <<table, clock>>

-----------------------------------------------------------------------------
(* The rest of the system, one transaction at a time. *)

(* The rows of S get status st and finished_at fin. *)
Write(S, st, fin) ==
  /\ status' = [j \in Jobs |-> IF j \in S THEN st ELSE status[j]]
  /\ finished_at' = [j \in Jobs |-> IF j \in S THEN fin ELSE finished_at[j]]
  /\ steady' =
       IF pc \in {"walking", "walked"}
       THEN {j \in steady : j \in S => Matches(j, filter, st, fin)}
       ELSE steady \ S
  /\ UNCHANGED <<clock, reader>>

Enqueue(j, stamp) ==
  /\ status[j] = "absent"
  /\ Write({j}, Pending, None)
  /\ created_at' = [created_at EXCEPT ![j] = stamp]

ClaimNext(j) ==
  /\ status[j] = Pending
  /\ Write({j}, Claimed, None)
  /\ UNCHANGED created_at

(* settle and recover *)
EndClaim(j, st) ==
  /\ status[j] = Claimed
  /\ Write({j}, st, IF st \in Terminal THEN clock ELSE None)
  /\ UNCHANGED created_at

Cleanup(cutoff, kind, st) ==
  LET doomed == {j \in Jobs :
                   /\ Removable([status |-> status[j],
                                 finished_at |-> finished_at[j]], cutoff, st)
                   /\ kind \in {None, KindOf[j]}}
  IN  /\ doomed # {}
      /\ Write(doomed, "deleted", None)
      /\ UNCHANGED created_at

Tick ==
  /\ clock < MaxTime
  /\ clock' = clock + 1
  /\ UNCHANGED <<table, reader, steady>>

Reading ==
  \/ \E f \in Filters : WalkBegins(f)
  \/ \E page \in SUBSET Jobs : NextPage(page)
  \/ StatsCalled \/ CountPending \/ CountClaimed \/ CountDead
  \/ ReaderLeaves

Writing ==
  \/ \E j \in Jobs :
       \/ \E stamp \in Stamps : Enqueue(j, stamp)
       \/ ClaimNext(j)
       \/ \E st \in {Pending, Completed, Dead} : EndClaim(j, st)
  \/ \E cutoff \in 0..MaxTime, kind \in Kinds \cup {None},
        st \in Terminal \cup {None} : Cleanup(cutoff, kind, st)

Next == Reading \/ Writing \/ Tick

Spec == Init /\ [][Next]_vars

-----------------------------------------------------------------------------
(* Properties. *)

(* A walk goes strictly back in time, across pages too, whatever is        *)
(* inserted or removed between requests: nothing is shown twice.           *)
WalkNeverRepeats ==
  \A m, n \in DOMAIN pages : m < n =>
    \A j \in pages[m], k \in pages[n] : Less(Key(k), Key(j))

(* HistoryFilter::created_before: pages "stay correct as rows are inserted *)
(* or removed between requests".  A job that matched all the time has been *)
(* shown, or is still ahead of the cursor; none is left when the walk      *)
(* ends.                                                                   *)
WalkMissesNothing ==
  pc \in {"walking", "walked"} =>
    \A j \in steady :
      \/ \E n \in DOMAIN pages : j \in pages[n]
      \/ pc = "walking" /\ Older(j, cursor)

(* A snapshot is as wrong as the table was busy, and no more: its three    *)
(* statements count every job that kept its status exactly once, and only  *)
(* one that moved during the call may be missing or counted twice.  The    *)
(* reported age of a backlog covers every job that was pending throughout. *)
SnapshotOffByMoved ==
  pc = "counted" =>
    LET Close(count, S, of) ==
          LET sure == Cardinality(S \cap steady \cap of)
          IN  sure <= count /\ count <= sure + Cardinality(of \ steady)
    IN  /\ Close(snapshot.claimed, InStatus(Claimed), Jobs)
        /\ \A k \in Kinds :
             LET of == {j \in Jobs : KindOf[j] = k}
             IN  /\ Close(snapshot.pending[k], InStatus(Pending), of)
                 /\ Close(snapshot.dead[k], InStatus(Dead), of)
                 /\ \A j \in InStatus(Pending) \cap steady \cap of :
                      /\ snapshot.oldest[k] # None
                      /\ created_at[j] + snapshot.oldest[k] >= called_at
=============================================================================
