--------------------------- MODULE HistoryProofs ---------------------------
(***************************************************************************)
(* Proofs, for any jobs, filters, limits and stamps, of what the history   *)
(* walk and the statistics promise while the table changes under them.     *)
(*                                                                         *)
(* The argument.  A row is stamped once: created_at changes only with the  *)
(* insert of an id that no page can name yet.  The cursor is therefore not *)
(* above any row shown so far (CursorInv), and a row that matched all the  *)
(* time still matches and is where it was (SteadyInv), so that it is in    *)
(* the next page or behind the next cursor.  For the statistics, a job     *)
(* that leaves `steady` is moved from the certain part of a count to the   *)
(* tolerance (CountInv).                                                   *)
(***************************************************************************)
EXTENDS History, FiniteSetTheorems, SequenceTheorems, WellFoundedInduction, TLAPS

Walking == {"walking", "walked"}

(* What has been shown has been inserted. *)
PageInv ==
  \A n \in DOMAIN pages : \A j \in pages[n] : status[j] # "absent"

(* Nothing shown is below the cursor; no cursor, nothing shown. *)
CursorInv ==
  /\ pc \notin Walking => pages = << >>
  /\ pc = "walking" /\ cursor = None => pages = << >>
  /\ pc = "walking" /\ cursor # None =>
       \A n \in DOMAIN pages : \A j \in pages[n] :
         cursor = Key(j) \/ Less(cursor, Key(j))

(* What matched since the walk began matches. *)
SteadyInv ==
  pc \in Walking => steady \subseteq Matching(filter)

(* The jobs a count of X among `of` must and may contain. *)
Sure(X, of) == X \cap steady \cap of
Perhaps(X, of) == Sure(X, of) \cup (of \ steady)
Close(n, X, of) ==
  n \in Nat /\ Cardinality(Sure(X, of)) <= n /\ n <= Cardinality(Perhaps(X, of))

OfKind(k) == {j \in Jobs : KindOf[j] = k}

CountInv ==
  /\ pc \in {"claimed", "dead", "counted"} =>
       \A k \in Kinds :
         /\ Close(snapshot.pending[k], InStatus(Pending), OfKind(k))
         /\ \A j \in Sure(InStatus(Pending), OfKind(k)) :
              /\ snapshot.oldest[k] # None
              /\ created_at[j] + snapshot.oldest[k] >= called_at
  /\ pc \in {"dead", "counted"} =>
       Close(snapshot.claimed, InStatus(Claimed), Jobs)
  /\ pc = "counted" =>
       \A k \in Kinds : Close(snapshot.dead[k], InStatus(Dead), OfKind(k))

Inv ==
  /\ TypeOK
  /\ WalkNeverRepeats
  /\ PageInv
  /\ CursorInv
  /\ SteadyInv
  /\ WalkMissesNothing
  /\ CountInv

-----------------------------------------------------------------------------
(* Jobs, keys and stamps. *)

(* A non-empty set of natural numbers has a least element. *)
LEMMA LeastNatural ==
  ASSUME NEW T \in SUBSET Nat, T # {}
  PROVE  \E x \in T : \A y \in T : x <= y
<1> DEFINE R == OpToRel(<, Nat)
<1>1. IsWellFoundedOn(R, Nat)
  BY NatLessThanWellFounded
<1> HIDE DEF R
<1>2. PICK x \in T : \A y \in T : ~ (<<y, x>> \in R)
  BY <1>1, WFMin
<1>3. \A y \in T : ~ (y < x)
  BY <1>2 DEF R, OpToRel
<1> QED
  BY <1>3

(* Ids, stamps and times are natural numbers. *)
LEMMA Numbers ==
  Jobs \subseteq Nat /\ Stamps \cup {0} \subseteq Nat /\ MaxTime \in Nat
<1>1. Stamps \subseteq Nat /\ Jobs \subseteq Nat /\ MaxTime \in Nat
  BY HistoryAssumption, Zenon
<1> QED
  BY <1>1

(* What the pages are ordered by is a pair of numbers. *)
LEMMA KeyType ==
  ASSUME TypeOK, NEW j \in Jobs
  PROVE  Key(j)[1] \in Nat /\ Key(j)[2] \in Nat
<1>1. created_at[j] \in Nat /\ j \in Nat
  <2>1. created_at[j] \in Stamps \cup {0}
    BY DEF TypeOK
  <2> QED
    BY <2>1, Numbers
<1> QED
  BY <1>1 DEF Key

(* Row-value comparison is transitive. *)
LEMMA LessTransitive ==
  ASSUME NEW a, NEW b, NEW c, a[1] \in Nat, a[2] \in Nat, b[1] \in Nat,
         b[2] \in Nat, c[1] \in Nat, c[2] \in Nat, Less(a, b), Less(b, c)
  PROVE  Less(a, c)
BY DEF Less

(* A cursor is a pair of numbers too. *)
LEMMA CursorType ==
  ASSUME TypeOK, cursor # None
  PROVE  cursor[1] \in Nat /\ cursor[2] \in Nat
BY HistoryAssumption DEF TypeOK

(* There are finitely many jobs. *)
LEMMA JobsFinite ==
  ASSUME NEW S \in SUBSET Jobs
  PROVE  IsFiniteSet(S) /\ Cardinality(S) \in Nat
BY HistoryAssumption, FS_Subset, FS_CardinalityType

(* A finite set has no fewer elements than a part of it. *)
LEMMA CardinalityMonotone ==
  ASSUME NEW S \in SUBSET Jobs, NEW T \in SUBSET S
  PROVE  Cardinality(T) <= Cardinality(S) /\ Cardinality(T) \in Nat
         /\ Cardinality(S) \in Nat
BY JobsFinite, FS_Subset

(* The tolerance of SnapshotOffByMoved, as one set. *)
LEMMA PerhapsSize ==
  ASSUME NEW X \in SUBSET Jobs, NEW of \in SUBSET Jobs
  PROVE  Cardinality(Perhaps(X, of)) =
           Cardinality(X \cap steady \cap of) + Cardinality(of \ steady)
<1> DEFINE A == X \cap steady \cap of
           B == of \ steady
<1>1. A \in SUBSET Jobs /\ B \in SUBSET Jobs /\ A \cap B = {}
  OBVIOUS
<1>2. IsFiniteSet(A) /\ IsFiniteSet(B) /\ Cardinality(A) \in Nat
      /\ Cardinality(B) \in Nat
  BY <1>1, JobsFinite
<1>3. Perhaps(X, of) = A \cup B
  BY DEF Perhaps, Sure
<1> HIDE DEF A, B
<1>4. Cardinality(A \cup B) = Cardinality(A) + Cardinality(B) - Cardinality(A \cap B)
  BY <1>2, FS_Union
<1>5. Cardinality(A \cap B) = 0
  BY <1>1, FS_EmptySet
<1>6. Cardinality(Perhaps(X, of)) = Cardinality(A) + Cardinality(B)
  BY <1>2, <1>3, <1>4, <1>5
<1> QED
  BY <1>6 DEF A, B

(* A count taken now is close. *)
LEMMA CloseNow ==
  ASSUME NEW X \in SUBSET Jobs, NEW of \in SUBSET Jobs
  PROVE  Close(Cardinality(X \cap of), X, of)
<1> DEFINE C == X \cap of
<1>1. C \in SUBSET Jobs /\ Perhaps(X, of) \in SUBSET Jobs
      /\ Sure(X, of) \in SUBSET C /\ C \in SUBSET Perhaps(X, of)
  BY DEF Perhaps, Sure
<1> HIDE DEF C
<1>2. Cardinality(C) \in Nat /\ Cardinality(Sure(X, of)) <= Cardinality(C)
      /\ Cardinality(C) <= Cardinality(Perhaps(X, of))
  BY <1>1, CardinalityMonotone
<1>3. Close(Cardinality(C), X, of)
  BY <1>2 DEF Close
<1> QED
  BY <1>3 DEF C

(* A count stays close when jobs leave steady and the others stay put. *)
LEMMA CloseStays ==
  ASSUME NEW n, NEW X \in SUBSET Jobs, NEW of \in SUBSET Jobs,
         NEW Y \in SUBSET Jobs, Close(n, X, of), steady' \subseteq steady,
         X \cap steady' = Y \cap steady'
  PROVE  /\ n \in Nat /\ Cardinality(Y \cap steady' \cap of) <= n
         /\ n <= Cardinality((Y \cap steady' \cap of) \cup (of \ steady'))
<1> DEFINE A == Y \cap steady' \cap of
           B == A \cup (of \ steady')
<1>1. A \in SUBSET Sure(X, of) /\ Sure(X, of) \in SUBSET Jobs
      /\ Perhaps(X, of) \in SUBSET B /\ B \in SUBSET Jobs
  BY DEF Sure, Perhaps
<1> HIDE DEF A, B
<1>2. /\ Cardinality(A) <= Cardinality(Sure(X, of))
      /\ Cardinality(Perhaps(X, of)) <= Cardinality(B)
      /\ Cardinality(A) \in Nat /\ Cardinality(Sure(X, of)) \in Nat
      /\ Cardinality(Perhaps(X, of)) \in Nat /\ Cardinality(B) \in Nat
  BY <1>1, CardinalityMonotone
<1>3. n \in Nat /\ Cardinality(A) <= n /\ n <= Cardinality(B)
  BY <1>2 DEF Close
<1> QED
  BY <1>3 DEF A, B

-----------------------------------------------------------------------------
(* The initial states. *)
LEMMA InitInv == Init => Inv
<1> SUFFICES ASSUME Init PROVE Inv
  OBVIOUS
<1>1. TypeOK
  BY HistoryAssumption, StoreAssumption DEF Init, TypeOK, Empty, Status
<1>2. WalkNeverRepeats /\ PageInv /\ CursorInv
  BY DEF Init, WalkNeverRepeats, PageInv, CursorInv, Walking
<1>3. SteadyInv /\ WalkMissesNothing /\ CountInv
  BY DEF Init, SteadyInv, WalkMissesNothing, CountInv, Walking
<1> QED
  BY <1>1, <1>2, <1>3 DEF Inv

-----------------------------------------------------------------------------
(* The walk. *)

(* A walk begins before everything that was created, with no page. *)
LEMMA WalkBeginsInv ==
  ASSUME Inv, NEW f \in Filters, WalkBegins(f)
  PROVE  Inv'
<1> USE DEF Inv, WalkBegins, table
<1>1. TypeOK'
  BY DEF TypeOK, Matching
<1>2. WalkNeverRepeats' /\ PageInv' /\ CursorInv'
  BY DEF WalkNeverRepeats, PageInv, CursorInv, Walking
<1>3. SteadyInv'
  BY DEF SteadyInv, Matching
<1>4. WalkMissesNothing' /\ CountInv'
  BY DEF WalkMissesNothing, CountInv, Older
<1> QED
  BY <1>1, <1>2, <1>3, <1>4

(* The rows of a page are below the cursor, and so below all shown before. *)
LEMMA NextPageInv ==
  ASSUME Inv, NEW page \in SUBSET Jobs, NextPage(page)
  PROVE  Inv'
<1> USE DEF Inv, NextPage
<1>1. UNCHANGED <<status, created_at, finished_at, clock, filter, called_at,
                  snapshot, steady>>
  BY DEF table
<1>2. /\ Len(pages) \in Nat /\ pages \in Seq(SUBSET Jobs)
      /\ DOMAIN pages = 1..Len(pages)
      /\ pages' \in Seq(SUBSET Jobs) /\ DOMAIN pages' = 1..(Len(pages) + 1)
      /\ \A n \in 1..Len(pages) : pages'[n] = pages[n]
      /\ pages'[Len(pages) + 1] = page
  <2>1. pages \in Seq(SUBSET Jobs)
    BY DEF TypeOK
  <2> QED
    BY <2>1, AppendProperties, LenProperties
<1>3. /\ pc = "walking" /\ pc' \in Walking
      /\ cursor' \in (Stamps \X Jobs) \cup {None}
  BY DEF TypeOK, Walking
<1>4. TypeOK'
  BY <1>1, <1>2, <1>3 DEF TypeOK, Walking
<1>5. /\ \A j \in page : j \in Jobs /\ j \in Matching(filter) /\ Older(j, cursor)
      /\ \A j \in Matching(filter) : Older(j, cursor) /\ j \notin page =>
           IsFull(page, filter) /\ \A k \in page : Less(Key(j), Key(k))
  BY DEF IsPage, IsFull
<1>6. \A j : Key(j)' = Key(j)
  BY <1>1 DEF Key
<1>7. PageInv'
  <2>1. \A j \in page : status[j] # "absent"
    BY <1>5 DEF Matching, Matches, Stored, Pending, Claimed, Completed, Dead
  <2> QED
    BY <1>1, <1>2, <2>1 DEF PageInv
<1>8. ASSUME NEW n \in 1..Len(pages), NEW j \in pages[n], NEW k \in page
      PROVE  Less(Key(k), Key(j))
  <2>1. cursor # None
    BY <1>2, <1>3 DEF CursorInv
  <2>2. Less(Key(k), cursor)
    BY <1>5, <2>1 DEF Older
  <2>3. cursor = Key(j) \/ Less(cursor, Key(j))
    BY <1>2, <2>1 DEF CursorInv
  <2>4. j \in Jobs /\ k \in Jobs
    BY <1>2
  <2> QED
    BY <2>1, <2>2, <2>3, <2>4, KeyType, CursorType, LessTransitive
<1>9. WalkNeverRepeats'
  <2> SUFFICES ASSUME NEW m \in DOMAIN pages', NEW n \in DOMAIN pages', m < n,
                      NEW j \in pages'[m], NEW k \in pages'[n]
               PROVE  Less(Key(k), Key(j))
    BY <1>6 DEF WalkNeverRepeats
  <2>1. CASE n = Len(pages) + 1
    <3>1. m \in 1..Len(pages) /\ j \in pages[m] /\ k \in page
      BY <1>2, <2>1
    <3> QED
      BY <1>8, <3>1
  <2>2. CASE n # Len(pages) + 1
    <3>1. m \in DOMAIN pages /\ n \in DOMAIN pages /\ j \in pages[m] /\ k \in pages[n]
      BY <1>2, <2>2
    <3> QED
      BY <3>1 DEF WalkNeverRepeats
  <2> QED
    BY <2>1, <2>2
<1>10. CASE IsFull(page, filter)
  <2>1. PICK last \in page : /\ cursor' = Key(last)
                             /\ \A k \in page \ {last} : Less(cursor', Key(k))
    BY <1>10 DEF IsLast
  <2>2. pc' = "walking" /\ cursor' # None
    <3>1. cursor' \in Stamps \X Jobs
      BY <1>10
    <3> QED
      BY <1>3, <1>10, <3>1, HistoryAssumption
  <2>3. CursorInv'
    <3> SUFFICES ASSUME NEW n \in DOMAIN pages', NEW j \in pages'[n]
                 PROVE  cursor' = Key(j) \/ Less(cursor', Key(j))
      BY <1>6, <2>2 DEF CursorInv, Walking
    <3>1. CASE n = Len(pages) + 1
      BY <1>2, <2>1, <3>1
    <3>2. CASE n # Len(pages) + 1
      <4>1. n \in 1..Len(pages) /\ j \in pages[n]
        BY <1>2, <3>2
      <4> QED
        BY <1>8, <2>1, <4>1
    <3> QED
      BY <3>1, <3>2
  <2>4. SteadyInv'
    BY <1>1, <1>3 DEF SteadyInv, Matching, Walking
  <2>5. WalkMissesNothing'
    <3> SUFFICES ASSUME NEW j \in steady, \A n \in DOMAIN pages' : j \notin pages'[n]
                 PROVE  Less(Key(j), cursor')
      BY <1>1, <1>6, <2>2 DEF WalkMissesNothing, Older
    <3>1. j \notin page /\ \A n \in DOMAIN pages : j \notin pages[n]
      BY <1>2
    <3>2. Older(j, cursor) /\ j \in Matching(filter)
      BY <1>3, <3>1 DEF WalkMissesNothing, SteadyInv, Walking
    <3> QED
      BY <1>5, <2>1, <3>1, <3>2
  <2>6. CountInv'
    BY <2>2 DEF CountInv
  <2> QED
    BY <1>4, <1>7, <1>9, <2>3, <2>4, <2>5, <2>6
<1>11. CASE ~ IsFull(page, filter)
  <2>1. pc' = "walked" /\ cursor' = cursor
    BY <1>11
  <2>2. CursorInv'
    BY <2>1 DEF CursorInv, Walking
  <2>3. SteadyInv'
    BY <1>1, <1>3 DEF SteadyInv, Matching, Walking
  <2>4. WalkMissesNothing'
    <3> SUFFICES ASSUME NEW j \in steady, \A n \in DOMAIN pages' : j \notin pages'[n]
                 PROVE  FALSE
      BY <1>1, <2>1 DEF WalkMissesNothing
    <3>1. j \notin page /\ \A n \in DOMAIN pages : j \notin pages[n]
      BY <1>2
    <3>2. Older(j, cursor) /\ j \in Matching(filter)
      BY <1>3, <3>1 DEF WalkMissesNothing, SteadyInv, Walking
    <3> QED
      BY <1>5, <1>11, <3>1, <3>2
  <2>5. CountInv'
    BY <2>1 DEF CountInv
  <2> QED
    BY <1>4, <1>7, <1>9, <2>2, <2>3, <2>4, <2>5
<1> QED
  BY <1>10, <1>11

-----------------------------------------------------------------------------
(* The statistics. *)

(* stats() notes when it was called and has counted nothing yet. *)
LEMMA StatsCalledInv ==
  ASSUME Inv, StatsCalled
  PROVE  Inv'
<1> USE DEF Inv, StatsCalled, table
<1>1. TypeOK'
  BY DEF TypeOK, Empty
<1>2. WalkNeverRepeats' /\ PageInv' /\ CursorInv'
  BY DEF WalkNeverRepeats, PageInv, CursorInv, Walking, Key
<1>3. SteadyInv' /\ WalkMissesNothing' /\ CountInv'
  BY DEF SteadyInv, WalkMissesNothing, CountInv, Walking
<1> QED
  BY <1>1, <1>2, <1>3

(* The oldest age is a number, and no age of the set exceeds it. *)
LEMMA OldestAgeFacts ==
  ASSUME TypeOK, NEW S \in SUBSET Jobs, S # {}
  PROVE  /\ OldestAge(S) \in Nat
         /\ \A j \in S : created_at[j] + OldestAge(S) >= called_at
<1>1. called_at \in Nat /\ \A j \in S : created_at[j] \in Nat
  <2>1. called_at \in 0..MaxTime /\ \A j \in S : created_at[j] \in Stamps \cup {0}
    BY DEF TypeOK
  <2> QED
    BY <2>1, Numbers
<1>2. ASSUME NEW j \in S
      PROVE  /\ Age(created_at[j]) \in Nat
             /\ created_at[j] + Age(created_at[j]) >= called_at
  BY <1>1 DEF Age
<1> DEFINE T == {created_at[j] : j \in S}
<1>3. PICK least \in T : \A y \in T : least <= y
  <2>1. T \in SUBSET Nat /\ T # {}
    BY <1>1
  <2> HIDE DEF T
  <2> QED
    BY <2>1, LeastNatural
<1>4. PICK i \in S : least = created_at[i]
  BY <1>3
<1>5. ASSUME NEW j \in S
      PROVE  Age(created_at[j]) <= Age(created_at[i])
  <2>1. created_at[i] <= created_at[j]
    BY <1>3, <1>4
  <2> QED
    BY <1>1, <2>1 DEF Age
<1> DEFINE a == OldestAge(S)
<1>6. /\ a \in {Age(created_at[j]) : j \in S}
      /\ \A j \in S : Age(created_at[j]) <= a
  <2>1. \E x \in {Age(created_at[j]) : j \in S} :
          \A j \in S : Age(created_at[j]) <= x
    BY <1>4, <1>5
  <2> QED
    BY <2>1 DEF OldestAge
<1> HIDE DEF a
<1>7. a \in Nat
  BY <1>2, <1>6
<1>8. ASSUME NEW j \in S
      PROVE  created_at[j] + a >= called_at
  <2>1. Age(created_at[j]) <= a
    BY <1>6
  <2> QED
    BY <1>1, <1>2, <1>7, <2>1
<1> QED
  BY <1>7, <1>8 DEF a

(* What the statements of stats leave as it was. *)
LEMMA CountFrame ==
  ASSUME Inv, UNCHANGED <<table, clock, filter, cursor, pages, called_at, steady>>,
         pc \notin Walking, pc' \notin Walking
  PROVE  /\ WalkNeverRepeats' /\ PageInv' /\ CursorInv' /\ SteadyInv'
         /\ WalkMissesNothing'
         /\ \A st : InStatus(st)' = InStatus(st)
         /\ \A X, of : Sure(X, of)' = Sure(X, of) /\ Perhaps(X, of)' = Perhaps(X, of)
<1> USE DEF Inv, table
<1>1. WalkNeverRepeats' /\ PageInv' /\ CursorInv'
  BY DEF WalkNeverRepeats, PageInv, CursorInv, Walking, Key
<1>2. SteadyInv' /\ WalkMissesNothing'
  BY DEF SteadyInv, WalkMissesNothing, Walking
<1>3. \A st : InStatus(st)' = InStatus(st)
  BY DEF InStatus
<1>4. \A X, of : Sure(X, of)' = Sure(X, of) /\ Perhaps(X, of)' = Perhaps(X, of)
  BY DEF Sure, Perhaps
<1> QED
  BY <1>1, <1>2, <1>3, <1>4

(* The counts per kind are those of the jobs of each kind. *)
LEMMA PerKindFacts ==
  ASSUME NEW S \in SUBSET Jobs
  PROVE  /\ PerKind(S) \in [Kinds -> Nat]
         /\ \A k \in Kinds : PerKind(S)[k] = Cardinality(S \cap OfKind(k))
<1>1. ASSUME NEW k \in Kinds
      PROVE  /\ {j \in S : KindOf[j] = k} = S \cap OfKind(k)
             /\ Cardinality(S \cap OfKind(k)) \in Nat
  <2>1. {j \in S : KindOf[j] = k} = S \cap OfKind(k)
    BY DEF OfKind
  <2>2. S \cap OfKind(k) \in SUBSET Jobs
    OBVIOUS
  <2> QED
    BY <2>1, <2>2, JobsFinite
<1> QED
  BY <1>1 DEF PerKind

(* The pending jobs are counted, with the age of the oldest, *)
LEMMA CountPendingInv ==
  ASSUME Inv, CountPending
  PROVE  Inv'
<1> USE DEF Inv, CountPending
<1> DEFINE P == InStatus(Pending)
           O == [k \in Kinds |-> OldestAge({j \in P : KindOf[j] = k})]
<1>1. WalkNeverRepeats' /\ PageInv' /\ CursorInv' /\ SteadyInv' /\ WalkMissesNothing'
  BY CountFrame DEF Walking
<1>2. P \in SUBSET Jobs
  BY DEF InStatus
<1>3. PerKind(P) \in [Kinds -> Nat]
      /\ \A k \in Kinds : PerKind(P)[k] = Cardinality(P \cap OfKind(k))
  BY <1>2, PerKindFacts
<1>4. ASSUME NEW k \in Kinds
      PROVE  /\ O[k] \in Nat \cup {None}
             /\ \A j \in P \cap OfKind(k) :
                  O[k] \in Nat /\ created_at[j] + O[k] >= called_at
  <2> DEFINE S == {j \in P : KindOf[j] = k}
  <2>1. S \in SUBSET Jobs /\ O[k] = OldestAge(S) /\ P \cap OfKind(k) \subseteq S
    BY <1>2 DEF OfKind
  <2> HIDE DEF S, O
  <2>2. CASE S = {}
    BY <2>1, <2>2 DEF OldestAge
  <2>3. CASE S # {}
    <3>1. OldestAge(S) \in Nat
          /\ \A j \in S : created_at[j] + OldestAge(S) >= called_at
      BY <2>1, <2>3, OldestAgeFacts
    <3> QED
      BY <2>1, <3>1
  <2> QED
    BY <2>2, <2>3
<1>5. O \in [Kinds -> Nat \cup {None}]
  <2>1. \A k \in Kinds : O[k] \in Nat \cup {None}
    BY <1>4
  <2> QED
    BY <2>1
<1>6. snapshot' = [snapshot EXCEPT !.pending = PerKind(P), !.oldest = O]
  OBVIOUS
<1> HIDE DEF P, O
<1>7. /\ snapshot'.pending = PerKind(P) /\ snapshot'.oldest = O
      /\ snapshot' \in [pending : [Kinds -> Nat], oldest : [Kinds -> Nat \cup {None}],
                        claimed : Nat, dead : [Kinds -> Nat]]
  BY <1>3, <1>5, <1>6 DEF TypeOK
<1>8. TypeOK'
  BY <1>7 DEF TypeOK, table
<1>9. CountInv'
  <2>1. \A k \in Kinds : Close(PerKind(P)[k], P, OfKind(k))
    <3>1. \A k \in Kinds : OfKind(k) \in SUBSET Jobs
      BY DEF OfKind
    <3> QED
      BY <1>2, <1>3, <3>1, CloseNow
  <2>2. \A k \in Kinds : \A j \in Sure(P, OfKind(k)) :
          O[k] # None /\ created_at[j] + O[k] >= called_at
    <3>1. \A k \in Kinds : Sure(P, OfKind(k)) \subseteq P \cap OfKind(k)
      BY DEF Sure
    <3> QED
      BY <1>4, <3>1, StoreAssumption
  <2>3. InStatus(Pending)' = P
    BY CountFrame DEF P, Walking
  <2>4. \A k \in Kinds : Close(snapshot.pending[k], InStatus(Pending), OfKind(k))'
    BY <1>7, <2>1, <2>3 DEF Close, Sure, Perhaps, OfKind
  <2>5. \A k \in Kinds : \A j \in Sure(InStatus(Pending), OfKind(k))' :
          /\ snapshot'.oldest[k] # None
          /\ created_at'[j] + snapshot'.oldest[k] >= called_at'
    BY <1>7, <2>2, <2>3 DEF Sure, OfKind, table
  <2> QED
    BY <2>4, <2>5 DEF CountInv
<1> QED
  BY <1>1, <1>8, <1>9

(* then the claimed ones, *)
LEMMA CountClaimedInv ==
  ASSUME Inv, CountClaimed
  PROVE  Inv'
<1> USE DEF Inv, CountClaimed
<1> DEFINE C == InStatus(Claimed)
<1>1. WalkNeverRepeats' /\ PageInv' /\ CursorInv' /\ SteadyInv' /\ WalkMissesNothing'
      /\ InStatus(Pending)' = InStatus(Pending) /\ InStatus(Claimed)' = C
  BY CountFrame DEF Walking
<1>2. C \in SUBSET Jobs /\ C = C \cap Jobs
  BY DEF InStatus
<1> HIDE DEF C
<1>3. Cardinality(C) \in Nat /\ Close(Cardinality(C), C, Jobs)
  <2>1. Jobs \in SUBSET Jobs
    OBVIOUS
  <2> QED
    BY <1>2, <2>1, JobsFinite, CloseNow
<1>4. snapshot' = [snapshot EXCEPT !.claimed = Cardinality(C)]
  BY DEF C
<1>5. /\ snapshot'.claimed = Cardinality(C)
      /\ snapshot'.pending = snapshot.pending /\ snapshot'.oldest = snapshot.oldest
      /\ snapshot' \in [pending : [Kinds -> Nat], oldest : [Kinds -> Nat \cup {None}],
                        claimed : Nat, dead : [Kinds -> Nat]]
  BY <1>3, <1>4 DEF TypeOK
<1>6. TypeOK'
  BY <1>5 DEF TypeOK, table
<1>7. CountInv'
  <2>1. Close(snapshot.claimed, InStatus(Claimed), Jobs)'
    BY <1>1, <1>3, <1>5 DEF Close, Sure, Perhaps
  <2>2. \A k \in Kinds : Close(snapshot.pending[k], InStatus(Pending), OfKind(k))'
    BY <1>1, <1>5 DEF CountInv, Close, Sure, Perhaps, OfKind
  <2>3. \A k \in Kinds : \A j \in Sure(InStatus(Pending), OfKind(k))' :
          /\ snapshot'.oldest[k] # None
          /\ created_at'[j] + snapshot'.oldest[k] >= called_at'
    BY <1>1, <1>5 DEF CountInv, Sure, OfKind, table
  <2> QED
    BY <2>1, <2>2, <2>3 DEF CountInv
<1> QED
  BY <1>1, <1>6, <1>7

(* and the dead ones. *)
LEMMA CountDeadInv ==
  ASSUME Inv, CountDead
  PROVE  Inv'
<1> USE DEF Inv, CountDead
<1> DEFINE D == InStatus(Dead)
<1>1. WalkNeverRepeats' /\ PageInv' /\ CursorInv' /\ SteadyInv' /\ WalkMissesNothing'
      /\ InStatus(Pending)' = InStatus(Pending)
      /\ InStatus(Claimed)' = InStatus(Claimed) /\ InStatus(Dead)' = D
  BY CountFrame DEF Walking
<1>2. D \in SUBSET Jobs
  BY DEF InStatus
<1>3. snapshot' = [snapshot EXCEPT !.dead = PerKind(D)]
  OBVIOUS
<1> HIDE DEF D
<1>4. PerKind(D) \in [Kinds -> Nat]
      /\ \A k \in Kinds : PerKind(D)[k] = Cardinality(D \cap OfKind(k))
  BY <1>2, PerKindFacts
<1>5. \A k \in Kinds : Close(PerKind(D)[k], D, OfKind(k))
  <2>1. \A k \in Kinds : OfKind(k) \in SUBSET Jobs
    BY DEF OfKind
  <2> QED
    BY <1>2, <1>4, <2>1, CloseNow
<1>6. /\ snapshot'.dead = PerKind(D) /\ snapshot'.claimed = snapshot.claimed
      /\ snapshot'.pending = snapshot.pending /\ snapshot'.oldest = snapshot.oldest
      /\ snapshot' \in [pending : [Kinds -> Nat], oldest : [Kinds -> Nat \cup {None}],
                        claimed : Nat, dead : [Kinds -> Nat]]
  BY <1>3, <1>4 DEF TypeOK
<1>7. TypeOK'
  BY <1>6 DEF TypeOK, table
<1>8. CountInv'
  <2>1. \A k \in Kinds : Close(snapshot.dead[k], InStatus(Dead), OfKind(k))'
    BY <1>1, <1>5, <1>6 DEF Close, Sure, Perhaps, OfKind
  <2>2. Close(snapshot.claimed, InStatus(Claimed), Jobs)'
    BY <1>1, <1>6 DEF CountInv, Close, Sure, Perhaps
  <2>3. \A k \in Kinds : Close(snapshot.pending[k], InStatus(Pending), OfKind(k))'
    BY <1>1, <1>6 DEF CountInv, Close, Sure, Perhaps, OfKind
  <2>4. \A k \in Kinds : \A j \in Sure(InStatus(Pending), OfKind(k))' :
          /\ snapshot'.oldest[k] # None
          /\ created_at'[j] + snapshot'.oldest[k] >= called_at'
    BY <1>1, <1>6 DEF CountInv, Sure, OfKind, table
  <2> QED
    BY <2>1, <2>2, <2>3, <2>4 DEF CountInv
<1> QED
  BY <1>1, <1>7, <1>8

(* A reader that is done forgets what it saw. *)
LEMMA ReaderLeavesInv ==
  ASSUME Inv, ReaderLeaves
  PROVE  Inv'
<1> USE DEF Inv, ReaderLeaves, table
<1>1. TypeOK'
  BY Numbers DEF TypeOK, Empty
<1>2. WalkNeverRepeats' /\ PageInv' /\ CursorInv'
  BY DEF WalkNeverRepeats, PageInv, CursorInv, Walking
<1>3. SteadyInv' /\ WalkMissesNothing' /\ CountInv'
  BY DEF SteadyInv, WalkMissesNothing, CountInv, Walking
<1> QED
  BY <1>1, <1>2, <1>3

-----------------------------------------------------------------------------
(* The rest of the system. *)

(* One transaction: rows get a status other than "absent", and only an     *)
(* insert of an unused id stamps it.                                       *)
LEMMA WriteInv ==
  ASSUME Inv, NEW S \in SUBSET Jobs, NEW st \in Status \ {"absent"},
         NEW fin \in (0..MaxTime) \cup {None}, Write(S, st, fin),
         created_at' \in [Jobs -> Stamps \cup {0}],
         \A j \in Jobs : created_at'[j] # created_at[j] =>
                           j \in S /\ status[j] = "absent"
  PROVE  Inv'
<1> USE DEF Inv
<1>1. /\ UNCHANGED <<clock, pc, filter, cursor, pages, called_at, snapshot>>
      /\ status' = [j \in Jobs |-> IF j \in S THEN st ELSE status[j]]
      /\ finished_at' = [j \in Jobs |-> IF j \in S THEN fin ELSE finished_at[j]]
      /\ steady' \subseteq steady
  BY DEF Write, reader
<1>2. TypeOK'
  BY <1>1 DEF TypeOK
<1>3. PageInv'
  BY <1>1 DEF TypeOK, PageInv
<1>4. ASSUME NEW j \in Jobs, status[j] # "absent"
      PROVE  Key(j)' = Key(j)
  BY <1>4 DEF Key
<1>5. \A n \in DOMAIN pages : \A j \in pages[n] : j \in Jobs /\ Key(j)' = Key(j)
  <2>1. \A n \in DOMAIN pages : pages[n] \in SUBSET Jobs
    BY ElementOfSeq, LenProperties DEF TypeOK
  <2> QED
    BY <1>4, <2>1 DEF PageInv
<1>6. WalkNeverRepeats'
  BY <1>1, <1>5 DEF WalkNeverRepeats
<1>7. CursorInv'
  BY <1>1, <1>5 DEF CursorInv
<1>8. CASE pc \in Walking
  <2>1. steady' = {j \in steady : j \in S => Matches(j, filter, st, fin)}
    BY <1>8 DEF Write, Walking
  <2>2. SteadyInv'
    BY <1>1, <1>8, <2>1 DEF SteadyInv, Matching, TypeOK
  <2>3. \A j \in steady : Key(j)' = Key(j)
    <3>1. \A j \in steady : j \in Jobs /\ status[j] \in Stored
      BY <1>8 DEF SteadyInv, Matching, Matches
    <3>2. "absent" \notin Stored
      BY DEF Stored, Pending, Claimed, Completed, Dead
    <3> QED
      BY <1>4, <3>1, <3>2
  <2>4. WalkMissesNothing'
    BY <1>1, <2>3 DEF WalkMissesNothing, Older
  <2>5. CountInv'
    BY <1>1, <1>8 DEF CountInv, Walking
  <2> QED
    BY <1>2, <1>3, <1>6, <1>7, <2>2, <2>4, <2>5
<1>9. CASE pc \notin Walking
  <2>1. steady' = steady \ S
    BY <1>9 DEF Write, Walking
  <2>2. SteadyInv' /\ WalkMissesNothing'
    BY <1>1, <1>9 DEF SteadyInv, WalkMissesNothing, Walking
  <2>3. \A x : /\ InStatus(x) \in SUBSET Jobs /\ InStatus(x)' \in SUBSET Jobs
               /\ InStatus(x) \cap steady' = InStatus(x)' \cap steady'
    BY <1>1, <2>1 DEF InStatus
  <2>4. ASSUME NEW n, NEW x, NEW of \in SUBSET Jobs, Close(n, InStatus(x), of)
        PROVE  /\ n \in Nat
               /\ Cardinality(InStatus(x)' \cap steady' \cap of) <= n
               /\ n <= Cardinality((InStatus(x)' \cap steady' \cap of)
                                     \cup (of \ steady'))
    BY <1>1, <2>3, <2>4, CloseStays
  <2>5. \A k : OfKind(k) \in SUBSET Jobs /\ OfKind(k)' = OfKind(k)
    BY DEF OfKind
  <2>6. pc \in {"claimed", "dead", "counted"} => \A k \in Kinds :
          Close(snapshot.pending[k], InStatus(Pending), OfKind(k))'
    BY <1>1, <2>4, <2>5 DEF CountInv, Close, Sure, Perhaps
  <2>7. pc \in {"claimed", "dead", "counted"} => \A k \in Kinds :
          \A j \in Sure(InStatus(Pending), OfKind(k))' :
            /\ snapshot'.oldest[k] # None
            /\ created_at'[j] + snapshot'.oldest[k] >= called_at'
    <3>1. \A k \in Kinds : \A j \in Sure(InStatus(Pending), OfKind(k))' :
            j \in Sure(InStatus(Pending), OfKind(k)) /\ created_at'[j] = created_at[j]
      BY <2>1, <2>3, <2>5 DEF Sure
    <3> QED
      BY <1>1, <3>1 DEF CountInv
  <2>8. pc \in {"dead", "counted"} => Close(snapshot.claimed, InStatus(Claimed), Jobs)'
    BY <1>1, <2>4 DEF CountInv, Close, Sure, Perhaps
  <2>9. pc = "counted" => \A k \in Kinds :
          Close(snapshot.dead[k], InStatus(Dead), OfKind(k))'
    BY <1>1, <2>4, <2>5 DEF CountInv, Close, Sure, Perhaps
  <2>10. CountInv'
    BY <1>1, <2>6, <2>7, <2>8, <2>9 DEF CountInv
  <2> QED
    BY <1>2, <1>3, <1>6, <1>7, <2>2, <2>10
<1> QED
  BY <1>8, <1>9

(* Other callers write between the statements of a reader. *)
LEMMA WritingInv ==
  ASSUME Inv, Writing
  PROVE  Inv'
<1> USE DEF Status, Stored, Terminal, Pending, Claimed, Completed, Dead
<1>1. ASSUME NEW j \in Jobs, NEW stamp \in Stamps, Enqueue(j, stamp)
      PROVE  Inv'
  <2>1. {j} \in SUBSET Jobs /\ Write({j}, Pending, None) /\ status[j] = "absent"
    BY <1>1 DEF Enqueue
  <2>2. created_at' \in [Jobs -> Stamps \cup {0}]
        /\ \A i \in Jobs : created_at'[i] # created_at[i] => i = j
    BY <1>1 DEF Enqueue, Inv, TypeOK
  <2> QED
    BY <2>1, <2>2, WriteInv
<1>2. ASSUME NEW j \in Jobs, NEW st \in Status \ {"absent"},
             NEW fin \in (0..MaxTime) \cup {None},
             Write({j}, st, fin), UNCHANGED created_at
      PROVE  Inv'
  <2>1. {j} \in SUBSET Jobs /\ created_at' \in [Jobs -> Stamps \cup {0}]
    BY <1>2 DEF Inv, TypeOK
  <2> QED
    BY <1>2, <2>1, WriteInv
<1>3. ASSUME NEW j \in Jobs, ClaimNext(j)
      PROVE  Inv'
  BY <1>2, <1>3 DEF ClaimNext
<1>4. ASSUME NEW j \in Jobs, NEW st \in {Pending, Completed, Dead}, EndClaim(j, st)
      PROVE  Inv'
  <2>1. clock \in 0..MaxTime
    BY DEF Inv, TypeOK
  <2> QED
    BY <1>2, <1>4, <2>1 DEF EndClaim
<1>5. ASSUME NEW cutoff, NEW kind, NEW st, Cleanup(cutoff, kind, st)
      PROVE  Inv'
  <2>1. PICK S \in SUBSET Jobs : Write(S, "deleted", None) /\ UNCHANGED created_at
    BY <1>5 DEF Cleanup
  <2>2. created_at' \in [Jobs -> Stamps \cup {0}]
    BY <2>1 DEF Inv, TypeOK
  <2> QED
    BY <2>1, <2>2, WriteInv
<1> QED
  BY <1>1, <1>3, <1>4, <1>5 DEF Writing

(* Time passes, or nothing happens. *)
LEMMA TickInv ==
  ASSUME Inv, UNCHANGED <<table, reader, steady>>, clock' \in 0..MaxTime
  PROVE  Inv'
<1> USE DEF Inv, table, reader
<1>1. TypeOK'
  BY DEF TypeOK
<1>2. WalkNeverRepeats' /\ PageInv' /\ CursorInv'
  BY DEF WalkNeverRepeats, PageInv, CursorInv, Key
<1>3. SteadyInv' /\ WalkMissesNothing'
  BY DEF SteadyInv, WalkMissesNothing, Matching, Older, Key
<1>4. CountInv'
  BY DEF CountInv, Close, Sure, Perhaps, OfKind, InStatus
<1> QED
  BY <1>1, <1>2, <1>3, <1>4

(* The invariant above holds of every behaviour of table and reader. *)
THEOREM Invariance == Spec => []Inv
<1>1. Init => Inv
  BY InitInv
<1>2. Inv /\ [Next]_vars => Inv'
  <2> SUFFICES ASSUME Inv, [Next]_vars PROVE Inv'
    OBVIOUS
  <2>1. CASE Reading
    BY <2>1, WalkBeginsInv, NextPageInv, StatsCalledInv, CountPendingInv,
       CountClaimedInv, CountDeadInv, ReaderLeavesInv DEF Reading
  <2>2. CASE Writing
    BY <2>2, WritingInv
  <2>3. CASE Tick
    <3>1. clock' \in 0..MaxTime
      BY <2>3, Numbers DEF Tick, Inv, TypeOK
    <3> QED
      BY <2>3, <3>1, TickInv DEF Tick
  <2>4. CASE UNCHANGED vars
    BY <2>4, TickInv DEF vars, Inv, TypeOK
  <2> QED
    BY <2>1, <2>2, <2>3, <2>4 DEF Next
<1> QED
  BY <1>1, <1>2, PTL DEF Spec

(* Every variable keeps its type; that OldestAge, a CHOOSE, yields a       *)
(* number for every backlog is part of it.                                 *)
THEOREM TypeCorrect == Spec => []TypeOK
BY Invariance, PTL DEF Inv

(* No walk shows a row twice, however the table changes between pages.     *)
THEOREM NoRepeats == Spec => []WalkNeverRepeats
BY Invariance, PTL DEF Inv

(* No walk misses a row that matched the filter all the time.              *)
THEOREM NothingMissed == Spec => []WalkMissesNothing
BY Invariance, PTL DEF Inv

(* The counts of stats, taken by three statements, are off by no more than *)
(* the jobs that moved during the call, and the oldest age covers every    *)
(* job that was pending throughout.                                        *)
THEOREM SnapshotClose == Spec => []SnapshotOffByMoved
<1>1. Inv => SnapshotOffByMoved
  <2> SUFFICES ASSUME Inv, pc = "counted"
               PROVE  SnapshotOffByMoved
    BY DEF SnapshotOffByMoved
  <2>1. ASSUME NEW n, NEW X \in SUBSET Jobs, NEW of \in SUBSET Jobs,
               Close(n, X, of)
        PROVE  /\ Cardinality(X \cap steady \cap of) <= n
               /\ n <= Cardinality(X \cap steady \cap of) + Cardinality(of \ steady)
    <3>1. /\ Cardinality(X \cap steady \cap of) <= n
          /\ n <= Cardinality(Perhaps(X, of))
      BY <2>1 DEF Close, Sure
    <3> QED
      BY <3>1, PerhapsSize
  <2>2. \A x : InStatus(x) \in SUBSET Jobs
    BY DEF InStatus
  <2>3. /\ Cardinality(InStatus(Claimed) \cap steady \cap Jobs) <= snapshot.claimed
        /\ snapshot.claimed <= Cardinality(InStatus(Claimed) \cap steady \cap Jobs)
                                 + Cardinality(Jobs \ steady)
    BY <2>1, <2>2 DEF Inv, CountInv
  <2>4. ASSUME NEW k \in Kinds
        PROVE  LET of == {j \in Jobs : KindOf[j] = k}
               IN  /\ Cardinality(InStatus(Pending) \cap steady \cap of)
                        <= snapshot.pending[k]
                   /\ snapshot.pending[k]
                        <= Cardinality(InStatus(Pending) \cap steady \cap of)
                             + Cardinality(of \ steady)
                   /\ Cardinality(InStatus(Dead) \cap steady \cap of)
                        <= snapshot.dead[k]
                   /\ snapshot.dead[k]
                        <= Cardinality(InStatus(Dead) \cap steady \cap of)
                             + Cardinality(of \ steady)
                   /\ \A j \in InStatus(Pending) \cap steady \cap of :
                        /\ snapshot.oldest[k] # None
                        /\ created_at[j] + snapshot.oldest[k] >= called_at
    <3> DEFINE of == {j \in Jobs : KindOf[j] = k}
    <3>1. of \in SUBSET Jobs /\ of = OfKind(k)
      BY DEF OfKind
    <3>2. /\ Close(snapshot.pending[k], InStatus(Pending), of)
          /\ Close(snapshot.dead[k], InStatus(Dead), of)
          /\ \A j \in InStatus(Pending) \cap steady \cap of :
               /\ snapshot.oldest[k] # None
               /\ created_at[j] + snapshot.oldest[k] >= called_at
      BY <3>1 DEF Inv, CountInv, Sure
    <3> HIDE DEF of
    <3>3. /\ Cardinality(InStatus(Pending) \cap steady \cap of) <= snapshot.pending[k]
          /\ snapshot.pending[k] <= Cardinality(InStatus(Pending) \cap steady \cap of)
                                      + Cardinality(of \ steady)
      BY <2>1, <2>2, <3>1, <3>2
    <3>4. /\ Cardinality(InStatus(Dead) \cap steady \cap of) <= snapshot.dead[k]
          /\ snapshot.dead[k] <= Cardinality(InStatus(Dead) \cap steady \cap of)
                                   + Cardinality(of \ steady)
      BY <2>1, <2>2, <3>1, <3>2
    <3> QED
      BY <3>2, <3>3, <3>4 DEF of
  <2> QED
    BY <2>3, <2>4, Zenon DEF SnapshotOffByMoved
<1> QED
  BY Invariance, <1>1, PTL
=============================================================================
