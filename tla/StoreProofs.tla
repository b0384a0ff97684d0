---------------------------- MODULE StoreProofs ----------------------------
(***************************************************************************)
(* What the row functions of Store keep and change, for the proofs about   *)
(* the modules that apply them.                                            *)
(***************************************************************************)
EXTENDS Store, TLAPS

USE DEF Pending, Claimed, Completed, Dead

(* A fresh row is pending, unclaimed and never run. *)
LEMMA EnqueuedRowFacts ==
  ASSUME NEW v \in Nat
  PROVE  LET row == EnqueuedRow(v)
         IN  /\ row \in Row /\ row.status = Pending /\ row.run_count = 0
             /\ row.failure_count = 0 /\ row.finished_at = None
<1>1. /\ AbsentRow \in Row /\ AbsentRow.run_count = 0
      /\ AbsentRow.failure_count = 0 /\ AbsentRow.finished_at = None
  BY StoreAssumption DEF AbsentRow, Row, Status
<1> DEFINE row == [AbsentRow EXCEPT !.status = Pending, !.visible_at = v]
<1>2. /\ row \in Row /\ row.status = Pending /\ row.run_count = 0
      /\ row.failure_count = 0 /\ row.finished_at = None
  BY <1>1 DEF Row, Status, Stored
<1>3. row = EnqueuedRow(v)
  BY DEF EnqueuedRow
<1> HIDE DEF row
<1> QED
  BY <1>2, <1>3

(* A merge changes nothing of a row but its carry. *)
LEMMA MergedRowFacts ==
  ASSUME NEW old \in Row, NEW replaces \in BOOLEAN
  PROVE  LET row == MergedRow(old, replaces)
         IN  /\ row \in Row /\ row.status = old.status
             /\ row.run_count = old.run_count
             /\ row.failure_count = old.failure_count
             /\ row.finished_at = old.finished_at
<1>1. 0 \in 0..MaxInt
  BY StoreAssumption
<1>2. CASE replaces
  <2>1. MergedRow(old, replaces) = [old EXCEPT !.carry = 0]
    BY <1>2 DEF MergedRow
  <2> QED
    BY <1>1, <2>1 DEF Row
<1>3. CASE ~ replaces
  BY <1>3 DEF MergedRow
<1> QED
  BY <1>2, <1>3

(* A claim stamps an eligible row with a run number nobody remembers. *)
LEMMA ClaimedRowFacts ==
  ASSUME NEW old \in Row, old.run_count < MaxInt,
         NEW identity \in Identities, NEW expires \in Nat
  PROVE  LET row == ClaimedRow(old, identity, expires)
         IN  /\ row \in Row /\ row.status = Claimed
             /\ row.run_count = old.run_count + 1
             /\ row.failure_count = old.failure_count
             /\ row.carry = old.carry
             /\ row.claimed_by = identity
             /\ row.claim_expires_at = expires
             /\ row.finished_at = old.finished_at
<1>1. old.run_count + 1 \in 0..MaxInt
  BY StoreAssumption DEF Row
<1> DEFINE row == [old EXCEPT !.status = Claimed, !.claimed_by = identity,
                              !.claim_expires_at = expires,
                              !.run_count = old.run_count + 1]
<1>2. /\ row \in Row /\ row.status = Claimed
      /\ row.run_count = old.run_count + 1
      /\ row.failure_count = old.failure_count
      /\ row.carry = old.carry
      /\ row.claimed_by = identity
      /\ row.claim_expires_at = expires
      /\ row.finished_at = old.finished_at
  BY <1>1 DEF Row, Status, Stored
<1>3. row = ClaimedRow(old, identity, expires)
  BY DEF ClaimedRow
<1> HIDE DEF row
<1> QED
  BY <1>2, <1>3
=============================================================================
