---------------------------- MODULE PayoutProofs ----------------------------
(***************************************************************************)
(* No commission is paid twice, for any commissions, payouts and clerks.   *)
(* The invariant adds to the properties what a transaction relies on       *)
(* between two statements: the commissions it has locked keep the status   *)
(* it read (Relied), because no two transactions lock the same one         *)
(* (LocksApart).                                                           *)
(***************************************************************************)
EXTENDS Payout, TLAPS

Relied ==
    \A r \in Clerk :
        /\ pc[r] = "pay" => commission[target[r]] = "APPROVED"
        /\ pc[r] = "cancel" => commission[target[r]] \in {"PENDING", "APPROVED"}
        /\ pc[r] = "insert" => chosen[r] # {} /\ \A c \in chosen[r] : commission[c] = "APPROVED"

LocksApart == \A r, s \in Clerk : r # s => Locks(r) \cap Locks(s) = {}

IInv == TypeOK /\ Relied /\ LocksApart /\ PaidOnce /\ ReservedApproved /\ ReservedOnce

\* Ending a request releases its locks and disturbs no other request.
LEMMA EndingReleases ==
    ASSUME IInv, NEW r \in Clerk, Ends(r)
    PROVE  /\ \A s \in Clerk \ {r} : /\ pc'[s] = pc[s] /\ target'[s] = target[s]
                                     /\ chosen'[s] = chosen[s]
           /\ pc'[r] = "idle"
           /\ LocksApart'
           /\ pc' \in [Clerk -> Steps]
           /\ target' \in [Clerk -> Commission \cup {Nothing}]
           /\ snapshot' \in [Clerk -> SUBSET Commission]
           /\ chosen' \in [Clerk -> SUBSET Commission]
           /\ \A s \in Clerk : pc'[s] \in CommissionSteps <=> target'[s] # Nothing
<1>1. /\ \A s \in Clerk \ {r} : /\ pc'[s] = pc[s] /\ target'[s] = target[s]
                                /\ chosen'[s] = chosen[s]
      /\ pc'[r] = "idle" /\ target'[r] = Nothing
  BY DEF IInv, TypeOK, Ends, Goes
<1>2. LocksApart'
  BY <1>1 DEF IInv, LocksApart, Locks, CommissionSteps
<1>3. /\ pc' \in [Clerk -> Steps]
      /\ target' \in [Clerk -> Commission \cup {Nothing}]
      /\ snapshot' \in [Clerk -> SUBSET Commission]
      /\ chosen' \in [Clerk -> SUBSET Commission]
  BY DEF IInv, TypeOK, Ends, Goes, Steps
<1>4. \A s \in Clerk : pc'[s] \in CommissionSteps <=> target'[s] # Nothing
  BY <1>1 DEF IInv, TypeOK, CommissionSteps
<1> QED
  BY <1>1, <1>2, <1>3, <1>4

\* A commission somebody else has locked keeps the others' statuses.
LEMMA LockedByOne ==
    ASSUME IInv, NEW r \in Clerk, NEW s \in Clerk, r # s, NEW c \in Locks(r)
    PROVE  c \notin Locks(s)
BY DEF IInv, LocksApart

\* A request that has locked nothing yet disturbs no other.
LEMMA BeginningDisturbsNone ==
    ASSUME IInv, NEW r \in Clerk, pc[r] = "idle", UNCHANGED commission,
           pc'[r] \in {"sync", "select"},
           \A s \in Clerk \ {r} : /\ pc'[s] = pc[s] /\ target'[s] = target[s]
                                  /\ chosen'[s] = chosen[s]
    PROVE  Relied' /\ LocksApart'
<1>1. Relied'
  BY DEF IInv, Relied
<1>2. Locks(r)' = {}
  BY DEF Locks, CommissionSteps
<1>3. \A s \in Clerk \ {r} : Locks(s)' = Locks(s)
  BY DEF Locks
<1>4. LocksApart'
  BY <1>2, <1>3 DEF IInv, LocksApart
<1> QED
  BY <1>1, <1>4

LEMMA StepInductive == IInv /\ [Next]_vars => IInv'
<1> SUFFICES ASSUME IInv, [Next]_vars PROVE IInv'
  OBVIOUS
<1> USE DEF rows, clerk
<1>1. ASSUME NEW r \in Clerk, NEW closings \in SUBSET Commission, SyncReads(r, closings)
      PROVE  IInv'
  <2>1. TypeOK'
    BY <1>1 DEF IInv, TypeOK, SyncReads, Goes, Steps, CommissionSteps
  <2>2. /\ pc'[r] = "sync"
        /\ \A s \in Clerk \ {r} : /\ pc'[s] = pc[s] /\ target'[s] = target[s]
                                  /\ chosen'[s] = chosen[s]
    BY <1>1 DEF IInv, TypeOK, SyncReads, Goes
  <2>3. Relied' /\ LocksApart'
    BY <1>1, <2>2, BeginningDisturbsNone DEF SyncReads
  <2> QED
    BY <1>1, <2>1, <2>3 DEF IInv, SyncReads, PaidOnce, ReservedApproved, ReservedOnce, Items
<1>2. ASSUME NEW r \in Clerk, SyncCommits(r) PROVE IInv'
  <2>1. \A c \in Commission :
            \/ commission'[c] = commission[c]
            \/ commission[c] = "NONE" /\ commission'[c] = "PENDING"
    BY <1>2 DEF IInv, TypeOK, SyncCommits
  <2>2. TypeOK'
    BY <1>2, <2>1, EndingReleases DEF IInv, TypeOK, SyncCommits
  <2>3. Relied'
    BY <1>2, <2>1, EndingReleases DEF IInv, TypeOK, Relied, SyncCommits, CommissionSteps
  <2>4. PaidOnce' /\ ReservedApproved' /\ ReservedOnce'
    BY <1>2, <2>1 DEF IInv, TypeOK, SyncCommits, PaidOnce, ReservedApproved, ReservedOnce, Items
  <2> QED
    BY <1>2, <2>2, <2>3, <2>4, EndingReleases DEF IInv, SyncCommits
<1>3. ASSUME NEW c \in Commission, ApproveCommission(c) PROVE IInv'
  <2>1. TypeOK'
    BY <1>3 DEF IInv, TypeOK, ApproveCommission
  <2>2. Relied' /\ LocksApart'
    BY <1>3 DEF IInv, TypeOK, Relied, LocksApart, Locks, ApproveCommission, Free, CommissionSteps
  <2>3. PaidOnce' /\ ReservedApproved' /\ ReservedOnce'
    BY <1>3 DEF IInv, TypeOK, ApproveCommission, PaidOnce, ReservedApproved, ReservedOnce, Items
  <2> QED
    BY <2>1, <2>2, <2>3 DEF IInv
<1>4. ASSUME NEW r \in Clerk, NEW c \in Commission, NEW step \in CommissionSteps,
             LocksCommission(r, step, c), commission[c] \in {"PENDING", "APPROVED"},
             step = "pay" => commission[c] = "APPROVED"
      PROVE  IInv'
  <2>1. TypeOK'
    BY <1>4, NothingAssumption
       DEF IInv, TypeOK, LocksCommission, Goes, Steps, CommissionSteps
  <2>2. Relied'
    BY <1>4 DEF IInv, TypeOK, Relied, LocksCommission, Goes, CommissionSteps
  <2>3. LocksApart'
    <3>1. \A s \in Clerk \ {r} : pc'[s] = pc[s] /\ target'[s] = target[s] /\ chosen'[s] = chosen[s]
      BY <1>4 DEF IInv, TypeOK, LocksCommission, Goes
    <3>2. pc'[r] = step /\ target'[r] = c
      BY <1>4 DEF IInv, TypeOK, LocksCommission, Goes
    <3> QED
      BY <1>4, <3>1, <3>2 DEF IInv, LocksApart, LocksCommission, Locks, Free, CommissionSteps
  <2> QED
    BY <1>4, <2>1, <2>2, <2>3
       DEF IInv, LocksCommission, PaidOnce, ReservedApproved, ReservedOnce, Items
<1>5. ASSUME NEW r \in Clerk, NEW c \in Commission, PayLocks(r, c) \/ CancelLocks(r, c)
      PROVE  IInv'
  BY <1>4, <1>5 DEF PayLocks, CancelLocks, CommissionSteps
<1>6. ASSUME NEW r \in Clerk, MarkCommissionPaid(r) PROVE IInv'
  <2> DEFINE c == target[r]
  <2>1. c \in Commission /\ commission[c] = "APPROVED" /\ c \in Locks(r)
    BY <1>6 DEF IInv, TypeOK, Relied, Locks, MarkCommissionPaid, CommissionSteps
  <2>2. TypeOK'
    BY <1>6, <2>1, EndingReleases DEF IInv, TypeOK, MarkCommissionPaid
  <2>3. Relied'
    <3>1. \A s \in Clerk \ {r} : c \notin Locks(s)
      BY <2>1, LockedByOne
    <3>2. \A d \in Commission \ {c} : commission'[d] = commission[d]
      BY <1>6 DEF IInv, TypeOK, MarkCommissionPaid
    <3> HIDE DEF c
    <3>3. ASSUME NEW s \in Clerk \ {r}, pc[s] \in {"pay", "cancel"}
          PROVE  commission'[target[s]] = commission[target[s]]
      BY <3>1, <3>2, <3>3, NothingAssumption DEF IInv, TypeOK, Locks, CommissionSteps
    <3>4. ASSUME NEW s \in Clerk \ {r}, pc[s] = "insert", NEW d \in chosen[s]
          PROVE  commission'[d] = commission[d]
      BY <3>1, <3>2, <3>4 DEF IInv, TypeOK, Locks
    <3> QED
      BY <1>6, <3>3, <3>4, EndingReleases DEF IInv, Relied, MarkCommissionPaid
  <2>4. PaidOnce'
    BY <1>6, <2>1 DEF IInv, TypeOK, MarkCommissionPaid, PaidOnce
  <2>5. ReservedApproved' /\ ReservedOnce'
    BY <1>6, <2>1 DEF IInv, TypeOK, MarkCommissionPaid, NotInPayout, Reserved,
       ReservedApproved, ReservedOnce, Items
  <2> QED
    BY <1>6, <2>2, <2>3, <2>4, <2>5, EndingReleases DEF IInv, MarkCommissionPaid
<1>7. ASSUME NEW r \in Clerk, CancelCommission(r) PROVE IInv'
  <2> DEFINE c == target[r]
  <2>1. c \in Commission /\ commission[c] \in {"PENDING", "APPROVED"} /\ c \in Locks(r)
    BY <1>7 DEF IInv, TypeOK, Relied, Locks, CancelCommission, CommissionSteps
  <2>2. TypeOK'
    BY <1>7, <2>1, EndingReleases DEF IInv, TypeOK, CancelCommission
  <2>3. Relied'
    <3>1. \A s \in Clerk \ {r} : c \notin Locks(s)
      BY <2>1, LockedByOne
    <3>2. \A d \in Commission \ {c} : commission'[d] = commission[d]
      BY <1>7 DEF IInv, TypeOK, CancelCommission
    <3> HIDE DEF c
    <3>3. ASSUME NEW s \in Clerk \ {r}, pc[s] \in {"pay", "cancel"}
          PROVE  commission'[target[s]] = commission[target[s]]
      BY <3>1, <3>2, <3>3, NothingAssumption DEF IInv, TypeOK, Locks, CommissionSteps
    <3>4. ASSUME NEW s \in Clerk \ {r}, pc[s] = "insert", NEW d \in chosen[s]
          PROVE  commission'[d] = commission[d]
      BY <3>1, <3>2, <3>4 DEF IInv, TypeOK, Locks
    <3> QED
      BY <1>7, <3>3, <3>4, EndingReleases DEF IInv, Relied, CancelCommission
  <2>4. PaidOnce'
    BY <1>7, <2>1 DEF IInv, TypeOK, CancelCommission, PaidOnce
  <2>5. ReservedApproved' /\ ReservedOnce'
    BY <1>7, <2>1 DEF IInv, TypeOK, CancelCommission, NotInPayout, Reserved,
       ReservedApproved, ReservedOnce, Items
  <2> QED
    BY <1>7, <2>2, <2>3, <2>4, <2>5, EndingReleases DEF IInv, CancelCommission
<1>8. ASSUME NEW r \in Clerk, PayoutBegins(r) PROVE IInv'
  <2>1. Reserved \subseteq Commission
    BY DEF IInv, TypeOK, Reserved, Items
  <2>2. TypeOK'
    BY <1>8, <2>1 DEF IInv, TypeOK, PayoutBegins, Goes, Steps, CommissionSteps
  <2>3. /\ pc'[r] = "select"
        /\ \A s \in Clerk \ {r} : /\ pc'[s] = pc[s] /\ target'[s] = target[s]
                                  /\ chosen'[s] = chosen[s]
    BY <1>8 DEF IInv, TypeOK, PayoutBegins, Goes
  <2>4. Relied' /\ LocksApart'
    BY <1>8, <2>3, BeginningDisturbsNone DEF PayoutBegins
  <2> QED
    BY <1>8, <2>2, <2>4 DEF IInv, PayoutBegins, PaidOnce, ReservedApproved, ReservedOnce, Items
<1>9. ASSUME NEW r \in Clerk, PayoutSelects(r) PROVE IInv'
  <2>1. Eligible(r) \subseteq Commission /\ \A c \in Eligible(r) : commission[c] = "APPROVED"
    BY DEF Eligible
  <2>2. TypeOK'
    BY <1>9, <2>1 DEF IInv, TypeOK, PayoutSelects, Goes, Steps, CommissionSteps
  <2>3. /\ \A s \in Clerk \ {r} : pc'[s] = pc[s] /\ target'[s] = target[s] /\ chosen'[s] = chosen[s]
        /\ pc'[r] = "insert" /\ chosen'[r] = Eligible(r)
    BY <1>9 DEF IInv, TypeOK, PayoutSelects, Goes
  <2>4. Relied'
    BY <1>9, <2>1, <2>3 DEF IInv, Relied, PayoutSelects
  <2>5. LocksApart'
    BY <1>9, <2>3 DEF IInv, LocksApart, Locks, PayoutSelects, Free, CommissionSteps
  <2> QED
    BY <1>9, <2>2, <2>4, <2>5 DEF IInv, PayoutSelects, PaidOnce, ReservedApproved, ReservedOnce, Items
<1>10. ASSUME NEW r \in Clerk, NEW b \in Batch, CreatePayout(r, b) PROVE IInv'
  <2>1. /\ chosen[r] \in SUBSET Commission /\ chosen[r] # {}
        /\ \A c \in chosen[r] : commission[c] = "APPROVED"
    BY <1>10 DEF IInv, TypeOK, Relied, CreatePayout
  <2>2. TypeOK'
    BY <1>10, <2>1, EndingReleases DEF IInv, TypeOK, CreatePayout
  <2>3. Relied'
    BY <1>10, EndingReleases DEF IInv, Relied, CreatePayout
  <2>4. PaidOnce' /\ ReservedApproved'
    BY <1>10, <2>1 DEF IInv, TypeOK, CreatePayout, PaidOnce, ReservedApproved
  <2>5. ReservedOnce'
    <3>1. \A a \in Batch \ {b} : Items(a)' = Items(a)
      BY <1>10 DEF IInv, TypeOK, CreatePayout, Items
    <3>2. Items(b)' = chosen[r]
      BY <1>10 DEF IInv, TypeOK, CreatePayout, Items
    <3>3. \A a \in Batch : chosen[r] \cap Items(a) = {}
      BY <1>10 DEF CreatePayout, UniqueItems, Reserved
    <3> QED
      BY <3>1, <3>2, <3>3 DEF IInv, ReservedOnce
  <2> QED
    BY <1>10, <2>2, <2>3, <2>4, <2>5, EndingReleases DEF IInv, CreatePayout
<1>11. ASSUME NEW b \in Batch, MarkPayoutPaid(b) PROVE IInv'
  <2>1. /\ Items(b) = items[b] /\ Items(b) \subseteq Commission
        /\ \A c \in Items(b) : commission[c] = "APPROVED" /\ Free(c)
        /\ \A c \in Commission : commission'[c] = IF c \in Items(b) THEN "PAID" ELSE commission[c]
    BY <1>11 DEF IInv, TypeOK, ReservedApproved, MarkPayoutPaid, StillPending, Items
  <2>2. TypeOK'
    BY <1>11 DEF IInv, TypeOK, MarkPayoutPaid, StillPending
  <2>3. Relied'
    <3>1. ASSUME NEW s \in Clerk, pc[s] \in {"pay", "cancel"}
          PROVE  commission'[target[s]] = commission[target[s]]
      BY <2>1, <3>1 DEF IInv, TypeOK, Free, Locks, CommissionSteps
    <3>2. ASSUME NEW s \in Clerk, pc[s] = "insert", NEW d \in chosen[s]
          PROVE  commission'[d] = commission[d]
      BY <2>1, <3>2 DEF IInv, TypeOK, Free, Locks
    <3> QED
      BY <1>11, <3>1, <3>2 DEF IInv, Relied, MarkPayoutPaid
  <2>7. LocksApart'
    BY <1>11 DEF IInv, LocksApart, Locks, MarkPayoutPaid
  <2>4. PaidOnce'
    BY <1>11, <2>1 DEF IInv, TypeOK, PaidOnce, MarkPayoutPaid
  <2>5. ReservedApproved'
    <3>1. ASSUME NEW a \in Batch, payout'[a] = "PENDING", NEW c \in items'[a]
          PROVE  commission'[c] = "APPROVED"
      <4>1. a # b /\ payout[a] = "PENDING" /\ c \in Items(a) /\ c \in Commission
        BY <1>11, <3>1 DEF IInv, TypeOK, MarkPayoutPaid, Items
      <4>2. c \notin Items(b) /\ commission[c] = "APPROVED"
        BY <4>1 DEF IInv, ReservedOnce, ReservedApproved, Items
      <4> QED
        BY <2>1, <4>1, <4>2
    <3> QED
      BY <3>1 DEF ReservedApproved
  <2>6. ReservedOnce'
    BY <1>11 DEF IInv, TypeOK, ReservedOnce, MarkPayoutPaid, StillPending, Items
  <2> QED
    BY <2>2, <2>3, <2>4, <2>5, <2>6, <2>7 DEF IInv
<1>12. ASSUME NEW b \in Batch, CancelPayout(b) PROVE IInv'
  <2>1. TypeOK' /\ Relied' /\ LocksApart' /\ PaidOnce'
    BY <1>12 DEF IInv, TypeOK, Relied, LocksApart, Locks, PaidOnce, CancelPayout, StillPending
  <2>2. ReservedApproved' /\ ReservedOnce'
    BY <1>12 DEF IInv, TypeOK, ReservedApproved, ReservedOnce, CancelPayout, Items
  <2> QED
    BY <2>1, <2>2 DEF IInv
<1>13. ASSUME NEW r \in Clerk, RollsBack(r) PROVE IInv'
  <2>1. TypeOK' /\ Relied'
    BY <1>13, EndingReleases DEF IInv, TypeOK, Relied, RollsBack
  <2> QED
    BY <1>13, <2>1, EndingReleases
       DEF IInv, RollsBack, PaidOnce, ReservedApproved, ReservedOnce, Items
<1>14. CASE UNCHANGED vars
  BY <1>14 DEF vars, IInv, TypeOK, Relied, LocksApart, Locks, PaidOnce, ReservedApproved,
     ReservedOnce, Items
<1> QED
  BY <1>1, <1>2, <1>3, <1>5, <1>6, <1>7, <1>8, <1>9, <1>10, <1>11, <1>12, <1>13, <1>14 DEF Next

LEMMA Inductive == Spec => []IInv
<1>1. Init => IInv
  BY NothingAssumption DEF Init, IInv, TypeOK, Relied, LocksApart, Locks, PaidOnce,
     ReservedApproved, ReservedOnce, Items, Steps, CommissionSteps
<1> QED
  BY <1>1, StepInductive, PTL DEF Spec

-----------------------------------------------------------------------------
\* No commission is paid twice, by payouts or by the individual endpoint.
THEOREM PaidOnceHolds == Spec => []PaidOnce
BY Inductive, PTL DEF IInv

\* A reserved commission stays APPROVED, so that releasing it needs no undo.
THEOREM ReservedApprovedHolds == Spec => []ReservedApproved
BY Inductive, PTL DEF IInv

\* No commission is in two payouts that are pending or paid.
THEOREM ReservedOnceHolds == Spec => []ReservedOnce
BY Inductive, PTL DEF IInv
=============================================================================
