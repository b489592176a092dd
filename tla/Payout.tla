------------------------------- MODULE Payout -------------------------------
(***************************************************************************)
(* The commissions of one partner and the payouts that batch them          *)
(* (src/internal/partner).  Every request is a MySQL transaction; one that *)
(* locks a row, reads and then writes is two steps here, and its writes    *)
(* are applied when it commits.                                            *)
(*                                                                         *)
(* CreatePayout's SELECT ... FOR UPDATE locks the commissions it returns   *)
(* and reads their current status, but its NOT EXISTS subquery is a plain  *)
(* read: it sees the payout items as of the transaction's snapshot, which  *)
(* is opened while the statement may still wait for a row.                 *)
(***************************************************************************)
EXTENDS Integers, FiniteSets

CONSTANTS
    Commission,  \* partner_commissions, one per confirmed closing
    Batch,       \* partner_payouts
    Clerk,       \* requests under way, one per clerk
    Nothing      \* "this clerk works on nothing"

ASSUME NothingAssumption == Nothing \notin Commission \cup Batch

VARIABLES
    commission,  \* partner_commissions.status; "NONE" before SyncCommissions
    payout,      \* partner_payouts.status; "NONE" before CreatePayout
    items,       \* the commissions of each payout (partner_payout_items)
    pc,          \* the statement each clerk's request executes next
    target,      \* the commission or payout its request is about
    snapshot,    \* the reserved commissions a CreatePayout has read
    chosen,      \* the commissions a CreatePayout or SyncCommissions found
    paid         \* history: how often each commission was paid

rows == <<commission, payout, items>>
clerk == <<pc, target, snapshot, chosen>>
vars == <<rows, clerk, paid>>

CommissionSteps == {"pay", "cancel"}
Steps == {"idle", "sync", "select", "insert"} \cup CommissionSteps

\* An item is released exactly when its payout is cancelled.
Items(b) == IF payout[b] = "CANCELLED" THEN {} ELSE items[b]

\* released_at IS NULL
Reserved == UNION {Items(b) : b \in Batch}

TypeOK ==
    /\ commission \in [Commission -> {"NONE", "PENDING", "APPROVED", "PAID", "CANCELLED"}]
    /\ payout \in [Batch -> {"NONE", "PENDING", "PAID", "CANCELLED"}]
    /\ items \in [Batch -> SUBSET Commission]
    /\ pc \in [Clerk -> Steps]
    /\ target \in [Clerk -> Commission \cup {Nothing}]
    /\ snapshot \in [Clerk -> SUBSET Commission]
    /\ chosen \in [Clerk -> SUBSET Commission]
    /\ paid \in [Commission -> Nat]
    /\ \A r \in Clerk : pc[r] \in CommissionSteps <=> target[r] # Nothing
    /\ \A b \in Batch : items[b] = {} <=> payout[b] = "NONE"

Init ==
    /\ commission = [c \in Commission |-> "NONE"]
    /\ payout = [b \in Batch |-> "NONE"]
    /\ items = [b \in Batch |-> {}]
    /\ pc = [r \in Clerk |-> "idle"]
    /\ target = [r \in Clerk |-> Nothing]
    /\ snapshot = [r \in Clerk |-> {}]
    /\ chosen = [r \in Clerk |-> {}]
    /\ paid = [c \in Commission |-> 0]

\* The commission rows a request holds locked between two statements
Locks(r) == IF pc[r] = "insert" THEN chosen[r]
            ELSE IF pc[r] \in CommissionSteps THEN {target[r]} ELSE {}

Free(c) == \A r \in Clerk : c \notin Locks(r)

Goes(r, to) == pc' = [pc EXCEPT ![r] = to]

Ends(r) ==
    /\ Goes(r, "idle")
    /\ target' = [target EXCEPT ![r] = Nothing]
    /\ snapshot' = [snapshot EXCEPT ![r] = {}]
    /\ chosen' = [chosen EXCEPT ![r] = {}]

-----------------------------------------------------------------------------
(***************************************************************************)
(* Commissions.                                                            *)
(***************************************************************************)
\* findSyncableClosings: the confirmed closings without a commission
SyncReads(r, closings) ==
    /\ pc[r] = "idle"
    /\ closings # {} /\ \A c \in closings : commission[c] = "NONE"
    /\ Goes(r, "sync")
    /\ chosen' = [chosen EXCEPT ![r] = closings]
    /\ UNCHANGED <<rows, target, snapshot, paid>>

\* uq_partner_commissions_closing: a closing synced meanwhile refuses them all.
SyncCommits(r) ==
    /\ pc[r] = "sync"
    /\ \A c \in chosen[r] : commission[c] = "NONE"
    /\ commission' = [c \in Commission |-> IF c \in chosen[r] THEN "PENDING" ELSE commission[c]]
    /\ Ends(r)
    /\ UNCHANGED <<payout, items, paid>>

ApproveCommission(c) ==
    /\ Free(c) /\ commission[c] = "PENDING"
    /\ commission' = [commission EXCEPT ![c] = "APPROVED"]
    /\ UNCHANGED <<payout, items, clerk, paid>>

\* lockCommissionStatus and the check of the status
LocksCommission(r, step, c) ==
    /\ pc[r] = "idle"
    /\ Free(c)
    /\ Goes(r, step)
    /\ target' = [target EXCEPT ![r] = c]
    /\ UNCHANGED <<rows, snapshot, chosen, paid>>

PayLocks(r, c) == commission[c] = "APPROVED" /\ LocksCommission(r, "pay", c)

CancelLocks(r, c) ==
    commission[c] \in {"PENDING", "APPROVED"} /\ LocksCommission(r, "cancel", c)

\* ensureCommissionNotInPayout
NoCheck(c) == TRUE
NotInPayout(c) == c \notin Reserved

MarkCommissionPaid(r) ==
    /\ pc[r] = "pay"
    /\ NotInPayout(target[r])
    /\ commission' = [commission EXCEPT ![target[r]] = "PAID"]
    /\ paid' = [paid EXCEPT ![target[r]] = @ + 1]
    /\ Ends(r)
    /\ UNCHANGED <<payout, items>>

CancelCommission(r) ==
    /\ pc[r] = "cancel"
    /\ NotInPayout(target[r])
    /\ commission' = [commission EXCEPT ![target[r]] = "CANCELLED"]
    /\ Ends(r)
    /\ UNCHANGED <<payout, items, paid>>

-----------------------------------------------------------------------------
(***************************************************************************)
(* Payouts.                                                                *)
(***************************************************************************)
PayoutBegins(r) ==
    /\ pc[r] = "idle"
    /\ Goes(r, "select")
    /\ snapshot' = [snapshot EXCEPT ![r] = Reserved]
    /\ UNCHANGED <<rows, target, chosen, paid>>

Eligible(r) == {c \in Commission : commission[c] = "APPROVED" /\ c \notin snapshot[r]}

PayoutSelectsNone(r) ==
    /\ pc[r] = "select"
    /\ \A c \in Eligible(r) : Free(c)
    /\ Goes(r, "insert")
    /\ chosen' = [chosen EXCEPT ![r] = Eligible(r)]
    /\ UNCHANGED <<rows, target, snapshot, paid>>

\* ErrNoPayableCommissions if there are none
PayoutSelects(r) ==
    /\ pc[r] = "select"
    /\ Eligible(r) # {} /\ \A c \in Eligible(r) : Free(c)
    /\ Goes(r, "insert")
    /\ chosen' = [chosen EXCEPT ![r] = Eligible(r)]
    /\ UNCHANGED <<rows, target, snapshot, paid>>

\* uq_partner_payout_items_active_commission
NoUniqueKey(r) == TRUE
UniqueItems(r) == chosen[r] \cap Reserved = {}

CreatePayout(r, b) ==
    /\ pc[r] = "insert" /\ payout[b] = "NONE"
    /\ UniqueItems(r)
    /\ payout' = [payout EXCEPT ![b] = "PENDING"]
    /\ items' = [items EXCEPT ![b] = chosen[r]]
    /\ Ends(r)
    /\ UNCHANGED <<commission, paid>>

AnyPayout(b) == payout[b] # "NONE"
StillPending(b) == payout[b] = "PENDING"

\* The payout is locked, then its commissions are updated whatever their status.
MarkPayoutPaid(b) ==
    /\ StillPending(b)
    /\ \A c \in Items(b) : Free(c)
    /\ payout' = [payout EXCEPT ![b] = "PAID"]
    /\ commission' = [c \in Commission |-> IF c \in Items(b) THEN "PAID" ELSE commission[c]]
    /\ paid' = [c \in Commission |-> IF c \in Items(b) THEN paid[c] + 1 ELSE paid[c]]
    /\ UNCHANGED <<items, clerk>>

CancelPayout(b) ==
    /\ StillPending(b)
    /\ payout' = [payout EXCEPT ![b] = "CANCELLED"]
    /\ UNCHANGED <<commission, items, clerk, paid>>

\* A check refuses the request, its transaction is aborted, or its process dies.
RollsBack(r) ==
    /\ pc[r] # "idle"
    /\ Ends(r)
    /\ UNCHANGED <<rows, paid>>

Next ==
    \/ \E r \in Clerk :
        \/ \E closings \in SUBSET Commission : SyncReads(r, closings)
        \/ SyncCommits(r)
        \/ \E c \in Commission : PayLocks(r, c) \/ CancelLocks(r, c)
        \/ MarkCommissionPaid(r) \/ CancelCommission(r)
        \/ PayoutBegins(r) \/ PayoutSelects(r)
        \/ \E b \in Batch : CreatePayout(r, b)
        \/ RollsBack(r)
    \/ \E c \in Commission : ApproveCommission(c)
    \/ \E b \in Batch : MarkPayoutPaid(b) \/ CancelPayout(b)

Spec == Init /\ [][Next]_vars

-----------------------------------------------------------------------------
(***************************************************************************)
(* Properties.                                                             *)
(***************************************************************************)

\* No commission is paid twice, neither by two payouts nor by a payout and
\* the individual endpoint (ensureCommissionNotInPayout's comment).
PaidOnce == \A c \in Commission : paid[c] = IF commission[c] = "PAID" THEN 1 ELSE 0

\* A commission "stays APPROVED for the entire time it merely sits reserved
\* in a PENDING payout", so that a cancelled payout leaves nothing to revert.
ReservedApproved ==
    \A b \in Batch : payout[b] = "PENDING" => \A c \in items[b] : commission[c] = "APPROVED"

\* No commission is in two payouts that are pending or paid.
ReservedOnce ==
    \A a, b \in Batch : a # b => Items(a) \cap Items(b) = {}

\* A commission that is paid or cancelled stays so, and so does a payout.
DecidedOnce ==
    [][/\ \A c \in Commission :
            commission[c] \in {"PAID", "CANCELLED"} => commission'[c] = commission[c]
       /\ \A b \in Batch :
            payout[b] \in {"PAID", "CANCELLED"} => payout'[b] = payout[b]]_vars
=============================================================================
