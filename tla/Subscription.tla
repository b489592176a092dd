---------------------------- MODULE Subscription ----------------------------
(***************************************************************************)
(* Subscription orders, the subscriptions they open, and their             *)
(* reconciliation with the closings the sales people report                *)
(* (src/internal/subscription, src/internal/closing), for one owner.       *)
(*                                                                         *)
(* A request that locks rows, reads and then writes is several steps; its  *)
(* writes are applied when it commits.  An order and the subscription it   *)
(* opens share a name: order_id is unique in subscriptions, and locking a  *)
(* subscription locks the order joined to it as well.  Days are counted    *)
(* from the start of the first subscription; the wallet an order debits is *)
(* the module Wallet, and a refusal there is a RollsBack here.             *)
(***************************************************************************)
EXTENDS Integers, FiniteSets

CONSTANTS
    Order,    \* subscription_orders
    Closing,  \* sales_closings
    Request,  \* requests under way
    LastDay,  \* the longest subscription, in days
    Null      \* SQL's NULL, and "no row"

ASSUME OrderAssumption == Null \notin Order \cup Closing
ASSUME LastDayAssumption == LastDay \in Nat \ {0}

VARIABLES
    order,    \* subscription_orders.status
    sub,      \* the subscription of each order, with its period
    recon,    \* the subscription_reconciliations row of each order
    closing,  \* sales_closings.status
    hidden,   \* the closings with a deleted_at
    issues,   \* the open reconciliation_issues, as <<order, closing>>
    pc,       \* the statement each request executes next
    subject,  \* the order (and subscription) it has locked
    match,    \* the closing it has locked
    seen      \* the confirmed reconciliations its snapshot shows

rows == <<order, sub, recon, closing, hidden, issues>>
request == <<pc, subject, match, seen>>
vars == <<rows, request>>

Settled == {"CONFIRMED", "PARTIAL_CONFIRM"}

NoSub == [source |-> Null, status |-> "NONE", from |-> 0, until |-> 0, end |-> 0]
NoRecon == [closing |-> Null, status |-> "NONE"]

\* "end" is the day a subscription was opened to last until; for an upgrade it
\* is the order's upgrade_original_end_date.
TypeOK ==
    /\ order \in [Order -> {"NONE", "PAID", "RECONCILED", "REJECTED"}]
    /\ sub \in [Order -> [source : Order \cup {Null}, status : {"NONE", "ACTIVE", "CANCELED"},
                          from : 0..LastDay, until : 0..LastDay, end : 0..LastDay]]
    /\ recon \in [Order -> [closing : Closing \cup {Null},
                            status : {"NONE", "REJECTED"} \cup Settled]]
    /\ closing \in [Closing -> {"NONE", "PENDING", "CONFIRMED", "REJECTED", "GONE"}]
    /\ hidden \subseteq Closing
    /\ issues \subseteq Order \X (Closing \cup {Null})
    /\ pc \in [Request -> {"idle", "begun", "order", "upgrade", "reconcile"}]
    /\ subject \in [Request -> Order \cup {Null}]
    /\ match \in [Request -> Closing \cup {Null}]
    /\ seen \in [Request -> SUBSET (Closing \X Order)]
    /\ \A o \in Order :
        /\ sub[o].status = "NONE" <=> order[o] = "NONE"
        /\ sub[o].status # "NONE" => sub[o].from < sub[o].until

Init ==
    /\ order = [o \in Order |-> "NONE"]
    /\ sub = [o \in Order |-> NoSub]
    /\ recon = [o \in Order |-> NoRecon]
    /\ closing = [c \in Closing |-> "NONE"]
    /\ hidden = {}
    /\ issues = {}
    /\ pc = [r \in Request |-> "idle"]
    /\ subject = [r \in Request |-> Null]
    /\ match = [r \in Request |-> Null]
    /\ seen = [r \in Request |-> {}]

OrderFree(o) == \A r \in Request : subject[r] # o
ClosingFree(c) == \A r \in Request : match[r] # c

\* lockClosing finds it
Live(c) == closing[c] \notin {"NONE", "GONE"} /\ c \notin hidden

Confirmed == {<<recon[o].closing, o>> : o \in {x \in Order : recon[x].status = "CONFIRMED"}}
                 \cap (Closing \X Order)

Holds(r, step, o, c) ==
    /\ pc' = [pc EXCEPT ![r] = step]
    /\ subject' = [subject EXCEPT ![r] = o]
    /\ match' = [match EXCEPT ![r] = c]

Ends(r) == Holds(r, "idle", Null, Null) /\ seen' = [seen EXCEPT ![r] = {}]

-----------------------------------------------------------------------------
(***************************************************************************)
(* Helpers the handlers share.                                             *)
(***************************************************************************)
\* ensureClosingNotReconciledByOtherOrder, a plain read of CONFIRMED rows only
NotReconciledByOther(r, o) ==
    \A p \in seen[r] : p[1] = match[r] => p[2] = o

\* uq_subscription_reconciliations_closing
NoUniqueKey(c, o) == TRUE
Unclaimed(c, o) == \A x \in Order \ {o} : recon[x].closing # c

\* upsertReconciliation's check of the order's own row
NotSettled(o) == recon[o].status \notin Settled

ReconcilesKeepingStatus(o, c, outcome) ==
    recon' = [recon EXCEPT ![o].closing = c, ![o].status = IF @ = "NONE" THEN outcome ELSE @]
Reconciles(o, c, outcome) ==
    recon' = [recon EXCEPT ![o] = [closing |-> c, status |-> outcome]]

\* confirmOrderAndClosing: the closing unless it is REJECTED
ConfirmedAlways(c) == [closing EXCEPT ![c] = "CONFIRMED"]
ConfirmedUnlessRejected(c) ==
    [closing EXCEPT ![c] = IF @ = "REJECTED" THEN @ ELSE "CONFIRMED"]

\* resolveIssues: WHERE order_id = ? OR closing_id = ?
ResolvedByClosing(o, c) == {i \in issues : i[2] = c}
Resolved(o, c) == {i \in issues : i[1] = o \/ i[2] = c}

\* activateSubscription
Opened(source, from, until) ==
    [source |-> source, status |-> "ACTIVE", from |-> from, until |-> until, end |-> until]

\* trimSubscriptionForUpgrade
TrimKeepsStatus(s, day) == [sub[s] EXCEPT !.until = day]
Trimmed(s, day) == [sub[s] EXCEPT !.status = "CANCELED", !.until = day]

AnyStatus(s) == sub[s].status # "NONE"
StillActive(s) == sub[s].status = "ACTIVE"

\* An upgrade on the first day leaves zero days to the old subscription, which
\* chk_subscriptions_duration_positive refuses.
FirstDayToo(s, day) == sub[s].from <= day /\ day < sub[s].until
WithinPeriod(s, day) == sub[s].from < day /\ day < sub[s].until

-----------------------------------------------------------------------------
(***************************************************************************)
(* Orders and upgrades.                                                    *)
(***************************************************************************)
\* findOrderByIdempotency is a plain read: it opens the snapshot from which
\* the check for another reconciliation is answered later.
Begins(r) ==
    /\ pc[r] = "idle"
    /\ pc' = [pc EXCEPT ![r] = "begun"]
    /\ seen' = [seen EXCEPT ![r] = Confirmed]
    /\ UNCHANGED <<rows, subject, match>>

OrderLocks(r, c) ==
    /\ pc[r] = "begun"
    /\ ClosingFree(c) /\ Live(c) /\ closing[c] # "REJECTED"
    /\ Holds(r, "order", Null, c)
    /\ UNCHANGED <<rows, seen>>

CreateOrder(r, o, until) ==
    /\ pc[r] = "order" /\ order[o] = "NONE"
    /\ NotReconciledByOther(r, o) /\ Unclaimed(match[r], o)
    /\ order' = [order EXCEPT ![o] = "RECONCILED"]
    /\ sub' = [sub EXCEPT ![o] = Opened(Null, 0, until)]
    /\ Reconciles(o, match[r], "CONFIRMED")
    /\ closing' = ConfirmedUnlessRejected(match[r])
    /\ Ends(r)
    /\ UNCHANGED <<hidden, issues>>

\* The order is about no closing: it is left hanging and flagged.
CreateHangingOrder(o, until) ==
    /\ order[o] = "NONE"
    /\ order' = [order EXCEPT ![o] = "PAID"]
    /\ sub' = [sub EXCEPT ![o] = Opened(Null, 0, until)]
    /\ issues' = issues \cup {<<o, Null>>}
    /\ UNCHANGED <<recon, closing, hidden, request>>

UpgradeLocks(r, s, c) ==
    /\ pc[r] = "begun"
    /\ OrderFree(s) /\ StillActive(s)
    /\ ClosingFree(c) /\ Live(c) /\ closing[c] # "REJECTED"
    /\ Holds(r, "upgrade", s, c)
    /\ UNCHANGED <<rows, seen>>

\* CONFIRMED if the amounts agree, PARTIAL_CONFIRM if they differ
CreateUpgrade(r, o, day, outcome) ==
    LET s == subject[r]  c == match[r] IN
    /\ pc[r] = "upgrade" /\ order[o] = "NONE"
    /\ WithinPeriod(s, day)
    /\ NotReconciledByOther(r, o) /\ Unclaimed(c, o)
    /\ order' = [order EXCEPT ![o] = "RECONCILED"]
    /\ sub' = [sub EXCEPT ![s] = Trimmed(s, day), ![o] = Opened(s, day, sub[s].until)]
    /\ Reconciles(o, c, outcome)
    /\ closing' = ConfirmedUnlessRejected(c)
    /\ issues' = issues \ Resolved(o, c)
    /\ Ends(r)
    /\ UNCHANGED hidden

CreateHangingUpgrade(o, s, day) ==
    /\ order[o] = "NONE"
    /\ OrderFree(s) /\ StillActive(s) /\ WithinPeriod(s, day)
    /\ order' = [order EXCEPT ![o] = "PAID"]
    /\ sub' = [sub EXCEPT ![s] = Trimmed(s, day), ![o] = Opened(s, day, sub[s].until)]
    /\ issues' = issues \cup {<<o, Null>>}
    /\ UNCHANGED <<recon, closing, hidden, request>>

-----------------------------------------------------------------------------
(***************************************************************************)
(* Manual reconciliation.                                                  *)
(***************************************************************************)
NotYetReconciled(o) == order[o] \in {"PAID", "REJECTED"}

\* lockOrder, then lockClosing; the first plain read follows both.
ReconcileLocks(r, o, c) ==
    /\ pc[r] = "idle"
    /\ OrderFree(o) /\ NotYetReconciled(o)
    /\ ClosingFree(c) /\ Live(c)
    /\ Holds(r, "reconcile", o, c)
    /\ seen' = [seen EXCEPT ![r] = Confirmed]
    /\ UNCHANGED rows

ReconcileConfirms(r, outcome) ==
    LET o == subject[r]  c == match[r] IN
    /\ pc[r] = "reconcile"
    /\ NotReconciledByOther(r, o) /\ NotSettled(o) /\ Unclaimed(c, o)
    /\ order' = [order EXCEPT ![o] = "RECONCILED"]
    /\ Reconciles(o, c, outcome)
    /\ closing' = ConfirmedUnlessRejected(c)
    /\ issues' = issues \ Resolved(o, c)
    /\ Ends(r)
    /\ UNCHANGED <<sub, hidden>>

RejectedAlways(c) == [closing EXCEPT ![c] = "REJECTED"]
RejectedIfPending(c) == [closing EXCEPT ![c] = IF @ = "PENDING" THEN "REJECTED" ELSE @]

ReconcileRejects(r) ==
    LET o == subject[r]  c == match[r] IN
    /\ pc[r] = "reconcile"
    /\ NotReconciledByOther(r, o) /\ NotSettled(o) /\ Unclaimed(c, o)
    /\ order' = [order EXCEPT ![o] = "REJECTED"]
    /\ Reconciles(o, c, "REJECTED")
    /\ closing' = RejectedIfPending(c)
    /\ issues' = issues \cup {<<o, c>>}
    /\ Ends(r)
    /\ UNCHANGED <<sub, hidden>>

\* A check refuses the request, its transaction is aborted, or its process dies.
RollsBack(r) ==
    /\ pc[r] # "idle"
    /\ Ends(r)
    /\ UNCHANGED rows

-----------------------------------------------------------------------------
(***************************************************************************)
(* The closings' own endpoints.                                            *)
(***************************************************************************)
CreateClosing(c) ==
    /\ closing[c] = "NONE"
    /\ closing' = [closing EXCEPT ![c] = "PENDING"]
    /\ UNCHANGED <<order, sub, recon, hidden, issues, request>>

\* ConfirmClosing and RejectClosing
DecideClosing(c, status) ==
    /\ ClosingFree(c) /\ Live(c) /\ closing[c] = "PENDING"
    /\ closing' = [closing EXCEPT ![c] = status]
    /\ UNCHANGED <<order, sub, recon, hidden, issues, request>>

\* DeleteClosings and RestoreClosings look at no status.
HideClosing(c) ==
    /\ ClosingFree(c) /\ closing[c] \notin {"NONE", "GONE"}
    /\ hidden' \in {hidden \cup {c}, hidden \ {c}} /\ hidden' # hidden
    /\ UNCHANGED <<order, sub, recon, closing, issues, request>>

\* The foreign keys' ON DELETE SET NULL
ForceDeleteClosing(c) ==
    /\ ClosingFree(c) /\ closing[c] \notin {"NONE", "GONE"}
    /\ closing' = [closing EXCEPT ![c] = "GONE"]
    /\ hidden' = hidden \ {c}
    /\ recon' = [o \in Order |-> IF recon[o].closing = c
                                 THEN [recon[o] EXCEPT !.closing = Null] ELSE recon[o]]
    /\ issues' = {IF i[2] = c THEN <<i[1], Null>> ELSE i : i \in issues}
    /\ UNCHANGED <<order, sub, request>>

Next ==
    \/ \E r \in Request :
        \/ Begins(r) \/ RollsBack(r)
        \/ \E c \in Closing :
            \/ OrderLocks(r, c)
            \/ \E o \in Order : UpgradeLocks(r, o, c) \/ ReconcileLocks(r, o, c)
        \/ \E o \in Order, until \in 1..LastDay : CreateOrder(r, o, until)
        \/ \E o \in Order, day \in 1..LastDay, outcome \in Settled :
            CreateUpgrade(r, o, day, outcome)
        \/ \E outcome \in Settled : ReconcileConfirms(r, outcome)
        \/ ReconcileRejects(r)
    \/ \E o \in Order, until \in 1..LastDay : CreateHangingOrder(o, until)
    \/ \E o, s \in Order, day \in 1..LastDay : CreateHangingUpgrade(o, s, day)
    \/ \E c \in Closing :
        \/ CreateClosing(c) \/ HideClosing(c) \/ ForceDeleteClosing(c)
        \/ \E status \in {"CONFIRMED", "REJECTED"} : DecideClosing(c, status)

Spec == Init /\ [][Next]_vars

-----------------------------------------------------------------------------
(***************************************************************************)
(* Properties.                                                             *)
(***************************************************************************)

\* "without double counting revenue" (docs/sprint-10): no closing is the
\* counterpart of two orders, although the check for another order's row reads
\* a snapshot and overlooks partial confirmations.
ClosingCountedOnce ==
    \A o, x \in Order : o # x /\ recon[o].closing # Null => recon[o].closing # recon[x].closing

\* An order's status and the row that reconciles it tell the same story.
OrderMatchesRecon ==
    \A o \in Order :
        /\ order[o] = "RECONCILED" <=> recon[o].status \in Settled
        /\ order[o] = "REJECTED" <=> recon[o].status = "REJECTED"

\* An order is in the review queue exactly as long as it is not reconciled.
FlaggedUntilReconciled ==
    \A o \in Order :
        order[o] \in {"PAID", "REJECTED"} <=> \E i \in issues : i[1] = o

\* A closing that was confirmed or rejected stays so until it is deleted,
\* whatever orders are reconciled with it afterwards.
ClosingDecidedOnce ==
    [][\A c \in Closing : closing[c] \in {"CONFIRMED", "REJECTED"}
            => closing'[c] \in {closing[c], "GONE"}]_vars

\* An upgrade takes over where the subscription it replaces now stops, lasts
\* as long as that one was to last, and no subscription is replaced twice.
UpgradesAbut ==
    \A o \in Order : LET s == sub[o].source IN
        s # Null =>
            /\ sub[s].status = "CANCELED" /\ sub[s].until = sub[o].from
            /\ sub[o].end = sub[s].end
            /\ \A x \in Order \ {o} : sub[x].source # s

\* A subscription in force lasts as long as it was opened to.
ActiveUntilEnd ==
    \A o \in Order : sub[o].status = "ACTIVE" => sub[o].until = sub[o].end
=============================================================================
