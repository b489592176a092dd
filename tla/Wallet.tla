------------------------------- MODULE Wallet -------------------------------
(***************************************************************************)
(* What the wallet of one owner promises (src/internal/wallet, and the     *)
(* debits of src/internal/subscription): every operation takes effect at   *)
(* once.  WalletTx gives the statements, locks and snapshots the code has  *)
(* instead, and is shown to implement this module.                         *)
(*                                                                         *)
(* Amounts are whole cents.  credited, debited and waived are the sums the *)
(* database computes over the rows: SUM(amount) of the ledger by direction *)
(* (walletSelect's ledger_balance is their difference) and the             *)
(* balance_shortfall_amount of the orders.                                 *)
(***************************************************************************)
EXTENDS Integers, Sequences, FiniteSets

CONSTANTS
    Payment,   \* top-up requests (wallet_payments)
    Posting,   \* idempotency keys of manual postings and of orders
    Amount     \* the amount each of them asks for

ASSUME AmountAssumption ==
    /\ Amount \in [Payment \cup Posting -> Nat \ {0}]
    /\ Payment \cap Posting = {}

VARIABLES
    payment,   \* wallet_payments.status; "NONE" before CreateTopup
    lapsed,    \* the payments whose session_expires_at has passed
    balance,   \* wallet_accounts.balance
    ledger,    \* wallet_transactions, in id order
    credited, debited, waived

money == <<balance, ledger, credited, debited, waived>>
vars == <<payment, lapsed, money>>

Directions == {"CREDIT", "DEBIT"}
Entries == [key : Payment \cup Posting, direction : Directions,
            amount : Nat, before : Nat, after : Nat]

TypeOK ==
    /\ payment \in [Payment -> {"NONE", "PENDING", "ACCEPTED", "REJECTED", "EXPIRED"}]
    /\ lapsed \subseteq Payment
    /\ balance \in Nat
    /\ ledger \in Seq(Entries)
    /\ credited \in Nat /\ debited \in Nat /\ waived \in Nat

Init ==
    /\ payment = [p \in Payment |-> "NONE"]
    /\ lapsed = {}
    /\ balance = 0
    /\ ledger = <<>>
    /\ credited = 0 /\ debited = 0 /\ waived = 0

\* UNIQUE idempotency_key: the keys that have a ledger row
Posted(k) == \E i \in 1..Len(ledger) : ledger[i].key = k

\* A ledger row and the balance that follows from it
Post(k, direction, before, after) ==
    /\ ledger' = Append(ledger, [key |-> k, direction |-> direction, amount |-> Amount[k],
                                 before |-> before, after |-> after])
    /\ balance' = after
    /\ credited' = IF direction = "CREDIT" THEN credited + Amount[k] ELSE credited
    /\ debited' = IF direction = "DEBIT" THEN debited + Amount[k] ELSE debited

Request(p) ==
    /\ payment[p] = "NONE"
    /\ payment' = [payment EXCEPT ![p] = "PENDING"]
    /\ UNCHANGED <<lapsed, money>>

\* 24 hours pass.
Lapse(p) ==
    /\ payment[p] # "NONE" /\ p \notin lapsed
    /\ lapsed' = lapsed \cup {p}
    /\ UNCHANGED <<payment, money>>

\* A lapsed session does not matter as long as nobody has expired it.
Accept(p) ==
    /\ payment[p] = "PENDING" /\ ~Posted(p)
    /\ payment' = [payment EXCEPT ![p] = "ACCEPTED"]
    /\ Post(p, "CREDIT", balance, balance + Amount[p])
    /\ UNCHANGED <<lapsed, waived>>

Reject(p) ==
    /\ payment[p] = "PENDING"
    /\ payment' = [payment EXCEPT ![p] = "REJECTED"]
    /\ UNCHANGED <<lapsed, money>>

\* ExpireStaleTopups: one UPDATE over all payments
Expired(p) == payment[p] = "PENDING" /\ p \in lapsed

Expire ==
    /\ \E p \in Payment : Expired(p)
    /\ payment' = [p \in Payment |-> IF Expired(p) THEN "EXPIRED" ELSE payment[p]]
    /\ UNCHANGED <<lapsed, money>>

\* CreateDebit, CreateAdjustment, CreateRefund
Manual(k, direction) ==
    /\ ~Posted(k)
    /\ direction = "DEBIT" => balance >= Amount[k]
    /\ Post(k, direction, balance,
            IF direction = "CREDIT" THEN balance + Amount[k] ELSE balance - Amount[k])
    /\ UNCHANGED <<payment, lapsed, waived>>

\* The wallet's part of a subscription order or upgrade.  An administrator's
\* order may exceed the balance: the rest is waived.
Order(k, admin) ==
    /\ ~Posted(k)
    /\ admin \/ balance >= Amount[k]
    /\ IF balance >= Amount[k]
       THEN Post(k, "DEBIT", balance, balance - Amount[k]) /\ UNCHANGED waived
       ELSE Post(k, "DEBIT", balance, 0) /\ waived' = waived + (Amount[k] - balance)
    /\ UNCHANGED <<payment, lapsed>>

Next ==
    \/ \E p \in Payment : Request(p) \/ Lapse(p) \/ Accept(p) \/ Reject(p)
    \/ Expire
    \/ \E k \in Posting :
        \/ \E direction \in Directions : Manual(k, direction)
        \/ \E admin \in BOOLEAN : Order(k, admin)

Spec == Init /\ [][Next]_vars

-----------------------------------------------------------------------------
(***************************************************************************)
(* Properties.  They are checked of WalletTx, where they can go wrong.     *)
(***************************************************************************)

\* The ledger is a chain: each row starts from the balance the row before it
\* left, the first from zero, and the account holds what the last row left.
Chained ==
    /\ \A i \in 1..Len(ledger) :
        ledger[i].before = IF i = 1 THEN 0 ELSE ledger[i - 1].after
    /\ balance = IF ledger = <<>> THEN 0 ELSE ledger[Len(ledger)].after

\* No money appears or disappears: the balance is what came in, less what
\* went out, plus what administrators' orders were let off.
Conserved == balance = credited - debited + waived

\* A top-up is credited exactly once if it was accepted, never otherwise, and
\* no idempotency key is posted twice.
CreditedOnce ==
    /\ \A p \in Payment : Posted(p) <=> payment[p] = "ACCEPTED"
    /\ \A i, j \in 1..Len(ledger) : ledger[i].key = ledger[j].key => i = j

\* An accepted, rejected or expired top-up keeps that status.
DecidedOnce ==
    [][\A p \in Payment :
        payment[p] \notin {"NONE", "PENDING"} => payment'[p] = payment[p]]_vars
=============================================================================
