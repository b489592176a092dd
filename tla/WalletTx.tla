------------------------------ MODULE WalletTx ------------------------------
(***************************************************************************)
(* The wallet as the code runs it: every operation is a MySQL transaction  *)
(* of several statements on a connection of its own, under InnoDB's        *)
(* REPEATABLE READ.  One owner, one wallet row.                            *)
(*                                                                         *)
(* A transaction's writes are applied when it commits: until then they are *)
(* behind row locks no other reader of current rows passes, and plain      *)
(* SELECTs read the committed state.  Which locks a connection holds       *)
(* follows from where it is:                                               *)
(*   - SELECT ... FOR UPDATE locks a row of every table it joins;          *)
(*   - INSERT ... ON DUPLICATE KEY UPDATE locks the row it finds;          *)
(*   - INSERT takes a shared lock on the rows its foreign keys name.       *)
(* Locks are kept until the transaction ends.  InnoDB takes some more (the *)
(* foreign key of wallet_accounts itself): fewer locks, more interleavings.*)
(***************************************************************************)
EXTENDS Integers, Sequences, FiniteSets

CONSTANTS Payment, Posting, Amount,
          Conn,      \* connections: one request each at a time
          Nothing    \* "this connection works on nothing"

ASSUME AmountAssumption ==
    /\ Amount \in [Payment \cup Posting -> Nat \ {0}]
    /\ Payment \cap Posting = {}
    /\ Nothing \notin Payment \cup Posting

VARIABLES payment, lapsed, balance, ledger, credited, debited, waived,
          pc,      \* the statement each connection is to execute next
          key,     \* the payment or idempotency key it works on
          how,     \* a posting's direction, or whose order it is
          seen     \* the balance it has read

\* The wallet whose operations happen at once: the connections are hidden.
W == INSTANCE Wallet WITH payment <- payment, lapsed <- lapsed, balance <- balance,
                          ledger <- ledger, credited <- credited, debited <- debited,
                          waived <- waived

money == <<balance, ledger, credited, debited, waived>>
conn == <<pc, key, how, seen>>
txVars == <<payment, lapsed, money, conn>>

Accepting == {"accept owner", "accept read", "accept insert", "accept update"}
Rejecting == {"reject owner"}
ManualSteps == {"manual wallet", "manual owner", "manual post"}
OrderSteps == {"order wallet", "order insert", "order post"}
Hows == {"CREDIT", "DEBIT", "admin", "sales"}

TxTypeOK ==
    /\ W!TypeOK
    /\ pc \in [Conn -> {"idle"} \cup Accepting \cup Rejecting \cup ManualSteps \cup OrderSteps]
    /\ key \in [Conn -> Payment \cup Posting \cup {Nothing}]
    /\ how \in [Conn -> Hows]
    /\ seen \in [Conn -> Nat]
    /\ \A c \in Conn :
        /\ pc[c] \in Accepting \cup Rejecting => key[c] \in Payment
        /\ pc[c] \in ManualSteps => key[c] \in Posting /\ how[c] \in {"CREDIT", "DEBIT"}
        /\ pc[c] \in OrderSteps => key[c] \in Posting /\ how[c] \in {"admin", "sales"}

TxInit ==
    /\ W!Init
    /\ pc = [c \in Conn |-> "idle"]
    /\ key = [c \in Conn |-> Nothing]
    /\ how = [c \in Conn |-> "CREDIT"]
    /\ seen = [c \in Conn |-> 0]

(***************************************************************************)
(* Locks, by the step that follows the statement that took them.           *)
(***************************************************************************)
\* paymentSelect joins owners; the wallet package's lockWalletByOwner too
OwnerXManual == {"manual post"}
OwnerX == {"accept read", "accept insert", "accept update", "manual post"}

\* INSERT INTO subscription_orders, foreign key owner_id
OwnerS == {"order post"}

WalletXLate == {"manual post", "order post"}
WalletX == {"manual owner", "manual post", "order insert", "order post"}

\* INSERT INTO wallet_transactions, foreign key wallet_account_id
WalletS == {"accept update"}

Free(c, steps) == \A d \in Conn \ {c} : pc[d] \notin steps

PaymentFree(p) == \A c \in Conn : pc[c] \in Accepting \cup Rejecting => key[c] # p

Goes(c, step) == pc' = [pc EXCEPT ![c] = step]

Starts(c, step, k, h) ==
    /\ pc[c] = "idle"
    /\ Goes(c, step)
    /\ key' = [key EXCEPT ![c] = k]
    /\ how' = [how EXCEPT ![c] = h]
    /\ UNCHANGED <<payment, lapsed, money, seen>>

Advances(c, to) ==
    /\ Goes(c, to)
    /\ UNCHANGED <<payment, lapsed, money, key, how>>

\* COMMIT or ROLLBACK: the connection is free again
Ends(c) ==
    /\ Goes(c, "idle")
    /\ key' = [key EXCEPT ![c] = Nothing]
    /\ how' = [how EXCEPT ![c] = "CREDIT"]
    /\ seen' = [seen EXCEPT ![c] = 0]

Reads(c) == seen' = [seen EXCEPT ![c] = balance]

(***************************************************************************)
(* AcceptTopup.  findPaymentByIDForUpdate locks the payment, then its      *)
(* owner; the wallet is read without a lock.                               *)
(***************************************************************************)
AnyStatus(p) == payment[p] # "NONE"
StillPending(p) == payment[p] = "PENDING"

AcceptLocksPayment(c, p) ==
    /\ payment[p] # "NONE"
    /\ PaymentFree(p)
    /\ Starts(c, "accept owner", p, "CREDIT")

AcceptLocksOwner(c) ==
    /\ pc[c] = "accept owner"
    /\ Free(c, OwnerX \cup OwnerS)
    /\ StillPending(key[c])
    /\ Advances(c, "accept read")
    /\ UNCHANGED seen

AcceptReads(c) ==
    /\ pc[c] = "accept read"
    /\ Advances(c, "accept insert")
    /\ Reads(c)

AcceptInserts(c) ==
    /\ pc[c] = "accept insert"
    /\ Free(c, WalletX)
    /\ ~W!Posted(key[c])
    /\ Advances(c, "accept update")
    /\ UNCHANGED seen

\* updateWalletBalance writes the computed balance, the payment is ACCEPTED
AcceptCommits(c) ==
    /\ pc[c] = "accept update"
    /\ Free(c, WalletX \cup WalletS)
    /\ W!Post(key[c], "CREDIT", seen[c], seen[c] + Amount[key[c]])
    /\ payment' = [payment EXCEPT ![key[c]] = "ACCEPTED"]
    /\ Ends(c)
    /\ UNCHANGED <<lapsed, waived>>

(***************************************************************************)
(* RejectTopup                                                             *)
(***************************************************************************)
RejectLocksPayment(c, p) ==
    /\ payment[p] # "NONE"
    /\ PaymentFree(p)
    /\ Starts(c, "reject owner", p, "CREDIT")

RejectCommits(c) ==
    /\ pc[c] = "reject owner"
    /\ Free(c, OwnerX \cup OwnerS)
    /\ StillPending(key[c])
    /\ payment' = [payment EXCEPT ![key[c]] = "REJECTED"]
    /\ Ends(c)
    /\ UNCHANGED <<lapsed, money>>

(***************************************************************************)
(* createManualLedger: the idempotency key is looked up by a plain SELECT; *)
(* lockOrCreateWallet locks the wallet, then wallet and owner, and returns *)
(* the current balance.                                                    *)
(***************************************************************************)
ManualBegins(c, k, direction) ==
    /\ ~W!Posted(k)
    /\ Starts(c, "manual wallet", k, direction)

ManualLocksWallet(c) ==
    /\ pc[c] = "manual wallet"
    /\ Free(c, WalletX \cup WalletS)
    /\ Advances(c, "manual owner")
    /\ UNCHANGED seen

ManualLocksOwner(c) ==
    /\ pc[c] = "manual owner"
    /\ Free(c, OwnerX \cup OwnerS)
    /\ Advances(c, "manual post")
    /\ Reads(c)

\* applyBalance
AlwaysCovers(c) == TRUE
Covers(c) == seen[c] >= Amount[key[c]]

ManualCommits(c) ==
    /\ pc[c] = "manual post"
    /\ ~W!Posted(key[c])
    /\ IF how[c] = "CREDIT"
       THEN W!Post(key[c], "CREDIT", seen[c], seen[c] + Amount[key[c]])
       ELSE Covers(c) /\ W!Post(key[c], "DEBIT", seen[c], seen[c] - Amount[key[c]])
    /\ Ends(c)
    /\ UNCHANGED <<payment, lapsed, waived>>

(***************************************************************************)
(* CreateOrder and CreateUpgrade, as far as they touch the wallet: the     *)
(* subscription package locks the wallet row only, without the owner.      *)
(***************************************************************************)
OrderBegins(c, k, actor) ==
    /\ ~W!Posted(k)
    /\ Starts(c, "order wallet", k, actor)

OrderLocksWallet(c) ==
    /\ pc[c] = "order wallet"
    /\ Free(c, WalletX \cup WalletS)
    /\ how[c] = "sales" => balance >= Amount[key[c]]
    /\ Advances(c, "order insert")
    /\ Reads(c)

OrderInserts(c) ==
    /\ pc[c] = "order insert"
    /\ Free(c, OwnerX)
    /\ ~W!Posted(key[c])
    /\ Advances(c, "order post")
    /\ UNCHANGED seen

OrderCommits(c) ==
    /\ pc[c] = "order post"
    /\ IF Covers(c)
       THEN W!Post(key[c], "DEBIT", seen[c], seen[c] - Amount[key[c]]) /\ UNCHANGED waived
       ELSE W!Post(key[c], "DEBIT", seen[c], 0) /\ waived' = waived + (Amount[key[c]] - seen[c])
    /\ Ends(c)
    /\ UNCHANGED <<payment, lapsed>>

(***************************************************************************)
(* A transaction is rolled back: a check of the code refuses it, a unique  *)
(* key is taken, it is the victim of a deadlock, or its process dies.      *)
(***************************************************************************)
RollsBack(c) ==
    /\ pc[c] # "idle"
    /\ Ends(c)
    /\ UNCHANGED <<payment, lapsed, money>>

(***************************************************************************)
(* Single statements, and CreateTopup, whose locks are free when it runs   *)
(* and which writes nothing another transaction has read.                  *)
(***************************************************************************)
CreateTopup(p) ==
    /\ \A c \in Conn : pc[c] \notin OwnerX \cup OwnerS \cup WalletX \cup WalletS
    /\ W!Request(p)
    /\ UNCHANGED conn

SessionLapses(p) == W!Lapse(p) /\ UNCHANGED conn

\* The UPDATE waits for the rows another transaction has locked.
ExpireStaleTopups ==
    /\ \A p \in Payment : W!Expired(p) => PaymentFree(p)
    /\ W!Expire
    /\ UNCHANGED conn

TxNext ==
    \/ \E p \in Payment : CreateTopup(p) \/ SessionLapses(p)
    \/ ExpireStaleTopups
    \/ \E c \in Conn :
        \/ \E p \in Payment : AcceptLocksPayment(c, p) \/ RejectLocksPayment(c, p)
        \/ AcceptLocksOwner(c) \/ AcceptReads(c) \/ AcceptInserts(c) \/ AcceptCommits(c)
        \/ RejectCommits(c)
        \/ \E k \in Posting :
            \/ \E direction \in W!Directions : ManualBegins(c, k, direction)
            \/ \E actor \in {"admin", "sales"} : OrderBegins(c, k, actor)
        \/ ManualLocksWallet(c) \/ ManualLocksOwner(c) \/ ManualCommits(c)
        \/ OrderLocksWallet(c) \/ OrderInserts(c) \/ OrderCommits(c)
        \/ RollsBack(c)

TxSpec == TxInit /\ [][TxNext]_txVars

-----------------------------------------------------------------------------
(***************************************************************************)
(* Properties.                                                             *)
(***************************************************************************)

\* The wallet's promises, kept by the transactions (see Wallet).
Chained == W!Chained
Conserved == W!Conserved
CreditedOnce == W!CreditedOnce
DecidedOnce == W!DecidedOnce

\* The balance a transaction is about to write was computed from a balance
\* nobody can have changed since: AcceptTopup holds the owner's row, the
\* others the wallet's.
SeenIsFresh ==
    \A c \in Conn :
        pc[c] \in {"accept insert", "accept update", "manual post", "order insert", "order post"}
            => seen[c] = balance

\* The transactions implement the wallet whose operations happen at once.
ImplementsWallet == W!Spec
=============================================================================
