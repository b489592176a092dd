--------------------------- MODULE TransferMatch ---------------------------
(***************************************************************************)
(* Matching an owner's bank transfers with his top-ups (src/internal/      *)
(* transfer).  ConfirmMatch is one request but no transaction: it reads    *)
(* the transfer, records the match in one transaction and accepts the      *)
(* top-up in another, with a reverting third when that fails.  Meanwhile   *)
(* other requests match, reject and suggest, and the wallet module's own   *)
(* endpoints accept, reject and expire the same top-ups.                   *)
(*                                                                         *)
(* The wallet is the one of module Wallet, which WalletTx implements.      *)
(***************************************************************************)
EXTENDS Wallet

CONSTANTS
    Transfer,   \* owner_transfers
    Admin,      \* administrators, with one request each under way
    Nobody      \* "no payment", "no transfer", "accepted outside a match"

ASSUME NobodyAssumption == Nobody \notin Payment \cup Transfer

VARIABLES
    status,     \* owner_transfers.match_status; "NONE" before CreateTransfer
    matched,    \* owner_transfers.matched_wallet_payment_id
    step,       \* where each request is
    subject,    \* the transfer it is about
    choice,     \* the payment a ConfirmMatch names
    listed,     \* the transfers a SuggestMatches still has to mark
    creditedBy, \* history: the transfer whose ConfirmMatch credited a payment
    died        \* history: the transfers whose ConfirmMatch died half way

requests == <<step, subject, choice, listed>>
matchVars == <<vars, status, matched, requests, creditedBy, died>>

MatchTypeOK ==
    /\ TypeOK
    /\ status \in [Transfer -> {"NONE", "UNMATCHED", "SUGGESTED", "MATCHED", "REJECTED_MATCH"}]
    /\ matched \in [Transfer -> Payment \cup {Nobody}]
    /\ step \in [Admin -> {"idle", "checked", "recorded", "reverting", "suggesting"}]
    /\ subject \in [Admin -> Transfer \cup {Nobody}]
    /\ choice \in [Admin -> Payment \cup {Nobody}]
    /\ listed \in [Admin -> SUBSET Transfer]
    /\ creditedBy \in [Payment -> Transfer \cup {Nobody}]
    /\ died \subseteq Transfer
    /\ \A t \in Transfer : status[t] = "MATCHED" <=> matched[t] # Nobody

MatchInit ==
    /\ Init
    /\ status = [t \in Transfer |-> "NONE"]
    /\ matched = [t \in Transfer |-> Nobody]
    /\ step = [r \in Admin |-> "idle"]
    /\ subject = [r \in Admin |-> Nobody]
    /\ choice = [r \in Admin |-> Nobody]
    /\ listed = [r \in Admin |-> {}]
    /\ creditedBy = [p \in Payment |-> Nobody]
    /\ died = {}

Goes(r, to) == step' = [step EXCEPT ![r] = to]

Ends(r) ==
    /\ Goes(r, "idle")
    /\ subject' = [subject EXCEPT ![r] = Nobody]
    /\ choice' = [choice EXCEPT ![r] = Nobody]
    /\ listed' = [listed EXCEPT ![r] = {}]

Moves(t, to) == status' = [status EXCEPT ![t] = to]

CreateTransfer(t) ==
    /\ status[t] = "NONE"
    /\ Moves(t, "UNMATCHED")
    /\ UNCHANGED <<vars, matched, requests, creditedBy, died>>

-----------------------------------------------------------------------------
(***************************************************************************)
(* ConfirmMatch                                                            *)
(***************************************************************************)
AnyTransfer(t) == status[t] # "NONE"
Confirmable(t) == status[t] \notin {"NONE", "MATCHED"}

\* GetByID and GetPayment, outside any transaction
ConfirmChecks(r, t, p) ==
    /\ step[r] = "idle"
    /\ Confirmable(t) /\ payment[p] # "NONE"
    /\ Goes(r, "checked")
    /\ subject' = [subject EXCEPT ![r] = t]
    /\ choice' = [choice EXCEPT ![r] = p]
    /\ UNCHANGED <<vars, status, matched, listed, creditedBy, died>>

\* The repository's ConfirmMatch: the row is locked and checked again.
ConfirmRecords(r) ==
    /\ step[r] = "checked"
    /\ Confirmable(subject[r])
    /\ Moves(subject[r], "MATCHED")
    /\ matched' = [matched EXCEPT ![subject[r]] = choice[r]]
    /\ Goes(r, "recorded")
    /\ UNCHANGED <<vars, subject, choice, listed, creditedBy, died>>

TopupAccepted(r) ==
    /\ step[r] = "recorded"
    /\ Accept(choice[r])
    /\ creditedBy' = [creditedBy EXCEPT ![choice[r]] = subject[r]]
    /\ Ends(r)
    /\ UNCHANGED <<status, matched, died>>

\* AcceptTopup is refused, or its transaction is aborted.
TopupFails(r) ==
    /\ step[r] = "recorded"
    /\ Goes(r, "reverting")
    /\ UNCHANGED <<vars, status, matched, subject, choice, listed, creditedBy, died>>

(***************************************************************************)
(* The repository's RejectMatch, which refuses a transfer that is MATCHED; *)
(* the automatic revert drops its error.                                   *)
(***************************************************************************)
RejectedAlways(t) == Moves(t, "REJECTED_MATCH")
Rejected(t) == status' = [status EXCEPT ![t] = IF @ = "MATCHED" THEN @ ELSE "REJECTED_MATCH"]

AutoReverts(r) ==
    /\ step[r] = "reverting"
    /\ Rejected(subject[r])
    /\ Ends(r)
    /\ UNCHANGED <<vars, matched, creditedBy, died>>

RejectMatch(t) ==
    /\ Confirmable(t)
    /\ Rejected(t)
    /\ UNCHANGED <<vars, matched, requests, creditedBy, died>>

-----------------------------------------------------------------------------
(***************************************************************************)
(* SuggestMatches lists the open transfers and the pending top-ups, then   *)
(* marks one transfer after another.  Which of them has a top-up old       *)
(* enough is data.                                                         *)
(***************************************************************************)
SuggestLists(r, candidates) ==
    /\ step[r] = "idle"
    /\ candidates # {}
    /\ \A t \in candidates : status[t] \in {"UNMATCHED", "SUGGESTED"}
    /\ \E p \in Payment : payment[p] = "PENDING"
    /\ Goes(r, "suggesting")
    /\ listed' = [listed EXCEPT ![r] = candidates]
    /\ UNCHANGED <<vars, status, matched, subject, choice, creditedBy, died>>

\* UPDATE ... WHERE id = ? AND match_status = 'UNMATCHED'
SuggestedAlways(t) == Moves(t, "SUGGESTED")
Suggested(t) == status' = [status EXCEPT ![t] = IF @ = "UNMATCHED" THEN "SUGGESTED" ELSE @]

MarkSuggested(r, t) ==
    /\ step[r] = "suggesting" /\ t \in listed[r]
    /\ Suggested(t)
    /\ IF listed[r] = {t}
       THEN Ends(r)
       ELSE /\ listed' = [listed EXCEPT ![r] = @ \ {t}]
            /\ UNCHANGED <<step, subject, choice>>
    /\ UNCHANGED <<vars, matched, creditedBy, died>>

-----------------------------------------------------------------------------
\* A request's process dies, or its caller gives up.
RequestEnds(r) ==
    /\ step[r] # "idle"
    /\ died' = IF step[r] \in {"recorded", "reverting"} THEN died \cup {subject[r]} ELSE died
    /\ Ends(r)
    /\ UNCHANGED <<vars, status, matched, creditedBy>>

\* The wallet's own endpoints and its worker
WalletActs ==
    /\ \/ \E p \in Payment : Request(p) \/ Lapse(p) \/ Accept(p) \/ Reject(p)
       \/ Expire
    /\ UNCHANGED <<status, matched, requests, creditedBy, died>>

MatchNext ==
    \/ \E t \in Transfer : CreateTransfer(t) \/ RejectMatch(t)
    \/ \E r \in Admin :
        \/ \E t \in Transfer, p \in Payment : ConfirmChecks(r, t, p)
        \/ ConfirmRecords(r) \/ TopupAccepted(r) \/ TopupFails(r) \/ AutoReverts(r)
        \/ \E candidates \in SUBSET Transfer : SuggestLists(r, candidates)
        \/ \E t \in Transfer : MarkSuggested(r, t)
        \/ RequestEnds(r)
    \/ WalletActs

MatchSpec == MatchInit /\ [][MatchNext]_matchVars

-----------------------------------------------------------------------------
(***************************************************************************)
(* Properties.                                                             *)
(***************************************************************************)

\* Two concurrent decisions on one transfer do not both succeed: a transfer
\* pays for at most one top-up, and the one it paid for is the one it is
\* matched with (getForUpdate's comment).
CreditBacked ==
    \A p \in Payment : creditedBy[p] # Nobody =>
        /\ payment[p] = "ACCEPTED"
        /\ status[creditedBy[p]] = "MATCHED"
        /\ matched[creditedBy[p]] = p

\* A match, once recorded, is never changed by a suggestion, a rejection or
\* another confirmation that was already under way.
MatchFinal ==
    [][\A t \in Transfer : status[t] = "MATCHED" =>
        status'[t] = "MATCHED" /\ matched'[t] = matched[t]]_matchVars

\* "If AcceptTopup fails, the transfer-side match is not left dangling": the
\* top-up of a MATCHED transfer is accepted, once no request is working on the
\* transfer, unless one died between its transactions.
NotLeftDangling ==
    \A t \in Transfer :
        status[t] = "MATCHED" /\ t \notin died /\ (\A r \in Admin : subject[r] # t)
            => payment[matched[t]] = "ACCEPTED"
=============================================================================
