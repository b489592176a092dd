---------------------------- MODULE WalletProofs ----------------------------
(***************************************************************************)
(* What Wallet promises, for any top-ups, postings and amounts, and, on    *)
(* top of it, what TransferMatch promises for any transfers and            *)
(* administrators.                                                         *)
(*                                                                         *)
(* All operations that move money append one row to the ledger, so the     *)
(* lemmas about Post carry the argument for the wallet; the theorems split *)
(* over the actions.                                                       *)
(***************************************************************************)
EXTENDS TransferMatch, TLAPS

\* What Post does to the ledger, independently of the operation behind it.
LEMMA PostAppends ==
    ASSUME TypeOK,
           NEW k \in Payment \cup Posting, NEW direction \in Directions,
           NEW before \in Nat, NEW after \in Nat,
           Post(k, direction, before, after)
    PROVE  /\ ledger' \in Seq(Entries)
           /\ Len(ledger') = Len(ledger) + 1
           /\ \A i \in 1..Len(ledger) : ledger'[i] = ledger[i]
           /\ ledger'[Len(ledger) + 1].key = k
           /\ ledger'[Len(ledger) + 1].before = before
           /\ ledger'[Len(ledger) + 1].after = after
           /\ balance' = after /\ credited' \in Nat /\ debited' \in Nat
<1> DEFINE e == [key |-> k, direction |-> direction, amount |-> Amount[k],
                 before |-> before, after |-> after]
<1>1. Amount[k] \in Nat
  BY AmountAssumption
<1>2. e \in Entries
  BY <1>1 DEF Entries
<1>3. ledger \in Seq(Entries) /\ ledger' = Append(ledger, e)
  BY DEF TypeOK, Post
<1> HIDE DEF e
<1>4. /\ ledger' \in Seq(Entries)
      /\ Len(ledger') = Len(ledger) + 1
      /\ \A i \in 1..Len(ledger) : ledger'[i] = ledger[i]
      /\ ledger'[Len(ledger) + 1] = e
  BY <1>2, <1>3
<1>5. balance' = after /\ credited' \in Nat /\ debited' \in Nat
  BY <1>1 DEF TypeOK, Post
<1> QED
  BY <1>4, <1>5 DEF e

\* A row is added for one key: exactly that key is newly posted.
LEMMA PostPosts ==
    ASSUME TypeOK,
           NEW k \in Payment \cup Posting, NEW direction \in Directions,
           NEW before \in Nat, NEW after \in Nat,
           Post(k, direction, before, after)
    PROVE  \A x : Posted(x)' <=> Posted(x) \/ x = k
<1>1. /\ Len(ledger) \in Nat
      /\ Len(ledger') = Len(ledger) + 1
      /\ \A i \in 1..Len(ledger) : ledger'[i] = ledger[i]
      /\ ledger'[Len(ledger) + 1].key = k
  BY PostAppends DEF TypeOK
<1> SUFFICES ASSUME NEW x PROVE Posted(x)' <=> Posted(x) \/ x = k
  OBVIOUS
<1>2. Posted(x)' => Posted(x) \/ x = k
  <2>1. SUFFICES ASSUME NEW i \in 1..Len(ledger'), ledger'[i].key = x
                 PROVE  Posted(x) \/ x = k
    BY DEF Posted
  <2>2. CASE i \in 1..Len(ledger)
    BY <1>1, <2>1, <2>2 DEF Posted
  <2>3. CASE i = Len(ledger) + 1
    BY <1>1, <2>1, <2>3
  <2> QED
    BY <1>1, <2>2, <2>3
<1>3. Posted(x) => Posted(x)'
  BY <1>1 DEF Posted
<1>4. x = k => Posted(x)'
  <2>1. Len(ledger) + 1 \in 1..Len(ledger')
    BY <1>1
  <2> QED
    BY <1>1, <2>1 DEF Posted
<1> QED
  BY <1>2, <1>3, <1>4

\* Every operation is a row appended after the current balance, or leaves all
\* money and every accepted top-up alone.
LEMMA StepKinds ==
    ASSUME TypeOK, [Next]_vars
    PROVE  \/ \E k \in Payment \cup Posting, direction \in Directions, after \in Nat :
                /\ Post(k, direction, balance, after)
                /\ ~Posted(k)
                /\ \/ k \in Posting /\ payment' = payment
                   \/ k \in Payment /\ payment[k] = "PENDING"
                        /\ payment' = [payment EXCEPT ![k] = "ACCEPTED"]
                /\ waived' \in Nat /\ lapsed' = lapsed
                /\ after = balance + (credited' - credited) - (debited' - debited)
                                   + (waived' - waived)
           \/ /\ UNCHANGED money
              /\ lapsed' \subseteq Payment
              /\ payment' \in [Payment -> {"NONE", "PENDING", "ACCEPTED", "REJECTED", "EXPIRED"}]
              /\ \A p \in Payment :
                    \/ payment'[p] = payment[p]
                    \/ payment[p] \in {"NONE", "PENDING"} /\ payment'[p] # "ACCEPTED"
<1>1. /\ \A k \in Payment \cup Posting : Amount[k] \in Nat
      /\ balance \in Nat /\ credited \in Nat /\ debited \in Nat /\ waived \in Nat
      /\ lapsed \subseteq Payment
      /\ payment \in [Payment -> {"NONE", "PENDING", "ACCEPTED", "REJECTED", "EXPIRED"}]
  BY AmountAssumption DEF TypeOK
<1>2. ASSUME NEW p \in Payment, Request(p) \/ Reject(p)
      PROVE  UNCHANGED <<money, lapsed>>
             /\ payment[p] \in {"NONE", "PENDING"}
             /\ \E s \in {"PENDING", "REJECTED"} : payment' = [payment EXCEPT ![p] = s]
  BY <1>2 DEF Request, Reject
<1>3. ASSUME NEW p \in Payment, Lapse(p)
      PROVE  UNCHANGED <<money, payment>> /\ lapsed' = lapsed \cup {p}
  BY <1>3 DEF Lapse
<1>4. ASSUME NEW p \in Payment, Accept(p)
      PROVE  /\ Post(p, "CREDIT", balance, balance + Amount[p])
             /\ ~Posted(p) /\ payment[p] = "PENDING"
             /\ payment' = [payment EXCEPT ![p] = "ACCEPTED"]
             /\ waived' = waived /\ lapsed' = lapsed
             /\ credited' = credited + Amount[p] /\ debited' = debited
  BY <1>4 DEF Accept, Post
<1>5. CASE Expire
  BY <1>1, <1>5 DEF Expire, Expired
<1>6. ASSUME NEW k \in Posting, NEW direction \in Directions, Manual(k, direction)
      PROVE  \E after \in Nat :
                /\ Post(k, direction, balance, after) /\ ~Posted(k)
                /\ payment' = payment /\ waived' = waived /\ lapsed' = lapsed
                /\ after = balance + (credited' - credited) - (debited' - debited)
  <2>1. CASE direction = "CREDIT"
    BY <1>1, <1>6, <2>1 DEF Manual, Post
  <2>2. CASE direction = "DEBIT"
    BY <1>1, <1>6, <2>2 DEF Manual, Post
  <2> QED
    BY <2>1, <2>2 DEF Directions
<1>7. ASSUME NEW k \in Posting, NEW admin \in BOOLEAN, Order(k, admin)
      PROVE  \E after \in Nat :
                /\ Post(k, "DEBIT", balance, after) /\ ~Posted(k)
                /\ payment' = payment /\ waived' \in Nat /\ lapsed' = lapsed
                /\ after = balance + (credited' - credited) - (debited' - debited)
                                   + (waived' - waived)
  <2>1. CASE balance >= Amount[k]
    BY <1>1, <1>7, <2>1 DEF Order, Post
  <2>2. CASE ~(balance >= Amount[k])
    <3>1. /\ Post(k, "DEBIT", balance, 0) /\ ~Posted(k)
          /\ payment' = payment /\ lapsed' = lapsed
          /\ waived' = waived + (Amount[k] - balance)
      BY <1>7, <2>2 DEF Order
    <3>2. credited' = credited /\ debited' = debited + Amount[k]
      BY <3>1 DEF Post
    <3>3. waived' \in Nat
      BY <1>1, <2>2, <3>1
    <3>4. 0 = balance + (credited' - credited) - (debited' - debited) + (waived' - waived)
      BY <1>1, <3>1, <3>2
    <3> QED
      BY <3>1, <3>3, <3>4
  <2> QED
    BY <2>1, <2>2
<1>8. CASE UNCHANGED vars
  BY <1>1, <1>8 DEF vars, money
<1>9. CASE \E p \in Payment : Request(p) \/ Reject(p)
  BY <1>1, <1>2, <1>9
<1>10. CASE \E p \in Payment : Lapse(p)
  BY <1>1, <1>3, <1>10
<1>11. CASE \E p \in Payment : Accept(p)
  <2>1. PICK p \in Payment : Accept(p)
    BY <1>11
  <2>2. /\ p \in Payment \cup Posting /\ "CREDIT" \in Directions
        /\ balance + Amount[p] \in Nat
        /\ balance + Amount[p] = balance + (credited' - credited) - (debited' - debited)
                                         + (waived' - waived)
    BY <1>1, <1>4, <2>1 DEF Directions
  <2> QED
    BY <1>1, <1>4, <2>1, <2>2
<1>12. CASE \E k \in Posting : \E direction \in Directions : Manual(k, direction)
  <2>1. PICK k \in Posting, direction \in Directions : Manual(k, direction)
    BY <1>12
  <2>2. PICK after \in Nat :
            /\ Post(k, direction, balance, after) /\ ~Posted(k)
            /\ payment' = payment /\ waived' = waived /\ lapsed' = lapsed
            /\ after = balance + (credited' - credited) - (debited' - debited)
    BY <1>6, <2>1
  <2>3. credited' \in Nat /\ debited' \in Nat
    BY <1>1, <2>2, PostAppends
  <2>4. after = balance + (credited' - credited) - (debited' - debited) + (waived' - waived)
    BY <1>1, <2>2, <2>3
  <2> QED
    BY <1>1, <2>2, <2>4
<1>13. CASE \E k \in Posting : \E admin \in BOOLEAN : Order(k, admin)
  <2>1. PICK k \in Posting, admin \in BOOLEAN : Order(k, admin)
    BY <1>13
  <2>2. "DEBIT" \in Directions
    BY DEF Directions
  <2> QED
    BY <1>7, <2>1, <2>2
<1> QED
  BY <1>5, <1>8, <1>9, <1>10, <1>11, <1>12, <1>13 DEF Next

\* A step keeps the state well typed.
LEMMA NextTyped == TypeOK /\ [Next]_vars => TypeOK'
<1> SUFFICES ASSUME TypeOK, [Next]_vars PROVE TypeOK'
  OBVIOUS
<1>1. CASE \E k \in Payment \cup Posting, direction \in Directions, after \in Nat :
              /\ Post(k, direction, balance, after)
              /\ \/ k \in Posting /\ payment' = payment
                 \/ k \in Payment /\ payment[k] = "PENDING"
                      /\ payment' = [payment EXCEPT ![k] = "ACCEPTED"]
              /\ waived' \in Nat /\ lapsed' = lapsed
  <2>1. PICK k \in Payment \cup Posting, direction \in Directions, after \in Nat :
              /\ Post(k, direction, balance, after)
              /\ \/ k \in Posting /\ payment' = payment
                 \/ k \in Payment /\ payment[k] = "PENDING"
                      /\ payment' = [payment EXCEPT ![k] = "ACCEPTED"]
              /\ waived' \in Nat /\ lapsed' = lapsed
    BY <1>1
  <2>2. /\ ledger' \in Seq(Entries)
        /\ balance' = after /\ credited' \in Nat /\ debited' \in Nat
    BY <2>1, PostAppends DEF TypeOK
  <2>3. /\ payment' \in [Payment -> {"NONE", "PENDING", "ACCEPTED", "REJECTED", "EXPIRED"}]
        /\ lapsed' \subseteq Payment
    BY <2>1 DEF TypeOK
  <2> QED
    BY <2>1, <2>2, <2>3 DEF TypeOK
<1>2. CASE /\ UNCHANGED money
           /\ lapsed' \subseteq Payment
           /\ payment' \in [Payment -> {"NONE", "PENDING", "ACCEPTED", "REJECTED", "EXPIRED"}]
  BY <1>2 DEF TypeOK, money
<1> QED
  BY <1>1, <1>2, StepKinds

-----------------------------------------------------------------------------
\* The state of the wallet is well typed; in particular its balance is never
\* negative (sprint-10: "Saldo wallet tidak dapat negatif").
THEOREM WalletTyped == Spec => []TypeOK
<1>1. Init => TypeOK
  <2> SUFFICES ASSUME Init PROVE TypeOK
    OBVIOUS
  <2>1. ledger \in Seq(Entries)
    BY DEF Init
  <2> QED
    BY <2>1 DEF Init, TypeOK
<1> QED
  BY <1>1, NextTyped, PTL DEF Spec

\* The balance is what came in, less what went out, plus what was waived.
THEOREM WalletConserved == Spec => []Conserved
<1>1. Init => Conserved
  BY DEF Init, Conserved
<1>2. TypeOK /\ TypeOK' /\ Conserved /\ [Next]_vars => Conserved'
  <2> SUFFICES ASSUME TypeOK, TypeOK', Conserved, [Next]_vars PROVE Conserved'
    OBVIOUS
  <2>1. CASE \E k \in Payment \cup Posting, direction \in Directions, after \in Nat :
                /\ Post(k, direction, balance, after)
                /\ after = balance + (credited' - credited) - (debited' - debited)
                                   + (waived' - waived)
    <3>1. balance' = balance + (credited' - credited) - (debited' - debited)
                             + (waived' - waived)
      BY <2>1 DEF Post
    <3>2. /\ balance \in Nat /\ credited \in Nat /\ debited \in Nat /\ waived \in Nat
          /\ credited' \in Nat /\ debited' \in Nat /\ waived' \in Nat
      BY DEF TypeOK
    <3> QED
      BY <3>1, <3>2 DEF Conserved
  <2>2. CASE UNCHANGED money
    BY <2>2 DEF Conserved, money
  <2> QED
    BY <2>1, <2>2, StepKinds
<1> QED
  BY <1>1, <1>2, WalletTyped, PTL DEF Spec

\* Every ledger row starts from the balance the row before it left.
THEOREM WalletChained == Spec => []Chained
<1>1. Init => Chained
  BY DEF Init, Chained
<1>2. TypeOK /\ Chained /\ [Next]_vars => Chained'
  <2> SUFFICES ASSUME TypeOK, Chained, [Next]_vars PROVE Chained'
    OBVIOUS
  <2>1. CASE \E k \in Payment \cup Posting, direction \in Directions, after \in Nat :
                Post(k, direction, balance, after)
    <3>1. PICK k \in Payment \cup Posting, direction \in Directions, after \in Nat :
                Post(k, direction, balance, after)
      BY <2>1
    <3>2. balance \in Nat /\ Len(ledger) \in Nat /\ ledger \in Seq(Entries)
      BY DEF TypeOK
    <3>3. /\ ledger' \in Seq(Entries) /\ Len(ledger') = Len(ledger) + 1
          /\ \A i \in 1..Len(ledger) : ledger'[i] = ledger[i]
          /\ ledger'[Len(ledger) + 1].before = balance
          /\ ledger'[Len(ledger) + 1].after = after
          /\ balance' = after
      BY <3>1, <3>2, PostAppends
    <3>4. /\ ledger' # <<>>
          /\ balance' = ledger'[Len(ledger')].after
      BY <3>2, <3>3
    <3>5. ASSUME NEW i \in 1..Len(ledger')
          PROVE  ledger'[i].before = IF i = 1 THEN 0 ELSE ledger'[i - 1].after
      <4>1. CASE i \in 1..Len(ledger)
        BY <3>2, <3>3, <4>1 DEF Chained
      <4>2. CASE i = Len(ledger) + 1 /\ Len(ledger) = 0
        <5>1. ledger = <<>>
          BY <3>2, <4>2
        <5> QED
          BY <3>3, <4>2, <5>1 DEF Chained
      <4>3. CASE i = Len(ledger) + 1 /\ Len(ledger) # 0
        <5>1. ledger # <<>> /\ Len(ledger) \in 1..Len(ledger) /\ i - 1 = Len(ledger)
          BY <3>2, <4>3
        <5> QED
          BY <3>2, <3>3, <4>3, <5>1 DEF Chained
      <4> QED
        BY <3>2, <3>3, <4>1, <4>2, <4>3
    <3> QED
      BY <3>4, <3>5 DEF Chained
  <2>2. CASE UNCHANGED money
    BY <2>2 DEF Chained, money
  <2> QED
    BY <2>1, <2>2, StepKinds
<1> QED
  BY <1>1, <1>2, WalletTyped, PTL DEF Spec

\* A top-up is credited exactly when it is accepted, and no key twice.
THEOREM WalletCreditedOnce == Spec => []CreditedOnce
<1>1. Init => CreditedOnce
  BY DEF Init, CreditedOnce, Posted
<1>2. TypeOK /\ CreditedOnce /\ [Next]_vars => CreditedOnce'
  <2> SUFFICES ASSUME TypeOK, CreditedOnce, [Next]_vars PROVE CreditedOnce'
    OBVIOUS
  <2>1. CASE \E k \in Payment \cup Posting, direction \in Directions, after \in Nat :
                /\ Post(k, direction, balance, after)
                /\ ~Posted(k)
                /\ \/ k \in Posting /\ payment' = payment
                   \/ k \in Payment /\ payment' = [payment EXCEPT ![k] = "ACCEPTED"]
    <3>1. PICK k \in Payment \cup Posting, direction \in Directions, after \in Nat :
                /\ Post(k, direction, balance, after)
                /\ ~Posted(k)
                /\ \/ k \in Posting /\ payment' = payment
                   \/ k \in Payment /\ payment' = [payment EXCEPT ![k] = "ACCEPTED"]
      BY <2>1
    <3>2. /\ balance \in Nat /\ Len(ledger) \in Nat
          /\ payment \in [Payment -> {"NONE", "PENDING", "ACCEPTED", "REJECTED", "EXPIRED"}]
      BY DEF TypeOK
    <3>3. \A x : Posted(x)' <=> Posted(x) \/ x = k
      BY <3>1, <3>2, PostPosts
    <3>4. ASSUME NEW p \in Payment
          PROVE  Posted(p)' <=> payment'[p] = "ACCEPTED"
      BY <3>1, <3>2, <3>3, <3>4, AmountAssumption DEF CreditedOnce
    <3>5. ASSUME NEW i \in 1..Len(ledger'), NEW j \in 1..Len(ledger'),
                 ledger'[i].key = ledger'[j].key
          PROVE  i = j
      <4>1. /\ Len(ledger') = Len(ledger) + 1
            /\ \A n \in 1..Len(ledger) : ledger'[n] = ledger[n]
            /\ ledger'[Len(ledger) + 1].key = k
        BY <3>1, <3>2, PostAppends
      <4>2. \A n \in 1..Len(ledger) : ledger'[n].key # k
        BY <3>1, <4>1 DEF Posted
      <4> QED
        BY <3>2, <3>5, <4>1, <4>2 DEF CreditedOnce
    <3> QED
      BY <3>4, <3>5 DEF CreditedOnce, Posted
  <2>2. CASE /\ UNCHANGED money
             /\ \A p \in Payment :
                    \/ payment'[p] = payment[p]
                    \/ payment[p] \in {"NONE", "PENDING"} /\ payment'[p] # "ACCEPTED"
    BY <2>2 DEF CreditedOnce, Posted, money
  <2> QED
    BY <2>1, <2>2, StepKinds
<1> QED
  BY <1>1, <1>2, WalletTyped, PTL DEF Spec

\* An accepted, rejected or expired top-up keeps that status.
THEOREM WalletDecidedOnce == Spec => DecidedOnce
<1>1. TypeOK /\ [Next]_vars
        => [\A p \in Payment :
                payment[p] \notin {"NONE", "PENDING"} => payment'[p] = payment[p]]_vars
  <2> SUFFICES ASSUME TypeOK, [Next]_vars, NEW p \in Payment,
                      payment[p] \notin {"NONE", "PENDING"}
               PROVE  payment'[p] = payment[p]
    OBVIOUS
  <2> QED
    BY StepKinds DEF TypeOK
<1> QED
  BY <1>1, WalletTyped, PTL DEF Spec, DecidedOnce

-----------------------------------------------------------------------------
(***************************************************************************)
(* Transfers.  A transfer pays for at most one top-up.  The invariant adds *)
(* to CreditBacked what a ConfirmMatch relies on between its two           *)
(* transactions: the transfer it recorded is still matched with the        *)
(* payment it is about to accept.                                          *)
(***************************************************************************)
RequestTyped ==
    /\ status \in [Transfer -> {"NONE", "UNMATCHED", "SUGGESTED", "MATCHED", "REJECTED_MATCH"}]
    /\ matched \in [Transfer -> Payment \cup {Nobody}]
    /\ step \in [Admin -> {"idle", "checked", "recorded", "reverting", "suggesting"}]
    /\ subject \in [Admin -> Transfer \cup {Nobody}]
    /\ choice \in [Admin -> Payment \cup {Nobody}]
    /\ creditedBy \in [Payment -> Transfer \cup {Nobody}]
    /\ payment \in [Payment -> {"NONE", "PENDING", "ACCEPTED", "REJECTED", "EXPIRED"}]
    /\ \A r \in Admin :
        step[r] \in {"checked", "recorded", "reverting"}
            => subject[r] \in Transfer /\ choice[r] \in Payment

Recorded ==
    \A r \in Admin : step[r] = "recorded" =>
        status[subject[r]] = "MATCHED" /\ matched[subject[r]] = choice[r]

IInv == RequestTyped /\ Recorded /\ CreditBacked

\* The wallet's own endpoints never touch an accepted payment.
LEMMA AcceptedStays ==
    ASSUME RequestTyped, WalletActs, NEW p \in Payment, payment[p] = "ACCEPTED"
    PROVE  payment'[p] = "ACCEPTED"
BY DEF RequestTyped, WalletActs, Request, Lapse, Accept, Reject, Expire, Expired

LEMMA PaymentsTyped ==
    ASSUME RequestTyped, WalletActs
    PROVE  payment' \in [Payment -> {"NONE", "PENDING", "ACCEPTED", "REJECTED", "EXPIRED"}]
BY DEF RequestTyped, WalletActs, Request, Lapse, Accept, Reject, Expire, Expired

\* A step that leaves matches and payments alone and records nothing.
LEMMA QuietStep ==
    ASSUME IInv, RequestTyped', UNCHANGED <<matched, creditedBy, payment>>,
           \A t \in Transfer : status[t] = "MATCHED" <=> status'[t] = "MATCHED",
           \A r \in Admin : step'[r] = "recorded" =>
                step[r] = "recorded" /\ subject'[r] = subject[r] /\ choice'[r] = choice[r]
    PROVE  IInv'
BY DEF IInv, RequestTyped, Recorded, CreditBacked

LEMMA StepInductive == IInv /\ [MatchNext]_matchVars => IInv'
<1> SUFFICES ASSUME IInv, [MatchNext]_matchVars PROVE IInv'
  OBVIOUS
<1> USE DEF Goes, Ends, Moves, vars, requests
<1>1. ASSUME NEW t \in Transfer, CreateTransfer(t) \/ RejectMatch(t) PROVE IInv'
  <2>1. RequestTyped'
    BY <1>1 DEF IInv, RequestTyped, CreateTransfer, RejectMatch, Rejected
  <2> QED
    BY <1>1, <2>1, QuietStep
       DEF IInv, RequestTyped, CreateTransfer, RejectMatch, Rejected, Confirmable
<1>2. ASSUME NEW r \in Admin, NEW t \in Transfer, NEW p \in Payment, ConfirmChecks(r, t, p)
      PROVE  IInv'
  <2>1. RequestTyped'
    BY <1>2 DEF IInv, RequestTyped, ConfirmChecks
  <2> QED
    BY <1>2, <2>1, QuietStep DEF IInv, RequestTyped, ConfirmChecks
<1>3. ASSUME NEW r \in Admin, ConfirmRecords(r) PROVE IInv'
  <2>1. subject[r] \in Transfer /\ choice[r] \in Payment /\ status[subject[r]] # "MATCHED"
    BY <1>3 DEF IInv, RequestTyped, ConfirmRecords, Confirmable
  <2>2. RequestTyped'
    BY <1>3, <2>1 DEF IInv, RequestTyped, ConfirmRecords
  <2>3. Recorded'
    BY <1>3, <2>1 DEF IInv, RequestTyped, Recorded, ConfirmRecords
  <2>4. CreditBacked'
    BY <1>3, <2>1 DEF IInv, RequestTyped, CreditBacked, ConfirmRecords
  <2> QED
    BY <2>2, <2>3, <2>4 DEF IInv
<1>4. ASSUME NEW r \in Admin, TopupAccepted(r) PROVE IInv'
  <2>1. /\ subject[r] \in Transfer /\ choice[r] \in Payment /\ subject[r] # Nobody
        /\ status[subject[r]] = "MATCHED" /\ matched[subject[r]] = choice[r]
        /\ payment[choice[r]] = "PENDING"
        /\ payment' = [payment EXCEPT ![choice[r]] = "ACCEPTED"]
    BY <1>4, NobodyAssumption DEF IInv, RequestTyped, Recorded, TopupAccepted, Accept
  <2>2. RequestTyped'
    BY <1>4, <2>1 DEF IInv, RequestTyped, TopupAccepted
  <2>3. Recorded'
    BY <1>4 DEF IInv, RequestTyped, Recorded, TopupAccepted
  <2>4. CreditBacked'
    BY <1>4, <2>1 DEF IInv, RequestTyped, CreditBacked, TopupAccepted
  <2> QED
    BY <2>2, <2>3, <2>4 DEF IInv
<1>5. ASSUME NEW r \in Admin, TopupFails(r) PROVE IInv'
  <2>1. RequestTyped'
    BY <1>5 DEF IInv, RequestTyped, TopupFails
  <2> QED
    BY <1>5, <2>1, QuietStep DEF IInv, RequestTyped, TopupFails
<1>6. ASSUME NEW r \in Admin, AutoReverts(r) PROVE IInv'
  <2>1. RequestTyped'
    BY <1>6 DEF IInv, RequestTyped, AutoReverts, Rejected
  <2> QED
    BY <1>6, <2>1, QuietStep DEF IInv, RequestTyped, AutoReverts, Rejected
<1>7. ASSUME NEW r \in Admin, NEW candidates \in SUBSET Transfer, SuggestLists(r, candidates)
      PROVE  IInv'
  <2>1. RequestTyped'
    BY <1>7 DEF IInv, RequestTyped, SuggestLists
  <2> QED
    BY <1>7, <2>1, QuietStep DEF IInv, RequestTyped, SuggestLists
<1>8. ASSUME NEW r \in Admin, NEW t \in Transfer, MarkSuggested(r, t) PROVE IInv'
  <2>1. /\ status' = [status EXCEPT ![t] = IF @ = "UNMATCHED" THEN "SUGGESTED" ELSE @]
        /\ UNCHANGED <<matched, creditedBy, payment>>
        /\ step[r] = "suggesting"
        /\ \/ UNCHANGED <<step, subject, choice>>
           \/ Ends(r)
    BY <1>8 DEF MarkSuggested, Suggested
  <2>2. RequestTyped'
    BY <2>1 DEF IInv, RequestTyped
  <2> QED
    BY <2>1, <2>2, QuietStep DEF IInv, RequestTyped
<1>9. ASSUME NEW r \in Admin, RequestEnds(r) PROVE IInv'
  <2>1. RequestTyped'
    BY <1>9 DEF IInv, RequestTyped, RequestEnds
  <2> QED
    BY <1>9, <2>1, QuietStep DEF IInv, RequestTyped, RequestEnds
<1>10. CASE WalletActs
  <2>1. UNCHANGED <<status, matched, step, subject, choice, creditedBy>>
    BY <1>10 DEF WalletActs
  <2>2. RequestTyped'
    BY <1>10, <2>1, PaymentsTyped DEF IInv, RequestTyped
  <2>3. Recorded'
    BY <2>1 DEF IInv, Recorded
  <2>4. CreditBacked'
    BY <1>10, <2>1, AcceptedStays DEF IInv, CreditBacked
  <2> QED
    BY <2>2, <2>3, <2>4 DEF IInv
<1>11. CASE UNCHANGED matchVars
  BY <1>11 DEF matchVars, IInv, RequestTyped, Recorded, CreditBacked
<1> QED
  BY <1>1, <1>2, <1>3, <1>4, <1>5, <1>6, <1>7, <1>8, <1>9, <1>10, <1>11 DEF MatchNext

LEMMA Inductive == MatchSpec => []IInv
<1>1. MatchInit => IInv
  BY DEF MatchInit, Init, IInv, RequestTyped, Recorded, CreditBacked
<1> QED
  BY <1>1, StepInductive, PTL DEF MatchSpec

-----------------------------------------------------------------------------
\* Two concurrent decisions on one transfer do not both succeed.
THEOREM CreditIsBacked == MatchSpec => []CreditBacked
BY Inductive, PTL DEF IInv

\* No request already under way changes a recorded match.
THEOREM MatchIsFinal == MatchSpec => MatchFinal
<1>1. IInv /\ [MatchNext]_matchVars
        => [\A t \in Transfer : status[t] = "MATCHED" =>
                status'[t] = "MATCHED" /\ matched'[t] = matched[t]]_matchVars
  <2> SUFFICES ASSUME IInv, [MatchNext]_matchVars, NEW t \in Transfer, status[t] = "MATCHED"
               PROVE  status'[t] = "MATCHED" /\ matched'[t] = matched[t]
    OBVIOUS
  <2>1. status \in [Transfer -> {"NONE", "UNMATCHED", "SUGGESTED", "MATCHED", "REJECTED_MATCH"}]
        /\ matched \in [Transfer -> Payment \cup {Nobody}]
    BY DEF IInv, RequestTyped
  <2>2. CASE MatchNext
    BY <2>1, <2>2 DEF MatchNext, CreateTransfer, RejectMatch, ConfirmChecks, ConfirmRecords,
       TopupAccepted, TopupFails, AutoReverts, SuggestLists, MarkSuggested, RequestEnds,
       WalletActs, Confirmable, Rejected, Suggested, Moves
  <2> QED
    BY <2>2 DEF matchVars
<1> QED
  BY <1>1, Inductive, PTL DEF MatchSpec, MatchFinal
=============================================================================
