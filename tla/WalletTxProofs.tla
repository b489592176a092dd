--------------------------- MODULE WalletTxProofs ---------------------------
(***************************************************************************)
(* The transactions of WalletTx implement the wallet of module Wallet, for *)
(* any number of connections, payments, postings and amounts; what         *)
(* WalletProofs proves of the wallet therefore holds of the transactions.  *)
(*                                                                         *)
(* The argument is the locking discipline.  The invariant says of every    *)
(* connection that nobody holds a lock in conflict with its own (Granted)  *)
(* and that what it checked or read under them is still so (Sound).        *)
(***************************************************************************)
EXTENDS WalletTx, TLAPS

\* The wallet of WalletProofs, without the transfers that module adds to it.
WP == INSTANCE WalletProofs
          WITH payment <- payment, lapsed <- lapsed, balance <- balance,
               ledger <- ledger, credited <- credited, debited <- debited,
               waived <- waived,
               Transfer <- {}, Admin <- {}, Nobody <- Nothing,
               status <- <<>>, matched <- <<>>, step <- <<>>, subject <- <<>>,
               choice <- <<>>, listed <- <<>>, creditedBy <- <<>>, died <- {}

Paying == Accepting \cup Rejecting
Steps == {"idle"} \cup Accepting \cup Rejecting \cup ManualSteps \cup OrderSteps

\* A connection at step s works on a key of the right kind.
WellFormed(s, k, h) ==
    /\ s \in Accepting \cup Rejecting => k \in Payment
    /\ s \in ManualSteps => k \in Posting /\ h \in {"CREDIT", "DEBIT"}
    /\ s \in OrderSteps => k \in Posting /\ h \in {"admin", "sales"}

\* No other connection holds a lock that conflicts with those of step s.
Granted(c, s, k) ==
    /\ s \in OwnerX => Free(c, OwnerX \cup OwnerS)
    /\ s \in OwnerS => Free(c, OwnerX)
    /\ s \in WalletX => Free(c, WalletX \cup WalletS)
    /\ s \in WalletS => Free(c, WalletX)
    /\ s \in Paying => \A d \in Conn \ {c} : pc[d] \in Paying => key[d] # k

\* What a connection at step s has checked or read under its locks is so.
Sound(s, k, h, b) ==
    /\ s \in {"accept read", "accept insert", "accept update"} => payment[k] = "PENDING"
    /\ s \in {"accept update", "order post"} => ~W!Posted(k)
    /\ s \in {"order insert", "order post"} /\ h = "sales" => b >= Amount[k]
    /\ s \in {"accept insert", "accept update", "manual post", "order insert", "order post"}
        => b = balance

ConnTyped ==
    /\ pc \in [Conn -> Steps]
    /\ key \in [Conn -> Payment \cup Posting \cup {Nothing}]
    /\ how \in [Conn -> Hows]
    /\ seen \in [Conn -> Nat]

IInv ==
    /\ W!TypeOK
    /\ ConnTyped
    /\ \A c \in Conn : /\ WellFormed(pc[c], key[c], how[c])
                       /\ Granted(c, pc[c], key[c])
                       /\ Sound(pc[c], key[c], how[c], seen[c])

LEMMA InvImplies == IInv => TxTypeOK /\ SeenIsFresh
BY DEF IInv, TxTypeOK, ConnTyped, WellFormed, Sound, SeenIsFresh, Steps

-----------------------------------------------------------------------------
(***************************************************************************)
(* The lemmas of WalletProofs, about the instance WalletTx uses.           *)
(***************************************************************************)
LEMMA WalletAssumption == WP!AmountAssumption /\ WP!NobodyAssumption
BY AmountAssumption DEF WP!AmountAssumption, WP!NobodyAssumption

LEMMA SameSpec ==
    /\ W!Init <=> WP!Init
    /\ [W!Next]_W!vars <=> [WP!Next]_WP!vars
    /\ W!TypeOK <=> WP!TypeOK
    /\ Chained <=> WP!Chained
    /\ Conserved <=> WP!Conserved
    /\ CreditedOnce <=> WP!CreditedOnce
<1>1. W!Next <=> WP!Next
  <2>1. \A p \in Payment : /\ W!Request(p) <=> WP!Request(p)
                           /\ W!Lapse(p) <=> WP!Lapse(p)
                           /\ W!Accept(p) <=> WP!Accept(p)
                           /\ W!Reject(p) <=> WP!Reject(p)
    BY DEF W!Request, WP!Request, W!Lapse, WP!Lapse, W!Accept, WP!Accept, W!Reject, WP!Reject,
           W!money, WP!money, W!Posted, WP!Posted, W!Post, WP!Post
  <2>2. W!Expire <=> WP!Expire
    BY DEF W!Expire, WP!Expire, W!Expired, WP!Expired, W!money, WP!money
  <2>3. \A k \in Posting : /\ \A x : W!Manual(k, x) <=> WP!Manual(k, x)
                           /\ \A x : W!Order(k, x) <=> WP!Order(k, x)
    BY DEF W!Manual, WP!Manual, W!Order, WP!Order, W!Posted, WP!Posted, W!Post, WP!Post
  <2>4. W!Directions = WP!Directions
    BY DEF W!Directions, WP!Directions
  <2> QED
    BY <2>1, <2>2, <2>3, <2>4 DEF W!Next, WP!Next
<1>2. [W!Next]_W!vars <=> [WP!Next]_WP!vars
  BY <1>1 DEF W!vars, WP!vars, W!money, WP!money
<1>3. W!Init <=> WP!Init
  BY DEF W!Init, WP!Init
<1>4. W!TypeOK <=> WP!TypeOK
  BY DEF W!TypeOK, WP!TypeOK, W!Entries, WP!Entries, W!Directions, WP!Directions
<1>5. /\ Chained <=> WP!Chained
      /\ Conserved <=> WP!Conserved
      /\ CreditedOnce <=> WP!CreditedOnce
  BY DEF Chained, Conserved, CreditedOnce, W!Chained, WP!Chained, W!Conserved, WP!Conserved,
         W!CreditedOnce, WP!CreditedOnce, W!Posted, WP!Posted
<1> QED
  BY <1>2, <1>3, <1>4, <1>5

LEMMA StepTyped == W!TypeOK /\ [W!Next]_W!vars => W!TypeOK'
<1>1. (W!TypeOK <=> WP!TypeOK)'
  BY DEF W!TypeOK, WP!TypeOK, W!Entries, WP!Entries, W!Directions, WP!Directions
<1> QED
  BY <1>1, SameSpec, WalletAssumption, WP!NextTyped

LEMMA RowPosted ==
    ASSUME W!TypeOK,
           NEW k \in Payment \cup Posting, NEW direction \in {"CREDIT", "DEBIT"},
           NEW before \in Nat, NEW after \in Nat,
           W!Post(k, direction, before, after)
    PROVE  \A x : W!Posted(x)' <=> W!Posted(x) \/ x = k
<1>1. WP!TypeOK /\ direction \in WP!Directions
  BY SameSpec DEF WP!Directions
<1>2. WP!Post(k, direction, before, after)
  BY DEF W!Post, WP!Post
<1>3. \A x : WP!Posted(x)' <=> WP!Posted(x) \/ x = k
  BY <1>1, <1>2, WalletAssumption, WP!PostPosts
<1> QED
  BY <1>3 DEF W!Posted, WP!Posted

-----------------------------------------------------------------------------
(***************************************************************************)
(* Every step is a step of the wallet.  Only the three commits need the    *)
(* invariant: the balance they write was read before.                      *)
(***************************************************************************)
LEMMA StepSimulates == IInv /\ [TxNext]_txVars => [W!Next]_W!vars
<1> SUFFICES ASSUME IInv, [TxNext]_txVars PROVE [W!Next]_W!vars
  OBVIOUS
<1>1. ASSUME UNCHANGED <<payment, lapsed, money>> PROVE UNCHANGED W!vars
  BY <1>1 DEF money, W!vars, W!money
<1>2. ASSUME NEW p \in Payment, CreateTopup(p) \/ SessionLapses(p)
      PROVE  W!Next
  BY <1>2 DEF CreateTopup, SessionLapses, W!Next
<1>3. CASE ExpireStaleTopups
  BY <1>3 DEF ExpireStaleTopups, W!Next
<1>4. ASSUME NEW c \in Conn,
             \/ \E p \in Payment : AcceptLocksPayment(c, p) \/ RejectLocksPayment(c, p)
             \/ AcceptLocksOwner(c) \/ AcceptReads(c) \/ AcceptInserts(c)
             \/ \E k \in Posting :
                 \/ \E direction \in W!Directions : ManualBegins(c, k, direction)
                 \/ \E actor \in {"admin", "sales"} : OrderBegins(c, k, actor)
             \/ ManualLocksWallet(c) \/ ManualLocksOwner(c)
             \/ OrderLocksWallet(c) \/ OrderInserts(c)
             \/ RollsBack(c)
      PROVE  UNCHANGED <<payment, lapsed, money>>
  BY <1>4 DEF AcceptLocksPayment, RejectLocksPayment, AcceptLocksOwner, AcceptReads,
     AcceptInserts, ManualBegins, OrderBegins, ManualLocksWallet, ManualLocksOwner,
     OrderLocksWallet, OrderInserts, RollsBack, Starts, Advances
<1>5. ASSUME NEW c \in Conn, RejectCommits(c) PROVE W!Next
  <2>1. key[c] \in Payment
    BY <1>5 DEF RejectCommits, IInv, WellFormed, Rejecting
  <2>2. W!Reject(key[c])
    BY <1>5 DEF RejectCommits, StillPending, W!Reject, money, W!money
  <2> QED
    BY <2>1, <2>2 DEF W!Next
<1>6. ASSUME NEW c \in Conn, AcceptCommits(c) PROVE W!Next
  <2>1. /\ key[c] \in Payment /\ seen[c] = balance
        /\ payment[key[c]] = "PENDING" /\ ~W!Posted(key[c])
    BY <1>6 DEF AcceptCommits, IInv, WellFormed, Sound, Accepting
  <2>2. W!Accept(key[c])
    BY <1>6, <2>1 DEF AcceptCommits, W!Accept
  <2> QED
    BY <2>1, <2>2 DEF W!Next
<1>7. ASSUME NEW c \in Conn, ManualCommits(c) PROVE W!Next
  <2>1. key[c] \in Posting /\ how[c] \in W!Directions /\ seen[c] = balance
    BY <1>7 DEF ManualCommits, IInv, WellFormed, Sound, ManualSteps, W!Directions
  <2>2. W!Manual(key[c], how[c])
    BY <1>7, <2>1 DEF ManualCommits, Covers, W!Manual, W!Directions
  <2> QED
    BY <2>1, <2>2 DEF W!Next
<1>8. ASSUME NEW c \in Conn, OrderCommits(c) PROVE W!Next
  <2>1. /\ key[c] \in Posting /\ how[c] \in {"admin", "sales"} /\ seen[c] = balance
        /\ ~W!Posted(key[c])
        /\ how[c] = "sales" => balance >= Amount[key[c]]
    BY <1>8 DEF OrderCommits, IInv, WellFormed, Sound, OrderSteps
  <2>2. W!Order(key[c], how[c] = "admin")
    BY <1>8, <2>1 DEF OrderCommits, Covers, W!Order
  <2> QED
    BY <2>1, <2>2 DEF W!Next
<1>9. CASE UNCHANGED txVars
  BY <1>1, <1>9 DEF txVars
<1> QED
  BY <1>1, <1>2, <1>3, <1>4, <1>5, <1>6, <1>7, <1>8, <1>9 DEF TxNext

-----------------------------------------------------------------------------
(***************************************************************************)
(* The invariant is inductive.  A step of connection c puts it at step s   *)
(* with key k, kind h and balance b; ConnMoves says what must be so of c's *)
(* new place, and that the others must not be disturbed.                   *)
(***************************************************************************)
Undisturbed(d) ==
    \/ pc[d] \notin OwnerX \cup OwnerS \cup WalletX \cup WalletS
    \/ /\ UNCHANGED <<balance, ledger>>
       /\ pc[d] \in Accepting => payment'[key[d]] = payment[key[d]]

LEMMA StaysSound ==
    ASSUME NEW d \in Conn, Sound(pc[d], key[d], how[d], seen[d]), Undisturbed(d),
           pc'[d] = pc[d], key'[d] = key[d], how'[d] = how[d], seen'[d] = seen[d]
    PROVE  Sound(pc[d], key[d], how[d], seen[d])'
<1>1. CASE pc[d] \notin OwnerX \cup OwnerS \cup WalletX \cup WalletS
  BY <1>1 DEF Sound, OwnerX, OwnerS, WalletX, WalletS
<1>2. CASE /\ UNCHANGED <<balance, ledger>>
           /\ pc[d] \in Accepting => payment'[key[d]] = payment[key[d]]
  <2>1. W!Posted(key[d])' <=> W!Posted(key[d])
    BY <1>2 DEF W!Posted
  <2> QED
    BY <1>2, <2>1 DEF Sound, Accepting
<1> QED
  BY <1>1, <1>2 DEF Undisturbed

LEMMA ConnMoves ==
    ASSUME IInv, W!TypeOK', NEW c \in Conn, NEW s \in Steps,
           NEW k \in Payment \cup Posting \cup {Nothing}, NEW h \in Hows, NEW b \in Nat,
           pc' = [pc EXCEPT ![c] = s], key' = [key EXCEPT ![c] = k],
           how' = [how EXCEPT ![c] = h], seen' = [seen EXCEPT ![c] = b],
           WellFormed(s, k, h), Granted(c, s, k),
           s = "idle" \/ (Sound(s, k, h, b) /\ UNCHANGED <<payment, balance, ledger>>),
           \A d \in Conn \ {c} : Undisturbed(d)
    PROVE  IInv'
<1>1. ConnTyped'
  BY DEF IInv, ConnTyped
<1>2. pc'[c] = s /\ key'[c] = k /\ how'[c] = h /\ seen'[c] = b
  BY DEF IInv, ConnTyped
<1>3. \A d \in Conn \ {c} : /\ pc'[d] = pc[d] /\ key'[d] = key[d]
                            /\ how'[d] = how[d] /\ seen'[d] = seen[d]
  BY DEF IInv, ConnTyped
<1>4. ASSUME NEW d \in Conn PROVE WellFormed(pc[d], key[d], how[d])'
  BY <1>2, <1>3 DEF IInv, WellFormed
<1>5. ASSUME NEW d \in Conn PROVE Granted(d, pc[d], key[d])'
  <2>1. CASE d = c
    BY <1>2, <1>3, <2>1 DEF Granted, Free
  <2>2. CASE d # c
    <3>1. Granted(d, pc[d], key[d])
      BY DEF IInv
    <3> QED
      BY <1>2, <1>3, <2>2, <3>1 DEF Granted, Free
  <2> QED
    BY <2>1, <2>2
<1>6. ASSUME NEW d \in Conn PROVE Sound(pc[d], key[d], how[d], seen[d])'
  <2>1. CASE d = c /\ s = "idle"
    BY <1>2, <2>1 DEF Sound
  <2>2. CASE d = c /\ s # "idle"
    BY <1>2, <2>2 DEF Sound, W!Posted
  <2>3. CASE d # c
    BY <1>3, <2>3, StaysSound DEF IInv
  <2> QED
    BY <2>1, <2>2, <2>3
<1> QED
  BY <1>1, <1>4, <1>5, <1>6 DEF IInv

LEMMA ConnStays ==
    ASSUME IInv, W!TypeOK', UNCHANGED conn, \A d \in Conn : Undisturbed(d)
    PROVE  IInv'
<1>1. pc' = pc /\ key' = key /\ how' = how /\ seen' = seen
  BY DEF conn
<1>2. ASSUME NEW d \in Conn PROVE Sound(pc[d], key[d], how[d], seen[d])'
  BY <1>1, StaysSound DEF IInv
<1> QED
  BY <1>1, <1>2 DEF IInv, ConnTyped, WellFormed, Granted, Free

\* A step that leaves money and payments alone disturbs nobody.
LEMMA QuietUndisturbed ==
    ASSUME UNCHANGED <<payment, balance, ledger>>
    PROVE  \A d : Undisturbed(d)
BY DEF Undisturbed

\* A connection that begins, advances or gives up: what is left to show is
\* that its new locks are granted and what it relies on is so.
LEMMA QuietMoves ==
    ASSUME IInv, W!TypeOK', NEW c \in Conn, NEW s \in Steps,
           NEW k \in Payment \cup Posting \cup {Nothing}, NEW h \in Hows, NEW b \in Nat,
           pc' = [pc EXCEPT ![c] = s], key' = [key EXCEPT ![c] = k],
           how' = [how EXCEPT ![c] = h], seen' = [seen EXCEPT ![c] = b],
           WellFormed(s, k, h), Granted(c, s, k), Sound(s, k, h, b),
           UNCHANGED <<payment, balance, ledger>>
    PROVE  IInv'
BY ConnMoves, QuietUndisturbed

LEMMA QuietAdvances ==
    ASSUME IInv, W!TypeOK', NEW c \in Conn, NEW s \in Steps, Advances(c, s),
           seen' = seen \/ Reads(c),
           WellFormed(s, key[c], how[c]), Granted(c, s, key[c]),
           Sound(s, key[c], how[c], seen'[c])
    PROVE  IInv'
<1>1. /\ key[c] \in Payment \cup Posting \cup {Nothing} /\ how[c] \in Hows
      /\ seen[c] \in Nat /\ balance \in Nat
      /\ key' = [key EXCEPT ![c] = key[c]] /\ how' = [how EXCEPT ![c] = how[c]]
  BY DEF IInv, ConnTyped, W!TypeOK, Advances
<1>2. seen'[c] \in Nat /\ seen' = [seen EXCEPT ![c] = seen'[c]]
  BY <1>1 DEF IInv, ConnTyped, Reads
<1>3. pc' = [pc EXCEPT ![c] = s] /\ UNCHANGED <<payment, balance, ledger>>
  BY DEF Advances, Goes, money
<1> HIDE DEF IInv
<1> QED
  BY <1>1, <1>2, <1>3, QuietMoves

\* COMMIT: the connection is idle again, the others are not disturbed.
LEMMA Commits ==
    ASSUME IInv, W!TypeOK', NEW c \in Conn, Ends(c),
           \A d \in Conn \ {c} : Undisturbed(d)
    PROVE  IInv'
<1>1. /\ "idle" \in Steps /\ Nothing \in Payment \cup Posting \cup {Nothing}
      /\ "CREDIT" \in Hows /\ 0 \in Nat
  BY DEF Steps, Hows
<1>2. WellFormed("idle", Nothing, "CREDIT") /\ Granted(c, "idle", Nothing)
  BY DEF WellFormed, Granted, OwnerX, OwnerS, WalletX, WalletS, Paying, Accepting, Rejecting, ManualSteps, OrderSteps
<1> QED
  BY <1>1, <1>2, ConnMoves DEF Ends, Goes

LEMMA StepInductive == IInv /\ [TxNext]_txVars => IInv'
<1> SUFFICES ASSUME IInv, [TxNext]_txVars PROVE IInv'
  OBVIOUS
<1>1. W!TypeOK'
  BY StepSimulates, StepTyped DEF IInv
<1>2. /\ ConnTyped
      /\ \A c \in Conn : /\ WellFormed(pc[c], key[c], how[c])
                         /\ Granted(c, pc[c], key[c])
                         /\ Sound(pc[c], key[c], how[c], seen[c])
      /\ payment \in [Payment -> {"NONE", "PENDING", "ACCEPTED", "REJECTED", "EXPIRED"}]
  BY DEF IInv, W!TypeOK
<1>3. ASSUME NEW c \in Conn, NEW s \in Steps, NEW k \in Payment \cup Posting, NEW h \in Hows,
             Starts(c, s, k, h), WellFormed(s, k, h), Granted(c, s, k),
             s \notin OwnerX \cup OwnerS \cup WalletX \cup WalletS
      PROVE  IInv'
  <2>1. /\ seen[c] \in Nat /\ seen' = [seen EXCEPT ![c] = seen[c]]
        /\ pc' = [pc EXCEPT ![c] = s] /\ key' = [key EXCEPT ![c] = k]
        /\ how' = [how EXCEPT ![c] = h]
        /\ UNCHANGED <<payment, balance, ledger>>
    BY <1>2, <1>3 DEF ConnTyped, Starts, Goes, money
  <2>2. Sound(s, k, h, seen[c])
    BY <1>3 DEF Sound, OwnerX, OwnerS, WalletX, WalletS
  <2> QED
    BY <1>1, <1>3, <2>1, <2>2, QuietMoves
<1>4. ASSUME NEW c \in Conn, NEW p \in Payment, AcceptLocksPayment(c, p) PROVE IInv'
  <2>1. /\ "accept owner" \in Steps /\ "CREDIT" \in Hows
        /\ WellFormed("accept owner", p, "CREDIT") /\ Granted(c, "accept owner", p)
        /\ "accept owner" \notin OwnerX \cup OwnerS \cup WalletX \cup WalletS
    BY <1>4 DEF AcceptLocksPayment, PaymentFree, WellFormed, Granted, Steps, Hows, OwnerX, OwnerS, WalletX, WalletS, Paying, Accepting, Rejecting, ManualSteps, OrderSteps
  <2> QED
    BY <1>3, <1>4, <2>1 DEF AcceptLocksPayment
<1>5. ASSUME NEW c \in Conn, NEW p \in Payment, RejectLocksPayment(c, p) PROVE IInv'
  <2>1. /\ "reject owner" \in Steps /\ "CREDIT" \in Hows
        /\ WellFormed("reject owner", p, "CREDIT") /\ Granted(c, "reject owner", p)
        /\ "reject owner" \notin OwnerX \cup OwnerS \cup WalletX \cup WalletS
    BY <1>5 DEF RejectLocksPayment, PaymentFree, WellFormed, Granted, Steps, Hows, OwnerX, OwnerS, WalletX, WalletS, Paying, Accepting, Rejecting, ManualSteps, OrderSteps
  <2> QED
    BY <1>3, <1>5, <2>1 DEF RejectLocksPayment
<1>6. ASSUME NEW c \in Conn, NEW k \in Posting, NEW direction \in W!Directions,
             ManualBegins(c, k, direction)
      PROVE  IInv'
  <2>1. /\ "manual wallet" \in Steps /\ direction \in Hows
        /\ WellFormed("manual wallet", k, direction) /\ Granted(c, "manual wallet", k)
        /\ "manual wallet" \notin OwnerX \cup OwnerS \cup WalletX \cup WalletS
    BY DEF W!Directions, WellFormed, Granted, Steps, Hows, OwnerX, OwnerS, WalletX, WalletS, Paying, Accepting, Rejecting, ManualSteps, OrderSteps
  <2> QED
    BY <1>3, <1>6, <2>1 DEF ManualBegins
<1>7. ASSUME NEW c \in Conn, NEW k \in Posting, NEW actor \in {"admin", "sales"},
             OrderBegins(c, k, actor)
      PROVE  IInv'
  <2>1. /\ "order wallet" \in Steps /\ actor \in Hows
        /\ WellFormed("order wallet", k, actor) /\ Granted(c, "order wallet", k)
        /\ "order wallet" \notin OwnerX \cup OwnerS \cup WalletX \cup WalletS
    BY DEF WellFormed, Granted, Steps, Hows, OwnerX, OwnerS, WalletX, WalletS, Paying, Accepting, Rejecting, ManualSteps, OrderSteps
  <2> QED
    BY <1>3, <1>7, <2>1 DEF OrderBegins
<1>8. ASSUME NEW c \in Conn, AcceptLocksOwner(c) PROVE IInv'
  <2>1. "accept read" \in Steps /\ Advances(c, "accept read") /\ (seen' = seen \/ Reads(c))
    BY <1>8 DEF AcceptLocksOwner, Steps, Accepting, ManualSteps, OrderSteps
  <2>2. WellFormed("accept read", key[c], how[c])
    BY <1>2, <1>8 DEF AcceptLocksOwner, WellFormed, Accepting, Rejecting, ManualSteps, OrderSteps
  <2>3. Granted(c, "accept read", key[c])
    BY <1>2, <1>8 DEF AcceptLocksOwner, Granted, Free, OwnerX, OwnerS, WalletX, WalletS, Paying, Accepting, Rejecting, ManualSteps, OrderSteps
  <2>4. Sound("accept read", key[c], how[c], seen'[c])
    BY <1>2, <1>8 DEF AcceptLocksOwner, ConnTyped, Sound, StillPending
  <2> QED
    BY <1>1, <2>1, <2>2, <2>3, <2>4, QuietAdvances
<1>9. ASSUME NEW c \in Conn, AcceptReads(c) PROVE IInv'
  <2>1. "accept insert" \in Steps /\ Advances(c, "accept insert") /\ (seen' = seen \/ Reads(c))
    BY <1>9 DEF AcceptReads, Steps, Accepting, ManualSteps, OrderSteps
  <2>2. WellFormed("accept insert", key[c], how[c])
    BY <1>2, <1>9 DEF AcceptReads, WellFormed, Accepting, Rejecting, ManualSteps, OrderSteps
  <2>3. Granted(c, "accept insert", key[c])
    BY <1>2, <1>9 DEF AcceptReads, Granted, Free, OwnerX, OwnerS, WalletX, WalletS, Paying, Accepting, Rejecting, ManualSteps, OrderSteps
  <2>4. Sound("accept insert", key[c], how[c], seen'[c])
    BY <1>2, <1>9 DEF AcceptReads, ConnTyped, Sound, Reads
  <2> QED
    BY <1>1, <2>1, <2>2, <2>3, <2>4, QuietAdvances
<1>10. ASSUME NEW c \in Conn, AcceptInserts(c) PROVE IInv'
  <2>1. "accept update" \in Steps /\ Advances(c, "accept update") /\ (seen' = seen \/ Reads(c))
    BY <1>10 DEF AcceptInserts, Steps, Accepting, ManualSteps, OrderSteps
  <2>2. WellFormed("accept update", key[c], how[c])
    BY <1>2, <1>10 DEF AcceptInserts, WellFormed, Accepting, Rejecting, ManualSteps, OrderSteps
  <2>3. Granted(c, "accept update", key[c])
    BY <1>2, <1>10 DEF AcceptInserts, Granted, Free, OwnerX, OwnerS, WalletX, WalletS, Paying, Accepting, Rejecting, ManualSteps, OrderSteps
  <2>4. Sound("accept update", key[c], how[c], seen'[c])
    BY <1>2, <1>10 DEF AcceptInserts, ConnTyped, Sound
  <2> QED
    BY <1>1, <2>1, <2>2, <2>3, <2>4, QuietAdvances
<1>11. ASSUME NEW c \in Conn, ManualLocksWallet(c) PROVE IInv'
  <2>1. "manual owner" \in Steps /\ Advances(c, "manual owner") /\ (seen' = seen \/ Reads(c))
    BY <1>11 DEF ManualLocksWallet, Steps, Accepting, ManualSteps, OrderSteps
  <2>2. WellFormed("manual owner", key[c], how[c])
    BY <1>2, <1>11 DEF ManualLocksWallet, WellFormed, Accepting, Rejecting, ManualSteps, OrderSteps
  <2>3. Granted(c, "manual owner", key[c])
    BY <1>2, <1>11 DEF ManualLocksWallet, Granted, Free, OwnerX, OwnerS, WalletX, WalletS, Paying, Accepting, Rejecting, ManualSteps, OrderSteps
  <2>4. Sound("manual owner", key[c], how[c], seen'[c])
    BY <1>2, <1>11 DEF ManualLocksWallet, ConnTyped, Sound
  <2> QED
    BY <1>1, <2>1, <2>2, <2>3, <2>4, QuietAdvances
<1>12. ASSUME NEW c \in Conn, ManualLocksOwner(c) PROVE IInv'
  <2>1. "manual post" \in Steps /\ Advances(c, "manual post") /\ (seen' = seen \/ Reads(c))
    BY <1>12 DEF ManualLocksOwner, Steps, Accepting, ManualSteps, OrderSteps
  <2>2. WellFormed("manual post", key[c], how[c])
    BY <1>2, <1>12 DEF ManualLocksOwner, WellFormed, Accepting, Rejecting, ManualSteps, OrderSteps
  <2>3. Granted(c, "manual post", key[c])
    BY <1>2, <1>12 DEF ManualLocksOwner, Granted, Free, OwnerX, OwnerS, WalletX, WalletS, Paying, Accepting, Rejecting, ManualSteps, OrderSteps
  <2>4. Sound("manual post", key[c], how[c], seen'[c])
    BY <1>2, <1>12 DEF ManualLocksOwner, ConnTyped, Sound, Reads
  <2> QED
    BY <1>1, <2>1, <2>2, <2>3, <2>4, QuietAdvances
<1>13. ASSUME NEW c \in Conn, OrderLocksWallet(c) PROVE IInv'
  <2>1. "order insert" \in Steps /\ Advances(c, "order insert") /\ (seen' = seen \/ Reads(c))
    BY <1>13 DEF OrderLocksWallet, Steps, Accepting, ManualSteps, OrderSteps
  <2>2. WellFormed("order insert", key[c], how[c])
    BY <1>2, <1>13 DEF OrderLocksWallet, WellFormed, Accepting, Rejecting, ManualSteps, OrderSteps
  <2>3. Granted(c, "order insert", key[c])
    BY <1>2, <1>13 DEF OrderLocksWallet, Granted, Free, OwnerX, OwnerS, WalletX, WalletS, Paying, Accepting, Rejecting, ManualSteps, OrderSteps
  <2>4. Sound("order insert", key[c], how[c], seen'[c])
    BY <1>2, <1>13 DEF OrderLocksWallet, ConnTyped, Sound, Reads
  <2> QED
    BY <1>1, <2>1, <2>2, <2>3, <2>4, QuietAdvances
<1>14. ASSUME NEW c \in Conn, OrderInserts(c) PROVE IInv'
  <2>1. "order post" \in Steps /\ Advances(c, "order post") /\ (seen' = seen \/ Reads(c))
    BY <1>14 DEF OrderInserts, Steps, Accepting, ManualSteps, OrderSteps
  <2>2. WellFormed("order post", key[c], how[c])
    BY <1>2, <1>14 DEF OrderInserts, WellFormed, Accepting, Rejecting, ManualSteps, OrderSteps
  <2>3. Granted(c, "order post", key[c])
    BY <1>2, <1>14 DEF OrderInserts, Granted, Free, OwnerX, OwnerS, WalletX, WalletS, Paying, Accepting, Rejecting, ManualSteps, OrderSteps
  <2>4. Sound("order post", key[c], how[c], seen'[c])
    BY <1>2, <1>14 DEF OrderInserts, ConnTyped, Sound
  <2> QED
    BY <1>1, <2>1, <2>2, <2>3, <2>4, QuietAdvances
<1>15. ASSUME NEW c \in Conn, RollsBack(c) PROVE IInv'
  <2>1. Ends(c) /\ UNCHANGED <<payment, balance, ledger>>
    BY <1>15 DEF RollsBack, money
  <2> QED
    BY <1>1, <2>1, Commits, QuietUndisturbed
<1>16. ASSUME NEW c \in Conn, AcceptCommits(c) PROVE IInv'
  <2>1. Ends(c)
    BY <1>16 DEF AcceptCommits
  <2>2. ASSUME NEW d \in Conn \ {c} PROVE pc[d] \notin OwnerX \cup OwnerS \cup WalletX \cup WalletS
    BY <1>2, <1>16 DEF AcceptCommits, Granted, Free, OwnerX, OwnerS, WalletX, WalletS
  <2> QED
    BY <1>1, <2>1, <2>2, Commits DEF Undisturbed
<1>17. ASSUME NEW c \in Conn, ManualCommits(c) PROVE IInv'
  <2>1. Ends(c)
    BY <1>17 DEF ManualCommits
  <2>2. ASSUME NEW d \in Conn \ {c} PROVE pc[d] \notin OwnerX \cup OwnerS \cup WalletX \cup WalletS
    BY <1>2, <1>17 DEF ManualCommits, Granted, Free, OwnerX, OwnerS, WalletX, WalletS
  <2> QED
    BY <1>1, <2>1, <2>2, Commits DEF Undisturbed
<1>18. ASSUME NEW c \in Conn, OrderCommits(c) PROVE IInv'
  <2>1. Ends(c)
    BY <1>18 DEF OrderCommits
  <2>2. ASSUME NEW d \in Conn \ {c} PROVE pc[d] \notin OwnerX \cup OwnerS \cup WalletX \cup WalletS
    BY <1>2, <1>18 DEF OrderCommits, Granted, Free, OwnerX, OwnerS, WalletX, WalletS
  <2> QED
    BY <1>1, <2>1, <2>2, Commits DEF Undisturbed
<1>19. ASSUME NEW c \in Conn, RejectCommits(c) PROVE IInv'
  <2>1. /\ Ends(c) /\ UNCHANGED <<balance, ledger>>
        /\ payment' = [payment EXCEPT ![key[c]] = "REJECTED"]
    BY <1>19 DEF RejectCommits, money
  <2>2. ASSUME NEW d \in Conn \ {c}, pc[d] \in Accepting PROVE payment'[key[d]] = payment[key[d]]
    <3>1. key[d] # key[c] /\ key[d] \in Payment
      BY <1>2, <1>19, <2>2 DEF RejectCommits, WellFormed, Granted, Paying, Accepting, Rejecting
    <3> QED
      BY <1>2, <2>1, <3>1
  <2> QED
    BY <1>1, <2>1, <2>2, Commits DEF Undisturbed
<1>20. ASSUME NEW p \in Payment, CreateTopup(p) PROVE IInv'
  BY <1>1, <1>20, ConnStays DEF CreateTopup, Undisturbed
<1>21. ASSUME NEW p \in Payment, SessionLapses(p) PROVE IInv'
  BY <1>1, <1>21, ConnStays, QuietUndisturbed DEF SessionLapses, W!Lapse, W!money
<1>22. CASE ExpireStaleTopups
  <2>1. UNCHANGED conn /\ UNCHANGED <<balance, ledger>>
    BY <1>22 DEF ExpireStaleTopups, W!Expire, W!money
  <2>2. ASSUME NEW d \in Conn, pc[d] \in Accepting PROVE payment'[key[d]] = payment[key[d]]
    <3>1. key[d] \in Payment /\ ~W!Expired(key[d])
      BY <1>2, <1>22, <2>2 DEF ExpireStaleTopups, PaymentFree, WellFormed, Accepting
    <3> QED
      BY <1>2, <1>22, <3>1 DEF ExpireStaleTopups, W!Expire
  <2> QED
    BY <1>1, <2>1, <2>2, ConnStays DEF Undisturbed
<1>23. CASE UNCHANGED txVars
  BY <1>1, <1>23, ConnStays, QuietUndisturbed DEF txVars, money
<1> QED
  BY <1>4, <1>5, <1>6, <1>7, <1>8, <1>9, <1>10, <1>11, <1>12, <1>13, <1>14, <1>15, <1>16, <1>17, <1>18, <1>19, <1>20, <1>21, <1>22, <1>23 DEF TxNext

LEMMA InitInductive == TxInit => IInv /\ W!Init
<1> SUFFICES ASSUME TxInit PROVE IInv /\ W!Init
  OBVIOUS
<1>1. W!Init
  BY DEF TxInit
<1>2. W!TypeOK
  <2>1. ledger \in Seq(W!Entries)
    BY <1>1 DEF W!Init
  <2> QED
    BY <1>1, <2>1 DEF W!Init, W!TypeOK
<1>3. ConnTyped
  BY DEF TxInit, ConnTyped, Steps, Hows
<1>4. ASSUME NEW c \in Conn
      PROVE  /\ WellFormed(pc[c], key[c], how[c])
             /\ Granted(c, pc[c], key[c])
             /\ Sound(pc[c], key[c], how[c], seen[c])
  BY DEF TxInit, WellFormed, Granted, Sound, OwnerX, OwnerS, WalletX, WalletS, Paying, Accepting, Rejecting, ManualSteps, OrderSteps
<1> QED
  BY <1>1, <1>2, <1>3, <1>4 DEF IInv

LEMMA Inductive == TxSpec => []IInv
BY InitInductive, StepInductive, PTL DEF TxSpec

-----------------------------------------------------------------------------
\* Wallet and connections are well typed at every statement.
THEOREM TxTyped == TxSpec => []TxTypeOK
BY Inductive, InvImplies, PTL

\* No transaction writes a balance computed from one that has changed since,
\* AcceptTopup's unlocked read included.
THEOREM SeenStaysFresh == TxSpec => []SeenIsFresh
BY Inductive, InvImplies, PTL

\* The transactions implement the wallet whose operations happen at once.
THEOREM TxImplementsWallet == TxSpec => ImplementsWallet
<1>1. TxInit => W!Init
  BY InitInductive
<1> QED
  BY <1>1, Inductive, StepSimulates, PTL DEF TxSpec, ImplementsWallet, W!Spec

\* The ledger of interleaved transactions is a chain from zero to the balance.
THEOREM TxChained == TxSpec => []Chained
<1>1. TxSpec => WP!Spec
  BY TxImplementsWallet, SameSpec, PTL DEF ImplementsWallet, W!Spec, WP!Spec
<1> QED
  BY <1>1, WalletAssumption, WP!WalletChained, SameSpec, PTL

\* Interleaved transactions neither lose nor invent money.
THEOREM TxConserved == TxSpec => []Conserved
<1>1. TxSpec => WP!Spec
  BY TxImplementsWallet, SameSpec, PTL DEF ImplementsWallet, W!Spec, WP!Spec
<1> QED
  BY <1>1, WalletAssumption, WP!WalletConserved, SameSpec, PTL

\* Interleaved decisions and retries credit a top-up once.
THEOREM TxCreditedOnce == TxSpec => []CreditedOnce
<1>1. TxSpec => WP!Spec
  BY TxImplementsWallet, SameSpec, PTL DEF ImplementsWallet, W!Spec, WP!Spec
<1> QED
  BY <1>1, WalletAssumption, WP!WalletCreditedOnce, SameSpec, PTL

\* No race of requests reopens a decided top-up.
THEOREM TxDecidedOnce == TxSpec => DecidedOnce
<1>1. TxSpec => WP!Spec
  BY TxImplementsWallet, SameSpec, PTL DEF ImplementsWallet, W!Spec, WP!Spec
<1>2. [\A p \in Payment :
        payment[p] \notin {"NONE", "PENDING"} => payment'[p] = payment[p]]_WP!vars
      => [\A p \in Payment :
            payment[p] \notin {"NONE", "PENDING"} => payment'[p] = payment[p]]_W!vars
  BY DEF W!vars, WP!vars, W!money, WP!money
<1> QED
  BY <1>1, <1>2, WalletAssumption, WP!WalletDecidedOnce, PTL
     DEF DecidedOnce, W!DecidedOnce, WP!DecidedOnce
=============================================================================
