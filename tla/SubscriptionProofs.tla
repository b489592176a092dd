------------------------- MODULE SubscriptionProofs -------------------------
(***************************************************************************)
(* Orders, reconciliations, issues and periods stay in step, for any       *)
(* orders, closings and requests.  The invariant adds to the properties    *)
(* what a request relies on between its locks and its commit (Relied,      *)
(* LocksApart), and which issue flags an order (Flagged): a rejected order *)
(* keeps the issue about the closing its reconciliation names, and nobody  *)
(* else can be matched with that closing and resolve it.                   *)
(***************************************************************************)
EXTENDS Subscription, TLAPS

Relied ==
    \A r \in Request :
        /\ pc[r] \in {"idle", "begun", "order"} => subject[r] = Null
        /\ pc[r] \in {"order", "upgrade", "reconcile"} => match[r] \in Closing
        /\ pc[r] \in {"upgrade", "reconcile"} =>
            subject[r] \in Order /\ order[subject[r]] # "NONE"
        /\ pc[r] = "upgrade" => sub[subject[r]].status = "ACTIVE"

LocksApart == \A r, q \in Request : r # q => subject[r] = Null \/ subject[r] # subject[q]

Flagged ==
    \A o \in Order :
        /\ order[o] = "PAID" => <<o, Null>> \in issues
        /\ order[o] = "REJECTED" => <<o, recon[o].closing>> \in issues
        /\ order[o] \in {"NONE", "RECONCILED"} => \A i \in issues : i[1] # o

Matched == ClosingCountedOnce /\ OrderMatchesRecon
Periods == UpgradesAbut /\ ActiveUntilEnd

IInv == TypeOK /\ Relied /\ LocksApart /\ Matched /\ Flagged /\ Periods

-----------------------------------------------------------------------------
(***************************************************************************)
(* The requests.                                                           *)
(***************************************************************************)
\* A request that ends holds nothing and disturbs no other.
LEMMA EndingReleases ==
    ASSUME IInv, NEW r \in Request, Ends(r)
    PROVE  /\ pc'[r] = "idle" /\ subject'[r] = Null
           /\ \A q \in Request \ {r} :
                pc'[q] = pc[q] /\ subject'[q] = subject[q] /\ match'[q] = match[q]
           /\ LocksApart'
           /\ pc' \in [Request -> {"idle", "begun", "order", "upgrade", "reconcile"}]
           /\ subject' \in [Request -> Order \cup {Null}]
           /\ match' \in [Request -> Closing \cup {Null}]
           /\ seen' \in [Request -> SUBSET (Closing \X Order)]
<1>1. /\ pc'[r] = "idle" /\ subject'[r] = Null
      /\ \A q \in Request \ {r} :
            pc'[q] = pc[q] /\ subject'[q] = subject[q] /\ match'[q] = match[q]
      /\ pc' \in [Request -> {"idle", "begun", "order", "upgrade", "reconcile"}]
      /\ subject' \in [Request -> Order \cup {Null}]
      /\ match' \in [Request -> Closing \cup {Null}]
      /\ seen' \in [Request -> SUBSET (Closing \X Order)]
  BY DEF IInv, TypeOK, Ends, Holds
<1>2. LocksApart'
  BY <1>1 DEF IInv, LocksApart
<1> QED
  BY <1>1, <1>2

\* What a request relies on survives the end of another, as long as no order
\* disappears and no subscription somebody has locked is trimmed.
LEMMA ReliedSurvives ==
    ASSUME IInv, NEW r \in Request, Ends(r),
           \A o \in Order : order[o] # "NONE" => order'[o] # "NONE",
           \A o \in Order : sub[o].status = "ACTIVE" =>
                sub'[o].status = "ACTIVE" \/ o = subject[r]
    PROVE  Relied'
<1> SUFFICES ASSUME NEW q \in Request
             PROVE  /\ pc'[q] \in {"idle", "begun", "order"} => subject'[q] = Null
                    /\ pc'[q] \in {"order", "upgrade", "reconcile"} => match'[q] \in Closing
                    /\ pc'[q] \in {"upgrade", "reconcile"} =>
                        subject'[q] \in Order /\ order'[subject'[q]] # "NONE"
                    /\ pc'[q] = "upgrade" => sub'[subject'[q]].status = "ACTIVE"
  BY DEF Relied
<1>1. CASE q = r
  BY <1>1, EndingReleases
<1>2. CASE q # r
  <2>1. pc'[q] = pc[q] /\ subject'[q] = subject[q] /\ match'[q] = match[q]
    BY <1>2, EndingReleases
  <2>2. subject[q] \in Order => subject[q] # subject[r]
    BY <1>2, OrderAssumption DEF IInv, LocksApart
  <2> QED
    BY <2>1, <2>2 DEF IInv, Relied
<1> QED
  BY <1>1, <1>2

\* Steps that leave the rows alone preserve what is said about rows.
LEMMA RowsStay ==
    ASSUME IInv, UNCHANGED rows
    PROVE  Matched' /\ Flagged' /\ Periods'
BY DEF IInv, rows, Matched, ClosingCountedOnce, OrderMatchesRecon, Flagged, Periods,
       UpgradesAbut, ActiveUntilEnd

-----------------------------------------------------------------------------
(***************************************************************************)
(* The rows.                                                               *)
(***************************************************************************)
\* An order opens a subscription of its own.
LEMMA OpeningKeepsPeriods ==
    ASSUME IInv, NEW o \in Order, order[o] = "NONE", NEW until \in 1..LastDay,
           sub' = [sub EXCEPT ![o] = Opened(Null, 0, until)]
    PROVE  /\ sub' \in [Order -> [source : Order \cup {Null}, status : {"NONE", "ACTIVE", "CANCELED"},
                                  from : 0..LastDay, until : 0..LastDay, end : 0..LastDay]]
           /\ \A x \in Order : sub'[x].status # "NONE" => sub'[x].from < sub'[x].until
           /\ \A x \in Order \ {o} : sub'[x] = sub[x]
           /\ sub'[o].status = "ACTIVE"
           /\ Periods'
<1>1. sub'[o] = Opened(Null, 0, until) /\ \A x \in Order \ {o} : sub'[x] = sub[x]
  BY DEF IInv, TypeOK
<1>2. Opened(Null, 0, until) \in [source : Order \cup {Null}, status : {"NONE", "ACTIVE", "CANCELED"},
                                  from : 0..LastDay, until : 0..LastDay, end : 0..LastDay]
  BY LastDayAssumption DEF Opened
<1>3. sub' \in [Order -> [source : Order \cup {Null}, status : {"NONE", "ACTIVE", "CANCELED"},
                          from : 0..LastDay, until : 0..LastDay, end : 0..LastDay]]
  BY <1>2 DEF IInv, TypeOK
<1>4. sub[o].status = "NONE"
  BY DEF IInv, TypeOK
<1>5. ActiveUntilEnd'
  BY <1>1 DEF IInv, Periods, ActiveUntilEnd, Opened
<1>6. UpgradesAbut'
  <2> SUFFICES ASSUME NEW x \in Order, sub'[x].source # Null
               PROVE  LET s == sub'[x].source IN
                        /\ sub'[s].status = "CANCELED" /\ sub'[s].until = sub'[x].from
                        /\ sub'[x].end = sub'[s].end
                        /\ \A y \in Order \ {x} : sub'[y].source # s
    BY DEF UpgradesAbut
  <2>1. x # o /\ sub'[x] = sub[x]
    BY <1>1 DEF Opened
  <2>2. sub[x].source \in Order /\ sub[sub[x].source].status = "CANCELED"
    BY <2>1 DEF IInv, TypeOK, Periods, UpgradesAbut
  <2>3. sub[x].source # o
    BY <1>4, <2>2
  <2> QED
    BY <1>1, <2>1, <2>2, <2>3 DEF IInv, Periods, UpgradesAbut, Opened
<1> QED
  BY <1>1, <1>3, <1>5, <1>6, LastDayAssumption DEF IInv, TypeOK, Opened, Periods

\* An upgrade trims an active subscription and opens the next one.
LEMMA UpgradingKeepsPeriods ==
    ASSUME IInv, NEW o \in Order, NEW s \in Order, NEW day \in 1..LastDay,
           order[o] = "NONE", StillActive(s), WithinPeriod(s, day),
           sub' = [sub EXCEPT ![s] = Trimmed(s, day), ![o] = Opened(s, day, sub[s].until)]
    PROVE  /\ sub' \in [Order -> [source : Order \cup {Null}, status : {"NONE", "ACTIVE", "CANCELED"},
                                  from : 0..LastDay, until : 0..LastDay, end : 0..LastDay]]
           /\ \A x \in Order : sub'[x].status # "NONE" => sub'[x].from < sub'[x].until
           /\ \A x \in Order \ {o, s} : sub'[x] = sub[x]
           /\ sub'[o].status = "ACTIVE" /\ sub'[s].status = "CANCELED"
           /\ s # o
           /\ Periods'
<1>1. s # o /\ sub[o].status = "NONE"
  BY DEF IInv, TypeOK, StillActive
<1>2. /\ sub[s] \in [source : Order \cup {Null}, status : {"NONE", "ACTIVE", "CANCELED"},
                     from : 0..LastDay, until : 0..LastDay, end : 0..LastDay]
      /\ sub[s].end = sub[s].until
  BY DEF IInv, TypeOK, StillActive, Periods, ActiveUntilEnd
<1>3. /\ sub'[o] = Opened(s, day, sub[s].until) /\ sub'[s] = Trimmed(s, day)
      /\ \A x \in Order \ {o, s} : sub'[x] = sub[x]
  BY <1>1 DEF IInv, TypeOK
<1>4. /\ Opened(s, day, sub[s].until) \in
            [source : Order \cup {Null}, status : {"NONE", "ACTIVE", "CANCELED"},
             from : 0..LastDay, until : 0..LastDay, end : 0..LastDay]
      /\ Trimmed(s, day) \in
            [source : Order \cup {Null}, status : {"NONE", "ACTIVE", "CANCELED"},
             from : 0..LastDay, until : 0..LastDay, end : 0..LastDay]
  <2>1. day \in 0..LastDay
    BY LastDayAssumption
  <2> QED
    BY <1>2, <2>1 DEF Opened, Trimmed
<1>5. /\ sub'[o].status = "ACTIVE" /\ sub'[o].source = s /\ sub'[o].from = day
      /\ sub'[o].until = sub[s].until /\ sub'[o].end = sub[s].until
      /\ sub'[s].status = "CANCELED" /\ sub'[s].until = day /\ sub'[s].end = sub[s].end
      /\ sub'[s].source = sub[s].source /\ sub'[s].from = sub[s].from
  <2>1. /\ sub'[o].status = "ACTIVE" /\ sub'[o].source = s /\ sub'[o].from = day
        /\ sub'[o].until = sub[s].until /\ sub'[o].end = sub[s].until
    BY <1>3 DEF Opened
  <2> DEFINE old == sub[s]
  <2>2. sub'[s] = [old EXCEPT !.status = "CANCELED", !.until = day]
    BY <1>3 DEF Trimmed
  <2>3. old \in [source : Order \cup {Null}, status : {"NONE", "ACTIVE", "CANCELED"},
                 from : 0..LastDay, until : 0..LastDay, end : 0..LastDay]
    BY <1>2
  <2>4. /\ sub'[s].status = "CANCELED" /\ sub'[s].until = day /\ sub'[s].end = old.end
        /\ sub'[s].source = old.source /\ sub'[s].from = old.from
    <3> HIDE DEF old
    <3> QED
      BY <2>2, <2>3
  <2> QED
    BY <2>1, <2>4
<1>6. sub' \in [Order -> [source : Order \cup {Null}, status : {"NONE", "ACTIVE", "CANCELED"},
                          from : 0..LastDay, until : 0..LastDay, end : 0..LastDay]]
  BY <1>4 DEF IInv, TypeOK
<1>7. \A x \in Order : sub'[x].status # "NONE" => sub'[x].from < sub'[x].until
  BY <1>3, <1>5 DEF IInv, TypeOK, WithinPeriod
<1>8. ActiveUntilEnd'
  BY <1>3, <1>5 DEF IInv, Periods, ActiveUntilEnd
<1>9. \A x \in Order : sub[x].source \notin {s, o}
  BY <1>1, OrderAssumption DEF IInv, Periods, UpgradesAbut, StillActive
<1>10. \A y \in Order \ {o} : sub'[y].source = sub[y].source
  BY <1>3, <1>5
<1>11. UpgradesAbut'
  <2> SUFFICES ASSUME NEW x \in Order, sub'[x].source # Null
               PROVE  LET z == sub'[x].source IN
                        /\ sub'[z].status = "CANCELED" /\ sub'[z].until = sub'[x].from
                        /\ sub'[x].end = sub'[z].end
                        /\ \A y \in Order \ {x} : sub'[y].source # z
    BY DEF UpgradesAbut
  <2>1. CASE x = o
    <3>1. \A y \in Order \ {x} : sub'[y].source # s
      BY <2>1, <1>9, <1>10
    <3> QED
      BY <2>1, <1>2, <1>5, <3>1
  <2>2. CASE x # o
    <3>1. sub'[x].source = sub[x].source /\ sub'[x].from = sub[x].from /\ sub'[x].end = sub[x].end
      BY <2>2, <1>3, <1>5
    <3> DEFINE z == sub[x].source
    <3>2. z \in Order \ {s, o}
      BY <3>1, <1>9 DEF IInv, TypeOK
    <3>3. sub'[z] = sub[z]
      BY <3>2, <1>3
    <3>4. /\ sub[z].status = "CANCELED" /\ sub[z].until = sub[x].from /\ sub[x].end = sub[z].end
          /\ \A y \in Order \ {x} : sub[y].source # z
      BY <3>1 DEF IInv, Periods, UpgradesAbut
    <3>5. \A y \in Order \ {x} : sub'[y].source # z
      <4>1. \A y \in Order \ {x, o} : sub'[y].source # z
        BY <3>4, <1>10
      <4>2. sub'[o].source # z
        BY <3>2, <1>5
      <4> QED
        BY <4>1, <4>2
    <3> QED
      BY <3>1, <3>3, <3>4, <3>5
  <2> QED
    BY <2>1, <2>2
<1> QED
  BY <1>1, <1>3, <1>5, <1>6, <1>7, <1>8, <1>11 DEF Periods

\* Recording an order's reconciliation with a closing nobody else claims.
LEMMA Reconciling ==
    ASSUME IInv, NEW o \in Order, NEW c \in Closing, NEW outcome \in Settled \cup {"REJECTED"},
           Unclaimed(c, o), Reconciles(o, c, outcome),
           order' = [order EXCEPT ![o] =
                        IF outcome = "REJECTED" THEN "REJECTED" ELSE "RECONCILED"]
    PROVE  /\ recon' \in [Order -> [closing : Closing \cup {Null},
                                    status : {"NONE", "REJECTED"} \cup Settled]]
           /\ order' \in [Order -> {"NONE", "PAID", "RECONCILED", "REJECTED"}]
           /\ recon'[o].closing = c
           /\ \A x \in Order \ {o} : recon'[x] = recon[x] /\ order'[x] = order[x]
           /\ Matched'
<1>1. /\ recon'[o] = [closing |-> c, status |-> outcome]
      /\ order'[o] = IF outcome = "REJECTED" THEN "REJECTED" ELSE "RECONCILED"
      /\ \A x \in Order \ {o} : recon'[x] = recon[x] /\ order'[x] = order[x]
  BY DEF IInv, TypeOK, Reconciles
<1>2. /\ recon' \in [Order -> [closing : Closing \cup {Null},
                               status : {"NONE", "REJECTED"} \cup Settled]]
      /\ order' \in [Order -> {"NONE", "PAID", "RECONCILED", "REJECTED"}]
  BY DEF IInv, TypeOK, Reconciles
<1>3. ClosingCountedOnce'
  BY <1>1 DEF IInv, Matched, ClosingCountedOnce, Unclaimed
<1>4. OrderMatchesRecon'
  BY <1>1 DEF IInv, Matched, OrderMatchesRecon, Settled
<1> QED
  BY <1>1, <1>2, <1>3, <1>4 DEF Matched

\* Resolving the issues of an order and its closing takes from no other order
\* the issue that flags it.
LEMMA ResolvingSpares ==
    ASSUME IInv, NEW o \in Order, NEW c \in Closing, Unclaimed(c, o),
           NEW x \in Order \ {o}
    PROVE  /\ <<x, Null>> \in issues => <<x, Null>> \in issues \ Resolved(o, c)
           /\ <<x, recon[x].closing>> \in issues =>
                <<x, recon[x].closing>> \in issues \ Resolved(o, c)
BY OrderAssumption DEF Resolved, Unclaimed

-----------------------------------------------------------------------------
(***************************************************************************)
(* The steps.                                                              *)
(***************************************************************************)
\* A request that locks an order nobody else has locked.
LEMMA Locking ==
    ASSUME IInv, NEW r \in Request, NEW o \in Order \cup {Null}, NEW c \in Closing,
           NEW step \in {"order", "upgrade", "reconcile"}, Holds(r, step, o, c),
           o # Null => OrderFree(o),
           o = Null <=> step = "order",
           o # Null => order[o] # "NONE",
           step = "upgrade" => sub[o].status = "ACTIVE",
           UNCHANGED rows, seen' \in [Request -> SUBSET (Closing \X Order)]
    PROVE  IInv'
<1>1. /\ pc'[r] = step /\ subject'[r] = o /\ match'[r] = c
      /\ \A q \in Request \ {r} :
            pc'[q] = pc[q] /\ subject'[q] = subject[q] /\ match'[q] = match[q]
      /\ pc' \in [Request -> {"idle", "begun", "order", "upgrade", "reconcile"}]
      /\ subject' \in [Request -> Order \cup {Null}]
      /\ match' \in [Request -> Closing \cup {Null}]
  BY DEF IInv, TypeOK, Holds
<1>2. order' = order /\ sub' = sub
  BY DEF rows
<1>3. TypeOK'
  BY <1>1 DEF IInv, TypeOK, rows
<1>4. Relied'
  BY <1>1, <1>2 DEF IInv, Relied
<1>5. LocksApart'
  BY <1>1 DEF IInv, LocksApart, OrderFree
<1> QED
  BY <1>3, <1>4, <1>5, RowsStay DEF IInv

LEMMA BeginsInductive ==
    ASSUME IInv, NEW r \in Request, Begins(r)
    PROVE  IInv'
<1>1. Confirmed \in SUBSET (Closing \X Order)
  BY DEF Confirmed
<1>2. /\ pc'[r] = "begun" /\ pc[r] = "idle"
      /\ \A q \in Request \ {r} : pc'[q] = pc[q]
      /\ subject' = subject /\ match' = match /\ order' = order /\ sub' = sub
  BY DEF IInv, TypeOK, Begins, rows
<1>3. TypeOK'
  BY <1>1 DEF IInv, TypeOK, Begins, rows
<1>4. Relied'
  BY <1>2 DEF IInv, Relied
<1>5. LocksApart'
  BY <1>2 DEF IInv, LocksApart
<1> QED
  BY <1>3, <1>4, <1>5, RowsStay DEF IInv, Begins

LEMMA OrderLocksInductive ==
    ASSUME IInv, NEW r \in Request, NEW c \in Closing, OrderLocks(r, c)
    PROVE  IInv'
BY Locking, OrderAssumption DEF OrderLocks, IInv, TypeOK

LEMMA UpgradeLocksInductive ==
    ASSUME IInv, NEW r \in Request, NEW s \in Order, NEW c \in Closing, UpgradeLocks(r, s, c)
    PROVE  IInv'
BY Locking, OrderAssumption DEF UpgradeLocks, StillActive, IInv, TypeOK

LEMMA ReconcileLocksInductive ==
    ASSUME IInv, NEW r \in Request, NEW o \in Order, NEW c \in Closing, ReconcileLocks(r, o, c)
    PROVE  IInv'
<1>1. seen' \in [Request -> SUBSET (Closing \X Order)]
  BY DEF ReconcileLocks, Confirmed, IInv, TypeOK
<1> QED
  BY <1>1, Locking, OrderAssumption DEF ReconcileLocks, NotYetReconciled

LEMMA RollsBackInductive ==
    ASSUME IInv, NEW r \in Request, RollsBack(r)
    PROVE  IInv'
<1>1. order' = order /\ sub' = sub /\ Ends(r)
  BY DEF RollsBack, rows
<1>2. TypeOK'
  BY <1>1, EndingReleases DEF IInv, TypeOK, RollsBack, rows
<1>3. Relied'
  BY <1>1, ReliedSurvives
<1> QED
  BY <1>1, <1>2, <1>3, RowsStay, EndingReleases DEF IInv, RollsBack

LEMMA CreateOrderInductive ==
    ASSUME IInv, NEW r \in Request, NEW o \in Order, NEW until \in 1..LastDay,
           CreateOrder(r, o, until)
    PROVE  IInv'
<1> DEFINE c == match[r]
<1>1. /\ order[o] = "NONE" /\ c \in Closing /\ Ends(r) /\ hidden' = hidden /\ issues' = issues
      /\ order' = [order EXCEPT ![o] = "RECONCILED"]
      /\ sub' = [sub EXCEPT ![o] = Opened(Null, 0, until)]
      /\ Unclaimed(c, o) /\ Reconciles(o, c, "CONFIRMED")
  BY DEF CreateOrder, IInv, Relied
<1>2. closing' \in [Closing -> {"NONE", "PENDING", "CONFIRMED", "REJECTED", "GONE"}]
  BY DEF CreateOrder, ConfirmedUnlessRejected, IInv, TypeOK
<1>3. /\ sub' \in [Order -> [source : Order \cup {Null}, status : {"NONE", "ACTIVE", "CANCELED"},
                             from : 0..LastDay, until : 0..LastDay, end : 0..LastDay]]
      /\ \A x \in Order : sub'[x].status # "NONE" => sub'[x].from < sub'[x].until
      /\ \A x \in Order \ {o} : sub'[x] = sub[x]
      /\ sub'[o].status = "ACTIVE"
      /\ Periods'
  BY <1>1, OpeningKeepsPeriods
<1>4. /\ recon' \in [Order -> [closing : Closing \cup {Null},
                               status : {"NONE", "REJECTED"} \cup Settled]]
      /\ order' \in [Order -> {"NONE", "PAID", "RECONCILED", "REJECTED"}]
      /\ \A x \in Order \ {o} : recon'[x] = recon[x] /\ order'[x] = order[x]
      /\ Matched'
  BY <1>1, Reconciling DEF Settled
<1>5. order'[o] = "RECONCILED"
  BY <1>1 DEF IInv, TypeOK
<1>6. TypeOK'
  BY <1>1, <1>2, <1>3, <1>4, <1>5, EndingReleases DEF IInv, TypeOK
<1>7. Relied'
  BY <1>1, <1>3, <1>4, <1>5, ReliedSurvives
<1>8. Flagged'
  BY <1>1, <1>4, <1>5 DEF IInv, Flagged
<1> QED
  BY <1>1, <1>3, <1>4, <1>6, <1>7, <1>8, EndingReleases DEF IInv

LEMMA CreateUpgradeInductive ==
    ASSUME IInv, NEW r \in Request, NEW o \in Order, NEW day \in 1..LastDay,
           NEW outcome \in Settled, CreateUpgrade(r, o, day, outcome)
    PROVE  IInv'
<1> DEFINE c == match[r]
           s == subject[r]
<1>1. /\ order[o] = "NONE" /\ c \in Closing /\ s \in Order
      /\ Ends(r) /\ hidden' = hidden /\ issues' = issues \ Resolved(o, c)
      /\ StillActive(s) /\ WithinPeriod(s, day)
      /\ order' = [order EXCEPT ![o] = "RECONCILED"]
      /\ sub' = [sub EXCEPT ![s] = Trimmed(s, day), ![o] = Opened(s, day, sub[s].until)]
      /\ Unclaimed(c, o) /\ Reconciles(o, c, outcome)
  BY DEF CreateUpgrade, IInv, Relied, StillActive
<1>2. closing' \in [Closing -> {"NONE", "PENDING", "CONFIRMED", "REJECTED", "GONE"}]
  BY DEF CreateUpgrade, ConfirmedUnlessRejected, IInv, TypeOK
<1>3. /\ sub' \in [Order -> [source : Order \cup {Null}, status : {"NONE", "ACTIVE", "CANCELED"},
                             from : 0..LastDay, until : 0..LastDay, end : 0..LastDay]]
      /\ \A x \in Order : sub'[x].status # "NONE" => sub'[x].from < sub'[x].until
      /\ \A x \in Order \ {o, s} : sub'[x] = sub[x]
      /\ sub'[o].status = "ACTIVE" /\ sub'[s].status = "CANCELED"
      /\ s # o
      /\ Periods'
  BY <1>1, UpgradingKeepsPeriods
<1>4. /\ recon' \in [Order -> [closing : Closing \cup {Null},
                               status : {"NONE", "REJECTED"} \cup Settled]]
      /\ order' \in [Order -> {"NONE", "PAID", "RECONCILED", "REJECTED"}]
      /\ \A x \in Order \ {o} : recon'[x] = recon[x] /\ order'[x] = order[x]
      /\ Matched'
  BY <1>1, Reconciling DEF Settled
<1>5. order'[o] = "RECONCILED"
  BY <1>1 DEF IInv, TypeOK
<1>6. TypeOK'
  <2>1. \A x \in Order : sub'[x].status = "NONE" <=> order'[x] = "NONE"
    BY <1>1, <1>3, <1>4, <1>5 DEF IInv, TypeOK, StillActive
  <2> QED
    BY <1>1, <1>2, <1>3, <1>4, <2>1, EndingReleases DEF IInv, TypeOK
<1>7. Relied'
  BY <1>1, <1>3, <1>4, <1>5, ReliedSurvives
<1>8. Flagged'
  BY <1>1, <1>4, <1>5, ResolvingSpares DEF IInv, Flagged, Resolved
<1> QED
  BY <1>1, <1>3, <1>4, <1>6, <1>7, <1>8, EndingReleases DEF IInv

LEMMA ReconcileConfirmsInductive ==
    ASSUME IInv, NEW r \in Request, NEW outcome \in Settled, ReconcileConfirms(r, outcome)
    PROVE  IInv'
<1> DEFINE c == match[r]
           o == subject[r]
<1>1. /\ o \in Order /\ order[o] # "NONE" /\ c \in Closing
      /\ Ends(r) /\ sub' = sub /\ hidden' = hidden /\ issues' = issues \ Resolved(o, c)
      /\ order' = [order EXCEPT ![o] = "RECONCILED"]
      /\ Unclaimed(c, o) /\ Reconciles(o, c, outcome)
  BY DEF ReconcileConfirms, IInv, Relied
<1>2. closing' \in [Closing -> {"NONE", "PENDING", "CONFIRMED", "REJECTED", "GONE"}]
  BY DEF ReconcileConfirms, ConfirmedUnlessRejected, IInv, TypeOK
<1>3. /\ recon' \in [Order -> [closing : Closing \cup {Null},
                               status : {"NONE", "REJECTED"} \cup Settled]]
      /\ order' \in [Order -> {"NONE", "PAID", "RECONCILED", "REJECTED"}]
      /\ \A x \in Order \ {o} : recon'[x] = recon[x] /\ order'[x] = order[x]
      /\ Matched'
  BY <1>1, Reconciling DEF Settled
<1>4. order'[o] = "RECONCILED"
  BY <1>1 DEF IInv, TypeOK
<1>5. TypeOK'
  <2>1. \A x \in Order : sub'[x].status = "NONE" <=> order'[x] = "NONE"
    BY <1>1, <1>3, <1>4 DEF IInv, TypeOK
  <2> QED
    BY <1>1, <1>2, <1>3, <2>1, EndingReleases DEF IInv, TypeOK
<1>6. Relied'
  BY <1>1, <1>3, <1>4, ReliedSurvives
<1>7. Flagged'
  BY <1>1, <1>3, <1>4, ResolvingSpares DEF IInv, Flagged, Resolved
<1>8. Periods'
  BY <1>1 DEF IInv, Periods, UpgradesAbut, ActiveUntilEnd
<1> QED
  BY <1>1, <1>3, <1>5, <1>6, <1>7, <1>8, EndingReleases DEF IInv

LEMMA ReconcileRejectsInductive ==
    ASSUME IInv, NEW r \in Request, ReconcileRejects(r)
    PROVE  IInv'
<1> DEFINE c == match[r]
           o == subject[r]
<1>1. /\ o \in Order /\ order[o] # "NONE" /\ c \in Closing
      /\ Ends(r) /\ sub' = sub /\ hidden' = hidden /\ issues' = issues \cup {<<o, c>>}
      /\ order' = [order EXCEPT ![o] = "REJECTED"]
      /\ Unclaimed(c, o) /\ Reconciles(o, c, "REJECTED")
  BY DEF ReconcileRejects, IInv, Relied
<1>2. closing' \in [Closing -> {"NONE", "PENDING", "CONFIRMED", "REJECTED", "GONE"}]
  BY DEF ReconcileRejects, RejectedIfPending, IInv, TypeOK
<1>3. /\ recon' \in [Order -> [closing : Closing \cup {Null},
                               status : {"NONE", "REJECTED"} \cup Settled]]
      /\ order' \in [Order -> {"NONE", "PAID", "RECONCILED", "REJECTED"}]
      /\ recon'[o].closing = c
      /\ \A x \in Order \ {o} : recon'[x] = recon[x] /\ order'[x] = order[x]
      /\ Matched'
  BY <1>1, Reconciling
<1>4. order'[o] = "REJECTED"
  BY <1>1 DEF IInv, TypeOK
<1>5. TypeOK'
  <2>1. \A x \in Order : sub'[x].status = "NONE" <=> order'[x] = "NONE"
    BY <1>1, <1>3, <1>4 DEF IInv, TypeOK
  <2>2. issues' \subseteq Order \X (Closing \cup {Null})
    BY <1>1 DEF IInv, TypeOK
  <2> QED
    BY <1>1, <1>2, <1>3, <2>1, <2>2, EndingReleases DEF IInv, TypeOK
<1>6. Relied'
  BY <1>1, <1>3, <1>4, ReliedSurvives
<1>7. Flagged'
  BY <1>1, <1>3, <1>4 DEF IInv, Flagged
<1>8. Periods'
  BY <1>1 DEF IInv, Periods, UpgradesAbut, ActiveUntilEnd
<1> QED
  BY <1>1, <1>3, <1>5, <1>6, <1>7, <1>8, EndingReleases DEF IInv

LEMMA CreateHangingOrderInductive ==
    ASSUME IInv, NEW o \in Order, NEW until \in 1..LastDay, CreateHangingOrder(o, until)
    PROVE  IInv'
<1>1. /\ order[o] = "NONE" /\ order' = [order EXCEPT ![o] = "PAID"]
      /\ sub' = [sub EXCEPT ![o] = Opened(Null, 0, until)]
      /\ issues' = issues \cup {<<o, Null>>}
      /\ recon' = recon /\ closing' = closing /\ hidden' = hidden
      /\ pc' = pc /\ subject' = subject /\ match' = match /\ seen' = seen
  BY DEF CreateHangingOrder, request
<1>2. /\ sub' \in [Order -> [source : Order \cup {Null}, status : {"NONE", "ACTIVE", "CANCELED"},
                             from : 0..LastDay, until : 0..LastDay, end : 0..LastDay]]
      /\ \A x \in Order : sub'[x].status # "NONE" => sub'[x].from < sub'[x].until
      /\ \A x \in Order \ {o} : sub'[x] = sub[x]
      /\ sub'[o].status = "ACTIVE"
      /\ Periods'
  BY <1>1, OpeningKeepsPeriods
<1>3. /\ order' \in [Order -> {"NONE", "PAID", "RECONCILED", "REJECTED"}]
      /\ order'[o] = "PAID" /\ \A x \in Order \ {o} : order'[x] = order[x]
  BY <1>1 DEF IInv, TypeOK
<1>4. TypeOK'
  <2>1. issues' \subseteq Order \X (Closing \cup {Null})
    BY <1>1 DEF IInv, TypeOK
  <2> QED
    BY <1>1, <1>2, <1>3, <2>1 DEF IInv, TypeOK
<1>5. Relied' /\ LocksApart'
  BY <1>1, <1>2, <1>3 DEF IInv, Relied, LocksApart
<1>6. Matched'
  BY <1>1, <1>3 DEF IInv, Matched, ClosingCountedOnce, OrderMatchesRecon, Settled
<1>7. Flagged'
  BY <1>1, <1>3 DEF IInv, Flagged
<1> QED
  BY <1>2, <1>4, <1>5, <1>6, <1>7 DEF IInv

LEMMA CreateHangingUpgradeInductive ==
    ASSUME IInv, NEW o \in Order, NEW s \in Order, NEW day \in 1..LastDay,
           CreateHangingUpgrade(o, s, day)
    PROVE  IInv'
<1>1. /\ order[o] = "NONE" /\ order' = [order EXCEPT ![o] = "PAID"]
      /\ OrderFree(s) /\ StillActive(s) /\ WithinPeriod(s, day)
      /\ sub' = [sub EXCEPT ![s] = Trimmed(s, day), ![o] = Opened(s, day, sub[s].until)]
      /\ issues' = issues \cup {<<o, Null>>}
      /\ recon' = recon /\ closing' = closing /\ hidden' = hidden
      /\ pc' = pc /\ subject' = subject /\ match' = match /\ seen' = seen
  BY DEF CreateHangingUpgrade, request
<1>2. /\ sub' \in [Order -> [source : Order \cup {Null}, status : {"NONE", "ACTIVE", "CANCELED"},
                             from : 0..LastDay, until : 0..LastDay, end : 0..LastDay]]
      /\ \A x \in Order : sub'[x].status # "NONE" => sub'[x].from < sub'[x].until
      /\ \A x \in Order \ {o, s} : sub'[x] = sub[x]
      /\ sub'[o].status = "ACTIVE" /\ sub'[s].status = "CANCELED"
      /\ s # o
      /\ Periods'
  BY <1>1, UpgradingKeepsPeriods
<1>3. /\ order' \in [Order -> {"NONE", "PAID", "RECONCILED", "REJECTED"}]
      /\ order'[o] = "PAID" /\ \A x \in Order \ {o} : order'[x] = order[x]
  BY <1>1 DEF IInv, TypeOK
<1>4. TypeOK'
  <2>1. issues' \subseteq Order \X (Closing \cup {Null})
    BY <1>1 DEF IInv, TypeOK
  <2>2. \A x \in Order : sub'[x].status = "NONE" <=> order'[x] = "NONE"
    BY <1>1, <1>2, <1>3 DEF IInv, TypeOK, StillActive
  <2> QED
    BY <1>1, <1>2, <1>3, <2>1, <2>2 DEF IInv, TypeOK
<1>5. Relied' /\ LocksApart'
  BY <1>1, <1>2, <1>3 DEF IInv, Relied, LocksApart, OrderFree
<1>6. Matched'
  BY <1>1, <1>3 DEF IInv, Matched, ClosingCountedOnce, OrderMatchesRecon, Settled
<1>7. Flagged'
  BY <1>1, <1>3 DEF IInv, Flagged
<1> QED
  BY <1>2, <1>4, <1>5, <1>6, <1>7 DEF IInv

\* Opening, deciding, hiding and restoring a closing touches nothing but it.
LEMMA ClosingAloneInductive ==
    ASSUME IInv, UNCHANGED <<order, sub, recon, issues, request>>,
           closing' \in [Closing -> {"NONE", "PENDING", "CONFIRMED", "REJECTED", "GONE"}],
           hidden' \subseteq Closing
    PROVE  IInv'
<1>1. TypeOK'
  BY DEF IInv, TypeOK, request
<1>2. Relied' /\ LocksApart'
  BY DEF IInv, Relied, LocksApart, request
<1>3. Matched' /\ Flagged' /\ Periods'
  BY DEF IInv, Matched, ClosingCountedOnce, OrderMatchesRecon, Flagged, Periods,
         UpgradesAbut, ActiveUntilEnd
<1> QED
  BY <1>1, <1>2, <1>3 DEF IInv

LEMMA ForceDeleteInductive ==
    ASSUME IInv, NEW c \in Closing, ForceDeleteClosing(c)
    PROVE  IInv'
<1>1. /\ order' = order /\ sub' = sub
      /\ pc' = pc /\ subject' = subject /\ match' = match /\ seen' = seen
      /\ issues' = {IF i[2] = c THEN <<i[1], Null>> ELSE i : i \in issues}
  BY DEF ForceDeleteClosing, request
<1>2. \A o \in Order :
        /\ recon'[o].status = recon[o].status
        /\ recon'[o].closing = IF recon[o].closing = c THEN Null ELSE recon[o].closing
  BY DEF ForceDeleteClosing, IInv, TypeOK
<1>3. /\ recon' \in [Order -> [closing : Closing \cup {Null},
                               status : {"NONE", "REJECTED"} \cup Settled]]
      /\ closing' \in [Closing -> {"NONE", "PENDING", "CONFIRMED", "REJECTED", "GONE"}]
      /\ hidden' \subseteq Closing
  BY DEF ForceDeleteClosing, IInv, TypeOK
<1>4. \A i \in issues : i \in Order \X (Closing \cup {Null})
  BY DEF IInv, TypeOK
<1>5. issues' \subseteq Order \X (Closing \cup {Null})
  BY <1>1, <1>4
<1>6. TypeOK'
  BY <1>1, <1>3, <1>5 DEF IInv, TypeOK
<1>7. Relied' /\ LocksApart'
  BY <1>1 DEF IInv, Relied, LocksApart
<1>8. Matched'
  BY <1>1, <1>2 DEF IInv, Matched, ClosingCountedOnce, OrderMatchesRecon
<1>9. Flagged'
  <2> SUFFICES ASSUME NEW o \in Order
               PROVE  /\ order[o] = "PAID" => <<o, Null>> \in issues'
                      /\ order[o] = "REJECTED" => <<o, recon'[o].closing>> \in issues'
                      /\ order[o] \in {"NONE", "RECONCILED"} => \A i \in issues' : i[1] # o
    BY <1>1 DEF Flagged
  <2>1. \A d : <<o, d>> \in issues =>
            IF d = c THEN <<o, Null>> \in issues' ELSE <<o, d>> \in issues'
    BY <1>1
  <2>2. \A i \in issues' : \E j \in issues : i[1] = j[1]
    BY <1>1
  <2> QED
    BY <1>2, <2>1, <2>2 DEF IInv, Flagged
<1>10. Periods'
  BY <1>1 DEF IInv, Periods, UpgradesAbut, ActiveUntilEnd
<1> QED
  BY <1>6, <1>7, <1>8, <1>9, <1>10 DEF IInv

-----------------------------------------------------------------------------
(***************************************************************************)
(* The invariant and what follows from it.                                 *)
(***************************************************************************)
LEMMA InitEstablishes == Init => IInv
<1> SUFFICES ASSUME Init PROVE IInv
  OBVIOUS
<1>1. TypeOK
  BY LastDayAssumption DEF Init, TypeOK, NoSub, NoRecon
<1>2. Relied /\ LocksApart
  BY DEF Init, Relied, LocksApart
<1>3. Matched /\ Flagged
  BY DEF Init, Matched, ClosingCountedOnce, OrderMatchesRecon, Settled, Flagged, NoRecon
<1>4. Periods
  BY DEF Init, Periods, UpgradesAbut, ActiveUntilEnd, NoSub
<1> QED
  BY <1>1, <1>2, <1>3, <1>4 DEF IInv

LEMMA StepInductive == IInv /\ [Next]_vars => IInv'
<1> SUFFICES ASSUME IInv, [Next]_vars PROVE IInv'
  OBVIOUS
<1>1. ASSUME NEW r \in Request, Begins(r) PROVE IInv'
  BY <1>1, BeginsInductive
<1>2. ASSUME NEW r \in Request, RollsBack(r) PROVE IInv'
  BY <1>2, RollsBackInductive
<1>3. ASSUME NEW r \in Request, NEW c \in Closing, OrderLocks(r, c) PROVE IInv'
  BY <1>3, OrderLocksInductive
<1>4. ASSUME NEW r \in Request, NEW o \in Order, NEW c \in Closing, UpgradeLocks(r, o, c)
      PROVE IInv'
  BY <1>4, UpgradeLocksInductive
<1>5. ASSUME NEW r \in Request, NEW o \in Order, NEW c \in Closing, ReconcileLocks(r, o, c)
      PROVE IInv'
  BY <1>5, ReconcileLocksInductive
<1>6. ASSUME NEW r \in Request, NEW o \in Order, NEW until \in 1..LastDay,
             CreateOrder(r, o, until)
      PROVE IInv'
  BY <1>6, CreateOrderInductive
<1>7. ASSUME NEW r \in Request, NEW o \in Order, NEW day \in 1..LastDay,
             NEW outcome \in Settled, CreateUpgrade(r, o, day, outcome)
      PROVE IInv'
  BY <1>7, CreateUpgradeInductive
<1>8. ASSUME NEW r \in Request, NEW outcome \in Settled, ReconcileConfirms(r, outcome)
      PROVE IInv'
  BY <1>8, ReconcileConfirmsInductive
<1>9. ASSUME NEW r \in Request, ReconcileRejects(r) PROVE IInv'
  BY <1>9, ReconcileRejectsInductive
<1>10. ASSUME NEW o \in Order, NEW until \in 1..LastDay, CreateHangingOrder(o, until)
       PROVE IInv'
  BY <1>10, CreateHangingOrderInductive
<1>11. ASSUME NEW o \in Order, NEW s \in Order, NEW day \in 1..LastDay,
              CreateHangingUpgrade(o, s, day)
       PROVE IInv'
  BY <1>11, CreateHangingUpgradeInductive
<1>12. ASSUME NEW c \in Closing,
              \/ CreateClosing(c) \/ HideClosing(c)
              \/ \E status \in {"CONFIRMED", "REJECTED"} : DecideClosing(c, status)
       PROVE IInv'
  <2>1. CASE CreateClosing(c)
    BY <2>1, ClosingAloneInductive DEF CreateClosing, IInv, TypeOK
  <2>2. CASE HideClosing(c)
    BY <2>2, ClosingAloneInductive DEF HideClosing, IInv, TypeOK
  <2>3. CASE \E status \in {"CONFIRMED", "REJECTED"} : DecideClosing(c, status)
    BY <2>3, ClosingAloneInductive DEF DecideClosing, IInv, TypeOK
  <2> QED
    BY <1>12, <2>1, <2>2, <2>3
<1>13. ASSUME NEW c \in Closing, ForceDeleteClosing(c) PROVE IInv'
  BY <1>13, ForceDeleteInductive
<1>14. CASE UNCHANGED vars
  <2>1. /\ UNCHANGED <<order, sub, recon, issues, request>>
        /\ closing' = closing /\ hidden' = hidden
    BY <1>14 DEF vars, rows
  <2> QED
    BY <2>1, ClosingAloneInductive DEF IInv, TypeOK
<1> QED
  BY <1>1, <1>2, <1>3, <1>4, <1>5, <1>6, <1>7, <1>8, <1>9, <1>10, <1>11, <1>12, <1>13, <1>14
     DEF Next

LEMMA IInvHolds == Spec => []IInv
BY InitEstablishes, StepInductive, PTL DEF Spec

\* The rows, the locks and the periods have their types; a subscription exists
\* exactly for the orders that do, and lasts at least a day.
THEOREM SubscriptionTyped == Spec => []TypeOK
<1>1. IInv => TypeOK
  BY DEF IInv
<1> QED
  BY <1>1, IInvHolds, PTL

\* No closing is the counterpart of two orders.
THEOREM SubscriptionClosingCountedOnce == Spec => []ClosingCountedOnce
<1>1. IInv => ClosingCountedOnce
  BY DEF IInv, Matched
<1> QED
  BY <1>1, IInvHolds, PTL

\* An order and its reconciliation tell the same story.
THEOREM SubscriptionOrderMatchesRecon == Spec => []OrderMatchesRecon
<1>1. IInv => OrderMatchesRecon
  BY DEF IInv, Matched
<1> QED
  BY <1>1, IInvHolds, PTL

\* An order is in the review queue exactly as long as it is not reconciled,
\* however many orders have their issues resolved by the same closing.
THEOREM SubscriptionFlagged == Spec => []FlaggedUntilReconciled
<1>1. IInv => FlaggedUntilReconciled
  <2> SUFFICES ASSUME IInv, NEW o \in Order
               PROVE  order[o] \in {"PAID", "REJECTED"} <=> \E i \in issues : i[1] = o
    BY DEF FlaggedUntilReconciled
  <2>1. ASSUME order[o] \in {"PAID", "REJECTED"}
        PROVE  \E i \in issues : i[1] = o
    <3>1. \E d : <<o, d>> \in issues
      BY <2>1 DEF IInv, Flagged
    <3> QED
      BY <3>1
  <2>2. ASSUME order[o] \notin {"PAID", "REJECTED"}
        PROVE  \A i \in issues : i[1] # o
    <3>1. order[o] \in {"NONE", "RECONCILED"}
      BY <2>2 DEF IInv, TypeOK
    <3> QED
      BY <3>1 DEF IInv, Flagged
  <2> QED
    BY <2>1, <2>2
<1> QED
  BY <1>1, IInvHolds, PTL

\* An upgrade starts where the subscription it replaces stops, and replaces it alone.
THEOREM SubscriptionUpgradesAbut == Spec => []UpgradesAbut
<1>1. IInv => UpgradesAbut
  BY DEF IInv, Periods
<1> QED
  BY <1>1, IInvHolds, PTL

\* A subscription in force lasts as long as it was opened to.
THEOREM SubscriptionActiveUntilEnd == Spec => []ActiveUntilEnd
<1>1. IInv => ActiveUntilEnd
  BY DEF IInv, Periods
<1> QED
  BY <1>1, IInvHolds, PTL

\* Neither a reconciliation nor the closing's own endpoints change a decision
\* about a closing; only its deletion ends it.
THEOREM SubscriptionClosingDecidedOnce == Spec => ClosingDecidedOnce
<1>1. TypeOK /\ [Next]_vars
        => [\A c \in Closing : closing[c] \in {"CONFIRMED", "REJECTED"}
                => closing'[c] \in {closing[c], "GONE"}]_vars
  <2> SUFFICES ASSUME TypeOK, Next, NEW c \in Closing, closing[c] \in {"CONFIRMED", "REJECTED"}
               PROVE  closing'[c] \in {closing[c], "GONE"}
    OBVIOUS
  <2>1. ASSUME \E r \in Request, o \in Order, until \in 1..LastDay : CreateOrder(r, o, until)
        PROVE  closing'[c] \in {closing[c], "GONE"}
    BY <2>1 DEF TypeOK, CreateOrder, ConfirmedUnlessRejected
  <2>2. ASSUME \E r \in Request, o \in Order, day \in 1..LastDay, outcome \in Settled :
                    CreateUpgrade(r, o, day, outcome)
        PROVE  closing'[c] \in {closing[c], "GONE"}
    BY <2>2 DEF TypeOK, CreateUpgrade, ConfirmedUnlessRejected
  <2>3. ASSUME \E r \in Request, outcome \in Settled : ReconcileConfirms(r, outcome)
        PROVE  closing'[c] \in {closing[c], "GONE"}
    BY <2>3 DEF TypeOK, ReconcileConfirms, ConfirmedUnlessRejected
  <2>4. ASSUME \E r \in Request : ReconcileRejects(r)
        PROVE  closing'[c] \in {closing[c], "GONE"}
    BY <2>4 DEF TypeOK, ReconcileRejects, RejectedIfPending
  <2>5. ASSUME \E d \in Closing :
                    \/ CreateClosing(d) \/ HideClosing(d) \/ ForceDeleteClosing(d)
                    \/ \E status \in {"CONFIRMED", "REJECTED"} : DecideClosing(d, status)
        PROVE  closing'[c] \in {closing[c], "GONE"}
    BY <2>5 DEF TypeOK, CreateClosing, HideClosing, ForceDeleteClosing, DecideClosing
  <2>6. ASSUME \/ \E r \in Request : Begins(r) \/ RollsBack(r)
               \/ \E r \in Request, d \in Closing : OrderLocks(r, d)
               \/ \E r \in Request, o \in Order, d \in Closing :
                      UpgradeLocks(r, o, d) \/ ReconcileLocks(r, o, d)
               \/ \E o \in Order, until \in 1..LastDay : CreateHangingOrder(o, until)
               \/ \E o, s \in Order, day \in 1..LastDay : CreateHangingUpgrade(o, s, day)
        PROVE  closing' = closing
    BY <2>6 DEF Begins, RollsBack, OrderLocks, UpgradeLocks, ReconcileLocks,
                CreateHangingOrder, CreateHangingUpgrade, rows
  <2> QED
    BY <2>1, <2>2, <2>3, <2>4, <2>5, <2>6 DEF Next
<1> QED
  BY <1>1, SubscriptionTyped, PTL DEF Spec, ClosingDecidedOnce
=============================================================================
