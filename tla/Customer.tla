------------------------------- MODULE Customer -------------------------------
(***************************************************************************)
(* Owners, their outlets, and the subscription status shown for an outlet  *)
(* (src/internal/customer; subscriptions as src/internal/subscription      *)
(* writes them).                                                           *)
(*                                                                         *)
(* The status is not stored.  The page of outlet statuses computes it      *)
(* twice: in SQL, as the condition of a filter, and in Go, as the label of *)
(* a row the filter lets through.  Both look at the latest subscription    *)
(* that starts no later than the end of the month asked for and compare    *)
(* days with a reference date.  The list of outlets computes it twice      *)
(* more, in SQL, at the present time, and the list of owners once in SQL   *)
(* and once in Go.                                                         *)
(*                                                                         *)
(* active_from and active_until are DATEs, so days; created_at and NOW()   *)
(* are points in time: Ticks to a day, the first of them midnight.         *)
(***************************************************************************)
EXTENDS Integers, FiniteSets

CONSTANTS
    Owner, Outlet, Null,
    NonReg,         \* owners with a NONREG- code, taken down before they registered
    PhoneOf,        \* owners.phone
    MaxSub,         \* bound: subscriptions, numbered in the order they are inserted
    Stamp,          \* bound: the points in time owners are created at
    OutletStamp,    \* bound: those at which outlets are
    MaxDay,         \* bound: the last day of a behaviour
    MaxDuration,    \* bound: the longest subscription
    Ticks, Noon,    \* points in time in a day; the one at which requests come in
    MonthDays,
    TrialDays,      \* TrialDurationDays, 14
    TrialSoon,      \* 7: the last days of a trial
    DueSoon         \* 14: the last days of a subscription

Day == 0..MaxDay
Sub == 1..MaxSub

ASSUME CalendarAssumption ==
    /\ MaxDay \in Nat /\ MaxSub \in Nat /\ MaxDuration \in Nat \ {0}
    /\ Ticks \in Nat \ {0} /\ Noon \in 0..(Ticks - 1) /\ Stamp \subseteq Nat
    /\ OutletStamp \subseteq Nat
    /\ MonthDays \in Nat \ {0}
    \* The SQL counts TrialSoon days from the creation, Go from the end of the trial.
    /\ TrialSoon \in Nat /\ TrialDays = 2 * TrialSoon /\ DueSoon \in Nat

VARIABLES
    today,
    owner,      \* owners
    outlet,     \* outlets
    sub         \* subscriptions

vars == <<today, owner, outlet, sub>>

OwnerRow == [created : Stamp, deleted : BOOLEAN]
OutletRow == [owner : Owner \cup {Null}, created : OutletStamp, deleted : BOOLEAN]
SubRow == [outlet : Outlet \cup {Null}, from : Day, until : Nat, canceled : BOOLEAN]

ASSUME NullAssumption ==
    Null \notin Owner \cup Outlet \cup OwnerRow \cup OutletRow \cup SubRow

TypeOK ==
    /\ today \in Day
    /\ owner \in [Owner -> OwnerRow \cup {Null}]
    /\ outlet \in [Outlet -> OutletRow \cup {Null}]
    /\ sub \in [Sub -> SubRow \cup {Null}]

Init ==
    /\ today = 0
    /\ owner = [o \in Owner |-> Null]
    /\ outlet = [t \in Outlet |-> Null]
    /\ sub = [s \in Sub |-> Null]

Live(rows, x) == rows[x] # Null /\ ~rows[x].deleted

-----------------------------------------------------------------------------
(***************************************************************************)
(* Owners and outlets.  A request may give a created_at of its own.        *)
(***************************************************************************)
\* softDeleteDuplicateNonRegisterOwners: who registers replaces what was taken down
\* under the same phone; the duplicate's outlets and lead stay as they are.
WithoutDuplicates(rows, o) ==
    [n \in Owner |-> IF /\ o \notin NonReg /\ n \in NonReg /\ PhoneOf[n] = PhoneOf[o]
                        /\ rows[n] # Null
                     THEN [rows[n] EXCEPT !.deleted = TRUE] ELSE rows[n]]

CreateOwner(o, stamp) ==
    /\ owner[o] = Null
    /\ owner' = WithoutDuplicates(
                   [owner EXCEPT ![o] = [created |-> stamp, deleted |-> FALSE]], o)
    /\ UNCHANGED <<today, outlet, sub>>

UpdateOwner(o, stamp) ==
    /\ Live(owner, o)
    /\ owner' = WithoutDuplicates([owner EXCEPT ![o].created = stamp], o)
    /\ UNCHANGED <<today, outlet, sub>>

\* SoftDeleteOwners and RestoreOwner
SetOwnerDeleted(o, deleted) ==
    /\ owner[o] # Null
    /\ owner' = [owner EXCEPT ![o].deleted = deleted]
    /\ UNCHANGED <<today, outlet, sub>>

\* ON DELETE SET NULL leaves the outlets without an owner.
ForceDeleteOwner(o) ==
    /\ owner[o] # Null
    /\ owner' = [owner EXCEPT ![o] = Null]
    /\ outlet' = [t \in Outlet |-> IF outlet[t] # Null /\ outlet[t].owner = o
                                   THEN [outlet[t] EXCEPT !.owner = Null] ELSE outlet[t]]
    /\ UNCHANGED <<today, sub>>

CreateOutlet(t, o, stamp) ==
    /\ outlet[t] = Null
    /\ Live(owner, o)
    /\ outlet' = [outlet EXCEPT ![t] = [owner |-> o, created |-> stamp, deleted |-> FALSE]]
    /\ UNCHANGED <<today, owner, sub>>

\* SoftDeleteOutlets and RestoreOutlet; an outlet without an owner is out of reach.
SetOutletDeleted(t, deleted) ==
    /\ outlet[t] # Null /\ outlet[t].owner # Null
    /\ outlet' = [outlet EXCEPT ![t].deleted = deleted]
    /\ UNCHANGED <<today, owner, sub>>

ForceDeleteOutlet(t) ==
    /\ outlet[t] # Null /\ outlet[t].owner # Null
    /\ outlet' = [outlet EXCEPT ![t] = Null]
    /\ sub' = [s \in Sub |-> IF sub[s] # Null /\ sub[s].outlet = t
                             THEN [sub[s] EXCEPT !.outlet = Null] ELSE sub[s]]
    /\ UNCHANGED <<today, owner>>

-----------------------------------------------------------------------------
(***************************************************************************)
(* Subscriptions.  An order starts one on any day, whatever the outlet has *)
(* already; an upgrade cuts a running one short and starts another.        *)
(***************************************************************************)
NextId(s) == sub[s] = Null /\ \A i \in Sub : i < s => sub[i] # Null

Activate(s, t, from, days) ==
    /\ NextId(s)
    /\ Live(outlet, t) /\ outlet[t].owner # Null /\ Live(owner, outlet[t].owner)
    /\ sub' = [sub EXCEPT ![s] = [outlet |-> t, from |-> from, until |-> from + days,
                                  canceled |-> FALSE]]
    /\ UNCHANGED <<today, owner, outlet>>

UpgradeForTenure(s, old, from) ==
    /\ NextId(s)
    /\ sub[old] # Null /\ ~sub[old].canceled
    /\ sub[old].from < from /\ from < sub[old].until
    /\ sub' = [sub EXCEPT ![old].until = from, ![old].canceled = TRUE,
                          ![s] = [sub[old] EXCEPT !.from = from,
                                    !.until = from + sub[old].until - sub[old].from]]
    /\ UNCHANGED <<today, owner, outlet>>

Upgrade(s, old, from) ==
    /\ NextId(s)
    /\ sub[old] # Null /\ ~sub[old].canceled
    /\ sub[old].from < from /\ from < sub[old].until
    /\ sub' = [sub EXCEPT ![old].until = from, ![old].canceled = TRUE,
                          ![s] = [sub[old] EXCEPT !.from = from]]
    /\ UNCHANGED <<today, owner, outlet>>

EndOfDay ==
    /\ today < MaxDay
    /\ today' = today + 1
    /\ UNCHANGED <<owner, outlet, sub>>

-----------------------------------------------------------------------------
(***************************************************************************)
(* What a status is computed from.  A view is what the status page asks    *)
(* for: the end of its month, and its reference date.                      *)
(***************************************************************************)
Midnight(d) == d * Ticks
NowTime == Midnight(today) + Noon
DateOnly(time) == time \div Ticks

SameDayOfMonth(d, e) == d % MonthDays = e % MonthDays
SameMonth(d, e) == d \div MonthDays = e \div MonthDays
MonthEnd(d) == (d \div MonthDays) * MonthDays + MonthDays - 1

\* due_date_reference may be any date, in the month or not, past or to come.
View == [bound : {MonthEnd(d) : d \in Day}, ref : 0..(MaxDay + 1)]
\* resolveReferenceMonth and resolveRefDate without a month: this month, today
Now == [bound |-> MonthEnd(today), ref |-> today]

SubsOf(t) == {s \in Sub : sub[s] # Null /\ sub[s].outlet = t}

\* ORDER BY active_from DESC, id DESC
Later(i, j) == sub[i].from > sub[j].from \/ (sub[i].from = sub[j].from /\ i >= j)
Latest(S) == CHOOSE s \in S : \A i \in S : Later(s, i)

Started(t, v) == {s \in SubsOf(t) : sub[s].from <= v.bound}
Until(t, v) == sub[Latest(Started(t, v))].until
From(t, v) == sub[Latest(Started(t, v))].from

Bought(o) == \E k \in Outlet : /\ outlet[k] # Null /\ outlet[k].owner = o
                               /\ SubsOf(k) # {}
\* owner_has_any_subscription; a NULL owner equals none
OwnerHasAny(t) == outlet[t].owner # Null /\ Bought(outlet[t].owner)

\* COALESCE(o.created_at, ot.created_at)
CreatedAt(t) == IF outlet[t].owner # Null THEN owner[outlet[t].owner].created
                                          ELSE outlet[t].created

-----------------------------------------------------------------------------
(***************************************************************************)
(* The status page: the filter, in SQL.                                    *)
(***************************************************************************)
NeverBought(t, v) == Started(t, v) = {} /\ ~OwnerHasAny(t)
OnlyActive(t) == Cardinality({s \in SubsOf(t) : ~sub[s].canceled}) = 1
OnlySub(t) == Cardinality(SubsOf(t)) = 1

StatusFilter(t, v, status) ==
    CASE status = "TRIAL" ->
            NeverBought(t, v) /\ CreatedAt(t) > Midnight(v.ref - TrialDays)
      [] status = "NO_PACKAGE" ->
            NeverBought(t, v) /\ CreatedAt(t) <= Midnight(v.ref - TrialDays)
      [] status = "UNSUBSCRIBE" ->
            IF Started(t, v) # {} THEN Until(t, v) < v.ref ELSE OwnerHasAny(t)
      [] status = "NEW" ->
            /\ Started(t, v) # {} /\ Until(t, v) >= v.ref
            /\ SameMonth(From(t, v), v.ref) /\ OnlySub(t)
      [] status = "SUBSCRIBE" ->
            /\ Started(t, v) # {} /\ Until(t, v) >= v.ref
            /\ SameMonth(From(t, v), v.ref) => Cardinality(SubsOf(t)) > 1

DueFilter(t, v, due) ==
    CASE due = "AKAN_JATUH_TEMPO" ->
            \/ Started(t, v) # {} /\ Until(t, v) > v.ref /\ Until(t, v) <= v.ref + DueSoon
            \/ /\ NeverBought(t, v) /\ CreatedAt(t) > Midnight(v.ref - TrialDays)
               /\ CreatedAt(t) <= Midnight(v.ref - TrialSoon)
      [] due = "JATUH_TEMPO" ->
            \/ Started(t, v) # {} /\ Until(t, v) = v.ref
            \/ NeverBought(t, v) /\ DateOnly(CreatedAt(t)) = v.ref - TrialDays
      [] due = "TELAH_JATUH_TEMPO" ->
            \/ Started(t, v) # {} /\ Until(t, v) < v.ref
            \/ NeverBought(t, v) /\ DateOnly(CreatedAt(t)) < v.ref - TrialDays
            \/ Started(t, v) = {} /\ OwnerHasAny(t)
      [] due = "BELUM_JATUH_TEMPO" ->
            \/ Started(t, v) # {} /\ Until(t, v) > v.ref + DueSoon
            \/ NeverBought(t, v) /\ CreatedAt(t) >= Midnight(v.ref - TrialSoon)

-----------------------------------------------------------------------------
(***************************************************************************)
(* The status page: the label, in Go (classifyOutletSubscription).         *)
(***************************************************************************)
TrialLabel(left) ==
    [status |-> IF left > 0 THEN "TRIAL" ELSE "NO_PACKAGE",
     due |-> CASE left > TrialSoon -> "BELUM_JATUH_TEMPO"
               [] left > 0 /\ left <= TrialSoon -> "AKAN_JATUH_TEMPO"
               [] left = 0 -> "JATUH_TEMPO"
               [] left < 0 -> "TELAH_JATUH_TEMPO"]

DueSooner(left) ==
    CASE left < 0 -> "TELAH_JATUH_TEMPO"
      [] left = 0 -> "JATUH_TEMPO"
      [] left > 0 /\ left < DueSoon -> "AKAN_JATUH_TEMPO"
      [] left >= DueSoon -> "BELUM_JATUH_TEMPO"

DueLabel(left) ==
    CASE left < 0 -> "TELAH_JATUH_TEMPO"
      [] left = 0 -> "JATUH_TEMPO"
      [] left > 0 /\ left <= DueSoon -> "AKAN_JATUH_TEMPO"
      [] left > DueSoon -> "BELUM_JATUH_TEMPO"

Label(t, v) ==
    IF Started(t, v) = {}
    THEN IF OwnerHasAny(t)
         THEN [status |-> "NO_PACKAGE", due |-> "TELAH_JATUH_TEMPO"]
         ELSE TrialLabel(DateOnly(CreatedAt(t)) + TrialDays - v.ref)
    ELSE [status |->
            CASE Until(t, v) < v.ref -> "UNSUBSCRIBE"
              [] Until(t, v) >= v.ref /\ SameMonth(From(t, v), v.ref)
                 /\ Cardinality(SubsOf(t)) <= 1 -> "NEW"
              [] OTHER -> "SUBSCRIBE",
          due |-> DueLabel(Until(t, v) - v.ref)]

-----------------------------------------------------------------------------
(***************************************************************************)
(* The lists of outlets and of owners, at the present time.                *)
(***************************************************************************)
\* A DATE against NOW() counts as its midnight: the last day is already over.
Running(t) == SubsOf(t) # {} /\ Midnight(sub[Latest(SubsOf(t))].until) >= NowTime
HasSub(t) == SubsOf(t) # {} \/ OwnerHasAny(t)

\* globalOutletWhere; no subscription is ever given another status than ACTIVE
\* and CANCELED, so its NEW lets nothing through.
ListFilter(t, status) ==
    CASE status = "SUBSCRIBE" -> Running(t)
      [] status = "UNSUBSCRIBE" -> HasSub(t) /\ ~Running(t)
      [] status = "TRIAL" ->
            SubsOf(t) = {} /\ CreatedAt(t) > NowTime - Midnight(TrialDays) /\ ~HasSub(t)
      [] status = "NO_PACKAGE" ->
            SubsOf(t) = {} /\ CreatedAt(t) <= NowTime - Midnight(TrialDays) /\ ~HasSub(t)

\* latest_subscription_status of globalOutletSelect
ListLabel(t) ==
    CASE Running(t) -> "SUBSCRIBE"
      [] ~Running(t) /\ HasSub(t) -> "UNSUBSCRIBE"
      [] ~HasSub(t) /\ CreatedAt(t) > NowTime - Midnight(TrialDays) -> "TRIAL"
      [] OTHER -> "NO_PACKAGE"

\* ownerWhere
OwnerFilter(o, status) ==
    CASE status = "SUBSCRIBE" -> Bought(o)
      [] status = "TRIAL" -> ~Bought(o) /\ owner[o].created >= NowTime - Midnight(TrialDays)
      [] status = "NOT_SUBSCRIBE" ->
            ~Bought(o) /\ owner[o].created < NowTime - Midnight(TrialDays)

OwnerLabelByDay(o) ==
    CASE Bought(o) -> "SUBSCRIBE"
      [] ~Bought(o) /\ today - DateOnly(owner[o].created) <= TrialDays -> "TRIAL"
      [] OTHER -> "NOT_SUBSCRIBE"

\* CalculateOwnerSubscriptionStatus
OwnerLabel(o) ==
    CASE Bought(o) -> "SUBSCRIBE"
      [] ~Bought(o) /\ NowTime - owner[o].created <= Midnight(TrialDays) -> "TRIAL"
      [] OTHER -> "NOT_SUBSCRIBE"

-----------------------------------------------------------------------------
OwnerNext == \E o \in Owner :
    \/ \E stamp \in Stamp : CreateOwner(o, stamp) \/ UpdateOwner(o, stamp)
    \/ \E deleted \in BOOLEAN : SetOwnerDeleted(o, deleted)
    \/ ForceDeleteOwner(o)

OutletNext == \E t \in Outlet :
    \/ \E o \in Owner, stamp \in OutletStamp : CreateOutlet(t, o, stamp)
    \/ \E deleted \in BOOLEAN : SetOutletDeleted(t, deleted)
    \/ ForceDeleteOutlet(t)

SubNext == \E s \in Sub :
    \/ \E t \in Outlet, from \in Day, days \in 1..MaxDuration : Activate(s, t, from, days)
    \/ \E old \in Sub, from \in Day : Upgrade(s, old, from)

Next == OwnerNext \/ OutletNext \/ SubNext \/ EndOfDay

Spec == Init /\ [][Next]_vars

-----------------------------------------------------------------------------
(***************************************************************************)
(* Properties.                                                             *)
(***************************************************************************)
Statuses == {"TRIAL", "NO_PACKAGE", "UNSUBSCRIBE", "NEW", "SUBSCRIBE"}
DueStatuses == {"BELUM_JATUH_TEMPO", "AKAN_JATUH_TEMPO", "JATUH_TEMPO", "TELAH_JATUH_TEMPO"}
OwnerStatuses == {"SUBSCRIBE", "TRIAL", "NOT_SUBSCRIBE"}
Rows == {t \in Outlet : Live(outlet, t)}

\* Whatever month and reference date are asked for, each outlet passes exactly one of
\* the five status filters, and no outlet escapes the four due filters: the counts a
\* page shows add up (singleOutletSubscriptionStatusFilterCondition).
FiltersPartition ==
    \A t \in Rows, v \in View :
        /\ Cardinality({status \in Statuses : StatusFilter(t, v, status)}) = 1
        /\ \E due \in DueStatuses : DueFilter(t, v, due)

\* What a filter of the status page lets through is labelled with it, and the
\* reverse: for an outlet with a subscription in view, and for one whose owner never
\* bought any, except for a creation later than midnight that is exactly TrialDays
\* or at midnight exactly TrialSoon days back, where SQL compares times and Go
\* days (the filter's SQL and classifyOutletSubscription).
OnEdge(t, v) ==
    \/ DateOnly(CreatedAt(t)) = v.ref - TrialDays /\ CreatedAt(t) # Midnight(v.ref - TrialDays)
    \/ DateOnly(CreatedAt(t)) = v.ref - TrialSoon
FilterShowsLabel ==
    \A t \in Rows, v \in View :
        Started(t, v) # {} \/ (~OwnerHasAny(t) /\ ~OnEdge(t, v)) =>
            LET label == Label(t, v) IN
              /\ \A status \in Statuses : StatusFilter(t, v, status) <=> label.status = status
              /\ \A due \in DueStatuses : DueFilter(t, v, due) <=> label.due = due

\* In the lists of outlets and of owners, too, a filter lets through exactly the rows
\* that carry its label (globalOutletWhere and globalOutletSelect; ownerWhere and
\* CalculateOwnerSubscriptionStatus).
ListsShowLabel ==
    /\ \A t \in Rows : \A status \in Statuses \ {"NEW"} :
         ListFilter(t, status) <=> ListLabel(t) = status
    /\ \A o \in Owner : Live(owner, o) =>
         \A status \in OwnerStatuses : OwnerFilter(o, status) <=> OwnerLabel(o) = status

\* An upgrade of the subscription an outlet is judged by never moves its due date,
\* in any view from the month of the upgrade on (trimSubscriptionForUpgrade leaves the
\* old one in the table, ended, and it must not be the one judged by).
IsUpgrade(s) == sub[s] # Null /\ ~sub[s].canceled /\ sub'[s].canceled
DueKept ==
    \A old \in Sub : IsUpgrade(old) =>
        \A t \in Rows, v \in View :
            Started(t, v) # {} /\ Latest(Started(t, v)) = old /\ v.bound >= sub'[old].until
              => Until(t, v)' = Until(t, v)
UpgradeKeepsDue == [][DueKept]_vars

\* As days pass and nothing else happens, the label of an outlet's row only moves on:
\* from trial to none, from new to subscribed to unsubscribed; only a subscription
\* ordered ahead, when its month begins, moves it back (classifyOutletSubscription).
Rank(status) == CASE status = "TRIAL" -> 1 [] status = "NO_PACKAGE" -> 2
                  [] status = "NEW" -> 3 [] status = "SUBSCRIBE" -> 4
                  [] status = "UNSUBSCRIBE" -> 5
MovesOn ==
    today' # today => \A t \in Rows :
        Started(t, Now)' = Started(t, Now) =>
            Rank(Label(t, Now).status)' >= Rank(Label(t, Now).status)
StatusForward == [][MovesOn]_vars

\* src/internal/customer/outlet_subscription_status.go:581 (comment): "UNSUBSCRIBE:
\* pernah berlangganan tapi sekarang tidak aktif", it subscribed once and is not active
\* now.  No outlet with a subscription that runs today is listed so.
UnsubscribedIsInactive ==
    \A t \in Rows : StatusFilter(t, Now, "UNSUBSCRIBE") =>
        \A s \in SubsOf(t) : sub[s].canceled \/ today \notin sub[s].from..sub[s].until
=============================================================================
