--------------------------- MODULE CustomerProofs ---------------------------
(***************************************************************************)
(* The subscription status of an outlet, for any owners, outlets and       *)
(* subscriptions, any calendar and any time of day.                        *)
(*                                                                         *)
(* The state adds little: the rows are typed, and an outlet that names an  *)
(* owner names one that exists (OwnersExist), so that its creation date is *)
(* one.  The argument is about the status expressions: which subscription  *)
(* the latest one is, and what comparing points in time has to do with     *)
(* comparing their days.                                                   *)
(***************************************************************************)
EXTENDS Customer, FiniteSetTheorems, TLAPS

OwnersExist ==
    \A t \in Outlet : outlet[t] # Null /\ outlet[t].owner # Null =>
        owner[outlet[t].owner] # Null

Inv == TypeOK /\ OwnersExist

-----------------------------------------------------------------------------
(***************************************************************************)
(* Days and points in time.                                                *)
(***************************************************************************)
LEMMA DivisionBounds ==
  ASSUME NEW n \in Nat, NEW k \in Nat \ {0}
  PROVE  n \div k \in Nat /\ (n \div k) * k <= n /\ n < (n \div k) * k + k
  OBVIOUS

LEMMA ProductGrows ==
  ASSUME NEW a \in Int, NEW b \in Int, NEW k \in Nat \ {0}
  PROVE  /\ a * k \in Int
         /\ a <= b => a * k <= b * k
         /\ a < b => a * k + k <= b * k
  OBVIOUS

LEMMA DivisionGrows ==
  ASSUME NEW m \in Nat, NEW n \in Nat, NEW k \in Nat \ {0}, m <= n
  PROVE  m \div k <= n \div k
<1>1. ~(m \div k <= n \div k) => FALSE
  BY DivisionBounds, ProductGrows
<1> QED
  BY <1>1

\* A time is before a midnight exactly when its day is before that midnight's day.
LEMMA DayOfTime ==
  ASSUME NEW c \in Nat, NEW d \in Int
  PROVE  /\ DateOnly(c) \in Nat /\ Midnight(d) \in Int
         /\ c < Midnight(d) <=> DateOnly(c) < d
         /\ c <= Midnight(d) => DateOnly(c) <= d
<1> DEFINE q == DateOnly(c)
<1>1. Ticks \in Nat \ {0}
  BY CalendarAssumption
<1>2. q \in Nat /\ q * Ticks <= c /\ c < q * Ticks + Ticks
  BY <1>1, DivisionBounds DEF DateOnly
<1> HIDE DEF q
<1>3. /\ q * Ticks \in Int /\ d * Ticks \in Int
      /\ q < d => q * Ticks + Ticks <= d * Ticks
      /\ d <= q => d * Ticks <= q * Ticks
      /\ d < q => d * Ticks + Ticks <= q * Ticks
  BY <1>1, <1>2, ProductGrows
<1>4. /\ q \in Nat /\ Midnight(d) \in Int
      /\ c < Midnight(d) <=> q < d
      /\ c <= Midnight(d) => q <= d
  BY <1>1, <1>2, <1>3 DEF Midnight
<1> QED
  BY <1>4 DEF q

LEMMA MonthOfDay ==
  ASSUME NEW d \in Nat, NEW e \in Nat, e <= MonthEnd(d)
  PROVE  /\ d \div MonthDays \in Nat /\ e \div MonthDays \in Nat
         /\ e \div MonthDays <= d \div MonthDays
<1> DEFINE m == d \div MonthDays
           n == e \div MonthDays
<1>1. MonthDays \in Nat \ {0}
  BY CalendarAssumption
<1>2. m \in Nat /\ n \in Nat /\ n * MonthDays <= e
  BY <1>1, DivisionBounds
<1>3. e <= m * MonthDays + MonthDays - 1
  BY DEF MonthEnd
<1> HIDE DEF m, n
<1>4. ~(m < n)
  <2> SUFFICES ASSUME m < n PROVE FALSE
    OBVIOUS
  <2>1. m * MonthDays + MonthDays <= n * MonthDays /\ m * MonthDays \in Int /\ n * MonthDays \in Int
    BY <1>1, <1>2, ProductGrows
  <2> QED
    BY <1>1, <1>2, <1>3, <2>1
<1>5. m \in Nat /\ n \in Nat /\ n <= m
  BY <1>2, <1>4
<1> QED
  BY <1>5 DEF m, n

-----------------------------------------------------------------------------
(***************************************************************************)
(* The rows.                                                               *)
(***************************************************************************)
LEMMA Calendar ==
    /\ TrialDays \in Nat /\ TrialSoon \in Nat /\ DueSoon \in Nat /\ TrialDays = 2 * TrialSoon
    /\ Day \subseteq Nat /\ Stamp \subseteq Nat /\ OutletStamp \subseteq Nat /\ Sub \subseteq Nat
BY CalendarAssumption DEF Day, Sub

LEMMA SubTyped ==
  ASSUME TypeOK, NEW s \in Sub, sub[s] # Null
  PROVE  sub[s] \in SubRow /\ sub[s].from \in Nat /\ sub[s].until \in Nat
BY Calendar DEF TypeOK, SubRow

LEMMA CreationTyped ==
  ASSUME Inv, NEW t \in Rows
  PROVE  t \in Outlet /\ CreatedAt(t) \in Nat
<1>1. t \in Outlet /\ outlet[t] # Null /\ outlet[t] \in OutletRow
  BY DEF Inv, TypeOK, Rows, Live
<1>2. outlet[t].owner \in Owner \cup {Null} /\ outlet[t].created \in Nat
  BY <1>1, Calendar DEF OutletRow
<1>3. ASSUME outlet[t].owner # Null PROVE owner[outlet[t].owner].created \in Nat
  <2>1. owner[outlet[t].owner] \in OwnerRow
    BY <1>1, <1>2, <1>3 DEF Inv, TypeOK, OwnersExist
  <2> QED
    BY <2>1, Calendar DEF OwnerRow
<1> QED
  BY <1>1, <1>2, <1>3 DEF CreatedAt

\* The latest of some subscriptions is one of them, and none is later.
LEMMA LatestIs ==
  ASSUME TypeOK, NEW S, S \subseteq Sub, S # {}, \A s \in S : sub[s] # Null
  PROVE  Latest(S) \in S /\ \A i \in S : Later(Latest(S), i)
<1> DEFINE Above(i) == {j \in S : ~Later(i, j)}
           T == {Above(i) : i \in S}
<1>1. IsFiniteSet(S)
  <2>1. IsFiniteSet(1..MaxSub)
    BY FS_Interval, CalendarAssumption
  <2> QED
    BY <2>1, FS_Subset DEF Sub
<1>2. \A i \in S : i \in Nat /\ sub[i].from \in Nat
  BY Calendar, SubTyped
<1>3. T \subseteq FiniteSubsetsOf(S)
  <2>1. T \subseteq SUBSET S
    OBVIOUS
  <2> QED
    BY <1>1, <2>1, FS_FiniteSubsetsOfFinite, Zenon DEF T
<1>4. T # {}
  <2>1. PICK i \in S : TRUE
    OBVIOUS
  <2>2. Above(i) \in T
    BY <2>1, Zenon DEF T
  <2> QED
    BY <2>2, Zenon
<1> HIDE DEF T
<1>5. PICK m \in T : \A u \in T : <<u, m>> \notin StrictSubsetOrdering(S)
  BY <1>1, <1>3, <1>4, FS_StrictSubsetOrderingWellFounded, WFMin
<1>6. PICK i \in S : m = Above(i)
  BY <1>5 DEF T
<1>7. ASSUME NEW j \in S, ~Later(i, j) PROVE FALSE
  <2>1. \A k \in S : ~Later(j, k) => ~Later(i, k)
    BY <1>2, <1>7 DEF Later
  <2>2. Later(j, j)
    BY <1>2 DEF Later
  <2>3. Above(j) \subseteq Above(i) /\ Above(j) # Above(i) /\ Above(i) \subseteq S
    <3>1. j \in Above(i) /\ j \notin Above(j)
      BY <1>7, <2>2
    <3>2. Above(j) \subseteq Above(i)
      BY <2>1
    <3> QED
      BY <3>1, <3>2
  <2>4. <<Above(j), Above(i)>> \in StrictSubsetOrdering(S)
    BY <2>3 DEF StrictSubsetOrdering
  <2> QED
    BY <2>4, <1>5, <1>6 DEF T
<1> QED
  BY <1>7, Zenon DEF Latest

LEMMA InView ==
  ASSUME TypeOK, NEW t, NEW v, Started(t, v) # {}
  PROVE  /\ Until(t, v) \in Nat /\ From(t, v) \in Nat /\ From(t, v) <= v.bound
         /\ Latest(Started(t, v)) \in SubsOf(t)
         /\ \A i \in Started(t, v) : Later(Latest(Started(t, v)), i)
<1>1. Started(t, v) \subseteq Sub /\ \A s \in Started(t, v) : sub[s] # Null
  BY DEF Started, SubsOf
<1>2. /\ Latest(Started(t, v)) \in Started(t, v)
      /\ \A i \in Started(t, v) : Later(Latest(Started(t, v)), i)
  BY <1>1, LatestIs
<1>3. \A s \in Started(t, v) : sub[s].from \in Nat /\ sub[s].until \in Nat /\ sub[s].from <= v.bound
  BY <1>1, SubTyped DEF Started
<1> QED
  BY <1>2, <1>3 DEF Until, From, Started

LEMMA SubsCounted ==
  ASSUME NEW t
  PROVE  /\ Cardinality(SubsOf(t)) \in Nat
         /\ SubsOf(t) # {} => Cardinality(SubsOf(t)) >= 1
<1>1. IsFiniteSet(SubsOf(t))
  <2>1. IsFiniteSet(1..MaxSub)
    BY FS_Interval, CalendarAssumption
  <2> QED
    BY <2>1, FS_Subset DEF Sub, SubsOf
<1> QED
  BY <1>1, FS_CardinalityType, FS_EmptySet

-----------------------------------------------------------------------------
(***************************************************************************)
(* The status page: filter and label, for an outlet with a subscription in *)
(* view and for one without.                                               *)
(***************************************************************************)
\* The one subscription the outlet ever had begins in the reference month.
First(t, v) == SameMonth(From(t, v), v.ref) /\ Cardinality(SubsOf(t)) <= 1

LEMMA ViewTyped ==
  ASSUME NEW v \in View
  PROVE  v.ref \in Nat
BY CalendarAssumption DEF View

LEMMA FilterWithSub ==
  ASSUME Inv, NEW t \in Rows, NEW v \in View, Started(t, v) # {}
  PROVE  /\ StatusFilter(t, v, "TRIAL") <=> FALSE
         /\ StatusFilter(t, v, "NO_PACKAGE") <=> FALSE
         /\ StatusFilter(t, v, "UNSUBSCRIBE") <=> Until(t, v) < v.ref
         /\ StatusFilter(t, v, "NEW") <=> Until(t, v) >= v.ref /\ First(t, v)
         /\ StatusFilter(t, v, "SUBSCRIBE") <=> Until(t, v) >= v.ref /\ ~First(t, v)
<1>1. SubsOf(t) # {}
  BY DEF Started
<1>2. Cardinality(SubsOf(t)) \in Nat /\ Cardinality(SubsOf(t)) >= 1
  BY <1>1, SubsCounted
<1>3. OnlySub(t) <=> Cardinality(SubsOf(t)) <= 1
  BY <1>2 DEF OnlySub
<1>4. Cardinality(SubsOf(t)) > 1 <=> ~(Cardinality(SubsOf(t)) <= 1)
  BY <1>2
<1> QED
  BY <1>3, <1>4, Zenon DEF StatusFilter, NeverBought, First

LEMMA DueWithSub ==
  ASSUME Inv, NEW t \in Rows, NEW v \in View, Started(t, v) # {}
  PROVE  /\ DueFilter(t, v, "AKAN_JATUH_TEMPO")
              <=> Until(t, v) > v.ref /\ Until(t, v) <= v.ref + DueSoon
         /\ DueFilter(t, v, "JATUH_TEMPO") <=> Until(t, v) = v.ref
         /\ DueFilter(t, v, "TELAH_JATUH_TEMPO") <=> Until(t, v) < v.ref
         /\ DueFilter(t, v, "BELUM_JATUH_TEMPO") <=> Until(t, v) > v.ref + DueSoon
BY Zenon DEF DueFilter, NeverBought

LEMMA FilterWithoutSub ==
  ASSUME Inv, NEW t \in Rows, NEW v \in View, Started(t, v) = {}
  PROVE  /\ StatusFilter(t, v, "TRIAL")
              <=> ~OwnerHasAny(t) /\ CreatedAt(t) > Midnight(v.ref - TrialDays)
         /\ StatusFilter(t, v, "NO_PACKAGE")
              <=> ~OwnerHasAny(t) /\ CreatedAt(t) <= Midnight(v.ref - TrialDays)
         /\ StatusFilter(t, v, "UNSUBSCRIBE") <=> OwnerHasAny(t)
         /\ StatusFilter(t, v, "NEW") <=> FALSE
         /\ StatusFilter(t, v, "SUBSCRIBE") <=> FALSE
BY Zenon DEF StatusFilter, NeverBought

LEMMA DueWithoutSub ==
  ASSUME Inv, NEW t \in Rows, NEW v \in View, Started(t, v) = {}
  PROVE  /\ DueFilter(t, v, "AKAN_JATUH_TEMPO")
              <=> ~OwnerHasAny(t) /\ CreatedAt(t) > Midnight(v.ref - TrialDays)
                                  /\ CreatedAt(t) <= Midnight(v.ref - TrialSoon)
         /\ DueFilter(t, v, "JATUH_TEMPO")
              <=> ~OwnerHasAny(t) /\ DateOnly(CreatedAt(t)) = v.ref - TrialDays
         /\ DueFilter(t, v, "TELAH_JATUH_TEMPO")
              <=> OwnerHasAny(t) \/ DateOnly(CreatedAt(t)) < v.ref - TrialDays
         /\ DueFilter(t, v, "BELUM_JATUH_TEMPO")
              <=> ~OwnerHasAny(t) /\ CreatedAt(t) >= Midnight(v.ref - TrialSoon)
BY Zenon DEF DueFilter, NeverBought

\* What the days of a creation say of its time, at the two ends of a trial's last week.
LEMMA TrialTimes ==
  ASSUME Inv, NEW t \in Rows, NEW v \in View
  PROVE  /\ CreatedAt(t) \in Nat /\ DateOnly(CreatedAt(t)) \in Nat /\ v.ref \in Nat
         /\ Midnight(v.ref - TrialDays) \in Int /\ Midnight(v.ref - TrialSoon) \in Int
         /\ CreatedAt(t) < Midnight(v.ref - TrialDays)
              <=> DateOnly(CreatedAt(t)) < v.ref - TrialDays
         /\ CreatedAt(t) <= Midnight(v.ref - TrialDays)
              => DateOnly(CreatedAt(t)) <= v.ref - TrialDays
         /\ CreatedAt(t) < Midnight(v.ref - TrialSoon)
              <=> DateOnly(CreatedAt(t)) < v.ref - TrialSoon
         /\ CreatedAt(t) <= Midnight(v.ref - TrialSoon)
              => DateOnly(CreatedAt(t)) <= v.ref - TrialSoon
<1>1. CreatedAt(t) \in Nat /\ v.ref \in Nat
  BY CreationTyped, ViewTyped
<1>2. v.ref - TrialDays \in Int /\ v.ref - TrialSoon \in Int
  BY <1>1, Calendar
<1> QED
  BY <1>1, <1>2, DayOfTime

LEMMA OneFilter ==
  ASSUME Inv, NEW t \in Rows, NEW v \in View
  PROVE  \E x \in Statuses : \A status \in Statuses : StatusFilter(t, v, status) <=> status = x
<1>1. CASE Started(t, v) # {}
  <2>1. Until(t, v) \in Nat /\ v.ref \in Nat
    BY <1>1, InView, ViewTyped DEF Inv
  <2> DEFINE x == IF Until(t, v) < v.ref THEN "UNSUBSCRIBE"
                  ELSE IF First(t, v) THEN "NEW" ELSE "SUBSCRIBE"
  <2>2. \A status \in Statuses : StatusFilter(t, v, status) <=> status = x
    BY <1>1, <2>1, FilterWithSub DEF Statuses
  <2> QED
    BY <2>2 DEF Statuses
<1>2. CASE Started(t, v) = {}
  <2> DEFINE x == IF OwnerHasAny(t) THEN "UNSUBSCRIBE"
                  ELSE IF CreatedAt(t) > Midnight(v.ref - TrialDays) THEN "TRIAL" ELSE "NO_PACKAGE"
  <2>1. CreatedAt(t) > Midnight(v.ref - TrialDays)
          <=> ~(CreatedAt(t) <= Midnight(v.ref - TrialDays))
    BY TrialTimes
  <2>2. \A status \in Statuses : StatusFilter(t, v, status) <=> status = x
    BY <1>2, <2>1, FilterWithoutSub DEF Statuses
  <2> QED
    BY <2>2 DEF Statuses
<1> QED
  BY <1>1, <1>2

LEMMA SomeDue ==
  ASSUME Inv, NEW t \in Rows, NEW v \in View
  PROVE  \E due \in DueStatuses : DueFilter(t, v, due)
<1>1. CASE Started(t, v) # {}
  <2>1. Until(t, v) \in Nat /\ v.ref \in Nat /\ DueSoon \in Nat
    BY <1>1, InView, ViewTyped, Calendar DEF Inv
  <2> QED
    BY <1>1, <2>1, DueWithSub DEF DueStatuses
<1>2. CASE Started(t, v) = {}
  <2>1. \/ CreatedAt(t) >= Midnight(v.ref - TrialSoon)
        \/ CreatedAt(t) > Midnight(v.ref - TrialDays) /\ CreatedAt(t) <= Midnight(v.ref - TrialSoon)
        \/ DateOnly(CreatedAt(t)) = v.ref - TrialDays
        \/ DateOnly(CreatedAt(t)) < v.ref - TrialDays
    BY TrialTimes, Calendar
  <2> QED
    BY <1>2, <2>1, DueWithoutSub DEF DueStatuses
<1> QED
  BY <1>1, <1>2

LEMMA Partition == Inv => FiltersPartition
<1> SUFFICES ASSUME Inv, NEW t \in Rows, NEW v \in View
             PROVE  /\ Cardinality({status \in Statuses : StatusFilter(t, v, status)}) = 1
                    /\ \E due \in DueStatuses : DueFilter(t, v, due)
  BY DEF FiltersPartition
<1>1. PICK x \in Statuses : \A status \in Statuses : StatusFilter(t, v, status) <=> status = x
  BY OneFilter
<1>2. {status \in Statuses : StatusFilter(t, v, status)} = {x}
  BY <1>1
<1> QED
  BY <1>2, SomeDue, FS_Singleton

LEMMA LabelWithSub ==
  ASSUME NEW t \in Rows, NEW v \in View, Started(t, v) # {},
         Until(t, v) \in Nat, v.ref \in Nat
  PROVE  /\ Label(t, v).status = IF Until(t, v) < v.ref THEN "UNSUBSCRIBE"
                                 ELSE IF First(t, v) THEN "NEW" ELSE "SUBSCRIBE"
         /\ Label(t, v).due = DueLabel(Until(t, v) - v.ref)
<1>1. Label(t, v) =
        [status |->
            CASE Until(t, v) < v.ref -> "UNSUBSCRIBE"
              [] Until(t, v) >= v.ref /\ SameMonth(From(t, v), v.ref)
                 /\ Cardinality(SubsOf(t)) <= 1 -> "NEW"
              [] OTHER -> "SUBSCRIBE",
          due |-> DueLabel(Until(t, v) - v.ref)]
  BY DEF Label
<1>2. Until(t, v) >= v.ref <=> ~(Until(t, v) < v.ref)
  OBVIOUS
<1> QED
  BY <1>1, <1>2 DEF First

LEMMA LabelWithoutSub ==
  ASSUME NEW t, NEW v, Started(t, v) = {}, ~OwnerHasAny(t)
  PROVE  Label(t, v) = TrialLabel(DateOnly(CreatedAt(t)) + TrialDays - v.ref)
BY DEF Label

LEMMA FilterIsLabel == Inv => FilterShowsLabel
<1> SUFFICES ASSUME Inv, NEW t \in Rows, NEW v \in View,
                    Started(t, v) # {} \/ (~OwnerHasAny(t) /\ ~OnEdge(t, v))
             PROVE  /\ \A status \in Statuses :
                          StatusFilter(t, v, status) <=> Label(t, v).status = status
                    /\ \A due \in DueStatuses : DueFilter(t, v, due) <=> Label(t, v).due = due
  BY DEF FilterShowsLabel
<1>1. CASE Started(t, v) # {}
  <2>1. Until(t, v) \in Nat /\ v.ref \in Nat /\ DueSoon \in Nat
    BY <1>1, InView, ViewTyped, Calendar DEF Inv
  <2>2. \A status \in Statuses : StatusFilter(t, v, status) <=> Label(t, v).status = status
    BY <1>1, <2>1, FilterWithSub, LabelWithSub DEF Statuses
  <2>3. \A due \in DueStatuses : DueFilter(t, v, due) <=> Label(t, v).due = due
    BY <1>1, <2>1, DueWithSub, LabelWithSub DEF DueStatuses, DueLabel
  <2> QED
    BY <2>2, <2>3
<1>2. CASE Started(t, v) = {}
  <2> DEFINE c == CreatedAt(t)
             left == DateOnly(c) + TrialDays - v.ref
  <2>1. ~OwnerHasAny(t) /\ Label(t, v) = TrialLabel(left)
    BY <1>2, LabelWithoutSub
  <2>2. /\ DateOnly(c) = v.ref - TrialDays => c = Midnight(v.ref - TrialDays)
        /\ DateOnly(c) # v.ref - TrialSoon
    BY <1>2, <2>1 DEF OnEdge
  <2>3. /\ left \in Int /\ TrialSoon \in Nat
        /\ c > Midnight(v.ref - TrialDays) <=> left > 0
        /\ c <= Midnight(v.ref - TrialDays) <=> left <= 0
        /\ c >= Midnight(v.ref - TrialSoon) <=> left > TrialSoon
        /\ c <= Midnight(v.ref - TrialSoon) <=> left <= TrialSoon
        /\ DateOnly(c) = v.ref - TrialDays <=> left = 0
        /\ DateOnly(c) < v.ref - TrialDays <=> left < 0
    BY <2>2, TrialTimes, Calendar
  <2> HIDE DEF left
  <2>4. \A status \in Statuses : StatusFilter(t, v, status) <=> TrialLabel(left).status = status
    BY <1>2, <2>1, <2>3, FilterWithoutSub DEF Statuses, TrialLabel
  <2>5. \A due \in DueStatuses : DueFilter(t, v, due) <=> TrialLabel(left).due = due
    BY <1>2, <2>1, <2>3, DueWithoutSub DEF DueStatuses, TrialLabel
  <2> QED
    BY <2>1, <2>4, <2>5
<1> QED
  BY <1>1, <1>2

-----------------------------------------------------------------------------
(***************************************************************************)
(* The lists.                                                              *)
(***************************************************************************)
LEMMA NowTyped ==
  ASSUME TypeOK
  PROVE  /\ today \in Nat /\ NowTime \in Int /\ Midnight(TrialDays) \in Int
         /\ NowTime - Midnight(TrialDays) \in Int
<1>1. today \in Nat /\ TrialDays \in Nat /\ Noon \in Int /\ Ticks \in Nat \ {0}
  BY Calendar, CalendarAssumption DEF TypeOK
<1>2. today * Ticks \in Int /\ TrialDays * Ticks \in Int
  BY <1>1, ProductGrows
<1> QED
  BY <1>1, <1>2 DEF NowTime, Midnight

LEMMA ListIsLabel == Inv => ListsShowLabel
<1> SUFFICES ASSUME Inv PROVE ListsShowLabel
  OBVIOUS
<1> DEFINE cut == NowTime - Midnight(TrialDays)
<1>1. cut \in Int
  BY NowTyped DEF Inv
<1>2. ASSUME NEW t \in Rows, NEW status \in Statuses \ {"NEW"}
      PROVE  ListFilter(t, status) <=> ListLabel(t) = status
  <2>1. CreatedAt(t) \in Nat
    BY CreationTyped
  <2>2. CreatedAt(t) <= cut <=> ~(CreatedAt(t) > cut)
    BY <1>1, <2>1
  <2>3. Running(t) => HasSub(t)
    BY DEF Running, HasSub
  <2>4. ~HasSub(t) => SubsOf(t) = {}
    BY DEF HasSub
  <2> HIDE DEF cut
  <2> QED
    BY <2>2, <2>3, <2>4 DEF ListFilter, ListLabel, Statuses, cut
<1>3. ASSUME NEW o \in Owner, Live(owner, o), NEW status \in OwnerStatuses
      PROVE  OwnerFilter(o, status) <=> OwnerLabel(o) = status
  <2>1. owner[o].created \in Nat
    BY <1>3, Calendar DEF Inv, TypeOK, OwnerRow, Live
  <2>2. /\ owner[o].created >= cut <=> NowTime - owner[o].created <= Midnight(TrialDays)
        /\ owner[o].created < cut <=> ~(NowTime - owner[o].created <= Midnight(TrialDays))
    BY <2>1, NowTyped DEF Inv
  <2> QED
    BY <2>2 DEF OwnerFilter, OwnerLabel, OwnerStatuses
<1> QED
  BY <1>2, <1>3 DEF ListsShowLabel

-----------------------------------------------------------------------------
(***************************************************************************)
(* Every step keeps the rows typed and the owners of outlets in place.     *)
(***************************************************************************)
LEMMA NotNull ==
    /\ \A r \in OwnerRow : r # Null
    /\ \A r \in OutletRow : r # Null
    /\ \A r \in SubRow : r # Null
BY NullAssumption

\* Taking duplicates down deletes and creates no row.
LEMMA DuplicatesTyped ==
  ASSUME NEW rows \in [Owner -> OwnerRow \cup {Null}], NEW o \in Owner
  PROVE  /\ WithoutDuplicates(rows, o) \in [Owner -> OwnerRow \cup {Null}]
         /\ \A n \in Owner : rows[n] # Null => WithoutDuplicates(rows, o)[n] # Null
<1>1. ASSUME NEW n \in Owner
      PROVE  /\ WithoutDuplicates(rows, o)[n] \in OwnerRow \cup {Null}
             /\ rows[n] # Null => WithoutDuplicates(rows, o)[n] # Null
  <2>1. rows[n] \in OwnerRow => [rows[n] EXCEPT !.deleted = TRUE] \in OwnerRow
    BY DEF OwnerRow
  <2>2. rows[n] # Null => rows[n] \in OwnerRow
    OBVIOUS
  <2> QED
    BY <2>1, <2>2, NotNull DEF WithoutDuplicates
<1> QED
  BY <1>1 DEF WithoutDuplicates

LEMMA OwnerStep ==
  ASSUME Inv, NEW o \in Owner,
         \/ \E stamp \in Stamp : CreateOwner(o, stamp) \/ UpdateOwner(o, stamp)
         \/ \E deleted \in BOOLEAN : SetOwnerDeleted(o, deleted)
         \/ ForceDeleteOwner(o)
  PROVE  Inv'
<1> USE DEF Inv
<1>1. ASSUME NEW stamp \in Stamp, CreateOwner(o, stamp) PROVE Inv'
  <2> DEFINE rows == [owner EXCEPT ![o] = [created |-> stamp, deleted |-> FALSE]]
  <2>1. [created |-> stamp, deleted |-> FALSE] \in OwnerRow
    BY DEF OwnerRow
  <2>2. /\ rows \in [Owner -> OwnerRow \cup {Null}]
        /\ \A n \in Owner : owner[n] # Null => rows[n] # Null
    BY <2>1, NotNull DEF TypeOK
  <2>3. owner' = WithoutDuplicates(rows, o) /\ UNCHANGED <<today, outlet, sub>>
    BY <1>1 DEF CreateOwner
  <2> HIDE DEF rows
  <2>4. /\ owner' \in [Owner -> OwnerRow \cup {Null}]
        /\ \A n \in Owner : owner[n] # Null => owner'[n] # Null
    BY <2>2, <2>3, DuplicatesTyped
  <2> QED
    BY <2>3, <2>4 DEF TypeOK, OwnersExist, OutletRow
<1>2. ASSUME NEW stamp \in Stamp, UpdateOwner(o, stamp) PROVE Inv'
  <2> DEFINE rows == [owner EXCEPT ![o].created = stamp]
  <2>1. owner[o] \in OwnerRow /\ [owner[o] EXCEPT !.created = stamp] \in OwnerRow
    BY <1>2 DEF UpdateOwner, Live, TypeOK, OwnerRow
  <2>2. /\ rows \in [Owner -> OwnerRow \cup {Null}]
        /\ \A n \in Owner : owner[n] # Null => rows[n] # Null
    BY <2>1, NotNull DEF TypeOK
  <2>3. owner' = WithoutDuplicates(rows, o) /\ UNCHANGED <<today, outlet, sub>>
    BY <1>2 DEF UpdateOwner
  <2> HIDE DEF rows
  <2>4. /\ owner' \in [Owner -> OwnerRow \cup {Null}]
        /\ \A n \in Owner : owner[n] # Null => owner'[n] # Null
    BY <2>2, <2>3, DuplicatesTyped
  <2> QED
    BY <2>3, <2>4 DEF TypeOK, OwnersExist, OutletRow
<1>3. ASSUME NEW deleted \in BOOLEAN, SetOwnerDeleted(o, deleted) PROVE Inv'
  <2>1. owner[o] \in OwnerRow /\ [owner[o] EXCEPT !.deleted = deleted] \in OwnerRow
    BY <1>3 DEF SetOwnerDeleted, TypeOK, OwnerRow
  <2>2. /\ owner' \in [Owner -> OwnerRow \cup {Null}]
        /\ \A n \in Owner : owner[n] # Null => owner'[n] # Null
    BY <1>3, <2>1, NotNull DEF TypeOK, SetOwnerDeleted
  <2> QED
    BY <1>3, <2>2 DEF SetOwnerDeleted, TypeOK, OwnersExist, OutletRow
<1>4. CASE ForceDeleteOwner(o)
  <2>1. owner' \in [Owner -> OwnerRow \cup {Null}] /\ \A n \in Owner \ {o} : owner'[n] = owner[n]
    BY <1>4 DEF ForceDeleteOwner, TypeOK
  <2>2. ASSUME NEW t \in Outlet
        PROVE  /\ outlet'[t] \in OutletRow \cup {Null}
               /\ outlet'[t] # Null /\ outlet'[t].owner # Null =>
                    /\ outlet'[t].owner = outlet[t].owner /\ outlet[t] # Null
                    /\ outlet[t].owner \in Owner \ {o}
    <3>1. outlet[t] # Null => outlet[t] \in OutletRow /\ outlet[t].owner \in Owner \cup {Null}
      BY DEF TypeOK, OutletRow
    <3>2. outlet[t] \in OutletRow => /\ [outlet[t] EXCEPT !.owner = Null] \in OutletRow
                                     /\ [outlet[t] EXCEPT !.owner = Null].owner = Null
      BY DEF OutletRow
    <3>3. outlet'[t] = IF outlet[t] # Null /\ outlet[t].owner = o
                       THEN [outlet[t] EXCEPT !.owner = Null] ELSE outlet[t]
      BY <1>4 DEF ForceDeleteOwner
    <3> QED
      BY <3>1, <3>2, <3>3
  <2>3. TypeOK'
    BY <1>4, <2>1, <2>2 DEF ForceDeleteOwner, TypeOK
  <2>4. OwnersExist'
    BY <2>1, <2>2 DEF OwnersExist
  <2> QED
    BY <2>3, <2>4
<1> QED
  BY <1>1, <1>2, <1>3, <1>4

LEMMA OutletStep ==
  ASSUME Inv, NEW t \in Outlet,
         \/ \E o \in Owner, stamp \in OutletStamp : CreateOutlet(t, o, stamp)
         \/ \E deleted \in BOOLEAN : SetOutletDeleted(t, deleted)
         \/ ForceDeleteOutlet(t)
  PROVE  Inv'
<1> USE DEF Inv
<1>1. ASSUME NEW o \in Owner, NEW stamp \in OutletStamp, CreateOutlet(t, o, stamp) PROVE Inv'
  <2> DEFINE row == [owner |-> o, created |-> stamp, deleted |-> FALSE]
  <2>1. row \in OutletRow /\ row.owner = o /\ owner[o] # Null
    BY <1>1 DEF OutletRow, CreateOutlet, Live
  <2>2. outlet' = [outlet EXCEPT ![t] = row] /\ UNCHANGED <<today, owner, sub>>
    BY <1>1 DEF CreateOutlet
  <2> HIDE DEF row
  <2> QED
    BY <2>1, <2>2 DEF TypeOK, OwnersExist
<1>2. ASSUME NEW deleted \in BOOLEAN, SetOutletDeleted(t, deleted) PROVE Inv'
  <2>1. outlet[t] \in OutletRow /\ outlet[t] # Null
    BY <1>2 DEF SetOutletDeleted, TypeOK
  <2>2. /\ [outlet[t] EXCEPT !.deleted = deleted] \in OutletRow
        /\ [outlet[t] EXCEPT !.deleted = deleted].owner = outlet[t].owner
    BY <2>1 DEF OutletRow
  <2>3. /\ outlet' = [outlet EXCEPT ![t] = [outlet[t] EXCEPT !.deleted = deleted]]
        /\ UNCHANGED <<today, owner, sub>>
    BY <1>2 DEF SetOutletDeleted
  <2> QED
    BY <2>1, <2>2, <2>3 DEF TypeOK, OwnersExist
<1>3. CASE ForceDeleteOutlet(t)
  <2>1. ASSUME NEW s \in Sub PROVE sub'[s] \in SubRow \cup {Null}
    <3>1. sub[s] # Null => sub[s] \in SubRow
      BY DEF TypeOK
    <3>2. sub[s] \in SubRow => [sub[s] EXCEPT !.outlet = Null] \in SubRow
      BY DEF SubRow
    <3>3. sub'[s] = IF sub[s] # Null /\ sub[s].outlet = t
                    THEN [sub[s] EXCEPT !.outlet = Null] ELSE sub[s]
      BY <1>3 DEF ForceDeleteOutlet
    <3> QED
      BY <3>1, <3>2, <3>3
  <2>2. sub' \in [Sub -> SubRow \cup {Null}]
    BY <1>3, <2>1 DEF ForceDeleteOutlet
  <2> QED
    BY <1>3, <2>2 DEF ForceDeleteOutlet, TypeOK, OwnersExist
<1> QED
  BY <1>1, <1>2, <1>3

\* What an upgrade does to the subscriptions.
LEMMA UpgradeWrites ==
  ASSUME TypeOK, NEW s \in Sub, NEW old \in Sub, NEW from \in Day, Upgrade(s, old, from)
  PROVE  /\ s # old /\ sub[s] = Null /\ sub[old] # Null
         /\ sub[old].from < from
         /\ sub' \in [Sub -> SubRow \cup {Null}]
         /\ \A i \in Sub \ {s, old} : sub'[i] = sub[i]
         /\ sub'[old] \in SubRow /\ sub'[old].outlet = sub[old].outlet
         /\ sub'[old].from = sub[old].from /\ sub'[old].until = from
         /\ sub'[s] \in SubRow /\ sub'[s].outlet = sub[old].outlet
         /\ sub'[s].from = from /\ sub'[s].until = sub[old].until
<1> DEFINE ended == [sub[old] EXCEPT !.until = from, !.canceled = TRUE]
           next == [sub[old] EXCEPT !.from = from]
<1>1. s # old /\ sub[s] = Null /\ sub[old] # Null /\ sub[old].from < from /\ sub[old] \in SubRow
  BY DEF Upgrade, NextId, TypeOK
<1>2. from \in Nat /\ from \in Day
  BY Calendar
<1>3. /\ ended \in SubRow /\ ended.outlet = sub[old].outlet
      /\ ended.from = sub[old].from /\ ended.until = from
      /\ next \in SubRow /\ next.outlet = sub[old].outlet
      /\ next.from = from /\ next.until = sub[old].until
  BY <1>1, <1>2 DEF SubRow
<1>4. sub'[old] = ended /\ sub'[s] = next /\ \A i \in Sub \ {s, old} : sub'[i] = sub[i]
  BY <1>1 DEF Upgrade, TypeOK
<1>5. sub' \in [Sub -> SubRow \cup {Null}]
  <2>1. sub' = [i \in Sub |-> sub'[i]]
    BY DEF Upgrade, TypeOK
  <2>2. \A i \in Sub : sub'[i] \in SubRow \cup {Null}
    BY <1>3, <1>4 DEF TypeOK
  <2> QED
    BY <2>1, <2>2
<1> HIDE DEF ended, next
<1> QED
  BY <1>1, <1>3, <1>4, <1>5

LEMMA SubStep ==
  ASSUME Inv, NEW s \in Sub,
         \/ \E t \in Outlet, from \in Day, days \in 1..MaxDuration : Activate(s, t, from, days)
         \/ \E old \in Sub, from \in Day : Upgrade(s, old, from)
  PROVE  Inv'
<1> USE DEF Inv
<1>1. ASSUME NEW t \in Outlet, NEW from \in Day, NEW days \in 1..MaxDuration,
             Activate(s, t, from, days)
      PROVE  Inv'
  <2> DEFINE row == [outlet |-> t, from |-> from, until |-> from + days, canceled |-> FALSE]
  <2>1. from \in Nat /\ from + days \in Nat
    BY Calendar, CalendarAssumption
  <2>2. row \in SubRow
    BY <2>1 DEF SubRow
  <2>3. sub' = [sub EXCEPT ![s] = row] /\ UNCHANGED <<today, owner, outlet>>
    BY <1>1 DEF Activate
  <2> HIDE DEF row
  <2> QED
    BY <2>2, <2>3 DEF TypeOK, OwnersExist
<1>2. ASSUME NEW old \in Sub, NEW from \in Day, Upgrade(s, old, from) PROVE Inv'
  <2>1. sub' \in [Sub -> SubRow \cup {Null}] /\ UNCHANGED <<today, owner, outlet>>
    BY <1>2, UpgradeWrites DEF Upgrade
  <2> QED
    BY <2>1 DEF TypeOK, OwnersExist
<1> QED
  BY <1>1, <1>2

LEMMA StepInv == Inv /\ [Next]_vars => Inv'
<1> SUFFICES ASSUME Inv, [Next]_vars PROVE Inv'
  OBVIOUS
<1>1. CASE OwnerNext
  BY <1>1, OwnerStep, Zenon DEF OwnerNext
<1>2. CASE OutletNext
  BY <1>2, OutletStep, Zenon DEF OutletNext
<1>3. CASE SubNext
  BY <1>3, SubStep, Zenon DEF SubNext
<1>4. CASE EndOfDay
  <2>1. today' \in Day
    BY <1>4, CalendarAssumption DEF EndOfDay, Inv, TypeOK, Day
  <2> QED
    BY <1>4, <2>1 DEF EndOfDay, Inv, TypeOK, OwnersExist
<1>5. CASE UNCHANGED vars
  BY <1>5 DEF vars, Inv, TypeOK, OwnersExist
<1> QED
  BY <1>1, <1>2, <1>3, <1>4, <1>5 DEF Next

LEMMA InitInv == Init => Inv
BY CalendarAssumption DEF Init, Inv, TypeOK, OwnersExist, Day

\* Every row keeps the types its columns have, and an outlet's owner exists: the foreign
\* key empties the column when an owner is erased (ForceDeleteOwner).
THEOREM CustomerTyped == Spec => []Inv
BY InitInv, StepInv, PTL DEF Spec

\* Each outlet passes one of the five status filters and at least one of the four due
\* filters, in every view (singleOutletSubscriptionStatusFilterCondition).
THEOREM FiltersPartitionRows == Spec => []FiltersPartition
BY CustomerTyped, Partition, PTL

\* The SQL of a filter and the Go of the label agree off the edges of a trial
\* (classifyOutletSubscription).
THEOREM FilterMatchesLabel == Spec => []FilterShowsLabel
BY CustomerTyped, FilterIsLabel, PTL

\* So do filter and label of the lists of outlets and of owners (globalOutletWhere,
\* ownerWhere and CalculateOwnerSubscriptionStatus).
THEOREM ListsMatchLabel == Spec => []ListsShowLabel
BY CustomerTyped, ListIsLabel, PTL

-----------------------------------------------------------------------------
(***************************************************************************)
(* An upgrade.                                                             *)
(***************************************************************************)
LEMMA OnlyUpgradeCancels ==
  ASSUME Inv, [Next]_vars, NEW old \in Sub, IsUpgrade(old)
  PROVE  \E s \in Sub, from \in Day : Upgrade(s, old, from)
<1> USE DEF IsUpgrade
<1>1. sub' # sub /\ sub[old] \in SubRow
  BY DEF Inv, TypeOK
<1>2. ~OwnerNext /\ ~EndOfDay /\ ~UNCHANGED vars
  BY <1>1 DEF OwnerNext, CreateOwner, UpdateOwner, SetOwnerDeleted, ForceDeleteOwner, EndOfDay, vars
<1>3. ASSUME NEW t \in Outlet, ForceDeleteOutlet(t) PROVE FALSE
  <2>1. sub'[old] = IF sub[old].outlet = t THEN [sub[old] EXCEPT !.outlet = Null] ELSE sub[old]
    BY <1>3 DEF ForceDeleteOutlet
  <2>2. [sub[old] EXCEPT !.outlet = Null].canceled = sub[old].canceled
    BY <1>1 DEF SubRow
  <2> QED
    BY <2>1, <2>2
<1>4. ~OutletNext
  BY <1>1, <1>3 DEF OutletNext, CreateOutlet, SetOutletDeleted
<1>5. ASSUME NEW s \in Sub, NEW t \in Outlet, NEW from \in Day, NEW days \in 1..MaxDuration,
             Activate(s, t, from, days)
      PROVE  FALSE
  BY <1>5 DEF Activate, NextId, Inv, TypeOK
<1>6. ASSUME NEW s \in Sub, NEW o \in Sub, NEW from \in Day, Upgrade(s, o, from) PROVE o = old
  BY <1>6, UpgradeWrites DEF Inv
<1> QED
  BY <1>2, <1>4, <1>5, <1>6, Zenon DEF Next, SubNext

\* The subscription an upgrade inserts is the latest from then on.
LEMMA UpgradeIsLatest ==
  ASSUME Inv, NEW s \in Sub, NEW old \in Sub, NEW from \in Day, Upgrade(s, old, from),
         NEW t \in Rows, NEW v \in View,
         Started(t, v) # {}, Latest(Started(t, v)) = old, v.bound >= from
  PROVE  Latest(Started(t, v))' = s
<1>1. /\ s # old /\ sub[s] = Null /\ sub[old] # Null /\ sub[old].from < from
      /\ \A i \in Sub \ {s, old} : sub'[i] = sub[i]
      /\ sub'[old] \in SubRow /\ sub'[old].from = sub[old].from
      /\ sub'[s] \in SubRow /\ sub'[s].outlet = sub[old].outlet /\ sub'[s].from = from
  BY UpgradeWrites DEF Inv
<1>2. old \in SubsOf(t) /\ \A i \in Started(t, v) : Later(old, i)
  BY InView DEF Inv
<1>3. sub[old].from \in Nat /\ from \in Nat
  BY <1>1, SubTyped, Calendar DEF Inv
<1> DEFINE S == {i \in Sub : sub'[i] # Null /\ sub'[i].outlet = t /\ sub'[i].from <= v.bound}
           After(i, j) == sub'[i].from > sub'[j].from \/ (sub'[i].from = sub'[j].from /\ i >= j)
<1>4. Latest(Started(t, v))' = CHOOSE i \in S : \A j \in S : After(i, j)
  <2>1. Started(t, v)' = S
    BY DEF Started, SubsOf
  <2> QED
    BY <2>1, Zenon DEF Latest, Later
<1>5. s \in S
  BY <1>1, <1>2, NotNull DEF SubsOf
<1>6. ASSUME NEW j \in S, j # s PROVE sub'[j].from \in Nat /\ sub'[j].from < from
  <2>1. CASE j = old
    BY <1>1, <1>3, <2>1
  <2>2. CASE j # old
    <3>1. sub'[j] = sub[j] /\ j \in Started(t, v)
      BY <1>1, <1>6, <2>2 DEF Started, SubsOf
    <3>2. sub[j].from \in Nat /\ Later(old, j)
      BY <1>2, <3>1, SubTyped DEF Inv, Started, SubsOf
    <3>3. sub[j].from <= sub[old].from
      BY <1>3, <3>2 DEF Later
    <3> QED
      BY <1>1, <1>3, <3>1, <3>2, <3>3
  <2> QED
    BY <2>1, <2>2
<1>7. \A j \in S : After(s, j)
  BY <1>1, <1>3, <1>6, Calendar
<1>8. \A i \in S : After(i, s) => i = s
  BY <1>1, <1>3, <1>6
<1> HIDE DEF S, After
<1> QED
  BY <1>4, <1>5, <1>7, <1>8, Zenon

\* No upgrade of the subscription an outlet is judged by moves its due date
\* (trimSubscriptionForUpgrade), whatever else the outlet has had and will have.
THEOREM UpgradesKeepDue == Spec => UpgradeKeepsDue
<1>1. Inv /\ [Next]_vars => [DueKept]_vars
  <2> SUFFICES ASSUME Inv, [Next]_vars, NEW old \in Sub, IsUpgrade(old),
                      NEW t \in Rows, NEW v \in View,
                      Started(t, v) # {}, Latest(Started(t, v)) = old,
                      v.bound >= sub'[old].until
               PROVE  Until(t, v)' = Until(t, v)
    BY Zenon DEF DueKept
  <2>1. PICK s \in Sub, from \in Day : Upgrade(s, old, from)
    BY OnlyUpgradeCancels
  <2>2. sub'[old].until = from /\ sub'[s].until = sub[old].until
    BY <2>1, UpgradeWrites DEF Inv
  <2>3. Latest(Started(t, v))' = s
    BY <2>1, <2>2, UpgradeIsLatest
  <2>4. Until(t, v)' = sub'[s].until
    BY <2>3 DEF Until
  <2>5. Until(t, v) = sub[old].until
    BY DEF Until
  <2> QED
    BY <2>2, <2>4, <2>5
<1> QED
  BY <1>1, CustomerTyped, PTL DEF Spec, UpgradeKeepsDue

-----------------------------------------------------------------------------
(***************************************************************************)
(* The end of a day.                                                       *)
(***************************************************************************)
Tomorrow == [bound |-> MonthEnd(today + 1), ref |-> today + 1]

LEMMA DayPasses ==
  ASSUME Inv, today < MaxDay, NEW t \in Rows, Started(t, Tomorrow) = Started(t, Now)
  PROVE  Rank(Label(t, Tomorrow).status) >= Rank(Label(t, Now).status)
<1>1. /\ today \in Nat /\ Now \in View /\ Tomorrow \in View
      /\ Now.ref = today /\ Tomorrow.ref = today + 1 /\ Now.bound = MonthEnd(today)
  <2>1. today \in Day /\ today + 1 \in Day /\ today \in Nat
    BY CalendarAssumption DEF Inv, TypeOK, Day
  <2>2. today \in 0..(MaxDay + 1) /\ today + 1 \in 0..(MaxDay + 1)
    BY <2>1, CalendarAssumption DEF Day
  <2> QED
    BY <2>1, <2>2 DEF Now, Tomorrow, View
<1>2. CASE Started(t, Now) = {}
  <2>1. CASE OwnerHasAny(t)
    BY <1>2, <2>1 DEF Label, Rank
  <2>2. CASE ~OwnerHasAny(t)
    <3> DEFINE left == DateOnly(CreatedAt(t)) + TrialDays - today
    <3>1. left \in Int
      BY <1>1, TrialTimes, Calendar
    <3>2. Label(t, Now) = TrialLabel(left) /\ Label(t, Tomorrow) = TrialLabel(left - 1)
      <4>1. DateOnly(CreatedAt(t)) + TrialDays - (today + 1) = left - 1
        BY <1>1, TrialTimes, Calendar
      <4> QED
        BY <1>1, <1>2, <2>2, <4>1, LabelWithoutSub
    <3> HIDE DEF left
    <3>3. TrialLabel(left).status = "NO_PACKAGE" => TrialLabel(left - 1).status = "NO_PACKAGE"
      BY <3>1 DEF TrialLabel
    <3>4. \A x : TrialLabel(x).status \in {"TRIAL", "NO_PACKAGE"}
      BY DEF TrialLabel
    <3> QED
      BY <3>2, <3>3, <3>4 DEF Rank
  <2> QED
    BY <2>1, <2>2
<1>3. CASE Started(t, Now) # {}
  <2>1. /\ Until(t, Now) \in Nat /\ From(t, Now) \in Nat /\ From(t, Now) <= MonthEnd(today)
        /\ Until(t, Tomorrow) = Until(t, Now) /\ From(t, Tomorrow) = From(t, Now)
    BY <1>1, <1>3, InView DEF Inv, Until, From
  <2>2. First(t, Tomorrow) => First(t, Now)
    <3>1. /\ From(t, Now) \div MonthDays \in Nat /\ today \div MonthDays \in Nat
          /\ From(t, Now) \div MonthDays <= today \div MonthDays
      BY <1>1, <2>1, MonthOfDay
    <3>2. /\ (today + 1) \div MonthDays \in Nat
          /\ today \div MonthDays <= (today + 1) \div MonthDays
      BY <1>1, CalendarAssumption, DivisionBounds, DivisionGrows
    <3>3. /\ SameMonth(From(t, Now), today) <=> From(t, Now) \div MonthDays = today \div MonthDays
          /\ SameMonth(From(t, Now), today + 1)
               <=> From(t, Now) \div MonthDays = (today + 1) \div MonthDays
      BY DEF SameMonth
    <3>4. SameMonth(From(t, Now), today + 1) => SameMonth(From(t, Now), today)
      BY <3>1, <3>2, <3>3
    <3> QED
      BY <1>1, <2>1, <3>4 DEF First
  <2>3. \A v \in {Now, Tomorrow} :
          Label(t, v).status = IF Until(t, v) < v.ref THEN "UNSUBSCRIBE"
                               ELSE IF First(t, v) THEN "NEW" ELSE "SUBSCRIBE"
    BY <1>1, <1>3, <2>1, LabelWithSub
  <2> QED
    BY <1>1, <2>1, <2>2, <2>3 DEF Rank
<1> QED
  BY <1>2, <1>3

\* When a day ends, the label of an outlet's row only moves on (classifyOutletSubscription),
\* whatever the lengths of months and trials.
THEOREM StatusesMoveForward == Spec => StatusForward
<1>1. Inv /\ [Next]_vars => [MovesOn]_vars
  <2> SUFFICES ASSUME Inv, [Next]_vars, today' # today, NEW t \in Rows,
                      Started(t, Now)' = Started(t, Now)
               PROVE  Rank(Label(t, Now).status)' >= Rank(Label(t, Now).status)
    BY Zenon DEF MovesOn
  <2>1. EndOfDay
    BY DEF Next, OwnerNext, OutletNext, SubNext, CreateOwner, UpdateOwner, SetOwnerDeleted,
           ForceDeleteOwner, CreateOutlet, SetOutletDeleted, ForceDeleteOutlet,
           Activate, Upgrade, vars
  <2>2. /\ today \in Nat /\ today' = today + 1 /\ Now' = Tomorrow
        /\ UNCHANGED <<owner, outlet, sub>>
    BY <2>1, Calendar DEF EndOfDay, Inv, TypeOK, Now, Tomorrow
  <2>3. Started(t, Tomorrow) = Started(t, Now)
    BY <2>2 DEF Started, SubsOf
  <2>4. Label(t, Now)' = Label(t, Tomorrow)
    BY <2>2 DEF Label, Started, Until, From, Latest, Later, SubsOf, OwnerHasAny, Bought, CreatedAt
  <2>5. Rank(Label(t, Tomorrow).status) >= Rank(Label(t, Now).status)
    BY <2>1, <2>3, DayPasses DEF EndOfDay
  <2> QED
    BY <2>4, <2>5 DEF Rank
<1> QED
  BY <1>1, CustomerTyped, PTL DEF Spec, StatusForward

=============================================================================
