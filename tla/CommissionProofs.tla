-------------------------- MODULE CommissionProofs --------------------------
(***************************************************************************)
(* Theorems about Commission, for any closings, partners, clerks, rules    *)
(* and lengths of the calendar.                                            *)
(***************************************************************************)
EXTENDS Commission, FiniteSetTheorems, TLAPS

Rule == [plan : {d.plan : d \in Draft}, tiers : Seq(Nat \X Nat), from : Days,
         to : Days \cup {Open}, active : BOOLEAN]

(***************************************************************************)
(* The invariant.  A row a clerk is about to insert is as good as one that *)
(* is in the table, unless its closing has been erased meanwhile, and then *)
(* it will not be inserted.                                                *)
(***************************************************************************)
Pending == UNION {found[r] : r \in Clerk}
Written(k) == k \in commission \/ (k \in Pending /\ status[k.closing] # "GONE")

RulesTyped ==
    /\ rules \in Seq(Rule) /\ Len(rules) <= MaxRules
    /\ \A n \in DOMAIN rules : rules[n].tiers # <<>> => ValidTiers(rules[n].tiers)

ClosingsTimed ==
    /\ \A c \in Closing : stamp[c] <= day /\ confirmedAt[c] <= day
    /\ \A c \in Closing : stamp[c] # 0 => status[c] = "PENDING"

FoundOnce == \A r \in Clerk : \A j, k \in found[r] : j.closing = k.closing => j = k

OfConfirmed == \A k \in Row : Written(k) => status[k.closing] = "CONFIRMED"

Rated ==
    \A k \in Row : Written(k) /\ k.rule # 0 =>
        /\ k.rule \in DOMAIN rules
        /\ rules[k.rule].from <= confirmedAt[k.closing]
        /\ confirmedAt[k.closing] <= rules[k.rule].to

Ranked ==
    \A k \in Row :
        Written(k) /\ k.rank # 0 /\ MonthOf(confirmedAt[k.closing]) \notin shuffled =>
            /\ Counts(k.closing) /\ <<k.partner, LeadOf[k.closing]>> \in referral
            /\ k.rank = Ordinal(k.partner, k.closing)

Inv == /\ TypeOK /\ RulesTyped /\ ClosingsTimed
       /\ FoundOnce /\ CommissionOnce /\ OfConfirmed /\ Rated /\ Ranked

-----------------------------------------------------------------------------
(***************************************************************************)
(* The largest element of a finite set: the prover's library states        *)
(* induction with an operator for parameter, so a minimal set of better    *)
(* elements is what these are proved from.                                 *)
(***************************************************************************)
LEMMA FiniteMax ==
  ASSUME NEW S, IsFiniteSet(S), S # {}, NEW R,
         \A x \in S : <<x, x>> \notin R,
         \A x, y, z \in S : <<x, y>> \in R /\ <<y, z>> \in R => <<x, z>> \in R
  PROVE  \E x \in S : \A y \in S : <<y, x>> \notin R
<1> DEFINE U(x) == {y \in S : <<y, x>> \in R}
           T == {U(x) : x \in S}
<1>1. T \subseteq FiniteSubsetsOf(S)
  <2>1. T \subseteq SUBSET S
    OBVIOUS
  <2> QED BY <2>1, FS_FiniteSubsetsOfFinite, Zenon DEF T
<1>2. T # {}
  <2>1. PICK x \in S : TRUE
    OBVIOUS
  <2>2. U(x) \in T
    BY <2>1, Zenon DEF T
  <2> QED BY <2>2, Zenon
<1> HIDE DEF T
<1>3. PICK m \in T : \A u \in T : <<u, m>> \notin StrictSubsetOrdering(S)
  BY <1>1, <1>2, FS_StrictSubsetOrderingWellFounded, WFMin
<1>4. PICK x \in S : m = U(x)
  BY <1>3 DEF T
<1>5. ASSUME NEW y \in S, <<y, x>> \in R PROVE FALSE
  <2>1. U(y) \subseteq U(x) /\ U(y) # U(x) /\ U(x) \subseteq S
    BY <1>4, <1>5 DEF U
  <2>2. <<U(y), U(x)>> \in StrictSubsetOrdering(S)
    BY <2>1 DEF StrictSubsetOrdering
  <2> QED BY <2>2, <1>3, <1>4 DEF T
<1> QED BY <1>5

LEMMA FiniteLargest ==
  ASSUME NEW S, S \subseteq Int, IsFiniteSet(S), S # {}
  PROVE  \E x \in S : \A y \in S : y <= x
<1> DEFINE R == {p \in S \X S : p[1] > p[2]}
<1>1. \A x, y \in S : <<x, y>> \in R <=> x > y
  OBVIOUS
<1>2. S \subseteq Int
  OBVIOUS
<1> HIDE DEF R
<1>3. PICK x \in S : \A y \in S : <<y, x>> \notin R
  <2>1. \A x \in S : <<x, x>> \notin R
     BY <1>1, <1>2
  <2>2. \A x, y, z \in S : <<x, y>> \in R /\ <<y, z>> \in R => <<x, z>> \in R
     BY <1>1, <1>2
  <2> QED BY <2>1, <2>2, FiniteMax
<1>4. ASSUME NEW y \in S PROVE y <= x
  <2>1. ~(y > x)
    BY <1>1, <1>3
  <2>2. x \in Int /\ y \in Int
    BY <1>2
  <2> QED BY <2>1, <2>2
<1> QED BY <1>4

-----------------------------------------------------------------------------
(***************************************************************************)
(* The rule in force, a closing's rank and the tier they select.           *)
(***************************************************************************)
LEMMA ConstantsTyped ==
    /\ Cardinality(Closing) \in Nat
    /\ Open \in Nat /\ Open >= LastDay /\ Open >= Cardinality(Closing)
    /\ Days \subseteq Nat
  <1>1. Cardinality(Closing) \in Nat
    BY FS_CardinalityType, CommissionAssumption
  <1>2. LastDay \in Nat
    BY CommissionAssumption
  <1> QED BY <1>1, <1>2 DEF Open, Days

LEMMA RulesAre ==
  ASSUME RulesTyped
  PROVE  /\ DOMAIN rules = 1 .. Len(rules) /\ Len(rules) \in 0 .. MaxRules
         /\ DOMAIN rules \subseteq Nat
         /\ \A n \in DOMAIN rules : rules[n] \in Rule /\ rules[n].from \in Nat
<1>1. rules \in Seq(Rule) /\ Len(rules) <= MaxRules /\ MaxRules \in Nat
  BY CommissionAssumption DEF RulesTyped
<1>2. DOMAIN rules = 1 .. Len(rules) /\ Len(rules) \in 0 .. MaxRules
  BY <1>1
<1>3. ASSUME NEW n \in DOMAIN rules PROVE rules[n] \in Rule
  BY <1>1, <1>2
<1>4. \A rule \in Rule : rule.from \in Nat
  BY ConstantsTyped DEF Rule
<1> QED BY <1>2, <1>3, <1>4

\* What a rule needs to be preferred, one key after the other.
LEMMA PrecedesMeans ==
  ASSUME RulesTyped, NEW m \in DOMAIN rules, NEW n \in DOMAIN rules
  PROVE  Precedes(m, n) <=>
           \/ rules[m].plan # NoPlan /\ rules[n].plan = NoPlan
           \/ (rules[m].plan = NoPlan <=> rules[n].plan = NoPlan) /\ rules[m].from > rules[n].from
           \/ /\ (rules[m].plan = NoPlan <=> rules[n].plan = NoPlan)
              /\ rules[m].from = rules[n].from /\ m > n
<1> DEFINE Key(i) == <<IF rules[i].plan # NoPlan THEN 1 ELSE 0, rules[i].from, i>>
           Above(j) == Key(m)[j] > Key(n)[j] /\ \A i \in 1 .. j - 1 : Key(m)[i] = Key(n)[i]
<1>1. Precedes(m, n) <=> Above(1) \/ Above(2) \/ Above(3)
  <2>1. 1 .. 3 = {1, 2, 3}
    OBVIOUS
  <2>2. Precedes(m, n) <=> \E j \in 1 .. 3 : Above(j)
    BY Zenon DEF Precedes
  <2> QED BY <2>1, <2>2, Zenon
<1>2. rules[m].from \in Nat /\ rules[n].from \in Nat /\ m \in Nat /\ n \in Nat
  BY RulesAre
<1>3. Above(1) <=> rules[m].plan # NoPlan /\ rules[n].plan = NoPlan
  OBVIOUS
<1>4. Above(2) <=> /\ (rules[m].plan = NoPlan <=> rules[n].plan = NoPlan)
                   /\ rules[m].from > rules[n].from
  OBVIOUS
<1>5. Above(3) <=> /\ (rules[m].plan = NoPlan <=> rules[n].plan = NoPlan)
                   /\ rules[m].from = rules[n].from /\ m > n
  OBVIOUS
<1> HIDE DEF Above
<1> QED BY <1>1, <1>3, <1>4, <1>5

LEMMA RuleForApplies ==
  ASSUME RulesTyped, NEW c \in Closing
  PROVE  RuleFor(c) = 0 \/ (RuleFor(c) \in DOMAIN rules /\ Applies(RuleFor(c), c))
<1> DEFINE fit == {n \in DOMAIN rules : Applies(n, c)}
           R == {p \in fit \X fit : Precedes(p[1], p[2])}
<1>1. CASE fit = {}
  BY <1>1 DEF RuleFor
<1>2. CASE fit # {}
  <2>1. fit \subseteq Nat /\ fit \subseteq DOMAIN rules
    BY RulesAre
  <2>2. IsFiniteSet(fit)
    <3>1. DOMAIN rules = 1 .. Len(rules) /\ Len(rules) \in Nat
      BY RulesAre
    <3>2. IsFiniteSet(DOMAIN rules)
      BY <3>1, FS_Interval
    <3> QED BY <2>1, <3>2, FS_Subset
  <2>3. \A m, n \in fit : <<m, n>> \in R <=> Precedes(m, n)
    OBVIOUS
  <2>4. \A m \in fit : rules[m].from \in Nat
    BY RulesAre
  <2> HIDE DEF R, fit
  <2>5. \A m \in fit : <<m, m>> \notin R
    BY <2>1, <2>3, <2>4, PrecedesMeans
  <2>6. \A x, y, z \in fit : <<x, y>> \in R /\ <<y, z>> \in R => <<x, z>> \in R
    BY <2>1, <2>3, <2>4, PrecedesMeans
  <2>7. PICK m \in fit : \A n \in fit : <<n, m>> \notin R
    BY <1>2, <2>2, <2>5, <2>6, FiniteMax
  <2>8. \A n \in fit \ {m} : Precedes(m, n)
    <3> SUFFICES ASSUME NEW n \in fit, n # m PROVE Precedes(m, n)
      OBVIOUS
    <3>1. ~ Precedes(n, m)
      BY <2>3, <2>7
    <3>2. m \in DOMAIN rules /\ n \in DOMAIN rules /\ m \in Nat /\ n \in Nat
      BY <2>1
    <3>3. rules[m].from \in Nat /\ rules[n].from \in Nat
      BY <2>4
    <3> QED BY <3>1, <3>2, <3>3, PrecedesMeans
  <2>9. RuleFor(c) \in fit
    BY <1>2, <2>7, <2>8, Zenon DEF RuleFor, fit
  <2> QED BY <2>9 DEF fit
<1> QED BY <1>1, <1>2

LEMMA OrdinalRange ==
  ASSUME NEW p, NEW c \in Closing
  PROVE  /\ Ordinal(p, c) \in 0 .. Cardinality(Closing)
         /\ Counts(c) /\ <<p, LeadOf[c]>> \in referral => Ordinal(p, c) >= 1
<1> DEFINE D == {d \in Closing : /\ Counts(d) /\ <<p, LeadOf[d]>> \in referral
                                 /\ MonthOf(confirmedAt[d]) = MonthOf(confirmedAt[c])
                                 /\ Before(d, c)}
<1>1. Ordinal(p, c) = Cardinality(D)
  BY Zenon DEF Ordinal
<1>2. D \subseteq Closing /\ IsFiniteSet(Closing)
  BY CommissionAssumption
<1>3. IsFiniteSet(D) /\ Cardinality(D) <= Cardinality(Closing)
  <2> HIDE DEF D
  <2> QED BY <1>2, FS_Subset
<1>4. Cardinality(D) \in Nat /\ Cardinality(Closing) \in Nat
  BY <1>2, <1>3, FS_CardinalityType
<1>5. ASSUME Counts(c), <<p, LeadOf[c]>> \in referral PROVE Cardinality(D) # 0
  <2>1. c \in D
    BY <1>5, CommissionAssumption DEF Before
  <2> HIDE DEF D
  <2> QED BY <1>3, <2>1, FS_EmptySet
<1> HIDE DEF D
<1> QED BY <1>1, <1>3, <1>4, <1>5

\* Of two closings in one month, the earlier has the lower rank.
LEMMA OrdinalGrows ==
  ASSUME TypeOK, NEW p, NEW c \in Closing, NEW d \in Closing,
         Counts(d), <<p, LeadOf[d]>> \in referral,
         MonthOf(confirmedAt[c]) = MonthOf(confirmedAt[d]),
         Before(c, d), c # d
  PROVE  Ordinal(p, c) < Ordinal(p, d)
<1> DEFINE D(x) == {e \in Closing : /\ Counts(e) /\ <<p, LeadOf[e]>> \in referral
                                    /\ MonthOf(confirmedAt[e]) = MonthOf(confirmedAt[x])
                                    /\ Before(e, x)}
<1>1. Ordinal(p, c) = Cardinality(D(c)) /\ Ordinal(p, d) = Cardinality(D(d))
  BY Zenon DEF Ordinal
<1>2. \A e \in Closing : e \in Nat /\ confirmedAt[e] \in Nat
  BY CommissionAssumption DEF TypeOK
<1>3. \A e \in Closing : Before(e, c) => Before(e, d)
  BY <1>2 DEF Before
<1>4. ~ Before(d, c) /\ Before(d, d)
  BY <1>2 DEF Before
<1>5. D(c) \subseteq D(d)
  BY <1>3
<1>6. d \in D(d) /\ d \notin D(c)
  BY <1>4
<1>7. D(d) \subseteq Closing /\ IsFiniteSet(Closing)
  BY CommissionAssumption
<1> HIDE DEF D
<1>8. IsFiniteSet(D(d)) /\ IsFiniteSet(D(c))
  BY <1>5, <1>7, FS_Subset
<1>9. Cardinality(D(c)) <= Cardinality(D(d)) /\ Cardinality(D(c)) # Cardinality(D(d))
  BY <1>5, <1>6, <1>8, FS_Subset
<1> QED BY <1>1, <1>8, <1>9, FS_CardinalityType

\* The tiers an administrator may enter follow one another without overlapping.
LEMMA TiersIncrease ==
  ASSUME NEW tiers \in Seq(Nat \X Nat), tiers # <<>>, ValidTiers(tiers),
         NEW i \in 1 .. Len(tiers), NEW j \in 1 .. Len(tiers), i < j
  PROVE  tiers[i][2] < tiers[j][1]
<1> DEFINE B == {k \in 1 .. j - 1 : tiers[k][2] >= tiers[j][1]}
<1>1. \A k \in 1 .. Len(tiers) : tiers[k][1] \in Nat /\ tiers[k][2] \in Nat
  OBVIOUS
<1>2. \A k \in 1 .. Len(tiers) - 1 :
         tiers[k][2] >= tiers[k][1] /\ tiers[k + 1][1] = tiers[k][2] + 1
  BY DEF ValidTiers
<1>3. Len(tiers) \in Nat /\ i \in Nat /\ j \in Nat
  OBVIOUS
<1>4. ASSUME B # {} PROVE FALSE
  <2>1. B \subseteq 1 .. j - 1 /\ B \subseteq Int
    OBVIOUS
  <2>2. IsFiniteSet(B)
    <3>1. IsFiniteSet(1 .. j - 1)
      BY <1>3, FS_Interval
    <3> HIDE DEF B
    <3> QED BY <2>1, <3>1, FS_Subset
  <2>3. PICK k \in B : \A x \in B : x <= k
    <3> HIDE DEF B
    <3> QED BY <1>4, <2>1, <2>2, FiniteLargest
  <2>4. k \in 1 .. j - 1 /\ tiers[k][2] >= tiers[j][1]
    OBVIOUS
  <2>5. k \in 1 .. Len(tiers) - 1 /\ k \in 1 .. Len(tiers) /\ k + 1 \in 1 .. Len(tiers)
    BY <2>4, <1>3
  <2>6. tiers[k + 1][1] = tiers[k][2] + 1
    BY <2>5, <1>2
  <2>7. k + 1 # j
    <3> SUFFICES ASSUME k + 1 = j PROVE FALSE
      OBVIOUS
    <3>1. tiers[j][1] = tiers[k][2] + 1
      BY <2>6
    <3>2. tiers[k][2] \in Nat
      BY <2>5, <1>1
    <3> QED BY <2>4, <3>1, <3>2
  <2>8. k + 1 \in 1 .. j - 1 /\ k + 1 \in 1 .. Len(tiers) - 1 /\ k + 1 \notin B
    BY <2>3, <2>4, <2>7, <1>3
  <2>9. ~ (tiers[k + 1][2] >= tiers[j][1]) /\ tiers[k + 1][2] >= tiers[k + 1][1]
    BY <2>8, <1>2
  <2>10. /\ tiers[k][2] \in Nat /\ tiers[j][1] \in Nat
         /\ tiers[k + 1][1] \in Nat /\ tiers[k + 1][2] \in Nat
    BY <2>5, <1>1
  <2>11. \A a, b, c, d \in Nat : ~ (a >= b /\ c = a + 1 /\ d >= c /\ ~ (d >= b))
    OBVIOUS
  <2> QED BY <2>4, <2>6, <2>9, <2>10, <2>11, Zenon
<1>5. i \in 1 .. j - 1
  BY <1>3
<1>6. i \notin B
  BY <1>4
<1>7. ~ (tiers[i][2] >= tiers[j][1])
  BY <1>5, <1>6
<1> QED BY <1>1, <1>7

LEMMA OneTier ==
  ASSUME NEW rule \in Rule, rule.tiers # <<>>, ValidTiers(rule.tiers),
         NEW n \in Nat, 1 <= n, n <= Open
  PROVE  \E i : Tiers(rule, n) = {i}
<1> DEFINE tiers == rule.tiers
           B == {k \in 1 .. Len(tiers) : tiers[k][1] <= n}
<1>1. tiers \in Seq(Nat \X Nat) /\ DOMAIN tiers = 1 .. Len(tiers) /\ Len(tiers) \in Nat
  BY DEF Rule
<1>2. \A k \in 1 .. Len(tiers) : tiers[k][1] \in Nat /\ tiers[k][2] \in Nat
  BY <1>1
<1>3. 1 \in B
  BY <1>1 DEF ValidTiers
<1>4. PICK k \in B : \A x \in B : x <= k
  <2>1. B \subseteq 1 .. Len(tiers) /\ B \subseteq Int
    OBVIOUS
  <2>2. IsFiniteSet(1 .. Len(tiers))
    BY <1>1, FS_Interval
  <2>3. IsFiniteSet(B)
    <3> HIDE DEF B
    <3> QED BY <2>1, <2>2, FS_Subset
  <2> HIDE DEF B
  <2> QED BY <1>1, <1>3, <2>1, <2>3, FiniteLargest
<1>5. k \in 1 .. Len(tiers) /\ tiers[k][1] <= n
  OBVIOUS
<1>6. n <= tiers[k][2]
  <2>1. CASE k = Len(tiers)
    BY <2>1 DEF ValidTiers
  <2>2. CASE k # Len(tiers)
    <3>1. k + 1 \in 1 .. Len(tiers) /\ k \in 1 .. Len(tiers) - 1
      BY <1>1, <1>5, <2>2
    <3>2. k + 1 \notin B
      BY <1>4, <1>5, <1>1
    <3>3. ~ (tiers[k + 1][1] <= n)
      BY <3>1, <3>2
    <3>4. tiers[k + 1][1] = tiers[k][2] + 1
      BY <3>1 DEF ValidTiers
    <3> QED BY <1>2, <1>5, <3>1, <3>3, <3>4
  <2> QED BY <2>1, <2>2
<1>7. k \in Tiers(rule, n)
  BY <1>1, <1>5, <1>6 DEF Tiers
<1>8. ASSUME NEW j \in Tiers(rule, n) PROVE j = k
  <2>1. j \in 1 .. Len(tiers) /\ tiers[j][1] <= n /\ n <= tiers[j][2]
    BY <1>1 DEF Tiers
  <2>2. j < k => tiers[j][2] < tiers[k][1]
    BY <1>1, <1>5, <2>1, TiersIncrease
  <2>3. k < j => tiers[k][2] < tiers[j][1]
    BY <1>1, <1>5, <2>1, TiersIncrease
  <2>4. ~ (j < k) /\ ~ (k < j)
    <3> HIDE DEF tiers
    <3> QED BY <1>2, <1>5, <1>6, <2>1, <2>2, <2>3
  <2> QED BY <1>1, <1>5, <2>1, <2>4
<1> QED BY <1>7, <1>8, Zenon

-----------------------------------------------------------------------------
(***************************************************************************)
(* Every step preserves the invariant, one conjunct after the other.       *)
(***************************************************************************)
LEMMA RowForRow ==
  ASSUME RulesTyped, NEW p \in Partner, NEW c \in Closing
  PROVE  /\ RowFor(p, c) \in Row
         /\ RowFor(p, c).closing = c /\ RowFor(p, c).partner = p
         /\ RowFor(p, c).rule = RuleFor(c)
         /\ RowFor(p, c).rank # 0 => RowFor(p, c).rank = Ordinal(p, c)
<1>1. RuleFor(c) \in 0 .. MaxRules
  BY RuleForApplies, RulesAre, CommissionAssumption
<1>2. Ordinal(p, c) \in 0 .. Cardinality(Closing)
  BY OrdinalRange
<1>3. 0 \in 0 .. Cardinality(Closing)
  BY ConstantsTyped
<1> QED BY <1>1, <1>2, <1>3 DEF RowFor, Row

LEMMA InitInv == Init => Inv
<1> SUFFICES ASSUME Init PROVE Inv
  OBVIOUS
<1>1. 1 \in Days
  BY CommissionAssumption DEF Init, Days
<1>2. TypeOK
  <2>1. rules = <<>> /\ DOMAIN rules = {}
    BY DEF Init
  <2> QED BY <1>1, <2>1, CommissionAssumption DEF Init, TypeOK
<1>3. RulesTyped
  BY CommissionAssumption DEF Init, RulesTyped
<1>4. ClosingsTimed
  BY DEF Init, ClosingsTimed
<1>5. \A k : ~ Written(k)
  BY DEF Init, Written, Pending
<1>6. FoundOnce /\ CommissionOnce
  BY DEF Init, FoundOnce, CommissionOnce
<1> QED BY <1>2, <1>3, <1>4, <1>5, <1>6 DEF Inv, OfConfirmed, Rated, Ranked

LEMMA ClosingsStep ==
  ASSUME TypeOK, ClosingsTimed, Next
  PROVE  ClosingsTimed'
<1> USE DEF TypeOK, ClosingsTimed, closings
<1>0. \A c \in Closing : stamp[c] \in Nat /\ confirmedAt[c] \in Nat
  OBVIOUS
<1>00. day \in Nat
  BY ConstantsTyped
<1>1. ASSUME NEW c \in Closing, StampsClosing(c) PROVE ClosingsTimed'
  BY <1>00, <1>1 DEF StampsClosing
<1>2. ASSUME NEW c \in Closing, ConfirmClosing(c) PROVE ClosingsTimed'
  BY <1>00, <1>2 DEF ConfirmClosing
<1>3. ASSUME NEW c \in Closing, CorrectAmount(c) PROVE ClosingsTimed'
  BY <1>3 DEF CorrectAmount, Reconfirmed
<1>4. ASSUME NEW c \in Closing, DeleteClosing(c) PROVE ClosingsTimed'
  BY <1>4 DEF DeleteClosing
<1>5. ASSUME NEW c \in Closing, RestoreClosing(c) PROVE ClosingsTimed'
  BY <1>5 DEF RestoreClosing
<1>6. ASSUME NEW c \in Closing, ForceDeleteClosing(c) PROVE ClosingsTimed'
  BY <1>00, <1>6 DEF ForceDeleteClosing, Unlocked
<1>7. ASSUME NEW p \in Partner, NEW l \in Lead, CreateReferral(p, l) PROVE ClosingsTimed'
  BY <1>7 DEF CreateReferral
<1>8. ASSUME NEW d \in Draft, CreateCommissionRule(d) PROVE ClosingsTimed'
  BY <1>8 DEF CreateCommissionRule
<1>9. ASSUME NEW n \in 1 .. MaxRules, DeactivateCommissionRule(n) PROVE ClosingsTimed'
  BY <1>9 DEF DeactivateCommissionRule
<1>10. ASSUME NEW r \in Clerk, NEW p \in Partner, SyncReads(r, p) PROVE ClosingsTimed'
  BY <1>10 DEF SyncReads
<1>11. ASSUME NEW r \in Clerk, SyncCommits(r) PROVE ClosingsTimed'
  BY <1>11 DEF SyncCommits
<1>12. CASE Tomorrow
  BY <1>0, <1>00, <1>12 DEF Tomorrow
<1> QED BY <1>1, <1>2, <1>3, <1>4, <1>5, <1>6, <1>7, <1>8, <1>9, <1>10, <1>11, <1>12 DEF Next

LEMMA RetiredIsRule ==
  ASSUME NEW rule \in Rule, day \in Days
  PROVE  /\ Retired(rule) \in Rule
         /\ Retired(rule).tiers = rule.tiers /\ Retired(rule).from = rule.from
         /\ Retired(rule).to = IF rule.to = Open THEN day ELSE rule.to
  BY DEF Retired, Rule

LEMMA DraftIsRule ==
  ASSUME NEW d \in Draft
  PROVE  [plan |-> d.plan, tiers |-> d.tiers, from |-> d.from, to |-> d.to, active |-> TRUE] \in Rule
<1>1. d.to \in Days \cup {Open}
  BY CommissionAssumption, ConstantsTyped DEF Days
<1>2. d.from \in Days /\ d.tiers \in Seq(Nat \X Nat)
  BY CommissionAssumption
<1> QED BY <1>1, <1>2 DEF Rule

\* What a step may do to the rules there are already: end some of them today.
LEMMA RulesStep ==
  ASSUME TypeOK, RulesTyped, Next
  PROVE  /\ RulesTyped'
         /\ DOMAIN rules \subseteq DOMAIN rules'
         /\ \A n \in DOMAIN rules :
               /\ rules'[n].from = rules[n].from
               /\ rules'[n].to \in {rules[n].to, day}
<1> USE DEF TypeOK, closings
<1> DEFINE Goal == /\ RulesTyped'
                   /\ DOMAIN rules \subseteq DOMAIN rules'
                   /\ \A n \in DOMAIN rules :
                         /\ rules'[n].from = rules[n].from
                         /\ rules'[n].to \in {rules[n].to, day}
<1>0. rules \in Seq(Rule) /\ Len(rules) <= MaxRules
  BY DEF RulesTyped
<1>1. CASE rules' = rules
  BY <1>1 DEF RulesTyped, ValidTiers
<1>2. ASSUME NEW d \in Draft, CreateCommissionRule(d) PROVE Goal
  <2> DEFINE replaced == {n \in DOMAIN rules :
                             rules[n].active /\ d.plan # NoPlan /\ rules[n].plan = d.plan}
             kept == [n \in DOMAIN rules |->
                        IF n \in replaced THEN Retired(rules[n]) ELSE rules[n]]
             new == [plan |-> d.plan, tiers |-> d.tiers, from |-> d.from,
                     to |-> d.to, active |-> TRUE]
  <2>1. /\ Len(rules) < MaxRules /\ rules' = Append(kept, new)
        /\ d.tiers # <<>> => ValidTiers(d.tiers)
    BY <1>2, Zenon DEF CreateCommissionRule
  <2>2. \A n \in DOMAIN rules : /\ kept[n] \in Rule
                                /\ kept[n].tiers = rules[n].tiers
                                /\ kept[n].from = rules[n].from
                                /\ kept[n].to \in {rules[n].to, day}
    BY RulesAre, RetiredIsRule
  <2>3. new \in Rule /\ new.tiers = d.tiers
    BY DraftIsRule
  <2> HIDE DEF new
  <2>4. DOMAIN kept = 1 .. Len(rules) /\ Len(rules) \in Nat
    BY <1>0
  <2>11. kept \in [1 .. Len(rules) -> Rule]
    <3>1. kept \in [DOMAIN rules -> Rule]
      BY <2>2, Zenon
    <3> QED BY <3>1, RulesAre
  <2> HIDE DEF kept
  <2>5. kept \in Seq(Rule) /\ Len(kept) = Len(rules)
    BY <2>4, <2>11
  <2>6. /\ rules' \in Seq(Rule) /\ Len(rules') = Len(rules) + 1
        /\ \A n \in 1 .. Len(rules) : rules'[n] = kept[n]
        /\ rules'[Len(rules) + 1] = new
        /\ DOMAIN rules' = 1 .. Len(rules) + 1
    BY <2>1, <2>3, <2>5
  <2>7. Len(rules') <= MaxRules
    BY <2>1, <2>4, <2>6, CommissionAssumption
  <2>8. ASSUME NEW n \in DOMAIN rules', rules'[n].tiers # <<>> PROVE ValidTiers(rules'[n].tiers)
    <3>1. CASE n \in 1 .. Len(rules)
      BY <2>2, <2>6, <2>8, <3>1, RulesAre DEF RulesTyped
    <3>2. CASE n = Len(rules) + 1
      BY <2>1, <2>3, <2>6, <2>8, <3>2
    <3> QED BY <3>1, <3>2, <2>4, <2>6
  <2>9. RulesTyped'
    BY <2>6, <2>7, <2>8 DEF RulesTyped
  <2>10. DOMAIN rules \subseteq DOMAIN rules'
    BY <2>4, <2>6, RulesAre
  <2> QED BY <2>2, <2>4, <2>6, <2>9, <2>10, RulesAre
<1>3. ASSUME NEW n \in 1 .. MaxRules, DeactivateCommissionRule(n) PROVE Goal
  <2>1. n \in DOMAIN rules /\ rules' = [rules EXCEPT ![n] = Retired(rules[n])]
    BY <1>3 DEF DeactivateCommissionRule
  <2>2. \A m \in DOMAIN rules : rules[m] \in Rule
    BY RulesAre
  <2>3. /\ Retired(rules[n]) \in Rule
        /\ Retired(rules[n]).tiers = rules[n].tiers /\ Retired(rules[n]).from = rules[n].from
        /\ Retired(rules[n]).to \in {rules[n].to, day}
    BY <2>1, <2>2, RetiredIsRule
  <2>4. rules' \in Seq(Rule) /\ Len(rules') = Len(rules) /\ DOMAIN rules' = DOMAIN rules
    BY <1>0, <2>1, <2>3
  <2>5. \A m \in DOMAIN rules : /\ rules'[m].tiers = rules[m].tiers
                                /\ rules'[m].from = rules[m].from
                                /\ rules'[m].to \in {rules[m].to, day}
    BY <2>1, <2>3
  <2>6. RulesTyped'
    BY <1>0, <2>4, <2>5 DEF RulesTyped, ValidTiers
  <2> QED BY <2>4, <2>5, <2>6
<1>4. \/ rules' = rules
      \/ \E d \in Draft : CreateCommissionRule(d)
      \/ \E n \in 1 .. MaxRules : DeactivateCommissionRule(n)
  BY DEF Next, StampsClosing, ConfirmClosing, CorrectAmount, DeleteClosing, RestoreClosing,
         ForceDeleteClosing, CreateReferral, SyncReads, SyncCommits, Tomorrow
<1> QED BY <1>1, <1>2, <1>3, <1>4

LEMMA TypeStep ==
  ASSUME TypeOK, RulesTyped, Next
  PROVE  TypeOK'
<1> USE DEF TypeOK, closings
<1>0. (\A n \in DOMAIN rules : rules[n].to \in Days \cup {Open})'
  <2>1. RulesTyped'
    BY RulesStep
  <2>2. ASSUME NEW n \in DOMAIN rules' PROVE rules'[n] \in Rule
    <3>1. rules' \in Seq(Rule)
      BY <2>1 DEF RulesTyped
    <3> QED BY <3>1
  <2>3. \A rule \in Rule : rule.to \in Days \cup {Open}
    BY DEF Rule
  <2> QED BY <2>2, <2>3
<1>00. 0 \in 0 .. LastDay /\ Days \subseteq 0 .. LastDay
  BY CommissionAssumption DEF Days
<1>1. ASSUME NEW c \in Closing, StampsClosing(c) PROVE TypeOK'
  BY <1>0, <1>00, <1>1 DEF StampsClosing
<1>2. ASSUME NEW c \in Closing, ConfirmClosing(c) PROVE TypeOK'
  BY <1>0, <1>00, <1>2 DEF ConfirmClosing
<1>3. ASSUME NEW c \in Closing, CorrectAmount(c) PROVE TypeOK'
  BY <1>0, <1>3 DEF CorrectAmount, Reconfirmed
<1>4. ASSUME NEW c \in Closing, DeleteClosing(c) PROVE TypeOK'
  BY <1>0, <1>4 DEF DeleteClosing
<1>5. ASSUME NEW c \in Closing, RestoreClosing(c) PROVE TypeOK'
  BY <1>0, <1>5 DEF RestoreClosing
<1>6. ASSUME NEW c \in Closing, ForceDeleteClosing(c) PROVE TypeOK'
  BY <1>0, <1>00, <1>6 DEF ForceDeleteClosing
<1>7. ASSUME NEW p \in Partner, NEW l \in Lead, CreateReferral(p, l) PROVE TypeOK'
  BY <1>0, <1>7 DEF CreateReferral
<1>8. ASSUME NEW d \in Draft, CreateCommissionRule(d) PROVE TypeOK'
  BY <1>0, <1>8 DEF CreateCommissionRule
<1>9. ASSUME NEW n \in 1 .. MaxRules, DeactivateCommissionRule(n) PROVE TypeOK'
  BY <1>0, <1>9 DEF DeactivateCommissionRule
<1>10. ASSUME NEW r \in Clerk, NEW p \in Partner, SyncReads(r, p) PROVE TypeOK'
  <2>1. {RowFor(p, c) : c \in Syncable(p)} \in SUBSET Row
    BY RowForRow DEF Syncable
  <2>2. found' \in [Clerk -> SUBSET Row]
    BY <1>10, <2>1 DEF SyncReads
  <2> QED BY <1>0, <1>10, <2>2 DEF SyncReads
<1>11. ASSUME NEW r \in Clerk, SyncCommits(r) PROVE TypeOK'
  <2>1. commission' \subseteq Row
    BY <1>11 DEF SyncCommits
  <2>2. found' \in [Clerk -> SUBSET Row]
    BY <1>11 DEF SyncCommits
  <2> QED BY <1>0, <1>11, <2>1, <2>2 DEF SyncCommits
<1>12. CASE Tomorrow
  <2>1. day' \in Days
    BY <1>12, CommissionAssumption DEF Tomorrow, Days
  <2> QED BY <1>0, <1>12, <2>1 DEF Tomorrow
<1> QED BY <1>1, <1>2, <1>3, <1>4, <1>5, <1>6, <1>7, <1>8, <1>9, <1>10, <1>11, <1>12 DEF Next

\* Where a row that is written, or about to be, comes from: it was before, and its
\* closing is as it was, or a clerk has computed it just now.
LEMMA WrittenStep ==
  ASSUME TypeOK, ClosingsTimed, OfConfirmed, Next, NEW k \in Row, Written(k)'
  PROVE  \/ /\ Written(k)
            /\ status'[k.closing] = status[k.closing]
            /\ confirmedAt'[k.closing] = confirmedAt[k.closing]
         \/ \E r \in Clerk, p \in Partner : \E c \in Syncable(p) :
               SyncReads(r, p) /\ k = RowFor(p, c)
<1> DEFINE Kept == /\ Written(k)
                   /\ status'[k.closing] = status[k.closing]
                   /\ confirmedAt'[k.closing] = confirmedAt[k.closing]
           New == \E r \in Clerk, p \in Partner : \E c \in Syncable(p) :
                     SyncReads(r, p) /\ k = RowFor(p, c)
<1>0. k.closing \in Closing
  BY DEF Row
<1>1. Written(k) => status[k.closing] = "CONFIRMED"
  BY DEF OfConfirmed
<1> USE DEF closings
<1>2. ASSUME UNCHANGED <<status, confirmedAt, commission, found>> PROVE Kept
  BY <1>2 DEF Written, Pending
<1>3. ASSUME NEW c \in Closing, ConfirmClosing(c) PROVE Kept
  <2>1. status[c] = "PENDING" /\ UNCHANGED <<commission, found>>
    BY <1>3 DEF ConfirmClosing, ClosingsTimed
  <2>2. Written(k)
    BY <2>1, <1>0, <1>3 DEF Written, Pending, ConfirmClosing, TypeOK
  <2>3. k.closing # c
    BY <1>1, <2>1, <2>2
  <2> QED BY <1>0, <1>3, <2>2, <2>3 DEF ConfirmClosing, TypeOK
<1>4. ASSUME NEW c \in Closing, CorrectAmount(c) PROVE Kept
  <2>1. confirmedAt' = confirmedAt
    BY <1>4 DEF CorrectAmount, Reconfirmed, TypeOK
  <2> QED BY <1>2, <1>4, <2>1 DEF CorrectAmount
<1>5. ASSUME NEW c \in Closing, ForceDeleteClosing(c) PROVE Kept
  <2>1. k.closing # c
    BY <1>0, <1>5 DEF ForceDeleteClosing, Written, TypeOK
  <2>2. /\ status'[k.closing] = status[k.closing]
        /\ confirmedAt'[k.closing] = confirmedAt[k.closing]
    BY <1>0, <1>5, <2>1 DEF ForceDeleteClosing, TypeOK
  <2>3. Written(k)
    BY <1>5, <2>2 DEF ForceDeleteClosing, Written, Pending
  <2> QED BY <2>2, <2>3
<1>6. ASSUME NEW r \in Clerk, NEW p \in Partner, SyncReads(r, p) PROVE Kept \/ New
  <2>1. UNCHANGED <<status, confirmedAt, commission>>
    BY <1>6 DEF SyncReads
  <2>2. \A q \in Clerk : found'[q] = IF q = r THEN {RowFor(p, c) : c \in Syncable(p)} ELSE found[q]
    BY <1>6 DEF SyncReads, TypeOK
  <2>3. CASE k \in commission'
    BY <2>1, <2>3 DEF Written
  <2>4. CASE k \notin commission'
    <3>1. PICK q \in Clerk : k \in found'[q]
      BY <2>4 DEF Written, Pending
    <3>2. status'[k.closing] # "GONE"
      BY <2>4 DEF Written
    <3>3. CASE q = r
      <4>1. PICK c \in Syncable(p) : k = RowFor(p, c)
        BY <2>2, <3>1, <3>3
      <4> QED BY <1>6, <4>1, Zenon
    <3>4. CASE q # r
      <4>1. k \in Pending
        BY <2>2, <3>1, <3>4 DEF Pending
      <4> QED BY <2>1, <3>2, <4>1 DEF Written
    <3> QED BY <3>3, <3>4
  <2> QED BY <2>3, <2>4
<1>7. ASSUME NEW r \in Clerk, SyncCommits(r) PROVE Kept
  <2>1. UNCHANGED <<status, confirmedAt>>
    BY <1>7 DEF SyncCommits
  <2>2. \A q \in Clerk : found'[q] \subseteq found[q]
    BY <1>7 DEF SyncCommits, TypeOK
  <2>3. commission' = commission
          \/ (commission' = commission \cup found[r] /\ \A row \in found[r] : Insertable(row))
    <3>1. CASE \A row \in found[r] : Insertable(row)
      BY <1>7, <3>1 DEF SyncCommits
    <3>2. CASE ~ \A row \in found[r] : Insertable(row)
      BY <1>7, <3>2 DEF SyncCommits
    <3> QED BY <3>1, <3>2
  <2>4. CASE k \in commission'
    <3>1. CASE k \in commission
      BY <2>1, <3>1 DEF Written
    <3>2. CASE k \notin commission
      <4>1. k \in found[r] /\ Insertable(k)
        BY <2>3, <2>4, <3>2
      <4>2. k \in Pending
        BY <4>1 DEF Pending
      <4> QED BY <2>1, <4>1, <4>2 DEF Written, Insertable
    <3> QED BY <3>1, <3>2
  <2>5. CASE k \notin commission'
    BY <2>1, <2>2, <2>5 DEF Written, Pending
  <2> QED BY <2>1, <2>4, <2>5
<1>8. \/ UNCHANGED <<status, confirmedAt, commission, found>>
      \/ \E c \in Closing : ConfirmClosing(c) \/ CorrectAmount(c) \/ ForceDeleteClosing(c)
      \/ \E r \in Clerk, p \in Partner : SyncReads(r, p)
      \/ \E r \in Clerk : SyncCommits(r)
  BY DEF Next, StampsClosing, DeleteClosing, RestoreClosing, CreateReferral,
         CreateCommissionRule, DeactivateCommissionRule, Tomorrow
<1> QED BY <1>2, <1>3, <1>4, <1>5, <1>6, <1>7, <1>8

LEMMA ConfirmedStep ==
  ASSUME TypeOK, RulesTyped, ClosingsTimed, OfConfirmed, Next
  PROVE  OfConfirmed'
<1> SUFFICES ASSUME NEW k \in Row, Written(k)' PROVE status'[k.closing] = "CONFIRMED"
  BY DEF OfConfirmed, Row
<1>1. ASSUME NEW r \in Clerk, NEW p \in Partner, NEW c \in Syncable(p),
             SyncReads(r, p), k = RowFor(p, c)
      PROVE  status'[k.closing] = "CONFIRMED"
  BY <1>1, RowForRow DEF SyncReads, closings, Syncable, Counts
<1> QED BY <1>1, WrittenStep DEF OfConfirmed

LEMMA FoundStep ==
  ASSUME TypeOK, RulesTyped, FoundOnce, Next
  PROVE  FoundOnce'
<1>1. CASE UNCHANGED found
  BY <1>1 DEF FoundOnce
<1>2. ASSUME NEW r \in Clerk, NEW p \in Partner, SyncReads(r, p) PROVE FoundOnce'
  <2>1. \A q \in Clerk : found'[q] = IF q = r THEN {RowFor(p, c) : c \in Syncable(p)} ELSE found[q]
    BY <1>2 DEF SyncReads, TypeOK
  <2>2. \A c \in Syncable(p) : RowFor(p, c).closing = c
    BY RowForRow DEF Syncable
  <2> SUFFICES ASSUME NEW q \in Clerk, NEW j \in found'[q], NEW k \in found'[q],
                      j.closing = k.closing
               PROVE  j = k
    BY DEF FoundOnce
  <2>3. CASE q = r
    <3>1. PICK c \in Syncable(p), d \in Syncable(p) : j = RowFor(p, c) /\ k = RowFor(p, d)
      BY <2>1, <2>3
    <3> QED BY <2>2, <3>1
  <2>4. CASE q # r
    BY <2>1, <2>4 DEF FoundOnce
  <2> QED BY <2>3, <2>4
<1>3. ASSUME NEW r \in Clerk, SyncCommits(r) PROVE FoundOnce'
  BY <1>3 DEF SyncCommits, TypeOK, FoundOnce
<1> QED BY <1>1, <1>2, <1>3 DEF Next, StampsClosing, ConfirmClosing, CorrectAmount, DeleteClosing,
      RestoreClosing, ForceDeleteClosing, CreateReferral, CreateCommissionRule,
      DeactivateCommissionRule, Tomorrow

LEMMA OnceStep ==
  ASSUME TypeOK, FoundOnce, CommissionOnce, Next
  PROVE  CommissionOnce'
<1>1. CASE commission' \subseteq commission
  BY <1>1 DEF CommissionOnce
<1>2. ASSUME NEW r \in Clerk, SyncCommits(r) PROVE CommissionOnce'
  BY <1>2 DEF SyncCommits, Insertable, FoundOnce, CommissionOnce
<1> QED BY <1>1, <1>2 DEF Next, StampsClosing, ConfirmClosing, CorrectAmount, DeleteClosing,
      RestoreClosing, ForceDeleteClosing, CreateReferral, CreateCommissionRule,
      DeactivateCommissionRule, SyncReads, Tomorrow

\* A rule ends no earlier than today, and whatever was confirmed was confirmed by today.
LEMMA RatedStep ==
  ASSUME TypeOK, RulesTyped, ClosingsTimed, OfConfirmed, Rated, Next
  PROVE  Rated'
<1> SUFFICES ASSUME NEW k \in Row, Written(k)', k.rule # 0
             PROVE  /\ k.rule \in DOMAIN rules'
                    /\ rules'[k.rule].from <= confirmedAt'[k.closing]
                    /\ confirmedAt'[k.closing] <= rules'[k.rule].to
  BY DEF Rated, Row
<1>0. k.closing \in Closing
  BY DEF Row
<1>1. CASE /\ Written(k)
           /\ confirmedAt'[k.closing] = confirmedAt[k.closing]
  <2>1. /\ k.rule \in DOMAIN rules
        /\ rules[k.rule].from <= confirmedAt[k.closing]
        /\ confirmedAt[k.closing] <= rules[k.rule].to
    BY <1>1 DEF Rated
  <2>2. confirmedAt[k.closing] <= day
    BY <1>0 DEF ClosingsTimed
  <2>3. /\ k.rule \in DOMAIN rules' /\ rules'[k.rule].from = rules[k.rule].from
        /\ rules'[k.rule].to \in {rules[k.rule].to, day}
    BY <2>1, RulesStep
  <2> QED BY <1>1, <2>1, <2>2, <2>3
<1>2. ASSUME NEW r \in Clerk, NEW p \in Partner, NEW c \in Syncable(p),
             SyncReads(r, p), k = RowFor(p, c)
      PROVE  /\ k.rule \in DOMAIN rules'
             /\ rules'[k.rule].from <= confirmedAt'[k.closing]
             /\ confirmedAt'[k.closing] <= rules'[k.rule].to
  <2>1. c \in Closing /\ k.closing = c /\ k.rule = RuleFor(c)
    BY <1>2, RowForRow DEF Syncable
  <2>2. k.rule \in DOMAIN rules /\ Applies(k.rule, c)
    BY <2>1, RuleForApplies
  <2> QED BY <1>2, <2>1, <2>2 DEF Applies, SyncReads, closings
<1> QED BY <1>1, <1>2, WrittenStep

\* Nothing that is not recorded in shuffled changes a month's ranking below its end.
LEMMA OrdinalStep ==
  ASSUME TypeOK, ClosingsTimed, Next, NEW p \in Partner, NEW c \in Closing,
         Counts(c), <<p, LeadOf[c]>> \in referral,
         MonthOf(confirmedAt[c]) \notin shuffled',
         confirmedAt'[c] = confirmedAt[c]
  PROVE  /\ Counts(c)' /\ <<p, LeadOf[c]>> \in referral'
         /\ Ordinal(p, c)' = Ordinal(p, c)
<1> DEFINE In(d) == /\ Counts(d) /\ <<p, LeadOf[d]>> \in referral
                    /\ MonthOf(confirmedAt[d]) = MonthOf(confirmedAt[c])
                    /\ Before(d, c)
           Goal == Counts(c)' /\ (\A d \in Closing : In(d)' <=> In(d))
<1> USE DEF TypeOK, closings
<1>1. ASSUME UNCHANGED <<status, confirmedAt, deleted, referral>> PROVE Goal
  <2>1. \A d \in Closing : (Counts(d)' <=> Counts(d)) /\ (Before(d, c)' <=> Before(d, c))
    BY <1>1 DEF Counts, Before
  <2>2. \A d \in Closing : MonthOf(confirmedAt[d])' = MonthOf(confirmedAt[d])
    BY <1>1 DEF MonthOf
  <2> QED BY <1>1, <2>1, <2>2
<1>2. ASSUME NEW x \in Closing, ConfirmClosing(x) PROVE Goal
  <2>1. status[x] = "PENDING" /\ stamp[x] \in Nat
    BY <1>2 DEF ConfirmClosing, ClosingsTimed
  <2>2. c # x /\ ~ In(x)
    BY <2>1 DEF Counts
  <2>3. /\ \A d \in Closing \ {x} : confirmedAt'[d] = confirmedAt[d] /\ status'[d] = status[d]
        /\ confirmedAt'[x] = stamp[x]
        /\ UNCHANGED <<deleted, referral>>
    BY <1>2 DEF ConfirmClosing
  <2>4. ~ In(x)'
    <3> SUFFICES ASSUME In(x)' PROVE FALSE
      OBVIOUS
    <3>1. Before(x, c)' /\ MonthOf(stamp[x]) = MonthOf(confirmedAt[c])
      BY <2>3 DEF MonthOf
    <3>2. MonthOf(stamp[x]) \in shuffled'
      BY <1>2, <3>1 DEF ConfirmClosing
    <3> QED BY <3>1, <3>2
  <2>5. \A d \in Closing \ {x} : In(d)' <=> In(d)
    BY <2>2, <2>3 DEF Counts, Before, MonthOf
  <2> QED BY <2>2, <2>3, <2>4, <2>5 DEF Counts
<1>3. ASSUME NEW x \in Closing, CorrectAmount(x) PROVE Goal
  <2>1. UNCHANGED <<status, confirmedAt, deleted, referral>>
    BY <1>3 DEF CorrectAmount, Reconfirmed
  <2> HIDE DEF Goal
  <2> QED BY <1>1, <2>1
<1>4. ASSUME NEW x \in Closing,
             \/ DeleteClosing(x) \/ RestoreClosing(x) \/ ForceDeleteClosing(x)
      PROVE  Goal
  <2>1. /\ \A d \in Closing \ {x} : /\ confirmedAt'[d] = confirmedAt[d] /\ status'[d] = status[d]
                                    /\ d \in deleted' <=> d \in deleted
        /\ UNCHANGED referral
        /\ status'[x] = "CONFIRMED" => status[x] = "CONFIRMED" /\ confirmedAt'[x] = confirmedAt[x]
        /\ shuffled' = shuffled \cup Disturbs(x)
    BY <1>4 DEF DeleteClosing, RestoreClosing, ForceDeleteClosing
  <2>2. status[x] = "CONFIRMED" => MonthOf(confirmedAt[x]) # MonthOf(confirmedAt[c])
    BY <2>1 DEF Disturbs
  <2>3. c # x
    BY <2>2 DEF Counts
  <2>4. ~ In(x) /\ ~ In(x)'
    BY <2>1, <2>2 DEF Counts, MonthOf
  <2>5. \A d \in Closing \ {x} : In(d)' <=> In(d)
    BY <2>1, <2>3 DEF Counts, Before, MonthOf
  <2> QED BY <2>1, <2>3, <2>4, <2>5 DEF Counts
<1>5. ASSUME NEW q \in Partner, NEW l \in Lead, CreateReferral(q, l) PROVE Goal
  <2>1. /\ UNCHANGED <<status, confirmedAt, deleted>> /\ referral' = referral \cup {<<q, l>>}
        /\ \A d \in Closing : LeadOf[d] = l /\ Counts(d) => MonthOf(confirmedAt[d]) \in shuffled'
    BY <1>5 DEF CreateReferral
  <2>2. \A d \in Closing : In(d)' <=> In(d)
    BY <2>1 DEF Counts, Before, MonthOf
  <2> QED BY <2>1, <2>2 DEF Counts
<1>6. Goal
  <2>1. \/ UNCHANGED <<status, confirmedAt, deleted, referral>>
        \/ \E x \in Closing : \/ ConfirmClosing(x) \/ CorrectAmount(x)
                              \/ DeleteClosing(x) \/ RestoreClosing(x) \/ ForceDeleteClosing(x)
        \/ \E q \in Partner, l \in Lead : CreateReferral(q, l)
    BY DEF Next, StampsClosing, CreateCommissionRule, DeactivateCommissionRule, SyncReads,
           SyncCommits, Tomorrow
  <2> HIDE DEF Goal
  <2> QED BY <1>1, <1>2, <1>3, <1>4, <1>5, <2>1
<1>7. Ordinal(p, c)' = Ordinal(p, c)
  <2>1. {d \in Closing : In(d)}' = {d \in Closing : In(d)}
    BY <1>6
  <2> QED BY <2>1 DEF Ordinal
<1>8. referral \subseteq referral'
  BY DEF Next, StampsClosing, ConfirmClosing, CorrectAmount, DeleteClosing, RestoreClosing,
         ForceDeleteClosing, CreateReferral, CreateCommissionRule, DeactivateCommissionRule,
         SyncReads, SyncCommits, Tomorrow
<1> QED BY <1>6, <1>7, <1>8

LEMMA RankedStep ==
  ASSUME TypeOK, RulesTyped, ClosingsTimed, OfConfirmed, Ranked, Next
  PROVE  Ranked'
<1> SUFFICES ASSUME NEW k \in Row, Written(k)', k.rank # 0,
                    MonthOf(confirmedAt'[k.closing]) \notin shuffled'
             PROVE  /\ Counts(k.closing)' /\ <<k.partner, LeadOf[k.closing]>> \in referral'
                    /\ k.rank = Ordinal(k.partner, k.closing)'
  BY DEF Ranked, Row, MonthOf
<1>0. k.closing \in Closing /\ k.partner \in Partner
  BY DEF Row
<1>1. CASE /\ Written(k)
           /\ confirmedAt'[k.closing] = confirmedAt[k.closing]
  <2>1. MonthOf(confirmedAt[k.closing]) \notin shuffled'
    BY <1>1
  <2>2. shuffled \subseteq shuffled'
    BY DEF Next, StampsClosing, ConfirmClosing, CorrectAmount, DeleteClosing, RestoreClosing,
           ForceDeleteClosing, CreateReferral, CreateCommissionRule, DeactivateCommissionRule,
           SyncReads, SyncCommits, Tomorrow, closings
  <2>3. /\ Counts(k.closing) /\ <<k.partner, LeadOf[k.closing]>> \in referral
        /\ k.rank = Ordinal(k.partner, k.closing)
    BY <1>1, <2>1, <2>2 DEF Ranked
  <2> QED BY <1>0, <1>1, <2>1, <2>3, OrdinalStep
<1>2. ASSUME NEW r \in Clerk, NEW p \in Partner, NEW c \in Syncable(p),
             SyncReads(r, p), k = RowFor(p, c)
      PROVE  /\ Counts(k.closing)' /\ <<k.partner, LeadOf[k.closing]>> \in referral'
             /\ k.rank = Ordinal(k.partner, k.closing)'
  <2>1. /\ c \in Closing /\ k.closing = c /\ k.partner = p /\ k.rank = Ordinal(p, c)
        /\ Counts(c) /\ <<p, LeadOf[c]>> \in referral
    BY <1>2, RowForRow DEF Syncable
  <2>2. UNCHANGED <<status, confirmedAt, deleted, referral>>
    BY <1>2 DEF SyncReads, closings
  <2>3. Ordinal(p, c)' = Ordinal(p, c)
    BY <2>2 DEF Ordinal, Counts, MonthOf, Before
  <2> QED BY <2>1, <2>2, <2>3 DEF Counts
<1> QED BY <1>1, <1>2, WrittenStep

LEMMA StutterInv == ASSUME Inv, UNCHANGED vars PROVE Inv'
<1> USE DEF Inv, vars, closings
<1>1. TypeOK' /\ ClosingsTimed' /\ FoundOnce' /\ CommissionOnce'
  BY DEF TypeOK, ClosingsTimed, FoundOnce, CommissionOnce
<1>2. RulesTyped'
  BY DEF RulesTyped, ValidTiers
<1>3. \A k : Written(k)' <=> Written(k)
  BY DEF Written, Pending
<1>4. OfConfirmed' /\ Rated'
  BY <1>3 DEF OfConfirmed, Rated, Row
<1>5. \A p, c : Ordinal(p, c)' = Ordinal(p, c)
  BY DEF Ordinal, Counts, MonthOf, Before
<1>6. Ranked'
  BY <1>3, <1>5 DEF Ranked, Row, Counts, MonthOf
<1> QED BY <1>1, <1>2, <1>4, <1>6

LEMMA NextInv == ASSUME Inv, [Next]_vars PROVE Inv'
<1>1. CASE Next
  BY <1>1, TypeStep, RulesStep, ClosingsStep, FoundStep, OnceStep, ConfirmedStep, RatedStep,
     RankedStep DEF Inv
<1> QED BY <1>1, StutterInv

-----------------------------------------------------------------------------
(***************************************************************************)
(* The theorems.                                                           *)
(***************************************************************************)
\* The invariant holds whatever the numbers of closings, partners, clerks and rules.
THEOREM CommissionInvariant == Spec => []Inv
  BY InitInv, NextInv, PTL DEF Spec

\* The rows of partner_commissions and commission_rules, and those a sync is about to
\* insert, keep the types their columns have.
THEOREM CommissionTyped == Spec => []TypeOK
<1>1. Inv => TypeOK
  BY DEF Inv
<1> QED BY <1>1, CommissionInvariant, PTL

\* No two commissions are for one closing (SyncCommissions).
THEOREM OneCommissionPerClosing == Spec => []CommissionOnce
<1>1. Inv => CommissionOnce
  BY DEF Inv
<1> QED BY <1>1, CommissionInvariant, PTL

\* The rule a commission was computed by covers its closing's confirmation day for good
\* (resolveCommissionRule, DeactivateCommissionRule).
THEOREM RatesStayInForce == Spec => []RateInForce
<1>1. Inv => RateInForce
  BY DEF Inv, TypeOK, Rated, Written, RateInForce
<1> QED BY <1>1, CommissionInvariant, PTL

\* In a month whose ranking nothing has changed below its end, the ranks follow the
\* confirmations (monthlyClosingOrdinal).
THEOREM RanksFollowConfirmations == Spec => []RankedInOrder
<1>1. ASSUME Inv PROVE RankedInOrder
  <2> USE <1>1 DEF Inv
  <2> SUFFICES ASSUME NEW j \in commission, NEW k \in commission,
                      j.partner = k.partner, j.rank # 0, k.rank # 0,
                      confirmedAt[j.closing] < confirmedAt[k.closing]
                        \/ (confirmedAt[j.closing] = confirmedAt[k.closing]
                            /\ j.closing < k.closing),
                      MonthOf(confirmedAt[j.closing]) = MonthOf(confirmedAt[k.closing]),
                      MonthOf(confirmedAt[k.closing]) \notin shuffled
               PROVE  j.rank < k.rank
    BY Zenon DEF RankedInOrder
  <2>1. j \in Row /\ k \in Row /\ j.closing \in Closing /\ k.closing \in Closing
    BY DEF TypeOK, Row
  <2>2. /\ j.rank = Ordinal(j.partner, j.closing) /\ k.rank = Ordinal(k.partner, k.closing)
        /\ Counts(k.closing) /\ <<k.partner, LeadOf[k.closing]>> \in referral
    BY <2>1 DEF Ranked, Written
  <2>3. Before(j.closing, k.closing) /\ j.closing # k.closing
    <3>1. /\ confirmedAt[j.closing] \in Nat /\ confirmedAt[k.closing] \in Nat
          /\ j.closing \in Nat /\ k.closing \in Nat
      <4>1. \A e \in Closing : e \in Nat /\ confirmedAt[e] \in Nat
        BY CommissionAssumption DEF TypeOK
      <4> QED BY <2>1, <4>1
    <3> QED BY <3>1 DEF Before
  <2> QED BY <2>1, <2>2, <2>3, OrdinalGrows
<1> QED BY <1>1, CommissionInvariant, PTL

\* Whatever its rank, a closing finds exactly one tier of an accepted rule, so
\* SyncCommissions never answers ErrNoMatchingTier (validateCommissionTiers).
THEOREM EveryRankHasATier == Spec => []SyncNeverStuck
<1>1. ASSUME Inv PROVE SyncNeverStuck
  <2> SUFFICES ASSUME NEW p \in Partner, NEW c \in Syncable(p), IsTier(RuleFor(c))
               PROVE  Cardinality(Tiers(rules[RuleFor(c)], Ordinal(p, c))) = 1
    BY DEF SyncNeverStuck
  <2>1. c \in Closing /\ Counts(c) /\ <<p, LeadOf[c]>> \in referral /\ RulesTyped
    BY <1>1 DEF Syncable, Inv
  <2>2. RuleFor(c) \in DOMAIN rules /\ rules[RuleFor(c)].tiers # <<>>
    BY <2>1, RuleForApplies DEF IsTier
  <2>3. rules[RuleFor(c)] \in Rule /\ ValidTiers(rules[RuleFor(c)].tiers)
    BY <2>1, <2>2, RulesAre DEF RulesTyped
  <2>4. Ordinal(p, c) \in Nat /\ 1 <= Ordinal(p, c) /\ Ordinal(p, c) <= Open
    BY <2>1, OrdinalRange, ConstantsTyped
  <2>5. PICK i : Tiers(rules[RuleFor(c)], Ordinal(p, c)) = {i}
    BY <2>2, <2>3, <2>4, OneTier
  <2> QED BY <2>5, FS_Singleton
<1> QED BY <1>1, CommissionInvariant, PTL
=============================================================================
