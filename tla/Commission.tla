----------------------------- MODULE Commission -----------------------------
(***************************************************************************)
(* How a partner's commissions come to be (src/internal/partner): partners *)
(* refer leads, closings of those leads are confirmed, deleted, restored   *)
(* and corrected by others, and SyncCommissions turns the confirmed ones   *)
(* that have none yet into commissions, at the rate of the rule in force   *)
(* when the closing was confirmed.  A TIER rule looks the rate up by the   *)
(* closing's rank in its partner's month.                                  *)
(*                                                                         *)
(* SyncCommissions reads everything in one snapshot and inserts at the     *)
(* end: it is two steps, and so is the confirmation of a closing, which    *)
(* takes the time before its UPDATE and is seen when it commits.  What     *)
(* happens to a commission afterwards is in Payout.                        *)
(***************************************************************************)
EXTENDS Integers, FiniteSets, Sequences

CONSTANTS
    Closing,      \* sales_closings.id
    Lead,         \* customer_leads
    Partner,      \* partners, all of one partner type
    Clerk,        \* SyncCommissions requests under way
    Draft,        \* the commission rules an administrator may enter
    LeadOf,       \* sales_closings.lead_id
    PlanOf,       \* sales_closings.plan_id
    NoPlan,       \* a rule for every plan (plan_id IS NULL)
    LastDay,      \* bound: the days run from 1 to LastDay
    MonthLength,  \* bound: days of a calendar month
    MaxRules,     \* bound: commission rules ever entered
    MaxRevisions  \* bound: closings deleted or corrected

Days == 1 .. LastDay

\* effective_to IS NULL, max_closings IS NULL
Open == LastDay + Cardinality(Closing)

\* A draft's tiers are its [min_closings, max_closings] pairs in tier_order;
\* a PERCENTAGE or FIXED rule has none.
ASSUME CommissionAssumption ==
    /\ Closing \subseteq Nat /\ IsFiniteSet(Closing)
    /\ LastDay \in Nat \ {0} /\ MonthLength \in Nat \ {0}
    /\ MaxRules \in Nat /\ MaxRevisions \in Nat
    /\ LeadOf \in [Closing -> Lead]
    /\ \A d \in Draft :
          /\ d.from \in Days
          /\ d.to = Open \/ d.to \in d.from .. LastDay
          /\ d.tiers \in Seq(Nat \X Nat)

VARIABLES
    day,         \* the date
    status,      \* sales_closings.status; "GONE" after ForceDeleteClosings
    confirmedAt, \* sales_closings.confirmed_at; 0 is NULL
    deleted,     \* the closings with a deleted_at
    stamp,       \* the time a confirmation under way has taken; 0 for none
    referral,    \* partner_referrals: partner and lead
    rules,       \* commission_rules in the order of their ids
    commission,  \* partner_commissions
    found,       \* the rows each clerk's sync is about to insert
    revisions,   \* how many of the revisions MaxRevisions bounds there were
    shuffled     \* history: months whose ranking changed below its end

closings == <<status, confirmedAt, deleted, stamp>>
vars == <<day, closings, referral, rules, commission, found, revisions, shuffled>>

MonthOf(d) == (d - 1) \div MonthLength

Row == [closing : Closing, partner : Partner, rule : 0 .. MaxRules, rank : 0 .. Cardinality(Closing)]

TypeOK ==
    /\ day \in Days
    /\ status \in [Closing -> {"PENDING", "CONFIRMED", "GONE"}]
    /\ confirmedAt \in [Closing -> 0 .. LastDay] /\ stamp \in [Closing -> 0 .. LastDay]
    /\ deleted \subseteq Closing
    /\ referral \subseteq Partner \X Lead
    /\ \A n \in DOMAIN rules : rules[n].to \in Days \cup {Open}
    /\ commission \subseteq Row
    /\ found \in [Clerk -> SUBSET Row]

Init ==
    /\ day = 1
    /\ status = [c \in Closing |-> "PENDING"]
    /\ confirmedAt = [c \in Closing |-> 0]
    /\ deleted = {}
    /\ stamp = [c \in Closing |-> 0]
    /\ referral = {}
    /\ rules = <<>>
    /\ commission = {}
    /\ found = [r \in Clerk |-> {}]
    /\ revisions = 0 /\ shuffled = {}

-----------------------------------------------------------------------------
(***************************************************************************)
(* The closings.                                                           *)
(***************************************************************************)
Counts(c) == status[c] = "CONFIRMED" /\ c \notin deleted

\* confirmed_at, then id
Before(c, d) ==
    confirmedAt[c] < confirmedAt[d] \/ (confirmedAt[c] = confirmedAt[d] /\ c <= d)

Unlocked(c) == status[c] # "GONE" /\ stamp[c] = 0

\* updateStatus and ReconcileOrder lock the closing and take the time.
StampsClosing(c) ==
    /\ Unlocked(c) /\ c \notin deleted /\ status[c] = "PENDING"
    /\ stamp' = [stamp EXCEPT ![c] = day]
    /\ UNCHANGED <<day, status, confirmedAt, deleted, referral, rules,
                   commission, found, revisions, shuffled>>

\* The ranks of those confirmed later change when an earlier stamp commits.
ConfirmClosing(c) ==
    /\ stamp[c] # 0
    /\ status' = [status EXCEPT ![c] = "CONFIRMED"]
    /\ confirmedAt' = [confirmedAt EXCEPT ![c] = stamp[c]]
    /\ stamp' = [stamp EXCEPT ![c] = 0]
    /\ shuffled' = shuffled \cup
          {MonthOf(stamp[c]) : d \in {d \in Closing : Counts(d) /\ Before(c, d)'}}
    /\ UNCHANGED <<day, deleted, referral, rules, commission, found, revisions>>

Revises == revisions < MaxRevisions /\ revisions' = revisions + 1

\* COALESCE(confirmed_at, now): a confirmed closing keeps its time.
Reconfirmed(c) == confirmedAt[c]

\* confirmOrderAndClosingWithAmount with the admin's amount (PARTIAL_CONFIRM) on a
\* closing confirmed before.  Of the closing only the amount changes, which is left out,
\* and no commission is computed anew.
CorrectAmount(c) ==
    /\ Revises
    /\ Unlocked(c) /\ Counts(c)
    /\ confirmedAt' = [confirmedAt EXCEPT ![c] = Reconfirmed(c)]
    /\ UNCHANGED <<day, status, deleted, stamp, referral, rules, commission, found, shuffled>>

Disturbs(c) == IF status[c] = "CONFIRMED" THEN {MonthOf(confirmedAt[c])} ELSE {}

DeleteClosing(c) ==
    /\ Revises
    /\ Unlocked(c) /\ c \notin deleted
    /\ deleted' = deleted \cup {c}
    /\ shuffled' = shuffled \cup Disturbs(c)
    /\ UNCHANGED <<day, status, confirmedAt, stamp, referral, rules, commission, found>>

RestoreClosing(c) ==
    /\ Unlocked(c) /\ c \in deleted
    /\ deleted' = deleted \ {c}
    /\ shuffled' = shuffled \cup Disturbs(c)
    /\ UNCHANGED <<day, status, confirmedAt, stamp, referral, rules, commission,
                   found, revisions>>

\* fk_partner_commissions_closing is ON DELETE CASCADE, whatever the commission's status.
ForceDeleteClosing(c) ==
    /\ Revises
    /\ Unlocked(c)
    /\ status' = [status EXCEPT ![c] = "GONE"]
    /\ confirmedAt' = [confirmedAt EXCEPT ![c] = 0]
    /\ deleted' = deleted \ {c}
    /\ commission' = {k \in commission : k.closing # c}
    /\ shuffled' = shuffled \cup Disturbs(c)
    /\ UNCHANGED <<day, stamp, referral, rules, found>>

-----------------------------------------------------------------------------
(***************************************************************************)
(* Referrals and rules.                                                    *)
(***************************************************************************)
\* uq_partner_referrals_partner_lead; nothing asks whether the lead has closed already.
CreateReferral(p, l) ==
    /\ <<p, l>> \notin referral
    /\ referral' = referral \cup {<<p, l>>}
    /\ shuffled' = shuffled \cup
          {MonthOf(confirmedAt[c]) : c \in {c \in Closing : LeadOf[c] = l /\ Counts(c)}}
    /\ UNCHANGED <<day, closings, rules, commission, found, revisions>>

\* [mutant] Only the ends are checked.
ValidEnds(tiers) == tiers[1][1] = 1 /\ tiers[Len(tiers)][2] = Open

\* validateCommissionTiers: from 1, contiguous, only the last one open-ended
ValidTiers(tiers) ==
    /\ tiers[1][1] = 1
    /\ tiers[Len(tiers)][2] = Open
    /\ \A i \in 1 .. Len(tiers) - 1 :
          /\ tiers[i][2] # Open /\ tiers[i][2] >= tiers[i][1]
          /\ tiers[i + 1][1] = tiers[i][2] + 1

\* [mutant] The superseded rule ends where it began.
RetiredFromStart(rule) == [rule EXCEPT !.active = FALSE, !.to = rule.from]

\* active = FALSE, effective_to = COALESCE(effective_to, CURDATE())
Retired(rule) == [rule EXCEPT !.active = FALSE, !.to = IF @ = Open THEN day ELSE @]

\* chk_commission_rules_effective_range refuses to end a rule before it starts.
MayRetire(rule) == rule.to = Open => rule.from <= day

\* A rule for one plan supersedes the active one for that plan, from this moment on,
\* also when it starts later itself.
CreateCommissionRule(draft) ==
    LET replaced == {n \in DOMAIN rules :
                       rules[n].active /\ draft.plan # NoPlan /\ rules[n].plan = draft.plan}
    IN  /\ Len(rules) < MaxRules
        /\ draft.tiers # <<>> => ValidTiers(draft.tiers)
        /\ \A n \in replaced : MayRetire(rules[n])
        /\ rules' = Append([n \in DOMAIN rules |->
                              IF n \in replaced THEN Retired(rules[n]) ELSE rules[n]],
                           [plan |-> draft.plan, tiers |-> draft.tiers, from |-> draft.from,
                            to |-> draft.to, active |-> TRUE])
        /\ UNCHANGED <<day, closings, referral, commission, found, revisions, shuffled>>

DeactivateCommissionRule(n) ==
    /\ n \in DOMAIN rules /\ MayRetire(rules[n])
    /\ rules' = [rules EXCEPT ![n] = Retired(@)]
    /\ UNCHANGED <<day, closings, referral, commission, found, revisions, shuffled>>

-----------------------------------------------------------------------------
(***************************************************************************)
(* SyncCommissions.                                                        *)
(***************************************************************************)
\* findSyncableClosings
Syncable(p) ==
    {c \in Closing : Counts(c) /\ <<p, LeadOf[c]>> \in referral
                     /\ \A k \in commission : k.closing # c}

\* resolveCommissionRule's WHERE
Applies(n, c) ==
    /\ rules[n].active
    /\ rules[n].from <= confirmedAt[c] /\ confirmedAt[c] <= rules[n].to
    /\ rules[n].plan \in {PlanOf[c], NoPlan}

\* Its ORDER BY: one for the plan, the latest effective_from, the latest id
Precedes(m, n) ==
    LET Key(i) == <<IF rules[i].plan # NoPlan THEN 1 ELSE 0, rules[i].from, i>>
    IN  \E j \in 1 .. 3 : Key(m)[j] > Key(n)[j] /\ \A i \in 1 .. j - 1 : Key(m)[i] = Key(n)[i]

\* 0: no rule, the partner type's own rate is used.
RuleFor(c) ==
    LET fit == {n \in DOMAIN rules : Applies(n, c)}
    IN  IF fit = {} THEN 0 ELSE CHOOSE m \in fit : \A n \in fit \ {m} : Precedes(m, n)

\* [mutant] Ranked among the commissions, not among the closings
OrdinalOfCommissions(p, c) ==
    1 + Cardinality({k \in commission : k.partner = p
                        /\ MonthOf(confirmedAt[k.closing]) = MonthOf(confirmedAt[c])
                        /\ Before(k.closing, c)})

\* monthlyClosingOrdinal
Ordinal(p, c) ==
    Cardinality({d \in Closing : /\ Counts(d) /\ <<p, LeadOf[d]>> \in referral
                                 /\ MonthOf(confirmedAt[d]) = MonthOf(confirmedAt[c])
                                 /\ Before(d, c)})

\* resolveTier's WHERE
Tiers(rule, ordinal) ==
    {i \in DOMAIN rule.tiers : rule.tiers[i][1] <= ordinal /\ ordinal <= rule.tiers[i][2]}

IsTier(n) == n # 0 /\ rules[n].tiers # <<>>

RowFor(p, c) ==
    LET n == RuleFor(c)
    IN  [closing |-> c, partner |-> p, rule |-> n, rank |-> IF IsTier(n) THEN Ordinal(p, c) ELSE 0]

HasTier(p, c) ==
    LET n == RuleFor(c) IN IsTier(n) => Tiers(rules[n], Ordinal(p, c)) # {}

\* ErrNoMatchingTier for one closing ends the whole sync.
SyncReads(r, p) ==
    /\ found[r] = {}
    /\ Syncable(p) # {} /\ \A c \in Syncable(p) : HasTier(p, c)
    /\ found' = [found EXCEPT ![r] = {RowFor(p, c) : c \in Syncable(p)}]
    /\ UNCHANGED <<day, closings, referral, rules, commission, revisions, shuffled>>

\* [mutant] Without the unique key
InsertableTwice(row) == status[row.closing] # "GONE"

\* uq_partner_commissions_closing and fk_partner_commissions_closing
Insertable(row) ==
    /\ \A k \in commission : k.closing # row.closing
    /\ status[row.closing] # "GONE"

SyncCommits(r) ==
    /\ found[r] # {}
    /\ commission' = IF \A row \in found[r] : Insertable(row)
                     THEN commission \cup found[r] ELSE commission
    /\ found' = [found EXCEPT ![r] = {}]
    /\ UNCHANGED <<day, closings, referral, rules, revisions, shuffled>>

Tomorrow ==
    /\ day < LastDay
    /\ day' = day + 1
    /\ UNCHANGED <<closings, referral, rules, commission, found, revisions, shuffled>>

Next ==
    \/ \E c \in Closing : \/ StampsClosing(c) \/ ConfirmClosing(c) \/ CorrectAmount(c)
                          \/ DeleteClosing(c) \/ RestoreClosing(c) \/ ForceDeleteClosing(c)
    \/ \E p \in Partner, l \in Lead : CreateReferral(p, l)
    \/ \E d \in Draft : CreateCommissionRule(d)
    \/ \E n \in 1 .. MaxRules : DeactivateCommissionRule(n)
    \/ \E r \in Clerk, p \in Partner : SyncReads(r, p)
    \/ \E r \in Clerk : SyncCommits(r)
    \/ Tomorrow

Spec == Init /\ [][Next]_vars

-----------------------------------------------------------------------------
(***************************************************************************)
(* Properties.                                                             *)
(***************************************************************************)
\* A closing earns one commission, although two partners may have referred its lead
\* and two administrators may sync at once (the table has no lock on the closing).
CommissionOnce == \A j, k \in commission : j.closing = k.closing => j = k

\* The ranks of one partner's month are those of the confirmations, in whatever order
\* the closings were synced (docs/sprint-12/ADDENDUM_02: "supaya urutan sync tidak
\* memengaruhi tier bracket"), as long as nothing changed the ranking below its end:
\* a closing deleted, restored or confirmed out of turn, or a lead referred late.
RankedInOrder ==
    \A j, k \in commission :
       (/\ j.partner = k.partner /\ j.rank # 0 /\ k.rank # 0
        /\ confirmedAt[j.closing] < confirmedAt[k.closing]
             \/ (confirmedAt[j.closing] = confirmedAt[k.closing] /\ j.closing < k.closing)
        /\ MonthOf(confirmedAt[j.closing]) = MonthOf(confirmedAt[k.closing])
        /\ MonthOf(confirmedAt[k.closing]) \notin shuffled)
         => j.rank < k.rank

\* A commission's rule covers, by the dates it has now, the day the closing was
\* confirmed: neither superseding a rule nor correcting a closing's amount takes a paid
\* rate out of force (DeactivateCommissionRule: "superseded, never edited in place").
RateInForce ==
    \A k \in commission : k.rule # 0 =>
       /\ rules[k.rule].from <= confirmedAt[k.closing]
       /\ confirmedAt[k.closing] <= rules[k.rule].to

\* The tiers an accepted rule may have give every closing one rate, so no sync of a
\* partner is ever refused for good (validateCommissionTiers: "so every possible closing
\* count has a matching tier").
SyncNeverStuck ==
    \A p \in Partner : \A c \in Syncable(p) :
       IsTier(RuleFor(c)) => Cardinality(Tiers(rules[RuleFor(c)], Ordinal(p, c))) = 1

\* Not so: a commission is computed from the amount the closing ends up with
\* (confirmOrderAndClosingWithAmount: "this is what actually flows into partner
\* commission calculation").  A closing confirmed and synced before the correction
\* keeps the commission on the amount the salesperson declared.
CorrectionPrecedesCommission ==
    [][\A k \in commission : ~CorrectAmount(k.closing)]_vars

=============================================================================
