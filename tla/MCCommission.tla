---------------------------- MODULE MCCommission ----------------------------
\* Two partners may refer the lead, whose two closings share a plan.  Months of two
\* days; a rule for any plan and three days with two tiers, one whose tiers leave a gap,
\* and a rule for the plan that starts on the second day and is open-ended.
EXTENDS Commission, TLC

CONSTANTS l1, gold, any

ClosingIds == {1, 2}
LeadOfIds == [c \in ClosingIds |-> l1]
PlanOfIds == [c \in ClosingIds |-> gold]

Drafts == {[plan |-> any, tiers |-> << <<1, 1>>, <<2, Open>> >>, from |-> 1, to |-> 3],
           [plan |-> any, tiers |-> << <<1, 1>>, <<3, Open>> >>, from |-> 1, to |-> Open],
           [plan |-> gold, tiers |-> <<>>, from |-> 2, to |-> Open]}

Symmetries == Permutations(Partner) \cup Permutations(Clerk)
=============================================================================
