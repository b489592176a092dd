SPECIFICATION Spec
CONSTANTS
    Closing <- ClosingIds
    Lead = {l1}
    Partner = {p1, p2}
    Clerk = {r1, r2}
    Draft <- Drafts
    LeadOf <- LeadOfIds
    PlanOf <- PlanOfIds
    NoPlan = any
    l1 = l1
    gold = gold
    any = any
    LastDay = 3
    MonthLength = 2
    MaxRules = 2
    MaxRevisions = 1
SYMMETRY Symmetries
INVARIANTS
    CommissionOnce
    RankedInOrder
    RateInForce
    SyncNeverStuck
CHECK_DEADLOCK FALSE
