SPECIFICATION MatchSpec
CONSTANTS
    Payment = {p1, p2}
    Posting = {}
    Amount <- Unit
    Transfer = {t1, t2}
    Admin = {a1, a2}
    Nobody = Nobody
SYMMETRY Symmetry
INVARIANT CreditBacked
PROPERTY MatchFinal
CHECK_DEADLOCK FALSE
