SPECIFICATION MatchSpec
CONSTANTS
    Payment = {p1}
    Posting = {}
    Amount <- Unit
    Transfer = {t1}
    Admin = {a1}
    Nobody = Nobody
INVARIANT NotLeftDangling
CHECK_DEADLOCK FALSE
