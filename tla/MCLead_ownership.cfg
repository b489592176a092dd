CONSTANTS
    Lead = {l1}
    Admin = {a1}
    Supervisor = {s1, s2}
    Sales = {x1, x2}
    Training = {t1}
    Closing = {c1}
    Request = {r1, r2}
    Null = Null
SPECIFICATION Spec
SYMMETRY Symmetry
INVARIANT AssignmentAgrees
INVARIANT SalesLeadWorkable
INVARIANT StageMatchesScore
INVARIANT ClosingReported
INVARIANT ListedIsSeen
PROPERTY ChainUnbroken
