SPECIFICATION Spec
CONSTANTS
    Commission = {c1, c2}
    Batch = {b1, b2, b3}
    Clerk = {r1, r2}
    Nothing = Nothing
SYMMETRY Symmetry
INVARIANTS PaidOnce ReservedApproved ReservedOnce
