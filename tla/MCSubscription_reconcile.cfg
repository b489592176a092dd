SPECIFICATION Spec
CONSTANTS
    Order = {o1, o2, o3}
    Closing = {c1, c2}
    Request = {r1, r2}
    LastDay = 3
    Null = Null
SYMMETRY Symmetry
INVARIANTS ClosingCountedOnce OrderMatchesRecon FlaggedUntilReconciled UpgradesAbut ActiveUntilEnd
