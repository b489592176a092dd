CONSTANTS
    Owner = {o1, n1}
    NonReg = {n1}
    PhoneOf <- OnePhone
    o1 = o1
    n1 = n1
    phone = phone
    Outlet = {t1, t2}
    Null = Null
    MaxSub = 2
    Stamp = {0, 3}
    OutletStamp = {3}
    MaxDay = 2
    MaxDuration = 2
    Ticks = 4
    Noon = 2
    MonthDays = 2
    TrialDays = 2
    TrialSoon = 1
    DueSoon = 1
SPECIFICATION Spec
SYMMETRY Symmetry
CONSTRAINT Bounded
INVARIANT FiltersPartition
INVARIANT FilterShowsLabel
INVARIANT ListsShowLabel
PROPERTY UpgradeKeepsDue
PROPERTY StatusForward
