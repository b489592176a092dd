SPECIFICATION Spec
CONSTANTS
    Rep = {s1, s2}
    Metric = {closings, calls}
    Job = {j1, j2}
    Draft <- Drafts
    MaxFact = 2
    MaxTries = 2
    Nothing = Nothing
PROPERTY RefusedOnlyForActive
CHECK_DEADLOCK FALSE
