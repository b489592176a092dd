SPECIFICATION ImportFairSpec
CONSTANTS
    Job <- TwoJobs
    Worker = {w1}
    Registered <- TwoJobs
    MaxAttempts = 2
    MaxFaults = 2
    NoJob = NoJob
    Row <- TwoRows
    Malformed <- NoRows
    Request = {a1}
    NoRow = NoRow
INVARIANTS NoRowForgotten AppliedOnce CountTruthful
PROPERTY CommitSettles
