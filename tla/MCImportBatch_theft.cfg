SPECIFICATION ImportSpec
CONSTANTS
    Job <- TwoJobs
    Worker = {w1, w2}
    Registered <- TwoJobs
    MaxAttempts = 1
    MaxFaults = 2
    NoJob = NoJob
    Row <- TwoRows
    Malformed <- NoRows
    Request = {a1}
    NoRow = NoRow
SYMMETRY WorkerSymmetry
PROPERTY ValidatesOnce
