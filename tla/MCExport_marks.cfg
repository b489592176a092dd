SPECIFICATION ExportFairSpec
CONSTANTS
    Job <- TwoJobs
    Worker = {w1, w2}
    Registered <- OneJob
    MaxAttempts = 2
    MaxFaults = 2
    NoJob = NoJob
INVARIANTS ExportAgrees CommitsBounded OneRunner RetryBudget
PROPERTIES SettledUnlessStolen ExportSettles
