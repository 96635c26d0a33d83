\* An owner who cancels and retries while attempts run: two attempts at one job.
SPECIFICATION Spec
CONSTANTS
    None = None
    j1 = j1
    j2 = j2
    p1 = p1
    p2 = p2
    w1 = w1
    t1 = t1
    t2 = t2
    Jobs = {j1}
    Profiles = {p1}
    Workers = {w1}
    Tasks = {t1, t2}
    Clients = {c1}
    Runner <- OneWorker
    JobType <- AllVideo
    Visible <- SuperAdmin
    AllowsVideo = {p1}
    Rank <- InOrder
    Requests = {"cancel", "retry"}
    MaxRetry = 0
    RetryCap = 1
    MaxRuns = 2
    MaxCrashes = 1
    MaxFaults = 1
INVARIANTS
    RetryBudget
