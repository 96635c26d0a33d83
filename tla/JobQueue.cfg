\* Two image jobs, one task, a crash: everything is settled, as the contract says.
SPECIFICATION FairSpec
CONSTANTS
    None = None
    j1 = j1
    j2 = j2
    p1 = p1
    p2 = p2
    w1 = w1
    t1 = t1
    t2 = t2
    Jobs = {j1, j2}
    Profiles = {p1, p2}
    Workers = {w1}
    Tasks = {t1}
    Clients = {}
    Runner <- OneWorker
    JobType <- AllImage
    Visible <- SuperAdmin
    AllowsVideo = {p1, p2}
    Rank <- InOrder
    Requests = {}
    MaxRetry = 1
    RetryCap = 0
    MaxRuns = 0
    MaxCrashes = 1
    MaxFaults = 0
PROPERTIES
    EventuallySettled
    KeepsContract
