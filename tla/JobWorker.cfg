\* One worker, video jobs, an owner who cancels and deletes, a crash, a database error.
SPECIFICATION Spec
CONSTANTS
    None = None
    j1 = j1
    j2 = j2
    p1 = p1
    p2 = p2
    w1 = w1
    t1 = t1
    t2 = t2
    Jobs = {j1}
    Profiles = {p1, p2}
    Workers = {w1}
    Tasks = {t1, t2}
    Clients = {c1}
    Runner <- OneWorker
    JobType <- AllVideo
    Visible <- SuperAdmin
    AllowsVideo = {p1, p2}
    Rank <- InOrder
    Requests = {"cancel", "delete"}
    MaxRetry = 1
    RetryCap = 0
    MaxRuns = 6
    MaxCrashes = 1
    MaxFaults = 1
INVARIANTS
    InFlightHasDriver
    SingleAttempt
    BannedNeverRuns
    RunsArePaidFor
    EventsAgree
PROPERTIES
    SuccessIsFinal
