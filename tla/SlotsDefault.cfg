\* The default caps, one tab at a time, status operations, a crash, a lost slot.
SPECIFICATION Spec
CONSTANTS
    None = None
    v1 = v1
    v2 = v2
    i1 = i1
    Tasks = {v1, v2, i1}
    Video = {v1, v2}
    Sessions = {s1}
    Ops <- StatusOps
    MaxJobs = 1
    MaxVideo = 4
    MaxCrashes = 1
    MaxLosses = 1
INVARIANTS
    SlotsExact
PROPERTIES
    ImplementsGate
