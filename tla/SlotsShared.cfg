\* Two tabs, one of them video, with resets that clear the counters.
SPECIFICATION FairSpec
CONSTANTS
    None = None
    v1 = v1
    v2 = v2
    i1 = i1
    Tasks = {v1, v2, i1}
    Video = {v1, v2}
    Sessions = {s1}
    Ops = {"reset_cdp", "watchdog"}
    MaxJobs = 2
    MaxVideo = 1
    MaxCrashes = 1
    MaxLosses = 0
INVARIANTS
    CountersWithinCaps
PROPERTIES
    SlotComesBack
