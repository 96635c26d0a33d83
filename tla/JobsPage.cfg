\* Two jobs on two pages; clicks and faults in any order.
SPECIFICATION FairSpec
CONSTANTS
    Jobs <- MCJobs
    Starts <- MCStarts
    Sizes <- MCSizes
    Filters <- MCFilters
    All = All
    None = None
    MaxEvents = 3
INVARIANTS
    SelectionOfView
    RemovedStaysGone
    OneBulk
PROPERTIES
    FinishAnnounced
