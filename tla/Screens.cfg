\* Every screen, each of its lists; three clicks, edits or faults.
SPECIFICATION FairSpec
CONSTANTS
    Screens <- AllScreens
    Gaps <- OpenGaps
    None = None
    Asked = Asked
    MaxEvents = 3
PROPERTIES
    CatchesUp
    NeverGoesBack
\* A list that is not polled has nothing to do when nobody clicks.
CHECK_DEADLOCK FALSE
