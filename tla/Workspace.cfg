SPECIFICATION FairSpec
CONSTANTS
    Drafts <- MCDrafts
    Preset <- MCPreset
    Loops <- MCLoops
    JobIds <- MCJobIds
    Panels <- MCPanels
    Quotas <- MCQuotas
    Images <- MCImages
    Size = 1
    Batching = TRUE
    Unlimited = Unlimited
    None = None
    MaxText = 1
    MaxEvents = 3
INVARIANTS
    JobHasReference
    PromptKept
    OneJobPerClick
    StopHolds
PROPERTIES
    BatchEnds
    RowsFollow
CHECK_DEADLOCK FALSE
