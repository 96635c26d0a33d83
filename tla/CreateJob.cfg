\* Three plans, a profile of each provider, two drops of up to two images.
SPECIFICATION FairSpec
CONSTANTS
    Profiles <- MCProfiles
    ProviderOf <- MCProviderOf
    Projects <- MCProjects
    ProfileOf <- MCProfileOf
    Modes <- MCModes
    Plans <- MCPlans
    Drops <- MCDrops
    Files <- MCFiles
    MAX_REFS = 2
    None = None
    MaxEvents = 3
INVARIANTS
    ProjectOfProfile
    VideoProfileMakesVideo
    DefaultsWithinPlan
    RefsBounded
PROPERTIES
    EffectsSettle
\* The user may leave the dialog open; edits are bounded.
CHECK_DEADLOCK FALSE
