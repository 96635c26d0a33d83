\* Three accounts, a tenant's domain and one under maintenance, one retry.
SPECIFICATION FairSpec
CONSTANTS
    None = None
    Calls <- MCCalls
    MAX_RETRIES = 1
    People = {"a", "u", "k"}
    RoleOf <- MCRoleOf
    EffOf <- MCEffOf
    ToolUsers = {"k"}
    Totp = {"a"}
    Changing = {"a"}
    Sites <- MCSites
    Entrances <- MCEntrances
    MaxEvents = 4
INVARIANTS
    TypeOK
    SessionAgrees
    AdminSeenByAdmin
    PostedOnce
PROPERTIES
    SecondFormKept
    RedirectsSettle
\* Users may stop clicking.
CHECK_DEADLOCK FALSE
