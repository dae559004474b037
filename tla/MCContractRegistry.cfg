\* Construction with failing lookups, then Bond and Deposit.
CONSTANTS
    BondingManager = BondingManager
    JobsManager = JobsManager
    RoundsManager = RoundsManager
    v1 = v1
    v2 = v2
    None = None
    RoleOrder <- MCRoleOrder
    Spenders <- MCSpenders
    Versions <- MCVersions
    LookupMayFail = TRUE
SPECIFICATION Spec
INVARIANTS
    NilSessionOnlyAfterDroppedError
\* Resolution and the spender calls finish; nothing follows.
CHECK_DEADLOCK FALSE
