\* Checks NoZeroResult alone against the code's behaviour.
CONSTANTS
    Calls = {bond, deposit}
    NoCall = NoCall
    SubscribeMayFail = TRUE
    ApproveMayFail = TRUE
    MaxReorgs <- MCMaxReorgs
SPECIFICATION Spec
INVARIANT NoZeroResult
CHECK_DEADLOCK FALSE
