\* Checks NoSendOnClosedLogs alone against the code's behaviour.
CONSTANTS
    Calls = {bond, deposit}
    NoCall = NoCall
    SubscribeMayFail = TRUE
    ApproveMayFail = TRUE
    MaxReorgs <- MCMaxReorgs
SPECIFICATION Spec
INVARIANT NoSendOnClosedLogs
CHECK_DEADLOCK FALSE
