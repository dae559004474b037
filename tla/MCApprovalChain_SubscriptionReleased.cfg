\* Checks SubscriptionReleased alone, with dispatch and subscription always succeeding.
CONSTANTS
    Calls = {bond, deposit}
    NoCall = NoCall
    SubscribeMayFail = FALSE
    ApproveMayFail = FALSE
    MaxReorgs <- MCMaxReorgs
SPECIFICATION Spec
PROPERTY SubscriptionReleased
CHECK_DEADLOCK FALSE
