\* Safety of the approve-then-spend calls under every failure and interleaving.
CONSTANTS
    Calls = {bond, deposit}
    NoCall = NoCall
    SubscribeMayFail = TRUE
    ApproveMayFail = TRUE
    MaxReorgs <- MCMaxReorgs
SPECIFICATION Spec
INVARIANTS
    TimeoutIsFinal
\* Calls end blocked, resolved or after a panic; nothing follows.
CHECK_DEADLOCK FALSE
PROPERTIES
    CallerReturns
