\* Checks ConfirmationDeadline alone against the code's behaviour.
CONSTANTS
    Ops = {o1, o2}
    GasLimit <- MCGasLimit
    EventTimeout <- MCEventTimeout
    MaxClock <- MCMaxClock
SPECIFICATION Spec
INVARIANT ConfirmationDeadline
CHECK_DEADLOCK FALSE
