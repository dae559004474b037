\* Safety, refinement and liveness of the direct transaction operations.
CONSTANTS
    Ops = {o1, o2}
    GasLimit <- MCGasLimit
    EventTimeout <- MCEventTimeout
    MaxClock <- MCMaxClock
SPECIFICATION Spec
INVARIANTS
    TypeOK
    ClosedOnlyAfterDelivery
PROPERTIES
    ImplementsLifecycle
    MinedLeadsToResult
\* The client issues a finite set of operations: once all are resolved
\* (or a dropped transaction is polled forever) nothing else happens.
CHECK_DEADLOCK FALSE
