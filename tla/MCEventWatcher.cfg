\* WatchEvent against a node that delivers, retracts and drops.
CONSTANTS
    EventTimeout <- MCEventTimeout
    MaxEvents <- MCMaxEvents
    MaxReorgs <- MCMaxReorgs
    MaxClock <- MCMaxClock
SPECIFICATION Spec
INVARIANTS
    ReturnsFirstLiveLog
    WithinDeadline
PROPERTIES
    WatchReturns
\* The watch ends and the chain stops producing events: the run stops.
CHECK_DEADLOCK FALSE
