CONSTANTS
    rq = rq
    opt = opt
    untested = untested
    dev0 = dev0
    dev1 = dev1
    Caps <- MCCaps
    Required <- MCRequired
    Tested <- MCTested
    Devices <- MCDevices
SPECIFICATION Spec
INVARIANTS
    TypeOK
    ProbeMatchesReference
    SoftwareProbeMatchesReference
\* The probe returns; its end state has no successor.
CHECK_DEADLOCK FALSE
