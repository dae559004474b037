\* Checks NoLeakOnExit alone against the code's error paths.
CONSTANTS
    MaxProfiles <- MCMaxProfiles
    MaxDetectors <- MCMaxDetectors
    ReadMayFail = TRUE
    RemoveMayFail = TRUE
SPECIFICATION Spec
INVARIANTS
    NoLeakOnExit
\* Transcode returns; nothing follows.
CHECK_DEADLOCK FALSE
