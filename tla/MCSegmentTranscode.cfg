\* Transcode and resToTranscodeData under ffmpeg errors and panics and failing reads and removes.
CONSTANTS
    MaxProfiles <- MCMaxProfiles
    MaxDetectors <- MCMaxDetectors
    ReadMayFail = TRUE
    RemoveMayFail = TRUE
SPECIFICATION Spec
INVARIANTS
    TypeOK
    SegmentsFollowOpts
    CleanOnSuccess
\* Transcode returns; nothing follows.
CHECK_DEADLOCK FALSE
