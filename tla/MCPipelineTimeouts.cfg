\* Three wrappers at a time, of which two may hang: no timeout waits for a slot.
\* One move of clients and policies; fairness.
CONSTANTS
    Uid = {u1, off}
    OfflineUid = off
    MtpUid = {u1, off}
    BurstCountQuota = 1
    Client = {c1}
    SessionId = {s1, s2}
    CallingUid = {provider}
    NoSession = NoSession
    Wrapper = {w1, w2, w3}
    NoWrapper = NoWrapper
    MaxStuck = 2
    MaxMoves = 1
SPECIFICATION FairPipelineSpec
\* Submissions are bounded: the pipeline comes to rest.
CHECK_DEADLOCK FALSE
INVARIANTS
    PipelineTypeOK
    PauseHitsItsSession
PROPERTIES
    RunnerStops
    AbandonedExit
