\* A timeout of one session, while another is paused.
CONSTANTS
    Uid = {u1, off}
    OfflineUid = off
    MtpUid = {u1, off}
    BurstCountQuota = 1
    Client = {c1}
    SessionId = {s1, s2}
    CallingUid = {provider}
    NoSession = NoSession
    Wrapper = {w1, w2}
    NoWrapper = NoWrapper
    MaxStuck = 0
    MaxMoves = 2
SPECIFICATION PipelineSpec
VIEW StateView
\* Submissions are bounded: the pipeline comes to rest.
CHECK_DEADLOCK FALSE
INVARIANTS
    ResumeFindsState
