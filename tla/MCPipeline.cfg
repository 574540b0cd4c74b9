\* One wrapper, which may hang, so no timeouts; three moves of clients and policies.
CONSTANTS
    Uid = {u1, off}
    OfflineUid = off
    MtpUid = {u1, off}
    BurstCountQuota = 1
    Client = {c1}
    SessionId = {s1, s2}
    CallingUid = {provider}
    NoSession = NoSession
    Wrapper = {w1}
    NoWrapper = NoWrapper
    MaxStuck = 1
    MaxMoves = 3
SPECIFICATION PipelineSpec
VIEW StateView
\* Submissions are bounded: the pipeline comes to rest.
CHECK_DEADLOCK FALSE
INVARIANTS
    PauseHitsItsSession
    RunnerIsDriven
