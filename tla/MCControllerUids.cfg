\* Two clients with a session each, two apps and the offline queue, no pacing.
CONSTANTS
    Uid = {u1, u2, off}
    OfflineUid = off
    MtpUid = {u1, u2, off}
    BurstCountQuota = 1
    Client = {c1, c2}
    SessionId = {s1}
    CallingUid = {provider}
    NoSession = NoSession
SPECIFICATION Spec
SYMMETRY Symmetry
VIEW StateView
INVARIANTS
    QueuesMatchSessions
    OfflineIsLast
    RightSessionRuns
    OneRunner
    CurrentIsLive
    WatchdogCoversRunner
    WatchedIsRunning
