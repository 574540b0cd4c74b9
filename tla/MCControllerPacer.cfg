\* Two sessions that are paced, submitted by MediaProvider or by the app itself.
CONSTANTS
    Uid = {u1, off}
    OfflineUid = off
    MtpUid = {}
    BurstCountQuota = 1
    Client = {c1}
    SessionId = {s1, s2}
    CallingUid = {provider, u1}
    NoSession = NoSession
SPECIFICATION FairSpec
INVARIANTS
    TypeOK
    ActiveMarksAreReal
PROPERTIES
    OverQuotaIsFinal
    LifecycleKept
    LockIsReleased
