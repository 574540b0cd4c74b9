\* Every list of up to four apps and the offline uid, every set of uids.
CONSTANTS
    Uid = {u1, u2, u3, u4, off}
    OfflineUid = off
SPECIFICATION LoopSpec
\* The loop ends.
CHECK_DEADLOCK FALSE
INVARIANTS
    LoopMatchesOrder
    TopUidKept
