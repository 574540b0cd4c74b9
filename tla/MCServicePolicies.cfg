\* Three apps; five moves of apps, clients, codecs or the device.
CONSTANTS
  Uid = {u1, u2, u3, off}
  OfflineUid = off
  NoUid = NoUid
  Pids = {p1, p2}
  NoPid = NoPid
  MaxMoves = 5
SPECIFICATION MCSpec
INVARIANTS PoliciesTypeOK FrontIsTop StatesConverge MonitoredAreListed ThrottlingIsHeard LostIsWatched
PROPERTIES GoneIsRemoved
\* Moves are bounded: the policies come to rest.
CHECK_DEADLOCK FALSE
