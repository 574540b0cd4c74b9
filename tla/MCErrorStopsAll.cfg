\* One copied track and one video track.
SPECIFICATION FairSpec
CONSTANTS
  p = p
  v = v
  Tracks = {p, v}
  Passthrough = {p}
  Files <- MCFiles
  Buffers = 1
  Depth = 1
PROPERTY ErrorStopsAll
\* A run comes to its end.
CHECK_DEADLOCK FALSE
