SPECIFICATION FairSpec
CONSTANTS
  p = p
  v = v
  Tracks = {p, v}
  Passthrough = {p}
  Files <- MCFiles
  Buffers = 1
  Depth = 1
INVARIANTS TranscoderTypeOK OverMeansOver FinishedIsComplete
PROPERTIES RunImplemented RunEnds
CHECK_DEADLOCK FALSE
