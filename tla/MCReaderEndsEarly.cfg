\* Two tracks, files of up to three samples, two switches of the access mode.
SPECIFICATION FairSpec
CONSTANTS
  Tracks = {a, b}
  NoTrack = NoTrack
  MaxSamples = 3
  Files <- MCFiles
  MaxSwitches = 2
INVARIANT EndOnlyAtEnd
\* The threads of the tracks end.
CHECK_DEADLOCK FALSE
