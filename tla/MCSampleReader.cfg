SPECIFICATION FairSpec
CONSTANTS
  Tracks = {a, b}
  NoTrack = NoTrack
  MaxSamples = 5
  Files <- MCFiles
  MaxSwitches = 3
INVARIANTS ReaderTypeOK
PROPERTIES SourceImplemented CallsReturn
CHECK_DEADLOCK FALSE
