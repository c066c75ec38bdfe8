SPECIFICATION FairSpec
INVARIANTS
  NothingFreedInUse
  CleanExit
  OneFrameAfterStop
PROPERTY FileReplayStops
