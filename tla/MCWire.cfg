CONSTANTS
  CounterMod = 8
  TsMod = 8
  SamplesPerPkt = 1
  HistSamples = 2
  OptXfade = 0
  OptFade = 0
  Q15 = 4
  IntMax = 1023
  SMax = 7
  SeqMod = 4
  MaxFrames = 7
  MaxGap = 2
  MaxReorder = 3
  MaxRestarts = 1
  Samples <- MCSamples
  Anchors <- MCAnchors
SPECIFICATION WireSpec
INVARIANTS
  TimelineTracksMaster
  LossesExact
  ResyncsWithinHalfPeriod
CHECK_DEADLOCK FALSE
