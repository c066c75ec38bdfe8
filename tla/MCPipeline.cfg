CONSTANTS
  CounterMod = 16
  TsMod = 32
  SamplesPerPkt = 2
  HistSamples = 3
  OptXfade = 0
  OptFade = 5
  Q15 = 8
  IntMax = 31
  SMax = 7
  SeqMod = 8
  MaxFrames = 4
  Samples <- MCSamples
  Anchors <- MCAnchors
SPECIFICATION Spec
INVARIANTS
  TypeOK
  TimelineContiguous
  SequenceContiguous
  LossAccounted
  BurstBounded
  ConcealsFromHistory
PROPERTIES
  RepeatsNewestFrame
  ConcealmentNeverSwells
CHECK_DEADLOCK FALSE
