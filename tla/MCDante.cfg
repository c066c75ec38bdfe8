CONSTANTS
  CounterMod = 8
  TsMod = 16
  SamplesPerPkt = 2
  HistSamples = 2
  OptXfade = 0
  OptFade = 0
  Q15 = 4
  IntMax = 1023
  SMax = 7
  SeqMod = 2
  MaxFrames = 4
  NChannels = 3
  ChPerFlow = 2
  FramesPerPacket = 3
  Pps = 2
  Samples <- MCSamples
  Anchors <- MCAnchors
SPECIFICATION DanteSpec
INVARIANTS
  FlowsContiguous
  EverySampleCarriedOnce
  ConcealmentFlagged
  OnlyThePartialWindowHeld
  SessionKeptFresh
