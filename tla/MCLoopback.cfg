CONSTANTS
  SamplesPerPkt = 3
  NChannels = 3
  SinkChannels = 2
  SMax = 4
  TxCounterMod = 3
  MaxSamples = 14
  MaxFails = 2
  Quanta <- MCQuanta
  Input <- MCInput
SPECIFICATION LoopSpec
INVARIANTS
  CadenceFollowsGraph
  HeardIsPlayed
  FailedSendsAreGaps
CHECK_DEADLOCK FALSE
