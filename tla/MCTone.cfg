CONSTANTS
  SampleRate = 48
  Ns = 12
  Freq = 3
  Detune = 1
  Channels = {0, 1}
  SeqMod = 16
  TsMod = 16
SPECIFICATION Spec
INVARIANT ContinuousAcrossPackets
