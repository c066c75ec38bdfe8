CONSTANTS
  CounterMod = 8
  TsMod = 8
  SamplesPerPkt = 2
  Pps = 2
  SockCap = 1
  MaxFrames = 3
  UpCounters <- MCUpCounters
SPECIFICATION ListenSpec
PROPERTY IdleReannounces
