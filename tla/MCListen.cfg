CONSTANTS
  CounterMod = 4
  TsMod = 8
  SamplesPerPkt = 2
  Pps = 2
  SockCap = 1
  MaxFrames = 5
  UpCounters <- MCUpCounters
SPECIFICATION ListenSpec
INVARIANT DirectionsNeverMixed
PROPERTIES
  SignalledLoopStops
  AnnouncedForEver
  StatusCatchesUp
