CONSTANTS
  CounterMod = 8
  FramesMod = 16
  FrameTime = 2
  Window = 8
  Scale = 10
  IntMax = 9
  MaxLate = 1
  Uptime = 3
  Ports = {1, 2}
  Files <- MCFiles
SPECIFICATION Spec
INVARIANTS
  ReplaysInOrder
  PassesKeepTempo
  DriftIsTheCaptures
PROPERTIES
  DriftReachesGraph
  ReplayGoesOn
