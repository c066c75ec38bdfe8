CONSTANTS
  MaxOctet = 5
  BaseOctets = {3, 4, 6}
  NumFlows <- MCNumFlows
SPECIFICATION Spec
INVARIANTS
  SocketsOwned
  AnnouncedMatchesSent
