CONSTANTS
  Capacity = 4
  NChannels = 2
  TrimQuanta = 1
  CountMod = 4
  MaxOffered = 7
  Blocks <- MCBlocks
  Quanta <- MCQuanta
SPECIFICATION FairSpec
INVARIANTS
  NoSharedSlot
  PlanesAligned
  DropsCounted
  TrimBoundsBacklog
PROPERTIES
  ImplementsQueue
  EverySampleLeaves
