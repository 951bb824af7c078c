SPECIFICATION FairSpec
CONSTANTS
  RingSize = 4
  Sector = 2
  ConfMax = 2
  PosMod = 64
  MaxFrames = 3
  MaxDrops = 1
  Frames <- MCFrames
INVARIANTS
  FramesInOrder
  WritesInRange
  StuckOnlyInShortConfig
PROPERTIES
  AllHandled
  ImplementsFifo
