SPECIFICATION FairSpec
CONSTANTS
  A = A
  B = B
  NoGame = NoGame
  NoImage = NoImage
  Games <- OneGame
  Blocks = 2
  MaxWrites = 2
  Faults <- NoFaults
PROPERTIES
  SavedEventually
