SPECIFICATION Spec
CONSTANTS
  A = A
  B = B
  NoGame = NoGame
  NoImage = NoImage
  Games <- TwoGames
  Blocks = 2
  MaxWrites = 2
  Faults <- LostFaults
INVARIANTS
  PendingWhenStale
  LastIsOnCard
SYMMETRY Symmetry
CONSTRAINT Bound
