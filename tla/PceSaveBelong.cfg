SPECIFICATION Spec
CONSTANTS
  A = A
  B = B
  NoGame = NoGame
  NoImage = NoImage
  Games <- TwoGames
  Blocks = 2
  MaxWrites = 1
  Faults <- NoFaults
INVARIANTS
  SavesBelong
