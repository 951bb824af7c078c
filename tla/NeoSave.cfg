SPECIFICATION Spec
CONSTANTS
  A = A
  B = B
  NoGame = NoGame
  Mixed = Mixed
  Games <- TwoGames
  Blocks = 2
  MaxWrites = 2
  MaxFaults = 1
INVARIANTS
  PendingWhenStale
  SumIsOfFile
  AnnouncedIsSaved
  NoOthersData
PROPERTIES
  LossHasCauses
CONSTRAINT Bound
