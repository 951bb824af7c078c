SPECIFICATION Spec
CONSTANTS
  coreA = coreA
  coreB = coreB
  NoCore = NoCore
  Cores <- MCCores
  Blocks = 3
  BlockBits = 4
  Boards = {"good", "noErase", "unknown", "absent", "dead"}
  MaxPrograms = 3
INVARIANTS
  InStep
  SuccessMeansRunning
  OnlyKnownBoards
PROPERTIES
  CommandsTaken
CHECK_DEADLOCK FALSE
