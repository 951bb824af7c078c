SPECIFICATION FairSpec
CONSTANTS
  Discs = {1, 2}
  Lbas = {1, 2}
  Spq = 2
  QLen = 2
  MaxAsks = 3
  MaxLoads = 2
  MaxFails = 1
  FileFrame <- MCFileFrame
INVARIANTS
  WrongSectorHasCauses
  MountedIsServed
PROPERTIES
  AnswersInOrder
  AnsweredOrRefused
CHECK_DEADLOCK FALSE
