SPECIFICATION FairTokenSpec
CONSTANTS
  main_task = main_task
  rx_task = rx_task
  cd_serve = cd_serve
  dma = dma
  Tasks <- MCTasks
  Server = cd_serve
  Unlocked <- MCUnlocked
  Dma = dma
  TimeoutCap = 2
INVARIANTS
  OneHolder
  TokenNotLost
  FramesContiguous
  NoBlockingInDmaMode
PROPERTIES
  NeverWedged
