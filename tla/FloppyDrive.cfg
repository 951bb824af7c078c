SPECIFICATION FloppySpec
CONSTANTS
  DriveA = DriveA
  DriveB = DriveB
  DosDisk = DosDisk
  GameDisk = GameDisk
  OddFile = OddFile
  NoImage = NoImage
  NoRequest = NoRequest
  Drives <- BothDrives
  Images <- AllImages
  Unsupported <- OddSizes
  Sectors = {0, 1}
  MaxRequests = 1
SYMMETRY Symmetry
INVARIANTS
  ServedRight
  ViewsAgree
