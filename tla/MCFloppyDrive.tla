--------------------------- MODULE MCFloppyDrive ---------------------------
(* Two drives, two images and a file that is none.  The drives are alike,   *)
(* and so are the images.                                                  *)
EXTENDS FloppyDrive, TLC

CONSTANTS DriveA, DriveB, DosDisk, GameDisk, OddFile

BothDrives == {DriveA, DriveB}
AllImages == {DosDisk, GameDisk, OddFile}
OddSizes == {OddFile}
Symmetry == Permutations(BothDrives) \cup Permutations({DosDisk, GameDisk})
=============================================================================
