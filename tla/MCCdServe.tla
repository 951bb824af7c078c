----------------------------- MODULE MCCdServe -----------------------------
(* Two discs of one track, asked for two blocks, two frames to a hunk. The *)
(* first disc has them in different hunks; the second has the first block  *)
(* in its pregap, and the other in a hunk of the number of the first       *)
(* disc's second.  The mapping, written out, is the one CdToc computes.    *)
EXTENDS CdServe

Toc == INSTANCE CdLayout

Track(frames, pregap) == [frames |-> frames, pregap |-> pregap, inFile |-> TRUE, postgap |-> 0]
MCDisc == << <<Track(3, 0)>>, <<Track(4, 2)>> >>

MCFileFrame ==
  [d \in Discs |-> [lba \in Lbas |-> IF d = 1 THEN lba ELSE IF lba = 1 THEN NoFrame ELSE 2]]

ASSUME MCMapping ==
  \A d \in Discs, lba \in Lbas : MCFileFrame[d][lba] = Toc!FileFrameOf(MCDisc[d], lba)

(* The arithmetic of pcecd_read_toc against the layout its comments        *)
(* describe: three tracks, shorter and longer than the padding, with       *)
(* pregaps in the file and not.                                            *)
ASSUME TocIsLayout ==
  \A a, b, c \in Toc!Metadata({3, 6}, {0, 2}, {0}) : Toc!SameLayout(<<a, b, c>>)

(* With postgaps, which the running file position counts though no comment *)
(* says they are stored, blocks still do not share a frame.                *)
ASSUME TocIsInjective ==
  \A a, b, c \in Toc!Metadata({3, 4}, {0, 2}, {0, 1}) :
      /\ Toc!OneBlockPerFrame(<<a, b, c>>) /\ Toc!EachInItsTrack(<<a, b, c>>)
      /\ Toc!BackToBack(<<a, b, c>>)
=============================================================================
