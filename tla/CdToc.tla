------------------------------- MODULE CdToc -------------------------------
(* The two address spaces of a CD image (src/core/pcecd.cpp): the logical  *)
(* blocks the core asks for, and the frames of the .chd file.  Pure        *)
(* operators; CdServe takes a disc's mapping as the constant FileFrame.    *)
(* A disc is the sequence of its tracks' metadata, as far as the loop asks *)
(* for them: of an image with more than 99 tracks, which no CD has, the    *)
(* first 99 (idx < 99).  The control byte, only passed on, is left out.    *)
EXTENDS Integers, Sequences

Nowhere == -1

(* What the metadata of one track says; "V" as the first letter of the     *)
(* type of the pregap: the pregap is part of the file, and of frames.      *)
Metadata(Frames, Gaps, Postgaps) ==
  {t \in [frames : Frames, pregap : Gaps, inFile : BOOLEAN, postgap : Postgaps] :
     t.inFile => t.pregap < t.frames}

PadTo4(n) == ((n + 3) \div 4) * 4

InFilePregap(t) == IF t.inFile THEN t.pregap ELSE 0

(* One turn of the loop: where the track starts in either space, and both  *)
(* running positions moved past it.                                        *)
AddTrack(toc, t) ==
  LET dv == InFilePregap(t)
      silent == IF toc.tracks = <<>> THEN 150 ELSE IF t.inFile THEN 0 ELSE t.pregap
      track == [lba |-> toc.plba + silent + dv,
                fofs |-> toc.fofs + dv,
                sectors |-> t.frames - dv]
  IN [tracks |-> Append(toc.tracks, track),
      plba |-> track.lba + track.sectors + t.postgap,
      fofs |-> track.fofs + track.sectors + t.postgap + PadTo4(t.frames) - t.frames]

Blank == [tracks |-> <<>>, plba |-> -150, fofs |-> 0]

Toc(disc) ==
  LET after[n \in 0..Len(disc)] == IF n = 0 THEN Blank ELSE AddTrack(after[n - 1], disc[n])
  IN after[Len(disc)]

(* The lead-out entry, number 100.                                         *)
LeadOut(disc) == Toc(disc).plba

Holds(t, lba) == lba >= t.lba /\ lba < t.lba + t.sectors

(* The first track that contains the address decides.                      *)
FileFrameOf(disc, lba) ==
  LET tracks == Toc(disc).tracks
      holding == {k \in DOMAIN tracks : Holds(tracks[k], lba)}
      first == CHOOSE k \in holding : \A j \in holding : k <= j
  IN IF holding = {} THEN Nowhere ELSE tracks[first].fofs + (lba - tracks[first].lba)

-----------------------------------------------------------------------------
(* The whole mapping of a disc.                                            *)
Mapping(disc) == [lba \in 0..(LeadOut(disc) - 1) |-> FileFrameOf(disc, lba)]

(* The table against the comment before pcecd_toc_fofs: in the file, tracks *)
(* are back to back, each padded to a multiple of four frames (and behind  *)
(* its postgap); on the disc a pregap is heard whether it is stored or not,*)
(* but for the 150 blocks before block 0.                                  *)
BackToBack(disc) ==
  LET tracks == Toc(disc).tracks
      Begin(k) == tracks[k].fofs - InFilePregap(disc[k])
  IN /\ Len(tracks) = Len(disc)
     /\ \A k \in 1..Len(disc) : tracks[k].sectors = disc[k].frames - InFilePregap(disc[k])
     /\ disc # <<>> => Begin(1) = 0 /\ tracks[1].lba = InFilePregap(disc[1])
     /\ \A k \in 1..(Len(disc) - 1) :
          /\ Begin(k + 1) = Begin(k) + PadTo4(disc[k].frames) + disc[k].postgap
          /\ tracks[k + 1].lba =
               tracks[k].lba + tracks[k].sectors + disc[k].postgap + disc[k + 1].pregap

(* No two blocks of a disc are read from one frame, postgaps included.     *)
OneBlockPerFrame(disc) ==
  LET mapping == Mapping(disc)
  IN \A a, b \in DOMAIN mapping : mapping[a] = mapping[b] => a = b \/ mapping[a] = Nowhere

(* No track hides another: each block is looked up in the track it is of,  *)
(* at the distance from the track's start that it has on the disc.         *)
EachInItsTrack(disc) ==
  LET tracks == Toc(disc).tracks
  IN \A k \in DOMAIN tracks : \A i \in 0..(tracks[k].sectors - 1) :
       FileFrameOf(disc, tracks[k].lba + i) = tracks[k].fofs + i
=============================================================================
