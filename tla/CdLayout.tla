----------------------------- MODULE CdLayout ------------------------------
(* The reference for CdToc, from the comment before pcecd_toc_fofs: "A CHD *)
(* stores tracks back to back, each padded up to a multiple of 4 frames,   *)
(* and a pregap that is not in the file occupies LBAs but no bytes."  Both *)
(* spaces are laid out frame by frame; a frame is <<track, number in it>>. *)
EXTENDS CdToc, SequencesExt

Padding == <<0, 0>>

Stored(disc) ==
  FlattenSeq([k \in DOMAIN disc |->
    [i \in 1..PadTo4(disc[k].frames) |-> IF i <= disc[k].frames THEN <<k, i>> ELSE Padding]])

(* A pregap cannot be asked for, in the file or not; of the first track's  *)
(* the 150 blocks before block 0 stand for the one that is not in the file.*)
Heard(disc) ==
  FlattenSeq([k \in DOMAIN disc |->
    [i \in 1..(IF disc[k].inFile \/ k = 1 THEN 0 ELSE disc[k].pregap) |-> Padding]
    \o [i \in 1..disc[k].frames |-> IF i <= InFilePregap(disc[k]) THEN Padding ELSE <<k, i>>]
    \o [i \in 1..disc[k].postgap |-> Padding]])

(* Each block of the disc is looked up to the frame of the file that holds *)
(* it, and to none in a gap; the lead-out follows the last block.          *)
SameLayout(disc) ==
  LET heard == Heard(disc)
      stored == Stored(disc)
      mapping == Mapping(disc)
  IN /\ LeadOut(disc) = Len(heard)
     /\ \A lba \in DOMAIN mapping :
          LET block == heard[lba + 1]
              f == mapping[lba]
          IN IF block = Padding THEN f = Nowhere
             ELSE f + 1 \in DOMAIN stored /\ stored[f + 1] = block
=============================================================================
