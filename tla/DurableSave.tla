---------------------------- MODULE DurableSave ----------------------------
(***************************************************************************)
(* What saving a backup-RAM image promises, without files: the card holds  *)
(* one recoverable image; an attempt replaces it in one step or leaves it  *)
(* alone, and what was acknowledged or restored is never lost.  Images are *)
(* numbered in the order the game produced them; 0 is the blank image.     *)
(***************************************************************************)
EXTENDS Naturals

CONSTANT Images    \* the images the game may produce

VARIABLES
  card,       \* the image a restart would restore
  attempt,    \* the image being saved, 0 when none is
  saved       \* the newest image acknowledged or restored

dvars == <<card, attempt, saved>>

Init ==
  /\ card = 0
  /\ attempt = 0
  /\ saved = 0

Begin(v) ==
  /\ attempt = 0
  /\ v >= card
  /\ attempt' = v
  /\ UNCHANGED <<card, saved>>

Commit ==
  /\ attempt # 0
  /\ card' = attempt
  /\ UNCHANGED <<attempt, saved>>

Acknowledge ==
  /\ attempt # 0
  /\ card = attempt
  /\ saved' = attempt
  /\ attempt' = 0
  /\ UNCHANGED card

(* A power cut or an error: the image may or may not have been committed.  *)
Abandon ==
  /\ attempt' = 0
  /\ UNCHANGED <<card, saved>>

Restore ==
  /\ attempt = 0
  /\ saved' = card
  /\ UNCHANGED <<card, attempt>>

Next ==
  \/ \E v \in Images : Begin(v)
  \/ Commit \/ Acknowledge \/ Abandon \/ Restore

Spec == Init /\ [][Next]_dvars
=============================================================================
