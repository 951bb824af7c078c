------------------------------ MODULE SaveFile ------------------------------
(***************************************************************************)
(* One game's save on the SD card, written by sv_write_file (pcesave.cpp)  *)
(* or the second pass of neosave_flush_now (neosave.cpp) and read by       *)
(* pcesave_restore or neosave_restore.                                     *)
(*                                                                         *)
(* The image goes to <path>.tmp, the old <path> is unlinked and the .tmp   *)
(* renamed, so that a power cut leaves one of the two; a restore reads     *)
(* <path>, or else a lone <path>.tmp.  Power may fail between any two      *)
(* FatFs calls, and each call may fail, those of the restore included: the *)
(* game then starts from an older image than the card holds, and what it   *)
(* saves later is an image that strays from the one it should build on.    *)
(*                                                                         *)
(* Images are numbered in the order the game produced them.  A file holds  *)
(* one of them, or is torn: shorter than an image.                         *)
(***************************************************************************)
EXTENDS Integers

CONSTANT MaxVersion     \* images followed

ASSUME SaveAssumption == MaxVersion \in Nat \ {0}

VARIABLES
  saver,      \* which of the two savers this is
  faults,     \* "none": no call fails, and power does not fail while a .tmp
              \*   is the only whole copy; "cuts": it may fail then as well;
              \*   "io": calls fail too
  sav,        \* the content of <path>
  tmp,        \* the content of <path>.tmp
  pc,         \* the next FatFs call of the save, "idle", or "off"
  written,    \* f_write returned FR_OK and wrote the whole image
  img,        \* the image being saved (sv_rx)
  last,       \* sv_last: "what the SD card holds"
  ver,        \* history: the newest image the game produced
  done,       \* history: the newest image saved successfully, or restored from
              \*   the file that a restore without failing calls reads
  stray,      \* history: the game was not started from the newest image done
  strays,     \* history: the images produced by a game that strays
  causes      \* history: "lone", a save truncated the only whole copy;
              \* "sync", <path> was unlinked after f_sync failed;
              \* "stray", <path> was unlinked to save an image that strays

env == <<saver, faults>>
played == <<ver, stray, strays>>
vars == <<env, sav, tmp, pc, written, img, last, done, played, causes>>

Absent == 0
Torn == -1
Content == -1..MaxVersion
Whole(f) == f > 0

TypeOK ==
  /\ saver \in {"pce", "neo"} /\ faults \in {"none", "cuts", "io"}
  /\ sav \in Content /\ tmp \in Content /\ last \in Content
  /\ img \in 0..MaxVersion
  /\ ver \in 0..MaxVersion /\ done \in 0..MaxVersion
  /\ pc \in {"off", "idle", "create", "write", "sync", "unlink", "rename"}
  /\ written \in BOOLEAN
  /\ stray \in BOOLEAN /\ strays \subseteq 1..MaxVersion
  /\ causes \subseteq {"lone", "sync", "stray"}

(* A game that was never saved, before its first restore.                  *)
Init ==
  /\ saver \in {"pce", "neo"} /\ faults \in {"none", "cuts", "io"}
  /\ sav = Absent /\ tmp = Absent
  /\ pc = "off"
  /\ written = FALSE
  /\ img = 0 /\ last = 0 /\ ver = 0 /\ done = 0
  /\ stray = FALSE /\ strays = {} /\ causes = {}

-----------------------------------------------------------------------------
(* Restoring.                                                              *)

(* Mutant: a file of any length will do.                                   *)
ReadableAnySize(f) == f # Absent

(* sv_read_file wants all the bytes; neosave_restore takes what there is.  *)
Readable(f) == IF saver = "pce" THEN Whole(f) ELSE f # Absent

(* Mutant: a lone .tmp is not looked at.                                   *)
RecoveredSavOnly == IF Readable(sav) THEN sav ELSE 0

(* <path>, else a lone <path>.tmp, else the blank image.                   *)
Recovered ==
  IF Readable(sav) THEN sav ELSE IF Readable(tmp) THEN tmp ELSE 0

Failing == faults = "io"

(* When a call of the restore fails the code goes on: with the .tmp, with  *)
(* the blank image, or in neosave with zeros for some of the blocks.       *)
Restorable ==
  {Recovered} \cup
  IF ~Failing THEN {}
  ELSE {0} \cup (IF Readable(tmp) THEN {tmp} ELSE {})
           \cup (IF saver = "neo" /\ Recovered # 0 THEN {Torn} ELSE {})

(* pcesave_restore or neosave_restore, at power-on or when the game is     *)
(* loaded again.                                                           *)
Restore ==
  /\ pc \in {"off", "idle"}
  /\ pc' = "idle"
  /\ last' \in Restorable
  /\ stray' = (last' \in strays \/ (done > 0 /\ last' < done))
  /\ done' = IF last' = Recovered /\ last' > done /\ ~stray' THEN last' ELSE done
  /\ UNCHANGED <<env, sav, tmp, written, img, ver, strays, causes>>

-----------------------------------------------------------------------------
(* Saving.                                                                 *)

Goto(from, to) == pc = from /\ pc' = to

(* A dump that differs from sv_last.  The game may have moved on since the *)
(* last attempt, or this is the same image again.                          *)
Begin ==
  /\ Goto("idle", "create")
  /\ ver' \in {ver + 1} \cup {v \in {ver} : stray = (v \in strays)}
  /\ ver' <= MaxVersion /\ ver' > 0
  /\ img' = ver'
  /\ img' # last
  /\ strays' = IF stray THEN strays \cup {img'} ELSE strays
  /\ UNCHANGED <<env, sav, tmp, written, last, done, stray, causes>>

(* Mutant: the old save is removed first.                                  *)
CreateUnlinks ==
  /\ Goto("create", "write")
  /\ tmp' = Torn
  /\ sav' = Absent
  /\ UNCHANGED <<env, written, img, last, done, played, causes>>

(* f_open with FA_CREATE_ALWAYS truncates whatever .tmp there was; when it *)
(* fails, it may already have.                                             *)
Create ==
  /\ \/ Goto("create", "write") /\ tmp' = Torn
     \/ Failing /\ Goto("create", "idle") /\ tmp' \in {tmp, Torn}
  /\ causes' = causes \cup
       (IF tmp' # tmp /\ Whole(tmp) /\ ~Readable(sav) THEN {"lone"} ELSE {})
  /\ UNCHANGED <<env, sav, written, img, last, done, played>>

(* f_write; in neosave also the second dump of each block.                 *)
Write ==
  /\ Goto("write", "sync")
  /\ written' \in {TRUE, ~Failing}
  /\ UNCHANGED <<env, sav, tmp, img, last, done, played, causes>>

(* f_sync and f_close, whose results are not looked at; then a short write *)
(* ends the attempt.                                                       *)
Sync ==
  /\ Goto("sync", IF written THEN "unlink" ELSE "idle")
  /\ tmp' \in (IF written THEN {img} ELSE {Torn}) \cup (IF Failing THEN {Torn} ELSE {})
  /\ UNCHANGED <<env, sav, written, img, last, done, played, causes>>

(* f_unlink, whose result is not looked at.                                *)
Unlink ==
  /\ Goto("unlink", "rename")
  /\ sav' \in {Absent} \cup (IF Failing THEN {sav} ELSE {})
  /\ causes' = causes
       \cup (IF sav' = Absent /\ tmp = Torn THEN {"sync"} ELSE {})
       \cup (IF sav' = Absent /\ img \in strays THEN {"stray"} ELSE {})
  /\ UNCHANGED <<env, tmp, written, img, last, done, played>>

(* f_rename refuses an existing target.  On success sv_last is updated.    *)
Rename ==
  /\ Goto("rename", "idle")
  /\ \/ /\ sav = Absent
        /\ sav' = tmp /\ tmp' = Absent
        /\ last' = img /\ done' = img
     \/ /\ sav # Absent \/ Failing
        /\ UNCHANGED <<sav, tmp, last, done>>
  /\ UNCHANGED <<env, written, img, played, causes>>

-----------------------------------------------------------------------------
LoneTmp == Whole(tmp) /\ ~Readable(sav)

(* The plug is pulled: the files stay as they are.                         *)
PowerCut ==
  /\ pc # "off"
  /\ faults # "none" \/ ~LoneTmp
  /\ pc' = "off"
  /\ UNCHANGED <<env, sav, tmp, written, img, last, done, played, causes>>

Next ==
  \/ Restore
  \/ Begin \/ Create \/ Write \/ Sync \/ Unlink \/ Rename
  \/ PowerCut

Spec == Init /\ [][Next]_vars

-----------------------------------------------------------------------------
(* What was saved or restored once, or an image built on it, can be        *)
(* restored after any cut.                                                 *)
Survives == done > 0 => Recovered >= done /\ Recovered \notin strays

(* There are three ways to lose a save: a lone .tmp, left by a cut or by a *)
(* failed rename, is truncated by the next save; f_sync failed and <path>  *)
(* was unlinked all the same; or a restore could not read what the card    *)
(* holds, and the game that was started without it was saved.              *)
LossHasThreeCauses == causes = {} => Survives

(* Between saves sv_last is what a restore would bring back, or a write    *)
(* that is needed would be skipped; as long as no call fails and no cut    *)
(* leaves a lone .tmp.                                                     *)
Careful == faults = "none" /\ saver = "pce"
LastIsOnCard == Careful /\ pc = "idle" => last = Recovered

(* pcesave never puts a torn image into the game's backup RAM.             *)
NeverRestoresTorn == saver = "pce" => last # Torn

(* Without failing calls, and without cuts that leave a lone .tmp, pcesave *)
(* is an atomic durable save.  (Nothing is claimed of the other            *)
(* behaviours, which map to a DurableSave that does nothing.)              *)
Durable == INSTANCE DurableSave WITH
  Images <- 1..MaxVersion,
  card <- IF Careful THEN Recovered ELSE 0,
  attempt <- IF Careful /\ pc \notin {"off", "idle"} THEN img ELSE 0,
  saved <- IF Careful THEN done ELSE 0
ImplementsDurable == Durable!Spec
=============================================================================
