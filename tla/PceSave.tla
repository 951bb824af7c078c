------------------------------ MODULE PceSave ------------------------------
(***************************************************************************)
(* When the PC Engine backup RAM is saved (pcesave.cpp).                   *)
(*                                                                         *)
(* The running game writes the backup RAM in the FPGA.  The FPGA announces *)
(* the first write since the last dump (0x0B) and answers requests for one *)
(* block (0x12 -> 0x0A); both arrive in order through uart1_rx_task, which *)
(* sets sv_dirty and wakes the save task, or fills sv_rx and gives         *)
(* sv_blk_sem.  pcesave_flush_now dumps the RAM and writes the file; it is *)
(* run by the save task after a quiet time and by main_task when the OSD   *)
(* opens.  main_task also switches games: it may reprogram the FPGA, names *)
(* the save file (pcesave_set_game), and restores it before the game runs. *)
(* The game goes on running while the OSD is open.                         *)
(*                                                                         *)
(* A block is worth the game that wrote it and the number of the write.    *)
(* Writing the file is one step here, with every outcome its FatFs calls   *)
(* leave behind; SaveFile has the calls, and the power cuts between them.  *)
(***************************************************************************)
EXTENDS Naturals, Sequences

CONSTANTS Games,        \* PC Engine games on the card
          NoGame,
          NoImage,      \* a file that is absent, or shorter than SV_SIZE
          Blocks,       \* SV_BLOCKS
          MaxWrites,    \* writes to the backup RAM followed
          Faults        \* which of "lost", "io", "slow" happen

ASSUME PceSaveAssumption ==
  /\ NoGame \notin Games
  /\ Blocks \in Nat \ {0}
  /\ MaxWrites \in Nat
  /\ Faults \subseteq {"lost", "io", "slow"}

VARIABLES
  core,       \* the bitstream: "pce" or "other"
  run,        \* the game running in the FPGA
  bram,       \* the backup RAM
  flag,       \* the FPGA's flag: written since block 0 was last requested
  up,         \* frames on their way to uart1_rx_task
  wr,         \* writes so far
  path,       \* sv_path, as the game it names
  last,       \* sv_last
  rx,         \* sv_rx
  rxBlk,      \* sv_rx_blk
  blkSem,     \* sv_blk_sem
  dirty,      \* sv_dirty
  notify,     \* the save task's notification
  mutex,      \* sv_mutex: its holder, or "free"
  sav,        \* <path> of each game
  tmp,        \* <path>.tmp of each game
  pc,         \* where main_task and the save task are
  blk,        \* the block each is dumping
  sel,        \* the game picked in the OSD
  dropped,    \* history: a load failed after pcesave_set_game
  lapse       \* history: the card error since which sv_last need not be what
              \* the card holds: "truncated", a failed write truncated a lone
              \* .tmp; "rename", it failed after f_unlink; "sync", f_sync or
              \* f_close failed unseen; "misread", a restore could not read

fpga == <<core, run, bram, flag, wr>>
link == <<up, rx, rxBlk, blkSem>>
file == <<path, last, sav, tmp, lapse>>
vars == <<fpga, link, file, dirty, notify, mutex, pc, blk, sel, dropped>>

Block == 0..(Blocks - 1)
NoBlock == Blocks
Blank == [g |-> NoGame, n |-> 0]
BlankRam == [b \in Block |-> Blank]
Value == [g : Games \cup {NoGame}, n : 0..MaxWrites]
Ram == [Block -> Value]
File == Ram \cup {NoImage}

ASSUME NoImageAssumption == NoImage \notin Ram

Main == "main"
Saver == "saver"
Actors == {Main, Saver}

DirtyNotice == [blk |-> NoBlock, data |-> Blank]
Reply(b, v) == [blk |-> b, data |-> v]

Flushing == {"check", "lock", "req", "await", "write", "commit"}

TypeOK ==
  /\ core \in {"pce", "other"} /\ run \in Games \cup {NoGame}
  /\ bram \in Ram /\ flag \in BOOLEAN /\ wr \in 0..MaxWrites
  /\ up \in Seq([blk : 0..Blocks, data : Value])
  /\ path \in Games \cup {NoGame} /\ last \in Ram
  /\ sav \in [Games -> File] /\ tmp \in [Games -> File]
  /\ lapse \in {"none", "truncated", "rename", "sync", "misread"}
  /\ rx \in Ram /\ rxBlk \in 0..Blocks /\ blkSem \in BOOLEAN
  /\ dirty \in BOOLEAN /\ notify \in BOOLEAN
  /\ mutex \in Actors \cup {"free"}
  /\ pc[Main] \in Flushing \cup {"play", "osd", "query", "set", "open", "load"}
  /\ pc[Saver] \in Flushing \cup {"wait", "quiet"}
  /\ blk \in [Actors -> Block]
  /\ sel \in Games \cup {NoGame} /\ dropped \in BOOLEAN

(* At power-on the monitor bitstream runs and no game was picked.          *)
Init ==
  /\ core = "other" /\ run = NoGame /\ bram = BlankRam /\ flag = FALSE /\ wr = 0
  /\ up = <<>> /\ rx = BlankRam /\ rxBlk = NoBlock /\ blkSem = FALSE
  /\ path = NoGame /\ last = BlankRam /\ lapse = "none"
  /\ sav = [g \in Games |-> NoImage] /\ tmp = [g \in Games |-> NoImage]
  /\ dirty = FALSE /\ notify = FALSE /\ mutex = "free"
  /\ pc = [p \in Actors |-> IF p = Main THEN "osd" ELSE "wait"]
  /\ blk = [p \in Actors |-> 0]
  /\ sel = NoGame /\ dropped = FALSE

Goto(p, from, to) == pc[p] = from /\ pc' = [pc EXCEPT ![p] = to]

-----------------------------------------------------------------------------
(* The FPGA and the receive task.                                          *)

(* A game writes something new, or again what was there at the last save.  *)
GameWrites ==
  /\ run # NoGame
  /\ wr < MaxWrites
  /\ wr' = wr + 1
  /\ \E b \in Block, v \in Value :
       /\ v \in {[g |-> run, n |-> wr'], last[b]}
       /\ bram' = [bram EXCEPT ![b] = v]
  /\ flag' = TRUE
  /\ up' = IF flag THEN up ELSE Append(up, DirtyNotice)
  /\ UNCHANGED <<core, run, rx, rxBlk, blkSem, file, dirty, notify, mutex, pc, blk, sel, dropped>>

(* Mutant: the save task is not woken.                                     *)
RxDirtySilent ==
  /\ up # <<>> /\ Head(up) = DirtyNotice
  /\ up' = Tail(up)
  /\ dirty' = TRUE
  /\ UNCHANGED <<fpga, rx, rxBlk, blkSem, file, notify, mutex, pc, blk, sel, dropped>>

(* pcesave_rx_dirty.                                                       *)
RxDirty ==
  /\ up # <<>> /\ Head(up) = DirtyNotice
  /\ up' = Tail(up)
  /\ dirty' = TRUE
  /\ notify' = TRUE
  /\ UNCHANGED <<fpga, rx, rxBlk, blkSem, file, mutex, pc, blk, sel, dropped>>

(* pcesave_rx_byte for a whole block, and pcesave_rx_block_done.           *)
RxBlock ==
  /\ up # <<>> /\ Head(up).blk \in Block
  /\ up' = Tail(up)
  /\ rx' = [rx EXCEPT ![Head(up).blk] = Head(up).data]
  /\ rxBlk' = Head(up).blk
  /\ blkSem' = TRUE
  /\ UNCHANGED <<fpga, file, dirty, notify, mutex, pc, blk, sel, dropped>>

(* A block that never becomes complete in uart1_rx_task.                   *)
LoseBlock ==
  /\ "lost" \in Faults
  /\ up # <<>> /\ Head(up).blk \in Block
  /\ up' = Tail(up)
  /\ UNCHANGED <<fpga, rx, rxBlk, blkSem, file, dirty, notify, mutex, pc, blk, sel, dropped>>

-----------------------------------------------------------------------------
(* pcesave_flush_now, by main_task or by the save task.                    *)

Caller(p) == IF p = Main THEN "osd" ELSE "wait"

(* sv_path and sv_dirty are looked at before the mutex is taken.           *)
FlushCheck(p) ==
  /\ Goto(p, "check", IF path # NoGame /\ dirty THEN "lock" ELSE Caller(p))
  /\ UNCHANGED <<fpga, link, file, dirty, notify, mutex, blk, sel, dropped>>

FlushLock(p) ==
  /\ Goto(p, "lock", "req")
  /\ mutex = "free"
  /\ mutex' = p
  /\ dirty' = FALSE
  /\ blk' = [blk EXCEPT ![p] = 0]
  /\ UNCHANGED <<fpga, link, file, notify, sel, dropped>>

(* 3000 ms without the mutex: the holder is slow.                          *)
FlushLockTimesOut(p) ==
  /\ "slow" \in Faults
  /\ Goto(p, "lock", Caller(p))
  /\ mutex # "free"
  /\ UNCHANGED <<fpga, link, file, dirty, notify, mutex, blk, sel, dropped>>

(* Drop a stale give, request the block.  A PC Engine core answers, and    *)
(* clears its flag on block 0; another core does not.                      *)
Request(p) ==
  /\ Goto(p, "req", "await")
  /\ blkSem' = FALSE
  /\ IF core = "pce"
       THEN /\ up' = Append(up, Reply(blk[p], bram[blk[p]]))
            /\ flag' = IF blk[p] = 0 THEN FALSE ELSE flag
       ELSE UNCHANGED <<up, flag>>
  /\ UNCHANGED <<core, run, bram, wr, rx, rxBlk, file, dirty, notify, mutex, blk, sel, dropped>>

Fail(p) ==
  /\ dirty' = TRUE
  /\ mutex' = "free"
  /\ pc' = [pc EXCEPT ![p] = Caller(p)]

(* sv_blk_sem was given: the next block, the end of the dump, or another   *)
(* block than the one asked for.                                           *)
Received(p) ==
  /\ pc[p] = "await"
  /\ blkSem
  /\ blkSem' = FALSE
  /\ IF rxBlk # blk[p] THEN Fail(p) /\ UNCHANGED blk
     ELSE IF blk[p] + 1 \in Block
       THEN /\ Goto(p, "await", "req")
            /\ blk' = [blk EXCEPT ![p] = @ + 1]
            /\ UNCHANGED <<dirty, mutex>>
       ELSE Goto(p, "await", "write") /\ UNCHANGED <<dirty, mutex, blk>>
  /\ UNCHANGED <<fpga, up, rx, rxBlk, file, notify, sel, dropped>>

(* 1000 ms, and no answer is on its way: it was lost, or there is none.    *)
ReplyTimesOut(p) ==
  /\ pc[p] = "await"
  /\ ~blkSem
  /\ up = <<>>
  /\ Fail(p)
  /\ UNCHANGED <<fpga, link, file, notify, blk, sel, dropped>>

CardErrors == "io" \in Faults

(* memcmp, then sv_write_file to whatever sv_path names.  The results of   *)
(* f_sync and f_close are not looked at.                                   *)
WriteSave(p) ==
  /\ pc[p] = "write"
  /\ rx # last
  /\ Goto(p, "write", "commit")
  /\ \/ sav' = [sav EXCEPT ![path] = rx] /\ lapse' = "none"
     \/ CardErrors /\ sav' = [sav EXCEPT ![path] = NoImage] /\ lapse' = "sync"
  /\ tmp' = [tmp EXCEPT ![path] = NoImage]
  /\ UNCHANGED <<fpga, link, path, last, dirty, notify, mutex, blk, sel, dropped>>

(* Mutant: the result of sv_write_file is not looked at.                   *)
WriteFailsUnseen(p) ==
  /\ "io" \in Faults
  /\ rx # last
  /\ Goto(p, "write", "commit")
  /\ UNCHANGED <<fpga, link, file, dirty, notify, mutex, blk, sel, dropped>>

(* The .tmp cannot be created, though it may have been truncated, or is    *)
(* short: sv_dirty again, and "retry".                                     *)
WriteFails(p) ==
  /\ CardErrors
  /\ pc[p] = "write"
  /\ rx # last
  /\ Fail(p)
  /\ tmp' \in {tmp, [tmp EXCEPT ![path] = NoImage]}
  /\ lapse' = IF tmp' # tmp /\ sav[path] = NoImage THEN "truncated" ELSE lapse
  /\ UNCHANGED <<fpga, link, path, last, sav, notify, blk, sel, dropped>>

(* f_rename fails: f_unlink, whose result is not looked at, did too and    *)
(* <path> is in the way, or what was saved is left in the .tmp.            *)
RenameFails(p) ==
  /\ CardErrors
  /\ pc[p] = "write"
  /\ rx # last
  /\ Fail(p)
  /\ sav' \in {sav, [sav EXCEPT ![path] = NoImage]}
  /\ \E f \in {rx, NoImage} : tmp' = [tmp EXCEPT ![path] = f]
  /\ lapse' = IF sav'[path] = NoImage THEN "rename" ELSE lapse
  /\ UNCHANGED <<fpga, link, path, last, notify, blk, sel, dropped>>

(* Unchanged: no write.                                                    *)
SkipWrite(p) ==
  /\ Goto(p, "write", Caller(p))
  /\ rx = last
  /\ mutex' = "free"
  /\ UNCHANGED <<fpga, link, file, dirty, notify, blk, sel, dropped>>

(* Mutant: sv_dirty is cleared after the dump instead of before it.        *)
CommitClears(p) ==
  /\ Goto(p, "commit", Caller(p))
  /\ last' = rx
  /\ dirty' = FALSE
  /\ mutex' = "free"
  /\ UNCHANGED <<fpga, link, path, sav, tmp, lapse, notify, blk, sel, dropped>>

(* memcpy of sv_rx to sv_last.                                             *)
Commit(p) ==
  /\ Goto(p, "commit", Caller(p))
  /\ last' = rx
  /\ mutex' = "free"
  /\ UNCHANGED <<fpga, link, path, sav, tmp, lapse, dirty, notify, blk, sel, dropped>>

FlushStep(p) ==
  \/ FlushCheck(p) \/ FlushLock(p) \/ FlushLockTimesOut(p)
  \/ Request(p) \/ Received(p) \/ ReplyTimesOut(p)
  \/ WriteSave(p) \/ WriteFails(p) \/ RenameFails(p) \/ SkipWrite(p) \/ Commit(p)

-----------------------------------------------------------------------------
(* The save task.                                                          *)

SaverWakes ==
  /\ Goto(Saver, "wait", "quiet")
  /\ notify
  /\ notify' = FALSE
  /\ UNCHANGED <<fpga, link, file, dirty, mutex, blk, sel, dropped>>

(* Another notice within 2 s starts the wait again.                        *)
SaverDebounces ==
  /\ pc[Saver] = "quiet"
  /\ notify
  /\ notify' = FALSE
  /\ UNCHANGED <<fpga, link, file, dirty, mutex, pc, blk, sel, dropped>>

SaverFlushes ==
  /\ Goto(Saver, "quiet", "check")
  /\ ~notify
  /\ UNCHANGED <<fpga, link, file, dirty, notify, mutex, blk, sel, dropped>>

-----------------------------------------------------------------------------
(* main_task: the OSD and the game switch.                                 *)

(* send_hid_to_core ends and flushes.                                      *)
OpenOsd ==
  /\ Goto(Main, "play", "check")
  /\ UNCHANGED <<fpga, link, file, dirty, notify, mutex, blk, sel, dropped>>

CloseOsd ==
  /\ Goto(Main, "osd", "play")
  /\ UNCHANGED <<fpga, link, file, dirty, notify, mutex, blk, sel, dropped>>

(* fpga_program: a fresh core, and a blank backup RAM.                     *)
Program(c) ==
  /\ core' = c
  /\ run' = NoGame
  /\ bram' = BlankRam
  /\ flag' = FALSE

(* A core from the cores directory, or a game of another system.           *)
PickCore(c) ==
  /\ pc[Main] = "osd"
  /\ Program(c)
  /\ UNCHANGED <<wr, link, file, dirty, notify, mutex, pc, blk, sel, dropped>>

(* menu_loadrom: a .pce or .chd; program the core unless it is loaded.     *)
PickGame(g) ==
  /\ Goto(Main, "osd", "query")
  /\ sel' = g
  /\ IF core = "pce" THEN UNCHANGED <<core, run, bram, flag>> ELSE Program("pce")
  /\ UNCHANGED <<wr, link, file, dirty, notify, mutex, blk, dropped>>

(* The answer to get_core_id comes after every earlier frame.              *)
CoreAnswers ==
  /\ Goto(Main, "query", "set")
  /\ up = <<>>
  /\ UNCHANGED <<fpga, link, file, dirty, notify, mutex, blk, sel, dropped>>

(* pcesave_set_game, called by main_task: its ulTaskNotifyTake looks at    *)
(* the notification of main_task, not at the save task's.                  *)
SetGame ==
  /\ Goto(Main, "set", "open")
  /\ mutex = "free"
  /\ path' = sel
  /\ dirty' = FALSE
  /\ UNCHANGED <<fpga, link, last, sav, tmp, lapse, notify, mutex, blk, sel, dropped>>

(* The image cannot be opened: the old game runs on.                       *)
OpenFails ==
  /\ Goto(Main, "open", "osd")
  /\ dropped' = TRUE
  /\ UNCHANGED <<fpga, link, file, dirty, notify, mutex, blk, sel>>

(* set_loading_state(1) holds the core; the image is sent.                 *)
StartLoading ==
  /\ Goto(Main, "open", "load")
  /\ run' = NoGame
  /\ flag' = FALSE
  /\ UNCHANGED <<core, bram, wr, link, file, dirty, notify, mutex, blk, sel, dropped>>

(* What a restore reads: <path>, else a lone .tmp, else the blank image.   *)
(* When a call fails it goes on with the next of them.                     *)
Held(g) ==
  IF sav[g] # NoImage THEN sav[g] ELSE IF tmp[g] # NoImage THEN tmp[g] ELSE BlankRam
Restorable(g) ==
  {Held(g)} \cup IF CardErrors THEN {BlankRam} \cup ({tmp[g]} \ {NoImage}) ELSE {}

(* Mutant: sv_last keeps the image of the game before.                     *)
RestoreKeepsLast ==
  /\ Goto(Main, "load", "play")
  /\ mutex = "free"
  /\ bram' \in Restorable(path)
  /\ lapse' = IF bram' = Held(path) THEN "none" ELSE "misread"
  /\ run' = sel
  /\ dropped' = FALSE
  /\ UNCHANGED <<core, flag, wr, link, path, last, sav, tmp, dirty, notify, mutex, blk, sel>>

(* pcesave_restore, then the core starts.                                  *)
RestoreAndStart ==
  /\ Goto(Main, "load", "play")
  /\ mutex = "free"
  /\ last' \in Restorable(path)
  /\ bram' = last'
  /\ lapse' = IF last' = Held(path) THEN "none" ELSE "misread"
  /\ run' = sel
  /\ dropped' = FALSE
  /\ UNCHANGED <<core, flag, wr, link, path, sav, tmp, dirty, notify, mutex, blk, sel>>

-----------------------------------------------------------------------------
FpgaStep == GameWrites
RxStep == RxDirty \/ RxBlock \/ LoseBlock
SaverStep == SaverWakes \/ SaverDebounces \/ SaverFlushes \/ FlushStep(Saver)
MainStep ==
  \/ OpenOsd \/ CloseOsd
  \/ \E c \in {"pce", "other"} : PickCore(c)
  \/ \E g \in Games : PickGame(g)
  \/ CoreAnswers \/ SetGame \/ OpenFails \/ StartLoading \/ RestoreAndStart
  \/ FlushStep(Main)

Next == FpgaStep \/ RxStep \/ SaverStep \/ MainStep

Spec == Init /\ [][Next]_vars

(* The receive task and the save task run whenever they can, and a flush   *)
(* by main_task goes on.  Nobody has to open the OSD or to pick anything.  *)
Fairness == WF_vars(RxStep) /\ WF_vars(SaverStep) /\ WF_vars(FlushStep(Main))

FairSpec == Spec /\ Fairness

-----------------------------------------------------------------------------
(* The running game is the one the save file is named for, and it was      *)
(* loaded with its save.                                                   *)
Settled ==
  /\ run # NoGame /\ run = path
  /\ pc[Main] \notin {"open", "load"}
  /\ ~dropped

NoticeInFlight == \E i \in 1..Len(up) : up[i] = DirtyNotice

(* "Clear BEFORE the dump": what the game wrote and the card lacks is      *)
(* always still announced -- in sv_dirty, in a notice on its way, or in a  *)
(* dump that has not ended -- wherever in a dump the write lands, and      *)
(* whatever replies are lost.                                              *)
PendingWhenStale ==
  Settled /\ mutex = "free" /\ bram # last => dirty \/ NoticeInFlight

(* sv_last is "what the SD card holds", so a flush that skips the write    *)
(* skips none that the card lacks; until one of four card errors: a write  *)
(* that failed after it truncated or unlinked what a restore would read,   *)
(* an f_sync that failed unseen, or a restore that could not read.         *)
LastIsOnCard ==
  Settled /\ mutex = "free" /\ lapse = "none" => last = Held(path)

(* Saved without opening the OSD: with a working link and card what a game *)
(* wrote gets to the card, unless the game is switched.                    *)
OnCard == Settled /\ bram = Held(path)
SavedEventually == Settled /\ ~OnCard ~> OnCard \/ ~Settled

(* "WHEN WE NEVER SAVE: during a game switch": a save file only ever holds *)
(* what its own game wrote.                                                *)
SavesBelong == \A g \in Games, b \in Block : Held(g)[b].g \in {g, NoGame}
=============================================================================
