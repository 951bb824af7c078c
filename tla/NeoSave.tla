------------------------------ MODULE NeoSave ------------------------------
(***************************************************************************)
(* When the Neo Geo backup RAM is saved (neosave.cpp).                     *)
(*                                                                         *)
(* As in PceSave the FPGA announces writes and answers requests for a      *)
(* block, and the save task and main_task flush.  What differs: there is   *)
(* room for one block only, so a flush makes two passes -- the first       *)
(* compares every block with ns_sum, the second asks for all of them again *)
(* and writes them one by one into the .tmp file -- and a load first       *)
(* sends the ROM regions and only then names and restores the save.        *)
(* menu_loadrom calls neosave_settle before the file chooser opens.        *)
(*                                                                         *)
(* A block is worth the game that wrote it and the number of the write;    *)
(* its checksum is that value.  A file is the sequence of its blocks; a    *)
(* restore fills what is missing with zeros, so a tail that never reached  *)
(* the card is Blank, and an empty .tmp is like none.  This is the cart's  *)
(* layout, whose first block clears the FPGA's flag.  neosave_flush_async  *)
(* has no caller, so ns_flush_req is never set and is left out.            *)
(***************************************************************************)
EXTENDS Naturals, Sequences

CONSTANTS Games,        \* Neo Geo games on the card
          NoGame,
          Mixed,        \* a program that a load failing half-way left in pieces
          Blocks,       \* ns_count
          MaxWrites,    \* writes to the backup RAM followed
          MaxFaults     \* answers lost, card errors and mutex timeouts followed

ASSUME NeoSaveAssumption ==
  /\ NoGame \notin Games /\ Mixed \notin Games /\ NoGame # Mixed
  /\ Blocks \in Nat \ {0}
  /\ MaxWrites \in Nat
  /\ MaxFaults \in Nat

VARIABLES
  core,       \* the bitstream: "neo" or "other"
  run,        \* the program running in the FPGA
  bram,       \* the backup RAM
  flag,       \* the FPGA's flag: written since block 0 was last requested
  wr,         \* writes so far
  up,         \* frames on their way to uart1_rx_task
  rx,         \* ns_rx
  rxBlk,      \* ns_rx_blk
  blkSem,     \* ns_blk_sem
  on,         \* ns_on
  path,       \* ns_path, as the game it names
  sum,        \* ns_sum
  dirty,      \* ns_dirty
  notify,     \* the save task's notification
  mutex,      \* ns_mutex: its holder, or "free"
  sav, tmp,   \* the two files of each game
  lapse,      \* history: why ns_sum may not be of what a restore would read
  strayed,    \* history: games whose RAM and path another game's program got
  pc,         \* where main_task and the save task are
  blk,        \* i, in the flush under way
  changed,    \* changed, in the flush under way
  sel,        \* the game picked in the OSD
  menu,       \* the menu send_hid_to_core was called from: "osd" or "choose"
  wiped,      \* history: the FPGA was programmed after the last restore
  faults,     \* history: lost answers, card errors and mutex timeouts
  failed,     \* history: a flush gave up after the OSD opened
  seen        \* history: the writes announced when the OSD last opened

fpga == <<core, run, bram, flag, wr>>
rxVars == <<rx, rxBlk, blkSem>>
game == <<on, path, sum>>
files == <<sav, tmp, lapse, strayed>>
flush == <<blk, changed>>
history == <<wiped, faults, failed, seen>>
chosen == <<sel, menu>>
vars == <<fpga, up, rxVars, game, files, dirty, notify, mutex, pc, flush, chosen, history>>

Block == 0..(Blocks - 1)
NoBlock == Blocks
Blank == [g |-> NoGame, n |-> 0]
BlankRam == [b \in Block |-> Blank]
Value == [g : Games \cup {NoGame, Mixed}, n : 0..MaxWrites]
Ram == [Block -> Value]
NoFile == <<>>
File == UNION {[1..n -> Value] : n \in 0..Blocks}

(* The blocks read back from a file; a short file is filled with zeros.    *)
Contents(f) == [b \in Block |-> IF b < Len(f) THEN f[b + 1] ELSE Blank]

(* A file of which f_sync or f_close lost the end.                         *)
Cuts(f) == {[i \in 1..Len(f) |-> IF i <= n THEN f[i] ELSE Blank] : n \in 0..Len(f)}

(* neosave_restore: the .sav, else the .tmp, else blank.  When f_open      *)
(* fails it goes on with the next of them, when f_read fails with zeros.   *)
Restorable(g) == Contents(IF sav[g] # NoFile THEN sav[g] ELSE tmp[g])
Misreads(g) ==
  {[b \in Block |-> IF b \in lost THEN Blank ELSE Contents(f)[b]] :
     f \in {sav[g], tmp[g]}, lost \in SUBSET Block}

(* What came between ns_sum and the card: nothing; a flush that emptied a  *)
(* .tmp which was the only copy; f_unlink without f_rename; a failure of   *)
(* f_sync or f_close, which nobody looks at; a failed read.                *)
Lapses == {"none", "lone", "rename", "sync", "misread"}

Main == "main"
Saver == "saver"
Actors == {Main, Saver}

DirtyNotice == [blk |-> NoBlock, data |-> Blank]
Reply(b, v) == [blk |-> b, data |-> v]
NoticeInFlight == \E i \in 1..Len(up) : up[i] = DirtyNotice

Flushing == {"lock", "compare", "compared", "create", "copy", "copied", "rename"}

TypeOK ==
  /\ core \in {"neo", "other"} /\ run \in Games \cup {NoGame, Mixed}
  /\ bram \in Ram /\ flag \in BOOLEAN /\ wr \in 0..MaxWrites
  /\ up \in Seq([blk : 0..Blocks, data : Value])
  /\ rx \in Value /\ rxBlk \in 0..Blocks /\ blkSem \in BOOLEAN
  /\ on \in BOOLEAN /\ path \in Games \cup {NoGame} /\ sum \in Ram
  /\ dirty \in BOOLEAN /\ notify \in BOOLEAN
  /\ mutex \in Actors \cup {"free"}
  /\ sav \in [Games -> File] /\ tmp \in [Games -> File]
  /\ lapse \in Lapses /\ strayed \subseteq Games
  /\ pc[Main] \in Flushing \cup
       {"play", "osd", "choose", "query", "stream", "restore", "start", "off"}
  /\ pc[Saver] \in Flushing \cup {"wait", "quiet"}
  /\ blk \in Block /\ changed \in BOOLEAN
  /\ sel \in Games \cup {NoGame} /\ menu \in {"osd", "choose"}
  /\ wiped \in BOOLEAN /\ faults \in 0..MaxFaults /\ failed \in BOOLEAN /\ seen \in 0..MaxWrites

(* At power-on the monitor bitstream runs and no game was picked.          *)
Init ==
  /\ core = "other" /\ run = NoGame /\ bram = BlankRam /\ flag = FALSE /\ wr = 0
  /\ up = <<>> /\ rx = Blank /\ rxBlk = NoBlock /\ blkSem = FALSE
  /\ on = FALSE /\ path = NoGame /\ sum = BlankRam
  /\ dirty = FALSE /\ notify = FALSE /\ mutex = "free"
  /\ sav = [g \in Games |-> NoFile] /\ tmp = [g \in Games |-> NoFile]
  /\ lapse = "none" /\ strayed = {}
  /\ pc = [p \in Actors |-> IF p = Main THEN "osd" ELSE "wait"]
  /\ blk = 0 /\ changed = FALSE /\ sel = NoGame /\ menu = "osd"
  /\ wiped = FALSE /\ faults = 0 /\ failed = FALSE /\ seen = 0

(* Something goes wrong that is not the code's doing.                      *)
Fault == faults < MaxFaults /\ faults' = faults + 1

(* xSemaphoreTake of ns_blk_sem.  ns_rx and ns_rx_blk are not looked at    *)
(* again before the next give, so the model forgets them.                  *)
TakeBlock == blkSem' = FALSE /\ rx' = Blank /\ rxBlk' = NoBlock

Goto(p, from, to) == pc[p] = from /\ pc' = [pc EXCEPT ![p] = to]

-----------------------------------------------------------------------------
(* The FPGA and the receive task.                                          *)

GameWrites ==
  /\ run # NoGame
  /\ wr < MaxWrites
  /\ wr' = wr + 1
  /\ \E b \in Block : bram' = [bram EXCEPT ![b] = [g |-> run, n |-> wr']]
  /\ flag' = TRUE
  /\ up' = IF flag THEN up ELSE Append(up, DirtyNotice)
  /\ UNCHANGED <<core, run, rxVars, game, files, dirty, notify, mutex, pc, flush, chosen, history>>

(* pcesave_rx_dirty passes the notice on while neosave_active(), else it   *)
(* is the PC Engine saver's; either way the shared save task is woken.     *)
RxDirty ==
  /\ up # <<>> /\ Head(up) = DirtyNotice
  /\ up' = Tail(up)
  /\ dirty' = (dirty \/ on)
  /\ notify' = TRUE
  /\ UNCHANGED <<fpga, rxVars, game, files, mutex, pc, flush, chosen, history>>

(* pcesave_rx_byte and pcesave_rx_block_done, likewise.                    *)
RxBlock ==
  /\ up # <<>> /\ Head(up).blk \in Block
  /\ up' = Tail(up)
  /\ IF on
       THEN rx' = Head(up).data /\ rxBlk' = Head(up).blk /\ blkSem' = TRUE
       ELSE UNCHANGED rxVars
  /\ UNCHANGED <<fpga, game, files, dirty, notify, mutex, pc, flush, chosen, history>>

(* A block that never becomes complete in uart1_rx_task.                   *)
LoseBlock ==
  /\ Fault
  /\ up # <<>> /\ Head(up).blk \in Block
  /\ up' = Tail(up)
  /\ UNCHANGED <<fpga, rxVars, game, files, dirty, notify, mutex, pc, flush, chosen>>
  /\ UNCHANGED <<wiped, failed, seen>>

-----------------------------------------------------------------------------
(* neosave_flush_now, by main_task or by the save task.                    *)

Caller(p) == IF p = Main THEN menu ELSE "wait"

(* ns_on and ns_dirty are looked at before the mutex is taken.             *)
StartFlush(p, from) == Goto(p, from, IF on /\ dirty THEN "lock" ELSE Caller(p))

FlushLock(p) ==
  /\ Goto(p, "lock", "compare")
  /\ mutex = "free"
  /\ mutex' = p
  /\ dirty' = FALSE
  /\ blk' = 0 /\ changed' = FALSE
  /\ UNCHANGED <<fpga, up, rxVars, game, files, notify, chosen, history>>

(* 3000 ms without the mutex: the holder is slow.                          *)
FlushLockTimesOut(p) ==
  /\ Fault
  /\ Goto(p, "lock", Caller(p))
  /\ mutex # "free"
  /\ failed' = TRUE
  /\ UNCHANGED <<fpga, up, rxVars, game, files, dirty, notify, mutex, flush, chosen, wiped, seen>>

(* One request, and the answer of a core that has the save channel.        *)
AskFor(p, from, to) ==
  /\ Goto(p, from, to)
  /\ IF core = "neo"
       THEN /\ up' = Append(up, Reply(blk, bram[blk]))
            /\ flag' = (flag /\ blk # 0)
       ELSE UNCHANGED <<up, flag>>

(* ns_fetch_block: drop a stale give, request the block.  A Neo Geo core   *)
(* answers, and clears its flag on block 0; another core does not.         *)
Fetch(p) ==
  /\ AskFor(p, "compare", "compared") \/ AskFor(p, "copy", "copied")
  /\ TakeBlock
  /\ UNCHANGED <<core, run, bram, wr, game, files, dirty, notify, mutex, flush,
                 chosen, history>>

(* ok is false at the end: ns_dirty again, and "try again next time".      *)
Fail(p) ==
  /\ dirty' = TRUE
  /\ mutex' = "free"
  /\ pc' = [pc EXCEPT ![p] = Caller(p)]
  /\ blk' = 0 /\ changed' = FALSE
  /\ failed' = TRUE

(* The next block in a pass, or the next stage.                            *)
Advance(p, again, done) ==
  /\ pc' = [pc EXCEPT ![p] = IF blk + 1 \in Block THEN again ELSE done]
  /\ blk' = IF blk + 1 \in Block THEN blk + 1 ELSE 0

(* First pass: the block is compared with the file's.                      *)
Compare(p) ==
  /\ pc[p] = "compared"
  /\ blkSem /\ rxBlk = blk
  /\ TakeBlock
  /\ changed' = (changed \/ rx # sum[blk])
  /\ Advance(p, "compare", "create")
  /\ UNCHANGED <<fpga, up, game, files, dirty, notify, mutex, chosen, history>>

(* Nothing changed: no write.                                              *)
SkipWrite(p) ==
  /\ Goto(p, "create", Caller(p))
  /\ ~changed
  /\ mutex' = "free"
  /\ UNCHANGED <<fpga, up, rxVars, game, files, dirty, notify, flush, chosen, history>>

(* f_open with FA_CREATE_ALWAYS.                                           *)
CreateTmp(p) ==
  /\ Goto(p, "create", "copy")
  /\ changed
  /\ changed' = FALSE
  /\ tmp' = [tmp EXCEPT ![path] = NoFile]
  /\ lapse' = IF sav[path] = NoFile THEN "lone" ELSE lapse
  /\ UNCHANGED <<fpga, up, rxVars, game, sav, strayed, dirty, notify, mutex, blk, chosen, history>>

(* Mutant: ns_sum is brought up to date block by block.                    *)
CopySums(p) ==
  /\ pc[p] = "copied"
  /\ blkSem /\ rxBlk = blk
  /\ TakeBlock
  /\ tmp' = [tmp EXCEPT ![path] = Append(@, rx)]
  /\ sum' = [sum EXCEPT ![blk] = rx]
  /\ Advance(p, "copy", "rename")
  /\ UNCHANGED <<fpga, up, on, path, sav, lapse, strayed, dirty, notify, mutex, changed>>
  /\ UNCHANGED <<chosen, history>>

(* Second pass: the block is asked for again and written.                  *)
Copy(p) ==
  /\ pc[p] = "copied"
  /\ blkSem /\ rxBlk = blk
  /\ TakeBlock
  /\ tmp' = [tmp EXCEPT ![path] = Append(@, rx)]
  /\ Advance(p, "copy", "rename")
  /\ UNCHANGED <<fpga, up, game, sav, lapse, strayed, dirty, notify, mutex, changed, chosen, history>>

(* f_unlink, f_rename, and ns_sum of the blocks as they were written.      *)
Renamed(p) ==
  /\ Goto(p, "rename", Caller(p))
  /\ tmp' = [tmp EXCEPT ![path] = NoFile]
  /\ sum' = Contents(tmp[path])
  /\ mutex' = "free"
  /\ UNCHANGED <<fpga, up, rxVars, on, path, strayed, notify, flush, chosen, wiped, failed, seen>>

(* Mutant: ns_dirty is cleared after the dump instead of before it.        *)
RenameClears(p) ==
  /\ Renamed(p)
  /\ sav' = [sav EXCEPT ![path] = tmp[path]]
  /\ lapse' = "none"
  /\ dirty' = FALSE
  /\ UNCHANGED faults

Rename(p) ==
  /\ Renamed(p)
  /\ sav' = [sav EXCEPT ![path] = tmp[path]]
  /\ lapse' = "none"
  /\ UNCHANGED <<dirty, faults>>

(* The results of f_sync and f_close are not looked at: the file that is   *)
(* renamed may lack its end.                                               *)
RenameUnsynced(p) ==
  /\ Fault
  /\ Renamed(p)
  /\ \E f \in Cuts(tmp[path]) \ {tmp[path]} : sav' = [sav EXCEPT ![path] = f]
  /\ lapse' = "sync"
  /\ UNCHANGED dirty

(* Mutant: in the second pass a missing block ends the loop, not the save. *)
FetchFailsUnseen(p) ==
  /\ pc[p] \in {"compared", "copied"}
  /\ IF blkSem THEN rxBlk # blk ELSE up = <<>>
  /\ TakeBlock
  /\ pc' = [pc EXCEPT ![p] = IF @ = "copied" THEN "rename" ELSE "create"]
  /\ UNCHANGED <<fpga, up, game, files, dirty, notify, mutex, flush, chosen, history>>

(* Another block than the one asked for; or 1000 ms and no answer on its   *)
(* way, lost or never sent.                                                *)
FetchFails(p) ==
  /\ pc[p] \in {"compared", "copied"}
  /\ IF blkSem THEN rxBlk # blk ELSE up = <<>>
  /\ TakeBlock
  /\ Fail(p)
  /\ UNCHANGED <<fpga, up, game, files, notify, chosen, wiped, faults, seen>>

(* The .tmp cannot be created, whether or not it was emptied, or a block   *)
(* cannot be written; what was written stays, if f_sync and f_close do.    *)
WriteFails(p) ==
  /\ Fault
  /\ \/ /\ pc[p] = "create" /\ changed
        /\ tmp' \in {tmp, [tmp EXCEPT ![path] = NoFile]}
        /\ lapse' = IF sav[path] = NoFile /\ tmp' # tmp THEN "lone" ELSE lapse
     \/ /\ pc[p] = "copied" /\ blkSem
        /\ \E f \in Cuts(tmp[path]) : tmp' = [tmp EXCEPT ![path] = f]
        /\ UNCHANGED lapse
  /\ Fail(p)
  /\ TakeBlock
  /\ UNCHANGED <<fpga, up, game, sav, strayed, notify, chosen, wiped, seen>>

(* f_rename fails; f_unlink, f_sync and f_close may have failed before it.  *)
RenameFails(p) ==
  /\ Fault
  /\ pc[p] = "rename"
  /\ sav' \in {sav, [sav EXCEPT ![path] = NoFile]}
  /\ \E f \in Cuts(tmp[path]) : tmp' = [tmp EXCEPT ![path] = f]
  /\ lapse' = IF sav'[path] # NoFile THEN lapse ELSE IF tmp' # tmp THEN "sync" ELSE "rename"
  /\ Fail(p)
  /\ UNCHANGED <<fpga, up, rxVars, game, strayed, notify, chosen, wiped, seen>>

FlushStep(p) ==
  \/ FlushLock(p) \/ FlushLockTimesOut(p)
  \/ Fetch(p) \/ Compare(p) \/ FetchFails(p)
  \/ SkipWrite(p) \/ CreateTmp(p) \/ Copy(p) \/ Rename(p)
  \/ RenameUnsynced(p) \/ WriteFails(p) \/ RenameFails(p)

-----------------------------------------------------------------------------
(* pcesave_task, which flushes whichever saver owns the channel.           *)

SaverWakes ==
  /\ Goto(Saver, "wait", "quiet")
  /\ notify
  /\ notify' = FALSE
  /\ UNCHANGED <<fpga, up, rxVars, game, files, dirty, mutex, flush, chosen, history>>

SaverDebounces ==
  /\ pc[Saver] = "quiet"
  /\ notify
  /\ notify' = FALSE
  /\ UNCHANGED <<fpga, up, rxVars, game, files, dirty, mutex, pc, flush, chosen, history>>

SaverFlushes ==
  /\ StartFlush(Saver, "quiet")
  /\ ~notify
  /\ UNCHANGED <<fpga, up, rxVars, game, files, dirty, notify, mutex, flush, chosen, history>>

-----------------------------------------------------------------------------
(* main_task: the OSD, the file chooser and the load.                      *)

(* send_hid_to_core ends and flushes.                                      *)
OpenOsd ==
  /\ StartFlush(Main, "play")
  /\ seen' = IF NoticeInFlight THEN 0 ELSE wr
  /\ failed' = FALSE
  /\ UNCHANGED <<fpga, up, rxVars, game, files, dirty, notify, mutex, flush, chosen, wiped, faults>>

(* The OSD key, in a menu or in the file chooser: joy_choice runs           *)
(* send_hid_to_core, which returns to where it was called.                 *)
CloseOsd ==
  /\ pc[Main] \in {"osd", "choose"}
  /\ pc' = [pc EXCEPT ![Main] = "play"]
  /\ menu' = pc[Main]
  /\ seen' = 0
  /\ UNCHANGED <<fpga, up, rxVars, game, files, dirty, notify, mutex, flush, sel>>
  /\ UNCHANGED <<wiped, faults, failed>>

(* Mutant: a flush in progress is not waited for.                          *)
SettleAtOnce ==
  /\ Goto(Main, "osd", "choose")
  /\ UNCHANGED <<fpga, up, rxVars, game, files, dirty, notify, mutex, flush, chosen, history>>

(* menu_loadrom and neosave_settle: ns_flush_req is never set, so nothing  *)
(* owed is written here; a running flush is waited for.                    *)
Settle ==
  /\ Goto(Main, "osd", "choose")
  /\ mutex = "free"
  /\ UNCHANGED <<fpga, up, rxVars, game, files, dirty, notify, mutex, flush, chosen, history>>

ChooseNothing ==
  /\ Goto(Main, "choose", "osd")
  /\ menu' = "osd"
  /\ UNCHANGED <<fpga, up, rxVars, game, files, dirty, notify, mutex, flush, sel, history>>

(* fpga_program: a fresh core, and a blank backup RAM.                     *)
Program(c) ==
  /\ core' = c
  /\ run' = NoGame
  /\ bram' = BlankRam
  /\ flag' = FALSE
  /\ wiped' = TRUE

(* A core from the cores directory, or a game of a system without saves.   *)
PickCore(c) ==
  /\ Goto(Main, "choose", "osd")
  /\ Program(c)
  /\ menu' = "osd"
  /\ UNCHANGED <<wr, up, rxVars, game, files, dirty, notify, mutex, flush, sel, faults, failed, seen>>

(* A PC Engine game: another core is programmed, then pcesave_set_game.    *)
PickPce ==
  /\ Goto(Main, "choose", "off")
  /\ Program("other")
  /\ menu' = "osd"
  /\ UNCHANGED <<wr, up, rxVars, game, files, dirty, notify, mutex, flush, sel, faults, failed, seen>>

(* neosave_off takes no mutex.                                             *)
Off ==
  /\ Goto(Main, "off", "osd")
  /\ on' = FALSE
  /\ dirty' = FALSE
  /\ UNCHANGED <<fpga, up, rxVars, path, sum, files, notify, mutex, flush, chosen, history>>

PickGame(g) ==
  /\ Goto(Main, "choose", "query")
  /\ sel' = g /\ menu' = menu
  /\ IF core = "neo" THEN UNCHANGED <<core, run, bram, flag, wiped>> ELSE Program("neo")
  /\ UNCHANGED <<wr, up, rxVars, game, files, dirty, notify, mutex, flush, faults, failed, seen>>

(* loadneogeo: the file or its header is not right; nothing was touched.   *)
OpenFails ==
  /\ Goto(Main, "query", "osd")
  /\ sel' = NoGame /\ menu' = "osd"
  /\ UNCHANGED <<fpga, up, rxVars, game, files, dirty, notify, mutex, flush, history>>

(* The answer to get_core_id came after every earlier frame.               *)
(* set_loading_state(1) holds the core; BIOS and ROM regions are sent.     *)
StartLoading ==
  /\ Goto(Main, "query", "stream")
  /\ up = <<>>
  /\ run' = NoGame
  /\ flag' = FALSE
  /\ UNCHANGED <<core, bram, wr, up, rxVars, game, files, dirty, notify, mutex, flush, chosen, history>>

(* loadneogeo_end after a read failure: set_loading_state(0) starts the    *)
(* core on whatever was sent, perhaps enough of the new game to run, with  *)
(* the RAM and the path of the game before it.                             *)
StreamFails ==
  /\ Goto(Main, "stream", "osd")
  /\ run' \in {sel, Mixed}
  /\ strayed' = IF run' \in {path, Mixed} THEN strayed ELSE strayed \cup ({path} \cap Games)
  /\ sel' = NoGame /\ menu' = "osd"
  /\ UNCHANGED <<core, bram, flag, wr, up, rxVars, game, sav, tmp, lapse, dirty, notify, mutex, flush,
                 history>>

(* neosave_set_game.  neosave_restore takes the mutex again at once: the   *)
(* save task has a lower priority and cannot take it in between.           *)
SetGame ==
  /\ Goto(Main, "stream", "restore")
  /\ mutex = "free"
  /\ mutex' = Main
  /\ path' = sel
  /\ dirty' = FALSE
  /\ on' = TRUE
  /\ UNCHANGED <<fpga, up, rxVars, sum, files, notify, flush, chosen, history>>

(* neosave_restore: every block is sent, and ns_sum is of what was sent.   *)
Restored(r) ==
  /\ sum' = r
  /\ mutex' = "free"
  /\ wiped' = FALSE /\ failed' = FALSE
  /\ UNCHANGED <<core, run, flag, wr, up, rxVars, on, path, sav, tmp, strayed, dirty, notify, flush,
                 chosen, seen>>

(* Mutant: a game without a save leaves the RAM alone.                     *)
RestoreIfAny ==
  /\ Goto(Main, "restore", "start")
  /\ Restored(Restorable(path))
  /\ bram' = IF sav[path] = NoFile /\ tmp[path] = NoFile THEN bram ELSE sum'
  /\ lapse' = "none"
  /\ UNCHANGED faults

Restore ==
  /\ Goto(Main, "restore", "start")
  /\ Restored(Restorable(path))
  /\ bram' = sum'
  /\ lapse' = "none"
  /\ UNCHANGED faults

(* A file that is there cannot be opened or read, and the load goes on.    *)
RestoreMisread ==
  /\ Goto(Main, "restore", "start")
  /\ Fault
  /\ \E r \in Misreads(path) \ {Restorable(path)} : Restored(r)
  /\ bram' = sum'
  /\ lapse' = "misread"

(* set_loading_state(0).                                                   *)
StartCore ==
  /\ Goto(Main, "start", "play")
  /\ run' = sel
  /\ sel' = NoGame /\ menu' = "osd"
  /\ seen' = 0
  /\ UNCHANGED <<core, bram, flag, wr, up, rxVars, game, files, dirty, notify, mutex, flush, wiped,
                 faults, failed>>

-----------------------------------------------------------------------------
FpgaStep == GameWrites
RxStep == RxDirty \/ RxBlock \/ LoseBlock
SaverStep == SaverWakes \/ SaverDebounces \/ SaverFlushes \/ FlushStep(Saver)
MainStep ==
  \/ OpenOsd \/ CloseOsd \/ Settle \/ ChooseNothing
  \/ \E c \in {"neo", "other"} : PickCore(c)
  \/ PickPce \/ Off
  \/ \E g \in Games : PickGame(g)
  \/ OpenFails \/ StartLoading \/ StreamFails
  \/ SetGame \/ Restore \/ RestoreMisread \/ StartCore
  \/ FlushStep(Main)

Next == FpgaStep \/ RxStep \/ SaverStep \/ MainStep

Spec == Init /\ [][Next]_vars

-----------------------------------------------------------------------------
(* The RAM is the one the save was restored into.                          *)
Settled == on /\ ~wiped /\ mutex = "free"

(* "a write during the dump sends a fresh 0x0B that sets this again": what *)
(* the RAM holds and the card does not is always still announced, wherever *)
(* in the two passes the write lands, although the second pass clears the  *)
(* FPGA's flag once more.                                                  *)
PendingWhenStale == Settled /\ bram # sum => dirty \/ NoticeInFlight

(* ns_sum is "what the file holds": otherwise the first pass would skip a  *)
(* save that is needed.  It is of what a restore would read, unless one of *)
(* the named lapses came between them.                                     *)
SumIsOfFile == on /\ mutex = "free" /\ lapse = "none" => sum = Restorable(path)

(* A game's files, the .tmp too, never hold what another game wrote,       *)
(* whatever is loaded while its save is owed: "the RAM may still hold the  *)
(* previous game's data", the dump may run during a load, and the mutex    *)
(* may be waited for across one.  The one exception: the game was loaded   *)
(* when the load of another failed half-way.                               *)
Holds(f, g) == \E b \in 1..Len(f) : f[b].g \in Games \ {g}
NoOthersData == \A g \in Games \ strayed : ~Holds(sav[g], g) /\ ~Holds(tmp[g], g)

(* "a Neo Geo save still owed or running finishes first": when the file    *)
(* chooser opens, what had been announced when the OSD opened is on the    *)
(* card, unless a flush failed -- also when the save task was in the       *)
(* middle of its flush and main_task found ns_dirty already clear.  (A      *)
(* flush under way for a game without a .sav has emptied the .tmp that was *)
(* its only copy.)  A chooser left for the game and come back to calls     *)
(* nobody to settle: with menu = "choose" a load may meet a running flush. *)
(* What f_sync lost, or a failed read left in the RAM, is not on the card. *)
AnnouncedIsSaved ==
  /\ pc[Main] \in {"choose", "query", "stream"}
  /\ on /\ ~wiped /\ ~failed
  /\ sav[path] # NoFile \/ mutex = "free"
  /\ menu = "osd"
  /\ lapse \notin {"sync", "misread"}
  => \A b \in Block : bram[b].n <= seen => Restorable(path)[b] = bram[b]

(* A step loses what a restore would read, other than to newer writes, for *)
(* four causes only: the FPGA was programmed with the save still owed; the *)
(* RAM is that of a restore whose reads failed; f_sync or f_close fails;   *)
(* or a flush empties a .tmp that is the only copy.                        *)
LossHasCauses ==
  [][\A g \in Games :
       (\E b \in Block : Restorable(g)'[b].n < Restorable(g)[b].n) =>
         wiped \/ lapse = "misread" \/ lapse' \in {"sync", "lone"}]_files
=============================================================================
