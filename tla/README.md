# TLA+ models of the BL616 companion firmware

The firmware runs on the BL616 microcontroller of a Tang console board. It reads
the SD card, configures the FPGA with a console core, draws the menu, and serves
the running core over one serial link, UART1: ROM images, CD sectors, gamepads,
save RAM. It is a FreeRTOS program of a few tasks and interrupt handlers that
share that link, the SD card and a handful of `static` variables.

This directory holds TLA+ modules translated from the source, TLC configurations
that check them on small instances, and TLAPS proofs of the properties that
matter most. Run `tlc -config X.cfg M` and `tlapm M.tla` here; `PROJECT.json`
lists the runs, the lines each definition stands for, the mutants each property
catches, the findings and the hazards.

## Inventory

Actors (priority): `main_task` (3: menus, loading), `uart1_rx_task` (3: parses
frames of the FPGA), `cd_serve_task` (2: decodes and sends CD sectors),
`pcesave_task` (1: writes saves), `log_task` (1), the UART1 receive interrupt,
the DMA completion interrupt, the USB host stack.

| Component | State | Operations | Hard behaviour | Correct when |
|---|---|---|---|---|
| UART1 ownership, `utils/utils.cpp`, `core/pcecd.cpp` | `fpga_tx_sem`, DMA in flight, the UART's DMA-TX mode | lock, unlock, frame writers, DMA start, completion, recovery | the token outlives the task that took it; a lost interrupt; writers that do not lock | one holder, token never lost, whole frames, nobody wedged |
| UART1 receive, `main.cpp` | ring, indices, parser position | ISR byte, `u1rx_get`, parse | lock-free ring, full ring, no checksum | frames whole and in order; stores within buffers; resynchronises |
| Save files, `core/pcesave.cpp`, `core/neosave.cpp` | `<save>`, `<save>.tmp`, `sv_last` | write/sync/unlink/rename, restore | power cuts and failing calls between any two | the last save survives |
| Backup-RAM saver, `core/pcesave.cpp` | `sv_path`, `sv_dirty`, `sv_rx`, `sv_mutex` | dump, flush, set_game, restore, receive hooks | three tasks; game switch during a save; writes during a dump | saves go to their game, none forgotten |
| Neo Geo saver, `core/neosave.cpp` | `ns_on`, `ns_path`, `ns_sum`, `ns_dirty`, `ns_mutex` | two-pass flush, settle, set_game, restore, off | a write between the passes; a load that stops half-way | the file equals the RAM, each game has its own |
| CD serving, `core/pcecd.cpp`, `main.cpp` | request queue, hunk cache, open disc, TOC | post, serve, load, unload | unload during a decode; stale requests; failed decode | the core gets the sector it asked for |
| Disc table of contents, `core/pcecd.cpp` | track list | `pcecd_read_toc`, `pcecd_lba_to_file_frame` | pregaps in or out of the file, padding | a block maps to its own frame |
| Core and game loading, `main.cpp`, `core/*.cpp` | `core_id`, `active_core`, `core_running`, BIOS flags, link baud | identify, program, load | late answers, failing steps, flags that outlive a core | a game runs on the core it needs, with its options and BIOS |
| Floppy drives, `core/pcxt.cpp`, `main.cpp` | `floppy[]`, `f_floppy[]`, names | mount, seek, read, write | a mount between seek and access; failing mounts | the sector meant is the one served |
| Menus and options, `ui/` | cursor, option word | keys, packing | fields of several bits | each field keeps its bits |
| FPGA programmer, `fpga/programmer.cpp` | `_state`, `idcodes` | detect, erase, stream, finish | the firmware never sees the TAP's state | commands arrive, success means the core runs |
| USB HID, `usb/` | classes, `joystick_map`, `hid1_state`, `state_mutex` | look, start, drop, submit, parse, publish | tasks deleted at any point; devices swapped between looks | an index has one owner, no report or mutex is lost |
| Log, `utils/utils.cpp` | 48-entry queue, drop counter | `file_log`, `log_task` | full queue | lines are written in order |

Interactions: every writer of UART1 takes the token; the receive task hands
frames to the saver (blocks, notices), to the CD queue, to `core_id` and to the
gamepad state; `main_task` switches games under the saver and the CD server;
both savers run on `pcesave_task`; `usbh_hid_task` creates and deletes a client
task per device, and the clients share `state_mutex` with `main_task` and the
receive task; `uart1_rx_task` reads and writes the floppy images `main_task`
mounts; `main_task` configures the FPGA under all of them.

## Modules

| Module | Models | Kind |
|---|---|---|
| `UartToken` | ownership of UART1 with DMA | state machine |
| `UartRx` | receive ring and frame parser | state machine |
| `ByteFifo` | what the ring promises | abstract specification |
| `SaveFile` | the FatFs calls of a save and a restore | state machine |
| `DurableSave` | an atomic durable save | abstract specification |
| `PceSave` | the backup-RAM saver among the other tasks | state machine |
| `NeoSave` | the Neo Geo saver, its loads included | state machine |
| `CdServe` | CD requests, the hunk cache, loads of discs meanwhile | state machine |
| `CdToc` | the table of contents and its lookup | operators |
| `CdLayout` | the layout it is compared with, frame by frame | operators |
| `CoreLoad` | which core runs, and loading a game onto it | state machine |
| `CoreOptions` | the option word | operators |
| `FloppyDrive` | the drives of the PC core | state machine |
| `Programmer` | configuring the FPGA over JTAG | state machine |
| `UsbInput` | gamepads and keyboards, their tasks and indices | state machine |
| `HidReport` | report descriptors and reports | operators |
| `UartProofs`, `SaveFileProofs`, `PceSaveProofs`, `NeoSaveProofs`, `DiscProofs`, `CoreLoadProofs`, `ProgrammerProofs`, `UsbInputProofs` | theorems, see Proofs | proofs |
| `MC*` | the constants of the runs; in `MCCdServe`, `MCCoreLoad` and `MCUsbInput` also the bounded checks of the operators | configuration |

Every state machine has its type invariant `TypeOK` (`TokenTypeOK`). The runs do not list it:
it was checked with them while the models were written, and it is proved for
all of the modules (see Proofs).

### UartToken
State: the semaphore `sem`, who `own`s it by the token protocol, each task's
place in `pc`, the frame on the wire, the DMA transfer (`inflight`, `hw`, the
UART in `txdma` mode) and the counters that switch DMA off for good. An action
is one step between two points at which another task or interrupt can run:
taking the token, writing the header, writing the last byte, giving it back;
`DmaStart`, the hardware completing or losing its interrupt, the `Isr`, and
`DmaTakeTimesOut`/`DmaAbort`/`DmaRearm` of the recovery. Writers that do not take
the token are actions of their own (`SendMasked`, `QueryCoreId`) and set the
history variable `bypassed`. Fairness is that of a preemptive scheduler that
never starves a ready task for ever, and of a hardware transfer that ends or
loses its interrupt; timeouts of a bounded wait fire (`TakeTimesOut`).

### UartRx
`IsrByte` is one turn of the interrupt's loop; `Poll`, `ReadSlot` and `Advance` are
the three steps of `u1rx_get`, so the interrupt comes between any two of them;
`ParseHeader`, `ParsePayload` and `ParseUnknown` are one turn of the parser. The
payload buffers are one sequence `body`, and a handler is the frame appended to
`handled`: the effects of handlers belong to the modules of those components.
The model takes the ring's read and the store of the index in source order (the
ring is not volatile), and leaves out an overrun of the hardware FIFO. Fairness:
the interrupt fires for pending bytes and the task runs again after a tick.

### SaveFile and DurableSave
One action per FatFs call of `sv_write_file`, `Restore` for start-up, `PowerCut`
anywhere. A file is `Absent`, `Torn` (shorter than the image) or an image.
`faults` selects what may go wrong: nothing but cuts outside the two-file window
(`none`), every cut (`cuts`), or failing calls too (`io`), those of a restore included;
`saver` selects `pcesave` or `neosave`, which differ in the files they accept. `f_rename` is
atomic on the card, and `f_sync` with `f_close` is one step that may fail. A restore whose
`f_open` or `f_read` fails goes on with the `.tmp`, the blank image or zeros: the game then
strays from what the card holds, `strays` are the images it produces, and saving one is
the third of the three causes of a loss (`causes`).
`DurableSave` has a saved image, one being saved, and a cut that yields either.

### PceSave
Games, their `.sav` and `.tmp` files, the FPGA's backup RAM (`bram`) with its written flag
and notice, the answers on their way (`up`, a FIFO), the state of `pcesave.cpp`, and
three tasks. Every wait (mutex, block semaphore) is a point of interleaving. The
game keeps running while the menu is open (`utils.cpp:147-148`). The flag clears when
block 0 is requested and on loading. Writing the file is one step, with every outcome of its
calls: `WriteFails` (`f_open` or a short `f_write`, which may have truncated the `.tmp`) and
`RenameFails` (the new image is left in the `.tmp`, or the old one stays); an
unseen failure of `f_sync` or `f_close` leaves a short file in the place of the save. A
restore reads the `.sav`, else the `.tmp`, else the blank image, and goes on with the next of them
when a call fails. `lapse` names the card error since which `sv_last` need not be
what the card holds; the next save or restore that goes well clears it. Assumed: an answer comes within its
1000 ms or never; a notice is never lost; the mutex wait of 3000 ms expires only
under the fault `slow`. With answers that come after their timeout `LastIsOnCard` and
`PendingWhenStale` would not hold, since replies carry no request number: this is
listed as a hazard.

### CdServe
`Ask` is the core's request with `uart1_rx_task` posting it (a full queue drops it).
The server is `Receive`/`Decline`, `CheckTag`, a decode that ends (`Decoded`,
`DecodedOutdated`, `DecodeFails`), and the answer: `SendFirst`, `SendSecond` for data,
`Swap`, `SendDma`, `DmaDone` for audio, or `SendBlocking` where there is no DMA channel or it was given up. `main_task` runs `cdchd_load`: `LoadDisc`, `Unmount`,
`Open`, `ReadToc`, `Boot`, `SendToc`, `SendMount` with its failure exits, or `LoadCart`
(a cartridge of the same core). It preempts the server between any two steps.
Sectors are `<<disc, frame>>`; a disc's tracks are the constant `FileFrame`, and
`ReadToc` is the step that replaces one disc's tracks by the other's, with both
visible in between. Ghost state: `epoch` counts the closed discs, `spoiled` records a
failed or outdated read since the tag was set, `refused` holds the request the core
waits for once it is dropped or declined. What the memory allocator does with a freed buffer is not followed: a
read that outlives its disc leaves garbage or nothing. Transfers complete and
frames of two writers do not mix: both are `UartToken`'s subject. Programming
another core, which resets the FPGA, is not modelled. Fairness: decodes and
transfers end, and the server runs whenever `main_task` waits.

A core whose last request was dropped or declined waits for ever
(`AnsweredOrRefused` names exactly those); `WrongSectorHasCauses` names the three
causes of a wrong sector, and each was found necessary by dropping it.

### NeoSave
Like `PceSave`, with what `neosave.cpp` does differently. A flush is
`Lock`, a first pass that compares every block with `ns_sum`, then `Create`, a
second pass that asks for every block again and writes it into the `.tmp` file,
and `Rename`; both tasks flush by the same steps. A load streams the ROM regions,
then names and restores the save, then starts the machine, and may stop before
each. `menu_loadrom` waits in `neosave_settle` before the file chooser opens. A
block is worth the game that wrote it and the number of the write, and a file is the sequence
of the blocks written. `lapse` says what came between `ns_sum` and the card: a flush that
emptied a `.tmp` which was the only copy (`lone`), an `f_rename` that failed after the
`f_unlink` (`rename`), an unseen failure of `f_sync` or `f_close` (`sync`), or a restore whose reads
failed, after which RAM and `ns_sum` hold zeros (`misread`). `StreamFails` is a load that
stops in the ROM regions: `set_loading_state(0)` starts whatever was sent, perhaps the new
game itself, with the RAM and the `ns_path` of the game before; the game whose save is
then at stake is in `strayed`. Read off the
code while modelling, and visible as exceptions or causes in the properties:
`neosave_flush_async` has no caller, so its request flag is left out; `neosave_set_game`
drops `ns_dirty`, so that a write within the 2 s before a load from the OSD may be
lost; a core picked from the cores directory while a save is owed has its blank
RAM dumped (`wiped`); `neosave_off` takes no mutex. A chooser that was left for the game and is
entered again does not settle, the exception of `AnnouncedIsSaved`.

### CdToc
`pcecd_read_toc` walks the tracks with two running positions, one in logical
blocks and one in frames of the file: `AddTrack` is one turn of its loop, and the lookup is
`pcecd_lba_to_file_frame`. `MCCdServe` compares them with a layout written down frame by
frame, that of `CdLayout` (`TocIsLayout`, `TocIsInjective`), over all discs of three small
tracks; the same is proved in another form of every disc (see Proofs). The layout is for discs without postgaps: a postgap is counted in the file position,
though the comment there says that tracks follow each other without a break. The loop
asks for 99 tracks at most; a disc is what it is told of them.

### CoreLoad and CoreOptions
`main_task` is `pc`: the main menu's loop, `menu_loadrom` and the loaders. `Query` and `Got`
are the two halves of `get_core_id`, with `RxCoreId` of the receive task in between; an
answer of a core is a member of the sequence `up` until it is read, so that one that
is late meets the next query. `Program` has the three ways `fpga_program` can end: the core
runs, the old one stays, or the FPGA is left empty. The rate of the link follows the name of the
bitstream file, taken to be the core's. `JtagProgram` is a PC that writes a
bitstream while the menu waits. `Start` is what a loader leaves in the core. Of the
option word it matters whose file it holds: `ApplySaved` sends the word of the core's file, or 0
when `load_options` cannot read it (`unread`). The history variables name causes:
`late` and `jtags` make `Misled`, `before` keeps the flags the last configuration found.
The code clears neither `core_running` nor `gba_bios_loaded` when it configures the FPGA,
and a GBA BIOS whose reading fails counts as loaded: these are the causes
`NoBiosHasCause` names. Outside the model: `set_core_config` also wipes the machine bits
`neocd_boot` set in the word (`neogeo.cpp:543`), and `loadsnes` returns 0 for "Not a SNES ROM".

`CoreOptions` has the fields of the word, parsed from the configuration string, and
what a press does. `MCCoreLoad` checks over all fields of a word of five bits that an option
moves alone and shows all its choices if they fit its bits (`OptionsMoveAlone`), and
that one with more choices writes into the bits above (`OthersSpill`). A field of the
whole word shifts 1 by the width of its type, which C++ leaves undefined; it is
not considered.

### FloppyDrive
`mount_floppy` is seven steps of `main_task`, a frame 4 or 5 is two of `uart1_rx_task`: `Seek` and
`Access`, with no lock between them. A request remembers the image the core meant, and
whether a mount of its drive `crossed` it. Every call may fail with the card (`SeekFails`,
`AccessFails`, `CloseOld`, `ImageFails`): the result of `f_lseek` is not looked at, a sector
that `f_write` refuses is dropped, one that `f_read` cannot read is not answered; `erred` is set
for the request a failure meets, and excuses that request only. The model shows what the two properties
except: the old image is closed first and the flag stays set when the new one
cannot be opened; an unsupported size returns -1, which is true; the flags
survive another bitstream; a read of a drive that is not mounted gets no answer.

### Programmer
`jtag` holds both ends of the wires: the firmware's belief `_state`, and the TAP
controller of IEEE 1149.1 with its instruction register and the configuration
engine. `SetState` turns the code's loop by the code's table, a clock a turn, and all
operations drive the TAP clock by clock; `fpga_program` is scripts of operations with an action per operation.
`Board` is how the chain answers: as it should, not erased, unknown, absent, dead.
The fast path of the stream leaves the TAP in EXIT1-DR with `_state` at SHIFT-DR;
only the status read that `writeSRAM_end` makes for the log brings them together,
which `InStep` and `CommandsTaken` are about. A chain that does not answer is not told from
one recognised earlier, whose id code is still there: the exception in
`OnlyKnownBoards`. Clocks spent in RUN-TEST/IDLE are left out. Such a chain makes every poll run its whole count.

### UsbInput and HidReport
`usbh_hid_task` is `LookNew`, `LookDied`, `LookGone`, `Drop` and `Start`; `gone` is the slot whose
missing device it is telling of, during which others run. A client is `Submit`, `Take`,
`ParsePad` or `ParseKeyboard`, `Lock`, `Publish`, `Clear`. `Plug` and `Unplug` happen between any two steps.
`happened` records what the properties make exceptions for: an index released by a device
that never had it (`released`), one that is never given back (`leaked`: every keyboard,
and a client that could not be created), a semaphore left from the client before
(`stale`), a client deleted while it held `state_mutex` (`killed`: main_task and
uart1_rx_task then wait for ever), a device swapped between two looks of 100 ms
(`unseen`: deaf until it is away for a whole turn). The buttons of an unplugged pad stay
pressed; a keyboard writes the first player without the mutex.

`HidReport` is the parser of report descriptors, `collect_bits`, the directions and
`kbd_parse`. `MCUsbInput` checks over all layouts of three fields that each field is found
where it was laid out (`FoundWhereLaid`), however the descriptor writes it
(`SamePadHoweverWritten`), that the bits of a field are read (`BitsCollected`), what the
axes' thresholds make of widths (`RestOfByteAxes`: an unsigned byte at rest is no
direction; a signed one or one of 16 bits, such as those the comment says are
handled, rests as a pressed one), that the core sees the keys held (`CoreHoldsKeys`), and
that a key let go while the menu is open stays down for the core until it is
pressed again (`KeyMayStayDown`).

## Runs

| Run | Instance | Shows |
|---|---|---|
| `uart_token` | two writers, server, DMA, one lost interrupt, expired waits, writers that do not lock | token and frame properties, liveness of every writer |
| `uart_rx` | ring of 4, sector of 2, three frames of five types, one lost byte | frames, stores, resynchronisation, FIFO refinement, delivery |
| `savefile` | four images, both savers, every cut and failing call | losses have three causes; refinement without them |
| `pcesave_lost` | two games, two writes (`Bound`); lost answers, failing calls, slow mutex | a stale card is always announced; `sv_last` is the file and never of the game before, but for four named card errors |
| `pcesave_live` | one game, two writes, no faults | what is written gets saved |
| `pcesave_belong` | two games, one write, no faults | *violation*: `SavesBelong` |
| `neosave` | two games, two blocks, two writes (`Bound`), one fault of any kind | nothing written is forgotten, `ns_sum` is of the file, what a restore would read gets older for named causes only, no file gets another game's data but after a load that failed half-way |
| `cd_serve` | two discs, two addresses, queue of 2, three requests, two loads, one failed read | order and content of answers, mounts, who may wait for ever |
| `programmer` | two bitstreams of three blocks, three calls, five kinds of chain | the TAP is where it is believed, success means the core runs |
| `coreload` | four systems, two late answers, one bitstream from a PC | loaders on their cores, options, rate, BIOS |
| `floppy` | two drives, two images and one of an odd size, one waiting request | requests served right, three views of a drive |
| `usb_input` | a HID slot, an Xbox slot, map of two, two troubles | indices, reports, descriptors, the mutex |

Fairness. `FairSpec` (`FairTokenSpec`) of `UartToken`, `UartRx`, `PceSave` and `CdServe` assumes weak fairness of the
steps of tasks that are ready and of hardware that finishes: the scheduler is
preemptive with round robin among equal priorities, and bounded waits end. No
fairness is assumed of users, games, cores, cards or what may fail. The other modules
have safety properties only.

Bounds. The token's counters saturate after the first timeout because the code
only tests them for zero. Three frames let the indices of a ring of four wrap
several times and let a damaged frame eat its successor; one lost byte reaches
every position of every frame type; scaling `Sector` and `PosMod` down keeps every
comparison of the parser. Four images are one saved, one that strays from it after a
failed read, one saved over that, and one in progress. Two games are enough to confuse one
with the other, and one write is enough to see it in the wrong file; two writes of
one game let one fall into a dump, between the two passes of one, or after it, with an earlier
one saved. The constraint `Bound` of `MCPceSave` and `MCNeoSave` follows the second write only while
one game has left a trace (in the machine or on the card), so that both cases are in one run. One fault reaches every call, and each cause the properties name
was found necessary by dropping it. Three requests fill a queue of two behind one being
served; of the two discs one has a gap and shares a hunk number with the other,
so that a stale tag can match; two loads give a third epoch to the requests of the
first. Three calls of `fpga_program` let a dead chain follow a good one and a good one
follow it; three blocks have a first, a middle and a last. Two late answers are
what it takes to mislead the menu, and each kind of system has its own loader. Two
slots suffice to give one index twice; two troubles, to lose one pad and
replace it. One request in the ring and one being served are both sides of a
mount. `CHECK_DEADLOCK FALSE` stands where the bounded inputs run out.

## Findings

* **Dirty test outside the mutex** (`pcesave_belong`): a game switch in between sends the
  dump of one game into the file of the other.

Other behaviour the code's comments do not expect is in the passing properties, as
the exception each of them makes:

* Writers without the token: `tc_utils.h` says every frame writer takes it; `get_core_id` and
  the interrupt-masking senders do not, and can cut a frame (`bypassed` in `FramesContiguous`).
* A save restored from a lone `.tmp` is truncated by the next save; `f_sync` is not
  checked before the old save is unlinked; and a restore that cannot read an intact save
  starts the game without it, after which the next save replaces it (the three causes of
  `LossHasThreeCauses`).
* A core picked from the menu while a save is owed: blank RAM overwrites the save
  (`wiped` in `LossHasCauses`; `pcesave.cpp` does the same).
* A load that fails half-way runs over the game before: after a read failure in the ROM regions
  `loadneogeo` starts the core on what was sent (`neogeo.cpp:477`), before the save is named and
  restored. If that is enough of the new game to write its backup RAM, the block lands in the
  `.sav` of the game before (`strayed` in `NoOthersData`).
* An option file that cannot be read is taken for the word 0 (`unread` in `OptionsInForce`).
* A sector the card refuses to a floppy drive is dropped, or asked for in vain (`erred` in
  `ServedRight`).
* A disc is closed under a read although libchdr is not to be re-entered
  (`pcecd.cpp:162`): the cause "closed" of `WrongSectorHasCauses`.
* A client task deleted with the mutex, indices released or leaked, a device
  swapped unseen (`happened` in `UsbInput`).
* Flags that outlive the core they speak of (`before` in `NoBiosHasCause`).

What an exception excuses no property catches: the property is about every other way to
the same harm. The note of a hazard in `PROJECT.json` names the exception, and a hazard that
is nothing but the exception lists no property.

## Proofs

Every theorem holds for all constants allowed by the named assumptions of the
module it is about. Each rests on one inductive invariant, first checked by TLC.

* `UartProofs`, of the token (its definitions are named `Token...`, so that one module can
  extend both halves of the link). The invariant adds to the checked ones where the token is when
  nobody shows it: given by the pending interrupt, by the recovery, or by the
  task at a given `pc`. `Exclusion`, `NotLost`, `BlockingModeWhenWriting`, `DmaStaysOff`
  and `Contiguous` (no frame cut until a wait expires or a writer bypasses the token)
  follow for any set of tasks.
* `UartProofs`, of the receiver. `Shape` bounds `pos` by the type being received and ties it to the bytes
  stored; `GetInv` says the slot being read is not empty and still holds the byte
  read. `InRange`: no payload byte is stored outside its buffer whatever arrives,
  which needs no assumption on the frames' contents but that they are bytes.
  `RingIsFifo` maps the ring to `ByteFifo`: the queue is the slots from tail to
  head, without the one already read; an interrupt is `Put` or `Lose`, `ReadSlot` is
  `Take`, everything else a stutter. `HandledInOrder` needs to know where the parser is
  in the stream of all bytes sent: `InStep` says where each frame begins in it and
  that the bytes in the ring and on the wire are those from the parser's place on,
  `InFrame` what the parser has made of the bytes of its frame before that place. A
  lost byte voids both; `NeverStuckElsewhere` needs only `Shape` and `ConfigEnds`.
* `SaveFileProofs`. The invariant relates the two files to the saver's `pc` and says that
  only something done can be strayed from; from it
  `LossCauses`, `NoTornRestore`, `CardHoldsLast` and the refinement of `DurableSave`.
* `PceSaveProofs`. Where the holder of `sv_mutex` is says what must hold between two steps
  of a flush. `Card`: without a lapse `sv_last` is the file, but for the step from the
  rename to the copy; this gives `LastIsTheFile`. `Fresh` speaks of the times at which nothing is announced:
  then the FPGA's flag is down or block 0 is yet to be asked for, the blocks received
  and the answer on the link are those of the RAM, and with the mutex free the RAM is
  `sv_last`; this gives `StaleIsPending`. `Awaited`: the link carries at most one block, the
  one asked for last (`AnswersMatch`), which is where the assumption on late answers
  enters. Without `Awaited` and `Fresh` the properties are not inductive: they say nothing
  of a dump that is half done. Both properties are about games that were switched
  cleanly (`Settled`), which `pcesave_belong` shows to be necessary.
* `NeoSaveProofs`. As in `PceSaveProofs`, with `Stage`, the place of the holder of `ns_mutex`, in
  the two passes of a flush. What the properties say between flushes must be said
  within one. `Has(S)`: the flush has what the RAM holds of the blocks `S`, which
  means another thing in each pass -- the blocks compared are those of `ns_sum`, or
  `changed` is set; the blocks copied are in the `.tmp`. `Fresh` says it of all blocks while
  nothing is announced (`StaleIsPending`), `Opened` of those announced when the OSD opened
  (`SavedBeforeChoosing`). The second needs `Mend`: after a flush that failed and left
  neither a `.sav` nor a whole `.tmp`, the next finds a block that differs from `ns_sum`, so it
  cannot skip the write. `SumKept` says what each lapse leaves of "`ns_sum` is of
  the file" -- after `sync` the file is at least no newer than it -- and gives `SumMatchesFile`, and
  with `Order` (what is copied is between the save and the RAM, in the order of the
  writes) `NewerReplacesOlder`. `Owned` gives `OwnDataOnly`: for a game that was not `strayed`
  another game's data is nowhere but in the RAM of a load that has not restored yet, and no
  flush runs then.
* `DiscProofs`, of `CdServe` and `FloppyDrive`. `Announced` says what `main_task` has done when it is where it is; with
  the types it is inductive. `MountIsServed` follows: what the FPGA was told is void
  or is what the server works with. `Order` lines up the numbers of the requests sent, in transfer, at the
  server and in the queue, which gives `InOrder`. `Content` follows a sector: a request of
  the current epoch finds `main_task` idle (`CurrentDisc`), so its disc is the open one, its
  frame is that disc's, and a tag that is not spoiled names the hunk in the buffer;
  which gives `RightSector`. A load outdates every request at once (`AllOutdated`), so
  the steps of a load need no further argument.
  Of the floppies, `Phase` says what a mount has done where it is; `Loaded`, what a
  drive no mount works on looks like to menu, file and core; `Waiting`, that a request
  that was not crossed still finds its image, and after the seek its place.
  The table of contents is proved about for any sequence of tracks, pregaps stored or not,
  and postgaps: `Laid` says that each track is behind those before it in both address spaces,
  by induction over the turns of the loop. So the table is the layout the comment
  describes (`TableIsLayout`), a block is looked up in its own track (`TracksApart`) and no two
  in one frame (`FramesApart`), and the mapping is one that `CdServe` may assume (`MappingFits`).
* `CoreLoadProofs`. `Bounded`: a late answer stays in the pipe, so at most `late` are ahead of a
  question. Until `Misled`, `Current` says that every answer left when a game can be
  picked is of the core that runs, because the question of a redraw has flushed
  the others; `Polling`, that after a programming an answer naming the wanted core
  means it runs; `Loaded` and `Bios` follow the game from there. All four properties of the
  run follow, for any number of systems and late answers. The checked properties alone
  are not inductive: they do not say what is in the pipe.
* `ProgrammerProofs` is in three layers. A clock: what `Pulse` does to the TAP and the engine.
  An operation: a run of clocks, so a walk of `set_state` between two resting places, a
  shift, a command that is executed once (`CommandSent`), a register that is read. The
  program: `IInv` says that the belief is right where the TAP rests (`Steady`), that what is
  left to do is the end of a script (`Scripted`), and what the flags read so far have
  established (`Erasing`, `Started`): in the second half of an erase nothing but this
  file can run, and when DONE was read it does. The place the proof turns on is the end of a
  bitstream, where the TAP may be in any of its states: `Resynchronised` shows that the
  clocks of one register read bring each of them back in step with `_state`. All four
  properties of the run follow.
* `UsbInputProofs`. `Clients`: only a running slot has a task, so only `usbh_hid_task` can end
  one; with `Owner` that gives `MutexGivenBack`. `Seen` gives `HeardAsItself`. The indices are
  counted: `Owned` says that running pads have indices in use and each its own,
  `Counted` that the others are no more than the running keyboards, so that a slot
  without a client finds one free (`NoIndexIsLost`, `IndicesAreOwn`). `Transfers` ties a
  transfer to the client that waits for it, and `Shown` follows a report to the
  player's buttons (`LastReportIsShown`). That the lowest free index exists is the
  well-foundedness of the numbers, cited from the library (`MinIsLeast`).

`TypeOK` (`TokenTypeOK`) is proved for `UartToken`, `UartRx`, `SaveFile`, `PceSave`, `NeoSave`, `CdServe`,
`CoreLoad`, `FloppyDrive`, `Programmer` and `UsbInput`.

Recursion, where a proof needs it, is a recursive function over numbers, and what it
computes is proved by induction on the set of numbers it holds for: the library's
`WFMin` gives the least one that is not in it (`Induction` in `ProgrammerProofs` and
`DiscProofs`).

Only model-checked: liveness (`NeverWedged`, `AllHandled`, `SavedEventually`,
`AnsweredOrRefused`), which the prover cannot do under fairness. `CoreOptions` and
`HidReport` are evaluated over bounded inputs: the parser folds a sequence of items, and the
option word is arithmetic on powers of two and their bits. So is `SameLayout` of `CdLayout`,
which lays out a disc frame by frame.

## Assumptions

* An answer about the backup RAM comes within its timeout or never, and notices
  are not lost: replies carry no request number and notices no acknowledgement,
  and no property could hold otherwise (hazards at `pcesave.cpp:98` and `:73`).
* The FPGA sends frames of the types and lengths the parser is written for
  (`ProtocolAssumption` of `UartRx`; only frames without a loss need it).
* The content of a short save file is not an image (`NoImageAssumption` of `PceSave`), and a piece
  of a program is not a game (`NeoSaveAssumption`).
* A bitstream file carries the name of its core (`RateOf` of `CoreLoad`).
* There are at most as many USB slots as bits in `joystick_map`: five HID and two Xbox
  interfaces (`usb_config.h:103`, `:105`), eight bits (`usb_gamepad.cpp:78`).
* FatFs makes each call atomic; `f_rename` is atomic on the card.
* A PC writes a bitstream only while the menu waits for a key.
* A task switch may come between any two steps of tasks of one priority, and
  never into a task of higher priority.

## Not modelled

* The debug log: `file_log` puts a line into a queue without waiting and counts what does
  not fit; nothing but a reader of the card depends on it.
* Overlay and console text, menu cursor, paging and sorting: they end in a
  choice, and any choice is possible in the models.
* The copy loops and header scoring of the loaders, and the tables of scan codes
  and characters: data no property tells apart. The ring `key_buf`; the start-up packets of an
  Xbox pad, and sending them again after a timeout (`usb_gamepad.cpp:432`): the transfer it
  cancels has ended, and nothing the model follows changes.
* Debug transports, pin setup and board start-up: I/O with no state of their own.
* libchdr with its codecs, FatFs, FreeRTOS and CherryUSB: third-party code; the models take from
  it what the firmware relies on. It is most of the lines of the repository, which
  bounds the share of them a model of the firmware can cover.
* Host scripts: tools for a PC.
