------------------------------ MODULE CoreLoad ------------------------------
(***************************************************************************)
(* Which core is in the FPGA, and loading a game onto it (main.cpp).       *)
(*                                                                         *)
(* main_task knows the core only by asking: get_core_id clears core_id,    *)
(* sends a query and waits 200 ms for uart1_rx_task to store the answer.   *)
(* An answer carries nothing that ties it to its query.  A core from the   *)
(* cores directory or a core a game needs is written by fpga_program,      *)
(* whose result nobody looks at, and the serial rate follows the name of   *)
(* the file.  What the firmware remembers of the core it last served       *)
(* (core_running, gba_bios_loaded) is not reset by a new one.              *)
(*                                                                         *)
(* Of the core's configuration word it matters whose option file holds it; *)
(* the machine bits neocd_boot adds to it are left out.  A system whose    *)
(* loader only copies a file is a member of Systems without a name.        *)
(***************************************************************************)
EXTENDS Naturals, Sequences

CONSTANTS Systems,          \* entries of core_info_list
          Gba, Pc, Cd,      \* those with a loader of their own
          Monitor,          \* monitor.bin, core id 0
          NoCore,
          None,             \* -1, or no game
          MaxLate,          \* answers later than their 200 ms followed
          MaxJtag           \* bitstreams written by a PC followed

ASSUME CoreLoadAssumption ==
  /\ {Gba, Pc, Cd} \subseteq Systems
  /\ Gba # Pc /\ Pc # Cd /\ Gba # Cd
  /\ {Monitor, NoCore, None} \cap Systems = {}
  /\ Monitor # NoCore /\ Monitor # None /\ NoCore # None
  /\ MaxLate \in Nat /\ MaxJtag \in Nat

VARIABLES
  fpga,       \* the FPGA: the core, what it was configured with, its game
  rate,       \* the rate of uart1 on this side
  up,         \* answers to get_core_id on their way
  core_id,
  active,     \* active_core
  running,    \* core_running
  gba,        \* gba_bios_loaded, gba_missing_bios_warned, or neither
  pc,         \* where main_task is
  want,       \* the system of the picked file
  late,       \* history: answers that came after their query was given up
  jtags,      \* history: bitstreams written by a PC
  lastProg,   \* history: how the last programming ended
  before,     \* history: the flags when the FPGA was last configured
  biosFailed, \* history: a BIOS was not sent whole to this core
  unsaved,    \* history: an option was set and not stored
  unread      \* history: the options last applied could not be read

flags == <<running, gba>>
options == <<unsaved, unread>>
history == <<jtags, lastProg, before, biosFailed, options>>
asked == <<up, core_id, late>>
vars == <<fpga, rate, asked, active, flags, pc, want, history>>

Cores == Systems \cup {Monitor}
Ids == Cores \cup {None}
Rate == {"slow", "fast"}

(* fpga_link_baud_for looks at the name of the file: bitstreams carry the  *)
(* name of their core, as core_info_list has it.                           *)
RateOf(c) == IF c = Cd THEN "fast" ELSE "slow"

(* word: the core whose option file holds the options in force, or None.   *)
Erased == [core |-> NoCore, awake |-> FALSE, word |-> None,
           game |-> None, bios |-> FALSE]
Fresh(c) == [Erased EXCEPT !.core = c]

(* The core runs and reads at the rate the firmware sends at.              *)
Heard == fpga.core # NoCore /\ fpga.awake /\ rate = RateOf(fpga.core)

Asking == {"detect", "detectTop", "redraw", "pick", "poll"}

TypeOK ==
  /\ fpga \in [core : Cores \cup {NoCore}, awake : BOOLEAN,
               word : Systems \cup {None}, game : Systems \cup {None},
               bios : BOOLEAN]
  /\ rate \in Rate
  /\ up \in Seq(Cores) /\ Len(up) <= MaxLate + 1
  /\ core_id \in Ids /\ active \in Ids
  /\ running \in BOOLEAN /\ gba \in {"neither", "loaded", "warned"}
  /\ pc \in Asking \cup {"boot", "top", "menu", "draw", "keys", "wait", "load"}
  /\ want \in Systems \cup {None}
  /\ late \in 0..MaxLate /\ jtags \in 0..MaxJtag
  /\ lastProg \in {"ok", "failed", "jtag"}
  /\ before \in [running : BOOLEAN, gba : BOOLEAN]
  /\ biosFailed \in BOOLEAN /\ unsaved \in BOOLEAN /\ unread \in BOOLEAN

Init ==
  /\ fpga = Erased /\ rate = "slow"
  /\ up = <<>> /\ core_id = None /\ active = None
  /\ running = FALSE /\ gba = "neither"
  /\ pc = "boot" /\ want = None
  /\ late = 0 /\ jtags = 0 /\ lastProg = "ok"
  /\ before = [running |-> FALSE, gba |-> FALSE]
  /\ biosFailed = FALSE /\ unsaved = FALSE /\ unread = FALSE

Goto(from, to) == pc = from /\ pc' = to

-----------------------------------------------------------------------------
(* The link.                                                               *)

(* get_core_id up to its loop: the query; a core that hears it answers.    *)
Query ==
  /\ core_id' = None
  /\ up' = IF Heard THEN Append(up, fpga.core) ELSE up

(* uart1_rx_task: the response to command 1.                               *)
RxCoreId ==
  /\ up # <<>>
  /\ core_id' = Head(up)
  /\ up' = Tail(up)
  /\ UNCHANGED <<fpga, rate, late, active, flags, pc, want, history>>

(* get_core_id returns i: an answer, or -1 after 200 ms without one.  The   *)
(* answer then never comes, or later.                                      *)
Got(i) ==
  /\ i = core_id
  /\ IF core_id = None /\ up # <<>>
       THEN late < MaxLate /\ late' = late + 1
       ELSE late' = late
  /\ UNCHANGED <<up, core_id>>

(* A core configured a moment ago begins to answer.                        *)
CoreStarts ==
  /\ fpga.core # NoCore /\ ~fpga.awake
  /\ fpga' = [fpga EXCEPT !.awake = TRUE]
  /\ UNCHANGED <<rate, asked, active, flags, pc, want, history>>

(* set_core_config.                                                        *)
Configure(c) == fpga' = IF Heard THEN [fpga EXCEPT !.word = c] ELSE fpga

(* apply_saved_core_options: load_options returns 0 when f_open fails, and *)
(* does not look at what f_read says; the word is sent all the same.       *)
ApplySaved(c) == \E w \in {c, None} : Configure(w) /\ unread' = (w = None)

-----------------------------------------------------------------------------
(* Configuring the FPGA.                                                   *)

Configured(how) ==
  /\ lastProg' = how
  /\ before' = [running |-> running, gba |-> gba = "loaded"]
  /\ biosFailed' = FALSE

(* fpga_program and fpga_link_baud_for: the core runs; or the file or the   *)
(* board is not right and the old core stays; or the FPGA was erased and    *)
(* is left without a core.                                                 *)
Program(c) ==
  /\ rate' = RateOf(c)
  /\ \/ fpga' = Fresh(c) /\ Configured("ok")
     \/ fpga' = fpga /\ lastProg' = "failed" /\ UNCHANGED <<before, biosFailed>>
     \/ fpga' = Erased /\ Configured("failed")
  /\ UNCHANGED <<jtags, options>>

(* main_task at start-up.                                                  *)
Boot ==
  /\ Goto("boot", "top")
  /\ Program(Monitor)
  /\ UNCHANGED <<asked, active, flags, want>>

NoMonitor ==
  /\ Goto("boot", "top")
  /\ UNCHANGED <<fpga, rate, asked, active, flags, want, history>>

(* "allow jtag to change core underneath us": in the menu, not in a load.  *)
JtagProgram(c) ==
  /\ jtags < MaxJtag /\ jtags' = jtags + 1
  /\ pc \in {"menu", "keys"}
  /\ fpga' = Fresh(c)
  /\ Configured("jtag")
  /\ UNCHANGED <<rate, asked, active, flags, pc, want, options>>

-----------------------------------------------------------------------------
(* The main menu's loop.  "top" is a turn with a redraw due, "menu" one    *)
(* without.                                                                *)

AskUndetected ==
  /\ active = None
  /\ Goto("menu", "detect") \/ Goto("top", "detectTop")
  /\ Query
  /\ UNCHANGED <<fpga, rate, active, flags, want, late, history>>

(* A core that answers gets its saved options, and the menu is redrawn.    *)
Detected ==
  \E i \in Ids :
    /\ Got(i)
    /\ \/ Goto("detectTop", "draw")
       \/ Goto("detect", "draw")
       \/ Goto("detect", "keys") /\ i = None
    /\ active' = i
    /\ IF i \in Systems
         THEN ApplySaved(i)
         ELSE UNCHANGED <<fpga, unread>>
    /\ UNCHANGED <<rate, flags, want, jtags, lastProg, before, biosFailed, unsaved>>

(* After a choice, or every 5 s.                                           *)
AskRedraw ==
  /\ \/ Goto("draw", "redraw")
     \/ Goto("top", "redraw") /\ active # None
     \/ Goto("menu", "redraw") /\ active # None
  /\ Query
  /\ UNCHANGED <<fpga, rate, active, flags, want, late, history>>

Redrawn ==
  /\ Goto("redraw", "keys")
  /\ \E i \in Ids : Got(i) /\ active' = i
  /\ UNCHANGED <<fpga, rate, flags, want, history>>

NotDue ==
  /\ Goto("menu", "keys")
  /\ active # None
  /\ UNCHANGED <<fpga, rate, asked, active, flags, want, history>>

NoKey ==
  /\ Goto("keys", "menu")
  /\ UNCHANGED <<fpga, rate, asked, active, flags, want, history>>

(* OptionsMenu of the active core, from the main menu or over the game: the *)
(* word of the option file with one field changed is sent and stored, or   *)
(* cannot be.  The console's setconf stores nothing.  (A menu that could   *)
(* not read the file starts from 0 and stores that: the word in force is   *)
(* still the file's, and the player's other options are lost in both.)     *)
SetOption ==
  /\ Goto("keys", "top")
  /\ active \in Systems
  /\ unsaved' \in BOOLEAN /\ unread' = FALSE
  /\ IF Heard
       THEN Configure(IF unsaved' THEN None ELSE active)
       ELSE fpga' = [fpga EXCEPT !.word = IF @ = active THEN None ELSE @]
  /\ UNCHANGED <<rate, asked, active, flags, want, jtags, lastProg, before, biosFailed>>

-----------------------------------------------------------------------------
(* menu_loadrom.                                                           *)

(* Mutant: the serial rate is switched for games only.                     *)
PickCoreSameRate(c) ==
  /\ Goto("keys", "top")
  /\ fpga' = Fresh(c) /\ Configured("ok")
  /\ UNCHANGED <<rate, asked, active, flags, want, jtags, options>>

(* A file in the cores directory.                                          *)
PickCore(c) ==
  /\ Goto("keys", "top")
  /\ Program(c)
  /\ UNCHANGED <<asked, active, flags, want>>

(* A game: its system follows from its path.                               *)
PickGame(s) ==
  /\ Goto("keys", "pick")
  /\ want' = s
  /\ Query
  /\ UNCHANGED <<fpga, rate, active, flags, late, history>>

(* The file's core already runs.                                           *)
CoreFits ==
  /\ Goto("pick", "load")
  /\ Got(want) /\ active' = want
  /\ UNCHANGED <<fpga, rate, flags, want, history>>

CoreDiffers ==
  /\ Goto("pick", "wait")
  /\ \E i \in Ids \ {want} : Got(i) /\ active' = i
  /\ Program(want)
  /\ UNCHANGED <<flags, want>>

(* find_core_for_board finds no bitstream: "Core failed to load".          *)
NoBitstream ==
  /\ Goto("pick", "top")
  /\ \E i \in Ids \ {want} : Got(i) /\ active' = i
  /\ want' = None
  /\ UNCHANGED <<fpga, rate, flags, history>>

(* For two seconds the core is asked who it is.                            *)
Poll ==
  /\ Goto("wait", "poll")
  /\ Query
  /\ UNCHANGED <<fpga, rate, active, flags, want, late, history>>

(* Mutant: any answer will do.                                             *)
PolledAny ==
  /\ pc = "poll"
  /\ \E i \in Ids : Got(i) /\ active' = i /\ pc' = IF i = None THEN "wait" ELSE "load"
  /\ UNCHANGED <<fpga, rate, flags, want, history>>

Polled ==
  /\ pc = "poll"
  /\ \E i \in Ids : Got(i) /\ active' = i /\ pc' = IF i = want THEN "load" ELSE "wait"
  /\ UNCHANGED <<fpga, rate, flags, want, history>>

PollEnds ==
  /\ Goto("wait", "top")
  /\ active # want
  /\ want' = None
  /\ UNCHANGED <<fpga, rate, asked, active, flags, history>>

-----------------------------------------------------------------------------
(* The loaders, after apply_saved_core_options.                            *)

(* Mutant: the saved options are not applied.                              *)
StartUnset(bios) ==
  /\ fpga' = IF Heard
               THEN [fpga EXCEPT !.game = want, !.bios = bios]
               ELSE fpga
  /\ unread' = FALSE

(* What a loader that got as far as set_loading_state leaves.              *)
Start(bios) ==
  \E w \in {want, None} :
    /\ fpga' = IF Heard
                 THEN [fpga EXCEPT !.word = w, !.game = want, !.bios = bios]
                 ELSE fpga
    /\ unread' = (w = None)

LoadEnds ==
  /\ Goto("load", "top")
  /\ want' = None
  /\ unsaved' = FALSE
  /\ UNCHANGED <<rate, asked, active, jtags, lastProg, before>>

(* The extension is wrong or a file is missing: only the options were sent. *)
LoadRefused ==
  /\ LoadEnds
  /\ ApplySaved(want)
  /\ UNCHANGED <<flags, biosFailed>>

(* core_running is false when the copy loop was not reached.               *)
LoadRom ==
  /\ LoadEnds
  /\ want \notin {Gba, Pc, Cd}
  /\ Start(fpga.bios)
  /\ running' \in BOOLEAN
  /\ UNCHANGED <<gba, biosFailed>>

(* Mutant: the BIOS counts as loaded before it is.                         *)
LoadGbaEarly ==
  /\ LoadEnds
  /\ want = Gba
  /\ running' = TRUE
  /\ gba' = "loaded"
  /\ \E sent \in BOOLEAN : Start(fpga.bios \/ sent)
  /\ UNCHANGED biosFailed

(* loadgba: the image, then gba_load_bios, which does nothing if the BIOS   *)
(* was sent or missed once.                                                *)
LoadGba ==
  /\ LoadEnds
  /\ want = Gba
  /\ running' = TRUE
  /\ \/ gba # "neither" /\ Start(fpga.bios) /\ UNCHANGED <<gba, biosFailed>>
     \/ /\ gba = "neither"
        /\ \/ gba' = "warned" /\ Start(fpga.bios) /\ UNCHANGED biosFailed
           \/ gba' = "neither" /\ Start(fpga.bios) /\ biosFailed' = TRUE
           \/ gba' = "loaded" /\ Start(fpga.bios) /\ biosFailed' = TRUE
           \/ gba' = "loaded" /\ Start(TRUE) /\ biosFailed' = (biosFailed \/ ~Heard)

(* f_lseek fails: the core is started on what it has.                      *)
LoadGbaSeekFails ==
  /\ LoadEnds
  /\ want = Gba
  /\ Start(fpga.bios)
  /\ running' = FALSE
  /\ biosFailed' = TRUE
  /\ UNCHANGED gba

(* loadpc sends the BIOS unless a game runs; then only the floppy changes. *)
LoadPc ==
  /\ LoadEnds
  /\ want = Pc
  /\ \/ running /\ Start(fpga.bios) /\ UNCHANGED biosFailed
     \/ ~running /\ Start(TRUE) /\ biosFailed' = (biosFailed \/ ~Heard)
     \/ ~running /\ Start(fpga.bios) /\ biosFailed' = TRUE
  /\ running' = TRUE
  /\ UNCHANGED gba

(* neocd_boot.                                                             *)
LoadCd ==
  /\ LoadEnds
  /\ want = Cd
  /\ Start(fpga.bios)
  /\ running' \in BOOLEAN
  /\ UNCHANGED <<gba, biosFailed>>

-----------------------------------------------------------------------------
Load ==
  \/ LoadRefused \/ LoadRom
  \/ LoadGba \/ LoadGbaSeekFails \/ LoadPc \/ LoadCd

Next ==
  \/ RxCoreId \/ CoreStarts
  \/ \E c \in Cores : JtagProgram(c) \/ PickCore(c)
  \/ Boot \/ NoMonitor
  \/ AskUndetected \/ Detected \/ AskRedraw \/ Redrawn \/ NotDue \/ NoKey
  \/ SetOption
  \/ \E s \in Systems : PickGame(s)
  \/ CoreFits \/ CoreDiffers \/ NoBitstream \/ Poll \/ Polled \/ PollEnds
  \/ Load

Spec == Init /\ [][Next]_vars

-----------------------------------------------------------------------------
(* Enough for an answer of a core that is gone to name the wanted one.     *)
Misled == late + jtags >= 2

(* A loader runs only on the core it is for: get_core_id's answers cannot  *)
(* be told apart, but it takes two late ones (or one, and a bitstream       *)
(* written by a PC) for an answer of a core that is gone to name the       *)
(* wanted one.                                                             *)
LoaderOnItsCore == fpga.game # None => fpga.game = fpga.core \/ Misled

(* "restore the options saved for this core before the game starts", and   *)
(* the options menu stores what it sends: a loaded game runs with the word  *)
(* of its core's option file, unless the file could not be read at its     *)
(* load, and until storing fails or a failed programming leaves the core   *)
(* deaf.                                                                   *)
OptionsInForce ==
  fpga.game # None /\ ~Misled =>
    fpga.word = fpga.core \/ unsaved \/ unread \/ lastProg = "failed"

(* The two ends of the link disagree on its rate only after a programming   *)
(* that failed, or one that did not go through fpga_program.               *)
DeafHasCause ==
  fpga.core # NoCore /\ rate # RateOf(fpga.core) => lastProg # "ok"

(* A PC or a Game Boy Advance game runs without its BIOS only if the BIOS   *)
(* could not be read, or if core_running or gba_bios_loaded was left set by *)
(* the core before: nothing resets them when the FPGA is configured.       *)
NoBiosHasCause ==
  fpga.game # None /\ ~Misled /\ ~fpga.bios /\ ~biosFailed =>
    /\ fpga.game = Pc => before.running
    /\ fpga.game = Gba => gba = "warned" \/ before.gba
=============================================================================
