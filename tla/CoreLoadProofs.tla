--------------------------- MODULE CoreLoadProofs ---------------------------
(***************************************************************************)
(* What CoreLoad promises for any set of systems and any number of late    *)
(* answers.                                                                *)
(*                                                                         *)
(* The argument: an answer that comes late stays in the pipe, so that at   *)
(* most `late' of them are ahead of a new question (Bounded).  As long as  *)
(* not Misled, either none is, or one is and no PC writes the FPGA.  Then  *)
(* the question of every redraw flushes what a former core answered before *)
(* a game can be picked (Current), and a core that is polled after its     *)
(* programming is not the wanted one only if no answer says it is          *)
(* (Polling).  Loaded and Bios follow a game from there.                   *)
(***************************************************************************)
EXTENDS CoreLoad, TLAPS

Pending == IF pc \in Asking /\ core_id = None THEN 1 ELSE 0
Bounded == Len(up) <= late + Pending

Wanted == pc \in {"pick", "wait", "poll", "load"} => want \in Systems

Types == TypeOK /\ Bounded /\ Wanted /\ DeafHasCause

AllUp(c) == \A n \in 1..Len(up) : up[n] = c

Current ==
  /\ pc \in {"menu", "draw", "keys", "pick"} => AllUp(fpga.core)
  /\ pc = "pick" /\ core_id # None => core_id = fpga.core
  /\ pc \in {"redraw", "detect", "detectTop"} =>
       \A n \in 1..Len(up) : n > 1 \/ core_id # None \/ late = 0 => up[n] = fpga.core

(* After the answer of the wanted core come only more of them.             *)
Polling ==
  /\ pc \in {"wait", "poll"} =>
       /\ \A n \in 1..Len(up) : up[n] = want => fpga.core \in {want, NoCore}
       /\ \A m, n \in 1..Len(up) : m < n /\ up[m] = want => up[n] = want
  /\ pc = "poll" /\ core_id = want => fpga.core \in {want, NoCore} /\ AllUp(want)
  /\ pc = "load" => fpga.core \in {want, NoCore} /\ AllUp(want)

Loaded ==
  fpga.game # None =>
    /\ fpga.game = fpga.core /\ fpga.awake
    /\ rate = RateOf(fpga.core) \/ lastProg = "failed"
    /\ AllUp(fpga.core)
    /\ pc \in Asking => core_id \in {None, fpga.core}
    /\ pc \in {"menu", "keys"} => active \in {None, fpga.core}
    /\ fpga.word = fpga.core \/ unsaved \/ unread \/ lastProg = "failed"

Bios ==
  /\ fpga.core = Pc /\ running /\ ~before.running /\ ~biosFailed => fpga.bios
  /\ fpga.core = Gba /\ gba = "loaded" /\ ~before.gba /\ ~biosFailed => fpga.bios
  /\ fpga.game = Pc /\ ~fpga.bios /\ ~biosFailed => before.running
  /\ fpga.game = Gba /\ ~fpga.bios /\ ~biosFailed => gba = "warned" \/ before.gba

Facts == Current /\ Polling /\ Loaded /\ Bios
IInv == Types /\ (~Misled => Facts)

-----------------------------------------------------------------------------
LEMMA InitIInv == Init => IInv
<1> SUFFICES ASSUME Init PROVE IInv
  OBVIOUS
<1>1. /\ Erased \in [core : Cores \cup {NoCore}, awake : BOOLEAN, word : Systems \cup {None},
                     game : Systems \cup {None}, bios : BOOLEAN]
      /\ Erased.core = NoCore /\ Erased.game = None
  BY DEF Erased
<1>2. /\ <<>> \in Seq(Cores) /\ Len(<<>>) = 0
      /\ pc = "boot" /\ up = <<>> /\ core_id = None /\ fpga = Erased /\ late = 0
  BY DEF Init
<1>3. TypeOK
  <2>1. before \in [running : BOOLEAN, gba : BOOLEAN] /\ late \in 0..MaxLate
                                                      /\ jtags \in 0..MaxJtag
    BY CoreLoadAssumption DEF Init
  <2>2. up \in Seq(Cores) /\ Len(up) <= MaxLate + 1
    BY <1>2, CoreLoadAssumption
  <2> QED
    BY <1>1, <1>2, <2>1, <2>2 DEF Init, TypeOK, Ids, Rate
<1>4. Bounded /\ Wanted /\ DeafHasCause
  BY <1>1, <1>2 DEF Bounded, Pending, Wanted, DeafHasCause, Asking
<1>5. Facts
  BY <1>1, <1>2, CoreLoadAssumption DEF Facts, Current, Polling, Loaded, Bios
<1> QED
  BY <1>3, <1>4, <1>5 DEF IInv, Types

(* What the pipe looks like after a question, and after an answer was read. *)
LEMMA QueryPipe ==
  ASSUME TypeOK, Query
  PROVE  /\ core_id' = None
         /\ \/ up' = up /\ ~Heard
            \/ /\ Heard /\ fpga.core \in Cores
               /\ up' \in Seq(Cores) /\ Len(up') = Len(up) + 1
               /\ up'[Len(up) + 1] = fpga.core
               /\ \A n \in 1..Len(up) : up'[n] = up[n]
BY CoreLoadAssumption DEF TypeOK, Query, Heard, Cores

LEMMA AnswerPipe ==
  ASSUME TypeOK, RxCoreId
  PROVE  /\ up' \in Seq(Cores) /\ Len(up) > 0 /\ Len(up') = Len(up) - 1
         /\ core_id' = up[1] /\ core_id' \in Cores /\ core_id' # None
         /\ \A n \in 1..Len(up') : up'[n] = up[n + 1]
BY CoreLoadAssumption DEF TypeOK, RxCoreId, Cores

Fpgas == [core : Cores \cup {NoCore}, awake : BOOLEAN, word : Systems \cup {None},
          game : Systems \cup {None}, bios : BOOLEAN]

(* What configuring leaves in the FPGA, option words and loaders set.      *)
LEMMA Blank ==
  ASSUME NEW c \in Cores
  PROVE  /\ Fresh(c) \in Fpgas /\ Fresh(c).core = c /\ Fresh(c).game = None /\ ~Fresh(c).bios
         /\ Erased \in Fpgas /\ Erased.core = NoCore /\ Erased.game = None /\ ~Erased.bios
<1>1. Erased \in Fpgas /\ Erased.core = NoCore /\ Erased.game = None /\ ~Erased.bios
  BY DEF Erased, Fpgas
<1> QED
  BY <1>1 DEF Fresh, Fpgas

(* A step that does not touch the link or the history of programming.      *)
LEMMA TypeKept ==
  ASSUME TypeOK, fpga' \in Fpgas, running' \in BOOLEAN, gba' \in {"neither", "loaded", "warned"},
         pc' \in {"top", pc}, want' \in {want, None}, biosFailed' \in BOOLEAN,
         unsaved' \in BOOLEAN, unread' \in BOOLEAN,
         UNCHANGED <<rate, up, core_id, active, late, jtags, lastProg, before>>
  PROVE  TypeOK'
<1>1. UNCHANGED rate /\ UNCHANGED up /\ UNCHANGED core_id /\ UNCHANGED active /\ UNCHANGED late
      /\ UNCHANGED jtags /\ UNCHANGED lastProg /\ UNCHANGED before
  OBVIOUS
<1> QED
  BY <1>1, Zenon DEF TypeOK, Fpgas

LEMMA ProgramFpga ==
  ASSUME TypeOK, NEW c \in Cores, Program(c)
  PROVE  /\ fpga' \in Fpgas /\ rate' = RateOf(c) /\ rate' \in Rate
         /\ lastProg' \in {"ok", "failed"} /\ before' \in [running : BOOLEAN, gba : BOOLEAN]
         /\ biosFailed' \in BOOLEAN /\ UNCHANGED <<jtags, options>>
         /\ \/ /\ fpga'.game = None /\ ~fpga'.bios /\ fpga'.core \in {c, NoCore}
               /\ fpga'.core = NoCore \/ rate' = RateOf(fpga'.core)
               /\ before'.running = running /\ before'.gba = (gba = "loaded")
            \/ fpga' = fpga /\ lastProg' = "failed" /\ UNCHANGED <<before, biosFailed>>
<1>1. /\ Fresh(c) \in Fpgas /\ Fresh(c).core = c /\ Fresh(c).game = None /\ ~Fresh(c).bios
      /\ Erased \in Fpgas /\ Erased.core = NoCore /\ Erased.game = None /\ ~Erased.bios
  BY Blank
<1>2. rate' = RateOf(c) /\ rate' \in Rate /\ UNCHANGED <<jtags, options>>
  BY DEF Program, RateOf, Rate
<1>3. CASE fpga' = Fresh(c) /\ Configured("ok")
  BY <1>1, <1>2, <1>3 DEF TypeOK, Configured
<1>4. CASE fpga' = fpga /\ lastProg' = "failed" /\ UNCHANGED <<before, biosFailed>>
  BY <1>2, <1>4 DEF TypeOK, Fpgas
<1>5. CASE fpga' = Erased /\ Configured("failed")
  BY <1>1, <1>2, <1>5 DEF TypeOK, Configured
<1> QED
  BY <1>3, <1>4, <1>5 DEF Program

LEMMA ConfigureFpga ==
  ASSUME TypeOK, NEW c \in Systems, ApplySaved(c)
  PROVE  /\ unread' \in BOOLEAN /\ fpga' \in Fpgas /\ fpga'.core = fpga.core /\ fpga'.awake = fpga.awake
         /\ fpga'.game = fpga.game /\ fpga'.bios = fpga.bios
         /\ fpga'.word = IF Heard THEN (IF unread' THEN None ELSE c) ELSE fpga.word
BY CoreLoadAssumption DEF TypeOK, ApplySaved, Configure, Fpgas

LEMMA StartFpga ==
  ASSUME TypeOK, want \in Systems, NEW b \in BOOLEAN, Start(b)
  PROVE  /\ unread' \in BOOLEAN
         /\ fpga' \in Fpgas /\ fpga'.core = fpga.core /\ fpga'.awake = fpga.awake
         /\ Heard => (unread' \/ fpga'.word = want) /\ fpga'.game = want /\ fpga'.bios = b
         /\ ~Heard => fpga' = fpga
BY CoreLoadAssumption DEF TypeOK, Start, Fpgas

-----------------------------------------------------------------------------
(* uart1_rx_task stores an answer.                                         *)
LEMMA AnswerIInv == ASSUME IInv, RxCoreId PROVE IInv'
<1> USE CoreLoadAssumption
        DEF IInv, Types, TypeOK, Bounded, Pending, Wanted, DeafHasCause, Asking, Cores, Ids,
            Rate, Misled, history, options, asked, flags
<1>1. Types'
  BY AnswerPipe DEF RxCoreId
<1>2. ASSUME ~Misled' PROVE Facts'
  BY <1>2, AnswerPipe DEF Facts, Current, Polling, Loaded, Bios, AllUp, RxCoreId
<1> QED
  BY <1>1, <1>2

-----------------------------------------------------------------------------
(* The questions of main_task.                                             *)
LEMMA AskIInv ==
  ASSUME IInv, AskUndetected \/ AskRedraw \/ (\E s \in Systems : PickGame(s)) \/ Poll
  PROVE  IInv'
<1> USE CoreLoadAssumption
        DEF IInv, Types, TypeOK, Bounded, Pending, Wanted, DeafHasCause, Asking, Cores, Ids,
            Rate, Misled, history, options, asked, flags
<1>1. CASE AskUndetected
  <2>1. Types'
    BY <1>1, QueryPipe DEF AskUndetected, Goto
  <2>2. ASSUME ~Misled' PROVE Facts'
    BY <1>1, <2>2, QueryPipe DEF Facts, Current, Polling, Loaded, Bios, AllUp, AskUndetected, Goto
  <2> QED
    BY <2>1, <2>2
<1>2. CASE AskRedraw
  <2>1. Types'
    BY <1>2, QueryPipe DEF AskRedraw, Goto
  <2>2. ASSUME ~Misled' PROVE Facts'
    BY <1>2, <2>2, QueryPipe DEF Facts, Current, Polling, Loaded, Bios, AllUp, AskRedraw, Goto
  <2> QED
    BY <2>1, <2>2
<1>3. CASE \E s \in Systems : PickGame(s)
  <2> PICK s \in Systems : PickGame(s)
    BY <1>3
  <2>1. Types'
    BY QueryPipe DEF PickGame, Goto
  <2>2. ASSUME ~Misled' PROVE Facts'
    BY <2>2, QueryPipe DEF Facts, Current, Polling, Loaded, Bios, AllUp, PickGame, Goto
  <2> QED
    BY <2>1, <2>2
<1>4. CASE Poll
  <2>1. Types'
    BY <1>4, QueryPipe DEF Poll, Goto
  <2>2. ASSUME ~Misled' PROVE Facts'
    BY <1>4, <2>2, QueryPipe DEF Facts, Current, Polling, Loaded, Bios, AllUp, Poll, Goto
  <2> QED
    BY <2>1, <2>2
<1> QED
  BY <1>1, <1>2, <1>3, <1>4

-----------------------------------------------------------------------------
(* And what it makes of the answers.                                       *)
LEMMA GotIInv ==
  ASSUME IInv, Detected \/ Redrawn \/ CoreFits \/ NoBitstream \/ Polled
  PROVE  IInv'
<1> USE CoreLoadAssumption
        DEF IInv, Types, TypeOK, Bounded, Pending, Wanted, DeafHasCause, Asking, Cores, Ids,
            Rate, Misled, history, options, asked, flags
<1>1. CASE Detected
  <2>1. Types'
    <3>1. fpga' \in Fpgas /\ fpga'.core = fpga.core /\ unread' \in BOOLEAN
      <4>1. (\E i \in Systems : ApplySaved(i)) \/ UNCHANGED <<fpga, unread>>
        BY <1>1 DEF Detected
      <4>2. fpga \in Fpgas
        BY DEF Fpgas
      <4>3. TypeOK
        OBVIOUS
      <4> HIDE DEF TypeOK
      <4>4. unread \in BOOLEAN
        BY <4>3 DEF TypeOK
      <4> QED
        BY <4>1, <4>2, <4>3, <4>4, ConfigureFpga
    <3>2. /\ UNCHANGED <<rate, up, core_id, running, gba, want, jtags, lastProg, before, biosFailed,
                        unsaved>>
          /\ active' = core_id /\ pc' \in {"draw", "keys"}
          /\ late' = late \/ (late' = late + 1 /\ late < MaxLate)
          /\ core_id = None /\ up # <<>> => late' = late + 1
          /\ pc \in {"detect", "detectTop"}
      BY <1>1 DEF Detected, Goto, Got
    <3>3. TypeOK'
      BY <3>1, <3>2 DEF Fpgas
    <3>4. Bounded' /\ Wanted' /\ DeafHasCause'
      BY <3>1, <3>2
    <3> QED
      BY <3>3, <3>4
  <2>2. ASSUME ~Misled' PROVE Facts'
    BY <1>1, <2>2
       DEF Facts, Current, Polling, Loaded, Bios, AllUp, Detected, Goto, Got, ApplySaved, Configure,
           Heard
  <2> QED
    BY <2>1, <2>2
<1>2. CASE Redrawn
  <2>1. Types'
    BY <1>2 DEF Redrawn, Goto, Got
  <2>2. ASSUME ~Misled' PROVE Facts'
    BY <1>2, <2>2 DEF Facts, Current, Polling, Loaded, Bios, AllUp, Redrawn, Goto, Got
  <2> QED
    BY <2>1, <2>2
<1>3. CASE CoreFits
  <2>1. Types'
    BY <1>3 DEF CoreFits, Goto, Got
  <2>2. ASSUME ~Misled' PROVE Facts'
    BY <1>3, <2>2 DEF Facts, Current, Polling, Loaded, Bios, AllUp, CoreFits, Goto, Got
  <2> QED
    BY <2>1, <2>2
<1>4. CASE NoBitstream
  <2>1. Types'
    BY <1>4 DEF NoBitstream, Goto, Got
  <2>2. ASSUME ~Misled' PROVE Facts'
    BY <1>4, <2>2 DEF Facts, Current, Polling, Loaded, Bios, AllUp, NoBitstream, Goto, Got
  <2> QED
    BY <2>1, <2>2
<1>5. CASE Polled
  <2>1. Types'
    BY <1>5 DEF Polled, Got
  <2>2. ASSUME ~Misled' PROVE Facts'
    BY <1>5, <2>2 DEF Facts, Current, Polling, Loaded, Bios, AllUp, Polled, Got
  <2> QED
    BY <2>1, <2>2
<1> QED
  BY <1>1, <1>2, <1>3, <1>4, <1>5

-----------------------------------------------------------------------------
(* The FPGA is configured.                                                 *)
LEMMA ProgramIInv ==
  ASSUME IInv, Boot \/ (\E c \in Cores : PickCore(c)) \/ CoreDiffers
               \/ (\E c \in Cores : JtagProgram(c))
  PROVE  IInv'
<1> USE CoreLoadAssumption
        DEF IInv, Types, TypeOK, Bounded, Pending, Wanted, DeafHasCause, Asking, Cores, Ids,
            Rate, Misled, history, options, asked, flags, Fpgas
<1>1. CASE Boot
  <2>1. /\ fpga' \in Fpgas /\ rate' = RateOf(Monitor) /\ rate' \in Rate
        /\ UNCHANGED <<jtags, options>>
        /\ lastProg' \in {"ok", "failed"} /\ before' \in [running : BOOLEAN, gba : BOOLEAN]
        /\ biosFailed' \in BOOLEAN
        /\ \/ /\ fpga'.game = None /\ ~fpga'.bios /\ fpga'.core \in {Monitor, NoCore}
              /\ fpga'.core = NoCore \/ rate' = RateOf(fpga'.core)
              /\ before'.running = running /\ before'.gba = (gba = "loaded")
           \/ fpga' = fpga /\ lastProg' = "failed" /\ UNCHANGED <<before, biosFailed>>
    BY <1>1, ProgramFpga DEF Boot, Goto
  <2>2. Types'
    <3>1. TypeOK'
      BY <1>1, <2>1 DEF Boot, Goto
    <3>2. Bounded' /\ Wanted' /\ DeafHasCause'
      BY <1>1, <2>1 DEF Boot, Goto
    <3> QED
      BY <3>1, <3>2
  <2>3. ASSUME ~Misled' PROVE Facts'
    BY <1>1, <2>3, <2>1 DEF Facts, Current, Polling, Loaded, Bios, AllUp, Boot, Goto
  <2> QED
    BY <2>2, <2>3
<1>2. CASE \E c \in Cores : PickCore(c)
  <2> PICK c \in Cores : PickCore(c)
    BY <1>2
  <2>1. /\ fpga' \in Fpgas /\ rate' = RateOf(c) /\ rate' \in Rate /\ UNCHANGED <<jtags, options>>
        /\ lastProg' \in {"ok", "failed"} /\ before' \in [running : BOOLEAN, gba : BOOLEAN]
        /\ biosFailed' \in BOOLEAN
        /\ \/ /\ fpga'.game = None /\ ~fpga'.bios /\ fpga'.core \in {c, NoCore}
              /\ fpga'.core = NoCore \/ rate' = RateOf(fpga'.core)
              /\ before'.running = running /\ before'.gba = (gba = "loaded")
           \/ fpga' = fpga /\ lastProg' = "failed" /\ UNCHANGED <<before, biosFailed>>
    BY ProgramFpga DEF PickCore, Goto
  <2>2. Types'
    <3>1. TypeOK'
      BY <2>1 DEF PickCore, Goto
    <3>2. Bounded' /\ Wanted' /\ DeafHasCause'
      BY <2>1 DEF PickCore, Goto
    <3> QED
      BY <3>1, <3>2
  <2>3. ASSUME ~Misled' PROVE Facts'
    BY <2>3, <2>1 DEF Facts, Current, Polling, Loaded, Bios, AllUp, PickCore, Goto
  <2> QED
    BY <2>2, <2>3
<1>3. CASE CoreDiffers
  <2>1. /\ fpga' \in Fpgas /\ rate' = RateOf(want) /\ rate' \in Rate
        /\ UNCHANGED <<jtags, options>>
        /\ lastProg' \in {"ok", "failed"} /\ before' \in [running : BOOLEAN, gba : BOOLEAN]
        /\ biosFailed' \in BOOLEAN
        /\ \/ /\ fpga'.game = None /\ ~fpga'.bios /\ fpga'.core \in {want, NoCore}
              /\ fpga'.core = NoCore \/ rate' = RateOf(fpga'.core)
              /\ before'.running = running /\ before'.gba = (gba = "loaded")
           \/ fpga' = fpga /\ lastProg' = "failed" /\ UNCHANGED <<before, biosFailed>>
    BY <1>3, ProgramFpga DEF CoreDiffers, Goto, Got
  <2>2. Types'
    <3>1. TypeOK'
      BY <1>3, <2>1 DEF CoreDiffers, Goto, Got
    <3>2. Bounded' /\ Wanted' /\ DeafHasCause'
      BY <1>3, <2>1 DEF CoreDiffers, Goto, Got
    <3> QED
      BY <3>1, <3>2
  <2>3. ASSUME ~Misled' PROVE Facts'
    BY <1>3, <2>3, <2>1 DEF Facts, Current, Polling, Loaded, Bios, AllUp, CoreDiffers, Goto, Got
  <2> QED
    BY <2>2, <2>3
<1>4. CASE \E c \in Cores : JtagProgram(c)
  <2> PICK c \in Cores : JtagProgram(c)
    BY <1>4
  <2>1. /\ fpga' = Fresh(c)
        /\ UNCHANGED <<rate, up, core_id, late, active, running, gba, pc, want, options>>
        /\ jtags' = jtags + 1 /\ jtags' \in 0..MaxJtag /\ pc \in {"menu", "keys"}
        /\ lastProg' = "jtag" /\ ~biosFailed'
        /\ before' = [running |-> running, gba |-> gba = "loaded"]
    BY DEF JtagProgram, Configured
  <2>2. /\ fpga' \in Fpgas /\ fpga'.core = c /\ fpga'.game = None /\ ~fpga'.bios
        /\ before' \in [running : BOOLEAN, gba : BOOLEAN]
        /\ before'.running = running /\ before'.gba = (gba = "loaded")
    BY <2>1, Blank
  <2>3. Types'
    <3>1. TypeOK'
      <4>1. /\ pc' = pc /\ up' = up /\ rate' = rate /\ core_id' = core_id /\ late' = late
            /\ active' = active /\ running' = running /\ gba' = gba /\ want' = want
            /\ unsaved' = unsaved /\ unread' = unread
        BY <2>1
      <4>2. lastProg' \in {"ok", "failed", "jtag"} /\ biosFailed' \in BOOLEAN
        BY DEF JtagProgram, Configured
      <4> QED
        BY <2>1, <2>2, <4>1, <4>2, Zenon
    <3>2. Bounded' /\ Wanted' /\ DeafHasCause'
      BY <2>1
    <3> QED
      BY <3>1, <3>2
  <2>4. ASSUME ~Misled' PROVE Facts'
    <3>1. late = 0 /\ Len(up) = 0
      BY <2>1, <2>4
    <3>3. None # Pc /\ None # Gba
      OBVIOUS
    <3>4. Current' /\ Polling'
      BY <2>1, <3>1 DEF Current, Polling, AllUp
    <3>5. Loaded' /\ Bios'
      BY <2>1, <2>2, <3>3 DEF Loaded, Bios
    <3> QED
      BY <3>4, <3>5 DEF Facts
  <2> QED
    BY <2>3, <2>4
<1> QED
  BY <1>1, <1>2, <1>3, <1>4

-----------------------------------------------------------------------------
(* The menu otherwise.                                                     *)
LEMMA IdleIInv ==
  ASSUME IInv, CoreStarts \/ NoMonitor \/ NotDue \/ NoKey \/ PollEnds \/ SetOption
  PROVE  IInv'
<1> USE CoreLoadAssumption
        DEF IInv, Types, TypeOK, Bounded, Pending, Wanted, DeafHasCause, Asking, Cores, Ids,
            Rate, Misled, history, options, asked, flags
<1>1. CASE CoreStarts
  <2>1. Types'
    <3>1. TypeOK'
      <4>1. fpga' \in Fpgas
        BY <1>1 DEF CoreStarts, Fpgas
      <4>2. /\ running \in BOOLEAN /\ gba \in {"neither", "loaded", "warned"}
            /\ biosFailed \in BOOLEAN /\ unsaved \in BOOLEAN /\ unread \in BOOLEAN
        OBVIOUS
      <4> HIDE DEF TypeOK
      <4> QED
        BY <1>1, <4>1, <4>2, TypeKept DEF CoreStarts
    <3>2. Bounded' /\ Wanted' /\ DeafHasCause'
      BY <1>1 DEF CoreStarts
    <3> QED
      BY <3>1, <3>2
  <2>2. ASSUME ~Misled' PROVE Facts'
    BY <1>1, <2>2 DEF Facts, Current, Polling, Loaded, Bios, AllUp, CoreStarts
  <2> QED
    BY <2>1, <2>2
<1>2. CASE NoMonitor
  <2>1. Types'
    <3>1. TypeOK'
      BY <1>2 DEF NoMonitor, Goto
    <3>2. Bounded' /\ Wanted' /\ DeafHasCause'
      BY <1>2 DEF NoMonitor, Goto
    <3> QED
      BY <3>1, <3>2
  <2>2. ASSUME ~Misled' PROVE Facts'
    BY <1>2, <2>2 DEF Facts, Current, Polling, Loaded, Bios, AllUp, NoMonitor, Goto
  <2> QED
    BY <2>1, <2>2
<1>3. CASE NotDue
  <2>1. Types'
    <3>1. TypeOK'
      BY <1>3 DEF NotDue, Goto
    <3>2. Bounded' /\ Wanted' /\ DeafHasCause'
      BY <1>3 DEF NotDue, Goto
    <3> QED
      BY <3>1, <3>2
  <2>2. ASSUME ~Misled' PROVE Facts'
    BY <1>3, <2>2 DEF Facts, Current, Polling, Loaded, Bios, AllUp, NotDue, Goto
  <2> QED
    BY <2>1, <2>2
<1>4. CASE NoKey
  <2>1. Types'
    <3>1. TypeOK'
      BY <1>4 DEF NoKey, Goto
    <3>2. Bounded' /\ Wanted' /\ DeafHasCause'
      BY <1>4 DEF NoKey, Goto
    <3> QED
      BY <3>1, <3>2
  <2>2. ASSUME ~Misled' PROVE Facts'
    BY <1>4, <2>2 DEF Facts, Current, Polling, Loaded, Bios, AllUp, NoKey, Goto
  <2> QED
    BY <2>1, <2>2
<1>5. CASE PollEnds
  <2>1. Types'
    <3>1. TypeOK'
      BY <1>5 DEF PollEnds, Goto
    <3>2. Bounded' /\ Wanted' /\ DeafHasCause'
      BY <1>5 DEF PollEnds, Goto
    <3> QED
      BY <3>1, <3>2
  <2>2. ASSUME ~Misled' PROVE Facts'
    BY <1>5, <2>2 DEF Facts, Current, Polling, Loaded, Bios, AllUp, PollEnds, Goto
  <2> QED
    BY <2>1, <2>2
<1>6. CASE SetOption
  <2>1. Types'
    <3>1. TypeOK'
      <4>1. active \in Systems /\ unsaved' \in BOOLEAN /\ unread' \in BOOLEAN /\ pc' = "top"
        BY <1>6 DEF SetOption, Goto
      <4>2. fpga' \in Fpgas
        BY <1>6, <4>1 DEF SetOption, Configure, Fpgas
      <4>3. UNCHANGED <<rate, up, core_id, active, late, running, gba, want, jtags, lastProg, before,
                        biosFailed>>
        BY <1>6 DEF SetOption
      <4>4. TypeOK /\ running \in BOOLEAN /\ gba \in {"neither", "loaded", "warned"}
            /\ biosFailed \in BOOLEAN
        OBVIOUS
      <4> HIDE DEF TypeOK
      <4> QED
        BY <4>1, <4>2, <4>3, <4>4, TypeKept
    <3>2. Bounded' /\ Wanted' /\ DeafHasCause'
      BY <1>6 DEF SetOption, Goto, Configure, Heard, RateOf
    <3> QED
      BY <3>1, <3>2
  <2>2. ASSUME ~Misled' PROVE Facts'
    BY <1>6, <2>2
       DEF Facts, Current, Polling, Loaded, Bios, AllUp, SetOption, Goto, Configure, Heard, RateOf
  <2> QED
    BY <2>1, <2>2
<1> QED
  BY <1>1, <1>2, <1>3, <1>4, <1>5, <1>6

-----------------------------------------------------------------------------
(* The loaders.                                                            *)
LEMMA LoadIInv ==
  ASSUME IInv, LoadRefused \/ LoadRom \/ LoadGba \/ LoadGbaSeekFails \/ LoadPc \/ LoadCd
  PROVE  IInv'
<1> USE CoreLoadAssumption
        DEF IInv, Types, TypeOK, Bounded, Pending, Wanted, DeafHasCause, Asking, Cores, Ids,
            Rate, Misled, history, options, asked, flags, Fpgas, Heard
<1>1. CASE LoadRefused
  <2>1. /\ want \in Systems /\ fpga' \in Fpgas /\ fpga'.core = fpga.core
        /\ fpga'.awake = fpga.awake
        /\ fpga'.game = fpga.game /\ fpga'.bios = fpga.bios
        /\ fpga'.word = IF Heard THEN (IF unread' THEN None ELSE want) ELSE fpga.word
        /\ unread' \in BOOLEAN
    BY <1>1, ConfigureFpga DEF LoadRefused, LoadEnds, Goto
  <2>2. Types'
    <3>1. TypeOK'
      <4>1. /\ running' \in BOOLEAN /\ gba' \in {"neither", "loaded", "warned"}
            /\ biosFailed' \in BOOLEAN
        BY <1>1 DEF LoadRefused
      <4> HIDE DEF TypeOK
      <4> QED
        BY <1>1, <2>1, <4>1, TypeKept DEF LoadRefused, LoadEnds, Goto
    <3>2. Bounded' /\ Wanted' /\ DeafHasCause'
      BY <1>1, <2>1 DEF LoadRefused, LoadEnds, Goto
    <3> QED
      BY <3>1, <3>2
  <2>3. ASSUME ~Misled' PROVE Facts'
    BY <1>1, <2>3, <2>1
       DEF Facts, Current, Polling, Loaded, Bios, AllUp, LoadRefused, LoadEnds, Goto
  <2> QED
    BY <2>2, <2>3
<1>2. CASE LoadRom
  <2>1. /\ want \in Systems /\ fpga' \in Fpgas /\ fpga'.core = fpga.core
        /\ fpga'.awake = fpga.awake
        /\ Heard => (unread' \/ fpga'.word = want) /\ fpga'.game = want
        /\ unread' \in BOOLEAN
        /\ ~Heard => fpga' = fpga
    BY <1>2, StartFpga DEF LoadRom, LoadEnds, Goto
  <2>2. Types'
    <3>1. TypeOK'
      <4>1. /\ running' \in BOOLEAN /\ gba' \in {"neither", "loaded", "warned"}
            /\ biosFailed' \in BOOLEAN
        BY <1>2 DEF LoadRom
      <4> HIDE DEF TypeOK
      <4> QED
        BY <1>2, <2>1, <4>1, TypeKept DEF LoadRom, LoadEnds, Goto
    <3>2. Bounded' /\ Wanted' /\ DeafHasCause'
      BY <1>2, <2>1 DEF LoadRom, LoadEnds, Goto
    <3> QED
      BY <3>1, <3>2
  <2>3. ASSUME ~Misled' PROVE Facts'
    BY <1>2, <2>3, <2>1 DEF Facts, Current, Polling, Loaded, Bios, AllUp, LoadRom, LoadEnds, Goto
  <2> QED
    BY <2>2, <2>3
<1>3. CASE LoadGba
  <2>1. /\ want \in Systems /\ fpga' \in Fpgas /\ fpga'.core = fpga.core
        /\ fpga'.awake = fpga.awake
        /\ Heard => (unread' \/ fpga'.word = want) /\ fpga'.game = want
        /\ unread' \in BOOLEAN
        /\ ~Heard => fpga' = fpga
    BY <1>3, StartFpga DEF LoadGba, LoadEnds, Goto
  <2>2. Types'
    <3>1. TypeOK'
      <4>1. /\ running' \in BOOLEAN /\ gba' \in {"neither", "loaded", "warned"}
            /\ biosFailed' \in BOOLEAN
        BY <1>3 DEF LoadGba
      <4> HIDE DEF TypeOK
      <4> QED
        BY <1>3, <2>1, <4>1, TypeKept DEF LoadGba, LoadEnds, Goto
    <3>2. Bounded' /\ Wanted' /\ DeafHasCause'
      BY <1>3, <2>1 DEF LoadGba, LoadEnds, Goto
    <3> QED
      BY <3>1, <3>2
  <2>3. ASSUME ~Misled' PROVE Facts'
    <3>1. fpga.bios \in BOOLEAN /\ \A b \in BOOLEAN : Start(b) /\ Heard => fpga'.bios = b
      BY <2>1, StartFpga
    <3>2. Current' /\ Polling' /\ Loaded'
      BY <1>3, <2>3, <2>1 DEF Facts, Current, Polling, Loaded, AllUp, LoadGba, LoadEnds, Goto
    <3>3. Bios'
      BY <1>3, <2>3, <2>1, <3>1 DEF Facts, Loaded, Polling, Bios, LoadGba, LoadEnds, Goto
    <3> QED
      BY <3>2, <3>3 DEF Facts
  <2> QED
    BY <2>2, <2>3
<1>4. CASE LoadGbaSeekFails
  <2>1. /\ want \in Systems /\ fpga' \in Fpgas /\ fpga'.core = fpga.core
        /\ fpga'.awake = fpga.awake
        /\ Heard => (unread' \/ fpga'.word = want) /\ fpga'.game = want
        /\ unread' \in BOOLEAN
        /\ ~Heard => fpga' = fpga
    BY <1>4, StartFpga DEF LoadGbaSeekFails, LoadEnds, Goto
  <2>2. Types'
    <3>1. TypeOK'
      <4>1. /\ running' \in BOOLEAN /\ gba' \in {"neither", "loaded", "warned"}
            /\ biosFailed' \in BOOLEAN
        BY <1>4 DEF LoadGbaSeekFails
      <4> HIDE DEF TypeOK
      <4> QED
        BY <1>4, <2>1, <4>1, TypeKept DEF LoadGbaSeekFails, LoadEnds, Goto
    <3>2. Bounded' /\ Wanted' /\ DeafHasCause'
      BY <1>4, <2>1 DEF LoadGbaSeekFails, LoadEnds, Goto
    <3> QED
      BY <3>1, <3>2
  <2>3. ASSUME ~Misled' PROVE Facts'
    BY <1>4, <2>3, <2>1
       DEF Facts, Current, Polling, Loaded, Bios, AllUp, LoadGbaSeekFails, LoadEnds, Goto
  <2> QED
    BY <2>2, <2>3
<1>5. CASE LoadPc
  <2>1. /\ want \in Systems /\ fpga' \in Fpgas /\ fpga'.core = fpga.core
        /\ fpga'.awake = fpga.awake
        /\ Heard => (unread' \/ fpga'.word = want) /\ fpga'.game = want
        /\ unread' \in BOOLEAN
        /\ ~Heard => fpga' = fpga
    BY <1>5, StartFpga DEF LoadPc, LoadEnds, Goto
  <2>2. Types'
    <3>1. TypeOK'
      <4>1. /\ running' \in BOOLEAN /\ gba' \in {"neither", "loaded", "warned"}
            /\ biosFailed' \in BOOLEAN
        BY <1>5 DEF LoadPc
      <4> HIDE DEF TypeOK
      <4> QED
        BY <1>5, <2>1, <4>1, TypeKept DEF LoadPc, LoadEnds, Goto
    <3>2. Bounded' /\ Wanted' /\ DeafHasCause'
      BY <1>5, <2>1 DEF LoadPc, LoadEnds, Goto
    <3> QED
      BY <3>1, <3>2
  <2>3. ASSUME ~Misled' PROVE Facts'
    <3>1. fpga.bios \in BOOLEAN /\ \A b \in BOOLEAN : Start(b) /\ Heard => fpga'.bios = b
      BY <2>1, StartFpga
    <3>2. Current' /\ Polling' /\ Loaded'
      BY <1>5, <2>3, <2>1 DEF Facts, Current, Polling, Loaded, AllUp, LoadPc, LoadEnds, Goto
    <3>3. Bios'
      BY <1>5, <2>3, <2>1, <3>1 DEF Facts, Loaded, Polling, Bios, LoadPc, LoadEnds, Goto
    <3> QED
      BY <3>2, <3>3 DEF Facts
  <2> QED
    BY <2>2, <2>3
<1>6. CASE LoadCd
  <2>1. /\ want \in Systems /\ fpga' \in Fpgas /\ fpga'.core = fpga.core
        /\ fpga'.awake = fpga.awake
        /\ Heard => (unread' \/ fpga'.word = want) /\ fpga'.game = want
        /\ unread' \in BOOLEAN
        /\ ~Heard => fpga' = fpga
    BY <1>6, StartFpga DEF LoadCd, LoadEnds, Goto
  <2>2. Types'
    <3>1. TypeOK'
      <4>1. /\ running' \in BOOLEAN /\ gba' \in {"neither", "loaded", "warned"}
            /\ biosFailed' \in BOOLEAN
        BY <1>6 DEF LoadCd
      <4> HIDE DEF TypeOK
      <4> QED
        BY <1>6, <2>1, <4>1, TypeKept DEF LoadCd, LoadEnds, Goto
    <3>2. Bounded' /\ Wanted' /\ DeafHasCause'
      BY <1>6, <2>1 DEF LoadCd, LoadEnds, Goto
    <3> QED
      BY <3>1, <3>2
  <2>3. ASSUME ~Misled' PROVE Facts'
    BY <1>6, <2>3, <2>1 DEF Facts, Current, Polling, Loaded, Bios, AllUp, LoadCd, LoadEnds, Goto
  <2> QED
    BY <2>2, <2>3
<1> QED
  BY <1>1, <1>2, <1>3, <1>4, <1>5, <1>6

-----------------------------------------------------------------------------
LEMMA InvariantHolds == Spec => []IInv
<1>1. IInv /\ [Next]_vars => IInv'
  <2> SUFFICES ASSUME IInv, [Next]_vars PROVE IInv'
    OBVIOUS
  <2>1. CASE UNCHANGED vars
    BY <2>1 DEF vars, IInv, Types, TypeOK, Bounded, Pending, Wanted, DeafHasCause, Misled,
                Facts, Current, Polling, Loaded, Bios, AllUp, history, options, asked, flags
  <2>2. CASE RxCoreId
    BY <2>2, AnswerIInv
  <2>3. CASE AskUndetected \/ AskRedraw \/ (\E s \in Systems : PickGame(s)) \/ Poll
    BY <2>3, AskIInv
  <2>4. CASE Detected \/ Redrawn \/ CoreFits \/ NoBitstream \/ Polled
    BY <2>4, GotIInv
  <2>5. CASE Boot \/ (\E c \in Cores : PickCore(c)) \/ CoreDiffers
             \/ (\E c \in Cores : JtagProgram(c))
    BY <2>5, ProgramIInv
  <2>6. CASE CoreStarts \/ NoMonitor \/ NotDue \/ NoKey \/ PollEnds \/ SetOption
    BY <2>6, IdleIInv
  <2>7. CASE Load
    BY <2>7, LoadIInv DEF Load
  <2> QED
    BY <2>1, <2>2, <2>3, <2>4, <2>5, <2>6, <2>7 DEF Next
<1> QED
  BY <1>1, InitIInv, PTL DEF Spec

(* The state keeps its types; at most as many answers are on their way as  *)
(* came late before, and one more while main_task waits.                   *)
THEOREM TypeCorrect == Spec => []TypeOK
BY InvariantHolds, PTL DEF IInv, Types

(* A loader of menu_loadrom runs only on the core it is for, whatever      *)
(* single answer of get_core_id is late, for any set of systems.           *)
THEOREM LoadersOnTheirCores == Spec => []LoaderOnItsCore
<1>1. IInv => LoaderOnItsCore
  BY DEF IInv, Facts, Loaded, LoaderOnItsCore
<1> QED
  BY <1>1, InvariantHolds, PTL

(* A loaded game runs with the option word of its core's file, unless      *)
(* reading or storing it, or a programming, fails.                         *)
THEOREM OptionsStayInForce == Spec => []OptionsInForce
<1>1. IInv => OptionsInForce
  BY DEF IInv, Facts, Loaded, OptionsInForce
<1> QED
  BY <1>1, InvariantHolds, PTL

(* fpga_program and fpga_link_baud_for keep the two ends of the link at    *)
(* one rate unless a programming fails or is not theirs.                   *)
THEOREM OnlyFailureDeafens == Spec => []DeafHasCause
BY InvariantHolds, PTL DEF IInv, Types

(* A game starts without the BIOS it needs only for the causes named: the  *)
(* BIOS could not be read, or a flag was left over from the core before.   *)
THEOREM BiosMissedForCause == Spec => []NoBiosHasCause
<1>1. IInv => NoBiosHasCause
  BY DEF IInv, Facts, Bios, NoBiosHasCause
<1> QED
  BY <1>1, InvariantHolds, PTL
=============================================================================
