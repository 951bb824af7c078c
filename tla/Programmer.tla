----------------------------- MODULE Programmer -----------------------------
(***************************************************************************)
(* Configuring the FPGA over bit-banged JTAG (fpga/programmer.cpp).        *)
(*                                                                         *)
(* The firmware walks the FPGA's TAP controller blindly: _state is where it *)
(* believes the TAP is, and set_state computes the TMS bits from it.  The  *)
(* record jtag holds both sides of the four wires: _state and the level of *)
(* TMS on this side; the TAP, its instruction register and the             *)
(* configuration engine on the other.  Every operation drives the TAP      *)
(* clock by clock, so a belief that is wrong has the consequences it has   *)
(* on the wires.  fpga_program is a script of operations; an action runs   *)
(* the next one.                                                           *)
(*                                                                         *)
(* A bitstream is a sequence of blocks of BlockBits bits, a bit is its     *)
(* number.  Clocks that only pass time are six.                            *)
(***************************************************************************)
EXTENDS Integers, Sequences

CONSTANTS Cores,         \* bitstream files
          NoCore,
          Blocks,        \* blocks of a bitstream
          BlockBits,
          Boards,        \* how the chain may answer, see Board
          MaxPrograms    \* calls of fpga_program followed

Board == {"good", "noErase", "unknown", "absent", "dead"}

ASSUME ProgrammerAssumption ==
  /\ NoCore \notin Cores
  /\ Blocks \in Nat \ {0}
  /\ BlockBits \in Nat \ {0}
  /\ Boards \subseteq Board
  /\ MaxPrograms \in Nat

VARIABLES
  jtag,      \* the wires and what is at their ends
  board,     \* the chain during this call
  pc,        \* where fpga_program is
  todo,      \* the operations left of its current part
  file,      \* the bitstream being written
  len,       \* its length in blocks, 0 if f_stat failed
  sent,      \* blocks streamed
  chain,     \* chain_len
  id,        \* idcodes[0]: "none", "known" or "unknown"
  result,    \* what the last call returned
  calls      \* calls so far

vars == <<jtag, board, pc, todo, file, len, sent, chain, id, result, calls>>

-----------------------------------------------------------------------------
(* The TAP controller of IEEE 1149.1.  A state is a name and its column.   *)

Reset == <<"RESET", "">>
Idle == <<"IDLE", "">>
Scan(name, col) == <<name, col>>
Column(col) == {Scan(n, col) : n \in {"CAPTURE", "SHIFT", "EXIT1", "PAUSE", "EXIT2", "UPDATE"}}
TapState == {Reset, Idle} \cup
            UNION {Column(c) \cup {Scan("SELECT", c)} : c \in {"DR", "IR"}}

TapNext(s, tms) ==
  LET c == s[2] IN
  CASE s = Reset              -> IF tms = 1 THEN Reset ELSE Idle
    [] s = Idle               -> IF tms = 1 THEN Scan("SELECT", "DR") ELSE Idle
    [] s = <<"SELECT", "IR">> -> IF tms = 1 THEN Reset ELSE Scan("CAPTURE", "IR")
    [] s = <<"SELECT", "DR">> -> IF tms = 1 THEN Scan("SELECT", "IR") ELSE Scan("CAPTURE", "DR")
    [] s[1] \in {"CAPTURE", "SHIFT"} -> IF tms = 1 THEN Scan("EXIT1", c) ELSE Scan("SHIFT", c)
    [] s[1] = "EXIT1"         -> IF tms = 1 THEN Scan("UPDATE", c) ELSE Scan("PAUSE", c)
    [] s[1] = "PAUSE"         -> IF tms = 1 THEN Scan("EXIT2", c) ELSE s
    [] s[1] = "EXIT2"         -> IF tms = 1 THEN Scan("UPDATE", c) ELSE Scan("SHIFT", c)
    [] s[1] = "UPDATE"        -> IF tms = 1 THEN Scan("SELECT", "DR") ELSE Idle

(* The configuration engine acts on an instruction when it is updated.     *)
(* An erase needs edit mode; the image starts when configuration is        *)
(* disabled with every bit in place.  Which image that is, is not followed *)
(* beyond the call: an engine disabled again with the image of the call    *)
(* before (the start of eraseSRAM may do it) counts as running this one's, *)
(* until the erase that comes next.                                        *)
Garbage == "garbage"
Whole == Blocks * BlockBits

Execute(j, c) ==
  CASE c = "CONFIG_ENABLE" -> [j EXCEPT !.ir = c, !.edit = TRUE]
    [] c = "ERASE_SRAM" /\ j.edit ->
         [j EXCEPT !.ir = c, !.erased = ~j.worn, !.mem = 0,
                   !.running = IF j.worn THEN @ ELSE NoCore]
    [] c = "INIT_ADDR" /\ j.edit -> [j EXCEPT !.ir = c, !.mem = 0]
    [] c = "CONFIG_DISABLE" ->
         [j EXCEPT !.ir = c, !.edit = FALSE,
                   !.running = IF j.edit /\ j.erased /\ j.mem = Whole THEN j.load ELSE @]
    [] OTHER -> [j EXCEPT !.ir = c]

(* One TCK pulse.  sr is the instruction whose first n bits were the last  *)
(* shifted; out counts the bits of the register that were read.            *)
Pulse(j, clk) ==
  LET next == TapNext(j.tap, clk.tms)
      bit == clk.bit
      sr == IF j.tap # Scan("SHIFT", "IR") THEN j.sr
            ELSE IF bit[2] = 0 \/ j.sr = bit THEN <<bit[1], bit[2] + 1>>
            ELSE <<Garbage, 0>>
      taken == j.tap = Scan("SHIFT", "DR") /\ j.ir = "XFER_WRITE" /\ j.edit
               /\ bit = <<"data", j.mem>>
      out == IF j.tap = Scan("CAPTURE", "DR") THEN <<j.ir, 0>>
             ELSE IF j.tap = Scan("SHIFT", "DR") THEN <<j.out[1], j.out[2] + 1>>
             ELSE j.out
      k == [j EXCEPT !.tap = next, !.pin = clk.tms, !.sr = sr, !.out = out,
                     !.mem = IF taken THEN @ + 1 ELSE @]
  IN IF next # Scan("UPDATE", "IR") THEN k
     ELSE Execute(k, IF sr[2] = 8 THEN sr[1] ELSE Garbage)

Drive(j, clks) ==
  LET after[n \in 0..Len(clks)] == IF n = 0 THEN j ELSE Pulse(after[n - 1], clks[n])
  IN after[Len(clks)]

Filler == <<Garbage, 1>>
Clocks(tms, n) == [i \in 1..n |-> [tms |-> tms, bit |-> Filler]]

-----------------------------------------------------------------------------
(* set_state: the TMS bit chosen in belief s on the way to t.              *)
Tms(s, t) ==
  LET back == {"SHIFT", "EXIT1", "PAUSE"} IN
  CASE s = Reset -> 0
    [] s = Idle -> 1
    [] s[1] = "SELECT" -> IF t \in Column(s[2]) THEN 0 ELSE 1
    [] s[1] = "CAPTURE" -> IF t = Scan("SHIFT", s[2]) THEN 0 ELSE 1
    [] s[1] = "EXIT1" -> IF t[2] = s[2] /\ t[1] \in back \cup {"EXIT2"} THEN 0 ELSE 1
    [] s[1] = "EXIT2" -> IF t[2] = s[2] /\ t[1] \in back THEN 0 ELSE 1
    [] s[1] = "UPDATE" -> IF t = Idle THEN 0 ELSE 1
    [] OTHER -> 1

(* Where the code says the TAP goes with that bit. *)
Believe(s, t) ==
  LET bit == Tms(s, t) IN
  CASE s = Reset -> Idle
    [] s = Idle -> Scan("SELECT", "DR")
    [] s[1] = "SELECT" -> IF bit = 0 THEN Scan("CAPTURE", s[2])
                          ELSE IF s[2] = "DR" THEN Scan("SELECT", "IR") ELSE Reset
    [] s[1] = "CAPTURE" -> Scan(IF bit = 0 THEN "SHIFT" ELSE "EXIT1", s[2])
    [] s[1] = "SHIFT" -> Scan("EXIT1", s[2])
    [] s[1] = "EXIT1" -> Scan(IF bit = 0 THEN "PAUSE" ELSE "UPDATE", s[2])
    [] s[1] = "PAUSE" -> Scan("EXIT2", s[2])
    [] s[1] = "EXIT2" -> Scan(IF bit = 0 THEN "SHIFT" ELSE "UPDATE", s[2])
    [] s[1] = "UPDATE" -> IF bit = 0 THEN Idle ELSE Scan("SELECT", "DR")

(* One turn of the loop of set_state, and the loop: no walk passes a state *)
(* twice, so as many turns as there are states end it.                     *)
Turn(j, t) ==
  IF j.state = t THEN j
  ELSE [Pulse(j, [tms |-> Tms(j.state, t), bit |-> Filler]) EXCEPT !.state = Believe(j.state, t)]

Turns == 16
SetState(j, t) ==
  LET after[n \in 0..Turns] == IF n = 0 THEN j ELSE Turn(after[n - 1], t)
  IN after[Turns]

(* jtag_writeTDI moves TMS only for the last bit, and only if asked. *)
WriteTDI(j, bits, last) ==
  LET n == Len(bits)
  IN Drive(j, [i \in 1..n |-> [tms |-> IF last /\ i = n THEN 1 ELSE j.pin, bit |-> bits[i]]])

(* Mutant: the last bit leaves the SHIFT state and _state does not follow. *)
ReadWriteForgets(j, bits, last) == WriteTDI(j, bits, last)

ReadWrite(j, bits, last) ==
  [WriteTDI(j, bits, last) EXCEPT
     !.state = IF ~last THEN @
               ELSE IF @ = Scan("SHIFT", "DR") THEN Scan("EXIT1", "DR")
               ELSE Scan("EXIT1", "IR")]

Shift(j, col, bits) ==
  LET k == IF j.state # Scan("SHIFT", col) THEN SetState(j, Scan("SHIFT", col)) ELSE j
  IN SetState(ReadWrite(k, bits, TRUE), Idle)

Toggle(j, n) == Drive(j, Clocks(IF j.state = Reset THEN 1 ELSE 0, n))

SendCommand(j, c) == Toggle(Shift(j, "IR", [i \in 1..8 |-> <<c, i - 1>>]), 6)

Word == [i \in 1..32 |-> Filler]
ReadReg(j, c) == Shift(SendCommand(j, c), "DR", Word)

(* What the status register read answers; a chain that does not answer     *)
(* reads as zeros.                                                         *)
Answered(j, c) == j.out = <<c, 32>> /\ board # "dead"
Flag(j, f) ==
  /\ Answered(j, "STATUS_REGISTER")
  /\ CASE f = "edit" -> j.edit
       [] f = "erased" -> j.erased
       [] f = "done" -> j.running # NoCore

-----------------------------------------------------------------------------
(* The parts of fpga_program as scripts. *)

Cmd(c) == [op |-> "cmd", arg |-> c, want |-> TRUE]
Read(c) == [op |-> "read", arg |-> c, want |-> TRUE]
Poll(f, v) == [op |-> "poll", arg |-> f, want |-> v]
Commands(cs) == [i \in DOMAIN cs |-> Cmd(cs[i])]

Identify == <<Read("READ_IDCODE"), Read("STATUS_REGISTER")>>
(* eraseSRAM begins with this when the status shows an error; the clocks   *)
(* spent in RUN-TEST/IDLE between its commands move neither end.           *)
Unstick == Commands(<<"CONFIG_ENABLE", "0x3F", "CONFIG_DISABLE", "NOOP", "READ_IDCODE", "NOOP">>)
Erase == Commands(<<"CONFIG_ENABLE">>) \o <<Poll("edit", TRUE)>>
         \o Commands(<<"ERASE_SRAM", "NOOP">>) \o <<Poll("erased", TRUE)>>
         \o Commands(<<"XFER_DONE", "NOOP", "CONFIG_DISABLE", "NOOP">>)
         \o <<Poll("edit", FALSE)>> \o Commands(<<"NOOP">>) \o <<Read("STATUS_REGISTER")>>
WriteStart == Commands(<<"CONFIG_ENABLE", "INIT_ADDR", "XFER_WRITE">>)
              \o <<[op |-> "goto", arg |-> Scan("SHIFT", "DR"), want |-> TRUE]>>
(* Mutants: without the read for the log; without waiting for DONE. *)
WriteEndUnread == Commands(<<"CONFIG_DISABLE", "NOOP">>)
                  \o <<Read("READ_USERCODE"), Poll("done", TRUE)>>
WriteEndUnchecked == <<Read("STATUS_REGISTER")>> \o Commands(<<"CONFIG_DISABLE", "NOOP">>)
                     \o <<Read("READ_USERCODE")>>
WriteEnd == <<Read("STATUS_REGISTER")>> \o Commands(<<"CONFIG_DISABLE", "NOOP">>)
            \o <<Read("READ_USERCODE"), Poll("done", TRUE)>>

Goto(where, ops) == pc' = where /\ todo' = ops

(* load_core_close *)
Return(ok) == result' = ok /\ Goto("idle", <<>>)

Init ==
  /\ jtag = [state |-> Reset, pin |-> 1, tap |-> Reset, sr |-> <<Garbage, 0>>,
             ir |-> "NOOP", out |-> <<Garbage, 0>>, edit |-> FALSE, erased |-> FALSE,
             mem |-> 0, load |-> NoCore, running |-> NoCore, worn |-> FALSE]
  /\ board \in Boards
  /\ pc = "idle" /\ todo = <<>>
  /\ file = NoCore /\ len = 0 /\ sent = 0
  /\ chain = 0 /\ id = "none"
  /\ result = FALSE /\ calls = 0

(* fpga_program(core), with the chain behaving like b.  The file may not   *)
(* open, and its length is 0 when f_stat fails.                            *)
Program(core, b, size) ==
  /\ pc = "idle" /\ calls < MaxPrograms
  /\ calls' = calls + 1
  /\ board' = b /\ file' = core /\ len' = size /\ sent' = 0
  /\ jtag' = [jtag EXCEPT !.load = core, !.worn = b = "noErase"]
  /\ \/ Goto("detect", <<>>) /\ UNCHANGED result
     \/ Return(FALSE)
  /\ UNCHANGED <<chain, id>>

(* detectChain leaves idcodes as it was when nothing answers, and leaves   *)
(* the TAP shifting when TDO is stuck at 0.                                *)
DetectChain ==
  LET reset == [Drive(jtag, Clocks(1, 6)) EXCEPT !.state = Reset]
      first == ReadWrite(SetState(reset, Scan("SHIFT", "DR")), Word, FALSE)
  IN /\ pc = "detect"
     /\ jtag' = CASE board = "dead"   -> first
                  [] board = "absent" -> SetState(first, Reset)
                  [] OTHER            -> SetState(ReadWrite(first, Word, FALSE), Reset)
     /\ chain' = CASE board = "dead" -> -1 [] board = "absent" -> 0 [] OTHER -> 1
     /\ id' = CASE board \in {"dead", "absent"} -> id
                [] board = "unknown" -> "unknown"
                [] OTHER -> "known"
     /\ Goto("check", <<>>)
     /\ UNCHANGED <<board, file, len, sent, result, calls>>

(* Mutant: the chain is not empty, so there is a board. *)
NoBoardOfAnyKind == chain = 0
NoBoard == chain = 0 \/ id # "known"

CheckBoard ==
  /\ pc = "check"
  /\ IF NoBoard THEN Return(FALSE) ELSE Goto("identify1", Identify) /\ UNCHANGED result
  /\ UNCHANGED <<jtag, board, file, len, sent, chain, id, calls>>

(* The next operation; a poll that does not see its flag ends the call. *)
Operate ==
  /\ todo # <<>>
  /\ LET o == Head(todo) IN
     /\ jtag' = CASE o.op = "cmd"  -> SendCommand(jtag, o.arg)
                  [] o.op = "read" -> ReadReg(jtag, o.arg)
                  [] o.op = "poll" -> ReadReg(jtag, "STATUS_REGISTER")
                  [] o.op = "goto" -> SetState(jtag, o.arg)
     /\ IF o.op = "poll" /\ Flag(jtag', o.arg) # o.want
        THEN Return(FALSE)
        ELSE todo' = Tail(todo) /\ UNCHANGED <<pc, result>>
  /\ UNCHANGED <<board, file, len, sent, chain, id, calls>>

(* eraseSRAM, called twice: the error bits decide how it starts. *)
EraseSRAM ==
  /\ todo = <<>> /\ pc \in {"identify1", "identify2"}
  /\ \E bad \in IF board = "dead" THEN {FALSE} ELSE BOOLEAN :
       Goto(IF pc = "identify1" THEN "erase1" ELSE "erase2",
            IF bad THEN Unstick \o Erase ELSE Erase)
  /\ UNCHANGED <<jtag, board, file, len, sent, chain, id, result, calls>>

NextPart ==
  /\ todo = <<>>
  /\ \/ pc = "erase1" /\ Goto("identify2", Identify) /\ UNCHANGED result
     \/ pc = "erase2" /\ Goto("start", WriteStart) /\ UNCHANGED result
     \/ pc = "start" /\ Goto("stream", <<>>) /\ UNCHANGED result
     \/ pc = "start" /\ Return(FALSE)      \* malloc fails
     \/ pc = "end" /\ Return(TRUE)
  /\ UNCHANGED <<jtag, board, file, len, sent, chain, id, calls>>

(* The fast path drives the pins itself: TMS low, high with the last bit   *)
(* once the length is reached.  _state is not touched.                     *)
StreamBlock ==
  LET end == sent + 1 >= len
      bits == [i \in 1..BlockBits |->
                [tms |-> IF end /\ i = BlockBits THEN 1 ELSE 0,
                 bit |-> <<"data", sent * BlockBits + i - 1>>]]
  IN /\ pc = "stream" /\ sent < Blocks
     /\ jtag' = Drive(jtag, bits)
     /\ sent' = sent + 1
     /\ UNCHANGED <<board, pc, todo, file, len, chain, id, result, calls>>

(* The file ends, or f_read fails: bytes is 0 either way. *)
StreamEnds ==
  /\ pc = "stream"
  /\ Goto("end", WriteEnd)
  /\ UNCHANGED <<jtag, board, file, len, sent, chain, id, result, calls>>

Next ==
  \/ \E c \in Cores, b \in Boards, n \in {0, Blocks} : Program(c, b, n)
  \/ DetectChain \/ CheckBoard \/ Operate \/ EraseSRAM \/ NextPart
  \/ StreamBlock \/ StreamEnds

Spec == Init /\ [][Next]_vars

-----------------------------------------------------------------------------
TypeOK ==
  /\ jtag.state \in TapState /\ jtag.tap \in TapState /\ jtag.pin \in {0, 1}
  /\ jtag.mem \in 0..Whole /\ {jtag.running, jtag.load} \subseteq Cores \cup {NoCore}
  /\ board \in Boards /\ len \in {0, Blocks} /\ sent \in 0..Blocks
  /\ chain \in {-1, 0, 1} /\ id \in {"none", "known", "unknown"}
  /\ result \in BOOLEAN /\ calls \in 0..MaxPrograms

(* The firmware knows where the TAP is, except from the last bit of a      *)
(* bitstream to the status read that opens writeSRAM_end.  That read is    *)
(* there for the log, but its stray clocks are what brings the TAP back in *)
(* step: every command of the teardown depends on it.                      *)
FirstRead == pc = "end" /\ sent > 0 /\ todo = WriteEnd
InStep == jtag.tap # jtag.state => FirstRead \/ (pc = "stream" /\ sent > 0)

(* A command that was sent is the one the FPGA executed, with the same     *)
(* exception: no command is lost or turned into another one.               *)
Sends == todo # <<>> /\ Head(todo).op \in {"cmd", "read"}
CommandsTaken == [][Sends /\ ~FirstRead => jtag'.ir = Head(todo).arg]_vars

(* What fpga_program reports is what runs: true means the whole file is in *)
(* the FPGA and started.                                                   *)
SuccessMeansRunning ==
  pc = "idle" /\ result => jtag.running = file

(* A board that was not recognised keeps the core it runs, in this call.  *)
(* The only board erased without an answer in this call is one that was    *)
(* recognised in an earlier one: idcodes keeps the earlier answer and -1   *)
(* is not 0.                                                               *)
OnlyKnownBoards ==
  pc \notin {"idle", "detect", "check"} =>
    \/ board \in {"good", "noErase"}
    \/ board = "dead" /\ id = "known" /\ calls > 1
=============================================================================
