-------------------------- MODULE ProgrammerProofs --------------------------
(***************************************************************************)
(* What Programmer promises for any bitstreams, any chain of boards and    *)
(* any number of programmings, with reads and polls that may fail.         *)
(*                                                                         *)
(* The argument is made in three layers.  Below, a clock: what it does to  *)
(* the TAP and, at an update, to the engine (Pulse).  Above it, the JTAG   *)
(* operations, each a run of clocks (Trace): a walk of set_state from one  *)
(* resting place to another, a shift of one of the two registers, and so a *)
(* command that is executed once or a register that is read.  On(j, s, x)  *)
(* says that the belief is s and the TAP is at x, Kept what no operation   *)
(* may touch.  On top, IInv: the belief is right where the TAP rests; what *)
(* is left to do is the end of a script; and Erasing and Started say what  *)
(* the flags read so far have established of the core that runs.           *)
(*                                                                         *)
(* The one place where the belief is wrong is after a bitstream.  There    *)
(* the TAP may be anywhere, and Resynchronised shows for every state that  *)
(* the clocks of the next status read end in step.                         *)
(*                                                                         *)
(* Clock runs and the loop of set_state are recursive functions; what is   *)
(* needed of them is proved by induction on a set of numbers (Induction).  *)
(***************************************************************************)
EXTENDS Programmer, TLAPS, SequenceTheorems, WellFoundedInduction

(* The names of the instructions, what an update may find, and the bits.   *)
Instruction == {"NOOP", "READ_IDCODE", "STATUS_REGISTER", "CONFIG_ENABLE", "CONFIG_DISABLE",
                "0x3F", "ERASE_SRAM", "INIT_ADDR", "XFER_WRITE", "XFER_DONE", "READ_USERCODE"}
Content == Instruction \cup {Garbage, "data"}
Shifted == Content \X Nat
Bit == {b \in Shifted : b[1] = "data" => b[2] < Whole}
Clock == [tms : {0, 1}, bit : Bit]
Core == Cores \cup {NoCore}
Jtag == [state : TapState, pin : {0, 1}, tap : TapState, sr : Shifted, ir : Content,
         out : Shifted, edit : BOOLEAN, erased : BOOLEAN, mem : 0..Whole,
         load : Core, running : Core, worn : BOOLEAN]

Columns == {"DR", "IR"}
Rows == {"SELECT", "CAPTURE", "SHIFT", "EXIT1", "PAUSE", "EXIT2", "UPDATE"}
ShiftDR == Scan("SHIFT", "DR")
ShiftIR == Scan("SHIFT", "IR")

(* The states of a TAP are the two on the left and seven of each column.   *)
LEMMA States ==
  /\ Reset \in TapState /\ Idle \in TapState
  /\ \A n \in Rows, c \in Columns : Scan(n, c) \in TapState
  /\ \A s \in TapState : s = Reset \/ s = Idle \/ \E n \in Rows, c \in Columns : s = Scan(n, c)
BY DEF TapState, Scan, Column, Rows, Columns

(* States are told apart by their names and columns.                       *)
LEMMA Distinct ==
  /\ Reset # Idle
  /\ \A n \in Rows, c \in Columns : /\ Scan(n, c) # Reset /\ Scan(n, c) # Idle
                                    /\ Scan(n, c)[1] = n /\ Scan(n, c)[2] = c
  /\ Reset[1] = "RESET" /\ Reset[2] = "" /\ Idle[1] = "IDLE" /\ Idle[2] = ""
  /\ \A n, m \in Rows, c, d \in Columns : Scan(n, c) = Scan(m, d) => n = m /\ c = d
BY DEF Scan, Rows, Columns, Reset, Idle

(* The diagram of IEEE 1149.1, row by row.                                 *)
LEMMA TapTable ==
  /\ TapNext(Reset, 1) = Reset /\ TapNext(Reset, 0) = Idle
  /\ TapNext(Idle, 1) = Scan("SELECT", "DR") /\ TapNext(Idle, 0) = Idle
  /\ TapNext(Scan("SELECT", "DR"), 1) = Scan("SELECT", "IR")
  /\ TapNext(Scan("SELECT", "IR"), 1) = Reset
  /\ \A c \in Columns :
       /\ TapNext(Scan("SELECT", c), 0) = Scan("CAPTURE", c)
       /\ \A n \in {"CAPTURE", "SHIFT"} : /\ TapNext(Scan(n, c), 1) = Scan("EXIT1", c)
                                          /\ TapNext(Scan(n, c), 0) = Scan("SHIFT", c)
       /\ TapNext(Scan("EXIT1", c), 1) = Scan("UPDATE", c)
       /\ TapNext(Scan("EXIT1", c), 0) = Scan("PAUSE", c)
       /\ TapNext(Scan("PAUSE", c), 1) = Scan("EXIT2", c)
       /\ TapNext(Scan("PAUSE", c), 0) = Scan("PAUSE", c)
       /\ TapNext(Scan("EXIT2", c), 1) = Scan("UPDATE", c)
       /\ TapNext(Scan("EXIT2", c), 0) = Scan("SHIFT", c)
       /\ TapNext(Scan("UPDATE", c), 1) = Scan("SELECT", "DR")
       /\ TapNext(Scan("UPDATE", c), 0) = Idle
<1>1. /\ TapNext(Reset, 1) = Reset /\ TapNext(Reset, 0) = Idle
      /\ TapNext(Idle, 1) = Scan("SELECT", "DR") /\ TapNext(Idle, 0) = Idle
  <2>1. /\ Reset # Idle /\ Reset[1] = "RESET" /\ Idle[1] = "IDLE"
        /\ Reset # <<"SELECT", "IR">> /\ Reset # <<"SELECT", "DR">>
        /\ Idle # <<"SELECT", "IR">> /\ Idle # <<"SELECT", "DR">>
    BY DEF Reset, Idle
  <2> QED
    BY <2>1 DEF TapNext
<1>a. LET s == Scan("SELECT", "DR") IN
      s # Reset /\ s # Idle /\ s # <<"SELECT", "IR">> /\ s = <<"SELECT", "DR">> /\ s[2] = "DR"
  BY DEF Scan, Reset, Idle
<1>b. LET s == Scan("SELECT", "IR") IN
      s # Reset /\ s # Idle /\ s = <<"SELECT", "IR">> /\ s # <<"SELECT", "DR">> /\ s[2] = "IR"
  BY DEF Scan, Reset, Idle
<1>2. /\ TapNext(Scan("SELECT", "DR"), 1) = Scan("SELECT", "IR")
      /\ TapNext(Scan("SELECT", "IR"), 1) = Reset
      /\ \A c \in Columns : TapNext(Scan("SELECT", c), 0) = Scan("CAPTURE", c)
  BY <1>a, <1>b DEF TapNext, Columns
<1>3. ASSUME NEW c \in Columns, NEW n \in Rows \ {"SELECT"}
      PROVE  /\ Scan(n, c) # Reset /\ Scan(n, c) # Idle
             /\ Scan(n, c) # <<"SELECT", "IR">> /\ Scan(n, c) # <<"SELECT", "DR">>
             /\ Scan(n, c)[1] = n /\ Scan(n, c)[2] = c
  BY DEF Scan, Rows, Reset, Idle
<1>4. ASSUME NEW c \in Columns
      PROVE  /\ \A n \in {"CAPTURE", "SHIFT"} : /\ TapNext(Scan(n, c), 1) = Scan("EXIT1", c)
                                                /\ TapNext(Scan(n, c), 0) = Scan("SHIFT", c)
             /\ TapNext(Scan("EXIT1", c), 1) = Scan("UPDATE", c)
             /\ TapNext(Scan("EXIT1", c), 0) = Scan("PAUSE", c)
             /\ TapNext(Scan("PAUSE", c), 1) = Scan("EXIT2", c)
             /\ TapNext(Scan("PAUSE", c), 0) = Scan("PAUSE", c)
             /\ TapNext(Scan("EXIT2", c), 1) = Scan("UPDATE", c)
             /\ TapNext(Scan("EXIT2", c), 0) = Scan("SHIFT", c)
             /\ TapNext(Scan("UPDATE", c), 1) = Scan("SELECT", "DR")
             /\ TapNext(Scan("UPDATE", c), 0) = Idle
  BY <1>3 DEF TapNext, Rows
<1> QED
  BY <1>1, <1>2, <1>4

(* A TAP has no other state.                                               *)
LEMMA TapNextType == \A s \in TapState, b \in {0, 1} : TapNext(s, b) \in TapState
<1> SUFFICES ASSUME NEW s \in TapState, NEW b \in {0, 1} PROVE TapNext(s, b) \in TapState
  OBVIOUS
<1>1. CASE s \in {Reset, Idle}
  BY <1>1, TapTable, States DEF Rows, Columns
<1>2. ASSUME NEW c \in Columns, s = Scan("SELECT", c) PROVE TapNext(s, b) \in TapState
  BY <1>2, TapTable, States DEF Rows, Columns
<1>3. ASSUME NEW c \in Columns, NEW n \in Rows \ {"SELECT"}, s = Scan(n, c)
      PROVE  TapNext(s, b) \in TapState
  <2>1. /\ "CAPTURE" \in Rows /\ "SHIFT" \in Rows /\ "EXIT1" \in Rows /\ "PAUSE" \in Rows
        /\ "EXIT2" \in Rows /\ "UPDATE" \in Rows /\ "SELECT" \in Rows /\ "DR" \in Columns
    BY DEF Rows, Columns
  <2>2. \A m \in Rows : Scan(m, c) \in TapState
    BY States
  <2>3. Idle \in TapState /\ Scan("SELECT", "DR") \in TapState
    BY <2>1, States
  <2>4. CASE b = 0
    BY <1>3, <2>1, <2>2, <2>3, <2>4, TapTable DEF Rows
  <2>5. CASE b = 1
    BY <1>3, <2>1, <2>2, <2>3, <2>5, TapTable DEF Rows
  <2> QED
    BY <2>4, <2>5
<1> QED
  BY <1>1, <1>2, <1>3, States

(* What is shifted is a bit of an instruction, of the file, or garbage.    *)
LEMMA Bits ==
  /\ \A c \in Content \ {"data"}, n \in Nat : <<c, n>> \in Bit
  /\ \A b \in Bit : b \in Shifted /\ b[1] \in Content /\ b[2] \in Nat /\ b = <<b[1], b[2]>>
  /\ \A b \in Shifted : b[1] \in Content /\ b[2] \in Nat /\ b = <<b[1], b[2]>>
  /\ \A c \in Content, n \in Nat : <<c, n>> \in Shifted /\ <<c, n>>[1] = c /\ <<c, n>>[2] = n
  /\ \A n \in 0..(Whole - 1) : <<"data", n>> \in Bit
  /\ Filler \in Bit /\ Filler[1] = Garbage /\ Filler[2] = 1
  /\ Garbage \in Content /\ Garbage # "data"
  /\ Whole \in Nat /\ Whole > 0
<1>1. Whole \in Nat /\ Whole > 0
  BY ProgrammerAssumption DEF Whole
<1>2. Garbage \in Content /\ Garbage # "data" /\ "data" \in Content
  BY DEF Content, Garbage
<1>3. Filler \in Bit /\ Filler[1] = Garbage /\ Filler[2] = 1
  BY <1>2 DEF Filler, Bit, Shifted
<1> QED
  BY <1>1, <1>2, <1>3 DEF Bit, Shifted

(* What the engine does with an instruction.                               *)
LEMMA ExecuteType ==
  ASSUME NEW j \in Jtag, NEW c \in Content
  PROVE  Execute(j, c) \in Jtag
<1> USE DEF Jtag, Core
<1>0. 0 \in 0..Whole
  BY Bits
<1>1. CASE c = "CONFIG_ENABLE"
  BY <1>1 DEF Execute
<1>2. CASE c = "ERASE_SRAM"
  BY <1>0, <1>2 DEF Execute
<1>3. CASE c = "INIT_ADDR"
  BY <1>0, <1>3 DEF Execute
<1>4. CASE c = "CONFIG_DISABLE"
  BY <1>4 DEF Execute
<1>5. CASE c \notin {"CONFIG_ENABLE", "ERASE_SRAM", "INIT_ADDR", "CONFIG_DISABLE"}
  BY <1>5 DEF Execute
<1> QED
  BY <1>1, <1>2, <1>3, <1>4, <1>5

Ctl(j) == <<j.ir, j.edit, j.erased, j.mem, j.load, j.running, j.worn>>

(* What an instruction leaves alone.                                       *)
LEMMA ExecuteKeeps ==
  ASSUME NEW j \in Jtag, NEW c \in Content
  PROVE  LET k == Execute(j, c) IN
         /\ k.tap = j.tap /\ k.pin = j.pin /\ k.state = j.state /\ k.sr = j.sr /\ k.out = j.out
         /\ k.load = j.load /\ k.worn = j.worn /\ k.ir = c
         /\ k.running \in {j.running, j.load, NoCore}
BY DEF Jtag, Execute, Core

(* It depends on the engine and not on the TAP.                            *)
LEMMA ExecuteCtl ==
  ASSUME NEW j \in Jtag, NEW k \in Jtag, Ctl(j) = Ctl(k), NEW c \in Content
  PROVE  Ctl(Execute(j, c)) = Ctl(Execute(k, c))
<1>1. /\ j.ir = k.ir /\ j.edit = k.edit /\ j.erased = k.erased /\ j.mem = k.mem
      /\ j.load = k.load /\ j.running = k.running /\ j.worn = k.worn
  BY DEF Ctl
<1> QED
  BY <1>1 DEF Ctl, Execute, Jtag

(* One clock: the TAP and the pin; nothing reaches the engine before an    *)
(* update of the instruction, save a bit of data.                          *)
LEMMA PulseMoves ==
  ASSUME NEW j \in Jtag, NEW clk \in Clock
  PROVE  LET k == Pulse(j, clk) IN
         /\ k \in Jtag
         /\ k.tap = TapNext(j.tap, clk.tms) /\ k.pin = clk.tms /\ k.state = j.state
         /\ k.load = j.load /\ k.worn = j.worn /\ k.running \in {j.running, j.load, NoCore}
         /\ j.tap # ShiftIR => k.sr = j.sr
         /\ j.tap = ShiftIR /\ clk.bit[2] = 0 => k.sr = <<clk.bit[1], 1>>
         /\ j.tap = ShiftIR /\ clk.bit[2] # 0 /\ clk.bit = j.sr =>
              k.sr = <<clk.bit[1], clk.bit[2] + 1>>
         /\ k.tap # Scan("UPDATE", "IR") /\ clk.bit[1] # "data" => Ctl(k) = Ctl(j)
         /\ k.tap = Scan("UPDATE", "IR") /\ j.tap # ShiftIR /\ j.tap # ShiftDR /\ j.sr[2] = 8 =>
              Ctl(k) = Ctl(Execute(j, j.sr[1]))
<1> DEFINE next == TapNext(j.tap, clk.tms)
           bit == clk.bit
           sr == IF j.tap # Scan("SHIFT", "IR") THEN j.sr
                 ELSE IF bit[2] = 0 \/ j.sr = bit THEN <<bit[1], bit[2] + 1>>
                 ELSE <<Garbage, 0>>
           taken == j.tap = Scan("SHIFT", "DR") /\ j.ir = "XFER_WRITE" /\ j.edit
                    /\ bit = <<"data", j.mem>>
           out == IF j.tap = Scan("CAPTURE", "DR") THEN <<j.ir, 0>>
                  ELSE IF j.tap = Scan("SHIFT", "DR") THEN <<j.out[1], j.out[2] + 1>>
                  ELSE j.out
           k == [j EXCEPT !.tap = next, !.pin = clk.tms, !.sr = sr, !.out = out,
                          !.mem = IF taken THEN @ + 1 ELSE @]
           c == IF sr[2] = 8 THEN sr[1] ELSE Garbage
<1>0. clk.tms \in {0, 1} /\ bit \in Bit
  BY DEF Clock
<1>1. next \in TapState
  BY <1>0, TapNextType DEF Jtag
<1>2. sr \in Shifted /\ out \in Shifted /\ c \in Content
  BY <1>0, Bits DEF Jtag
<1>3. taken => j.mem + 1 \in 0..Whole
  BY <1>0, Bits DEF Bit, Jtag
<1>4. k \in Jtag
  BY <1>0, <1>1, <1>2, <1>3 DEF Jtag
<1>5. Pulse(j, clk) = IF next # Scan("UPDATE", "IR") THEN k ELSE Execute(k, c)
  BY DEF Pulse
<1>6. /\ k.tap = next /\ k.pin = clk.tms /\ k.state = j.state /\ k.sr = sr
      /\ k.load = j.load /\ k.worn = j.worn /\ k.running = j.running
      /\ k.ir = j.ir /\ k.edit = j.edit /\ k.erased = j.erased
      /\ ~taken => k.mem = j.mem
  BY DEF Jtag
<1>7. ~taken => Ctl(k) = Ctl(j)
  BY <1>6 DEF Ctl
<1> HIDE DEF k, c
<1>8. clk.bit[1] # "data" \/ j.tap # ShiftDR => ~taken
  BY DEF ShiftDR
<1>9. CASE next # Scan("UPDATE", "IR")
  <2>1. Pulse(j, clk) = k
    BY <1>5, <1>9
  <2> QED
    BY <1>4, <1>6, <1>7, <1>8, <1>9, <2>1 DEF ShiftIR
<1>10. CASE next = Scan("UPDATE", "IR")
  <2>1. Pulse(j, clk) = Execute(k, c)
    BY <1>5, <1>10
  <2>2. Execute(k, c) \in Jtag
    BY <1>2, <1>4, ExecuteType
  <2>3. ASSUME j.tap # ShiftIR, j.tap # ShiftDR, j.sr[2] = 8
        PROVE  Ctl(Execute(k, c)) = Ctl(Execute(j, j.sr[1]))
    <3>1. c = j.sr[1] /\ c \in Content
      BY <1>2, <2>3 DEF c, ShiftIR
    <3> QED
      BY <1>4, <1>7, <1>8, <2>3, <3>1, ExecuteCtl
  <2> QED
    BY <1>2, <1>4, <1>6, <1>10, <2>1, <2>2, <2>3, ExecuteKeeps DEF ShiftIR
<1> QED
  BY <1>9, <1>10

(* Induction over the naturals, for a set.                                 *)
LEMMA Induction ==
  ASSUME NEW S, 0 \in S, \A n \in Nat : n \in S => n + 1 \in S
  PROVE  \A n \in Nat : n \in S
<1> DEFINE Less == {ss \in Nat \X Nat : ss[1] < ss[2]}
           T == Nat \ S
<1>1. IsWellFoundedOn(Less, Nat)
  BY NatLessThanWellFounded DEF OpToRel
<1> SUFFICES ASSUME NEW k \in Nat, k \notin S PROVE FALSE
  OBVIOUS
<1>2. T \subseteq Nat /\ T # {}
  OBVIOUS
<1> HIDE DEF Less, T
<1>3. PICK n \in T : \A m \in T : ~ (<<m, n>> \in Less)
  BY <1>1, <1>2, WFMin
<1>4. n \in Nat /\ n # 0 /\ n - 1 \in Nat /\ n - 1 + 1 = n
  BY <1>2, <1>3 DEF T
<1>5. <<n - 1, n>> \in Less
  BY <1>4 DEF Less
<1>6. n - 1 \notin T
  BY <1>3, <1>5
<1> QED
  BY <1>3, <1>4, <1>6 DEF T

(* The clocks of a sequence, one after the other.                          *)
Trace(f, j, clks) ==
  /\ f[0] = j /\ Drive(j, clks) = f[Len(clks)]
  /\ \A n \in 1..Len(clks) : f[n] = Pulse(f[n - 1], clks[n])

(* Driving a sequence of clocks is a run of single clocks.                 *)
LEMMA DriveSteps == \A j : \A clks \in Seq(Clock) : \E f : Trace(f, j, clks)
<1> SUFFICES ASSUME NEW j, NEW clks \in Seq(Clock) PROVE \E f : Trace(f, j, clks)
  OBVIOUS
<1> DEFINE L == Len(clks)
           Runs(f, m) == f = [n \in 0..m |-> IF n = 0 THEN j ELSE Pulse(f[n - 1], clks[n])]
           S == {m \in Nat : \E f : Runs(f, m)}
<1>0. L \in Nat
  OBVIOUS
<1>1. 0 \in S
  <2> DEFINE g == [n \in 0..0 |-> j]
  <2>0. \A n \in 0..0 : n = 0
    OBVIOUS
  <2>1. g = [n \in 0..0 |-> IF n = 0 THEN j ELSE Pulse(g[n - 1], clks[n])]
    BY <2>0
  <2> QED
    BY <2>1
<1>2. ASSUME NEW m \in Nat, m \in S PROVE m + 1 \in S
  <2>1. PICK f : Runs(f, m)
    BY <1>2
  <2> DEFINE g == [n \in 0..(m + 1) |-> IF n = m + 1 THEN Pulse(f[m], clks[m + 1]) ELSE f[n]]
  <2>2. ASSUME NEW n \in 0..(m + 1)
        PROVE  g[n] = IF n = 0 THEN j ELSE Pulse(g[n - 1], clks[n])
    <3>1. CASE n = 0
      BY <2>1, <3>1
    <3>2. CASE n = m + 1
      BY <2>1, <3>2
    <3>3. CASE n \in 1..m
      <4>1. n \in 0..m /\ n - 1 \in 0..m /\ n # m + 1 /\ n - 1 # m + 1 /\ n # 0
        BY <3>3
      <4>2. f[n] = Pulse(f[n - 1], clks[n])
        BY <2>1, <4>1
      <4> QED
        BY <4>1, <4>2
    <3> QED
      BY <3>1, <3>2, <3>3
  <2>3. Runs(g, m + 1)
    BY <2>2
  <2> HIDE DEF g, Runs
  <2> QED
    BY <2>3
<1> HIDE DEF S
<1>3. L \in S
  BY <1>0, <1>1, <1>2, Induction
<1>4. \E f : Runs(f, L)
  BY <1>3 DEF S
<1> DEFINE after == CHOOSE f : Runs(f, L)
<1>5. Runs(after, L)
  BY <1>4
<1>6. Drive(j, clks) = after[L]
  BY DEF Drive
<1> HIDE DEF after
<1>7. after[0] = j
  BY <1>0, <1>5
<1>8. ASSUME NEW n \in 1..L PROVE after[n] = Pulse(after[n - 1], clks[n])
  BY <1>0, <1>5
<1> QED
  BY <1>6, <1>7, <1>8 DEF Trace

(* The first of several clocks is driven before the others.                *)
LEMMA DriveStep ==
  ASSUME NEW j, NEW clk \in Clock, NEW clks \in Seq(Clock)
  PROVE  Drive(j, <<clk>> \o clks) = Drive(Pulse(j, clk), clks)
<1> DEFINE all == <<clk>> \o clks
           L == Len(clks)
           k == Pulse(j, clk)
<1>0. /\ L \in Nat /\ all \in Seq(Clock) /\ Len(all) = L + 1 /\ all[1] = clk
      /\ \A n \in 1..L : all[n + 1] = clks[n]
  OBVIOUS
<1> HIDE DEF all, L, k
<1>1. PICK f : /\ f[0] = j /\ Drive(j, all) = f[L + 1]
               /\ \A n \in 1..(L + 1) : f[n] = Pulse(f[n - 1], all[n])
  <2>1. PICK f : Trace(f, j, all)
    BY <1>0, DriveSteps
  <2> QED
    BY <1>0, <2>1 DEF Trace
<1>2. PICK g : /\ g[0] = k /\ Drive(k, clks) = g[L]
               /\ \A n \in 1..L : g[n] = Pulse(g[n - 1], clks[n])
  BY DriveSteps DEF L, Trace
<1> DEFINE S == {n \in Nat : n <= L => g[n] = f[n + 1]}
<1>3. 0 \in S
  <2>1. f[1] = Pulse(f[0], all[1])
    BY <1>0, <1>1
  <2> QED
    BY <1>0, <1>1, <1>2, <2>1 DEF k
<1>4. ASSUME NEW n \in Nat, n \in S PROVE n + 1 \in S
  <2>1. SUFFICES ASSUME n + 1 <= L PROVE g[n + 1] = f[n + 2]
    BY <1>0
  <2>2. n + 1 \in 1..L /\ n + 2 \in 1..(L + 1) /\ n <= L /\ n + 2 - 1 = n + 1 /\ n + 1 - 1 = n
    BY <1>0, <2>1
  <2>3. g[n + 1] = Pulse(g[n], clks[n + 1])
    BY <1>2, <2>2
  <2>4. f[n + 2] = Pulse(f[n + 1], all[n + 2])
    BY <1>1, <2>2
  <2>5. all[n + 2] = clks[n + 1]
    BY <1>0, <2>2
  <2> QED
    BY <1>4, <2>2, <2>3, <2>4, <2>5
<1> HIDE DEF S
<1>5. L \in S
  BY <1>0, <1>3, <1>4, Induction
<1>6. g[L] = f[L + 1]
  BY <1>0, <1>5 DEF S
<1> QED
  BY <1>1, <1>2, <1>6 DEF all, k

(* Whatever the clocks: what never changes, and what may run.              *)
LEMMA DriveKeeps ==
  ASSUME NEW j \in Jtag, NEW clks \in Seq(Clock)
  PROVE  LET k == Drive(j, clks) IN
         /\ k \in Jtag /\ k.state = j.state /\ k.load = j.load /\ k.worn = j.worn
         /\ k.running \in {j.running, j.load, NoCore}
<1>1. PICK f : Trace(f, j, clks)
  BY DriveSteps
<1> DEFINE P(k) == /\ k \in Jtag /\ k.state = j.state /\ k.load = j.load /\ k.worn = j.worn
                   /\ k.running \in {j.running, j.load, NoCore}
           S == {n \in Nat : n <= Len(clks) => P(f[n])}
<1>2. 0 \in S
  BY <1>1 DEF Trace
<1>3. ASSUME NEW n \in Nat, n \in S PROVE n + 1 \in S
  <2>1. SUFFICES ASSUME n + 1 <= Len(clks) PROVE P(f[n + 1])
    OBVIOUS
  <2>2. P(f[n]) /\ n + 1 \in 1..Len(clks) /\ n + 1 - 1 = n
    BY <1>3, <2>1
  <2>3. f[n + 1] = Pulse(f[n], clks[n + 1]) /\ clks[n + 1] \in Clock
    BY <1>1, <2>2 DEF Trace
  <2> QED
    BY <2>2, <2>3, PulseMoves
<1> HIDE DEF S
<1>4. Len(clks) \in S
  BY <1>2, <1>3, Induction
<1> QED
  BY <1>1, <1>4 DEF S, Trace

-----------------------------------------------------------------------------
(* set_state, turn by turn.                                                *)
LEMMA SetStateTurns ==
  \A j, t : \E f : /\ f[0] = j /\ SetState(j, t) = f[Turns]
                   /\ \A n \in 1..Turns : f[n] = Turn(f[n - 1], t)
<1> SUFFICES ASSUME NEW j, NEW t
             PROVE  \E f : /\ f[0] = j /\ SetState(j, t) = f[Turns]
                           /\ \A n \in 1..Turns : f[n] = Turn(f[n - 1], t)
  OBVIOUS
<1> DEFINE Runs(f, m) == f = [n \in 0..m |-> IF n = 0 THEN j ELSE Turn(f[n - 1], t)]
           S == {m \in Nat : \E f : Runs(f, m)}
<1>0. Turns \in Nat
  BY DEF Turns
<1>1. 0 \in S
  <2> DEFINE g == [n \in 0..0 |-> j]
  <2>0. \A n \in 0..0 : n = 0
    OBVIOUS
  <2>1. g = [n \in 0..0 |-> IF n = 0 THEN j ELSE Turn(g[n - 1], t)]
    BY <2>0
  <2> QED
    BY <2>1
<1>2. ASSUME NEW m \in Nat, m \in S PROVE m + 1 \in S
  <2>1. PICK f : Runs(f, m)
    BY <1>2
  <2> DEFINE g == [n \in 0..(m + 1) |-> IF n = m + 1 THEN Turn(f[m], t) ELSE f[n]]
  <2>2. ASSUME NEW n \in 0..(m + 1)
        PROVE  g[n] = IF n = 0 THEN j ELSE Turn(g[n - 1], t)
    <3>1. CASE n = 0
      BY <2>1, <3>1
    <3>2. CASE n = m + 1
      BY <2>1, <3>2
    <3>3. CASE n \in 1..m
      <4>1. n \in 0..m /\ n - 1 \in 0..m /\ n # m + 1 /\ n - 1 # m + 1 /\ n # 0
        BY <3>3
      <4>2. f[n] = Turn(f[n - 1], t)
        BY <2>1, <4>1
      <4> QED
        BY <4>1, <4>2
    <3> QED
      BY <3>1, <3>2, <3>3
  <2>3. Runs(g, m + 1)
    BY <2>2
  <2> HIDE DEF g, Runs
  <2> QED
    BY <2>3
<1> HIDE DEF S
<1>3. Turns \in S
  BY <1>0, <1>1, <1>2, Induction
<1>4. \E f : Runs(f, Turns)
  BY <1>3 DEF S
<1> DEFINE after == CHOOSE f : Runs(f, Turns)
<1>5. Runs(after, Turns)
  BY <1>4
<1>6. SetState(j, t) = after[Turns]
  BY DEF SetState
<1> HIDE DEF after
<1>7. after[0] = j
  BY <1>0, <1>5
<1>8. ASSUME NEW n \in 1..Turns PROVE after[n] = Turn(after[n - 1], t)
  BY <1>0, <1>5
<1> QED
  BY <1>6, <1>7, <1>8

(* No walk that is used takes more than six turns.                         *)
Six(j, t) == Turn(Turn(Turn(Turn(Turn(Turn(j, t), t), t), t), t), t)

(* A walk that is over after six turns is over when set_state returns.     *)
LEMMA SixTurns == ASSUME NEW j, NEW t, Six(j, t).state = t PROVE SetState(j, t) = Six(j, t)
<1>1. PICK f : /\ f[0] = j /\ SetState(j, t) = f[Turns]
               /\ \A n \in 1..Turns : f[n] = Turn(f[n - 1], t)
  BY SetStateTurns
<1>2. /\ f[1] = Turn(f[0], t) /\ f[2] = Turn(f[1], t) /\ f[3] = Turn(f[2], t)
      /\ f[4] = Turn(f[3], t) /\ f[5] = Turn(f[4], t) /\ f[6] = Turn(f[5], t)
  BY <1>1 DEF Turns
<1>3. f[6] = Six(j, t)
  BY <1>1, <1>2 DEF Six
<1>4. \A n \in 7..16 : f[n] = Turn(f[n - 1], t)
  BY <1>1 DEF Turns
<1>5. /\ f[7] = f[6] /\ f[8] = f[7] /\ f[9] = f[8] /\ f[10] = f[9] /\ f[11] = f[10]
      /\ f[12] = f[11] /\ f[13] = f[12] /\ f[14] = f[13] /\ f[15] = f[14] /\ f[16] = f[15]
  BY <1>3, <1>4 DEF Turn
<1> QED
  BY <1>1, <1>3, <1>5 DEF Turns

(* The bits and beliefs of the walks that are used.                        *)
LEMMA WalkTable ==
  /\ Tms(Reset, ShiftDR) = 0 /\ Believe(Reset, ShiftDR) = Idle
  /\ Tms(Reset, ShiftIR) = 0 /\ Believe(Reset, ShiftIR) = Idle
  /\ Tms(Idle, ShiftDR) = 1 /\ Believe(Idle, ShiftDR) = Scan("SELECT", "DR")
  /\ Tms(Idle, ShiftIR) = 1 /\ Believe(Idle, ShiftIR) = Scan("SELECT", "DR")
  /\ Tms(Scan("SELECT", "DR"), ShiftDR) = 0
  /\ Believe(Scan("SELECT", "DR"), ShiftDR) = Scan("CAPTURE", "DR")
  /\ Tms(Scan("CAPTURE", "DR"), ShiftDR) = 0
  /\ Believe(Scan("CAPTURE", "DR"), ShiftDR) = ShiftDR
  /\ Tms(Scan("SELECT", "DR"), ShiftIR) = 1
  /\ Believe(Scan("SELECT", "DR"), ShiftIR) = Scan("SELECT", "IR")
  /\ Tms(Scan("SELECT", "IR"), ShiftIR) = 0
  /\ Believe(Scan("SELECT", "IR"), ShiftIR) = Scan("CAPTURE", "IR")
  /\ Tms(Scan("CAPTURE", "IR"), ShiftIR) = 0
  /\ Believe(Scan("CAPTURE", "IR"), ShiftIR) = ShiftIR
  /\ \A t \in {ShiftIR, Reset} :
       /\ Tms(ShiftDR, t) = 1 /\ Believe(ShiftDR, t) = Scan("EXIT1", "DR")
       /\ Tms(Scan("EXIT1", "DR"), t) = 1 /\ Believe(Scan("EXIT1", "DR"), t) = Scan("UPDATE", "DR")
       /\ Tms(Scan("UPDATE", "DR"), t) = 1
       /\ Believe(Scan("UPDATE", "DR"), t) = Scan("SELECT", "DR")
  /\ Tms(Scan("SELECT", "DR"), Reset) = 1
  /\ Believe(Scan("SELECT", "DR"), Reset) = Scan("SELECT", "IR")
  /\ Tms(Scan("SELECT", "IR"), Reset) = 1 /\ Believe(Scan("SELECT", "IR"), Reset) = Reset
  /\ \A c \in Columns :
       /\ Tms(Scan("EXIT1", c), Idle) = 1 /\ Believe(Scan("EXIT1", c), Idle) = Scan("UPDATE", c)
       /\ Tms(Scan("UPDATE", c), Idle) = 0 /\ Believe(Scan("UPDATE", c), Idle) = Idle
<1>1. /\ Tms(Reset, ShiftDR) = 0 /\ Believe(Reset, ShiftDR) = Idle
      /\ Tms(Reset, ShiftIR) = 0 /\ Believe(Reset, ShiftIR) = Idle
  BY DEF Tms, Believe, Scan, Column, Columns, Reset, Idle, ShiftDR, ShiftIR
<1>2. /\ Tms(Idle, ShiftDR) = 1 /\ Believe(Idle, ShiftDR) = Scan("SELECT", "DR")
      /\ Tms(Idle, ShiftIR) = 1 /\ Believe(Idle, ShiftIR) = Scan("SELECT", "DR")
  BY DEF Tms, Believe, Scan, Column, Columns, Reset, Idle, ShiftDR, ShiftIR
<1>3. /\ Tms(Scan("SELECT", "DR"), ShiftDR) = 0
      /\ Believe(Scan("SELECT", "DR"), ShiftDR) = Scan("CAPTURE", "DR")
      /\ Tms(Scan("CAPTURE", "DR"), ShiftDR) = 0
      /\ Believe(Scan("CAPTURE", "DR"), ShiftDR) = ShiftDR
  BY DEF Tms, Believe, Scan, Column, Columns, Reset, Idle, ShiftDR, ShiftIR
<1>4. /\ Tms(Scan("SELECT", "DR"), ShiftIR) = 1
      /\ Believe(Scan("SELECT", "DR"), ShiftIR) = Scan("SELECT", "IR")
  BY DEF Tms, Believe, Scan, Column, Columns, Reset, Idle, ShiftDR, ShiftIR
<1>5. /\ Tms(Scan("SELECT", "IR"), ShiftIR) = 0
      /\ Believe(Scan("SELECT", "IR"), ShiftIR) = Scan("CAPTURE", "IR")
  BY DEF Tms, Believe, Scan, Column, Columns, Reset, Idle, ShiftDR, ShiftIR
<1>6. /\ Tms(Scan("CAPTURE", "IR"), ShiftIR) = 0
      /\ Believe(Scan("CAPTURE", "IR"), ShiftIR) = ShiftIR
  BY DEF Tms, Believe, Scan, Column, Columns, Reset, Idle, ShiftDR, ShiftIR
<1>7. ASSUME NEW t \in {ShiftIR, Reset}
      PROVE  /\ Tms(ShiftDR, t) = 1 /\ Believe(ShiftDR, t) = Scan("EXIT1", "DR")
             /\ Tms(Scan("EXIT1", "DR"), t) = 1
             /\ Believe(Scan("EXIT1", "DR"), t) = Scan("UPDATE", "DR")
             /\ Tms(Scan("UPDATE", "DR"), t) = 1
             /\ Believe(Scan("UPDATE", "DR"), t) = Scan("SELECT", "DR")
  <2>b. /\ ShiftIR[1] = "SHIFT" /\ ShiftIR[2] = "IR" /\ Reset[1] = "RESET" /\ Reset[2] = ""
        /\ ShiftIR # Idle /\ Reset # Idle
    BY DEF ShiftIR, Reset, Idle, Scan
  <2>0. t # Idle /\ ((t[1] = "SHIFT" /\ t[2] = "IR") \/ (t[1] = "RESET" /\ t[2] = ""))
    BY <2>b
  <2>a. ASSUME NEW n \in {"SHIFT", "EXIT1", "UPDATE"}
        PROVE  /\ Scan(n, "DR") # Reset /\ Scan(n, "DR") # Idle
               /\ Scan(n, "DR")[1] = n /\ Scan(n, "DR")[2] = "DR"
    BY DEF Scan, Reset, Idle
  <2>1. Tms(ShiftDR, t) = 1 /\ Believe(ShiftDR, t) = Scan("EXIT1", "DR")
    BY <2>0, <2>a DEF Tms, Believe, ShiftDR
  <2>2. Tms(Scan("EXIT1", "DR"), t) = 1
    BY <2>0, <2>a DEF Tms
  <2>3. Believe(Scan("EXIT1", "DR"), t) = Scan("UPDATE", "DR")
    BY <2>2, <2>a DEF Believe
  <2>4. Tms(Scan("UPDATE", "DR"), t) = 1
    BY <2>0, <2>a DEF Tms
  <2>5. Believe(Scan("UPDATE", "DR"), t) = Scan("SELECT", "DR")
    BY <2>4, <2>a DEF Believe
  <2> QED
    BY <2>1, <2>2, <2>3, <2>4, <2>5
<1>8. ASSUME NEW c \in Columns
      PROVE  /\ Tms(Scan("SELECT", c), Reset) = 1
             /\ Believe(Scan("SELECT", c), Reset) = IF c = "DR" THEN Scan("SELECT", "IR") ELSE Reset
  <2>1. Reset \notin Column(c)
    BY DEF Column, Scan, Reset
  <2>2. /\ Scan("SELECT", c) # Reset /\ Scan("SELECT", c) # Idle
        /\ Scan("SELECT", c)[1] = "SELECT" /\ Scan("SELECT", c)[2] = c
    BY DEF Scan, Reset, Idle
  <2>3. Tms(Scan("SELECT", c), Reset) = 1
    BY <2>1, <2>2 DEF Tms
  <2> QED
    BY <2>2, <2>3 DEF Believe
<1>9. ASSUME NEW c \in Columns
      PROVE  /\ Tms(Scan("EXIT1", c), Idle) = 1
             /\ Believe(Scan("EXIT1", c), Idle) = Scan("UPDATE", c)
             /\ Tms(Scan("UPDATE", c), Idle) = 0 /\ Believe(Scan("UPDATE", c), Idle) = Idle
  <2>1. ASSUME NEW n \in {"EXIT1", "UPDATE"}
        PROVE  /\ Scan(n, c) # Reset /\ Scan(n, c) # Idle
               /\ Scan(n, c)[1] = n /\ Scan(n, c)[2] = c
    BY DEF Scan, Reset, Idle
  <2>2. Idle[1] = "IDLE" /\ Idle[2] = ""
    BY DEF Idle
  <2>3. Tms(Scan("EXIT1", c), Idle) = 1
    BY <2>1, <2>2 DEF Tms, Columns
  <2>4. Tms(Scan("UPDATE", c), Idle) = 0
    BY <2>1, <2>2 DEF Tms
  <2> QED
    BY <2>1, <2>3, <2>4 DEF Believe
<1> QED
  BY <1>1, <1>2, <1>3, <1>4, <1>5, <1>6, <1>7, <1>8, <1>9 DEF Columns

(* The places a walk goes from or to are different states.                 *)
LEMMA Apart ==
  /\ Reset \notin {ShiftDR, ShiftIR, Scan("UPDATE", "IR")}
  /\ Idle \notin {Reset, ShiftDR, ShiftIR, Scan("UPDATE", "IR")}
  /\ Scan("SELECT", "DR") \notin {Reset, Idle, ShiftDR, ShiftIR, Scan("UPDATE", "IR")}
  /\ Scan("SELECT", "IR") \notin {Reset, Idle, ShiftDR, ShiftIR, Scan("UPDATE", "IR")}
  /\ \A c \in Columns : /\ Scan("CAPTURE", c) \notin {Reset, Idle, ShiftDR, ShiftIR, Scan("UPDATE", "IR")}
                        /\ Scan("EXIT1", c) \notin {Reset, Idle, ShiftDR, ShiftIR, Scan("UPDATE", "IR")}
                        /\ Scan("PAUSE", c) \notin {Reset, Idle, ShiftDR, ShiftIR, Scan("UPDATE", "IR")}
                        /\ Scan("EXIT2", c) \notin {Reset, Idle, ShiftDR, ShiftIR, Scan("UPDATE", "IR")}
                        /\ Scan("UPDATE", c) \notin {Reset, Idle, ShiftDR, ShiftIR}
  /\ ShiftDR # ShiftIR /\ ShiftDR # Scan("UPDATE", "IR") /\ ShiftIR # Scan("UPDATE", "IR")
  /\ Scan("UPDATE", "DR") # Scan("UPDATE", "IR")
BY DEF ShiftDR, ShiftIR, Reset, Idle, Scan, Columns

(* The states of the walks are states.                                     *)
LEMMA Walked ==
  /\ ShiftDR = Scan("SHIFT", "DR") /\ ShiftIR = Scan("SHIFT", "IR")
  /\ "DR" \in Columns /\ "IR" \in Columns
  /\ ShiftDR \in TapState /\ ShiftIR \in TapState /\ Reset \in TapState /\ Idle \in TapState
  /\ \A c \in Columns : /\ Scan("SELECT", c) \in TapState /\ Scan("CAPTURE", c) \in TapState
                        /\ Scan("EXIT1", c) \in TapState /\ Scan("UPDATE", c) \in TapState
BY States DEF ShiftDR, ShiftIR, Rows, Columns

(* A turn: the bit and the belief.                                         *)
LEMMA TurnMoves ==
  ASSUME NEW j \in Jtag, NEW t, j.state # t, NEW b \in {0, 1}, b = Tms(j.state, t),
         NEW s \in TapState, s = Believe(j.state, t)
  PROVE  LET k == Turn(j, t) IN
         /\ k \in Jtag /\ k.state = s
         /\ k.tap = TapNext(j.tap, b) /\ k.pin = b
         /\ k.load = j.load /\ k.worn = j.worn /\ k.running \in {j.running, j.load, NoCore}
         /\ j.tap # ShiftIR => k.sr = j.sr
         /\ k.tap # Scan("UPDATE", "IR") => Ctl(k) = Ctl(j)
         /\ k.tap = Scan("UPDATE", "IR") /\ j.tap \notin {ShiftIR, ShiftDR} /\ j.sr[2] = 8 =>
              Ctl(k) = Ctl(Execute(j, j.sr[1]))
<1> DEFINE clk == [tms |-> b, bit |-> Filler]
           p == Pulse(j, clk)
           k == [p EXCEPT !.state = s]
<1>1. clk \in Clock /\ clk.tms = b /\ clk.bit[1] # "data"
  BY Bits DEF Clock
<1> HIDE DEF clk
<1>2. /\ p \in Jtag
      /\ p.tap = TapNext(j.tap, b) /\ p.pin = b /\ p.state = j.state
      /\ p.load = j.load /\ p.worn = j.worn /\ p.running \in {j.running, j.load, NoCore}
      /\ j.tap # ShiftIR => p.sr = j.sr
      /\ p.tap # Scan("UPDATE", "IR") => Ctl(p) = Ctl(j)
      /\ p.tap = Scan("UPDATE", "IR") /\ j.tap # ShiftIR /\ j.tap # ShiftDR /\ j.sr[2] = 8 =>
           Ctl(p) = Ctl(Execute(j, j.sr[1]))
  BY <1>1, PulseMoves
<1>3. Turn(j, t) = k
  BY DEF Turn, clk
<1> HIDE DEF p
<1>4. /\ k \in Jtag /\ k.state = s /\ k.tap = p.tap /\ k.pin = p.pin /\ k.load = p.load
      /\ k.worn = p.worn /\ k.running = p.running /\ k.sr = p.sr /\ Ctl(k) = Ctl(p)
  BY <1>2 DEF Jtag, Ctl
<1> HIDE DEF k
<1> QED
  BY <1>2, <1>3, <1>4

(* Where the belief and the TAP are; what no clock changes; what no clock  *)
(* outside an update or a shift changes.                                   *)
On(k, s, x) == k \in Jtag /\ k.state = s /\ k.tap = x
Kept(j, k) == k.load = j.load /\ k.worn = j.worn /\ k.running \in {j.running, j.load, NoCore}
Same(j, k) == Ctl(k) = Ctl(j) /\ k.sr = j.sr

LEMMA SameKept == \A j, k : Same(j, k) => Kept(j, k)
BY DEF Same, Kept, Ctl

(* Walks, and what they leave alone, follow one another.                   *)
LEMMA Chains ==
  \A j, k, l : /\ Same(j, k) /\ Same(k, l) => Same(j, l)
               /\ Kept(j, k) /\ Kept(k, l) => Kept(j, l)
               /\ Same(j, j) /\ Kept(j, j)
BY DEF Same, Kept

(* A turn of a walk that is in step stays in step.                         *)
LEMMA OnWalk ==
  ASSUME NEW k, NEW s, NEW x, On(k, s, x), NEW t, s # t,
         NEW b \in {0, 1}, b = Tms(s, t), NEW n \in TapState, n = Believe(s, t),
         NEW m, m = TapNext(x, b)
  PROVE  /\ On(Turn(k, t), n, m) /\ Turn(k, t).pin = b /\ Kept(k, Turn(k, t))
         /\ x # ShiftIR => Turn(k, t).sr = k.sr
         /\ x # ShiftIR /\ m # Scan("UPDATE", "IR") => Same(k, Turn(k, t))
         /\ m = Scan("UPDATE", "IR") /\ x \notin {ShiftIR, ShiftDR} /\ k.sr[2] = 8 =>
              Ctl(Turn(k, t)) = Ctl(Execute(k, k.sr[1]))
<1>1. k \in Jtag /\ k.state = s /\ k.tap = x
  BY DEF On
<1>2. /\ Turn(k, t) \in Jtag /\ Turn(k, t).state = n
      /\ Turn(k, t).tap = TapNext(k.tap, b) /\ Turn(k, t).pin = b
      /\ Turn(k, t).load = k.load /\ Turn(k, t).worn = k.worn
      /\ Turn(k, t).running \in {k.running, k.load, NoCore}
      /\ k.tap # ShiftIR => Turn(k, t).sr = k.sr
      /\ Turn(k, t).tap # Scan("UPDATE", "IR") => Ctl(Turn(k, t)) = Ctl(k)
      /\ Turn(k, t).tap = Scan("UPDATE", "IR") /\ k.tap \notin {ShiftIR, ShiftDR} /\ k.sr[2] = 8 =>
           Ctl(Turn(k, t)) = Ctl(Execute(k, k.sr[1]))
  BY <1>1, TurnMoves
<1> QED
  BY <1>1, <1>2 DEF On, Kept, Same

(* At its goal set_state does nothing.                                     *)
LEMMA Arrived == ASSUME NEW k, NEW s, NEW x, On(k, s, x) PROVE Turn(k, s) = k
BY DEF Turn, On

(* The walks in step.                                                      *)
Walks(j, t) ==
  /\ On(SetState(j, t), t, t) /\ Same(j, SetState(j, t))
  /\ t # Reset => SetState(j, t).pin = 0

(* The walks between the places where the firmware shifts and rests.       *)
LEMMA IdleToShiftDR == ASSUME NEW j, On(j, Idle, Idle) PROVE Walks(j, ShiftDR)
<1> DEFINE k1 == Turn(j, ShiftDR)
           k2 == Turn(k1, ShiftDR)
           k3 == Turn(k2, ShiftDR)
<1>1. On(k1, Scan("SELECT", "DR"), Scan("SELECT", "DR")) /\ Same(j, k1)
  BY OnWalk, WalkTable, TapTable, Walked, Apart
<1> HIDE DEF k1
<1>2. On(k2, Scan("CAPTURE", "DR"), Scan("CAPTURE", "DR")) /\ Same(k1, k2)
  BY <1>1, OnWalk, WalkTable, TapTable, Walked, Apart
<1> HIDE DEF k2
<1>3. On(k3, ShiftDR, ShiftDR) /\ Same(k2, k3) /\ k3.pin = 0
  BY <1>2, OnWalk, WalkTable, TapTable, Walked, Apart
<1> HIDE DEF k3
<1>4. SetState(j, ShiftDR) = k3
  <2>1. Six(j, ShiftDR) = k3
    BY <1>3, Arrived DEF Six, k1, k2, k3
  <2> QED
    BY <1>3, <2>1, SixTurns DEF On
<1> QED
  BY <1>1, <1>2, <1>3, <1>4, Chains DEF Walks

LEMMA ResetToShiftDR == ASSUME NEW j, On(j, Reset, Reset) PROVE Walks(j, ShiftDR)
<1> DEFINE k1 == Turn(j, ShiftDR)
           k2 == Turn(k1, ShiftDR)
           k3 == Turn(k2, ShiftDR)
           k4 == Turn(k3, ShiftDR)
<1>1. On(k1, Idle, Idle) /\ Same(j, k1)
  BY OnWalk, WalkTable, TapTable, Walked, Apart
<1> HIDE DEF k1
<1>2. On(k2, Scan("SELECT", "DR"), Scan("SELECT", "DR")) /\ Same(k1, k2)
  BY <1>1, OnWalk, WalkTable, TapTable, Walked, Apart
<1> HIDE DEF k2
<1>3. On(k3, Scan("CAPTURE", "DR"), Scan("CAPTURE", "DR")) /\ Same(k2, k3)
  BY <1>2, OnWalk, WalkTable, TapTable, Walked, Apart
<1> HIDE DEF k3
<1>4. On(k4, ShiftDR, ShiftDR) /\ Same(k3, k4) /\ k4.pin = 0
  BY <1>3, OnWalk, WalkTable, TapTable, Walked, Apart
<1> HIDE DEF k4
<1>5. SetState(j, ShiftDR) = k4
  <2>1. Six(j, ShiftDR) = k4
    BY <1>4, Arrived DEF Six, k1, k2, k3, k4
  <2> QED
    BY <1>4, <2>1, SixTurns DEF On
<1> QED
  BY <1>1, <1>2, <1>3, <1>4, <1>5, Chains DEF Walks

LEMMA IdleToShiftIR == ASSUME NEW j, On(j, Idle, Idle) PROVE Walks(j, ShiftIR)
<1> DEFINE k1 == Turn(j, ShiftIR)
           k2 == Turn(k1, ShiftIR)
           k3 == Turn(k2, ShiftIR)
           k4 == Turn(k3, ShiftIR)
<1>1. On(k1, Scan("SELECT", "DR"), Scan("SELECT", "DR")) /\ Same(j, k1)
  BY OnWalk, WalkTable, TapTable, Walked, Apart
<1> HIDE DEF k1
<1>2. On(k2, Scan("SELECT", "IR"), Scan("SELECT", "IR")) /\ Same(k1, k2)
  BY <1>1, OnWalk, WalkTable, TapTable, Walked, Apart
<1> HIDE DEF k2
<1>3. On(k3, Scan("CAPTURE", "IR"), Scan("CAPTURE", "IR")) /\ Same(k2, k3)
  BY <1>2, OnWalk, WalkTable, TapTable, Walked, Apart
<1> HIDE DEF k3
<1>4. On(k4, ShiftIR, ShiftIR) /\ Same(k3, k4) /\ k4.pin = 0
  BY <1>3, OnWalk, WalkTable, TapTable, Walked, Apart
<1> HIDE DEF k4
<1>5. SetState(j, ShiftIR) = k4
  <2>1. Six(j, ShiftIR) = k4
    BY <1>4, Arrived DEF Six, k1, k2, k3, k4
  <2> QED
    BY <1>4, <2>1, SixTurns DEF On
<1> QED
  BY <1>1, <1>2, <1>3, <1>4, <1>5, Chains DEF Walks

LEMMA ResetToShiftIR == ASSUME NEW j, On(j, Reset, Reset) PROVE Walks(j, ShiftIR)
<1> DEFINE k1 == Turn(j, ShiftIR)
           k2 == Turn(k1, ShiftIR)
           k3 == Turn(k2, ShiftIR)
           k4 == Turn(k3, ShiftIR)
           k5 == Turn(k4, ShiftIR)
<1>1. On(k1, Idle, Idle) /\ Same(j, k1)
  BY OnWalk, WalkTable, TapTable, Walked, Apart
<1> HIDE DEF k1
<1>2. On(k2, Scan("SELECT", "DR"), Scan("SELECT", "DR")) /\ Same(k1, k2)
  BY <1>1, OnWalk, WalkTable, TapTable, Walked, Apart
<1> HIDE DEF k2
<1>3. On(k3, Scan("SELECT", "IR"), Scan("SELECT", "IR")) /\ Same(k2, k3)
  BY <1>2, OnWalk, WalkTable, TapTable, Walked, Apart
<1> HIDE DEF k3
<1>4. On(k4, Scan("CAPTURE", "IR"), Scan("CAPTURE", "IR")) /\ Same(k3, k4)
  BY <1>3, OnWalk, WalkTable, TapTable, Walked, Apart
<1> HIDE DEF k4
<1>5. On(k5, ShiftIR, ShiftIR) /\ Same(k4, k5) /\ k5.pin = 0
  BY <1>4, OnWalk, WalkTable, TapTable, Walked, Apart
<1> HIDE DEF k5
<1>6. SetState(j, ShiftIR) = k5
  <2>1. Six(j, ShiftIR) = k5
    BY <1>5, Arrived DEF Six, k1, k2, k3, k4, k5
  <2> QED
    BY <1>5, <2>1, SixTurns DEF On
<1> QED
  BY <1>1, <1>2, <1>3, <1>4, <1>5, <1>6, Chains DEF Walks

LEMMA ExitToIdle ==
  ASSUME NEW j, On(j, Scan("EXIT1", "DR"), Scan("EXIT1", "DR"))
  PROVE  Walks(j, Idle)
<1> DEFINE k1 == Turn(j, Idle)
           k2 == Turn(k1, Idle)
<1>1. On(k1, Scan("UPDATE", "DR"), Scan("UPDATE", "DR")) /\ Same(j, k1)
  BY OnWalk, WalkTable, TapTable, Walked, Apart
<1> HIDE DEF k1
<1>2. On(k2, Idle, Idle) /\ Same(k1, k2) /\ k2.pin = 0
  BY <1>1, OnWalk, WalkTable, TapTable, Walked, Apart
<1> HIDE DEF k2
<1>3. SetState(j, Idle) = k2
  <2>1. Six(j, Idle) = k2
    BY <1>2, Arrived DEF Six, k1, k2
  <2> QED
    BY <1>2, <2>1, SixTurns DEF On
<1> QED
  BY <1>1, <1>2, <1>3, Chains DEF Walks

LEMMA ShiftToReset == ASSUME NEW j, On(j, ShiftDR, ShiftDR) PROVE Walks(j, Reset)
<1> DEFINE k1 == Turn(j, Reset)
           k2 == Turn(k1, Reset)
           k3 == Turn(k2, Reset)
           k4 == Turn(k3, Reset)
           k5 == Turn(k4, Reset)
<1>1. On(k1, Scan("EXIT1", "DR"), Scan("EXIT1", "DR")) /\ Same(j, k1)
  BY OnWalk, WalkTable, TapTable, Walked, Apart
<1> HIDE DEF k1
<1>2. On(k2, Scan("UPDATE", "DR"), Scan("UPDATE", "DR")) /\ Same(k1, k2)
  BY <1>1, OnWalk, WalkTable, TapTable, Walked, Apart
<1> HIDE DEF k2
<1>3. On(k3, Scan("SELECT", "DR"), Scan("SELECT", "DR")) /\ Same(k2, k3)
  BY <1>2, OnWalk, WalkTable, TapTable, Walked, Apart
<1> HIDE DEF k3
<1>4. On(k4, Scan("SELECT", "IR"), Scan("SELECT", "IR")) /\ Same(k3, k4)
  BY <1>3, OnWalk, WalkTable, TapTable, Walked, Apart
<1> HIDE DEF k4
<1>5. On(k5, Reset, Reset) /\ Same(k4, k5) /\ k5.pin = 1
  BY <1>4, OnWalk, WalkTable, TapTable, Walked, Apart
<1> HIDE DEF k5
<1>6. SetState(j, Reset) = k5
  <2>1. Six(j, Reset) = k5
    BY <1>5, Arrived DEF Six, k1, k2, k3, k4, k5
  <2> QED
    BY <1>5, <2>1, SixTurns DEF On
<1> QED
  BY <1>1, <1>2, <1>3, <1>4, <1>5, <1>6, Chains DEF Walks

LEMMA ShiftToShiftIR == ASSUME NEW j, On(j, ShiftDR, ShiftDR) PROVE Walks(j, ShiftIR)
<1> DEFINE k1 == Turn(j, ShiftIR)
           k2 == Turn(k1, ShiftIR)
           k3 == Turn(k2, ShiftIR)
           k4 == Turn(k3, ShiftIR)
           k5 == Turn(k4, ShiftIR)
           k6 == Turn(k5, ShiftIR)
<1>1. On(k1, Scan("EXIT1", "DR"), Scan("EXIT1", "DR")) /\ Same(j, k1)
  BY OnWalk, WalkTable, TapTable, Walked, Apart
<1> HIDE DEF k1
<1>2. On(k2, Scan("UPDATE", "DR"), Scan("UPDATE", "DR")) /\ Same(k1, k2)
  BY <1>1, OnWalk, WalkTable, TapTable, Walked, Apart
<1> HIDE DEF k2
<1>3. On(k3, Scan("SELECT", "DR"), Scan("SELECT", "DR")) /\ Same(k2, k3)
  BY <1>2, OnWalk, WalkTable, TapTable, Walked, Apart
<1> HIDE DEF k3
<1>4. On(k4, Scan("SELECT", "IR"), Scan("SELECT", "IR")) /\ Same(k3, k4)
  BY <1>3, OnWalk, WalkTable, TapTable, Walked, Apart
<1> HIDE DEF k4
<1>5. On(k5, Scan("CAPTURE", "IR"), Scan("CAPTURE", "IR")) /\ Same(k4, k5)
  BY <1>4, OnWalk, WalkTable, TapTable, Walked, Apart
<1> HIDE DEF k5
<1>6. On(k6, ShiftIR, ShiftIR) /\ Same(k5, k6) /\ k6.pin = 0
  BY <1>5, OnWalk, WalkTable, TapTable, Walked, Apart
<1> HIDE DEF k6
<1>7. SetState(j, ShiftIR) = k6
  <2>1. Six(j, ShiftIR) = k6
    BY <1>6, Arrived DEF Six, k1, k2, k3, k4, k5, k6
  <2> QED
    BY <1>6, <2>1, SixTurns DEF On
<1> QED
  BY <1>1, <1>2, <1>3, <1>4, <1>5, <1>6, <1>7, Chains DEF Walks

(* Leaving the instruction register executes what it holds.                *)
LEMMA ExitExecutes ==
  ASSUME NEW j, On(j, Scan("EXIT1", "IR"), Scan("EXIT1", "IR")), j.sr[2] = 8
  PROVE  LET k == SetState(j, Idle) IN
         /\ On(k, Idle, Idle) /\ k.pin = 0 /\ Kept(j, k) /\ Ctl(k) = Ctl(Execute(j, j.sr[1]))
<1> DEFINE k1 == Turn(j, Idle)
           k2 == Turn(k1, Idle)
<1>1. /\ On(k1, Scan("UPDATE", "IR"), Scan("UPDATE", "IR")) /\ Kept(j, k1)
      /\ Ctl(k1) = Ctl(Execute(j, j.sr[1]))
  <2>1. Scan("EXIT1", "IR") \notin {Idle, ShiftIR, ShiftDR}
    BY Walked, Apart
  <2>2. Tms(Scan("EXIT1", "IR"), Idle) = 1 /\ Believe(Scan("EXIT1", "IR"), Idle) = Scan("UPDATE", "IR")
    BY Walked, WalkTable
  <2>3. TapNext(Scan("EXIT1", "IR"), 1) = Scan("UPDATE", "IR") /\ Scan("UPDATE", "IR") \in TapState
    BY Walked, TapTable
  <2> QED
    BY <2>1, <2>2, <2>3, OnWalk
<1> HIDE DEF k1
<1>2. On(k2, Idle, Idle) /\ Same(k1, k2) /\ k2.pin = 0
  BY <1>1, OnWalk, WalkTable, TapTable, Walked, Apart
<1> HIDE DEF k2
<1>3. SetState(j, Idle) = k2
  <2>1. Six(j, Idle) = k2
    BY <1>2, Arrived DEF Six, k1, k2
  <2> QED
    BY <1>2, <2>1, SixTurns DEF On
<1>4. Kept(k1, k2) /\ Ctl(k2) = Ctl(k1)
  BY <1>2, SameKept DEF Same
<1> QED
  BY <1>1, <1>2, <1>3, <1>4, Chains

-----------------------------------------------------------------------------
(* Clocks that leave the TAP where it is.                                  *)
Quiet(clks, b, m) == \A i \in 1..m : clks[i].tms = b /\ clks[i].bit[1] # "data"

LEMMA Hold ==
  ASSUME NEW j, NEW s, NEW x, On(j, s, x), x # Scan("UPDATE", "IR"),
         NEW b \in {0, 1}, TapNext(x, b) = x,
         NEW clks \in Seq(Clock), NEW m \in 0..Len(clks), Quiet(clks, b, m),
         NEW f, Trace(f, j, clks)
  PROVE  /\ On(f[m], s, x) /\ Ctl(f[m]) = Ctl(j)
         /\ m > 0 => f[m].pin = b
         /\ x # ShiftIR => Same(j, f[m])
<1> DEFINE P(k) == On(k, s, x) /\ Ctl(k) = Ctl(j) /\ (x # ShiftIR => k.sr = j.sr)
           S == {n \in Nat : n <= m => P(f[n]) /\ (n > 0 => f[n].pin = b)}
<1>0. m \in Nat
  OBVIOUS
<1>1. 0 \in S
  BY DEF Trace
<1>2. ASSUME NEW n \in Nat, n \in S PROVE n + 1 \in S
  <2>1. SUFFICES ASSUME n + 1 <= m PROVE P(f[n + 1]) /\ f[n + 1].pin = b
    OBVIOUS
  <2>2. P(f[n]) /\ n + 1 \in 1..m /\ n + 1 \in 1..Len(clks) /\ n + 1 - 1 = n
    BY <1>0, <1>2, <2>1
  <2>3. f[n + 1] = Pulse(f[n], clks[n + 1])
    BY <2>2 DEF Trace
  <2>4. clks[n + 1] \in Clock /\ clks[n + 1].tms = b /\ clks[n + 1].bit[1] # "data"
    BY <2>2 DEF Quiet
  <2>5. /\ f[n] \in Jtag /\ f[n].state = s /\ f[n].tap = x /\ Ctl(f[n]) = Ctl(j)
        /\ x # ShiftIR => f[n].sr = j.sr
    BY <2>2 DEF On
  <2> HIDE DEF P
  <2>6. /\ f[n + 1] \in Jtag /\ f[n + 1].state = s /\ f[n + 1].tap = x /\ f[n + 1].pin = b
        /\ Ctl(f[n + 1]) = Ctl(j) /\ (x # ShiftIR => f[n + 1].sr = j.sr)
    <3>1. /\ f[n + 1] \in Jtag /\ f[n + 1].state = f[n].state
          /\ f[n + 1].tap = TapNext(f[n].tap, clks[n + 1].tms) /\ f[n + 1].pin = clks[n + 1].tms
          /\ f[n].tap # ShiftIR => f[n + 1].sr = f[n].sr
          /\ f[n + 1].tap # Scan("UPDATE", "IR") /\ clks[n + 1].bit[1] # "data" =>
               Ctl(f[n + 1]) = Ctl(f[n])
      <4> DEFINE clk == clks[n + 1]
                 l == f[n]
      <4>1. clk \in Clock /\ l \in Jtag /\ f[n + 1] = Pulse(l, clk)
        BY <2>3, <2>4, <2>5
      <4> HIDE DEF clk, l
      <4>2. /\ f[n + 1] \in Jtag /\ f[n + 1].state = l.state
            /\ f[n + 1].tap = TapNext(l.tap, clk.tms) /\ f[n + 1].pin = clk.tms
            /\ l.tap # ShiftIR => f[n + 1].sr = l.sr
            /\ f[n + 1].tap # Scan("UPDATE", "IR") /\ clk.bit[1] # "data" =>
                 Ctl(f[n + 1]) = Ctl(l)
        BY <4>1, PulseMoves
      <4> QED
        BY <4>2 DEF clk, l
    <3> QED
      BY <2>4, <2>5, <3>1
  <2> QED
    BY <2>6 DEF On, P
<1> HIDE DEF S
<1>3. m \in S
  BY <1>0, <1>1, <1>2, Induction
<1> QED
  BY <1>3 DEF S, Same

(* Bits written with TMS low, and TMS high with the last.                  *)
Written(j, bits, last) ==
  [i \in 1..Len(bits) |-> [tms |-> IF last /\ i = Len(bits) THEN 1 ELSE j.pin, bit |-> bits[i]]]

(* The clocks of a write: TMS as it was, and up at the last bit.           *)
LEMMA WrittenClocks ==
  ASSUME NEW j \in Jtag, NEW bits \in Seq(Bit), NEW last \in BOOLEAN
  PROVE  /\ WriteTDI(j, bits, last) = Drive(j, Written(j, bits, last))
         /\ Written(j, bits, last) \in Seq(Clock) /\ Len(Written(j, bits, last)) = Len(bits)
         /\ \A i \in 1..Len(bits) :
              /\ Written(j, bits, last)[i].bit = bits[i]
              /\ Written(j, bits, last)[i].tms = IF last /\ i = Len(bits) THEN 1 ELSE j.pin
<1>1. ASSUME NEW i \in 1..Len(bits)
      PROVE  [tms |-> IF last /\ i = Len(bits) THEN 1 ELSE j.pin, bit |-> bits[i]] \in Clock
  BY DEF Jtag, Clock
<1>2. WriteTDI(j, bits, last) = Drive(j, Written(j, bits, last))
  BY DEF WriteTDI, Written
<1>3. Written(j, bits, last) \in Seq(Clock) /\ Len(Written(j, bits, last)) = Len(bits)
  BY <1>1 DEF Written
<1> QED
  BY <1>2, <1>3 DEF Written

Plain(bits) == bits \in Seq(Bit) /\ Len(bits) > 0 /\ \A i \in 1..Len(bits) : bits[i][1] # "data"

(* A write that leaves: the TAP exits after the last bit.                  *)
LEMMA WriteLast ==
  ASSUME NEW j, NEW s, NEW x, On(j, s, x), j.pin = 0, TapNext(x, 0) = x,
         x \notin {ShiftIR, Scan("UPDATE", "IR")}, NEW bits, Plain(bits),
         NEW y, y = TapNext(x, 1), y # Scan("UPDATE", "IR")
  PROVE  LET k == WriteTDI(j, bits, TRUE) IN On(k, s, y) /\ Same(j, k)
<1> DEFINE clks == Written(j, bits, TRUE)
           L == Len(bits)
           k == WriteTDI(j, bits, TRUE)
<1>1. /\ j \in Jtag /\ bits \in Seq(Bit) /\ L \in Nat /\ L > 0 /\ L - 1 \in 0..L /\ L \in 1..L
      /\ \A i \in 1..L : bits[i][1] # "data"
  BY DEF On, Plain
<1>2. /\ k = Drive(j, clks) /\ clks \in Seq(Clock) /\ Len(clks) = L
      /\ \A i \in 1..L : clks[i].bit = bits[i] /\ clks[i].tms = IF i = L THEN 1 ELSE 0
  BY <1>1, WrittenClocks
<1> HIDE DEF clks, L, k
<1>3. PICK f : Trace(f, j, clks)
  BY <1>2, DriveSteps
<1>4. Quiet(clks, 0, L - 1)
  BY <1>1, <1>2 DEF Quiet
<1>5. On(f[L - 1], s, x) /\ Same(j, f[L - 1])
  BY <1>1, <1>2, <1>3, <1>4, Hold
<1>6. k = Pulse(f[L - 1], clks[L])
  BY <1>1, <1>2, <1>3 DEF Trace
<1>7. clks[L] \in Clock /\ clks[L].tms = 1 /\ clks[L].bit[1] # "data"
  BY <1>1, <1>2
<1>8. On(k, s, y) /\ Same(f[L - 1], k)
  BY <1>5, <1>6, <1>7, PulseMoves DEF On, Same
<1> QED
  BY <1>5, <1>8, Chains DEF k

Low(k) == k.pin = 0

(* A write that stays: the TAP shifts on.                                  *)
LEMMA WriteMore ==
  ASSUME NEW j, NEW s, NEW x, On(j, s, x), j.pin = 0, TapNext(x, 0) = x,
         x \notin {ShiftIR, Scan("UPDATE", "IR")}, NEW bits, Plain(bits)
  PROVE  LET k == WriteTDI(j, bits, FALSE) IN On(k, s, x) /\ Same(j, k) /\ Low(k)
<1> DEFINE clks == Written(j, bits, FALSE)
           L == Len(bits)
           k == WriteTDI(j, bits, FALSE)
<1>1. /\ j \in Jtag /\ bits \in Seq(Bit) /\ L \in Nat /\ L > 0 /\ L \in 0..L
      /\ \A i \in 1..L : bits[i][1] # "data"
  BY DEF On, Plain
<1>2. /\ k = Drive(j, clks) /\ clks \in Seq(Clock) /\ Len(clks) = L
      /\ \A i \in 1..L : clks[i].bit = bits[i] /\ clks[i].tms = 0
  BY <1>1, WrittenClocks
<1> HIDE DEF clks, L, k
<1>3. PICK f : Trace(f, j, clks)
  BY <1>2, DriveSteps
<1>4. Quiet(clks, 0, L)
  BY <1>1, <1>2 DEF Quiet
<1>5. On(f[L], s, x) /\ Same(j, f[L]) /\ f[L].pin = 0
  BY <1>1, <1>2, <1>3, <1>4, Hold
<1> QED
  BY <1>2, <1>3, <1>5 DEF Trace, k, Low

(* Clocks on which the TAP stays where it is.                              *)
LEMMA Idling ==
  ASSUME NEW j, NEW s, NEW x, On(j, s, x), x # Scan("UPDATE", "IR"),
         NEW b \in {0, 1}, TapNext(x, b) = x, NEW n \in Nat
  PROVE  LET k == Drive(j, Clocks(b, n)) IN
         On(k, s, x) /\ Ctl(k) = Ctl(j) /\ (x # ShiftIR => Same(j, k))
<1>1. /\ Clocks(b, n) \in Seq(Clock) /\ Len(Clocks(b, n)) = n
      /\ \A i \in 1..n : Clocks(b, n)[i].tms = b /\ Clocks(b, n)[i].bit = Filler
  <2>1. [tms |-> b, bit |-> Filler] \in Clock
    BY Bits DEF Clock
  <2> DEFINE clk == [tms |-> b, bit |-> Filler]
  <2>2. clk \in Clock /\ clk.tms = b /\ clk.bit = Filler
    BY <2>1
  <2>3. Clocks(b, n) = [i \in 1..n |-> clk]
    BY DEF Clocks
  <2> HIDE DEF clk
  <2> QED
    BY <2>2, <2>3
<1>2. Quiet(Clocks(b, n), b, n) /\ n \in 0..Len(Clocks(b, n))
  BY <1>1, Bits DEF Quiet
<1>3. PICK f : Trace(f, j, Clocks(b, n))
  BY <1>1, DriveSteps
<1>4. On(f[n], s, x) /\ Ctl(f[n]) = Ctl(j) /\ (x # ShiftIR => Same(j, f[n]))
  BY <1>1, <1>2, <1>3, Hold
<1> QED
  BY <1>1, <1>3, <1>4 DEF Trace

(* The bits of an instruction, written to the instruction register.        *)
Byte(c) == [i \in 1..8 |-> <<c, i - 1>>]

(* The bits of a command are no data of the file.                          *)
LEMMA PlainBits ==
  /\ Plain(Word) /\ \A c \in Instruction : Plain(Byte(c))
  /\ \A c \in Instruction : Byte(c) \in Seq(Bit) /\ Len(Byte(c)) = 8
  /\ \A c \in Instruction : \A i \in 1..8 : Byte(c)[i][1] = c /\ Byte(c)[i][2] = i - 1
                                          /\ Byte(c)[i] = <<c, i - 1>>
<1>1. Word \in Seq(Bit) /\ Len(Word) = 32 /\ \A i \in 1..32 : Word[i] = Filler
  BY Bits DEF Word
<1>2. ASSUME NEW c \in Instruction
      PROVE  /\ Byte(c) \in Seq(Bit) /\ Len(Byte(c)) = 8
             /\ \A i \in 1..8 : Byte(c)[i] = <<c, i - 1>>
  <2>1. c \in Content \ {"data"}
    BY DEF Content, Instruction
  <2>2. \A i \in 1..8 : <<c, i - 1>> \in Bit
    BY <2>1, Bits
  <2>3. Byte(c) = [i \in 1..8 |-> <<c, i - 1>>]
    BY DEF Byte
  <2>4. \A i \in 1..8 : Byte(c)[i] = <<c, i - 1>>
    BY <2>3
  <2>5. \A i \in 1..8 : Byte(c)[i] \in Bit
    BY <2>2, <2>4
  <2>6. DOMAIN Byte(c) = 1..8 /\ Byte(c) = [i \in 1..8 |-> Byte(c)[i]]
    BY <2>3
  <2> HIDE DEF Byte
  <2>7. Byte(c) \in [1..8 -> Bit]
    BY <2>5, <2>6
  <2>8. Byte(c) \in Seq(Bit) /\ Len(Byte(c)) = 8
    <3>1. Byte(c) \in Seq(Bit)
      BY <2>7, SeqDef
    <3> QED
      BY <2>6, <3>1, LenProperties
  <2> QED
    BY <2>4, <2>8
<1>3. \A c \in Instruction : c # "data"
  BY DEF Instruction
<1>4. Plain(Word)
  <2>1. \A i \in 1..32 : Word[i][1] # "data"
    BY <1>1, Bits
  <2> QED
    BY <1>1, <2>1 DEF Plain
<1>5. ASSUME NEW c \in Instruction, NEW i \in 1..8
      PROVE  Byte(c)[i][1] = c /\ Byte(c)[i][2] = i - 1 /\ Byte(c)[i] = <<c, i - 1>>
  BY <1>2
<1>6. ASSUME NEW c \in Instruction PROVE Plain(Byte(c))
  BY <1>2, <1>3, <1>5 DEF Plain
<1> QED
  BY <1>2, <1>4, <1>5, <1>6

(* A command written to the instruction register is what it holds.         *)
LEMMA CommandWritten ==
  ASSUME NEW j, On(j, ShiftIR, ShiftIR), j.pin = 0, NEW c \in Instruction
  PROVE  LET k == WriteTDI(j, Byte(c), TRUE) IN
         On(k, ShiftIR, Scan("EXIT1", "IR")) /\ Ctl(k) = Ctl(j) /\ k.sr = <<c, 8>>
<1> DEFINE clks == Written(j, Byte(c), TRUE)
           k == WriteTDI(j, Byte(c), TRUE)
<1>1. j \in Jtag /\ c \in Content /\ c # "data"
  BY DEF On, Content, Instruction
<1> DEFINE Sent(i) == /\ clks[i] \in Clock /\ clks[i].bit = <<c, i - 1>>
                      /\ clks[i].bit[1] = c /\ clks[i].bit[2] = i - 1
                      /\ clks[i].tms = IF i = 8 THEN 1 ELSE 0
<1>2. /\ k = Drive(j, clks) /\ clks \in Seq(Clock) /\ Len(clks) = 8
      /\ \A i \in 1..8 : Sent(i)
  <2>1. /\ Byte(c) \in Seq(Bit) /\ Len(Byte(c)) = 8
        /\ \A i \in 1..8 : Byte(c)[i][1] = c /\ Byte(c)[i][2] = i - 1 /\ Byte(c)[i] = <<c, i - 1>>
    BY PlainBits
  <2>2. /\ WriteTDI(j, Byte(c), TRUE) = Drive(j, clks) /\ clks \in Seq(Clock)
        /\ Len(clks) = Len(Byte(c))
        /\ \A i \in 1..Len(Byte(c)) :
             /\ clks[i].bit = Byte(c)[i]
             /\ clks[i].tms = IF TRUE /\ i = Len(Byte(c)) THEN 1 ELSE j.pin
    BY <1>1, <2>1, WrittenClocks
  <2> HIDE DEF clks
  <2>3. Len(clks) = 8 /\ \A i \in 1..8 : clks[i] \in Clock
    <3>1. clks \in Seq(Clock) /\ Len(clks) = 8
      BY <2>1, <2>2
    <3> QED
      BY <3>1, ElementOfSeq
  <2>4. ASSUME NEW i \in 1..8 PROVE Sent(i)
    <3>1. clks[i].bit = Byte(c)[i] /\ clks[i].tms = IF i = 8 THEN 1 ELSE 0
      BY <2>1, <2>2
    <3>2. /\ Byte(c)[i][1] = c /\ Byte(c)[i][2] = i - 1 /\ Byte(c)[i] = <<c, i - 1>>
      BY <2>1
    <3> QED
      BY <2>3, <3>1, <3>2
  <2> QED
    BY <2>2, <2>3, <2>4
<1> HIDE DEF clks, k
<1>3. PICK f : Trace(f, j, clks)
  BY <1>2, DriveSteps
<1>a. /\ TapNext(ShiftIR, 0) = ShiftIR /\ TapNext(ShiftIR, 1) = Scan("EXIT1", "IR")
      /\ ShiftIR # Scan("UPDATE", "IR") /\ Scan("EXIT1", "IR") # Scan("UPDATE", "IR")
  <2>1. TapNext(ShiftIR, 0) = ShiftIR /\ TapNext(ShiftIR, 1) = Scan("EXIT1", "IR")
    BY Walked, TapTable
  <2> QED
    BY <2>1, Walked, Apart
<1> DEFINE P(l, n) == On(l, ShiftIR, ShiftIR) /\ Ctl(l) = Ctl(j) /\ (n > 0 => l.sr = <<c, n>>)
           S == {n \in Nat : n <= 7 => P(f[n], n)}
<1>b. ASSUME NEW n \in 0..7, P(f[n], n)
      PROVE  /\ f[n + 1] = Pulse(f[n], clks[n + 1]) /\ f[n + 1].sr = <<c, n + 1>>
             /\ Ctl(f[n + 1]) = Ctl(j)
             /\ On(f[n + 1], ShiftIR, TapNext(ShiftIR, clks[n + 1].tms))
  <2>1. n + 1 \in 1..8 /\ n + 1 - 1 = n
    OBVIOUS
  <2>2. f[n + 1] = Pulse(f[n], clks[n + 1])
    BY <1>2, <1>3, <2>1 DEF Trace
  <2>3. /\ clks[n + 1] \in Clock /\ clks[n + 1].bit = <<c, n>> /\ clks[n + 1].tms \in {0, 1}
        /\ clks[n + 1].bit[1] = c /\ clks[n + 1].bit[2] = n
    <3> HIDE DEF Sent
    <3>1. Sent(n + 1)
      BY <1>2, <2>1
    <3> QED
      BY <2>1, <3>1 DEF Clock, Sent
  <2>4. TapNext(ShiftIR, clks[n + 1].tms) # Scan("UPDATE", "IR")
    BY <1>a, <2>3
  <2>5. f[n] \in Jtag /\ f[n].state = ShiftIR /\ f[n].tap = ShiftIR /\ Ctl(f[n]) = Ctl(j)
        /\ (n # 0 => f[n].sr = clks[n + 1].bit)
    BY <1>b, <2>3 DEF On
  <2> HIDE DEF P
  <2>6. /\ f[n + 1] \in Jtag /\ f[n + 1].state = ShiftIR
        /\ f[n + 1].tap = TapNext(ShiftIR, clks[n + 1].tms) /\ Ctl(f[n + 1]) = Ctl(j)
        /\ f[n + 1].sr = <<c, n + 1>>
    BY <1>1, <2>2, <2>3, <2>4, <2>5, PulseMoves
  <2> QED
    BY <2>2, <2>6 DEF On
<1>4. 0 \in S
  BY <1>3 DEF Trace
<1>5. ASSUME NEW n \in Nat, n \in S PROVE n + 1 \in S
  <2>1. SUFFICES ASSUME n + 1 <= 7 PROVE P(f[n + 1], n + 1)
    OBVIOUS
  <2>2. n \in 0..7 /\ P(f[n], n) /\ n + 1 \in 1..8 /\ n + 1 # 8
    BY <1>5, <2>1
  <2>3. clks[n + 1].tms = 0
    BY <1>2, <2>2
  <2> QED
    BY <1>a, <1>b, <2>2, <2>3
<1> HIDE DEF S
<1>6. 7 \in S
  BY <1>4, <1>5, Induction
<1>7. P(f[7], 7)
  BY <1>6 DEF S
<1>8. f[8].sr = <<c, 8>> /\ Ctl(f[8]) = Ctl(j) /\ On(f[8], ShiftIR, TapNext(ShiftIR, clks[8].tms))
  <2>1. 7 \in 0..7 /\ 7 + 1 = 8
    OBVIOUS
  <2> QED
    BY <1>7, <1>b, <2>1
<1>9. clks[8].tms = 1
  BY <1>2
<1>10. k = f[8]
  BY <1>2, <1>3 DEF Trace
<1> QED
  BY <1>8, <1>9, <1>10, <1>a DEF k

-----------------------------------------------------------------------------
(* The operations, in step.                                                *)
(* Where the TAP is left between two operations.                           *)
Resting == {Idle, Reset, ShiftDR}

(* With the engine as it was, what no operation may touch is kept.         *)
LEMMA CtlKept == \A j, k : Ctl(k) = Ctl(j) => Kept(j, k)
BY DEF Ctl, Kept

(* A belief that is set where the TAP is.                                  *)
LEMMA Marked ==
  ASSUME NEW j, NEW s, NEW x, On(j, s, x), NEW t \in TapState
  PROVE  LET k == [j EXCEPT !.state = t] IN On(k, t, x) /\ Same(j, k) /\ k.pin = j.pin
BY DEF On, Same, Ctl, Jtag

(* A command that is shifted in is executed, and the TAP goes to idle.     *)
LEMMA CommandShift ==
  ASSUME NEW j, NEW s \in Resting, On(j, s, s), NEW c \in Instruction
  PROVE  LET k == Shift(j, "IR", Byte(c)) IN
         On(k, Idle, Idle) /\ Kept(j, k) /\ Ctl(k) = Ctl(Execute(j, c))
<1> DEFINE k1 == SetState(j, ShiftIR)
           k2 == WriteTDI(k1, Byte(c), TRUE)
           k3 == [k2 EXCEPT !.state = Scan("EXIT1", "IR")]
           k4 == SetState(k3, Idle)
<1>1. On(k1, ShiftIR, ShiftIR) /\ Same(j, k1) /\ k1.pin = 0
  BY IdleToShiftIR, ResetToShiftIR, ShiftToShiftIR, Apart DEF Walks, Resting
<1>2. On(k2, ShiftIR, Scan("EXIT1", "IR")) /\ Ctl(k2) = Ctl(k1) /\ k2.sr = <<c, 8>>
  BY <1>1, CommandWritten
<1>3. Shift(j, "IR", Byte(c)) = k4
  <2>1. j.state # ShiftIR /\ k2.state = ShiftIR /\ ShiftIR # ShiftDR
    BY <1>2, Apart DEF On, Resting
  <2>2. ReadWrite(k1, Byte(c), TRUE) = k3
    BY <2>1 DEF ReadWrite, ShiftDR
  <2> QED
    BY <2>1, <2>2 DEF Shift, ShiftIR
<1> HIDE DEF k1, k2
<1>4. /\ On(k3, Scan("EXIT1", "IR"), Scan("EXIT1", "IR"))
      /\ Ctl(k3) = Ctl(k2) /\ k3.sr = <<c, 8>>
  BY <1>2, Marked, Walked DEF Same
<1> HIDE DEF k3
<1>5. On(k4, Idle, Idle) /\ Kept(k3, k4) /\ Ctl(k4) = Ctl(Execute(k3, c))
  <2>1. <<c, 8>>[1] = c /\ <<c, 8>>[2] = 8
    OBVIOUS
  <2> QED
    BY <1>4, <2>1, ExitExecutes
<1> HIDE DEF k4
<1>6. Ctl(k3) = Ctl(j)
  BY <1>1, <1>2, <1>4 DEF Same
<1>7. Ctl(Execute(k3, c)) = Ctl(Execute(j, c))
  <2>1. j \in Jtag /\ k3 \in Jtag /\ c \in Content
    BY <1>4 DEF On, Content
  <2> QED
    BY <1>6, <2>1, ExecuteCtl
<1> QED
  BY <1>3, <1>5, <1>6, <1>7, CtlKept, Chains

(* A command is executed, once, and the TAP rests.                         *)
LEMMA CommandSent ==
  ASSUME NEW j, NEW s \in Resting, On(j, s, s), NEW c \in Instruction
  PROVE  LET k == SendCommand(j, c) IN
         On(k, Idle, Idle) /\ Kept(j, k) /\ Ctl(k) = Ctl(Execute(j, c))
<1> DEFINE a == Shift(j, "IR", Byte(c))
           k == Drive(a, Clocks(0, 6))
<1>1. On(a, Idle, Idle) /\ Kept(j, a) /\ Ctl(a) = Ctl(Execute(j, c))
  BY CommandShift
<1>2. SendCommand(j, c) = k
  <2>1. a.state = Idle /\ Idle # Reset
    BY <1>1, Distinct DEF On
  <2>2. SendCommand(j, c) = Toggle(a, 6)
    BY DEF SendCommand, Byte
  <2> QED
    BY <2>1, <2>2 DEF Toggle
<1> HIDE DEF a
<1>3. On(k, Idle, Idle) /\ Ctl(k) = Ctl(a)
  <2>1. TapNext(Idle, 0) = Idle /\ Idle # Scan("UPDATE", "IR")
    BY TapTable, Apart
  <2> QED
    BY <1>1, <2>1, Idling
<1> HIDE DEF k
<1> QED
  BY <1>1, <1>2, <1>3, CtlKept, Chains

(* A data register is shifted and left: the engine sees nothing of it.     *)
LEMMA DataShift ==
  ASSUME NEW j, On(j, Idle, Idle)
  PROVE  LET k == Shift(j, "DR", Word) IN On(k, Idle, Idle) /\ Same(j, k)
<1> DEFINE k1 == SetState(j, ShiftDR)
           k2 == WriteTDI(k1, Word, TRUE)
           k3 == [k2 EXCEPT !.state = Scan("EXIT1", "DR")]
           k4 == SetState(k3, Idle)
<1>1. On(k1, ShiftDR, ShiftDR) /\ Same(j, k1) /\ k1.pin = 0
  BY IdleToShiftDR, Apart DEF Walks
<1>2. On(k2, ShiftDR, Scan("EXIT1", "DR")) /\ Same(k1, k2)
  <2>1. /\ TapNext(ShiftDR, 0) = ShiftDR /\ TapNext(ShiftDR, 1) = Scan("EXIT1", "DR")
        /\ ShiftDR \notin {ShiftIR, Scan("UPDATE", "IR")}
        /\ Scan("EXIT1", "DR") # Scan("UPDATE", "IR")
    BY Walked, Apart, TapTable
  <2>2. Plain(Word)
    BY PlainBits
  <2> HIDE DEF k1
  <2> QED
    BY <1>1, <2>1, <2>2, WriteLast
<1>3. Shift(j, "DR", Word) = k4
  <2>1. j.state # ShiftDR /\ k2.state = ShiftDR
    BY <1>2, Apart DEF On
  <2>2. ReadWrite(k1, Word, TRUE) = k3
    BY <2>1 DEF ReadWrite, ShiftDR
  <2> QED
    BY <2>1, <2>2 DEF Shift, ShiftDR
<1> HIDE DEF k1, k2
<1>4. On(k3, Scan("EXIT1", "DR"), Scan("EXIT1", "DR")) /\ Same(k2, k3)
  BY <1>2, Marked, Walked
<1> HIDE DEF k3
<1>5. On(k4, Idle, Idle) /\ Same(k3, k4)
  BY <1>4, ExitToIdle DEF Walks
<1> HIDE DEF k4
<1> QED
  BY <1>1, <1>2, <1>3, <1>4, <1>5, Chains

(* A register is read after its command, and the TAP rests.                *)
LEMMA RegisterRead ==
  ASSUME NEW j, NEW s \in Resting, On(j, s, s), NEW c \in Instruction
  PROVE  LET k == ReadReg(j, c) IN
         On(k, Idle, Idle) /\ Kept(j, k) /\ Ctl(k) = Ctl(Execute(j, c))
<1> DEFINE a == SendCommand(j, c)
           k == Shift(a, "DR", Word)
<1>1. On(a, Idle, Idle) /\ Kept(j, a) /\ Ctl(a) = Ctl(Execute(j, c))
  BY CommandSent
<1>2. ReadReg(j, c) = k
  BY DEF ReadReg
<1> HIDE DEF a
<1>3. On(k, Idle, Idle) /\ Same(a, k)
  BY <1>1, DataShift
<1> HIDE DEF k
<1> QED
  BY <1>1, <1>2, <1>3, SameKept, Chains DEF Same

(* Six clocks with TMS high bring any TAP to its reset state.              *)
LEMMA FiveUp ==
  \A x \in TapState :
    TapNext(TapNext(TapNext(TapNext(TapNext(TapNext(x, 1), 1), 1), 1), 1), 1) = Reset
<1> SUFFICES ASSUME NEW x \in TapState
             PROVE  TapNext(TapNext(TapNext(TapNext(TapNext(TapNext(x, 1), 1), 1), 1), 1), 1) = Reset
  OBVIOUS
<1>1. CASE x = Reset
  BY <1>1, TapTable
<1>2. CASE x = Idle
  BY <1>2, TapTable
<1>3. ASSUME NEW n \in Rows, NEW c \in Columns, x = Scan(n, c)
      PROVE  TapNext(TapNext(TapNext(TapNext(TapNext(TapNext(x, 1), 1), 1), 1), 1), 1) = Reset
  <2>1. CASE c = "DR"
    BY <1>3, <2>1, TapTable, Walked DEF Rows
  <2>2. CASE c = "IR"
    BY <1>3, <2>2, TapTable, Walked DEF Rows
  <2> QED
    BY <2>1, <2>2 DEF Columns
<1> QED
  BY <1>1, <1>2, <1>3, States

(* Clocks of one level are clocks.                                         *)
LEMMA ClocksAre ==
  \A b \in {0, 1}, n \in Nat :
    /\ Clocks(b, n) \in Seq(Clock) /\ Len(Clocks(b, n)) = n
    /\ \A i \in 1..n : Clocks(b, n)[i] \in Clock /\ Clocks(b, n)[i].tms = b
                       /\ Clocks(b, n)[i].bit = Filler /\ Clocks(b, n)[i].bit[1] # "data"
<1> SUFFICES ASSUME NEW b \in {0, 1}, NEW n \in Nat
             PROVE  /\ Clocks(b, n) \in Seq(Clock) /\ Len(Clocks(b, n)) = n
                    /\ \A i \in 1..n : Clocks(b, n)[i] \in Clock /\ Clocks(b, n)[i].tms = b
                         /\ Clocks(b, n)[i].bit = Filler /\ Clocks(b, n)[i].bit[1] # "data"
  OBVIOUS
<1> DEFINE clk == [tms |-> b, bit |-> Filler]
<1>1. clk \in Clock /\ clk.tms = b /\ clk.bit = Filler /\ clk.bit[1] # "data"
  BY Bits DEF Clock
<1>2. Clocks(b, n) = [i \in 1..n |-> clk]
  BY DEF Clocks
<1> HIDE DEF clk
<1> QED
  BY <1>1, <1>2

(* ... so flushTMS ends in step whatever the belief was.                   *)
LEMMA ResetByClocks ==
  ASSUME NEW j \in Jtag
  PROVE  LET k == [Drive(j, Clocks(1, 6)) EXCEPT !.state = Reset] IN On(k, Reset, Reset) /\ Kept(j, k)
<1> DEFINE a == Drive(j, Clocks(1, 6))
           k == [a EXCEPT !.state = Reset]
<1>1. /\ Clocks(1, 6) \in Seq(Clock) /\ Len(Clocks(1, 6)) = 6
      /\ \A i \in 1..6 : Clocks(1, 6)[i] \in Clock /\ Clocks(1, 6)[i].tms = 1
  BY ClocksAre
<1>2. a \in Jtag /\ Kept(j, a)
  BY <1>1, DriveKeeps DEF Kept
<1>3. PICK f : Trace(f, j, Clocks(1, 6))
  BY <1>1, DriveSteps
<1>4. ASSUME NEW n \in 0..5, f[n] \in Jtag
      PROVE  f[n + 1] \in Jtag /\ f[n + 1].tap = TapNext(f[n].tap, 1)
  <2>1. n + 1 \in 1..6 /\ n + 1 - 1 = n
    OBVIOUS
  <2>2. f[n + 1] = Pulse(f[n], Clocks(1, 6)[n + 1])
    <3>1. \A m \in 1..6 : f[m] = Pulse(f[m - 1], Clocks(1, 6)[m])
      BY <1>1, <1>3 DEF Trace
    <3>2. f[n + 1] = Pulse(f[n + 1 - 1], Clocks(1, 6)[n + 1])
      BY <2>1, <3>1
    <3> QED
      BY <2>1, <3>2
  <2>3. Clocks(1, 6)[n + 1] \in Clock /\ Clocks(1, 6)[n + 1].tms = 1
    BY <1>1, <2>1
  <2> QED
    BY <1>4, <2>2, <2>3, PulseMoves
<1>5. f[0] = j /\ f[6] = a
  BY <1>1, <1>3 DEF Trace
<1> HIDE DEF a
<1>6. /\ f[1] \in Jtag /\ f[1].tap = TapNext(j.tap, 1)
      /\ f[2] \in Jtag /\ f[2].tap = TapNext(f[1].tap, 1)
      /\ f[3] \in Jtag /\ f[3].tap = TapNext(f[2].tap, 1)
      /\ f[4] \in Jtag /\ f[4].tap = TapNext(f[3].tap, 1)
      /\ f[5] \in Jtag /\ f[5].tap = TapNext(f[4].tap, 1) /\ f[6].tap = TapNext(f[5].tap, 1)
  BY <1>4, <1>5
<1>7. a.tap = Reset
  BY <1>5, <1>6, FiveUp DEF Jtag
<1>8. On(a, a.state, Reset)
  BY <1>2, <1>7 DEF On
<1>9. On(k, Reset, Reset) /\ Same(a, k)
  BY <1>8, Marked, Walked
<1> QED
  BY <1>2, <1>9, SameKept, Chains DEF a

(* From a wrong belief of SHIFT-DR: the four clocks up that begin the walk  *)
(* to SHIFT-IR gather the TAP in one of two states, wherever it was.       *)
LEMMA Gathered ==
  \A x \in TapState :
    LET y == TapNext(TapNext(TapNext(TapNext(x, 1), 1), 1), 1)
    IN y \in {Reset, Scan("SELECT", "IR")}
<1> SUFFICES ASSUME NEW x \in TapState
             PROVE  TapNext(TapNext(TapNext(TapNext(x, 1), 1), 1), 1) \in {Reset, Scan("SELECT", "IR")}
  OBVIOUS
<1>1. CASE x = Reset
  BY <1>1, TapTable
<1>2. CASE x = Idle
  BY <1>2, TapTable
<1>3. ASSUME NEW n \in Rows, NEW c \in Columns, x = Scan(n, c)
      PROVE  TapNext(TapNext(TapNext(TapNext(x, 1), 1), 1), 1) \in {Reset, Scan("SELECT", "IR")}
  <2>1. CASE c = "DR"
    BY <1>3, <2>1, TapTable, Walked DEF Rows
  <2>2. CASE c = "IR"
    BY <1>3, <2>2, TapTable, Walked DEF Rows
  <2> QED
    BY <2>1, <2>2 DEF Columns
<1> QED
  BY <1>1, <1>2, <1>3, States

(* From there the walk to SHIFT-IR ends there, or in idle.                 *)
LEMMA BlindToShiftIR ==
  ASSUME NEW j \in Jtag, j.state = ShiftDR
  PROVE  LET k == SetState(j, ShiftIR) IN
         On(k, ShiftIR, k.tap) /\ k.tap \in {ShiftIR, Idle} /\ Kept(j, k) /\ k.pin = 0
<1> DEFINE k1 == Turn(j, ShiftIR)
           k2 == Turn(k1, ShiftIR)
           k3 == Turn(k2, ShiftIR)
           k4 == Turn(k3, ShiftIR)
           k5 == Turn(k4, ShiftIR)
           k6 == Turn(k5, ShiftIR)
           x1 == TapNext(j.tap, 1)
           x2 == TapNext(x1, 1)
           x3 == TapNext(x2, 1)
           x4 == TapNext(x3, 1)
           x5 == TapNext(x4, 0)
           x6 == TapNext(x5, 0)
<1>0. On(j, ShiftDR, j.tap) /\ j.tap \in TapState /\ ShiftIR \in {ShiftIR, Reset}
  BY DEF On, Jtag
<1>a. SetState(j, ShiftIR) = k6 \/ k6.state # ShiftIR
  BY SixTurns DEF Six
<1>b. x4 \in {Reset, Scan("SELECT", "IR")}
  BY <1>0, Gathered
<1>1. On(k1, Scan("EXIT1", "DR"), x1) /\ Kept(j, k1)
  BY <1>0, OnWalk, WalkTable, Walked, Apart
<1> HIDE DEF k1, x1
<1>2. On(k2, Scan("UPDATE", "DR"), x2) /\ Kept(k1, k2)
  BY <1>0, <1>1, OnWalk, WalkTable, Walked, Apart
<1> HIDE DEF k2, x2
<1>3. On(k3, Scan("SELECT", "DR"), x3) /\ Kept(k2, k3)
  BY <1>0, <1>2, OnWalk, WalkTable, Walked, Apart
<1> HIDE DEF k3, x3
<1>4. On(k4, Scan("SELECT", "IR"), x4) /\ Kept(k3, k4)
  BY <1>0, <1>3, OnWalk, WalkTable, Walked, Apart
<1> HIDE DEF k4, x4
<1>5. On(k5, Scan("CAPTURE", "IR"), x5) /\ Kept(k4, k5)
  BY <1>4, OnWalk, WalkTable, Walked, Apart
<1>c. x6 \in {ShiftIR, Idle}
  BY <1>b, TapTable, Walked
<1> HIDE DEF k5, x5
<1>6. On(k6, ShiftIR, x6) /\ Kept(k5, k6) /\ k6.pin = 0
  BY <1>5, OnWalk, WalkTable, Walked, Apart
<1> HIDE DEF k6, x6
<1> QED
  BY <1>a, <1>c, <1>1, <1>2, <1>3, <1>4, <1>5, <1>6, Chains DEF On

(* The first status read after a bitstream brings the TAP back in step.    *)
LEMMA Resynchronised ==
  ASSUME NEW j \in Jtag, j.state = ShiftDR, NEW c \in Instruction
  PROVE  LET k == ReadReg(j, c) IN On(k, Idle, Idle) /\ Kept(j, k)
<1> DEFINE k1 == SetState(j, ShiftIR)
           k2 == WriteTDI(k1, Byte(c), TRUE)
           k3 == [k2 EXCEPT !.state = Scan("EXIT1", "IR")]
           k4 == SetState(k3, Idle)
           k5 == Drive(k4, Clocks(0, 6))
           k6 == Shift(k5, "DR", Word)
<1>1. On(k1, ShiftIR, k1.tap) /\ k1.tap \in {ShiftIR, Idle} /\ Kept(j, k1) /\ k1.pin = 0
  BY BlindToShiftIR
<1>2. ReadReg(j, c) = IF k4.state = Idle THEN k6 ELSE ReadReg(j, c)
  <2>1. SUFFICES ASSUME k4.state = Idle PROVE ReadReg(j, c) = k6
    OBVIOUS
  <2>2. j.state # ShiftIR /\ ShiftIR # ShiftDR /\ Idle # Reset
    BY Apart
  <2>3. k2.state = ShiftIR
    <3>1. k1 \in Jtag /\ k1.state = ShiftIR
      BY <1>1 DEF On
    <3> HIDE DEF k1
    <3>2. Written(k1, Byte(c), TRUE) \in Seq(Clock) /\ k2 = Drive(k1, Written(k1, Byte(c), TRUE))
      BY <3>1, WrittenClocks, PlainBits
    <3> HIDE DEF k2
    <3> QED
      BY <3>1, <3>2, DriveKeeps
  <2>4. ReadWrite(k1, Byte(c), TRUE) = k3
    BY <2>2, <2>3 DEF ReadWrite, ShiftDR
  <2>5. Shift(j, "IR", Byte(c)) = k4
    BY <2>2, <2>4 DEF Shift, ShiftIR
  <2> HIDE DEF k4
  <2>6. SendCommand(j, c) = k5
    BY <2>1, <2>2, <2>5 DEF SendCommand, Byte, Toggle
  <2> QED
    BY <2>6 DEF ReadReg
<1>3. CASE k1.tap = ShiftIR
  <2>1. On(k1, ShiftIR, ShiftIR)
    BY <1>1, <1>3
  <2> HIDE DEF k1
  <2>2. On(k2, ShiftIR, Scan("EXIT1", "IR")) /\ Ctl(k2) = Ctl(k1) /\ k2.sr = <<c, 8>>
    BY <1>1, <2>1, CommandWritten
  <2> HIDE DEF k2
  <2>3. On(k3, Scan("EXIT1", "IR"), Scan("EXIT1", "IR")) /\ Same(k2, k3) /\ k3.sr = <<c, 8>>
    BY <2>2, Marked, Walked DEF Same
  <2> HIDE DEF k3
  <2>4. On(k4, Idle, Idle) /\ Kept(k3, k4)
    <3>1. <<c, 8>>[2] = 8
      OBVIOUS
    <3> QED
      BY <2>3, <3>1, ExitExecutes
  <2> HIDE DEF k4
  <2>5. On(k5, Idle, Idle) /\ Ctl(k5) = Ctl(k4)
    <3>1. TapNext(Idle, 0) = Idle /\ Idle # Scan("UPDATE", "IR")
      BY TapTable, Apart
    <3> QED
      BY <2>4, <3>1, Idling
  <2> HIDE DEF k5
  <2>6. On(k6, Idle, Idle) /\ Same(k5, k6)
    BY <2>5, DataShift
  <2> HIDE DEF k6
  <2>7. k4.state = Idle
    BY <2>4 DEF On
  <2>8. Kept(k1, k6)
    BY <2>2, <2>3, <2>4, <2>5, <2>6, CtlKept, SameKept, Chains
  <2> QED
    BY <1>1, <1>2, <2>6, <2>7, <2>8, Chains
<1>4. CASE k1.tap = Idle
  <2>1. On(k1, ShiftIR, Idle)
    BY <1>1, <1>4
  <2> HIDE DEF k1
  <2>2. On(k2, ShiftIR, Scan("SELECT", "DR")) /\ Same(k1, k2)
    <3>1. /\ TapNext(Idle, 0) = Idle /\ TapNext(Idle, 1) = Scan("SELECT", "DR")
          /\ Idle \notin {ShiftIR, Scan("UPDATE", "IR")}
          /\ Scan("SELECT", "DR") # Scan("UPDATE", "IR")
      BY TapTable, Apart
    <3>2. Plain(Byte(c))
      BY PlainBits
    <3> QED
      BY <1>1, <2>1, <3>1, <3>2, WriteLast
  <2> HIDE DEF k2
  <2>3. On(k3, Scan("EXIT1", "IR"), Scan("SELECT", "DR")) /\ Same(k2, k3)
    BY <2>2, Marked, Walked
  <2> HIDE DEF k3
  <2>4. On(k4, Idle, Scan("CAPTURE", "IR")) /\ Kept(k3, k4)
    <3> DEFINE l1 == Turn(k3, Idle)
               l2 == Turn(l1, Idle)
    <3>1. On(l1, Scan("UPDATE", "IR"), Scan("SELECT", "IR")) /\ Kept(k3, l1)
      BY <2>3, OnWalk, WalkTable, TapTable, Walked, Apart
    <3> HIDE DEF l1
    <3>2. On(l2, Idle, Scan("CAPTURE", "IR")) /\ Kept(l1, l2)
      BY <3>1, OnWalk, WalkTable, TapTable, Walked, Apart
    <3> HIDE DEF l2
    <3>3. k4 = l2
      <4>1. Six(k3, Idle) = l2
        BY <3>2, Arrived DEF Six, l1, l2
      <4> QED
        BY <3>2, <4>1, SixTurns DEF On
    <3> QED
      BY <3>1, <3>2, <3>3, Chains
  <2> HIDE DEF k4
  <2>5. On(k5, Idle, ShiftIR) /\ Kept(k4, k5)
    <3> DEFINE clk == [tms |-> 0, bit |-> Filler]
               l == Pulse(k4, clk)
               rest == Clocks(0, 5)
    <3>1. clk \in Clock /\ clk.tms = 0 /\ clk.bit[1] # "data"
      BY Bits DEF Clock
    <3>2. rest \in Seq(Clock) /\ Len(rest) = 5
      BY ClocksAre
    <3>3. Clocks(0, 6) = <<clk>> \o rest
      BY DEF Clocks
    <3> HIDE DEF clk
    <3>4. On(l, Idle, ShiftIR) /\ Kept(k4, l)
      <4>1. TapNext(Scan("CAPTURE", "IR"), 0) = ShiftIR
        BY TapTable, Walked
      <4> QED
        BY <2>4, <3>1, <4>1, PulseMoves DEF On, Kept
    <3> HIDE DEF l
    <3>5. k5 = Drive(l, rest)
      BY <3>1, <3>2, <3>3, DriveStep DEF l
    <3>6. On(Drive(l, rest), Idle, ShiftIR) /\ Ctl(Drive(l, rest)) = Ctl(l)
      <4>1. TapNext(ShiftIR, 0) = ShiftIR /\ ShiftIR # Scan("UPDATE", "IR")
        BY TapTable, Apart, Walked
      <4> QED
        BY <3>4, <4>1, Idling
    <3> QED
      BY <3>4, <3>5, <3>6, CtlKept, Chains
  <2> HIDE DEF k5
  <2>6. On(k6, Idle, Idle) /\ Kept(k5, k6)
    <3> DEFINE l1 == Turn(k5, ShiftDR)
               l2 == Turn(l1, ShiftDR)
               l3 == Turn(l2, ShiftDR)
               l4 == WriteTDI(l3, Word, TRUE)
               l5 == [l4 EXCEPT !.state = Scan("EXIT1", "DR")]
               l6 == Turn(l5, Idle)
               l7 == Turn(l6, Idle)
    <3>1. On(l1, Scan("SELECT", "DR"), Scan("EXIT1", "IR")) /\ Kept(k5, l1)
      BY <2>5, OnWalk, WalkTable, TapTable, Walked, Apart
    <3> HIDE DEF l1
    <3>2. On(l2, Scan("CAPTURE", "DR"), Scan("PAUSE", "IR")) /\ Kept(l1, l2)
      BY <3>1, OnWalk, WalkTable, TapTable, Walked, Apart
    <3> HIDE DEF l2
    <3>3. On(l3, ShiftDR, Scan("PAUSE", "IR")) /\ Kept(l2, l3) /\ l3.pin = 0
      BY <3>2, OnWalk, WalkTable, TapTable, Walked, Apart
    <3> HIDE DEF l3
    <3>4. SetState(k5, ShiftDR) = l3
      <4>1. Six(k5, ShiftDR) = l3
        BY <3>3, Arrived DEF Six, l1, l2, l3
      <4> QED
        BY <3>3, <4>1, SixTurns DEF On
    <3>5. On(l4, ShiftDR, Scan("EXIT2", "IR")) /\ Same(l3, l4)
      <4>1. /\ TapNext(Scan("PAUSE", "IR"), 0) = Scan("PAUSE", "IR")
            /\ TapNext(Scan("PAUSE", "IR"), 1) = Scan("EXIT2", "IR")
            /\ Scan("PAUSE", "IR") \notin {ShiftIR, Scan("UPDATE", "IR")}
            /\ Scan("EXIT2", "IR") # Scan("UPDATE", "IR")
        BY TapTable, Apart, Walked
      <4>2. Plain(Word)
        BY PlainBits
      <4> QED
        BY <3>3, <4>1, <4>2, WriteLast
    <3>6. k6 = SetState(l5, Idle)
      <4>1. k5.state # ShiftDR /\ l4.state = ShiftDR
        BY <2>5, <3>5, Apart DEF On
      <4>2. ReadWrite(l3, Word, TRUE) = l5
        BY <4>1 DEF ReadWrite, ShiftDR
      <4> QED
        BY <3>4, <4>1, <4>2 DEF Shift, ShiftDR
    <3> HIDE DEF l4
    <3>7. On(l5, Scan("EXIT1", "DR"), Scan("EXIT2", "IR")) /\ Same(l4, l5)
      BY <3>5, Marked, Walked
    <3> HIDE DEF l5
    <3>8. On(l6, Scan("UPDATE", "DR"), Scan("UPDATE", "IR")) /\ Kept(l5, l6)
      BY <3>7, OnWalk, WalkTable, TapTable, Walked, Apart
    <3> HIDE DEF l6
    <3>9. On(l7, Idle, Idle) /\ Kept(l6, l7)
      BY <3>8, OnWalk, WalkTable, TapTable, Walked, Apart
    <3> HIDE DEF l7
    <3>10. SetState(l5, Idle) = l7
      <4>1. Six(l5, Idle) = l7
        BY <3>9, Arrived DEF Six, l6, l7
      <4> QED
        BY <3>9, <4>1, SixTurns DEF On
    <3> QED
      BY <3>1, <3>2, <3>3, <3>5, <3>6, <3>7, <3>8, <3>9, <3>10, SameKept, Chains
  <2> HIDE DEF k6
  <2>7. k4.state = Idle
    BY <2>4 DEF On
  <2>8. Kept(k1, k6)
    BY <2>2, <2>3, <2>4, <2>5, <2>6, SameKept, Chains
  <2> QED
    BY <1>1, <1>2, <2>6, <2>7, <2>8, Chains
<1> QED
  BY <1>1, <1>3, <1>4

(* Going to SHIFT-DR, from anywhere the TAP rests.                         *)
LEMMA WentToShiftDR ==
  ASSUME NEW j, NEW s \in Resting, On(j, s, s)
  PROVE  On(SetState(j, ShiftDR), ShiftDR, ShiftDR) /\ Same(j, SetState(j, ShiftDR))
<1>1. CASE s = ShiftDR
  <2>1. On(j, ShiftDR, ShiftDR) /\ Turn(j, ShiftDR) = j
    BY <1>1, Arrived
  <2>2. Six(j, ShiftDR) = j
    BY <2>1 DEF Six
  <2> QED
    BY <2>1, <2>2, SixTurns, Chains DEF On
<1> QED
  BY <1>1, IdleToShiftDR, ResetToShiftDR DEF Resting, Walks

(* The chain is found, or not: the TAP rests, and nothing was executed     *)
(* that takes a core which was not asked for.                              *)
LEMMA Detected ==
  ASSUME NEW j \in Jtag
  PROVE  LET reset == [Drive(j, Clocks(1, 6)) EXCEPT !.state = Reset]
             first == ReadWrite(SetState(reset, Scan("SHIFT", "DR")), Word, FALSE)
         IN /\ On(first, ShiftDR, ShiftDR) /\ Kept(j, first)
            /\ On(SetState(first, Reset), Reset, Reset) /\ Kept(j, SetState(first, Reset))
            /\ On(SetState(ReadWrite(first, Word, FALSE), Reset), Reset, Reset)
            /\ Kept(j, SetState(ReadWrite(first, Word, FALSE), Reset))
<1> DEFINE k1 == [Drive(j, Clocks(1, 6)) EXCEPT !.state = Reset]
           k2 == SetState(k1, ShiftDR)
           k3 == ReadWrite(k2, Word, FALSE)
           k4 == SetState(k3, Reset)
           k5 == ReadWrite(k3, Word, FALSE)
           k6 == SetState(k5, Reset)
<1>0. Plain(Word) /\ TapNext(ShiftDR, 0) = ShiftDR /\ ShiftDR \notin {ShiftIR, Scan("UPDATE", "IR")}
  BY PlainBits, TapTable, Walked, Apart
<1>a. ASSUME NEW k, On(k, ShiftDR, ShiftDR), k.pin = 0
      PROVE  /\ On(ReadWrite(k, Word, FALSE), ShiftDR, ShiftDR)
             /\ Same(k, ReadWrite(k, Word, FALSE)) /\ ReadWrite(k, Word, FALSE).pin = 0
  <2> DEFINE w == WriteTDI(k, Word, FALSE)
  <2>1. On(w, ShiftDR, ShiftDR) /\ Same(k, w) /\ w.pin = 0
    <3> HIDE DEF w
    <3>1. ShiftDR # ShiftIR /\ ShiftDR # Scan("UPDATE", "IR") /\ TapNext(ShiftDR, 0) = ShiftDR
      BY <1>0
    <3>2. On(k, ShiftDR, ShiftDR) /\ k.pin = 0
      BY <1>a
    <3>3. Plain(Word)
      BY <1>0
    <3>4. On(w, ShiftDR, ShiftDR) /\ Same(k, w) /\ Low(w)
      BY <3>1, <3>2, <3>3, WriteMore DEF w
    <3> QED
      BY <3>4 DEF Low
  <2>2. ReadWrite(k, Word, FALSE) = [w EXCEPT !.state = w.state]
    BY DEF ReadWrite
  <2> HIDE DEF w
  <2>3. [w EXCEPT !.state = w.state] = w
    BY <2>1 DEF On, Jtag
  <2> QED
    BY <2>1, <2>2, <2>3
<1>1. On(k1, Reset, Reset) /\ Kept(j, k1)
  BY ResetByClocks
<1> HIDE DEF k1
<1>2. On(k2, ShiftDR, ShiftDR) /\ Kept(k1, k2) /\ k2.pin = 0
  BY <1>1, ResetToShiftDR, SameKept, Apart DEF Walks
<1> HIDE DEF k2
<1>3. On(k3, ShiftDR, ShiftDR) /\ Kept(k2, k3) /\ k3.pin = 0
  BY <1>2, <1>a, SameKept
<1> HIDE DEF k3
<1>4. On(k4, Reset, Reset) /\ Kept(k3, k4)
  BY <1>3, ShiftToReset, SameKept DEF Walks
<1> HIDE DEF k4
<1>5. On(k5, ShiftDR, ShiftDR) /\ Kept(k3, k5)
  BY <1>3, <1>a, SameKept
<1> HIDE DEF k5
<1>6. On(k6, Reset, Reset) /\ Kept(k5, k6)
  BY <1>5, ShiftToReset, SameKept DEF Walks
<1> HIDE DEF k6
<1>7. Kept(j, k3) /\ Kept(j, k4) /\ Kept(j, k6)
  BY <1>1, <1>2, <1>3, <1>4, <1>5, <1>6, Chains
<1> QED
  BY <1>3, <1>4, <1>6, <1>7 DEF k1, k2, k3, k4, k5, k6, ShiftDR

(* A block of the bitstream.                                               *)
LEMMA Streamed ==
  ASSUME NEW j \in Jtag, NEW n \in Nat, n < Blocks, NEW end \in BOOLEAN
  PROVE  LET k == Drive(j, [i \in 1..BlockBits |->
                              [tms |-> IF end /\ i = BlockBits THEN 1 ELSE 0,
                               bit |-> <<"data", n * BlockBits + i - 1>>]])
         IN k \in Jtag /\ k.state = j.state /\ Kept(j, k)
<1> DEFINE clk(i) == [tms |-> IF end /\ i = BlockBits THEN 1 ELSE 0,
                      bit |-> <<"data", n * BlockBits + i - 1>>]
           clks == [i \in 1..BlockBits |-> clk(i)]
<1>1. BlockBits \in Nat /\ Blocks \in Nat /\ BlockBits > 0
  BY ProgrammerAssumption
<1>2. (n + 1) * BlockBits <= Blocks * BlockBits
  <2>1. \A a, b, c \in Nat : a <= b => a * c <= b * c
    OBVIOUS
  <2>2. n + 1 \in Nat /\ n + 1 <= Blocks
    BY <1>1
  <2> QED
    BY <1>1, <2>1, <2>2
<1>3. ASSUME NEW i \in 1..BlockBits PROVE clk(i) \in Clock
  <2>1. (n + 1) * BlockBits = n * BlockBits + BlockBits /\ n * BlockBits \in Nat
    BY <1>1
  <2>2. n * BlockBits + i - 1 \in 0..(Whole - 1)
    BY <1>1, <1>2, <2>1 DEF Whole
  <2>3. <<"data", n * BlockBits + i - 1>> \in Bit
    BY <2>2, Bits
  <2> QED
    BY <2>3 DEF Clock
<1>4. clks \in Seq(Clock)
  <2> HIDE DEF clk
  <2> QED
    BY <1>1, <1>3
<1> QED
  BY <1>4, DriveKeeps DEF Kept

-----------------------------------------------------------------------------
(* The scripts.                                                            *)
Op == {Cmd(c) : c \in Instruction} \cup {Read(c) : c \in Instruction}
      \cup {Poll(f, v) : f \in {"edit", "erased", "done"}, v \in BOOLEAN}
      \cup {[op |-> "goto", arg |-> ShiftDR, want |-> TRUE]}

(* What is left of a script.                                               *)
Left(ops, script) ==
  /\ ops \in Seq(Op) /\ Len(ops) <= Len(script)
  /\ \A i \in 1..Len(ops) : ops[i] = script[Len(script) - Len(ops) + i]

-----------------------------------------------------------------------------
(* The inductive invariant.  In its parts: the belief is right where the   *)
(* TAP rests, and is SHIFT-DR where it may be wrong; the operations left   *)
(* are the end of a script; what an erase has established so far; what     *)
(* started; and how a board came to be known.                              *)
Wired == jtag \in Jtag /\ jtag.load = file
Astray == FirstRead \/ (pc = "stream" /\ sent > 0)
Steady == \/ \E s \in Resting : On(jtag, s, s)
          \/ jtag.state = ShiftDR /\ Astray
AtShift == pc = "stream" \/ (pc = "start" /\ todo = <<>>) => jtag.state = ShiftDR

Scripted ==
  \/ pc \in {"idle", "detect", "check", "stream"} /\ todo = <<>>
  \/ pc \in {"identify1", "identify2"} /\ Left(todo, Identify)
  \/ pc \in {"erase1", "erase2"} /\ Left(todo, Unstick \o Erase)
  \/ pc = "start" /\ Left(todo, WriteStart)
  \/ pc = "end" /\ Left(todo, WriteEnd)

Cleared == jtag.running \in {NoCore, jtag.load}
Erasing ==
  /\ pc \in {"erase1", "erase2"} =>
       /\ Len(todo) = 10 => jtag.edit
       /\ Len(todo) \in {8, 9} => (jtag.erased => Cleared)
       /\ Len(todo) < 8 => Cleared
  /\ pc \in {"identify2", "erase2", "start", "stream", "end"} => Cleared

Started == (pc = "end" /\ todo = <<>>) \/ (pc = "idle" /\ result) => jtag.running = file

Recognised ==
  /\ id # "none" \/ pc # "idle" => calls > 0
  /\ pc = "detect" /\ id # "none" => calls > 1
  /\ pc = "check" => /\ board = "absent" => chain = 0
                     /\ board = "unknown" => id = "unknown"
                     /\ board = "dead" /\ id = "known" => calls > 1
  /\ OnlyKnownBoards

IInv == TypeOK /\ Wired /\ Steady /\ AtShift /\ Scripted /\ Erasing /\ Started /\ Recognised

(* Carrying out an operation leaves a shorter end of the script.           *)
LEMMA LeftTail ==
  ASSUME NEW ops, NEW script, Len(script) \in Nat, Left(ops, script), ops # <<>>
  PROVE  /\ Left(Tail(ops), script) /\ Len(Tail(ops)) = Len(ops) - 1 /\ Len(ops) \in Nat \ {0}
         /\ Len(ops) <= Len(script)
         /\ Head(ops) \in Op /\ Head(ops) = script[Len(script) - Len(ops) + 1]
         /\ Tail(ops) = <<>> <=> Len(ops) = 1
<1>1. /\ ops \in Seq(Op) /\ Len(ops) \in Nat /\ Len(ops) > 0 /\ Len(ops) <= Len(script)
      /\ \A i \in 1..Len(ops) : ops[i] = script[Len(script) - Len(ops) + i]
  BY DEF Left
<1>2. /\ Head(ops) = ops[1] /\ ops[1] \in Op /\ Tail(ops) \in Seq(Op)
      /\ Len(Tail(ops)) = Len(ops) - 1
      /\ \A i \in 1..(Len(ops) - 1) : Tail(ops)[i] = ops[i + 1]
  <2>1. ops \in Seq(Op) /\ ops # <<>> /\ 1 \in 1..Len(ops)
    BY <1>1
  <2>2. ops[1] \in Op
    BY <2>1, ElementOfSeq
  <2> QED
    <3>1. /\ Tail(ops) \in Seq(Op) /\ Len(Tail(ops)) = Len(ops) - 1
          /\ \A i \in 1..Len(Tail(ops)) : Tail(ops)[i] = ops[i + 1]
      BY <2>1, HeadTailProperties
    <3>2. Head(ops) = ops[1]
      OBVIOUS
    <3> QED
      BY <2>2, <3>1, <3>2
<1>3. Tail(ops) = <<>> <=> Len(ops) = 1
  <2>1. Tail(ops) = <<>> => Len(ops) - 1 = 0
    BY <1>2
  <2>2. Len(ops) = 1 => Tail(ops) = <<>>
    <3>1. SUFFICES ASSUME Len(ops) = 1 PROVE Tail(ops) = <<>>
      OBVIOUS
    <3>2. Tail(ops) \in Seq(Op) /\ Len(Tail(ops)) = 0
      BY <1>2, <3>1
    <3> DEFINE t == Tail(ops)
    <3>3. t \in Seq(Op) /\ ~(Len(t) \in Nat \ {0})
      BY <3>2
    <3> HIDE DEF t
    <3>4. t = <<>>
      BY <3>3, EmptySeq
    <3> QED
      BY <3>4 DEF t
  <2> QED
    BY <1>1, <2>1, <2>2
<1>4. ASSUME NEW i \in 1..Len(Tail(ops))
      PROVE  Tail(ops)[i] = script[Len(script) - Len(Tail(ops)) + i]
  <2>1. i + 1 \in 1..Len(ops) /\ Len(script) - Len(ops) + (i + 1) = Len(script) - Len(Tail(ops)) + i
    BY <1>1, <1>2
  <2> QED
    BY <1>1, <1>2, <2>1
<1> QED
  BY <1>1, <1>2, <1>3, <1>4 DEF Left

(* All of a script is an end of it.                                        *)
LEMMA LeftAll == ASSUME NEW script \in Seq(Op) PROVE Left(script, script)
BY DEF Left

(* What the operations are, by kind.                                       *)
LEMMA Ops ==
  /\ \A c \in Instruction : Cmd(c) \in Op /\ Read(c) \in Op
  /\ \A f \in {"edit", "erased", "done"}, v \in BOOLEAN : Poll(f, v) \in Op
  /\ [op |-> "goto", arg |-> ShiftDR, want |-> TRUE] \in Op
  /\ \A o \in Op : \/ o.op \in {"cmd", "read"} /\ o.arg \in Instruction
                   \/ o.op = "poll"
                   \/ o.op = "goto" /\ o.arg = ShiftDR
  /\ \A c : Cmd(c).op = "cmd" /\ Cmd(c).arg = c /\ Read(c).op = "read" /\ Read(c).arg = c
  /\ \A f, v : Poll(f, v).op = "poll" /\ Poll(f, v).arg = f /\ Poll(f, v).want = v
<1>1. /\ \A c \in Instruction : Cmd(c) \in Op /\ Read(c) \in Op
      /\ \A f \in {"edit", "erased", "done"}, v \in BOOLEAN : Poll(f, v) \in Op
      /\ [op |-> "goto", arg |-> ShiftDR, want |-> TRUE] \in Op
  BY DEF Op
<1>2. /\ \A c : Cmd(c).op = "cmd" /\ Cmd(c).arg = c /\ Read(c).op = "read" /\ Read(c).arg = c
      /\ \A f, v : Poll(f, v).op = "poll" /\ Poll(f, v).arg = f /\ Poll(f, v).want = v
  BY DEF Cmd, Read, Poll
<1>3. ASSUME NEW o \in Op
      PROVE  \/ o.op \in {"cmd", "read"} /\ o.arg \in Instruction
             \/ o.op = "poll"
             \/ o.op = "goto" /\ o.arg = ShiftDR
  <2>1. CASE \E c \in Instruction : o = Cmd(c) \/ o = Read(c)
    BY <1>2, <2>1
  <2>2. CASE \E f, v : o = Poll(f, v)
    BY <1>2, <2>2
  <2>3. CASE o = [op |-> "goto", arg |-> ShiftDR, want |-> TRUE]
    BY <2>3
  <2> QED
    BY <2>1, <2>2, <2>3 DEF Op
<1> QED
  BY <1>1, <1>2, <1>3

(* A sequence of commands is one of operations.                            *)
LEMMA CommandsAre ==
  \A cs \in Seq(Instruction) :
    /\ Commands(cs) \in Seq(Op) /\ Len(Commands(cs)) = Len(cs)
    /\ \A i \in 1..Len(cs) : Commands(cs)[i] = Cmd(cs[i])
<1> SUFFICES ASSUME NEW cs \in Seq(Instruction)
             PROVE  /\ Commands(cs) \in Seq(Op) /\ Len(Commands(cs)) = Len(cs)
                    /\ \A i \in 1..Len(cs) : Commands(cs)[i] = Cmd(cs[i])
  OBVIOUS
<1>1. DOMAIN cs = 1..Len(cs) /\ Len(cs) \in Nat /\ \A i \in 1..Len(cs) : cs[i] \in Instruction
  OBVIOUS
<1>2. Commands(cs) = [i \in 1..Len(cs) |-> Cmd(cs[i])]
  BY <1>1 DEF Commands
<1>3. \A i \in 1..Len(cs) : Cmd(cs[i]) \in Op
  BY <1>1, Ops
<1> QED
  BY <1>1, <1>2, <1>3

(* Scripts of one and of two operations.                                   *)
LEMMA Short ==
  /\ \A o \in Op : <<o>> \in Seq(Op) /\ Len(<<o>>) = 1 /\ <<o>>[1] = o
  /\ \A o, p \in Op : <<o, p>> \in Seq(Op) /\ Len(<<o, p>>) = 2 /\ <<o, p>>[1] = o /\ <<o, p>>[2] = p
OBVIOUS

(* The shape of a concatenation.                                           *)
Shape(s, n) == s \in Seq(Op) /\ Len(s) = n
Join(s, t) == s \o t

(* Two scripts, one behind the other.                                      *)
LEMMA Joined ==
  ASSUME NEW s, NEW t, NEW m \in Nat, NEW n \in Nat, Shape(s, m), Shape(t, n)
  PROVE  /\ Shape(Join(s, t), m + n)
         /\ \A i \in 1..m : Join(s, t)[i] = s[i]
         /\ \A i \in 1..n : Join(s, t)[m + i] = t[i]
<1>1. s \in Seq(Op) /\ Len(s) = m /\ t \in Seq(Op) /\ Len(t) = n
  BY DEF Shape
<1>2. /\ s \o t \in Seq(Op) /\ Len(s \o t) = Len(s) + Len(t)
      /\ \A i \in 1..(Len(s) + Len(t)) : (s \o t)[i] = IF i <= Len(s) THEN s[i] ELSE t[i - Len(s)]
  BY <1>1, ConcatProperties
<1> DEFINE u == Join(s, t)
<1>3. /\ u \in Seq(Op) /\ Len(u) = m + n
      /\ \A i \in 1..(m + n) : u[i] = IF i <= m THEN s[i] ELSE t[i - m]
  BY <1>1, <1>2 DEF Join
<1> HIDE DEF u
<1>4. ASSUME NEW i \in 1..m PROVE u[i] = s[i]
  <2>1. i \in 1..(m + n) /\ i <= m
    OBVIOUS
  <2> QED
    BY <1>3, <2>1
<1>5. ASSUME NEW i \in 1..n PROVE u[m + i] = t[i]
  <2>1. m + i \in 1..(m + n) /\ ~(m + i <= m) /\ m + i - m = i
    OBVIOUS
  <2>2. u[m + i] = t[m + i - m]
    BY <1>3, <2>1
  <2> QED
    BY <2>1, <2>2
<1> QED
  BY <1>3, <1>4, <1>5 DEF Shape, u

LEMMA ShortShapes ==
  /\ \A o \in Op : Shape(<<o>>, 1) /\ <<o>>[1] = o
  /\ \A o, p \in Op : Shape(<<o, p>>, 2) /\ <<o, p>>[1] = o /\ <<o, p>>[2] = p
BY Short DEF Shape

LEMMA Shaped ==
  ASSUME NEW s, NEW n \in Nat, Shape(s, n)
  PROVE  s \in Seq(Op) /\ Len(s) = n /\ (n > 0 => s # <<>>) /\ Left(s, s)
BY LeftAll DEF Shape

LEMMA CommandsShape ==
  ASSUME NEW cs \in Seq(Instruction), NEW n \in Nat, Len(cs) = n
  PROVE  Shape(Commands(cs), n) /\ \A i \in 1..n : Commands(cs)[i] = Cmd(cs[i])
BY CommandsAre DEF Shape

(* The instructions the scripts name.                                      *)
LEMMA Named ==
  /\ "READ_IDCODE" \in Instruction /\ "STATUS_REGISTER" \in Instruction
  /\ "CONFIG_ENABLE" \in Instruction /\ "0x3F" \in Instruction
  /\ "CONFIG_DISABLE" \in Instruction /\ "NOOP" \in Instruction
  /\ "ERASE_SRAM" \in Instruction /\ "XFER_DONE" \in Instruction
  /\ "INIT_ADDR" \in Instruction /\ "XFER_WRITE" \in Instruction
  /\ "READ_USERCODE" \in Instruction
BY DEF Instruction

(* The script of an erase, by the operations that matter later.            *)
LEMMA EraseScript ==
  LET script == Unstick \o Erase IN
  /\ Shape(script, 18) /\ Erase # <<>> /\ script # <<>>
  /\ Left(Erase, script) /\ Left(script, script) /\ Len(Erase) = 12
  /\ script[8] = Poll("edit", TRUE) /\ script[9] = Cmd("ERASE_SRAM")
  /\ script[10] = Cmd("NOOP") /\ script[11] = Poll("erased", TRUE)
<1> DEFINE c1 == Commands(<<"CONFIG_ENABLE">>)
           p1 == <<Poll("edit", TRUE)>>
           c2 == Commands(<<"ERASE_SRAM", "NOOP">>)
           p2 == <<Poll("erased", TRUE)>>
           c3 == Commands(<<"XFER_DONE", "NOOP", "CONFIG_DISABLE", "NOOP">>)
           p3 == <<Poll("edit", FALSE)>>
           c4 == Commands(<<"NOOP">>)
           r == <<Read("STATUS_REGISTER")>>
           a == Join(c1, p1)
           b == Join(a, c2)
           c == Join(b, p2)
           d == Join(c, c3)
           e == Join(d, p3)
           g == Join(e, c4)
           w == Join(g, r)
           s == Join(Unstick, w)
<1>1. Shape(c1, 1) /\ Shape(c4, 1)
  <2>1. \A i \in Instruction : <<i>> \in Seq(Instruction) /\ Len(<<i>>) = 1
    OBVIOUS
  <2> QED
    BY <2>1, CommandsShape, Named
<1>2. Shape(c2, 2) /\ c2[1] = Cmd("ERASE_SRAM") /\ c2[2] = Cmd("NOOP")
  <2> DEFINE cs == <<"ERASE_SRAM", "NOOP">>
  <2>1. cs \in Seq(Instruction) /\ Len(cs) = 2 /\ cs[1] = "ERASE_SRAM" /\ cs[2] = "NOOP"
    BY Named
  <2> HIDE DEF cs
  <2> QED
    BY <2>1, CommandsShape
<1>3. Shape(c3, 4)
  <2> DEFINE cs == <<"XFER_DONE", "NOOP", "CONFIG_DISABLE", "NOOP">>
  <2>1. cs \in Seq(Instruction) /\ Len(cs) = 4
    BY Named
  <2>2. c3 = Commands(cs)
    OBVIOUS
  <2> HIDE DEF cs, c3
  <2> QED
    BY <2>1, <2>2, CommandsShape
<1>4. /\ Shape(p1, 1) /\ p1[1] = Poll("edit", TRUE)
      /\ Shape(p2, 1) /\ p2[1] = Poll("erased", TRUE)
      /\ Shape(p3, 1) /\ Shape(r, 1)
  <2>1. /\ Poll("edit", TRUE) \in Op /\ Poll("erased", TRUE) \in Op /\ Poll("edit", FALSE) \in Op
        /\ Read("STATUS_REGISTER") \in Op
    BY Ops, Named
  <2> QED
    BY <2>1, ShortShapes
<1>5. Shape(Unstick, 6)
  <2> DEFINE cs == <<"CONFIG_ENABLE", "0x3F", "CONFIG_DISABLE", "NOOP", "READ_IDCODE", "NOOP">>
  <2>1. cs \in Seq(Instruction) /\ Len(cs) = 6
    BY Named
  <2>2. Unstick = Commands(cs)
    BY DEF Unstick
  <2> HIDE DEF cs
  <2> QED
    BY <2>1, <2>2, CommandsShape
<1>6. Erase = w
  BY DEF Erase, Join
<1> HIDE DEF c1, p1, c2, p2, c3, p3, c4, r
<1>7. Shape(a, 2) /\ a[2] = Poll("edit", TRUE)
  <2>1. Shape(a, 1 + 1) /\ \A i \in 1..1 : a[1 + i] = p1[i]
    BY <1>1, <1>4, Joined
  <2>2. a[1 + 1] = p1[1] /\ 1 + 1 = 2
    BY <2>1
  <2>3. a[2] = Poll("edit", TRUE)
    BY <1>4, <2>2, Zenon
  <2> QED
    BY <2>1, <2>3
<1> HIDE DEF a
<1>8. /\ Shape(b, 4) /\ b[2] = Poll("edit", TRUE)
      /\ b[3] = Cmd("ERASE_SRAM") /\ b[4] = Cmd("NOOP")
  <2>1. /\ Shape(b, 2 + 2) /\ \A i \in 1..2 : b[i] = a[i]
        /\ \A i \in 1..2 : b[2 + i] = c2[i]
    BY <1>2, <1>7, Joined
  <2>2. b[2] = a[2] /\ b[2 + 1] = c2[1] /\ b[2 + 2] = c2[2]
    BY <2>1
  <2> QED
    BY <1>2, <1>7, <2>1, <2>2
<1> HIDE DEF b
<1>9. /\ Shape(c, 5) /\ c[5] = Poll("erased", TRUE) /\ \A i \in 1..4 : c[i] = b[i]
  <2>1. /\ Shape(c, 4 + 1) /\ \A i \in 1..4 : c[i] = b[i]
        /\ \A i \in 1..1 : c[4 + i] = p2[i]
    BY <1>4, <1>8, Joined
  <2>2. c[4 + 1] = p2[1] /\ 4 + 1 = 5
    BY <2>1
  <2>3. c[5] = Poll("erased", TRUE)
    BY <1>4, <2>2, Zenon
  <2> QED
    BY <2>1, <2>3
<1> HIDE DEF c
<1>10. Shape(d, 9) /\ \A i \in 1..5 : d[i] = c[i]
  BY <1>3, <1>9, Joined
<1> HIDE DEF d
<1>11. Shape(e, 10) /\ \A i \in 1..9 : e[i] = d[i]
  BY <1>4, <1>10, Joined
<1> HIDE DEF e
<1>12. Shape(g, 11) /\ \A i \in 1..10 : g[i] = e[i]
  BY <1>1, <1>11, Joined
<1> HIDE DEF g
<1>13. Shape(w, 12) /\ \A i \in 1..11 : w[i] = g[i]
  BY <1>4, <1>12, Joined
<1> HIDE DEF w
<1>14. Shape(s, 18) /\ \A i \in 1..12 : s[6 + i] = w[i]
  BY <1>5, <1>13, Joined
<1> HIDE DEF s
<1>15. /\ w[2] = Poll("edit", TRUE) /\ w[3] = Cmd("ERASE_SRAM")
       /\ w[4] = Cmd("NOOP") /\ w[5] = Poll("erased", TRUE)
  <2>1. \A i \in 1..5 : w[i] = c[i]
    BY <1>10, <1>11, <1>12, <1>13
  <2>2. w[2] = c[2] /\ w[3] = c[3] /\ w[4] = c[4] /\ w[5] = c[5]
    BY <2>1
  <2>3. c[2] = b[2] /\ c[3] = b[3] /\ c[4] = b[4]
    BY <1>9
  <2> QED
    BY <1>8, <1>9, <2>2, <2>3
<1>16. s[8] = w[2] /\ s[9] = w[3] /\ s[10] = w[4] /\ s[11] = w[5]
  <2>1. s[6 + 2] = w[2] /\ s[6 + 3] = w[3] /\ s[6 + 4] = w[4] /\ s[6 + 5] = w[5]
    BY <1>14
  <2> QED
    BY <2>1
<1>17. Left(w, s)
  <2>1. w \in Seq(Op) /\ Len(w) = 12 /\ Len(s) = 18
    BY <1>13, <1>14, Shaped
  <2> QED
    BY <1>14, <2>1 DEF Left
<1>18. Left(s, s)
  BY <1>14, Shaped
<1>19. w # <<>> /\ s # <<>>
  BY <1>13, <1>14, Shaped
<1>20. Len(w) = 12 /\ s = Unstick \o Erase
  BY <1>6, <1>13, Shaped DEF s, Join
<1> QED
  BY <1>6, <1>14, <1>15, <1>16, <1>17, <1>18, <1>19, <1>20

(* The scripts of the identification and of both ends of a write.          *)
LEMMA OtherScripts ==
  /\ Shape(Identify, 2) /\ Identify # <<>> /\ Left(Identify, Identify)
  /\ Shape(WriteStart, 4) /\ WriteStart # <<>>
  /\ WriteStart[4].op = "goto" /\ Left(WriteStart, WriteStart)
  /\ Shape(WriteEnd, 5) /\ WriteEnd # <<>> /\ Left(WriteEnd, WriteEnd)
  /\ WriteEnd[1] = Read("STATUS_REGISTER") /\ WriteEnd[5] = Poll("done", TRUE)
<1>1. Shape(Identify, 2)
  <2>1. Read("READ_IDCODE") \in Op /\ Read("STATUS_REGISTER") \in Op
    BY Ops, Named
  <2> QED
    BY <2>1, ShortShapes DEF Identify
<1>2. /\ Shape(WriteStart, 4) /\ WriteStart # <<>>
      /\ WriteStart[4].op = "goto"
  <2> DEFINE cs == <<"CONFIG_ENABLE", "INIT_ADDR", "XFER_WRITE">>
             t == Commands(cs)
             o == [op |-> "goto", arg |-> ShiftDR, want |-> TRUE]
  <2>1. cs \in Seq(Instruction) /\ Len(cs) = 3
    BY Named
  <2>2. o \in Op /\ o.op = "goto"
    BY Ops
  <2>3. WriteStart = Join(t, <<o>>)
    BY DEF Join, WriteStart, ShiftDR
  <2> HIDE DEF cs, o
  <2>4. Shape(t, 3)
    BY <2>1, CommandsShape
  <2>5. Shape(<<o>>, 1) /\ <<o>>[1] = o
    BY <2>2, ShortShapes
  <2> HIDE DEF t
  <2>6. /\ Shape(WriteStart, 4)
        /\ \A i \in 1..1 : WriteStart[3 + i] = <<o>>[i]
    BY <2>3, <2>4, <2>5, Joined
  <2>7. WriteStart[3 + 1] = o /\ WriteStart # <<>>
    BY <2>5, <2>6, Shaped
  <2> QED
    BY <2>2, <2>6, <2>7
<1>3. /\ Shape(WriteEnd, 5) /\ WriteEnd # <<>>
      /\ WriteEnd[1] = Read("STATUS_REGISTER") /\ WriteEnd[5] = Poll("done", TRUE)
  <2> DEFINE cs == <<"CONFIG_DISABLE", "NOOP">>
             t == Commands(cs)
             a == <<Read("STATUS_REGISTER")>>
             b == <<Read("READ_USERCODE"), Poll("done", TRUE)>>
             d == Join(a, t)
  <2>1. cs \in Seq(Instruction) /\ Len(cs) = 2
    BY Named
  <2>2. /\ Read("STATUS_REGISTER") \in Op /\ Read("READ_USERCODE") \in Op /\ Poll("done", TRUE) \in Op
    BY Ops, Named
  <2>3. WriteEnd = Join(d, b)
    BY DEF WriteEnd, Join
  <2>4. /\ Shape(a, 1) /\ a[1] = Read("STATUS_REGISTER")
        /\ Shape(b, 2) /\ b[2] = Poll("done", TRUE)
    BY <2>2, ShortShapes
  <2> HIDE DEF cs
  <2>5. Shape(t, 2)
    BY <2>1, CommandsShape
  <2> HIDE DEF t, a, b
  <2>6. Shape(d, 3) /\ d[1] = Read("STATUS_REGISTER")
    BY <2>4, <2>5, Joined
  <2> HIDE DEF d
  <2>7. /\ Shape(WriteEnd, 5)
        /\ \A i \in 1..3 : WriteEnd[i] = d[i]
        /\ \A i \in 1..2 : WriteEnd[3 + i] = b[i]
    BY <2>3, <2>4, <2>6, Joined
  <2>8. WriteEnd[3 + 2] = b[2] /\ WriteEnd[1] = d[1] /\ 3 + 2 = 5 /\ WriteEnd # <<>>
    <3>1. WriteEnd[3 + 2] = b[2] /\ WriteEnd[1] = d[1] /\ 3 + 2 = 5
      BY <2>7
    <3>2. WriteEnd # <<>>
      BY <2>7, Shaped
    <3> QED
      BY <3>1, <3>2
  <2>9. WriteEnd[1] = Read("STATUS_REGISTER") /\ WriteEnd[5] = Poll("done", TRUE)
    BY <2>4, <2>6, <2>8, Zenon
  <2> QED
    BY <2>7, <2>8, <2>9
<1> QED
  BY <1>1, <1>2, <1>3, Shaped

(* What an operation does to the wires, in step or not.                    *)
After(j, o) ==
  CASE o.op = "cmd"  -> SendCommand(j, o.arg)
    [] o.op = "read" -> ReadReg(j, o.arg)
    [] o.op = "poll" -> ReadReg(j, "STATUS_REGISTER")
    [] o.op = "goto" -> SetState(j, o.arg)
Sent(o) == IF o.op = "poll" THEN "STATUS_REGISTER" ELSE o.arg

(* An operation that starts in step ends in step and is executed.          *)
LEMMA Effect ==
  ASSUME NEW j, NEW s \in Resting, On(j, s, s), NEW o \in Op
  PROVE  LET k == After(j, o) IN
         /\ Kept(j, k)
         /\ o.op = "goto" => On(k, ShiftDR, ShiftDR)
         /\ o.op # "goto" => On(k, Idle, Idle) /\ Ctl(k) = Ctl(Execute(j, Sent(o)))
<1>1. CASE o.op = "cmd"
  <2>1. o.arg \in Instruction /\ After(j, o) = SendCommand(j, o.arg) /\ Sent(o) = o.arg
    BY <1>1, Ops DEF After, Sent
  <2> QED
    BY <1>1, <2>1, CommandSent
<1>2. CASE o.op = "read"
  <2>1. o.arg \in Instruction /\ After(j, o) = ReadReg(j, o.arg) /\ Sent(o) = o.arg
    BY <1>2, Ops DEF After, Sent
  <2> QED
    BY <1>2, <2>1, RegisterRead
<1>3. CASE o.op = "poll"
  <2>1. /\ "STATUS_REGISTER" \in Instruction
        /\ After(j, o) = ReadReg(j, "STATUS_REGISTER") /\ Sent(o) = "STATUS_REGISTER"
    BY <1>3, Named DEF After, Sent
  <2> QED
    BY <1>3, <2>1, RegisterRead
<1>4. CASE o.op = "goto"
  <2>1. o.arg = ShiftDR /\ After(j, o) = SetState(j, ShiftDR)
    BY <1>4, Ops DEF After
  <2> QED
    BY <1>4, <2>1, WentToShiftDR, SameKept
<1> QED
  BY <1>1, <1>2, <1>3, <1>4, Ops

(* The first read after a bitstream ends in step, whatever is executed.    *)
LEMMA EffectAstray ==
  ASSUME NEW j \in Jtag, j.state = ShiftDR, NEW c \in Instruction
  PROVE  LET k == After(j, Read(c)) IN Kept(j, k) /\ On(k, Idle, Idle)
<1>1. After(j, Read(c)) = ReadReg(j, c)
  BY Ops DEF After
<1> QED
  BY <1>1, Resynchronised

(* The fields of two wires with the same Ctl.                              *)
LEMMA CtlFields ==
  ASSUME NEW j, NEW k, Ctl(j) = Ctl(k)
  PROVE  /\ j.ir = k.ir /\ j.edit = k.edit /\ j.erased = k.erased
         /\ j.running = k.running /\ j.load = k.load
BY DEF Ctl

-----------------------------------------------------------------------------
(* The steps keep the invariant.                                           *)
LEMMA Start == Init => IInv
<1> SUFFICES ASSUME Init PROVE IInv
  OBVIOUS
<1>0. /\ Reset \in TapState /\ <<Garbage, 0>> \in Shifted /\ 0 \in 0..Whole /\ "NOOP" \in Content
      /\ NoCore \in Core /\ Blocks \in Nat /\ MaxPrograms \in Nat
  <2>1. Reset \in TapState /\ Whole \in Nat
    BY States, Bits
  <2>2. <<Garbage, 0>> \in Shifted
    BY Bits
  <2> QED
    BY <2>1, <2>2, ProgrammerAssumption DEF Content, Instruction, Core
<1>1. jtag \in Jtag /\ jtag.state = Reset /\ jtag.tap = Reset /\ jtag.load = NoCore
  <2> DEFINE r == [state |-> Reset, pin |-> 1, tap |-> Reset, sr |-> <<Garbage, 0>>,
                   ir |-> "NOOP", out |-> <<Garbage, 0>>, edit |-> FALSE, erased |-> FALSE,
                   mem |-> 0, load |-> NoCore, running |-> NoCore, worn |-> FALSE]
  <2>1. jtag = r
    BY DEF Init
  <2>2. r \in Jtag
    BY <1>0 DEF Jtag
  <2>3. r.state = Reset /\ r.tap = Reset /\ r.load = NoCore
    OBVIOUS
  <2> HIDE DEF r
  <2> QED
    BY <2>1, <2>2, <2>3
<1>2. TypeOK
  <2>1. /\ jtag.state \in TapState /\ jtag.tap \in TapState /\ jtag.pin \in {0, 1}
        /\ jtag.mem \in 0..Whole /\ {jtag.running, jtag.load} \subseteq Cores \cup {NoCore}
    BY <1>1 DEF Jtag, Core
  <2>2. /\ board \in Boards /\ len \in {0, Blocks} /\ sent \in 0..Blocks /\ chain \in {-1, 0, 1}
        /\ id \in {"none", "known", "unknown"} /\ result \in BOOLEAN /\ calls \in 0..MaxPrograms
    <3>1. 0 \in 0..Blocks /\ 0 \in 0..MaxPrograms /\ 0 \in {0, Blocks}
      BY <1>0
    <3> QED
      BY <3>1 DEF Init
  <2> QED
    BY <2>1, <2>2 DEF TypeOK
<1>3. Wired /\ AtShift /\ Scripted
  BY <1>1 DEF Init, Wired, AtShift, Scripted
<1>4. Steady
  BY <1>1 DEF Steady, On, Resting
<1>5. Erasing /\ Started /\ Recognised
  BY DEF Init, Erasing, Started, Recognised, OnlyKnownBoards
<1> QED
  BY <1>2, <1>3, <1>4, <1>5 DEF IInv

(* fpga_program is called.                                                 *)
LEMMA ProgramStep ==
  ASSUME IInv, NEW c \in Cores, NEW b \in Boards, NEW n \in {0, Blocks}, Program(c, b, n)
  PROVE  IInv'
<1>1. /\ pc = "idle" /\ calls \in Nat /\ calls < MaxPrograms /\ calls' = calls + 1
      /\ board' = b /\ file' = c /\ len' = n /\ sent' = 0 /\ todo' = <<>>
      /\ jtag' = [jtag EXCEPT !.load = c, !.worn = b = "noErase"]
      /\ chain' = chain /\ id' = id
      /\ \/ pc' = "detect" /\ result' = result
         \/ pc' = "idle" /\ result' = FALSE
  BY ProgrammerAssumption DEF Program, Goto, Return, IInv, TypeOK
<1>2. /\ jtag' \in Jtag /\ jtag'.load = c /\ jtag'.state = jtag.state /\ jtag'.tap = jtag.tap
  <2>1. PICK w \in BOOLEAN : w = (b = "noErase")
    OBVIOUS
  <2>2. jtag' = [jtag EXCEPT !.load = c, !.worn = w]
    BY <1>1, <2>1
  <2>3. jtag \in Jtag /\ c \in Core
    BY DEF IInv, Wired, Core
  <2> QED
    BY <2>2, <2>3 DEF Jtag
<1>3. TypeOK'
  <2>1. calls + 1 \in 0..MaxPrograms /\ 0 \in 0..Blocks
    BY <1>1, ProgrammerAssumption
  <2>2. calls' \in 0..MaxPrograms /\ sent' \in 0..Blocks
    BY <1>1, <2>1
  <2>3. /\ jtag'.state \in TapState /\ jtag'.tap \in TapState /\ jtag'.pin \in {0, 1}
        /\ jtag'.mem \in 0..Whole /\ {jtag'.running, jtag'.load} \subseteq Cores \cup {NoCore}
    BY <1>2 DEF Jtag, Core
  <2>4. /\ board' \in Boards /\ len' \in {0, Blocks} /\ chain' \in {-1, 0, 1}
        /\ id' \in {"none", "known", "unknown"} /\ result' \in BOOLEAN
    BY <1>1 DEF IInv, TypeOK
  <2> QED
    BY <2>2, <2>3, <2>4 DEF TypeOK
<1>4. Wired' /\ AtShift' /\ Scripted'
  BY <1>1, <1>2 DEF Wired, AtShift, Scripted
<1>5. Steady'
  <2>1. PICK s \in Resting : On(jtag, s, s)
    BY <1>1 DEF IInv, Steady, Astray, FirstRead
  <2>2. On(jtag', s, s)
    BY <1>2, <2>1 DEF On
  <2> QED
    BY <2>1, <2>2 DEF Steady, Resting
<1>6. Erasing' /\ Started'
  BY <1>1 DEF Erasing, Started
<1>7. Recognised'
  <2>1. id # "none" => calls > 0
    BY DEF IInv, Recognised
  <2> QED
    BY <1>1, <2>1 DEF Recognised, OnlyKnownBoards
<1> QED
  BY <1>3, <1>4, <1>5, <1>6, <1>7 DEF IInv

(* detectChain.                                                            *)
LEMMA DetectStep == ASSUME IInv, DetectChain PROVE IInv'
<1>1. /\ pc = "detect" /\ pc' = "check" /\ todo' = <<>> /\ result' = result
      /\ board' = board /\ file' = file /\ len' = len /\ sent' = sent /\ calls' = calls
      /\ chain' = (CASE board = "dead" -> -1 [] board = "absent" -> 0 [] OTHER -> 1)
      /\ id' = (CASE board \in {"dead", "absent"} -> id
                  [] board = "unknown" -> "unknown"
                  [] OTHER -> "known")
  BY DEF DetectChain, Goto
<1>2. jtag' \in Jtag /\ Kept(jtag, jtag') /\ \E s \in Resting : On(jtag', s, s)
  <2> DEFINE reset == [Drive(jtag, Clocks(1, 6)) EXCEPT !.state = Reset]
             first == ReadWrite(SetState(reset, Scan("SHIFT", "DR")), Word, FALSE)
  <2>1. /\ On(first, ShiftDR, ShiftDR) /\ Kept(jtag, first)
        /\ On(SetState(first, Reset), Reset, Reset) /\ Kept(jtag, SetState(first, Reset))
        /\ On(SetState(ReadWrite(first, Word, FALSE), Reset), Reset, Reset)
        /\ Kept(jtag, SetState(ReadWrite(first, Word, FALSE), Reset))
    BY Detected DEF IInv, Wired
  <2>2. \/ jtag' = first
        \/ jtag' = SetState(first, Reset)
        \/ jtag' = SetState(ReadWrite(first, Word, FALSE), Reset)
    BY DEF DetectChain
  <2> HIDE DEF first
  <2>3. ShiftDR \in Resting /\ Reset \in Resting
    BY DEF Resting
  <2> QED
    BY <2>1, <2>2, <2>3 DEF On
<1>3. TypeOK'
  BY <1>1, <1>2 DEF IInv, TypeOK, Jtag, Core
<1>4. Wired' /\ AtShift' /\ Scripted'
  BY <1>1, <1>2 DEF IInv, Wired, AtShift, Scripted, Kept
<1>5. Steady'
  BY <1>2 DEF Steady, Resting
<1>6. Erasing' /\ Started'
  BY <1>1 DEF Erasing, Started
<1>7. Recognised'
  <2>1. board \in Board /\ calls > 0 /\ (id # "none" => calls > 1)
    BY <1>1, ProgrammerAssumption DEF IInv, TypeOK, Recognised
  <2>2. CASE board = "dead"
    BY <1>1, <2>1, <2>2 DEF Recognised, OnlyKnownBoards
  <2>3. CASE board = "absent"
    BY <1>1, <2>1, <2>3 DEF Recognised, OnlyKnownBoards
  <2>4. CASE board = "unknown"
    BY <1>1, <2>1, <2>4 DEF Recognised, OnlyKnownBoards
  <2>5. CASE board \in {"good", "noErase"}
    BY <1>1, <2>1, <2>5 DEF Recognised, OnlyKnownBoards
  <2> QED
    BY <2>1, <2>2, <2>3, <2>4, <2>5 DEF Board
<1> QED
  BY <1>3, <1>4, <1>5, <1>6, <1>7 DEF IInv

(* The check of what it found.                                             *)
LEMMA CheckStep == ASSUME IInv, CheckBoard PROVE IInv'
<1>1. /\ pc = "check" /\ todo = <<>>
      /\ \/ NoBoard /\ pc' = "idle" /\ todo' = <<>> /\ result' = FALSE
         \/ ~NoBoard /\ pc' = "identify1" /\ todo' = Identify /\ result' = result
      /\ jtag' = jtag /\ board' = board /\ file' = file /\ len' = len /\ sent' = sent
      /\ chain' = chain /\ id' = id /\ calls' = calls
  BY DEF CheckBoard, Goto, Return, IInv, Scripted
<1>2. TypeOK' /\ Wired'
  BY <1>1 DEF IInv, TypeOK, Wired
<1>3. AtShift' /\ Erasing' /\ Started'
  BY <1>1 DEF AtShift, Erasing, Started
<1>4. Scripted'
  BY <1>1, OtherScripts DEF Scripted
<1>5. Steady'
  <2>1. PICK s \in Resting : On(jtag, s, s)
    BY <1>1 DEF IInv, Steady, Astray, FirstRead
  <2> QED
    BY <1>1, <2>1 DEF Steady, Resting
<1>6. Recognised'
  <2>1. board \in Board
    BY ProgrammerAssumption DEF IInv, TypeOK
  <2> QED
    BY <1>1, <2>1 DEF IInv, Recognised, OnlyKnownBoards, NoBoard, Board
<1> QED
  BY <1>2, <1>3, <1>4, <1>5, <1>6 DEF IInv

(* The script of the erase is set up.                                      *)
LEMMA EraseStep == ASSUME IInv, EraseSRAM PROVE IInv'
<1>1. /\ todo = <<>>
      /\ \/ pc = "identify1" /\ pc' = "erase1"
         \/ pc = "identify2" /\ pc' = "erase2"
      /\ todo' \in {Erase, Unstick \o Erase} /\ result' = result
      /\ jtag' = jtag /\ board' = board /\ file' = file /\ len' = len /\ sent' = sent
      /\ chain' = chain /\ id' = id /\ calls' = calls
  BY DEF EraseSRAM, Goto
<1>2. TypeOK' /\ Wired'
  BY <1>1 DEF IInv, TypeOK, Wired
<1>3. AtShift' /\ Started'
  BY <1>1 DEF AtShift, Started
<1>4. Scripted'
  BY <1>1, EraseScript DEF Scripted
<1>5. Steady'
  <2>1. PICK s \in Resting : On(jtag, s, s)
    BY <1>1 DEF IInv, Steady, Astray, FirstRead
  <2> QED
    BY <1>1, <2>1 DEF Steady, Resting
<1>6. Erasing'
  <2>1. Len(todo') \in {12, 18}
    BY <1>1, EraseScript, Shaped
  <2>2. pc' = "erase2" => Cleared'
    BY <1>1 DEF IInv, Erasing, Cleared
  <2>3. PICK n \in {12, 18} : Len(todo') = n
    BY <2>1
  <2>4. n # 10 /\ n \notin {8, 9} /\ ~(n < 8)
    OBVIOUS
  <2> QED
    BY <1>1, <2>2, <2>3, <2>4 DEF Erasing
<1>7. Recognised'
  BY <1>1 DEF IInv, Recognised, OnlyKnownBoards
<1> QED
  BY <1>2, <1>3, <1>4, <1>5, <1>6, <1>7 DEF IInv

(* A script ends and the next part begins.                                 *)
LEMMA PartStep == ASSUME IInv, NextPart PROVE IInv'
<1>1. /\ todo = <<>>
      /\ \/ pc = "erase1" /\ pc' = "identify2" /\ todo' = Identify /\ result' = result
         \/ pc = "erase2" /\ pc' = "start" /\ todo' = WriteStart /\ result' = result
         \/ pc = "start" /\ pc' = "stream" /\ todo' = <<>> /\ result' = result
         \/ pc = "start" /\ pc' = "idle" /\ todo' = <<>> /\ result' = FALSE
         \/ pc = "end" /\ pc' = "idle" /\ todo' = <<>> /\ result' = TRUE
      /\ jtag' = jtag /\ board' = board /\ file' = file /\ len' = len /\ sent' = sent
      /\ chain' = chain /\ id' = id /\ calls' = calls
  BY DEF NextPart, Goto, Return
<1>2. TypeOK' /\ Wired'
  BY <1>1 DEF IInv, TypeOK, Wired
<1>3. AtShift'
  BY <1>1, OtherScripts DEF IInv, AtShift
<1>4. Scripted'
  BY <1>1, OtherScripts DEF Scripted
<1>5. Steady'
  <2>1. PICK s \in Resting : On(jtag, s, s)
    <3>1. WriteEnd # <<>>
      BY OtherScripts
    <3> QED
      BY <1>1, <3>1 DEF IInv, Steady, Astray, FirstRead
  <2> QED
    BY <1>1, <2>1 DEF Steady, Resting
<1>6. Erasing'
  <2>1. Len(<<>>) = 0
    OBVIOUS
  <2>2. pc \in {"erase1", "erase2", "start", "end"} => Cleared
    BY <1>1, <2>1 DEF IInv, Erasing
  <2> QED
    BY <1>1, <2>2 DEF Erasing, Cleared
<1>7. Started'
  BY <1>1 DEF IInv, Started
<1>8. Recognised'
  BY <1>1 DEF IInv, Recognised, OnlyKnownBoards
<1> QED
  BY <1>2, <1>3, <1>4, <1>5, <1>6, <1>7, <1>8 DEF IInv

(* A block of the file is streamed.                                        *)
LEMMA StreamStep == ASSUME IInv, StreamBlock PROVE IInv'
<1>1. /\ pc = "stream" /\ sent \in 0..Blocks /\ sent < Blocks /\ sent' = sent + 1 /\ todo = <<>>
      /\ board' = board /\ file' = file /\ len' = len /\ pc' = pc /\ todo' = todo
      /\ chain' = chain /\ id' = id /\ calls' = calls /\ result' = result
      /\ jtag.state = ShiftDR /\ jtag \in Jtag /\ jtag.load = file /\ Cleared
  BY DEF StreamBlock, IInv, TypeOK, Scripted, AtShift, Wired, Erasing
<1>2. jtag' \in Jtag /\ jtag'.state = ShiftDR /\ Kept(jtag, jtag')
  <2>1. jtag' = Drive(jtag, [i \in 1..BlockBits |->
                               [tms |-> IF sent + 1 >= len /\ i = BlockBits THEN 1 ELSE 0,
                                bit |-> <<"data", sent * BlockBits + i - 1>>]])
    BY DEF StreamBlock
  <2> DEFINE bits(end) == [i \in 1..BlockBits |->
                             [tms |-> IF end /\ i = BlockBits THEN 1 ELSE 0,
                              bit |-> <<"data", sent * BlockBits + i - 1>>]]
  <2>2. jtag' = Drive(jtag, bits(TRUE)) \/ jtag' = Drive(jtag, bits(FALSE))
    <3>1. CASE sent + 1 >= len
      BY <2>1, <3>1
    <3>2. CASE ~(sent + 1 >= len)
      BY <2>1, <3>2
    <3> QED
      BY <3>1, <3>2
  <2>4. sent \in Nat /\ sent < Blocks
    BY <1>1, ProgrammerAssumption
  <2> QED
    BY <1>1, <2>2, <2>4, Streamed
<1>3. TypeOK'
  BY <1>1, <1>2, ProgrammerAssumption DEF IInv, TypeOK, Jtag, Core
<1>4. Wired' /\ AtShift' /\ Scripted' /\ Started'
  BY <1>1, <1>2 DEF Wired, AtShift, Scripted, Started, Kept
<1>5. Steady'
  BY <1>1, <1>2 DEF Steady, Astray
<1>6. Erasing'
  BY <1>1, <1>2 DEF Erasing, Cleared, Kept
<1>7. Recognised'
  BY <1>1 DEF IInv, Recognised, OnlyKnownBoards
<1> QED
  BY <1>3, <1>4, <1>5, <1>6, <1>7 DEF IInv

(* The stream ends.                                                        *)
LEMMA StreamEndStep == ASSUME IInv, StreamEnds PROVE IInv'
<1>1. /\ pc = "stream" /\ pc' = "end" /\ todo' = WriteEnd /\ result' = result
      /\ jtag' = jtag /\ board' = board /\ file' = file /\ len' = len /\ sent' = sent
      /\ chain' = chain /\ id' = id /\ calls' = calls /\ Cleared /\ sent \in 0..Blocks
  BY DEF StreamEnds, Goto, IInv, Erasing, TypeOK
<1>2. TypeOK' /\ Wired'
  BY <1>1 DEF IInv, TypeOK, Wired
<1>3. AtShift' /\ Erasing' /\ Started'
  BY <1>1, OtherScripts DEF AtShift, Erasing, Started, Cleared
<1>4. Scripted'
  BY <1>1, OtherScripts DEF Scripted
<1>5. Steady'
  <2>1. CASE sent > 0
    BY <1>1, <2>1 DEF IInv, AtShift, Steady, Astray, FirstRead
  <2>2. CASE ~(sent > 0)
    <3>1. PICK s \in Resting : On(jtag, s, s)
      BY <1>1, <2>2 DEF IInv, Steady, Astray, FirstRead
    <3> QED
      BY <1>1, <3>1 DEF Steady, Resting
  <2> QED
    BY <2>1, <2>2
<1>6. Recognised'
  BY <1>1 DEF IInv, Recognised, OnlyKnownBoards
<1> QED
  BY <1>2, <1>3, <1>4, <1>5, <1>6 DEF IInv

(* A poll is its own operation, and goes on when the flag it waits for is up. *)
LEMMA PollOp ==
  ASSUME NEW o, NEW f, o = Poll(f, TRUE)
  PROVE  o.op = "poll"
BY DEF Poll

LEMMA Polled ==
  ASSUME NEW k, NEW o, NEW f, o = Poll(f, TRUE), o.op = "poll" => Flag(k, o.arg) = o.want
  PROVE  Flag(k, f)
<1>1. o.op = "poll" /\ o.arg = f /\ o.want = TRUE
  BY DEF Poll
<1> QED
  BY <1>1

(* An operation that was carried out, in step unless it is the first read. *)
LEMMA Operated ==
  ASSUME IInv, Operate
  PROVE  LET o == Head(todo) IN
         /\ todo # <<>> /\ o \in Op /\ jtag' = After(jtag, o)
         /\ jtag' \in Jtag /\ Kept(jtag, jtag')
         /\ o.op = "goto" => On(jtag', ShiftDR, ShiftDR)
         /\ o.op # "goto" => On(jtag', Idle, Idle)
         /\ o.op # "goto" /\ ~FirstRead => Ctl(jtag') = Ctl(Execute(jtag, Sent(o)))
<1> DEFINE o == Head(todo)
           k == After(jtag, o)
<1>1. /\ todo # <<>> /\ jtag' = k /\ jtag \in Jtag
  BY DEF Operate, After, IInv, Wired
<1>2. o \in Op
  <2>1. \E script : Len(script) \in Nat /\ Left(todo, script)
    <3>1. /\ Len(Identify) \in Nat /\ Len(WriteStart) \in Nat /\ Len(WriteEnd) \in Nat
          /\ Len(Unstick \o Erase) \in Nat
      BY OtherScripts, EraseScript, Shaped
    <3> QED
      BY <1>1, <3>1 DEF IInv, Scripted
  <2> QED
    BY <1>1, <2>1, LeftTail
<1>3. CASE \E s \in Resting : On(jtag, s, s)
  <2> HIDE DEF o, k
  <2>1. /\ Kept(jtag, k)
        /\ o.op = "goto" => On(k, ShiftDR, ShiftDR)
        /\ o.op # "goto" => On(k, Idle, Idle) /\ Ctl(k) = Ctl(Execute(jtag, Sent(o)))
    BY <1>2, <1>3, Effect DEF k
  <2>2. k \in Jtag
    BY <2>1 DEF On
  <2> QED
    BY <1>1, <1>2, <2>1, <2>2 DEF o, k
<1>4. CASE jtag.state = ShiftDR /\ FirstRead
  <2>1. o = Read("STATUS_REGISTER") /\ o.op = "read"
    <3>1. WriteEnd[1] = Read("STATUS_REGISTER") /\ todo = WriteEnd
      BY <1>4, OtherScripts DEF FirstRead
    <3> QED
      BY <3>1, Ops
  <2>2. Kept(jtag, k) /\ On(k, Idle, Idle)
    BY <1>1, <1>4, <2>1, EffectAstray, Named
  <2>3. k \in Jtag
    BY <2>2 DEF On
  <2> HIDE DEF k
  <2> QED
    BY <1>1, <1>2, <1>4, <2>1, <2>2, <2>3 DEF k
<1> QED
  BY <1>1, <1>3, <1>4 DEF IInv, Steady, Astray, Scripted

(* One operation of a script, by script.                                   *)
LEMMA OperateStep == ASSUME IInv, Operate PROVE IInv'
<1> DEFINE o == Head(todo)
<1>1. /\ todo # <<>> /\ o \in Op /\ jtag' \in Jtag /\ Kept(jtag, jtag')
      /\ o.op = "goto" => On(jtag', ShiftDR, ShiftDR)
      /\ o.op # "goto" => On(jtag', Idle, Idle)
      /\ o.op # "goto" /\ ~FirstRead => Ctl(jtag') = Ctl(Execute(jtag, Sent(o)))
  BY Operated
<1>2. /\ board' = board /\ file' = file /\ len' = len /\ sent' = sent
      /\ chain' = chain /\ id' = id /\ calls' = calls
      /\ \/ pc' = "idle" /\ todo' = <<>> /\ result' = FALSE
         \/ /\ pc' = pc /\ todo' = Tail(todo) /\ result' = result
            /\ o.op = "poll" => Flag(jtag', o.arg) = o.want
  BY DEF Operate, Return, Goto
<1>3. TypeOK'
  <2>1. /\ jtag'.state \in TapState /\ jtag'.tap \in TapState /\ jtag'.pin \in {0, 1}
        /\ jtag'.mem \in 0..Whole /\ {jtag'.running, jtag'.load} \subseteq Cores \cup {NoCore}
    BY <1>1 DEF Jtag, Core
  <2> QED
    BY <1>2, <2>1 DEF IInv, TypeOK
<1>4. Wired'
  BY <1>1, <1>2 DEF IInv, Wired, Kept
<1>5. Steady'
  BY <1>1 DEF Steady, Resting
<1>6. Recognised'
  BY <1>2 DEF IInv, Recognised, OnlyKnownBoards
<1>7. CASE pc' = "idle" /\ todo' = <<>> /\ result' = FALSE
  <2>1. AtShift' /\ Scripted' /\ Erasing' /\ Started'
    BY <1>7 DEF AtShift, Scripted, Erasing, Started
  <2> QED
    BY <1>3, <1>4, <1>5, <1>6, <2>1 DEF IInv
<1>8. CASE /\ pc' = pc /\ todo' = Tail(todo) /\ result' = result
           /\ o.op = "poll" => Flag(jtag', o.arg) = o.want
  <2>0. Cleared => Cleared'
    BY <1>1 DEF Cleared, Kept
  <2>1. CASE pc \in {"identify1", "identify2"} /\ Left(todo, Identify)
    <3>1. Left(Tail(todo), Identify)
      BY <1>1, <2>1, LeftTail, OtherScripts, Shaped
    <3>2. AtShift' /\ Scripted' /\ Started'
      BY <1>8, <2>1, <3>1 DEF AtShift, Scripted, Started
    <3>3. Erasing'
      BY <1>8, <2>0, <2>1 DEF IInv, Erasing
    <3> QED
      BY <1>3, <1>4, <1>5, <1>6, <3>2, <3>3 DEF IInv
  <2>2. CASE pc = "start" /\ Left(todo, WriteStart)
    <3>1. /\ Left(Tail(todo), WriteStart) /\ (Tail(todo) = <<>> <=> Len(todo) = 1)
          /\ Len(WriteStart) = 4 /\ o = WriteStart[Len(WriteStart) - Len(todo) + 1]
          /\ WriteStart[4].op = "goto" /\ Len(todo) \in Nat
      <4>0. Shape(WriteStart, 4)
        BY OtherScripts
      <4>1. Len(WriteStart) = 4 /\ Len(WriteStart) \in Nat
        BY <4>0 DEF Shape
      <4>2. /\ Left(Tail(todo), WriteStart) /\ (Tail(todo) = <<>> <=> Len(todo) = 1)
            /\ o = WriteStart[Len(WriteStart) - Len(todo) + 1] /\ Len(todo) \in Nat
        BY <1>1, <2>2, <4>1, LeftTail
      <4> HIDE DEF o
      <4> QED
        BY <4>1, <4>2, OtherScripts
    <3>2. Tail(todo) = <<>> => o.op = "goto"
      <4>1. Len(todo) = 1 => 4 - Len(todo) + 1 = 4
        BY <3>1
      <4> HIDE DEF o
      <4> QED
        BY <3>1, <4>1
    <3>3. AtShift'
      BY <1>1, <1>8, <2>2, <3>2 DEF AtShift, On
    <3>4. Scripted' /\ Started'
      BY <1>8, <2>2, <3>1 DEF Scripted, Started
    <3>5. Erasing'
      BY <1>8, <2>0, <2>2 DEF IInv, Erasing
    <3> QED
      BY <1>3, <1>4, <1>5, <1>6, <3>3, <3>4, <3>5 DEF IInv
  <2>3. CASE pc = "end" /\ Left(todo, WriteEnd)
    <3>1. /\ Left(Tail(todo), WriteEnd) /\ (Tail(todo) = <<>> <=> Len(todo) = 1)
          /\ Len(WriteEnd) = 5 /\ o = WriteEnd[Len(WriteEnd) - Len(todo) + 1]
          /\ WriteEnd[5] = Poll("done", TRUE) /\ Len(todo) \in Nat
      <4>0. Shape(WriteEnd, 5)
        BY OtherScripts
      <4>1. Len(WriteEnd) = 5 /\ Len(WriteEnd) \in Nat
        BY <4>0 DEF Shape
      <4>2. /\ Left(Tail(todo), WriteEnd) /\ (Tail(todo) = <<>> <=> Len(todo) = 1)
            /\ o = WriteEnd[Len(WriteEnd) - Len(todo) + 1] /\ Len(todo) \in Nat
        BY <1>1, <2>3, <4>1, LeftTail
      <4> HIDE DEF o
      <4> QED
        BY <4>1, <4>2, OtherScripts
    <3>2. Tail(todo) = <<>> => o = Poll("done", TRUE)
      <4>1. Len(todo) = 1 => 5 - Len(todo) + 1 = 5
        BY <3>1
      <4> HIDE DEF o
      <4> QED
        BY <3>1, <4>1
    <3>3. Tail(todo) = <<>> => jtag'.running # NoCore
      <4>1. SUFFICES ASSUME Tail(todo) = <<>> PROVE jtag'.running # NoCore
        OBVIOUS
      <4>2. Flag(jtag', "done")
        BY <1>8, <3>2, <4>1, Polled
      <4> QED
        BY <4>2 DEF Flag
    <3>4. Cleared'
      BY <2>0, <2>3 DEF IInv, Erasing
    <3>5. Started'
      BY <1>4, <1>8, <2>3, <3>3, <3>4 DEF Started, Cleared, Wired
    <3>6. AtShift' /\ Scripted'
      BY <1>8, <2>3, <3>1 DEF AtShift, Scripted
    <3>7. Erasing'
      BY <1>8, <2>3, <3>4 DEF Erasing
    <3> QED
      BY <1>3, <1>4, <1>5, <1>6, <3>5, <3>6, <3>7 DEF IInv
  <2>4. CASE pc \in {"erase1", "erase2"} /\ Left(todo, Unstick \o Erase)
    <3> DEFINE script == Unstick \o Erase
    <3>a. /\ Len(script) = 18 /\ script[8] = Poll("edit", TRUE) /\ script[9] = Cmd("ERASE_SRAM")
          /\ script[10] = Cmd("NOOP") /\ script[11] = Poll("erased", TRUE)
      BY EraseScript, Shaped
    <3> HIDE DEF script
    <3>1. /\ Left(Tail(todo), script) /\ o = script[Len(script) - Len(todo) + 1]
          /\ Len(Tail(todo)) = Len(todo) - 1 /\ Len(todo) \in Nat \ {0}
      <4>1. Left(todo, script) /\ Len(script) \in Nat /\ todo # <<>>
        BY <1>1, <2>4, <3>a DEF script
      <4> QED
        BY <4>1, LeftTail
    <3>2. PICK n \in Nat \ {0} : n = Len(todo)
      BY <3>1
    <3>3. o = script[18 - n + 1] /\ Len(todo') = n - 1
      BY <1>8, <3>a, <3>1, <3>2
    <3> HIDE DEF o
    <3>4. /\ n = 11 => o = Poll("edit", TRUE)
          /\ n = 10 => o = Cmd("ERASE_SRAM")
          /\ n = 9 => o = Cmd("NOOP")
          /\ n = 8 => o = Poll("erased", TRUE)
      <4>1. /\ n = 11 => 18 - n + 1 = 8
            /\ n = 10 => 18 - n + 1 = 9
            /\ n = 9 => 18 - n + 1 = 10
            /\ n = 8 => 18 - n + 1 = 11
        OBVIOUS
      <4> QED
        BY <3>a, <3>3, <4>1
    <3>b. ~FirstRead /\ jtag \in Jtag
      BY <2>4 DEF FirstRead, IInv, Wired
    <3>c. /\ n = 10 => jtag.edit
          /\ n \in {8, 9} => (jtag.erased => Cleared)
          /\ n < 8 => Cleared
      BY <2>4, <3>2 DEF IInv, Erasing
    <3>5. n - 1 = 10 => jtag'.edit
      <4>1. SUFFICES ASSUME n = 11 PROVE jtag'.edit
        BY <3>2
      <4>2. Flag(jtag', "edit")
        BY <1>8, <3>4, <4>1, Polled DEF o
      <4> QED
        BY <4>2 DEF Flag
    <3>6. n - 1 = 9 => (jtag'.erased => Cleared')
      <4>1. SUFFICES ASSUME n = 10 PROVE jtag'.erased => Cleared'
        BY <3>2
      <4>2. o.op # "goto" /\ Sent(o) = "ERASE_SRAM"
        BY <3>4, <4>1, Ops DEF Sent
      <4> DEFINE j == Execute(jtag, "ERASE_SRAM")
      <4>3. Ctl(jtag') = Ctl(j)
        BY <1>1, <3>b, <4>2 DEF o
      <4>4. j.erased => j.running = NoCore
        BY <3>b, <3>c, <4>1 DEF Execute, Jtag
      <4> HIDE DEF j
      <4>5. jtag'.erased = j.erased /\ jtag'.running = j.running
        BY <4>3, CtlFields
      <4> QED
        BY <4>4, <4>5 DEF Cleared
    <3>7. n \in {8, 9} => (jtag'.erased => Cleared')
      <4>1. SUFFICES ASSUME n \in {8, 9} PROVE jtag'.erased => Cleared'
        OBVIOUS
      <4>2. o.op # "goto" /\ Sent(o) \in {"NOOP", "STATUS_REGISTER"}
        <5>1. CASE n = 9
          BY <3>4, <5>1, Ops DEF Sent
        <5>2. CASE n = 8
          <6>1. o.op = "poll"
            <7>1. o = Poll("erased", TRUE)
              BY <3>4, <5>2
            <7> HIDE DEF o
            <7> QED
              BY <7>1, PollOp
          <6> HIDE DEF o
          <6> QED
            BY <6>1 DEF Sent
        <5> QED
          BY <4>1, <5>1, <5>2
      <4>3. PICK c \in {"NOOP", "STATUS_REGISTER"} : c = Sent(o)
        BY <4>2
      <4> DEFINE j == Execute(jtag, c)
      <4>4. Ctl(jtag') = Ctl(j)
        BY <1>1, <3>b, <4>2, <4>3 DEF o
      <4>5. j.erased = jtag.erased
        BY <3>b DEF Execute, Jtag
      <4> HIDE DEF j
      <4>6. jtag'.erased = j.erased
        BY <4>4, CtlFields
      <4> QED
        BY <2>0, <3>c, <4>1, <4>5, <4>6
    <3>8. n - 1 < 8 => Cleared'
      <4>1. CASE n = 8
        <5>1. Flag(jtag', "erased")
          BY <1>8, <3>4, <4>1, Polled DEF o
        <5>2. jtag'.erased
          BY <5>1 DEF Flag
        <5> QED
          BY <3>7, <4>1, <5>2
      <4>2. n - 1 < 8 => n = 8 \/ n < 8
        OBVIOUS
      <4> QED
        BY <2>0, <3>c, <4>1, <4>2
    <3>9. pc = "erase2" => Cleared'
      BY <2>0 DEF IInv, Erasing
    <3>10. n - 1 \in {8, 9} => (jtag'.erased => Cleared')
      <4>1. n - 1 \in {8, 9} => n = 9 \/ n = 10
        OBVIOUS
      <4>2. n = 10 => n - 1 = 9
        OBVIOUS
      <4> QED
        BY <3>6, <3>7, <4>1, <4>2
    <3>11. Erasing'
      BY <1>8, <2>4, <3>3, <3>5, <3>8, <3>9, <3>10 DEF Erasing
    <3>12. AtShift' /\ Scripted' /\ Started'
      BY <1>8, <2>4, <3>1 DEF AtShift, Scripted, Started, script
    <3> QED
      BY <1>3, <1>4, <1>5, <1>6, <3>11, <3>12 DEF IInv
  <2> QED
    BY <1>1, <2>1, <2>2, <2>3, <2>4 DEF IInv, Scripted
<1> QED
  BY <1>2, <1>7, <1>8

(* Every step keeps the invariant.                                         *)
LEMMA Invariance == IInv /\ [Next]_vars => IInv'
<1>1. ASSUME IInv, UNCHANGED vars PROVE IInv'
  BY <1>1 DEF vars, IInv, TypeOK, Wired, Steady, On, Astray, FirstRead, AtShift, Scripted, Erasing,
              Cleared, Started, Recognised, OnlyKnownBoards
<1> QED
  BY <1>1, ProgramStep, DetectStep, CheckStep, OperateStep, EraseStep, PartStep, StreamStep,
     StreamEndStep DEF Next

(* The invariant holds of every programming.                               *)
THEOREM Inductive == Spec => []IInv
<1> QED
  BY Start, Invariance, PTL DEF Spec

-----------------------------------------------------------------------------
(* What each variable holds.                                               *)
THEOREM TypeCorrect == Spec => []TypeOK
<1>1. IInv => TypeOK
  BY DEF IInv
<1> QED
  BY <1>1, Inductive, PTL

(* The firmware knows where the TAP is, but for the end of a bitstream.    *)
THEOREM BeliefHolds == Spec => []InStep
<1>1. IInv => InStep
  BY DEF IInv, InStep, Steady, Astray, On
<1> QED
  BY <1>1, Inductive, PTL

(* A core is reported as loaded only if it is the one that runs.           *)
THEOREM Success == Spec => []SuccessMeansRunning
<1>1. IInv => SuccessMeansRunning
  BY DEF IInv, Started, SuccessMeansRunning
<1> QED
  BY <1>1, Inductive, PTL

(* Only a board that was recognised is erased.                             *)
THEOREM Recognition == Spec => []OnlyKnownBoards
<1>1. IInv => OnlyKnownBoards
  BY DEF IInv, Recognised
<1> QED
  BY <1>1, Inductive, PTL

(* The FPGA executes the instruction that was sent, and no other.          *)
THEOREM Taken == Spec => CommandsTaken
<1> DEFINE Step == Sends /\ ~FirstRead => jtag'.ir = Head(todo).arg
<1>1. IInv /\ [Next]_vars => [Step]_vars
  <2>1. SUFFICES ASSUME IInv, Next, Sends, ~FirstRead PROVE jtag'.ir = Head(todo).arg
    OBVIOUS
  <2>2. todo # <<>> /\ Head(todo).op \in {"cmd", "read"}
    BY <2>1 DEF Sends
  <2>3. Operate
    BY <2>1, <2>2 DEF IInv, Scripted, Next, Program, DetectChain, CheckBoard, EraseSRAM, NextPart,
                      StreamBlock, StreamEnds
  <2> DEFINE o == Head(todo)
  <2>4. /\ o \in Op /\ Ctl(jtag') = Ctl(Execute(jtag, Sent(o))) /\ jtag \in Jtag
    BY <2>1, <2>2, <2>3, Operated DEF IInv, Wired
  <2>5. o.op \in {"cmd", "read"}
    BY <2>2
  <2> HIDE DEF o
  <2>6. Sent(o) = o.arg /\ o.arg \in Content
    BY <2>4, <2>5, Ops DEF Sent, Content
  <2> DEFINE j == Execute(jtag, o.arg)
  <2>7. j.ir = o.arg
    BY <2>4, <2>6, ExecuteKeeps
  <2>8. Ctl(jtag') = Ctl(j)
    BY <2>4, <2>6
  <2> HIDE DEF j
  <2>9. jtag'.ir = j.ir
    BY <2>8, CtlFields
  <2> QED
    BY <2>7, <2>9 DEF o
<1> QED
  BY <1>1, Inductive, PTL DEF Spec, CommandsTaken
=============================================================================
