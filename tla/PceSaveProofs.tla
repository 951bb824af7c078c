--------------------------- MODULE PceSaveProofs ---------------------------
(***************************************************************************)
(* What PceSave promises for any games, number of blocks and writes, and   *)
(* any combination of lost answers, failing writes and mutex timeouts.     *)
(*                                                                         *)
(* What must hold between two steps of a flush is said by the place of the *)
(* actor that holds sv_mutex.  Card compares sv_last with what a restore   *)
(* would read and lets them differ from the rename to the copy, and after  *)
(* a lapse, one of the card errors the model names.  Fresh is about what was *)
(* not announced: then the FPGA's flag is down, so the game wrote nothing  *)
(* since block 0 was requested; hence the blocks received, and the one     *)
(* answer on the link, are those of the RAM.  That an answer is the one    *)
(* that is awaited (Awaited) rests on the model's bound on its delay.      *)
(* Card and Fresh hold of games that Settled says were switched cleanly.   *)
(***************************************************************************)
EXTENDS PceSave, TLAPS, SequenceTheorems

(* The save task knows of the write, or the notice is under way.           *)
Announced == dirty \/ NoticeInFlight

(* From sv_dump to the copy into sv_last; from the game's name to its start. *)
Dumping == {"req", "await", "write", "commit"}
Loading == {"query", "set", "open", "load"}

Frame == [blk : 0..Blocks, data : Value]
MainPc == Flushing \cup {"play", "osd", "query", "set", "open", "load"}
SaverPc == Flushing \cup {"wait", "quiet"}

(* TypeOK, in the form the proofs use.                                     *)
Types ==
  /\ core \in {"pce", "other"} /\ run \in Games \cup {NoGame}
  /\ bram \in Ram /\ flag \in BOOLEAN /\ wr \in 0..MaxWrites
  /\ up \in Seq(Frame)
  /\ path \in Games \cup {NoGame} /\ last \in Ram
  /\ sav \in [Games -> File] /\ tmp \in [Games -> File]
  /\ lapse \in {"none", "truncated", "rename", "sync", "misread"}
  /\ rx \in Ram /\ rxBlk \in 0..Blocks /\ blkSem \in BOOLEAN
  /\ dirty \in BOOLEAN /\ notify \in BOOLEAN
  /\ mutex \in Actors \cup {"free"}
  /\ blk \in [Actors -> Block]
  /\ sel \in Games \cup {NoGame} /\ dropped \in BOOLEAN

(* Where each task may be.                                                 *)
Pcs ==
  /\ pc \in [Actors -> MainPc \cup SaverPc]
  /\ pc[Main] \in MainPc /\ pc[Saver] \in SaverPc

(* sv_mutex is held by who dumps.                                          *)
Holder == \A p \in Actors : mutex = p <=> pc[p] \in Dumping

(* A game runs in the core that was programmed for it, and while one is    *)
(* loaded the save file gets its name.                                     *)
Cores ==
  /\ run # NoGame \/ pc[Main] \in Loading => core = "pce"
  /\ pc[Main] \in Loading => sel \in Games
  /\ pc[Main] \in {"open", "load"} => path = sel
  /\ pc[Main] = "load" => ~flag /\ run = NoGame

(* The link carries at most one block, which is the one that is awaited.   *)
IsReply(f) == f.blk \in Block
Awaited ==
  /\ \A i \in 1..Len(up) :
       IsReply(up[i]) => ~blkSem /\ \E p \in Actors : pc[p] = "await" /\ up[i].blk = blk[p]
  /\ \A i, j \in 1..Len(up) : IsReply(up[i]) /\ IsReply(up[j]) => i = j
  /\ blkSem => \E p \in Actors : pc[p] = "await" /\ rxBlk = blk[p]

(* Without a lapse sv_last is what a restore would read, until a dump has  *)
(* been written and not yet copied.                                        *)
Card ==
  Settled /\ lapse = "none" =>
    /\ (\A p \in Actors : pc[p] # "commit") => last = Held(path)
    /\ \A p \in Actors : pc[p] = "commit" => Held(path) = rx

(* What was not announced was not written: the blocks received so far are  *)
(* those of the RAM, and the FPGA would announce the next write.           *)
AtRest == mutex = "free" => ~flag /\ bram = last
DumpFresh(p) ==
  /\ pc[p] # "req" \/ blk[p] > 0 => ~flag
  /\ pc[p] \in {"req", "await"} => \A b \in Block : b < blk[p] => rx[b] = bram[b]
  /\ pc[p] = "await" /\ blkSem => rx[blk[p]] = bram[blk[p]]
  /\ pc[p] \in {"write", "commit"} => rx = bram
RepliesFresh == \A i \in 1..Len(up) : IsReply(up[i]) => up[i].data = bram[up[i].blk]
Fresh ==
  Settled /\ ~Announced =>
    AtRest /\ RepliesFresh /\ \A p \in Actors : pc[p] \in Dumping => DumpFresh(p)

IInv == Types /\ Pcs /\ Holder /\ Cores /\ Awaited /\ Card /\ Fresh

(* The first frame was taken from the link; f was put on it.               *)
Dequeued ==
  /\ up' \in Seq(Frame) /\ Len(up') \in Nat /\ Len(up) = Len(up') + 1
  /\ Head(up) = up[1] /\ Head(up) \in Frame
  /\ \A i \in 1..Len(up') : i + 1 \in 1..Len(up) /\ up'[i] = up[i + 1]
  /\ \A i \in 1..Len(up) : i = 1 \/ (i - 1 \in 1..Len(up') /\ up'[i - 1] = up[i])
Enqueued(f) ==
  /\ up' \in Seq(Frame) /\ Len(up) \in Nat /\ Len(up') = Len(up) + 1
  /\ up'[Len(up) + 1] = f
  /\ \A i \in 1..Len(up) : i \in 1..Len(up') /\ up'[i] = up[i]
  /\ \A i \in 1..Len(up') : i = Len(up) + 1 \/ i \in 1..Len(up)

-----------------------------------------------------------------------------
(* uart1_rx_task takes the oldest frame.                                   *)
LEMMA Dequeue == ASSUME Types, up # <<>>, up' = Tail(up) PROVE Dequeued
<1>1. up \in Seq(Frame)
  BY DEF Types
<1>2. up' \in Seq(Frame) /\ Len(up') = Len(up) - 1 /\ Len(up) \in Nat /\ Len(up') \in Nat
  BY <1>1
<1>3. Head(up) = up[1] /\ Head(up) \in Frame
  BY <1>1
<1>4. \A i \in 1..Len(up') : up'[i] = up[i + 1]
  BY <1>1
<1> QED
  BY <1>2, <1>3, <1>4 DEF Dequeued

(* The FPGA puts a frame behind the others.                                *)
LEMMA Enqueue == ASSUME Types, NEW f \in Frame, up' = Append(up, f) PROVE Enqueued(f)
<1>1. up \in Seq(Frame)
  BY DEF Types
<1>2. up' \in Seq(Frame) /\ Len(up') = Len(up) + 1 /\ Len(up) \in Nat
  BY <1>1
<1>3. up'[Len(up) + 1] = f /\ \A i \in 1..Len(up) : up'[i] = up[i]
  BY <1>1
<1> QED
  BY <1>2, <1>3 DEF Enqueued

(* The values the actions compute have their types.                        *)
LEMMA Values ==
  /\ BlankRam \in Ram /\ DirtyNotice \in Frame /\ DirtyNotice.blk \notin Block
  /\ \A b \in Block, v \in Value :
       Reply(b, v) \in Frame /\ Reply(b, v).blk = b /\ Reply(b, v).data = v
  /\ 0 \in Block /\ \A b \in Block : b + 1 \notin Block \/ b + 1 \in Block
  /\ \A r \in Ram, b \in Block : r[b] \in Value
  /\ \A r \in Ram, b \in Block, v \in Value : [r EXCEPT ![b] = v] \in Ram
<1> USE PceSaveAssumption DEF PceSaveAssumption
<1>1. Blank \in Value
  BY DEF Blank, Value
<1>2. BlankRam \in Ram
  BY <1>1 DEF BlankRam, Ram
<1>3. DirtyNotice \in Frame /\ DirtyNotice.blk \notin Block
  BY <1>1 DEF DirtyNotice, Frame, NoBlock, Block
<1>4. \A b \in Block, v \in Value :
        Reply(b, v) \in Frame /\ Reply(b, v).blk = b /\ Reply(b, v).data = v
  BY DEF Reply, Frame, Block
<1>5. 0 \in Block
  BY DEF Block
<1> QED
  BY <1>2, <1>3, <1>4, <1>5 DEF Ram

-----------------------------------------------------------------------------
(* The game's writes and what uart1_rx_task does with a frame.             *)
LEMMA LinkPreserves ==
  ASSUME IInv, FpgaStep \/ RxStep
  PROVE  IInv'
<1>0. Types /\ Pcs /\ Holder /\ Cores /\ Awaited /\ Card /\ Fresh
  BY DEF IInv
<1>1. CASE GameWrites
  <2>1. up' = up \/ Enqueued(DirtyNotice)
    BY <1>0, <1>1, Enqueue, Values DEF GameWrites
  <2>2. Types'
    <3>1. [g |-> run, n |-> wr'] \in Value /\ wr' \in 0..MaxWrites
      BY <1>0, <1>1, PceSaveAssumption DEF Types, Value, GameWrites
    <3>2. bram' \in Ram
      <4>1. PICK b \in Block, v \in Value : bram' = [bram EXCEPT ![b] = v]
        BY <1>1 DEF GameWrites
      <4>2. bram \in Ram
        BY <1>0 DEF Types
      <4> HIDE DEF Ram
      <4> QED
        BY <3>1, <4>1, <4>2, Values
    <3>3. up' \in Seq(Frame)
      BY <1>0, <2>1 DEF Types, Enqueued
    <3> QED
      BY <1>0, <1>1, <3>1, <3>2, <3>3 DEF Types, GameWrites, file
  <2>3. Pcs'
    BY <1>0, <1>1 DEF Pcs, GameWrites
  <2>4. Holder'
    BY <1>0, <1>1 DEF Holder, GameWrites
  <2>5. Cores'
    BY <1>0, <1>1 DEF Cores, GameWrites, file
  <2>6. Awaited'
    BY <1>0, <1>1, Values DEF Awaited, IsReply, GameWrites
  <2>7. Card'
    BY <1>0, <1>1 DEF Card, Held, Settled, GameWrites, file
  <2>8. Fresh'
    <3> SUFFICES ASSUME Settled', ~Announced'
                 PROVE  /\ AtRest' /\ RepliesFresh'
                        /\ \A p \in Actors : pc'[p] \in Dumping => DumpFresh(p)'
      BY DEF Fresh
    <3>1. flag
      <4> SUFFICES ASSUME ~flag PROVE FALSE
        OBVIOUS
      <4>1. Enqueued(DirtyNotice)
        BY <1>0, <1>1, Enqueue, Values DEF GameWrites
      <4> QED
        BY <4>1 DEF Enqueued, Announced, NoticeInFlight
    <3>2. up' = up /\ Settled /\ ~Announced
      BY <1>1, <3>1 DEF GameWrites, Settled, Announced, NoticeInFlight, file
    <3>3. mutex # "free" /\ \A p \in Actors : pc[p] \in Dumping => pc[p] = "req" /\ blk[p] = 0
      BY <1>0, <3>1, <3>2 DEF Fresh, AtRest, DumpFresh, Types, Block
    <3>4. \A i \in 1..Len(up) : ~IsReply(up[i])
      BY <1>0, <3>3 DEF Awaited, Dumping
    <3> QED
      BY <1>0, <1>1, <3>2, <3>3, <3>4 DEF GameWrites, AtRest, RepliesFresh, DumpFresh, Block
  <2> QED
    BY <2>2, <2>3, <2>4, <2>5, <2>6, <2>7, <2>8 DEF IInv
<1>2. CASE RxDirty
  <2>1. Dequeued
    BY <1>0, <1>2, Dequeue DEF RxDirty
  <2>2. Types'
    BY <1>0, <1>2 DEF Types, RxDirty, fpga, file
  <2>3. Pcs'
    BY <1>0, <1>2 DEF Pcs, RxDirty
  <2>4. Holder'
    BY <1>0, <1>2 DEF Holder, RxDirty
  <2>5. Cores'
    BY <1>0, <1>2 DEF Cores, RxDirty, fpga, file
  <2>6. Awaited'
    BY <1>0, <1>2 DEF Awaited, Dumping, RxDirty
  <2>7. Card'
    BY <1>0, <1>2 DEF Card, Held, Settled, RxDirty, fpga, file
  <2>8. Fresh'
    BY <1>0, <1>2 DEF Fresh, Announced, RxDirty
  <2> QED
    BY <2>2, <2>3, <2>4, <2>5, <2>6, <2>7, <2>8 DEF IInv
<1>3. CASE RxBlock
  <2>1. Dequeued
    BY <1>0, <1>3, Dequeue DEF RxBlock
  <2>2. Types'
    BY <1>0, <1>3, <2>1, Values DEF Types, Dequeued, Frame, RxBlock, fpga, file
  <2>3. Pcs'
    BY <1>0, <1>3 DEF Pcs, RxBlock
  <2>4. Holder'
    BY <1>0, <1>3 DEF Holder, RxBlock
  <2>5. Cores'
    BY <1>0, <1>3 DEF Cores, RxBlock, fpga, file
  <2>6. Awaited'
    BY <1>0, <1>3 DEF Awaited, IsReply, RxBlock
  <2>7. Card'
    BY <1>0, <1>3 DEF Card, Held, Settled, Pcs, Holder, Dumping, Awaited, IsReply, RxBlock, fpga, file
  <2>8. Fresh'
    <3> SUFFICES ASSUME Settled', ~Announced'
                 PROVE  /\ AtRest' /\ RepliesFresh'
                        /\ \A p \in Actors : pc'[p] \in Dumping => DumpFresh(p)'
      BY DEF Fresh
    <3>1. Settled /\ ~Announced
      <4>1. ~NoticeInFlight
        <5> SUFFICES ASSUME NEW i \in 1..Len(up), up[i] = DirtyNotice PROVE FALSE
          BY DEF NoticeInFlight
        <5>1. i # 1
          BY <1>3, Values DEF RxBlock
        <5>2. i - 1 \in 1..Len(up') /\ up'[i - 1] = DirtyNotice
          BY <5>1, <2>1 DEF Dequeued
        <5> QED
          BY <5>2 DEF Announced, NoticeInFlight
      <4> QED
        BY <1>3, <4>1 DEF RxBlock, Settled, Announced, fpga, file
    <3>2. AtRest' /\ RepliesFresh'
      BY <1>0, <1>3, <3>1 DEF Fresh, AtRest, RepliesFresh, RxBlock, fpga, file
    <3>3. ASSUME NEW p \in Actors, pc'[p] \in Dumping PROVE DumpFresh(p)'
      <4>1. DumpFresh(p) /\ UNCHANGED <<pc, blk, flag, bram>> /\ blk[p] \in Block
        BY <1>0, <1>3, <3>1, <3>3 DEF Fresh, RxBlock, fpga, Types
      <4>2. up[1] = Head(up) /\ 1 \in 1..Len(up) /\ Head(up) \in Frame
        BY <2>1 DEF Dequeued
      <4>3. pc[p] = "await" /\ up[1].blk = blk[p] /\ up[1].data = bram[blk[p]]
        BY <1>0, <1>3, <3>1, <3>3, <4>1, <4>2 DEF Fresh, RepliesFresh, Awaited, IsReply,
           RxBlock, Holder, Dumping
      <4> QED
        BY <1>0, <1>3, <4>1, <4>2, <4>3 DEF DumpFresh, RxBlock, Types, Ram
    <3> QED
      BY <3>2, <3>3
  <2> QED
    BY <2>2, <2>3, <2>4, <2>5, <2>6, <2>7, <2>8 DEF IInv
<1>4. CASE LoseBlock
  <2>1. Dequeued
    BY <1>0, <1>4, Dequeue DEF LoseBlock
  <2>2. Types'
    BY <1>0, <1>4 DEF Types, LoseBlock, fpga, file
  <2>3. Pcs'
    BY <1>0, <1>4 DEF Pcs, LoseBlock
  <2>4. Holder'
    BY <1>0, <1>4 DEF Holder, LoseBlock
  <2>5. Cores'
    BY <1>0, <1>4 DEF Cores, LoseBlock, fpga, file
  <2>6. Awaited'
    BY <1>0, <1>4 DEF Awaited, LoseBlock
  <2>7. Card'
    BY <1>0, <1>4 DEF Card, Held, Settled, LoseBlock, fpga, file
  <2>8. Fresh'
    <3> SUFFICES ASSUME Settled', ~Announced'
                 PROVE  /\ AtRest' /\ RepliesFresh'
                        /\ \A p \in Actors : pc'[p] \in Dumping => DumpFresh(p)'
      BY DEF Fresh
    <3>1. Settled /\ ~Announced
      <4>1. ~NoticeInFlight
        <5> SUFFICES ASSUME NEW i \in 1..Len(up), up[i] = DirtyNotice PROVE FALSE
          BY DEF NoticeInFlight
        <5>1. i # 1
          BY <1>4, Values DEF LoseBlock
        <5>2. i - 1 \in 1..Len(up') /\ up'[i - 1] = DirtyNotice
          BY <5>1, <2>1 DEF Dequeued
        <5> QED
          BY <5>2 DEF Announced, NoticeInFlight
      <4> QED
        BY <1>4, <4>1 DEF LoseBlock, Settled, Announced, fpga, file
    <3>2. AtRest' /\ RepliesFresh'
      BY <1>0, <1>4, <3>1 DEF Fresh, AtRest, RepliesFresh, LoseBlock, fpga, file
    <3>3. ASSUME NEW p \in Actors, pc'[p] \in Dumping PROVE DumpFresh(p)'
      <4>1. DumpFresh(p) /\ UNCHANGED <<pc, blk, flag, bram>> /\ blk[p] \in Block
        BY <1>0, <1>4, <3>1, <3>3 DEF Fresh, LoseBlock, fpga, Types
      <4>2. up[1] = Head(up) /\ 1 \in 1..Len(up) /\ Head(up) \in Frame
        BY <2>1 DEF Dequeued
      <4>3. pc[p] = "await" /\ up[1].blk = blk[p] /\ up[1].data = bram[blk[p]]
        BY <1>0, <1>4, <3>1, <3>3, <4>1, <4>2 DEF Fresh, RepliesFresh, Awaited, IsReply,
           LoseBlock, Holder, Dumping
      <4> QED
        BY <1>0, <1>4, <4>1, <4>2, <4>3 DEF DumpFresh, LoseBlock
    <3> QED
      BY <3>2, <3>3
  <2> QED
    BY <2>2, <2>3, <2>4, <2>5, <2>6, <2>7, <2>8 DEF IInv
<1> QED
  BY <1>1, <1>2, <1>3, <1>4 DEF FlushStep, FpgaStep, RxStep

(* pcesave_flush_now, by whichever task.                                   *)
LEMMA FlushPreserves ==
  ASSUME IInv, NEW p \in Actors, FlushStep(p)
  PROVE  IInv'
<1>0. Types /\ Pcs /\ Holder /\ Cores /\ Awaited /\ Card /\ Fresh
  BY DEF IInv
<1>1. CASE FlushCheck(p)
  <2>1. Types'
    BY <1>0, <1>1 DEF Types, FlushCheck, fpga, link, file
  <2>2. Pcs'
    BY <1>0, <1>1 DEF Pcs, MainPc, SaverPc, Flushing, FlushCheck, Goto, Main, Saver, Caller
  <2>3. Holder'
    BY <1>0, <1>1 DEF Holder, Dumping, FlushCheck, Goto, Caller
  <2>4. Cores'
    BY <1>0, <1>1 DEF Cores, Loading, FlushCheck, Goto, Caller, fpga, file
  <2>5. Awaited'
    BY <1>0, <1>1 DEF Awaited, FlushCheck, Goto, link
  <2>6. Card'
    BY <1>0, <1>1 DEF Card, Held, Settled, FlushCheck, Goto, Caller, fpga, link, file
  <2>7. Fresh'
    BY <1>0, <1>1 DEF Fresh, AtRest, RepliesFresh, DumpFresh, Settled, Announced,
       NoticeInFlight, Dumping, FlushCheck, Goto, Caller, fpga, link, file
  <2> QED
    BY <2>1, <2>2, <2>3, <2>4, <2>5, <2>6, <2>7 DEF IInv
<1>2. CASE FlushLock(p)
  <2>1. Types'
    BY <1>0, <1>2, Values DEF Types, FlushLock, fpga, link, file
  <2>2. Pcs'
    BY <1>0, <1>2 DEF Pcs, MainPc, SaverPc, Flushing, FlushLock, Goto
  <2>3. Holder'
    BY <1>0, <1>2 DEF Pcs, Holder, Dumping, FlushLock, Goto, Actors, Main, Saver
  <2>4. Cores'
    BY <1>0, <1>2 DEF Cores, Loading, FlushLock, Goto, fpga, file
  <2>5. Awaited'
    BY <1>0, <1>2 DEF Pcs, Awaited, FlushLock, Goto, link, file
  <2>6. Card'
    BY <1>0, <1>2 DEF Card, Held, Settled, FlushLock, Goto, fpga, link, file
  <2>7. Fresh'
    <3> SUFFICES ASSUME Settled', ~Announced'
                 PROVE  /\ AtRest' /\ RepliesFresh'
                        /\ \A q \in Actors : pc'[q] \in Dumping => DumpFresh(q)'
      BY DEF Fresh
    <3>1. Settled /\ up' = up /\ bram' = bram /\ pc' = [pc EXCEPT ![p] = "req"] /\ blk'[p] = 0
      BY <1>0, <1>2 DEF FlushLock, Goto, Settled, Pcs, Types, fpga, file, link, Actors
    <3>2. \A q \in Actors : pc[q] \notin Dumping
      BY <1>0, <1>2 DEF FlushLock, Holder, Actors, Main, Saver
    <3>3. \A i \in 1..Len(up) : ~IsReply(up[i])
      BY <1>0, <3>2 DEF Awaited, Dumping
    <3>4. \A q \in Actors : pc'[q] \in Dumping => q = p /\ pc'[q] = "req"
      BY <1>0, <3>1, <3>2
    <3> QED
      BY <1>0, <1>2, <3>1, <3>3, <3>4 DEF FlushLock, AtRest, RepliesFresh, DumpFresh, Block,
         Actors, Main, Saver
  <2> QED
    BY <2>1, <2>2, <2>3, <2>4, <2>5, <2>6, <2>7 DEF IInv
<1>3. CASE FlushLockTimesOut(p)
  <2>1. Types'
    BY <1>0, <1>3 DEF Types, FlushLockTimesOut, fpga, link, file
  <2>2. Pcs'
    BY <1>0, <1>3 DEF Pcs, MainPc, SaverPc, FlushLockTimesOut, Goto, Main, Saver, Caller
  <2>3. Holder'
    BY <1>0, <1>3 DEF Holder, Dumping, FlushLockTimesOut, Goto, Caller
  <2>4. Cores'
    BY <1>0, <1>3 DEF Cores, Loading, FlushLockTimesOut, Goto, Caller, fpga, file
  <2>5. Awaited'
    BY <1>0, <1>3 DEF Awaited, FlushLockTimesOut, Goto, link
  <2>6. Card'
    BY <1>0, <1>3 DEF Card, Held, Settled, FlushLockTimesOut, Goto, Caller, fpga, link, file
  <2>7. Fresh'
    BY <1>0, <1>3 DEF Fresh, AtRest, RepliesFresh, DumpFresh, Settled, Announced,
       NoticeInFlight, Dumping, FlushLockTimesOut, Goto, Caller, fpga, link, file
  <2> QED
    BY <2>1, <2>2, <2>3, <2>4, <2>5, <2>6, <2>7 DEF IInv
<1>4. CASE Request(p)
  <2>1. IF core = "pce" THEN Enqueued(Reply(blk[p], bram[blk[p]])) ELSE up' = up
    BY <1>0, <1>4, Enqueue, Values DEF Request, Types
  <2>2. Types'
    <3>1. up' \in Seq(Frame)
      BY <1>0, <2>1 DEF Types, Enqueued
    <3> QED
      BY <1>0, <1>4, <3>1 DEF Types, Request, file
  <2>3. Pcs'
    BY <1>0, <1>4 DEF Pcs, MainPc, SaverPc, Flushing, Request, Goto
  <2>4. Holder'
    BY <1>0, <1>4 DEF Holder, Dumping, Request, Goto
  <2>5. Cores'
    BY <1>0, <1>4 DEF Pcs, Cores, Loading, Request, Goto, Actors, file
  <2>6. \A q \in Actors : pc[q] \in Dumping <=> q = p
    BY <1>0, <1>4 DEF Request, Goto, Holder, Dumping
  <2>7. \A i \in 1..Len(up) : ~IsReply(up[i])
    BY <1>0, <1>4, <2>6 DEF Awaited, Request, Goto, Dumping
  <2>8. \A i \in 1..Len(up') :
          \/ i \in 1..Len(up) /\ up'[i] = up[i]
          \/ core = "pce" /\ i = Len(up) + 1 /\ up'[i] = Reply(blk[p], bram[blk[p]])
    <3>1. CASE core = "pce"
      BY <2>1, <3>1 DEF Enqueued
    <3>2. CASE core # "pce"
      BY <2>1, <3>2
    <3> QED
      BY <3>1, <3>2
  <2>9. /\ blk[p] \in Block /\ bram[blk[p]] \in Value
        /\ pc'[p] = "await" /\ blk' = blk /\ ~blkSem' /\ bram' = bram
    BY <1>0, <1>4, Values DEF Types, Pcs, Request, Goto
  <2>10. \A i \in 1..Len(up') :
          IsReply(up'[i]) => i = Len(up) + 1 /\ up'[i].blk = blk[p] /\ up'[i].data = bram[blk[p]]
    BY <2>7, <2>8, <2>9, Values
  <2>11. Awaited'
    BY <2>9, <2>10 DEF Awaited
  <2>12. Card'
    BY <1>0, <1>4 DEF Card, Held, Settled, Request, Goto, file
  <2>13. Fresh'
    <3> SUFFICES ASSUME Settled', ~Announced'
                 PROVE  /\ AtRest' /\ RepliesFresh'
                        /\ \A q \in Actors : pc'[q] \in Dumping => DumpFresh(q)'
      BY DEF Fresh
    <3>1. Settled /\ core = "pce"
      BY <1>0, <1>4 DEF Request, Goto, Settled, Cores, Pcs, file, Actors
    <3>2. ~Announced
      BY <1>4, <3>1 DEF Request, Announced, NoticeInFlight
    <3>3. blk[p] > 0 => ~flag
      BY <1>0, <1>4, <2>6, <3>1, <3>2 DEF Fresh, DumpFresh
    <3>4. ~flag'
      <4>1. blk[p] = 0 \/ blk[p] > 0
        BY <2>9 DEF Block
      <4>2. flag' = IF blk[p] = 0 THEN FALSE ELSE flag
        BY <1>4, <3>1 DEF Request
      <4> QED
        BY <3>3, <4>1, <4>2
    <3>5. RepliesFresh'
      BY <2>9, <2>10 DEF RepliesFresh
    <3>6. AtRest'
      BY <1>0, <1>4, <2>6 DEF AtRest, Request, Holder, Actors, Main, Saver
    <3>7. ASSUME NEW q \in Actors, pc'[q] \in Dumping PROVE DumpFresh(q)'
      <4>1. q = p
        BY <1>0, <1>4, <2>6, <3>7 DEF Request, Goto
      <4>2. DumpFresh(p) /\ pc[p] = "req"
        BY <1>0, <1>4, <2>6, <3>1, <3>2 DEF Fresh, Request, Goto
      <4> QED
        BY <1>4, <2>9, <3>4, <4>1, <4>2 DEF DumpFresh, Request
    <3> QED
      BY <3>5, <3>6, <3>7
  <2> QED
    BY <2>2, <2>3, <2>4, <2>5, <2>11, <2>12, <2>13 DEF IInv
<1>5. CASE Received(p)
  <2>1. Types'
    <3>1. blk' \in [Actors -> Block]
      BY <1>0, <1>5 DEF Types, Received
    <3> QED
      BY <1>0, <1>5, <3>1 DEF Types, Received, Fail, fpga, file
  <2>2. Pcs'
    BY <1>0, <1>5 DEF Pcs, MainPc, SaverPc, Flushing, Received, Goto, Actors, Main, Saver, Fail,
       Caller
  <2>3. Holder'
    BY <1>0, <1>5 DEF Pcs, Holder, Dumping, Received, Goto, Actors, Main, Saver, Fail, Caller
  <2>4. Cores'
    BY <1>0, <1>5 DEF Pcs, Cores, Loading, Received, Goto, Actors, Fail, Caller, fpga, file
  <2>5. Awaited'
    BY <1>0, <1>5 DEF Awaited, Received
  <2>6. Card'
    BY <1>0, <1>5 DEF Card, Held, Settled, Pcs, Received, Goto, Actors, Fail, Caller, fpga, file
  <2>7. Fresh'
    <3> SUFFICES ASSUME Settled', ~Announced'
                 PROVE  /\ AtRest' /\ RepliesFresh'
                        /\ \A q \in Actors : pc'[q] \in Dumping => DumpFresh(q)'
      BY DEF Fresh
    <3>1. Settled /\ ~Announced /\ rxBlk = blk[p]
      <4>1. \A q \in Actors : pc[q] = "await" => q = p
        BY <1>0, <1>5 DEF Received, Holder, Dumping
      <4>2. rxBlk = blk[p]
        BY <1>0, <1>5, <4>1 DEF Received, Awaited
      <4> QED
        BY <1>0, <1>5, <4>2 DEF Received, Goto, Settled, Announced, NoticeInFlight, Pcs, fpga,
           file, Actors
    <3>2. \A q \in Actors : pc[q] \in Dumping <=> q = p
      BY <1>0, <1>5 DEF Received, Holder, Dumping
    <3>3. \A i \in 1..Len(up) : ~IsReply(up[i])
      BY <1>0, <1>5 DEF Awaited, Received
    <3>4. /\ DumpFresh(p) /\ pc[p] = "await" /\ blkSem
          /\ blk[p] \in Block /\ rx \in Ram /\ bram \in Ram
      BY <1>0, <1>5, <3>1, <3>2 DEF Fresh, Received, Types
    <3>5. AtRest' /\ RepliesFresh'
      BY <1>0, <1>5, <3>1, <3>2, <3>3 DEF AtRest, RepliesFresh, Received, Holder, Actors, Main,
         Saver
    <3>6. \A b \in Block : b <= blk[p] => rx[b] = bram[b]
      BY <3>4 DEF DumpFresh, Block
    <3>7. ASSUME NEW q \in Actors, pc'[q] \in Dumping PROVE DumpFresh(q)'
      <4>1. q = p
        BY <1>0, <1>5, <3>1, <3>2, <3>7 DEF Received, Goto, Pcs
      <4>2. CASE blk[p] + 1 \in Block
        <5>1. blk'[p] = blk[p] + 1 /\ pc'[p] = "req" /\ UNCHANGED <<rx, bram, flag>>
          BY <1>0, <1>5, <3>1, <4>2 DEF Received, Goto, Pcs, Types, fpga
        <5> QED
          BY <3>4, <3>6, <4>1, <5>1 DEF DumpFresh, Block
      <4>3. CASE blk[p] + 1 \notin Block
        <5>1. pc'[p] = "write" /\ UNCHANGED <<rx, bram, flag, blk>>
          BY <1>0, <1>5, <3>1, <4>3 DEF Received, Goto, Pcs, fpga
        <5>2. \A b \in Block : b <= blk[p]
          BY <3>4, <4>3, PceSaveAssumption DEF Block
        <5>3. rx = bram
          BY <3>4, <3>6, <5>2 DEF Ram
        <5> QED
          BY <3>4, <4>1, <5>1, <5>3 DEF DumpFresh
      <4> QED
        BY <4>2, <4>3
    <3> QED
      BY <3>5, <3>7
  <2> QED
    BY <2>1, <2>2, <2>3, <2>4, <2>5, <2>6, <2>7 DEF IInv
<1>6. CASE ReplyTimesOut(p)
  <2>1. Types'
    BY <1>0, <1>6 DEF Types, ReplyTimesOut, Fail, fpga, link, file
  <2>2. Pcs'
    BY <1>0, <1>6 DEF Pcs, MainPc, SaverPc, ReplyTimesOut, Main, Saver, Fail, Caller
  <2>3. Holder'
    BY <1>0, <1>6 DEF Pcs, Holder, Dumping, ReplyTimesOut, Actors, Main, Saver, Fail, Caller
  <2>4. Cores'
    BY <1>0, <1>6 DEF Cores, Loading, ReplyTimesOut, Fail, Caller, fpga, file
  <2>5. Awaited'
    BY <1>0, <1>6 DEF Awaited, ReplyTimesOut, link
  <2>6. Card'
    BY <1>0, <1>6 DEF Card, Held, Settled, Holder, Dumping, ReplyTimesOut, Fail, Caller, fpga, file
  <2>7. Fresh'
    BY <1>0, <1>6 DEF Fresh, Announced, ReplyTimesOut, Fail
  <2> QED
    BY <2>1, <2>2, <2>3, <2>4, <2>5, <2>6, <2>7 DEF IInv
<1>7. CASE WriteSave(p)
  <2>11. /\ UNCHANGED <<fpga, link, path, last, dirty, notify, mutex, blk, sel, dropped>>
        /\ Goto(p, "write", "commit")
        /\ rx \in Ram /\ rx \in File /\ rx # NoImage /\ NoImage \in File
    BY <1>0, <1>7, NoImageAssumption DEF Types, WriteSave, link, File
  <2>12. /\ tmp' = [tmp EXCEPT ![path] = NoImage]
         /\ \/ sav' = [sav EXCEPT ![path] = rx] /\ lapse' = "none"
            \/ sav' = [sav EXCEPT ![path] = NoImage] /\ lapse' = "sync"
    BY <1>7 DEF WriteSave
  <2>1. Types'
    <3>1. sav' \in [Games -> File] /\ tmp' \in [Games -> File]
      BY <1>0, <2>11, <2>12 DEF Types
    <3>2. lapse' \in {"none", "truncated", "rename", "sync", "misread"}
      BY <2>12
    <3> QED
      BY <1>0, <2>11, <3>1, <3>2 DEF Types, fpga, link
  <2>2. Pcs'
    BY <1>0, <1>7 DEF Pcs, MainPc, SaverPc, Flushing, WriteSave, Goto
  <2>3. Holder'
    BY <1>0, <1>7 DEF Holder, Dumping, WriteSave, Goto
  <2>4. Cores'
    BY <1>0, <1>7 DEF Cores, Loading, WriteSave, Goto, fpga
  <2>5. Awaited'
    BY <1>0, <1>7 DEF Awaited, Holder, Dumping, WriteSave, link
  <2>6. Card'
    <3> SUFFICES ASSUME Settled', lapse' = "none"
                 PROVE  /\ (\A q \in Actors : pc'[q] # "commit") => last' = Held(path)'
                        /\ \A q \in Actors : pc'[q] = "commit" => Held(path)' = rx'
      BY DEF Card
    <3>1. sav' = [sav EXCEPT ![path] = rx]
      BY <2>12
    <3>2. path \in Games /\ path' = path /\ rx' = rx
      BY <1>0, <2>11 DEF Types, Settled, fpga, link
    <3>3. sav'[path] = rx
      BY <1>0, <3>1, <3>2 DEF Types
    <3>4. pc'[p] = "commit"
      BY <1>0, <2>11 DEF Pcs, Goto
    <3> QED
      BY <2>11, <3>2, <3>3, <3>4 DEF Held
  <2>7. Fresh'
    BY <1>0, <2>11 DEF Fresh, AtRest, RepliesFresh, DumpFresh, Settled, Announced,
       NoticeInFlight, Dumping, Goto, fpga, link
  <2> QED
    BY <2>1, <2>2, <2>3, <2>4, <2>5, <2>6, <2>7 DEF IInv
<1>8. CASE WriteFails(p)
  <2>1. Types'
    <3>1. tmp' \in [Games -> File]
      BY <1>0, <1>8 DEF Types, File, WriteFails
    <3>2. lapse' \in {"none", "truncated", "rename", "sync", "misread"}
      BY <1>0, <1>8 DEF Types, WriteFails
    <3> QED
      BY <1>0, <1>8, <3>1, <3>2 DEF Types, WriteFails, Fail, fpga, link
  <2>2. Pcs'
    BY <1>0, <1>8 DEF Pcs, MainPc, SaverPc, WriteFails, Main, Saver, Fail, Caller
  <2>3. Holder'
    BY <1>0, <1>8 DEF Pcs, Holder, Dumping, WriteFails, Actors, Main, Saver, Fail, Caller
  <2>4. Cores'
    BY <1>0, <1>8 DEF Cores, Loading, WriteFails, Fail, Caller, fpga, file
  <2>5. Awaited'
    BY <1>0, <1>8 DEF Awaited, WriteFails, Fail, link
  <2>6. Card'
    BY <1>0, <1>8 DEF Card, Held, Settled, Holder, Dumping, WriteFails, Fail, Caller, fpga, file
  <2>7. Fresh'
    BY <1>0, <1>8 DEF Fresh, Announced, WriteFails, Fail
  <2> QED
    BY <2>1, <2>2, <2>3, <2>4, <2>5, <2>6, <2>7 DEF IInv
<1>9. CASE SkipWrite(p)
  <2>1. Types'
    BY <1>0, <1>9 DEF Types, SkipWrite, fpga, link, file
  <2>2. Pcs'
    BY <1>0, <1>9 DEF Pcs, MainPc, SaverPc, SkipWrite, Goto, Main, Saver, Caller
  <2>3. Holder'
    BY <1>0, <1>9 DEF Pcs, Holder, Dumping, SkipWrite, Goto, Actors, Main, Saver, Caller
  <2>4. Cores'
    BY <1>0, <1>9 DEF Cores, Loading, SkipWrite, Goto, Caller, fpga, file
  <2>5. Awaited'
    BY <1>0, <1>9 DEF Awaited, SkipWrite, Goto, link, file
  <2>6. Card'
    BY <1>0, <1>9 DEF Card, Held, Settled, Holder, Dumping, SkipWrite, Goto, Caller, fpga, file
  <2>7. Fresh'
    BY <1>0, <1>9 DEF Fresh, AtRest, RepliesFresh, DumpFresh, Settled, Announced,
       NoticeInFlight, Dumping, SkipWrite, Goto, fpga, link, file
  <2> QED
    BY <2>1, <2>2, <2>3, <2>4, <2>5, <2>6, <2>7 DEF IInv
<1>10. CASE Commit(p)
  <2>1. Types'
    BY <1>0, <1>10 DEF Types, Commit, fpga, link
  <2>2. Pcs'
    BY <1>0, <1>10 DEF Pcs, MainPc, SaverPc, Commit, Goto, Main, Saver, Caller
  <2>3. Holder'
    BY <1>0, <1>10 DEF Pcs, Holder, Dumping, Commit, Goto, Actors, Main, Saver, Caller
  <2>4. Cores'
    BY <1>0, <1>10 DEF Cores, Loading, Commit, Goto, Caller, fpga
  <2>5. Awaited'
    BY <1>0, <1>10 DEF Awaited, Commit, Goto, link
  <2>6. Card'
    BY <1>0, <1>10 DEF Card, Held, Settled, Commit, Goto, fpga, link
  <2>7. Fresh'
    BY <1>0, <1>10 DEF Fresh, AtRest, RepliesFresh, DumpFresh, Settled, Announced,
       NoticeInFlight, Dumping, Commit, Goto, fpga, link
  <2> QED
    BY <2>1, <2>2, <2>3, <2>4, <2>5, <2>6, <2>7 DEF IInv
<1>11. CASE RenameFails(p)
  <2>11. /\ UNCHANGED <<fpga, link, path, last, notify, blk, sel, dropped>> /\ Fail(p)
        /\ rx \in Ram /\ rx \in File /\ NoImage \in File
    BY <1>0, <1>11 DEF Types, RenameFails, link, File
  <2>12. /\ sav' \in {sav, [sav EXCEPT ![path] = NoImage]}
         /\ \E f \in {rx, NoImage} : tmp' = [tmp EXCEPT ![path] = f]
         /\ lapse' = IF sav'[path] = NoImage THEN "rename" ELSE lapse
    BY <1>11 DEF RenameFails
  <2>1. Types'
    <3>1. sav' \in [Games -> File] /\ tmp' \in [Games -> File]
      BY <1>0, <2>11, <2>12 DEF Types
    <3>2. lapse' \in {"none", "truncated", "rename", "sync", "misread"}
      BY <1>0, <2>12 DEF Types
    <3> QED
      BY <1>0, <2>11, <3>1, <3>2 DEF Types, Fail, fpga, link
  <2>2. Pcs'
    BY <1>0, <1>11 DEF Pcs, MainPc, SaverPc, RenameFails, Main, Saver, Fail, Caller
  <2>3. Holder'
    BY <1>0, <1>11 DEF Pcs, Holder, Dumping, RenameFails, Actors, Main, Saver, Fail, Caller
  <2>4. Cores'
    BY <1>0, <1>11 DEF Cores, Loading, RenameFails, Fail, Caller, fpga, file
  <2>5. Awaited'
    BY <1>0, <1>11 DEF Awaited, RenameFails, Fail, link
  <2>6. Card'
    <3> SUFFICES ASSUME Settled', lapse' = "none"
                 PROVE  /\ (\A q \in Actors : pc'[q] # "commit") => last' = Held(path)'
                        /\ \A q \in Actors : pc'[q] = "commit" => Held(path)' = rx'
      BY DEF Card
    <3>1. sav'[path] # NoImage /\ lapse = "none"
      BY <2>12
    <3>2. path \in Games /\ path' = path /\ rx' = rx /\ last' = last
      BY <1>0, <2>11 DEF Types, Settled, fpga, link
    <3>3. sav'[path] = sav[path]
      BY <1>0, <2>12, <3>1, <3>2 DEF Types
    <3>4. Held(path)' = Held(path)
      BY <3>1, <3>2, <3>3 DEF Held
    <3>5. \A q \in Actors : pc[q] # "commit" /\ pc'[q] # "commit"
      BY <1>0, <1>11, <2>11 DEF RenameFails, Holder, Dumping, Pcs, Fail, Caller
    <3>6. Settled
      <4>1. pc[p] = "write" /\ (p = Main \/ pc'[Main] = pc[Main])
        BY <1>0, <1>11, <2>11 DEF RenameFails, Pcs, Fail
      <4>2. pc[Main] \notin {"open", "load"}
        BY <4>1 DEF Settled
      <4> QED
        BY <2>11, <4>2 DEF Settled, fpga
    <3> QED
      BY <1>0, <3>1, <3>2, <3>4, <3>5, <3>6 DEF Card
  <2>7. Fresh'
    BY <1>0, <1>11 DEF Fresh, Announced, RenameFails, Fail
  <2> QED
    BY <2>1, <2>2, <2>3, <2>4, <2>5, <2>6, <2>7 DEF IInv
<1> QED
  BY <1>1, <1>2, <1>3, <1>4, <1>5, <1>6, <1>7, <1>8, <1>9, <1>10, <1>11 DEF FlushStep, FpgaStep, RxStep

(* pcesave_task outside a flush.                                           *)
LEMMA SaverPreserves ==
  ASSUME IInv, SaverWakes \/ SaverDebounces \/ SaverFlushes
  PROVE  IInv'
<1>0. Types /\ Pcs /\ Holder /\ Cores /\ Awaited /\ Card /\ Fresh
  BY DEF IInv
<1>1. CASE SaverWakes
  <2>1. Types'
    BY <1>0, <1>1 DEF Types, SaverWakes, fpga, link, file
  <2>2. Pcs'
    BY <1>0, <1>1 DEF Pcs, MainPc, SaverPc, Flushing, SaverWakes, Goto, Actors
  <2>3. Holder'
    BY <1>0, <1>1 DEF Holder, Dumping, SaverWakes, Goto
  <2>4. Cores'
    BY <1>0, <1>1 DEF Cores, Loading, SaverWakes, Goto, fpga, file
  <2>5. Awaited'
    BY <1>0, <1>1 DEF Awaited, SaverWakes, Goto, link
  <2>6. Card'
    BY <1>0, <1>1 DEF Card, Held, Settled, SaverWakes, Goto, fpga, link, file
  <2>7. Fresh'
    BY <1>0, <1>1 DEF Fresh, AtRest, RepliesFresh, DumpFresh, Settled, Announced,
       NoticeInFlight, Dumping, SaverWakes, Goto, fpga, link, file
  <2> QED
    BY <2>1, <2>2, <2>3, <2>4, <2>5, <2>6, <2>7 DEF IInv
<1>2. CASE SaverDebounces
  <2>1. Types'
    BY <1>0, <1>2 DEF Types, SaverDebounces, fpga, link, file
  <2>2. Pcs'
    BY <1>0, <1>2 DEF Pcs, SaverDebounces
  <2>3. Holder'
    BY <1>0, <1>2 DEF Holder, SaverDebounces
  <2>4. Cores'
    BY <1>0, <1>2 DEF Cores, SaverDebounces, fpga, file
  <2>5. Awaited'
    BY <1>0, <1>2 DEF Awaited, SaverDebounces, link
  <2>6. Card'
    BY <1>0, <1>2 DEF Card, Held, Settled, SaverDebounces, fpga, link, file
  <2>7. Fresh'
    BY <1>0, <1>2 DEF Fresh, AtRest, RepliesFresh, DumpFresh, Settled, Announced,
       NoticeInFlight, SaverDebounces, fpga, link, file
  <2> QED
    BY <2>1, <2>2, <2>3, <2>4, <2>5, <2>6, <2>7 DEF IInv
<1>3. CASE SaverFlushes
  <2>1. Types'
    BY <1>0, <1>3 DEF Types, SaverFlushes, fpga, link, file
  <2>2. Pcs'
    BY <1>0, <1>3 DEF Pcs, MainPc, SaverPc, Flushing, SaverFlushes, Goto, Actors
  <2>3. Holder'
    BY <1>0, <1>3 DEF Holder, Dumping, SaverFlushes, Goto
  <2>4. Cores'
    BY <1>0, <1>3 DEF Cores, Loading, SaverFlushes, Goto, fpga, file
  <2>5. Awaited'
    BY <1>0, <1>3 DEF Awaited, SaverFlushes, Goto, Actors, link
  <2>6. Card'
    BY <1>0, <1>3 DEF Card, Held, Settled, SaverFlushes, Goto, fpga, link, file
  <2>7. Fresh'
    BY <1>0, <1>3 DEF Fresh, AtRest, RepliesFresh, DumpFresh, Settled, Announced,
       NoticeInFlight, Dumping, SaverFlushes, Goto, fpga, link, file
  <2> QED
    BY <2>1, <2>2, <2>3, <2>4, <2>5, <2>6, <2>7 DEF IInv
<1> QED
  BY <1>1, <1>2, <1>3 DEF FlushStep, FpgaStep, RxStep

(* main_task outside a flush: the OSD, core selection and loadpce.         *)
LEMMA MainPreserves ==
  ASSUME IInv,
         \/ OpenOsd \/ CloseOsd
         \/ \E c \in {"pce", "other"} : PickCore(c)
         \/ \E g \in Games : PickGame(g)
         \/ CoreAnswers \/ SetGame \/ OpenFails \/ StartLoading \/ RestoreAndStart
  PROVE  IInv'
<1>0. Types /\ Pcs /\ Holder /\ Cores /\ Awaited /\ Card /\ Fresh
  BY DEF IInv
<1>1. CASE OpenOsd
  <2>1. Types'
    BY <1>0, <1>1 DEF Types, OpenOsd, fpga, link, file
  <2>2. Pcs'
    BY <1>0, <1>1 DEF Pcs, MainPc, SaverPc, Flushing, OpenOsd, Goto, Actors
  <2>3. Holder'
    BY <1>0, <1>1 DEF Holder, Dumping, OpenOsd, Goto
  <2>4. Cores'
    BY <1>0, <1>1 DEF Cores, Loading, OpenOsd, Goto, fpga
  <2>5. Awaited'
    BY <1>0, <1>1 DEF Awaited, OpenOsd, Goto, Actors, link
  <2>6. Card'
    BY <1>0, <1>1 DEF Card, Held, Settled, OpenOsd, Goto, fpga, link, file
  <2>7. Fresh'
    BY <1>0, <1>1 DEF Fresh, AtRest, RepliesFresh, DumpFresh, Settled, Announced,
       NoticeInFlight, Dumping, OpenOsd, Goto, fpga, link, file
  <2> QED
    BY <2>1, <2>2, <2>3, <2>4, <2>5, <2>6, <2>7 DEF IInv
<1>2. CASE CloseOsd
  <2>1. Types'
    BY <1>0, <1>2 DEF Types, CloseOsd, fpga, link, file
  <2>2. Pcs'
    BY <1>0, <1>2 DEF Pcs, MainPc, SaverPc, Flushing, CloseOsd, Goto, Actors
  <2>3. Holder'
    BY <1>0, <1>2 DEF Holder, Dumping, CloseOsd, Goto
  <2>4. Cores'
    BY <1>0, <1>2 DEF Cores, Loading, CloseOsd, Goto, fpga
  <2>5. Awaited'
    BY <1>0, <1>2 DEF Awaited, CloseOsd, Goto, Actors, link
  <2>6. Card'
    BY <1>0, <1>2 DEF Card, Held, Settled, CloseOsd, Goto, fpga, link, file
  <2>7. Fresh'
    BY <1>0, <1>2 DEF Fresh, AtRest, RepliesFresh, DumpFresh, Settled, Announced,
       NoticeInFlight, Dumping, CloseOsd, Goto, fpga, link, file
  <2> QED
    BY <2>1, <2>2, <2>3, <2>4, <2>5, <2>6, <2>7 DEF IInv
<1>3. ASSUME NEW c \in {"pce", "other"}, PickCore(c) PROVE IInv'
  <2>1. Types'
    BY <1>0, <1>3, Values DEF Types, PickCore, Program, link, file
  <2>2. Pcs'
    BY <1>0, <1>3 DEF Pcs, PickCore
  <2>3. Holder'
    BY <1>0, <1>3 DEF Holder, PickCore
  <2>4. Cores'
    BY <1>0, <1>3 DEF Cores, Loading, PickCore, Program
  <2>5. Awaited'
    BY <1>0, <1>3 DEF Awaited, PickCore, link
  <2>6. Card'
    BY <1>0, <1>3 DEF Card, Held, Settled, PickCore, Program
  <2>7. Fresh'
    BY <1>0, <1>3 DEF Fresh, Settled, PickCore, Program
  <2> QED
    BY <2>1, <2>2, <2>3, <2>4, <2>5, <2>6, <2>7 DEF IInv
<1>4. ASSUME NEW g \in Games, PickGame(g) PROVE IInv'
  <2>1. Types'
    <3>1. /\ bram' \in Ram /\ flag' \in BOOLEAN
          /\ core' \in {"pce", "other"} /\ run' \in Games \cup {NoGame}
      BY <1>0, <1>4, Values DEF Types, PickGame, Program
    <3> QED
      BY <1>0, <1>4, <3>1 DEF Types, PickGame, link, file
  <2>2. Pcs'
    BY <1>0, <1>4 DEF Pcs, MainPc, SaverPc, Flushing, PickGame, Goto, Actors
  <2>3. Holder'
    BY <1>0, <1>4 DEF Holder, Dumping, PickGame, Goto
  <2>4. Cores'
    BY <1>0, <1>4 DEF Cores, PickGame, Goto, Program
  <2>5. Awaited'
    BY <1>0, <1>4 DEF Awaited, PickGame, Goto, link
  <2>6. Card'
    BY <1>0, <1>4 DEF Card, Held, Settled, PickGame, Goto, Program, link, file
  <2>7. Fresh'
    BY <1>0, <1>4 DEF Fresh, AtRest, RepliesFresh, DumpFresh, Settled, Announced,
       NoticeInFlight, Dumping, PickGame, Goto, Program, link, file
  <2> QED
    BY <2>1, <2>2, <2>3, <2>4, <2>5, <2>6, <2>7 DEF IInv
<1>5. CASE CoreAnswers
  <2>1. Types'
    BY <1>0, <1>5 DEF Types, CoreAnswers, fpga, link, file
  <2>2. Pcs'
    BY <1>0, <1>5 DEF Pcs, MainPc, SaverPc, Flushing, CoreAnswers, Goto, Actors
  <2>3. Holder'
    BY <1>0, <1>5 DEF Holder, Dumping, CoreAnswers, Goto
  <2>4. Cores'
    BY <1>0, <1>5 DEF Cores, Loading, CoreAnswers, Goto, fpga
  <2>5. Awaited'
    BY <1>0, <1>5 DEF Awaited, CoreAnswers, Goto, link
  <2>6. Card'
    BY <1>0, <1>5 DEF Card, Held, Settled, CoreAnswers, Goto, fpga, link, file
  <2>7. Fresh'
    BY <1>0, <1>5 DEF Fresh, AtRest, RepliesFresh, DumpFresh, Settled, Announced,
       NoticeInFlight, Dumping, CoreAnswers, Goto, fpga, link, file
  <2> QED
    BY <2>1, <2>2, <2>3, <2>4, <2>5, <2>6, <2>7 DEF IInv
<1>6. CASE SetGame
  <2>1. Types'
    BY <1>0, <1>6 DEF Types, SetGame, fpga, link
  <2>2. Pcs'
    BY <1>0, <1>6 DEF Pcs, MainPc, SaverPc, Flushing, SetGame, Goto, Actors
  <2>3. Holder'
    BY <1>0, <1>6 DEF Holder, Dumping, SetGame, Goto
  <2>4. Cores'
    BY <1>0, <1>6 DEF Cores, Loading, SetGame, Goto, fpga
  <2>5. Awaited'
    BY <1>0, <1>6 DEF Awaited, SetGame, Goto, link
  <2>6. Card'
    BY <1>0, <1>6 DEF Card, Held, Settled, Pcs, SetGame, Goto, Actors
  <2>7. Fresh'
    BY <1>0, <1>6 DEF Fresh, Settled, Pcs, SetGame, Goto, Actors
  <2> QED
    BY <2>1, <2>2, <2>3, <2>4, <2>5, <2>6, <2>7 DEF IInv
<1>7. CASE OpenFails
  <2>1. Types'
    BY <1>0, <1>7 DEF Types, OpenFails, fpga, link, file
  <2>2. Pcs'
    BY <1>0, <1>7 DEF Pcs, MainPc, SaverPc, Flushing, OpenFails, Goto, Actors
  <2>3. Holder'
    BY <1>0, <1>7 DEF Holder, Dumping, OpenFails, Goto
  <2>4. Cores'
    BY <1>0, <1>7 DEF Cores, Loading, OpenFails, Goto, fpga, file
  <2>5. Awaited'
    BY <1>0, <1>7 DEF Awaited, OpenFails, Goto, link
  <2>6. Card'
    BY <1>0, <1>7 DEF Card, Held, Settled, OpenFails
  <2>7. Fresh'
    BY <1>0, <1>7 DEF Fresh, Settled, OpenFails
  <2> QED
    BY <2>1, <2>2, <2>3, <2>4, <2>5, <2>6, <2>7 DEF IInv
<1>8. CASE StartLoading
  <2>1. Types'
    BY <1>0, <1>8 DEF Types, StartLoading, link, file
  <2>2. Pcs'
    BY <1>0, <1>8 DEF Pcs, MainPc, SaverPc, Flushing, StartLoading, Goto, Actors
  <2>3. Holder'
    BY <1>0, <1>8 DEF Holder, Dumping, StartLoading, Goto
  <2>4. Cores'
    BY <1>0, <1>8 DEF Cores, Loading, StartLoading, Goto, file
  <2>5. Awaited'
    BY <1>0, <1>8 DEF Awaited, StartLoading, Goto, Actors, link
  <2>6. Card'
    BY <1>0, <1>8 DEF Card, Held, Settled, StartLoading
  <2>7. Fresh'
    BY <1>0, <1>8 DEF Fresh, Settled, StartLoading
  <2> QED
    BY <2>1, <2>2, <2>3, <2>4, <2>5, <2>6, <2>7 DEF IInv
<1>9. CASE RestoreAndStart
  <2>1. path \in Games /\ sel = path /\ last' \in Ram /\ ~flag
    BY <1>0, <1>9, Values DEF Types, File, Held, Restorable, Cores, RestoreAndStart, Goto, Loading
  <2>2. Types'
    BY <1>0, <1>9, <2>1 DEF Types, RestoreAndStart, link
  <2>3. Pcs'
    BY <1>0, <1>9 DEF Pcs, MainPc, SaverPc, Flushing, RestoreAndStart, Goto, Actors
  <2>4. Holder'
    BY <1>0, <1>9 DEF Holder, Dumping, RestoreAndStart, Goto
  <2>5. Cores'
    BY <1>0, <1>9 DEF Pcs, Cores, Loading, RestoreAndStart, Goto, Actors
  <2>6. Awaited'
    BY <1>0, <1>9 DEF Awaited, RestoreAndStart, Goto, link
  <2>7. Card'
    BY <1>0, <1>9 DEF Card, Held, Holder, Dumping, RestoreAndStart, Goto, Actors, Saver
  <2>8. Fresh'
    <3> SUFFICES ASSUME Settled', ~Announced'
                 PROVE  /\ AtRest' /\ RepliesFresh'
                        /\ \A p \in Actors : pc'[p] \in Dumping => DumpFresh(p)'
      BY DEF Fresh
    <3>1. \A q \in Actors : pc[q] \notin Dumping /\ pc'[q] \notin Dumping
      BY <1>0, <1>9 DEF RestoreAndStart, Goto, Holder, Dumping, Actors, Saver
    <3>2. \A i \in 1..Len(up) : ~IsReply(up[i])
      BY <1>0, <3>1 DEF Awaited, Dumping
    <3> QED
      BY <1>9, <2>1, <3>1, <3>2 DEF RestoreAndStart, AtRest, RepliesFresh, link
  <2> QED
    BY <2>2, <2>3, <2>4, <2>5, <2>6, <2>7, <2>8 DEF IInv
<1> QED
  BY <1>1, <1>2, <1>3, <1>4, <1>5, <1>6, <1>7, <1>8, <1>9 DEF FlushStep, FpgaStep, RxStep

-----------------------------------------------------------------------------
(* At power-on no game runs, so nothing is owed to the card.               *)
LEMMA InitIInv == Init => IInv
<1> SUFFICES ASSUME Init PROVE IInv
  OBVIOUS
<1>1. Types
  <2>1. up \in Seq(Frame)
    BY DEF Init
  <2>2. /\ bram \in Ram /\ last \in Ram /\ rx \in Ram
        /\ sav \in [Games -> File] /\ tmp \in [Games -> File] /\ blk \in [Actors -> Block]
    BY Values DEF Init, File
  <2>3. rxBlk \in 0..Blocks /\ wr \in 0..MaxWrites
    BY PceSaveAssumption DEF Init, NoBlock
  <2> QED
    BY <2>1, <2>2, <2>3 DEF Init, Types
<1>2. Pcs /\ Holder /\ Cores
  BY DEF Init, Pcs, MainPc, SaverPc, Holder, Dumping, Cores, Loading, Actors, Main, Saver
<1>3. Awaited /\ Card /\ Fresh
  BY DEF Init, Awaited, Card, Fresh, Settled
<1> QED
  BY <1>1, <1>2, <1>3 DEF IInv

(* The invariant holds of every behaviour.                                 *)
LEMMA InvariantHolds == Spec => []IInv
<1>1. IInv /\ [Next]_vars => IInv'
  <2> SUFFICES ASSUME IInv, [Next]_vars PROVE IInv'
    OBVIOUS
  <2>1. CASE UNCHANGED vars
    BY <2>1 DEF vars, fpga, link, file, IInv, Types, Pcs, Holder, Cores, Awaited, IsReply, Card,
       Held, Fresh, AtRest, RepliesFresh, DumpFresh, Settled, Announced, NoticeInFlight
  <2>2. CASE FpgaStep \/ RxStep
    BY <2>2, LinkPreserves
  <2>3. CASE SaverStep
    BY <2>3, SaverPreserves, FlushPreserves DEF SaverStep, Actors
  <2>4. CASE MainStep
    BY <2>4, MainPreserves, FlushPreserves DEF MainStep, Actors
  <2> QED
    BY <2>1, <2>2, <2>3, <2>4 DEF Next
<1> QED
  BY <1>1, InitIInv, PTL DEF Spec

(* Every variable keeps its type, and each task stays where its code is.   *)
THEOREM TypeCorrect == Spec => []TypeOK
<1>1. IInv => TypeOK
  BY DEF IInv, Types, Pcs, MainPc, SaverPc, TypeOK, Frame
<1> QED
  BY <1>1, InvariantHolds, PTL

(* Between two flushes a write of the game that the card lacks is          *)
(* announced: sv_dirty is set (pcesave.cpp:73) or the notice is under way, *)
(* whatever answers were lost and whatever writes failed, also when the    *)
(* game wrote in the middle of a dump.                                     *)
THEOREM StaleIsPending == Spec => []PendingWhenStale
<1>1. IInv => PendingWhenStale
  BY DEF IInv, Fresh, AtRest, Announced, PendingWhenStale
<1> QED
  BY <1>1, InvariantHolds, PTL

(* Between two flushes sv_last is what a restore would read, so that the   *)
(* comparison of pcesave.cpp:177 skips no write the card lacks; except     *)
(* after a write that failed once it had truncated or unlinked the copy on *)
(* the card, an f_sync that failed unseen, or a restore that could not     *)
(* read (pcesave.cpp:111-119, 158-160), until the next save or restore.    *)
THEOREM LastIsTheFile == Spec => []LastIsOnCard
<1>1. IInv => LastIsOnCard
  BY DEF IInv, Holder, Dumping, Card, LastIsOnCard, Actors, Main, Saver
<1> QED
  BY <1>1, InvariantHolds, PTL

(* The block that woke sv_dump is the one it asked for last.               *)
AnswerIsForTheQuestion ==
  \A p \in Actors : pc[p] = "await" /\ blkSem => rxBlk = blk[p]

(* The comparison of pcesave.cpp:100 never rejects a block: sv_dump drains *)
(* sv_blk_sem before it asks, and no answer is later than its timeout.     *)
THEOREM AnswersMatch == Spec => []AnswerIsForTheQuestion
<1>1. IInv => AnswerIsForTheQuestion
  BY DEF IInv, Awaited, Holder, Dumping, AnswerIsForTheQuestion
<1> QED
  BY <1>1, InvariantHolds, PTL
=============================================================================
