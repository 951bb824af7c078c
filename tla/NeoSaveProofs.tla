--------------------------- MODULE NeoSaveProofs ---------------------------
(***************************************************************************)
(* Proofs about the Neo Geo saver (NeoSave).  IInv relates three copies of *)
(* each block: the one the core holds (bram), the one that was last saved  *)
(* (sum, which is ns_sum and so what the .sav holds), and the one on its   *)
(* way between them (a frame on the link, rx, the .tmp).  While a game     *)
(* plays with its save claimed, every copy is the RAM's or an older write, *)
(* and never older than the save (Order); when no notice is due they are   *)
(* all the RAM's (Fresh); and what the player's OSD waits for is in the    *)
(* save or in the flush under way (Opened).  Differs and Mend say that a   *)
(* flush writes only what changed and that one that failed between its two *)
(* renames is repaired by the next.  The lemmas take the actions by what   *)
(* they touch; NextIInv puts them together.                                *)
(***************************************************************************)
EXTENDS NeoSave, TLAPS, SequenceTheorems

(* Where the holder of ns_mutex is: in neosave_flush_now, or restoring.    *)
Comparing == {"compare", "compared"}
Copying == {"copy", "copied", "rename"}
Dumping == Comparing \cup {"create"} \cup Copying
Stage == IF mutex = "free" THEN "none" ELSE pc[mutex]

MainPc == Flushing \cup {"play", "osd", "choose", "query", "stream", "restore", "start", "off"}
SaverPc == Flushing \cup {"wait", "quiet"}
Frame == [blk : 0..Blocks, data : Value]
IsReply(f) == f.blk \in Block
Pending == dirty \/ NoticeInFlight

(* v was received, or is on its way.                                       *)
Answered(v) ==
  \/ \E i \in 1..Len(up) : IsReply(up[i]) /\ up[i].data = v
  \/ blkSem /\ rx = v

(* TypeOK, in the form the proofs use.                                     *)
Bools ==
  /\ flag \in BOOLEAN /\ blkSem \in BOOLEAN /\ on \in BOOLEAN /\ dirty \in BOOLEAN
  /\ notify \in BOOLEAN /\ changed \in BOOLEAN /\ wiped \in BOOLEAN /\ failed \in BOOLEAN
Types ==
  /\ Bools
  /\ core \in {"neo", "other"} /\ run \in Games \cup {NoGame, Mixed}
  /\ bram \in Ram /\ wr \in 0..MaxWrites /\ up \in Seq(Frame)
  /\ rx \in Value /\ rxBlk \in 0..Blocks
  /\ path \in Games \cup {NoGame} /\ sum \in Ram
  /\ mutex \in Actors \cup {"free"}
  /\ sav \in [Games -> File] /\ tmp \in [Games -> File]
  /\ lapse \in Lapses /\ strayed \subseteq Games
  /\ blk \in Block /\ sel \in Games \cup {NoGame} /\ menu \in {"osd", "choose"}
  /\ faults \in 0..MaxFaults /\ seen \in 0..MaxWrites

Pcs ==
  /\ pc \in [Actors -> MainPc \cup SaverPc]
  /\ pc[Main] \in MainPc /\ pc[Saver] \in SaverPc
  /\ \A p \in Actors : mutex = p <=> pc[p] \in Dumping \cup {"restore"}

(* What main_task has done when it is where it is.                         *)
Cores ==
  /\ run # NoGame \/ pc[Main] \in {"query", "stream", "restore", "start"} => core = "neo"
  /\ pc[Main] \in {"query", "stream", "restore", "start"} => sel \in Games
  /\ pc[Main] \in {"stream", "restore", "start"} => run = NoGame /\ ~flag
  /\ pc[Main] \in {"restore", "start"} => path = sel /\ on
  /\ pc[Main] = "start" => ~wiped
  /\ pc[Main] = "off" => wiped /\ menu = "osd"
  /\ pc[Main] = "osd" => menu = "osd"
  /\ on \/ (\E p \in Actors : pc[p] \in Flushing) => path \in Games
  /\ ~wiped /\ path \in Games => on
  /\ ~wiped /\ on /\ pc[Main] # "restore" => core = "neo"
  /\ path \in Games \ strayed => run \in {path, NoGame, Mixed}

(* The link carries at most one block, which is the one that is awaited.   *)
Awaited ==
  /\ \A i \in 1..Len(up) :
       IsReply(up[i]) => ~blkSem /\ up[i].blk = blk /\ Stage \in {"compared", "copied"}
  /\ \A i, j \in 1..Len(up) : IsReply(up[i]) /\ IsReply(up[j]) => i = j
  /\ blkSem => rxBlk = blk /\ Stage \in {"compared", "copied"}

(* The .tmp has the blocks copied so far.                                  *)
Written ==
  /\ Stage = "create" => blk = 0
  /\ Stage \in {"copy", "copied"} => Len(tmp[path]) = blk
  /\ Stage = "rename" => Len(tmp[path]) = Blocks

(* Writes are numbered.                                                    *)
Numbered ==
  /\ \A b \in Block : bram[b].n <= wr /\ sum[b].n <= wr
  /\ \A g \in Games :
       /\ \A i \in 1..Len(sav[g]) : sav[g][i].n <= wr
       /\ \A i \in 1..Len(tmp[g]) : tmp[g][i].n <= wr
  /\ \A v \in Value : Answered(v) => v.n <= wr
  /\ seen <= wr

(* What another game wrote is nowhere but in the RAM, until the restore,   *)
(* unless a load that failed half-way let it.                              *)
Owned ==
  /\ \A g \in Games \ strayed :
       /\ \A i \in 1..Len(sav[g]) : sav[g][i].g \in {g, NoGame, Mixed}
       /\ \A i \in 1..Len(tmp[g]) : tmp[g][i].g \in {g, NoGame, Mixed}
  /\ path \in Games \ strayed =>
       /\ Stage # "restore" => \A b \in Block : bram[b].g \in {path, NoGame, Mixed}
       /\ \A v \in Value : Answered(v) => v.g \in {path, NoGame, Mixed}

(* ns_sum is of the .sav, or of the .tmp that stands in for it until a     *)
(* flush empties it.  Not after an unseen card error; but f_sync loses a   *)
(* block whole, so the .sav is never newer than ns_sum.                    *)
Trusted == lapse \notin {"sync", "misread"}
SumKept ==
  path \in Games /\ Stage # "restore" =>
    /\ sav[path] # NoFile /\ Trusted => sum = Contents(sav[path])
    /\ sav[path] # NoFile /\ lapse # "misread" =>
         \A b \in Block : Contents(sav[path])[b].n <= sum[b].n
    /\ sav[path] = NoFile /\ Stage \in Copying => lapse = "lone"
    /\ sav[path] = NoFile /\ lapse = "none" => sum = Contents(tmp[path])

(* The RAM is the one that the save was restored into.                     *)
Active == on /\ ~wiped /\ Stage # "restore"

(* What was compared or copied is what the RAM holds or held, and not      *)
(* older than the save.                                                    *)
Between(v, b) == (v = bram[b] \/ v.n < bram[b].n) /\ sum[b].n <= v.n
Order ==
  Active =>
    /\ \A b \in Block : sum[b] = bram[b] \/ sum[b].n < bram[b].n
    /\ \A v \in Value : Answered(v) => Between(v, blk)
    /\ Stage \in Copying => \A i \in 1..Len(tmp[path]) : Between(tmp[path][i], i - 1)

(* The flush under way has what the RAM holds of the blocks S.             *)
Has(S) ==
  /\ blk \in S => \A v \in Value : Answered(v) => v = bram[blk]
  /\ Stage \in Comparing /\ ~changed => \A b \in S : b < blk => sum[b] = bram[b]
  /\ Stage = "create" /\ ~changed => \A b \in S : sum[b] = bram[b]
  /\ Stage \in Copying => \A i \in 1..Len(tmp[path]) : i - 1 \in S => tmp[path][i] = bram[i - 1]

(* What was not announced was not written: the FPGA would announce the     *)
(* next write, and what the card or the flush has is what the RAM holds.   *)
Fresh ==
  Active /\ ~Pending =>
    /\ flag => Stage = "compare" /\ blk = 0
    /\ Stage = "none" => bram = sum
    /\ Has(Block)

(* A block is written because it changed.                                  *)
Differs ==
  Active /\ (Stage \in Copying \/ (Stage \in Dumping /\ changed)) =>
    \E b \in Block : bram[b] # sum[b]

(* When a flush failed and left no .sav and another .tmp, the next will    *)
(* find a block to write.                                                  *)
Spoiled == Trusted /\ sav[path] = NoFile /\ Contents(tmp[path]) # sum
Mend ==
  Active /\ Spoiled =>
    /\ Stage = "none" => dirty
    /\ Stage = "create" => changed
    /\ \E b \in Block :
         /\ bram[b] # sum[b]
         /\ Stage \in Comparing /\ ~changed =>
              b > blk \/ (b = blk /\ \A v \in Value : Answered(v) => v # sum[b])

(* What had been announced when the OSD opened is saved or will be by the  *)
(* flush under way.                                                        *)
Old == {b \in Block : bram[b].n <= seen}
SumHas(S) == \A b \in S : sum[b] = bram[b]
Menus == {"osd", "choose", "query", "stream"}
Opened ==
  Active /\ ~failed =>
    /\ pc[Main] \in Menus \cup Dumping => Has(Old)
    /\ Stage = "none" /\ pc[Main] \in Menus => SumHas(Old) /\ ~Spoiled
    /\ pc[Main] \in Menus \ {"osd"} /\ menu = "osd" => SumHas(Old)

IInv == /\ Types /\ Pcs /\ Cores /\ Awaited /\ Written /\ Numbered
        /\ Owned /\ SumKept /\ Order /\ Fresh /\ Differs /\ Mend /\ Opened

(* The first frame was taken from the link; f was put on it.               *)
Dequeued ==
  /\ up' \in Seq(Frame) /\ Len(up') \in Nat /\ Len(up) = Len(up') + 1
  /\ Head(up) = up[1] /\ Head(up) \in Frame
  /\ \A i \in 1..Len(up') : i + 1 \in 1..Len(up) /\ up'[i] = up[i + 1]
  /\ \A i \in 1..Len(up) : i = 1 \/ (i - 1 \in 1..Len(up') /\ up'[i - 1] = up[i])
Enqueued(f) ==
  /\ up' \in Seq(Frame) /\ Len(up) \in Nat /\ Len(up') = Len(up) + 1
  /\ up'[Len(up) + 1] = f
  /\ \A i \in 1..Len(up) : i \in 1..Len(up') /\ up'[i] = up[i]
  /\ \A i \in 1..Len(up') : i = Len(up) + 1 \/ i \in 1..Len(up)

(* What taking the first frame leaves.                                     *)
LEMMA Dequeue == ASSUME Types, up # <<>>, up' = Tail(up) PROVE Dequeued
<1>1. up \in Seq(Frame)
  BY DEF Types
<1>2. up' \in Seq(Frame) /\ Len(up') = Len(up) - 1 /\ Len(up) \in Nat /\ Len(up') \in Nat
  BY <1>1
<1>3. Head(up) = up[1] /\ Head(up) \in Frame
  BY <1>1
<1>4. \A i \in 1..Len(up') : up'[i] = up[i + 1]
  BY <1>1
<1> QED
  BY <1>2, <1>3, <1>4 DEF Dequeued

(* What sending a frame adds.                                              *)
LEMMA Enqueue == ASSUME Types, NEW f \in Frame, up' = Append(up, f) PROVE Enqueued(f)
<1>1. up \in Seq(Frame)
  BY DEF Types
<1>2. up' \in Seq(Frame) /\ Len(up') = Len(up) + 1 /\ Len(up) \in Nat
  BY <1>1
<1>3. up'[Len(up) + 1] = f /\ \A i \in 1..Len(up) : up'[i] = up[i]
  BY <1>1
<1> QED
  BY <1>2, <1>3 DEF Enqueued

(* Writes, blocks and the RAM have the types that the proofs compare.      *)
LEMMA Values ==
  /\ BlankRam \in Ram /\ Blank \in Value /\ Blank.n = 0 /\ Blank.g = NoGame
  /\ \A b \in Block : BlankRam[b] = Blank
  /\ DirtyNotice \in Frame /\ DirtyNotice.blk \notin Block
  /\ \A b \in Block, v \in Value :
       Reply(b, v) \in Frame /\ Reply(b, v).blk = b /\ Reply(b, v).data = v
  /\ 0 \in Block /\ Block \subseteq Nat
  /\ \A v \in Value : v.n \in Nat /\ v.n <= MaxWrites
  /\ \A r \in Ram, b \in Block : r[b] \in Value
  /\ \A r \in Ram, b \in Block, v \in Value : [r EXCEPT ![b] = v] \in Ram
<1> USE NeoSaveAssumption DEF NeoSaveAssumption
<1>1. Blank \in Value /\ Blank.n = 0 /\ Blank.g = NoGame
  BY DEF Blank, Value
<1>2. BlankRam \in Ram /\ \A b \in Block : BlankRam[b] = Blank
  BY <1>1 DEF BlankRam, Ram
<1>3. DirtyNotice \in Frame /\ DirtyNotice.blk \notin Block
  BY <1>1 DEF DirtyNotice, Frame, NoBlock, Block
<1>4. \A b \in Block, v \in Value :
        Reply(b, v) \in Frame /\ Reply(b, v).blk = b /\ Reply(b, v).data = v
  BY DEF Reply, Frame, Block
<1>5. 0 \in Block /\ Block \subseteq Nat
  BY DEF Block
<1>6. \A v \in Value : v.n \in Nat /\ v.n <= MaxWrites
  BY DEF Value
<1>7. \A r \in Ram, b \in Block : r[b] \in Value
  BY DEF Ram
<1>8. \A r \in Ram, b \in Block, v \in Value : [r EXCEPT ![b] = v] \in Ram
  BY DEF Ram
<1> QED
  BY <1>1, <1>2, <1>3, <1>4, <1>5, <1>6, <1>7, <1>8

(* A file is a sequence of at most Blocks values.                          *)
LEMMA FileIsSeq ==
  /\ \A f \in File : f \in Seq(Value) /\ Len(f) \in 0..Blocks
  /\ \A f \in Seq(Value) : Len(f) <= Blocks => f \in File
<1>1. ASSUME NEW f \in File PROVE f \in Seq(Value) /\ Len(f) \in 0..Blocks
  <2>1. PICK n \in 0..Blocks : f \in [1..n -> Value]
    BY DEF File
  <2>2. f \in Seq(Value) /\ Len(f) = n
    BY <2>1
  <2> QED
    BY <2>2
<1>2. ASSUME NEW f \in Seq(Value), Len(f) <= Blocks PROVE f \in File
  <2>1. Len(f) \in Nat /\ f \in [1..Len(f) -> Value]
    BY LenProperties
  <2>2. Len(f) \in 0..Blocks
    BY <1>2, <2>1
  <2> QED
    BY <2>1, <2>2 DEF File
<1> QED
  BY <1>1, <1>2

(* What a file on the card may hold, and what the restore takes from it.   *)
LEMMA Files ==
  /\ NoFile \in File /\ Len(NoFile) = 0
  /\ \A f \in File : /\ Len(f) \in Nat /\ Len(f) <= Blocks
                     /\ f = NoFile <=> Len(f) = 0
                     /\ \A i \in 1..Len(f) : f[i] \in Value /\ i - 1 \in Block
                     /\ Contents(f) \in Ram
                     /\ \A b \in Block :
                          Contents(f)[b] = IF b < Len(f) THEN f[b + 1] ELSE Blank
  /\ \A f \in File, v \in Value : Len(f) < Blocks =>
       /\ Append(f, v) \in File /\ Len(Append(f, v)) = Len(f) + 1
       /\ Append(f, v)[Len(f) + 1] = v
       /\ \A i \in 1..Len(f) : Append(f, v)[i] = f[i]
<1>1. NoFile \in File /\ Len(NoFile) = 0
  <2>1. NoFile \in Seq(Value) /\ Len(NoFile) = 0
    BY EmptySeq DEF NoFile
  <2>2. Len(NoFile) <= Blocks
    BY <2>1, NeoSaveAssumption
  <2> QED
    BY <2>1, <2>2, FileIsSeq
<1>2. ASSUME NEW f \in File
      PROVE  /\ Len(f) \in Nat /\ Len(f) <= Blocks
             /\ f = NoFile <=> Len(f) = 0
             /\ \A i \in 1..Len(f) : f[i] \in Value /\ i - 1 \in Block
  <2>1. f \in Seq(Value) /\ Len(f) \in Nat /\ Len(f) <= Blocks
    BY FileIsSeq
  <2>2. f = NoFile <=> Len(f) = 0
    BY <2>1, EmptySeq DEF NoFile
  <2>3. \A i \in 1..Len(f) : f[i] \in Value /\ i - 1 \in Block
    BY <2>1, NeoSaveAssumption DEF Block
  <2> QED
    BY <2>1, <2>2, <2>3
<1>3. ASSUME NEW f \in File
      PROVE  /\ Contents(f) \in Ram
             /\ \A b \in Block : Contents(f)[b] = IF b < Len(f) THEN f[b + 1] ELSE Blank
  <2>1. \A b \in Block : b < Len(f) => b + 1 \in 1..Len(f)
    BY <1>2 DEF Block
  <2>2. \A b \in Block : (IF b < Len(f) THEN f[b + 1] ELSE Blank) \in Value
    BY <1>2, <2>1, Values
  <2> QED
    BY <2>2 DEF Contents, Ram
<1>4. ASSUME NEW f \in File, NEW v \in Value, Len(f) < Blocks
      PROVE  /\ Append(f, v) \in File /\ Len(Append(f, v)) = Len(f) + 1
             /\ Append(f, v)[Len(f) + 1] = v
             /\ \A i \in 1..Len(f) : Append(f, v)[i] = f[i]
  <2>1. f \in Seq(Value) /\ Len(f) \in Nat
    BY FileIsSeq
  <2>2. /\ Append(f, v) \in Seq(Value) /\ Len(Append(f, v)) = Len(f) + 1
        /\ Append(f, v)[Len(f) + 1] = v
        /\ \A i \in 1..Len(f) : Append(f, v)[i] = f[i]
    BY <2>1
  <2>3. Len(Append(f, v)) <= Blocks
    BY <1>4, <2>1, <2>2, NeoSaveAssumption
  <2> QED
    BY <2>2, <2>3, FileIsSeq
<1> QED
  BY <1>1, <1>2, <1>3, <1>4

(* What f_sync loses is replaced by zeros.                                 *)
LEMMA CutFiles ==
  \A f \in File : \A c \in Cuts(f) :
    /\ c \in File /\ Len(c) = Len(f)
    /\ \A i \in 1..Len(f) : c[i] = f[i] \/ c[i] = Blank
<1> SUFFICES ASSUME NEW f \in File, NEW c \in Cuts(f)
             PROVE  /\ c \in File /\ Len(c) = Len(f)
                    /\ \A i \in 1..Len(f) : c[i] = f[i] \/ c[i] = Blank
  OBVIOUS
<1>1. PICK n \in 0..Len(f) : c = [i \in 1..Len(f) |-> IF i <= n THEN f[i] ELSE Blank]
  BY DEF Cuts
<1>2. Len(f) \in Nat /\ Len(f) <= Blocks /\ \A i \in 1..Len(f) : f[i] \in Value
  BY Files
<1>3. c \in [1..Len(f) -> Value] /\ \A i \in 1..Len(f) : c[i] = f[i] \/ c[i] = Blank
  BY <1>1, <1>2, Values
<1>4. c \in Seq(Value) /\ Len(c) = Len(f)
  BY <1>2, <1>3
<1> QED
  BY <1>2, <1>3, <1>4, FileIsSeq

(* A notice stays in flight unless it is the frame that is taken.          *)
LEMMA NoticeStays ==
  ASSUME Dequeued, Head(up) # DirtyNotice
  PROVE  NoticeInFlight' <=> NoticeInFlight
<1>1. ASSUME NoticeInFlight PROVE NoticeInFlight'
  <2>1. PICK i \in 1..Len(up) : up[i] = DirtyNotice
    BY <1>1 DEF NoticeInFlight
  <2>2. i - 1 \in 1..Len(up') /\ up'[i - 1] = DirtyNotice
    BY <2>1 DEF Dequeued
  <2> QED
    BY <2>2 DEF NoticeInFlight
<1>2. ASSUME NoticeInFlight' PROVE NoticeInFlight
  <2>1. PICK i \in 1..Len(up') : up'[i] = DirtyNotice
    BY <1>2 DEF NoticeInFlight
  <2>2. i + 1 \in 1..Len(up) /\ up[i + 1] = DirtyNotice
    BY <2>1 DEF Dequeued
  <2> QED
    BY <2>2 DEF NoticeInFlight
<1> QED
  BY <1>1, <1>2

(* Who holds ns_mutex, and where it is.                                    *)
LEMMA Stages ==
  ASSUME Types, Pcs
  PROVE  /\ Stage \in Dumping \cup {"restore", "none"}
         /\ \A p \in Actors : pc[p] \in Dumping \cup {"restore"} => mutex = p /\ Stage = pc[p]
         /\ mutex = "free" <=> Stage = "none"
         /\ Stage = "restore" <=> pc[Main] = "restore"
         /\ Stage = "none" => \A p \in Actors : pc[p] \notin Dumping \cup {"restore"}
         /\ \A p \in Actors : mutex = p => Stage = pc[p]
BY DEF Types, Pcs, Stage, Dumping, Comparing, Copying, Actors, Main, Saver, SaverPc, Flushing

(* Steps that keep the RAM, the files and the flush keep what IInv says    *)
(* of them.                                                                *)
LEMMA Aside ==
  ASSUME IInv, UNCHANGED <<bram, wr, game, sav, tmp, lapse, flush, wiped>>, Stage' = Stage,
         strayed \subseteq strayed', flag' => flag, dirty => dirty', Active /\ Pending => Pending',
         \A v \in Value : Answered(v)' => Answered(v)
  PROVE  /\ Written' /\ Owned' /\ SumKept' /\ Order' /\ Fresh' /\ Differs' /\ Mend'
         /\ seen' <= wr => Numbered'
<1> USE DEF game, flush
<1>0. Types /\ Written /\ Numbered /\ Owned /\ SumKept /\ Order /\ Fresh /\ Differs /\ Mend
  BY DEF IInv
<1>1. Written'
  BY <1>0 DEF Written
<1>2. Owned'
  BY <1>0 DEF Owned
<1>3. SumKept'
  BY <1>0 DEF SumKept, Trusted
<1>a. Active' <=> Active
  BY DEF Active
<1>4. Order'
  BY <1>0, <1>a DEF Order, Between
<1>5. Fresh'
  BY <1>0, <1>a DEF Fresh, Has
<1>6. Differs'
  BY <1>0, <1>a DEF Differs
<1>7. Mend'
  BY <1>0, <1>a DEF Mend, Spoiled, Trusted
<1>8. seen' <= wr => Numbered'
  BY <1>0 DEF Numbered
<1> QED
  BY <1>1, <1>2, <1>3, <1>4, <1>5, <1>6, <1>7, <1>8

(* The menus and the flush are where they were, for what Opened says.      *)
LEMMA StillOpened ==
  ASSUME IInv, UNCHANGED <<bram, wr, game, sav, tmp, lapse, flush, wiped, failed, seen>>,
         Stage' = Stage,
         \A v \in Value : Answered(v)' => Answered(v),
         pc'[Main] \in Menus \cup Dumping => pc[Main] \in Menus \cup Dumping,
         pc'[Main] \in Menus => pc[Main] \in Menus,
         pc'[Main] \in Menus \ {"osd"} /\ menu' = "osd" =>
           pc[Main] \in Menus \ {"osd"} /\ menu = "osd"
  PROVE  Opened'
<1> USE DEF game, flush
<1>1. Active' <=> Active
  BY DEF Active
<1>2. Old' = Old /\ ((SumHas(Old))' <=> SumHas(Old))
  BY DEF Old, SumHas
<1>3. ASSUME Has(Old) PROVE Has(Old)'
  <2>1. blk \in Old => \A v \in Value : Answered(v)' => v = bram[blk]
    BY <1>3 DEF Has
  <2>2. UNCHANGED <<bram, sum, tmp, path, blk, changed, Stage, Old>>
    BY <1>2
  <2> QED
    BY <1>3, <2>1, <2>2 DEF Has
<1>4. Spoiled' <=> Spoiled
  BY DEF Spoiled, Trusted
<1> QED
  BY <1>1, <1>2, <1>3, <1>4 DEF Opened, IInv

(* Steps that touch neither the flush nor what it works on.                *)
LEMMA AsidePreserves ==
  ASSUME IInv,
         SaverWakes \/ SaverDebounces \/ SaverFlushes \/ CloseOsd \/ ChooseNothing \/ OpenFails
           \/ StartLoading \/ StreamFails \/ StartCore \/ \E p \in Actors : FlushLockTimesOut(p)
  PROVE  IInv'
<1>Types. Types
  BY DEF IInv
<1>Pcs. Pcs
  BY DEF IInv
<1>Cores. Cores
  BY DEF IInv
<1>Awaited. Awaited
  BY DEF IInv
<1>Written. Written
  BY DEF IInv
<1>Numbered. Numbered
  BY DEF IInv
<1>Owned. Owned
  BY DEF IInv
<1>SumKept. SumKept
  BY DEF IInv
<1>Order. Order
  BY DEF IInv
<1>Fresh. Fresh
  BY DEF IInv
<1>Differs. Differs
  BY DEF IInv
<1>Mend. Mend
  BY DEF IInv
<1>Opened. Opened
  BY DEF IInv
<1>Bools. Bools
  BY <1>Types DEF Types
<1>IInv. IInv
  OBVIOUS
<1>1. CASE SaverWakes
  <2>bools. Bools'
    BY <1>Bools, <1>1 DEF Bools, SaverWakes, Goto, fpga, rxVars, game, files, flush, history,
       chosen
  <2>stage. Stage' = Stage
    BY <1>Pcs, <1>1 DEF Stage, Pcs, Dumping, Comparing, Copying, SaverWakes, Goto, fpga, rxVars,
       game, files, flush, chosen
  <2>a. (\A v \in Value : Answered(v)' => Answered(v)) /\ (NoticeInFlight' <=> NoticeInFlight)
    BY <1>1 DEF Answered, NoticeInFlight, SaverWakes, fpga, rxVars, game, files, flush, chosen
  <2>p. (dirty => dirty') /\ (Pending => Pending') /\ (flag' => flag)
    BY <1>1, <2>a DEF Pending, SaverWakes, fpga, rxVars, game, files, flush, chosen
  <2>1. Types'
    BY <1>Types, <2>bools, <1>1 DEF Types, SaverWakes, fpga, rxVars, game, files, flush,
       history, chosen
  <2>2. Pcs'
    BY <1>Pcs, <1>1 DEF Pcs, MainPc, SaverPc, Flushing, Dumping, Comparing, Copying, SaverWakes,
       Goto, fpga, rxVars, game, files, flush, chosen, Actors
  <2>3. Cores'
    BY <1>Cores, <1>1 DEF Cores, Flushing, SaverWakes, Goto, fpga, rxVars, game, files, flush,
       history, chosen
  <2>4. Awaited'
    BY <1>Awaited, <2>stage, <1>1 DEF Awaited, SaverWakes, fpga, rxVars, game, files, flush,
       chosen
  <2>5. Numbered' /\ Written' /\ Owned' /\ SumKept' /\ Order' /\ Fresh' /\ Differs' /\ Mend'
    BY <1>Numbered, <1>1, <2>stage, <2>a, <2>p, Aside DEF Numbered, SaverWakes, fpga, rxVars,
       game, files, flush, history, chosen
  <2>6. Opened'
    BY <1>Pcs, <1>1, <2>stage, <2>a, StillOpened DEF Pcs, MainPc, Flushing, SaverWakes, Goto,
       fpga, rxVars, game, files, flush, history, chosen
  <2> QED
    BY <2>1, <2>2, <2>3, <2>4, <2>5, <2>6 DEF IInv
<1>2. CASE SaverDebounces
  <2>bools. Bools'
    BY <1>Bools, <1>2 DEF Bools, SaverDebounces, fpga, rxVars, game, files, flush, history,
       chosen
  <2>stage. Stage' = Stage
    BY <1>2 DEF Stage, SaverDebounces, fpga, rxVars, game, files, flush, chosen
  <2>a. (\A v \in Value : Answered(v)' => Answered(v)) /\ (NoticeInFlight' <=> NoticeInFlight)
    BY <1>2 DEF Answered, NoticeInFlight, SaverDebounces, fpga, rxVars, game, files, flush,
       chosen
  <2>p. (dirty => dirty') /\ (Pending => Pending') /\ (flag' => flag)
    BY <1>2, <2>a DEF Pending, SaverDebounces, fpga, rxVars, game, files, flush, chosen
  <2>1. Types'
    BY <1>Types, <2>bools, <1>2 DEF Types, SaverDebounces, fpga, rxVars, game, files, flush,
       history, chosen
  <2>2. Pcs'
    BY <1>Pcs, <1>2 DEF Pcs, SaverDebounces, fpga, rxVars, game, files, flush, chosen
  <2>3. Cores'
    BY <1>Cores, <1>2 DEF Cores, SaverDebounces, fpga, rxVars, game, files, flush, history,
       chosen
  <2>4. Awaited'
    BY <1>Awaited, <2>stage, <1>2 DEF Awaited, SaverDebounces, fpga, rxVars, game, files, flush,
       chosen
  <2>5. Numbered' /\ Written' /\ Owned' /\ SumKept' /\ Order' /\ Fresh' /\ Differs' /\ Mend'
    BY <1>Numbered, <1>2, <2>stage, <2>a, <2>p, Aside DEF Numbered, SaverDebounces, fpga,
       rxVars, game, files, flush, history, chosen
  <2>6. Opened'
    BY <1>2, <2>stage, <2>a, StillOpened DEF SaverDebounces, fpga, rxVars, game, files, flush,
       history, chosen
  <2> QED
    BY <2>1, <2>2, <2>3, <2>4, <2>5, <2>6 DEF IInv
<1>3. CASE SaverFlushes
  <2>bools. Bools'
    BY <1>Bools, <1>3 DEF Bools, SaverFlushes, fpga, rxVars, game, files, flush, history, chosen
  <2>stage. Stage' = Stage
    BY <1>Pcs, <1>3 DEF Stage, Pcs, Dumping, Comparing, Copying, SaverFlushes, Goto, StartFlush,
       fpga, rxVars, game, files, flush, chosen
  <2>a. (\A v \in Value : Answered(v)' => Answered(v)) /\ (NoticeInFlight' <=> NoticeInFlight)
    BY <1>3 DEF Answered, NoticeInFlight, SaverFlushes, fpga, rxVars, game, files, flush, chosen
  <2>p. (dirty => dirty') /\ (Pending => Pending') /\ (flag' => flag)
    BY <1>3, <2>a DEF Pending, SaverFlushes, fpga, rxVars, game, files, flush, chosen
  <2>1. Types'
    BY <1>Types, <2>bools, <1>3 DEF Types, SaverFlushes, fpga, rxVars, game, files, flush,
       history, chosen
  <2>2. Pcs'
    BY <1>Pcs, <1>3 DEF Pcs, MainPc, SaverPc, Flushing, Dumping, Comparing, Copying,
       SaverFlushes, Goto, StartFlush, Caller, fpga, rxVars, game, files, flush, chosen, Actors
  <2>3. Cores'
    BY <1>Pcs, <1>Cores, <1>3 DEF Cores, Pcs, MainPc, Flushing, SaverFlushes, Goto, StartFlush,
       Caller, fpga, rxVars, game, files, flush, history, chosen
  <2>4. Awaited'
    BY <1>Awaited, <2>stage, <1>3 DEF Awaited, SaverFlushes, fpga, rxVars, game, files, flush,
       chosen
  <2>5. Numbered' /\ Written' /\ Owned' /\ SumKept' /\ Order' /\ Fresh' /\ Differs' /\ Mend'
    BY <1>Numbered, <1>3, <2>stage, <2>a, <2>p, Aside DEF Numbered, SaverFlushes, fpga, rxVars,
       game, files, flush, history, chosen
  <2>6. Opened'
    BY <1>Pcs, <1>3, <2>stage, <2>a, StillOpened DEF Pcs, MainPc, Flushing, SaverFlushes, Goto,
       StartFlush, fpga, rxVars, game, files, flush, history, chosen
  <2> QED
    BY <2>1, <2>2, <2>3, <2>4, <2>5, <2>6 DEF IInv
<1>4. CASE CloseOsd
  <2>bools. Bools'
    BY <1>Bools, <1>4 DEF Bools, CloseOsd, fpga, rxVars, game, files, flush
  <2>stage. Stage' = Stage
    BY <1>Pcs, <1>4 DEF Stage, Pcs, Dumping, Comparing, Copying, CloseOsd, fpga, rxVars, game,
       files, flush
  <2>a. (\A v \in Value : Answered(v)' => Answered(v)) /\ (NoticeInFlight' <=> NoticeInFlight)
    BY <1>4 DEF Answered, NoticeInFlight, CloseOsd, fpga, rxVars, game, files, flush
  <2>p. (dirty => dirty') /\ (Pending => Pending') /\ (flag' => flag)
    BY <1>4, <2>a DEF Pending, CloseOsd, fpga, rxVars, game, files, flush
  <2>1. Types'
    BY <1>Types, <2>bools, NeoSaveAssumption, <1>4 DEF Types, CloseOsd, fpga, rxVars, game,
       files, flush
  <2>2. Pcs'
    BY <1>Pcs, <1>4 DEF Pcs, MainPc, SaverPc, Flushing, Dumping, Comparing, Copying, CloseOsd,
       fpga, rxVars, game, files, flush, Actors
  <2>3. Cores'
    BY <1>Cores, <1>4 DEF Cores, Flushing, CloseOsd, fpga, rxVars, game, files, flush
  <2>4. Awaited'
    BY <1>Awaited, <2>stage, <1>4 DEF Awaited, CloseOsd, fpga, rxVars, game, files, flush
  <2>5. Numbered' /\ Written' /\ Owned' /\ SumKept' /\ Order' /\ Fresh' /\ Differs' /\ Mend'
    BY <1>Types, <1>4, <2>stage, <2>a, <2>p, Aside DEF Types, CloseOsd, fpga, rxVars, game,
       files, flush
  <2>6. Opened'
    BY <1>Pcs, <1>Opened, <1>4 DEF Opened, Menus, Pcs, Dumping, Comparing, Copying, CloseOsd,
       fpga, rxVars, game, files, flush, Actors
  <2> QED
    BY <2>1, <2>2, <2>3, <2>4, <2>5, <2>6 DEF IInv
<1>5. CASE ChooseNothing
  <2>bools. Bools'
    BY <1>Bools, <1>5 DEF Bools, ChooseNothing, fpga, rxVars, game, files, flush, history
  <2>stage. Stage' = Stage
    BY <1>Pcs, <1>5 DEF Stage, Pcs, Dumping, Comparing, Copying, ChooseNothing, Goto, fpga,
       rxVars, game, files, flush
  <2>a. (\A v \in Value : Answered(v)' => Answered(v)) /\ (NoticeInFlight' <=> NoticeInFlight)
    BY <1>5 DEF Answered, NoticeInFlight, ChooseNothing, fpga, rxVars, game, files, flush
  <2>p. (dirty => dirty') /\ (Pending => Pending') /\ (flag' => flag)
    BY <1>5, <2>a DEF Pending, ChooseNothing, fpga, rxVars, game, files, flush
  <2>1. Types'
    BY <1>Types, <2>bools, <1>5 DEF Types, ChooseNothing, fpga, rxVars, game, files, flush,
       history
  <2>2. Pcs'
    BY <1>Pcs, <1>5 DEF Pcs, MainPc, SaverPc, Flushing, Dumping, Comparing, Copying,
       ChooseNothing, Goto, fpga, rxVars, game, files, flush, Actors
  <2>3. Cores'
    BY <1>Cores, <1>5 DEF Cores, Flushing, ChooseNothing, Goto, fpga, rxVars, game, files,
       flush, history
  <2>4. Awaited'
    BY <1>Awaited, <2>stage, <1>5 DEF Awaited, ChooseNothing, fpga, rxVars, game, files, flush
  <2>5. Numbered' /\ Written' /\ Owned' /\ SumKept' /\ Order' /\ Fresh' /\ Differs' /\ Mend'
    BY <1>Numbered, <1>5, <2>stage, <2>a, <2>p, Aside DEF Numbered, ChooseNothing, fpga, rxVars,
       game, files, flush, history
  <2>6. Opened'
    BY <1>Pcs, <1>5, <2>stage, <2>a, StillOpened DEF Pcs, Menus, ChooseNothing, Goto, fpga,
       rxVars, game, files, flush, history, Actors
  <2> QED
    BY <2>1, <2>2, <2>3, <2>4, <2>5, <2>6 DEF IInv
<1>6. CASE OpenFails
  <2>bools. Bools'
    BY <1>Bools, <1>6 DEF Bools, OpenFails, fpga, rxVars, game, files, flush, history
  <2>stage. Stage' = Stage
    BY <1>Pcs, <1>6 DEF Stage, Pcs, Dumping, Comparing, Copying, OpenFails, Goto, fpga, rxVars,
       game, files, flush
  <2>a. (\A v \in Value : Answered(v)' => Answered(v)) /\ (NoticeInFlight' <=> NoticeInFlight)
    BY <1>6 DEF Answered, NoticeInFlight, OpenFails, fpga, rxVars, game, files, flush
  <2>p. (dirty => dirty') /\ (Pending => Pending') /\ (flag' => flag)
    BY <1>6, <2>a DEF Pending, OpenFails, fpga, rxVars, game, files, flush
  <2>1. Types'
    BY <1>Types, <2>bools, <1>6 DEF Types, OpenFails, fpga, rxVars, game, files, flush, history
  <2>2. Pcs'
    BY <1>Pcs, <1>6 DEF Pcs, MainPc, SaverPc, Flushing, Dumping, Comparing, Copying, OpenFails,
       Goto, fpga, rxVars, game, files, flush, Actors
  <2>3. Cores'
    BY <1>Pcs, <1>Cores, <1>6 DEF Cores, Pcs, Flushing, OpenFails, Goto, fpga, rxVars, game,
       files, flush, history, Actors
  <2>4. Awaited'
    BY <1>Awaited, <2>stage, <1>6 DEF Awaited, OpenFails, fpga, rxVars, game, files, flush
  <2>5. Numbered' /\ Written' /\ Owned' /\ SumKept' /\ Order' /\ Fresh' /\ Differs' /\ Mend'
    BY <1>Numbered, <1>6, <2>stage, <2>a, <2>p, Aside DEF Numbered, OpenFails, fpga, rxVars,
       game, files, flush, history
  <2>6. Opened'
    BY <1>Pcs, <1>6, <2>stage, <2>a, StillOpened DEF Pcs, Menus, OpenFails, Goto, fpga, rxVars,
       game, files, flush, history, Actors
  <2> QED
    BY <2>1, <2>2, <2>3, <2>4, <2>5, <2>6 DEF IInv
<1>7. CASE StartLoading
  <2>bools. Bools'
    BY <1>Bools, <1>7 DEF Bools, StartLoading, rxVars, game, files, flush, history, chosen
  <2>stage. Stage' = Stage
    BY <1>Pcs, <1>7 DEF Stage, Pcs, Dumping, Comparing, Copying, StartLoading, Goto, rxVars,
       game, files, flush, chosen
  <2>a. (\A v \in Value : Answered(v)' => Answered(v)) /\ (NoticeInFlight' <=> NoticeInFlight)
    BY <1>7 DEF Answered, NoticeInFlight, StartLoading, rxVars, game, files, flush, chosen
  <2>p. (dirty => dirty') /\ (Pending => Pending') /\ (flag' => flag)
    BY <1>7, <2>a DEF Pending, StartLoading, rxVars, game, files, flush, chosen
  <2>1. Types'
    BY <1>Types, <2>bools, <1>7 DEF Types, StartLoading, rxVars, game, files, flush, history,
       chosen
  <2>2. Pcs'
    BY <1>Pcs, <1>7 DEF Pcs, MainPc, SaverPc, Flushing, Dumping, Comparing, Copying,
       StartLoading, Goto, rxVars, game, files, flush, chosen, Actors
  <2>3. Cores'
    BY <1>Cores, <1>7 DEF Cores, Flushing, StartLoading, Goto, rxVars, game, files, flush,
       history, chosen
  <2>4. Awaited'
    BY <1>Awaited, <2>stage, <1>7 DEF Awaited, StartLoading, rxVars, game, files, flush, chosen
  <2>5. Numbered' /\ Written' /\ Owned' /\ SumKept' /\ Order' /\ Fresh' /\ Differs' /\ Mend'
    BY <1>Numbered, <1>7, <2>stage, <2>a, <2>p, Aside DEF Numbered, StartLoading, rxVars, game,
       files, flush, history, chosen
  <2>6. Opened'
    BY <1>7, <2>stage, <2>a, StillOpened DEF Menus, StartLoading, Goto, rxVars, game, files,
       flush, history, chosen
  <2> QED
    BY <2>1, <2>2, <2>3, <2>4, <2>5, <2>6 DEF IInv
<1>8. CASE StreamFails
  <2>bools. Bools'
    BY <1>Bools, <1>8 DEF Bools, StreamFails, rxVars, game, files, flush, history
  <2>stage. Stage' = Stage
    BY <1>Pcs, <1>8 DEF Stage, Pcs, Dumping, Comparing, Copying, StreamFails, Goto, rxVars,
       game, files, flush
  <2>a. (\A v \in Value : Answered(v)' => Answered(v)) /\ (NoticeInFlight' <=> NoticeInFlight)
    BY <1>8 DEF Answered, NoticeInFlight, StreamFails, rxVars, game, files, flush
  <2>p. (dirty => dirty') /\ (Pending => Pending') /\ (flag' => flag)
    BY <1>8, <2>a DEF Pending, StreamFails, rxVars, game, files, flush
  <2>1. Types'
    BY <1>Types, <2>bools, <1>8 DEF Types, StreamFails, rxVars, game, files, flush, history
  <2>2. Pcs'
    BY <1>Pcs, <1>8 DEF Pcs, MainPc, SaverPc, Flushing, Dumping, Comparing, Copying,
       StreamFails, Goto, rxVars, game, files, flush, Actors
  <2>3. Cores'
    BY <1>Pcs, <1>Cores, <1>8 DEF Cores, Pcs, Flushing, StreamFails, Goto, rxVars, game, files,
       flush, history, Actors
  <2>4. Awaited'
    BY <1>Awaited, <2>stage, <1>8 DEF Awaited, StreamFails, rxVars, game, files, flush
  <2>5. Numbered' /\ Written' /\ Owned' /\ SumKept' /\ Order' /\ Fresh' /\ Differs' /\ Mend'
    BY <1>Numbered, <1>8, <2>stage, <2>a, <2>p, Aside DEF Numbered, StreamFails, rxVars, game,
       files, flush, history
  <2>6. Opened'
    BY <1>Pcs, <1>8, <2>stage, <2>a, StillOpened DEF Pcs, Menus, StreamFails, Goto, rxVars,
       game, files, flush, history, Actors
  <2> QED
    BY <2>1, <2>2, <2>3, <2>4, <2>5, <2>6 DEF IInv
<1>9. CASE StartCore
  <2>bools. Bools'
    BY <1>Bools, <1>9 DEF Bools, StartCore, rxVars, game, files, flush
  <2>stage. Stage' = Stage
    BY <1>Pcs, <1>9 DEF Stage, Pcs, Dumping, Comparing, Copying, StartCore, Goto, rxVars, game,
       files, flush
  <2>a. (\A v \in Value : Answered(v)' => Answered(v)) /\ (NoticeInFlight' <=> NoticeInFlight)
    BY <1>9 DEF Answered, NoticeInFlight, StartCore, rxVars, game, files, flush
  <2>p. (dirty => dirty') /\ (Pending => Pending') /\ (flag' => flag)
    BY <1>9, <2>a DEF Pending, StartCore, rxVars, game, files, flush
  <2>1. Types'
    BY <1>Types, <2>bools, NeoSaveAssumption, <1>9 DEF Types, StartCore, rxVars, game, files,
       flush
  <2>2. Pcs'
    BY <1>Pcs, <1>9 DEF Pcs, MainPc, SaverPc, Flushing, Dumping, Comparing, Copying, StartCore,
       Goto, rxVars, game, files, flush, Actors
  <2>3. Cores'
    BY <1>Pcs, <1>Cores, <1>9 DEF Cores, Pcs, StartCore, Goto, rxVars, game, files, flush,
       Actors
  <2>4. Awaited'
    BY <1>Awaited, <2>stage, <1>9 DEF Awaited, StartCore, rxVars, game, files, flush
  <2>5. Numbered' /\ Written' /\ Owned' /\ SumKept' /\ Order' /\ Fresh' /\ Differs' /\ Mend'
    BY <1>Types, <1>9, <2>stage, <2>a, <2>p, Aside DEF Types, StartCore, rxVars, game, files,
       flush
  <2>6. Opened'
    BY <1>Opened, <1>9 DEF Opened, Menus, Dumping, Comparing, Copying, StartCore, Goto, rxVars,
       game, files, flush
  <2> QED
    BY <2>1, <2>2, <2>3, <2>4, <2>5, <2>6 DEF IInv
<1>10. ASSUME NEW p \in Actors, FlushLockTimesOut(p) PROVE IInv'
  <2>bools. Bools'
    BY <1>Bools, <1>10 DEF Bools, FlushLockTimesOut, fpga, rxVars, game, files, flush, chosen
  <2>stage. Stage' = Stage
    BY <1>Pcs, <1>10 DEF Stage, Pcs, Dumping, Comparing, Copying, FlushLockTimesOut, Goto, fpga,
       rxVars, game, files, flush, chosen
  <2>a. (\A v \in Value : Answered(v)' => Answered(v)) /\ (NoticeInFlight' <=> NoticeInFlight)
    BY <1>10 DEF Answered, NoticeInFlight, FlushLockTimesOut, fpga, rxVars, game, files, flush,
       chosen
  <2>p. (dirty => dirty') /\ (Pending => Pending') /\ (flag' => flag)
    BY <1>10, <2>a DEF Pending, FlushLockTimesOut, fpga, rxVars, game, files, flush, chosen
  <2>1. Types'
    BY <1>Types, <2>bools, NeoSaveAssumption, <1>10 DEF Types, FlushLockTimesOut, Fault, fpga,
       rxVars, game, files, flush, chosen
  <2>2. Pcs'
    BY <1>Types, <1>Pcs, <1>10 DEF Types, Pcs, MainPc, SaverPc, Dumping, Comparing, Copying,
       FlushLockTimesOut, Goto, Caller, fpga, rxVars, game, files, flush, chosen, Main, Saver
  <2>3. Cores'
    BY <1>Types, <1>Cores, <1>10 DEF Types, Cores, Flushing, FlushLockTimesOut, Goto, Caller,
       fpga, rxVars, game, files, flush, chosen
  <2>4. Awaited'
    BY <1>Awaited, <2>stage, <1>10 DEF Awaited, FlushLockTimesOut, fpga, rxVars, game, files,
       flush, chosen
  <2>5. Numbered' /\ Written' /\ Owned' /\ SumKept' /\ Order' /\ Fresh' /\ Differs' /\ Mend'
    BY <1>Numbered, <1>10, <2>stage, <2>a, <2>p, Aside DEF Numbered, FlushLockTimesOut, fpga,
       rxVars, game, files, flush, chosen
  <2>6. Opened'
    BY <1>10 DEF Opened, FlushLockTimesOut, fpga, rxVars, game, files, flush, chosen
  <2> QED
    BY <2>1, <2>2, <2>3, <2>4, <2>5, <2>6 DEF IInv
<1> QED
  BY <1>1, <1>2, <1>3, <1>4, <1>5, <1>6, <1>7, <1>8, <1>9, <1>10

(* The FPGA writes and announces; frames arrive or are lost.               *)
LEMMA LinkPreserves ==
  ASSUME IInv, GameWrites \/ RxDirty \/ RxBlock \/ LoseBlock
  PROVE  IInv'
<1>Types. Types
  BY DEF IInv
<1>Pcs. Pcs
  BY DEF IInv
<1>Cores. Cores
  BY DEF IInv
<1>Awaited. Awaited
  BY DEF IInv
<1>Written. Written
  BY DEF IInv
<1>Numbered. Numbered
  BY DEF IInv
<1>Owned. Owned
  BY DEF IInv
<1>SumKept. SumKept
  BY DEF IInv
<1>Order. Order
  BY DEF IInv
<1>Fresh. Fresh
  BY DEF IInv
<1>Differs. Differs
  BY DEF IInv
<1>Mend. Mend
  BY DEF IInv
<1>Opened. Opened
  BY DEF IInv
<1>Bools. Bools
  BY <1>Types DEF Types
<1>IInv. IInv
  OBVIOUS
<1>1. CASE GameWrites
  <2>bools. Bools'
    BY <1>Bools, <1>1 DEF Bools, GameWrites, rxVars, game, files, flush, history, chosen
  <2>w. PICK b0 \in Block : bram' = [bram EXCEPT ![b0] = [g |-> run, n |-> wr + 1]]
    BY <1>1 DEF GameWrites
  <2>n. [g |-> run, n |-> wr + 1] \in Value
    BY <1>Types, <1>1, NeoSaveAssumption DEF Types, Value, GameWrites
  <2>v. /\ bram'[b0].n = wr + 1 /\ bram'[b0].g = run
        /\ \A b \in Block \ {b0} : bram'[b] = bram[b]
    BY <1>Types, <2>w DEF Types, Ram
  <2>e. up' = up \/ Enqueued(DirtyNotice)
    BY <1>Types, <1>1, Enqueue, Values DEF GameWrites
  <2>f. flag \/ NoticeInFlight'
    BY <1>1, Enqueue DEF GameWrites, Enqueued, NoticeInFlight
  <2>stage. Stage' = Stage
    BY <1>1 DEF Stage, GameWrites, rxVars, game, files, flush, chosen
  <2>a. \A v \in Value : Answered(v)' <=> Answered(v)
    BY <1>1, Values DEF Answered, Enqueued, IsReply, GameWrites, rxVars, game, files, flush,
       chosen
  <2>k. \A i \in 1..Len(up') : IsReply(up'[i]) => i \in 1..Len(up) /\ up'[i] = up[i]
    BY <2>e, Values DEF Enqueued, IsReply
  <2>l. Stage # "restore"
    BY <1>Types, <1>Cores, <1>Pcs, Stages, <1>1 DEF Cores, GameWrites
  <2>r. wr \in Nat /\ wr' = wr + 1 /\ (Active' <=> Active) /\ Stage # "restore"
    BY <1>Types, <2>stage, <2>l, <1>1 DEF Types, Active, GameWrites, rxVars, game, files, flush,
       history, chosen
  <2>1. Types'
    <3>1. bram' \in Ram
      BY <1>Types, <2>w, <2>n, Values DEF Types
    <3>2. PICK w : w = wr' /\ w = wr + 1
      BY <2>r
    <3>3. wr' \in 0..MaxWrites
      BY <1>Types, <3>2, <1>1, NeoSaveAssumption DEF Types, GameWrites
    <3>4. up' \in Seq(Frame)
      BY <1>Types, <2>e DEF Types, Enqueued
    <3> QED
      BY <1>Types, <2>bools, <3>1, <3>3, <3>4, <1>1 DEF Types, GameWrites, rxVars, game, files,
         flush, history, chosen
  <2>2. Pcs'
    BY <1>Pcs, <1>1 DEF Pcs, GameWrites, rxVars, game, files, flush, chosen
  <2>3. Cores'
    BY <1>Cores, <1>1 DEF Cores, GameWrites, rxVars, game, files, flush, history, chosen
  <2>4. Awaited'
    BY <1>Awaited, <2>stage, <2>k, <1>1 DEF Awaited, GameWrites, rxVars, game, files, flush,
       chosen
  <2>5. Written'
    BY <1>Written, <2>stage, <1>1 DEF Written, GameWrites, rxVars, game, files, flush, chosen
  <2>6. Numbered'
    <3>1. PICK w : w = wr' /\ w = wr + 1
      BY <2>r
    <3>2. \A x \in Nat : x <= wr => x <= w
      BY <2>r, <3>1
    <3>3. \A b \in Block : bram'[b].n <= w
      <4>1. \A b \in Block \ {b0} : bram'[b].n <= w
        BY <1>Types, <1>Numbered, <2>v, <3>2, Values DEF Types, Numbered
      <4>2. bram'[b0].n <= w
        BY <2>v, <3>1
      <4> QED
        BY <4>1, <4>2
    <3>4. \A g \in Games :
            /\ \A i \in 1..Len(sav[g]) : sav[g][i].n <= w
            /\ \A i \in 1..Len(tmp[g]) : tmp[g][i].n <= w
      BY <1>Types, <1>Numbered, <3>2, Values, Files DEF Types, Numbered
    <3>5. (\A b \in Block : sum[b].n <= w) /\ seen <= w
      BY <1>Types, <1>Numbered, <3>2, Values DEF Types, Numbered
    <3>6. \A v \in Value : Answered(v)' => v.n <= w
      BY <1>Numbered, <2>a, <3>2, Values DEF Numbered
    <3> QED
      BY <3>1, <3>3, <3>4, <3>5, <3>6, <1>1 DEF Numbered, GameWrites, rxVars, game, files,
         flush, history, chosen
  <2>7. Owned'
    BY <1>Owned, <1>Cores, <2>a, <2>r, <1>1 DEF Owned, Cores, GameWrites, rxVars, game, files,
       flush, chosen
  <2>8. SumKept'
    BY <1>SumKept, <2>stage, <1>1 DEF SumKept, Trusted, Copying, GameWrites, rxVars, game, files, flush, chosen
  <2>9. Order'
    <3>0. SUFFICES ASSUME Active
                   PROVE  /\ \A b \in Block : sum[b] = bram'[b] \/ sum[b].n < bram'[b].n
                          /\ \A v \in Value : Answered(v) => Between(v, blk)'
                          /\ Stage \in Copying =>
                               \A i \in 1..Len(tmp[path]) : Between(tmp[path][i], i - 1)'
      BY <2>stage, <2>a, <2>r, <1>1 DEF Order, GameWrites, rxVars, game, files, flush, chosen
    <3>1. \A x \in Nat : x <= wr => x < bram'[b0].n
      BY <2>r, <2>v
    <3>2. \A b \in Block : sum[b] = bram'[b] \/ sum[b].n < bram'[b].n
      BY <1>Types, <1>Numbered, <1>Order, <2>v, <3>0, <3>1, Values DEF Types, Numbered, Order
    <3>3. \A b \in Block, v \in Value : v.n <= wr /\ Between(v, b) => Between(v, b)'
      BY <2>v, <3>1, <1>1, Values DEF Between, GameWrites, rxVars, game, files, flush, chosen
    <3>4. \A v \in Value : Answered(v) => Between(v, blk)'
      BY <1>Types, <1>Numbered, <1>Order, <3>0, <3>3, <1>1 DEF Types, Numbered, Order,
         GameWrites, rxVars, game, files, flush, chosen
    <3>5. ASSUME Stage \in Copying, NEW i \in 1..Len(tmp[path]) PROVE Between(tmp[path][i], i - 1)'
      <4>1. path \in Games /\ tmp[path] \in File
        BY <1>Types, <1>Cores, <3>0 DEF Types, Cores, Active
      <4>2. tmp[path][i] \in Value /\ i - 1 \in Block /\ tmp[path][i].n <= wr
        BY <1>Numbered, <4>1, Files DEF Numbered
      <4> QED
        BY <1>Order, <3>0, <3>3, <3>5, <4>2, <1>1 DEF Order, GameWrites, rxVars, game, files,
           flush, chosen
    <3> QED
      BY <3>2, <3>4, <3>5
  <2>10. Fresh'
    <3>0. SUFFICES ASSUME Active, ~Pending' PROVE (flag' => Stage = "compare" /\ blk = 0)
                     /\ (Stage = "none" => bram' = sum) /\ Has(Block)'
      BY <2>stage, <2>r, <1>1 DEF Fresh, GameWrites, rxVars, game, files, flush, chosen
    <3>a. flag
      BY <2>f, <3>0 DEF Pending
    <3>1. flag /\ ~Pending
      BY <3>a, <3>0, <1>1 DEF Pending, NoticeInFlight, GameWrites
    <3>2. Stage = "compare" /\ blk = 0
      BY <1>Fresh, <3>0, <3>1 DEF Fresh
    <3>3. \A v \in Value : ~Answered(v)
      BY <1>Awaited, <3>2 DEF Awaited, Answered
    <3>4. \A b \in Block : ~(b < blk)
      BY <3>2, Values
    <3>5. Has(Block)'
      BY <2>stage, <2>a, <3>2, <3>3, <3>4, <1>1 DEF Has, Copying, GameWrites, rxVars, game,
         files, flush, chosen
    <3> QED
      BY <3>2, <3>5
  <2>11. Differs'
    <3>1. \A b \in Block : bram[b] # sum[b] => bram'[b] # sum[b]
      BY <1>Numbered, <2>v, <2>r DEF Numbered
    <3> QED
      BY <1>Differs, <2>stage, <2>r, <3>1, <1>1 DEF Differs, GameWrites, rxVars, game, files,
         flush, chosen
  <2>12. Mend'
    <3>1. \A b \in Block : bram[b] # sum[b] => bram'[b] # sum[b]
      BY <1>Numbered, <2>v, <2>r DEF Numbered
    <3>2. Spoiled' <=> Spoiled
      BY <1>1 DEF Spoiled, Trusted, GameWrites, rxVars, game, files, flush, chosen
    <3> QED
      BY <1>Mend, <2>stage, <2>a, <2>r, <3>1, <3>2, <1>1 DEF Mend, GameWrites, rxVars, game,
         files, flush, chosen
  <2>13. Opened'
    <3>1. Old' \subseteq Old /\ Old \subseteq Block /\ \A b \in Old' : bram'[b] = bram[b]
      BY <1>Types, <1>Numbered, <1>1 DEF Types, Numbered, Old, GameWrites, rxVars, game, files,
         flush, history, chosen
    <3>2. SumHas(Old) => SumHas(Old)'
      BY <3>1, <1>1 DEF SumHas, GameWrites, rxVars, game, files, flush, chosen
    <3>3. ASSUME Has(Old) PROVE Has(Old)'
      BY <2>stage, <2>a, <3>1, <3>3, <1>1 DEF Has, GameWrites, rxVars, game, files, flush,
         chosen
    <3>4. Spoiled' <=> Spoiled
      BY <1>1 DEF Spoiled, Trusted, GameWrites, rxVars, game, files, flush, chosen
    <3> QED
      BY <1>Opened, <2>stage, <2>r, <3>2, <3>3, <3>4, <1>1 DEF Opened, GameWrites, rxVars, game,
         files, flush, history, chosen
  <2> QED
    BY <2>1, <2>2, <2>3, <2>4, <2>5, <2>6, <2>7, <2>8, <2>9, <2>10, <2>11, <2>12, <2>13 DEF IInv
<1>2. CASE RxDirty
  <2>bools. Bools'
    BY <1>Bools, <1>2 DEF Bools, RxDirty, fpga, rxVars, game, files, flush, history, chosen
  <2>d. Dequeued
    BY <1>Types, <1>2, Dequeue DEF RxDirty, fpga, rxVars, game, files, flush, chosen
  <2>stage. Stage' = Stage
    BY <1>2 DEF Stage, RxDirty, fpga, rxVars, game, files, flush, chosen
  <2>a. \A v \in Value : Answered(v)' => Answered(v)
    BY <2>d, <1>2 DEF Answered, Dequeued, RxDirty, fpga, rxVars, game, files, flush, chosen
  <2>p. (dirty => dirty') /\ (Active /\ Pending => Pending') /\ (flag' => flag)
    BY <1>2 DEF Pending, Active, RxDirty, fpga, rxVars, game, files, flush, chosen
  <2>1. Types'
    BY <1>Types, <2>bools, <2>d, <1>2 DEF Types, Dequeued, Frame, RxDirty, fpga, rxVars, game,
       files, flush, history, chosen
  <2>2. Pcs'
    BY <1>Pcs, <1>2 DEF Pcs, RxDirty, fpga, rxVars, game, files, flush, chosen
  <2>3. Cores'
    BY <1>Cores, <1>2 DEF Cores, RxDirty, fpga, rxVars, game, files, flush, history, chosen
  <2>4. Awaited'
    BY <1>Awaited, <2>stage, <2>d, <1>2 DEF Awaited, Dequeued, IsReply, RxDirty, fpga, rxVars,
       game, files, flush, chosen
  <2>5. Numbered' /\ Written' /\ Owned' /\ SumKept' /\ Order' /\ Fresh' /\ Differs' /\ Mend'
    BY <1>Numbered, <1>2, <2>stage, <2>a, <2>p, Aside DEF Numbered, RxDirty, fpga, rxVars, game,
       files, flush, history, chosen
  <2>6. Opened'
    BY <1>2, <2>stage, <2>a, StillOpened DEF RxDirty, fpga, rxVars, game, files, flush, history,
       chosen
  <2> QED
    BY <2>1, <2>2, <2>3, <2>4, <2>5, <2>6 DEF IInv
<1>3. CASE RxBlock
  <2>bools. Bools'
    BY <1>Bools, <1>3 DEF Bools, RxBlock, fpga, rxVars, game, files, flush, history, chosen
  <2>d. Dequeued
    BY <1>Types, <1>3, Dequeue DEF RxBlock, fpga, rxVars, game, files, flush, chosen
  <2>stage. Stage' = Stage
    BY <1>3 DEF Stage, RxBlock, fpga, rxVars, game, files, flush, chosen
  <2>h. Head(up) # DirtyNotice /\ IsReply(Head(up))
    BY <1>3, Values DEF IsReply, RxBlock, fpga, rxVars, game, files, flush, chosen
  <2>i. NoticeInFlight' <=> NoticeInFlight
    BY <2>d, <2>h, NoticeStays
  <2>a. \A v \in Value : Answered(v)' => Answered(v)
    BY <2>d, <1>3, <2>h DEF Answered, Dequeued, RxBlock, fpga, rxVars, game, files, flush,
       chosen
  <2>p. (dirty => dirty') /\ (Active /\ Pending => Pending') /\ (flag' => flag)
    BY <1>3, <2>i DEF Pending, RxBlock, fpga, rxVars, game, files, flush, chosen
  <2>1. Types'
    BY <1>Types, <2>bools, <2>d, <1>3 DEF Types, Dequeued, Frame, RxBlock, fpga, rxVars, game,
       files, flush, history, chosen
  <2>2. Pcs'
    BY <1>Pcs, <1>3 DEF Pcs, RxBlock, fpga, rxVars, game, files, flush, chosen
  <2>3. Cores'
    BY <1>Cores, <1>3 DEF Cores, RxBlock, fpga, rxVars, game, files, flush, history, chosen
  <2>4. Awaited'
    BY <1>Awaited, <2>stage, <2>d, <1>3 DEF Awaited, Dequeued, IsReply, RxBlock, fpga, rxVars,
       game, files, flush, chosen
  <2>5. Numbered' /\ Written' /\ Owned' /\ SumKept' /\ Order' /\ Fresh' /\ Differs' /\ Mend'
    BY <1>Numbered, <1>3, <2>stage, <2>a, <2>p, Aside DEF Numbered, RxBlock, fpga, rxVars, game,
       files, flush, history, chosen
  <2>6. Opened'
    BY <1>3, <2>stage, <2>a, StillOpened DEF RxBlock, fpga, rxVars, game, files, flush, history,
       chosen
  <2> QED
    BY <2>1, <2>2, <2>3, <2>4, <2>5, <2>6 DEF IInv
<1>4. CASE LoseBlock
  <2>bools. Bools'
    BY <1>Bools, <1>4 DEF Bools, LoseBlock, fpga, rxVars, game, files, flush, chosen
  <2>d. Dequeued
    BY <1>Types, <1>4, Dequeue DEF LoseBlock, fpga, rxVars, game, files, flush, chosen
  <2>stage. Stage' = Stage
    BY <1>4 DEF Stage, LoseBlock, fpga, rxVars, game, files, flush, chosen, Actors, Main, Saver
  <2>h. Head(up) # DirtyNotice /\ IsReply(Head(up))
    BY <1>4, Values DEF IsReply, LoseBlock, fpga, rxVars, game, files, flush, chosen
  <2>i. NoticeInFlight' <=> NoticeInFlight
    BY <2>d, <2>h, NoticeStays
  <2>a. \A v \in Value : Answered(v)' => Answered(v)
    BY <2>d, <1>4 DEF Answered, Dequeued, LoseBlock, fpga, rxVars, game, files, flush, chosen
  <2>p. (dirty => dirty') /\ (Active /\ Pending => Pending') /\ (flag' => flag)
    BY <1>4, <2>i DEF Pending, LoseBlock, fpga, rxVars, game, files, flush, chosen
  <2>1. Types'
    BY <1>Types, <2>bools, NeoSaveAssumption, <2>d, <1>4 DEF Types, Dequeued, Frame, LoseBlock,
       Fault, fpga, rxVars, game, files, flush, chosen
  <2>2. Pcs'
    BY <1>Pcs, <1>4 DEF Pcs, LoseBlock, fpga, rxVars, game, files, flush, chosen
  <2>3. Cores'
    BY <1>Cores, <1>4 DEF Cores, LoseBlock, fpga, rxVars, game, files, flush, chosen
  <2>4. Awaited'
    BY <1>Awaited, <2>d, <1>4 DEF Awaited, Dequeued, IsReply, LoseBlock, fpga, rxVars, game,
       files, flush, chosen
  <2>5. Numbered' /\ Written' /\ Owned' /\ SumKept' /\ Order' /\ Fresh' /\ Differs' /\ Mend'
    BY <1>Numbered, <1>4, <2>stage, <2>a, <2>p, Aside DEF Numbered, LoseBlock, fpga, rxVars,
       game, files, flush, chosen
  <2>6. Opened'
    BY <1>4, <2>stage, <2>a, StillOpened DEF LoseBlock, fpga, rxVars, game, files, flush, chosen
  <2> QED
    BY <2>1, <2>2, <2>3, <2>4, <2>5, <2>6 DEF IInv
<1> QED
  BY <1>1, <1>2, <1>3, <1>4

(* The OSD opens, and then the file chooser.                               *)
LEMMA MenuPreserves ==
  ASSUME IInv, OpenOsd \/ Settle
  PROVE  IInv'
<1>Types. Types
  BY DEF IInv
<1>Pcs. Pcs
  BY DEF IInv
<1>Cores. Cores
  BY DEF IInv
<1>Awaited. Awaited
  BY DEF IInv
<1>Written. Written
  BY DEF IInv
<1>Numbered. Numbered
  BY DEF IInv
<1>Owned. Owned
  BY DEF IInv
<1>SumKept. SumKept
  BY DEF IInv
<1>Order. Order
  BY DEF IInv
<1>Fresh. Fresh
  BY DEF IInv
<1>Differs. Differs
  BY DEF IInv
<1>Mend. Mend
  BY DEF IInv
<1>Opened. Opened
  BY DEF IInv
<1>Bools. Bools
  BY <1>Types DEF Types
<1>IInv. IInv
  OBVIOUS
<1>1. CASE OpenOsd
  <2>bools. Bools'
    BY <1>Bools, <1>1 DEF Bools, OpenOsd, Goto, StartFlush, Caller, fpga, rxVars, game, files,
       flush, chosen
  <2>stage. Stage' = Stage
    BY <1>Pcs, <1>1 DEF Stage, Pcs, Dumping, Comparing, Copying, OpenOsd, Goto, StartFlush,
       fpga, rxVars, game, files, flush, chosen
  <2>a. (\A v \in Value : Answered(v)' => Answered(v)) /\ (NoticeInFlight' <=> NoticeInFlight)
    BY <1>1 DEF Answered, NoticeInFlight, OpenOsd, fpga, rxVars, game, files, flush, chosen
  <2>p. (dirty => dirty') /\ (Pending => Pending') /\ (flag' => flag)
    BY <1>1, <2>a DEF Pending, OpenOsd, fpga, rxVars, game, files, flush, chosen
  <2>1. Types'
    BY <1>Types, <2>bools, NeoSaveAssumption, <1>1 DEF Types, OpenOsd, fpga, rxVars, game,
       files, flush, chosen
  <2>2. Pcs'
    BY <1>Types, <1>Pcs, <1>1 DEF Types, Pcs, MainPc, SaverPc, Flushing, Dumping, Comparing,
       Copying, OpenOsd, Goto, StartFlush, Caller, fpga, rxVars, game, files, flush, chosen, Actors
  <2>3. Cores'
    BY <1>Types, <1>Cores, <1>1 DEF Types, Cores, Flushing, OpenOsd, Goto, StartFlush, Caller,
       fpga, rxVars, game, files, flush, chosen
  <2>4. Awaited'
    BY <1>Awaited, <2>stage, <1>1 DEF Awaited, OpenOsd, fpga, rxVars, game, files, flush, chosen
  <2>5. Numbered' /\ Written' /\ Owned' /\ SumKept' /\ Order' /\ Fresh' /\ Differs' /\ Mend'
    BY <1>Types, <1>1, <2>stage, <2>a, <2>p, Aside DEF Types, OpenOsd, fpga, rxVars, game,
       files, flush, chosen
  <2>6. Opened'
    <3>0. SUFFICES ASSUME Active', pc'[Main] \in Menus
                   PROVE  Has(Old)' /\ (Stage' = "none" => SumHas(Old)' /\ ~Spoiled')
      <4>1. pc'[Main] \in {"lock", menu} /\ menu' = menu
        BY <1>Pcs, <1>1 DEF Pcs, OpenOsd, Goto, StartFlush, Caller, fpga, rxVars, game, files,
           flush, chosen, Actors
      <4> QED
        BY <4>1, <1>Types DEF Opened, Types, Menus, Dumping, Comparing, Copying
    <3>1. /\ Active /\ on
          /\ UNCHANGED <<bram, wr, up, rx, blkSem, sum, sav, tmp, lapse, path, blk, changed>>
      BY <2>stage, <3>0, <1>1 DEF Active, OpenOsd, fpga, rxVars, game, files, flush, chosen
    <3>2. ~dirty
      BY <3>0, <3>1, <1>1 DEF Menus, OpenOsd, Goto, StartFlush, fpga, rxVars, game, files,
         flush, chosen
    <3>3. (~Spoiled /\ ~Spoiled') \/ Stage # "none"
      BY <1>Mend, <3>1, <3>2 DEF Mend, Spoiled, Trusted
    <3>4. CASE NoticeInFlight
      <4>1. \A b \in Old' : b \in Block /\ ~(\E n \in Nat : n < bram[b].n)
        BY <1>Types, <3>1, <3>4, <1>1, Values DEF Types, Old, OpenOsd, StartFlush, fpga, rxVars,
           game, files, flush, chosen
      <4>2. SumHas(Old)'
        BY <1>Types, <1>Order, <3>1, <4>1, Values DEF Types, Order, SumHas
      <4>3. \A b \in Old', v \in Value : Between(v, b) => v = bram[b]
        BY <4>1, Values DEF Between
      <4>4. Stage \in Copying => path \in Games /\ tmp[path] \in File
        BY <1>Types, <1>Cores, <3>1 DEF Types, Cores
      <4>5. Stage \in Copying =>
              \A i \in 1..Len(tmp[path]) : i - 1 \in Old' => tmp[path][i] = bram[i - 1]
        BY <1>Order, <3>1, <4>3, <4>4, Files DEF Order
      <4>6. blk \in Old' => \A v \in Value : Answered(v) => v = bram[blk]
        BY <1>Order, <3>1, <4>3 DEF Order
      <4>7. Has(Old)'
        BY <2>stage, <2>a, <3>1, <4>1, <4>2, <4>5, <4>6 DEF Has, SumHas
      <4> QED
        BY <2>stage, <3>3, <4>2, <4>7
    <3>5. CASE ~NoticeInFlight
      <4>1. Has(Block) /\ (Stage = "none" => bram = sum)
        BY <1>Fresh, <3>1, <3>2, <3>5 DEF Fresh, Pending
      <4>2. Old' \subseteq Block
        BY DEF Old
      <4>3. Has(Old)'
        BY <2>stage, <2>a, <3>1, <4>1, <4>2 DEF Has
      <4>4. Stage = "none" => SumHas(Old)'
        BY <3>1, <4>1 DEF SumHas
      <4> QED
        BY <2>stage, <3>3, <4>3, <4>4
    <3> QED
      BY <3>4, <3>5
  <2> QED
    BY <2>1, <2>2, <2>3, <2>4, <2>5, <2>6 DEF IInv
<1>2. CASE Settle
  <2>bools. Bools'
    BY <1>Bools, <1>2 DEF Bools, Settle, fpga, rxVars, game, files, flush, history, chosen
  <2>stage. Stage' = Stage
    BY <1>2 DEF Stage, Settle, fpga, rxVars, game, files, flush, chosen
  <2>a. (\A v \in Value : Answered(v)' => Answered(v)) /\ (NoticeInFlight' <=> NoticeInFlight)
    BY <1>2 DEF Answered, NoticeInFlight, Settle, fpga, rxVars, game, files, flush, chosen
  <2>p. (dirty => dirty') /\ (Pending => Pending') /\ (flag' => flag)
    BY <1>2, <2>a DEF Pending, Settle, fpga, rxVars, game, files, flush, chosen
  <2>1. Types'
    BY <1>Types, <2>bools, <1>2 DEF Types, Settle, fpga, rxVars, game, files, flush, history,
       chosen
  <2>2. Pcs'
    BY <1>Pcs, <1>2 DEF Pcs, MainPc, SaverPc, Flushing, Dumping, Comparing, Copying, Settle,
       Goto, fpga, rxVars, game, files, flush, chosen, Actors
  <2>3. Cores'
    BY <1>Cores, <1>2 DEF Cores, Flushing, Settle, Goto, fpga, rxVars, game, files, flush,
       history, chosen
  <2>4. Awaited'
    BY <1>Awaited, <2>stage, <1>2 DEF Awaited, Settle, fpga, rxVars, game, files, flush, chosen
  <2>5. Numbered' /\ Written' /\ Owned' /\ SumKept' /\ Order' /\ Fresh' /\ Differs' /\ Mend'
    BY <1>Numbered, <1>2, <2>stage, <2>a, <2>p, Aside DEF Numbered, Settle, fpga, rxVars, game,
       files, flush, history, chosen
  <2>6. Opened'
    <3>1. Stage = "none" /\ pc[Main] \in Menus /\ pc[Main] = "osd"
      BY <1>Types, <1>Pcs, Stages, <1>2 DEF Menus, Settle, Goto, fpga, rxVars, game, files,
         flush, chosen
    <3>2. UNCHANGED <<Active, Old, Spoiled, SumHas(Old), failed>>
      BY <2>stage, <1>2 DEF Active, Old, Spoiled, Trusted, SumHas, Settle, fpga, rxVars, game, files,
         flush, history, chosen
    <3>3. Has(Old) => Has(Old)'
      BY <2>stage, <2>a, <3>2, <1>2 DEF Has, Settle, fpga, rxVars, game, files, flush, chosen
    <3> QED
      BY <1>Opened, <3>1, <3>2, <3>3 DEF Opened
  <2> QED
    BY <2>1, <2>2, <2>3, <2>4, <2>5, <2>6 DEF IInv
<1> QED
  BY <1>1, <1>2

(* The FPGA is programmed, or the channel given up.                        *)
LEMMA ProgramPreserves ==
  ASSUME IInv,
         (\E c \in {"neo", "other"} : PickCore(c)) \/ PickPce \/ Off
           \/ \E g \in Games : PickGame(g)
  PROVE  IInv'
<1>Types. Types
  BY DEF IInv
<1>Pcs. Pcs
  BY DEF IInv
<1>Cores. Cores
  BY DEF IInv
<1>Awaited. Awaited
  BY DEF IInv
<1>Written. Written
  BY DEF IInv
<1>Numbered. Numbered
  BY DEF IInv
<1>Owned. Owned
  BY DEF IInv
<1>SumKept. SumKept
  BY DEF IInv
<1>Order. Order
  BY DEF IInv
<1>Fresh. Fresh
  BY DEF IInv
<1>Differs. Differs
  BY DEF IInv
<1>Mend. Mend
  BY DEF IInv
<1>Opened. Opened
  BY DEF IInv
<1>Bools. Bools
  BY <1>Types DEF Types
<1>IInv. IInv
  OBVIOUS
<1>1. ASSUME NEW c \in {"neo", "other"}, PickCore(c) PROVE IInv'
  <2>bools. Bools'
    BY <1>Bools, <1>1 DEF Bools, PickCore, Goto, Program, rxVars, game, files, flush
  <2>stage. Stage' = Stage
    BY <1>Pcs, <1>1 DEF Stage, Pcs, Dumping, Comparing, Copying, PickCore, Goto, rxVars, game,
       files, flush
  <2>a. \A v \in Value : Answered(v)' <=> Answered(v)
    BY <1>1 DEF Answered, PickCore, rxVars, game, files, flush
  <2>i. ~Active'
    BY <1>1 DEF Active, PickCore, Program, rxVars, game, files, flush
  <2>b. bram' = bram \/ \A b \in Block : bram'[b] = Blank
    BY <1>1, Values DEF PickCore, Program, rxVars, game, files, flush
  <2>w. Blank.n <= wr
    BY <1>Types, Values DEF Types
  <2>1. Types'
    BY <1>Types, <2>bools, Values, <1>1 DEF Types, PickCore, Program, rxVars, game, files, flush
  <2>2. Pcs'
    BY <1>Pcs, <1>1 DEF Pcs, MainPc, SaverPc, Flushing, Dumping, Comparing, Copying, PickCore,
       Goto, rxVars, game, files, flush, Actors
  <2>3. Cores'
    BY <1>Cores, <1>1 DEF Cores, Flushing, PickCore, Goto, Program, rxVars, game, files, flush
  <2>4. Awaited'
    BY <1>Awaited, <2>stage, <1>1 DEF Awaited, PickCore, rxVars, game, files, flush
  <2>5. Written'
    BY <1>Written, <2>stage, <1>1 DEF Written, PickCore, rxVars, game, files, flush
  <2>6. Numbered'
    BY <1>Numbered, <2>a, <2>b, <2>w, <1>1 DEF Numbered, PickCore, rxVars, game, files, flush
  <2>7. Owned'
    BY <1>Owned, <2>a, Values, <1>1 DEF Owned, PickCore, Program, rxVars, game, files, flush
  <2>8. SumKept'
    BY <1>SumKept, <2>stage, <1>1 DEF SumKept, Trusted, Copying, PickCore, rxVars, game, files, flush
  <2>9. Order'
    BY <2>i, <1>1 DEF Order, rxVars, game, files, flush
  <2>10. Fresh'
    BY <2>i, <1>1 DEF Fresh, rxVars, game, files, flush
  <2>11. Differs'
    BY <2>i, <1>1 DEF Differs, rxVars, game, files, flush
  <2>12. Mend'
    BY <2>i, <1>1 DEF Mend, rxVars, game, files, flush
  <2>13. Opened'
    BY <2>i, <1>1 DEF Opened, rxVars, game, files, flush
  <2> QED
    BY <2>1, <2>2, <2>3, <2>4, <2>5, <2>6, <2>7, <2>8, <2>9, <2>10, <2>11, <2>12, <2>13 DEF IInv
<1>2. CASE PickPce
  <2>bools. Bools'
    BY <1>Bools, <1>2 DEF Bools, PickPce, Program, rxVars, game, files, flush
  <2>stage. Stage' = Stage
    BY <1>Pcs, <1>2 DEF Stage, Pcs, Dumping, Comparing, Copying, PickPce, Goto, rxVars, game,
       files, flush
  <2>a. \A v \in Value : Answered(v)' <=> Answered(v)
    BY <1>2 DEF Answered, PickPce, rxVars, game, files, flush
  <2>i. ~Active'
    BY <1>2 DEF Active, PickPce, Program, rxVars, game, files, flush
  <2>b. bram' = bram \/ \A b \in Block : bram'[b] = Blank
    BY <1>2, Values DEF PickPce, Program, rxVars, game, files, flush
  <2>w. Blank.n <= wr
    BY <1>Types, Values DEF Types
  <2>1. Types'
    BY <1>Types, <2>bools, Values, <1>2 DEF Types, PickPce, Program, rxVars, game, files, flush
  <2>2. Pcs'
    BY <1>Pcs, <1>2 DEF Pcs, MainPc, SaverPc, Flushing, Dumping, Comparing, Copying, PickPce,
       Goto, rxVars, game, files, flush, Actors
  <2>3. Cores'
    BY <1>Cores, <1>2 DEF Cores, Flushing, PickPce, Goto, Program, rxVars, game, files, flush
  <2>4. Awaited'
    BY <1>Awaited, <2>stage, <1>2 DEF Awaited, PickPce, rxVars, game, files, flush
  <2>5. Written'
    BY <1>Written, <2>stage, <1>2 DEF Written, PickPce, rxVars, game, files, flush
  <2>6. Numbered'
    BY <1>Numbered, <2>a, <2>b, <2>w, <1>2 DEF Numbered, PickPce, rxVars, game, files, flush
  <2>7. Owned'
    BY <1>Owned, <2>a, Values, <1>2 DEF Owned, PickPce, Program, rxVars, game, files, flush
  <2>8. SumKept'
    BY <1>SumKept, <2>stage, <1>2 DEF SumKept, Trusted, Copying, PickPce, rxVars, game, files, flush
  <2>9. Order'
    BY <2>i, <1>2 DEF Order, rxVars, game, files, flush
  <2>10. Fresh'
    BY <2>i, <1>2 DEF Fresh, rxVars, game, files, flush
  <2>11. Differs'
    BY <2>i, <1>2 DEF Differs, rxVars, game, files, flush
  <2>12. Mend'
    BY <2>i, <1>2 DEF Mend, rxVars, game, files, flush
  <2>13. Opened'
    BY <2>i, <1>2 DEF Opened, rxVars, game, files, flush
  <2> QED
    BY <2>1, <2>2, <2>3, <2>4, <2>5, <2>6, <2>7, <2>8, <2>9, <2>10, <2>11, <2>12, <2>13 DEF IInv
<1>3. CASE Off
  <2>bools. Bools'
    BY <1>Bools, <1>3 DEF Bools, Off, fpga, rxVars, files, flush, history, chosen
  <2>stage. Stage' = Stage
    BY <1>Pcs, <1>3 DEF Stage, Pcs, Dumping, Comparing, Copying, Off, Goto, fpga, rxVars, files,
       flush, chosen
  <2>a. \A v \in Value : Answered(v)' <=> Answered(v)
    BY <1>3 DEF Answered, Off, fpga, rxVars, files, flush, chosen
  <2>i. ~Active'
    BY <1>3 DEF Active, Off, fpga, rxVars, files, flush, chosen
  <2>b. bram' = bram \/ \A b \in Block : bram'[b] = Blank
    BY <1>3 DEF Off, fpga, rxVars, files, flush, chosen
  <2>w. Blank.n <= wr
    BY <1>Types, Values DEF Types
  <2>1. Types'
    BY <1>Types, <2>bools, <1>3 DEF Types, Off, fpga, rxVars, files, flush, history, chosen
  <2>2. Pcs'
    BY <1>Pcs, <1>3 DEF Pcs, MainPc, SaverPc, Flushing, Dumping, Comparing, Copying, Off, Goto,
       fpga, rxVars, files, flush, chosen, Actors
  <2>3. Cores'
    BY <1>Cores, <1>3 DEF Cores, Flushing, Off, Goto, fpga, rxVars, files, flush, history,
       chosen
  <2>4. Awaited'
    BY <1>Awaited, <2>stage, <1>3 DEF Awaited, Off, fpga, rxVars, files, flush, chosen
  <2>5. Written'
    BY <1>Written, <2>stage, <1>3 DEF Written, Off, fpga, rxVars, files, flush, chosen
  <2>6. Numbered'
    BY <1>Numbered, <2>a, <2>w, <1>3 DEF Numbered, Off, fpga, rxVars, files, flush, history,
       chosen
  <2>7. Owned'
    BY <1>Owned, <2>a, <2>stage, <1>3 DEF Owned, Off, fpga, rxVars, files, flush, chosen
  <2>8. SumKept'
    BY <1>SumKept, <2>stage, <1>3 DEF SumKept, Trusted, Copying, Off, fpga, rxVars, files, flush, chosen
  <2>9. Order'
    BY <2>i, <1>3 DEF Order, fpga, rxVars, files, flush, chosen
  <2>10. Fresh'
    BY <2>i, <1>3 DEF Fresh, fpga, rxVars, files, flush, chosen
  <2>11. Differs'
    BY <2>i, <1>3 DEF Differs, fpga, rxVars, files, flush, chosen
  <2>12. Mend'
    BY <2>i, <1>3 DEF Mend, fpga, rxVars, files, flush, chosen
  <2>13. Opened'
    BY <2>i, <1>3 DEF Opened, fpga, rxVars, files, flush, chosen
  <2> QED
    BY <2>1, <2>2, <2>3, <2>4, <2>5, <2>6, <2>7, <2>8, <2>9, <2>10, <2>11, <2>12, <2>13 DEF IInv
<1>4. ASSUME NEW g \in Games, PickGame(g), core # "neo" PROVE IInv'
  <2>bools. Bools'
    BY <1>Bools, <1>4 DEF Bools, PickGame, Program, rxVars, game, files, flush
  <2>stage. Stage' = Stage
    BY <1>Pcs, <1>4 DEF Stage, Pcs, Dumping, Comparing, Copying, PickGame, Goto, rxVars, game,
       files, flush
  <2>a. \A v \in Value : Answered(v)' <=> Answered(v)
    BY <1>4 DEF Answered, PickGame, rxVars, game, files, flush
  <2>i. ~Active'
    BY <1>4 DEF Active, PickGame, Program, rxVars, game, files, flush
  <2>b. bram' = bram \/ \A b \in Block : bram'[b] = Blank
    BY <1>4, Values DEF PickGame, Program, rxVars, game, files, flush
  <2>w. Blank.n <= wr
    BY <1>Types, Values DEF Types
  <2>1. Types'
    BY <1>Types, <2>bools, Values, <1>4 DEF Types, PickGame, Program, rxVars, game, files, flush
  <2>2. Pcs'
    BY <1>Pcs, <1>4 DEF Pcs, MainPc, SaverPc, Flushing, Dumping, Comparing, Copying, PickGame,
       Goto, rxVars, game, files, flush, Actors
  <2>3. Cores'
    BY <1>Cores, <1>4 DEF Cores, Flushing, PickGame, Goto, Program, rxVars, game, files, flush
  <2>4. Awaited'
    BY <1>Awaited, <2>stage, <1>4 DEF Awaited, PickGame, rxVars, game, files, flush
  <2>5. Written'
    BY <1>Written, <2>stage, <1>4 DEF Written, PickGame, rxVars, game, files, flush
  <2>6. Numbered'
    BY <1>Numbered, <2>a, <2>b, <2>w, <1>4 DEF Numbered, PickGame, rxVars, game, files, flush
  <2>7. Owned'
    BY <1>Owned, <2>a, Values, <1>4 DEF Owned, PickGame, Program, rxVars, game, files, flush
  <2>8. SumKept'
    BY <1>SumKept, <2>stage, <1>4 DEF SumKept, Trusted, Copying, PickGame, rxVars, game, files, flush
  <2>9. Order'
    BY <2>i, <1>4 DEF Order, rxVars, game, files, flush
  <2>10. Fresh'
    BY <2>i, <1>4 DEF Fresh, rxVars, game, files, flush
  <2>11. Differs'
    BY <2>i, <1>4 DEF Differs, rxVars, game, files, flush
  <2>12. Mend'
    BY <2>i, <1>4 DEF Mend, rxVars, game, files, flush
  <2>13. Opened'
    BY <2>i, <1>4 DEF Opened, rxVars, game, files, flush
  <2> QED
    BY <2>1, <2>2, <2>3, <2>4, <2>5, <2>6, <2>7, <2>8, <2>9, <2>10, <2>11, <2>12, <2>13 DEF IInv
<1>5. ASSUME NEW g \in Games, PickGame(g), core = "neo" PROVE IInv'
  <2>bools. Bools'
    BY <1>Bools, <1>5 DEF Bools, PickGame, rxVars, game, files, flush
  <2>stage. Stage' = Stage
    BY <1>Pcs, <1>5 DEF Stage, Pcs, Dumping, Comparing, Copying, PickGame, Goto, rxVars, game,
       files, flush
  <2>a. (\A v \in Value : Answered(v)' => Answered(v)) /\ (NoticeInFlight' <=> NoticeInFlight)
    BY <1>5 DEF Answered, NoticeInFlight, PickGame, rxVars, game, files, flush
  <2>p. (dirty => dirty') /\ (Pending => Pending') /\ (flag' => flag)
    BY <1>5, <2>a DEF Pending, PickGame, rxVars, game, files, flush
  <2>1. Types'
    BY <1>Types, <2>bools, <1>5 DEF Types, PickGame, rxVars, game, files, flush
  <2>2. Pcs'
    BY <1>Pcs, <1>5 DEF Pcs, MainPc, SaverPc, Flushing, Dumping, Comparing, Copying, PickGame,
       Goto, rxVars, game, files, flush, Actors
  <2>3. Cores'
    BY <1>Cores, <1>5 DEF Cores, Flushing, PickGame, Goto, rxVars, game, files, flush
  <2>4. Awaited'
    BY <1>Awaited, <2>stage, <1>5 DEF Awaited, PickGame, rxVars, game, files, flush
  <2>5. Numbered' /\ Written' /\ Owned' /\ SumKept' /\ Order' /\ Fresh' /\ Differs' /\ Mend'
    BY <1>Numbered, <1>5, <2>stage, <2>a, <2>p, Aside DEF Numbered, PickGame, rxVars, game,
       files, flush
  <2>6. Opened'
    BY <1>5, <2>stage, <2>a, StillOpened DEF Menus, PickGame, Goto, rxVars, game, files, flush
  <2> QED
    BY <2>1, <2>2, <2>3, <2>4, <2>5, <2>6 DEF IInv
<1> QED
  BY <1>1, <1>2, <1>3, <1>4, <1>5

(* neosave_restore ends with the blocks r in the RAM, read or not.         *)
RestoredTo(r) ==
  /\ Goto(Main, "restore", "start") /\ Restored(r) /\ bram' = r /\ r \in Ram
  /\ faults' \in 0..MaxFaults
  /\ path \in Games /\ ~flag
  /\ \A b \in Block :
       \/ r[b] = Blank
       \/ \E f \in {sav[path], tmp[path]} : \E j \in 1..Len(f) : r[b] = f[j]
  /\ lapse' \in {"none", "misread"} /\ (lapse' = "none" => r = Restorable(path))

(* Every block that is restored is one of a file's, or blank.              *)
LEMMA Restoring ==
  ASSUME IInv, Restore \/ RestoreMisread
  PROVE  \E r : RestoredTo(r)
<1>0. Types /\ Cores
  BY DEF IInv
<1>1. path \in Games /\ ~flag
  <2>1. pc[Main] = "restore"
    BY DEF Restore, RestoreMisread, Goto
  <2> QED
    BY <1>0, <2>1 DEF Types, Cores
<1>2. ASSUME NEW f \in {sav[path], tmp[path]}
      PROVE  /\ Contents(f) \in Ram
             /\ \A b \in Block : Contents(f)[b] = Blank \/ \E j \in 1..Len(f) : Contents(f)[b] = f[j]
  <2>1. f \in File
    BY <1>0, <1>1, <1>2 DEF Types
  <2>2. \A b \in Block : b < Len(f) => b + 1 \in 1..Len(f)
    BY <2>1, Files, Values
  <2> QED
    BY <2>1, <2>2, Files
<1>3. CASE Restore
  <2>1. PICK f \in {sav[path], tmp[path]} : Restorable(path) = Contents(f)
    BY DEF Restorable
  <2>2. faults' \in 0..MaxFaults
    BY <1>0, <1>3 DEF Types, Restore
  <2>3. bram' = Restorable(path) /\ lapse' = "none"
    BY <1>3 DEF Restore, Restored
  <2>4. Goto(Main, "restore", "start") /\ Restored(Restorable(path))
    BY <1>3 DEF Restore
  <2>5. RestoredTo(Restorable(path))
    BY <1>1, <1>2, <2>1, <2>2, <2>3, <2>4 DEF RestoredTo
  <2> QED
    BY <2>5
<1>4. CASE RestoreMisread
  <2>1. PICK r \in Misreads(path) : Restored(r)
    BY <1>4 DEF RestoreMisread
  <2>2. PICK f \in {sav[path], tmp[path]}, lost \in SUBSET Block :
          r = [b \in Block |-> IF b \in lost THEN Blank ELSE Contents(f)[b]]
    BY DEF Misreads
  <2>3. r \in Ram /\ \A b \in Block : r[b] = Blank \/ \E j \in 1..Len(f) : r[b] = f[j]
    <3>1. Contents(f) \in Ram
      BY <1>2, <2>2
    <3>2. \A b \in Block : r[b] = Blank \/ r[b] = Contents(f)[b]
      BY <2>2
    <3>3. r \in Ram
      BY <2>2, <3>1, Values DEF Ram
    <3>4. \A b \in Block : Contents(f)[b] = Blank \/ \E j \in 1..Len(f) : Contents(f)[b] = f[j]
      BY <1>2
    <3> QED
      BY <3>2, <3>3, <3>4
  <2>4. faults' \in 0..MaxFaults
    BY <1>0, <1>4, NeoSaveAssumption DEF Types, RestoreMisread, Fault
  <2>5. bram' = r /\ lapse' = "misread" /\ Goto(Main, "restore", "start")
    BY <1>4, <2>1 DEF RestoreMisread, Restored
  <2>6. RestoredTo(r)
    BY <1>1, <2>1, <2>2, <2>3, <2>4, <2>5 DEF RestoredTo
  <2> QED
    BY <2>6
<1> QED
  BY <1>3, <1>4

(* A load claims the channel and restores the save.                        *)
LEMMA LoadPreserves ==
  ASSUME IInv, SetGame \/ Restore \/ RestoreMisread
  PROVE  IInv'
<1>Types. Types
  BY DEF IInv
<1>Pcs. Pcs
  BY DEF IInv
<1>Cores. Cores
  BY DEF IInv
<1>Awaited. Awaited
  BY DEF IInv
<1>Written. Written
  BY DEF IInv
<1>Numbered. Numbered
  BY DEF IInv
<1>Owned. Owned
  BY DEF IInv
<1>SumKept. SumKept
  BY DEF IInv
<1>Order. Order
  BY DEF IInv
<1>Fresh. Fresh
  BY DEF IInv
<1>Differs. Differs
  BY DEF IInv
<1>Mend. Mend
  BY DEF IInv
<1>Opened. Opened
  BY DEF IInv
<1>Bools. Bools
  BY <1>Types DEF Types
<1>IInv. IInv
  OBVIOUS
<1>1. CASE SetGame
  <2>bools. Bools'
    BY <1>Bools, <1>1 DEF Bools, SetGame, Goto, fpga, rxVars, files, flush, history, chosen
  <2>stage. Stage = "none" /\ Stage' = "restore"
    BY <1>Pcs, <1>1 DEF Stage, Pcs, SetGame, Goto, fpga, rxVars, files, flush, chosen, Actors,
       Main
  <2>n. \A v \in Value : ~Answered(v) /\ ~Answered(v)'
    BY <1>Awaited, <2>stage, <1>1 DEF Awaited, Answered, SetGame, fpga, rxVars, files, flush,
       chosen
  <2>i. ~Active'
    BY <2>stage DEF Active
  <2>1. Types'
    BY <1>Types, <2>bools, <1>1 DEF Types, Actors, SetGame, fpga, rxVars, files, flush, history,
       chosen
  <2>2. Pcs'
    BY <1>Pcs, <1>1 DEF Pcs, MainPc, SaverPc, Flushing, SetGame, Goto, fpga, rxVars, files,
       flush, chosen, Actors, Saver
  <2>3. Cores'
    BY <1>Cores, <1>1 DEF Cores, SetGame, Goto, fpga, rxVars, files, flush, chosen
  <2>4. Awaited'
    BY <1>Awaited, <2>stage, <1>1 DEF Awaited, SetGame, fpga, rxVars, files, flush, chosen
  <2>5. Written'
    BY <2>stage, <1>1 DEF Written, SetGame, fpga, rxVars, files, flush, chosen
  <2>6. Numbered'
    BY <1>Numbered, <2>n, <1>1 DEF Numbered, SetGame, fpga, rxVars, files, flush, history,
       chosen
  <2>7. Owned'
    BY <1>Owned, <2>n, <2>stage, <1>1 DEF Owned, SetGame, fpga, rxVars, files, flush, chosen
  <2>8. SumKept'
    BY <2>stage, <1>1 DEF SumKept, Trusted, Copying, SetGame, fpga, rxVars, files, flush, chosen
  <2>9. Order'
    BY <2>i, <1>1 DEF Order, SetGame, fpga, rxVars, files, flush, chosen
  <2>10. Fresh'
    BY <2>i, <1>1 DEF Fresh, SetGame, fpga, rxVars, files, flush, chosen
  <2>11. Differs'
    BY <2>i, <1>1 DEF Differs, SetGame, fpga, rxVars, files, flush, chosen
  <2>12. Mend'
    BY <2>i, <1>1 DEF Mend, SetGame, fpga, rxVars, files, flush, chosen
  <2>13. Opened'
    BY <2>i, <1>1 DEF Opened, SetGame, fpga, rxVars, files, flush, chosen
  <2> QED
    BY <2>1, <2>2, <2>3, <2>4, <2>5, <2>6, <2>7, <2>8, <2>9, <2>10, <2>11, <2>12, <2>13 DEF IInv
<1>2. ASSUME NEW r, RestoredTo(r) PROVE IInv'
  <2>0. /\ Goto(Main, "restore", "start") /\ bram' = r /\ sum' = r /\ r \in Ram
        /\ faults' \in 0..MaxFaults /\ path \in Games /\ ~flag
        /\ mutex' = "free" /\ wiped' = FALSE /\ failed' = FALSE
        /\ UNCHANGED <<core, run, flag, wr, up, rx, rxBlk, blkSem, on, path, sav, tmp, strayed>>
        /\ UNCHANGED <<dirty, notify, blk, changed, sel, menu, seen>>
    BY <1>2 DEF RestoredTo, Restored, rxVars, flush, chosen
  <2>k. /\ \A b \in Block :
             \/ r[b] = Blank
             \/ \E f \in {sav[path], tmp[path]} : \E j \in 1..Len(f) : r[b] = f[j]
        /\ lapse' \in {"none", "misread"} /\ (lapse' = "none" => r = Restorable(path))
    BY <1>2 DEF RestoredTo
  <2>bools. Bools'
    BY <1>Bools, <2>0, Zenon DEF Bools
  <2>stage. Stage = "restore" /\ Stage' = "none"
    BY <1>Types, <1>Pcs, <2>0 DEF Stage, Types, Pcs, Goto, Actors, Main, Saver
  <2>n. \A v \in Value : ~Answered(v) /\ ~Answered(v)'
    BY <1>Awaited, <2>stage, <2>0 DEF Awaited, Answered
  <2>s. /\ sav[path] # NoFile => Restorable(path) = Contents(sav[path])
        /\ sav[path] = NoFile => Restorable(path) = Contents(tmp[path])
    BY DEF Restorable
  <2>1. Types'
    <3>1. lapse' \in Lapses
      BY <2>k DEF Lapses
    <3> QED
      BY <1>Types, <2>bools, <2>0, <3>1 DEF Types
  <2>2. Pcs'
    BY <1>Types, <1>Pcs, <2>0 DEF Types, Pcs, MainPc, SaverPc, Flushing, Dumping, Comparing,
       Copying, Goto, Actors, Main, Saver
  <2>3. Cores'
    BY <1>Types, <1>Pcs, <1>Cores, <2>0 DEF Types, Cores, Pcs, MainPc, SaverPc, Flushing,
       Dumping, Comparing, Copying, Goto, Actors, Main, Saver
  <2>4. Awaited'
    BY <1>Awaited, <2>stage, <2>0 DEF Awaited
  <2>5. Written'
    BY <2>stage DEF Written
  <2>6. Numbered'
    <3>1. \A b \in Block : r[b].n <= wr
      <4>1. /\ \A j \in 1..Len(sav[path]) : sav[path][j].n <= wr
            /\ \A j \in 1..Len(tmp[path]) : tmp[path][j].n <= wr
        BY <1>Numbered, <2>0 DEF Numbered
      <4>2. Blank.n <= wr
        BY <1>Types, Values DEF Types
      <4> QED
        BY <2>k, <4>1, <4>2
    <3> QED
      BY <1>Numbered, <2>n, <2>0, <3>1 DEF Numbered
  <2>7. Owned'
    <3>1. path \notin strayed => \A b \in Block : r[b].g \in {path, NoGame, Mixed}
      BY <1>Owned, <2>0, <2>k, Values DEF Owned
    <3> QED
      BY <1>Owned, <2>n, <2>0, <3>1 DEF Owned
  <2>8. SumKept'
    <3>1. \A b \in Block : r[b].n <= r[b].n
      BY <2>0, Values
    <3> QED
      BY <2>0, <2>k, <2>s, <2>stage, <3>1 DEF SumKept, Trusted, Copying
  <2>9. Order'
    BY <2>n, <2>0, <2>stage DEF Order, Copying
  <2>10. Fresh'
    BY <2>n, <2>0, <2>stage DEF Fresh, Has, Comparing, Copying
  <2>11. Differs'
    BY <2>stage DEF Differs, Comparing, Copying, Dumping
  <2>12. Mend'
    BY <2>0, <2>k, <2>s DEF Mend, Spoiled, Trusted
  <2>13. Opened'
    BY <1>Pcs, <2>stage, <2>0 DEF Opened, Menus, Pcs, MainPc, SaverPc, Flushing, Dumping,
       Comparing, Copying, Goto, Actors, Main, Saver
  <2> QED
    BY <2>1, <2>2, <2>3, <2>4, <2>5, <2>6, <2>7, <2>8, <2>9, <2>10, <2>11, <2>12, <2>13 DEF IInv
<1> QED
  BY <1>1, <1>2, Restoring

(* A flush begins; a block is asked for; a block is compared.              *)
LEMMA ComparePreserves ==
  ASSUME IInv, NEW p \in Actors, FlushLock(p) \/ Fetch(p) \/ Compare(p)
  PROVE  IInv'
<1>Types. Types
  BY DEF IInv
<1>Pcs. Pcs
  BY DEF IInv
<1>Cores. Cores
  BY DEF IInv
<1>Awaited. Awaited
  BY DEF IInv
<1>Written. Written
  BY DEF IInv
<1>Numbered. Numbered
  BY DEF IInv
<1>Owned. Owned
  BY DEF IInv
<1>SumKept. SumKept
  BY DEF IInv
<1>Order. Order
  BY DEF IInv
<1>Fresh. Fresh
  BY DEF IInv
<1>Differs. Differs
  BY DEF IInv
<1>Mend. Mend
  BY DEF IInv
<1>Opened. Opened
  BY DEF IInv
<1>Bools. Bools
  BY <1>Types DEF Types
<1>IInv. IInv
  OBVIOUS
<1>1. CASE FlushLock(p)
  <2>bools. Bools'
    BY <1>Bools, <1>1 DEF Bools, FlushLock, Goto, fpga, rxVars, game, files, history, chosen
  <2>stage. Stage = "none" /\ Stage' = "compare"
    BY <1>Pcs, <1>1 DEF Stage, Pcs, FlushLock, Goto, fpga, rxVars, game, files, chosen, Actors,
       Main, Saver
  <2>n. \A v \in Value : ~Answered(v) /\ ~Answered(v)'
    BY <1>Awaited, <2>stage, <1>1 DEF Awaited, Answered, FlushLock, fpga, rxVars, game, files,
       chosen
  <2>act. Active' <=> Active
    BY <2>stage, <1>1 DEF Active, FlushLock, fpga, rxVars, game, files, history, chosen
  <2>z. blk' = 0 /\ ~changed' /\ \A b \in Block : ~(b < 0)
    BY <1>1, Values DEF FlushLock, fpga, rxVars, game, files, chosen
  <2>h. ASSUME NEW S, S \subseteq Block PROVE Has(S)'
    <3>1. \A b \in S : ~(b < 0)
      BY <2>h, <2>z
    <3> QED
      BY <2>n, <2>stage, <2>z, <3>1 DEF Has, Copying
  <2>1. Types'
    BY <1>Types, <2>bools, NeoSaveAssumption, <1>1 DEF Types, Block, FlushLock, fpga, rxVars,
       game, files, history, chosen
  <2>2. Pcs'
    BY <1>Pcs, <1>1 DEF Pcs, MainPc, SaverPc, Flushing, Dumping, Comparing, FlushLock, Goto,
       fpga, rxVars, game, files, chosen, Actors, Main, Saver
  <2>3. Cores'
    BY <1>Cores, <1>1 DEF Cores, Flushing, FlushLock, Goto, fpga, rxVars, game, files, history,
       chosen
  <2>4. Awaited'
    BY <1>Awaited, <2>stage, <1>1 DEF Awaited, FlushLock, fpga, rxVars, game, files, chosen
  <2>5. Written'
    BY <2>stage, <1>1 DEF Written, fpga, rxVars, game, files, chosen
  <2>6. Numbered'
    BY <1>Numbered, <2>n, <1>1 DEF Numbered, FlushLock, fpga, rxVars, game, files, history,
       chosen
  <2>7. Owned'
    BY <1>Owned, <2>stage, <2>n, <1>1 DEF Owned, FlushLock, fpga, rxVars, game, files, chosen
  <2>8. SumKept'
    BY <1>SumKept, <2>stage, <1>1 DEF SumKept, Trusted, Copying, FlushLock, fpga, rxVars, game, files, chosen
  <2>9. Order'
    BY <1>Order, <2>stage, <2>n, <2>act, <1>1 DEF Order, Between, Copying, FlushLock, fpga,
       rxVars, game, files, chosen
  <2>10. Fresh'
    BY <2>stage, <2>z, <2>h, <1>1 DEF Fresh, fpga, rxVars, game, files, chosen
  <2>11. Differs'
    BY <2>stage, <2>z, <1>1 DEF Differs, Copying, fpga, rxVars, game, files, chosen
  <2>12. Mend'
    <3>1. Spoiled' <=> Spoiled
      BY <1>1 DEF Spoiled, Trusted, FlushLock, fpga, rxVars, game, files, chosen
    <3>2. \A b \in Block : b > 0 \/ b = 0
      BY NeoSaveAssumption DEF Block
    <3> QED
      BY <1>Mend, <2>stage, <2>act, <2>n, <2>z, <3>1, <3>2, <1>1 DEF Mend, FlushLock, fpga,
         rxVars, game, files, chosen
  <2>13. Opened'
    <3>1. SumHas(Old)' <=> SumHas(Old)
      BY <1>1 DEF SumHas, Old, FlushLock, fpga, rxVars, game, files, history, chosen
    <3>2. pc'[Main] \in Menus \ {"osd"} => pc'[Main] = pc[Main]
      BY <1>1 DEF Menus, FlushLock, Goto, fpga, rxVars, game, files, chosen
    <3>3. Old' = Old /\ Old \subseteq Block
      BY <1>1 DEF Old, FlushLock, fpga, rxVars, game, files, history, chosen
    <3>4. Has(Old)'
      BY <2>h, <3>3
    <3> QED
      BY <1>Opened, <2>stage, <2>act, <3>1, <3>2, <3>4, <1>1 DEF Opened, FlushLock, fpga,
         rxVars, game, files, history, chosen
  <2> QED
    BY <2>1, <2>2, <2>3, <2>4, <2>5, <2>6, <2>7, <2>8, <2>9, <2>10, <2>11, <2>12, <2>13 DEF IInv
<1>2. CASE Fetch(p)
  <2>bools. Bools'
    BY <1>Bools, <1>2 DEF Bools, Fetch, TakeBlock, AskFor, game, files, flush, history, chosen
  <2>stage. \/ Stage = "compare" /\ Stage' = "compared"
            \/ Stage = "copy" /\ Stage' = "copied"
    BY <1>Pcs, <1>2 DEF Stage, Pcs, Dumping, Comparing, Copying, Fetch, Goto, AskFor, game,
       files, flush, chosen, Actors, Main, Saver
  <2>act. Active' <=> Active
    BY <2>stage, <1>2 DEF Active, Fetch, game, files, flush, history, chosen
  <2>g. path \in Games
    BY <1>Cores, <1>2 DEF Cores, Flushing, Fetch, Goto, AskFor, game, files, flush, chosen
  <2>b. blk \in Block /\ bram[blk] \in Value
    BY <1>Types, Values DEF Types
  <2>e. (core = "neo" /\ Enqueued(Reply(blk, bram[blk]))) \/ (core # "neo" /\ up' = up)
    BY <1>Types, <2>b, <1>2, Enqueue, Values DEF Fetch, AskFor, game, files, flush, chosen
  <2>u. up' \in Seq(Frame)
    BY <1>Types, <2>e DEF Types, Enqueued
  <2>o. \A i \in 1..Len(up) : ~IsReply(up[i])
    BY <1>Awaited, <2>stage DEF Awaited
  <2>k. \A i \in 1..Len(up') : IsReply(up'[i]) =>
          core = "neo" /\ i = Len(up) + 1 /\ up'[i] = Reply(blk, bram[blk])
    BY <2>e, <2>o DEF Enqueued
  <2>a. \A v \in Value : Answered(v)' => v = bram[blk]
    BY <2>b, <2>k, <1>2, Values DEF Answered, Fetch, TakeBlock, game, files, flush, chosen
  <2>l. NoticeInFlight' <=> NoticeInFlight
    BY <2>e, <2>b, Values DEF NoticeInFlight, Enqueued
  <2>h. \A S : Has(S) => Has(S)'
    BY <2>stage, <2>a, <1>2 DEF Has, Comparing, Copying, Fetch, game, files, flush, chosen
  <2>1. Types'
    BY <1>Types, <2>bools, Values, NeoSaveAssumption, <2>u, <1>2 DEF Types, NoBlock, Fetch,
       TakeBlock, game, files, flush, history, chosen
  <2>2. Pcs'
    BY <1>Pcs, <1>2 DEF Pcs, MainPc, SaverPc, Flushing, Dumping, Comparing, Copying, Fetch,
       Goto, AskFor, game, files, flush, chosen, Actors
  <2>3. Cores'
    <3>1. /\ UNCHANGED <<core, run, on, path, sel, menu, wiped, strayed>>
          /\ (flag' => flag)
      BY <1>2 DEF Fetch, AskFor, game, files, flush, history, chosen
    <3>2. \/ pc[p] = "compare" /\ pc' = [pc EXCEPT ![p] = "compared"]
          \/ pc[p] = "copy" /\ pc' = [pc EXCEPT ![p] = "copied"]
      BY <1>2 DEF Fetch, AskFor, Goto
    <3>3. /\ pc'[p] \in {"compared", "copied"} /\ pc[p] \in {"compare", "copy"}
          /\ \A q \in Actors : q # p => pc'[q] = pc[q]
      BY <1>Pcs, <3>2 DEF Pcs
    <3>4. \A q \in Actors : pc'[q] = pc[q]
            \/ (pc'[q] \in {"compared", "copied"} /\ pc[q] \in {"compare", "copy"})
      BY <3>3
    <3>5. \A q \in Actors : pc'[q] \in Flushing <=> pc[q] \in Flushing
      BY <3>4 DEF Flushing
    <3>6. \/ pc'[Main] = pc[Main]
          \/ pc'[Main] \in {"compared", "copied"} /\ pc[Main] \in {"compare", "copy"}
      BY <3>4 DEF Actors, Main
    <3> QED
      BY <1>Cores, <3>1, <3>5, <3>6 DEF Cores
  <2>4. Awaited'
    <3>1. ~blkSem' /\ blk' = blk /\ Stage' \in {"compared", "copied"}
      BY <2>stage, <1>2 DEF Fetch, TakeBlock, flush
    <3>2. \A i \in 1..Len(up') : IsReply(up'[i]) => i = Len(up) + 1 /\ up'[i].blk = blk
      BY <2>k, <2>b, Values
    <3> QED
      BY <3>1, <3>2 DEF Awaited, IsReply
  <2>5. Written'
    BY <1>Written, <2>stage, <1>2 DEF Written, Fetch, game, files, flush, chosen
  <2>6. Numbered'
    <3>1. \A v \in Value : Answered(v)' => v.n <= wr
      BY <1>Numbered, <2>a, <2>b DEF Numbered
    <3> QED
      BY <1>Numbered, <3>1, <1>2 DEF Numbered, Fetch, game, files, flush, history, chosen
  <2>7. Owned'
    <3>1. path \in Games \ strayed => \A v \in Value : Answered(v)' => v.g \in {path, NoGame, Mixed}
      BY <1>Owned, <2>stage, <2>a, <2>b DEF Owned
    <3> QED
      BY <1>Owned, <2>stage, <3>1, <1>2 DEF Owned, Fetch, game, files, flush, chosen
  <2>8. SumKept'
    BY <1>SumKept, <2>stage, <1>2 DEF SumKept, Trusted, Copying, Fetch, game, files, flush, chosen
  <2>9. Order'
    <3>0. SUFFICES ASSUME Active PROVE \A v \in Value : Answered(v)' => Between(v, blk)
      BY <1>Order, <2>stage, <2>act, <1>2 DEF Order, Between, Copying, Fetch, game, files,
         flush, chosen
    <3>1. sum[blk].n <= bram[blk].n
      BY <1>Types, <1>Order, <2>b, <3>0, Values DEF Types, Order
    <3> QED
      BY <2>a, <3>1 DEF Between
  <2>10. Fresh'
    <3>0. SUFFICES ASSUME Active, ~Pending' PROVE ~flag' /\ Has(Block)'
      BY <2>stage, <2>act DEF Fresh
    <3>1. ~Pending
      BY <2>l, <3>0, <1>2 DEF Pending, Fetch, game, files, flush, chosen
    <3>2. core = "neo"
      BY <1>Cores, <3>0 DEF Cores, Active
    <3>3. ~flag'
      BY <1>Fresh, <3>0, <3>1, <3>2, <1>2 DEF Fresh, Fetch, AskFor, game, files, flush, chosen
    <3> QED
      BY <1>Fresh, <2>h, <3>0, <3>1, <3>3 DEF Fresh
  <2>11. Differs'
    BY <1>Differs, <2>stage, <2>act, <1>2 DEF Differs, Comparing, Copying, Dumping, Fetch, game,
       files, flush, chosen
  <2>12. Mend'
    <3>1. Spoiled' <=> Spoiled
      BY <1>2 DEF Spoiled, Trusted, Fetch, game, files, flush, chosen
    <3>2. \A v \in Value : Answered(v)' => (bram[blk] # sum[blk] => v # sum[blk])
      BY <2>a
    <3> QED
      BY <1>Mend, <2>stage, <2>act, <3>1, <3>2, <1>2 DEF Mend, Comparing, Fetch, game, files,
         flush, chosen
  <2>13. Opened'
    <3>1. SumHas(Old)' <=> SumHas(Old)
      BY <1>2 DEF SumHas, Old, Fetch, game, files, flush, history, chosen
    <3>2. pc'[Main] \in Menus \ {"osd"} => pc'[Main] = pc[Main]
      BY <1>Pcs, <1>2 DEF Menus, Pcs, Fetch, Goto, AskFor, game, files, flush, chosen, Actors
    <3>3. Old' = Old /\ Old \subseteq Block
      BY <1>2 DEF Old, Fetch, game, files, flush, history, chosen
    <3>4. pc'[Main] \in Menus \cup Dumping => pc[Main] \in Menus \cup Dumping
      BY <1>Pcs, <1>2 DEF Pcs, Dumping, Comparing, Copying, Fetch, Goto, AskFor, game, files,
         flush, chosen, Actors
    <3>5. pc'[Main] \in Menus \cup Dumping /\ Active /\ ~failed => Has(Old)'
      BY <1>Opened, <2>h, <3>3, <3>4 DEF Opened
    <3> QED
      BY <1>Opened, <2>stage, <2>act, <3>1, <3>2, <3>5, <1>2 DEF Opened, Fetch, game, files,
         flush, history, chosen
  <2> QED
    BY <2>1, <2>2, <2>3, <2>4, <2>5, <2>6, <2>7, <2>8, <2>9, <2>10, <2>11, <2>12, <2>13 DEF IInv
<1>3. CASE Compare(p)
  <2>bools. Bools'
    BY <1>Bools, <1>3 DEF Bools, Compare, TakeBlock, fpga, game, files, history, chosen
  <2>x. Stage = "compared" /\ mutex = p /\ mutex' = p
    BY <1>Pcs, <1>3 DEF Stage, Pcs, Dumping, Comparing, Compare, fpga, game, files, chosen,
       Actors, Main, Saver
  <2>y. pc'[p] = IF blk + 1 \in Block THEN "compare" ELSE "create"
    BY <1>Pcs, <1>3 DEF Pcs, Compare, Advance, fpga, game, files, chosen
  <2>z. blk' = IF blk + 1 \in Block THEN blk + 1 ELSE 0
    BY <1>3 DEF Compare, Advance, fpga, game, files, chosen
  <2>stage. /\ Stage = "compared"
            /\ \/ blk + 1 \in Block /\ Stage' = "compare" /\ blk' = blk + 1
               \/ blk + 1 \notin Block /\ Stage' = "create" /\ blk' = 0
    BY <2>x, <2>y, <2>z DEF Stage
  <2>n. \A v \in Value : ~Answered(v)'
    BY <1>Awaited, <1>3 DEF Awaited, Answered, Compare, TakeBlock, fpga, game, files, chosen
  <2>act. Active' <=> Active
    BY <2>stage, <1>3 DEF Active, Compare, fpga, game, files, history, chosen
  <2>g. path \in Games
    BY <1>Cores, <1>3 DEF Cores, Flushing, Compare, fpga, game, files, chosen
  <2>l. NoticeInFlight' <=> NoticeInFlight
    BY <1>3 DEF NoticeInFlight, Compare, fpga, game, files, chosen
  <2>b. blk \in Block /\ blk \in Nat /\ rx \in Value /\ Answered(rx)
    BY <1>Types, <1>3 DEF Types, Answered, Compare, fpga, game, files, chosen
  <2>c. (changed => changed') /\ (~changed' => rx = sum[blk]) /\ (changed' => changed \/ rx # sum[blk])
    BY <1>3 DEF Compare, fpga, game, files, chosen
  <2>m. /\ blk + 1 \in Block => \A b \in Block : b < blk + 1 => b < blk \/ b = blk
        /\ blk + 1 \notin Block => \A b \in Block : b < blk \/ b = blk
    BY <2>b, NeoSaveAssumption DEF Block
  <2>h. ASSUME NEW S, S \subseteq Block, Has(S) PROVE Has(S)'
    <3>1. blk \in S => rx = bram[blk]
      BY <2>b, <2>h DEF Has
    <3>2. ~changed => \A b \in S : b < blk => sum[b] = bram[b]
      BY <2>stage, <2>h DEF Has, Comparing
    <3>3. ~changed' => \A b \in S : b < blk \/ b = blk => sum[b] = bram[b]
      BY <2>c, <3>1, <3>2
    <3>4. UNCHANGED <<sum, bram, tmp, path>>
      BY <1>3 DEF Compare, fpga, game, files, chosen
    <3>5. CASE blk + 1 \in Block
      <4>1. \A b \in S : b < blk + 1 => b < blk \/ b = blk
        BY <2>h, <2>m, <3>5
      <4>2. ~changed' => \A b \in S : b < blk' => sum[b] = bram[b]
        BY <2>stage, <3>3, <3>5, <4>1
      <4> QED
        BY <2>stage, <2>n, <3>4, <3>5, <4>2 DEF Has, Copying
    <3>6. CASE blk + 1 \notin Block
      <4>1. ~changed' => \A b \in S : sum[b] = bram[b]
        BY <2>h, <2>m, <3>3, <3>6
      <4> QED
        BY <2>stage, <2>n, <3>4, <3>6, <4>1 DEF Has, Copying
    <3> QED
      BY <3>5, <3>6
  <2>1. Types'
    BY <1>Types, <2>bools, Values, NeoSaveAssumption, <1>3 DEF Types, NoBlock, Compare,
       TakeBlock, Advance, fpga, game, files, history, chosen
  <2>2. Pcs'
    BY <1>Pcs, <1>3 DEF Pcs, MainPc, SaverPc, Flushing, Dumping, Comparing, Compare, Advance,
       fpga, game, files, chosen
  <2>3. Cores'
    BY <1>Cores, <1>3 DEF Cores, Flushing, Compare, Advance, fpga, game, files, history, chosen
  <2>4. Awaited'
    BY <1>Awaited, <1>3 DEF Awaited, Compare, TakeBlock, fpga, game, files, chosen
  <2>5. Written'
    BY <2>stage, <1>3 DEF Written, fpga, game, files, chosen
  <2>6. Numbered'
    BY <1>Numbered, <2>n, <1>3 DEF Numbered, Compare, fpga, game, files, history, chosen
  <2>7. Owned'
    BY <1>Owned, <2>stage, <2>n, <1>3 DEF Owned, Compare, fpga, game, files, chosen
  <2>8. SumKept'
    BY <1>SumKept, <2>stage, <1>3 DEF SumKept, Trusted, Copying, Compare, fpga, game, files, chosen
  <2>9. Order'
    BY <1>Order, <2>stage, <2>n, <2>act, <1>3 DEF Order, Between, Copying, Compare, fpga, game,
       files, chosen
  <2>10. Fresh'
    <3>0. SUFFICES ASSUME Active, ~Pending' PROVE ~flag' /\ Has(Block)'
      BY <2>stage, <2>act DEF Fresh
    <3>1. ~Pending
      BY <2>l, <3>0, <1>3 DEF Pending, Compare, fpga, game, files, chosen
    <3> QED
      BY <1>Fresh, <2>h, <2>stage, <3>0, <3>1, <1>3 DEF Fresh, Compare, fpga, game, files,
         chosen
  <2>11. Differs'
    <3>0. SUFFICES ASSUME Active, changed' PROVE \E b \in Block : bram[b] # sum[b]
      BY <2>stage, <2>act, <1>3 DEF Differs, Copying, Compare, fpga, game, files, chosen
    <3>1. CASE changed
      BY <1>Differs, <2>stage, <3>0, <3>1 DEF Differs, Dumping, Comparing
    <3>2. CASE rx # sum[blk]
      <4>1. Between(rx, blk)
        BY <1>Order, <2>b, <3>0 DEF Order
      <4>2. bram[blk] # sum[blk]
        BY <1>Types, <3>2, <4>1, Values DEF Types, Between
      <4> QED
        BY <2>b, <4>2
    <3> QED
      BY <2>c, <3>0, <3>1, <3>2
  <2>12. Mend'
    <3>0. SUFFICES ASSUME Active, Spoiled
                   PROVE  /\ Stage' = "create" => changed'
                          /\ \E b \in Block :
                                bram[b] # sum[b] /\ (Stage' = "compare" /\ ~changed' => b > blk' \/ b = blk')
      <4>1. Spoiled' <=> Spoiled
        BY <1>3 DEF Spoiled, Trusted, Compare, fpga, game, files, chosen
      <4> QED
        BY <2>stage, <2>act, <2>n, <4>1, <1>3 DEF Mend, Compare, fpga, game, files, chosen
    <3>1. PICK b \in Block : bram[b] # sum[b] /\ (~changed => b > blk \/ (b = blk /\ rx # sum[b]))
      BY <1>Mend, <2>stage, <2>b, <3>0 DEF Mend, Comparing
    <3>2. ~changed' => b > blk /\ ~(b < blk) /\ b # blk
      BY <2>b, <2>c, <3>1, Values
    <3>3. b > blk => b > blk + 1 \/ b = blk + 1
      BY <2>b
    <3>4. blk + 1 \notin Block => changed'
      BY <2>m, <3>2
    <3> QED
      BY <2>stage, <3>1, <3>2, <3>3, <3>4
  <2>13. Opened'
    <3>1. SumHas(Old)' <=> SumHas(Old)
      BY <1>3 DEF SumHas, Old, Compare, fpga, game, files, history, chosen
    <3>2. pc'[Main] \in Menus \ {"osd"} => pc'[Main] = pc[Main]
      BY <1>3 DEF Menus, Compare, Advance, fpga, game, files, chosen
    <3>3. Old' = Old /\ Old \subseteq Block
      BY <1>3 DEF Old, Compare, fpga, game, files, history, chosen
    <3>4. pc'[Main] \in Menus \cup Dumping => pc[Main] \in Menus \cup Dumping
      BY <1>3 DEF Dumping, Comparing, Compare, Advance, fpga, game, files, chosen
    <3>5. pc'[Main] \in Menus \cup Dumping /\ Active /\ ~failed => Has(Old)'
      BY <1>Opened, <2>h, <3>3, <3>4 DEF Opened
    <3> QED
      BY <1>Opened, <2>stage, <2>act, <3>1, <3>2, <3>5, <1>3 DEF Opened, Compare, fpga, game,
         files, history, chosen
  <2> QED
    BY <2>1, <2>2, <2>3, <2>4, <2>5, <2>6, <2>7, <2>8, <2>9, <2>10, <2>11, <2>12, <2>13 DEF IInv
<1> QED
  BY <1>1, <1>2, <1>3

(* neosave_flush_now ends with the file f in place of the .sav: the .tmp,  *)
(* or what f_sync left of it.                                              *)
RenamedTo(p, f) ==
  /\ Renamed(p) /\ sav' = [sav EXCEPT ![path] = f] /\ dirty' = dirty
  /\ path \in Games /\ tmp[path] \in File /\ Len(tmp[path]) = Blocks
  /\ f \in File /\ Len(f) = Blocks
  /\ \A i \in 1..Blocks : f[i] = tmp[path][i] \/ f[i] = Blank
  /\ faults' \in 0..MaxFaults
  /\ lapse' \in {"none", "sync"} /\ (lapse' = "none" => f = tmp[path])

(* The file has all its blocks, each as it was written or blank.           *)
LEMMA Renaming ==
  ASSUME IInv, NEW p \in Actors, Rename(p) \/ RenameUnsynced(p)
  PROVE  \E f : RenamedTo(p, f)
<1>0. Types /\ Pcs /\ Cores /\ Written
  BY DEF IInv
<1>1. Renamed(p) /\ pc[p] = "rename" /\ dirty' = dirty
  BY DEF Rename, RenameUnsynced, Renamed, Goto
<1>2. path \in Games /\ Stage = "rename"
  BY <1>0, <1>1, Stages DEF Cores, Flushing, Dumping, Copying
<1>3. tmp[path] \in File /\ Len(tmp[path]) = Blocks
  BY <1>0, <1>2 DEF Types, Written
<1>4. CASE Rename(p)
  <2>1. faults' \in 0..MaxFaults /\ sav' = [sav EXCEPT ![path] = tmp[path]] /\ lapse' = "none"
    BY <1>0, <1>4 DEF Types, Rename
  <2>2. RenamedTo(p, tmp[path])
    BY <1>1, <1>2, <1>3, <2>1 DEF RenamedTo
  <2> QED
    BY <2>2
<1>5. CASE RenameUnsynced(p)
  <2>1. PICK f \in Cuts(tmp[path]) : sav' = [sav EXCEPT ![path] = f]
    BY <1>5 DEF RenameUnsynced
  <2>2. f \in File /\ Len(f) = Blocks /\ \A i \in 1..Blocks : f[i] = tmp[path][i] \/ f[i] = Blank
    BY <1>3, <2>1, CutFiles
  <2>3. faults' \in 0..MaxFaults /\ lapse' = "sync"
    BY <1>0, <1>5, NeoSaveAssumption DEF Types, RenameUnsynced, Fault
  <2>4. RenamedTo(p, f)
    BY <1>1, <1>2, <1>3, <2>1, <2>2, <2>3 DEF RenamedTo
  <2> QED
    BY <2>4
<1> QED
  BY <1>4, <1>5

(* Nothing is written, or the .tmp is, block by block, and renamed.        *)
LEMMA WritePreserves ==
  ASSUME IInv, NEW p \in Actors,
         SkipWrite(p) \/ CreateTmp(p) \/ Copy(p) \/ Rename(p) \/ RenameUnsynced(p)
  PROVE  IInv'
<1>Types. Types
  BY DEF IInv
<1>Pcs. Pcs
  BY DEF IInv
<1>Cores. Cores
  BY DEF IInv
<1>Awaited. Awaited
  BY DEF IInv
<1>Written. Written
  BY DEF IInv
<1>Numbered. Numbered
  BY DEF IInv
<1>Owned. Owned
  BY DEF IInv
<1>SumKept. SumKept
  BY DEF IInv
<1>Order. Order
  BY DEF IInv
<1>Fresh. Fresh
  BY DEF IInv
<1>Differs. Differs
  BY DEF IInv
<1>Mend. Mend
  BY DEF IInv
<1>Opened. Opened
  BY DEF IInv
<1>Bools. Bools
  BY <1>Types DEF Types
<1>IInv. IInv
  OBVIOUS
<1>1. CASE SkipWrite(p)
  <2>bools. Bools'
    BY <1>Bools, <1>1 DEF Bools, SkipWrite, Goto, Caller, fpga, rxVars, game, files, flush,
       history, chosen
  <2>stage. Stage = "create" /\ Stage' = "none"
    BY <1>Pcs, <1>1 DEF Stage, Pcs, Dumping, SkipWrite, Goto, fpga, rxVars, game, files, flush,
       chosen, Actors, Main, Saver
  <2>n. \A v \in Value : ~Answered(v) /\ ~Answered(v)'
    BY <1>Awaited, <2>stage, <1>1 DEF Awaited, Answered, SkipWrite, fpga, rxVars, game, files,
       flush, chosen
  <2>act. Active' <=> Active
    BY <2>stage, <1>1 DEF Active, SkipWrite, fpga, rxVars, game, files, flush, history, chosen
  <2>l. NoticeInFlight' <=> NoticeInFlight
    BY <1>1 DEF NoticeInFlight, SkipWrite, fpga, rxVars, game, files, flush, chosen
  <2>h. ASSUME NEW S, Has(S) PROVE SumHas(S)
    BY <2>h, <2>stage, <1>1 DEF Has, SumHas, SkipWrite
  <2>i. \A S : Has(S)'
    BY <2>n, <2>stage DEF Has, Comparing, Copying
  <2>1. Types'
    BY <1>Types, <2>bools, <1>1 DEF Types, SkipWrite, fpga, rxVars, game, files, flush, history,
       chosen
  <2>2. Pcs'
    BY <1>Types, <1>Pcs, <1>1 DEF Types, Pcs, MainPc, SaverPc, Dumping, Comparing, Copying,
       SkipWrite, Goto, Caller, fpga, rxVars, game, files, flush, chosen, Actors, Main, Saver
  <2>3. Cores'
    BY <1>Types, <1>Cores, <1>1 DEF Types, Cores, Flushing, SkipWrite, Goto, Caller, fpga,
       rxVars, game, files, flush, history, chosen
  <2>4. Awaited'
    BY <1>Awaited, <2>stage, <1>1 DEF Awaited, SkipWrite, fpga, rxVars, game, files, flush,
       chosen
  <2>5. Written'
    BY <2>stage, <1>1 DEF Written, fpga, rxVars, game, files, flush, chosen
  <2>6. Numbered'
    BY <1>Numbered, <2>n, <1>1 DEF Numbered, SkipWrite, fpga, rxVars, game, files, flush,
       history, chosen
  <2>7. Owned'
    BY <1>Owned, <2>stage, <2>n, <1>1 DEF Owned, SkipWrite, fpga, rxVars, game, files, flush,
       chosen
  <2>8. SumKept'
    BY <1>SumKept, <2>stage, <1>1 DEF SumKept, Trusted, Copying, SkipWrite, fpga, rxVars, game, files, flush,
       chosen
  <2>9. Order'
    BY <1>Order, <2>stage, <2>n, <2>act, <1>1 DEF Order, Between, Copying, SkipWrite, fpga,
       rxVars, game, files, flush, chosen
  <2>10. Fresh'
    <3>0. SUFFICES ASSUME Active, ~Pending'
                   PROVE  ~flag' /\ (Stage' = "none" => bram' = sum') /\ Has(Block)'
      BY <2>act DEF Fresh
    <3>1. ~Pending
      BY <2>l, <3>0, <1>1 DEF Pending, SkipWrite, fpga, rxVars, game, files, flush, chosen
    <3>2. ~flag' /\ Has(Block)
      BY <1>Fresh, <2>stage, <3>0, <3>1, <1>1 DEF Fresh, SkipWrite, fpga, rxVars, game, files,
         flush, chosen
    <3>3. bram = sum
      BY <1>Types, <2>h, <3>2 DEF Types, SumHas, Ram
    <3> QED
      BY <2>i, <3>2, <3>3, <1>1 DEF SkipWrite, fpga, rxVars, game, files, flush, chosen
  <2>11. Differs'
    BY <2>stage, <1>1 DEF Differs, Copying, SkipWrite, fpga, rxVars, game, files, flush, chosen
  <2>12. Mend'
    <3>1. ~Active \/ ~Spoiled
      BY <1>Mend, <2>stage, <1>1 DEF Mend, SkipWrite
    <3>2. Spoiled' <=> Spoiled
      BY <1>1 DEF Spoiled, Trusted, SkipWrite, fpga, rxVars, game, files, flush, chosen
    <3> QED
      BY <2>act, <3>1, <3>2 DEF Mend
  <2>13. Opened'
    <3>1. UNCHANGED <<Old, SumHas(Old), Spoiled>>
      BY <1>1 DEF Old, SumHas, Spoiled, Trusted, SkipWrite, fpga, rxVars, game, files, flush, history,
         chosen
    <3>2. pc'[Main] \in Menus \cup Dumping => pc[Main] \in Menus \cup Dumping
      BY <1>1 DEF Dumping, SkipWrite, Goto, fpga, rxVars, game, files, flush, chosen
    <3>3. Active /\ ~failed /\ pc'[Main] \in Menus \cup Dumping => SumHas(Old)
      BY <1>Opened, <2>h, <3>2 DEF Opened
    <3>4. Active => ~Spoiled
      BY <1>Mend, <2>stage, <1>1 DEF Mend, SkipWrite
    <3> QED
      BY <2>act, <2>i, <3>1, <3>3, <3>4, <1>1 DEF Opened, SkipWrite, fpga, rxVars, game, files,
         flush, history, chosen
  <2> QED
    BY <2>1, <2>2, <2>3, <2>4, <2>5, <2>6, <2>7, <2>8, <2>9, <2>10, <2>11, <2>12, <2>13 DEF IInv
<1>2. CASE CreateTmp(p)
  <2>bools. Bools'
    BY <1>Bools, <1>2 DEF Bools, CreateTmp, fpga, rxVars, game, history, chosen
  <2>stage. Stage = "create" /\ Stage' = "copy"
    BY <1>Pcs, <1>2 DEF Stage, Pcs, Dumping, CreateTmp, Goto, fpga, rxVars, game, chosen,
       Actors, Main, Saver
  <2>n. \A v \in Value : ~Answered(v) /\ ~Answered(v)'
    BY <1>Awaited, <2>stage, <1>2 DEF Awaited, Answered, CreateTmp, fpga, rxVars, game, chosen
  <2>act. Active' <=> Active
    BY <2>stage, <1>2 DEF Active, CreateTmp, fpga, rxVars, game, history, chosen
  <2>l. NoticeInFlight' <=> NoticeInFlight
    BY <1>2 DEF NoticeInFlight, CreateTmp, fpga, rxVars, game, chosen
  <2>g. path \in Games
    BY <1>Cores, <1>2 DEF Cores, Flushing, CreateTmp, Goto, fpga, rxVars, game, chosen
  <2>t. /\ tmp'[path] = NoFile /\ NoFile \in File /\ tmp' \in [Games -> File]
        /\ \A g \in Games \ {path} : tmp'[g] = tmp[g]
    BY <1>Types, <2>g, Files, <1>2 DEF Types, CreateTmp, fpga, rxVars, game, chosen
  <2>e. Len(tmp'[path]) = 0 /\ \A i : i \notin 1..Len(tmp'[path])
    BY <2>t, Files
  <2>h. \A S : Has(S)'
    BY <2>n, <2>e, <2>stage, <1>2 DEF Has, Comparing, CreateTmp, fpga, rxVars, game, chosen
  <2>1. Types'
    BY <1>Types, <2>bools, <2>t, <1>2 DEF Types, Lapses, CreateTmp, fpga, rxVars, game, history,
       chosen
  <2>2. Pcs'
    BY <1>Pcs, <1>2 DEF Pcs, MainPc, SaverPc, Flushing, Dumping, Copying, CreateTmp, Goto, fpga,
       rxVars, game, chosen
  <2>3. Cores'
    BY <1>Cores, <1>2 DEF Cores, Flushing, CreateTmp, Goto, fpga, rxVars, game, history, chosen
  <2>4. Awaited'
    BY <1>Awaited, <2>stage, <1>2 DEF Awaited, CreateTmp, fpga, rxVars, game, chosen
  <2>5. Written'
    BY <1>Written, <2>stage, <2>e, <1>2 DEF Written, CreateTmp, fpga, rxVars, game, chosen
  <2>6. Numbered'
    <3>1. \A g \in Games : \A i \in 1..Len(tmp'[g]) : tmp'[g][i].n <= wr
      BY <1>Numbered, <2>t, <2>e DEF Numbered
    <3> QED
      BY <1>Numbered, <2>n, <3>1, <1>2 DEF Numbered, CreateTmp, fpga, rxVars, game, history,
         chosen
  <2>7. Owned'
    <3>1. \A g \in Games \ strayed : \A i \in 1..Len(tmp'[g]) : tmp'[g][i].g \in {g, NoGame, Mixed}
      BY <1>Owned, <2>t, <2>e DEF Owned
    <3> QED
      BY <1>Owned, <2>stage, <2>n, <3>1, <1>2 DEF Owned, CreateTmp, fpga, rxVars, game, chosen
  <2>8. SumKept'
    BY <1>SumKept, <2>stage, <1>2 DEF SumKept, Trusted, Copying, CreateTmp, fpga, rxVars, game, chosen
  <2>9. Order'
    BY <1>Order, <2>n, <2>act, <2>e, <1>2 DEF Order, CreateTmp, fpga, rxVars, game, chosen
  <2>10. Fresh'
    <3>0. SUFFICES ASSUME Active, ~Pending'
                   PROVE  ~flag' /\ (Stage' = "none" => bram' = sum') /\ Has(Block)'
      BY <2>act DEF Fresh
    <3>1. ~Pending
      BY <2>l, <3>0, <1>2 DEF Pending, CreateTmp, fpga, rxVars, game, chosen
    <3>2. ~flag' /\ Has(Block)
      BY <1>Fresh, <2>stage, <3>0, <3>1, <1>2 DEF Fresh, CreateTmp, fpga, rxVars, game, chosen
    <3> QED
      BY <2>h, <2>stage, <3>2
  <2>11. Differs'
    BY <1>Differs, <2>stage, <2>act, <1>2 DEF Differs, Dumping, CreateTmp, fpga, rxVars, game,
       chosen
  <2>12. Mend'
    BY <1>Differs, <2>stage, <2>act, <1>2 DEF Mend, Differs, Comparing, Dumping, CreateTmp,
       fpga, rxVars, game, chosen
  <2>13. Opened'
    <3>1. SumHas(Old)' <=> SumHas(Old)
      BY <1>2 DEF SumHas, Old, CreateTmp, fpga, rxVars, game, history, chosen
    <3>2. pc'[Main] \in Menus \ {"osd"} => pc'[Main] = pc[Main]
      BY <1>2 DEF Menus, CreateTmp, Goto, fpga, rxVars, game, chosen
    <3>3. pc'[Main] \in Menus /\ pc[Main] \in Menus => pc'[Main] = pc[Main]
      BY <1>2 DEF Menus, CreateTmp, Goto, fpga, rxVars, game, chosen
    <3> QED
      BY <1>Opened, <2>stage, <2>act, <2>h, <3>1, <3>2, <1>2 DEF Opened, CreateTmp, fpga,
         rxVars, game, history, chosen
  <2> QED
    BY <2>1, <2>2, <2>3, <2>4, <2>5, <2>6, <2>7, <2>8, <2>9, <2>10, <2>11, <2>12, <2>13 DEF IInv
<1>3. CASE Copy(p)
  <2>bools. Bools'
    BY <1>Bools, <1>3 DEF Bools, Copy, TakeBlock, fpga, game, history, chosen
  <2>x. Stage = "copied" /\ mutex = p /\ mutex' = p
    BY <1>Pcs, <1>3 DEF Stage, Pcs, Dumping, Copying, Copy, fpga, game, chosen, Actors, Main,
       Saver
  <2>y. pc'[p] = IF blk + 1 \in Block THEN "copy" ELSE "rename"
    BY <1>Pcs, <1>3 DEF Pcs, Copy, Advance, fpga, game, chosen
  <2>z. blk' = IF blk + 1 \in Block THEN blk + 1 ELSE 0
    BY <1>3 DEF Copy, Advance, fpga, game, chosen
  <2>stage. /\ Stage = "copied"
            /\ \/ blk + 1 \in Block /\ Stage' = "copy" /\ blk' = blk + 1
               \/ blk + 1 \notin Block /\ Stage' = "rename" /\ blk' = 0
    BY <2>x, <2>y, <2>z DEF Stage
  <2>n. \A v \in Value : ~Answered(v)'
    BY <1>Awaited, <1>3 DEF Awaited, Answered, Copy, TakeBlock, fpga, game, chosen
  <2>act. Active' <=> Active
    BY <2>stage, <1>3 DEF Active, Copy, fpga, game, history, chosen
  <2>g. path \in Games
    BY <1>Cores, <1>3 DEF Cores, Flushing, Copy, fpga, game, chosen
  <2>l. NoticeInFlight' <=> NoticeInFlight
    BY <1>3 DEF NoticeInFlight, Copy, fpga, game, chosen
  <2>b. blk \in Block /\ blk \in Nat /\ blk < Blocks /\ rx \in Value /\ Answered(rx) /\ tmp[path] \in File
    BY <1>Types, <2>g, <1>3, NeoSaveAssumption DEF Types, Answered, Block, Copy, fpga, game,
       chosen
  <2>w. Len(tmp[path]) = blk
    BY <1>Written, <2>stage DEF Written
  <2>q. /\ Append(tmp[path], rx) \in File /\ Len(Append(tmp[path], rx)) = blk + 1
        /\ Append(tmp[path], rx)[blk + 1] = rx
        /\ \A i \in 1..blk : Append(tmp[path], rx)[i] = tmp[path][i]
    BY <2>b, <2>w, Files
  <2>t. /\ tmp'[path] = Append(tmp[path], rx) /\ Append(tmp[path], rx) \in File /\ tmp' \in [Games -> File]
        /\ \A g \in Games \ {path} : tmp'[g] = tmp[g]
    BY <1>Types, <2>g, <2>q, <1>3 DEF Types, Copy, fpga, game, chosen
  <2>e. /\ Len(tmp'[path]) = blk + 1 /\ tmp'[path][blk + 1] = rx
        /\ \A i \in 1..Len(tmp'[path]) : i = blk + 1 \/ (i \in 1..Len(tmp[path]) /\ tmp'[path][i] = tmp[path][i])
        /\ blk + 1 - 1 = blk
    BY <2>w, <2>q, <2>t
  <2>h. ASSUME NEW S, Has(S) PROVE Has(S)'
    <3>1. \A i \in 1..Len(tmp'[path]) : i - 1 \in S => tmp'[path][i] = bram[i - 1]
      <4>1. \A i \in 1..Len(tmp[path]) : i - 1 \in S => tmp[path][i] = bram[i - 1]
        BY <2>stage, <2>h DEF Has, Copying
      <4>2. blk \in S => rx = bram[blk]
        BY <2>b, <2>h DEF Has
      <4>3. ASSUME NEW i \in 1..Len(tmp'[path]), i - 1 \in S PROVE tmp'[path][i] = bram[i - 1]
        <5>1. CASE i = blk + 1
          <6>1. i - 1 = blk
            BY <2>b, <5>1
          <6> QED
            BY <2>e, <4>2, <4>3, <5>1, <6>1
        <5>2. CASE i # blk + 1
          BY <2>e, <4>1, <4>3, <5>2
        <5> QED
          BY <5>1, <5>2
      <4> QED
        BY <4>3
    <3> QED
      BY <2>n, <2>stage, <3>1, <1>3 DEF Has, Comparing, Copy, fpga, game, chosen
  <2>1. Types'
    BY <1>Types, <2>bools, Values, NeoSaveAssumption, <2>t, <1>3 DEF Types, NoBlock, Copy,
       TakeBlock, Advance, fpga, game, history, chosen
  <2>2. Pcs'
    BY <1>Pcs, <1>3 DEF Pcs, MainPc, SaverPc, Flushing, Dumping, Copying, Copy, Advance, fpga,
       game, chosen
  <2>3. Cores'
    BY <1>Cores, <1>3 DEF Cores, Flushing, Copy, Advance, fpga, game, history, chosen
  <2>4. Awaited'
    BY <1>Awaited, <1>3 DEF Awaited, Copy, TakeBlock, fpga, game, chosen
  <2>5. Written'
    <3>1. blk + 1 \notin Block => blk + 1 = Blocks
      BY <2>b, NeoSaveAssumption DEF Block
    <3>2. blk' = 0 \/ blk' = Len(tmp'[path])
      BY <2>e, <2>stage
    <3>3. Stage' = "rename" => Len(tmp'[path]) = Blocks
      BY <2>e, <2>stage, <3>1
    <3>4. Stage' = "copy" => Len(tmp'[path]) = blk'
      BY <2>e, <2>stage
    <3> QED
      BY <2>stage, <3>3, <3>4, <1>3 DEF Written, Copy, fpga, game, chosen
  <2>6. Numbered'
    <3>1. rx.n <= wr /\ \A i \in 1..Len(tmp[path]) : tmp[path][i].n <= wr
      BY <1>Numbered, <2>b, <2>g DEF Numbered
    <3>2. \A g \in Games : \A i \in 1..Len(tmp'[g]) : tmp'[g][i].n <= wr
      BY <1>Numbered, <2>t, <3>1 DEF Numbered
    <3> QED
      BY <1>Numbered, <2>n, <3>2, <1>3 DEF Numbered, Copy, fpga, game, history, chosen
  <2>7. Owned'
    <3>1. path \notin strayed =>
            /\ rx.g \in {path, NoGame, Mixed}
            /\ \A i \in 1..Len(tmp[path]) : tmp[path][i].g \in {path, NoGame, Mixed}
      BY <1>Owned, <2>b, <2>g DEF Owned
    <3>2. \A g \in Games \ strayed : \A i \in 1..Len(tmp'[g]) : tmp'[g][i].g \in {g, NoGame, Mixed}
      BY <1>Owned, <2>t, <2>e, <3>1 DEF Owned
    <3> QED
      BY <1>Owned, <2>stage, <2>n, <3>2, <1>3 DEF Owned, Copy, fpga, game, chosen
  <2>8. SumKept'
    BY <1>SumKept, <2>stage, <1>3 DEF SumKept, Trusted, Copying, Copy, fpga, game, chosen
  <2>9. Order'
    <3>0. SUFFICES ASSUME Active PROVE \A i \in 1..Len(tmp'[path]) : Between(tmp'[path][i], i - 1)
      BY <1>Order, <2>n, <2>act, <1>3 DEF Order, Between, Copy, fpga, game, chosen
    <3>1. Between(rx, blk) /\ \A i \in 1..Len(tmp[path]) : Between(tmp[path][i], i - 1)
      BY <1>Order, <2>stage, <2>b, <3>0 DEF Order, Copying
    <3>2. ASSUME NEW i \in 1..Len(tmp'[path]) PROVE Between(tmp'[path][i], i - 1)
      <4>1. CASE i = blk + 1
        <5>1. i - 1 = blk
          BY <2>b, <4>1
        <5> QED
          BY <2>e, <3>1, <4>1, <5>1
      <4>2. CASE i # blk + 1
        BY <2>e, <3>1, <4>2
      <4> QED
        BY <4>1, <4>2
    <3> QED
      BY <3>2
  <2>10. Fresh'
    <3>0. SUFFICES ASSUME Active, ~Pending'
                   PROVE  ~flag' /\ (Stage' = "none" => bram' = sum') /\ Has(Block)'
      BY <2>act DEF Fresh
    <3>1. ~Pending
      BY <2>l, <3>0, <1>3 DEF Pending, Copy, fpga, game, chosen
    <3>2. ~flag' /\ Has(Block)
      BY <1>Fresh, <2>stage, <3>0, <3>1, <1>3 DEF Fresh, Copy, fpga, game, chosen
    <3> QED
      BY <2>h, <2>stage, <3>2
  <2>11. Differs'
    BY <1>Differs, <2>stage, <2>act, <1>3 DEF Differs, Copying, Copy, fpga, game, chosen
  <2>12. Mend'
    BY <1>Differs, <2>stage, <2>act, <1>3 DEF Mend, Differs, Comparing, Copying, Copy, fpga,
       game, chosen
  <2>13. Opened'
    <3>1. SumHas(Old)' <=> SumHas(Old)
      BY <1>3 DEF SumHas, Old, Copy, fpga, game, history, chosen
    <3>2. pc'[Main] \in Menus \ {"osd"} => pc'[Main] = pc[Main]
      BY <1>3 DEF Menus, Copy, Advance, fpga, game, chosen
    <3>3. Old' = Old /\ Old \subseteq Block
      BY <1>3 DEF Old, Copy, fpga, game, history, chosen
    <3>4. pc'[Main] \in Menus \cup Dumping => pc[Main] \in Menus \cup Dumping
      BY <1>3 DEF Dumping, Copying, Copy, Advance, fpga, game, chosen
    <3>5. pc'[Main] \in Menus \cup Dumping /\ Active /\ ~failed => Has(Old)'
      BY <1>Opened, <2>h, <3>3, <3>4 DEF Opened
    <3> QED
      BY <1>Opened, <2>stage, <2>act, <3>1, <3>2, <3>5, <1>3 DEF Opened, Copy, fpga, game,
         history, chosen
  <2> QED
    BY <2>1, <2>2, <2>3, <2>4, <2>5, <2>6, <2>7, <2>8, <2>9, <2>10, <2>11, <2>12, <2>13 DEF IInv
<1>4. ASSUME NEW f, RenamedTo(p, f) PROVE IInv'
  <2>0. /\ Goto(p, "rename", Caller(p))
        /\ sav' = [sav EXCEPT ![path] = f] /\ tmp' = [tmp EXCEPT ![path] = NoFile]
        /\ sum' = Contents(tmp[path]) /\ mutex' = "free"
        /\ UNCHANGED <<core, run, bram, flag, wr, up, rx, rxBlk, blkSem, on, path, strayed>>
        /\ UNCHANGED <<dirty, notify, blk, changed, sel, menu, wiped, failed, seen>>
    BY <1>4 DEF RenamedTo, Renamed, fpga, rxVars, flush, chosen
  <2>k. /\ path \in Games /\ tmp[path] \in File /\ Len(tmp[path]) = Blocks
        /\ f \in File /\ Len(f) = Blocks
        /\ \A i \in 1..Blocks : f[i] = tmp[path][i] \/ f[i] = Blank
        /\ faults' \in 0..MaxFaults
        /\ lapse' \in {"none", "sync"} /\ (lapse' = "none" => f = tmp[path])
    BY <1>4 DEF RenamedTo
  <2>bools. Bools'
    BY <1>Bools, <2>0 DEF Bools
  <2>stage. Stage = "rename" /\ Stage' = "none"
    BY <1>Pcs, <2>0 DEF Stage, Pcs, Dumping, Copying, Goto,
       Actors, Main, Saver
  <2>n. \A v \in Value : ~Answered(v) /\ ~Answered(v)'
    BY <1>Awaited, <2>stage, <2>0 DEF Awaited, Answered
  <2>act. Active' <=> Active
    BY <2>stage, <2>0 DEF Active
  <2>l. NoticeInFlight' <=> NoticeInFlight
    BY <2>0 DEF NoticeInFlight
  <2>g. path \in Games
    BY <2>k
  <2>t. /\ tmp'[path] = NoFile /\ NoFile \in File /\ tmp' \in [Games -> File]
        /\ \A g \in Games \ {path} : tmp'[g] = tmp[g]
    BY <1>Types, <2>g, Files, <2>0 DEF Types
  <2>e. Len(tmp'[path]) = 0 /\ \A i : i \notin 1..Len(tmp'[path])
    BY <2>t, Files
  <2>f. tmp[path] \in File /\ Len(tmp[path]) = Blocks /\ sum' = Contents(tmp[path])
    BY <2>0, <2>k
  <2>v. /\ sav'[path] = f /\ sav' \in [Games -> File]
        /\ \A g \in Games \ {path} : sav'[g] = sav[g]
        /\ sav'[path] # NoFile
    BY <1>Types, <2>0, <2>k, Files, NeoSaveAssumption DEF Types
  <2>b. \A b \in Block : b + 1 \in 1..Len(tmp[path]) /\ b + 1 - 1 = b /\ b < Len(tmp[path])
    BY <2>f DEF Block
  <2>p. ASSUME NEW b \in Block PROVE \E i \in 1..Len(tmp[path]) : i = b + 1 /\ i - 1 = b
    <3>1. PICK j : j = b + 1
      OBVIOUS
    <3>2. j \in 1..Len(tmp[path]) /\ j - 1 = b
      BY <2>f, <2>p, <3>1, NeoSaveAssumption DEF Block
    <3> QED
      BY <3>1, <3>2
  <2>s. sum' \in Ram /\ \A b \in Block : sum'[b] = tmp[path][b + 1]
    BY <2>f, <2>b, Files
  <2>h. ASSUME NEW S, S \subseteq Block, Has(S) PROVE \A b \in S : sum'[b] = bram[b]
    <3>1. \A i \in 1..Len(tmp[path]) : i - 1 \in S => tmp[path][i] = bram[i - 1]
      BY <2>h, <2>stage DEF Has, Copying
    <3>2. ASSUME NEW b \in S PROVE sum'[b] = bram[b]
      <4>1. PICK i \in 1..Len(tmp[path]) : i = b + 1 /\ i - 1 = b
        BY <2>h, <2>p, <3>2
      <4> QED
        BY <2>h, <2>s, <3>1, <3>2, <4>1
    <3> QED
      BY <3>2
  <2>i. \A S : Has(S)'
    BY <2>n, <2>stage DEF Has, Comparing, Copying
  <2>1. Types'
    <3>1. lapse' \in Lapses /\ faults' \in 0..MaxFaults
      BY <2>k DEF Lapses
    <3>2. sav' \in [Games -> File] /\ tmp' \in [Games -> File] /\ sum' \in Ram
      BY <2>t, <2>s, <2>v
    <3> QED
      BY <1>Types, <2>bools, <2>0, <3>1, <3>2 DEF Types
  <2>2. Pcs'
    BY <1>Types, <1>Pcs, <2>0 DEF Types, Pcs, MainPc, SaverPc, Dumping, Comparing, Copying,
       Goto, Caller, Actors, Main, Saver
  <2>3. Cores'
    BY <1>Types, <1>Cores, <2>0 DEF Types, Cores, Flushing, Goto, Caller
  <2>4. Awaited'
    BY <1>Awaited, <2>stage, <2>0 DEF Awaited
  <2>5. Written'
    BY <2>stage, <2>0 DEF Written
  <2>6. Numbered'
    <3>1. \A i \in 1..Len(tmp[path]) : tmp[path][i].n <= wr
      BY <1>Numbered, <2>g DEF Numbered
    <3>4. \A i \in 1..Len(f) : f[i].n <= wr
      <4>1. Blank.n <= wr
        BY <1>Types, Values DEF Types
      <4> QED
        BY <2>k, <3>1, <4>1
    <3>2. \A g \in Games : /\ \A i \in 1..Len(sav'[g]) : sav'[g][i].n <= wr
                           /\ \A i \in 1..Len(tmp'[g]) : tmp'[g][i].n <= wr
      BY <1>Numbered, <2>t, <2>e, <2>v, <3>4 DEF Numbered
    <3>3. \A b \in Block : sum'[b].n <= wr
      BY <2>b, <2>s, <3>1
    <3> QED
      BY <1>Numbered, <2>n, <3>2, <3>3, <2>0 DEF Numbered
  <2>7. Owned'
    <3>1. path \notin strayed => \A i \in 1..Len(f) : f[i].g \in {path, NoGame, Mixed}
      BY <1>Owned, <2>k, Values DEF Owned
    <3>2. \A g \in Games \ strayed :
                           /\ \A i \in 1..Len(sav'[g]) : sav'[g][i].g \in {g, NoGame, Mixed}
                           /\ \A i \in 1..Len(tmp'[g]) : tmp'[g][i].g \in {g, NoGame, Mixed}
      BY <1>Owned, <2>t, <2>e, <2>v, <3>1 DEF Owned
    <3> QED
      BY <1>Owned, <2>stage, <2>n, <3>2, <2>0 DEF Owned
  <2>8. SumKept'
    <3>1. ASSUME NEW b \in Block PROVE Contents(f)[b].n <= sum'[b].n
      <4>1. PICK i \in 1..Len(tmp[path]) : i = b + 1 /\ i - 1 = b
        BY <2>p
      <4>2. Contents(f)[b] = f[i] /\ sum'[b] = tmp[path][i]
        BY <2>b, <2>k, <2>s, <4>1, Files
      <4>3. f[i] = tmp[path][i] \/ f[i] = Blank
        BY <2>k, <4>1
      <4>4. tmp[path][i] \in Value
        BY <2>k, <4>1, Files
      <4> QED
        BY <4>2, <4>3, <4>4, Values
    <3>2. lapse' # "sync" => sum' = Contents(sav'[path])
      BY <2>f, <2>k, <2>v
    <3> QED
      BY <2>0, <2>v, <3>1, <3>2 DEF SumKept, Trusted
  <2>9. Order'
    <3>0. SUFFICES ASSUME Active PROVE \A b \in Block : sum'[b] = bram[b] \/ sum'[b].n < bram[b].n
      BY <2>stage, <2>n, <2>act, <2>0 DEF Order, Copying
    <3>1. \A i \in 1..Len(tmp[path]) : Between(tmp[path][i], i - 1)
      BY <1>Order, <2>stage, <3>0 DEF Order, Copying
    <3>2. ASSUME NEW b \in Block PROVE sum'[b] = bram[b] \/ sum'[b].n < bram[b].n
      <4>1. PICK i \in 1..Len(tmp[path]) : i = b + 1 /\ i - 1 = b
        BY <2>p
      <4>2. Between(tmp[path][i], b)
        BY <3>1, <4>1
      <4> QED
        BY <2>s, <4>1, <4>2 DEF Between
    <3> QED
      BY <3>2
  <2>10. Fresh'
    <3>0. SUFFICES ASSUME Active, ~Pending'
                   PROVE  ~flag' /\ (Stage' = "none" => bram' = sum') /\ Has(Block)'
      BY <2>act DEF Fresh
    <3>1. ~Pending
      BY <2>l, <3>0, <2>0 DEF Pending
    <3>2. ~flag' /\ Has(Block)
      BY <1>Fresh, <2>stage, <3>0, <3>1, <2>0 DEF Fresh
    <3>3. \A b \in Block : sum'[b] = bram[b]
      BY <2>h, <3>2
    <3>4. bram = sum'
      BY <1>Types, <2>s, <3>3 DEF Types, Ram
    <3> QED
      BY <2>i, <3>2, <3>4, <2>0
  <2>11. Differs'
    BY <2>stage, <2>0 DEF Differs, Dumping, Comparing, Copying
  <2>12. Mend'
    BY <2>v, <2>0 DEF Mend, Spoiled, Trusted
  <2>13. Opened'
    <3>1. Old' = Old /\ Old \subseteq Block
      BY <2>0 DEF Old
    <3>2. pc'[Main] \in Menus \cup Dumping => pc[Main] \in Menus \cup Dumping
      BY <2>0 DEF Dumping, Copying, Goto
    <3>3. ASSUME Active, ~failed, pc'[Main] \in Menus \cup Dumping PROVE SumHas(Old)'
      <4>1. Has(Old)
        BY <1>Opened, <3>2, <3>3 DEF Opened
      <4>2. \A b \in Old : sum'[b] = bram[b]
        BY <2>h, <3>1, <4>1
      <4> QED
        BY <3>1, <4>2, <2>0 DEF SumHas
    <3>4. ~Spoiled'
      BY <2>v, <2>0 DEF Spoiled, Trusted
    <3> QED
      BY <2>act, <2>i, <3>3, <3>4, <2>0 DEF Opened
  <2> QED
    BY <2>1, <2>2, <2>3, <2>4, <2>5, <2>6, <2>7, <2>8, <2>9, <2>10, <2>11, <2>12, <2>13 DEF IInv
<1> QED
  BY <1>1, <1>2, <1>3, <1>4, Renaming

(* A flush gives up.                                                       *)
LEMMA FailPreserves ==
  ASSUME IInv, NEW p \in Actors, FetchFails(p) \/ WriteFails(p) \/ RenameFails(p)
  PROVE  IInv'
<1>Types. Types
  BY DEF IInv
<1>Pcs. Pcs
  BY DEF IInv
<1>Cores. Cores
  BY DEF IInv
<1>Awaited. Awaited
  BY DEF IInv
<1>Written. Written
  BY DEF IInv
<1>Numbered. Numbered
  BY DEF IInv
<1>Owned. Owned
  BY DEF IInv
<1>SumKept. SumKept
  BY DEF IInv
<1>Order. Order
  BY DEF IInv
<1>Fresh. Fresh
  BY DEF IInv
<1>Differs. Differs
  BY DEF IInv
<1>Mend. Mend
  BY DEF IInv
<1>Opened. Opened
  BY DEF IInv
<1>Bools. Bools
  BY <1>Types DEF Types
<1>IInv. IInv
  OBVIOUS
<1>1. CASE FetchFails(p)
  <2>bools. Bools'
    BY <1>Bools, <1>1 DEF Bools, FetchFails, Caller, TakeBlock, Fail, fpga, game, files, chosen
  <2>stage. Stage \in {"compared", "copied"} /\ Stage' = "none"
    BY <1>Pcs, <1>1 DEF Stage, Pcs, Dumping, Comparing, Copying, FetchFails, Fail, fpga, game,
       files, chosen, Actors, Main, Saver
  <2>n. \A v \in Value : ~Answered(v)'
    <3>1. blkSem => \A i \in 1..Len(up) : ~IsReply(up[i])
      BY <1>Awaited DEF Awaited
    <3>2. up = <<>> => Len(up) = 0 /\ \A i : i \notin 1..Len(up)
      BY EmptySeq
    <3> QED
      BY <3>1, <3>2, <1>1 DEF Answered, FetchFails, TakeBlock, fpga, game, files, chosen
  <2>act. Active' <=> Active
    BY <2>stage, <1>1 DEF Active, FetchFails, fpga, game, files, chosen
  <2>h. dirty' /\ failed' /\ blk' = 0 /\ ~changed'
    BY <1>1 DEF FetchFails, Fail, fpga, game, files, chosen
  <2>1. Types'
    BY <1>Types, <2>bools, NeoSaveAssumption, Values, <1>1 DEF Types, NoBlock, FetchFails,
       TakeBlock, Fail, fpga, game, files, chosen
  <2>2. Pcs'
    BY <1>Types, <1>Pcs, <1>1 DEF Types, Pcs, MainPc, SaverPc, Dumping, Comparing, Copying,
       FetchFails, Caller, Fail, fpga, game, files, chosen, Actors, Main, Saver
  <2>3. Cores'
    BY <1>Types, <1>Cores, <1>1 DEF Types, Cores, Flushing, FetchFails, Caller, Fail, fpga,
       game, files, chosen
  <2>4. Awaited'
    <3>1. ~blkSem' /\ \A i \in 1..Len(up') : ~IsReply(up'[i])
      <4>1. blkSem => \A i \in 1..Len(up) : ~IsReply(up[i])
        BY <1>Awaited DEF Awaited
      <4>2. up = <<>> => Len(up) = 0 /\ \A i : i \notin 1..Len(up)
        BY EmptySeq
      <4> QED
        BY <4>1, <4>2, <1>1 DEF FetchFails, TakeBlock, fpga, game, files, chosen
    <3> QED
      BY <3>1 DEF Awaited
  <2>5. Written'
    BY <2>stage, <1>1 DEF Written, fpga, game, files, chosen
  <2>6. Numbered'
    BY <1>Numbered, <2>n, <1>1 DEF Numbered, FetchFails, fpga, game, files, chosen
  <2>7. Owned'
    BY <1>Owned, <2>stage, <2>n, <1>1 DEF Owned, FetchFails, fpga, game, files, chosen
  <2>8. SumKept'
    BY <1>SumKept, <2>stage, <1>1 DEF SumKept, Trusted, Copying, FetchFails, fpga, game, files, chosen
  <2>9. Order'
    BY <1>Order, <2>stage, <2>n, <2>act, <1>1 DEF Order, Between, Copying, FetchFails, fpga,
       game, files, chosen
  <2>10. Fresh'
    BY <2>h, <1>1 DEF Fresh, Pending, fpga, game, files, chosen
  <2>11. Differs'
    BY <2>stage, <1>1 DEF Differs, Copying, FetchFails, Fail, fpga, game, files, chosen
  <2>12. Mend'
    <3>1. Spoiled' <=> Spoiled
      BY <1>1 DEF Spoiled, Trusted, FetchFails, fpga, game, files, chosen
    <3> QED
      BY <1>Mend, <2>stage, <2>act, <2>h, <3>1, <1>1 DEF Mend, Comparing, FetchFails, fpga,
         game, files, chosen
  <2>13. Opened'
    BY <2>h, <1>1 DEF Opened, fpga, game, files, chosen
  <2> QED
    BY <2>1, <2>2, <2>3, <2>4, <2>5, <2>6, <2>7, <2>8, <2>9, <2>10, <2>11, <2>12, <2>13 DEF IInv
<1>2. CASE WriteFails(p)
  <2>0. /\ pc' = [pc EXCEPT ![p] = Caller(p)] /\ mutex' = "free"
        /\ dirty' /\ failed' = TRUE /\ blk' = 0 /\ changed' = FALSE
        /\ blkSem' = FALSE /\ rx' = Blank /\ rxBlk' = NoBlock
        /\ UNCHANGED <<core, run, bram, flag, wr, up, on, path, sum, sav, strayed>>
        /\ UNCHANGED <<notify, sel, menu, wiped, seen>>
    BY <1>2 DEF WriteFails, TakeBlock, Fail, fpga, game, chosen
  <2>f. dirty' \in BOOLEAN /\ faults' \in 0..MaxFaults
    <3>1. faults < MaxFaults /\ faults' = faults + 1 /\ dirty' = TRUE
      BY <1>2 DEF WriteFails, Fault, Fail
    <3> QED
      BY <1>Types, <3>1, NeoSaveAssumption DEF Types
  <2>z. (pc[p] = "create" /\ changed) \/ (pc[p] = "copied" /\ blkSem)
    BY <1>2 DEF WriteFails
  <2>bools. Bools'
    BY <1>Bools, <2>0, <2>f DEF Bools
  <2>x. mutex = p /\ Stage = pc[p]
    BY <1>Types, <1>Pcs, <2>z, Stages DEF Dumping, Copying
  <2>stage. /\ Stage \in {"create", "copied"} /\ (Stage = "copied" => blkSem) /\ Stage' = "none"
            /\ Stage = "create" => changed
    BY <2>x, <2>z, <2>0 DEF Stage
  <2>g. path \in Games /\ tmp[path] \in File
    BY <1>Types, <1>Cores, <2>z DEF Types, Cores, Flushing
  <2>t. PICK t \in File : /\ tmp' = [tmp EXCEPT ![path] = t]
                         /\ \A i \in 1..Len(t) : i \in 1..Len(tmp[path]) /\ (t[i] = tmp[path][i] \/ t[i] = Blank)
    <3>1. CASE pc[p] = "create"
      <4>1. tmp' \in {tmp, [tmp EXCEPT ![path] = NoFile]}
        BY <1>2, <3>1 DEF WriteFails
      <4>2. tmp = [tmp EXCEPT ![path] = tmp[path]]
        BY <1>Types, <2>g DEF Types
      <4> QED
        BY <2>g, <4>1, <4>2, Files
    <3>2. CASE pc[p] = "copied"
      <4>1. PICK c \in Cuts(tmp[path]) : tmp' = [tmp EXCEPT ![path] = c]
        BY <1>2, <3>2 DEF WriteFails
      <4> QED
        BY <2>g, <4>1, CutFiles
    <3> QED
      BY <2>z, <3>1, <3>2
  <2>u. tmp'[path] = t /\ tmp' \in [Games -> File] /\ \A g \in Games \ {path} : tmp'[g] = tmp[g]
    BY <1>Types, <2>g, <2>t DEF Types
  <2>l. /\ lapse' \in {lapse, "lone"} /\ (sav[path] # NoFile => lapse' = lapse)
        /\ sav[path] = NoFile /\ lapse' = "none" => lapse = "none" /\ tmp' = tmp
    <3>1. CASE pc[p] = "create"
      BY <1>2, <3>1 DEF WriteFails
    <3>2. CASE pc[p] = "copied"
      <4>1. lapse' = lapse
        BY <1>2, <3>2 DEF WriteFails
      <4>2. sav[path] = NoFile => lapse = "lone"
        BY <1>SumKept, <2>g, <2>x, <3>2 DEF SumKept, Copying
      <4> QED
        BY <4>1, <4>2
    <3> QED
      BY <2>z, <3>1, <3>2
  <2>o. ~blkSem' /\ \A i \in 1..Len(up') : ~IsReply(up'[i])
    <3>1. \A i \in 1..Len(up) : ~IsReply(up[i])
      BY <1>Awaited, <2>stage DEF Awaited
    <3> QED
      BY <3>1, <2>0
  <2>n. \A v \in Value : ~Answered(v)'
    BY <2>o DEF Answered
  <2>act. Active' <=> Active
    BY <2>stage, <2>0 DEF Active
  <2>1. Types'
    <3>1. lapse' \in Lapses
      BY <1>Types, <2>l DEF Types, Lapses
    <3>2. blk' \in Block /\ rx' \in Value /\ rxBlk' \in 0..Blocks
      BY <2>0, Values, NeoSaveAssumption DEF NoBlock
    <3> QED
      BY <1>Types, <2>bools, <2>0, <2>f, <2>u, <3>1, <3>2 DEF Types
  <2>2. Pcs'
    BY <1>Types, <1>Pcs, <2>z, <2>0 DEF Types, Pcs, MainPc, SaverPc, Dumping, Comparing, Copying,
       Caller, Actors, Main, Saver
  <2>3. Cores'
    BY <1>Types, <1>Cores, <2>z, <2>0 DEF Types, Cores, Flushing, Caller
  <2>4. Awaited'
    BY <2>o DEF Awaited
  <2>5. Written'
    BY <2>stage DEF Written
  <2>6. Numbered'
    <3>1. \A i \in 1..Len(t) : t[i].n <= wr
      <4>1. Blank.n <= wr /\ \A i \in 1..Len(tmp[path]) : tmp[path][i].n <= wr
        BY <1>Types, <1>Numbered, <2>g, Values DEF Types, Numbered
      <4> QED
        BY <2>t, <4>1
    <3> QED
      BY <1>Numbered, <2>n, <2>u, <2>0, <3>1 DEF Numbered
  <2>7. Owned'
    <3>1. path \notin strayed => \A i \in 1..Len(t) : t[i].g \in {path, NoGame, Mixed}
      BY <1>Owned, <2>g, <2>t, Values DEF Owned
    <3> QED
      BY <1>Owned, <2>stage, <2>n, <2>u, <2>0, <3>1 DEF Owned
  <2>8. SumKept'
    <3>1. Stage # "restore" /\ Stage' \notin Copying
      BY <2>stage DEF Copying
    <3> QED
      BY <1>SumKept, <2>g, <2>l, <2>0, <3>1 DEF SumKept, Trusted
  <2>9. Order'
    BY <1>Order, <2>stage, <2>n, <2>act, <2>0 DEF Order, Between, Copying
  <2>10. Fresh'
    BY <2>0 DEF Fresh, Pending
  <2>11. Differs'
    BY <2>stage DEF Differs, Dumping, Comparing, Copying
  <2>12. Mend'
    <3>1. Active => \E b \in Block : bram[b] # sum[b]
      BY <1>Differs, <2>stage DEF Differs, Dumping, Copying
    <3> QED
      BY <2>stage, <2>act, <2>0, <3>1 DEF Mend, Comparing
  <2>13. Opened'
    BY <2>0 DEF Opened
  <2> QED
    BY <2>1, <2>2, <2>3, <2>4, <2>5, <2>6, <2>7, <2>8, <2>9, <2>10, <2>11, <2>12, <2>13 DEF IInv
<1>3. CASE RenameFails(p)
  <2>0. /\ pc' = [pc EXCEPT ![p] = Caller(p)] /\ mutex' = "free"
        /\ dirty' /\ failed' = TRUE /\ blk' = 0 /\ changed' = FALSE
        /\ UNCHANGED <<core, run, bram, flag, wr, up, rx, rxBlk, blkSem, on, path, sum, strayed>>
        /\ UNCHANGED <<notify, sel, menu, wiped, seen>>
    BY <1>3 DEF RenameFails, Fail, fpga, rxVars, game, chosen
  <2>f. dirty' \in BOOLEAN /\ faults' \in 0..MaxFaults
    <3>1. faults < MaxFaults /\ faults' = faults + 1 /\ dirty' = TRUE
      BY <1>3 DEF RenameFails, Fault, Fail
    <3> QED
      BY <1>Types, <3>1, NeoSaveAssumption DEF Types
  <2>z. pc[p] = "rename" /\ sav' \in {sav, [sav EXCEPT ![path] = NoFile]}
    BY <1>3 DEF RenameFails
  <2>bools. Bools'
    BY <1>Bools, <2>0, <2>f DEF Bools
  <2>x. mutex = p /\ Stage = pc[p]
    BY <1>Types, <1>Pcs, <2>z, Stages DEF Dumping, Copying
  <2>stage. Stage \in {"rename"} /\ Stage' = "none"
    BY <2>x, <2>z, <2>0 DEF Stage
  <2>n. \A v \in Value : ~Answered(v)'
    BY <1>Awaited, <2>stage, <2>0 DEF Awaited, Answered
  <2>act. Active' <=> Active
    BY <2>stage, <2>0 DEF Active
  <2>g. path \in Games /\ tmp[path] \in File
    BY <1>Types, <1>Cores, <2>z DEF Types, Cores, Flushing
  <2>t. PICK t \in Cuts(tmp[path]) : tmp' = [tmp EXCEPT ![path] = t]
    BY <1>3 DEF RenameFails
  <2>c. /\ t \in File /\ Len(t) = Len(tmp[path])
        /\ \A i \in 1..Len(t) : t[i] = tmp[path][i] \/ t[i] = Blank
    BY <2>g, CutFiles
  <2>u. tmp'[path] = t /\ tmp' \in [Games -> File] /\ \A g \in Games \ {path} : tmp'[g] = tmp[g]
    BY <1>Types, <2>g, <2>t, <2>c DEF Types
  <2>v. /\ sav' \in [Games -> File] /\ \A g \in Games \ {path} : sav'[g] = sav[g]
        /\ sav'[path] \in {NoFile, sav[path]}
    BY <1>Types, <2>g, <2>z, Files DEF Types
  <2>l. /\ sav'[path] # NoFile => sav'[path] = sav[path] /\ lapse' = lapse
        /\ sav'[path] = NoFile => lapse' \in {"sync", "rename"}
    BY <1>3, <2>v DEF RenameFails
  <2>1. Types'
    <3>1. lapse' \in Lapses
      BY <1>Types, <2>l DEF Types, Lapses
    <3>2. blk' \in Block
      BY <2>0, Values
    <3> QED
      BY <1>Types, <2>bools, <2>0, <2>f, <2>u, <2>v, <3>1, <3>2 DEF Types
  <2>2. Pcs'
    BY <1>Types, <1>Pcs, <2>z, <2>0 DEF Types, Pcs, MainPc, SaverPc, Dumping, Comparing, Copying,
       Caller, Actors, Main, Saver
  <2>3. Cores'
    BY <1>Types, <1>Cores, <2>z, <2>0 DEF Types, Cores, Flushing, Caller
  <2>4. Awaited'
    BY <1>Awaited, <2>stage, <2>0 DEF Awaited
  <2>5. Written'
    BY <2>stage DEF Written
  <2>6. Numbered'
    <3>1. \A i \in 1..Len(t) : t[i].n <= wr
      <4>1. Blank.n <= wr /\ \A i \in 1..Len(tmp[path]) : tmp[path][i].n <= wr
        BY <1>Types, <1>Numbered, <2>g, Values DEF Types, Numbered
      <4> QED
        BY <2>c, <4>1
    <3>2. \A g \in Games : \A i \in 1..Len(sav'[g]) : sav'[g][i].n <= wr
      <4>1. \A i : i \notin 1..Len(NoFile)
        BY Files
      <4> QED
        BY <1>Numbered, <2>v, <4>1 DEF Numbered
    <3> QED
      BY <1>Numbered, <2>n, <2>u, <2>0, <3>1, <3>2 DEF Numbered
  <2>7. Owned'
    <3>1. path \notin strayed => \A i \in 1..Len(t) : t[i].g \in {path, NoGame, Mixed}
      BY <1>Owned, <2>g, <2>c, Values DEF Owned
    <3>2. \A g \in Games \ strayed : \A i \in 1..Len(sav'[g]) : sav'[g][i].g \in {g, NoGame, Mixed}
      <4>1. \A i : i \notin 1..Len(NoFile)
        BY Files
      <4> QED
        BY <1>Owned, <2>v, <4>1 DEF Owned
    <3> QED
      BY <1>Owned, <2>stage, <2>n, <2>u, <2>0, <3>1, <3>2 DEF Owned
  <2>8. SumKept'
    <3>1. Stage # "restore" /\ Stage' \notin Copying
      BY <2>stage DEF Copying
    <3> QED
      BY <1>SumKept, <2>g, <2>l, <2>0, <3>1 DEF SumKept, Trusted
  <2>9. Order'
    BY <1>Order, <2>stage, <2>n, <2>act, <2>0 DEF Order, Between, Copying
  <2>10. Fresh'
    BY <2>0 DEF Fresh, Pending
  <2>11. Differs'
    BY <2>stage DEF Differs, Dumping, Comparing, Copying
  <2>12. Mend'
    <3>1. Active => \E b \in Block : bram[b] # sum[b]
      BY <1>Differs, <2>stage DEF Differs, Copying
    <3> QED
      BY <2>stage, <2>act, <2>0, <3>1 DEF Mend, Comparing
  <2>13. Opened'
    BY <2>0 DEF Opened
  <2> QED
    BY <2>1, <2>2, <2>3, <2>4, <2>5, <2>6, <2>7, <2>8, <2>9, <2>10, <2>11, <2>12, <2>13 DEF IInv
<1> QED
  BY <1>1, <1>2, <1>3

(* IInv is inductive.                                                      *)
LEMMA InitIInv == Init => IInv
<1>0. SUFFICES ASSUME Init PROVE IInv
  OBVIOUS
<1>1. up = <<>> /\ Len(up) = 0 /\ \A i : i \notin 1..Len(up)
  BY <1>0, EmptySeq DEF Init
<1>2. Stage = "none" /\ \A v \in Value : ~Answered(v)
  BY <1>0, <1>1 DEF Init, Stage, Answered
<1>3. pc[Main] = "osd" /\ pc[Saver] = "wait" /\ pc \in [Actors -> MainPc \cup SaverPc]
  BY <1>0 DEF Init, Actors, Main, Saver, MainPc, SaverPc
<1>4. /\ sav \in [Games -> File] /\ tmp \in [Games -> File]
      /\ \A g \in Games : /\ \A i : i \notin 1..Len(sav[g])
                          /\ \A i : i \notin 1..Len(tmp[g])
  BY <1>0, Files DEF Init
<1>5. ~on /\ path = NoGame /\ path \notin Games
  BY <1>0, NeoSaveAssumption DEF Init
<1>6. Bools
  BY <1>0 DEF Init, Bools
<1>7. Types
  <2>1. up \in Seq(Frame)
    BY <1>1, EmptySeq
  <2> QED
    BY <1>0, <1>4, <1>6, <2>1, Values, NeoSaveAssumption DEF Init, Types, NoBlock, Lapses
<1>8. Pcs
  BY <1>0, <1>3 DEF Init, Pcs, MainPc, SaverPc, Dumping, Comparing, Copying, Actors, Main, Saver
<1>9. Cores
  BY <1>0, <1>3, <1>5 DEF Init, Cores, Flushing
<1>10. Awaited /\ Written
  BY <1>0, <1>1, <1>2 DEF Init, Awaited, Written
<1>11. Numbered /\ Owned
  <2>1. \A b \in Block : bram[b] = Blank /\ sum[b] = Blank
    BY <1>0, Values DEF Init
  <2>2. Blank.n <= wr /\ seen <= wr
    BY <1>0, Values DEF Init
  <2>3. Numbered
    BY <1>2, <1>4, <2>1, <2>2 DEF Numbered
  <2>4. Owned
    BY <1>2, <1>4, <2>1, Values DEF Owned
  <2> QED
    BY <2>3, <2>4
<1>12. SumKept /\ Order /\ Fresh /\ Differs /\ Mend /\ Opened
  BY <1>5 DEF SumKept, Trusted, Copying, Order, Fresh, Differs, Mend, Opened, Active
<1> QED
  BY <1>7, <1>8, <1>9, <1>10, <1>11, <1>12 DEF IInv

(* A step that changes nothing.                                            *)
LEMMA StutterIInv == IInv /\ UNCHANGED vars => IInv'
<1>0. SUFFICES ASSUME IInv, UNCHANGED vars PROVE IInv'
  OBVIOUS
<1>1. /\ UNCHANGED <<core, run, bram, flag, wr, up, rx, rxBlk, blkSem, on, path, sum, sav, tmp, dirty>>
      /\ UNCHANGED <<lapse, strayed, notify, mutex, pc, blk, changed, sel, menu, wiped, faults, failed, seen>>
  BY <1>0 DEF vars, fpga, rxVars, game, files, flush, chosen, history
<1>2. /\ UNCHANGED <<Stage, Active, NoticeInFlight, Pending, Old, Spoiled>>
      /\ \A v : Answered(v)' <=> Answered(v)
      /\ \A S : (Has(S)' <=> Has(S)) /\ (SumHas(S)' <=> SumHas(S))
      /\ \A v, b : Between(v, b)' <=> Between(v, b)
  BY <1>1 DEF Stage, Active, NoticeInFlight, Pending, Old, Spoiled, Trusted, Answered, Has, SumHas,
     Between
<1> QED
  BY <1>0, <1>1, <1>2 DEF IInv, Types, Bools, Pcs, Cores, Awaited, Written, Numbered, Owned,
     SumKept, Trusted, Order, Fresh, Differs, Mend, Opened

(* Every action preserves IInv.                                            *)
LEMMA NextIInv == IInv /\ Next => IInv'
<1>0. SUFFICES ASSUME IInv, Next PROVE IInv'
  OBVIOUS
<1>1. ASSUME NEW p \in Actors, FlushStep(p) PROVE IInv'
  <2>1. CASE FlushLockTimesOut(p)
    BY <1>0, <2>1, AsidePreserves
  <2>2. CASE FlushLock(p) \/ Fetch(p) \/ Compare(p)
    BY <1>0, <2>2, ComparePreserves
  <2>3. CASE SkipWrite(p) \/ CreateTmp(p) \/ Copy(p) \/ Rename(p) \/ RenameUnsynced(p)
    BY <1>0, <2>3, WritePreserves
  <2>4. CASE FetchFails(p) \/ WriteFails(p) \/ RenameFails(p)
    BY <1>0, <2>4, FailPreserves
  <2> QED
    BY <1>1, <2>1, <2>2, <2>3, <2>4 DEF FlushStep
<1>2. CASE GameWrites \/ RxDirty \/ RxBlock \/ LoseBlock
  BY <1>0, <1>2, LinkPreserves
<1>3. CASE \/ SaverWakes \/ SaverDebounces \/ SaverFlushes \/ CloseOsd \/ ChooseNothing
           \/ OpenFails \/ StartLoading \/ StreamFails \/ StartCore
  BY <1>0, <1>3, AsidePreserves
<1>4. CASE OpenOsd \/ Settle
  BY <1>0, <1>4, MenuPreserves
<1>5. CASE \/ \E c \in {"neo", "other"} : PickCore(c)
           \/ PickPce \/ Off
           \/ \E g \in Games : PickGame(g)
  BY <1>0, <1>5, ProgramPreserves
<1>6. CASE SetGame \/ Restore \/ RestoreMisread
  BY <1>0, <1>6, LoadPreserves
<1>7. Main \in Actors /\ Saver \in Actors
  BY DEF Actors
<1> QED
  BY <1>0, <1>1, <1>2, <1>3, <1>4, <1>5, <1>6, <1>7 DEF Next, FpgaStep, RxStep, SaverStep,
     MainStep

(* neosave_poll, neosave_flush_now, neosave_set_game and the menus keep    *)
(* the RAM, the save and what is between them in the order IInv states.    *)
THEOREM InvariantHolds == Spec => []IInv
BY InitIInv, NextIInv, StutterIInv, PTL DEF Spec

(* neosave.cpp: every variable keeps to its range, main_task and the save  *)
(* task are always at a known place, and i in neosave_flush_now never      *)
(* leaves the blocks of the save.                                          *)
THEOREM TypeCorrect == Spec => []TypeOK
<1>1. IInv => TypeOK
  <2>0. SUFFICES ASSUME IInv PROVE TypeOK
    OBVIOUS
  <2>1. Types /\ Pcs /\ Bools
    BY <2>0 DEF IInv, Types
  <2> QED
    BY <2>1 DEF TypeOK, Types, Bools, Pcs, MainPc, SaverPc, Frame
<1> QED
  BY <1>1, InvariantHolds, PTL

(* neosave_flush_now, pcesave_rx_dirty: what the RAM holds and the card    *)
(* does not is still announced or owed, wherever in the two passes of a    *)
(* flush the game wrote it and whatever went wrong with the flush.         *)
THEOREM StaleIsPending == Spec => []PendingWhenStale
<1>1. IInv => PendingWhenStale
  <2>0. SUFFICES ASSUME IInv, Settled, bram # sum PROVE dirty \/ NoticeInFlight
    BY DEF PendingWhenStale
  <2>1. Active /\ Stage = "none"
    BY <2>0 DEF Settled, Active, Stage
  <2> QED
    BY <2>0, <2>1 DEF IInv, Fresh, Pending
<1> QED
  BY <1>1, InvariantHolds, PTL

(* neosave_restore, neosave_flush_now: with no flush or restore under way  *)
(* ns_sum is of what a restore would read, the .sav or the .tmp that       *)
(* stands in for it, unless one of the named lapses came between them.     *)
THEOREM SumMatchesFile == Spec => []SumIsOfFile
<1>1. IInv => SumIsOfFile
  <2>0. SUFFICES ASSUME IInv, on, mutex = "free", lapse = "none" PROVE sum = Restorable(path)
    BY DEF SumIsOfFile
  <2>1. path \in Games /\ Stage = "none"
    BY <2>0 DEF IInv, Cores, Stage
  <2>2. /\ sav[path] # NoFile => sum = Contents(sav[path])
        /\ sav[path] = NoFile => sum = Contents(tmp[path])
    BY <2>0, <2>1 DEF IInv, SumKept, Trusted
  <2> QED
    BY <2>2 DEF Restorable
<1> QED
  BY <1>1, InvariantHolds, PTL

(* neosave_set_game, neosave_flush_now: neither file of a game ever gets a *)
(* block that another game wrote, unless the load of another game failed   *)
(* half-way while this one owned the channel.                              *)
THEOREM OwnDataOnly == Spec => []NoOthersData
<1>1. IInv => NoOthersData
  <2>0. SUFFICES ASSUME IInv, NEW g \in Games \ strayed
                 PROVE  ~Holds(sav[g], g) /\ ~Holds(tmp[g], g)
    BY DEF NoOthersData
  <2>1. /\ \A i \in 1..Len(sav[g]) : sav[g][i].g \in {g, NoGame, Mixed}
        /\ \A i \in 1..Len(tmp[g]) : tmp[g][i].g \in {g, NoGame, Mixed}
    BY <2>0 DEF IInv, Owned
  <2> QED
    BY <2>1, NeoSaveAssumption DEF Holds
<1> QED
  BY <1>1, InvariantHolds, PTL

(* menu_loadrom, neosave_settle: when the file chooser is open, what had   *)
(* been announced when the OSD opened is on the card, unless a flush       *)
(* failed.                                                                 *)
THEOREM SavedBeforeChoosing == Spec => []AnnouncedIsSaved
<1>1. IInv => AnnouncedIsSaved
  <2>0. SUFFICES ASSUME IInv, pc[Main] \in {"choose", "query", "stream"}, on, ~wiped, ~failed,
                        sav[path] # NoFile \/ mutex = "free", menu = "osd", Trusted,
                        NEW b \in Block, bram[b].n <= seen
                 PROVE  Restorable(path)[b] = bram[b]
    BY DEF AnnouncedIsSaved, Trusted
  <2>1. Types /\ Pcs /\ path \in Games /\ SumKept /\ Opened
    BY <2>0 DEF IInv, Cores
  <2>2. Active
    BY <2>0, <2>1, Stages DEF Active
  <2>3. SumHas(Old)
    BY <2>0, <2>1, <2>2 DEF Opened, Menus
  <2>4. sum[b] = bram[b]
    BY <2>0, <2>3 DEF SumHas, Old
  <2>5. CASE sav[path] # NoFile
    <3>1. sum = Contents(sav[path])
      BY <2>0, <2>1, <2>2, <2>5 DEF SumKept, Active
    <3> QED
      BY <2>4, <2>5, <3>1 DEF Restorable
  <2>6. CASE sav[path] = NoFile
    <3>1. Stage = "none"
      BY <2>0, <2>6 DEF Stage
    <3>2. ~Spoiled
      BY <2>0, <2>1, <2>2, <3>1 DEF Opened, Menus
    <3>3. Contents(tmp[path]) = sum
      BY <2>0, <2>6, <3>2 DEF Spoiled
    <3> QED
      BY <2>4, <2>6, <3>3 DEF Restorable
  <2> QED
    BY <2>5, <2>6
<1> QED
  BY <1>1, InvariantHolds, PTL

(* What a restore would read of a game falls behind.                       *)
Loses(g) == \E b \in Block : Restorable(g)'[b].n < Restorable(g)[b].n

(* A restore that would read the same loses nothing.                       *)
LEMMA SameKeeps ==
  ASSUME Types, NEW g \in Games, Restorable(g)' = Restorable(g)
  PROVE  ~Loses(g)
<1>1. sav[g] \in File /\ tmp[g] \in File
  BY DEF Types
<1>2. Restorable(g) \in Ram
  BY <1>1, Files DEF Restorable
<1>3. \A b \in Block : Restorable(g)[b].n \in Nat
  BY <1>2, Values
<1>4. \A n \in Nat : ~(n < n)
  OBVIOUS
<1> QED
  BY <1>3, <1>4 DEF Loses

(* The finished .tmp is no older than what a restore would read now.       *)
LEMMA DumpIsNewer ==
  ASSUME IInv, Stage = "rename", ~wiped, lapse # "misread",
         NEW g \in Games, g = path, Restorable(g)' = Contents(tmp[g])
  PROVE  ~Loses(g)
<1>1. Types /\ Pcs /\ Cores /\ Written /\ SumKept /\ Order
  BY DEF IInv
<1>2. CASE sav[g] = NoFile
  <2>1. Restorable(g)' = Restorable(g)
    BY <1>2 DEF Restorable
  <2> QED
    BY <1>1, <2>1, SameKeeps
<1>3. CASE sav[g] # NoFile
  <2>1. Active
    <3>1. on
      BY <1>1 DEF Cores
    <3>2. Stage # "restore"
      OBVIOUS
    <3> QED
      BY <3>1, <3>2 DEF Active
  <2>2. tmp[g] \in File /\ sav[g] \in File /\ Len(tmp[g]) = Blocks
    BY <1>1 DEF Types, Written
  <2>3. ASSUME NEW b \in Block PROVE ~(Contents(tmp[g])[b].n < Contents(sav[g])[b].n)
    <3>1. PICK i \in 1..Blocks : i = b + 1 /\ i - 1 = b /\ b < Blocks
      <4>1. PICK j : j = b + 1
        OBVIOUS
      <4>2. j \in 1..Blocks /\ j - 1 = b /\ b < Blocks
        BY <4>1, NeoSaveAssumption DEF Block
      <4> QED
        BY <4>1, <4>2
    <3>2. Contents(tmp[g])[b] = tmp[g][i] /\ tmp[g][i] \in Value
      BY <2>2, <3>1, Files
    <3>3. sum[b].n <= tmp[g][i].n
      <4>1. \A j \in 1..Len(tmp[g]) : Between(tmp[g][j], j - 1)
        BY <1>1, <2>1 DEF Order, Copying
      <4>2. Between(tmp[g][i], b)
        BY <2>2, <3>1, <4>1
      <4> QED
        BY <4>2 DEF Between
    <3>4. Contents(sav[g])[b].n <= sum[b].n
      BY <1>1, <1>3 DEF SumKept
    <3>5. sum[b].n \in Nat /\ Contents(sav[g])[b].n \in Nat /\ Contents(tmp[g])[b].n \in Nat
      BY <1>1, <2>2, Files, Values DEF Types
    <3>6. \A x, y, z \in Nat : x <= y /\ y <= z => ~(z < x)
      OBVIOUS
    <3> QED
      BY <3>2, <3>3, <3>4, <3>5, <3>6
  <2>4. Restorable(g) = Contents(sav[g])
    BY <1>3 DEF Restorable
  <2> QED
    BY <2>3, <2>4 DEF Loses
<1> QED
  BY <1>2, <1>3

(* The steps of a flush that change its files.                             *)
LEMMA FlushLosesNothing ==
  ASSUME IInv, NEW p \in Actors, ~wiped, lapse # "misread", lapse' \notin {"sync", "lone"}, NEW g \in Games,
         CreateTmp(p) \/ Copy(p) \/ Rename(p) \/ RenameUnsynced(p) \/ WriteFails(p) \/ RenameFails(p)
  PROVE  ~Loses(g)
<1>1. Types /\ Pcs /\ Cores /\ SumKept
  BY DEF IInv
<1>2. pc[p] \in {"create", "copied", "rename"}
  BY DEF CreateTmp, Copy, Rename, RenameUnsynced, Renamed, WriteFails, RenameFails, Goto
<1>3. path \in Games /\ Stage = pc[p] /\ path' = path
  <2>1. path \in Games /\ Stage = pc[p]
    BY <1>1, <1>2, Stages DEF Cores, Flushing, Dumping, Copying
  <2> QED
    BY <2>1 DEF CreateTmp, Copy, Rename, RenameUnsynced, Renamed, WriteFails, RenameFails, game
<1>4. CASE g # path
  <2>1. sav'[g] = sav[g] /\ tmp'[g] = tmp[g]
    BY <1>1, <1>3, <1>4 DEF Types, CreateTmp, Copy, Rename, RenameUnsynced, Renamed, WriteFails,
       RenameFails
  <2> QED
    BY <1>1, <2>1, SameKeeps DEF Restorable
<1>5. CASE g = path
  <2>1. CASE Stage # "rename"
    <3>1. sav' = sav
      BY <1>5, <1>3, <2>1 DEF CreateTmp, Copy, Rename, RenameUnsynced, Renamed, WriteFails, RenameFails,
         Goto
    <3>2. sav[g] = NoFile => tmp' = tmp
      <4>1. SUFFICES ASSUME sav[g] = NoFile PROVE tmp' = tmp
        OBVIOUS
      <4>2. ~CreateTmp(p)
        BY <1>5, <4>1 DEF CreateTmp
      <4>3. ASSUME Stage = "copied" PROVE FALSE
        <5>1. lapse = "lone"
          BY <1>5, <1>1, <1>3, <4>1, <4>3 DEF SumKept, Copying
        <5>2. Copy(p) \/ WriteFails(p)
          BY <1>5, <1>3, <2>1, <4>2 DEF Rename, RenameUnsynced, Renamed, RenameFails, Goto
        <5>3. lapse' = lapse
          BY <1>5, <1>3, <4>3, <5>2 DEF Copy, WriteFails
        <5> QED
          BY <1>5, <5>1, <5>3
      <4>4. WriteFails(p) /\ pc[p] = "create"
        BY <1>5, <1>2, <1>3, <2>1, <4>2, <4>3
           DEF Copy, Rename, RenameUnsynced, Renamed, RenameFails, Goto
      <4> QED
        BY <1>5, <4>1, <4>4 DEF WriteFails
    <3> QED
      BY <1>5, <1>1, <1>3, <3>1, <3>2, SameKeeps DEF Restorable
  <2>2. CASE Stage = "rename"
    <3>1. Rename(p) \/ RenameFails(p)
      BY <1>5, <1>3, <2>2 DEF CreateTmp, Copy, RenameUnsynced, WriteFails, Goto
    <3>2. sav[g] \in File /\ tmp[g] \in File /\ Len(tmp[g]) = Blocks
      BY <1>5, <1>1, <1>3, <2>2 DEF IInv, Types, Written
    <3>3. CASE Rename(p)
      <4>1. sav'[g] = tmp[g]
        BY <1>5, <1>1, <1>3, <3>3 DEF Types, Rename
      <4>2. tmp[g] # NoFile
        BY <1>5, <3>2, Files, NeoSaveAssumption
      <4>3. Restorable(g)' = Contents(tmp[g])
        BY <1>5, <1>3, <4>1, <4>2 DEF Restorable
      <4> QED
        BY <1>5, <1>3, <2>2, <4>3, DumpIsNewer
    <3>4. CASE RenameFails(p)
      <4>1. sav'[g] \in {sav[g], NoFile}
        BY <1>5, <1>1, <1>3, <3>4 DEF Types, RenameFails
      <4>2. CASE sav'[g] # NoFile
        <5>1. Restorable(g)' = Contents(sav[g]) /\ sav[g] # NoFile
          BY <1>5, <1>3, <4>1, <4>2 DEF Restorable
        <5>2. Restorable(g)' = Restorable(g)
          BY <1>5, <5>1 DEF Restorable
        <5> QED
          BY <1>5, <1>1, <1>3, <5>2, SameKeeps
      <4>3. CASE sav'[g] = NoFile
        <5>1. tmp' = tmp
          BY <1>5, <3>4, <4>3 DEF RenameFails
        <5>2. Restorable(g)' = Contents(tmp[g])
          BY <1>5, <1>3, <4>3, <5>1 DEF Restorable
        <5> QED
          BY <1>5, <1>3, <2>2, <5>2, DumpIsNewer
      <4> QED
        BY <1>5, <4>2, <4>3
    <3> QED
      BY <1>5, <3>1, <3>3, <3>4
  <2> QED
    BY <2>1, <2>2
<1> QED
  BY <1>4, <1>5

(* neosave_flush_now, neosave_restore: what a restore would read is        *)
(* replaced only by newer writes, but for the four named causes, whatever  *)
(* the card does.                                                          *)
THEOREM NewerReplacesOlder == Spec => LossHasCauses
<1>1. ASSUME IInv, Next, NEW g \in Games, ~wiped, lapse # "misread", lapse' \notin {"sync", "lone"}
      PROVE  ~Loses(g)
  <2>1. CASE sav' = sav /\ tmp' = tmp
    BY <1>1, <2>1, SameKeeps DEF IInv, Restorable
  <2>2. CASE ~(sav' = sav /\ tmp' = tmp)
    <3>1. PICK p \in Actors : CreateTmp(p) \/ Copy(p) \/ Rename(p) \/ RenameUnsynced(p)
                               \/ WriteFails(p) \/ RenameFails(p)
      BY <1>1, <2>2 DEF Next, FpgaStep, RxStep, SaverStep, MainStep, FlushStep, GameWrites, RxDirty,
         RxBlock, LoseBlock, SaverWakes, SaverDebounces, SaverFlushes, OpenOsd, CloseOsd, Settle,
         ChooseNothing, PickCore, PickPce, Off, PickGame, OpenFails, StartLoading, StreamFails,
         SetGame, Restore, RestoreMisread, Restored, StartCore, FlushLock, FlushLockTimesOut, Fetch,
         Compare, FetchFails, SkipWrite, files, Actors
    <3> QED
      BY <1>1, <3>1, FlushLosesNothing
  <2> QED
    BY <2>1, <2>2
<1>2. IInv /\ [Next]_vars =>
        [\A g \in Games :
           (\E b \in Block : Restorable(g)'[b].n < Restorable(g)[b].n) =>
             wiped \/ lapse = "misread" \/ lapse' \in {"sync", "lone"}]_files
  BY <1>1 DEF vars, files, Loses
<1> QED
  BY <1>2, InvariantHolds, PTL DEF Spec, LossHasCauses
====
