----------------------------- MODULE DiscProofs -----------------------------
(***************************************************************************)
(* What the two servers of discs promise: CdServe for any discs,           *)
(* addresses, hunk size and queue length, with main_task closing and       *)
(* opening discs at any moment, and FloppyDrive for any drives, images,    *)
(* sectors and ring; and what the table of contents of a CD is (CdToc).    *)
(*                                                                         *)
(* The argument for the CD goes through the epoch: Announced says what     *)
(* main_task has done when it is where it is, so that what the FPGA was    *)
(* last told is either void or what the server works with.                 *)
(*                                                                         *)
(* What the core gets for its requests needs more.  Order places them in   *)
(* the queue, at the server, in the staging buffer and answered one behind *)
(* another.  Content follows a sector: a request made since the last close *)
(* finds main_task idle, hence the disc it was made of; its frame is then  *)
(* that disc's, and the tag names the hunk that is in the buffer, as long  *)
(* as nothing spoiled it.                                                  *)
(*                                                                         *)
(* For the floppies: Phase says what mount_floppy has done when it is      *)
(* where it is; Loaded what a drive that no mount is at work on looks like *)
(* to the menu, the file and the core; GoodRequest that a request no mount *)
(* has crossed still finds the image it was made for.  A mount crosses     *)
(* every pending request of its drive when it begins, and from then on     *)
(* none of the three speaks of that drive until the mount ends.            *)
(*                                                                         *)
(* The table of contents is a recursive function of the tracks.  Laid says *)
(* what the table looks like after any of them, each track behind those    *)
(* before it in both address spaces, and is proved by induction on the set *)
(* of turns it holds for.                                                  *)
(***************************************************************************)
EXTENDS CdServe, FloppyDrive, CdToc, TLAPS, SequenceTheorems, WellFoundedInduction

(* The CD sector server.                                                   *)

Loading == {"toc", "boot", "sendtoc", "mount"}

(* What main_task has done when it is where it is.                         *)
Announced ==
  /\ mpc \in Loading \cup {"unmount", "open"} => disc \in Discs
  /\ mpc \in Loading \cup {"open"} => announced = 0
  /\ mpc \in Loading => chd = disc /\ buf # Null
  /\ mpc \in {"boot", "sendtoc", "mount"} => toc = {disc}
  /\ mpc = "mount" => fpgaToc = disc
  /\ announced # 0 => fpgaToc \in Discs /\ announced <= epoch
  /\ announced # 0 /\ mpc = "idle" =>
       chd = fpgaToc /\ buf # Null /\ toc = {chd} /\ announced = epoch
  /\ announced = epoch => mpc = "idle"

Inv == TypeOK /\ Announced

-----------------------------------------------------------------------------
(* A request of the core is one.                                           *)
LEMMA AskType ==
  ASSUME Inv, NEW lba \in Lbas, NEW isAudio \in BOOLEAN, announced # 0, asks < MaxAsks
  PROVE  [lba |-> lba, audio |-> isAudio, epoch |-> announced, disc |-> fpgaToc, id |-> asks + 1]
           \in Requests
<1>1. announced \in 1..(MaxLoads + 1) /\ fpgaToc \in Discs
  BY CdAssumption DEF Inv, TypeOK, FpgaType, Announced
<1>2. asks + 1 \in 1..MaxAsks
  BY CdAssumption DEF Inv, TypeOK, FpgaType
<1> QED
  BY <1>1, <1>2 DEF Requests

(* Sectors taken from the buffer are sectors.                              *)
LEMMA AtType == ASSUME TypeOK, NEW f \in Nat PROVE At(f) \in Data
<1>1. <<buf[1], f>> \in Int \X Int /\ Garbage \in Int \X Int
  BY DEF TypeOK, MainType, Garbage
<1>2. spoiled \in SUBSET {"failed", "closed"}
  BY DEF TypeOK, FpgaType
<1> DEFINE s == IF buf[1] # 0 /\ buf[2] = Hunk(f) THEN <<buf[1], f>> ELSE Garbage
<1>3. s \in Int \X Int
  BY <1>1
<1> HIDE DEF s
<1>4. [sector |-> s, why |-> spoiled] \in Data
  BY <1>2, <1>3 DEF Data
<1> QED
  BY <1>4 DEF At, s

LEMMA NoDataType == NoData \in Data
  BY DEF NoData, Data, Garbage

(* A frame is in some hunk.                                                *)
LEMMA HunkType == \A f \in Nat : Hunk(f) \in Nat
<1> TAKE f \in Nat
<1> DEFINE q == f \div Spq
<1>1. q \in Int /\ f = Spq * q + (f % Spq) /\ f % Spq \in 0..(Spq - 1)
  BY CdAssumption
<1>2. ASSUME q < 0 PROVE FALSE
  <2>1. Spq * q <= Spq * (0 - 1)
    BY <1>1, <1>2, CdAssumption
  <2> QED
    BY <1>1, <2>1, CdAssumption
<1> QED
  BY <1>1, <1>2 DEF Hunk

LEMMA MappedType ==
  ASSUME TypeOK, NEW lba \in Lbas PROVE Mapped(lba) \subseteq Nat \cup {NoFrame}
  BY CdAssumption DEF TypeOK, MainType, Mapped

(* What an action leaves alone keeps its type.                             *)
LEMMA Kept ==
  /\ MainType /\ UNCHANGED <<mpc, disc, disk>> => MainType'
  /\ ServerType /\ UNCHANGED <<queue, spc, req, frame, stage, dma, sent>> => ServerType'
  /\ DataType /\ UNCHANGED <<taken, stage, sent>> => DataType'
  /\ FpgaType /\ UNCHANGED <<fpga, ghost>> => FpgaType'
  /\ Announced /\ UNCHANGED <<mpc, disc, disk, fpga, epoch>> => Announced'
<1>1. MainType /\ UNCHANGED <<mpc, disc, disk>> => MainType'
  BY DEF MainType, disk
<1>2. ServerType /\ UNCHANGED <<queue, spc, req, frame, stage, dma, sent>> => ServerType'
  BY DEF ServerType
<1>3. DataType /\ UNCHANGED <<taken, stage, sent>> => DataType'
  BY DEF DataType
<1>4. FpgaType /\ UNCHANGED <<fpga, ghost>> => FpgaType'
  BY DEF FpgaType, fpga, ghost
<1>5. Announced /\ UNCHANGED <<mpc, disc, disk, fpga, epoch>> => Announced'
  BY DEF Announced, disk, fpga
<1> QED
  BY <1>1, <1>2, <1>3, <1>4, <1>5

(* The core stops waiting.                                                 *)
LEMMA Cleared ==
  ASSUME FpgaType, Announced, asked' = 0,
         UNCHANGED <<mpc, disc, disk, announced, fpgaToc, asks, ghost>>
  PROVE  FpgaType' /\ Announced'
<1>1. 0 \in 0..MaxAsks
  BY CdAssumption
<1>2. FpgaType'
  BY <1>1 DEF FpgaType, ghost
<1>3. Announced'
  BY DEF Announced, disk, ghost
<1> QED
  BY <1>2, <1>3

(* The server takes a request off the queue.                               *)
LEMMA TakenOff ==
  ASSUME ServerType, queue # <<>>
  PROVE  /\ Head(queue) \in Requests /\ Tail(queue) \in Seq(Requests)
         /\ Len(Tail(queue)) <= QLen
         /\ Head(queue).lba \in Lbas /\ Head(queue).id \in 1..MaxAsks
<1>1. queue \in Seq(Requests) /\ Len(queue) <= QLen
  BY DEF ServerType
<1> DEFINE R == Requests
<1> HIDE DEF R
<1>2. /\ Head(queue) \in Requests /\ Tail(queue) \in Seq(Requests)
      /\ Len(Tail(queue)) = Len(queue) - 1 /\ Len(queue) \in Nat
  <2>1. queue \in Seq(R)
    BY <1>1 DEF R
  <2>2. /\ Head(queue) \in R /\ Tail(queue) \in Seq(R)
        /\ Len(Tail(queue)) = Len(queue) - 1 /\ Len(queue) \in Nat
    BY <2>1
  <2> QED
    BY <2>2 DEF R
<1>3. Len(Tail(queue)) <= QLen
  BY <1>1, <1>2, CdAssumption
<1>4. Head(queue).lba \in Lbas /\ Head(queue).id \in 1..MaxAsks
  BY <1>2 DEF Requests
<1> QED
  BY <1>2, <1>3, <1>4

LEMMA InitInv == Init => Inv
<1> SUFFICES ASSUME Init PROVE Inv
  OBVIOUS
<1>1. MainType /\ FpgaType
  BY CdAssumption DEF Init, MainType, FpgaType, None, Null
<1>4. ServerType
  <2>1. queue = <<>> /\ spc = "idle" /\ req = NoReq /\ frame = NoFrame /\ dma = FALSE
        /\ stage.req = NoReq /\ sent.req = NoReq
    BY DEF Init, NoStage
  <2>2. <<>> \in Seq(Requests) /\ Len(<<>>) = 0
    OBVIOUS
  <2>3. queue \in Seq(Requests) /\ Len(queue) <= QLen
    BY <2>1, <2>2, CdAssumption
  <2> QED
    BY <2>1, <2>3 DEF ServerType
<1>2. DataType
  BY NoDataType DEF Init, DataType, NoStage
<1>3. Announced
  BY DEF Init, Announced, Loading
<1> QED
  BY <1>1, <1>2, <1>3, <1>4 DEF Inv, TypeOK

LEMMA StepInv == Inv /\ [Next]_vars => Inv'
<1> SUFFICES ASSUME Inv, [Next]_vars PROVE Inv'
  OBVIOUS
<1>0. TypeOK /\ MainType /\ ServerType /\ DataType /\ FpgaType /\ Announced
  BY DEF Inv, TypeOK
<1>1. ASSUME NEW lba \in Lbas, NEW isAudio \in BOOLEAN, Ask(lba, isAudio) PROVE Inv'
  <2> DEFINE r == [lba |-> lba, audio |-> isAudio, epoch |-> announced, disc |-> fpgaToc,
                   id |-> asks + 1]
  <2>1. r \in Requests /\ r.id = asks + 1 /\ asks + 1 \in 1..MaxAsks
    BY <1>0, <1>1, AskType, CdAssumption DEF Ask, FpgaType
  <2>2. /\ IF Len(queue) < QLen
             THEN queue' = Append(queue, r) /\ refused' = {}
             ELSE queue' = queue /\ refused' = {r.id}
        /\ asks' = asks + 1 /\ asked' = asks + 1
        /\ UNCHANGED <<mpc, disc, disk, spc, req, frame, taken, stage, dma, sent,
                       announced, fpgaToc, epoch, fails, spoiled>>
    BY <1>1 DEF Ask, Post, server, wire
  <2> HIDE DEF r
  <2>3. queue' \in Seq(Requests) /\ Len(queue') <= QLen
    <3>1. queue' = queue \/ (Len(queue) < QLen /\ queue' = Append(queue, r))
      BY <2>2
    <3>2. queue \in Seq(Requests) /\ Len(queue) <= QLen
      BY <1>0 DEF ServerType
    <3> QED
      BY <2>1, <3>1, <3>2, CdAssumption
  <2>4. ServerType'
    BY <1>0, <2>2, <2>3 DEF ServerType
  <2>5. FpgaType'
    <3>1. refused' \in {{}, {r.id}}
      BY <2>2
    <3>2. refused' \subseteq 1..MaxAsks
      BY <2>1, <3>1
    <3>3. asks' \in 0..MaxAsks /\ asked' \in 0..MaxAsks
      BY <2>1, <2>2
    <3> QED
      BY <1>0, <2>2, <3>2, <3>3 DEF FpgaType
  <2>6. Announced'
    BY <1>0, <2>2 DEF Announced, disk
  <2> QED
    BY <1>0, <2>2, <2>4, <2>5, <2>6, Kept DEF Inv, TypeOK
<1>2. CASE Receive
  <2>1. /\ Head(queue) \in Requests /\ Tail(queue) \in Seq(Requests)
        /\ Len(Tail(queue)) <= QLen /\ Head(queue).lba \in Lbas
    BY <1>0, <1>2, TakenOff DEF Receive
  <2>2. frame' \in Nat
    BY <1>0, <1>2, <2>1, MappedType DEF Receive, NoFrame
  <2>3. ServerType'
    BY <1>0, <1>2, <2>1, <2>2 DEF Receive, ServerType, wire
  <2> QED
    BY <1>0, <1>2, <2>3, Kept DEF Receive, Inv, TypeOK, wire, ghost
<1>3. CASE Decline
  <2>1. /\ Head(queue) \in Requests /\ Tail(queue) \in Seq(Requests)
        /\ Len(Tail(queue)) <= QLen /\ Head(queue).id \in 1..MaxAsks
    BY <1>0, <1>3, TakenOff DEF Decline
  <2>2. ServerType'
    BY <1>0, <1>3, <2>1 DEF Decline, ServerType, wire, server
  <2>3. FpgaType'
    BY <1>0, <1>3, <2>1 DEF Decline, FpgaType, fpga
  <2> QED
    BY <1>0, <1>3, <2>2, <2>3, Kept DEF Decline, Inv, TypeOK, wire, server
<1>4. CASE CheckTag
  <2>1. ServerType'
    BY <1>0, <1>4 DEF CheckTag, ServerType, wire
  <2> QED
    BY <1>0, <1>4, <2>1, Kept DEF CheckTag, Inv, TypeOK, wire, ghost
<1>5. CASE Decoded \/ DecodedOutdated
  <2>1. Hunk(frame) \in Nat
    BY <1>0, <1>5, HunkType DEF Decoded, DecodedOutdated, ServerType
  <2>2. cached' = Hunk(frame) /\ UNCHANGED <<mpc, disc, chd, toc>>
    BY <1>5 DEF Decoded, DecodedOutdated
  <2>3. chd \in Int /\ buf \in Int \X Int /\ <<chd, Hunk(frame)>> \in Int \X Int
    BY <1>0, <2>1, CdAssumption DEF MainType, None
  <2>4. buf' \in {<<chd, Hunk(frame)>>, Garbage, buf} /\ (buf # Null => buf' # Null)
    BY <1>0, <1>5, CdAssumption DEF Decoded, DecodedOutdated, MainType, None, Null, Garbage
  <2>5. buf' \in Int \X Int
    BY <2>3, <2>4 DEF Garbage
  <2>6. MainType'
    BY <1>0, <2>1, <2>2, <2>5 DEF MainType
  <2>7. ServerType'
    BY <1>0, <1>5 DEF Decoded, DecodedOutdated, ServerType, wire
  <2>8. FpgaType'
    BY <1>0, <1>5 DEF Decoded, DecodedOutdated, FpgaType, fpga
  <2>9. Announced'
    BY <1>0, <1>5, <2>2, <2>4 DEF Decoded, DecodedOutdated, Announced, Loading, fpga
  <2> QED
    BY <1>0, <1>5, <2>6, <2>7, <2>8, <2>9, Kept
       DEF Decoded, DecodedOutdated, Inv, TypeOK, wire
<1>6. CASE DecodeFails
  <2>1. req.id \in 1..MaxAsks
    BY <1>0, <1>6 DEF DecodeFails, ServerType, Requests
  <2>2. buf' \in {Garbage, buf} /\ (buf # Null => buf' # Null)
    BY <1>6 DEF DecodeFails, Null, Garbage
  <2>3. MainType'
    BY <1>0, <1>6, <2>2 DEF DecodeFails, MainType, Garbage
  <2>4. ServerType'
    BY <1>0, <1>6 DEF DecodeFails, Rest, ServerType, wire
  <2>5. DataType'
    BY <1>0, <1>6, NoDataType DEF DecodeFails, Rest, DataType, wire
  <2>6. FpgaType'
    <3>1. refused' = refused \cup ({req.id} \cap {asked}) /\ fails < MaxFails /\ fails' = fails + 1
          /\ spoiled' = spoiled \cup {"failed"} /\ UNCHANGED <<fpga, epoch>>
      BY <1>6 DEF DecodeFails
    <3>2. refused' \subseteq 1..MaxAsks /\ spoiled' \subseteq {"failed", "closed"}
      BY <1>0, <2>1, <3>1 DEF FpgaType
    <3>3. fails' \in 0..MaxFails
      BY <1>0, <3>1, CdAssumption DEF FpgaType
    <3> QED
      BY <1>0, <3>1, <3>2, <3>3 DEF FpgaType, fpga
  <2>7. Announced'
    BY <1>0, <1>6, <2>2 DEF DecodeFails, Announced, Loading, fpga
  <2> QED
    BY <2>3, <2>4, <2>5, <2>6, <2>7 DEF Inv, TypeOK
<1>7. CASE SendFirst \/ Swap
  <2>1. taken' \in Data /\ UNCHANGED wire
    BY <1>0, <1>7, AtType DEF SendFirst, Swap, ServerType
  <2>2. DataType'
    BY <1>0, <2>1 DEF DataType, wire
  <2>3. ServerType'
    BY <1>0, <1>7 DEF SendFirst, Swap, ServerType, wire
  <2> QED
    BY <1>0, <1>7, <2>2, <2>3, Kept DEF SendFirst, Swap, Inv, TypeOK, ghost
<1>8. CASE SendSecond \/ SendBlocking
  <2>1. At(frame) \in Data
    BY <1>0, <1>8, AtType DEF SendSecond, SendBlocking, ServerType
  <2>2. DataType'
    BY <1>0, <1>8, <2>1, NoDataType DEF SendSecond, SendBlocking, Rest, Answer, DataType
  <2>3. ServerType'
    BY <1>0, <1>8 DEF SendSecond, SendBlocking, Rest, Answer, ServerType
  <2>4. asked' = 0 /\ UNCHANGED <<mpc, disc, disk, announced, fpgaToc, asks, ghost>>
    BY <1>8 DEF SendSecond, SendBlocking, Answer
  <2>5. FpgaType' /\ Announced'
    BY <1>0, <2>4, Cleared
  <2> QED
    BY <1>0, <1>8, <2>2, <2>3, <2>5, Kept DEF SendSecond, SendBlocking, Inv, TypeOK
<1>9. CASE SendDma
  <2>1. DataType'
    BY <1>0, <1>9, NoDataType DEF SendDma, Rest, DataType
  <2>2. ServerType'
    BY <1>0, <1>9 DEF SendDma, Rest, ServerType
  <2> QED
    BY <1>0, <1>9, <2>1, <2>2, Kept DEF SendDma, Inv, TypeOK, ghost
<1>10. CASE DmaDone
  <2>1. DataType'
    BY <1>0, <1>10, NoDataType DEF DmaDone, Answer, DataType, NoStage, server
  <2>2. ServerType'
    BY <1>0, <1>10 DEF DmaDone, Answer, ServerType, NoStage, server
  <2>3. asked' = 0 /\ UNCHANGED <<mpc, disc, disk, announced, fpgaToc, asks, ghost>>
    BY <1>10 DEF DmaDone, Answer
  <2>4. FpgaType' /\ Announced'
    BY <1>0, <2>3, Cleared
  <2> QED
    BY <1>0, <1>10, <2>1, <2>2, <2>4, Kept DEF DmaDone, Inv, TypeOK
<1>11. CASE (\E d \in Discs : LoadDisc(d)) \/ LoadCart \/ GiveUp
  <2>1. Close /\ disc' \in Discs \cup {0} /\ mpc' \in {"unmount", "cart", "giveup"}
    BY <1>0, <1>11 DEF LoadDisc, LoadCart, GiveUp, Main, MainType
  <2>2. mpc' = "unmount" => disc' \in Discs
    BY <1>11 DEF LoadDisc, LoadCart, GiveUp, Main
  <2>3. MainType'
    BY <1>0, <2>1 DEF Close, MainType, Null
  <2>4. FpgaType'
    BY <1>0, <2>1, CdAssumption DEF Close, FpgaType, fpga
  <2>5. Announced'
    BY <1>0, <2>1, <2>2 DEF Close, Announced, Loading, FpgaType, fpga
  <2>6. ServerType' /\ DataType'
    BY <1>0, <2>1, Kept DEF Close, server, wire
  <2> QED
    BY <2>3, <2>4, <2>5, <2>6 DEF Inv, TypeOK
<1>12. CASE Unmount
  <2>1. mpc' \in {"open", "idle"} /\ asked' \in {asked, 0}
    BY <1>12 DEF Unmount, Main
  <2>2. MainType' /\ FpgaType'
    <3>1. announced' = 0 /\ fpgaToc' = 0 /\ UNCHANGED <<disc, disk, asks, ghost>>
      BY <1>12 DEF Unmount
    <3>2. 0 \in 0..(MaxLoads + 1) /\ 0 \in 0..MaxAsks
      BY CdAssumption
    <3>3. MainType'
      BY <1>0, <2>1, <3>1 DEF MainType, disk
    <3>4. FpgaType'
      BY <1>0, <2>1, <3>1, <3>2 DEF FpgaType, ghost
    <3> QED
      BY <3>3, <3>4
  <2>3. Announced'
    BY <1>0, <1>12 DEF Unmount, Main, Announced, Loading, disk, ghost, FpgaType
  <2> QED
    BY <1>0, <1>12, <2>2, <2>3, Kept DEF Unmount, Inv, TypeOK, server, wire
<1>13. CASE Open
  <2>1. chd' = disc /\ disc \in Discs /\ buf' # Null
    BY <1>0, <1>13 DEF Open, Main, Announced, Null, Garbage
  <2>2. MainType'
    BY <1>0, <1>13, <2>1 DEF Open, Main, MainType, Garbage
  <2>3. FpgaType'
    BY <1>0, <1>13 DEF Open, FpgaType, fpga
  <2>4. Announced'
    BY <1>0, <1>13, <2>1 DEF Open, Main, Announced, Loading, fpga
  <2> QED
    BY <1>0, <1>13, <2>2, <2>3, <2>4, Kept DEF Open, Inv, TypeOK, server, wire
<1>14. CASE OpenFails \/ ReadToc \/ Boot \/ SendToc \/ SendMount
  <2>1. mpc' \in {"idle", "boot", "sendtoc", "mount"} /\ UNCHANGED <<disc, chd, buf, cached>>
    BY <1>14 DEF OpenFails, ReadToc, Boot, SendToc, SendMount, Main, disk
  <2>2. toc' \subseteq Discs
    BY <1>0, <1>14 DEF OpenFails, ReadToc, Boot, SendToc, SendMount, Main, disk, MainType,
                       Announced, Loading
  <2>3. MainType'
    BY <1>0, <2>1, <2>2 DEF MainType
  <2>4. FpgaType'
    <3>1. /\ announced' \in {announced, epoch} /\ fpgaToc' \in {fpgaToc, disc}
          /\ asked' \in {asked, 0} /\ UNCHANGED <<asks, ghost>>
      BY <1>14 DEF OpenFails, ReadToc, Boot, SendToc, SendMount, fpga
    <3>2. 0 \in 0..MaxAsks /\ epoch \in 0..(MaxLoads + 1)
      BY <1>0, CdAssumption DEF FpgaType
    <3>3. disc \in Discs \cup {0}
      BY <1>0 DEF MainType
    <3> QED
      BY <1>0, <3>1, <3>2, <3>3 DEF FpgaType, ghost
  <2>5. Announced'
    BY <1>0, <1>14 DEF OpenFails, ReadToc, Boot, SendToc, SendMount, Main, Announced, Loading,
                       disk, fpga, ghost, FpgaType
  <2>6. ServerType' /\ DataType'
    BY <1>0, <1>14, Kept DEF OpenFails, ReadToc, Boot, SendToc, SendMount, server, wire
  <2> QED
    BY <2>3, <2>4, <2>5, <2>6 DEF Inv, TypeOK
<1>15. CASE UNCHANGED vars
  BY <1>0, <1>15, Kept DEF vars, Inv, TypeOK, server, wire, ghost
<1> QED
  BY <1>1, <1>2, <1>3, <1>4, <1>5, <1>6, <1>7, <1>8, <1>9, <1>10, <1>11, <1>12, <1>13,
     <1>14, <1>15
     DEF Next, ServerStep, MainStep

(* Every variable keeps its type, and the queue its bound.                 *)
THEOREM TypeCorrect == Spec => []TypeOK
<1>1. Inv => TypeOK
  BY DEF Inv
<1> QED
  BY <1>1, InitInv, StepInv, PTL DEF Spec

(* The core only believes in a disc that is open, with its own tracks:     *)
(* unmount, tracks and mount go out in the right order on every path.      *)
THEOREM MountIsServed == Spec => []MountedIsServed
<1>1. Inv => MountedIsServed
  <2> SUFFICES ASSUME Inv, announced # 0, mpc \notin {"unmount", "giveup", "cart"}
               PROVE  /\ chd # None /\ buf # Null /\ toc = {chd}
                      /\ fpgaToc = chd /\ announced = epoch
    BY DEF MountedIsServed
  <2>1. mpc = "idle" /\ fpgaToc \in Discs
    BY DEF Inv, TypeOK, MainType, Announced, Loading
  <2>2. chd = fpgaToc /\ buf # Null /\ toc = {chd} /\ announced = epoch
    BY <2>1 DEF Inv, Announced
  <2> QED
    BY <2>1, <2>2, CdAssumption DEF None
<1> QED
  BY <1>1, InitInv, StepInv, PTL DEF Spec

-----------------------------------------------------------------------------
(* The order and the content of the answers.                               *)

(* The request sent or being sent last, and the one at the server.         *)
Last == IF dma THEN stage.req.id ELSE sent.req.id
Before == IF spc = "idle" THEN Last ELSE req.id

Order ==
  /\ dma => sent.req.id < stage.req.id
  /\ spc # "idle" => Last < req.id
  /\ \A i \in 1..Len(queue) : Before < queue[i].id /\ queue[i].id <= asks
  /\ \A i, j \in 1..Len(queue) : i < j => queue[i].id < queue[j].id
  /\ Before <= asks

(* A request is of the disc the FPGA knows, unless that was closed.        *)
Present(r) == r.epoch <= epoch /\ (r.epoch = epoch => announced = epoch /\ r.disc = fpgaToc)

Good(r, d) == d.sector = Right(r) \/ d.why # {}

Content ==
  /\ \A i \in 1..Len(queue) : Present(queue[i])
  /\ spc # "idle" => Present(req)
  /\ stage.req.epoch <= epoch /\ sent.req.epoch <= epoch
  /\ spoiled = {} /\ cached # None => chd # None /\ buf = <<chd, cached>>
  /\ spc # "idle" /\ req.epoch = epoch => frame = FileFrame[req.disc][req.lba]
  /\ spc \in {"send", "second"} /\ req.epoch = epoch => spoiled # {} \/ cached = Hunk(frame)
  /\ spc \in {"second", "stage"} /\ req.epoch = epoch => Good(req, taken)
  /\ dma /\ stage.req.epoch = epoch => Good(stage.req, stage.data)
  /\ WrongSectorHasCauses

-----------------------------------------------------------------------------
LEMMA RequestNumbers ==
  \A r \in Requests \cup {NoReq} : r.id \in Int /\ r.epoch \in Int
<1> TAKE r \in Requests \cup {NoReq}
<1>1. CASE r \in Requests
  BY <1>1, CdAssumption DEF Requests
<1>2. CASE r = NoReq
  BY <1>2 DEF NoReq, None
<1> QED
  BY <1>1, <1>2

(* The numbers Order and Content compare.                                  *)
LEMMA Numbers ==
  ASSUME Inv
  PROVE  /\ \A i \in 1..Len(queue) : queue[i] \in Requests /\ queue[i].id \in Int
                                       /\ queue[i].epoch \in Int
         /\ req.id \in Int /\ req.epoch \in Int
         /\ stage.req.id \in Int /\ stage.req.epoch \in Int
         /\ sent.req.id \in Int /\ sent.req.epoch \in Int
         /\ Last \in Int /\ Before \in Int /\ asks \in Int /\ epoch \in Nat \ {0}
         /\ Len(queue) \in Nat
<1>0. ServerType /\ FpgaType
  BY DEF Inv, TypeOK
<1>1. queue \in Seq(Requests) /\ req \in Requests \cup {NoReq}
      /\ stage.req \in Requests \cup {NoReq} /\ sent.req \in Requests \cup {NoReq}
  BY <1>0 DEF ServerType
<1>2. Len(queue) \in Nat /\ \A i \in 1..Len(queue) : queue[i] \in Requests
  <2> DEFINE R == Requests
  <2>1. queue \in Seq(R)
    BY <1>1
  <2> HIDE DEF R
  <2>2. Len(queue) \in Nat /\ \A i \in 1..Len(queue) : queue[i] \in R
    BY <2>1
  <2> QED
    BY <2>2 DEF R
<1>3. asks \in Int /\ epoch \in Nat \ {0}
  BY <1>0, CdAssumption DEF FpgaType
<1>4. /\ req.id \in Int /\ req.epoch \in Int
      /\ stage.req.id \in Int /\ stage.req.epoch \in Int
      /\ sent.req.id \in Int /\ sent.req.epoch \in Int
  BY <1>1, RequestNumbers
<1>5. Last \in Int /\ Before \in Int
  BY <1>4 DEF Last, Before
<1> QED
  BY <1>1, <1>2, <1>3, <1>4, <1>5, RequestNumbers

(* What is left of a queue whose first request is taken.                   *)
LEMMA TailOf ==
  ASSUME Inv, queue # <<>>
  PROVE  /\ 1 \in 1..Len(queue) /\ Head(queue) = queue[1]
         /\ Len(Tail(queue)) = Len(queue) - 1
         /\ \A i \in 1..Len(Tail(queue)) : Tail(queue)[i] = queue[i + 1]
<1> DEFINE R == Requests
<1>1. queue \in Seq(R)
  BY DEF Inv, TypeOK, ServerType
<1> HIDE DEF R
<1> QED
  BY <1>1

(* A queue with a request more.                                            *)
LEMMA Appended ==
  ASSUME Inv, NEW r
  PROVE  /\ Len(Append(queue, r)) = Len(queue) + 1
         /\ \A i \in 1..Len(queue) : Append(queue, r)[i] = queue[i]
         /\ Append(queue, r)[Len(queue) + 1] = r
<1> DEFINE R == Requests
<1>1. queue \in Seq(R)
  BY DEF Inv, TypeOK, ServerType
<1> HIDE DEF R
<1> QED
  BY <1>1

-----------------------------------------------------------------------------
LEMMA OrderInit == Init => Order
  BY DEF Init, Order, Last, Before, NoReq, None

LEMMA OrderStep == Inv /\ Order /\ [Next]_vars => Order'
<1> SUFFICES ASSUME Inv, Order, [Next]_vars PROVE Order'
  OBVIOUS
<1>1. ASSUME NEW lba \in Lbas, NEW isAudio \in BOOLEAN, Ask(lba, isAudio) PROVE Order'
  <2> DEFINE r == [lba |-> lba, audio |-> isAudio, epoch |-> announced, disc |-> fpgaToc,
                   id |-> asks + 1]
  <2>1. r.id = asks + 1
    OBVIOUS
  <2>2. queue' = queue \/ queue' = Append(queue, r)
    BY <1>1 DEF Ask, Post
  <2>3. asks' = asks + 1 /\ UNCHANGED <<spc, req, stage, dma, sent>>
    BY <1>1 DEF Ask, server, wire
  <2>4. Last' = Last /\ Before' = Before
    BY <2>3 DEF Last, Before
  <2> HIDE DEF r
  <2>5. CASE queue' = queue
    BY <2>3, <2>4, <2>5, Numbers DEF Order
  <2>6. CASE queue' = Append(queue, r)
    <3>1. /\ Len(queue') = Len(queue) + 1 /\ queue'[Len(queue) + 1] = r
          /\ \A i \in 1..Len(queue) : queue'[i] = queue[i]
      BY <2>6, Appended
    <3>2. \A i \in 1..Len(queue') : i \in 1..Len(queue) \/ i = Len(queue) + 1
      BY <3>1, Numbers
    <3>3. \A i \in 1..Len(queue') : Before' < queue'[i].id /\ queue'[i].id <= asks'
      <4> TAKE i \in 1..Len(queue')
      <4>1. CASE i \in 1..Len(queue)
        <5>1. queue'[i] = queue[i] /\ Before < queue[i].id /\ queue[i].id <= asks
          BY <3>1, <4>1 DEF Order
        <5>2. queue[i].id \in Int /\ asks \in Int
          BY <4>1, Numbers
        <5> QED
          BY <2>3, <2>4, <5>1, <5>2
      <4>2. CASE i = Len(queue) + 1
        <5>1. queue'[i].id = asks + 1 /\ Before <= asks
          BY <2>1, <3>1, <4>2 DEF Order
        <5>2. Before \in Int /\ asks \in Int
          BY Numbers
        <5> QED
          BY <2>3, <2>4, <5>1, <5>2
      <4> QED
        BY <3>2, <4>1, <4>2
    <3>4. \A i, j \in 1..Len(queue') : i < j => queue'[i].id < queue'[j].id
      <4> TAKE i, j \in 1..Len(queue')
      <4> HAVE i < j
      <4>1. i \in 1..Len(queue)
        BY <3>1, Numbers
      <4>2. CASE j \in 1..Len(queue)
        BY <3>1, <4>1, <4>2 DEF Order
      <4>3. CASE j = Len(queue) + 1
        <5>1. queue'[j].id = asks + 1
          BY <2>1, <3>1, <4>3
        <5>2. queue'[i].id = queue[i].id /\ queue[i].id <= asks
          BY <3>1, <4>1 DEF Order
        <5>3. queue[i].id \in Int /\ asks \in Int
          BY <4>1, Numbers
        <5> QED
          BY <5>1, <5>2, <5>3
      <4> QED
        BY <3>2, <4>2, <4>3
    <3> QED
      BY <2>3, <2>4, <3>3, <3>4, Numbers DEF Order
  <2> QED
    BY <2>2, <2>5, <2>6
<1>2. CASE Receive \/ Decline
  <2>1. queue # <<>> /\ spc = "idle" /\ queue' = Tail(queue)
        /\ UNCHANGED <<stage, dma, sent, asks>>
    BY <1>2 DEF Receive, Decline, wire, fpga
  <2>2. Last' = Last /\ Before = Last
    BY <2>1 DEF Last, Before
  <2>3. Before' = Last \/ Before' = queue[1].id
    BY <1>2, <2>1, <2>2, TailOf DEF Receive, Decline, Before, server
  <2>4. 1 \in 1..Len(queue) /\ Len(queue') = Len(queue) - 1
        /\ \A i \in 1..Len(queue') : queue'[i] = queue[i + 1]
    BY <2>1, TailOf
  <2>5. \A i \in 1..Len(queue') : i + 1 \in 1..Len(queue) /\ 1 < i + 1
    BY <2>4, Numbers
  <2>6. Last < queue[1].id /\ queue[1].id <= asks
    BY <2>2, <2>4 DEF Order
  <2>7. \A i \in 1..Len(queue') : Before' < queue'[i].id /\ queue'[i].id <= asks'
    BY <2>1, <2>2, <2>3, <2>4, <2>5, Numbers DEF Order
  <2>8. \A i, j \in 1..Len(queue') : i < j => queue'[i].id < queue'[j].id
    <3> TAKE i, j \in 1..Len(queue')
    <3> HAVE i < j
    <3>1. i + 1 \in 1..Len(queue) /\ j + 1 \in 1..Len(queue) /\ i + 1 < j + 1
      BY <2>4, <2>5, Numbers
    <3> QED
      BY <2>4, <3>1 DEF Order
  <2>9. Before' <= asks'
    BY <2>1, <2>2, <2>3, <2>4, <2>6, Numbers DEF Order
  <2>10. (dma' => sent'.req.id < stage'.req.id) /\ (spc' # "idle" => Last' < req'.id)
    <3>1. spc' # "idle" => req' = queue[1]
      BY <1>2, <2>1, TailOf DEF Receive, Decline, server
    <3> QED
      BY <2>1, <2>2, <2>6, <3>1 DEF Order
  <2> QED
    BY <2>7, <2>8, <2>9, <2>10 DEF Order
<1>3. CASE CheckTag \/ Decoded \/ DecodedOutdated \/ SendFirst \/ Swap
  <2>1. UNCHANGED <<queue, req, stage, dma, sent, asks>> /\ spc # "idle" /\ spc' # "idle"
    BY <1>3 DEF CheckTag, Decoded, DecodedOutdated, SendFirst, Swap, wire, fpga
  <2> QED
    BY <2>1 DEF Order, Last, Before
<1>4. CASE DecodeFails
  <2>1. UNCHANGED <<queue, stage, dma, sent, asks>> /\ spc # "idle" /\ spc' = "idle"
    BY <1>4 DEF DecodeFails, Rest, wire, fpga
  <2>2. Last' = Last /\ Before' = Last /\ Before = req.id /\ Last < Before
    BY <2>1 DEF Order, Last, Before
  <2>3. /\ Last \in Int /\ Before \in Int /\ asks \in Int
        /\ \A i \in 1..Len(queue) : queue[i].id \in Int
    BY Numbers
  <2>4. /\ \A i \in 1..Len(queue) : Before' < queue[i].id
        /\ Before' <= asks
    BY <2>2, <2>3 DEF Order
  <2> QED
    BY <2>1, <2>4 DEF Order
<1>5. CASE SendSecond \/ SendBlocking
  <2>1. /\ UNCHANGED <<queue, dma, asks>> /\ spc # "idle" /\ spc' = "idle" /\ ~dma
        /\ sent'.req = req
    BY <1>5 DEF SendSecond, SendBlocking, Answer, Rest
  <2> QED
    BY <2>1, Numbers DEF Order, Last, Before
<1>6. CASE SendDma
  <2>1. /\ UNCHANGED <<queue, sent, asks>> /\ spc # "idle" /\ spc' = "idle" /\ ~dma /\ dma'
        /\ stage'.req = req
    BY <1>6 DEF SendDma, Rest, fpga
  <2> QED
    BY <2>1, Numbers DEF Order, Last, Before
<1>7. CASE DmaDone
  <2>1. /\ UNCHANGED <<queue, spc, req, asks>> /\ dma /\ ~dma' /\ sent'.req = stage.req
    BY <1>7 DEF DmaDone, Answer, server
  <2> QED
    BY <2>1, Numbers DEF Order, Last, Before
<1>8. CASE (\E d \in Discs : LoadDisc(d)) \/ LoadCart \/ MainStep \/ UNCHANGED vars
  <2>1. UNCHANGED <<queue, spc, req, stage, dma, sent, asks>>
    BY <1>8 DEF LoadDisc, LoadCart, MainStep, Close, Unmount, OpenFails, Open, ReadToc, GiveUp,
                Boot, SendToc, SendMount, vars, server, wire, fpga
  <2> QED
    BY <2>1 DEF Order, Last, Before
<1> QED
  BY <1>1, <1>2, <1>3, <1>4, <1>5, <1>6, <1>7, <1>8 DEF Next, ServerStep

(* Sectors go out in the order of their requests, none twice, however      *)
(* transfers, decodes and loads overlap.                                   *)
THEOREM InOrder == Spec => AnswersInOrder
<1>1. Inv /\ Order /\ [Next]_vars => [sent'.req.id > sent.req.id]_sent
  <2> SUFFICES ASSUME Inv, Order, [Next]_vars, sent' # sent
               PROVE  sent'.req.id > sent.req.id
    OBVIOUS
  <2>1. SendSecond \/ SendBlocking \/ DmaDone
    BY DEF Next, ServerStep, Ask, Receive, Decline, CheckTag, Decoded, DecodedOutdated,
           DecodeFails, SendFirst, Swap, SendDma, LoadDisc, LoadCart, MainStep, Close, Unmount,
           OpenFails, Open, ReadToc, GiveUp, Boot, SendToc, SendMount, vars, wire
  <2>2. CASE SendSecond \/ SendBlocking
    BY <2>2, Numbers DEF SendSecond, SendBlocking, Answer, Order, Last
  <2>3. CASE DmaDone
    BY <2>3, Numbers DEF DmaDone, Answer, Order
  <2> QED
    BY <2>1, <2>2, <2>3
<1> QED
  BY <1>1, InitInv, StepInv, OrderInit, OrderStep, PTL DEF Spec, AnswersInOrder

-----------------------------------------------------------------------------
(* A request made since the last close finds its disc open.                *)
LEMMA CurrentDisc ==
  ASSUME Inv, NEW r, Present(r), r.epoch = epoch
  PROVE  /\ mpc = "idle" /\ chd = r.disc /\ toc = {chd}
         /\ chd \in Discs /\ chd # None /\ chd # 0
<1>1. announced = epoch /\ r.disc = fpgaToc /\ epoch # 0
  BY Numbers DEF Present
<1>2. mpc = "idle" /\ fpgaToc \in Discs
  BY <1>1 DEF Inv, Announced
<1>3. chd = fpgaToc /\ toc = {chd}
  BY <1>1, <1>2 DEF Inv, Announced
<1> QED
  BY <1>1, <1>2, <1>3, CdAssumption DEF None

(* What a server that found the tag takes from the buffer.                 *)
LEMMA Taken ==
  ASSUME Inv, Content, spc \in {"send", "second"}, req.epoch = epoch
  PROVE  Good(req, At(frame))
<1>1. CASE spoiled # {}
  BY <1>1 DEF Good, At
<1>2. CASE spoiled = {}
  <2>1. cached = Hunk(frame) /\ frame = FileFrame[req.disc][req.lba] /\ Present(req)
    BY <1>2 DEF Content
  <2>2. chd = req.disc /\ chd # 0
    BY <2>1, CurrentDisc
  <2>3. Hunk(frame) # None
    BY HunkType DEF Inv, TypeOK, ServerType, None
  <2>4. buf = <<chd, Hunk(frame)>>
    BY <1>2, <2>1, <2>3 DEF Content
  <2>5. At(frame).sector = <<chd, frame>>
    BY <2>2, <2>4 DEF At
  <2> QED
    BY <2>1, <2>2, <2>5 DEF Good, Right
<1> QED
  BY <1>1, <1>2

LEMMA ContentInit == Init => Content
  BY DEF Init, Content, WrongSectorHasCauses, NoStage, NoReq, None

(* While no disc is open and announced, every request is of a closed one.  *)
LEMMA AllOutdated ==
  ASSUME Inv, Content, mpc # "idle"
  PROVE  /\ \A i \in 1..Len(queue) : queue[i].epoch <= epoch /\ queue[i].epoch # epoch
         /\ spc # "idle" => req.epoch <= epoch /\ req.epoch # epoch
<1>1. ASSUME NEW r, Present(r) PROVE r.epoch <= epoch /\ r.epoch # epoch
  BY <1>1, CurrentDisc DEF Present
<1> QED
  BY <1>1 DEF Content

LEMMA ContentStep == Inv /\ Content /\ [Next]_vars => Content'
<1> SUFFICES ASSUME Inv, Content, [Next]_vars PROVE Content'
  OBVIOUS
<1>1. ASSUME NEW lba \in Lbas, NEW isAudio \in BOOLEAN, Ask(lba, isAudio) PROVE Content'
  <2> DEFINE r == [lba |-> lba, audio |-> isAudio, epoch |-> announced, disc |-> fpgaToc,
                   id |-> asks + 1]
  <2>1. Present(r)
    BY <1>1 DEF Ask, Present, Inv, Announced
  <2>2. queue' = queue \/ queue' = Append(queue, r)
    BY <1>1 DEF Ask, Post
  <2>3. UNCHANGED <<spc, req, frame, taken, stage, dma, sent, spoiled, epoch, announced, fpgaToc,
                    chd, buf, cached>>
    BY <1>1 DEF Ask, server, wire, disk
  <2> HIDE DEF r
  <2>4. ASSUME NEW i \in 1..Len(queue') PROVE Present(queue'[i])
    <3>1. CASE queue' = queue
      BY <2>4, <3>1 DEF Content
    <3>2. CASE queue' = Append(queue, r)
      <4>1. i \in 1..Len(queue) \/ i = Len(queue) + 1
        BY <2>4, <3>2, Appended, Numbers
      <4> QED
        BY <2>1, <3>2, <4>1, Appended DEF Content
    <3> QED
      BY <2>2, <3>1, <3>2
  <2> QED
    BY <2>3, <2>4 DEF Content, Present, WrongSectorHasCauses, Good
<1>2. CASE Receive
  <2>1. queue # <<>> /\ spc' = "mapped" /\ req' = Head(queue) /\ queue' = Tail(queue)
        /\ frame' \in Mapped(req'.lba)
        /\ UNCHANGED <<mpc, chd, toc, buf, cached, stage, dma, sent, spoiled, epoch, announced,
                       fpgaToc>>
    BY <1>2 DEF Receive, wire, disk, fpga, ghost
  <2>2. Present(req')
    BY <2>1, TailOf DEF Content
  <2>3. \A i \in 1..Len(queue') : Present(queue'[i])
    <3>1. \A i \in 1..Len(queue') : i + 1 \in 1..Len(queue)
      BY <2>1, TailOf, Numbers
    <3> QED
      BY <2>1, <3>1, TailOf DEF Content
  <2>4. ASSUME req'.epoch = epoch PROVE frame' = FileFrame[req'.disc][req'.lba]
    <3>1. mpc = "idle" /\ chd = req'.disc /\ toc = {chd}
      BY <2>2, <2>4, CurrentDisc
    <3>2. Mapped(req'.lba) = {FileFrame[chd][req'.lba]}
      BY <3>1 DEF Mapped
    <3> QED
      BY <2>1, <3>1, <3>2
  <2> QED
    BY <2>1, <2>2, <2>3, <2>4 DEF Content, Present, WrongSectorHasCauses, Good
<1>3. CASE Decline
  <2>1. queue # <<>> /\ queue' = Tail(queue)
        /\ UNCHANGED <<chd, buf, cached, spc, req, frame, taken, stage, dma, sent, spoiled, epoch,
                       announced, fpgaToc>>
    BY <1>3 DEF Decline, wire, disk, fpga, server
  <2>2. \A i \in 1..Len(queue') : i + 1 \in 1..Len(queue) /\ queue'[i] = queue[i + 1]
    BY <2>1, TailOf, Numbers
  <2> QED
    BY <2>1, <2>2 DEF Content, Present, WrongSectorHasCauses, Good
<1>4. CASE CheckTag
  <2>1. UNCHANGED <<queue, chd, buf, cached, req, frame, taken, stage, dma, sent, spoiled, epoch,
                    announced, fpgaToc>> /\ spc = "mapped" /\ spc' \in {"send", "decode"}
    BY <1>4 DEF CheckTag, wire, disk, fpga, ghost
  <2>2. ASSUME spc' = "send", req.epoch = epoch PROVE cached = Hunk(frame)
    <3>1. chd # None
      BY <2>1, <2>2, CurrentDisc DEF Content
    <3> QED
      BY <1>4, <2>2, <3>1 DEF CheckTag
  <2> QED
    BY <2>1, <2>2 DEF Content, Present, WrongSectorHasCauses, Good
<1>5. CASE Decoded
  <2>1. UNCHANGED <<queue, chd, req, frame, taken, stage, dma, sent, epoch, announced, fpgaToc>>
        /\ spc = "decode" /\ spc' = "send" /\ req.epoch = epoch
        /\ buf' = <<chd, Hunk(frame)>> /\ cached' = Hunk(frame) /\ spoiled' = {}
    BY <1>5 DEF Decoded, Outdated, wire, fpga
  <2>2. chd # None
    BY <2>1, CurrentDisc DEF Content
  <2> QED
    BY <2>1, <2>2 DEF Content, Present, WrongSectorHasCauses, Good
<1>6. CASE DecodedOutdated
  <2>1. UNCHANGED <<queue, req, frame, taken, stage, dma, sent, epoch, announced, fpgaToc>>
        /\ spc = "decode" /\ spc' = "send" /\ req.epoch # epoch /\ spoiled' # {}
    BY <1>6 DEF DecodedOutdated, Outdated, wire, fpga
  <2> QED
    BY <2>1 DEF Content, Present, WrongSectorHasCauses, Good
<1>7. CASE DecodeFails
  <2>1. UNCHANGED <<queue, stage, dma, sent, epoch, announced, fpgaToc>>
        /\ spc' = "idle" /\ spoiled' # {}
    BY <1>7 DEF DecodeFails, Rest, wire, fpga
  <2> QED
    BY <2>1 DEF Content, Present, WrongSectorHasCauses, Good
<1>8. CASE SendFirst \/ Swap
  <2>1. UNCHANGED <<queue, chd, buf, cached, req, frame, stage, dma, sent, spoiled, epoch,
                    announced, fpgaToc>>
        /\ spc = "send" /\ spc' \in {"second", "stage"} /\ taken' = At(frame)
    BY <1>8 DEF SendFirst, Swap, wire, disk, fpga, ghost
  <2>2. req.epoch = epoch => Good(req, taken')
    BY <2>1, Taken
  <2> QED
    BY <2>1, <2>2 DEF Content, Present, WrongSectorHasCauses, Good
<1>9. CASE SendSecond \/ SendBlocking
  <2>1. /\ UNCHANGED <<queue, chd, buf, cached, stage, dma, spoiled, epoch, announced, fpgaToc>>
        /\ spc \in {"second", "stage"} /\ spc' = "idle"
        /\ sent'.req = req
    BY <1>9 DEF SendSecond, SendBlocking, Answer, Rest, disk, ghost
  <2>2. req.epoch <= epoch /\ (req.epoch = epoch => Good(req, taken))
    BY <2>1 DEF Content, Present
  <2>3. req.epoch = epoch => Good(req, sent'.data[1]) /\ Good(req, sent'.data[2])
    <3>1. CASE SendSecond
      <4>1. spc = "second" /\ sent' = [req |-> req, data |-> <<taken, At(frame)>>]
        BY <3>1 DEF SendSecond, Answer
      <4>2. sent'.data[1] = taken /\ sent'.data[2] = At(frame)
        BY <4>1
      <4> QED
        BY <2>2, <4>1, <4>2, Taken
    <3>2. CASE SendBlocking
      <4>1. sent' = [req |-> req, data |-> <<taken, taken>>]
        BY <3>2 DEF SendBlocking, Answer
      <4>2. sent'.data[1] = taken /\ sent'.data[2] = taken
        BY <4>1
      <4> QED
        BY <2>2, <4>2
    <3> QED
      BY <1>9, <3>1, <3>2
  <2>4. req.epoch = epoch =>
          \A i \in 1..2 : sent'.data[i].sector = Right(req) \/ sent'.data[i].why # {}
    BY <2>3 DEF Good
  <2>5. WrongSectorHasCauses' /\ sent'.req.epoch <= epoch
    BY <2>1, <2>2, <2>4 DEF WrongSectorHasCauses, Right
  <2> QED
    BY <2>1, <2>5 DEF Content, Present, Good
<1>10. CASE SendDma
  <2>1. UNCHANGED <<queue, chd, buf, cached, sent, spoiled, epoch, announced, fpgaToc>>
        /\ spc = "stage" /\ spc' = "idle" /\ stage' = [req |-> req, data |-> taken]
    BY <1>10 DEF SendDma, Rest, disk, fpga, ghost
  <2>2. req.epoch <= epoch /\ (req.epoch = epoch => Good(req, taken))
    BY <2>1 DEF Content, Present
  <2> QED
    BY <2>1, <2>2 DEF Content, Present, WrongSectorHasCauses, Good
<1>11. CASE DmaDone
  <2>1. UNCHANGED <<queue, chd, buf, cached, spc, req, frame, taken, spoiled, epoch,
                    announced, fpgaToc>> /\ dma /\ ~dma' /\ stage'.req.epoch = 0
        /\ sent' = [req |-> stage.req, data |-> <<stage.data, stage.data>>]
    BY <1>11 DEF DmaDone, Answer, server, disk, ghost, NoStage, NoReq
  <2>2. WrongSectorHasCauses' /\ sent'.req.epoch <= epoch
    <3>1. sent'.req = stage.req /\ sent'.data[1] = stage.data /\ sent'.data[2] = stage.data
      BY <2>1
    <3>2. stage.req.epoch = epoch =>
            \A i \in 1..2 : sent'.data[i].sector = Right(stage.req) \/ sent'.data[i].why # {}
      BY <2>1, <3>1 DEF Content, Good
    <3> QED
      BY <2>1, <3>1, <3>2 DEF WrongSectorHasCauses, Right, Content
  <2> QED
    BY <2>1, <2>2, Numbers DEF Content, Present, Good
<1>12. CASE (\E d \in Discs : LoadDisc(d)) \/ LoadCart \/ GiveUp
  <2>1. Close
    BY <1>12 DEF LoadDisc, LoadCart, GiveUp
  <2>2. epoch' = epoch + 1 /\ cached' = None
        /\ UNCHANGED <<queue, spc, req, frame, taken, stage, dma, sent>>
    BY <2>1 DEF Close, server, wire
  <2>3. ASSUME NEW n \in Int, n <= epoch PROVE n <= epoch' /\ n # epoch'
    BY <2>2, <2>3, Numbers
  <2>4. \A i \in 1..Len(queue) : queue[i].epoch <= epoch' /\ queue[i].epoch # epoch'
    BY <2>3, Numbers DEF Content, Present
  <2>5. /\ spc # "idle" => req.epoch <= epoch' /\ req.epoch # epoch'
        /\ stage.req.epoch <= epoch' /\ stage.req.epoch # epoch'
        /\ sent.req.epoch <= epoch' /\ sent.req.epoch # epoch'
    BY <2>3, Numbers DEF Content, Present
  <2> QED
    BY <2>2, <2>4, <2>5 DEF Content, Present, WrongSectorHasCauses
<1>13. CASE Unmount \/ OpenFails \/ Open \/ ReadToc \/ Boot \/ SendToc \/ SendMount
  <2>1. mpc # "idle"
    BY <1>13 DEF Unmount, OpenFails, Open, ReadToc, Boot, SendToc, SendMount, Main
  <2>2. UNCHANGED <<queue, spc, req, frame, taken, stage, dma, sent, epoch>>
    BY <1>13 DEF Unmount, OpenFails, Open, ReadToc, Boot, SendToc, SendMount, server, wire, ghost
  <2>3. cached' = None \/ UNCHANGED <<chd, buf, cached, spoiled>>
    BY <1>13 DEF Unmount, OpenFails, Open, ReadToc, Boot, SendToc, SendMount, disk, ghost
  <2> QED
    BY <2>1, <2>2, <2>3, AllOutdated DEF Content, Present, WrongSectorHasCauses, Good
<1>14. CASE UNCHANGED vars
  BY <1>14 DEF vars, server, wire, disk, fpga, ghost, Content, Present, WrongSectorHasCauses, Good
<1> QED
  BY <1>1, <1>2, <1>3, <1>4, <1>5, <1>6, <1>7, <1>8, <1>9, <1>10, <1>11, <1>12, <1>13, <1>14
     DEF Next, ServerStep, MainStep

(* The core gets the sector it asked for, of the disc it asked it of, with *)
(* no causes of a wrong one but the three WrongSectorHasCauses names.      *)
THEOREM RightSector == Spec => []WrongSectorHasCauses
<1>1. Content => WrongSectorHasCauses
  BY DEF Content
<1> QED
  BY <1>1, InitInv, StepInv, ContentInit, ContentStep, PTL DEF Spec

-----------------------------------------------------------------------------
(* The floppy drives.                                                      *)

Phase ==
  /\ (mount = NoRequest) <=> (mainAt = "menu")
  /\ mainAt \in {"size", "tell", "note"} => fil[mount.d].img = mount.img
  /\ mainAt = "note" => media[mount.d] = mount.img
  /\ (pending = NoRequest) <=> (rxAt = "idle")

(* The last mount of the drive has ended well.                             *)
Settled(d) == ~failed[d] /\ ~Mounting(d)

Loaded ==
  \A d \in Drives : Settled(d) =>
    /\ floppy[d] => fil[d].img = name[d] /\ (media[d] = name[d] \/ reset[d])
    /\ media[d] # NoImage => floppy[d] /\ fil[d].img = media[d]

GoodRequest(q) ==
  ~q.crossed => /\ ~Mounting(q.d)
                /\ ~failed[q.d] => floppy[q.d] /\ fil[q.d].img = q.img

Waiting ==
  /\ \A n \in 1..Len(ring) : GoodRequest(ring[n])
  /\ pending # NoRequest => GoodRequest(pending)
  /\ rxAt = "access" /\ ~pending.crossed /\ ~failed[pending.d] /\ ~erred =>
       fil[pending.d].pos = pending.s

IInv == FloppyTypeOK /\ Phase /\ Loaded /\ Waiting /\ served

-----------------------------------------------------------------------------
LEMMA InitIInv == FloppyInit => IInv
<1> SUFFICES ASSUME FloppyInit PROVE IInv
  OBVIOUS
<1>1. Closed \in [img : Media, pos : Sectors] /\ NoImage \in Media
  BY FloppyDriveAssumption DEF Closed, Media
<1>2. FloppyTypeOK
  <2>1. fil \in [Drives -> [img : Media, pos : Sectors]]
    BY <1>1 DEF FloppyInit
  <2>2. ring \in Seq(SectorRequests) /\ Len(ring) <= MaxRequests
    BY FloppyDriveAssumption DEF FloppyInit
  <2> QED
    BY <1>1, <2>1, <2>2 DEF FloppyInit, FloppyTypeOK
<1>3. Phase /\ Loaded /\ Waiting /\ served
  BY <1>1 DEF FloppyInit, Phase, Loaded, Settled, Waiting, GoodRequest, Mounting
<1> QED
  BY <1>2, <1>3 DEF IInv

(* The requests of the core.                                               *)
LEMMA CoreStep ==
  ASSUME IInv, (\E d \in Drives, s \in Sectors : Request(d, s)) \/ ConfigureCore
  PROVE  IInv'
<1> USE FloppyDriveAssumption
<1>1. CASE \E d \in Drives, s \in Sectors : Request(d, s)
  <2> PICK d \in Drives, s \in Sectors : Request(d, s)
    BY <1>1
  <2> DEFINE q == [d |-> d, s |-> s, img |-> media[d], crossed |-> Mounting(d)]
  <2>1. /\ media[d] # NoImage /\ Len(ring) < MaxRequests /\ ring' = Append(ring, q)
        /\ UNCHANGED <<drive, pending, rxAt, main, history>>
    BY DEF Request
  <2>2. q \in SectorRequests
    BY <2>1 DEF IInv, FloppyTypeOK, Media, SectorRequests, Mounting
  <2>3. /\ ring' \in Seq(SectorRequests) /\ Len(ring') = Len(ring) + 1
        /\ \A n \in 1..Len(ring) : ring'[n] = ring[n]
        /\ ring'[Len(ring) + 1] = q
    BY <2>1, <2>2 DEF IInv, FloppyTypeOK
  <2>4. FloppyTypeOK' /\ Phase' /\ Loaded'
    BY <2>1, <2>3 DEF IInv, FloppyTypeOK, Phase, Loaded, Settled, Mounting, drive, main, history
  <2>5. GoodRequest(q)
    BY <2>1 DEF IInv, Loaded, Settled, GoodRequest, Mounting
  <2>6. \A n \in 1..Len(ring') : GoodRequest(ring[n])'
    <3> TAKE n \in 1..Len(ring')
    <3>1. CASE n \in 1..Len(ring)
      BY <3>1, <2>1, <2>3 DEF IInv, Waiting, GoodRequest, Mounting, drive, main, history
    <3>2. CASE n = Len(ring) + 1
      <4>1. ring'[n] = q
        BY <3>2, <2>3
      <4> HIDE DEF q
      <4> QED
        BY <4>1, <2>1, <2>5 DEF GoodRequest, Mounting, drive, main, history
    <3> QED
      BY <3>1, <3>2, <2>3 DEF IInv, FloppyTypeOK
  <2>7. Waiting'
    BY <2>1, <2>6 DEF IInv, Waiting, GoodRequest, Mounting, drive, main, history
  <2> QED
    BY <2>1, <2>4, <2>7 DEF IInv, history
<1>2. CASE ConfigureCore
  <2>1. /\ mainAt = "menu"
        /\ media' = [d \in Drives |-> NoImage] /\ reset' = [d \in Drives |-> TRUE]
        /\ UNCHANGED <<floppy, name, fil, rx, main, failed, erred, served>>
    BY <1>2 DEF ConfigureCore
  <2>2. FloppyTypeOK' /\ Phase' /\ Loaded'
    BY <2>1 DEF IInv, FloppyTypeOK, Phase, Loaded, Settled, Mounting, Media, rx, main
  <2>3. Waiting'
    BY <2>1 DEF IInv, Waiting, GoodRequest, Mounting, rx, main
  <2> QED
    BY <2>1, <2>2, <2>3 DEF IInv
<1> QED
  BY <1>1, <1>2

-----------------------------------------------------------------------------
(* The steps of uart1_rx_task.                                             *)
LEMMA RxIInv ==
  IInv /\ (Parsed \/ Ignore \/ Seek \/ SeekFails \/ Access \/ AccessFails) => IInv'
<1> SUFFICES ASSUME IInv, Parsed \/ Ignore \/ Seek \/ SeekFails \/ Access \/ AccessFails PROVE IInv'
  OBVIOUS
<1> USE FloppyDriveAssumption
<1>1. CASE Parsed
  <2>1. /\ rxAt = "idle" /\ ring # <<>> /\ pending' = Head(ring) /\ ring' = Tail(ring)
        /\ rxAt' = "seek" /\ erred' = FALSE /\ UNCHANGED <<drive, main, failed, reset, served>>
    BY <1>1 DEF Parsed
  <2>2. /\ ring' \in Seq(SectorRequests) /\ Len(ring') = Len(ring) - 1 /\ Len(ring) > 0
        /\ pending' = ring[1] /\ pending' \in SectorRequests
        /\ \A n \in 1..Len(ring') : ring'[n] = ring[n + 1] /\ n + 1 \in 1..Len(ring)
    BY <2>1 DEF IInv, FloppyTypeOK
  <2>3. FloppyTypeOK' /\ Phase' /\ Loaded'
    <3>1. FloppyTypeOK'
      <4>1. Len(ring') <= MaxRequests
        BY <2>2, FloppyDriveAssumption DEF IInv, FloppyTypeOK
      <4> QED
        BY <2>1, <2>2, <4>1 DEF IInv, FloppyTypeOK, drive, main
    <3>2. Phase' /\ Loaded'
      BY <2>1, <2>2 DEF IInv, Phase, Loaded, Settled, Mounting, drive, main, SectorRequests
    <3> QED
      BY <3>1, <3>2
  <2>4. \A q : GoodRequest(q) => GoodRequest(q)'
    BY <2>1 DEF GoodRequest, Mounting, drive, main
  <2>5. Waiting'
    BY <2>1, <2>2, <2>4 DEF IInv, Waiting, GoodRequest, Mounting, drive, main
  <2> QED
    BY <2>1, <2>3, <2>5 DEF IInv
<1>2. CASE Ignore
  <2>1. /\ rxAt = "seek" /\ ~floppy[pending.d] /\ rxAt' = "idle" /\ pending' = NoRequest
        /\ UNCHANGED <<drive, ring, main, failed, reset, erred>>
    BY <1>2 DEF Ignore
  <2>2. served'
    BY <1>2, <2>1 DEF Ignore, Served, Undisturbed, IInv, Phase, Waiting, GoodRequest
  <2>3. FloppyTypeOK' /\ Phase' /\ Loaded'
    BY <2>1, <2>2 DEF IInv, FloppyTypeOK, Phase, Loaded, Settled, Mounting, drive, main
  <2>4. Waiting'
    BY <2>1 DEF IInv, Waiting, GoodRequest, Mounting, drive, main
  <2> QED
    BY <2>2, <2>3, <2>4 DEF IInv
<1>3. CASE Seek
  <2>1. /\ rxAt = "seek" /\ floppy[pending.d] /\ rxAt' = "access"
        /\ fil' = [fil EXCEPT ![pending.d] = IF @ = Closed THEN @ ELSE [@ EXCEPT !.pos = pending.s]]
        /\ UNCHANGED <<floppy, name, media, ring, pending, main, history>>
    BY <1>3 DEF Seek
  <2>2. pending \in SectorRequests
    BY <2>1 DEF IInv, FloppyTypeOK, Phase
  <2>3. /\ fil' \in [Drives -> [img : Media, pos : Sectors]]
        /\ \A d \in Drives : fil'[d].img = fil[d].img
        /\ fil[pending.d] # Closed => fil'[pending.d].pos = pending.s
    <3> DEFINE p == fil[pending.d]
               new == IF p = Closed THEN p ELSE [p EXCEPT !.pos = pending.s]
    <3>1. pending.d \in Drives /\ pending.s \in Sectors /\ p \in [img : Media, pos : Sectors]
          /\ fil \in [Drives -> [img : Media, pos : Sectors]]
      BY <2>2 DEF IInv, FloppyTypeOK, SectorRequests
    <3>2. /\ new \in [img : Media, pos : Sectors] /\ new.img = p.img
          /\ p # Closed => new.pos = pending.s
      BY <3>1
    <3>3. fil' = [fil EXCEPT ![pending.d] = new]
      BY <2>1
    <3> QED
      BY <3>1, <3>2, <3>3
  <2>4. FloppyTypeOK'
    BY <2>1, <2>3 DEF IInv, FloppyTypeOK, main, history
  <2>5. mount # NoRequest => mount.d \in Drives
    BY DEF IInv, FloppyTypeOK
  <2>6. Phase' /\ Loaded'
    BY <2>1, <2>3, <2>5 DEF IInv, Phase, Loaded, Settled, Mounting, main, history
  <2>7. \A q \in SectorRequests : GoodRequest(q) => GoodRequest(q)'
    BY <2>1, <2>3 DEF GoodRequest, Mounting, SectorRequests, main, history
  <2>8. \A n \in 1..Len(ring) : ring[n] \in SectorRequests
    BY DEF IInv, FloppyTypeOK
  <2>9. ~pending.crossed /\ ~failed[pending.d] => fil'[pending.d].pos = pending.s
    BY <2>2, <2>3, <2>1 DEF IInv, Phase, Waiting, GoodRequest, SectorRequests, Closed
  <2>10. Waiting'
    BY <2>1, <2>2, <2>7, <2>8, <2>9 DEF IInv, Waiting, history
  <2> QED
    BY <2>1, <2>4, <2>6, <2>10 DEF IInv, history
<1>4. CASE Access
  <2>1. /\ rxAt = "access" /\ rxAt' = "idle" /\ pending' = NoRequest
        /\ UNCHANGED <<drive, ring, main, failed, reset, erred>>
    BY <1>4 DEF Access
  <2>2. pending \in SectorRequests /\ fil[pending.d] \in [img : Media, pos : Sectors]
    BY <2>1 DEF IInv, FloppyTypeOK, Phase, SectorRequests
  <2>3. Undisturbed(pending) /\ ~erred =>
          fil[pending.d].img = pending.img /\ fil[pending.d].pos = pending.s
    BY <2>1 DEF IInv, Phase, Waiting, GoodRequest, Undisturbed
  <2>4. Undisturbed(pending) /\ ~erred =>
          fil[pending.d] = [img |-> pending.img, pos |-> pending.s]
    BY <2>2, <2>3
  <2>5. served'
    <3>1. erred' = erred
      BY <2>1
    <3>2. served' = (fil[pending.d] = [img |-> pending.img, pos |-> pending.s]
                     \/ ~Undisturbed(pending) \/ erred')
      BY <1>4 DEF Access, Served
    <3> QED
      BY <2>4, <3>1, <3>2, Zenon
  <2>6. FloppyTypeOK' /\ Phase' /\ Loaded'
    BY <2>1, <2>5 DEF IInv, FloppyTypeOK, Phase, Loaded, Settled, Mounting, drive, main
  <2>7. Waiting'
    BY <2>1 DEF IInv, Waiting, GoodRequest, Mounting, drive, main
  <2> QED
    BY <2>5, <2>6, <2>7 DEF IInv
<1>5. CASE SeekFails
  <2>1. /\ rxAt = "seek" /\ rxAt' = "access" /\ erred' = TRUE
        /\ UNCHANGED <<floppy, name, media, ring, pending, main, failed, reset, served>>
    BY <1>5 DEF SeekFails
  <2>2. PICK s \in Sectors : fil' = [fil EXCEPT ![pending.d].pos = s]
    BY <1>5 DEF SeekFails
  <2>3. pending \in SectorRequests /\ fil \in [Drives -> [img : Media, pos : Sectors]]
    BY <2>1 DEF IInv, FloppyTypeOK, Phase
  <2>4. /\ fil' \in [Drives -> [img : Media, pos : Sectors]]
        /\ \A d \in Drives : fil'[d].img = fil[d].img
    BY <2>2, <2>3 DEF SectorRequests
  <2>5. FloppyTypeOK'
    BY <2>1, <2>4 DEF IInv, FloppyTypeOK, main
  <2>6. mount # NoRequest => mount.d \in Drives
    BY DEF IInv, FloppyTypeOK
  <2>7. Phase' /\ Loaded'
    BY <2>1, <2>4, <2>6 DEF IInv, Phase, Loaded, Settled, Mounting, main
  <2>8. \A q \in SectorRequests : GoodRequest(q) => GoodRequest(q)'
    BY <2>1, <2>4 DEF GoodRequest, Mounting, SectorRequests, main
  <2>9. \A n \in 1..Len(ring) : ring[n] \in SectorRequests
    BY DEF IInv, FloppyTypeOK
  <2>10. Waiting'
    BY <2>1, <2>3, <2>8, <2>9 DEF IInv, Waiting
  <2> QED
    BY <2>1, <2>5, <2>7, <2>10 DEF IInv
<1>6. CASE AccessFails
  <2>1. /\ rxAt' = "idle" /\ pending' = NoRequest /\ erred' = TRUE /\ served'
        /\ UNCHANGED <<drive, ring, main, failed, reset>>
    BY <1>6 DEF AccessFails, Served
  <2>2. FloppyTypeOK' /\ Phase' /\ Loaded'
    BY <2>1 DEF IInv, FloppyTypeOK, Phase, Loaded, Settled, Mounting, drive, main
  <2>3. Waiting'
    BY <2>1 DEF IInv, Waiting, GoodRequest, Mounting, drive, main
  <2> QED
    BY <2>1, <2>2, <2>3 DEF IInv
<1> QED
  BY <1>1, <1>2, <1>3, <1>4, <1>5, <1>6
-----------------------------------------------------------------------------
(* mount_floppy.                                                           *)

(* Picking an image crosses every request of its drive that is waiting.    *)
LEMMA PickIInv ==
  ASSUME IInv, NEW d \in Drives, NEW i \in Images, PickImage(d, i)
  PROVE  IInv'
<1> USE FloppyDriveAssumption
<1>1. /\ mainAt = "menu" /\ mainAt' = "close" /\ mount' = [d |-> d, img |-> i]
      /\ ring' = [n \in DOMAIN ring |-> Crossed(ring[n], d)]
      /\ pending' = IF pending = NoRequest THEN pending ELSE Crossed(pending, d)
      /\ UNCHANGED <<drive, rxAt, failed, reset, erred, served>>
  BY DEF PickImage, Goto, history
<1>2. mount' \in [d : Drives, img : Images] /\ mount' # NoRequest /\ mount'.d = d
  BY <1>1
<1>3. mount = NoRequest
  BY <1>1 DEF IInv, Phase
<1>4. \A q \in SectorRequests :
         LET c == Crossed(q, d)
         IN  c \in SectorRequests /\ c.d = q.d /\ c.s = q.s /\ c.img = q.img
             /\ c.crossed = (q.crossed \/ q.d = d)
  BY DEF Crossed, SectorRequests
<1>5. ring \in Seq(SectorRequests) /\ Len(ring) <= MaxRequests /\ DOMAIN ring = 1..Len(ring)
  BY DEF IInv, FloppyTypeOK
<1>6. /\ ring' \in Seq(SectorRequests) /\ Len(ring') = Len(ring)
      /\ \A n \in 1..Len(ring) : ring[n] \in SectorRequests /\ ring'[n] = Crossed(ring[n], d)
  BY <1>1, <1>4, <1>5
<1>7. /\ pending = NoRequest => pending' = NoRequest
      /\ pending # NoRequest => pending \in SectorRequests /\ pending' = Crossed(pending, d)
                              /\ pending' \in SectorRequests /\ pending' # NoRequest
  BY <1>1, <1>4 DEF IInv, FloppyTypeOK, SectorRequests
<1>8. FloppyTypeOK'
  BY <1>1, <1>2, <1>6, <1>7 DEF IInv, FloppyTypeOK, drive
<1>9. Phase' /\ Loaded'
  BY <1>1, <1>2, <1>3, <1>7 DEF IInv, Phase, Loaded, Settled, Mounting, drive
<1>10. \A q, c : GoodRequest(q) /\ c.d = q.d /\ c.img = q.img /\ c.crossed = (q.crossed \/ q.d = d)
                  => GoodRequest(c)'
  BY <1>1, <1>2 DEF GoodRequest, Mounting, drive
<1>11. \A n \in 1..Len(ring') : GoodRequest(ring[n])'
  <2> TAKE n \in 1..Len(ring')
  <2>1. n \in 1..Len(ring) /\ ring[n] \in SectorRequests /\ ring'[n] = Crossed(ring[n], d)
    BY <1>6
  <2>2. ring'[n].d = ring[n].d /\ ring'[n].img = ring[n].img
        /\ ring'[n].crossed = (ring[n].crossed \/ ring[n].d = d)
    BY <2>1, <1>4
  <2>3. GoodRequest(ring[n])
    BY <2>1 DEF IInv, Waiting
  <2> QED
    BY <1>1, <1>2, <2>2, <2>3 DEF GoodRequest, Mounting, drive
<1>12. (pending # NoRequest => GoodRequest(pending))'
  BY <1>4, <1>7, <1>10 DEF IInv, Waiting, GoodRequest, Mounting
<1>13. Waiting'
  <2>1. rxAt = "access" => pending # NoRequest
    BY DEF IInv, Phase
  <2>2. pending # NoRequest => /\ pending'.d = pending.d /\ pending'.s = pending.s
                             /\ (~pending'.crossed => ~pending.crossed)
    BY <1>4, <1>7
  <2> QED
    BY <1>1, <1>11, <1>12, <2>1, <2>2 DEF IInv, Waiting, drive
<1> QED
  BY <1>1, <1>8, <1>9, <1>13 DEF IInv

(* A step of the mount under way: what may change is its own drive, of     *)
(* which Loaded and Good say nothing until the mount ends; and the mount    *)
(* ends in failure, or in a drive that is as Loaded asks.                  *)
LEMMA MountIInv ==
  ASSUME IInv,
         CloseOld \/ ImageFails \/ OpenImage \/ SizeUnknown \/ SizeKnown \/ Tell \/ Note
  PROVE  IInv'
<1> USE FloppyDriveAssumption
<1> DEFINE D == mount.d
<1>1. /\ mainAt # "menu" /\ mount # NoRequest /\ mount \in [d : Drives, img : Images]
      /\ UNCHANGED <<rx, erred, served>>
  BY DEF IInv, FloppyTypeOK, Phase, CloseOld, ImageFails, OpenImage, SizeUnknown, SizeKnown,
         Tell, Note, Goto, MountEnds, history
<1>2. D \in Drives /\ mount.img \in Images /\ D = mount.d
  BY <1>1
<1>3. FloppyTypeOK /\ Phase /\ Loaded /\ Waiting /\ served
  BY DEF IInv
<1> HIDE DEF D
<1>4. /\ FloppyTypeOK' /\ Phase' /\ Loaded'
      /\ \A d \in Drives : d # D => floppy'[d] = floppy[d] /\ fil'[d] = fil[d]
                                   /\ failed'[d] = failed[d]
      /\ mount' \in {mount, NoRequest}
  <2>1. CASE CloseOld
    BY <1>1, <1>2, <1>3, <2>1
       DEF CloseOld, Goto, FloppyTypeOK, Phase, Loaded, Settled, Mounting, Closed, Media, rx, history
  <2>2. CASE ImageFails
    BY <1>1, <1>2, <1>3, <2>2
       DEF ImageFails, MountEnds, Goto, FloppyTypeOK, Phase, Loaded, Settled, Mounting, drive, rx
  <2>3. CASE OpenImage
    BY <1>1, <1>2, <1>3, <2>3
       DEF OpenImage, Goto, FloppyTypeOK, Phase, Loaded, Settled, Mounting, Media, rx, history
  <2>4. CASE SizeUnknown
    BY <1>1, <1>2, <1>3, <2>4
       DEF SizeUnknown, MountEnds, Goto, FloppyTypeOK, Phase, Loaded, Settled, Mounting, drive, rx
  <2>5. CASE SizeKnown
    BY <1>1, <1>2, <1>3, <2>5
       DEF SizeKnown, Goto, FloppyTypeOK, Phase, Loaded, Settled, Mounting, drive, rx, history
  <2>6. CASE Tell
    BY <1>1, <1>2, <1>3, <2>6
       DEF Tell, Goto, FloppyTypeOK, Phase, Loaded, Settled, Mounting, Media, rx
  <2>7. CASE Note
    BY <1>1, <1>2, <1>3, <2>7
       DEF Note, MountEnds, Goto, FloppyTypeOK, Phase, Loaded, Settled, Mounting, Media, rx
  <2> QED
    BY <2>1, <2>2, <2>3, <2>4, <2>5, <2>6, <2>7
<1>5. \A q \in SectorRequests : GoodRequest(q) => GoodRequest(q)'
  BY <1>1, <1>2, <1>4 DEF GoodRequest, Mounting, SectorRequests
<1>6. /\ \A n \in 1..Len(ring) : ring[n] \in SectorRequests
      /\ pending # NoRequest => pending \in SectorRequests
      /\ rxAt = "access" => pending # NoRequest
  BY <1>3 DEF FloppyTypeOK, Phase
<1>7. Waiting'
  BY <1>1, <1>2, <1>3, <1>4, <1>5, <1>6 DEF Waiting, GoodRequest, Mounting, SectorRequests, rx
<1> QED
  BY <1>1, <1>3, <1>4, <1>7 DEF IInv

-----------------------------------------------------------------------------
LEMMA InvariantHolds == FloppySpec => []IInv
<1>1. IInv /\ [FloppyNext]_floppyVars => IInv'
  <2> SUFFICES ASSUME IInv, [FloppyNext]_floppyVars PROVE IInv'
    OBVIOUS
  <2>1. CASE UNCHANGED floppyVars
    BY <2>1 DEF floppyVars, drive, rx, main, history, IInv, FloppyTypeOK, Phase, Loaded, Settled,
                Waiting, GoodRequest, Mounting
  <2>2. CASE \E d \in Drives, i \in Images : PickImage(d, i)
    BY <2>2, PickIInv
  <2> QED
    BY <2>1, <2>2, CoreStep, RxIInv, MountIInv DEF FloppyNext
<1> QED
  BY <1>1, InitIInv, PTL DEF FloppySpec

(* The drives, the receive ring and the calls under way keep their types.  *)
THEOREM FloppyTypeCorrect == FloppySpec => []FloppyTypeOK
BY InvariantHolds, PTL DEF IInv

(* No sector is read from or written to another image or place than the    *)
(* core means, and no read of a loaded drive goes unanswered, unless a     *)
(* mount of that drive came in between, its last mount failed, or the card *)
(* fails a call made for it: the seek and the access of frames 4 and 5     *)
(* need no lock against anything else.                                     *)
THEOREM SectorsServedRight == FloppySpec => []ServedRight
BY InvariantHolds, PTL DEF IInv, ServedRight

(* What the menu shows, what is open and what the core was told are one    *)
(* image once mount_floppy has returned without an error.                  *)
THEOREM ViewsStayTogether == FloppySpec => []ViewsAgree
<1>1. IInv => ViewsAgree
  BY DEF IInv, Loaded, Settled, ViewsAgree
<1> QED
  BY <1>1, InvariantHolds, PTL

-----------------------------------------------------------------------------
(* The table of contents.                                                  *)

(* Any disc whose metadata makes sense.                                    *)
AnyTrack == Metadata(Nat, Nat, Nat)
AnyDisc == Seq(AnyTrack)

(* Induction over the naturals, for a set.                                 *)
LEMMA Induction ==
  ASSUME NEW S, 0 \in S, \A n \in Nat : n \in S => n + 1 \in S
  PROVE  \A n \in Nat : n \in S
<1> DEFINE Less == {ss \in Nat \X Nat : ss[1] < ss[2]}
           T == Nat \ S
<1>1. IsWellFoundedOn(Less, Nat)
  BY NatLessThanWellFounded DEF OpToRel
<1> SUFFICES ASSUME NEW k \in Nat, k \notin S PROVE FALSE
  OBVIOUS
<1>2. T \subseteq Nat /\ T # {}
  OBVIOUS
<1> HIDE DEF Less, T
<1>3. PICK n \in T : \A m \in T : ~ (<<m, n>> \in Less)
  BY <1>1, <1>2, WFMin
<1>4. n \in Nat /\ n # 0 /\ n - 1 \in Nat /\ n - 1 + 1 = n
  BY <1>2, <1>3 DEF T
<1>5. <<n - 1, n>> \in Less
  BY <1>4 DEF Less
<1>6. n - 1 \notin T
  BY <1>3, <1>5
<1> QED
  BY <1>3, <1>4, <1>6 DEF T

(* pcecd_read_toc turn by turn: what it has after each track.              *)
Turned(f, d) ==
  /\ f[0] = Blank /\ Toc(d) = f[Len(d)]
  /\ \A n \in 1..Len(d) : f[n] = AddTrack(f[n - 1], d[n])

(* The loop has such a run.                                                *)
LEMMA TocTurns == \A d \in AnyDisc : \E f : Turned(f, d)
<1> SUFFICES ASSUME NEW d \in AnyDisc PROVE \E f : Turned(f, d)
  OBVIOUS
<1> DEFINE L == Len(d)
           Runs(f, m) == f = [n \in 0..m |-> IF n = 0 THEN Blank ELSE AddTrack(f[n - 1], d[n])]
           S == {m \in Nat : \E f : Runs(f, m)}
<1>0. L \in Nat
  BY DEF AnyDisc
<1>1. 0 \in S
  <2> DEFINE g == [n \in 0..0 |-> Blank]
  <2>0. \A n \in 0..0 : n = 0
    OBVIOUS
  <2>1. g = [n \in 0..0 |-> IF n = 0 THEN Blank ELSE AddTrack(g[n - 1], d[n])]
    BY <2>0
  <2> QED
    BY <2>1
<1>2. ASSUME NEW m \in Nat, m \in S PROVE m + 1 \in S
  <2>1. PICK f : Runs(f, m)
    BY <1>2
  <2> DEFINE g == [n \in 0..(m + 1) |-> IF n = m + 1 THEN AddTrack(f[m], d[m + 1]) ELSE f[n]]
  <2>2. ASSUME NEW n \in 0..(m + 1)
        PROVE  g[n] = IF n = 0 THEN Blank ELSE AddTrack(g[n - 1], d[n])
    <3>1. CASE n = 0
      BY <2>1, <3>1
    <3>2. CASE n = m + 1
      BY <2>1, <3>2
    <3>3. CASE n \in 1..m
      <4>1. n \in 0..m /\ n - 1 \in 0..m /\ n # m + 1 /\ n - 1 # m + 1 /\ n # 0
        BY <3>3
      <4>2. f[n] = AddTrack(f[n - 1], d[n])
        BY <2>1, <4>1
      <4> QED
        BY <4>1, <4>2
    <3> QED
      BY <3>1, <3>2, <3>3
  <2>3. Runs(g, m + 1)
    BY <2>2
  <2> HIDE DEF g, Runs
  <2> QED
    BY <2>3
<1> HIDE DEF S
<1>3. L \in S
  BY <1>0, <1>1, <1>2, Induction
<1>4. \E f : Runs(f, L)
  BY <1>3 DEF S
<1> DEFINE after == CHOOSE f : Runs(f, L)
<1>5. Runs(after, L)
  BY <1>4
<1>6. Toc(d) = after[L]
  BY DEF Toc
<1> HIDE DEF after
<1>7. after[0] = Blank
  BY <1>0, <1>5
<1>8. ASSUME NEW n \in 1..L PROVE after[n] = AddTrack(after[n - 1], d[n])
  BY <1>0, <1>5
<1> QED
  BY <1>6, <1>7, <1>8 DEF Turned

(* What the running positions and the table look like after any track:     *)
(* each track behind the ones before it, in both spaces.                   *)
Entry == [lba : Int, fofs : Nat, sectors : Nat]
Behind(s, t) == s.lba + s.sectors <= t.lba /\ s.fofs + s.sectors <= t.fofs
Laid(c) ==
  /\ c.tracks \in Seq(Entry) /\ c.plba \in Int /\ c.fofs \in Nat
  /\ \A k \in 1..Len(c.tracks) : /\ c.tracks[k].lba + c.tracks[k].sectors <= c.plba
                                 /\ c.tracks[k].fofs + c.tracks[k].sectors <= c.fofs
  /\ \A j, k \in 1..Len(c.tracks) : j < k => Behind(c.tracks[j], c.tracks[k])

(* ... before the first, and after one more.                               *)
LEMMA LaidBlank == Laid(Blank)
BY DEF Laid, Blank, Entry

(* Padding adds to a track.                                                *)
LEMMA Padded == \A n \in Nat : PadTo4(n) \in Nat /\ PadTo4(n) >= n
BY DEF PadTo4

LEMMA LaidTurn == ASSUME NEW c, Laid(c), NEW t \in AnyTrack PROVE Laid(AddTrack(c, t))
<1> DEFINE dv == InFilePregap(t)
           silent == IF c.tracks = <<>> THEN 150 ELSE IF t.inFile THEN 0 ELSE t.pregap
           e == [lba |-> c.plba + silent + dv, fofs |-> c.fofs + dv, sectors |-> t.frames - dv]
           a == AddTrack(c, t)
           L == Len(c.tracks)
<1>1. t.frames \in Nat /\ t.postgap \in Nat /\ dv \in 0..t.frames /\ silent \in Nat
  BY DEF AnyTrack, Metadata, InFilePregap
<1>2. c.tracks \in Seq(Entry) /\ c.plba \in Int /\ c.fofs \in Nat /\ L \in Nat
  BY DEF Laid
<1>3. PICK p \in Nat : p = PadTo4(t.frames) /\ p >= t.frames
  BY <1>1, Padded
<1>4. /\ a.tracks = Append(c.tracks, e)
      /\ a.plba = e.lba + e.sectors + t.postgap
      /\ a.fofs = e.fofs + e.sectors + t.postgap + p - t.frames
  BY <1>3 DEF AddTrack
<1>5. PICK v \in 0..t.frames : v = dv
  BY <1>1
<1>6. PICK q \in Nat : q = silent
  BY <1>1
<1> HIDE DEF dv, silent, a
<1>7. /\ e.lba = c.plba + q + v /\ e.fofs = c.fofs + v /\ e.sectors = t.frames - v
      /\ e \in Entry
  BY <1>1, <1>2, <1>5, <1>6 DEF Entry
<1> HIDE DEF e
<1>8. /\ a.plba \in Int /\ a.fofs \in Nat
      /\ e.lba + e.sectors <= a.plba /\ e.fofs + e.sectors <= a.fofs
      /\ c.plba <= e.lba /\ c.fofs <= e.fofs /\ c.plba <= a.plba /\ c.fofs <= a.fofs
  <2>1. PICK x \in Int, y \in Nat, n \in Nat, g \in Nat :
               x = c.plba /\ y = c.fofs /\ n = t.frames /\ g = t.postgap
    BY <1>1, <1>2
  <2>2. v \in Nat /\ v <= n /\ n <= p
    BY <1>3, <1>5, <2>1
  <2>3. /\ e.lba = x + q + v /\ e.fofs = y + v /\ e.sectors = n - v
        /\ a.plba = (x + q + v) + (n - v) + g
        /\ a.fofs = (y + v) + (n - v) + g + p - n
    BY <1>4, <1>7, <2>1
  <2>4. /\ (x + q + v) + (n - v) + g \in Int /\ (y + v) + (n - v) + g + p - n \in Nat
        /\ (x + q + v) + (n - v) <= (x + q + v) + (n - v) + g
        /\ (y + v) + (n - v) <= (y + v) + (n - v) + g + p - n
        /\ x <= x + q + v /\ y <= y + v /\ x <= (x + q + v) + (n - v) + g
        /\ y <= (y + v) + (n - v) + g + p - n
    BY <2>2
  <2> QED
    BY <2>1, <2>3, <2>4
<1>9. /\ a.tracks \in Seq(Entry) /\ Len(a.tracks) = L + 1 /\ a.tracks[L + 1] = e
      /\ \A k \in 1..L : a.tracks[k] = c.tracks[k] /\ c.tracks[k] \in Entry
  BY <1>2, <1>4, <1>7
<1>10. ASSUME NEW k \in 1..L
       PROVE  /\ Behind(a.tracks[k], e)
              /\ a.tracks[k].lba + a.tracks[k].sectors <= a.plba
              /\ a.tracks[k].fofs + a.tracks[k].sectors <= a.fofs
  <2>1. /\ c.tracks[k].lba + c.tracks[k].sectors <= c.plba
        /\ c.tracks[k].fofs + c.tracks[k].sectors <= c.fofs
    BY <1>2 DEF Laid
  <2>2. PICK s \in Entry : s = c.tracks[k] /\ s = a.tracks[k]
    BY <1>9
  <2>3. PICK x \in Int, y \in Int, x1 \in Int, y1 \in Int, x2 \in Int, y2 \in Int :
               /\ x = s.lba + s.sectors /\ y = s.fofs + s.sectors
               /\ x1 = c.plba /\ y1 = c.fofs /\ x2 = a.plba /\ y2 = a.fofs
    <3>1. s.lba + s.sectors \in Int /\ s.fofs + s.sectors \in Int
      BY DEF Entry
    <3>2. c.plba \in Int /\ c.fofs \in Int /\ a.plba \in Int /\ a.fofs \in Int
      BY <1>2, <1>8
    <3> QED
      BY <3>1, <3>2
  <2>4. PICK x3 \in Int, y3 \in Int : x3 = e.lba /\ y3 = e.fofs
    BY <1>7 DEF Entry
  <2>5. x <= x1 /\ y <= y1 /\ x1 <= x2 /\ y1 <= y2 /\ x1 <= x3 /\ y1 <= y3
    BY <1>8, <2>1, <2>2, <2>3, <2>4
  <2>6. x <= x3 /\ y <= y3 /\ x <= x2 /\ y <= y2
    BY <2>5
  <2> QED
    BY <2>2, <2>3, <2>4, <2>6 DEF Behind
<1>11. \A k \in 1..Len(a.tracks) : k \in 1..L \/ k = L + 1
  BY <1>2, <1>9
<1>12. ASSUME NEW j \in 1..Len(a.tracks), NEW k \in 1..Len(a.tracks), j < k
       PROVE  Behind(a.tracks[j], a.tracks[k])
  <2>1. j \in 1..L
    BY <1>2, <1>9, <1>12
  <2>2. CASE k \in 1..L
    BY <1>9, <1>12, <2>1, <2>2 DEF Laid
  <2>3. CASE k = L + 1
    BY <1>9, <1>10, <2>1, <2>3
  <2> QED
    BY <1>11, <2>2, <2>3
<1>13. ASSUME NEW k \in 1..Len(a.tracks)
       PROVE  /\ a.tracks[k].lba + a.tracks[k].sectors <= a.plba
              /\ a.tracks[k].fofs + a.tracks[k].sectors <= a.fofs
  BY <1>8, <1>9, <1>10, <1>11
<1> QED
  BY <1>8, <1>9, <1>12, <1>13 DEF Laid, a

(* Each turn adds one track, and leaves those before it.                   *)
LEMMA TurnByTurn ==
  ASSUME NEW d \in AnyDisc, NEW f, Turned(f, d)
  PROVE  \A n \in 0..Len(d) : /\ Laid(f[n]) /\ Len(f[n].tracks) = n
                              /\ \A k \in 1..n : f[n].tracks[k] = f[k].tracks[k]
<1> DEFINE P(n) == /\ Laid(f[n]) /\ Len(f[n].tracks) = n
                   /\ \A k \in 1..n : f[n].tracks[k] = f[k].tracks[k]
           S == {n \in Nat : n <= Len(d) => P(n)}
<1>0. Len(d) \in Nat
  BY DEF AnyDisc
<1>1. 0 \in S
  <2>1. f[0] = Blank /\ Blank.tracks = <<>>
    BY DEF Turned, Blank
  <2> QED
    BY <2>1, LaidBlank
<1>2. ASSUME NEW n \in Nat, n \in S PROVE n + 1 \in S
  <2> SUFFICES ASSUME n + 1 <= Len(d) PROVE P(n + 1)
    OBVIOUS
  <2>1. n + 1 \in 1..Len(d) /\ n <= Len(d) /\ n + 1 - 1 = n
    BY <1>0
  <2>2. d[n + 1] \in AnyTrack
    BY <2>1 DEF AnyDisc
  <2>3. P(n)
    BY <1>2, <2>1
  <2>4. f[n + 1] = AddTrack(f[n], d[n + 1])
    <3>1. f[n + 1] = AddTrack(f[n + 1 - 1], d[n + 1])
      BY <2>1 DEF Turned
    <3> QED
      BY <2>1, <3>1
  <2>5. Laid(f[n + 1])
    BY <2>2, <2>3, <2>4, LaidTurn
  <2>6. PICK e : f[n + 1].tracks = Append(f[n].tracks, e)
    BY <2>4 DEF AddTrack
  <2>7. f[n].tracks \in Seq(Entry) /\ Len(f[n].tracks) = n
    BY <2>3 DEF Laid
  <2>8. Len(f[n + 1].tracks) = n + 1
    BY <2>6, <2>7
  <2>9. \A k \in 1..n : f[n + 1].tracks[k] = f[n].tracks[k]
    BY <2>6, <2>7
  <2>10. \A k \in 1..(n + 1) : k \in 1..n \/ k = n + 1
    OBVIOUS
  <2>11. \A k \in 1..(n + 1) : f[n + 1].tracks[k] = f[k].tracks[k]
    BY <2>3, <2>9, <2>10
  <2> QED
    BY <2>5, <2>8, <2>11
<1> HIDE DEF S
<1>3. \A n \in Nat : n \in S
  BY <1>1, <1>2, Induction
<1> QED
  BY <1>0, <1>3 DEF S

(* So it is for the whole table.                                           *)
LEMMA TocLaid == \A d \in AnyDisc : Laid(Toc(d))
<1> SUFFICES ASSUME NEW d \in AnyDisc PROVE Laid(Toc(d))
  OBVIOUS
<1>1. PICK f : Turned(f, d)
  BY TocTurns
<1>2. Len(d) \in 0..Len(d)
  BY DEF AnyDisc
<1> QED
  BY <1>1, <1>2, TurnByTurn DEF Turned

(* An address is of at most one track, and is looked up there.             *)
LEMMA LookedUp ==
  ASSUME NEW d \in AnyDisc, NEW lba \in Int, NEW k \in 1..Len(Toc(d).tracks),
         Holds(Toc(d).tracks[k], lba)
  PROVE  FileFrameOf(d, lba) = Toc(d).tracks[k].fofs + (lba - Toc(d).tracks[k].lba)
<1> DEFINE tracks == Toc(d).tracks
           holding == {j \in DOMAIN tracks : Holds(tracks[j], lba)}
           first == CHOOSE j \in holding : \A i \in holding : j <= i
<1>1. Laid(Toc(d))
  BY TocLaid
<1>2. /\ tracks \in Seq(Entry) /\ DOMAIN tracks = 1..Len(tracks)
      /\ \A i, j \in 1..Len(tracks) : i < j => Behind(tracks[i], tracks[j])
  BY <1>1 DEF Laid
<1>3. FileFrameOf(d, lba) = IF holding = {} THEN Nowhere
                            ELSE tracks[first].fofs + (lba - tracks[first].lba)
  BY DEF FileFrameOf
<1> HIDE DEF tracks
<1>4. ASSUME NEW j \in holding PROVE j = k
  <2>1. j \in 1..Len(tracks) /\ k \in 1..Len(tracks) /\ tracks[j] \in Entry /\ tracks[k] \in Entry
        /\ Holds(tracks[j], lba) /\ Holds(tracks[k], lba)
    BY <1>2 DEF tracks
  <2>2. ~(j < k) /\ ~(k < j)
    <3>1. PICK s \in Entry : s = tracks[j]
      BY <2>1
    <3>2. PICK t \in Entry : t = tracks[k]
      BY <2>1
    <3>3. /\ j < k => s.lba + s.sectors <= t.lba
          /\ k < j => t.lba + t.sectors <= s.lba
          /\ lba >= s.lba /\ lba < s.lba + s.sectors /\ lba >= t.lba /\ lba < t.lba + t.sectors
      BY <1>2, <2>1, <3>1, <3>2 DEF Behind, Holds
    <3>4. PICK x \in Int, y \in Int, u \in Nat, v \in Nat :
                 x = s.lba /\ y = t.lba /\ u = s.sectors /\ v = t.sectors
      BY DEF Entry
    <3>5. /\ j < k => x + u <= y
          /\ k < j => y + v <= x
          /\ lba >= x /\ lba < x + u /\ lba >= y /\ lba < y + v
      BY <3>3, <3>4
    <3> QED
      BY <3>5
  <2> QED
    BY <2>1, <2>2
<1>5. k \in holding
  BY <1>2 DEF tracks
<1>6. holding = {k} /\ k <= k
  BY <1>4, <1>5
<1>7. first = k
  BY <1>6
<1> QED
  BY <1>3, <1>5, <1>7 DEF tracks

(* An address of no track is nowhere.                                      *)
LEMMA NotFound ==
  ASSUME NEW d \in AnyDisc, NEW lba \in Int,
         \A k \in 1..Len(Toc(d).tracks) : ~Holds(Toc(d).tracks[k], lba)
  PROVE  FileFrameOf(d, lba) = Nowhere
<1>1. DOMAIN Toc(d).tracks = 1..Len(Toc(d).tracks)
  BY TocLaid DEF Laid
<1> QED
  BY <1>1 DEF FileFrameOf

(* What a turn adds, and where it leaves the running positions.            *)
Silent(c, t) == IF c.tracks = <<>> THEN 150 ELSE IF t.inFile THEN 0 ELSE t.pregap
Placed(c, t, a, e) ==
  /\ e.lba = c.plba + Silent(c, t) + InFilePregap(t) /\ e.fofs = c.fofs + InFilePregap(t)
  /\ e.sectors = t.frames - InFilePregap(t)
  /\ a.plba = e.lba + e.sectors + t.postgap
  /\ a.fofs = e.fofs + e.sectors + t.postgap + PadTo4(t.frames) - t.frames

LEMMA Added ==
  ASSUME NEW c, NEW t, Laid(c)
  PROVE  Placed(c, t, AddTrack(c, t), AddTrack(c, t).tracks[Len(c.tracks) + 1])
<1> DEFINE e == [lba |-> c.plba + Silent(c, t) + InFilePregap(t),
                 fofs |-> c.fofs + InFilePregap(t), sectors |-> t.frames - InFilePregap(t)]
           a == AddTrack(c, t)
<1>1. /\ a.tracks = Append(c.tracks, e)
      /\ a.plba = e.lba + e.sectors + t.postgap
      /\ a.fofs = e.fofs + e.sectors + t.postgap + PadTo4(t.frames) - t.frames
  BY DEF AddTrack, Silent
<1>2. /\ e.lba = c.plba + Silent(c, t) + InFilePregap(t) /\ e.fofs = c.fofs + InFilePregap(t)
      /\ e.sectors = t.frames - InFilePregap(t)
  OBVIOUS
<1> HIDE DEF e, a
<1>3. a.tracks[Len(c.tracks) + 1] = e
  BY <1>1 DEF Laid
<1> QED
  BY <1>1, <1>2, <1>3 DEF a, Placed

(* The running positions of pcecd_read_toc lay out any disc as the comment  *)
(* before pcecd_toc_fofs describes it.                                     *)
THEOREM TableIsLayout == \A d \in AnyDisc : BackToBack(d)
<1> SUFFICES ASSUME NEW d \in AnyDisc PROVE BackToBack(d)
  OBVIOUS
<1>1. PICK f : Turned(f, d)
  BY TocTurns
<1> DEFINE tracks == Toc(d).tracks
           L == Len(d)
<1>2. L \in Nat /\ \A k \in 1..L : d[k] \in AnyTrack
  BY DEF AnyDisc
<1>3. /\ \A n \in 0..L : Laid(f[n]) /\ Len(f[n].tracks) = n
      /\ \A k \in 1..L : tracks[k] = f[k].tracks[k]
      /\ Len(tracks) = L
  <2>1. \A n \in 0..L : /\ Laid(f[n]) /\ Len(f[n].tracks) = n
                        /\ \A k \in 1..n : f[n].tracks[k] = f[k].tracks[k]
    BY <1>1, TurnByTurn
  <2>2. L \in 0..L /\ Toc(d) = f[L]
    BY <1>1, <1>2 DEF Turned
  <2> QED
    BY <2>1, <2>2
<1>4. \A k \in 1..L : k - 1 \in 0..L /\ k - 1 + 1 = k /\ f[k] = AddTrack(f[k - 1], d[k])
  BY <1>1, <1>2 DEF Turned
<1>5. ASSUME NEW k \in 1..L
      PROVE  LET c == f[k - 1]
                 silent == IF k = 1 THEN 150 ELSE IF d[k].inFile THEN 0 ELSE d[k].pregap
             IN /\ tracks[k].lba = c.plba + silent + InFilePregap(d[k])
                /\ tracks[k].fofs = c.fofs + InFilePregap(d[k])
                /\ tracks[k].sectors = d[k].frames - InFilePregap(d[k])
                /\ f[k].plba = tracks[k].lba + tracks[k].sectors + d[k].postgap
                /\ f[k].fofs = tracks[k].fofs + tracks[k].sectors + d[k].postgap
                               + PadTo4(d[k].frames) - d[k].frames
  <2> DEFINE c == f[k - 1]
  <2>1. Laid(c) /\ Len(c.tracks) = k - 1 /\ f[k] = AddTrack(c, d[k])
    BY <1>3, <1>4
  <2>2. (c.tracks = <<>>) <=> (k = 1)
    BY <2>1 DEF Laid
  <2>3. Len(c.tracks) + 1 = k
    BY <2>1
  <2> HIDE DEF c, tracks
  <2>4. tracks[k] = f[k].tracks[Len(c.tracks) + 1]
    BY <1>3, <2>3 DEF tracks
  <2> DEFINE silent == Silent(c, d[k])
  <2>5. /\ tracks[k].lba = c.plba + silent + InFilePregap(d[k])
        /\ tracks[k].fofs = c.fofs + InFilePregap(d[k])
        /\ tracks[k].sectors = d[k].frames - InFilePregap(d[k])
        /\ f[k].plba = tracks[k].lba + tracks[k].sectors + d[k].postgap
        /\ f[k].fofs = tracks[k].fofs + tracks[k].sectors + d[k].postgap
                       + PadTo4(d[k].frames) - d[k].frames
    <3>1. Placed(c, d[k], AddTrack(c, d[k]), AddTrack(c, d[k]).tracks[Len(c.tracks) + 1])
      BY <2>1, Added
    <3>2. Placed(c, d[k], f[k], tracks[k])
      BY <2>1, <2>4, <3>1
    <3> QED
      BY <3>2 DEF Placed
  <2>6. silent = IF k = 1 THEN 150 ELSE IF d[k].inFile THEN 0 ELSE d[k].pregap
    BY <2>2 DEF Silent
  <2> HIDE DEF silent
  <2> QED
    BY <2>5, <2>6 DEF c
<1> HIDE DEF tracks, L
<1>6. d # <<>> => tracks[1].fofs - InFilePregap(d[1]) = 0 /\ tracks[1].lba = InFilePregap(d[1])
  <2> SUFFICES ASSUME d # <<>>
               PROVE  tracks[1].fofs - InFilePregap(d[1]) = 0 /\ tracks[1].lba = InFilePregap(d[1])
    OBVIOUS
  <2>1. 1 \in 1..L /\ 1 - 1 = 0
    BY <1>2 DEF L, AnyDisc
  <2>2. f[0].plba = -150 /\ f[0].fofs = 0
    BY <1>1 DEF Turned, Blank
  <2>3. /\ tracks[1].lba = f[1 - 1].plba + 150 + InFilePregap(d[1])
        /\ tracks[1].fofs = f[1 - 1].fofs + InFilePregap(d[1])
    BY <1>5, <2>1
  <2>4. PICK v \in Nat : v = InFilePregap(d[1])
    BY <1>2, <2>1 DEF InFilePregap, AnyTrack, Metadata
  <2>5. tracks[1].lba = -150 + 150 + v /\ tracks[1].fofs = 0 + v
    BY <2>1, <2>2, <2>3, <2>4
  <2> QED
    BY <2>4, <2>5
<1>7. ASSUME NEW k \in 1..(L - 1)
      PROVE  /\ tracks[k + 1].fofs - InFilePregap(d[k + 1]) =
                  tracks[k].fofs - InFilePregap(d[k]) + PadTo4(d[k].frames) + d[k].postgap
             /\ tracks[k + 1].lba =
                  tracks[k].lba + tracks[k].sectors + d[k].postgap + d[k + 1].pregap
  <2>1. k \in 1..L /\ k + 1 \in 1..L /\ k + 1 - 1 = k /\ k + 1 # 1
    BY <1>2
  <2> DEFINE silent == IF d[k + 1].inFile THEN 0 ELSE d[k + 1].pregap
  <2>2. /\ tracks[k + 1].lba = f[k].plba + silent + InFilePregap(d[k + 1])
        /\ tracks[k + 1].fofs = f[k].fofs + InFilePregap(d[k + 1])
    <3>1. /\ tracks[k + 1].lba = f[k + 1 - 1].plba + silent + InFilePregap(d[k + 1])
          /\ tracks[k + 1].fofs = f[k + 1 - 1].fofs + InFilePregap(d[k + 1])
      BY <1>5, <2>1
    <3> QED
      BY <2>1, <3>1
  <2>3. /\ tracks[k].sectors = d[k].frames - InFilePregap(d[k])
        /\ f[k].plba = tracks[k].lba + tracks[k].sectors + d[k].postgap
        /\ f[k].fofs = tracks[k].fofs + tracks[k].sectors + d[k].postgap
                       + PadTo4(d[k].frames) - d[k].frames
    BY <1>5, <2>1
  <2>4. d[k] \in AnyTrack /\ d[k + 1] \in AnyTrack
    BY <1>2, <2>1
  <2>5. PICK v \in Nat, w \in Nat, s \in Nat, g \in Nat, n \in Nat, p \in Nat, r \in Nat :
               /\ v = InFilePregap(d[k]) /\ w = InFilePregap(d[k + 1]) /\ s = silent
               /\ g = d[k].postgap /\ n = d[k].frames /\ p = PadTo4(d[k].frames)
               /\ r = d[k + 1].pregap /\ s + w = r
    <3>1. /\ InFilePregap(d[k]) \in Nat /\ InFilePregap(d[k + 1]) \in Nat /\ silent \in Nat
          /\ d[k].postgap \in Nat /\ d[k].frames \in Nat /\ d[k + 1].pregap \in Nat
          /\ silent + InFilePregap(d[k + 1]) = d[k + 1].pregap
      BY <2>4 DEF InFilePregap, AnyTrack, Metadata
    <3>2. PadTo4(d[k].frames) \in Nat
      BY <3>1, Padded
    <3> HIDE DEF silent
    <3> QED
      BY <3>1, <3>2
  <2> HIDE DEF silent
  <2>6. PICK x \in Int, y \in Nat : x = tracks[k].lba /\ y = tracks[k].fofs
    <3>1. tracks \in Seq(Entry)
      BY TocLaid DEF Laid, tracks
    <3>2. k \in 1..Len(tracks)
      BY <1>3, <2>1 DEF L, tracks
    <3>3. tracks[k] \in Entry
      BY <3>1, <3>2
    <3> QED
      BY <3>3 DEF Entry
  <2>7. /\ tracks[k + 1].lba = (x + (n - v) + g) + s + w
        /\ tracks[k + 1].fofs = (y + (n - v) + g + p - n) + w
        /\ tracks[k].sectors = n - v
    BY <2>2, <2>3, <2>5, <2>6
  <2>8. /\ (x + (n - v) + g) + s + w = x + (n - v) + g + r
        /\ (y + (n - v) + g + p - n) + w - w = y - v + p + g
    BY <2>5
  <2> QED
    BY <2>5, <2>6, <2>7, <2>8
<1> QED
  BY <1>3, <1>5, <1>6, <1>7 DEF BackToBack, tracks, L

(* A lookup finds a frame of the file or declines.                         *)
LEMMA LookupType == \A d \in AnyDisc, lba \in Int : FileFrameOf(d, lba) \in Nat \cup {Nowhere}
<1> SUFFICES ASSUME NEW d \in AnyDisc, NEW lba \in Int
             PROVE  FileFrameOf(d, lba) \in Nat \cup {Nowhere}
  OBVIOUS
<1>1. ASSUME NEW k \in 1..Len(Toc(d).tracks), Holds(Toc(d).tracks[k], lba)
      PROVE  FileFrameOf(d, lba) \in Nat
  <2>1. PICK e \in Entry : e = Toc(d).tracks[k]
    BY TocLaid DEF Laid
  <2>2. FileFrameOf(d, lba) = e.fofs + (lba - e.lba)
    BY <1>1, <2>1, LookedUp
  <2>3. lba >= e.lba /\ e.fofs \in Nat /\ e.lba \in Int
    BY <1>1, <2>1 DEF Holds, Entry
  <2> QED
    BY <2>2, <2>3
<1> QED
  BY <1>1, NotFound

(* The mapping that CdServe takes as a constant is what pcecd_read_toc and  *)
(* pcecd_lba_to_file_frame compute of any discs.                           *)
THEOREM MappingFits ==
  ASSUME NEW image \in [Discs -> AnyDisc], Lbas \subseteq Int
  PROVE  [d \in Discs |-> [lba \in Lbas |-> FileFrameOf(image[d], lba)]]
           \in [Discs -> [Lbas -> Nat \cup {NoFrame}]]
<1>1. ASSUME NEW d \in Discs, NEW lba \in Lbas
      PROVE  FileFrameOf(image[d], lba) \in Nat \cup {NoFrame}
  <2>1. image[d] \in AnyDisc /\ lba \in Int
    OBVIOUS
  <2> QED
    BY <2>1, LookupType DEF Nowhere, NoFrame
<1> QED
  BY <1>1

(* Whatever the tracks, gaps and postgaps of a disc, each of its blocks is  *)
(* looked up in its own track: that pcecd_lba_to_file_frame takes the first *)
(* match decides nothing.                                                  *)
THEOREM TracksApart == \A d \in AnyDisc : EachInItsTrack(d)
<1> SUFFICES ASSUME NEW d \in AnyDisc PROVE EachInItsTrack(d)
  OBVIOUS
<1> SUFFICES ASSUME NEW k \in DOMAIN Toc(d).tracks,
                    NEW i \in 0..(Toc(d).tracks[k].sectors - 1)
             PROVE  FileFrameOf(d, Toc(d).tracks[k].lba + i) = Toc(d).tracks[k].fofs + i
  BY DEF EachInItsTrack
<1>1. k \in 1..Len(Toc(d).tracks) /\ Toc(d).tracks[k] \in Entry
  BY TocLaid DEF Laid
<1>2. PICK e \in Entry : e = Toc(d).tracks[k]
  BY <1>1
<1>3. /\ e.lba \in Int /\ e.fofs \in Nat /\ e.sectors \in Nat /\ i \in 0..(e.sectors - 1)
  BY <1>2 DEF Entry
<1>4. PICK lba \in Int : lba = e.lba + i
  BY <1>3
<1>5. Holds(e, lba) /\ lba - e.lba = i
  BY <1>3, <1>4 DEF Holds
<1>6. FileFrameOf(d, lba) = e.fofs + (lba - e.lba)
  BY <1>1, <1>2, <1>5, LookedUp
<1> QED
  BY <1>2, <1>4, <1>5, <1>6

(* No two blocks of a disc are read from one frame of the file.            *)
THEOREM FramesApart == \A d \in AnyDisc : OneBlockPerFrame(d)
<1> SUFFICES ASSUME NEW d \in AnyDisc PROVE OneBlockPerFrame(d)
  OBVIOUS
<1> SUFFICES ASSUME NEW a \in Int, NEW b \in Int,
                    FileFrameOf(d, a) = FileFrameOf(d, b), FileFrameOf(d, a) # Nowhere
             PROVE  a = b
  <2>1. LeadOut(d) \in Int
    BY TocLaid DEF Laid, LeadOut
  <2> QED
    BY <2>1 DEF OneBlockPerFrame, Mapping
<1>1. PICK j \in 1..Len(Toc(d).tracks) : Holds(Toc(d).tracks[j], a)
  BY NotFound
<1>2. PICK k \in 1..Len(Toc(d).tracks) : Holds(Toc(d).tracks[k], b)
  BY NotFound
<1>3. /\ FileFrameOf(d, a) = Toc(d).tracks[j].fofs + (a - Toc(d).tracks[j].lba)
      /\ FileFrameOf(d, b) = Toc(d).tracks[k].fofs + (b - Toc(d).tracks[k].lba)
  BY <1>1, <1>2, LookedUp
<1>4. /\ Toc(d).tracks[j] \in Entry /\ Toc(d).tracks[k] \in Entry
      /\ j < k => Behind(Toc(d).tracks[j], Toc(d).tracks[k])
      /\ k < j => Behind(Toc(d).tracks[k], Toc(d).tracks[j])
  BY TocLaid DEF Laid
<1>5. PICK s \in Entry : s = Toc(d).tracks[j]
  BY <1>4
<1>6. PICK t \in Entry : t = Toc(d).tracks[k]
  BY <1>4
<1>7. /\ s.lba \in Int /\ s.fofs \in Nat /\ s.sectors \in Nat
      /\ t.lba \in Int /\ t.fofs \in Nat /\ t.sectors \in Nat
  BY DEF Entry
<1>8. /\ s.fofs + (a - s.lba) = t.fofs + (b - t.lba)
      /\ a >= s.lba /\ a < s.lba + s.sectors /\ b >= t.lba /\ b < t.lba + t.sectors
      /\ j < k => s.fofs + s.sectors <= t.fofs
      /\ k < j => t.fofs + t.sectors <= s.fofs
  BY <1>1, <1>2, <1>3, <1>4, <1>5, <1>6 DEF Holds, Behind
<1>9. ~(j < k) /\ ~(k < j)
  <2>1. PICK x \in Int, y \in Int, u \in Nat, v \in Nat, m \in Nat, n \in Nat :
               /\ x = s.lba /\ y = t.lba /\ u = s.fofs /\ v = t.fofs
               /\ m = s.sectors /\ n = t.sectors
    BY <1>7
  <2>2. /\ u + (a - x) = v + (b - y) /\ a >= x /\ a < x + m /\ b >= y /\ b < y + n
        /\ j < k => u + m <= v
        /\ k < j => v + n <= u
    BY <1>8, <2>1
  <2> QED
    BY <2>2
<1>10. s = t
  BY <1>5, <1>6, <1>9
<1> QED
  BY <1>7, <1>8, <1>10
=============================================================================
