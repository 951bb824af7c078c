------------------------------ MODULE CdServe ------------------------------
(***************************************************************************)
(* Serving CD sectors (core/pcecd.cpp, and the queue in main.cpp).         *)
(*                                                                         *)
(* uart1_rx_task posts the requests of the core; cd_serve_task decodes the *)
(* hunk a sector is in, unless it is the one decoded last, and sends the   *)
(* sector: data from the hunk buffer in two frames, audio through a        *)
(* swapped copy and the DMA staging buffer.  main_task opens and closes    *)
(* discs meanwhile.  It preempts cd_serve_task anywhere, and the two share *)
(* pcecd_chd, pcecd_hunk_buf and pcecd_cached_hunk without a lock.         *)
(*                                                                         *)
(* A sector is <<disc, frame>>.  Frames of different writers do not mix    *)
(* here (UartToken), and every DMA transfer completes.                     *)
(***************************************************************************)
EXTENDS Integers, Sequences

CONSTANTS Discs,        \* disc images, positive numbers
          Lbas,         \* sector addresses
          FileFrame,    \* per disc and address: its frame in the file, or NoFrame
          Spq,          \* pcecd_sectors_per_hunk
          QLen,         \* cd_req_queue, 16
          MaxAsks, MaxLoads, MaxFails     \* bounds: requests, loads, failed decodes

None == -1
NoFrame == -1           \* past the lead-out or in no track's extent

ASSUME CdAssumption ==
  /\ Discs \subseteq Nat \ {0}
  /\ FileFrame \in [Discs -> [Lbas -> Nat \cup {NoFrame}]]
  /\ Spq \in Nat \ {0} /\ QLen \in Nat \ {0}
  /\ MaxAsks \in Nat /\ MaxLoads \in Nat /\ MaxFails \in Nat

VARIABLES
  mpc,        \* main_task: where it is in a load
  disc,       \* the image it loads
  chd,        \* pcecd_chd, or None
  toc,        \* whose tracks pcecd_toc_* describe: a set while they are read
  buf,        \* pcecd_hunk_buf: Null, Garbage or <<disc, hunk>>
  cached,     \* pcecd_cached_hunk, or None
  queue,      \* cd_req_queue
  spc, req, frame,      \* cd_serve_task: where it is, its request, its file frame
  taken,      \* the first half of a data sector, sent; or pcecd_audio_buf
  stage,      \* pcecd_tx_stage, and the request it is for
  dma,        \* a transfer is in flight, and owns the token
  announced,  \* the epoch of the disc the FPGA has been told of, 0 for none
  fpgaToc,    \* the disc whose table of contents the FPGA has
  asked,      \* number of the request the core waits for, 0 for none
  asks,       \* requests made
  refused,    \* the request the core waits for, once it is dropped or declined
  epoch,      \* how often a disc was closed, plus one
  fails,      \* failed decodes
  spoiled,    \* why the buffer may not hold what the tag says
  sent        \* the last sector sent

disk == <<chd, toc, buf, cached>>
server == <<spc, req, frame, taken>>
wire == <<stage, dma, sent>>
fpga == <<announced, fpgaToc, asked, asks>>
ghost == <<refused, epoch, fails, spoiled>>
vars == <<mpc, disc, disk, queue, server, wire, fpga, ghost>>

Null == <<0, 0>>        \* no buffer
Garbage == <<0, 1>>     \* bytes of no disc
NoData == [sector |-> Garbage, why |-> {}]

Requests == [lba : Lbas, audio : BOOLEAN, epoch : 1..(MaxLoads + 1), disc : Discs, id : 1..MaxAsks]
NoReq == [lba |-> None, audio |-> FALSE, epoch |-> 0, disc |-> 0, id |-> 0]

NoStage == [req |-> NoReq, data |-> NoData]   \* nothing left to send from it

Data == [sector : Int \X Int, why : SUBSET {"failed", "closed"}]

MainType ==
  /\ mpc \in {"idle", "unmount", "open", "toc", "boot", "sendtoc", "mount", "giveup", "cart"}
  /\ disc \in Discs \cup {0} /\ chd \in Discs \cup {None} /\ toc \subseteq Discs
  /\ buf \in Int \X Int /\ cached \in Nat \cup {None}

ServerType ==
  /\ queue \in Seq(Requests) /\ Len(queue) <= QLen
  /\ spc \in {"idle", "mapped", "decode", "send", "second", "stage"}
  /\ req \in IF spc = "idle" THEN {NoReq} ELSE Requests
  /\ frame \in IF spc = "idle" THEN {NoFrame} ELSE Nat
  /\ dma \in BOOLEAN
  /\ stage.req \in Requests \cup {NoReq} /\ sent.req \in Requests \cup {NoReq}

DataType == taken \in Data /\ stage.data \in Data /\ sent.data \in Data \X Data

FpgaType ==
  /\ announced \in 0..(MaxLoads + 1) /\ fpgaToc \in Discs \cup {0}
  /\ asked \in 0..MaxAsks /\ asks \in 0..MaxAsks
  /\ refused \subseteq 1..MaxAsks
  /\ epoch \in 1..(MaxLoads + 1) /\ fails \in 0..MaxFails
  /\ spoiled \subseteq {"failed", "closed"}

TypeOK == MainType /\ ServerType /\ DataType /\ FpgaType

Init ==
  /\ mpc = "idle" /\ disc = 0 /\ chd = None /\ toc = {} /\ buf = Null /\ cached = None
  /\ queue = <<>> /\ spc = "idle" /\ req = NoReq /\ frame = NoFrame
  /\ taken = NoData /\ stage = NoStage /\ dma = FALSE
  /\ announced = 0 /\ fpgaToc = 0 /\ asked = 0 /\ asks = 0
  /\ refused = {} /\ epoch = 1 /\ fails = 0 /\ spoiled = {}
  /\ sent = [req |-> NoReq, data |-> <<NoData, NoData>>]

-----------------------------------------------------------------------------
(* The core, and uart1_rx_task, which posts its requests.                  *)

Post(r) ==
  IF Len(queue) < QLen
  THEN queue' = Append(queue, r) /\ refused' = {}
  ELSE refused' = {r.id} /\ UNCHANGED queue

(* A core asks when it has a disc; it may drop a command and ask anew.     *)
Ask(lba, isAudio) ==
  /\ announced # 0 /\ asks < MaxAsks
  /\ asks' = asks + 1 /\ asked' = asks + 1
  /\ Post([lba |-> lba, audio |-> isAudio, epoch |-> announced, disc |-> fpgaToc, id |-> asks + 1])
  /\ UNCHANGED <<mpc, disc, disk, server, wire, announced, fpgaToc, epoch, fails, spoiled>>

-----------------------------------------------------------------------------
(* cd_serve_task.                                                          *)

Hunk(f) == f \div Spq

(* What the hunk buffer has in the place of frame f.                       *)
At(f) ==
  [sector |-> IF buf[1] # 0 /\ buf[2] = Hunk(f) THEN <<buf[1], f>> ELSE Garbage,
   why |-> spoiled]

(* Done with a request; the task's locals mean nothing any more.           *)
Rest == spc' = "idle" /\ req' = NoReq /\ frame' = NoFrame /\ taken' = NoData

(* pcecd_lba_to_file_frame; while the tracks are being read each is of one *)
(* disc or the other, or there is none.                                    *)
Mapped(lba) ==
  {FileFrame[d][lba] : d \in toc} \cup (IF mpc = "toc" THEN {NoFrame} ELSE {})

(* Take a request and map its address ...                                  *)
Receive ==
  /\ spc = "idle" /\ queue # <<>> /\ chd # None
  /\ req' = Head(queue) /\ queue' = Tail(queue)
  /\ frame' \in Mapped(req'.lba) \ {NoFrame}
  /\ spc' = "mapped"
  /\ UNCHANGED <<mpc, disc, disk, taken, wire, fpga, ghost>>

(* ... or decline it, when there is no disc or no frame.                   *)
Decline ==
  /\ spc = "idle" /\ queue # <<>>
  /\ chd = None \/ NoFrame \in Mapped(Head(queue).lba)
  /\ refused' = refused \cup ({Head(queue).id} \cap {asked}) /\ queue' = Tail(queue)
  /\ UNCHANGED <<mpc, disc, disk, server, wire, fpga, epoch, fails, spoiled>>

(* Is it the hunk decoded last?  Once a disc is closed pcecd_sectors_per_- *)
(* hunk is 0, and the quotient by 0 is the tag that means no hunk.         *)
CheckTag ==
  /\ spc = "mapped"
  /\ \/ (cached = Hunk(frame) \/ chd = None) /\ spc' = "send"
     \/ cached # Hunk(frame) /\ spc' = "decode"
  /\ UNCHANGED <<mpc, disc, disk, queue, req, frame, taken, wire, fpga, ghost>>

(* The disc was closed since the request was made.                         *)
Outdated == req.epoch # epoch

Decoded ==
  /\ spc = "decode" /\ ~Outdated
  /\ buf' = <<chd, Hunk(frame)>> /\ cached' = Hunk(frame)
  /\ spoiled' = {} /\ spc' = "send"
  /\ UNCHANGED <<mpc, disc, chd, toc, queue, req, frame, taken, wire, fpga,
                 refused, epoch, fails>>

(* A read for a request of a closed disc: it may run on in freed memory or *)
(* race main_task's own reads, and sets the tag if it succeeds.            *)
DecodedOutdated ==
  /\ spc = "decode" /\ Outdated
  /\ buf' \in IF buf = Null THEN {Null}
              ELSE {buf, Garbage} \cup (IF chd = None THEN {} ELSE {<<chd, Hunk(frame)>>})
  /\ cached' = Hunk(frame)
  /\ spoiled' = spoiled \cup {"closed"} /\ spc' = "send"
  /\ UNCHANGED <<mpc, disc, chd, toc, queue, req, frame, taken, wire, fpga,
                 refused, epoch, fails>>

(* A failed read may have written part of the buffer; the tag stays.       *)
DecodeFails ==
  /\ spc = "decode" /\ fails < MaxFails
  /\ fails' = fails + 1
  /\ buf' \in IF buf = Null THEN {Null} ELSE {buf, Garbage}
  /\ spoiled' = spoiled \cup {"failed"}
  /\ refused' = refused \cup ({req.id} \cap {asked}) /\ Rest
  /\ UNCHANGED <<mpc, disc, chd, toc, cached, queue, wire, fpga, epoch>>

(* The core sees the last byte of a sector.                                *)
Answer(r, x, y) ==
  /\ sent' = [req |-> r, data |-> <<x, y>>]
  /\ asked' = 0
  /\ UNCHANGED <<announced, fpgaToc, asks>>

(* Mutant: it does not wait for the link.                                  *)
SendFirstAnytime ==
  /\ spc = "send" /\ ~req.audio
  /\ Answer(req, At(frame), At(frame)) /\ Rest
  /\ UNCHANGED <<mpc, disc, disk, queue, stage, dma, ghost>>

(* The two halves of a data sector, each waiting for the link.             *)
SendFirst ==
  /\ spc = "send" /\ ~req.audio /\ ~dma
  /\ taken' = At(frame) /\ spc' = "second"
  /\ UNCHANGED <<mpc, disc, disk, queue, req, frame, wire, fpga, ghost>>

SendSecond ==
  /\ spc = "second" /\ ~dma
  /\ Answer(req, taken, At(frame)) /\ Rest
  /\ UNCHANGED <<mpc, disc, disk, queue, stage, dma, ghost>>

(* Mutant: the samples are swapped where they are.                         *)
SwapInPlace ==
  /\ spc = "send" /\ req.audio
  /\ taken' = At(frame) /\ buf' = IF buf = Null THEN Null ELSE Garbage
  /\ spc' = "stage"
  /\ UNCHANGED <<mpc, disc, chd, toc, cached, queue, req, frame, wire, fpga, ghost>>

(* Audio: a swapped copy, since the hunk may be asked for again.           *)
Swap ==
  /\ spc = "send" /\ req.audio
  /\ taken' = At(frame)
  /\ spc' = "stage"
  /\ UNCHANGED <<mpc, disc, disk, queue, req, frame, wire, fpga, ghost>>

(* pcecd_send_sector_dma: take the token, stage, start, return.            *)
SendDma ==
  /\ spc = "stage" /\ ~dma
  /\ stage' = [req |-> req, data |-> taken] /\ dma' = TRUE
  /\ Rest
  /\ UNCHANGED <<mpc, disc, disk, queue, sent, fpga, ghost>>

(* pcecd_send_sector_blocking, when the channel is missing or given up for *)
(* the session: the two halves of the copy, each waiting for the link.     *)
(* Whether there is a channel is left open at every sector.                *)
SendBlocking ==
  /\ spc = "stage" /\ ~dma
  /\ Answer(req, taken, taken) /\ Rest
  /\ UNCHANGED <<mpc, disc, disk, queue, stage, dma, ghost>>

(* Mutant: the second frame is not tagged as the final one.                *)
DmaDoneNotFinal ==
  /\ dma /\ dma' = FALSE
  /\ sent' = [req |-> stage.req, data |-> <<stage.data, stage.data>>]
  /\ stage' = NoStage
  /\ UNCHANGED <<mpc, disc, disk, queue, server, fpga, ghost>>

(* The last byte goes out and the interrupt gives the token back.          *)
DmaDone ==
  /\ dma /\ dma' = FALSE
  /\ Answer(stage.req, stage.data, stage.data)
  /\ stage' = NoStage
  /\ UNCHANGED <<mpc, disc, disk, queue, server, ghost>>

ServerStep ==
  \/ Receive \/ Decline \/ CheckTag \/ Decoded \/ DecodedOutdated \/ DecodeFails
  \/ SendFirst \/ SendSecond \/ Swap \/ SendDma \/ SendBlocking

-----------------------------------------------------------------------------
(* main_task.                                                              *)

Main(from, to) == mpc = from /\ mpc' = to

(* pcecd_unload up to the frame it ends with; never waits for the server.  *)
Close ==
  /\ epoch <= MaxLoads /\ epoch' = epoch + 1
  /\ chd' = None /\ buf' = Null /\ cached' = None
  /\ UNCHANGED <<toc, queue, server, wire, fpga, refused, fails, spoiled>>

LoadDisc(d) == Main("idle", "unmount") /\ disc' = d /\ Close

(* Mutant: the FPGA is not told.                                           *)
LoadCartQuiet == Main("idle", "idle") /\ chd # None /\ Close /\ UNCHANGED disc

(* A cartridge of the same core: a mounted disc is dropped first.          *)
LoadCart == Main("idle", "cart") /\ chd # None /\ Close /\ UNCHANGED disc

(* pcecd_send_mount(0) and what follows it.                                *)
Unmount ==
  /\ ~dma
  /\ \/ Main("unmount", "open") /\ UNCHANGED asked
     \/ Main("giveup", "idle") /\ asked' \in {asked, 0}
     \/ Main("cart", "idle") /\ asked' = 0     \* loadpce resets the core
  /\ announced' = 0 /\ fpgaToc' = 0
  /\ UNCHANGED <<disc, disk, queue, server, wire, asks, ghost>>

(* The image does not open, has odd sectors, or there is no memory.        *)
OpenFails ==
  /\ Main("open", "idle")
  /\ UNCHANGED <<disc, disk, queue, server, wire, fpga, ghost>>

Open ==
  /\ Main("open", "toc")
  /\ chd' = disc /\ buf' = Garbage /\ cached' = None
  /\ toc' = toc \cup {disc}         \* pcecd_read_toc overwrites it piece by piece
  /\ spoiled' = {}
  /\ UNCHANGED <<disc, queue, server, wire, fpga, refused, epoch, fails>>

ReadToc ==
  /\ Main("toc", "boot")
  /\ toc' = {disc}
  /\ UNCHANGED <<disc, chd, buf, cached, queue, server, wire, fpga, ghost>>

(* No track metadata, or the BIOS does not load.                           *)
GiveUp == (Main("toc", "giveup") \/ Main("boot", "giveup")) /\ Close /\ UNCHANGED disc

(* The BIOS or system card is loaded, which resets the core.               *)
Boot ==
  /\ Main("boot", "sendtoc")
  /\ asked' = 0
  /\ UNCHANGED <<disc, disk, queue, server, wire, announced, fpgaToc, asks, ghost>>

SendToc ==
  /\ Main("sendtoc", "mount") /\ ~dma
  /\ fpgaToc' = disc
  /\ UNCHANGED <<disc, disk, queue, server, wire, announced, asked, asks, ghost>>

SendMount ==
  /\ Main("mount", "idle") /\ ~dma
  /\ announced' = epoch
  /\ UNCHANGED <<disc, disk, queue, server, wire, fpgaToc, asked, asks, ghost>>

MainStep ==
  \/ Unmount \/ OpenFails \/ Open \/ ReadToc \/ GiveUp \/ Boot \/ SendToc \/ SendMount

Next ==
  \/ \E lba \in Lbas, isAudio \in BOOLEAN : Ask(lba, isAudio)
  \/ ServerStep \/ DmaDone
  \/ (\E d \in Discs : LoadDisc(d)) \/ LoadCart \/ MainStep

Spec == Init /\ [][Next]_vars

(* Reads and transfers end; the server runs whenever main_task waits.      *)
FairSpec == Spec /\ WF_vars(ServerStep) /\ WF_vars(DmaDone) /\ WF_vars(MainStep)

-----------------------------------------------------------------------------
Right(r) == <<r.disc, FileFrame[r.disc][r.lba]>>

(* The core gets the sector it asked for, on the disc it asked it of, with *)
(* audio transfers overlapping the next decode and discs changing, unless: *)
(* the disc was closed after the request was made; or the sector was taken *)
(* from a hunk buffer in which a read failed, or a read for a closed disc  *)
(* ended, since the tag it was found by was set.                           *)
WrongSectorHasCauses ==
  sent.req = NoReq \/ sent.req.epoch # epoch
    \/ \A i \in 1..2 : sent.data[i].sector = Right(sent.req) \/ sent.data[i].why # {}

(* A disc the FPGA has been told of is open, with its buffer and its own   *)
(* tracks, and the FPGA has the same tracks: "must run before              *)
(* pcecd_send_mount(1)".  Only the unmount frame may be behind.            *)
MountedIsServed ==
  announced # 0 /\ mpc \notin {"unmount", "giveup", "cart"} =>
    /\ chd # None /\ buf # Null /\ toc = {chd}
    /\ fpgaToc = chd /\ announced = epoch

(* Sectors go out in the order of their requests and none goes out twice,  *)
(* although an audio sector is still going out when the next is served.    *)
AnswersInOrder == [][sent'.req.id > sent.req.id]_sent

(* "declining it wedges the bus": a core that waits stops waiting, for the *)
(* sector or a reset, unless its last request is refused for good.         *)
AnsweredOrRefused == asked # 0 ~> asked = 0 \/ asked \in refused
=============================================================================
