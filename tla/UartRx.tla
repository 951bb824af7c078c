------------------------------- MODULE UartRx -------------------------------
(***************************************************************************)
(* The way of a frame from the FPGA to its handler (main.cpp).             *)
(*                                                                         *)
(* uart1_isr moves the bytes of UART1 into u1rx_ring; uart1_rx_task takes  *)
(* them out and parses frames: 0xAA, a 16-bit length, a type, a payload.   *)
(* The ring has one producer, which may interrupt the consumer anywhere,   *)
(* and no lock: "head and tail need no lock as long as each side only      *)
(* writes its own index".  A byte that finds the ring full is dropped, and *)
(* the parser has no checksum to notice.                                   *)
(*                                                                         *)
(* A handler is abstracted to the frame it is given (handled); the payload *)
(* buffers (buffer, conf_rx, fbuf, dbg_trace_buf, sv_rx) are one sequence, *)
(* body, since each is filled from its first byte to its last.             *)
(***************************************************************************)
EXTENDS Integers, Sequences

CONSTANTS RingSize,     \* U1RX_RING_SIZE
          Sector,       \* bytes of a floppy sector or save-RAM block (512)
          ConfMax,      \* CORE_CONF_MAX
          PosMod,       \* pos is a uint16_t: 2^16
          Frames,       \* frames the FPGA may send
          MaxFrames,    \* frames followed
          MaxDrops      \* bytes lost to a full ring followed

SOF == 170              \* 0xAA
MaxByte == 255
Byte == 0..MaxByte
Word == {n \in Nat : n < 65536}

ASSUME RxAssumption ==
  /\ RingSize \in Nat /\ RingSize > 1
  /\ Sector \in Nat \ {0} /\ ConfMax \in Nat \ {0}
  /\ PosMod \in Nat /\ PosMod > Sector + 16
  /\ MaxFrames \in Nat /\ MaxDrops \in Nat

ASSUME FramesAssumption ==
  \A f \in Frames : f \in [type : Byte, data : Seq(Byte)] /\ Len(f.data) + 1 \in Word

(* The FPGA, which is not in this repository, sends the types the parser   *)
(* knows with the lengths it expects; a config string has at least one     *)
(* byte and ends before pos wraps.  Only FramesInOrder and                 *)
(* StuckOnlyInShortConfig rest on this.                                    *)
Expected(t, n) ==
  \/ t \in {1, 11} /\ n = 1
  \/ t = 2 /\ n > 0 /\ n + 4 <= PosMod
  \/ t \in {3, 6} /\ n = 4
  \/ t \in {4, 10} /\ n = 2 + Sector
  \/ t = 5 /\ n = 2
  \/ t = 9 /\ n = 9

ASSUME ProtocolAssumption == \A f \in Frames : Expected(f.type, Len(f.data))

VARIABLES
  ring,       \* u1rx_ring
  head,       \* u1rx_head, written by the ISR
  tail,       \* u1rx_tail, written by the task
  drops,      \* u1rx_ring_drops
  rpc,        \* uart1_rx_task: before, within or after u1rx_get
  ch,         \* the byte it took
  pos, type, len,
  body,       \* the payload bytes of the frame at hand, stored so far
  handled,    \* frames given to their handlers
  wire,       \* the bytes of the last frame sent that the ISR has not seen
  sent        \* frames sent by the FPGA

rxring == <<ring, head, tail, drops>>
parser == <<pos, type, len, body, handled>>
vars == <<rxring, rpc, ch, parser, wire, sent>>

Index == 0..(RingSize - 1)

TypeOK ==
  /\ ring \in [Index -> Byte] /\ head \in Index /\ tail \in Index
  /\ drops \in 0..MaxDrops
  /\ rpc \in {"poll", "read", "advance", "parse"}
  /\ ch \in Byte /\ pos \in 0..(PosMod - 1) /\ type \in Byte /\ len \in Word
  /\ body \in Seq(Byte) /\ wire \in Seq(Byte)

Init ==
  /\ ring = [i \in Index |-> 0] /\ head = 0 /\ tail = 0 /\ drops = 0
  /\ rpc = "poll" /\ ch = 0
  /\ pos = 0 /\ type = 0 /\ len = 0 /\ body = <<>> /\ handled = <<>>
  /\ wire = <<>> /\ sent = <<>>

-----------------------------------------------------------------------------
(* The FPGA.                                                               *)

OnWire(f) ==
  LET n == Len(f.data) + 1
  IN  <<SOF, n \div 256, n % 256, f.type>> \o f.data

(* One frame after another.                                                *)
SendFrame(f) ==
  /\ wire = <<>>
  /\ Len(sent) < MaxFrames
  /\ sent' = Append(sent, f)
  /\ wire' = OnWire(f)
  /\ UNCHANGED <<rxring, rpc, ch, parser>>

-----------------------------------------------------------------------------
(* The interrupt.                                                          *)

Succ(i) == (i + 1) % RingSize

(* Mutant: the ring is never full.                                         *)
IsrByteOverwrites ==
  /\ wire # <<>>
  /\ wire' = Tail(wire)
  /\ ring' = [ring EXCEPT ![head] = Head(wire)]
  /\ head' = Succ(head)
  /\ UNCHANGED <<tail, drops, rpc, ch, parser, sent>>

(* Mutant: the ring counts as full one byte too early.                     *)
IsrByteEarly ==
  /\ wire # <<>>
  /\ wire' = Tail(wire)
  /\ IF Succ(Succ(head)) = tail
       THEN /\ drops < MaxDrops
            /\ drops' = drops + 1
            /\ UNCHANGED <<ring, head>>
       ELSE /\ ring' = [ring EXCEPT ![head] = Head(wire)]
            /\ head' = Succ(head)
            /\ UNCHANGED drops
  /\ UNCHANGED <<tail, rpc, ch, parser, sent>>

(* One turn of the loop of uart1_isr.                                      *)
IsrByte ==
  /\ wire # <<>>
  /\ wire' = Tail(wire)
  /\ IF Succ(head) = tail
       THEN /\ drops < MaxDrops
            /\ drops' = drops + 1
            /\ UNCHANGED <<ring, head>>
       ELSE /\ ring' = [ring EXCEPT ![head] = Head(wire)]
            /\ head' = Succ(head)
            /\ UNCHANGED drops
  /\ UNCHANGED <<tail, rpc, ch, parser, sent>>

-----------------------------------------------------------------------------
(* uart1_rx_task: u1rx_get, which the ISR may interrupt anywhere.          *)

Goto(from, to) == rpc = from /\ rpc' = to

(* No byte is pending: sleep for a tick.                                   *)
Idle ==
  /\ rpc = "poll"
  /\ tail = head
  /\ UNCHANGED vars

(* Mutant: the last byte stays in the ring.                                *)
PollBeforeLast ==
  /\ Goto("poll", "read")
  /\ tail # head /\ Succ(tail) # head
  /\ UNCHANGED <<rxring, ch, parser, wire, sent>>

Poll ==
  /\ Goto("poll", "read")
  /\ tail # head
  /\ UNCHANGED <<rxring, ch, parser, wire, sent>>

ReadSlot ==
  /\ Goto("read", "advance")
  /\ ch' = ring[tail]
  /\ UNCHANGED <<rxring, parser, wire, sent>>

Advance ==
  /\ Goto("advance", "parse")
  /\ tail' = Succ(tail)
  /\ UNCHANGED <<ring, head, drops, ch, parser, wire, sent>>

-----------------------------------------------------------------------------
(* uart1_rx_task: the parser.                                              *)

(* The value of pos at which the last payload byte of a frame is expected. *)
LastPos ==
  CASE type \in {1, 11} -> 4                  \* core id; backup RAM written
    [] type = 2 -> len + 2                    \* config string
    [] type \in {3, 6} -> 7                   \* joypads; CD sector request
    [] type = 4 -> 6 + Sector - 1             \* floppy write
    [] type = 5 -> 5                          \* floppy read
    [] type = 9 -> 12                         \* RTL trace
    [] type = 10 -> 4 + 2 + Sector - 1        \* save-RAM block
    [] OTHER -> -1

Known == type \in {1, 2, 3, 4, 5, 6, 9, 10, 11}

(* Mutant: the low byte of the length is not added.                        *)
ParseHeaderMsb ==
  /\ rpc = "parse" /\ pos < 4
  /\ pos' = IF pos = 0 /\ ch # SOF THEN 0 ELSE pos + 1
  /\ len' = IF pos = 1 THEN ch * 256 ELSE len
  /\ type' = IF pos = 3 THEN ch ELSE type
  /\ body' = IF pos = 3 THEN <<>> ELSE body
  /\ rpc' = "poll"
  /\ UNCHANGED <<rxring, ch, handled, wire, sent>>

(* The header: pos 0 to 3.                                                 *)
ParseHeader ==
  /\ rpc = "parse" /\ pos < 4
  /\ pos' = IF pos = 0 /\ ch # SOF THEN 0 ELSE pos + 1
  /\ len' = CASE pos = 1 -> ch * 256
              [] pos = 2 -> (len + ch) % 65536
              [] OTHER -> len
  /\ type' = IF pos = 3 THEN ch ELSE type
  /\ body' = IF pos = 3 THEN <<>> ELSE body
  /\ rpc' = "poll"
  /\ UNCHANGED <<rxring, ch, handled, wire, sent>>

Stored == IF type = 2 /\ pos - 4 >= ConfMax THEN body ELSE Append(body, ch)

(* Mutant: a frame ends one byte late.                                     *)
ParsePayloadLate ==
  /\ rpc = "parse" /\ pos >= 4 /\ Known
  /\ IF pos = LastPos + 1
       THEN /\ pos' = 0 /\ body' = <<>>
            /\ handled' = Append(handled, [type |-> type, data |-> Stored])
       ELSE /\ pos' = (pos + 1) % PosMod /\ body' = Stored
            /\ UNCHANGED handled
  /\ rpc' = "poll"
  /\ UNCHANGED <<rxring, ch, type, len, wire, sent>>

(* A payload byte: stored, and after the last one the handler.             *)
ParsePayload ==
  /\ rpc = "parse" /\ pos >= 4 /\ Known
  /\ IF pos = LastPos
       THEN /\ pos' = 0 /\ body' = <<>>
            /\ handled' = Append(handled, [type |-> type, data |-> Stored])
       ELSE /\ pos' = (pos + 1) % PosMod /\ body' = Stored
            /\ UNCHANGED handled
  /\ rpc' = "poll"
  /\ UNCHANGED <<rxring, ch, type, len, wire, sent>>

(* "Reset if we get out of sync".                                          *)
ParseUnknown ==
  /\ rpc = "parse" /\ pos >= 4 /\ ~Known
  /\ pos' = 0
  /\ rpc' = "poll"
  /\ UNCHANGED <<rxring, ch, type, len, body, handled, wire, sent>>

TaskStep == Poll \/ ReadSlot \/ Advance \/ ParseHeader \/ ParsePayload \/ ParseUnknown

Next == (\E f \in Frames : SendFrame(f)) \/ IsrByte \/ TaskStep \/ Idle

Spec == Init /\ [][Next]_vars

(* The FIFO-threshold and timeout interrupts deliver every byte in time,   *)
(* and the task polls again after at most one tick.                        *)
FairSpec == Spec /\ WF_vars(IsrByte) /\ WF_vars(TaskStep)

-----------------------------------------------------------------------------
(* What the handler of f is given: conf_rx keeps ConfMax bytes.            *)
Delivered(f) ==
  IF f.type = 2 /\ Len(f.data) > ConfMax
  THEN [f EXCEPT !.data = SubSeq(@, 1, ConfMax)] ELSE f

(* As long as no byte found the ring full the handlers get the frames the  *)
(* FPGA sent, whole, in order, none twice and none made up, wherever the   *)
(* ISR interrupts the task and however often the indices wrap.             *)
FramesInOrder ==
  drops = 0 => /\ Len(handled) <= Len(sent)
               /\ \A i \in 1..Len(handled) : handled[i] = Delivered(sent[i])

(* ... and they get all of them.                                           *)
AllHandled ==
  \A n \in 1..MaxFrames : Len(sent) >= n ~> drops > 0 \/ Len(handled) >= n

(* "Writing through it here overflowed the stack and crashed the MCU":     *)
(* whatever bytes arrive, after lost ones too, a payload byte is stored    *)
(* within its buffer (buffer[5], fbuf, dbg_trace_buf[8]).                  *)
WritesInRange ==
  rpc = "parse" /\ pos >= 4 =>
    /\ type \in {3, 5, 6} => pos - 4 < 5
    /\ type = 4 => IF pos < 6 THEN pos - 4 < 5 ELSE pos - 6 < Sector
    /\ type = 9 => pos = 4 \/ pos - 5 < 8
    /\ type = 10 => pos - 4 < 2 + Sector
    /\ Len(body) <= IF type = 2 THEN ConfMax ELSE 2 + Sector + 8

(* A frame that lost bytes takes some of the next one with it, and then    *)
(* the parser is back at pos = 0: it never waits for a byte that is past.  *)
(* The exception is a config string of length below 2, which only lost     *)
(* bytes can produce, and which takes the next 64 kB.                      *)
StuckOnlyInShortConfig ==
  /\ rpc = "parse" /\ pos >= 4 /\ Known /\ ~(type = 2 /\ len < 2) => pos <= LastPos
  /\ type = 2 /\ len < 2 /\ pos >= 4 => drops > 0

-----------------------------------------------------------------------------
(* The bytes between tail and head; the one the task has read but not yet  *)
(* released no longer counts.                                              *)
Used == IF tail <= head THEN head - tail ELSE head + RingSize - tail
Slot(i) == IF tail + i < RingSize THEN tail + i ELSE tail + i - RingSize
Content == [i \in 1..Used |-> ring[Slot(i - 1)]]
Waiting == IF rpc = "advance" THEN Tail(Content) ELSE Content

(* "head and tail need no lock": the ring is a FIFO of RingSize - 1 bytes, *)
(* although the ISR may run between any two steps of u1rx_get.             *)
Fifo == INSTANCE ByteFifo WITH
  Bytes <- Byte, Capacity <- RingSize - 1,
  queue <- Waiting, out <- ch, lost <- drops
ImplementsFifo == Fifo!Spec
=============================================================================
