---------------------------- MODULE UartProofs ----------------------------
(***************************************************************************)
(* What is promised of UART1, in both directions: of the token that its    *)
(* writers share (UartToken), for any number of tasks and whichever of     *)
(* them send frames without it; and of what the MCU receives (UartRx), for *)
(* every ring size, sector size and set of frames, whatever bytes are      *)
(* lost.  The two share no state.                                          *)
(***************************************************************************)
EXTENDS UartToken, UartRx, TLAPS, SequenceTheorems

-----------------------------------------------------------------------------
(* The token.  DmaIff (DMA-TX mode, a transfer in flight and a working     *)
(* channel go together) and ServerOnly hold always; while no wait has      *)
(* timed out, TokenInv says that every writer owns the token, that the     *)
(* server has not entered its recovery path, and that the token has one    *)
(* holder exactly when it is not available; and WireInv ties every open    *)
(* frame to the holder of the token while nobody has sent without it.      *)

(* Only cd_serve_task walks the DMA path.                                  *)
ServerOnly == \A t \in Tasks : pc[t] \in {"dmalock", "stage", "stop", "rearm"} => t = Server

(* UART1 is in DMA-TX mode exactly while a transfer is in flight, and the  *)
(* DMA path is only walked while the channel has not been given up.        *)
DmaIff ==
  /\ txdma = inflight
  /\ inflight => dmaDev
  /\ pc[Server] \in {"dmalock", "stage", "stop"} => dmaDev

Base == TokenTypeOK /\ ServerOnly /\ DmaIff /\ TokenNotLost

(* One holder, and the token is away exactly when it is held.              *)
TokenInv ==
  lkto = 0 =>
    /\ \A t \in Tasks : Writing(t) => own[t]
    /\ pc[Server] \notin {"stop", "rearm"}
    /\ hw # "off" => inflight
    /\ \A t, u \in Tasks : Writing(t) /\ Writing(u) => t = u
    /\ \A t \in Tasks : Writing(t) => pc[Server] # "stage" /\ ~inflight
    /\ pc[Server] = "stage" => ~inflight
    /\ sem => /\ \A t \in Tasks : ~Writing(t)
              /\ pc[Server] # "stage"
              /\ ~inflight

(* Nobody has a frame open but the holder, and no frame is cut.            *)
WireInv ==
  lkto = 0 /\ ~bypassed =>
    /\ \A t \in Tasks : pc[t] # "bare"
    /\ \A t \in Tasks : frame[t] # "none" => pc[t] = "frame"
    /\ frame[Dma] # "none" => hw = "busy"
    /\ \A e \in Emitters : frame[e] # "cut"

-----------------------------------------------------------------------------
(* The start state satisfies the whole invariant.                          *)
LEMMA TokenInitInv == TokenInit => Base /\ TokenInv /\ WireInv
<1> SUFFICES ASSUME TokenInit PROVE Base /\ TokenInv /\ WireInv
  OBVIOUS
<1>1. TokenTypeOK
  <2>1. lkto \in 0..TimeoutCap /\ chunks \in 0..2
    BY TokenAssumption DEF TokenInit
  <2>2. pc \in [Tasks -> {"idle"}] /\ own \in [Tasks -> BOOLEAN]
    BY Zenon DEF TokenInit
  <2>3. frame \in [Emitters -> {"none", "clean", "cut"}]
    BY Zenon DEF TokenInit
  <2>4. sem \in BOOLEAN /\ dmaDev \in BOOLEAN /\ inflight \in BOOLEAN
          /\ txdma \in BOOLEAN /\ hw \in {"off", "busy", "irq"}
          /\ bypassed \in BOOLEAN
    BY Zenon DEF TokenInit
  <2> QED
    BY <2>1, <2>2, <2>3, <2>4 DEF TokenTypeOK
<1>2. ServerOnly /\ DmaIff /\ TokenNotLost
  BY TokenAssumption DEF TokenInit, ServerOnly, DmaIff, TokenNotLost
<1>3. TokenInv
  BY TokenAssumption DEF TokenInit, TokenInv, Writing
<1>4. WireInv
  BY TokenAssumption DEF TokenInit, WireInv, Emitters
<1> QED
  BY <1>1, <1>2, <1>3, <1>4 DEF Base

(* Which steps there are.                                                  *)
LEMMA NextCases ==
  ASSUME TokenNext
  PROVE  \/ \E t \in Tasks :
               \/ Lock(t) /\ t # Server
               \/ SendMasked(t) \/ QueryCoreId(t)
               \/ Take(t) \/ TakeTimesOut(t) \/ WriteHeader(t)
               \/ WriteLastByte(t) \/ Unlock(t) \/ QuerySent(t)
         \/ SendSectorBlocking \/ SendSectorDma \/ DmaTake \/ DmaStart
         \/ DmaTakeTimesOut \/ DmaAbort \/ DmaRearm
         \/ HwComplete \/ HwLosesIrq \/ Isr
  BY DEF TokenNext, Start, WriterStep, ServerStep

(* Every step keeps the types.                                             *)
LEMMA TypeStep == TokenTypeOK /\ ServerOnly /\ [TokenNext]_tokenVars => TokenTypeOK'
<1> SUFFICES ASSUME TokenTypeOK /\ ServerOnly, [TokenNext]_tokenVars PROVE TokenTypeOK'
  OBVIOUS
<1> USE TokenAssumption DEF TokenTypeOK, Emitters, ServerOnly
<1>1. ASSUME NEW t \in Tasks, Lock(t), t # Server PROVE TokenTypeOK'
  BY <1>1 DEF Lock, Move
<1>2. ASSUME NEW t \in Tasks, Take(t) PROVE TokenTypeOK'
  BY <1>2 DEF Take, Move
<1>3. ASSUME NEW t \in Tasks, TakeTimesOut(t) PROVE TokenTypeOK'
  BY <1>3 DEF TakeTimesOut, Move, CountTimeout
<1>4. ASSUME NEW t \in Tasks, WriteHeader(t) PROVE TokenTypeOK'
  BY <1>4 DEF WriteHeader, Move, FrameOpens, IsOpen
<1>5. ASSUME NEW t \in Tasks, WriteLastByte(t) PROVE TokenTypeOK'
  BY <1>5 DEF WriteLastByte, Move, FrameCloses
<1>6. ASSUME NEW t \in Tasks, Unlock(t) PROVE TokenTypeOK'
  BY <1>6 DEF Unlock, Move
<1>7. ASSUME NEW t \in Tasks, SendMasked(t) PROVE TokenTypeOK'
  BY <1>7 DEF SendMasked, MaskedFrame, IsOpen
<1>8. ASSUME NEW t \in Tasks, QueryCoreId(t) PROVE TokenTypeOK'
  BY <1>8 DEF QueryCoreId, Move, FrameOpens, IsOpen
<1>9. ASSUME NEW t \in Tasks, QuerySent(t) PROVE TokenTypeOK'
  BY <1>9 DEF QuerySent, Move, FrameCloses
<1>10. CASE SendSectorBlocking
  BY <1>10 DEF SendSectorBlocking, Move
<1>11. CASE SendSectorDma
  BY <1>11 DEF SendSectorDma, Move
<1>12. CASE DmaTake
  BY <1>12 DEF DmaTake, Move
<1>13. CASE DmaStart
  BY <1>13 DEF DmaStart, Move, FrameOpens, IsOpen
<1>14. CASE DmaTakeTimesOut
  BY <1>14 DEF DmaTakeTimesOut, Move, CountTimeout
<1>15. CASE DmaAbort
  BY <1>15 DEF DmaAbort, Move, FrameCloses
<1>16. CASE DmaRearm
  BY <1>16 DEF DmaRearm, Move
<1>17. CASE HwComplete
  BY <1>17 DEF HwComplete, FrameCloses
<1>18. CASE HwLosesIrq
  BY <1>18 DEF HwLosesIrq, FrameCloses
<1>19. CASE Isr
  BY <1>19 DEF Isr
<1>20. CASE UNCHANGED tokenVars
  BY <1>20 DEF tokenVars
<1> QED
  BY <1>1, <1>2, <1>3, <1>4, <1>5, <1>6, <1>7, <1>8, <1>9, <1>10, <1>11, <1>12, <1>13, <1>14, <1>15, <1>16, <1>17, <1>18, <1>19, <1>20, NextCases

(* Every step keeps the shape of the DMA path and keeps a giver.           *)
LEMMA BaseStep == Base /\ [TokenNext]_tokenVars => (ServerOnly /\ DmaIff /\ TokenNotLost)'
<1> SUFFICES ASSUME Base, [TokenNext]_tokenVars PROVE (ServerOnly /\ DmaIff /\ TokenNotLost)'
  OBVIOUS
<1> USE TokenAssumption DEF Base, TokenTypeOK, ServerOnly, DmaIff, TokenNotLost, Writing
<1>1. ASSUME NEW t \in Tasks, Lock(t), t # Server PROVE (ServerOnly /\ DmaIff /\ TokenNotLost)'
  BY <1>1 DEF Lock, Move
<1>2. ASSUME NEW t \in Tasks, Take(t) PROVE (ServerOnly /\ DmaIff /\ TokenNotLost)'
  BY <1>2 DEF Take, Move
<1>3. ASSUME NEW t \in Tasks, TakeTimesOut(t) PROVE (ServerOnly /\ DmaIff /\ TokenNotLost)'
  BY <1>3 DEF TakeTimesOut, Move, CountTimeout
<1>4. ASSUME NEW t \in Tasks, WriteHeader(t) PROVE (ServerOnly /\ DmaIff /\ TokenNotLost)'
  BY <1>4 DEF WriteHeader, Move, FrameOpens, IsOpen
<1>5. ASSUME NEW t \in Tasks, WriteLastByte(t) PROVE (ServerOnly /\ DmaIff /\ TokenNotLost)'
  BY <1>5 DEF WriteLastByte, Move, FrameCloses
<1>6. ASSUME NEW t \in Tasks, Unlock(t) PROVE (ServerOnly /\ DmaIff /\ TokenNotLost)'
  BY <1>6 DEF Unlock, Move
<1>7. ASSUME NEW t \in Tasks, SendMasked(t) PROVE (ServerOnly /\ DmaIff /\ TokenNotLost)'
  BY <1>7 DEF SendMasked, MaskedFrame, IsOpen
<1>8. ASSUME NEW t \in Tasks, QueryCoreId(t) PROVE (ServerOnly /\ DmaIff /\ TokenNotLost)'
  BY <1>8 DEF QueryCoreId, Move, FrameOpens, IsOpen
<1>9. ASSUME NEW t \in Tasks, QuerySent(t) PROVE (ServerOnly /\ DmaIff /\ TokenNotLost)'
  BY <1>9 DEF QuerySent, Move, FrameCloses
<1>10. CASE SendSectorBlocking
  BY <1>10 DEF SendSectorBlocking, Move
<1>11. CASE SendSectorDma
  BY <1>11 DEF SendSectorDma, Move
<1>12. CASE DmaTake
  BY <1>12 DEF DmaTake, Move
<1>13. CASE DmaStart
  BY <1>13 DEF DmaStart, Move, FrameOpens, IsOpen
<1>14. CASE DmaTakeTimesOut
  BY <1>14 DEF DmaTakeTimesOut, Move, CountTimeout
<1>15. CASE DmaAbort
  BY <1>15 DEF DmaAbort, Move, FrameCloses
<1>16. CASE DmaRearm
  BY <1>16 DEF DmaRearm, Move
<1>17. CASE HwComplete
  BY <1>17 DEF HwComplete, FrameCloses
<1>18. CASE HwLosesIrq
  BY <1>18 DEF HwLosesIrq, FrameCloses
<1>19. CASE Isr
  BY <1>19 DEF Isr
<1>20. CASE UNCHANGED tokenVars
  BY <1>20 DEF tokenVars
<1> QED
  BY <1>1, <1>2, <1>3, <1>4, <1>5, <1>6, <1>7, <1>8, <1>9, <1>10, <1>11, <1>12, <1>13, <1>14, <1>15, <1>16, <1>17, <1>18, <1>19, <1>20, NextCases

(* Every step keeps the exclusion.                                         *)
LEMMA TokenStep == Base /\ TokenInv /\ [TokenNext]_tokenVars => TokenInv'
<1> SUFFICES ASSUME Base /\ TokenInv, [TokenNext]_tokenVars PROVE TokenInv'
  OBVIOUS
<1> USE TokenAssumption DEF Base, TokenTypeOK, ServerOnly, DmaIff, TokenInv, Writing
<1>1. ASSUME NEW t \in Tasks, Lock(t), t # Server PROVE TokenInv'
  BY <1>1 DEF Lock, Move
<1>2. ASSUME NEW t \in Tasks, Take(t) PROVE TokenInv'
  BY <1>2 DEF Take, Move
<1>3. ASSUME NEW t \in Tasks, TakeTimesOut(t) PROVE TokenInv'
  BY <1>3 DEF TakeTimesOut, Move, CountTimeout
<1>4. ASSUME NEW t \in Tasks, WriteHeader(t) PROVE TokenInv'
  BY <1>4 DEF WriteHeader, Move, FrameOpens, IsOpen
<1>5. ASSUME NEW t \in Tasks, WriteLastByte(t) PROVE TokenInv'
  BY <1>5 DEF WriteLastByte, Move, FrameCloses
<1>6. ASSUME NEW t \in Tasks, Unlock(t) PROVE TokenInv'
  BY <1>6 DEF Unlock, Move
<1>7. ASSUME NEW t \in Tasks, SendMasked(t) PROVE TokenInv'
  BY <1>7 DEF SendMasked, MaskedFrame, IsOpen
<1>8. ASSUME NEW t \in Tasks, QueryCoreId(t) PROVE TokenInv'
  BY <1>8 DEF QueryCoreId, Move, FrameOpens, IsOpen
<1>9. ASSUME NEW t \in Tasks, QuerySent(t) PROVE TokenInv'
  BY <1>9 DEF QuerySent, Move, FrameCloses
<1>10. CASE SendSectorBlocking
  BY <1>10 DEF SendSectorBlocking, Move
<1>11. CASE SendSectorDma
  BY <1>11 DEF SendSectorDma, Move
<1>12. CASE DmaTake
  BY <1>12 DEF DmaTake, Move
<1>13. CASE DmaStart
  BY <1>13 DEF DmaStart, Move, FrameOpens, IsOpen
<1>14. CASE DmaTakeTimesOut
  BY <1>14 DEF DmaTakeTimesOut, Move, CountTimeout
<1>15. CASE DmaAbort
  BY <1>15 DEF DmaAbort, Move, FrameCloses
<1>16. CASE DmaRearm
  BY <1>16 DEF DmaRearm, Move
<1>17. CASE HwComplete
  BY <1>17 DEF HwComplete, FrameCloses
<1>18. CASE HwLosesIrq
  BY <1>18 DEF HwLosesIrq, FrameCloses
<1>19. CASE Isr
  BY <1>19 DEF Isr
<1>20. CASE UNCHANGED tokenVars
  BY <1>20 DEF tokenVars
<1> QED
  BY <1>1, <1>2, <1>3, <1>4, <1>5, <1>6, <1>7, <1>8, <1>9, <1>10, <1>11, <1>12, <1>13, <1>14, <1>15, <1>16, <1>17, <1>18, <1>19, <1>20, NextCases

(* As long as every writer takes the token no step cuts a frame.           *)
LEMMA WireStep == Base /\ TokenInv /\ WireInv /\ [TokenNext]_tokenVars => WireInv'
<1> SUFFICES ASSUME Base /\ TokenInv /\ WireInv, [TokenNext]_tokenVars PROVE WireInv'
  OBVIOUS
<1> USE TokenAssumption DEF Base, TokenTypeOK, ServerOnly, DmaIff, TokenInv, WireInv, Writing, Emitters
<1>1. ASSUME NEW t \in Tasks, Lock(t), t # Server PROVE WireInv'
  BY <1>1 DEF Lock, Move
<1>2. ASSUME NEW t \in Tasks, Take(t) PROVE WireInv'
  BY <1>2 DEF Take, Move
<1>3. ASSUME NEW t \in Tasks, TakeTimesOut(t) PROVE WireInv'
  BY <1>3 DEF TakeTimesOut, Move, CountTimeout
<1>4. ASSUME NEW t \in Tasks, WriteHeader(t) PROVE WireInv'
  BY <1>4 DEF WriteHeader, Move, FrameOpens, IsOpen
<1>5. ASSUME NEW t \in Tasks, WriteLastByte(t) PROVE WireInv'
  BY <1>5 DEF WriteLastByte, Move, FrameCloses
<1>6. ASSUME NEW t \in Tasks, Unlock(t) PROVE WireInv'
  BY <1>6 DEF Unlock, Move
<1>7. ASSUME NEW t \in Tasks, SendMasked(t) PROVE WireInv'
  BY <1>7 DEF SendMasked, MaskedFrame, IsOpen
<1>8. ASSUME NEW t \in Tasks, QueryCoreId(t) PROVE WireInv'
  BY <1>8 DEF QueryCoreId, Move, FrameOpens, IsOpen
<1>9. ASSUME NEW t \in Tasks, QuerySent(t) PROVE WireInv'
  BY <1>9 DEF QuerySent, Move, FrameCloses
<1>10. CASE SendSectorBlocking
  BY <1>10 DEF SendSectorBlocking, Move
<1>11. CASE SendSectorDma
  BY <1>11 DEF SendSectorDma, Move
<1>12. CASE DmaTake
  BY <1>12 DEF DmaTake, Move
<1>13. CASE DmaStart
  BY <1>13 DEF DmaStart, Move, FrameOpens, IsOpen
<1>14. CASE DmaTakeTimesOut
  BY <1>14 DEF DmaTakeTimesOut, Move, CountTimeout
<1>15. CASE DmaAbort
  BY <1>15 DEF DmaAbort, Move, FrameCloses
<1>16. CASE DmaRearm
  BY <1>16 DEF DmaRearm, Move
<1>17. CASE HwComplete
  BY <1>17 DEF HwComplete, FrameCloses
<1>18. CASE HwLosesIrq
  BY <1>18 DEF HwLosesIrq, FrameCloses
<1>19. CASE Isr
  BY <1>19 DEF Isr
<1>20. CASE UNCHANGED tokenVars
  BY <1>20 DEF tokenVars
<1> QED
  BY <1>1, <1>2, <1>3, <1>4, <1>5, <1>6, <1>7, <1>8, <1>9, <1>10, <1>11, <1>12, <1>13, <1>14, <1>15, <1>16, <1>17, <1>18, <1>19, <1>20, NextCases
-----------------------------------------------------------------------------
(* The invariant of the specification, for any constants.                  *)
LEMMA Invariance == TokenSpec => [](Base /\ TokenInv)
<1>1. TokenInit => Base /\ TokenInv
  BY TokenInitInv
<1>2. Base /\ TokenInv /\ [TokenNext]_tokenVars => (Base /\ TokenInv)'
  BY TypeStep, BaseStep, TokenStep DEF Base
<1> QED
  BY <1>1, <1>2, PTL DEF TokenSpec

(* Every variable of the model keeps its type (utils.cpp, pcecd.cpp).      *)
THEOREM TokenTypeCorrect == TokenSpec => []TokenTypeOK
<1>1. Base /\ TokenInv => TokenTypeOK
  BY DEF Base
<1> QED
  BY <1>1, Invariance, PTL

(* The UART1 token has at most one holder, a task or the DMA transfer it   *)
(* started, for any number of writers, until a bounded wait expires.       *)
THEOREM Exclusion == TokenSpec => []OneHolder
<1>1. Base /\ TokenInv => OneHolder
  <2> SUFFICES ASSUME Base, TokenInv, lkto = 0 PROVE OneHolder
    BY DEF OneHolder
  <2>1. ASSUME NEW x \in Holders
        PROVE  \/ x \in Tasks /\ Writing(x)
               \/ x = Server /\ pc[Server] = "stage"
               \/ x = Dma /\ inflight
    BY DEF Holders
  <2>2. \A x, y \in Holders : x = y
    BY <2>1, TokenAssumption DEF TokenInv
  <2>3. sem => Holders = {}
    BY <2>1, TokenAssumption DEF TokenInv
  <2> QED
    BY <2>2, <2>3 DEF OneHolder
<1> QED
  BY <1>1, Invariance, PTL

(* The token always has somebody who will give it, whatever the timeouts   *)
(* and lost completions so far.                                            *)
THEOREM NotLost == TokenSpec => []TokenNotLost
<1>1. Base /\ TokenInv => TokenNotLost
  BY DEF Base
<1> QED
  BY <1>1, Invariance, PTL

(* After DMA was given up no late interrupt puts UART1 back in DMA mode.   *)
THEOREM DmaStaysOff == TokenSpec => []GivenUpIsOff
<1>1. Base /\ TokenInv => GivenUpIsOff
  BY DEF Base, DmaIff, GivenUpIsOff
<1> QED
  BY <1>1, Invariance, PTL

(* No writer that owns the token meets UART1 in DMA-TX mode.               *)
THEOREM BlockingModeWhenWriting == TokenSpec => []NoBlockingInDmaMode
<1>1. Base /\ TokenInv => NoBlockingInDmaMode
  BY DEF Base, DmaIff, TokenInv, Writing, NoBlockingInDmaMode
<1> QED
  BY <1>1, Invariance, PTL

(* As long as every writer takes the token, as tc_utils.h asks, frames     *)
(* stay contiguous until a bounded wait expires.                           *)
THEOREM Contiguous == TokenSpec => []FramesContiguous
<1> DEFINE Inv == Base /\ TokenInv /\ WireInv
<1>1. TokenInit => Inv
  BY TokenInitInv
<1>2. Inv /\ [TokenNext]_tokenVars => Inv'
  BY TypeStep, BaseStep, TokenStep, WireStep DEF Base
<1>3. Inv => FramesContiguous
  BY DEF WireInv, FramesContiguous, NoFrameCut
<1> HIDE DEF Inv
<1> QED
  BY <1>1, <1>2, <1>3, PTL DEF TokenSpec

-----------------------------------------------------------------------------
(* The receiver.  Shape bounds pos by the last position of the type being  *)
(* received, so that no payload byte is stored outside its buffer; GetInv  *)
(* says that the slot the task is reading is not empty and not the one the *)
(* ISR writes next, which is all the ring needs instead of a lock.         *)
(*                                                                         *)
(* That the parser gives the frames sent, in order, rests on Synchronised. *)
(* Every byte sent lies in the wire, in the ring or at the parser: Coming. *)
(* InStep says where the frames begin in the stream of all bytes, and that *)
(* the bytes to come are those of the frames from the place the parser is  *)
(* at; InFrame is what it has made of the bytes before that.  A byte lost  *)
(* voids both, and ConfigEnds is what is left: with Shape, no frame but a  *)
(* config string of a corrupt count lacks its end.                         *)

(* Where the parser can be in a frame of each type, and how much of the    *)
(* payload it has stored by then.                                          *)
Shape ==
  pos >= 4 =>
    /\ type \in {1, 11} => pos = 4
    /\ type \in {3, 6} => pos <= 7
    /\ type = 4 => pos <= 6 + Sector - 1
    /\ type = 5 => pos <= 5
    /\ type = 9 => pos <= 12
    /\ type = 10 => pos <= 4 + 2 + Sector - 1
    /\ ~Known => pos = 4
    /\ type = 2 => Len(body) <= ConfMax /\ Len(body) <= pos - 4
    /\ type # 2 => Len(body) = pos - 4

(* What the task knows between the steps of u1rx_get.                      *)
GetInv ==
  /\ rpc \in {"read", "advance"} => tail # head
  /\ rpc = "advance" => ch = ring[tail]

Inv == TypeOK /\ Shape /\ GetInv

-----------------------------------------------------------------------------
(* Advancing an index wraps at the end of the ring.                        *)
LEMMA SuccIs ==
  \A i \in Index : Succ(i) = IF i + 1 = RingSize THEN 0 ELSE i + 1
  BY RxAssumption DEF Index, Succ

LEMMA SuccType == \A i \in Index : Succ(i) \in Index
  BY SuccIs, RxAssumption DEF Index

(* Bytes are the numbers below 256.                                        *)
LEMMA ByteIs == \A b : b \in Byte <=> b \in Nat /\ b < 256
<1>1. \A m \in Nat : \A b : b \in 0..m <=> b \in Nat /\ b <= m
  OBVIOUS
<1>2. MaxByte = 255
  BY DEF MaxByte
<1> QED
  BY <1>1, <1>2 DEF Byte

(* Every frame is a sequence of bytes on the wire.                         *)
LEMMA OnWireType == \A f \in Frames : OnWire(f) \in Seq(Byte)
<1> TAKE f \in Frames
<1> DEFINE n == Len(f.data) + 1
<1>1. n \in Word /\ f.data \in Seq(Byte) /\ f.type \in Byte
  BY FramesAssumption
<1> HIDE DEF n
<1>2. n \div 256 \in Byte /\ n % 256 \in Byte
  BY <1>1, ByteIs DEF Word
<1>3. SOF \in Byte
  BY ByteIs DEF SOF
<1>4. <<SOF, n \div 256, n % 256, f.type>> \in Seq(Byte)
  BY <1>1, <1>2, <1>3
<1>5. \A s, t \in Seq(Byte) : s \o t \in Seq(Byte)
  OBVIOUS
<1> QED
  BY <1>1, <1>4, <1>5 DEF OnWire, n

-----------------------------------------------------------------------------
LEMMA InitInv == Init => Inv
<1> SUFFICES ASSUME Init PROVE Inv
  OBVIOUS
<1>1. ring \in [Index -> Byte] /\ head \in Index /\ tail \in Index /\ ch \in Byte /\ type \in Byte
  BY RxAssumption, ByteIs DEF Init, Index
<1>2. wire \in Seq(Byte) /\ body \in Seq(Byte) /\ len \in Word
  BY DEF Init, Word
<1> QED
  BY <1>1, <1>2, RxAssumption DEF Init, Inv, TypeOK, Shape, GetInv

LEMMA StepInv == Inv /\ [Next]_vars => Inv'
<1> SUFFICES ASSUME Inv, [Next]_vars PROVE Inv'
  OBVIOUS
<1>0. TypeOK /\ Shape /\ GetInv
  BY DEF Inv
<1>1. ASSUME NEW f \in Frames, SendFrame(f) PROVE Inv'
  BY <1>0, <1>1, OnWireType
     DEF SendFrame, Inv, TypeOK, Shape, GetInv, Known, rxring, parser
<1>2. CASE IsrByte
  <2>1. Head(wire) \in Byte /\ Tail(wire) \in Seq(Byte) /\ wire' = Tail(wire)
    BY <1>0, <1>2 DEF IsrByte, TypeOK
  <2>2. CASE Succ(head) = tail
    <3>1. drops' = drops + 1 /\ drops' \in 0..MaxDrops /\ ring' = ring /\ head' = head
      BY <1>0, <1>2, <2>2, RxAssumption DEF IsrByte, TypeOK
    <3> QED
      BY <1>0, <1>2, <2>1, <3>1 DEF IsrByte, Inv, TypeOK, Shape, GetInv, Known, parser
  <2>3. CASE Succ(head) # tail
    <3>1. /\ ring' = [ring EXCEPT ![head] = Head(wire)] /\ head' = Succ(head)
          /\ drops' = drops /\ tail' = tail /\ rpc' = rpc /\ ch' = ch
      BY <1>2, <2>3 DEF IsrByte
    <3>2. ring' \in [Index -> Byte] /\ head' \in Index
      BY <1>0, <2>1, <3>1, SuccType DEF TypeOK
    <3>3. TypeOK'
      BY <1>0, <1>2, <2>1, <3>1, <3>2 DEF IsrByte, TypeOK, parser
    <3>4. GetInv'
      BY <1>0, <2>3, <3>1 DEF GetInv, TypeOK
    <3>5. Shape'
      BY <1>0, <1>2 DEF IsrByte, Shape, Known, parser
    <3> QED
      BY <3>3, <3>4, <3>5 DEF Inv
  <2> QED
    BY <2>2, <2>3
<1>3. CASE Poll
  BY <1>0, <1>3 DEF Poll, Goto, Inv, TypeOK, Shape, GetInv, Known, rxring, parser
<1>4. CASE ReadSlot
  BY <1>0, <1>4 DEF ReadSlot, Goto, Inv, TypeOK, Shape, GetInv, Known, rxring, parser
<1>5. CASE Advance
  BY <1>0, <1>5, SuccType
     DEF Advance, Goto, Inv, TypeOK, Shape, GetInv, Known, parser
<1>6. CASE ParseHeader
  <2>1. pos' \in 0..(PosMod - 1) /\ pos' <= pos + 1
    BY <1>0, <1>6, RxAssumption DEF ParseHeader, TypeOK
  <2>2. len' \in Word
    <3>1. ch \in Nat /\ ch < 256 /\ len \in Nat /\ len < 65536
      BY <1>0, ByteIs DEF TypeOK, Word
    <3>2. ch * 256 \in Word /\ (len + ch) % 65536 \in Word /\ len \in Word
      BY <3>1 DEF Word
    <3>3. len' \in {ch * 256, (len + ch) % 65536, len}
      BY <1>6 DEF ParseHeader
    <3> QED
      BY <3>2, <3>3
  <2>3. body' \in Seq(Byte) /\ type' \in Byte
    BY <1>0, <1>6 DEF ParseHeader, TypeOK
  <2>4. TypeOK'
    BY <1>0, <1>6, <2>1, <2>2, <2>3 DEF ParseHeader, TypeOK, rxring
  <2>5. pos' >= 4 => pos' = 4 /\ body' = <<>>
    BY <1>0, <1>6 DEF ParseHeader, TypeOK
  <2>6. Shape'
    BY <2>1, <2>5, RxAssumption DEF Shape, Known
  <2>7. rpc' = "poll"
    BY <1>6 DEF ParseHeader
  <2> QED
    BY <2>4, <2>6, <2>7 DEF Inv, GetInv
<1>7. CASE ParsePayload
  <2>1. Stored \in Seq(Byte) /\ (type # 2 => Len(Stored) = Len(body) + 1)
    BY <1>0 DEF Stored, TypeOK
  <2>2. body' \in Seq(Byte) /\ pos' \in 0..(PosMod - 1)
    <3>1. (pos + 1) % PosMod \in 0..(PosMod - 1) /\ 0 \in 0..(PosMod - 1)
      BY <1>0, RxAssumption DEF TypeOK
    <3>2. pos' \in {0, (pos + 1) % PosMod} /\ body' \in {<<>>, Stored}
      BY <1>7 DEF ParsePayload
    <3>3. Stored \in Seq(Byte) /\ <<>> \in Seq(Byte)
      BY <2>1
    <3> QED
      BY <3>1, <3>2, <3>3
  <2>3. TypeOK'
    BY <1>0, <1>7, <2>2 DEF ParsePayload, TypeOK, rxring
  <2>4. CASE pos = LastPos
    <3>1. pos' = 0 /\ rpc' = "poll"
      BY <1>7, <2>4 DEF ParsePayload
    <3> QED
      BY <2>3, <3>1 DEF Inv, Shape, GetInv
  <2>5. CASE pos # LastPos
    <3>1. /\ pos' = (pos + 1) % PosMod /\ body' = Stored /\ type' = type /\ len' = len
          /\ pos >= 4 /\ Known /\ rpc' = "poll"
      BY <1>7, <2>5 DEF ParsePayload
    <3>2. CASE type = 2
      <4>1. Len(Stored) <= ConfMax /\ Len(Stored) <= pos - 3
        BY <1>0, <3>1, <3>2, RxAssumption DEF Stored, Shape, TypeOK
      <4>2. pos' = pos + 1 \/ pos' = 0
        BY <1>0, <3>1, RxAssumption DEF TypeOK
      <4>3. Shape'
        BY <1>0, <3>1, <3>2, <4>1, <4>2 DEF Shape, Known, TypeOK
      <4> QED
        BY <2>3, <3>1, <4>3 DEF Inv, GetInv
    <3>3. CASE type # 2
      <4>1. pos \in Nat /\ PosMod \in Nat /\ Sector \in Nat /\ PosMod > Sector + 16
        BY <1>0, RxAssumption DEF TypeOK
      <4>2. /\ type \in {1, 11} => LastPos = 4
            /\ type \in {3, 6} => LastPos = 7
            /\ type = 4 => LastPos = 6 + Sector - 1
            /\ type = 5 => LastPos = 5
            /\ type = 9 => LastPos = 12
            /\ type = 10 => LastPos = 4 + 2 + Sector - 1
        BY DEF LastPos
      <4>3. type \in {1, 11} \/ type \in {3, 6} \/ type = 4 \/ type = 5 \/ type = 9 \/ type = 10
        BY <3>1, <3>3 DEF Known
      <4>4. pos < LastPos /\ pos + 1 < PosMod
        BY <1>0, <2>5, <3>1, <4>1, <4>2, <4>3 DEF Shape
      <4>5. pos' = pos + 1
        BY <3>1, <4>1, <4>4
      <4>6. Len(body') = pos' - 4
        BY <1>0, <2>1, <3>1, <3>3, <4>1, <4>5 DEF Shape
      <4>7. Known'
        BY <3>1 DEF Known
      <4>8. Shape'
        BY <3>1, <3>3, <4>1, <4>2, <4>4, <4>5, <4>6, <4>7 DEF Shape
      <4> QED
        BY <2>3, <3>1, <4>8 DEF Inv, GetInv
    <3> QED
      BY <3>2, <3>3
  <2> QED
    BY <2>4, <2>5
<1>8. CASE ParseUnknown
  BY <1>0, <1>8, RxAssumption
     DEF ParseUnknown, Inv, TypeOK, Shape, GetInv, Known, rxring
<1>9. CASE Idle \/ UNCHANGED vars
  BY <1>0, <1>9 DEF Idle, vars, Inv, TypeOK, Shape, GetInv, Known, rxring, parser
<1> QED
  BY <1>1, <1>2, <1>3, <1>4, <1>5, <1>6, <1>7, <1>8, <1>9 DEF Next, TaskStep

(* Every variable keeps its type.                                          *)
THEOREM TypeCorrect == Spec => []TypeOK
<1>1. Inv => TypeOK
  BY DEF Inv
<1> QED
  BY <1>1, InitInv, StepInv, PTL DEF Spec

(* Whatever bytes arrive and are lost, a payload byte is stored within its *)
(* buffer.                                                                 *)
THEOREM InRange == Spec => []WritesInRange
<1>1. Inv => WritesInRange
  <2> SUFFICES ASSUME Inv, rpc = "parse", pos >= 4
               PROVE  WritesInRange
    BY DEF WritesInRange
  <2>1. pos \in Nat /\ Sector \in Nat /\ ConfMax \in Nat /\ Len(body) \in Nat
    BY RxAssumption DEF Inv, TypeOK
  <2>2. Known => type \in {1, 11} \/ type \in {2, 3, 4, 5, 6, 9, 10}
    BY DEF Known
  <2>3. type # 2 => Len(body) <= 2 + Sector + 8
    BY <2>1, <2>2 DEF Inv, Shape
  <2>4. type = 2 => Len(body) <= ConfMax
    BY DEF Inv, Shape
  <2> QED
    BY <2>1, <2>3, <2>4 DEF Inv, Shape, WritesInRange
<1> QED
  BY <1>1, InitInv, StepInv, PTL DEF Spec

-----------------------------------------------------------------------------
(* The bytes in the ring, as a sequence.                                   *)
LEMMA ContentIs ==
  ASSUME TypeOK
  PROVE  /\ Used \in 0..(RingSize - 1)
         /\ Content \in Seq(Byte) /\ Len(Content) = Used
         /\ \A i \in 0..(RingSize - 1) : Slot(i) \in Index
<1>1. Used \in 0..(RingSize - 1)
  BY RxAssumption DEF Used, TypeOK, Index
<1>2. \A i \in 0..(RingSize - 1) : Slot(i) \in Index
  BY RxAssumption DEF Slot, TypeOK, Index
<1>3. \A i \in 1..Used : ring[Slot(i - 1)] \in Byte
  BY <1>1, <1>2, RxAssumption DEF TypeOK
<1> HIDE DEF Used
<1> QED
  BY <1>1, <1>2, <1>3, RxAssumption DEF Content

(* What the ISR adds comes last.                                           *)
LEMMA PutContent ==
  ASSUME TypeOK, NEW b \in Byte, Succ(head) # tail,
         head' = Succ(head), tail' = tail, ring' = [ring EXCEPT ![head] = b]
  PROVE  Content' = Append(Content, b) /\ Used < RingSize - 1
<1>1. Used' = Used + 1 /\ Used < RingSize - 1
  BY SuccIs, RxAssumption DEF Used, TypeOK, Index
<1>2. Slot(Used) = head
  BY RxAssumption DEF Slot, Used, TypeOK, Index
<1>3. \A i \in 0..(Used - 1) : Slot(i) # head
  BY RxAssumption DEF Slot, Used, TypeOK, Index
<1>4. \A i \in 0..(RingSize - 1) : Slot(i)' = Slot(i)
  BY DEF Slot
<1>5. Used \in 0..(RingSize - 1) /\ \A i \in 0..(RingSize - 1) : Slot(i) \in Index
  BY ContentIs
<1>6. ring \in [Index -> Byte]
  BY DEF TypeOK
<1>7. Content' = [i \in 1..(Used + 1) |-> ring'[Slot(i - 1)]]
  <2>1. Content' = [i \in 1..(Used') |-> ring'[Slot(i - 1)']]
    BY DEF Content
  <2> QED
    BY <1>1, <1>4, <1>5, <2>1, RxAssumption
<1> HIDE DEF Used, Slot
<1>8. \A i \in 1..Used : ring'[Slot(i - 1)] = ring[Slot(i - 1)]
  BY <1>3, <1>5, <1>6, RxAssumption
<1>9. ring'[Slot(Used)] = b
  BY <1>2, <1>6 DEF TypeOK
<1>10. Content = [i \in 1..Used |-> ring[Slot(i - 1)]]
  BY DEF Content
<1>11. Content' = Append(Content, b)
  BY <1>5, <1>7, <1>8, <1>9, <1>10
<1> QED
  BY <1>1, <1>11

(* A full ring has no room but for one more.                               *)
LEMMA FullRing == TypeOK /\ Succ(head) = tail => Used = RingSize - 1
  BY SuccIs, RxAssumption DEF Used, TypeOK, Index

(* The byte the task reads is the first.                                   *)
LEMMA HeadContent ==
  ASSUME TypeOK, tail # head
  PROVE  Content # <<>> /\ Head(Content) = ring[tail]
<1>1. Used \in 1..(RingSize - 1) /\ Slot(0) = tail
  BY RxAssumption DEF Used, Slot, TypeOK, Index
<1> HIDE DEF Used, Slot
<1>2. Content = [i \in 1..Used |-> ring[Slot(i - 1)]]
  BY DEF Content
<1> QED
  BY <1>1, <1>2, ContentIs, RxAssumption

(* Releasing its slot drops it.                                            *)
LEMMA TailContent ==
  ASSUME TypeOK, tail # head, tail' = Succ(tail), head' = head, ring' = ring
  PROVE  Content' = Tail(Content)
<1>1. Used' = Used - 1 /\ Used \in 1..(RingSize - 1)
  <2>1. tail \in 0..(RingSize - 1) /\ head \in 0..(RingSize - 1) /\ RingSize \in Nat
    BY RxAssumption DEF TypeOK, Index
  <2>2. tail' = IF tail + 1 = RingSize THEN 0 ELSE tail + 1
    BY SuccIs DEF TypeOK
  <2>3. Used \in 1..(RingSize - 1)
    BY <2>1 DEF Used
  <2>4. CASE tail + 1 = RingSize
    BY <2>1, <2>2, <2>4 DEF Used
  <2>5. CASE tail + 1 # RingSize
    BY <2>1, <2>2, <2>5 DEF Used
  <2> QED
    BY <2>3, <2>4, <2>5
<1>2. \A i \in 0..(RingSize - 2) : Slot(i)' = Slot(i + 1)
  BY SuccIs, RxAssumption DEF Slot, TypeOK, Index
<1>3. Content' = [i \in 1..(Used') |-> ring'[Slot(i - 1)']]
  BY DEF Content
<1>4. Content = [i \in 1..Used |-> ring[Slot(i - 1)]]
  BY DEF Content
<1> HIDE DEF Used, Slot, Content
<1>5. Content' = [i \in 1..(Used - 1) |-> ring[Slot(i)]]
  BY <1>1, <1>2, <1>3, RxAssumption
<1>6. Content \in Seq(Byte) /\ Len(Content) = Used
  BY ContentIs
<1> QED
  BY <1>1, <1>4, <1>5, <1>6

-----------------------------------------------------------------------------
(* "head and tail need no lock as long as each side only writes its own    *)
(* index": the ring is a FIFO, wherever the ISR interrupts u1rx_get.       *)
THEOREM RingIsFifo == Spec => ImplementsFifo
<1>1. Init => Fifo!Init
  <2> SUFFICES ASSUME Init PROVE Fifo!Init
    OBVIOUS
  <2>1. Used = 0
    BY DEF Init, Used
  <2>2. Content = <<>>
    BY <2>1 DEF Content
  <2> QED
    BY <2>2 DEF Init, Fifo!Init, Waiting
<1>2. Inv /\ [Next]_vars => [Fifo!Next]_(Fifo!fvars)
  <2> SUFFICES ASSUME Inv, [Next]_vars PROVE [Fifo!Next]_(Fifo!fvars)
    OBVIOUS
  <2>0. TypeOK /\ GetInv /\ Content \in Seq(Byte) /\ Len(Content) = Used
    BY ContentIs DEF Inv
  <2> DEFINE Same == UNCHANGED <<Waiting, ch, drops>>
  <2>1. Same => UNCHANGED Fifo!fvars
    BY DEF Fifo!fvars
  <2>2. ring' = ring /\ head' = head /\ tail' = tail => Content' = Content
    BY DEF Content, Used, Slot
  <2>3. ASSUME NEW f \in Frames, SendFrame(f) PROVE Same
    BY <2>2, <2>3 DEF SendFrame, Waiting, rxring
  <2>4. CASE IsrByte
    <3>1. Head(wire) \in Byte
      BY <2>0, <2>4 DEF IsrByte, TypeOK
    <3>2. CASE Succ(head) = tail
      <4>1. Used = RingSize - 1
        BY <2>0, <3>2, FullRing
      <4>2. Waiting' = Waiting /\ drops' = drops + 1 /\ ch' = ch
        BY <2>2, <2>4, <3>2 DEF IsrByte, Waiting
      <4>3. Len(Waiting) + 1 >= RingSize - 1
        BY <2>0, <4>1, RxAssumption DEF Waiting
      <4> QED
        BY <4>2, <4>3 DEF Fifo!Next, Fifo!Lose
    <3>3. CASE Succ(head) # tail
      <4> DEFINE b == Head(wire)
      <4>1. /\ head' = Succ(head) /\ tail' = tail /\ ring' = [ring EXCEPT ![head] = b]
            /\ rpc' = rpc /\ ch' = ch /\ drops' = drops
        BY <2>4, <3>3 DEF IsrByte
      <4>2. Content' = Append(Content, b) /\ Used < RingSize - 1
        BY <2>0, <3>1, <3>3, <4>1, PutContent
      <4>3. rpc = "advance" => Content # <<>>
        BY <2>0, HeadContent DEF GetInv
      <4>4. Waiting' = Append(Waiting, b)
        BY <2>0, <3>1, <4>1, <4>2, <4>3 DEF Waiting
      <4>5. Len(Waiting) < RingSize - 1
        BY <2>0, <4>2, <4>3, RxAssumption DEF Waiting
      <4> QED
        BY <3>1, <4>1, <4>4, <4>5 DEF Fifo!Next, Fifo!Put
    <3> QED
      BY <3>2, <3>3
  <2>5. CASE Poll
    BY <2>1, <2>2, <2>5 DEF Poll, Goto, Waiting, rxring
  <2>6. CASE ReadSlot
    <3>1. Content # <<>> /\ Head(Content) = ring[tail]
      BY <2>0, <2>6, HeadContent DEF ReadSlot, Goto, GetInv
    <3>2. Waiting = Content /\ Waiting' = Tail(Content) /\ ch' = ring[tail] /\ drops' = drops
      BY <2>2, <2>6 DEF ReadSlot, Goto, Waiting, rxring
    <3> QED
      BY <3>1, <3>2 DEF Fifo!Next, Fifo!Take
  <2>7. CASE Advance
    <3>1. Content' = Tail(Content)
      BY <2>0, <2>7, TailContent DEF Advance, Goto, GetInv
    <3>2. Same
      BY <2>7, <3>1 DEF Advance, Goto, Waiting
    <3> QED
      BY <2>1, <3>2
  <2>8. CASE ParseHeader \/ ParsePayload \/ ParseUnknown
    BY <2>1, <2>2, <2>8 DEF ParseHeader, ParsePayload, ParseUnknown, Waiting, rxring
  <2>9. CASE Idle \/ UNCHANGED vars
    BY <2>1, <2>2, <2>9 DEF Idle, vars, Waiting, rxring
  <2> QED
    BY <2>1, <2>3, <2>4, <2>5, <2>6, <2>7, <2>8, <2>9 DEF Next, TaskStep
<1> QED
  BY <1>1, <1>2, InitInv, StepInv, PTL DEF Spec, ImplementsFifo, Fifo!Spec

-----------------------------------------------------------------------------
(* The bytes of a frame.                                                   *)
Size(f) == Len(f.data) + 4

(* Those sent and not yet parsed.                                          *)
Coming == (IF rpc = "parse" THEN <<ch>> ELSE <<>>) \o Content \o wire

(* The frame that the parser is in.                                        *)
Current == Len(handled) + 1

(* What is known of f when the parser is at p in it.                       *)
Receiving(f, p, l, t, b) ==
  /\ p < Size(f)
  /\ p = 2 => l = ((Len(f.data) + 1) \div 256) * 256
  /\ p >= 3 => l = Len(f.data) + 1
  /\ p >= 4 =>
       /\ t = f.type
       /\ Len(b) = IF t = 2 /\ p - 4 > ConfMax THEN ConfMax ELSE p - 4
       /\ \A j \in 1..Len(b) : b[j] = f.data[j]

InFrame ==
  /\ Current > Len(sent) => pos = 0
  /\ Current <= Len(sent) => Receiving(sent[Current], pos, len, type, body)

(* begin[i] is where the i-th frame begins in the stream of all bytes.     *)
Begins(begin) ==
  /\ begin \in [1..(Len(sent) + 1) -> Nat]
  /\ \A i, j \in 1..(Len(sent) + 1) :
       /\ i <= j => begin[i] <= begin[j]
       /\ j = i + 1 => begin[j] = begin[i] + Size(sent[i])

(* What is still to come are the frames sent, from the byte that the parser *)
(* expects next.                                                           *)
Streamed(begin, taken) ==
  /\ taken + Len(Coming) = begin[Len(sent) + 1]
  /\ \A i \in 1..Len(sent) : \A k \in 1..Size(sent[i]) :
       begin[i] + k > taken => Coming[begin[i] + k - taken] = OnWire(sent[i])[k]

InStep ==
  \E begin \in [1..(Len(sent) + 1) -> Nat] :
    Begins(begin) /\ Streamed(begin, begin[Current] + pos)

Tracked == drops = 0 => FramesInOrder /\ InFrame /\ InStep

Logs == sent \in Seq(Frames) /\ handled \in Seq([type : Byte, data : Seq(Byte)])

(* A config string of at least two counted bytes ends.                     *)
ConfigEnds == type = 2 /\ len >= 2 /\ pos >= 4 => pos <= len + 2

Synchronised == Inv /\ Logs /\ ConfigEnds /\ Tracked

(* The bytes of a frame on the wire, one by one.                           *)
LEMMA OnWireIs ==
  ASSUME NEW f \in Frames
  PROVE  /\ Size(f) \in Nat /\ Size(f) = Len(f.data) + 4 /\ Len(f.data) \in Nat
         /\ Len(OnWire(f)) = Size(f)
         /\ OnWire(f)[1] = SOF
         /\ OnWire(f)[2] = (Len(f.data) + 1) \div 256
         /\ OnWire(f)[3] = (Len(f.data) + 1) % 256
         /\ OnWire(f)[4] = f.type
         /\ \A k \in 1..Len(f.data) : OnWire(f)[4 + k] = f.data[k]
<1> DEFINE n == Len(f.data) + 1
           h == <<SOF, n \div 256, n % 256, f.type>>
<1>1. n \in Word /\ f.data \in Seq(Byte) /\ f.type \in Byte /\ Len(f.data) \in Nat
  BY FramesAssumption
<1>2. OnWire(f) = h \o f.data
  BY DEF OnWire
<1> HIDE DEF n
<1>3. h \in Seq(Byte)
  <2>1. n \div 256 \in Byte /\ n % 256 \in Byte /\ SOF \in Byte
    BY <1>1, ByteIs DEF Word, SOF
  <2> QED
    BY <1>1, <2>1
<1>4. /\ Len(h) = 4 /\ h[1] = SOF /\ h[2] = n \div 256 /\ h[3] = n % 256 /\ h[4] = f.type
  OBVIOUS
<1> HIDE DEF h
<1>5. /\ Len(h \o f.data) = Len(h) + Len(f.data)
      /\ \A i \in 1..(Len(h) + Len(f.data)) :
           (h \o f.data)[i] = IF i <= Len(h) THEN h[i] ELSE f.data[i - Len(h)]
  BY <1>1, <1>3, ConcatProperties
<1>6. \A k \in 1..Len(f.data) : OnWire(f)[4 + k] = f.data[k]
  BY <1>1, <1>2, <1>4, <1>5
<1>7. /\ OnWire(f)[1] = SOF /\ OnWire(f)[2] = n \div 256 /\ OnWire(f)[3] = n % 256
      /\ OnWire(f)[4] = f.type
  BY <1>1, <1>2, <1>4, <1>5
<1>8. Size(f) \in Nat /\ Size(f) = Len(f.data) + 4 /\ Len(OnWire(f)) = Size(f)
  BY <1>1, <1>2, <1>4, <1>5 DEF Size
<1> QED
  BY <1>1, <1>6, <1>7, <1>8 DEF n

(* A frame has that many bytes.                                            *)
LEMMA SizeIs ==
  ASSUME NEW f \in Frames
  PROVE  /\ Size(f) \in Nat /\ Size(f) = Len(f.data) + 4 /\ Len(f.data) \in Nat
         /\ Len(OnWire(f)) = Size(f)
  BY OnWireIs, Zenon

(* What is known of where the frames begin.                                *)
LEMMA BeginsAre ==
  ASSUME Logs, NEW begin \in [1..(Len(sent) + 1) -> Nat], Begins(begin)
  PROVE  /\ begin[Len(sent) + 1] \in Nat
         /\ \A i \in 1..Len(sent) :
              /\ begin[i] \in Nat /\ begin[i + 1] \in Nat /\ Size(sent[i]) \in Nat
              /\ begin[i + 1] = begin[i] + Size(sent[i])
              /\ begin[i + 1] <= begin[Len(sent) + 1]
         /\ \A i \in 1..(Len(sent) + 1) : begin[i] \in Nat /\ begin[i] <= begin[Len(sent) + 1]
<1>1. Len(sent) \in Nat /\ Len(sent) + 1 \in 1..(Len(sent) + 1)
  BY DEF Logs
<1>2. \A i \in 1..(Len(sent) + 1) : begin[i] \in Nat /\ begin[i] <= begin[Len(sent) + 1]
  BY <1>1 DEF Begins
<1>3. ASSUME NEW i \in 1..Len(sent)
      PROVE  /\ begin[i + 1] = begin[i] + Size(sent[i]) /\ Size(sent[i]) \in Nat
             /\ begin[i] \in Nat /\ begin[i + 1] \in Nat /\ begin[i + 1] <= begin[Len(sent) + 1]
  <2>1. i \in 1..(Len(sent) + 1) /\ i + 1 \in 1..(Len(sent) + 1)
    BY <1>1
  <2>2. begin[i + 1] = begin[i] + Size(sent[i])
    BY <2>1 DEF Begins
  <2>3. sent[i] \in Frames
    BY DEF Logs
  <2> QED
    BY <1>2, <2>1, <2>2, <2>3, SizeIs
<1> QED
  BY <1>1, <1>2, <1>3

(* The byte at the parser comes before those in the ring and on the wire.  *)
LEMMA ComingIs ==
  ASSUME TypeOK
  PROVE  /\ Coming \in Seq(Byte) /\ Content \in Seq(Byte) /\ wire \in Seq(Byte)
         /\ rpc = "parse" => Coming = <<ch>> \o (Content \o wire)
         /\ rpc # "parse" => Coming = Content \o wire
<1>1. Content \in Seq(Byte) /\ wire \in Seq(Byte) /\ <<ch>> \in Seq(Byte)
  BY ContentIs DEF TypeOK
<1>2. Content \o wire \in Seq(Byte)
  BY <1>1
<1>3. Coming = (IF rpc = "parse" THEN <<ch>> ELSE <<>>) \o Content \o wire
  BY DEF Coming
<1>4. CASE rpc = "parse"
  BY <1>1, <1>2, <1>3, <1>4, ConcatAssociative
<1>5. CASE rpc # "parse"
  BY <1>1, <1>2, <1>3, <1>5
<1> QED
  BY <1>1, <1>2, <1>4, <1>5

(* The parser takes the first byte to come.                                *)
LEMMA FirstToCome ==
  ASSUME TypeOK, rpc = "parse"
  PROVE  /\ Len(Coming) \in Nat \ {0} /\ Coming[1] = ch
         /\ Content \o wire = Tail(Coming)
<1>1. ch \in Byte /\ Content \o wire \in Seq(Byte) /\ Coming = <<ch>> \o (Content \o wire)
  BY ComingIs DEF TypeOK
<1> HIDE DEF Coming
<1> DEFINE t == Content \o wire
<1> HIDE DEF t
<1>2. t \in Seq(Byte) /\ Coming = <<ch>> \o t
  BY <1>1 DEF t
<1> QED
  BY <1>1, <1>2 DEF t

(* It belongs to the frame being received.                                 *)
LEMMA NextByte ==
  ASSUME TypeOK, Logs, FramesInOrder, drops = 0, InFrame, InStep, rpc = "parse"
  PROVE  /\ Current \in 1..Len(sent) /\ sent[Current] \in Frames
         /\ pos < Size(sent[Current]) /\ ch = OnWire(sent[Current])[pos + 1]
<1>1. PICK begin \in [1..(Len(sent) + 1) -> Nat] :
        Begins(begin) /\ Streamed(begin, begin[Current] + pos)
  BY DEF InStep
<1>2. Len(sent) \in Nat /\ Len(handled) \in Nat /\ Len(handled) <= Len(sent) /\ pos \in Nat
  BY DEF Logs, FramesInOrder, TypeOK
<1>3. Len(Coming) \in Nat \ {0} /\ Coming[1] = ch
  BY FirstToCome
<1>4. begin[Current] \in Nat /\ begin[Current] + pos + Len(Coming) = begin[Len(sent) + 1]
  BY <1>1, <1>2 DEF Streamed, Current
<1>5. Current <= Len(sent)
  BY <1>2, <1>3, <1>4 DEF InFrame, Current
<1>6. Current \in 1..Len(sent) /\ sent[Current] \in Frames
  BY <1>2, <1>5 DEF Current, Logs
<1>7. pos < Size(sent[Current]) /\ Size(sent[Current]) \in Nat
  BY <1>5, <1>6, SizeIs DEF InFrame, Receiving
<1>8. Coming[begin[Current] + (pos + 1) - (begin[Current] + pos)] = OnWire(sent[Current])[pos + 1]
  <2>1. pos + 1 \in 1..Size(sent[Current]) /\ begin[Current] + (pos + 1) > begin[Current] + pos
    BY <1>2, <1>4, <1>7
  <2> QED
    BY <1>1, <1>6, <2>1 DEF Streamed
<1>9. begin[Current] + (pos + 1) - (begin[Current] + pos) = 1
  BY <1>2, <1>4
<1> QED
  BY <1>3, <1>6, <1>7, <1>8, <1>9

(* Taking it leaves the rest in step.                                      *)
LEMMA StepForth ==
  /\ TypeOK /\ Logs /\ drops = 0 /\ FramesInOrder /\ InFrame /\ InStep /\ rpc = "parse"
  /\ sent' = sent /\ Coming' = Tail(Coming)
  /\ \/ Len(handled') = Len(handled) /\ pos' = pos + 1
     \/ Len(handled') = Len(handled) + 1 /\ pos' = 0 /\ pos + 1 = Size(sent[Current])
  => InStep'
<1>0. SUFFICES ASSUME TypeOK /\ Logs /\ drops = 0 /\ FramesInOrder /\ InFrame /\ InStep,
                      rpc = "parse", sent' = sent, Coming' = Tail(Coming),
                      \/ Len(handled') = Len(handled) /\ pos' = pos + 1
                      \/ /\ Len(handled') = Len(handled) + 1
                         /\ pos' = 0 /\ pos + 1 = Size(sent[Current])
               PROVE  InStep'
  OBVIOUS
<1>1. PICK begin : /\ begin \in [1..(Len(sent) + 1) -> Nat] /\ Begins(begin)
                   /\ Streamed(begin, begin[Current] + pos)
  BY <1>0 DEF InStep
<1>2. /\ Current \in 1..Len(sent) /\ sent[Current] \in Frames /\ Len(sent) \in Nat
      /\ Len(handled) \in Nat /\ pos \in Nat
  BY <1>0, NextByte DEF Logs, TypeOK
<1>3. Coming \in Seq(Byte) /\ Len(Coming) \in Nat \ {0}
  BY <1>0, ComingIs, FirstToCome
<1>4. Len(Coming') = Len(Coming) - 1 /\ \A i \in 1..(Len(Coming) - 1) : Coming'[i] = Coming[i + 1]
  BY <1>0, <1>3
<1>5. begin[Current] \in Nat /\ begin[Current] + pos \in Nat
  BY <1>1, <1>2
<1>6. PICK taken : taken \in Nat /\ taken = begin[Current] + pos
  BY <1>5
<1>7. /\ taken \in Nat /\ Current' \in 1..(Len(sent) + 1)
      /\ begin[Current'] + pos' = taken + 1 /\ begin[Len(sent) + 1] \in Nat
  <2>1. begin[Current + 1] = begin[Current] + Size(sent[Current]) /\ begin[Current] \in Nat
    BY <1>1, <1>2, <1>0, BeginsAre
  <2>2. \/ Current' = Current /\ pos' = pos + 1
        \/ Current' = Current + 1 /\ pos' = 0 /\ pos + 1 = Size(sent[Current])
    BY <1>2, <1>0 DEF Current
  <2>3. Size(sent[Current]) \in Nat /\ begin[Len(sent) + 1] \in Nat
    BY <1>1, <1>2, <1>0, BeginsAre
  <2>4. taken + 1 = begin[Current] + (pos + 1)
    BY <1>2, <1>6, <2>1
  <2>5. CASE Current' = Current /\ pos' = pos + 1
    BY <1>2, <1>6, <2>3, <2>4, <2>5
  <2>6. CASE Current' = Current + 1 /\ pos' = 0 /\ pos + 1 = Size(sent[Current])
    BY <1>2, <1>6, <2>1, <2>3, <2>4, <2>6
  <2> QED
    BY <2>2, <2>5, <2>6
<1>8. /\ taken + Len(Coming) = begin[Len(sent) + 1]
      /\ \A i \in 1..Len(sent) : \A k \in 1..Size(sent[i]) :
           begin[i] + k > taken => Coming[begin[i] + k - taken] = OnWire(sent[i])[k]
  BY <1>1, <1>6 DEF Streamed
<1>9. \A i \in 1..Len(sent) : \A k \in 1..Size(sent[i]) :
        begin[i] + k > taken + 1 => Coming'[begin[i] + k - (taken + 1)] = OnWire(sent[i])[k]
  <2>0. SUFFICES ASSUME NEW i, NEW k, i \in 1..Len(sent), k \in 1..Size(sent[i]),
                        begin[i] + k > taken + 1
                 PROVE  Coming'[begin[i] + k - (taken + 1)] = OnWire(sent[i])[k]
    OBVIOUS
  <2>1. /\ begin[i] \in Nat /\ begin[i + 1] \in Nat /\ begin[Len(sent) + 1] \in Nat
        /\ begin[i + 1] = begin[i] + Size(sent[i])
        /\ begin[i + 1] <= begin[Len(sent) + 1]
    BY <1>1, <1>0, <2>0, BeginsAre
  <2>2. Size(sent[i]) \in Nat /\ k \in Nat /\ 1 <= k /\ k <= Size(sent[i])
    BY <1>1, <1>0, <2>0, BeginsAre
  <2>3. begin[i] + k - (taken + 1) \in 1..(Len(Coming) - 1)
    <3>1. begin[i] + k <= taken + Len(Coming)
      BY <1>8, <2>1, <2>2
    <3>2. begin[i] \in Nat /\ k \in Nat /\ taken \in Nat /\ Len(Coming) \in Nat
      BY <1>3, <1>7, <2>1, <2>2
    <3> QED
      BY <2>0, <3>1, <3>2
  <2>4. Coming[begin[i] + k - taken] = OnWire(sent[i])[k]
    BY <1>7, <1>8, <2>0, <2>1, <2>2
  <2>5. Coming'[begin[i] + k - (taken + 1)] = Coming[begin[i] + k - (taken + 1) + 1]
    BY <1>4, <2>3
  <2>6. begin[i] + k - (taken + 1) + 1 = begin[i] + k - taken
    BY <1>7, <2>1, <2>2
  <2> QED
    BY <2>4, <2>5, <2>6
<1>10. taken + 1 + Len(Coming') = begin[Len(sent) + 1]
  BY <1>3, <1>4, <1>7, <1>8
<1>11. Begins(begin)'
  BY <1>1, <1>0 DEF Begins, Size
<1>12. Streamed(begin, taken + 1)'
  BY <1>9, <1>10, <1>0 DEF Streamed
<1> QED
  BY <1>1, <1>7, <1>11, <1>12, <1>0 DEF InStep

(* A frame sent comes after what is still to come.                         *)
LEMMA MoreToCome ==
  ASSUME NEW f
  PROVE  /\ TypeOK /\ Logs /\ drops = 0 /\ FramesInOrder /\ InStep /\ f \in Frames
         /\ sent' = Append(sent, f) /\ Coming' = Coming \o OnWire(f)
         /\ pos' = pos /\ handled' = handled
         => InStep'
<1>0. SUFFICES ASSUME TypeOK /\ Logs /\ drops = 0 /\ FramesInOrder /\ InStep /\ f \in Frames,
                      sent' = Append(sent, f), Coming' = Coming \o OnWire(f),
                      pos' = pos /\ handled' = handled
               PROVE  InStep'
  OBVIOUS
<1>1. PICK begin : /\ begin \in [1..(Len(sent) + 1) -> Nat] /\ Begins(begin)
                   /\ Streamed(begin, begin[Current] + pos)
  BY <1>0 DEF InStep
<1>2. Len(sent) \in Nat /\ Len(handled) \in Nat /\ Current \in 1..(Len(sent) + 1) /\ pos \in Nat
  BY <1>0 DEF Logs, FramesInOrder, Current, TypeOK
<1>3. /\ Len(sent') = Len(sent) + 1 /\ sent'[Len(sent) + 1] = f
      /\ \A i \in 1..Len(sent) : sent'[i] = sent[i] /\ sent[i] \in Frames
  BY <1>0 DEF Logs
<1>4. /\ Coming \in Seq(Byte) /\ OnWire(f) \in Seq(Byte) /\ Len(OnWire(f)) = Size(f)
      /\ Size(f) \in Nat /\ Len(Coming) \in Nat
  <2>1. Coming \in Seq(Byte)
    BY <1>0, ComingIs
  <2> HIDE DEF Coming
  <2> QED
    BY <1>0, <2>1, OnWireType, SizeIs
<1>5. /\ Len(Coming') = Len(Coming) + Size(f)
      /\ \A i \in 1..Len(Coming) : Coming'[i] = Coming[i]
      /\ \A i \in 1..Size(f) : Coming'[Len(Coming) + i] = OnWire(f)[i]
  <2>1. \A i \in 1..(Len(Coming) + Size(f)) :
          Coming'[i] = IF i <= Len(Coming) THEN Coming[i] ELSE OnWire(f)[i - Len(Coming)]
    BY <1>4, <1>0, ConcatProperties
  <2>2. Len(Coming') = Len(Coming) + Size(f)
    BY <1>4, <1>0, ConcatProperties
  <2>3. \A i \in 1..Len(Coming) : Coming'[i] = Coming[i]
    BY <1>4, <2>1
  <2>4. \A i \in 1..Size(f) : Coming'[Len(Coming) + i] = OnWire(f)[i]
    BY <1>4, <2>1
  <2> QED
    BY <2>2, <2>3, <2>4
<1>6. begin[Current] \in Nat /\ begin[Current] + pos \in Nat /\ begin[Len(sent) + 1] \in Nat
  BY <1>1, <1>2
<1>7. PICK taken : taken \in Nat /\ taken = begin[Current] + pos
  BY <1>6
<1>8. PICK end : end \in Nat /\ end = begin[Len(sent) + 1]
  BY <1>6
<1>9. taken + Len(Coming) = end
  BY <1>1, <1>7, <1>8 DEF Streamed
<1>10. PICK next :
        /\ next \in [1..(Len(sent) + 2) -> Nat]
        /\ \A i \in 1..(Len(sent) + 1) : next[i] = begin[i]
        /\ next[Len(sent) + 2] = end + Size(f)
  <2> DEFINE g == [i \in 1..(Len(sent) + 2) |->
                     IF i = Len(sent) + 2 THEN end + Size(f) ELSE begin[i]]
  <2>1. \A i \in 1..(Len(sent) + 2) : i # Len(sent) + 2 => i \in 1..(Len(sent) + 1)
    BY <1>2
  <2>2. g \in [1..(Len(sent) + 2) -> Nat]
    BY <1>1, <1>4, <1>8, <2>1
  <2>3. \A i \in 1..(Len(sent) + 1) : i \in 1..(Len(sent) + 2) /\ i # Len(sent) + 2
    BY <1>2
  <2>4. Len(sent) + 2 \in 1..(Len(sent) + 2)
    BY <1>2
  <2>5. (\A i \in 1..(Len(sent) + 1) : g[i] = begin[i]) /\ g[Len(sent) + 2] = end + Size(f)
    BY <2>3, <2>4
  <2> HIDE DEF g
  <2> QED
    BY <2>2, <2>5
<1>11. Begins(next)'
  <2>1. \A i \in 1..(Len(sent) + 1) : next[i + 1] = next[i] + Size(sent'[i])
    <3>0. SUFFICES ASSUME NEW i, i \in 1..(Len(sent) + 1)
                   PROVE  next[i + 1] = next[i] + Size(sent'[i])
      OBVIOUS
    <3>1. CASE i = Len(sent) + 1
      <4>1. next[i] = end /\ next[i + 1] = end + Size(f) /\ sent'[i] = f
        BY <1>2, <1>3, <1>10, <1>8, <3>0, <3>1
      <4> QED
        BY <4>1
    <3>2. CASE i # Len(sent) + 1
      <4>1. i \in 1..Len(sent) /\ i + 1 \in 1..(Len(sent) + 1)
        BY <1>2, <3>0, <3>2
      <4>2. begin[i + 1] = begin[i] + Size(sent[i])
        BY <1>1, <1>0, <4>1, BeginsAre
      <4> QED
        BY <1>3, <1>10, <4>1, <4>2
    <3> QED
      BY <3>1, <3>2
  <2>2. \A i, j \in 1..(Len(sent) + 2) : i <= j => next[i] <= next[j]
    <3>0. SUFFICES ASSUME NEW i, NEW j, i \in 1..(Len(sent) + 2), j \in 1..(Len(sent) + 2), i <= j
                 PROVE  next[i] <= next[j]
      OBVIOUS
    <3>1. \A k, l \in 1..(Len(sent) + 1) : k <= l => begin[k] <= begin[l]
      BY <1>1 DEF Begins
    <3>2. \A k \in 1..(Len(sent) + 1) : begin[k] <= end /\ begin[k] \in Nat
      BY <1>1, <1>0, <1>8, BeginsAre
    <3>3. CASE j = Len(sent) + 2
      <4>1. next[j] = end + Size(f)
        BY <1>10, <3>3
      <4>2. CASE i = Len(sent) + 2
        BY <1>4, <1>8, <3>3, <4>1, <4>2
      <4>3. CASE i \in 1..(Len(sent) + 1)
        BY <1>4, <1>8, <1>10, <3>2, <4>1, <4>3
      <4> QED
        BY <1>2, <3>0, <4>2, <4>3
    <3>4. CASE j # Len(sent) + 2
      <4>1. i \in 1..(Len(sent) + 1) /\ j \in 1..(Len(sent) + 1)
        BY <1>2, <3>0, <3>4
      <4> QED
        BY <1>10, <3>0, <3>1, <4>1
    <3> QED
      BY <3>3, <3>4
  <2>3. Len(sent') = Len(sent) + 1 /\ Len(sent') + 1 = Len(sent) + 2
    BY <1>2, <1>3
  <2>4. \A i : Size(i)' = Size(i)
    BY DEF Size
  <2> QED
    BY <1>10, <2>1, <2>2, <2>3, <2>4 DEF Begins
<1>12. Streamed(next, taken)' /\ next[Current'] + pos' = taken
  <2>1. next[Current'] + pos' = taken
    BY <1>2, <1>10, <1>0, <1>7 DEF Current
  <2>2. taken + Len(Coming') = next[Len(sent') + 1]
    <3>1. Len(sent') + 1 = Len(sent) + 2
      BY <1>2, <1>3
    <3>2. taken + (Len(Coming) + Size(f)) = end + Size(f)
      BY <1>4, <1>9, <1>7, <1>8
    <3> QED
      BY <1>5, <1>10, <3>1, <3>2
  <2>3. ASSUME NEW i, NEW k, i \in 1..(Len(sent) + 1), k \in 1..Size(sent'[i]), next[i] + k > taken
        PROVE  Coming'[next[i] + k - taken] = OnWire(sent'[i])[k]
    <3>1. CASE i = Len(sent) + 1
      <4>1. next[i] = end /\ k \in 1..Size(f)
        BY <1>2, <1>3, <1>10, <1>8, <2>3, <3>1
      <4>2. next[i] + k - taken = Len(Coming) + k
        BY <1>4, <1>9, <1>7, <1>8, <4>1
      <4> QED
        BY <1>3, <1>5, <3>1, <4>1, <4>2
    <3>2. CASE i # Len(sent) + 1
      <4>1. /\ i \in 1..Len(sent) /\ sent'[i] = sent[i] /\ next[i] = begin[i]
            /\ Size(sent[i]) \in Nat /\ k \in 1..Size(sent[i])
        BY <1>1, <1>2, <1>3, <1>10, <1>0, <2>3, <3>2, BeginsAre
      <4>2. /\ begin[i] \in Nat /\ begin[i + 1] \in Nat /\ begin[i + 1] <= end
            /\ begin[i + 1] = begin[i] + Size(sent[i])
        BY <1>1, <1>0, <1>8, <4>1, BeginsAre
      <4>3. begin[i] + k - taken \in 1..Len(Coming)
        <5>1. begin[i] + k <= taken + Len(Coming)
          BY <1>9, <1>8, <4>1, <4>2
        <5>2. begin[i] \in Nat /\ k \in Nat /\ taken \in Nat /\ Len(Coming) \in Nat
          BY <1>4, <1>7, <4>1, <4>2
        <5>3. begin[i] + k > taken
          BY <2>3, <4>1
        <5> QED
          BY <5>1, <5>2, <5>3
      <4>4. Coming[begin[i] + k - taken] = OnWire(sent[i])[k]
        BY <1>1, <1>7, <2>3, <4>1 DEF Streamed
      <4> QED
        BY <1>5, <4>1, <4>3, <4>4
    <3> QED
      BY <3>1, <3>2
  <2>4. Len(sent') = Len(sent) + 1 /\ (\A i : Size(i)' = Size(i)) /\ (\A i : OnWire(i)' = OnWire(i))
    BY <1>3 DEF Size, OnWire
  <2> QED
    BY <2>1, <2>2, <2>3, <2>4 DEF Streamed
<1>13. next \in [1..(Len(sent') + 1) -> Nat]
  BY <1>2, <1>3, <1>10
<1> QED
  BY <1>11, <1>12, <1>13, <1>10 DEF InStep

-----------------------------------------------------------------------------
(* Before the first byte all is in step.                                   *)
LEMMA InitSynchronised == Init => Synchronised
<1>0. SUFFICES ASSUME Init PROVE Synchronised
  OBVIOUS
<1>1. Inv
  BY <1>0, InitInv
<1>2. Logs /\ ConfigEnds /\ FramesInOrder /\ InFrame
  BY <1>0 DEF Init, Logs, ConfigEnds, FramesInOrder, InFrame, Current
<1>3. Len(Coming) = 0
  <2>1. Used = 0
    BY <1>0 DEF Init, Used
  <2>2. Content = <<>>
    BY <2>1 DEF Content
  <2> QED
    BY <1>0, <2>2 DEF Init, Coming
<1>4. PICK begin : begin = [i \in 1..1 |-> 0]
  OBVIOUS
<1>5. Len(sent) = 0 /\ Len(handled) = 0 /\ pos = 0
  BY <1>0 DEF Init
<1>6. begin \in [1..(Len(sent) + 1) -> Nat] /\ Current = 1 /\ begin[1] = 0
  BY <1>4, <1>5 DEF Current
<1>7. Begins(begin)
  BY <1>4, <1>5, <1>6 DEF Begins
<1>8. Streamed(begin, begin[Current] + pos)
  BY <1>3, <1>5, <1>6 DEF Streamed
<1> QED
  BY <1>1, <1>2, <1>6, <1>7, <1>8 DEF Synchronised, Tracked, InStep

(* A step that moves a byte, or none, nearer to the parser.                *)
LEMMA Still ==
  /\ Logs /\ Tracked
  /\ UNCHANGED parser /\ sent' = sent
  /\ drops' = 0 => drops = 0 /\ Coming' = Coming
  => Logs' /\ Tracked'
<1>0. SUFFICES ASSUME Logs, Tracked, UNCHANGED parser, sent' = sent,
                      drops' = 0 => drops = 0 /\ Coming' = Coming
               PROVE  Logs' /\ Tracked'
  OBVIOUS
<1>1. UNCHANGED <<pos, type, len, body, handled, sent>>
  BY <1>0 DEF parser
<1>2. Logs'
  BY <1>0, <1>1 DEF Logs
<1>3. ASSUME drops' = 0 PROVE FramesInOrder' /\ InFrame' /\ InStep'
  <2>1. drops = 0 /\ Coming' = Coming /\ FramesInOrder /\ InFrame /\ InStep
    BY <1>0, <1>3 DEF Tracked
  <2>2. FramesInOrder'
    BY <1>1, <1>3, <2>1 DEF FramesInOrder
  <2>3. InFrame'
    BY <1>1, <2>1 DEF InFrame, Current
  <2>4. InStep'
    <3>1. PICK begin : /\ begin \in [1..(Len(sent) + 1) -> Nat] /\ Begins(begin)
                       /\ Streamed(begin, begin[Current] + pos)
      BY <2>1 DEF InStep
    <3>2. Begins(begin)'
      BY <1>1, <3>1 DEF Begins
    <3>3. Streamed(begin, begin[Current] + pos)'
      BY <1>1, <2>1, <3>1 DEF Streamed, Current
    <3> QED
      BY <1>1, <3>1, <3>2, <3>3 DEF InStep
  <2> QED
    BY <2>2, <2>3, <2>4
<1> QED
  BY <1>2, <1>3 DEF Tracked

(* The FPGA sends a frame.                                                 *)
LEMMA SendStep ==
  ASSUME NEW f \in Frames
  PROVE  Synchronised /\ SendFrame(f) => Logs' /\ Tracked'
<1>0. SUFFICES ASSUME Synchronised, SendFrame(f) PROVE Logs' /\ Tracked'
  OBVIOUS
<1>1. TypeOK /\ Logs /\ Tracked
  BY <1>0 DEF Synchronised, Inv
<1>2. /\ wire = <<>> /\ sent' = Append(sent, f) /\ wire' = OnWire(f) /\ rpc' = rpc
      /\ UNCHANGED <<ring, head, tail, drops, ch, pos, type, len, body, handled>>
  BY <1>0 DEF SendFrame, rxring, parser
<1>3. Logs'
  BY <1>1, <1>2 DEF Logs
<1>4. ASSUME drops' = 0 PROVE FramesInOrder' /\ InFrame' /\ InStep'
  <2>1. drops = 0 /\ FramesInOrder /\ InFrame /\ InStep
    BY <1>1, <1>2, <1>4 DEF Tracked
  <2>2. /\ Len(sent) \in Nat /\ Len(handled) \in Nat /\ Len(sent') = Len(sent) + 1
        /\ sent'[Len(sent) + 1] = f /\ \A i \in 1..Len(sent) : sent'[i] = sent[i]
    BY <1>1, <1>2 DEF Logs
  <2>3. FramesInOrder'
    BY <1>2, <2>1, <2>2 DEF FramesInOrder
  <2>4. InFrame'
    <3>1. Current \in Nat \ {0} /\ Current' = Current /\ Current <= Len(sent) + 1
      BY <1>2, <2>1, <2>2 DEF Current, FramesInOrder
    <3>2. CASE Current <= Len(sent)
      <4>1. sent'[Current'] = sent[Current] /\ Current' <= Len(sent')
        BY <2>2, <3>1, <3>2
      <4> QED
        BY <1>2, <2>1, <2>2, <3>1, <3>2, <4>1 DEF InFrame
    <3>3. CASE Current = Len(sent) + 1
      <4>1. pos' = 0 /\ sent'[Current'] = f /\ Current' <= Len(sent')
        BY <1>2, <2>1, <2>2, <3>1, <3>3 DEF InFrame
      <4>2. Size(f) \in Nat /\ Size(f) > 0
        BY SizeIs
      <4> QED
        BY <2>2, <3>1, <4>1, <4>2 DEF InFrame, Receiving
    <3> QED
      BY <2>2, <3>1, <3>2, <3>3
  <2>5. Coming' = Coming \o OnWire(f)
    <3> DEFINE c == (IF rpc = "parse" THEN <<ch>> ELSE <<>>) \o Content
    <3>1. Content' = Content
      BY <1>2 DEF Content, Used, Slot
    <3>2. Coming = c \o wire /\ Coming' = c \o OnWire(f)
      BY <1>2, <3>1 DEF Coming
    <3>3. c \in Seq(Byte)
      <4>1. Content \in Seq(Byte) /\ ch \in Byte
        BY <1>1, ContentIs DEF TypeOK
      <4> HIDE DEF Content
      <4> QED
        BY <4>1
    <3> HIDE DEF c
    <3>4. c \o wire = c
      BY <1>2, <3>3
    <3> QED
      BY <3>2, <3>4
  <2>6. InStep'
    BY <1>1, <1>2, <2>1, <2>5, MoreToCome
  <2> QED
    BY <2>3, <2>4, <2>6
<1> QED
  BY <1>3, <1>4 DEF Tracked

(* A byte moved from the front of w to the end of c.                       *)
LEMMA AppendThenConcat ==
  ASSUME NEW q \in Seq(Byte), NEW c \in Seq(Byte), NEW w \in Seq(Byte), NEW b \in Byte
  PROVE  q \o Append(c, b) \o w = q \o c \o (<<b>> \o w)
<1>1. Append(c, b) = c \o <<b>> /\ <<b>> \in Seq(Byte) /\ q \o c \in Seq(Byte)
  OBVIOUS
<1>2. q \o (c \o <<b>>) = (q \o c) \o <<b>>
  BY <1>1, ConcatAssociative
<1>3. ((q \o c) \o <<b>>) \o w = (q \o c) \o (<<b>> \o w)
  BY <1>1, ConcatAssociative
<1> QED
  BY <1>1, <1>2, <1>3

(* A byte goes from the wire to the ring, or from the ring to the parser.  *)
LEMMA MoveStep ==
  Synchronised /\ (IsrByte \/ Poll \/ ReadSlot \/ Advance) => Logs' /\ Tracked'
<1>0. SUFFICES ASSUME Synchronised, IsrByte \/ Poll \/ ReadSlot \/ Advance PROVE Logs' /\ Tracked'
  OBVIOUS
<1>1. TypeOK /\ GetInv /\ Logs /\ Tracked /\ Content \in Seq(Byte) /\ wire \in Seq(Byte)
  BY <1>0, ContentIs DEF Synchronised, Inv, TypeOK
<1>2. UNCHANGED parser /\ sent' = sent
  BY <1>0 DEF IsrByte, Poll, ReadSlot, Advance
<1>3. ring' = ring /\ head' = head /\ tail' = tail => Content' = Content
  BY DEF Content, Used, Slot
<1>4. CASE IsrByte
  <2>1. ASSUME drops' = 0 PROVE drops = 0 /\ Coming' = Coming
    <3>1. drops \in Nat
      BY <1>1 DEF TypeOK
    <3>2. Succ(head) # tail
      BY <1>4, <2>1, <3>1 DEF IsrByte
    <3> DEFINE b == Head(wire)
    <3>3. /\ head' = Succ(head) /\ tail' = tail /\ ring' = [ring EXCEPT ![head] = b]
          /\ rpc' = rpc /\ ch' = ch /\ drops' = drops /\ wire # <<>> /\ wire' = Tail(wire)
      BY <1>4, <3>2 DEF IsrByte
    <3>4. b \in Byte /\ Tail(wire) \in Seq(Byte) /\ wire = <<b>> \o Tail(wire)
      BY <1>1, <3>3
    <3>5. Content' = Append(Content, b)
      BY <1>1, <3>2, <3>3, <3>4, PutContent
    <3>6. Coming' = Coming
      <4> DEFINE p == IF rpc = "parse" THEN <<ch>> ELSE <<>>
      <4>1. Coming' = p \o Append(Content, b) \o Tail(wire) /\ Coming = p \o Content \o wire
        BY <3>3, <3>5 DEF Coming
      <4>2. p \in Seq(Byte)
        BY <1>1 DEF TypeOK
      <4> HIDE DEF p, b, Content
      <4>3. p \o Append(Content, b) \o Tail(wire) = p \o Content \o (<<b>> \o Tail(wire))
        BY <1>1, <3>4, <4>2, AppendThenConcat
      <4> QED
        BY <3>4, <4>1, <4>3
    <3> QED
      BY <2>1, <3>3, <3>6
  <2> QED
    BY <1>1, <1>2, <2>1, Still
<1>5. CASE Poll \/ ReadSlot
  <2>1. drops' = drops /\ Coming' = Coming
    BY <1>3, <1>5 DEF Poll, ReadSlot, Goto, rxring, Coming
  <2> QED
    BY <1>1, <1>2, <2>1, Still
<1>6. CASE Advance
  <2>1. /\ rpc = "advance" /\ rpc' = "parse" /\ tail' = Succ(tail) /\ ch' = ch
        /\ ring' = ring /\ head' = head /\ drops' = drops /\ wire' = wire
    BY <1>6 DEF Advance, Goto
  <2>2. tail # head /\ ch = ring[tail]
    BY <1>1, <2>1 DEF GetInv
  <2>3. Content # <<>> /\ Head(Content) = ch /\ Content' = Tail(Content)
    BY <1>1, <2>1, <2>2, HeadContent, TailContent
  <2>4. Coming = <<>> \o Content \o wire /\ Coming' = <<ch>> \o Tail(Content) \o wire
    BY <2>1, <2>3 DEF Coming
  <2> HIDE DEF Content
  <2>5. <<>> \o Content = Content /\ <<ch>> \o Tail(Content) = Content
    BY <1>1, <2>3
  <2>6. Coming' = Coming
    BY <2>4, <2>5
  <2> QED
    BY <1>1, <1>2, <2>1, <2>6, Still
<1> QED
  BY <1>0, <1>4, <1>5, <1>6


(* What the parser knows of the frame it takes a byte of.                  *)
LEMMA Taken ==
  ASSUME Synchronised, drops = 0, rpc = "parse"
  PROVE  /\ TypeOK /\ Logs /\ FramesInOrder /\ InFrame /\ InStep /\ pos \in Nat
         /\ Current \in 1..Len(sent) /\ sent[Current] \in Frames /\ Len(handled) \in Nat
         /\ pos < Size(sent[Current]) /\ ch = OnWire(sent[Current])[pos + 1]
  BY NextByte DEF Synchronised, Tracked, Inv, Logs, TypeOK

(* The parser has done with the byte.                                      *)
LEMMA AfterParse ==
  ASSUME TypeOK, rpc = "parse", rpc' = "poll", UNCHANGED <<rxring, wire>>
  PROVE  Coming' = Tail(Coming)
<1>1. Content' = Content /\ wire' = wire
  BY DEF Content, Used, Slot, rxring
<1>2. Coming' = <<>> \o Content \o wire
  BY <1>1 DEF Coming
<1>3. Content \in Seq(Byte) /\ wire \in Seq(Byte) /\ Content \o wire = Tail(Coming)
  BY ComingIs, FirstToCome
<1> HIDE DEF Content, Coming
<1> QED
  BY <1>2, <1>3

(* A frame of the expected length ends where the parser looks for its end. *)
LEMMA ExpectedIs ==
  ASSUME NEW t, NEW n, n \in Nat, Expected(t, n)
  PROVE  n > 0 /\ n + 3 < PosMod
<1>1. Sector \in Nat /\ PosMod \in Nat /\ PosMod > Sector + 16
  BY RxAssumption
<1>2. CASE t = 2 /\ n > 0 /\ n + 4 <= PosMod
  BY <1>1, <1>2
<1>3. CASE n \in {1, 2, 4, 9}
  BY <1>1, <1>3
<1>4. CASE n = 2 + Sector
  BY <1>1, <1>4
<1> QED
  BY <1>2, <1>3, <1>4 DEF Expected

(* ... and it is of a known type.                                           *)
LEMMA EndsAsExpected ==
  ASSUME NEW n, n \in Nat, Expected(type, n), len = n + 1
  PROVE  Known /\ LastPos = n + 3
<1>1. Sector \in Nat
  BY RxAssumption
<1>2. CASE type \in {1, 11} /\ n = 1
  BY <1>2 DEF Known, LastPos
<1>3. CASE type = 2
  BY <1>3 DEF Known, LastPos
<1>4. CASE type \in {3, 6} /\ n = 4
  BY <1>4 DEF Known, LastPos
<1>5. CASE type = 4 /\ n = 2 + Sector
  BY <1>1, <1>5 DEF Known, LastPos
<1>6. CASE type = 10 /\ n = 2 + Sector
  BY <1>1, <1>6 DEF Known, LastPos
<1>7. CASE type = 5 /\ n = 2
  BY <1>7 DEF Known, LastPos
<1>8. CASE type = 9 /\ n = 9
  BY <1>8 DEF Known, LastPos
<1> QED
  BY <1>2, <1>3, <1>4, <1>5, <1>6, <1>7, <1>8 DEF Expected

(* The parser takes one of the first four bytes of a frame.                *)
LEMMA HeaderStep ==
  Synchronised /\ ParseHeader => Logs' /\ Tracked'
<1>0. SUFFICES ASSUME Synchronised, ParseHeader PROVE Logs' /\ Tracked'
  OBVIOUS
<1>1. /\ rpc = "parse" /\ pos < 4 /\ rpc' = "poll" /\ UNCHANGED <<rxring, wire>>
      /\ ch' = ch /\ handled' = handled /\ sent' = sent /\ drops' = drops
  BY <1>0 DEF ParseHeader, rxring
<1>2. Logs'
  BY <1>0, <1>1 DEF Synchronised, Logs
<1>3. ASSUME drops = 0 PROVE FramesInOrder' /\ InFrame' /\ InStep'
  <2>1. /\ TypeOK /\ Logs /\ FramesInOrder /\ InFrame /\ InStep /\ pos \in Nat
        /\ Current \in 1..Len(sent) /\ sent[Current] \in Frames /\ Len(handled) \in Nat
        /\ pos < Size(sent[Current]) /\ ch = OnWire(sent[Current])[pos + 1]
    BY <1>0, <1>1, <1>3, Taken
  <2>2. PICK f : f = sent[Current] /\ f \in Frames
    BY <2>1
  <2>3. /\ OnWire(f)[1] = SOF /\ OnWire(f)[2] = (Len(f.data) + 1) \div 256
        /\ OnWire(f)[3] = (Len(f.data) + 1) % 256 /\ OnWire(f)[4] = f.type
    BY <2>2, OnWireIs
  <2>4. Size(f) = Len(f.data) + 4 /\ Len(f.data) \in Nat \ {0}
    <3>1. Len(f.data) \in Nat /\ Expected(f.type, Len(f.data))
      BY <2>2, SizeIs, ProtocolAssumption
    <3>2. PICK n : n = Len(f.data) /\ n \in Nat /\ Expected(f.type, n)
      BY <3>1
    <3>3. n > 0
      BY <3>2, ExpectedIs
    <3> QED
      BY <2>2, <3>2, <3>3, SizeIs
  <2>5. pos' = pos + 1
    <3>1. CASE pos = 0
      BY <1>0, <2>1, <2>2, <2>3, <3>1 DEF ParseHeader
    <3> QED
      BY <1>0, <3>1 DEF ParseHeader
  <2>6. pos' < Size(f)
    BY <1>1, <2>1, <2>4, <2>5
  <2>7. pos' = 2 => len' = ((Len(f.data) + 1) \div 256) * 256
    <3>0. SUFFICES ASSUME pos = 1 PROVE len' = ((Len(f.data) + 1) \div 256) * 256
      <4>1. pos' = 2 => pos = 1
        BY <2>1, <2>5
      <4> QED
        BY <4>1
    <3>1. len' = ch * 256 /\ ch = OnWire(f)[2]
      BY <1>0, <2>1, <2>2, <3>0 DEF ParseHeader
    <3> QED
      BY <2>3, <3>1
  <2>8. Receiving(f, pos, len, type, body)
    BY <2>1, <2>2 DEF InFrame
  <2>9. pos' = 3 => len' = Len(f.data) + 1
    <3>0. SUFFICES ASSUME pos = 2 PROVE len' = Len(f.data) + 1
      BY <2>1, <2>5
    <3>1. PICK n : n = Len(f.data) + 1 /\ n \in Nat /\ n < 65536
      BY <2>2, FramesAssumption DEF Word
    <3>2. len = (n \div 256) * 256 /\ ch = n % 256
      <4>1. ch = OnWire(f)[3]
        BY <2>1, <2>2, <3>0
      <4> QED
        BY <2>3, <2>8, <3>0, <3>1, <4>1 DEF Receiving
    <3>3. len' = (len + ch) % 65536
      BY <1>0, <3>0 DEF ParseHeader
    <3>4. len' = n
      <4>1. (n \div 256) * 256 + (n % 256) = n
        <5>1. n \in Nat
          BY <3>1
        <5> QED
          BY <5>1
      <4>2. n % 65536 = n
        <5>1. n \in Nat /\ n < 65536
          BY <3>1
        <5> QED
          BY <5>1
      <4>3. len + ch = n
        BY <3>2, <4>1
      <4> QED
        BY <3>3, <4>3, <4>2
    <3> QED
      BY <3>1, <3>4
  <2>10. pos' = 4 => len' = Len(f.data) + 1 /\ type' = f.type /\ body' = <<>>
    <3>0. SUFFICES ASSUME pos = 3 PROVE len' = Len(f.data) + 1 /\ type' = f.type /\ body' = <<>>
      BY <2>1, <2>5
    <3>1. len' = len /\ type' = ch /\ body' = <<>> /\ ch = OnWire(f)[4]
      BY <1>0, <2>1, <2>2, <3>0 DEF ParseHeader
    <3> QED
      BY <2>3, <2>8, <3>0, <3>1 DEF Receiving
  <2>11. PICK p, l, t, b : p = pos' /\ l = len' /\ t = type' /\ b = body'
    OBVIOUS
  <2>12. InFrame'
    <3>1. Current' = Current /\ sent'[Current'] = f /\ Current' <= Len(sent')
      BY <1>1, <2>1, <2>2 DEF Current
    <3>2. p \in 1..4 /\ ConfMax \in Nat
      BY <1>1, <2>1, <2>5, <2>11, RxAssumption
    <3>3. Receiving(f, p, l, t, b)
      <4>1. p = 2 => l = ((Len(f.data) + 1) \div 256) * 256
        BY <2>7, <2>11
      <4>2. p >= 3 => p \in {3, 4}
        BY <3>2
      <4>3. p >= 3 => l = Len(f.data) + 1
        BY <2>9, <2>10, <2>11, <4>2
      <4>4. p >= 4 => p = 4 /\ p - 4 = 0 /\ t = f.type /\ b = <<>>
        BY <2>10, <2>11, <3>2
      <4>5. p < Size(f)
        BY <2>6, <2>11
      <4>6. ASSUME p >= 4
            PROVE  /\ Len(b) = IF t = 2 /\ p - 4 > ConfMax THEN ConfMax ELSE p - 4
                   /\ \A j \in 1..Len(b) : b[j] = f.data[j]
        <5>1. Len(b) = 0 /\ 1..Len(b) = {} /\ p - 4 = 0 /\ ~(0 > ConfMax)
          BY <3>2, <4>4, <4>6
        <5> QED
          BY <5>1
      <4> QED
        BY <4>1, <4>3, <4>4, <4>5, <4>6, Zenon DEF Receiving
    <3> QED
      BY <2>1, <2>11, <3>1, <3>3 DEF InFrame
  <2>13. FramesInOrder'
    BY <1>1, <2>1 DEF FramesInOrder
  <2>14. InStep'
    BY <1>1, <1>3, <2>1, <2>5, StepForth, AfterParse
  <2> QED
    BY <2>12, <2>13, <2>14
<1> QED
  BY <1>1, <1>2, <1>3 DEF Tracked

(* The parser takes one of the others, perhaps the last.                   *)
LEMMA PayloadStep ==
  Synchronised /\ (ParsePayload \/ ParseUnknown) => Logs' /\ Tracked'
<1>0. SUFFICES ASSUME Synchronised, ParsePayload \/ ParseUnknown PROVE Logs' /\ Tracked'
  OBVIOUS
<1>1. /\ rpc = "parse" /\ pos >= 4 /\ rpc' = "poll" /\ UNCHANGED <<rxring, wire>>
      /\ ch' = ch /\ type' = type /\ len' = len /\ sent' = sent /\ drops' = drops
  BY <1>0 DEF ParsePayload, ParseUnknown, rxring
<1>2. TypeOK /\ Logs /\ type \in Byte /\ body \in Seq(Byte) /\ ch \in Byte
  BY <1>0 DEF Synchronised, Inv, TypeOK
<1>3. Stored \in Seq(Byte)
  BY <1>2 DEF Stored
<1>4. Logs'
  <2>1. \/ handled' = handled
        \/ handled' = Append(handled, [type |-> type, data |-> Stored])
    BY <1>0 DEF ParsePayload, ParseUnknown
  <2>2. [type |-> type, data |-> Stored] \in [type : Byte, data : Seq(Byte)]
    BY <1>2, <1>3
  <2>3. handled' \in Seq([type : Byte, data : Seq(Byte)])
    <3>1. handled \in Seq([type : Byte, data : Seq(Byte)])
      BY <1>2 DEF Logs
    <3>2. CASE handled' = handled
      BY <3>1, <3>2
    <3>3. CASE handled' = Append(handled, [type |-> type, data |-> Stored])
      BY <2>2, <3>1, <3>3, AppendProperties
    <3> QED
      BY <2>1, <3>2, <3>3
  <2> QED
    BY <1>1, <1>2, <2>3 DEF Logs
<1>5. ASSUME drops = 0 PROVE FramesInOrder' /\ InFrame' /\ InStep'
  <2>1. /\ TypeOK /\ Logs /\ FramesInOrder /\ InFrame /\ InStep /\ pos \in Nat
        /\ Current \in 1..Len(sent) /\ sent[Current] \in Frames /\ Len(handled) \in Nat
        /\ pos < Size(sent[Current]) /\ ch = OnWire(sent[Current])[pos + 1]
    BY <1>0, <1>1, <1>5, Taken
  <2>2. PICK f : f = sent[Current] /\ f \in Frames
    BY <2>1
  <2>3. /\ Size(f) = Len(f.data) + 4 /\ Len(f.data) \in Nat /\ f.data \in Seq(Byte)
        /\ f.type \in Byte /\ f = [type |-> f.type, data |-> f.data]
        /\ Expected(f.type, Len(f.data))
    BY <2>2, SizeIs, FramesAssumption, ProtocolAssumption
  <2>4. /\ len = Len(f.data) + 1 /\ type = f.type
        /\ Len(body) = IF type = 2 /\ pos - 4 > ConfMax THEN ConfMax ELSE pos - 4
        /\ \A j \in 1..Len(body) : body[j] = f.data[j]
    <3>1. Receiving(f, pos, len, type, body)
      BY <2>1, <2>2 DEF InFrame
    <3>2. pos >= 3
      BY <1>1, <2>1
    <3> QED
      BY <1>1, <3>1, <3>2 DEF Receiving
  <2>5. Known /\ LastPos = Len(f.data) + 3 /\ LastPos < PosMod
    <3>1. PICK n : n = Len(f.data) /\ n \in Nat /\ Expected(type, n) /\ len = n + 1
      BY <2>3, <2>4
    <3> QED
      BY <3>1, ExpectedIs, EndsAsExpected
  <2>6. pos - 3 \in 1..Len(f.data) /\ ch = f.data[pos - 3]
    <3>1. pos - 3 \in 1..Len(f.data) /\ 4 + (pos - 3) = pos + 1
      BY <1>1, <2>1, <2>2, <2>3
    <3>2. PICK k : k = pos - 3 /\ k \in 1..Len(f.data) /\ 4 + k = pos + 1
      BY <3>1
    <3>3. OnWire(f)[4 + k] = f.data[k]
      BY <2>2, <3>2, OnWireIs, Zenon
    <3>4. ch = OnWire(f)[pos + 1]
      BY <2>1, <2>2
    <3> QED
      BY <3>2, <3>3, <3>4
  <2>7. /\ Len(Stored) = IF type = 2 /\ pos - 3 > ConfMax THEN ConfMax ELSE pos - 3
        /\ \A j \in 1..Len(Stored) : Stored[j] = f.data[j]
    <3>1. ConfMax \in Nat
      BY RxAssumption
    <3>2. CASE type = 2 /\ pos - 4 >= ConfMax
      BY <2>1, <2>4, <3>1, <3>2 DEF Stored
    <3>3. CASE ~(type = 2 /\ pos - 4 >= ConfMax)
      <4>1. Stored = Append(body, ch) /\ Len(body) = pos - 4
        BY <1>1, <2>1, <2>4, <3>1, <3>3 DEF Stored
      <4>2. /\ Len(Stored) = pos - 3 /\ Stored[pos - 3] = ch
            /\ \A j \in 1..Len(body) : Stored[j] = body[j]
        BY <1>1, <1>2, <2>1, <4>1
      <4>3. \A j \in 1..Len(Stored) : j \in 1..Len(body) \/ j = pos - 3
        BY <1>1, <2>1, <4>1, <4>2
      <4>4. ~(type = 2 /\ pos - 3 > ConfMax)
        BY <1>1, <2>1, <3>1, <3>3
      <4> QED
        BY <2>4, <2>6, <4>2, <4>3, <4>4
    <3> QED
      BY <3>2, <3>3
  <2>8. CASE pos = LastPos
    <3>1. pos' = 0 /\ handled' = Append(handled, [type |-> type, data |-> Stored])
      BY <1>0, <2>5, <2>8 DEF ParsePayload, ParseUnknown
    <3>2. pos - 3 = Len(f.data)
      BY <2>3, <2>5, <2>8
    <3>3. Delivered(f) = [type |-> type, data |-> Stored]
      <4>1. ConfMax \in Nat
        BY RxAssumption
      <4>2. CASE type = 2 /\ Len(f.data) > ConfMax
        <5>1. Len(Stored) = ConfMax
          BY <2>7, <3>2, <4>2
        <5>2. SubSeq(f.data, 1, ConfMax) \in Seq(Byte) /\ Len(SubSeq(f.data, 1, ConfMax)) = ConfMax
              /\ \A j \in 1..ConfMax : SubSeq(f.data, 1, ConfMax)[j] = f.data[j]
          BY <2>3, <4>1, <4>2
        <5>3. Stored = SubSeq(f.data, 1, ConfMax)
          BY <1>3, <2>7, <5>1, <5>2, SeqEqual
        <5>4. Delivered(f) = [f EXCEPT !.data = SubSeq(f.data, 1, ConfMax)]
          BY <2>4, <4>2 DEF Delivered
        <5> QED
          BY <2>3, <2>4, <5>3, <5>4
      <4>3. CASE ~(type = 2 /\ Len(f.data) > ConfMax)
        <5>1. Len(Stored) = Len(f.data)
          BY <2>7, <3>2, <4>3
        <5>2. Stored = f.data
          BY <1>3, <2>3, <2>7, <5>1, SeqEqual
        <5> QED
          BY <2>3, <2>4, <4>3, <5>2 DEF Delivered
      <4> QED
        BY <4>2, <4>3
    <3>4. /\ Len(handled') = Len(handled) + 1 /\ handled'[Len(handled) + 1] = Delivered(f)
          /\ \A i \in 1..Len(handled) : handled'[i] = handled[i]
      BY <2>1, <3>1, <3>3 DEF Logs
    <3>5. FramesInOrder'
      <4>1. Len(handled) + 1 <= Len(sent) /\ sent[Len(handled) + 1] = f
        BY <2>1, <2>2 DEF Current
      <4>2. \A i \in 1..Len(handled) : handled[i] = Delivered(sent[i])
        BY <1>5, <2>1 DEF FramesInOrder
      <4>3. \A i \in 1..(Len(handled) + 1) : i \in 1..Len(handled) \/ i = Len(handled) + 1
        BY <2>1
      <4> QED
        BY <1>1, <3>4, <4>1, <4>2, <4>3 DEF FramesInOrder, Delivered
    <3>6. InFrame'
      <4>1. Current' <= Len(sent') => sent'[Current'] \in Frames
        <5>1. Current' \in Nat \ {0} /\ sent' = sent
          BY <1>1, <2>1, <3>4 DEF Current
        <5> QED
          BY <2>1, <5>1 DEF Logs
      <4>2. Current' <= Len(sent') => Size(sent'[Current']) \in Nat /\ Size(sent'[Current']) > 0
        BY <4>1, SizeIs
      <4> QED
        BY <3>1, <4>2 DEF InFrame, Receiving
    <3>7. pos + 1 = Size(sent[Current])
      BY <2>2, <2>3, <2>5, <2>8
    <3> QED
      BY <1>1, <1>5, <2>1, <3>1, <3>4, <3>5, <3>6, <3>7, StepForth, AfterParse
  <2>9. CASE pos # LastPos
    <3>1. pos' = (pos + 1) % PosMod /\ body' = Stored /\ handled' = handled
      BY <1>0, <2>5, <2>9 DEF ParsePayload, ParseUnknown
    <3>2. pos' = pos + 1 /\ pos' < Size(f)
      <4>1. pos + 1 <= LastPos /\ pos + 1 < Size(f) /\ PosMod \in Nat /\ PosMod > pos + 1
        BY <2>1, <2>2, <2>3, <2>5, <2>9, RxAssumption
      <4>2. (pos + 1) % PosMod = pos + 1
        BY <2>1, <4>1
      <4> QED
        BY <3>1, <4>1, <4>2
    <3>3. FramesInOrder'
      BY <1>1, <2>1, <3>1 DEF FramesInOrder
    <3>4. InFrame'
      <4>1. Current' = Current /\ sent'[Current'] = f /\ Current' <= Len(sent')
        BY <1>1, <2>1, <2>2, <3>1 DEF Current
      <4>2. PICK p : p = pos' /\ p = pos + 1 /\ p > 4 /\ p - 4 = pos - 3 /\ p < Size(f)
        BY <1>1, <2>1, <3>2
      <4>3. Receiving(f, p, len, type, Stored)
        <5>1. p # 2 /\ Len(Stored) = IF type = 2 /\ p - 4 > ConfMax THEN ConfMax ELSE p - 4
          BY <1>1, <2>1, <2>7, <4>2
        <5> QED
          BY <2>4, <2>7, <4>2, <5>1, Zenon DEF Receiving
      <4> QED
        BY <1>1, <2>1, <3>1, <4>1, <4>2, <4>3 DEF InFrame
    <3> QED
      BY <1>1, <1>5, <2>1, <3>1, <3>2, <3>3, <3>4, StepForth, AfterParse
  <2> QED
    BY <2>8, <2>9
<1> QED
  BY <1>1, <1>4, <1>5 DEF Tracked

(* A config string that counts at least two bytes ends.                    *)
LEMMA ConfigStep == Synchronised /\ [Next]_vars => ConfigEnds'
<1>0. SUFFICES ASSUME Synchronised, [Next]_vars PROVE ConfigEnds'
  OBVIOUS
<1>1. TypeOK /\ ConfigEnds
  BY <1>0 DEF Synchronised, Inv
<1>2. CASE UNCHANGED <<pos, type, len>>
  BY <1>1, <1>2 DEF ConfigEnds
<1>3. CASE ParseHeader
  <2>1. pos' >= 4 => pos' = 4
    BY <1>1, <1>3 DEF ParseHeader, TypeOK
  <2>2. len' \in Nat
    BY <1>0, StepInv DEF Synchronised, Inv, TypeOK, Word
  <2> QED
    <3>1. \A l \in Nat : l >= 2 => 4 <= l + 2
      OBVIOUS
    <3> QED
      BY <2>1, <2>2, <3>1 DEF ConfigEnds
<1>4. CASE ParsePayload
  <2>1. CASE pos' = 0
    BY <2>1 DEF ConfigEnds
  <2>2. CASE pos' # 0
    <3>1. pos' = (pos + 1) % PosMod /\ pos # LastPos /\ type' = type /\ len' = len /\ pos >= 4
      BY <1>4, <2>2 DEF ParsePayload
    <3>2. pos' = pos + 1
      BY <1>1, <2>2, <3>1, RxAssumption DEF TypeOK
    <3>3. SUFFICES ASSUME type = 2, len >= 2 PROVE pos + 1 <= len + 2
      BY <3>1, <3>2 DEF ConfigEnds
    <3>4. pos <= len + 2 /\ pos # len + 2 /\ pos \in Nat /\ len \in Nat
      BY <1>1, <3>1, <3>3 DEF ConfigEnds, LastPos, TypeOK, Word
    <3> QED
      BY <3>4
  <2> QED
    BY <2>1, <2>2
<1>5. CASE ParseUnknown
  BY <1>5 DEF ParseUnknown, ConfigEnds
<1> QED
  BY <1>0, <1>2, <1>3, <1>4, <1>5
     DEF Next, SendFrame, IsrByte, TaskStep, Poll, ReadSlot, Advance, Idle, vars, parser

(* Every step keeps the parser in step.                                    *)
LEMMA StaysSynchronised == Spec => []Synchronised
<1>1. Synchronised /\ [Next]_vars => Synchronised'
  <2>0. SUFFICES ASSUME Synchronised, [Next]_vars PROVE Synchronised'
    OBVIOUS
  <2>1. Inv'
    BY <2>0, StepInv DEF Synchronised
  <2>2. ConfigEnds'
    BY <2>0, ConfigStep
  <2>3. Logs' /\ Tracked'
    <3>1. CASE UNCHANGED vars
      <4>1. UNCHANGED <<rxring, rpc, ch, parser, wire, sent>>
        BY <3>1 DEF vars
      <4>2. Coming' = Coming /\ drops' = drops
        BY <4>1 DEF Coming, Content, Used, Slot, rxring
      <4> QED
        BY <2>0, <4>1, <4>2, Still DEF Synchronised
    <3>2. CASE Idle
      BY <3>1, <3>2 DEF Idle
    <3> QED
      BY <2>0, <3>1, <3>2, SendStep, MoveStep, HeaderStep, PayloadStep DEF Next, TaskStep
  <2> QED
    BY <2>1, <2>2, <2>3 DEF Synchronised
<1> QED
  BY <1>1, InitSynchronised, PTL DEF Spec

(* As long as no byte found the ring full, uart1_rx_task gives the         *)
(* handlers the frames the FPGA sent, whole and in order, wherever         *)
(* uart1_isr interrupts it.                                                *)
THEOREM HandledInOrder == Spec => []FramesInOrder
<1>1. Synchronised => FramesInOrder
  BY DEF Synchronised, Tracked, FramesInOrder
<1> QED
  BY <1>1, StaysSynchronised, PTL

(* Whatever bytes are lost, the parser of uart1_rx_task waits for no       *)
(* position it is past, but within a config string that counts less than   *)
(* two bytes, and only lost bytes make one.                                *)
THEOREM NeverStuckElsewhere == Spec => []StuckOnlyInShortConfig
<1>1. Synchronised => StuckOnlyInShortConfig
  <2>0. SUFFICES ASSUME Synchronised PROVE StuckOnlyInShortConfig
    OBVIOUS
  <2>1. TypeOK /\ Shape /\ ConfigEnds /\ Tracked /\ Logs /\ drops \in Nat /\ len \in Nat
    BY <2>0 DEF Synchronised, Inv, TypeOK, Word
  <2>2. ASSUME pos >= 4, Known, ~(type = 2 /\ len < 2) PROVE pos <= LastPos
    <3>1. pos \in Nat /\ Sector \in Nat
      BY <2>1, RxAssumption DEF TypeOK
    <3>2. CASE type = 2
      BY <2>1, <2>2, <3>1, <3>2 DEF ConfigEnds, LastPos
    <3>3. CASE type # 2
      <4>1. /\ type \in {1, 11} => LastPos = 4
            /\ type \in {3, 6} => LastPos = 7
            /\ type = 4 => LastPos = 6 + Sector - 1
            /\ type = 5 => LastPos = 5
            /\ type = 9 => LastPos = 12
            /\ type = 10 => LastPos = 4 + 2 + Sector - 1
        BY DEF LastPos
      <4>2. type \in {1, 11} \/ type \in {3, 6} \/ type = 4 \/ type = 5 \/ type = 9 \/ type = 10
        BY <2>2, <3>3 DEF Known
      <4> QED
        BY <2>1, <2>2, <3>1, <4>1, <4>2 DEF Shape
    <3> QED
      BY <3>2, <3>3
  <2>3. ASSUME type = 2, len < 2, pos >= 4, drops = 0 PROVE FALSE
    <3>1. FramesInOrder /\ InFrame /\ Len(sent) \in Nat /\ Len(handled) \in Nat
      BY <2>1, <2>3 DEF Tracked, Logs
    <3>2. Current \in 1..Len(sent)
      BY <2>3, <3>1 DEF InFrame, Current
    <3>3. PICK f : f = sent[Current] /\ f \in Frames
      BY <2>1, <3>2 DEF Logs
    <3>4. len = Len(f.data) + 1 /\ f.type = 2
      <4>1. Receiving(f, pos, len, type, body) /\ pos \in Nat
        BY <2>1, <3>1, <3>2, <3>3 DEF InFrame, TypeOK
      <4> QED
        BY <2>3, <4>1 DEF Receiving
    <3>5. Len(f.data) \in Nat /\ Expected(f.type, Len(f.data))
      BY <3>3, SizeIs, ProtocolAssumption
    <3>6. Len(f.data) > 0
      BY <3>4, <3>5 DEF Expected
    <3> QED
      BY <2>3, <3>4, <3>5, <3>6
  <2> QED
    BY <2>1, <2>2, <2>3 DEF StuckOnlyInShortConfig
<1> QED
  BY <1>1, StaysSynchronised, PTL
=============================================================================
