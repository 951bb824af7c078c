----------------------------- MODULE UartToken -----------------------------
(***************************************************************************)
(* Ownership of UART1, the link from the MCU to the FPGA.                  *)
(*                                                                         *)
(* Several tasks write frames to UART1, and CD-audio sectors leave by DMA. *)
(* iosys_bl616.v counts the bytes after a frame's header, so a frame is    *)
(* only valid when its bytes go out contiguously.  The exclusion is a      *)
(* binary semaphore (utils.cpp): a blocking writer takes it and gives it   *)
(* back, a DMA transfer takes it in cd_serve_task and the completion       *)
(* interrupt gives it back (pcecd.cpp).  Every take is bounded; a writer   *)
(* whose wait expires is counted and writes anyway.                        *)
(*                                                                         *)
(* A frame is abstracted to the time its emitter has it open on the wire.  *)
(* It is "cut" when a byte of another emitter goes out in that time.       *)
(***************************************************************************)
EXTENDS Naturals, FiniteSets

CONSTANTS Tasks,        \* the tasks that write frames to UART1
          Server,       \* cd_serve_task, the only one that starts a DMA transfer
          Unlocked,     \* the tasks that also send frames without the token
          Dma,          \* the DMA channel, an emitter of its own
          TimeoutCap    \* fpga_tx_lock_timeouts is followed up to this value

ASSUME TokenAssumption ==
  /\ Server \in Tasks
  /\ Unlocked \subseteq Tasks
  /\ Dma \notin Tasks
  /\ TimeoutCap \in Nat \ {0}

VARIABLES
  sem,        \* fpga_tx_sem: TRUE when the token is available
  lkto,       \* fpga_tx_lock_timeouts, saturating at TimeoutCap
  pc,         \* where each task is
  own,        \* whether the frame a task is sending is covered by the token
  chunks,     \* cd_serve_task: 0x10 chunks still to be sent by the blocking path
  frame,      \* the state of each emitter's frame on the wire
  dmaDev,     \* pcecd_tx_dma # NULL
  inflight,   \* pcecd_dma_inflight
  txdma,      \* UART1 is in DMA-TX mode
  hw,         \* the DMA channel: idle, transferring, or interrupting
  bypassed    \* history: a frame was sent without the token

tokenVars == <<sem, lkto, pc, own, chunks, frame, dmaDev, inflight, txdma, hw, bypassed>>

Emitters == Tasks \cup {Dma}

TokenTypeOK ==
  /\ sem \in BOOLEAN
  /\ lkto \in 0..TimeoutCap
  /\ pc \in [Tasks -> {"idle", "lock", "owner", "frame", "unlock", "bare",
                       "dmalock", "stage", "stop", "rearm"}]
  /\ own \in [Tasks -> BOOLEAN]
  /\ chunks \in 0..2
  /\ frame \in [Emitters -> {"none", "clean", "cut"}]
  /\ dmaDev \in BOOLEAN
  /\ inflight \in BOOLEAN
  /\ txdma \in BOOLEAN
  /\ hw \in {"off", "busy", "irq"}
  /\ bypassed \in BOOLEAN

(* fpga_tx_lock_init gives the token once; pcecd_tx_dma_init may find no    *)
(* channel, and leaves UART1 out of DMA-TX mode either way.                *)
TokenInit ==
  /\ sem = TRUE
  /\ lkto = 0
  /\ pc = [t \in Tasks |-> "idle"]
  /\ own = [t \in Tasks |-> FALSE]
  /\ chunks = 0
  /\ frame = [e \in Emitters |-> "none"]
  /\ dmaDev \in BOOLEAN
  /\ inflight = FALSE
  /\ txdma = FALSE
  /\ hw = "off"
  /\ bypassed = FALSE

-----------------------------------------------------------------------------
(* The wire.                                                               *)

Move(t, from, to) == pc[t] = from /\ pc' = [pc EXCEPT ![t] = to]

IsOpen(e) == frame[e] # "none"

(* e puts the first byte of a frame on the wire: it cuts every open frame, *)
(* and is itself cut if there is one.                                      *)
FrameOpens(e) ==
  frame' = [x \in Emitters |->
              IF x = e THEN IF \E y \in Emitters : IsOpen(y) THEN "cut" ELSE "clean"
              ELSE IF IsOpen(x) THEN "cut" ELSE "none"]

FrameCloses(e) == frame' = [frame EXCEPT ![e] = "none"]

(* A whole frame sent inside a critical section: no task runs meanwhile,   *)
(* but it lands inside whatever frame is open.                             *)
MaskedFrame ==
  frame' = [x \in Emitters |-> IF IsOpen(x) THEN "cut" ELSE "none"]

CountTimeout == lkto' = IF lkto < TimeoutCap THEN lkto + 1 ELSE lkto

-----------------------------------------------------------------------------
(* The ordinary writers: fpga_tx_lock, header and bytes, fpga_tx_unlock.   *)

(* overlay_printf, send_hid_to_core, sv_send_block, ... call fpga_tx_lock. *)
Lock(t) ==
  /\ Move(t, "idle", "lock")
  /\ UNCHANGED <<sem, lkto, own, chunks, frame, dmaDev, inflight, txdma, hw, bypassed>>

Take(t) ==
  /\ sem
  /\ Move(t, "lock", "owner")
  /\ sem' = FALSE
  /\ own' = [own EXCEPT ![t] = TRUE]
  /\ UNCHANGED <<lkto, chunks, frame, dmaDev, inflight, txdma, hw, bypassed>>

(* Mutant: the wait is unbounded.                                          *)
TakeForever(t) == sem /\ Take(t)

(* 500 ms without the token: counted, and the writer proceeds.             *)
TakeTimesOut(t) ==
  /\ ~sem
  /\ Move(t, "lock", "owner")
  /\ CountTimeout
  /\ own' = [own EXCEPT ![t] = FALSE]
  /\ UNCHANGED <<sem, chunks, frame, dmaDev, inflight, txdma, hw, bypassed>>

WriteHeader(t) ==
  /\ Move(t, "owner", "frame")
  /\ FrameOpens(t)
  /\ UNCHANGED <<sem, lkto, own, chunks, dmaDev, inflight, txdma, hw, bypassed>>

WriteLastByte(t) ==
  /\ Move(t, "frame", "unlock")
  /\ FrameCloses(t)
  /\ UNCHANGED <<sem, lkto, own, chunks, dmaDev, inflight, txdma, hw, bypassed>>

(* The give does not look at who took the token.  cd_serve_task locks      *)
(* again for the second chunk of a sector.                                 *)
Unlock(t) ==
  /\ LET more == t = Server /\ chunks > 1
     IN  /\ Move(t, "unlock", IF more THEN "lock" ELSE "idle")
         /\ chunks' = IF t # Server THEN chunks ELSE IF more THEN chunks - 1 ELSE 0
  /\ sem' = TRUE
  /\ own' = [own EXCEPT ![t] = FALSE]
  /\ UNCHANGED <<lkto, frame, dmaDev, inflight, txdma, hw, bypassed>>

-----------------------------------------------------------------------------
(* The writers that do not take the token.                                 *)

(* send_fbuf_data, set_loading_state and send_blank_packet mask interrupts *)
(* for the whole frame.                                                    *)
SendMasked(t) ==
  /\ t \in Unlocked
  /\ pc[t] = "idle"
  /\ MaskedFrame
  /\ bypassed' = TRUE
  /\ UNCHANGED <<sem, lkto, pc, own, chunks, dmaDev, inflight, txdma, hw>>

(* get_core_id writes its 4-byte query with no protection at all.          *)
QueryCoreId(t) ==
  /\ t \in Unlocked
  /\ Move(t, "idle", "bare")
  /\ FrameOpens(t)
  /\ bypassed' = TRUE
  /\ UNCHANGED <<sem, lkto, own, chunks, dmaDev, inflight, txdma, hw>>

QuerySent(t) ==
  /\ Move(t, "bare", "idle")
  /\ FrameCloses(t)
  /\ UNCHANGED <<sem, lkto, own, chunks, dmaDev, inflight, txdma, hw, bypassed>>

-----------------------------------------------------------------------------
(* cd_serve_task: sectors.                                                 *)

(* Mutant: the sector chunks go out without the token.                     *)
SendSectorUnlocked ==
  /\ Move(Server, "idle", "owner")
  /\ chunks' = 2
  /\ UNCHANGED <<sem, lkto, own, frame, dmaDev, inflight, txdma, hw, bypassed>>

(* A data sector, or an audio sector when there is no DMA channel: two     *)
(* chunks, each under its own lock.                                        *)
SendSectorBlocking ==
  /\ Move(Server, "idle", "lock")
  /\ chunks' = 2
  /\ UNCHANGED <<sem, lkto, own, frame, dmaDev, inflight, txdma, hw, bypassed>>

SendSectorDma ==
  /\ dmaDev
  /\ Move(Server, "idle", "dmalock")
  /\ UNCHANGED <<sem, lkto, own, chunks, frame, dmaDev, inflight, txdma, hw, bypassed>>

DmaTake ==
  /\ sem
  /\ Move(Server, "dmalock", "stage")
  /\ sem' = FALSE
  /\ UNCHANGED <<lkto, own, chunks, frame, dmaDev, inflight, txdma, hw, bypassed>>

(* Mutant: the function that took the token gives it back before returning. *)
DmaStartUnlocks ==
  /\ Move(Server, "stage", "idle")
  /\ sem' = TRUE
  /\ inflight' = TRUE
  /\ txdma' = TRUE
  /\ hw' = "busy"
  /\ FrameOpens(Dma)
  /\ UNCHANGED <<lkto, own, chunks, dmaDev, bypassed>>

(* Stage both chunks, enter DMA-TX mode and start the channel.  The token  *)
(* stays with the transfer.                                                *)
DmaStart ==
  /\ Move(Server, "stage", "idle")
  /\ inflight' = TRUE
  /\ txdma' = TRUE
  /\ hw' = "busy"
  /\ FrameOpens(Dma)
  /\ UNCHANGED <<sem, lkto, own, chunks, dmaDev, bypassed>>

(* 250 ms without the token: the previous completion never came, or        *)
(* another writer is stuck.                                                *)
DmaTakeTimesOut ==
  /\ ~sem
  /\ Move(Server, "dmalock", "stop")
  /\ CountTimeout
  /\ UNCHANGED <<sem, own, chunks, frame, dmaDev, inflight, txdma, hw, bypassed>>

(* Stop the channel, leave DMA-TX mode, give DMA up for the session.       *)
DmaAbort ==
  /\ Move(Server, "stop", "rearm")
  /\ hw' = IF hw = "busy" THEN "off" ELSE hw
  /\ FrameCloses(Dma)
  /\ txdma' = FALSE
  /\ inflight' = FALSE
  /\ dmaDev' = FALSE
  /\ UNCHANGED <<sem, lkto, own, chunks, bypassed>>

(* Mutant: the token is not re-armed.                                      *)
DmaRearmForgets ==
  /\ Move(Server, "rearm", "lock")
  /\ chunks' = 2
  /\ UNCHANGED <<sem, lkto, own, frame, dmaDev, inflight, txdma, hw, bypassed>>

(* Re-arm the token that could not be obtained; send by the blocking path. *)
DmaRearm ==
  /\ Move(Server, "rearm", "lock")
  /\ sem' = TRUE
  /\ chunks' = 2
  /\ UNCHANGED <<lkto, own, frame, dmaDev, inflight, txdma, hw, bypassed>>

-----------------------------------------------------------------------------
(* The DMA channel and its interrupt.                                      *)

(* The last byte went out.                                                 *)
HwComplete ==
  /\ hw = "busy"
  /\ hw' = "irq"
  /\ FrameCloses(Dma)
  /\ UNCHANGED <<sem, lkto, pc, own, chunks, dmaDev, inflight, txdma, bypassed>>

(* The transfer ended and its interrupt was lost.                          *)
HwLosesIrq ==
  /\ hw = "busy"
  /\ hw' = "off"
  /\ FrameCloses(Dma)
  /\ UNCHANGED <<sem, lkto, pc, own, chunks, dmaDev, inflight, txdma, bypassed>>

(* Mutant: the token is released with UART1 still in DMA-TX mode.          *)
IsrStaysInDmaMode ==
  /\ hw = "irq"
  /\ hw' = "off"
  /\ IF inflight
       THEN /\ inflight' = FALSE
            /\ sem' = TRUE
       ELSE UNCHANGED <<inflight, sem>>
  /\ UNCHANGED <<lkto, pc, own, chunks, frame, dmaDev, txdma, bypassed>>

(* pcecd_tx_dma_isr: spurious, or already recovered by the timeout, or the *)
(* end of the transfer that owns the token.                                *)
Isr ==
  /\ hw = "irq"
  /\ hw' = "off"
  /\ IF inflight
       THEN /\ inflight' = FALSE
            /\ txdma' = FALSE
            /\ sem' = TRUE
       ELSE UNCHANGED <<inflight, txdma, sem>>
  /\ UNCHANGED <<lkto, pc, own, chunks, frame, dmaDev, bypassed>>

-----------------------------------------------------------------------------
WriterStep(t) ==
  \/ Take(t) \/ TakeTimesOut(t) \/ WriteHeader(t) \/ WriteLastByte(t)
  \/ Unlock(t) \/ QuerySent(t)

ServerStep == DmaTake \/ DmaStart \/ DmaTakeTimesOut \/ DmaAbort \/ DmaRearm

Start(t) == (t # Server /\ Lock(t)) \/ SendMasked(t) \/ QueryCoreId(t)

TokenNext ==
  \/ \E t \in Tasks : Start(t) \/ WriterStep(t)
  \/ SendSectorBlocking \/ SendSectorDma \/ ServerStep
  \/ HwComplete \/ HwLosesIrq \/ Isr

TokenSpec == TokenInit /\ [][TokenNext]_tokenVars

(* A task that is not waiting for work runs on, a bounded wait ends, and a *)
(* raised interrupt is taken.  Nothing obliges the hardware to finish.     *)
Fairness ==
  /\ \A t \in Tasks : WF_tokenVars(WriterStep(t))
  /\ WF_tokenVars(ServerStep)
  /\ WF_tokenVars(Isr)

FairTokenSpec == TokenSpec /\ Fairness

-----------------------------------------------------------------------------
(* Who holds the token.                                                    *)

Writing(t) == pc[t] \in {"owner", "frame", "unlock"}

Holders ==
  {t \in Tasks : Writing(t) /\ own[t]}
    \cup {t \in {Server} : pc[t] = "stage"}
    \cup {d \in {Dma} : inflight}

(* While no wait has timed out the token has at most one holder -- a task, *)
(* or the transfer the task started and walked away from -- and it is not  *)
(* available while it is held.                                             *)
OneHolder ==
  lkto = 0 => /\ \A x, y \in Holders : x = y
              /\ sem => Holders = {}

(* The token is never lost: when it is not available somebody still has to *)
(* give it -- also after a wait that timed out, a completion that never    *)
(* came, and the recovery that follows it.                                 *)
TokenNotLost ==
  \/ sem
  \/ inflight
  \/ \E t \in Tasks : Writing(t)
  \/ pc[Server] \in {"stage", "rearm"}

NoFrameCut == \A e \in Emitters : frame[e] # "cut"

(* While every writer has taken the token and no wait has timed out, no    *)
(* frame is cut, whichever tasks and DMA transfers met on the way.         *)
FramesContiguous == lkto = 0 /\ ~bypassed => NoFrameCut

(* A blocking writer that owns the token never writes into a UART left in  *)
(* DMA-TX mode, which is what stalled the CD path (pcecd.cpp, the ISR).    *)
NoBlockingInDmaMode ==
  lkto = 0 => \A t \in Tasks : (pc[t] = "frame" /\ own[t]) => ~txdma

(* Once DMA has been given up UART1 is out of DMA-TX mode for good and no  *)
(* transfer counts as in flight, whatever the late interrupt does.         *)
GivenUpIsOff == ~dmaDev => ~txdma /\ ~inflight

(* "degraded and visible, never wedged" (utils.cpp): a writer that asks    *)
(* for the token gets its frame out, even if no completion ever comes.     *)
NeverWedged == \A t \in Tasks : pc[t] \in {"lock", "dmalock"} ~> pc[t] = "idle"

=============================================================================
