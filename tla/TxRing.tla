------------------------------- MODULE TxRing -------------------------------
(***************************************************************************)
(* The transmit path of the driver: wcn36xx_tx / wcn36xx_start_tx, the TX  *)
(* descriptor rings filled by wcn36xx_dxe_tx_frame, the DMA engine that    *)
(* empties them, the TX-complete interrupt that reaps them, and the        *)
(* TX-status indication.  All of them share the rings, tx_ack_skb,         *)
(* queues_stopped and mac80211's stop/wake state, and each runs in a       *)
(* context of its own: a step of this specification is one access of one   *)
(* context to that shared state.                                           *)
(*                                                                         *)
(* A ring is a cycle of DescNum control blocks.  Even ones own a buffer    *)
(* for a buffer descriptor (BD), odd ones point at the frame (skb), so a   *)
(* frame takes two descriptors.                                            *)
(***************************************************************************)
EXTENDS Naturals, Sequences, FiniteSets

CONSTANTS
  Cpus,          \* CPUs: each runs at most one sender; the handler preempts it
  Channels,      \* the TX rings in use, a subset of {"high", "low"}
  DescNum,       \* descriptors of a ring: 128 (low) or 10 (high) in the code
  Frames,        \* the frames mac80211 hands over, each of them once
  LowFrames,     \* data frames: they take the low ring, all others the high one
  StatusFrames,  \* frames with IEEE80211_TX_CTL_REQ_TX_STATUS
  NoFrame,       \* the NULL skb
  SerialTx,      \* mac80211 has one frame at a time in wcn36xx_tx per ring
  LoseAck,       \* a TX-status indication may be lost on its way
  PowerSave      \* the chip may go to sleep (BMPS)

ASSUME TxAssumption ==
  /\ Channels \subseteq {"high", "low"}
  /\ DescNum \in Nat /\ DescNum >= 4 /\ DescNum % 2 = 0
  /\ LowFrames \subseteq Frames /\ StatusFrames \subseteq Frames
  /\ NoFrame \notin Frames
  /\ {SerialTx, LoseAck, PowerSave} \subseteq BOOLEAN

Slots     == 0..(DescNum - 1)
NextUnwrapped(s) == s + 1              \* mutant: the ring is not closed
next(s)   == IF s = DescNum - 1 THEN 0 ELSE s + 1
\* A frame takes the BD's control block and the next one.
AfterBd(s)    == next(s)               \* mutant: the head moves by one
AfterFrame(s) == next(next(s))
Chan(f)   == IF f \in LowFrames THEN "low" ELSE "high"
\* wcn36xx_dxe_init_tx_bd gives a BD buffer to every second control block.
HasBd(s)  == s % 2 = 0
MaybeFrame == Frames \cup {NoFrame}

VARIABLES
  \* the rings (struct wcn36xx_dxe_ch and its ctl and desc arrays)
  head, tail,      \* head_blk_ctl, tail_blk_ctl
  skb,             \* ctl->skb of every control block
  ctrl,            \* desc->ctrl: "off" is VALID clear, else ctrl_bd or ctrl_skb
  src,             \* the frame desc->src_addr_l is mapped to
  bd,              \* the frame whose header fills the BD buffer
  \* driver fields (struct wcn36xx, struct wcn36xx_vif)
  tx_ack_skb, queues_stopped, pw_state,
  \* threads: a sender per CPU, the interrupt handler, the indication worker
  snd, irq, ackw,
  \* mac80211
  fresh,           \* frames not handed over yet
  back,            \* frames handed back: freed, or reported by TX status
  stopped,         \* its queues are stopped by the driver
  \* chip
  pos,             \* the descriptor the engine of a channel is at
  running,         \* the engine of a channel is enabled
  intr,            \* DXE_INT_SRC_RAW: channels with a descriptor-done interrupt
  sent,            \* frames whose descriptors are done
  acks,            \* TX-status indications on their way to the driver
  asleep,          \* BMPS: a register write no longer reaches the chip
  \* history, read by no action: two contexts were at work on one pair at once
  torn

ringVars == <<head, tail, skb, ctrl, src, bd>>
chipVars == <<pos, running, intr, sent, acks, asleep>>
vars == <<ringVars, tx_ack_skb, queues_stopped, pw_state, torn, snd, irq,
          ackw, fresh, back, stopped, chipVars>>

SndPcs == {"idle", "claim", "stop", "check", "full", "bd", "skb", "map",
           "len", "valid", "advance", "doorbell", "oops"}
IrqPcs == {"idle", "next", "slot", "take", "wake", "waking", "clear"}

IdleSnd == [pc |-> "idle", frm |-> NoFrame, ctl |-> 0]
IdleIrq == [pc |-> "idle", on |-> {}, todo |-> {}, ch |-> "high", ctl |-> 0]

Init ==
  /\ head = [ch \in Channels |-> 0] /\ tail = [ch \in Channels |-> 0]
  /\ skb  = [ch \in Channels |-> [s \in Slots |-> NoFrame]]
  /\ ctrl = [ch \in Channels |-> [s \in Slots |-> "off"]]
  /\ src  = [ch \in Channels |-> [s \in Slots |-> NoFrame]]
  /\ bd   = [ch \in Channels |-> [s \in Slots |-> NoFrame]]
  /\ tx_ack_skb = NoFrame /\ queues_stopped = FALSE /\ pw_state = "full"
  /\ snd = [c \in Cpus |-> IdleSnd]
  /\ irq = IdleIrq /\ ackw = NoFrame
  /\ fresh = Frames /\ back = {} /\ stopped = FALSE
  /\ pos = [ch \in Channels |-> 0]
  /\ running = [ch \in Channels |-> FALSE]
  /\ intr = {} /\ sent = {} /\ acks = {} /\ asleep = FALSE
  /\ torn = FALSE

-----------------------------------------------------------------------------
(* Contexts and locks.                                                     *)

Valid(ch, s) == ctrl[ch][s] # "off"

\* The ring is full when the slot after the head still has its frame.
BdTaken(ch) == skb[ch][head[ch]] # NoFrame       \* mutant: the head itself
NotSent(ch) == Valid(ch, next(head[ch]))         \* mutant: sent is not enough
Full(ch)    == skb[ch][next(head[ch])] # NoFrame

\* The reaper goes by the VALID bit.
AnySlot(ch, s)  == TRUE                          \* mutant: it does not look
Reapable(ch, s) == ~Valid(ch, s)

\* Data frames reach a sleeping chip through SMSM; a register write does not.
SmsmOnly(ch) == ch = "low" /\ pw_state = "bmps"  \* mutant: no register write
Rings(ch)    == (ch = "low" /\ pw_state = "bmps") \/ ~asleep

\* The handler runs to completion on its CPU.
Runs(c) == c \notin irq.on

\* skb_lock of a control block, held by a sender between its two writes on a
\* full ring and by the handler around the wake-up.
SndHolds(c, ch, s) ==
  snd[c].pc = "full" /\ Chan(snd[c].frm) = ch /\ next(snd[c].ctl) = s
IrqHolds(ch, s) == irq.pc = "waking" /\ irq.ch = ch /\ irq.ctl = s

SkbLockFree(ch, s) == ~IrqHolds(ch, s) /\ \A c \in Cpus : ~SndHolds(c, ch, s)

\* Nothing keeps two contexts off one pair of control blocks: the head has no
\* lock, and the reaper looks only at VALID.  A sender builds a pair from the
\* check to the moving of the head; from storing its frame to making the
\* descriptor valid it has the frame's slot half done.  The reaper reads the
\* frame of a slot it has found not valid.
Builds(c, ch) == /\ snd[c].pc \in {"bd", "skb", "map", "len", "valid", "advance"}
                 /\ Chan(snd[c].frm) = ch
HalfDone(ch, s) == \E c \in Cpus : /\ snd[c].pc \in {"map", "len", "valid"}
                                  /\ Chan(snd[c].frm) = ch /\ next(snd[c].ctl) = s
Reading(ch, s) == irq.pc = "take" /\ irq.ch = ch /\ irq.ctl = s

\* wcn36xx_tx frees the frame of a failed start_tx.
Refuse(c) == /\ back' = back \cup {snd[c].frm}
             /\ snd' = [snd EXCEPT ![c] = IdleSnd]

Goto(c, pc) == snd' = [snd EXCEPT ![c].pc = pc]

-----------------------------------------------------------------------------
(* wcn36xx_tx -> wcn36xx_start_tx -> wcn36xx_dxe_tx_frame, on CPU c.       *)

\* mac80211 calls the driver only while its queues are not stopped.  The BD
\* buffer of the head descriptor is cleared and refilled for this frame
\* before anything is known about room in the ring.
TxStart(c, f) ==
  LET ch == Chan(f) IN
  /\ Runs(c) /\ snd[c].pc = "idle" /\ ~stopped
  /\ f \in fresh /\ ch \in Channels
  /\ SerialTx => \A d \in Cpus : snd[d].pc # "idle" => Chan(snd[d].frm) # ch
  /\ fresh' = fresh \ {f}
  /\ IF HasBd(head[ch])
     THEN /\ bd' = [bd EXCEPT ![ch][head[ch]] = f]
          /\ snd' = [snd EXCEPT ![c] =
               [pc |-> IF f \in StatusFrames THEN "claim" ELSE "check",
                frm |-> f, ctl |-> 0]]
          /\ UNCHANGED back
     ELSE /\ back' = back \cup {f}
          /\ UNCHANGED <<bd, snd>>
  /\ UNCHANGED <<head, tail, skb, ctrl, src, tx_ack_skb, queues_stopped,
                 pw_state, torn, irq, ackw, stopped, chipVars>>

\* Under dxe_lock: only one frame at a time may wait for its TX status.
TxClaim(c) ==
  /\ Runs(c) /\ snd[c].pc = "claim"
  /\ IF tx_ack_skb # NoFrame
     THEN Refuse(c) /\ UNCHANGED tx_ack_skb
     ELSE /\ tx_ack_skb' = snd[c].frm
          /\ Goto(c, "stop") /\ UNCHANGED back
  /\ UNCHANGED <<ringVars, queues_stopped, pw_state, torn, irq, ackw, fresh,
                 stopped, chipVars>>

TxStopForAck(c) ==
  /\ Runs(c) /\ snd[c].pc = "stop"
  /\ stopped' = TRUE
  /\ Goto(c, "check")
  /\ UNCHANGED <<ringVars, tx_ack_skb, queues_stopped, pw_state, torn, irq, ackw,
                 fresh, back, chipVars>>

\* Under skb_lock of the slot looked at.
TxCheck(c) ==
  LET ch == Chan(snd[c].frm) IN
  /\ Runs(c) /\ snd[c].pc = "check"
  /\ SkbLockFree(ch, next(head[ch]))
  /\ \/ /\ ~Full(ch)
        /\ snd' = [snd EXCEPT ![c].ctl = head[ch], ![c].pc = "bd"]
        /\ torn' = (torn \/ \E d \in Cpus : Builds(d, ch))
        /\ UNCHANGED stopped
     \/ /\ Full(ch)
        /\ snd' = [snd EXCEPT ![c].ctl = head[ch], ![c].pc = "full"]
        /\ stopped' = TRUE
        /\ UNCHANGED torn
  /\ UNCHANGED <<ringVars, tx_ack_skb, queues_stopped, pw_state, irq, ackw,
                 fresh, back, chipVars>>

\* Mutant: the reaper is not told.
TxFullUnmarked(c) ==
  /\ Runs(c) /\ snd[c].pc = "full"
  /\ Refuse(c)
  /\ UNCHANGED <<ringVars, tx_ack_skb, queues_stopped, pw_state, torn, irq, ackw,
                 fresh, stopped, chipVars>>

\* Still under skb_lock, after ieee80211_stop_queues; then -EBUSY.
TxFull(c) ==
  /\ Runs(c) /\ snd[c].pc = "full"
  /\ queues_stopped' = TRUE
  /\ Refuse(c)
  /\ UNCHANGED <<ringVars, tx_ack_skb, pw_state, torn, irq, ackw, fresh, stopped,
                 chipVars>>

\* The BD descriptor becomes valid first.
TxWriteBd(c) ==
  LET ch == Chan(snd[c].frm)  s == snd[c].ctl IN
  /\ Runs(c) /\ snd[c].pc = "bd"
  /\ skb'  = [skb  EXCEPT ![ch][s] = NoFrame]
  /\ ctrl' = [ctrl EXCEPT ![ch][s] = "bd"]
  /\ Goto(c, "skb")
  /\ UNCHANGED <<head, tail, src, bd, tx_ack_skb, queues_stopped, pw_state, torn,
                 irq, ackw, fresh, back, stopped, chipVars>>

TxSetSkb(c) ==
  LET ch == Chan(snd[c].frm)  s == next(snd[c].ctl) IN
  /\ Runs(c) /\ snd[c].pc = "skb"
  /\ skb' = [skb EXCEPT ![ch][s] = snd[c].frm]
  /\ torn' = (torn \/ Reading(ch, s))
  /\ IF HasBd(s) THEN Refuse(c)                            \* -EINVAL
                 ELSE Goto(c, "map") /\ UNCHANGED back
  /\ UNCHANGED <<head, tail, ctrl, src, bd, tx_ack_skb, queues_stopped,
                 pw_state, irq, ackw, fresh, stopped, chipVars>>

\* The descriptor is built from ctl->skb, read again, its address and then its
\* length: a slot that lost its frame meanwhile is a NULL dereference.
TxMap(c) ==
  LET ch == Chan(snd[c].frm)  s == next(snd[c].ctl) IN
  /\ Runs(c) /\ snd[c].pc = "map"
  /\ IF skb[ch][s] = NoFrame
     THEN Goto(c, "oops") /\ UNCHANGED src
     ELSE /\ src' = [src EXCEPT ![ch][s] = skb[ch][s]]
          /\ Goto(c, "len")
  /\ UNCHANGED <<head, tail, skb, ctrl, bd, tx_ack_skb, queues_stopped,
                 pw_state, torn, irq, ackw, fresh, back, stopped, chipVars>>

TxLen(c) ==
  /\ Runs(c) /\ snd[c].pc = "len"
  /\ Goto(c, IF skb[Chan(snd[c].frm)][next(snd[c].ctl)] = NoFrame THEN "oops"
             ELSE "valid")
  /\ UNCHANGED <<ringVars, tx_ack_skb, queues_stopped, pw_state, torn, irq,
                 ackw, fresh, back, stopped, chipVars>>

TxValid(c) ==
  LET ch == Chan(snd[c].frm)  s == next(snd[c].ctl) IN
  /\ Runs(c) /\ snd[c].pc = "valid"
  /\ ctrl' = [ctrl EXCEPT ![ch][s] = "skb"]
  /\ Goto(c, "advance")
  /\ UNCHANGED <<head, tail, skb, src, bd, tx_ack_skb, queues_stopped,
                 pw_state, torn, irq, ackw, fresh, back, stopped, chipVars>>

TxAdvance(c) ==
  LET ch == Chan(snd[c].frm) IN
  /\ Runs(c) /\ snd[c].pc = "advance"
  /\ head' = [head EXCEPT ![ch] = AfterFrame(snd[c].ctl)]
  /\ Goto(c, "doorbell")
  /\ UNCHANGED <<tail, skb, ctrl, src, bd, tx_ack_skb, queues_stopped,
                 pw_state, torn, irq, ackw, fresh, back, stopped, chipVars>>

TxDoorbell(c) ==
  LET ch == Chan(snd[c].frm) IN
  /\ Runs(c) /\ snd[c].pc = "doorbell"
  /\ running' = [running EXCEPT ![ch] = @ \/ Rings(ch)]
  /\ snd' = [snd EXCEPT ![c] = IdleSnd]
  /\ UNCHANGED <<ringVars, tx_ack_skb, queues_stopped, pw_state, torn, irq, ackw,
                 fresh, back, stopped, pos, intr, sent, acks, asleep>>

-----------------------------------------------------------------------------
(* wcn36xx_irq_tx_complete and reap_tx_dxes.                               *)

\* The line is level-triggered and the handler never runs twice at a time.
\* A sender under spin_lock_irqsave keeps the interrupt off its CPU.
IrqEnter(c) ==
  /\ intr # {} /\ irq.pc = "idle" /\ snd[c].pc # "full"
  /\ irq' = [IdleIrq EXCEPT !.pc = "next", !.on = {c}, !.todo = intr]
  /\ UNCHANGED <<ringVars, tx_ack_skb, queues_stopped, pw_state, torn, snd, ackw,
                 fresh, back, stopped, chipVars>>

\* The next channel of int_src, the high one first: its interrupt is cleared,
\* then its ring is reaped from the tail on.
IrqChannel ==
  /\ irq.pc = "next"
  /\ \/ /\ irq.todo = {}
        /\ irq' = IdleIrq
        /\ UNCHANGED intr
     \/ \E ch \in irq.todo :
        /\ ch = "low" => "high" \notin irq.todo
        /\ intr' = intr \ {ch}
        /\ irq' = [irq EXCEPT !.pc = "slot", !.todo = @ \ {ch},
                              !.ch = ch, !.ctl = tail[ch]]
  /\ UNCHANGED <<ringVars, tx_ack_skb, queues_stopped, pw_state, torn, snd, ackw,
                 fresh, back, stopped, pos, running, sent, acks, asleep>>

\* ctl = ctl->next and the condition of the do-while loop.
ReapOn ==
  LET ch == irq.ch  s == next(irq.ctl) IN
  IF s # head[ch] /\ Reapable(ch, s)
  THEN irq' = [irq EXCEPT !.pc = "slot", !.ctl = s] /\ UNCHANGED tail
  ELSE /\ tail' = [tail EXCEPT ![ch] = s]
       /\ irq' = [irq EXCEPT !.pc = "next"]

\* A valid descriptor ends the loop ...
ReapSlot ==
  /\ irq.pc = "slot"
  /\ \/ /\ ~Reapable(irq.ch, irq.ctl)
        /\ tail' = [tail EXCEPT ![irq.ch] = irq.ctl]
        /\ irq' = [irq EXCEPT !.pc = "next"]
        /\ UNCHANGED torn
     \/ /\ Reapable(irq.ch, irq.ctl)
        /\ irq' = [irq EXCEPT !.pc = "take"]
        /\ torn' = (torn \/ HalfDone(irq.ch, irq.ctl))
        /\ UNCHANGED tail
  /\ UNCHANGED <<head, skb, ctrl, src, bd, tx_ack_skb, queues_stopped,
                 pw_state, snd, ackw, fresh, back, stopped, chipVars>>

\* ... an empty control block is skipped, a frame is freed unless mac80211
\* waits for its TX status.
ReapTake ==
  LET f == skb[irq.ch][irq.ctl] IN
  /\ irq.pc = "take"
  /\ \/ f = NoFrame /\ ReapOn /\ UNCHANGED back
     \/ /\ f # NoFrame
        /\ back' = IF f \in StatusFrames THEN back ELSE back \cup {f}
        /\ irq' = [irq EXCEPT !.pc = "wake"]
        /\ UNCHANGED tail
  /\ UNCHANGED <<head, skb, ctrl, src, bd, tx_ack_skb, queues_stopped,
                 pw_state, torn, snd, ackw, fresh, stopped, chipVars>>

\* Mutant: queues_stopped is cleared and nobody woken.
ReapForget ==
  /\ irq.pc = "wake" /\ SkbLockFree(irq.ch, irq.ctl)
  /\ queues_stopped' = FALSE
  /\ irq' = [irq EXCEPT !.pc = "clear"]
  /\ UNCHANGED <<ringVars, tx_ack_skb, pw_state, torn, snd, ackw, fresh, back,
                 stopped, chipVars>>

\* Under skb_lock: queues_stopped is cleared, then the queues are woken ...
ReapWake ==
  /\ irq.pc = "wake"
  /\ SkbLockFree(irq.ch, irq.ctl)
  /\ queues_stopped' = FALSE
  /\ irq' = [irq EXCEPT !.pc = IF queues_stopped THEN "waking" ELSE "clear"]
  /\ UNCHANGED <<ringVars, tx_ack_skb, pw_state, torn, snd, ackw, fresh, back,
                 stopped, chipVars>>

ReapWakeQueues ==
  /\ irq.pc = "waking"
  /\ stopped' = FALSE
  /\ irq' = [irq EXCEPT !.pc = "clear"]
  /\ UNCHANGED <<ringVars, tx_ack_skb, queues_stopped, pw_state, torn, snd, ackw,
                 fresh, back, chipVars>>

\* Mutant: the slot keeps its frame.
ReapKeep ==
  /\ irq.pc = "clear"
  /\ ReapOn
  /\ UNCHANGED <<head, skb, ctrl, src, bd, tx_ack_skb, queues_stopped,
                 pw_state, torn, snd, ackw, fresh, back, stopped, chipVars>>

\* ... and only then, without the lock, does the slot become empty.
ReapClear ==
  /\ irq.pc = "clear"
  /\ skb' = [skb EXCEPT ![irq.ch][irq.ctl] = NoFrame]
  /\ ReapOn
  /\ UNCHANGED <<head, ctrl, src, bd, tx_ack_skb, queues_stopped, pw_state, torn,
                 snd, ackw, fresh, back, stopped, chipVars>>

-----------------------------------------------------------------------------
(* wcn36xx_dxe_tx_ack_ind, run by the indication worker, which gives way   *)
(* to senders and to the handler.                                          *)

WorkerRuns == \E c \in Cpus : Runs(c) /\ snd[c].pc = "idle"

\* Mutant: a watchdog that does not wait for the status.
AckWatchdog ==
  /\ WorkerRuns /\ ackw = NoFrame /\ tx_ack_skb # NoFrame
  /\ ackw' = tx_ack_skb
  /\ tx_ack_skb' = NoFrame
  /\ UNCHANGED <<ringVars, queues_stopped, pw_state, torn, snd, irq, fresh, back,
                 stopped, chipVars>>

AckTake ==
  /\ WorkerRuns /\ ackw = NoFrame
  /\ \E f \in acks : acks' = acks \ {f}
  /\ ackw' = tx_ack_skb          \* NULL: a spurious indication, nothing to do
  /\ tx_ack_skb' = NoFrame
  /\ UNCHANGED <<ringVars, queues_stopped, pw_state, torn, snd, irq, fresh, back,
                 stopped, pos, running, intr, sent, asleep>>

AckWake ==
  /\ WorkerRuns /\ ackw # NoFrame
  /\ back' = back \cup {ackw}
  /\ stopped' = FALSE
  /\ ackw' = NoFrame
  /\ UNCHANGED <<ringVars, tx_ack_skb, queues_stopped, pw_state, torn, snd, irq,
                 fresh, chipVars>>

\* wcn36xx_smd_rsp_process drops an indication it has no memory for.
AckLost ==
  /\ LoseAck
  /\ \E f \in acks : acks' = acks \ {f}
  /\ UNCHANGED <<ringVars, tx_ack_skb, queues_stopped, pw_state, torn, snd, irq,
                 ackw, fresh, back, stopped, pos, running, intr, sent, asleep>>

-----------------------------------------------------------------------------
(* The chip.  VALID means "continue with this descriptor": the engine      *)
(* consumes valid descriptors in ring order and stops at the first that is *)
(* not, until the channel is enabled again.  Only the frame's descriptor   *)
(* carries EOP and the interrupt bit.                                      *)

DmaBd(ch) ==
  /\ running[ch] /\ ctrl[ch][pos[ch]] = "bd"
  /\ ctrl' = [ctrl EXCEPT ![ch][pos[ch]] = "off"]
  /\ pos' = [pos EXCEPT ![ch] = next(@)]
  /\ UNCHANGED <<head, tail, skb, src, bd, tx_ack_skb, queues_stopped,
                 pw_state, torn, snd, irq, ackw, fresh, back, stopped, running,
                 intr, sent, acks, asleep>>

DmaSkb(ch) ==
  LET f == src[ch][pos[ch]] IN
  /\ running[ch] /\ ctrl[ch][pos[ch]] = "skb"
  /\ ctrl' = [ctrl EXCEPT ![ch][pos[ch]] = "off"]
  /\ pos' = [pos EXCEPT ![ch] = next(@)]
  /\ intr' = intr \cup {ch}
  /\ sent' = sent \cup {f}
  /\ acks' = acks \cup ({f} \cap StatusFrames)
  /\ UNCHANGED <<head, tail, skb, src, bd, tx_ack_skb, queues_stopped,
                 pw_state, torn, snd, irq, ackw, fresh, back, stopped, running,
                 asleep>>

DmaStop(ch) ==
  /\ running[ch] /\ ~Valid(ch, pos[ch])
  /\ running' = [running EXCEPT ![ch] = FALSE]
  /\ UNCHANGED <<ringVars, tx_ack_skb, queues_stopped, pw_state, torn, snd, irq,
                 ackw, fresh, back, stopped, pos, intr, sent, acks, asleep>>

\* BMPS as the transmit path sees it: the chip sleeps once it has accepted
\* wcn36xx_smd_enter_bmps, and is awake again when it answers exit_bmps;
\* pw_state follows when the answer is there (pmc.c).
ChipSleep ==
  /\ PowerSave /\ pw_state = "full" /\ ~asleep
  /\ \A ch \in Channels : ~running[ch]
  /\ asleep' = TRUE /\ UNCHANGED pw_state

PmcEnter == asleep /\ pw_state = "full" /\ pw_state' = "bmps" /\ UNCHANGED asleep
ChipWake == asleep /\ pw_state = "bmps" /\ asleep' = FALSE /\ UNCHANGED pw_state
PmcExit  == ~asleep /\ pw_state = "bmps" /\ pw_state' = "full" /\ UNCHANGED asleep

Power == /\ ChipSleep \/ PmcEnter \/ ChipWake \/ PmcExit
         /\ UNCHANGED <<ringVars, tx_ack_skb, queues_stopped, torn, snd, irq,
                        ackw, fresh, back, stopped, pos, running, intr, sent, acks>>

-----------------------------------------------------------------------------
TxStep(c) == \/ TxClaim(c)   \/ TxStopForAck(c) \/ TxCheck(c) \/ TxFull(c)
             \/ TxWriteBd(c) \/ TxSetSkb(c)     \/ TxMap(c)   \/ TxLen(c)
             \/ TxValid(c)   \/ TxAdvance(c)    \/ TxDoorbell(c)
Reap == IrqChannel \/ ReapSlot \/ ReapTake \/ ReapWake \/ ReapWakeQueues
          \/ ReapClear
Dma(ch) == DmaBd(ch) \/ DmaSkb(ch) \/ DmaStop(ch)

Next ==
  \/ \E c \in Cpus : \/ \E f \in Frames : TxStart(c, f)
                     \/ TxStep(c)
                     \/ IrqEnter(c)
  \/ Reap
  \/ AckTake \/ AckWake \/ AckLost
  \/ \E ch \in Channels : Dma(ch)
  \/ Power

Spec == Init /\ [][Next]_vars

\* Threads and the engine go on, a raised interrupt is taken, an indication
\* is handled.  mac80211 need not send and the chip need not change power.
Fairness ==
  /\ \A c \in Cpus : WF_vars(TxStep(c))
  /\ WF_vars(\E c \in Cpus : IrqEnter(c)) /\ WF_vars(Reap)
  /\ WF_vars(AckTake) /\ WF_vars(AckWake)
  /\ \A ch \in Channels : WF_vars(Dma(ch))

LiveSpec == Spec /\ Fairness

-----------------------------------------------------------------------------
(* Properties.                                                             *)

RingTypes ==
  /\ head \in [Channels -> Slots] /\ tail \in [Channels -> Slots]
  /\ skb \in [Channels -> [Slots -> MaybeFrame]]
  /\ ctrl \in [Channels -> [Slots -> {"off", "bd", "skb"}]]
  /\ src \in [Channels -> [Slots -> MaybeFrame]]
  /\ bd \in [Channels -> [Slots -> MaybeFrame]]

SenderTypes ==
  /\ snd \in [Cpus -> [pc : SndPcs, frm : MaybeFrame, ctl : Slots]]
  /\ \A c \in Cpus : snd[c].pc # "idle" =>
       snd[c].frm \in Frames /\ Chan(snd[c].frm) \in Channels

HandlerTypes ==
  /\ irq \in [pc : IrqPcs, on : SUBSET Cpus, todo : SUBSET Channels,
              ch : {"high", "low"}, ctl : Slots]
  /\ irq.pc \notin {"idle", "next"} => irq.ch \in Channels

HostTypes ==
  /\ tx_ack_skb \in MaybeFrame /\ queues_stopped \in BOOLEAN
  /\ pw_state \in {"full", "bmps"} /\ ackw \in MaybeFrame
  /\ fresh \subseteq Frames /\ back \subseteq Frames /\ stopped \in BOOLEAN

ChipTypes ==
  /\ pos \in [Channels -> Slots] /\ running \in [Channels -> BOOLEAN]
  /\ intr \subseteq Channels /\ sent \subseteq MaybeFrame
  /\ acks \subseteq Frames /\ asleep \in BOOLEAN

\* Every variable keeps its type: the head and the cursors stay inside the
\* ring, a sender under way has a frame, a handler at a slot has a ring.
TypeOK == /\ RingTypes /\ SenderTypes /\ HandlerTypes /\ HostTypes /\ ChipTypes
          /\ torn \in BOOLEAN

\* "TX DXE are used in pairs. One for the BD and one for the actual frame"
\* (txrx.c:277): whatever the interleaving of senders, the head is a control
\* block with a BD buffer and the frame goes to one without, so neither
\* -EINVAL path of start_tx and dxe_tx_frame is ever taken.
PairsKept ==
  /\ \A ch \in Channels : HasBd(head[ch])
  /\ \A c \in Cpus : snd[c].pc = "skb" => ~HasBd(next(snd[c].ctl))

\* As long as no two contexts were at one pair at once, the interrupt gives
\* back, or stops tracking, only a frame the chip has sent (dxe.c:358-377):
\* round the ring VALID tells a frame to be freed from one under way.
ReapsOnlySent ==
  ~torn => (irq.pc \in {"wake", "waking", "clear"} => skb[irq.ch][irq.ctl] \in sent)

\* A descriptor the chip may still read never refers to a frame that mac80211
\* already has back ...
InFlightNotBack ==
  \A ch \in Channels : \A s \in Slots : ctrl[ch][s] = "skb" => src[ch][s] \notin back

\* ... as long as no two contexts were at one pair at once: neither reaper,
\* TX status nor refusal hands back a frame that is queued.
InFlightKept == ~torn => InFlightNotBack

\* The frame a sender queues is in its slot when it is mapped: no NULL
\* dereference at dxe.c:646 or 653 (and no other sender's frame) ...
OwnSlot ==
  \A c \in Cpus :
    /\ snd[c].pc # "oops"
    /\ snd[c].pc \in {"map", "len"} =>
         skb[Chan(snd[c].frm)][next(snd[c].ctl)] = snd[c].frm

\* ... as long as no two contexts were at one pair at once: the reaper's late
\* clearing of a slot, after it has woken the queues and without the lock
\* (dxe.c:375), never meets the next frame of that slot.
OwnSlotKept == ~torn => OwnSlot

\* The reaper looks into a frame (dxe.c:362-367) only while the driver has it:
\* what was refused or freed is not in a slot again, whatever meets in the
\* ring.  A frame with TX status may have been reported already: nothing orders
\* its indication and the reaper, who then looks into a frame mac80211 has back.
FreedOnce ==
  [][ (irq.pc = "take" /\ irq'.pc = "wake") =>
      \/ skb[irq.ch][irq.ctl] \notin back
      \/ skb[irq.ch][irq.ctl] \in StatusFrames ]_vars

\* Unless two contexts were at one pair at once, mac80211's queues are stopped
\* only with a reason on record: queues_stopped for the reaper, tx_ack_skb or
\* a status being handled for the TX status, or one of the two writes of a
\* stop or a wake is still to come (dxe.c:613, 371).  That the status of
\* tx_ack_skb will come is not said: it may be lost, or its frame refused.
StopHasReason ==
  (stopped /\ ~torn) => \/ queues_stopped
                        \/ tx_ack_skb # NoFrame \/ ackw # NoFrame
                        \/ \E c \in Cpus : snd[c].pc = "full"
                        \/ irq.pc = "waking"

\* "Keep frame until TX status comes" (dxe.c:366), "TX DXE are used in pairs. One
\* for the BD and one for the actual frame" (txrx.c:277): of a frame that was given
\* back without having been sent, because the ring was full (dxe.c:616), neither
\* tx_ack_skb nor the BD of a frame still queued is left.
RefusedLeavesNothing ==
  \A f \in back \ sent :
    /\ tx_ack_skb # f
    /\ \A ch \in Channels : \A s \in Slots : ctrl[ch][s] = "bd" => bd[ch][s] # f

\* Stopped queues are woken again (dxe.c:607-611), unless two contexts were at
\* one pair at once: the sender may then have died of it.
QueuesWoken == stopped ~> (~stopped \/ torn)

\* Every frame handed to the driver is transmitted or given back, unless two
\* contexts were at one pair at once: the doorbell always restarts an engine
\* that stopped short of it (dxe.c:664-681).
FramesSettled == \A f \in Frames : f \notin fresh ~> (f \in sent \cup back \/ torn)

\* The frames the engine has still to transmit, in ring order from where it is:
\* every second control block from the first that is a frame's.
Flying(ch)   == {s \in Slots : ctrl[ch][s] = "skb"}
First(ch)    == IF HasBd(pos[ch]) THEN next(pos[ch]) ELSE pos[ch]
Ahead(s, k)  == IF s + k < DescNum THEN s + k ELSE s + k - DescNum
InFlight(ch) ==
  [i \in 1..Cardinality(Flying(ch)) |-> src[ch][Ahead(First(ch), 2 * (i - 1))]]

Fifo == INSTANCE TxFifo WITH
  q <- [ch \in Channels |-> InFlight(ch)],
  owner <- [f \in Frames |-> IF f \in back THEN "back"
                            ELSE IF f \in sent THEN "air"
                            ELSE IF f \in fresh THEN "mac80211" ELSE "driver"]

\* The rings behave as the queues of TxFifo, step by step, until two contexts
\* are at one pair at once.
ImplementsFifo == Fifo!Init /\ [][torn' \/ Fifo!Next]_(Fifo!vars)
=============================================================================
