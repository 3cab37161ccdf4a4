------------------------------- MODULE RxRing -------------------------------
(***************************************************************************)
(* One RX descriptor ring: filled with buffers by wcn36xx_dxe_ch_alloc_skb,*)
(* emptied by the chip's DMA engine, which writes a packet into the buffer *)
(* of each VALID descriptor in turn, and refilled by the RX interrupt      *)
(* (wcn36xx_irq_rx_ready, wcn36xx_rx_handle_packets), which hands the full *)
(* buffers to mac80211 (wcn36xx_rx_skb).  The low and the high channel     *)
(* share only the interrupt line.                                          *)
(***************************************************************************)
EXTENDS Naturals, Sequences

CONSTANTS
  DescNum,   \* descriptors: 512 (low) or 40 (high) in the code
  MaxPkts,   \* bound: packets received, numbered 1..MaxPkts
  NoMem      \* alloc_skb may fail in wcn36xx_dxe_fill_skb

ASSUME RxAssumption ==
  DescNum \in Nat \ {0} /\ MaxPkts \in Nat /\ NoMem \in BOOLEAN

Slots   == 0..(DescNum - 1)
NextUnwrapped(s) == s + 1      \* mutant: the ring is not closed
next(s) == IF s = DescNum - 1 THEN 0 ELSE s + 1
Bufs    == 1..(DescNum + MaxPkts)
NoBuf   == 0

VARIABLES
  head,      \* head_blk_ctl
  skb,       \* ctl->skb of each control block
  valid,     \* the VALID bit of desc->ctrl: the chip may write
  dst,       \* the buffer desc->dst_addr_l is mapped to
  irq,       \* the handler: where it is, its ctl, the buffer to deliver
  nbuf,      \* buffers allocated so far
  content,   \* the packet in each buffer, 0 for none
  stale,     \* buffers whose slot could not be refilled
  up,        \* buffers handed to mac80211, in order
  read,      \* the packets mac80211 found in them
  pos,       \* the chip's descriptor
  running,   \* its channel is enabled (WCN36XX_DXE_ENCH_ADDR)
  intr,      \* the channel's interrupt
  came       \* packets received so far

drvVars == <<head, skb, dst, irq, nbuf, stale, up, read>>
chipVars == <<content, pos, running, intr, came>>
vars == <<drvVars, valid, chipVars>>

Init ==
  /\ head = 0
  /\ skb = [s \in Slots |-> s + 1] /\ dst = [s \in Slots |-> s + 1]
  /\ valid = [s \in Slots |-> TRUE]
  /\ irq = [pc |-> "idle", ctl |-> 0, skb |-> NoBuf]
  /\ nbuf = DescNum /\ content = [b \in Bufs |-> 0]
  /\ stale = {} /\ up = <<>> /\ read = <<>>
  /\ pos = 0 /\ running = TRUE /\ intr = FALSE /\ came = 0

-----------------------------------------------------------------------------
(* The chip.                                                               *)

DmaPacket ==
  /\ running /\ valid[pos] /\ came < MaxPkts
  /\ came' = came + 1
  /\ content' = [content EXCEPT ![dst[pos]] = came + 1]
  /\ valid' = [valid EXCEPT ![pos] = FALSE]
  /\ pos' = next(pos)
  /\ intr' = TRUE
  /\ UNCHANGED <<drvVars, running>>

\* No descriptor left: the channel stops until it is enabled again.
DmaStop ==
  /\ running /\ ~valid[pos]
  /\ running' = FALSE
  /\ UNCHANGED <<drvVars, valid, content, pos, intr, came>>

-----------------------------------------------------------------------------
(* The interrupt: wcn36xx_irq_rx_ready, wcn36xx_dxe_rx_frame.               *)

\* Mutant: from the first control block.
IrqEnterFirst ==
  /\ intr /\ irq.pc = "idle"
  /\ intr' = FALSE
  /\ irq' = [irq EXCEPT !.pc = "loop", !.ctl = 0]
  /\ UNCHANGED <<head, skb, dst, nbuf, stale, up, read, valid, content, pos,
                 running, came>>

IrqEnter ==
  /\ intr /\ irq.pc = "idle"
  /\ intr' = FALSE
  /\ irq' = [irq EXCEPT !.pc = "loop", !.ctl = head]
  /\ UNCHANGED <<head, skb, dst, nbuf, stale, up, read, valid, content, pos,
                 running, came>>

\* Mutant: the interrupt is cleared when its work is done.
RxReturnClears ==
  /\ irq.pc = "done"
  /\ head' = irq.ctl /\ intr' = FALSE
  /\ irq' = [irq EXCEPT !.pc = "idle"]
  /\ UNCHANGED <<skb, dst, nbuf, stale, up, read, valid, content, pos,
                 running, came>>

\* The loop ends at the first descriptor the chip still owns, which may be
\* filled before the handler has returned ...
RxDone ==
  /\ irq.pc = "loop" /\ valid[irq.ctl]
  /\ irq' = [irq EXCEPT !.pc = "done"]
  /\ UNCHANGED <<head, skb, dst, nbuf, stale, up, read, valid, chipVars>>

RxReturn ==
  /\ irq.pc = "done"
  /\ head' = irq.ctl
  /\ irq' = [irq EXCEPT !.pc = "idle"]
  /\ UNCHANGED <<skb, dst, nbuf, stale, up, read, valid, chipVars>>

\* Mutant: the new buffer is not mapped.
RxRefillUnmapped ==
  LET s == irq.ctl IN
  /\ irq.pc = "loop" /\ ~valid[s]
  /\ irq' = [irq EXCEPT !.pc = "arm", !.skb = skb[s]]
  /\ nbuf' = nbuf + 1 /\ skb' = [skb EXCEPT ![s] = nbuf + 1]
  /\ UNCHANGED <<head, dst, stale, up, read, valid, chipVars>>

\* ... and refills each one before it.  A failure to allocate is ignored: the
\* slot keeps the buffer that is about to be handed up.
RxRefill ==
  LET s == irq.ctl IN
  /\ irq.pc = "loop" /\ ~valid[s]
  /\ irq' = [irq EXCEPT !.pc = "arm", !.skb = skb[s]]
  /\ \/ /\ nbuf' = nbuf + 1
        /\ skb' = [skb EXCEPT ![s] = nbuf + 1]
        /\ dst' = [dst EXCEPT ![s] = nbuf + 1]
        /\ UNCHANGED stale
     \/ /\ NoMem
        /\ stale' = stale \cup {skb[s]}
        /\ UNCHANGED <<nbuf, skb, dst>>
  /\ UNCHANGED <<head, up, read, valid, chipVars>>

\* The descriptor is VALID again and the channel enabled before the packet is
\* handed up.
RxArm ==
  /\ irq.pc = "arm"
  /\ valid' = [valid EXCEPT ![irq.ctl] = TRUE]
  /\ running' = TRUE
  /\ irq' = [irq EXCEPT !.pc = "deliver"]
  /\ UNCHANGED <<head, skb, dst, nbuf, stale, up, read, content, pos, intr, came>>

\* dma_unmap_single, wcn36xx_rx_skb, ctl = ctl->next.
RxDeliver ==
  /\ irq.pc = "deliver"
  /\ up' = Append(up, irq.skb)
  /\ read' = Append(read, content[irq.skb])
  /\ irq' = [pc |-> "loop", ctl |-> next(irq.ctl), skb |-> NoBuf]
  /\ UNCHANGED <<head, skb, dst, nbuf, stale, valid, chipVars>>

RxHandler == RxDone \/ RxReturn \/ RxRefill \/ RxArm \/ RxDeliver
Next == DmaPacket \/ DmaStop \/ IrqEnter \/ RxHandler

Spec == Init /\ [][Next]_vars

\* The interrupt is taken and its handler runs; packets need not come.
LiveSpec == Spec /\ WF_vars(IrqEnter) /\ WF_vars(RxHandler)

-----------------------------------------------------------------------------
(* Properties.                                                             *)

\* Every variable keeps its type.
TypeOK ==
  /\ head \in Slots /\ pos \in Slots
  /\ skb \in [Slots -> Bufs] /\ dst \in [Slots -> Bufs]
  /\ valid \in [Slots -> BOOLEAN]
  /\ irq \in [pc : {"idle", "loop", "done", "arm", "deliver"}, ctl : Slots,
              skb : Bufs \cup {NoBuf}]
  /\ nbuf \in Bufs /\ content \in [Bufs -> 0..MaxPkts]
  /\ stale \subseteq Bufs /\ up \in Seq(Bufs) /\ read \in Seq(0..MaxPkts)
  /\ running \in BOOLEAN /\ intr \in BOOLEAN /\ came \in 0..MaxPkts

Up == {up[i] : i \in DOMAIN up}

\* The chip writes into no buffer that mac80211 has, unless the slot could
\* not be refilled when that buffer was handed up (dxe.c:478).
NoWriteAfterDelivery ==
  \A s \in Slots : valid[s] => dst[s] \notin Up \/ dst[s] \in stale

\* As long as no refill failed mac80211 gets the packets in the order the
\* chip received them, all of them, whatever it receives meanwhile.
PacketsInOrder ==
  stale = {} => \A i \in DOMAIN read : read[i] = i

\* No packet stays in the ring: an interrupt that comes while the handler
\* leaves its loop runs it again (dxe.c:515, 509).
PacketsDelivered == \A n \in 1..MaxPkts : came >= n ~> Len(up) >= n
=============================================================================
