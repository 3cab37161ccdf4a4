---------------------------- MODULE TxRingProofs ----------------------------
(***************************************************************************)
(* Proofs about TxRing, for rings of any even length, any set of frames    *)
(* and any number of CPUs, whatever the chip, mac80211 and power save do,  *)
(* and for an engine that takes every valid descriptor as it comes.        *)
(*                                                                         *)
(* Without any condition: the types (TypeOK), that BDs and frames stay in  *)
(* pairs (BdFirst), that a frame is freed once (OneSlot).                  *)
(*                                                                         *)
(* Until two contexts are at one pair at once (torn): where each frame is  *)
(* (FrameInv), what the control blocks hold and where the handler may be   *)
(* while a sender builds a frame (RingInv), what mac80211 has back         *)
(* (BackInv), why its queues are stopped, that the valid descriptors are   *)
(* contiguous (OrderInv), and from these that the rings implement TxFifo.  *)
(***************************************************************************)
EXTENDS TxRing, FiniteSetTheorems, SequenceTheorems, TLAPS

\* The head, and the control block a sender works on, have a BD buffer.
Building == {"bd", "skb", "map", "len", "valid", "advance"}
BdFirst ==
  /\ \A ch \in Channels : HasBd(head[ch])
  /\ \A c \in Cpus : snd[c].pc \in Building => HasBd(snd[c].ctl)

hostVars == <<tx_ack_skb, queues_stopped, pw_state, ackw, fresh, back, stopped>>

-----------------------------------------------------------------------------
(* The ring.                                                               *)

\* The successor of a control block is one of the ring.
LEMMA NextInRing ==
  ASSUME NEW s \in Slots
  PROVE  next(s) \in Slots
BY TxAssumption DEF Slots, next

\* BD and frame alternate, also where the ring closes: its length is even.
LEMMA NextAlternates ==
  ASSUME NEW s \in Slots
  PROVE  HasBd(next(s)) <=> ~HasBd(s)
BY TxAssumption DEF Slots, next, HasBd

\* The head moves from one BD to the next.
LEMMA AfterInRing ==
  ASSUME NEW s \in Slots
  PROVE  AfterFrame(s) \in Slots
BY NextInRing DEF AfterFrame

LEMMA AfterAlternates ==
  ASSUME NEW s \in Slots
  PROVE  HasBd(AfterFrame(s)) <=> HasBd(s)
BY NextInRing, NextAlternates DEF AfterFrame

\* Writing one slot of one ring keeps a table of slots a table of slots.
LEMMA CellTyped ==
  ASSUME NEW V, NEW F \in [Channels -> [Slots -> V]],
         NEW ch \in Channels, NEW s \in Slots, NEW v \in V
  PROVE  [F EXCEPT ![ch][s] = v] \in [Channels -> [Slots -> V]]
OBVIOUS

-----------------------------------------------------------------------------
(* Types.  First what the steps leave alone, and the two ways a sender     *)
(* moves on.                                                               *)

LEMMA Framed ==
  /\ RingTypes /\ UNCHANGED ringVars => RingTypes'
  /\ SenderTypes /\ UNCHANGED snd => SenderTypes'
  /\ HandlerTypes /\ UNCHANGED irq => HandlerTypes'
  /\ HostTypes /\ UNCHANGED hostVars => HostTypes'
  /\ ChipTypes /\ UNCHANGED chipVars => ChipTypes'
<1>1. RingTypes /\ UNCHANGED ringVars => RingTypes'
  BY DEF RingTypes, ringVars
<1>2. SenderTypes /\ UNCHANGED snd => SenderTypes'
  BY DEF SenderTypes
<1>3. HandlerTypes /\ UNCHANGED irq => HandlerTypes'
  BY DEF HandlerTypes
<1>4. HostTypes /\ UNCHANGED hostVars => HostTypes'
  BY DEF HostTypes, hostVars
<1>5. ChipTypes /\ UNCHANGED chipVars => ChipTypes'
  BY DEF ChipTypes, chipVars
<1> QED
  BY <1>1, <1>2, <1>3, <1>4, <1>5

\* A sender under way that goes on keeps its frame.
LEMMA GotoTyped ==
  ASSUME SenderTypes, NEW c \in Cpus, snd[c].pc # "idle",
         NEW pc \in SndPcs, Goto(c, pc)
  PROVE  SenderTypes'
<1>1. snd' \in [Cpus -> [pc : SndPcs, frm : MaybeFrame, ctl : Slots]]
  BY DEF SenderTypes, Goto
<1>2. \A d \in Cpus : snd'[d].frm = snd[d].frm
  BY DEF SenderTypes, Goto
<1>3. \A d \in Cpus : snd'[d].pc # "idle" => snd[d].pc # "idle"
  BY DEF SenderTypes, Goto
<1> QED
  BY <1>1, <1>2, <1>3 DEF SenderTypes, Chan

\* A sender that becomes idle.
LEMMA IdleTyped ==
  ASSUME SenderTypes, NEW c \in Cpus, snd' = [snd EXCEPT ![c] = IdleSnd]
  PROVE  SenderTypes'
<1>1. IdleSnd \in [pc : SndPcs, frm : MaybeFrame, ctl : Slots]
  BY TxAssumption DEF IdleSnd, SndPcs, MaybeFrame, Slots
<1>2. snd' \in [Cpus -> [pc : SndPcs, frm : MaybeFrame, ctl : Slots]]
  BY <1>1 DEF SenderTypes
<1>3. \A d \in Cpus : snd'[d].pc # "idle" => snd'[d] = snd[d]
  BY DEF SenderTypes, IdleSnd
<1> QED
  BY <1>2, <1>3 DEF SenderTypes, Chan

\* A refused frame was one.
LEMMA RefuseTyped ==
  ASSUME SenderTypes, HostTypes, NEW c \in Cpus, snd[c].pc # "idle", Refuse(c)
  PROVE  SenderTypes' /\ back' \subseteq Frames
<1>1. SenderTypes'
  BY IdleTyped DEF Refuse
<1>2. back' \subseteq Frames
  BY DEF SenderTypes, HostTypes, Refuse
<1> QED
  BY <1>1, <1>2

LEMMA TypeInit == Init => TypeOK
<1> SUFFICES ASSUME Init PROVE TypeOK
  OBVIOUS
<1>1. 0 \in Slots
  BY TxAssumption DEF Slots
<1>2. RingTypes /\ HostTypes /\ ChipTypes /\ torn \in BOOLEAN
  BY <1>1 DEF Init, RingTypes, HostTypes, ChipTypes, MaybeFrame
<1>3. SenderTypes /\ HandlerTypes
  BY <1>1 DEF Init, SenderTypes, HandlerTypes, IdleSnd, IdleIrq, MaybeFrame,
              SndPcs, IrqPcs
<1> QED
  BY <1>2, <1>3 DEF TypeOK

\* The steps of a sender keep the types.
LEMMA SenderStepTyped ==
  ASSUME TypeOK, NEW c \in Cpus, TxStep(c)
  PROVE  TypeOK'
<1> USE DEF TypeOK
<1>f. ASSUME snd[c].pc # "idle"
      PROVE  /\ snd[c].frm \in Frames /\ Chan(snd[c].frm) \in Channels
             /\ snd[c].ctl \in Slots /\ next(snd[c].ctl) \in Slots
             /\ AfterFrame(snd[c].ctl) \in Slots
  BY <1>f, NextInRing, AfterInRing DEF SenderTypes
<1>1. CASE TxClaim(c)
  <2>1. SenderTypes' /\ back' \subseteq Frames
    BY <1>1, GotoTyped, RefuseTyped DEF TxClaim, HostTypes, SndPcs
  <2>2. HostTypes'
    BY <1>1, <1>f, <2>1 DEF TxClaim, HostTypes, MaybeFrame
  <2> QED
    BY Framed, <1>1, <2>1, <2>2 DEF TxClaim
<1>2. CASE TxStopForAck(c)
  <2>1. SenderTypes'
    BY <1>2, GotoTyped DEF TxStopForAck, SndPcs
  <2>2. HostTypes'
    BY <1>2 DEF TxStopForAck, HostTypes
  <2> QED
    BY Framed, <1>2, <2>1, <2>2 DEF TxStopForAck, ringVars, chipVars
<1>3. CASE TxCheck(c)
  <2> DEFINE ch == Chan(snd[c].frm)
  <2>1. head[ch] \in Slots /\ snd[c].pc # "idle"
    BY <1>3, <1>f DEF TxCheck, RingTypes
  <2>2. PICK pc \in {"bd", "full"} :
          snd' = [snd EXCEPT ![c].ctl = head[ch], ![c].pc = pc]
    BY <1>3 DEF TxCheck
  <2>3. snd' \in [Cpus -> [pc : SndPcs, frm : MaybeFrame, ctl : Slots]]
    BY <2>1, <2>2 DEF SenderTypes, SndPcs
  <2>4. \A d \in Cpus : /\ snd'[d].frm = snd[d].frm
                        /\ snd'[d].pc # "idle" => snd[d].pc # "idle"
    BY <2>1, <2>2 DEF SenderTypes
  <2>5. SenderTypes'
    BY <2>3, <2>4 DEF SenderTypes, Chan
  <2>6. HostTypes' /\ torn' \in BOOLEAN
    BY <1>3 DEF TxCheck, HostTypes
  <2> QED
    BY Framed, <1>3, <2>5, <2>6 DEF TxCheck
<1>4. CASE TxFull(c)
  <2>1. SenderTypes' /\ back' \subseteq Frames
    BY <1>4, RefuseTyped DEF TxFull
  <2>2. HostTypes'
    BY <1>4, <2>1 DEF TxFull, HostTypes
  <2> QED
    BY Framed, <1>4, <2>1, <2>2 DEF TxFull
<1>5. CASE TxWriteBd(c)
  <2>1. SenderTypes'
    BY <1>5, GotoTyped DEF TxWriteBd, SndPcs
  <2>2. skb' \in [Channels -> [Slots -> MaybeFrame]]
    BY <1>5, <1>f, CellTyped DEF TxWriteBd, RingTypes, MaybeFrame
  <2>3. ctrl' \in [Channels -> [Slots -> {"off", "bd", "skb"}]]
    BY <1>5, <1>f, CellTyped DEF TxWriteBd, RingTypes
  <2>4. RingTypes'
    BY <1>5, <2>2, <2>3 DEF TxWriteBd, RingTypes
  <2> QED
    BY Framed, <1>5, <2>1, <2>4 DEF TxWriteBd, hostVars
<1>6. CASE TxSetSkb(c)
  <2>1. SenderTypes' /\ back' \subseteq Frames
    BY <1>6, GotoTyped, RefuseTyped DEF TxSetSkb, HostTypes, SndPcs
  <2>2. skb' \in [Channels -> [Slots -> MaybeFrame]]
    BY <1>6, <1>f, CellTyped DEF TxSetSkb, RingTypes, MaybeFrame
  <2>3. RingTypes' /\ HostTypes' /\ torn' \in BOOLEAN
    BY <1>6, <2>1, <2>2 DEF TxSetSkb, RingTypes, HostTypes
  <2> QED
    BY Framed, <1>6, <2>1, <2>3 DEF TxSetSkb
<1>7. CASE TxMap(c)
  <2> DEFINE ch == Chan(snd[c].frm)  s == next(snd[c].ctl)
  <2>1. SenderTypes'
    BY <1>7, GotoTyped DEF TxMap, SndPcs
  <2>2. ch \in Channels /\ s \in Slots /\ skb[ch][s] \in MaybeFrame
    BY <1>7, <1>f DEF TxMap, RingTypes
  <2>3. UNCHANGED src \/ src' = [src EXCEPT ![ch][s] = skb[ch][s]]
    BY <1>7 DEF TxMap
  <2>4. [src EXCEPT ![ch][s] = skb[ch][s]] \in [Channels -> [Slots -> MaybeFrame]]
    BY <2>2, CellTyped DEF RingTypes
  <2>5. UNCHANGED <<head, tail, skb, ctrl, bd>>
    BY <1>7 DEF TxMap
  <2>6. RingTypes'
    BY <2>3, <2>4, <2>5 DEF RingTypes
  <2> QED
    BY Framed, <1>7, <2>1, <2>6 DEF TxMap, hostVars
<1>10. CASE TxLen(c)
  <2>1. SenderTypes'
    BY <1>10, GotoTyped DEF TxLen, SndPcs
  <2> QED
    BY Framed, <1>10, <2>1 DEF TxLen, hostVars
<1>11. CASE TxValid(c)
  <2>1. SenderTypes'
    BY <1>11, GotoTyped DEF TxValid, SndPcs
  <2>2. ctrl' \in [Channels -> [Slots -> {"off", "bd", "skb"}]]
    BY <1>11, <1>f, CellTyped DEF TxValid, RingTypes
  <2>3. RingTypes'
    BY <1>11, <2>2 DEF TxValid, RingTypes
  <2> QED
    BY Framed, <1>11, <2>1, <2>3 DEF TxValid, hostVars
<1>8. CASE TxAdvance(c)
  <2>1. SenderTypes'
    BY <1>8, GotoTyped DEF TxAdvance, SndPcs
  <2>2. RingTypes'
    BY <1>8, <1>f DEF TxAdvance, RingTypes
  <2> QED
    BY Framed, <1>8, <2>1, <2>2 DEF TxAdvance, hostVars
<1>9. CASE TxDoorbell(c)
  <2>1. SenderTypes'
    BY <1>9, IdleTyped DEF TxDoorbell
  <2>2. \A ch \in Channels : (running[ch] \/ Rings(ch)) \in BOOLEAN
    OBVIOUS
  <2>3. ChipTypes'
    BY <1>9, <1>f, <2>2 DEF TxDoorbell, ChipTypes
  <2> QED
    BY Framed, <1>9, <2>1, <2>3 DEF TxDoorbell, hostVars
<1> QED
  BY <1>1, <1>2, <1>3, <1>4, <1>5, <1>6, <1>7, <1>8, <1>9, <1>10, <1>11 DEF TxStep

\* mac80211's call keeps them.
LEMMA StartTyped ==
  ASSUME TypeOK, NEW c \in Cpus, NEW f \in Frames, TxStart(c, f)
  PROVE  TypeOK'
<1> USE DEF TypeOK
<1> DEFINE ch == Chan(f)
<1>0. 0 \in Slots
  BY TxAssumption DEF Slots
<1>1. ch \in Channels /\ head[ch] \in Slots /\ 0 \in Slots
  BY <1>0 DEF TxStart, RingTypes
<1>2. [bd EXCEPT ![ch][head[ch]] = f] \in [Channels -> [Slots -> MaybeFrame]]
  BY <1>1, CellTyped DEF RingTypes, MaybeFrame
<1>3. RingTypes'
  <2>1. UNCHANGED bd \/ bd' = [bd EXCEPT ![ch][head[ch]] = f]
    BY DEF TxStart
  <2>2. UNCHANGED <<head, tail, skb, ctrl, src>>
    BY DEF TxStart
  <2> QED
    BY <1>2, <2>1, <2>2 DEF RingTypes
<1>4. HostTypes'
  BY DEF TxStart, HostTypes
<1>5. CASE UNCHANGED snd
  BY Framed, <1>3, <1>4, <1>5 DEF TxStart
<1>6. CASE ~UNCHANGED snd
  <2>1. PICK pc \in {"claim", "check"} :
          snd' = [snd EXCEPT ![c] = [pc |-> pc, frm |-> f, ctl |-> 0]]
    BY <1>6 DEF TxStart
  <2>2. [pc |-> pc, frm |-> f, ctl |-> 0]
          \in [pc : SndPcs, frm : MaybeFrame, ctl : Slots]
    BY <1>1 DEF SndPcs, MaybeFrame
  <2>3. snd' \in [Cpus -> [pc : SndPcs, frm : MaybeFrame, ctl : Slots]]
    BY <2>1, <2>2 DEF SenderTypes
  <2>4. \A d \in Cpus : snd'[d] = snd[d] \/ snd'[d].frm = f
    BY <2>1 DEF SenderTypes
  <2>5. SenderTypes'
    BY <2>3, <2>4 DEF SenderTypes, TxStart, Chan
  <2> QED
    BY Framed, <1>3, <1>4, <2>5 DEF TxStart
<1> QED
  BY <1>5, <1>6

\* The handler's steps keep them.
LEMMA HandlerStepTyped ==
  ASSUME TypeOK, Reap \/ \E c \in Cpus : IrqEnter(c)
  PROVE  TypeOK'
<1> USE DEF TypeOK
<1>1. ASSUME NEW c \in Cpus, IrqEnter(c) PROVE TypeOK'
  <2>1. 0 \in Slots
    BY TxAssumption DEF Slots
  <2>2. HandlerTypes'
    BY <1>1, <2>1 DEF IrqEnter, HandlerTypes, ChipTypes, IdleIrq, IrqPcs
  <2> QED
    BY Framed, <1>1, <2>2 DEF IrqEnter, hostVars
<1>2. CASE IrqChannel
  <2>1. IdleIrq \in [pc : IrqPcs, on : SUBSET Cpus, todo : SUBSET Channels,
                     ch : {"high", "low"}, ctl : Slots]
    BY TxAssumption DEF IdleIrq, IrqPcs, Slots
  <2>2. CASE irq' = IdleIrq /\ UNCHANGED intr
    <3>1. HandlerTypes'
      BY <2>1, <2>2 DEF HandlerTypes, IdleIrq
    <3> QED
      BY Framed, <1>2, <2>2, <3>1 DEF IrqChannel, hostVars, chipVars
  <2>3. ASSUME NEW ch \in irq.todo, intr' = intr \ {ch},
               irq' = [irq EXCEPT !.pc = "slot", !.todo = @ \ {ch},
                                  !.ch = ch, !.ctl = tail[ch]]
        PROVE  TypeOK'
    <3>1. ch \in Channels /\ tail[ch] \in Slots
      BY <2>3 DEF HandlerTypes, RingTypes
    <3>2. HandlerTypes'
      BY TxAssumption, <2>3, <3>1 DEF HandlerTypes, IrqPcs
    <3>3. ChipTypes'
      BY <1>2, <2>3 DEF IrqChannel, ChipTypes
    <3> QED
      BY Framed, <1>2, <3>2, <3>3 DEF IrqChannel, hostVars
  <2> QED
    BY <1>2, <2>2, <2>3 DEF IrqChannel
<1>3. ASSUME irq.pc \in {"slot", "take", "clear"}
      PROVE  irq.ch \in Channels /\ irq.ctl \in Slots /\ next(irq.ctl) \in Slots
  BY <1>3, NextInRing DEF HandlerTypes
<1>4. ASSUME irq.pc \in {"take", "clear"}, ReapOn
      PROVE  HandlerTypes' /\ tail' \in [Channels -> Slots]
  BY <1>3, <1>4 DEF ReapOn, HandlerTypes, RingTypes, IrqPcs
<1>5. CASE ReapSlot
  <2>1. HandlerTypes' /\ tail' \in [Channels -> Slots]
    BY <1>3, <1>5 DEF ReapSlot, HandlerTypes, RingTypes, IrqPcs
  <2>2. RingTypes' /\ torn' \in BOOLEAN
    BY <1>5, <2>1 DEF ReapSlot, RingTypes
  <2> QED
    BY Framed, <1>5, <2>1, <2>2 DEF ReapSlot, hostVars
<1>9. CASE ReapTake
  <2>1. HandlerTypes' /\ tail' \in [Channels -> Slots]
    <3>1. CASE ReapOn
      BY <1>4, <1>9, <3>1 DEF ReapTake
    <3>2. CASE irq' = [irq EXCEPT !.pc = "wake"] /\ UNCHANGED tail
      BY <1>3, <1>9, <3>2 DEF ReapTake, HandlerTypes, RingTypes, IrqPcs
    <3> QED
      BY <1>9, <3>1, <3>2 DEF ReapTake
  <2>2. skb[irq.ch][irq.ctl] \in MaybeFrame
    BY <1>3, <1>9 DEF ReapTake, RingTypes
  <2>3. back' \subseteq Frames
    BY <1>9, <2>2 DEF ReapTake, HostTypes, MaybeFrame
  <2>4. RingTypes' /\ HostTypes'
    BY <1>9, <2>1, <2>3 DEF ReapTake, RingTypes, HostTypes
  <2> QED
    BY Framed, <1>9, <2>1, <2>4 DEF ReapTake
<1>6. CASE ReapWake
  <2>1. HandlerTypes' /\ HostTypes'
    BY <1>6 DEF ReapWake, HandlerTypes, HostTypes, IrqPcs
  <2> QED
    BY Framed, <1>6, <2>1 DEF ReapWake
<1>7. CASE ReapWakeQueues
  <2>1. HandlerTypes' /\ HostTypes'
    BY <1>7 DEF ReapWakeQueues, HandlerTypes, HostTypes, IrqPcs
  <2> QED
    BY Framed, <1>7, <2>1 DEF ReapWakeQueues
<1>8. CASE ReapClear
  <2>1. HandlerTypes' /\ tail' \in [Channels -> Slots]
    BY <1>4, <1>8 DEF ReapClear
  <2>2. skb' \in [Channels -> [Slots -> MaybeFrame]]
    BY <1>3, <1>8, CellTyped DEF ReapClear, RingTypes, MaybeFrame
  <2>3. RingTypes'
    BY <1>8, <2>1, <2>2 DEF ReapClear, RingTypes
  <2> QED
    BY Framed, <1>8, <2>1, <2>3 DEF ReapClear, hostVars
<1> QED
  BY <1>1, <1>2, <1>5, <1>6, <1>7, <1>8, <1>9 DEF Reap

\* So do the indication worker's, the chip's and those of power save.
LEMMA OtherStepTyped ==
  ASSUME TypeOK,
         \/ AckTake \/ AckWake \/ AckLost \/ Power
         \/ \E ch \in Channels : Dma(ch)
  PROVE  TypeOK'
<1> USE DEF TypeOK
<1>1. CASE AckTake
  <2>1. HostTypes' /\ ChipTypes'
    BY <1>1 DEF AckTake, HostTypes, ChipTypes, MaybeFrame
  <2> QED
    BY Framed, <1>1, <2>1 DEF AckTake
<1>2. CASE AckWake
  <2>1. HostTypes'
    BY <1>2 DEF AckWake, HostTypes, MaybeFrame
  <2> QED
    BY Framed, <1>2, <2>1 DEF AckWake
<1>3. CASE AckLost
  <2>1. ChipTypes'
    BY <1>3 DEF AckLost, ChipTypes
  <2> QED
    BY Framed, <1>3, <2>1 DEF AckLost, hostVars
<1>4. CASE Power
  <2>1. HostTypes' /\ ChipTypes'
    BY <1>4 DEF Power, ChipSleep, PmcEnter, ChipWake, PmcExit, HostTypes, ChipTypes
  <2> QED
    BY Framed, <1>4, <2>1 DEF Power
<1>5. ASSUME NEW ch \in Channels, DmaBd(ch) \/ DmaSkb(ch)
      PROVE  TypeOK'
  <2>1. pos[ch] \in Slots /\ next(pos[ch]) \in Slots /\ src[ch][pos[ch]] \in MaybeFrame
    BY NextInRing DEF ChipTypes, RingTypes
  <2>2. [ctrl EXCEPT ![ch][pos[ch]] = "off"] \in [Channels -> [Slots -> {"off", "bd", "skb"}]]
    BY <2>1, CellTyped DEF RingTypes
  <2>3. RingTypes'
    BY <1>5, <2>2 DEF DmaBd, DmaSkb, RingTypes
  <2>4. pos' \in [Channels -> Slots]
    BY <1>5, <2>1 DEF DmaBd, DmaSkb, ChipTypes
  <2>5. ChipTypes'
    <3>1. CASE DmaBd(ch)
      BY <2>4, <3>1 DEF DmaBd, ChipTypes
    <3>2. CASE DmaSkb(ch)
      BY <2>1, <2>4, <3>2, TxAssumption DEF DmaSkb, ChipTypes
    <3> QED
      BY <1>5, <3>1, <3>2
  <2>6. UNCHANGED <<snd, irq, hostVars, torn>>
    BY <1>5 DEF DmaBd, DmaSkb, hostVars
  <2> QED
    BY Framed, <2>3, <2>5, <2>6
<1>6. ASSUME NEW ch \in Channels, DmaStop(ch)
      PROVE  TypeOK'
  <2>1. ChipTypes'
    BY <1>6 DEF DmaStop, ChipTypes
  <2> QED
    BY Framed, <1>6, <2>1 DEF DmaStop, hostVars
<1> QED
  BY <1>1, <1>2, <1>3, <1>4, <1>5, <1>6 DEF Dma

LEMMA TypeNext == TypeOK /\ [Next]_vars => TypeOK'
<1> SUFFICES ASSUME TypeOK, [Next]_vars PROVE TypeOK'
  OBVIOUS
<1>1. CASE UNCHANGED vars
  BY Framed, <1>1 DEF vars, hostVars, TypeOK
<1>2. CASE Next
  BY <1>2, StartTyped, SenderStepTyped, HandlerStepTyped, OtherStepTyped DEF Next
<1> QED
  BY <1>1, <1>2

\* Every variable of the transmit path keeps its type in every behaviour: the
\* head, the tail and the cursors of senders, handler and engine stay inside
\* the ring (dxe.c:591-684, 347-383), however many CPUs send at once.
THEOREM TypeCorrect == Spec => []TypeOK
BY TypeInit, TypeNext, PTL DEF Spec

-----------------------------------------------------------------------------
(* Pairs.                                                                  *)

\* Only TxAdvance moves a head, only senders move senders.
LEMMA BdFirstFramed == BdFirst /\ UNCHANGED <<head, snd>> => BdFirst'
BY DEF BdFirst

\* A sender that goes on without taking a control block.
LEMMA BdFirstGoto ==
  ASSUME TypeOK, BdFirst, UNCHANGED head, NEW c \in Cpus, NEW pc \in SndPcs,
         snd[c].pc \in Building \/ pc \notin Building, Goto(c, pc)
  PROVE  BdFirst'
<1>1. \A d \in Cpus : /\ snd'[d].ctl = snd[d].ctl
                      /\ snd'[d].pc \in Building => snd[d].pc \in Building
  BY DEF TypeOK, SenderTypes, Goto
<1> QED
  BY <1>1 DEF BdFirst

LEMMA BdFirstIdle ==
  ASSUME TypeOK, BdFirst, UNCHANGED head, NEW c \in Cpus, NEW r,
         r.pc \notin Building, snd' = [snd EXCEPT ![c] = r]
  PROVE  BdFirst'
<1>1. \A d \in Cpus : snd'[d].pc \in Building => snd'[d] = snd[d]
  BY DEF TypeOK, SenderTypes
<1> QED
  BY <1>1 DEF BdFirst

LEMMA BdFirstNext == TypeOK /\ BdFirst /\ [Next]_vars => BdFirst'
<1> SUFFICES ASSUME TypeOK, BdFirst, [Next]_vars PROVE BdFirst'
  OBVIOUS
<1>1. ASSUME NEW c \in Cpus, NEW f \in Frames, TxStart(c, f) PROVE BdFirst'
  <2>1. CASE UNCHANGED snd
    BY BdFirstFramed, <1>1, <2>1 DEF TxStart
  <2>2. CASE ~UNCHANGED snd
    <3>1. PICK pc \in {"claim", "check"} :
            snd' = [snd EXCEPT ![c] = [pc |-> pc, frm |-> f, ctl |-> 0]]
      BY <1>1, <2>2 DEF TxStart
    <3>2. [pc |-> pc, frm |-> f, ctl |-> 0].pc \notin Building
      BY DEF Building
    <3> QED
      BY BdFirstIdle, <1>1, <3>1, <3>2 DEF TxStart
  <2> QED
    BY <2>1, <2>2
<1>2. ASSUME NEW c \in Cpus, Refuse(c) \/ TxDoorbell(c), UNCHANGED head PROVE BdFirst'
  <2>1. IdleSnd.pc \notin Building
    BY DEF IdleSnd, Building
  <2> QED
    BY BdFirstIdle, <1>2, <2>1 DEF Refuse, TxDoorbell
<1>3. ASSUME NEW c \in Cpus, TxClaim(c) \/ TxFull(c) PROVE BdFirst'
  BY BdFirstGoto, <1>2, <1>3 DEF TxClaim, TxFull, SndPcs, Building, ringVars
<1>4. ASSUME NEW c \in Cpus, TxStopForAck(c) PROVE BdFirst'
  BY BdFirstGoto, <1>4 DEF TxStopForAck, SndPcs, Building, ringVars
\* The sender takes the head, a BD's control block.
<1>5. ASSUME NEW c \in Cpus, TxCheck(c) PROVE BdFirst'
  <2> DEFINE ch == Chan(snd[c].frm)
  <2>1. PICK pc \in {"bd", "full"} :
          snd' = [snd EXCEPT ![c].ctl = head[ch], ![c].pc = pc]
    BY <1>5 DEF TxCheck
  <2>2. snd[c].pc # "idle"
    BY <1>5 DEF TxCheck
  <2>3. HasBd(head[ch])
    BY <2>2 DEF BdFirst, TypeOK, SenderTypes
  <2>4. snd'[c].ctl = head[ch] /\ \A d \in Cpus : d # c => snd'[d] = snd[d]
    BY <2>1 DEF TypeOK, SenderTypes
  <2> QED
    BY <1>5, <2>3, <2>4 DEF TxCheck, BdFirst, ringVars
<1>6. ASSUME NEW c \in Cpus, TxWriteBd(c) \/ TxMap(c) \/ TxLen(c) \/ TxValid(c)
      PROVE  BdFirst'
  BY BdFirstGoto, <1>6 DEF TxWriteBd, TxMap, TxLen, TxValid, SndPcs, Building, ringVars
<1>7. ASSUME NEW c \in Cpus, TxSetSkb(c) PROVE BdFirst'
  BY BdFirstGoto, <1>2, <1>7 DEF TxSetSkb, SndPcs, Building
\* The head moves by two.
<1>8. ASSUME NEW c \in Cpus, TxAdvance(c) PROVE BdFirst'
  <2>1. snd[c].ctl \in Slots /\ HasBd(snd[c].ctl)
    BY <1>8 DEF TxAdvance, TypeOK, SenderTypes, BdFirst, Building
  <2>2. HasBd(AfterFrame(snd[c].ctl))
    BY <2>1, AfterAlternates
  <2>3. \A ch \in Channels : HasBd(head'[ch])
    BY <1>8, <2>2 DEF TxAdvance, TypeOK, RingTypes, BdFirst
  <2>4. \A d \in Cpus : /\ snd'[d].ctl = snd[d].ctl
                        /\ snd'[d].pc \in Building => snd[d].pc \in Building
    BY <1>8 DEF TxAdvance, Goto, TypeOK, SenderTypes, Building
  <2> QED
    BY <2>3, <2>4 DEF BdFirst
<1>9. ASSUME NEW c \in Cpus, TxDoorbell(c) PROVE BdFirst'
  BY <1>2, <1>9 DEF TxDoorbell, ringVars
<1>10. ASSUME \/ \E c \in Cpus : IrqEnter(c)
              \/ Reap \/ AckTake \/ AckWake \/ AckLost \/ Power
              \/ \E ch \in Channels : Dma(ch)
              \/ UNCHANGED vars
       PROVE  BdFirst'
  <2>1. UNCHANGED <<head, snd>>
    BY <1>10 DEF IrqEnter, Reap, IrqChannel, ReapSlot, ReapTake, ReapOn,
      ReapWake, ReapWakeQueues, ReapClear, AckTake, AckWake, AckLost, Power, Dma, DmaBd,
      DmaSkb, DmaStop, ringVars, vars
  <2> QED
    BY <2>1, BdFirstFramed
<1> QED
  BY <1>1, <1>3, <1>4, <1>5, <1>6, <1>7, <1>8, <1>9, <1>10 DEF Next, TxStep

\* BDs and frames stay in pairs (txrx.c:277): whatever the interleaving of
\* senders, every head is a control block with a BD buffer, and no frame goes
\* to one.  So the -EINVAL paths of txrx.c:283 and dxe.c:641 are dead, for
\* every ring of even length.
THEOREM PairsAreKept == Spec => []PairsKept
<1>1. Init => BdFirst
  BY DEF Init, BdFirst, Building, IdleSnd, HasBd
<1>2. TypeOK /\ BdFirst => PairsKept
  <2> SUFFICES ASSUME TypeOK, BdFirst, NEW c \in Cpus, snd[c].pc = "skb"
               PROVE  ~HasBd(next(snd[c].ctl))
    BY DEF PairsKept, BdFirst
  <2>1. snd[c].ctl \in Slots /\ HasBd(snd[c].ctl)
    BY DEF TypeOK, SenderTypes, BdFirst, Building
  <2> QED
    BY <2>1, NextAlternates
<1>3. Spec => []BdFirst
  BY <1>1, TypeCorrect, BdFirstNext, PTL DEF Spec
<1> QED
  BY <1>2, <1>3, TypeCorrect, PTL

-----------------------------------------------------------------------------
(* Where frames are, as long as no two contexts were at one pair at once.  *)
(* A frame is with mac80211, with one sender, in one slot of a ring, or    *)
(* sent; a frame that waits for its TX status is the only one and is in    *)
(* tx_ack_skb.                                                             *)

\* The frames only a sender has: not yet the engine's, not yet given back.
Held    == {"claim", "stop", "check", "full", "bd", "skb", "map", "len", "valid"}
\* The frame is in its control block, whose descriptor is not yet valid.
Storing == {"map", "len", "valid"}
InRing(f) == \E ch \in Channels, s \in Slots : ctrl[ch][s] = "skb" /\ src[ch][s] = f
Under(pcs, c, ch) == snd[c].pc \in pcs /\ Chan(snd[c].frm) = ch
\* The reaper works on the control block's frame.
At(ch, s) == irq.pc \in {"take", "wake", "waking", "clear"} /\ irq.ch = ch /\ irq.ctl = s

\* Senders have frames of their own, and at most one builds in a ring.
Apart ==
  \A c, d \in Cpus : c # d =>
    /\ (snd[c].pc # "idle" /\ snd[d].pc # "idle") => snd[c].frm # snd[d].frm
    /\ (snd[c].pc \in Building /\ snd[d].pc \in Building)
         => Chan(snd[c].frm) # Chan(snd[d].frm)

SenderFrames ==
  \A c \in Cpus :
    /\ snd[c].pc # "idle" => snd[c].frm \notin fresh
    /\ snd[c].pc \in Held => snd[c].frm \notin sent /\ ~InRing(snd[c].frm)
    /\ snd[c].pc \in {"claim", "stop"} => snd[c].frm \in StatusFrames

RingFrames ==
  /\ \A ch \in Channels, s \in Slots :
       ctrl[ch][s] = "skb" => src[ch][s] \in Frames \ (fresh \cup sent)
  /\ \A ch, dh \in Channels : \A s, r \in Slots :
       (ctrl[ch][s] = "skb" /\ ctrl[dh][r] = "skb" /\ src[ch][s] = src[dh][r])
         => ch = dh /\ s = r
  /\ sent \cap fresh = {}

AckFrames ==
  /\ acks \subseteq sent \cap StatusFrames
  /\ \A f \in StatusFrames :
       (\/ InRing(f) \/ f \in acks
        \/ \E c \in Cpus : snd[c].frm = f /\ snd[c].pc \in Held \ {"claim"})
         => tx_ack_skb = f

FrameInv == SenderFrames /\ RingFrames /\ AckFrames

\* What the control blocks hold.  Valid descriptors alternate as the blocks do,
\* and a block that has a frame has it for the engine, for the reaper, or for
\* the sender at it.
SlotInv ==
  \A ch \in Channels, s \in Slots :
    /\ ctrl[ch][s] = "bd" => HasBd(s)
    /\ ctrl[ch][s] = "skb" => ~HasBd(s) /\ skb[ch][s] = src[ch][s]
    /\ skb[ch][s] # NoFrame =>
         /\ ~HasBd(s)
         /\ \/ ctrl[ch][s] = "skb" \/ skb[ch][s] \in sent
            \/ \E c \in Cpus : Under(Storing, c, ch) /\ s = next(snd[c].ctl)

\* The control blocks a sender works on are the head's and free, and once its
\* frame is in, the reaper is not at it.
BuildInv ==
  \A c \in Cpus :
    LET ch == Chan(snd[c].frm)  s == next(snd[c].ctl) IN
    /\ snd[c].pc \in Building => snd[c].ctl = head[ch]
    /\ snd[c].pc \in {"bd", "skb"} => skb[ch][s] = NoFrame
    /\ snd[c].pc \in Storing =>
         skb[ch][s] = snd[c].frm /\ ctrl[ch][s] = "off" /\ ~At(ch, s)
    /\ snd[c].pc \in {"len", "valid"} => src[ch][s] = snd[c].frm
    /\ snd[c].pc # "oops"

\* What the reaper works on is free of the engine, and what it frees was sent.
HandlerInv ==
  /\ irq.pc = "take" => HasBd(irq.ctl) \/ ~Valid(irq.ch, irq.ctl)
  /\ irq.pc \in {"wake", "waking", "clear"} =>
       skb[irq.ch][irq.ctl] \in sent \cap Frames /\ ~Valid(irq.ch, irq.ctl)

\* mac80211 has back only frames that the driver no longer uses.
BackInv ==
  /\ fresh \cap back = {}
  /\ \A c \in Cpus : snd[c].pc \in Held => snd[c].frm \notin back
  /\ \A f \in back : ~InRing(f)
  /\ ackw \in sent \cup {NoFrame}

RingInv == SlotInv /\ BuildInv /\ HandlerInv
PathInv == Apart /\ FrameInv /\ RingInv /\ BackInv

-----------------------------------------------------------------------------
(* How senders move.                                                       *)

\* A sender goes on with its frame or becomes idle.
Onward(d) ==
  snd'[d].pc # "idle" =>
    /\ snd[d].pc # "idle" /\ snd'[d].frm = snd[d].frm
    /\ snd'[d].pc \in Held => snd[d].pc \in Held
    /\ snd'[d].pc \in Held \ {"claim"} => snd[d].pc \in Held \ {"claim"}
    /\ snd'[d].pc \in {"claim", "stop"} => snd[d].pc \in {"claim", "stop"}

LEMMA GotoMoves ==
  ASSUME TypeOK, NEW c \in Cpus, NEW pc, Goto(c, pc)
  PROVE  /\ snd'[c].pc = pc
         /\ \A d \in Cpus : /\ snd'[d].frm = snd[d].frm /\ snd'[d].ctl = snd[d].ctl
                            /\ d # c => snd'[d] = snd[d]
BY DEF TypeOK, SenderTypes, Goto

LEMMA GotoOnward ==
  ASSUME TypeOK, NEW c \in Cpus, NEW pc, Goto(c, pc),
         snd[c].pc # "idle", pc \notin {"claim", "stop"},
         pc \in Held => snd[c].pc \in Held \ {"claim"}
  PROVE  \A d \in Cpus : Onward(d)
BY GotoMoves DEF Onward

LEMMA IdleMoves ==
  ASSUME TypeOK, NEW c \in Cpus, snd' = [snd EXCEPT ![c] = IdleSnd]
  PROVE  /\ snd'[c].pc = "idle" /\ \A d \in Cpus : d # c => snd'[d] = snd[d]
         /\ \A d \in Cpus : Onward(d)
<1>1. snd'[c].pc = "idle" /\ \A d \in Cpus : d # c => snd'[d] = snd[d]
  BY DEF TypeOK, SenderTypes, IdleSnd
<1> QED
  BY <1>1 DEF Onward

LEMMA CheckMoves ==
  ASSUME TypeOK, NEW c \in Cpus, TxCheck(c)
  PROVE  /\ snd[c].pc = "check" /\ snd'[c].pc \in {"bd", "full"}
         /\ snd'[c].frm = snd[c].frm /\ snd'[c].ctl = head[Chan(snd[c].frm)]
         /\ \A d \in Cpus : d # c => snd'[d] = snd[d]
<1>1. PICK pc \in {"bd", "full"} :
        snd' = [snd EXCEPT ![c].ctl = head[Chan(snd[c].frm)], ![c].pc = pc]
  BY DEF TxCheck
<1>2. snd[c].pc = "check"
  BY DEF TxCheck
<1> QED
  BY <1>1, <1>2 DEF TypeOK, SenderTypes

LEMMA StartMoves ==
  ASSUME TypeOK, BdFirst, NEW c \in Cpus, NEW f \in Frames, TxStart(c, f)
  PROVE  /\ snd'[c].frm = f /\ snd'[c].pc = IF f \in StatusFrames THEN "claim" ELSE "check"
         /\ \A d \in Cpus : d # c => snd'[d] = snd[d]
         /\ f \in fresh /\ fresh' = fresh \ {f} /\ snd[c].pc = "idle"
         /\ UNCHANGED <<head, skb, ctrl, src, tx_ack_skb, irq, ackw, back, sent, acks>>
<1>1. HasBd(head[Chan(f)])
  BY DEF TxStart, BdFirst
<1>2. snd' = [snd EXCEPT ![c] = [pc |-> IF f \in StatusFrames THEN "claim" ELSE "check",
                                 frm |-> f, ctl |-> 0]]
  BY <1>1 DEF TxStart
<1>3. /\ f \in fresh /\ fresh' = fresh \ {f} /\ snd[c].pc = "idle"
      /\ UNCHANGED <<head, skb, ctrl, src, tx_ack_skb, irq, ackw, back, sent, acks>>
  BY <1>1 DEF TxStart, chipVars
<1> QED
  BY <1>2, <1>3 DEF TypeOK, SenderTypes

\* Senders of one ring meet only where torn records it.
LEMMA ApartNext ==
  ASSUME TypeOK, BdFirst, SenderFrames, Apart, [Next]_vars, ~torn'
  PROVE  Apart'
<1> DEFINE Still(d) == snd'[d].pc # "idle" =>
                         /\ snd[d].pc # "idle" /\ snd'[d].frm = snd[d].frm
                         /\ snd'[d].pc \in Building => snd[d].pc \in Building
<1>0. ASSUME \A d \in Cpus : Still(d) PROVE Apart'
  BY <1>0 DEF Apart, Chan, Building
<1>1. ASSUME NEW c \in Cpus, NEW f \in Frames, TxStart(c, f) PROVE Apart'
  <2>1. /\ snd'[c].frm = f /\ snd'[c].pc \notin Building
        /\ \A d \in Cpus : d # c => snd'[d] = snd[d]
        /\ f \in fresh
    BY <1>1, StartMoves DEF Building
  <2> QED
    BY <2>1 DEF Apart, SenderFrames, Chan
<1>2. ASSUME NEW c \in Cpus, TxCheck(c) PROVE Apart'
  <2>1. /\ snd[c].pc = "check" /\ snd'[c].pc \in {"bd", "full"} /\ snd'[c].frm = snd[c].frm
        /\ \A d \in Cpus : d # c => snd'[d] = snd[d]
    BY <1>2, CheckMoves
  <2>2. CASE snd'[c].pc = "full"
    BY <1>0, <2>1, <2>2 DEF Building
  <2>3. CASE snd'[c].pc = "bd"
    <3>1. torn' = (torn \/ \E d \in Cpus : Builds(d, Chan(snd[c].frm)))
      BY <1>2, <2>3 DEF TxCheck, TypeOK, SenderTypes
    <3>2. ASSUME NEW d \in Cpus, snd[d].pc \in Building PROVE Chan(snd[d].frm) # Chan(snd[c].frm)
      BY <3>1, <3>2 DEF Builds, Building
    <3> QED
      BY <2>1, <3>2 DEF Apart, Chan
  <2> QED
    BY <2>1, <2>2, <2>3
<1>3. ASSUME NEW c \in Cpus, NEW pc, Goto(c, pc), snd[c].pc # "idle",
             pc \in Building => snd[c].pc \in Building
      PROVE  Apart'
  BY <1>0, <1>3, GotoMoves
<1>4. ASSUME NEW c \in Cpus, snd' = [snd EXCEPT ![c] = IdleSnd] PROVE Apart'
  BY <1>0, <1>4, IdleMoves
<1>5. ASSUME NEW c \in Cpus, TxStep(c) PROVE Apart'
  <2>1. CASE TxClaim(c) \/ TxFull(c) \/ TxDoorbell(c)
    BY <1>3, <1>4, <2>1 DEF TxClaim, TxFull, TxDoorbell, Refuse, Building
  <2>2. CASE TxStopForAck(c) \/ TxAdvance(c)
    BY <1>3, <2>2 DEF TxStopForAck, TxAdvance, Building
  <2>3. CASE TxWriteBd(c) \/ TxSetSkb(c)
    BY <1>3, <1>4, <2>3 DEF TxWriteBd, TxSetSkb, Refuse, Building
  <2>4. CASE TxMap(c) \/ TxLen(c) \/ TxValid(c)
    BY <1>3, <2>4 DEF TxMap, TxLen, TxValid, Building
  <2> QED
    BY <1>2, <1>5, <2>1, <2>2, <2>3, <2>4 DEF TxStep
<1>6. CASE \/ \E c \in Cpus : IrqEnter(c)
           \/ Reap \/ AckTake \/ AckWake \/ AckLost \/ Power
           \/ \E ch \in Channels : Dma(ch)
           \/ UNCHANGED vars
  <2>1. UNCHANGED snd
    BY <1>6 DEF IrqEnter, Reap, IrqChannel, ReapSlot, ReapTake, ReapWake, ReapWakeQueues,
      ReapClear, AckTake, AckWake, AckLost, Power, Dma, DmaBd, DmaSkb, DmaStop, vars
  <2> QED
    BY <1>0, <2>1
<1> QED
  BY <1>1, <1>5, <1>6 DEF Next

-----------------------------------------------------------------------------
(* FrameInv.                                                               *)

\* Nothing becomes visible to the engine.
Fewer == \A ch \in Channels, s \in Slots :
           ctrl'[ch][s] = "skb" => ctrl[ch][s] = "skb" /\ src'[ch][s] = src[ch][s]

LEMMA FewerRing ==
  ASSUME RingFrames, Fewer, fresh' \subseteq fresh, sent' = sent
  PROVE  /\ RingFrames'
         /\ \A f : InRing(f)' => InRing(f)
<1>1. \A f : InRing(f)' => InRing(f)
  BY DEF Fewer, InRing
<1>2. RingFrames'
  BY DEF Fewer, RingFrames
<1> QED
  BY <1>1, <1>2

LEMMA OnwardFrames ==
  ASSUME FrameInv, Fewer, fresh' \subseteq fresh, sent' = sent, acks' \subseteq acks,
         tx_ack_skb' = tx_ack_skb, \A d \in Cpus : Onward(d)
  PROVE  FrameInv'
<1>1. RingFrames' /\ \A f : InRing(f)' => InRing(f)
  BY FewerRing DEF FrameInv
<1>2. SenderFrames'
  <2>1. ASSUME NEW c \in Cpus, snd'[c].pc \in Held
        PROVE  \A ch \in Channels, s \in Slots :
                 ~(ctrl'[ch][s] = "skb" /\ src'[ch][s] = snd'[c].frm)
    BY <2>1 DEF FrameInv, SenderFrames, Onward, Fewer, InRing, Held
  <2>2. ASSUME NEW c \in Cpus
        PROVE  /\ snd'[c].pc # "idle" => snd'[c].frm \notin fresh'
               /\ snd'[c].pc \in Held => snd'[c].frm \notin sent'
               /\ snd'[c].pc \in {"claim", "stop"} => snd'[c].frm \in StatusFrames
    BY DEF FrameInv, SenderFrames, Onward, Held
  <2> QED
    BY <2>1, <2>2 DEF SenderFrames, InRing
<1>3. AckFrames'
  <2>1. acks' \subseteq sent' \cap StatusFrames
    BY DEF FrameInv, AckFrames
  <2>2. ASSUME NEW f \in StatusFrames,
               \/ InRing(f)' \/ f \in acks'
               \/ \E c \in Cpus : snd'[c].frm = f /\ snd'[c].pc \in Held \ {"claim"}
        PROVE  tx_ack_skb' = f
    <3>1. \/ InRing(f) \/ f \in acks
          \/ \E c \in Cpus : snd[c].frm = f /\ snd[c].pc \in Held \ {"claim"}
      BY <1>1, <2>2 DEF Onward, Held
    <3> QED
      BY <3>1 DEF FrameInv, AckFrames
  <2> QED
    BY <2>1, <2>2 DEF AckFrames, InRing
<1> QED
  BY <1>1, <1>2, <1>3 DEF FrameInv

LEMMA FrameInit == Init => FrameInv
<1> SUFFICES ASSUME Init PROVE FrameInv
  OBVIOUS
<1>1. \A c \in Cpus : snd[c].pc = "idle"
  BY DEF Init, IdleSnd
<1>2. \A ch \in Channels, s \in Slots : ctrl[ch][s] = "off"
  BY DEF Init
<1>3. sent = {} /\ acks = {}
  BY DEF Init
<1> QED
  BY <1>1, <1>2, <1>3 DEF FrameInv, SenderFrames, RingFrames, AckFrames, InRing, Held

\* A frame that mac80211 hands over is in no ring and was not sent.
LEMMA StartFrames ==
  ASSUME TypeOK, BdFirst, FrameInv, NEW c \in Cpus, NEW f \in Frames, TxStart(c, f)
  PROVE  FrameInv'
<1>1. /\ snd'[c].frm = f /\ snd'[c].pc = IF f \in StatusFrames THEN "claim" ELSE "check"
      /\ \A d \in Cpus : d # c => snd'[d] = snd[d]
      /\ f \in fresh /\ fresh' = fresh \ {f}
      /\ UNCHANGED <<ctrl, src, sent, acks, tx_ack_skb>>
  BY StartMoves
<1>2. RingFrames' /\ \A g : InRing(g)' => InRing(g)
  BY <1>1 DEF FrameInv, RingFrames, InRing
<1>3. ~InRing(f) /\ f \notin sent
  BY <1>1 DEF FrameInv, RingFrames, InRing
<1>4. SenderFrames'
  BY <1>1, <1>3 DEF FrameInv, SenderFrames, InRing, Held
<1>5. AckFrames'
  BY <1>1 DEF FrameInv, AckFrames, InRing
<1> QED
  BY <1>2, <1>4, <1>5 DEF FrameInv

\* The claim is what makes a frame that waits for its status the only one.
LEMMA ClaimFrames ==
  ASSUME TypeOK, FrameInv, NEW c \in Cpus, TxClaim(c)
  PROVE  FrameInv'
<1>0. /\ UNCHANGED <<ctrl, src, sent, acks, fresh>>
      /\ snd[c].pc = "claim"
  BY DEF TxClaim, ringVars, chipVars
<1>1. CASE tx_ack_skb # NoFrame
  <2>1. UNCHANGED tx_ack_skb /\ Refuse(c)
    BY <1>1 DEF TxClaim
  <2>2. \A d \in Cpus : Onward(d)
    BY <2>1, IdleMoves DEF Refuse
  <2>3. Fewer
    BY <1>0 DEF Fewer
  <2> QED
    BY <1>0, <2>1, <2>2, <2>3, OnwardFrames
<1>2. CASE tx_ack_skb = NoFrame
  <2> DEFINE f == snd[c].frm
  <2>1. tx_ack_skb' = f /\ Goto(c, "stop")
    BY <1>2 DEF TxClaim
  <2>2. /\ \A d \in Cpus : snd'[d].frm = snd[d].frm
        /\ snd'[c].pc = "stop" /\ \A d \in Cpus : d # c => snd'[d] = snd[d]
    BY <2>1, GotoMoves
  <2>3. RingFrames'
    BY <1>0 DEF FrameInv, RingFrames
  <2>4. SenderFrames'
    BY <1>0, <2>2 DEF FrameInv, SenderFrames, InRing, Held
  <2>5. ASSUME NEW g \in StatusFrames,
               \/ InRing(g) \/ g \in acks
               \/ \E d \in Cpus : snd[d].frm = g /\ snd[d].pc \in Held \ {"claim"}
        PROVE  FALSE
    BY <1>2, <2>5, TxAssumption DEF FrameInv, AckFrames
  <2>6. ASSUME NEW g \in StatusFrames, NEW d \in Cpus,
               snd'[d].frm = g, snd'[d].pc \in Held \ {"claim"}
        PROVE  g = f
    BY <2>2, <2>5, <2>6
  <2>7. AckFrames'
    BY <1>0, <2>1, <2>5, <2>6 DEF FrameInv, AckFrames, InRing
  <2> QED
    BY <2>3, <2>4, <2>7 DEF FrameInv
<1> QED
  BY <1>1, <1>2

\* The frame moves from the sender to the engine.  It is the only one of its
\* kind in a ring: the sender had it for itself, and other senders have others.
LEMMA ValidFrames ==
  ASSUME TypeOK, Apart, FrameInv, RingInv, NEW c \in Cpus, TxValid(c)
  PROVE  FrameInv'
<1> DEFINE f == snd[c].frm  ch == Chan(f)  s == next(snd[c].ctl)
<1>1. /\ UNCHANGED <<src, sent, acks, fresh, tx_ack_skb>>
      /\ snd[c].pc = "valid" /\ Goto(c, "advance")
      /\ ctrl' = [ctrl EXCEPT ![ch][s] = "skb"]
  BY DEF TxValid, chipVars
<1>2. /\ ch \in Channels /\ s \in Slots /\ f \in Frames
      /\ f \notin sent /\ f \notin fresh /\ ~InRing(f) /\ src[ch][s] = f
  BY <1>1, NextInRing DEF TypeOK, SenderTypes, FrameInv, SenderFrames, Held,
                          RingInv, BuildInv
<1>3. /\ ctrl'[ch][s] = "skb" /\ src'[ch][s] = f
      /\ \A dh \in Channels, r \in Slots : ~(dh = ch /\ r = s) =>
           ctrl'[dh][r] = ctrl[dh][r] /\ src'[dh][r] = src[dh][r]
  BY <1>1, <1>2 DEF TypeOK, RingTypes
<1>4. /\ \A d \in Cpus : snd'[d].frm = snd[d].frm
      /\ snd'[c].pc = "advance" /\ \A d \in Cpus : d # c => snd'[d] = snd[d]
  BY <1>1, GotoMoves
<1>5. \A g : InRing(g)' => InRing(g) \/ g = f
  BY <1>3 DEF InRing
<1>6. RingFrames'
  <2>1. \A dh \in Channels, r \in Slots :
          ctrl'[dh][r] = "skb" => src'[dh][r] \in Frames \ (fresh' \cup sent')
    BY <1>1, <1>2, <1>3 DEF FrameInv, RingFrames
  <2>2. ASSUME NEW dh \in Channels, NEW r \in Slots, ~(dh = ch /\ r = s),
               ctrl'[dh][r] = "skb"
        PROVE  src'[dh][r] # f
    BY <1>2, <1>3, <2>2 DEF InRing
  <2>3. ASSUME NEW dh \in Channels, NEW eh \in Channels, NEW r \in Slots, NEW t \in Slots,
               ctrl'[dh][r] = "skb", ctrl'[eh][t] = "skb", src'[dh][r] = src'[eh][t]
        PROVE  dh = eh /\ r = t
    <3>1. CASE dh = ch /\ r = s
      BY <1>3, <2>2, <2>3, <3>1
    <3>2. CASE eh = ch /\ t = s
      BY <1>3, <2>2, <2>3, <3>2
    <3>3. CASE ~(dh = ch /\ r = s) /\ ~(eh = ch /\ t = s)
      BY <1>3, <2>3, <3>3 DEF FrameInv, RingFrames
    <3> QED
      BY <3>1, <3>2, <3>3
  <2>4. sent' \cap fresh' = {}
    BY <1>1 DEF FrameInv, RingFrames
  <2> QED
    BY <2>1, <2>3, <2>4 DEF RingFrames
<1>7. SenderFrames'
  <2>1. ASSUME NEW d \in Cpus, snd'[d].pc \in Held
        PROVE  \A dh \in Channels, r \in Slots :
                 ~(ctrl'[dh][r] = "skb" /\ src'[dh][r] = snd'[d].frm)
    <3>1. d # c /\ snd[d].pc \in Held
      BY <1>4, <2>1 DEF Held
    <3>2. snd[d].frm # f /\ ~InRing(snd[d].frm)
      BY <1>1, <3>1 DEF Apart, FrameInv, SenderFrames, Held
    <3> QED
      BY <1>3, <1>4, <3>2 DEF InRing
  <2>2. ASSUME NEW d \in Cpus
        PROVE  /\ snd'[d].pc # "idle" => snd'[d].frm \notin fresh'
               /\ snd'[d].pc \in Held => snd'[d].frm \notin sent'
               /\ snd'[d].pc \in {"claim", "stop"} => snd'[d].frm \in StatusFrames
    BY <1>1, <1>4 DEF FrameInv, SenderFrames, Held
  <2> QED
    BY <2>1, <2>2 DEF SenderFrames, InRing
<1>8. AckFrames'
  <2>1. f \in StatusFrames => tx_ack_skb = f
    BY <1>1 DEF FrameInv, AckFrames, Held
  <2>2. \A d \in Cpus : snd'[d].pc \in Held => d # c
    BY <1>4 DEF Held
  <2> QED
    BY <1>1, <1>4, <1>5, <2>1, <2>2 DEF FrameInv, AckFrames, InRing
<1> QED
  BY <1>6, <1>7, <1>8 DEF FrameInv

\* The other steps of a sender.
LEMMA SenderStepFrames ==
  ASSUME TypeOK, BdFirst, Apart, FrameInv, RingInv, NEW c \in Cpus, TxStep(c)
  PROVE  FrameInv'
<1> DEFINE ch == Chan(snd[c].frm)
<1>1. CASE TxStopForAck(c) \/ TxFull(c) \/ TxAdvance(c) \/ TxDoorbell(c) \/ TxLen(c)
  <2>1. UNCHANGED <<ctrl, src, fresh, sent, acks, tx_ack_skb>>
    BY <1>1 DEF TxStopForAck, TxFull, TxAdvance, TxDoorbell, TxLen, ringVars, chipVars
  <2>2. \A d \in Cpus : Onward(d)
    <3>1. CASE TxFull(c) \/ TxDoorbell(c)
      BY <3>1, IdleMoves DEF TxFull, TxDoorbell, Refuse
    <3>2. CASE TxStopForAck(c)
      BY <3>2, GotoOnward DEF TxStopForAck, Held
    <3>3. CASE TxAdvance(c)
      BY <3>3, GotoOnward DEF TxAdvance, Held
    <3>4. CASE TxLen(c)
      BY <3>4, GotoOnward DEF TxLen, Held
    <3> QED
      BY <1>1, <3>1, <3>2, <3>3, <3>4
  <2>3. Fewer
    BY <2>1 DEF Fewer
  <2> QED
    BY <2>1, <2>2, <2>3, OnwardFrames
<1>2. CASE TxCheck(c)
  <2>1. UNCHANGED <<ctrl, src, fresh, sent, acks, tx_ack_skb>>
    BY <1>2 DEF TxCheck, ringVars, chipVars
  <2>2. \A d \in Cpus : Onward(d)
    BY <1>2, CheckMoves DEF Onward, Held
  <2>3. Fewer
    BY <2>1 DEF Fewer
  <2> QED
    BY <2>1, <2>2, <2>3, OnwardFrames
<1>3. CASE TxWriteBd(c)
  <2>1. /\ UNCHANGED <<src, fresh, sent, acks, tx_ack_skb>>
        /\ snd[c].pc = "bd" /\ Goto(c, "skb")
        /\ ctrl' = [ctrl EXCEPT ![ch][snd[c].ctl] = "bd"]
    BY <1>3 DEF TxWriteBd, chipVars
  <2>2. ch \in Channels /\ snd[c].ctl \in Slots
    BY <2>1 DEF TypeOK, SenderTypes
  <2>3. Fewer
    BY <2>1, <2>2 DEF Fewer, TypeOK, RingTypes
  <2>4. \A d \in Cpus : Onward(d)
    BY <2>1, GotoOnward DEF Held
  <2> QED
    BY <2>1, <2>3, <2>4, OnwardFrames
<1>4. CASE TxSetSkb(c)
  <2>1. /\ UNCHANGED <<ctrl, src, fresh, sent, acks, tx_ack_skb>>
        /\ snd[c].pc = "skb"
    BY <1>4 DEF TxSetSkb, chipVars
  <2>2. \A d \in Cpus : Onward(d)
    BY <1>4, <2>1, GotoOnward, IdleMoves DEF TxSetSkb, Refuse, Held
  <2>3. Fewer
    BY <2>1 DEF Fewer
  <2> QED
    BY <2>1, <2>2, <2>3, OnwardFrames
\* The address goes into a descriptor that is not valid.
<1>5. CASE TxMap(c)
  <2> DEFINE s == next(snd[c].ctl)
  <2>1. /\ UNCHANGED <<ctrl, fresh, sent, acks, tx_ack_skb>>
        /\ snd[c].pc = "map"
        /\ UNCHANGED src \/ src' = [src EXCEPT ![ch][s] = skb[ch][s]]
    BY <1>5 DEF TxMap, chipVars
  <2>2. ch \in Channels /\ s \in Slots /\ ctrl[ch][s] = "off"
    BY <2>1, NextInRing DEF TypeOK, SenderTypes, RingInv, BuildInv, Storing
  <2>3. \A dh \in Channels, r \in Slots : ~(dh = ch /\ r = s) => src'[dh][r] = src[dh][r]
    BY <2>1, <2>2 DEF TypeOK, RingTypes
  <2>4. Fewer
    BY <2>1, <2>2, <2>3 DEF Fewer
  <2>5. \A d \in Cpus : Onward(d)
    BY <1>5, GotoOnward DEF TxMap, Held
  <2> QED
    BY <2>1, <2>4, <2>5, OnwardFrames
<1> QED
  BY <1>1, <1>2, <1>3, <1>4, <1>5, ClaimFrames, ValidFrames DEF TxStep

\* The engine moves a frame from its slot to the sent ones.
LEMMA DmaFrames ==
  ASSUME TypeOK, FrameInv, NEW ch \in Channels, DmaBd(ch) \/ DmaSkb(ch)
  PROVE  FrameInv'
<1>0. /\ pos[ch] \in Slots /\ ctrl' = [ctrl EXCEPT ![ch][pos[ch]] = "off"]
      /\ UNCHANGED <<src, snd, fresh, tx_ack_skb>>
  BY DEF DmaBd, DmaSkb, TypeOK, ChipTypes
<1>1. CASE DmaBd(ch)
  <2>1. Fewer
    BY <1>0 DEF Fewer, TypeOK, RingTypes
  <2>2. \A d \in Cpus : Onward(d)
    BY <1>0 DEF Onward
  <2> QED
    BY <1>0, <1>1, <2>1, <2>2, OnwardFrames DEF DmaBd
<1>2. CASE DmaSkb(ch)
  <2> DEFINE s == pos[ch]  f == src[ch][s]
  <2>1. /\ ctrl[ch][s] = "skb" /\ sent' = sent \cup {f}
        /\ acks' = acks \cup ({f} \cap StatusFrames)
    BY <1>2 DEF DmaSkb
  <2>2. InRing(f) /\ f \in Frames \ (fresh \cup sent)
    BY <1>0, <2>1 DEF InRing, FrameInv, RingFrames
  <2>3. /\ ctrl'[ch][s] = "off"
        /\ \A dh \in Channels, r \in Slots : ~(dh = ch /\ r = s) => ctrl'[dh][r] = ctrl[dh][r]
    BY <1>0 DEF TypeOK, RingTypes
  <2>4. \A dh \in Channels, r \in Slots :
          ctrl'[dh][r] = "skb" =>
            ctrl[dh][r] = "skb" /\ src'[dh][r] = src[dh][r] /\ src[dh][r] # f
    BY <1>0, <2>1, <2>3 DEF FrameInv, RingFrames
  <2>5. \A g : InRing(g)' => InRing(g)
    BY <2>4 DEF InRing
  <2>6. RingFrames'
    <3>1. sent' \cap fresh' = {}
      BY <1>0, <2>1, <2>2 DEF FrameInv, RingFrames
    <3>2. \A dh \in Channels, r \in Slots :
            ctrl'[dh][r] = "skb" => src'[dh][r] \in Frames \ (fresh' \cup sent')
      BY <1>0, <2>1, <2>4 DEF FrameInv, RingFrames
    <3>3. \A dh, eh \in Channels : \A r, t \in Slots :
            (ctrl'[dh][r] = "skb" /\ ctrl'[eh][t] = "skb" /\ src'[dh][r] = src'[eh][t])
              => dh = eh /\ r = t
      BY <2>4 DEF FrameInv, RingFrames
    <3> QED
      BY <3>1, <3>2, <3>3 DEF RingFrames
  <2>7. SenderFrames'
    <3>1. \A c \in Cpus : snd[c].pc \in Held => snd[c].frm # f
      BY <2>2 DEF FrameInv, SenderFrames
    <3> QED
      BY <1>0, <2>1, <2>4, <3>1 DEF FrameInv, SenderFrames, InRing
  <2>8. AckFrames'
    <3>1. f \in StatusFrames => tx_ack_skb = f
      BY <2>2 DEF FrameInv, AckFrames
    <3> QED
      BY <1>0, <2>1, <2>5, <3>1 DEF FrameInv, AckFrames, InRing
  <2> QED
    BY <2>6, <2>7, <2>8 DEF FrameInv
<1> QED
  BY <1>1, <1>2

\* An indication of the chip is one for the frame that waits, and once it is
\* taken no other frame of that kind is under way.
LEMMA AckTakeFrames ==
  ASSUME TypeOK, FrameInv, AckTake
  PROVE  FrameInv'
<1>0. UNCHANGED <<ctrl, src, snd, fresh, sent>> /\ tx_ack_skb' = NoFrame
  BY DEF AckTake, ringVars
<1>1. PICK f \in acks : acks' = acks \ {f}
  BY DEF AckTake
<1>2. f \in StatusFrames /\ f \in sent /\ tx_ack_skb = f
  BY DEF FrameInv, AckFrames
<1>3. RingFrames' /\ SenderFrames'
  BY <1>0 DEF FrameInv, RingFrames, SenderFrames, InRing
<1>4. ASSUME NEW g \in StatusFrames,
             \/ InRing(g) \/ g \in acks'
             \/ \E d \in Cpus : snd[d].frm = g /\ snd[d].pc \in Held \ {"claim"}
      PROVE  FALSE
  <2>1. g = f
    BY <1>1, <1>2, <1>4 DEF FrameInv, AckFrames
  <2> QED
    BY <1>1, <1>2, <1>4, <2>1 DEF FrameInv, RingFrames, SenderFrames, InRing
<1>5. AckFrames'
  BY <1>0, <1>1, <1>4 DEF FrameInv, AckFrames, InRing
<1> QED
  BY <1>3, <1>5 DEF FrameInv

LEMMA FrameNext ==
  ASSUME TypeOK, BdFirst, Apart, FrameInv, RingInv, [Next]_vars
  PROVE  FrameInv'
<1>1. CASE \/ \E c \in Cpus : IrqEnter(c)
           \/ Reap \/ AckWake \/ AckLost \/ Power \/ UNCHANGED vars
           \/ \E ch \in Channels : DmaStop(ch)
  <2>1. /\ UNCHANGED <<snd, ctrl, src, sent, tx_ack_skb, fresh>>
        /\ acks' \subseteq acks
    BY <1>1 DEF IrqEnter, Reap, IrqChannel, ReapSlot, ReapTake, ReapWake, ReapWakeQueues,
      ReapClear, AckWake, AckLost, Power, DmaStop, ringVars, chipVars, vars
  <2> QED
    BY <2>1, OnwardFrames DEF Fewer, Onward
<1> QED
  BY <1>1, StartFrames, SenderStepFrames, AckTakeFrames, DmaFrames DEF Next, Dma

-----------------------------------------------------------------------------
(* RingInv.                                                                *)

\* A sender's control blocks and those of the others that build.
LEMMA SenderAt ==
  ASSUME TypeOK, BdFirst, Apart, NEW c \in Cpus, snd[c].pc \in Building
  PROVE  /\ Chan(snd[c].frm) \in Channels /\ snd[c].frm \in Frames
         /\ snd[c].ctl \in Slots /\ HasBd(snd[c].ctl)
         /\ next(snd[c].ctl) \in Slots /\ ~HasBd(next(snd[c].ctl))
         /\ \A d \in Cpus : d # c /\ snd[d].pc \in Building =>
              /\ Chan(snd[d].frm) # Chan(snd[c].frm) /\ Chan(snd[d].frm) \in Channels
              /\ snd[d].ctl \in Slots /\ next(snd[d].ctl) \in Slots
<1>1. \A d \in Cpus : snd[d].pc \in Building =>
        /\ Chan(snd[d].frm) \in Channels /\ snd[d].frm \in Frames
        /\ snd[d].ctl \in Slots /\ HasBd(snd[d].ctl)
  BY DEF TypeOK, SenderTypes, BdFirst, Building
<1>2. \A d \in Cpus : snd[d].pc \in Building =>
        next(snd[d].ctl) \in Slots /\ ~HasBd(next(snd[d].ctl))
  BY <1>1, NextInRing, NextAlternates
<1> QED
  BY <1>1, <1>2 DEF Apart

LEMMA RingInit == Init => RingInv
<1> SUFFICES ASSUME Init PROVE RingInv
  OBVIOUS
<1>1. \A c \in Cpus : snd[c].pc = "idle"
  BY DEF Init, IdleSnd
<1>2. irq.pc = "idle"
  BY DEF Init, IdleIrq
<1>3. \A ch \in Channels, s \in Slots : ctrl[ch][s] = "off" /\ skb[ch][s] = NoFrame
  BY DEF Init
<1> QED
  BY <1>1, <1>2, <1>3 DEF RingInv, SlotInv, BuildInv, HandlerInv, Building, Storing

\* Steps of a sender that is not building: it leaves the slots alone.
LEMMA AsideRing ==
  ASSUME RingInv, UNCHANGED <<head, skb, ctrl, src, irq, sent>>,
         \A d \in Cpus : snd'[d].pc \in Building \cup {"oops"} => snd'[d] = snd[d],
         \A d \in Cpus : snd[d].pc \in Storing => snd'[d] = snd[d]
  PROVE  RingInv'
<1>1. SlotInv'
  BY DEF RingInv, SlotInv, Under, Chan
<1>2. BuildInv'
  BY DEF RingInv, BuildInv, At, Building, Storing, Chan
<1>3. HandlerInv'
  BY DEF RingInv, HandlerInv, Valid
<1> QED
  BY <1>1, <1>2, <1>3 DEF RingInv

\* A sender takes the head's control block only if the next one is empty.
LEMMA CheckRing ==
  ASSUME TypeOK, BdFirst, Apart', RingInv, NEW c \in Cpus, TxCheck(c)
  PROVE  RingInv'
<1> DEFINE ch == Chan(snd[c].frm)  s == next(head[ch])
<1>0. UNCHANGED <<head, skb, ctrl, src, irq, sent>>
  BY DEF TxCheck, ringVars, chipVars
<1>1. /\ snd[c].pc = "check" /\ snd'[c].pc \in {"bd", "full"}
      /\ snd'[c].frm = snd[c].frm /\ snd'[c].ctl = head[ch]
      /\ \A d \in Cpus : d # c => snd'[d] = snd[d]
  BY CheckMoves
<1>2. CASE snd'[c].pc = "full"
  BY <1>0, <1>1, <1>2, AsideRing DEF Building, Storing
<1>3. CASE snd'[c].pc = "bd"
  <2>1. skb[ch][s] = NoFrame
    BY <1>3 DEF TxCheck, Full, TypeOK, SenderTypes
  <2>2. SlotInv'
    BY <1>0, <1>1 DEF RingInv, SlotInv, Under, Storing, Chan
  <2>3. BuildInv'
    BY <1>0, <1>1, <1>3, <2>1 DEF RingInv, BuildInv, At, Building, Storing, Chan
  <2>4. HandlerInv'
    BY <1>0 DEF RingInv, HandlerInv, Valid
  <2> QED
    BY <2>2, <2>3, <2>4 DEF RingInv
<1> QED
  BY <1>1, <1>2, <1>3

\* The steps that write descriptors and control blocks.
LEMMA WriteBdRing ==
  ASSUME TypeOK, BdFirst, Apart, RingInv, NEW c \in Cpus, TxWriteBd(c)
  PROVE  RingInv'
<1> DEFINE ch == Chan(snd[c].frm)  s == snd[c].ctl
<1>0. /\ UNCHANGED <<head, src, irq, sent>>
      /\ snd[c].pc = "bd" /\ Goto(c, "skb")
      /\ skb'  = [skb  EXCEPT ![ch][s] = NoFrame]
      /\ ctrl' = [ctrl EXCEPT ![ch][s] = "bd"]
  BY DEF TxWriteBd, chipVars
<1>1. /\ ch \in Channels /\ s \in Slots /\ HasBd(s)
      /\ next(s) \in Slots /\ ~HasBd(next(s))
      /\ \A d \in Cpus : d # c /\ snd[d].pc \in Building =>
           Chan(snd[d].frm) # ch /\ Chan(snd[d].frm) \in Channels
  BY <1>0, SenderAt DEF Building
<1>2. /\ snd'[c].pc = "skb" /\ snd'[c].ctl = s /\ snd'[c].frm = snd[c].frm
      /\ \A d \in Cpus : d # c => snd'[d] = snd[d]
  BY <1>0, GotoMoves
<1>3. /\ skb'[ch][s] = NoFrame /\ ctrl'[ch][s] = "bd"
      /\ \A dh \in Channels, r \in Slots : ~(dh = ch /\ r = s) =>
           skb'[dh][r] = skb[dh][r] /\ ctrl'[dh][r] = ctrl[dh][r]
      /\ \A dh \in Channels : dh # ch => skb'[dh] = skb[dh] /\ ctrl'[dh] = ctrl[dh]
  BY <1>0, <1>1 DEF TypeOK, RingTypes
<1>4. SlotInv'
  BY <1>0, <1>1, <1>2, <1>3 DEF RingInv, SlotInv, Under, Storing, Chan
<1>5. BuildInv'
  BY <1>0, <1>1, <1>2, <1>3 DEF RingInv, BuildInv, At, Building, Storing, Chan
<1>6. HandlerInv'
  <2>1. irq.pc \notin {"idle", "next"} => irq.ch \in Channels /\ irq.ctl \in Slots
    BY DEF TypeOK, HandlerTypes
  <2> QED
    BY <1>0, <1>1, <1>3, <2>1, TxAssumption DEF RingInv, SlotInv, HandlerInv, Valid
<1> QED
  BY <1>4, <1>5, <1>6 DEF RingInv

\* The reaper is not at the block the frame goes to: it was found empty, and
\* torn would record a reaper that has yet to look.
LEMMA SetSkbRing ==
  ASSUME TypeOK, BdFirst, Apart, FrameInv, RingInv, ~torn', NEW c \in Cpus, TxSetSkb(c)
  PROVE  RingInv'
<1> DEFINE f == snd[c].frm  ch == Chan(f)  s == next(snd[c].ctl)
<1>0. /\ UNCHANGED <<head, ctrl, src, irq, sent>>
      /\ snd[c].pc = "skb" /\ skb' = [skb EXCEPT ![ch][s] = f]
      /\ torn' = (torn \/ Reading(ch, s))
  BY DEF TxSetSkb, chipVars
<1>1. /\ ch \in Channels /\ f \in Frames /\ s \in Slots /\ ~HasBd(s)
      /\ \A d \in Cpus : d # c /\ snd[d].pc \in Building =>
           Chan(snd[d].frm) # ch /\ Chan(snd[d].frm) \in Channels
  BY <1>0, SenderAt DEF Building
<1>2. Goto(c, "map")
  BY <1>1 DEF TxSetSkb
<1>3. /\ snd'[c].pc = "map" /\ snd'[c].ctl = snd[c].ctl /\ snd'[c].frm = f
      /\ \A d \in Cpus : d # c => snd'[d] = snd[d]
  BY <1>2, GotoMoves
<1>4. /\ skb'[ch][s] = f
      /\ \A dh \in Channels, r \in Slots : ~(dh = ch /\ r = s) => skb'[dh][r] = skb[dh][r]
      /\ \A dh \in Channels : dh # ch => skb'[dh] = skb[dh]
  BY <1>0, <1>1 DEF TypeOK, RingTypes
<1>5. skb[ch][s] = NoFrame
  BY <1>0 DEF RingInv, BuildInv
<1>6. ctrl[ch][s] = "off"
  <2>1. ctrl[ch][s] # "bd"
    BY <1>1 DEF RingInv, SlotInv
  <2>2. ctrl[ch][s] = "skb" => src[ch][s] \in Frames /\ skb[ch][s] = src[ch][s]
    BY <1>1 DEF RingInv, SlotInv, FrameInv, RingFrames
  <2>3. ctrl[ch][s] # "skb"
    BY <1>5, <2>2, TxAssumption
  <2> QED
    BY <1>1, <2>1, <2>3 DEF TypeOK, RingTypes
<1>7. ~At(ch, s)
  BY <1>0, <1>5, TxAssumption DEF At, Reading, RingInv, HandlerInv
<1>8. SlotInv'
  <2>1. ASSUME NEW dh \in Channels, NEW r \in Slots
        PROVE  /\ ctrl'[dh][r] = "bd" => HasBd(r)
               /\ ctrl'[dh][r] = "skb" => ~HasBd(r) /\ skb'[dh][r] = src'[dh][r]
               /\ skb'[dh][r] # NoFrame =>
                    /\ ~HasBd(r)
                    /\ \/ ctrl'[dh][r] = "skb" \/ skb'[dh][r] \in sent'
                       \/ \E d \in Cpus : Under(Storing, d, dh)' /\ r = next(snd'[d].ctl)
    <3>1. CASE dh = ch /\ r = s
      BY <1>0, <1>1, <1>3, <1>4, <1>6, <3>1 DEF Under, Storing, Chan
    <3>2. CASE ~(dh = ch /\ r = s)
      BY <1>0, <1>3, <1>4, <3>2 DEF RingInv, SlotInv, Under, Storing, Chan
    <3> QED
      BY <3>1, <3>2
  <2> QED
    BY <2>1 DEF SlotInv, Under
<1>9. BuildInv'
  BY <1>0, <1>1, <1>3, <1>4, <1>6, <1>7 DEF RingInv, BuildInv, At, Building, Storing, Chan
<1>10. HandlerInv'
  <2>1. irq.pc \notin {"idle", "next"} => irq.ch \in Channels /\ irq.ctl \in Slots
    BY DEF TypeOK, HandlerTypes
  <2> QED
    BY <1>0, <1>4, <1>7, <2>1 DEF RingInv, HandlerInv, At, Valid
<1> QED
  BY <1>8, <1>9, <1>10 DEF RingInv

LEMMA MapRing ==
  ASSUME TypeOK, BdFirst, Apart, RingInv, NEW c \in Cpus, TxMap(c)
  PROVE  RingInv'
<1> DEFINE f == snd[c].frm  ch == Chan(f)  s == next(snd[c].ctl)
<1>0. UNCHANGED <<head, skb, ctrl, irq, sent>> /\ snd[c].pc = "map"
  BY DEF TxMap, chipVars
<1>1. /\ ch \in Channels /\ f \in Frames /\ s \in Slots /\ ~HasBd(s)
      /\ \A d \in Cpus : d # c /\ snd[d].pc \in Building =>
           Chan(snd[d].frm) # ch /\ Chan(snd[d].frm) \in Channels
  BY <1>0, SenderAt DEF Building
<1>2. skb[ch][s] = f /\ ctrl[ch][s] = "off"
  BY <1>0 DEF RingInv, BuildInv, Storing
<1>3. src' = [src EXCEPT ![ch][s] = f] /\ Goto(c, "len")
  BY <1>1, <1>2, TxAssumption DEF TxMap
<1>4. /\ snd'[c].pc = "len" /\ snd'[c].ctl = snd[c].ctl /\ snd'[c].frm = f
      /\ \A d \in Cpus : d # c => snd'[d] = snd[d]
  BY <1>3, GotoMoves
<1>5. /\ src'[ch][s] = f
      /\ \A dh \in Channels, r \in Slots : ~(dh = ch /\ r = s) => src'[dh][r] = src[dh][r]
      /\ \A dh \in Channels : dh # ch => src'[dh] = src[dh]
  BY <1>1, <1>3 DEF TypeOK, RingTypes
<1>6. SlotInv'
  <2>1. ASSUME NEW dh \in Channels, NEW r \in Slots, NEW d \in Cpus,
               Under(Storing, d, dh), r = next(snd[d].ctl)
        PROVE  Under(Storing, d, dh)' /\ r = next(snd'[d].ctl)
    BY <1>0, <1>4, <2>1 DEF Under, Storing, Chan
  <2>2. \A dh \in Channels, r \in Slots :
          ctrl'[dh][r] = "skb" => ctrl[dh][r] = "skb" /\ src'[dh][r] = src[dh][r]
    BY <1>0, <1>2, <1>5
  <2> QED
    BY <1>0, <2>1, <2>2 DEF RingInv, SlotInv
<1>7. BuildInv'
  BY <1>0, <1>1, <1>2, <1>4, <1>5 DEF RingInv, BuildInv, At, Building, Storing, Chan
<1>8. HandlerInv'
  BY <1>0 DEF RingInv, HandlerInv, Valid
<1> QED
  BY <1>6, <1>7, <1>8 DEF RingInv

LEMMA LenRing ==
  ASSUME TypeOK, BdFirst, Apart, RingInv, NEW c \in Cpus, TxLen(c)
  PROVE  RingInv'
<1> DEFINE f == snd[c].frm  ch == Chan(f)  s == next(snd[c].ctl)
<1>0. UNCHANGED <<head, skb, ctrl, src, irq, sent>> /\ snd[c].pc = "len"
  BY DEF TxLen, ringVars, chipVars
<1>1. skb[ch][s] = f /\ f \in Frames
  BY <1>0 DEF RingInv, BuildInv, Storing, TypeOK, SenderTypes
<1>2. Goto(c, "valid")
  BY <1>1, TxAssumption DEF TxLen
<1>3. /\ snd'[c].pc = "valid" /\ snd'[c].ctl = snd[c].ctl /\ snd'[c].frm = f
      /\ \A d \in Cpus : d # c => snd'[d] = snd[d]
  BY <1>2, GotoMoves
<1>4. SlotInv'
  <2>1. ASSUME NEW dh \in Channels, NEW r \in Slots, NEW d \in Cpus,
               Under(Storing, d, dh), r = next(snd[d].ctl)
        PROVE  Under(Storing, d, dh)' /\ r = next(snd'[d].ctl)
    BY <1>0, <1>3, <2>1 DEF Under, Storing, Chan
  <2> QED
    BY <1>0, <2>1 DEF RingInv, SlotInv
<1>5. BuildInv'
  BY <1>0, <1>3 DEF RingInv, BuildInv, At, Building, Storing, Chan
<1>6. HandlerInv'
  BY <1>0 DEF RingInv, HandlerInv, Valid
<1> QED
  BY <1>4, <1>5, <1>6 DEF RingInv

LEMMA ValidRing ==
  ASSUME TypeOK, BdFirst, Apart, RingInv, NEW c \in Cpus, TxValid(c)
  PROVE  RingInv'
<1> DEFINE f == snd[c].frm  ch == Chan(f)  s == next(snd[c].ctl)
<1>0. /\ UNCHANGED <<head, skb, src, irq, sent>> /\ snd[c].pc = "valid"
      /\ Goto(c, "advance") /\ ctrl' = [ctrl EXCEPT ![ch][s] = "skb"]
  BY DEF TxValid, chipVars
<1>1. /\ ch \in Channels /\ s \in Slots /\ ~HasBd(s)
      /\ \A d \in Cpus : d # c /\ snd[d].pc \in Building =>
           Chan(snd[d].frm) # ch /\ Chan(snd[d].frm) \in Channels
  BY <1>0, SenderAt DEF Building
<1>2. skb[ch][s] = f /\ src[ch][s] = f /\ ~At(ch, s)
  BY <1>0 DEF RingInv, BuildInv, Storing
<1>3. /\ snd'[c].pc = "advance" /\ snd'[c].ctl = snd[c].ctl /\ snd'[c].frm = f
      /\ \A d \in Cpus : d # c => snd'[d] = snd[d]
  BY <1>0, GotoMoves
<1>4. /\ ctrl'[ch][s] = "skb"
      /\ \A dh \in Channels, r \in Slots : ~(dh = ch /\ r = s) => ctrl'[dh][r] = ctrl[dh][r]
      /\ \A dh \in Channels : dh # ch => ctrl'[dh] = ctrl[dh]
  BY <1>0, <1>1 DEF TypeOK, RingTypes
<1>5. SlotInv'
  <2>1. ASSUME NEW dh \in Channels, NEW r \in Slots, ~(dh = ch /\ r = s), NEW d \in Cpus,
               Under(Storing, d, dh), r = next(snd[d].ctl)
        PROVE  Under(Storing, d, dh)' /\ r = next(snd'[d].ctl)
    BY <1>0, <1>3, <2>1 DEF Under, Storing, Chan
  <2>2. ASSUME NEW dh \in Channels, NEW r \in Slots
        PROVE  /\ ctrl'[dh][r] = "bd" => HasBd(r)
               /\ ctrl'[dh][r] = "skb" => ~HasBd(r) /\ skb'[dh][r] = src'[dh][r]
               /\ skb'[dh][r] # NoFrame =>
                    /\ ~HasBd(r)
                    /\ \/ ctrl'[dh][r] = "skb" \/ skb'[dh][r] \in sent'
                       \/ \E d \in Cpus : Under(Storing, d, dh)' /\ r = next(snd'[d].ctl)
    <3>1. CASE dh = ch /\ r = s
      BY <1>0, <1>1, <1>2, <1>4, <3>1
    <3>2. CASE ~(dh = ch /\ r = s)
      BY <1>0, <1>4, <2>1, <3>2 DEF RingInv, SlotInv
    <3> QED
      BY <3>1, <3>2
  <2> QED
    BY <2>2 DEF SlotInv
<1>6. BuildInv'
  BY <1>0, <1>1, <1>3, <1>4 DEF RingInv, BuildInv, At, Building, Storing, Chan
<1>7. HandlerInv'
  <2>1. irq.pc \notin {"idle", "next"} => irq.ch \in Channels /\ irq.ctl \in Slots
    BY DEF TypeOK, HandlerTypes
  <2> QED
    BY <1>0, <1>2, <1>4, <2>1 DEF RingInv, HandlerInv, At, Valid
<1> QED
  BY <1>5, <1>6, <1>7 DEF RingInv

LEMMA AdvanceRing ==
  ASSUME TypeOK, BdFirst, Apart, RingInv, NEW c \in Cpus, TxAdvance(c)
  PROVE  RingInv'
<1> DEFINE ch == Chan(snd[c].frm)
<1>0. /\ UNCHANGED <<skb, ctrl, src, irq, sent>> /\ snd[c].pc = "advance"
      /\ Goto(c, "doorbell") /\ head' = [head EXCEPT ![ch] = AfterFrame(snd[c].ctl)]
  BY DEF TxAdvance, chipVars
<1>1. \A d \in Cpus : d # c /\ snd[d].pc \in Building =>
        Chan(snd[d].frm) # ch /\ Chan(snd[d].frm) \in Channels
  BY <1>0, SenderAt DEF Building
<1>2. snd'[c].pc = "doorbell" /\ \A d \in Cpus : d # c => snd'[d] = snd[d]
  BY <1>0, GotoMoves
<1>3. \A dh \in Channels : dh # ch => head'[dh] = head[dh]
  BY <1>0 DEF TypeOK, RingTypes
<1>4. SlotInv'
  <2>1. \A d \in Cpus : snd[d].pc \in Storing => snd'[d] = snd[d]
    BY <1>0, <1>2 DEF Storing
  <2> QED
    BY <1>0, <2>1 DEF RingInv, SlotInv, Under, Chan
<1>5. BuildInv'
  BY <1>0, <1>1, <1>2, <1>3 DEF RingInv, BuildInv, At, Building, Storing, Chan
<1>6. HandlerInv'
  BY <1>0 DEF RingInv, HandlerInv, Valid
<1> QED
  BY <1>4, <1>5, <1>6 DEF RingInv

\* The handler takes frames away only where it is, and works only on blocks
\* whose frame was sent.
LEMMA HandlerRing ==
  ASSUME TypeOK, RingInv, UNCHANGED <<head, ctrl, src, snd, sent>>,
         \A ch \in Channels, s \in Slots :
           skb'[ch][s] = skb[ch][s] \/ (skb'[ch][s] = NoFrame /\ At(ch, s)),
         \A ch \in Channels, s \in Slots : At(ch, s)' /\ ~At(ch, s) =>
           \A c \in Cpus : ~(Under(Storing, c, ch) /\ s = next(snd[c].ctl)),
         HandlerInv'
  PROVE  RingInv'
<1>1. \A c \in Cpus : snd[c].pc # "idle" =>
        Chan(snd[c].frm) \in Channels /\ next(snd[c].ctl) \in Slots
  BY NextInRing DEF TypeOK, SenderTypes
<1>2. SlotInv'
  <2>1. \A ch \in Channels, s \in Slots : skb'[ch][s] # NoFrame => skb'[ch][s] = skb[ch][s]
    OBVIOUS
  <2>2. ASSUME NEW ch \in Channels, NEW s \in Slots
        PROVE  (\E c \in Cpus : Under(Storing, c, ch) /\ s = next(snd[c].ctl))
                 => \E c \in Cpus : Under(Storing, c, ch)' /\ s = next(snd'[c].ctl)
    BY DEF Under, Chan
  <2>3. ASSUME NEW ch \in Channels, NEW s \in Slots
        PROVE  /\ ctrl'[ch][s] = "bd" => HasBd(s)
               /\ ctrl'[ch][s] = "skb" => ~HasBd(s) /\ skb'[ch][s] = src'[ch][s]
               /\ skb'[ch][s] # NoFrame =>
                    /\ ~HasBd(s)
                    /\ \/ ctrl'[ch][s] = "skb" \/ skb'[ch][s] \in sent'
                       \/ \E c \in Cpus : Under(Storing, c, ch)' /\ s = next(snd'[c].ctl)
    <3>1. ctrl[ch][s] = "skb" => skb'[ch][s] = skb[ch][s]
      BY DEF RingInv, HandlerInv, At, Valid, SlotInv
    <3> QED
      BY <2>1, <2>2, <3>1 DEF RingInv, SlotInv
  <2> QED
    BY <2>3 DEF SlotInv
<1>3. ASSUME NEW c \in Cpus, snd[c].pc \in Storing
      PROVE  LET ch == Chan(snd[c].frm)  s == next(snd[c].ctl) IN
             /\ ~At(ch, s) /\ ~At(ch, s)' /\ skb'[ch][s] = skb[ch][s]
             /\ skb[ch][s] = snd[c].frm /\ ctrl[ch][s] = "off"
  BY <1>1, <1>3 DEF RingInv, BuildInv, Under, Storing
<1>4. ASSUME NEW c \in Cpus, snd[c].pc \in {"bd", "skb"}
      PROVE  skb'[Chan(snd[c].frm)][next(snd[c].ctl)] = NoFrame
  BY <1>1, <1>4 DEF RingInv, BuildInv
<1>5. BuildInv'
  BY <1>3, <1>4 DEF RingInv, BuildInv, At, Building, Storing, Chan
<1> QED
  BY <1>2, <1>5 DEF RingInv

\* The handler is about to look at a block: torn would record a sender at it.
LEMMA ReapSlotRing ==
  ASSUME TypeOK, RingInv, ~torn', ReapSlot
  PROVE  RingInv'
<1>0. /\ UNCHANGED <<head, skb, ctrl, src, snd, sent>>
      /\ irq.pc = "slot"
  BY DEF ReapSlot, chipVars
<1>1. CASE irq'.pc = "next"
  BY <1>0, <1>1, HandlerRing DEF At, HandlerInv
<1>2. CASE irq'.pc # "next"
  <2>1. /\ ~Valid(irq.ch, irq.ctl) /\ irq' = [irq EXCEPT !.pc = "take"]
        /\ torn' = (torn \/ HalfDone(irq.ch, irq.ctl))
    BY <1>2 DEF ReapSlot, Reapable, TypeOK, HandlerTypes
  <2>2. irq'.pc = "take" /\ irq'.ch = irq.ch /\ irq'.ctl = irq.ctl
    BY <2>1 DEF TypeOK, HandlerTypes
  <2>3. HandlerInv'
    BY <1>0, <2>1, <2>2 DEF HandlerInv, Valid
  <2>4. \A c \in Cpus : ~(Under(Storing, c, irq.ch) /\ irq.ctl = next(snd[c].ctl))
    BY <2>1 DEF HalfDone, Under, Storing
  <2> QED
    BY <1>0, <2>2, <2>3, <2>4, HandlerRing DEF At
<1> QED
  BY <1>1, <1>2

\* What the handler finds in a control block it has passed was sent.
LEMMA TakenWasSent ==
  ASSUME TypeOK, RingInv, irq.pc = "take", skb[irq.ch][irq.ctl] # NoFrame
  PROVE  skb[irq.ch][irq.ctl] \in sent \cap Frames /\ ~Valid(irq.ch, irq.ctl)
<1>1. irq.ch \in Channels /\ irq.ctl \in Slots /\ At(irq.ch, irq.ctl)
  BY DEF TypeOK, HandlerTypes, At
<1>2. ~HasBd(irq.ctl)
  BY <1>1 DEF RingInv, SlotInv
<1>3. ~Valid(irq.ch, irq.ctl)
  BY <1>2 DEF RingInv, HandlerInv
<1>4. \A c \in Cpus : ~(Under(Storing, c, irq.ch) /\ irq.ctl = next(snd[c].ctl))
  BY <1>1 DEF RingInv, BuildInv, Under
<1>5. skb[irq.ch][irq.ctl] \in sent
  BY <1>1, <1>3, <1>4 DEF RingInv, SlotInv, Valid
<1>6. skb[irq.ch][irq.ctl] \in Frames
  BY <1>1 DEF TypeOK, RingTypes, MaybeFrame
<1> QED
  BY <1>3, <1>5, <1>6

LEMMA ReapOnLeaves ==
  ASSUME TypeOK, ReapOn
  PROVE  irq'.pc \in {"slot", "next"}
BY DEF ReapOn, TypeOK, HandlerTypes

LEMMA HandlerStepRing ==
  ASSUME TypeOK, RingInv, ~torn', Reap \/ \E c \in Cpus : IrqEnter(c)
  PROVE  RingInv'
<1>1. CASE IrqChannel \/ \E c \in Cpus : IrqEnter(c)
  <2>1. UNCHANGED <<head, skb, ctrl, src, snd, sent>>
    BY <1>1 DEF IrqEnter, IrqChannel, ringVars, chipVars
  <2>2. irq'.pc \in {"idle", "next", "slot"}
    <3>1. CASE \E c \in Cpus : IrqEnter(c)
      BY <3>1 DEF IrqEnter, IdleIrq
    <3>2. CASE IrqChannel /\ irq' = IdleIrq
      BY <3>2 DEF IdleIrq
    <3>3. CASE IrqChannel /\ irq' # IdleIrq
      BY <3>3 DEF IrqChannel, TypeOK, HandlerTypes
    <3> QED
      BY <1>1, <3>1, <3>2, <3>3
  <2> QED
    BY <2>1, <2>2, HandlerRing DEF At, HandlerInv
<1>2. CASE ReapTake
  <2>0. UNCHANGED <<head, skb, ctrl, src, snd, sent>> /\ irq.pc = "take"
    BY <1>2 DEF ReapTake, chipVars
  <2>1. CASE ReapOn
    <3>1. irq'.pc \in {"slot", "next"}
      BY <2>1, ReapOnLeaves
    <3> QED
      BY <2>0, <3>1, HandlerRing DEF At, HandlerInv
  <2>2. CASE skb[irq.ch][irq.ctl] # NoFrame /\ irq' = [irq EXCEPT !.pc = "wake"]
    <3>1. irq'.pc = "wake" /\ irq'.ch = irq.ch /\ irq'.ctl = irq.ctl
      BY <2>2 DEF TypeOK, HandlerTypes
    <3>2. HandlerInv'
      BY <2>0, <2>2, <3>1, TakenWasSent DEF HandlerInv, Valid
    <3> QED
      BY <2>0, <3>1, <3>2, HandlerRing DEF At
  <2> QED
    BY <1>2, <2>1, <2>2 DEF ReapTake
<1>3. CASE ReapWake \/ ReapWakeQueues
  <2>1. /\ irq.pc \in {"wake", "waking"} /\ irq'.pc \in {"waking", "clear"}
        /\ irq'.ch = irq.ch /\ irq'.ctl = irq.ctl
        /\ UNCHANGED <<head, skb, ctrl, src, snd, sent>>
    BY <1>3 DEF ReapWake, ReapWakeQueues, TypeOK, HandlerTypes, ringVars, chipVars
  <2>2. HandlerInv'
    BY <2>1 DEF RingInv, HandlerInv, Valid
  <2> QED
    BY <2>1, <2>2, HandlerRing DEF At
<1>4. CASE ReapClear
  <2>1. /\ irq.pc = "clear" /\ ReapOn
        /\ skb' = [skb EXCEPT ![irq.ch][irq.ctl] = NoFrame]
        /\ UNCHANGED <<head, ctrl, src, snd, sent>>
    BY <1>4 DEF ReapClear, chipVars
  <2>2. irq.ch \in Channels /\ irq.ctl \in Slots
    BY <2>1 DEF TypeOK, HandlerTypes
  <2>3. \A ch \in Channels, s \in Slots :
          skb'[ch][s] = skb[ch][s] \/ (skb'[ch][s] = NoFrame /\ At(ch, s))
    BY <2>1, <2>2 DEF At, TypeOK, RingTypes
  <2>4. irq'.pc \in {"slot", "next"}
    BY <2>1, ReapOnLeaves
  <2> QED
    BY <2>1, <2>3, <2>4, HandlerRing DEF At, HandlerInv
<1> QED
  BY <1>1, <1>2, <1>3, <1>4, ReapSlotRing DEF Reap

\* The engine makes descriptors not valid, also a BD ahead of its frame.
LEMMA DmaRing ==
  ASSUME TypeOK, BdFirst, RingInv, NEW ch \in Channels, DmaBd(ch) \/ DmaSkb(ch)
  PROVE  RingInv'
<1> DEFINE p == pos[ch]
<1>0. /\ UNCHANGED <<head, skb, src, snd, irq>> /\ p \in Slots
      /\ ctrl' = [ctrl EXCEPT ![ch][p] = "off"]
      /\ sent \subseteq sent'
  BY DEF DmaBd, DmaSkb, TypeOK, ChipTypes
<1>1. /\ ctrl'[ch][p] = "off"
      /\ \A dh \in Channels, r \in Slots : ~(dh = ch /\ r = p) => ctrl'[dh][r] = ctrl[dh][r]
  BY <1>0 DEF TypeOK, RingTypes
<1>2. skb[ch][p] # NoFrame => skb[ch][p] \in sent'
  BY <1>0 DEF DmaBd, DmaSkb, RingInv, SlotInv
<1>3. SlotInv'
  BY <1>0, <1>1, <1>2 DEF RingInv, SlotInv, Under, Chan
<1>4. BuildInv'
  <2>1. \A c \in Cpus : snd[c].pc \in Storing =>
          Chan(snd[c].frm) \in Channels /\ next(snd[c].ctl) \in Slots
    BY NextInRing DEF TypeOK, SenderTypes, Storing
  <2> QED
    BY <1>0, <1>1, <2>1 DEF RingInv, BuildInv, At, Chan
<1>5. HandlerInv'
  <2>1. irq.pc \notin {"idle", "next"} => irq.ch \in Channels /\ irq.ctl \in Slots
    BY DEF TypeOK, HandlerTypes
  <2> QED
    BY <1>0, <1>1, <2>1 DEF RingInv, HandlerInv, Valid
<1> QED
  BY <1>3, <1>4, <1>5 DEF RingInv

LEMMA SenderStepRing ==
  ASSUME TypeOK, BdFirst, Apart, Apart', FrameInv, RingInv, ~torn', NEW c \in Cpus, TxStep(c)
  PROVE  RingInv'
<1>1. CASE \/ TxClaim(c) \/ TxStopForAck(c) \/ TxFull(c) \/ TxDoorbell(c)
  <2>1. /\ UNCHANGED <<head, skb, ctrl, src, irq, sent>>
        /\ snd[c].pc \notin Storing
    BY <1>1 DEF TxClaim, TxStopForAck, TxFull, TxDoorbell, ringVars, chipVars, Storing
  <2>2. /\ snd'[c].pc \in {"idle", "stop", "check"}
        /\ \A d \in Cpus : d # c => snd'[d] = snd[d]
    <3>1. CASE snd' = [snd EXCEPT ![c] = IdleSnd]
      BY <3>1, IdleMoves
    <3>2. CASE Goto(c, "stop") \/ Goto(c, "check")
      BY <3>2, GotoMoves
    <3> QED
      BY <1>1, <3>1, <3>2 DEF TxClaim, TxStopForAck, TxFull, TxDoorbell, Refuse
  <2> QED
    BY <2>1, <2>2, AsideRing DEF Building
<1> QED
  BY <1>1, CheckRing, WriteBdRing, SetSkbRing, MapRing, LenRing, ValidRing, AdvanceRing
  DEF TxStep

LEMMA RingNext ==
  ASSUME TypeOK, BdFirst, Apart, Apart', FrameInv, RingInv, ~torn', [Next]_vars
  PROVE  RingInv'
<1>1. ASSUME NEW c \in Cpus, NEW f \in Frames, TxStart(c, f) PROVE RingInv'
  <2>1. /\ snd'[c].pc \in {"claim", "check"} /\ snd[c].pc = "idle"
        /\ \A d \in Cpus : d # c => snd'[d] = snd[d]
        /\ UNCHANGED <<head, skb, ctrl, src, irq, sent>>
    BY <1>1, StartMoves
  <2> QED
    BY <2>1, AsideRing DEF Building, Storing
<1>2. CASE \/ AckTake \/ AckWake \/ AckLost \/ Power \/ UNCHANGED vars
           \/ \E ch \in Channels : DmaStop(ch)
  <2>1. UNCHANGED <<head, skb, ctrl, src, snd, irq, sent>>
    BY <1>2 DEF AckTake, AckWake, AckLost, Power, DmaStop, ringVars, chipVars, vars
  <2> QED
    BY <2>1, AsideRing
<1> QED
  BY <1>1, <1>2, SenderStepRing, HandlerStepRing, DmaRing DEF Next, Dma

-----------------------------------------------------------------------------
(* BackInv.                                                                *)

\* A frame that was sent is in no ring, with no sender and not mac80211's.
LEMMA SentIsFree ==
  ASSUME FrameInv, NEW f \in sent
  PROVE  /\ f \notin fresh /\ ~InRing(f)
         /\ \A c \in Cpus : snd[c].pc \in Held => snd[c].frm # f
BY DEF FrameInv, RingFrames, SenderFrames, InRing

\* A step that gives nothing back.
LEMMA KeepBack ==
  ASSUME BackInv, fresh' \subseteq fresh, UNCHANGED <<back, ackw>>, sent \subseteq sent',
         \A c \in Cpus : Onward(c), Fewer
  PROVE  BackInv'
<1>1. \A f : InRing(f)' => InRing(f)
  BY DEF Fewer, InRing
<1>2. \A c \in Cpus : snd'[c].pc \in Held => snd'[c].frm \notin back'
  BY DEF BackInv, Onward, Held
<1> QED
  BY <1>1, <1>2 DEF BackInv

\* A sender gives its frame back: nobody else has it.
LEMMA RefuseBack ==
  ASSUME TypeOK, Apart, FrameInv, BackInv, NEW c \in Cpus, snd[c].pc \in Held, Refuse(c),
         UNCHANGED <<ctrl, src, sent, ackw, fresh>>
  PROVE  BackInv'
<1>1. /\ back' = back \cup {snd[c].frm} /\ snd'[c].pc = "idle"
      /\ \A d \in Cpus : d # c => snd'[d] = snd[d]
  BY IdleMoves DEF Refuse
<1>2. \A g \in back' : ~InRing(g)'
  BY <1>1 DEF BackInv, FrameInv, SenderFrames, InRing
<1>3. fresh' \cap back' = {}
  BY <1>1 DEF BackInv, FrameInv, SenderFrames, Held
<1>4. \A d \in Cpus : snd'[d].pc \in Held => snd'[d].frm \notin back'
  BY <1>1 DEF BackInv, Apart, Held
<1> QED
  BY <1>2, <1>3, <1>4 DEF BackInv

\* Frames come back from senders that give up, from the reaper, and with their
\* TX status.
LEMMA BackNext ==
  ASSUME TypeOK, BdFirst, Apart, FrameInv, RingInv, BackInv, [Next]_vars
  PROVE  BackInv'
<1>1. ASSUME NEW c \in Cpus, NEW f \in Frames, TxStart(c, f) PROVE BackInv'
  <2>1. /\ snd'[c].frm = f /\ \A d \in Cpus : d # c => snd'[d] = snd[d]
        /\ f \in fresh /\ fresh' = fresh \ {f}
        /\ UNCHANGED <<ctrl, src, sent, ackw, back>>
    BY <1>1, StartMoves
  <2>2. \A d \in Cpus : snd'[d].pc \in Held => snd'[d].frm \notin back'
    BY <2>1 DEF BackInv
  <2> QED
    BY <2>1, <2>2 DEF BackInv, InRing
<1>2. ASSUME NEW c \in Cpus, TxStep(c) PROVE BackInv'
  <2> DEFINE ch == Chan(snd[c].frm)
  <2>1. CASE Refuse(c) /\ (TxClaim(c) \/ TxFull(c) \/ TxSetSkb(c))
    BY <2>1, RefuseBack DEF TxClaim, TxFull, TxSetSkb, Held, ringVars, chipVars
  <2>2. CASE ~Refuse(c) /\ (TxClaim(c) \/ TxFull(c) \/ TxSetSkb(c))
    <3>1. UNCHANGED <<ctrl, src, sent, ackw, fresh, back>>
      BY <2>2 DEF TxClaim, TxFull, TxSetSkb, ringVars, chipVars
    <3>2. /\ (snd[c].pc = "claim" /\ Goto(c, "stop"))
             \/ (snd[c].pc = "skb" /\ Goto(c, "map"))
      BY <2>2 DEF TxClaim, TxFull, TxSetSkb
    <3>3. \A d \in Cpus : snd'[d].pc \in Held => snd[d].pc \in Held /\ snd'[d].frm = snd[d].frm
      BY <3>2, GotoMoves DEF Held
    <3> QED
      BY <3>1, <3>3 DEF BackInv, InRing
  <2>3. CASE TxStopForAck(c) \/ TxCheck(c) \/ TxAdvance(c) \/ TxDoorbell(c) \/ TxLen(c)
    <3>1. UNCHANGED <<ctrl, src, sent, ackw, fresh, back>>
      BY <2>3 DEF TxStopForAck, TxCheck, TxAdvance, TxDoorbell, TxLen, ringVars, chipVars
    <3>2. Fewer
      BY <3>1 DEF Fewer
    <3>3. \A d \in Cpus : Onward(d)
      <4>1. CASE TxStopForAck(c)
        BY <4>1, GotoOnward DEF TxStopForAck, Held
      <4>2. CASE TxCheck(c)
        BY <4>2, CheckMoves DEF Onward, Held
      <4>3. CASE TxAdvance(c)
        BY <4>3, GotoOnward DEF TxAdvance, Held
      <4>4. CASE TxDoorbell(c)
        BY <4>4, IdleMoves DEF TxDoorbell
      <4>5. CASE TxLen(c)
        BY <4>5, GotoOnward DEF TxLen, Held
      <4> QED
        BY <2>3, <4>1, <4>2, <4>3, <4>4, <4>5
    <3> QED
      BY <3>1, <3>2, <3>3, KeepBack
  <2>4. CASE TxWriteBd(c)
    <3>1. /\ UNCHANGED <<src, sent, ackw, fresh, back>> /\ Goto(c, "skb")
          /\ snd[c].pc = "bd" /\ ctrl' = [ctrl EXCEPT ![ch][snd[c].ctl] = "bd"]
      BY <2>4 DEF TxWriteBd, chipVars
    <3>2. ch \in Channels /\ snd[c].ctl \in Slots
      BY <3>1 DEF TypeOK, SenderTypes
    <3>3. Fewer
      BY <3>1, <3>2 DEF Fewer, TypeOK, RingTypes
    <3>4. \A d \in Cpus : Onward(d)
      BY <3>1, GotoOnward DEF Held
    <3> QED
      BY <3>1, <3>3, <3>4, KeepBack
  <2>5. CASE TxMap(c)
    <3> DEFINE s == next(snd[c].ctl)
    <3>1. /\ UNCHANGED <<ctrl, sent, ackw, fresh, back>> /\ snd[c].pc = "map"
          /\ UNCHANGED src \/ src' = [src EXCEPT ![ch][s] = skb[ch][s]]
      BY <2>5 DEF TxMap, chipVars
    <3>2. ch \in Channels /\ s \in Slots /\ ctrl[ch][s] = "off"
      BY <3>1, SenderAt DEF Building, RingInv, BuildInv, Storing
    <3>3. \A dh \in Channels, r \in Slots : ~(dh = ch /\ r = s) => src'[dh][r] = src[dh][r]
      BY <3>1, <3>2 DEF TypeOK, RingTypes
    <3>4. Fewer
      BY <3>1, <3>2, <3>3 DEF Fewer
    <3>5. \A d \in Cpus : Onward(d)
      BY <2>5, GotoOnward DEF TxMap, Held
    <3> QED
      BY <3>1, <3>4, <3>5, KeepBack
  \* The frame that becomes visible was the sender's until now.
  <2>6. CASE TxValid(c)
    <3> DEFINE s == next(snd[c].ctl)
    <3>1. /\ UNCHANGED <<src, sent, ackw, fresh, back>>
          /\ snd[c].pc = "valid" /\ Goto(c, "advance")
          /\ ctrl' = [ctrl EXCEPT ![ch][s] = "skb"]
      BY <2>6 DEF TxValid, chipVars
    <3>2. ch \in Channels /\ s \in Slots /\ src[ch][s] = snd[c].frm
      BY <3>1, SenderAt DEF Building, RingInv, BuildInv
    <3>3. \A g : InRing(g)' => InRing(g) \/ g = snd[c].frm
      BY <3>1, <3>2 DEF InRing, TypeOK, RingTypes
    <3>4. \A d \in Cpus : snd'[d].pc \in Held => snd[d].pc \in Held /\ snd'[d].frm = snd[d].frm
      BY <3>1, GotoMoves DEF Held
    <3>5. snd[c].frm \notin back
      BY <3>1 DEF BackInv, Held
    <3> QED
      BY <3>1, <3>3, <3>4, <3>5 DEF BackInv
  <2> QED
    BY <1>2, <2>1, <2>2, <2>3, <2>4, <2>5, <2>6 DEF TxStep
\* The handler and the worker give back what was sent.
<1>3. ASSUME NEW f \in sent, back' \subseteq back \cup {f}, ackw' \in {NoFrame, ackw},
             UNCHANGED <<ctrl, src, snd, sent, fresh>>
      PROVE  BackInv'
  <2>1. /\ f \notin fresh /\ ~InRing(f)
        /\ \A c \in Cpus : snd[c].pc \in Held => snd[c].frm # f
    BY SentIsFree
  <2> QED
    BY <1>3, <2>1 DEF BackInv, InRing
<1>4. CASE ReapTake
  <2> DEFINE f == skb[irq.ch][irq.ctl]
  <2>1. UNCHANGED <<ctrl, src, snd, sent, fresh, ackw>> /\ irq.pc = "take"
    BY <1>4 DEF ReapTake, chipVars
  <2>2. CASE UNCHANGED back
    BY <2>1, <2>2 DEF BackInv, InRing
  <2>3. CASE f # NoFrame /\ back' \subseteq back \cup {f}
    <3>1. f \in sent
      BY <2>1, <2>3, TakenWasSent
    <3> QED
      BY <1>3, <2>1, <2>3, <3>1
  <2> QED
    BY <1>4, <2>2, <2>3 DEF ReapTake
<1>5. CASE AckWake
  <2>1. /\ back' = back \cup {ackw} /\ ackw # NoFrame /\ ackw' = NoFrame
        /\ UNCHANGED <<ctrl, src, snd, sent, fresh>>
    BY <1>5 DEF AckWake, ringVars, chipVars
  <2>2. ackw \in sent
    BY <2>1 DEF BackInv
  <2> QED
    BY <1>3, <2>1, <2>2
<1>6. CASE AckTake
  <2>1. ackw' = tx_ack_skb /\ acks # {} /\ UNCHANGED <<ctrl, src, snd, sent, fresh, back>>
    BY <1>6 DEF AckTake, ringVars
  <2>2. tx_ack_skb \in sent
    BY <2>1 DEF FrameInv, AckFrames
  <2> QED
    BY <2>1, <2>2 DEF BackInv, InRing
<1>7. ASSUME NEW ch \in Channels, DmaBd(ch) \/ DmaSkb(ch) PROVE BackInv'
  <2>1. /\ UNCHANGED <<src, snd, fresh, back, ackw>> /\ sent \subseteq sent'
        /\ pos[ch] \in Slots /\ ctrl' = [ctrl EXCEPT ![ch][pos[ch]] = "off"]
    BY <1>7 DEF DmaBd, DmaSkb, TypeOK, ChipTypes
  <2>2. Fewer
    BY <2>1 DEF Fewer, TypeOK, RingTypes
  <2> QED
    BY <2>1, <2>2, KeepBack DEF Onward
<1>8. CASE \/ \E c \in Cpus : IrqEnter(c)
           \/ IrqChannel \/ ReapSlot \/ ReapWake \/ ReapWakeQueues \/ ReapClear
           \/ \E ch \in Channels : DmaStop(ch)
           \/ AckLost \/ Power \/ UNCHANGED vars
  <2>1. UNCHANGED <<ctrl, src, snd, sent, fresh, back, ackw>>
    BY <1>8 DEF IrqEnter, IrqChannel, ReapSlot, ReapWake, ReapWakeQueues, ReapClear, DmaStop,
      AckLost, Power, ringVars, chipVars, vars
  <2> QED
    BY <2>1 DEF BackInv, InRing
<1> QED
  BY <1>1, <1>2, <1>4, <1>5, <1>6, <1>7, <1>8 DEF Next, Reap, Dma

-----------------------------------------------------------------------------
(* What holds until two contexts are at one pair at once.                  *)

\* torn is never forgotten.
LEMMA TornStays ==
  ASSUME [Next]_vars, torn
  PROVE  torn'
<1>1. ASSUME NEW c \in Cpus, TxStep(c) PROVE torn'
  <2>1. CASE TxCheck(c)
    BY <2>1 DEF TxCheck
  <2>2. CASE TxSetSkb(c)
    BY <2>2 DEF TxSetSkb
  <2>3. CASE ~TxCheck(c) /\ ~TxSetSkb(c)
    BY <1>1, <2>3 DEF TxStep, TxClaim, TxStopForAck, TxFull, TxWriteBd, TxMap, TxLen, TxValid,
      TxAdvance, TxDoorbell
  <2> QED
    BY <2>1, <2>2, <2>3
<1>2. CASE ReapSlot
  BY <1>2 DEF ReapSlot
<1>3. CASE \/ \E c \in Cpus : \/ IrqEnter(c) \/ \E f \in Frames : TxStart(c, f)
           \/ IrqChannel \/ ReapTake \/ ReapWake \/ ReapWakeQueues \/ ReapClear
           \/ AckTake \/ AckWake \/ AckLost \/ Power
           \/ \E ch \in Channels : Dma(ch)
           \/ UNCHANGED vars
  BY <1>3 DEF TxStart, IrqEnter, IrqChannel, ReapTake, ReapWake, ReapWakeQueues, ReapClear,
    AckTake, AckWake, AckLost, Power, Dma, DmaBd, DmaSkb, DmaStop, vars
<1> QED
  BY <1>1, <1>2, <1>3 DEF Next, Reap

LEMMA PathInit == Init => PathInv
<1>1. Init => Apart
  BY DEF Init, Apart, IdleSnd, Building
<1>2. Init => BackInv
  BY DEF Init, BackInv, IdleSnd, Held
<1> QED
  BY <1>1, <1>2, FrameInit, RingInit DEF PathInv

LEMMA PathNext ==
  ASSUME TypeOK, BdFirst, torn \/ PathInv, [Next]_vars
  PROVE  torn' \/ PathInv'
<1> SUFFICES ASSUME ~torn' PROVE PathInv'
  OBVIOUS
<1>1. PathInv /\ Apart /\ FrameInv /\ SenderFrames /\ RingInv /\ BackInv
  BY TornStays DEF PathInv, FrameInv
<1>2. Apart'
  BY <1>1, ApartNext
<1> QED
  BY <1>1, <1>2, FrameNext, RingNext, BackNext DEF PathInv

LEMMA PathKept == Spec => [](TypeOK /\ BdFirst /\ (torn \/ PathInv))
<1>1. Init => BdFirst
  BY DEF Init, BdFirst, Building, IdleSnd, HasBd
<1>2. Spec => []BdFirst
  BY <1>1, TypeCorrect, BdFirstNext, PTL DEF Spec
<1>3. Init => torn \/ PathInv
  BY PathInit
<1>4. TypeOK /\ BdFirst /\ (torn \/ PathInv) /\ [Next]_vars => (torn \/ PathInv)'
  BY PathNext
<1> QED
  BY <1>2, <1>3, <1>4, TypeCorrect, PTL DEF Spec

\* The interrupt gives back, or stops tracking, only frames that the chip has
\* completed (dxe.c:358-377), on any number of CPUs and for an engine that may
\* take a BD before its frame is there: unless the reaper was at a block a
\* sender had half done, or senders overlapped, what it finds was sent.
THEOREM ReapsWhatWasSent == Spec => []ReapsOnlySent
<1>1. torn \/ PathInv => ReapsOnlySent
  BY DEF PathInv, RingInv, HandlerInv, ReapsOnlySent
<1> QED
  BY <1>1, PathKept, PTL

\* No descriptor the chip may still read refers to memory mac80211 has back
\* (dxe.c:358-377, 576-584; txrx.c:263), until two contexts met at a pair.
THEOREM InFlightIsKept == Spec => []InFlightKept
<1>1. torn \/ PathInv => InFlightKept
  BY DEF PathInv, BackInv, InRing, InFlightKept, InFlightNotBack
<1> QED
  BY <1>1, PathKept, PTL

\* The frame a sender put into its control block is there when it is mapped and
\* measured (dxe.c:636-653), although the handler may run in between, on its
\* CPU or on another, until two contexts met at a pair.
THEOREM SlotIsOwn == Spec => []OwnSlotKept
<1>1. torn \/ PathInv => OwnSlotKept
  BY DEF PathInv, RingInv, BuildInv, Storing, OwnSlot, OwnSlotKept
<1> QED
  BY <1>1, PathKept, PTL

-----------------------------------------------------------------------------
(* Stopped queues.                                                         *)

LEMMA StopHasReasonNext ==
  ASSUME TypeOK, BdFirst, torn \/ PathInv, StopHasReason, [Next]_vars
  PROVE  StopHasReason'
<1> SUFFICES ASSUME ~torn' PROVE StopHasReason'
  BY DEF StopHasReason
<1>0. ~torn /\ FrameInv
  BY TornStays DEF PathInv
\* Steps that stop nothing and take no reason to wake away.
<1> DEFINE Kept == /\ stopped' => stopped
                   /\ queues_stopped => queues_stopped'
                   /\ tx_ack_skb # NoFrame => tx_ack_skb' # NoFrame
                   /\ ackw # NoFrame => ackw' # NoFrame
                   /\ irq.pc = "waking" => irq'.pc = "waking"
                   /\ \A c \in Cpus : snd[c].pc = "full" => snd'[c].pc = "full"
<1>1. ASSUME Kept PROVE StopHasReason'
  BY <1>0, <1>1 DEF StopHasReason
<1>2. ASSUME NEW c \in Cpus, NEW f \in Frames, TxStart(c, f) PROVE StopHasReason'
  <2>1. /\ UNCHANGED <<stopped, queues_stopped, tx_ack_skb, ackw, irq>>
        /\ snd[c].pc = "idle" /\ \A d \in Cpus : d # c => snd'[d] = snd[d]
    BY <1>2, StartMoves DEF TxStart
  <2> QED
    BY <1>1, <2>1
<1>3. ASSUME NEW c \in Cpus, TxStep(c) PROVE StopHasReason'
  <2>1. CASE TxClaim(c)
    <3>1. \A d \in Cpus : d # c => snd'[d] = snd[d]
      BY <2>1, GotoMoves, IdleMoves DEF TxClaim, Refuse
    <3>2. snd[c].frm # NoFrame
      BY <2>1, TxAssumption DEF TxClaim, TypeOK, SenderTypes
    <3>3. Kept
      BY <2>1, <3>1, <3>2 DEF TxClaim
    <3> QED
      BY <1>1, <3>3
  \* The frame the queues are stopped for is the one whose status will wake them.
  <2>2. CASE TxStopForAck(c)
    <3>1. snd[c].frm \in StatusFrames /\ tx_ack_skb = snd[c].frm
      BY <1>0, <2>2 DEF TxStopForAck, FrameInv, SenderFrames, AckFrames, Held
    <3>2. tx_ack_skb' # NoFrame
      BY <2>2, <3>1, TxAssumption DEF TxStopForAck
    <3> QED
      BY <3>2 DEF StopHasReason
  <2>3. CASE TxCheck(c)
    <3>1. /\ snd'[c].pc \in {"bd", "full"} /\ snd[c].pc = "check"
          /\ \A d \in Cpus : d # c => snd'[d] = snd[d]
      BY <2>3, CheckMoves
    <3>2. CASE snd'[c].pc = "full"
      BY <3>2 DEF StopHasReason
    <3>3. CASE snd'[c].pc = "bd"
      <4>1. UNCHANGED <<stopped, queues_stopped, tx_ack_skb, ackw, irq>>
        BY <2>3, <3>3 DEF TxCheck, TypeOK, SenderTypes
      <4> QED
        BY <1>1, <3>1, <4>1
    <3> QED
      BY <3>1, <3>2, <3>3
  <2>4. CASE TxFull(c)
    BY <2>4 DEF TxFull, StopHasReason
  <2>5. CASE \/ TxWriteBd(c) \/ TxSetSkb(c) \/ TxMap(c) \/ TxLen(c) \/ TxValid(c)
             \/ TxAdvance(c) \/ TxDoorbell(c)
    <3>1. snd[c].pc # "full" /\ UNCHANGED <<stopped, queues_stopped, tx_ack_skb, ackw, irq>>
      BY <2>5 DEF TxWriteBd, TxSetSkb, TxMap, TxLen, TxValid, TxAdvance, TxDoorbell
    <3>2. \A d \in Cpus : d # c => snd'[d] = snd[d]
      BY <2>5, GotoMoves, IdleMoves
      DEF TxWriteBd, TxSetSkb, TxMap, TxLen, TxValid, TxAdvance, TxDoorbell, Refuse
    <3> QED
      BY <1>1, <3>1, <3>2
  <2> QED
    BY <1>3, <2>1, <2>2, <2>3, <2>4, <2>5 DEF TxStep
<1>4. ASSUME NEW c \in Cpus, IrqEnter(c) PROVE StopHasReason'
  BY <1>1, <1>4 DEF IrqEnter
<1>5. CASE IrqChannel \/ ReapSlot \/ ReapTake \/ ReapClear
  <2>1. irq.pc # "waking" /\ UNCHANGED <<stopped, queues_stopped, tx_ack_skb, ackw, snd>>
    BY <1>5 DEF IrqChannel, ReapSlot, ReapTake, ReapClear
  <2> QED
    BY <1>1, <2>1
<1>6. CASE ReapWake
  <2>1. queues_stopped => irq'.pc = "waking"
    BY <1>6 DEF ReapWake, TypeOK, HandlerTypes
  <2> QED
    BY <1>0, <1>6, <2>1 DEF ReapWake, StopHasReason
<1>7. CASE ReapWakeQueues \/ AckWake
  BY <1>7 DEF ReapWakeQueues, AckWake, StopHasReason
<1>8. CASE AckTake
  BY <1>0, <1>8 DEF AckTake, StopHasReason
<1>9. CASE \/ AckLost \/ Power \/ UNCHANGED vars
           \/ \E ch \in Channels : Dma(ch)
  <2>1. UNCHANGED <<stopped, queues_stopped, tx_ack_skb, ackw, irq, snd>>
    BY <1>9 DEF AckLost, Power, Dma, DmaBd, DmaSkb, DmaStop, vars
  <2> QED
    BY <1>1, <2>1
<1> QED
  BY <1>2, <1>3, <1>4, <1>5, <1>6, <1>7, <1>8, <1>9 DEF Next, Reap

\* mac80211's queues are stopped only with a reason on record, on any number of
\* CPUs: queues_stopped (dxe.c:607-611, 371), the claim in tx_ack_skb
\* (txrx.c:254-262), or a write of a stop or a wake still to come.  A frame gets
\* as far as stopping the queues only with its claim in tx_ack_skb, and an
\* indication takes the claim it is for, until two contexts met at a pair.
THEOREM StoppedHasReason == Spec => []StopHasReason
<1>1. Init => StopHasReason
  BY DEF Init, StopHasReason
<1>2. TypeOK /\ BdFirst /\ (torn \/ PathInv) /\ StopHasReason /\ [Next]_vars => StopHasReason'
  BY StopHasReasonNext
<1> QED
  BY <1>1, <1>2, PathKept, PTL DEF Spec

-----------------------------------------------------------------------------
(* Each frame is freed once, whatever meets in the ring: torn plays no part *)
(* in this one.                                                            *)

\* The sender has not put its frame into a control block yet.
Fetching == {"claim", "stop", "check", "full", "bd", "skb"}

OneSlot ==
  /\ \A c, d \in Cpus : (c # d /\ snd[c].pc # "idle" /\ snd[d].pc # "idle")
                          => snd[c].frm # snd[d].frm
  /\ \A c \in Cpus :
       /\ snd[c].pc # "idle" => snd[c].frm \notin fresh
       /\ snd[c].pc \in Fetching => /\ \A ch \in Channels, s \in Slots :
                                         skb[ch][s] # snd[c].frm
                                    /\ snd[c].frm \in back => snd[c].frm \in StatusFrames
       /\ snd[c].pc = "claim" => snd[c].frm \in StatusFrames
  /\ \A ch, dh \in Channels : \A s, r \in Slots :
       (skb[ch][s] = skb[dh][r] /\ skb[ch][s] # NoFrame) => ch = dh /\ s = r
  /\ \A ch \in Channels, s \in Slots : skb[ch][s] \notin fresh
  /\ fresh \cap back = {}
  /\ tx_ack_skb \in StatusFrames \cup {NoFrame} /\ tx_ack_skb \notin fresh
  /\ ackw \in StatusFrames \cup {NoFrame} /\ ackw \notin fresh

\* A frame in a control block is mac80211's only while the reaper is at it, or
\* because its TX status came.
BackInPlace ==
  \A ch \in Channels, s \in Slots :
    skb[ch][s] \in back \ StatusFrames =>
      irq.pc \in {"wake", "waking", "clear"} /\ irq.ch = ch /\ irq.ctl = s

LEMMA OneSlotInit == Init => OneSlot /\ BackInPlace
<1> SUFFICES ASSUME Init PROVE OneSlot /\ BackInPlace
  OBVIOUS
<1>1. \A c \in Cpus : snd[c].pc = "idle"
  BY DEF Init, IdleSnd
<1>2. \A ch \in Channels, s \in Slots : skb[ch][s] = NoFrame
  BY DEF Init
<1>3. NoFrame \notin fresh /\ back = {} /\ tx_ack_skb = NoFrame /\ ackw = NoFrame
  BY TxAssumption DEF Init
<1> QED
  BY <1>1, <1>2, <1>3 DEF OneSlot, BackInPlace, Fetching

\* A sender moves on or becomes idle, and slots are emptied at most.
LEMMA OneSlotMoves ==
  ASSUME TypeOK, OneSlot, fresh' = fresh, back' = back,
         tx_ack_skb' \in {tx_ack_skb, NoFrame}, ackw' \in {ackw, tx_ack_skb, NoFrame},
         \A d \in Cpus : snd'[d].pc # "idle" =>
           /\ snd[d].pc # "idle" /\ snd'[d].frm = snd[d].frm
           /\ snd'[d].pc \in Fetching => snd[d].pc \in Fetching
           /\ snd'[d].pc = "claim" => snd[d].pc = "claim",
         \A ch \in Channels, s \in Slots : skb'[ch][s] \in {NoFrame, skb[ch][s]}
  PROVE  OneSlot'
<1>0. NoFrame \notin Frames /\ fresh \subseteq Frames
  BY TxAssumption DEF TypeOK, HostTypes
<1>1. \A c \in Cpus : snd'[c].pc \in Fetching => snd[c].frm # NoFrame /\ snd[c].pc \in Fetching
  BY <1>0 DEF TypeOK, SenderTypes, Fetching
<1>2. \A c \in Cpus : snd'[c].pc \in Fetching => (\A ch \in Channels, s \in Slots : skb'[ch][s] # snd'[c].frm)
  BY <1>1 DEF OneSlot, Fetching
<1>3. \A c, d \in Cpus : (c # d /\ snd'[c].pc # "idle" /\ snd'[d].pc # "idle")
                           => snd'[c].frm # snd'[d].frm
  BY DEF OneSlot
<1>4. \A c \in Cpus :
        /\ snd'[c].pc # "idle" => snd'[c].frm \notin fresh'
        /\ snd'[c].pc \in Fetching => (snd'[c].frm \in back' => snd'[c].frm \in StatusFrames)
        /\ snd'[c].pc = "claim" => snd'[c].frm \in StatusFrames
  BY DEF OneSlot, Fetching
<1>5. /\ \A ch, dh \in Channels : \A s, r \in Slots :
           (skb'[ch][s] = skb'[dh][r] /\ skb'[ch][s] # NoFrame) => ch = dh /\ s = r
      /\ \A ch \in Channels, s \in Slots : skb'[ch][s] \notin fresh'
  BY <1>0 DEF OneSlot
<1>6. /\ fresh' \cap back' = {}
      /\ tx_ack_skb' \in StatusFrames \cup {NoFrame} /\ tx_ack_skb' \notin fresh'
      /\ ackw' \in StatusFrames \cup {NoFrame} /\ ackw' \notin fresh'
  BY <1>0 DEF OneSlot
<1> QED
  BY <1>2, <1>3, <1>4, <1>5, <1>6 DEF OneSlot

\* A sender gives up before its frame is in a control block.
LEMMA OneSlotRefuse ==
  ASSUME TypeOK, OneSlot, BackInPlace, NEW c \in Cpus, snd[c].pc \in Fetching, Refuse(c),
         UNCHANGED <<skb, fresh, tx_ack_skb, ackw, irq>>
  PROVE  OneSlot' /\ BackInPlace'
<1>1. /\ back' = back \cup {snd[c].frm} /\ snd'[c].pc = "idle"
      /\ \A d \in Cpus : d # c => snd'[d] = snd[d]
      /\ snd[c].pc # "idle" /\ snd[c].frm \notin fresh /\ (\A dh \in Channels, r \in Slots : skb[dh][r] # snd[c].frm)
  BY IdleMoves DEF Refuse, OneSlot, Fetching
<1>2. \A d \in Cpus : snd'[d].pc \in Fetching =>
        /\ (\A dh \in Channels, r \in Slots : skb'[dh][r] # snd'[d].frm)
        /\ snd'[d].frm \in back' => snd'[d].frm \in StatusFrames
  BY <1>1 DEF OneSlot, Fetching
<1>3. OneSlot'
  BY <1>1, <1>2 DEF OneSlot, Fetching
<1>4. BackInPlace'
  BY <1>1 DEF BackInPlace
<1> QED
  BY <1>3, <1>4

LEMMA OneSlotSender ==
  ASSUME TypeOK, BdFirst, OneSlot, BackInPlace, NEW c \in Cpus, TxStep(c)
  PROVE  OneSlot' /\ BackInPlace'
<1> DEFINE ch == Chan(snd[c].frm)  s == next(snd[c].ctl)
<1>0. ASSUME UNCHANGED <<fresh, back, tx_ack_skb, ackw, irq>>,
             \A dh \in Channels, r \in Slots : skb'[dh][r] \in {NoFrame, skb[dh][r]},
             \A d \in Cpus : d # c => snd'[d] = snd[d],
             snd'[c].pc = "idle" \/ snd'[c].frm = snd[c].frm,
             snd[c].pc # "idle", snd'[c].pc # "claim",
             snd'[c].pc \in Fetching => snd[c].pc \in Fetching
      PROVE  OneSlot' /\ BackInPlace'
  <2>1. OneSlot'
    BY <1>0, OneSlotMoves
  <2>2. NoFrame \notin back
    BY TxAssumption DEF TypeOK, HostTypes
  <2>3. BackInPlace'
    BY <1>0, <2>2 DEF BackInPlace
  <2> QED
    BY <2>1, <2>3
<1>1. CASE (TxClaim(c) /\ tx_ack_skb # NoFrame) \/ TxFull(c)
  BY <1>1, OneSlotRefuse DEF TxClaim, TxFull, Fetching, ringVars
<1>2. CASE TxClaim(c) /\ tx_ack_skb = NoFrame
  <2>1. /\ UNCHANGED <<skb, fresh, back, ackw, irq>> /\ snd[c].pc = "claim"
        /\ tx_ack_skb' = snd[c].frm /\ Goto(c, "stop")
    BY <1>2 DEF TxClaim, ringVars
  <2>2. /\ snd'[c].pc = "stop" /\ \A d \in Cpus : snd'[d].frm = snd[d].frm
        /\ \A d \in Cpus : d # c => snd'[d] = snd[d]
    BY <2>1, GotoMoves
  <2>3. \A d \in Cpus : snd'[d].pc \in Fetching => (\A dh \in Channels, r \in Slots : skb'[dh][r] # snd'[d].frm)
    BY <2>1, <2>2 DEF OneSlot, Fetching
  <2>4. OneSlot'
    BY <2>1, <2>2, <2>3 DEF OneSlot, Fetching
  <2>5. BackInPlace'
    BY <2>1 DEF BackInPlace
  <2> QED
    BY <2>4, <2>5
<1>3. CASE TxStopForAck(c) \/ TxLen(c) \/ TxAdvance(c) \/ TxMap(c) \/ TxValid(c)
  <2>1. PICK pc \in {"check", "oops", "valid", "doorbell", "len", "advance"} :
          Goto(c, pc) /\ (pc = "check" => snd[c].pc = "stop")
    BY <1>3 DEF TxStopForAck, TxLen, TxAdvance, TxMap, TxValid
  <2>2. /\ UNCHANGED <<skb, fresh, back, tx_ack_skb, ackw, irq>> /\ snd[c].pc # "idle"
    BY <1>3 DEF TxStopForAck, TxLen, TxAdvance, TxMap, TxValid, ringVars
  <2> QED
    BY <1>0, <2>1, <2>2, GotoMoves DEF Fetching
<1>4. CASE TxCheck(c)
  <2>1. UNCHANGED <<skb, fresh, back, tx_ack_skb, ackw, irq>>
    BY <1>4 DEF TxCheck, ringVars
  <2> QED
    BY <1>0, <1>4, <2>1, CheckMoves DEF Fetching
<1>5. CASE TxDoorbell(c)
  <2>1. UNCHANGED <<skb, fresh, back, tx_ack_skb, ackw, irq>> /\ snd[c].pc # "idle"
        /\ snd' = [snd EXCEPT ![c] = IdleSnd]
    BY <1>5 DEF TxDoorbell, ringVars
  <2> QED
    BY <1>0, <2>1, IdleMoves DEF Fetching
<1>6. CASE TxWriteBd(c)
  <2>1. /\ UNCHANGED <<fresh, back, tx_ack_skb, ackw, irq>>
        /\ snd[c].pc = "bd" /\ Goto(c, "skb")
        /\ skb'  = [skb  EXCEPT ![ch][snd[c].ctl] = NoFrame]
    BY <1>6 DEF TxWriteBd
  <2>2. \A dh \in Channels, r \in Slots : skb'[dh][r] \in {NoFrame, skb[dh][r]}
    BY <2>1 DEF TypeOK, RingTypes
  <2> QED
    BY <1>0, <2>1, <2>2, GotoMoves DEF Fetching
\* The frame is in no other control block, and no other sender has it.
<1>7. CASE TxSetSkb(c)
  <2> DEFINE f == snd[c].frm
  <2>1. /\ UNCHANGED <<fresh, tx_ack_skb, ackw, irq>>
        /\ snd[c].pc = "skb" /\ skb' = [skb EXCEPT ![ch][s] = f]
    BY <1>7 DEF TxSetSkb
  <2>2. /\ ch \in Channels /\ s \in Slots /\ ~HasBd(s) /\ f \in Frames
    BY <2>1, NextInRing, NextAlternates DEF TypeOK, SenderTypes, BdFirst, Building
  <2>3. Goto(c, "map") /\ UNCHANGED back
    BY <1>7, <2>2 DEF TxSetSkb
  <2>4. /\ skb'[ch][s] = f
        /\ \A dh \in Channels, r \in Slots : ~(dh = ch /\ r = s) => skb'[dh][r] = skb[dh][r]
    BY <2>1, <2>2 DEF TypeOK, RingTypes
  <2>5. /\ snd'[c].pc = "map" /\ \A d \in Cpus : snd'[d].frm = snd[d].frm
        /\ \A d \in Cpus : d # c => snd'[d] = snd[d]
    BY <2>3, GotoMoves
  <2>6. /\ f \notin fresh /\ (\A dh \in Channels, r \in Slots : skb[dh][r] # f)
        /\ f \in back => f \in StatusFrames
        /\ \A d \in Cpus : d # c /\ snd[d].pc # "idle" => snd[d].frm # f
    BY <2>1 DEF OneSlot, Fetching
  <2>7. \A d \in Cpus : snd'[d].pc \in Fetching => (\A dh \in Channels, r \in Slots : skb'[dh][r] # snd'[d].frm)
    <3>1. ASSUME NEW d \in Cpus, snd'[d].pc \in Fetching PROVE (\A dh \in Channels, r \in Slots : skb'[dh][r] # snd'[d].frm)
      <4>1. d # c /\ snd[d].pc \in Fetching /\ snd[d].frm # f /\ (\A dh \in Channels, r \in Slots : skb[dh][r] # snd[d].frm)
        BY <2>5, <2>6, <3>1 DEF OneSlot, Fetching
      <4> QED
        BY <2>4, <2>5, <4>1
    <3> QED
      BY <3>1
  <2>8. \A dh, eh \in Channels : \A r, t \in Slots :
          (skb'[dh][r] = skb'[eh][t] /\ skb'[dh][r] # NoFrame) => dh = eh /\ r = t
    <3>1. \A dh \in Channels, r \in Slots : skb[dh][r] # f
      BY <2>6
    <3> QED
      BY <2>4, <3>1 DEF OneSlot
  <2>9. \A dh \in Channels, r \in Slots : skb'[dh][r] \notin fresh'
    BY <2>1, <2>4, <2>6 DEF OneSlot
  <2>10. OneSlot'
    BY <2>1, <2>3, <2>5, <2>7, <2>8, <2>9 DEF OneSlot, Fetching
  <2>11. BackInPlace'
    BY <2>1, <2>3, <2>4, <2>6 DEF BackInPlace
  <2> QED
    BY <2>10, <2>11
<1> QED
  BY <1>1, <1>2, <1>3, <1>4, <1>5, <1>6, <1>7 DEF TxStep

LEMMA OneSlotNext ==
  ASSUME TypeOK, BdFirst, OneSlot, BackInPlace, [Next]_vars
  PROVE  OneSlot' /\ BackInPlace'
<1>0. NoFrame \notin Frames /\ back \subseteq Frames /\ fresh \subseteq Frames
  BY TxAssumption DEF TypeOK, HostTypes
<1>1. ASSUME NEW c \in Cpus, NEW f \in Frames, TxStart(c, f) PROVE OneSlot' /\ BackInPlace'
  <2>1. /\ snd'[c].frm = f /\ snd'[c].pc = IF f \in StatusFrames THEN "claim" ELSE "check"
        /\ \A d \in Cpus : d # c => snd'[d] = snd[d]
        /\ f \in fresh /\ fresh' = fresh \ {f}
        /\ UNCHANGED <<skb, tx_ack_skb, irq, ackw, back>>
    BY <1>1, StartMoves
  <2>2. (\A dh \in Channels, r \in Slots : skb[dh][r] # f) /\ f \notin back
    BY <2>1 DEF OneSlot
  <2>3. \A d \in Cpus : snd'[d].pc \in Fetching => (\A dh \in Channels, r \in Slots : skb'[dh][r] # snd'[d].frm)
    BY <2>1, <2>2 DEF OneSlot
  <2>4. OneSlot'
    BY <2>1, <2>2, <2>3 DEF OneSlot
  <2>5. BackInPlace'
    BY <2>1 DEF BackInPlace
  <2> QED
    BY <2>4, <2>5
<1>2. CASE ReapTake
  <2> DEFINE f == skb[irq.ch][irq.ctl]
  <2>1. UNCHANGED <<skb, snd, fresh, tx_ack_skb, ackw>> /\ irq.pc = "take"
    BY <1>2 DEF ReapTake
  <2>2. \A d \in Cpus : snd'[d].pc \in Fetching => (\A dh \in Channels, r \in Slots : skb'[dh][r] # snd'[d].frm)
    BY <2>1 DEF OneSlot
  <2>3. CASE UNCHANGED back
    BY <2>1, <2>2, <2>3 DEF OneSlot, BackInPlace
  <2>4. CASE f # NoFrame /\ back' = back \cup {f} /\ irq' = [irq EXCEPT !.pc = "wake"]
    <3>1. irq.ch \in Channels /\ irq.ctl \in Slots
      BY <2>1 DEF TypeOK, HandlerTypes
    <3>2. irq'.pc = "wake" /\ irq'.ch = irq.ch /\ irq'.ctl = irq.ctl
      BY <2>4 DEF TypeOK, HandlerTypes
    <3>3. \A d \in Cpus : snd[d].pc \in Fetching => snd[d].frm # f
      BY <3>1 DEF OneSlot
    <3>4. f \notin fresh
      BY <3>1 DEF OneSlot
    <3>5. OneSlot'
      BY <2>1, <2>2, <2>4, <3>3, <3>4 DEF OneSlot
    <3>6. BackInPlace'
      BY <2>1, <2>4, <3>1, <3>2 DEF OneSlot, BackInPlace
    <3> QED
      BY <3>5, <3>6
  <2> QED
    BY <1>2, <2>3, <2>4 DEF ReapTake
<1>3. CASE ReapWake \/ ReapWakeQueues
  <2>1. /\ irq.pc \in {"wake", "waking"} /\ irq'.pc \in {"waking", "clear"}
        /\ irq'.ch = irq.ch /\ irq'.ctl = irq.ctl
        /\ UNCHANGED <<skb, snd, fresh, back, tx_ack_skb, ackw>>
    BY <1>3 DEF ReapWake, ReapWakeQueues, TypeOK, HandlerTypes, ringVars
  <2>2. OneSlot'
    BY <2>1, OneSlotMoves
  <2>3. BackInPlace'
    BY <2>1 DEF BackInPlace
  <2> QED
    BY <2>2, <2>3
<1>4. CASE ReapClear
  <2>1. /\ irq.pc = "clear"
        /\ skb' = [skb EXCEPT ![irq.ch][irq.ctl] = NoFrame]
        /\ UNCHANGED <<snd, fresh, back, tx_ack_skb, ackw>>
    BY <1>4 DEF ReapClear
  <2>2. irq.ch \in Channels /\ irq.ctl \in Slots
    BY <2>1 DEF TypeOK, HandlerTypes
  <2>3. /\ skb'[irq.ch][irq.ctl] = NoFrame
        /\ \A ch \in Channels, s \in Slots :
             ~(ch = irq.ch /\ s = irq.ctl) => skb'[ch][s] = skb[ch][s]
    BY <2>1, <2>2 DEF TypeOK, RingTypes
  <2>4. OneSlot'
    BY <2>1, <2>3, OneSlotMoves
  <2>5. BackInPlace'
    BY <1>0, <2>1, <2>3 DEF BackInPlace
  <2> QED
    BY <2>4, <2>5
\* What the indication worker gives back waited for its status.
<1>5. CASE AckWake
  <2>1. /\ back' = back \cup {ackw} /\ ackw' = NoFrame /\ ackw \in StatusFrames
        /\ ackw \notin fresh
        /\ UNCHANGED <<skb, snd, irq, fresh, tx_ack_skb>>
    BY <1>5 DEF AckWake, ringVars, OneSlot
  <2>2. \A d \in Cpus : snd'[d].pc \in Fetching => (\A dh \in Channels, r \in Slots : skb'[dh][r] # snd'[d].frm)
    BY <2>1 DEF OneSlot
  <2>3. OneSlot'
    BY <1>0, <2>1, <2>2 DEF OneSlot
  <2>4. BackInPlace'
    BY <2>1 DEF BackInPlace
  <2> QED
    BY <2>3, <2>4
<1>6. CASE \/ \E c \in Cpus : IrqEnter(c)
           \/ IrqChannel \/ ReapSlot \/ AckTake \/ AckLost \/ Power
           \/ \E ch \in Channels : Dma(ch)
           \/ UNCHANGED vars
  <2>1. /\ UNCHANGED <<skb, snd, fresh, back>>
        /\ tx_ack_skb' \in {tx_ack_skb, NoFrame} /\ ackw' \in {ackw, tx_ack_skb, NoFrame}
    BY <1>6 DEF IrqEnter, IrqChannel, ReapSlot, AckTake, AckLost, Power, Dma, DmaBd, DmaSkb,
      DmaStop, ringVars, vars
  <2>2. irq.pc \in {"wake", "waking", "clear"} => UNCHANGED irq
    BY <1>6 DEF IrqEnter, IrqChannel, ReapSlot, AckTake, AckLost, Power, Dma, DmaBd, DmaSkb,
      DmaStop, vars
  <2>3. OneSlot'
    BY <2>1, OneSlotMoves
  <2>4. BackInPlace'
    BY <2>1, <2>2 DEF BackInPlace
  <2> QED
    BY <2>3, <2>4
<1> QED
  BY <1>1, <1>2, <1>3, <1>4, <1>5, <1>6, OneSlotSender DEF Next, Reap

\* The reaper looks into a frame only while the driver has it (dxe.c:362-367),
\* frames with TX status apart, on any number of CPUs and whatever meets in the
\* ring: a frame is in one control block at most, and what was refused or freed
\* is not in one again once the reaper has left it.
THEOREM FramesAreFreedOnce == Spec => FreedOnce
<1>1. Init => BdFirst
  BY DEF Init, BdFirst, Building, IdleSnd, HasBd
<1>2. Spec => []BdFirst
  BY <1>1, TypeCorrect, BdFirstNext, PTL DEF Spec
<1>3. TypeOK /\ BdFirst /\ (OneSlot /\ BackInPlace) /\ [Next]_vars => (OneSlot /\ BackInPlace)'
  BY OneSlotNext
<1>4. Spec => [](OneSlot /\ BackInPlace)
  BY <1>2, <1>3, OneSlotInit, TypeCorrect, PTL DEF Spec
<1>5. TypeOK /\ (OneSlot /\ BackInPlace) =>
        ((irq.pc = "take" /\ irq'.pc = "wake") =>
           skb[irq.ch][irq.ctl] \notin back \/ skb[irq.ch][irq.ctl] \in StatusFrames)
  <2> SUFFICES ASSUME TypeOK, BackInPlace, irq.pc = "take"
               PROVE  skb[irq.ch][irq.ctl] \notin back \/ skb[irq.ch][irq.ctl] \in StatusFrames
    OBVIOUS
  <2>1. irq.ch \in Channels /\ irq.ctl \in Slots
    BY DEF TypeOK, HandlerTypes
  <2> QED
    BY <2>1 DEF BackInPlace
<1> QED
  BY <1>4, <1>5, TypeCorrect, PTL DEF FreedOnce

-----------------------------------------------------------------------------
(* The order of the rings.  The frames the engine has still to transmit     *)
(* fill every second control block from where it is to the head (or to the  *)
(* frame a sender has made valid and not yet moved the head past).          *)

\* How far ahead of s the control block r is.
Before(s, r) == IF r >= s THEN r - s ELSE r + DescNum - s

\* The frame's control block of the next frame to come.
Free(ch) == IF \E c \in Cpus : Under({"advance"}, c, ch)
            THEN next(AfterFrame(head[ch])) ELSE next(head[ch])

OrderInv ==
  \A ch \in Channels :
    LET n == Cardinality(Flying(ch)) IN
    /\ 2 * n <= DescNum
    /\ \A s \in Slots : ctrl[ch][s] = "skb" <=> ~HasBd(s) /\ Before(First(ch), s) < 2 * n
    /\ Ahead(First(ch), 2 * n) = Free(ch)

LEMMA AheadInRing ==
  ASSUME NEW s \in Slots, NEW k \in 0..DescNum, k % 2 = 0
  PROVE  Ahead(s, k) \in Slots /\ (HasBd(Ahead(s, k)) <=> HasBd(s))
BY TxAssumption DEF Ahead, Slots, HasBd

LEMMA BeforeAhead ==
  ASSUME NEW s \in Slots
  PROVE  /\ \A k \in 0..(DescNum - 1) : Before(s, Ahead(s, k)) = k
         /\ \A t \in Slots : /\ Before(s, t) \in 0..(DescNum - 1)
                             /\ Ahead(s, Before(s, t)) = t
BY TxAssumption DEF Ahead, Before, Slots

LEMMA BeforeEven ==
  ASSUME NEW s \in Slots, NEW t \in Slots, HasBd(s) <=> HasBd(t)
  PROVE  Before(s, t) % 2 = 0
BY TxAssumption DEF Before, Slots, HasBd

LEMMA EvenGap ==
  ASSUME NEW b \in Nat, NEW n \in Nat, b % 2 = 0, b # 2 * n
  PROVE  b < 2 * n <=> b < 2 * (n + 1)
OBVIOUS

LEMMA AheadFurther ==
  ASSUME NEW s \in Slots
  PROVE  /\ AfterFrame(s) = Ahead(s, 2)
         /\ \A k \in 0..(DescNum - 2) :
              /\ Ahead(AfterFrame(s), k) = Ahead(s, k + 2)
              /\ AfterFrame(Ahead(s, k)) = Ahead(s, k + 2)
BY TxAssumption DEF Ahead, AfterFrame, next, Slots

LEMMA BeforeFurther ==
  ASSUME NEW s \in Slots, NEW t \in Slots
  PROVE  Before(AfterFrame(s), t) = IF Before(s, t) >= 2 THEN Before(s, t) - 2
                                    ELSE Before(s, t) + DescNum - 2
BY TxAssumption DEF Before, AfterFrame, next, Slots

\* The first control block of a frame, counted from where the engine is.
LEMMA FirstInRing ==
  ASSUME TypeOK, NEW ch \in Channels
  PROVE  First(ch) \in Slots /\ ~HasBd(First(ch))
<1>1. pos[ch] \in Slots
  BY DEF TypeOK, ChipTypes
<1> QED
  BY <1>1, NextInRing, NextAlternates DEF First

LEMMA FlyingFinite ==
  \A ch : IsFiniteSet(Flying(ch)) /\ Cardinality(Flying(ch)) \in Nat
<1> SUFFICES ASSUME NEW ch PROVE IsFiniteSet(Flying(ch)) /\ Cardinality(Flying(ch)) \in Nat
  OBVIOUS
<1>1. IsFiniteSet(Slots)
  BY TxAssumption, FS_Interval DEF Slots
<1>2. Flying(ch) \in SUBSET Slots
  BY DEF Flying
<1>3. IsFiniteSet(Flying(ch))
  BY <1>1, <1>2, FS_Subset
<1> QED
  BY <1>3, FS_CardinalityType

LEMMA OrderInit == Init => OrderInv
<1> SUFFICES ASSUME Init, NEW ch \in Channels
             PROVE  LET n == Cardinality(Flying(ch)) IN
                    /\ 2 * n <= DescNum
                    /\ \A s \in Slots : ctrl[ch][s] = "skb" <=> ~HasBd(s) /\ Before(First(ch), s) < 2 * n
                    /\ Ahead(First(ch), 2 * n) = Free(ch)
  BY DEF OrderInv
<1>1. Flying(ch) = {}
  BY DEF Init, Flying
<1>2. Cardinality(Flying(ch)) = 0
  BY <1>1, FS_EmptySet
<1>3. pos[ch] = 0 /\ head[ch] = 0 /\ 0 \in Slots
  BY TxAssumption DEF Init, Slots
<1>4. First(ch) = next(0) /\ next(0) \in Slots
  BY <1>3, NextInRing DEF First, HasBd
<1>5. Free(ch) = next(0)
  BY <1>3 DEF Free, Under, Init, IdleSnd
<1>6. \A s \in Slots : ctrl[ch][s] # "skb" /\ ~(Before(First(ch), s) < 0)
  BY <1>4, BeforeAhead DEF Init
<1>7. Ahead(next(0), 0) = next(0)
  BY <1>4, TxAssumption DEF Ahead, Slots
<1> QED
  BY <1>2, <1>4, <1>5, <1>6, <1>7, TxAssumption
\* The frames of the queue are those of the valid descriptors.
LEMMA QueuedInRing ==
  ASSUME TypeOK, OrderInv, NEW ch \in Channels, NEW i \in 1..Cardinality(Flying(ch))
  PROVE  LET s == Ahead(First(ch), 2 * (i - 1)) IN
         s \in Slots /\ ctrl[ch][s] = "skb"
<1> DEFINE n == Cardinality(Flying(ch))  s == Ahead(First(ch), 2 * (i - 1))
<1>1. n \in Nat /\ 2 * n <= DescNum
  BY FlyingFinite DEF OrderInv
<1>2. 2 * (i - 1) \in 0..(DescNum - 1) /\ (2 * (i - 1)) % 2 = 0 /\ 2 * (i - 1) < 2 * n
  BY <1>1, TxAssumption
<1>3. s \in Slots /\ ~HasBd(s)
  BY <1>2, AheadInRing, FirstInRing, TxAssumption
<1>4. Before(First(ch), s) = 2 * (i - 1)
  BY <1>2, BeforeAhead, FirstInRing
<1> QED
  BY <1>2, <1>3, <1>4 DEF OrderInv

\* Steps that neither make a frame visible, nor take one, nor move a head.
LEMMA OrderQuiet ==
  ASSUME TypeOK, OrderInv,
         \A ch \in Channels : First(ch)' = First(ch) /\ Free(ch)' = Free(ch),
         \A ch \in Channels, s \in Slots : ctrl'[ch][s] = "skb" <=> ctrl[ch][s] = "skb",
         \A ch \in Channels, s \in Slots : ctrl[ch][s] = "skb" => src'[ch][s] = src[ch][s]
  PROVE  OrderInv' /\ \A ch \in Channels : InFlight(ch)' = InFlight(ch)
<1>1. \A ch \in Channels : Flying(ch)' = Flying(ch)
  BY DEF Flying
<1>2. OrderInv'
  BY <1>1 DEF OrderInv
<1>3. ASSUME NEW ch \in Channels PROVE InFlight(ch)' = InFlight(ch)
  <2> DEFINE n == Cardinality(Flying(ch))  A(i) == Ahead(First(ch), 2 * (i - 1))
  <2>1. \A i \in 1..n : A(i) \in Slots /\ ctrl[ch][A(i)] = "skb"
    BY QueuedInRing
  <2>2. /\ InFlight(ch)  = [i \in 1..n |-> src[ch][A(i)]]
        /\ InFlight(ch)' = [i \in 1..n |-> src'[ch][A(i)]]
    BY <1>1 DEF InFlight
  <2>3. \A i \in 1..n : src'[ch][A(i)] = src[ch][A(i)]
    BY <2>1
  <2> HIDE DEF n, A
  <2> QED
    BY <2>2, <2>3
<1> QED
  BY <1>2, <1>3

\* A frame made valid is the last of its queue.
LEMMA OrderValid ==
  ASSUME TypeOK, BdFirst, Apart, RingInv, OrderInv, NEW c \in Cpus, TxValid(c),
         NEW f \in Frames, NEW ch \in Channels, NEW s \in Slots,
         f = snd[c].frm, ch = Chan(f), s = next(snd[c].ctl)
  PROVE  /\ OrderInv'
         /\ InFlight(ch)' = Append(InFlight(ch), f)
         /\ \A dh \in Channels \ {ch} : InFlight(dh)' = InFlight(dh)
<1> DEFINE n == Cardinality(Flying(ch))  F == First(ch)
<1>0. /\ UNCHANGED <<head, pos, src>> /\ snd[c].pc = "valid" /\ Goto(c, "advance")
      /\ ctrl' = [ctrl EXCEPT ![ch][s] = "skb"]
  BY DEF TxValid, chipVars
<1>2. /\ ch \in Channels /\ snd[c].ctl \in Slots /\ s \in Slots /\ ~HasBd(s)
      /\ f # NoFrame
  BY <1>0, NextInRing, NextAlternates, TxAssumption
  DEF TypeOK, SenderTypes, BdFirst, Building
<1>3. src[ch][s] = f /\ snd[c].ctl = head[ch] /\ ctrl[ch][s] = "off"
  BY <1>0 DEF RingInv, BuildInv, Building, Storing
\* No other sender builds in this ring.
<1>5. /\ snd'[c].pc = "advance" /\ \A d \in Cpus : snd'[d].frm = snd[d].frm
      /\ \A d \in Cpus : d # c => snd'[d].pc = snd[d].pc
      /\ \A d \in Cpus : d # c /\ snd[d].pc = "advance" => Chan(snd[d].frm) # ch
  BY <1>0, GotoMoves DEF Apart, Building
<1>6. /\ src'[ch][s] = f /\ ctrl'[ch][s] = "skb"
      /\ \A dh \in Channels, r \in Slots : ~(dh = ch /\ r = s) =>
           src'[dh][r] = src[dh][r] /\ ctrl'[dh][r] = ctrl[dh][r]
  BY <1>0, <1>2, <1>3 DEF TypeOK, RingTypes
<1>7. /\ Free(ch) = s /\ Free(ch)' = AfterFrame(s)
      /\ \A dh \in Channels : dh # ch => Free(dh)' = Free(dh)
  <2>1. ~\E d \in Cpus : Under({"advance"}, d, ch)
    BY <1>0, <1>5 DEF Under
  <2>2. \E d \in Cpus : Under({"advance"}, d, ch)'
    BY <1>5 DEF Under, Chan
  <2>3. \A dh \in Channels : dh # ch => \A d \in Cpus :
          Under({"advance"}, d, dh)' <=> Under({"advance"}, d, dh)
    BY <1>0, <1>5 DEF Under, Chan
  <2> QED
    BY <1>0, <1>3, <2>1, <2>2, <2>3 DEF Free, AfterFrame
<1>8. F \in Slots /\ ~HasBd(F) /\ n \in Nat /\ 2 * n <= DescNum /\ Ahead(F, 2 * n) = s
  BY <1>2, <1>7, FirstInRing, FlyingFinite DEF OrderInv
<1>9. /\ 2 * n + 2 <= DescNum /\ Before(F, s) = 2 * n
  <2>1. 2 * n # DescNum
    <3>1. ASSUME 2 * n = DescNum PROVE FALSE
      <4>1. s = F
        BY <1>8, <3>1, TxAssumption DEF Ahead, Slots
      <4>2. Before(F, s) = 0
        BY <1>8, <4>1, TxAssumption DEF Before, Slots
      <4> QED
        BY <1>2, <1>3, <1>8, <3>1, <4>2, TxAssumption DEF OrderInv
    <3> QED
      BY <3>1
  <2>2. 2 * n + 2 <= DescNum
    BY <1>8, <2>1, TxAssumption
  <2> QED
    BY <1>8, <2>2, BeforeAhead, TxAssumption
<1>10. First(ch)' = F /\ \A dh \in Channels : First(dh)' = First(dh)
  BY <1>0 DEF First
<1>11. /\ Flying(ch)' = Flying(ch) \cup {s} /\ s \notin Flying(ch)
       /\ \A dh \in Channels : dh # ch => Flying(dh)' = Flying(dh)
  BY <1>2, <1>3, <1>6 DEF Flying
<1>12. Cardinality(Flying(ch)') = n + 1
  BY ZenonT(40), <1>11, FlyingFinite, FS_AddElement
<1>13. OrderInv'
  <2>1. \A t \in Slots : ctrl'[ch][t] = "skb" <=> ~HasBd(t) /\ Before(F, t) < 2 * (n + 1)
    <3> SUFFICES ASSUME NEW t \in Slots
                 PROVE  ctrl'[ch][t] = "skb" <=> ~HasBd(t) /\ Before(F, t) < 2 * (n + 1)
      OBVIOUS
    <3>1. CASE t = s
      BY <1>2, <1>6, <1>8, <1>9, <3>1
    <3>2. CASE t # s
      <4>1. ctrl'[ch][t] = ctrl[ch][t]
        BY <1>2, <1>6, <3>2
      <4>2. Before(F, t) \in 0..(DescNum - 1) /\ Before(F, t) # 2 * n
        BY <1>8, <1>9, <3>2, BeforeAhead
      <4>3. ~HasBd(t) => Before(F, t) % 2 = 0
        BY <1>8, BeforeEven
      <4>4. ~HasBd(t) => (Before(F, t) < 2 * n <=> Before(F, t) < 2 * (n + 1))
        <5>1. Before(F, t) \in Nat
          BY <4>2, TxAssumption
        <5> QED
          BY <1>8, <4>2, <4>3, <5>1, EvenGap
      <4>5. ctrl[ch][t] = "skb" <=> ~HasBd(t) /\ Before(F, t) < 2 * n
        BY <1>2 DEF OrderInv
      <4> QED
        BY <4>1, <4>4, <4>5
    <3> QED
      BY <3>1, <3>2
  <2>2. 2 * n \in 0..(DescNum - 2) /\ 2 * (n + 1) = 2 * n + 2
    BY <1>8, <1>9, TxAssumption
  <2>3. Ahead(F, 2 * (n + 1)) = AfterFrame(s)
    BY <1>8, <2>2, AheadFurther
  <2>4. 2 * (n + 1) <= DescNum
    BY <1>9, <2>2
  <2>5. \A dh \in Channels \ {ch} : \A t \in Slots : ctrl'[dh][t] = ctrl[dh][t]
    BY <1>6
  <2> HIDE DEF n, F
  <2>6. ASSUME NEW dh \in Channels
        PROVE  LET m == Cardinality(Flying(dh)') IN
               /\ 2 * m <= DescNum
               /\ \A t \in Slots : ctrl'[dh][t] = "skb" <=> ~HasBd(t) /\ Before(First(dh)', t) < 2 * m
               /\ Ahead(First(dh)', 2 * m) = Free(dh)'
    <3>1. CASE dh = ch
      BY <1>7, <1>10, <1>12, <2>1, <2>3, <2>4, <3>1
    <3>2. CASE dh # ch
      <4>1. Flying(dh)' = Flying(dh) /\ First(dh)' = First(dh) /\ Free(dh)' = Free(dh)
        BY <1>7, <1>10, <1>11, <3>2
      <4> QED
        BY <2>5, <3>2, <4>1 DEF OrderInv
    <3> QED
      BY <3>1, <3>2
  <2> QED
    BY <2>6 DEF OrderInv
<1>14. InFlight(ch)' = Append(InFlight(ch), f)
  <2>1. ASSUME NEW i \in 1..n PROVE Ahead(F, 2 * (i - 1)) \in Slots \ {s}
    <3>1. 2 * (i - 1) \in 0..(DescNum - 1) /\ 2 * (i - 1) # 2 * n
      BY <1>8, <1>9, TxAssumption
    <3>2. Before(F, Ahead(F, 2 * (i - 1))) = 2 * (i - 1)
      BY <1>8, <3>1, BeforeAhead
    <3> QED
      BY <1>2, <1>9, <3>1, <3>2, QueuedInRing
  <2>2. \A i \in 1..n : src'[ch][Ahead(F, 2 * (i - 1))] = src[ch][Ahead(F, 2 * (i - 1))]
    BY <1>2, <1>6, <2>1
  <2>3. 2 * ((n + 1) - 1) = 2 * n
    BY <1>8
  <2>4. src'[ch][Ahead(F, 2 * ((n + 1) - 1))] = f
    BY <1>6, <1>8, <2>3
  <2>5. InFlight(ch)' = [i \in 1..(n + 1) |-> src'[ch][Ahead(F, 2 * (i - 1))]]
    BY <1>10, <1>12 DEF InFlight
  <2>6. InFlight(ch) = [i \in 1..n |-> src[ch][Ahead(F, 2 * (i - 1))]]
    BY DEF InFlight
  <2>7. Len(InFlight(ch)) = n
    BY <1>8, <2>6
  <2>8. Append(InFlight(ch), f) =
          [i \in 1..(n + 1) |-> IF i <= n THEN InFlight(ch)[i] ELSE f]
    BY <1>8, <2>6, <2>7
  <2> HIDE DEF n, F
  <2>9. \A i \in 1..(n + 1) : src'[ch][Ahead(F, 2 * (i - 1))] = IF i <= n THEN InFlight(ch)[i] ELSE f
    BY <1>8, <2>2, <2>4, <2>6
  <2> QED
    BY <2>5, <2>8, <2>9
<1>15. ASSUME NEW dh \in Channels \ {ch} PROVE InFlight(dh)' = InFlight(dh)
  <2>1. Flying(dh)' = Flying(dh) /\ First(dh)' = First(dh)
    BY <1>10, <1>11
  <2> QED
    BY <1>0, <2>1 DEF InFlight
<1> QED
  BY <1>2, <1>13, <1>14, <1>15

LEMMA HalfTheRing ==
  ASSUME NEW n \in Nat, n # 0, 2 * n <= DescNum
  PROVE  n - 1 \in Nat /\ 2 * (n - 1) \in 0..(DescNum - 2) /\ 2 * (n - 1) + 2 = 2 * n
BY TxAssumption

LEMMA TableTail ==
  ASSUME NEW S, NEW n \in Nat, n # 0, NEW q \in [1..n -> S]
  PROVE  Tail(q) = [i \in 1..(n - 1) |-> q[i + 1]]
<1>1. q \in Seq(S) /\ Len(q) = n /\ q # <<>>
  OBVIOUS
<1>2. Tail(q) \in Seq(S) /\ Len(Tail(q)) = n - 1
  BY <1>1
<1>3. Tail(q) \in [1..(n - 1) -> S]
  BY <1>2, LenProperties
<1>4. \A i \in 1..(n - 1) : Tail(q)[i] = q[i + 1]
  BY <1>1, <1>2
<1> QED
  BY <1>3, <1>4

\* The frame the engine transmits is the first of its queue.
LEMMA OrderTransmit ==
  ASSUME TypeOK, RingInv, OrderInv, NEW ch \in Channels, DmaSkb(ch)
  PROVE  /\ OrderInv'
         /\ InFlight(ch) # <<>> /\ Head(InFlight(ch)) = src[ch][pos[ch]]
         /\ InFlight(ch)' = Tail(InFlight(ch))
         /\ \A dh \in Channels \ {ch} : InFlight(dh)' = InFlight(dh)
<1> DEFINE n == Cardinality(Flying(ch))  F == First(ch)
<1>0. /\ UNCHANGED <<head, src, snd>> /\ ctrl[ch][pos[ch]] = "skb"
      /\ ctrl' = [ctrl EXCEPT ![ch][pos[ch]] = "off"]
      /\ pos' = [pos EXCEPT ![ch] = next(@)]
  BY DEF DmaSkb
<1>1. pos[ch] \in Slots /\ ~HasBd(pos[ch]) /\ F = pos[ch] /\ next(F) \in Slots /\ HasBd(next(F))
  BY <1>0, NextInRing, NextAlternates DEF TypeOK, ChipTypes, RingInv, SlotInv, First
<1>2. pos'[ch] = next(F) /\ \A dh \in Channels : dh # ch => pos'[dh] = pos[dh]
  BY <1>0, <1>1 DEF TypeOK, ChipTypes
<1>3. First(ch)' = AfterFrame(F) /\ \A dh \in Channels : dh # ch => First(dh)' = First(dh)
  BY <1>1, <1>2 DEF First, AfterFrame
<1>4. /\ ctrl'[ch][F] = "off" /\ ctrl[ch][F] = "skb"
      /\ \A dh \in Channels, r \in Slots : ~(dh = ch /\ r = F) => ctrl'[dh][r] = ctrl[dh][r]
  BY <1>0, <1>1 DEF TypeOK, RingTypes
<1>5. /\ Flying(ch)' = Flying(ch) \ {F} /\ F \in Flying(ch)
      /\ \A dh \in Channels : dh # ch => Flying(dh)' = Flying(dh)
  BY <1>1, <1>4 DEF Flying
<1>6. n \in Nat /\ n # 0 /\ Cardinality(Flying(ch)') = n - 1
  BY <1>5, FlyingFinite, FS_RemoveElement, FS_EmptySet
<1>7. 2 * n <= DescNum /\ Ahead(F, 2 * n) = Free(ch)
  BY DEF OrderInv
<1>8. \A dh \in Channels : Free(dh)' = Free(dh)
  BY <1>0 DEF Free, Under, Chan
<1>9. n - 1 \in Nat /\ 2 * (n - 1) \in 0..(DescNum - 2) /\ 2 * (n - 1) + 2 = 2 * n
  BY <1>6, <1>7, HalfTheRing
<1>10. Ahead(AfterFrame(F), 2 * (n - 1)) = Ahead(F, 2 * n)
  BY <1>1, <1>9, AheadFurther
<1>11. ASSUME NEW t \in Slots
       PROVE  ctrl'[ch][t] = "skb" <=> ~HasBd(t) /\ Before(AfterFrame(F), t) < 2 * (n - 1)
  <2> DEFINE b == Before(F, t)
  <2>1. b \in 0..(DescNum - 1) /\ Ahead(F, b) = t
    BY <1>1, BeforeAhead
  <2>2. Before(AfterFrame(F), t) = IF b >= 2 THEN b - 2 ELSE b + DescNum - 2
    BY <1>1, BeforeFurther
  <2>3. CASE t = F
    <3>1. b = 0
      BY <1>1, <2>3, TxAssumption DEF Before, Slots
    <3>2. ~(Before(AfterFrame(F), t) < 2 * (n - 1))
      BY <1>6, <1>7, <2>2, <3>1, TxAssumption
    <3> QED
      BY <1>4, <2>3, <3>2
  <2>4. CASE t # F
    <3>1. ctrl'[ch][t] = "skb" <=> ~HasBd(t) /\ b < 2 * n
      BY <1>4, <2>4 DEF OrderInv
    <3>2. b # 0
      BY <1>1, <2>1, <2>4, TxAssumption DEF Ahead, Slots
    <3>3. ~HasBd(t) => b % 2 = 0
      BY <1>1, BeforeEven
    <3>4. b \in Nat
      BY <2>1, TxAssumption
    <3> HIDE DEF b, n
    <3>5. ~HasBd(t) => b >= 2
      BY <3>2, <3>3, <3>4
    <3>6. ~HasBd(t) => (b < 2 * n <=> b - 2 < 2 * (n - 1))
      BY <1>6, <3>4
    <3> QED
      BY <2>2, <3>1, <3>5, <3>6
  <2> QED
    BY <2>3, <2>4
<1>12. OrderInv'
  <2>1. 2 * (n - 1) <= DescNum
    BY <1>9, TxAssumption
  <2> HIDE DEF n, F
  <2>2. ASSUME NEW dh \in Channels
        PROVE  LET m == Cardinality(Flying(dh)') IN
               /\ 2 * m <= DescNum
               /\ \A t \in Slots : ctrl'[dh][t] = "skb" <=> ~HasBd(t) /\ Before(First(dh)', t) < 2 * m
               /\ Ahead(First(dh)', 2 * m) = Free(dh)'
    <3>1. CASE dh = ch
      BY <1>3, <1>6, <1>7, <1>8, <1>10, <1>11, <2>1, <3>1
    <3>2. CASE dh # ch
      <4>1. /\ Flying(dh)' = Flying(dh) /\ First(dh)' = First(dh) /\ Free(dh)' = Free(dh)
            /\ \A t \in Slots : ctrl'[dh][t] = ctrl[dh][t]
        BY <1>3, <1>4, <1>5, <1>8, <3>2
      <4> QED
        BY <3>2, <4>1 DEF OrderInv
    <3> QED
      BY <3>1, <3>2
  <2> QED
    BY <2>2 DEF OrderInv
<1>13. /\ InFlight(ch) # <<>> /\ Head(InFlight(ch)) = src[ch][F]
       /\ InFlight(ch)' = Tail(InFlight(ch))
  <2>1. InFlight(ch) = [i \in 1..n |-> src[ch][Ahead(F, 2 * (i - 1))]]
    BY DEF InFlight
  <2>2. InFlight(ch)' = [i \in 1..(n - 1) |-> src[ch][Ahead(AfterFrame(F), 2 * (i - 1))]]
    BY <1>0, <1>3, <1>6 DEF InFlight
  <2>3. Len(InFlight(ch)) = n /\ DOMAIN InFlight(ch) = 1..n
    BY <1>6, <2>1
  <2>4. Ahead(F, 2 * (1 - 1)) = F
    BY <1>1, TxAssumption DEF Ahead, Slots
  <2>5. ASSUME NEW i \in 1..(n - 1)
        PROVE  Ahead(AfterFrame(F), 2 * (i - 1)) = Ahead(F, 2 * ((i + 1) - 1))
    <3>1. 2 * (i - 1) \in 0..(DescNum - 2) /\ 2 * (i - 1) + 2 = 2 * ((i + 1) - 1)
      BY <1>6, <1>7, TxAssumption
    <3> QED
      BY <1>1, <3>1, AheadFurther
  <2>10. \A i \in 1..n : src[ch][Ahead(F, 2 * (i - 1))] \in MaybeFrame
    BY QueuedInRing DEF TypeOK, RingTypes
  <2> HIDE DEF n, F
  <2>6. InFlight(ch) # <<>>
    BY <1>6, <2>3
  <2>7. Head(InFlight(ch)) = src[ch][F]
    BY <1>6, <2>1, <2>4
  <2>8. Tail(InFlight(ch)) = [i \in 1..(n - 1) |-> InFlight(ch)[i + 1]]
    <3>1. InFlight(ch) \in [1..n -> MaybeFrame]
      BY <2>1, <2>10
    <3> QED
      BY <1>6, <3>1, TableTail
  <2>9. \A i \in 1..(n - 1) : InFlight(ch)[i + 1] = src[ch][Ahead(F, 2 * ((i + 1) - 1))]
    BY <1>6, <2>1
  <2> QED
    BY <2>2, <2>5, <2>6, <2>7, <2>8, <2>9
<1>14. ASSUME NEW dh \in Channels \ {ch} PROVE InFlight(dh)' = InFlight(dh)
  <2>1. Flying(dh)' = Flying(dh) /\ First(dh)' = First(dh)
    BY <1>3, <1>5
  <2> QED
    BY <1>0, <2>1 DEF InFlight
<1> QED
  BY <1>1, <1>12, <1>13, <1>14
\* What the other senders of a ring do does not move its free block.
LEMMA FreeKept ==
  ASSUME TypeOK, UNCHANGED head,
         \A d \in Cpus : /\ snd'[d].pc = "advance" <=> snd[d].pc = "advance"
                         /\ snd[d].pc = "advance" => snd'[d].frm = snd[d].frm
  PROVE  \A ch \in Channels : Free(ch)' = Free(ch)
BY DEF Free, Under, Chan

LEMMA OrderSender ==
  ASSUME TypeOK, BdFirst, Apart, RingInv, OrderInv, NEW c \in Cpus, TxStep(c), ~TxValid(c)
  PROVE  OrderInv' /\ \A ch \in Channels : InFlight(ch)' = InFlight(ch)
<1>0. \A dh \in Channels : First(dh)' = First(dh)
  <2>1. UNCHANGED pos
    BY DEF TxStep, TxClaim, TxStopForAck, TxCheck, TxFull, TxWriteBd, TxSetSkb, TxMap, TxLen,
           TxAdvance, TxDoorbell, chipVars
  <2> QED
    BY <2>1 DEF First
<1>1. PICK ch \in Channels : ch = Chan(snd[c].frm) /\ snd[c].pc # "idle"
  BY DEF TxStep, TxClaim, TxStopForAck, TxCheck, TxFull, TxWriteBd, TxSetSkb, TxMap, TxLen,
         TxAdvance, TxDoorbell, TypeOK, SenderTypes
<1>2. CASE TxAdvance(c)
  <2>1. /\ UNCHANGED <<ctrl, src>> /\ snd[c].pc = "advance" /\ Goto(c, "doorbell")
        /\ head' = [head EXCEPT ![ch] = AfterFrame(snd[c].ctl)]
    BY <1>1, <1>2 DEF TxAdvance
  <2>2. snd[c].ctl = head[ch]
    BY <1>1, <2>1 DEF RingInv, BuildInv, Building
  <2>3. /\ snd'[c].pc = "doorbell" /\ \A d \in Cpus : snd'[d].frm = snd[d].frm
        /\ \A d \in Cpus : d # c => snd'[d].pc = snd[d].pc
        /\ \A d \in Cpus : d # c /\ snd[d].pc = "advance" => Chan(snd[d].frm) # ch
    BY <1>1, <2>1, GotoMoves DEF Apart, Building
  <2>4. head'[ch] = AfterFrame(head[ch]) /\ \A dh \in Channels : dh # ch => head'[dh] = head[dh]
    BY <2>1, <2>2 DEF TypeOK, RingTypes
  <2>5. \A dh \in Channels : Free(dh)' = Free(dh)
    <3>1. Under({"advance"}, c, ch) /\ ~\E d \in Cpus : Under({"advance"}, d, ch)'
      BY <1>1, <2>1, <2>3 DEF Under, Chan
    <3>2. \A dh \in Channels : dh # ch => \A d \in Cpus :
            Under({"advance"}, d, dh)' <=> Under({"advance"}, d, dh)
      BY <1>1, <2>1, <2>3 DEF Under, Chan
    <3>3. Free(ch)' = Free(ch)
      BY <2>4, <3>1 DEF Free
    <3>4. \A dh \in Channels : dh # ch => Free(dh)' = Free(dh)
      BY <2>4, <3>2 DEF Free
    <3> QED
      BY <3>3, <3>4
  <2> QED
    BY <1>0, <2>1, <2>5, OrderQuiet
<1>3. CASE ~TxAdvance(c)
  <2>1. /\ UNCHANGED head /\ snd[c].pc # "advance" /\ snd'[c].pc # "advance"
        /\ \A d \in Cpus : d # c => snd'[d] = snd[d]
    <3>1. CASE TxClaim(c) \/ TxFull(c) \/ TxDoorbell(c) \/ TxStopForAck(c)
      BY <3>1, GotoMoves, IdleMoves DEF TxClaim, TxFull, TxDoorbell, TxStopForAck, Refuse, ringVars
    <3>2. CASE TxCheck(c)
      BY <3>2, CheckMoves DEF TxCheck, ringVars
    <3>3. CASE TxWriteBd(c) \/ TxSetSkb(c) \/ TxMap(c) \/ TxLen(c)
      <4>1. /\ UNCHANGED head /\ snd[c].pc # "advance"
            /\ \/ \E pc \in {"skb", "map", "oops", "len", "valid"} : Goto(c, pc)
               \/ snd' = [snd EXCEPT ![c] = IdleSnd]
        BY <3>3 DEF TxWriteBd, TxSetSkb, TxMap, TxLen, Refuse, ringVars
      <4> QED
        BY <4>1, GotoMoves, IdleMoves
    <3> QED
      BY <1>3, <3>1, <3>2, <3>3 DEF TxStep
  <2>2. \A dh \in Channels : Free(dh)' = Free(dh)
    BY <2>1, FreeKept
  <2>3. /\ \A dh \in Channels, s \in Slots : ctrl'[dh][s] = "skb" <=> ctrl[dh][s] = "skb"
        /\ \A dh \in Channels, s \in Slots : ctrl[dh][s] = "skb" => src'[dh][s] = src[dh][s]
    <3>1. CASE TxWriteBd(c)
      <4>1. /\ snd[c].pc = "bd" /\ UNCHANGED src
            /\ ctrl' = [ctrl EXCEPT ![ch][snd[c].ctl] = "bd"]
        BY <1>1, <3>1 DEF TxWriteBd
      <4>2. snd[c].ctl \in Slots /\ HasBd(snd[c].ctl)
        BY <4>1 DEF TypeOK, SenderTypes, BdFirst, Building
      <4>3. ctrl[ch][snd[c].ctl] # "skb"
        BY <4>2 DEF RingInv, SlotInv
      <4> QED
        BY <4>1, <4>2, <4>3 DEF TypeOK, RingTypes
    \* The block being mapped is not the engine's yet.
    <3>2. CASE TxMap(c)
      <4>1. PICK s \in Slots : s = next(snd[c].ctl)
        BY NextInRing DEF TypeOK, SenderTypes
      <4>2. UNCHANGED ctrl /\ ctrl[ch][s] = "off"
        BY <1>1, <3>2, <4>1 DEF TxMap, RingInv, BuildInv, Storing
      <4>3. UNCHANGED src \/ src' = [src EXCEPT ![ch][s] = skb[ch][s]]
        BY <1>1, <3>2, <4>1 DEF TxMap
      <4>4. \A dh \in Channels, r \in Slots : ~(dh = ch /\ r = s) => src'[dh][r] = src[dh][r]
        BY <4>3 DEF TypeOK, RingTypes
      <4> QED
        BY <4>2, <4>4
    <3>3. CASE UNCHANGED <<ctrl, src>>
      BY <3>3
    <3> QED
      BY <1>3, <3>1, <3>2, <3>3 DEF TxStep, TxClaim, TxStopForAck, TxCheck, TxFull, TxSetSkb,
        TxLen, TxDoorbell, ringVars
  <2> QED
    BY <1>0, <2>2, <2>3, OrderQuiet
<1> QED
  BY <1>2, <1>3

LEMMA OrderOther ==
  ASSUME TypeOK, BdFirst, RingInv, OrderInv,
         \/ \E c \in Cpus : IrqEnter(c) \/ \E f \in Frames : TxStart(c, f)
         \/ Reap \/ AckTake \/ AckWake \/ AckLost \/ Power \/ UNCHANGED vars
         \/ \E ch \in Channels : DmaBd(ch) \/ DmaStop(ch)
  PROVE  OrderInv' /\ \A ch \in Channels : InFlight(ch)' = InFlight(ch)
<1>1. /\ UNCHANGED <<src, head>>
      /\ \A d \in Cpus : /\ snd'[d].pc = "advance" <=> snd[d].pc = "advance"
                         /\ snd[d].pc = "advance" => snd'[d].frm = snd[d].frm
  <2>1. ASSUME NEW c \in Cpus, NEW f \in Frames, TxStart(c, f)
      PROVE  /\ UNCHANGED <<src, head>>
             /\ \A d \in Cpus : /\ snd'[d].pc = "advance" <=> snd[d].pc = "advance"
                                /\ snd[d].pc = "advance" => snd'[d].frm = snd[d].frm
    BY <2>1, StartMoves
  <2>2. CASE UNCHANGED <<src, snd, head>>
    BY <2>2
  <2> QED
    BY <2>1, <2>2 DEF IrqEnter, Reap, IrqChannel, ReapSlot, ReapTake, ReapWake,
      ReapWakeQueues, ReapClear, AckTake, AckWake, AckLost, Power, DmaBd, DmaStop, ringVars, vars
<1>2. \A ch \in Channels : Free(ch)' = Free(ch)
  BY <1>1, FreeKept
<1>3. ASSUME NEW ch \in Channels, DmaBd(ch) PROVE OrderInv' /\ \A dh \in Channels : InFlight(dh)' = InFlight(dh)
  <2>1. /\ ctrl[ch][pos[ch]] = "bd" /\ pos[ch] \in Slots
        /\ ctrl' = [ctrl EXCEPT ![ch][pos[ch]] = "off"]
        /\ pos' = [pos EXCEPT ![ch] = next(@)]
    BY <1>3 DEF DmaBd, TypeOK, ChipTypes
  <2>2. \A dh \in Channels, s \in Slots : ctrl'[dh][s] = "skb" <=> ctrl[dh][s] = "skb"
    BY <2>1 DEF TypeOK, RingTypes
  <2>3. HasBd(pos[ch]) /\ ~HasBd(next(pos[ch]))
    BY <2>1, NextAlternates DEF RingInv, SlotInv
  <2>4. \A dh \in Channels : First(dh)' = First(dh)
    BY <2>1, <2>3 DEF First, TypeOK, ChipTypes
  <2> QED
    BY <1>1, <1>2, <2>2, <2>4, OrderQuiet
<1>4. CASE ~\E ch \in Channels : DmaBd(ch)
  <2>1. UNCHANGED <<ctrl, pos>>
    <3>1. ASSUME NEW c \in Cpus, NEW f \in Frames, TxStart(c, f) PROVE UNCHANGED <<ctrl, pos>>
      BY <3>1 DEF TxStart, chipVars
    <3> QED
      BY <1>4, <3>1 DEF IrqEnter, Reap, IrqChannel, ReapSlot, ReapTake, ReapWake, ReapWakeQueues,
        ReapClear, AckTake, AckWake, AckLost, Power, DmaStop, ringVars, chipVars, vars
  <2>2. \A ch \in Channels : First(ch)' = First(ch)
    BY <2>1 DEF First
  <2> QED
    BY <1>1, <1>2, <2>1, <2>2, OrderQuiet
<1> QED
  BY <1>3, <1>4

-----------------------------------------------------------------------------
(* The rings implement the queues of TxFifo.                               *)

\* The refinement mapping of Fifo.
Own(f) == IF f \in back THEN "back" ELSE IF f \in sent THEN "air"
          ELSE IF f \in fresh THEN "mac80211" ELSE "driver"
Owner == [f \in Frames |-> Own(f)]
Queue == [ch \in Channels |-> InFlight(ch)]

\* Only f changes hands.
Moved(f, o) == \A g \in Frames : Own(g)' = IF g = f THEN o ELSE Own(g)

LEMMA OwnerMoved ==
  ASSUME NEW f \in Frames, NEW o, Moved(f, o)
  PROVE  Owner' = [Owner EXCEPT ![f] = o]
BY DEF Owner, Moved

LEMMA FifoVars ==
  /\ Fifo!vars = <<Owner, Queue>>
  /\ \A f : Fifo!Queued(f) <=> \E ch \in Channels : \E i \in DOMAIN Queue[ch] : Queue[ch][i] = f
BY DEF Fifo!vars, Fifo!Queued, Owner, Own, Queue

LEMMA FifoHand ==
  ASSUME NEW f \in Frames, Queue' = Queue
  PROVE  /\ Own(f) = "mac80211" /\ Moved(f, "driver") => Fifo!Next
         /\ Own(f) = "driver" /\ ~Fifo!Queued(f) /\ Moved(f, "back") => Fifo!Next
         /\ Own(f) = "air" /\ Moved(f, "back") => Fifo!Next
<1>1. ASSUME Own(f) = "mac80211", Moved(f, "driver") PROVE Fifo!Take(f)
  <2>1. Owner[f] = "mac80211" /\ Owner' = [Owner EXCEPT ![f] = "driver"]
    BY <1>1, OwnerMoved DEF Owner
  <2> QED
    BY <2>1 DEF Fifo!Take, Fifo!Hand, Owner, Own, Queue
<1>2. ASSUME Own(f) = "driver", ~Fifo!Queued(f), Moved(f, "back") PROVE Fifo!Refuse(f)
  <2>1. Owner[f] = "driver" /\ Owner' = [Owner EXCEPT ![f] = "back"]
    BY <1>2, OwnerMoved DEF Owner
  <2> QED
    BY <1>2, <2>1 DEF Fifo!Refuse, Fifo!Hand, Owner, Own, Queue
<1>3. ASSUME Own(f) = "air", Moved(f, "back") PROVE Fifo!Return(f)
  <2>1. Owner[f] = "air" /\ Owner' = [Owner EXCEPT ![f] = "back"]
    BY <1>3, OwnerMoved DEF Owner
  <2> QED
    BY <2>1 DEF Fifo!Return, Fifo!Hand, Owner, Own, Queue
<1> QED
  BY <1>1, <1>2, <1>3 DEF Fifo!Next

LEMMA FifoQueue ==
  ASSUME NEW f \in Frames, NEW ch \in Channels,
         \A dh \in Channels \ {ch} : InFlight(dh)' = InFlight(dh)
  PROVE  /\ (/\ Own(f) = "driver" /\ ~Fifo!Queued(f) /\ Owner' = Owner
             /\ InFlight(ch)' = Append(InFlight(ch), f)) => Fifo!Next
         /\ (/\ InFlight(ch) # <<>> /\ Head(InFlight(ch)) = f /\ Own(f) = "driver"
             /\ Moved(f, "air") /\ InFlight(ch)' = Tail(InFlight(ch))) => Fifo!Next
<1>1. ASSUME Own(f) = "driver", ~Fifo!Queued(f), Owner' = Owner,
             InFlight(ch)' = Append(InFlight(ch), f)
      PROVE  Fifo!Accept(f, ch)
  <2>1. Owner[f] = "driver"
    BY <1>1 DEF Owner
  <2>2. Queue' = [Queue EXCEPT ![ch] = Append(@, f)]
    BY <1>1 DEF Queue
  <2> QED
    BY <1>1, <2>1, <2>2 DEF Fifo!Accept, Owner, Own, Queue
<1>2. ASSUME InFlight(ch) # <<>>, Head(InFlight(ch)) = f, Own(f) = "driver",
             Moved(f, "air"), InFlight(ch)' = Tail(InFlight(ch))
      PROVE  Fifo!Transmit(ch)
  <2>1. Owner[f] = "driver" /\ Owner' = [Owner EXCEPT ![f] = "air"]
    BY <1>2, OwnerMoved DEF Owner
  <2>2. Queue' = [Queue EXCEPT ![ch] = Tail(@)] /\ Queue[ch] # <<>> /\ Head(Queue[ch]) = f
    BY <1>2 DEF Queue
  <2> QED
    BY <2>1, <2>2 DEF Fifo!Transmit, Fifo!Hand, Owner, Own, Queue
<1> QED
  BY <1>1, <1>2 DEF Fifo!Next

LEMMA FifoInit == TypeOK /\ Init => Fifo!Init
<1> SUFFICES ASSUME TypeOK, Init PROVE Fifo!Init
  OBVIOUS
<1>1. \A ch \in Channels : InFlight(ch) = <<>>
  <2> SUFFICES ASSUME NEW ch \in Channels PROVE InFlight(ch) = <<>>
    OBVIOUS
  <2>1. Flying(ch) = {}
    BY DEF Init, Flying
  <2>2. Cardinality(Flying(ch)) = 0
    BY <2>1, FS_EmptySet
  <2> QED
    BY <2>2 DEF InFlight
<1>2. \A f \in Frames : Own(f) = "mac80211"
  BY DEF Init, Own
<1> QED
  BY <1>1, <1>2 DEF Fifo!Init, Own

\* A frame that waits in a queue is in a ring.
LEMMA QueuedIsInRing ==
  ASSUME TypeOK, OrderInv, NEW f, Fifo!Queued(f)
  PROVE  InRing(f)
<1>1. PICK ch \in Channels : \E i \in DOMAIN Queue[ch] : Queue[ch][i] = f
  BY FifoVars
<1>2. PICK i \in DOMAIN InFlight(ch) : InFlight(ch)[i] = f
  BY <1>1 DEF Queue
<1>3. i \in 1..Cardinality(Flying(ch)) /\ src[ch][Ahead(First(ch), 2 * (i - 1))] = f
  BY <1>2 DEF InFlight
<1> QED
  BY <1>3, QueuedInRing DEF InRing

\* A sender that still holds its frame has it, in the abstract as well.
LEMMA HeldByDriver ==
  ASSUME TypeOK, FrameInv, BackInv, OrderInv, NEW c \in Cpus, snd[c].pc \in Held
  PROVE  /\ snd[c].frm \in Frames /\ Own(snd[c].frm) = "driver"
         /\ ~Fifo!Queued(snd[c].frm)
<1>1. snd[c].frm \in Frames
  BY DEF TypeOK, SenderTypes, Held
<1>2. /\ snd[c].frm \notin fresh /\ snd[c].frm \notin sent /\ ~InRing(snd[c].frm)
      /\ snd[c].frm \notin back
  BY DEF FrameInv, SenderFrames, BackInv, Held
<1> QED
  BY <1>1, <1>2, QueuedIsInRing DEF Own

LEMMA FifoNext ==
  ASSUME TypeOK, BdFirst, Apart, FrameInv, RingInv, BackInv, OrderInv, [Next]_vars
  PROVE  OrderInv' /\ [Fifo!Next]_(Fifo!vars)
<1>1. ASSUME UNCHANGED <<fresh, sent, back>>, \A ch \in Channels : InFlight(ch)' = InFlight(ch)
      PROVE  UNCHANGED Fifo!vars
  BY <1>1 DEF Fifo!vars
<1>2. ASSUME NEW c \in Cpus, NEW f \in Frames, TxStart(c, f)
      PROVE  OrderInv' /\ Fifo!Next
  <2>1. OrderInv' /\ Queue' = Queue
    BY <1>2, OrderOther DEF Queue
  <2>2. fresh' = fresh \ {f} /\ f \in fresh /\ UNCHANGED <<back, sent>>
    BY <1>2, StartMoves
  <2>3. f \notin back /\ f \notin sent
    BY <2>2 DEF BackInv, FrameInv, RingFrames
  <2>4. Own(f) = "mac80211" /\ Moved(f, "driver")
    BY <2>2, <2>3 DEF Own, Moved
  <2> QED
    BY <2>1, <2>4, FifoHand
<1>3. ASSUME NEW c \in Cpus, TxStep(c)
      PROVE  OrderInv' /\ [Fifo!Next]_(Fifo!vars)
  <2>1. CASE TxValid(c)
    <3>1. snd[c].pc = "valid" /\ UNCHANGED <<fresh, sent, back>>
      BY <2>1 DEF TxValid, chipVars
    <3>2. PICK f \in Frames, ch \in Channels, s \in Slots :
            f = snd[c].frm /\ ch = Chan(f) /\ s = next(snd[c].ctl)
      BY <3>1, NextInRing DEF TypeOK, SenderTypes
    <3>3. /\ OrderInv' /\ InFlight(ch)' = Append(InFlight(ch), f)
          /\ \A dh \in Channels \ {ch} : InFlight(dh)' = InFlight(dh)
      BY <2>1, <3>2, OrderValid
    <3>4. Own(f) = "driver" /\ ~Fifo!Queued(f)
      BY <3>1, <3>2, HeldByDriver DEF Held
    <3>5. Owner' = Owner
      BY <3>1 DEF Owner, Own
    <3>6. Fifo!Next
      BY <3>2, <3>3, <3>4, <3>5, FifoQueue
    <3> QED
      BY <3>3, <3>6
  <2>2. CASE ~TxValid(c) /\ UNCHANGED back
    <3>1. OrderInv' /\ \A ch \in Channels : InFlight(ch)' = InFlight(ch)
      BY <1>3, <2>2, OrderSender
    <3>2. UNCHANGED <<fresh, sent>>
      BY <1>3, <2>2 DEF TxStep, TxClaim, TxStopForAck, TxCheck, TxFull, TxWriteBd, TxSetSkb,
        TxMap, TxLen, TxAdvance, TxDoorbell, ringVars, chipVars
    <3> QED
      BY <1>1, <2>2, <3>1, <3>2
  <2>3. CASE ~TxValid(c) /\ ~UNCHANGED back
    <3>1. OrderInv' /\ Queue' = Queue
      BY <1>3, <2>3, OrderSender DEF Queue
    <3>2. UNCHANGED <<fresh, sent>> /\ back' = back \cup {snd[c].frm} /\ snd[c].pc \in Held
      BY <1>3, <2>3 DEF TxStep, TxClaim, TxStopForAck, TxCheck, TxFull, TxWriteBd, TxSetSkb,
        TxMap, TxLen, TxAdvance, TxDoorbell, Refuse, Held, ringVars, chipVars
    <3>3. snd[c].frm \in Frames /\ Own(snd[c].frm) = "driver" /\ ~Fifo!Queued(snd[c].frm)
      BY <3>2, HeldByDriver
    <3>4. Moved(snd[c].frm, "back")
      BY <3>2 DEF Moved, Own
    <3> QED
      BY <3>1, <3>3, <3>4, FifoHand
  <2> QED
    BY <2>1, <2>2, <2>3
<1>4. ASSUME NEW ch \in Channels, DmaSkb(ch)
      PROVE  OrderInv' /\ Fifo!Next
  <2> DEFINE f == src[ch][pos[ch]]
  <2>1. /\ OrderInv' /\ InFlight(ch) # <<>> /\ Head(InFlight(ch)) = f
        /\ InFlight(ch)' = Tail(InFlight(ch))
        /\ \A dh \in Channels \ {ch} : InFlight(dh)' = InFlight(dh)
    BY <1>4, OrderTransmit
  <2>2. UNCHANGED <<fresh, back>> /\ sent' = sent \cup {f} /\ ctrl[ch][pos[ch]] = "skb"
    BY <1>4 DEF DmaSkb
  <2>3. pos[ch] \in Slots
    BY DEF TypeOK, ChipTypes
  <2>4. f \in Frames /\ f \notin fresh /\ f \notin sent /\ InRing(f)
    BY <2>2, <2>3 DEF FrameInv, RingFrames, InRing
  <2>5. f \notin back
    BY <2>4 DEF BackInv
  <2>6. Own(f) = "driver" /\ Moved(f, "air")
    BY <2>2, <2>4, <2>5 DEF Own, Moved
  <2> HIDE DEF f
  <2> QED
    BY <2>1, <2>4, <2>6, FifoQueue
\* The handler and the worker give back what was sent.
<1>5. ASSUME NEW f \in sent \cap Frames, back' \in {back, back \cup {f}},
             UNCHANGED <<fresh, sent>>, \A ch \in Channels : InFlight(ch)' = InFlight(ch)
      PROVE  [Fifo!Next]_(Fifo!vars)
  <2>1. CASE UNCHANGED back
    BY <1>1, <1>5, <2>1
  <2>2. CASE f \notin back /\ back' = back \cup {f}
    <3>1. Own(f) = "air" /\ Moved(f, "back")
      BY <1>5, <2>2 DEF Own, Moved
    <3>2. Queue' = Queue
      BY <1>5 DEF Queue
    <3> QED
      BY <3>1, <3>2, FifoHand
  <2> QED
    BY <1>5, <2>1, <2>2
<1>6. CASE ReapTake
  <2> DEFINE f == skb[irq.ch][irq.ctl]
  <2>1. OrderInv' /\ \A ch \in Channels : InFlight(ch)' = InFlight(ch)
    BY <1>6, OrderOther DEF Reap
  <2>2. irq.pc = "take" /\ UNCHANGED <<fresh, sent>>
    BY <1>6 DEF ReapTake, chipVars
  <2>3. CASE UNCHANGED back
    BY <1>1, <2>1, <2>2, <2>3
  <2>4. CASE f # NoFrame /\ back' \in {back, back \cup {f}}
    <3>1. f \in sent \cap Frames
      BY <2>2, <2>4, TakenWasSent
    <3> HIDE DEF f
    <3> QED
      BY <1>5, <2>1, <2>2, <2>4, <3>1
  <2> QED
    BY <1>6, <2>3, <2>4 DEF ReapTake
<1>7. CASE AckWake
  <2>1. OrderInv' /\ \A ch \in Channels : InFlight(ch)' = InFlight(ch)
    BY <1>7, OrderOther
  <2>2. back' = back \cup {ackw} /\ ackw # NoFrame /\ UNCHANGED <<fresh, sent>>
    BY <1>7 DEF AckWake, chipVars
  <2>3. ackw \in sent \cap Frames
    BY <2>2 DEF BackInv, TypeOK, HostTypes, MaybeFrame
  <2> QED
    BY <1>5, <2>1, <2>2, <2>3
<1>8. CASE \/ \E c \in Cpus : IrqEnter(c)
           \/ IrqChannel \/ ReapSlot \/ ReapWake \/ ReapWakeQueues \/ ReapClear
           \/ AckTake \/ AckLost \/ Power \/ UNCHANGED vars
           \/ \E ch \in Channels : DmaBd(ch) \/ DmaStop(ch)
  <2>1. OrderInv' /\ \A ch \in Channels : InFlight(ch)' = InFlight(ch)
    BY <1>8, OrderOther DEF Reap
  <2>2. UNCHANGED <<fresh, sent, back>>
    BY <1>8 DEF IrqEnter, IrqChannel, ReapSlot, ReapWake, ReapWakeQueues, ReapClear, AckTake, AckLost,
      Power, DmaBd, DmaStop, ringVars, chipVars, vars
  <2> QED
    BY <1>1, <2>1, <2>2
<1> QED
  BY <1>2, <1>3, <1>4, <1>6, <1>7, <1>8 DEF Next, Reap, Dma

\* The rings are the queues of TxFifo: a frame handed to the driver is refused
\* and given back or queued behind the others of its ring, the queue is
\* transmitted in order and each frame once, and a frame is given back only
\* after that (dxe.c:591-684, 347-383; txrx.c:263), until the step at which two
\* contexts meet at a pair.  For rings of any even length, any number of frames
\* and CPUs, and an engine that may take a BD before its frame is there.
THEOREM RingsAreQueues == Spec => ImplementsFifo
<1>1. TypeOK /\ BdFirst /\ (torn \/ PathInv) /\ (torn \/ OrderInv) /\ [Next]_vars
        => (torn \/ OrderInv)' /\ [torn' \/ Fifo!Next]_(Fifo!vars)
  <2> SUFFICES ASSUME TypeOK, BdFirst, torn \/ PathInv, torn \/ OrderInv, [Next]_vars, ~torn'
               PROVE  OrderInv' /\ [Fifo!Next]_(Fifo!vars)
    OBVIOUS
  <2>1. /\ Apart /\ FrameInv /\ RingInv /\ BackInv /\ OrderInv
    BY TornStays DEF PathInv
  <2> QED
    BY <2>1, FifoNext
<1>2. Init => Fifo!Init
  BY FifoInit, TypeInit
<1>3. Init => torn \/ OrderInv
  BY OrderInit
<1>4. Spec => [](torn \/ OrderInv)
  BY <1>1, <1>3, PathKept, PTL DEF Spec
<1> QED
  BY <1>1, <1>2, <1>4, PathKept, PTL DEF Spec, ImplementsFifo
=============================================================================
