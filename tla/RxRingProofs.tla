---------------------------- MODULE RxRingProofs ----------------------------
(***************************************************************************)
(* Proofs about RxRing, for rings of any size, any number of packets and   *)
(* refills that fail: the types, that the chip writes into no buffer that  *)
(* mac80211 has, and that packets keep their order.                        *)
(*                                                                         *)
(* The order rests on where everything is in the ring.  Counted from the   *)
(* slot the handler takes next (Base), the packets that are received and   *)
(* not taken fill the first slots and no other, in the order in which they *)
(* came, and the chip is at the slot after them (RingOrder).               *)
(***************************************************************************)
EXTENDS RxRing, TLAPS

\* How many steps of next lead from slot a to slot b.
Dist(a, b) == IF b >= a THEN b - a ELSE b - a + DescNum

Taken == IF irq.pc = "deliver" THEN Len(read) + 1 ELSE Len(read)
Base  == IF irq.pc = "deliver" THEN next(irq.ctl) ELSE irq.ctl
Waiting == came - Taken

RingOrder ==
  /\ Waiting \in 0..DescNum
  /\ IF Waiting = DescNum THEN pos = Base ELSE Dist(Base, pos) = Waiting
  /\ \A s \in Slots : ~valid[s] <=> Dist(Base, s) < Waiting
  /\ irq.pc = "idle" => head = irq.ctl
  /\ irq.pc = "arm" => Waiting > 0

\* Buffers are in one place: the slots' differ and were allocated, and one
\* that mac80211 has or gets next is in no slot unless it is stale.
Holding == IF irq.pc \in {"arm", "deliver"} THEN {irq.skb} ELSE {}
Owners ==
  /\ dst = skb
  /\ \A s \in Slots : dst[s] <= nbuf
  /\ \A s, r \in Slots : dst[s] = dst[r] => s = r
  /\ Holding \subseteq 1..nbuf /\ Up \subseteq 1..nbuf
  /\ \A s \in Slots : dst[s] \in Holding \cup Up => dst[s] \in stale
  /\ nbuf <= DescNum + (IF irq.pc = "arm" THEN Taken + 1 ELSE Taken)

\* The packets are in the buffers of the slots they were received in.
Contents ==
  /\ \A s \in Slots :
       ~valid[s] /\ ~(irq.pc = "arm" /\ s = irq.ctl) =>
         content[dst[s]] = Taken + 1 + Dist(Base, s)
  /\ stale = {} => /\ \A b \in Holding : content[b] = Len(read) + 1
                   /\ \A i \in DOMAIN read : read[i] = i

Inv == TypeOK /\ RingOrder /\ Owners /\ Contents
-----------------------------------------------------------------------------
(* The ring.                                                               *)

LEMMA NextInRing == ASSUME NEW s \in Slots PROVE next(s) \in Slots
BY RxAssumption DEF Slots, next

LEMMA DistInRing ==
  ASSUME NEW a \in Slots, NEW b \in Slots
  PROVE  Dist(a, b) \in 0..(DescNum - 1) /\ (Dist(a, b) = 0 <=> a = b)
BY RxAssumption DEF Slots, Dist

\* Different slots are at different distances.
LEMMA DistTells ==
  ASSUME NEW a \in Slots, NEW b \in Slots, NEW c \in Slots, Dist(a, b) = Dist(a, c)
  PROVE  b = c
BY RxAssumption DEF Slots, Dist

\* A step further away, or all around the ring.
LEMMA DistOfNext ==
  ASSUME NEW a \in Slots, NEW b \in Slots
  PROVE  IF Dist(a, b) = DescNum - 1 THEN next(b) = a
                                     ELSE Dist(a, next(b)) = Dist(a, b) + 1
BY RxAssumption DEF Slots, Dist, next

\* A step closer, or from being there to the far end.
LEMMA DistFromNext ==
  ASSUME NEW a \in Slots, NEW b \in Slots
  PROVE  Dist(next(a), b) = IF b = a THEN DescNum - 1 ELSE Dist(a, b) - 1
BY RxAssumption DEF Slots, Dist, next

LEMMA BaseInRing == TypeOK => /\ Base \in Slots /\ Taken \in Nat /\ came \in Nat
                              /\ nbuf \in Nat /\ irq.ctl \in Slots
BY NextInRing, RxAssumption DEF TypeOK, Base, Taken, Bufs

-----------------------------------------------------------------------------
LEMMA InitInv == Init => Inv
<1> SUFFICES ASSUME Init PROVE Inv
  OBVIOUS
<1>1. 0 \in Slots /\ \A s \in Slots : s \in Nat /\ s < DescNum
  BY RxAssumption DEF Slots
<1>2. TypeOK
  <2>1. \A s \in Slots : s + 1 \in Bufs
    BY <1>1, RxAssumption DEF Bufs
  <2>2. skb \in [Slots -> Bufs] /\ dst \in [Slots -> Bufs] /\ nbuf \in Bufs
    BY <2>1, RxAssumption DEF Init, Bufs
  <2>3. up \in Seq(Bufs) /\ read \in Seq(0..MaxPkts)
    BY DEF Init
  <2>4. valid \in [Slots -> BOOLEAN] /\ content \in [Bufs -> 0..MaxPkts]
    BY RxAssumption DEF Init
  <2>5. irq \in [pc : {"idle", "loop", "done", "arm", "deliver"}, ctl : Slots,
                 skb : Bufs \cup {NoBuf}]
    BY <1>1 DEF Init
  <2> QED
    BY <1>1, <2>2, <2>3, <2>4, <2>5, RxAssumption DEF Init, TypeOK
<1>3. Taken = 0 /\ Base = 0 /\ Waiting = 0
  <2>1. Len(read) = 0 /\ came = 0 /\ irq.pc = "idle" /\ irq.ctl = 0
    BY DEF Init
  <2> QED
    BY <2>1 DEF Taken, Base, Waiting
<1>4. RingOrder
  BY <1>1, <1>3, DistInRing, RxAssumption DEF Init, RingOrder
<1>5. Owners
  <2>1. Holding = {} /\ Up = {}
    BY DEF Init, Holding, Up
  <2> QED
    BY <1>1, <1>3, <2>1, RxAssumption DEF Init, Owners
<1>6. Contents
  BY DEF Init, Contents, Holding
<1> QED
  BY <1>2, <1>4, <1>5, <1>6 DEF Inv

\* The chip fills the slot it is at, which is behind all that are waiting.
LEMMA DmaPacketInv == Inv /\ DmaPacket => Inv'
<1> SUFFICES ASSUME Inv, DmaPacket PROVE Inv'
  OBVIOUS
<1> USE DEF Inv
<1>1. /\ pos \in Slots /\ came' = came + 1 /\ came' \in 0..MaxPkts
      /\ Base \in Slots /\ Taken \in Nat /\ came \in Nat /\ dst[pos] \in Bufs
  BY BaseInRing, RxAssumption DEF TypeOK, DmaPacket
<1>2. TypeOK'
  BY <1>1, NextInRing, RxAssumption DEF TypeOK, DmaPacket, drvVars
<1>3. /\ Base' = Base /\ Taken' = Taken /\ Waiting' = Waiting + 1
      /\ Holding' = Holding /\ Up' = Up
  BY <1>1 DEF DmaPacket, drvVars, Base, Taken, Waiting, Holding, Up
<1>4. Waiting < DescNum /\ Dist(Base, pos) = Waiting
  <2>1. ~(Dist(Base, pos) < Waiting)
    BY <1>1 DEF RingOrder, DmaPacket
  <2>2. Waiting # DescNum
    BY <1>1, <2>1, DistInRing, RxAssumption DEF RingOrder
  <2> QED
    BY <2>2, RxAssumption DEF RingOrder
<1>5. RingOrder'
  <2>1. Waiting' \in 0..DescNum
    BY <1>3, <1>4, RxAssumption DEF RingOrder
  <2>2. (IF Waiting = DescNum THEN pos = Base ELSE Dist(Base, pos) = Waiting)'
    <3>1. Waiting' = DescNum <=> Dist(Base, pos) = DescNum - 1
      BY <1>3, <1>4, RxAssumption DEF RingOrder
    <3>2. pos' = next(pos)
      BY DEF DmaPacket
    <3>3. Dist(Base, pos)' = Dist(Base, next(pos))
      BY <1>3, <3>2 DEF Dist
    <3> QED
      BY <1>1, <1>3, <1>4, <3>1, <3>2, <3>3, DistOfNext
  <2>3. ASSUME NEW s \in Slots PROVE (~valid[s] <=> Dist(Base, s) < Waiting)'
    <3>1. Dist(Base, s) = Waiting <=> s = pos
      BY <1>1, <1>4, DistTells
    <3>2. valid'[s] <=> valid[s] /\ s # pos
      BY <1>1 DEF TypeOK, DmaPacket
    <3>3. Dist(Base, s)' = Dist(Base, s)
      BY <1>3 DEF Dist
    <3>4. Dist(Base, s) \in Nat /\ Waiting \in Nat
      BY <1>1, DistInRing, RxAssumption DEF RingOrder
    <3> QED
      BY <1>3, <3>1, <3>2, <3>3, <3>4 DEF RingOrder
  <2>4. (irq.pc = "idle" => head = irq.ctl)' /\ (irq.pc = "arm" => Waiting > 0)'
    BY <1>3, RxAssumption DEF RingOrder, DmaPacket, drvVars
  <2> QED
    BY <2>1, <2>2, <2>3, <2>4 DEF RingOrder, Slots
<1>6. Owners'
  BY <1>3 DEF Owners, DmaPacket, drvVars
<1>7. Contents'
  <2>1. \A b \in Bufs : content'[b] = IF b = dst[pos] THEN came + 1 ELSE content[b]
    BY DEF TypeOK, DmaPacket
  <2>2. ASSUME NEW s \in Slots, ~valid'[s], ~(irq.pc = "arm" /\ s = irq.ctl)
        PROVE  content'[dst[s]] = Taken + 1 + Dist(Base, s)
    <3>1. dst[s] \in Bufs /\ (dst[s] = dst[pos] <=> s = pos)
      BY <1>1 DEF TypeOK, Owners
    <3>2. CASE s = pos
      BY <1>1, <1>4, <2>1, <3>1, <3>2 DEF Waiting
    <3>3. CASE s # pos
      <4>1. ~valid[s]
        BY <2>2, <3>3 DEF TypeOK, DmaPacket
      <4> QED
        BY <2>1, <2>2, <3>1, <3>3, <4>1 DEF Contents
    <3> QED
      BY <3>2, <3>3
  <2>3. ASSUME stale = {}, NEW b \in Holding PROVE content'[b] = Len(read) + 1
    <3>1. b # dst[pos]
      BY <1>1, <2>3 DEF Owners
    <3>2. b \in Bufs
      BY BaseInRing, RxAssumption DEF TypeOK, Owners, Bufs
    <3> QED
      BY <2>1, <2>3, <3>1, <3>2 DEF Contents
  <2>4. UNCHANGED <<stale, read, irq, dst>>
    BY DEF DmaPacket, drvVars
  <2>5. \A s \in Slots : Dist(Base, s)' = Dist(Base, s)
    BY <1>3 DEF Dist
  <2> QED
    BY <1>3, <2>2, <2>3, <2>4, <2>5 DEF Contents, Slots
<1> QED
  BY <1>2, <1>5, <1>6, <1>7

\* Steps that move neither packets nor buffers.
LEMMA QuietInv ==
  ASSUME Inv, UNCHANGED <<skb, dst, nbuf, content, stale, up, read, valid, pos, came>>,
         running' \in BOOLEAN, intr' \in BOOLEAN,
         \/ UNCHANGED <<irq, head>>
         \/ IrqEnter \/ RxDone \/ RxReturn
  PROVE  Inv'
<1> USE DEF Inv
<1>1. irq'.pc = irq.pc \/ {irq.pc, irq'.pc} \subseteq {"idle", "loop", "done"}
  BY DEF TypeOK, IrqEnter, RxDone, RxReturn
<1>2. irq'.ctl = irq.ctl /\ irq'.skb = irq.skb
  BY DEF TypeOK, RingOrder, IrqEnter, RxDone, RxReturn
<1>3. /\ TypeOK'
      /\ irq'.pc = "idle" => head' = irq'.ctl
      /\ irq'.pc = "arm" => irq.pc = "arm"
  BY DEF TypeOK, RingOrder, IrqEnter, RxDone, RxReturn
<1>4. /\ Base' = Base /\ Taken' = Taken /\ Waiting' = Waiting
      /\ Holding' = Holding /\ Up' = Up
  BY <1>1, <1>2 DEF Base, Taken, Waiting, Holding, Up, next
<1>5. \A s \in Slots : Dist(Base, s)' = Dist(Base, s)
  BY <1>4 DEF Dist
<1>6. RingOrder'
  BY <1>3, <1>4, <1>5 DEF RingOrder, Slots, Dist
<1>7. irq'.pc = "arm" <=> irq.pc = "arm"
  BY <1>1
<1>8. Owners'
  BY <1>4, <1>7 DEF Owners, Slots
<1>9. Contents'
  BY <1>2, <1>4, <1>5, <1>7 DEF Contents, Slots
<1> QED
  BY <1>3, <1>6, <1>8, <1>9

\* The first waiting packet is taken out; the slot gets a new buffer or keeps
\* its own, which is stale then.
LEMMA RxRefillInv == Inv /\ RxRefill => Inv'
<1> SUFFICES ASSUME Inv, RxRefill PROVE Inv'
  OBVIOUS
<1> USE DEF Inv
<1> DEFINE s == irq.ctl
<1>1. /\ s \in Slots /\ irq.pc = "loop" /\ ~valid[s]
      /\ irq' = [irq EXCEPT !.pc = "arm", !.skb = skb[s]]
      /\ UNCHANGED <<head, up, read, valid, content, pos, running, intr, came>>
  BY BaseInRing DEF RxRefill, chipVars
<1>2. Base = s /\ Base' = s /\ Taken' = Taken /\ Waiting' = Waiting /\ Up' = Up
  BY <1>1 DEF TypeOK, Base, Taken, Waiting, Up
<1>3. irq'.pc = "arm" /\ irq'.ctl = s /\ irq'.skb = skb[s] /\ Holding' = {skb[s]}
  BY <1>1 DEF TypeOK, Holding
<1>4. Waiting > 0 /\ Dist(Base, s) = 0
  BY <1>1, <1>2, DistInRing, RxAssumption DEF RingOrder
<1>5. Taken \in Nat /\ came \in 0..MaxPkts /\ nbuf \in Nat /\ Taken + 1 <= came
  BY <1>4, BaseInRing, RxAssumption DEF TypeOK, Waiting
<1>6. nbuf + 1 \in Bufs /\ nbuf + 1 <= DescNum + (Taken + 1)
  BY <1>1, <1>5, RxAssumption DEF Owners, Bufs
<1>7. \/ /\ nbuf' = nbuf + 1 /\ skb' = [skb EXCEPT ![s] = nbuf + 1]
         /\ dst' = [dst EXCEPT ![s] = nbuf + 1] /\ stale' = stale
      \/ /\ stale' = stale \cup {skb[s]} /\ UNCHANGED <<nbuf, skb, dst>>
  BY DEF RxRefill
<1>8. TypeOK'
  <2>1. skb[s] \in Bufs
    BY <1>1 DEF TypeOK
  <2>2. /\ skb' \in [Slots -> Bufs] /\ dst' \in [Slots -> Bufs]
        /\ nbuf' \in Bufs /\ stale' \subseteq Bufs
    BY <1>6, <1>7, <2>1 DEF TypeOK
  <2>3. irq' \in [pc : {"idle", "loop", "done", "arm", "deliver"}, ctl : Slots,
                  skb : Bufs \cup {NoBuf}]
    BY <1>1, <2>1 DEF TypeOK
  <2> QED
    BY <1>1, <2>2, <2>3 DEF TypeOK
<1>9. RingOrder'
  <2>1. \A r \in Slots : Dist(Base, r)' = Dist(Base, r)
    BY <1>2 DEF Dist
  <2> QED
    BY <1>1, <1>2, <1>3, <1>4, <2>1 DEF RingOrder, Slots, Dist, TypeOK
<1>10. Owners'
  <2>1. dst[s] \in 1..nbuf /\ skb[s] = dst[s] /\ \A r \in Slots : dst[r] \in Nat
    BY <1>1, <1>5, RxAssumption DEF TypeOK, Owners, Bufs
  <2>2. CASE nbuf' = nbuf + 1 /\ dst' = [dst EXCEPT ![s] = nbuf + 1]
             /\ skb' = [skb EXCEPT ![s] = nbuf + 1] /\ stale' = stale
    <3>1. \A r \in Slots : dst'[r] = IF r = s THEN nbuf + 1 ELSE dst[r]
      BY <2>2 DEF TypeOK
    <3>2. dst' = skb'
      BY <2>2 DEF Owners
    <3>3. \A r \in Slots : dst'[r] <= nbuf'
      BY <1>5, <2>1, <2>2, <3>1 DEF Owners
    <3>4. \A r, q \in Slots : dst'[r] = dst'[q] => r = q
      <4>1. \A r \in Slots : dst[r] # nbuf + 1
        BY <1>5, <2>1 DEF Owners
      <4> QED
        BY <3>1, <4>1 DEF Owners
    <3>5. Holding' \subseteq 1..nbuf' /\ Up' \subseteq 1..nbuf'
      BY <1>2, <1>3, <1>5, <2>1, <2>2 DEF Owners
    <3>6. \A r \in Slots : dst'[r] \in Holding' \cup Up' => dst'[r] \in stale'
      <4>1. nbuf + 1 \notin Holding' \cup Up'
        BY <1>2, <1>3, <1>5, <2>1 DEF Owners
      <4>2. \A r \in Slots : r # s => dst[r] # dst[s]
        BY <1>1 DEF Owners
      <4> QED
        BY <1>2, <1>3, <2>1, <2>2, <3>1, <4>1, <4>2 DEF Owners
    <3> QED
      BY <1>2, <1>3, <1>6, <2>2, <3>2, <3>3, <3>4, <3>5, <3>6 DEF Owners, Slots
  <2>3. CASE stale' = stale \cup {skb[s]} /\ UNCHANGED <<nbuf, skb, dst>>
    <3>1. nbuf <= DescNum + (Taken + 1)
      BY <1>5, <1>6, RxAssumption
    <3> QED
      BY <1>2, <1>3, <2>1, <2>3, <3>1 DEF Owners, Slots
  <2> QED
    BY <1>7, <2>2, <2>3
<1>11. Contents'
  <2>1. \A r \in Slots : Dist(Base, r)' = Dist(Base, r)
    BY <1>2 DEF Dist
  <2>2. \A r \in Slots : r # s => dst'[r] = dst[r]
    BY <1>7 DEF TypeOK
  <2>3. content[skb[s]] = Taken + 1
    BY <1>1, <1>4, <1>5 DEF Contents, Owners
  <2>4. Taken = Len(read) /\ stale' = {} => stale = {}
    BY <1>1, <1>7 DEF Taken
  <2>5. stale' = {} => stale = {}
    BY <1>7
  <2> QED
    BY <1>1, <1>2, <1>3, <2>1, <2>2, <2>3, <2>4, <2>5 DEF Contents, Slots, Taken
<1> QED
  BY <1>8, <1>9, <1>10, <1>11

\* The slot is the chip's again, and the farthest from the handler.
LEMMA RxArmInv == Inv /\ RxArm => Inv'
<1> SUFFICES ASSUME Inv, RxArm PROVE Inv'
  OBVIOUS
<1> USE DEF Inv
<1> DEFINE s == irq.ctl
<1>1. /\ s \in Slots /\ irq.pc = "arm"
      /\ irq' = [irq EXCEPT !.pc = "deliver"]
      /\ valid' = [valid EXCEPT ![s] = TRUE]
      /\ UNCHANGED <<head, skb, dst, nbuf, stale, up, read, content, pos, came>>
  BY BaseInRing DEF RxArm
<1>2. /\ irq'.pc = "deliver" /\ irq'.ctl = s /\ Holding' = Holding /\ Up' = Up
      /\ Taken' = Taken + 1 /\ Waiting' = Waiting - 1
      /\ Base = s /\ Base' = next(s)
  BY <1>1, BaseInRing DEF TypeOK, Holding, Up, Taken, Waiting, Base, next
<1>3. TypeOK'
  BY <1>1 DEF TypeOK, RxArm
<1>4. Waiting \in 1..DescNum /\ came \in Nat /\ Taken \in Nat
  BY <1>1, BaseInRing, RxAssumption DEF RingOrder
<1>5. \A r \in Slots : Dist(Base, r)' = IF r = s THEN DescNum - 1 ELSE Dist(s, r) - 1
  BY <1>1, <1>2, DistFromNext DEF Dist
<1>6. RingOrder'
  <2>1. (IF Waiting = DescNum THEN pos = Base ELSE Dist(Base, pos) = Waiting)'
    <3>1. pos \in Slots /\ pos' = pos /\ Dist(s, s) = 0 /\ Dist(s, pos) \in 0..(DescNum - 1)
      BY <1>1, DistInRing DEF TypeOK
    <3>2. Dist(Base, pos)' = IF pos = s THEN DescNum - 1 ELSE Dist(s, pos) - 1
      BY <1>5, <3>1 DEF Dist
    <3> QED
      BY <1>2, <1>4, <3>1, <3>2, RxAssumption DEF RingOrder
  <2>2. ASSUME NEW r \in Slots PROVE (~valid[r] <=> Dist(Base, r) < Waiting)'
    <3>1. valid'[r] <=> valid[r] \/ r = s
      BY <1>1 DEF TypeOK
    <3>2. Dist(s, r) \in 0..(DescNum - 1) /\ (~valid[r] <=> Dist(s, r) < Waiting)
      BY <1>1, <1>2, DistInRing DEF RingOrder
    <3>3. Dist(Base, r)' = IF r = s THEN DescNum - 1 ELSE Dist(s, r) - 1
      BY <1>5
    <3> QED
      BY <1>2, <1>4, <3>1, <3>2, <3>3, RxAssumption
  <2> QED
    BY <1>2, <1>4, <2>1, <2>2, RxAssumption DEF RingOrder, Slots
<1>7. Owners'
  BY <1>1, <1>2 DEF Owners, Slots
<1>8. Contents'
  <2>1. ASSUME NEW r \in Slots, ~valid'[r]
        PROVE  content[dst[r]] = Taken' + 1 + Dist(Base, r)'
    <3>1. r # s /\ ~valid[r] /\ Dist(s, r) \in Nat
      BY <1>1, <2>1, DistInRing, RxAssumption DEF TypeOK
    <3>2. content[dst[r]] = Taken + 1 + Dist(s, r)
      BY <1>2, <3>1 DEF Contents
    <3> QED
      BY <1>2, <1>4, <1>5, <3>1, <3>2
  <2> QED
    BY <1>1, <1>2, <2>1 DEF Contents, Slots
<1> QED
  BY <1>3, <1>6, <1>7, <1>8

\* mac80211 gets the buffer and the packet it held.
LEMMA RxDeliverInv == Inv /\ RxDeliver => Inv'
<1> SUFFICES ASSUME Inv, RxDeliver PROVE Inv'
  OBVIOUS
<1> USE DEF Inv
<1>1. /\ irq.pc = "deliver" /\ irq.ctl \in Slots /\ irq.skb \in 1..nbuf
      /\ nbuf \in Bufs
      /\ up' = Append(up, irq.skb) /\ read' = Append(read, content[irq.skb])
      /\ irq' = [pc |-> "loop", ctl |-> next(irq.ctl), skb |-> NoBuf]
      /\ UNCHANGED <<head, skb, dst, nbuf, stale, valid, chipVars>>
  BY BaseInRing DEF TypeOK, Owners, Holding, RxDeliver
<1>2. irq.skb \in Bufs /\ content[irq.skb] \in 0..MaxPkts
  <2>1. irq.skb \in Bufs
    BY <1>1, RxAssumption DEF Bufs
  <2> QED
    BY <2>1 DEF TypeOK
<1>3. TypeOK'
  <2>1. up' \in Seq(Bufs) /\ read' \in Seq(0..MaxPkts)
    BY <1>1, <1>2 DEF TypeOK
  <2> QED
    BY <1>1, <2>1, NextInRing DEF TypeOK, chipVars
<1>4. /\ Len(read') = Len(read) + 1 /\ DOMAIN read = 1..Len(read)
      /\ DOMAIN read' = 1..(Len(read) + 1)
      /\ \A i \in DOMAIN read' : read'[i] = IF i \in DOMAIN read THEN read[i]
                                                                ELSE content[irq.skb]
  BY <1>1, <1>2 DEF TypeOK
<1>5. Up' = Up \cup {irq.skb}
  <2>1. /\ DOMAIN up = 1..Len(up) /\ DOMAIN up' = 1..(Len(up) + 1)
        /\ \A i \in DOMAIN up' : up'[i] = IF i \in DOMAIN up THEN up[i] ELSE irq.skb
        /\ Len(up) + 1 \in DOMAIN up' \ DOMAIN up
    BY <1>1, <1>2 DEF TypeOK
  <2> QED
    BY <2>1 DEF Up
<1>6. /\ Base' = Base /\ Taken' = Taken /\ Waiting' = Waiting /\ Holding' = {}
      /\ Holding = {irq.skb}
  BY <1>1, <1>4 DEF Base, Taken, Waiting, Holding, chipVars
<1>7. \A s \in Slots : Dist(Base, s)' = Dist(Base, s)
  BY <1>6 DEF Dist
<1>8. RingOrder'
  BY <1>1, <1>6, <1>7 DEF RingOrder, Slots, Dist, chipVars
<1>9. Owners'
  BY <1>1, <1>5, <1>6 DEF Owners, Slots
<1>10. Contents'
  <2>1. ASSUME stale = {}, NEW i \in DOMAIN read' PROVE read'[i] = i
    <3>1. content[irq.skb] = Len(read) + 1
      BY <1>6, <2>1 DEF Contents
    <3>2. i \in DOMAIN read \/ i = Len(read) + 1
      BY <1>4 DEF TypeOK
    <3> QED
      BY <1>4, <2>1, <3>1, <3>2 DEF Contents, TypeOK
  <2> QED
    BY <1>1, <1>6, <1>7, <2>1 DEF Contents, Slots, chipVars
<1> QED
  BY <1>3, <1>8, <1>9, <1>10

LEMMA InvNext == Inv /\ [Next]_vars => Inv'
<1> SUFFICES ASSUME Inv, [Next]_vars PROVE Inv'
  OBVIOUS
<1>1. CASE DmaPacket
  BY <1>1, DmaPacketInv
<1>2. CASE RxRefill
  BY <1>2, RxRefillInv
<1>3. CASE RxArm
  BY <1>3, RxArmInv
<1>4. CASE RxDeliver
  BY <1>4, RxDeliverInv
<1>5. CASE DmaStop
  BY <1>5, QuietInv DEF Inv, TypeOK, DmaStop, drvVars
<1>6. CASE IrqEnter \/ RxDone \/ RxReturn
  BY <1>6, QuietInv DEF Inv, TypeOK, IrqEnter, RxDone, RxReturn, chipVars
<1>7. CASE UNCHANGED vars
  BY <1>7, QuietInv DEF Inv, TypeOK, vars, drvVars, chipVars
<1> QED
  BY <1>1, <1>2, <1>3, <1>4, <1>5, <1>6, <1>7 DEF Next, RxHandler

LEMMA InvHolds == Spec => []Inv
BY InitInv, InvNext, PTL DEF Spec

-----------------------------------------------------------------------------
(* Theorems.                                                               *)

\* Types: wcn36xx_dxe_fill_skb allocates at most one buffer for each packet
\* received, so nbuf stays within the bound of the model.
THEOREM TypeCorrect == Spec => []TypeOK
<1>1. Inv => TypeOK
  BY DEF Inv
<1> QED
  BY InvHolds, <1>1, PTL

\* A valid descriptor of wcn36xx_dxe_ch does not point at a buffer that
\* wcn36xx_rx_skb was given, unless its refill failed.
THEOREM NoWriteToDelivered == Spec => []NoWriteAfterDelivery
<1>1. Inv => NoWriteAfterDelivery
  BY DEF Inv, Owners, NoWriteAfterDelivery
<1> QED
  BY InvHolds, <1>1, PTL

\* wcn36xx_rx_handle_packets hands packets up in the order of their arrival,
\* however many arrive while it runs and however often the ring wraps.
THEOREM PacketsKeepOrder == Spec => []PacketsInOrder
<1>1. Inv => PacketsInOrder
  BY DEF Inv, Contents, PacketsInOrder
<1> QED
  BY InvHolds, <1>1, PTL
=============================================================================
