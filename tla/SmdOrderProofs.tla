--------------------------- MODULE SmdOrderProofs ---------------------------
(***************************************************************************)
(* Proofs about the order of messages in Smd, on top of SmdProofs.         *)
(*                                                                         *)
(* Indications keep their order because at every time those handled, those *)
(* in the queue, the one the platform worker holds and those in the        *)
(* channel follow each other in the order of their numbers (IndOrder).     *)
(*                                                                         *)
(* A command built while no answer was under way reads its own response,   *)
(* however long any answer takes: until it returns, what is under way is   *)
(* at most one answer, in one place, and that to the message it sent       *)
(* (OneAnswer).  An answer that outlives its command's timeout is excluded *)
(* by nothing; the command built while it is still under way is the one of *)
(* which nothing is claimed, until the next is built.                      *)
(***************************************************************************)
EXTENDS SmdProofs

\* The worker has a message only between reading and passing it on.
MsgHeld ==
  /\ smd_work.pc \notin {"process", "complete", "add"} => smd_work.msg = NoMsg
  /\ smd_work.pc = "complete" => smd_work.msg.kind = "rsp"

Rising(q) == \A i, j \in DOMAIN q : i < j => q[i] < q[j]
Before(q, n) == \A i \in DOMAIN q : q[i] < n
IsInd(m) == m.kind = "ind"

IndOrder ==
  /\ Rising(handled) /\ Rising(hal_ind_queue)
  /\ \A i \in DOMAIN hal_ind_queue : Before(handled, hal_ind_queue[i])
  /\ IsInd(smd_work.msg) =>
       Before(handled, smd_work.msg.n) /\ Before(hal_ind_queue, smd_work.msg.n)
  /\ \A i \in DOMAIN chan : IsInd(chan[i]) =>
       /\ Before(handled, chan[i].n) /\ Before(hal_ind_queue, chan[i].n)
       /\ IsInd(smd_work.msg) => smd_work.msg.n < chan[i].n
       /\ \A j \in DOMAIN chan : i < j /\ IsInd(chan[j]) => chan[i].n < chan[j].n
       /\ chan[i].n <= arrived
  /\ Before(handled, arrived + 1) /\ Before(hal_ind_queue, arrived + 1)
  /\ IsInd(smd_work.msg) => smd_work.msg.n <= arrived

IsRsp(m) == m.kind = "rsp"
RspIn(q) == {i \in DOMAIN q : IsRsp(q[i])}
Silent == fw = <<>> /\ RspIn(chan) = {} /\ ~IsRsp(smd_work.msg)

\* The answer to message n, wherever it is on its way, and nothing else.
AnswerOf(n) ==
  /\ Len(fw) <= 1
  /\ fw # <<>> => fw[1] = n /\ RspIn(chan) = {} /\ ~IsRsp(smd_work.msg)
  /\ IsRsp(smd_work.msg) => smd_work.msg.n = n /\ RspIn(chan) = {}
  /\ \A i \in RspIn(chan) : chan[i].n = n
  /\ \A i, j \in RspIn(chan) : i = j
  /\ smd_work.pc = "complete" => hal_buf = smd_work.msg
  /\ \/ hal_rsp_compl = 0
     \/ hal_rsp_compl = 1 /\ Silent /\ IsRsp(hal_buf) /\ hal_buf.n = n

\* What is under way while a command built in silence is.
Own(c) ==
  /\ cmd[c].pc \in {"init", "tx"} => Silent /\ hal_buf = Req(cmd[c].n)
  /\ cmd[c].pc = "tx" => hal_rsp_compl = 0
  /\ cmd[c].pc = "wait" => AnswerOf(cmd[c].n)
  /\ cmd[c].pc = "check" => Silent /\ IsRsp(hal_buf) /\ hal_buf.n = cmd[c].n

OneAnswer == quiet => \A c \in Callers : Own(c)

OrderInv == MsgHeld /\ IndOrder /\ OneAnswer

-----------------------------------------------------------------------------
(* Sequences.                                                              *)

LEMMA AppendParts ==
  ASSUME NEW S, NEW q \in Seq(S), NEW e \in S
  PROVE  /\ DOMAIN Append(q, e) = DOMAIN q \cup {Len(q) + 1}
         /\ Append(q, e)[Len(q) + 1] = e
         /\ \A i \in DOMAIN q : /\ Append(q, e)[i] = q[i] /\ q[i] \in S
                                /\ i \in Nat /\ i < Len(q) + 1
         /\ Len(q) + 1 \in Nat
OBVIOUS

LEMMA TailParts ==
  ASSUME NEW S, NEW q \in Seq(S), q # <<>>
  PROVE  /\ 1 \in DOMAIN q /\ Head(q) = q[1] /\ q[1] \in S
         /\ \A i \in DOMAIN Tail(q) : /\ Tail(q)[i] = q[i + 1] /\ i \in Nat /\ 1 < i + 1
                                      /\ i + 1 \in DOMAIN q /\ q[i + 1] \in S
OBVIOUS

LEMMA RisingAppend ==
  ASSUME NEW q \in Seq(Nat), NEW n \in Nat, Rising(q), Before(q, n)
  PROVE  Rising(Append(q, n))
BY AppendParts DEF Rising, Before

LEMMA BeforeAppend ==
  ASSUME NEW q \in Seq(Nat), NEW m \in Nat, NEW n \in Nat, Before(q, n), m < n
  PROVE  Before(Append(q, m), n)
BY AppendParts DEF Before

LEMMA TailRises ==
  ASSUME NEW q \in Seq(Nat), q # <<>>, Rising(q)
  PROVE  /\ Rising(Tail(q)) /\ \A i \in DOMAIN Tail(q) : Head(q) < Tail(q)[i]
         /\ \A n \in Nat : Before(q, n) => Head(q) < n /\ Before(Tail(q), n)
BY TailParts DEF Rising, Before

-----------------------------------------------------------------------------
(* Indications.                                                            *)

LEMMA MsgHeldNext ==
  ASSUME ChanTypes, MsgHeld, [Next]_vars
  PROVE  MsgHeld'
<1>1. CASE UNCHANGED smd_work
  BY <1>1 DEF MsgHeld
<1>2. ASSUME NEW m, SmdNotify(m) PROVE MsgHeld'
  BY <1>2 DEF SmdNotify, MsgHeld, ChanTypes
<1>3. CASE SmdWork
  BY <1>3 DEF SmdWork, SmdStart, SmdRead, SmdLeave, RspCopy, RspComplete, IndCopy,
    IndQueue, SmdGoto, MsgHeld, ChanTypes
<1> QED
  BY <1>1, <1>2, <1>3 DEF Next, CmdCall, CmdStep, CmdLock, CmdBuild, CmdInit, CmdTx,
    CmdWake, CmdTimeout, CmdCheck, FwAnswer, FwDrop, FwIndicate, IndWork, IndStart,
    IndLock, IndHandle, vars

\* The numbers of indications.
LEMMA IndNumbers ==
  ASSUME ChanTypes, IndTypes
  PROVE  /\ handled \in Seq(Nat) /\ hal_ind_queue \in Seq(Nat) /\ arrived \in Nat
         /\ IsInd(smd_work.msg) => smd_work.msg.n \in Nat
         /\ \A i \in DOMAIN chan : chan[i] \in Packets /\ chan[i].n \in Nat
<1>1. Inds \subseteq Nat
  BY SmdAssumption DEF Inds
<1>2. ASSUME NEW m \in Packets PROVE m.n \in Nat
  <2>1. CASE m \in [kind : {"rsp"}, n : Serials, ok : BOOLEAN]
    BY <2>1, SmdAssumption DEF Serials
  <2>2. CASE m \in [kind : {"ind"}, n : Inds, ok : {FALSE}]
    BY <1>1, <2>2
  <2> QED
    BY <2>1, <2>2 DEF Packets
<1>3. \A i \in DOMAIN chan : chan[i] \in Packets
  BY DEF ChanTypes
<1>4. ASSUME NEW q \in Seq(Inds) PROVE q \in Seq(Nat)
  <2>1. q \in [1..Len(q) -> Inds] /\ Len(q) \in Nat
    OBVIOUS
  <2>2. q \in [1..Len(q) -> Nat]
    BY <1>1, <2>1
  <2> QED
    BY <2>1, <2>2
<1>5. arrived \in Nat
  BY SmdAssumption DEF ChanTypes
<1>6. smd_work.msg \in Packets \cup {NoMsg}
  BY DEF ChanTypes
<1> QED
  BY <1>2, <1>3, <1>4, <1>5, <1>6 DEF IsInd, NoMsg, IndTypes

LEMMA IndOrderNext ==
  ASSUME ChanTypes, IndTypes, MsgHeld, IndOrder, [Next]_vars
  PROVE  IndOrder'
<1>1. CASE UNCHANGED <<handled, hal_ind_queue, chan, arrived>>
             /\ smd_work'.msg \in {smd_work.msg, NoMsg}
  BY <1>1 DEF IndOrder, IsInd, NoMsg
<1>2. CASE FwAnswer
  <2>1. PICK m : SmdNotify(m) /\ ~IsInd(m) /\ m \in Packets
    <3>1. Head(fw) \in Serials
      BY <1>2, SeqTyped DEF FwAnswer, ChanTypes
    <3>2. \A ok \in BOOLEAN : ~IsInd(Rsp(Head(fw), ok)) /\ Rsp(Head(fw), ok) \in Packets
      BY <3>1 DEF Rsp, IsInd, Packets
    <3> QED
      BY <1>2, <3>2 DEF FwAnswer
  <2>2. chan' = Append(chan, m) /\ chan \in Seq(Packets)
        /\ UNCHANGED <<handled, hal_ind_queue, arrived>> /\ smd_work'.msg = smd_work.msg
    BY <1>2, <2>1 DEF SmdNotify, FwAnswer, indVars, ChanTypes
  <2>3. \A i \in DOMAIN chan' : IsInd(chan'[i]) => i \in DOMAIN chan /\ chan'[i] = chan[i]
    BY <2>1, <2>2, AppendParts
  <2> QED
    BY <2>2, <2>3 DEF IndOrder
<1>3. CASE FwIndicate
  <2> DEFINE m == Ind(arrived + 1)
  <2>1. /\ arrived' = arrived + 1 /\ arrived \in Nat /\ m \in Packets
        /\ IsInd(m) /\ m.n = arrived + 1
    BY <1>3, SmdAssumption DEF FwIndicate, ChanTypes, Ind, Packets, Inds, IsInd
  <2>2. chan' = Append(chan, m) /\ chan \in Seq(Packets)
        /\ UNCHANGED <<handled, hal_ind_queue>> /\ smd_work'.msg = smd_work.msg
    BY <1>3 DEF SmdNotify, FwIndicate, indVars, ChanTypes
  <2>3. /\ DOMAIN chan' = DOMAIN chan \cup {Len(chan) + 1}
        /\ chan'[Len(chan) + 1] = m
        /\ \A i \in DOMAIN chan : chan'[i] = chan[i] /\ i \in Nat /\ i < Len(chan) + 1
        /\ Len(chan) + 1 \in Nat
    BY <2>1, <2>2, AppendParts
  <2>4. /\ \A i \in DOMAIN handled : handled[i] \in Nat
        /\ \A i \in DOMAIN hal_ind_queue : hal_ind_queue[i] \in Nat
    BY IndNumbers
  <2>5. Before(handled, arrived' + 1) /\ Before(hal_ind_queue, arrived' + 1)
    BY <2>1, <2>4 DEF IndOrder, Before
  <2>6. IsInd(smd_work.msg) => smd_work.msg.n < arrived + 1
    BY <2>1, IndNumbers DEF IndOrder
  <2>7. \A i \in DOMAIN chan : IsInd(chan[i]) => chan[i].n < arrived + 1
                                                 /\ chan[i].n <= arrived'
    BY <2>1, IndNumbers DEF IndOrder
  <2>8. IsInd(smd_work.msg) => smd_work.msg.n <= arrived'
    BY <2>1, IndNumbers DEF IndOrder
  <2>9. ASSUME NEW i \in DOMAIN chan', IsInd(chan'[i])
        PROVE  /\ Before(handled, chan'[i].n) /\ Before(hal_ind_queue, chan'[i].n)
               /\ IsInd(smd_work.msg) => smd_work.msg.n < chan'[i].n
               /\ chan'[i].n <= arrived'
    <3>1. CASE i \in DOMAIN chan
      BY <2>3, <2>7, <2>9, <3>1 DEF IndOrder
    <3>2. CASE i = Len(chan) + 1
      BY <2>1, <2>3, <2>6, <3>2 DEF IndOrder
    <3> QED
      BY <2>3, <3>1, <3>2
  <2>10. ASSUME NEW i \in DOMAIN chan', NEW j \in DOMAIN chan', i < j,
                IsInd(chan'[i]), IsInd(chan'[j])
         PROVE  chan'[i].n < chan'[j].n
    <3>1. i \in DOMAIN chan
      BY <2>3, <2>10
    <3>2. CASE j \in DOMAIN chan
      BY <2>3, <2>10, <3>1, <3>2 DEF IndOrder
    <3>3. CASE j = Len(chan) + 1
      BY <2>1, <2>3, <2>7, <2>10, <3>1, <3>3
    <3> QED
      BY <2>3, <3>2, <3>3
  <2> QED
    BY <2>2, <2>5, <2>8, <2>9, <2>10 DEF IndOrder
<1>4. CASE SmdRead
  <2>1. CASE SmdGoto("leave", NoMsg) /\ UNCHANGED chan
    BY <1>1, <1>4, <2>1 DEF SmdRead, SmdGoto, indVars, ChanTypes
  <2>2. CASE SmdGoto("process", Head(chan)) /\ chan # <<>> /\ chan' = Tail(chan)
    <3>1. /\ smd_work'.msg = chan[1] /\ 1 \in DOMAIN chan
          /\ \A i \in DOMAIN chan' : /\ chan'[i] = chan[i + 1] /\ i \in Nat /\ 1 < i + 1
                                     /\ i + 1 \in DOMAIN chan
      BY <2>2, TailParts DEF SmdGoto, ChanTypes
    <3>2. UNCHANGED <<handled, hal_ind_queue, arrived>>
      BY <1>4 DEF SmdRead, indVars
    <3>3. \A i, j \in DOMAIN chan' : i < j => i + 1 < j + 1
      BY <3>1
    <3> QED
      BY <3>1, <3>2, <3>3 DEF IndOrder
  <2> QED
    BY <1>4, <2>1, <2>2 DEF SmdRead
<1>5. CASE IndQueue
  <2> DEFINE n == smd_work.msg.n
  <2>1. /\ IsInd(smd_work.msg) /\ n \in Nat
        /\ hal_ind_queue' = Append(hal_ind_queue, n) /\ hal_ind_queue \in Seq(Nat)
        /\ UNCHANGED <<handled, chan, arrived>> /\ ~IsInd(smd_work'.msg)
    BY <1>5, IndNumbers DEF IndQueue, ChanTypes, IsInd, SmdGoto, NoMsg
  <2>2. Rising(hal_ind_queue') /\ Before(hal_ind_queue', arrived + 1)
    BY <2>1, RisingAppend, BeforeAppend, IndNumbers DEF IndOrder
  <2>3. \A i \in DOMAIN chan : IsInd(chan[i]) => Before(hal_ind_queue', chan[i].n)
    BY <2>1, BeforeAppend, IndNumbers DEF IndOrder
  <2>4. \A i \in DOMAIN hal_ind_queue' : Before(handled, hal_ind_queue'[i])
    BY <2>1, AppendParts DEF IndOrder
  <2> QED
    BY <2>1, <2>2, <2>3, <2>4 DEF IndOrder
<1>6. CASE IndHandle
  <2> DEFINE n == Head(hal_ind_queue)
  <2>1. /\ hal_ind_queue \in Seq(Nat) /\ hal_ind_queue # <<>> /\ handled \in Seq(Nat)
        /\ hal_ind_queue' = Tail(hal_ind_queue) /\ handled' = Append(handled, n)
        /\ UNCHANGED <<chan, arrived, smd_work>>
    BY <1>6, IndNumbers DEF IndHandle
  <2>2. n \in Nat /\ Before(handled, n)
    BY <2>1, TailParts DEF IndOrder
  <2>3. /\ Rising(hal_ind_queue') /\ \A i \in DOMAIN hal_ind_queue' : n < hal_ind_queue'[i]
        /\ \A m \in Nat : Before(hal_ind_queue, m) => n < m /\ Before(hal_ind_queue', m)
    BY <2>1, TailRises DEF IndOrder
  <2>4. Rising(handled')
    BY <2>1, <2>2, RisingAppend DEF IndOrder
  <2>5. \A m \in Nat : Before(handled, m) /\ Before(hal_ind_queue, m)
                         => Before(handled', m) /\ Before(hal_ind_queue', m)
    BY <2>1, <2>2, <2>3, BeforeAppend
  <2>6. ASSUME NEW i \in DOMAIN hal_ind_queue' PROVE Before(handled', hal_ind_queue'[i])
    <3>1. i + 1 \in DOMAIN hal_ind_queue /\ hal_ind_queue'[i] = hal_ind_queue[i + 1]
          /\ hal_ind_queue'[i] \in Nat
      BY <2>1, <2>6, TailParts
    <3> QED
      BY <2>1, <2>2, <2>3, <3>1, BeforeAppend DEF IndOrder
  <2> QED
    BY <2>1, <2>3, <2>4, <2>5, <2>6, IndNumbers DEF IndOrder
<1>7. CASE SmdStart \/ SmdLeave \/ RspCopy \/ RspComplete \/ IndCopy
  BY <1>1, <1>7 DEF SmdStart, SmdLeave, RspCopy, RspComplete, IndCopy, SmdGoto, indVars,
    ChanTypes
<1>8. CASE (\E c \in Callers : CmdCall(c) \/ CmdStep(c)) \/ FwDrop \/ IndStart \/ IndLock
             \/ UNCHANGED vars
  BY <1>1, <1>8 DEF CmdCall, CmdStep, CmdLock, CmdBuild, CmdInit, CmdTx, CmdWake,
    CmdTimeout, CmdCheck, FwDrop, IndStart, IndLock, indVars, vars
<1> QED
  BY <1>2, <1>3, <1>4, <1>5, <1>6, <1>7, <1>8 DEF Next, SmdWork, IndWork

-----------------------------------------------------------------------------
(* Responses.                                                              *)

LEMMA SilentIs == Silent <=> ~Answering
BY DEF Silent, Answering, RspIn, IsRsp

\* A worker that is to complete a command has the response in its hand.
LEMMA SilentWorker == MsgHeld /\ Silent => smd_work.pc # "complete"
BY DEF MsgHeld, Silent, IsRsp

\* Two commands under way are one.
LEMMA OneBusy ==
  ASSUME CmdInv, NEW c \in Callers, NEW d \in Callers, Busy(c), Busy(d)
  PROVE  c = d
BY DEF CmdInv, MutexOfCommand

\* While c is under way the others are not.
LEMMA OthersIdle ==
  ASSUME CmdInv, NEW c \in Callers, Busy(c), NEW d \in Callers, d # c
  PROVE  cmd[d].pc \in {"idle", "lock"}
BY OneBusy DEF Busy

\* A command that is not between build and check has nothing to own.
LEMMA NothingToOwn ==
  ASSUME NEW c \in Callers, cmd'[c].pc \in {"idle", "lock", "build"}
  PROVE  Own(c)'
BY DEF Own

LEMMA CommandAnswer ==
  ASSUME CmdInv, ChanTypes, MsgHeld, OneAnswer, NEW c \in Callers,
         CmdCall(c) \/ CmdStep(c)
  PROVE  OneAnswer'
<1>0. /\ cmd \in [Callers -> [pc : Pcs, n : Serials, left : 0..MaxFrags]]
      /\ \A d \in Callers : cmd[d] \in [pc : Pcs, n : Serials, left : 0..MaxFrags]
  BY DEF CmdInv, CmdTypes
<1> SUFFICES ASSUME quiet', NEW d \in Callers PROVE Own(d)'
  BY DEF OneAnswer
<1>1. CASE CmdCall(c) \/ CmdLock(c)
  <2>1. quiet /\ UNCHANGED <<fw, chan, smd_work, hal_rsp_compl, hal_buf>>
    BY <1>1 DEF CmdCall, CmdLock
  <2>2. CASE d = c
    <3>1. cmd'[c].pc \in {"lock", "build"}
      <4>1. CASE CmdCall(c)
        <5>1. PICK k \in 1..MaxFrags :
                cmd' = [cmd EXCEPT ![c] = [pc |-> "lock", n |-> 0, left |-> k]]
          BY <4>1 DEF CmdCall
        <5> QED
          BY <1>0, <5>1
      <4>2. CASE CmdLock(c)
        BY <1>0, <4>2 DEF CmdLock, Goto
      <4> QED
        BY <1>1, <4>1, <4>2
    <3> QED
      BY <2>2, <3>1, NothingToOwn
  <2>3. CASE d # c
    <3>1. cmd'[d] = cmd[d]
      BY <1>0, <1>1, <2>3 DEF CmdCall, CmdLock, Goto
    <3>2. Own(d)
      BY <2>1 DEF OneAnswer
    <3> QED
      BY <2>1, <3>1, <3>2 DEF Own, AnswerOf, Silent, RspIn
  <2> QED
    BY <2>2, <2>3
<1>2. ASSUME CmdStep(c), ~CmdLock(c)
      PROVE  /\ Busy(c) /\ UNCHANGED <<chan, smd_work>>
             /\ d # c => Own(d)'
             /\ Return(c) => Own(d)'
  <2>1. Busy(c) /\ UNCHANGED <<chan, smd_work>>
    BY <1>2 DEF CmdStep, CmdBuild, CmdInit, CmdTx, CmdWake, CmdTimeout, CmdCheck, Busy
  <2>2. d # c => cmd'[d] = cmd[d]
    BY <1>0, <1>2 DEF CmdStep, CmdBuild, CmdInit, CmdTx, CmdWake, CmdTimeout, CmdCheck,
      Goto, Return
  <2>3. d # c => Own(d)'
    BY <2>1, <2>2, OthersIdle, NothingToOwn
  <2>4. Return(c) => cmd'[c].pc = "idle"
    BY <1>0 DEF Return, NoCmd
  <2> QED
    BY <2>1, <2>3, <2>4, NothingToOwn
<1>3. CASE CmdBuild(c)
  <2>1. Return(c) \/ d # c => Own(d)'
    BY <1>2, <1>3 DEF CmdStep, CmdBuild, CmdLock
  <2>2. CASE ~Return(c) /\ d = c
    <3>1. /\ Silent /\ hal_buf' = Req(sends + 1) /\ cmd'[c].pc = "init"
          /\ cmd'[c].n = sends + 1 /\ UNCHANGED <<fw, chan, smd_work>>
      BY <1>0, <1>3, <2>2, SilentIs DEF CmdBuild
    <3> QED
      BY <2>2, <3>1 DEF Own, Silent, RspIn
  <2> QED
    BY <2>1, <2>2
<1>4. CASE CmdInit(c)
  <2>1. d # c => Own(d)'
    BY <1>2, <1>4 DEF CmdStep, CmdInit, CmdLock
  <2>2. CASE d = c
    <3>1. /\ Silent /\ hal_buf = Req(cmd[c].n)
      BY <1>4 DEF CmdInit, OneAnswer, Own
    <3>2. /\ cmd'[c].pc = "tx" /\ cmd'[c].n = cmd[c].n /\ hal_rsp_compl' = 0
          /\ UNCHANGED <<fw, chan, smd_work, hal_buf>>
      BY <1>0, <1>4 DEF CmdInit, Goto
    <3> QED
      BY <2>2, <3>1, <3>2 DEF Own, Silent, RspIn
  <2> QED
    BY <2>1, <2>2
<1>5. CASE CmdTx(c)
  <2>1. Return(c) \/ d # c => Own(d)'
    BY <1>2, <1>5 DEF CmdStep, CmdTx, CmdLock
  <2>2. CASE ~Return(c) /\ d = c
    <3>1. /\ Silent /\ hal_buf = Req(cmd[c].n) /\ hal_rsp_compl = 0
      BY <1>5 DEF CmdTx, OneAnswer, Own
    <3>2. hal_buf.kind = "req" /\ hal_buf.n = cmd[c].n
      BY <3>1 DEF Req
    <3>3. /\ cmd'[c].pc = "wait" /\ cmd'[c].n = cmd[c].n /\ fw' = Append(fw, cmd[c].n)
          /\ UNCHANGED <<chan, smd_work, hal_rsp_compl, hal_buf>>
      BY <1>0, <1>5, <2>2, <3>2 DEF CmdTx, Goto
    <3>4. fw' = <<cmd[c].n>> /\ Len(fw') = 1 /\ fw'[1] = cmd[c].n
      BY <3>1, <3>3 DEF Silent
    <3>5. smd_work.pc # "complete"
      BY <3>1, SilentWorker
    <3>6. (RspIn(chan) = {})' /\ ~IsRsp(smd_work.msg)'
      BY <3>1, <3>3 DEF Silent, RspIn
    <3>7. AnswerOf(cmd[c].n)'
      BY <3>1, <3>3, <3>4, <3>5, <3>6 DEF AnswerOf
    <3> QED
      BY <2>2, <3>3, <3>7 DEF Own
  <2> QED
    BY <2>1, <2>2
<1>6. CASE CmdWake(c)
  <2>1. d # c => Own(d)'
    BY <1>2, <1>6 DEF CmdStep, CmdWake, CmdLock
  <2>2. CASE d = c
    <3>1. AnswerOf(cmd[c].n) /\ hal_rsp_compl > 0
      BY <1>6 DEF CmdWake, OneAnswer, Own
    <3>2. Silent /\ IsRsp(hal_buf) /\ hal_buf.n = cmd[c].n
      BY <3>1 DEF AnswerOf
    <3>3. /\ cmd'[c].pc = "check" /\ cmd'[c].n = cmd[c].n
          /\ UNCHANGED <<fw, chan, smd_work, hal_buf>>
      BY <1>0, <1>6 DEF CmdWake, Goto
    <3> QED
      BY <2>2, <3>2, <3>3 DEF Own, Silent, RspIn
  <2> QED
    BY <2>1, <2>2
<1>7. CASE CmdTimeout(c)
  BY <1>2, <1>7 DEF CmdStep, CmdTimeout, CmdLock
<1>8. CASE CmdCheck(c)
  <2>1. Return(c) \/ d # c => Own(d)'
    BY <1>2, <1>8 DEF CmdStep, CmdCheck, CmdLock
  <2>2. CASE ~Return(c) /\ d = c
    <3>1. cmd'[c].pc = "build"
      BY <1>0, <1>8, <2>2 DEF CmdCheck
    <3> QED
      BY <2>2, <3>1, NothingToOwn
  <2> QED
    BY <2>1, <2>2
<1> QED
  BY <1>1, <1>3, <1>4, <1>5, <1>6, <1>7, <1>8 DEF CmdStep

\* In silence neither the firmware nor the worker touches hal_buf or
\* hal_rsp_compl.
LEMMA SilenceKept ==
  ASSUME ChanTypes, MsgHeld, Silent, FwAnswer \/ FwDrop \/ FwIndicate \/ SmdWork
  PROVE  Silent' /\ UNCHANGED <<cmd, quiet, hal_buf, hal_rsp_compl>>
<1>1. UNCHANGED <<cmd, quiet>>
  BY DEF FwAnswer, FwDrop, FwIndicate, SmdWork, SmdStart, SmdRead, SmdLeave, RspCopy,
    RspComplete, IndCopy, IndQueue, cmdVars
<1>2. CASE FwAnswer \/ FwDrop
  BY <1>2 DEF FwAnswer, FwDrop, Silent
<1>3. CASE FwIndicate
  <2>1. arrived + 1 \in Inds
    BY <1>3, SmdAssumption DEF FwIndicate, ChanTypes, Inds
  <2>2. Ind(arrived + 1) \in Packets /\ ~IsRsp(Ind(arrived + 1))
    BY <2>1 DEF Ind, Packets, IsRsp
  <2>3. /\ chan' = Append(chan, Ind(arrived + 1)) /\ chan \in Seq(Packets)
        /\ UNCHANGED <<fw, hal_buf, hal_rsp_compl>> /\ smd_work'.msg = smd_work.msg
    BY <1>3 DEF FwIndicate, SmdNotify, cmdVars, ChanTypes
  <2>4. RspIn(chan') = {}
    BY <2>2, <2>3, AppendParts DEF RspIn, Silent
  <2> QED
    BY <1>1, <2>3, <2>4 DEF Silent, RspIn
<1>4. CASE SmdWork
  <2>1. ~RspCopy /\ ~RspComplete
    BY SilentWorker DEF RspCopy, RspComplete, Silent, IsRsp
  <2>2. UNCHANGED <<fw, hal_buf, hal_rsp_compl>>
    BY <1>4, <2>1 DEF SmdWork, SmdStart, SmdRead, SmdLeave, IndCopy, IndQueue, cmdVars
  <2>3. ~IsRsp(NoMsg)
    BY DEF IsRsp, NoMsg
  <2>4. CASE SmdGoto("process", Head(chan)) /\ chan # <<>> /\ chan' = Tail(chan)
    <3>1. smd_work'.msg = Head(chan)
      BY <2>4 DEF SmdGoto, ChanTypes
    <3>2. /\ 1 \in DOMAIN chan /\ Head(chan) = chan[1]
          /\ \A i \in DOMAIN chan' : chan'[i] = chan[i + 1] /\ i + 1 \in DOMAIN chan
      BY <2>4, TailParts DEF ChanTypes
    <3>3. ~IsRsp(smd_work'.msg) /\ RspIn(chan') = {}
      BY <3>1, <3>2 DEF Silent, RspIn
    <3> QED
      BY <1>1, <2>2, <3>3 DEF Silent, RspIn
  <2>5. CASE UNCHANGED chan /\ smd_work'.msg \in {smd_work.msg, NoMsg}
    BY <1>1, <2>2, <2>3, <2>5 DEF Silent, RspIn
  <2>6. \/ UNCHANGED chan /\ smd_work'.msg \in {smd_work.msg, NoMsg}
        \/ SmdGoto("process", Head(chan)) /\ chan # <<>> /\ chan' = Tail(chan)
    <3>1. CASE SmdRead
      BY <3>1 DEF SmdRead, SmdGoto, ChanTypes
    <3>2. CASE SmdStart \/ SmdLeave \/ IndCopy \/ IndQueue
      BY <3>2 DEF SmdStart, SmdLeave, IndCopy, IndQueue, SmdGoto, ChanTypes
    <3> QED
      BY <1>4, <2>1, <3>1, <3>2 DEF SmdWork
  <2> QED
    BY <2>4, <2>5, <2>6
<1> QED
  BY <1>1, <1>2, <1>3, <1>4

\* An answer that is not under way has no way to hal_rsp_compl.
LEMMA AnswerWaited ==
  ASSUME NEW n, AnswerOf(n), ~Silent
  PROVE  hal_rsp_compl = 0
BY DEF AnswerOf

\* The firmware answers n, or does not, or sends an indication.
LEMMA FirmwareAnswer ==
  ASSUME ChanTypes, MsgHeld, NEW n \in Serials, AnswerOf(n), ~Silent,
         FwAnswer \/ FwDrop \/ FwIndicate
  PROVE  AnswerOf(n)'
<1>0. /\ UNCHANGED <<hal_buf, hal_rsp_compl>> /\ smd_work'.msg = smd_work.msg
      /\ smd_work'.pc = smd_work.pc /\ hal_rsp_compl = 0
  BY AnswerWaited DEF FwAnswer, FwDrop, FwIndicate, SmdNotify, cmdVars, ChanTypes
<1>1. CASE FwIndicate
  <2>1. arrived + 1 \in Inds
    BY <1>1, SmdAssumption DEF FwIndicate, ChanTypes, Inds
  <2>2. Ind(arrived + 1) \in Packets /\ ~IsRsp(Ind(arrived + 1))
    BY <2>1 DEF Ind, Packets, IsRsp
  <2>3. chan' = Append(chan, Ind(arrived + 1)) /\ chan \in Seq(Packets) /\ fw' = fw
    BY <1>1 DEF FwIndicate, SmdNotify, cmdVars, ChanTypes
  <2>4. RspIn(chan') = RspIn(chan) /\ \A i \in RspIn(chan) : chan'[i] = chan[i]
    BY <2>2, <2>3, AppendParts DEF RspIn
  <2> QED
    BY <1>0, <2>3, <2>4 DEF AnswerOf, RspIn
<1>2. CASE FwAnswer \/ FwDrop
  <2>1. fw # <<>> /\ fw \in Seq(Serials) /\ fw' = Tail(fw)
    BY <1>2 DEF FwAnswer, FwDrop, ChanTypes
  <2>2. /\ RspIn(chan) = {} /\ ~IsRsp(smd_work.msg) /\ fw[1] = n /\ Len(fw) <= 1
        /\ smd_work.pc # "complete"
    BY <2>1 DEF AnswerOf, MsgHeld, IsRsp
  <2>3. fw' = <<>> /\ Len(fw') = 0 /\ Head(fw) = n
    <3>1. 1 \in DOMAIN fw /\ Head(fw) = fw[1] /\ Len(fw) \in Nat /\ DOMAIN fw = 1..Len(fw)
      BY <2>1, TailParts
    <3>2. Len(fw) = 1
      BY <2>2, <3>1
    <3> QED
      BY <2>1, <2>2, <3>1, <3>2
  <2>4. /\ \A i, j \in RspIn(chan') : i = j
        /\ \A i \in RspIn(chan') : chan'[i].n = n
    <3>1. CASE FwDrop
      BY <2>2, <3>1 DEF FwDrop
    <3>2. CASE FwAnswer
      <4>1. PICK ok \in BOOLEAN : chan' = Append(chan, Rsp(n, ok))
        BY <2>3, <3>2 DEF FwAnswer, SmdNotify
      <4>2. Rsp(n, ok) \in Packets /\ Rsp(n, ok).n = n
        BY DEF Rsp, Packets
      <4>3. \A i \in RspIn(chan') : i = Len(chan) + 1
        BY <2>2, <4>1, <4>2, AppendParts DEF RspIn, ChanTypes
      <4>4. chan'[Len(chan) + 1] = Rsp(n, ok)
        BY <4>1, <4>2, AppendParts DEF ChanTypes
      <4> QED
        BY <4>2, <4>3, <4>4
    <3> QED
      BY <1>2, <3>1, <3>2
  <2> QED
    BY <1>0, <2>2, <2>3, <2>4 DEF AnswerOf, RspIn
<1> QED
  BY <1>1, <1>2

\* The worker reads it, copies it and completes hal_rsp_compl.
LEMMA WorkerAnswer ==
  ASSUME ChanTypes, MsgHeld, NEW n \in Serials, AnswerOf(n), ~Silent, SmdWork
  PROVE  AnswerOf(n)'
<1>0. UNCHANGED fw /\ hal_rsp_compl = 0
  BY AnswerWaited DEF SmdWork, SmdStart, SmdRead, SmdLeave, RspCopy, RspComplete,
    IndCopy, IndQueue, cmdVars
<1>1. ~IsRsp(NoMsg)
  BY DEF IsRsp, NoMsg
<1>2. CASE SmdStart \/ SmdLeave \/ IndCopy \/ IndQueue
  <2>1. /\ UNCHANGED <<chan, hal_buf, hal_rsp_compl>> /\ ~IsRsp(smd_work'.msg)
        /\ smd_work'.pc # "complete" /\ ~IsRsp(smd_work.msg)
    BY <1>1, <1>2 DEF SmdStart, SmdLeave, IndCopy, IndQueue, SmdGoto, MsgHeld, ChanTypes,
      IsRsp
  <2> QED
    BY <1>0, <2>1 DEF AnswerOf, RspIn
<1>3. CASE SmdRead
  <2>1. ~IsRsp(smd_work.msg) /\ UNCHANGED <<hal_buf, hal_rsp_compl>>
    BY <1>1, <1>3 DEF SmdRead, MsgHeld
  <2>2. CASE SmdGoto("leave", NoMsg) /\ UNCHANGED chan
    <3>1. ~IsRsp(smd_work'.msg) /\ smd_work'.pc # "complete"
      BY <1>1, <2>2 DEF SmdGoto, ChanTypes
    <3> QED
      BY <1>0, <2>1, <2>2, <3>1 DEF AnswerOf, RspIn
  <2>3. CASE SmdGoto("process", Head(chan)) /\ chan # <<>> /\ chan' = Tail(chan)
    <3>1. /\ smd_work'.msg = chan[1] /\ 1 \in DOMAIN chan /\ smd_work'.pc = "process"
          /\ \A i \in DOMAIN chan' : /\ chan'[i] = chan[i + 1] /\ i \in Nat
                                     /\ i + 1 \in DOMAIN chan /\ i + 1 # 1
      BY <2>3, TailParts DEF SmdGoto, ChanTypes
    <3>2. \A i \in RspIn(chan') : i + 1 \in RspIn(chan) /\ i + 1 # 1 /\ i \in Nat
                                  /\ chan'[i] = chan[i + 1]
      BY <3>1 DEF RspIn
    <3>3. IsRsp(smd_work'.msg) => 1 \in RspIn(chan)
      BY <3>1 DEF RspIn
    <3>4. \A i, j \in RspIn(chan') : i = j
      <4>1. \A i, j \in RspIn(chan') : i + 1 = j + 1
        BY <3>2 DEF AnswerOf
      <4> QED
        BY <3>2, <4>1
    <3>5. IsRsp(smd_work'.msg) => RspIn(chan') = {} /\ smd_work'.msg.n = n
      BY <3>1, <3>2, <3>3 DEF AnswerOf
    <3>6. RspIn(chan) = {} => RspIn(chan') = {}
      BY <3>2
    <3>7. fw # <<>> => ~IsRsp(smd_work'.msg)
      BY <3>3 DEF AnswerOf
    <3>8. \A i \in RspIn(chan') : chan'[i].n = n
      BY <3>2 DEF AnswerOf
    <3> QED
      BY <1>0, <2>1, <3>1, <3>4, <3>5, <3>6, <3>7, <3>8 DEF AnswerOf, RspIn
  <2> QED
    BY <1>3, <2>2, <2>3 DEF SmdRead
<1>4. ASSUME IsRsp(smd_work.msg)
      PROVE  fw = <<>> /\ Len(fw) = 0 /\ RspIn(chan) = {} /\ smd_work.msg.n = n
  <2>1. fw = <<>>
    BY <1>4 DEF AnswerOf
  <2> QED
    BY <1>4, <2>1 DEF AnswerOf
<1>5. CASE RspCopy
  <2>1. /\ IsRsp(smd_work.msg) /\ hal_buf' = smd_work.msg
        /\ smd_work'.msg = smd_work.msg /\ UNCHANGED <<chan, hal_rsp_compl>>
    BY <1>5 DEF RspCopy, IsRsp, SmdGoto, ChanTypes
  <2> QED
    BY <1>0, <1>4, <2>1 DEF AnswerOf, RspIn
<1>6. CASE RspComplete
  <2>1. IsRsp(smd_work.msg) /\ hal_buf = smd_work.msg
    BY <1>6 DEF RspComplete, MsgHeld, AnswerOf, IsRsp
  <2>2. /\ hal_rsp_compl' = 1 /\ UNCHANGED <<chan, hal_buf>>
        /\ ~IsRsp(smd_work'.msg) /\ smd_work'.pc = "read"
    BY <1>0, <1>1, <1>6 DEF RspComplete, SmdGoto, ChanTypes
  <2>3. (fw = <<>>)' /\ (Len(fw) = 0)' /\ (RspIn(chan) = {})'
    BY <1>0, <1>4, <2>1, <2>2 DEF RspIn
  <2>4. IsRsp(hal_buf)' /\ (hal_buf.n = n)' /\ Silent'
    BY <1>4, <2>1, <2>2, <2>3 DEF IsRsp, Silent
  <2> QED
    BY <2>2, <2>3, <2>4 DEF AnswerOf
<1> QED
  BY <1>2, <1>3, <1>5, <1>6 DEF SmdWork

LEMMA OneAnswerNext ==
  ASSUME CmdInv, ChanTypes, MsgHeld, OneAnswer, [Next]_vars
  PROVE  OneAnswer'
<1>1. CASE IndWork \/ UNCHANGED vars
  <2>1. UNCHANGED <<cmd, quiet, fw, chan, smd_work, hal_rsp_compl, hal_buf>>
    BY <1>1 DEF IndWork, IndStart, IndLock, IndHandle, cmdVars, vars
  <2> QED
    BY <2>1 DEF OneAnswer, Own, AnswerOf, Silent, RspIn
<1>2. ASSUME FwAnswer \/ FwDrop \/ FwIndicate \/ SmdWork PROVE OneAnswer'
  <2>0. UNCHANGED <<cmd, quiet>>
    BY <1>2 DEF FwAnswer, FwDrop, FwIndicate, SmdWork, SmdStart, SmdRead, SmdLeave,
      RspCopy, RspComplete, IndCopy, IndQueue, cmdVars
  <2> SUFFICES ASSUME quiet, NEW c \in Callers PROVE Own(c)'
    BY <2>0 DEF OneAnswer
  <2>1. Own(c) /\ cmd[c].n \in Serials
    BY DEF OneAnswer, CmdInv, CmdTypes
  <2>2. CASE Silent
    <3>1. Silent' /\ UNCHANGED <<hal_buf, hal_rsp_compl>>
      BY <1>2, <2>2, SilenceKept
    <3>2. AnswerOf(cmd[c].n) => AnswerOf(cmd[c].n)'
      <4>1. /\ (fw = <<>>)' /\ (Len(fw) = 0)' /\ (RspIn(chan) = {})'
            /\ ~IsRsp(smd_work.msg)'
        BY <3>1 DEF Silent
      <4>2. (smd_work.pc # "complete")'
        <5>1. MsgHeld'
          BY <1>2, MsgHeldNext DEF Next
        <5> QED
          BY <4>1, <5>1 DEF MsgHeld, IsRsp
      <4> QED
        BY <2>0, <3>1, <4>1, <4>2 DEF AnswerOf
    <3> QED
      BY <2>0, <2>1, <3>1, <3>2 DEF Own
  <2>3. CASE ~Silent
    <3>1. cmd[c].pc \notin {"init", "tx", "check"}
      BY <2>1, <2>3 DEF Own
    <3>2. AnswerOf(cmd[c].n) => AnswerOf(cmd[c].n)'
      BY <1>2, <2>0, <2>1, <2>3, FirmwareAnswer, WorkerAnswer
    <3> QED
      BY <2>0, <2>1, <3>1, <3>2 DEF Own
  <2> QED
    BY <2>2, <2>3
<1> QED
  BY <1>1, <1>2, CommandAnswer DEF Next

-----------------------------------------------------------------------------
(* Theorems.                                                               *)

LEMMA OrderInvariance == Spec => []OrderInv
<1>1. Init => OrderInv
  <2> SUFFICES ASSUME Init PROVE OrderInv
    OBVIOUS
  <2>1. MsgHeld
    BY DEF Init, MsgHeld
  <2>2. DOMAIN handled = {} /\ DOMAIN hal_ind_queue = {} /\ DOMAIN chan = {}
        /\ DOMAIN fw = {} /\ Len(fw) = 0
    BY DEF Init
  <2>3. IndOrder
    BY <2>2 DEF Init, IndOrder, Rising, Before, IsInd, NoMsg
  <2>4. OneAnswer
    BY DEF Init, OneAnswer, Own, NoCmd
  <2> QED
    BY <2>1, <2>3, <2>4 DEF OrderInv
<1>2. Inv /\ OrderInv /\ [Next]_vars => OrderInv'
  BY MsgHeldNext, IndOrderNext, OneAnswerNext DEF Inv, TypeOK, OrderInv
<1> QED
  BY <1>1, <1>2, Invariance, PTL DEF Spec

\* wcn36xx_ind_smd_work handles indications in the order in which the firmware
\* sent them, whatever is dropped for want of memory and however the two works
\* interleave.
THEOREM IndicationsInOrder == Spec => []InOrder
<1>1. OrderInv => InOrder
  BY DEF OrderInv, IndOrder, Rising, InOrder
<1> QED
  BY <1>1, OrderInvariance, PTL

\* wcn36xx_smd_send_and_wait leaves in hal_buf the response to the message it
\* sent, however slow the firmware is, if no answer to an earlier command was
\* still under way when that message was built: for any number of callers and
\* fragments, failing writes, unanswered requests, timeouts and answers that
\* come after them.
THEOREM ResponsesAreOwn == Spec => []OwnResponse
<1>1. OrderInv => OwnResponse
  BY DEF OrderInv, OneAnswer, Own, OwnResponse, IsRsp
<1> QED
  BY <1>1, OrderInvariance, PTL

\* Under the same condition hal_buf is sent as it was built: nothing is copied
\* over it (wcn36xx_smd_rsp_process does not take hal_mutex), and the answers of
\* the command itself are no danger to its own next message.
THEOREM MessagesSentAsBuilt == Spec => []SentAsBuilt
<1>1. OrderInv => SentAsBuilt
  BY DEF OrderInv, OneAnswer, Own, SentAsBuilt, BufferProtected
<1> QED
  BY <1>1, OrderInvariance, PTL
=============================================================================
