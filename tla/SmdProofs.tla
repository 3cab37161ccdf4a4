----------------------------- MODULE SmdProofs -----------------------------
(***************************************************************************)
(* Proofs about Smd, for any callers and any number of messages, however   *)
(* late the firmware answers and whatever allocation or transmission       *)
(* fails: hal_mutex belongs to the command under way, and the indication   *)
(* worker never finds its queue empty.                                     *)
(*                                                                         *)
(* NeverEmpty holds because every run of the work that is due or under way *)
(* has an indication of its own in the queue (RunsCovered): a run takes    *)
(* one, and only a list_add_tail makes another run due.                    *)
(***************************************************************************)
EXTENDS Smd, TLAPS

\* The runs of the indication work that are due or under way, and what is in
\* the queue for them.
DueRuns == (IF hal_ind_work.pending THEN 1 ELSE 0)
             + (IF hal_ind_work.pc = "idle" THEN 0 ELSE 1)
RunsCovered == DueRuns <= Len(hal_ind_queue)

CmdInv == CmdTypes /\ MutexOfCommand

-----------------------------------------------------------------------------
(* Commands.                                                               *)

\* A command that goes on keeps the mutex and stays busy.
LEMMA GotoKeeps ==
  ASSUME CmdInv, NEW c \in Callers, Busy(c), NEW pc \in Pcs \ {"idle", "lock"},
         Goto(c, pc), UNCHANGED <<hal_mutex, sends, quiet>>
  PROVE  CmdInv'
<1>1. CmdTypes'
  BY DEF CmdInv, CmdTypes, Goto
<1>2. \A d \in Callers : Busy(d)' <=> Busy(d)
  BY DEF CmdInv, CmdTypes, Goto, Busy
<1> QED
  BY <1>1, <1>2 DEF CmdInv, MutexOfCommand

\* A command that returns leaves the mutex to nobody.
LEMMA ReturnReleases ==
  ASSUME CmdInv, NEW c \in Callers, Busy(c), Return(c),
         UNCHANGED <<sends, quiet>>
  PROVE  CmdInv'
<1>1. NoCmd \in [pc : Pcs, n : Serials, left : 0..MaxFrags]
  BY SmdAssumption DEF NoCmd, Pcs, Serials
<1>2. CmdTypes'
  BY <1>1 DEF CmdInv, CmdTypes, Return
<1>3. \A d \in Callers : ~Busy(d)'
  BY DEF CmdInv, CmdTypes, MutexOfCommand, Return, Busy, NoCmd
<1>4. \A d \in Callers : hal_mutex' # d
  BY SmdAssumption DEF Return
<1> QED
  BY <1>2, <1>3, <1>4 DEF CmdInv, MutexOfCommand

LEMMA CmdInvFramed == CmdInv /\ UNCHANGED <<cmd, sends, quiet, hal_mutex>> => CmdInv'
BY DEF CmdInv, CmdTypes, MutexOfCommand, Busy

LEMMA CmdInvNext == CmdInv /\ [Next]_vars => CmdInv'
<1> SUFFICES ASSUME CmdInv, [Next]_vars PROVE CmdInv'
  OBVIOUS
<1>1. ASSUME NEW c \in Callers, CmdCall(c) PROVE CmdInv'
  <2>1. PICK k \in 1..MaxFrags :
          cmd' = [cmd EXCEPT ![c] = [pc |-> "lock", n |-> 0, left |-> k]]
    BY <1>1 DEF CmdCall
  <2>2. [pc |-> "lock", n |-> 0, left |-> k] \in [pc : Pcs, n : Serials, left : 0..MaxFrags]
    BY SmdAssumption DEF Pcs, Serials
  <2>3. CmdTypes'
    BY <1>1, <2>1, <2>2 DEF CmdCall, CmdInv, CmdTypes
  <2>4. \A d \in Callers : Busy(d)' <=> Busy(d)
    BY <1>1, <2>1 DEF CmdCall, CmdInv, CmdTypes, Busy
  <2> QED
    BY <1>1, <2>3, <2>4 DEF CmdCall, CmdInv, MutexOfCommand
<1>2. ASSUME NEW c \in Callers, CmdLock(c) PROVE CmdInv'
  <2>1. CmdTypes'
    BY <1>2 DEF CmdLock, Goto, CmdInv, CmdTypes, Pcs
  <2>2. \A d \in Callers : ~Busy(d)
    BY <1>2, SmdAssumption DEF CmdLock, CmdInv, MutexOfCommand
  <2>3. \A d \in Callers : Busy(d)' <=> d = c
    BY <1>2, <2>2 DEF CmdLock, Goto, CmdInv, CmdTypes, Busy
  <2> QED
    BY <1>2, <2>1, <2>3 DEF CmdLock, CmdInv, MutexOfCommand
<1>3. ASSUME NEW c \in Callers, CmdBuild(c) PROVE CmdInv'
  <2>0. quiet' \in BOOLEAN
    BY <1>3 DEF CmdBuild, CmdInv, CmdTypes
  <2>1. CASE sends' = sends
    BY <1>3, <2>1, ReturnReleases DEF CmdBuild, Busy, CmdInv, CmdTypes, Serials
  <2>2. CASE sends' # sends
    <3>1. /\ sends' = sends + 1 /\ sends < MaxSends /\ cmd[c].pc = "build"
          /\ cmd' = [cmd EXCEPT ![c].pc = "init", ![c].n = sends + 1]
          /\ UNCHANGED hal_mutex
      BY <1>3, <2>2 DEF CmdBuild
    <3>2. sends + 1 \in Serials
      BY <3>1, SmdAssumption DEF CmdInv, CmdTypes, Serials
    <3>3. CmdTypes'
      BY <2>0, <3>1, <3>2 DEF CmdInv, CmdTypes, Pcs
    <3>4. \A d \in Callers : Busy(d)' <=> Busy(d)
      BY <3>1 DEF CmdInv, CmdTypes, Busy
    <3> QED
      BY <3>1, <3>3, <3>4 DEF CmdInv, MutexOfCommand
  <2> QED
    BY <2>1, <2>2
<1>4. ASSUME NEW c \in Callers, CmdInit(c) \/ CmdWake(c) PROVE CmdInv'
  BY <1>4, GotoKeeps DEF CmdInit, CmdWake, Busy, Pcs
<1>5. ASSUME NEW c \in Callers, CmdTx(c) PROVE CmdInv'
  BY <1>5, GotoKeeps, ReturnReleases DEF CmdTx, Busy, Pcs
<1>6. ASSUME NEW c \in Callers, CmdTimeout(c) PROVE CmdInv'
  BY <1>6, ReturnReleases DEF CmdTimeout, Busy
<1>7. ASSUME NEW c \in Callers, CmdCheck(c) PROVE CmdInv'
  <2>1. CASE Return(c)
    BY <1>7, <2>1, ReturnReleases DEF CmdCheck, Busy
  <2>2. CASE ~Return(c)
    <3>1. /\ cmd' = [cmd EXCEPT ![c].pc = "build", ![c].left = @ - 1]
          /\ cmd[c].pc = "check" /\ cmd[c].left > 1
          /\ UNCHANGED <<hal_mutex, sends, quiet>>
      BY <1>7, <2>2 DEF CmdCheck
    <3>2. CmdTypes'
      BY <3>1, SmdAssumption DEF CmdInv, CmdTypes, Pcs
    <3>3. \A d \in Callers : Busy(d)' <=> Busy(d)
      BY <3>1 DEF CmdInv, CmdTypes, Busy
    <3> QED
      BY <3>1, <3>2, <3>3 DEF CmdInv, MutexOfCommand
  <2> QED
    BY <2>1, <2>2
<1>8. ASSUME FwAnswer \/ FwDrop \/ FwIndicate \/ SmdWork \/ IndWork \/ UNCHANGED vars
      PROVE  CmdInv'
  <2>1. UNCHANGED <<cmd, sends, quiet, hal_mutex>>
    BY <1>8 DEF FwAnswer, FwDrop, FwIndicate, SmdWork, SmdStart, SmdRead,
      SmdLeave, RspCopy, RspComplete, IndCopy, IndQueue, IndWork, IndStart,
      IndLock, IndHandle, cmdVars, vars
  <2> QED
    BY <2>1, CmdInvFramed
<1> QED
  BY <1>1, <1>2, <1>3, <1>4, <1>5, <1>6, <1>7, <1>8 DEF Next, CmdStep

\* hal_mutex is held by the command under way and by no other, and every
\* return has unlocked it (smd.c: each "out:" label), for any number of
\* callers; two commands never overlap.
THEOREM MutexIsTheCommands == Spec => []MutexOfCommand
<1>1. Init => CmdInv
  <2> SUFFICES ASSUME Init PROVE CmdInv
    OBVIOUS
  <2>1. CmdTypes
    BY SmdAssumption DEF Init, CmdTypes, NoCmd, Pcs, Serials
  <2>2. \A c \in Callers : ~Busy(c) /\ hal_mutex # c
    BY SmdAssumption DEF Init, NoCmd, Busy
  <2> QED
    BY <2>1, <2>2 DEF CmdInv, MutexOfCommand
<1>2. CmdInv => MutexOfCommand
  BY DEF CmdInv
<1> QED
  BY <1>1, <1>2, CmdInvNext, PTL DEF Spec

-----------------------------------------------------------------------------
(* Types of the messages and of the indication queue.                      *)

LEMMA ChanFramed ==
  ChanTypes /\ UNCHANGED <<hal_buf, hal_rsp_compl, fw, chan, arrived, smd_work>>
    => ChanTypes'
BY DEF ChanTypes

LEMMA IndFramed ==
  IndTypes /\ UNCHANGED <<hal_ind_queue, handled, hal_ind_mutex, hal_ind_work>>
    => IndTypes'
BY DEF IndTypes

LEMMA SeqTyped ==
  ASSUME NEW S, NEW q \in Seq(S)
  PROVE  /\ \A e \in S : Append(q, e) \in Seq(S) /\ Len(Append(q, e)) = Len(q) + 1
         /\ q # <<>> => /\ Head(q) \in S /\ Tail(q) \in Seq(S)
                        /\ Len(Tail(q)) = Len(q) - 1
OBVIOUS

LEMMA ChanTypesNext ==
  ASSUME CmdTypes, ChanTypes, [Next]_vars
  PROVE  ChanTypes'
<1>1. ASSUME NEW c \in Callers, CmdBuild(c) PROVE ChanTypes'
  <2>1. CASE UNCHANGED hal_buf
    BY <1>1, <2>1, ChanFramed DEF CmdBuild, indVars
  <2>2. CASE ~UNCHANGED hal_buf
    <3>1. hal_buf' = Req(sends + 1) /\ sends < MaxSends
      BY <1>1, <2>2 DEF CmdBuild
    <3>2. hal_buf' \in Msgs
      BY <3>1, SmdAssumption DEF Req, Msgs, CmdTypes, Serials
    <3> QED
      BY <1>1, <3>2 DEF CmdBuild, indVars, ChanTypes
  <2> QED
    BY <2>1, <2>2
<1>2. ASSUME NEW c \in Callers, CmdTx(c) PROVE ChanTypes'
  <2>1. fw' = fw \/ fw' = Append(fw, hal_buf.n)
    BY <1>2 DEF CmdTx
  <2>2. hal_buf.n \in Serials
    BY DEF ChanTypes, Msgs
  <2>3. fw' \in Seq(Serials)
    BY <2>1, <2>2, SeqTyped DEF ChanTypes
  <2> QED
    BY <1>2, <2>3 DEF CmdTx, indVars, ChanTypes
<1>3. ASSUME NEW c \in Callers, CmdInit(c) \/ CmdWake(c) PROVE ChanTypes'
  BY <1>3 DEF CmdInit, CmdWake, indVars, ChanTypes
<1>4. ASSUME NEW c \in Callers, CmdCall(c) \/ CmdLock(c) \/ CmdTimeout(c) \/ CmdCheck(c)
      PROVE  ChanTypes'
  BY <1>4, ChanFramed DEF CmdCall, CmdLock, CmdTimeout, CmdCheck, indVars
<1>5. ASSUME NEW m \in Packets, SmdNotify(m)
      PROVE  /\ chan' \in Seq(Packets)
             /\ smd_work' \in [pending : BOOLEAN, msg : Packets \cup {NoMsg},
                  pc : {"idle", "read", "process", "complete", "add", "leave"}]
             /\ smd_work'.pc = "add" => smd_work'.msg.kind = "ind"
  BY <1>5, SeqTyped DEF SmdNotify, ChanTypes
<1>6. CASE FwAnswer
  <2>1. Head(fw) \in Serials /\ Tail(fw) \in Seq(Serials)
    BY <1>6, SeqTyped DEF FwAnswer, ChanTypes
  <2>2. \A ok \in BOOLEAN : Rsp(Head(fw), ok) \in Packets
    BY <2>1 DEF Rsp, Packets
  <2>3. PICK m \in Packets : SmdNotify(m)
    BY <1>6, <2>2 DEF FwAnswer
  <2> QED
    BY <1>5, <1>6, <2>1, <2>3 DEF FwAnswer, indVars, ChanTypes
<1>7. CASE FwDrop
  <2>1. Tail(fw) \in Seq(Serials)
    BY <1>7, SeqTyped DEF FwDrop, ChanTypes
  <2> QED
    BY <1>7, <2>1 DEF FwDrop, indVars, ChanTypes
<1>8. CASE FwIndicate
  <2>1. arrived + 1 \in Inds /\ arrived' \in 0..MaxInds
    BY <1>8, SmdAssumption DEF FwIndicate, ChanTypes, Inds
  <2>2. Ind(arrived + 1) \in Packets
    BY <2>1 DEF Ind, Packets
  <2> QED
    BY <1>5, <1>8, <2>1, <2>2 DEF FwIndicate, cmdVars, ChanTypes
<1>9. ASSUME NEW pc \in {"idle", "read", "process", "complete", "leave"},
             NEW m \in Packets \cup {NoMsg}, SmdGoto(pc, m)
      PROVE  /\ smd_work' \in [pending : BOOLEAN, msg : Packets \cup {NoMsg},
                  pc : {"idle", "read", "process", "complete", "add", "leave"}]
             /\ smd_work'.pc = "add" => smd_work'.msg.kind = "ind"
  BY <1>9 DEF SmdGoto, ChanTypes
<1>10. CASE SmdStart
  BY <1>10 DEF SmdStart, cmdVars, indVars, ChanTypes
<1>11. CASE SmdRead
  <2>1. CASE SmdGoto("leave", NoMsg) /\ UNCHANGED chan
    BY <1>9, <1>11, <2>1 DEF SmdRead, cmdVars, indVars, ChanTypes
  <2>2. CASE SmdGoto("process", Head(chan)) /\ chan # <<>> /\ chan' = Tail(chan)
    <3>1. Head(chan) \in Packets /\ Tail(chan) \in Seq(Packets)
      BY <2>2, SeqTyped DEF ChanTypes
    <3> QED
      BY <1>9, <1>11, <2>2, <3>1 DEF SmdRead, cmdVars, indVars, ChanTypes
  <2> QED
    BY <1>11, <2>1, <2>2 DEF SmdRead
<1>12. CASE SmdLeave \/ RspComplete
  BY <1>9, <1>12 DEF SmdLeave, RspComplete, cmdVars, indVars, ChanTypes
<1>13. CASE RspCopy
  <2>1. smd_work.msg \in Packets /\ smd_work.msg.kind = "rsp"
    BY <1>13 DEF RspCopy, ChanTypes, NoMsg
  <2>2. smd_work.msg \in Msgs
    BY <2>1 DEF Packets, Msgs
  <2> QED
    BY <1>9, <1>13, <2>1, <2>2 DEF RspCopy, cmdVars, indVars, ChanTypes
<1>14. CASE IndCopy
  <2>1. CASE SmdGoto("read", NoMsg)
    BY <1>9, <1>14, <2>1 DEF IndCopy, cmdVars, ChanTypes
  <2>2. CASE SmdGoto("add", smd_work.msg)
    <3>1. smd_work.msg.kind = "ind"
      BY <1>14 DEF IndCopy
    <3>2. /\ smd_work' \in [pending : BOOLEAN, msg : Packets \cup {NoMsg},
                  pc : {"idle", "read", "process", "complete", "add", "leave"}]
          /\ smd_work'.msg.kind = "ind"
      BY <2>2, <3>1 DEF SmdGoto, ChanTypes
    <3> QED
      BY <1>14, <3>2 DEF IndCopy, cmdVars, ChanTypes
  <2> QED
    BY <1>14, <2>1, <2>2 DEF IndCopy
<1>15. CASE IndQueue
  BY <1>9, <1>15 DEF IndQueue, cmdVars, ChanTypes
<1>16. CASE IndWork \/ UNCHANGED vars
  BY <1>16, ChanFramed DEF IndWork, IndStart, IndLock, IndHandle, cmdVars, indVars, vars
<1> QED
  BY <1>1, <1>2, <1>3, <1>4, <1>6, <1>7, <1>8, <1>10, <1>11, <1>12, <1>13,
     <1>14, <1>15, <1>16 DEF Next, CmdStep, SmdWork

\* What the steps do to the queue and its worker.
LEMMA IndNext ==
  ASSUME ChanTypes, IndTypes, RunsCovered, [Next]_vars
  PROVE  IndTypes' /\ RunsCovered'
<1>1. CASE IndQueue
  <2>1. smd_work.msg.n \in Inds
    <3>1. smd_work.msg \in Packets /\ smd_work.msg.kind = "ind"
      BY <1>1 DEF IndQueue, ChanTypes, NoMsg
    <3> QED
      BY <3>1 DEF Packets
  <2>2. /\ hal_ind_queue' \in Seq(Inds)
        /\ Len(hal_ind_queue') = Len(hal_ind_queue) + 1
    BY <1>1, <2>1, SeqTyped DEF IndQueue, IndTypes
  <2>3. IndTypes'
    BY <1>1, <2>2 DEF IndQueue, IndTypes
  <2>4. Len(hal_ind_queue) \in Nat
    BY DEF IndTypes
  <2>5. hal_ind_work'.pc = hal_ind_work.pc
    BY <1>1 DEF IndQueue, IndTypes
  <2>6. DueRuns' <= DueRuns + 1
    BY <2>5 DEF DueRuns
  <2>7. DueRuns \in Nat /\ DueRuns' \in Nat
    BY DEF DueRuns
  <2>8. RunsCovered'
    BY <2>2, <2>4, <2>6, <2>7 DEF RunsCovered
  <2> QED
    BY <2>3, <2>8
<1>2. CASE IndCopy
  <2>1. hal_ind_mutex' \in {"free", "smd", "ind"}
    BY <1>2 DEF IndCopy, IndTypes
  <2> QED
    BY <1>2, <2>1 DEF IndCopy, IndTypes, RunsCovered, DueRuns
<1>3. CASE IndStart \/ IndLock
  <2>1. IndTypes' /\ UNCHANGED hal_ind_queue
    <3>1. CASE IndStart
      <4>1. [pending |-> FALSE, pc |-> "lock"]
              \in [pending : BOOLEAN, pc : {"idle", "lock", "handle"}]
        OBVIOUS
      <4> QED
        BY <3>1, <4>1 DEF IndStart, IndTypes
    <3>2. CASE IndLock
      BY <3>2 DEF IndLock, IndTypes
    <3> QED
      BY <1>3, <3>1, <3>2
  <2>2. DueRuns' = DueRuns
    <3>1. CASE IndStart
      <4>1. /\ hal_ind_work.pending /\ hal_ind_work.pc = "idle"
            /\ ~hal_ind_work'.pending /\ hal_ind_work'.pc = "lock"
        BY <3>1 DEF IndStart
      <4> QED
        BY <4>1 DEF DueRuns
    <3>2. CASE IndLock
      <4>1. /\ hal_ind_work'.pc = "handle" /\ hal_ind_work.pc = "lock"
            /\ hal_ind_work'.pending = hal_ind_work.pending
        BY <3>2 DEF IndLock, IndTypes
      <4> QED
        BY <4>1 DEF DueRuns
    <3> QED
      BY <1>3, <3>1, <3>2
  <2> QED
    BY <2>1, <2>2 DEF RunsCovered
<1>4. CASE IndHandle
  <2>1. /\ hal_ind_queue' \in Seq(Inds)
        /\ Len(hal_ind_queue') = Len(hal_ind_queue) - 1
        /\ handled' \in Seq(Inds)
    BY <1>4, SeqTyped DEF IndHandle, IndTypes
  <2>2. IndTypes'
    BY <1>4, <2>1 DEF IndHandle, IndTypes
  <2>3. Len(hal_ind_queue) \in Nat
    BY DEF IndTypes
  <2>4. /\ hal_ind_work.pc = "handle" /\ hal_ind_work'.pc = "idle"
        /\ hal_ind_work'.pending = hal_ind_work.pending
    BY <1>4 DEF IndHandle, IndTypes
  <2>5. DueRuns' = DueRuns - 1
    BY <2>4 DEF DueRuns
  <2>6. DueRuns \in Nat /\ DueRuns' \in Nat
    BY DEF DueRuns
  <2>7. RunsCovered'
    BY <2>1, <2>3, <2>5, <2>6 DEF RunsCovered
  <2> QED
    BY <2>2, <2>7
<1>5. ASSUME UNCHANGED <<hal_ind_queue, handled, hal_ind_mutex, hal_ind_work>>
      PROVE  IndTypes' /\ RunsCovered'
  BY <1>5, IndFramed DEF RunsCovered, DueRuns
<1>6. CASE (\E c \in Callers : CmdCall(c) \/ CmdStep(c)) \/ UNCHANGED vars
  BY <1>5, <1>6 DEF CmdCall, CmdStep, CmdLock, CmdBuild, CmdInit, CmdTx,
    CmdWake, CmdTimeout, CmdCheck, indVars, vars
<1>7. CASE FwAnswer \/ FwDrop \/ FwIndicate \/ SmdStart \/ SmdRead \/ SmdLeave
             \/ RspCopy \/ RspComplete
  BY <1>5, <1>7 DEF FwAnswer, FwDrop, FwIndicate, SmdStart, SmdRead, SmdLeave,
    RspCopy, RspComplete, indVars
<1> QED
  BY <1>1, <1>2, <1>3, <1>4, <1>6, <1>7 DEF Next, SmdWork, IndWork

LEMMA InitTyped == Init => TypeOK /\ RunsCovered /\ CmdInv
<1> SUFFICES ASSUME Init PROVE TypeOK /\ RunsCovered /\ CmdInv
  OBVIOUS
<1>1. CmdTypes
  BY SmdAssumption DEF Init, CmdTypes, NoCmd, Pcs, Serials
<1>2. ChanTypes
  BY SmdAssumption DEF Init, ChanTypes, NoMsg, Msgs, Serials
<1>3. IndTypes /\ RunsCovered
  BY DEF Init, IndTypes, RunsCovered, DueRuns
<1>4. \A c \in Callers : ~Busy(c) /\ hal_mutex # c
  BY SmdAssumption DEF Init, NoCmd, Busy
<1> QED
  BY <1>1, <1>2, <1>3, <1>4 DEF TypeOK, CmdInv, MutexOfCommand

Inv == TypeOK /\ RunsCovered /\ CmdInv

LEMMA Invariance == Spec => []Inv
<1>1. Init => Inv
  BY InitTyped DEF Inv
<1>2. Inv /\ [Next]_vars => Inv'
  BY CmdInvNext, ChanTypesNext, IndNext DEF Inv, TypeOK, CmdInv
<1> QED
  BY <1>1, <1>2, PTL DEF Spec

\* Every variable of the control path keeps its type: hal_ind_queue holds only
\* indications that arrived (smd.c:2232-2253), hal_buf a message of one of the
\* numbers sent.
THEOREM TypeCorrect == Spec => []TypeOK
<1>1. Inv => TypeOK
  BY DEF Inv
<1> QED
  BY <1>1, Invariance, PTL

\* wcn36xx_ind_smd_work never takes list_first_entry of an empty list
\* (smd.c:2272), however indications, runs of the work and lost allocations
\* interleave, and however many indications there are.
THEOREM QueueNeverEmpty == Spec => []NeverEmpty
<1>1. Inv => NeverEmpty
  <2> SUFFICES ASSUME IndTypes, RunsCovered, hal_ind_work.pc = "handle"
               PROVE  hal_ind_queue # <<>>
    BY DEF Inv, TypeOK, NeverEmpty
  <2> QED
    BY DEF RunsCovered, DueRuns, IndTypes
<1> QED
  BY <1>1, Invariance, PTL
=============================================================================
