-------------------------------- MODULE Smd --------------------------------
(***************************************************************************)
(* The control path between the driver and the firmware.                   *)
(*                                                                         *)
(* Commands: every wcn36xx_smd_* request function takes hal_mutex, builds  *)
(* its message in hal_buf, sends it and waits at most HAL_MSG_TIMEOUT for  *)
(* hal_rsp_compl (wcn36xx_smd_send_and_wait), then reads the response from *)
(* the same hal_buf.  wcn36xx_smd_load_nv does so once per fragment and    *)
(* keeps the mutex in between.                                             *)
(*                                                                         *)
(* Messages from the firmware: an SMD event queues smd_work                *)
(* (wcn36xx_msm_smd_notify), which reads packets until there is none and   *)
(* passes each to wcn36xx_smd_rsp_process.  A response is copied into      *)
(* hal_buf and completes hal_rsp_compl, whoever waits.  An indication is   *)
(* copied, appended to hal_ind_queue and hal_ind_work is queued, all under *)
(* hal_ind_mutex; wcn36xx_ind_smd_work takes one indication off the queue  *)
(* and handles it under the same mutex.                                    *)
(*                                                                         *)
(* A work item is pending or not: queueing a pending one does nothing, and *)
(* it is no longer pending when its function starts.                       *)
(***************************************************************************)
EXTENDS Naturals, Sequences

CONSTANTS
  Callers,      \* threads that issue commands: mac80211, debugfs
  NoCaller,
  MaxSends,     \* bound: messages sent in a behaviour
  MaxFrags,     \* fragments of the longest command
  FwDrops,      \* the firmware may leave a request unanswered
  TxFails,      \* ctrl_ops->tx may fail: the SMD channel is full
  MaxInds,      \* bound: indications the firmware sends, numbered 1..MaxInds
  NoIndMem,     \* kmalloc may fail for the copy of an indication
  NoReadMem     \* kmalloc may fail for a packet to be read

ASSUME SmdAssumption ==
  /\ NoCaller \notin Callers
  /\ MaxSends \in Nat /\ MaxFrags \in Nat \ {0} /\ MaxInds \in Nat
  /\ {FwDrops, TxFails, NoIndMem, NoReadMem} \subseteq BOOLEAN

VARIABLES
  hal_mutex,       \* its owner
  hal_buf,         \* the message in the buffer
  hal_rsp_compl,   \* the done count of the completion
  cmd,             \* the command of each caller
  sends,           \* messages sent: the next one has number sends + 1
  fw,              \* requests at the firmware, oldest first
  chan,            \* packets in the SMD channel, oldest first
  smd_work,        \* the platform's work item, and the packet it holds
  arrived,         \* indications the firmware sent so far
  hal_ind_mutex,   \* "free" or its owner
  hal_ind_queue,   \* indications not handled yet
  hal_ind_work,    \* the driver's work item
  handled,         \* the indications handled, in order
  quiet            \* history, read by no action: when the last message was
                   \* built, no answer to an earlier one was under way

cmdVars == <<hal_mutex, cmd, sends, fw, quiet>>
indVars == <<arrived, hal_ind_mutex, hal_ind_queue, hal_ind_work, handled>>
vars == <<cmdVars, hal_buf, hal_rsp_compl, chan, smd_work, indVars>>

Serials == 0..MaxSends
Inds    == 1..MaxInds
NoMsg   == [kind |-> "none", n |-> 0, ok |-> FALSE]
Req(k)  == [kind |-> "req", n |-> k, ok |-> FALSE]
Rsp(k, ok) == [kind |-> "rsp", n |-> k, ok |-> ok]
Ind(k)  == [kind |-> "ind", n |-> k, ok |-> FALSE]
Msgs == [kind : {"none", "req", "rsp"}, n : Serials, ok : BOOLEAN]
Packets == [kind : {"rsp"}, n : Serials, ok : BOOLEAN]
             \cup [kind : {"ind"}, n : Inds, ok : {FALSE}]

Pcs == {"idle", "lock", "build", "init", "tx", "wait", "check"}
NoCmd == [pc |-> "idle", n |-> 0, left |-> 0]

Init ==
  /\ hal_mutex = NoCaller /\ hal_buf = NoMsg /\ hal_rsp_compl = 0
  /\ cmd = [c \in Callers |-> NoCmd]
  /\ sends = 0 /\ fw = <<>> /\ chan = <<>>
  /\ smd_work = [pending |-> FALSE, pc |-> "idle", msg |-> NoMsg]
  /\ arrived = 0 /\ hal_ind_mutex = "free" /\ hal_ind_queue = <<>>
  /\ hal_ind_work = [pending |-> FALSE, pc |-> "idle"]
  /\ handled = <<>>
  /\ quiet = TRUE

Goto(c, pc) == cmd' = [cmd EXCEPT ![c].pc = pc]

\* mutex_unlock and return, with whatever result.
Return(c) == /\ hal_mutex' = NoCaller
             /\ cmd' = [cmd EXCEPT ![c] = NoCmd]

-----------------------------------------------------------------------------
(* The caller.                                                             *)

CmdCall(c) ==
  /\ cmd[c].pc = "idle" /\ sends < MaxSends
  /\ \E k \in 1..MaxFrags :
       cmd' = [cmd EXCEPT ![c] = [pc |-> "lock", n |-> 0, left |-> k]]
  /\ UNCHANGED <<hal_mutex, hal_buf, hal_rsp_compl, sends, quiet, fw, chan, smd_work, indVars>>

\* Mutant: the mutex is not waited for.
CmdLockTorn(c) ==
  /\ cmd[c].pc = "lock"
  /\ hal_mutex' = c
  /\ Goto(c, "build")
  /\ UNCHANGED <<hal_buf, hal_rsp_compl, sends, quiet, fw, chan, smd_work, indVars>>

CmdLock(c) ==
  /\ cmd[c].pc = "lock" /\ hal_mutex = NoCaller
  /\ hal_mutex' = c
  /\ Goto(c, "build")
  /\ UNCHANGED <<hal_buf, hal_rsp_compl, sends, quiet, fw, chan, smd_work, indVars>>

\* An answer is on its way to hal_buf and hal_rsp_compl.
Answering == \/ fw # <<>>
             \/ \E i \in DOMAIN chan : chan[i].kind = "rsp"
             \/ smd_work.msg.kind = "rsp"

\* INIT_HAL_MSG and PREPARE_HAL_BUF.  A command that no longer fits in the
\* bound gives up.
CmdBuild(c) ==
  /\ cmd[c].pc = "build"
  /\ \/ /\ sends < MaxSends
        /\ sends' = sends + 1
        /\ hal_buf' = Req(sends + 1)
        /\ quiet' = ~Answering
        /\ cmd' = [cmd EXCEPT ![c].pc = "init", ![c].n = sends + 1]
        /\ UNCHANGED hal_mutex
     \/ /\ sends = MaxSends
        /\ Return(c) /\ UNCHANGED <<sends, quiet, hal_buf>>
  /\ UNCHANGED <<hal_rsp_compl, fw, chan, smd_work, indVars>>

CmdInit(c) ==
  /\ cmd[c].pc = "init"
  /\ hal_rsp_compl' = 0
  /\ Goto(c, "tx")
  /\ UNCHANGED <<hal_mutex, hal_buf, sends, quiet, fw, chan, smd_work, indVars>>

\* Mutant: a failed tx returns without releasing the mutex.
CmdTxKeeps(c) ==
  /\ cmd[c].pc = "tx"
  /\ \/ /\ fw' = IF hal_buf.kind = "req" THEN Append(fw, hal_buf.n) ELSE fw
        /\ Goto(c, "wait")
     \/ /\ TxFails
        /\ cmd' = [cmd EXCEPT ![c] = NoCmd] /\ UNCHANGED fw
  /\ UNCHANGED <<hal_mutex, hal_buf, hal_rsp_compl, sends, quiet, chan, smd_work, indVars>>

\* What is in hal_buf now is sent; the firmware ignores what is no request.
CmdTx(c) ==
  /\ cmd[c].pc = "tx"
  /\ \/ /\ fw' = IF hal_buf.kind = "req" THEN Append(fw, hal_buf.n) ELSE fw
        /\ Goto(c, "wait") /\ UNCHANGED hal_mutex
     \/ /\ TxFails
        /\ Return(c) /\ UNCHANGED fw
  /\ UNCHANGED <<hal_buf, hal_rsp_compl, sends, quiet, chan, smd_work, indVars>>

\* Mutant: nobody waits.
CmdNoWait(c) ==
  /\ cmd[c].pc = "wait"
  /\ hal_rsp_compl' = hal_rsp_compl - 1
  /\ Goto(c, "check")
  /\ UNCHANGED <<hal_mutex, hal_buf, sends, quiet, fw, chan, smd_work, indVars>>

CmdWake(c) ==
  /\ cmd[c].pc = "wait" /\ hal_rsp_compl > 0
  /\ hal_rsp_compl' = hal_rsp_compl - 1
  /\ Goto(c, "check")
  /\ UNCHANGED <<hal_mutex, hal_buf, sends, quiet, fw, chan, smd_work, indVars>>

\* Mutant: the mutex stays locked.
CmdTimeoutKeeps(c) ==
  /\ cmd[c].pc = "wait" /\ hal_rsp_compl = 0
  /\ cmd' = [cmd EXCEPT ![c] = NoCmd]
  /\ UNCHANGED <<hal_mutex, hal_buf, hal_rsp_compl, sends, quiet, fw, chan, smd_work, indVars>>

\* -ETIME, whether the answer will never come or is slower than HAL_MSG_TIMEOUT.
CmdTimeout(c) ==
  /\ cmd[c].pc = "wait" /\ hal_rsp_compl = 0
  /\ Return(c)
  /\ UNCHANGED <<hal_buf, hal_rsp_compl, sends, quiet, fw, chan, smd_work, indVars>>

\* wcn36xx_smd_rsp_status_check: stop at a failure and after the last
\* fragment, else build the next one.
CmdCheck(c) ==
  /\ cmd[c].pc = "check"
  /\ IF hal_buf.ok /\ cmd[c].left > 1
     THEN /\ cmd' = [cmd EXCEPT ![c].pc = "build", ![c].left = @ - 1]
          /\ UNCHANGED hal_mutex
     ELSE Return(c)
  /\ UNCHANGED <<hal_buf, hal_rsp_compl, sends, quiet, fw, chan, smd_work, indVars>>

-----------------------------------------------------------------------------
(* The firmware answers requests in order and sends indications.  With the  *)
(* packet comes SMD_EVENT_DATA: wcn36xx_msm_smd_notify queues smd_work.     *)

SmdNotifyIdle(msg) ==       \* mutant: not while the work runs
  /\ chan' = Append(chan, msg)
  /\ smd_work' = [smd_work EXCEPT !.pending = @ \/ smd_work.pc = "idle"]

SmdNotify(msg) ==
  /\ chan' = Append(chan, msg)
  /\ smd_work' = [smd_work EXCEPT !.pending = TRUE]

FwAnswer ==
  /\ fw # <<>>
  /\ \E ok \in BOOLEAN : SmdNotify(Rsp(Head(fw), ok))
  /\ fw' = Tail(fw)
  /\ UNCHANGED <<hal_mutex, hal_buf, hal_rsp_compl, cmd, sends, quiet, indVars>>

FwDrop ==
  /\ FwDrops /\ fw # <<>>
  /\ fw' = Tail(fw)
  /\ UNCHANGED <<hal_mutex, hal_buf, hal_rsp_compl, cmd, sends, quiet, chan, smd_work,
                 indVars>>

FwIndicate ==
  /\ arrived < MaxInds
  /\ arrived' = arrived + 1
  /\ SmdNotify(Ind(arrived + 1))
  /\ UNCHANGED <<cmdVars, hal_buf, hal_rsp_compl, hal_ind_mutex,
                 hal_ind_queue, hal_ind_work, handled>>

-----------------------------------------------------------------------------
(* wcn36xx_msm_smd_work and wcn36xx_smd_rsp_process, one worker.            *)

SmdGoto(pc, msg) == smd_work' = [smd_work EXCEPT !.pc = pc, !.msg = msg]

SmdStart ==
  /\ smd_work.pending /\ smd_work.pc = "idle"
  /\ smd_work' = [smd_work EXCEPT !.pending = FALSE, !.pc = "read"]
  /\ UNCHANGED <<cmdVars, hal_buf, hal_rsp_compl, chan, indVars>>

\* The loop ends when no packet is left, or leaves one behind when there is
\* no memory to read it into.
SmdRead ==
  /\ smd_work.pc = "read"
  /\ IF chan = <<>>
     THEN SmdGoto("leave", NoMsg) /\ UNCHANGED chan
     ELSE \/ /\ SmdGoto("process", Head(chan))
             /\ chan' = Tail(chan)
          \/ /\ NoReadMem
             /\ SmdGoto("leave", NoMsg) /\ UNCHANGED chan
  /\ UNCHANGED <<cmdVars, hal_buf, hal_rsp_compl, indVars>>

\* Between the last look at the channel and the return of the work function.
SmdLeave ==
  /\ smd_work.pc = "leave"
  /\ SmdGoto("idle", NoMsg)
  /\ UNCHANGED <<cmdVars, hal_buf, hal_rsp_compl, chan, indVars>>

\* A response: memcpy into hal_buf, hal_rsp_len ...
RspCopy ==
  /\ smd_work.pc = "process" /\ smd_work.msg.kind = "rsp"
  /\ hal_buf' = smd_work.msg
  /\ SmdGoto("complete", smd_work.msg)
  /\ UNCHANGED <<cmdVars, hal_rsp_compl, chan, indVars>>

\* ... then complete(), for whoever waits.
RspComplete ==
  /\ smd_work.pc = "complete"
  /\ hal_rsp_compl' = hal_rsp_compl + 1
  /\ SmdGoto("read", NoMsg)
  /\ UNCHANGED <<cmdVars, hal_buf, chan, indVars>>

\* An indication: without memory for the copy it is dropped ("FIXME: Do
\* something smarter"), else hal_ind_mutex is taken.
IndCopy ==
  /\ smd_work.pc = "process" /\ smd_work.msg.kind = "ind"
  /\ \/ /\ hal_ind_mutex = "free"
        /\ hal_ind_mutex' = "smd"
        /\ SmdGoto("add", smd_work.msg)
     \/ /\ NoIndMem
        /\ SmdGoto("read", NoMsg)
        /\ UNCHANGED hal_ind_mutex
  /\ UNCHANGED <<cmdVars, hal_buf, hal_rsp_compl, chan, arrived,
                 hal_ind_queue, hal_ind_work, handled>>

\* Mutant: list_add.
IndPush ==
  /\ smd_work.pc = "add"
  /\ hal_ind_queue' = <<smd_work.msg.n>> \o hal_ind_queue
  /\ hal_ind_work' = [hal_ind_work EXCEPT !.pending = TRUE]
  /\ hal_ind_mutex' = "free"
  /\ SmdGoto("read", NoMsg)
  /\ UNCHANGED <<cmdVars, hal_buf, hal_rsp_compl, chan, arrived, handled>>

\* list_add_tail, queue_work, mutex_unlock.
IndQueue ==
  /\ smd_work.pc = "add"
  /\ hal_ind_queue' = Append(hal_ind_queue, smd_work.msg.n)
  /\ hal_ind_work' = [hal_ind_work EXCEPT !.pending = TRUE]
  /\ hal_ind_mutex' = "free"
  /\ SmdGoto("read", NoMsg)
  /\ UNCHANGED <<cmdVars, hal_buf, hal_rsp_compl, chan, arrived, handled>>

-----------------------------------------------------------------------------
(* wcn36xx_ind_smd_work.                                                    *)

IndStart ==
  /\ hal_ind_work.pending /\ hal_ind_work.pc = "idle"
  /\ hal_ind_work' = [pending |-> FALSE, pc |-> "lock"]
  /\ UNCHANGED <<cmdVars, hal_buf, hal_rsp_compl, chan, smd_work, arrived,
                 hal_ind_mutex, hal_ind_queue, handled>>

IndLock ==
  /\ hal_ind_work.pc = "lock" /\ hal_ind_mutex = "free"
  /\ hal_ind_mutex' = "ind"
  /\ hal_ind_work' = [hal_ind_work EXCEPT !.pc = "handle"]
  /\ UNCHANGED <<cmdVars, hal_buf, hal_rsp_compl, chan, smd_work, arrived,
                 hal_ind_queue, handled>>

\* Mutant: one run handles the whole list.
IndDrain ==
  /\ hal_ind_work.pc = "handle" /\ hal_ind_queue # <<>>
  /\ handled' = handled \o hal_ind_queue
  /\ hal_ind_queue' = <<>>
  /\ hal_ind_mutex' = "free"
  /\ hal_ind_work' = [hal_ind_work EXCEPT !.pc = "idle"]
  /\ UNCHANGED <<cmdVars, hal_buf, hal_rsp_compl, chan, smd_work, arrived>>

\* list_first_entry, the handler of its type, list_del, mutex_unlock.  (On an
\* empty list list_first_entry is no entry: NeverEmpty excludes that.)
IndHandle ==
  /\ hal_ind_work.pc = "handle" /\ hal_ind_queue # <<>>
  /\ handled' = Append(handled, Head(hal_ind_queue))
  /\ hal_ind_queue' = Tail(hal_ind_queue)
  /\ hal_ind_mutex' = "free"
  /\ hal_ind_work' = [hal_ind_work EXCEPT !.pc = "idle"]
  /\ UNCHANGED <<cmdVars, hal_buf, hal_rsp_compl, chan, smd_work, arrived>>

-----------------------------------------------------------------------------
CmdStep(c) == \/ CmdLock(c) \/ CmdBuild(c) \/ CmdInit(c) \/ CmdTx(c)
              \/ CmdWake(c) \/ CmdTimeout(c) \/ CmdCheck(c)

SmdWork == \/ SmdStart \/ SmdRead \/ SmdLeave \/ RspCopy \/ RspComplete
           \/ IndCopy \/ IndQueue
IndWork == IndStart \/ IndLock \/ IndHandle

Next == \/ \E c \in Callers : CmdCall(c) \/ CmdStep(c)
        \/ FwAnswer \/ FwDrop \/ FwIndicate
        \/ SmdWork
        \/ IndWork

Spec == Init /\ [][Next]_vars

\* Threads and work items run, a mutex is handed on fairly, a wait ends with its
\* timeout.  The firmware owes nothing.
LiveSpec == /\ Spec
            /\ \A c \in Callers : SF_vars(CmdStep(c))
            /\ SF_vars(SmdWork) /\ SF_vars(IndWork)

-----------------------------------------------------------------------------
(* Properties.                                                             *)

CmdTypes ==
  /\ hal_mutex \in Callers \cup {NoCaller}
  /\ cmd \in [Callers -> [pc : Pcs, n : Serials, left : 0..MaxFrags]]
  /\ sends \in Serials /\ quiet \in BOOLEAN

ChanTypes ==
  /\ hal_buf \in Msgs /\ hal_rsp_compl \in Nat
  /\ fw \in Seq(Serials) /\ chan \in Seq(Packets) /\ arrived \in 0..MaxInds
  /\ smd_work \in [pending : BOOLEAN, msg : Packets \cup {NoMsg},
                   pc : {"idle", "read", "process", "complete", "add", "leave"}]
  /\ smd_work.pc = "add" => smd_work.msg.kind = "ind"

IndTypes ==
  /\ hal_ind_queue \in Seq(Inds) /\ handled \in Seq(Inds)
  /\ hal_ind_mutex \in {"free", "smd", "ind"}
  /\ hal_ind_work \in [pending : BOOLEAN, pc : {"idle", "lock", "handle"}]

\* Every variable keeps its type: a caller waits for a message that was sent,
\* the indication queue has nothing but indications.
TypeOK == CmdTypes /\ ChanTypes /\ IndTypes

Busy(c) == cmd[c].pc \notin {"idle", "lock"}

\* A command built while no answer to an earlier one is under way reads as its
\* response the response to what it sent, however slow answers are: only one
\* that outlives its own command's timeout (smd.c:264), and is still under way
\* when the next message is built, is taken for that of another.
OwnResponse ==
  quiet => \A c \in Callers :
    cmd[c].pc = "check" => hal_buf.kind = "rsp" /\ hal_buf.n = cmd[c].n

\* "hal_buf must be protected with  mutex" (smd.c:341): nothing overwrites it
\* between PREPARE_HAL_BUF and ctrl_ops->tx ...
BufferProtected ==
  \A c \in Callers : cmd[c].pc \in {"init", "tx"} => hal_buf = Req(cmd[c].n)

\* ... if no answer to an earlier command was under way when the message was
\* built: the firmware then gets it as it was built.
SentAsBuilt == quiet => BufferProtected

\* A command under way owns hal_mutex, and the mutex is never left locked
\* behind a return, on whatever path (smd.c: every "goto out" unlocks).
MutexOfCommand == \A c \in Callers : Busy(c) <=> hal_mutex = c

\* Every command returns, its caller being idle again and again: a silent firmware
\* costs its timeout, not a deadlock on hal_mutex.
CommandsReturn == \A c \in Callers : []<>(cmd[c].pc = "idle")

\* wcn36xx_ind_smd_work takes list_first_entry without list_empty
\* (smd.c:2272): a run of the work always finds an indication in the queue.
NeverEmpty == hal_ind_work.pc = "handle" => hal_ind_queue # <<>>

\* Indications are handled in the order the firmware sent them, none twice.
InOrder == \A i, j \in DOMAIN handled : i < j => handled[i] < handled[j]

\* The SMD channel is emptied again and again, so every packet is taken: an event
\* that comes while smd_work ends its loop starts it again (wcn36xx_msm/main.c:114, 138-159).
ChannelDrained == []<>(chan = <<>>)

\* Every queued indication is handled: each list_add_tail is followed by a
\* queue_work (smd.c:2252-2253).
QueueDrained == hal_ind_queue # <<>> ~> hal_ind_queue = <<>>
=============================================================================
