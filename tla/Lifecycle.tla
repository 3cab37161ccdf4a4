----------------------------- MODULE Lifecycle -----------------------------
(***************************************************************************)
(* Bringing the driver up and down: probe and remove of the device, within *)
(* them wcn36xx_start with its unwinding labels and wcn36xx_stop, and      *)
(* within those the opening and closing of the SMD channel by the platform *)
(* module.  What they acquire and release is used meanwhile by the         *)
(* interrupt handlers (control blocks, RX buffers, registers) and by the   *)
(* SMD worker, which copies every response into hal_buf, also one that     *)
(* comes after its command gave up.                                        *)
(*                                                                         *)
(* A resource is "none" before its first allocation (a NULL pointer),      *)
(* "held", or "freed": no pointer is cleared when it is freed, so the next *)
(* free of it is a second one.  A probe begins with a cleared struct       *)
(* wcn36xx; the platform module's own variables outlive it.                *)
(*                                                                         *)
(* The NV image is sent in fragments of FragSize bytes; the offset into it *)
(* has OffsetRange = 2^16 values.                                          *)
(***************************************************************************)
EXTENDS Naturals, FiniteSets

CONSTANTS
  FragSize,      \* WCN36XX_NV_FRAGMENT_SIZE, 3072
  OffsetRange,   \* 2^16: fm_offset is a u16
  NvHeader,      \* bytes of the file before the table, 4
  NvSizes,       \* sizes of the file
  MaxProbes,     \* bound: calls of wcn36xx_probe
  MaxStarts,     \* bound: calls of wcn36xx_start
  MaxFaults      \* bound: allocations and commands that fail

\* The last fragment starts at an offset that a u16 can hold.  For a larger
\* file the loop of wcn36xx_smd_load_nv does not end.
ASSUME LifecycleAssumption ==
  /\ {FragSize, OffsetRange, NvHeader} \subseteq Nat \ {0}
  /\ {MaxProbes, MaxStarts, MaxFaults} \subseteq Nat
  /\ \A n \in NvSizes :
       n \in NvHeader..(NvHeader + FragSize * ((OffsetRange - 1) \div FragSize + 1))

Pools  == {"mgmt_mem_pool", "data_mem_pool"}
CtlOrder == <<"tx_l", "tx_h", "rx_l", "rx_h">>
Ctls   == {CtlOrder[k] : k \in 1..4}
Irqs   == {"tx_irq", "rx_irq"}
Wmsm   == {"msm_wq", "smd_ch"}       \* of wcn36xx_msm/main.c
Smd    == Wmsm \cup {"hal_ind_wq"}
OfStart == Pools \cup Ctls \cup Irqs \cup Smd \cup {"hal_buf", "rx_skbs"}
OfProbe == {"hw", "mmio", "nv_file"}
Resources == OfStart \cup OfProbe
Chips  == {"3660", "3680"}

VARIABLES
  drv,       \* the device: "absent", "bound", or where its removal is
  chip,      \* which chip it is, and whether its firmware is version 1.2.2.24
  wcn,       \* fw_feat_caps, as far as they tell the chip, and chip_version
  pc,        \* where start or stop is
  mem,       \* the resources
  nv,        \* load_nv: file size, fm_offset
  image,     \* what the firmware has of the NV image
  late,      \* a response is still to come for a command that timed out
  handlers,  \* interrupt handlers running
  errs,      \* what went wrong: "double_free", "use_after_free"
  failed,    \* what failed so far; "raced": a start while the device goes
  probes, starts, faults

device == <<drv, chip, wcn, probes>>
vars == <<device, pc, mem, nv, image, late, handlers, errs, failed, starts, faults>>

NoImage == [len |-> 0, ok |-> TRUE, done |-> FALSE]
NoCaps  == [caps |-> "none", chip_version |-> "3660"]

\* The old firmware is the 3660's.
Init ==
  /\ drv = "absent" /\ probes = 0 /\ wcn = NoCaps
  /\ chip \in [is : Chips, old : BOOLEAN] /\ (chip.old => chip.is = "3660")
  /\ pc = "down"
  /\ mem = [r \in Resources |-> "none"]
  /\ nv = [size |-> 0, fm_offset |-> 0] /\ image = NoImage
  /\ late = FALSE /\ handlers = {} /\ errs = {} /\ failed = {}
  /\ starts = 0 /\ faults = 0

\* kfree, dma_free_coherent and the like do nothing to a NULL pointer.
Freed(m, S) == [r \in Resources |-> IF r \in S /\ m[r] # "none" THEN "freed" ELSE m[r]]
Held(m, S)  == [r \in Resources |-> IF r \in S THEN "held" ELSE m[r]]
Doubly(m, S) == IF \E r \in S : m[r] = "freed" THEN {"double_free"} ELSE {}

\* A start is under way, or a stop.
StartPcs == {"smd_open", "pools", "ctl", "hal_buf", "nv_file", "load_nv",
             "smd_start", "caps", "update_cfg", "dxe_init", "undo_tx_irq",
             "undo_start", "free_buf", "free_pools", "free_ctl", "smd_close"}
StopPcs  == {"stop", "deinit", "stop_close", "stop_free"}

Go(next) == pc' = next
Free(S)  == mem' = Freed(mem, S) /\ errs' = errs \cup Doubly(mem, S)

Uses(S)  == errs' = errs \cup (IF \E r \in S : mem[r] # "held"
                               THEN {"use_after_free"} ELSE {})

MayFail == faults < MaxFaults
Fail(what) == failed' = failed \cup {what} /\ faults' = faults + 1
NoFail == UNCHANGED <<failed, faults>>

-----------------------------------------------------------------------------
(* wcn36xx_probe and wcn36xx_remove.                                       *)

\* A new struct wcn36xx.
Fresh(held, freed) ==
  mem' = [r \in Resources |-> CASE r \in Wmsm  -> mem[r]
                                [] r \in held  -> "held"
                                [] r \in freed -> "freed"
                                [] OTHER       -> "none"]

\* Whatever fails, what was had before is released.
wcn36xx_probe ==
  /\ drv = "absent" /\ probes < MaxProbes
  /\ probes' = probes + 1 /\ wcn' = NoCaps
  /\ \/ drv' = "bound" /\ Fresh({"hw", "mmio"}, {}) /\ NoFail
     \/ /\ MayFail /\ Fail("probe") /\ UNCHANGED drv
        /\ \E had \in {{}, {"hw"}, {"hw", "mmio"}} : Fresh({}, had)
  /\ nv' = [size |-> 0, fm_offset |-> 0]
  /\ UNCHANGED <<chip, pc, image, late, handlers, errs, starts>>

\* release_firmware and mutex_destroy, with the device still registered ...
wcn36xx_remove ==
  /\ drv = "bound" /\ drv' = "releasing"
  /\ Free({"nv_file"})
  /\ failed' = failed \cup (IF pc \in StartPcs THEN {"raced"} ELSE {})
  /\ UNCHANGED <<chip, wcn, probes, pc, nv, image, late, handlers, starts, faults>>

\* ... ieee80211_unregister_hw, which stops it ...
Unregister ==
  /\ drv = "releasing" /\ pc \in {"up", "down"}
  /\ drv' = "unregistered"
  /\ Go(IF pc = "up" THEN "stop" ELSE "down")
  /\ UNCHANGED <<chip, wcn, probes, mem, nv, image, late, handlers, errs, failed, starts, faults>>

\* ... iounmap and ieee80211_free_hw.
RemoveEnd ==
  /\ drv = "unregistered" /\ pc = "down" /\ drv' = "absent"
  /\ Free({"hw", "mmio"})
  /\ UNCHANGED <<chip, wcn, probes, pc, nv, image, late, handlers, failed, starts, faults>>

-----------------------------------------------------------------------------
(* wcn36xx_start.                                                          *)

wcn36xx_start ==
  /\ drv \in {"bound", "releasing"} /\ pc = "down" /\ starts < MaxStarts
  /\ starts' = starts + 1
  /\ image' = NoImage
  /\ failed' = failed \cup (IF drv = "releasing" THEN {"raced"} ELSE {})
  /\ Go("smd_open")
  /\ UNCHANGED <<device, mem, nv, late, handlers, errs, faults>>

\* wcn36xx_smd_open destroys its workqueue again if wcn36xx_msm_smd_open fails,
\* which undoes nothing itself.  The platform opens a channel once.  No answer
\* within the timeout (left = 0) counts as success.
SmdOpen ==
  /\ pc = "smd_open"
  /\ \/ /\ mem["smd_ch"] # "held"
        /\ mem' = Held(mem, Smd) /\ Go("pools") /\ NoFail
     \/ /\ MayFail /\ Fail("hal_ind_wq")
        /\ Go("down") /\ UNCHANGED mem
     \/ \E what \in {"msm_wq", "named_open", "interrupted"} :
          LET got == CASE what = "msm_wq" -> {}
                       [] what = "named_open" -> {"msm_wq"}
                       [] OTHER -> Wmsm
          IN
          /\ \/ MayFail /\ faults' = faults + 1
             \/ mem["smd_ch"] = "held" /\ what = "named_open" /\ UNCHANGED faults
          /\ what = "interrupted" => mem["smd_ch"] # "held"
          /\ failed' = failed \cup {what}
          /\ mem' = [Held(mem, got) EXCEPT !["hal_ind_wq"] = "freed"]
          /\ Go("down")
  /\ UNCHANGED <<device, nv, image, late, handlers, errs, starts>>

\* wcn36xx_dxe_allocate_mem_pools frees both if one cannot be had.
AllocPools ==
  /\ pc = "pools"
  /\ \/ mem' = Held(mem, Pools) /\ Go("ctl") /\ NoFail /\ UNCHANGED errs
     \/ /\ MayFail /\ Fail("pools")
        /\ \E got \in {{}, {"mgmt_mem_pool"}} :
             LET m == Held(mem, got) IN
             mem' = Freed(m, Pools) /\ errs' = errs \cup Doubly(m, Pools)
        /\ Go("smd_close")
  /\ UNCHANGED <<device, nv, image, late, handlers, starts>>

\* wcn36xx_dxe_alloc_ctl_blks: the channel that fails, with some of its blocks
\* or with none, frees its blocks (wcn36xx_dxe_allocate_ctl_block); then the
\* blocks of all channels are freed, here and again at out_free_dxe_ctl.
AllocCtls ==
  /\ pc = "ctl"
  /\ \/ mem' = Held(mem, Ctls) /\ Go("hal_buf") /\ NoFail /\ UNCHANGED errs
     \/ /\ MayFail /\ Fail("ctl")
        /\ \E k \in 1..4, some \in BOOLEAN :
             LET m == Held(mem, {CtlOrder[i] : i \in 1..(IF some THEN k ELSE k - 1)})
                 n == Freed(m, {CtlOrder[k]})
             IN /\ mem' = Freed(n, Ctls)
                /\ errs' = errs \cup Doubly(m, {CtlOrder[k]}) \cup Doubly(n, Ctls)
        /\ Go("free_pools")
  /\ UNCHANGED <<device, nv, image, late, handlers, starts>>

\* The failure jumps over the pools.
AllocHalBuf ==
  /\ pc = "hal_buf"
  /\ \/ mem' = Held(mem, {"hal_buf"}) /\ Go("nv_file") /\ NoFail
     \/ MayFail /\ Fail("hal_buf") /\ Go("free_ctl") /\ UNCHANGED mem
  /\ UNCHANGED <<device, nv, image, late, handlers, errs, starts>>

\* A command fails at once, or its response comes too late or never.
CommandFails(what) ==
  /\ MayFail
  /\ \/ Fail(what) /\ UNCHANGED late
     \/ Fail("timeout") /\ late' = TRUE

\* The file is requested once and kept until the device is removed.
RequestNv ==
  /\ pc = "nv_file"
  /\ \/ /\ mem["nv_file"] # "none" /\ Go("load_nv") /\ NoFail
        /\ nv' = [nv EXCEPT !.fm_offset = 0] /\ UNCHANGED mem
     \/ /\ mem["nv_file"] = "none"
        /\ \/ /\ mem' = Held(mem, {"nv_file"}) /\ Go("load_nv") /\ NoFail
              /\ \E n \in NvSizes : nv' = [size |-> n, fm_offset |-> 0]
           \/ MayFail /\ Fail("nv_file") /\ Go("free_buf") /\ UNCHANGED <<mem, nv>>
  /\ UNCHANGED <<device, image, late, handlers, errs, starts>>

\* What is left of the table; the fragment that is the last one.  Mutants: the
\* header is forgotten; only a full fragment ends the table.
LeftOfFile == nv.size - nv.fm_offset
Left       == nv.size - nv.fm_offset - NvHeader
EndsFull(left) == left = FragSize
IsLast(left)   == left <= FragSize

\* fm_offset is a u16.  Mutant: a wider one.
Wide(n) == n
U16(n)  == n % OffsetRange

\* One fragment of wcn36xx_smd_load_nv.  fm_offset is local to it.
LoadNv ==
  LET last == IsLast(Left)
      len  == IF last THEN Left ELSE FragSize
  IN
  /\ pc = "load_nv"
  /\ \/ /\ image' = IF image.ok /\ nv.fm_offset = image.len
                   THEN [len |-> image.len + len, ok |-> TRUE, done |-> last]
                   ELSE [len |-> 0, ok |-> FALSE, done |-> last]
        /\ nv' = [nv EXCEPT !.fm_offset = U16(@ + FragSize)]
        /\ Go(IF last THEN "smd_start" ELSE "load_nv")
        /\ NoFail /\ UNCHANGED late
     \/ /\ CommandFails("load_nv")
        /\ Go("free_buf") /\ UNCHANGED <<nv, image>>
  /\ Uses({"nv_file"})
  /\ UNCHANGED <<device, mem, handlers, starts>>

\* wcn36xx_smd_start, of a firmware that has its NV table.
SmdStart ==
  /\ pc = "smd_start"
  /\ \/ Go("caps") /\ NoFail /\ UNCHANGED late
     \/ CommandFails("smd_start") /\ Go("free_buf")
  /\ UNCHANGED <<device, mem, nv, image, handlers, errs, starts>>

\* wcn36xx_detect_chip_version, of what is in fw_feat_caps.
Detected(caps) ==
  [caps |-> caps, chip_version |-> IF caps = "3680" THEN "3680" ELSE "3660"]

\* wcn36xx_smd_feature_caps_exchange, with a firmware that knows it.  It may
\* fail or bring a response of the wrong size: the capabilities stay as they
\* are, and the start goes on.
Capabilities ==
  /\ pc = "caps" /\ Go("update_cfg")
  /\ \/ ~chip.old /\ wcn' = Detected(chip.is) /\ NoFail /\ UNCHANGED late
     \/ ~chip.old /\ CommandFails("caps") /\ wcn' = Detected(wcn.caps)
     \/ chip.old /\ wcn' = Detected(wcn.caps) /\ NoFail /\ UNCHANGED late
  /\ UNCHANGED <<drv, chip, probes, mem, nv, image, handlers, errs, starts>>

\* WCN36XX_HAL_CFG_ENABLE_MC_ADDR_LIST, whatever comes of it.
UpdateCfg ==
  /\ pc = "update_cfg" /\ Go("dxe_init")
  /\ \/ NoFail /\ UNCHANGED late
     \/ CommandFails("update_cfg")
  /\ UNCHANGED <<device, mem, nv, image, handlers, errs, starts>>

\* wcn36xx_dxe_init fails only if an interrupt cannot be had: the RX buffers
\* stay, the TX interrupt does not.
DxeInit ==
  /\ pc = "dxe_init"
  /\ \/ mem' = Held(mem, Irqs \cup {"rx_skbs"}) /\ Go("up") /\ NoFail
     \/ /\ MayFail /\ Fail("irq")
        /\ \/ mem' = Held(mem, {"rx_skbs"}) /\ Go("undo_start")
           \/ mem' = Held(mem, {"rx_skbs", "tx_irq"}) /\ Go("undo_tx_irq")
  /\ UNCHANGED <<device, nv, image, late, handlers, errs, starts>>

\* free_irq waits for the handler.
UndoTxIrq ==
  /\ pc = "undo_tx_irq" /\ "tx_irq" \notin handlers
  /\ Free({"tx_irq"}) /\ Go("undo_start")
  /\ UNCHANGED <<device, nv, image, late, handlers, failed, starts, faults>>

\* wcn36xx_smd_stop, whatever comes of it.
SmdStop ==
  /\ pc \in {"undo_start", "stop"}
  /\ Go(IF pc = "stop" THEN "deinit" ELSE "free_buf")
  /\ \/ UNCHANGED late /\ NoFail
     \/ /\ MayFail /\ faults' = faults + 1
        /\ late' = TRUE /\ UNCHANGED failed
  /\ UNCHANGED <<device, mem, nv, image, handlers, errs, starts>>

\* The labels out_free_smd_buf, out_free_dxe_pool, out_free_dxe_ctl and
\* out_smd_close: each falls into the next.
Unwind ==
  /\ \/ pc = "free_buf"   /\ Free({"hal_buf"}) /\ Go("free_pools")
     \/ pc = "free_pools" /\ Free(Pools)       /\ Go("free_ctl")
     \/ pc = "free_ctl"   /\ Free(Ctls)        /\ Go("smd_close")
  /\ UNCHANGED <<device, nv, image, late, handlers, failed, starts, faults>>

\* Mutant: hal_buf goes with the channel.
SmdCloseAll ==
  /\ pc \in {"smd_close", "stop_close"}
  /\ Free(Smd \cup {"hal_buf"})
  /\ late' = FALSE
  /\ Go(IF pc = "smd_close" THEN "down" ELSE "stop_free")
  /\ UNCHANGED <<device, nv, image, handlers, failed, starts, faults>>

\* ctrl_ops->close lets the SMD worker finish; no response comes any more.
SmdClose ==
  /\ pc \in {"smd_close", "stop_close"}
  /\ Free(Smd)
  /\ late' = FALSE
  /\ Go(IF pc = "smd_close" THEN "down" ELSE "stop_free")
  /\ UNCHANGED <<device, nv, image, handlers, failed, starts, faults>>

-----------------------------------------------------------------------------
(* wcn36xx_stop.                                                           *)

wcn36xx_stop ==
  /\ pc = "up" /\ Go("stop")
  /\ UNCHANGED <<device, mem, nv, image, late, handlers, errs, failed, starts, faults>>

\* Mutant: free_irq does not wait.
DxeDeinitNow ==
  /\ pc = "deinit"
  /\ Free(Irqs \cup {"rx_skbs"}) /\ Go("stop_close")
  /\ UNCHANGED <<device, nv, image, late, handlers, failed, starts, faults>>

\* wcn36xx_dxe_deinit.
DxeDeinit ==
  /\ pc = "deinit" /\ handlers = {}
  /\ Free(Irqs \cup {"rx_skbs"}) /\ Go("stop_close")
  /\ UNCHANGED <<device, nv, image, late, handlers, failed, starts, faults>>

StopFreeDxe ==               \* mutant: without hal_buf
  /\ pc = "stop_free"
  /\ Free(Pools \cup Ctls) /\ Go("down")
  /\ UNCHANGED <<device, nv, image, late, handlers, failed, starts, faults>>

StopFree ==
  /\ pc = "stop_free"
  /\ Free(Pools \cup Ctls \cup {"hal_buf"}) /\ Go("down")
  /\ UNCHANGED <<device, nv, image, late, handlers, failed, starts, faults>>

-----------------------------------------------------------------------------
(* The users.                                                              *)

IrqEnter(i) ==
  /\ mem[i] = "held" /\ i \notin handlers
  /\ handlers' = handlers \cup {i}
  /\ UNCHANGED <<device, pc, mem, nv, image, late, errs, failed, starts, faults>>

IrqReturn(i) ==
  /\ i \in handlers
  /\ handlers' = handlers \ {i}
  /\ Uses({"mmio"} \cup (IF i = "tx_irq" THEN {"tx_l", "tx_h"}
                         ELSE {"rx_l", "rx_h", "rx_skbs"}))
  /\ UNCHANGED <<device, pc, mem, nv, image, late, failed, starts, faults>>

\* wcn36xx_smd_rsp_process: memcpy(wcn->hal_buf, ...).
LateResponse ==
  /\ late /\ late' = FALSE
  /\ Uses({"hal_buf"})
  /\ UNCHANGED <<device, pc, mem, nv, image, handlers, failed, starts, faults>>

-----------------------------------------------------------------------------
StartStep == \/ SmdOpen \/ AllocPools \/ AllocCtls \/ AllocHalBuf \/ RequestNv
             \/ LoadNv \/ SmdStart \/ Capabilities \/ UpdateCfg \/ DxeInit
             \/ UndoTxIrq \/ SmdStop \/ Unwind \/ SmdClose
StopStep == DxeDeinit \/ StopFree

Next ==
  \/ wcn36xx_probe \/ wcn36xx_remove \/ Unregister \/ RemoveEnd
  \/ wcn36xx_start \/ StartStep
  \/ wcn36xx_stop \/ StopStep
  \/ \E i \in Irqs : IrqEnter(i) \/ IrqReturn(i)
  \/ LateResponse

Spec == Init /\ [][Next]_vars

\* The caller's thread runs on, and an interrupt handler returns.  free_irq
\* waits for the handler, so the thread may find its step enabled only now and
\* then: strong fairness.
LiveSpec == /\ Spec
            /\ SF_vars(StartStep) /\ SF_vars(StopStep)
            /\ \A i \in Irqs : WF_vars(IrqReturn(i))

-----------------------------------------------------------------------------
(* Properties.                                                             *)

\* Every variable keeps its type; fm_offset is a u16.
TypeOK ==
  /\ pc \in StartPcs \cup StopPcs \cup {"down", "up"}
  /\ mem \in [Resources -> {"none", "held", "freed"}]
  /\ nv \in [size : NvSizes \cup {0}, fm_offset : 0..(OffsetRange - 1)]
  /\ image \in [len : Nat, ok : BOOLEAN, done : BOOLEAN]
  /\ late \in BOOLEAN /\ handlers \subseteq Irqs
  /\ errs \subseteq {"double_free", "use_after_free"}
  /\ failed \subseteq {"probe", "raced", "hal_ind_wq", "msm_wq", "named_open",
                       "interrupted", "pools", "ctl", "hal_buf", "nv_file",
                       "load_nv", "smd_start", "caps", "update_cfg", "irq", "timeout"}
  /\ drv \in {"absent", "bound", "releasing", "unregistered"}
  /\ chip \in [is : Chips, old : BOOLEAN]
  /\ wcn \in [caps : Chips \cup {"none"}, chip_version : Chips]
  /\ probes \in 0..MaxProbes
  /\ starts \in 0..MaxStarts /\ faults \in 0..MaxFaults

\* The firmware is started only with the whole NV table: every fragment
\* continues where the one before ended, and the one flagged as last is the
\* end of the table (smd.c:344-379).  And the device is up only with the DXE
\* registers of its chip (dxe.c:50), unless no exchange of capabilities has
\* succeeded since the probe: then any chip is taken for a 3660 (main.c:284).
NvComplete ==
  /\ pc \in {"smd_start", "caps", "update_cfg", "dxe_init", "up"} =>
       image.ok /\ image.done /\ image.len = nv.size - NvHeader
  /\ pc = "up" /\ (failed \cap {"caps", "timeout"} = {} \/ wcn.caps # "none") =>
       wcn.chip_version = chip.is

\* Over any number of starts and stops nothing is freed twice, unless the
\* pools or the control blocks could not be allocated: those paths free what
\* dxe.c has freed already, or had freed in an earlier cycle (main.c:309-313,
\* dxe.c:73, 562).
FreedOnce == failed \cap {"pools", "ctl"} = {} => "double_free" \notin errs

\* When the driver is down it holds nothing of a start, unless hal_buf or an
\* interrupt could not be had (main.c:263, dxe.c:796) or the channel was not
\* opened (wcn36xx_msm/main.c:175, 183); and when the device is gone nothing of
\* the probe either, unless a start requested the NV file after its release.
NothingHeld ==
  /\ pc = "down" /\ failed \cap {"hal_buf", "irq", "named_open", "interrupted"} = {} =>
       \A r \in OfStart : mem[r] # "held"
  /\ drv = "absent" /\ "raced" \notin failed => \A r \in OfProbe : mem[r] # "held"

\* Interrupt handlers and the SMD worker find what they use, also during a
\* stop whose last command timed out: the channel is closed before hal_buf is
\* freed (main.c:330-336).  The unwinding of a start that failed after a
\* timeout frees hal_buf first (main.c:309, 315).  And a start finds the NV
\* file, unless it overlaps the time from its release to the unregistering
\* (main.c:1115-1118).
UsedWhileHeld ==
  failed \cap {"timeout", "irq", "raced"} = {} => "use_after_free" \notin errs

\* A start comes to an end, up or down, for every NV file the offset can address,
\* and whatever fails.
StartReturns == pc = "smd_open" ~> pc \in {"up", "down"}
=============================================================================
