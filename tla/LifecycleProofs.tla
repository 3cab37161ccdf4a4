-------------------------- MODULE LifecycleProofs --------------------------
(***************************************************************************)
(* Proofs about Lifecycle, for any number of probes, starts and failures,  *)
(* any size of fragment and any NV file that a u16 offset can address.     *)
(*                                                                         *)
(* Every resource of a start is held during a stretch of the program       *)
(* (OwnedAt): there it is held, and nowhere else, unless the failure that  *)
(* leaks it has happened (LeakedBy).  What is released is what is owned,   *)
(* so it is released once, and the handlers run where what they use is     *)
(* owned.                                                                  *)
(***************************************************************************)
EXTENDS Lifecycle, TLAPS

SetUp == {"load_nv", "smd_start", "caps", "update_cfg", "dxe_init", "undo_tx_irq",
          "undo_start", "free_buf", "up", "stop", "deinit", "stop_close"}
BufPcs  == SetUp \cup {"nv_file", "stop_free"}
PoolPcs == BufPcs \cup {"ctl", "hal_buf", "free_pools"}
CtlPcs  == BufPcs \cup {"hal_buf", "free_pools", "free_ctl"}
SmdPcs  == (PoolPcs \cup CtlPcs \cup {"pools", "smd_close"}) \ {"stop_free"}
IrqPcs  == {"up", "stop", "deinit"}

OwnedAt(r) ==
  CASE r \in Smd      -> SmdPcs
    [] r \in Pools    -> PoolPcs
    [] r \in Ctls     -> CtlPcs
    [] r = "hal_buf"  -> BufPcs
    [] r = "tx_irq"   -> IrqPcs \cup {"undo_tx_irq"}
    [] r \in {"rx_irq", "rx_skbs"} -> IrqPcs

LeakedBy(r) ==
  CASE r \in Wmsm    -> {"named_open", "interrupted"}
    [] r \in Pools   -> {"hal_buf"}
    [] r = "rx_skbs" -> {"irq"}
    [] OTHER         -> {}

\* The control blocks are freed early when they could not all be had.
CtlsGone == "ctl" \in failed /\ pc \in {"free_pools", "free_ctl"}

Owned(r) ==
  /\ pc \in OwnedAt(r) => mem[r] = "held" \/ (r \in Ctls /\ CtlsGone)
  /\ mem[r] = "held" => pc \in OwnedAt(r) \/ failed \cap LeakedBy(r) # {}
OwnersInv == \A r \in OfStart : Owned(r)

\* What a probe owns.
DeviceInv ==
  /\ drv = "absent" => pc = "down" /\ mem["hw"] # "held" /\ mem["mmio"] # "held"
  /\ drv # "absent" => mem["hw"] = "held" /\ mem["mmio"] = "held"
  /\ drv = "unregistered" => pc \in StopPcs \cup {"down"}
  /\ drv = "bound" => mem["nv_file"] # "freed"
  /\ drv # "bound" /\ "raced" \notin failed =>
       mem["nv_file"] # "held" /\ pc \notin StartPcs
  /\ pc = "load_nv" => mem["nv_file"] # "none"

UsersInv ==
  /\ \A i \in handlers : mem[i] = "held"
  /\ pc \in {"undo_tx_irq", "undo_start"} => "irq" \in failed
  /\ late /\ failed \cap {"timeout", "irq"} = {} => pc \in {"deinit", "stop_close"}

ErrsInv == FreedOnce /\ UsedWhileHeld

\* How far the table is sent.
NvInv ==
  /\ mem["nv_file"] # "none" => nv.size \in NvSizes
  /\ pc \in {"smd_open", "pools", "ctl", "hal_buf", "nv_file"} => image = NoImage
  /\ pc = "load_nv" =>
       /\ image.ok /\ image.len = nv.fm_offset
       /\ \E k \in Nat : nv.fm_offset = k * FragSize
       /\ nv.fm_offset + NvHeader <= nv.size
  /\ pc \in {"smd_start", "caps", "update_cfg", "dxe_init", "up"} =>
       image.ok /\ image.done /\ image.len = nv.size - NvHeader

ChipInv ==
  /\ chip.old => chip.is = "3660"
  /\ wcn.caps \in {"none", chip.is}
  /\ pc \in {"update_cfg", "dxe_init", "up"} =>
       /\ wcn.chip_version = Detected(wcn.caps).chip_version
       /\ wcn.caps = "none" => chip.old \/ failed \cap {"caps", "timeout"} # {}

HoldInv == OwnersInv /\ DeviceInv /\ UsersInv /\ ErrsInv
Inv == TypeOK /\ HoldInv /\ NvInv /\ ChipInv

-----------------------------------------------------------------------------
(* Resources.                                                              *)

LEMMA CtlNames == Ctls = {"tx_l", "tx_h", "rx_l", "rx_h"}
BY DEF Ctls, CtlOrder

Status == {"none", "held", "freed"}

LEMMA FreedTyped ==
  ASSUME NEW m \in [Resources -> Status], NEW S
  PROVE  /\ Freed(m, S) \in [Resources -> Status]
         /\ \A r \in Resources :
              Freed(m, S)[r] = IF r \in S /\ m[r] # "none" THEN "freed" ELSE m[r]
BY DEF Freed, Status

LEMMA HeldTyped ==
  ASSUME NEW m \in [Resources -> Status], NEW S
  PROVE  /\ Held(m, S) \in [Resources -> Status]
         /\ \A r \in Resources : Held(m, S)[r] = IF r \in S THEN "held" ELSE m[r]
BY DEF Held, Status

LEMMA FreshTyped ==
  ASSUME TypeOK, NEW S, NEW T, Fresh(S, T),
         S \cap Wmsm = {}, T \cap Wmsm = {}, S \cap T = {}
  PROVE  /\ mem' \in [Resources -> Status]
         /\ \A r \in Resources :
              mem'[r] = IF r \in Wmsm THEN mem[r] ELSE IF r \in S THEN "held"
                        ELSE IF r \in T THEN "freed" ELSE "none"
<1>1. \A r \in Resources : mem[r] \in Status
  BY DEF TypeOK, Status
<1>2. ASSUME NEW r \in Resources
      PROVE  mem'[r] = IF r \in Wmsm THEN mem[r] ELSE IF r \in S THEN "held"
                       ELSE IF r \in T THEN "freed" ELSE "none"
  BY DEF Fresh
<1>3. \A r \in Resources : mem'[r] \in Status
  BY <1>1, <1>2 DEF Status
<1>4. mem' = [r \in Resources |-> mem'[r]]
  BY DEF Fresh
<1> QED
  BY <1>2, <1>3, <1>4

\* The steps of a start or a stop that release something, and what: they
\* release what they own.
LEMMA FreeStep ==
  ASSUME TypeOK, NEW S, S \subseteq Resources, Free(S)
  PROVE  /\ mem' \in [Resources -> Status]
         /\ \A r \in Resources :
              mem'[r] = IF r \in S /\ mem[r] # "none" THEN "freed" ELSE mem[r]
         /\ errs' \subseteq {"double_free", "use_after_free"}
         /\ "use_after_free" \in errs' => "use_after_free" \in errs
         /\ (\A r \in S : mem[r] # "freed") => errs' = errs
<1>1. mem \in [Resources -> Status] /\ mem' = Freed(mem, S)
  BY DEF TypeOK, Status, Free
<1>2. errs' = errs \cup Doubly(mem, S)
  BY DEF Free
<1>3. Doubly(mem, S) \subseteq {"double_free"}
  BY DEF Doubly
<1>4. (\A r \in S : mem[r] # "freed") => Doubly(mem, S) = {}
  BY DEF Doubly
<1>5. errs \subseteq {"double_free", "use_after_free"}
  BY DEF TypeOK
<1>6. errs' \subseteq {"double_free", "use_after_free"}
  BY <1>2, <1>3, <1>5
<1>7. "use_after_free" \in errs' => "use_after_free" \in errs
  BY <1>2, <1>3
<1>8. (\A r \in S : mem[r] # "freed") => errs' = errs
  BY <1>2, <1>4
<1> QED
  BY <1>1, <1>6, <1>7, <1>8, FreedTyped

LEMMA UseStep ==
  ASSUME TypeOK, NEW S, Uses(S)
  PROVE  /\ errs' \subseteq {"double_free", "use_after_free"}
         /\ "double_free" \in errs' => "double_free" \in errs
         /\ (\A r \in S : mem[r] = "held") => errs' = errs
BY DEF Uses, TypeOK

-----------------------------------------------------------------------------
(* What the steps that allocate do to each resource.                       *)

LEMMA OpenEffect ==
  ASSUME TypeOK, SmdOpen
  PROVE  /\ pc = "smd_open" /\ failed \subseteq failed'
         /\ \/ /\ pc' = "pools" /\ \A r \in Resources : mem'[r] = IF r \in Smd THEN "held" ELSE mem[r]
            \/ pc' = "down" /\ mem' = mem
            \/ /\ pc' = "down"
               /\ \E got \in SUBSET Wmsm :
                    /\ got # {} => failed' \cap {"named_open", "interrupted"} # {}
                    /\ \A r \in Resources : mem'[r] = IF r = "hal_ind_wq" THEN "freed"
                                            ELSE IF r \in got THEN "held" ELSE mem[r]
<1>0. mem \in [Resources -> Status] /\ pc = "smd_open" /\ failed \subseteq failed'
  BY DEF TypeOK, Status, SmdOpen, NoFail, Fail
<1>1. CASE mem' = Held(mem, Smd) /\ pc' = "pools"
  BY <1>0, <1>1, HeldTyped
<1>2. CASE pc' = "down" /\ mem' = mem
  BY <1>0, <1>2
<1>3. ASSUME NEW got \in SUBSET Wmsm, pc' = "down",
             got # {} => failed' \cap {"named_open", "interrupted"} # {},
             mem' = [Held(mem, got) EXCEPT !["hal_ind_wq"] = "freed"]
      PROVE  \A r \in Resources : mem'[r] = IF r = "hal_ind_wq" THEN "freed"
                                            ELSE IF r \in got THEN "held" ELSE mem[r]
  BY <1>0, <1>3, HeldTyped
<1>4. CASE \E what \in {"msm_wq", "named_open", "interrupted"} :
             /\ failed' = failed \cup {what}
             /\ mem' = [Held(mem, CASE what = "msm_wq" -> {}
                                    [] what = "named_open" -> {"msm_wq"}
                                    [] OTHER -> Wmsm) EXCEPT !["hal_ind_wq"] = "freed"]
             /\ pc' = "down"
  <2>1. PICK what \in {"msm_wq", "named_open", "interrupted"} :
             /\ failed' = failed \cup {what}
             /\ mem' = [Held(mem, CASE what = "msm_wq" -> {}
                                    [] what = "named_open" -> {"msm_wq"}
                                    [] OTHER -> Wmsm) EXCEPT !["hal_ind_wq"] = "freed"]
    BY <1>4
  <2>2. CASE what = "msm_wq"
    BY <1>0, <1>3, <1>4, <2>1, <2>2
  <2>3. CASE what = "named_open"
    <3>1. {"msm_wq"} \in SUBSET Wmsm
      BY DEF Wmsm
    <3> QED
      BY <1>0, <1>3, <1>4, <2>1, <2>3, <3>1
  <2>4. CASE what = "interrupted"
    BY <1>0, <1>3, <1>4, <2>1, <2>4
  <2> QED
    BY <2>1, <2>2, <2>3, <2>4
<1> QED
  BY <1>0, <1>1, <1>2, <1>4 DEF SmdOpen, Go

LEMMA PoolsEffect ==
  ASSUME TypeOK, AllocPools
  PROVE  /\ pc = "pools" /\ failed \subseteq failed'
         /\ \/ /\ pc' = "ctl" /\ errs' = errs /\ failed' = failed
               /\ \A r \in Resources : mem'[r] = IF r \in Pools THEN "held" ELSE mem[r]
            \/ /\ pc' = "smd_close" /\ "pools" \in failed'
               /\ "use_after_free" \in errs' => "use_after_free" \in errs
               /\ \A r \in Resources : IF r \in Pools THEN mem'[r] # "held"
                                                      ELSE mem'[r] = mem[r]
<1>0. mem \in [Resources -> Status] /\ pc = "pools" /\ failed \subseteq failed'
  BY DEF TypeOK, Status, AllocPools, NoFail, Fail
<1>1. CASE mem' = Held(mem, Pools) /\ pc' = "ctl" /\ errs' = errs /\ failed' = failed
  BY <1>0, <1>1, HeldTyped
<1>2. ASSUME NEW got \in {{}, {"mgmt_mem_pool"}}, mem' = Freed(Held(mem, got), Pools),
             errs' = errs \cup Doubly(Held(mem, got), Pools)
      PROVE  /\ "use_after_free" \in errs' => "use_after_free" \in errs
             /\ \A r \in Resources : IF r \in Pools THEN mem'[r] # "held"
                                                    ELSE mem'[r] = mem[r]
  <2>1. Held(mem, got) \in [Resources -> Status]
    BY <1>0, HeldTyped
  <2>2. \A r \in Resources : r \notin Pools => mem'[r] = mem[r]
    BY <1>0, <1>2, <2>1, HeldTyped, FreedTyped DEF Pools
  <2>3. \A r \in Resources : r \in Pools => mem'[r] # "held"
    BY <1>2, <2>1, FreedTyped
  <2> QED
    BY <1>2, <2>2, <2>3 DEF Doubly
<1> QED
  BY <1>0, <1>1, <1>2 DEF AllocPools, NoFail, Fail, Go

LEMMA CtlsEffect ==
  ASSUME TypeOK, AllocCtls
  PROVE  /\ pc = "ctl" /\ failed \subseteq failed'
         /\ \/ /\ pc' = "hal_buf" /\ errs' = errs /\ failed' = failed
               /\ \A r \in Resources : mem'[r] = IF r \in Ctls THEN "held" ELSE mem[r]
            \/ /\ pc' = "free_pools" /\ "ctl" \in failed'
               /\ "use_after_free" \in errs' => "use_after_free" \in errs
               /\ \A r \in Resources : IF r \in Ctls THEN mem'[r] # "held"
                                                     ELSE mem'[r] = mem[r]
<1>0. mem \in [Resources -> Status] /\ pc = "ctl" /\ failed \subseteq failed'
  BY DEF TypeOK, Status, AllocCtls, NoFail, Fail
<1>1. CASE mem' = Held(mem, Ctls) /\ pc' = "hal_buf" /\ errs' = errs /\ failed' = failed
  BY <1>0, <1>1, HeldTyped
<1>2. ASSUME NEW S, S \subseteq Ctls, NEW c \in Ctls,
             mem' = Freed(Freed(Held(mem, S), {c}), Ctls)
      PROVE  \A r \in Resources : IF r \in Ctls THEN mem'[r] # "held"
                                                ELSE mem'[r] = mem[r]
  <2>1. /\ Held(mem, S) \in [Resources -> Status]
        /\ Freed(Held(mem, S), {c}) \in [Resources -> Status]
    BY <1>0, HeldTyped, FreedTyped
  <2>2. \A r \in Resources : r \notin Ctls => mem'[r] = mem[r]
    BY <1>0, <1>2, <2>1, HeldTyped, FreedTyped
  <2>3. \A r \in Resources : r \in Ctls => mem'[r] # "held"
    BY <1>2, <2>1, FreedTyped
  <2> QED
    BY <2>2, <2>3
<1>3. CASE /\ pc' = "free_pools" /\ Fail("ctl")
           /\ \E k \in 1..4, some \in BOOLEAN :
             LET m == Held(mem, {CtlOrder[i] : i \in 1..(IF some THEN k ELSE k - 1)})
                 n == Freed(m, {CtlOrder[k]})
             IN /\ mem' = Freed(n, Ctls)
                /\ errs' = errs \cup Doubly(m, {CtlOrder[k]}) \cup Doubly(n, Ctls)
  <2>1. PICK k \in 1..4, some \in BOOLEAN :
             LET m == Held(mem, {CtlOrder[i] : i \in 1..(IF some THEN k ELSE k - 1)})
                 n == Freed(m, {CtlOrder[k]})
             IN /\ mem' = Freed(n, Ctls)
                /\ errs' = errs \cup Doubly(m, {CtlOrder[k]}) \cup Doubly(n, Ctls)
    BY <1>3
  <2> DEFINE S == {CtlOrder[i] : i \in 1..(IF some THEN k ELSE k - 1)}
  <2>2. S \subseteq Ctls /\ CtlOrder[k] \in Ctls
    <3>1. 1..(IF some THEN k ELSE k - 1) \subseteq 1..4
      OBVIOUS
    <3> QED
      BY <3>1 DEF Ctls
  <2>3. mem' = Freed(Freed(Held(mem, S), {CtlOrder[k]}), Ctls)
    BY <2>1
  <2>4. "use_after_free" \in errs' => "use_after_free" \in errs
    BY <2>1 DEF Doubly
  <2> HIDE DEF S
  <2> QED
    BY <1>0, <1>2, <1>3, <2>2, <2>3, <2>4 DEF Fail
<1> QED
  BY <1>0, <1>1, <1>3 DEF AllocCtls, NoFail, Go

LEMMA InitEffect ==
  ASSUME TypeOK, DxeInit
  PROVE  /\ pc = "dxe_init" /\ failed \subseteq failed' /\ errs' = errs
         /\ \E S : /\ \A r \in Resources : mem'[r] = IF r \in S THEN "held" ELSE mem[r]
                   /\ \/ S = Irqs \cup {"rx_skbs"} /\ pc' = "up" /\ failed' = failed
                      \/ S = {"rx_skbs"} /\ pc' = "undo_start" /\ "irq" \in failed'
                      \/ S = {"rx_skbs", "tx_irq"} /\ pc' = "undo_tx_irq" /\ "irq" \in failed'
<1>0. /\ mem \in [Resources -> Status] /\ pc = "dxe_init" /\ errs' = errs
      /\ failed \subseteq failed'
  BY DEF TypeOK, Status, DxeInit, NoFail, Fail
<1>1. PICK S : /\ mem' = Held(mem, S)
               /\ \/ S = Irqs \cup {"rx_skbs"} /\ pc' = "up" /\ failed' = failed
                  \/ S = {"rx_skbs"} /\ pc' = "undo_start" /\ "irq" \in failed'
                  \/ S = {"rx_skbs", "tx_irq"} /\ pc' = "undo_tx_irq" /\ "irq" \in failed'
  BY DEF DxeInit, Go, NoFail, Fail
<1>2. \A r \in Resources : mem'[r] = IF r \in S THEN "held" ELSE mem[r]
  BY <1>0, <1>1, HeldTyped
<1> QED
  BY <1>0, <1>1, <1>2

-----------------------------------------------------------------------------
(* Types.                                                                  *)

LEMMA PcTyped ==
  ASSUME TypeOK, [Next]_vars
  PROVE  pc' \in StartPcs \cup StopPcs \cup {"down", "up"}
BY DEF TypeOK, Next, vars, device, StartPcs, StopPcs, Go, wcn36xx_probe, wcn36xx_remove,
  Unregister, RemoveEnd, wcn36xx_start, wcn36xx_stop, StartStep, StopStep, SmdOpen,
  AllocPools, AllocCtls, AllocHalBuf, RequestNv, LoadNv, SmdStart, Capabilities,
  UpdateCfg, DxeInit, UndoTxIrq, SmdStop, Unwind, SmdClose, DxeDeinit, StopFree,
  IrqEnter, IrqReturn, LateResponse

LEMMA Numbers ==
  /\ FragSize \in Nat \ {0} /\ OffsetRange \in Nat \ {0} /\ NvHeader \in Nat \ {0}
  /\ MaxProbes \in Nat /\ MaxStarts \in Nat /\ MaxFaults \in Nat
BY LifecycleAssumption

LEMMA SizesAreNumbers == NvSizes \cup {0} \subseteq Nat
<1>1. ASSUME NEW n \in NvSizes, NEW a, NEW b, a \in Nat, n \in a..b PROVE n \in Nat
  BY <1>1
<1> QED
  BY <1>1, Numbers, LifecycleAssumption

LEMMA OffsetTyped ==
  ASSUME NEW n \in Nat
  PROVE  0 \in 0..(OffsetRange - 1) /\ U16(n) \in 0..(OffsetRange - 1)
BY Numbers DEF U16

LEMMA NotFullTyped ==
  ASSUME TypeOK, NoFail \/ (MayFail /\ faults' = faults + 1)
  PROVE  faults' \in 0..MaxFaults
BY Numbers DEF TypeOK, NoFail, MayFail

\* A failure is one of those that failed may hold.
Failures == {"probe", "raced", "hal_ind_wq", "msm_wq", "named_open", "interrupted",
             "pools", "ctl", "hal_buf", "nv_file", "load_nv", "smd_start", "caps",
             "update_cfg", "irq", "timeout"}

LEMMA CommandTyped ==
  ASSUME TypeOK, NEW w \in Failures, CommandFails(w) \/ (NoFail /\ UNCHANGED late)
  PROVE  faults' \in 0..MaxFaults /\ failed' \subseteq Failures /\ late' \in BOOLEAN
BY NotFullTyped DEF TypeOK, CommandFails, Fail, NoFail, Failures

LEMMA StepTyped ==
  ASSUME TypeOK, NEW w \in Failures, (MayFail /\ Fail(w)) \/ NoFail
  PROVE  faults' \in 0..MaxFaults /\ failed' \subseteq Failures
BY NotFullTyped DEF TypeOK, Fail, NoFail, Failures

LEMMA ProbeTyped == TypeOK /\ wcn36xx_probe => TypeOK'
<1> SUFFICES ASSUME TypeOK, wcn36xx_probe PROVE TypeOK'
  OBVIOUS
<1>1. mem' \in [Resources -> Status]
  BY FreshTyped DEF wcn36xx_probe, Wmsm
<1>2. faults' \in 0..MaxFaults /\ failed' \subseteq Failures
  BY StepTyped DEF wcn36xx_probe, Failures
<1>3. /\ nv' \in [size : NvSizes \cup {0}, fm_offset : 0..(OffsetRange - 1)]
      /\ wcn' \in [caps : Chips \cup {"none"}, chip_version : Chips]
      /\ probes' \in 0..MaxProbes /\ drv' \in {"absent", "bound"}
  BY Numbers, OffsetTyped DEF TypeOK, wcn36xx_probe, NoCaps, Chips
<1> QED
  BY <1>1, <1>2, <1>3 DEF TypeOK, wcn36xx_probe, Failures, Status

LEMMA RemoveTyped ==
  ASSUME TypeOK, wcn36xx_remove \/ Unregister \/ RemoveEnd
  PROVE  TypeOK'
<1>1. mem' \in [Resources -> Status] /\ errs' \subseteq {"double_free", "use_after_free"}
  <2>1. CASE Free({"nv_file"}) \/ Free({"hw", "mmio"})
    BY <2>1, FreeStep DEF Resources, OfProbe
  <2>2. CASE UNCHANGED <<mem, errs>>
    BY <2>2 DEF TypeOK, Status
  <2> QED
    BY <2>1, <2>2 DEF wcn36xx_remove, Unregister, RemoveEnd
<1>2. pc' \in StartPcs \cup StopPcs \cup {"down", "up"}
  BY DEF TypeOK, wcn36xx_remove, Unregister, RemoveEnd, Go, StopPcs
<1>3. drv' \in {"absent", "bound", "releasing", "unregistered"}
      /\ failed' \subseteq Failures
  BY DEF TypeOK, wcn36xx_remove, Unregister, RemoveEnd, Failures
<1> QED
  BY <1>1, <1>2, <1>3 DEF TypeOK, wcn36xx_remove, Unregister, RemoveEnd, Failures, Status

\* The steps that allocate.
LEMMA AllocTyped ==
  ASSUME TypeOK, SmdOpen \/ AllocPools \/ AllocCtls \/ AllocHalBuf \/ DxeInit
  PROVE  TypeOK'
<1>0. mem \in [Resources -> Status] /\ errs \subseteq {"double_free", "use_after_free"}
  BY DEF TypeOK, Status
<1>1. pc' \in StartPcs \cup StopPcs \cup {"down", "up"}
  BY DEF SmdOpen, AllocPools, AllocCtls, AllocHalBuf, DxeInit, Go, StartPcs
<1>2. faults' \in 0..MaxFaults /\ failed' \subseteq Failures
  <2>1. CASE SmdOpen
    BY <2>1, NotFullTyped DEF TypeOK, SmdOpen, NoFail, MayFail, Fail, Failures
  <2>2. CASE AllocPools \/ AllocCtls \/ AllocHalBuf \/ DxeInit
    BY <2>2, StepTyped DEF AllocPools, AllocCtls, AllocHalBuf, DxeInit, Failures
  <2> QED
    BY <2>1, <2>2
<1>3. \A m, S : Doubly(m, S) \subseteq {"double_free"}
  BY DEF Doubly
<1>4. mem' \in [Resources -> Status]
  <2>1. CASE SmdOpen
    <3>1. PICK m \in [Resources -> Status] :
            mem' = m \/ mem' = [m EXCEPT !["hal_ind_wq"] = "freed"]
      BY <1>0, <2>1, HeldTyped DEF SmdOpen
    <3> QED
      BY <3>1 DEF Status
  <2>2. CASE AllocPools
    <3>1. CASE mem' = Held(mem, Pools)
      BY <1>0, <3>1, HeldTyped
    <3>2. ASSUME NEW got, mem' = Freed(Held(mem, got), Pools)
          PROVE  mem' \in [Resources -> Status]
      BY <1>0, <3>2, HeldTyped, FreedTyped
    <3> QED
      BY <2>2, <3>1, <3>2 DEF AllocPools
  <2>3. CASE AllocHalBuf
    <3>1. mem' = mem \/ mem' = Held(mem, {"hal_buf"})
      BY <2>3 DEF AllocHalBuf
    <3> QED
      BY <1>0, <3>1, HeldTyped
  <2>4. CASE DxeInit
    <3>1. PICK S : mem' = Held(mem, S)
      BY <2>4 DEF DxeInit
    <3> HIDE DEF Held
    <3> QED
      BY <1>0, <3>1, HeldTyped
  <2>5. CASE AllocCtls
    <3>1. CASE mem' = Held(mem, Ctls)
      BY <1>0, <3>1, HeldTyped
    <3>2. ASSUME NEW S, NEW T, mem' = Freed(Freed(Held(mem, S), T), Ctls)
          PROVE  mem' \in [Resources -> Status]
      BY <1>0, <3>2, HeldTyped, FreedTyped
    <3> QED
      BY <2>5, <3>1, <3>2 DEF AllocCtls
  <2> QED
    BY <2>1, <2>2, <2>3, <2>4, <2>5
<1>5. errs' \subseteq {"double_free", "use_after_free"}
  <2>1. CASE AllocPools
    BY <1>0, <1>3, <2>1 DEF AllocPools
  <2>2. CASE AllocCtls
    BY <1>0, <1>3, <2>2 DEF AllocCtls
  <2>3. CASE UNCHANGED errs
    BY <1>0, <2>3
  <2> QED
    BY <2>1, <2>2, <2>3 DEF SmdOpen, AllocHalBuf, DxeInit
<1>6. UNCHANGED <<device, nv, image, late, handlers, starts>>
  BY DEF SmdOpen, AllocPools, AllocCtls, AllocHalBuf, DxeInit
<1> QED
  BY <1>1, <1>2, <1>4, <1>5, <1>6 DEF TypeOK, Failures, Status, device

\* The steps that issue commands.
LEMMA CommandsTyped ==
  ASSUME TypeOK, NvInv,
         RequestNv \/ LoadNv \/ SmdStart \/ Capabilities \/ UpdateCfg \/ SmdStop
  PROVE  TypeOK'
<1>1. pc' \in StartPcs \cup StopPcs \cup {"down", "up"}
  BY DEF RequestNv, LoadNv, SmdStart, Capabilities, UpdateCfg, SmdStop, Go, StartPcs,
    StopPcs
<1>2. faults' \in 0..MaxFaults /\ failed' \subseteq Failures /\ late' \in BOOLEAN
  <2>1. CASE RequestNv
    BY <2>1, StepTyped DEF TypeOK, RequestNv, Failures
  <2>2. CASE LoadNv \/ SmdStart \/ Capabilities \/ UpdateCfg
    BY <2>2, CommandTyped DEF LoadNv, SmdStart, Capabilities, UpdateCfg, Failures
  <2>3. CASE SmdStop
    BY <2>3, NotFullTyped DEF TypeOK, SmdStop, NoFail, Failures
  <2> QED
    BY <2>1, <2>2, <2>3
<1>3. mem' \in [Resources -> Status] /\ errs' \subseteq {"double_free", "use_after_free"}
  <2>1. CASE LoadNv
    BY <2>1, UseStep DEF LoadNv, TypeOK, Status
  <2>2. CASE RequestNv
    <3>1. mem' = mem \/ mem' = Held(mem, {"nv_file"})
      BY <2>2 DEF RequestNv
    <3>2. mem \in [Resources -> Status] /\ errs' = errs
      BY <2>2 DEF RequestNv, TypeOK, Status
    <3> QED
      BY <3>1, <3>2, HeldTyped DEF TypeOK
  <2>3. CASE UNCHANGED <<mem, errs>>
    BY <2>3 DEF TypeOK, Status
  <2> QED
    BY <2>1, <2>2, <2>3 DEF SmdStart, Capabilities, UpdateCfg, SmdStop
<1>4. nv' \in [size : NvSizes \cup {0}, fm_offset : 0..(OffsetRange - 1)]
  <2>0. nv \in [size : NvSizes \cup {0}, fm_offset : 0..(OffsetRange - 1)]
    BY DEF TypeOK
  <2>1. CASE RequestNv
    BY <2>0, <2>1, OffsetTyped DEF RequestNv
  <2>2. CASE LoadNv
    <3>1. U16(nv.fm_offset + FragSize) \in 0..(OffsetRange - 1)
      BY <2>0, Numbers, OffsetTyped
    <3> QED
      BY <2>0, <2>2, <3>1 DEF LoadNv
  <2> QED
    BY <2>0, <2>1, <2>2 DEF SmdStart, Capabilities, UpdateCfg, SmdStop
<1>5. wcn' \in [caps : Chips \cup {"none"}, chip_version : Chips]
  <2>1. \A x \in Chips \cup {"none"} :
          Detected(x) \in [caps : Chips \cup {"none"}, chip_version : Chips]
    BY DEF Detected, Chips
  <2> QED
    <3>1. wcn.caps \in Chips \cup {"none"} /\ chip.is \in Chips
      BY DEF TypeOK
    <3>2. wcn' \in {wcn, Detected(wcn.caps), Detected(chip.is)}
      BY DEF RequestNv, LoadNv, SmdStart, Capabilities, UpdateCfg, SmdStop, device
    <3> QED
      BY <2>1, <3>1, <3>2 DEF TypeOK
<1>6. UNCHANGED <<drv, chip, probes, handlers, starts>>
  BY DEF RequestNv, LoadNv, SmdStart, Capabilities, UpdateCfg, SmdStop, device
<1>7. image' \in [len : Nat, ok : BOOLEAN, done : BOOLEAN]
  <2>1. CASE LoadNv
    <3>1. /\ pc = "load_nv" /\ nv.size \in Nat /\ nv.fm_offset \in Nat
          /\ image.len = nv.fm_offset /\ nv.fm_offset + NvHeader <= nv.size
          /\ image.len \in Nat
      BY <2>1, Numbers, SizesAreNumbers DEF LoadNv, NvInv, TypeOK
    <3>2. Left \in Nat /\ IsLast(Left) \in BOOLEAN
      BY <3>1, Numbers DEF Left, IsLast
    <3>3. (IF IsLast(Left) THEN Left ELSE FragSize) \in Nat
      BY <3>2, Numbers
    <3> QED
      <4> DEFINE len == IF IsLast(Left) THEN Left ELSE FragSize
      <4>1. image.len + len \in Nat
        BY <3>1, <3>3
      <4>2. \/ image' = [len |-> image.len + len, ok |-> TRUE, done |-> IsLast(Left)]
            \/ image' = [len |-> 0, ok |-> FALSE, done |-> IsLast(Left)]
            \/ image' = image
        BY <2>1 DEF LoadNv
      <4>3. image \in [len : Nat, ok : BOOLEAN, done : BOOLEAN]
        BY DEF TypeOK
      <4>4. \A n \in Nat, a, b \in BOOLEAN :
              [len |-> n, ok |-> a, done |-> b] \in [len : Nat, ok : BOOLEAN, done : BOOLEAN]
        OBVIOUS
      <4> HIDE DEF len
      <4>5. CASE image' = image
        BY <4>3, <4>5
      <4>6. CASE image' = [len |-> image.len + len, ok |-> TRUE, done |-> IsLast(Left)]
        BY <3>2, <4>1, <4>4, <4>6
      <4>7. CASE image' = [len |-> 0, ok |-> FALSE, done |-> IsLast(Left)]
        BY <3>2, <4>4, <4>7
      <4> QED
        BY <4>2, <4>5, <4>6, <4>7
  <2>2. CASE UNCHANGED image
    BY <2>2 DEF TypeOK
  <2> QED
    BY <2>1, <2>2 DEF RequestNv, SmdStart, Capabilities, UpdateCfg, SmdStop
<1> QED
  BY <1>1, <1>2, <1>3, <1>4, <1>5, <1>6, <1>7 DEF TypeOK, Failures, Status

\* The steps that release, and the users.
LEMMA ReleaseTyped ==
  ASSUME TypeOK, UndoTxIrq \/ Unwind \/ SmdClose \/ DxeDeinit \/ StopFree
  PROVE  TypeOK'
<1>1. \E S : S \subseteq Resources /\ Free(S)
  <2>1. /\ {"tx_irq"} \subseteq Resources /\ {"hal_buf"} \subseteq Resources
        /\ Pools \subseteq Resources /\ Ctls \subseteq Resources /\ Smd \subseteq Resources
        /\ Irqs \cup {"rx_skbs"} \subseteq Resources
        /\ Pools \cup Ctls \cup {"hal_buf"} \subseteq Resources
    BY DEF Resources, OfStart, Irqs
  <2> QED
    BY <2>1 DEF UndoTxIrq, Unwind, SmdClose, DxeDeinit, StopFree
<1>2. mem' \in [Resources -> Status] /\ errs' \subseteq {"double_free", "use_after_free"}
  BY <1>1, FreeStep
<1>3. pc' \in StartPcs \cup StopPcs \cup {"down", "up"} /\ late' \in BOOLEAN
  BY DEF TypeOK, UndoTxIrq, Unwind, SmdClose, DxeDeinit, StopFree, Go, StartPcs, StopPcs
<1>4. UNCHANGED <<device, nv, image, handlers, failed, starts, faults>>
  BY DEF UndoTxIrq, Unwind, SmdClose, DxeDeinit, StopFree
<1> QED
  BY <1>2, <1>3, <1>4 DEF TypeOK, Status, device

LEMMA UsersTyped ==
  ASSUME TypeOK, LateResponse \/ (\E i \in Irqs : IrqEnter(i) \/ IrqReturn(i))
  PROVE  TypeOK'
<1>1. errs' \subseteq {"double_free", "use_after_free"}
  <2>1. CASE UNCHANGED errs
    BY <2>1 DEF TypeOK
  <2>2. CASE \E S : Uses(S)
    BY <2>2, UseStep
  <2> QED
    BY <2>1, <2>2 DEF LateResponse, IrqEnter, IrqReturn
<1>2. handlers' \subseteq Irqs /\ late' \in BOOLEAN
  BY DEF TypeOK, LateResponse, IrqEnter, IrqReturn
<1>3. UNCHANGED <<device, pc, mem, nv, image, failed, starts, faults>>
  BY DEF LateResponse, IrqEnter, IrqReturn
<1> QED
  BY <1>1, <1>2, <1>3 DEF TypeOK, device

LEMMA TypeNext == TypeOK /\ NvInv /\ [Next]_vars => TypeOK'
<1> SUFFICES ASSUME TypeOK, NvInv, [Next]_vars PROVE TypeOK'
  OBVIOUS
<1>1. CASE wcn36xx_start
  BY <1>1, Numbers DEF TypeOK, wcn36xx_start, device, NoImage, Go, StartPcs
<1>2. CASE wcn36xx_stop
  BY <1>2 DEF TypeOK, wcn36xx_stop, device, Go, StopPcs
<1>3. CASE UNCHANGED vars
  BY <1>3 DEF TypeOK, vars, device
<1> QED
  BY <1>1, <1>2, <1>3, ProbeTyped, RemoveTyped, AllocTyped, CommandsTyped, ReleaseTyped,
    UsersTyped DEF Next, StartStep, StopStep

-----------------------------------------------------------------------------
(* The NV table and the chip.                                              *)

\* The last fragment of the longest file that the offset can address starts
\* where a u16 still holds it.
LEMMA NoWrap ==
  ASSUME NEW k \in Nat, NEW size \in NvSizes,
         k * FragSize + NvHeader + FragSize < size
  PROVE  (k + 1) * FragSize < OffsetRange
<1> DEFINE q == (OffsetRange - 1) \div FragSize
<1>1. q \in Nat /\ q * FragSize <= OffsetRange - 1
  BY Numbers
<1>2. size <= NvHeader + FragSize * (q + 1) /\ size \in Nat
  BY LifecycleAssumption, SizesAreNumbers
<1> HIDE DEF q
<1>3. FragSize * (q + 1) = q * FragSize + FragSize
  BY <1>1, Numbers
<1>4. k * FragSize < q * FragSize /\ k * FragSize \in Nat
  BY <1>1, <1>2, <1>3, Numbers
<1>5. k < q
  BY <1>1, <1>4, Numbers
<1>6. (k + 1) * FragSize <= q * FragSize
  BY <1>1, <1>5, Numbers
<1> QED
  BY <1>1, <1>6, Numbers

LEMMA LoadNvInv ==
  ASSUME TypeOK, NvInv, LoadNv
  PROVE  NvInv'
<1>1. /\ pc = "load_nv" /\ image.ok /\ image.len = nv.fm_offset
      /\ nv.fm_offset + NvHeader <= nv.size /\ mem' = mem
  BY DEF LoadNv, NvInv
<1>2. PICK k \in Nat : nv.fm_offset = k * FragSize
  BY <1>1 DEF NvInv
<1>3. nv.size \in Nat /\ nv.fm_offset \in Nat /\ image.len \in Nat
  BY SizesAreNumbers, Numbers DEF TypeOK
<1>4. CASE UNCHANGED <<nv, image>> /\ pc' = "free_buf"
  BY <1>1, <1>4 DEF NvInv
<1>5. CASE /\ nv' = [nv EXCEPT !.fm_offset = U16(@ + FragSize)]
           /\ IsLast(Left)
           /\ image' = [len |-> image.len + Left, ok |-> TRUE, done |-> TRUE]
           /\ pc' = "smd_start"
  <2>1. image.len + Left = nv.size - NvHeader /\ nv'.size = nv.size
    BY <1>1, <1>3, <1>5, Numbers DEF Left, TypeOK
  <2> QED
    BY <1>1, <1>5, <2>1 DEF NvInv
<1>6. CASE /\ nv' = [nv EXCEPT !.fm_offset = U16(@ + FragSize)]
           /\ ~IsLast(Left)
           /\ image' = [len |-> image.len + FragSize, ok |-> TRUE, done |-> FALSE]
           /\ pc' = "load_nv"
  <2>1. nv.fm_offset + FragSize + NvHeader < nv.size
    BY <1>1, <1>3, <1>6, Numbers DEF Left, IsLast
  <2>2. mem["nv_file"] # "none" => nv.size \in NvSizes
    BY DEF NvInv
  <2>3. nv.size \in NvSizes
    BY <2>1, <1>3, Numbers DEF TypeOK
  <2>4. nv.fm_offset + FragSize = (k + 1) * FragSize
    BY <1>2, Numbers
  <2>5. (k + 1) * FragSize < OffsetRange
    BY <1>2, <1>3, <2>1, <2>3, NoWrap, Numbers
  <2>6. U16(nv.fm_offset + FragSize) = nv.fm_offset + FragSize
    BY <1>3, <2>4, <2>5, Numbers DEF U16
  <2>7. nv'.fm_offset = nv.fm_offset + FragSize /\ nv'.size = nv.size
    BY <1>6, <2>6 DEF TypeOK
  <2>8. \E j \in Nat : nv'.fm_offset = j * FragSize
    BY <2>4, <2>7
  <2> QED
    BY <1>1, <1>3, <1>6, <2>1, <2>2, <2>7, <2>8, Numbers DEF NvInv
<1>7. IsLast(Left) \in BOOLEAN
  BY DEF IsLast
<1> QED
  BY <1>1, <1>4, <1>5, <1>6, <1>7 DEF LoadNv, Go

\* No other step changes what is sent.
LEMMA NvNext == TypeOK /\ NvInv /\ DeviceInv /\ [Next]_vars => NvInv'
<1> SUFFICES ASSUME TypeOK, NvInv, DeviceInv, [Next]_vars PROVE NvInv'
  OBVIOUS
<1>1. CASE RequestNv
  <2>1. /\ pc = "nv_file" /\ image = NoImage /\ image' = NoImage
        /\ pc' \in {"load_nv", "free_buf"}
    BY <1>1 DEF RequestNv, NvInv, Go
  <2>2. \A n \in NvSizes : n \in Nat /\ NvHeader <= n
    BY SizesAreNumbers, Numbers, LifecycleAssumption
  <2>3. CASE pc' = "load_nv"
    <3>1. nv'.size \in NvSizes /\ nv'.fm_offset = 0
      BY <1>1, <2>1, <2>3 DEF RequestNv, NvInv, TypeOK, Go
    <3>2. 0 = 0 * FragSize
      BY Numbers
    <3> QED
      BY <2>1, <2>2, <2>3, <3>1, <3>2, Numbers DEF NvInv, NoImage
  <2>4. CASE pc' = "free_buf"
    BY <1>1, <2>1, <2>4 DEF RequestNv, NvInv, Go
  <2> QED
    BY <2>1, <2>3, <2>4
<1>2. CASE wcn36xx_probe
  <2>1. pc = "down" /\ pc' = "down"
    BY <1>2 DEF wcn36xx_probe, DeviceInv
  <2>2. mem'["nv_file"] = "none"
    BY <1>2, FreshTyped DEF wcn36xx_probe, Wmsm, Resources, OfProbe
  <2> QED
    BY <2>1, <2>2 DEF NvInv
<1>3. CASE wcn36xx_start
  BY <1>3 DEF wcn36xx_start, NvInv, Go
<1>4. ASSUME UNCHANGED <<nv, image>>, mem'["nv_file"] # "none" => mem["nv_file"] # "none",
             \/ pc' = pc
             \/ /\ pc' \in {"smd_open", "pools", "ctl", "hal_buf", "nv_file"}
                /\ pc \in {"smd_open", "pools", "ctl", "hal_buf", "nv_file"}
             \/ /\ pc' \in {"smd_start", "caps", "update_cfg", "dxe_init", "up"}
                /\ pc \in {"smd_start", "caps", "update_cfg", "dxe_init", "up"}
             \/ pc' \in StopPcs \cup {"down", "undo_tx_irq", "undo_start", "free_buf",
                                      "free_pools", "free_ctl", "smd_close"}
      PROVE  NvInv'
  BY <1>4 DEF NvInv, StopPcs
<1>5. "nv_file" \in Resources /\ "nv_file" \notin OfStart
  BY DEF Resources, OfProbe, OfStart, Smd, Wmsm, Pools, Irqs, Ctls, CtlOrder
<1>6. mem \in [Resources -> Status]
  BY DEF TypeOK, Status
<1>7. CASE SmdOpen \/ AllocPools \/ AllocCtls \/ AllocHalBuf \/ DxeInit
  <2>1. UNCHANGED <<nv, image>>
    BY <1>7 DEF SmdOpen, AllocPools, AllocCtls, AllocHalBuf, DxeInit
  <2>2. /\ "nv_file" \notin Smd \cup Wmsm \cup Pools \cup Ctls \cup Irqs
        /\ "hal_ind_wq" # "nv_file"
    BY CtlNames DEF Smd, Wmsm, Pools, Irqs
  <2>3. CASE SmdOpen
    BY <1>4, <1>5, <2>1, <2>2, <2>3, OpenEffect
  <2>4. CASE AllocPools
    BY <1>4, <1>5, <2>1, <2>2, <2>4, PoolsEffect
  <2>5. CASE AllocCtls
    BY <1>4, <1>5, <2>1, <2>2, <2>5, CtlsEffect
  <2>6. CASE AllocHalBuf
    <3>1. mem' = mem \/ mem' = Held(mem, {"hal_buf"})
      BY <2>6 DEF AllocHalBuf
    <3>2. mem'["nv_file"] = mem["nv_file"]
      BY <1>5, <1>6, <3>1, HeldTyped
    <3> QED
      BY <1>4, <2>1, <2>6, <3>2 DEF AllocHalBuf, Go
  <2>7. CASE DxeInit
    <3>1. mem'["nv_file"] = mem["nv_file"]
      BY <1>5, <2>2, <2>7, InitEffect
    <3> QED
      BY <1>4, <2>1, <2>7, <3>1, InitEffect
  <2> QED
    BY <1>7, <2>3, <2>4, <2>5, <2>6, <2>7
<1>8. CASE SmdStart \/ Capabilities \/ UpdateCfg \/ SmdStop
  BY <1>4, <1>8 DEF SmdStart, Capabilities, UpdateCfg, SmdStop, Go, StopPcs
<1>9. ASSUME NEW S, S \subseteq Resources, Free(S)
      PROVE  mem'["nv_file"] # "none" => mem["nv_file"] # "none"
  BY <1>5, <1>9, FreeStep
<1>10. CASE UndoTxIrq \/ Unwind \/ SmdClose \/ DxeDeinit \/ StopFree
  <2>1. PICK S : S \subseteq Resources /\ Free(S)
    <3>1. /\ {"tx_irq"} \subseteq Resources /\ {"hal_buf"} \subseteq Resources
          /\ Pools \subseteq Resources /\ Ctls \subseteq Resources /\ Smd \subseteq Resources
          /\ Irqs \cup {"rx_skbs"} \subseteq Resources
          /\ Pools \cup Ctls \cup {"hal_buf"} \subseteq Resources
      BY DEF Resources, OfStart, Irqs
    <3> QED
      BY <1>10, <3>1 DEF UndoTxIrq, Unwind, SmdClose, DxeDeinit, StopFree
  <2>2. mem'["nv_file"] # "none" => mem["nv_file"] # "none"
    BY <1>9, <2>1
  <2> QED
    BY <1>4, <1>10, <2>2 DEF UndoTxIrq, Unwind, SmdClose, DxeDeinit, StopFree, Go, StopPcs
<1>11. CASE wcn36xx_remove \/ Unregister \/ RemoveEnd
  <2>1. mem'["nv_file"] # "none" => mem["nv_file"] # "none"
    <3>1. {"nv_file"} \subseteq Resources /\ {"hw", "mmio"} \subseteq Resources
      BY DEF Resources, OfProbe
    <3> QED
      BY <1>9, <1>11, <3>1 DEF wcn36xx_remove, Unregister, RemoveEnd
  <2> QED
    BY <1>4, <1>11, <2>1 DEF wcn36xx_remove, Unregister, RemoveEnd, Go, StopPcs
<1>12. CASE LateResponse \/ (\E i \in Irqs : IrqEnter(i) \/ IrqReturn(i)) \/ wcn36xx_stop
              \/ UNCHANGED vars
  BY <1>4, <1>12 DEF LateResponse, IrqEnter, IrqReturn, wcn36xx_stop, vars, Go, StopPcs
<1> QED
  BY <1>1, <1>2, <1>3, <1>7, <1>8, <1>10, <1>11, <1>12, LoadNvInv DEF Next, StartStep, StopStep

LEMMA ChipNext == TypeOK /\ ChipInv /\ DeviceInv /\ [Next]_vars => ChipInv'
<1> SUFFICES ASSUME TypeOK, ChipInv, DeviceInv, [Next]_vars PROVE ChipInv'
  OBVIOUS
<1>0. chip' = chip /\ chip.old \in BOOLEAN /\ chip.is \in Chips /\ chip.is # "none"
  BY DEF TypeOK, Chips, Next, vars, device, wcn36xx_probe, wcn36xx_remove, Unregister,
    RemoveEnd, wcn36xx_start, wcn36xx_stop, StartStep, StopStep, SmdOpen, AllocPools,
    AllocCtls, AllocHalBuf, RequestNv, LoadNv, SmdStart, Capabilities, UpdateCfg, DxeInit,
    UndoTxIrq, SmdStop, Unwind, SmdClose, DxeDeinit, StopFree, IrqEnter, IrqReturn,
    LateResponse
<1>1. CASE Capabilities
  <2>1. \A x : /\ Detected(x).caps = x
               /\ Detected(Detected(x).caps).chip_version = Detected(x).chip_version
    BY DEF Detected
  <2>2. CASE wcn' = Detected(chip.is)
    BY <1>0, <1>1, <2>1, <2>2 DEF ChipInv
  <2>3. CASE wcn' = Detected(wcn.caps) /\ chip.old
    BY <1>0, <1>1, <2>1, <2>3 DEF ChipInv
  <2>4. CASE wcn' = Detected(wcn.caps) /\ CommandFails("caps")
    BY <1>0, <1>1, <2>1, <2>4 DEF ChipInv, CommandFails, Fail
  <2> QED
    BY <1>1, <2>2, <2>3, <2>4 DEF Capabilities
<1>2. CASE wcn36xx_probe
  <2>1. pc' = "down" /\ wcn'.caps = "none"
    BY <1>2 DEF wcn36xx_probe, DeviceInv, NoCaps
  <2> QED
    BY <1>0, <2>1 DEF ChipInv
<1>3. ASSUME wcn' = wcn, failed \subseteq failed',
             pc' \in {"update_cfg", "dxe_init", "up"} => pc \in {"update_cfg", "dxe_init", "up"}
      PROVE  ChipInv'
  BY <1>0, <1>3 DEF ChipInv
<1>4. CASE SmdOpen \/ AllocPools \/ AllocCtls \/ AllocHalBuf \/ DxeInit
  BY <1>3, <1>4 DEF SmdOpen, AllocPools, AllocCtls, AllocHalBuf, DxeInit, Go, Fail, NoFail,
    device
<1>5. CASE RequestNv \/ LoadNv \/ SmdStart \/ UpdateCfg \/ SmdStop
  BY <1>3, <1>5 DEF RequestNv, LoadNv, SmdStart, UpdateCfg, SmdStop, CommandFails, Go, Fail,
    NoFail, device
<1>6. CASE UndoTxIrq \/ Unwind \/ SmdClose \/ DxeDeinit \/ StopFree
  BY <1>3, <1>6 DEF UndoTxIrq, Unwind, SmdClose, DxeDeinit, StopFree, Go, device
<1>7. CASE wcn36xx_remove \/ Unregister \/ RemoveEnd
  BY <1>3, <1>7 DEF wcn36xx_remove, Unregister, RemoveEnd, Go
<1>8. CASE LateResponse \/ (\E i \in Irqs : IrqEnter(i) \/ IrqReturn(i)) \/ wcn36xx_start
             \/ wcn36xx_stop \/ UNCHANGED vars
  BY <1>3, <1>8 DEF LateResponse, IrqEnter, IrqReturn, wcn36xx_start, wcn36xx_stop, vars, Go,
    device
<1> QED
  BY <1>1, <1>2, <1>4, <1>5, <1>6, <1>7, <1>8 DEF Next, StartStep, StopStep

-----------------------------------------------------------------------------
(* What is owned, and where.                                               *)

LEMMA OwnedAtIs ==
  ASSUME NEW r \in OfStart, NEW p
  PROVE  p \in OwnedAt(r) <=>
           \/ r \in Smd /\ p \in SmdPcs
           \/ r \in Pools /\ p \in PoolPcs
           \/ r \in Ctls /\ p \in CtlPcs
           \/ r = "hal_buf" /\ p \in BufPcs
           \/ r = "tx_irq" /\ p \in IrqPcs \cup {"undo_tx_irq"}
           \/ r \in {"rx_irq", "rx_skbs"} /\ p \in IrqPcs
BY CtlNames DEF OwnedAt, OfStart, Irqs, Pools, Smd, Wmsm

LEMMA LeakedIs ==
  ASSUME NEW r \in OfStart, NEW F
  PROVE  F \cap LeakedBy(r) # {} <=>
           \/ r \in Wmsm /\ ("named_open" \in F \/ "interrupted" \in F)
           \/ r \in Pools /\ "hal_buf" \in F
           \/ r = "rx_skbs" /\ "irq" \in F
BY CtlNames DEF LeakedBy, OfStart, Irqs, Pools, Smd, Wmsm

\* No resource is of two kinds.
LEMMA KindsApart ==
  ASSUME NEW r \in OfStart
  PROVE  /\ r \in Resources /\ r \notin {"hw", "mmio", "nv_file"}
         /\ r \in Smd \/ r \in Pools \/ r \in Ctls \/ r \in {"hal_buf", "tx_irq", "rx_irq", "rx_skbs"}
         /\ r \in Smd => r \notin Pools \cup Ctls \cup {"hal_buf", "tx_irq", "rx_irq", "rx_skbs"}
         /\ r \in Pools => r \notin Ctls \cup {"hal_buf", "tx_irq", "rx_irq", "rx_skbs"}
         /\ r \in Ctls => r \notin {"hal_buf", "tx_irq", "rx_irq", "rx_skbs"}
         /\ r \in Smd <=> r \in Wmsm \/ r = "hal_ind_wq"
         /\ "hal_ind_wq" \notin Wmsm
BY CtlNames DEF OfStart, Resources, Irqs, Pools, Smd, Wmsm

\* A resource that a step leaves alone, at a place where it is as before.
LEMMA OwnedKept ==
  ASSUME NEW r \in OfStart, Owned(r), mem'[r] = mem[r], failed \subseteq failed',
         pc \in OwnedAt(r) <=> pc' \in OwnedAt(r),
         pc \in {"free_pools", "free_ctl"} /\ r \in Ctls =>
           pc' \in {"free_pools", "free_ctl"}
  PROVE  Owned(r)'
<1>1. failed \cap LeakedBy(r) # {} => failed' \cap LeakedBy(r) # {}
  OBVIOUS
<1>2. r \in Ctls /\ CtlsGone => CtlsGone'
  BY DEF CtlsGone
<1> QED
  BY <1>1, <1>2 DEF Owned

LEMMA OpenOwned ==
  ASSUME TypeOK, OwnersInv, SmdOpen, NEW r \in OfStart
  PROVE  Owned(r)'
<1>1. Owned(r) /\ pc = "smd_open" /\ failed \subseteq failed' /\ r \in Resources
  BY OpenEffect, KindsApart DEF OwnersInv
<1>2. pc \notin OwnedAt(r) /\ "down" \notin OwnedAt(r)
  BY <1>1, OwnedAtIs DEF SetUp, BufPcs, PoolPcs, CtlPcs, SmdPcs, IrqPcs
<1>3. "pools" \in OwnedAt(r) <=> r \in Smd
  BY OwnedAtIs DEF SetUp, BufPcs, PoolPcs, CtlPcs, SmdPcs, IrqPcs
<1>4. CASE pc' = "pools" /\ \A x \in Resources : mem'[x] = IF x \in Smd THEN "held" ELSE mem[x]
  <2>1. CASE r \in Smd
    BY <1>1, <1>3, <1>4, <2>1 DEF Owned
  <2>2. CASE r \notin Smd
    BY <1>1, <1>2, <1>3, <1>4, <2>2, OwnedKept
  <2> QED
    BY <2>1, <2>2
<1>5. CASE pc' = "down" /\ mem' = mem
  BY <1>1, <1>2, <1>5, OwnedKept
<1>6. ASSUME NEW got \in SUBSET Wmsm, pc' = "down",
             got # {} => failed' \cap {"named_open", "interrupted"} # {},
             \A x \in Resources : mem'[x] = IF x = "hal_ind_wq" THEN "freed"
                                            ELSE IF x \in got THEN "held" ELSE mem[x]
      PROVE  Owned(r)'
  <2>1. CASE r = "hal_ind_wq"
    BY <1>1, <1>2, <1>6, <2>1 DEF Owned
  <2>2. CASE r \in got
    <3>1. failed' \cap LeakedBy(r) # {}
      BY <1>6, <2>2, LeakedIs
    <3> QED
      BY <1>2, <1>6, <3>1 DEF Owned
  <2>3. CASE r # "hal_ind_wq" /\ r \notin got
    BY <1>1, <1>2, <1>6, <2>3, OwnedKept
  <2> QED
    BY <2>1, <2>2, <2>3
<1> QED
  BY <1>4, <1>5, <1>6, OpenEffect

LEMMA PoolsOwned ==
  ASSUME TypeOK, OwnersInv, AllocPools \/ AllocCtls, NEW r \in OfStart
  PROVE  Owned(r)'
<1>1. Owned(r) /\ r \in Resources /\ failed \subseteq failed'
  BY KindsApart, PoolsEffect, CtlsEffect DEF OwnersInv
<1>2. /\ "pools" \in OwnedAt(r) <=> r \in Smd
      /\ "smd_close" \in OwnedAt(r) <=> r \in Smd
      /\ "ctl" \in OwnedAt(r) <=> r \in Smd \/ r \in Pools
      /\ "hal_buf" \in OwnedAt(r) <=> r \in Smd \/ r \in Pools \/ r \in Ctls
      /\ "free_pools" \in OwnedAt(r) <=> r \in Smd \/ r \in Pools \/ r \in Ctls
  BY OwnedAtIs DEF SetUp, BufPcs, PoolPcs, CtlPcs, SmdPcs, IrqPcs
<1>3. CASE AllocPools
  <2>1. CASE r \in Pools
    BY <1>1, <1>2, <1>3, <2>1, PoolsEffect, KindsApart DEF Owned
  <2>2. CASE r \notin Pools
    BY <1>1, <1>2, <1>3, <2>2, PoolsEffect, OwnedKept
  <2> QED
    BY <2>1, <2>2
<1>4. CASE AllocCtls
  <2>1. CASE r \in Ctls /\ pc' = "hal_buf"
    BY <1>1, <1>2, <1>4, <2>1, CtlsEffect, KindsApart DEF Owned
  <2>2. CASE r \in Ctls /\ pc' = "free_pools"
    BY <1>1, <1>2, <1>4, <2>2, CtlsEffect, KindsApart DEF Owned, CtlsGone
  <2>3. CASE r \notin Ctls
    BY <1>1, <1>2, <1>4, <2>3, CtlsEffect, OwnedKept
  <2> QED
    BY <1>4, <2>1, <2>2, <2>3, CtlsEffect
<1> QED
  BY <1>3, <1>4

LEMMA BufOwned ==
  ASSUME TypeOK, OwnersInv, AllocHalBuf, NEW r \in OfStart
  PROVE  Owned(r)'
<1>1. /\ Owned(r) /\ r \in Resources /\ pc = "hal_buf" /\ failed \subseteq failed'
      /\ mem \in [Resources -> Status]
  BY KindsApart DEF OwnersInv, AllocHalBuf, NoFail, Fail, TypeOK, Status
<1>2. /\ "hal_buf" \in OwnedAt(r) <=> r \in Smd \/ r \in Pools \/ r \in Ctls
      /\ "nv_file" \in OwnedAt(r) <=> r \in Smd \/ r \in Pools \/ r \in Ctls \/ r = "hal_buf"
      /\ "free_ctl" \in OwnedAt(r) <=> r \in Smd \/ r \in Ctls
  BY OwnedAtIs DEF SetUp, BufPcs, PoolPcs, CtlPcs, SmdPcs, IrqPcs
<1>3. CASE mem' = Held(mem, {"hal_buf"}) /\ pc' = "nv_file"
  <2>1. mem'[r] = IF r \in {"hal_buf"} THEN "held" ELSE mem[r]
    BY <1>1, <1>3, HeldTyped
  <2> QED
    BY <1>1, <1>2, <1>3, <2>1, OwnedKept DEF Owned
<1>4. CASE mem' = mem /\ pc' = "free_ctl" /\ "hal_buf" \in failed'
  <2>1. CASE r \in Pools
    <3>1. failed' \cap LeakedBy(r) # {} /\ pc' \notin OwnedAt(r)
      BY <1>2, <1>4, <2>1, LeakedIs, KindsApart
    <3> QED
      BY <3>1 DEF Owned
  <2>2. CASE r \notin Pools
    BY <1>1, <1>2, <1>4, <2>2, OwnedKept
  <2> QED
    BY <2>1, <2>2
<1> QED
  BY <1>3, <1>4 DEF AllocHalBuf, Go, Fail

LEMMA InitOwned ==
  ASSUME TypeOK, OwnersInv, DxeInit, NEW r \in OfStart
  PROVE  Owned(r)'
<1>1. Owned(r) /\ r \in Resources /\ pc = "dxe_init" /\ failed \subseteq failed'
  BY KindsApart, InitEffect DEF OwnersInv
<1>2. /\ pc \in OwnedAt(r) <=> r \in Smd \/ r \in Pools \/ r \in Ctls \/ r = "hal_buf"
      /\ "up" \in OwnedAt(r)
      /\ "undo_start" \in OwnedAt(r) <=> pc \in OwnedAt(r)
      /\ "undo_tx_irq" \in OwnedAt(r) <=> pc \in OwnedAt(r) \/ r = "tx_irq"
  BY <1>1, OwnedAtIs, KindsApart DEF SetUp, BufPcs, PoolPcs, CtlPcs, SmdPcs, IrqPcs
<1>3. PICK S : /\ \A x \in Resources : mem'[x] = IF x \in S THEN "held" ELSE mem[x]
               /\ \/ S = Irqs \cup {"rx_skbs"} /\ pc' = "up"
                  \/ S = {"rx_skbs"} /\ pc' = "undo_start" /\ "irq" \in failed'
                  \/ S = {"rx_skbs", "tx_irq"} /\ pc' = "undo_tx_irq" /\ "irq" \in failed'
  BY InitEffect
<1>4. "rx_skbs" \notin Irqs /\ Irqs = {"tx_irq", "rx_irq"}
  BY DEF Irqs
<1>5. CASE r \in S
  <2>1. CASE pc' \in OwnedAt(r)
    BY <1>1, <1>3, <1>5, <2>1 DEF Owned
  <2>2. CASE pc' \notin OwnedAt(r)
    <3>1. r = "rx_skbs" /\ "irq" \in failed'
      BY <1>2, <1>3, <1>5, <2>2
    <3>2. failed' \cap LeakedBy(r) # {}
      BY <3>1, LeakedIs
    <3> QED
      BY <2>2, <3>2 DEF Owned
  <2> QED
    BY <2>1, <2>2
<1>6. CASE r \notin S
  <2>1. r \in Smd \/ r \in Pools \/ r \in Ctls \/ r = "hal_buf" \/ pc' # "up"
    BY <1>3, <1>4, <1>6, KindsApart
  <2>2. pc \in OwnedAt(r) <=> pc' \in OwnedAt(r)
    BY <1>2, <1>3, <1>6, <2>1
  <2> QED
    BY <1>1, <1>3, <1>6, <2>2, OwnedKept
<1> QED
  BY <1>5, <1>6

\* A step that releases S: what is in S is not owned afterwards, the rest as
\* before.
LEMMA FreedOwned ==
  ASSUME TypeOK, OwnersInv, NEW S, S \subseteq Resources, Free(S), failed' = failed,
         NEW r \in OfStart,
         r \in S => pc' \notin OwnedAt(r),
         r \notin S => (pc \in OwnedAt(r) <=> pc' \in OwnedAt(r)),
         r \notin S /\ r \in Ctls /\ pc \in {"free_pools", "free_ctl"} =>
           pc' \in {"free_pools", "free_ctl"}
  PROVE  Owned(r)'
<1>1. /\ Owned(r) /\ r \in Resources
      /\ mem'[r] = IF r \in S /\ mem[r] # "none" THEN "freed" ELSE mem[r]
  BY FreeStep, KindsApart DEF OwnersInv
<1>2. CASE r \in S
  BY <1>1, <1>2 DEF Owned
<1>3. CASE r \notin S
  BY <1>1, <1>3, OwnedKept
<1> QED
  BY <1>2, <1>3

LEMMA ReleaseOwned ==
  ASSUME TypeOK, OwnersInv, UndoTxIrq \/ Unwind \/ SmdClose \/ DxeDeinit \/ StopFree,
         NEW r \in OfStart
  PROVE  Owned(r)'
<1>0. /\ {"tx_irq"} \subseteq Resources /\ {"hal_buf"} \subseteq Resources
      /\ Pools \subseteq Resources /\ Ctls \subseteq Resources /\ Smd \subseteq Resources
      /\ Irqs \cup {"rx_skbs"} \subseteq Resources
      /\ Pools \cup Ctls \cup {"hal_buf"} \subseteq Resources
  BY DEF Resources, OfStart, Irqs
<1>1. CASE UndoTxIrq
  <2>1. /\ "undo_start" \in OwnedAt(r) <=> r \in Smd \/ r \in Pools \/ r \in Ctls \/ r = "hal_buf"
        /\ "undo_tx_irq" \in OwnedAt(r) <=> "undo_start" \in OwnedAt(r) \/ r = "tx_irq"
    BY OwnedAtIs, KindsApart DEF SetUp, BufPcs, PoolPcs, CtlPcs, SmdPcs, IrqPcs
  <2>2. pc = "undo_tx_irq" /\ pc' = "undo_start" /\ failed' = failed /\ Free({"tx_irq"})
    BY <1>1 DEF UndoTxIrq, Go
  <2> QED
    BY <1>0, <2>1, <2>2, KindsApart, FreedOwned
<1>2. CASE Unwind
  <2>1. /\ "free_buf" \in OwnedAt(r) <=> r \in Smd \/ r \in Pools \/ r \in Ctls \/ r = "hal_buf"
        /\ "free_pools" \in OwnedAt(r) <=> r \in Smd \/ r \in Pools \/ r \in Ctls
        /\ "free_ctl" \in OwnedAt(r) <=> r \in Smd \/ r \in Ctls
        /\ "smd_close" \in OwnedAt(r) <=> r \in Smd
    BY OwnedAtIs, KindsApart DEF SetUp, BufPcs, PoolPcs, CtlPcs, SmdPcs, IrqPcs
  <2>2. failed' = failed
    BY <1>2 DEF Unwind
  <2>3. CASE pc = "free_buf" /\ Free({"hal_buf"}) /\ pc' = "free_pools"
    BY <1>0, <2>1, <2>2, <2>3, KindsApart, FreedOwned
  <2>4. CASE pc = "free_pools" /\ Free(Pools) /\ pc' = "free_ctl"
    BY <1>0, <2>1, <2>2, <2>4, KindsApart, FreedOwned
  <2>5. CASE pc = "free_ctl" /\ Free(Ctls) /\ pc' = "smd_close"
    BY <1>0, <2>1, <2>2, <2>5, KindsApart, FreedOwned
  <2> QED
    BY <1>2, <2>3, <2>4, <2>5 DEF Unwind, Go
<1>3. CASE SmdClose
  <2>1. /\ "smd_close" \in OwnedAt(r) <=> r \in Smd
        /\ "stop_close" \in OwnedAt(r) <=> r \in Smd \/ "stop_free" \in OwnedAt(r)
        /\ "stop_free" \in OwnedAt(r) => r \notin Smd
        /\ "down" \notin OwnedAt(r)
    BY OwnedAtIs, KindsApart DEF SetUp, BufPcs, PoolPcs, CtlPcs, SmdPcs, IrqPcs
  <2>2. /\ (pc = "smd_close" /\ pc' = "down") \/ (pc = "stop_close" /\ pc' = "stop_free")
        /\ failed' = failed /\ Free(Smd)
    BY <1>3 DEF SmdClose, Go
  <2> QED
    BY <1>0, <2>1, <2>2, FreedOwned
<1>4. CASE DxeDeinit
  <2>1. /\ "deinit" \in OwnedAt(r)
        /\ "stop_close" \in OwnedAt(r) <=> r \notin Irqs \cup {"rx_skbs"}
    BY OwnedAtIs, KindsApart DEF SetUp, BufPcs, PoolPcs, CtlPcs, SmdPcs, IrqPcs, Irqs
  <2>2. pc = "deinit" /\ pc' = "stop_close" /\ failed' = failed /\ Free(Irqs \cup {"rx_skbs"})
    BY <1>4 DEF DxeDeinit, Go
  <2> QED
    BY <1>0, <2>1, <2>2, FreedOwned
<1>5. CASE StopFree
  <2>1. /\ "down" \notin OwnedAt(r)
        /\ "stop_free" \in OwnedAt(r) <=> r \in Pools \cup Ctls \cup {"hal_buf"}
    BY OwnedAtIs, KindsApart DEF SetUp, BufPcs, PoolPcs, CtlPcs, SmdPcs, IrqPcs
  <2>2. /\ pc = "stop_free" /\ pc' = "down" /\ failed' = failed
        /\ Free(Pools \cup Ctls \cup {"hal_buf"})
    BY <1>5 DEF StopFree, Go
  <2> QED
    BY <1>0, <2>1, <2>2, FreedOwned
<1> QED
  BY <1>1, <1>2, <1>3, <1>4, <1>5

LEMMA OwnersNext == TypeOK /\ OwnersInv /\ DeviceInv /\ [Next]_vars => OwnersInv'
<1> SUFFICES ASSUME TypeOK, OwnersInv, DeviceInv, [Next]_vars, NEW r \in OfStart
             PROVE  Owned(r)'
  BY DEF OwnersInv
<1>0. /\ Owned(r) /\ r \in Resources /\ r \notin {"hw", "mmio", "nv_file"}
      /\ mem \in [Resources -> Status]
  BY KindsApart DEF OwnersInv, TypeOK, Status
<1>1. ASSUME mem'[r] = mem[r], failed \subseteq failed',
             \/ pc' = pc
             \/ pc = "down" /\ pc' = "smd_open"
             \/ pc = "up" /\ pc' = "stop"
             \/ pc = "stop" /\ pc' = "deinit"
             \/ pc \in {"nv_file", "load_nv", "smd_start", "caps", "update_cfg", "undo_start"} /\
                pc' \in {"load_nv", "smd_start", "caps", "update_cfg", "dxe_init", "free_buf"}
      PROVE  Owned(r)'
  <2>1. pc \in OwnedAt(r) <=> pc' \in OwnedAt(r)
    BY <1>1, OwnedAtIs DEF SetUp, BufPcs, PoolPcs, CtlPcs, SmdPcs, IrqPcs
  <2> QED
    BY <1>0, <1>1, <2>1, OwnedKept
<1>2. CASE wcn36xx_probe
  <2>1. pc = "down" /\ pc' = "down" /\ failed \subseteq failed'
    BY <1>2 DEF wcn36xx_probe, DeviceInv, NoFail, Fail
  <2>2. CASE r \in Wmsm
    <3>1. mem'[r] = mem[r]
      BY <1>0, <1>2, <2>2, FreshTyped DEF wcn36xx_probe, Wmsm
    <3> QED
      BY <1>1, <2>1, <3>1
  <2>3. CASE r \notin Wmsm
    <3>1. mem'[r] = "none"
      BY <1>0, <1>2, <2>3, FreshTyped DEF wcn36xx_probe, Wmsm
    <3>2. pc' \notin OwnedAt(r)
      BY <2>1, OwnedAtIs DEF SetUp, BufPcs, PoolPcs, CtlPcs, SmdPcs, IrqPcs
    <3> QED
      BY <3>1, <3>2 DEF Owned
  <2> QED
    BY <2>2, <2>3
<1>3. CASE wcn36xx_remove \/ Unregister \/ RemoveEnd
  <2>1. mem'[r] = mem[r]
    <3>1. ASSUME NEW S, S \subseteq {"hw", "mmio", "nv_file"}, Free(S)
          PROVE  mem'[r] = mem[r]
      <4>1. S \subseteq Resources
        BY <3>1 DEF Resources, OfProbe
      <4> QED
        BY <1>0, <3>1, <4>1, FreeStep
    <3> QED
      BY <1>3, <3>1 DEF wcn36xx_remove, Unregister, RemoveEnd
  <2> QED
    BY <1>1, <1>3, <2>1 DEF wcn36xx_remove, Unregister, RemoveEnd, Go
<1>4. CASE RequestNv \/ LoadNv \/ SmdStart \/ Capabilities \/ UpdateCfg \/ SmdStop
  <2>1. mem'[r] = mem[r]
    <3>1. mem' = mem \/ mem' = Held(mem, {"nv_file"})
      BY <1>4 DEF RequestNv, LoadNv, SmdStart, Capabilities, UpdateCfg, SmdStop
    <3> QED
      BY <1>0, <3>1, HeldTyped
  <2>2. failed \subseteq failed'
    BY <1>4 DEF RequestNv, LoadNv, SmdStart, Capabilities, UpdateCfg, SmdStop, CommandFails,
      NoFail, Fail
  <2>3. \/ pc = "stop" /\ pc' = "deinit"
        \/ pc \in {"nv_file", "load_nv", "smd_start", "caps", "update_cfg", "undo_start"} /\
           pc' \in {"load_nv", "smd_start", "caps", "update_cfg", "dxe_init", "free_buf"}
    BY <1>4 DEF RequestNv, LoadNv, SmdStart, Capabilities, UpdateCfg, SmdStop, Go
  <2> QED
    BY <1>1, <2>1, <2>2, <2>3
<1>5. CASE LateResponse \/ (\E i \in Irqs : IrqEnter(i) \/ IrqReturn(i)) \/ wcn36xx_start
             \/ wcn36xx_stop \/ UNCHANGED vars
  BY <1>1, <1>5 DEF LateResponse, IrqEnter, IrqReturn, wcn36xx_start, wcn36xx_stop, vars, Go
<1> QED
  BY <1>2, <1>3, <1>4, <1>5, OpenOwned, PoolsOwned, BufOwned, InitOwned, ReleaseOwned
    DEF Next, StartStep, StopStep

-----------------------------------------------------------------------------
(* What a probe owns.                                                      *)

\* Only the steps of probe and remove, and the request of the NV file, touch it.
LEMMA DeviceKept ==
  ASSUME TypeOK, StartStep \/ StopStep, ~RequestNv, NEW x \in {"hw", "mmio", "nv_file"}
  PROVE  mem'[x] = mem[x]
<1>0. /\ x \in Resources /\ x \notin OfStart
      /\ OfStart = Pools \cup Ctls \cup Irqs \cup Smd \cup {"hal_buf", "rx_skbs"}
      /\ Wmsm \subseteq Smd /\ "hal_ind_wq" \in Smd /\ "tx_irq" \in Irqs
      /\ OfStart \subseteq Resources /\ mem \in [Resources -> Status]
  BY CtlNames DEF Resources, OfProbe, OfStart, Smd, Wmsm, Pools, Irqs, TypeOK, Status
<1>1. CASE SmdOpen
  BY <1>0, <1>1, OpenEffect
<1>2. CASE AllocPools \/ AllocCtls
  BY <1>0, <1>2, PoolsEffect, CtlsEffect
<1>3. CASE AllocHalBuf
  <2>1. mem' = mem \/ mem' = Held(mem, {"hal_buf"})
    BY <1>3 DEF AllocHalBuf
  <2> QED
    BY <1>0, <2>1, HeldTyped
<1>4. CASE DxeInit
  BY <1>0, <1>4, InitEffect
<1>5. CASE UndoTxIrq \/ Unwind \/ SmdClose \/ StopStep
  <2>1. PICK S : S \subseteq OfStart /\ Free(S)
    BY <1>0, <1>5 DEF UndoTxIrq, Unwind, SmdClose, StopStep, DxeDeinit, StopFree
  <2> QED
    BY <1>0, <2>1, FreeStep
<1>6. CASE LoadNv \/ SmdStart \/ Capabilities \/ UpdateCfg \/ SmdStop
  BY <1>6 DEF LoadNv, SmdStart, Capabilities, UpdateCfg, SmdStop
<1> QED
  BY <1>1, <1>2, <1>3, <1>4, <1>5, <1>6 DEF StartStep

\* A start ends down or up, and it does not begin again by itself.
LEMMA StartPlaces ==
  ASSUME StartStep \/ StopStep
  PROVE  /\ pc' \in StartPcs => pc \in StartPcs
         /\ pc \in StartPcs \cup StopPcs
         /\ pc \in StopPcs => pc' \in StopPcs \cup {"down"}
         /\ ~RequestNv /\ pc' = "load_nv" => pc = "load_nv"
         /\ failed \subseteq failed' /\ drv' = drv
BY DEF StartStep, StopStep, SmdOpen, AllocPools, AllocCtls, AllocHalBuf, RequestNv, LoadNv,
  SmdStart, Capabilities, UpdateCfg, DxeInit, UndoTxIrq, SmdStop, Unwind, SmdClose,
  DxeDeinit, StopFree, StartPcs, StopPcs, Go, NoFail, Fail, CommandFails, device

LEMMA DeviceNext == TypeOK /\ DeviceInv /\ [Next]_vars => DeviceInv'
<1> SUFFICES ASSUME TypeOK, DeviceInv, [Next]_vars PROVE DeviceInv'
  OBVIOUS
<1>0. /\ "hw" \in Resources /\ "mmio" \in Resources /\ "nv_file" \in Resources
      /\ Wmsm \cap {"hw", "mmio", "nv_file"} = {}
      /\ mem \in [Resources -> Status]
  BY DEF Resources, OfProbe, Wmsm, TypeOK, Status
<1>1. CASE (StartStep \/ StopStep) /\ ~RequestNv
  <2>1. /\ mem'["hw"] = mem["hw"] /\ mem'["mmio"] = mem["mmio"]
        /\ mem'["nv_file"] = mem["nv_file"]
    BY <1>1, DeviceKept
  <2>2. pc # "down" /\ pc # "up"
    BY <1>1, StartPlaces DEF StartPcs, StopPcs
  <2>3. DeviceInv!1' /\ DeviceInv!2' /\ DeviceInv!3' /\ DeviceInv!4'
    BY <1>1, <2>1, <2>2, StartPlaces DEF DeviceInv
  <2>4. DeviceInv!5' /\ DeviceInv!6'
    BY <1>1, <2>1, StartPlaces DEF DeviceInv
  <2> QED
    BY <2>3, <2>4 DEF DeviceInv
<1>2. CASE RequestNv
  <2>1. /\ pc = "nv_file" /\ pc' \in {"load_nv", "free_buf"} /\ UNCHANGED drv
        /\ failed \subseteq failed'
        /\ mem' = mem \/ mem' = Held(mem, {"nv_file"})
        /\ pc' = "load_nv" => (mem' = mem /\ mem["nv_file"] # "none")
                              \/ mem' = Held(mem, {"nv_file"})
    BY <1>2 DEF RequestNv, Go, device, NoFail, Fail
  <2>2. /\ mem'["hw"] = mem["hw"] /\ mem'["mmio"] = mem["mmio"]
        /\ mem'["nv_file"] = mem["nv_file"] \/ mem'["nv_file"] = "held"
        /\ pc' = "load_nv" => mem'["nv_file"] # "none"
    BY <1>0, <2>1, HeldTyped
  <2>3. "nv_file" \in StartPcs /\ "nv_file" \notin StopPcs \cup {"down"}
    BY DEF StartPcs, StopPcs
  <2> QED
    BY <2>1, <2>2, <2>3 DEF DeviceInv
<1>3. CASE wcn36xx_probe
  <2>1. /\ pc = "down" /\ pc' = "down" /\ failed \subseteq failed'
        /\ drv = "absent"
    BY <1>3 DEF wcn36xx_probe, DeviceInv, NoFail, Fail
  <2>2. mem'["nv_file"] = "none"
    BY <1>0, <1>3, FreshTyped DEF wcn36xx_probe
  <2>3. CASE drv' = "bound" /\ Fresh({"hw", "mmio"}, {})
    <3>1. mem'["hw"] = "held" /\ mem'["mmio"] = "held"
      BY <1>0, <2>3, FreshTyped
    <3> QED
      BY <2>1, <2>2, <2>3, <3>1 DEF DeviceInv
  <2>4. CASE drv' = drv /\ \E had \in {{}, {"hw"}, {"hw", "mmio"}} : Fresh({}, had)
    <3>1. mem'["hw"] # "held" /\ mem'["mmio"] # "held"
      BY <1>0, <2>4, FreshTyped
    <3>2. "down" \notin StartPcs
      BY DEF StartPcs
    <3> QED
      BY <2>1, <2>2, <2>4, <3>1, <3>2 DEF DeviceInv
  <2> QED
    BY <1>3, <2>3, <2>4 DEF wcn36xx_probe
<1>4. CASE wcn36xx_remove
  <2>1. /\ drv = "bound" /\ drv' = "releasing" /\ pc' = pc /\ failed \subseteq failed'
        /\ pc \in StartPcs => "raced" \in failed'
        /\ Free({"nv_file"})
    BY <1>4 DEF wcn36xx_remove
  <2>2. /\ mem'["hw"] = mem["hw"] /\ mem'["mmio"] = mem["mmio"]
        /\ mem'["nv_file"] # "held"
        /\ mem'["nv_file"] = "none" => mem["nv_file"] = "none"
    BY <1>0, <2>1, FreeStep
  <2> QED
    BY <2>1, <2>2 DEF DeviceInv
<1>5. CASE Unregister
  BY <1>5 DEF Unregister, DeviceInv, Go, StopPcs, StartPcs
<1>6. CASE RemoveEnd
  <2>1. /\ drv = "unregistered" /\ pc = "down" /\ pc' = pc /\ drv' = "absent"
        /\ failed' = failed /\ Free({"hw", "mmio"})
    BY <1>6 DEF RemoveEnd
  <2>2. /\ mem'["hw"] # "held" /\ mem'["mmio"] # "held" /\ mem'["nv_file"] = mem["nv_file"]
    BY <1>0, <2>1, FreeStep
  <2> QED
    BY <2>1, <2>2 DEF DeviceInv
<1>7. CASE wcn36xx_start \/ wcn36xx_stop
  BY <1>7 DEF wcn36xx_start, wcn36xx_stop, DeviceInv, Go, device, StartPcs, StopPcs
<1>8. CASE LateResponse \/ (\E i \in Irqs : IrqEnter(i) \/ IrqReturn(i)) \/ UNCHANGED vars
  BY <1>8 DEF LateResponse, IrqEnter, IrqReturn, vars, device, DeviceInv
<1> QED
  BY <1>1, <1>2, <1>3, <1>4, <1>5, <1>6, <1>7, <1>8 DEF Next

-----------------------------------------------------------------------------
(* The users, and what went wrong.                                         *)

\* Where an interrupt is held, what its handler uses is held too.
LEMMA IrqPlaces ==
  ASSUME TypeOK, OwnersInv, DeviceInv, NEW i \in Irqs, mem[i] = "held"
  PROVE  /\ pc \in IrqPcs \/ (i = "tx_irq" /\ pc = "undo_tx_irq")
         /\ mem["mmio"] = "held" /\ \A r \in Ctls : mem[r] = "held"
         /\ i = "rx_irq" => mem["rx_skbs"] = "held"
<1>0. /\ i \in OfStart /\ i \in {"tx_irq", "rx_irq"} /\ Ctls \subseteq OfStart
      /\ "rx_skbs" \in OfStart
  BY DEF Irqs, OfStart
<1>1. failed \cap LeakedBy(i) = {}
  BY <1>0, LeakedIs, KindsApart
<1>2. pc \in OwnedAt(i)
  BY <1>0, <1>1 DEF OwnersInv, Owned
<1>3. pc \in IrqPcs \/ (i = "tx_irq" /\ pc = "undo_tx_irq")
  BY <1>0, <1>2, OwnedAtIs, KindsApart
<1>4. pc # "down" /\ pc \notin {"free_pools", "free_ctl"}
  BY <1>3 DEF IrqPcs
<1>5. mem["mmio"] = "held"
  BY <1>4 DEF DeviceInv
<1>6. ASSUME NEW r \in Ctls PROVE mem[r] = "held"
  <2>1. pc \in OwnedAt(r)
    BY <1>0, <1>3, OwnedAtIs DEF CtlPcs, BufPcs, SetUp, IrqPcs
  <2> QED
    BY <1>0, <1>4, <2>1 DEF OwnersInv, Owned, CtlsGone
<1>7. ASSUME i = "rx_irq" PROVE mem["rx_skbs"] = "held"
  <2>1. pc \in OwnedAt("rx_skbs")
    BY <1>0, <1>3, <1>7, OwnedAtIs
  <2> QED
    BY <1>0, <2>1, KindsApart DEF OwnersInv, Owned
<1> QED
  BY <1>3, <1>5, <1>6, <1>7

\* No step takes an interrupt away from its handler.
LEMMA HandlersNext ==
  ASSUME TypeOK, OwnersInv, DeviceInv, UsersInv, [Next]_vars, NEW i \in handlers'
  PROVE  mem'[i] = "held"
<1>0. /\ handlers \subseteq Irqs /\ Irqs \subseteq Resources /\ Irqs = {"tx_irq", "rx_irq"}
      /\ Irqs \cap {"hw", "mmio", "nv_file"} = {} /\ Irqs \cap (Smd \cup Pools \cup Ctls) = {}
      /\ "hal_buf" \notin Irqs /\ mem \in [Resources -> Status]
  BY CtlNames DEF TypeOK, Status, Irqs, Resources, OfStart, Smd, Wmsm, Pools
<1>1. CASE \E j \in Irqs : IrqEnter(j) \/ IrqReturn(j)
  BY <1>1 DEF IrqEnter, IrqReturn, UsersInv
<1>2. handlers' = handlers \/ (\E j \in Irqs : IrqEnter(j) \/ IrqReturn(j))
  BY DEF Next, vars, device, wcn36xx_probe, wcn36xx_remove, Unregister,
    RemoveEnd, wcn36xx_start, wcn36xx_stop, StartStep, StopStep, SmdOpen, AllocPools,
    AllocCtls, AllocHalBuf, RequestNv, LoadNv, SmdStart, Capabilities, UpdateCfg, DxeInit,
    UndoTxIrq, SmdStop, Unwind, SmdClose, DxeDeinit, StopFree, LateResponse
<1> SUFFICES ASSUME handlers' = handlers PROVE mem'[i] = "held"
  BY <1>1, <1>2
<1>3. i \in Irqs /\ i \in Resources /\ mem[i] = "held"
  BY <1>0 DEF UsersInv
<1>4. ASSUME NEW S, S \subseteq Resources, Free(S), i \notin S PROVE mem'[i] = "held"
  BY <1>3, <1>4, FreeStep
<1>5. pc \in IrqPcs \/ (i = "tx_irq" /\ pc = "undo_tx_irq")
  BY <1>3, IrqPlaces
<1>6. CASE wcn36xx_probe
  <2>1. pc = "down"
    BY <1>6 DEF wcn36xx_probe, DeviceInv
  <2> QED
    BY <1>5, <2>1 DEF IrqPcs
<1>7. CASE wcn36xx_remove \/ RemoveEnd
  <2>1. {"hw", "mmio"} \subseteq Resources /\ {"nv_file"} \subseteq Resources
    BY DEF Resources, OfProbe
  <2> QED
    BY <1>0, <1>3, <1>4, <1>7, <2>1 DEF wcn36xx_remove, RemoveEnd
<1>8. CASE SmdOpen \/ AllocPools \/ AllocCtls \/ AllocHalBuf \/ RequestNv \/ LoadNv
             \/ DxeInit \/ Unwind \/ StopFree
  <2>1. pc \notin IrqPcs \cup {"undo_tx_irq"}
    BY <1>8 DEF SmdOpen, AllocPools, AllocCtls, AllocHalBuf, RequestNv, LoadNv, DxeInit,
      Unwind, StopFree, IrqPcs
  <2> QED
    BY <1>5, <2>1
<1>9. CASE UndoTxIrq
  <2>1. "tx_irq" \notin handlers
    BY <1>9 DEF UndoTxIrq
  <2>2. pc = "undo_tx_irq"
    BY <1>9 DEF UndoTxIrq
  <2> QED
    BY <1>5, <2>1, <2>2 DEF IrqPcs
<1>10. CASE DxeDeinit
  BY <1>10 DEF DxeDeinit
<1>11. CASE SmdClose
  <2>1. Smd \subseteq Resources
    BY DEF Resources, OfStart
  <2> QED
    BY <1>0, <1>3, <1>4, <1>11, <2>1 DEF SmdClose
<1>12. CASE UNCHANGED mem
  BY <1>3, <1>12
<1> QED
  BY <1>6, <1>7, <1>8, <1>9, <1>10, <1>11, <1>12, <1>1 DEF Next, StartStep, StopStep,
    Unregister, wcn36xx_start, SmdStart, Capabilities, UpdateCfg, SmdStop, wcn36xx_stop,
    LateResponse, vars

LEMMA UsersNext == TypeOK /\ OwnersInv /\ DeviceInv /\ UsersInv /\ [Next]_vars => UsersInv'
<1> SUFFICES ASSUME TypeOK, OwnersInv, DeviceInv, UsersInv, [Next]_vars PROVE UsersInv'
  OBVIOUS
<1>0. \A i \in handlers' : mem'[i] = "held"
  BY HandlersNext
<1>1. ASSUME failed \subseteq failed',
             late' => late \/ "timeout" \in failed',
             pc' \in {"undo_tx_irq", "undo_start"} =>
               pc \in {"undo_tx_irq", "undo_start"} \/ "irq" \in failed',
             late' /\ pc \in {"deinit", "stop_close"} => pc' \in {"deinit", "stop_close"}
      PROVE  UsersInv'
  BY <1>0, <1>1 DEF UsersInv
<1>2. CASE SmdOpen \/ AllocPools \/ AllocCtls \/ AllocHalBuf
  BY <1>1, <1>2 DEF SmdOpen, AllocPools, AllocCtls, AllocHalBuf, Go, Fail, NoFail
<1>3. CASE DxeInit
  BY <1>1, <1>3 DEF DxeInit, Go, Fail, NoFail
<1>4. CASE RequestNv \/ LoadNv \/ SmdStart \/ Capabilities \/ UpdateCfg
  BY <1>1, <1>4 DEF RequestNv, LoadNv, SmdStart, Capabilities, UpdateCfg, CommandFails, Go,
    Fail, NoFail
<1>5. CASE SmdStop
  <2>1. CASE pc = "stop"
    BY <1>0, <1>5, <2>1 DEF SmdStop, Go, NoFail, UsersInv
  <2>2. CASE pc = "undo_start"
    <3>1. "irq" \in failed' /\ pc' = "free_buf"
      BY <1>5, <2>2 DEF SmdStop, Go, NoFail, UsersInv
    <3> QED
      BY <1>0, <3>1 DEF UsersInv
  <2> QED
    BY <1>5, <2>1, <2>2 DEF SmdStop
<1>6. CASE UndoTxIrq \/ Unwind \/ SmdClose \/ DxeDeinit \/ StopFree
  BY <1>1, <1>6 DEF UndoTxIrq, Unwind, SmdClose, DxeDeinit, StopFree, Go
<1>7. CASE wcn36xx_probe \/ wcn36xx_remove \/ Unregister \/ RemoveEnd
  BY <1>1, <1>7 DEF wcn36xx_probe, wcn36xx_remove, Unregister, RemoveEnd, Go, Fail, NoFail
<1>8. CASE wcn36xx_start \/ wcn36xx_stop
  BY <1>1, <1>8 DEF wcn36xx_start, wcn36xx_stop, Go
<1>9. CASE LateResponse \/ (\E i \in Irqs : IrqEnter(i) \/ IrqReturn(i)) \/ UNCHANGED vars
  <2>1. pc' = pc /\ failed' = failed /\ (late' = FALSE \/ late' = late)
    BY <1>9 DEF LateResponse, IrqEnter, IrqReturn, vars
  <2> QED
    BY <1>1, <2>1
<1> QED
  BY <1>2, <1>3, <1>4, <1>5, <1>6, <1>7, <1>8, <1>9 DEF Next, StartStep, StopStep

\* What is released was owned, and what is used is held.
LEMMA ErrsNext ==
  TypeOK /\ OwnersInv /\ DeviceInv /\ UsersInv /\ ErrsInv /\ [Next]_vars => ErrsInv'
<1> SUFFICES ASSUME TypeOK, OwnersInv, DeviceInv, UsersInv, ErrsInv, [Next]_vars
             PROVE  ErrsInv'
  OBVIOUS
<1>1. ASSUME errs' = errs, failed \subseteq failed' PROVE ErrsInv'
  BY <1>1 DEF ErrsInv, FreedOnce, UsedWhileHeld
<1>2. ASSUME NEW r \in OfStart, pc \in OwnedAt(r), failed \cap {"pools", "ctl"} = {}
      PROVE  mem[r] = "held"
  BY <1>2 DEF OwnersInv, Owned, CtlsGone
<1>3. ASSUME NEW S, S \subseteq Resources, Free(S), failed' = failed,
             failed \cap {"pools", "ctl"} = {} => \A r \in S : mem[r] # "freed"
      PROVE  ErrsInv'
  BY <1>3, FreeStep DEF ErrsInv, FreedOnce, UsedWhileHeld
<1>4. ASSUME NEW S, S \subseteq OfStart, Free(S), failed' = failed,
             \A r \in S : pc \in OwnedAt(r)
      PROVE  ErrsInv'
  <2>1. S \subseteq Resources
    BY <1>4 DEF Resources
  <2>2. failed \cap {"pools", "ctl"} = {} => \A r \in S : mem[r] # "freed"
    BY <1>2, <1>4
  <2> QED
    BY <1>3, <1>4, <2>1, <2>2
<1>5. CASE UndoTxIrq \/ Unwind \/ SmdClose \/ DxeDeinit \/ StopFree
  <2>0. /\ {"tx_irq"} \subseteq OfStart /\ {"hal_buf"} \subseteq OfStart
        /\ Pools \subseteq OfStart /\ Ctls \subseteq OfStart /\ Smd \subseteq OfStart
        /\ Irqs \cup {"rx_skbs"} \subseteq OfStart /\ Irqs = {"tx_irq", "rx_irq"}
        /\ Pools \cup Ctls \cup {"hal_buf"} \subseteq OfStart
    BY DEF OfStart, Irqs
  <2>1. failed' = failed
    BY <1>5 DEF UndoTxIrq, Unwind, SmdClose, DxeDeinit, StopFree
  <2>2. CASE pc = "undo_tx_irq" /\ Free({"tx_irq"})
    <3>1. pc \in OwnedAt("tx_irq")
      BY <2>0, <2>2, OwnedAtIs
    <3> QED
      BY <1>4, <2>0, <2>1, <2>2, <3>1
  <2>3. CASE pc = "free_buf" /\ Free({"hal_buf"})
    <3>1. pc \in OwnedAt("hal_buf")
      BY <2>0, <2>3, OwnedAtIs DEF BufPcs, SetUp
    <3> QED
      BY <1>4, <2>0, <2>1, <2>3, <3>1
  <2>4. CASE pc = "free_pools" /\ Free(Pools)
    <3>1. \A r \in Pools : pc \in OwnedAt(r)
      BY <2>0, <2>4, OwnedAtIs DEF PoolPcs
    <3> QED
      BY <1>4, <2>0, <2>1, <2>4, <3>1
  <2>5. CASE pc = "free_ctl" /\ Free(Ctls)
    <3>1. \A r \in Ctls : pc \in OwnedAt(r)
      BY <2>0, <2>5, OwnedAtIs DEF CtlPcs
    <3> QED
      BY <1>4, <2>0, <2>1, <2>5, <3>1
  <2>6. CASE pc \in {"smd_close", "stop_close"} /\ Free(Smd)
    <3>1. \A r \in Smd : pc \in OwnedAt(r)
      BY <2>0, <2>6, OwnedAtIs DEF SmdPcs, PoolPcs, BufPcs, SetUp
    <3> QED
      BY <1>4, <2>0, <2>1, <2>6, <3>1
  <2>7. CASE pc = "deinit" /\ Free(Irqs \cup {"rx_skbs"})
    <3>1. \A r \in Irqs \cup {"rx_skbs"} : pc \in OwnedAt(r)
      BY <2>0, <2>7, OwnedAtIs DEF IrqPcs
    <3> QED
      BY <1>4, <2>0, <2>1, <2>7, <3>1
  <2>8. CASE pc = "stop_free" /\ Free(Pools \cup Ctls \cup {"hal_buf"})
    <3>1. \A r \in Pools \cup Ctls \cup {"hal_buf"} : pc \in OwnedAt(r)
      BY <2>0, <2>8, OwnedAtIs DEF PoolPcs, CtlPcs, BufPcs
    <3> QED
      BY <1>4, <2>0, <2>1, <2>8, <3>1
  <2> QED
    BY <1>5, <2>2, <2>3, <2>4, <2>5, <2>6, <2>7, <2>8
      DEF UndoTxIrq, Unwind, SmdClose, DxeDeinit, StopFree
<1>6. CASE AllocPools \/ AllocCtls
  <2>1. /\ failed \subseteq failed'
        /\ \/ errs' = errs
           \/ failed' \cap {"pools", "ctl"} # {} /\ ("use_after_free" \in errs' => "use_after_free" \in errs)
    BY <1>6, PoolsEffect, CtlsEffect
  <2> QED
    BY <2>1 DEF ErrsInv, FreedOnce, UsedWhileHeld
<1>7. CASE wcn36xx_remove \/ RemoveEnd
  <2>0. {"hw", "mmio"} \subseteq Resources /\ {"nv_file"} \subseteq Resources
    BY DEF Resources, OfProbe
  <2>1. CASE RemoveEnd
    <3>1. mem["hw"] # "freed" /\ mem["mmio"] # "freed"
      BY <2>1 DEF RemoveEnd, DeviceInv
    <3> QED
      BY <1>3, <2>0, <2>1, <3>1 DEF RemoveEnd
  <2>2. CASE wcn36xx_remove
    <3>1. mem["nv_file"] # "freed" /\ failed \subseteq failed' /\ Free({"nv_file"})
      BY <2>2 DEF wcn36xx_remove, DeviceInv
    <3>2. errs' = errs
      BY <2>0, <3>1, FreeStep
    <3> QED
      BY <1>1, <3>1, <3>2
  <2> QED
    BY <1>7, <2>1, <2>2
<1>8. ASSUME NEW S, Uses(S), failed \subseteq failed',
             failed \cap {"timeout", "irq", "raced"} = {} => \A r \in S : mem[r] = "held"
      PROVE  ErrsInv'
  BY <1>8, UseStep DEF ErrsInv, FreedOnce, UsedWhileHeld
<1>9. CASE LoadNv
  <2>1. /\ pc = "load_nv" /\ failed \subseteq failed' /\ Uses({"nv_file"})
        /\ pc \in StartPcs /\ mem["nv_file"] \in Status
    BY <1>9 DEF LoadNv, NoFail, CommandFails, Fail, StartPcs, TypeOK, Status, Resources, OfProbe
  <2>2. failed \cap {"timeout", "irq", "raced"} = {} => mem["nv_file"] = "held"
    BY <2>1 DEF DeviceInv, Status
  <2> QED
    BY <1>8, <2>1, <2>2
<1>10. CASE LateResponse
  <2>1. late /\ failed' = failed /\ Uses({"hal_buf"}) /\ "hal_buf" \in OfStart
    BY <1>10 DEF LateResponse, OfStart
  <2>2. ASSUME failed \cap {"timeout", "irq", "raced"} = {} PROVE mem["hal_buf"] = "held"
    <3>1. pc \in {"deinit", "stop_close"}
      BY <2>1, <2>2 DEF UsersInv
    <3>2. pc \in OwnedAt("hal_buf")
      BY <2>1, <3>1, OwnedAtIs DEF BufPcs, SetUp
    <3> QED
      BY <2>1, <3>2, KindsApart DEF OwnersInv, Owned
  <2> QED
    BY <1>8, <2>1, <2>2
<1>11. ASSUME NEW i \in Irqs, IrqReturn(i) PROVE ErrsInv'
  <2>1. i \in handlers /\ mem[i] = "held"
    BY <1>11 DEF IrqReturn, UsersInv
  <2>2. i \in {"tx_irq", "rx_irq"} /\ {"tx_l", "tx_h", "rx_l", "rx_h"} = Ctls
    BY CtlNames DEF Irqs
  <2>3. PICK S : /\ Uses(S) /\ failed' = failed
                 /\ S = {"mmio"} \cup (IF i = "tx_irq" THEN {"tx_l", "tx_h"}
                                       ELSE {"rx_l", "rx_h", "rx_skbs"})
    BY <1>11 DEF IrqReturn
  <2>4. \A r \in S : mem[r] = "held"
    BY <2>1, <2>2, <2>3, IrqPlaces
  <2> QED
    BY <1>8, <2>3, <2>4
<1>12. CASE SmdOpen \/ AllocHalBuf \/ DxeInit \/ RequestNv
  BY <1>1, <1>12 DEF SmdOpen, AllocHalBuf, DxeInit, RequestNv, Fail, NoFail
<1>13. CASE SmdStart \/ Capabilities \/ UpdateCfg \/ SmdStop
  BY <1>1, <1>13 DEF SmdStart, Capabilities, UpdateCfg, SmdStop, CommandFails, Fail, NoFail
<1>14. CASE wcn36xx_probe \/ Unregister \/ wcn36xx_start \/ wcn36xx_stop
              \/ (\E i \in Irqs : IrqEnter(i)) \/ UNCHANGED vars
  BY <1>1, <1>14 DEF wcn36xx_probe, Unregister, wcn36xx_start, wcn36xx_stop, IrqEnter, vars,
    Fail, NoFail
<1> QED
  BY <1>5, <1>6, <1>7, <1>9, <1>10, <1>11, <1>12, <1>13, <1>14 DEF Next, StartStep, StopStep

-----------------------------------------------------------------------------
(* The invariant, and what follows from it.                                *)

LEMMA InitInv == Init => Inv
<1> SUFFICES ASSUME Init PROVE Inv
  OBVIOUS
<1>0. \A r \in Resources : mem[r] = "none"
  BY DEF Init
<1>1. TypeOK
  <2>1. mem \in [Resources -> {"none", "held", "freed"}]
    BY DEF Init
  <2>2. nv \in [size : NvSizes \cup {0}, fm_offset : 0..(OffsetRange - 1)]
    BY OffsetTyped DEF Init
  <2>3. wcn \in [caps : Chips \cup {"none"}, chip_version : Chips]
    BY DEF Init, NoCaps, Chips
  <2>4. image \in [len : Nat, ok : BOOLEAN, done : BOOLEAN]
    BY DEF Init, NoImage
  <2>5. /\ pc \in StartPcs \cup StopPcs \cup {"down", "up"}
        /\ probes \in 0..MaxProbes /\ starts \in 0..MaxStarts /\ faults \in 0..MaxFaults
    BY Numbers DEF Init
  <2> QED
    BY <2>1, <2>2, <2>3, <2>4, <2>5 DEF Init, TypeOK
<1>2. OwnersInv
  <2> SUFFICES ASSUME NEW r \in OfStart PROVE Owned(r)
    BY DEF OwnersInv
  <2>1. "down" \notin OwnedAt(r)
    BY OwnedAtIs DEF SetUp, BufPcs, PoolPcs, CtlPcs, SmdPcs, IrqPcs
  <2> QED
    BY <1>0, <2>1, KindsApart DEF Init, Owned
<1>3. DeviceInv /\ UsersInv /\ ErrsInv
  BY <1>0 DEF Init, DeviceInv, UsersInv, ErrsInv, FreedOnce, UsedWhileHeld, StartPcs,
    Resources, OfProbe
<1>4. NvInv /\ ChipInv
  BY <1>0 DEF Init, NvInv, ChipInv, NoCaps, Resources, OfProbe
<1> QED
  BY <1>1, <1>2, <1>3, <1>4 DEF Inv, HoldInv

LEMMA InvNext == Inv /\ [Next]_vars => Inv'
BY TypeNext, OwnersNext, DeviceNext, UsersNext, ErrsNext, NvNext, ChipNext DEF Inv, HoldInv

LEMMA Invariant == Spec => []Inv
<1> QED
  BY InitInv, InvNext, PTL DEF Spec

\* Every variable keeps its type through any number of probes, starts and
\* failures (main.c:236-336, 1063-1122); the offset stays a u16.
THEOREM TypeCorrect == Spec => []TypeOK
<1>1. Inv => TypeOK
  BY DEF Inv
<1> QED
  BY <1>1, Invariant, PTL

\* wcn36xx_smd_load_nv sends the whole table, in order and flagged at its end,
\* for every file size that a u16 offset can address (smd.c:344-379), and the
\* device comes up with the registers of its chip (main.c:290).
THEOREM NvWhole == Spec => []NvComplete
<1>1. Inv => NvComplete
  <2> SUFFICES ASSUME Inv PROVE NvComplete
    OBVIOUS
  <2>1. pc = "up" /\ (failed \cap {"caps", "timeout"} = {} \/ wcn.caps # "none") =>
          wcn.chip_version = chip.is
    BY DEF Inv, TypeOK, ChipInv, Detected, Chips
  <2> QED
    BY <2>1 DEF Inv, NvInv, NvComplete
<1> QED
  BY <1>1, Invariant, PTL

\* No path of start, stop, probe and remove frees anything twice, except those
\* after a failed allocation of the pools or control blocks (main.c:307-316).
THEOREM ReleasedOnce == Spec => []FreedOnce
<1>1. Inv => FreedOnce
  BY DEF Inv, HoldInv, ErrsInv
<1> QED
  BY <1>1, Invariant, PTL

\* The handlers, the SMD worker and load_nv find what they use, wherever a
\* start, a stop or a removal is (main.c:327-335, 1115-1118).
THEOREM HeldWhileUsed == Spec => []UsedWhileHeld
<1>1. Inv => UsedWhileHeld
  BY DEF Inv, HoldInv, ErrsInv
<1> QED
  BY <1>1, Invariant, PTL

\* Nothing of a start outlives it, and nothing of a probe the removal, but for
\* the leaks that NothingHeld names (main.c:263, dxe.c:796, wcn36xx_msm/main.c:175, 183).
THEOREM NothingLeaks == Spec => []NothingHeld
<1>1. Inv => NothingHeld
  <2> SUFFICES ASSUME Inv PROVE NothingHeld
    OBVIOUS
  <2>1. ASSUME pc = "down",
               failed \cap {"hal_buf", "irq", "named_open", "interrupted"} = {},
               NEW r \in OfStart
        PROVE  mem[r] # "held"
    <3>1. pc \notin OwnedAt(r)
      BY <2>1, OwnedAtIs DEF SetUp, BufPcs, PoolPcs, CtlPcs, SmdPcs, IrqPcs
    <3>2. failed \cap LeakedBy(r) = {}
      BY <2>1, LeakedIs
    <3> QED
      BY <3>1, <3>2 DEF Inv, HoldInv, OwnersInv, Owned
  <2>2. drv = "absent" /\ "raced" \notin failed => \A r \in OfProbe : mem[r] # "held"
    BY DEF Inv, HoldInv, DeviceInv, OfProbe
  <2> QED
    BY <2>1, <2>2 DEF NothingHeld
<1> QED
  BY <1>1, Invariant, PTL
=============================================================================
