------------------------------ MODULE Station ------------------------------
(***************************************************************************)
(* An interface in station mode: the mac80211 callbacks of main.c, the     *)
(* power-save calls of pmc.c and its debugfs switch, and what each of      *)
(* their firmware commands (smd.c) leaves behind in the driver and in the  *)
(* firmware.                                                               *)
(*                                                                         *)
(* A callback is its field assignments up to the first command, and the    *)
(* steps still to do: commands, and the assignments after them.  A command *)
(* is one exchange under hal_mutex (module Smd), so two threads interleave *)
(* between commands.  Return codes of commands are ignored by every        *)
(* callback, except by the power-save calls.                               *)
(*                                                                         *)
(* mac80211 is modelled by the order in which it calls a driver: one       *)
(* connection at a time, each with a BSS, a peer, at most one pairwise and *)
(* one group key, power save only in between.  Scans, the channel, the     *)
(* multicast filter and the RTS threshold come from work items of its own, *)
(* one after the other, at any time of a connection.                       *)
(***************************************************************************)
EXTENDS Naturals, Sequences, FiniteSets

CONSTANTS
  MaxConns,    \* bound: connections attempted
  BssNum,      \* BSS entries in the firmware
  StaNum,      \* station entries in the firmware
  MaxFaults,   \* bound: commands the firmware fails or whose response comes
               \* too late, although the command was done
  MaxAsked,    \* bound: requests of debugfs and of mac80211's work items
  MaxMc        \* multicast addresses the firmware can hold,
               \* WCN36XX_HAL_MAX_NUM_MULTICAST_ADDRESS, 240

ASSUME StationAssumption ==
  /\ {MaxConns, BssNum, MaxFaults, MaxAsked, MaxMc} \subseteq Nat
  /\ StaNum \in Nat \ {0}

BssIdx   == 0..(BssNum - 1)
StaIdx   == 0..(StaNum - 1)
Invalid  == BssNum              \* WCN36XX_HAL_BSS_INVALID_IDX
Threads  == {"mac", "work", "dfs"}
Lists    == 0..MaxMc    \* addresses of a multicast list; none lets all pass

VARIABLES
  vif,      \* struct wcn36xx_vif
  sta,      \* struct wcn36xx_sta of the peer
  thr,      \* what each thread has still to do, the result of its enter_bmps
  mac,      \* mac80211: phase, keys, power save, scan, filter, connections so far
  fw,       \* the firmware
  asked,    \* requests so far
  faults,   \* commands failed or lost so far
  history   \* "lost", "refused", "kept" (a removal refused), "mixed" (two
            \* power-save calls at once), "noexit" (an exit refused),
            \* "outlived" (a multicast list came after its association)

vars == <<vif, sta, thr, mac, fw, asked, faults, history>>

Phases == {"none", "idle", "bss", "peer", "assoc", "bye"}
NoSta  == [there |-> FALSE, aid |-> FALSE, sta_index |-> 0,
           bss_sta_index |-> 0, is_data_encrypted |-> FALSE]
NewVif == [sta_assoc |-> FALSE, bss_index |-> 0, pw_state |-> "full",
           self_sta_index |-> 0, encrypted |-> FALSE]

Init ==
  /\ vif = NewVif /\ sta = NoSta
  /\ thr = [t \in Threads |-> [todo |-> <<>>, ret |-> TRUE]]
  /\ mac = [phase |-> "none", pairwise |-> FALSE, group |-> FALSE,
            ps |-> FALSE, assoc |-> FALSE, scan |-> FALSE, filter |-> 0,
            conns |-> 0]
  /\ fw = [bss |-> [b \in BssIdx |-> 0],        \* 0, or whose BSS
           of |-> [b \in BssIdx |-> 0],         \* the BSS's station entry
           sta |-> [i \in StaIdx |-> "free"],
           stakey |-> {}, bsskey |-> {}, asleep |-> {},
           mc |-> [b \in BssIdx |-> 0], scan |-> "no"]
  /\ asked = 0 /\ faults = 0 /\ history = {}

-----------------------------------------------------------------------------
(* Threads and commands.                                                   *)

Idle(t)    == thr[t].todo = <<>>
At(t, c)   == thr[t].todo # <<>> /\ Head(thr[t].todo) = c
Start(t, todo) == thr' = [thr EXCEPT ![t].todo = todo]
Step(t)    == thr' = [thr EXCEPT ![t] = [todo |-> Tail(@.todo), ret |-> TRUE]]

PmcSteps   == {"enter_bmps", "pw_enter", "exit_bmps", "pw_full"}
InPmc(t)   == \E i \in DOMAIN thr[t].todo : thr[t].todo[i] \in PmcSteps

Removals   == {"delete_sta_self", "delete_sta", "delete_bss", "remove_stakey",
               "remove_bsskey", "end_scan", "finish_scan"}

SetMc      == {"set_mc_all", "set_mc_list"}

\* A command ends in one of three ways; one that names something the firmware
\* does not have fails.
Outcomes(known) ==
  (IF known THEN {"ok"} ELSE {"unknown"})
    \cup (IF faults = MaxFaults THEN {}
          ELSE IF known THEN {"refused", "lost"} ELSE {"refused"})

Finish(t, o) ==
  LET c == Head(thr[t].todo) IN
  /\ thr' = [thr EXCEPT ![t] = [todo |-> Tail(@.todo),
                                ret |-> o = "ok" \/ c # "enter_bmps"]]
  /\ faults' = faults + (IF o \in {"refused", "lost"} THEN 1 ELSE 0)
  /\ history' = history
       \cup (IF o = "lost" THEN {"lost"} ELSE {})
       \cup (IF o = "refused" /\ (t = "mac" \/ c \in SetMc) THEN {"refused"} ELSE {})
       \cup (IF o = "refused" /\ c \in Removals THEN {"kept"} ELSE {})
       \cup (IF c = "exit_bmps" /\ o # "ok" THEN {"noexit"} ELSE {})
       \cup (IF c = "set_mc_list" /\ ~vif.sta_assoc THEN {"outlived"} ELSE {})

\* A command: whether the firmware knows what it names, what it does there, and
\* what of its response the driver keeps.
Command(t, c, known, effect, answered) ==
  /\ At(t, c)
  /\ \E o \in Outcomes(known) :
       /\ fw' = IF o \in {"ok", "lost"} THEN effect ELSE fw
       /\ IF o = "ok" THEN answered ELSE UNCHANGED <<vif, sta>>
       /\ Finish(t, o)
  /\ UNCHANGED <<mac, asked>>

HasBss(b)   == b \in BssIdx /\ fw.bss[b] # 0
FreeSta     == {i \in StaIdx : fw.sta[i] = "free"}
FreeBss     == {b \in BssIdx : fw.bss[b] = 0}
Least(S)    == CHOOSE x \in S : \A y \in S : x <= y
Silent      == UNCHANGED <<vif, sta>>

-----------------------------------------------------------------------------
(* The commands of smd.c and their responses.                              *)

AddStaSelf(t) ==
  LET i == IF FreeSta = {} THEN 0 ELSE Least(FreeSta) IN
  Command(t, "add_sta_self", FreeSta # {}, [fw EXCEPT !.sta[i] = "self"],
          vif' = [vif EXCEPT !.self_sta_index = i] /\ UNCHANGED sta)

\* By address, not by index.
Self == {i \in StaIdx : fw.sta[i] = "self"}
DeleteStaSelf(t) ==
  Command(t, "delete_sta_self", Self # {},
          [fw EXCEPT !.sta = [i \in StaIdx |-> IF i \in Self THEN "free" ELSE @[i]]],
          Silent)

\* config_bss with action "add": a BSS and the entry of its station.  The
\* response gives bss_index; there is no ieee80211_sta yet to tell about it.
ConfigBss(t) ==
  LET room == FreeBss # {} /\ FreeSta # {}
      b == IF room THEN Least(FreeBss) ELSE 0
      i == IF room THEN Least(FreeSta) ELSE 0
  IN
  Command(t, "config_bss", room,
          [fw EXCEPT !.bss[b] = mac.conns, !.of[b] = i, !.sta[i] = "bss"],
          vif' = [vif EXCEPT !.bss_index = b] /\ UNCHANGED sta)

\* config_bss with action "update" and the peer: bss_sta_index is known now.
UpdateBss(t) ==
  Command(t, "update_bss", HasBss(vif.bss_index), fw,
          sta' = [sta EXCEPT !.bss_sta_index = fw.of[vif.bss_index]] /\ UNCHANGED vif)

\* Mutant: the index in the response is not kept.
ConfigStaForgets(t) ==
  LET i == IF FreeSta = {} THEN 0 ELSE Least(FreeSta) IN
  Command(t, "config_sta", HasBss(vif.bss_index) /\ FreeSta # {},
          [fw EXCEPT !.sta[i] = "peer"], Silent)

ConfigSta(t) ==
  LET i == IF FreeSta = {} THEN 0 ELSE Least(FreeSta) IN
  Command(t, "config_sta", HasBss(vif.bss_index) /\ FreeSta # {},
          [fw EXCEPT !.sta[i] = "peer"],
          sta' = [sta EXCEPT !.sta_index = i] /\ UNCHANGED vif)

DeleteSta(t) ==
  LET i == sta.sta_index IN
  Command(t, "delete_sta", fw.sta[i] # "free",
          [fw EXCEPT !.sta[i] = "free", !.stakey = @ \ {i}], Silent)

DeleteBss(t) ==
  LET b == vif.bss_index IN
  Command(t, "delete_bss", HasBss(b),
          [fw EXCEPT !.bss[b] = 0, !.sta[fw.of[b]] = "free",
                     !.stakey = @ \ {fw.of[b]}, !.bsskey = @ \ {b},
                     !.asleep = @ \ {b}, !.mc[b] = 0],
          Silent)

\* Mutant: the peer's own index.
SetStaKeyOwn(t) ==
  Command(t, "set_stakey", fw.sta[sta.sta_index] # "free",
          [fw EXCEPT !.stakey = @ \cup {sta.sta_index}], Silent)

\* The index is get_sta_index: bss_sta_index for a station.
SetStaKey(t) ==
  Command(t, "set_stakey", fw.sta[sta.bss_sta_index] # "free",
          [fw EXCEPT !.stakey = @ \cup {sta.bss_sta_index}], Silent)

RemoveStaKey(t) ==
  Command(t, "remove_stakey", sta.bss_sta_index \in fw.stakey,
          [fw EXCEPT !.stakey = @ \ {sta.bss_sta_index}], Silent)

\* bss_idx is always 0.
SetBssKey(t) ==
  Command(t, "set_bsskey", HasBss(0), [fw EXCEPT !.bsskey = @ \cup {0}], Silent)

RemoveBssKey(t) ==
  Command(t, "remove_bsskey", 0 \in fw.bsskey, [fw EXCEPT !.bsskey = @ \ {0}], Silent)

EnterBmps(t) ==
  Command(t, "enter_bmps", HasBss(vif.bss_index) /\ vif.bss_index \notin fw.asleep,
          [fw EXCEPT !.asleep = @ \cup {vif.bss_index}], Silent)

ExitBmps(t) ==
  Command(t, "exit_bmps", vif.bss_index \in fw.asleep,
          [fw EXCEPT !.asleep = @ \ {vif.bss_index}], Silent)

\* join and set_link_st change nothing that matters here.
OtherCommand(t) ==
  \E c \in {"join", "set_link_st"} : Command(t, c, TRUE, fw, Silent)

\* Nor do these; this one names the BSS, whether there is one or not.
KeepAlive(t) == Command(t, "keep_alive", HasBss(vif.bss_index), fw, Silent)

\* The channel of the interface, by its address.
SwitchChannel(t)  == Command(t, "switch_channel", Self # {}, fw, Silent)
UpdateCfg(t)      == Command(t, "update_cfg", TRUE, fw, Silent)
SetPowerParams(t) == Command(t, "set_power_params", TRUE, fw, Silent)
DumpCmd(t)        == Command(t, "dump_cmd", TRUE, fw, Silent)

\* A scan is four commands, and outside of it the firmware is in no scan mode.
ScanStep(t, c, from, to) ==
  Command(t, c, fw.scan = from, [fw EXCEPT !.scan = to], Silent)
InitScan(t)   == ScanStep(t, "init_scan", "no", "mode")
StartScan(t)  == ScanStep(t, "start_scan", "mode", "on")
EndScan(t)    == ScanStep(t, "end_scan", "on", "mode")
FinishScan(t) == ScanStep(t, "finish_scan", "mode", "no")

\* wcn36xx_prepare_multicast: more addresses than the firmware can hold, or no
\* memory, make a list of none.
prepare_multicast(n) == IF n <= MaxMc THEN n ELSE 0

\* bss_index is read when the command is built.
SetMcList(t) ==
  LET b == vif.bss_index
      Filter(n) == IF HasBss(b) THEN [fw EXCEPT !.mc[b] = n] ELSE fw
  IN
  \/ Command(t, "set_mc_all", HasBss(b), Filter(0), Silent)
  \/ Command(t, "set_mc_list", HasBss(b), Filter(prepare_multicast(mac.filter)), Silent)

\* The assignments that follow a command.
Assign(t) ==
  /\ \/ /\ At(t, "pw_enter")       \* only if the firmware agreed
        /\ vif' = [vif EXCEPT !.pw_state = IF thr[t].ret THEN "bmps" ELSE @]
        /\ UNCHANGED sta
     \/ /\ At(t, "pw_full")        \* in any case
        /\ vif' = [vif EXCEPT !.pw_state = "full"]
        /\ UNCHANGED sta
     \/ /\ At(t, "plain")
        /\ vif' = [vif EXCEPT !.encrypted = FALSE]
        /\ UNCHANGED sta
     \/ /\ At(t, "unassoc")
        /\ vif' = [vif EXCEPT !.sta_assoc = FALSE]
        /\ UNCHANGED sta
     \/ /\ At(t, "aid")
        /\ sta' = [sta EXCEPT !.aid = TRUE]
        /\ UNCHANGED vif
     \/ /\ At(t, "gone")
        /\ sta' = NoSta
        /\ UNCHANGED vif
  /\ Step(t)
  /\ UNCHANGED <<mac, fw, asked, faults, history>>

-----------------------------------------------------------------------------
(* The callbacks.                                                          *)

Call(from) == Idle("mac") /\ mac.phase \in from

add_interface ==
  /\ Call({"none"})
  /\ vif' = NewVif
  /\ mac' = [mac EXCEPT !.phase = "idle"]
  /\ Start("mac", <<"add_sta_self">>)
  /\ UNCHANGED <<sta, fw, asked, faults, history>>

\* The debugfs switch and the work items walk vif_list unprotected; one that
\* outlives the interface is left out.
remove_interface ==
  /\ Call({"idle"}) /\ Idle("dfs") /\ Idle("work") /\ ~mac.group /\ ~mac.scan
  /\ mac' = [mac EXCEPT !.phase = "none"]
  /\ Start("mac", <<"delete_sta_self">>)
  /\ UNCHANGED <<vif, sta, fw, asked, faults, history>>

\* BSS_CHANGED_BSSID with an address.
JoinBss0xFF ==               \* mutant: not an index at all
  /\ Call({"idle"}) /\ ~mac.group /\ mac.conns < MaxConns
  /\ mac' = [mac EXCEPT !.phase = "bss", !.conns = @ + 1]
  /\ vif' = [vif EXCEPT !.bss_index = Invalid + 1]
  /\ Start("mac", <<"join", "config_bss">>)
  /\ UNCHANGED <<sta, fw, asked, faults, history>>

JoinBss ==
  /\ Call({"idle"}) /\ ~mac.group /\ mac.conns < MaxConns
  /\ mac' = [mac EXCEPT !.phase = "bss", !.conns = @ + 1]
  /\ vif' = [vif EXCEPT !.bss_index = Invalid]
  /\ Start("mac", <<"join", "config_bss">>)
  /\ UNCHANGED <<sta, fw, asked, faults, history>>

\* In station mode the peer is configured on BSS_CHANGED_ASSOC.
sta_add ==
  /\ Call({"bss"})
  /\ mac' = [mac EXCEPT !.phase = "peer"]
  /\ sta' = [NoSta EXCEPT !.there = TRUE]
  /\ UNCHANGED <<vif, thr, fw, asked, faults, history>>

\* BSS_CHANGED_ASSOC with assoc.
Associate ==
  /\ Call({"peer"}) /\ sta.there
  /\ mac' = [mac EXCEPT !.phase = "assoc", !.assoc = TRUE]
  /\ vif' = [vif EXCEPT !.sta_assoc = TRUE]
  /\ Start("mac", <<"set_link_st", "update_bss", "aid", "config_sta">>)
  /\ UNCHANGED <<sta, fw, asked, faults, history>>

SetPairwiseKey ==
  /\ Call({"assoc"}) /\ ~mac.pairwise
  /\ mac' = [mac EXCEPT !.pairwise = TRUE]
  /\ vif' = [vif EXCEPT !.encrypted = TRUE]
  /\ sta' = [sta EXCEPT !.is_data_encrypted = TRUE]
  /\ Start("mac", <<"update_bss", "set_stakey">>)
  /\ UNCHANGED <<fw, asked, faults, history>>

SetGroupKey ==
  /\ Call({"assoc"}) /\ ~mac.group
  /\ mac' = [mac EXCEPT !.group = TRUE]
  /\ vif' = [vif EXCEPT !.encrypted = TRUE]
  /\ Start("mac", <<"set_bsskey">>)
  /\ UNCHANGED <<sta, fw, asked, faults, history>>

\* "do not remove key if disassociated"
DisablePairwiseKey ==
  /\ Call({"assoc"}) /\ mac.pairwise
  /\ mac' = [mac EXCEPT !.pairwise = FALSE]
  /\ sta' = [sta EXCEPT !.is_data_encrypted = FALSE]
  /\ Start("mac", IF sta.aid THEN <<"remove_stakey">> ELSE <<>>)
  /\ UNCHANGED <<vif, fw, asked, faults, history>>

\* cfg80211 removes the group key of an ended connection after it.
DisableGroupKey ==
  /\ Call({"assoc", "idle"}) /\ mac.group
  /\ mac' = [mac EXCEPT !.group = FALSE]
  /\ vif' = [vif EXCEPT !.encrypted = FALSE]
  /\ Start("mac", <<"remove_bsskey">>)
  /\ UNCHANGED <<sta, fw, asked, faults, history>>

sta_remove ==
  /\ Call({"peer", "assoc"}) /\ ~mac.pairwise /\ ~mac.ps
  /\ mac' = [mac EXCEPT !.phase = "bye"]
  /\ Start("mac", <<"delete_sta", "gone">>)
  /\ UNCHANGED <<vif, sta, fw, asked, faults, history>>

\* BSS_CHANGED_BSSID with the zero address, after an association together
\* with BSS_CHANGED_ASSOC.
LeaveBssAssoc ==             \* mutant: delete_bss only after an association
  /\ Call({"bss", "bye"})
  /\ mac' = [mac EXCEPT !.phase = "idle", !.assoc = FALSE]
  /\ Start("mac", IF mac.assoc
                  THEN <<"delete_bss", "plain", "unassoc", "set_link_st">>
                  ELSE <<>>)
  /\ UNCHANGED <<vif, sta, fw, asked, faults, history>>

LeaveBss ==
  /\ Call({"bss", "bye"})
  /\ mac' = [mac EXCEPT !.phase = "idle", !.assoc = FALSE]
  /\ Start("mac", <<"delete_bss", "plain">>
             \o (IF mac.assoc THEN <<"unassoc", "set_link_st">> ELSE <<>>))
  /\ UNCHANGED <<vif, sta, fw, asked, faults, history>>

\* Mutant: pw_state does not follow the entry.
PmcSilent(t, on, before) ==
  /\ Start(t, IF on THEN before \o <<"enter_bmps">>
              ELSE IF vif.pw_state = "bmps" THEN <<"exit_bmps", "pw_full">>
              ELSE <<>>)
  /\ history' = IF \E u \in Threads \ {t} : InPmc(u)
                THEN history \cup {"mixed"} ELSE history

\* wcn36xx_pmc_enter_bmps_state and wcn36xx_pmc_exit_bmps_state, by either
\* thread.  The exit looks at pw_state first.
Pmc(t, on, before) ==
  /\ Start(t, IF on THEN before \o <<"enter_bmps", "pw_enter">>
              ELSE IF vif.pw_state = "bmps" THEN <<"exit_bmps", "pw_full">>
              ELSE <<>>)
  /\ history' = IF \E u \in Threads \ {t} : InPmc(u)
                THEN history \cup {"mixed"} ELSE history

\* BSS_CHANGED_PS.
ChangePs ==
  /\ Call({"assoc"})
  /\ mac' = [mac EXCEPT !.ps = ~@]
  /\ Pmc("mac", ~mac.ps, <<>>)
  /\ UNCHANGED <<vif, sta, fw, asked, faults>>

\* Requests from outside the connection.
Request(t) ==
  /\ Idle(t) /\ asked < MaxAsked /\ mac.phase # "none"
  /\ asked' = asked + 1
  /\ UNCHANGED <<vif, sta, fw, faults>>

sw_scan_start ==
  /\ Request("work") /\ ~mac.scan
  /\ mac' = [mac EXCEPT !.scan = TRUE]
  /\ Start("work", <<"init_scan", "start_scan">>)
  /\ UNCHANGED history

\* To every scan that was started.
sw_scan_complete ==
  /\ Idle("work") /\ mac.scan
  /\ mac' = [mac EXCEPT !.scan = FALSE]
  /\ Start("work", <<"end_scan", "finish_scan">>)
  /\ UNCHANGED <<vif, sta, fw, asked, faults, history>>

\* wcn36xx_config and wcn36xx_set_rts_threshold.
config ==
  /\ Request("work")
  /\ Start("work", <<"switch_channel">>)
  /\ UNCHANGED <<mac, history>>

set_rts_threshold ==
  /\ Request("work")
  /\ Start("work", <<"update_cfg">>)
  /\ UNCHANGED <<mac, history>>

\* FIF_ALLMULTI or FIF_PROMISC_IN_BSS goes to the firmware always, a list of n
\* addresses only while sta_assoc is set.
Everything == MaxMc + 1
configure_filter ==
  /\ Request("work")
  /\ \/ /\ mac' = [mac EXCEPT !.filter = Everything]
        /\ Start("work", <<"set_mc_all">>)
     \/ \E n \in 0..Everything, nomem \in BOOLEAN :
          /\ mac' = [mac EXCEPT !.filter = n]
          /\ Start("work", IF ~vif.sta_assoc THEN <<>>
                           ELSE IF nomem THEN <<"set_mc_all">> ELSE <<"set_mc_list">>)
  /\ UNCHANGED history

\* wcn36xx_suspend and wcn36xx_resume, between two callbacks.
suspend_resume ==
  /\ Request("mac")
  /\ Start("mac", <<"set_power_params">>)
  /\ UNCHANGED <<mac, history>>

write_file_dump ==
  /\ Request("dfs")
  /\ Start("dfs", <<"dump_cmd">>)
  /\ UNCHANGED <<mac, history>>

\* write_file_bool_bmps, for the one interface of vif_list.
write_file_bool_bmps ==
  /\ Request("dfs")
  /\ \E on \in BOOLEAN : Pmc("dfs", on, <<"keep_alive">>)
  /\ UNCHANGED mac

-----------------------------------------------------------------------------
Smd(t) ==
  \/ AddStaSelf(t) \/ DeleteStaSelf(t) \/ ConfigBss(t) \/ UpdateBss(t)
  \/ ConfigSta(t) \/ DeleteSta(t) \/ DeleteBss(t) \/ SetStaKey(t)
  \/ RemoveStaKey(t) \/ SetBssKey(t) \/ RemoveBssKey(t) \/ EnterBmps(t)
  \/ ExitBmps(t) \/ OtherCommand(t) \/ Assign(t)
  \/ KeepAlive(t) \/ SwitchChannel(t) \/ UpdateCfg(t) \/ SetPowerParams(t)
  \/ DumpCmd(t) \/ InitScan(t) \/ StartScan(t) \/ EndScan(t) \/ FinishScan(t)
  \/ SetMcList(t)

MacCall ==
  \/ add_interface \/ remove_interface \/ JoinBss \/ sta_add \/ Associate
  \/ SetPairwiseKey \/ SetGroupKey \/ DisablePairwiseKey \/ DisableGroupKey
  \/ sta_remove \/ LeaveBss \/ ChangePs

Requests ==
  \/ sw_scan_start \/ sw_scan_complete \/ config \/ set_rts_threshold
  \/ configure_filter \/ suspend_resume \/ write_file_dump \/ write_file_bool_bmps

Next == (\E t \in Threads : Smd(t)) \/ MacCall \/ Requests

Spec == Init /\ [][Next]_vars

-----------------------------------------------------------------------------
(* Properties.                                                             *)

Steps == Removals \cup PmcSteps \cup SetMc
           \cup {"add_sta_self", "config_bss", "update_bss", "config_sta",
                 "set_stakey", "set_bsskey", "join", "set_link_st",
                 "keep_alive", "switch_channel", "update_cfg",
                 "set_power_params", "dump_cmd", "init_scan", "start_scan",
                 "plain", "unassoc", "aid", "gone"}

\* Every variable keeps its type; the indices sent are indices or Invalid.
TypeOK ==
  /\ vif \in [sta_assoc : BOOLEAN, bss_index : BssIdx \cup {0, Invalid},
              pw_state : {"full", "bmps"}, self_sta_index : StaIdx,
              encrypted : BOOLEAN]
  /\ sta \in [there : BOOLEAN, aid : BOOLEAN, sta_index : StaIdx,
              bss_sta_index : StaIdx, is_data_encrypted : BOOLEAN]
  /\ thr \in [Threads -> [todo : Seq(Steps), ret : BOOLEAN]]
  /\ mac \in [phase : Phases, pairwise : BOOLEAN, group : BOOLEAN,
              ps : BOOLEAN, assoc : BOOLEAN, scan : BOOLEAN,
              filter : 0..Everything, conns : 0..MaxConns]
  /\ fw \in [bss : [BssIdx -> 0..MaxConns], of : [BssIdx -> StaIdx],
             sta : [StaIdx -> {"free", "self", "bss", "peer"}],
             stakey : SUBSET StaIdx, bsskey : SUBSET (BssIdx \cup {0}),
             asleep : SUBSET BssIdx, mc : [BssIdx -> Lists],
             scan : {"no", "mode", "on"}]
  /\ asked \in 0..MaxAsked /\ faults \in 0..MaxFaults
  /\ history \subseteq {"lost", "refused", "kept", "mixed", "noexit", "outlived"}

\* When a connection has ended, after whatever part of it came about, the
\* firmware has nothing left of it: no BSS, no station entry but the
\* interface's own, no station key; and after a scan it is in no scan mode.  A
\* response that was lost, or a removal the firmware refused, leaves something
\* (smd.c discards the index with the response); a refused configuration, or a
\* scan that could not begin (main.c:546), does not.
NothingLeft ==
  (mac.phase \in {"none", "idle"} /\ Idle("mac") /\ history \cap {"lost", "kept"} = {})
    => /\ \A b \in BssIdx : fw.bss[b] = 0
       /\ \A i \in StaIdx : fw.sta[i] \in {"free", "self"}
       /\ fw.stakey = {} /\ fw.asleep = {}
       /\ ~mac.scan /\ Idle("work") => fw.scan = "no"

\* A data frame of an associated station names the entry of its BSS, with a
\* key exactly if is_data_encrypted clears the no-encryption bit of its BD
\* (txrx.c:177, 193), its group key belongs to this BSS (set_bsskey has no
\* index): unless a command failed.  And if the firmware filters multicast for
\* it, then by the list mac80211 asked for last.  sta_assoc and bss_index are
\* read at different moments (main.c:382, smd.c:2168): a list delayed beyond
\* its association may end up with the next BSS, and is excepted.
PeerAsConfigured ==
  (mac.phase = "assoc" /\ Idle("mac") /\ history \cap {"lost", "refused"} = {})
    => /\ fw.bss[vif.bss_index] = mac.conns
       /\ sta.bss_sta_index = fw.of[vif.bss_index]
       /\ fw.sta[sta.bss_sta_index] = "bss" /\ fw.sta[sta.sta_index] = "peer"
       /\ sta.is_data_encrypted <=> sta.bss_sta_index \in fw.stakey
       /\ mac.group <=> vif.bss_index \in fw.bsskey
       /\ Idle("work") =>
            fw.mc[vif.bss_index] \in {0, mac.filter} \/ "outlived" \in history

\* Whenever the chip sleeps pw_state says so, which is what the transmit path
\* goes by (dxe.c:668) and what makes an exit possible (pmc.c:48): as long as
\* two power-save calls did not overlap, no exit or removal was refused and no
\* response lost.
SleepIsKnown ==
  (fw.asleep # {} /\ (\A t \in Threads : ~InPmc(t))
     /\ history \cap {"lost", "kept", "mixed", "noexit"} = {})
    => vif.pw_state = "bmps"

\* "STA index is returned from HW after config_sta call and is used in both
\* SMD channel and TX BD" (wcn36xx.h:149): what delete_sta names is the entry
\* the firmware gave the peer, if nothing failed and the peer associated.  One
\* that did not was never configured: its index is the 0 it was allocated with,
\* which is the interface's own entry (main.c:871).
DeletesThePeer ==
  (At("mac", "delete_sta") /\ mac.assoc /\ history \cap {"lost", "refused"} = {})
    => fw.sta[sta.sta_index] = "peer"
=============================================================================
