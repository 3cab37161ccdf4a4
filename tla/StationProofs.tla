--------------------------- MODULE StationProofs ---------------------------
(***************************************************************************)
(* Proofs about Station, for any number of connections, requests and       *)
(* faults, any tables of the firmware and any size of the multicast list.  *)
(*                                                                         *)
(* What a thread has still to do is always the end of one of few lists     *)
(* (Places), and says what of a connection there can be: the BSS that      *)
(* exists is the one vif names, until delete_bss is done (BssInv), its     *)
(* entries are those that sta and the BSS name (EntryInv, KeyInv), and the *)
(* chip sleeps in no other BSS, as pw_state says or is about to (PmcInv).  *)
(*                                                                         *)
(* While no command failed, the converse holds too (Held): the BSS, its    *)
(* entry, the peer, its key, the group key and the multicast list exist    *)
(* exactly when the driver is in the part of a connection that needs them, *)
(* and at the index it kept.                                               *)
(***************************************************************************)
EXTENDS Station, WellFoundedInduction, SequenceTheorems, TLAPS

AssocLists == {<<"set_link_st", "update_bss", "aid", "config_sta">>,
               <<"update_bss", "aid", "config_sta">>, <<"aid", "config_sta">>,
               <<"config_sta">>}
NoAid      == AssocLists \ {<<"config_sta">>}
KeyLists   == {<<"update_bss", "set_stakey">>, <<"set_stakey">>}
BmpsLists  == {<<"enter_bmps", "pw_enter">>, <<"pw_enter">>,
               <<"exit_bmps", "pw_full">>, <<"pw_full">>}
LeaveLists == {<<"delete_bss", "plain">>, <<"plain">>,
               <<"delete_bss", "plain", "unassoc", "set_link_st">>,
               <<"plain", "unassoc", "set_link_st">>, <<"unassoc", "set_link_st">>,
               <<"set_link_st">>}
Resting    == {<<>>, <<"set_power_params">>}

PhaseLists(p) ==
  CASE p = "none"  -> {<<>>, <<"delete_sta_self">>}
    [] p = "idle"  -> Resting \cup LeaveLists \cup {<<"add_sta_self">>, <<"remove_bsskey">>}
    [] p = "bss"   -> Resting \cup {<<"join", "config_bss">>, <<"config_bss">>}
    [] p = "peer"  -> Resting
    [] p = "assoc" -> Resting \cup AssocLists \cup KeyLists \cup BmpsLists
                        \cup {<<"set_bsskey">>, <<"remove_stakey">>, <<"remove_bsskey">>}
    [] p = "bye"   -> Resting \cup {<<"delete_sta", "gone">>, <<"gone">>}
DfsLists  == {<<>>, <<"keep_alive", "enter_bmps", "pw_enter">>, <<"dump_cmd">>} \cup BmpsLists
WorkLists == {<<>>, <<"init_scan", "start_scan">>, <<"start_scan">>,
              <<"end_scan", "finish_scan">>, <<"finish_scan">>, <<"switch_channel">>,
              <<"update_cfg">>, <<"set_mc_all">>, <<"set_mc_list">>}

MacList == thr["mac"].todo
Places ==
  /\ MacList \in PhaseLists(mac.phase)
  /\ thr["dfs"].todo \in DfsLists /\ thr["work"].todo \in WorkLists
  /\ mac.phase \in {"bss", "peer", "assoc", "bye"} => mac.conns # 0
  /\ mac.pairwise => mac.phase = "assoc" /\ MacList \notin AssocLists
  /\ MacList \in KeyLists => mac.pairwise
  /\ mac.phase = "assoc" /\ MacList \notin NoAid => sta.aid

Clean == history \cap {"lost", "kept"} = {}

\* The BSS.
BssInv ==
  \A b \in BssIdx : fw.bss[b] # 0 =>
    /\ b = vif.bss_index
    /\ \/ mac.phase \in {"peer", "assoc", "bye"}
       \/ mac.phase = "bss" /\ MacList \in Resting
       \/ mac.phase = "idle" /\ At("mac", "delete_bss")

\* Station entries.
EntryInv ==
  \A i \in StaIdx :
    /\ fw.sta[i] = "bss" => \E b \in BssIdx : fw.bss[b] # 0 /\ fw.of[b] = i
    /\ fw.sta[i] = "peer" =>
         /\ i = sta.sta_index
         /\ \/ mac.phase = "assoc" /\ MacList \notin AssocLists
            \/ mac.phase = "bye" /\ At("mac", "delete_sta")

\* Station keys.
KeyInv ==
  \A i \in fw.stakey :
    /\ i = sta.bss_sta_index
    /\ mac.phase = "assoc" /\ MacList \notin AssocLists \cup KeyLists
    /\ mac.pairwise \/ At("mac", "remove_stakey")

SleepersExist == fw.asleep \subseteq {b \in BssIdx : fw.bss[b] # 0}

ScanInv ==
  LET todo == thr["work"].todo IN
  /\ ~mac.scan /\ todo \notin {<<"end_scan", "finish_scan">>, <<"finish_scan">>} =>
       fw.scan = "no"
  /\ todo = <<"finish_scan">> => fw.scan # "on" /\ ~mac.scan
  /\ todo = <<"end_scan", "finish_scan">> => ~mac.scan
  /\ todo \in {<<"init_scan", "start_scan">>, <<"start_scan">>} => mac.scan

\* Power save: one thread at a time, and pw_state is right or about to be.
PmcInv ==
  history \cap {"mixed", "noexit"} = {} =>
    /\ ~(InPmc("mac") /\ InPmc("dfs"))
    /\ \A t \in Threads : At(t, "pw_full") => fw.asleep = {}
    /\ fw.asleep # {} =>
         \/ vif.pw_state = "bmps"
         \/ \E t \in Threads : At(t, "pw_enter") /\ thr[t].ret

Inv == /\ TypeOK /\ Places /\ SleepersExist
       /\ Clean => BssInv /\ EntryInv /\ KeyInv /\ ScanInv /\ PmcInv

-----------------------------------------------------------------------------
(* Types.                                                                  *)

LEMMA LeastIn ==
  ASSUME NEW S \in SUBSET Nat, S # {}
  PROVE  Least(S) \in S
<1> DEFINE Less == {p \in Nat \X Nat : p[1] < p[2]}
<1>1. IsWellFoundedOn(Less, Nat)
  BY NatLessThanWellFounded DEF OpToRel
<1>2. PICK x \in S : \A y \in S : ~(<<y, x>> \in Less)
  <2> HIDE DEF Less
  <2> QED
    BY <1>1, WFMin
<1>3. ASSUME NEW y \in S PROVE x <= y
  <2>1. <<y, x>> \in Less <=> y \in Nat /\ x \in Nat /\ y < x
    OBVIOUS
  <2>2. ~(y < x)
    BY <1>2, <2>1
  <2> QED
    BY <2>2
<1> QED
  BY <1>3 DEF Least

LEMMA FreeTyped ==
  ASSUME TypeOK
  PROVE  /\ FreeSta # {} => Least(FreeSta) \in FreeSta
         /\ FreeBss # {} => Least(FreeBss) \in FreeBss
         /\ FreeSta \subseteq StaIdx /\ FreeBss \subseteq BssIdx
<1>1. StaIdx \subseteq Nat /\ BssIdx \subseteq Nat
  BY StationAssumption DEF StaIdx, BssIdx
<1>2. FreeSta \subseteq StaIdx /\ FreeBss \subseteq BssIdx
  BY DEF FreeSta, FreeBss
<1> QED
  BY <1>1, <1>2, LeastIn

\* What a command does apart from what of its response the driver keeps.
Exchange(t, c, known, effect) ==
  /\ At(t, c)
  /\ \E o \in Outcomes(known) :
       /\ fw' = IF o \in {"ok", "lost"} THEN effect ELSE fw
       /\ Finish(t, o)
  /\ UNCHANGED <<mac, asked>>

FwType == [bss : [BssIdx -> 0..MaxConns], of : [BssIdx -> StaIdx],
           sta : [StaIdx -> {"free", "self", "bss", "peer"}],
           stakey : SUBSET StaIdx, bsskey : SUBSET (BssIdx \cup {0}),
           asleep : SUBSET BssIdx, mc : [BssIdx -> Lists],
           scan : {"no", "mode", "on"}]
VifType == [sta_assoc : BOOLEAN, bss_index : BssIdx \cup {0, Invalid},
            pw_state : {"full", "bmps"}, self_sta_index : StaIdx,
            encrypted : BOOLEAN]
StaType == [there : BOOLEAN, aid : BOOLEAN, sta_index : StaIdx,
            bss_sta_index : StaIdx, is_data_encrypted : BOOLEAN]
ThrType == [Threads -> [todo : Seq(Steps), ret : BOOLEAN]]
Marks == {"lost", "refused", "kept", "mixed", "noexit", "outlived"}
MacType == [phase : Phases, pairwise : BOOLEAN, group : BOOLEAN,
            ps : BOOLEAN, assoc : BOOLEAN, scan : BOOLEAN,
            filter : 0..Everything, conns : 0..MaxConns]

LEMMA Types ==
  TypeOK <=> /\ vif \in VifType /\ sta \in StaType /\ thr \in ThrType
             /\ mac \in MacType /\ fw \in FwType /\ asked \in 0..MaxAsked
             /\ faults \in 0..MaxFaults /\ history \subseteq Marks
BY DEF TypeOK, FwType, VifType, StaType, ThrType, MacType, Marks

LEMMA Types1 ==
  TypeOK' <=> /\ vif' \in VifType /\ sta' \in StaType /\ thr' \in ThrType
              /\ mac' \in MacType /\ fw' \in FwType /\ asked' \in 0..MaxAsked
              /\ faults' \in 0..MaxFaults /\ history' \subseteq Marks
BY DEF TypeOK, FwType, VifType, StaType, ThrType, MacType, Marks

LEMMA InitTyped == Init => TypeOK
<1>1. 0 \in StaIdx /\ 0 \in Lists /\ 0 \in 0..MaxConns /\ 0 \in 0..Everything
      /\ 0 \in 0..MaxAsked /\ 0 \in 0..MaxFaults
  BY StationAssumption DEF StaIdx, Lists, Everything
<1> SUFFICES ASSUME Init PROVE TypeOK
  OBVIOUS
<1>2. vif \in VifType /\ sta \in StaType /\ mac \in MacType
  BY <1>1 DEF Init, NewVif, NoSta, VifType, StaType, MacType, Phases
<1>3. thr \in ThrType
  BY DEF Init, ThrType
<1>4. fw \in FwType
  BY <1>1 DEF Init, FwType
<1> QED
  BY <1>1, <1>2, <1>3, <1>4, Types DEF Init

LEMMA ExchangeTyped ==
  ASSUME TypeOK, NEW t \in Threads, NEW c, NEW known, NEW effect,
         Exchange(t, c, known, effect)
  PROVE  /\ thr' \in ThrType /\ faults' \in 0..MaxFaults /\ history' \subseteq Marks
         /\ mac' \in MacType /\ asked' \in 0..MaxAsked
         /\ \/ fw' = fw
            \/ known /\ fw' = effect
<1>1. PICK o \in Outcomes(known) :
        /\ fw' = IF o \in {"ok", "lost"} THEN effect ELSE fw
        /\ Finish(t, o)
  BY DEF Exchange
<1>2. thr' \in ThrType
  <2>1. thr[t].todo # <<>> /\ thr[t].todo \in Seq(Steps)
    BY Types DEF Exchange, At, ThrType
  <2>2. Tail(thr[t].todo) \in Seq(Steps)
    BY <2>1
  <2> QED
    BY <1>1, <2>2, Types DEF Finish, ThrType
<1>3. faults' \in 0..MaxFaults
  BY <1>1, Types, StationAssumption DEF Finish, Outcomes
<1>4. history' \subseteq Marks
  BY <1>1, Types DEF Finish, Marks
<1>5. fw' = fw \/ (known /\ fw' = effect)
  BY <1>1 DEF Outcomes
<1> QED
  BY <1>2, <1>3, <1>4, <1>5, Types DEF Exchange

LEMMA QuietTyped ==
  ASSUME TypeOK, NEW t \in Threads, NEW c, NEW known, NEW effect,
         Exchange(t, c, known, effect), Silent, known => effect \in FwType
  PROVE  TypeOK'
<1>1. fw' \in FwType
  BY ExchangeTyped, Types
<1> QED
  BY <1>1, ExchangeTyped, Types, Types1 DEF Silent

\* The fields of fw that a command sets.
LEMMA FwFields ==
  ASSUME TypeOK
  PROVE  /\ fw.bss \in [BssIdx -> 0..MaxConns] /\ fw.of \in [BssIdx -> StaIdx]
         /\ fw.sta \in [StaIdx -> {"free", "self", "bss", "peer"}]
         /\ fw.stakey \subseteq StaIdx /\ fw.bsskey \subseteq BssIdx \cup {0}
         /\ fw.asleep \subseteq BssIdx /\ fw.mc \in [BssIdx -> Lists]
         /\ fw.scan \in {"no", "mode", "on"}
         /\ sta.sta_index \in StaIdx /\ sta.bss_sta_index \in StaIdx
         /\ 0 \in StaIdx /\ 0 \in 0..MaxConns /\ 0 \in Lists
         /\ mac.conns \in 0..MaxConns
BY Types, StationAssumption DEF FwType, StaType, MacType, StaIdx, Lists

BssDeleted(b) ==
  [fw EXCEPT !.bss[b] = 0, !.sta[fw.of[b]] = "free", !.stakey = @ \ {fw.of[b]},
             !.bsskey = @ \ {b}, !.asleep = @ \ {b}, !.mc[b] = 0]
McSet(b, n) == IF HasBss(b) THEN [fw EXCEPT !.mc[b] = n] ELSE fw

\* The commands whose response says nothing.
LEMMA QuietForms ==
  ASSUME NEW t \in Threads
  PROVE  /\ KeepAlive(t) => Silent /\
              Exchange(t, "keep_alive", HasBss(vif.bss_index), fw)
         /\ SwitchChannel(t) => Silent /\
              Exchange(t, "switch_channel", Self # {}, fw)
         /\ UpdateCfg(t) => Silent /\
              Exchange(t, "update_cfg", TRUE, fw)
         /\ SetPowerParams(t) => Silent /\
              Exchange(t, "set_power_params", TRUE, fw)
         /\ DumpCmd(t) => Silent /\
              Exchange(t, "dump_cmd", TRUE, fw)
         /\ InitScan(t) => Silent /\
              Exchange(t, "init_scan", fw.scan = "no", [fw EXCEPT !.scan = "mode"])
         /\ StartScan(t) => Silent /\
              Exchange(t, "start_scan", fw.scan = "mode", [fw EXCEPT !.scan = "on"])
         /\ EndScan(t) => Silent /\
              Exchange(t, "end_scan", fw.scan = "on", [fw EXCEPT !.scan = "mode"])
         /\ FinishScan(t) => Silent /\
              Exchange(t, "finish_scan", fw.scan = "mode", [fw EXCEPT !.scan = "no"])
         /\ SetStaKey(t) => Silent /\
              Exchange(t, "set_stakey", fw.sta[sta.bss_sta_index] # "free",
                       [fw EXCEPT !.stakey = @ \cup {sta.bss_sta_index}])
         /\ RemoveStaKey(t) => Silent /\
              Exchange(t, "remove_stakey", sta.bss_sta_index \in fw.stakey,
                       [fw EXCEPT !.stakey = @ \ {sta.bss_sta_index}])
         /\ SetBssKey(t) => Silent /\
              Exchange(t, "set_bsskey", HasBss(0), [fw EXCEPT !.bsskey = @ \cup {0}])
         /\ RemoveBssKey(t) => Silent /\
              Exchange(t, "remove_bsskey", 0 \in fw.bsskey, [fw EXCEPT !.bsskey = @ \ {0}])
         /\ DeleteSta(t) => Silent /\
              Exchange(t, "delete_sta", fw.sta[sta.sta_index] # "free",
                       [fw EXCEPT !.sta[sta.sta_index] = "free", !.stakey = @ \ {sta.sta_index}])
         /\ DeleteStaSelf(t) => Silent /\
              Exchange(t, "delete_sta_self", Self # {},
                       [fw EXCEPT !.sta = [i \in StaIdx |-> IF i \in Self THEN "free" ELSE @[i]]])
         /\ DeleteBss(t) => Silent /\
              Exchange(t, "delete_bss", HasBss(vif.bss_index), BssDeleted(vif.bss_index))
         /\ EnterBmps(t) => Silent /\
              Exchange(t, "enter_bmps", HasBss(vif.bss_index) /\ vif.bss_index \notin fw.asleep,
                       [fw EXCEPT !.asleep = @ \cup {vif.bss_index}])
         /\ ExitBmps(t) => Silent /\
              Exchange(t, "exit_bmps", vif.bss_index \in fw.asleep,
                       [fw EXCEPT !.asleep = @ \ {vif.bss_index}])
         /\ OtherCommand(t) => Silent /\
              \E c \in {"join", "set_link_st"} : Exchange(t, c, TRUE, fw)
         /\ SetMcList(t) => Silent /\
              \/ Exchange(t, "set_mc_all", HasBss(vif.bss_index), McSet(vif.bss_index, 0))
              \/ Exchange(t, "set_mc_list", HasBss(vif.bss_index),
                          McSet(vif.bss_index, prepare_multicast(mac.filter)))
BY DEF KeepAlive, SwitchChannel, UpdateCfg, SetPowerParams, DumpCmd, InitScan, StartScan,
       EndScan, FinishScan, SetStaKey, RemoveStaKey, SetBssKey, RemoveBssKey, DeleteSta,
       DeleteStaSelf, DeleteBss, EnterBmps, ExitBmps, OtherCommand, SetMcList, ScanStep,
       BssDeleted, McSet, Command, Exchange, Silent

LEMMA QuietCommandTyped ==
  ASSUME TypeOK, NEW t \in Threads,
         \/ KeepAlive(t) \/ SwitchChannel(t) \/ UpdateCfg(t) \/ SetPowerParams(t)
         \/ DumpCmd(t) \/ OtherCommand(t)
  PROVE  TypeOK'
<1>1. CASE KeepAlive(t)
  <2>1. Exchange(t, "keep_alive", HasBss(vif.bss_index), fw) /\ Silent
    BY <1>1, QuietForms
  <2> QED
    BY <2>1, QuietTyped, Types DEF HasBss
<1>2. CASE SwitchChannel(t)
  <2>1. Exchange(t, "switch_channel", Self # {}, fw) /\ Silent
    BY <1>2, QuietForms
  <2> QED
    BY <2>1, QuietTyped, Types
<1>3. CASE UpdateCfg(t) \/ SetPowerParams(t) \/ DumpCmd(t) \/ OtherCommand(t)
  <2>1. \E c : Exchange(t, c, TRUE, fw) /\ Silent
    BY <1>3, QuietForms
  <2> QED
    BY <2>1, QuietTyped, Types
<1> QED
  BY <1>1, <1>2, <1>3

LEMMA ScanTyped ==
  ASSUME TypeOK, NEW t \in Threads,
         InitScan(t) \/ StartScan(t) \/ EndScan(t) \/ FinishScan(t)
  PROVE  TypeOK'
<1>1. ASSUME NEW c, NEW from, NEW to \in {"no", "mode", "on"}, ScanStep(t, c, from, to)
      PROVE  TypeOK'
  <2>1. Exchange(t, c, fw.scan = from, [fw EXCEPT !.scan = to]) /\ Silent
    BY <1>1 DEF ScanStep, Command, Exchange, Silent
  <2>2. [fw EXCEPT !.scan = to] \in FwType
    BY Types DEF FwType
  <2> QED
    BY <2>1, <2>2, QuietTyped
<1> QED
  BY <1>1 DEF InitScan, StartScan, EndScan, FinishScan

LEMMA SetMcTyped ==
  ASSUME TypeOK, NEW t \in Threads, SetMcList(t)
  PROVE  TypeOK'
<1> DEFINE b == vif.bss_index
<1>1. prepare_multicast(mac.filter) \in Lists
  BY Types, StationAssumption DEF MacType, Lists, Everything, prepare_multicast
<1>2. ASSUME NEW n \in Lists PROVE HasBss(b) => McSet(b, n) \in FwType
  BY Types DEF FwType, HasBss, McSet
<1>3. /\ Silent /\ 0 \in Lists
      /\ \/ Exchange(t, "set_mc_all", HasBss(b), McSet(b, 0))
         \/ Exchange(t, "set_mc_list", HasBss(b), McSet(b, prepare_multicast(mac.filter)))
  BY FwFields, QuietForms
<1> QED
  BY <1>1, <1>2, <1>3, QuietTyped

LEMMA KeyTyped ==
  ASSUME TypeOK, NEW t \in Threads,
         SetStaKey(t) \/ RemoveStaKey(t) \/ SetBssKey(t) \/ RemoveBssKey(t)
  PROVE  TypeOK'
<1> DEFINE i == sta.bss_sta_index
<1>1. /\ [fw EXCEPT !.stakey = @ \cup {i}] \in FwType
      /\ [fw EXCEPT !.stakey = @ \ {i}] \in FwType
      /\ [fw EXCEPT !.bsskey = @ \cup {0}] \in FwType
      /\ [fw EXCEPT !.bsskey = @ \ {0}] \in FwType
  BY FwFields, Types DEF FwType
<1>2. CASE SetStaKey(t)
  <2>1. Exchange(t, "set_stakey", fw.sta[i] # "free",
                 [fw EXCEPT !.stakey = @ \cup {i}]) /\ Silent
    BY <1>2, QuietForms
  <2> QED
    BY <1>1, <2>1, QuietTyped DEF HasBss
<1>3. CASE RemoveStaKey(t)
  <2>1. Exchange(t, "remove_stakey", i \in fw.stakey,
                 [fw EXCEPT !.stakey = @ \ {i}]) /\ Silent
    BY <1>3, QuietForms
  <2> QED
    BY <1>1, <2>1, QuietTyped DEF HasBss
<1>4. CASE SetBssKey(t)
  <2>1. Exchange(t, "set_bsskey", HasBss(0),
                 [fw EXCEPT !.bsskey = @ \cup {0}]) /\ Silent
    BY <1>4, QuietForms
  <2> QED
    BY <1>1, <2>1, QuietTyped DEF HasBss
<1>5. CASE RemoveBssKey(t)
  <2>1. Exchange(t, "remove_bsskey", 0 \in fw.bsskey,
                 [fw EXCEPT !.bsskey = @ \ {0}]) /\ Silent
    BY <1>5, QuietForms
  <2> QED
    BY <1>1, <2>1, QuietTyped DEF HasBss
<1> QED
  BY <1>2, <1>3, <1>4, <1>5

LEMMA DeleteTyped ==
  ASSUME TypeOK, NEW t \in Threads, DeleteSta(t) \/ DeleteStaSelf(t) \/ DeleteBss(t)
  PROVE  TypeOK'
<1>1. CASE DeleteSta(t)
  <2> DEFINE i == sta.sta_index
             e == [fw EXCEPT !.sta[i] = "free", !.stakey = @ \ {i}]
  <2>1. Exchange(t, "delete_sta", fw.sta[i] # "free", e) /\ Silent
    BY <1>1, QuietForms
  <2>2. e \in FwType
    BY FwFields, Types DEF FwType
  <2> QED
    BY <2>1, <2>2, QuietTyped
<1>2. CASE DeleteStaSelf(t)
  <2> DEFINE e == [fw EXCEPT !.sta = [i \in StaIdx |-> IF i \in Self THEN "free" ELSE @[i]]]
  <2>1. Exchange(t, "delete_sta_self", Self # {}, e) /\ Silent
    BY <1>2, QuietForms
  <2>2. e \in FwType
    BY FwFields, Types DEF FwType
  <2> QED
    BY <2>1, <2>2, QuietTyped
<1>3. CASE DeleteBss(t)
  <2> DEFINE b == vif.bss_index
  <2>1. Exchange(t, "delete_bss", HasBss(b), BssDeleted(b)) /\ Silent
    BY <1>3, QuietForms
  <2>2. HasBss(b) => BssDeleted(b) \in FwType
    BY FwFields, Types DEF FwType, HasBss, BssDeleted
  <2> QED
    BY <2>1, <2>2, QuietTyped DEF HasBss
<1> QED
  BY <1>1, <1>2, <1>3

LEMMA BmpsTyped ==
  ASSUME TypeOK, NEW t \in Threads, EnterBmps(t) \/ ExitBmps(t)
  PROVE  TypeOK'
<1> DEFINE b == vif.bss_index
<1>1. CASE EnterBmps(t)
  <2>1. Exchange(t, "enter_bmps", HasBss(b) /\ b \notin fw.asleep,
                 [fw EXCEPT !.asleep = @ \cup {b}]) /\ Silent
    BY <1>1, QuietForms
  <2>2. HasBss(b) => [fw EXCEPT !.asleep = @ \cup {b}] \in FwType
    BY FwFields, Types DEF FwType, HasBss
  <2> QED
    BY <2>1, <2>2, QuietTyped
<1>2. CASE ExitBmps(t)
  <2>1. Exchange(t, "exit_bmps", b \in fw.asleep, [fw EXCEPT !.asleep = @ \ {b}]) /\ Silent
    BY <1>2, QuietForms
  <2>2. [fw EXCEPT !.asleep = @ \ {b}] \in FwType
    BY FwFields, Types DEF FwType
  <2> QED
    BY <2>1, <2>2, QuietTyped
<1> QED
  BY <1>1, <1>2

\* A command whose response gives an index, and then one that does not.
LEMMA AnswerTyped ==
  ASSUME TypeOK, NEW t \in Threads, NEW c, NEW known, NEW effect,
         Exchange(t, c, known, effect), known => effect \in FwType,
         vif' \in VifType, sta' \in StaType
  PROVE  TypeOK'
<1>1. fw' \in FwType
  BY ExchangeTyped, Types
<1> QED
  BY <1>1, ExchangeTyped, Types1

LEMMA NewEntryTyped ==
  ASSUME TypeOK, NEW i \in StaIdx
  PROVE  /\ \A k \in {"self", "peer"} : [fw EXCEPT !.sta[i] = k] \in FwType
         /\ \A b \in BssIdx :
              [fw EXCEPT !.bss[b] = mac.conns, !.of[b] = i, !.sta[i] = "bss"] \in FwType
         /\ [vif EXCEPT !.self_sta_index = i] \in VifType
         /\ \A b \in BssIdx : [vif EXCEPT !.bss_index = b] \in VifType
         /\ [sta EXCEPT !.sta_index = i] \in StaType
         /\ [sta EXCEPT !.bss_sta_index = i] \in StaType
BY FwFields, Types DEF FwType, VifType, StaType

LEMMA IndexCommandTyped ==
  ASSUME TypeOK, NEW t \in Threads,
         AddStaSelf(t) \/ ConfigBss(t) \/ UpdateBss(t) \/ ConfigSta(t)
  PROVE  TypeOK'
<1> DEFINE i == IF FreeSta = {} THEN 0 ELSE Least(FreeSta)
<1>1. i \in StaIdx
  BY FreeTyped, FwFields
<1>2. CASE AddStaSelf(t)
  <2>1. Exchange(t, "add_sta_self", FreeSta # {}, [fw EXCEPT !.sta[i] = "self"])
    BY <1>2 DEF AddStaSelf, Command, Exchange
  <2>2. vif' \in {vif, [vif EXCEPT !.self_sta_index = i]} /\ sta' = sta
    BY <1>2 DEF AddStaSelf, Command
  <2> QED
    BY <1>1, <2>1, <2>2, NewEntryTyped, AnswerTyped, Types
<1>3. CASE ConfigBss(t)
  <2> DEFINE room == FreeBss # {} /\ FreeSta # {}
             b == IF room THEN Least(FreeBss) ELSE 0
             j == IF room THEN Least(FreeSta) ELSE 0
             e == [fw EXCEPT !.bss[b] = mac.conns, !.of[b] = j, !.sta[j] = "bss"]
  <2>1. Exchange(t, "config_bss", room, e)
    BY <1>3 DEF ConfigBss, Command, Exchange
  <2>2. sta' = sta /\ (vif' = vif \/ (room /\ vif' = [vif EXCEPT !.bss_index = b]))
    BY <1>3 DEF ConfigBss, Command, Outcomes
  <2>3. room => b \in BssIdx /\ j \in StaIdx
    BY FreeTyped
  <2> HIDE DEF room, b, j
  <2>4. room => e \in FwType
    BY <2>3, NewEntryTyped
  <2>5. vif' \in VifType
    BY <2>2, <2>3, NewEntryTyped, Types
  <2> HIDE DEF e
  <2> QED
    BY <2>1, <2>2, <2>4, <2>5, AnswerTyped, Types
<1>4. CASE UpdateBss(t)
  <2>1. Exchange(t, "update_bss", HasBss(vif.bss_index), fw)
    BY <1>4 DEF UpdateBss, Command, Exchange
  <2>2. /\ vif' = vif
        /\ \/ sta' = sta
           \/ /\ HasBss(vif.bss_index)
              /\ sta' = [sta EXCEPT !.bss_sta_index = fw.of[vif.bss_index]]
    BY <1>4 DEF UpdateBss, Command, Outcomes
  <2>3. sta' \in StaType
    BY <2>2, FwFields, Types, NewEntryTyped DEF HasBss
  <2> QED
    BY <2>1, <2>2, <2>3, AnswerTyped, Types
<1>5. CASE ConfigSta(t)
  <2>1. Exchange(t, "config_sta", HasBss(vif.bss_index) /\ FreeSta # {},
                 [fw EXCEPT !.sta[i] = "peer"])
    BY <1>5 DEF ConfigSta, Command, Exchange
  <2>2. sta' \in {sta, [sta EXCEPT !.sta_index = i]} /\ vif' = vif
    BY <1>5 DEF ConfigSta, Command
  <2>3. HasBss(vif.bss_index) => vif.bss_index \in BssIdx
    BY DEF HasBss
  <2> QED
    BY <1>1, <2>1, <2>2, <2>3, NewEntryTyped, AnswerTyped, Types
<1> QED
  BY <1>2, <1>3, <1>4, <1>5

LEMMA AssignTyped ==
  ASSUME TypeOK, NEW t \in Threads, Assign(t)
  PROVE  TypeOK'
<1>1. vif' \in VifType /\ sta' \in StaType
  <2>1. thr[t].ret \in BOOLEAN
    BY Types DEF ThrType
  <2>2. CASE vif' \in {vif, [vif EXCEPT !.pw_state = "bmps"], [vif EXCEPT !.pw_state = "full"],
                       [vif EXCEPT !.encrypted = FALSE], [vif EXCEPT !.sta_assoc = FALSE]}
             /\ sta' \in {sta, [sta EXCEPT !.aid = TRUE], NoSta}
    <3>1. sta' \in StaType
      <4>1. NoSta \in StaType
        BY FwFields DEF StaType, NoSta
      <4> QED
        BY <2>2, <4>1, Types DEF StaType
    <3>2. vif' \in VifType
      BY <2>2, Types DEF VifType
    <3> QED
      BY <3>1, <3>2
  <2>3. vif.pw_state \in {"bmps", "full"} /\ vif = [vif EXCEPT !.pw_state = @]
    BY Types DEF VifType
  <2> QED
    BY <2>1, <2>2, <2>3 DEF Assign
<1>2. thr' \in ThrType
  <2>1. thr[t].todo # <<>> /\ thr[t].todo \in Seq(Steps)
    BY Types DEF Assign, At, ThrType
  <2>2. Tail(thr[t].todo) \in Seq(Steps)
    BY <2>1
  <2> QED
    BY <2>2, Types DEF Assign, Step, ThrType
<1> QED
  BY <1>1, <1>2, Types, Types1 DEF Assign

LEMMA Todo ==
  ASSUME NEW a \in Steps, NEW b \in Steps, NEW c \in Steps, NEW d \in Steps
  PROVE  /\ <<>> \in Seq(Steps) /\ <<a>> \in Seq(Steps) /\ <<a, b>> \in Seq(Steps)
         /\ <<a, b, c>> \in Seq(Steps) /\ <<a, b, c, d>> \in Seq(Steps)
OBVIOUS

\* What a callback or a request starts.
LEMMA StartTyped ==
  ASSUME TypeOK, NEW t \in Threads, NEW todo \in Seq(Steps), Start(t, todo)
  PROVE  thr' \in ThrType
BY Types DEF Start, ThrType

\* Lists put together.
LEMMA Joined ==
  ASSUME NEW S, NEW a \in S, NEW b \in S, NEW c \in S, NEW d \in S
  PROVE  <<a, b>> \o <<c, d>> = <<a, b, c, d>> /\ <<a>> \o <<c, d>> = <<a, c, d>>
<1>1. ASSUME NEW l, NEW m, l \in Seq(S), m \in Seq(S), Len(l) = Len(m), Len(l) \in {3, 4},
             l[1] = m[1], l[2] = m[2], l[3] = m[3], Len(l) = 4 => l[4] = m[4]
      PROVE  l = m
  <2>1. \A i \in 1..Len(l) : l[i] = m[i]
    BY <1>1
  <2> QED
    BY <2>1, <1>1, SeqEqual
<1>2. <<a, b>> \o <<c, d>> = <<a, b, c, d>>
  <2> DEFINE l == <<a, b>> \o <<c, d>>
             m == <<a, b, c, d>>
  <2>1. l \in Seq(S) /\ m \in Seq(S) /\ Len(l) = 4 /\ Len(m) = 4
    OBVIOUS
  <2>2. l[1] = m[1] /\ l[2] = m[2] /\ l[3] = m[3] /\ l[4] = m[4]
    OBVIOUS
  <2> HIDE DEF l, m
  <2>3. l = m
    BY <1>1, <2>1, <2>2
  <2> QED
    BY <2>3 DEF l, m
<1>3. <<a>> \o <<c, d>> = <<a, c, d>>
  <2> DEFINE l == <<a>> \o <<c, d>>
             m == <<a, c, d>>
  <2>1. l \in Seq(S) /\ m \in Seq(S) /\ Len(l) = 3 /\ Len(m) = 3
    OBVIOUS
  <2>2. l[1] = m[1] /\ l[2] = m[2] /\ l[3] = m[3]
    OBVIOUS
  <2> HIDE DEF l, m
  <2>3. l = m
    BY <1>1, <2>1, <2>2
  <2> QED
    BY <2>3 DEF l, m
<1> QED
  BY <1>2, <1>3

LEMMA LeaveList ==
  ASSUME TypeOK, LeaveBss
  PROVE  Start("mac", IF mac.assoc THEN <<"delete_bss", "plain", "unassoc", "set_link_st">>
                      ELSE <<"delete_bss", "plain">>)
<1>1. /\ <<"delete_bss", "plain">> \o <<"unassoc", "set_link_st">>
           = <<"delete_bss", "plain", "unassoc", "set_link_st">>
      /\ <<"delete_bss", "plain">> \o <<>> = <<"delete_bss", "plain">>
  <2>1. {"delete_bss", "plain", "unassoc", "set_link_st"} \subseteq Steps
    BY DEF Steps, Removals
  <2>2. <<"delete_bss", "plain">> \in Seq(Steps)
    BY <2>1
  <2>3. <<"delete_bss", "plain">> \o <<"unassoc", "set_link_st">>
           = <<"delete_bss", "plain", "unassoc", "set_link_st">>
    BY ZenonT(40), <2>1, Joined
  <2>4. <<"delete_bss", "plain">> \o <<>> = <<"delete_bss", "plain">>
    BY <2>2, ConcatEmptySeq
  <2> QED
    BY <2>3, <2>4
<1> QED
  BY <1>1 DEF LeaveBss, Start

LEMMA PmcLists ==
  ASSUME NEW t, NEW on, NEW before \in {<<>>, <<"keep_alive">>}, Pmc(t, on, before)
  PROVE  Start(t, IF on THEN IF before = <<>> THEN <<"enter_bmps", "pw_enter">>
                             ELSE <<"keep_alive", "enter_bmps", "pw_enter">>
                  ELSE IF vif.pw_state = "bmps" THEN <<"exit_bmps", "pw_full">>
                  ELSE <<>>)
<1>1. /\ <<>> \o <<"enter_bmps", "pw_enter">> = <<"enter_bmps", "pw_enter">>
      /\ <<"keep_alive">> \o <<"enter_bmps", "pw_enter">>
           = <<"keep_alive", "enter_bmps", "pw_enter">>
      /\ <<"keep_alive">> # <<>>
  <2>1. {"keep_alive", "enter_bmps", "pw_enter"} \subseteq Steps
    BY DEF Steps, PmcSteps
  <2>2. <<"enter_bmps", "pw_enter">> \in Seq(Steps)
    BY <2>1
  <2>3. <<"keep_alive">> \o <<"enter_bmps", "pw_enter">>
           = <<"keep_alive", "enter_bmps", "pw_enter">>
    BY <2>1, Joined
  <2>4. <<>> \o <<"enter_bmps", "pw_enter">> = <<"enter_bmps", "pw_enter">>
    BY <2>2, ConcatEmptySeq
  <2> QED
    BY <2>3, <2>4
<1> QED
  BY <1>1 DEF Pmc, Start

LEMMA MacCallTyped ==
  ASSUME TypeOK, MacCall
  PROVE  TypeOK'
<1>1. "mac" \in Threads
  BY DEF Threads
<1>2. vif' \in VifType
  <2>1. NewVif \in VifType
    BY FwFields DEF VifType, NewVif
  <2>2. vif' \in {vif, NewVif, [vif EXCEPT !.bss_index = Invalid],
                  [vif EXCEPT !.sta_assoc = TRUE], [vif EXCEPT !.encrypted = TRUE],
                  [vif EXCEPT !.encrypted = FALSE]}
    BY DEF MacCall, add_interface, remove_interface, JoinBss, sta_add,
       Associate, SetPairwiseKey, SetGroupKey, DisablePairwiseKey, DisableGroupKey,
       sta_remove, LeaveBss, ChangePs
  <2> QED
    BY <2>1, <2>2, Types DEF VifType
<1>3. sta' \in StaType
  <2>1. NoSta \in StaType
    BY FwFields DEF StaType, NoSta
  <2>2. sta' \in {sta, [NoSta EXCEPT !.there = TRUE], [sta EXCEPT !.is_data_encrypted = TRUE],
                  [sta EXCEPT !.is_data_encrypted = FALSE]}
    BY DEF MacCall, add_interface, remove_interface, JoinBss, sta_add,
       Associate, SetPairwiseKey, SetGroupKey, DisablePairwiseKey, DisableGroupKey,
       sta_remove, LeaveBss, ChangePs
  <2> QED
    BY <2>1, <2>2, Types DEF StaType
<1>4. mac' \in MacType
  <2>1. mac.conns < MaxConns => mac.conns + 1 \in 0..MaxConns
    BY Types, StationAssumption DEF MacType
  <2>2. mac.ps \in BOOLEAN
    BY Types DEF MacType
  <2>3. \/ \E p \in Phases : mac' = [mac EXCEPT !.phase = p]
        \/ mac.conns < MaxConns /\ mac' = [mac EXCEPT !.phase = "bss", !.conns = @ + 1]
        \/ \E p \in Phases, a \in BOOLEAN : mac' = [mac EXCEPT !.phase = p, !.assoc = a]
        \/ \E k \in BOOLEAN : mac' \in {[mac EXCEPT !.pairwise = k], [mac EXCEPT !.group = k]}
        \/ mac' = [mac EXCEPT !.ps = ~@]
    <3>1. CASE add_interface \/ remove_interface \/ JoinBss \/ sta_add \/ sta_remove
      BY <3>1 DEF add_interface, remove_interface, JoinBss, sta_add, sta_remove, Phases
    <3>2. CASE Associate \/ LeaveBss
      BY <3>2 DEF Associate, LeaveBss, Phases
    <3>3. CASE SetPairwiseKey \/ SetGroupKey \/ DisablePairwiseKey \/ DisableGroupKey
      BY <3>3 DEF SetPairwiseKey, SetGroupKey, DisablePairwiseKey, DisableGroupKey
    <3>4. CASE ChangePs
      BY <3>4 DEF ChangePs
    <3> QED
      BY <3>1, <3>2, <3>3, <3>4 DEF MacCall
  <2>4. ASSUME NEW p \in Phases, mac' = [mac EXCEPT !.phase = p]
        PROVE  mac' \in MacType
    BY <2>4, Types DEF MacType
  <2>5. ASSUME mac.conns < MaxConns, mac' = [mac EXCEPT !.phase = "bss", !.conns = @ + 1]
        PROVE  mac' \in MacType
    BY <2>1, <2>5, Types DEF MacType, Phases
  <2>6. ASSUME NEW p \in Phases, NEW a \in BOOLEAN,
               mac' = [mac EXCEPT !.phase = p, !.assoc = a]
        PROVE  mac' \in MacType
    BY <2>6, Types DEF MacType
  <2>7. ASSUME NEW k \in BOOLEAN,
               mac' \in {[mac EXCEPT !.pairwise = k], [mac EXCEPT !.group = k]}
        PROVE  mac' \in MacType
    BY <2>7, Types DEF MacType
  <2>8. ASSUME mac' = [mac EXCEPT !.ps = ~@]
        PROVE  mac' \in MacType
    BY <2>2, <2>8, Types DEF MacType
  <2> QED
    BY <2>3, <2>4, <2>5, <2>6, <2>7, <2>8
<1>5. thr' \in ThrType
  <2>1. CASE sta_add
    BY <2>1, Types DEF sta_add
  <2>2. CASE LeaveBss
    BY <1>1, <2>2, LeaveList, StartTyped, Todo DEF Steps, Removals
  <2>3. CASE ChangePs
    <3>1. Pmc("mac", ~mac.ps, <<>>)
      BY <2>3 DEF ChangePs
    <3>2. {"enter_bmps", "pw_enter", "exit_bmps", "pw_full"} \subseteq Steps
      BY DEF Steps, PmcSteps
    <3>3. /\ <<>> \in Seq(Steps) /\ <<"enter_bmps", "pw_enter">> \in Seq(Steps)
          /\ <<"exit_bmps", "pw_full">> \in Seq(Steps)
      BY <3>2
    <3>4. PICK todo \in {<<"enter_bmps", "pw_enter">>, <<"exit_bmps", "pw_full">>, <<>>} :
            Start("mac", todo)
      BY <3>1, PmcLists
    <3> QED
      BY <1>1, <3>3, <3>4, StartTyped
  <2>4. CASE \/ add_interface \/ remove_interface \/ JoinBss \/ Associate
             \/ SetPairwiseKey \/ SetGroupKey \/ DisablePairwiseKey
             \/ DisableGroupKey \/ sta_remove
    <3>1. PICK todo \in {<<"add_sta_self">>, <<"delete_sta_self">>, <<"join", "config_bss">>,
                         <<"set_link_st", "update_bss", "aid", "config_sta">>,
                         <<"update_bss", "set_stakey">>, <<"set_bsskey">>,
                         <<"remove_stakey">>, <<>>, <<"remove_bsskey">>,
                         <<"delete_sta", "gone">>} : Start("mac", todo)
      BY <2>4 DEF add_interface, remove_interface, JoinBss, Associate,
         SetPairwiseKey, SetGroupKey, DisablePairwiseKey, DisableGroupKey, sta_remove
    <3>2. {"add_sta_self", "delete_sta_self", "join", "config_bss", "set_link_st",
           "update_bss", "aid", "config_sta", "set_stakey", "set_bsskey",
           "remove_stakey", "remove_bsskey", "delete_sta", "gone"} \subseteq Steps
      BY DEF Steps, Removals
    <3>3. todo \in Seq(Steps)
      <4>1. {"set_link_st", "update_bss", "aid", "config_sta"} \subseteq Steps
        BY <3>2
      <4>2. <<"set_link_st", "update_bss", "aid", "config_sta">> \in Seq(Steps)
        BY <4>1, Todo
      <4>3. /\ <<"join", "config_bss">> \in Seq(Steps)
            /\ <<"update_bss", "set_stakey">> \in Seq(Steps)
            /\ <<"delete_sta", "gone">> \in Seq(Steps)
        BY <3>2, Todo
      <4>4. \A a \in Steps : <<>> \in Seq(Steps) /\ <<a>> \in Seq(Steps)
        OBVIOUS
      <4> QED
        BY <3>1, <3>2, <4>2, <4>3, <4>4
    <3> QED
      BY <1>1, <3>1, <3>3, StartTyped
  <2> QED
    BY <2>1, <2>2, <2>3, <2>4 DEF MacCall
<1>6. history' \subseteq Marks
  <2>1. history' \in {history, history \cup {"mixed"}}
    BY DEF MacCall, add_interface, remove_interface, JoinBss, sta_add,
       Associate, SetPairwiseKey, SetGroupKey, DisablePairwiseKey, DisableGroupKey,
       sta_remove, LeaveBss, ChangePs, Pmc
  <2> QED
    BY <2>1, Types DEF Marks
<1>7. UNCHANGED <<fw, asked, faults>>
  BY DEF MacCall, add_interface, remove_interface, JoinBss, sta_add,
     Associate, SetPairwiseKey, SetGroupKey, DisablePairwiseKey, DisableGroupKey,
     sta_remove, LeaveBss, ChangePs
<1> QED
  BY <1>2, <1>3, <1>4, <1>5, <1>6, <1>7, Types, Types1

LEMMA FilterLists ==
  ASSUME TypeOK, configure_filter
  PROVE  /\ \E n \in 0..Everything : mac' = [mac EXCEPT !.filter = n]
         /\ \E todo \in {<<"set_mc_all">>, <<"set_mc_list">>, <<>>} : Start("work", todo)
         /\ UNCHANGED <<vif, sta, fw, faults, history>>
         /\ asked' = asked + 1 /\ asked < MaxAsked /\ Idle("work")
<1>1. Everything \in 0..Everything
  BY StationAssumption DEF Everything
<1>2. \/ mac' = [mac EXCEPT !.filter = Everything] /\ Start("work", <<"set_mc_all">>)
      \/ \E n \in 0..Everything, nomem \in BOOLEAN :
           /\ mac' = [mac EXCEPT !.filter = n]
           /\ Start("work", IF ~vif.sta_assoc THEN <<>>
                            ELSE IF nomem THEN <<"set_mc_all">> ELSE <<"set_mc_list">>)
  BY DEF configure_filter
<1> QED
  BY <1>1, <1>2 DEF configure_filter, Request

LEMMA RequestsTyped ==
  ASSUME TypeOK, Requests
  PROVE  TypeOK'
<1>1. /\ UNCHANGED <<vif, sta, fw, faults>>
      /\ asked' = asked \/ (asked < MaxAsked /\ asked' = asked + 1)
      /\ history' \in {history, history \cup {"mixed"}}
  BY FilterLists DEF Requests, Request, sw_scan_start, sw_scan_complete, config,
     set_rts_threshold, suspend_resume, write_file_dump, write_file_bool_bmps, Pmc
<1>2. asked' \in 0..MaxAsked /\ history' \subseteq Marks
  BY <1>1, Types, StationAssumption DEF Marks
<1>3. mac' \in MacType
  <2>1. \/ mac' = mac
        \/ mac' \in {[mac EXCEPT !.scan = TRUE], [mac EXCEPT !.scan = FALSE]}
        \/ \E n \in 0..Everything : mac' = [mac EXCEPT !.filter = n]
    BY FilterLists DEF Requests, sw_scan_start, sw_scan_complete, config,
       set_rts_threshold, suspend_resume, write_file_dump, write_file_bool_bmps
  <2> QED
    BY <2>1, Types DEF MacType
<1>4. thr' \in ThrType
  <2>1. PICK t \in Threads, todo \in
               {<<>>, <<"init_scan", "start_scan">>, <<"end_scan", "finish_scan">>,
                <<"switch_channel">>, <<"update_cfg">>, <<"set_mc_all">>,
                <<"set_mc_list">>, <<"set_power_params">>, <<"dump_cmd">>,
                <<"keep_alive", "enter_bmps", "pw_enter">>, <<"exit_bmps", "pw_full">>} :
          Start(t, todo)
    <3>1. CASE write_file_bool_bmps
      <4>1. PICK on \in BOOLEAN : Pmc("dfs", on, <<"keep_alive">>)
        BY <3>1 DEF write_file_bool_bmps
      <4>2. <<"keep_alive">> # <<>>
        OBVIOUS
      <4> QED
        BY <4>1, <4>2, PmcLists DEF Threads
    <3>2. CASE configure_filter
      BY <3>2, FilterLists DEF Threads
    <3>3. CASE sw_scan_start \/ sw_scan_complete \/ config \/ set_rts_threshold
               \/ suspend_resume \/ write_file_dump
      BY <3>3 DEF sw_scan_start, sw_scan_complete, config, set_rts_threshold,
         suspend_resume, write_file_dump, Threads
    <3> QED
      BY <3>1, <3>2, <3>3 DEF Requests
  <2>2. {"init_scan", "start_scan", "end_scan", "finish_scan", "switch_channel",
         "update_cfg", "set_mc_all", "set_mc_list", "set_power_params", "dump_cmd",
         "keep_alive", "enter_bmps", "pw_enter", "exit_bmps", "pw_full"} \subseteq Steps
    BY DEF Steps, Removals, SetMc, PmcSteps
  <2>3. todo \in Seq(Steps)
    <3>1. /\ <<"init_scan", "start_scan">> \in Seq(Steps)
          /\ <<"end_scan", "finish_scan">> \in Seq(Steps)
          /\ <<"exit_bmps", "pw_full">> \in Seq(Steps)
          /\ <<"keep_alive", "enter_bmps", "pw_enter">> \in Seq(Steps)
      BY <2>2, Todo
    <3>2. \A a \in Steps : <<>> \in Seq(Steps) /\ <<a>> \in Seq(Steps)
      OBVIOUS
    <3> QED
      BY <2>1, <2>2, <3>1, <3>2
  <2> QED
    BY <2>1, <2>3, StartTyped
<1> QED
  BY <1>1, <1>2, <1>3, <1>4, Types, Types1

LEMMA NextTyped == TypeOK /\ [Next]_vars => TypeOK'
<1> SUFFICES ASSUME TypeOK, [Next]_vars PROVE TypeOK'
  OBVIOUS
<1>1. ASSUME NEW t \in Threads, Smd(t) PROVE TypeOK'
  BY <1>1, QuietCommandTyped, ScanTyped, SetMcTyped, KeyTyped, DeleteTyped, BmpsTyped,
     IndexCommandTyped, AssignTyped DEF Smd
<1>2. CASE UNCHANGED vars
  BY <1>2, Types, Types1 DEF vars
<1> QED
  BY <1>1, <1>2, MacCallTyped, RequestsTyped DEF Next

\* Whatever the firmware answers and whatever the threads interleave, every
\* index that is kept (main.c and smd.c's responses) is one the firmware can
\* have given out, or the invalid one.
THEOREM TypeCorrect == Spec => []TypeOK
<1> QED
  BY InitTyped, NextTyped, PTL DEF Spec

-----------------------------------------------------------------------------
(* What the threads have still to do.                                      *)

LEMMA HeadTail ==
  /\ \A a : Head(<<a>>) = a /\ Tail(<<a>>) = <<>>
  /\ \A a, b : Head(<<a, b>>) = a /\ Tail(<<a, b>>) = <<b>>
  /\ \A a, b, c : Head(<<a, b, c>>) = a /\ Tail(<<a, b, c>>) = <<b, c>>
  /\ \A a, b, c, d : Head(<<a, b, c, d>>) = a /\ Tail(<<a, b, c, d>>) = <<b, c, d>>
OBVIOUS

AssocRest == Resting \cup BmpsLists
               \cup {<<"set_bsskey">>, <<"remove_stakey">>, <<"remove_bsskey">>}

LEMMA Apart ==
  /\ AssocLists \cap KeyLists = {} /\ AssocLists \cap AssocRest = {}
  /\ KeyLists \cap AssocRest = {}
  /\ NoAid = {<<"set_link_st", "update_bss", "aid", "config_sta">>,
              <<"update_bss", "aid", "config_sta">>, <<"aid", "config_sta">>}
  /\ PhaseLists("assoc") = AssocRest \cup AssocLists \cup KeyLists
<1>1. AssocLists \cap KeyLists = {}
  BY DEF AssocLists, KeyLists
<1>2. AssocLists \cap AssocRest = {}
  BY DEF AssocLists, AssocRest, BmpsLists, Resting
<1>3. KeyLists \cap AssocRest = {}
  BY DEF KeyLists, AssocRest, BmpsLists, Resting
<1>4. NoAid = {<<"set_link_st", "update_bss", "aid", "config_sta">>,
               <<"update_bss", "aid", "config_sta">>, <<"aid", "config_sta">>}
  BY DEF NoAid, AssocLists
<1>5. PhaseLists("assoc") = AssocRest \cup AssocLists \cup KeyLists
  BY DEF PhaseLists, AssocRest
<1> QED
  BY <1>1, <1>2, <1>3, <1>4, <1>5

\* The next step of a callback tells the phase and what comes after it.
LEMMA RestingAt ==
  ASSUME NEW L \in Resting, L # <<>>
  PROVE  Head(L) = "set_power_params" /\ Tail(L) = <<>>
BY HeadTail DEF Resting

LEMMA IdleAt ==
  ASSUME NEW L \in PhaseLists("idle"), L # <<>>
  PROVE  \/ Head(L) \in {"set_power_params", "add_sta_self", "remove_bsskey",
                         "set_link_st"} /\ Tail(L) = <<>>
         \/ Head(L) = "delete_bss" /\ Tail(L) \in {<<"plain">>, <<"plain", "unassoc", "set_link_st">>}
         \/ Head(L) = "plain" /\ Tail(L) \in {<<>>, <<"unassoc", "set_link_st">>}
         \/ Head(L) = "unassoc" /\ Tail(L) = <<"set_link_st">>
<1>1. CASE L \in Resting \cup {<<"add_sta_self">>, <<"remove_bsskey">>}
  BY <1>1, HeadTail, RestingAt
<1>2. CASE L \in {<<"delete_bss", "plain">>, <<"plain">>}
  BY <1>2, HeadTail
<1>3. CASE L = <<"delete_bss", "plain", "unassoc", "set_link_st">>
  BY <1>3, HeadTail
<1>4. CASE L = <<"plain", "unassoc", "set_link_st">>
  BY <1>4, HeadTail
<1>5. CASE L \in {<<"unassoc", "set_link_st">>, <<"set_link_st">>}
  BY <1>5, HeadTail
<1> QED
  BY <1>1, <1>2, <1>3, <1>4, <1>5 DEF PhaseLists, LeaveLists

LEMMA AssocAt ==
  ASSUME NEW L \in PhaseLists("assoc"), L # <<>>
  PROVE  \/ L \in AssocLists /\ \/ Head(L) = "set_link_st" /\ Tail(L) = <<"update_bss", "aid", "config_sta">>
                                \/ Head(L) = "update_bss" /\ Tail(L) = <<"aid", "config_sta">>
                                \/ Head(L) = "aid" /\ Tail(L) = <<"config_sta">>
                                \/ Head(L) = "config_sta" /\ Tail(L) = <<>>
         \/ L \in KeyLists /\ \/ Head(L) = "update_bss" /\ Tail(L) = <<"set_stakey">>
                              \/ Head(L) = "set_stakey" /\ Tail(L) = <<>>
         \/ L \in BmpsLists /\ \/ Head(L) = "enter_bmps" /\ Tail(L) = <<"pw_enter">>
                               \/ Head(L) = "exit_bmps" /\ Tail(L) = <<"pw_full">>
                               \/ Head(L) \in {"pw_enter", "pw_full"} /\ Tail(L) = <<>>
         \/ /\ Head(L) \in {"set_power_params", "set_bsskey", "remove_stakey", "remove_bsskey"}
            /\ Tail(L) = <<>> /\ L \in AssocRest
<1>1. CASE L \in AssocLists
  <2>1. CASE L = <<"set_link_st", "update_bss", "aid", "config_sta">>
    BY <1>1, <2>1, HeadTail
  <2>2. CASE L = <<"update_bss", "aid", "config_sta">>
    BY <1>1, <2>2, HeadTail
  <2>3. CASE L = <<"aid", "config_sta">> \/ L = <<"config_sta">>
    BY <1>1, <2>3, HeadTail
  <2> QED
    BY <1>1, <2>1, <2>2, <2>3 DEF AssocLists
<1>2. CASE L \in KeyLists
  BY <1>2, HeadTail DEF KeyLists
<1>3. CASE L \in BmpsLists
  BY ZenonT(40), <1>3, HeadTail DEF BmpsLists
<1>4. CASE L \in Resting \cup {<<"set_bsskey">>, <<"remove_stakey">>, <<"remove_bsskey">>}
  BY <1>4, HeadTail, RestingAt DEF AssocRest
<1> QED
  BY <1>1, <1>2, <1>3, <1>4, Apart DEF AssocRest

LEMMA OtherPhaseAt ==
  ASSUME NEW p \in {"none", "bss", "peer", "bye"}, NEW L \in PhaseLists(p), L # <<>>
  PROVE  \/ Head(L) = "set_power_params" /\ Tail(L) = <<>> /\ p # "none"
         \/ Head(L) = "delete_sta_self" /\ Tail(L) = <<>> /\ p = "none"
         \/ Head(L) = "join" /\ Tail(L) = <<"config_bss">> /\ p = "bss"
         \/ Head(L) = "config_bss" /\ Tail(L) = <<>> /\ p = "bss" /\ L \notin Resting
         \/ Head(L) = "delete_sta" /\ Tail(L) = <<"gone">> /\ p = "bye"
         \/ Head(L) = "gone" /\ Tail(L) = <<>> /\ p = "bye"
BY ZenonT(40), HeadTail DEF PhaseLists, Resting

LEMMA DfsAt ==
  ASSUME NEW L \in DfsLists, L # <<>>
  PROVE  \/ Head(L) = "keep_alive" /\ Tail(L) = <<"enter_bmps", "pw_enter">>
         \/ Head(L) = "enter_bmps" /\ Tail(L) = <<"pw_enter">>
         \/ Head(L) = "exit_bmps" /\ Tail(L) = <<"pw_full">>
         \/ Head(L) \in {"pw_enter", "pw_full", "dump_cmd"} /\ Tail(L) = <<>>
<1>1. CASE L \in BmpsLists
  BY <1>1, HeadTail DEF BmpsLists
<1>2. CASE L = <<"keep_alive", "enter_bmps", "pw_enter">>
  BY <1>2, HeadTail
<1>3. CASE L = <<"dump_cmd">>
  BY <1>3, HeadTail
<1> QED
  BY <1>1, <1>2, <1>3 DEF DfsLists

LEMMA WorkAt ==
  ASSUME NEW L \in WorkLists, L # <<>>
  PROVE  \/ Head(L) = "init_scan" /\ Tail(L) = <<"start_scan">> /\ L = <<"init_scan", "start_scan">>
         \/ Head(L) = "start_scan" /\ Tail(L) = <<>> /\ L = <<"start_scan">>
         \/ Head(L) = "end_scan" /\ Tail(L) = <<"finish_scan">> /\ L = <<"end_scan", "finish_scan">>
         \/ Head(L) = "finish_scan" /\ Tail(L) = <<>> /\ L = <<"finish_scan">>
         \/ /\ Head(L) \in {"switch_channel", "update_cfg", "set_mc_all", "set_mc_list"}
            /\ Tail(L) = <<>> /\ L \notin {<<"end_scan", "finish_scan">>, <<"finish_scan">>,
                                           <<"init_scan", "start_scan">>, <<"start_scan">>}
BY HeadTail DEF WorkLists

-----------------------------------------------------------------------------
(* What a step of a thread changes.                                        *)

Next1(t) == Head(thr[t].todo)
Advances(t) ==
  /\ thr[t].todo # <<>> /\ mac' = mac
  /\ thr'[t].todo = Tail(thr[t].todo)
  /\ \A u \in Threads : u # t => thr'[u] = thr[u]

LEMMA ExchangeAdvances ==
  ASSUME TypeOK, NEW t \in Threads, NEW c, NEW known, NEW effect,
         Exchange(t, c, known, effect)
  PROVE  /\ Advances(t) /\ Next1(t) = c /\ (fw' = fw \/ (known /\ fw' = effect))
         /\ Clean' => /\ Clean
                      /\ \/ known /\ fw' = effect
                         \/ fw' = fw /\ (known => c \notin Removals)
<1>1. PICK o \in Outcomes(known) :
        /\ fw' = IF o \in {"ok", "lost"} THEN effect ELSE fw
        /\ Finish(t, o)
  BY DEF Exchange
<1>2. thr \in ThrType
  BY Types
<1>3. Advances(t) /\ Next1(t) = c
  BY <1>1, <1>2 DEF Exchange, At, Finish, Advances, Next1, ThrType
<1>4. Clean' => Clean
  BY <1>1 DEF Clean, Finish
<1>5. o \in {"ok", "lost"} => known
  BY <1>1 DEF Outcomes
<1>6. Clean' /\ known /\ o = "refused" => c \notin Removals
  BY <1>1, <1>3 DEF Clean, Finish, Next1
<1>7. o \in {"ok", "lost", "refused", "unknown"} /\ (o = "unknown" => ~known)
  BY <1>1 DEF Outcomes
<1> QED
  BY <1>1, <1>3, <1>4, <1>5, <1>6, <1>7

\* The indices and the pw_state that the driver keeps, and the firmware's
\* tables: what each step can change of them.
Touches(t) ==
  /\ Next1(t) \notin {"config_bss", "delete_bss"} => fw'.bss = fw.bss
  /\ Next1(t) # "config_bss" => fw'.of = fw.of /\ vif'.bss_index = vif.bss_index
  /\ Next1(t) \notin {"add_sta_self", "delete_sta_self", "config_bss", "config_sta",
                      "delete_sta", "delete_bss"} => fw'.sta = fw.sta
  /\ Next1(t) \notin {"set_stakey", "remove_stakey", "delete_sta", "delete_bss"} =>
       fw'.stakey = fw.stakey
  /\ Next1(t) \notin {"enter_bmps", "exit_bmps", "delete_bss"} => fw'.asleep = fw.asleep
  /\ Next1(t) \notin {"init_scan", "start_scan", "end_scan", "finish_scan"} =>
       fw'.scan = fw.scan
  /\ Next1(t) \notin {"config_sta", "gone"} => sta'.sta_index = sta.sta_index
  /\ Next1(t) \notin {"update_bss", "gone"} => sta'.bss_sta_index = sta.bss_sta_index
  /\ Next1(t) \notin {"pw_enter", "pw_full"} => vif'.pw_state = vif.pw_state
  /\ Next1(t) # "gone" => (sta.aid => sta'.aid)
  /\ Next1(t) = "aid" => sta'.aid

LEMMA QuietTouches ==
  ASSUME TypeOK, NEW t \in Threads, NEW c, NEW known, NEW effect,
         Exchange(t, c, known, effect), Silent, c # "aid",
         c \notin {"config_bss", "delete_bss"} => effect.bss = fw.bss,
         c # "config_bss" => effect.of = fw.of,
         c \notin {"add_sta_self", "delete_sta_self", "config_bss", "config_sta",
                   "delete_sta", "delete_bss"} => effect.sta = fw.sta,
         c \notin {"set_stakey", "remove_stakey", "delete_sta", "delete_bss"} =>
           effect.stakey = fw.stakey,
         c \notin {"enter_bmps", "exit_bmps", "delete_bss"} => effect.asleep = fw.asleep,
         c \notin {"init_scan", "start_scan", "end_scan", "finish_scan"} =>
           effect.scan = fw.scan
  PROVE  Advances(t) /\ Touches(t)
<1>1. Advances(t) /\ Next1(t) = c /\ fw' \in {fw, effect} /\ vif' = vif /\ sta' = sta
  BY ExchangeAdvances DEF Silent
<1> QED
  BY <1>1 DEF Touches

LEMMA QuietStep ==
  ASSUME TypeOK, NEW t \in Threads,
         \/ KeepAlive(t) \/ SwitchChannel(t) \/ UpdateCfg(t) \/ SetPowerParams(t)
         \/ DumpCmd(t) \/ InitScan(t) \/ StartScan(t) \/ EndScan(t) \/ FinishScan(t)
         \/ SetStaKey(t) \/ RemoveStaKey(t) \/ SetBssKey(t) \/ RemoveBssKey(t)
         \/ DeleteSta(t) \/ DeleteStaSelf(t) \/ DeleteBss(t) \/ EnterBmps(t)
         \/ ExitBmps(t) \/ OtherCommand(t) \/ SetMcList(t)
  PROVE  Advances(t) /\ Touches(t)
<1>1. CASE KeepAlive(t) \/ SwitchChannel(t) \/ UpdateCfg(t) \/ SetPowerParams(t)
           \/ DumpCmd(t) \/ OtherCommand(t)
  <2>1. PICK c, known : /\ Exchange(t, c, known, fw) /\ Silent
                        /\ c \in {"keep_alive", "switch_channel", "update_cfg", "join",
                                  "set_power_params", "dump_cmd", "set_link_st"}
    BY <1>1, QuietForms
  <2> QED
    BY <2>1, QuietTouches
<1>2. CASE SetMcList(t)
  <2>1. \A n : LET e == McSet(vif.bss_index, n) IN
          /\ e.bss = fw.bss /\ e.of = fw.of /\ e.sta = fw.sta
          /\ e.stakey = fw.stakey /\ e.asleep = fw.asleep /\ e.scan = fw.scan
    BY Types DEF McSet, FwType
  <2> QED
    BY <1>2, <2>1, QuietForms, QuietTouches
<1>3. CASE InitScan(t) \/ StartScan(t) \/ EndScan(t) \/ FinishScan(t)
  <2>1. \A to : LET e == [fw EXCEPT !.scan = to] IN
          /\ e.bss = fw.bss /\ e.of = fw.of /\ e.sta = fw.sta
          /\ e.stakey = fw.stakey /\ e.asleep = fw.asleep
    BY Types DEF FwType
  <2> QED
    BY <1>3, <2>1, QuietForms, QuietTouches
<1>4. CASE SetStaKey(t) \/ RemoveStaKey(t)
  <2>1. \A S : LET e == [fw EXCEPT !.stakey = S] IN
          /\ e.bss = fw.bss /\ e.of = fw.of /\ e.sta = fw.sta
          /\ e.scan = fw.scan /\ e.asleep = fw.asleep
    BY Types DEF FwType
  <2> QED
    BY <1>4, <2>1, QuietForms, QuietTouches
<1>5. CASE SetBssKey(t) \/ RemoveBssKey(t)
  <2>1. \A S : LET e == [fw EXCEPT !.bsskey = S] IN
          /\ e.bss = fw.bss /\ e.of = fw.of /\ e.sta = fw.sta
          /\ e.scan = fw.scan /\ e.asleep = fw.asleep /\ e.stakey = fw.stakey
    BY Types DEF FwType
  <2> QED
    BY <1>5, <2>1, QuietForms, QuietTouches
<1>6. CASE EnterBmps(t) \/ ExitBmps(t)
  <2>1. \A S : LET e == [fw EXCEPT !.asleep = S] IN
          /\ e.bss = fw.bss /\ e.of = fw.of /\ e.sta = fw.sta
          /\ e.scan = fw.scan /\ e.stakey = fw.stakey
    BY Types DEF FwType
  <2> QED
    BY <1>6, <2>1, QuietForms, QuietTouches
<1>7. CASE DeleteSta(t)
  <2>1. LET e == [fw EXCEPT !.sta[sta.sta_index] = "free", !.stakey = @ \ {sta.sta_index}] IN
          e.bss = fw.bss /\ e.of = fw.of /\ e.scan = fw.scan /\ e.asleep = fw.asleep
    BY Types DEF FwType
  <2> QED
    BY <1>7, <2>1, QuietForms, QuietTouches
<1>8. CASE DeleteStaSelf(t)
  <2>1. \A f : LET e == [fw EXCEPT !.sta = f] IN
          /\ e.bss = fw.bss /\ e.of = fw.of
          /\ e.scan = fw.scan /\ e.asleep = fw.asleep /\ e.stakey = fw.stakey
    BY Types DEF FwType
  <2>2. PICK known, f : Exchange(t, "delete_sta_self", known, [fw EXCEPT !.sta = f]) /\ Silent
    BY <1>8, QuietForms
  <2> QED
    BY <2>1, <2>2, QuietTouches
<1>9. CASE DeleteBss(t)
  <2>1. BssDeleted(vif.bss_index).of = fw.of /\ BssDeleted(vif.bss_index).scan = fw.scan
    BY Types DEF FwType, BssDeleted
  <2> QED
    BY <1>9, <2>1, QuietForms, QuietTouches
<1> QED
  BY <1>1, <1>2, <1>3, <1>4, <1>5, <1>6, <1>7, <1>8, <1>9

\* The commands that a configuration is made of: done, and answered, or nothing.
BssAdded(b, i) == [fw EXCEPT !.bss[b] = mac.conns, !.of[b] = i, !.sta[i] = "bss"]

LEMMA ConfigBssStep ==
  ASSUME TypeOK, NEW t \in Threads, ConfigBss(t)
  PROVE  /\ Advances(t) /\ Next1(t) = "config_bss" /\ Touches(t) /\ sta' = sta
         /\ Clean' =>
              /\ Clean
              /\ \/ fw' = fw /\ vif' = vif
                 \/ \E b \in FreeBss, i \in FreeSta :
                      fw' = BssAdded(b, i) /\ vif' = [vif EXCEPT !.bss_index = b]
<1> DEFINE room == FreeBss # {} /\ FreeSta # {}
           b == IF room THEN Least(FreeBss) ELSE 0
           i == IF room THEN Least(FreeSta) ELSE 0
<1>1. Exchange(t, "config_bss", room, BssAdded(b, i))
  BY DEF ConfigBss, Command, Exchange, BssAdded
<1>2. sta' = sta /\ vif' \in {vif, [vif EXCEPT !.bss_index = b]}
  BY DEF ConfigBss, Command
<1>3. Clean' => \/ fw' = fw /\ vif' = vif
                \/ room /\ fw' = BssAdded(b, i) /\ vif' = [vif EXCEPT !.bss_index = b]
  BY DEF ConfigBss, Command, BssAdded, Outcomes, Finish, Clean
<1>4. room => b \in FreeBss /\ i \in FreeSta
  BY FreeTyped
<1> HIDE DEF room, b, i
<1>5. /\ BssAdded(b, i).asleep = fw.asleep /\ BssAdded(b, i).stakey = fw.stakey
      /\ BssAdded(b, i).scan = fw.scan
  BY Types DEF BssAdded, FwType
<1>6. vif'.pw_state = vif.pw_state
  BY <1>2, Types DEF VifType
<1>7. /\ Advances(t) /\ Next1(t) = "config_bss" /\ (Clean' => Clean)
      /\ (fw' = fw \/ fw' = BssAdded(b, i))
  BY <1>1, ExchangeAdvances
<1>8. Touches(t)
  BY <1>2, <1>5, <1>6, <1>7 DEF Touches
<1> QED
  BY <1>2, <1>3, <1>4, <1>7, <1>8

LEMMA ConfigStaStep ==
  ASSUME TypeOK, NEW t \in Threads, ConfigSta(t)
  PROVE  /\ Advances(t) /\ Next1(t) = "config_sta" /\ Touches(t) /\ vif' = vif
         /\ Clean' =>
              /\ Clean
              /\ \/ fw' = fw /\ sta' = sta
                 \/ \E i \in FreeSta : /\ fw' = [fw EXCEPT !.sta[i] = "peer"]
                                       /\ sta' = [sta EXCEPT !.sta_index = i]
<1> DEFINE i == IF FreeSta = {} THEN 0 ELSE Least(FreeSta)
           known == HasBss(vif.bss_index) /\ FreeSta # {}
           e == [fw EXCEPT !.sta[i] = "peer"]
<1>1. Exchange(t, "config_sta", known, e)
  BY DEF ConfigSta, Command, Exchange
<1>2. vif' = vif /\ sta' \in {sta, [sta EXCEPT !.sta_index = i]}
  BY DEF ConfigSta, Command
<1>3. Clean' => \/ fw' = fw /\ sta' = sta
                \/ known /\ fw' = e /\ sta' = [sta EXCEPT !.sta_index = i]
  BY DEF ConfigSta, Command, Outcomes, Finish, Clean
<1>4. known => i \in FreeSta
  BY FreeTyped
<1>5. /\ e.asleep = fw.asleep /\ e.stakey = fw.stakey /\ e.scan = fw.scan
      /\ e.bss = fw.bss /\ e.of = fw.of
  BY Types DEF FwType
<1>6. sta'.aid = sta.aid /\ sta'.bss_sta_index = sta.bss_sta_index
  BY <1>2, Types DEF StaType
<1> HIDE DEF known, e
<1>7. /\ Advances(t) /\ Next1(t) = "config_sta" /\ (Clean' => Clean)
      /\ (fw' = fw \/ fw' = e)
  BY <1>1, ExchangeAdvances
<1>8. Touches(t)
  BY <1>2, <1>5, <1>6, <1>7 DEF Touches
<1> QED
  BY <1>2, <1>3, <1>4, <1>7, <1>8 DEF e

LEMMA AddStaSelfStep ==
  ASSUME TypeOK, NEW t \in Threads, AddStaSelf(t)
  PROVE  /\ Advances(t) /\ Next1(t) = "add_sta_self" /\ Touches(t) /\ sta' = sta
         /\ Clean' =>
              Clean /\ (fw' = fw \/ \E i \in FreeSta : fw' = [fw EXCEPT !.sta[i] = "self"])
<1> DEFINE i == IF FreeSta = {} THEN 0 ELSE Least(FreeSta)
           known == FreeSta # {}
           e == [fw EXCEPT !.sta[i] = "self"]
<1>1. Exchange(t, "add_sta_self", known, e)
  BY DEF AddStaSelf, Command, Exchange
<1>2. sta' = sta /\ vif' \in {vif, [vif EXCEPT !.self_sta_index = i]}
  BY DEF AddStaSelf, Command
<1>3. known => i \in FreeSta
  BY FreeTyped
<1>4. /\ e.asleep = fw.asleep /\ e.stakey = fw.stakey /\ e.scan = fw.scan
      /\ e.bss = fw.bss /\ e.of = fw.of
  BY Types DEF FwType
<1>5. vif'.bss_index = vif.bss_index /\ vif'.pw_state = vif.pw_state
  BY <1>2, Types DEF VifType
<1> HIDE DEF known, e
<1>6. /\ Advances(t) /\ Next1(t) = "add_sta_self"
      /\ fw' = fw \/ (known /\ fw' = e)
      /\ Clean' => Clean
  BY <1>1, ExchangeAdvances
<1>7. Touches(t)
  BY <1>2, <1>4, <1>5, <1>6 DEF Touches
<1> QED
  BY <1>2, <1>3, <1>6, <1>7 DEF e

LEMMA UpdateBssStep ==
  ASSUME TypeOK, NEW t \in Threads, UpdateBss(t)
  PROVE  Advances(t) /\ Next1(t) = "update_bss" /\ Touches(t) /\ fw' = fw /\ vif' = vif
<1>1. Exchange(t, "update_bss", HasBss(vif.bss_index), fw)
  BY DEF UpdateBss, Command, Exchange
<1>2. vif' = vif /\ sta' \in {sta, [sta EXCEPT !.bss_sta_index = fw.of[vif.bss_index]]}
  BY DEF UpdateBss, Command
<1>3. sta'.aid = sta.aid /\ sta'.sta_index = sta.sta_index
  BY <1>2, Types DEF StaType
<1>4. Advances(t) /\ Next1(t) = "update_bss" /\ fw' = fw
  BY <1>1, ExchangeAdvances
<1> QED
  BY <1>2, <1>3, <1>4 DEF Touches

LEMMA AssignStep ==
  ASSUME TypeOK, NEW t \in Threads, Assign(t)
  PROVE  /\ Advances(t) /\ Touches(t) /\ fw' = fw /\ history' = history
         /\ Next1(t) \in {"pw_enter", "pw_full", "plain", "unassoc", "aid", "gone"}
         /\ Next1(t) = "pw_enter" /\ thr[t].ret => vif'.pw_state = "bmps"
         /\ Next1(t) = "pw_enter" /\ ~thr[t].ret => vif'.pw_state = vif.pw_state
<1>1. Advances(t) /\ fw' = fw /\ history' = history
  BY Types DEF Assign, Step, Advances, At, ThrType
<1>2. CASE At(t, "pw_enter")
  BY <1>1, <1>2, Types DEF Assign, At, Next1, Touches, VifType
<1>3. CASE At(t, "pw_full") \/ At(t, "plain") \/ At(t, "unassoc")
  BY <1>1, <1>3, Types DEF Assign, At, Next1, Touches, VifType
<1>4. CASE At(t, "aid") \/ At(t, "gone")
  BY <1>1, <1>4, Types DEF Assign, At, Next1, Touches, StaType
<1> QED
  BY <1>2, <1>3, <1>4 DEF Assign

LEMMA SmdStep ==
  ASSUME TypeOK, NEW t \in Threads, Smd(t)
  PROVE  Advances(t) /\ Touches(t)
BY QuietStep, ConfigBssStep, ConfigStaStep, AddStaSelfStep, UpdateBssStep, AssignStep
   DEF Smd

-----------------------------------------------------------------------------
(* Places.                                                                 *)

LEMMA PhaseTail ==
  ASSUME NEW p \in Phases, NEW L \in PhaseLists(p), L # <<>>
  PROVE  Tail(L) \in PhaseLists(p)
<1>1. CASE p = "idle"
  BY <1>1, IdleAt DEF PhaseLists, Resting, LeaveLists
<1>2. CASE p = "assoc"
  <2>1. PICK M : M = Tail(L) /\ M \in {<<"update_bss", "aid", "config_sta">>, <<"aid", "config_sta">>,
                   <<"config_sta">>, <<>>, <<"set_stakey">>, <<"pw_enter">>, <<"pw_full">>}
    BY <1>2, AssocAt
  <2>2. M \in AssocLists \cup KeyLists \cup BmpsLists \cup Resting
    BY <2>1 DEF AssocLists, KeyLists, BmpsLists, Resting
  <2> QED
    BY <1>2, <2>1, <2>2, Apart DEF AssocRest
<1>3. CASE p \in {"none", "bss", "peer", "bye"}
  BY <1>3, OtherPhaseAt DEF PhaseLists, Resting
<1> QED
  BY <1>1, <1>2, <1>3 DEF Phases

\* Within an association.
LEMMA AssocTail ==
  ASSUME NEW L \in PhaseLists("assoc"), L # <<>>
  PROVE  /\ L \notin AssocLists => Tail(L) \notin AssocLists
         /\ Tail(L) \in KeyLists => L \in KeyLists
         /\ Tail(L) \notin NoAid => L \notin NoAid \/ Head(L) = "aid"
         /\ <<>> \in AssocRest
<1>1. <<>> \in AssocRest /\ <<"pw_enter">> \in AssocRest /\ <<"pw_full">> \in AssocRest
  BY DEF AssocRest, Resting, BmpsLists
<1>2. <<"set_stakey">> \in KeyLists /\ <<"config_sta">> \in AssocLists
  BY DEF KeyLists, AssocLists
<1>3. L \notin AssocLists => Tail(L) \in KeyLists \cup AssocRest
  BY <1>1, <1>2, AssocAt
<1>4. L \notin KeyLists => Tail(L) \in AssocLists \cup AssocRest
  <2>1. {<<"update_bss", "aid", "config_sta">>, <<"aid", "config_sta">>} \subseteq AssocLists
    BY DEF AssocLists
  <2> QED
    BY <1>1, <1>2, <2>1, AssocAt
<1>5. L \in NoAid => Tail(L) \in NoAid \/ Head(L) = "aid"
  <2>1. NoAid \subseteq AssocLists
    BY DEF NoAid
  <2>2. {<<"update_bss", "aid", "config_sta">>, <<"aid", "config_sta">>} \subseteq NoAid
    BY Apart
  <2>3. <<"config_sta">> \notin NoAid
    BY DEF NoAid
  <2>4. ASSUME L \in NoAid PROVE L \in AssocLists /\ L # <<"config_sta">>
    BY <2>1, <2>3, <2>4
  <2>5. L = <<"config_sta">> <=> L \in AssocLists /\ Head(L) = "config_sta"
    BY HeadTail DEF AssocLists
  <2> QED
    BY <2>2, <2>4, <2>5, AssocAt, Apart
<1> QED
  BY <1>1, <1>3, <1>4, <1>5, Apart

LEMMA PlacesSmd ==
  ASSUME TypeOK, Places, NEW t \in Threads, Smd(t)
  PROVE  Places'
<1>1. Advances(t) /\ Touches(t)
  BY SmdStep
<1>2. mac' = mac /\ mac.phase \in Phases
  BY <1>1, Types DEF Advances, MacType
<1>3. CASE t = "mac"
  <2> DEFINE L == MacList
  <2>1. L \in PhaseLists(mac.phase) /\ L # <<>> /\ MacList' = Tail(L)
    BY <1>1, <1>3 DEF Places, Advances, MacList
  <2>2. MacList' \in PhaseLists(mac.phase)
    BY <1>2, <2>1, PhaseTail
  <2>3. thr'["dfs"] = thr["dfs"] /\ thr'["work"] = thr["work"]
    BY <1>1, <1>3 DEF Advances, Threads
  <2>4. mac.pairwise => mac.phase = "assoc" /\ MacList' \notin AssocLists
    BY <2>1, AssocTail DEF Places
  <2>5. MacList' \in KeyLists => mac.pairwise
    <3>1. CASE mac.phase = "assoc"
      BY <2>1, <3>1, AssocTail DEF Places
    <3>2. CASE mac.phase # "assoc"
      <4>1. MacList' \notin KeyLists
        BY <1>2, <2>2, <3>2 DEF Phases, PhaseLists, Resting, LeaveLists, KeyLists
      <4> QED
        BY <4>1
    <3> QED
      BY <3>1, <3>2
  <2>6. mac.phase = "assoc" /\ MacList' \notin NoAid => sta'.aid
    <3>1. ASSUME mac.phase = "assoc", MacList' \notin NoAid
          PROVE  sta'.aid
      <4>1. L \notin NoAid \/ Head(L) = "aid"
        BY <2>1, <3>1, AssocTail
      <4>2. Head(L) # "gone"
        BY <2>1, <3>1, AssocAt
      <4> QED
        BY <1>1, <1>3, <3>1, <4>1, <4>2 DEF Places, Touches, Next1, MacList
    <3> QED
      BY <3>1
  <2> QED
    BY <1>2, <2>2, <2>3, <2>4, <2>5, <2>6 DEF Places
<1>4. CASE t \in {"dfs", "work"}
  <2>1. MacList' = MacList /\ \A u \in {"dfs", "work"} : u # t => thr'[u] = thr[u]
    BY <1>1, <1>4 DEF Advances, Threads, MacList
  <2>2. t = "dfs" => thr'["dfs"].todo \in DfsLists /\ Next1(t) # "gone"
    BY <1>1, DfsAt DEF Places, Advances, DfsLists, BmpsLists, Next1
  <2>3. t = "work" => thr'["work"].todo \in WorkLists /\ Next1(t) # "gone"
    BY <1>1, WorkAt DEF Places, Advances, WorkLists, Next1
  <2>4. sta.aid => sta'.aid
    BY <1>1, <1>4, <2>2, <2>3 DEF Touches
  <2> QED
    BY <1>2, <1>4, <2>1, <2>2, <2>3, <2>4 DEF Places
<1> QED
  BY <1>3, <1>4 DEF Threads

\* A call begins with nothing to do, and sets the list of its thread only.
Begins(t) ==
  /\ thr[t].todo = <<>>
  /\ \A u \in Threads : u # t => thr'[u] = thr[u]

LEMMA Started ==
  ASSUME TypeOK, NEW t \in Threads, NEW todo, Start(t, todo)
  PROVE  /\ thr'[t].todo = todo /\ thr'[t].ret = thr[t].ret
         /\ \A u \in Threads : u # t => thr'[u] = thr[u]
BY Types DEF Start, ThrType

\* The lists that the callbacks start.
LEMMA CallLists ==
  /\ <<"delete_sta_self">> \in PhaseLists("none")
  /\ {<<"add_sta_self">>, <<"remove_bsskey">>, <<"delete_bss", "plain">>,
      <<"delete_bss", "plain", "unassoc", "set_link_st">>} \subseteq PhaseLists("idle")
  /\ <<"join", "config_bss">> \in PhaseLists("bss")
  /\ <<"set_link_st", "update_bss", "aid", "config_sta">> \in NoAid
  /\ NoAid \subseteq AssocLists /\ <<"update_bss", "set_stakey">> \in KeyLists
  /\ {<<"set_bsskey">>, <<"remove_stakey">>, <<"remove_bsskey">>,
      <<"enter_bmps", "pw_enter">>, <<"exit_bmps", "pw_full">>} \subseteq AssocRest
  /\ <<"delete_sta", "gone">> \in PhaseLists("bye")
  /\ \A p \in Phases \ {"none"} : Resting \subseteq PhaseLists(p)
  /\ \A p \in Phases : <<>> \in PhaseLists(p)
  /\ \A p \in Phases \ {"assoc"} : PhaseLists(p) \cap KeyLists = {}
<1>1. /\ <<"delete_sta_self">> \in PhaseLists("none")
      /\ {<<"add_sta_self">>, <<"remove_bsskey">>, <<"delete_bss", "plain">>,
          <<"delete_bss", "plain", "unassoc", "set_link_st">>} \subseteq PhaseLists("idle")
      /\ <<"join", "config_bss">> \in PhaseLists("bss")
      /\ <<"delete_sta", "gone">> \in PhaseLists("bye")
  BY DEF PhaseLists, LeaveLists
<1>2. /\ <<"set_link_st", "update_bss", "aid", "config_sta">> \in NoAid
      /\ NoAid \subseteq AssocLists /\ <<"update_bss", "set_stakey">> \in KeyLists
  BY Apart DEF NoAid, KeyLists
<1>3. {<<"set_bsskey">>, <<"remove_stakey">>, <<"remove_bsskey">>,
       <<"enter_bmps", "pw_enter">>, <<"exit_bmps", "pw_full">>} \subseteq AssocRest
  BY DEF AssocRest, BmpsLists
<1>4. /\ \A p \in Phases \ {"none"} : Resting \subseteq PhaseLists(p)
      /\ \A p \in Phases : <<>> \in PhaseLists(p)
  BY DEF PhaseLists, Phases, Resting
<1>5. \A p \in Phases \ {"assoc"} : PhaseLists(p) \cap KeyLists = {}
  BY DEF Phases, PhaseLists, Resting, LeaveLists, KeyLists
<1> QED
  BY <1>1, <1>2, <1>3, <1>4, <1>5

LEMMA MacCallBegins ==
  ASSUME TypeOK, MacCall
  PROVE  /\ Begins("mac")
         /\ fw' = fw /\ (history \subseteq history') /\ (history' \subseteq history \cup {"mixed"})
         /\ ~ChangePs => history' = history
<1>1. "mac" \in Threads
  BY DEF Threads
<1>2. CASE sta_add
  BY <1>2 DEF sta_add, Call, Idle, Begins
<1>3. CASE \/ add_interface \/ remove_interface \/ JoinBss \/ Associate
           \/ SetPairwiseKey \/ SetGroupKey \/ DisablePairwiseKey
           \/ DisableGroupKey \/ sta_remove \/ LeaveBss
  <2>1. (\E todo : Start("mac", todo)) /\ Idle("mac") /\ fw' = fw /\ history' = history
    BY <1>3 DEF add_interface, remove_interface, JoinBss, Associate, SetPairwiseKey,
       SetGroupKey, DisablePairwiseKey, DisableGroupKey, sta_remove, LeaveBss, Call
  <2> QED
    BY <1>1, <1>3, <2>1, Started DEF Idle, Begins
<1>4. CASE ChangePs
  <2>1. /\ (\E todo : Start("mac", todo)) /\ Idle("mac") /\ fw' = fw
        /\ history' \in {history, history \cup {"mixed"}}
    BY <1>4 DEF ChangePs, Pmc, Call
  <2> QED
    BY <1>1, <1>4, <2>1, Started DEF Idle, Begins
<1> QED
  BY <1>2, <1>3, <1>4 DEF MacCall

LEMMA PlacesMacCall ==
  ASSUME TypeOK, Places, MacCall
  PROVE  Places'
<1>1. "mac" \in Threads /\ mac \in MacType /\ sta \in StaType
  BY Types DEF Threads
<1>2. MacList = <<>> /\ thr'["dfs"] = thr["dfs"] /\ thr'["work"] = thr["work"]
  BY MacCallBegins DEF Begins, Threads, MacList
<1>3. <<>> \notin AssocLists \cup KeyLists /\ <<>> \notin NoAid /\ <<>> \in AssocRest
  BY Apart, CallLists DEF AssocRest, Resting
<1>4. \A L \in AssocRest : L \in PhaseLists("assoc") /\ L \notin AssocLists \cup KeyLists \cup NoAid
  BY Apart, CallLists
<1> SUFFICES /\ MacList' \in PhaseLists(mac'.phase)
             /\ mac'.phase \in {"bss", "peer", "assoc", "bye"} => mac'.conns # 0
             /\ mac'.pairwise => mac'.phase = "assoc" /\ MacList' \notin AssocLists
             /\ MacList' \in KeyLists => mac'.pairwise
             /\ mac'.phase = "assoc" /\ MacList' \notin NoAid => sta'.aid
  BY <1>2 DEF Places
<1>5. CASE add_interface
  <2>1. MacList' = <<"add_sta_self">> /\ mac' = [mac EXCEPT !.phase = "idle"]
    BY <1>1, <1>5, Started DEF add_interface, MacList
  <2> QED
    BY <1>1, <1>5, <2>1, CallLists DEF Places, MacType, Phases, add_interface, Call
<1>6. CASE remove_interface
  <2>1. MacList' = <<"delete_sta_self">> /\ mac' = [mac EXCEPT !.phase = "none"]
    BY <1>1, <1>6, Started DEF remove_interface, MacList
  <2> QED
    BY <1>1, <1>6, <2>1, CallLists DEF Places, MacType, Phases, remove_interface, Call
<1>7. CASE JoinBss
  <2>1. MacList' = <<"join", "config_bss">> /\ mac.phase = "idle"
        /\ mac' = [mac EXCEPT !.phase = "bss", !.conns = @ + 1]
    BY <1>1, <1>7, Started DEF JoinBss, MacList, Call
  <2>2. mac'.conns # 0
    BY <1>1, <2>1 DEF MacType
  <2> QED
    BY <1>1, <2>1, <2>2, CallLists DEF Places, MacType, Phases
<1>8. CASE sta_add
  <2>1. MacList' = <<>> /\ mac' = [mac EXCEPT !.phase = "peer"] /\ mac.phase = "bss"
    BY <1>2, <1>8 DEF sta_add, MacList, Call
  <2> QED
    BY <1>1, <1>3, <2>1, CallLists DEF Places, MacType, Phases
<1>9. CASE Associate
  <2>1. /\ MacList' = <<"set_link_st", "update_bss", "aid", "config_sta">>
        /\ mac' = [mac EXCEPT !.phase = "assoc", !.assoc = TRUE] /\ mac.phase = "peer"
    BY <1>1, <1>9, Started DEF Associate, MacList, Call
  <2>2. MacList' \in NoAid /\ MacList' \in AssocLists /\ MacList' \notin KeyLists
    BY <2>1, Apart, CallLists
  <2> QED
    BY <1>1, <2>1, <2>2, Apart DEF Places, MacType
<1>10. CASE SetPairwiseKey
  <2>1. /\ MacList' = <<"update_bss", "set_stakey">> /\ mac.phase = "assoc"
        /\ mac' = [mac EXCEPT !.pairwise = TRUE]
        /\ sta' = [sta EXCEPT !.is_data_encrypted = TRUE]
    BY <1>1, <1>10, Started DEF SetPairwiseKey, MacList, Call
  <2>2. MacList' \in KeyLists /\ MacList' \notin AssocLists
    BY <2>1, Apart, CallLists
  <2> QED
    BY <1>1, <1>2, <1>3, <2>1, <2>2, Apart DEF Places, MacType, StaType
<1>11. CASE SetGroupKey \/ DisablePairwiseKey
  <2>1. MacList' \in AssocRest /\ mac.phase = "assoc"
        /\ mac' \in {[mac EXCEPT !.pairwise = FALSE], [mac EXCEPT !.group = TRUE]}
        /\ sta' \in {sta, [sta EXCEPT !.is_data_encrypted = FALSE]}
    BY <1>1, <1>3, <1>11, Started, CallLists DEF SetGroupKey, DisablePairwiseKey, MacList, Call
  <2> QED
    BY <1>1, <1>2, <1>3, <1>4, <2>1 DEF Places, MacType, StaType
<1>12. CASE DisableGroupKey
  <2>1. MacList' = <<"remove_bsskey">> /\ mac.phase \in {"assoc", "idle"} /\ sta' = sta
        /\ mac' = [mac EXCEPT !.group = FALSE]
    BY <1>1, <1>12, Started DEF DisableGroupKey, MacList, Call
  <2>2. MacList' \in AssocRest /\ MacList' \in PhaseLists("idle")
    BY <2>1, CallLists
  <2> QED
    BY <1>1, <1>2, <1>3, <1>4, <2>1, <2>2 DEF Places, MacType
<1>13. CASE sta_remove
  <2>1. MacList' = <<"delete_sta", "gone">> /\ mac.phase \in {"peer", "assoc"} /\ ~mac.pairwise
        /\ mac' = [mac EXCEPT !.phase = "bye"]
    BY <1>1, <1>13, Started DEF sta_remove, MacList, Call
  <2> QED
    BY <1>1, <2>1, CallLists DEF Places, MacType, Phases
<1>14. CASE LeaveBss
  <2>1. /\ MacList' \in {<<"delete_bss", "plain">>,
                         <<"delete_bss", "plain", "unassoc", "set_link_st">>}
        /\ mac' = [mac EXCEPT !.phase = "idle", !.assoc = FALSE] /\ mac.phase \in {"bss", "bye"}
    <3>1. mac' = [mac EXCEPT !.phase = "idle", !.assoc = FALSE] /\ mac.phase \in {"bss", "bye"}
      BY <1>14 DEF LeaveBss, Call
    <3> QED
      BY <1>1, <1>14, <3>1, Started, LeaveList DEF MacList
  <2> QED
    BY <1>1, <2>1, CallLists DEF Places, MacType, Phases
<1>15. CASE ChangePs
  <2>1. Pmc("mac", ~mac.ps, <<>>) /\ mac' = [mac EXCEPT !.ps = ~@] /\ mac.phase = "assoc"
        /\ sta' = sta
    BY <1>15 DEF ChangePs, Call
  <2>2. MacList' \in {<<"enter_bmps", "pw_enter">>, <<"exit_bmps", "pw_full">>, <<>>}
    BY <1>1, <2>1, PmcLists, Started DEF MacList
  <2>3. MacList' \in AssocRest
    BY <1>3, <2>2, CallLists
  <2> QED
    BY <1>1, <1>2, <1>3, <1>4, <2>1, <2>3 DEF Places, MacType
<1> QED
  BY <1>5, <1>6, <1>7, <1>8, <1>9, <1>10, <1>11, <1>12, <1>13, <1>14, <1>15 DEF MacCall

\* A request starts one list of its thread, outside of the connection.
ScanLists == {<<"init_scan", "start_scan">>, <<"start_scan">>,
              <<"end_scan", "finish_scan">>, <<"finish_scan">>}
PmcEntry  == {<<"keep_alive", "enter_bmps", "pw_enter">>, <<"exit_bmps", "pw_full">>}

LEMMA RequestForms ==
  ASSUME TypeOK, Requests
  PROVE  /\ UNCHANGED <<vif, sta, fw>>
         /\ mac'.phase = mac.phase /\ mac'.conns = mac.conns /\ mac'.pairwise = mac.pairwise
         /\ \/ /\ Begins("mac") /\ thr'["mac"].todo = <<"set_power_params">>
               /\ mac.phase # "none" /\ mac' = mac /\ history' = history
            \/ /\ Begins("dfs") /\ thr'["dfs"].todo \in {<<>>, <<"dump_cmd">>} \cup PmcEntry
               /\ thr'["dfs"].todo \in PmcEntry =>
                    \E on \in BOOLEAN : Pmc("dfs", on, <<"keep_alive">>)
               /\ mac' = mac /\ (history \subseteq history')
               /\ history' \subseteq history \cup {"mixed"}
            \/ /\ Begins("work") /\ history' = history
               /\ \/ /\ thr'["work"].todo \in WorkLists \ ScanLists
                     /\ mac'.scan = mac.scan
                  \/ thr'["work"].todo = <<"init_scan", "start_scan">> /\ mac'.scan /\ ~mac.scan
                  \/ thr'["work"].todo = <<"end_scan", "finish_scan">> /\ ~mac'.scan /\ mac.scan
<1>1. "mac" \in Threads /\ "dfs" \in Threads /\ "work" \in Threads /\ mac \in MacType
  BY Types DEF Threads
<1>2. {<<>>, <<"switch_channel">>, <<"update_cfg">>, <<"set_mc_all">>, <<"set_mc_list">>}
        \subseteq WorkLists \ ScanLists
  BY DEF WorkLists, ScanLists
<1>3. CASE sw_scan_start
  BY <1>1, <1>3, Started DEF sw_scan_start, Request, Idle, Begins, MacType
<1>4. CASE sw_scan_complete
  BY <1>1, <1>4, Started DEF sw_scan_complete, Idle, Begins, MacType
<1>5. CASE config
  BY <1>1, <1>2, <1>5, Started DEF config, Request, Idle, Begins
<1>6. CASE set_rts_threshold
  BY <1>1, <1>2, <1>6, Started DEF set_rts_threshold, Request, Idle, Begins
<1>7. CASE configure_filter
  <2>1. thr'["work"].todo \in WorkLists \ ScanLists /\ Begins("work")
    BY <1>1, <1>2, <1>7, FilterLists, Started DEF Idle, Begins
  <2>2. /\ mac'.scan = mac.scan /\ mac'.phase = mac.phase /\ mac'.conns = mac.conns
        /\ mac'.pairwise = mac.pairwise
    BY <1>1, <1>7, FilterLists DEF MacType
  <2> QED
    BY <1>7, <2>1, <2>2, FilterLists
<1>8. CASE suspend_resume
  BY <1>1, <1>8, Started DEF suspend_resume, Request, Idle, Begins
<1>9. CASE write_file_dump
  <2>1. <<"dump_cmd">> \notin PmcEntry
    BY DEF PmcEntry
  <2> QED
    BY <1>1, <1>9, <2>1, Started DEF write_file_dump, Request, Idle, Begins
<1>10. CASE write_file_bool_bmps
  <2>1. PICK on \in BOOLEAN : Pmc("dfs", on, <<"keep_alive">>)
    BY <1>10 DEF write_file_bool_bmps
  <2>2. <<"keep_alive">> # <<>>
    OBVIOUS
  <2>3. Start("dfs", IF on THEN <<"keep_alive", "enter_bmps", "pw_enter">>
                     ELSE IF vif.pw_state = "bmps" THEN <<"exit_bmps", "pw_full">> ELSE <<>>)
    BY <2>1, <2>2, PmcLists
  <2>4. thr'["dfs"].todo \in {<<>>} \cup PmcEntry /\ Begins("dfs")
    BY <1>1, <1>10, <2>3, Started DEF PmcEntry, write_file_bool_bmps, Request, Idle, Begins
  <2> QED
    BY <1>10, <2>1, <2>4 DEF write_file_bool_bmps, Request, Pmc
<1> QED
  BY <1>3, <1>4, <1>5, <1>6, <1>7, <1>8, <1>9, <1>10 DEF Requests

LEMMA PlacesRequests ==
  ASSUME TypeOK, Places, Requests
  PROVE  Places'
<1>1. /\ mac'.phase = mac.phase /\ mac'.conns = mac.conns /\ mac'.pairwise = mac.pairwise
      /\ sta' = sta /\ mac.phase \in Phases
  BY RequestForms, Types DEF MacType
<1>2. CASE Begins("mac") /\ thr'["mac"].todo = <<"set_power_params">> /\ mac.phase # "none"
  <2>1. MacList = <<>> /\ MacList' \in Resting
        /\ thr'["dfs"] = thr["dfs"] /\ thr'["work"] = thr["work"]
    BY <1>2 DEF Begins, MacList, Threads, Resting
  <2>2. MacList' \in PhaseLists(mac.phase)
    BY <1>1, <1>2, <2>1, CallLists
  <2>3. Resting \subseteq AssocRest /\ <<>> \in Resting
    BY DEF AssocRest, Resting
  <2>4. MacList \notin NoAid /\ MacList' \notin AssocLists \cup KeyLists
    BY <2>1, <2>3, Apart, CallLists
  <2> QED
    BY <1>1, <2>1, <2>2, <2>4 DEF Places
<1>3. CASE Begins("dfs") /\ thr'["dfs"].todo \in {<<>>, <<"dump_cmd">>} \cup PmcEntry
  <2>1. MacList' = MacList /\ thr'["work"] = thr["work"] /\ thr'["dfs"].todo \in DfsLists
    BY <1>3 DEF Begins, MacList, Threads, PmcEntry, DfsLists, BmpsLists
  <2> QED
    BY <1>1, <2>1 DEF Places
<1>4. CASE /\ Begins("work")
           /\ \/ thr'["work"].todo \in WorkLists \ ScanLists
              \/ thr'["work"].todo \in {<<"init_scan", "start_scan">>,
                                        <<"end_scan", "finish_scan">>}
  <2>1. MacList' = MacList /\ thr'["dfs"] = thr["dfs"] /\ thr'["work"].todo \in WorkLists
    BY <1>4 DEF Begins, MacList, Threads, WorkLists
  <2> QED
    BY <1>1, <2>1 DEF Places
<1> QED
  BY <1>2, <1>3, <1>4, RequestForms

LEMMA PlacesNext == TypeOK /\ Places /\ [Next]_vars => Places'
<1> SUFFICES ASSUME TypeOK, Places, [Next]_vars PROVE Places'
  OBVIOUS
<1>1. CASE UNCHANGED vars
  BY <1>1 DEF vars, Places, MacList
<1> QED
  BY <1>1, PlacesSmd, PlacesMacCall, PlacesRequests DEF Next

-----------------------------------------------------------------------------
(* What a connection leaves.                                               *)

\* Whose step a command is, and when.
LEMMA MacSteps ==
  ASSUME TypeOK, Places, NEW t \in Threads, Advances(t)
  PROVE  /\ Next1(t) \in {"config_bss", "delete_bss", "add_sta_self", "delete_sta_self",
                          "config_sta", "delete_sta", "gone", "set_stakey",
                          "remove_stakey", "update_bss"} => t = "mac"
         /\ t = "mac" => MacList # <<>> /\ MacList \in PhaseLists(mac.phase)
                         /\ MacList' = Tail(MacList) /\ Next1(t) = Head(MacList)
         /\ t # "mac" => MacList' = MacList
         /\ Next1(t) \in {"init_scan", "start_scan", "end_scan", "finish_scan"} => t = "work"
<1>1. t = "dfs" => Next1(t) \in {"keep_alive", "enter_bmps", "exit_bmps", "pw_enter",
                                 "pw_full", "dump_cmd"}
  BY DfsAt DEF Places, Advances, Next1
<1>2. t = "work" => Next1(t) \in {"init_scan", "start_scan", "end_scan", "finish_scan",
                                  "switch_channel", "update_cfg", "set_mc_all", "set_mc_list"}
  BY WorkAt DEF Places, Advances, Next1
<1>3. /\ t = "mac" => MacList # <<>> /\ MacList \in PhaseLists(mac.phase)
                      /\ MacList' = Tail(MacList) /\ Next1(t) = Head(MacList)
      /\ t # "mac" => MacList' = MacList
  BY DEF Places, Advances, Next1, MacList, Threads
<1>4. t = "mac" => Next1(t) \notin {"init_scan", "start_scan", "end_scan", "finish_scan"}
  BY <1>3, IdleAt, AssocAt, OtherPhaseAt, Types DEF MacType, Phases
<1> QED
  BY <1>1, <1>2, <1>3, <1>4 DEF Threads

LEMMA MacMoments ==
  ASSUME TypeOK, Places, NEW t \in Threads, Advances(t)
  PROVE  /\ Next1(t) = "config_bss" =>
              mac.phase = "bss" /\ MacList \notin Resting /\ MacList' = <<>>
         /\ Next1(t) = "delete_bss" => mac.phase = "idle"
         /\ Next1(t) = "add_sta_self" => mac.phase = "idle"
         /\ Next1(t) = "delete_sta_self" => mac.phase = "none"
         /\ Next1(t) = "config_sta" =>
              mac.phase = "assoc" /\ MacList \in AssocLists /\ MacList' = <<>>
         /\ Next1(t) \in {"delete_sta", "gone"} => mac.phase = "bye"
         /\ Next1(t) = "set_stakey" =>
              mac.phase = "assoc" /\ MacList \in KeyLists /\ MacList' = <<>>
         /\ Next1(t) = "remove_stakey" =>
              mac.phase = "assoc" /\ MacList \in AssocRest /\ MacList' = <<>>
         /\ Next1(t) = "update_bss" => mac.phase = "assoc" /\ MacList \in AssocLists \cup KeyLists
         /\ t = "mac" /\ MacList \in Resting => MacList' \in Resting
<1>1. CASE t # "mac"
  BY <1>1, MacSteps
<1>2. CASE t = "mac"
  <2>1. /\ MacList # <<>> /\ MacList \in PhaseLists(mac.phase)
        /\ MacList' = Tail(MacList) /\ Next1(t) = Head(MacList)
    BY <1>2, MacSteps
  <2>2. mac.phase \in Phases /\ <<>> \in Resting
    BY Types DEF MacType, Resting
  <2>3. MacList \in Resting => MacList' \in Resting
    BY <2>1, <2>2, RestingAt
  <2>4. CASE mac.phase = "idle"
    BY <2>1, <2>3, <2>4, IdleAt
  <2>5. CASE mac.phase = "assoc"
    BY <2>1, <2>3, <2>5, AssocAt
  <2>6. CASE mac.phase \in {"none", "bss", "peer", "bye"}
    BY <2>1, <2>3, <2>6, OtherPhaseAt
  <2> QED
    BY <2>2, <2>4, <2>5, <2>6 DEF Phases
<1> QED
  BY <1>1, <1>2

LEMMA Heads ==
  ASSUME NEW t \in Threads
  PROVE  /\ AddStaSelf(t) => Next1(t) = "add_sta_self"
         /\ DeleteStaSelf(t) => Next1(t) = "delete_sta_self"
         /\ ConfigBss(t) => Next1(t) = "config_bss"
         /\ UpdateBss(t) => Next1(t) = "update_bss"
         /\ ConfigSta(t) => Next1(t) = "config_sta"
         /\ DeleteSta(t) => Next1(t) = "delete_sta"
         /\ DeleteBss(t) => Next1(t) = "delete_bss"
         /\ SetStaKey(t) => Next1(t) = "set_stakey"
         /\ RemoveStaKey(t) => Next1(t) = "remove_stakey"
         /\ SetBssKey(t) => Next1(t) = "set_bsskey"
         /\ RemoveBssKey(t) => Next1(t) = "remove_bsskey"
         /\ EnterBmps(t) => Next1(t) = "enter_bmps"
         /\ ExitBmps(t) => Next1(t) = "exit_bmps"
         /\ InitScan(t) => Next1(t) = "init_scan"
         /\ StartScan(t) => Next1(t) = "start_scan"
         /\ EndScan(t) => Next1(t) = "end_scan"
         /\ FinishScan(t) => Next1(t) = "finish_scan"
         /\ OtherCommand(t) \/ KeepAlive(t) \/ SwitchChannel(t) \/ UpdateCfg(t)
            \/ SetPowerParams(t) \/ DumpCmd(t) \/ SetMcList(t) =>
              Next1(t) \in {"join", "set_link_st", "keep_alive", "switch_channel", "update_cfg",
                            "set_power_params", "dump_cmd", "set_mc_all", "set_mc_list"}
         /\ Assign(t) => Next1(t) \in {"pw_enter", "pw_full", "plain", "unassoc", "aid", "gone"}
BY DEF AddStaSelf, DeleteStaSelf, ConfigBss, UpdateBss, ConfigSta, DeleteSta, DeleteBss,
       SetStaKey, RemoveStaKey, SetBssKey, RemoveBssKey, EnterBmps, ExitBmps, InitScan,
       StartScan, EndScan, FinishScan, ScanStep, OtherCommand, KeepAlive, SwitchChannel,
       UpdateCfg, SetPowerParams, DumpCmd, SetMcList, Assign, Command, At, Next1

LEMMA WhichSmd ==
  ASSUME NEW t \in Threads, Smd(t)
  PROVE  /\ Next1(t) = "add_sta_self" => AddStaSelf(t)
         /\ Next1(t) = "delete_sta_self" => DeleteStaSelf(t)
         /\ Next1(t) = "config_bss" => ConfigBss(t)
         /\ Next1(t) = "update_bss" => UpdateBss(t)
         /\ Next1(t) = "config_sta" => ConfigSta(t)
         /\ Next1(t) = "delete_sta" => DeleteSta(t)
         /\ Next1(t) = "delete_bss" => DeleteBss(t)
         /\ Next1(t) = "set_stakey" => SetStaKey(t)
         /\ Next1(t) = "remove_stakey" => RemoveStaKey(t)
         /\ Next1(t) = "enter_bmps" => EnterBmps(t)
         /\ Next1(t) = "exit_bmps" => ExitBmps(t)
         /\ Next1(t) = "init_scan" => InitScan(t)
         /\ Next1(t) = "start_scan" => StartScan(t)
         /\ Next1(t) = "end_scan" => EndScan(t)
         /\ Next1(t) = "finish_scan" => FinishScan(t)
         /\ Next1(t) \in {"pw_enter", "pw_full", "gone"} => Assign(t)
BY Heads DEF Smd

LEMMA SmdClean ==
  ASSUME TypeOK, NEW t \in Threads, Smd(t), Clean'
  PROVE  Clean
<1>1. history \subseteq history'
  BY DEF Smd, AddStaSelf, DeleteStaSelf, ConfigBss, UpdateBss, ConfigSta, DeleteSta, DeleteBss,
     SetStaKey, RemoveStaKey, SetBssKey, RemoveBssKey, EnterBmps, ExitBmps, InitScan,
     StartScan, EndScan, FinishScan, ScanStep, OtherCommand, KeepAlive, SwitchChannel,
     UpdateCfg, SetPowerParams, DumpCmd, SetMcList, Assign, Command, Finish
<1> QED
  BY <1>1 DEF Clean

\* What the deletions do, when none was lost or refused.
LEMMA Deletions ==
  ASSUME TypeOK, NEW t \in Threads, Smd(t), Clean'
  PROVE  /\ Next1(t) = "delete_bss" =>
              Silent /\ IF HasBss(vif.bss_index) THEN fw' = BssDeleted(vif.bss_index) ELSE fw' = fw
         /\ Next1(t) = "delete_sta" =>
              /\ Silent
              /\ IF fw.sta[sta.sta_index] # "free"
                 THEN fw' = [fw EXCEPT !.sta[sta.sta_index] = "free", !.stakey = @ \ {sta.sta_index}]
                 ELSE fw' = fw
         /\ Next1(t) = "remove_stakey" => Silent /\ fw'.stakey = fw.stakey \ {sta.bss_sta_index}
         /\ Next1(t) = "set_stakey" =>
              Silent /\ fw'.stakey \subseteq fw.stakey \cup {sta.bss_sta_index}
         /\ Next1(t) = "delete_sta_self" =>
              \A i \in StaIdx : fw'.sta[i] \in {"bss", "peer"} => fw'.sta[i] = fw.sta[i]
<1>1. ASSUME Next1(t) = "delete_bss"
      PROVE  Silent /\ IF HasBss(vif.bss_index) THEN fw' = BssDeleted(vif.bss_index) ELSE fw' = fw
  <2>1. Silent /\ Exchange(t, "delete_bss", HasBss(vif.bss_index), BssDeleted(vif.bss_index))
    BY <1>1, WhichSmd, QuietForms
  <2> QED
    BY <2>1, ExchangeAdvances DEF Removals
<1>2. ASSUME Next1(t) = "delete_sta"
      PROVE  /\ Silent
             /\ IF fw.sta[sta.sta_index] # "free"
                THEN fw' = [fw EXCEPT !.sta[sta.sta_index] = "free", !.stakey = @ \ {sta.sta_index}]
                ELSE fw' = fw
  <2> DEFINE e == [fw EXCEPT !.sta[sta.sta_index] = "free", !.stakey = @ \ {sta.sta_index}]
  <2>1. Silent /\ Exchange(t, "delete_sta", fw.sta[sta.sta_index] # "free", e)
    BY <1>2, WhichSmd, QuietForms
  <2> HIDE DEF e
  <2>2. IF fw.sta[sta.sta_index] # "free" THEN fw' = e ELSE fw' = fw
    BY <2>1, ExchangeAdvances DEF Removals
  <2> QED
    BY <2>1, <2>2 DEF e
<1>3. ASSUME Next1(t) = "remove_stakey"
      PROVE  Silent /\ fw'.stakey = fw.stakey \ {sta.bss_sta_index}
  <2> DEFINE e == [fw EXCEPT !.stakey = @ \ {sta.bss_sta_index}]
  <2>1. Silent /\ Exchange(t, "remove_stakey", sta.bss_sta_index \in fw.stakey, e)
    BY <1>3, WhichSmd, QuietForms
  <2>2. e.stakey = fw.stakey \ {sta.bss_sta_index}
    BY Types DEF FwType
  <2> HIDE DEF e
  <2>3. fw' = e \/ (fw' = fw /\ sta.bss_sta_index \notin fw.stakey)
    BY <2>1, ExchangeAdvances DEF Removals
  <2> QED
    BY <2>1, <2>2, <2>3
<1>4. ASSUME Next1(t) = "set_stakey"
      PROVE  Silent /\ fw'.stakey \subseteq fw.stakey \cup {sta.bss_sta_index}
  <2> DEFINE e == [fw EXCEPT !.stakey = @ \cup {sta.bss_sta_index}]
  <2>1. Silent /\ Exchange(t, "set_stakey", fw.sta[sta.bss_sta_index] # "free", e)
    BY <1>4, WhichSmd, QuietForms
  <2>2. e.stakey = fw.stakey \cup {sta.bss_sta_index}
    BY Types DEF FwType
  <2> HIDE DEF e
  <2> QED
    BY <2>1, <2>2, ExchangeAdvances
<1>5. ASSUME Next1(t) = "delete_sta_self"
      PROVE  \A i \in StaIdx : fw'.sta[i] \in {"bss", "peer"} => fw'.sta[i] = fw.sta[i]
  <2> DEFINE e == [fw EXCEPT !.sta = [i \in StaIdx |-> IF i \in Self THEN "free" ELSE @[i]]]
  <2>1. Exchange(t, "delete_sta_self", Self # {}, e)
    BY <1>5, WhichSmd, QuietForms
  <2>2. \A i \in StaIdx : e.sta[i] \in {"bss", "peer"} => e.sta[i] = fw.sta[i]
    BY Types DEF FwType
  <2> HIDE DEF e
  <2> QED
    BY <2>1, <2>2, ExchangeAdvances
<1> QED
  BY <1>1, <1>2, <1>3, <1>4, <1>5

LEMMA BssSmd ==
  ASSUME TypeOK, Places, BssInv, NEW t \in Threads, Smd(t), Clean'
  PROVE  BssInv'
<1>1. Advances(t) /\ Touches(t) /\ mac' = mac
  BY SmdStep DEF Advances
<1>2. fw.bss \in [BssIdx -> 0..MaxConns]
  BY FwFields
<1>3. CASE Next1(t) = "config_bss"
  <2>1. /\ mac.phase = "bss" /\ MacList \notin Resting /\ MacList' = <<>>
        /\ \A b \in BssIdx : fw.bss[b] = 0
    BY <1>1, <1>3, MacMoments DEF BssInv
  <2>2. <<>> \in Resting
    BY DEF Resting
  <2>3. CASE fw' = fw
    BY <2>1, <2>3 DEF BssInv
  <2>4. ASSUME NEW b \in FreeBss, NEW i \in FreeSta, fw' = BssAdded(b, i),
               vif' = [vif EXCEPT !.bss_index = b]
        PROVE  BssInv'
    <3>1. vif'.bss_index = b
      BY <2>4, Types DEF VifType
    <3>2. \A c \in BssIdx : c # b => fw'.bss[c] = 0
      BY <2>1, <2>4, Types DEF FwType, BssAdded
    <3> QED
      BY <1>1, <2>1, <2>2, <3>1, <3>2 DEF BssInv
  <2> QED
    BY <1>3, <2>3, <2>4, WhichSmd, ConfigBssStep
<1>4. CASE Next1(t) = "delete_bss"
  <2>1. \A b \in BssIdx : fw'.bss[b] = 0
    <3>1. CASE HasBss(vif.bss_index)
      <4>1. fw' = BssDeleted(vif.bss_index)
        BY <1>4, <3>1, Deletions
      <4> QED
        BY <3>1, <4>1, Types DEF BssDeleted, FwType, BssInv, HasBss
    <3>2. CASE ~HasBss(vif.bss_index)
      BY <1>4, <3>2, Deletions DEF BssInv, HasBss
    <3> QED
      BY <3>1, <3>2
  <2> QED
    BY <2>1 DEF BssInv
<1>5. CASE Next1(t) \notin {"config_bss", "delete_bss"}
  <2>1. fw'.bss = fw.bss /\ vif'.bss_index = vif.bss_index
    BY <1>1, <1>5 DEF Touches
  <2>2. MacList \in Resting => MacList' \in Resting
    BY <1>1, MacSteps, MacMoments
  <2>3. At("mac", "delete_bss") => At("mac", "delete_bss")'
    <3>1. CASE t = "mac"
      BY <1>5, <3>1 DEF At, Next1
    <3>2. CASE t # "mac"
      BY <1>1, <3>2 DEF At, Advances, Threads
    <3> QED
      BY <3>1, <3>2
  <2> QED
    BY <1>1, <2>1, <2>2, <2>3 DEF BssInv
<1> QED
  BY <1>3, <1>4, <1>5

\* The entry of a BSS goes with it.
LEMMA EntrySmd ==
  ASSUME TypeOK, Places, BssInv, EntryInv, NEW t \in Threads, Smd(t), Clean'
  PROVE  EntryInv'
<1>1. Advances(t) /\ Touches(t) /\ mac' = mac
  BY SmdStep DEF Advances
<1>2. /\ fw.bss \in [BssIdx -> 0..MaxConns] /\ fw.of \in [BssIdx -> StaIdx]
      /\ fw.sta \in [StaIdx -> {"free", "self", "bss", "peer"}]
  BY FwFields
<1> DEFINE Peerless == \A i \in StaIdx : fw.sta[i] # "peer"
           Touched == {"add_sta_self", "delete_sta_self", "config_bss", "config_sta",
                       "delete_sta", "delete_bss", "gone"}
<1>3. CASE Next1(t) = "add_sta_self"
  <2>1. Peerless /\ mac.phase = "idle"
    BY <1>1, <1>3, MacMoments DEF EntryInv
  <2>2. fw'.bss = fw.bss /\ fw'.of = fw.of
    BY <1>1, <1>3 DEF Touches
  <2>3. \A i \in StaIdx : fw'.sta[i] \in {"bss", "peer"} => fw'.sta[i] = fw.sta[i]
    <3>1. ASSUME NEW j \in FreeSta, fw' = [fw EXCEPT !.sta[j] = "self"]
          PROVE  \A i \in StaIdx : fw'.sta[i] = IF i = j THEN "self" ELSE fw.sta[i]
      BY <3>1, Types DEF FwType, FreeSta
    <3>2. fw' = fw \/ \E j \in FreeSta : fw' = [fw EXCEPT !.sta[j] = "self"]
      BY <1>3, WhichSmd, AddStaSelfStep
    <3> QED
      BY <3>1, <3>2
  <2> QED
    BY <2>1, <2>2, <2>3 DEF EntryInv
<1>4. CASE Next1(t) = "delete_sta_self"
  <2>1. Peerless /\ mac.phase = "none"
    BY <1>1, <1>4, MacMoments DEF EntryInv
  <2>2. fw'.bss = fw.bss /\ fw'.of = fw.of
    BY <1>1, <1>4 DEF Touches
  <2> QED
    BY <1>4, <2>1, <2>2, Deletions DEF EntryInv
<1>5. CASE Next1(t) = "config_bss"
  <2>1. mac.phase = "bss" /\ MacList \notin Resting /\ Peerless
    BY <1>1, <1>5, MacMoments DEF EntryInv
  <2>2. \A b \in BssIdx : fw.bss[b] = 0
    BY <2>1 DEF BssInv
  <2>3. \A i \in StaIdx : fw.sta[i] \notin {"bss", "peer"}
    BY <2>1, <2>2 DEF EntryInv
  <2>4. ASSUME NEW b \in FreeBss, NEW j \in FreeSta, fw' = BssAdded(b, j)
        PROVE  EntryInv'
    <3>1. /\ \A i \in StaIdx : fw'.sta[i] = IF i = j THEN "bss" ELSE fw.sta[i]
          /\ b \in BssIdx /\ fw'.bss[b] = mac.conns /\ fw'.of[b] = j
      BY <2>4, Types DEF BssAdded, FwType, FreeBss, FreeSta
    <3>2. mac.conns # 0
      BY <2>1 DEF Places
    <3> QED
      BY <2>3, <3>1, <3>2 DEF EntryInv
  <2>5. CASE fw' = fw
    BY <2>3, <2>5 DEF EntryInv
  <2> QED
    BY <1>5, <2>4, <2>5, WhichSmd, ConfigBssStep
<1>6. CASE Next1(t) = "config_sta"
  <2>1. mac.phase = "assoc" /\ MacList \in AssocLists /\ MacList' = <<>> /\ Peerless
    BY <1>1, <1>6, MacMoments DEF EntryInv
  <2>2. fw'.bss = fw.bss /\ fw'.of = fw.of
    BY <1>1, <1>6 DEF Touches
  <2>3. <<>> \notin AssocLists
    BY Apart, CallLists DEF AssocRest, Resting
  <2>4. ASSUME NEW j \in FreeSta, fw' = [fw EXCEPT !.sta[j] = "peer"],
               sta' = [sta EXCEPT !.sta_index = j]
        PROVE  EntryInv'
    <3>1. /\ \A i \in StaIdx : fw'.sta[i] = IF i = j THEN "peer" ELSE fw.sta[i]
          /\ sta'.sta_index = j
      BY <2>4, Types DEF FwType, StaType, FreeSta
    <3> QED
      BY <1>1, <2>1, <2>2, <2>3, <3>1 DEF EntryInv
  <2>5. CASE fw' = fw
    BY <2>1, <2>5 DEF EntryInv
  <2> QED
    BY <1>6, <2>4, <2>5, WhichSmd, ConfigStaStep
<1>7. CASE Next1(t) = "delete_sta"
  <2>1. fw'.bss = fw.bss /\ fw'.of = fw.of
    BY <1>1, <1>7 DEF Touches
  <2>2. \A i \in StaIdx : /\ fw'.sta[i] \in {"free", fw.sta[i]}
                          /\ i = sta.sta_index => fw'.sta[i] = "free"
    <3>1. CASE fw.sta[sta.sta_index] # "free"
      <4>1. fw' = [fw EXCEPT !.sta[sta.sta_index] = "free", !.stakey = @ \ {sta.sta_index}]
        BY <1>7, <3>1, Deletions
      <4> QED
        BY <4>1, Types DEF FwType
    <3>2. CASE fw.sta[sta.sta_index] = "free"
      BY <1>7, <3>2, Deletions
    <3> QED
      BY <3>1, <3>2
  <2> QED
    BY <2>1, <2>2 DEF EntryInv
<1>8. CASE Next1(t) = "delete_bss"
  <2>1. Peerless /\ mac.phase = "idle"
    BY <1>1, <1>8, MacMoments DEF EntryInv
  <2>2. \A i \in StaIdx : fw'.sta[i] \notin {"bss", "peer"}
    <3>1. CASE HasBss(vif.bss_index)
      <4>1. fw' = BssDeleted(vif.bss_index)
        BY <1>8, <3>1, Deletions
      <4>2. \A i \in StaIdx : fw'.sta[i] = IF i = fw.of[vif.bss_index] THEN "free" ELSE fw.sta[i]
        BY <3>1, <4>1, Types DEF FwType, BssDeleted, HasBss
      <4> QED
        BY <2>1, <4>2 DEF BssInv, EntryInv
    <3>2. CASE ~HasBss(vif.bss_index)
      BY <1>8, <2>1, <3>2, Deletions DEF BssInv, EntryInv, HasBss
    <3> QED
      BY <3>1, <3>2
  <2> QED
    BY <2>2 DEF EntryInv
<1>9. CASE Next1(t) = "gone"
  <2>1. mac.phase = "bye" /\ t = "mac" /\ fw' = fw
    BY <1>1, <1>9, MacSteps, MacMoments, WhichSmd, AssignStep
  <2>2. Peerless
    BY <1>9, <2>1 DEF EntryInv, At, Next1
  <2> QED
    BY <2>1, <2>2 DEF EntryInv
<1>10. CASE Next1(t) \notin Touched
  <2>1. /\ fw'.bss = fw.bss /\ fw'.of = fw.of /\ fw'.sta = fw.sta
        /\ sta'.sta_index = sta.sta_index
    BY <1>1, <1>10 DEF Touches
  <2>2. mac.phase = "assoc" /\ MacList \notin AssocLists => MacList' \notin AssocLists
    BY <1>1, MacSteps, AssocTail
  <2>3. At("mac", "delete_sta") => At("mac", "delete_sta")'
    <3>1. CASE t = "mac"
      BY <1>10, <3>1 DEF At, Next1
    <3>2. CASE t # "mac"
      BY <1>1, <3>2 DEF At, Advances, Threads
    <3> QED
      BY <3>1, <3>2
  <2> QED
    BY <1>1, <2>1, <2>2, <2>3 DEF EntryInv
<1> QED
  BY <1>3, <1>4, <1>5, <1>6, <1>7, <1>8, <1>9, <1>10

LEMMA DeletedKeys ==
  ASSUME TypeOK
  PROVE  /\ BssDeleted(vif.bss_index).stakey \subseteq fw.stakey
         /\ [fw EXCEPT !.sta[sta.sta_index] = "free",
                       !.stakey = @ \ {sta.sta_index}].stakey \subseteq fw.stakey
<1> DEFINE i == sta.sta_index
           b == vif.bss_index
<1>1. [fw EXCEPT !.sta[i] = "free", !.stakey = @ \ {i}].stakey = fw.stakey \ {i}
  BY Types DEF FwType
<1>2. BssDeleted(b).stakey = fw.stakey \ {fw.of[b]}
  BY Types DEF FwType, BssDeleted
<1> QED
  BY <1>1, <1>2

LEMMA KeySmd ==
  ASSUME TypeOK, Places, KeyInv, NEW t \in Threads, Smd(t), Clean'
  PROVE  KeyInv'
<1>1. Advances(t) /\ Touches(t) /\ mac' = mac
  BY SmdStep DEF Advances
<1>2. fw.stakey \subseteq StaIdx /\ <<>> \notin AssocLists \cup KeyLists
  BY FwFields, Apart, CallLists DEF AssocRest, Resting
<1>3. CASE Next1(t) = "set_stakey"
  <2>1. fw.stakey = {} /\ mac.pairwise /\ mac.phase = "assoc" /\ MacList' = <<>>
    BY <1>1, <1>2, <1>3, MacMoments DEF KeyInv, Places
  <2>2. sta' = sta /\ fw'.stakey \subseteq {sta.bss_sta_index}
    BY <1>3, <2>1, Deletions DEF Silent
  <2> QED
    BY <1>1, <1>2, <2>1, <2>2 DEF KeyInv
<1>4. CASE Next1(t) = "remove_stakey"
  <2>1. fw'.stakey = {}
    BY <1>2, <1>4, Deletions DEF KeyInv
  <2> QED
    BY <2>1 DEF KeyInv
<1>5. CASE Next1(t) \in {"delete_sta", "delete_bss", "gone", "update_bss"}
  <2>1. fw.stakey = {}
    BY <1>1, <1>2, <1>5, MacMoments DEF KeyInv
  <2>2. fw'.stakey = {}
    <3>1. CASE Next1(t) = "delete_sta"
      <4>1. fw' \in {fw, [fw EXCEPT !.sta[sta.sta_index] = "free",
                                   !.stakey = @ \ {sta.sta_index}]}
        BY <3>1, Deletions
      <4>2. fw'.stakey \subseteq fw.stakey
        BY <4>1, DeletedKeys
      <4> QED
        BY <2>1, <4>2
    <3>2. CASE Next1(t) = "delete_bss"
      <4>1. fw' \in {fw, BssDeleted(vif.bss_index)}
        BY <3>2, Deletions
      <4>2. fw'.stakey \subseteq fw.stakey
        BY <4>1, DeletedKeys
      <4> QED
        BY <2>1, <4>2
    <3>3. CASE Next1(t) \in {"gone", "update_bss"}
      BY <1>1, <2>1, <3>3 DEF Touches
    <3> QED
      BY <1>5, <3>1, <3>2, <3>3
  <2> QED
    BY <2>2 DEF KeyInv
<1>6. CASE Next1(t) \notin {"set_stakey", "remove_stakey", "delete_sta", "delete_bss", "gone",
                           "update_bss"}
  <2>1. fw'.stakey = fw.stakey /\ sta'.bss_sta_index = sta.bss_sta_index
    BY <1>1, <1>6 DEF Touches
  <2>2. mac.phase = "assoc" /\ MacList \notin AssocLists \cup KeyLists =>
          MacList' \notin AssocLists \cup KeyLists
    BY ZenonT(40), <1>1, MacSteps, AssocTail
  <2>3. At("mac", "remove_stakey") => At("mac", "remove_stakey")'
    <3>1. CASE t = "mac"
      BY <1>6, <3>1 DEF At, Next1
    <3>2. CASE t # "mac"
      BY <1>1, <3>2 DEF At, Advances, Threads
    <3> QED
      BY <3>1, <3>2
  <2> QED
    BY <1>1, <1>2, <2>1, <2>2, <2>3 DEF KeyInv
<1> QED
  BY <1>3, <1>4, <1>5, <1>6

LEMMA SleepersSmd ==
  ASSUME TypeOK, Places, SleepersExist, NEW t \in Threads, Smd(t)
  PROVE  SleepersExist'
<1>1. Advances(t) /\ Touches(t)
  BY SmdStep
<1>2. fw.asleep \subseteq BssIdx /\ fw.bss \in [BssIdx -> 0..MaxConns]
  BY FwFields
<1>3. CASE Next1(t) \notin {"config_bss", "delete_bss", "enter_bmps", "exit_bmps"}
  BY <1>1, <1>3 DEF Touches, SleepersExist
<1>4. CASE Next1(t) = "enter_bmps"
  <2> DEFINE e == [fw EXCEPT !.asleep = @ \cup {vif.bss_index}]
  <2>1. Exchange(t, "enter_bmps", HasBss(vif.bss_index) /\ vif.bss_index \notin fw.asleep, e)
    BY <1>4, WhichSmd, QuietForms
  <2>2. e.asleep = fw.asleep \cup {vif.bss_index} /\ e.bss = fw.bss
    BY Types DEF FwType
  <2> HIDE DEF e
  <2>3. fw' = fw \/ (HasBss(vif.bss_index) /\ fw' = e)
    BY <2>1, ExchangeAdvances
  <2> QED
    BY <2>2, <2>3 DEF SleepersExist, HasBss
<1>5. CASE Next1(t) = "exit_bmps"
  <2> DEFINE e == [fw EXCEPT !.asleep = @ \ {vif.bss_index}]
  <2>1. Exchange(t, "exit_bmps", vif.bss_index \in fw.asleep, e)
    BY <1>5, WhichSmd, QuietForms
  <2>2. e.asleep = fw.asleep \ {vif.bss_index} /\ e.bss = fw.bss
    BY Types DEF FwType
  <2> HIDE DEF e
  <2>3. fw' = fw \/ fw' = e
    BY <2>1, ExchangeAdvances
  <2> QED
    BY <2>2, <2>3 DEF SleepersExist
<1>6. CASE Next1(t) = "delete_bss"
  <2> DEFINE e == BssDeleted(vif.bss_index)
  <2>1. Exchange(t, "delete_bss", HasBss(vif.bss_index), e)
    BY <1>6, WhichSmd, QuietForms
  <2>2. e.asleep = fw.asleep \ {vif.bss_index} /\ e.bss = [fw.bss EXCEPT ![vif.bss_index] = 0]
    BY Types DEF FwType, BssDeleted
  <2> HIDE DEF e
  <2>3. fw' = fw \/ fw' = e
    BY <2>1, ExchangeAdvances
  <2> QED
    BY <1>2, <2>2, <2>3 DEF SleepersExist
<1>7. CASE Next1(t) = "config_bss"
  <2> DEFINE room == FreeBss # {} /\ FreeSta # {}
             b == IF room THEN Least(FreeBss) ELSE 0
             i == IF room THEN Least(FreeSta) ELSE 0
  <2>1. Exchange(t, "config_bss", room, BssAdded(b, i))
    BY <1>7, WhichSmd DEF ConfigBss, Command, Exchange, BssAdded
  <2>2. room => b \in FreeBss
    BY FreeTyped
  <2> HIDE DEF room, b, i
  <2>3. fw' = fw \/ (b \in FreeBss /\ fw' = BssAdded(b, i))
    BY <2>1, <2>2, ExchangeAdvances
  <2>4. BssAdded(b, i).bss = [fw.bss EXCEPT ![b] = mac.conns]
        /\ BssAdded(b, i).asleep = fw.asleep
    BY Types DEF FwType, BssAdded
  <2> QED
    BY <1>2, <2>3, <2>4 DEF SleepersExist, FreeBss
<1> QED
  BY <1>3, <1>4, <1>5, <1>6, <1>7

LEMMA ScanSmd ==
  ASSUME TypeOK, Places, ScanInv, NEW t \in Threads, Smd(t), Clean'
  PROVE  ScanInv'
<1>1. Advances(t) /\ Touches(t) /\ mac' = mac
  BY SmdStep DEF Advances
<1> DEFINE todo == thr["work"].todo
<1>2. CASE t # "work"
  <2>1. todo' = todo /\ fw'.scan = fw.scan
    BY <1>1, <1>2, MacSteps DEF Advances, Touches, Threads
  <2> QED
    BY <1>1, <2>1 DEF ScanInv
<1>3. CASE t = "work"
  <2>1. todo # <<>> /\ todo \in WorkLists /\ todo' = Tail(todo) /\ Next1(t) = Head(todo)
    BY <1>1, <1>3 DEF Places, Advances, Next1
  <2>2. /\ <<>> \notin ScanLists /\ <<"start_scan">> # <<"finish_scan">>
        /\ <<"start_scan">> # <<"end_scan", "finish_scan">>
        /\ <<"finish_scan">> # <<"init_scan", "start_scan">>
        /\ <<"finish_scan">> # <<"end_scan", "finish_scan">>
    BY DEF ScanLists
  <2>3. ASSUME NEW c, NEW from, NEW to, Next1(t) = c,
               Exchange(t, c, fw.scan = from, [fw EXCEPT !.scan = to])
        PROVE  IF fw.scan = from THEN fw'.scan = to \/ (c \notin Removals /\ fw'.scan = fw.scan)
               ELSE fw'.scan = fw.scan
    <3> DEFINE e == [fw EXCEPT !.scan = to]
    <3>1. e.scan = to
      BY Types DEF FwType
    <3> HIDE DEF e
    <3>2. Exchange(t, c, fw.scan = from, e)
      BY <2>3 DEF e
    <3> QED
      BY <3>1, <3>2, ExchangeAdvances
  <2>4. CASE todo \in {<<"init_scan", "start_scan">>, <<"start_scan">>}
    <3>1. mac.scan /\ todo' \in {<<"start_scan">>, <<>>}
      BY <2>1, <2>4, HeadTail DEF ScanInv
    <3> QED
      BY <1>1, <2>2, <3>1 DEF ScanInv, ScanLists
  <2>5. CASE todo = <<"end_scan", "finish_scan">>
    <3>1. todo' = <<"finish_scan">> /\ ~mac.scan /\ Next1(t) = "end_scan"
      BY <2>1, <2>5, HeadTail DEF ScanInv
    <3>2. Exchange(t, "end_scan", fw.scan = "on", [fw EXCEPT !.scan = "mode"])
      BY <3>1, WhichSmd, QuietForms
    <3>3. fw'.scan # "on"
      BY <2>3, <3>1, <3>2 DEF Removals
    <3> QED
      BY <1>1, <2>2, <3>1, <3>3 DEF ScanInv
  <2>6. CASE todo = <<"finish_scan">>
    <3>1. todo' = <<>> /\ ~mac.scan /\ Next1(t) = "finish_scan" /\ fw.scan # "on"
      BY <2>1, <2>6, HeadTail DEF ScanInv
    <3>2. Exchange(t, "finish_scan", fw.scan = "mode", [fw EXCEPT !.scan = "no"])
      BY <3>1, WhichSmd, QuietForms
    <3>3. fw'.scan = "no"
      BY <2>3, <3>1, <3>2, FwFields DEF Removals
    <3> QED
      BY <1>1, <2>2, <3>1, <3>3 DEF ScanInv, ScanLists
  <2>7. CASE todo \notin ScanLists
    <3>1. todo' = <<>> /\ fw'.scan = fw.scan
      BY <1>1, <2>1, <2>7, WorkAt DEF Touches, ScanLists
    <3> QED
      BY <1>1, <2>2, <2>7, <3>1 DEF ScanInv, ScanLists
  <2> QED
    BY <2>4, <2>5, <2>6, <2>7 DEF ScanLists
<1> QED
  BY <1>2, <1>3

\* Which lists are of power save.
HasPmc(L) == \E i \in DOMAIN L : L[i] \in PmcSteps

LEMMA PmcTail ==
  ASSUME NEW L \in Seq(Steps), L # <<>>
  PROVE  /\ HasPmc(Tail(L)) => HasPmc(L)
         /\ Head(L) \in PmcSteps => HasPmc(L)
<1>1. 1 \in DOMAIN L /\ Head(L) = L[1]
  BY LenProperties, EmptySeq
<1>2. ASSUME NEW i \in DOMAIN Tail(L)
      PROVE  i + 1 \in DOMAIN L /\ Tail(L)[i] = L[i + 1]
  <2>1. Tail(L) \in Seq(Steps) /\ Len(Tail(L)) = Len(L) - 1
    BY HeadTailProperties
  <2>2. i \in 1..Len(Tail(L)) /\ DOMAIN L = 1..Len(L) /\ Len(L) \in Nat
    BY <1>2, <2>1, LenProperties
  <2> QED
    BY <2>1, <2>2, HeadTailProperties
<1> QED
  BY <1>1, <1>2 DEF HasPmc

LEMMA PmcFree ==
  /\ \A L \in {<<>>, <<"set_power_params">>, <<"dump_cmd">>} : ~HasPmc(L)
  /\ \A L \in WorkLists : ~HasPmc(L)
  /\ \A L \in AssocLists \cup KeyLists : ~HasPmc(L)
  /\ \A L \in {<<"add_sta_self">>, <<"delete_sta_self">>, <<"join", "config_bss">>,
               <<"set_bsskey">>, <<"remove_stakey">>, <<"remove_bsskey">>,
               <<"delete_sta", "gone">>, <<"delete_bss", "plain">>,
               <<"delete_bss", "plain", "unassoc", "set_link_st">>} : ~HasPmc(L)
<1>1. /\ \A a : DOMAIN <<a>> = {1} /\ <<a>>[1] = a
      /\ \A a, b : DOMAIN <<a, b>> = {1, 2} /\ <<a, b>>[1] = a /\ <<a, b>>[2] = b
  OBVIOUS
<1>2. /\ \A a, b, c : /\ DOMAIN <<a, b, c>> = {1, 2, 3} /\ <<a, b, c>>[1] = a
                      /\ <<a, b, c>>[2] = b /\ <<a, b, c>>[3] = c
      /\ \A a, b, c, d : /\ DOMAIN <<a, b, c, d>> = {1, 2, 3, 4} /\ <<a, b, c, d>>[1] = a
                         /\ <<a, b, c, d>>[2] = b /\ <<a, b, c, d>>[3] = c
                         /\ <<a, b, c, d>>[4] = d
  OBVIOUS
<1>3. ~HasPmc(<<>>) /\ \A a : a \notin PmcSteps => ~HasPmc(<<a>>)
  BY <1>1 DEF HasPmc
<1>4. \A a, b : a \notin PmcSteps /\ b \notin PmcSteps => ~HasPmc(<<a, b>>)
  BY <1>1 DEF HasPmc
<1>5. \A a, b, c : a \notin PmcSteps /\ b \notin PmcSteps /\ c \notin PmcSteps =>
        ~HasPmc(<<a, b, c>>)
  BY <1>2 DEF HasPmc
<1>6. ASSUME NEW a, NEW b, NEW c, NEW d, {a, b, c, d} \cap PmcSteps = {}
      PROVE  ~HasPmc(<<a, b, c, d>>)
  <2> DEFINE L == <<a, b, c, d>>
  <2>1. DOMAIN L = {1, 2, 3, 4} /\ L[1] = a /\ L[2] = b /\ L[3] = c /\ L[4] = d
    OBVIOUS
  <2> HIDE DEF L
  <2>2. \A i \in DOMAIN L : L[i] \in {a, b, c, d}
    BY <2>1
  <2>3. ~HasPmc(L)
    BY <1>6, <2>2 DEF HasPmc
  <2> QED
    BY <2>3 DEF L
<1> HIDE DEF HasPmc
<1>7. \A L \in {<<>>, <<"set_power_params">>, <<"dump_cmd">>} : ~HasPmc(L)
  BY <1>3 DEF PmcSteps
<1>8. \A L \in WorkLists : ~HasPmc(L)
  BY <1>3, <1>4 DEF PmcSteps, WorkLists
<1>9. \A L \in AssocLists \cup KeyLists : ~HasPmc(L)
  BY <1>3, <1>4, <1>5, <1>6 DEF PmcSteps, AssocLists, KeyLists
<1>10. \A L \in {<<"add_sta_self">>, <<"delete_sta_self">>, <<"join", "config_bss">>,
               <<"set_bsskey">>, <<"remove_stakey">>, <<"remove_bsskey">>,
               <<"delete_sta", "gone">>, <<"delete_bss", "plain">>,
               <<"delete_bss", "plain", "unassoc", "set_link_st">>} : ~HasPmc(L)
  BY <1>3, <1>4, <1>6 DEF PmcSteps
<1> QED
  BY <1>7, <1>8, <1>9, <1>10

LEMMA Pmc1 ==
  ASSUME NEW t \in Threads
  PROVE  InPmc(t) <=> HasPmc(thr[t].todo)
BY DEF InPmc, HasPmc

LEMMA Pmc2 ==
  ASSUME NEW t \in Threads
  PROVE  InPmc(t)' <=> HasPmc(thr'[t].todo)
BY DEF InPmc, HasPmc

Orderly == history \cap {"mixed", "noexit"} = {}

LEMMA PmcSmd ==
  ASSUME TypeOK, Places, SleepersExist, BssInv, PmcInv, NEW t \in Threads, Smd(t), Clean',
         Orderly'
  PROVE  /\ Orderly /\ ~(InPmc("mac") /\ InPmc("dfs"))'
         /\ \A u \in Threads : At(u, "pw_full")' => fw'.asleep = {}
         /\ fw'.asleep # {} => \/ vif'.pw_state = "bmps"
                               \/ \E u \in Threads : At(u, "pw_enter")' /\ thr'[u].ret
<1>1. Advances(t) /\ Touches(t) /\ {"mac", "dfs", "work"} \subseteq Threads
  BY SmdStep DEF Threads
<1>2. Orderly
  <2>1. history \subseteq history'
    BY DEF Smd, AddStaSelf, DeleteStaSelf, ConfigBss, UpdateBss, ConfigSta, DeleteSta, DeleteBss,
       SetStaKey, RemoveStaKey, SetBssKey, RemoveBssKey, EnterBmps, ExitBmps, InitScan,
       StartScan, EndScan, FinishScan, ScanStep, OtherCommand, KeepAlive, SwitchChannel,
       UpdateCfg, SetPowerParams, DumpCmd, SetMcList, Assign, Command, Finish
  <2> QED
    BY <2>1 DEF Orderly
<1>3. /\ ~(InPmc("mac") /\ InPmc("dfs"))
      /\ \A u \in Threads : At(u, "pw_full") => fw.asleep = {}
      /\ fw.asleep # {} => \/ vif.pw_state = "bmps"
                           \/ \E u \in Threads : At(u, "pw_enter") /\ thr[u].ret
  BY <1>2 DEF PmcInv, Orderly
<1>4. \A u \in Threads : InPmc(u)' => InPmc(u)
  <2>1. thr[t].todo \in Seq(Steps) /\ thr[t].todo # <<>>
    BY <1>1, Types DEF ThrType, Advances
  <2>2. HasPmc(thr'[t].todo) => HasPmc(thr[t].todo)
    BY <1>1, <2>1, PmcTail DEF Advances
  <2> QED
    BY <1>1, <2>2, Pmc1, Pmc2 DEF Advances
<1>5. ~(InPmc("mac") /\ InPmc("dfs"))'
  BY <1>1, <1>3, <1>4
\* Another thread is in no power-save call if this one is.
<1>6. ASSUME Next1(t) \in PmcSteps, NEW u \in Threads, u # t
      PROVE  thr'[u] = thr[u] /\ ~At(u, "pw_full") /\ ~At(u, "pw_enter")
  <2>1. InPmc(t)
    BY <1>1, <1>6, PmcTail, Pmc1, Types DEF Advances, Next1, ThrType
  <2>2. \A v \in Threads : At(v, "pw_full") \/ At(v, "pw_enter") => InPmc(v)
    BY PmcTail, Pmc1, Types DEF At, PmcSteps, ThrType
  <2>3. ~InPmc("work")
    BY <1>1, PmcFree, Pmc1 DEF Places
  <2>4. ~InPmc(u)
    BY <1>3, <1>6, <2>1, <2>3 DEF Threads
  <2> QED
    BY <1>1, <1>6, <2>2, <2>4 DEF Advances
<1>7. Next1(t) \in PmcSteps => t \in {"mac", "dfs"}
  BY <1>1, WorkAt DEF Places, Advances, Next1, Threads, PmcSteps
<1>8. t \in {"mac", "dfs"} =>
        /\ Next1(t) = "enter_bmps" => thr'[t].todo = <<"pw_enter">>
        /\ Next1(t) = "exit_bmps" => thr'[t].todo = <<"pw_full">>
        /\ Next1(t) \in {"pw_enter", "pw_full"} => thr'[t].todo = <<>>
        /\ Next1(t) \notin PmcSteps => ~At(t, "pw_full")' /\ ~At(t, "pw_enter")'
  <2>1. CASE t = "dfs"
    <3>1. Head(<<"enter_bmps", "pw_enter">>) = "enter_bmps"
      BY HeadTail
    <3> QED
      BY <1>1, <2>1, <3>1, DfsAt DEF Places, Advances, Next1, At, PmcSteps
  <2>2. CASE t = "mac"
    <3>1. MacList # <<>> /\ MacList \in PhaseLists(mac.phase) /\ thr'[t].todo = Tail(MacList)
          /\ Next1(t) = Head(MacList)
      BY <1>1, <2>2 DEF Places, Advances, MacList, Next1
    <3>2. CASE mac.phase = "assoc"
      <4>1. /\ Head(<<"update_bss", "aid", "config_sta">>) = "update_bss"
            /\ Head(<<"aid", "config_sta">>) = "aid"
            /\ Head(<<"config_sta">>) = "config_sta" /\ Head(<<"set_stakey">>) = "set_stakey"
        BY HeadTail
      <4> QED
        BY <2>2, <3>1, <3>2, <4>1, AssocAt DEF At, PmcSteps
    <3>3. CASE mac.phase = "idle"
      <4>1. /\ Head(<<"plain">>) = "plain" /\ Head(<<"unassoc", "set_link_st">>) = "unassoc"
            /\ Head(<<"set_link_st">>) = "set_link_st"
        BY HeadTail
      <4>2. Head(<<"plain", "unassoc", "set_link_st">>) = "plain"
        BY HeadTail
      <4> QED
        BY <2>2, <3>1, <3>3, <4>1, <4>2, IdleAt DEF At, PmcSteps
    <3>4. CASE mac.phase \in {"none", "bss", "peer", "bye"}
      <4>1. Head(<<"config_bss">>) = "config_bss" /\ Head(<<"gone">>) = "gone"
        BY HeadTail
      <4> QED
        BY <2>2, <3>1, <3>4, <4>1, OtherPhaseAt DEF At, PmcSteps
    <3> QED
      BY <3>2, <3>3, <3>4, Types DEF MacType, Phases
  <2> QED
    BY <2>1, <2>2
<1>9. t = "work" => ~At(t, "pw_full")' /\ ~At(t, "pw_enter")'
  <2>1. Head(<<"start_scan">>) = "start_scan" /\ Head(<<"finish_scan">>) = "finish_scan"
    BY HeadTail
  <2> QED
    BY <1>1, <2>1, WorkAt DEF Places, Advances, At
<1>10. CASE Next1(t) = "enter_bmps"
  <2> DEFINE e == [fw EXCEPT !.asleep = @ \cup {vif.bss_index}]
  <2>1. Next1(t) \in PmcSteps /\ t \in {"mac", "dfs"} /\ thr'[t].todo = <<"pw_enter">>
    BY <1>7, <1>8, <1>10 DEF PmcSteps
  <2>2. At(t, "pw_enter")' /\ ~At(t, "pw_full")'
    BY <2>1, HeadTail DEF At
  <2>3. vif' = vif /\ (thr'[t].ret \/ fw' = fw)
    <3>1. EnterBmps(t)
      BY <1>10, WhichSmd
    <3>2. vif' = vif
      BY <3>1, QuietForms DEF Silent
    <3>3. PICK o : Finish(t, o) /\ fw' = IF o \in {"ok", "lost"} THEN e ELSE fw
      BY <3>1 DEF EnterBmps, Command
    <3>4. o # "lost"
      BY <3>3 DEF Finish, Clean
    <3>5. o = "ok" => thr'[t].ret
      BY <3>3, Types DEF Finish, ThrType
    <3> HIDE DEF e
    <3> QED
      BY <3>2, <3>3, <3>4, <3>5
  <2>4. \A u \in Threads : ~At(u, "pw_full")'
    BY <1>6, <2>1, <2>2 DEF At
  <2>5. fw.asleep # {} => vif.pw_state = "bmps"
    <3>1. ~At(t, "pw_enter")
      BY <1>10 DEF At, Next1
    <3> QED
      BY <1>3, <1>6, <2>1, <3>1
  <2> QED
    BY <1>2, <1>5, <2>2, <2>3, <2>4, <2>5
<1>11. CASE Next1(t) = "exit_bmps"
  <2> DEFINE e == [fw EXCEPT !.asleep = @ \ {vif.bss_index}]
  <2>1. Next1(t) \in PmcSteps /\ t \in {"mac", "dfs"}
    BY <1>7, <1>11 DEF PmcSteps
  <2>2. fw' = e
    <3>1. ExitBmps(t)
      BY <1>11, WhichSmd
    <3>2. PICK o : Finish(t, o) /\ fw' = IF o \in {"ok", "lost"} THEN e ELSE fw
      BY <3>1 DEF ExitBmps, Command
    <3>3. Head(thr[t].todo) = "exit_bmps"
      BY <1>11 DEF Next1
    <3>4. o = "ok"
      BY <3>2, <3>3 DEF Finish, Orderly
    <3> QED
      BY <3>2, <3>4
  <2>3. e.asleep = fw.asleep \ {vif.bss_index}
    BY Types DEF FwType
  <2> HIDE DEF e
  <2>4. fw.asleep \subseteq {vif.bss_index}
    BY DEF SleepersExist, BssInv
  <2>5. fw'.asleep = {}
    BY <2>2, <2>3, <2>4
  <2> QED
    BY <1>2, <1>5, <2>5
<1>12. CASE Next1(t) \in {"pw_enter", "pw_full"}
  <2>1. Next1(t) \in PmcSteps /\ t \in {"mac", "dfs"} /\ thr'[t].todo = <<>> /\ fw' = fw
        /\ Assign(t)
    BY <1>7, <1>8, <1>12, WhichSmd, AssignStep DEF PmcSteps
  <2>2. ~At(t, "pw_full")' /\ ~At(t, "pw_enter")'
    BY <2>1 DEF At
  <2>3. \A u \in Threads : ~At(u, "pw_full")'
    BY <1>6, <2>1, <2>2 DEF At
  <2>4. CASE Next1(t) = "pw_enter"
    <3>1. At(t, "pw_enter") /\ ~At(t, "pw_full")
      BY <1>1, <2>4 DEF At, Next1, Advances
    <3>2. fw.asleep # {} => vif.pw_state = "bmps" \/ thr[t].ret
      BY <1>3, <1>6, <2>1
    <3> QED
      BY <1>2, <1>5, <2>1, <2>3, <2>4, <3>2, AssignStep, Types DEF ThrType
  <2>5. CASE Next1(t) = "pw_full"
    <3>1. At(t, "pw_full")
      BY <1>1, <2>5 DEF At, Next1, Advances
    <3> QED
      BY <1>2, <1>3, <1>5, <2>1, <2>3, <3>1
  <2> QED
    BY <1>12, <2>4, <2>5
<1>13. CASE Next1(t) \notin PmcSteps
  <2>1. vif'.pw_state = vif.pw_state
    BY <1>1, <1>13 DEF Touches, PmcSteps
  <2>2. fw'.asleep \subseteq fw.asleep
    <3>1. CASE Next1(t) # "delete_bss"
      BY <1>1, <1>13, <3>1 DEF Touches, PmcSteps
    <3>2. CASE Next1(t) = "delete_bss"
      <4>1. fw' \in {fw, BssDeleted(vif.bss_index)}
        BY <3>2, Deletions
      <4>2. BssDeleted(vif.bss_index).asleep = fw.asleep \ {vif.bss_index}
        BY Types DEF FwType, BssDeleted
      <4> QED
        BY <4>1, <4>2
    <3> QED
      BY <3>1, <3>2
  <2>3. \A u \in Threads : /\ At(u, "pw_full")' => At(u, "pw_full")
                           /\ At(u, "pw_enter") => At(u, "pw_enter")' /\ thr'[u].ret = thr[u].ret
    <3>1. ~At(t, "pw_full")' /\ ~At(t, "pw_enter")'
      BY <1>8, <1>9, <1>13 DEF Threads
    <3>2. ~At(t, "pw_enter")
      BY <1>13 DEF At, Next1, PmcSteps
    <3>3. \A u \in Threads : u # t => thr'[u] = thr[u]
      BY <1>1 DEF Advances
    <3> QED
      BY <3>1, <3>2, <3>3 DEF At
  <2> QED
    BY <1>2, <1>3, <1>5, <2>1, <2>2, <2>3
<1> QED
  BY <1>10, <1>11, <1>12, <1>13 DEF PmcSteps

\* The callbacks' own steps.
LEMMA CallFacts ==
  ASSUME TypeOK, Places, MacCall
  PROVE  /\ MacList = <<>> /\ mac'.scan = mac.scan
         /\ mac.phase \notin {"none", "idle"} =>
              /\ vif'.bss_index = vif.bss_index
              /\ \/ mac'.phase \in {"peer", "assoc", "bye"}
                 \/ mac'.phase = "idle" /\ At("mac", "delete_bss")'
         /\ mac.phase # "none" => vif'.pw_state = vif.pw_state
<1>1. "mac" \in Threads /\ mac \in MacType /\ vif \in VifType
  BY Types DEF Threads
<1>2. MacList = <<>>
  BY MacCallBegins DEF Begins, MacList
<1>3. CASE LeaveBss
  <2>1. /\ Head(<<"delete_bss", "plain">>) = "delete_bss"
        /\ <<"delete_bss", "plain">> # <<>>
        /\ <<"delete_bss", "plain", "unassoc", "set_link_st">> # <<>>
    BY HeadTail
  <2>2. Head(<<"delete_bss", "plain", "unassoc", "set_link_st">>) = "delete_bss"
    BY HeadTail
  <2>3. At("mac", "delete_bss")'
    BY <1>1, <1>3, <2>1, <2>2, LeaveList, Started DEF At
  <2>4. mac' = [mac EXCEPT !.phase = "idle", !.assoc = FALSE] /\ vif' = vif
    BY <1>3 DEF LeaveBss
  <2> QED
    BY <1>1, <1>2, <2>3, <2>4 DEF MacType
<1>4. CASE add_interface \/ remove_interface \/ JoinBss
  BY <1>1, <1>2, <1>4 DEF add_interface, remove_interface, JoinBss, Call, MacType, VifType
<1>5. CASE sta_add \/ Associate \/ sta_remove
  BY <1>1, <1>2, <1>5 DEF sta_add, Associate, sta_remove, MacType, VifType
<1>6. CASE SetPairwiseKey \/ SetGroupKey \/ DisablePairwiseKey \/ DisableGroupKey \/ ChangePs
  BY <1>1, <1>2, <1>6 DEF SetPairwiseKey, SetGroupKey, DisablePairwiseKey, DisableGroupKey,
     ChangePs, Call, MacType, VifType
<1> QED
  BY <1>3, <1>4, <1>5, <1>6 DEF MacCall

\* Of an association, and what ends it.
LEMMA AssocCalls ==
  ASSUME TypeOK, Places, MacCall, mac.phase = "assoc"
  PROVE  /\ UNCHANGED <<sta.sta_index, sta.bss_sta_index>>
         /\ \/ /\ mac'.phase = "assoc" /\ MacList' \notin AssocLists
               /\ MacList' \notin KeyLists \/ ~mac.pairwise
               /\ mac'.pairwise = mac.pairwise \/ At("mac", "remove_stakey")' \/ ~mac.pairwise
            \/ mac'.phase = "bye" /\ At("mac", "delete_sta")' /\ ~mac.pairwise
<1>1. "mac" \in Threads /\ mac \in MacType /\ sta \in StaType
  BY Types DEF Threads
<1>2. \A L \in AssocRest : L \notin AssocLists \cup KeyLists
  BY Apart
<1>3. <<>> \notin NoAid /\ MacList = <<>> /\ <<>> \in AssocRest
  BY Apart, CallLists, CallFacts DEF AssocRest, Resting
<1>4. CASE SetPairwiseKey
  <2>1. MacList' \in KeyLists /\ ~mac.pairwise
    BY <1>1, <1>4, Started, CallLists DEF SetPairwiseKey, MacList
  <2> QED
    BY <1>1, <1>4, <2>1, Apart DEF SetPairwiseKey, MacType, StaType
<1>5. CASE DisablePairwiseKey
  <2>1. MacList' = <<"remove_stakey">>
    BY <1>1, <1>3, <1>5, Started DEF DisablePairwiseKey, MacList, Places
  <2>2. MacList' \in AssocRest /\ At("mac", "remove_stakey")'
    <3>1. Head(<<"remove_stakey">>) = "remove_stakey" /\ <<"remove_stakey">> # <<>>
      BY HeadTail
    <3> QED
      BY <2>1, <3>1, CallLists DEF At, MacList
  <2> QED
    BY <1>1, <1>2, <1>5, <2>2 DEF DisablePairwiseKey, MacType, StaType
<1>6. CASE SetGroupKey \/ DisableGroupKey
  <2>1. MacList' \in AssocRest
    BY <1>1, <1>6, Started, CallLists DEF SetGroupKey, DisableGroupKey, MacList
  <2> QED
    BY <1>1, <1>2, <1>6, <2>1 DEF SetGroupKey, DisableGroupKey, MacType
<1>7. CASE ChangePs
  <2>1. Pmc("mac", ~mac.ps, <<>>) /\ mac' = [mac EXCEPT !.ps = ~@] /\ sta' = sta
    BY <1>7 DEF ChangePs
  <2>2. MacList' \in AssocRest
    BY <1>1, <1>3, <2>1, PmcLists, Started, CallLists DEF MacList
  <2> QED
    BY <1>1, <1>2, <2>1, <2>2 DEF MacType
<1>8. CASE sta_remove
  <2>1. Head(<<"delete_sta", "gone">>) = "delete_sta" /\ <<"delete_sta", "gone">> # <<>>
    BY HeadTail
  <2>2. At("mac", "delete_sta")'
    BY <1>1, <1>8, <2>1, Started DEF sta_remove, At
  <2> QED
    BY <1>1, <1>8, <2>2 DEF sta_remove, MacType
<1> QED
  BY <1>4, <1>5, <1>6, <1>7, <1>8
     DEF MacCall, add_interface, remove_interface, JoinBss, sta_add, Associate, LeaveBss, Call

LEMMA FirmwareMacCall ==
  ASSUME TypeOK, Places, BssInv, EntryInv, KeyInv, ScanInv, MacCall
  PROVE  BssInv' /\ EntryInv' /\ KeyInv' /\ ScanInv'
<1>1. /\ MacList = <<>> /\ fw' = fw /\ \A c : ~At("mac", c)
      /\ thr'["work"] = thr["work"]
  BY CallFacts, MacCallBegins DEF At, MacList, Begins, Threads
<1>2. BssInv'
  <2>1. CASE mac.phase \in {"none", "idle"}
    <3>1. \A b \in BssIdx : fw.bss[b] = 0
      BY <1>1, <2>1 DEF BssInv
    <3> QED
      BY <1>1, <3>1 DEF BssInv
  <2>2. CASE mac.phase \notin {"none", "idle"}
    BY <1>1, <2>2, CallFacts DEF BssInv
  <2> QED
    BY <2>1, <2>2
<1>3. EntryInv'
  <2>1. CASE mac.phase # "assoc"
    <3>1. \A i \in StaIdx : fw.sta[i] # "peer"
      BY <1>1, <2>1 DEF EntryInv
    <3> QED
      BY <1>1, <3>1 DEF EntryInv
  <2>2. CASE mac.phase = "assoc"
    BY <1>1, <2>2, AssocCalls DEF EntryInv
  <2> QED
    BY <2>1, <2>2
<1>4. KeyInv'
  <2>1. CASE mac.phase # "assoc" \/ ~mac.pairwise
    <3>1. \A i \in fw.stakey : FALSE
      BY <1>1, <2>1 DEF KeyInv
    <3> QED
      BY <1>1, <3>1 DEF KeyInv
  <2>2. CASE mac.phase = "assoc" /\ mac.pairwise
    BY <1>1, <2>2, AssocCalls DEF KeyInv
  <2> QED
    BY <2>1, <2>2
<1>5. ScanInv'
  BY <1>1, CallFacts DEF ScanInv
<1> QED
  BY <1>2, <1>3, <1>4, <1>5

LEMMA FirmwareRequests ==
  ASSUME TypeOK, Places, BssInv, EntryInv, KeyInv, ScanInv, Requests
  PROVE  BssInv' /\ EntryInv' /\ KeyInv' /\ ScanInv'
<1>1. UNCHANGED <<vif, sta, fw>> /\ mac'.phase = mac.phase /\ mac'.pairwise = mac.pairwise
  BY RequestForms
<1>2. CASE Begins("mac") /\ thr'["mac"].todo = <<"set_power_params">> /\ mac' = mac
  <2>1. MacList = <<>> /\ MacList' \in Resting /\ thr'["work"] = thr["work"]
        /\ \A c : ~At("mac", c)
    BY <1>2 DEF Begins, MacList, Threads, Resting, At
  <2>2. Resting \subseteq AssocRest
    BY DEF AssocRest
  <2>3. MacList' \notin AssocLists \cup KeyLists
    BY <2>1, <2>2, Apart
  <2> QED
    BY <1>1, <1>2, <2>1, <2>3 DEF BssInv, EntryInv, KeyInv, ScanInv
<1>3. CASE Begins("dfs") /\ mac' = mac
  <2>1. MacList' = MacList /\ thr'["mac"] = thr["mac"] /\ thr'["work"] = thr["work"]
    BY <1>3 DEF Begins, MacList, Threads
  <2> QED
    BY <1>1, <1>3, <2>1 DEF BssInv, EntryInv, KeyInv, ScanInv, At
<1>4. CASE /\ Begins("work")
           /\ \/ thr'["work"].todo \in WorkLists \ ScanLists /\ mac'.scan = mac.scan
              \/ thr'["work"].todo = <<"init_scan", "start_scan">> /\ mac'.scan /\ ~mac.scan
              \/ thr'["work"].todo = <<"end_scan", "finish_scan">> /\ ~mac'.scan /\ mac.scan
  <2>1. MacList' = MacList /\ thr'["mac"] = thr["mac"] /\ thr["work"].todo = <<>>
    BY <1>4 DEF Begins, MacList, Threads
  <2>2. BssInv' /\ EntryInv' /\ KeyInv'
    BY <1>1, <2>1 DEF BssInv, EntryInv, KeyInv, At
  <2>3. /\ <<>> \notin ScanLists
        /\ <<"init_scan", "start_scan">> \notin {<<"end_scan", "finish_scan">>, <<"finish_scan">>}
        /\ <<"end_scan", "finish_scan">> \notin
             {<<"init_scan", "start_scan">>, <<"start_scan">>, <<"finish_scan">>}
    BY DEF ScanLists
  <2>4. ScanInv'
    BY <1>1, <1>4, <2>1, <2>3 DEF ScanInv, ScanLists
  <2> QED
    BY <2>2, <2>4
<1> QED
  BY <1>2, <1>3, <1>4, RequestForms

\* A call that is no power-save call, or the only one.
LEMMA PmcBegins ==
  ASSUME TypeOK, TypeOK', PmcInv, NEW t \in Threads, Begins(t), fw' = fw,
         history \subseteq history', ~InPmc("work"), ~InPmc("work")',
         vif'.pw_state = vif.pw_state \/ fw.asleep = {},
         \/ ~HasPmc(thr'[t].todo)
         \/ /\ \A u \in Threads \ {t} : Orderly' => ~InPmc(u)
            /\ ~At(t, "pw_full")'
  PROVE  PmcInv'
<1> SUFFICES ASSUME Orderly'
             PROVE  /\ ~(InPmc("mac") /\ InPmc("dfs"))'
                    /\ \A u \in Threads : At(u, "pw_full")' => fw'.asleep = {}
                    /\ fw'.asleep # {} =>
                         \/ vif'.pw_state = "bmps"
                         \/ \E u \in Threads : At(u, "pw_enter")' /\ thr'[u].ret
  BY DEF PmcInv, Orderly
<1>1. /\ ~(InPmc("mac") /\ InPmc("dfs"))
      /\ \A u \in Threads : At(u, "pw_full") => fw.asleep = {}
      /\ fw.asleep # {} => \/ vif.pw_state = "bmps"
                           \/ \E u \in Threads : At(u, "pw_enter") /\ thr[u].ret
  BY DEF PmcInv, Orderly
<1>2. \A u \in Threads : u # t => thr'[u] = thr[u] /\ (InPmc(u)' <=> InPmc(u))
  BY Pmc1, Pmc2 DEF Begins
<1>3. ~At(t, "pw_full")'
  <2>1. thr'[t].todo \in Seq(Steps)
    BY Types1 DEF ThrType
  <2>2. ~HasPmc(thr'[t].todo) /\ thr'[t].todo # <<>> => Head(thr'[t].todo) # "pw_full"
    BY <2>1, PmcTail DEF PmcSteps
  <2> QED
    BY <2>2 DEF At
<1>4. ~At(t, "pw_enter") /\ {"mac", "dfs"} \subseteq Threads
  BY DEF Begins, At, Threads
<1>5. ~(InPmc("mac") /\ InPmc("dfs"))'
  <2>1. InPmc(t)' => \A u \in Threads \ {t} : ~InPmc(u)
    BY Pmc2
  <2> QED
    BY <1>1, <1>2, <1>4, <2>1 DEF Threads
<1>6. \A u \in Threads : At(u, "pw_full")' => At(u, "pw_full")
  BY <1>2, <1>3 DEF At
<1>7. \A u \in Threads : At(u, "pw_enter") /\ thr[u].ret => At(u, "pw_enter")' /\ thr'[u].ret
  BY <1>2, <1>4 DEF At
<1> QED
  BY <1>1, <1>5, <1>6, <1>7

LEMMA PmcMacCall ==
  ASSUME TypeOK, TypeOK', Places, Places', SleepersExist, BssInv, PmcInv, MacCall
  PROVE  PmcInv'
<1>1. "mac" \in Threads
  BY DEF Threads
<1>2. ~InPmc("work") /\ ~InPmc("work")'
  BY <1>1, PmcFree, Pmc1, Pmc2 DEF Places, Threads
<1>3. Begins("mac") /\ fw' = fw /\ history \subseteq history'
  BY MacCallBegins
<1>4. vif'.pw_state = vif.pw_state \/ fw.asleep = {}
  BY CallFacts DEF SleepersExist, BssInv
<1>5. CASE ChangePs
  <2>1. Pmc("mac", ~mac.ps, <<>>)
    BY <1>5 DEF ChangePs
  <2>2. thr'["mac"].todo \in {<<"enter_bmps", "pw_enter">>, <<"exit_bmps", "pw_full">>, <<>>}
    BY <1>1, <2>1, PmcLists, Started
  <2>3. Head(<<"enter_bmps", "pw_enter">>) = "enter_bmps"
        /\ Head(<<"exit_bmps", "pw_full">>) = "exit_bmps"
    BY HeadTail
  <2>4. ~At("mac", "pw_full")'
    BY <2>2, <2>3 DEF At
  <2>5. Orderly' => ~(\E u \in Threads \ {"mac"} : InPmc(u))
    BY <2>1 DEF Pmc, Orderly
  <2> QED
    BY <1>1, <1>2, <1>3, <1>4, <2>4, <2>5, PmcBegins
<1>6. CASE sta_add
  <2>1. thr'["mac"].todo = <<>>
    BY <1>3, <1>6 DEF sta_add, Begins
  <2> QED
    BY <1>1, <1>2, <1>3, <1>4, <2>1, PmcFree, PmcBegins
<1>7. CASE LeaveBss
  <2>1. thr'["mac"].todo \in {<<"delete_bss", "plain">>,
                              <<"delete_bss", "plain", "unassoc", "set_link_st">>}
    BY <1>1, <1>7, LeaveList, Started
  <2> QED
    BY <1>1, <1>2, <1>3, <1>4, <2>1, PmcFree, PmcBegins
<1>8. CASE \/ add_interface \/ remove_interface \/ JoinBss \/ Associate
           \/ SetPairwiseKey \/ SetGroupKey \/ DisablePairwiseKey
           \/ DisableGroupKey \/ sta_remove
  <2>1. thr'["mac"].todo \in
          {<<"add_sta_self">>, <<"delete_sta_self">>, <<"join", "config_bss">>,
           <<"set_link_st", "update_bss", "aid", "config_sta">>,
           <<"update_bss", "set_stakey">>, <<"set_bsskey">>, <<"remove_stakey">>, <<>>,
           <<"remove_bsskey">>, <<"delete_sta", "gone">>}
    BY <1>1, <1>8, Started DEF add_interface, remove_interface, JoinBss, Associate,
       SetPairwiseKey, SetGroupKey, DisablePairwiseKey, DisableGroupKey, sta_remove
  <2>2. ~HasPmc(thr'["mac"].todo)
    <3>1. /\ <<"set_link_st", "update_bss", "aid", "config_sta">> \in AssocLists
          /\ <<"update_bss", "set_stakey">> \in KeyLists
      BY CallLists
    <3> QED
      BY <2>1, <3>1, PmcFree
  <2> QED
    BY <1>1, <1>2, <1>3, <1>4, <2>2, PmcBegins
<1> QED
  BY <1>5, <1>6, <1>7, <1>8 DEF MacCall

LEMMA PmcRequests ==
  ASSUME TypeOK, TypeOK', Places, Places', PmcInv, Requests
  PROVE  PmcInv'
<1>1. ~InPmc("work") /\ ~InPmc("work")' /\ {"mac", "dfs", "work"} \subseteq Threads
  BY PmcFree, Pmc1, Pmc2 DEF Places, Threads
<1>2. UNCHANGED <<vif, fw>>
  BY RequestForms
<1>3. CASE Begins("mac") /\ thr'["mac"].todo = <<"set_power_params">> /\ history' = history
  BY <1>1, <1>2, <1>3, PmcFree, PmcBegins
<1>4. CASE /\ Begins("dfs") /\ thr'["dfs"].todo \in {<<>>, <<"dump_cmd">>} \cup PmcEntry
           /\ thr'["dfs"].todo \in PmcEntry =>
                \E on \in BOOLEAN : Pmc("dfs", on, <<"keep_alive">>)
           /\ history \subseteq history'
  <2>1. CASE thr'["dfs"].todo \in {<<>>, <<"dump_cmd">>}
    BY <1>1, <1>2, <1>4, <2>1, PmcFree, PmcBegins
  <2>2. CASE thr'["dfs"].todo \in PmcEntry
    <3>1. PICK on \in BOOLEAN : Pmc("dfs", on, <<"keep_alive">>)
      BY <1>4, <2>2
    <3>2. Head(<<"exit_bmps", "pw_full">>) = "exit_bmps"
      BY HeadTail
    <3>3. Head(<<"keep_alive", "enter_bmps", "pw_enter">>) = "keep_alive"
      BY HeadTail
    <3>4. ~At("dfs", "pw_full")'
      BY <2>2, <3>2, <3>3 DEF At, PmcEntry
    <3>5. Orderly' => ~(\E u \in Threads \ {"dfs"} : InPmc(u))
      BY <3>1 DEF Pmc, Orderly
    <3> QED
      BY <1>1, <1>2, <1>4, <3>4, <3>5, PmcBegins
  <2> QED
    BY <1>4, <2>1, <2>2
<1>5. CASE Begins("work") /\ history' = history
  <2>1. ~HasPmc(thr'["work"].todo)
    BY <1>1, Pmc2
  <2> QED
    BY <1>1, <1>2, <1>5, <2>1, PmcBegins
<1> QED
  BY <1>3, <1>4, <1>5, RequestForms

-----------------------------------------------------------------------------
(* The invariant.                                                          *)

LEMMA InitInv == Init => Inv
<1> SUFFICES ASSUME Init PROVE Inv
  OBVIOUS
<1>1. /\ \A t \in Threads : thr[t].todo = <<>>
      /\ mac.phase = "none" /\ ~mac.pairwise /\ ~mac.scan
      /\ "mac" \in Threads /\ "dfs" \in Threads /\ "work" \in Threads
  BY DEF Init, Threads
<1>2. /\ \A b \in BssIdx : fw.bss[b] = 0
      /\ \A i \in StaIdx : fw.sta[i] = "free"
      /\ fw.stakey = {} /\ fw.asleep = {} /\ fw.scan = "no"
  BY DEF Init
<1>3. Places
  <2>1. MacList = <<>> /\ <<>> \in PhaseLists("none") /\ <<>> \notin KeyLists
    BY <1>1, CallLists DEF MacList, Phases, KeyLists
  <2>2. <<>> \in DfsLists /\ <<>> \in WorkLists
    BY DEF DfsLists, WorkLists
  <2> QED
    BY <1>1, <2>1, <2>2 DEF Places
<1>4. SleepersExist /\ BssInv /\ EntryInv /\ KeyInv
  BY <1>2 DEF SleepersExist, BssInv, EntryInv, KeyInv
<1>5. ScanInv
  BY <1>1, <1>2 DEF ScanInv
<1>6. PmcInv
  <2>1. ~InPmc("mac") /\ \A t \in Threads : ~At(t, "pw_full")
    BY <1>1 DEF InPmc, At
  <2> QED
    BY <1>2, <2>1 DEF PmcInv
<1> QED
  BY <1>3, <1>4, <1>5, <1>6, InitTyped DEF Inv

\* What the firmware holds stays while the callbacks and requests only begin.
LEMMA BeginsKeep ==
  ASSUME TypeOK, MacCall \/ Requests
  PROVE  fw' = fw /\ history \subseteq history'
<1>1. CASE MacCall
  BY <1>1, MacCallBegins
<1>2. CASE Requests
  <2>1. fw' = fw
    BY <1>2, RequestForms
  <2>2. history \subseteq history'
    BY <1>2, RequestForms
  <2> QED
    BY <2>1, <2>2
<1> QED
  BY <1>1, <1>2

LEMMA InvNext == Inv /\ [Next]_vars => Inv'
<1> SUFFICES ASSUME Inv, [Next]_vars PROVE Inv'
  OBVIOUS
<1>1. TypeOK /\ Places /\ SleepersExist /\ TypeOK' /\ Places'
  BY NextTyped, PlacesNext DEF Inv
<1>2. ASSUME NEW t \in Threads, Smd(t) PROVE Inv'
  <2>1. SleepersExist'
    BY <1>1, <1>2, SleepersSmd
  <2>2. SUFFICES ASSUME Clean' PROVE (BssInv /\ EntryInv /\ KeyInv /\ ScanInv /\ PmcInv)'
    BY <1>1, <2>1 DEF Inv
  <2>3. BssInv /\ EntryInv /\ KeyInv /\ ScanInv /\ PmcInv
    BY <1>1, <1>2, <2>2, SmdClean DEF Inv
  <2>4. BssInv' /\ EntryInv' /\ KeyInv' /\ ScanInv'
    BY <1>1, <1>2, <2>2, <2>3, BssSmd, EntrySmd, KeySmd, ScanSmd
  <2>5. PmcInv'
    <3>1. SUFFICES ASSUME Orderly' PROVE PmcInv'
      BY DEF PmcInv, Orderly
    <3>2. /\ ~(InPmc("mac") /\ InPmc("dfs"))'
          /\ \A u \in Threads : At(u, "pw_full")' => fw'.asleep = {}
          /\ fw'.asleep # {} => \/ vif'.pw_state = "bmps"
                                \/ \E u \in Threads : At(u, "pw_enter")' /\ thr'[u].ret
      BY <1>1, <1>2, <2>2, <2>3, <3>1, PmcSmd
    <3> QED
      BY <3>2 DEF PmcInv
  <2> QED
    BY <2>4, <2>5
<1>3. CASE MacCall \/ Requests
  <2>1. fw' = fw /\ history \subseteq history'
    BY <1>1, <1>3, BeginsKeep
  <2>2. SleepersExist'
    BY <1>1, <2>1 DEF SleepersExist
  <2>3. SUFFICES ASSUME Clean' PROVE (BssInv /\ EntryInv /\ KeyInv /\ ScanInv /\ PmcInv)'
    BY <1>1, <2>2 DEF Inv
  <2>4. BssInv /\ EntryInv /\ KeyInv /\ ScanInv /\ PmcInv
    BY <2>1, <2>3 DEF Inv, Clean
  <2> QED
    BY <1>1, <1>3, <2>4, FirmwareMacCall, FirmwareRequests, PmcMacCall, PmcRequests
<1>4. CASE UNCHANGED vars
  <2>1. /\ SleepersExist' /\ (Clean' <=> Clean) /\ (BssInv => BssInv')
        /\ (EntryInv => EntryInv') /\ (KeyInv => KeyInv') /\ (ScanInv => ScanInv')
    BY <1>1, <1>4 DEF vars, SleepersExist, Clean, BssInv, EntryInv, KeyInv, ScanInv,
       MacList, At
  <2>2. PmcInv => PmcInv'
    BY <1>4 DEF vars, PmcInv, InPmc, At
  <2> QED
    BY <1>1, <2>1, <2>2 DEF Inv
<1> QED
  BY <1>2, <1>3, <1>4 DEF Next

LEMMA InvAlways == Spec => []Inv
<1> QED
  BY InitInv, InvNext, PTL DEF Spec

\* Whatever part of a connection came about (main.c's callbacks ignore what
\* their commands answer), its end leaves nothing of it in the firmware, unless
\* a response was lost or a removal refused; nor does a scan.
THEOREM ConnectionLeavesNothing == Spec => []NothingLeft
<1>1. Inv => NothingLeft
  <2> SUFFICES ASSUME Inv, mac.phase \in {"none", "idle"}, Idle("mac"), Clean
               PROVE  /\ \A b \in BssIdx : fw.bss[b] = 0
                      /\ \A i \in StaIdx : fw.sta[i] \in {"free", "self"}
                      /\ fw.stakey = {} /\ fw.asleep = {}
                      /\ ~mac.scan /\ Idle("work") => fw.scan = "no"
    BY DEF NothingLeft, Clean
  <2>1. TypeOK /\ SleepersExist /\ BssInv /\ EntryInv /\ KeyInv /\ ScanInv
    BY DEF Inv
  <2>2. ~At("mac", "delete_bss")
    BY DEF Idle, At
  <2>3. \A b \in BssIdx : fw.bss[b] = 0
    BY <2>1, <2>2 DEF BssInv
  <2>4. ASSUME NEW i \in StaIdx PROVE fw.sta[i] \in {"free", "self"}
    <3>1. fw.sta[i] # "bss" /\ fw.sta[i] # "peer"
      BY <2>1, <2>3 DEF EntryInv
    <3> QED
      BY <2>1, <3>1, FwFields
  <2>5. fw.stakey = {}
    BY <2>1 DEF KeyInv
  <2>6. fw.asleep = {}
    BY <2>1, <2>3 DEF SleepersExist
  <2>7. ~mac.scan /\ Idle("work") => fw.scan = "no"
    BY <2>1 DEF ScanInv, Idle
  <2> QED
    BY <2>3, <2>4, <2>5, <2>6, <2>7
<1> QED
  BY <1>1, InvAlways, PTL

\* pw_state, by which the transmit path chooses how to wake the chip
\* (dxe.c:668), is right between the power-save calls of pmc.c, if they did not
\* overlap and no exit or removal failed.
THEOREM PowerStateRight == Spec => []SleepIsKnown
<1>1. Inv => SleepIsKnown
  <2> SUFFICES ASSUME Inv, fw.asleep # {}, \A t \in Threads : ~InPmc(t),
                      history \cap {"lost", "kept", "mixed", "noexit"} = {}
               PROVE  vif.pw_state = "bmps"
    BY DEF SleepIsKnown
  <2>1. TypeOK /\ PmcInv /\ history \cap {"mixed", "noexit"} = {}
    BY DEF Inv, Clean
  <2>2. ASSUME NEW t \in Threads PROVE ~At(t, "pw_enter")
    <3>1. thr[t].todo \in Seq(Steps) /\ "pw_enter" \in PmcSteps
      BY <2>1, Types DEF ThrType, PmcSteps
    <3> QED
      BY <3>1, PmcTail, Pmc1 DEF At
  <2> QED
    BY <2>1, <2>2 DEF PmcInv
<1> QED
  BY <1>1, InvAlways, PTL

-----------------------------------------------------------------------------
(* What an association has.                                                *)

\* The firmware can hold a BSS, and the entries of the interface, of its BSS
\* and of the peer, which is the least a station needs.
Room == BssNum >= 1 /\ StaNum >= 3

Fine == history \cap {"lost", "refused"} = {}

\* When the BSS exists, the peer does, and bss_sta_index is known; when there is
\* a key of the station, and when the group key is settled; when the interface
\* has no entry.
Up ==
  \/ mac.phase \in {"peer", "assoc", "bye"}
  \/ mac.phase = "bss" /\ MacList \in Resting
  \/ mac.phase = "idle" /\ At("mac", "delete_bss")
PeerIn ==
  \/ mac.phase = "assoc" /\ MacList \notin AssocLists
  \/ mac.phase = "bye" /\ mac.assoc /\ At("mac", "delete_sta")
Named ==
  /\ mac.phase = "assoc" /\ ~At("mac", "set_link_st")
  /\ ~(At("mac", "update_bss") /\ MacList \in AssocLists)
Keyed ==
  /\ mac.phase = "assoc" /\ MacList \notin KeyLists
  /\ mac.pairwise \/ At("mac", "remove_stakey")
Grouped ==
  mac.phase = "assoc" /\ ~At("mac", "set_bsskey") /\ ~At("mac", "remove_bsskey")
SelfOut ==
  \/ mac.phase = "none" /\ MacList = <<>>
  \/ At("mac", "add_sta_self")
FilterSet == ~At("work", "set_mc_all") /\ ~At("work", "set_mc_list")

\* What the driver keeps, whatever the firmware answers.
Linked ==
  /\ mac.assoc => mac.phase \in {"assoc", "bye"}
  /\ mac.phase = "assoc" => mac.assoc
  /\ sta.is_data_encrypted = mac.pairwise
  /\ mac.phase \in {"bss", "peer"} => ~mac.group
  /\ mac.phase = "assoc" /\ At("mac", "set_bsskey") => mac.group
  /\ mac.phase = "assoc" /\ At("mac", "remove_bsskey") => ~mac.group
  /\ mac.phase = "assoc" /\ At("mac", "remove_stakey") => ~mac.pairwise
  /\ Up => mac.conns # 0

\* The BSS is the first one.
BssIs ==
  /\ fw.bss[0] = IF Up THEN mac.conns ELSE 0
  /\ Up => vif.bss_index = 0

\* Until a peer that never associated is removed, by the index it was
\* allocated with, the BSS has its entry.
EntryIs ==
  /\ Up /\ mac.phase \in {"bss", "peer", "assoc"} => fw.sta[fw.of[0]] = "bss"
  /\ \A i \in StaIdx : fw.sta[i] = "bss" => Up /\ i = fw.of[0]

PeerIs ==
  /\ \A i \in StaIdx : fw.sta[i] = "peer" <=> PeerIn /\ i = sta.sta_index
  /\ Named => sta.bss_sta_index = fw.of[0]

SelfIs ==
  /\ \A i, j \in StaIdx : fw.sta[i] = "self" /\ fw.sta[j] = "self" => i = j
  /\ SelfOut => \A i \in StaIdx : fw.sta[i] # "self"

KeyIs == fw.stakey = IF Keyed THEN {sta.bss_sta_index} ELSE {}

GroupIs ==
  /\ ~Up \/ mac.phase \in {"bss", "peer"} => 0 \notin fw.bsskey
  /\ Grouped => (mac.group <=> 0 \in fw.bsskey)

\* The multicast list.
FilterIs ==
  "outlived" \notin history =>
    /\ ~vif.sta_assoc \/ fw.bss[0] = 0 => fw.mc[0] = 0
    /\ FilterSet => fw.mc[0] \in {0, mac.filter}

Held == BssIs /\ EntryIs /\ PeerIs /\ SelfIs /\ KeyIs /\ GroupIs /\ FilterIs

\* Whose steps these are.
LEMMA MacOwn ==
  ASSUME TypeOK, Places, NEW t \in Threads, Advances(t)
  PROVE  /\ Next1(t) \in {"set_bsskey", "remove_bsskey", "set_link_st", "unassoc", "aid",
                          "plain", "join"} => t = "mac"
         /\ Next1(t) \in {"set_mc_all", "set_mc_list"} => t = "work"
<1>1. t = "dfs" => Next1(t) \in {"keep_alive", "enter_bmps", "exit_bmps", "pw_enter",
                                 "pw_full", "dump_cmd"}
  BY DfsAt DEF Places, Advances, Next1
<1>2. t = "work" => Next1(t) \in {"init_scan", "start_scan", "end_scan", "finish_scan",
                                  "switch_channel", "update_cfg", "set_mc_all", "set_mc_list"}
  BY WorkAt DEF Places, Advances, Next1
<1>3. t = "mac" => Next1(t) \notin {"set_mc_all", "set_mc_list"}
  BY MacSteps, IdleAt, AssocAt, OtherPhaseAt, Types DEF MacType, Phases
<1> QED
  BY <1>1, <1>2, <1>3 DEF Threads

\* Which step begins and which ends what.
LEMMA MacMoves ==
  ASSUME TypeOK, Places, Linked, NEW t \in Threads, Advances(t)
  PROVE  /\ Next1(t) = "config_bss" => ~Up /\ Up'
         /\ Next1(t) = "delete_bss" => Up /\ ~Up'
         /\ Next1(t) \notin {"config_bss", "delete_bss"} => (Up' <=> Up)
         /\ Next1(t) = "config_sta" => ~PeerIn /\ PeerIn'
         /\ Next1(t) = "delete_sta" => (PeerIn <=> mac.assoc) /\ ~PeerIn'
         /\ Next1(t) \notin {"config_sta", "delete_sta"} => (PeerIn' <=> PeerIn)
         /\ Next1(t) # "update_bss" /\ Named' => Named
         /\ Next1(t) = "set_stakey" => ~Keyed /\ Keyed'
         /\ Next1(t) = "remove_stakey" => Keyed /\ ~Keyed'
         /\ Next1(t) \notin {"set_stakey", "remove_stakey"} => (Keyed' <=> Keyed)
         /\ Next1(t) \notin {"set_bsskey", "remove_bsskey"} /\ Grouped' => Grouped
         /\ Next1(t) # "delete_sta_self" /\ SelfOut' => SelfOut
         /\ Next1(t) = "add_sta_self" => SelfOut
<1>1. CASE t # "mac"
  <2>1. MacList' = MacList /\ mac' = mac /\ thr'["mac"] = thr["mac"]
    BY <1>1, MacSteps DEF Advances, Threads
  <2>2. \A c : At("mac", c)' <=> At("mac", c)
    BY <2>1 DEF At
  <2>3. Next1(t) \notin {"config_bss", "delete_bss", "add_sta_self", "delete_sta_self",
                         "config_sta", "delete_sta", "set_stakey",
                         "remove_stakey", "update_bss"}
    BY <1>1, MacSteps
  <2> QED
    BY <2>1, <2>2, <2>3 DEF Up, PeerIn, Named, Keyed, Grouped, SelfOut
<1>2. CASE t = "mac"
  <2>1. /\ MacList # <<>> /\ MacList \in PhaseLists(mac.phase)
        /\ MacList' = Tail(MacList) /\ Next1(t) = Head(MacList) /\ mac' = mac
        /\ mac.phase \in Phases
    BY <1>2, MacSteps, Types DEF Advances, MacType
  <2>2. /\ \A c : At("mac", c) <=> Next1(t) = c
        /\ \A c : At("mac", c)' <=> MacList' # <<>> /\ Head(MacList') = c
    BY <1>2, <2>1 DEF At, Next1, MacList
  <2>3. /\ <<>> \in Resting /\ <<"config_bss">> \notin Resting
        /\ \A L \in Resting : L = <<>> \/ L = <<"set_power_params">>
    BY HeadTail DEF Resting
  <2>4. CASE mac.phase \in {"none", "bss", "peer", "bye"}
    <3>1. /\ Next1(t) \in {"set_power_params", "delete_sta_self", "join", "config_bss",
                           "delete_sta", "gone"}
          /\ Next1(t) = "set_power_params" => MacList' = <<>> /\ mac.phase # "none"
          /\ Next1(t) = "delete_sta_self" => MacList' = <<>> /\ mac.phase = "none"
          /\ Next1(t) = "join" => MacList' = <<"config_bss">> /\ mac.phase = "bss"
          /\ Next1(t) = "config_bss" => MacList' = <<>> /\ mac.phase = "bss" /\ MacList \notin Resting
          /\ Next1(t) = "delete_sta" => MacList' = <<"gone">> /\ mac.phase = "bye"
          /\ Next1(t) = "gone" => MacList' = <<>> /\ mac.phase = "bye"
      BY <2>1, <2>4, OtherPhaseAt
    <3>2. /\ <<"gone">> # <<>> /\ Head(<<"gone">>) = "gone"
          /\ <<"config_bss">> # <<>> /\ Head(<<"config_bss">>) = "config_bss"
      BY HeadTail
    <3>3. Next1(t) = "join" => MacList \notin Resting
      BY <2>1, <2>3, HeadTail
    <3>4. Next1(t) = "set_power_params" /\ mac.phase = "bss" => MacList \in Resting
      BY <2>1, HeadTail DEF PhaseLists, Resting
    <3>5. CASE Next1(t) \in {"set_power_params", "gone"}
      BY <2>1, <2>2, <2>3, <2>4, <3>1, <3>4, <3>5
         DEF Up, PeerIn, Named, Keyed, Grouped, SelfOut
    <3>6. CASE Next1(t) \in {"join", "config_bss"}
      BY <2>1, <2>2, <2>3, <2>4, <3>1, <3>2, <3>3, <3>6
         DEF Up, PeerIn, Named, Keyed, Grouped, SelfOut
    <3>7. CASE Next1(t) \in {"delete_sta", "delete_sta_self"}
      BY <2>1, <2>2, <2>3, <2>4, <3>1, <3>2, <3>7
         DEF Up, PeerIn, Named, Keyed, Grouped, SelfOut
    <3> QED
      BY <3>1, <3>5, <3>6, <3>7
  <2>5. CASE mac.phase = "idle"
    <3>1. /\ Next1(t) \in {"set_power_params", "add_sta_self", "remove_bsskey",
                           "set_link_st", "delete_bss", "plain", "unassoc"}
          /\ MacList' \in {<<>>, <<"plain">>, <<"plain", "unassoc", "set_link_st">>,
                           <<"unassoc", "set_link_st">>, <<"set_link_st">>}
      BY <2>1, <2>5, IdleAt
    <3>2. MacList' # <<>> => Head(MacList') \in {"plain", "unassoc", "set_link_st"}
      BY <3>1, HeadTail
    <3> QED
      BY <2>1, <2>2, <2>5, <3>1, <3>2 DEF Up, PeerIn, Named, Keyed, Grouped, SelfOut
  <2>6. CASE mac.phase = "assoc"
    <3>1. /\ <<>> \notin AssocLists \cup KeyLists
          /\ <<"pw_enter">> \notin AssocLists \cup KeyLists
          /\ <<"pw_full">> \notin AssocLists \cup KeyLists
      BY Apart, AssocTail DEF AssocRest, BmpsLists, Resting
    <3>2. /\ {<<"update_bss", "aid", "config_sta">>, <<"aid", "config_sta">>,
              <<"config_sta">>} \subseteq AssocLists
          /\ <<"set_stakey">> \in KeyLists
      BY DEF AssocLists, KeyLists
    <3>3. /\ Head(<<"update_bss", "aid", "config_sta">>) = "update_bss"
          /\ Head(<<"aid", "config_sta">>) = "aid"
          /\ Head(<<"config_sta">>) = "config_sta" /\ Head(<<"set_stakey">>) = "set_stakey"
          /\ Head(<<"pw_enter">>) = "pw_enter" /\ Head(<<"pw_full">>) = "pw_full"
          /\ <<"update_bss", "aid", "config_sta">> # <<>> /\ <<"aid", "config_sta">> # <<>>
      BY HeadTail
    <3>4. /\ MacList \in AssocLists => ~mac.pairwise
          /\ MacList \in KeyLists => mac.pairwise
      BY DEF Places
    <3>8. BmpsLists \subseteq AssocRest
      BY DEF AssocRest
    <3>5. CASE MacList \in AssocLists
      <4>1. MacList \notin KeyLists
        BY <3>5, Apart
      <4>2. \/ Next1(t) = "set_link_st" /\ MacList' = <<"update_bss", "aid", "config_sta">>
            \/ Next1(t) = "update_bss" /\ MacList' = <<"aid", "config_sta">>
            \/ Next1(t) = "aid" /\ MacList' = <<"config_sta">>
            \/ Next1(t) = "config_sta" /\ MacList' = <<>>
        BY <2>1, <2>6, <3>5, <3>8, AssocAt, Apart
      <4>3. MacList' \notin KeyLists /\ (Next1(t) # "config_sta" => MacList' \in AssocLists)
        BY <3>1, <3>2, <4>2, Apart
      <4>4. /\ Next1(t) = "set_link_st" => MacList' # <<>> /\ Head(MacList') = "update_bss"
            /\ Next1(t) = "update_bss" => MacList' # <<>> /\ Head(MacList') = "aid"
            /\ Next1(t) = "aid" => MacList' # <<>> /\ Head(MacList') = "config_sta"
        BY <3>3, <4>2
      <4>5. Next1(t) = "config_sta" => MacList' = <<>> /\ MacList' \notin AssocLists
        BY <3>1, <4>2
      <4>6. /\ Up <=> Up'
            /\ Next1(t) = "config_sta" => ~PeerIn /\ PeerIn'
            /\ Next1(t) # "config_sta" => ~PeerIn /\ ~PeerIn'
        BY <2>1, <2>6, <3>5, <4>3, <4>5 DEF Up, PeerIn
      <4>7. ~Keyed /\ ~Keyed' /\ Grouped /\ ~SelfOut /\ ~SelfOut'
        BY <2>1, <2>2, <2>6, <3>4, <3>5, <4>2, <4>4, <4>5 DEF Keyed, Grouped, SelfOut
      <4>8. Next1(t) # "update_bss" /\ Named' => Named
        BY <2>1, <2>2, <2>6, <3>5, <4>2, <4>3, <4>4 DEF Named
      <4> QED
        BY <4>2, <4>6, <4>7, <4>8
    <3>6. CASE MacList \in KeyLists
      <4>1. MacList \notin AssocLists
        BY <3>6, Apart
      <4>2. \/ Next1(t) = "update_bss" /\ MacList' = <<"set_stakey">>
            \/ Next1(t) = "set_stakey" /\ MacList' = <<>>
        BY <2>1, <2>6, <3>6, <3>8, AssocAt, Apart
      <4>3. MacList' \notin AssocLists /\ (Next1(t) # "set_stakey" => MacList' \in KeyLists)
        BY <3>1, <3>2, <4>2, Apart
      <4>4. Next1(t) = "update_bss" => MacList' # <<>> /\ Head(MacList') = "set_stakey"
        BY <3>3, <4>2
      <4>5. Next1(t) = "set_stakey" => MacList' = <<>> /\ MacList' \notin KeyLists
        BY <3>1, <4>2
      <4>6. (Up <=> Up') /\ PeerIn /\ PeerIn' /\ Grouped /\ ~SelfOut /\ ~SelfOut'
        BY <2>1, <2>2, <2>6, <4>1, <4>2, <4>3, <4>4, <4>5 DEF Up, PeerIn, Grouped, SelfOut
      <4>7. ~Keyed /\ (Next1(t) = "set_stakey" => Keyed') /\ (Next1(t) # "set_stakey" => ~Keyed')
        BY <2>1, <2>6, <3>4, <3>6, <4>3, <4>5 DEF Keyed
      <4>8. Named
        BY <2>2, <2>6, <4>1, <4>2 DEF Named
      <4> QED
        BY <4>2, <4>6, <4>7, <4>8
    <3>7. CASE MacList \notin AssocLists \cup KeyLists
      <4>1. /\ MacList' \in {<<>>, <<"pw_enter">>, <<"pw_full">>}
            /\ Next1(t) \in {"enter_bmps", "exit_bmps", "pw_enter", "pw_full",
                             "set_power_params", "set_bsskey", "remove_stakey", "remove_bsskey"}
        BY <2>1, <2>6, <3>7, AssocAt
      <4>2. MacList' \notin AssocLists \cup KeyLists
            /\ (MacList' # <<>> => Head(MacList') \in {"pw_enter", "pw_full"})
        BY <3>1, <3>3, <4>1
      <4>3. Next1(t) = "remove_stakey" => ~mac.pairwise
        BY <2>2, <2>6 DEF Linked
      <4> QED
        BY <2>1, <2>2, <2>6, <3>7, <4>1, <4>2, <4>3
           DEF Up, PeerIn, Named, Keyed, Grouped, SelfOut
    <3> QED
      BY <3>5, <3>6, <3>7
  <2> QED
    BY <2>1, <2>4, <2>5, <2>6 DEF Phases
<1> QED
  BY <1>1, <1>2

\* What else a step can change.
LEMMA HistoryGrows ==
  ASSUME NEW t \in Threads, Smd(t)
  PROVE  history \subseteq history'
BY DEF Smd, AddStaSelf, DeleteStaSelf, ConfigBss, UpdateBss, ConfigSta, DeleteSta, DeleteBss,
   SetStaKey, RemoveStaKey, SetBssKey, RemoveBssKey, EnterBmps, ExitBmps, InitScan,
   StartScan, EndScan, FinishScan, ScanStep, OtherCommand, KeepAlive, SwitchChannel,
   UpdateCfg, SetPowerParams, DumpCmd, SetMcList, Assign, Command, Finish

TouchesToo(t) ==
  /\ Next1(t) \notin {"set_bsskey", "remove_bsskey", "delete_bss"} => fw'.bsskey = fw.bsskey
  /\ Next1(t) \notin {"set_mc_all", "set_mc_list", "delete_bss"} => fw'.mc = fw.mc
  /\ Next1(t) # "unassoc" => vif'.sta_assoc = vif.sta_assoc
  /\ Next1(t) # "gone" => sta'.is_data_encrypted = sta.is_data_encrypted
  /\ Next1(t) = "gone" => sta'.is_data_encrypted = FALSE
  /\ Next1(t) = "unassoc" => vif'.sta_assoc = FALSE

LEMMA QuietTouchesToo ==
  ASSUME TypeOK, NEW t \in Threads, NEW c, NEW known, NEW effect,
         Exchange(t, c, known, effect), Silent, c \notin {"gone", "unassoc"},
         c \notin {"set_bsskey", "remove_bsskey", "delete_bss"} => effect.bsskey = fw.bsskey,
         c \notin {"set_mc_all", "set_mc_list", "delete_bss"} => effect.mc = fw.mc
  PROVE  TouchesToo(t)
<1>1. Next1(t) = c /\ fw' \in {fw, effect} /\ vif' = vif /\ sta' = sta
  BY ExchangeAdvances DEF Silent
<1> QED
  BY <1>1 DEF TouchesToo

LEMMA SmdTouchesToo ==
  ASSUME TypeOK, NEW t \in Threads, Smd(t)
  PROVE  TouchesToo(t)
<1>1. CASE KeepAlive(t) \/ SwitchChannel(t) \/ UpdateCfg(t) \/ SetPowerParams(t)
           \/ DumpCmd(t) \/ OtherCommand(t)
  <2>1. PICK c, known : /\ Exchange(t, c, known, fw) /\ Silent
                        /\ c \in {"keep_alive", "switch_channel", "update_cfg", "join",
                                  "set_power_params", "dump_cmd", "set_link_st"}
    BY <1>1, QuietForms
  <2> QED
    BY <2>1, QuietTouchesToo
<1>2. CASE SetMcList(t)
  <2>1. \A n : McSet(vif.bss_index, n).bsskey = fw.bsskey
    BY Types DEF McSet, FwType
  <2>5. PICK c, known, n : /\ Exchange(t, c, known, McSet(vif.bss_index, n)) /\ Silent
                  /\ c \in {"set_mc_all", "set_mc_list"}
    BY <1>2, QuietForms
  <2> QED
    BY <2>1, <2>5, QuietTouchesToo
<1>3. CASE InitScan(t) \/ StartScan(t) \/ EndScan(t) \/ FinishScan(t)
  <2>1. \A to : LET e == [fw EXCEPT !.scan = to] IN e.bsskey = fw.bsskey /\ e.mc = fw.mc
    BY Types DEF FwType
  <2>5. PICK c, known, to : /\ Exchange(t, c, known, [fw EXCEPT !.scan = to]) /\ Silent
                  /\ c \in {"init_scan", "start_scan", "end_scan", "finish_scan"}
    BY <1>3, QuietForms
  <2> QED
    BY <2>1, <2>5, QuietTouchesToo
<1>4. CASE SetStaKey(t) \/ RemoveStaKey(t)
  <2>1. \A S : LET e == [fw EXCEPT !.stakey = S] IN e.bsskey = fw.bsskey /\ e.mc = fw.mc
    BY Types DEF FwType
  <2>5. PICK c, known, S : /\ Exchange(t, c, known, [fw EXCEPT !.stakey = S]) /\ Silent
                  /\ c \in {"set_stakey", "remove_stakey"}
    BY <1>4, QuietForms
  <2> QED
    BY <2>1, <2>5, QuietTouchesToo
<1>5. CASE SetBssKey(t) \/ RemoveBssKey(t)
  <2>1. \A S : LET e == [fw EXCEPT !.bsskey = S] IN e.mc = fw.mc
    BY Types DEF FwType
  <2>5. PICK c, known, S : /\ Exchange(t, c, known, [fw EXCEPT !.bsskey = S]) /\ Silent
                  /\ c \in {"set_bsskey", "remove_bsskey"}
    BY <1>5, QuietForms
  <2> QED
    BY <2>1, <2>5, QuietTouchesToo
<1>6. CASE EnterBmps(t) \/ ExitBmps(t)
  <2>1. \A S : LET e == [fw EXCEPT !.asleep = S] IN e.bsskey = fw.bsskey /\ e.mc = fw.mc
    BY Types DEF FwType
  <2>5. PICK c, known, S : /\ Exchange(t, c, known, [fw EXCEPT !.asleep = S]) /\ Silent
                  /\ c \in {"enter_bmps", "exit_bmps"}
    BY <1>6, QuietForms
  <2> QED
    BY <2>1, <2>5, QuietTouchesToo
<1>7. CASE DeleteSta(t)
  <2> DEFINE e == [fw EXCEPT !.sta[sta.sta_index] = "free", !.stakey = @ \ {sta.sta_index}]
  <2>1. e.bsskey = fw.bsskey /\ e.mc = fw.mc
    BY Types DEF FwType
  <2>2. PICK known : Exchange(t, "delete_sta", known, e) /\ Silent
    BY <1>7, QuietForms
  <2> HIDE DEF e
  <2> QED
    BY <2>1, <2>2, QuietTouchesToo
<1>8. CASE DeleteStaSelf(t)
  <2> DEFINE e == [fw EXCEPT !.sta = [i \in StaIdx |-> IF i \in Self THEN "free" ELSE @[i]]]
  <2>1. e.bsskey = fw.bsskey /\ e.mc = fw.mc
    BY Types DEF FwType
  <2>2. PICK known : Exchange(t, "delete_sta_self", known, e) /\ Silent
    BY <1>8, QuietForms
  <2> HIDE DEF e
  <2> QED
    BY <2>1, <2>2, QuietTouchesToo
<1>11. CASE DeleteBss(t)
  <2>1. Silent /\ Next1(t) = "delete_bss"
    BY <1>11, Heads, QuietForms
  <2> QED
    BY <2>1 DEF TouchesToo, Silent
<1>9. CASE ConfigBss(t) \/ AddStaSelf(t) \/ ConfigSta(t) \/ UpdateBss(t)
  <2>1. /\ fw'.bsskey = fw.bsskey /\ fw'.mc = fw.mc
        /\ vif'.sta_assoc = vif.sta_assoc /\ sta'.is_data_encrypted = sta.is_data_encrypted
    BY ZenonT(40), <1>9, Types DEF ConfigBss, AddStaSelf, ConfigSta, UpdateBss, Command, FwType, VifType, StaType
  <2>2. Next1(t) \in {"config_bss", "add_sta_self", "config_sta", "update_bss"}
    BY <1>9, Heads
  <2> QED
    BY <2>1, <2>2 DEF TouchesToo
<1>10. CASE Assign(t)
  BY <1>10, Types DEF Assign, At, Next1, TouchesToo, VifType, StaType, NoSta
<1> QED
  BY <1>1, <1>2, <1>3, <1>4, <1>5, <1>6, <1>7, <1>8, <1>9, <1>10, <1>11
   DEF Smd

\* A command that is not refused, and whose response is not lost, does what it
\* is for if the firmware has what it names.
LEMMA FineExchange ==
  ASSUME TypeOK, NEW t \in Threads, NEW c, NEW known, NEW effect,
         Exchange(t, c, known, effect), t = "mac" \/ c \in SetMc, Fine'
  PROVE  /\ known => fw' = effect
         /\ ~known => fw' = fw
<1>1. PICK o \in Outcomes(known) :
        /\ fw' = IF o \in {"ok", "lost"} THEN effect ELSE fw
        /\ Finish(t, o)
  BY DEF Exchange
<1>2. Head(thr[t].todo) = c
  BY DEF Exchange, At
<1>3. o \notin {"lost", "refused"}
  BY <1>1, <1>2 DEF Finish, Fine
<1> QED
  BY <1>1, <1>3 DEF Outcomes

LEMMA FineCommands ==
  ASSUME TypeOK, Places, NEW t \in Threads, Smd(t), Fine'
  PROVE  /\ Next1(t) = "add_sta_self" =>
              IF FreeSta # {} THEN fw' = [fw EXCEPT !.sta[Least(FreeSta)] = "self"] ELSE fw' = fw
         /\ Next1(t) = "delete_sta_self" =>
              fw' = IF Self = {} THEN fw
                    ELSE [fw EXCEPT !.sta = [i \in StaIdx |-> IF i \in Self THEN "free" ELSE @[i]]]
         /\ Next1(t) = "delete_sta" =>
              fw' = IF fw.sta[sta.sta_index] = "free" THEN fw
                    ELSE [fw EXCEPT !.sta[sta.sta_index] = "free", !.stakey = @ \ {sta.sta_index}]
         /\ Next1(t) = "delete_bss" =>
              fw' = IF HasBss(vif.bss_index) THEN BssDeleted(vif.bss_index) ELSE fw
         /\ Next1(t) = "set_stakey" =>
              fw' = IF fw.sta[sta.bss_sta_index] = "free" THEN fw
                    ELSE [fw EXCEPT !.stakey = @ \cup {sta.bss_sta_index}]
         /\ Next1(t) = "remove_stakey" =>
              fw' = IF sta.bss_sta_index \in fw.stakey
                    THEN [fw EXCEPT !.stakey = @ \ {sta.bss_sta_index}] ELSE fw
         /\ Next1(t) = "set_bsskey" =>
              fw' = IF HasBss(0) THEN [fw EXCEPT !.bsskey = @ \cup {0}] ELSE fw
         /\ Next1(t) = "remove_bsskey" =>
              fw' = IF 0 \in fw.bsskey THEN [fw EXCEPT !.bsskey = @ \ {0}] ELSE fw
<1>1. Advances(t)
  BY SmdStep
<1>2. Next1(t) \in {"add_sta_self", "delete_sta_self", "delete_sta", "delete_bss", "set_stakey",
                    "remove_stakey", "set_bsskey", "remove_bsskey"} => t = "mac"
  BY <1>1, MacSteps, MacOwn
<1>3. ASSUME Next1(t) = "add_sta_self"
      PROVE  IF FreeSta # {} THEN fw' = [fw EXCEPT !.sta[Least(FreeSta)] = "self"] ELSE fw' = fw
  <2> DEFINE i == IF FreeSta = {} THEN 0 ELSE Least(FreeSta)
  <2>1. Exchange(t, "add_sta_self", FreeSta # {}, [fw EXCEPT !.sta[i] = "self"])
    BY <1>3, WhichSmd DEF AddStaSelf, Command, Exchange
  <2> QED
    BY <1>2, <1>3, <2>1, FineExchange
<1>4. ASSUME Next1(t) = "delete_sta_self"
      PROVE  fw' = IF Self = {} THEN fw
                   ELSE [fw EXCEPT !.sta = [i \in StaIdx |-> IF i \in Self THEN "free" ELSE @[i]]]
  <2> DEFINE e == [fw EXCEPT !.sta = [i \in StaIdx |-> IF i \in Self THEN "free" ELSE @[i]]]
  <2>1. Exchange(t, "delete_sta_self", Self # {}, e)
    BY <1>4, WhichSmd, QuietForms
  <2> HIDE DEF e
  <2>2. fw' = IF Self = {} THEN fw ELSE e
    BY <1>2, <1>4, <2>1, FineExchange
  <2> QED
    BY <2>2 DEF e
<1>5. ASSUME Next1(t) = "delete_sta"
      PROVE  fw' = IF fw.sta[sta.sta_index] = "free" THEN fw
                   ELSE [fw EXCEPT !.sta[sta.sta_index] = "free", !.stakey = @ \ {sta.sta_index}]
  <2> DEFINE e == [fw EXCEPT !.sta[sta.sta_index] = "free", !.stakey = @ \ {sta.sta_index}]
  <2>1. Exchange(t, "delete_sta", fw.sta[sta.sta_index] # "free", e)
    BY <1>5, WhichSmd, QuietForms
  <2> HIDE DEF e
  <2>2. fw' = IF fw.sta[sta.sta_index] = "free" THEN fw ELSE e
    BY <1>2, <1>5, <2>1, FineExchange
  <2> QED
    BY <2>2 DEF e
<1>6. ASSUME Next1(t) = "delete_bss"
      PROVE  fw' = IF HasBss(vif.bss_index) THEN BssDeleted(vif.bss_index) ELSE fw
  <2>1. Exchange(t, "delete_bss", HasBss(vif.bss_index), BssDeleted(vif.bss_index))
    BY <1>6, WhichSmd, QuietForms
  <2> QED
    BY <1>2, <1>6, <2>1, FineExchange
<1>7. ASSUME Next1(t) = "set_stakey"
      PROVE  fw' = IF fw.sta[sta.bss_sta_index] = "free" THEN fw
                   ELSE [fw EXCEPT !.stakey = @ \cup {sta.bss_sta_index}]
  <2> DEFINE e == [fw EXCEPT !.stakey = @ \cup {sta.bss_sta_index}]
  <2>1. Exchange(t, "set_stakey", fw.sta[sta.bss_sta_index] # "free", e)
    BY <1>7, WhichSmd, QuietForms
  <2> HIDE DEF e
  <2>2. fw' = IF fw.sta[sta.bss_sta_index] = "free" THEN fw ELSE e
    BY <1>2, <1>7, <2>1, FineExchange
  <2> QED
    BY <2>2 DEF e
<1>8. ASSUME Next1(t) = "remove_stakey"
      PROVE  fw' = IF sta.bss_sta_index \in fw.stakey
                   THEN [fw EXCEPT !.stakey = @ \ {sta.bss_sta_index}] ELSE fw
  <2> DEFINE e == [fw EXCEPT !.stakey = @ \ {sta.bss_sta_index}]
             known == sta.bss_sta_index \in fw.stakey
  <2>1. Exchange(t, "remove_stakey", known, e)
    BY <1>8, WhichSmd, QuietForms
  <2> HIDE DEF e, known
  <2>2. (known => fw' = e) /\ (~known => fw' = fw)
    BY <1>2, <1>8, <2>1, FineExchange
  <2> QED
    BY <2>2 DEF e, known
<1>9. ASSUME Next1(t) = "set_bsskey"
      PROVE  fw' = IF HasBss(0) THEN [fw EXCEPT !.bsskey = @ \cup {0}] ELSE fw
  <2>1. Exchange(t, "set_bsskey", HasBss(0), [fw EXCEPT !.bsskey = @ \cup {0}])
    BY <1>9, QuietForms, Heads DEF Smd
  <2> QED
    BY <1>2, <1>9, <2>1, FineExchange
<1>10. ASSUME Next1(t) = "remove_bsskey"
       PROVE  fw' = IF 0 \in fw.bsskey THEN [fw EXCEPT !.bsskey = @ \ {0}] ELSE fw
  <2> DEFINE e == [fw EXCEPT !.bsskey = @ \ {0}]
             known == 0 \in fw.bsskey
  <2>1. Exchange(t, "remove_bsskey", known, e)
    BY <1>10, QuietForms, Heads DEF Smd
  <2> HIDE DEF e, known
  <2>2. (known => fw' = e) /\ (~known => fw' = fw)
    BY <1>2, <1>10, <2>1, FineExchange
  <2> QED
    BY <2>2 DEF e, known
<1> QED
  BY <1>3, <1>4, <1>5, <1>6, <1>7, <1>8, <1>9, <1>10

\* And those whose response gives an index.
LEMMA FineIndices ==
  ASSUME TypeOK, Places, NEW t \in Threads, Smd(t), Fine'
  PROVE  /\ Next1(t) = "config_bss" /\ FreeBss # {} /\ FreeSta # {} =>
              /\ fw' = BssAdded(Least(FreeBss), Least(FreeSta))
              /\ vif' = [vif EXCEPT !.bss_index = Least(FreeBss)]
         /\ Next1(t) = "update_bss" /\ HasBss(vif.bss_index) =>
              sta' = [sta EXCEPT !.bss_sta_index = fw.of[vif.bss_index]]
         /\ Next1(t) = "config_sta" /\ HasBss(vif.bss_index) /\ FreeSta # {} =>
              /\ fw' = [fw EXCEPT !.sta[Least(FreeSta)] = "peer"]
              /\ sta' = [sta EXCEPT !.sta_index = Least(FreeSta)]
<1>1. Next1(t) \in {"config_bss", "update_bss", "config_sta"} => t = "mac"
  BY SmdStep, MacSteps
<1>2. ASSUME NEW o, t = "mac", Finish(t, o)
      PROVE  o \notin {"lost", "refused"}
  BY <1>2 DEF Finish, Fine
<1>3. ASSUME Next1(t) = "config_bss", FreeBss # {}, FreeSta # {}
      PROVE  /\ fw' = BssAdded(Least(FreeBss), Least(FreeSta))
             /\ vif' = [vif EXCEPT !.bss_index = Least(FreeBss)]
  <2>1. PICK o \in Outcomes(TRUE) :
          /\ Finish(t, o)
          /\ o \in {"ok", "lost"} => fw' = BssAdded(Least(FreeBss), Least(FreeSta))
          /\ o = "ok" => vif' = [vif EXCEPT !.bss_index = Least(FreeBss)]
    BY <1>3, WhichSmd DEF ConfigBss, Command, BssAdded
  <2>2. o = "ok"
    BY <1>1, <1>2, <1>3, <2>1 DEF Outcomes
  <2> QED
    BY <2>1, <2>2
<1>4. ASSUME Next1(t) = "update_bss", HasBss(vif.bss_index)
      PROVE  sta' = [sta EXCEPT !.bss_sta_index = fw.of[vif.bss_index]]
  <2>1. PICK o \in Outcomes(TRUE) :
          /\ Finish(t, o)
          /\ o = "ok" => sta' = [sta EXCEPT !.bss_sta_index = fw.of[vif.bss_index]]
    BY <1>4, WhichSmd DEF UpdateBss, Command, Outcomes
  <2>2. o = "ok"
    BY <1>1, <1>2, <1>4, <2>1 DEF Outcomes
  <2> QED
    BY <2>1, <2>2
<1>5. ASSUME Next1(t) = "config_sta", HasBss(vif.bss_index), FreeSta # {}
      PROVE  /\ fw' = [fw EXCEPT !.sta[Least(FreeSta)] = "peer"]
             /\ sta' = [sta EXCEPT !.sta_index = Least(FreeSta)]
  <2>1. PICK o \in Outcomes(TRUE) :
          /\ Finish(t, o)
          /\ o \in {"ok", "lost"} => fw' = [fw EXCEPT !.sta[Least(FreeSta)] = "peer"]
          /\ o = "ok" => sta' = [sta EXCEPT !.sta_index = Least(FreeSta)]
    BY <1>5, WhichSmd DEF ConfigSta, Command, Outcomes
  <2>2. o = "ok"
    BY <1>1, <1>2, <1>5, <2>1 DEF Outcomes
  <2> QED
    BY <2>1, <2>2
<1> QED
  BY <1>3, <1>4, <1>5

LEMMA LinkedSmd ==
  ASSUME TypeOK, Places, Linked, NEW t \in Threads, Smd(t)
  PROVE  Linked'
<1>1. Advances(t) /\ Touches(t) /\ TouchesToo(t) /\ mac' = mac
  BY SmdStep, SmdTouchesToo DEF Advances
<1>2. sta'.is_data_encrypted = mac.pairwise
  <2>1. Next1(t) = "gone" => ~mac.pairwise
    BY <1>1, MacMoments DEF Places
  <2>2. mac.pairwise \in BOOLEAN /\ sta.is_data_encrypted \in BOOLEAN
    BY Types DEF MacType, StaType
  <2> QED
    BY <1>1, <2>1, <2>2 DEF TouchesToo, Linked
<1>3. Up' => mac.conns # 0
  <2>1. Next1(t) = "config_bss" => mac.phase = "bss"
    BY <1>1, MacMoments
  <2> QED
    BY <1>1, <2>1, MacMoves DEF Linked, Places
<1>4. ASSUME NEW c \in {"set_bsskey", "remove_bsskey", "remove_stakey"}, mac.phase = "assoc",
             At("mac", c)'
      PROVE  At("mac", c)
  <2>1. CASE t # "mac"
    BY <1>1, <1>4, <2>1 DEF Advances, At, Threads
  <2>2. CASE t = "mac"
    <3>1. MacList # <<>> /\ MacList \in PhaseLists("assoc") /\ MacList' = Tail(MacList)
      BY <1>1, <1>4, <2>2, MacSteps
    <3>2. MacList' \in {<<"update_bss", "aid", "config_sta">>, <<"aid", "config_sta">>,
                        <<"config_sta">>, <<>>, <<"set_stakey">>, <<"pw_enter">>, <<"pw_full">>}
      BY <3>1, AssocAt
    <3>3. MacList' # <<>> /\ Head(MacList') = c
      BY <1>4 DEF At, MacList
    <3> QED
      BY <1>4, <3>2, <3>3, HeadTail
  <2> QED
    BY <2>1, <2>2
<1> QED
  BY <1>1, <1>2, <1>3, <1>4 DEF Linked

\* There is an entry for whoever needs one.
LEMMA Places3 ==
  ASSUME Room
  PROVE  {0, 1, 2} \subseteq StaIdx /\ 0 \in BssIdx
BY StationAssumption DEF Room, StaIdx, BssIdx

LEMMA LeastZero ==
  ASSUME NEW S \in SUBSET Nat, 0 \in S
  PROVE  Least(S) = 0
<1>1. \A y \in S : 0 <= y
  OBVIOUS
<1>2. \A x \in S : x <= 0 => x = 0
  OBVIOUS
<1> QED
  BY <1>1, <1>2 DEF Least

LEMMA RoomLeft ==
  ASSUME TypeOK, Room, Held, ~PeerIn
  PROVE  FreeSta # {} /\ Least(FreeSta) \in FreeSta /\ Least(FreeSta) \in StaIdx
<1>1. {0, 1, 2} \subseteq StaIdx
  BY Places3
<1>2. \A i \in StaIdx : fw.sta[i] \in {"free", "self", "bss"}
  BY FwFields DEF Held, PeerIs
<1>3. \A i, j \in {0, 1, 2} : /\ fw.sta[i] = "self" /\ fw.sta[j] = "self" => i = j
                              /\ fw.sta[i] = "bss" /\ fw.sta[j] = "bss" => i = j
  BY <1>1 DEF Held, SelfIs, EntryIs
<1>4. \E i \in {0, 1, 2} : fw.sta[i] = "free"
  BY <1>1, <1>2, <1>3
<1> QED
  BY <1>1, <1>4, FreeTyped DEF FreeSta

LEMMA ConfigBssFine ==
  ASSUME TypeOK, Places, Linked, Room, Held, NEW t \in Threads, Smd(t), Fine',
         Next1(t) = "config_bss"
  PROVE  \E i \in FreeSta : i \in StaIdx /\ fw' = BssAdded(0, i)
                            /\ vif' = [vif EXCEPT !.bss_index = 0] /\ sta' = sta
<1>1. Advances(t) /\ ~Up /\ mac.phase = "bss" /\ ~PeerIn
  BY SmdStep, MacMoves, MacMoments DEF PeerIn
<1>2. 0 \in FreeBss /\ FreeBss \subseteq Nat
  BY <1>1, Places3, StationAssumption DEF Held, BssIs, FreeBss, BssIdx
<1>3. Least(FreeBss) = 0
  BY <1>2, LeastZero
<1>4. sta' = sta
  BY WhichSmd, ConfigBssStep
<1> QED
  BY <1>1, <1>2, <1>3, <1>4, RoomLeft, FineIndices

LEMMA ConfigStaFine ==
  ASSUME TypeOK, Places, Linked, Room, Held, NEW t \in Threads, Smd(t), Fine',
         Next1(t) = "config_sta"
  PROVE  \E i \in FreeSta : i \in StaIdx /\ fw' = [fw EXCEPT !.sta[i] = "peer"]
                            /\ sta' = [sta EXCEPT !.sta_index = i] /\ vif' = vif
<1>1. Advances(t) /\ ~PeerIn /\ mac.phase = "assoc" /\ Up
  BY SmdStep, MacMoves, MacMoments DEF Up
<1>2. HasBss(vif.bss_index)
  BY <1>1, Places3 DEF Held, BssIs, HasBss, Linked
<1>3. vif' = vif
  BY WhichSmd, ConfigStaStep
<1> QED
  BY <1>1, <1>2, <1>3, RoomLeft, FineIndices

LEMMA DeleteBssFine ==
  ASSUME TypeOK, Places, Linked, Room, Held, NEW t \in Threads, Smd(t), Fine',
         Next1(t) = "delete_bss"
  PROVE  fw' = BssDeleted(0) /\ Silent /\ fw.bss[0] # 0
<1>1. Advances(t) /\ Up
  BY SmdStep, MacMoves
<1>2. HasBss(vif.bss_index) /\ vif.bss_index = 0
  BY <1>1, Places3 DEF Held, BssIs, HasBss, Linked
<1>3. Silent
  BY WhichSmd, QuietForms
<1> QED
  BY <1>2, <1>3, FineCommands DEF HasBss

\* What the fields come to.
LEMMA AddedFields ==
  ASSUME TypeOK, Room, NEW i \in StaIdx
  PROVE  LET f == BssAdded(0, i) IN
         /\ f.bss[0] = mac.conns /\ f.of[0] = i
         /\ \A j \in StaIdx : f.sta[j] = IF j = i THEN "bss" ELSE fw.sta[j]
BY Places3, Types DEF BssAdded, FwType

LEMMA DeletedFields ==
  ASSUME TypeOK, Room
  PROVE  LET f == BssDeleted(0) IN
         /\ f.bss[0] = 0 /\ f.mc[0] = 0 /\ 0 \notin f.bsskey
         /\ \A j \in StaIdx : f.sta[j] = IF j = fw.of[0] THEN "free" ELSE fw.sta[j]
         /\ f.stakey = fw.stakey \ {fw.of[0]}
<1>1. 0 \in BssIdx /\ fw.of[0] \in StaIdx
  BY Places3, FwFields
<1> QED
  BY <1>1, Types DEF BssDeleted, FwType

LEMMA BssFine ==
  ASSUME TypeOK, Places, Linked, Room, Held, NEW t \in Threads, Smd(t), Fine'
  PROVE  BssIs'
<1>1. Advances(t) /\ Touches(t) /\ mac' = mac
  BY SmdStep DEF Advances
<1>2. CASE Next1(t) = "config_bss"
  <2>1. PICK i \in StaIdx : fw' = BssAdded(0, i) /\ vif' = [vif EXCEPT !.bss_index = 0]
    BY <1>2, ConfigBssFine
  <2>2. fw'.bss[0] = mac.conns /\ vif'.bss_index = 0
    BY <2>1, AddedFields, Types DEF VifType
  <2> QED
    BY <1>1, <1>2, <2>2, MacMoves DEF BssIs
<1>3. CASE Next1(t) = "delete_bss"
  <2>1. fw'.bss[0] = 0
    BY <1>3, DeleteBssFine, DeletedFields
  <2> QED
    BY <1>1, <1>3, <2>1, MacMoves DEF BssIs
<1>4. CASE Next1(t) \notin {"config_bss", "delete_bss"}
  BY <1>1, <1>4, MacMoves DEF BssIs, Held, Touches
<1> QED
  BY <1>2, <1>3, <1>4

\* The station entries, one by one.
LEMMA EntriesFine ==
  ASSUME TypeOK, Places, Linked, Room, Held, NEW t \in Threads, Smd(t), Fine'
  PROVE  /\ Next1(t) = "config_bss" =>
              \E i \in FreeSta :
                /\ i \in StaIdx /\ fw'.of[0] = i
                /\ \A j \in StaIdx : fw'.sta[j] = IF j = i THEN "bss" ELSE fw.sta[j]
         /\ Next1(t) = "config_sta" =>
              \E i \in FreeSta :
                /\ i \in StaIdx /\ sta'.sta_index = i
                /\ \A j \in StaIdx : fw'.sta[j] = IF j = i THEN "peer" ELSE fw.sta[j]
         /\ Next1(t) = "add_sta_self" =>
              \E i \in StaIdx :
                \A j \in StaIdx : fw'.sta[j] = fw.sta[j] \/ (j = i /\ fw'.sta[j] = "self"
                                                             /\ fw.sta[j] = "free")
         /\ Next1(t) = "delete_sta_self" =>
              \A j \in StaIdx : fw'.sta[j] = IF fw.sta[j] = "self" THEN "free" ELSE fw.sta[j]
         /\ Next1(t) = "delete_sta" =>
              \A j \in StaIdx : fw'.sta[j] = IF j = sta.sta_index THEN "free" ELSE fw.sta[j]
         /\ Next1(t) = "delete_bss" =>
              \A j \in StaIdx : fw'.sta[j] = IF j = fw.of[0] THEN "free" ELSE fw.sta[j]
<1>1. fw \in FwType /\ sta \in StaType
  BY Types
<1>2. ASSUME Next1(t) = "config_bss"
      PROVE  \E i \in FreeSta :
                /\ i \in StaIdx /\ fw'.of[0] = i
                /\ \A j \in StaIdx : fw'.sta[j] = IF j = i THEN "bss" ELSE fw.sta[j]
  BY <1>2, ConfigBssFine, AddedFields
<1>3. ASSUME Next1(t) = "config_sta"
      PROVE  \E i \in FreeSta :
                /\ i \in StaIdx /\ sta'.sta_index = i
                /\ \A j \in StaIdx : fw'.sta[j] = IF j = i THEN "peer" ELSE fw.sta[j]
  <2>1. PICK i \in FreeSta : i \in StaIdx /\ fw' = [fw EXCEPT !.sta[i] = "peer"]
                             /\ sta' = [sta EXCEPT !.sta_index = i]
    BY <1>3, ConfigStaFine
  <2>2. sta'.sta_index = i
    BY <1>1, <2>1 DEF StaType
  <2>3. \A j \in StaIdx : fw'.sta[j] = IF j = i THEN "peer" ELSE fw.sta[j]
    BY <1>1, <2>1 DEF FwType
  <2> QED
    BY <2>1, <2>2, <2>3
<1>4. ASSUME Next1(t) = "add_sta_self"
      PROVE  \E i \in StaIdx :
                \A j \in StaIdx : fw'.sta[j] = fw.sta[j] \/ (j = i /\ fw'.sta[j] = "self"
                                                             /\ fw.sta[j] = "free")
  <2>1. CASE FreeSta = {}
    BY <1>4, <2>1, FineCommands, Places3
  <2>2. CASE FreeSta # {}
    <3>1. PICK i \in FreeSta : i \in StaIdx /\ fw' = [fw EXCEPT !.sta[i] = "self"]
      BY <1>4, <2>2, FineCommands, FreeTyped
    <3>2. \A j \in StaIdx : fw'.sta[j] = IF j = i THEN "self" ELSE fw.sta[j]
      BY <1>1, <3>1 DEF FwType
    <3> QED
      BY <3>1, <3>2 DEF FreeSta
  <2> QED
    BY <2>1, <2>2
<1>5. ASSUME Next1(t) = "delete_sta_self"
      PROVE  \A j \in StaIdx : fw'.sta[j] = IF fw.sta[j] = "self" THEN "free" ELSE fw.sta[j]
  <2>1. CASE Self = {}
    BY <1>5, <2>1, FineCommands DEF Self
  <2>2. CASE Self # {}
    <3> DEFINE f == [i \in StaIdx |-> IF i \in Self THEN "free" ELSE fw.sta[i]]
    <3>1. fw' = [fw EXCEPT !.sta = f]
      BY <1>5, <2>2, FineCommands
    <3>2. \A j \in StaIdx : f[j] = IF fw.sta[j] = "self" THEN "free" ELSE fw.sta[j]
      BY DEF Self
    <3> HIDE DEF f
    <3>3. fw'.sta = f
      BY <1>1, <3>1 DEF FwType
    <3> QED
      BY <3>2, <3>3
  <2> QED
    BY <2>1, <2>2
<1>6. ASSUME Next1(t) = "delete_sta"
      PROVE  \A j \in StaIdx : fw'.sta[j] = IF j = sta.sta_index THEN "free" ELSE fw.sta[j]
  <2>1. CASE fw.sta[sta.sta_index] = "free"
    BY <1>6, <2>1, FineCommands
  <2>2. CASE fw.sta[sta.sta_index] # "free"
    <3>1. fw' = [fw EXCEPT !.sta[sta.sta_index] = "free", !.stakey = @ \ {sta.sta_index}]
      BY <1>6, <2>2, FineCommands
    <3> QED
      BY <1>1, <3>1 DEF FwType, StaType
  <2> QED
    BY <2>1, <2>2
<1>7. ASSUME Next1(t) = "delete_bss"
      PROVE  \A j \in StaIdx : fw'.sta[j] = IF j = fw.of[0] THEN "free" ELSE fw.sta[j]
  BY <1>7, DeleteBssFine, DeletedFields
<1> QED
  BY <1>2, <1>3, <1>4, <1>5, <1>6, <1>7

LEMMA EntryFine ==
  ASSUME TypeOK, Places, Linked, Room, Held, NEW t \in Threads, Smd(t), Fine'
  PROVE  EntryIs'
<1>1. Advances(t) /\ Touches(t) /\ mac' = mac
  BY SmdStep DEF Advances
<1>2. fw.of[0] \in StaIdx
  BY Places3, FwFields
<1>3. CASE Next1(t) = "config_bss"
  BY <1>1, <1>3, EntriesFine, MacMoves DEF EntryIs, Held
<1>4. CASE Next1(t) = "config_sta"
  BY <1>1, <1>2, <1>4, EntriesFine, MacMoves DEF EntryIs, Held, Touches, FreeSta
<1>5. CASE Next1(t) \in {"add_sta_self", "delete_sta_self", "delete_sta"}
  <2>1. mac.phase \notin {"bss", "peer", "assoc"} /\ (Up' <=> Up) /\ fw'.of = fw.of
    BY <1>1, <1>5, MacMoments, MacMoves DEF Touches
  <2>2. \A j \in StaIdx : fw'.sta[j] = "bss" => fw.sta[j] = "bss"
    BY <1>5, EntriesFine
  <2> QED
    BY <1>1, <2>1, <2>2 DEF EntryIs, Held
<1>6. CASE Next1(t) = "delete_bss"
  <2>1. ~Up' /\ fw'.of = fw.of
    BY <1>1, <1>6, MacMoves DEF Touches
  <2>2. \A j \in StaIdx : fw'.sta[j] # "bss"
    BY <1>6, EntriesFine DEF EntryIs, Held
  <2> QED
    BY <2>1, <2>2 DEF EntryIs
<1>7. CASE Next1(t) \notin {"config_bss", "config_sta", "add_sta_self", "delete_sta_self",
                            "delete_sta", "delete_bss"}
  BY <1>1, <1>7, MacMoves DEF EntryIs, Held, Touches
<1> QED
  BY <1>3, <1>4, <1>5, <1>6, <1>7

LEMMA PeerFine ==
  ASSUME TypeOK, Places, Linked, Room, Held, NEW t \in Threads, Smd(t), Fine'
  PROVE  PeerIs'
<1>1. Advances(t) /\ Touches(t) /\ mac' = mac
  BY SmdStep DEF Advances
<1>2. \A i \in StaIdx : fw'.sta[i] = "peer" <=> PeerIn' /\ i = sta'.sta_index
  <2>1. CASE Next1(t) = "config_sta"
    BY <1>1, <2>1, EntriesFine, MacMoves DEF PeerIs, Held
  <2>2. CASE Next1(t) = "delete_sta"
    BY <1>1, <2>2, EntriesFine, MacMoves DEF PeerIs, Held
  <2>3. CASE Next1(t) \in {"config_bss", "add_sta_self", "delete_sta_self", "delete_bss"}
    <3>1. ~PeerIn /\ ~PeerIn'
      BY <1>1, <2>3, MacMoments, MacMoves DEF PeerIn
    <3>2. \A j \in StaIdx : fw'.sta[j] = "peer" => fw.sta[j] = "peer"
      BY <2>3, EntriesFine
    <3> QED
      BY <3>1, <3>2 DEF PeerIs, Held
  <2>4. CASE Next1(t) = "gone"
    <3>1. mac.phase = "bye" /\ t = "mac"
      BY <1>1, <2>4, MacSteps, MacMoments
    <3>2. ~PeerIn /\ ~PeerIn'
      BY <1>1, <2>4, <3>1, MacMoves DEF PeerIn, At, Next1
    <3> QED
      BY <1>1, <2>4, <3>2 DEF PeerIs, Held, Touches
  <2>5. CASE Next1(t) \notin {"config_bss", "config_sta", "add_sta_self", "delete_sta_self",
                              "delete_sta", "delete_bss", "gone"}
    BY <1>1, <2>5, MacMoves DEF PeerIs, Held, Touches
  <2> QED
    BY <2>1, <2>2, <2>3, <2>4, <2>5
<1>3. Named' => sta'.bss_sta_index = fw'.of[0]
  <2>1. CASE Next1(t) \in {"config_bss", "gone"}
    BY <1>1, <2>1, MacMoments DEF Named
  <2>2. CASE Next1(t) = "update_bss"
    <3>1. mac.phase = "assoc" /\ Up
      BY <1>1, <2>2, MacMoments DEF Up
    <3>2. HasBss(vif.bss_index) /\ vif.bss_index = 0
      BY <3>1, Places3 DEF Held, BssIs, HasBss, Linked
    <3>3. sta'.bss_sta_index = fw.of[0]
      BY <2>2, <3>2, FineIndices, Types DEF StaType
    <3> QED
      BY <1>1, <2>2, <3>3 DEF Touches
  <2>3. CASE Next1(t) \notin {"config_bss", "gone", "update_bss"}
    BY <1>1, <2>3, MacMoves DEF PeerIs, Held, Touches
  <2> QED
    BY <2>1, <2>2, <2>3
<1> QED
  BY <1>2, <1>3 DEF PeerIs

LEMMA SelfFine ==
  ASSUME TypeOK, Places, Linked, Room, Held, NEW t \in Threads, Smd(t), Fine'
  PROVE  SelfIs'
<1>1. Advances(t) /\ Touches(t) /\ mac' = mac
  BY SmdStep DEF Advances
<1>2. CASE Next1(t) = "add_sta_self"
  <2>1. \A j \in StaIdx : fw.sta[j] # "self"
    BY <1>1, <1>2, MacMoves DEF SelfIs, Held
  <2>2. ~SelfOut'
    <3>1. mac.phase = "idle" /\ t = "mac" /\ MacList \in PhaseLists("idle") /\ MacList # <<>>
          /\ Head(MacList) = "add_sta_self" /\ MacList' = Tail(MacList)
      BY <1>1, <1>2, MacSteps, MacMoments
    <3>2. MacList' = <<>>
      BY <3>1, IdleAt
    <3> QED
      BY <1>1, <3>1, <3>2 DEF SelfOut, At, MacList
  <2> QED
    BY <1>2, <2>1, <2>2, EntriesFine DEF SelfIs
<1>3. CASE Next1(t) = "delete_sta_self"
  BY <1>3, EntriesFine DEF SelfIs
<1>4. CASE Next1(t) \notin {"add_sta_self", "delete_sta_self"}
  <2>1. SelfOut' => SelfOut
    BY <1>1, <1>4, MacMoves
  <2>2. \A j \in StaIdx : fw'.sta[j] = "self" => fw.sta[j] = "self"
    BY <1>1, <1>4, EntriesFine DEF Touches
  <2> QED
    BY <2>1, <2>2 DEF SelfIs, Held
<1> QED
  BY <1>2, <1>3, <1>4

LEMMA KeyFine ==
  ASSUME TypeOK, Places, Linked, Room, Held, NEW t \in Threads, Smd(t), Fine'
  PROVE  KeyIs'
<1>1. Advances(t) /\ Touches(t) /\ mac' = mac
  BY SmdStep DEF Advances
<1>2. CASE Next1(t) = "set_stakey"
  <2>1. /\ t = "mac" /\ mac.phase = "assoc" /\ MacList \in KeyLists /\ Up
        /\ ~Keyed /\ Keyed' /\ sta'.bss_sta_index = sta.bss_sta_index
    BY <1>1, <1>2, MacSteps, MacMoments, MacMoves DEF Touches, Up
  <2>2. sta.bss_sta_index = fw.of[0]
    BY <1>2, <2>1, Apart DEF Named, At, Next1, PeerIs, Held
  <2>3. fw.sta[sta.bss_sta_index] = "bss"
    BY <2>1, <2>2 DEF EntryIs, Held
  <2>4. fw' = [fw EXCEPT !.stakey = @ \cup {sta.bss_sta_index}]
    BY <1>2, <2>3, FineCommands
  <2>5. fw'.stakey = fw.stakey \cup {sta.bss_sta_index}
    BY <2>4, Types DEF FwType
  <2> QED
    BY <2>1, <2>5 DEF KeyIs, Held
<1>3. CASE Next1(t) = "remove_stakey"
  <2>1. Keyed /\ ~Keyed'
    BY <1>1, <1>3, MacMoves
  <2>2. fw' = [fw EXCEPT !.stakey = @ \ {sta.bss_sta_index}]
    BY <1>3, <2>1, FineCommands DEF KeyIs, Held
  <2>3. fw'.stakey = fw.stakey \ {sta.bss_sta_index}
    BY <2>2, Types DEF FwType
  <2> QED
    BY <2>1, <2>3 DEF KeyIs, Held
<1>4. CASE Next1(t) \in {"delete_sta", "delete_bss", "gone", "update_bss"}
  <2>1. mac.phase = "assoc" => MacList \in AssocLists \cup KeyLists /\ Next1(t) = "update_bss"
    BY <1>1, <1>4, MacMoments
  <2>2. Next1(t) = "update_bss" => ~At("mac", "remove_stakey")
    BY <1>1, MacSteps DEF At, Next1
  <2>3. ~Keyed /\ ~Keyed'
    BY <1>1, <1>4, <2>1, <2>2, MacMoves DEF Keyed, Places
  <2>4. fw'.stakey \subseteq fw.stakey
    <3>1. CASE Next1(t) = "delete_sta"
      BY <1>1, <3>1, FineCommands, DeletedKeys
    <3>2. CASE Next1(t) = "delete_bss"
      BY <3>2, DeleteBssFine, DeletedFields
    <3>3. CASE Next1(t) \in {"gone", "update_bss"}
      BY <1>1, <3>3 DEF Touches
    <3> QED
      BY <1>4, <3>1, <3>2, <3>3
  <2> QED
    BY <2>3, <2>4 DEF KeyIs, Held
<1>5. CASE Next1(t) \notin {"set_stakey", "remove_stakey", "delete_sta", "delete_bss", "gone",
                            "update_bss"}
  BY <1>1, <1>5, MacMoves DEF KeyIs, Held, Touches
<1> QED
  BY <1>2, <1>3, <1>4, <1>5

LEMMA GroupFine ==
  ASSUME TypeOK, Places, Linked, Room, Held, NEW t \in Threads, Smd(t), Fine'
  PROVE  GroupIs'
<1>1. Advances(t) /\ Touches(t) /\ TouchesToo(t) /\ mac' = mac
  BY SmdStep, SmdTouchesToo DEF Advances
<1>2. CASE Next1(t) = "set_bsskey"
  <2>1. t = "mac" /\ MacList \in PhaseLists(mac.phase) /\ MacList # <<>>
        /\ Head(MacList) = "set_bsskey" /\ mac.phase \in Phases
    BY <1>1, <1>2, MacOwn, MacSteps, Types DEF MacType
  <2>2. mac.phase = "assoc"
    BY <2>1, IdleAt, OtherPhaseAt DEF Phases
  <2>3. At("mac", "set_bsskey") /\ Up /\ Up'
    BY <1>1, <2>1, <2>2 DEF At, MacList, Up
  <2>4. HasBss(0)
    BY <2>3, Places3 DEF BssIs, Held, HasBss, Linked
  <2>5. 0 \in fw'.bsskey
    BY <1>2, <2>4, FineCommands, Types DEF FwType
  <2> QED
    BY <1>1, <2>2, <2>3, <2>5 DEF GroupIs, Linked
<1>3. CASE Next1(t) = "remove_bsskey"
  <2>1. t = "mac" /\ MacList # <<>> /\ Head(MacList) = "remove_bsskey"
    BY <1>1, <1>3, MacOwn, MacSteps
  <2>2. mac.phase = "assoc" => ~mac.group
    BY <2>1 DEF Linked, At, MacList
  <2>3. 0 \notin fw'.bsskey
    <3>1. 0 \in fw.bsskey => fw'.bsskey = fw.bsskey \ {0}
      BY <1>3, FineCommands, Types DEF FwType
    <3>2. 0 \notin fw.bsskey => fw' = fw
      BY <1>3, FineCommands
    <3> QED
      BY <3>1, <3>2
  <2> QED
    BY <1>1, <2>2, <2>3 DEF GroupIs, Grouped
<1>4. CASE Next1(t) = "delete_bss"
  <2>1. 0 \notin fw'.bsskey /\ mac.phase = "idle"
    BY <1>1, <1>4, DeleteBssFine, DeletedFields, MacMoments
  <2> QED
    BY <1>1, <2>1 DEF GroupIs, Grouped
<1>5. CASE Next1(t) \notin {"set_bsskey", "remove_bsskey", "delete_bss"}
  <2>1. Next1(t) = "config_bss" => mac.phase = "bss"
    BY <1>1, MacMoments
  <2> QED
    BY <1>1, <1>5, <2>1, MacMoves DEF GroupIs, Held, TouchesToo
<1> QED
  BY <1>2, <1>3, <1>4, <1>5

LEMMA SetMcFine ==
  ASSUME TypeOK, Room, Held, Linked, NEW t \in Threads, Smd(t), Fine',
         Next1(t) \in {"set_mc_all", "set_mc_list"}
  PROVE  /\ fw'.mc[0] = IF fw.bss[0] = 0 THEN fw.mc[0]
                        ELSE IF Next1(t) = "set_mc_all" THEN 0 ELSE prepare_multicast(mac.filter)
         /\ Next1(t) = "set_mc_list" /\ ~vif.sta_assoc => "outlived" \in history'
<1> DEFINE b == vif.bss_index
<1>1. SetMcList(t)
  <2>1. OtherCommand(t) \/ KeepAlive(t) \/ SwitchChannel(t) \/ UpdateCfg(t)
          \/ SetPowerParams(t) \/ DumpCmd(t) => Next1(t) \notin {"set_mc_all", "set_mc_list"}
    BY DEF OtherCommand, KeepAlive, SwitchChannel, UpdateCfg, SetPowerParams, DumpCmd,
       Command, At, Next1
  <2> QED
    BY <2>1, Heads DEF Smd
<1>2. 0 \in BssIdx /\ fw.mc \in [BssIdx -> Lists]
  BY Places3, FwFields
<1>3. fw.bss[0] # 0 => b = 0
  BY DEF BssIs, Held
<1>4. ASSUME NEW n, HasBss(b), fw' = McSet(b, n)
      PROVE  fw'.mc[0] = IF b = 0 THEN n ELSE fw.mc[0]
  BY <1>2, <1>4, Types DEF McSet, FwType, HasBss
<1>5. fw.bss[0] = 0 /\ HasBss(b) => b # 0
  BY DEF HasBss
<1>6. fw.bss[0] # 0 => HasBss(b)
  BY <1>2, <1>3 DEF HasBss
<1>7. CASE Next1(t) = "set_mc_all"
  <2>1. Exchange(t, "set_mc_all", HasBss(b), McSet(b, 0))
    <3>1. \/ Exchange(t, "set_mc_all", HasBss(b), McSet(b, 0))
          \/ Exchange(t, "set_mc_list", HasBss(b), McSet(b, prepare_multicast(mac.filter)))
      BY <1>1, QuietForms
    <3> QED
      BY <1>7, <3>1 DEF Exchange, At, Next1
  <2>2. fw' = IF HasBss(b) THEN McSet(b, 0) ELSE fw
    BY <2>1, FineExchange DEF SetMc
  <2> QED
    BY <1>3, <1>4, <1>5, <1>6, <1>7, <2>2
<1>8. CASE Next1(t) = "set_mc_list"
  <2>1. Exchange(t, "set_mc_list", HasBss(b), McSet(b, prepare_multicast(mac.filter)))
    <3>1. \/ Exchange(t, "set_mc_all", HasBss(b), McSet(b, 0))
          \/ Exchange(t, "set_mc_list", HasBss(b), McSet(b, prepare_multicast(mac.filter)))
      BY <1>1, QuietForms
    <3> QED
      BY <1>8, <3>1 DEF Exchange, At, Next1
  <2>2. fw' = IF HasBss(b) THEN McSet(b, prepare_multicast(mac.filter)) ELSE fw
    BY <2>1, FineExchange DEF SetMc
  <2>3. ~vif.sta_assoc => "outlived" \in history'
    BY <1>8, <2>1 DEF Exchange, Finish, Next1
  <2> QED
    BY <1>3, <1>4, <1>5, <1>6, <1>8, <2>2, <2>3
<1> QED
  BY <1>7, <1>8

LEMMA FilterFine ==
  ASSUME TypeOK, Places, Linked, Room, Held, NEW t \in Threads, Smd(t), Fine'
  PROVE  FilterIs'
<1>1. Advances(t) /\ Touches(t) /\ TouchesToo(t) /\ mac' = mac
  BY SmdStep, SmdTouchesToo DEF Advances
<1> SUFFICES ASSUME "outlived" \notin history'
             PROVE  /\ ~vif'.sta_assoc \/ fw'.bss[0] = 0 => fw'.mc[0] = 0
                    /\ FilterSet' => fw'.mc[0] \in {0, mac.filter}
  BY <1>1 DEF FilterIs
<1>2. /\ ~vif.sta_assoc \/ fw.bss[0] = 0 => fw.mc[0] = 0
      /\ FilterSet => fw.mc[0] \in {0, mac.filter}
  BY HistoryGrows DEF FilterIs, Held
<1>3. CASE Next1(t) \in {"set_mc_all", "set_mc_list"}
  <2>1. fw'.bss = fw.bss /\ vif'.sta_assoc = vif.sta_assoc
    BY <1>1, <1>3 DEF Touches, TouchesToo
  <2>2. prepare_multicast(mac.filter) \in {0, mac.filter}
    BY DEF prepare_multicast
  <2> QED
    BY <1>2, <1>3, <2>1, <2>2, SetMcFine
<1>4. CASE Next1(t) = "delete_bss"
  BY <1>4, DeleteBssFine, DeletedFields
<1>5. CASE Next1(t) \notin {"set_mc_all", "set_mc_list", "delete_bss"}
  <2>1. fw'.mc = fw.mc
    BY <1>1, <1>5 DEF TouchesToo
  <2>2. FilterSet' => FilterSet
    <3>1. CASE t = "work"
      BY <1>5, <3>1 DEF FilterSet, At, Next1
    <3>2. CASE t # "work"
      BY <1>1, <3>2 DEF FilterSet, At, Advances, Threads
    <3> QED
      BY <3>1, <3>2
  <2>3. fw'.bss[0] = 0 => fw.bss[0] = 0
    <3>1. Next1(t) = "config_bss" => fw.bss[0] = 0
      BY <1>1, MacMoves DEF BssIs, Held
    <3> QED
      BY <1>1, <1>5, <3>1 DEF Touches
  <2>4. ~vif'.sta_assoc => fw.mc[0] = 0
    <3>1. CASE Next1(t) # "unassoc"
      BY <1>1, <1>2, <3>1 DEF TouchesToo
    <3>2. CASE Next1(t) = "unassoc"
      <4>1. t = "mac" /\ MacList \in PhaseLists(mac.phase) /\ MacList # <<>>
            /\ Head(MacList) = "unassoc" /\ mac.phase \in Phases
        BY <1>1, <3>2, MacOwn, MacSteps, Types DEF MacType
      <4>2. mac.phase = "idle"
        BY <4>1, AssocAt, OtherPhaseAt DEF Phases
      <4>3. ~Up
        BY <4>1, <4>2 DEF Up, At, MacList
      <4> QED
        BY <1>2, <4>3 DEF BssIs, Held
    <3> QED
      BY <3>1, <3>2
  <2> QED
    BY <1>2, <2>1, <2>2, <2>3, <2>4
<1> QED
  BY <1>3, <1>4, <1>5

LEMMA HeldSmd ==
  ASSUME TypeOK, Places, Linked, Room, Held, NEW t \in Threads, Smd(t), Fine'
  PROVE  Held'
BY BssFine, EntryFine, PeerFine, SelfFine, KeyFine, GroupFine, FilterFine DEF Held

\* The callbacks.
LEMMA LinkedMacCall ==
  ASSUME TypeOK, Places, Linked, MacCall
  PROVE  Linked'
<1>1. "mac" \in Threads /\ mac \in MacType /\ sta \in StaType
  BY Types DEF Threads
<1>2. MacList = <<>> /\ \A c : ~At("mac", c)
  BY CallFacts DEF At, MacList
<1> DEFINE Ends == {"set_bsskey", "remove_bsskey", "remove_stakey"}
<1>3. /\ Head(<<"set_bsskey">>) = "set_bsskey" /\ Head(<<"remove_bsskey">>) = "remove_bsskey"
      /\ Head(<<"remove_stakey">>) = "remove_stakey"
      /\ Head(<<"set_link_st", "update_bss", "aid", "config_sta">>) = "set_link_st"
      /\ Head(<<"update_bss", "set_stakey">>) = "update_bss"
      /\ Head(<<"enter_bmps", "pw_enter">>) = "enter_bmps"
      /\ Head(<<"exit_bmps", "pw_full">>) = "exit_bmps"
      /\ <<"join", "config_bss">> \notin Resting
  BY HeadTail DEF Resting
<1>4. CASE add_interface
  <2>1. MacList' = <<"add_sta_self">> /\ mac' = [mac EXCEPT !.phase = "idle"] /\ sta' = sta
    BY <1>1, <1>4, Started DEF add_interface, MacList
  <2>2. ~At("mac", "delete_bss")'
    BY <2>1, HeadTail DEF At, MacList
  <2> QED
    BY <1>1, <1>4, <2>1, <2>2 DEF Linked, Up, MacType, add_interface, Call
<1>5. CASE remove_interface
  <2>1. mac' = [mac EXCEPT !.phase = "none"] /\ sta' = sta /\ mac.phase = "idle"
    BY <1>5 DEF remove_interface, Call
  <2> QED
    BY <1>1, <2>1 DEF Linked, Up, MacType
<1>6. CASE JoinBss
  <2>1. /\ MacList' = <<"join", "config_bss">> /\ mac.phase = "idle" /\ ~mac.group /\ sta' = sta
        /\ mac' = [mac EXCEPT !.phase = "bss", !.conns = @ + 1]
    BY <1>1, <1>6, Started DEF JoinBss, MacList, Call
  <2> QED
    BY <1>1, <1>3, <2>1 DEF Linked, Up, MacType
<1>7. CASE sta_add
  <2>1. /\ mac' = [mac EXCEPT !.phase = "peer"] /\ mac.phase = "bss"
        /\ sta' = [NoSta EXCEPT !.there = TRUE]
    BY <1>7 DEF sta_add, Call
  <2> QED
    BY <1>1, <2>1 DEF Linked, Up, MacType, NoSta, Places
<1>8. CASE Associate
  <2>1. /\ MacList' = <<"set_link_st", "update_bss", "aid", "config_sta">>
        /\ mac' = [mac EXCEPT !.phase = "assoc", !.assoc = TRUE] /\ mac.phase = "peer"
        /\ sta' = sta
    BY <1>1, <1>8, Started DEF Associate, MacList, Call
  <2>2. \A c \in Ends : ~At("mac", c)'
    BY <1>3, <2>1 DEF At, MacList
  <2> QED
    BY <1>1, <2>1, <2>2 DEF Linked, Up, MacType
<1>9. CASE SetPairwiseKey
  <2>1. /\ MacList' = <<"update_bss", "set_stakey">> /\ mac.phase = "assoc"
        /\ mac' = [mac EXCEPT !.pairwise = TRUE]
        /\ sta' = [sta EXCEPT !.is_data_encrypted = TRUE]
    BY <1>1, <1>9, Started DEF SetPairwiseKey, MacList, Call
  <2>2. \A c \in Ends : ~At("mac", c)'
    BY <1>3, <2>1 DEF At, MacList
  <2> QED
    BY <1>1, <2>1, <2>2 DEF Linked, Up, MacType, StaType
<1>10. CASE SetGroupKey
  <2>1. /\ MacList' = <<"set_bsskey">> /\ mac.phase = "assoc"
        /\ mac' = [mac EXCEPT !.group = TRUE] /\ sta' = sta
    BY <1>1, <1>10, Started DEF SetGroupKey, MacList, Call
  <2>2. \A c \in Ends \ {"set_bsskey"} : ~At("mac", c)'
    BY <1>3, <2>1 DEF At, MacList
  <2> QED
    BY <1>1, <2>1, <2>2 DEF Linked, Up, MacType
<1>11. CASE DisablePairwiseKey
  <2>1. /\ MacList' \in {<<"remove_stakey">>, <<>>} /\ mac.phase = "assoc"
        /\ mac' = [mac EXCEPT !.pairwise = FALSE]
        /\ sta' = [sta EXCEPT !.is_data_encrypted = FALSE]
    BY <1>1, <1>11, Started DEF DisablePairwiseKey, MacList, Call
  <2>2. \A c \in Ends \ {"remove_stakey"} : ~At("mac", c)'
    BY <1>3, <2>1 DEF At, MacList
  <2> QED
    BY <1>1, <2>1, <2>2 DEF Linked, Up, MacType, StaType
<1>12. CASE DisableGroupKey
  <2>1. /\ MacList' = <<"remove_bsskey">> /\ mac.phase \in {"assoc", "idle"}
        /\ mac' = [mac EXCEPT !.group = FALSE] /\ sta' = sta
    BY <1>1, <1>12, Started DEF DisableGroupKey, MacList, Call
  <2>2. ~At("mac", "set_bsskey")' /\ ~At("mac", "remove_stakey")' /\ ~At("mac", "delete_bss")'
    BY <1>3, <2>1 DEF At, MacList
  <2> QED
    BY <1>1, <2>1, <2>2 DEF Linked, Up, MacType
<1>13. CASE sta_remove
  <2>1. mac.phase \in {"peer", "assoc"} /\ mac' = [mac EXCEPT !.phase = "bye"] /\ sta' = sta
    BY <1>13 DEF sta_remove, Call
  <2> QED
    BY <1>1, <2>1 DEF Linked, Up, MacType
<1>14. CASE LeaveBss
  <2>1. /\ mac.phase \in {"bss", "bye"} /\ sta' = sta
        /\ mac' = [mac EXCEPT !.phase = "idle", !.assoc = FALSE]
    BY <1>14 DEF LeaveBss, Call
  <2> QED
    BY <1>1, <2>1 DEF Linked, Up, MacType, Places
<1>15. CASE ChangePs
  <2>1. Pmc("mac", ~mac.ps, <<>>) /\ mac' = [mac EXCEPT !.ps = ~@] /\ mac.phase = "assoc"
        /\ sta' = sta
    BY <1>15 DEF ChangePs, Call
  <2>2. MacList' \in {<<"enter_bmps", "pw_enter">>, <<"exit_bmps", "pw_full">>, <<>>}
    BY <1>1, <2>1, PmcLists, Started DEF MacList
  <2>3. \A c \in Ends : ~At("mac", c)'
    BY <1>3, <2>2 DEF At, MacList
  <2> QED
    BY <1>1, <2>1, <2>3 DEF Linked, Up, MacType
<1> QED
  BY <1>4, <1>5, <1>6, <1>7, <1>8, <1>9, <1>10, <1>11, <1>12, <1>13, <1>14, <1>15 DEF MacCall

\* A call changes nothing in the firmware: it is enough that it leaves, or ends,
\* what was up.
Keeps ==
  /\ fw' = fw
  /\ Up' <=> Up
  /\ Up => mac'.conns = mac.conns /\ vif'.bss_index = vif.bss_index
  /\ Up /\ mac'.phase \in {"bss", "peer", "assoc"} => mac.phase \in {"bss", "peer", "assoc"}
  /\ PeerIn' <=> PeerIn
  /\ PeerIn => sta'.sta_index = sta.sta_index
  /\ Named' => Named
  /\ Keyed' <=> Keyed
  /\ Named' \/ Keyed => sta'.bss_sta_index = sta.bss_sta_index
  /\ SelfOut' => SelfOut

LEMMA Kept ==
  ASSUME Held, Keeps
  PROVE  BssIs' /\ EntryIs' /\ PeerIs' /\ SelfIs' /\ KeyIs'
BY DEF Held, Keeps, BssIs, EntryIs, PeerIs, SelfIs, KeyIs

LEMMA CallsKeep ==
  ASSUME TypeOK, Places, Linked, MacCall
  PROVE  Keeps
<1>1. "mac" \in Threads /\ mac \in MacType /\ sta \in StaType /\ vif \in VifType
  BY Types DEF Threads
<1>2. MacList = <<>> /\ fw' = fw /\ \A c : ~At("mac", c)
  BY CallFacts, MacCallBegins DEF At, MacList
<1>3. /\ Head(<<"add_sta_self">>) = "add_sta_self" /\ Head(<<"delete_sta_self">>) = "delete_sta_self"
      /\ Head(<<"join", "config_bss">>) = "join"
      /\ Head(<<"set_bsskey">>) = "set_bsskey" /\ Head(<<"remove_bsskey">>) = "remove_bsskey"
      /\ Head(<<"remove_stakey">>) = "remove_stakey"
      /\ Head(<<"set_link_st", "update_bss", "aid", "config_sta">>) = "set_link_st"
      /\ Head(<<"update_bss", "set_stakey">>) = "update_bss"
      /\ Head(<<"enter_bmps", "pw_enter">>) = "enter_bmps"
      /\ Head(<<"exit_bmps", "pw_full">>) = "exit_bmps"
      /\ Head(<<"delete_sta", "gone">>) = "delete_sta"
      /\ Head(<<"delete_bss", "plain">>) = "delete_bss"
      /\ Head(<<"delete_bss", "plain", "unassoc", "set_link_st">>) = "delete_bss"
  BY HeadTail
<1>4. \A c : At("mac", c)' <=> MacList' # <<>> /\ Head(MacList') = c
  BY DEF At, MacList
<1>5. /\ <<>> \in Resting /\ <<>> \notin AssocLists \cup KeyLists
      /\ <<"join", "config_bss">> \notin Resting
      /\ \A L \in AssocRest : L \notin AssocLists \cup KeyLists
  <2>1. <<>> \in Resting /\ <<>> \in AssocRest /\ <<"join", "config_bss">> \notin Resting
    BY HeadTail DEF Resting, AssocRest
  <2> QED
    BY <2>1, Apart
<1>6. CASE add_interface
  <2>1. /\ MacList' = <<"add_sta_self">> /\ mac' = [mac EXCEPT !.phase = "idle"]
        /\ mac.phase = "none" /\ sta' = sta
    BY <1>1, <1>6, Started DEF add_interface, MacList, Call
  <2> QED
    BY <1>1, <1>2, <1>3, <1>4, <2>1
       DEF MacType, Keeps, Up, PeerIn, Named, Keyed, SelfOut
<1>7. CASE remove_interface
  <2>1. /\ MacList' = <<"delete_sta_self">> /\ mac' = [mac EXCEPT !.phase = "none"]
        /\ mac.phase = "idle" /\ sta' = sta
    BY <1>1, <1>7, Started DEF remove_interface, MacList, Call
  <2> QED
    BY <1>1, <1>2, <1>3, <1>4, <2>1
       DEF MacType, Keeps, Up, PeerIn, Named, Keyed, SelfOut
<1>8. CASE JoinBss
  <2>1. /\ MacList' = <<"join", "config_bss">> /\ mac.phase = "idle" /\ sta' = sta
        /\ mac' = [mac EXCEPT !.phase = "bss", !.conns = @ + 1]
    BY <1>1, <1>8, Started DEF JoinBss, MacList, Call
  <2> QED
    BY <1>1, <1>2, <1>3, <1>4, <1>5, <2>1
       DEF MacType, Keeps, Up, PeerIn, Named, Keyed, SelfOut
<1>9. CASE sta_add
  <2>1. /\ MacList' = <<>> /\ mac.phase = "bss" /\ vif' = vif
        /\ mac' = [mac EXCEPT !.phase = "peer"]
    BY <1>2, <1>9 DEF sta_add, MacList, Call
  <2> QED
    BY <1>1, <1>2, <1>4, <1>5, <2>1
       DEF MacType, Keeps, Up, PeerIn, Named, Keyed, SelfOut
<1>10. CASE Associate
  <2>1. /\ MacList' = <<"set_link_st", "update_bss", "aid", "config_sta">> /\ sta' = sta
        /\ mac' = [mac EXCEPT !.phase = "assoc", !.assoc = TRUE] /\ mac.phase = "peer"
        /\ vif' = [vif EXCEPT !.sta_assoc = TRUE]
    BY <1>1, <1>10, Started DEF Associate, MacList, Call
  <2>2. MacList' \in AssocLists /\ ~mac.pairwise
    BY <2>1, CallLists DEF Places
  <2> QED
    BY <1>1, <1>2, <1>3, <1>4, <2>1, <2>2
       DEF MacType, VifType, Keeps, Up, PeerIn, Named, Keyed, SelfOut
<1>11. CASE SetPairwiseKey
  <2>1. /\ MacList' = <<"update_bss", "set_stakey">> /\ mac.phase = "assoc" /\ ~mac.pairwise
        /\ mac' = [mac EXCEPT !.pairwise = TRUE]
        /\ sta' = [sta EXCEPT !.is_data_encrypted = TRUE]
        /\ vif' = [vif EXCEPT !.encrypted = TRUE]
    BY <1>1, <1>11, Started DEF SetPairwiseKey, MacList, Call
  <2>2. MacList' \in KeyLists /\ MacList' \notin AssocLists
    BY <2>1, CallLists, Apart
  <2> QED
    BY <1>1, <1>2, <1>3, <1>4, <1>5, <2>1, <2>2
       DEF MacType, StaType, VifType, Keeps, Up, PeerIn, Named, Keyed, SelfOut
<1>12. CASE SetGroupKey
  <2>1. /\ MacList' = <<"set_bsskey">> /\ mac.phase = "assoc" /\ sta' = sta
        /\ mac' = [mac EXCEPT !.group = TRUE] /\ vif' = [vif EXCEPT !.encrypted = TRUE]
    BY <1>1, <1>12, Started DEF SetGroupKey, MacList, Call
  <2>2. MacList' \notin AssocLists \cup KeyLists
    BY <1>5, <2>1, CallLists
  <2> QED
    BY <1>1, <1>2, <1>3, <1>4, <1>5, <2>1, <2>2
       DEF MacType, VifType, Keeps, Up, PeerIn, Named, Keyed, SelfOut
<1>13. CASE DisablePairwiseKey
  <2>1. /\ MacList' = <<"remove_stakey">> /\ mac.phase = "assoc" /\ mac.pairwise
        /\ mac' = [mac EXCEPT !.pairwise = FALSE] /\ vif' = vif
        /\ sta' = [sta EXCEPT !.is_data_encrypted = FALSE]
    <3>1. sta.aid
      BY <1>2, <1>5, <1>13, CallLists DEF Places, DisablePairwiseKey, Call
    <3> QED
      BY <1>1, <1>13, <3>1, Started DEF DisablePairwiseKey, MacList, Call
  <2>2. MacList' \notin AssocLists \cup KeyLists
    BY <1>5, <2>1, CallLists
  <2> QED
    BY <1>1, <1>2, <1>3, <1>4, <1>5, <2>1, <2>2
       DEF MacType, StaType, Keeps, Up, PeerIn, Named, Keyed, SelfOut
<1>14. CASE DisableGroupKey
  <2>1. /\ MacList' = <<"remove_bsskey">> /\ mac.phase \in {"assoc", "idle"} /\ sta' = sta
        /\ mac' = [mac EXCEPT !.group = FALSE] /\ vif' = [vif EXCEPT !.encrypted = FALSE]
    BY <1>1, <1>14, Started DEF DisableGroupKey, MacList, Call
  <2>2. MacList' \notin AssocLists \cup KeyLists
    BY <1>5, <2>1, CallLists
  <2> QED
    BY <1>1, <1>2, <1>3, <1>4, <1>5, <2>1, <2>2
       DEF MacType, VifType, Keeps, Up, PeerIn, Named, Keyed, SelfOut
<1>15. CASE sta_remove
  <2>1. /\ MacList' = <<"delete_sta", "gone">> /\ mac.phase \in {"peer", "assoc"}
        /\ ~mac.pairwise /\ mac' = [mac EXCEPT !.phase = "bye"] /\ sta' = sta /\ vif' = vif
    BY <1>1, <1>15, Started DEF sta_remove, MacList, Call
  <2>2. mac.assoc <=> mac.phase = "assoc"
    BY <2>1 DEF Linked
  <2> QED
    BY <1>1, <1>2, <1>3, <1>4, <1>5, <2>1, <2>2
       DEF MacType, Keeps, Up, PeerIn, Named, Keyed, SelfOut
<1>16. CASE LeaveBss
  <2>1. /\ mac.phase \in {"bss", "bye"} /\ sta' = sta /\ vif' = vif
        /\ mac' = [mac EXCEPT !.phase = "idle", !.assoc = FALSE]
    BY <1>16 DEF LeaveBss, Call
  <2>2. MacList' \in {<<"delete_bss", "plain">>,
                      <<"delete_bss", "plain", "unassoc", "set_link_st">>}
    BY <1>1, <1>16, LeaveList, Started DEF MacList
  <2>3. At("mac", "delete_bss")' /\ ~At("mac", "add_sta_self")'
    BY <1>3, <1>4, <2>2
  <2> QED
    BY <1>1, <1>2, <1>5, <2>1, <2>3
       DEF MacType, Keeps, Up, PeerIn, Named, Keyed, SelfOut
<1>17. CASE ChangePs
  <2>1. Pmc("mac", ~mac.ps, <<>>) /\ mac' = [mac EXCEPT !.ps = ~@] /\ mac.phase = "assoc"
        /\ sta' = sta /\ vif' = vif
    BY <1>17 DEF ChangePs, Call
  <2>2. MacList' \in {<<"enter_bmps", "pw_enter">>, <<"exit_bmps", "pw_full">>, <<>>}
    BY <1>1, <2>1, PmcLists, Started DEF MacList
  <2>3. MacList' \notin AssocLists \cup KeyLists
    BY <1>5, <2>2, CallLists
  <2>4. ~At("mac", "remove_stakey")' /\ ~At("mac", "set_link_st")' /\ ~At("mac", "update_bss")'
        /\ ~At("mac", "add_sta_self")'
    BY <1>3, <1>4, <2>2
  <2> QED
    BY <1>1, <1>2, <1>5, <2>1, <2>3, <2>4
       DEF MacType, Keeps, Up, PeerIn, Named, Keyed, SelfOut
<1> QED
  BY <1>6, <1>7, <1>8, <1>9, <1>10, <1>11, <1>12, <1>13, <1>14, <1>15, <1>16, <1>17
     DEF MacCall

LEMMA GroupMacCall ==
  ASSUME TypeOK, Places, Linked, Held, MacCall
  PROVE  GroupIs' /\ FilterIs'
<1>1. "mac" \in Threads /\ mac \in MacType /\ vif \in VifType
  BY Types DEF Threads
<1>2. MacList = <<>> /\ fw' = fw /\ \A c : ~At("mac", c)
  BY CallFacts, MacCallBegins DEF At, MacList
<1>3. Up' <=> Up
  BY CallsKeep DEF Keeps
<1>4. mac.phase = "assoc" => Grouped
  BY <1>2 DEF Grouped
<1>5. CASE sta_add
  <2>1. mac' = [mac EXCEPT !.phase = "peer"] /\ mac.phase = "bss" /\ vif' = vif /\ thr' = thr
        /\ history' = history
    BY <1>5 DEF sta_add, Call
  <2>2. GroupIs'
    BY <1>1, <1>2, <2>1 DEF GroupIs, Held, Grouped, MacType
  <2>3. FilterIs'
    BY <1>1, <1>2, <2>1 DEF FilterIs, Held, FilterSet, MacType, At
  <2> QED
    BY <2>2, <2>3
<1>6. CASE ~sta_add
  <2>1. thr'["work"] = thr["work"] /\ history \subseteq history'
    BY MacCallBegins DEF Begins, Threads
  <2>2. FilterSet' <=> FilterSet
    BY <2>1 DEF FilterSet, At
  <2>3. /\ mac'.filter = mac.filter
        /\ ~vif'.sta_assoc => ~vif.sta_assoc \/ mac.phase = "none"
    <3>1. CASE \/ add_interface \/ remove_interface \/ JoinBss \/ Associate
      BY <1>1, <3>1 DEF add_interface, remove_interface, JoinBss, Associate, MacType, VifType, Call
    <3>2. CASE \/ SetPairwiseKey \/ SetGroupKey \/ DisablePairwiseKey
               \/ DisableGroupKey \/ sta_remove \/ LeaveBss \/ ChangePs
      BY <1>1, <3>2 DEF SetPairwiseKey, SetGroupKey, DisablePairwiseKey,
         DisableGroupKey, sta_remove, LeaveBss, ChangePs, MacType, VifType
    <3> QED
      BY <1>6, <3>1, <3>2 DEF MacCall
  <2>4. mac.phase = "none" => fw.bss[0] = 0
    BY DEF BssIs, Held, Up
  <2>5. FilterIs'
    BY <1>2, <2>1, <2>2, <2>3, <2>4 DEF FilterIs, Held
  <2>6. GroupIs'
    <3>1. CASE add_interface \/ remove_interface \/ JoinBss \/ sta_remove
      <4>1. mac'.phase # "assoc" /\ (Up' => mac'.phase # "peer" /\ mac'.phase # "bss")
        <5>1. ASSUME JoinBss PROVE ~Up
          BY <1>2, <5>1 DEF JoinBss, Call, Up
        <5> QED
          BY <1>1, <1>3, <3>1, <5>1 DEF add_interface, remove_interface, JoinBss, sta_remove, MacType
      <4> QED
        BY <1>2, <1>3, <4>1 DEF GroupIs, Held, Grouped
    <3>2. CASE Associate
      <4>1. mac' = [mac EXCEPT !.phase = "assoc", !.assoc = TRUE] /\ mac.phase = "peer"
        BY <3>2 DEF Associate, Call
      <4> QED
        BY <1>1, <1>2, <1>3, <4>1 DEF GroupIs, Held, Grouped, Linked, MacType
    <3>3. CASE LeaveBss
      <4>1. mac' = [mac EXCEPT !.phase = "idle", !.assoc = FALSE]
        BY <3>3 DEF LeaveBss
      <4> QED
        BY <1>1, <1>2, <1>3, <4>1 DEF GroupIs, Held, Grouped, MacType
    <3>4. CASE SetPairwiseKey \/ DisablePairwiseKey \/ ChangePs
      <4>1. mac.phase = "assoc" /\ mac'.phase = "assoc" /\ mac'.group = mac.group
        BY <1>1, <3>4 DEF SetPairwiseKey, DisablePairwiseKey, ChangePs, Call, MacType
      <4> QED
        BY <1>2, <1>3, <1>4, <4>1 DEF GroupIs, Held
    <3>5. CASE SetGroupKey \/ DisableGroupKey
      <4>1. /\ mac'.phase = mac.phase /\ mac.phase \in {"assoc", "idle"}
            /\ MacList' \in {<<"set_bsskey">>, <<"remove_bsskey">>}
        BY <1>1, <3>5, Started DEF SetGroupKey, DisableGroupKey, Call, MacType, MacList
      <4>2. At("mac", "set_bsskey")' \/ At("mac", "remove_bsskey")'
        BY SMTT(20), <4>1, HeadTail DEF At, MacList
      <4> QED
        BY <1>2, <1>3, <4>1, <4>2 DEF GroupIs, Held, Grouped
    <3> QED
      BY <1>6, <3>1, <3>2, <3>3, <3>4, <3>5 DEF MacCall
  <2> QED
    BY <2>5, <2>6
<1> QED
  BY <1>5, <1>6

\* The requests leave the connection alone; one may ask for a new list.
LEMMA FilterRequests ==
  ASSUME TypeOK, Requests
  PROVE  /\ \A f \in {"assoc", "group"} : mac'[f] = mac[f]
         /\ \/ mac'.filter = mac.filter /\ (FilterSet' <=> FilterSet)
            \/ FilterSet /\ ~FilterSet'
            \/ FilterSet /\ ~vif.sta_assoc
<1>1. "work" \in Threads /\ mac \in MacType
  BY Types DEF Threads
<1>2. CASE configure_filter
  <2>1. PICK n : mac' = [mac EXCEPT !.filter = n]
    BY <1>2, FilterLists
  <2>2. thr["work"].todo = <<>>
    BY <1>2, FilterLists DEF Idle
  <2>3. FilterSet
    BY <2>2 DEF FilterSet, At
  <2>4. Start("work", <<"set_mc_all">>) \/ Start("work", <<"set_mc_list">>) \/ ~vif.sta_assoc
    BY <1>2 DEF configure_filter
  <2>5. ASSUME NEW c \in {"set_mc_all", "set_mc_list"}, Start("work", <<c>>)
        PROVE  ~FilterSet'
    BY <1>1, <2>5, Started, HeadTail DEF FilterSet, At
  <2> QED
    BY <1>1, <2>1, <2>3, <2>4, <2>5 DEF MacType
<1>3. CASE sw_scan_start \/ sw_scan_complete \/ config \/ set_rts_threshold
  <2>1. /\ thr["work"].todo = <<>>
        /\ mac' \in {mac, [mac EXCEPT !.scan = TRUE], [mac EXCEPT !.scan = FALSE]}
        /\ \E L \in {<<"init_scan", "start_scan">>, <<"end_scan", "finish_scan">>,
                     <<"switch_channel">>, <<"update_cfg">>} : Start("work", L)
    BY <1>3 DEF sw_scan_start, sw_scan_complete, config, set_rts_threshold, Request, Idle
  <2>2. thr'["work"].todo \in {<<"init_scan", "start_scan">>, <<"end_scan", "finish_scan">>,
                               <<"switch_channel">>, <<"update_cfg">>}
    BY <1>1, <2>1, Started
  <2>3. Head(thr'["work"].todo) \notin {"set_mc_all", "set_mc_list"}
    BY <2>2, HeadTail
  <2> QED
    BY <1>1, <2>1, <2>3 DEF FilterSet, At, MacType
<1>4. CASE suspend_resume \/ write_file_dump \/ write_file_bool_bmps
  <2>1. mac' = mac /\ thr'["work"] = thr["work"]
    <3>1. CASE suspend_resume
      BY <3>1, Started DEF suspend_resume, Threads
    <3>2. CASE write_file_dump
      BY <3>2, Started DEF write_file_dump, Threads
    <3>3. CASE write_file_bool_bmps
      <4>1. \E L : Start("dfs", L)
        BY <3>3 DEF write_file_bool_bmps, Pmc
      <4> QED
        BY <3>3, <4>1, Started DEF write_file_bool_bmps, Threads
    <3> QED
      BY <1>4, <3>1, <3>2, <3>3
  <2> QED
    BY <2>1 DEF FilterSet, At
<1> QED
  BY <1>2, <1>3, <1>4 DEF Requests

LEMMA HeldRequests ==
  ASSUME TypeOK, Places, Linked, Requests
  PROVE  /\ Linked'
         /\ Held => Held'
<1>1. /\ UNCHANGED <<vif, sta, fw>>
      /\ mac'.phase = mac.phase /\ mac'.conns = mac.conns /\ mac'.pairwise = mac.pairwise
      /\ mac'.assoc = mac.assoc /\ mac'.group = mac.group
      /\ history \subseteq history'
  BY RequestForms, FilterRequests, BeginsKeep
<1>2. \/ MacList' = MacList /\ \A c : At("mac", c)' <=> At("mac", c)
      \/ /\ MacList = <<>> /\ MacList' \in Resting /\ MacList' \in AssocRest
         /\ \A c : ~At("mac", c) /\ mac.phase # "none"
         /\ \A c : At("mac", c)' => c = "set_power_params"
  <2>1. CASE Begins("mac") /\ thr'["mac"].todo = <<"set_power_params">> /\ mac.phase # "none"
    BY <2>1, HeadTail DEF Begins, MacList, Resting, AssocRest, At
  <2>2. CASE Begins("dfs") \/ Begins("work")
    BY <2>2 DEF Begins, MacList, At, Threads
  <2> QED
    BY <2>1, <2>2, RequestForms
<1>3. /\ <<>> \in Resting /\ <<>> \notin AssocLists \cup KeyLists
      /\ \A L \in AssocRest : L \notin AssocLists \cup KeyLists
  <2>1. <<>> \in Resting /\ <<>> \in AssocRest
    BY DEF Resting, AssocRest
  <2> QED
    BY <2>1, Apart
<1>4. (Up' <=> Up) /\ (Grouped' <=> Grouped)
  BY <1>1, <1>2, <1>3 DEF Up, Grouped
<1>5. Linked'
  BY <1>1, <1>2, <1>4 DEF Linked
<1>6. Keeps
  BY <1>1, <1>2, <1>3, <1>4 DEF Keeps, PeerIn, Named, Keyed, SelfOut
<1>7. ASSUME Held PROVE Held'
  <2>1. GroupIs'
    BY <1>1, <1>4, <1>7 DEF Held, GroupIs
  <2>2. FilterIs'
    BY <1>1, <1>7, FilterRequests DEF Held, FilterIs
  <2> QED
    BY <1>6, <1>7, <2>1, <2>2, Kept DEF Held
<1> QED
  BY <1>5, <1>7

-----------------------------------------------------------------------------
(* The invariant of an association.                                        *)

ConnInv == Inv /\ Linked /\ (Fine => Held)

LEMMA InitConn ==
  ASSUME Room
  PROVE  Init => ConnInv
<1> SUFFICES ASSUME Init PROVE ConnInv
  OBVIOUS
<1>1. Inv
  BY InitInv
<1>2. /\ mac.phase = "none" /\ ~mac.assoc /\ mac.pairwise = FALSE /\ mac.group = FALSE
      /\ sta.is_data_encrypted = FALSE /\ MacList = <<>> /\ \A c : ~At("mac", c)
  BY DEF Init, MacList, At, Threads, NoSta
<1>3. ~Up /\ ~PeerIn /\ ~Named /\ ~Keyed /\ ~Grouped
  BY <1>2 DEF Up, PeerIn, Named, Keyed, Grouped
<1>4. Linked
  BY <1>2, <1>3 DEF Linked
<1>5. /\ fw.bss[0] = 0 /\ fw.mc[0] = 0 /\ fw.stakey = {} /\ fw.bsskey = {}
      /\ \A i \in StaIdx : fw.sta[i] = "free"
  BY Places3 DEF Init
<1>6. BssIs /\ EntryIs /\ PeerIs /\ SelfIs /\ KeyIs /\ GroupIs /\ FilterIs
  BY <1>2, <1>3, <1>5 DEF BssIs, EntryIs, PeerIs, SelfIs, KeyIs, GroupIs, FilterIs
<1> QED
  BY <1>1, <1>4, <1>6 DEF ConnInv, Held

LEMMA ConnNext ==
  ASSUME Room
  PROVE  ConnInv /\ [Next]_vars => ConnInv'
<1> SUFFICES ASSUME ConnInv, [Next]_vars PROVE ConnInv'
  OBVIOUS
<1>1. TypeOK /\ Places /\ Linked /\ Inv'
  BY InvNext DEF ConnInv, Inv
<1>2. ASSUME NEW t \in Threads, Smd(t) PROVE Linked' /\ (Fine' => Held')
  <2>1. Fine' => Fine
    BY <1>2, HistoryGrows DEF Fine
  <2> QED
    BY <1>1, <1>2, <2>1, LinkedSmd, HeldSmd DEF ConnInv
<1>3. CASE MacCall
  <2>1. Fine' => Fine
    BY <1>1, <1>3, BeginsKeep DEF Fine
  <2>2. Held => BssIs' /\ EntryIs' /\ PeerIs' /\ SelfIs' /\ KeyIs'
    BY <1>1, <1>3, CallsKeep, Kept
  <2>3. Held => Held'
    BY <1>1, <1>3, <2>2, GroupMacCall DEF Held
  <2> QED
    BY <1>1, <1>3, <2>1, <2>3, LinkedMacCall DEF ConnInv
<1>4. CASE Requests
  <2>1. Fine' => Fine
    BY <1>1, <1>4, BeginsKeep DEF Fine
  <2> QED
    BY <1>1, <1>4, <2>1, HeldRequests DEF ConnInv
<1>5. CASE UNCHANGED vars
  <2>1. MacList' = MacList /\ mac' = mac /\ sta' = sta /\ vif' = vif /\ fw' = fw
        /\ history' = history /\ thr' = thr
    BY <1>5 DEF vars, MacList
  <2>2. Keeps /\ (Grouped' <=> Grouped) /\ (FilterSet' <=> FilterSet)
    BY <2>1 DEF Keeps, Up, PeerIn, Named, Keyed, SelfOut, Grouped, FilterSet, At
  <2>3. Linked' /\ (Fine' <=> Fine)
    BY <1>1, <2>1, <2>2 DEF Linked, At, Fine, Keeps
  <2>4. Held => Held'
    BY <2>1, <2>2, Kept DEF Held, GroupIs, FilterIs, Keeps
  <2> QED
    BY <1>1, <2>3, <2>4 DEF ConnInv
<1>6. ASSUME NEW t \in Threads, Smd(t) PROVE ConnInv'
  BY <1>1, <1>2, <1>6 DEF ConnInv
<1> QED
  BY <1>3, <1>4, <1>5, <1>6 DEF Next

LEMMA ConnAlways ==
  ASSUME Room
  PROVE  Spec => []ConnInv
<1> QED
  BY InitConn, ConnNext, PTL DEF Spec

\* As long as no command failed, what the transmit path writes into a BD
\* (txrx.c:177, 193) is what the firmware was told: the BSS of this connection,
\* its station entry, with a key exactly if the frame is to be encrypted, the
\* group key of this BSS, and the multicast list asked for last.
THEOREM FramesFitThePeer ==
  ASSUME Room
  PROVE  Spec => []PeerAsConfigured
<1>1. ConnInv => PeerAsConfigured
  <2> SUFFICES ASSUME ConnInv, mac.phase = "assoc", Idle("mac"), Fine
               PROVE  /\ fw.bss[vif.bss_index] = mac.conns
                      /\ sta.bss_sta_index = fw.of[vif.bss_index]
                      /\ fw.sta[sta.bss_sta_index] = "bss" /\ fw.sta[sta.sta_index] = "peer"
                      /\ sta.is_data_encrypted <=> sta.bss_sta_index \in fw.stakey
                      /\ mac.group <=> vif.bss_index \in fw.bsskey
                      /\ Idle("work") =>
                           fw.mc[vif.bss_index] \in {0, mac.filter} \/ "outlived" \in history
    BY DEF PeerAsConfigured, Fine
  <2>1. TypeOK /\ Linked /\ Held
    BY DEF ConnInv, Inv
  <2>2. MacList = <<>> /\ \A c : ~At("mac", c)
    BY DEF Idle, MacList, At
  <2>3. <<>> \notin AssocLists \cup KeyLists
    BY Apart DEF AssocRest, Resting
  <2>4. Up /\ PeerIn /\ Named /\ Grouped /\ (Keyed <=> mac.pairwise)
    BY <2>2, <2>3 DEF Up, PeerIn, Named, Grouped, Keyed
  <2>5. vif.bss_index = 0 /\ fw.bss[0] = mac.conns
    BY <2>1, <2>4 DEF Held, BssIs
  <2>6. sta.bss_sta_index = fw.of[0] /\ fw.sta[fw.of[0]] = "bss"
    BY <2>1, <2>4 DEF Held, PeerIs, EntryIs
  <2>7. fw.sta[sta.sta_index] = "peer"
    BY <2>1, <2>4, Types DEF Held, PeerIs, StaType
  <2>8. sta.is_data_encrypted <=> sta.bss_sta_index \in fw.stakey
    BY <2>1, <2>4 DEF Held, KeyIs, Linked
  <2>9. mac.group <=> 0 \in fw.bsskey
    BY <2>1, <2>4 DEF Held, GroupIs
  <2>10. Idle("work") => fw.mc[0] \in {0, mac.filter} \/ "outlived" \in history
    <3>1. Idle("work") => FilterSet
      BY DEF Idle, FilterSet, At
    <3> QED
      BY <2>1, <3>1 DEF Held, FilterIs
  <2> QED
    BY <2>5, <2>6, <2>7, <2>8, <2>9, <2>10
<1> QED
  BY <1>1, ConnAlways, PTL

\* As long as no command failed, delete_sta (smd.c:811) names the entry that
\* the answer of config_sta gave, and the firmware still has the peer there.
THEOREM PeerIsDeleted ==
  ASSUME Room
  PROVE  Spec => []DeletesThePeer
<1>1. ConnInv => DeletesThePeer
  <2> SUFFICES ASSUME ConnInv, At("mac", "delete_sta"), mac.assoc, Fine
               PROVE  fw.sta[sta.sta_index] = "peer"
    BY DEF DeletesThePeer, Fine
  <2>1. TypeOK /\ Places /\ Linked /\ Held
    BY DEF ConnInv, Inv
  <2>2. mac.phase \in {"assoc", "bye"} /\ MacList \in PhaseLists(mac.phase)
        /\ MacList # <<>> /\ Head(MacList) = "delete_sta"
    BY <2>1 DEF Linked, Places, At, MacList
  <2>3. mac.phase = "bye"
    BY <2>2, AssocAt
  <2> QED
    BY <2>1, <2>3, Types DEF PeerIn, Held, PeerIs, StaType
<1> QED
  BY <1>1, ConnAlways, PTL
=============================================================================
