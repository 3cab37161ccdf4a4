---------------------------- MODULE AccessPoint ----------------------------
(***************************************************************************)
(* An interface that beacons, as an access point or a mesh point: the      *)
(* callbacks of main.c it goes through, the commands they issue (smd.c),   *)
(* and what a frame's buffer descriptor says meanwhile (txrx.c).           *)
(*                                                                         *)
(* As in module Station a callback is its assignments up to the first      *)
(* command and the steps still to do; commands are exchanges under         *)
(* hal_mutex (module Smd) and their results are ignored.  mac80211 calls   *)
(* under its own locks, one callback after the other, while frames are     *)
(* sent at any time to the peers it has handed to the driver.              *)
(*                                                                         *)
(* Every change of the beacon configures the BSS anew, with action "add".  *)
(* The firmware is taken to know a BSS by its BSSID, here the interface's  *)
(* address, and to answer with the entry it has.                           *)
(***************************************************************************)
EXTENDS Naturals, Sequences, FiniteSets

CONSTANTS
  Peers,         \* stations that associate
  Beacons,       \* beacons of mac80211: [pvm |-> length of the TIM's partial
                 \* virtual bitmap, tail |-> bytes that follow the TIM]
  Masks,         \* rates a peer may support: supp_rates, bit 0 the slowest
  Dsss, Ofdm,    \* numbers of DSSS and OFDM rates, 4 and 8
  PvmSize,       \* TIM_MIN_PVM_SIZE, 6
  TemplateSize,  \* BEACON_TEMPLATE_SIZE, 0x17C
  StaNum,        \* station entries in the firmware
  MaxFaults      \* bound: commands that fail, buffers that cannot be had

ASSUME ApAssumption ==
  /\ {Dsss, Ofdm, PvmSize, TemplateSize, MaxFaults} \subseteq Nat
  /\ StaNum \in Nat \ {0} /\ Masks \subseteq Nat
  /\ Beacons # {} /\ \A b \in Beacons : b.pvm \in Nat /\ b.tail \in Seq(Nat)
  /\ Peers \cap {"free", "self", "bss"} = {}

BssIdx  == {0}          \* the one BSS the firmware can be made to have
StaIdx  == 0..(StaNum - 1)
Invalid == 1            \* WCN36XX_HAL_BSS_INVALID_IDX

VARIABLES
  vif,      \* struct wcn36xx_vif, and the interface's type
  sta,      \* struct wcn36xx_sta of each peer
  todo,     \* what the callback under way has still to do
  mac,      \* mac80211: phase, band, beacon, peers handed over, keys
  fw,       \* the firmware
  history,  \* "lost", "refused", "kept" (a removal refused), "nobss" (the
            \* BSS was not configured), "nobeacon" (no buffer for the beacon)
  faults

vars == <<vif, sta, todo, mac, fw, history, faults>>

Types   == {"AP", "MESH"}
NoVif   == [type |-> "AP", bss_index |-> 0, self_sta_index |-> 0, encrypted |-> FALSE]
NoRates == [dsss |-> {}, ofdm |-> {}]
NoSta   == [aid |-> FALSE, sta_index |-> 0, is_data_encrypted |-> FALSE,
            mask |-> 0, rates |-> NoRates]
NoBeacon == <<>>

Init ==
  /\ vif = NoVif
  /\ sta = [p \in Peers |-> NoSta]
  /\ todo = <<>>
  /\ mac = [phase |-> "none", band |-> 2, beacon |-> CHOOSE b \in Beacons : TRUE,
            peers |-> {}, keys |-> {}, group |-> FALSE]
  /\ fw = [bss |-> FALSE, of |-> 0, sta |-> [i \in StaIdx |-> "free"],
           rates |-> [i \in StaIdx |-> NoRates], stakey |-> {}, bsskey |-> FALSE,
           beacon |-> NoBeacon, link |-> "idle"]
  /\ history = {} /\ faults = 0

-----------------------------------------------------------------------------
(* Rates.                                                                  *)

\* The loops of wcn36xx_update_allowed_rates drop a bit only when it is set.
Shift(mask) == IF mask % 2 = 1 THEN mask \div 2 ELSE mask

\* Mutant: the loop runs over the end of the table.
TableTooFar(mask, n) ==
  LET m[i \in 0..n] == IF i = 0 THEN mask ELSE Shift(m[i - 1])
  IN [found |-> {i \in 0..n : m[i] % 2 = 1}, rest |-> m[n]]

\* The rates of a table of n found in mask, and what is left of it.
Table(mask, n) ==
  LET m[i \in 0..n] == IF i = 0 THEN mask ELSE Shift(m[i - 1])
  IN [found |-> {i \in 0..(n - 1) : m[i] % 2 = 1}, rest |-> m[n]]

\* In the 2 GHz band; in the 5 GHz band there is no DSSS table.
update_allowed_rates(mask, band) ==
  LET d == IF band = 2 THEN Table(mask, Dsss) ELSE [found |-> {}, rest |-> mask]
  IN [dsss |-> d.found, ofdm |-> Table(d.rest, Ofdm).found]

\* Without a station: all of them.
set_default_rates == [dsss |-> 0..(Dsss - 1), ofdm |-> 0..(Ofdm - 1)]

-----------------------------------------------------------------------------
(* The beacon template.  Bytes are numbered from 0.                        *)

Zeros(n) == [i \in 1..n |-> 0]
Head3 == <<80, 81, 82>>        \* what precedes the TIM
TimId == 5
TimFixed == <<91, 92, 93>>     \* DTIM count, DTIM period, bitmap control
Pvm(n) == [i \in 1..n |-> 100 + i]

\* What mac80211 hands over, and where its TIM begins.  In a mesh the TIM is
\* not looked for.
Data(b)  == Head3 \o <<TimId, 3 + b.pvm>> \o TimFixed \o Pvm(b.pvm) \o b.tail
TimOff(type) == IF type = "MESH" THEN 0 ELSE Len(Head3)

At0(s, i)    == s[i + 1]
Put(s, i, v) == [s EXCEPT ![i + 1] = v]

\* memmove of n bytes within s.
Move(s, dst, src, n) ==
  [k \in DOMAIN s |-> IF k - 1 \in dst..(dst + n - 1) THEN s[k - dst + src] ELSE s[k]]
Fill(s, dst, n) == [k \in DOMAIN s |-> IF k - 1 \in dst..(dst + n - 1) THEN 0 ELSE s[k]]

\* Mutant: what follows the TIM is padded over.
PadInPlace(msg, end, len, pad, off) ==
  Put(Fill(msg, end, pad), off + 1, At0(msg, off + 1) + pad)

\* end is where the bitmap ends.
PadTim(msg, end, len, pad, off) ==
  Put(Fill(Move(msg, end + pad, end, len - end), end, pad),
      off + 1, At0(msg, off + 1) + pad)

Fits(len, beacon_length) == beacon_length <= TemplateSize

\* memcpy of data into the message, which has room for TemplateSize bytes and is
\* zeroed before (INIT_HAL_MSG).  What is longer runs over the fields behind it,
\* which are no part of the template.
Copied(data) ==
  [i \in 1..TemplateSize |-> IF i <= Len(data) THEN data[i] ELSE 0]

\* The template wcn36xx_smd_send_beacon builds, NoBeacon if it does not fit.  A
\* bitmap longer than the firmware's makes pad negative, and the template
\* shorter than the beacon.
Template(data, off, mesh) ==
  LET pvm == At0(data, off + 1) - 3
      len == Len(data)
      beacon_length == IF mesh THEN len ELSE len + PvmSize - pvm
      msg == Copied(data)
  IN IF ~Fits(len, beacon_length) THEN NoBeacon
     ELSE SubSeq(IF ~mesh /\ PvmSize > pvm
                 THEN PadTim(msg, off + 5 + pvm, len, PvmSize - pvm, off)
                 ELSE msg, 1, beacon_length)

-----------------------------------------------------------------------------
(* Commands.                                                               *)

Idle  == todo = <<>>
At(c) == todo # <<>> /\ Head(todo)[1] = c
Of    == Head(todo)[2]                       \* the peer a step is about
Do(c) == <<c, "">>
For(c, p) == <<c, p>>

Removals == {"delete_sta_self", "delete_sta", "delete_bss", "remove_stakey",
             "remove_bsskey"}

\* As in module Station; what the response says reaches the driver only if the
\* outcome is "ok".
Command(c, known, effect, answered) ==
  /\ At(c)
  /\ \E o \in (IF known THEN {"ok"} ELSE {"unknown"})
                \cup (IF faults = MaxFaults THEN {}
                      ELSE IF known THEN {"refused", "lost"} ELSE {"refused"}) :
       /\ fw' = IF o \in {"ok", "lost"} THEN effect ELSE fw
       /\ IF o = "ok" THEN answered ELSE UNCHANGED <<vif, sta>>
       /\ faults' = faults + (IF o \in {"refused", "lost"} THEN 1 ELSE 0)
       /\ history' = history
            \cup (IF o \in {"refused", "lost"} THEN {o} ELSE {})
            \cup (IF o = "refused" /\ c \in Removals THEN {"kept"} ELSE {})
            \cup (IF c = "config_bss" /\ o # "ok" THEN {"nobss"} ELSE {})
  /\ todo' = Tail(todo)
  /\ UNCHANGED mac

Silent   == UNCHANGED <<vif, sta>>
FreeSta  == {i \in StaIdx : fw.sta[i] = "free"}
FirstFree == IF FreeSta = {} THEN 0
             ELSE CHOOSE i \in FreeSta : \A j \in FreeSta : i <= j

AddStaSelf ==
  Command("add_sta_self", FreeSta # {}, [fw EXCEPT !.sta[FirstFree] = "self"],
          vif' = [vif EXCEPT !.self_sta_index = FirstFree] /\ UNCHANGED sta)

DeleteStaSelf ==
  Command("delete_sta_self", \E i \in StaIdx : fw.sta[i] = "self",
          [fw EXCEPT !.sta = [i \in StaIdx |-> IF @[i] = "self" THEN "free" ELSE @[i]]],
          Silent)

\* The station part has no station: default rates.
ConfigBss ==
  Command("config_bss", fw.bss \/ FreeSta # {},
          IF fw.bss THEN fw
          ELSE [fw EXCEPT !.bss = TRUE, !.of = FirstFree, !.sta[FirstFree] = "bss",
                          !.rates[FirstFree] = set_default_rates],
          vif' = [vif EXCEPT !.bss_index = 0] /\ UNCHANGED sta)

HasBss == vif.bss_index \in BssIdx /\ fw.bss

DeleteBss ==
  Command("delete_bss", HasBss,
          [fw EXCEPT !.bss = FALSE, !.sta[fw.of] = "free",
                     !.rates[fw.of] = NoRates, !.bsskey = FALSE,
                     !.beacon = NoBeacon],
          Silent)

SendBeacon ==
  LET t == Template(Data(mac.beacon), TimOff(vif.type), vif.type = "MESH") IN
  Command("send_beacon", fw.bss /\ t # NoBeacon, [fw EXCEPT !.beacon = t], Silent)

\* update_proberesp_tmpl: the answer to probes leaves nothing that matters here.
UpdateProbeResp == Command("update_proberesp_tmpl", TRUE, fw, Silent)

SetLinkSt ==
  \/ Command("link_on", TRUE,
             [fw EXCEPT !.link = IF vif.type = "MESH" THEN "ibss" ELSE "ap"], Silent)
  \/ Command("link_idle", TRUE, [fw EXCEPT !.link = "idle"], Silent)

ConfigSta ==
  LET i == FirstFree IN
  Command("config_sta", HasBss /\ FreeSta # {},
          [fw EXCEPT !.sta[i] = Of, !.rates[i] = sta[Of].rates],
          sta' = [sta EXCEPT ![Of].sta_index = i] /\ UNCHANGED vif)

DeleteSta ==
  LET i == sta[Of].sta_index IN
  Command("delete_sta", fw.sta[i] # "free",
          [fw EXCEPT !.sta[i] = "free", !.rates[i] = NoRates, !.stakey = @ \ {i}], Silent)

\* Mutant: the index of the entry that belongs to the BSS.
SetStaKeyOfBss ==
  Command("set_stakey", fw.sta[fw.of] # "free",
          [fw EXCEPT !.stakey = @ \cup {fw.of}], Silent)

\* get_sta_index: the peer's own entry, for every type but a station.
SetStaKey ==
  LET i == sta[Of].sta_index IN
  Command("set_stakey", fw.sta[i] # "free", [fw EXCEPT !.stakey = @ \cup {i}], Silent)

RemoveStaKey ==
  LET i == sta[Of].sta_index IN
  Command("remove_stakey", i \in fw.stakey, [fw EXCEPT !.stakey = @ \ {i}], Silent)

BssKey ==
  \/ Command("set_bsskey", fw.bss, [fw EXCEPT !.bsskey = TRUE], Silent)
  \/ Command("remove_bsskey", fw.bsskey, [fw EXCEPT !.bsskey = FALSE], Silent)

\* ieee80211_proberesp_get or ieee80211_beacon_get_tim fails: the rest of the
\* callback is left out.
NoSkb ==
  /\ (At("proberesp_get") \/ At("beacon_get"))
  /\ faults < MaxFaults /\ faults' = faults + 1
  /\ todo' = <<>>
  /\ history' = history \cup {IF At("beacon_get") THEN "nobeacon" ELSE "nobss"}
  /\ UNCHANGED <<vif, sta, mac, fw>>

Assign ==
  /\ \/ (At("proberesp_get") \/ At("beacon_get")) /\ Silent
     \/ At("bss_invalid") /\ vif' = [vif EXCEPT !.bss_index = Invalid] /\ UNCHANGED sta
     \/ At("gone") /\ sta' = [sta EXCEPT ![Of] = NoSta] /\ UNCHANGED vif
  /\ todo' = Tail(todo)
  /\ UNCHANGED <<mac, fw, history, faults>>

-----------------------------------------------------------------------------
(* The callbacks.                                                          *)

Call(from) == Idle /\ mac.phase \in from

add_interface ==
  /\ Call({"none"})
  /\ \E t \in Types : vif' = [NoVif EXCEPT !.type = t]
  /\ mac' = [mac EXCEPT !.phase = "idle"]
  /\ todo' = <<Do("add_sta_self")>>
  /\ UNCHANGED <<sta, fw, history, faults>>

remove_interface ==
  /\ Call({"idle"})
  /\ mac' = [mac EXCEPT !.phase = "none"]
  /\ todo' = <<Do("delete_sta_self")>>
  /\ UNCHANGED <<vif, sta, fw, history, faults>>

\* BSS_CHANGED_BEACON or BSS_CHANGED_BEACON_ENABLED, with a probe response for
\* the firmware to send or without.
ConfigureBeacon(probe) ==
  todo' = (IF probe THEN <<Do("proberesp_get"), Do("update_proberesp_tmpl")>> ELSE <<>>)
            \o <<Do("bss_invalid"), Do("config_bss"), Do("beacon_get"),
                 Do("send_beacon"), Do("link_on")>>

BeaconOn ==
  /\ Call({"idle"})
  /\ \E b \in Beacons, band \in {2, 5} :
       mac' = [mac EXCEPT !.phase = "on", !.band = band, !.beacon = b]
  /\ \E probe \in BOOLEAN : ConfigureBeacon(probe)
  /\ UNCHANGED <<vif, sta, fw, history, faults>>

BeaconChange ==
  /\ Call({"on"})
  /\ \E b \in Beacons \ {mac.beacon} : mac' = [mac EXCEPT !.beacon = b]
  /\ ConfigureBeacon(FALSE)
  /\ UNCHANGED <<vif, sta, fw, history, faults>>

BeaconOffFirst ==            \* mutant: delete_bss is left to the interface
  /\ Call({"on"}) /\ mac.peers = {} /\ ~mac.group
  /\ mac' = [mac EXCEPT !.phase = "idle"]
  /\ todo' = <<Do("link_idle")>>
  /\ UNCHANGED <<vif, sta, fw, history, faults>>

\* The peers are gone by then, and the keys.
BeaconOff ==
  /\ Call({"on"}) /\ mac.peers = {} /\ ~mac.group
  /\ mac' = [mac EXCEPT !.phase = "idle"]
  /\ todo' = <<Do("link_idle"), Do("delete_bss")>>
  /\ UNCHANGED <<vif, sta, fw, history, faults>>

\* Frames are sent to a peer once this has returned.
sta_add(p) ==
  /\ Call({"on"}) /\ p \notin mac.peers
  /\ \E mask \in Masks :
       sta' = [sta EXCEPT ![p].aid = TRUE, ![p].mask = mask,
                          ![p].rates = update_allowed_rates(mask, mac.band)]
  /\ mac' = [mac EXCEPT !.peers = @ \cup {p}]
  /\ todo' = <<For("config_sta", p)>>
  /\ UNCHANGED <<vif, fw, history, faults>>

\* And no more before this is called.
sta_remove(p) ==
  /\ Call({"on"}) /\ p \in mac.peers \ mac.keys
  /\ mac' = [mac EXCEPT !.peers = @ \ {p}]
  /\ todo' = <<For("delete_sta", p), For("gone", p)>>
  /\ UNCHANGED <<vif, sta, fw, history, faults>>

SetPairwiseKey(p) ==
  /\ Call({"on"}) /\ p \in mac.peers \ mac.keys
  /\ mac' = [mac EXCEPT !.keys = @ \cup {p}]
  /\ vif' = [vif EXCEPT !.encrypted = TRUE]
  /\ sta' = [sta EXCEPT ![p].is_data_encrypted = TRUE]
  /\ todo' = <<For("set_stakey", p)>>
  /\ UNCHANGED <<fw, history, faults>>

DisablePairwiseKey(p) ==
  /\ Call({"on"}) /\ p \in mac.keys
  /\ mac' = [mac EXCEPT !.keys = @ \ {p}]
  /\ sta' = [sta EXCEPT ![p].is_data_encrypted = FALSE]
  /\ todo' = IF sta[p].aid THEN <<For("remove_stakey", p)>> ELSE <<>>
  /\ UNCHANGED <<vif, fw, history, faults>>

GroupKey ==
  /\ Call({"on"})
  /\ mac' = [mac EXCEPT !.group = ~@]
  /\ vif' = [vif EXCEPT !.encrypted = ~mac.group]
  /\ todo' = <<Do(IF mac.group THEN "remove_bsskey" ELSE "set_bsskey")>>
  /\ UNCHANGED <<sta, fw, history, faults>>

-----------------------------------------------------------------------------
(* A frame's buffer descriptor.                                            *)

Uploaded(p) == p \in mac.peers /\ ~At("config_sta")

\* wcn36xx_set_tx_data: to a peer, or to nobody in particular (a group frame,
\* a management frame: wcn36xx_set_tx_mgmt).
TxIndex(p)     == sta[p].sta_index
TxIndexOfVif   == vif.self_sta_index
TxNoEncrypt(p) == ~sta[p].is_data_encrypted

-----------------------------------------------------------------------------
Smd ==
  \/ AddStaSelf \/ DeleteStaSelf \/ ConfigBss \/ DeleteBss \/ SendBeacon
  \/ UpdateProbeResp \/ SetLinkSt \/ ConfigSta \/ DeleteSta \/ SetStaKey
  \/ RemoveStaKey \/ BssKey \/ NoSkb \/ Assign

MacCall ==
  \/ add_interface \/ remove_interface \/ BeaconOn \/ BeaconChange \/ BeaconOff
  \/ GroupKey
  \/ \E p \in Peers : \/ sta_add(p) \/ sta_remove(p)
                      \/ SetPairwiseKey(p) \/ DisablePairwiseKey(p)

Next == Smd \/ MacCall

Spec == Init /\ [][Next]_vars

-----------------------------------------------------------------------------
(* Properties.                                                             *)

Rates == [dsss : SUBSET (0..(Dsss - 1)), ofdm : SUBSET (0..(Ofdm - 1))]

\* The steps that are about no peer, and those that are.
Steps == {"add_sta_self", "delete_sta_self", "proberesp_get", "update_proberesp_tmpl",
          "bss_invalid", "config_bss", "beacon_get", "send_beacon", "link_on",
          "link_idle", "delete_bss", "set_bsskey", "remove_bsskey"}
PeerSteps == {"config_sta", "delete_sta", "gone", "set_stakey", "remove_stakey"}

\* Every variable keeps its type, a step about a peer names one; a template the
\* firmware has is no longer than the message has room for.
TypeOK ==
  /\ vif \in [type : Types, bss_index : BssIdx \cup {Invalid},
              self_sta_index : StaIdx, encrypted : BOOLEAN]
  /\ sta \in [Peers -> [aid : BOOLEAN, sta_index : StaIdx,
                        is_data_encrypted : BOOLEAN, mask : Masks \cup {0},
                        rates : Rates]]
  /\ todo \in Seq((Steps \X {""}) \cup (PeerSteps \X Peers))
  /\ mac \in [phase : {"none", "idle", "on"}, band : {2, 5}, beacon : Beacons,
              peers : SUBSET Peers, keys : SUBSET Peers, group : BOOLEAN]
  /\ fw \in [bss : BOOLEAN, of : StaIdx,
             sta : [StaIdx -> {"free", "self", "bss"} \cup Peers],
             rates : [StaIdx -> Rates], stakey : SUBSET StaIdx, bsskey : BOOLEAN,
             beacon : Seq(Nat), link : {"idle", "ap", "ibss"}]
  /\ Len(fw.beacon) <= TemplateSize
  /\ history \subseteq {"lost", "refused", "kept", "nobss", "nobeacon"}
  /\ faults \in 0..MaxFaults

\* When the interface no longer beacons, the firmware has nothing left of its
\* peers and its BSS, whatever was refused meanwhile, with these exceptions: a
\* response lost and with it an index, a removal refused, and a configuration
\* of the BSS that failed.  The last concerns also a BSS that exists: each
\* change of the beacon forgets its index first (main.c:762).
ApNothingLeft ==
  (mac.phase \in {"none", "idle"} /\ Idle /\ history \cap {"lost", "kept", "nobss"} = {})
    => /\ ~fw.bss /\ ~fw.bsskey
       /\ \A i \in StaIdx : fw.sta[i] \in {"free", "self"}

\* Bit i of a mask.
Bit(mask, i) ==
  LET h[k \in 0..i] == IF k = 0 THEN mask ELSE h[k - 1] \div 2
  IN h[i] % 2 = 1

\* The rates a peer supports, and a mask in which every rate up to the fastest
\* is set: one with a gap loses the rates above it (main.c:579).
Supported(mask, band) ==
  LET low == IF band = 2 THEN Dsss ELSE 0 IN
  [dsss |-> {i \in 0..(low - 1) : Bit(mask, i)},
   ofdm |-> {i \in 0..(Ofdm - 1) : Bit(mask, low + i)}]
NoGap(mask) == \A i \in 1..(Dsss + Ofdm) : Bit(mask, i) => Bit(mask, i - 1)

\* At every moment between the hand-over of a peer and its removal, also while
\* the BSS is being configured anew, a frame to it names the firmware's entry
\* for it, that entry has the rates the peer supports, and the descriptor says
\* whether it has a key (except while the key is on its way); a group frame
\* names the entry of the interface itself.
FrameNamesPeer ==
  history \cap {"lost", "refused", "nobss"} = {} =>
    /\ \A p \in Peers : Uploaded(p) =>
         /\ fw.sta[TxIndex(p)] = p
         /\ NoGap(sta[p].mask) => fw.rates[TxIndex(p)] = Supported(sta[p].mask, mac.band)
         /\ ~At("set_stakey") /\ ~At("remove_stakey") =>
              (TxNoEncrypt(p) <=> TxIndex(p) \notin fw.stakey)
    /\ mac.phase = "on" => fw.sta[TxIndexOfVif] = "self"

\* The template as the comment in wcn36xx_smd_send_beacon wants it: TIM with a
\* bitmap of the firmware's fixed size, and after it what followed it before.
WantedTemplate(b) ==
  Head3 \o <<TimId, 3 + PvmSize>> \o TimFixed \o Pvm(b.pvm)
    \o Zeros(PvmSize - b.pvm) \o b.tail

\* While the interface beacons, the firmware has the template of mac80211's
\* latest beacon, complete and with a TIM the firmware can fill in (smd.c:1416),
\* unless a step failed, or the bitmap is longer than that already, or the
\* template, which in a mesh is the beacon as it is, too long.
BeaconWhole ==
  (mac.phase = "on" /\ Idle
    /\ history \cap {"lost", "refused", "nobss", "nobeacon"} = {}) =>
    \/ fw.beacon = IF vif.type = "MESH" THEN Data(mac.beacon)
                   ELSE WantedTemplate(mac.beacon)
    \/ vif.type = "AP" /\ mac.beacon.pvm > PvmSize
    \/ IF vif.type = "MESH" THEN Len(Data(mac.beacon)) > TemplateSize
       ELSE Len(Data(mac.beacon)) + PvmSize > TemplateSize + mac.beacon.pvm
=============================================================================
