------------------------- MODULE AccessPointProofs -------------------------
(***************************************************************************)
(* Proofs about AccessPoint, for any peers, beacons, rate masks, sizes and *)
(* numbers of faults.                                                      *)
(*                                                                         *)
(* Core is what holds whatever fails: the types, which lists of steps a    *)
(* callback goes through and at which moment each comes (Place), and what  *)
(* the driver knows of its peers (Known).  On top of it, unless something  *)
(* failed: Left, what the firmware still has; Made and Sent, its BSS and   *)
(* its template; Named, whose its entries are, their rates and their keys. *)
(* Of the operators the proofs need what they compute: PadTim and Template *)
(* byte by byte, and the loops of update_allowed_rates bit by bit, which   *)
(* are functions defined by recursion and are here compared at the least   *)
(* argument at which they differ (LeastIn, Agree).                         *)
(***************************************************************************)
EXTENDS AccessPoint, WellFoundedInduction, FiniteSetTheorems, SequenceTheorems, TLAPS

VifType == [type : Types, bss_index : BssIdx \cup {Invalid},
            self_sta_index : StaIdx, encrypted : BOOLEAN]
PeerType == [aid : BOOLEAN, sta_index : StaIdx, is_data_encrypted : BOOLEAN,
             mask : Masks \cup {0}, rates : Rates]
StepType == (Steps \X {""}) \cup (PeerSteps \X Peers)
MacType == [phase : {"none", "idle", "on"}, band : {2, 5}, beacon : Beacons,
            peers : SUBSET Peers, keys : SUBSET Peers, group : BOOLEAN]
FwType == [bss : BOOLEAN, of : StaIdx,
           sta : [StaIdx -> {"free", "self", "bss"} \cup Peers],
           rates : [StaIdx -> Rates], stakey : SUBSET StaIdx, bsskey : BOOLEAN,
           beacon : Seq(Nat), link : {"idle", "ap", "ibss"}]
Marks == {"lost", "refused", "kept", "nobss", "nobeacon"}

-----------------------------------------------------------------------------
(* Types.                                                                  *)

LEMMA Typed ==
  TypeOK <=> /\ vif \in VifType /\ sta \in [Peers -> PeerType] /\ todo \in Seq(StepType)
             /\ mac \in MacType /\ fw \in FwType /\ Len(fw.beacon) <= TemplateSize
             /\ history \subseteq Marks /\ faults \in 0..MaxFaults
BY DEF TypeOK, VifType, PeerType, StepType, MacType, FwType, Marks

LEMMA Typed1 ==
  TypeOK' <=> /\ vif' \in VifType /\ sta' \in [Peers -> PeerType] /\ todo' \in Seq(StepType)
              /\ mac' \in MacType /\ fw' \in FwType /\ Len(fw'.beacon) <= TemplateSize
              /\ history' \subseteq Marks /\ faults' \in 0..MaxFaults
BY DEF TypeOK, VifType, PeerType, StepType, MacType, FwType, Marks

LEMMA FwFields ==
  ASSUME TypeOK
  PROVE  /\ fw.bss \in BOOLEAN /\ fw.of \in StaIdx /\ fw.bsskey \in BOOLEAN
         /\ fw.sta \in [StaIdx -> {"free", "self", "bss"} \cup Peers]
         /\ fw.rates \in [StaIdx -> Rates] /\ fw.stakey \subseteq StaIdx
         /\ fw.beacon \in Seq(Nat) /\ fw.link \in {"idle", "ap", "ibss"}
BY Typed DEF FwType

LEMMA Constants ==
  /\ NoRates \in Rates /\ set_default_rates \in Rates /\ 0 \in StaIdx
  /\ NoSta \in PeerType /\ NoVif \in VifType
  /\ \A mask, band : update_allowed_rates(mask, band) \in Rates
<1>1. NoRates \in Rates /\ set_default_rates \in Rates /\ 0 \in StaIdx
  BY ApAssumption DEF NoRates, Rates, set_default_rates, StaIdx
<1>2. NoSta \in PeerType /\ NoVif \in VifType
  BY <1>1 DEF NoSta, PeerType, NoVif, VifType, Types, BssIdx
<1>3. ASSUME NEW mask, NEW n PROVE Table(mask, n).found \subseteq 0..(n - 1)
  BY DEF Table
<1>4. ASSUME NEW mask, NEW band PROVE update_allowed_rates(mask, band) \in Rates
  <2>1. (IF band = 2 THEN Table(mask, Dsss) ELSE [found |-> {}, rest |-> mask]).found
          \subseteq 0..(Dsss - 1)
    BY <1>3
  <2> QED
    BY <1>3, <2>1 DEF update_allowed_rates, Rates
<1> QED
  BY <1>1, <1>2, <1>4

LEMMA InitTyped == Init => TypeOK
<1> SUFFICES ASSUME Init PROVE TypeOK
  OBVIOUS
<1>1. vif \in VifType /\ sta \in [Peers -> PeerType]
  BY Constants DEF Init
<1>2. mac \in MacType
  BY ApAssumption DEF Init, MacType
<1>3. /\ fw \in FwType /\ fw.beacon = <<>>
      /\ todo = <<>> /\ history = {} /\ faults = 0
  BY Constants DEF Init, FwType, NoBeacon
<1> QED
  BY <1>1, <1>2, <1>3, ApAssumption, Typed

\* A set of numbers has a least one.
LEMMA LeastIn ==
  ASSUME NEW S \in SUBSET Nat, S # {}
  PROVE  \E x \in S : \A y \in S : x <= y
<1> DEFINE Less == {p \in Nat \X Nat : p[1] < p[2]}
<1>1. IsWellFoundedOn(Less, Nat)
  BY NatLessThanWellFounded DEF OpToRel
<1>2. PICK x \in S : \A y \in S : ~(<<y, x>> \in Less)
  <2> HIDE DEF Less
  <2> QED
    BY <1>1, WFMin
<1>3. ASSUME NEW y \in S PROVE x <= y
  <2>1. <<y, x>> \in Less <=> y \in Nat /\ x \in Nat /\ y < x
    OBVIOUS
  <2> QED
    BY <1>2, <2>1
<1> QED
  BY <1>3

LEMMA FirstFreeIn ==
  ASSUME TypeOK
  PROVE  /\ FreeSta # {} => FirstFree \in FreeSta
         /\ FirstFree \in StaIdx
<1>1. StaIdx \subseteq Nat /\ 0 \in StaIdx /\ FreeSta \subseteq StaIdx
  BY ApAssumption DEF StaIdx, FreeSta
<1>3. FreeSta # {} => \E x \in FreeSta : \A y \in FreeSta : x <= y
  BY <1>1, LeastIn
<1> QED
  BY <1>1, <1>3 DEF FirstFree

-----------------------------------------------------------------------------
(* What a command does apart from what of its response the driver keeps.   *)

Outcomes(known) ==
  (IF known THEN {"ok"} ELSE {"unknown"})
    \cup (IF faults = MaxFaults THEN {}
          ELSE IF known THEN {"refused", "lost"} ELSE {"refused"})
Ask(o, c, known, effect) ==
  /\ At(c) /\ o \in Outcomes(known)
  /\ fw' = IF o \in {"ok", "lost"} THEN effect ELSE fw
  /\ faults' = faults + (IF o \in {"refused", "lost"} THEN 1 ELSE 0)
  /\ history' = history
       \cup (IF o \in {"refused", "lost"} THEN {o} ELSE {})
       \cup (IF o = "refused" /\ c \in Removals THEN {"kept"} ELSE {})
       \cup (IF c = "config_bss" /\ o # "ok" THEN {"nobss"} ELSE {})
  /\ todo' = Tail(todo)
  /\ mac' = mac

\* The effects of commands.
SelfAdded == [fw EXCEPT !.sta[FirstFree] = "self"]
SelfDeleted ==
  [fw EXCEPT !.sta = [i \in StaIdx |-> IF @[i] = "self" THEN "free" ELSE @[i]]]
BssMade ==
  IF fw.bss THEN fw
  ELSE [fw EXCEPT !.bss = TRUE, !.of = FirstFree, !.sta[FirstFree] = "bss",
                  !.rates[FirstFree] = set_default_rates]
BssDeleted ==
  [fw EXCEPT !.bss = FALSE, !.sta[fw.of] = "free", !.rates[fw.of] = NoRates,
             !.bsskey = FALSE, !.beacon = NoBeacon]
StaMade(i, p) == [fw EXCEPT !.sta[i] = p, !.rates[i] = sta[p].rates]
StaDeleted(i) ==
  [fw EXCEPT !.sta[i] = "free", !.rates[i] = NoRates, !.stakey = @ \ {i}]
TemplateNow == Template(Data(mac.beacon), TimOff(vif.type), vif.type = "MESH")

LEMMA Forms ==
  /\ AddStaSelf =>
       \E o : /\ Ask(o, "add_sta_self", FreeSta # {}, SelfAdded)
              /\ IF o = "ok" THEN vif' = [vif EXCEPT !.self_sta_index = FirstFree] /\ sta' = sta
                 ELSE Silent
  /\ DeleteStaSelf =>
       \E o : Ask(o, "delete_sta_self", \E i \in StaIdx : fw.sta[i] = "self", SelfDeleted) /\ Silent
  /\ ConfigBss =>
       \E o : /\ Ask(o, "config_bss", fw.bss \/ FreeSta # {}, BssMade)
              /\ IF o = "ok" THEN vif' = [vif EXCEPT !.bss_index = 0] /\ sta' = sta
                 ELSE Silent
  /\ DeleteBss => \E o : Ask(o, "delete_bss", HasBss, BssDeleted) /\ Silent
  /\ SendBeacon => \E o : /\ Ask(o, "send_beacon", fw.bss /\ TemplateNow # NoBeacon,
                                [fw EXCEPT !.beacon = TemplateNow])
                         /\ Silent
  /\ UpdateProbeResp => \E o : Ask(o, "update_proberesp_tmpl", TRUE, fw) /\ Silent
  /\ SetLinkSt =>
       \E o, c, l : /\ c \in {"link_on", "link_idle"} /\ l \in {"idle", "ap", "ibss"}
                    /\ Ask(o, c, TRUE, [fw EXCEPT !.link = l]) /\ Silent
  /\ ConfigSta =>
       \E o : /\ Ask(o, "config_sta", HasBss /\ FreeSta # {}, StaMade(FirstFree, Of))
              /\ IF o = "ok" THEN sta' = [sta EXCEPT ![Of].sta_index = FirstFree] /\ vif' = vif
                 ELSE Silent
  /\ DeleteSta =>
       \E o : /\ Ask(o, "delete_sta", fw.sta[sta[Of].sta_index] # "free",
                     StaDeleted(sta[Of].sta_index))
              /\ Silent
  /\ SetStaKey =>
       \E o : /\ Ask(o, "set_stakey", fw.sta[sta[Of].sta_index] # "free",
                     [fw EXCEPT !.stakey = @ \cup {sta[Of].sta_index}])
              /\ Silent
  /\ RemoveStaKey =>
       \E o : /\ Ask(o, "remove_stakey", sta[Of].sta_index \in fw.stakey,
                     [fw EXCEPT !.stakey = @ \ {sta[Of].sta_index}])
              /\ Silent
  /\ BssKey =>
       \E o : /\ \/ Ask(o, "set_bsskey", fw.bss, [fw EXCEPT !.bsskey = TRUE])
                 \/ Ask(o, "remove_bsskey", fw.bsskey, [fw EXCEPT !.bsskey = FALSE])
              /\ Silent
<1>1. AddStaSelf =>
       \E o : /\ Ask(o, "add_sta_self", FreeSta # {}, SelfAdded)
              /\ IF o = "ok" THEN vif' = [vif EXCEPT !.self_sta_index = FirstFree] /\ sta' = sta
                 ELSE Silent
  BY DEF AddStaSelf, Command, Ask, Outcomes, Silent, SelfAdded
<1>2. DeleteStaSelf =>
       \E o : Ask(o, "delete_sta_self", \E i \in StaIdx : fw.sta[i] = "self", SelfDeleted) /\ Silent
  BY DEF DeleteStaSelf, Command, Ask, Outcomes, Silent, SelfDeleted
<1>3. ConfigBss =>
       \E o : /\ Ask(o, "config_bss", fw.bss \/ FreeSta # {}, BssMade)
              /\ IF o = "ok" THEN vif' = [vif EXCEPT !.bss_index = 0] /\ sta' = sta
                 ELSE Silent
  BY DEF ConfigBss, Command, Ask, Outcomes, Silent, BssMade
<1>4. DeleteBss => \E o : Ask(o, "delete_bss", HasBss, BssDeleted) /\ Silent
  BY DEF DeleteBss, Command, Ask, Outcomes, Silent, BssDeleted
<1>5. SendBeacon => \E o : /\ Ask(o, "send_beacon", fw.bss /\ TemplateNow # NoBeacon,
                                [fw EXCEPT !.beacon = TemplateNow])
                         /\ Silent
  BY DEF SendBeacon, Command, Ask, Outcomes, Silent, TemplateNow
<1>6. UpdateProbeResp => \E o : Ask(o, "update_proberesp_tmpl", TRUE, fw) /\ Silent
  BY DEF UpdateProbeResp, Command, Ask, Outcomes, Silent
<1>7. SetLinkSt =>
       \E o, c, l : /\ c \in {"link_on", "link_idle"} /\ l \in {"idle", "ap", "ibss"}
                    /\ Ask(o, c, TRUE, [fw EXCEPT !.link = l]) /\ Silent
  BY DEF SetLinkSt, Command, Ask, Outcomes, Silent
<1>8. ConfigSta =>
       \E o : /\ Ask(o, "config_sta", HasBss /\ FreeSta # {}, StaMade(FirstFree, Of))
              /\ IF o = "ok" THEN sta' = [sta EXCEPT ![Of].sta_index = FirstFree] /\ vif' = vif
                 ELSE Silent
  BY DEF ConfigSta, Command, Ask, Outcomes, Silent, StaMade
<1>9. DeleteSta =>
       \E o : /\ Ask(o, "delete_sta", fw.sta[sta[Of].sta_index] # "free",
                     StaDeleted(sta[Of].sta_index))
              /\ Silent
  BY DEF DeleteSta, Command, Ask, Outcomes, Silent, StaDeleted
<1>10. SetStaKey =>
       \E o : /\ Ask(o, "set_stakey", fw.sta[sta[Of].sta_index] # "free",
                     [fw EXCEPT !.stakey = @ \cup {sta[Of].sta_index}])
              /\ Silent
  BY DEF SetStaKey, Command, Ask, Outcomes, Silent
<1>11. RemoveStaKey =>
       \E o : /\ Ask(o, "remove_stakey", sta[Of].sta_index \in fw.stakey,
                     [fw EXCEPT !.stakey = @ \ {sta[Of].sta_index}])
              /\ Silent
  BY DEF RemoveStaKey, Command, Ask, Outcomes, Silent
<1>12. BssKey =>
       \E o : /\ \/ Ask(o, "set_bsskey", fw.bss, [fw EXCEPT !.bsskey = TRUE])
                 \/ Ask(o, "remove_bsskey", fw.bsskey, [fw EXCEPT !.bsskey = FALSE])
              /\ Silent
  BY DEF BssKey, Command, Ask, Outcomes, Silent
<1> QED
  BY <1>1, <1>2, <1>3, <1>4, <1>5, <1>6, <1>7, <1>8, <1>9, <1>10, <1>11, <1>12

LEMMA HeadOf ==
  ASSUME TypeOK, todo # <<>>
  PROVE  /\ Head(todo) \in StepType /\ Tail(todo) \in Seq(StepType)
         /\ Head(todo)[1] \in Steps \cup PeerSteps
         /\ Head(todo)[1] \in PeerSteps => Of \in Peers /\ Head(todo) = For(Head(todo)[1], Of)
         /\ Head(todo)[1] \in Steps => Head(todo) = Do(Head(todo)[1])
<1>1. Head(todo) \in StepType /\ Tail(todo) \in Seq(StepType)
  BY HeadTailProperties, Typed
<1>2. Steps \cap PeerSteps = {}
  BY DEF Steps, PeerSteps
<1>3. ASSUME NEW A, NEW B, NEW h \in A \X B
      PROVE  h[1] \in A /\ h[2] \in B /\ h = <<h[1], h[2]>>
  OBVIOUS
<1>4. ASSUME NEW h \in Steps \X {""}
      PROVE  h[1] \in Steps /\ h = <<h[1], "">>
  <2>1. h[1] \in Steps /\ h[2] \in {""} /\ h = <<h[1], h[2]>>
    BY <1>3
  <2>2. h[2] = ""
    BY <2>1
  <2> QED
    BY <2>1, <2>2
<1>5. ASSUME NEW h \in PeerSteps \X Peers
      PROVE  h[1] \in PeerSteps /\ h[2] \in Peers /\ h = <<h[1], h[2]>>
  BY <1>3
<1> QED
  BY <1>1, <1>2, <1>4, <1>5 DEF StepType, Of, For, Do

\* How a command may end, and what it leaves in history.
LEMMA Asked ==
  ASSUME TypeOK, NEW o, NEW c, NEW known, NEW effect, Ask(o, c, known, effect)
  PROVE  /\ todo # <<>> /\ Head(todo)[1] = c
         /\ faults' \in 0..MaxFaults /\ history' \subseteq Marks
         /\ todo' = Tail(todo) /\ todo' \in Seq(StepType) /\ mac' = mac
         /\ o \in {"ok", "unknown", "refused", "lost"} /\ history \subseteq history'
         /\ o \in {"ok", "lost"} => known /\ fw' = effect
         /\ o \in {"unknown", "refused"} => fw' = fw
         /\ known => o # "unknown"
         /\ o \in {"refused", "lost"} => o \in history'
         /\ o = "refused" /\ c \in Removals => "kept" \in history'
         /\ c = "config_bss" /\ o # "ok" => "nobss" \in history'
         /\ "kept" \in history' => "kept" \in history \/ "refused" \in history'
<1>1. todo # <<>> /\ Head(todo)[1] = c /\ todo' = Tail(todo) /\ mac' = mac
  BY DEF Ask, At
<1>2. faults' \in 0..MaxFaults
  BY Typed, ApAssumption DEF Ask, Outcomes
<1>3. history' \subseteq Marks
  <2>1. history \subseteq Marks
    BY Typed
  <2> QED
    BY <2>1 DEF Marks, Ask
<1>4. /\ o \in {"ok", "unknown", "refused", "lost"}
      /\ o \in {"ok", "lost"} => known /\ fw' = effect
      /\ o \in {"unknown", "refused"} => fw' = fw
      /\ known => o # "unknown"
  BY DEF Ask, Outcomes
<1>5. /\ history \subseteq history'
      /\ o \in {"refused", "lost"} => o \in history'
      /\ o = "refused" /\ c \in Removals => "kept" \in history'
      /\ c = "config_bss" /\ o # "ok" => "nobss" \in history'
      /\ "kept" \in history' => "kept" \in history \/ "refused" \in history'
  BY <1>4 DEF Ask
<1>6. todo' \in Seq(StepType)
  BY <1>1, HeadOf
<1> QED
  BY <1>1, <1>2, <1>3, <1>4, <1>5, <1>6

-----------------------------------------------------------------------------
(* The beacon template.                                                    *)

\* u is s of length m, and after it t of length n.
Joins(u, s, m, t, n) ==
  /\ u \in Seq(Nat) /\ Len(u) = m + n
  /\ \A i \in 1..(m + n) : u[i] = IF i <= m THEN s[i] ELSE t[i - m]

LEMMA JoinAt ==
  ASSUME NEW s \in Seq(Nat), NEW t \in Seq(Nat)
  PROVE  Joins(s \o t, s, Len(s), t, Len(t))
BY ConcatProperties DEF Joins

\* At 1 to q + n: r up to l, then s up to q, then t.
Split(v, r, l, s, q, t, n) ==
  \A i \in 1..(q + n) : v[i] = IF i <= l THEN r[i] ELSE IF i <= q THEN s[i - l] ELSE t[i - q]

LEMMA JoinTwice ==
  ASSUME NEW u, NEW v, NEW r, NEW s, NEW t,
         NEW l \in Nat, NEW m \in Nat, NEW n \in Nat, NEW q, q = l + m,
         Joins(u, r, l, s, m), Joins(v, u, q, t, n)
  PROVE  Split(v, r, l, s, q, t, n)
<1> SUFFICES ASSUME NEW i \in 1..(q + n)
             PROVE  v[i] = IF i <= l THEN r[i] ELSE IF i <= q THEN s[i - l] ELSE t[i - q]
  BY DEF Split
<1>1. v[i] = IF i <= q THEN u[i] ELSE t[i - q]
  BY DEF Joins
<1>2. i <= q => u[i] = IF i <= l THEN r[i] ELSE s[i - l]
  <2>1. i <= q => i \in 1..(l + m)
    OBVIOUS
  <2> QED
    BY <2>1 DEF Joins
<1> QED
  BY <1>1, <1>2

\* The bytes before the bitmap, and their number.
Front(l) == Head3 \o <<TimId, l>> \o TimFixed
Fixed == 8

LEMMA FrontAt ==
  ASSUME NEW l \in Nat
  PROVE  /\ Front(l) \in Seq(Nat) /\ Len(Front(l)) = Fixed /\ Front(l)[5] = l
         /\ \A m \in Nat, i \in 1..Fixed : i # 5 => Front(l)[i] = Front(m)[i]
<1>1. ASSUME NEW m \in Nat
      PROVE  /\ Front(m) \in Seq(Nat) /\ Len(Front(m)) = Fixed
             /\ \A i \in 1..Fixed : Front(m)[i] = <<80, 81, 82, 5, m, 91, 92, 93>>[i]
  <2> DEFINE A == <<80, 81, 82>>
             B == <<5, m>>
             C == <<91, 92, 93>>
             AB == A \o B
             ABC == AB \o C
  <2>1. PICK two \in Nat, three \in Nat : two = 2 /\ three = 3
    OBVIOUS
  <2>2. /\ A \in Seq(Nat) /\ B \in Seq(Nat) /\ C \in Seq(Nat)
        /\ Len(A) = three /\ Len(B) = two /\ Len(C) = three
    BY <2>1
  <2>3. /\ A[1] = 80 /\ A[2] = 81 /\ A[3] = 82 /\ B[1] = 5 /\ B[2] = m
        /\ C[1] = 91 /\ C[2] = 92 /\ C[3] = 93
    OBVIOUS
  <2>9. AB = A \o B /\ ABC = AB \o C
    OBVIOUS
  <2> HIDE DEF A, B, C, AB, ABC
  <2>4. Joins(AB, A, three, B, two)
    BY <2>2, <2>9, JoinAt
  <2>10. AB \in Seq(Nat) /\ Len(AB) = three + two
    BY <2>4 DEF Joins
  <2>5. Joins(ABC, AB, three + two, C, three)
    BY <2>2, <2>9, <2>10, JoinAt
  <2>6. Front(m) = ABC
    BY DEF Front, Head3, TimId, TimFixed, ABC, AB, A, B, C
  <2>7. three + two + three = Fixed
    BY <2>1 DEF Fixed
  <2>8. ASSUME NEW i \in 1..Fixed
        PROVE  Front(m)[i] = <<80, 81, 82, 5, m, 91, 92, 93>>[i]
    <3>1. i \in {1, 2, 3, 4, 5, 6, 7, 8}
      BY DEF Fixed
    <3>2. AB[1] = 80 /\ AB[2] = 81 /\ AB[3] = 82 /\ AB[4] = 5 /\ AB[5] = m
      BY <2>1, <2>3, <2>4 DEF Joins
    <3>3. Front(m)[i] = IF i <= 5 THEN AB[i] ELSE C[i - 5]
      <4>1. i \in 1..(three + two + three) /\ three + two = 5
        BY <2>1, <2>7
      <4> QED
        BY <2>5, <2>6, <4>1 DEF Joins
    <3> QED
      BY <2>3, <3>1, <3>2, <3>3
  <2> QED
    BY <2>5, <2>6, <2>7, <2>8 DEF Joins
<1>2. Front(l)[5] = l
  BY <1>1 DEF Fixed
<1>3. ASSUME NEW m \in Nat, NEW i \in 1..Fixed, i # 5
      PROVE  Front(l)[i] = Front(m)[i]
  <2>1. i \in {1, 2, 3, 4, 6, 7, 8}
    BY <1>3 DEF Fixed
  <2>2. <<80, 81, 82, 5, l, 91, 92, 93>>[i] = <<80, 81, 82, 5, m, 91, 92, 93>>[i]
    BY <2>1
  <2> QED
    BY SMTT(20), <1>1, <2>2
<1> QED
  BY <1>1, <1>2, <1>3

LEMMA Runs ==
  /\ \A n \in Nat : Zeros(n) \in Seq(Nat) /\ Len(Zeros(n)) = n /\ \A i \in 1..n : Zeros(n)[i] = 0
  /\ \A n \in Nat : Pvm(n) \in Seq(Nat) /\ Len(Pvm(n)) = n
  BY DEF Zeros, Pvm

\* What mac80211 hands over, and the template the firmware is to have.
LEMMA DataAt ==
  ASSUME NEW b \in Beacons
  PROVE  LET p == b.pvm
             n == Len(b.tail)
             d == Data(b) IN
         /\ p \in Nat /\ n \in Nat /\ b.tail \in Seq(Nat)
         /\ d \in Seq(Nat) /\ Len(d) = Fixed + p + n
         /\ \A i \in 1..(Fixed + p + n) : d[i] = IF i <= Fixed THEN Front(3 + p)[i]
                                             ELSE IF i <= Fixed + p THEN Pvm(p)[i - Fixed]
                                             ELSE b.tail[i - (Fixed + p)]
<1> DEFINE p == b.pvm
           n == Len(b.tail)
           FP == Front(3 + p) \o Pvm(p)
           d == FP \o b.tail
<1>1. p \in Nat /\ n \in Nat /\ b.tail \in Seq(Nat) /\ Fixed \in Nat /\ 3 + p \in Nat /\ Fixed + p \in Nat
  BY ApAssumption, LenProperties DEF Fixed
<1>2. Data(b) = d /\ d = FP \o b.tail /\ FP = Front(3 + p) \o Pvm(p)
  BY DEF Data, Front
<1> HIDE DEF FP, d
<1>3. Front(3 + p) \in Seq(Nat) /\ Len(Front(3 + p)) = Fixed /\ Pvm(p) \in Seq(Nat) /\ Len(Pvm(p)) = p
  BY <1>1, FrontAt, Runs
<1>4. Joins(FP, Front(3 + p), Fixed, Pvm(p), p)
  BY <1>2, <1>3, JoinAt
<1>7. FP \in Seq(Nat) /\ Len(FP) = Fixed + p
  BY <1>4 DEF Joins
<1>5. Joins(d, FP, Fixed + p, b.tail, n)
  BY <1>1, <1>2, <1>7, JoinAt
<1> HIDE DEF p, n
<1>6. \A i \in 1..(Fixed + p + n) : Data(b)[i] = IF i <= Fixed THEN Front(3 + p)[i]
                                             ELSE IF i <= Fixed + p THEN Pvm(p)[i - Fixed]
                                             ELSE b.tail[i - (Fixed + p)]
  <2> DEFINE q == Fixed + p
  <2>1. q = Fixed + p
    OBVIOUS
  <2>2. Joins(d, FP, q, b.tail, n)
    BY <1>5
  <2> HIDE DEF q
  <2>3. Split(d, Front(3 + p), Fixed, Pvm(p), q, b.tail, n)
    BY <1>1, <1>4, <2>1, <2>2, JoinTwice
  <2> QED
    BY <1>2, <2>1, <2>3 DEF Split
<1> QED
  BY <1>1, <1>2, <1>5, <1>6 DEF p, n, Joins

LEMMA WantedAt ==
  ASSUME NEW b \in Beacons, b.pvm <= PvmSize
  PROVE  LET p == b.pvm
             n == Len(b.tail)
             w == WantedTemplate(b) IN
         /\ w \in Seq(Nat) /\ Len(w) = Fixed + PvmSize + n
         /\ \A i \in 1..(Fixed + PvmSize + n) :
              w[i] = IF i <= Fixed THEN Front(3 + PvmSize)[i]
                     ELSE IF i <= Fixed + p THEN Pvm(p)[i - Fixed]
                     ELSE IF i <= Fixed + PvmSize THEN 0
                     ELSE b.tail[i - (Fixed + PvmSize)]
<1> DEFINE p == b.pvm
           n == Len(b.tail)
           z == PvmSize - p
           FP == Front(3 + PvmSize) \o Pvm(p)
           FZ == FP \o Zeros(z)
           w == FZ \o b.tail
<1>1. p \in Nat /\ n \in Nat /\ b.tail \in Seq(Nat) /\ PvmSize \in Nat /\ z \in Nat
      /\ Fixed + p + z = Fixed + PvmSize /\ Fixed \in Nat /\ 3 + PvmSize \in Nat /\ Fixed + PvmSize \in Nat /\ Fixed + p \in Nat
  BY SMTT(20), ApAssumption, LenProperties DEF Fixed
<1>2. /\ WantedTemplate(b) = w /\ w = FZ \o b.tail /\ FZ = FP \o Zeros(z)
      /\ FP = Front(3 + PvmSize) \o Pvm(p)
  BY DEF WantedTemplate, Front
<1> HIDE DEF FP, FZ, w, z, n, p
<1>3. /\ Front(3 + PvmSize) \in Seq(Nat) /\ Len(Front(3 + PvmSize)) = Fixed
      /\ Pvm(p) \in Seq(Nat) /\ Len(Pvm(p)) = p
      /\ Zeros(z) \in Seq(Nat) /\ Len(Zeros(z)) = z /\ \A i \in 1..z : Zeros(z)[i] = 0
  BY <1>1, FrontAt, Runs
<1>4. Joins(FP, Front(3 + PvmSize), Fixed, Pvm(p), p)
  BY <1>2, <1>3, JoinAt
<1>8. FP \in Seq(Nat) /\ Len(FP) = Fixed + p
  BY <1>4 DEF Joins
<1>5. Joins(FZ, FP, Fixed + p, Zeros(z), z)
  BY <1>2, <1>3, <1>8, JoinAt
<1>9. FZ \in Seq(Nat) /\ Len(FZ) = Fixed + PvmSize
  BY <1>1, <1>5 DEF Joins
<1>6. Joins(w, FZ, Fixed + PvmSize, b.tail, n)
  BY <1>1, <1>2, <1>9, JoinAt DEF n
<1>7. \A i \in 1..(Fixed + PvmSize + n) :
        WantedTemplate(b)[i] = IF i <= Fixed THEN Front(3 + PvmSize)[i]
                               ELSE IF i <= Fixed + p THEN Pvm(p)[i - Fixed]
                               ELSE IF i <= Fixed + PvmSize THEN 0
                               ELSE b.tail[i - (Fixed + PvmSize)]
  <2>1. \A i \in 1..(Fixed + PvmSize + n) :
          w[i] = IF i <= Fixed + p THEN FP[i]
                 ELSE IF i <= Fixed + PvmSize THEN Zeros(z)[i - (Fixed + p)]
                 ELSE b.tail[i - (Fixed + PvmSize)]
    <3> DEFINE f == Fixed + p
               q == Fixed + PvmSize
    <3>1. f \in Nat /\ q = f + z /\ f = Fixed + p /\ q = Fixed + PvmSize
      BY <1>1
    <3>2. Joins(FZ, FP, f, Zeros(z), z) /\ Joins(w, FZ, q, b.tail, n)
      BY <1>5, <1>6
    <3> HIDE DEF f, q
    <3>3. Split(w, FP, f, Zeros(z), q, b.tail, n)
      BY <1>1, <3>1, <3>2, JoinTwice
    <3> QED
      BY <3>1, <3>3 DEF Split
  <2>2. ASSUME NEW i \in 1..(Fixed + p)
        PROVE  FP[i] = IF i <= Fixed THEN Front(3 + PvmSize)[i] ELSE Pvm(p)[i - Fixed]
    BY <1>1, <1>4 DEF Joins
  <2> SUFFICES ASSUME NEW i \in 1..(Fixed + PvmSize + n)
               PROVE  w[i] = IF i <= Fixed THEN Front(3 + PvmSize)[i]
                             ELSE IF i <= Fixed + p THEN Pvm(p)[i - Fixed]
                             ELSE IF i <= Fixed + PvmSize THEN 0
                             ELSE b.tail[i - (Fixed + PvmSize)]
    BY <1>2
  <2>3. CASE i <= Fixed + p
    <3>1. i \in 1..(Fixed + p)
      BY <1>1, <2>3
    <3>2. w[i] = FP[i]
      BY <2>1, <2>3
    <3> QED
      BY <1>1, <2>2, <2>3, <3>1, <3>2
  <2>4. CASE i > Fixed + p /\ i <= Fixed + PvmSize
    <3>1. i - (Fixed + p) \in 1..z /\ ~(i <= Fixed + p) /\ ~(i <= Fixed)
      BY <1>1, <2>4
    <3>2. w[i] = Zeros(z)[i - (Fixed + p)]
      BY <1>1, <2>1, <2>4, <3>1
    <3> QED
      BY <1>3, <2>4, <3>1, <3>2
  <2>5. CASE i > Fixed + PvmSize
    <3>1. ~(i <= Fixed + p) /\ ~(i <= Fixed) /\ ~(i <= Fixed + PvmSize)
      BY <1>1, <2>5
    <3> QED
      BY <2>1, <3>1
  <2> QED
    BY <1>1, <2>3, <2>4, <2>5
<1> QED
  BY <1>2, <1>6, <1>7 DEF p, n, Joins

LEMMA Prefix ==
  ASSUME NEW s \in Seq(Nat), NEW n \in Nat, n <= Len(s)
  PROVE  /\ SubSeq(s, 1, n) \in Seq(Nat) /\ Len(SubSeq(s, 1, n)) = n
         /\ \A i \in 1..n : SubSeq(s, 1, n)[i] = s[i]
<1>1. \A i \in 1..n : s[i] \in Nat
  BY ElementOfSeq, LenProperties
<1>2. /\ SubSeq(s, 1, n) \in Seq(Nat)
      /\ Len(SubSeq(s, 1, n)) = IF 1 <= n THEN n - 1 + 1 ELSE 0
      /\ \A i \in 1..(n - 1 + 1) : SubSeq(s, 1, n)[i] = s[1 + i - 1]
  BY <1>1, SubSeqProperties
<1> QED
  BY <1>2

\* What PadTim does: the bytes up to e stay, but for the length of the TIM, z
\* zeros follow, and then what followed e before.
Padded(r, s, e, l, z, o) ==
  \A k \in 1..(l + z) : r[k] = IF k = o + 2 THEN s[o + 2] + z
                              ELSE IF k <= e THEN s[k]
                              ELSE IF k <= e + z THEN 0
                              ELSE s[k - z]

LEMMA PadTimAt ==
  ASSUME NEW s \in Seq(Nat), NEW e \in Nat, NEW l \in Nat, NEW z \in Nat, NEW o \in Nat,
         e <= l, l + z <= Len(s), o + 2 <= e
  PROVE  LET r == PadTim(s, e, l, z, o) IN
         r \in Seq(Nat) /\ Len(r) = Len(s) /\ Padded(r, s, e, l, z, o)
<1> DEFINE N == Len(s)
           A == Move(s, e + z, e, l - e)
           B == Fill(A, e, z)
           r == PadTim(s, e, l, z, o)
<1>1. N \in Nat /\ DOMAIN s = 1..N /\ \A k \in 1..N : s[k] \in Nat
  BY LenProperties, ElementOfSeq
<1>2. /\ A = [k \in 1..N |-> IF k - 1 \in (e + z)..(e + z + (l - e) - 1) THEN s[k - (e + z) + e]
                             ELSE s[k]]
      /\ B = [k \in DOMAIN A |-> IF k - 1 \in e..(e + z - 1) THEN 0 ELSE A[k]]
  BY <1>1 DEF Move, Fill
<1>3. r = [B EXCEPT ![o + 1 + 1] = s[o + 1 + 1] + z]
  BY DEF PadTim, Put, At0
<1> HIDE DEF A, B, r, N
<1>4. ASSUME NEW k \in 1..N
      PROVE  /\ A[k] = IF e + z < k /\ k <= l + z THEN s[k - z] ELSE s[k]
             /\ A[k] \in Nat
  <2>1. k - 1 \in (e + z)..(e + z + (l - e) - 1) <=> e + z < k /\ k <= l + z
    OBVIOUS
  <2>2. k - (e + z) + e = k - z
    OBVIOUS
  <2>3. A[k] = IF e + z < k /\ k <= l + z THEN s[k - z] ELSE s[k]
    BY <1>2, <2>1, <2>2
  <2>4. e + z < k => k - z \in 1..N
    BY <1>1
  <2> QED
    BY <1>1, <2>3, <2>4
<1>5. ASSUME NEW k \in 1..N
      PROVE  /\ B[k] = IF e < k /\ k <= e + z THEN 0 ELSE A[k]
             /\ B[k] \in Nat
  <2>1. k - 1 \in e..(e + z - 1) <=> e < k /\ k <= e + z
    OBVIOUS
  <2> QED
    BY <1>2, <1>4, <2>1
<1>6. o + 2 \in 1..N
  BY <1>1 DEF N
<1>7. /\ r = [k \in 1..N |-> IF k = o + 2 THEN s[o + 2] + z ELSE B[k]]
      /\ r \in [1..N -> Nat]
  <2>1. o + 1 + 1 = o + 2 /\ DOMAIN B = 1..N
    BY <1>2
  <2>2. r = [k \in 1..N |-> IF k = o + 2 THEN s[o + 2] + z ELSE B[k]]
    BY <1>3, <2>1
  <2>3. s[o + 2] + z \in Nat
    BY <1>1, <1>6
  <2> QED
    BY <1>5, <2>2, <2>3
<1>8. r \in Seq(Nat) /\ Len(r) = N
  BY <1>1, <1>7
<1>9. ASSUME NEW k \in 1..(l + z)
      PROVE  r[k] = IF k = o + 2 THEN s[o + 2] + z
                    ELSE IF k <= e THEN s[k]
                    ELSE IF k <= e + z THEN 0
                    ELSE s[k - z]
  <2>1. k \in 1..N
    BY <1>1 DEF N
  <2>2. r[k] = IF k = o + 2 THEN s[o + 2] + z ELSE B[k]
    BY <1>7, <2>1
  <2> QED
    BY <1>4, <1>5, <2>1, <2>2
<1> QED
  BY <1>8, <1>9 DEF r, N, Padded

\* What is copied into the message, as far as the message goes.
LEMMA CopyAt ==
  ASSUME NEW d \in Seq(Nat), TemplateSize \in Nat
  PROVE  /\ Copied(d) \in Seq(Nat) /\ Len(Copied(d)) = TemplateSize
         /\ \A i \in 1..Len(d) : i <= TemplateSize => Copied(d)[i] = d[i]
<1>1. Len(d) \in Nat /\ \A i \in 1..Len(d) : d[i] \in Nat
  BY LenProperties, ElementOfSeq
<1>2. Copied(d) \in [1..TemplateSize -> Nat]
  BY <1>1 DEF Copied
<1>3. Copied(d) \in Seq(Nat) /\ Len(Copied(d)) = TemplateSize
  BY <1>2
<1>4. \A i \in 1..Len(d) : i <= TemplateSize => Copied(d)[i] = d[i]
  BY <1>1 DEF Copied
<1> QED
  BY <1>3, <1>4

\* In a mesh the template is the beacon.
LEMMA TemplateMesh ==
  ASSUME NEW b \in Beacons
  PROVE  LET d == Data(b) IN
         Template(d, 0, TRUE) = IF Len(d) <= TemplateSize THEN d ELSE NoBeacon
<1> DEFINE d == Data(b)
           msg == Copied(d)
<1>1. d \in Seq(Nat) /\ Len(d) \in Nat
  BY DataAt, LenProperties
<1>2. TemplateSize \in Nat
  BY ApAssumption
<1>3. /\ msg \in Seq(Nat) /\ Len(msg) = TemplateSize
      /\ \A i \in 1..Len(d) : i <= TemplateSize => msg[i] = d[i]
  BY <1>1, <1>2, CopyAt
<1>4. Template(d, 0, TRUE) = IF ~(Len(d) <= TemplateSize) THEN NoBeacon
                             ELSE SubSeq(msg, 1, Len(d))
  BY DEF Template, Fits
<1> HIDE DEF d, msg
<1>5. CASE ~(Len(d) <= TemplateSize)
  BY <1>4, <1>5 DEF d
<1>6. CASE Len(d) <= TemplateSize
  <2> DEFINE t == SubSeq(msg, 1, Len(d))
  <2>1. t \in Seq(Nat) /\ Len(t) = Len(d) /\ \A i \in 1..Len(d) : t[i] = msg[i]
    BY <1>1, <1>3, <1>6, Prefix
  <2>2. \A i \in 1..Len(d) : msg[i] = d[i]
    BY <1>1, <1>2, <1>3, <1>6
  <2> HIDE DEF t
  <2>3. t = d
    BY <1>1, <2>1, <2>2, SeqEqual
  <2>4. Template(d, 0, TRUE) = t
    BY <1>4, <1>6 DEF t
  <2> QED
    BY <1>6, <2>3, <2>4 DEF d
<1> QED
  BY <1>5, <1>6

\* Of an access point it is the beacon with its TIM as long as the firmware
\* wants it; one whose bitmap is longer than that is cut off.
LEMMA TemplateAp ==
  ASSUME NEW b \in Beacons
  PROVE  LET t == Template(Data(b), Len(Head3), FALSE)
             l == Fixed + PvmSize + Len(b.tail)
         IN  /\ l \in Nat /\ l > 0 /\ l = Len(Data(b)) + PvmSize - b.pvm
             /\ t \in Seq(Nat) /\ Len(t) <= TemplateSize
             /\ l > TemplateSize => t = NoBeacon
             /\ l <= TemplateSize => Len(t) = l
             /\ (l <= TemplateSize /\ b.pvm <= PvmSize) => t = WantedTemplate(b)
<1> DEFINE d == Data(b)
           p == b.pvm
           n == Len(b.tail)
           e == Fixed + p
           l == Fixed + PvmSize + n
           msg == Copied(d)
           pad == PadTim(msg, 3 + 5 + p, Len(d), PvmSize - p, 3)
           t == Template(d, Len(Head3), FALSE)
<1>1. /\ p \in Nat /\ n \in Nat /\ PvmSize \in Nat /\ TemplateSize \in Nat
      /\ d \in Seq(Nat) /\ Len(d) = e + n /\ Fixed = 8
  BY DataAt, ApAssumption DEF Fixed
<1>2. d[5] = 3 + p
  <2>1. 5 \in 1..(e + n) /\ 5 <= Fixed
    BY <1>1
  <2>2. d[5] = Front(3 + p)[5]
    BY <2>1, DataAt
  <2>3. 3 + p \in Nat
    BY <1>1
  <2>4. Front(3 + p)[5] = 3 + p
    BY <2>3, FrontAt
  <2> QED
    BY <2>2, <2>4
<1>3. /\ msg \in Seq(Nat) /\ Len(msg) = TemplateSize
      /\ \A k \in 1..Len(d) : k <= TemplateSize => msg[k] = d[k]
  BY <1>1, CopyAt
<1>5. l \in Nat /\ l > 0 /\ l = Len(d) + PvmSize - p
  <2> HIDE DEF d, n, p
  <2> QED
    BY <1>1
<1>4. t = IF ~(l <= TemplateSize) THEN NoBeacon
          ELSE SubSeq(IF PvmSize > p THEN pad ELSE msg, 1, l)
  <2>1. PICK three \in Nat : three = 3
    OBVIOUS
  <2>2. Len(Head3) = three
    BY <2>1 DEF Head3
  <2>3. At0(d, three + 1) - 3 = p
    BY <1>1, <1>2, <2>1 DEF At0
  <2>4. Len(d) + PvmSize - p = l
    BY <1>5
  <2>5. t = IF ~(Len(d) + PvmSize - p <= TemplateSize) THEN NoBeacon
            ELSE SubSeq(IF PvmSize > p THEN PadTim(msg, three + 5 + p, Len(d), PvmSize - p, three)
                        ELSE msg, 1, Len(d) + PvmSize - p)
    BY <2>2, <2>3 DEF Template, Fits
  <2> QED
    BY <2>1, <2>4, <2>5
<1> HIDE DEF d, t, msg, pad, n, p
<1>6. ASSUME l <= TemplateSize
      PROVE  /\ t \in Seq(Nat) /\ Len(t) = l
             /\ p <= PvmSize => t = WantedTemplate(b)
  <2> DEFINE u == IF PvmSize > p THEN pad ELSE msg
  <2>1. /\ msg \in Seq(Nat) /\ Len(msg) = TemplateSize
        /\ p <= PvmSize => \A k \in 1..(e + n) : msg[k] = d[k]
    <3>1. p <= PvmSize => e + n <= TemplateSize
      BY <1>1, <1>6
    <3> QED
      BY <1>1, <1>3, <3>1
  <2>2. PvmSize > p =>
          /\ pad \in Seq(Nat) /\ Len(pad) = Len(msg)
          /\ \A k \in 1..l : pad[k] = IF k = 5 THEN msg[5] + (PvmSize - p)
                                      ELSE IF k <= e THEN msg[k]
                                      ELSE IF k <= Fixed + PvmSize THEN 0
                                      ELSE msg[k - (PvmSize - p)]
    <3> SUFFICES ASSUME PvmSize > p
                 PROVE  /\ pad \in Seq(Nat) /\ Len(pad) = Len(msg)
                        /\ \A k \in 1..l : pad[k] = IF k = 5 THEN msg[5] + (PvmSize - p)
                                                    ELSE IF k <= e THEN msg[k]
                                                    ELSE IF k <= Fixed + PvmSize THEN 0
                                                    ELSE msg[k - (PvmSize - p)]
      OBVIOUS
    <3> DEFINE E == 3 + 5 + p
               L == Len(d)
               z == PvmSize - p
               o == 3
    <3>1. /\ E \in Nat /\ L \in Nat /\ z \in Nat /\ o \in Nat /\ E = e /\ L + z = l
          /\ E <= L /\ L + z <= Len(msg) /\ o + 2 <= E /\ o + 2 = 5 /\ E + z = Fixed + PvmSize
      BY <1>1, <1>6, <2>1
    <3>2. pad = PadTim(msg, E, L, z, o)
      BY DEF pad
    <3> HIDE DEF E, L, z, o
    <3>3. pad \in Seq(Nat) /\ Len(pad) = Len(msg) /\ Padded(pad, msg, E, L, z, o)
      BY <2>1, <3>1, <3>2, PadTimAt
    <3>4. \A k \in 1..l : pad[k] = IF k = 5 THEN msg[5] + z
                                  ELSE IF k <= e THEN msg[k]
                                  ELSE IF k <= Fixed + PvmSize THEN 0
                                  ELSE msg[k - z]
      BY <3>1, <3>3 DEF Padded
    <3> QED
      BY <3>3, <3>4 DEF z
  <2>3. u \in Seq(Nat) /\ l <= Len(u)
    BY <1>1, <1>6, <2>1, <2>2
  <2> HIDE DEF u
  <2>4. t = SubSeq(u, 1, l)
    BY <1>4, <1>6 DEF u
  <2>5. t \in Seq(Nat) /\ Len(t) = l /\ \A k \in 1..l : t[k] = u[k]
    <3> HIDE DEF l
    <3> QED
      BY <1>5, <2>3, <2>4, Prefix
  <2>6. ASSUME p <= PvmSize PROVE t = WantedTemplate(b)
    <3> DEFINE w == WantedTemplate(b)
    <3>1. /\ w \in Seq(Nat) /\ Len(w) = l
          /\ \A k \in 1..l : w[k] = IF k <= Fixed THEN Front(3 + PvmSize)[k]
                                    ELSE IF k <= e THEN Pvm(p)[k - Fixed]
                                    ELSE IF k <= Fixed + PvmSize THEN 0
                                    ELSE b.tail[k - (Fixed + PvmSize)]
      BY <2>6, WantedAt DEF n, p
    <3>2. \A k \in 1..(e + n) : d[k] = IF k <= Fixed THEN Front(3 + p)[k]
                                       ELSE IF k <= e THEN Pvm(p)[k - Fixed]
                                       ELSE b.tail[k - e]
      BY DataAt DEF d, n, p
    <3> HIDE DEF w
    <3>3. ASSUME NEW k \in 1..l PROVE t[k] = w[k]
      <4>1. CASE k <= Fixed
        <5>1. k \in 1..(e + n) /\ k \in 1..Fixed /\ k <= e /\ 3 + p \in Nat /\ 3 + PvmSize \in Nat
          BY <1>1, <4>1
        <5>2. msg[k] = Front(3 + p)[k] /\ w[k] = Front(3 + PvmSize)[k]
          BY <2>1, <2>6, <3>1, <3>2, <4>1, <5>1
        <5>3. k # 5 => Front(3 + p)[k] = Front(3 + PvmSize)[k]
          BY <5>1, FrontAt
        <5>4. Front(3 + p)[5] = 3 + p /\ Front(3 + PvmSize)[5] = 3 + PvmSize
          BY <5>1, FrontAt
        <5>5. PvmSize > p => u[k] = IF k = 5 THEN msg[5] + (PvmSize - p) ELSE msg[k]
          BY <2>2, <5>1 DEF u
        <5>6. ~(PvmSize > p) => u[k] = msg[k] /\ PvmSize = p
          BY <1>1, <2>6 DEF u
        <5>7. t[k] = u[k]
          BY <2>5
        <5>8. CASE k = 5
          <6>1. msg[5] = 3 + p /\ w[5] = 3 + PvmSize
            BY <5>2, <5>4, <5>8
          <6>2. PvmSize > p => u[5] = msg[5] + (PvmSize - p)
            BY <5>5, <5>8
          <6>3. ~(PvmSize > p) => u[5] = msg[5] /\ PvmSize = p
            BY <5>6, <5>8
          <6>4. u[5] = 3 + PvmSize
            BY <1>1, <6>1, <6>2, <6>3
          <6> QED
            BY <5>7, <5>8, <6>1, <6>4
        <5>9. CASE k # 5
          BY <5>2, <5>3, <5>5, <5>6, <5>7, <5>9
        <5> QED
          BY <5>8, <5>9
      <4>2. CASE Fixed < k /\ k <= e
        <5>1. k \in 1..(e + n) /\ ~(k <= Fixed) /\ k # 5
          BY <1>1, <4>2
        <5>2. msg[k] = Pvm(p)[k - Fixed] /\ w[k] = Pvm(p)[k - Fixed]
          BY <2>1, <2>6, <3>1, <3>2, <4>2, <5>1
        <5>3. u[k] = msg[k]
          BY <2>2, <4>2, <5>1 DEF u
        <5> QED
          BY <2>5, <5>2, <5>3
      <4>3. CASE e < k /\ k <= Fixed + PvmSize
        <5>1. ~(k <= Fixed) /\ ~(k <= e) /\ k # 5 /\ PvmSize > p
          BY <1>1, <4>3
        <5>2. w[k] = 0
          BY <3>1, <4>3, <5>1
        <5>3. u[k] = 0
          BY <2>2, <4>3, <5>1 DEF u
        <5> QED
          BY <2>5, <5>2, <5>3
      <4>4. CASE Fixed + PvmSize < k
        <5> DEFINE j == k - (PvmSize - p)
        <5>1. /\ ~(k <= Fixed) /\ ~(k <= e) /\ ~(k <= Fixed + PvmSize) /\ k # 5
              /\ j \in 1..(e + n) /\ ~(j <= Fixed) /\ ~(j <= e)
              /\ j - e = k - (Fixed + PvmSize)
          BY <1>1, <2>6, <4>4
        <5>2. msg[j] = b.tail[j - e]
          BY <2>1, <2>6, <3>2, <5>1
        <5>3. w[k] = b.tail[j - e]
          BY <3>1, <5>1
        <5>4. u[k] = msg[j]
          <6>1. CASE PvmSize > p
            BY <2>2, <5>1, <6>1 DEF u
          <6>2. CASE ~(PvmSize > p)
            <7>1. j = k
              BY <1>1, <2>6, <6>2
            <7> QED
              BY <6>2, <7>1 DEF u
          <6> QED
            BY <6>1, <6>2
        <5> QED
          BY <2>5, <5>2, <5>3, <5>4
      <4> QED
        BY <1>1, <4>1, <4>2, <4>3, <4>4
    <3>4. t = w
      <4> HIDE DEF l
      <4> QED
        BY <2>5, <3>1, <3>3, SeqEqual
    <3> QED
      BY <3>4 DEF w
  <2> QED
    BY <2>5, <2>6
<1>7. ASSUME l > TemplateSize
      PROVE  t = NoBeacon /\ t \in Seq(Nat) /\ Len(t) <= TemplateSize
  <2>1. t = NoBeacon
    BY <1>1, <1>4, <1>7
  <2>2. <<>> \in Seq(Nat) /\ Len(<<>>) = 0
    BY EmptySeq
  <2> QED
    BY <1>1, <2>1, <2>2 DEF NoBeacon
<1>8. /\ l \in Nat /\ l > 0 /\ l = Len(d) + PvmSize - p
      /\ t \in Seq(Nat) /\ Len(t) <= TemplateSize
      /\ l > TemplateSize => t = NoBeacon
      /\ l <= TemplateSize => Len(t) = l
      /\ (l <= TemplateSize /\ p <= PvmSize) => t = WantedTemplate(b)
  <2>1. l <= TemplateSize \/ l > TemplateSize
    BY <1>1, <1>5
  <2> HIDE DEF l
  <2> QED
    BY <1>1, <1>5, <1>6, <1>7, <2>1
<1> QED
  BY <1>8 DEF d, t, n, p

-----------------------------------------------------------------------------
(* TypeOK.                                                                 *)

LEMMA TemplateTyped ==
  ASSUME TypeOK
  PROVE  TemplateNow \in Seq(Nat) /\ Len(TemplateNow) <= TemplateSize
<1>1. mac.beacon \in Beacons /\ vif.type \in {"AP", "MESH"} /\ TemplateSize \in Nat
  BY Typed, ApAssumption DEF MacType, VifType, Types
<1>2. CASE vif.type = "MESH"
  <2>1. TemplateNow = Template(Data(mac.beacon), 0, TRUE)
    BY <1>2 DEF TemplateNow, TimOff
  <2>2. Data(mac.beacon) \in Seq(Nat)
    BY <1>1, DataAt
  <2>3. NoBeacon \in Seq(Nat) /\ Len(NoBeacon) <= TemplateSize
    <3>1. NoBeacon \in Seq(Nat) /\ Len(NoBeacon) = 0
      BY EmptySeq DEF NoBeacon
    <3> QED
      BY <1>1, <3>1
  <2>4. TemplateNow = IF Len(Data(mac.beacon)) <= TemplateSize THEN Data(mac.beacon) ELSE NoBeacon
    BY <1>1, <2>1, TemplateMesh
  <2> QED
    BY <2>2, <2>3, <2>4
<1>3. CASE vif.type = "AP"
  <2>1. TemplateNow = Template(Data(mac.beacon), Len(Head3), FALSE)
    BY <1>3 DEF TemplateNow, TimOff
  <2> QED
    BY <1>1, <2>1, TemplateAp
<1> QED
  BY <1>1, <1>2, <1>3

LEMMA EffectsTyped ==
  ASSUME TypeOK
  PROVE  /\ SelfAdded \in FwType /\ SelfAdded.beacon = fw.beacon
         /\ SelfDeleted \in FwType /\ SelfDeleted.beacon = fw.beacon
         /\ BssMade \in FwType /\ BssMade.beacon = fw.beacon
         /\ BssDeleted \in FwType /\ BssDeleted.beacon = NoBeacon
         /\ \A i \in StaIdx, p \in Peers :
              StaMade(i, p) \in FwType /\ StaMade(i, p).beacon = fw.beacon
         /\ \A i \in StaIdx : StaDeleted(i) \in FwType /\ StaDeleted(i).beacon = fw.beacon
<1>1. fw \in FwType /\ sta \in [Peers -> PeerType] /\ FirstFree \in StaIdx /\ fw.of \in StaIdx
  BY Typed, FirstFreeIn, FwFields
<1>2. SelfAdded \in FwType /\ SelfAdded.beacon = fw.beacon
  BY <1>1 DEF SelfAdded, FwType
<1>3. SelfDeleted \in FwType /\ SelfDeleted.beacon = fw.beacon
  <2> DEFINE s == [i \in StaIdx |-> IF fw.sta[i] = "self" THEN "free" ELSE fw.sta[i]]
  <2>1. s \in [StaIdx -> {"free", "self", "bss"} \cup Peers]
    BY FwFields
  <2>2. SelfDeleted = [fw EXCEPT !.sta = s]
    BY DEF SelfDeleted
  <2> HIDE DEF s
  <2> QED
    BY <1>1, <2>1, <2>2 DEF FwType
<1>4. BssMade \in FwType /\ BssMade.beacon = fw.beacon
  BY <1>1, Constants DEF BssMade, FwType
<1>5. BssDeleted \in FwType /\ BssDeleted.beacon = NoBeacon
  BY <1>1, Constants, EmptySeq DEF BssDeleted, FwType, NoBeacon
<1>6. ASSUME NEW i \in StaIdx, NEW p \in Peers
      PROVE  StaMade(i, p) \in FwType /\ StaMade(i, p).beacon = fw.beacon
  <2>1. sta[p].rates \in Rates
    BY <1>1 DEF PeerType
  <2> QED
    BY <1>1, <2>1 DEF StaMade, FwType
<1>7. ASSUME NEW i \in StaIdx
      PROVE  StaDeleted(i) \in FwType /\ StaDeleted(i).beacon = fw.beacon
  BY <1>1, Constants DEF StaDeleted, FwType
<1> QED
  BY <1>2, <1>3, <1>4, <1>5, <1>6, <1>7

\* A command whose effect has its type, and that tells the driver nothing.
LEMMA SilentTyped ==
  ASSUME TypeOK, NEW o, NEW c, NEW known, NEW effect, Ask(o, c, known, effect), Silent,
         known => effect \in FwType /\ Len(effect.beacon) <= TemplateSize
  PROVE  TypeOK'
<1>1. fw' = fw \/ (known /\ fw' = effect)
  BY Asked
<1> QED
  BY <1>1, Asked, Typed, Typed1 DEF Silent

LEMMA SmdTyped ==
  ASSUME TypeOK, Smd
  PROVE  TypeOK'
<1> USE Typed
<1>1. /\ fw \in FwType /\ Len(fw.beacon) <= TemplateSize /\ FirstFree \in StaIdx
      /\ Len(NoBeacon) <= TemplateSize
  <2>1. TemplateSize \in Nat
    BY ApAssumption
  <2>2. Len(NoBeacon) = 0
    BY EmptySeq DEF NoBeacon
  <2> QED
    BY <2>1, <2>2, FirstFreeIn
<1>2. ASSUME At("config_sta") \/ At("delete_sta") \/ At("set_stakey") \/ At("remove_stakey")
             \/ At("gone")
      PROVE  Of \in Peers /\ sta[Of].sta_index \in StaIdx
  <2>1. Of \in Peers
    BY <1>2, HeadOf DEF At, PeerSteps
  <2> QED
    BY <2>1 DEF PeerType
<1>3. CASE AddStaSelf
  <2>1. PICK o : /\ Ask(o, "add_sta_self", FreeSta # {}, SelfAdded)
                 /\ IF o = "ok" THEN vif' = [vif EXCEPT !.self_sta_index = FirstFree] /\ sta' = sta
                    ELSE Silent
    BY <1>3, Forms
  <2>2. vif' \in VifType /\ sta' = sta
    BY <1>1, <2>1 DEF Silent, VifType
  <2>3. fw' = fw \/ fw' = SelfAdded
    BY <2>1, Asked
  <2> QED
    BY <1>1, <2>1, <2>2, <2>3, Asked, EffectsTyped, Typed1
<1>4. CASE DeleteStaSelf
  BY <1>1, <1>4, Forms, SilentTyped, EffectsTyped
<1>5. CASE ConfigBss
  <2>1. PICK o : /\ Ask(o, "config_bss", fw.bss \/ FreeSta # {}, BssMade)
                 /\ IF o = "ok" THEN vif' = [vif EXCEPT !.bss_index = 0] /\ sta' = sta
                    ELSE Silent
    BY <1>5, Forms
  <2>2. vif' \in VifType /\ sta' = sta
    BY <2>1 DEF Silent, VifType, BssIdx
  <2>3. fw' = fw \/ fw' = BssMade
    BY <2>1, Asked
  <2> QED
    BY <1>1, <2>1, <2>2, <2>3, Asked, EffectsTyped, Typed1
<1>6. CASE DeleteBss
  BY <1>1, <1>6, Forms, SilentTyped, EffectsTyped
<1>7. CASE SendBeacon
  <2>1. [fw EXCEPT !.beacon = TemplateNow] \in FwType
        /\ [fw EXCEPT !.beacon = TemplateNow].beacon = TemplateNow
    BY <1>1, TemplateTyped DEF FwType
  <2> QED
    BY <1>1, <1>7, <2>1, Forms, SilentTyped, TemplateTyped
<1>8. CASE UpdateProbeResp
  BY <1>1, <1>8, Forms, SilentTyped
<1>9. CASE SetLinkSt
  <2>1. PICK o, c, l : /\ l \in {"idle", "ap", "ibss"}
                       /\ Ask(o, c, TRUE, [fw EXCEPT !.link = l]) /\ Silent
    BY <1>9, Forms
  <2>2. [fw EXCEPT !.link = l] \in FwType /\ [fw EXCEPT !.link = l].beacon = fw.beacon
    BY <1>1, <2>1 DEF FwType
  <2> QED
    BY <1>1, <2>1, <2>2, SilentTyped
<1>10. CASE ConfigSta
  <2>1. PICK o : /\ Ask(o, "config_sta", HasBss /\ FreeSta # {}, StaMade(FirstFree, Of))
                 /\ IF o = "ok" THEN sta' = [sta EXCEPT ![Of].sta_index = FirstFree] /\ vif' = vif
                    ELSE Silent
    BY <1>10, Forms
  <2>2. Of \in Peers
    BY <1>2, <2>1 DEF Ask
  <2>3. sta' \in [Peers -> PeerType] /\ vif' = vif
    BY <1>1, <2>1, <2>2 DEF Silent, PeerType
  <2>4. fw' = fw \/ fw' = StaMade(FirstFree, Of)
    BY <2>1, Asked
  <2> QED
    BY <1>1, <2>1, <2>2, <2>3, <2>4, Asked, EffectsTyped, Typed1
<1>11. CASE DeleteSta
  <2>1. PICK o : /\ Ask(o, "delete_sta", fw.sta[sta[Of].sta_index] # "free",
                        StaDeleted(sta[Of].sta_index))
                 /\ Silent
    BY <1>11, Forms
  <2>2. sta[Of].sta_index \in StaIdx
    BY <1>2, <2>1 DEF Ask
  <2> QED
    BY <1>1, <2>1, <2>2, SilentTyped, EffectsTyped
<1>12. CASE SetStaKey
  <2>1. PICK o : /\ Ask(o, "set_stakey", fw.sta[sta[Of].sta_index] # "free",
                        [fw EXCEPT !.stakey = @ \cup {sta[Of].sta_index}])
                 /\ Silent
    BY <1>12, Forms
  <2> DEFINE e == [fw EXCEPT !.stakey = @ \cup {sta[Of].sta_index}]
  <2>2. sta[Of].sta_index \in StaIdx
    BY <1>2, <2>1 DEF Ask
  <2>3. e \in FwType /\ e.beacon = fw.beacon
    BY <1>1, <2>2 DEF FwType
  <2> QED
    BY <1>1, <2>1, <2>3, SilentTyped
<1>13. CASE RemoveStaKey
  <2>1. PICK o : /\ Ask(o, "remove_stakey", sta[Of].sta_index \in fw.stakey,
                        [fw EXCEPT !.stakey = @ \ {sta[Of].sta_index}])
                 /\ Silent
    BY <1>13, Forms
  <2> DEFINE e == [fw EXCEPT !.stakey = @ \ {sta[Of].sta_index}]
  <2>2. e \in FwType /\ e.beacon = fw.beacon
    BY <1>1 DEF FwType
  <2> QED
    BY <1>1, <2>1, <2>2, SilentTyped
<1>14. CASE BssKey
  <2>1. PICK o : /\ \/ Ask(o, "set_bsskey", fw.bss, [fw EXCEPT !.bsskey = TRUE])
                    \/ Ask(o, "remove_bsskey", fw.bsskey, [fw EXCEPT !.bsskey = FALSE])
                 /\ Silent
    BY <1>14, Forms
  <2>2. \A k \in BOOLEAN : /\ [fw EXCEPT !.bsskey = k] \in FwType
                           /\ [fw EXCEPT !.bsskey = k].beacon = fw.beacon
    BY <1>1 DEF FwType
  <2> QED
    BY <1>1, <2>1, <2>2, SilentTyped
<1>15. CASE NoSkb
  <2>1. faults' \in 0..MaxFaults /\ todo' \in Seq(StepType)
    BY <1>15, ApAssumption, EmptySeq DEF NoSkb
  <2>2. history' \subseteq Marks
    BY <1>15 DEF NoSkb, Marks
  <2> QED
    BY <1>15, <2>1, <2>2, Typed1 DEF NoSkb
<1>16. CASE Assign
  <2>1. todo' \in Seq(StepType) /\ UNCHANGED <<mac, fw, history, faults>>
    BY <1>16, HeadOf DEF Assign, At
  <2>2. vif' \in VifType
    BY <1>16 DEF Assign, Silent, VifType, Invalid
  <2>3. sta' \in [Peers -> PeerType]
    BY <1>16, Constants DEF Assign, Silent
  <2> QED
    BY <2>1, <2>2, <2>3, Typed1
<1> QED
  BY <1>3, <1>4, <1>5, <1>6, <1>7, <1>8, <1>9, <1>10, <1>11, <1>12, <1>13, <1>14, <1>15,
     <1>16 DEF Smd

-----------------------------------------------------------------------------
(* What a callback has still to do.                                        *)

Con1 == <<Do("link_on")>>
Con2 == <<Do("send_beacon"), Do("link_on")>>
Con3 == <<Do("beacon_get"), Do("send_beacon"), Do("link_on")>>
Con4 == <<Do("config_bss"), Do("beacon_get"), Do("send_beacon"), Do("link_on")>>
Con5 == <<Do("bss_invalid"), Do("config_bss"), Do("beacon_get"), Do("send_beacon"),
          Do("link_on")>>
Con6 == <<Do("update_proberesp_tmpl"), Do("bss_invalid"), Do("config_bss"),
          Do("beacon_get"), Do("send_beacon"), Do("link_on")>>
Con7 == <<Do("proberesp_get"), Do("update_proberesp_tmpl"), Do("bss_invalid"),
          Do("config_bss"), Do("beacon_get"), Do("send_beacon"), Do("link_on")>>

Singles == {"add_sta_self", "delete_sta_self", "delete_bss", "set_bsskey", "remove_bsskey"}
PeerSingles == {"config_sta", "gone", "set_stakey", "remove_stakey"}
Lists == {<<>>, Con1, Con2, Con3, Con4, Con5, Con6, Con7, <<Do("link_idle"), Do("delete_bss")>>}
           \cup {<<Do(c)>> : c \in Singles}
           \cup {<<For(c, p)>> : c \in PeerSingles, p \in Peers}
           \cup {<<For("delete_sta", p), For("gone", p)>> : p \in Peers}

\* The name of the next step, and of the one after a step.
NameOf(l) == IF l = <<>> THEN "idle" ELSE Head(l)[1]
After(c) == CASE c = "proberesp_get" -> "update_proberesp_tmpl"
              [] c = "update_proberesp_tmpl" -> "bss_invalid"
              [] c = "bss_invalid" -> "config_bss"
              [] c = "config_bss" -> "beacon_get"
              [] c = "beacon_get" -> "send_beacon"
              [] c = "send_beacon" -> "link_on"
              [] c = "link_idle" -> "delete_bss"
              [] c = "delete_sta" -> "gone"
              [] OTHER -> "idle"

LEMMA HeadTail ==
  ASSUME NEW a, NEW b, NEW c, NEW d, NEW e, NEW f, NEW g
  PROVE  /\ Head(<<a>>) = a /\ Tail(<<a>>) = <<>> /\ <<a>> # <<>>
         /\ Head(<<a, b>>) = a /\ Tail(<<a, b>>) = <<b>> /\ <<a, b>> # <<>>
         /\ Head(<<a, b, c>>) = a /\ Tail(<<a, b, c>>) = <<b, c>> /\ <<a, b, c>> # <<>>
         /\ Head(<<a, b, c, d>>) = a /\ Tail(<<a, b, c, d>>) = <<b, c, d>>
         /\ <<a, b, c, d>> # <<>>
         /\ Head(<<a, b, c, d, e>>) = a /\ Tail(<<a, b, c, d, e>>) = <<b, c, d, e>>
         /\ <<a, b, c, d, e>> # <<>>
         /\ Head(<<a, b, c, d, e, f>>) = a /\ Tail(<<a, b, c, d, e, f>>) = <<b, c, d, e, f>>
         /\ <<a, b, c, d, e, f>> # <<>>
         /\ Head(<<a, b, c, d, e, f, g>>) = a
         /\ Tail(<<a, b, c, d, e, f, g>>) = <<b, c, d, e, f, g>>
         /\ <<a, b, c, d, e, f, g>> # <<>>
OBVIOUS

LEMMA Names ==
  /\ NameOf(<<>>) = "idle"
  /\ NameOf(Con1) = "link_on" /\ Con1 # <<>> /\ Tail(Con1) = <<>>
  /\ NameOf(Con2) = "send_beacon" /\ Con2 # <<>> /\ Tail(Con2) = Con1
  /\ NameOf(Con3) = "beacon_get" /\ Con3 # <<>> /\ Tail(Con3) = Con2
  /\ NameOf(Con4) = "config_bss" /\ Con4 # <<>> /\ Tail(Con4) = Con3
  /\ NameOf(Con5) = "bss_invalid" /\ Con5 # <<>> /\ Tail(Con5) = Con4
  /\ NameOf(Con6) = "update_proberesp_tmpl" /\ Con6 # <<>> /\ Tail(Con6) = Con5
  /\ NameOf(Con7) = "proberesp_get" /\ Con7 # <<>> /\ Tail(Con7) = Con6
  /\ \A c : NameOf(<<Do(c)>>) = c /\ Tail(<<Do(c)>>) = <<>> /\ <<Do(c)>> # <<>>
  /\ \A c, d : /\ NameOf(<<Do(c), Do(d)>>) = c /\ Tail(<<Do(c), Do(d)>>) = <<Do(d)>>
               /\ <<Do(c), Do(d)>> # <<>>
  /\ \A c, p : /\ NameOf(<<For(c, p)>>) = c /\ Tail(<<For(c, p)>>) = <<>>
               /\ Head(<<For(c, p)>>)[2] = p /\ <<For(c, p)>> # <<>>
  /\ \A c, d, p : /\ NameOf(<<For(c, p), For(d, p)>>) = c
                  /\ Head(<<For(c, p), For(d, p)>>)[2] = p
                  /\ Tail(<<For(c, p), For(d, p)>>) = <<For(d, p)>>
                  /\ <<For(c, p), For(d, p)>> # <<>>
<1> DEFINE A == Do("proberesp_get")
           B == Do("update_proberesp_tmpl")
           C == Do("bss_invalid")
           D == Do("config_bss")
           E == Do("beacon_get")
           F == Do("send_beacon")
           G == Do("link_on")
<1>1. /\ A[1] = "proberesp_get" /\ B[1] = "update_proberesp_tmpl" /\ C[1] = "bss_invalid"
      /\ D[1] = "config_bss" /\ E[1] = "beacon_get" /\ F[1] = "send_beacon"
      /\ G[1] = "link_on"
  BY DEF Do
<1>2. /\ Con1 = <<G>> /\ Con2 = <<F, G>> /\ Con3 = <<E, F, G>> /\ Con4 = <<D, E, F, G>>
      /\ Con5 = <<C, D, E, F, G>> /\ Con6 = <<B, C, D, E, F, G>>
      /\ Con7 = <<A, B, C, D, E, F, G>>
  BY DEF Con1, Con2, Con3, Con4, Con5, Con6, Con7
<1> HIDE DEF A, B, C, D, E, F, G
<1>3. /\ NameOf(Con1) = "link_on" /\ Con1 # <<>> /\ Tail(Con1) = <<>>
      /\ NameOf(Con2) = "send_beacon" /\ Con2 # <<>> /\ Tail(Con2) = Con1
      /\ NameOf(Con3) = "beacon_get" /\ Con3 # <<>> /\ Tail(Con3) = Con2
  BY <1>1, <1>2, HeadTail DEF NameOf
<1>4. /\ NameOf(Con4) = "config_bss" /\ Con4 # <<>> /\ Tail(Con4) = Con3
      /\ NameOf(Con5) = "bss_invalid" /\ Con5 # <<>> /\ Tail(Con5) = Con4
  BY <1>1, <1>2, HeadTail DEF NameOf
<1>5. NameOf(Con6) = "update_proberesp_tmpl" /\ Con6 # <<>> /\ Tail(Con6) = Con5
  BY <1>1, <1>2, HeadTail DEF NameOf
<1>6. NameOf(Con7) = "proberesp_get" /\ Con7 # <<>> /\ Tail(Con7) = Con6
  BY <1>1, <1>2, HeadTail DEF NameOf
<1>7. NameOf(<<>>) = "idle"
  BY DEF NameOf
<1>8. ASSUME NEW x, NEW y
      PROVE  /\ NameOf(<<x>>) = x[1] /\ Tail(<<x>>) = <<>> /\ <<x>> # <<>>
             /\ Head(<<x>>) = x /\ Head(<<x, y>>) = x /\ <<x, y>> # <<>>
             /\ NameOf(<<x, y>>) = x[1] /\ Tail(<<x, y>>) = <<y>>
  BY HeadTail DEF NameOf
<1>9. ASSUME NEW c
      PROVE  NameOf(<<Do(c)>>) = c /\ Tail(<<Do(c)>>) = <<>> /\ <<Do(c)>> # <<>>
  <2>1. Do(c)[1] = c
    BY DEF Do
  <2> QED
    BY <1>8, <2>1
<1>10. ASSUME NEW c, NEW d
       PROVE  /\ NameOf(<<Do(c), Do(d)>>) = c /\ Tail(<<Do(c), Do(d)>>) = <<Do(d)>>
              /\ <<Do(c), Do(d)>> # <<>>
  <2>1. Do(c)[1] = c
    BY DEF Do
  <2> QED
    BY <1>8, <2>1
<1>11. ASSUME NEW c, NEW p
       PROVE  /\ NameOf(<<For(c, p)>>) = c /\ Tail(<<For(c, p)>>) = <<>>
              /\ Head(<<For(c, p)>>)[2] = p /\ <<For(c, p)>> # <<>>
  <2>1. For(c, p)[1] = c /\ For(c, p)[2] = p
    BY DEF For
  <2> QED
    BY <1>8, <2>1
<1>12. ASSUME NEW c, NEW d, NEW p
       PROVE  /\ NameOf(<<For(c, p), For(d, p)>>) = c
              /\ Head(<<For(c, p), For(d, p)>>)[2] = p
              /\ Tail(<<For(c, p), For(d, p)>>) = <<For(d, p)>>
              /\ <<For(c, p), For(d, p)>> # <<>>
  <2>1. For(c, p)[1] = c /\ For(c, p)[2] = p
    BY DEF For
  <2> QED
    BY <1>8, <2>1
<1> QED
  BY <1>3, <1>4, <1>5, <1>6, <1>7, <1>9, <1>10, <1>11, <1>12

LEMMA AfterIs ==
  /\ After("proberesp_get") = "update_proberesp_tmpl"
  /\ After("update_proberesp_tmpl") = "bss_invalid" /\ After("bss_invalid") = "config_bss"
  /\ After("config_bss") = "beacon_get" /\ After("beacon_get") = "send_beacon"
  /\ After("send_beacon") = "link_on" /\ After("link_on") = "idle"
  /\ After("link_idle") = "delete_bss" /\ After("delete_sta") = "gone"
  /\ \A c \in Singles \cup PeerSingles : After(c) = "idle"
<1>1. \A c \in Singles \cup PeerSingles : After(c) = "idle"
  BY DEF After, Singles, PeerSingles
<1> QED
  BY <1>1 DEF After

LEMMA ListsTyped == Lists \subseteq Seq(StepType)
<1>1. \A c \in Steps : Do(c) \in StepType
  BY DEF Do, StepType
<1>2. \A c \in PeerSteps, p \in Peers : For(c, p) \in StepType
  BY DEF For, StepType
<1>3. ASSUME NEW a \in StepType, NEW b \in StepType, NEW c \in StepType, NEW d \in StepType,
             NEW e \in StepType, NEW f \in StepType, NEW g \in StepType
      PROVE  /\ <<>> \in Seq(StepType) /\ <<a>> \in Seq(StepType) /\ <<a, b>> \in Seq(StepType)
             /\ <<a, b, c>> \in Seq(StepType) /\ <<a, b, c, d>> \in Seq(StepType)
             /\ <<a, b, c, d, e>> \in Seq(StepType) /\ <<a, b, c, d, e, f>> \in Seq(StepType)
             /\ <<a, b, c, d, e, f, g>> \in Seq(StepType)
  OBVIOUS
<1>4. {Con1, Con2, Con3, Con4, Con5, Con6, Con7} \subseteq Seq(StepType)
  <2>1. /\ Do("proberesp_get") \in StepType /\ Do("update_proberesp_tmpl") \in StepType
        /\ Do("bss_invalid") \in StepType /\ Do("config_bss") \in StepType
        /\ Do("beacon_get") \in StepType /\ Do("send_beacon") \in StepType
        /\ Do("link_on") \in StepType
    BY <1>1 DEF Steps
  <2>2. Con1 \in Seq(StepType) /\ Con2 \in Seq(StepType) /\ Con3 \in Seq(StepType)
    BY <1>3, <2>1 DEF Con1, Con2, Con3
  <2>3. Con4 \in Seq(StepType) /\ Con5 \in Seq(StepType)
    BY <1>3, <2>1 DEF Con4, Con5
  <2>4. Con6 \in Seq(StepType) /\ Con7 \in Seq(StepType)
    BY <1>3, <2>1 DEF Con6, Con7
  <2> QED
    BY <2>2, <2>3, <2>4
<1>5. ASSUME NEW l \in Lists
      PROVE  l \in Seq(StepType)
  <2>1. CASE l \in {<<>>, Con1, Con2, Con3, Con4, Con5, Con6, Con7}
    BY <1>4, <2>1, EmptySeq
  <2>2. CASE l = <<Do("link_idle"), Do("delete_bss")>>
    <3>1. Do("link_idle") \in StepType /\ Do("delete_bss") \in StepType
      BY <1>1 DEF Steps
    <3> QED
      BY <1>3, <2>2, <3>1
  <2>3. ASSUME NEW c \in Singles, l = <<Do(c)>>
        PROVE  l \in Seq(StepType)
    BY <1>1, <1>3, <2>3 DEF Singles, Steps
  <2>4. ASSUME NEW c \in PeerSingles, NEW p \in Peers, l = <<For(c, p)>>
        PROVE  l \in Seq(StepType)
    BY <1>2, <1>3, <2>4 DEF PeerSingles, PeerSteps
  <2>5. ASSUME NEW p \in Peers, l = <<For("delete_sta", p), For("gone", p)>>
        PROVE  l \in Seq(StepType)
    <3>1. For("delete_sta", p) \in StepType /\ For("gone", p) \in StepType
      BY <1>2 DEF PeerSteps
    <3> QED
      BY <1>3, <2>5, <3>1
  <2> QED
    BY <2>1, <2>2, <2>3, <2>4, <2>5 DEF Lists
<1> QED
  BY <1>5

\* A step done leaves a list, and the next step is the one after it, about the
\* same peer.
LEMMA TailOf ==
  ASSUME NEW l \in Lists, l # <<>>
  PROVE  /\ Tail(l) \in Lists /\ NameOf(Tail(l)) = After(NameOf(l))
         /\ NameOf(l) = "delete_sta" => Head(Tail(l))[2] = Head(l)[2]
<1>1. {<<>>, Con1, Con2, Con3, Con4, Con5, Con6} \subseteq Lists
  BY DEF Lists
<1>2. CASE l \in {Con1, Con2, Con3, Con4, Con5, Con6, Con7}
  <2>1. CASE l = Con1
    <3>1. Tail(l) = <<>> /\ NameOf(l) = "link_on"
      BY <2>1, Names
    <3>2. Tail(l) \in Lists
      BY <1>1, <3>1
    <3>3. NameOf(Tail(l)) = After(NameOf(l))
      BY ZenonT(40), <3>1, Names, AfterIs
    <3> QED
      BY <3>1, <3>2, <3>3
  <2>7. CASE l = Con2
    BY <1>1, <2>7, Names, AfterIs
  <2>2. CASE l = Con3
    BY <1>1, <2>2, Names, AfterIs
  <2>3. CASE l = Con4
    BY <1>1, <2>3, Names, AfterIs
  <2>4. CASE l = Con5
    BY <1>1, <2>4, Names, AfterIs
  <2>5. CASE l = Con6
    BY <1>1, <2>5, Names, AfterIs
  <2>6. CASE l = Con7
    BY <1>1, <2>6, Names, AfterIs
  <2> QED
    BY <1>2, <2>1, <2>2, <2>3, <2>4, <2>5, <2>6, <2>7
<1>4. CASE l = <<Do("link_idle"), Do("delete_bss")>>
  <2>1. <<Do("delete_bss")>> \in Lists
    BY DEF Lists, Singles
  <2> QED
    BY <1>4, <2>1, Names, AfterIs
<1>5. ASSUME NEW c \in Singles, l = <<Do(c)>>
      PROVE  /\ Tail(l) \in Lists /\ NameOf(Tail(l)) = After(NameOf(l))
             /\ NameOf(l) # "delete_sta"
  BY <1>1, <1>5, Names, AfterIs DEF Singles
<1>6. ASSUME NEW c \in PeerSingles, NEW p \in Peers, l = <<For(c, p)>>
      PROVE  /\ Tail(l) \in Lists /\ NameOf(Tail(l)) = After(NameOf(l))
             /\ NameOf(l) # "delete_sta"
  BY <1>1, <1>6, Names, AfterIs DEF PeerSingles
<1>7. ASSUME NEW p \in Peers, l = <<For("delete_sta", p), For("gone", p)>>
      PROVE  /\ Tail(l) \in Lists /\ NameOf(Tail(l)) = After(NameOf(l))
             /\ Head(Tail(l))[2] = Head(l)[2]
  <2>1. <<For("gone", p)>> \in Lists
    BY DEF Lists, PeerSingles
  <2> QED
    BY <1>7, <2>1, Names, AfterIs
<1>8. \/ l \in {Con1, Con2, Con3, Con4, Con5, Con6, Con7}
      \/ l = <<Do("link_idle"), Do("delete_bss")>>
      \/ \E c \in Singles : l = <<Do(c)>>
      \/ \E c \in PeerSingles, p \in Peers : l = <<For(c, p)>>
      \/ \E p \in Peers : l = <<For("delete_sta", p), For("gone", p)>>
  BY DEF Lists
<1>9. CASE l = <<Do("link_idle"), Do("delete_bss")>>
  <2>1. NameOf(l) = "link_idle"
    BY <1>9, Names
  <2> QED
    BY <1>4, <1>9, <2>1
<1> QED
  BY <1>2, <1>5, <1>6, <1>7, <1>8, <1>9

\* The step that is next, and what the callbacks keep to: a step is taken while
\* mac80211 is in its phase, its peer handed over or taken back, its key set or
\* not.
Now == NameOf(todo)
Reconfigures == {"proberesp_get", "update_proberesp_tmpl", "bss_invalid", "config_bss"}
Unsent == Reconfigures \cup {"beacon_get", "send_beacon"}
Moment ==
  /\ Now = "delete_sta_self" => mac.phase = "none"
  /\ Now \in {"add_sta_self", "link_idle", "delete_bss"} => mac.phase = "idle"
  /\ Now \in Unsent \cup {"link_on", "set_bsskey", "remove_bsskey"} \cup PeerSteps
       => mac.phase = "on"
  /\ (Now = "set_bsskey" => mac.group) /\ (Now = "remove_bsskey" => ~mac.group)
  /\ Now \in {"config_sta", "remove_stakey"} => Of \in mac.peers \ mac.keys
  /\ Now \in {"delete_sta", "gone"} => Of \notin mac.peers
  /\ Now = "set_stakey" => Of \in mac.keys
  /\ mac.keys \subseteq mac.peers
  /\ mac.phase # "on" => mac.peers = {} /\ ~mac.group
Place == todo \in Lists /\ Moment

LEMMA NowIs ==
  /\ \A c \in Steps \cup PeerSteps : At(c) <=> Now = c
  /\ Idle <=> todo = <<>>
  /\ Idle => Now = "idle"
<1>1. "idle" \notin Steps \cup PeerSteps
  BY DEF Steps, PeerSteps
<1> QED
  BY <1>1 DEF Now, NameOf, At, Idle

LEMMA NowIdle ==
  ASSUME TypeOK
  PROVE  Idle <=> Now = "idle"
<1>1. "idle" \notin Steps \cup PeerSteps
  BY DEF Steps, PeerSteps
<1> QED
  BY <1>1, HeadOf DEF Now, NameOf, Idle

\* A step done, and another one next.
LEMMA Advances ==
  ASSUME TypeOK, Place, todo # <<>>, todo' = Tail(todo), mac' = mac
  PROVE  /\ Place' /\ Now' = After(Now)
         /\ Now = "delete_sta" => Of' = Of
<1>1. todo' \in Lists /\ Now' = After(Now) /\ (Now = "delete_sta" => Of' = Of)
  BY TailOf DEF Place, Now, Of
<1>2. Now \in Steps \cup PeerSteps
  BY HeadOf DEF Now, NameOf
<1>3. \/ Now \in Reconfigures /\ Now' \in Unsent
      \/ Now \in {"beacon_get", "send_beacon"} /\ Now' \in {"send_beacon", "link_on"}
      \/ Now = "link_idle" /\ Now' = "delete_bss"
      \/ Now = "delete_sta" /\ Now' = "gone"
      \/ Now' = "idle"
  <2>1. Now \in Reconfigures => Now' \in Unsent
    BY <1>1, AfterIs DEF Reconfigures, Unsent
  <2>2. Now \in {"beacon_get", "send_beacon"} => Now' \in {"send_beacon", "link_on"}
    BY <1>1, AfterIs
  <2>3. (Now = "link_idle" => Now' = "delete_bss") /\ (Now = "delete_sta" => Now' = "gone")
    BY <1>1, AfterIs
  <2>4. Now \in {"link_on"} \cup Singles \cup PeerSingles => Now' = "idle"
    BY <1>1, AfterIs
  <2> QED
    BY <1>2, <2>1, <2>2, <2>3, <2>4 DEF Steps, PeerSteps, Reconfigures, Singles, PeerSingles
<1>4. Moment'
  <2>1. CASE Now \in Reconfigures /\ Now' \in Unsent
    BY <2>1 DEF Place, Moment, Unsent, Reconfigures, PeerSteps
  <2>2. CASE Now \in {"beacon_get", "send_beacon"} /\ Now' \in {"send_beacon", "link_on"}
    BY <2>2 DEF Place, Moment, Unsent, Reconfigures, PeerSteps
  <2>3. CASE Now = "link_idle" /\ Now' = "delete_bss"
    BY <2>3 DEF Place, Moment, Unsent, Reconfigures, PeerSteps
  <2>4. CASE Now = "delete_sta" /\ Now' = "gone"
    BY <1>1, <2>4 DEF Place, Moment, Unsent, Reconfigures, PeerSteps
  <2>5. CASE Now' = "idle"
    BY <2>5 DEF Place, Moment, Unsent, Reconfigures, PeerSteps
  <2> QED
    BY <1>3, <2>1, <2>2, <2>3, <2>4, <2>5
<1> QED
  BY <1>1, <1>4 DEF Place

\* What a callback starts with.
LEMMA Called ==
  /\ add_interface => todo' \in Lists /\ Now' = "add_sta_self"
  /\ remove_interface => todo' \in Lists /\ Now' = "delete_sta_self"
  /\ \A probe \in BOOLEAN : ConfigureBeacon(probe) =>
       todo' \in Lists /\ Now' = IF probe THEN "proberesp_get" ELSE "bss_invalid"
  /\ BeaconOff => todo' \in Lists /\ Now' = "link_idle"
  /\ GroupKey => /\ todo' \in Lists
                 /\ Now' = IF mac.group THEN "remove_bsskey" ELSE "set_bsskey"
  /\ \A p \in Peers :
       /\ sta_add(p) => todo' \in Lists /\ Now' = "config_sta" /\ Of' = p
       /\ sta_remove(p) => todo' \in Lists /\ Now' = "delete_sta" /\ Of' = p
       /\ SetPairwiseKey(p) => todo' \in Lists /\ Now' = "set_stakey" /\ Of' = p
       /\ DisablePairwiseKey(p) =>
            /\ todo' \in Lists
            /\ IF sta[p].aid THEN Now' = "remove_stakey" /\ Of' = p ELSE Now' = "idle"
<1>1. \A c \in Singles : <<Do(c)>> \in Lists
  BY DEF Lists
<1>2. \A c \in PeerSingles, p \in Peers : <<For(c, p)>> \in Lists
  BY DEF Lists
<1>3. add_interface => todo' \in Lists /\ Now' = "add_sta_self"
  BY <1>1, Names DEF add_interface, Singles, Now
<1>4. remove_interface => todo' \in Lists /\ Now' = "delete_sta_self"
  BY <1>1, Names DEF remove_interface, Singles, Now
<1>5. ASSUME NEW probe \in BOOLEAN, ConfigureBeacon(probe)
      PROVE  todo' \in Lists /\ Now' = IF probe THEN "proberesp_get" ELSE "bss_invalid"
  <2>1. ASSUME NEW a, NEW b, NEW c, NEW d, NEW e, NEW f, NEW g
        PROVE  <<a, b>> \o <<c, d, e, f, g>> = <<a, b, c, d, e, f, g>>
    <3> DEFINE S == {a, b, c, d, e, f, g}
               l == <<a, b>> \o <<c, d, e, f, g>>
               m == <<a, b, c, d, e, f, g>>
    <3>1. a \in S /\ b \in S /\ c \in S /\ d \in S /\ e \in S /\ f \in S /\ g \in S
      OBVIOUS
    <3> HIDE DEF S
    <3>2. l \in Seq(S) /\ Len(l) = 7
      BY <3>1
    <3>3. m \in Seq(S) /\ Len(m) = 7
      BY <3>1
    <3>4. l[1] = m[1] /\ l[2] = m[2] /\ l[3] = m[3] /\ l[4] = m[4]
      OBVIOUS
    <3>5. l[5] = m[5] /\ l[6] = m[6] /\ l[7] = m[7]
      OBVIOUS
    <3> HIDE DEF l, m
    <3>6. \A i \in 1..Len(l) : l[i] = m[i]
      <4>1. \A i \in 1..Len(l) : i \in {1, 2, 3, 4, 5, 6, 7}
        BY <3>2
      <4> QED
        BY <3>4, <3>5, <4>1
    <3>7. l = m
      BY <3>2, <3>3, <3>6, SeqEqual
    <3> QED
      BY <3>7 DEF l, m
  <2>2. <<Do("proberesp_get"), Do("update_proberesp_tmpl")>> \o Con5 = Con7
    BY <2>1 DEF Con5, Con7
  <2>3. <<>> \o Con5 = Con5
    <3>1. Con5 \in Lists
      BY DEF Lists
    <3>2. Con5 \in Seq(StepType)
      BY <3>1, ListsTyped
    <3> QED
      BY <3>2, ConcatEmptySeq
  <2>4. todo' = IF probe THEN Con7 ELSE Con5
    <3>1. todo' = (IF probe THEN <<Do("proberesp_get"), Do("update_proberesp_tmpl")>> ELSE <<>>)
                    \o Con5
      BY <1>5 DEF ConfigureBeacon, Con5
    <3> QED
      BY <2>2, <2>3, <3>1
  <2>5. Con7 \in Lists /\ Con5 \in Lists
    BY DEF Lists
  <2> QED
    BY <2>4, <2>5, Names DEF Now
<1>6. BeaconOff => todo' \in Lists /\ Now' = "link_idle"
  <2>1. <<Do("link_idle"), Do("delete_bss")>> \in Lists
    BY DEF Lists
  <2> QED
    BY <2>1, Names DEF BeaconOff, Now
<1>7. GroupKey => /\ todo' \in Lists
                  /\ Now' = IF mac.group THEN "remove_bsskey" ELSE "set_bsskey"
  <2>1. \A c \in {"remove_bsskey", "set_bsskey"} : <<Do(c)>> \in Lists /\ NameOf(<<Do(c)>>) = c
    BY <1>1, Names DEF Singles
  <2>2. GroupKey => todo' = <<Do(IF mac.group THEN "remove_bsskey" ELSE "set_bsskey")>>
    BY DEF GroupKey
  <2>3. (IF mac.group THEN "remove_bsskey" ELSE "set_bsskey") \in {"remove_bsskey", "set_bsskey"}
    OBVIOUS
  <2> QED
    BY <2>1, <2>2, <2>3 DEF Now
<1>8. ASSUME NEW p \in Peers
      PROVE  /\ sta_add(p) => todo' \in Lists /\ Now' = "config_sta" /\ Of' = p
             /\ sta_remove(p) => todo' \in Lists /\ Now' = "delete_sta" /\ Of' = p
             /\ SetPairwiseKey(p) => todo' \in Lists /\ Now' = "set_stakey" /\ Of' = p
             /\ DisablePairwiseKey(p) =>
                  /\ todo' \in Lists
                  /\ IF sta[p].aid THEN Now' = "remove_stakey" /\ Of' = p ELSE Now' = "idle"
  <2>1. sta_add(p) => todo' \in Lists /\ Now' = "config_sta" /\ Of' = p
    BY <1>2, Names DEF sta_add, PeerSingles, Now, Of
  <2>2. sta_remove(p) => todo' \in Lists /\ Now' = "delete_sta" /\ Of' = p
    <3>1. <<For("delete_sta", p), For("gone", p)>> \in Lists
      BY DEF Lists
    <3> QED
      BY <3>1, Names DEF sta_remove, Now, Of
  <2>3. SetPairwiseKey(p) => todo' \in Lists /\ Now' = "set_stakey" /\ Of' = p
    BY <1>2, Names DEF SetPairwiseKey, PeerSingles, Now, Of
  <2>4. DisablePairwiseKey(p) =>
          /\ todo' \in Lists
          /\ IF sta[p].aid THEN Now' = "remove_stakey" /\ Of' = p ELSE Now' = "idle"
    <3>1. <<>> \in Lists /\ <<For("remove_stakey", p)>> \in Lists
      BY <1>2 DEF Lists, PeerSingles
    <3> QED
      BY <3>1, Names DEF DisablePairwiseKey, Now, Of
  <2> QED
    BY <2>1, <2>2, <2>3, <2>4
<1> QED
  BY <1>3, <1>4, <1>5, <1>6, <1>7, <1>8

LEMMA MacCallTyped ==
  ASSUME TypeOK, MacCall
  PROVE  TypeOK'
<1> USE Typed
<1>1. todo' \in Seq(StepType)
  <2>1. todo' \in Lists
    BY Called DEF MacCall, BeaconOn, BeaconChange
  <2> QED
    BY <2>1, ListsTyped
<1>2. UNCHANGED <<fw, history, faults>>
  BY DEF MacCall, add_interface, remove_interface, BeaconOn, BeaconChange, BeaconOff,
     GroupKey, sta_add, sta_remove, SetPairwiseKey, DisablePairwiseKey
<1>3. /\ vif' \in VifType /\ mac' \in MacType
      /\ sta' \in [Peers -> PeerType]
  <2>1. CASE add_interface
    BY <2>1, Constants DEF add_interface, NoVif, VifType, Types, MacType
  <2>2. CASE remove_interface \/ BeaconOff
    BY <2>2 DEF remove_interface, BeaconOff, MacType
  <2>3. CASE BeaconOn
    BY <2>3 DEF BeaconOn, MacType
  <2>4. CASE BeaconChange
    BY <2>4 DEF BeaconChange, MacType
  <2>5. CASE GroupKey
    BY <2>5 DEF GroupKey, MacType, VifType
  <2>6. ASSUME NEW p \in Peers, sta_add(p)
        PROVE  vif' \in VifType /\ mac' \in MacType /\ sta' \in [Peers -> PeerType]
    <3>1. PICK mask \in Masks :
            sta' = [sta EXCEPT ![p].aid = TRUE, ![p].mask = mask,
                               ![p].rates = update_allowed_rates(mask, mac.band)]
      BY <2>6 DEF sta_add
    <3>2. update_allowed_rates(mask, mac.band) \in Rates
      BY Constants
    <3>3. sta' \in [Peers -> PeerType]
      BY ZenonT(40), <3>1, <3>2 DEF PeerType
    <3> QED
      BY <2>6, <3>3 DEF sta_add, MacType
  <2>7. ASSUME NEW p \in Peers, sta_remove(p)
        PROVE  vif' \in VifType /\ mac' \in MacType /\ sta' \in [Peers -> PeerType]
    BY <2>7 DEF sta_remove, MacType
  <2>8. ASSUME NEW p \in Peers, SetPairwiseKey(p)
        PROVE  vif' \in VifType /\ mac' \in MacType /\ sta' \in [Peers -> PeerType]
    BY ZenonT(40), <2>8 DEF SetPairwiseKey, MacType, VifType, PeerType
  <2>9. ASSUME NEW p \in Peers, DisablePairwiseKey(p)
        PROVE  vif' \in VifType /\ mac' \in MacType /\ sta' \in [Peers -> PeerType]
    BY <2>9 DEF DisablePairwiseKey, MacType, PeerType
  <2> QED
    BY <2>1, <2>2, <2>3, <2>4, <2>5, <2>6, <2>7, <2>8, <2>9 DEF MacCall
<1> QED
  BY <1>1, <1>2, <1>3, Typed1

LEMMA NextTyped == TypeOK /\ [Next]_vars => TypeOK'
<1> SUFFICES ASSUME TypeOK, [Next]_vars PROVE TypeOK'
  OBVIOUS
<1>1. CASE UNCHANGED vars
  BY <1>1, Typed, Typed1 DEF vars
<1> QED
  BY <1>1, SmdTyped, MacCallTyped DEF Next

\* Whatever the beacons, the peers and the faults, every variable keeps its
\* type; the template the firmware has fits into the message (smd.c:1421).
THEOREM TypeCorrect == Spec => []TypeOK
<1>1. Init => TypeOK
  BY InitTyped
<1>2. TypeOK /\ [Next]_vars => TypeOK'
  BY NextTyped
<1> QED
  BY <1>1, <1>2, PTL DEF Spec

-----------------------------------------------------------------------------
(* What holds whatever the faults.                                         *)

\* The driver's record of a peer: whether it has a key, and the rates it was
\* added with.
Known ==
  /\ "kept" \in history => "refused" \in history
  /\ \A p \in Peers :
       /\ sta[p].is_data_encrypted <=> p \in mac.keys
       /\ p \in mac.peers =>
            sta[p].aid /\ sta[p].rates = update_allowed_rates(sta[p].mask, mac.band)
Core == TypeOK /\ Place /\ Known

\* What every step of a callback has in common.
LEMMA SmdMoves ==
  ASSUME TypeOK, Smd
  PROVE  /\ todo # <<>> /\ mac' = mac /\ history \subseteq history'
         /\ todo' = Tail(todo) \/ NoSkb
         /\ "kept" \in history' => "kept" \in history \/ "refused" \in history'
         /\ \/ sta' = sta
            \/ ConfigSta /\ sta' = [sta EXCEPT ![Of].sta_index = FirstFree]
            \/ At("gone") /\ sta' = [sta EXCEPT ![Of] = NoSta]
<1>1. CASE NoSkb
  BY <1>1 DEF NoSkb, At
<1>2. CASE Assign
  BY <1>2 DEF Assign, At, Silent
<1>3. CASE AddStaSelf
  <2>1. PICK o : /\ Ask(o, "add_sta_self", FreeSta # {}, SelfAdded)
                 /\ IF o = "ok" THEN vif' = [vif EXCEPT !.self_sta_index = FirstFree] /\ sta' = sta
                    ELSE Silent
    BY <1>3, Forms
  <2>2. sta' = sta
    BY <2>1 DEF Silent
  <2> QED
    BY <2>1, <2>2, Asked
<1>4. CASE ConfigBss
  <2>1. PICK o : /\ Ask(o, "config_bss", fw.bss \/ FreeSta # {}, BssMade)
                 /\ IF o = "ok" THEN vif' = [vif EXCEPT !.bss_index = 0] /\ sta' = sta
                    ELSE Silent
    BY <1>4, Forms
  <2>2. sta' = sta
    BY <2>1 DEF Silent
  <2> QED
    BY <2>1, <2>2, Asked
<1>5. CASE ConfigSta
  <2>1. PICK o : /\ Ask(o, "config_sta", HasBss /\ FreeSta # {}, StaMade(FirstFree, Of))
                 /\ IF o = "ok" THEN sta' = [sta EXCEPT ![Of].sta_index = FirstFree] /\ vif' = vif
                    ELSE Silent
    BY <1>5, Forms
  <2>2. sta' = sta \/ sta' = [sta EXCEPT ![Of].sta_index = FirstFree]
    BY <2>1 DEF Silent
  <2> QED
    BY <1>5, <2>1, <2>2, Asked
<1>6. ASSUME NEW o, NEW c, NEW known, NEW effect, Ask(o, c, known, effect), Silent
      PROVE  /\ todo # <<>> /\ mac' = mac /\ history \subseteq history'
             /\ todo' = Tail(todo)
             /\ "kept" \in history' => "kept" \in history \/ "refused" \in history'
             /\ sta' = sta
  BY <1>6, Asked DEF Silent
<1>7. CASE DeleteStaSelf \/ DeleteBss \/ UpdateProbeResp
  BY <1>6, <1>7, Forms
<1>8. CASE SendBeacon \/ SetLinkSt
  BY <1>6, <1>8, Forms
<1>9. CASE DeleteSta \/ SetStaKey
  BY <1>6, <1>9, Forms
<1>10. CASE RemoveStaKey \/ BssKey
  BY <1>6, <1>10, Forms
<1> QED
  BY <1>1, <1>2, <1>3, <1>4, <1>5, <1>7, <1>8, <1>9, <1>10 DEF Smd

LEMMA PlaceSmd ==
  ASSUME TypeOK, Place, Smd
  PROVE  Place' /\ (NoSkb => Now' = "idle")
<1>1. CASE NoSkb
  <2>1. todo' = <<>> /\ mac' = mac
    BY <1>1 DEF NoSkb
  <2>2. Now' = "idle" /\ todo' \in Lists
    BY <2>1, Names DEF Now, Lists
  <2> QED
    BY <2>1, <2>2 DEF Place, Moment, Unsent, Reconfigures, PeerSteps
<1>2. CASE ~NoSkb
  BY <1>2, SmdMoves, Advances
<1> QED
  BY <1>1, <1>2

\* Callbacks begin when none is under way.
LEMMA MacCallBegins ==
  MacCall => Idle /\ Now = "idle" /\ UNCHANGED <<fw, history, faults>>
BY NowIs DEF MacCall, add_interface, remove_interface, BeaconOn, BeaconChange, BeaconOff,
   GroupKey, sta_add, sta_remove, SetPairwiseKey, DisablePairwiseKey, Call

LEMMA CoreMacCall ==
  ASSUME Core, MacCall
  PROVE  Place' /\ Known'
<1>1. /\ TypeOK /\ Place /\ Known /\ mac \in MacType /\ sta \in [Peers -> PeerType]
      /\ history' = history
  BY MacCallBegins, Typed DEF Core
<1>2. CASE add_interface
  <2>1. /\ mac' = [mac EXCEPT !.phase = "idle"] /\ sta' = sta /\ mac.phase = "none"
        /\ todo' \in Lists /\ Now' = "add_sta_self"
    BY <1>2, Called DEF add_interface, Call
  <2>2. mac'.phase = "idle" /\ UNCHANGED <<mac.peers, mac.keys, mac.group, mac.band>>
    BY <1>1, <2>1 DEF MacType
  <2> QED
    BY <1>1, <2>1, <2>2 DEF Place, Moment, Known, Unsent, Reconfigures, PeerSteps
<1>3. CASE remove_interface
  <2>1. /\ mac' = [mac EXCEPT !.phase = "none"] /\ sta' = sta /\ mac.phase = "idle"
        /\ todo' \in Lists /\ Now' = "delete_sta_self"
    BY <1>3, Called DEF remove_interface, Call
  <2>2. mac'.phase = "none" /\ UNCHANGED <<mac.peers, mac.keys, mac.group, mac.band>>
    BY <1>1, <2>1 DEF MacType
  <2> QED
    BY <1>1, <2>1, <2>2 DEF Place, Moment, Known, Unsent, Reconfigures, PeerSteps
<1>4. CASE BeaconOn
  <2>1. PICK b \in Beacons, band \in {2, 5}, probe \in BOOLEAN :
          mac' = [mac EXCEPT !.phase = "on", !.band = band, !.beacon = b]
          /\ ConfigureBeacon(probe)
    BY <1>4 DEF BeaconOn
  <2>2. todo' \in Lists /\ Now' \in {"proberesp_get", "bss_invalid"}
    BY <2>1, Called
  <2>3. sta' = sta /\ mac.phase = "idle"
    BY <1>4 DEF BeaconOn, Call
  <2>4. mac'.phase = "on" /\ UNCHANGED <<mac.peers, mac.keys, mac.group>>
    BY <1>1, <2>1 DEF MacType
  <2>5. mac.peers = {}
    BY <1>1, <2>3 DEF Place, Moment
  <2> QED
    BY <1>1, <2>2, <2>3, <2>4, <2>5 DEF Place, Moment, Known, Unsent, Reconfigures, PeerSteps
<1>5. CASE BeaconChange
  <2>1. PICK b \in Beacons : mac' = [mac EXCEPT !.beacon = b]
    BY <1>5 DEF BeaconChange
  <2>2. todo' \in Lists /\ Now' = "bss_invalid"
    BY <1>5, Called DEF BeaconChange
  <2>3. sta' = sta /\ mac.phase = "on"
    BY <1>5 DEF BeaconChange, Call
  <2>4. mac'.phase = "on" /\ UNCHANGED <<mac.peers, mac.keys, mac.group, mac.band>>
    BY <1>1, <2>1, <2>3 DEF MacType
  <2> QED
    BY <1>1, <2>2, <2>3, <2>4 DEF Place, Moment, Known, Unsent, Reconfigures, PeerSteps
<1>6. CASE BeaconOff
  <2>1. /\ mac' = [mac EXCEPT !.phase = "idle"] /\ sta' = sta /\ mac.peers = {} /\ ~mac.group
        /\ todo' \in Lists /\ Now' = "link_idle"
    BY <1>6, Called DEF BeaconOff, Call
  <2>2. mac'.phase = "idle" /\ UNCHANGED <<mac.peers, mac.keys, mac.group, mac.band>>
    BY <1>1, <2>1 DEF MacType
  <2> QED
    BY <1>1, <2>1, <2>2 DEF Place, Moment, Known, Unsent, Reconfigures, PeerSteps
<1>7. CASE GroupKey
  <2>1. /\ mac' = [mac EXCEPT !.group = ~mac.group] /\ sta' = sta /\ mac.phase = "on"
        /\ todo' \in Lists /\ Now' = IF mac.group THEN "remove_bsskey" ELSE "set_bsskey"
    BY <1>7, Called DEF GroupKey, Call
  <2>2. /\ mac'.group = ~mac.group /\ mac'.phase = "on"
        /\ UNCHANGED <<mac.peers, mac.keys, mac.band>>
    BY <1>1, <2>1 DEF MacType
  <2> QED
    BY <1>1, <2>1, <2>2 DEF Place, Moment, Known, Unsent, Reconfigures, PeerSteps
<1>8. ASSUME NEW p \in Peers, sta_add(p)
      PROVE  Place' /\ Known'
  <2>1. /\ mac' = [mac EXCEPT !.peers = @ \cup {p}] /\ mac.phase = "on" /\ p \notin mac.peers
        /\ todo' \in Lists /\ Now' = "config_sta" /\ Of' = p
    BY <1>8, Called DEF sta_add, Call
  <2>2. PICK mask \in Masks :
          sta' = [sta EXCEPT ![p].aid = TRUE, ![p].mask = mask,
                             ![p].rates = update_allowed_rates(mask, mac.band)]
    BY <1>8 DEF sta_add
  <2>3. /\ mac'.peers = mac.peers \cup {p} /\ mac'.phase = "on"
        /\ UNCHANGED <<mac.keys, mac.group, mac.band>>
    BY <1>1, <2>1 DEF MacType
  <2>4. Place'
    BY <1>1, <2>1, <2>3 DEF Place, Moment, Unsent, Reconfigures, PeerSteps
  <2>5. /\ \A q \in Peers \ {p} : sta'[q] = sta[q]
        /\ sta'[p].is_data_encrypted = sta[p].is_data_encrypted /\ sta'[p].aid
        /\ sta'[p].mask = mask /\ sta'[p].rates = update_allowed_rates(mask, mac.band)
    BY <1>1, <2>2 DEF PeerType
  <2> QED
    BY <1>1, <2>3, <2>4, <2>5 DEF Known
<1>9. ASSUME NEW p \in Peers, sta_remove(p)
      PROVE  Place' /\ Known'
  <2>1. /\ mac' = [mac EXCEPT !.peers = @ \ {p}] /\ mac.phase = "on"
        /\ p \in mac.peers \ mac.keys /\ sta' = sta
        /\ todo' \in Lists /\ Now' = "delete_sta" /\ Of' = p
    BY <1>9, Called DEF sta_remove, Call
  <2>2. /\ mac'.peers = mac.peers \ {p} /\ mac'.phase = "on"
        /\ UNCHANGED <<mac.keys, mac.group, mac.band>>
    BY <1>1, <2>1 DEF MacType
  <2> QED
    BY <1>1, <2>1, <2>2 DEF Place, Moment, Known, Unsent, Reconfigures, PeerSteps
<1>10. ASSUME NEW p \in Peers, SetPairwiseKey(p)
       PROVE  Place' /\ Known'
  <2>1. /\ mac' = [mac EXCEPT !.keys = @ \cup {p}] /\ mac.phase = "on" /\ p \in mac.peers
        /\ sta' = [sta EXCEPT ![p].is_data_encrypted = TRUE]
        /\ todo' \in Lists /\ Now' = "set_stakey" /\ Of' = p
    BY <1>10, Called DEF SetPairwiseKey, Call
  <2>2. /\ mac'.keys = mac.keys \cup {p} /\ mac'.phase = "on"
        /\ UNCHANGED <<mac.peers, mac.group, mac.band>>
    BY <1>1, <2>1 DEF MacType
  <2>3. Place'
    BY <1>1, <2>1, <2>2 DEF Place, Moment, Unsent, Reconfigures, PeerSteps
  <2>4. /\ \A q \in Peers \ {p} : sta'[q] = sta[q]
        /\ sta'[p].is_data_encrypted /\ sta'[p].aid = sta[p].aid
        /\ sta'[p].mask = sta[p].mask /\ sta'[p].rates = sta[p].rates
    BY <1>1, <2>1 DEF PeerType
  <2> QED
    BY <1>1, <2>2, <2>3, <2>4 DEF Known
<1>11. ASSUME NEW p \in Peers, DisablePairwiseKey(p)
       PROVE  Place' /\ Known'
  <2>1. /\ mac' = [mac EXCEPT !.keys = @ \ {p}] /\ mac.phase = "on" /\ p \in mac.keys
        /\ sta' = [sta EXCEPT ![p].is_data_encrypted = FALSE]
        /\ todo' \in Lists
        /\ IF sta[p].aid THEN Now' = "remove_stakey" /\ Of' = p ELSE Now' = "idle"
    BY <1>11, Called DEF DisablePairwiseKey, Call
  <2>2. /\ mac'.keys = mac.keys \ {p} /\ mac'.phase = "on"
        /\ UNCHANGED <<mac.peers, mac.group, mac.band>>
    BY <1>1, <2>1 DEF MacType
  <2>3. sta[p].aid
    BY <1>1, <2>1 DEF Known, Place, Moment
  <2>4. Place'
    BY <1>1, <2>1, <2>2, <2>3 DEF Place, Moment, Unsent, Reconfigures, PeerSteps
  <2>5. /\ \A q \in Peers \ {p} : sta'[q] = sta[q]
        /\ ~sta'[p].is_data_encrypted /\ sta'[p].aid = sta[p].aid
        /\ sta'[p].mask = sta[p].mask /\ sta'[p].rates = sta[p].rates
    BY <1>1, <2>1 DEF PeerType
  <2> QED
    BY <1>1, <2>2, <2>4, <2>5 DEF Known
<1> QED
  BY <1>2, <1>3, <1>4, <1>5, <1>6, <1>7, <1>8, <1>9, <1>10, <1>11 DEF MacCall

LEMMA CoreInit == Init => Core
<1> SUFFICES ASSUME Init PROVE Core
  OBVIOUS
<1>1. /\ todo = <<>> /\ history = {} /\ mac.phase = "none" /\ mac.peers = {} /\ mac.keys = {}
      /\ mac.group = FALSE /\ sta = [p \in Peers |-> NoSta]
  BY DEF Init
<1>2. todo \in Lists /\ Now = "idle"
  BY <1>1, Names DEF Lists, Now
<1>3. Place
  BY <1>1, <1>2 DEF Place, Moment, Unsent, Reconfigures, PeerSteps
<1>4. Known
  BY <1>1 DEF Known, NoSta
<1> QED
  BY <1>3, <1>4, InitTyped DEF Core

LEMMA CoreNext == Core /\ [Next]_vars => Core'
<1> SUFFICES ASSUME Core, [Next]_vars PROVE Core'
  OBVIOUS
<1>1. TypeOK'
  BY NextTyped DEF Core
<1>2. CASE UNCHANGED vars
  BY <1>1, <1>2 DEF Core, Place, Moment, Known, Now, Of, vars
<1>3. CASE MacCall
  BY <1>1, <1>3, CoreMacCall DEF Core
<1>4. CASE Smd
  <2>1. /\ TypeOK /\ Place /\ Known /\ mac' = mac /\ sta \in [Peers -> PeerType]
    BY <1>4, SmdMoves, Typed DEF Core
  <2>2. "kept" \in history' => "refused" \in history'
    BY <1>4, <2>1, SmdMoves DEF Known
  <2>3. ASSUME NEW p \in Peers
        PROVE  /\ sta'[p].is_data_encrypted <=> p \in mac.keys
               /\ p \in mac.peers =>
                    sta'[p].aid /\ sta'[p].rates = update_allowed_rates(sta'[p].mask, mac.band)
    <3>1. CASE sta' = sta
      BY <2>1, <3>1 DEF Known
    <3>2. CASE sta' = [sta EXCEPT ![Of].sta_index = FirstFree]
      <4>1. /\ sta'[p].is_data_encrypted = sta[p].is_data_encrypted /\ sta'[p].aid = sta[p].aid
            /\ sta'[p].mask = sta[p].mask /\ sta'[p].rates = sta[p].rates
        BY <2>1, <3>2 DEF PeerType
      <4> QED
        BY <2>1, <4>1 DEF Known
    <3>3. CASE At("gone") /\ sta' = [sta EXCEPT ![Of] = NoSta]
      <4>1. Of \notin mac.peers /\ mac.keys \subseteq mac.peers
        <5>1. Now = "gone"
          BY <3>3, NowIs DEF PeerSteps
        <5> QED
          BY <2>1, <5>1 DEF Place, Moment
      <4>2. CASE p = Of
        <5>1. sta'[p] = NoSta
          BY <2>1, <3>3, <4>2
        <5> QED
          BY <4>1, <4>2, <5>1 DEF NoSta
      <4>3. CASE p # Of
        <5>1. sta'[p] = sta[p]
          BY <2>1, <3>3, <4>3
        <5> QED
          BY <2>1, <5>1 DEF Known
      <4> QED
        BY <4>2, <4>3
    <3> QED
      BY <1>4, <2>1, <3>1, <3>2, <3>3, SmdMoves
  <2>4. Known'
    BY <2>1, <2>2, <2>3 DEF Known
  <2> QED
    BY <1>1, <1>4, <2>1, <2>4, PlaceSmd DEF Core
<1> QED
  BY <1>2, <1>3, <1>4 DEF Next

\* The step that is next as the step under way ends.
LEMMA SmdNow ==
  ASSUME TypeOK, Place, Smd
  PROVE  /\ Now \in Steps \cup PeerSteps /\ Place'
         /\ IF NoSkb THEN Now \in {"proberesp_get", "beacon_get"} /\ Now' = "idle"
            ELSE Now' = After(Now) /\ (Now = "delete_sta" => Of' = Of)
         /\ Now' \in (Unsent \ {"proberesp_get"}) \cup {"idle", "link_on", "delete_bss", "gone"}
         /\ Now' \in Reconfigures => Now \in Reconfigures
         /\ Now' \in Unsent => Now \in Unsent
         /\ (Now = "link_idle" => Now' = "delete_bss") /\ (Now' = "delete_bss" => Now = "link_idle")
         /\ (Now' = "config_bss" <=> Now = "bss_invalid")
<1>1. Now \in Steps \cup PeerSteps
  BY SmdMoves, HeadOf DEF Now, NameOf
<1>2. CASE NoSkb
  <2>1. Now \in {"proberesp_get", "beacon_get"}
    BY <1>2, NowIs DEF NoSkb, Steps
  <2>2. Now' = "idle" /\ Place'
    BY <1>2, PlaceSmd
  <2> QED
    BY <1>1, <1>2, <2>1, <2>2 DEF Unsent, Reconfigures
<1>3. CASE ~NoSkb
  <2>1. Place' /\ Now' = After(Now) /\ (Now = "delete_sta" => Of' = Of)
    BY <1>3, SmdMoves, Advances
  <2>2. \/ Now = "proberesp_get" /\ Now' = "update_proberesp_tmpl"
        \/ Now = "update_proberesp_tmpl" /\ Now' = "bss_invalid"
        \/ Now = "bss_invalid" /\ Now' = "config_bss"
        \/ Now = "config_bss" /\ Now' = "beacon_get"
        \/ Now = "beacon_get" /\ Now' = "send_beacon"
        \/ Now = "send_beacon" /\ Now' = "link_on"
        \/ Now = "link_idle" /\ Now' = "delete_bss"
        \/ Now = "delete_sta" /\ Now' = "gone"
        \/ Now \in {"link_on"} \cup Singles \cup PeerSingles /\ Now' = "idle"
    BY <1>1, <2>1, AfterIs DEF Steps, PeerSteps, Singles, PeerSingles
  <2> QED
    BY <1>1, <1>3, <2>1, <2>2 DEF Unsent, Reconfigures, Singles, PeerSingles
<1> QED
  BY <1>2, <1>3

\* The effects of commands, entry by entry.
LEMMA Effects ==
  ASSUME TypeOK
  PROVE  /\ LET f == SelfAdded IN
              /\ f.bss = fw.bss /\ f.of = fw.of /\ f.bsskey = fw.bsskey
              /\ f.stakey = fw.stakey /\ f.rates = fw.rates /\ f.beacon = fw.beacon
              /\ \A i \in StaIdx : f.sta[i] = IF i = FirstFree THEN "self" ELSE fw.sta[i]
         /\ LET f == SelfDeleted IN
              /\ f.bss = fw.bss /\ f.of = fw.of /\ f.bsskey = fw.bsskey
              /\ f.stakey = fw.stakey /\ f.rates = fw.rates /\ f.beacon = fw.beacon
              /\ \A i \in StaIdx : f.sta[i] = IF fw.sta[i] = "self" THEN "free" ELSE fw.sta[i]
         /\ LET f == BssMade IN
              /\ f.bss /\ f.bsskey = fw.bsskey /\ f.stakey = fw.stakey /\ f.beacon = fw.beacon
              /\ fw.bss => f = fw
              /\ ~fw.bss => f.of = FirstFree
              /\ \A i \in StaIdx :
                   ~fw.bss => /\ f.sta[i] = IF i = FirstFree THEN "bss" ELSE fw.sta[i]
                              /\ i # FirstFree => f.rates[i] = fw.rates[i]
         /\ LET f == BssDeleted IN
              /\ ~f.bss /\ ~f.bsskey /\ f.stakey = fw.stakey
              /\ \A i \in StaIdx : /\ f.sta[i] = IF i = fw.of THEN "free" ELSE fw.sta[i]
                                   /\ i # fw.of => f.rates[i] = fw.rates[i]
         /\ \A n \in StaIdx, p \in Peers :
              LET f == StaMade(n, p) IN
              /\ f.bss = fw.bss /\ f.of = fw.of /\ f.bsskey = fw.bsskey
              /\ f.stakey = fw.stakey /\ f.beacon = fw.beacon
              /\ \A i \in StaIdx : /\ f.sta[i] = IF i = n THEN p ELSE fw.sta[i]
                                   /\ f.rates[i] = IF i = n THEN sta[p].rates ELSE fw.rates[i]
         /\ \A n \in StaIdx :
              LET f == StaDeleted(n) IN
              /\ f.bss = fw.bss /\ f.of = fw.of /\ f.bsskey = fw.bsskey
              /\ f.stakey = fw.stakey \ {n} /\ f.beacon = fw.beacon
              /\ \A i \in StaIdx : /\ f.sta[i] = IF i = n THEN "free" ELSE fw.sta[i]
                                   /\ i # n => f.rates[i] = fw.rates[i]
<1>1. fw \in FwType
  BY Typed
<1>2. LET f == SelfAdded IN
        /\ f.bss = fw.bss /\ f.of = fw.of /\ f.bsskey = fw.bsskey
        /\ f.stakey = fw.stakey /\ f.rates = fw.rates /\ f.beacon = fw.beacon
        /\ \A i \in StaIdx : f.sta[i] = IF i = FirstFree THEN "self" ELSE fw.sta[i]
  BY <1>1 DEF SelfAdded, FwType
<1>3. LET f == SelfDeleted IN
        /\ f.bss = fw.bss /\ f.of = fw.of /\ f.bsskey = fw.bsskey
        /\ f.stakey = fw.stakey /\ f.rates = fw.rates /\ f.beacon = fw.beacon
        /\ \A i \in StaIdx : f.sta[i] = IF fw.sta[i] = "self" THEN "free" ELSE fw.sta[i]
  BY <1>1 DEF SelfDeleted, FwType
<1>4. LET f == BssMade IN
        /\ f.bss /\ f.bsskey = fw.bsskey /\ f.stakey = fw.stakey /\ f.beacon = fw.beacon
        /\ fw.bss => f = fw
        /\ ~fw.bss => f.of = FirstFree
        /\ \A i \in StaIdx :
             ~fw.bss => /\ f.sta[i] = IF i = FirstFree THEN "bss" ELSE fw.sta[i]
                        /\ i # FirstFree => f.rates[i] = fw.rates[i]
  BY <1>1 DEF BssMade, FwType
<1>5. LET f == BssDeleted IN
        /\ ~f.bss /\ ~f.bsskey /\ f.stakey = fw.stakey
        /\ \A i \in StaIdx : /\ f.sta[i] = IF i = fw.of THEN "free" ELSE fw.sta[i]
                             /\ i # fw.of => f.rates[i] = fw.rates[i]
  BY <1>1 DEF BssDeleted, FwType
<1>6. ASSUME NEW n \in StaIdx, NEW p \in Peers
      PROVE  LET f == StaMade(n, p) IN
             /\ f.bss = fw.bss /\ f.of = fw.of /\ f.bsskey = fw.bsskey
             /\ f.stakey = fw.stakey /\ f.beacon = fw.beacon
             /\ \A i \in StaIdx : /\ f.sta[i] = IF i = n THEN p ELSE fw.sta[i]
                                  /\ f.rates[i] = IF i = n THEN sta[p].rates ELSE fw.rates[i]
  BY <1>1 DEF StaMade, FwType
<1>7. ASSUME NEW n \in StaIdx
      PROVE  LET f == StaDeleted(n) IN
             /\ f.bss = fw.bss /\ f.of = fw.of /\ f.bsskey = fw.bsskey
             /\ f.stakey = fw.stakey \ {n} /\ f.beacon = fw.beacon
             /\ \A i \in StaIdx : /\ f.sta[i] = IF i = n THEN "free" ELSE fw.sta[i]
                                  /\ i # n => f.rates[i] = fw.rates[i]
  BY <1>1 DEF StaDeleted, FwType
<1> QED
  BY <1>2, <1>3, <1>4, <1>5, <1>6, <1>7

\* What the callbacks change before their first command.
SameMac == mac'.peers = mac.peers /\ mac'.keys = mac.keys /\ mac'.group = mac.group
SameVif == vif'.bss_index = vif.bss_index /\ vif'.self_sta_index = vif.self_sta_index
           /\ vif'.type = vif.type
SameIndex == \A p \in Peers : sta'[p].sta_index = sta[p].sta_index

LEMMA MacCallIs ==
  ASSUME Core
  PROVE  /\ add_interface =>
              /\ mac.phase = "none" /\ mac'.phase = "idle" /\ Now' = "add_sta_self"
              /\ SameMac /\ sta' = sta
         /\ remove_interface =>
              /\ mac.phase = "idle" /\ mac'.phase = "none" /\ Now' = "delete_sta_self"
              /\ SameMac /\ sta' = sta /\ vif' = vif
         /\ BeaconOn =>
              /\ mac.phase = "idle" /\ mac'.phase = "on"
              /\ Now' \in {"proberesp_get", "bss_invalid"} /\ SameMac /\ sta' = sta /\ vif' = vif
         /\ BeaconChange =>
              /\ mac.phase = "on" /\ mac'.phase = "on" /\ Now' = "bss_invalid"
              /\ SameMac /\ sta' = sta /\ vif' = vif
         /\ BeaconOff =>
              /\ mac.phase = "on" /\ mac'.phase = "idle" /\ Now' = "link_idle"
              /\ mac.peers = {} /\ ~mac.group /\ SameMac /\ sta' = sta /\ vif' = vif
         /\ GroupKey =>
              /\ mac.phase = "on" /\ mac'.phase = "on" /\ mac'.group = ~mac.group
              /\ Now' = IF mac.group THEN "remove_bsskey" ELSE "set_bsskey"
              /\ mac'.peers = mac.peers /\ mac'.keys = mac.keys /\ mac'.beacon = mac.beacon
              /\ sta' = sta /\ SameVif
         /\ \A p \in Peers :
              /\ sta_add(p) =>
                   /\ mac.phase = "on" /\ mac'.phase = "on" /\ Now' = "config_sta" /\ Of' = p
                   /\ p \notin mac.peers /\ mac'.peers = mac.peers \cup {p}
                   /\ mac'.keys = mac.keys /\ mac'.group = mac.group
                   /\ mac'.beacon = mac.beacon
                   /\ vif' = vif /\ SameIndex
                   /\ \A q \in Peers : q # p => sta'[q].rates = sta[q].rates
              /\ sta_remove(p) =>
                   /\ mac.phase = "on" /\ mac'.phase = "on" /\ Now' = "delete_sta" /\ Of' = p
                   /\ p \in mac.peers \ mac.keys /\ mac'.peers = mac.peers \ {p}
                   /\ mac'.keys = mac.keys /\ mac'.group = mac.group
                   /\ mac'.beacon = mac.beacon /\ vif' = vif /\ sta' = sta
              /\ SetPairwiseKey(p) =>
                   /\ mac.phase = "on" /\ mac'.phase = "on" /\ Now' = "set_stakey" /\ Of' = p
                   /\ p \in mac.peers \ mac.keys /\ mac'.keys = mac.keys \cup {p}
                   /\ mac'.peers = mac.peers /\ mac'.group = mac.group
                   /\ mac'.beacon = mac.beacon /\ SameVif /\ SameIndex
                   /\ \A q \in Peers : sta'[q].rates = sta[q].rates
              /\ DisablePairwiseKey(p) =>
                   /\ mac.phase = "on" /\ mac'.phase = "on" /\ Now' = "remove_stakey" /\ Of' = p
                   /\ p \in mac.keys /\ mac'.keys = mac.keys \ {p}
                   /\ mac'.peers = mac.peers /\ mac'.group = mac.group
                   /\ mac'.beacon = mac.beacon /\ vif' = vif /\ SameIndex
                   /\ \A q \in Peers : sta'[q].rates = sta[q].rates
<1> USE DEF SameMac
<1>1. /\ TypeOK /\ Place /\ Known /\ mac \in MacType /\ sta \in [Peers -> PeerType]
      /\ vif \in VifType
  BY Typed DEF Core
<1>2. add_interface =>
        /\ mac.phase = "none" /\ mac'.phase = "idle" /\ Now' = "add_sta_self"
        /\ SameMac /\ sta' = sta
  BY <1>1, Called DEF add_interface, Call, MacType
<1>3. remove_interface =>
        /\ mac.phase = "idle" /\ mac'.phase = "none" /\ Now' = "delete_sta_self"
        /\ SameMac /\ sta' = sta /\ vif' = vif
  BY <1>1, Called DEF remove_interface, Call, MacType
<1>4. BeaconOn =>
        /\ mac.phase = "idle" /\ mac'.phase = "on"
        /\ Now' \in {"proberesp_get", "bss_invalid"} /\ SameMac /\ sta' = sta /\ vif' = vif
  <2>1. BeaconOn => Now' \in {"proberesp_get", "bss_invalid"}
    BY Called DEF BeaconOn
  <2> QED
    BY <1>1, <2>1 DEF BeaconOn, Call, MacType
<1>5. BeaconChange =>
        /\ mac.phase = "on" /\ mac'.phase = "on" /\ Now' = "bss_invalid"
        /\ SameMac /\ sta' = sta /\ vif' = vif
  <2>1. BeaconChange => Now' = "bss_invalid"
    BY Called DEF BeaconChange
  <2> QED
    BY <1>1, <2>1 DEF BeaconChange, Call, MacType
<1>6. BeaconOff =>
        /\ mac.phase = "on" /\ mac'.phase = "idle" /\ Now' = "link_idle"
        /\ mac.peers = {} /\ ~mac.group /\ SameMac /\ sta' = sta /\ vif' = vif
  BY <1>1, Called DEF BeaconOff, Call, MacType
<1>7. GroupKey =>
        /\ mac.phase = "on" /\ mac'.phase = "on" /\ mac'.group = ~mac.group
        /\ Now' = IF mac.group THEN "remove_bsskey" ELSE "set_bsskey"
        /\ mac'.peers = mac.peers /\ mac'.keys = mac.keys /\ mac'.beacon = mac.beacon
        /\ sta' = sta /\ SameVif
  BY <1>1, Called DEF GroupKey, Call, MacType, VifType, SameVif
<1>8. ASSUME NEW p \in Peers, sta_add(p)
      PROVE  /\ mac.phase = "on" /\ mac'.phase = "on" /\ Now' = "config_sta" /\ Of' = p
             /\ p \notin mac.peers /\ mac'.peers = mac.peers \cup {p}
             /\ mac'.keys = mac.keys /\ mac'.group = mac.group
             /\ mac'.beacon = mac.beacon
             /\ vif' = vif /\ SameIndex
             /\ \A q \in Peers : q # p => sta'[q].rates = sta[q].rates
  <2>1. PICK mask \in Masks :
          sta' = [sta EXCEPT ![p].aid = TRUE, ![p].mask = mask,
                             ![p].rates = update_allowed_rates(mask, mac.band)]
    BY <1>8 DEF sta_add
  <2>2. SameIndex /\ \A q \in Peers : q # p => sta'[q].rates = sta[q].rates
    BY <1>1, <2>1 DEF SameIndex, PeerType
  <2> QED
    BY <1>1, <1>8, <2>2, Called DEF sta_add, Call, MacType
<1>9. ASSUME NEW p \in Peers, sta_remove(p)
      PROVE  /\ mac.phase = "on" /\ mac'.phase = "on" /\ Now' = "delete_sta" /\ Of' = p
             /\ p \in mac.peers \ mac.keys /\ mac'.peers = mac.peers \ {p}
             /\ mac'.keys = mac.keys /\ mac'.group = mac.group
             /\ mac'.beacon = mac.beacon /\ vif' = vif /\ sta' = sta
  BY <1>1, <1>9, Called DEF sta_remove, Call, MacType
<1>10. ASSUME NEW p \in Peers, SetPairwiseKey(p)
       PROVE  /\ mac.phase = "on" /\ mac'.phase = "on" /\ Now' = "set_stakey" /\ Of' = p
              /\ p \in mac.peers \ mac.keys /\ mac'.keys = mac.keys \cup {p}
              /\ mac'.peers = mac.peers /\ mac'.group = mac.group
              /\ mac'.beacon = mac.beacon /\ SameVif /\ SameIndex
              /\ \A q \in Peers : sta'[q].rates = sta[q].rates
  <2>1. SameIndex /\ \A q \in Peers : sta'[q].rates = sta[q].rates
    BY <1>1, <1>10 DEF SetPairwiseKey, SameIndex, PeerType
  <2> QED
    BY <1>1, <1>10, <2>1, Called DEF SetPairwiseKey, Call, MacType, VifType, SameVif
<1>11. ASSUME NEW p \in Peers, DisablePairwiseKey(p)
       PROVE  /\ mac.phase = "on" /\ mac'.phase = "on" /\ Now' = "remove_stakey" /\ Of' = p
              /\ p \in mac.keys /\ mac'.keys = mac.keys \ {p}
              /\ mac'.peers = mac.peers /\ mac'.group = mac.group
              /\ mac'.beacon = mac.beacon /\ vif' = vif /\ SameIndex
              /\ \A q \in Peers : sta'[q].rates = sta[q].rates
  <2>1. SameIndex /\ \A q \in Peers : sta'[q].rates = sta[q].rates
    BY <1>1, <1>11 DEF DisablePairwiseKey, SameIndex, PeerType
  <2>2. sta[p].aid
    BY <1>1, <1>11 DEF DisablePairwiseKey, Known, Place, Moment
  <2> QED
    BY <1>1, <1>11, <2>1, <2>2, Called DEF DisablePairwiseKey, Call, MacType
<1> QED
  BY <1>2, <1>3, <1>4, <1>5, <1>6, <1>7, <1>8, <1>9, <1>10, <1>11

-----------------------------------------------------------------------------
(* What is left in the firmware.                                           *)

\* Unless an index was lost, a removal refused or the BSS not configured, the
\* firmware has a BSS only while the interface beacons or closes, and the driver
\* its index but while it asks for it anew; an entry of the BSS is the BSS's, one
\* of a peer has the index the driver has for it, and the peer is handed over or
\* about to be deleted; and it has a group key only while mac80211 has one.
Clean0 == history \cap {"lost", "kept", "nobss"} = {}
Left == Clean0 =>
  /\ fw.bss => mac.phase = "on" \/ Now \in {"link_idle", "delete_bss"}
  /\ fw.bss /\ Now # "config_bss" => vif.bss_index = 0
  /\ \A i \in StaIdx : fw.sta[i] = "bss" => fw.bss /\ i = fw.of
  /\ \A i \in StaIdx, p \in Peers : fw.sta[i] = p =>
       /\ i = sta[p].sta_index /\ ~(Now = "config_sta" /\ Of = p)
       /\ p \in mac.peers \/ (Now = "delete_sta" /\ Of = p)
  /\ fw.bsskey => mac.group \/ Now = "remove_bsskey"

\* The entries are of four kinds.
LEMMA Kinds ==
  /\ \A p \in Peers : p # "free" /\ p # "self" /\ p # "bss"
  /\ StaIdx \subseteq Nat /\ 0 \in StaIdx
BY ApAssumption DEF StaIdx

\* A step that frees entries at most, and makes no BSS or group key.
LEMMA LeftKept ==
  ASSUME Core, Left, Smd, Now \notin {"config_bss", "delete_bss", "delete_sta", "remove_bsskey"},
         fw'.bss = fw.bss, fw'.of = fw.of, fw'.bsskey => fw.bsskey \/ Now = "set_bsskey",
         \A i \in StaIdx : fw'.sta[i] = fw.sta[i] \/ fw'.sta[i] \in {"free", "self"},
         vif'.bss_index = vif.bss_index \/ Now = "bss_invalid",
         \A p \in Peers : sta'[p].sta_index = sta[p].sta_index \/ p \notin mac.peers
  PROVE  Left'
<1> SUFFICES ASSUME Clean0' PROVE Left'
  BY DEF Left
<1>1. TypeOK /\ Place /\ mac' = mac /\ history \subseteq history'
  BY SmdMoves DEF Core
<1>2. Clean0
  BY <1>1 DEF Clean0
<1>3. /\ (Now = "link_idle" => Now' = "delete_bss") /\ Now' # "config_sta"
      /\ (Now' = "config_bss" <=> Now = "bss_invalid")
  BY <1>1, SmdNow DEF Unsent, Reconfigures
<1>4. Now = "set_bsskey" => mac.group
  BY <1>1 DEF Place, Moment
<1>5. fw'.bss => mac'.phase = "on" \/ Now' \in {"link_idle", "delete_bss"}
  BY <1>1, <1>2, <1>3 DEF Left
<1>6. fw'.bss /\ Now' # "config_bss" => vif'.bss_index = 0
  BY <1>1, <1>2, <1>3 DEF Left
<1>7. \A i \in StaIdx : fw'.sta[i] = "bss" => fw'.bss /\ i = fw'.of
  BY <1>2 DEF Left
<1>8. \A i \in StaIdx, p \in Peers : fw'.sta[i] = p =>
        /\ i = sta'[p].sta_index /\ ~(Now' = "config_sta" /\ Of' = p)
        /\ p \in mac'.peers \/ (Now' = "delete_sta" /\ Of' = p)
  BY <1>1, <1>2, <1>3, Kinds DEF Left
<1>9. fw'.bsskey => mac'.group \/ Now' = "remove_bsskey"
  BY <1>1, <1>2, <1>4 DEF Left
<1> QED
  BY <1>5, <1>6, <1>7, <1>8, <1>9 DEF Left

LEMMA LeftSmd ==
  ASSUME Core, Left, Smd
  PROVE  Left'
<1> SUFFICES ASSUME Clean0' PROVE Left'
  BY DEF Left
<1>1. TypeOK /\ Place /\ mac' = mac /\ history \subseteq history'
  BY SmdMoves DEF Core
<1>2. /\ Clean0 /\ "lost" \notin history' /\ "kept" \notin history' /\ "nobss" \notin history'
      /\ FirstFree \in StaIdx /\ sta \in [Peers -> PeerType] /\ vif \in VifType
  BY <1>1, FirstFreeIn, Typed DEF Clean0
<1>3. /\ Now' \notin {"config_sta", "delete_sta", "remove_bsskey"}
      /\ (Now' = "config_bss" <=> Now = "bss_invalid")
  BY <1>1, SmdNow DEF Unsent, Reconfigures
<1>4. \A c \in Steps \cup PeerSteps : At(c) => Now = c
  BY NowIs
<1>5. CASE NoSkb
  <2>1. Now \in {"proberesp_get", "beacon_get"} /\ UNCHANGED <<vif, sta, fw>>
    BY <1>1, <1>5, SmdNow DEF NoSkb
  <2> QED
    BY <2>1, LeftKept
<1>6. CASE Assign
  <2>1. UNCHANGED <<fw, mac>> /\ Now \in {"proberesp_get", "beacon_get", "bss_invalid", "gone"}
    BY <1>4, <1>6 DEF Assign, Steps, PeerSteps
  <2>2. vif'.bss_index = vif.bss_index \/ Now = "bss_invalid"
    BY <1>4, <1>6 DEF Assign, Steps, Silent
  <2>3. \A p \in Peers : sta'[p].sta_index = sta[p].sta_index \/ p \notin mac.peers
    <3>1. CASE sta' = sta
      BY <3>1
    <3>2. CASE At("gone") /\ sta' = [sta EXCEPT ![Of] = NoSta]
      <4>1. Of \notin mac.peers
        BY <1>1, <1>4, <3>2 DEF Place, Moment, PeerSteps
      <4> QED
        BY <1>2, <3>2, <4>1
    <3> QED
      BY <1>6, <3>1, <3>2 DEF Assign, Silent
  <2> QED
    BY <2>1, <2>2, <2>3, LeftKept
<1>7. CASE AddStaSelf
  <2>1. PICK o : /\ Ask(o, "add_sta_self", FreeSta # {}, SelfAdded)
                 /\ IF o = "ok" THEN vif' = [vif EXCEPT !.self_sta_index = FirstFree] /\ sta' = sta
                    ELSE Silent
    BY <1>7, Forms
  <2>2. Now = "add_sta_self" /\ vif'.bss_index = vif.bss_index /\ sta' = sta
    BY <1>2, <1>4, <2>1 DEF Ask, Steps, Silent, VifType
  <2>3. fw' = fw \/ fw' = SelfAdded
    BY <1>1, <2>1, Asked
  <2>4. /\ fw'.bss = fw.bss /\ fw'.of = fw.of /\ fw'.bsskey = fw.bsskey
        /\ \A i \in StaIdx : fw'.sta[i] = fw.sta[i] \/ fw'.sta[i] \in {"free", "self"}
    BY <1>1, <2>3, Effects
  <2> QED
    BY <2>2, <2>4, LeftKept
<1>8. CASE DeleteStaSelf
  <2>1. PICK o : /\ Ask(o, "delete_sta_self", \E i \in StaIdx : fw.sta[i] = "self", SelfDeleted)
                 /\ Silent
    BY <1>8, Forms
  <2>2. Now = "delete_sta_self" /\ vif' = vif /\ sta' = sta
    BY <1>4, <2>1 DEF Ask, Steps, Silent
  <2>3. fw' = fw \/ fw' = SelfDeleted
    BY <1>1, <2>1, Asked
  <2>4. /\ fw'.bss = fw.bss /\ fw'.of = fw.of /\ fw'.bsskey = fw.bsskey
        /\ \A i \in StaIdx : fw'.sta[i] = fw.sta[i] \/ fw'.sta[i] \in {"free", "self"}
    BY <1>1, <2>3, Effects
  <2> QED
    BY <2>2, <2>4, LeftKept
<1>9. CASE ConfigBss
  <2>1. PICK o : /\ Ask(o, "config_bss", fw.bss \/ FreeSta # {}, BssMade)
                 /\ IF o = "ok" THEN vif' = [vif EXCEPT !.bss_index = 0] /\ sta' = sta
                    ELSE Silent
    BY <1>9, Forms
  <2>2. Now = "config_bss" /\ o = "ok" /\ fw' = BssMade /\ (fw.bss \/ FreeSta # {})
    BY <1>1, <1>2, <1>4, <2>1, Asked DEF Ask, Steps
  <2>3. vif'.bss_index = 0 /\ sta' = sta /\ mac.phase = "on"
    BY <1>1, <1>2, <2>1, <2>2 DEF VifType, Place, Moment, Unsent, Reconfigures
  <2>4. /\ fw'.bss /\ fw'.bsskey = fw.bsskey
        /\ fw.bss => fw' = fw
        /\ ~fw.bss => /\ fw'.of = FirstFree
                      /\ \A i \in StaIdx : fw'.sta[i] = IF i = FirstFree THEN "bss" ELSE fw.sta[i]
    BY <1>1, <2>2, Effects
  <2>5. \A i \in StaIdx : fw'.sta[i] = "bss" => i = fw'.of
    BY <1>2, <2>4 DEF Left
  <2>6. \A i \in StaIdx, p \in Peers : fw'.sta[i] = p => i = sta'[p].sta_index /\ p \in mac'.peers
    BY <1>1, <1>2, <2>2, <2>3, <2>4, Kinds DEF Left
  <2>7. fw'.bsskey => mac'.group
    BY <1>1, <1>2, <2>2, <2>4 DEF Left
  <2> QED
    BY <1>1, <1>3, <2>3, <2>4, <2>5, <2>6, <2>7 DEF Left
<1>10. CASE DeleteBss
  <2>1. PICK o : Ask(o, "delete_bss", HasBss, BssDeleted) /\ Silent
    BY <1>10, Forms
  <2>2. Now = "delete_bss" /\ vif' = vif /\ sta' = sta
    BY <1>4, <2>1 DEF Ask, Steps, Silent
  <2>3. IF HasBss THEN fw' = BssDeleted ELSE fw' = fw
    <3>1. o \in {"ok", "unknown"}
      BY <1>1, <1>2, <2>1, Asked DEF Removals
    <3> QED
      BY <1>1, <2>1, <3>1, Asked
  <2>4. HasBss <=> fw.bss
    BY <1>2, <2>2 DEF Left, HasBss, BssIdx
  <2>5. /\ ~fw'.bss /\ (fw'.bsskey => fw.bsskey)
        /\ \A i \in StaIdx : fw'.sta[i] = fw.sta[i] \/ fw'.sta[i] = "free"
        /\ fw.bss => fw'.sta[fw.of] = "free"
    BY <1>1, <2>3, <2>4, Effects, FwFields
  <2>6. \A i \in StaIdx : fw'.sta[i] # "bss"
    BY <1>2, <2>5 DEF Left
  <2>7. \A i \in StaIdx, p \in Peers : fw'.sta[i] = p => i = sta'[p].sta_index /\ p \in mac'.peers
    BY <1>1, <1>2, <2>2, <2>5, Kinds DEF Left
  <2>8. fw'.bsskey => mac'.group
    BY <1>1, <1>2, <2>2, <2>5 DEF Left
  <2> QED
    BY <1>3, <2>5, <2>6, <2>7, <2>8 DEF Left
<1>11. CASE SendBeacon
  <2>1. PICK o : /\ Ask(o, "send_beacon", fw.bss /\ TemplateNow # NoBeacon,
                        [fw EXCEPT !.beacon = TemplateNow])
                 /\ Silent
    BY <1>11, Forms
  <2>2. Now = "send_beacon" /\ vif' = vif /\ sta' = sta
    BY <1>4, <2>1 DEF Ask, Steps, Silent
  <2>3. fw' = fw \/ fw' = [fw EXCEPT !.beacon = TemplateNow]
    BY <1>1, <2>1, Asked
  <2>4. fw'.bss = fw.bss /\ fw'.of = fw.of /\ fw'.bsskey = fw.bsskey /\ fw'.sta = fw.sta
    BY <1>1, <2>3, Typed DEF FwType
  <2> QED
    BY <2>2, <2>4, LeftKept
<1>12. CASE UpdateProbeResp
  <2>1. PICK o : Ask(o, "update_proberesp_tmpl", TRUE, fw) /\ Silent
    BY <1>12, Forms
  <2>2. Now = "update_proberesp_tmpl" /\ vif' = vif /\ sta' = sta /\ fw' = fw
    BY <1>1, <1>4, <2>1, Asked DEF Ask, Steps, Silent
  <2> QED
    BY <2>2, LeftKept
<1>13. CASE SetLinkSt
  <2>1. PICK o, c, l : /\ c \in {"link_on", "link_idle"} /\ l \in {"idle", "ap", "ibss"}
                       /\ Ask(o, c, TRUE, [fw EXCEPT !.link = l]) /\ Silent
    BY <1>13, Forms
  <2>2. Now \in {"link_on", "link_idle"} /\ vif' = vif /\ sta' = sta
    BY <1>4, <2>1 DEF Ask, Steps, Silent
  <2>3. fw' = fw \/ fw' = [fw EXCEPT !.link = l]
    BY <1>1, <2>1, Asked
  <2>4. fw'.bss = fw.bss /\ fw'.of = fw.of /\ fw'.bsskey = fw.bsskey /\ fw'.sta = fw.sta
    BY <1>1, <2>3, Typed DEF FwType
  <2> QED
    BY <2>2, <2>4, LeftKept
<1>14. CASE ConfigSta
  <2>1. PICK o : /\ Ask(o, "config_sta", HasBss /\ FreeSta # {}, StaMade(FirstFree, Of))
                 /\ IF o = "ok" THEN sta' = [sta EXCEPT ![Of].sta_index = FirstFree] /\ vif' = vif
                    ELSE Silent
    BY <1>14, Forms
  <2>2. Now = "config_sta" /\ vif' = vif
    BY <1>4, <2>1 DEF Ask, PeerSteps, Silent
  <2>3. Of \in Peers /\ Of \in mac.peers
    BY <1>1, <2>2, Typed DEF Place, Moment, MacType
  <2>4. CASE o = "ok"
    <3>1. fw' = StaMade(FirstFree, Of)
      BY <1>1, <2>1, <2>4, Asked
    <3>2. /\ fw'.bss = fw.bss /\ fw'.of = fw.of /\ fw'.bsskey = fw.bsskey
          /\ \A i \in StaIdx : fw'.sta[i] = IF i = FirstFree THEN Of ELSE fw.sta[i]
      BY <1>1, <1>2, <2>3, <3>1, Effects
    <3>3. /\ sta'[Of].sta_index = FirstFree
          /\ \A p \in Peers : p # Of => sta'[p] = sta[p]
      BY <1>2, <2>1, <2>3, <2>4 DEF PeerType
    <3>4. \A i \in StaIdx : fw'.sta[i] = "bss" => fw'.bss /\ i = fw'.of
      BY <1>2, <2>3, <3>2, Kinds DEF Left
    <3>5. ASSUME NEW i \in StaIdx, NEW p \in Peers, fw'.sta[i] = p
          PROVE  i = sta'[p].sta_index /\ p \in mac'.peers
      <4>1. CASE p = Of
        BY <1>1, <1>2, <2>2, <2>3, <3>2, <3>3, <3>5, <4>1 DEF Left
      <4>2. CASE p # Of
        BY <1>1, <1>2, <2>2, <3>2, <3>3, <3>5, <4>2 DEF Left
      <4> QED
        BY <4>1, <4>2
    <3>6. mac.phase = "on"
      BY <1>1, <2>2 DEF Place, Moment, PeerSteps
    <3>7. (fw'.bss => vif'.bss_index = 0) /\ (fw'.bsskey => mac'.group)
      BY <1>1, <1>2, <2>2, <3>2 DEF Left
    <3> QED
      BY <1>1, <1>3, <3>4, <3>5, <3>6, <3>7 DEF Left
  <2>5. CASE o # "ok"
    <3>1. fw' = fw /\ sta' = sta
      BY <1>1, <1>2, <2>1, <2>5, Asked DEF Silent
    <3> QED
      BY <2>2, <3>1, LeftKept
  <2> QED
    BY <2>4, <2>5
<1>15. CASE DeleteSta
  <2>1. PICK o : /\ Ask(o, "delete_sta", fw.sta[sta[Of].sta_index] # "free",
                        StaDeleted(sta[Of].sta_index))
                 /\ Silent
    BY <1>15, Forms
  <2>2. Now = "delete_sta" /\ vif' = vif /\ sta' = sta
    BY <1>4, <2>1 DEF Ask, PeerSteps, Silent
  <2>3. Of \in Peers /\ Of \notin mac.peers /\ mac.phase = "on"
    <3>1. Of \in Peers
      BY <1>1, <2>1, HeadOf DEF Ask, At, PeerSteps
    <3> QED
      BY <1>1, <2>2, <3>1 DEF Place, Moment, PeerSteps
  <2> DEFINE n == sta[Of].sta_index
  <2>4. n \in StaIdx
    BY <1>2, <2>3 DEF PeerType
  <2>5. IF fw.sta[n] # "free" THEN fw' = StaDeleted(n) ELSE fw' = fw
    <3>1. o \in {"ok", "unknown"}
      BY <1>1, <1>2, <2>1, Asked DEF Removals
    <3> QED
      BY <1>1, <2>1, <3>1, Asked
  <2> HIDE DEF n
  <2>6. /\ fw'.bss = fw.bss /\ fw'.of = fw.of /\ fw'.bsskey = fw.bsskey
        /\ \A i \in StaIdx : fw'.sta[i] = IF i = n THEN "free" ELSE fw.sta[i]
    BY <1>1, <2>4, <2>5, Effects
  <2>7. \A i \in StaIdx : fw'.sta[i] = "bss" => fw'.bss /\ i = fw'.of
    BY <1>2, <2>6 DEF Left
  <2>8. \A i \in StaIdx, p \in Peers : fw'.sta[i] = p => i = sta'[p].sta_index /\ p \in mac'.peers
    BY <1>1, <1>2, <2>2, <2>6, Kinds DEF Left, n
  <2>9. (fw'.bss => vif'.bss_index = 0) /\ (fw'.bsskey => mac'.group)
    BY <1>1, <1>2, <2>2, <2>6 DEF Left
  <2> QED
    BY <1>1, <1>3, <2>3, <2>7, <2>8, <2>9 DEF Left
<1>16. CASE SetStaKey
  <2>1. PICK o : /\ Ask(o, "set_stakey", fw.sta[sta[Of].sta_index] # "free",
                        [fw EXCEPT !.stakey = @ \cup {sta[Of].sta_index}])
                 /\ Silent
    BY <1>16, Forms
  <2>2. Now = "set_stakey" /\ vif' = vif /\ sta' = sta
    BY <1>4, <2>1 DEF Ask, PeerSteps, Silent
  <2>3. fw' = fw \/ fw' = [fw EXCEPT !.stakey = @ \cup {sta[Of].sta_index}]
    BY <1>1, <2>1, Asked
  <2>4. fw'.bss = fw.bss /\ fw'.of = fw.of /\ fw'.bsskey = fw.bsskey /\ fw'.sta = fw.sta
    BY <1>1, <2>3, Typed DEF FwType
  <2> QED
    BY <2>2, <2>4, LeftKept
<1>17. CASE RemoveStaKey
  <2>1. PICK o : /\ Ask(o, "remove_stakey", sta[Of].sta_index \in fw.stakey,
                        [fw EXCEPT !.stakey = @ \ {sta[Of].sta_index}])
                 /\ Silent
    BY <1>17, Forms
  <2>2. Now = "remove_stakey" /\ vif' = vif /\ sta' = sta
    BY <1>4, <2>1 DEF Ask, PeerSteps, Silent
  <2>3. fw' = fw \/ fw' = [fw EXCEPT !.stakey = @ \ {sta[Of].sta_index}]
    BY <1>1, <2>1, Asked
  <2>4. fw'.bss = fw.bss /\ fw'.of = fw.of /\ fw'.bsskey = fw.bsskey /\ fw'.sta = fw.sta
    BY <1>1, <2>3, Typed DEF FwType
  <2> QED
    BY <2>2, <2>4, LeftKept
<1>18. CASE BssKey
  <2>1. PICK o : /\ \/ Ask(o, "set_bsskey", fw.bss, [fw EXCEPT !.bsskey = TRUE])
                    \/ Ask(o, "remove_bsskey", fw.bsskey, [fw EXCEPT !.bsskey = FALSE])
                 /\ Silent
    BY <1>18, Forms
  <2>2. vif' = vif /\ sta' = sta
    BY <2>1 DEF Silent
  <2>3. CASE Ask(o, "set_bsskey", fw.bss, [fw EXCEPT !.bsskey = TRUE])
    <3>1. Now = "set_bsskey"
      BY <1>4, <2>3 DEF Ask, Steps
    <3>2. fw' = fw \/ fw' = [fw EXCEPT !.bsskey = TRUE]
      BY <1>1, <2>3, Asked
    <3>3. fw'.bss = fw.bss /\ fw'.of = fw.of /\ fw'.sta = fw.sta
      BY <1>1, <3>2, Typed DEF FwType
    <3> QED
      BY <2>2, <3>1, <3>3, LeftKept
  <2>4. CASE Ask(o, "remove_bsskey", fw.bsskey, [fw EXCEPT !.bsskey = FALSE])
    <3>1. Now = "remove_bsskey" /\ mac.phase = "on"
      BY <1>1, <1>4, <2>4 DEF Ask, Steps, Place, Moment
    <3>2. IF fw.bsskey THEN fw' = [fw EXCEPT !.bsskey = FALSE] ELSE fw' = fw
      <4>1. o \in {"ok", "unknown"}
        BY <1>1, <1>2, <2>4, Asked DEF Removals
      <4> QED
        BY <1>1, <2>4, <4>1, Asked
    <3>3. fw'.bss = fw.bss /\ fw'.of = fw.of /\ fw'.sta = fw.sta /\ ~fw'.bsskey
      BY <1>1, <3>2, Typed DEF FwType
    <3> QED
      BY <1>1, <1>2, <1>3, <2>2, <3>1, <3>3 DEF Left
  <2> QED
    BY <2>1, <2>3, <2>4
<1> QED
  BY <1>5, <1>6, <1>7, <1>8, <1>9, <1>10, <1>11, <1>12, <1>13, <1>14, <1>15, <1>16, <1>17,
     <1>18 DEF Smd

LEMMA LeftMacCall ==
  ASSUME Core, Left, MacCall
  PROVE  Left'
<1> SUFFICES ASSUME Clean0' PROVE Left'
  BY DEF Left
<1>1. fw' = fw /\ Clean0 /\ Now = "idle" /\ TypeOK /\ Place
  BY MacCallBegins DEF Clean0, Core
<1>2. mac.phase # "on" => ~fw.bss /\ mac.peers = {} /\ ~mac.group
  BY <1>1 DEF Left, Place, Moment
<1>3. /\ fw.bss => vif.bss_index = 0
      /\ \A i \in StaIdx : fw.sta[i] = "bss" => fw.bss /\ i = fw.of
      /\ \A i \in StaIdx, p \in Peers : fw.sta[i] = p => i = sta[p].sta_index /\ p \in mac.peers
      /\ fw.bsskey => mac.group
  BY <1>1 DEF Left
<1>4. CASE add_interface \/ remove_interface \/ BeaconOn
  <2>1. /\ mac.phase # "on" /\ SameMac /\ sta' = sta
        /\ Now' \in {"add_sta_self", "delete_sta_self", "proberesp_get", "bss_invalid"}
    BY <1>4, MacCallIs
  <2> QED
    BY <1>1, <1>2, <1>3, <2>1 DEF Left, SameMac
<1>5. CASE BeaconChange \/ BeaconOff
  <2>1. /\ SameMac /\ sta' = sta /\ vif' = vif
        /\ \/ mac'.phase = "on" /\ Now' = "bss_invalid"
           \/ Now' = "link_idle"
    BY <1>5, MacCallIs
  <2> QED
    BY <1>1, <1>3, <2>1 DEF Left, SameMac
<1>6. CASE GroupKey
  BY <1>1, <1>3, <1>6, MacCallIs DEF Left, SameVif
<1>7. ASSUME NEW p \in Peers, sta_add(p)
      PROVE  Left'
  <2>1. /\ mac'.phase = "on" /\ Now' = "config_sta" /\ Of' = p
        /\ p \notin mac.peers /\ mac'.peers = mac.peers \cup {p} /\ mac'.group = mac.group
        /\ vif' = vif /\ SameIndex
    BY <1>7, MacCallIs
  <2> QED
    BY <1>1, <1>3, <2>1 DEF Left, SameIndex
<1>8. ASSUME NEW p \in Peers, sta_remove(p)
      PROVE  Left'
  <2>1. /\ mac'.phase = "on" /\ Now' = "delete_sta" /\ Of' = p
        /\ mac'.peers = mac.peers \ {p} /\ mac'.group = mac.group
        /\ vif' = vif /\ sta' = sta
    BY <1>8, MacCallIs
  <2> QED
    BY <1>1, <1>3, <2>1 DEF Left
<1>9. ASSUME NEW p \in Peers, SetPairwiseKey(p) \/ DisablePairwiseKey(p)
      PROVE  Left'
  <2>1. /\ mac'.phase = "on" /\ Now' \in {"set_stakey", "remove_stakey"}
        /\ mac'.peers = mac.peers /\ mac'.group = mac.group
        /\ vif'.bss_index = vif.bss_index /\ SameIndex
    BY <1>9, MacCallIs DEF SameVif
  <2> QED
    BY <1>1, <1>3, <2>1 DEF Left, SameIndex
<1> QED
  BY <1>4, <1>5, <1>6, <1>7, <1>8, <1>9 DEF MacCall

LEMMA LeftInv == Spec => [](Core /\ Left)
<1>1. Init => Core /\ Left
  <2> SUFFICES ASSUME Init PROVE Core /\ Left
    OBVIOUS
  <2>1. fw.bss = FALSE /\ fw.bsskey = FALSE /\ \A i \in StaIdx : fw.sta[i] = "free"
    BY DEF Init
  <2> QED
    BY <2>1, CoreInit, Kinds DEF Left
<1>2. Core /\ Left /\ [Next]_vars => (Core /\ Left)'
  <2> SUFFICES ASSUME Core, Left, [Next]_vars PROVE Core' /\ Left'
    OBVIOUS
  <2>1. CASE UNCHANGED vars
    BY <2>1, CoreNext DEF Left, Clean0, Now, Of, vars
  <2> QED
    BY <2>1, CoreNext, LeftSmd, LeftMacCall DEF Next
<1> QED
  BY <1>1, <1>2, PTL DEF Spec

\* Once the interface no longer beacons the firmware has nothing left of its
\* peers and its BSS, but where an index was lost, a removal refused or the BSS
\* not configured (main.c:786, main.c:861): delete_bss, delete_sta and the removals
\* of keys need no more of the driver than the index it has.
THEOREM NothingIsLeft == Spec => []ApNothingLeft
<1>1. Core /\ Left => ApNothingLeft
  <2> SUFFICES ASSUME Core, Left, mac.phase \in {"none", "idle"}, Idle,
                      history \cap {"lost", "kept", "nobss"} = {}
               PROVE  /\ ~fw.bss /\ ~fw.bsskey
                      /\ \A i \in StaIdx : fw.sta[i] \in {"free", "self"}
    BY DEF ApNothingLeft
  <2>1. Clean0 /\ Now = "idle" /\ mac.peers = {} /\ ~mac.group
    BY NowIs DEF Clean0, Core, Place, Moment
  <2>2. \A i \in StaIdx : fw.sta[i] \in {"free", "self", "bss"} \cup Peers
    BY FwFields DEF Core
  <2> QED
    BY <2>1, <2>2 DEF Left
<1> QED
  BY <1>1, LeftInv, PTL

-----------------------------------------------------------------------------
(* The beacon the firmware has.                                            *)

\* Unless a command failed, the firmware has the BSS of an interface that
\* beacons, but while a callback configures it; and it has the template of the
\* latest beacon, if there is one that fits, but while a callback sends it.
Clean1 == history \cap {"lost", "refused", "nobss"} = {}
Made == (Clean1 /\ mac.phase = "on" /\ Now \notin Reconfigures) => fw.bss
Sent ==
  (/\ Clean1 /\ "nobeacon" \notin history /\ mac.phase = "on" /\ Now \notin Unsent
   /\ TemplateNow # NoBeacon) => fw.beacon = TemplateNow

\* Which action a step is.
LEMMA ActionNames ==
  /\ (AddStaSelf => Now = "add_sta_self") /\ (DeleteStaSelf => Now = "delete_sta_self")
  /\ (ConfigBss => Now = "config_bss") /\ (DeleteBss => Now = "delete_bss")
  /\ (SendBeacon => Now = "send_beacon") /\ (UpdateProbeResp => Now = "update_proberesp_tmpl")
  /\ (SetLinkSt => Now \in {"link_on", "link_idle"}) /\ (ConfigSta => Now = "config_sta")
  /\ (DeleteSta => Now = "delete_sta") /\ (SetStaKey => Now = "set_stakey")
  /\ (RemoveStaKey => Now = "remove_stakey")
  /\ (BssKey => Now \in {"set_bsskey", "remove_bsskey"})
  /\ (NoSkb => Now \in {"proberesp_get", "beacon_get"})
  /\ (Assign => Now \in {"proberesp_get", "beacon_get", "bss_invalid", "gone"})
<1>1. \A c \in Steps \cup PeerSteps : At(c) => Now = c
  BY NowIs
<1>2. ASSUME NEW c \in Steps \cup PeerSteps, NEW o, NEW known, NEW effect,
             Ask(o, c, known, effect)
      PROVE  Now = c
  BY <1>1, <1>2 DEF Ask
<1>3. /\ (AddStaSelf => Now = "add_sta_self") /\ (DeleteStaSelf => Now = "delete_sta_self")
      /\ (ConfigBss => Now = "config_bss") /\ (DeleteBss => Now = "delete_bss")
  BY <1>2, Forms DEF Steps
<1>4. /\ (SendBeacon => Now = "send_beacon")
      /\ (UpdateProbeResp => Now = "update_proberesp_tmpl")
      /\ (SetLinkSt => Now \in {"link_on", "link_idle"}) /\ (ConfigSta => Now = "config_sta")
  BY <1>2, Forms DEF Steps, PeerSteps
<1>5. /\ (DeleteSta => Now = "delete_sta") /\ (SetStaKey => Now = "set_stakey")
      /\ (RemoveStaKey => Now = "remove_stakey")
      /\ (BssKey => Now \in {"set_bsskey", "remove_bsskey"})
  BY <1>2, Forms DEF Steps, PeerSteps
<1>6. /\ (NoSkb => Now \in {"proberesp_get", "beacon_get"})
      /\ (Assign => Now \in {"proberesp_get", "beacon_get", "bss_invalid", "gone"})
  BY <1>1 DEF NoSkb, Assign, Steps, PeerSteps
<1> QED
  BY <1>3, <1>4, <1>5, <1>6

\* What leaves the BSS and the beacon alone.
LEMMA BeaconKept ==
  ASSUME Core, Smd
  PROVE  /\ fw'.bss = fw.bss \/ ConfigBss \/ DeleteBss
         /\ fw'.beacon = fw.beacon \/ SendBeacon \/ DeleteBss
         /\ vif'.type = vif.type /\ mac' = mac
<1>1. TypeOK /\ Place /\ mac' = mac /\ fw \in FwType /\ vif \in VifType
      /\ FirstFree \in StaIdx
  BY SmdMoves, Typed, FirstFreeIn DEF Core
<1>2. CASE AddStaSelf
  <2>1. PICK o : /\ Ask(o, "add_sta_self", FreeSta # {}, SelfAdded)
                 /\ IF o = "ok" THEN vif' = [vif EXCEPT !.self_sta_index = FirstFree] /\ sta' = sta
                    ELSE Silent
    BY <1>2, Forms
  <2>2. fw' = fw \/ fw' = SelfAdded
    BY <1>1, <2>1, Asked
  <2>3. vif'.type = vif.type
    BY <1>1, <2>1 DEF Silent, VifType
  <2> QED
    BY <1>1, <2>2, <2>3, Effects
<1>3. CASE ConfigBss
  <2>1. PICK o : /\ Ask(o, "config_bss", fw.bss \/ FreeSta # {}, BssMade)
                 /\ IF o = "ok" THEN vif' = [vif EXCEPT !.bss_index = 0] /\ sta' = sta
                    ELSE Silent
    BY <1>3, Forms
  <2>2. fw' = fw \/ fw' = BssMade
    BY <1>1, <2>1, Asked
  <2>3. vif'.type = vif.type
    BY <1>1, <2>1 DEF Silent, VifType
  <2> QED
    BY <1>1, <1>3, <2>2, <2>3, Effects
<1>4. CASE ConfigSta
  <2>1. PICK o : /\ Ask(o, "config_sta", HasBss /\ FreeSta # {}, StaMade(FirstFree, Of))
                 /\ IF o = "ok" THEN sta' = [sta EXCEPT ![Of].sta_index = FirstFree] /\ vif' = vif
                    ELSE Silent
    BY <1>4, Forms
  <2>2. Of \in Peers
    BY <1>1, <2>1, HeadOf DEF Ask, At, PeerSteps
  <2>3. fw' = fw \/ fw' = StaMade(FirstFree, Of)
    BY <1>1, <2>1, Asked
  <2>4. vif' = vif
    BY <2>1 DEF Silent
  <2> QED
    BY <1>1, <2>2, <2>3, <2>4, Effects
<1>5. CASE NoSkb \/ Assign
  <2>1. fw' = fw
    BY <1>5 DEF NoSkb, Assign
  <2>2. vif'.type = vif.type
    BY <1>1, <1>5 DEF NoSkb, Assign, Silent, VifType
  <2> QED
    BY <1>1, <2>1, <2>2
<1>6. ASSUME NEW o, NEW c, NEW known, NEW effect, Ask(o, c, known, effect), Silent
      PROVE  (fw' = fw \/ fw' = effect) /\ vif'.type = vif.type
  BY <1>1, <1>6, Asked DEF Silent
<1>7. CASE DeleteStaSelf
  <2>1. (fw' = fw \/ fw' = SelfDeleted) /\ vif'.type = vif.type
    BY <1>6, <1>7, Forms
  <2> QED
    BY <1>1, <2>1, Effects
<1>8. CASE DeleteBss
  <2>1. vif'.type = vif.type
    BY <1>6, <1>8, Forms
  <2> QED
    BY <1>1, <1>8, <2>1
<1>9. CASE SendBeacon
  <2>1. /\ fw' = fw \/ fw' = [fw EXCEPT !.beacon = TemplateNow]
        /\ vif'.type = vif.type
    BY <1>6, <1>9, Forms
  <2> QED
    BY <1>1, <1>9, <2>1 DEF FwType
<1>10. CASE UpdateProbeResp
  <2>1. fw' = fw /\ vif'.type = vif.type
    BY <1>6, <1>10, Forms
  <2> QED
    BY <1>1, <2>1
<1>11. CASE SetLinkSt
  <2>1. PICK o, c, l : Ask(o, c, TRUE, [fw EXCEPT !.link = l]) /\ Silent
    BY <1>11, Forms
  <2>2. (fw' = fw \/ fw' = [fw EXCEPT !.link = l]) /\ vif'.type = vif.type
    BY <1>6, <2>1
  <2> QED
    BY <1>1, <2>2 DEF FwType
<1>12. CASE DeleteSta
  <2>1. (fw' = fw \/ fw' = StaDeleted(sta[Of].sta_index)) /\ vif'.type = vif.type
    BY <1>6, <1>12, Forms
  <2>2. Of \in Peers
    <3>1. At("delete_sta")
      BY <1>12, Forms DEF Ask
    <3> QED
      BY <1>1, <3>1, HeadOf DEF At, PeerSteps
  <2>3. sta[Of].sta_index \in StaIdx
    BY <1>1, <2>2, Typed DEF PeerType
  <2> QED
    BY <1>1, <2>1, <2>3, Effects
<1>13. CASE SetStaKey
  <2>1. /\ fw' = fw \/ fw' = [fw EXCEPT !.stakey = @ \cup {sta[Of].sta_index}]
        /\ vif'.type = vif.type
    BY <1>6, <1>13, Forms
  <2> QED
    BY <1>1, <2>1 DEF FwType
<1>14. CASE RemoveStaKey
  <2>1. /\ fw' = fw \/ fw' = [fw EXCEPT !.stakey = @ \ {sta[Of].sta_index}]
        /\ vif'.type = vif.type
    BY <1>6, <1>14, Forms
  <2> QED
    BY <1>1, <2>1 DEF FwType
<1>15. CASE BssKey
  <2>1. /\ \E k \in BOOLEAN : fw' = fw \/ fw' = [fw EXCEPT !.bsskey = k]
        /\ vif'.type = vif.type
    BY <1>6, <1>15, Forms
  <2> QED
    BY <1>1, <2>1 DEF FwType
<1> QED
  BY <1>2, <1>3, <1>4, <1>5, <1>7, <1>8, <1>9, <1>10, <1>11, <1>12, <1>13, <1>14, <1>15
     DEF Smd

LEMMA MadeSmd ==
  ASSUME Core, Made, Smd
  PROVE  Made'
<1> SUFFICES ASSUME Clean1', mac'.phase = "on", Now' \notin Reconfigures PROVE fw'.bss
  BY DEF Made
<1>1. TypeOK /\ Place /\ mac' = mac /\ history \subseteq history'
  BY SmdMoves DEF Core
<1>2. Clean1 /\ "refused" \notin history' /\ "lost" \notin history' /\ "nobss" \notin history'
  BY <1>1 DEF Clean1
<1>3. CASE ConfigBss
  <2>1. PICK o : Ask(o, "config_bss", fw.bss \/ FreeSta # {}, BssMade)
    BY <1>3, Forms
  <2>2. fw' = BssMade
    BY <1>1, <1>2, <2>1, Asked
  <2> QED
    BY <1>1, <2>2, Effects
<1>4. CASE ~ConfigBss
  <2>1. Now \notin {"config_bss", "delete_bss"}
    <3>1. Now = "config_bss" => ConfigBss
      BY ActionNames DEF Smd
    <3> QED
      BY <1>1, <1>4, <3>1 DEF Place, Moment
  <2>2. fw'.bss = fw.bss
    BY <1>4, <2>1, BeaconKept, ActionNames
  <2>3. Now \notin Reconfigures
    <3>1. CASE NoSkb
      <4>1. Now = "proberesp_get" => "nobss" \in history'
        BY <3>1, NowIs DEF NoSkb, Steps
      <4> QED
        BY <1>2, <3>1, <4>1, ActionNames DEF Reconfigures
    <3>2. CASE ~NoSkb
      <4>1. Now' = After(Now)
        BY <1>1, <3>2, SmdNow
      <4> QED
        BY <2>1, <4>1, AfterIs DEF Reconfigures
    <3> QED
      BY <3>1, <3>2
  <2> QED
    BY <1>1, <1>2, <2>2, <2>3 DEF Made
<1> QED
  BY <1>3, <1>4

LEMMA SentSmd ==
  ASSUME Core, Made, Sent, Smd
  PROVE  Sent'
<1> SUFFICES ASSUME Clean1', "nobeacon" \notin history', mac'.phase = "on", Now' \notin Unsent,
                    TemplateNow' # NoBeacon
             PROVE  fw'.beacon = TemplateNow'
  BY DEF Sent
<1>1. /\ TypeOK /\ Place /\ mac' = mac /\ history \subseteq history' /\ vif'.type = vif.type
      /\ fw \in FwType
  BY SmdMoves, BeaconKept, Typed DEF Core
<1>2. /\ Clean1 /\ "refused" \notin history' /\ "lost" \notin history'
      /\ "nobss" \notin history' /\ "nobeacon" \notin history
  BY <1>1 DEF Clean1
<1>3. TemplateNow' = TemplateNow
  BY <1>1 DEF TemplateNow
<1>4. CASE SendBeacon
  <2>1. Now = "send_beacon"
    BY <1>4, ActionNames
  <2>2. fw.bss
    BY <1>1, <1>2, <2>1 DEF Made, Reconfigures
  <2>3. PICK o : Ask(o, "send_beacon", fw.bss /\ TemplateNow # NoBeacon,
                     [fw EXCEPT !.beacon = TemplateNow])
    BY <1>4, Forms
  <2>4. o = "ok"
    BY <1>1, <1>2, <1>3, <2>2, <2>3, Asked
  <2>5. fw' = [fw EXCEPT !.beacon = TemplateNow]
    BY <1>1, <2>3, <2>4, Asked
  <2> QED
    BY <1>1, <1>3, <2>5 DEF FwType
<1>5. CASE ~SendBeacon
  <2>1. Now \notin {"send_beacon", "delete_bss"}
    <3>1. Now = "send_beacon" => SendBeacon
      BY ActionNames DEF Smd
    <3> QED
      BY <1>1, <1>5, <3>1 DEF Place, Moment
  <2>2. fw'.beacon = fw.beacon
    BY <1>5, <2>1, BeaconKept, ActionNames
  <2>3. Now \notin Unsent
    <3>1. CASE NoSkb
      <4>1. "nobss" \in history' \/ "nobeacon" \in history'
        BY <3>1 DEF NoSkb
      <4> QED
        BY <1>2, <4>1
    <3>2. CASE ~NoSkb
      <4>1. Now' = After(Now)
        BY <1>1, <3>2, SmdNow
      <4> QED
        BY <2>1, <4>1, AfterIs DEF Unsent, Reconfigures
    <3> QED
      BY <3>1, <3>2
  <2> QED
    BY <1>1, <1>2, <1>3, <2>2, <2>3 DEF Sent
<1> QED
  BY <1>4, <1>5

LEMMA BeaconMacCall ==
  ASSUME Core, Made, Sent, MacCall
  PROVE  Made' /\ Sent'
<1>1. fw' = fw /\ history' = history /\ Now = "idle"
  BY MacCallBegins
<1>2. CASE add_interface \/ remove_interface \/ BeaconOff
  <2>1. mac'.phase # "on"
    BY <1>2, MacCallIs
  <2> QED
    BY <2>1 DEF Made, Sent
<1>3. CASE BeaconOn \/ BeaconChange
  <2>1. Now' \in Reconfigures
    BY <1>3, MacCallIs DEF Reconfigures
  <2> QED
    BY <2>1 DEF Made, Sent, Unsent
<1>4. CASE GroupKey \/ \E p \in Peers : \/ sta_add(p) \/ sta_remove(p)
                                        \/ SetPairwiseKey(p) \/ DisablePairwiseKey(p)
  <2>1. mac.phase = "on" /\ mac'.beacon = mac.beacon /\ vif'.type = vif.type
    BY <1>4, MacCallIs DEF SameVif
  <2>2. TemplateNow' = TemplateNow
    BY <2>1 DEF TemplateNow
  <2>3. Now \notin Unsent /\ Now \notin Reconfigures
    BY <1>1 DEF Unsent, Reconfigures
  <2> QED
    BY <1>1, <2>1, <2>2, <2>3 DEF Made, Sent, Clean1
<1> QED
  BY <1>2, <1>3, <1>4 DEF MacCall

LEMMA BeaconInv == Spec => [](Core /\ Made /\ Sent)
<1>1. Init => Core /\ Made /\ Sent
  <2> SUFFICES ASSUME Init PROVE Core /\ Made /\ Sent
    OBVIOUS
  <2>1. mac.phase = "none"
    BY DEF Init
  <2> QED
    BY <2>1, CoreInit DEF Made, Sent
<1>2. Core /\ Made /\ Sent /\ [Next]_vars => (Core /\ Made /\ Sent)'
  <2> SUFFICES ASSUME Core, Made, Sent, [Next]_vars PROVE Core' /\ Made' /\ Sent'
    OBVIOUS
  <2>1. CASE UNCHANGED vars
    BY <2>1, CoreNext DEF Made, Sent, Clean1, Now, TemplateNow, vars
  <2> QED
    BY <2>1, CoreNext, MadeSmd, SentSmd, BeaconMacCall DEF Next
<1> QED
  BY <1>1, <1>2, PTL DEF Spec

\* While the interface beacons, and unless a step failed, the firmware has the
\* template of mac80211's latest beacon, whole and with room for its TIM, if the
\* bitmap is no longer than the firmware's and the template fits into the
\* message: of every beacon, whatever follows its TIM (smd.c:1416).
THEOREM BeaconIsWhole == Spec => []BeaconWhole
<1>1. Core /\ Made /\ Sent => BeaconWhole
  <2> SUFFICES ASSUME Core, Made, Sent, mac.phase = "on", Idle,
                      history \cap {"lost", "refused", "nobss", "nobeacon"} = {}
               PROVE  \/ fw.beacon = IF vif.type = "MESH" THEN Data(mac.beacon)
                                     ELSE WantedTemplate(mac.beacon)
                      \/ vif.type = "AP" /\ mac.beacon.pvm > PvmSize
                      \/ IF vif.type = "MESH" THEN Len(Data(mac.beacon)) > TemplateSize
                         ELSE Len(Data(mac.beacon)) + PvmSize > TemplateSize + mac.beacon.pvm
    BY DEF BeaconWhole
  <2> DEFINE b == mac.beacon
             d == Data(b)
  <2>1. Now \notin Unsent
    BY NowIs DEF Unsent, Reconfigures
  <2>2. TemplateNow # NoBeacon => fw.beacon = TemplateNow
    BY <2>1 DEF Sent, Clean1
  <2>3. b \in Beacons /\ vif.type \in {"AP", "MESH"}
    BY Typed DEF Core, MacType, VifType, Types
  <2>4. /\ d \in Seq(Nat) /\ Len(d) \in Nat /\ Len(d) > 0 /\ b.pvm \in Nat
        /\ PvmSize \in Nat /\ TemplateSize \in Nat
    <3>1. /\ b.pvm \in Nat /\ Len(b.tail) \in Nat /\ d \in Seq(Nat)
          /\ Len(d) = Fixed + b.pvm + Len(b.tail)
      BY <2>3, DataAt
    <3> QED
      BY <3>1, ApAssumption DEF Fixed
  <2>5. NoBeacon \in Seq(Nat) /\ Len(NoBeacon) = 0
    BY EmptySeq DEF NoBeacon
  <2> HIDE DEF b, d
  <2>6. CASE vif.type = "MESH"
    <3>1. TemplateNow = Template(d, 0, TRUE)
      BY <2>6 DEF TemplateNow, TimOff, b, d
    <3>2. TemplateNow = IF Len(d) <= TemplateSize THEN d ELSE NoBeacon
      BY <2>3, <3>1, TemplateMesh DEF d
    <3>3. Len(d) <= TemplateSize => fw.beacon = d
      BY <2>2, <2>4, <2>5, <3>2
    <3>4. Len(d) <= TemplateSize \/ Len(d) > TemplateSize
      BY <2>4
    <3> QED
      BY <2>6, <3>3, <3>4 DEF b, d
  <2>7. CASE vif.type = "AP"
    <3>1. TemplateNow = Template(d, Len(Head3), FALSE)
      BY <2>7 DEF TemplateNow, TimOff, b, d
    <3> DEFINE l == Fixed + PvmSize + Len(b.tail)
    <3>2. /\ l \in Nat /\ l > 0 /\ l = Len(d) + PvmSize - b.pvm
          /\ l <= TemplateSize => Len(TemplateNow) = l
          /\ (l <= TemplateSize /\ b.pvm <= PvmSize) => TemplateNow = WantedTemplate(b)
      BY <2>3, <3>1, TemplateAp DEF d
    <3> HIDE DEF l
    <3>3. l <= TemplateSize \/ Len(d) + PvmSize > TemplateSize + b.pvm
      BY <2>4, <3>2
    <3>4. b.pvm <= PvmSize \/ b.pvm > PvmSize
      BY <2>4
    <3>5. (l <= TemplateSize /\ b.pvm <= PvmSize) => fw.beacon = WantedTemplate(b)
      BY <2>2, <2>5, <3>2
    <3>6. vif.type # "MESH"
      BY <2>7
    <3> QED
      BY <2>7, <3>3, <3>4, <3>5, <3>6 DEF b, d
  <2> QED
    BY <2>3, <2>6, <2>7
<1> QED
  BY <1>1, BeaconInv, PTL

-----------------------------------------------------------------------------
(* Rates.                                                                  *)

\* Two functions that agree at 0, and at each number if they do at the one
\* before, agree.
LEMMA Agree ==
  ASSUME NEW n \in Nat, NEW f, NEW g, f[0] = g[0],
         \A k \in 1..n : f[k - 1] = g[k - 1] => f[k] = g[k]
  PROVE  \A k \in 0..n : f[k] = g[k]
<1> DEFINE B == {k \in 0..n : f[k] # g[k]}
<1> SUFFICES ASSUME B # {} PROVE FALSE
  OBVIOUS
<1>1. B \in SUBSET Nat
  OBVIOUS
<1>2. PICK x \in B : \A y \in B : x <= y
  <2> HIDE DEF B
  <2> QED
    BY <1>1, LeastIn
<1>3. x \in 0..n /\ f[x] # g[x] /\ x # 0
  OBVIOUS
<1>4. x - 1 \in 0..n /\ x \in 1..n /\ ~(x <= x - 1)
  BY <1>3
<1>5. f[x - 1] = g[x - 1]
  BY <1>2, <1>4
<1> QED
  BY <1>3, <1>4, <1>5

\* What holds at 0 and from each number to the next holds for all: sets of
\* numbers.
LEMMA AllOf ==
  ASSUME NEW S \in SUBSET Nat, 0 \in S, \A k \in Nat : k \in S => k + 1 \in S
  PROVE  \A k \in Nat : k \in S
<1> DEFINE B == Nat \ S
<1> SUFFICES ASSUME B # {} PROVE FALSE
  OBVIOUS
<1>1. B \in SUBSET Nat
  OBVIOUS
<1>2. PICK x \in B : \A y \in B : x <= y
  <2> HIDE DEF B
  <2> QED
    BY <1>1, LeastIn
<1>3. x \in Nat /\ x \notin S /\ x # 0
  OBVIOUS
<1>4. x - 1 \in Nat /\ x - 1 + 1 = x /\ ~(x <= x - 1)
  BY <1>3
<1>5. x - 1 \in S
  BY <1>2, <1>4
<1> QED
  BY <1>3, <1>4, <1>5

\* A function iterated n times.
Iterates(f, s, x, n) ==
  f \in [0..n -> Nat] /\ f[0] = x /\ \A k \in 1..n : f[k] = s[f[k - 1]]

LEMMA IteratesExist ==
  ASSUME NEW s \in [Nat -> Nat], NEW x \in Nat
  PROVE  \A n \in Nat : \E f : Iterates(f, s, x, n)
<1> DEFINE S == {n \in Nat : \E f : Iterates(f, s, x, n)}
<1>1. 0 \in S
  <2>1. Iterates([i \in 0..0 |-> x], s, x, 0)
    BY DEF Iterates
  <2> QED
    BY <2>1
<1>2. ASSUME NEW n \in Nat, n \in S
      PROVE  n + 1 \in S
  <2>1. PICK f : Iterates(f, s, x, n)
    BY <1>2
  <2> DEFINE g == [i \in 0..(n + 1) |-> IF i <= n THEN f[i] ELSE s[f[n]]]
  <2>2. \A i \in 0..n : f[i] \in Nat
    BY <2>1 DEF Iterates
  <2>3. g \in [0..(n + 1) -> Nat]
    BY <2>2
  <2>4. g[0] = x
    BY <2>1 DEF Iterates
  <2>5. ASSUME NEW k \in 1..(n + 1)
        PROVE  g[k] = s[g[k - 1]]
    <3>1. k - 1 \in 0..n /\ g[k - 1] = f[k - 1]
      OBVIOUS
    <3>2. CASE k <= n
      <4>1. k \in 1..n /\ g[k] = f[k]
        BY <3>2
      <4> QED
        BY <2>1, <3>1, <4>1 DEF Iterates
    <3>3. CASE k = n + 1
      <4>1. g[k] = s[f[n]] /\ k - 1 = n
        BY <3>3
      <4> QED
        BY <3>1, <4>1
    <3> QED
      BY <3>2, <3>3
  <2> HIDE DEF g
  <2>6. Iterates(g, s, x, n + 1)
    BY <2>3, <2>4, <2>5 DEF Iterates
  <2> QED
    BY <2>6
<1>3. S \in SUBSET Nat
  OBVIOUS
<1> HIDE DEF S
<1>4. \A n \in Nat : n \in S
  BY <1>1, <1>2, <1>3, AllOf
<1> QED
  BY <1>4 DEF S

\* The functions update_allowed_rates and Bit are written with.
HalfFun(mask, n) ==
  CHOOSE h : h = [k \in 0..n |-> IF k = 0 THEN mask ELSE h[k - 1] \div 2]
ShiftFun(mask, n) ==
  CHOOSE m : m = [i \in 0..n |-> IF i = 0 THEN mask ELSE Shift(m[i - 1])]

LEMMA ByFunctions ==
  ASSUME NEW mask, NEW n
  PROVE  /\ Bit(mask, n) <=> HalfFun(mask, n)[n] % 2 = 1
         /\ Table(mask, n) = [found |-> {i \in 0..(n - 1) : ShiftFun(mask, n)[i] % 2 = 1},
                              rest |-> ShiftFun(mask, n)[n]]
BY DEF Bit, Table, HalfFun, ShiftFun

LEMMA HalfIs ==
  ASSUME NEW mask \in Nat, NEW n \in Nat
  PROVE  LET h == HalfFun(mask, n) IN
         /\ h[0] = mask
         /\ \A k \in 0..n : h[k] \in Nat
         /\ \A k \in 1..n : h[k] = h[k - 1] \div 2
<1> DEFINE s == [v \in Nat |-> v \div 2]
           h == HalfFun(mask, n)
<1>1. s \in [Nat -> Nat]
  OBVIOUS
<1>2. PICK f : Iterates(f, s, mask, n)
  <2>1. \A t \in [Nat -> Nat] : \A j \in Nat : \E f : Iterates(f, t, mask, j)
    BY IteratesExist
  <2> HIDE DEF s
  <2> QED
    BY <1>1, <2>1
<1>3. \A k \in 1..n : f[k - 1] \in Nat /\ f[k] = f[k - 1] \div 2
  <2> SUFFICES ASSUME NEW k \in 1..n PROVE f[k - 1] \in Nat /\ f[k] = f[k - 1] \div 2
    OBVIOUS
  <2>1. k \in 0..n /\ k - 1 \in 0..n
    OBVIOUS
  <2>2. f \in [0..n -> Nat] /\ f[k] = s[f[k - 1]]
    <3> HIDE DEF s
    <3> QED
      BY <1>2 DEF Iterates
  <2>3. f[k - 1] \in Nat
    BY <2>1, <2>2
  <2> QED
    BY <2>2, <2>3
<1>4. f = [k \in 0..n |-> IF k = 0 THEN mask ELSE f[k - 1] \div 2]
  BY <1>2, <1>3 DEF Iterates
<1>5. h = [k \in 0..n |-> IF k = 0 THEN mask ELSE h[k - 1] \div 2]
  BY <1>4 DEF HalfFun
<1> HIDE DEF h
<1>6. h[0] = mask /\ \A k \in 1..n : h[k] = h[k - 1] \div 2
  BY <1>5
<1>7. h[0] = f[0]
  BY <1>2, <1>6 DEF Iterates
<1>8. \A k \in 1..n : h[k - 1] = f[k - 1] => h[k] = f[k]
  BY <1>3, <1>6
<1>9. \A k \in 0..n : h[k] = f[k]
  BY <1>7, <1>8, Agree
<1>10. \A k \in 0..n : h[k] \in Nat
  BY <1>2, <1>9 DEF Iterates
<1> QED
  BY <1>6, <1>10 DEF h

LEMMA ShiftIs ==
  ASSUME NEW mask \in Nat, NEW n \in Nat
  PROVE  LET m == ShiftFun(mask, n) IN
         /\ m[0] = mask
         /\ \A k \in 0..n : m[k] \in Nat
         /\ \A k \in 1..n : m[k] = Shift(m[k - 1])
<1> DEFINE s == [v \in Nat |-> Shift(v)]
           m == ShiftFun(mask, n)
<1>1. s \in [Nat -> Nat]
  BY DEF Shift
<1>2. PICK f : Iterates(f, s, mask, n)
  <2>1. \A t \in [Nat -> Nat] : \A j \in Nat : \E f : Iterates(f, t, mask, j)
    BY IteratesExist
  <2> HIDE DEF s
  <2> QED
    BY <1>1, <2>1
<1>3. \A k \in 1..n : f[k - 1] \in Nat /\ f[k] = Shift(f[k - 1])
  <2> SUFFICES ASSUME NEW k \in 1..n PROVE f[k - 1] \in Nat /\ f[k] = Shift(f[k - 1])
    OBVIOUS
  <2>1. k \in 0..n /\ k - 1 \in 0..n
    OBVIOUS
  <2>2. f \in [0..n -> Nat] /\ f[k] = s[f[k - 1]]
    <3> HIDE DEF s
    <3> QED
      BY <1>2 DEF Iterates
  <2>3. f[k - 1] \in Nat
    BY <2>1, <2>2
  <2> QED
    BY <2>2, <2>3
<1>4. f = [k \in 0..n |-> IF k = 0 THEN mask ELSE Shift(f[k - 1])]
  BY <1>2, <1>3 DEF Iterates
<1>5. m = [k \in 0..n |-> IF k = 0 THEN mask ELSE Shift(m[k - 1])]
  BY <1>4 DEF ShiftFun
<1> HIDE DEF m
<1>6. m[0] = mask /\ \A k \in 1..n : m[k] = Shift(m[k - 1])
  BY <1>5
<1>7. m[0] = f[0]
  BY <1>2, <1>6 DEF Iterates
<1>8. \A k \in 1..n : m[k - 1] = f[k - 1] => m[k] = f[k]
  BY <1>3, <1>6
<1>9. \A k \in 0..n : m[k] = f[k]
  BY <1>7, <1>8, Agree
<1>10. \A k \in 0..n : m[k] \in Nat
  BY <1>2, <1>9 DEF Iterates
<1> QED
  BY <1>6, <1>10 DEF m

\* The bits of a mask are those of the numbers it is halved to.
Halved(mask, n, h) ==
  /\ h \in [0..n -> Nat] /\ h[0] = mask
  /\ \A k \in 0..n : Bit(mask, k) <=> h[k] % 2 = 1
  /\ \A k \in 1..n : h[k] = h[k - 1] \div 2

LEMMA HalvedExist ==
  ASSUME NEW mask \in Nat, NEW n \in Nat
  PROVE  \E h : Halved(mask, n, h)
<1> DEFINE h == [k \in 0..n |-> HalfFun(mask, n)[k]]
           g == HalfFun(mask, n)
<1>1. /\ g[0] = mask
      /\ \A k \in 0..n : g[k] \in Nat
      /\ \A k \in 1..n : g[k] = g[k - 1] \div 2
  BY HalfIs
<1>2. ASSUME NEW k \in 0..n
      PROVE  Bit(mask, k) <=> g[k] % 2 = 1
  <2> DEFINE f == HalfFun(mask, k)
  <2>1. k \in Nat
    OBVIOUS
  <2>2. f[0] = mask /\ \A j \in 1..k : f[j] = f[j - 1] \div 2
    BY <2>1, HalfIs
  <2>3. Bit(mask, k) <=> f[k] % 2 = 1
    BY ByFunctions
  <2> HIDE DEF f, g
  <2>4. f[0] = g[0] /\ \A j \in 1..k : f[j - 1] = g[j - 1] => f[j] = g[j]
    BY <1>1, <2>2
  <2>5. \A j \in 0..k : f[j] = g[j]
    BY <2>1, <2>4, Agree
  <2>6. k \in 0..k
    BY <2>1
  <2> QED
    BY <2>3, <2>5, <2>6
<1>3. \A k \in 0..n : h[k] = g[k]
  OBVIOUS
<1>4. h \in [0..n -> Nat]
  BY <1>1
<1> HIDE DEF h, g
<1>5. \A k \in 1..n : h[k] = h[k - 1] \div 2
  <2> SUFFICES ASSUME NEW k \in 1..n PROVE h[k] = h[k - 1] \div 2
    OBVIOUS
  <2>1. k \in 0..n /\ k - 1 \in 0..n
    OBVIOUS
  <2> QED
    BY <1>1, <1>3, <2>1
<1>6. h[0] = mask /\ \A k \in 0..n : Bit(mask, k) <=> h[k] % 2 = 1
  BY <1>1, <1>2, <1>3
<1>7. Halved(mask, n, h)
  BY <1>4, <1>5, <1>6 DEF Halved
<1> QED
  BY <1>7

\* Two numbers from which the loops find the same rates: the same number, or no
\* rate is left in either.
Same(x, y) == x \in Nat /\ y \in Nat /\ (x = y \/ (x % 2 = 0 /\ y % 2 = 0))

LEMMA SameShift ==
  ASSUME NEW x, NEW y, Same(x, y), y % 2 = 0 => (y \div 2) % 2 = 0
  PROVE  Same(Shift(x), y \div 2)
BY DEF Same, Shift

\* From a mask without a gap, of which x is left from bit j on, the loop over a
\* table of n finds the next n bits, and leaves y or what is as good.
Finds(mask, j, n, x, y) ==
  /\ Table(x, n).found = {i \in 0..(n - 1) : Bit(mask, j + i)}
  /\ Same(Table(x, n).rest, y)

LEMMA TableFinds ==
  ASSUME NEW mask \in Nat, NEW N \in Nat, NEW h, Halved(mask, N, h),
         \A i \in 1..N : Bit(mask, i) => Bit(mask, i - 1),
         NEW j \in Nat, NEW n \in Nat, NEW q \in 0..N, q = j + n,
         NEW x, Same(x, h[j])
  PROVE  Finds(mask, j, n, x, h[q])
<1> DEFINE m == ShiftFun(x, n)
<1>1. x \in Nat
  BY DEF Same
<1>2. /\ m[0] = x
      /\ \A k \in 0..n : m[k] \in Nat
      /\ \A k \in 1..n : m[k] = Shift(m[k - 1])
  BY <1>1, ShiftIs
<1>3. Table(x, n) = [found |-> {i \in 0..(n - 1) : m[i] % 2 = 1}, rest |-> m[n]]
  BY ByFunctions
<1> HIDE DEF m
<1> DEFINE f == [k \in 0..n |-> Same(m[k], h[j + k])]
           g == [k \in 0..n |-> TRUE]
<1>4. f[0] = g[0]
  <2>1. j + 0 = j /\ 0 \in 0..n
    OBVIOUS
  <2>2. Same(m[0], h[j + 0])
    BY <1>2, <2>1
  <2> QED
    BY <2>1, <2>2
<1>5. ASSUME NEW k \in 1..n, Same(m[k - 1], h[j + (k - 1)])
      PROVE  Same(m[k], h[j + k])
  <2>1. /\ j + k \in 1..N /\ j + k \in 0..N /\ j + (k - 1) \in 0..N
        /\ j + (k - 1) = (j + k) - 1
    OBVIOUS
  <2> DEFINE y == h[j + (k - 1)]
  <2>2. h[j + k] = y \div 2
    BY <2>1 DEF Halved
  <2>3. y \in Nat /\ h[j + k] \in Nat
    BY <2>1 DEF Halved
  <2>4. Bit(mask, j + k) => Bit(mask, j + (k - 1))
    BY <2>1
  <2>5. /\ Bit(mask, j + k) <=> h[j + k] % 2 = 1
        /\ Bit(mask, j + (k - 1)) <=> y % 2 = 1
    BY <2>1 DEF Halved
  <2> HIDE DEF y
  <2>6. y % 2 = 0 => (y \div 2) % 2 = 0
    BY <2>2, <2>3, <2>4, <2>5
  <2>7. Same(Shift(m[k - 1]), y \div 2)
    BY <1>5, <2>6, SameShift DEF y
  <2> QED
    BY <1>2, <2>2, <2>7
<1>6. \A k \in 1..n : f[k - 1] = g[k - 1] => f[k] = g[k]
  <2> SUFFICES ASSUME NEW k \in 1..n, f[k - 1] = g[k - 1]
               PROVE  f[k] = g[k]
    OBVIOUS
  <2>1. k \in 0..n /\ k - 1 \in 0..n
    OBVIOUS
  <2>2. Same(m[k - 1], h[j + (k - 1)])
    BY <2>1
  <2>3. Same(m[k], h[j + k])
    BY <1>5, <2>2
  <2> QED
    BY <2>1, <2>3
<1>7. \A k \in 0..n : Same(m[k], h[j + k])
  <2>1. \A k \in 0..n : f[k] = g[k]
    <3> HIDE DEF f, g
    <3> QED
      BY SMTT(20), <1>4, <1>6, Agree
  <2> QED
    BY <2>1
<1>8. ASSUME NEW i \in 0..(n - 1)
      PROVE  m[i] % 2 = 1 <=> Bit(mask, j + i)
  <2>1. i \in 0..n /\ j + i \in 0..N
    OBVIOUS
  <2>2. Same(m[i], h[j + i])
    BY <1>7, <2>1
  <2>3. Bit(mask, j + i) <=> h[j + i] % 2 = 1
    BY <2>1 DEF Halved
  <2> QED
    BY <2>2, <2>3 DEF Same
<1>9. n \in 0..n
  OBVIOUS
<1> QED
  BY <1>3, <1>7, <1>8, <1>9 DEF Finds

\* The rates kept of a mask without a gap are those it stands for.
LEMMA RatesAreSupported ==
  ASSUME NEW mask \in Nat, NEW band \in {2, 5}, NoGap(mask)
  PROVE  update_allowed_rates(mask, band) = Supported(mask, band)
<1> USE ApAssumption
<1> DEFINE N == Dsss + Ofdm
<1>1. Dsss \in Nat /\ Ofdm \in Nat /\ N \in Nat
  OBVIOUS
<1>2. PICK h : Halved(mask, N, h)
  <2> HIDE DEF N
  <2> QED
    BY <1>1, HalvedExist
<1>3. \A i \in 1..N : Bit(mask, i) => Bit(mask, i - 1)
  BY DEF NoGap
<1>4. Same(mask, h[0])
  BY <1>2 DEF Same, Halved
<1>5. CASE band = 2
  <2>1. Finds(mask, 0, Dsss, mask, h[Dsss])
    <3>1. Dsss \in 0..N /\ Dsss = 0 + Dsss
      BY <1>1
    <3> HIDE DEF N
    <3> QED
      BY <1>1, <1>2, <1>3, <1>4, <3>1, TableFinds
  <2> DEFINE x == Table(mask, Dsss).rest
  <2>2. Same(x, h[Dsss])
    BY <2>1 DEF Finds
  <2>3. Finds(mask, Dsss, Ofdm, x, h[N])
    <3>1. N \in 0..N /\ N = Dsss + Ofdm
      BY <1>1
    <3> HIDE DEF N, x
    <3> QED
      BY <1>1, <1>2, <1>3, <2>2, <3>1, TableFinds
  <2>4. Table(x, Ofdm).found = {i \in 0..(Ofdm - 1) : Bit(mask, Dsss + i)}
    BY <2>3 DEF Finds
  <2>5. Table(mask, Dsss).found = {i \in 0..(Dsss - 1) : Bit(mask, i)}
    <3>1. \A i \in 0..(Dsss - 1) : 0 + i = i
      OBVIOUS
    <3> QED
      BY <2>1, <3>1 DEF Finds
  <2> QED
    BY <1>5, <2>4, <2>5 DEF update_allowed_rates, Supported
<1>6. CASE band = 5
  <2>1. Finds(mask, 0, Ofdm, mask, h[Ofdm])
    <3>1. Ofdm \in 0..N /\ Ofdm = 0 + Ofdm
      BY <1>1
    <3> HIDE DEF N
    <3> QED
      BY <1>1, <1>2, <1>3, <1>4, <3>1, TableFinds
  <2>2. Table(mask, Ofdm).found = {i \in 0..(Ofdm - 1) : Bit(mask, 0 + i)}
    BY <2>1 DEF Finds
  <2>3. {i \in 0..(0 - 1) : Bit(mask, i)} = {}
    OBVIOUS
  <2>4. update_allowed_rates(mask, 5)
          = [dsss |-> {}, ofdm |-> {i \in 0..(Ofdm - 1) : Bit(mask, 0 + i)}]
    <3> DEFINE d == [found |-> {}, rest |-> mask]
    <3>1. d.found = {} /\ d.rest = mask
      OBVIOUS
    <3>2. update_allowed_rates(mask, 5)
            = [dsss |-> d.found, ofdm |-> Table(d.rest, Ofdm).found]
      BY DEF update_allowed_rates
    <3> HIDE DEF d
    <3> QED
      BY <2>2, <3>1, <3>2
  <2>5. Supported(mask, 5)
          = [dsss |-> {}, ofdm |-> {i \in 0..(Ofdm - 1) : Bit(mask, 0 + i)}]
    BY <2>3 DEF Supported
  <2> QED
    BY <1>6, <2>4, <2>5
<1> QED
  BY <1>5, <1>6

-----------------------------------------------------------------------------
(* The entries frames name.                                                *)

\* An entry for the interface, one for the BSS and one for every peer.
Room == IsFiniteSet(Peers) /\ StaNum >= 2 + Cardinality(Peers)

\* Whether the firmware has an entry for the interface, an entry for a peer, and
\* the peer's key.
HasSelf == (mac.phase # "none" /\ Now # "add_sta_self") \/ Now = "delete_sta_self"
Here(p) == \/ p \in mac.peers /\ ~(Now = "config_sta" /\ Of = p)
           \/ Now = "delete_sta" /\ Of = p
Keyed(p) == \/ p \in mac.keys /\ ~(Now = "set_stakey" /\ Of = p)
            \/ Now = "remove_stakey" /\ Of = p

\* Unless a command failed, the interface has the one entry the driver has the
\* index of, the BSS has its entry, each peer the entry the driver has for it with
\* the rates it was added with, and no entry has a key but that of a peer with one.
Named == Clean1 =>
  /\ \A i \in StaIdx : fw.sta[i] = "self" <=> HasSelf /\ i = vif.self_sta_index
  /\ fw.bss => fw.sta[fw.of] = "bss"
  /\ \A p \in Peers : Here(p) => /\ fw.sta[sta[p].sta_index] = p
                                 /\ fw.rates[sta[p].sta_index] = sta[p].rates
                                 /\ sta[p].sta_index \in fw.stakey <=> Keyed(p)
  /\ \A i \in fw.stakey : fw.sta[i] \in Peers

\* What a removal refused leaves is not what a failed command leaves.
LEMMA CleanBoth == Core /\ Clean1 => Clean0
BY DEF Core, Known, Clean0, Clean1

\* What that says after a step of a callback: none is on its way any more.
NamedThen ==
  /\ \A i \in StaIdx : fw'.sta[i] = "self" <=> mac.phase # "none" /\ i = vif'.self_sta_index
  /\ fw'.bss => fw'.sta[fw'.of] = "bss"
  /\ \A p \in mac.peers : /\ fw'.sta[sta'[p].sta_index] = p
                          /\ fw'.rates[sta'[p].sta_index] = sta'[p].rates
                          /\ sta'[p].sta_index \in fw'.stakey <=> p \in mac.keys
  /\ \A i \in fw'.stakey : fw'.sta[i] \in Peers

LEMMA NamedAfter ==
  ASSUME Core, Smd, NamedThen
  PROVE  Named'
<1>1. TypeOK /\ Place /\ mac' = mac
  BY SmdMoves DEF Core
<1>2. Now' \notin {"add_sta_self", "delete_sta_self", "config_sta", "delete_sta",
                   "set_stakey", "remove_stakey"}
  BY <1>1, SmdNow DEF Unsent, Reconfigures
<1>3. HasSelf' <=> mac.phase # "none"
  BY <1>1, <1>2 DEF HasSelf
<1>4. \A p \in Peers : (Here(p)' <=> p \in mac.peers) /\ (Keyed(p)' <=> p \in mac.keys)
  BY <1>1, <1>2 DEF Here, Keyed
<1> QED
  BY <1>3, <1>4 DEF Named, NamedThen

\* A step about neither a peer nor the interface.
LEMMA NamedKept ==
  ASSUME Core, Named, Clean1, Smd,
         Now \notin {"add_sta_self", "delete_sta_self", "config_sta", "delete_sta",
                     "set_stakey", "remove_stakey"},
         fw'.bss = fw.bss, fw'.of = fw.of, fw'.sta = fw.sta, fw'.rates = fw.rates,
         fw'.stakey = fw.stakey, vif'.self_sta_index = vif.self_sta_index,
         \A p \in mac.peers : sta'[p] = sta[p]
  PROVE  Named'
<1>1. mac.peers \subseteq Peers
  BY Typed DEF Core, MacType
<1>2. HasSelf <=> mac.phase # "none"
  BY DEF HasSelf
<1>3. \A p \in mac.peers : Here(p) /\ (Keyed(p) <=> p \in mac.keys)
  BY DEF Here, Keyed
<1>4. NamedThen
  BY <1>1, <1>2, <1>3 DEF Named, NamedThen
<1> QED
  BY <1>4, NamedAfter

\* While a peer is configured there is room for it.
LEMMA RoomForPeer ==
  ASSUME Room, Core, Left, Named, Clean1, Now = "config_sta"
  PROVE  FreeSta # {}
<1> SUFFICES ASSUME FreeSta = {} PROVE FALSE
  OBVIOUS
<1>1. Clean0 /\ fw \in FwType
  BY CleanBoth, Typed DEF Core
<1> DEFINE T == {"self", "bss"} \cup (Peers \ {Of})
           F == [i \in StaIdx |-> fw.sta[i]]
<1>2. Of \in Peers
  BY Typed DEF Core, Place, Moment, MacType
<1>3. ASSUME NEW i \in StaIdx
      PROVE  fw.sta[i] \in T
  <2>1. fw.sta[i] \in {"self", "bss"} \cup Peers
    BY <1>1 DEF FwType, FreeSta
  <2>2. fw.sta[i] # Of
    BY <1>1, <1>2 DEF Left
  <2> QED
    BY <2>1, <2>2
<1>4. F \in [StaIdx -> T]
  BY <1>3
<1>5. ASSUME NEW i \in StaIdx, NEW j \in StaIdx, fw.sta[i] = fw.sta[j]
      PROVE  i = j
  <2>1. CASE fw.sta[i] = "self"
    <3> HIDE DEF T, F
    <3>1. \A k \in StaIdx : fw.sta[k] = "self" => k = vif.self_sta_index
      BY Zenon DEF Named
    <3>2. fw.sta[i] = "self" /\ fw.sta[j] = "self"
      BY <1>5, <2>1
    <3> QED
      BY <3>1, <3>2
  <2>2. CASE fw.sta[i] = "bss"
    BY <1>1, <1>5, <2>2 DEF Left
  <2>3. CASE fw.sta[i] \in Peers
    BY <1>1, <1>5, <2>3 DEF Left
  <2> QED
    BY <1>3, <2>1, <2>2, <2>3
<1>6. F \in Injection(StaIdx, T)
  BY <1>4, <1>5 DEF Injection, IsInjective
<1>7. IsFiniteSet(T) /\ Cardinality(T) <= 1 + Cardinality(Peers)
  <2>1. /\ IsFiniteSet(Peers \ {Of})
        /\ Cardinality(Peers \ {Of}) = Cardinality(Peers) - 1
    BY <1>2, FS_RemoveElement DEF Room
  <2>2. Cardinality(Peers) \in Nat
    BY FS_CardinalityType DEF Room
  <2> DEFINE V == Peers \ {Of}
             U == V \cup {"self"}
  <2>3. T = U \cup {"bss"}
    OBVIOUS
  <2>4. IsFiniteSet(V) /\ Cardinality(V) = Cardinality(Peers) - 1
    BY <2>1
  <2> HIDE DEF T, V
  <2>5. IsFiniteSet(U) /\ Cardinality(U) <= Cardinality(V) + 1 /\ Cardinality(U) \in Nat
    <3>1. IsFiniteSet(U) /\ (Cardinality(U) = Cardinality(V) \/ Cardinality(U) = Cardinality(V) + 1)
      BY <2>4, FS_AddElement
    <3>2. Cardinality(U) \in Nat /\ Cardinality(V) \in Nat
      BY <2>4, <3>1, FS_CardinalityType
    <3> QED
      BY <3>1, <3>2
  <2> HIDE DEF U
  <2>6. IsFiniteSet(T) /\ Cardinality(T) <= Cardinality(U) + 1 /\ Cardinality(T) \in Nat
    <3>1. IsFiniteSet(T) /\ (Cardinality(T) = Cardinality(U) \/ Cardinality(T) = Cardinality(U) + 1)
      BY <2>3, <2>5, FS_AddElement
    <3>2. Cardinality(T) \in Nat
      BY <3>1, FS_CardinalityType
    <3> QED
      BY <2>5, <3>1, <3>2
  <2> QED
    BY <2>2, <2>4, <2>5, <2>6
<1>8. IsFiniteSet(StaIdx) /\ Cardinality(StaIdx) = StaNum
  <2>1. 0 \in Int /\ StaNum - 1 \in Int /\ StaNum >= 1
    BY ApAssumption
  <2> DEFINE m == StaNum - 1
  <2>2. m \in Int /\ ~(0 > m) /\ m - 0 + 1 = StaNum
    BY <2>1, ApAssumption
  <2>3. StaIdx = 0..m
    BY DEF StaIdx
  <2> HIDE DEF m
  <2>4. IsFiniteSet(0..m) /\ Cardinality(0..m) = m - 0 + 1
    BY <2>1, <2>2, FS_Interval
  <2> QED
    BY <2>2, <2>3, <2>4
<1>9. Cardinality(StaIdx) <= Cardinality(T)
  <2> HIDE DEF T, F
  <2> QED
    BY <1>6, <1>7, FS_Injection
<1>10. Cardinality(Peers) \in Nat /\ Cardinality(T) \in Nat /\ StaNum \in Nat
  BY <1>7, FS_CardinalityType, ApAssumption DEF Room
<1> HIDE DEF T
<1> QED
  BY <1>7, <1>8, <1>9, <1>10 DEF Room

\* A step about the interface or the BSS.
LEMMA NamedVif ==
  ASSUME Core, Left, Named, Clean1, Clean1', AddStaSelf \/ DeleteStaSelf \/ ConfigBss \/ DeleteBss
  PROVE  NamedThen
<1>1. TypeOK /\ Place /\ Clean0 /\ fw \in FwType /\ vif \in VifType /\ sta \in [Peers -> PeerType]
      /\ mac.peers \subseteq Peers
  BY CleanBoth, Typed DEF Core, MacType
<1>2. /\ "lost" \notin history' /\ "refused" \notin history' /\ "nobss" \notin history'
  BY DEF Clean1
<1>3. /\ FreeSta # {} => FirstFree \in FreeSta
      /\ FirstFree \in StaIdx
  BY <1>1, FirstFreeIn
<1>4. \A p \in Peers : sta[p].sta_index \in StaIdx
  BY <1>1 DEF PeerType
<1>5. ASSUME Now \notin {"add_sta_self", "delete_sta_self", "config_sta", "delete_sta",
                         "set_stakey", "remove_stakey"}
      PROVE  /\ \A i \in StaIdx : fw.sta[i] = "self" <=> mac.phase # "none" /\ i = vif.self_sta_index
             /\ fw.bss => fw.sta[fw.of] = "bss"
             /\ \A p \in mac.peers : /\ fw.sta[sta[p].sta_index] = p
                                     /\ fw.rates[sta[p].sta_index] = sta[p].rates
                                     /\ sta[p].sta_index \in fw.stakey <=> p \in mac.keys
             /\ \A i \in fw.stakey : fw.sta[i] \in Peers
  <2>1. HasSelf <=> mac.phase # "none"
    BY <1>5 DEF HasSelf
  <2>2. \A p \in mac.peers : Here(p) /\ (Keyed(p) <=> p \in mac.keys)
    BY <1>5 DEF Here, Keyed
  <2> QED
    BY <1>1, <2>1, <2>2 DEF Named
<1>6. fw.stakey \subseteq StaIdx /\ fw.of \in StaIdx
  BY <1>1 DEF FwType
<1>7. CASE AddStaSelf
  <2>1. PICK o : /\ Ask(o, "add_sta_self", FreeSta # {}, SelfAdded)
                 /\ IF o = "ok" THEN vif' = [vif EXCEPT !.self_sta_index = FirstFree] /\ sta' = sta
                    ELSE Silent
    BY <1>7, Forms
  <2>2. Now = "add_sta_self"
    BY <1>7, ActionNames
  <2>3. mac.phase = "idle" /\ mac.peers = {}
    BY <1>1, <2>2 DEF Place, Moment
  <2>4. ~fw.bss
    BY <1>1, <2>2, <2>3 DEF Left
  <2>5. ASSUME NEW i \in StaIdx
        PROVE  fw.sta[i] = "free"
    <3>1. fw.sta[i] \in {"free", "self", "bss"} \cup Peers
      BY <1>1 DEF FwType
    <3>2. fw.sta[i] # "self"
      BY <2>2 DEF Named, HasSelf
    <3>3. fw.sta[i] # "bss"
      BY <1>1, <2>4 DEF Left
    <3>4. fw.sta[i] \notin Peers
      BY <1>1, <2>2, <2>3 DEF Left
    <3> QED
      BY <3>1, <3>2, <3>3, <3>4
  <2>6. FreeSta # {}
    BY <2>5, Kinds DEF FreeSta
  <2>7. o = "ok"
    <3>1. o \in {"ok", "unknown"}
      BY <1>1, <1>2, <2>1, Asked
    <3>2. o # "unknown"
      BY <2>1, <2>6 DEF Ask, Outcomes
    <3> QED
      BY <3>1, <3>2
  <2>8. fw' = SelfAdded /\ vif'.self_sta_index = FirstFree
    BY <1>1, <2>1, <2>7, Asked DEF VifType
  <2>9. /\ fw'.bss = fw.bss /\ fw'.stakey = fw.stakey
        /\ \A i \in StaIdx : fw'.sta[i] = IF i = FirstFree THEN "self" ELSE fw.sta[i]
    BY <1>1, <2>8, Effects
  <2>10. fw.stakey = {}
    <3>1. \A i \in fw.stakey : i \in StaIdx /\ fw.sta[i] \in Peers
      BY <1>6, Zenon DEF Named
    <3>2. \A i \in StaIdx : fw.sta[i] \notin Peers
      BY <2>5, Kinds
    <3> QED
      BY <3>1, <3>2
  <2> QED
    BY <2>3, <2>4, <2>5, <2>8, <2>9, <2>10 DEF NamedThen
<1>8. CASE DeleteStaSelf
  <2>1. PICK o : /\ Ask(o, "delete_sta_self", \E i \in StaIdx : fw.sta[i] = "self", SelfDeleted)
                 /\ Silent
    BY <1>8, Forms
  <2>2. Now = "delete_sta_self"
    BY <1>8, ActionNames
  <2>3. mac.phase = "none" /\ mac.peers = {}
    BY <1>1, <2>2 DEF Place, Moment
  <2>4. ~fw.bss
    BY <1>1, <2>2, <2>3 DEF Left
  <2>5. IF \E i \in StaIdx : fw.sta[i] = "self" THEN fw' = SelfDeleted ELSE fw' = fw
    <3>1. o \in {"ok", "unknown"}
      BY <1>1, <1>2, <2>1, Asked
    <3> QED
      BY <1>1, <2>1, <3>1, Asked
  <2>6. /\ fw'.bss = fw.bss /\ fw'.stakey = fw.stakey
        /\ \A i \in StaIdx : fw'.sta[i] = IF fw.sta[i] = "self" THEN "free" ELSE fw.sta[i]
    <3>1. CASE \E i \in StaIdx : fw.sta[i] = "self"
      BY <1>1, <2>5, <3>1, Effects
    <3>2. CASE ~\E i \in StaIdx : fw.sta[i] = "self"
      BY <2>5, <3>2
    <3> QED
      BY <3>1, <3>2
  <2>7. \A i \in StaIdx : fw'.sta[i] # "self"
    BY <2>6
  <2>8. \A i \in fw.stakey : fw.sta[i] \in Peers
    BY DEF Named
  <2>9. \A i \in fw'.stakey : fw'.sta[i] \in Peers
    BY <1>6, <2>6, <2>8, Kinds
  <2> QED
    BY <2>3, <2>4, <2>6, <2>7, <2>9 DEF NamedThen
<1>9. CASE ConfigBss
  <2>1. PICK o : /\ Ask(o, "config_bss", fw.bss \/ FreeSta # {}, BssMade)
                 /\ IF o = "ok" THEN vif' = [vif EXCEPT !.bss_index = 0] /\ sta' = sta
                    ELSE Silent
    BY <1>9, Forms
  <2>2. Now = "config_bss"
    BY <1>9, ActionNames
  <2>3. o = "ok" /\ (fw.bss \/ FreeSta # {}) /\ fw' = BssMade
    BY <1>1, <1>2, <2>1, Asked
  <2>4. vif'.self_sta_index = vif.self_sta_index /\ sta' = sta
    BY <1>1, <2>1, <2>3 DEF VifType
  <2>5. CASE fw.bss
    <3>1. fw' = fw
      BY <1>1, <2>3, <2>5, Effects
    <3> QED
      BY <1>5, <2>2, <2>4, <3>1 DEF NamedThen
  <2>6. CASE ~fw.bss
    <3>1. /\ fw'.of = FirstFree /\ fw'.stakey = fw.stakey
          /\ \A i \in StaIdx : /\ fw'.sta[i] = IF i = FirstFree THEN "bss" ELSE fw.sta[i]
                               /\ i # FirstFree => fw'.rates[i] = fw.rates[i]
      BY <1>1, <2>3, <2>6, Effects
    <3>2. fw.sta[FirstFree] = "free"
      BY <1>3, <2>3, <2>6 DEF FreeSta
    <3>3. \A i \in StaIdx : fw.sta[i] \in Peers \cup {"self"} =>
            fw'.sta[i] = fw.sta[i] /\ fw'.rates[i] = fw.rates[i]
      BY <3>1, <3>2, Kinds
    <3>4. \A i \in StaIdx : fw'.sta[i] = "self" <=> fw.sta[i] = "self"
      BY <3>1, <3>2
    <3>5. \A p \in mac.peers : /\ fw'.sta[sta'[p].sta_index] = p
                               /\ fw'.rates[sta'[p].sta_index] = sta'[p].rates
                               /\ sta'[p].sta_index \in fw'.stakey <=> p \in mac.keys
      BY <1>1, <1>4, <1>5, <2>2, <2>4, <3>1, <3>3
    <3>6. \A i \in fw'.stakey : fw'.sta[i] \in Peers
      BY <1>5, <1>6, <2>2, <3>1, <3>3
    <3>7. fw'.sta[fw'.of] = "bss"
      BY <1>3, <3>1
    <3>8. \A i \in StaIdx : fw'.sta[i] = "self" <=> mac.phase # "none" /\ i = vif'.self_sta_index
      BY <1>5, <2>2, <2>4, <3>4
    <3> QED
      BY <3>5, <3>6, <3>7, <3>8 DEF NamedThen
  <2> QED
    BY <2>5, <2>6
<1>10. CASE DeleteBss
  <2>1. PICK o : Ask(o, "delete_bss", HasBss, BssDeleted) /\ Silent
    BY <1>10, Forms
  <2>2. Now = "delete_bss" /\ vif' = vif /\ sta' = sta
    BY <1>10, <2>1, ActionNames DEF Silent
  <2>3. IF HasBss THEN fw' = BssDeleted ELSE fw' = fw
    <3>1. o \in {"ok", "unknown"}
      BY <1>1, <1>2, <2>1, Asked
    <3> QED
      BY <1>1, <2>1, <3>1, Asked
  <2>4. CASE HasBss
    <3>1. fw.sta[fw.of] = "bss"
      BY <1>5, <2>2, <2>4 DEF HasBss
    <3>2. /\ ~fw'.bss /\ fw'.stakey = fw.stakey
          /\ \A i \in StaIdx : /\ fw'.sta[i] = IF i = fw.of THEN "free" ELSE fw.sta[i]
                               /\ i # fw.of => fw'.rates[i] = fw.rates[i]
      BY <1>1, <2>3, <2>4, Effects
    <3>3. \A i \in StaIdx : fw.sta[i] \in Peers \cup {"self"} =>
            fw'.sta[i] = fw.sta[i] /\ fw'.rates[i] = fw.rates[i]
      BY <3>1, <3>2, Kinds
    <3>4. \A i \in StaIdx : fw'.sta[i] = "self" <=> fw.sta[i] = "self"
      BY <3>1, <3>2
    <3>5. \A p \in mac.peers : /\ fw'.sta[sta'[p].sta_index] = p
                               /\ fw'.rates[sta'[p].sta_index] = sta'[p].rates
                               /\ sta'[p].sta_index \in fw'.stakey <=> p \in mac.keys
      BY <1>1, <1>4, <1>5, <2>2, <3>2, <3>3
    <3>6. \A i \in fw'.stakey : fw'.sta[i] \in Peers
      BY <1>5, <1>6, <2>2, <3>2, <3>3
    <3>7. \A i \in StaIdx : fw'.sta[i] = "self" <=> mac.phase # "none" /\ i = vif'.self_sta_index
      BY <1>5, <2>2, <3>4
    <3> QED
      BY <3>2, <3>5, <3>6, <3>7 DEF NamedThen
  <2>5. CASE ~HasBss
    BY <1>5, <2>2, <2>3, <2>5 DEF NamedThen
  <2> QED
    BY <2>4, <2>5
<1> QED
  BY <1>7, <1>8, <1>9, <1>10

\* The four commands about a peer: what a step does at the peer's entry, and the
\* entries it leaves alone.
LEMMA NamedPeer ==
  ASSUME Room, Core, Left, Made, Named, Clean1, Clean1',
         ConfigSta \/ DeleteSta \/ SetStaKey \/ RemoveStaKey
  PROVE  NamedThen
<1>1. TypeOK /\ Place /\ Clean0 /\ fw \in FwType /\ sta \in [Peers -> PeerType]
      /\ mac.peers \subseteq Peers /\ mac.keys \subseteq Peers
  BY CleanBoth, Typed DEF Core, MacType
<1>2. "lost" \notin history' /\ "refused" \notin history'
  BY DEF Clean1
<1>3. /\ FreeSta # {} => FirstFree \in FreeSta
      /\ FirstFree \in StaIdx
  BY <1>1, FirstFreeIn
<1>4. \A p \in Peers : sta[p].sta_index \in StaIdx
  BY <1>1 DEF PeerType
<1>5. Now \in {"config_sta", "delete_sta", "set_stakey", "remove_stakey"}
  BY ActionNames
<1>6. /\ mac.phase = "on" /\ mac.keys \subseteq mac.peers
      /\ Now \in {"config_sta", "remove_stakey"} => Of \in mac.peers \ mac.keys
      /\ Now = "delete_sta" => Of \notin mac.peers
      /\ Now = "set_stakey" => Of \in mac.keys
  BY <1>1, <1>5 DEF Place, Moment, PeerSteps
<1>7. Of \in Peers
  <2>1. todo # <<>> /\ Head(todo)[1] = Now
    BY <1>5, SmdMoves DEF Smd, Now, NameOf
  <2> QED
    BY <1>1, <1>5, <2>1, HeadOf DEF PeerSteps
<1>8. /\ \A i \in StaIdx : fw.sta[i] = "self" <=> i = vif.self_sta_index
      /\ fw.bss => fw.sta[fw.of] = "bss"
      /\ \A i \in fw.stakey : fw.sta[i] \in Peers
      /\ fw.of \in StaIdx /\ fw.stakey \subseteq StaIdx
  <2>1. HasSelf
    BY <1>5, <1>6 DEF HasSelf
  <2> QED
    BY <1>1, <2>1 DEF Named, FwType
<1>9. ASSUME NEW p \in mac.peers, p # Of
      PROVE  /\ fw.sta[sta[p].sta_index] = p
             /\ fw.rates[sta[p].sta_index] = sta[p].rates
             /\ sta[p].sta_index \in fw.stakey <=> p \in mac.keys
  <2>1. Here(p) /\ (Keyed(p) <=> p \in mac.keys)
    BY <1>9 DEF Here, Keyed
  <2> QED
    BY <1>1, <2>1 DEF Named
<1>10. ASSUME Now # "config_sta"
       PROVE  /\ fw.sta[sta[Of].sta_index] = Of
              /\ fw.rates[sta[Of].sta_index] = sta[Of].rates
              /\ sta[Of].sta_index \in fw.stakey <=> Now = "remove_stakey"
  <2>1. Here(Of) /\ (Keyed(Of) <=> Now = "remove_stakey")
    BY <1>5, <1>6, <1>10 DEF Here, Keyed
  <2> QED
    BY <1>7, <2>1 DEF Named
<1> DEFINE n == IF Now = "config_sta" THEN FirstFree ELSE sta[Of].sta_index
<1>11. n \in StaIdx
  BY <1>3, <1>4, <1>7
<1>12. ASSUME \* at the other entries and for the other peers nothing changes
              fw'.bss = fw.bss, fw'.of = fw.of, vif' = vif,
              \A i \in StaIdx : i # n => fw'.sta[i] = fw.sta[i] /\ fw'.rates[i] = fw.rates[i],
              \A i \in StaIdx : i # n => (i \in fw'.stakey <=> i \in fw.stakey),
              fw'.stakey \subseteq StaIdx,
              \A p \in mac.peers : p # Of => sta'[p] = sta[p],
              \* the entry is the peer's, or about to be
              fw.sta[n] = IF Now = "config_sta" THEN "free" ELSE Of,
              fw'.sta[n] = IF Now = "delete_sta" THEN "free" ELSE Of,
              Now # "delete_sta" => sta'[Of].sta_index = n /\ fw'.rates[n] = sta'[Of].rates,
              n \in fw'.stakey <=> Now = "set_stakey"
       PROVE  NamedThen
  <2> HIDE DEF n
  <2>1. fw.sta[n] # "self" /\ fw.sta[n] # "bss" /\ fw'.sta[n] # "self"
    BY <1>7, <1>12, Kinds
  <2>2. \A i \in StaIdx : fw'.sta[i] = "self" <=> fw.sta[i] = "self"
    BY <1>12, <2>1
  <2>3. fw'.bss => fw'.sta[fw'.of] = "bss"
    BY <1>8, <1>12, <2>1
  <2>4. ASSUME NEW p \in mac.peers
        PROVE  /\ fw'.sta[sta'[p].sta_index] = p
               /\ fw'.rates[sta'[p].sta_index] = sta'[p].rates
               /\ sta'[p].sta_index \in fw'.stakey <=> p \in mac.keys
    <3>1. CASE p = Of
      BY <1>5, <1>6, <1>12, <2>4, <3>1
    <3>2. CASE p # Of
      <4>1. sta[p].sta_index \in StaIdx /\ p \in Peers /\ sta'[p] = sta[p]
        BY <1>1, <1>4, <1>12, <3>2
      <4>2. sta[p].sta_index # n
        BY <1>7, <1>9, <1>12, <3>2, <4>1, Kinds
      <4> QED
        BY <1>9, <1>12, <3>2, <4>1, <4>2
    <3> QED
      BY <3>1, <3>2
  <2>5. ASSUME NEW i \in fw'.stakey
        PROVE  fw'.sta[i] \in Peers
    <3>1. CASE i = n
      BY <1>7, <1>12, <2>5, <3>1
    <3>2. CASE i # n
      BY <1>8, <1>12, <3>2
    <3> QED
      BY <3>1, <3>2
  <2>6. \A i \in StaIdx : fw'.sta[i] = "self" <=> mac.phase # "none" /\ i = vif'.self_sta_index
    BY <1>6, <1>8, <1>12, <2>2
  <2> QED
    BY <2>3, <2>4, <2>5, <2>6 DEF NamedThen
<1>13. CASE ConfigSta
  <2>1. PICK o : /\ Ask(o, "config_sta", HasBss /\ FreeSta # {}, StaMade(FirstFree, Of))
                 /\ IF o = "ok" THEN sta' = [sta EXCEPT ![Of].sta_index = FirstFree] /\ vif' = vif
                    ELSE Silent
    BY <1>13, Forms
  <2>2. Now = "config_sta" /\ n = FirstFree
    BY <1>13, ActionNames
  <2>3. FreeSta # {} /\ FirstFree \in FreeSta
    BY <1>3, <2>2, RoomForPeer
  <2>4. HasBss
    <3>1. fw.bss
      BY <1>6, <2>2 DEF Made, Reconfigures
    <3> QED
      BY <1>1, <2>2, <3>1 DEF Left, HasBss, BssIdx
  <2>5. o = "ok"
    <3>1. o \in {"ok", "unknown"}
      BY <1>1, <1>2, <2>1, Asked
    <3>2. o # "unknown"
      BY <2>1, <2>3, <2>4 DEF Ask, Outcomes
    <3> QED
      BY <3>1, <3>2
  <2>6. fw' = StaMade(FirstFree, Of)
    BY <1>1, <2>1, <2>5, Asked
  <2>7. /\ fw'.bss = fw.bss /\ fw'.of = fw.of /\ fw'.stakey = fw.stakey
        /\ \A i \in StaIdx :
             /\ fw'.sta[i] = IF i = FirstFree THEN Of ELSE fw.sta[i]
             /\ fw'.rates[i] = IF i = FirstFree THEN sta[Of].rates ELSE fw.rates[i]
    BY <1>1, <1>3, <1>7, <2>6, Effects
  <2>8. /\ vif' = vif /\ sta'[Of].sta_index = FirstFree /\ sta'[Of].rates = sta[Of].rates
        /\ \A p \in mac.peers : p # Of => sta'[p] = sta[p]
    BY <1>1, <1>7, <2>1, <2>5 DEF PeerType
  <2>9. fw.sta[FirstFree] = "free" /\ FirstFree \notin fw.stakey
    BY <1>8, <2>3, Kinds DEF FreeSta
  <2> HIDE DEF n
  <2> QED
    BY <1>3, <1>8, <1>12, <2>2, <2>7, <2>8, <2>9
<1>14. CASE DeleteSta
  <2>1. PICK o : /\ Ask(o, "delete_sta", fw.sta[sta[Of].sta_index] # "free",
                        StaDeleted(sta[Of].sta_index))
                 /\ Silent
    BY <1>14, Forms
  <2>2. Now = "delete_sta" /\ n = sta[Of].sta_index /\ vif' = vif /\ sta' = sta
    BY <1>14, <2>1, ActionNames DEF Silent
  <2> HIDE DEF n
  <2>3. fw.sta[n] = Of /\ fw.sta[n] # "free"
    BY <1>7, <1>10, <2>2, Kinds
  <2>4. fw' = StaDeleted(n)
    BY <1>1, <1>2, <2>1, <2>2, <2>3, Asked
  <2>5. /\ fw'.bss = fw.bss /\ fw'.of = fw.of /\ fw'.stakey = fw.stakey \ {n}
        /\ \A i \in StaIdx : /\ fw'.sta[i] = IF i = n THEN "free" ELSE fw.sta[i]
                             /\ i # n => fw'.rates[i] = fw.rates[i]
    BY <1>1, <1>11, <2>4, Effects
  <2> QED
    BY <1>8, <1>11, <1>12, <2>2, <2>3, <2>5
<1>15. CASE SetStaKey
  <2>1. PICK o : /\ Ask(o, "set_stakey", fw.sta[sta[Of].sta_index] # "free",
                        [fw EXCEPT !.stakey = @ \cup {sta[Of].sta_index}])
                 /\ Silent
    BY <1>15, Forms
  <2>2. Now = "set_stakey" /\ n = sta[Of].sta_index /\ vif' = vif /\ sta' = sta
    BY <1>15, <2>1, ActionNames DEF Silent
  <2> HIDE DEF n
  <2>3. fw.sta[n] = Of /\ fw.sta[n] # "free" /\ fw.rates[n] = sta[Of].rates
    BY <1>7, <1>10, <2>2, Kinds
  <2>4. fw' = [fw EXCEPT !.stakey = @ \cup {n}]
    BY <1>1, <1>2, <2>1, <2>2, <2>3, Asked
  <2>5. /\ fw'.bss = fw.bss /\ fw'.of = fw.of /\ fw'.stakey = fw.stakey \cup {n}
        /\ fw'.sta = fw.sta /\ fw'.rates = fw.rates
    BY <1>1, <2>4 DEF FwType
  <2> QED
    BY <1>8, <1>11, <1>12, <2>2, <2>3, <2>5
<1>16. CASE RemoveStaKey
  <2>1. PICK o : /\ Ask(o, "remove_stakey", sta[Of].sta_index \in fw.stakey,
                        [fw EXCEPT !.stakey = @ \ {sta[Of].sta_index}])
                 /\ Silent
    BY <1>16, Forms
  <2>2. Now = "remove_stakey" /\ n = sta[Of].sta_index /\ vif' = vif /\ sta' = sta
    BY <1>16, <2>1, ActionNames DEF Silent
  <2> HIDE DEF n
  <2>3. fw.sta[n] = Of /\ n \in fw.stakey /\ fw.rates[n] = sta[Of].rates
    BY <1>7, <1>10, <2>2
  <2>4. fw' = [fw EXCEPT !.stakey = @ \ {n}]
    <3>1. o \in {"ok", "unknown"}
      BY <1>1, <1>2, <2>1, Asked
    <3>2. o # "unknown"
      BY <2>1, <2>2, <2>3 DEF Ask, Outcomes
    <3> QED
      BY <2>1, <2>2, <3>1, <3>2 DEF Ask
  <2>5. /\ fw'.bss = fw.bss /\ fw'.of = fw.of /\ fw'.stakey = fw.stakey \ {n}
        /\ fw'.sta = fw.sta /\ fw'.rates = fw.rates
    BY <1>1, <2>4 DEF FwType
  <2> QED
    BY <1>8, <1>11, <1>12, <2>2, <2>3, <2>5
<1> QED
  BY <1>13, <1>14, <1>15, <1>16

LEMMA NamedSmd ==
  ASSUME Room, Core, Left, Made, Named, Smd
  PROVE  Named'
<1> SUFFICES ASSUME Clean1' PROVE Named'
  BY DEF Named
<1>1. TypeOK /\ Place /\ history \subseteq history' /\ fw \in FwType /\ vif \in VifType
      /\ sta \in [Peers -> PeerType]
  BY SmdMoves, Typed DEF Core
<1>2. Clean1
  BY <1>1 DEF Clean1
<1>3. CASE AddStaSelf \/ DeleteStaSelf \/ ConfigBss \/ DeleteBss
  BY <1>2, <1>3, NamedVif, NamedAfter
<1>4. CASE ConfigSta \/ DeleteSta \/ SetStaKey \/ RemoveStaKey
  BY <1>2, <1>4, NamedPeer, NamedAfter
<1>5. CASE NoSkb \/ Assign
  <2>1. Now \in {"proberesp_get", "beacon_get", "bss_invalid", "gone"} /\ fw' = fw
    BY <1>5, ActionNames DEF NoSkb, Assign
  <2>2. vif'.self_sta_index = vif.self_sta_index
    BY <1>1, <1>5 DEF NoSkb, Assign, Silent, VifType
  <2>3. \A p \in mac.peers : sta'[p] = sta[p]
    <3>1. CASE sta' = sta
      BY <3>1
    <3>2. CASE At("gone") /\ sta' = [sta EXCEPT ![Of] = NoSta]
      <4>1. Of \notin mac.peers
        BY <1>1, <3>2, NowIs DEF Place, Moment, PeerSteps
      <4>2. mac.peers \subseteq Peers
        BY <1>1, Typed DEF MacType
      <4> QED
        BY <1>1, <3>2, <4>1, <4>2
    <3> QED
      BY <1>5, <3>1, <3>2 DEF NoSkb, Assign, Silent
  <2> QED
    BY <1>2, <2>1, <2>2, <2>3, NamedKept
<1>6. ASSUME NEW o, NEW c, NEW known, NEW effect, Ask(o, c, known, effect), Silent
      PROVE  (fw' = fw \/ fw' = effect) /\ vif' = vif /\ sta' = sta
  BY <1>1, <1>6, Asked DEF Silent
<1>7. CASE SendBeacon
  <2>1. (fw' = fw \/ fw' = [fw EXCEPT !.beacon = TemplateNow]) /\ vif' = vif /\ sta' = sta
    BY <1>6, <1>7, Forms
  <2>2. /\ fw'.bss = fw.bss /\ fw'.of = fw.of /\ fw'.sta = fw.sta /\ fw'.rates = fw.rates
        /\ fw'.stakey = fw.stakey
    BY <1>1, <2>1 DEF FwType
  <2> QED
    BY <1>2, <1>7, <2>1, <2>2, ActionNames, NamedKept
<1>8. CASE UpdateProbeResp
  <2>1. fw' = fw /\ vif' = vif /\ sta' = sta
    BY <1>6, <1>8, Forms
  <2> QED
    BY <1>2, <1>8, <2>1, ActionNames, NamedKept
<1>9. CASE SetLinkSt
  <2>1. PICK o, c, l : Ask(o, c, TRUE, [fw EXCEPT !.link = l]) /\ Silent
    BY <1>9, Forms
  <2>2. (fw' = fw \/ fw' = [fw EXCEPT !.link = l]) /\ vif' = vif /\ sta' = sta
    BY <1>6, <2>1
  <2>3. /\ fw'.bss = fw.bss /\ fw'.of = fw.of /\ fw'.sta = fw.sta /\ fw'.rates = fw.rates
        /\ fw'.stakey = fw.stakey
    BY <1>1, <2>2 DEF FwType
  <2>4. Now \in {"link_on", "link_idle"}
    BY <1>9, ActionNames
  <2> QED
    BY <1>2, <2>2, <2>3, <2>4, NamedKept
<1>10. CASE BssKey
  <2>1. PICK o : /\ \/ Ask(o, "set_bsskey", fw.bss, [fw EXCEPT !.bsskey = TRUE])
                    \/ Ask(o, "remove_bsskey", fw.bsskey, [fw EXCEPT !.bsskey = FALSE])
                 /\ Silent
    BY <1>10, Forms
  <2>2. /\ fw' = fw \/ fw' = [fw EXCEPT !.bsskey = TRUE] \/ fw' = [fw EXCEPT !.bsskey = FALSE]
        /\ vif' = vif /\ sta' = sta
    BY <1>6, <2>1
  <2>3. /\ fw'.bss = fw.bss /\ fw'.of = fw.of /\ fw'.sta = fw.sta /\ fw'.rates = fw.rates
        /\ fw'.stakey = fw.stakey
    BY <1>1, <2>2 DEF FwType
  <2>4. Now \in {"set_bsskey", "remove_bsskey"}
    BY <1>10, ActionNames
  <2> QED
    BY <1>2, <2>2, <2>3, <2>4, NamedKept
<1> QED
  BY <1>3, <1>4, <1>5, <1>7, <1>8, <1>9, <1>10 DEF Smd

\* A callback that begins: whom the firmware has, and whose key, stays as it is.
LEMMA NamedSame ==
  ASSUME Named, Clean1, fw' = fw, HasSelf' <=> HasSelf,
         HasSelf => vif'.self_sta_index = vif.self_sta_index,
         \A p \in Peers : (Here(p)' <=> Here(p)) /\ (Keyed(p)' <=> Keyed(p)),
         \A p \in Peers : Here(p) => sta'[p].sta_index = sta[p].sta_index
                                     /\ sta'[p].rates = sta[p].rates
  PROVE  Named'
BY DEF Named

LEMMA NamedMacCall ==
  ASSUME Core, Named, MacCall
  PROVE  Named'
<1> SUFFICES ASSUME Clean1' PROVE Named'
  BY DEF Named
<1>1. fw' = fw /\ Clean1 /\ Now = "idle" /\ TypeOK /\ Place /\ mac.peers \subseteq Peers
  BY MacCallBegins, Typed DEF Clean1, Core, MacType
<1>2. /\ HasSelf <=> mac.phase # "none"
      /\ \A p \in Peers : (Here(p) <=> p \in mac.peers) /\ (Keyed(p) <=> p \in mac.keys)
  BY <1>1 DEF HasSelf, Here, Keyed
<1>3. mac.keys \subseteq mac.peers
  BY <1>1 DEF Place, Moment
<1>4. CASE add_interface
  <2>1. mac.phase = "none" /\ mac'.phase = "idle" /\ Now' = "add_sta_self" /\ SameMac /\ sta' = sta
    BY <1>4, MacCallIs
  <2>2. ~HasSelf /\ ~HasSelf'
    BY <1>2, <2>1 DEF HasSelf
  <2>3. \A p \in Peers : (Here(p)' <=> Here(p)) /\ (Keyed(p)' <=> Keyed(p))
    BY <1>2, <2>1 DEF Here, Keyed, SameMac
  <2> QED
    BY <1>1, <2>1, <2>2, <2>3, NamedSame
<1>5. CASE remove_interface
  <2>1. /\ mac.phase = "idle" /\ Now' = "delete_sta_self" /\ SameMac /\ sta' = sta /\ vif' = vif
    BY <1>5, MacCallIs
  <2>2. HasSelf /\ HasSelf'
    BY <1>2, <2>1 DEF HasSelf
  <2>3. \A p \in Peers : (Here(p)' <=> Here(p)) /\ (Keyed(p)' <=> Keyed(p))
    BY <1>2, <2>1 DEF Here, Keyed, SameMac
  <2> QED
    BY <1>1, <2>1, <2>2, <2>3, NamedSame
<1>6. CASE BeaconOn \/ BeaconChange \/ BeaconOff
  <2>1. /\ mac.phase # "none" /\ mac'.phase # "none"
        /\ Now' \in {"proberesp_get", "bss_invalid", "link_idle"}
        /\ SameMac /\ sta' = sta /\ vif' = vif
    BY <1>6, MacCallIs
  <2>2. HasSelf /\ HasSelf'
    BY <1>2, <2>1 DEF HasSelf
  <2>3. \A p \in Peers : (Here(p)' <=> Here(p)) /\ (Keyed(p)' <=> Keyed(p))
    BY <1>2, <2>1 DEF Here, Keyed, SameMac
  <2> QED
    BY <1>1, <2>1, <2>2, <2>3, NamedSame
<1>7. CASE GroupKey
  <2>1. /\ mac.phase = "on" /\ mac'.phase = "on" /\ Now' \in {"remove_bsskey", "set_bsskey"}
        /\ mac'.peers = mac.peers /\ mac'.keys = mac.keys /\ sta' = sta
        /\ vif'.self_sta_index = vif.self_sta_index
    BY <1>7, MacCallIs DEF SameVif
  <2>2. HasSelf /\ HasSelf'
    BY <1>2, <2>1 DEF HasSelf
  <2>3. \A p \in Peers : (Here(p)' <=> Here(p)) /\ (Keyed(p)' <=> Keyed(p))
    BY <1>2, <2>1 DEF Here, Keyed
  <2> QED
    BY <1>1, <2>1, <2>2, <2>3, NamedSame
<1>8. ASSUME NEW p \in Peers, sta_add(p)
      PROVE  Named'
  <2>1. /\ mac.phase = "on" /\ mac'.phase = "on" /\ Now' = "config_sta" /\ Of' = p
        /\ p \notin mac.peers /\ mac'.peers = mac.peers \cup {p} /\ mac'.keys = mac.keys
        /\ vif' = vif /\ SameIndex
        /\ \A q \in Peers : q # p => sta'[q].rates = sta[q].rates
    BY <1>8, MacCallIs
  <2>2. HasSelf /\ HasSelf'
    BY <1>2, <2>1 DEF HasSelf
  <2>3. \A q \in Peers : (Here(q)' <=> Here(q)) /\ (Keyed(q)' <=> Keyed(q))
    BY <1>2, <2>1 DEF Here, Keyed
  <2>4. \A q \in Peers : Here(q) => sta'[q].sta_index = sta[q].sta_index
                                    /\ sta'[q].rates = sta[q].rates
    BY <1>2, <2>1 DEF SameIndex
  <2> QED
    BY <1>1, <2>1, <2>2, <2>3, <2>4, NamedSame
<1>9. ASSUME NEW p \in Peers, sta_remove(p)
      PROVE  Named'
  <2>1. /\ mac.phase = "on" /\ mac'.phase = "on" /\ Now' = "delete_sta" /\ Of' = p
        /\ p \in mac.peers \ mac.keys /\ mac'.peers = mac.peers \ {p} /\ mac'.keys = mac.keys
        /\ vif' = vif /\ sta' = sta
    BY <1>9, MacCallIs
  <2>2. HasSelf /\ HasSelf'
    BY <1>2, <2>1 DEF HasSelf
  <2>3. \A q \in Peers : (Here(q)' <=> Here(q)) /\ (Keyed(q)' <=> Keyed(q))
    BY <1>2, <2>1 DEF Here, Keyed
  <2> QED
    BY <1>1, <2>1, <2>2, <2>3, NamedSame
<1>10. ASSUME NEW p \in Peers, SetPairwiseKey(p)
       PROVE  Named'
  <2>1. /\ mac.phase = "on" /\ mac'.phase = "on" /\ Now' = "set_stakey" /\ Of' = p
        /\ p \in mac.peers \ mac.keys /\ mac'.keys = mac.keys \cup {p}
        /\ mac'.peers = mac.peers /\ SameVif /\ SameIndex
        /\ \A q \in Peers : sta'[q].rates = sta[q].rates
    BY <1>10, MacCallIs
  <2>2. HasSelf /\ HasSelf'
    BY <1>2, <2>1 DEF HasSelf
  <2>3. \A q \in Peers : (Here(q)' <=> Here(q)) /\ (Keyed(q)' <=> Keyed(q))
    BY <1>2, <2>1 DEF Here, Keyed
  <2> QED
    BY <1>1, <2>1, <2>2, <2>3, NamedSame DEF SameVif, SameIndex
<1>11. ASSUME NEW p \in Peers, DisablePairwiseKey(p)
       PROVE  Named'
  <2>1. /\ mac.phase = "on" /\ mac'.phase = "on" /\ Now' = "remove_stakey" /\ Of' = p
        /\ p \in mac.keys /\ mac'.keys = mac.keys \ {p} /\ mac'.peers = mac.peers
        /\ vif' = vif /\ SameIndex
        /\ \A q \in Peers : sta'[q].rates = sta[q].rates
    BY <1>11, MacCallIs
  <2>2. HasSelf /\ HasSelf'
    BY <1>2, <2>1 DEF HasSelf
  <2>3. \A q \in Peers : (Here(q)' <=> Here(q)) /\ (Keyed(q)' <=> Keyed(q))
    BY <1>2, <2>1 DEF Here, Keyed
  <2> QED
    BY <1>1, <2>1, <2>2, <2>3, NamedSame DEF SameIndex
<1> QED
  BY <1>4, <1>5, <1>6, <1>7, <1>8, <1>9, <1>10, <1>11 DEF MacCall

LEMMA NamedInv ==
  ASSUME Room
  PROVE  Spec => [](Core /\ Named)
<1>1. Init => Named
  <2> SUFFICES ASSUME Init PROVE Named
    OBVIOUS
  <2>1. /\ ~fw.bss /\ fw.stakey = {} /\ mac.peers = {} /\ mac.phase = "none"
        /\ \A i \in StaIdx : fw.sta[i] = "free"
    BY DEF Init
  <2>2. Now = "idle"
    BY DEF Init, Now, NameOf
  <2> QED
    BY <2>1, <2>2 DEF Named, HasSelf, Here
<1>2. Core /\ Left /\ Made /\ Named /\ [Next]_vars => Named'
  <2> SUFFICES ASSUME Core, Left, Made, Named, [Next]_vars PROVE Named'
    OBVIOUS
  <2>1. CASE UNCHANGED vars
    BY <2>1 DEF Named, Clean1, HasSelf, Here, Keyed, Now, Of, vars
  <2> QED
    BY <2>1, NamedSmd, NamedMacCall DEF Next
<1> QED
  BY <1>1, <1>2, LeftInv, BeaconInv, PTL DEF Spec

\* Unless a command failed, a frame to a peer handed over and not yet removed
\* names the firmware's entry for that peer (txrx.c:182), whose rates are those the
\* peer supports if its mask has no gap (main.c:566), and says whether it has a key;
\* a group frame names the interface's entry.  So it is for any number of peers,
\* masks and rates, given an entry for each of them.
THEOREM FramesNameThePeer ==
  ASSUME Room
  PROVE  Spec => []FrameNamesPeer
<1>1. Core /\ Named => FrameNamesPeer
  <2> SUFFICES ASSUME Core, Named, Clean1
               PROVE  /\ \A p \in Peers : Uploaded(p) =>
                           /\ fw.sta[TxIndex(p)] = p
                           /\ NoGap(sta[p].mask) =>
                                fw.rates[TxIndex(p)] = Supported(sta[p].mask, mac.band)
                           /\ ~At("set_stakey") /\ ~At("remove_stakey") =>
                                (TxNoEncrypt(p) <=> TxIndex(p) \notin fw.stakey)
                      /\ mac.phase = "on" => fw.sta[TxIndexOfVif] = "self"
    BY DEF FrameNamesPeer, Clean1
  <2>1. /\ TypeOK /\ Place /\ Known /\ sta \in [Peers -> PeerType] /\ mac.band \in {2, 5}
        /\ vif.self_sta_index \in StaIdx
    BY Typed DEF Core, MacType, VifType
  <2>2. /\ At("config_sta") <=> Now = "config_sta"
        /\ At("set_stakey") <=> Now = "set_stakey"
        /\ At("remove_stakey") <=> Now = "remove_stakey"
    BY NowIs DEF PeerSteps
  <2>3. ASSUME NEW p \in Peers, Uploaded(p)
        PROVE  /\ fw.sta[TxIndex(p)] = p
               /\ NoGap(sta[p].mask) =>
                    fw.rates[TxIndex(p)] = Supported(sta[p].mask, mac.band)
               /\ ~At("set_stakey") /\ ~At("remove_stakey") =>
                    (TxNoEncrypt(p) <=> TxIndex(p) \notin fw.stakey)
    <3>1. p \in mac.peers /\ Here(p)
      BY <2>2, <2>3 DEF Uploaded, Here
    <3>2. /\ fw.sta[TxIndex(p)] = p
          /\ fw.rates[TxIndex(p)] = sta[p].rates
          /\ TxIndex(p) \in fw.stakey <=> Keyed(p)
      BY <3>1 DEF Named, TxIndex
    <3>3. sta[p].mask \in Nat
      <4>1. sta[p] \in PeerType
        BY <2>1
      <4>2. sta[p].mask \in Masks \cup {0}
        BY <4>1 DEF PeerType
      <4>3. \A m \in Masks : m \in Nat
        BY Zenon, ApAssumption DEF ApAssumption
      <4>4. 0 \in Nat
        OBVIOUS
      <4> QED
        BY <4>2, <4>3, <4>4, Zenon
    <3>4. sta[p].rates = update_allowed_rates(sta[p].mask, mac.band)
      BY <2>1, <3>1 DEF Known
    <3>5. NoGap(sta[p].mask) => sta[p].rates = Supported(sta[p].mask, mac.band)
      BY <2>1, <3>3, <3>4, RatesAreSupported
    <3>6. ~At("set_stakey") /\ ~At("remove_stakey") => (TxNoEncrypt(p) <=> ~Keyed(p))
      BY <2>1, <2>2 DEF Keyed, Known, TxNoEncrypt
    <3> QED
      BY <3>2, <3>5, <3>6
  <2>4. mac.phase = "on" => fw.sta[TxIndexOfVif] = "self"
    <3> SUFFICES ASSUME mac.phase = "on" PROVE fw.sta[TxIndexOfVif] = "self"
      OBVIOUS
    <3>1. HasSelf
      BY <2>1 DEF HasSelf, Place, Moment
    <3> QED
      BY <2>1, <3>1 DEF Named, TxIndexOfVif
  <2> QED
    BY <2>3, <2>4
<1> QED
  BY <1>1, NamedInv, PTL
=============================================================================
