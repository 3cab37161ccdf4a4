------------------------------- MODULE Ampdu -------------------------------
(***************************************************************************)
(* Block ack with one station.  The transmit path counts the frames it     *)
(* sends without aggregation and asks mac80211 for a session               *)
(* (wcn36xx_tx_start_ampdu); mac80211 sets sessions up and tears them down *)
(* through wcn36xx_ampdu_action, which keeps ampdu_state and passes some   *)
(* of it on to the firmware (add_ba_session, add_ba, trigger_ba, del_ba).  *)
(*                                                                         *)
(* ampdu_state is what keeps the transmit path from asking again.  It is   *)
(* written under ampdu_lock, also around the request to mac80211, so each  *)
(* of those sections is one step; the commands that follow one are steps   *)
(* of their own, between which frames are sent.  The calls of              *)
(* ampdu_action for one station are serialised by mac80211.                *)
(*                                                                         *)
(* The channel is an HT channel: on another nothing is counted.  Nor are   *)
(* the frames of the voice queue, whose TIDs are left out.                 *)
(***************************************************************************)
EXTENDS Naturals, Sequences

CONSTANTS
  Tids,         \* traffic identifiers in use, of 0..15
  StartThresh,  \* WCN36XX_AMPDU_START_THRESH, 20
  MaxFaults     \* bound: commands the firmware refuses

ASSUME AmpduAssumption ==
  /\ Tids \subseteq 0..15 /\ 0 \in Tids
  /\ StartThresh \in Nat /\ MaxFaults \in Nat

VARIABLES
  sta,     \* struct wcn36xx_sta: ampdu_state, non_agg_frame_ct, tid
  sess,    \* mac80211's TX session of each TID
  rx,      \* the TIDs with an RX session in mac80211
  phase,   \* mac80211: the station is "up", "leaving" or being "removed"
  todo,    \* commands the call under way has still to issue
  ba,      \* the firmware's sessions, <<TID, direction>>
  missed,  \* sessions whose command was refused
  refused, \* TIDs whose START mac80211 turned down or gave up unannounced
  faults

vars == <<sta, sess, rx, phase, todo, ba, missed, refused, faults>>

States   == {"NONE", "START", "OPERATIONAL"}
Sessions == {"none", "wanted", "starting", "operational", "stopping"}
Recipient  == 0
Originator == 1
Directions == {Recipient, Originator}

NewSta == [ampdu_state |-> [t \in Tids |-> "NONE"],
           non_agg_frame_ct |-> 0, tid |-> 0]

Init ==
  /\ sta = NewSta /\ sess = [t \in Tids |-> "none"] /\ rx = {}
  /\ phase = "up" /\ todo = <<>>
  /\ ba = {} /\ missed = {} /\ refused = {} /\ faults = 0

-----------------------------------------------------------------------------
(* wcn36xx_tx_start_ampdu, for a QoS data frame of TID t.                  *)

\* ieee80211_start_tx_ba_session: never beside another session, and mac80211
\* has reasons of its own to refuse.  The driver does not look at the result.
AskSession(t) ==
  LET may == phase = "up" /\ sess[t] = "none" IN
  \/ /\ may /\ sess' = [sess EXCEPT ![t] = "wanted"]
     /\ UNCHANGED refused
  \/ /\ UNCHANGED sess
     /\ refused' = IF sess[t] \in {"wanted", "starting"} THEN refused
                   ELSE refused \cup {t}

Enough(n) == n >= StartThresh

\* Mutant: the counter is not reset.
TxFrameCounts(t) ==
  /\ phase # "removed"
  /\ sta.ampdu_state[t] = "NONE"
  /\ \/ /\ Enough(sta.non_agg_frame_ct)
        /\ sta' = [sta EXCEPT !.ampdu_state[t] = "START", !.non_agg_frame_ct = @ + 1]
        /\ AskSession(t)
     \/ /\ ~Enough(sta.non_agg_frame_ct)
        /\ sta' = [sta EXCEPT !.non_agg_frame_ct = @ + 1]
        /\ UNCHANGED <<sess, refused>>
  /\ UNCHANGED <<rx, phase, todo, ba, missed, faults>>

TxFrame(t) ==
  /\ phase # "removed"
  /\ sta.ampdu_state[t] = "NONE"
  /\ \/ /\ Enough(sta.non_agg_frame_ct)
        /\ sta' = [sta EXCEPT !.ampdu_state[t] = "START", !.non_agg_frame_ct = 0]
        /\ AskSession(t)
     \/ /\ ~Enough(sta.non_agg_frame_ct)
        /\ sta' = [sta EXCEPT !.non_agg_frame_ct = @ + 1]
        /\ UNCHANGED <<sess, refused>>
  /\ UNCHANGED <<rx, phase, todo, ba, missed, faults>>

-----------------------------------------------------------------------------
(* mac80211.                                                               *)

\* A session asked for without the driver: mac80211's debugfs.
UserStart(t) ==
  /\ phase = "up" /\ sess[t] = "none"
  /\ sess' = [sess EXCEPT ![t] = "wanted"]
  /\ refused' = refused \ {t}
  /\ UNCHANGED <<sta, rx, phase, todo, ba, missed, faults>>

\* A session stopped before it reached the driver is not announced to it.
GiveUp(t) ==
  /\ sess[t] = "wanted"
  /\ sess' = [sess EXCEPT ![t] = "none"]
  /\ refused' = IF sta.ampdu_state[t] = "START" THEN refused \cup {t} ELSE refused
  /\ UNCHANGED <<sta, rx, phase, todo, ba, missed, faults>>

\* ieee80211_stop_tx_ba_cb_irqsafe has been handled.
Stopped(t) ==
  /\ sess[t] = "stopping"
  /\ sess' = [sess EXCEPT ![t] = "none"]
  /\ UNCHANGED <<sta, rx, phase, todo, ba, missed, refused, faults>>

\* Before a station goes its sessions are torn down and none is started.
Leave ==
  /\ phase = "up" /\ phase' = "leaving"
  /\ UNCHANGED <<sta, sess, rx, todo, ba, missed, refused, faults>>

-----------------------------------------------------------------------------
(* wcn36xx_ampdu_action.                                                   *)

Idle == todo = <<>>
SetState(t, s) == sta' = [sta EXCEPT !.ampdu_state[t] = s]
Cmd(name, t) == [name |-> name, t |-> t]

RxStart(t) ==
  /\ Idle /\ phase = "up" /\ t \notin rx
  /\ sta' = [sta EXCEPT !.tid = t]
  /\ rx' = rx \cup {t}
  /\ missed' = missed \ {<<t, Recipient>>}
  /\ todo' = <<Cmd("add_ba_session_rx", t), Cmd("add_ba", t), Cmd("trigger_ba", t)>>
  /\ UNCHANGED <<sess, phase, ba, refused, faults>>

RxStop(t) ==
  /\ Idle /\ phase \in {"up", "leaving"} /\ t \in rx
  /\ rx' = rx \ {t}
  /\ todo' = <<Cmd("del_ba", t)>>
  /\ UNCHANGED <<sta, sess, phase, ba, missed, refused, faults>>

\* With ieee80211_start_tx_ba_cb_irqsafe.
TxStart(t) ==
  /\ Idle /\ phase = "up" /\ sess[t] = "wanted"
  /\ SetState(t, "START")
  /\ sess' = [sess EXCEPT ![t] = "starting"]
  /\ UNCHANGED <<rx, phase, todo, ba, missed, refused, faults>>

\* Mutant: the state does not move on.
TxOperationalSilent(t) ==
  /\ Idle /\ phase = "up" /\ sess[t] = "starting"
  /\ sess' = [sess EXCEPT ![t] = "operational"]
  /\ missed' = missed \ {<<t, Originator>>}
  /\ todo' = <<Cmd("add_ba_session_tx", t)>>
  /\ UNCHANGED <<sta, rx, phase, ba, refused, faults>>

\* The callback has been handled and the peer has agreed.
TxOperational(t) ==
  /\ Idle /\ phase = "up" /\ sess[t] = "starting"
  /\ SetState(t, "OPERATIONAL")
  /\ sess' = [sess EXCEPT ![t] = "operational"]
  /\ missed' = missed \ {<<t, Originator>>}
  /\ todo' = <<Cmd("add_ba_session_tx", t)>>
  /\ UNCHANGED <<rx, phase, ba, refused, faults>>

\* Mutant: the state of a session that never was operational stays.
TxStopOperational(t) ==
  /\ Idle /\ phase \in {"up", "leaving"} /\ sess[t] \in {"starting", "operational"}
  /\ IF sess[t] = "operational" THEN SetState(t, "NONE") ELSE UNCHANGED sta
  /\ sess' = [sess EXCEPT ![t] = "stopping"]
  /\ UNCHANGED <<rx, phase, todo, ba, missed, refused, faults>>

\* TX_STOP_CONT, TX_STOP_FLUSH, TX_STOP_FLUSH_CONT: the peer declined, did not
\* answer or ended the session, or the station leaves.  The firmware is not
\* told.
TxStop(t) ==
  /\ Idle /\ phase \in {"up", "leaving"} /\ sess[t] \in {"starting", "operational"}
  /\ SetState(t, "NONE")
  /\ sess' = [sess EXCEPT ![t] = "stopping"]
  /\ UNCHANGED <<rx, phase, todo, ba, missed, refused, faults>>

\* wcn36xx_sta_remove.
sta_remove ==
  /\ Idle /\ phase = "leaving" /\ rx = {} /\ \A t \in Tids : sess[t] = "none"
  /\ phase' = "removed"
  /\ todo' = <<Cmd("delete_sta", 0)>>
  /\ UNCHANGED <<sta, sess, rx, ba, missed, refused, faults>>

\* A station is allocated with its driver part cleared.
sta_add ==
  /\ Idle /\ phase = "removed" /\ phase' = "up"
  /\ sta' = NewSta /\ refused' = {} /\ missed' = {}
  /\ UNCHANGED <<sess, rx, todo, ba, faults>>

-----------------------------------------------------------------------------
(* Commands.  add_ba and trigger_ba name session 0 and do not change which *)
(* sessions there are.                                                     *)

\* Mutant: the direction of the session is the originator's.
DelBaOriginator(t) == ba \ {<<t, Originator>>}
DelBa(t) == ba \ {<<t, Recipient>>}

Effect(c) ==
  CASE c.name = "add_ba_session_rx" -> ba \cup {<<c.t, Recipient>>}
    [] c.name = "add_ba_session_tx" -> ba \cup {<<c.t, Originator>>}
    [] c.name = "del_ba"            -> DelBa(c.t)
    [] c.name = "delete_sta"        -> {}
    [] OTHER                        -> ba

Concerns(c) ==
  CASE c.name = "add_ba_session_tx" -> {<<c.t, Originator>>}
    [] c.name = "delete_sta" -> {}
    [] OTHER -> {<<c.t, Recipient>>}

Command ==
  /\ todo # <<>>
  /\ LET c == Head(todo) IN
     \/ /\ ba' = Effect(c)
        /\ UNCHANGED <<missed, faults>>
     \/ /\ faults < MaxFaults /\ c.name # "delete_sta"
        /\ faults' = faults + 1
        /\ missed' = missed \cup Concerns(c)
        /\ UNCHANGED ba
  /\ todo' = Tail(todo)
  /\ UNCHANGED <<sta, sess, rx, phase, refused>>

-----------------------------------------------------------------------------
Mac(t) == \/ UserStart(t) \/ GiveUp(t) \/ Stopped(t)
          \/ RxStart(t) \/ RxStop(t) \/ TxStart(t) \/ TxOperational(t) \/ TxStop(t)

Next ==
  \/ \E t \in Tids : TxFrame(t) \/ Mac(t)
  \/ Leave \/ sta_remove \/ sta_add \/ Command

Spec == Init /\ [][Next]_vars

\* mac80211's worker runs, the peer answers or its timer expires, and commands
\* return (module Smd).  Calls for other sessions can come between, so fairness
\* of a call is strong.  Nothing ends a session that runs.
LiveSpec ==
  /\ Spec /\ WF_vars(Command)
  /\ \A t \in Tids : /\ SF_vars(TxStart(t) \/ GiveUp(t))
                     /\ SF_vars(sess[t] = "starting" /\ (TxOperational(t) \/ TxStop(t)))

-----------------------------------------------------------------------------
(* Properties.                                                             *)

Names == {"add_ba_session_rx", "add_ba_session_tx", "add_ba", "trigger_ba",
          "del_ba", "delete_sta"}

\* Every variable keeps its type; the counter stops at the threshold.
TypeOK ==
  /\ sta \in [ampdu_state : [Tids -> States], non_agg_frame_ct : 0..StartThresh,
              tid : Tids]
  /\ sess \in [Tids -> Sessions]
  /\ rx \subseteq Tids
  /\ phase \in {"up", "leaving", "removed"}
  /\ todo \in Seq([name : Names, t : Tids])
  /\ ba \subseteq Tids \X Directions /\ missed \subseteq Tids \X Directions
  /\ refused \subseteq Tids /\ faults \in 0..MaxFaults

\* "Initiate TX a-mpdu with the station if we can" (txrx.c:116): a TID whose
\* state keeps the transmit path from asking has a session on its way or
\* running, unless mac80211 turned the request down (its result is ignored,
\* txrx.c:147) or gave the session up before the driver heard of it; and a
\* session that runs is known to run.
StateHasSession ==
  \A t \in Tids :
    /\ sta.ampdu_state[t] = "START" /\ t \notin refused =>
         sess[t] \in {"wanted", "starting"}
    /\ sta.ampdu_state[t] = "OPERATIONAL" <=> sess[t] = "operational"

\* Between two calls the firmware has exactly mac80211's RX sessions, and every
\* TX session that runs, except those a refused command concerned (the results
\* of add_ba_session and del_ba are ignored, main.c:916-936).
FirmwareFollows ==
  Idle => \A t \in Tids :
    /\ <<t, Recipient>> \notin missed => (t \in rx <=> <<t, Recipient>> \in ba)
    /\ <<t, Originator>> \notin missed =>
         (sess[t] = "operational" => <<t, Originator>> \in ba)

\* A request for a session is answered: the state of the TID does not stay at
\* START, with the exceptions above.
StartEnds ==
  \A t \in Tids :
    sta.ampdu_state[t] = "START" ~> (sta.ampdu_state[t] # "START" \/ t \in refused)
=============================================================================
