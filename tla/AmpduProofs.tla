---------------------------- MODULE AmpduProofs ----------------------------
(***************************************************************************)
(* Proofs about Ampdu, for any TIDs, any threshold and any number of       *)
(* refused commands: ampdu_state goes with mac80211's TX sessions, and the *)
(* firmware has the sessions that run.                                     *)
(*                                                                         *)
(* The second needs to know what a call under way has still to do: a call  *)
(* is at the tail of one of four sequences of commands (CallShape), a      *)
(* session that is not as it should be yet is the one the first of them is *)
(* about (Follows), and a station that was removed has left nothing        *)
(* (RemovedClean).                                                         *)
(***************************************************************************)
EXTENDS Ampdu, TLAPS

RxCalls(t) == {<<Cmd("add_ba_session_rx", t), Cmd("add_ba", t), Cmd("trigger_ba", t)>>,
               <<Cmd("add_ba", t), Cmd("trigger_ba", t)>>,
               <<Cmd("trigger_ba", t)>>}

CallShape ==
  \/ todo \in {<<>>, <<Cmd("delete_sta", 0)>>}
  \/ \E t \in Tids : todo \in RxCalls(t) \cup {<<Cmd("del_ba", t)>>,
                                               <<Cmd("add_ba_session_tx", t)>>}

\* The session of a TID, or the command about it that comes next.
Next1(c) == todo # <<>> /\ Head(todo) = c
RxFollows(t) ==
  /\ Next1(Cmd("add_ba_session_rx", t)) => t \in rx
  /\ Next1(Cmd("del_ba", t)) => t \notin rx
  /\ <<t, Recipient>> \notin missed =>
       \/ t \in rx <=> <<t, Recipient>> \in ba
       \/ \E n \in {"add_ba_session_rx", "del_ba"} : Next1(Cmd(n, t))
       \/ Next1(Cmd("delete_sta", 0))
TxFollows(t) ==
  <<t, Originator>> \notin missed =>
    \/ sess[t] = "operational" => <<t, Originator>> \in ba
    \/ Next1(Cmd("add_ba_session_tx", t))
Follows == \A t \in Tids : RxFollows(t) /\ TxFollows(t)

RemovedClean ==
  /\ todo = <<Cmd("delete_sta", 0)>> => phase = "removed"
  /\ phase = "removed" =>
       /\ rx = {} /\ \A t \in Tids : sess[t] = "none"
       /\ todo = <<Cmd("delete_sta", 0)>> \/ (todo = <<>> /\ ba = {})

CallInv == TypeOK /\ CallShape /\ RemovedClean
StateInv == CallInv /\ StateHasSession
FirmwareInv == CallInv /\ Follows

-----------------------------------------------------------------------------
(* Types.                                                                  *)

LEMMA InitTyped == Init => TypeOK
BY AmpduAssumption DEF Init, TypeOK, NewSta, States, Sessions, Cmd

LEMMA TxFrameTyped ==
  ASSUME TypeOK, NEW t \in Tids, TxFrame(t)
  PROVE  TypeOK'
<1>1. sta' \in [ampdu_state : [Tids -> States], non_agg_frame_ct : 0..StartThresh,
                tid : Tids]
  <2>1. CASE sta' = [sta EXCEPT !.ampdu_state[t] = "START", !.non_agg_frame_ct = 0]
    <3>1. [sta.ampdu_state EXCEPT ![t] = "START"] \in [Tids -> States]
      BY DEF TypeOK, States
    <3>2. sta' = [ampdu_state |-> [sta.ampdu_state EXCEPT ![t] = "START"],
                  non_agg_frame_ct |-> 0, tid |-> sta.tid]
      BY <2>1 DEF TypeOK
    <3> QED
      BY <3>1, <3>2, AmpduAssumption DEF TypeOK
  <2>2. CASE /\ ~Enough(sta.non_agg_frame_ct)
             /\ sta' = [sta EXCEPT !.non_agg_frame_ct = @ + 1]
    BY <2>2, AmpduAssumption DEF TypeOK, Enough
  <2> QED
    BY <2>1, <2>2 DEF TxFrame
<1>2. sess' \in [Tids -> Sessions] /\ refused' \subseteq Tids
  BY DEF TypeOK, TxFrame, AskSession, Sessions
<1> QED
  BY <1>1, <1>2 DEF TypeOK, TxFrame

LEMMA CmdTyped ==
  ASSUME NEW n \in Names, NEW t \in Tids
  PROVE  Cmd(n, t) \in [name : Names, t : Tids]
BY DEF Cmd

LEMMA MacTyped ==
  ASSUME TypeOK, NEW t \in Tids, Mac(t)
  PROVE  TypeOK'
<1>1. /\ sta' \in [ampdu_state : [Tids -> States], non_agg_frame_ct : 0..StartThresh,
                   tid : Tids]
      /\ sess' \in [Tids -> Sessions]
  BY DEF TypeOK, Mac, UserStart, GiveUp, Stopped, RxStart, RxStop, TxStart,
    TxOperational, TxStop, SetState, States, Sessions
<1>2. rx' \subseteq Tids /\ refused' \subseteq Tids /\ missed' \subseteq Tids \X Directions
      /\ UNCHANGED <<ba, phase, faults>>
  BY DEF TypeOK, Mac, UserStart, GiveUp, Stopped, RxStart, RxStop, TxStart,
    TxOperational, TxStop
<1>3. todo' \in Seq([name : Names, t : Tids])
  <2>1. {"add_ba_session_rx", "add_ba_session_tx", "add_ba", "trigger_ba", "del_ba"}
          \subseteq Names
    BY DEF Names
  <2>2. CASE RxStart(t)
    BY <2>1, <2>2, CmdTyped DEF RxStart
  <2>3. CASE RxStop(t)
    BY <2>1, <2>3, CmdTyped DEF RxStop
  <2>4. CASE TxOperational(t)
    BY <2>1, <2>4, CmdTyped DEF TxOperational
  <2>5. CASE UNCHANGED todo
    BY <2>5 DEF TypeOK
  <2> QED
    BY <2>2, <2>3, <2>4, <2>5 DEF Mac, UserStart, GiveUp, Stopped, TxStart, TxStop
<1> QED
  BY <1>1, <1>2, <1>3 DEF TypeOK

LEMMA SeqParts ==
  ASSUME NEW S, NEW s \in Seq(S), s # <<>>
  PROVE  Head(s) \in S /\ Tail(s) \in Seq(S)
OBVIOUS

LEMMA CommandTyped == TypeOK /\ Command => TypeOK'
<1> SUFFICES ASSUME TypeOK, Command PROVE TypeOK'
  OBVIOUS
<1> DEFINE c == Head(todo)
<1>1. todo # <<>> /\ todo \in Seq([name : Names, t : Tids])
  BY DEF TypeOK, Command
<1>2. c \in [name : Names, t : Tids] /\ Tail(todo) \in Seq([name : Names, t : Tids])
  BY <1>1, SeqParts
<1>3. Effect(c) \subseteq Tids \X Directions /\ Concerns(c) \subseteq Tids \X Directions
  BY <1>2 DEF TypeOK, Effect, DelBa, Concerns, Directions, Recipient, Originator
<1> QED
  BY <1>2, <1>3, AmpduAssumption DEF TypeOK, Command

LEMMA RestTyped == TypeOK /\ (Leave \/ sta_remove \/ sta_add \/ UNCHANGED vars) => TypeOK'
<1> SUFFICES ASSUME TypeOK, Leave \/ sta_remove \/ sta_add \/ UNCHANGED vars
             PROVE  TypeOK'
  OBVIOUS
<1>1. CASE sta_add
  <2>1. NewSta \in [ampdu_state : [Tids -> States], non_agg_frame_ct : 0..StartThresh,
                    tid : Tids]
    BY AmpduAssumption DEF NewSta, States
  <2> QED
    BY <1>1, <2>1 DEF TypeOK, sta_add
<1>2. CASE sta_remove
  <2>1. Cmd("delete_sta", 0) \in [name : Names, t : Tids]
    BY AmpduAssumption, CmdTyped DEF Names
  <2> QED
    BY <1>2, <2>1 DEF TypeOK, sta_remove
<1>3. CASE Leave
  BY <1>3 DEF TypeOK, Leave
<1>4. CASE UNCHANGED vars
  BY <1>4 DEF TypeOK, vars
<1> QED
  BY <1>1, <1>2, <1>3, <1>4

LEMMA NextTyped == TypeOK /\ [Next]_vars => TypeOK'
BY TxFrameTyped, MacTyped, CommandTyped, RestTyped DEF Next

\* Whatever the traffic, the calls and the refusals, every variable keeps its
\* type; the one counter for all TIDs of a station never passes the threshold
\* (txrx.c:144), although frames of all of them move it.
THEOREM TypeCorrect == Spec => []TypeOK
BY InitTyped, NextTyped, PTL DEF Spec

-----------------------------------------------------------------------------
(* What a removed station leaves.                                          *)

\* A command under way is at the head of a call; the others of the call remain.
LEMMA CallTail ==
  ASSUME CallShape, todo # <<>>
  PROVE  \/ todo = <<Cmd("delete_sta", 0)>>
         \/ \E t \in Tids :
              \/ /\ Head(todo) = Cmd("add_ba_session_rx", t)
                 /\ Tail(todo) = <<Cmd("add_ba", t), Cmd("trigger_ba", t)>>
              \/ /\ Head(todo) = Cmd("add_ba", t)
                 /\ Tail(todo) = <<Cmd("trigger_ba", t)>>
              \/ /\ Head(todo) \in {Cmd("trigger_ba", t), Cmd("del_ba", t),
                                    Cmd("add_ba_session_tx", t)}
                 /\ Tail(todo) = <<>>
<1>1. \A a, b, c : /\ Head(<<a, b, c>>) = a /\ Tail(<<a, b, c>>) = <<b, c>>
                   /\ Head(<<b, c>>) = b /\ Tail(<<b, c>>) = <<c>>
                   /\ Head(<<c>>) = c /\ Tail(<<c>>) = <<>>
  OBVIOUS
<1>2. CASE todo = <<Cmd("delete_sta", 0)>>
  BY <1>2
<1>3. ASSUME NEW t \in Tids,
             todo \in RxCalls(t) \cup {<<Cmd("del_ba", t)>>, <<Cmd("add_ba_session_tx", t)>>}
      PROVE  \/ /\ Head(todo) = Cmd("add_ba_session_rx", t)
                /\ Tail(todo) = <<Cmd("add_ba", t), Cmd("trigger_ba", t)>>
             \/ /\ Head(todo) = Cmd("add_ba", t)
                /\ Tail(todo) = <<Cmd("trigger_ba", t)>>
             \/ /\ Head(todo) \in {Cmd("trigger_ba", t), Cmd("del_ba", t),
                                   Cmd("add_ba_session_tx", t)}
                /\ Tail(todo) = <<>>
  <2>1. CASE todo = <<Cmd("add_ba_session_rx", t), Cmd("add_ba", t), Cmd("trigger_ba", t)>>
    BY <2>1, <1>1
  <2>2. CASE todo = <<Cmd("add_ba", t), Cmd("trigger_ba", t)>>
    BY <2>2, <1>1
  <2>3. CASE \E c \in {Cmd("trigger_ba", t), Cmd("del_ba", t), Cmd("add_ba_session_tx", t)} :
               todo = <<c>>
    BY <2>3, <1>1
  <2> QED
    BY <1>3, <2>1, <2>2, <2>3 DEF RxCalls
<1> QED
  BY <1>2, <1>3 DEF CallShape

LEMMA CallTailShape ==
  ASSUME CallShape, todo # <<>>, todo' = Tail(todo)
  PROVE  /\ CallShape'
         /\ todo' # <<Cmd("delete_sta", 0)>>
<1>1. CASE todo = <<Cmd("delete_sta", 0)>>
  BY <1>1 DEF CallShape
<1>2. ASSUME NEW t \in Tids,
             Tail(todo) \in {<<Cmd("add_ba", t), Cmd("trigger_ba", t)>>,
                             <<Cmd("trigger_ba", t)>>, <<>>}
      PROVE  /\ CallShape'
             /\ todo' # <<Cmd("delete_sta", 0)>>
  BY <1>2 DEF CallShape, RxCalls, Cmd
<1> QED
  BY <1>1, <1>2, CallTail

LEMMA MacCalls ==
  ASSUME CallShape, NEW t \in Tids, Mac(t)
  PROVE  /\ CallShape' /\ phase' = phase
         /\ todo' # <<Cmd("delete_sta", 0)>> \/ todo' = todo
<1>1. CASE RxStart(t)
  BY <1>1 DEF RxStart, CallShape, RxCalls, Cmd
<1>2. CASE RxStop(t)
  BY <1>2 DEF RxStop, CallShape, Cmd
<1>3. CASE TxOperational(t)
  BY <1>3 DEF TxOperational, CallShape, Cmd
<1>4. CASE UNCHANGED <<todo, phase>>
  BY <1>4 DEF CallShape
<1> QED
  BY <1>1, <1>2, <1>3, <1>4 DEF Mac, UserStart, GiveUp, Stopped, TxStart, TxStop

LEMMA CallNext == CallInv /\ [Next]_vars => CallInv'
<1> SUFFICES ASSUME CallInv, [Next]_vars PROVE CallShape' /\ RemovedClean'
  BY NextTyped DEF CallInv
<1>1. ASSUME NEW t \in Tids, TxFrame(t) PROVE CallShape' /\ RemovedClean'
  BY <1>1 DEF TxFrame, CallInv, CallShape, RemovedClean
<1>2. ASSUME NEW t \in Tids, Mac(t) PROVE CallShape' /\ RemovedClean'
  <2>1. phase # "removed"
    BY <1>2 DEF Mac, UserStart, GiveUp, Stopped, RxStart, RxStop, TxStart,
      TxOperational, TxStop, CallInv, RemovedClean, TypeOK
  <2> QED
    BY <1>2, <2>1, MacCalls DEF CallInv, RemovedClean
<1>3. CASE Leave
  BY <1>3 DEF Leave, CallInv, CallShape, RemovedClean
<1>4. CASE sta_remove
  BY <1>4 DEF sta_remove, CallInv, CallShape, RemovedClean
<1>5. CASE sta_add
  BY <1>5 DEF sta_add, Idle, CallInv, CallShape, RemovedClean
<1>6. CASE Command
  <2>1. CallShape' /\ todo' # <<Cmd("delete_sta", 0)>>
    BY <1>6, CallTailShape DEF Command, CallInv
  <2>2. CASE phase = "removed"
    <3>1. todo = <<Cmd("delete_sta", 0)>>
      BY <1>6, <2>2 DEF Command, CallInv, RemovedClean
    <3>2. Head(todo) = Cmd("delete_sta", 0) /\ Tail(todo) = <<>>
      BY <3>1
    <3>3. ba' = {} /\ todo' = <<>> /\ UNCHANGED <<phase, rx, sess>>
      BY <1>6, <3>2 DEF Command, Effect, Cmd
    <3> QED
      BY <2>1, <2>2, <3>3 DEF CallInv, RemovedClean
  <2>3. CASE phase # "removed"
    BY <1>6, <2>1, <2>3 DEF Command, RemovedClean
  <2> QED
    BY <2>1, <2>2, <2>3
<1>7. CASE UNCHANGED vars
  BY <1>7 DEF vars, CallInv, CallShape, RemovedClean
<1> QED
  BY <1>1, <1>2, <1>3, <1>4, <1>5, <1>6, <1>7 DEF Next

LEMMA CallInit == Init => CallInv
BY InitTyped DEF Init, CallInv, CallShape, RemovedClean, Cmd

-----------------------------------------------------------------------------
(* ampdu_state and the TX sessions.                                        *)

\* The property for one TID, which is all an action about another leaves.
Agrees(t) ==
  /\ sta.ampdu_state[t] = "START" /\ t \notin refused => sess[t] \in {"wanted", "starting"}
  /\ sta.ampdu_state[t] = "OPERATIONAL" <=> sess[t] = "operational"

LEMMA AgreesFramed ==
  ASSUME NEW t \in Tids, Agrees(t), t \in refused => t \in refused',
         sta'.ampdu_state[t] = sta.ampdu_state[t], sess'[t] = sess[t]
  PROVE  Agrees(t)'
BY DEF Agrees

LEMMA TxFrameAgrees ==
  ASSUME TypeOK, NEW t \in Tids, TxFrame(t), NEW u \in Tids, Agrees(u)
  PROVE  Agrees(u)'
<1>1. CASE u # t
  <2>1. /\ u \in refused => u \in refused'
        /\ sta'.ampdu_state[u] = sta.ampdu_state[u] /\ sess'[u] = sess[u]
    BY <1>1 DEF TxFrame, AskSession, TypeOK
  <2> QED
    BY <2>1, AgreesFramed
<1>2. CASE u = t /\ Enough(sta.non_agg_frame_ct)
  <2>1. /\ sta.ampdu_state[t] = "NONE" /\ sta'.ampdu_state[t] = "START"
        /\ AskSession(t)
    BY <1>2 DEF TxFrame, TypeOK
  <2>2. sess[t] # "operational"
    BY <1>2, <2>1 DEF Agrees
  <2> QED
    BY <1>2, <2>1, <2>2 DEF AskSession, Agrees, TypeOK
<1>3. CASE u = t /\ ~Enough(sta.non_agg_frame_ct)
  <2>1. /\ sta'.ampdu_state[t] = sta.ampdu_state[t] /\ UNCHANGED <<sess, refused>>
    BY <1>3 DEF TxFrame, TypeOK
  <2> QED
    BY <1>3, <2>1 DEF Agrees
<1> QED
  BY <1>1, <1>2, <1>3

LEMMA MacAgrees ==
  ASSUME TypeOK, NEW t \in Tids, Mac(t), NEW u \in Tids, Agrees(u)
  PROVE  Agrees(u)'
<1>1. CASE u # t
  <2>1. /\ u \in refused => u \in refused'
        /\ sta'.ampdu_state[u] = sta.ampdu_state[u] /\ sess'[u] = sess[u]
    BY <1>1 DEF Mac, UserStart, GiveUp, Stopped, RxStart, RxStop, TxStart,
      TxOperational, TxStop, SetState, TypeOK
  <2> QED
    BY <2>1, AgreesFramed
<1>2. CASE u = t /\ (UserStart(t) \/ GiveUp(t) \/ Stopped(t))
  BY <1>2 DEF UserStart, GiveUp, Stopped, Agrees, TypeOK
<1>3. CASE u = t /\ (RxStart(t) \/ RxStop(t))
  BY <1>3 DEF RxStart, RxStop, Agrees, TypeOK
<1>4. CASE u = t /\ (TxStart(t) \/ TxOperational(t) \/ TxStop(t))
  BY <1>4 DEF TxStart, TxOperational, TxStop, SetState, Agrees, TypeOK, States
<1> QED
  BY <1>1, <1>2, <1>3, <1>4 DEF Mac

LEMMA RestAgrees ==
  ASSUME CallInv, Leave \/ sta_remove \/ sta_add \/ Command \/ UNCHANGED vars,
         NEW u \in Tids, Agrees(u)
  PROVE  Agrees(u)'
<1>1. CASE sta_add
  <2>1. sta'.ampdu_state[u] = "NONE" /\ sess'[u] = "none"
    BY <1>1 DEF sta_add, NewSta, CallInv, RemovedClean
  <2> QED
    BY <2>1 DEF Agrees
<1>2. CASE UNCHANGED <<sta, sess, refused>>
  BY <1>2 DEF Agrees
<1> QED
  BY <1>1, <1>2 DEF Leave, sta_remove, Command, vars

\* "Initiate TX a-mpdu with the station if we can" (txrx.c:116): for any TIDs
\* and threshold, a TID at START waits for a session that is on its way, or
\* for one mac80211 turned down or gave up, and OPERATIONAL is exactly a
\* session that runs; however frames, calls and refused commands interleave.
THEOREM StateHasItsSession == Spec => []StateHasSession
<1>1. StateHasSession <=> \A t \in Tids : Agrees(t)
  BY DEF StateHasSession, Agrees
<1>2. Init => StateInv
  <2>1. ASSUME Init, NEW t \in Tids PROVE Agrees(t)
    <3>1. sta.ampdu_state[t] = "NONE" /\ sess[t] = "none"
      BY <2>1 DEF Init, NewSta
    <3> QED
      BY <3>1 DEF Agrees
  <2> QED
    BY <1>1, <2>1, CallInit DEF StateInv
<1>3. StateInv /\ [Next]_vars => StateInv'
  <2> SUFFICES ASSUME StateInv, [Next]_vars PROVE \A u \in Tids : Agrees(u)'
    BY CallNext DEF StateInv, StateHasSession, Agrees
  <2> TAKE u \in Tids
  <2>1. Agrees(u) /\ TypeOK /\ CallInv
    BY <1>1 DEF StateInv, CallInv
  <2> QED
    BY <2>1, TxFrameAgrees, MacAgrees, RestAgrees DEF Next
<1>4. StateInv => StateHasSession
  BY DEF StateInv
<1> QED
  BY <1>2, <1>3, <1>4, PTL DEF Spec

-----------------------------------------------------------------------------
(* The firmware's sessions.                                                *)

LEMMA CmdParts ==
  /\ \A n, m, v, w : Cmd(n, v) = Cmd(m, w) <=> n = m /\ v = w
  /\ \A n, v : Cmd(n, v).name = n /\ Cmd(n, v).t = v
BY DEF Cmd

LEMMA MacFollows ==
  ASSUME TypeOK, NEW t \in Tids, Mac(t), NEW u \in Tids, RxFollows(u), TxFollows(u)
  PROVE  RxFollows(u)' /\ TxFollows(u)'
<1>1. CASE UserStart(t) \/ GiveUp(t) \/ Stopped(t)
  BY <1>1 DEF UserStart, GiveUp, Stopped, RxFollows, TxFollows, Next1, TypeOK
<1>2. CASE RxStart(t)
  <2>1. /\ \A c : ~Next1(c) /\ (Next1(c)' <=> c = Cmd("add_ba_session_rx", t))
        /\ rx' = rx \cup {t} /\ missed' = missed \ {<<t, Recipient>>}
        /\ UNCHANGED <<ba, sess>>
    BY <1>2 DEF RxStart, Idle, Next1
  <2> QED
    BY <2>1, CmdParts DEF RxFollows, TxFollows, Recipient, Originator
<1>3. CASE RxStop(t)
  <2>1. /\ \A c : ~Next1(c) /\ (Next1(c)' <=> c = Cmd("del_ba", t))
        /\ rx' = rx \ {t} /\ UNCHANGED <<ba, sess, missed>>
    BY <1>3 DEF RxStop, Idle, Next1
  <2> QED
    BY <2>1, CmdParts DEF RxFollows, TxFollows
<1>4. CASE TxStart(t) \/ TxStop(t)
  <2>1. /\ UNCHANGED <<rx, todo, ba, missed>> /\ todo = <<>>
        /\ sess'[u] = "operational" => sess[u] = "operational"
    BY <1>4 DEF TxStart, TxStop, Idle, TypeOK
  <2> QED
    BY <2>1 DEF RxFollows, TxFollows, Next1
<1>5. CASE TxOperational(t)
  <2>1. /\ \A c : ~Next1(c) /\ (Next1(c)' <=> c = Cmd("add_ba_session_tx", t))
        /\ missed' = missed \ {<<t, Originator>>}
        /\ UNCHANGED <<ba, rx>>
        /\ u # t => sess'[u] = sess[u]
    BY <1>5 DEF TxOperational, Idle, Next1, TypeOK
  <2> QED
    BY <2>1, CmdParts DEF RxFollows, TxFollows, Recipient, Originator
<1> QED
  BY <1>1, <1>2, <1>3, <1>4, <1>5 DEF Mac

LEMMA CommandFollows ==
  ASSUME CallInv, Command, NEW u \in Tids, RxFollows(u), TxFollows(u)
  PROVE  RxFollows(u)' /\ TxFollows(u)'
<1> DEFINE c == Head(todo)
<1>1. /\ todo # <<>> /\ todo' = Tail(todo) /\ UNCHANGED <<rx, sess>>
      /\ \/ ba' = Effect(c) /\ UNCHANGED missed
         \/ /\ c.name # "delete_sta"
            /\ missed' = missed \cup Concerns(c) /\ UNCHANGED ba
  BY DEF Command
<1>2. c \in [name : Names, t : Tids]
  BY <1>1, SeqParts DEF CallInv, TypeOK
<1>3. \A n, v : Next1(Cmd(n, v)) <=> c.name = n /\ c.t = v
  BY <1>1, <1>2 DEF Next1, Cmd
<1>4. ~Next1(Cmd("add_ba_session_rx", u))' /\ ~Next1(Cmd("del_ba", u))'
  <2>1. \A a, b : Tail(<<a>>) = <<>> /\ Head(<<a>>) = a /\ Head(<<a, b>>) = a
    OBVIOUS
  <2>2. todo' = <<>> \/ \E t \in Tids : Head(todo') \in {Cmd("add_ba", t), Cmd("trigger_ba", t)}
    BY <1>1, <2>1, CallTail DEF CallInv
  <2> QED
    BY <2>2, CmdParts DEF Next1
<1>5. CASE c.name = "delete_sta"
  <2>1. ba' = {} /\ UNCHANGED missed
    BY <1>1, <1>5 DEF Effect
  <2>2. rx = {} /\ sess[u] = "none"
    BY <1>1, <1>5, CallTail, CmdParts DEF CallInv, RemovedClean
  <2> QED
    BY <1>1, <1>4, <2>1, <2>2 DEF RxFollows, TxFollows
<1>6. CASE c.name = "add_ba_session_rx"
  <2>1. \/ ba' = ba \cup {<<c.t, Recipient>>} /\ UNCHANGED missed
        \/ missed' = missed \cup {<<c.t, Recipient>>} /\ UNCHANGED ba
    BY <1>1, <1>6 DEF Effect, Concerns
  <2> QED
    BY <1>1, <1>3, <1>4, <1>6, <2>1 DEF RxFollows, TxFollows, Recipient, Originator
<1>7. CASE c.name \in {"add_ba", "trigger_ba"}
  <2>1. \/ ba' = ba /\ UNCHANGED missed
        \/ missed' = missed \cup {<<c.t, Recipient>>} /\ UNCHANGED ba
    BY <1>1, <1>7 DEF Effect, Concerns
  <2> QED
    BY <1>1, <1>3, <1>4, <1>7, <2>1 DEF RxFollows, TxFollows
<1>8. CASE c.name = "del_ba"
  <2>1. \/ ba' = ba \ {<<c.t, Recipient>>} /\ UNCHANGED missed
        \/ missed' = missed \cup {<<c.t, Recipient>>} /\ UNCHANGED ba
    BY <1>1, <1>8 DEF Effect, DelBa, Concerns
  <2> QED
    BY <1>1, <1>3, <1>4, <1>8, <2>1 DEF RxFollows, TxFollows, Recipient, Originator
<1>9. CASE c.name = "add_ba_session_tx"
  <2>1. \/ ba' = ba \cup {<<c.t, Originator>>} /\ UNCHANGED missed
        \/ missed' = missed \cup {<<c.t, Originator>>} /\ UNCHANGED ba
    BY <1>1, <1>9 DEF Effect, Concerns
  <2> QED
    BY <1>1, <1>3, <1>4, <1>9, <2>1 DEF RxFollows, TxFollows, Recipient, Originator
<1> QED
  BY <1>2, <1>5, <1>6, <1>7, <1>8, <1>9 DEF Names

LEMMA RestFollows ==
  ASSUME CallInv, Leave \/ sta_remove \/ sta_add \/ (\E t \in Tids : TxFrame(t)) \/ UNCHANGED vars,
         NEW u \in Tids, RxFollows(u), TxFollows(u)
  PROVE  RxFollows(u)' /\ TxFollows(u)'
<1>1. CASE sta_add
  <2>1. /\ ba = {} /\ rx = {} /\ sess[u] = "none" /\ UNCHANGED <<ba, rx, sess>>
        /\ \A c : ~Next1(c)'
    BY <1>1 DEF sta_add, Idle, CallInv, RemovedClean, Next1
  <2> QED
    BY <2>1 DEF RxFollows, TxFollows
<1>2. CASE sta_remove
  <2>1. /\ rx = {} /\ sess[u] = "none" /\ UNCHANGED <<ba, rx, sess, missed>>
        /\ \A c : Next1(c)' <=> c = Cmd("delete_sta", 0)
    BY <1>2 DEF sta_remove, Next1
  <2> QED
    BY <2>1, CmdParts DEF RxFollows, TxFollows
<1>3. CASE Leave \/ UNCHANGED vars
  BY <1>3 DEF Leave, vars, RxFollows, TxFollows, Next1
<1>4. ASSUME NEW t \in Tids, TxFrame(t) PROVE RxFollows(u)' /\ TxFollows(u)'
  <2>1. /\ UNCHANGED <<ba, rx, missed, todo>>
        /\ sess'[u] = "operational" => sess[u] = "operational"
    BY <1>4 DEF TxFrame, AskSession, CallInv, TypeOK
  <2> QED
    BY <2>1 DEF RxFollows, TxFollows, Next1
<1> QED
  BY <1>1, <1>2, <1>3, <1>4

\* ampdu_action ignores the results of its commands and says nothing to the
\* firmware when a TX session stops (main.c:916-950): still, whenever no call
\* is under way, the firmware's RX sessions are mac80211's and every TX session
\* that runs is one of its own, for any TIDs, but for those a refused command
\* was about; also after the station has been removed and added again.
THEOREM FirmwareHasTheSessions == Spec => []FirmwareFollows
<1>1. Init => FirmwareInv
  <2>1. ASSUME Init, NEW t \in Tids PROVE RxFollows(t) /\ TxFollows(t)
    BY <2>1 DEF Init, RxFollows, TxFollows, Next1
  <2> QED
    BY <2>1, CallInit DEF FirmwareInv, Follows
<1>2. FirmwareInv /\ [Next]_vars => FirmwareInv'
  <2> SUFFICES ASSUME FirmwareInv, [Next]_vars
               PROVE  \A u \in Tids : RxFollows(u)' /\ TxFollows(u)'
    BY CallNext DEF FirmwareInv, Follows
  <2> TAKE u \in Tids
  <2>1. RxFollows(u) /\ TxFollows(u) /\ TypeOK /\ CallInv
    BY DEF FirmwareInv, CallInv, Follows
  <2> QED
    BY <2>1, MacFollows, CommandFollows, RestFollows DEF Next
<1>3. FirmwareInv => FirmwareFollows
  <2>1. Idle => \A c : ~Next1(c)
    BY DEF Idle, Next1
  <2> QED
    BY <2>1 DEF FirmwareInv, Follows, RxFollows, TxFollows, FirmwareFollows
<1> QED
  BY <1>1, <1>2, <1>3, PTL DEF Spec
=============================================================================
