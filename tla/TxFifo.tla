------------------------------- MODULE TxFifo -------------------------------
(***************************************************************************)
(* What the transmit path promises mac80211.  A frame handed to the driver *)
(* is either refused and given back, or queued on the ring of its channel; *)
(* every queue is transmitted in order, each frame once; and a frame that  *)
(* was queued is given back only after it has been transmitted.            *)
(***************************************************************************)
EXTENDS Sequences

CONSTANTS Channels, Frames

VARIABLES
  owner,   \* who has each frame
  q        \* the frames queued on each channel, oldest first

vars == <<owner, q>>

Owners == {"mac80211", "driver", "air", "back"}

Init == /\ owner = [f \in Frames |-> "mac80211"]
        /\ q = [ch \in Channels |-> <<>>]

Queued(f) == \E ch \in Channels : \E i \in DOMAIN q[ch] : q[ch][i] = f

Hand(f, o) == owner' = [owner EXCEPT ![f] = o]

Take(f) == owner[f] = "mac80211" /\ Hand(f, "driver") /\ UNCHANGED q

Accept(f, ch) ==
  /\ owner[f] = "driver" /\ ~Queued(f)
  /\ q' = [q EXCEPT ![ch] = Append(@, f)]
  /\ UNCHANGED owner

Refuse(f) == /\ owner[f] = "driver" /\ ~Queued(f)
             /\ Hand(f, "back") /\ UNCHANGED q

Transmit(ch) ==
  /\ q[ch] # <<>> /\ owner[Head(q[ch])] = "driver"
  /\ Hand(Head(q[ch]), "air")
  /\ q' = [q EXCEPT ![ch] = Tail(@)]

Return(f) == owner[f] = "air" /\ Hand(f, "back") /\ UNCHANGED q

Next == \/ \E f \in Frames : Take(f) \/ Refuse(f) \/ Return(f)
        \/ \E f \in Frames, ch \in Channels : Accept(f, ch)
        \/ \E ch \in Channels : Transmit(ch)

Spec == Init /\ [][Next]_vars
=============================================================================
