---------------------------- MODULE CountedLoss ----------------------------
(***************************************************************************)
(* What backend/gateway.py promises a stream client: "a viewer whose view  *)
(* is decimated is told so".  Frames arrive in the order they were sent,   *)
(* some are left out, and whoever gets one knows how many were left out    *)
(* before it.                                                              *)
(***************************************************************************)
EXTENDS Integers

CONSTANT Clients

VARIABLES     \* per client:
  sent,       \* frames sent since it connected
  got,        \* the number of the last frame it got
  told        \* how many frames it has been told it missed

Init ==
  /\ sent = [c \in Clients |-> 0] /\ got = sent /\ told = sent

Send(c) == sent' = [sent EXCEPT ![c] = @ + 1] /\ UNCHANGED <<got, told>>

Get(c, frame) ==
  /\ got'  = [got EXCEPT ![c] = frame]
  /\ told' = [told EXCEPT ![c] = @ + (frame - got[c] - 1)]
  /\ UNCHANGED sent

Connect(c) ==
  /\ sent' = [sent EXCEPT ![c] = 0]
  /\ got'  = [got EXCEPT ![c] = 0]
  /\ told' = [told EXCEPT ![c] = 0]

Next ==
  \E c \in Clients :
    Send(c) \/ Connect(c) \/ \E frame \in got[c] + 1 .. sent[c] : Get(c, frame)

Spec == Init /\ [][Next]_<<sent, got, told>>
=============================================================================
