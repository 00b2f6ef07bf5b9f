---------------------------- MODULE FrameChannel ----------------------------
(***************************************************************************)
(* What SimpleServer takes a connection to be: whole frames are sent, and  *)
(* each arrives once, unchanged and in order, until the connection ends.   *)
(***************************************************************************)
EXTENDS Sequences, Naturals

CONSTANT Frames   \* frames that can be sent

VARIABLES
  sent,       \* frames sent on the connection
  received    \* frames received from it

Init == sent = <<>> /\ received = <<>>

Send ==
  /\ \E f \in Frames : sent' = Append(sent, f)
  /\ UNCHANGED received

Receive ==
  /\ Len(received) < Len(sent)
  /\ received' = Append(received, sent[Len(received) + 1])
  /\ UNCHANGED sent

\* Another connection takes its place.
Reconnect == sent' = <<>> /\ received' = <<>>

Next == Send \/ Receive \/ Reconnect

Spec == Init /\ [][Next]_<<sent, received>>

=============================================================================
