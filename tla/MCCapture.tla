------------------------------- MODULE MCCapture -------------------------------
(***************************************************************************)
(* Capture for TLC: a connection whose server sends a byte, and one that   *)
(* reuses its ports, whose client sends a frame of three bytes.            *)
(***************************************************************************)
EXTENDS Capture

TwoLives == <<[client |-> 10, server |-> 30], [client |-> 20, server |-> 40]>>

Lengths == <<[client |-> 0, server |-> 1], [client |-> 3, server |-> 0]>>

Ends == [client |-> {0, 3}, server |-> {0, 1}]
=============================================================================
