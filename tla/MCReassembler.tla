----------------------------- MODULE MCReassembler -----------------------------
(***************************************************************************)
(* Reassembler for TLC.  The stream wraps around the sequence space in its *)
(* middle.  Cuts are the sender's segments, and retransmissions of two of  *)
(* them cut elsewhere.                                                     *)
(***************************************************************************)
EXTENDS Reassembler

(* Every segment of one to three bytes of a stream of six.                   *)
AllCuts == {c \in (0..5) \X (1..3) : c[1] + c[2] <= 6}

(* Four segments, so that two holes can be open at once, and an            *)
(* overlapping one across a boundary.                                      *)
FourCuts == {<<0, 1>>, <<1, 2>>, <<3, 1>>, <<4, 1>>, <<2, 2>>}
=============================================================================
