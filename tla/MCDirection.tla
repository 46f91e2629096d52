------------------------------ MODULE MCDirection ------------------------------
(***************************************************************************)
(* Direction for TLC: a few streams that between them have a block in one  *)
(* frame and in several, payloads that are kept, dropped and too large to  *)
(* keep, a frame whose padding does not fit it, and frames to resync on.   *)
(***************************************************************************)
EXTENDS Direction

Frame(typ, len, end) == [typ |-> typ, len |-> len, end |-> end, sound |-> TRUE]

Plain ==
  <<Frame("HEADERS", 1, TRUE), Frame("DATA", 2, FALSE),
    Frame("HEADERS", 1, FALSE), Frame("CONTINUATION", 1, TRUE),
    Frame("SETTINGS", 0, FALSE)>>

LargeData ==
  <<Frame("HEADERS", 1, TRUE), Frame("DATA", 3, FALSE),
    Frame("PUSH_PROMISE", 1, TRUE), Frame("DATA", 0, FALSE)>>

LargeHeaders ==
  <<Frame("HEADERS", 3, TRUE), Frame("HEADERS", 1, TRUE), Frame("DATA", 0, FALSE)>>

LargeContinuation ==
  <<Frame("HEADERS", 1, FALSE), Frame("CONTINUATION", 3, TRUE),
    Frame("HEADERS", 1, FALSE), Frame("CONTINUATION", 0, TRUE)>>

BadPadding ==
  <<Frame("HEADERS", 1, TRUE), [Frame("HEADERS", 1, TRUE) EXCEPT !.sound = FALSE],
    Frame("HEADERS", 0, TRUE), Frame("DATA", 1, FALSE), Frame("HEADERS", 1, TRUE)>>

AllStreams == {Plain, LargeData, LargeHeaders, LargeContinuation, BadPadding}

(* The directions of h2tapd, and two streams of h2rebuild's, which keeps   *)
(* payloads and starts most of its directions from a snapshot.             *)
AllSetups ==
  [stream: AllStreams, mode: {"start", "midstream"}, keep_payloads: {FALSE}]
    \cup [stream: {Plain, LargeContinuation}, mode: {"seeded"}, keep_payloads: {TRUE}]

FromStartOnly == {s \in AllSetups : s.mode = "start"}
=============================================================================
