-------------------------------- MODULE ByteFeed --------------------------------
(***************************************************************************)
(* What one direction of a connection promises the frame parser            *)
(* (crates/h2core/src/reassembly.rs, the public face of Reassembler): a    *)
(* window of consecutive bytes of the sender's stream, each at its exact   *)
(* position, that only moves forward; bytes are skipped only by declaring  *)
(* a gap, and whatever was pending across the hole goes with it.           *)
(*                                                                         *)
(* A byte is its position in the sender's stream.                          *)
(***************************************************************************)
EXTENDS Integers, Sequences

CONSTANT StreamLen   \* bytes the sender's stream has

ASSUME FeedAssumption == StreamLen \in Nat

VARIABLES
  start,  \* the position where observation began, or -1 before that
  lo,     \* the position of the first byte not yet consumed
  bytes,  \* the bytes available to the parser
  gaps    \* how many gaps have been declared

feedVars == <<start, lo, bytes, gaps>>

Run(from, to) == [k \in 1..(to - from) |-> from + k - 1]

hi == lo + Len(bytes)

FeedInit ==
  /\ start = -1
  /\ lo = -1
  /\ bytes = <<>>
  /\ gaps = 0

(* The SYN, or the first segment seen, fixes where the stream begins.      *)
Begin(p, h) ==
  /\ start = -1
  /\ start' = p
  /\ lo' = p
  /\ bytes' = Run(p, h)
  /\ UNCHANGED gaps

(* More of the stream, with nothing left out.                              *)
Extend(h) ==
  /\ start # -1
  /\ h > hi
  /\ bytes' = Run(lo, h)
  /\ UNCHANGED <<start, lo, gaps>>

Take(n) ==
  /\ start # -1
  /\ n \in 1..Len(bytes)
  /\ lo' = lo + n
  /\ bytes' = Run(lo + n, hi)
  /\ UNCHANGED <<start, gaps>>

(* A hole is given up: the stream resumes at p, beyond it.                 *)
Skip(p, h) ==
  /\ start # -1
  /\ p > hi
  /\ lo' = p
  /\ bytes' = Run(p, h)
  /\ gaps' = gaps + 1
  /\ UNCHANGED start

FeedNext ==
  \/ \E p, h \in 0..StreamLen : p <= h /\ (Begin(p, h) \/ Skip(p, h))
  \/ \E h \in 0..StreamLen : Extend(h)
  \/ \E n \in 1..StreamLen : Take(n)

FeedSpec == FeedInit /\ [][FeedNext]_feedVars
=============================================================================
