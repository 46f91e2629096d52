------------------------------ MODULE Reassembler ------------------------------
(***************************************************************************)
(* Reassembly of one direction of a TCP connection                         *)
(* (crates/h2core/src/reassembly.rs, struct Reassembler).                  *)
(*                                                                         *)
(* The network hands over segments of the sender's stream in any order,    *)
(* any number of times, cut at any place, or never.  A byte is its         *)
(* position in the stream, so that what was delivered can be compared with *)
(* what was sent; the code sees sequence numbers only, modulo SeqModulus.  *)
(* The out-of-order list is a bag: which ripe segment the drain loop takes *)
(* first makes no difference to what it leaves.                            *)
(***************************************************************************)
EXTENDS Integers, Sequences, FiniteSetsExt

CONSTANTS
  StreamLen,   \* bytes the sender's stream has
  Cuts,        \* the segments the network may deliver: <<position, length>>
  SeqModulus,  \* 2^32
  Isn,         \* sequence number of the first data byte
  OooLimit,    \* ooo_limit, in bytes
  OooTimeout   \* ooo_timeout_us, in calls of tick

ASSUME ReassemblerAssumption ==
  /\ StreamLen \in Nat
  /\ Cuts \subseteq (0..StreamLen) \X (1..StreamLen)
  /\ \A c \in Cuts : c[1] + c[2] <= StreamLen
  /\ SeqModulus \in Nat /\ SeqModulus > 2 * StreamLen + 2
  /\ Isn \in 0..(SeqModulus - 1)
  /\ OooLimit \in Nat
  /\ OooTimeout \in Nat

VARIABLES
  initialized, base_seq, next_seq, delivered_off,
  buf,        \* buf[pos..], the bytes not yet consumed
  buf_off,
  ooo,        \* how many copies of each segment the out-of-order list holds
  waited,     \* calls of tick since ooo_since_us was set, or NoTimer
  gaps

place == <<base_seq, next_seq, delivered_off>>
hold == <<ooo, waited>>
vars == <<initialized, base_seq, next_seq, delivered_off, buf, buf_off,
          ooo, waited, gaps>>

NoTimer == -1

-----------------------------------------------------------------------------
(* Sequence numbers.                                                       *)

SeqOf(p) == (Isn + p) % SeqModulus

(* wrapping_sub, and the same as a signed integer.                         *)
Ahead(a, b) == (a - b) % SeqModulus

(* The difference without the cast to i32.                                 *)
DiffUnsigned(a, b) == Ahead(a, b)

Diff(a, b) ==
  IF 2 * Ahead(a, b) < SeqModulus THEN Ahead(a, b) ELSE Ahead(a, b) - SeqModulus

(* from is the position of the first byte of the payload.                  *)
Segment(c) == [seq |-> SeqOf(c[1]), from |-> c[1], len |-> c[2]]

Segments == {Segment(c) : c \in Cuts}

Held(h) == {s \in Segments : h[s] > 0}

Nothing == [s \in Segments |-> 0]

(* ooo_bytes.                                                              *)
Weight(h) == MapThenSumSet(LAMBDA s : h[s] * s.len, Segments)

-----------------------------------------------------------------------------
(* What the segments S supply from sequence number n on: append() takes    *)
(* the part of a segment that is not behind n, again and again until no    *)
(* segment starts at or before the byte expected next.                     *)

Supplies(s, n, k) == Diff(s.seq, n) <= k /\ k < Diff(s.seq, n) + s.len

Reach(S, n) ==
  CHOOSE k \in 0..StreamLen :
    /\ \A j \in 0..(k-1) : \E s \in S : Supplies(s, n, j)
    /\ \A s \in S : ~Supplies(s, n, k)

Gathered(S, n) ==
  [k \in 1..Reach(S, n) |->
     LET s == CHOOSE s \in S : Supplies(s, n, k - 1)
     IN  s.from + (k - 1) - Diff(s.seq, n)]

(* A drain that leaves a segment starting exactly where it ended.          *)
StillAheadKeepsNext(h, n, k) ==
  [s \in Segments |-> IF Diff(s.seq, n) < 0 THEN 0 ELSE h[s]]

StillAhead(h, n, k) ==
  [s \in Segments |-> IF Diff(s.seq, n) <= k THEN 0 ELSE h[s]]

(* drain_ooo, from sequence number n at stream offset off: `have' is in    *)
(* the buffer, h on the out-of-order list, S is what may be taken.         *)
DrainOoo(S, h, since, n, off, have) ==
  LET k == Reach(S, n)
  IN  /\ next_seq' = (n + k) % SeqModulus
      /\ delivered_off' = off + k
      /\ buf' = have \o Gathered(S, n)
      /\ ooo' = StillAhead(h, n, k)
      /\ waited' = IF ooo' = Nothing THEN NoTimer ELSE since

-----------------------------------------------------------------------------
(* Giving up on a hole.                                                    *)

(* The lowest sequence number, whatever side of the wrap it is on.         *)
EarliestByNumber(S, n) ==
  CHOOSE t \in {s.seq : s \in S} : \A s \in S : t <= s.seq

(* min_by_key over the wrapped distance.                                   *)
Earliest(S, n) ==
  IF S = {} THEN n
  ELSE CHOOSE t \in {s.seq : s \in S} : \A s \in S : Ahead(t, n) <= Ahead(s.seq, n)

(* A jump that keeps what was pending before the hole.                     *)
ForceGapKeepsPending(h) ==
  LET target == Earliest(Held(h), next_seq)
      off == delivered_off + Ahead(target, next_seq)
  IN  /\ gaps' = gaps + 1
      /\ UNCHANGED buf_off
      /\ DrainOoo(Held(h), h, NoTimer, target, off, buf)

(* A jump that does not count as a gap.                                    *)
ForceGapUncounted(h) ==
  LET target == Earliest(Held(h), next_seq)
      off == delivered_off + Ahead(target, next_seq)
  IN  /\ UNCHANGED gaps
      /\ buf_off' = off
      /\ DrainOoo(Held(h), h, NoTimer, target, off, <<>>)

ForceGap(h) ==
  LET target == Earliest(Held(h), next_seq)
      off == delivered_off + Ahead(target, next_seq)
  IN  /\ gaps' = gaps + 1
      /\ buf_off' = off
      /\ DrainOoo(Held(h), h, NoTimer, target, off, <<>>)

-----------------------------------------------------------------------------
Init ==
  /\ initialized = FALSE
  /\ base_seq = 0
  /\ next_seq = 0
  /\ delivered_off = 0
  /\ buf = <<>>
  /\ buf_off = 0
  /\ ooo = Nothing
  /\ waited = NoTimer
  /\ gaps = 0

(* get_or_insert.                                                          *)
StartTimer == IF waited = NoTimer THEN 0 ELSE waited

(* A list without a limit.                                                 *)
NeverOverflows(h) == FALSE

Overflows(h) == Weight(h) > OooLimit

(* push, for a reassembler that expects sequence number n.                 *)
Push(s, n) ==
  LET d == Diff(s.seq, n)
      h == [ooo EXCEPT ![s] = @ + 1]
  IN  \/ /\ d <= 0
         /\ -d >= s.len
         /\ next_seq' = n
         /\ UNCHANGED <<delivered_off, buf, buf_off, hold, gaps>>
      \/ /\ d <= 0
         /\ -d < s.len
         /\ DrainOoo({s} \cup Held(ooo), ooo, waited, n, delivered_off, buf)
         /\ UNCHANGED <<buf_off, gaps>>
      \/ /\ d > 0
         /\ Overflows(h)
         /\ ForceGap(h)
      \/ /\ d > 0
         /\ ~Overflows(h)
         /\ ooo' = h
         /\ waited' = StartTimer
         /\ next_seq' = n
         /\ UNCHANGED <<delivered_off, buf, buf_off, gaps>>

(* A data segment.  The first one seen without a SYN fixes the base.       *)
Data(s) ==
  /\ initialized' = TRUE
  /\ base_seq' = IF initialized THEN base_seq ELSE s.seq
  /\ Push(s, IF initialized THEN next_seq ELSE s.seq)

(* note_syn.  A second SYN, or one that arrives late, changes nothing.     *)
Syn ==
  /\ initialized' = TRUE
  /\ base_seq' = IF initialized THEN base_seq ELSE SeqOf(0)
  /\ next_seq' = IF initialized THEN next_seq ELSE SeqOf(0)
  /\ UNCHANGED <<delivered_off, buf, buf_off, hold, gaps>>

(* A check that subtracts the times the wrong way round.                   *)
TickSwapped == UNCHANGED vars

(* check_timeout, called at a steady pace.                                 *)
Tick ==
  /\ \/ /\ waited = NoTimer
        /\ UNCHANGED <<next_seq, delivered_off, buf, buf_off, hold, gaps>>
     \/ /\ waited # NoTimer
        /\ waited + 1 <= OooTimeout
        /\ waited' = waited + 1
        /\ UNCHANGED <<next_seq, delivered_off, buf, buf_off, ooo, gaps>>
     \/ /\ waited # NoTimer
        /\ waited + 1 > OooTimeout
        /\ ForceGap(ooo)
  /\ UNCHANGED <<initialized, base_seq>>

(* The frame parser takes n bytes from the front.                          *)
Consume(n) ==
  /\ n \in 1..Len(buf)
  /\ buf' = SubSeq(buf, n + 1, Len(buf))
  /\ buf_off' = buf_off + n
  /\ UNCHANGED <<initialized, place, hold, gaps>>

Next ==
  \/ \E c \in Cuts : Data(Segment(c))
  \/ Syn
  \/ Tick
  \/ \E n \in 1..StreamLen : Consume(n)

Spec == Init /\ [][Next]_vars

(* h2tapd calls tick at a steady pace for as long as it runs.              *)
TickingSpec == Spec /\ WF_vars(Tick)

-----------------------------------------------------------------------------
(* seq_at() and next_unparsed_seq().                                       *)

SeqAt(off) == (base_seq + off) % SeqModulus

NextUnparsedSeq == SeqAt(buf_off)

TypeOK ==
  /\ initialized \in BOOLEAN
  /\ base_seq \in 0..(SeqModulus - 1)
  /\ next_seq \in 0..(SeqModulus - 1)
  /\ delivered_off \in 0..StreamLen
  /\ buf \in Seq(0..StreamLen)
  /\ buf_off \in 0..StreamLen
  /\ ooo \in [Segments -> Nat]
  /\ waited \in NoTimer..OooTimeout
  /\ gaps \in Nat

(* Sequence numbers, stream offsets and the buffer tell the same story:    *)
(* the byte a snapshot would name as the next to parse is the byte the     *)
(* buffer starts with, and the byte expected next follows its end          *)
(* (seq_at(), consume(), append(), force_gap()).                           *)
OffsetsAgree ==
  initialized =>
    /\ delivered_off - buf_off = Len(buf)
    /\ next_seq = SeqAt(delivered_off)
    /\ buf # <<>> => NextUnparsedSeq = SeqOf(buf[1])

(* No segment stays on the list once the stream has reached it: a hole     *)
(* that fills releases everything behind it (drain_ooo()).                 *)
HeldIsAhead == \A s \in Held(ooo) : Diff(s.seq, next_seq) > 0

(* What the list holds exceeds its limit by at most the segments that each *)
(* made it overflow, and each of those declared a gap (push()).            *)
HoldBounded ==
  \E longest \in Segments :
    /\ \A s \in Segments : s.len <= longest.len
    /\ Weight(ooo) <= OooLimit + gaps * longest.len

(* A gap jumps over no byte that was already held (force_gap()).           *)
GapSparesWhatIsHeld ==
  [][gaps' # gaps => \A s \in Held(ooo) : Diff(s.seq, SeqAt(buf_off)') >= 0]_vars

(* The position the stream was first observed at.                          *)
Origin == IF initialized THEN Ahead(base_seq, Isn) ELSE -1

(* Every step hands the parser the next bytes of the sender's stream, in   *)
(* order and at their positions, or declares a gap and drops the pending   *)
(* ones (the contract ByteFeed states for Reassembler as a whole).         *)
Feed == INSTANCE ByteFeed WITH
          start <- Origin,
          lo <- IF initialized THEN Origin + buf_off ELSE -1,
          bytes <- buf

RefinesByteFeed == Feed!FeedSpec

(* A hole whose timer runs is filled or given up, however the network      *)
(* keeps repeating what lies beyond it (check_timeout(), get_or_insert).   *)
TimedHoleEnds == waited # NoTimer ~> waited = NoTimer

-----------------------------------------------------------------------------
(* What the documents claim and the code does not keep.                    *)

(* reassembly.rs:156-157: "a hole that never fills eventually becomes a    *)
(* declared gap rather than silently stalling the direction".              *)
HoleEnds == ooo # Nothing ~> ooo = Nothing
=============================================================================
