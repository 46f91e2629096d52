-------------------------------- MODULE Capture --------------------------------
(***************************************************************************)
(* The capture thread of h2tapd (crates/h2tapd/src/capture.rs): it owns    *)
(* the connection table, the ring of recent packets and the session that   *)
(* is running, and does one thing at a time: a command, a packet or a      *)
(* tick.  A packet goes to the session, to the ring and to the table, in   *)
(* this order; a capture starts with the ring's packets and a snapshot of  *)
(* the table.                                                              *)
(*                                                                         *)
(* What a pcap holds is the set of the stream bytes in it.  The commands   *)
(* Connections and Health change nothing.  Files can be written, and the   *)
(* clock does not go back.                                                 *)
(***************************************************************************)
EXTENDS Tracker, Sequences, SequencesExt

CONSTANTS
  RingBytes,    \* ring_bytes
  RingAge,      \* ring_secs
  HeaderBytes   \* what a packet weighs beside its payload

ASSUME CaptureAssumption ==
  RingBytes \in Nat /\ RingAge \in Nat /\ HeaderBytes \in Nat \ {0}

VARIABLES
  ring,      \* Ring.q: packets and the times they came at, oldest first
  session    \* the session that runs: a set of at most one

captureVars == <<life, phase, sent, ended, now, conns, whole, ring, session>>

-----------------------------------------------------------------------------
(* Ring.                                                                   *)

Weight(r) == FoldLeft(LAMBDA n, e : n + HeaderBytes + e.packet.len, 0, r)

(* The packets that are left when the front is dropped until Keep holds.   *)
From(r, k) == SubSeq(r, k, Len(r))

DropOld(r, cutoff) ==
  From(r, Min({k \in 1..(Len(r) + 1) : k \in DOMAIN r => r[k].ts >= cutoff}))

(* A ring that is bounded before the packet that comes is counted.         *)
DropHeavyBefore(r) ==
  From(r, Min({k \in DOMAIN r : Weight(SubSeq(r, k, Len(r) - 1)) <= RingBytes}))

DropHeavy(r) == From(r, Min({k \in 1..(Len(r) + 1) : Weight(From(r, k)) <= RingBytes}))

RingPush(r, ts, p) == DropHeavy(DropOld(Append(r, [ts |-> ts, packet |-> p]), ts - RingAge))

Oldest == IF ring = <<>> THEN Never ELSE ring[1].ts

BytesOf(p) == {<<p.from, b>> : b \in p.at..(p.at + p.len - 1)}

RingContents == UNION {BytesOf(ring[k].packet) : k \in DOMAIN ring}

-----------------------------------------------------------------------------
(* tracker.snapshot.                                                       *)

PendingCovered(d) ==
  d.pending_since # Never => Oldest # Never /\ d.pending_since >= Oldest

(* dir_snapshot and is_snapshottable, with no block open.                  *)
Usable(d) ==
  /\ d.exact /\ ~d.poisoned /\ ~d.desynced
  /\ PendingCovered(d)

(* What the snapshot says of the directions it calls usable, with what is  *)
(* history in them: where they started, and whether all came in order.     *)
Point(s, d) ==
  [side |-> s, next_frame_seq |-> d.lo, begun |-> d.begun, start |-> d.origin,
   orderly |-> d.orderly]

Points == UNION {{Point(s, c.dir[s]) : s \in {t \in Sides : Usable(c.dir[t])}} : c \in conns}

-----------------------------------------------------------------------------
(* Commands.  A Start while a session runs is refused, and so is a Stop    *)
(* that names another session.                                             *)

Start ==
  /\ session = {}
  /\ session' = {[points |-> Points, pcap |-> RingContents]}
  /\ UNCHANGED <<world, now, conns, whole, ring>>

Stop ==
  /\ session # {}
  /\ session' \in {session, {}}
  /\ UNCHANGED <<world, now, conns, whole, ring>>

(* A packet passes the tap.                                                *)
Arrive(p) ==
  /\ session' = {[s EXCEPT !.pcap = @ \cup BytesOf(p)] : s \in session}
  /\ OnSegment(p)
  /\ ring' = RingPush(ring, now', p)

Pass(p) ==
  \/ Arrive(p)
  \/ /\ Missed
     /\ UNCHANGED <<ring, session>>

CaptureInit ==
  /\ Init
  /\ ring = <<>>
  /\ session = {}

CaptureNext ==
  \/ \E l \in Lives \cap {life, life + 1} : \E p \in PacketsOf(l) : Send(p) /\ Pass(p)
  \/ Tick /\ UNCHANGED <<ring, session>>
  \/ Start
  \/ Stop

CaptureSpec == CaptureInit /\ [][CaptureNext]_captureVars

-----------------------------------------------------------------------------
(* Properties.                                                             *)

(* The ring and the session range over what they hold, and the ring is     *)
(* within its limit.                                                       *)
CaptureTypeOK ==
  /\ TrackerTypeOK
  /\ ring \in Seq([ts: 0..MaxTime, packet: Packets])
  /\ Weight(ring) <= RingBytes
  /\ Cardinality(session) <= 1

(* The pcap of a session has every byte from next_frame_seq of a usable    *)
(* direction to the last one taken in, if what was pending when it started *)
(* had come in order: a time kept with the direction is enough to tell     *)
(* what the eviction of packets has left (tracker.rs:248-253 against       *)
(* capture.rs:84-106), and no packet falls between the snapshot and the    *)
(* pcap that goes on from it (capture.rs:4-8).                             *)
PcapComplete ==
  \A ses \in session : \A pt \in ses.points : \A c \in conns :
    LET d == c.dir[pt.side]
    IN  pt.begun /\ pt.orderly /\ d.begun /\ d.origin = pt.start /\ ~d.poisoned =>
          {<<pt.side, b>> : b \in pt.next_frame_seq..(d.hi - 1)} \subseteq ses.pcap
=============================================================================
