----------------------------- MODULE CaptureProofs -----------------------------
(***************************************************************************)
(* The connection table and the captures for every value of the constants: *)
(* any number of lives of the 4-tuple, streams of any length, packets of   *)
(* any size missed at any time, rings and timeouts of any size.            *)
(***************************************************************************)
EXTENDS Capture, FiniteSetTheorems, NaturalsInduction, WellFoundedInduction, TLAPS

-----------------------------------------------------------------------------
(* The invariants.                                                         *)

Times == {Never} \cup 0..MaxTime

DirRecords ==
  [begun : BOOLEAN, saw_syn : BOOLEAN, origin : Nat, lo : Nat, hi : Nat,
   held : SUBSET Packets, poisoned : BOOLEAN, desynced : BOOLEAN, exact : BOOLEAN,
   pending_since : Times, orderly : BOOLEAN]

EntryRecords ==
  [client : Sides, from_syn : BOOLEAN, last_seen : 0..MaxTime, closed : Times,
   dir : [Sides -> DirRecords]]

(* A direction of side s, and that what it holds is still to come.         *)
DirTrue(s, d) ==
  /\ d \in DirRecords
  /\ d.origin <= d.lo /\ d.lo <= d.hi /\ d.hi <= LastByte
  /\ \A p \in d.held : p.from = s /\ p.at > d.hi
  /\ ~d.begun => d.held = {}

EntryTrue(c) ==
  /\ c \in EntryRecords
  /\ \A s \in Sides : DirTrue(s, c.dir[s])

PeersTrue ==
  /\ life \in {0} \cup Lives /\ phase \in {"closed", "syn", "open"}
  /\ phase # "closed" => life \in Lives
  /\ sent \in [Sides -> Nat]
  /\ \A s \in Sides : sent[s] = 0 \/ (life \in Lives /\ sent[s] <= StreamLen[life][s])
  /\ phase = "syn" => \A s \in Sides : sent[s] = 0
  /\ ended \subseteq Sides

(* TrackedWhole, of one direction.                                         *)
DirWhole(s, d) ==
  IF d.begun THEN d.origin = Isn[life][s] /\ d.hi = Isn[life][s] + sent[s] /\ d.held = {}
  ELSE sent[s] = 0

WholeTrue ==
  whole => /\ conns # {}
           /\ \A c \in conns : c.client = "client" /\ \A s \in Sides : DirWhole(s, c.dir[s])

TInv ==
  /\ PeersTrue
  /\ now \in 0..MaxTime
  /\ whole \in BOOLEAN
  /\ \A c, e \in conns : c = e
  /\ \A c \in conns : EntryTrue(c)
  /\ RolesTrue
  /\ WholeTrue

(* The ring and the session: CaptureTypeOK needs no more.                  *)
RingTrue ==
  /\ ring \in Seq([ts : 0..MaxTime, packet : Packets])
  /\ Weight(ring) <= RingBytes
  /\ \A e, f \in session : e = f

(* The ring is in strict order of time, if no two packets bear the same.   *)
Ordered(r, n) ==
  /\ \A k \in DOMAIN r : r[k].ts <= n
  /\ \A j, k \in DOMAIN r : j < k => r[j].ts < r[k].ts

Reaches(r, t) == r # <<>> /\ r[1].ts <= t

HasByte(r, s, t, b) ==
  \E k \in DOMAIN r : r[k].ts >= t /\ <<s, b>> \in BytesOf(r[k].packet)

(* What is pending in a direction, all of it come in order, is in packets  *)
(* no older than its time; if the ring reaches back to it, they are there. *)
RingHas(r, n, s, d) ==
  /\ d.pending_since <= n
  /\ d.orderly => d.held = {}
  /\ d.orderly /\ d.lo < d.hi =>
       /\ d.pending_since # Never
       /\ Reaches(r, d.pending_since) =>
            \A b \in Nat : d.lo <= b /\ b < d.hi => HasByte(r, s, d.pending_since, b)

(* What a pcap has of a direction the session could be used for.           *)
PcapHas(pcap, pt, d) ==
  pt.begun /\ pt.orderly /\ d.begun /\ d.origin = pt.start /\ ~d.poisoned =>
    /\ \A b \in Nat : pt.next_frame_seq <= b /\ b < d.hi => <<pt.side, b>> \in pcap
    /\ \A p \in d.held : BytesOf(p) \subseteq pcap

PointTrue(pt) ==
  /\ pt.side \in Sides /\ pt.next_frame_seq \in Nat /\ pt.start \in Nat
  /\ pt.begun => pt.start <= pt.next_frame_seq

PcapInv ==
  /\ Ordered(ring, now)
  /\ \A c \in conns, s \in Sides : RingHas(ring, now, s, c.dir[s])
  /\ \A ses \in session :
       /\ ses = [points |-> ses.points, pcap |-> ses.pcap]
       /\ \A pt \in ses.points :
            /\ PointTrue(pt)
            /\ \A c \in conns : PcapHas(ses.pcap, pt, c.dir[pt.side])

-----------------------------------------------------------------------------
(* Numbers.                                                                *)

LEMMA Least ==
  ASSUME NEW S \in SUBSET Nat, S # {}
  PROVE  \E p \in S : \A q \in S : p <= q
<1>1. PICK p \in S : \A q \in S : ~(<<q, p>> \in OpToRel(<, Nat))
  BY NatLessThanWellFounded, WFMin
<1>2. \A q \in S : ~(q < p)
  BY <1>1 DEF OpToRel
<1> QED
  BY <1>2

LEMMA MinIs ==
  ASSUME NEW S \in SUBSET Nat, S # {}
  PROVE  Min(S) \in S /\ \A q \in S : Min(S) <= q
BY Least DEF Min

LEMMA MaxIs ==
  ASSUME NEW S \in SUBSET Nat, S # {}, NEW b \in Nat, \A x \in S : x <= b
  PROVE  Max(S) \in S /\ \A q \in S : q <= Max(S)
<1> DEFINE T == {n \in Nat : \E x \in S : n = b - x}
<1>1. T # {} /\ T \in SUBSET Nat
  <2>1. PICK x \in S : TRUE
    OBVIOUS
  <2>2. b - x \in T
    BY <2>1
  <2> QED
    BY <2>2
<1>2. PICK n \in T : \A q \in T : n <= q
  BY <1>1, Least
<1>3. PICK x \in S : n = b - x
  OBVIOUS
<1>4. \A q \in S : q <= x
  <2> TAKE q \in S
  <2>1. b - q \in T
    OBVIOUS
  <2>2. n <= b - q
    BY <1>2, <2>1
  <2> QED
    BY <1>3, <2>2
<1> QED
  BY <1>4 DEF Max

(* A finite set of numbers has a bound.                                    *)
LEMMA FiniteBounded ==
  ASSUME NEW D, IsFiniteSet(D), NEW f \in [D -> Nat]
  PROVE  \E b \in Nat : \A x \in D : f[x] <= b
<1> DEFINE Bound(S) == \E b \in Nat : \A x \in S : f[x] <= b
           Bad == {n \in Nat : \E S \in SUBSET D : Cardinality(S) = n /\ ~Bound(S)}
<1>1. \A S \in SUBSET D : IsFiniteSet(S) /\ Cardinality(S) \in Nat
  BY FS_Subset, FS_CardinalityType
<1>2. ASSUME Bad # {} PROVE FALSE
  <2>1. PICK n \in Bad : \A q \in Bad : n <= q
    BY <1>2, Least
  <2>2. PICK S \in SUBSET D : Cardinality(S) = n /\ ~Bound(S)
    OBVIOUS
  <2>3. S # {}
    BY <2>2
  <2>4. PICK x \in S : TRUE
    BY <2>3
  <2>5. Cardinality(S \ {x}) = n - 1
    BY <1>1, <2>2, FS_RemoveElement
  <2>6. n - 1 \in Nat
    BY <1>1, <2>5
  <2>7. Bound(S \ {x})
    BY <2>1, <2>5, <2>6
  <2>8. PICK b \in Nat : \A y \in S \ {x} : f[y] <= b
    BY <2>7
  <2>9. CASE f[x] <= b
    BY <2>8, <2>9, <2>2
  <2>10. CASE ~(f[x] <= b)
    <3>1. \A y \in S : f[y] <= f[x]
      BY <2>8, <2>10
    <3> QED
      BY <3>1, <2>2
  <2> QED
    BY <2>9, <2>10
<1>3. Cardinality(D) \notin Bad
  BY <1>2
<1> QED
  BY <1>1, <1>3

LEMMA LastByteIs ==
  /\ LastByte \in Nat
  /\ \A l \in Lives, s \in Sides : Isn[l][s] + StreamLen[l][s] <= LastByte
<1> DEFINE end(s) == [l \in Lives |-> Isn[l][s] + StreamLen[l][s]]
           S == {Isn[l][s] + StreamLen[l][s] : l \in Lives, s \in Sides}
<1>1. \A s \in Sides : end(s) \in [Lives -> Nat]
  BY TrackerAssumption DEF Lives
<1>2. PICK b \in Nat : \A l \in Lives : end("client")[l] <= b
  BY <1>1, FiniteBounded, TrackerAssumption DEF Sides
<1>3. PICK c \in Nat : \A l \in Lives : end("server")[l] <= c
  BY <1>1, FiniteBounded, TrackerAssumption DEF Sides
<1>4. \A l \in Lives, s \in Sides : Isn[l][s] \in Nat /\ StreamLen[l][s] \in Nat
  BY TrackerAssumption
<1>5. \A l \in Lives, s \in Sides : Isn[l][s] + StreamLen[l][s] <= b + c
  <2> TAKE l \in Lives, s \in Sides
  <2>1. Isn[l]["client"] + StreamLen[l]["client"] <= b
    BY <1>2
  <2>2. Isn[l]["server"] + StreamLen[l]["server"] <= c
    BY <1>3
  <2>3. s = "client" \/ s = "server"
    BY DEF Sides
  <2> QED
    BY <1>4, <2>1, <2>2, <2>3
<1>6. S \in SUBSET Nat /\ (\A x \in S : x <= b + c)
  BY <1>4, <1>5
<1>7. S # {}
  <2>1. PICK l \in Lives : TRUE
    BY TrackerAssumption
  <2>2. Isn[l]["client"] + StreamLen[l]["client"] \in S
    BY DEF Sides
  <2> HIDE DEF S
  <2> QED
    BY <2>2
<1>8. Max(S) \in S /\ \A q \in S : q <= Max(S)
  <2>1. b + c \in Nat
    OBVIOUS
  <2> HIDE DEF S
  <2> QED
    BY <1>6, <1>7, <2>1, MaxIs
<1> QED
  BY <1>6, <1>8 DEF LastByte

LEMMA LongestIs ==
  Longest \in Nat /\ \A l \in Lives, s \in Sides : StreamLen[l][s] <= Longest
<1> DEFINE S == {StreamLen[l][s] : l \in Lives, s \in Sides}
<1>1. \A l \in Lives, s \in Sides : Isn[l][s] \in Nat /\ StreamLen[l][s] \in Nat
  BY TrackerAssumption
<1>2. S \in SUBSET Nat /\ (\A x \in S : x <= LastByte)
  BY <1>1, LastByteIs
<1>3. S # {}
  <2>1. PICK l \in Lives : TRUE
    BY TrackerAssumption
  <2>2. StreamLen[l]["client"] \in S
    BY DEF Sides
  <2> HIDE DEF S
  <2> QED
    BY <2>2
<1>4. Max(S) \in S /\ \A q \in S : q <= Max(S)
  <2> HIDE DEF S
  <2> QED
    BY <1>2, <1>3, LastByteIs, MaxIs
<1> QED
  BY <1>2, <1>4 DEF Longest

-----------------------------------------------------------------------------
(* Packets.                                                                *)

LEMMA OtherIs == \A s \in Sides : Other(s) \in Sides /\ Other(s) # s
BY DEF Sides, Other

LEMMA DataIs ==
  ASSUME NEW l \in Lives, NEW s \in Sides, NEW p \in Cuts(l, s)
  PROVE  /\ p.from = s /\ p.kind = "DATA" /\ p.at \in Nat /\ p.len \in Nat \ {0}
         /\ Isn[l][s] <= p.at /\ p.at + p.len <= Isn[l][s] + StreamLen[l][s]
         /\ p.at + p.len <= LastByte
<1>1. PICK n \in 1..StreamLen[l][s] : \E m \in 0..(n - 1) : p = Data(l, s, m, n)
  BY DEF Cuts
<1>2. PICK m \in 0..(n - 1) : p = Data(l, s, m, n)
  BY <1>1
<1>3. Isn[l][s] \in Nat /\ StreamLen[l][s] \in Nat
  BY TrackerAssumption
<1> QED
  BY <1>2, <1>3, LastByteIs DEF Data, Packet

LEMMA PacketIs ==
  ASSUME NEW l \in Lives, NEW p \in PacketsOf(l)
  PROVE  /\ p \in Packets
         /\ p.from \in Sides /\ p.at \in Nat /\ p.len \in Nat /\ p.at + p.len <= LastByte
         /\ p.kind \in {"SYN", "SYNACK", "ACK", "FIN", "RST", "DATA"}
         /\ p.kind = "SYN" => p.from = "client"
         /\ p.kind \in {"SYN", "SYNACK"} => p.at + 1 <= LastByte
         /\ p.kind # "DATA" => p.len = 0
<1>1. \A s \in Sides : /\ Isn[l][s] \in Nat \ {0} /\ StreamLen[l][s] \in Nat
                       /\ Isn[l][s] + StreamLen[l][s] <= LastByte
  BY TrackerAssumption, LastByteIs
<1>2. p \in Packets
  BY DEF Packets
<1>3. "client" \in Sides /\ "server" \in Sides
  BY DEF Sides
<1>4. CASE p = Syn(l)
  BY <1>1, <1>2, <1>3, <1>4, LastByteIs DEF Syn, Packet
<1>5. CASE p = SynAck(l)
  BY <1>1, <1>2, <1>3, <1>5, LastByteIs DEF SynAck, Packet
<1>6. CASE \E s \in Sides, k \in {"ACK", "FIN", "RST"} : p = Sign(l, s, k)
  <2>1. PICK s \in Sides, k \in {"ACK", "FIN", "RST"} : p = Sign(l, s, k)
    BY <1>6
  <2> QED
    BY <1>1, <1>2, <2>1, LastByteIs DEF Sign, Packet
<1>7. CASE p \in Cuts(l, "client") \cup Cuts(l, "server")
  <2>1. PICK s \in Sides : p \in Cuts(l, s)
    BY <1>3, <1>7
  <2> QED
    BY <1>2, <2>1, DataIs
<1> QED
  BY <1>4, <1>5, <1>6, <1>7 DEF PacketsOf

LEMMA PacketsAre ==
  \A p \in Packets : /\ p.from \in Sides /\ p.at \in Nat /\ p.len \in Nat
                     /\ p.at + p.len <= LastByte
BY PacketIs DEF Packets

-----------------------------------------------------------------------------
(* Directions.                                                             *)

Covers(p, b) == p.at <= b /\ b < p.at + p.len

LEMMA ReachIs ==
  ASSUME NEW S \in SUBSET Packets, NEW n \in 0..LastByte
  PROVE  /\ Reach(S, n) \in n..LastByte
         /\ \A j \in Nat : n <= j /\ j < Reach(S, n) => \E p \in S : Covers(p, j)
         /\ ~\E p \in S : Covers(p, Reach(S, n))
<1> DEFINE U == {k \in n..LastByte : ~\E p \in S : Covers(p, k)}
           Good(k) == /\ \A j \in n..(k-1) : \E p \in S : p.at <= j /\ j < p.at + p.len
                      /\ ~\E p \in S : p.at <= k /\ k < p.at + p.len
<1>1. LastByte \in U
  BY LastByteIs, PacketsAre DEF Covers
<1>2. PICK k \in U : \A q \in U : k <= q
  <2>1. U \in SUBSET Nat
    BY LastByteIs
  <2> HIDE DEF U
  <2> QED
    BY <1>1, <2>1, Least
<1>3. \A j \in n..(k - 1) : \E p \in S : Covers(p, j)
  BY <1>2, LastByteIs
<1>4. k \in n..LastByte /\ Good(k)
  BY <1>2, <1>3 DEF Covers
<1>5. Reach(S, n) = CHOOSE i \in n..LastByte : Good(i)
  BY DEF Reach
<1>6. Reach(S, n) \in n..LastByte /\ Good(Reach(S, n))
  <2> HIDE DEF Good
  <2> QED
    BY <1>4, <1>5
<1>7. \A j \in Nat : n <= j /\ j < Reach(S, n) => j \in n..(Reach(S, n) - 1)
  BY <1>6, LastByteIs
<1> QED
  BY <1>6, <1>7 DEF Covers

(* What drain() leaves alone, and what it leaves of what was held.         *)
Undrained(d, e) ==
  /\ e.begun = d.begun /\ e.origin = d.origin /\ e.lo = d.lo
  /\ e.orderly = d.orderly /\ e.poisoned = d.poisoned /\ e.pending_since = d.pending_since

LEMMA DrainIs ==
  ASSUME NEW s \in Sides, NEW d \in DirRecords, NEW S \in SUBSET Packets,
         d.origin <= d.lo, d.lo <= d.hi, d.hi <= LastByte, d.begun,
         \A p \in S : p.from = s
  PROVE  LET e == Drain(d, S)
         IN  /\ DirTrue(s, e)
             /\ e.hi = Reach(S, d.hi)
             /\ e.held \subseteq S /\ \A p \in e.held : p.at > e.hi
             /\ Undrained(d, e)
<1>1. d.hi \in 0..LastByte
  BY LastByteIs DEF DirRecords
<1>2. PICK k : k = Reach(S, d.hi) /\ k \in d.hi..LastByte
  BY <1>1, ReachIs
<1>3. PICK h : h = {p \in S : p.at > k} /\ h \in SUBSET Packets
  OBVIOUS
<1>4. Drain(d, S) = [d EXCEPT !.hi = k, !.held = h]
  BY <1>2, <1>3 DEF Drain
<1>5. k \in Nat /\ d.hi <= k /\ k <= LastByte
  BY <1>1, <1>2, LastByteIs
<1> DEFINE e == [d EXCEPT !.hi = k, !.held = h]
<1>6. e \in DirRecords
  BY <1>3, <1>5, Zenon DEF DirRecords
<1>7. /\ e.hi = k /\ e.held = h /\ e.origin = d.origin /\ e.lo = d.lo /\ e.begun = d.begun
      /\ e.orderly = d.orderly /\ e.poisoned = d.poisoned /\ e.pending_since = d.pending_since
  BY DEF DirRecords
<1>8. DirTrue(s, e)
  <2>1. d.origin \in Nat /\ d.lo \in Nat /\ d.hi \in Nat
    BY DEF DirRecords
  <2> HIDE DEF e
  <2> QED
    BY <1>3, <1>5, <1>6, <1>7, <2>1 DEF DirTrue
<1>9. Drain(d, S) = e
  BY <1>4
<1>10. e.hi = Reach(S, d.hi)
  BY <1>2, <1>7
<1>11. e.held \subseteq S /\ \A p \in e.held : p.at > e.hi
  BY <1>3, <1>7
<1> HIDE DEF e
<1> QED
  BY <1>7, <1>8, <1>9, <1>10, <1>11 DEF Undrained

LEMMA FramesAre ==
  ASSUME NEW s \in Sides, NEW d, DirTrue(s, d)
  PROVE  /\ FramesUpTo(s, d) # {} => Max(FramesUpTo(s, d)) \in d.lo..d.hi
         /\ d.lo \in Boundaries(s) => FramesUpTo(s, d) # {}
<1>1. d.lo \in Nat /\ d.hi \in Nat /\ d.lo <= d.hi
  BY DEF DirTrue, DirRecords
<1>2. \A l \in Lives, b \in FrameEnds[s] : Isn[l][s] + b \in Nat
  BY TrackerAssumption
<1>3. FramesUpTo(s, d) \in SUBSET Nat
  BY <1>2 DEF FramesUpTo, Boundaries
<1>4. \A x \in FramesUpTo(s, d) : d.lo <= x /\ x <= d.hi
  BY DEF FramesUpTo
<1>5. FramesUpTo(s, d) # {} => Max(FramesUpTo(s, d)) \in FramesUpTo(s, d)
  BY <1>1, <1>3, <1>4, MaxIs
<1>6. d.lo \in Boundaries(s) => d.lo \in FramesUpTo(s, d)
  BY <1>1 DEF FramesUpTo
<1> QED
  BY <1>1, <1>3, <1>4, <1>5, <1>6

(* What parse() leaves alone.                                              *)
SameBytes(d, e) ==
  /\ e.begun = d.begun /\ e.origin = d.origin /\ e.hi = d.hi /\ e.held = d.held
  /\ e.pending_since = d.pending_since /\ e.orderly = d.orderly
  /\ d.lo <= e.lo
  /\ d.poisoned => e.poisoned

LEMMA ParsedIs ==
  ASSUME NEW s \in Sides, NEW d, DirTrue(s, d), NEW e \in Parsed(s, d)
  PROVE  DirTrue(s, e) /\ SameBytes(d, e)
<1>1. d \in DirRecords
  BY DEF DirTrue
<1>2. d.lo \in Nat /\ d.hi \in Nat /\ d.origin \in Nat /\ d.lo <= d.hi /\ d.origin <= d.lo
  BY DEF DirTrue, DirRecords
<1>3. PICK n \in d.lo..d.hi, x \in BOOLEAN, po \in BOOLEAN, de \in BOOLEAN :
        /\ d.poisoned => po
        /\ e = [d EXCEPT !.lo = n, !.exact = x, !.poisoned = po, !.desynced = de]
  <2>1. d = [d EXCEPT !.lo = d.lo, !.exact = d.exact, !.poisoned = d.poisoned,
                      !.desynced = d.desynced]
    BY <1>1 DEF DirRecords
  <2>2. d.exact \in BOOLEAN /\ d.poisoned \in BOOLEAN /\ d.desynced \in BOOLEAN
    BY <1>1 DEF DirRecords
  <2>3. d.lo \in d.lo..d.hi /\ d.hi \in d.lo..d.hi
    BY <1>2
  <2>4. CASE e = d
    BY <2>1, <2>2, <2>3, <2>4, Zenon
  <2>5. CASE d.desynced /\ e # d
    <3>1. PICK x \in BOOLEAN :
            /\ FramesUpTo(s, d) # {}
            /\ e = [d EXCEPT !.desynced = FALSE, !.lo = Max(FramesUpTo(s, d)), !.exact = x]
      BY <2>5, Zenon DEF Parsed
    <3>2. Max(FramesUpTo(s, d)) \in d.lo..d.hi
      BY <3>1, FramesAre
    <3>3. e = [d EXCEPT !.lo = Max(FramesUpTo(s, d)), !.exact = x,
                        !.poisoned = d.poisoned, !.desynced = FALSE]
      BY <3>1, <1>1 DEF DirRecords
    <3> QED
      BY <3>2, <3>3, <2>2, Zenon
  <2>6. CASE ~d.desynced /\ d.lo \in Boundaries(s)
    <3>1. Max(FramesUpTo(s, d)) \in d.lo..d.hi
      BY <2>6, FramesAre
    <3>2. \/ \E x \in {d.exact, TRUE} : e = [d EXCEPT !.lo = Max(FramesUpTo(s, d)), !.exact = x]
          \/ e = [d EXCEPT !.lo = Max(FramesUpTo(s, d)), !.exact = FALSE, !.poisoned = TRUE]
      BY <2>6 DEF Parsed
    <3>3. \/ \E x \in BOOLEAN : e = [d EXCEPT !.lo = Max(FramesUpTo(s, d)), !.exact = x,
                                      !.poisoned = d.poisoned, !.desynced = d.desynced]
          \/ e = [d EXCEPT !.lo = Max(FramesUpTo(s, d)), !.exact = FALSE, !.poisoned = TRUE,
                          !.desynced = d.desynced]
      <4>1. CASE \E x \in {d.exact, TRUE} :
                   e = [d EXCEPT !.lo = Max(FramesUpTo(s, d)), !.exact = x]
        <5>1. PICK x \in BOOLEAN : e = [d EXCEPT !.lo = Max(FramesUpTo(s, d)), !.exact = x]
          BY <4>1, <1>1, Zenon DEF DirRecords
        <5>2. e = [d EXCEPT !.lo = Max(FramesUpTo(s, d)), !.exact = x,
                            !.poisoned = d.poisoned, !.desynced = d.desynced]
          BY <5>1, <1>1 DEF DirRecords
        <5> QED
          BY <5>2, Zenon
      <4>2. CASE e = [d EXCEPT !.lo = Max(FramesUpTo(s, d)), !.exact = FALSE, !.poisoned = TRUE]
        BY <4>2, <1>1, Zenon DEF DirRecords
      <4> QED
        BY <3>2, <4>1, <4>2, Zenon
    <3> QED
      BY <3>1, <3>3, <2>2, Zenon
  <2>7. CASE ~d.desynced /\ d.lo \notin Boundaries(s)
    <3>1. \/ \E n \in {d.lo, d.hi} : e = [d EXCEPT !.lo = n]
          \/ \E x \in BOOLEAN : e = [d EXCEPT !.lo = d.hi, !.exact = FALSE, !.poisoned = TRUE,
                                            !.desynced = x]
      BY <2>7, Zenon DEF Parsed
    <3>2. \/ \E n \in {d.lo, d.hi} : e = [d EXCEPT !.lo = n, !.exact = d.exact,
                                         !.poisoned = d.poisoned, !.desynced = d.desynced]
          \/ \E x \in BOOLEAN : e = [d EXCEPT !.lo = d.hi, !.exact = FALSE, !.poisoned = TRUE,
                                            !.desynced = x]
      BY <3>1, <1>1, Zenon DEF DirRecords
    <3> QED
      BY <3>2, <2>2, <2>3, Zenon
  <2> QED
    BY <2>4, <2>5, <2>6, <2>7, <2>2, Zenon
<1>4. e \in DirRecords
  <2>1. n \in Nat
    BY <1>2
  <2>2. e = [d EXCEPT !.lo = n, !.exact = x, !.poisoned = po, !.desynced = de]
    BY <1>3
  <2> QED
    BY <1>1, <2>1, <2>2 DEF DirRecords
<1>5. /\ e.lo = n /\ e.hi = d.hi /\ e.begun = d.begun /\ e.origin = d.origin /\ e.held = d.held
      /\ e.pending_since = d.pending_since /\ e.orderly = d.orderly /\ e.poisoned = po
  BY <1>1, <1>3 DEF DirRecords
<1>6. DirTrue(s, e)
  BY <1>2, <1>3, <1>4, <1>5 DEF DirTrue
<1> QED
  BY <1>2, <1>3, <1>5, <1>6 DEF SameBytes

(* The bytes from m on, up to n, are supplied.                             *)
Covered(S, m, n) == \A b \in Nat : m <= b /\ b < n => \E q \in S : Covers(q, b)

(* The byte that a direction goes on with, or starts at.                   *)
Frontier(d, p) == IF d.begun THEN d.hi ELSE p.at

LEMMA StartAtIs ==
  ASSUME NEW s \in Sides, NEW d, DirTrue(s, d), ~d.begun, NEW n \in 0..LastByte
  PROVE  LET e == StartAt(d, n)
         IN  /\ DirTrue(s, e)
             /\ e.begun /\ e.origin = n /\ e.lo = n /\ e.hi = n /\ e.held = {}
             /\ e.poisoned = d.poisoned /\ e.pending_since = d.pending_since
             /\ e.orderly = d.orderly
<1>1. d \in DirRecords /\ d.held = {} /\ n \in Nat /\ n <= LastByte
  BY LastByteIs DEF DirTrue
<1> DEFINE e == [d EXCEPT !.begun = TRUE, !.origin = n, !.lo = n, !.hi = n]
<1>2. e \in DirRecords
  BY <1>1 DEF DirRecords
<1>3. /\ e.begun /\ e.origin = n /\ e.lo = n /\ e.hi = n /\ e.held = {}
      /\ e.poisoned = d.poisoned /\ e.pending_since = d.pending_since
      /\ e.orderly = d.orderly
  BY <1>1 DEF DirRecords
<1>4. e = StartAt(d, n)
  BY DEF StartAt
<1> HIDE DEF e
<1>5. DirTrue(s, e)
  BY <1>1, <1>2, <1>3 DEF DirTrue
<1> QED
  BY <1>3, <1>4, <1>5

LEMMA PushIs ==
  ASSUME NEW s \in Sides, NEW d, DirTrue(s, d), NEW p \in Packets, p.from = s
  PROVE  LET e == Push(d, p)
         IN  /\ DirTrue(s, e) /\ e.begun
             /\ e.origin = (IF d.begun THEN d.origin ELSE p.at)
             /\ e.lo = (IF d.begun THEN d.lo ELSE p.at)
             /\ Frontier(d, p) <= e.hi
             /\ e.poisoned = d.poisoned /\ e.pending_since = d.pending_since
             /\ e.held \subseteq d.held \cup {p}
             /\ Covered(d.held \cup {p}, Frontier(d, p), e.hi)
             /\ e.orderly => d.orderly /\ p.at <= Frontier(d, p)
             /\ p.at <= Frontier(d, p) /\ d.held = {} =>
                  /\ e.held = {}
                  /\ e.hi = (IF p.at + p.len > Frontier(d, p) THEN p.at + p.len ELSE Frontier(d, p))
             /\ p.at > e.hi => ~e.orderly
<1>1. p.at \in Nat /\ p.len \in Nat /\ p.at <= LastByte
  BY PacketsAre, LastByteIs
<1>2. PICK b : b = (IF d.begun THEN d ELSE StartAt(d, p.at))
  OBVIOUS
<1>3. /\ DirTrue(s, b) /\ b.begun
      /\ b.origin = (IF d.begun THEN d.origin ELSE p.at)
      /\ b.lo = (IF d.begun THEN d.lo ELSE p.at)
      /\ b.hi = Frontier(d, p) /\ b.held = d.held
      /\ b.poisoned = d.poisoned /\ b.pending_since = d.pending_since /\ b.orderly = d.orderly
  <2>1. CASE d.begun
    BY <1>2, <2>1 DEF Frontier
  <2>2. CASE ~d.begun
    <3>1. p.at \in 0..LastByte
      BY <1>1, LastByteIs
    <3>2. d.held = {}
      BY <2>2 DEF DirTrue
    <3> QED
      BY <1>2, <2>2, <3>1, <3>2, StartAtIs DEF Frontier
  <2> QED
    BY <2>1, <2>2
<1>4. /\ b \in DirRecords /\ b.hi \in Nat /\ b.lo \in Nat /\ b.origin \in Nat
      /\ b.origin <= b.lo /\ b.lo <= b.hi /\ b.hi <= LastByte /\ b.held \in SUBSET Packets
      /\ \A q \in b.held : q.from = s /\ q.at > b.hi
  BY <1>3 DEF DirTrue, DirRecords
<1>5. CASE p.at > b.hi
  <2>1. PICK h : h = b.held \cup {p}
    OBVIOUS
  <2> DEFINE e == [b EXCEPT !.held = h, !.orderly = FALSE]
  <2>2. Push(d, p) = e
    BY <1>2, <1>5, <2>1 DEF Push
  <2>3. e \in DirRecords
    <3>1. h \in SUBSET Packets
      BY <1>4, <2>1
    <3> QED
      BY <1>4, <3>1 DEF DirRecords
  <2>4. /\ e.begun = b.begun /\ e.origin = b.origin /\ e.lo = b.lo /\ e.hi = b.hi /\ e.held = h
        /\ e.poisoned = b.poisoned /\ e.pending_since = b.pending_since /\ ~e.orderly
    BY <1>4 DEF DirRecords
  <2> HIDE DEF e
  <2>5. DirTrue(s, e)
    BY <1>3, <1>4, <1>5, <2>1, <2>3, <2>4 DEF DirTrue
  <2>6. Covered(d.held \cup {p}, Frontier(d, p), e.hi)
    BY <1>3, <1>4, <2>4 DEF Covered
  <2> QED
    BY <1>1, <1>3, <1>4, <1>5, <2>1, <2>2, <2>4, <2>5, <2>6
<1>6. CASE ~(p.at > b.hi)
  <2>1. PICK S : S = b.held \cup {p}
    OBVIOUS
  <2>2. S \in SUBSET Packets /\ \A q \in S : q.from = s
    BY <1>4, <2>1
  <2>3. PICK e : e = Drain(b, S)
    OBVIOUS
  <2>4. Push(d, p) = e
    BY <1>2, <1>6, <2>1, <2>3 DEF Push
  <2>5. /\ DirTrue(s, e) /\ e.hi = Reach(S, b.hi)
        /\ e.held \subseteq S /\ \A q \in e.held : q.at > e.hi
        /\ e.begun = b.begun /\ e.origin = b.origin /\ e.lo = b.lo /\ e.orderly = b.orderly
        /\ e.poisoned = b.poisoned /\ e.pending_since = b.pending_since
    <3>1. b \in DirRecords /\ b.origin <= b.lo /\ b.lo <= b.hi /\ b.hi <= LastByte /\ b.begun
      BY <1>3, <1>4
    <3>2. DirTrue(s, Drain(b, S)) /\ Drain(b, S).hi = Reach(S, b.hi)
      BY <3>1, <2>2, DrainIs
    <3>3. Drain(b, S).held \subseteq S /\ \A q \in Drain(b, S).held : q.at > Drain(b, S).hi
      BY <3>1, <2>2, DrainIs
    <3>4. Undrained(b, Drain(b, S))
      BY <3>1, <2>2, DrainIs
    <3> QED
      BY <3>2, <3>3, <3>4, <2>3 DEF Undrained
  <2>6. /\ e.begun = b.begun /\ e.origin = b.origin /\ e.lo = b.lo /\ e.orderly = b.orderly
        /\ e.poisoned = b.poisoned /\ e.pending_since = b.pending_since
    BY <2>5
  <2>7. /\ e.hi \in b.hi..LastByte
        /\ \A j \in Nat : b.hi <= j /\ j < e.hi => \E q \in S : Covers(q, j)
        /\ ~\E q \in S : Covers(q, e.hi)
    <3>1. b.hi \in 0..LastByte
      BY <1>4, LastByteIs
    <3> QED
      BY <2>2, <2>5, <3>1, ReachIs
  <2>8. b.hi <= e.hi /\ e.hi \in Nat
    BY <1>4, <2>7, LastByteIs
  <2>9. p.at <= e.hi
    BY <1>1, <1>4, <1>6, <2>8
  <2>10. ASSUME d.held = {}
         PROVE  /\ e.held = {}
                /\ e.hi = (IF p.at + p.len > b.hi THEN p.at + p.len ELSE b.hi)
    <3>1. S = {p}
      BY <1>3, <2>1, <2>10
    <3>2. e.held = {}
      BY <1>1, <2>5, <2>8, <2>9, <3>1
    <3>3. ~Covers(p, e.hi)
      BY <2>7, <3>1
    <3>4. e.hi > b.hi => Covers(p, e.hi - 1) /\ Covers(p, b.hi)
      BY <1>4, <2>7, <2>8, <3>1
    <3> QED
      BY <1>1, <1>4, <1>6, <2>8, <3>2, <3>3, <3>4 DEF Covers
  <2>11. Covered(d.held \cup {p}, Frontier(d, p), e.hi)
    BY <1>3, <2>1, <2>7 DEF Covered
  <2>12. e.held \subseteq d.held \cup {p}
    BY <1>3, <2>1, <2>5
  <2> QED
    BY <1>1, <1>3, <1>4, <1>6, <2>4, <2>5, <2>6, <2>8, <2>9, <2>10, <2>11, <2>12
<1> QED
  BY <1>5, <1>6

(* What is given up is lost, and what is held is taken in.                 *)
LEMMA GiveUpIs ==
  ASSUME NEW s \in Sides, NEW d, DirTrue(s, d), d.held # {}
  PROVE  LET e == GiveUp(d)
         IN  /\ DirTrue(s, e) /\ e.begun /\ e.poisoned
             /\ e.origin = d.origin /\ d.lo <= e.lo
             /\ e.pending_since = d.pending_since /\ e.orderly = d.orderly
<1>1. /\ d \in DirRecords /\ d.hi \in Nat /\ d.lo \in Nat /\ d.origin \in Nat /\ d.begun
      /\ d.origin <= d.lo /\ d.lo <= d.hi /\ d.hi <= LastByte /\ d.held \in SUBSET Packets
      /\ \A q \in d.held : q.from = s /\ q.at > d.hi
  BY DEF DirTrue, DirRecords
<1> DEFINE T == {p.at : p \in d.held}
<1>2. T \in SUBSET Nat /\ T # {} /\ \A t \in T : t > d.hi /\ t <= LastByte
  BY <1>1, PacketsAre, LastByteIs
<1>3. PICK t : t = Min(T)
  OBVIOUS
<1>4. t \in Nat /\ t > d.hi /\ t <= LastByte
  <2> HIDE DEF T
  <2> QED
    BY <1>2, <1>3, MinIs
<1> DEFINE f == [d EXCEPT !.lo = t, !.hi = t, !.poisoned = TRUE, !.desynced = TRUE,
                          !.exact = FALSE]
<1>5. GiveUp(d) = Drain(f, d.held)
  BY <1>3 DEF GiveUp
<1>6. f \in DirRecords
  BY <1>1, <1>4 DEF DirRecords
<1>7. /\ f.lo = t /\ f.hi = t /\ f.poisoned /\ f.begun /\ f.origin = d.origin /\ f.held = d.held
      /\ f.pending_since = d.pending_since /\ f.orderly = d.orderly
  BY <1>1 DEF DirRecords
<1> HIDE DEF f
<1>8. PICK e : e = Drain(f, d.held)
  OBVIOUS
<1>9. DirTrue(s, e)
  BY <1>1, <1>4, <1>6, <1>7, <1>8, DrainIs
<1>10. /\ e.begun /\ e.poisoned /\ e.origin = d.origin /\ e.lo = t
       /\ e.pending_since = d.pending_since /\ e.orderly = d.orderly
  <2>1. Undrained(f, e)
    BY <1>1, <1>4, <1>6, <1>7, <1>8, DrainIs
  <2> QED
    BY <1>7, <2>1 DEF Undrained
<1> QED
  BY <1>1, <1>4, <1>5, <1>8, <1>9, <1>10

(* What a packet with data makes of the direction that it belongs to.      *)
Grown(d, e, p) ==
  /\ e.begun
  /\ e.origin = IF d.begun THEN d.origin ELSE p.at
  /\ e.pending_since = d.pending_since
  /\ d.begun => d.lo <= e.lo
  /\ ~e.poisoned => /\ ~d.poisoned
                    /\ e.held \subseteq d.held \cup {p}
                    /\ Covered(d.held \cup {p}, Frontier(d, p), e.hi)
  /\ e.orderly => /\ d.orderly /\ p.at <= Frontier(d, p)
                  /\ Covered(d.held \cup {p}, Frontier(d, p), e.hi)
  /\ p.at <= Frontier(d, p) /\ d.held = {} =>
       /\ e.held = {}
       /\ e.hi = IF p.at + p.len > Frontier(d, p) THEN p.at + p.len ELSE Frontier(d, p)

LEMMA FeedIs ==
  ASSUME NEW s \in Sides, NEW d, DirTrue(s, d), NEW p \in Packets, p.from = s,
         NEW e \in Feed(s, d, p)
  PROVE  DirTrue(s, e) /\ Grown(d, e, p)
<1>1. PICK x : x = Push(d, p)
  OBVIOUS
<1>2. /\ DirTrue(s, x) /\ x.begun
      /\ x.origin = (IF d.begun THEN d.origin ELSE p.at)
      /\ x.lo = (IF d.begun THEN d.lo ELSE p.at)
      /\ Frontier(d, p) <= x.hi
      /\ x.poisoned = d.poisoned /\ x.pending_since = d.pending_since
      /\ x.held \subseteq d.held \cup {p}
      /\ Covered(d.held \cup {p}, Frontier(d, p), x.hi)
      /\ x.orderly => d.orderly /\ p.at <= Frontier(d, p)
      /\ p.at <= Frontier(d, p) /\ d.held = {} =>
           /\ x.held = {}
           /\ x.hi = (IF p.at + p.len > Frontier(d, p) THEN p.at + p.len ELSE Frontier(d, p))
      /\ p.at > x.hi => ~x.orderly
  BY <1>1, PushIs
<1>3. d \in DirRecords /\ x \in DirRecords
  BY <1>2 DEF DirTrue
<1>4. CASE e \in Parsed(s, x)
  <2>1. DirTrue(s, e) /\ SameBytes(x, e)
    BY <1>2, <1>4, ParsedIs
  <2> QED
    BY <1>2, <2>1 DEF SameBytes, Grown
<1>5. CASE x.held # {} /\ p.at > x.hi /\ e \in Parsed(s, GiveUp(x))
  <2>1. PICK y : y = GiveUp(x)
    OBVIOUS
  <2>2. /\ DirTrue(s, y) /\ y.begun /\ y.poisoned
        /\ y.origin = x.origin /\ x.lo <= y.lo
        /\ y.pending_since = x.pending_since /\ y.orderly = x.orderly
    BY <1>2, <1>5, <2>1, GiveUpIs
  <2>3. DirTrue(s, e) /\ SameBytes(y, e)
    BY <1>5, <2>1, <2>2, ParsedIs
  <2>4. e.begun /\ e.poisoned /\ ~e.orderly
    BY <1>2, <1>5, <2>2, <2>3 DEF SameBytes
  <2>5. ~(p.at <= Frontier(d, p) /\ d.held = {})
    BY <1>2, <1>5
  <2>6. d.begun => d.lo <= e.lo
    <3>1. x.lo \in Nat /\ y.lo \in Nat /\ e.lo \in Nat
      BY <1>3, <2>2, <2>3 DEF DirTrue, DirRecords
    <3> QED
      BY <1>2, <2>2, <2>3, <3>1 DEF SameBytes
  <2>7. e.origin = (IF d.begun THEN d.origin ELSE p.at) /\ e.pending_since = d.pending_since
    BY <1>2, <2>2, <2>3 DEF SameBytes
  <2> QED
    BY <2>3, <2>4, <2>5, <2>6, <2>7 DEF Grown
<1> QED
  BY <1>1, <1>4, <1>5 DEF Feed

(* check_timeout, of one direction.                                        *)
LEMMA TickedIs ==
  ASSUME NEW s \in Sides, NEW d, DirTrue(s, d), NEW e \in Ticked(s, d)
  PROVE  /\ DirTrue(s, e)
         /\ e.pending_since = d.pending_since /\ e.orderly = d.orderly
         /\ e = d \/ (d.held # {} /\ e.poisoned)
<1>1. CASE e = d
  BY <1>1
<1>2. CASE d.held # {} /\ e \in Parsed(s, GiveUp(d))
  <2>1. PICK y : y = GiveUp(d)
    OBVIOUS
  <2>2. /\ DirTrue(s, y) /\ y.poisoned
        /\ y.pending_since = d.pending_since /\ y.orderly = d.orderly
    BY <1>2, <2>1, GiveUpIs
  <2>3. DirTrue(s, e) /\ SameBytes(y, e)
    BY <1>2, <2>1, <2>2, ParsedIs
  <2> QED
    BY <1>2, <2>2, <2>3 DEF SameBytes
<1> QED
  BY <1>1, <1>2 DEF Ticked

LEMMA CappedIs ==
  ASSUME NEW s \in Sides, NEW d, DirTrue(s, d), NEW e \in Capped(d)
  PROVE  DirTrue(s, e) /\ SameBytes(d, e) /\ e.lo = d.lo /\ e.poisoned = d.poisoned
<1>1. d \in DirRecords
  BY DEF DirTrue
<1>2. PICK x \in BOOLEAN : e = [d EXCEPT !.exact = x]
  <2>1. d = [d EXCEPT !.exact = d.exact] /\ d.exact \in BOOLEAN
    BY <1>1 DEF DirRecords
  <2> QED
    BY <2>1 DEF Capped
<1>3. e \in DirRecords
  BY <1>1, <1>2 DEF DirRecords
<1>4. /\ e.lo = d.lo /\ e.hi = d.hi /\ e.begun = d.begun /\ e.origin = d.origin /\ e.held = d.held
      /\ e.pending_since = d.pending_since /\ e.orderly = d.orderly /\ e.poisoned = d.poisoned
  BY <1>1, <1>2 DEF DirRecords
<1>5. DirTrue(s, e)
  BY <1>3, <1>4 DEF DirTrue
<1>6. d.lo \in Nat
  BY <1>1 DEF DirRecords
<1> QED
  BY <1>4, <1>5, <1>6 DEF SameBytes

-----------------------------------------------------------------------------
(* Segments.                                                               *)

(* The entry's clock for what is pending, and whether it came in order.    *)
Settled(d, e, t) ==
  /\ e.begun = d.begun /\ e.origin = d.origin /\ e.lo = d.lo /\ e.hi = d.hi
  /\ e.held = d.held /\ e.poisoned = d.poisoned
  /\ e.pending_since =
       IF d.lo = d.hi THEN Never ELSE IF d.pending_since = Never THEN t ELSE d.pending_since
  /\ e.orderly => d.orderly \/ (d.lo = d.hi /\ d.held = {})

(* A SYN tells where the stream of its sender starts.                      *)
Noted(d, e, n) ==
  /\ ~d.begun
  /\ e.begun /\ e.origin = n /\ e.lo = n /\ e.hi = n /\ e.held = {}
  /\ e.poisoned = d.poisoned /\ e.pending_since = d.pending_since /\ e.orderly = d.orderly

(* What a packet that bears the time t does to direction s of an entry.    *)
SegmentStep(s, d, e, p, t) ==
  \/ /\ p.from = s /\ p.len > 0
     /\ \E x : DirTrue(s, x) /\ Grown(d, x, p) /\ Settled(x, e, t)
  \/ p.from = s /\ p.kind \in {"SYN", "SYNACK"} /\ Noted(d, e, p.at + 1)
  \/ (p.from = s => p.len = 0) /\ SameBytes(d, e) /\ e.lo = d.lo /\ e.poisoned = d.poisoned

LEMMA SettledIs ==
  ASSUME NEW s \in Sides, NEW d, DirTrue(s, d), now' \in 0..MaxTime
  PROVE  DirTrue(s, AfterFeed(d)) /\ Settled(d, AfterFeed(d), now')
<1>1. d \in DirRecords
  BY DEF DirTrue
<1>2. PICK t : t = (IF d.lo = d.hi THEN Never
                    ELSE IF d.pending_since = Never THEN now' ELSE d.pending_since)
  OBVIOUS
<1>3. t \in Times
  BY <1>1, <1>2 DEF DirRecords, Times
<1>4. PICK o \in BOOLEAN : o = (d.orderly \/ (d.lo = d.hi /\ d.held = {}))
  OBVIOUS
<1> DEFINE e == [d EXCEPT !.pending_since = t, !.orderly = o]
<1>5. AfterFeed(d) = e
  BY <1>1, <1>2, <1>4 DEF AfterFeed, DirRecords
<1>6. e \in DirRecords
  BY <1>1, <1>3 DEF DirRecords
<1>7. /\ e.begun = d.begun /\ e.origin = d.origin /\ e.lo = d.lo /\ e.hi = d.hi
      /\ e.held = d.held /\ e.poisoned = d.poisoned /\ e.pending_since = t /\ e.orderly = o
  BY <1>1 DEF DirRecords
<1> HIDE DEF e
<1>8. DirTrue(s, e)
  BY <1>6, <1>7 DEF DirTrue
<1>9. Settled(d, e, now')
  BY <1>2, <1>4, <1>7 DEF Settled
<1> QED
  BY <1>5, <1>8, <1>9

LEMMA NotedIs ==
  ASSUME NEW l \in Lives, NEW p \in PacketsOf(l), p.kind \in {"SYN", "SYNACK"},
         NEW s \in Sides, NEW d, DirTrue(s, d)
  PROVE  LET e == NoteSyn(d, p.at)
         IN  DirTrue(s, e) /\ (e = d \/ Noted(d, e, p.at + 1))
<1>1. CASE d.begun
  BY <1>1 DEF NoteSyn
<1>2. CASE ~d.begun
  <2>1. p.at + 1 \in 0..LastByte
    BY PacketIs, LastByteIs
  <2>2. PICK n : n = p.at + 1
    OBVIOUS
  <2>3. PICK x : x = StartAt(d, n)
    OBVIOUS
  <2>4. /\ DirTrue(s, x)
        /\ x.begun /\ x.origin = n /\ x.lo = n /\ x.hi = n /\ x.held = {}
        /\ x.poisoned = d.poisoned /\ x.pending_since = d.pending_since
        /\ x.orderly = d.orderly
    BY <1>2, <2>1, <2>2, <2>3, StartAtIs
  <2>5. x \in DirRecords
    BY <2>4 DEF DirTrue
  <2> DEFINE e == [x EXCEPT !.saw_syn = TRUE]
  <2>6. NoteSyn(d, p.at) = e
    BY <1>2, <2>2, <2>3 DEF NoteSyn
  <2>7. e \in DirRecords
    BY <2>5 DEF DirRecords
  <2>8. /\ e.begun = x.begun /\ e.origin = x.origin /\ e.lo = x.lo /\ e.hi = x.hi
        /\ e.held = x.held /\ e.poisoned = x.poisoned /\ e.orderly = x.orderly
        /\ e.pending_since = x.pending_since
    BY <2>5 DEF DirRecords
  <2> HIDE DEF e
  <2>9. DirTrue(s, e)
    BY <2>4, <2>7, <2>8 DEF DirTrue
  <2>10. Noted(d, e, n)
    BY <1>2, <2>4, <2>8 DEF Noted
  <2> QED
    BY <2>2, <2>6, <2>9, <2>10
<1> QED
  BY <1>1, <1>2

(* Every part of on_segment for an entry that is there.                    *)
LEMMA TouchedIs ==
  ASSUME NEW l \in Lives, NEW p \in PacketsOf(l), now' \in 0..MaxTime, NEW b, EntryTrue(b)
  PROVE  LET c == Touched(b, p)
         IN  /\ EntryTrue(c) /\ c.client = b.client /\ c.from_syn = b.from_syn
             /\ \A s \in Sides :
                  \/ c.dir[s] = b.dir[s]
                  \/ /\ p.from = s /\ p.kind \in {"SYN", "SYNACK"}
                     /\ Noted(b.dir[s], c.dir[s], p.at + 1)
<1>1. b \in EntryRecords /\ \A s \in Sides : DirTrue(s, b.dir[s])
  BY DEF EntryTrue
<1>2. p.from \in Sides
  BY PacketIs
<1>3. PICK z : z = (IF p.kind \in {"FIN", "RST"} /\ b.closed = Never THEN now' ELSE b.closed)
  OBVIOUS
<1>4. z \in Times
  BY <1>1, <1>3 DEF EntryRecords, Times
<1>5. PICK d : d = (IF p.kind \in {"SYN", "SYNACK"} THEN NoteSyn(b.dir[p.from], p.at)
                    ELSE b.dir[p.from])
  OBVIOUS
<1>6. /\ DirTrue(p.from, d)
      /\ \/ d = b.dir[p.from]
         \/ p.kind \in {"SYN", "SYNACK"} /\ Noted(b.dir[p.from], d, p.at + 1)
  <2>1. CASE p.kind \in {"SYN", "SYNACK"}
    <3>1. d = NoteSyn(b.dir[p.from], p.at)
      BY <1>5, <2>1
    <3> QED
      BY <1>1, <1>2, <2>1, <3>1, NotedIs
  <2>2. CASE ~(p.kind \in {"SYN", "SYNACK"})
    BY <1>1, <1>2, <1>5, <2>2
  <2> QED
    BY <2>1, <2>2
<1>7. d \in DirRecords
  BY <1>6 DEF DirTrue
<1>8. PICK f : f = [b.dir EXCEPT ![p.from] = d]
  OBVIOUS
<1>9. /\ f \in [Sides -> DirRecords] /\ f[p.from] = d
      /\ \A s \in Sides : s # p.from => f[s] = b.dir[s]
  BY <1>1, <1>2, <1>7, <1>8 DEF EntryRecords
<1> DEFINE c == [b EXCEPT !.last_seen = now', !.closed = z, !.dir = f]
<1>10. Touched(b, p) = c
  BY <1>1, <1>3, <1>5, <1>8 DEF Touched, EntryRecords
<1>11. c \in EntryRecords
  BY <1>1, <1>4, <1>9 DEF EntryRecords
<1>12. c.client = b.client /\ c.from_syn = b.from_syn /\ c.dir = f
  BY <1>1 DEF EntryRecords
<1> HIDE DEF c
<1>13. \A s \in Sides : DirTrue(s, c.dir[s])
  BY <1>1, <1>6, <1>9, <1>12
<1> QED
  BY <1>6, <1>9, <1>10, <1>11, <1>12, <1>13 DEF EntryTrue

LEMMA FedIs ==
  ASSUME NEW l \in Lives, NEW p \in PacketsOf(l), now' \in 0..MaxTime, NEW b, EntryTrue(b),
         p.len > 0, NEW c \in Fed(b, p)
  PROVE  /\ EntryTrue(c) /\ c.client = b.client /\ c.from_syn = b.from_syn
         /\ \A s \in Sides : SegmentStep(s, b.dir[s], c.dir[s], p, now')
<1>1. b \in EntryRecords /\ \A s \in Sides : DirTrue(s, b.dir[s])
  BY DEF EntryTrue
<1>2. p.from \in Sides /\ Other(p.from) \in Sides /\ Other(p.from) # p.from /\ p \in Packets
  BY PacketIs, OtherIs
<1>3. \A s \in Sides : s = p.from \/ s = Other(p.from)
  BY <1>2 DEF Sides, Other
<1> DEFINE mine == b.dir[p.from]
           others == b.dir[Other(p.from)]
<1>4. PICK d \in Feed(p.from, mine, p) :
        \E o \in {others} \cup Capped(others) :
          c = [b EXCEPT !.dir = [s \in Sides |-> IF s = p.from THEN AfterFeed(d) ELSE o]]
  <2>1. ~(p.len = 0)
    BY PacketIs
  <2>2. PICK d \in Feed(p.from, mine, p) :
          c \in {[b EXCEPT !.dir = [s \in Sides |-> IF s = p.from THEN AfterFeed(d) ELSE o]] :
                   o \in (IF d.lo = mine.lo THEN {others} ELSE Capped(others))}
    BY <2>1 DEF Fed
  <2> QED
    BY <2>2
<1>5. PICK o \in {others} \cup Capped(others) :
        c = [b EXCEPT !.dir = [s \in Sides |-> IF s = p.from THEN AfterFeed(d) ELSE o]]
  BY <1>4
<1>6. DirTrue(p.from, d) /\ Grown(mine, d, p)
  BY <1>1, <1>2, FeedIs
<1>7. PICK e : e = AfterFeed(d)
  OBVIOUS
<1>8. DirTrue(p.from, e) /\ Settled(d, e, now')
  BY <1>2, <1>6, <1>7, SettledIs
<1>9. DirTrue(Other(p.from), o) /\ SameBytes(others, o) /\ o.lo = others.lo
      /\ o.poisoned = others.poisoned
  <2>1. DirTrue(Other(p.from), others)
    BY <1>1, <1>2
  <2>2. CASE o = others
    <3>1. others.lo \in Nat
      BY <2>1 DEF DirTrue, DirRecords
    <3> QED
      BY <2>1, <2>2, <3>1 DEF SameBytes
  <2>3. CASE o \in Capped(others)
    BY <1>2, <2>1, <2>3, CappedIs
  <2> QED
    BY <2>2, <2>3
<1>10. PICK f : f = [s \in Sides |-> IF s = p.from THEN e ELSE o]
  OBVIOUS
<1>11. /\ f \in [Sides -> DirRecords] /\ f[p.from] = e /\ f[Other(p.from)] = o
  <2>1. e \in DirRecords /\ o \in DirRecords
    BY <1>8, <1>9 DEF DirTrue
  <2> QED
    BY <1>2, <1>10, <2>1
<1>12. c = [b EXCEPT !.dir = f]
  BY <1>5, <1>7, <1>10
<1>13. c \in EntryRecords
  BY <1>1, <1>11, <1>12 DEF EntryRecords
<1>14. c.client = b.client /\ c.from_syn = b.from_syn /\ c.dir = f
  BY <1>1, <1>12 DEF EntryRecords
<1>15. \A s \in Sides : DirTrue(s, c.dir[s])
  BY <1>3, <1>8, <1>9, <1>11, <1>14
<1>16. SegmentStep(p.from, mine, c.dir[p.from], p, now')
  BY <1>6, <1>8, <1>11, <1>14 DEF SegmentStep
<1>17. SegmentStep(Other(p.from), others, c.dir[Other(p.from)], p, now')
  BY <1>2, <1>9, <1>11, <1>14 DEF SegmentStep
<1> QED
  BY <1>3, <1>13, <1>14, <1>15, <1>16, <1>17 DEF EntryTrue

LEMMA SegmentIs ==
  ASSUME NEW l \in Lives, NEW p \in PacketsOf(l), now' \in 0..MaxTime, NEW b, EntryTrue(b),
         NEW c \in Fed(Touched(b, p), p)
  PROVE  /\ EntryTrue(c) /\ c.client = b.client /\ c.from_syn = b.from_syn
         /\ \A s \in Sides : SegmentStep(s, b.dir[s], c.dir[s], p, now')
<1>1. PICK t : t = Touched(b, p)
  OBVIOUS
<1>2. /\ EntryTrue(t) /\ t.client = b.client /\ t.from_syn = b.from_syn
      /\ \A s \in Sides :
           \/ t.dir[s] = b.dir[s]
           \/ /\ p.from = s /\ p.kind \in {"SYN", "SYNACK"}
              /\ Noted(b.dir[s], t.dir[s], p.at + 1)
  BY <1>1, TouchedIs
<1>3. \A s \in Sides : SameBytes(b.dir[s], b.dir[s])
  <2> SUFFICES ASSUME NEW s \in Sides PROVE SameBytes(b.dir[s], b.dir[s])
    OBVIOUS
  <2>1. b.dir[s].lo \in Nat
    BY DEF EntryTrue, DirTrue, DirRecords
  <2> QED
    BY <2>1 DEF SameBytes
<1>4. CASE p.len = 0
  <2>1. c = t
    BY <1>1, <1>4 DEF Fed
  <2>2. \A s \in Sides : SegmentStep(s, b.dir[s], t.dir[s], p, now')
    BY <1>2, <1>3, <1>4 DEF SegmentStep
  <2> QED
    BY <1>2, <2>1, <2>2
<1>5. CASE p.len > 0
  <2>1. p.kind = "DATA"
    BY <1>5, PacketIs
  <2>2. \A s \in Sides : t.dir[s] = b.dir[s]
    BY <1>2, <2>1
  <2>3. /\ EntryTrue(c) /\ c.client = t.client /\ c.from_syn = t.from_syn
        /\ \A s \in Sides : SegmentStep(s, t.dir[s], c.dir[s], p, now')
    BY <1>1, <1>2, <1>5, FedIs
  <2> QED
    BY <1>2, <2>2, <2>3
<1>6. p.len \in Nat
  BY PacketIs
<1> QED
  BY <1>4, <1>5, <1>6

(* A new entry: nothing is known of its directions.                        *)
Blank(d) ==
  ~d.begun /\ d.held = {} /\ d.lo = 0 /\ d.hi = 0 /\ d.pending_since = Never /\ ~d.poisoned

LEMMA CreatedIs ==
  ASSUME NEW l \in Lives, NEW p \in PacketsOf(l), now' \in 0..MaxTime
  PROVE  LET c == Created(p)
         IN  /\ EntryTrue(c) /\ c.from_syn = Fresh(p)
             /\ c.from_syn \/ ServerPorts = {"server"} => c.client = "client"
             /\ \A s \in Sides : Blank(c.dir[s])
<1>1. PICK x \in BOOLEAN : x = Fresh(p)
  BY DEF Fresh
<1>2. PICK d : d = NewDir(x)
  OBVIOUS
<1>3. d \in DirRecords /\ Blank(d) /\ d.origin = 0
  BY <1>2 DEF NewDir, DirRecords, Times, Blank
<1>4. \A s \in Sides : DirTrue(s, d)
  BY <1>3, LastByteIs DEF DirTrue, Blank
<1>5. PICK w : w = ClientOf(p)
  OBVIOUS
<1>6. p.from \in Sides /\ Other(p.from) \in Sides
  BY PacketIs, OtherIs
<1>7. w \in Sides
  BY <1>5, <1>6 DEF ClientOf
<1>8. Fresh(p) => w = "client"
  BY <1>5, PacketIs DEF ClientOf, Fresh
<1>9. ServerPorts = {"server"} => w = "client"
  BY <1>5, <1>6, <1>8 DEF ClientOf, Sides, Other
<1>10. PICK f : f = [s \in Sides |-> d]
  OBVIOUS
<1>11. f \in [Sides -> DirRecords] /\ \A s \in Sides : f[s] = d
  BY <1>3, <1>10
<1>12. PICK c : c = [client |-> w, from_syn |-> x, last_seen |-> now', closed |-> Never, dir |-> f]
  OBVIOUS
<1>13. Created(p) = c
  BY <1>1, <1>2, <1>5, <1>10, <1>12 DEF Created
<1>14. c.client = w /\ c.from_syn = x /\ c.dir = f
  BY <1>12
<1>15. c \in EntryRecords
  BY <1>7, <1>11, <1>12 DEF EntryRecords, Times
<1>16. EntryTrue(c)
  BY <1>4, <1>11, <1>14, <1>15 DEF EntryTrue
<1>17. c.from_syn \/ ServerPorts = {"server"} => c.client = "client"
  BY <1>1, <1>8, <1>9, <1>14
<1>18. c.from_syn = Fresh(p)
  BY <1>1, <1>14
<1>19. \A s \in Sides : Blank(c.dir[s])
  BY <1>3, <1>11, <1>14
<1> QED
  BY <1>13, <1>16, <1>17, <1>18, <1>19

-----------------------------------------------------------------------------
(* The endpoints.                                                          *)

(* What a packet tells of the life it belongs to.                          *)
Sending(p) ==
  /\ life' \in Lives
  /\ p.kind = "SYN" => p.at + 1 = Isn[life']["client"] /\ (\A s \in Sides : sent'[s] = 0)
  /\ p.kind # "SYN" => life' = life
  /\ p.kind = "SYNACK" => /\ p.from = "server" /\ p.at + 1 = Isn[life]["server"]
                          /\ \A s \in Sides : sent[s] = 0
  /\ p.kind \notin {"SYN", "DATA"} => sent' = sent
  /\ p.kind = "DATA" =>
       /\ p.len > 0 /\ p.at <= Isn[life][p.from] + sent[p.from]
       /\ sent[p.from] = 0 => p.at = Isn[life][p.from]
       /\ Isn[life][p.from] + sent'[p.from]
            = IF p.at + p.len > Isn[life][p.from] + sent[p.from]
              THEN p.at + p.len ELSE Isn[life][p.from] + sent[p.from]
       /\ \A s \in Sides : s # p.from => sent'[s] = sent[s]

LEMMA SendDataIs ==
  ASSUME PeersTrue, NEW p, SendData(p)
  PROVE  PeersTrue' /\ Sending(p)
<1>1. /\ phase = "open" /\ life \in Lives /\ life' = life /\ phase' = phase /\ ended' = ended
      /\ sent \in [Sides -> Nat]
  BY DEF SendData, PeersTrue
<1>2. PICK s \in Sides \ ended :
        \/ \E n \in (sent[s] + 1)..StreamLen[life][s] :
             p = Data(life, s, sent[s], n) /\ sent' = [sent EXCEPT ![s] = n]
        \/ \E m \in 0..(sent[s] - 1) : p = Data(life, s, m, m + 1) /\ sent' = sent
  BY DEF SendData
<1>3. PICK i \in Nat, k \in Nat, g \in Nat : i = Isn[life][s] /\ k = sent[s] /\ g = StreamLen[life][s]
  BY <1>1, <1>2, TrackerAssumption
<1>4. CASE \E n \in (sent[s] + 1)..StreamLen[life][s] :
             p = Data(life, s, sent[s], n) /\ sent' = [sent EXCEPT ![s] = n]
  <2>1. PICK n \in (k + 1)..g : p = Data(life, s, k, n) /\ sent' = [sent EXCEPT ![s] = n]
    BY <1>3, <1>4
  <2>2. n \in Nat /\ k < n /\ n <= g
    BY <1>3, <2>1
  <2>3. p.from = s /\ p.kind = "DATA" /\ p.at = i + k /\ p.len = n - k
    BY <1>3, <2>1 DEF Data, Packet
  <2>4. /\ sent' \in [Sides -> Nat] /\ sent'[s] = n
        /\ \A t \in Sides : t # s => sent'[t] = sent[t]
    BY <1>1, <2>1, <2>2
  <2>5. PeersTrue'
    BY <1>1, <1>3, <2>2, <2>4 DEF PeersTrue
  <2>6. p.at + p.len = i + n /\ i + n > i + k
    BY <1>3, <2>2, <2>3
  <2>7. Sending(p)
    BY <1>1, <1>3, <2>2, <2>3, <2>4, <2>6 DEF Sending
  <2> QED
    BY <2>5, <2>7
<1>5. CASE \E m \in 0..(sent[s] - 1) : p = Data(life, s, m, m + 1) /\ sent' = sent
  <2>1. PICK m \in 0..(k - 1) : p = Data(life, s, m, m + 1) /\ sent' = sent
    BY <1>3, <1>5
  <2>2. m \in Nat /\ m + 1 <= k
    BY <1>3, <2>1
  <2>3. p.from = s /\ p.kind = "DATA" /\ p.at = i + m /\ p.len = 1
    BY <1>3, <2>1, <2>2 DEF Data, Packet
  <2>4. PeersTrue'
    BY <1>1, <2>1 DEF PeersTrue
  <2>5. Sending(p)
    BY <1>1, <1>3, <2>1, <2>2, <2>3 DEF Sending
  <2> QED
    BY <2>4, <2>5
<1> QED
  BY <1>2, <1>4, <1>5

LEMMA SendIs ==
  ASSUME PeersTrue, NEW l \in Lives \cap {life, life + 1}, NEW p \in PacketsOf(l), Send(p)
  PROVE  PeersTrue' /\ Sending(p)
<1>1. sent \in [Sides -> Nat] /\ (phase # "closed" => life \in Lives)
  BY DEF PeersTrue
<1>2. \A j \in Lives : Isn[j]["client"] \in Nat \ {0} /\ Isn[j]["server"] \in Nat \ {0}
  BY TrackerAssumption DEF Sides
<1>3. CASE phase = "closed" /\ Connect(p)
  <2>1. /\ life' \in Lives /\ p = Syn(life') /\ phase' = "syn" /\ ended' = {}
        /\ sent' = [s \in Sides |-> 0]
    BY <1>3 DEF Connect
  <2>2. p.kind = "SYN" /\ p.at = Isn[life']["client"] - 1
    BY <2>1 DEF Syn, Packet
  <2>3. \A s \in Sides : sent'[s] = 0
    BY <2>1
  <2>4. PeersTrue'
    BY <2>1, <2>3 DEF PeersTrue
  <2>5. p.at + 1 = Isn[life']["client"]
    BY <1>2, <2>1, <2>2
  <2> QED
    BY <2>1, <2>2, <2>3, <2>4, <2>5 DEF Sending
<1>4. CASE phase = "syn" /\ Connect(p)
  <2>1. /\ life \in Lives /\ p \in {Syn(life), SynAck(life)}
        /\ life' = life /\ phase' = phase /\ sent' = sent /\ ended' = ended
    BY <1>1, <1>4 DEF Connect, world
  <2>2. \A s \in Sides : sent[s] = 0
    BY <1>4 DEF PeersTrue
  <2>3. PeersTrue'
    BY <2>1 DEF PeersTrue
  <2>4. CASE p = Syn(life)
    <3>1. p.kind = "SYN" /\ p.at + 1 = Isn[life]["client"]
      BY <1>2, <2>1, <2>4 DEF Syn, Packet
    <3> QED
      BY <2>1, <2>2, <2>3, <3>1 DEF Sending
  <2>5. CASE p = SynAck(life)
    <3>1. p.kind = "SYNACK" /\ p.at + 1 = Isn[life]["server"] /\ p.from = "server"
      BY <1>2, <2>1, <2>5 DEF SynAck, Packet
    <3> QED
      BY <2>1, <2>2, <2>3, <3>1 DEF Sending
  <2> QED
    BY <2>1, <2>4, <2>5
<1>5. CASE Establish(p)
  <2>1. /\ life \in Lives /\ life' = life /\ sent' = sent /\ ended' = ended /\ phase' = "open"
        /\ p.kind = "ACK"
    BY <1>1, <1>5 DEF Establish, Sign, Packet
  <2>2. PeersTrue'
    BY <2>1 DEF PeersTrue
  <2> QED
    BY <2>1, <2>2 DEF Sending
<1>6. CASE SendData(p)
  BY <1>6, SendDataIs
<1>7. CASE Close(p)
  <2>1. /\ life \in Lives /\ life' = life /\ sent' = sent
        /\ p.kind \in {"FIN", "RST"} /\ ended' \subseteq Sides /\ phase' \in {"closed", "open"}
    BY <1>1, <1>7 DEF Close, Sign, Packet, PeersTrue
  <2>2. PeersTrue'
    BY <2>1 DEF PeersTrue
  <2> QED
    BY <2>1, <2>2 DEF Sending
<1> QED
  BY <1>3, <1>4, <1>5, <1>6, <1>7 DEF Send, Connect

-----------------------------------------------------------------------------
(* Whole connections.                                                      *)

LEMMA DirWholeStep ==
  ASSUME PeersTrue, PeersTrue', NEW l \in Lives, NEW p \in PacketsOf(l), Sending(p),
         NEW s \in Sides, NEW d, DirTrue(s, d), NEW e, NEW t, SegmentStep(s, d, e, p, t),
         IF Fresh(p) THEN Blank(d) ELSE DirWhole(s, d)
  PROVE  DirWhole(s, e)'
<1>1. PICK i \in Nat, k \in Nat : i = Isn[life'][s] /\ k = sent[s]
  <2>1. life' \in Lives
    BY DEF Sending
  <2> QED
    BY <2>1, TrackerAssumption DEF PeersTrue
<1>2. PICK m \in Nat : m = sent'[s]
  BY DEF PeersTrue
<1>3. p.len \in Nat /\ p.at \in Nat /\ (p.kind # "DATA" => p.len = 0)
  BY PacketIs
<1>4. SUFFICES IF e.begun THEN e.origin = i /\ e.hi = i + m /\ e.held = {} ELSE m = 0
  BY <1>1, <1>2 DEF DirWhole
<1>5. d.hi \in Nat /\ (~d.begun => d.held = {})
  BY DEF DirTrue, DirRecords
<1>6. CASE p.kind = "SYN"
  <2>1. m = 0 /\ i = (IF s = "client" THEN p.at + 1 ELSE i) /\ p.len = 0 /\ p.from = "client"
    BY <1>1, <1>2, <1>3, <1>6, PacketIs DEF Sending
  <2>2. ~d.begun
    BY <1>6 DEF Fresh, Blank
  <2>3. CASE p.from = s /\ Noted(d, e, p.at + 1)
    BY <2>1, <2>3 DEF Noted
  <2>4. CASE SameBytes(d, e)
    BY <2>1, <2>2, <2>4 DEF SameBytes
  <2> QED
    BY <2>1, <2>3, <2>4 DEF SegmentStep
<1>7. CASE p.kind # "SYN"
  <2>1. /\ life' = life
        /\ IF d.begun THEN d.origin = i /\ d.hi = i + k /\ d.held = {} ELSE k = 0
    BY <1>1, <1>7 DEF Fresh, DirWhole, Sending
  <2>2. CASE p.len > 0 /\ p.from = s
    <3>1. /\ p.at <= i + k
          /\ k = 0 => p.at = i
          /\ i + m = IF p.at + p.len > i + k THEN p.at + p.len ELSE i + k
      BY <1>1, <1>2, <1>3, <2>1, <2>2 DEF Sending
    <3>2. p.kind = "DATA"
      BY <1>3, <2>2
    <3>3. PICK x : Grown(d, x, p) /\ Settled(x, e, t)
      BY <2>2, <3>2 DEF SegmentStep
    <3>4. d.held = {}
      BY <1>5, <2>1
    <3>5. CASE d.begun
      <4>1. Frontier(d, p) = i + k
        BY <2>1, <3>5 DEF Frontier
      <4>2. x.begun /\ x.origin = i /\ x.hi = i + m /\ x.held = {}
        BY <2>1, <3>1, <3>3, <3>4, <3>5, <4>1 DEF Grown
      <4> QED
        BY <3>3, <4>2 DEF Settled
    <3>6. CASE ~d.begun
      <4>1. Frontier(d, p) = p.at /\ k = 0 /\ p.at = i
        BY <2>1, <3>1, <3>6 DEF Frontier
      <4>2. x.begun /\ x.origin = i /\ x.held = {}
        BY <1>3, <3>3, <3>4, <3>6, <4>1 DEF Grown
      <4>3. x.hi = i + m
        BY <1>3, <2>2, <3>1, <3>3, <3>4, <4>1 DEF Grown
      <4> QED
        BY <3>3, <4>2, <4>3 DEF Settled
    <3> QED
      BY <3>5, <3>6
  <2>3. CASE ~(p.len > 0 /\ p.from = s)
    <3>1. m = k
      <4>1. CASE p.kind = "DATA"
        <5>1. p.from # s
          BY <2>3, <4>1 DEF Sending
        <5> QED
          BY <1>1, <1>2, <4>1, <5>1 DEF Sending
      <4>2. CASE p.kind # "DATA"
        BY <1>1, <1>2, <1>7, <4>2 DEF Sending
      <4> QED
        BY <4>1, <4>2
    <3>2. CASE p.from = s /\ p.kind \in {"SYN", "SYNACK"} /\ Noted(d, e, p.at + 1)
      <4>1. p.kind = "SYNACK"
        BY <1>7, <3>2
      <4>2. i = p.at + 1 /\ k = 0
        BY <1>1, <2>1, <3>2, <4>1 DEF Sending
      <4> QED
        BY <3>1, <3>2, <4>2 DEF Noted
    <3>3. CASE SameBytes(d, e)
      BY <2>1, <3>1, <3>3 DEF SameBytes
    <3> QED
      BY <2>3, <3>2, <3>3 DEF SegmentStep
  <2> QED
    BY <2>2, <2>3
<1> QED
  BY <1>6, <1>7

LEMMA EntryIs ==
  ASSUME TInv, NEW l \in Lives, NEW p \in PacketsOf(l), now' \in 0..MaxTime
  PROVE  LET b == Entry(p)
         IN  /\ EntryTrue(b)
             /\ b.from_syn \/ ServerPorts = {"server"} => b.client = "client"
             /\ IF Fresh(p) \/ conns = {} THEN \A s \in Sides : Blank(b.dir[s])
                ELSE b \in conns
<1>1. CASE Fresh(p) \/ conns = {}
  <2>1. Entry(p) = Created(p)
    BY <1>1 DEF Entry
  <2> QED
    BY <1>1, <2>1, CreatedIs
<1>2. CASE ~(Fresh(p) \/ conns = {})
  <2>1. Entry(p) \in conns
    BY <1>2 DEF Entry
  <2> QED
    BY <1>2, <2>1 DEF TInv, RolesTrue
<1> QED
  BY <1>1, <1>2

LEMMA OnSegmentKeeps ==
  ASSUME TInv, NEW l \in Lives, NEW p \in PacketsOf(l), PeersTrue', Sending(p), OnSegment(p)
  PROVE  TInv'
<1>1. PeersTrue /\ now \in 0..MaxTime /\ whole \in BOOLEAN
  BY DEF TInv
<1>2. now' \in 0..MaxTime
  BY <1>1, TrackerAssumption DEF OnSegment, Later
<1>3. CASE conns = {} /\ UNCHANGED conns /\ whole' = FALSE
  BY <1>2, <1>3 DEF TInv, WholeTrue, RolesTrue
<1>4. CASE \E c \in Fed(Touched(Entry(p), p), p) :
             conns' = {c} /\ whole' = (Fresh(p) \/ (whole /\ conns # {}))
  <2>1. PICK b : b = Entry(p)
    OBVIOUS
  <2>2. /\ EntryTrue(b)
        /\ b.from_syn \/ ServerPorts = {"server"} => b.client = "client"
        /\ IF Fresh(p) \/ conns = {} THEN \A s \in Sides : Blank(b.dir[s]) ELSE b \in conns
    BY <1>2, <2>1, EntryIs
  <2>3. PICK c \in Fed(Touched(b, p), p) :
          conns' = {c} /\ whole' = (Fresh(p) \/ (whole /\ conns # {}))
    BY <1>4, <2>1
  <2>4. /\ EntryTrue(c) /\ c.client = b.client /\ c.from_syn = b.from_syn
        /\ \A s \in Sides : SegmentStep(s, b.dir[s], c.dir[s], p, now')
    BY <1>2, <2>2, <2>3, SegmentIs
  <2>5. RolesTrue'
    BY <2>2, <2>3, <2>4 DEF RolesTrue
  <2>6. WholeTrue'
    <3> SUFFICES ASSUME whole'
                 PROVE  c.client = "client" /\ \A s \in Sides : DirWhole(s, c.dir[s])'
      BY <2>3 DEF WholeTrue
    <3>1. Fresh(p) \/ (whole /\ conns # {})
      BY <2>3
    <3>2. c.client = "client"
      <4>1. CASE Fresh(p)
        <5>1. b.from_syn
          BY <2>1, <4>1, <1>2, CreatedIs DEF Entry
        <5> QED
          BY <2>2, <2>4, <5>1
      <4>2. CASE ~Fresh(p)
        BY <2>2, <2>4, <3>1, <4>2 DEF TInv, WholeTrue
      <4> QED
        BY <4>1, <4>2
    <3>3. ASSUME NEW s \in Sides PROVE DirWhole(s, c.dir[s])'
      <4>1. IF Fresh(p) THEN Blank(b.dir[s]) ELSE DirWhole(s, b.dir[s])
        BY <2>2, <3>1 DEF TInv, WholeTrue
      <4>2. DirTrue(s, b.dir[s])
        BY <2>2 DEF EntryTrue
      <4> DEFINE d == b.dir[s]
                 e == c.dir[s]
      <4>3. SegmentStep(s, d, e, p, now')
        BY <2>4
      <4> HIDE DEF d, e
      <4> QED
        BY <1>1, <4>1, <4>2, <4>3, DirWholeStep DEF d, e
    <3> QED
      BY <3>2, <3>3
  <2>7. whole' \in BOOLEAN
    BY <1>1, <2>3 DEF Fresh
  <2> QED
    BY <1>2, <2>3, <2>4, <2>5, <2>6, <2>7 DEF TInv
<1> QED
  BY <1>3, <1>4 DEF OnSegment

DirTicked(d, e) ==
  \/ e = d
  \/ /\ d.held # {} /\ e.poisoned
     /\ e.pending_since = d.pending_since /\ e.orderly = d.orderly

LEMMA TickIs ==
  ASSUME TInv, Tick
  PROVE  /\ \A x, y \in conns' : x = y
         /\ \A x \in conns' :
              /\ EntryTrue(x)
              /\ \E c \in conns : /\ x.client = c.client /\ x.from_syn = c.from_syn
                                 /\ \A s \in Sides : DirTicked(c.dir[s], x.dir[s])
<1>1. CASE conns = {} /\ UNCHANGED conns
  BY <1>1
<1>2. CASE \E c \in conns :
           \E d \in Ticked("client", c.dir["client"]), e \in Ticked("server", c.dir["server"]) :
             conns' = {x \in {[c EXCEPT !.dir = [s \in Sides |-> IF s = "client" THEN d ELSE e]]} :
                         Retained(x)}
  <2>1. PICK c \in conns :
          \E d \in Ticked("client", c.dir["client"]), e \in Ticked("server", c.dir["server"]) :
            conns' = {x \in {[c EXCEPT !.dir = [s \in Sides |-> IF s = "client" THEN d ELSE e]]} :
                        Retained(x)}
    BY <1>2
  <2>2. PICK d \in Ticked("client", c.dir["client"]), e \in Ticked("server", c.dir["server"]) :
          conns' = {x \in {[c EXCEPT !.dir = [s \in Sides |-> IF s = "client" THEN d ELSE e]]} :
                      Retained(x)}
    BY <2>1
  <2>3. PICK f : f = [s \in Sides |-> IF s = "client" THEN d ELSE e]
    OBVIOUS
  <2>4. PICK x : x = [c EXCEPT !.dir = f]
    OBVIOUS
  <2>5. conns' \subseteq {x}
    BY <2>2, <2>3, <2>4
  <2>6. c \in EntryRecords /\ \A s \in Sides : DirTrue(s, c.dir[s])
    BY DEF TInv, EntryTrue
  <2>7. /\ DirTrue("client", d) /\ DirTicked(c.dir["client"], d)
        /\ DirTrue("server", e) /\ DirTicked(c.dir["server"], e)
    BY <2>6, TickedIs DEF Sides, DirTicked
  <2>8. f \in [Sides -> DirRecords] /\ f["client"] = d /\ f["server"] = e
    BY <2>3, <2>7 DEF DirTrue, Sides
  <2>9. x \in EntryRecords
    BY <2>4, <2>6, <2>8 DEF EntryRecords
  <2>10. x.client = c.client /\ x.from_syn = c.from_syn /\ x.dir = f
    BY <2>4, <2>6 DEF EntryRecords
  <2>11. EntryTrue(x)
    BY <2>7, <2>8, <2>9, <2>10 DEF EntryTrue, Sides
  <2>12. \A s \in Sides : DirTicked(c.dir[s], x.dir[s])
    BY <2>7, <2>8, <2>10 DEF Sides
  <2> QED
    BY <2>5, <2>10, <2>11, <2>12
<1> QED
  BY <1>1, <1>2 DEF Tick

LEMMA TickKeeps ==
  ASSUME TInv, Tick
  PROVE  TInv'
<1>1. /\ now' \in 0..MaxTime /\ PeersTrue' /\ life' = life /\ sent' = sent
      /\ whole' = (whole /\ conns' # {})
  BY TrackerAssumption DEF TInv, Tick, world, PeersTrue
<1>2. (\A x, y \in conns' : x = y) /\ (\A x \in conns' : EntryTrue(x))
  BY TickIs
<1>3. \A x \in conns' :
        \E c \in conns : /\ x.client = c.client /\ x.from_syn = c.from_syn
                        /\ \A s \in Sides : DirTicked(c.dir[s], x.dir[s])
  BY TickIs
<1>4. RolesTrue'
  BY <1>3 DEF RolesTrue, TInv
<1>5. WholeTrue'
  <2> SUFFICES ASSUME whole', NEW x \in conns'
               PROVE  x.client = "client" /\ \A s \in Sides : DirWhole(s, x.dir[s])'
    BY <1>1 DEF WholeTrue
  <2>1. PICK c \in conns : /\ x.client = c.client
                          /\ \A s \in Sides : DirTicked(c.dir[s], x.dir[s])
    BY <1>3
  <2>2. c.client = "client" /\ \A s \in Sides : DirWhole(s, c.dir[s])
    BY <1>1 DEF TInv, WholeTrue
  <2>3. \A s \in Sides : c.dir[s].held = {}
    BY <2>2 DEF TInv, EntryTrue, DirWhole, DirTrue
  <2>4. \A s \in Sides : x.dir[s] = c.dir[s]
    BY <2>1, <2>3 DEF DirTicked
  <2> QED
    BY <1>1, <2>1, <2>2, <2>4 DEF DirWhole
<1>6. whole' \in BOOLEAN
  BY <1>1 DEF TInv
<1> QED
  BY <1>1, <1>2, <1>4, <1>5, <1>6 DEF TInv

LEMMA StutterKeeps ==
  ASSUME TInv, UNCHANGED vars
  PROVE  TInv'
BY DEF TInv, vars, world, PeersTrue, RolesTrue, WholeTrue, DirWhole

LEMMA MissedKeeps ==
  ASSUME TInv, PeersTrue', Missed
  PROVE  TInv'
BY DEF TInv, Missed, RolesTrue, WholeTrue

LEMMA TStart == Init => TInv
<1> SUFFICES ASSUME Init PROVE TInv
  OBVIOUS
<1>1. 0 \in 0..MaxTime
  BY TrackerAssumption
<1> QED
  BY <1>1 DEF Init, TInv, PeersTrue, RolesTrue, WholeTrue

(* A step of the capture thread is a step of the connection table, or      *)
(* leaves it alone.                                                        *)
LEMMA CaptureStep ==
  ASSUME CaptureNext
  PROVE  Next \/ UNCHANGED vars
<1>1. CASE \E l \in Lives \cap {life, life + 1} : \E p \in PacketsOf(l) : Send(p) /\ Pass(p)
  BY <1>1 DEF Next, Pass, Arrive
<1>2. CASE Tick /\ UNCHANGED <<ring, session>>
  BY <1>2 DEF Next
<1>3. CASE Start \/ Stop
  BY <1>3 DEF Start, Stop, vars, world
<1> QED
  BY <1>1, <1>2, <1>3 DEF CaptureNext

LEMMA TKept ==
  TInv /\ [Next]_vars => TInv'
<1> SUFFICES ASSUME TInv, [Next]_vars PROVE TInv'
  OBVIOUS
<1>1. CASE \E l \in Lives \cap {life, life + 1} : \E p \in PacketsOf(l) :
             Send(p) /\ (OnSegment(p) \/ Missed)
  <2>1. PICK l \in Lives \cap {life, life + 1} :
          \E p \in PacketsOf(l) : Send(p) /\ (OnSegment(p) \/ Missed)
    BY <1>1
  <2>3. PICK p \in PacketsOf(l) : Send(p) /\ (OnSegment(p) \/ Missed)
    BY <2>1
  <2>2. PeersTrue' /\ Sending(p)
    BY <2>3, SendIs DEF TInv
  <2> QED
    BY <2>2, <2>3, OnSegmentKeeps, MissedKeeps
<1>2. CASE Tick
  BY <1>2, TickKeeps
<1>3. CASE UNCHANGED vars
  BY <1>3, StutterKeeps
<1> QED
  BY <1>1, <1>2, <1>3 DEF Next

(* The capture thread does to the connection table what Tracker allows:    *)
(* whatever is captured, whenever it starts and stops, no command and no   *)
(* eviction from the ring has a say in how connections are followed.       *)
THEOREM TrackerRefined == CaptureSpec => Spec
<1>1. CaptureInit => Init
  BY DEF CaptureInit
<1>2. [CaptureNext]_captureVars => [Next]_vars
  BY CaptureStep DEF captureVars, vars, world
<1> QED
  BY <1>1, <1>2, PTL DEF CaptureSpec, Spec

THEOREM TrackerInductive == Spec => []TInv
BY TStart, TKept, PTL DEF Spec

(* Whoever's packet was seen first, in whichever life of the 4-tuple and   *)
(* whatever was missed, the client is the one that opened the connection   *)
(* (tracker.rs:129-139).                                                   *)
THEOREM RolesTrueTheorem == CaptureSpec => []RolesTrue
<1>1. TInv => RolesTrue
  BY DEF TInv
<1> QED
  BY <1>1, TrackerRefined, TrackerInductive, PTL

(* An entry made on the SYN of this life that has missed no packet since   *)
(* has each direction from its first byte to the last one sent             *)
(* (on_segment and tick of tracker.rs).                                    *)
THEOREM TrackedWholeTheorem == CaptureSpec => []TrackedWhole
<1>1. TInv => TrackedWhole
  <2> SUFFICES ASSUME TInv, whole
               PROVE  \E c \in conns :
                        /\ c.client = "client"
                        /\ \A s \in Sides :
                             LET d == c.dir[s]
                             IN  /\ sent[s] > 0 => d.begun
                                 /\ d.begun => /\ d.origin = Isn[life][s]
                                               /\ d.hi = Isn[life][s] + sent[s]
                                               /\ d.held = {}
    BY DEF TrackedWhole
  <2>1. PICK c \in conns : c.client = "client" /\ \A s \in Sides : DirWhole(s, c.dir[s])
    BY DEF TInv, WholeTrue
  <2> QED
    BY <2>1 DEF DirWhole
<1> QED
  BY <1>1, TrackerRefined, TrackerInductive, PTL

-----------------------------------------------------------------------------
(* The ring.                                                               *)

RingItems == [ts : 0..MaxTime, packet : Packets]

LEMMA WeightOfNothing == Weight(<<>>) = 0
<1>1. DOMAIN <<>> = {}
  OBVIOUS
<1> QED
  BY <1>1 DEF Weight, FoldLeft, MapThenFoldSet

(* What is left of a ring is its end.                                      *)
LEMMA FromIs ==
  ASSUME NEW X, NEW r \in Seq(X), NEW k \in 1..(Len(r) + 1)
  PROVE  /\ From(r, k) \in Seq(X) /\ Len(From(r, k)) = Len(r) + 1 - k
         /\ \A i \in 1..(Len(r) + 1 - k) : From(r, k)[i] = r[k + i - 1]
BY DEF From

LEMMA FromFrom ==
  ASSUME NEW X, NEW r \in Seq(X), NEW k \in 1..(Len(r) + 1), NEW j \in 1..(Len(From(r, k)) + 1)
  PROVE  From(From(r, k), j) = From(r, k + j - 1) /\ k + j - 1 \in 1..(Len(r) + 1)
BY FromIs DEF From

LEMMA DropOldIs ==
  ASSUME NEW r \in Seq(RingItems), NEW cutoff
  PROVE  \E k \in 1..(Len(r) + 1) : DropOld(r, cutoff) = From(r, k)
<1> DEFINE T == {k \in 1..(Len(r) + 1) : k \in DOMAIN r => r[k].ts >= cutoff}
<1>1. Len(r) + 1 \in T
  OBVIOUS
<1>2. T \in SUBSET Nat
  OBVIOUS
<1>3. Min(T) \in T
  <2> HIDE DEF T
  <2> QED
    BY <1>1, <1>2, MinIs
<1>4. DropOld(r, cutoff) = From(r, Min(T))
  BY DEF DropOld
<1> QED
  BY <1>3, <1>4

LEMMA DropHeavyIs ==
  ASSUME NEW r \in Seq(RingItems)
  PROVE  /\ Weight(DropHeavy(r)) <= RingBytes
         /\ \E k \in 1..(Len(r) + 1) : DropHeavy(r) = From(r, k)
<1> DEFINE T == {k \in 1..(Len(r) + 1) : Weight(From(r, k)) <= RingBytes}
<1>1. From(r, Len(r) + 1) = <<>>
  BY DEF From
<1>2. Weight(From(r, Len(r) + 1)) <= RingBytes
  BY <1>1, WeightOfNothing, CaptureAssumption
<1>3. Len(r) + 1 \in T
  BY <1>2
<1>4. T \in SUBSET Nat
  OBVIOUS
<1>5. Min(T) \in T
  <2> HIDE DEF T
  <2> QED
    BY <1>3, <1>4, MinIs
<1>6. DropHeavy(r) = From(r, Min(T))
  BY DEF DropHeavy
<1> QED
  BY <1>5, <1>6

LEMMA RingPushIs ==
  ASSUME NEW r \in Seq(RingItems), NEW t \in 0..MaxTime, NEW p \in Packets
  PROVE  /\ Weight(RingPush(r, t, p)) <= RingBytes
         /\ \E k \in 1..(Len(r) + 2) :
              RingPush(r, t, p) = From(Append(r, [ts |-> t, packet |-> p]), k)
<1>1. PICK a : a = Append(r, [ts |-> t, packet |-> p])
  OBVIOUS
<1>2. a \in Seq(RingItems) /\ Len(a) = Len(r) + 1
  BY <1>1 DEF RingItems
<1>3. PICK j \in 1..(Len(a) + 1) : DropOld(a, t - RingAge) = From(a, j)
  BY <1>2, DropOldIs
<1>4. From(a, j) \in Seq(RingItems)
  BY <1>2, FromIs
<1>5. RingPush(r, t, p) = DropHeavy(From(a, j))
  BY <1>1, <1>3 DEF RingPush
<1>6. /\ Weight(DropHeavy(From(a, j))) <= RingBytes
      /\ \E k \in 1..(Len(From(a, j)) + 1) : DropHeavy(From(a, j)) = From(From(a, j), k)
  BY <1>4, DropHeavyIs
<1>7. PICK k \in 1..(Len(From(a, j)) + 1) : DropHeavy(From(a, j)) = From(From(a, j), k)
  BY <1>6
<1>8. From(From(a, j), k) = From(a, j + k - 1) /\ j + k - 1 \in 1..(Len(a) + 1)
  BY <1>2, FromFrom
<1> QED
  BY <1>1, <1>2, <1>5, <1>6, <1>7, <1>8

LEMMA RStart == CaptureInit => RingTrue
BY WeightOfNothing, CaptureAssumption DEF CaptureInit, RingTrue

LEMMA RKept == TInv /\ TInv' /\ RingTrue /\ [CaptureNext]_captureVars => RingTrue'
<1> SUFFICES ASSUME TInv, TInv', RingTrue, [CaptureNext]_captureVars PROVE RingTrue'
  OBVIOUS
<1>1. CASE \E l \in Lives \cap {life, life + 1} : \E p \in PacketsOf(l) : Send(p) /\ Pass(p)
  <2>1. PICK l \in Lives : \E p \in PacketsOf(l) : Send(p) /\ Pass(p)
    BY <1>1
  <2>2. PICK p \in PacketsOf(l) : Pass(p)
    BY <2>1
  <2>3. CASE Arrive(p)
    <3>1. now' \in 0..MaxTime
      BY DEF TInv
    <3>2. PICK t \in 0..MaxTime : t = now'
      BY <3>1
    <3>3. p \in Packets
      BY PacketIs
    <3>4. PICK r : r = ring
      OBVIOUS
    <3>5. r \in Seq(RingItems)
      BY <3>4 DEF RingTrue, RingItems
    <3>6. ring' = RingPush(r, t, p)
      BY <2>3, <3>2, <3>4 DEF Arrive
    <3>7. Weight(ring') <= RingBytes
      BY <3>3, <3>5, <3>6, RingPushIs
    <3>8. PICK k \in 1..(Len(r) + 2) : ring' = From(Append(r, [ts |-> t, packet |-> p]), k)
      BY <3>3, <3>5, <3>6, RingPushIs
    <3>9. ring' \in Seq(RingItems)
      <4>1. [ts |-> t, packet |-> p] \in RingItems
        BY <3>3 DEF RingItems
      <4>2. /\ Append(r, [ts |-> t, packet |-> p]) \in Seq(RingItems)
            /\ Len(Append(r, [ts |-> t, packet |-> p])) = Len(r) + 1
        BY <3>5, <4>1
      <4>3. PICK a : a = Append(r, [ts |-> t, packet |-> p])
        OBVIOUS
      <4>4. a \in Seq(RingItems) /\ Len(a) = Len(r) + 1
        BY <4>2, <4>3
      <4>5. k \in 1..(Len(a) + 1)
        BY <3>5, <4>4
      <4>6. From(a, k) \in Seq(RingItems)
        BY <4>4, <4>5, FromIs
      <4> QED
        BY <3>8, <4>3, <4>6
    <3>10. \A e, f \in session' : e = f
      BY <2>3 DEF Arrive, RingTrue
    <3> QED
      BY <3>7, <3>9, <3>10 DEF RingTrue, RingItems
  <2>4. CASE UNCHANGED <<ring, session>>
    BY <2>4 DEF RingTrue
  <2> QED
    BY <2>2, <2>3, <2>4 DEF Pass
<1>2. CASE UNCHANGED <<ring, session>>
  BY <1>2 DEF RingTrue
<1>3. CASE Start \/ Stop
  BY <1>3 DEF Start, Stop, RingTrue
<1> QED
  BY <1>1, <1>2, <1>3 DEF CaptureNext, captureVars

LEMMA TypesFollow == TInv /\ RingTrue => CaptureTypeOK
<1> SUFFICES ASSUME TInv, RingTrue PROVE CaptureTypeOK
  OBVIOUS
<1>1. \A s \in Sides : sent[s] <= Longest
  <2> SUFFICES ASSUME NEW s \in Sides PROVE sent[s] <= Longest
    OBVIOUS
  <2>1. sent[s] \in Nat /\ (sent[s] = 0 \/ (life \in Lives /\ sent[s] <= StreamLen[life][s]))
    BY DEF TInv, PeersTrue
  <2>2. life \in Lives => StreamLen[life][s] \in Nat /\ StreamLen[life][s] <= Longest
    BY LongestIs, TrackerAssumption
  <2> QED
    BY <2>1, <2>2, LongestIs
<1>2. Cardinality(conns) <= 1
  <2>1. CASE conns = {}
    BY <2>1, FS_EmptySet
  <2>2. CASE conns # {}
    <3>1. PICK c : conns = {c}
      BY <2>2 DEF TInv
    <3>2. Cardinality({c}) = 1
      BY FS_Singleton
    <3> QED
      BY <3>1, <3>2
  <2> QED
    BY <2>1, <2>2
<1>3. Cardinality(session) <= 1
  <2>1. CASE session = {}
    BY <2>1, FS_EmptySet
  <2>2. CASE session # {}
    <3>1. PICK c : session = {c}
      BY <2>2 DEF RingTrue
    <3>2. Cardinality({c}) = 1
      BY FS_Singleton
    <3> QED
      BY <3>1, <3>2
  <2> QED
    BY <2>1, <2>2
<1>4. \A c \in conns :
        /\ c.client \in Sides /\ c.from_syn \in BOOLEAN
        /\ c.last_seen \in 0..MaxTime /\ c.closed \in {Never} \cup 0..MaxTime
  BY DEF TInv, EntryTrue, EntryRecords, Times
<1>5. \A d \in Dirs :
        /\ DOMAIN d = DOMAIN NewDir(TRUE)
        /\ d.origin <= d.lo /\ d.lo <= d.hi /\ d.hi <= LastByte
        /\ d.held \subseteq Packets
        /\ d.pending_since \in {Never} \cup 0..MaxTime
  <2> SUFFICES ASSUME NEW d \in Dirs
               PROVE  /\ DOMAIN d = DOMAIN NewDir(TRUE)
                      /\ d.origin <= d.lo /\ d.lo <= d.hi /\ d.hi <= LastByte
                      /\ d.held \subseteq Packets
                      /\ d.pending_since \in {Never} \cup 0..MaxTime
    OBVIOUS
  <2>1. PICK c \in conns, s \in Sides : d = c.dir[s]
    BY DEF Dirs
  <2>2. DirTrue(s, d)
    BY <2>1 DEF TInv, EntryTrue
  <2>3. d \in DirRecords
    BY <2>2 DEF DirTrue
  <2>4. DOMAIN d = DOMAIN NewDir(TRUE)
    BY <2>3 DEF DirRecords, NewDir
  <2>5. d.held \subseteq Packets /\ d.pending_since \in {Never} \cup 0..MaxTime
    BY <2>3 DEF DirRecords, Times
  <2> QED
    BY <2>2, <2>4, <2>5 DEF DirTrue
<1>6. TrackerTypeOK
  BY <1>1, <1>2, <1>4, <1>5 DEF TrackerTypeOK, TInv, PeersTrue
<1> QED
  BY <1>3, <1>6 DEF CaptureTypeOK, RingTrue

LEMMA CaptureInductive == CaptureSpec => [](TInv /\ RingTrue)
<1>1. CaptureInit => TInv /\ RingTrue
  BY TStart, RStart DEF CaptureInit
<1>2. TInv /\ RingTrue /\ [CaptureNext]_captureVars => TInv' /\ RingTrue'
  <2>1. [CaptureNext]_captureVars => [Next]_vars
    BY CaptureStep DEF captureVars, vars, world
  <2> QED
    BY <2>1, TKept, RKept
<1> QED
  BY <1>1, <1>2, PTL DEF CaptureSpec

(* The table, the ring and the session range over what they hold, and the  *)
(* ring is within its limit however large a packet is (capture.rs:84-106). *)
THEOREM CaptureTypeTheorem == CaptureSpec => []CaptureTypeOK
BY CaptureInductive, TypesFollow, PTL

-----------------------------------------------------------------------------
(* Captures.                                                               *)

LEMMA BytesAre ==
  ASSUME NEW p \in Packets, NEW s, NEW b \in Nat
  PROVE  <<s, b>> \in BytesOf(p) <=> p.from = s /\ Covers(p, b)
<1>1. p.at \in Nat /\ p.len \in Nat
  BY PacketsAre
<1>2. b \in p.at..(p.at + p.len - 1) <=> Covers(p, b)
  BY <1>1 DEF Covers
<1> QED
  BY <1>2 DEF BytesOf

LEMMA ItemsAre ==
  ASSUME NEW r \in Seq(RingItems), NEW i \in DOMAIN r
  PROVE  r[i] \in RingItems /\ r[i].ts \in Nat /\ r[i].packet \in Packets
<1>1. r[i] \in RingItems
  OBVIOUS
<1>2. MaxTime \in Nat
  BY TrackerAssumption
<1> QED
  BY <1>1, <1>2 DEF RingItems

(* A ring that takes a later packet in keeps, of the packets it had, all   *)
(* that are no older than its first, and keeps the packet unless it keeps  *)
(* nothing.                                                                *)
Pushed(r, q, n, x) ==
  /\ Ordered(r, n) /\ Ordered(q, x.ts) /\ x.ts > n
  /\ q # <<>> => \E m \in DOMAIN q : q[m] = x
  /\ q # <<>> => \A i \in DOMAIN r : r[i].ts >= q[1].ts => \E m \in DOMAIN q : q[m] = r[i]
  /\ q # <<>> => IF r = <<>> THEN q[1].ts = x.ts ELSE q[1].ts >= r[1].ts

LEMMA PushedRing ==
  ASSUME NEW r \in Seq(RingItems), NEW n \in Nat, Ordered(r, n),
         NEW x \in RingItems, x.ts > n, NEW k \in 1..(Len(r) + 2)
  PROVE  Pushed(r, From(Append(r, x), k), n, x)
<1>1. PICK a : a = Append(r, x)
  OBVIOUS
<1>2. a \in Seq(RingItems) /\ Len(a) = Len(r) + 1 /\ Len(r) \in Nat
  BY <1>1
<1>3. a[Len(r) + 1] = x /\ \A i \in 1..Len(r) : a[i] = r[i]
  BY <1>1
<1>4. PICK q : q = From(a, k)
  OBVIOUS
<1>5. k \in 1..(Len(a) + 1)
  BY <1>2
<1>6. /\ q \in Seq(RingItems) /\ Len(q) = Len(a) + 1 - k
      /\ \A i \in 1..(Len(a) + 1 - k) : q[i] = a[k + i - 1]
  BY <1>2, <1>4, <1>5, FromIs
<1>7. PICK g \in Nat : g = Len(r)
  BY <1>2
<1>8. \A i \in 1..g : r[i] \in RingItems /\ r[i].ts \in Nat /\ r[i].ts <= n
  <2> SUFFICES ASSUME NEW i \in 1..g PROVE r[i] \in RingItems /\ r[i].ts \in Nat /\ r[i].ts <= n
    OBVIOUS
  <2>1. i \in DOMAIN r
    BY <1>7
  <2> QED
    BY <2>1, ItemsAre DEF Ordered
<1>9. \A i, j \in 1..g : i < j => r[i].ts < r[j].ts
  <2>1. \A i \in 1..g : i \in DOMAIN r
    BY <1>7
  <2> QED
    BY <2>1 DEF Ordered
<1>10. x.ts \in Nat
  BY TrackerAssumption DEF RingItems
<1>11. \A i \in 1..(g + 1) : a[i].ts \in Nat /\ a[i].ts <= x.ts
  <2> SUFFICES ASSUME NEW i \in 1..(g + 1) PROVE a[i].ts \in Nat /\ a[i].ts <= x.ts
    OBVIOUS
  <2>1. CASE i \in 1..g
    <3>1. a[i] = r[i] /\ r[i].ts \in Nat /\ r[i].ts <= n
      BY <1>3, <1>7, <1>8, <2>1
    <3> QED
      BY <1>10, <3>1
  <2>2. CASE i = g + 1
    BY <1>3, <1>7, <1>10, <2>2
  <2> QED
    BY <2>1, <2>2
<1>12. \A i, j \in 1..(g + 1) : i < j => a[i].ts < a[j].ts
  <2> SUFFICES ASSUME NEW i \in 1..(g + 1), NEW j \in 1..(g + 1), i < j
               PROVE  a[i].ts < a[j].ts
    OBVIOUS
  <2>1. i \in 1..g /\ a[i] = r[i] /\ r[i].ts \in Nat /\ r[i].ts <= n
    BY <1>3, <1>7, <1>8
  <2>2. CASE j \in 1..g
    <3>1. a[j] = r[j]
      BY <1>3, <1>7, <2>2
    <3> QED
      BY <1>9, <2>1, <2>2, <3>1
  <2>3. CASE j = g + 1
    BY <1>3, <1>7, <1>10, <2>1, <2>3
  <2> QED
    BY <2>2, <2>3
<1>13. \A m \in 1..(g + 2 - k) : m \in DOMAIN q /\ q[m] = a[k + m - 1] /\ k + m - 1 \in 1..(g + 1)
  BY <1>2, <1>5, <1>6, <1>7
<1>14. DOMAIN q = 1..(g + 2 - k)
  BY <1>2, <1>6, <1>7
<1>15. Ordered(q, x.ts)
  <2>1. \A m \in 1..(g + 2 - k) : q[m].ts <= x.ts
    BY <1>11, <1>13
  <2>2. ASSUME NEW i \in 1..(g + 2 - k), NEW j \in 1..(g + 2 - k), i < j
        PROVE  q[i].ts < q[j].ts
    <3>1. /\ k + i - 1 \in 1..(g + 1) /\ k + j - 1 \in 1..(g + 1)
          /\ q[i] = a[k + i - 1] /\ q[j] = a[k + j - 1]
      BY <1>13
    <3>2. k + i - 1 < k + j - 1
      BY <1>2, <1>7, <2>2
    <3> QED
      BY <1>12, <3>1, <3>2
  <2> QED
    BY <1>14, <2>1, <2>2 DEF Ordered
<1>16. ASSUME q # <<>>
       PROVE  /\ \E m \in DOMAIN q : q[m] = x
              /\ \A i \in DOMAIN r : r[i].ts >= q[1].ts => \E m \in DOMAIN q : q[m] = r[i]
              /\ IF r = <<>> THEN q[1].ts = x.ts ELSE q[1].ts >= r[1].ts
  <2>1. k <= g + 1 /\ 1 \in 1..(g + 2 - k)
    BY <1>2, <1>5, <1>6, <1>7, <1>16
  <2>2. q[1] = a[k] /\ k \in 1..(g + 1)
    BY <1>13, <2>1
  <2>3. \E m \in DOMAIN q : q[m] = x
    <3>1. g + 2 - k \in 1..(g + 2 - k)
      BY <2>1
    <3>2. k + (g + 2 - k) - 1 = g + 1
      BY <2>1
    <3> QED
      BY <1>3, <1>7, <1>13, <3>1, <3>2
  <2>4. ASSUME NEW i \in DOMAIN r, r[i].ts >= q[1].ts PROVE \E m \in DOMAIN q : q[m] = r[i]
    <3>1. i \in 1..g /\ a[i] = r[i] /\ i \in 1..(g + 1)
      BY <1>3, <1>7
    <3>2. ~(i < k)
      BY <1>11, <1>12, <2>2, <2>4, <3>1
    <3>3. i - k + 1 \in 1..(g + 2 - k) /\ k + (i - k + 1) - 1 = i
      BY <2>2, <3>1, <3>2
    <3> QED
      BY <1>13, <3>1, <3>3
  <2>5. CASE r = <<>>
    <3>1. g = 0 /\ k = 1
      BY <1>7, <2>1, <2>2, <2>5
    <3>2. a[k] = x
      BY <1>3, <1>7, <3>1
    <3>3. q[1].ts = x.ts
      BY <2>2, <3>2
    <3> QED
      BY <2>3, <2>4, <2>5, <3>3
  <2>6. CASE r # <<>>
    <3>1. 1 \in 1..g /\ a[1] = r[1]
      BY <1>3, <1>7, <2>6
    <3>2. k = 1 \/ a[1].ts < a[k].ts
      BY <1>12, <2>2, <3>1
    <3>3. a[1].ts \in Nat /\ a[k].ts \in Nat
      BY <1>11, <2>2
    <3>4. a[k].ts >= a[1].ts
      BY <3>2, <3>3
    <3>5. q[1].ts >= r[1].ts
      BY <2>2, <3>1, <3>4
    <3> QED
      BY <2>3, <2>4, <2>6, <3>5
  <2> QED
    BY <2>5, <2>6
<1> QED
  BY <1>1, <1>4, <1>15, <1>16 DEF Pushed

(* What a later ring has of the bytes that an earlier one had.             *)
LEMMA BytesKept ==
  ASSUME NEW r \in Seq(RingItems), NEW q \in Seq(RingItems), NEW n \in Nat,
         NEW x \in RingItems, Pushed(r, q, n, x),
         NEW t \in Nat, t <= n, Reaches(q, t)
  PROVE  /\ Reaches(r, t)
         /\ \A s, b : HasByte(r, s, t, b) => HasByte(q, s, t, b)
<1>1. q # <<>> /\ q[1].ts <= t /\ x.ts \in Nat /\ x.ts > n
  <2>1. x.ts \in Nat
    BY TrackerAssumption DEF RingItems
  <2> QED
    BY <2>1 DEF Reaches, Pushed
<1>2. \A i \in DOMAIN r : r[i].ts \in Nat
  BY ItemsAre
<1>3. q[1].ts \in Nat
  <2>1. 1 \in DOMAIN q
    BY <1>1
  <2> QED
    BY <2>1, ItemsAre
<1>4. r # <<>> /\ q[1].ts >= r[1].ts
  BY <1>1, <1>3 DEF Pushed
<1>5. 1 \in DOMAIN r
  BY <1>4
<1>6. Reaches(r, t)
  BY <1>1, <1>2, <1>3, <1>4, <1>5 DEF Reaches
<1>7. ASSUME NEW s, NEW b, HasByte(r, s, t, b) PROVE HasByte(q, s, t, b)
  <2>1. PICK i \in DOMAIN r : r[i].ts >= t /\ <<s, b>> \in BytesOf(r[i].packet)
    BY <1>7 DEF HasByte
  <2>2. r[i].ts >= q[1].ts
    BY <1>1, <1>2, <1>3, <2>1
  <2>3. PICK m \in DOMAIN q : q[m] = r[i]
    BY <1>1, <2>2 DEF Pushed
  <2> QED
    BY <2>1, <2>3 DEF HasByte
<1> QED
  BY <1>6, <1>7

(* What RingHas says of a direction that does not change.                  *)
LEMMA PendingKept ==
  ASSUME NEW r \in Seq(RingItems), NEW q \in Seq(RingItems), NEW n \in Nat,
         NEW x \in RingItems, Pushed(r, q, n, x),
         NEW s \in Sides, NEW d, DirTrue(s, d), RingHas(r, n, s, d),
         d.orderly, Reaches(q, d.pending_since),
         NEW b \in Nat, d.lo <= b, b < d.hi
  PROVE  HasByte(q, s, d.pending_since, b)
<1>1. d.lo \in Nat /\ d.hi \in Nat /\ d.pending_since \in Times
  BY DEF DirTrue, DirRecords
<1>2. d.lo < d.hi
  BY <1>1
<1>3. d.pending_since \in Nat /\ d.pending_since <= n
  BY <1>1, <1>2, TrackerAssumption DEF RingHas, Times
<1>4. /\ Reaches(r, d.pending_since)
      /\ HasByte(r, s, d.pending_since, b) => HasByte(q, s, d.pending_since, b)
  BY <1>3, BytesKept
<1> QED
  BY <1>2, <1>4 DEF RingHas

LEMMA RingHasStep ==
  ASSUME NEW r \in Seq(RingItems), NEW q \in Seq(RingItems), NEW n \in Nat,
         NEW p \in Packets, NEW t \in Nat,
         [ts |-> t, packet |-> p] \in RingItems, Pushed(r, q, n, [ts |-> t, packet |-> p]),
         NEW s \in Sides, NEW d, DirTrue(s, d), RingHas(r, n, s, d),
         NEW e, DirTrue(s, e), SegmentStep(s, d, e, p, t)
  PROVE  RingHas(q, t, s, e)
<1>1. PICK x \in RingItems : x = [ts |-> t, packet |-> p]
  OBVIOUS
<1>2. x.ts = t /\ x.packet = p /\ Pushed(r, q, n, x)
  BY <1>1
<1>3. n < t
  BY <1>2 DEF Pushed
<1>4. /\ d.lo \in Nat /\ d.hi \in Nat /\ d.pending_since \in Times /\ d.pending_since <= n
      /\ d.pending_since = Never \/ d.pending_since \in Nat
      /\ d.orderly => d.held = {}
  BY TrackerAssumption DEF DirTrue, DirRecords, RingHas, Times
<1>5. d.pending_since <= t
  BY <1>3, <1>4 DEF Never
<1>6. CASE SameBytes(d, e) /\ e.lo = d.lo
  <2>1. /\ e.pending_since = d.pending_since /\ e.orderly = d.orderly /\ e.held = d.held
        /\ e.lo = d.lo /\ e.hi = d.hi
    BY <1>6 DEF SameBytes
  <2>2. ASSUME e.orderly, e.lo < e.hi
        PROVE  /\ e.pending_since # Never
               /\ Reaches(q, e.pending_since) =>
                    \A b \in Nat : e.lo <= b /\ b < e.hi => HasByte(q, s, e.pending_since, b)
    <3>1. d.orderly /\ d.lo < d.hi
      BY <2>1, <2>2
    <3>2. d.pending_since # Never
      BY <3>1 DEF RingHas
    <3>3. Reaches(q, d.pending_since) =>
            \A b \in Nat : d.lo <= b /\ b < d.hi => HasByte(q, s, d.pending_since, b)
      BY <1>2, <3>1, PendingKept
    <3> QED
      BY <2>1, <3>2, <3>3
  <2> QED
    BY <1>4, <1>5, <2>1, <2>2 DEF RingHas
<1>7. CASE Noted(d, e, p.at + 1)
  <2>1. p.at \in Nat
    BY PacketsAre
  <2> QED
    BY <1>5, <1>7, <2>1 DEF Noted, RingHas
<1>8. CASE p.from = s /\ \E y : DirTrue(s, y) /\ Grown(d, y, p) /\ Settled(y, e, t)
  <2>1. PICK y : DirTrue(s, y) /\ Grown(d, y, p) /\ Settled(y, e, t)
    BY <1>8
  <2>2. /\ e.lo = y.lo /\ e.hi = y.hi /\ e.held = y.held /\ y.pending_since = d.pending_since
        /\ e.pending_since = IF y.lo = y.hi THEN Never
                             ELSE IF y.pending_since = Never THEN t ELSE y.pending_since
        /\ e.orderly => y.orderly \/ (y.lo = y.hi /\ y.held = {})
    BY <2>1 DEF Settled, Grown
  <2>3. y.lo \in Nat /\ y.hi \in Nat /\ y.origin \in Nat /\ y.origin <= y.lo
    BY <2>1 DEF DirTrue, DirRecords
  <2>4. e.pending_since <= t
    BY <1>5, <2>2 DEF Never
  <2>5. ASSUME y.orderly
        PROVE  /\ d.orderly /\ p.at <= Frontier(d, p) /\ d.held = {} /\ y.held = {}
               /\ Covered({p}, Frontier(d, p), y.hi)
    <3>1. d.orderly /\ p.at <= Frontier(d, p)
      BY <2>1, <2>5 DEF Grown
    <3>2. d.held = {} /\ d.held \cup {p} = {p}
      BY <1>4, <3>1
    <3>3. y.held = {}
      BY <2>1, <3>1, <3>2 DEF Grown
    <3>4. Covered(d.held \cup {p}, Frontier(d, p), y.hi)
      BY <2>1, <2>5 DEF Grown
    <3> QED
      BY <3>1, <3>2, <3>3, <3>4
  <2>6. e.orderly => e.held = {}
    BY <2>2, <2>5
  <2>7. ASSUME e.orderly, e.lo < e.hi
        PROVE  /\ e.pending_since # Never
               /\ Reaches(q, e.pending_since) =>
                    \A b \in Nat : e.lo <= b /\ b < e.hi => HasByte(q, s, e.pending_since, b)
    <3>1. y.lo # y.hi
      BY <2>2, <2>3, <2>7
    <3>2. y.orderly
      BY <2>2, <2>7, <3>1
    <3>3. e.pending_since = IF d.pending_since = Never THEN t ELSE d.pending_since
      BY <2>2, <3>1
    <3>4. e.pending_since \in Nat
      BY <1>4, <3>3
    <3>5. ASSUME Reaches(q, e.pending_since), NEW b \in Nat, e.lo <= b, b < e.hi
          PROVE  HasByte(q, s, e.pending_since, b)
      <4>1. p.at \in Nat
        BY PacketsAre
      <4>2. Frontier(d, p) \in Nat
        BY <1>4, <4>1 DEF Frontier
      <4>3. CASE Frontier(d, p) <= b
        <5>1. Covers(p, b)
          BY <2>2, <2>5, <3>2, <3>5, <4>3 DEF Covered
        <5>2. <<s, b>> \in BytesOf(p)
          BY <1>8, <5>1, BytesAre
        <5>3. PICK m \in DOMAIN q : q[m] = x
          BY <1>2, <3>5 DEF Reaches, Pushed
        <5>4. q[m].ts = t /\ q[m].packet = p
          BY <1>2, <5>3
        <5> QED
          BY <2>4, <5>2, <5>3, <5>4 DEF HasByte
      <4>4. CASE b < Frontier(d, p)
        <5>1. d.begun
          <6>1. ASSUME ~d.begun PROVE FALSE
            <7>1. y.origin = p.at /\ Frontier(d, p) = p.at
              BY <2>1, <6>1 DEF Grown, Frontier
            <7> QED
              BY <2>2, <2>3, <3>5, <4>1, <4>4, <7>1
          <6> QED
            BY <6>1
        <5>2. b < d.hi /\ d.lo <= b
          <6>1. Frontier(d, p) = d.hi /\ d.lo <= y.lo
            BY <2>1, <5>1 DEF Grown, Frontier
          <6> QED
            BY <1>4, <2>2, <2>3, <3>5, <4>4, <6>1
        <5>3. d.orderly /\ d.lo < d.hi
          BY <1>4, <2>5, <3>2, <5>2
        <5>4. d.pending_since # Never /\ e.pending_since = d.pending_since
          BY <3>3, <5>3 DEF RingHas
        <5> QED
          BY <1>2, <3>5, <5>2, <5>3, <5>4, PendingKept
      <4> QED
        BY <4>2, <4>3, <4>4
    <3> QED
      BY <3>4, <3>5 DEF Never
  <2> QED
    BY <2>4, <2>6, <2>7 DEF RingHas
<1> QED
  BY <1>6, <1>7, <1>8 DEF SegmentStep

(* The pcap of a session goes on with each packet that arrives.            *)
LEMMA PcapHasStep ==
  ASSUME NEW p \in Packets, NEW t, NEW pcap, NEW pt, PointTrue(pt),
         NEW d, DirTrue(pt.side, d), PcapHas(pcap, pt, d),
         NEW e, DirTrue(pt.side, e), SegmentStep(pt.side, d, e, p, t)
  PROVE  PcapHas(pcap \cup BytesOf(p), pt, e)
<1> SUFFICES ASSUME pt.begun, pt.orderly, e.begun, e.origin = pt.start, ~e.poisoned
             PROVE  /\ \A b \in Nat : pt.next_frame_seq <= b /\ b < e.hi =>
                         <<pt.side, b>> \in pcap \cup BytesOf(p)
                    /\ \A q \in e.held : BytesOf(q) \subseteq pcap \cup BytesOf(p)
  BY DEF PcapHas
<1>1. pt.next_frame_seq \in Nat /\ pt.start \in Nat /\ pt.start <= pt.next_frame_seq
  BY DEF PointTrue
<1>2. /\ d.hi \in Nat /\ d.held \in SUBSET Packets /\ (~d.begun => d.held = {})
      /\ \A q \in d.held : q.from = pt.side
  BY DEF DirTrue, DirRecords
<1>3. ASSUME d.begun, d.origin = pt.start, ~d.poisoned
      PROVE  /\ \A b \in Nat : pt.next_frame_seq <= b /\ b < d.hi => <<pt.side, b>> \in pcap
             /\ \A q \in d.held : BytesOf(q) \subseteq pcap
  BY <1>3 DEF PcapHas
<1>4. CASE SameBytes(d, e) /\ e.poisoned = d.poisoned
  <2>1. e.begun = d.begun /\ e.origin = d.origin /\ e.hi = d.hi /\ e.held = d.held
    BY <1>4 DEF SameBytes
  <2>2. d.begun /\ d.origin = pt.start /\ ~d.poisoned
    BY <1>4, <2>1
  <2> QED
    BY <1>3, <2>1, <2>2
<1>5. CASE Noted(d, e, p.at + 1)
  BY <1>1, <1>5 DEF Noted
<1>6. CASE p.from = pt.side /\ \E y : Grown(d, y, p) /\ Settled(y, e, t)
  <2>1. PICK y : Grown(d, y, p) /\ Settled(y, e, t)
    BY <1>6
  <2>2. e.hi = y.hi /\ e.held = y.held /\ e.origin = y.origin /\ ~y.poisoned
    BY <2>1 DEF Settled
  <2>3. /\ ~d.poisoned /\ e.held \subseteq d.held \cup {p}
        /\ Covered(d.held \cup {p}, Frontier(d, p), e.hi)
        /\ e.origin = IF d.begun THEN d.origin ELSE p.at
    BY <2>1, <2>2 DEF Grown
  <2>4. CASE d.begun
    <3>1. d.origin = pt.start
      BY <2>3, <2>4
    <3>2. ASSUME NEW b \in Nat, pt.next_frame_seq <= b, b < e.hi
          PROVE  <<pt.side, b>> \in pcap \cup BytesOf(p)
      <4>1. CASE b < d.hi
        BY <1>3, <2>3, <2>4, <3>1, <3>2, <4>1
      <4>2. CASE ~(b < d.hi)
        <5>1. Frontier(d, p) <= b
          BY <1>2, <2>4, <4>2 DEF Frontier
        <5>2. PICK q \in d.held \cup {p} : Covers(q, b)
          BY <2>3, <3>2, <5>1 DEF Covered
        <5>3. <<pt.side, b>> \in BytesOf(q)
          BY <1>2, <1>6, <5>2, BytesAre
        <5> QED
          BY <1>3, <2>3, <2>4, <3>1, <5>2, <5>3
      <4> QED
        BY <4>1, <4>2
    <3>3. \A q \in e.held : BytesOf(q) \subseteq pcap \cup BytesOf(p)
      BY <1>3, <2>3, <2>4, <3>1
    <3> QED
      BY <3>2, <3>3
  <2>5. CASE ~d.begun
    <3>1. d.held = {} /\ Frontier(d, p) = p.at /\ p.at = pt.start
      BY <1>2, <2>3, <2>5 DEF Frontier
    <3>2. ASSUME NEW b \in Nat, pt.next_frame_seq <= b, b < e.hi
          PROVE  <<pt.side, b>> \in pcap \cup BytesOf(p)
      <4>1. Frontier(d, p) <= b
        BY <1>1, <3>1, <3>2
      <4>2. Covers(p, b)
        BY <2>3, <3>1, <3>2, <4>1 DEF Covered
      <4> QED
        BY <1>6, <4>2, BytesAre
    <3>3. \A q \in e.held : BytesOf(q) \subseteq pcap \cup BytesOf(p)
      BY <2>3, <3>1
    <3> QED
      BY <3>2, <3>3
  <2> QED
    BY <2>4, <2>5
<1> QED
  BY <1>4, <1>5, <1>6 DEF SegmentStep

(* The entry after a packet, in terms of one that was there or of none.    *)
LEMMA AfterSegment ==
  ASSUME TInv, NEW l \in Lives, NEW p \in PacketsOf(l), OnSegment(p), NEW c \in conns'
  PROVE  \E b : /\ EntryTrue(b) /\ EntryTrue(c)
                /\ b \in conns \/ \A s \in Sides : Blank(b.dir[s])
                /\ \A s \in Sides : SegmentStep(s, b.dir[s], c.dir[s], p, now')
<1>1. now' \in 0..MaxTime
  BY TrackerAssumption DEF TInv, OnSegment, Later
<1>2. PICK x \in Fed(Touched(Entry(p), p), p) : conns' = {x}
  BY DEF OnSegment
<1>3. c = x
  BY <1>2
<1>4. PICK b : b = Entry(p)
  OBVIOUS
<1>5. /\ EntryTrue(b)
      /\ b \in conns \/ \A s \in Sides : Blank(b.dir[s])
  BY <1>1, <1>4, EntryIs
<1>6. EntryTrue(c) /\ \A s \in Sides : SegmentStep(s, b.dir[s], c.dir[s], p, now')
  BY <1>1, <1>2, <1>3, <1>4, <1>5, SegmentIs
<1> QED
  BY <1>5, <1>6

LEMMA PStart == CaptureInit => PcapInv
BY DEF CaptureInit, Init, PcapInv, Ordered

LEMMA ArriveKeeps ==
  ASSUME ~SameInstant, TInv, TInv', RingTrue, RingTrue', PcapInv,
         NEW l \in Lives, NEW p \in PacketsOf(l), Arrive(p)
  PROVE  PcapInv'
<1>1. PICK n \in 0..MaxTime, t \in 0..MaxTime : n = now /\ t = now'
  BY DEF TInv
<1>2. t = n + 1 /\ n \in Nat /\ t \in Nat
  BY <1>1, TrackerAssumption DEF Arrive, OnSegment, Later
<1>3. p \in Packets
  BY PacketIs
<1>4. PICK r \in Seq(RingItems), q \in Seq(RingItems) : r = ring /\ q = ring'
  BY DEF RingTrue, RingItems
<1>5. PICK x : x = [ts |-> t, packet |-> p]
  OBVIOUS
<1>6. x \in RingItems /\ x.ts = t /\ x.ts > n
  BY <1>2, <1>3, <1>5 DEF RingItems
<1>7. PICK k \in 1..(Len(r) + 2) : q = From(Append(r, x), k)
  <2>1. q = RingPush(r, t, p)
    BY <1>1, <1>4 DEF Arrive
  <2> QED
    BY <1>3, <1>5, <2>1, RingPushIs
<1>8. Ordered(r, n)
  BY <1>1, <1>4 DEF PcapInv
<1>9. Pushed(r, q, n, x)
  BY <1>2, <1>6, <1>7, <1>8, PushedRing
<1>10. Ordered(ring, now)'
  BY <1>1, <1>4, <1>6, <1>9 DEF Pushed
<1>11. ASSUME NEW c \in conns'
       PROVE  \E b : /\ EntryTrue(b) /\ EntryTrue(c)
                     /\ b \in conns \/ \A s \in Sides : Blank(b.dir[s])
                     /\ \A s \in Sides : SegmentStep(s, b.dir[s], c.dir[s], p, t)
  BY <1>1, AfterSegment DEF Arrive
<1>12. ASSUME NEW c \in conns', NEW s \in Sides PROVE RingHas(q, t, s, c.dir[s])
  <2>1. PICK b : /\ EntryTrue(b) /\ EntryTrue(c)
                 /\ b \in conns \/ \A z \in Sides : Blank(b.dir[z])
                 /\ \A z \in Sides : SegmentStep(z, b.dir[z], c.dir[z], p, t)
    BY <1>11
  <2>2. PICK d, e : d = b.dir[s] /\ e = c.dir[s]
    OBVIOUS
  <2>3. DirTrue(s, d) /\ DirTrue(s, e) /\ SegmentStep(s, d, e, p, t)
    BY <2>1, <2>2 DEF EntryTrue
  <2>4. RingHas(r, n, s, d)
    <3>1. CASE b \in conns
      BY <1>1, <1>4, <2>2, <3>1 DEF PcapInv
    <3>2. CASE Blank(d)
      BY <1>2, <3>2 DEF Blank, RingHas, Never
    <3> QED
      BY <2>1, <2>2, <3>1, <3>2
  <2>5. RingHas(q, t, s, e)
    BY <1>2, <1>3, <1>5, <1>6, <1>9, <2>3, <2>4, RingHasStep
  <2> QED
    BY <2>2, <2>5
<1>13. ASSUME NEW z \in session'
       PROVE  /\ z = [points |-> z.points, pcap |-> z.pcap]
              /\ \A pt \in z.points :
                   PointTrue(pt) /\ \A c \in conns' : PcapHas(z.pcap, pt, c.dir[pt.side])
  <2>1. PICK y \in session : z = [y EXCEPT !.pcap = @ \cup BytesOf(p)]
    BY DEF Arrive
  <2>2. /\ y = [points |-> y.points, pcap |-> y.pcap]
        /\ \A pt \in y.points :
             PointTrue(pt) /\ \A c \in conns : PcapHas(y.pcap, pt, c.dir[pt.side])
    BY DEF PcapInv
  <2>3. /\ z = [points |-> y.points, pcap |-> y.pcap \cup BytesOf(p)]
        /\ z.points = y.points /\ z.pcap = y.pcap \cup BytesOf(p)
    BY <2>1, <2>2
  <2>4. ASSUME NEW pt \in y.points, NEW c \in conns'
        PROVE  PcapHas(z.pcap, pt, c.dir[pt.side])
    <3>1. PICK b : /\ EntryTrue(b) /\ EntryTrue(c)
                   /\ b \in conns \/ \A s \in Sides : Blank(b.dir[s])
                   /\ \A s \in Sides : SegmentStep(s, b.dir[s], c.dir[s], p, t)
      BY <1>11
    <3>2. PointTrue(pt) /\ pt.side \in Sides
      BY <2>2 DEF PointTrue
    <3>3. PICK d, e : d = b.dir[pt.side] /\ e = c.dir[pt.side]
      OBVIOUS
    <3>4. /\ DirTrue(pt.side, d) /\ DirTrue(pt.side, e)
          /\ SegmentStep(pt.side, d, e, p, t)
      BY <3>1, <3>2, <3>3 DEF EntryTrue
    <3>5. PcapHas(y.pcap, pt, d)
      <4>1. CASE b \in conns
        BY <2>2, <3>3, <4>1
      <4>2. CASE Blank(d)
        BY <4>2 DEF Blank, PcapHas
      <4> QED
        BY <3>1, <3>2, <3>3, <4>1, <4>2
    <3>6. PcapHas(y.pcap \cup BytesOf(p), pt, e)
      BY <1>3, <3>2, <3>4, <3>5, PcapHasStep
    <3> QED
      BY <2>3, <3>3, <3>6
  <2> QED
    BY <2>2, <2>3, <2>4
<1> QED
  BY <1>1, <1>4, <1>10, <1>12, <1>13 DEF PcapInv

(* A capture starts with what the ring has of the pending bytes.           *)
LEMMA StartKeeps ==
  ASSUME TInv, RingTrue, PcapInv, Start
  PROVE  PcapInv'
<1>1. session' = {[points |-> Points, pcap |-> RingContents]}
  BY DEF Start
<1>2. conns' = conns /\ ring' = ring /\ now' = now
  BY DEF Start
<1>3. PICK z : z = [points |-> Points, pcap |-> RingContents]
  OBVIOUS
<1>4. ASSUME NEW pt \in Points
      PROVE  PointTrue(pt) /\ \A c \in conns : PcapHas(RingContents, pt, c.dir[pt.side])
  <2>1. PICK c \in conns : \E s \in {t \in Sides : Usable(c.dir[t])} : pt = Point(s, c.dir[s])
    BY DEF Points
  <2>2. PICK s \in Sides : Usable(c.dir[s]) /\ pt = Point(s, c.dir[s])
    BY <2>1
  <2>3. PICK d : d = c.dir[s]
    OBVIOUS
  <2>4. /\ pt.side = s /\ pt.next_frame_seq = d.lo /\ pt.begun = d.begun /\ pt.start = d.origin
        /\ pt.orderly = d.orderly
    BY <2>2, <2>3 DEF Point
  <2>5. DirTrue(s, d) /\ RingHas(ring, now, s, d)
    BY <2>3 DEF TInv, EntryTrue, PcapInv
  <2>6. d.lo \in Nat /\ d.hi \in Nat /\ d.origin \in Nat /\ d.origin <= d.lo
    BY <2>5 DEF DirTrue, DirRecords
  <2>7. PointTrue(pt)
    BY <2>4, <2>6 DEF PointTrue
  <2>8. PcapHas(RingContents, pt, d)
    <3> SUFFICES ASSUME d.orderly
                 PROVE  /\ \A b \in Nat : d.lo <= b /\ b < d.hi => <<s, b>> \in RingContents
                        /\ \A p \in d.held : BytesOf(p) \subseteq RingContents
      BY <2>4 DEF PcapHas
    <3>1. d.held = {}
      BY <2>5 DEF RingHas
    <3>2. ASSUME NEW b \in Nat, d.lo <= b, b < d.hi PROVE <<s, b>> \in RingContents
      <4>1. d.lo < d.hi
        BY <2>6, <3>2
      <4>2. d.pending_since # Never
        BY <2>5, <4>1 DEF RingHas
      <4>3. Reaches(ring, d.pending_since)
        BY <2>2, <2>3, <4>2 DEF Usable, PendingCovered, Oldest, Reaches
      <4>4. HasByte(ring, s, d.pending_since, b)
        BY <2>5, <3>2, <4>1, <4>3 DEF RingHas
      <4> QED
        BY <4>4 DEF HasByte, RingContents
    <3> QED
      BY <3>1, <3>2
  <2>9. \A e \in conns : e = c
    BY DEF TInv
  <2> QED
    BY <2>3, <2>4, <2>7, <2>8, <2>9
<1>5. z.points = Points /\ z.pcap = RingContents /\ z = [points |-> z.points, pcap |-> z.pcap]
  BY <1>3
<1>6. session' = {z}
  BY <1>1, <1>3
<1> QED
  BY <1>2, <1>4, <1>5, <1>6 DEF PcapInv

LEMMA TickKeepsPcap ==
  ASSUME TInv, RingTrue, PcapInv, Tick, UNCHANGED <<ring, session>>
  PROVE  PcapInv'
<1>1. PICK n \in 0..MaxTime : n = now
  BY DEF TInv
<1>2. now' = n + 1 /\ n \in Nat
  BY <1>1, TrackerAssumption DEF Tick
<1>3. ASSUME NEW x \in conns'
      PROVE  \E c \in conns : \A s \in Sides : DirTicked(c.dir[s], x.dir[s])
  BY TickIs
<1>4. Ordered(ring, now)'
  <2> SUFFICES \A k \in DOMAIN ring : ring[k].ts <= n + 1
    BY <1>2 DEF PcapInv, Ordered
  <2>1. \A k \in DOMAIN ring : ring[k].ts <= n /\ ring[k].ts \in Nat
    BY <1>1, ItemsAre DEF PcapInv, Ordered, RingTrue, RingItems
  <2> QED
    BY <1>2, <2>1
<1>5. ASSUME NEW x \in conns', NEW s \in Sides PROVE RingHas(ring, n + 1, s, x.dir[s])
  <2>1. PICK c \in conns : DirTicked(c.dir[s], x.dir[s])
    BY <1>3
  <2>2. RingHas(ring, n, s, c.dir[s]) /\ DirTrue(s, c.dir[s])
    BY <1>1 DEF PcapInv, TInv, EntryTrue
  <2>3. c.dir[s].pending_since \in Int
    BY <2>2, TrackerAssumption DEF DirTrue, DirRecords, Times, Never
  <2>4. PICK d, e : d = c.dir[s] /\ e = x.dir[s]
    OBVIOUS
  <2>5. d.pending_since <= n + 1
    BY <1>2, <2>2, <2>3, <2>4 DEF RingHas
  <2>6. CASE e = d
    BY <2>2, <2>4, <2>5, <2>6 DEF RingHas
  <2>7. CASE d.held # {} /\ e.pending_since = d.pending_since /\ e.orderly = d.orderly
    <3>1. ~d.orderly
      BY <2>2, <2>4, <2>7 DEF RingHas
    <3>2. ~e.orderly /\ e.pending_since <= n + 1
      BY <2>5, <2>7, <3>1
    <3> QED
      BY <2>4, <3>2 DEF RingHas
  <2> QED
    BY <2>1, <2>4, <2>6, <2>7 DEF DirTicked
<1>6. ASSUME NEW z \in session, NEW pt \in z.points, NEW x \in conns'
      PROVE  PcapHas(z.pcap, pt, x.dir[pt.side])
  <2>1. pt.side \in Sides
    BY DEF PcapInv, PointTrue
  <2>2. PICK c \in conns : DirTicked(c.dir[pt.side], x.dir[pt.side])
    BY <1>3, <2>1
  <2>3. PcapHas(z.pcap, pt, c.dir[pt.side])
    BY DEF PcapInv
  <2> QED
    BY <2>2, <2>3 DEF PcapHas, DirTicked
<1> QED
  BY <1>2, <1>4, <1>5, <1>6 DEF PcapInv

LEMMA PKept ==
  ASSUME ~SameInstant, TInv, TInv', RingTrue, RingTrue', PcapInv, [CaptureNext]_captureVars
  PROVE  PcapInv'
<1>1. CASE \E l \in Lives \cap {life, life + 1} : \E p \in PacketsOf(l) : Send(p) /\ Pass(p)
  <2>1. PICK l \in Lives : \E p \in PacketsOf(l) : Send(p) /\ Pass(p)
    BY <1>1
  <2>2. PICK p \in PacketsOf(l) : Pass(p)
    BY <2>1
  <2>3. CASE Arrive(p)
    BY <2>3, ArriveKeeps
  <2>4. CASE Missed /\ UNCHANGED <<ring, session>>
    BY <2>4 DEF Missed, PcapInv
  <2> QED
    BY <2>2, <2>3, <2>4 DEF Pass
<1>2. CASE Tick /\ UNCHANGED <<ring, session>>
  BY <1>2, TickKeepsPcap
<1>3. CASE Start
  BY <1>3, StartKeeps
<1>4. CASE Stop
  <2>1. session' \subseteq session /\ conns' = conns /\ ring' = ring /\ now' = now
    BY <1>4 DEF Stop
  <2> QED
    BY <2>1 DEF PcapInv
<1>5. CASE UNCHANGED captureVars
  BY <1>5 DEF captureVars, PcapInv
<1> QED
  BY <1>1, <1>2, <1>3, <1>4, <1>5 DEF CaptureNext

(* The pcap of a session has every byte from the place its snapshot names  *)
(* to the last one taken in, in each direction whose pending bytes had     *)
(* come in order when it started: the time kept with a direction tells     *)
(* rightly whether the ring still has them, and no packet falls between    *)
(* the snapshot and the pcap (tracker.rs:248-253, capture.rs:84-106).  Two *)
(* packets with one timestamp break it: the ring may drop the first alone. *)
THEOREM PcapCompleteTheorem ==
  ASSUME ~SameInstant
  PROVE  CaptureSpec => []PcapComplete
<1>1. CaptureInit => PcapInv
  BY PStart
<1>2. /\ TInv /\ RingTrue /\ PcapInv /\ [CaptureNext]_captureVars /\ TInv' /\ RingTrue'
      => PcapInv'
  BY PKept
<1>3. TInv /\ PcapInv => PcapComplete
  <2> SUFFICES ASSUME TInv, PcapInv,
                      NEW ses \in session, NEW pt \in ses.points, NEW c \in conns,
                      pt.begun, pt.orderly, c.dir[pt.side].begun,
                      c.dir[pt.side].origin = pt.start, ~c.dir[pt.side].poisoned,
                      NEW b \in pt.next_frame_seq..(c.dir[pt.side].hi - 1)
               PROVE  <<pt.side, b>> \in ses.pcap
    BY DEF PcapComplete
  <2>1. PointTrue(pt) /\ PcapHas(ses.pcap, pt, c.dir[pt.side])
    BY DEF PcapInv
  <2>2. pt.next_frame_seq \in Nat /\ c.dir[pt.side].hi \in Nat
    BY <2>1 DEF PointTrue, TInv, EntryTrue, DirTrue, DirRecords
  <2>3. b \in Nat /\ pt.next_frame_seq <= b /\ b < c.dir[pt.side].hi
    BY <2>2
  <2> QED
    BY <2>1, <2>3 DEF PcapHas
<1>4. CaptureSpec => [](TInv /\ RingTrue)
  BY CaptureInductive
<1> QED
  BY <1>1, <1>2, <1>3, <1>4, PTL DEF CaptureSpec
================================================================================
