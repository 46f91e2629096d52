--------------------------- MODULE ReassemblerProofs ---------------------------
(***************************************************************************)
(* Reassembly for every value of the constants: streams of any length less *)
(* than half the sequence space, cut in any way, any Isn, any limits.      *)
(***************************************************************************)
EXTENDS Reassembler, FiniteSetTheorems, SequenceTheorems, WellFoundedInduction, TLAPS

(* The bytes from position a on, up to b.                                  *)
Stretch(a, b) == [k \in 1..(b - a) |-> a + k - 1]

(* What is known once the stream is observed from position o on.           *)
Observed(o) ==
  /\ base_seq = SeqOf(o)
  /\ buf_off <= delivered_off /\ o + delivered_off <= StreamLen
  /\ next_seq = SeqOf(o + delivered_off)
  /\ buf = Stretch(o + buf_off, o + delivered_off)
  /\ \A s \in Held(ooo) : s.from > o + delivered_off

Unobserved ==
  /\ base_seq = 0 /\ next_seq = 0 /\ delivered_off = 0 /\ buf_off = 0 /\ buf = <<>>
  /\ ooo = Nothing /\ waited = NoTimer

RInv ==
  /\ initialized \in BOOLEAN
  /\ delivered_off \in Nat /\ buf_off \in Nat /\ gaps \in Nat
  /\ ooo \in [Segments -> Nat]
  /\ waited \in NoTimer..OooTimeout
  /\ waited # NoTimer => Held(ooo) # {}
  /\ IF initialized THEN \E o \in 0..StreamLen : Observed(o) ELSE Unobserved

-----------------------------------------------------------------------------
(* Numbers.                                                                *)

LEMMA Least ==
  ASSUME NEW S \in SUBSET Nat, S # {}
  PROVE  \E p \in S : \A q \in S : p <= q
<1>1. PICK p \in S : \A q \in S : ~(<<q, p>> \in OpToRel(<, Nat))
  BY NatLessThanWellFounded, WFMin
<1>2. \A q \in S : ~(q < p)
  BY <1>1 DEF OpToRel
<1> QED
  BY <1>2

LEMMA ModBelow == ASSUME NEW M \in Nat \ {0}, NEW x \in 0..(M - 1) PROVE x % M = x
OBVIOUS

LEMMA ModAbove == ASSUME NEW M \in Nat \ {0}, NEW x \in M..(2 * M - 1) PROVE x % M = x - M
OBVIOUS

LEMMA ModNegative == ASSUME NEW M \in Nat \ {0}, NEW x \in (-M)..(-1) PROVE x % M = x + M
OBVIOUS

Positions == 0..StreamLen

(* The sequence number of a position, and which side of the wrap it is on. *)
LEMMA SeqOfIs ==
  ASSUME NEW p \in Positions
  PROVE  /\ SeqOf(p) \in 0..(SeqModulus - 1)
         /\ SeqOf(p) = Isn + p \/ SeqOf(p) = Isn + p - SeqModulus
<1>1. SeqModulus \in Nat \ {0} /\ StreamLen \in Nat /\ 2 * StreamLen + 2 < SeqModulus
      /\ Isn \in Nat /\ Isn < SeqModulus /\ p \in Nat /\ p <= StreamLen
  BY ReassemblerAssumption DEF Positions
<1>2. CASE Isn + p < SeqModulus
  <2>1. Isn + p \in 0..(SeqModulus - 1)
    BY <1>1, <1>2
  <2>2. SeqOf(p) = Isn + p
    BY <1>1, <2>1, ModBelow DEF SeqOf
  <2> QED
    BY <2>1, <2>2
<1>3. CASE Isn + p >= SeqModulus
  <2>1. Isn + p \in SeqModulus..(2 * SeqModulus - 1)
    BY <1>1, <1>3
  <2>2. SeqOf(p) = Isn + p - SeqModulus
    BY <1>1, <2>1, ModAbove DEF SeqOf
  <2> QED
    BY <1>1, <1>3, <2>1, <2>2
<1> QED
  BY <1>1, <1>2, <1>3

(* Within half the sequence space, distance is the distance of positions.  *)
LEMMA AheadIs ==
  ASSUME NEW p \in Positions, NEW q \in Positions
  PROVE  /\ p >= q => Ahead(SeqOf(p), SeqOf(q)) = p - q
         /\ p < q => Ahead(SeqOf(p), SeqOf(q)) = p - q + SeqModulus
<1>1. SeqModulus \in Nat \ {0} /\ StreamLen \in Nat /\ 2 * StreamLen + 2 < SeqModulus
      /\ Isn \in Nat /\ Isn < SeqModulus
      /\ p \in Nat /\ p <= StreamLen /\ q \in Nat /\ q <= StreamLen
  BY ReassemblerAssumption DEF Positions
<1>2. PICK x : x = SeqOf(p) - SeqOf(q)
  OBVIOUS
<1>3. /\ SeqOf(p) \in 0..(SeqModulus - 1) /\ SeqOf(q) \in 0..(SeqModulus - 1)
      /\ SeqOf(p) = Isn + p \/ SeqOf(p) = Isn + p - SeqModulus
      /\ SeqOf(q) = Isn + q \/ SeqOf(q) = Isn + q - SeqModulus
  BY SeqOfIs
<1>4. x \in Int /\ (x = p - q \/ x = p - q + SeqModulus \/ x = p - q - SeqModulus)
  BY <1>1, <1>2, <1>3
<1>5. -SeqModulus < x /\ x < SeqModulus
  BY <1>1, <1>2, <1>3
<1>6. Ahead(SeqOf(p), SeqOf(q)) = x % SeqModulus
  BY <1>2 DEF Ahead
<1>7. CASE x >= 0
  <2>1. x \in 0..(SeqModulus - 1)
    BY <1>1, <1>4, <1>5, <1>7
  <2>2. x % SeqModulus = x
    BY <1>1, <2>1, ModBelow
  <2> QED
    BY <1>1, <1>4, <1>5, <1>6, <1>7, <2>2
<1>8. CASE x < 0
  <2>1. x \in (-SeqModulus)..(-1)
    BY <1>1, <1>4, <1>5, <1>8
  <2>2. x % SeqModulus = x + SeqModulus
    BY <1>1, <2>1, ModNegative
  <2> QED
    BY <1>1, <1>4, <1>5, <1>6, <1>8, <2>2
<1> QED
  BY <1>4, <1>7, <1>8

LEMMA DiffIs ==
  ASSUME NEW p \in Positions, NEW q \in Positions
  PROVE  Diff(SeqOf(p), SeqOf(q)) = p - q
<1>1. SeqModulus \in Nat \ {0} /\ StreamLen \in Nat /\ 2 * StreamLen + 2 < SeqModulus
      /\ p \in Nat /\ p <= StreamLen /\ q \in Nat /\ q <= StreamLen
  BY ReassemblerAssumption DEF Positions
<1>2. CASE p >= q
  <2>1. Ahead(SeqOf(p), SeqOf(q)) = p - q
    BY <1>2, AheadIs
  <2>2. 2 * (p - q) < SeqModulus
    BY <1>1, <1>2
  <2> QED
    BY <2>1, <2>2 DEF Diff
<1>3. CASE p < q
  <2>1. Ahead(SeqOf(p), SeqOf(q)) = p - q + SeqModulus
    BY <1>3, AheadIs
  <2>2. ~(2 * (p - q + SeqModulus) < SeqModulus)
    BY <1>1, <1>3
  <2> QED
    BY <1>1, <2>1, <2>2 DEF Diff
<1> QED
  BY <1>1, <1>2, <1>3

(* Going on from a position.                                               *)
LEMMA SeqAhead ==
  ASSUME NEW p \in Positions, NEW k \in Nat, p + k \in Positions
  PROVE  (SeqOf(p) + k) % SeqModulus = SeqOf(p + k)
<1>1. SeqModulus \in Nat \ {0} /\ StreamLen \in Nat /\ 2 * StreamLen + 2 < SeqModulus
      /\ Isn \in Nat /\ Isn < SeqModulus /\ p \in Nat /\ p + k <= StreamLen
  BY ReassemblerAssumption DEF Positions
<1>2. PICK x : x = SeqOf(p) + k
  OBVIOUS
<1>3. /\ SeqOf(p) \in 0..(SeqModulus - 1) /\ SeqOf(p + k) \in 0..(SeqModulus - 1)
      /\ SeqOf(p) = Isn + p \/ SeqOf(p) = Isn + p - SeqModulus
      /\ SeqOf(p + k) = Isn + p + k \/ SeqOf(p + k) = Isn + p + k - SeqModulus
  BY <1>1, SeqOfIs
<1>4. x \in Nat /\ x < 2 * SeqModulus
  BY <1>1, <1>2, <1>3
<1>5. CASE x < SeqModulus
  <2>1. x \in 0..(SeqModulus - 1)
    BY <1>4, <1>5, <1>1
  <2>2. x % SeqModulus = x
    BY <1>1, <2>1, ModBelow
  <2> QED
    BY <1>1, <1>2, <1>3, <1>5, <2>2
<1>6. CASE x >= SeqModulus
  <2>1. x \in SeqModulus..(2 * SeqModulus - 1)
    BY <1>1, <1>4, <1>6
  <2>2. x % SeqModulus = x - SeqModulus
    BY <1>1, <2>1, ModAbove
  <2> QED
    BY <1>1, <1>2, <1>3, <1>6, <2>2
<1> QED
  BY <1>1, <1>4, <1>5, <1>6

-----------------------------------------------------------------------------
(* Stretches of the stream.                                                *)

LEMMA StretchIs ==
  ASSUME NEW a \in Nat, NEW b \in Nat, a <= b
  PROVE  /\ Stretch(a, b) \in Seq(Nat) /\ Len(Stretch(a, b)) = b - a
         /\ \A k \in 1..(b - a) : Stretch(a, b)[k] = a + k - 1
<1>1. b - a \in Nat
  OBVIOUS
<1>2. \A k \in 1..(b - a) : a + k - 1 \in Nat
  OBVIOUS
<1> QED
  BY <1>1, <1>2 DEF Stretch

LEMMA StretchJoin ==
  ASSUME NEW a \in Nat, NEW b \in Nat, NEW c \in Nat, a <= b, b <= c
  PROVE  Stretch(a, b) \o Stretch(b, c) = Stretch(a, c)
<1>1. /\ Stretch(a, b) \in Seq(Nat) /\ Len(Stretch(a, b)) = b - a
      /\ Stretch(b, c) \in Seq(Nat) /\ Len(Stretch(b, c)) = c - b
  BY StretchIs
<1>2. a <= c
  OBVIOUS
<1>3. /\ Stretch(a, c) \in Seq(Nat) /\ Len(Stretch(a, c)) = c - a
      /\ \A k \in 1..(c - a) : Stretch(a, c)[k] = a + k - 1
  BY <1>2, StretchIs
<1>4. PICK j, s, t : j = s \o t /\ s = Stretch(a, b) /\ t = Stretch(b, c)
  OBVIOUS
<1>5. /\ j \in Seq(Nat) /\ Len(j) = (b - a) + (c - b)
      /\ \A i \in 1..((b - a) + (c - b)) :
           j[i] = IF i <= b - a THEN Stretch(a, b)[i] ELSE Stretch(b, c)[i - (b - a)]
  <2>1. s \in Seq(Nat) /\ t \in Seq(Nat) /\ Len(s) = b - a /\ Len(t) = c - b
    BY <1>1, <1>4
  <2>2. /\ s \o t \in Seq(Nat) /\ Len(s \o t) = Len(s) + Len(t)
        /\ \A i \in 1..(Len(s) + Len(t)) :
             (s \o t)[i] = IF i <= Len(s) THEN s[i] ELSE t[i - Len(s)]
    BY <2>1, ConcatProperties
  <2> QED
    BY <1>4, <2>1, <2>2
<1>6. ASSUME NEW k \in 1..(c - a) PROVE j[k] = a + k - 1
  <2>1. k \in 1..((b - a) + (c - b))
    OBVIOUS
  <2>2. CASE k <= b - a
    <3>1. j[k] = Stretch(a, b)[k]
      BY <1>5, <2>1, <2>2
    <3>2. k \in 1..(b - a)
      BY <2>2
    <3> QED
      BY <3>1, <3>2, StretchIs
  <2>3. CASE k > b - a
    <3>1. j[k] = Stretch(b, c)[k - (b - a)]
      BY <1>5, <2>1, <2>3
    <3>2. k - (b - a) \in 1..(c - b)
      BY <2>3
    <3>3. Stretch(b, c)[k - (b - a)] = b + (k - (b - a)) - 1
      BY <3>2, StretchIs
    <3> QED
      BY <3>1, <3>3
  <2> QED
    BY <2>2, <2>3
<1>7. Len(j) = Len(Stretch(a, c))
  BY <1>3, <1>5
<1>8. \A i \in 1..Len(j) : j[i] = Stretch(a, c)[i]
  BY <1>3, <1>6, <1>7
<1> QED
  BY <1>3, <1>4, <1>5, <1>7, <1>8, SeqEqual

LEMMA StretchRest ==
  ASSUME NEW a \in Nat, NEW b \in Nat, a <= b, NEW n \in 1..(b - a)
  PROVE  SubSeq(Stretch(a, b), n + 1, Len(Stretch(a, b))) = Stretch(a + n, b)
<1>1. /\ Stretch(a, b) \in Seq(Nat) /\ Len(Stretch(a, b)) = b - a
      /\ \A k \in 1..(b - a) : Stretch(a, b)[k] = a + k - 1
  BY StretchIs
<1>2. a + n \in Nat /\ a + n <= b
  OBVIOUS
<1>3. /\ Stretch(a + n, b) \in Seq(Nat) /\ Len(Stretch(a + n, b)) = b - (a + n)
      /\ \A k \in 1..(b - (a + n)) : Stretch(a + n, b)[k] = a + n + k - 1
  BY <1>2, StretchIs
<1>4. PICK j : j = SubSeq(Stretch(a, b), n + 1, b - a)
  OBVIOUS
<1>5. \A i \in (n + 1)..(b - a) : Stretch(a, b)[i] \in Nat
  BY <1>1
<1>6. /\ j \in Seq(Nat) /\ Len(j) = (IF n + 1 <= b - a THEN (b - a) - (n + 1) + 1 ELSE 0)
      /\ \A i \in 1..((b - a) - (n + 1) + 1) : j[i] = Stretch(a, b)[(n + 1) + i - 1]
  BY <1>4, <1>5, SubSeqProperties
<1>7. Len(j) = b - (a + n)
  BY <1>6
<1>8. ASSUME NEW k \in 1..(b - (a + n)) PROVE j[k] = Stretch(a + n, b)[k]
  <2>1. k \in 1..((b - a) - (n + 1) + 1) /\ (n + 1) + k - 1 \in 1..(b - a)
    OBVIOUS
  <2>2. j[k] = Stretch(a, b)[(n + 1) + k - 1]
    BY <1>6, <2>1
  <2>3. Stretch(a, b)[(n + 1) + k - 1] = a + ((n + 1) + k - 1) - 1
    BY <1>1, <2>1
  <2>4. Stretch(a + n, b)[k] = a + n + k - 1
    BY <1>3
  <2> QED
    BY <2>2, <2>3, <2>4
<1> QED
  BY <1>1, <1>3, <1>4, <1>6, <1>7, <1>8, SeqEqual

-----------------------------------------------------------------------------
(* Segments.                                                               *)

LEMMA SegmentsAre ==
  \A s \in Segments : /\ s.from \in Positions /\ s.seq = SeqOf(s.from)
                      /\ s.len \in Nat \ {0} /\ s.from + s.len <= StreamLen
<1> SUFFICES ASSUME NEW c \in Cuts
             PROVE  /\ c[1] \in Positions /\ c[2] \in Nat \ {0} /\ c[1] + c[2] <= StreamLen
  BY DEF Segments, Segment
<1>1. c \in (0..StreamLen) \X (1..StreamLen) /\ c[1] + c[2] <= StreamLen /\ StreamLen \in Nat
  BY ReassemblerAssumption
<1> QED
  BY <1>1 DEF Positions

LEMMA SuppliesIs ==
  ASSUME NEW s \in Segments, NEW p \in Positions, NEW k \in Nat
  PROVE  Supplies(s, SeqOf(p), k) <=> s.from <= p + k /\ p + k < s.from + s.len
<1>1. s.from \in Positions /\ s.seq = SeqOf(s.from) /\ s.len \in Nat
  BY SegmentsAre
<1>2. Diff(s.seq, SeqOf(p)) = s.from - p
  BY <1>1, DiffIs
<1>3. s.from \in Nat /\ p \in Nat
  BY <1>1, ReassemblerAssumption DEF Positions
<1> QED
  BY <1>1, <1>2, <1>3 DEF Supplies

(* What the segments S supply from position p on: the bytes up to the      *)
(* first position that none of them covers.                                *)
LEMMA ReachIs ==
  ASSUME NEW S \in SUBSET Segments, NEW p \in Positions
  PROVE  LET k == Reach(S, SeqOf(p))
         IN  /\ k \in Nat /\ p + k \in Positions
             /\ \A j \in 0..(k - 1) : \E s \in S : Supplies(s, SeqOf(p), j)
             /\ \A s \in S : ~Supplies(s, SeqOf(p), k)
<1>1. StreamLen \in Nat /\ p \in Nat /\ p <= StreamLen
  BY ReassemblerAssumption DEF Positions
<1> DEFINE n == SeqOf(p)
           Short(k) == \A s \in S : ~Supplies(s, n, k)
           Good(k) == (\A j \in 0..(k - 1) : \E s \in S : Supplies(s, n, j)) /\ Short(k)
           U == {k \in Nat : Short(k)}
<1>2. StreamLen - p \in U
  <2>1. ASSUME NEW s \in S PROVE ~Supplies(s, n, StreamLen - p)
    <3>1. StreamLen - p \in Nat
      BY <1>1
    <3>2. s.from + s.len <= StreamLen
      BY SegmentsAre
    <3>3. Supplies(s, n, StreamLen - p) =>
            s.from <= p + (StreamLen - p) /\ p + (StreamLen - p) < s.from + s.len
      BY <3>1, SuppliesIs
    <3>4. s.from \in Nat /\ s.len \in Nat
      BY SegmentsAre DEF Positions
    <3> QED
      BY <1>1, <3>2, <3>3, <3>4
  <2> QED
    BY <1>1, <2>1
<1>3. PICK k \in U : \A q \in U : k <= q
  <2>1. U \in SUBSET Nat
    OBVIOUS
  <2> HIDE DEF U
  <2> QED
    BY <1>2, <2>1, Least
<1>4. k <= StreamLen - p
  BY <1>2, <1>3
<1>5. Good(k) /\ k \in 0..StreamLen
  <2>1. \A j \in 0..(k - 1) : j \notin U /\ j \in Nat
    BY <1>3
  <2> QED
    BY <1>1, <1>3, <1>4, <2>1
<1>6. Reach(S, n) = CHOOSE i \in 0..StreamLen : Good(i)
  BY DEF Reach
<1>7. PICK r : r = Reach(S, n) /\ r \in 0..StreamLen /\ Good(r)
  <2> HIDE DEF Good
  <2> QED
    BY <1>5, <1>6
<1>8. r <= StreamLen - p
  <2>1. r \in U /\ (StreamLen - p < r => StreamLen - p \in 0..(r - 1))
    BY <1>1, <1>7
  <2> QED
    BY <1>1, <1>2, <1>7, <2>1
<1> QED
  BY <1>1, <1>7, <1>8 DEF Positions

(* What is gathered are the bytes of the stream that follow.               *)
LEMMA GatheredIs ==
  ASSUME NEW S \in SUBSET Segments, NEW p \in Positions
  PROVE  Gathered(S, SeqOf(p)) = Stretch(p, p + Reach(S, SeqOf(p)))
<1> DEFINE n == SeqOf(p)
<1>1. PICK r : r = Reach(S, n)
  OBVIOUS
<1>2. /\ r \in Nat /\ p \in Nat
      /\ \A j \in 0..(r - 1) : \E s \in S : Supplies(s, n, j)
  BY <1>1, ReachIs DEF Positions
<1>3. ASSUME NEW k \in 1..r, NEW s, s = CHOOSE t \in S : Supplies(t, n, k - 1)
      PROVE  s.from + (k - 1) - Diff(s.seq, n) = p + k - 1
  <2>1. k - 1 \in 0..(r - 1)
    BY <1>2
  <2>2. s \in S
    BY <1>2, <1>3, <2>1
  <2>3. s.from \in Nat /\ s.from \in Positions /\ s.seq = SeqOf(s.from)
    BY <2>2, SegmentsAre DEF Positions
  <2>4. Diff(s.seq, n) = s.from - p
    BY <2>3, DiffIs
  <2> QED
    BY <1>2, <2>3, <2>4
<1>4. Gathered(S, n) = [k \in 1..r |-> p + k - 1]
  BY <1>1, <1>3 DEF Gathered
<1>5. (p + r) - p = r
  BY <1>2
<1> QED
  BY <1>1, <1>4, <1>5 DEF Stretch

LEMMA StillAheadIs ==
  ASSUME NEW h \in [Segments -> Nat], NEW p \in Positions, NEW k \in Nat, p + k \in Positions
  PROVE  /\ StillAhead(h, SeqOf(p), k) \in [Segments -> Nat]
         /\ \A s \in Held(StillAhead(h, SeqOf(p), k)) : s \in Held(h) /\ s.from > p + k
<1>1. ASSUME NEW s \in Segments PROVE Diff(s.seq, SeqOf(p)) = s.from - p /\ s.from \in Nat
  <2>1. s.from \in Positions /\ s.seq = SeqOf(s.from)
    BY SegmentsAre
  <2> QED
    BY <2>1, DiffIs DEF Positions
<1>2. PICK g : g = StillAhead(h, SeqOf(p), k)
  OBVIOUS
<1>3. g \in [Segments -> Nat]
      /\ \A s \in Segments : g[s] = IF Diff(s.seq, SeqOf(p)) <= k THEN 0 ELSE h[s]
  BY <1>2 DEF StillAhead
<1>4. ASSUME NEW s \in Held(g) PROVE s \in Held(h) /\ s.from > p + k
  <2>1. s \in Segments /\ g[s] > 0
    BY DEF Held
  <2>2. ~(Diff(s.seq, SeqOf(p)) <= k) /\ h[s] > 0
    BY <1>3, <2>1
  <2>3. ~(s.from - p <= k) /\ s.from \in Nat /\ p \in Nat
    BY <1>1, <2>1, <2>2 DEF Positions
  <2> QED
    BY <2>1, <2>2, <2>3 DEF Held
<1> QED
  BY <1>2, <1>3, <1>4

LEMMA NothingHeld == \A h \in [Segments -> Nat] : Held(h) = {} <=> h = Nothing
<1> SUFFICES ASSUME NEW h \in [Segments -> Nat] PROVE Held(h) = {} <=> h = Nothing
  OBVIOUS
<1>1. ASSUME h = Nothing PROVE Held(h) = {}
  BY <1>1 DEF Held, Nothing
<1>2. ASSUME Held(h) = {} PROVE h = Nothing
  <2>1. \A s \in Segments : h[s] = 0
    BY <1>2 DEF Held
  <2> QED
    BY <2>1 DEF Nothing
<1> QED
  BY <1>1, <1>2

(* The lowest position that is held is the one a gap jumps to.             *)
LEMMA EarliestIs ==
  ASSUME NEW S \in SUBSET Segments, S # {}, NEW p \in Positions, \A s \in S : s.from > p
  PROVE  \E m \in Positions :
           /\ m > p /\ Earliest(S, SeqOf(p)) = SeqOf(m)
           /\ \A s \in S : m <= s.from
           /\ \E s \in S : s.from = m
<1>1. ASSUME NEW s \in S
      PROVE  s.from \in Positions /\ s.from \in Nat /\ Ahead(s.seq, SeqOf(p)) = s.from - p
             /\ s.seq = SeqOf(s.from)
  <2>1. s.from \in Positions /\ s.seq = SeqOf(s.from) /\ s.from \in Nat
    BY SegmentsAre DEF Positions
  <2>2. s.from >= p
    BY <2>1 DEF Positions
  <2> QED
    BY <2>1, <2>2, AheadIs
<1> DEFINE F == {s.from : s \in S}
<1>2. PICK m \in F : \A q \in F : m <= q
  <2>1. F # {} /\ F \in SUBSET Nat
    BY <1>1
  <2> HIDE DEF F
  <2> QED
    BY <2>1, Least
<1>3. PICK e \in S : e.from = m
  BY <1>2
<1>4. \A s \in S : m <= s.from
  BY <1>2
<1> DEFINE T == {s.seq : s \in S}
           Nearest(t) == \A s \in S : Ahead(t, SeqOf(p)) <= Ahead(s.seq, SeqOf(p))
<1>5. e.seq \in T /\ Nearest(e.seq)
  BY <1>1, <1>3, <1>4 DEF Positions
<1>6. PICK t : t = Earliest(S, SeqOf(p)) /\ t \in T /\ Nearest(t)
  <2>1. Earliest(S, SeqOf(p)) = CHOOSE x \in T : Nearest(x)
    BY DEF Earliest
  <2> HIDE DEF T, Nearest
  <2> QED
    BY <1>5, <2>1
<1>7. PICK s \in S : t = s.seq
  BY <1>6
<1>8. s.from - p <= e.from - p
  BY <1>1, <1>6, <1>7
<1>9. s.from = m
  BY <1>1, <1>3, <1>4, <1>8 DEF Positions
<1> QED
  BY <1>1, <1>3, <1>4, <1>6, <1>7, <1>9

-----------------------------------------------------------------------------
(* The two moves of the code, told in positions.                           *)

(* The stream was at position p, stream offset off, and is at q now; the   *)
(* buffer starts at a.                                                     *)
Reached(p, q, off, a, since) ==
  /\ q \in Positions /\ p <= q
  /\ next_seq' = SeqOf(q)
  /\ delivered_off' = off + (q - p)
  /\ buf' = Stretch(a, q)
  /\ ooo' \in [Segments -> Nat]
  /\ \A s \in Held(ooo') : s.from > q
  /\ waited' = NoTimer \/ (waited' = since /\ Held(ooo') # {})

LEMMA Drained ==
  ASSUME NEW S \in SUBSET Segments, NEW h \in [Segments -> Nat], NEW since,
         NEW p \in Positions, NEW off \in Nat, NEW a \in Nat, a <= p,
         NEW n, n = SeqOf(p), NEW have, have = Stretch(a, p),
         DrainOoo(S, h, since, n, off, have)
  PROVE  \E q \in Positions :
           /\ Reached(p, q, off, a, since)
           /\ \A s \in S : s.from <= p /\ p < s.from + s.len => p < q
<1>1. PICK k : k = Reach(S, SeqOf(p))
  OBVIOUS
<1>2. /\ k \in Nat /\ p + k \in Positions /\ p \in Nat
      /\ \A s \in S : ~Supplies(s, SeqOf(p), k)
  <2>1. p \in Nat
    BY DEF Positions
  <2> QED
    BY <1>1, <2>1, ReachIs
<1>3. /\ next_seq' = (SeqOf(p) + k) % SeqModulus
      /\ delivered_off' = off + k
      /\ buf' = Stretch(a, p) \o Gathered(S, SeqOf(p))
      /\ ooo' = StillAhead(h, SeqOf(p), k)
      /\ waited' = IF ooo' = Nothing THEN NoTimer ELSE since
  BY <1>1 DEF DrainOoo
<1>4. next_seq' = SeqOf(p + k)
  BY <1>2, <1>3, SeqAhead
<1>5. buf' = Stretch(a, p + k)
  <2>1. Gathered(S, SeqOf(p)) = Stretch(p, p + k)
    BY <1>1, GatheredIs
  <2>2. p <= p + k /\ p + k \in Nat
    BY <1>2
  <2>3. Stretch(a, p) \o Stretch(p, p + k) = Stretch(a, p + k)
    BY <1>2, <2>2, StretchJoin
  <2> QED
    BY <1>3, <2>1, <2>3
<1>6. ooo' \in [Segments -> Nat] /\ \A s \in Held(ooo') : s.from > p + k
  BY <1>2, <1>3, StillAheadIs
<1>7. waited' = NoTimer \/ (waited' = since /\ Held(ooo') # {})
  <2>1. ooo' # Nothing => Held(ooo') # {}
    BY <1>6, NothingHeld
  <2> QED
    BY <1>3, <2>1
<1>8. p <= p + k /\ (p + k) - p = k
  BY <1>2
<1>9. Reached(p, p + k, off, a, since)
  BY <1>2, <1>3, <1>4, <1>5, <1>6, <1>7, <1>8 DEF Reached
<1>10. ASSUME NEW s \in S, s.from <= p, p < s.from + s.len PROVE p < p + k
  <2>1. Supplies(s, SeqOf(p), 0)
    <3>1. p + 0 = p
      BY <1>2
    <3> QED
      BY <1>10, <3>1, SuppliesIs
  <2>2. k # 0
    BY <1>2, <2>1
  <2> QED
    BY <1>2, <2>2
<1> QED
  BY <1>2, <1>9, <1>10

LEMMA Jumped ==
  ASSUME NEW h \in [Segments -> Nat], Held(h) # {},
         NEW p \in Positions, next_seq = SeqOf(p), delivered_off \in Nat,
         \A s \in Held(h) : s.from > p,
         ForceGap(h)
  PROVE  \E m, q \in Positions :
           /\ p < m /\ m < q
           /\ Reached(m, q, delivered_off + (m - p), m, NoTimer)
           /\ buf_off' = delivered_off + (m - p)
           /\ gaps' = gaps + 1
           /\ \A s \in Held(h) : m <= s.from
<1>1. PICK S : S = Held(h) /\ S \in SUBSET Segments
  BY DEF Held
<1>2. PICK m \in Positions :
        /\ m > p /\ Earliest(S, SeqOf(p)) = SeqOf(m)
        /\ \A s \in S : m <= s.from
        /\ \E s \in S : s.from = m
  BY <1>1, EarliestIs
<1>3. p \in Nat /\ m \in Nat /\ p < m
  BY <1>2 DEF Positions
<1>4. Ahead(SeqOf(m), SeqOf(p)) = m - p
  BY <1>2, <1>3, AheadIs
<1>5. PICK off : off = delivered_off + (m - p) /\ off \in Nat
  BY <1>3
<1>6. /\ gaps' = gaps + 1
      /\ buf_off' = off
      /\ DrainOoo(S, h, NoTimer, SeqOf(m), off, <<>>)
  BY <1>1, <1>2, <1>4, <1>5 DEF ForceGap
<1>7. << >> = Stretch(m, m)
  BY <1>3 DEF Stretch
<1>8. PICK q \in Positions :
        /\ Reached(m, q, off, m, NoTimer)
        /\ \A s \in S : s.from <= m /\ m < s.from + s.len => m < q
  <2>1. m <= m
    BY <1>3
  <2> QED
    BY <1>1, <1>3, <1>5, <1>6, <1>7, <2>1, Drained
<1>9. m < q
  <2>1. PICK s \in S : s.from = m
    BY <1>2
  <2>2. s.len \in Nat \ {0}
    BY <1>1, <2>1, SegmentsAre
  <2>3. s.from <= m /\ m < s.from + s.len
    BY <1>3, <2>1, <2>2
  <2> QED
    BY <1>8, <2>1, <2>3
<1> QED
  BY <1>1, <1>2, <1>3, <1>5, <1>6, <1>8, <1>9

-----------------------------------------------------------------------------
(* What a step can do to a stream observed from position o on.             *)

Here(o) == o + delivered_off

Kept(o) ==
  /\ UNCHANGED <<initialized, place, buf, buf_off, gaps>>
  /\ ooo' \in [Segments -> Nat]
  /\ \A s \in Held(ooo') : s.from > Here(o)
  /\ waited' \in NoTimer..OooTimeout
  /\ waited' # NoTimer => Held(ooo') # {}

Extended(o) ==
  /\ UNCHANGED <<initialized, base_seq, buf_off, gaps>>
  /\ \E q \in Positions :
       /\ Here(o) < q
       /\ Reached(Here(o), q, delivered_off, o + buf_off, waited)

Skipped(o) ==
  /\ UNCHANGED <<initialized, base_seq>>
  /\ gaps' = gaps + 1
  /\ \E m, q \in Positions :
       /\ Here(o) < m /\ m < q
       /\ Reached(m, q, m - o, m, NoTimer)
       /\ buf_off' = m - o
       /\ \A s \in Held(ooo) : m <= s.from

Taken(o) ==
  /\ UNCHANGED <<initialized, place, hold, gaps>>
  /\ \E n \in 1..(delivered_off - buf_off) :
       /\ buf' = Stretch(o + buf_off + n, Here(o))
       /\ buf_off' = buf_off + n

Begun(o) ==
  /\ initialized' /\ base_seq' = SeqOf(o)
  /\ UNCHANGED <<buf_off, gaps>>
  /\ \E q \in Positions : Reached(o, q, 0, o, NoTimer)

(* Observed from o on, the stream and the buffer are at known positions.   *)
LEMMA ObservedIs ==
  ASSUME RInv, NEW o \in Positions, Observed(o)
  PROVE  /\ o \in Nat /\ delivered_off \in Nat /\ buf_off \in Nat
         /\ Here(o) \in Positions /\ Here(o) \in Nat
         /\ o + buf_off \in Nat /\ o + buf_off <= Here(o)
         /\ buf = Stretch(o + buf_off, Here(o)) /\ Len(buf) = delivered_off - buf_off
         /\ next_seq = SeqOf(Here(o))
<1>1. o \in Nat /\ delivered_off \in Nat /\ buf_off \in Nat /\ StreamLen \in Nat
      /\ buf_off <= delivered_off /\ o + delivered_off <= StreamLen
  BY ReassemblerAssumption DEF RInv, Positions, Observed
<1>2. /\ Here(o) \in Positions /\ Here(o) \in Nat
      /\ o + buf_off \in Nat /\ o + buf_off <= Here(o)
      /\ Here(o) - (o + buf_off) = delivered_off - buf_off
  BY <1>1 DEF Here, Positions
<1>3. buf = Stretch(o + buf_off, Here(o)) /\ next_seq = SeqOf(Here(o))
  BY DEF Observed, Here
<1>4. PICK a, b \in Nat : a = o + buf_off /\ b = Here(o)
  BY <1>2
<1>5. Len(Stretch(a, b)) = b - a
  BY <1>2, <1>4, StretchIs
<1> QED
  BY <1>1, <1>2, <1>3, <1>4, <1>5

LEMMA SkippedBy ==
  ASSUME RInv, initialized, NEW o \in Positions, Observed(o),
         NEW h \in [Segments -> Nat], Held(h) # {},
         \A s \in Held(h) : s.from > Here(o),
         Held(ooo) \subseteq Held(h),
         ForceGap(h), UNCHANGED <<initialized, base_seq>>
  PROVE  Skipped(o)
<1>1. PICK p \in Positions : p = Here(o)
  BY ObservedIs
<1>2. next_seq = SeqOf(p) /\ delivered_off \in Nat /\ o \in Nat /\ p \in Nat
      /\ p = o + delivered_off
  BY <1>1, ObservedIs DEF Here
<1>3. \A s \in Held(h) : s.from > p
  BY <1>1
<1>4. PICK m, q \in Positions :
        /\ p < m /\ m < q
        /\ Reached(m, q, delivered_off + (m - p), m, NoTimer)
        /\ buf_off' = delivered_off + (m - p)
        /\ gaps' = gaps + 1
        /\ \A s \in Held(h) : m <= s.from
  BY <1>2, <1>3, Jumped
<1>5. m \in Nat /\ delivered_off + (m - p) = m - o
  BY <1>2 DEF Positions
<1>6. Reached(m, q, m - o, m, NoTimer) /\ buf_off' = m - o
  BY <1>4, <1>5
<1> QED
  BY <1>1, <1>4, <1>6 DEF Skipped

LEMMA ObservedData ==
  ASSUME RInv, initialized, NEW o \in Positions, Observed(o), NEW s \in Segments, Data(s)
  PROVE  Kept(o) \/ Extended(o) \/ Skipped(o)
<1>1. PICK p \in Positions : p = Here(o)
  BY ObservedIs
<1>2. /\ o \in Nat /\ delivered_off \in Nat /\ buf_off \in Nat /\ p \in Nat
      /\ o + buf_off \in Nat /\ o + buf_off <= p
      /\ buf = Stretch(o + buf_off, p) /\ next_seq = SeqOf(p)
  BY <1>1, ObservedIs
<1>3. /\ ooo \in [Segments -> Nat] /\ waited \in NoTimer..OooTimeout
      /\ waited # NoTimer => Held(ooo) # {}
      /\ \A t \in Held(ooo) : t.from > p
  BY <1>1 DEF RInv, Observed, Here
<1>4. initialized = TRUE
  BY DEF RInv
<1>5. Push(s, next_seq) /\ UNCHANGED <<initialized, base_seq>>
  BY <1>4 DEF Data
<1>6. /\ s.from \in Nat /\ s.from \in Positions /\ s.seq = SeqOf(s.from)
      /\ s.len \in Nat \ {0}
  BY SegmentsAre DEF Positions
<1>7. PICK d \in Int : d = Diff(s.seq, next_seq) /\ d = s.from - p
  BY <1>2, <1>6, DiffIs
<1>8. PICK h : h = [ooo EXCEPT ![s] = @ + 1]
  OBVIOUS
<1>9. /\ h \in [Segments -> Nat] /\ s \in Held(h)
      /\ Held(ooo) \subseteq Held(h)
      /\ \A t \in Held(h) : t = s \/ t \in Held(ooo)
  BY <1>3, <1>8 DEF Held
<1>10. CASE /\ d <= 0 /\ -d >= s.len /\ next_seq' = next_seq
            /\ UNCHANGED <<delivered_off, buf, buf_off, hold, gaps>>
  <2>1. UNCHANGED <<initialized, place, buf, buf_off, gaps>> /\ ooo' = ooo /\ waited' = waited
    BY <1>5, <1>10 DEF place, hold
  <2> QED
    BY <1>1, <1>3, <2>1 DEF Kept
<1>11. CASE /\ d <= 0 /\ -d < s.len
            /\ DrainOoo({s} \cup Held(ooo), ooo, waited, next_seq, delivered_off, buf)
            /\ UNCHANGED <<buf_off, gaps>>
  <2>1. PICK S, g, w, off, a, n, have :
          /\ S = {s} \cup Held(ooo) /\ g = ooo /\ w = waited /\ off = delivered_off
          /\ a = o + buf_off /\ n = next_seq /\ have = buf
    OBVIOUS
  <2>2. /\ S \in SUBSET Segments /\ g \in [Segments -> Nat] /\ off \in Nat /\ a \in Nat
        /\ a <= p /\ n = SeqOf(p) /\ have = Stretch(a, p)
        /\ DrainOoo(S, g, w, n, off, have)
    BY <1>2, <1>3, <1>11, <2>1 DEF Held
  <2>3. PICK q \in Positions :
          /\ Reached(p, q, off, a, w)
          /\ \A t \in S : t.from <= p /\ p < t.from + t.len => p < q
    BY <2>2, Drained
  <2>4. s \in S /\ s.from <= p /\ p < s.from + s.len
    BY <1>2, <1>6, <1>7, <1>11, <2>1
  <2> QED
    BY <1>1, <1>5, <1>11, <2>1, <2>3, <2>4 DEF Extended
<1>12. CASE d > 0 /\ Overflows(h) /\ ForceGap(h)
  <2>1. \A t \in Held(h) : t.from > Here(o)
    BY <1>1, <1>2, <1>3, <1>6, <1>7, <1>9, <1>12
  <2> QED
    BY <1>5, <1>9, <1>12, <2>1, SkippedBy
<1>13. CASE /\ d > 0 /\ ooo' = h /\ waited' = StartTimer /\ next_seq' = next_seq
            /\ UNCHANGED <<delivered_off, buf, buf_off, gaps>>
  <2>1. \A t \in Held(ooo') : t.from > Here(o)
    BY <1>1, <1>2, <1>3, <1>6, <1>7, <1>9, <1>13
  <2>2. waited' \in NoTimer..OooTimeout
    BY <1>3, <1>13, ReassemblerAssumption DEF StartTimer, NoTimer
  <2> QED
    BY <1>5, <1>9, <1>13, <2>1, <2>2 DEF Kept, place
<1> QED
  BY <1>5, <1>7, <1>8, <1>10, <1>11, <1>12, <1>13 DEF Push

LEMMA ObservedStep ==
  ASSUME RInv, initialized, NEW o \in Positions, Observed(o), [Next]_vars
  PROVE  Kept(o) \/ Extended(o) \/ Skipped(o) \/ Taken(o)
<1>1. /\ ooo \in [Segments -> Nat] /\ waited \in NoTimer..OooTimeout
      /\ waited # NoTimer => Held(ooo) # {}
      /\ \A t \in Held(ooo) : t.from > Here(o)
  BY DEF RInv, Observed, Here
<1>2. initialized = TRUE
  BY DEF RInv
<1>3. ASSUME UNCHANGED vars PROVE Kept(o)
  BY <1>1, <1>3 DEF Kept, vars, place
<1>4. ASSUME NEW c \in Cuts, Data(Segment(c)) PROVE Kept(o) \/ Extended(o) \/ Skipped(o)
  <2>1. PICK s \in Segments : s = Segment(c)
    BY DEF Segments
  <2> QED
    BY <1>4, <2>1, ObservedData
<1>5. ASSUME Syn PROVE Kept(o)
  <2>1. UNCHANGED vars
    BY <1>2, <1>5 DEF Syn, vars, hold
  <2> QED
    BY <1>3, <2>1
<1>6. ASSUME Tick PROVE Kept(o) \/ Skipped(o)
  <2>1. CASE waited = NoTimer
    BY <1>3, <1>6, <2>1 DEF Tick, vars, hold, ForceGap
  <2>2. CASE waited # NoTimer /\ waited + 1 <= OooTimeout
    <3>1. /\ waited' = waited + 1
          /\ UNCHANGED <<initialized, base_seq, next_seq, delivered_off, buf, buf_off, ooo, gaps>>
      BY <1>1, <1>6, <2>2, ReassemblerAssumption DEF Tick, NoTimer
    <3>2. waited' \in NoTimer..OooTimeout
      BY <1>1, <2>2, <3>1, ReassemblerAssumption DEF NoTimer
    <3> QED
      BY <1>1, <2>2, <3>1, <3>2 DEF Kept, place
  <2>3. CASE waited # NoTimer /\ ~(waited + 1 <= OooTimeout)
    <3>1. ForceGap(ooo) /\ UNCHANGED <<initialized, base_seq>>
      BY <1>6, <2>3 DEF Tick
    <3>2. PICK h : h = ooo
      OBVIOUS
    <3>3. /\ h \in [Segments -> Nat] /\ Held(h) # {} /\ Held(ooo) \subseteq Held(h)
          /\ \A s \in Held(h) : s.from > Here(o)
          /\ ForceGap(h)
      BY <1>1, <2>3, <3>1, <3>2
    <3> QED
      BY <3>1, <3>3, SkippedBy
  <2> QED
    BY <2>1, <2>2, <2>3
<1>7. ASSUME NEW n \in 1..StreamLen, Consume(n) PROVE Taken(o)
  <2>1. PICK a, b \in Nat : a = o + buf_off /\ b = Here(o) /\ a <= b /\ buf = Stretch(a, b)
                            /\ b - a = delivered_off - buf_off
    BY ObservedIs DEF Here
  <2>2. n \in 1..(b - a)
    BY <1>7, <2>1, StretchIs DEF Consume
  <2>3. buf' = Stretch(a + n, b)
    BY <1>7, <2>1, <2>2, StretchRest DEF Consume
  <2> QED
    BY <1>7, <2>1, <2>2, <2>3 DEF Consume, Taken
<1> QED
  BY <1>3, <1>4, <1>5, <1>6, <1>7 DEF Next

(* Before anything was observed only a SYN or a segment does something.    *)
LEMMA FirstStep ==
  ASSUME RInv, ~initialized, [Next]_vars
  PROVE  UNCHANGED vars \/ \E o \in Positions : Begun(o)
<1>1. Unobserved /\ initialized = FALSE
  BY DEF RInv
<1>2. StreamLen \in Nat /\ 0 \in Positions
  BY ReassemblerAssumption DEF Positions
<1>3. Held(Nothing) = {}
  BY DEF Held, Nothing
<1>4. ASSUME NEW c \in Cuts, Data(Segment(c)) PROVE \E o \in Positions : Begun(o)
  <2>1. PICK s \in Segments : s = Segment(c)
    BY DEF Segments
  <2>2. PICK p \in Positions : p = s.from /\ p \in Nat /\ s.seq = SeqOf(p) /\ s.len \in Nat \ {0}
    BY SegmentsAre DEF Positions
  <2>3. Push(s, SeqOf(p)) /\ base_seq' = SeqOf(p) /\ initialized'
    BY <1>1, <1>4, <2>1, <2>2 DEF Data
  <2>4. Diff(s.seq, SeqOf(p)) = 0
    BY <2>2, DiffIs
  <2>5. /\ DrainOoo({s} \cup Held(ooo), ooo, waited, SeqOf(p), delivered_off, buf)
        /\ UNCHANGED <<buf_off, gaps>>
    <3>1. ~(-0 >= s.len) /\ ~(0 > 0)
      BY <2>2
    <3> QED
      BY <2>3, <2>4, <3>1 DEF Push
  <2>6. DrainOoo({s}, Nothing, NoTimer, SeqOf(p), 0, <<>>)
    <3>1. {s} \cup Held(ooo) = {s} /\ ooo = Nothing /\ waited = NoTimer
          /\ delivered_off = 0 /\ buf = <<>>
      BY <1>1, <1>3 DEF Unobserved
    <3> QED
      BY <2>5, <3>1
  <2>7. << >> = Stretch(p, p)
    BY <2>2 DEF Stretch
  <2>8. PICK q \in Positions : Reached(p, q, 0, p, NoTimer)
    <3>1. {s} \in SUBSET Segments /\ Nothing \in [Segments -> Nat] /\ p <= p /\ 0 \in Nat
      BY <2>2 DEF Nothing
    <3> QED
      BY <2>2, <2>6, <2>7, <3>1, Drained
  <2> QED
    BY <2>3, <2>5, <2>8 DEF Begun
<1>5. ASSUME Syn PROVE Begun(0)
  <2>1. /\ initialized' /\ base_seq' = SeqOf(0) /\ next_seq' = SeqOf(0)
        /\ UNCHANGED <<delivered_off, buf, buf_off, ooo, waited, gaps>>
    BY <1>1, <1>5 DEF Syn, hold
  <2>2. << >> = Stretch(0, 0)
    BY DEF Stretch
  <2>3. Reached(0, 0, 0, 0, NoTimer)
    <3>1. /\ delivered_off' = 0 + (0 - 0) /\ buf' = Stretch(0, 0)
          /\ ooo' = Nothing /\ Nothing \in [Segments -> Nat] /\ waited' = NoTimer
      BY <1>1, <2>1, <2>2 DEF Unobserved, Nothing
    <3> QED
      BY <1>2, <1>3, <2>1, <3>1 DEF Reached
  <2> QED
    BY <1>2, <2>1, <2>3 DEF Begun
<1>6. ASSUME Tick PROVE UNCHANGED vars
  BY <1>1, <1>6 DEF Tick, Unobserved, vars, hold
<1>7. ASSUME NEW n \in 1..StreamLen, Consume(n) PROVE FALSE
  <2>1. Len(buf) = 0
    BY <1>1 DEF Unobserved
  <2> QED
    BY <1>7, <2>1 DEF Consume
<1> QED
  BY <1>2, <1>4, <1>5, <1>6, <1>7 DEF Next

-----------------------------------------------------------------------------
(* The invariant is inductive.                                             *)

LEMMA RStart == ASSUME Init PROVE RInv
<1>1. Nothing \in [Segments -> Nat] /\ Held(Nothing) = {}
  BY DEF Nothing, Held
<1>2. waited \in NoTimer..OooTimeout
  BY ReassemblerAssumption DEF Init, NoTimer
<1> QED
  BY <1>1, <1>2 DEF Init, RInv, Unobserved

(* After a move to position q the stream is still observed from o on.      *)
LEMMA StillObserved ==
  ASSUME NEW o \in Positions, NEW p \in Positions, NEW q, NEW off \in Nat, NEW a \in Nat, NEW w,
         NEW b \in Nat,
         Reached(p, q, off, a, w), o + off = p, a = o + b, a <= p, buf_off' = b,
         base_seq' = SeqOf(o), initialized',
         gaps' \in Nat, w \in NoTimer..OooTimeout, initialized' \in BOOLEAN
  PROVE  RInv'
<1>1. /\ q \in Positions /\ p <= q /\ q \in Nat /\ p \in Nat /\ o \in Nat /\ q <= StreamLen
      /\ next_seq' = SeqOf(q) /\ delivered_off' = off + (q - p) /\ buf' = Stretch(a, q)
      /\ ooo' \in [Segments -> Nat] /\ \A s \in Held(ooo') : s.from > q
      /\ waited' = NoTimer \/ (waited' = w /\ Held(ooo') # {})
  BY DEF Reached, Positions
<1>2. /\ delivered_off' \in Nat /\ o + delivered_off' = q /\ b <= delivered_off'
  BY <1>1
<1>3. waited' \in NoTimer..OooTimeout /\ (waited' # NoTimer => Held(ooo') # {})
  BY <1>1, ReassemblerAssumption DEF NoTimer
<1>4. Observed(o)'
  BY <1>1, <1>2 DEF Observed
<1>5. o \in 0..StreamLen
  BY DEF Positions
<1>6. \E i \in 0..StreamLen : Observed(i)'
  BY <1>4, <1>5
<1> QED
  BY <1>1, <1>2, <1>3, <1>6 DEF RInv

LEMMA RKept ==
  ASSUME RInv, initialized, NEW o \in Positions, Observed(o), Kept(o) PROVE RInv'
<1>1. Observed(o)' /\ o \in 0..StreamLen
  BY DEF Observed, Kept, place, Here, Positions
<1>2. \E i \in 0..StreamLen : Observed(i)'
  BY <1>1
<1> QED
  BY <1>2 DEF RInv, Kept, place

LEMMA RExtended ==
  ASSUME RInv, initialized, NEW o \in Positions, Observed(o), Extended(o) PROVE RInv'
<1>1. PICK q \in Positions : Reached(Here(o), q, delivered_off, o + buf_off, waited)
  BY DEF Extended
<1>2. PICK p \in Positions, off \in Nat, b \in Nat, w \in NoTimer..OooTimeout :
        /\ p = Here(o) /\ off = delivered_off /\ b = buf_off /\ w = waited
        /\ o + off = p /\ o + b <= p /\ o + b \in Nat
  BY ObservedIs DEF RInv, Here
<1>3. /\ Reached(p, q, off, o + b, w) /\ buf_off' = b /\ base_seq' = SeqOf(o)
      /\ initialized' /\ initialized' \in BOOLEAN /\ gaps' \in Nat
  BY <1>1, <1>2 DEF Extended, RInv, Observed
<1> QED
  BY <1>2, <1>3, StillObserved

LEMMA RSkipped ==
  ASSUME RInv, initialized, NEW o \in Positions, Observed(o), Skipped(o) PROVE RInv'
<1>1. PICK m, q \in Positions :
        Here(o) < m /\ Reached(m, q, m - o, m, NoTimer) /\ buf_off' = m - o
  BY DEF Skipped
<1>2. o \in Nat /\ m \in Nat /\ o <= m
  BY <1>1, ObservedIs DEF Positions, Here
<1>3. m - o \in Nat /\ o + (m - o) = m /\ m <= m
  BY <1>2
<1>4. NoTimer \in NoTimer..OooTimeout
  BY ReassemblerAssumption DEF NoTimer
<1>5. /\ base_seq' = SeqOf(o) /\ initialized' /\ initialized' \in BOOLEAN /\ gaps' \in Nat
  BY DEF Skipped, RInv, Observed
<1> QED
  BY <1>1, <1>2, <1>3, <1>4, <1>5, StillObserved

LEMMA RTaken ==
  ASSUME RInv, initialized, NEW o \in Positions, Observed(o), Taken(o) PROVE RInv'
<1>1. PICK n \in 1..(delivered_off - buf_off) :
        buf' = Stretch(o + buf_off + n, Here(o)) /\ buf_off' = buf_off + n
  BY DEF Taken
<1>2. /\ buf_off' \in Nat /\ buf_off' <= delivered_off
      /\ o + buf_off + n = o + buf_off'
  BY <1>1, ObservedIs
<1>3. Observed(o)' /\ o \in 0..StreamLen
  BY <1>1, <1>2 DEF Observed, Taken, place, hold, Here, Positions
<1>4. \E i \in 0..StreamLen : Observed(i)'
  BY <1>3
<1> QED
  BY <1>2, <1>4 DEF RInv, Taken, place, hold

LEMMA RBegun ==
  ASSUME RInv, ~initialized, NEW o \in Positions, Begun(o) PROVE RInv'
<1>1. PICK q \in Positions : Reached(o, q, 0, o, NoTimer)
  BY DEF Begun
<1>2. /\ initialized' /\ base_seq' = SeqOf(o) /\ buf_off' = 0 /\ gaps' \in Nat
  BY DEF Begun, RInv, Unobserved
<1>3. o \in Nat /\ o + 0 = o /\ o <= o /\ 0 \in Nat
  BY DEF Positions
<1>4. NoTimer \in NoTimer..OooTimeout
  BY ReassemblerAssumption DEF NoTimer
<1>5. initialized' \in BOOLEAN
  BY <1>2 DEF Begun
<1> QED
  BY <1>1, <1>2, <1>3, <1>4, <1>5, StillObserved

LEMMA RPicked == ASSUME RInv, initialized PROVE \E o \in Positions : Observed(o)
  BY DEF RInv, Positions

LEMMA RStep == ASSUME RInv, [Next]_vars PROVE RInv'
<1>1. CASE initialized
  <2>1. PICK o \in Positions : Observed(o)
    BY <1>1, RPicked
  <2>2. Kept(o) \/ Extended(o) \/ Skipped(o) \/ Taken(o)
    BY <1>1, <2>1, ObservedStep
  <2> QED
    BY <1>1, <2>1, <2>2, RKept, RExtended, RSkipped, RTaken
<1>2. CASE ~initialized
  <2>1. CASE UNCHANGED vars
    BY <2>1 DEF RInv, vars, Unobserved, Observed
  <2>2. CASE \E o \in Positions : Begun(o)
    BY <1>2, <2>2, RBegun
  <2> QED
    BY <1>2, <2>1, <2>2, FirstStep
<1> QED
  BY <1>1, <1>2

(* In every state the reassembler can reach, whatever the network does.    *)
THEOREM ReassemblerInductive == Spec => []RInv
<1>1. Init => RInv
  BY RStart
<1>2. RInv /\ [Next]_vars => RInv'
  BY RStep
<1> QED
  BY <1>1, <1>2, PTL DEF Spec

-----------------------------------------------------------------------------
(* What follows from it.                                                   *)

LEMMA SeqAtIs ==
  ASSUME NEW o \in Positions, base_seq = SeqOf(o), NEW k \in Nat, o + k \in Positions
  PROVE  SeqAt(k) = SeqOf(o + k)
BY SeqAhead DEF SeqAt

LEMMA OffsetsFromInv == ASSUME RInv PROVE OffsetsAgree
<1> SUFFICES ASSUME initialized
             PROVE  /\ delivered_off - buf_off = Len(buf)
                    /\ next_seq = SeqAt(delivered_off)
                    /\ buf # <<>> => NextUnparsedSeq = SeqOf(buf[1])
  BY DEF OffsetsAgree
<1>1. PICK o \in Positions : Observed(o)
  BY RPicked
<1>2. PICK a, b, off, have :
        a = buf_off /\ b = Here(o) /\ off = delivered_off /\ have = buf
  OBVIOUS
<1>3. /\ o \in Nat /\ off \in Nat /\ a \in Nat /\ b \in Positions /\ b \in Nat
      /\ o + a \in Nat /\ o + a <= b /\ b = o + off
      /\ have = Stretch(o + a, b) /\ Len(have) = off - a /\ next_seq = SeqOf(b)
  BY <1>1, <1>2, ObservedIs DEF Here
<1>4. base_seq = SeqOf(o)
  BY <1>1 DEF Observed
<1>5. next_seq = SeqAt(off)
  BY <1>3, <1>4, SeqAtIs
<1>6. ASSUME have # <<>> PROVE SeqAt(a) = SeqOf(have[1])
  <2>1. 1 \in 1..(b - (o + a))
    <3>1. have \in Seq(Nat)
      BY <1>3, StretchIs
    <3>2. Len(have) # 0
      BY <1>6, <3>1, EmptySeq
    <3> QED
      BY <1>3, <3>2
  <2>2. have[1] = o + a
    <3>1. have[1] = (o + a) + 1 - 1
      BY <1>3, <2>1, StretchIs
    <3> QED
      BY <1>3, <3>1
  <2>3. o + a \in Positions
    BY <1>3, ReassemblerAssumption DEF Positions
  <2> QED
    BY <1>3, <1>4, <2>2, <2>3, SeqAtIs
<1> QED
  BY <1>2, <1>3, <1>5, <1>6 DEF NextUnparsedSeq

LEMMA AheadFromInv == ASSUME RInv PROVE HeldIsAhead
<1>1. CASE ~initialized
  BY <1>1 DEF RInv, Unobserved, HeldIsAhead, Held, Nothing
<1>2. CASE initialized
  <2>1. PICK o \in Positions : Observed(o)
    BY <1>2, RPicked
  <2>2. PICK p \in Positions : p = Here(o) /\ p \in Nat /\ next_seq = SeqOf(p)
    BY <2>1, ObservedIs
  <2>3. ASSUME NEW s \in Held(ooo) PROVE Diff(s.seq, next_seq) > 0
    <3>1. s \in Segments /\ s.from > p
      BY <2>1, <2>2 DEF Held, Observed, Here
    <3>2. s.from \in Positions /\ s.from \in Nat /\ s.seq = SeqOf(s.from)
      BY <3>1, SegmentsAre DEF Positions
    <3> QED
      BY <2>2, <3>1, <3>2, DiffIs
  <2> QED
    BY <2>3 DEF HeldIsAhead
<1> QED
  BY <1>1, <1>2

LEMMA TypeFromInv == ASSUME RInv PROVE TypeOK
<1>1. StreamLen \in Nat /\ SeqModulus \in Nat /\ SeqModulus > 0
  BY ReassemblerAssumption
<1>2. CASE ~initialized
  <2>1. << >> \in Seq(0..StreamLen)
    OBVIOUS
  <2> QED
    BY <1>1, <1>2, <2>1 DEF RInv, Unobserved, TypeOK
<1>3. CASE initialized
  <2>1. PICK o \in Positions : Observed(o)
    BY <1>3, RPicked
  <2>2. PICK a, b \in Nat :
          a = o + buf_off /\ b = Here(o) /\ b \in Positions /\ a <= b /\ buf = Stretch(a, b)
    BY <2>1, ObservedIs
  <2>3. /\ o \in Nat /\ delivered_off \in Nat /\ buf_off \in Nat
        /\ b = o + delivered_off /\ a = o + buf_off /\ b <= StreamLen
        /\ next_seq = SeqOf(b) /\ base_seq = SeqOf(o)
    BY <2>1, <2>2, ObservedIs DEF Here, Positions, Observed
  <2>4. next_seq \in 0..(SeqModulus - 1) /\ base_seq \in 0..(SeqModulus - 1)
    BY <2>2, <2>3, SeqOfIs
  <2>5. delivered_off \in 0..StreamLen /\ buf_off \in 0..StreamLen
    BY <1>1, <2>2, <2>3
  <2>6. buf \in Seq(0..StreamLen)
    <3>1. b - a \in Nat /\ \A k \in 1..(b - a) : a + k - 1 \in 0..StreamLen
      BY <1>1, <2>2, <2>3
    <3>2. PICK n \in Nat : n = b - a
      BY <3>1
    <3>3. Stretch(a, b) \in [1..n -> 0..StreamLen]
      BY <3>1, <3>2 DEF Stretch
    <3>4. Stretch(a, b) \in Seq(0..StreamLen)
      BY <3>3, SeqDef
    <3> QED
      BY <2>2, <3>4
  <2> QED
    BY <2>4, <2>5, <2>6 DEF RInv, TypeOK
<1> QED
  BY <1>2, <1>3

(* A gap goes to the lowest position that is held.                         *)
LEMMA GapFromInv ==
  ASSUME RInv, [Next]_vars
  PROVE  gaps' # gaps => \A s \in Held(ooo) : Diff(s.seq, SeqAt(buf_off)') >= 0
<1> SUFFICES ASSUME gaps' # gaps
             PROVE  \A s \in Held(ooo) : Diff(s.seq, SeqAt(buf_off)') >= 0
  OBVIOUS
<1>1. initialized
  BY FirstStep DEF Begun, vars
<1>2. PICK o \in Positions : Observed(o)
  BY <1>1, RPicked
<1>3. Skipped(o)
  BY <1>1, <1>2, ObservedStep DEF Kept, Extended, Taken
<1>4. PICK m \in Positions :
        Here(o) < m /\ buf_off' = m - o /\ \A s \in Held(ooo) : m <= s.from
  BY <1>3 DEF Skipped
<1>5. o \in Nat /\ m \in Nat /\ m - o \in Nat /\ o + (m - o) = m
  BY <1>2, <1>4, ObservedIs DEF Positions, Here
<1>6. SeqAt(buf_off)' = SeqOf(m)
  <2>1. base_seq' = SeqOf(o)
    BY <1>2, <1>3 DEF Observed, Skipped
  <2>2. SeqAt(buf_off)' = (SeqOf(o) + (m - o)) % SeqModulus
    BY <1>4, <2>1 DEF SeqAt
  <2> QED
    BY <1>5, <2>2, SeqAhead
<1>7. ASSUME NEW s \in Held(ooo) PROVE Diff(s.seq, SeqOf(m)) >= 0
  <2>1. s.from \in Positions /\ s.from \in Nat /\ s.seq = SeqOf(s.from)
    BY SegmentsAre DEF Positions, Held
  <2>2. Diff(s.seq, SeqOf(m)) = s.from - m
    BY <2>1, DiffIs
  <2> QED
    BY <1>4, <1>5, <2>1, <2>2
<1> QED
  BY <1>6, <1>7

-----------------------------------------------------------------------------
(* The theorems.                                                           *)

(* Numbers, offsets and bytes have their ranges.                           *)
THEOREM TypeTheorem == Spec => []TypeOK
<1>1. RInv => TypeOK
  BY TypeFromInv
<1> QED
  BY <1>1, ReassemblerInductive, PTL

(* A snapshot names the byte that the buffer starts with, and the sequence *)
(* number expected next follows its end (seq_at(), consume(), append(),    *)
(* force_gap()).                                                           *)
THEOREM OffsetsAgreeTheorem == Spec => []OffsetsAgree
<1>1. RInv => OffsetsAgree
  BY OffsetsFromInv
<1> QED
  BY <1>1, ReassemblerInductive, PTL

(* Nothing stays on the out-of-order list once the stream has reached it   *)
(* (drain_ooo()).                                                          *)
THEOREM HeldIsAheadTheorem == Spec => []HeldIsAhead
<1>1. RInv => HeldIsAhead
  BY AheadFromInv
<1> QED
  BY <1>1, ReassemblerInductive, PTL

(* A gap jumps over no byte that was already held (force_gap()).           *)
THEOREM GapSparesTheorem == Spec => GapSparesWhatIsHeld
<1>1. RInv /\ [Next]_vars =>
        [gaps' # gaps => \A s \in Held(ooo) : Diff(s.seq, SeqAt(buf_off)') >= 0]_vars
  BY GapFromInv
<1> QED
  BY <1>1, ReassemblerInductive, PTL DEF Spec, GapSparesWhatIsHeld

-----------------------------------------------------------------------------
(* The weight of what is held.                                             *)

Picked(T) == CHOOSE s \in T : TRUE

(* g sums w over the subsets of T, one element after the other: the        *)
(* function that MapThenSumSet chooses.                                    *)
Sums(g, w, T) ==
  g = [U \in SUBSET T |-> IF U = {} THEN 0 ELSE w[Picked(U)] + g[U \ {Picked(U)}]]

LEMMA PickedIs ==
  ASSUME NEW T, IsFiniteSet(T), T # {}
  PROVE  /\ Picked(T) \in T /\ T \ {Picked(T)} \in SUBSET T
         /\ IsFiniteSet(T \ {Picked(T)})
         /\ Cardinality(T) \in Nat /\ Cardinality(T \ {Picked(T)}) \in Nat
         /\ Cardinality(T \ {Picked(T)}) < Cardinality(T)
<1>1. Picked(T) \in T
  BY DEF Picked
<1>2. /\ IsFiniteSet(T \ {Picked(T)})
      /\ Cardinality(T \ {Picked(T)}) = Cardinality(T) - 1
  BY <1>1, FS_RemoveElement
<1>3. Cardinality(T) \in Nat /\ Cardinality(T \ {Picked(T)}) \in Nat
  BY <1>2, FS_CardinalityType
<1> QED
  BY <1>1, <1>2, <1>3

(* The smallest of the sets with a property of the set B.                  *)
LEMMA Smallest ==
  ASSUME NEW T, IsFiniteSet(T), NEW B, B \subseteq SUBSET T, B # {}
  PROVE  \E U \in B : \A V \in B : Cardinality(U) <= Cardinality(V)
<1> DEFINE C == {Cardinality(U) : U \in B}
<1>1. \A U \in B : Cardinality(U) \in Nat
  BY FS_Subset, FS_CardinalityType
<1>2. C \in SUBSET Nat /\ C # {}
  BY <1>1
<1>3. PICK c \in C : \A d \in C : c <= d
  <2> HIDE DEF C
  <2> QED
    BY <1>2, Least
<1>4. PICK U \in B : c = Cardinality(U)
  OBVIOUS
<1> QED
  BY <1>3, <1>4

LEMMA SumsAgree ==
  ASSUME NEW T, IsFiniteSet(T), NEW R \in SUBSET T, NEW w, NEW g, NEW h,
         Sums(g, w, T), Sums(h, w, R)
  PROVE  g[R] = h[R]
<1> DEFINE B == {U \in SUBSET R : g[U] # h[U]}
<1>1. IsFiniteSet(R)
  BY FS_Subset
<1>2. CASE B = {}
  <2>1. R \in SUBSET R
    OBVIOUS
  <2> QED
    BY <1>2, <2>1
<1>3. CASE B # {}
  <2>1. PICK U \in B : \A V \in B : Cardinality(U) <= Cardinality(V)
    <3>1. B \subseteq SUBSET R
      OBVIOUS
    <3> HIDE DEF B
    <3> QED
      BY <1>1, <1>3, <3>1, Smallest
  <2>2. U \in SUBSET R /\ U \in SUBSET T /\ g[U] # h[U] /\ IsFiniteSet(U)
    BY <1>1, FS_Subset
  <2>3. /\ g[U] = IF U = {} THEN 0 ELSE w[Picked(U)] + g[U \ {Picked(U)}]
        /\ h[U] = IF U = {} THEN 0 ELSE w[Picked(U)] + h[U \ {Picked(U)}]
    BY <2>2 DEF Sums
  <2>4. U # {}
    BY <2>2, <2>3
  <2>5. PICK V : V = U \ {Picked(U)}
    OBVIOUS
  <2>6. V \in SUBSET R /\ g[V] # h[V]
    BY <2>2, <2>3, <2>4, <2>5
  <2>7. /\ Cardinality(V) < Cardinality(U) /\ Cardinality(U) \in Nat /\ Cardinality(V) \in Nat
    BY <2>2, <2>4, <2>5, PickedIs
  <2>8. Cardinality(U) <= Cardinality(V)
    BY <2>1, <2>6
  <2> QED
    BY <2>7, <2>8
<1> QED
  BY <1>2, <1>3

LEMMA SumsExist ==
  ASSUME NEW T, IsFiniteSet(T), NEW w
  PROVE  \E g : Sums(g, w, T)
<1> DEFINE B == {U \in SUBSET T : ~ \E g : Sums(g, w, U)}
<1>1. CASE B = {}
  <2>1. T \in SUBSET T
    OBVIOUS
  <2> QED
    BY <1>1, <2>1
<1>2. CASE B # {}
  <2>1. PICK R \in B : \A V \in B : Cardinality(R) <= Cardinality(V)
    <3>1. B \subseteq SUBSET T
      OBVIOUS
    <3> HIDE DEF B
    <3> QED
      BY <1>2, <3>1, Smallest
  <2>2. R \in SUBSET T /\ IsFiniteSet(R) /\ Cardinality(R) \in Nat
    BY FS_Subset, FS_CardinalityType
  <2> DEFINE F(U) == CHOOSE g : Sums(g, w, U)
             Value(U) == IF U = {} THEN 0
                         ELSE w[Picked(U)] + F(U \ {Picked(U)})[U \ {Picked(U)}]
             h == [U \in SUBSET R |-> Value(U)]
  <2>3. ASSUME NEW U \in SUBSET R, U # {}
        PROVE  /\ U \ {Picked(U)} \in SUBSET R
               /\ IsFiniteSet(U \ {Picked(U)})
               /\ Sums(F(U \ {Picked(U)}), w, U \ {Picked(U)})
    <3>1. IsFiniteSet(U) /\ Cardinality(U) <= Cardinality(R)
      BY <2>2, FS_Subset
    <3>2. PICK V : V = U \ {Picked(U)}
      OBVIOUS
    <3>3. /\ V \in SUBSET R /\ V \in SUBSET T /\ IsFiniteSet(V)
          /\ Cardinality(V) < Cardinality(U)
          /\ Cardinality(U) \in Nat /\ Cardinality(V) \in Nat
      BY <2>2, <2>3, <3>1, <3>2, PickedIs
    <3>4. ~(Cardinality(R) <= Cardinality(V))
      BY <2>2, <3>1, <3>3
    <3>5. V \notin B
      BY <2>1, <3>4
    <3>6. \E g : Sums(g, w, V)
      BY <3>3, <3>5
    <3>7. Sums(F(V), w, V)
      BY <3>6
    <3> HIDE DEF F
    <3> QED
      BY <3>2, <3>3, <3>7
  <2>4. ASSUME NEW U \in SUBSET R, U # {}
        PROVE  Value(U \ {Picked(U)}) = F(U \ {Picked(U)})[U \ {Picked(U)}]
    <3>1. PICK V, g : V = U \ {Picked(U)} /\ g = F(V)
      OBVIOUS
    <3>2. V \in SUBSET R /\ IsFiniteSet(V) /\ Sums(g, w, V)
      <4> HIDE DEF F
      <4> QED
        BY <2>3, <2>4, <3>1
    <3>3. g[V] = IF V = {} THEN 0 ELSE w[Picked(V)] + g[V \ {Picked(V)}]
      BY <3>2 DEF Sums
    <3>4. CASE V = {}
      BY <3>1, <3>3, <3>4
    <3>5. CASE V # {}
      <4>1. PICK W, f : W = V \ {Picked(V)} /\ f = F(W)
        OBVIOUS
      <4>2. W \in SUBSET R /\ Sums(f, w, W)
        <5> HIDE DEF F
        <5> QED
          BY <2>3, <3>2, <3>5, <4>1
      <4>3. W \in SUBSET V
        BY <4>1
      <4>4. g[W] = f[W]
        BY <3>2, <4>2, <4>3, SumsAgree
      <4>5. Value(V) = w[Picked(V)] + f[W]
        <5> HIDE DEF F
        <5> QED
          BY <3>5, <4>1
      <4>6. g[V] = w[Picked(V)] + g[W]
        BY <3>3, <3>5, <4>1
      <4>7. Value(V) = g[V]
        <5> HIDE DEF Value
        <5> QED
          BY <4>4, <4>5, <4>6
      <4> HIDE DEF Value, F
      <4> QED
        BY <3>1, <4>7
    <3> QED
      BY <3>4, <3>5
  <2>5. ASSUME NEW U \in SUBSET R
        PROVE  h[U] = IF U = {} THEN 0 ELSE w[Picked(U)] + h[U \ {Picked(U)}]
    <3>1. h[U] = Value(U)
      OBVIOUS
    <3>2. CASE U = {}
      BY <3>1, <3>2
    <3>3. CASE U # {}
      <4>1. PICK V : V = U \ {Picked(U)}
        OBVIOUS
      <4>2. V \in SUBSET R
        BY <4>1
      <4>3. h[V] = Value(V)
        BY <4>2
      <4>4. Value(V) = F(V)[V]
        <5> HIDE DEF Value, F
        <5> QED
          BY <2>4, <3>3, <4>1
      <4>5. Value(U) = w[Picked(U)] + F(V)[V]
        <5> HIDE DEF F
        <5> QED
          BY <3>3, <4>1
      <4> HIDE DEF Value, F, h
      <4> QED
        BY <3>1, <3>3, <4>1, <4>3, <4>4, <4>5
    <3> QED
      BY <3>2, <3>3
  <2>6. h = [U \in SUBSET R |-> h[U]]
    OBVIOUS
  <2>7. Sums(h, w, R)
    <3> HIDE DEF h
    <3> QED
      BY <2>5, <2>6 DEF Sums
  <2>8. R \notin B
    <3> HIDE DEF h
    <3> QED
      BY <2>7
  <2> QED
    BY <2>1, <2>8
<1> QED
  BY <1>1, <1>2

(* The sum of w over a finite set.                                         *)
Total(w, T) == (CHOOSE g : Sums(g, w, T))[T]

LEMMA TotalIs ==
  ASSUME NEW T, IsFiniteSet(T), NEW w
  PROVE  Total(w, T) = IF T = {} THEN 0 ELSE w[Picked(T)] + Total(w, T \ {Picked(T)})
<1>1. PICK g : g = CHOOSE f : Sums(f, w, T)
  OBVIOUS
<1>2. Sums(g, w, T)
  BY <1>1, SumsExist
<1>3. Total(w, T) = g[T]
  BY <1>1 DEF Total
<1>4. T \in SUBSET T
  OBVIOUS
<1>5. g[T] = IF T = {} THEN 0 ELSE w[Picked(T)] + g[T \ {Picked(T)}]
  BY <1>2, <1>4 DEF Sums
<1>6. CASE T = {}
  BY <1>3, <1>5, <1>6
<1>7. CASE T # {}
  <2>1. PICK V : V = T \ {Picked(T)}
    OBVIOUS
  <2>2. V \in SUBSET T /\ IsFiniteSet(V)
    BY <1>7, <2>1, PickedIs
  <2>3. PICK h : h = CHOOSE f : Sums(f, w, V)
    OBVIOUS
  <2>4. Sums(h, w, V)
    BY <2>2, <2>3, SumsExist
  <2>5. g[V] = h[V]
    BY <1>2, <2>2, <2>4, SumsAgree
  <2>6. Total(w, V) = h[V]
    BY <2>3 DEF Total
  <2> QED
    BY <1>3, <1>5, <1>7, <2>1, <2>5, <2>6
<1> QED
  BY <1>6, <1>7

LEMMA TotalIsNat ==
  ASSUME NEW T, IsFiniteSet(T), NEW w, \A s \in T : w[s] \in Nat
  PROVE  Total(w, T) \in Nat
<1> DEFINE B == {U \in SUBSET T : Total(w, U) \notin Nat}
<1>1. CASE B = {}
  <2>1. T \in SUBSET T
    OBVIOUS
  <2> QED
    BY <1>1, <2>1
<1>2. CASE B # {}
  <2>1. PICK U \in B : \A V \in B : Cardinality(U) <= Cardinality(V)
    <3>1. B \subseteq SUBSET T
      OBVIOUS
    <3> HIDE DEF B
    <3> QED
      BY <1>2, <3>1, Smallest
  <2>2. U \in SUBSET T /\ IsFiniteSet(U) /\ Total(w, U) \notin Nat
    BY FS_Subset
  <2>3. PICK V : V = U \ {Picked(U)}
    OBVIOUS
  <2>4. Total(w, U) = IF U = {} THEN 0 ELSE w[Picked(U)] + Total(w, V)
    BY <2>2, <2>3, TotalIs
  <2>5. U # {}
    BY <2>2, <2>4
  <2>6. /\ Picked(U) \in U /\ V \in SUBSET T
        /\ ~(Cardinality(U) <= Cardinality(V))
    <3>1. /\ Picked(U) \in U /\ Cardinality(V) < Cardinality(U)
          /\ Cardinality(U) \in Nat /\ Cardinality(V) \in Nat
      BY <2>2, <2>3, <2>5, PickedIs
    <3>2. V \in SUBSET T
      BY <2>2, <2>3
    <3> QED
      BY <3>1, <3>2
  <2>7. Total(w, V) \in Nat
    BY <2>1, <2>6
  <2>8. w[Picked(U)] \in Nat
    BY <2>2, <2>6
  <2> QED
    BY <2>2, <2>4, <2>5, <2>7, <2>8
<1> QED
  BY <1>1, <1>2

LEMMA TotalOfNothing ==
  ASSUME NEW T, IsFiniteSet(T), NEW w, \A s \in T : w[s] = 0
  PROVE  Total(w, T) = 0
<1> DEFINE B == {U \in SUBSET T : Total(w, U) # 0}
<1>1. CASE B = {}
  <2>1. T \in SUBSET T
    OBVIOUS
  <2> QED
    BY <1>1, <2>1
<1>2. CASE B # {}
  <2>1. PICK U \in B : \A V \in B : Cardinality(U) <= Cardinality(V)
    <3>1. B \subseteq SUBSET T
      OBVIOUS
    <3> HIDE DEF B
    <3> QED
      BY <1>2, <3>1, Smallest
  <2>2. U \in SUBSET T /\ IsFiniteSet(U) /\ Total(w, U) # 0
    BY FS_Subset
  <2>3. PICK V : V = U \ {Picked(U)}
    OBVIOUS
  <2>4. Total(w, U) = IF U = {} THEN 0 ELSE w[Picked(U)] + Total(w, V)
    BY <2>2, <2>3, TotalIs
  <2>5. U # {}
    BY <2>2, <2>4
  <2>6. /\ Picked(U) \in U /\ Cardinality(V) < Cardinality(U)
        /\ Cardinality(U) \in Nat /\ Cardinality(V) \in Nat
    BY <2>2, <2>3, <2>5, PickedIs
  <2>7. V \in SUBSET T /\ V \notin B
    BY <2>1, <2>2, <2>3, <2>6
  <2>8. Total(w, V) = 0 /\ w[Picked(U)] = 0
    BY <2>2, <2>6, <2>7
  <2> QED
    BY <2>2, <2>4, <2>5, <2>8
<1> QED
  BY <1>1, <1>2

(* A sum grows with what is summed.                                        *)
LEMMA TotalGrows ==
  ASSUME NEW T, IsFiniteSet(T), NEW v, NEW w,
         \A s \in T : v[s] \in Nat /\ w[s] \in Nat /\ v[s] <= w[s]
  PROVE  Total(v, T) <= Total(w, T)
<1> DEFINE B == {U \in SUBSET T : ~(Total(v, U) <= Total(w, U))}
<1>1. CASE B = {}
  <2>1. T \in SUBSET T
    OBVIOUS
  <2> QED
    BY <1>1, <2>1
<1>2. CASE B # {}
  <2>1. PICK U \in B : \A V \in B : Cardinality(U) <= Cardinality(V)
    <3>1. B \subseteq SUBSET T
      OBVIOUS
    <3> HIDE DEF B
    <3> QED
      BY <1>2, <3>1, Smallest
  <2>2. U \in SUBSET T /\ IsFiniteSet(U) /\ ~(Total(v, U) <= Total(w, U))
    BY FS_Subset
  <2>3. PICK V, s : V = U \ {Picked(U)} /\ s = Picked(U)
    OBVIOUS
  <2>4. /\ Total(v, U) = IF U = {} THEN 0 ELSE v[s] + Total(v, V)
        /\ Total(w, U) = IF U = {} THEN 0 ELSE w[s] + Total(w, V)
    BY <2>2, <2>3, TotalIs
  <2>5. U # {}
    BY <2>2, <2>4
  <2>6. s \in U /\ V \in SUBSET T /\ IsFiniteSet(V) /\ ~(Cardinality(U) <= Cardinality(V))
    BY <2>2, <2>3, <2>5, PickedIs
  <2>7. Total(v, V) <= Total(w, V)
    BY <2>1, <2>6
  <2>8. Total(v, V) \in Nat /\ Total(w, V) \in Nat
    BY <2>6, TotalIsNat
  <2>9. v[s] \in Nat /\ w[s] \in Nat /\ v[s] <= w[s]
    BY <2>2, <2>6
  <2> QED
    BY <2>2, <2>4, <2>5, <2>7, <2>8, <2>9
<1> QED
  BY <1>1, <1>2

(* One summand more.                                                       *)
LEMMA TotalAdds ==
  ASSUME NEW T, IsFiniteSet(T), NEW v, NEW w, NEW e \in T, NEW d \in Nat,
         \A s \in T : /\ v[s] \in Nat
                      /\ w[s] = IF s = e THEN v[s] + d ELSE v[s]
  PROVE  Total(w, T) = Total(v, T) + d
<1> DEFINE More(U) == Total(v, U) + (IF e \in U THEN d ELSE 0)
           B == {U \in SUBSET T : Total(w, U) # More(U)}
<1>1. CASE B = {}
  <2>1. T \in SUBSET T
    OBVIOUS
  <2> QED
    BY <1>1, <2>1
<1>2. CASE B # {}
  <2>1. PICK U \in B : \A V \in B : Cardinality(U) <= Cardinality(V)
    <3>1. B \subseteq SUBSET T
      OBVIOUS
    <3> HIDE DEF B
    <3> QED
      BY <1>2, <3>1, Smallest
  <2>2. U \in SUBSET T /\ IsFiniteSet(U) /\ Total(w, U) # More(U)
    BY FS_Subset
  <2>3. PICK V, s : V = U \ {Picked(U)} /\ s = Picked(U)
    OBVIOUS
  <2>4. /\ Total(v, U) = IF U = {} THEN 0 ELSE v[s] + Total(v, V)
        /\ Total(w, U) = IF U = {} THEN 0 ELSE w[s] + Total(w, V)
    BY <2>2, <2>3, TotalIs
  <2>5. U # {}
    BY <2>2, <2>4
  <2>6. /\ s \in U /\ V \in SUBSET T /\ IsFiniteSet(V)
        /\ ~(Cardinality(U) <= Cardinality(V))
    <3>1. /\ s \in U /\ IsFiniteSet(V) /\ Cardinality(V) < Cardinality(U)
          /\ Cardinality(U) \in Nat /\ Cardinality(V) \in Nat
      BY <2>2, <2>3, <2>5, PickedIs
    <3>2. V \in SUBSET T
      BY <2>2, <2>3
    <3> QED
      BY <3>1, <3>2
  <2>7. Total(w, V) = More(V)
    BY <2>1, <2>6
  <2>8. Total(v, V) \in Nat
    BY <2>6, TotalIsNat
  <2>9. v[s] \in Nat /\ w[s] = IF s = e THEN v[s] + d ELSE v[s]
    BY <2>2, <2>6
  <2>10. CASE s = e
    <3>1. e \in U /\ e \notin V
      BY <2>3, <2>6, <2>10
    <3>2. Total(w, V) = Total(v, V)
      BY <2>7, <2>8, <3>1
    <3>3. Total(w, U) = Total(v, U) + d
      BY <2>4, <2>5, <2>8, <2>9, <2>10, <3>2
    <3> QED
      BY <2>2, <3>1, <3>3
  <2>11. CASE s # e
    <3>1. e \in U <=> e \in V
      BY <2>3, <2>11
    <3>2. CASE e \in U
      <4>1. Total(w, V) = Total(v, V) + d
        BY <2>7, <3>1, <3>2
      <4>2. Total(w, U) = Total(v, U) + d
        BY <2>4, <2>5, <2>8, <2>9, <2>11, <4>1
      <4> QED
        BY <2>2, <3>2, <4>2
    <3>3. CASE e \notin U
      <4>1. Total(w, V) = Total(v, V)
        BY <2>7, <2>8, <3>1, <3>3
      <4>2. Total(w, U) = Total(v, U) /\ Total(v, U) \in Nat
        BY <2>4, <2>5, <2>8, <2>9, <2>11, <4>1
      <4> QED
        BY <2>2, <3>3, <4>2
    <3> QED
      BY <3>2, <3>3
  <2> QED
    BY <2>10, <2>11
<1> QED
  BY <1>1, <1>2

LEMMA SegmentsFinite == IsFiniteSet(Segments)
<1>1. PICK A, B : A = 0..StreamLen /\ B = 1..StreamLen
  OBVIOUS
<1>2. IsFiniteSet(Cuts)
  <2>1. IsFiniteSet(A) /\ IsFiniteSet(B)
    BY <1>1, ReassemblerAssumption, FS_Interval
  <2>2. PICK P : P = A \X B
    OBVIOUS
  <2>3. IsFiniteSet(P)
    BY <2>1, <2>2, FS_Product
  <2>4. Cuts \in SUBSET P
    BY <1>1, <2>2, ReassemblerAssumption
  <2> QED
    BY <2>3, <2>4, FS_Subset
<1>3. [c \in Cuts |-> Segment(c)] \in Surjection(Cuts, Segments)
  BY DEF Surjection, Segments
<1> QED
  BY <1>2, <1>3, FS_Surjection

Heavy(h) == [s \in Segments |-> h[s] * s.len]

LEMMA WeightIs ==
  ASSUME NEW h
  PROVE  Weight(h) = Total(Heavy(h), Segments)
<1> DEFINE w == Heavy(h)
           Step(g) == [U \in SUBSET Segments |->
                         IF U = {} THEN 0
                         ELSE h[Picked(U)] * Picked(U).len + g[U \ {Picked(U)}]]
<1>1. ASSUME NEW g PROVE Sums(g, w, Segments) <=> g = Step(g)
  <2>1. ASSUME NEW U \in SUBSET Segments, U # {}
        PROVE  w[Picked(U)] = h[Picked(U)] * Picked(U).len
    <3>1. Picked(U) \in Segments
      BY <2>1 DEF Picked
    <3> QED
      BY <3>1 DEF Heavy
  <2>2. Step(g) = [U \in SUBSET Segments |->
                     IF U = {} THEN 0 ELSE w[Picked(U)] + g[U \ {Picked(U)}]]
    BY <2>1
  <2> HIDE DEF Step, w
  <2> QED
    BY <2>2 DEF Sums
<1>2. Weight(h) = (CHOOSE g : g = Step(g))[Segments]
  BY DEF Weight, MapThenSumSet, MapThenFoldSet, Picked
<1>3. (CHOOSE g : g = Step(g)) = (CHOOSE g : Sums(g, w, Segments))
  <2> HIDE DEF Step, w
  <2> QED
    BY <1>1
<1> HIDE DEF Step
<1> QED
  BY <1>2, <1>3 DEF Total

LEMMA ProductGrows ==
  ASSUME NEW a \in Nat, NEW b \in Nat, NEW n \in Nat, a <= b
  PROVE  a * n \in Nat /\ b * n \in Nat /\ a * n <= b * n /\ (a + 1) * n = a * n + n
OBVIOUS

(* The list weighs no more when it loses segments.                         *)
LEMMA WeightGrows ==
  ASSUME NEW g \in [Segments -> Nat], NEW h \in [Segments -> Nat],
         \A s \in Segments : g[s] <= h[s]
  PROVE  Weight(g) \in Nat /\ Weight(h) \in Nat /\ Weight(g) <= Weight(h)
<1>1. ASSUME NEW s \in Segments
      PROVE  Heavy(g)[s] \in Nat /\ Heavy(h)[s] \in Nat /\ Heavy(g)[s] <= Heavy(h)[s]
  <2>1. s.len \in Nat /\ g[s] \in Nat /\ h[s] \in Nat /\ g[s] <= h[s]
    BY SegmentsAre
  <2>2. g[s] * s.len \in Nat /\ h[s] * s.len \in Nat /\ g[s] * s.len <= h[s] * s.len
    BY <2>1, ProductGrows
  <2> QED
    BY <2>2 DEF Heavy
<1>2. PICK v, w : v = Heavy(g) /\ w = Heavy(h)
  OBVIOUS
<1>3. \A s \in Segments : v[s] \in Nat /\ w[s] \in Nat /\ v[s] <= w[s]
  BY <1>1, <1>2
<1>4. Total(v, Segments) \in Nat /\ Total(w, Segments) \in Nat
      /\ Total(v, Segments) <= Total(w, Segments)
  BY <1>3, SegmentsFinite, TotalIsNat, TotalGrows
<1> QED
  BY <1>2, <1>4, WeightIs

(* And by the length of a segment more with one copy of it.                *)
LEMMA WeightAdds ==
  ASSUME NEW g \in [Segments -> Nat], NEW s \in Segments
  PROVE  Weight([g EXCEPT ![s] = @ + 1]) = Weight(g) + s.len
<1>1. PICK h : h = [g EXCEPT ![s] = @ + 1]
  OBVIOUS
<1>2. s.len \in Nat
  BY SegmentsAre
<1>3. ASSUME NEW t \in Segments
      PROVE  /\ Heavy(g)[t] \in Nat
             /\ Heavy(h)[t] = IF t = s THEN Heavy(g)[t] + s.len ELSE Heavy(g)[t]
  <2>1. t.len \in Nat /\ g[t] \in Nat /\ h[t] = IF t = s THEN g[t] + 1 ELSE g[t]
    BY <1>1, SegmentsAre
  <2>2. g[t] * t.len \in Nat /\ (g[t] + 1) * t.len = g[t] * t.len + t.len
    BY <2>1, ProductGrows
  <2>3. CASE t = s
    BY <2>1, <2>2, <2>3 DEF Heavy
  <2>4. CASE t # s
    BY <2>1, <2>2, <2>4 DEF Heavy
  <2> QED
    BY <2>3, <2>4
<1>4. PICK v, w : v = Heavy(g) /\ w = Heavy(h)
  OBVIOUS
<1>5. Total(w, Segments) = Total(v, Segments) + s.len
  <2>1. \A t \in Segments : /\ v[t] \in Nat
                            /\ w[t] = IF t = s THEN v[t] + s.len ELSE v[t]
    BY <1>3, <1>4
  <2>2. PICK d \in Nat : d = s.len
    BY <1>2
  <2>3. PICK T, e : T = Segments /\ e = s /\ e \in T
    OBVIOUS
  <2>4. \A t \in T : v[t] \in Nat /\ w[t] = IF t = e THEN v[t] + d ELSE v[t]
    BY <2>1, <2>2, <2>3
  <2>5. Total(w, T) = Total(v, T) + d
    BY <2>3, <2>4, SegmentsFinite, TotalAdds
  <2> QED
    BY <2>2, <2>3, <2>5
<1> QED
  BY <1>1, <1>4, <1>5, WeightIs

LEMMA WeightOfNothing == Weight(Nothing) = 0
<1>1. \A s \in Segments : Heavy(Nothing)[s] = 0
  <2>1. \A s \in Segments : s.len \in Nat
    BY SegmentsAre
  <2> QED
    BY <2>1 DEF Heavy, Nothing
<1> QED
  BY <1>1, SegmentsFinite, TotalOfNothing, WeightIs

-----------------------------------------------------------------------------
(* What the list holds at most.                                            *)

(* Draining only takes segments off the list.                              *)
LEMMA DrainLightens ==
  ASSUME NEW S, NEW h \in [Segments -> Nat], NEW since, NEW n, NEW off, NEW have,
         DrainOoo(S, h, since, n, off, have)
  PROVE  Weight(ooo') \in Nat /\ Weight(h) \in Nat /\ Weight(ooo') <= Weight(h)
<1>1. PICK k, g : k = Reach(S, n) /\ g = StillAhead(h, n, k) /\ ooo' = g
  BY DEF DrainOoo
<1>2. g \in [Segments -> Nat] /\ \A s \in Segments : g[s] <= h[s]
  BY <1>1 DEF StillAhead
<1> QED
  BY <1>1, <1>2, WeightGrows

(* Every step keeps the weight under the limit, or counts a gap for the    *)
(* segment that went over it.                                              *)
LEMMA WeightStep ==
  ASSUME RInv, [Next]_vars, NEW n \in Nat, \A s \in Segments : s.len <= n,
         Weight(ooo) <= OooLimit + gaps * n
  PROVE  Weight(ooo)' <= OooLimit + gaps' * n
<1>1. PICK g, k, o :
        g = ooo /\ g \in [Segments -> Nat] /\ k = gaps /\ k \in Nat /\ o = Weight(ooo)
  BY DEF RInv
<1>2. /\ OooLimit \in Nat /\ o \in Nat /\ o = Weight(g)
      /\ k * n \in Nat /\ (k + 1) * n = k * n + n
  <2>1. Weight(g) \in Nat
    BY <1>1, WeightGrows
  <2> QED
    BY <1>1, <2>1, ProductGrows, ReassemblerAssumption
<1>3. CASE ooo' = ooo /\ gaps' = gaps
  BY <1>3
<1>4. ASSUME NEW S, NEW since, NEW m, NEW off, NEW have,
             DrainOoo(S, g, since, m, off, have), gaps' = k \/ gaps' = k + 1
      PROVE  Weight(ooo)' <= OooLimit + gaps' * n
  <2>1. Weight(ooo') \in Nat /\ Weight(ooo') <= o
    BY <1>1, <1>2, <1>4, DrainLightens
  <2> QED
    BY <1>1, <1>2, <1>4, <2>1
<1>5. ASSUME NEW c \in Cuts, Data(Segment(c))
      PROVE  Weight(ooo)' <= OooLimit + gaps' * n
  <2>1. PICK s \in Segments : s = Segment(c)
    BY DEF Segments
  <2>2. PICK m, h : h = [g EXCEPT ![s] = @ + 1] /\ Push(s, m)
    BY <1>5, <2>1 DEF Data
  <2>3. /\ h \in [Segments -> Nat] /\ s.len \in Nat /\ s.len <= n
        /\ Weight(h) = o + s.len
    <3>1. h \in [Segments -> Nat]
      BY <1>1, <2>2
    <3>2. Weight(h) = Weight(g) + s.len
      BY <1>1, <2>2, WeightAdds
    <3> QED
      BY <1>2, <3>1, <3>2, SegmentsAre
  <2>4. \/ ooo' = ooo /\ gaps' = gaps
        \/ /\ DrainOoo({s} \cup Held(ooo), ooo, waited, m, delivered_off, buf)
           /\ gaps' = gaps
        \/ ForceGap(h)
        \/ ooo' = h /\ ~Overflows(h) /\ gaps' = gaps
    BY <1>1, <2>2 DEF Push, hold
  <2>5. CASE DrainOoo({s} \cup Held(ooo), ooo, waited, m, delivered_off, buf) /\ gaps' = gaps
    BY <1>1, <1>4, <2>5
  <2>6. CASE ForceGap(h)
    <3>1. gaps' = k + 1
      BY <1>1, <2>6 DEF ForceGap
    <3>2. PICK S, t, off : DrainOoo(S, h, NoTimer, t, off, <<>>)
      BY <2>6 DEF ForceGap
    <3>3. Weight(ooo') \in Nat /\ Weight(ooo') <= o + s.len
      BY <2>3, <3>2, DrainLightens
    <3> QED
      BY <1>1, <1>2, <2>3, <3>1, <3>3
  <2>7. CASE ooo' = h /\ ~Overflows(h) /\ gaps' = gaps
    <3>1. Weight(ooo') <= OooLimit /\ Weight(ooo') \in Nat
      BY <1>2, <2>3, <2>7 DEF Overflows
    <3> QED
      BY <1>1, <1>2, <2>7, <3>1
  <2> QED
    BY <1>3, <2>4, <2>5, <2>6, <2>7
<1>6. ASSUME Tick PROVE Weight(ooo)' <= OooLimit + gaps' * n
  <2>1. CASE ForceGap(ooo)
    <3>1. gaps' = k + 1
      BY <1>1, <2>1 DEF ForceGap
    <3>2. PICK S, t, off : DrainOoo(S, g, NoTimer, t, off, <<>>)
      BY <1>1, <2>1 DEF ForceGap
    <3> QED
      BY <1>4, <3>1, <3>2
  <2>2. CASE ~ForceGap(ooo)
    BY <1>3, <1>6, <2>2 DEF Tick, hold
  <2> QED
    BY <2>1, <2>2
<1>7. CASE Syn \/ (\E i \in 1..StreamLen : Consume(i)) \/ UNCHANGED vars
  BY <1>3, <1>7 DEF Syn, Consume, hold, vars
<1> QED
  BY <1>5, <1>6, <1>7 DEF Next

(* The longest segment there is.                                           *)
LEMMA LongestExists ==
  ASSUME Cuts # {}
  PROVE  \E longest \in Segments : \A s \in Segments : s.len <= longest.len
<1> DEFINE N == {StreamLen - s.len : s \in Segments}
<1>1. \A s \in Segments : s.len \in Nat /\ StreamLen - s.len \in Nat
  <2>1. \A s \in Segments : s.from \in Nat /\ s.len \in Nat /\ s.from + s.len <= StreamLen
    BY SegmentsAre DEF Positions
  <2> QED
    BY <2>1, ReassemblerAssumption
<1>2. N \in SUBSET Nat /\ N # {}
  BY <1>1 DEF Segments
<1>3. PICK p \in N : \A q \in N : p <= q
  <2> HIDE DEF N
  <2> QED
    BY <1>2, Least
<1>4. PICK e \in Segments : p = StreamLen - e.len
  OBVIOUS
<1>5. ASSUME NEW s \in Segments PROVE s.len <= e.len
  <2>1. StreamLen - e.len <= StreamLen - s.len
    BY <1>3, <1>4
  <2> QED
    BY <1>1, <2>1, ReassemblerAssumption
<1> QED
  BY <1>5

(* The list exceeds its limit by at most one segment for every gap that    *)
(* was declared (push(), force_gap()).  A network that delivers nothing    *)
(* has no longest segment.                                                 *)
THEOREM HoldBoundedTheorem == ASSUME Cuts # {} PROVE Spec => []HoldBounded
<1>1. Init => HoldBounded
  <2>1. ASSUME Init PROVE HoldBounded
    <3>1. PICK longest \in Segments : \A s \in Segments : s.len <= longest.len
      BY LongestExists
    <3>2. Weight(ooo) <= OooLimit + gaps * longest.len
      <4>1. Weight(ooo) = 0 /\ gaps = 0 /\ longest.len \in Nat /\ OooLimit \in Nat
        BY <2>1, WeightOfNothing, SegmentsAre, ReassemblerAssumption DEF Init
      <4>2. 0 * longest.len = 0
        BY <4>1
      <4> QED
        BY <4>1, <4>2
    <3> QED
      BY <3>1, <3>2 DEF HoldBounded
  <2> QED
    BY <2>1
<1>2. RInv /\ HoldBounded /\ [Next]_vars => HoldBounded'
  <2>1. ASSUME RInv, HoldBounded, [Next]_vars PROVE HoldBounded'
    <3>1. PICK longest \in Segments :
            /\ \A s \in Segments : s.len <= longest.len
            /\ Weight(ooo) <= OooLimit + gaps * longest.len
      BY <2>1 DEF HoldBounded
    <3>2. longest.len \in Nat
      BY SegmentsAre
    <3>3. PICK n \in Nat : n = longest.len
      BY <3>2
    <3>4. Weight(ooo)' <= OooLimit + gaps' * n
      BY <2>1, <3>1, <3>3, WeightStep
    <3> QED
      BY <3>1, <3>3, <3>4 DEF HoldBounded
  <2> QED
    BY <2>1
<1> QED
  BY <1>1, <1>2, ReassemblerInductive, PTL DEF Spec

-----------------------------------------------------------------------------
(* The reassembler implements ByteFeed.                                    *)

LEMMA RunIs == \A a, b : Feed!Run(a, b) = Stretch(a, b)
  BY DEF Feed!Run, Stretch

LEMMA OriginIs ==
  ASSUME NEW o \in Positions
  PROVE  Ahead(SeqOf(o), Isn) = o /\ o # -1
<1>1. StreamLen \in Nat /\ SeqModulus \in Nat \ {0} /\ Isn \in 0..(SeqModulus - 1)
      /\ o \in Nat /\ 0 \in Positions
  BY ReassemblerAssumption DEF Positions
<1>2. SeqOf(0) = Isn
  <2>1. Isn + 0 = Isn
    BY <1>1
  <2> QED
    BY <1>1, <2>1, ModBelow DEF SeqOf
<1>3. Ahead(SeqOf(o), SeqOf(0)) = o - 0
  BY <1>1, AheadIs
<1> QED
  BY <1>1, <1>2, <1>3

(* The state of ByteFeed that a state of the reassembler stands for.       *)
AbstractLo == IF initialized THEN Origin + buf_off ELSE -1

LEMMA FeedStarts == ASSUME Init PROVE Feed!FeedInit
  BY DEF Init, Feed!FeedInit, Origin

LEMMA FeedFirst ==
  ASSUME RInv, ~initialized, NEW o \in Positions, Begun(o)
  PROVE  Feed!FeedNext
<1>1. PICK q \in Positions : Reached(o, q, 0, o, NoTimer)
  BY DEF Begun
<1>2. Origin = -1
  BY DEF Origin
<1>3. Origin' = o /\ initialized' /\ AbstractLo' = o
  <2>1. Origin' = o
    BY OriginIs DEF Begun, Origin
  <2>2. buf_off' = 0 /\ initialized' /\ o \in Nat
    BY DEF Begun, RInv, Unobserved, Positions
  <2> QED
    BY <2>1, <2>2 DEF AbstractLo
<1>4. buf' = Stretch(o, q) /\ o <= q /\ gaps' = gaps
  BY <1>1 DEF Reached, Begun
<1>5. Feed!Begin(o, q)
  BY <1>2, <1>3, <1>4, RunIs DEF Feed!Begin, AbstractLo
<1> QED
  BY <1>4, <1>5 DEF Feed!FeedNext, Positions

LEMMA FeedLater ==
  ASSUME RInv, initialized, NEW o \in Positions, Observed(o),
         Kept(o) \/ Extended(o) \/ Skipped(o) \/ Taken(o)
  PROVE  Feed!FeedNext \/ UNCHANGED Feed!feedVars
<1>1. Origin = o /\ o # -1
  BY OriginIs DEF Observed, Origin
<1>2. initialized' = initialized /\ base_seq' = base_seq
  BY DEF Kept, Extended, Skipped, Taken, place
<1>3. Origin' = Origin
  BY <1>2 DEF Origin
<1>4. AbstractLo = o + buf_off /\ AbstractLo' = o + buf_off'
  BY <1>1, <1>2, <1>3 DEF AbstractLo
<1>5. PICK p \in Positions : p = Here(o)
  BY ObservedIs
<1>6. /\ o \in Nat /\ delivered_off \in Nat /\ buf_off \in Nat /\ p \in Nat
      /\ o + buf_off \in Nat /\ o + buf_off <= p /\ p = o + delivered_off
      /\ buf = Stretch(o + buf_off, p) /\ Len(buf) = delivered_off - buf_off
  BY <1>5, ObservedIs DEF Here
<1>7. Feed!hi = p
  <2>1. Feed!hi = AbstractLo + Len(buf)
    BY DEF Feed!hi, AbstractLo
  <2> QED
    BY <1>4, <1>6, <2>1
<1>8. CASE Kept(o)
  <2>1. Origin' = Origin /\ AbstractLo' = AbstractLo /\ buf' = buf /\ gaps' = gaps
    BY <1>3, <1>4, <1>8 DEF Kept
  <2> QED
    BY <2>1 DEF Feed!feedVars, AbstractLo
<1>9. CASE Extended(o)
  <2>1. PICK q \in Positions : p < q /\ buf' = Stretch(o + buf_off, q)
    BY <1>5, <1>9 DEF Extended, Reached
  <2>2. AbstractLo' = AbstractLo /\ gaps' = gaps
    BY <1>4, <1>9 DEF Extended
  <2>3. Feed!Extend(q)
    BY <1>1, <1>3, <1>4, <1>7, <2>1, <2>2, RunIs DEF Feed!Extend, AbstractLo
  <2> QED
    BY <2>3 DEF Feed!FeedNext, Positions
<1>10. CASE Skipped(o)
  <2>1. PICK m, q \in Positions :
          p < m /\ m < q /\ buf' = Stretch(m, q) /\ buf_off' = m - o /\ gaps' = gaps + 1
    BY <1>5, <1>10 DEF Skipped, Reached
  <2>2. AbstractLo' = m /\ m <= q /\ m > p
    BY <1>4, <1>6, <2>1 DEF Positions
  <2>3. Feed!Skip(m, q)
    BY <1>1, <1>3, <1>7, <2>1, <2>2, RunIs DEF Feed!Skip, AbstractLo
  <2> QED
    BY <2>2, <2>3 DEF Feed!FeedNext, Positions
<1>11. CASE Taken(o)
  <2>1. PICK n \in 1..(delivered_off - buf_off) :
          buf' = Stretch(o + buf_off + n, p) /\ buf_off' = buf_off + n
    BY <1>5, <1>11 DEF Taken
  <2>2. AbstractLo' = AbstractLo + n /\ AbstractLo + n = o + buf_off + n
        /\ n \in 1..Len(buf) /\ gaps' = gaps
    BY <1>4, <1>6, <1>11, <2>1 DEF Taken
  <2>3. Feed!Take(n)
    BY <1>1, <1>3, <1>7, <2>1, <2>2, RunIs DEF Feed!Take, AbstractLo
  <2>4. n \in 1..StreamLen
    <3>1. p <= StreamLen /\ StreamLen \in Nat /\ delivered_off - buf_off <= p
      BY <1>6, ReassemblerAssumption DEF Positions
    <3>2. n \in Nat /\ n >= 1 /\ n <= delivered_off - buf_off
      BY <1>6, <2>1
    <3> QED
      BY <1>6, <3>1, <3>2
  <2> QED
    BY <2>3, <2>4 DEF Feed!FeedNext
<1> QED
  BY <1>8, <1>9, <1>10, <1>11

LEMMA FeedSteps ==
  ASSUME RInv, [Next]_vars PROVE Feed!FeedNext \/ UNCHANGED Feed!feedVars
<1>1. CASE initialized
  <2>1. PICK o \in Positions : Observed(o)
    BY <1>1, RPicked
  <2> QED
    BY <1>1, <2>1, ObservedStep, FeedLater
<1>2. CASE ~initialized
  <2>1. CASE UNCHANGED vars
    BY <2>1 DEF vars, Feed!feedVars, Origin
  <2> QED
    BY <1>2, <2>1, FirstStep, FeedFirst
<1> QED
  BY <1>1, <1>2

(* Every step of the reassembler hands the parser the next bytes of the    *)
(* sender's stream, at their positions, or declares a gap and drops what   *)
(* was pending: the contract of ByteFeed (struct Reassembler as a whole).  *)
THEOREM ByteFeedImplemented == Spec => RefinesByteFeed
<1>1. Init => Feed!FeedInit
  BY FeedStarts
<1>2. RInv /\ [Next]_vars => [Feed!FeedNext]_Feed!feedVars
  BY FeedSteps
<1> QED
  BY <1>1, <1>2, ReassemblerInductive, PTL DEF Spec, RefinesByteFeed, Feed!FeedSpec
================================================================================
