---------------------------- MODULE DirectionProofs ----------------------------
(***************************************************************************)
(* Framing for every value of the constants: streams of any length with    *)
(* frames of any size, any number of gaps, windows and limits of any size. *)
(***************************************************************************)
EXTENDS Direction, TLAPS, NaturalsInduction, WellFoundedInduction

-----------------------------------------------------------------------------
(* Sets of naturals.                                                       *)

LEMMA Least ==
  ASSUME NEW S \in SUBSET Nat, S # {}
  PROVE  \E p \in S : \A q \in S : p <= q
<1>1. PICK p \in S : \A q \in S : ~(<<q, p>> \in OpToRel(<, Nat))
  BY NatLessThanWellFounded, WFMin
<1>2. \A q \in S : ~(q < p)
  BY <1>1 DEF OpToRel
<1> QED
  BY <1>2

-----------------------------------------------------------------------------
(* The layout of a stream.                                                 *)

(* f says where each of the first n frames of s starts, and the one after. *)
Laid(s, f, n) ==
  /\ f \in [1..(n + 1) -> Nat]
  /\ \A i \in 1..(n + 1) :
       f[i] = IF i = 1 THEN PrefaceLen ELSE f[i-1] + FrameHeaderLen + s[i-1].len

LEMMA LaidExists ==
  ASSUME NEW s \in Seq(Frames)
  PROVE  \E f : Laid(s, f, Len(s))
<1> DEFINE Bad == {n \in 0..Len(s) : ~ \E f : Laid(s, f, n)}
<1>0. PrefaceLen \in Nat /\ FrameHeaderLen \in Nat
  BY DirectionAssumption
<1>1. CASE Bad = {}
  <2>1. Len(s) \in 0..Len(s)
    OBVIOUS
  <2> QED
    BY <1>1, <2>1
<1>2. CASE Bad # {}
  <2>1. PICK n \in Bad : \A q \in Bad : n <= q
    <3>1. Bad \in SUBSET Nat
      OBVIOUS
    <3> HIDE DEF Bad
    <3> QED
      BY <1>2, <3>1, Least
  <2>2. n # 0
    <3>1. Laid(s, [i \in 1..(0 + 1) |-> PrefaceLen], 0)
      BY <1>0 DEF Laid
    <3> QED
      BY <2>1, <3>1
  <2>3. n \in 1..Len(s) /\ n - 1 \in 0..Len(s) /\ ~(n <= n - 1)
    BY <2>1, <2>2
  <2>4. PICK f : Laid(s, f, n - 1)
    BY <2>1, <2>3
  <2>5. s[n] \in Frames /\ s[n].len \in Nat
    <3>1. s[n] \in Frames
      BY <2>3
    <3> QED
      BY <3>1 DEF Frames
  <2>6. f \in [1..n -> Nat]
        /\ \A i \in 1..n : f[i] = IF i = 1 THEN PrefaceLen
                                  ELSE f[i-1] + FrameHeaderLen + s[i-1].len
    BY <2>3, <2>4 DEF Laid
  <2> DEFINE g == [i \in 1..(n + 1) |->
                     IF i = n + 1 THEN f[n] + FrameHeaderLen + s[n].len ELSE f[i]]
  <2>7. f[n] + FrameHeaderLen + s[n].len \in Nat
    <3>1. f[n] \in Nat
      BY <2>3, <2>6
    <3>2. PICK a, b, c \in Nat : a = f[n] /\ b = FrameHeaderLen /\ c = s[n].len
      BY <1>0, <2>5, <3>1
    <3>3. a + b + c \in Nat
      OBVIOUS
    <3> QED
      BY <3>2, <3>3, Zenon
  <2>8. g \in [1..(n + 1) -> Nat]
    BY <2>3, <2>6, <2>7
  <2>9. ASSUME NEW i \in 1..(n + 1)
        PROVE  g[i] = IF i = 1 THEN PrefaceLen ELSE g[i-1] + FrameHeaderLen + s[i-1].len
    <3>1. CASE i = n + 1
      <4>1. i # 1 /\ i - 1 = n /\ n \in 1..(n + 1) /\ n # n + 1
        BY <2>3, <3>1
      <4> QED
        BY <3>1, <4>1
    <3>2. CASE i # n + 1
      <4>1. i \in 1..n /\ (i # 1 => i - 1 \in 1..(n + 1) /\ i - 1 # n + 1)
        BY <2>3, <3>2
      <4> QED
        BY <2>6, <3>2, <4>1
    <3> QED
      BY <3>1, <3>2
  <2>10. Laid(s, g, n)
    BY <2>8, <2>9 DEF Laid
  <2> QED
    BY <2>1, <2>10
<1> QED
  BY <1>1, <1>2

LEMMA LayoutIsLaid ==
  ASSUME NEW x \in Setups
  PROVE  Laid(x.stream, Layout[x.stream], Len(x.stream))
<1> DEFINE s == x.stream
           n == Len(s)
           Step(f) == [i \in 1..(n + 1) |->
                         IF i = 1 THEN PrefaceLen
                         ELSE f[i-1] + FrameHeaderLen + s[i-1].len]
           g == Layout[s]
<1>0. PrefaceLen \in Nat /\ FrameHeaderLen \in Nat
  BY DirectionAssumption
<1>1. s \in Seq(Frames) /\ n \in Nat
  BY DirectionAssumption
<1>2. PICK f : Laid(s, f, n)
  BY <1>1, LaidExists
<1>3. f = Step(f)
  BY <1>2 DEF Laid
<1>4. g = CHOOSE at : at = Step(at)
  BY DEF Layout
<1>5. g = Step(g)
  <2> HIDE DEF Step, g
  <2> QED
    BY <1>3, <1>4
<1> HIDE DEF g
<1>6. \A i \in 1..(n + 1) :
        g[i] = IF i = 1 THEN PrefaceLen ELSE g[i-1] + FrameHeaderLen + s[i-1].len
  BY <1>5
<1> DEFINE Bad == {i \in 1..(n + 1) : g[i] \notin Nat}
<1>7. CASE Bad = {}
  <2>1. g \in [1..(n + 1) -> Nat]
    BY <1>5, <1>7
  <2> QED
    BY <1>6, <2>1 DEF Laid, g
<1>8. CASE Bad # {}
  <2>1. PICK i \in Bad : \A q \in Bad : i <= q
    <3>1. Bad \in SUBSET Nat
      OBVIOUS
    <3> HIDE DEF Bad
    <3> QED
      BY <1>8, <3>1, Least
  <2>2. i # 1
    BY <1>0, <1>6, <2>1
  <2>3. i - 1 \in 1..n /\ i - 1 \in 1..(n + 1) /\ ~(i <= i - 1)
    BY <1>1, <2>1, <2>2
  <2>4. g[i-1] \in Nat
    BY <2>1, <2>3
  <2>5. s[i-1] \in Frames
    BY <1>1, <2>3
  <2>6. s[i-1].len \in Nat
    BY <2>5 DEF Frames
  <2>7. PICK a, b, c \in Nat : a = g[i-1] /\ b = FrameHeaderLen /\ c = s[i-1].len
    BY <1>0, <2>4, <2>6
  <2>8. g[i] = a + b + c
    BY <1>6, <2>1, <2>2, <2>7
  <2>9. g[i] \in Nat
    BY <2>8
  <2> QED
    BY <2>1, <2>9
<1> QED
  BY <1>7, <1>8

(* What the steps of the parser use of it.                                 *)
LEMMA Positions ==
  ASSUME setup \in Setups
  PROVE  /\ stream \in Seq(Frames)
         /\ \A i \in 1..(Len(stream) + 1) : At(i) \in Nat
         /\ \A i \in DOMAIN stream :
              /\ stream[i].len \in Nat
              /\ After(i) = At(i) + FrameHeaderLen + stream[i].len
         /\ \A i \in DOMAIN stream : At(i) \in Boundaries /\ After(i) \in Boundaries
         /\ Boundaries \subseteq Nat
         /\ PrefaceLen \in Boundaries
<1>1. stream \in Seq(Frames) /\ PrefaceLen \in Nat
  BY DirectionAssumption DEF stream
<1>2. Laid(stream, Layout[stream], Len(stream))
  BY LayoutIsLaid DEF stream
<1>3. \A i \in 1..(Len(stream) + 1) :
        /\ At(i) \in Nat
        /\ At(i) = IF i = 1 THEN PrefaceLen
                   ELSE At(i-1) + FrameHeaderLen + stream[i-1].len
  BY <1>2 DEF Laid, At
<1>4. ASSUME NEW i \in 1..Len(stream)
      PROVE  /\ stream[i].len \in Nat
             /\ i + 1 \in 1..(Len(stream) + 1) /\ After(i) = At(i + 1)
             /\ After(i) = At(i) + FrameHeaderLen + stream[i].len
             /\ At(i) \in Boundaries /\ After(i) \in Boundaries /\ After(i) \in Nat
  <2>1. stream[i] \in Frames
    BY <1>1
  <2>2. i + 1 \in 1..(Len(stream) + 1) /\ i + 1 # 1 /\ (i + 1) - 1 = i
    BY <1>1
  <2>3. After(i) = At(i + 1)
    BY DEF After, At
  <2>4. At(i) \in Boundaries
    <3>1. CASE i = 1
      BY <1>1, <1>3, <3>1 DEF Boundaries
    <3>2. CASE i # 1
      <4>1. i - 1 \in 1..Len(stream) /\ (i - 1) + 1 = i
        BY <1>1, <3>2
      <4>2. After(i - 1) = At(i)
        BY <4>1 DEF After, At
      <4> QED
        BY <1>1, <4>1, <4>2 DEF Boundaries
    <3> QED
      BY <3>1, <3>2
  <2>5. After(i) \in Boundaries
    BY <1>1 DEF Boundaries
  <2>6. stream[i].len \in Nat
    BY <2>1 DEF Frames
  <2>7. At(i + 1) \in Nat /\ At(i + 1) = At(i) + FrameHeaderLen + stream[i].len
    BY <1>3, <2>2
  <2> QED
    BY <2>2, <2>3, <2>4, <2>5, <2>6, <2>7
<1>5. Boundaries \subseteq Nat /\ PrefaceLen \in Boundaries
  BY <1>1, <1>4 DEF Boundaries
<1>6. DOMAIN stream = 1..Len(stream)
  BY <1>1
<1> QED
  BY <1>1, <1>3, <1>4, <1>5, <1>6

-----------------------------------------------------------------------------
(* The invariant.                                                          *)

(* Before its first byte a direction is as it was set up, and only one     *)
(* that starts with the connection is in step.                             *)
Unstarted ==
  /\ ~parsing
  /\ discard = 0
  /\ setup.mode = "start" => expect_preface \/ PrefaceLen = 0
  /\ setup.mode = "midstream" => desynced
  /\ setup.mode = "seeded" => pending # NoTarget

(* The types that framing depends on.                                      *)
Shape ==
  /\ setup \in Setups
  /\ start \in Int
  /\ lo \in Int
  /\ bytes \in Seq(Int)
  /\ discard \in Nat
  /\ desynced \in BOOLEAN
  /\ expect_preface \in BOOLEAN
  /\ pending \in Boundaries \cup {NoTarget}

FInv ==
  /\ Shape
  /\ start = -1 => Unstarted
  /\ expect_preface => discard = 0
  /\ FramedTrue

-----------------------------------------------------------------------------
(* The bytes that are there.                                               *)

LEMMA RunType ==
  ASSUME NEW p \in Int, NEW h \in Int
  PROVE  Run(p, h) \in Seq(Int)
<1>1. CASE h >= p
  <2>1. h - p \in Nat
    BY <1>1
  <2>2. Run(p, h) \in [1..(h - p) -> Int]
    BY DEF Run
  <2> QED
    BY <2>1, <2>2
<1>2. CASE ~(h >= p)
  <2>1. 1..(h - p) = {} /\ 1..0 = {}
    BY <1>2
  <2>2. Run(p, h) \in [1..0 -> Int]
    BY <2>1 DEF Run
  <2> QED
    BY <2>2
<1> QED
  BY <1>1, <1>2

LEMMA TakeType ==
  ASSUME Shape, NEW n, Take(n)
  PROVE  /\ start' = start /\ start # -1
         /\ n \in Int /\ lo' = lo + n /\ lo' \in Int
         /\ bytes' \in Seq(Int)
<1>1. n \in Int /\ lo' = lo + n /\ lo' \in Int /\ bytes' = Run(lo + n, hi) /\ hi \in Int
      /\ start' = start /\ start # -1
  BY DEF Take, Shape, hi
<1>2. Run(lo + n, hi) \in Seq(Int)
  BY <1>1, RunType
<1> QED
  BY <1>1, <1>2

(* The boundaries do not move.                                             *)
LEMMA BoundariesStay ==
  ASSUME UNCHANGED setup
  PROVE  Boundaries' = Boundaries
BY DEF Boundaries, After, stream, Layout

LEMMA InitFInv == Init => FInv
<1> SUFFICES ASSUME Init PROVE FInv
  OBVIOUS
<1>1. start = -1 /\ lo = -1 /\ bytes = <<>> /\ discard = 0 /\ setup \in Setups /\ ~parsing
  BY DEF Init, FeedInit
<1>3. PrefaceLen \in Nat
  BY DirectionAssumption
<1>4. Boundaries \subseteq Nat
  BY <1>1, Positions
<1>5. /\ desynced \in BOOLEAN /\ expect_preface \in BOOLEAN
      /\ pending \in Boundaries \cup {NoTarget}
      /\ setup.mode = "start" => expect_preface \/ PrefaceLen = 0
      /\ setup.mode = "midstream" => desynced
      /\ setup.mode = "seeded" => pending # NoTarget
  <2>1. CASE setup.mode = "midstream" /\ desynced = TRUE /\ expect_preface = FALSE
             /\ pending = NoTarget
    BY <2>1
  <2>2. CASE setup.mode = "start" /\ desynced = FALSE /\ expect_preface = (PrefaceLen > 0)
             /\ pending = NoTarget
    <3>1. CASE PrefaceLen > 0
      BY <2>2, <3>1
    <3>2. CASE ~(PrefaceLen > 0)
      <4>1. PrefaceLen = 0
        BY <1>3, <3>2
      <4>2. (PrefaceLen > 0) = FALSE
        BY <4>1
      <4>3. expect_preface = FALSE
        BY <2>2, <4>2
      <4> QED
        BY <2>2, <4>1, <4>3
    <3> QED
      BY <3>1, <3>2
  <2>3. CASE setup.mode = "seeded" /\ desynced = FALSE /\ expect_preface = FALSE
             /\ pending \in Boundaries
    <3>1. pending # NoTarget
      BY <1>4, <2>3 DEF NoTarget
    <3> QED
      BY <2>3, <3>1
  <2> QED
    BY <2>1, <2>2, <2>3 DEF Init
<1>6. Shape
  BY <1>1, <1>5 DEF Shape
<1>7. Unstarted
  BY <1>1, <1>5 DEF Unstarted
<1>8. FramedTrue
  BY <1>1 DEF FramedTrue, InStep
<1> QED
  BY <1>1, <1>6, <1>7, <1>8 DEF FInv

-----------------------------------------------------------------------------
(* The inductive step, one lemma per action.                               *)

(* What each of them starts from.                                          *)
LEMMA FFacts ==
  ASSUME FInv
  PROVE  /\ Shape /\ setup \in Setups /\ lo \in Int /\ discard \in Nat
         /\ pending \in Boundaries \cup {NoTarget}
         /\ Boundaries \subseteq Nat /\ PrefaceLen \in Boundaries
         /\ (parsing => start # -1)
         /\ (start # -1 /\ ~desynced /\ pending = NoTarget =>
              lo + discard \in Boundaries \/ (expect_preface /\ lo = 0))
         /\ (expect_preface => discard = 0)
<1>1. setup \in Setups
  BY DEF FInv, Shape
<1>2. Boundaries \subseteq Nat /\ PrefaceLen \in Boundaries
  BY <1>1, Positions
<1>3. Shape /\ lo \in Int /\ discard \in Nat /\ pending \in Boundaries \cup {NoTarget}
  BY DEF FInv, Shape
<1>4. parsing => start # -1
  BY DEF FInv, Unstarted
<1>5. start # -1 /\ ~desynced /\ pending = NoTarget =>
        lo + discard \in Boundaries \/ (expect_preface /\ lo = 0)
  BY DEF FInv, FramedTrue, InStep
<1>6. expect_preface => discard = 0
  BY DEF FInv
<1> QED
  BY <1>1, <1>2, <1>3, <1>4, <1>5, <1>6

(* The invariant, once the direction has started, for a step that leaves   *)
(* the stream as it is.                                                    *)
LEMMA Reframe ==
  ASSUME FInv, UNCHANGED setup,
         start' \in Int, start' # -1, lo' \in Int, bytes' \in Seq(Int),
         discard' \in Nat, desynced' \in BOOLEAN, expect_preface' \in BOOLEAN,
         pending' \in Boundaries \cup {NoTarget},
         expect_preface' => discard' = 0,
         ~desynced' /\ pending' = NoTarget =>
           lo' + discard' \in Boundaries \/ (expect_preface' /\ lo' = 0)
  PROVE  FInv'
<1>1. Boundaries' = Boundaries
  BY BoundariesStay
<1>2. Shape'
  BY <1>1 DEF FInv, Shape, NoTarget
<1>3. FramedTrue'
  BY <1>1 DEF FramedTrue, InStep, NoTarget
<1> QED
  BY <1>2, <1>3 DEF FInv

LEMMA FirstBytesStep ==
  ASSUME FInv, NEW p \in 0..StreamLen, NEW h \in 0..StreamLen, FirstBytes(p, h)
  PROVE  FInv'
<1>1. /\ start = -1 /\ start' = p /\ lo' = p /\ bytes' = Run(p, h)
      /\ UNCHANGED <<setup, discard, desynced, expect_preface, pending>>
      /\ setup.mode = "start" => p = 0
      /\ p \in Int /\ h \in Int /\ p # -1
  BY FeedAssumption DEF FirstBytes, Begin, Arrival, framing
<1>2. bytes' \in Seq(Int)
  BY <1>1, RunType
<1>3. Unstarted /\ Shape
  BY <1>1 DEF FInv
<1>4. setup.mode \in {"start", "midstream", "seeded"}
  BY <1>3, DirectionAssumption DEF Shape
<1>5. ASSUME ~desynced, pending = NoTarget
      PROVE  lo' + discard \in Boundaries \/ (expect_preface /\ lo' = 0)
  <2>1. setup.mode = "start" /\ discard = 0 /\ lo' = 0
    BY <1>1, <1>3, <1>4, <1>5 DEF Unstarted
  <2>2. CASE expect_preface
    BY <2>1, <2>2
  <2>3. CASE PrefaceLen = 0
    BY <2>1, <2>3, FFacts
  <2> QED
    BY <1>3, <2>1, <2>2, <2>3 DEF Unstarted
<1>6. expect_preface => discard = 0
  BY FFacts
<1> QED
  BY <1>1, <1>2, <1>3, <1>5, <1>6, Reframe DEF Shape

LEMMA MoreBytesStep ==
  ASSUME FInv, NEW h \in 0..StreamLen, MoreBytes(h)
  PROVE  FInv'
<1>1. /\ start # -1 /\ UNCHANGED <<start, lo>> /\ bytes' = Run(lo, h)
      /\ UNCHANGED <<setup, discard, desynced, expect_preface, pending>>
      /\ h \in Int
  BY FeedAssumption DEF MoreBytes, Extend, Arrival, framing
<1>2. bytes' \in Seq(Int)
  BY <1>1, FFacts, RunType
<1> QED
  BY <1>1, <1>2, FFacts, Reframe DEF Shape

LEMMA BytesAfterGapStep ==
  ASSUME FInv, NEW p \in 0..StreamLen, NEW h \in 0..StreamLen, BytesAfterGap(p, h)
  PROVE  FInv'
<1>1. /\ start # -1 /\ UNCHANGED start /\ lo' = p /\ bytes' = Run(p, h)
      /\ UNCHANGED <<setup, expect_preface, pending>>
      /\ desynced' = TRUE /\ discard' = 0
      /\ p \in Int /\ h \in Int
  BY FeedAssumption DEF BytesAfterGap, Skip, Arrival, OnGap
<1>2. bytes' \in Seq(Int)
  BY <1>1, RunType
<1> QED
  BY <1>1, <1>2, FFacts, Reframe DEF Shape

LEMMA PeerCapacityStep ==
  ASSUME FInv, PeerCapacity
  PROVE  FInv'
<1>1. UNCHANGED <<start, lo, bytes, setup, parsing, discard, desynced, expect_preface, pending>>
  BY DEF PeerCapacity, feedVars, framing
<1>2. Boundaries' = Boundaries
  BY <1>1, BoundariesStay
<1> QED
  BY <1>1, <1>2 DEF FInv, Shape, Unstarted, FramedTrue, InStep

(* A step that leaves the feed and the framing alone.                      *)
LEMMA BreakStep ==
  ASSUME FInv, UNCHANGED <<start, lo, bytes, setup, discard, desynced, expect_preface, pending>>,
         parsing
  PROVE  FInv'
BY FFacts, Reframe DEF Shape

LEMMA DiscardStep ==
  ASSUME FInv, Discard
  PROVE  FInv'
<1>1. parsing /\ discard > 0
  BY DEF Discard, Phase
<1>2. CASE Break
  BY <1>1, <1>2, BreakStep DEF Break, feedVars, framing
<1>3. ASSUME NEW n, n = MinOf(discard, Len(bytes)), Take(n), discard' = discard - n,
             UNCHANGED <<setup, desynced, expect_preface, pending>>
      PROVE  FInv'
  <2>1. /\ start' = start /\ start # -1 /\ n \in Int /\ lo' = lo + n /\ lo' \in Int
        /\ bytes' \in Seq(Int)
    BY <1>3, FFacts, TakeType
  <2>2. n <= discard
    BY <1>3, FFacts DEF MinOf, Shape
  <2>3. ~expect_preface
    <3>1. discard # 0
      BY <1>1, FFacts
    <3> QED
      BY <3>1, FFacts
  <2>4. discard' \in Nat /\ lo' + discard' = lo + discard
    <3>1. PICK a \in Int, b \in Nat, m \in Int : a = lo /\ b = discard /\ m = n /\ m <= b
      <4>1. lo \in Int /\ discard \in Nat
        BY FFacts
      <4> QED
        BY <2>1, <2>2, <4>1
    <3>2. lo' = a + m /\ discard' = b - m
      BY <1>3, <2>1, <3>1
    <3>3. b - m \in Nat /\ (a + m) + (b - m) = a + b
      BY <3>1
    <3> QED
      BY <3>1, <3>2, <3>3
  <2>5. ~desynced' /\ pending' = NoTarget => lo' + discard' \in Boundaries
    BY <1>3, <2>1, <2>3, <2>4, FFacts
  <2>6. desynced' \in BOOLEAN /\ expect_preface' \in BOOLEAN /\ ~expect_preface'
        /\ pending' \in Boundaries \cup {NoTarget} /\ start' \in Int
    BY <1>3, <2>1, <2>3, FFacts DEF Shape
  <2> QED
    BY <1>3, <2>1, <2>4, <2>5, <2>6, Reframe
<1> QED
  BY <1>1, <1>2, <1>3 DEF Discard

LEMMA SeekStep ==
  ASSUME FInv, Seek
  PROVE  FInv'
<1>1. parsing /\ discard = 0 /\ pending # NoTarget /\ pending \in Boundaries /\ pending \in Int
  BY FFacts DEF Seek, Phase
<1>2. CASE Break
  BY <1>1, <1>2, BreakStep DEF Break, feedVars, framing
<1>3. CASE /\ Take(MinOf(pending - lo, Len(bytes)))
           /\ UNCHANGED <<setup, parsing, framing, blocks, decoder>>
  <2>1. /\ start' = start /\ start # -1 /\ lo' \in Int /\ bytes' \in Seq(Int)
    BY <1>3, FFacts, TakeType
  <2>2. UNCHANGED <<setup, discard, desynced, expect_preface, pending>>
    BY <1>3 DEF framing
  <2> QED
    BY <1>1, <2>1, <2>2, FFacts, Reframe DEF Shape
<1>4. CASE /\ pending <= lo
           /\ desynced' = (desynced \/ pending < lo)
           /\ UNCHANGED <<feedVars, setup, expect_preface, discard>>
           /\ pending' = NoTarget
  <2>1. /\ start # -1 /\ UNCHANGED <<start, lo, bytes, setup, expect_preface, discard>>
        /\ lo \in Int
    BY <1>1, <1>4, FFacts DEF feedVars
  <2>2. CASE pending < lo
    <3>1. desynced' = TRUE
      BY <1>4, <2>2
    <3> QED
      BY <1>4, <2>1, <3>1, FFacts, Reframe DEF Shape
  <2>3. CASE ~(pending < lo)
    <3>1. pending = lo
      BY <1>1, <1>4, <2>1, <2>3
    <3>2. desynced' = desynced
      <4>1. (pending < lo) = FALSE
        BY <1>1, <2>1, <3>1
      <4> QED
        BY <1>4, <4>1, FFacts DEF Shape
    <3>3. lo' + discard' = pending
      BY <1>1, <2>1, <3>1
    <3>4. pending' \in Boundaries \cup {NoTarget} /\ lo' + discard' \in Boundaries
      BY <1>1, <1>4, <3>3
    <3>5. start' \in Int /\ start' # -1 /\ lo' \in Int /\ bytes' \in Seq(Int)
          /\ discard' \in Nat /\ discard' = 0
      BY <1>1, <2>1, FFacts DEF Shape
    <3>6. desynced' \in BOOLEAN /\ expect_preface' \in BOOLEAN
      BY <2>1, <3>2, FFacts DEF Shape
    <3> QED
      BY <2>1, <3>4, <3>5, <3>6, Reframe
  <2> QED
    BY <2>2, <2>3
<1> QED
  BY <1>2, <1>3, <1>4 DEF Seek

(* A step in which the parser consumes n bytes and believes in its framing *)
(* afterwards: it must be right to.                                        *)
LEMMA TakeFrames ==
  ASSUME FInv, NEW n, Take(n), UNCHANGED <<setup, desynced, pending>>,
         expect_preface' \in BOOLEAN, discard' \in Nat, expect_preface' => discard' = 0,
         lo + n + discard' \in Boundaries
  PROVE  FInv'
<1>1. /\ start' = start /\ start # -1 /\ n \in Int /\ lo' = lo + n /\ lo' \in Int
      /\ bytes' \in Seq(Int)
  BY FFacts, TakeType
<1>2. desynced' \in BOOLEAN /\ pending' \in Boundaries \cup {NoTarget} /\ start' \in Int
  BY <1>1, FFacts DEF Shape
<1> QED
  BY <1>1, <1>2, Reframe

LEMMA ResyncStep ==
  ASSUME FInv, Resync
  PROVE  FInv'
<1>1. parsing /\ discard = 0 /\ pending = NoTarget /\ start # -1
  BY FFacts DEF Resync, Phase
<1>2. CASE Break
  BY <1>1, <1>2, BreakStep DEF Break, feedVars, framing
<1>3. CASE /\ Candidates # {}
           /\ Adopt(At(First))
           /\ desynced' = FALSE
           /\ UNCHANGED <<setup, expect_preface, discard, pending>>
  <2>1. stream \in Seq(Frames)
    BY FFacts, Positions
  <2>2. Candidates \in SUBSET Nat
    BY <2>1 DEF Candidates
  <2>3. PICK i \in Candidates : \A j \in Candidates : i <= j
    BY <1>3, <2>2, Least
  <2>4. First \in Candidates
    BY <2>3 DEF First
  <2>5. At(First) \in Boundaries /\ At(First) \in Int
    BY <2>4, FFacts, Positions DEF Candidates
  <2>6. start' = start /\ lo' = At(First) /\ bytes' \in Seq(Int)
    <3>1. CASE At(First) = lo
      BY <1>3, <3>1, FFacts DEF Adopt, feedVars, Shape
    <3>2. CASE At(First) # lo
      <4>1. Take(At(First) - lo)
        BY <1>3, <3>2 DEF Adopt
      <4>2. start' = start /\ lo' = lo + (At(First) - lo) /\ bytes' \in Seq(Int)
        BY <4>1, FFacts, TakeType
      <4> QED
        BY <2>5, <4>2, FFacts
    <3> QED
      BY <3>1, <3>2
  <2>7. lo' + discard' \in Boundaries
    BY <1>1, <1>3, <2>5, <2>6
  <2>8. /\ desynced' \in BOOLEAN /\ expect_preface' \in BOOLEAN
        /\ pending' \in Boundaries \cup {NoTarget} /\ start' \in Int /\ discard' \in Nat
        /\ discard' = 0
    BY <1>1, <1>3, <2>6, FFacts DEF Shape
  <2> QED
    BY <1>1, <1>3, <2>5, <2>6, <2>7, <2>8, Reframe
<1>4. CASE /\ IF Len(bytes) > ResyncWindow
              THEN Take(Len(bytes) - ResyncWindow)
              ELSE UNCHANGED feedVars
           /\ UNCHANGED <<setup, framing, blocks, decoder>>
  <2>1. UNCHANGED <<setup, discard, desynced, expect_preface, pending>>
    BY <1>4 DEF framing
  <2>2. desynced
    BY <1>1 DEF Resync, Phase
  <2>3. start' = start /\ lo' \in Int /\ bytes' \in Seq(Int)
    <3>1. CASE Take(Len(bytes) - ResyncWindow)
      BY <3>1, FFacts, TakeType
    <3>2. CASE UNCHANGED feedVars
      BY <3>2, FFacts DEF feedVars, Shape
    <3> QED
      BY <1>4, <3>1, <3>2
  <2> QED
    BY <1>1, <2>1, <2>2, <2>3, FFacts, Reframe DEF Shape
<1> QED
  BY <1>2, <1>3, <1>4 DEF Resync

LEMMA PrefaceStep ==
  ASSUME FInv, Preface
  PROVE  FInv'
<1>1. parsing /\ discard = 0 /\ pending = NoTarget /\ ~desynced /\ expect_preface
      /\ start # -1
  BY FFacts DEF Preface, Phase
<1>2. CASE Break
  BY <1>1, <1>2, BreakStep DEF Break, feedVars, framing
<1>3. CASE /\ expect_preface' = FALSE
           /\ IF lo = 0 THEN Take(PrefaceLen) ELSE UNCHANGED feedVars
           /\ UNCHANGED <<setup, desynced, discard, pending>>
  <2>1. CASE lo = 0
    <3>1. Take(PrefaceLen)
      BY <1>3, <2>1
    <3>2. lo + PrefaceLen + discard' \in Boundaries
      <4>1. PrefaceLen \in Nat /\ PrefaceLen \in Boundaries
        BY FFacts
      <4>2. lo + PrefaceLen + discard' = PrefaceLen
        BY <1>1, <1>3, <2>1, <4>1
      <4> QED
        BY <4>1, <4>2
    <3> QED
      BY <1>1, <1>3, <3>1, <3>2, TakeFrames
  <2>2. CASE lo # 0
    <3>1. UNCHANGED <<start, lo, bytes>>
      BY <1>3, <2>2 DEF feedVars
    <3>2. lo' + discard' \in Boundaries
      BY <1>1, <1>3, <2>2, <3>1, FFacts
    <3>3. /\ start' \in Int /\ start' # -1 /\ lo' \in Int /\ bytes' \in Seq(Int)
          /\ discard' \in Nat /\ discard' = 0 /\ desynced' \in BOOLEAN
          /\ pending' \in Boundaries \cup {NoTarget}
      BY <1>1, <1>3, <3>1, FFacts DEF Shape
    <3> QED
      BY <1>3, <3>2, <3>3, Reframe
  <2> QED
    BY <2>1, <2>2
<1> QED
  BY <1>2, <1>3 DEF Preface

(* In the frame phase the next byte begins a frame.                        *)
LEMMA DropPayloadStep ==
  ASSUME FInv, NEW i \in FramesAt(lo), DropPayload(i)
  PROVE  FInv'
<1>1. ~expect_preface /\ Take(FrameHeaderLen) /\ discard' = stream[i].len
      /\ UNCHANGED <<setup, desynced, expect_preface, pending>>
  <2>1. ~expect_preface
    BY DEF DropPayload, Phase
  <2> QED
    BY <2>1 DEF DropPayload
<1>2. i \in DOMAIN stream /\ At(i) = lo
  BY DEF FramesAt
<1>3. stream[i].len \in Nat /\ After(i) = lo + FrameHeaderLen + stream[i].len
      /\ After(i) \in Boundaries
  BY <1>2, FFacts, Positions
<1>4. ~expect_preface' /\ expect_preface' \in BOOLEAN
  BY <1>1, FFacts DEF Shape
<1> QED
  BY <1>1, <1>3, <1>4, TakeFrames

LEMMA HandleFrameStep ==
  ASSUME FInv, NEW i \in FramesAt(lo), HandleFrame(i)
  PROVE  FInv'
<1>1. ~expect_preface /\ discard = 0 /\ Take(FrameHeaderLen + stream[i].len)
      /\ UNCHANGED setup
  <2>1. ~expect_preface /\ ~(discard > 0)
    BY DEF HandleFrame, Phase
  <2> QED
    BY <2>1, FFacts DEF HandleFrame
<1>2. i \in DOMAIN stream /\ At(i) = lo
  BY DEF FramesAt
<1>3. stream[i].len \in Nat /\ After(i) = lo + FrameHeaderLen + stream[i].len
      /\ After(i) \in Boundaries /\ After(i) \in Nat /\ At(i) \in Nat
  BY <1>2, FFacts, Positions
<1>4. UNCHANGED <<expect_preface, discard, pending>>
      /\ (desynced' = TRUE \/ desynced' = desynced)
  <2>1. CASE Headers(i)
    BY <2>1 DEF Headers, MarkBadBlock, FinishBlock, AddFragment, framing
  <2>2. CASE Continuation(i)
    BY <2>2 DEF Continuation, MarkBadBlock, FinishBlock, AddFragment, framing
  <2>3. CASE UNCHANGED <<framing, blocks, decoder>>
    BY <2>3 DEF framing
  <2> QED
    BY <2>1, <2>2, <2>3 DEF HandleFrame
<1>5. /\ start' = start /\ start # -1 /\ lo' = lo + (FrameHeaderLen + stream[i].len)
      /\ lo' \in Int /\ bytes' \in Seq(Int)
  <2>1. PICK n : n = FrameHeaderLen + stream[i].len /\ Take(n)
    BY <1>1
  <2>2. Shape
    BY FFacts
  <2> QED
    BY <2>1, <2>2, TakeType
<1>6. lo' + discard' \in Boundaries
  <2>1. lo \in Int /\ FrameHeaderLen \in Nat
    BY FFacts, DirectionAssumption
  <2>2. PICK l \in Int, b, c \in Nat : l = lo /\ b = FrameHeaderLen /\ c = stream[i].len
    BY <1>3, <2>1
  <2>3. lo' = l + (b + c) /\ discard' = 0 /\ After(i) = l + b + c
    BY <1>1, <1>3, <1>4, <1>5, <2>2
  <2>4. (l + (b + c)) + 0 = l + b + c
    OBVIOUS
  <2> QED
    BY <1>3, <2>3, <2>4
<1>7. /\ desynced' \in BOOLEAN /\ expect_preface' \in BOOLEAN /\ ~expect_preface'
      /\ pending' \in Boundaries \cup {NoTarget} /\ start' \in Int /\ discard' \in Nat
  BY <1>1, <1>4, <1>5, FFacts DEF Shape
<1> QED
  BY <1>1, <1>5, <1>6, <1>7, Reframe

LEMMA FrameAwaitedStep ==
  ASSUME FInv, FrameAwaited
  PROVE  FInv'
BY BreakStep DEF FrameAwaited, Break, feedVars, framing

LEMMA StepFInv ==
  ASSUME FInv, [Next]_vars
  PROVE  FInv'
<1>1. CASE UNCHANGED vars
  <2>1. UNCHANGED <<start, lo, bytes, setup, parsing, discard, desynced, expect_preface, pending>>
    BY <1>1 DEF vars
  <2>2. Boundaries' = Boundaries
    BY <2>1, BoundariesStay
  <2> QED
    BY <2>1, <2>2 DEF FInv, Shape, Unstarted, FramedTrue, InStep
<1>2. ASSUME NEW p \in 0..StreamLen, NEW h \in 0..StreamLen,
             FirstBytes(p, h) \/ BytesAfterGap(p, h)
      PROVE  FInv'
  BY <1>2, FirstBytesStep, BytesAfterGapStep
<1>3. ASSUME NEW h \in 0..StreamLen, MoreBytes(h)
      PROVE  FInv'
  BY <1>3, MoreBytesStep
<1>4. CASE PeerCapacity
  BY <1>4, PeerCapacityStep
<1>5. ASSUME NEW i \in FramesAt(lo), DropPayload(i) \/ HandleFrame(i)
      PROVE  FInv'
  BY <1>5, DropPayloadStep, HandleFrameStep
<1>6. CASE Parse
  BY <1>5, <1>6, DiscardStep, SeekStep, ResyncStep, PrefaceStep, FrameAwaitedStep DEF Parse
<1> QED
  BY <1>1, <1>2, <1>3, <1>4, <1>6 DEF Next

-----------------------------------------------------------------------------
(* The theorems.                                                           *)

(* FInv holds of every state a direction reaches (feed(), tick(),          *)
(* parse()).                                                               *)
THEOREM FramedInductive == Spec => []FInv
<1>1. Init => FInv
  BY InitFInv
<1>2. FInv /\ [Next]_vars => FInv'
  BY StepFInv
<1> QED
  BY <1>1, <1>2, PTL DEF Spec

(* Framing is never believed wrongly, whatever is sent, lost or seeded: in *)
(* step, what is left of the frame being discarded ends on a frame         *)
(* boundary of the sender's stream (parse(), try_resync(),                 *)
(* seed_from_snapshot()).                                                  *)
THEOREM FramedTrueTheorem == Spec => []FramedTrue
<1>1. FInv => FramedTrue
  BY DEF FInv
<1> QED
  BY <1>1, FramedInductive, PTL

-----------------------------------------------------------------------------
(* Frames follow one another, and a block is a run of them.                *)

LEMMA Ascending ==
  ASSUME setup \in Setups, NEW i \in DOMAIN stream
  PROVE  /\ At(i) < After(i)
         /\ \A j \in 1..(Len(stream) + 1) : i < j => After(i) <= At(j)
<1>0. FrameHeaderLen \in Nat \ {0} /\ stream \in Seq(Frames)
  BY Positions, DirectionAssumption
<1>1. DOMAIN stream = 1..Len(stream) /\ Len(stream) \in Nat /\ i \in 1..Len(stream)
  BY <1>0
<1>2. /\ \A j \in 1..(Len(stream) + 1) : At(j) \in Nat
      /\ \A j \in 1..Len(stream) : stream[j].len \in Nat
                                   /\ After(j) = At(j) + FrameHeaderLen + stream[j].len
  BY <1>1, Positions
<1>3. \A j : After(j) = At(j + 1)
  BY DEF After, At
<1> DEFINE Bad == {j \in 1..(Len(stream) + 1) : i < j /\ ~(After(i) <= At(j))}
<1>4. ASSUME Bad # {} PROVE FALSE
  <2>1. PICK j \in Bad : \A q \in Bad : j <= q
    <3>1. Bad \in SUBSET Nat
      BY <1>1
    <3> HIDE DEF Bad
    <3> QED
      BY <1>4, <3>1, Least
  <2>2. j # i + 1
    BY <1>1, <1>2, <1>3, <2>1
  <2>3. j - 1 \in 1..Len(stream) /\ i < j - 1 /\ j - 1 \notin Bad /\ j - 1 + 1 = j
    BY <1>1, <2>1, <2>2
  <2>4. After(i) <= At(j - 1)
    BY <1>1, <2>3
  <2>5. At(j - 1) <= After(j - 1) /\ After(j - 1) = At(j)
    <3>1. PICK q \in 1..Len(stream) : q = j - 1 /\ q + 1 = j
      BY <2>3
    <3>2. /\ At(q) \in Nat /\ FrameHeaderLen \in Nat /\ stream[q].len \in Nat
          /\ After(q) = At(q) + FrameHeaderLen + stream[q].len
      <4>1. q \in 1..(Len(stream) + 1)
        BY <1>1, <3>1
      <4> QED
        BY <1>0, <1>2, <3>1, <4>1
    <3>3. PICK a, b, c \in Nat : a = At(q) /\ b = FrameHeaderLen /\ c = stream[q].len
      BY <3>2
    <3>4. After(q) = a + b + c
      BY <3>2, <3>3, Zenon
    <3>5. a <= a + b + c
      OBVIOUS
    <3>6. At(q) <= After(q)
      BY <3>3, <3>4, <3>5, Zenon
    <3>7. After(q) = At(j)
      BY <1>3, <3>1
    <3> QED
      BY <3>1, <3>6, <3>7
  <2>6. At(i) \in Nat /\ stream[i].len \in Nat /\ At(j - 1) \in Nat /\ At(j) \in Nat
        /\ After(i) \in Int
    BY <1>0, <1>1, <1>2, <2>1, <2>3
  <2> QED
    BY <2>1, <2>4, <2>5, <2>6
<1>5. At(i) < After(i)
  BY <1>0, <1>1, <1>2
<1> QED
  BY <1>4, <1>5

LEMMA BlockShape ==
  ASSUME setup \in Setups, NEW i \in DOMAIN stream, Opens(i)
  PROVE  /\ Closes(i) \in DOMAIN stream /\ i <= Closes(i)
         /\ Block(i) = i..Closes(i)
         /\ \A j \in Block(i) : j # i => stream[j].typ = "CONTINUATION"
         /\ \A j \in Block(i) : stream[j].end <=> j = Closes(i)
<1>1. stream \in Seq(Frames) /\ Conforming(stream)
  BY DirectionAssumption DEF stream
<1>2. DOMAIN stream = 1..Len(stream) /\ Len(stream) \in Nat /\ i \in 1..Len(stream)
  BY <1>1
<1>3. i \in Block(i) /\ Block(i) \subseteq i..Len(stream)
  BY <1>2 DEF Block
<1>4. PICK c \in Block(i) : \A k \in Block(i) : k <= c
  <2> DEFINE S == {Len(stream) - j : j \in Block(i)}
  <2>1. S \in SUBSET Nat /\ S # {}
    BY <1>2, <1>3
  <2>2. PICK p \in S : \A q \in S : p <= q
    BY <2>1, Least
  <2>3. PICK c \in Block(i) : p = Len(stream) - c
    BY <2>2
  <2>4. \A k \in Block(i) : Len(stream) - c <= Len(stream) - k
    BY <2>2, <2>3
  <2> QED
    BY <1>2, <1>3, <2>3, <2>4
<1>5. Closes(i) \in Block(i) /\ \A k \in Block(i) : k <= Closes(i)
  BY <1>4 DEF Closes
<1>6. Closes(i) \in 1..Len(stream) /\ i <= Closes(i)
  BY <1>2, <1>3, <1>5
<1>7. \A k \in i..(Closes(i) - 1) : ~stream[k].end
  BY <1>5 DEF Block
<1>8. Block(i) = i..Closes(i)
  <2>1. ASSUME NEW j \in i..Closes(i) PROVE j \in Block(i)
    <3>1. j \in i..Len(stream) /\ i..(j-1) \subseteq i..(Closes(i) - 1)
      BY <1>2, <1>6
    <3> QED
      BY <1>7, <3>1 DEF Block
  <2>2. Block(i) \subseteq i..Closes(i)
    BY <1>2, <1>3, <1>5, <1>6
  <2> QED
    BY <2>1, <2>2
<1>9. \A k \in DOMAIN stream : IsHeaderFrame(k) /\ ~stream[k].end =>
        k + 1 \in DOMAIN stream /\ stream[k+1].typ = "CONTINUATION"
  BY <1>1 DEF Conforming, IsHeaderFrame
<1>10. \A j \in Block(i) : j # i => stream[j].typ = "CONTINUATION"
  <2> DEFINE Bad == {j \in Block(i) : j # i /\ stream[j].typ # "CONTINUATION"}
  <2>1. ASSUME Bad # {} PROVE FALSE
    <3>1. PICK j \in Bad : \A q \in Bad : j <= q
      <4>1. Bad \in SUBSET Nat
        BY <1>2, <1>3
      <4> HIDE DEF Bad
      <4> QED
        BY <2>1, <4>1, Least
    <3>2. j \in i..Closes(i) /\ j # i
      BY <1>8, <3>1
    <3>3. j - 1 \in i..(Closes(i) - 1) /\ j - 1 \in Block(i) /\ j - 1 \notin Bad
          /\ j - 1 \in DOMAIN stream /\ j - 1 + 1 = j
      BY <1>2, <1>6, <1>8, <3>1, <3>2
    <3>4. IsHeaderFrame(j - 1)
      BY <3>3 DEF Opens, IsHeaderFrame
    <3> QED
      BY <1>7, <1>9, <3>1, <3>3, <3>4
  <2> QED
    BY <2>1
<1>11. \A j \in Block(i) : stream[j].end <=> j = Closes(i)
  <2>1. ASSUME ~stream[Closes(i)].end PROVE FALSE
    <3>1. IsHeaderFrame(Closes(i))
      BY <1>5, <1>10 DEF Opens, IsHeaderFrame
    <3>2. Closes(i) + 1 \in 1..Len(stream)
      BY <1>2, <1>6, <1>9, <2>1, <3>1
    <3>3. \A k \in i..Closes(i) : ~stream[k].end
      BY <1>2, <1>6, <1>7, <2>1
    <3>4. (Closes(i) + 1) - 1 = Closes(i) /\ Closes(i) + 1 \in i..Len(stream)
      BY <1>2, <1>6, <3>2
    <3>5. Closes(i) + 1 \in Block(i)
      BY <3>3, <3>4 DEF Block
    <3> QED
      BY <1>5, <1>6, <3>5
  <2>2. ASSUME NEW j \in Block(i), j # Closes(i) PROVE ~stream[j].end
    <3>1. j \in i..(Closes(i) - 1)
      BY <1>2, <1>6, <1>8, <2>2
    <3> QED
      BY <1>7, <3>1
  <2> QED
    BY <2>1, <2>2
<1> QED
  BY <1>2, <1>6, <1>8, <1>10, <1>11

-----------------------------------------------------------------------------
(* Header blocks.                                                          *)

(* Up to where the frames have been seen, payloads that are thrown away    *)
(* included.                                                               *)
Cursor == lo + discard

(* The fragments in hand, for a cursor at c.                               *)
Collected(l, c, s, b, h) ==
  /\ h = 0 => b = {}
  /\ h # 0 =>
       /\ h \in b
       /\ Opens(h) /\ At(h) >= s
       /\ \A j \in b : After(j) <= l
       /\ Fits(h) => b = {j \in Block(h) : After(j) <= c} /\ c < After(Closes(h))

(* A block that the cursor is inside of is the one in hand.                *)
Underway(c, s, h) ==
  \A i \in DOMAIN stream :
    Opens(i) /\ Fits(i) /\ At(i) >= s /\ At(i) < c /\ c < After(Closes(i)) => h = i

(* NothingSkipped, with the blocks counted up to the cursor.               *)
NothingMissed(l, c, s, dn) ==
  /\ {i \in BlocksWithin(s, c) : Fits(i)} \subseteq dn
  /\ dn \subseteq BlocksWithin(s, l)

BlockShapes ==
  /\ since \in Int
  /\ block \subseteq DOMAIN stream
  /\ block_hdr \in {0} \cup DOMAIN stream
  /\ decoded \subseteq DOMAIN stream

BInv ==
  /\ BlockShapes
  /\ ~InStep => decoded = {} /\ block = {} /\ block_hdr = 0
  /\ pending # NoTarget /\ ~desynced => since = pending
  /\ start = -1 /\ setup.mode = "start" => since = 0
  /\ Collected(lo, Cursor, since, block, block_hdr)
  /\ InStep => /\ since <= Cursor
               /\ Underway(Cursor, since, block_hdr)
               /\ NothingMissed(lo, Cursor, since, decoded)

LEMMA StreamStays ==
  ASSUME UNCHANGED setup
  PROVE  stream' = stream /\ Layout' = Layout
BY DEF stream, Layout

(* BInv after a step that leaves the stream alone, in terms of the stream  *)
(* before it.                                                              *)
LEMMA Reblock ==
  ASSUME UNCHANGED setup,
         since' \in Int, block' \subseteq DOMAIN stream,
         block_hdr' \in {0} \cup DOMAIN stream, decoded' \subseteq DOMAIN stream,
         ~InStep' => decoded' = {} /\ block' = {} /\ block_hdr' = 0,
         pending' # NoTarget /\ ~desynced' => since' = pending',
         Collected(lo', Cursor', since', block', block_hdr'),
         start' = -1 /\ setup.mode = "start" => since' = 0,
         InStep' => /\ since' <= Cursor'
                    /\ Underway(Cursor', since', block_hdr')
                    /\ NothingMissed(lo', Cursor', since', decoded')
  PROVE  BInv'
<1>1. stream' = stream /\ Layout' = Layout
  BY StreamStays
<1>2. BlockShapes'
  BY <1>1 DEF BlockShapes
<1>4. Collected(lo, Cursor, since, block, block_hdr)'
  BY <1>1 DEF Collected, Opens, At, After, Fits, Closes, Block
<1>5. InStep' => Underway(Cursor, since, block_hdr)'
  <2>1. ASSUME NEW i \in DOMAIN stream
        PROVE  /\ Opens(i)' <=> Opens(i)
               /\ Fits(i)' <=> Fits(i)
               /\ At(i)' = At(i) /\ After(Closes(i))' = After(Closes(i))
    BY <1>1 DEF Opens, At, After, Fits, Closes, Block
  <2>2. SUFFICES ASSUME InStep' PROVE Underway(Cursor, since, block_hdr)'
    OBVIOUS
  <2>3. PICK c, s, h : c = Cursor' /\ s = since' /\ h = block_hdr' /\ Underway(c, s, h)
    BY <2>2
  <2> QED
    BY <1>1, <2>1, <2>3 DEF Underway
<1>6. InStep' => NothingMissed(lo, Cursor, since, decoded)'
  <2>1. ASSUME NEW a, NEW b
        PROVE  {i \in DOMAIN stream : Opens(i) /\ At(i) >= a /\ After(Closes(i)) <= b}'
                 = {i \in DOMAIN stream : Opens(i) /\ At(i) >= a /\ After(Closes(i)) <= b}
    BY <1>1 DEF Opens, At, After, Closes, Block
  <2>2. \A i : Fits(i)' <=> Fits(i)
    BY <1>1 DEF Fits, Block
  <2> QED
    BY <2>1, <2>2 DEF NothingMissed, BlocksWithin
<1> QED
  BY <1>2, <1>4, <1>5, <1>6 DEF BInv, NoTarget

LEMMA BFacts ==
  ASSUME BInv
  PROVE  /\ since \in Int /\ block \subseteq DOMAIN stream
         /\ block_hdr \in {0} \cup DOMAIN stream /\ decoded \subseteq DOMAIN stream
         /\ ~InStep => decoded = {} /\ block = {} /\ block_hdr = 0
         /\ pending # NoTarget /\ ~desynced => since = pending
         /\ Collected(lo, Cursor, since, block, block_hdr)
         /\ start = -1 /\ setup.mode = "start" => since = 0
         /\ InStep => /\ since <= Cursor
                      /\ Underway(Cursor, since, block_hdr)
                      /\ NothingMissed(lo, Cursor, since, decoded)
BY DEF BInv, BlockShapes

(* Nothing in hand, nothing decoded, and no block that has to be.          *)
LEMMA OutOfStep ==
  ASSUME UNCHANGED setup, start' # -1, since' \in Int, ~InStep',
         decoded' = {}, block' = {}, block_hdr' = 0,
         pending' # NoTarget /\ ~desynced' => since' = pending'
  PROVE  BInv'
<1>1. Collected(lo', Cursor', since', block', block_hdr')
  BY DEF Collected
<1> QED
  BY <1>1, Reblock

LEMMA FreshStart ==
  ASSUME setup \in Setups, UNCHANGED setup, start' # -1, since' \in Int,
         pending' = NoTarget, NEW c \in Int, Cursor' = c, since' <= c,
         c = since' \/ c <= PrefaceLen,
         decoded' = {}, block' = {}, block_hdr' = 0
  PROVE  BInv'
<1>1. Collected(lo', Cursor', since', block', block_hdr')
  BY DEF Collected
<1>2. PrefaceLen \in Nat /\ FrameHeaderLen \in Nat \ {0} /\ stream \in Seq(Frames)
  BY DirectionAssumption, Positions
<1>3. ASSUME NEW i \in DOMAIN stream
      PROVE  At(i) \in Nat /\ At(i) >= PrefaceLen /\ At(i) < After(i) /\ After(i) \in Nat
             /\ (Opens(i) => At(i) < After(Closes(i)) /\ After(Closes(i)) \in Nat)
  <2>1. At(1) = PrefaceLen /\ 1 \in DOMAIN stream
    <3>1. Laid(stream, Layout[stream], Len(stream))
      BY LayoutIsLaid DEF stream
    <3>2. 1 \in 1..(Len(stream) + 1) /\ 1 \in DOMAIN stream
      BY <1>2
    <3> QED
      BY <3>1, <3>2 DEF Laid, At
  <2>2. i \in 1..(Len(stream) + 1) /\ (i = 1 \/ 1 < i)
    BY <1>2
  <2>3. At(i) \in Nat /\ After(i) \in Nat /\ At(i) < After(i)
    BY Positions, Ascending
  <2>4. At(i) >= PrefaceLen
    <3>1. CASE i = 1
      BY <1>2, <2>1, <3>1
    <3>2. CASE 1 < i
      <4>1. At(1) < After(1) /\ After(1) <= At(i) /\ After(1) \in Nat
        BY <2>1, <2>2, <3>2, Ascending, Positions
      <4> QED
        BY <1>2, <2>1, <2>3, <4>1
    <3> QED
      BY <2>2, <3>1, <3>2
  <2>5. ASSUME Opens(i) PROVE At(i) < After(Closes(i)) /\ After(Closes(i)) \in Nat
    <3>1. Closes(i) \in DOMAIN stream /\ i <= Closes(i)
      BY <2>5, BlockShape
    <3>2. Closes(i) \in 1..(Len(stream) + 1) /\ (i = Closes(i) \/ i < Closes(i))
      BY <1>2, <3>1
    <3>3. At(Closes(i)) < After(Closes(i)) /\ After(Closes(i)) \in Nat /\ At(Closes(i)) \in Nat
      BY <3>1, Ascending, Positions
    <3>4. i < Closes(i) => After(i) <= At(Closes(i))
      BY <3>2, Ascending
    <3> QED
      BY <2>3, <3>2, <3>3, <3>4
  <2> QED
    BY <2>3, <2>4, <2>5
<1>4. Underway(c, since', 0)
  BY <1>2, <1>3 DEF Underway
<1>5. NothingMissed(lo', c, since', {})
  <2>1. ASSUME NEW i \in BlocksWithin(since', c) PROVE FALSE
    <3>1. i \in DOMAIN stream /\ Opens(i) /\ At(i) >= since' /\ After(Closes(i)) <= c
      BY <2>1 DEF BlocksWithin
    <3> QED
      BY <1>2, <1>3, <3>1
  <2> QED
    BY <2>1 DEF NothingMissed
<1> QED
  BY <1>1, <1>4, <1>5, Reblock

(* Payload that is thrown away, and steps that touch nothing of this.      *)
LEMMA CursorStays ==
  ASSUME BInv, setup \in Setups, UNCHANGED <<start, setup, since, block, block_hdr, decoded>>,
         lo \in Int, lo' \in Int, lo <= lo', Cursor' = Cursor, InStep' <=> InStep,
         pending' # NoTarget /\ ~desynced' => since' = pending'
  PROVE  BInv'
<1>1. \A i \in DOMAIN stream : After(i) \in Nat
  BY Positions
<1>2. Collected(lo', Cursor, since, block, block_hdr)
  <2>1. \A j \in block : After(j) <= lo => After(j) <= lo'
    BY <1>1, BFacts
  <2> QED
    BY <2>1, BFacts DEF Collected
<1>3. ASSUME InStep PROVE NothingMissed(lo', Cursor, since, decoded)
  <2>1. ASSUME NEW i \in BlocksWithin(since, lo) PROVE i \in BlocksWithin(since, lo')
    <3>1. i \in DOMAIN stream /\ Opens(i) /\ At(i) >= since /\ After(Closes(i)) <= lo
      BY <2>1 DEF BlocksWithin
    <3>2. After(Closes(i)) \in Nat
      BY <1>1, <3>1, BlockShape
    <3> QED
      BY <3>1, <3>2 DEF BlocksWithin
  <2> QED
    BY <1>3, <2>1, BFacts DEF NothingMissed
<1> QED
  BY <1>2, <1>3, BFacts, Reblock

-----------------------------------------------------------------------------
(* Blocks, action by action.                                               *)

LEMMA InitBInv == Init => BInv
<1> SUFFICES ASSUME Init PROVE BInv
  OBVIOUS
<1>1. start = -1 /\ block = {} /\ block_hdr = 0 /\ decoded = {} /\ setup \in Setups
  BY DEF Init, FeedInit
<1>2. Boundaries \subseteq Nat
  BY <1>1, Positions
<1>3. /\ since \in Int
      /\ pending # NoTarget /\ ~desynced => since = pending
      /\ setup.mode = "start" => since = 0
  <2>1. CASE setup.mode = "midstream" /\ pending = NoTarget /\ since = -1
    BY <2>1
  <2>2. CASE setup.mode = "start" /\ pending = NoTarget /\ since = 0
    BY <2>2
  <2>3. CASE setup.mode = "seeded" /\ pending \in Boundaries /\ since = pending
    BY <1>2, <2>3
  <2> QED
    BY <2>1, <2>2, <2>3 DEF Init
<1>4. ~InStep
  BY <1>1 DEF InStep
<1> QED
  BY <1>1, <1>3, <1>4 DEF BInv, BlockShapes, Collected

LEMMA FirstBytesBlocks ==
  ASSUME FInv, BInv, NEW p \in 0..StreamLen, NEW h \in 0..StreamLen, FirstBytes(p, h)
  PROVE  BInv'
<1>1. /\ start = -1 /\ start' = p /\ lo' = p
      /\ UNCHANGED <<setup, discard, desynced, pending, since, block, block_hdr, decoded>>
      /\ setup.mode = "start" => p = 0
  BY DEF FirstBytes, Begin, Arrival, framing, blocks, decoder
<1>2. ~InStep
  BY <1>1 DEF InStep
<1>3. block' = {} /\ block_hdr' = 0 /\ decoded' = {} /\ since' \in Int
      /\ (pending' # NoTarget /\ ~desynced' => since' = pending')
  BY <1>1, <1>2, BFacts
<1>4. CASE InStep'
  <2>1. ~desynced /\ pending = NoTarget /\ pending' = NoTarget
    BY <1>1, <1>4 DEF InStep, NoTarget
  <2>2. discard = 0 /\ p = 0
    <3>1. Unstarted /\ setup \in Setups
      BY <1>1 DEF FInv, Shape
    <3>2. setup.mode \in {"start", "midstream", "seeded"}
      BY <3>1, DirectionAssumption
    <3> QED
      BY <1>1, <2>1, <3>1, <3>2 DEF Unstarted
  <2>3. Cursor' = 0 /\ 0 <= PrefaceLen
    BY <1>1, <2>2, DirectionAssumption DEF Cursor
  <2>4. since' = 0 /\ start' # -1
    <3>1. setup.mode = "start"
      <4>1. Unstarted /\ setup \in Setups
        BY <1>1 DEF FInv, Shape
      <4>2. setup.mode \in {"start", "midstream", "seeded"}
        BY <4>1, DirectionAssumption
      <4> QED
        BY <2>1, <4>1, <4>2 DEF Unstarted
    <3> QED
      BY <1>1, <3>1, BFacts, FeedAssumption
  <2> QED
    BY <1>1, <1>3, <2>1, <2>3, <2>4, FFacts, FreshStart
<1>5. CASE ~InStep'
  BY <1>1, <1>3, <1>5, FeedAssumption, OutOfStep
<1> QED
  BY <1>4, <1>5

LEMMA MoreBytesBlocks ==
  ASSUME FInv, BInv, NEW h \in 0..StreamLen, MoreBytes(h)
  PROVE  BInv'
<1>1. UNCHANGED <<start, lo, setup, discard, desynced, pending, since, block, block_hdr, decoded>>
  BY DEF MoreBytes, Extend, Arrival, framing, blocks, decoder
<1>2. (InStep' <=> InStep) /\ Cursor' = Cursor
  BY <1>1 DEF InStep, Cursor, NoTarget
<1> QED
  BY <1>1, <1>2, FFacts, BFacts, CursorStays

LEMMA StillBlocks ==
  ASSUME FInv, BInv, UNCHANGED <<start, lo, setup, discard, desynced, pending, since,
                                 block, block_hdr, decoded>>
  PROVE  BInv'
<1>1. (InStep' <=> InStep) /\ Cursor' = Cursor
  BY DEF InStep, Cursor, NoTarget
<1> QED
  BY <1>1, FFacts, BFacts, CursorStays

LEMMA BreakBlocks ==
  ASSUME FInv, BInv, Break
  PROVE  BInv'
BY StillBlocks DEF Break, feedVars, framing, blocks, decoder

LEMMA BytesAfterGapBlocks ==
  ASSUME FInv, BInv, NEW p \in 0..StreamLen, NEW h \in 0..StreamLen, BytesAfterGap(p, h)
  PROVE  BInv'
<1>1. /\ start' # -1 /\ UNCHANGED setup /\ desynced' = TRUE /\ block' = {} /\ block_hdr' = 0
      /\ decoded' = {} /\ since' = p /\ p \in Int
  BY FeedAssumption DEF BytesAfterGap, Skip, Arrival, OnGap, ResetPartial
<1> QED
  BY <1>1, OutOfStep DEF InStep

LEMMA DiscardBlocks ==
  ASSUME FInv, BInv, Discard
  PROVE  BInv'
<1>1. CASE Break
  BY <1>1, BreakBlocks
<1>2. ASSUME NEW n, n = MinOf(discard, Len(bytes)), Take(n), discard' = discard - n,
             UNCHANGED <<setup, desynced, pending, blocks, decoder>>
      PROVE  BInv'
  <2>1. start' = start /\ start # -1 /\ n \in Int /\ lo' = lo + n /\ n >= 1
        /\ lo \in Int /\ discard \in Nat
    BY <1>2, FFacts, TakeType DEF Take
  <2>2. UNCHANGED <<since, block, block_hdr, decoded>>
    BY <1>2 DEF blocks, decoder
  <2>3. Cursor' = Cursor /\ lo <= lo' /\ lo' \in Int
    BY <1>2, <2>1 DEF Cursor
  <2>4. InStep' <=> InStep
    BY <1>2, <2>1 DEF InStep, NoTarget
  <2> QED
    BY <1>2, <2>1, <2>2, <2>3, <2>4, FFacts, BFacts, CursorStays
<1> QED
  BY <1>1, <1>2 DEF Discard

LEMMA SeekBlocks ==
  ASSUME FInv, BInv, Seek
  PROVE  BInv'
<1>1. parsing /\ discard = 0 /\ pending # NoTarget /\ pending \in Boundaries /\ pending \in Int
      /\ ~InStep /\ lo \in Int /\ start # -1
  BY FFacts DEF Seek, Phase, InStep
<1>2. block = {} /\ block_hdr = 0 /\ decoded = {} /\ since \in Int
      /\ (~desynced => since = pending)
  BY <1>1, BFacts
<1>3. CASE Break
  BY <1>3, BreakBlocks
<1>4. CASE /\ Take(MinOf(pending - lo, Len(bytes)))
           /\ UNCHANGED <<setup, parsing, framing, blocks, decoder>>
  <2>1. UNCHANGED <<setup, pending, desynced, since, block, block_hdr, decoded>>
    BY <1>4 DEF framing, blocks, decoder
  <2>2. ~InStep' /\ start' # -1
    BY <1>1, <1>4, <2>1 DEF InStep, NoTarget, Take
  <2> QED
    BY <1>2, <2>1, <2>2, OutOfStep
<1>5. CASE /\ pending <= lo
           /\ pending' = NoTarget
           /\ desynced' = (desynced \/ pending < lo)
           /\ IF pending < lo THEN ResetPartial(lo) ELSE UNCHANGED decoder
           /\ UNCHANGED <<feedVars, setup, discard, blocks>>
  <2>1. block' = {} /\ block_hdr' = 0 /\ decoded' = {} /\ lo' = lo /\ start' # -1
    BY <1>1, <1>2, <1>5 DEF blocks, feedVars, ResetPartial, decoder
  <2>2. since' \in Int /\ since' = IF pending < lo THEN lo ELSE since
    BY <1>1, <1>2, <1>5 DEF ResetPartial, decoder
  <2>3. pending' = NoTarget
    BY <1>5
  <2>4. CASE pending < lo \/ desynced
    <3>1. desynced' = TRUE
      BY <1>5, <2>4, FFacts DEF Shape
    <3> QED
      BY <1>5, <2>1, <2>2, <2>3, <3>1, OutOfStep DEF InStep, NoTarget
  <2>5. CASE ~(pending < lo) /\ ~desynced
    <3>1. since' = lo /\ Cursor' = lo
      BY <1>1, <1>2, <1>5, <2>1, <2>2, <2>5 DEF Cursor
    <3> QED
      BY <1>1, <1>5, <2>1, <2>2, <2>3, <3>1, FFacts, FreshStart
  <2> QED
    BY <2>4, <2>5
<1> QED
  BY <1>3, <1>4, <1>5 DEF Seek

LEMMA ResyncBlocks ==
  ASSUME FInv, BInv, Resync
  PROVE  BInv'
<1>1. parsing /\ discard = 0 /\ pending = NoTarget /\ desynced /\ ~InStep /\ start # -1
  BY FFacts DEF Resync, Phase, InStep
<1>2. block = {} /\ block_hdr = 0 /\ decoded = {} /\ since \in Int
  BY <1>1, BFacts
<1>3. CASE Break
  BY <1>3, BreakBlocks
<1>4. CASE /\ Candidates # {}
           /\ Adopt(At(First))
           /\ since' = At(First)
           /\ UNCHANGED <<setup, discard, pending, blocks, decoded>>
  <2>1. stream \in Seq(Frames)
    BY FFacts, Positions
  <2>2. Candidates \in SUBSET Nat
    BY <2>1 DEF Candidates
  <2>3. PICK i \in Candidates : \A j \in Candidates : i <= j
    BY <1>4, <2>2, Least
  <2>4. First \in Candidates
    BY <2>3 DEF First
  <2>5. At(First) \in Int /\ At(First) \in Boundaries
    BY <2>4, FFacts, Positions DEF Candidates
  <2>6. lo' = At(First) /\ start' # -1
    BY <1>1, <1>4, <2>5, FFacts DEF Adopt, feedVars, Take
  <2>7. Cursor' = At(First) /\ since' = At(First)
    BY <1>1, <1>4, <2>5, <2>6 DEF Cursor
  <2>8. block' = {} /\ block_hdr' = 0 /\ decoded' = {} /\ pending' = NoTarget
    BY <1>1, <1>2, <1>4 DEF blocks, NoTarget
  <2> QED
    BY <1>4, <2>5, <2>6, <2>7, <2>8, FFacts, FreshStart
<1>5. CASE /\ IF Len(bytes) > ResyncWindow
              THEN Take(Len(bytes) - ResyncWindow)
              ELSE UNCHANGED feedVars
           /\ UNCHANGED <<setup, framing, blocks, decoder>>
  <2>1. UNCHANGED <<setup, pending, desynced, since, block, block_hdr, decoded>>
    BY <1>5 DEF framing, blocks, decoder
  <2>2. ~InStep' /\ pending' = NoTarget /\ start' # -1
    BY <1>1, <1>5, <2>1 DEF InStep, NoTarget, Take, feedVars
  <2> QED
    BY <1>2, <2>1, <2>2, OutOfStep DEF NoTarget
<1> QED
  BY <1>3, <1>4, <1>5 DEF Resync

LEMMA PrefaceBlocks ==
  ASSUME FInv, BInv, Preface
  PROVE  BInv'
<1>1. parsing /\ discard = 0 /\ pending = NoTarget /\ ~desynced /\ start # -1 /\ InStep
      /\ setup \in Setups /\ lo \in Int
  BY FFacts DEF Preface, Phase, InStep
<1>2. CASE Break
  BY <1>2, BreakBlocks
<1>3. CASE /\ IF lo = 0 THEN Take(PrefaceLen) ELSE UNCHANGED feedVars
           /\ UNCHANGED <<setup, discard, pending, desynced, blocks, decoder>>
  <2>1. UNCHANGED <<since, block, block_hdr, decoded>>
    BY <1>3 DEF blocks, decoder
  <2>2. CASE lo # 0
    <3>1. UNCHANGED <<start, lo>>
      BY <1>3, <2>2 DEF feedVars
    <3> QED
      BY <1>3, <2>1, <3>1, StillBlocks
  <2>3. CASE lo = 0
    <3>1. start' # -1 /\ lo' = PrefaceLen /\ PrefaceLen \in Nat
      BY <1>1, <1>3, <2>3, DirectionAssumption DEF Take
    <3>2. Cursor = 0 /\ Cursor' = PrefaceLen
      BY <1>1, <1>3, <2>3, <3>1 DEF Cursor
    <3>3. \A j \in DOMAIN stream : After(j) \in Nat /\ ~(After(j) <= 0)
      <4>1. ASSUME NEW j \in DOMAIN stream PROVE After(j) \in Nat /\ ~(After(j) <= 0)
        <5>1. After(j) \in Nat /\ At(j) \in Nat /\ At(j) < After(j)
          BY <1>1, Positions, Ascending
        <5> QED
          BY <5>1
      <4> QED
        BY <4>1
    <3>4. block = {} /\ block_hdr = 0
      BY <2>3, <3>3, BFacts DEF Collected
    <3>5. decoded = {}
      <4>1. decoded \subseteq BlocksWithin(since, 0)
        BY <1>1, <2>3, BFacts DEF NothingMissed
      <4>2. \A i \in DOMAIN stream : Opens(i) => Closes(i) \in DOMAIN stream
        BY <1>1, BlockShape
      <4> QED
        BY <3>3, <4>1, <4>2 DEF BlocksWithin
    <3>6. since' \in Int /\ since' <= PrefaceLen /\ pending' = NoTarget
      BY <1>1, <1>3, <2>1, <3>1, <3>2, BFacts DEF NoTarget
    <3> QED
      BY <1>1, <1>3, <2>1, <3>1, <3>2, <3>4, <3>5, <3>6, FreshStart
  <2> QED
    BY <2>2, <2>3
<1> QED
  BY <1>2, <1>3 DEF Preface

(* The order of frames is that of their positions.                         *)
LEMMA Order ==
  ASSUME setup \in Setups, NEW a \in DOMAIN stream, NEW b \in DOMAIN stream
  PROVE  /\ a \in Nat /\ b \in Nat
         /\ At(a) < At(b) <=> a < b
         /\ At(a) < After(b) <=> a <= b
         /\ After(a) <= At(b) <=> a < b
         /\ After(a) <= After(b) <=> a <= b
         /\ At(a) \in Nat /\ After(a) \in Nat /\ At(b) \in Nat /\ After(b) \in Nat
<1>1. stream \in Seq(Frames) /\ a \in 1..(Len(stream) + 1) /\ b \in 1..(Len(stream) + 1)
  BY Positions
<1>2. At(a) \in Nat /\ After(a) \in Nat /\ At(b) \in Nat /\ After(b) \in Nat
  BY Positions
<1>3. At(a) < After(a) /\ At(b) < After(b)
  BY Ascending
<1>4. (a < b => After(a) <= At(b)) /\ (b < a => After(b) <= At(a))
  BY <1>1, Ascending
<1>5. a \in Nat /\ b \in Nat /\ (a = b => At(a) = At(b) /\ After(a) = After(b))
  BY <1>1
<1> QED
  BY <1>2, <1>3, <1>4, <1>5

(* Frame m, seen from the block that frame i opens.                        *)
LEMMA InBlock ==
  ASSUME setup \in Setups, NEW i \in DOMAIN stream, Opens(i), NEW m \in DOMAIN stream,
         i <= m, m <= Closes(i)
  PROVE  /\ m \in Block(i) /\ IsHeaderFrame(m)
         /\ m # i => stream[m].typ = "CONTINUATION"
         /\ stream[m].end <=> m = Closes(i)
         /\ Fits(i) => stream[m].len <= MaxBufferedFrame
<1>1. m \in Block(i)
  <2>1. i \in Int /\ m \in Int /\ Closes(i) \in Int
    BY Order, BlockShape
  <2> QED
    BY <2>1, BlockShape
<1>2. IsHeaderFrame(m)
  BY <1>1, BlockShape DEF IsHeaderFrame, Opens
<1> QED
  BY <1>1, <1>2, BlockShape DEF Fits

(* What BInv says when frame m is the next one.                            *)
LEMMA AtFrame ==
  ASSUME BInv, setup \in Setups, InStep, NEW m \in DOMAIN stream, Cursor = At(m)
  PROVE  /\ since <= At(m)
         /\ block_hdr = 0 => block = {}
         /\ block_hdr # 0 =>
              /\ block_hdr \in DOMAIN stream /\ block_hdr \in block
              /\ Opens(block_hdr) /\ At(block_hdr) >= since
              /\ Fits(block_hdr) =>
                   block = {j \in Block(block_hdr) : j < m} /\ m <= Closes(block_hdr)
         /\ \A i \in DOMAIN stream :
              Opens(i) /\ Fits(i) /\ At(i) >= since /\ i < m /\ m <= Closes(i) => block_hdr = i
         /\ \A i \in DOMAIN stream :
              Opens(i) /\ Fits(i) /\ At(i) >= since /\ Closes(i) < m => i \in decoded
<1>1. \A i \in DOMAIN stream : Opens(i) => Closes(i) \in DOMAIN stream
                                          /\ Block(i) \subseteq DOMAIN stream
  <2>1. ASSUME NEW i \in DOMAIN stream, Opens(i)
        PROVE  Closes(i) \in DOMAIN stream /\ Block(i) \subseteq DOMAIN stream
    <3>1. stream \in Seq(Frames)
      BY Positions
    <3> QED
      BY <2>1, <3>1, BlockShape
  <2> QED
    BY <2>1
<1>2. \A j \in DOMAIN stream : (After(j) <= At(m) <=> j < m) /\ (At(j) < At(m) <=> j < m)
                               /\ (At(m) < After(j) <=> m <= j)
  BY Order
<1>3. Underway(At(m), since, block_hdr)
      /\ {i \in BlocksWithin(since, At(m)) : Fits(i)} \subseteq decoded
      /\ Collected(lo, At(m), since, block, block_hdr) /\ since <= At(m)
      /\ block_hdr \in {0} \cup DOMAIN stream
  BY BFacts DEF NothingMissed
<1>4. ASSUME block_hdr # 0
      PROVE  /\ block_hdr \in DOMAIN stream /\ block_hdr \in block
             /\ Opens(block_hdr) /\ At(block_hdr) >= since
             /\ Fits(block_hdr) =>
                  block = {j \in Block(block_hdr) : j < m} /\ m <= Closes(block_hdr)
  <2>1. /\ block_hdr \in DOMAIN stream /\ block_hdr \in block
        /\ Opens(block_hdr) /\ At(block_hdr) >= since
        /\ Fits(block_hdr) => block = {j \in Block(block_hdr) : After(j) <= At(m)}
                              /\ At(m) < After(Closes(block_hdr))
    BY <1>3, <1>4 DEF Collected
  <2>2. {j \in Block(block_hdr) : After(j) <= At(m)} = {j \in Block(block_hdr) : j < m}
    BY <1>1, <1>2, <2>1
  <2>3. At(m) < After(Closes(block_hdr)) => m <= Closes(block_hdr)
    BY <1>1, <1>2, <2>1
  <2> QED
    BY <2>1, <2>2, <2>3
<1>5. block_hdr = 0 => block = {}
  BY <1>3 DEF Collected
<1>6. ASSUME NEW i \in DOMAIN stream, Opens(i), Fits(i), At(i) >= since, i < m, m <= Closes(i)
      PROVE  block_hdr = i
  <2>1. At(i) < At(m) /\ At(m) < After(Closes(i))
    BY <1>1, <1>2, <1>6
  <2> QED
    BY <1>3, <1>6, <2>1 DEF Underway
<1>7. ASSUME NEW i \in DOMAIN stream, Opens(i), Fits(i), At(i) >= since, Closes(i) < m
      PROVE  i \in decoded
  <2>1. After(Closes(i)) <= At(m)
    BY <1>1, <1>2, <1>7
  <2> QED
    BY <1>3, <1>7, <2>1 DEF BlocksWithin
<1> QED
  BY <1>3, <1>4, <1>5, <1>6, <1>7

(* BInv once frame m has been seen, in the same terms.                     *)
LEMMA PastFrame ==
  ASSUME setup \in Setups, UNCHANGED setup, NEW m \in DOMAIN stream,
         start' # -1, InStep', Cursor' = After(m), lo' \in Int,
         since' \in Int, since' <= At(m),
         block' \subseteq DOMAIN stream, block_hdr' \in {0} \cup DOMAIN stream,
         decoded' \subseteq DOMAIN stream,
         \A j \in block' : After(j) <= lo',
         block_hdr' = 0 => block' = {},
         block_hdr' # 0 =>
           /\ block_hdr' \in block'
           /\ Opens(block_hdr') /\ At(block_hdr') >= since'
           /\ Fits(block_hdr') =>
                block' = {j \in Block(block_hdr') : j <= m} /\ m < Closes(block_hdr'),
         \A i \in DOMAIN stream :
           Opens(i) /\ Fits(i) /\ At(i) >= since' /\ i <= m /\ m < Closes(i) => block_hdr' = i,
         \A i \in DOMAIN stream :
           Opens(i) /\ Fits(i) /\ At(i) >= since' /\ Closes(i) <= m => i \in decoded',
         decoded' \subseteq BlocksWithin(since', lo')
  PROVE  BInv'
<1>1. \A i \in DOMAIN stream : Opens(i) => Closes(i) \in DOMAIN stream
                                          /\ Block(i) \subseteq DOMAIN stream
  <2>1. ASSUME NEW i \in DOMAIN stream, Opens(i)
        PROVE  Closes(i) \in DOMAIN stream /\ Block(i) \subseteq DOMAIN stream
    <3>1. stream \in Seq(Frames)
      BY Positions
    <3> QED
      BY <2>1, <3>1, BlockShape
  <2> QED
    BY <2>1
<1>2. \A j \in DOMAIN stream : (After(j) <= After(m) <=> j <= m) /\ (At(j) < After(m) <=> j <= m)
                               /\ (After(m) < After(j) <=> m < j)
  BY Order
<1>3. Collected(lo', After(m), since', block', block_hdr')
  <2>1. ASSUME block_hdr' # 0, Fits(block_hdr')
        PROVE  block' = {j \in Block(block_hdr') : After(j) <= After(m)}
               /\ After(m) < After(Closes(block_hdr'))
    <3>1. Opens(block_hdr') /\ block_hdr' \in DOMAIN stream
      BY <2>1
    <3>2. {j \in Block(block_hdr') : j <= m} = {j \in Block(block_hdr') : After(j) <= After(m)}
      BY <1>1, <1>2, <3>1
    <3> QED
      BY <1>1, <1>2, <2>1, <3>1, <3>2
  <2> QED
    BY <2>1 DEF Collected
<1>4. Underway(After(m), since', block_hdr')
  BY <1>1, <1>2 DEF Underway
<1>5. NothingMissed(lo', After(m), since', decoded')
  <2>1. ASSUME NEW i \in BlocksWithin(since', After(m)), Fits(i) PROVE i \in decoded'
    <3>1. i \in DOMAIN stream /\ Opens(i) /\ At(i) >= since' /\ After(Closes(i)) <= After(m)
      BY <2>1 DEF BlocksWithin
    <3>2. Closes(i) <= m
      BY <1>1, <1>2, <3>1
    <3> QED
      BY <2>1, <3>1, <3>2
  <2> QED
    BY <2>1 DEF NothingMissed
<1>6. since' <= After(m)
  BY Order
<1>7. pending' = NoTarget
  BY DEF InStep, NoTarget
<1> QED
  BY <1>3, <1>4, <1>5, <1>6, <1>7, Reblock

(* What is decoded stays within what has been seen.                        *)
LEMMA WithinGrows ==
  ASSUME setup \in Setups, NEW a \in Int, NEW b \in Int, NEW c \in Int, b <= c
  PROVE  BlocksWithin(a, b) \subseteq BlocksWithin(a, c)
<1> SUFFICES ASSUME NEW i \in BlocksWithin(a, b) PROVE i \in BlocksWithin(a, c)
  OBVIOUS
<1>1. i \in DOMAIN stream /\ Opens(i) /\ At(i) >= a /\ After(Closes(i)) <= b
  BY DEF BlocksWithin
<1>2. After(Closes(i)) \in Nat
  BY <1>1, BlockShape, Positions
<1> QED
  BY <1>1, <1>2 DEF BlocksWithin

(* A frame that is passed over, and is no part of a block that fits.       *)
LEMMA PassedOver ==
  ASSUME FInv, BInv, InStep, NEW m \in DOMAIN stream, Cursor = At(m),
         \A i \in DOMAIN stream : Opens(i) /\ Fits(i) /\ i <= m => ~(m <= Closes(i)),
         UNCHANGED <<setup, since, block, block_hdr, decoded>>,
         InStep', start' # -1, Cursor' = After(m), lo' \in Int, lo <= lo'
  PROVE  BInv'
<1>1. setup \in Setups /\ lo \in Int /\ since \in Int /\ block \subseteq DOMAIN stream
      /\ block_hdr \in {0} \cup DOMAIN stream /\ decoded \subseteq DOMAIN stream
      /\ decoded \subseteq BlocksWithin(since, lo)
  BY FFacts, BFacts DEF NothingMissed
<1>2. \A j \in block : After(j) <= lo'
  <2>1. ASSUME NEW j \in block PROVE After(j) <= lo'
    <3>1. After(j) <= lo /\ j \in DOMAIN stream
      BY <1>1, BFacts DEF Collected
    <3>2. After(j) \in Nat
      BY <1>1, <3>1, Positions
    <3> QED
      BY <1>1, <3>1, <3>2
  <2> QED
    BY <2>1
<1>3. decoded \subseteq BlocksWithin(since, lo')
  BY <1>1, WithinGrows
<1>4. \A i \in DOMAIN stream : i \in Nat /\ (Opens(i) => Closes(i) \in Nat /\ i <= Closes(i))
  <2>1. ASSUME NEW i \in DOMAIN stream, Opens(i) PROVE Closes(i) \in Nat /\ i <= Closes(i)
    <3>1. Closes(i) \in DOMAIN stream /\ i <= Closes(i)
      BY <1>1, <2>1, BlockShape
    <3> QED
      BY <1>1, <3>1, Order
  <2> QED
    BY <1>1, <2>1, Order
<1>5. ASSUME block_hdr # 0
      PROVE  /\ block_hdr \in block
             /\ Opens(block_hdr) /\ At(block_hdr) >= since
             /\ Fits(block_hdr) => FALSE
  <2>1. /\ block_hdr \in DOMAIN stream /\ block_hdr \in block
        /\ Opens(block_hdr) /\ At(block_hdr) >= since
        /\ Fits(block_hdr) =>
             block = {j \in Block(block_hdr) : j < m} /\ m <= Closes(block_hdr)
    BY <1>1, <1>5, AtFrame
  <2>2. Fits(block_hdr) => block_hdr <= m
    BY <1>4, <2>1
  <2> QED
    BY <2>1, <2>2
<1>6. ASSUME NEW i \in DOMAIN stream, Opens(i), Fits(i), At(i) >= since, Closes(i) <= m
      PROVE  i \in decoded
  <2>1. Closes(i) < m
    BY <1>4, <1>6
  <2> QED
    BY <1>1, <1>6, <2>1, AtFrame
<1>7. \A i \in DOMAIN stream :
        Opens(i) /\ Fits(i) /\ At(i) >= since /\ i <= m /\ m < Closes(i) => FALSE
  BY <1>4
<1>8. since <= At(m) /\ (block_hdr = 0 => block = {})
  BY <1>1, AtFrame
<1> QED
  BY <1>1, <1>2, <1>3, <1>5, <1>6, <1>7, <1>8, PastFrame

LEMMA DropPayloadBlocks ==
  ASSUME FInv, BInv, NEW m \in FramesAt(lo), DropPayload(m)
  PROVE  BInv'
<1>1. /\ parsing /\ discard = 0 /\ pending = NoTarget /\ ~desynced
      /\ ~WantPayload(m) /\ Take(FrameHeaderLen) /\ discard' = stream[m].len
      /\ UNCHANGED <<setup, desynced, pending, since, block, block_hdr, decoded>>
  <2>1. ~(discard > 0) /\ parsing /\ pending = NoTarget /\ ~desynced
    BY DEF DropPayload, Phase
  <2> QED
    BY <2>1, FFacts DEF DropPayload, blocks, decoder
<1>2. m \in DOMAIN stream /\ At(m) = lo /\ setup \in Setups /\ lo \in Int /\ start # -1
  BY <1>1, FFacts DEF FramesAt
<1>3. /\ start' # -1 /\ lo' = lo + FrameHeaderLen /\ FrameHeaderLen \in Nat
      /\ stream[m].len \in Nat /\ After(m) = lo + FrameHeaderLen + stream[m].len
  BY <1>1, <1>2, Positions, DirectionAssumption DEF Take
<1>4. Cursor = At(m) /\ Cursor' = After(m) /\ lo' \in Int /\ lo <= lo'
  BY <1>1, <1>2, <1>3 DEF Cursor
<1>5. InStep /\ InStep'
  BY <1>1, <1>2, <1>3 DEF InStep, NoTarget
<1>6. ASSUME NEW i \in DOMAIN stream, Opens(i), Fits(i), i <= m, m <= Closes(i) PROVE FALSE
  <2>1. IsHeaderFrame(m) /\ stream[m].len <= MaxBufferedFrame
    BY <1>2, <1>6, InBlock
  <2> QED
    BY <1>1, <2>1 DEF WantPayload
<1> QED
  BY <1>1, <1>2, <1>3, <1>4, <1>5, <1>6, PassedOver

(* A block that ends: b are the frames its fragments came in.              *)
LEMMA FinishBlockBlocks ==
  ASSUME FInv, BInv, InStep, NEW m \in DOMAIN stream, Cursor = At(m), stream[m].end,
         NEW o \in DOMAIN stream, NEW b \in SUBSET DOMAIN stream,
         Opens(o), At(o) >= since, m \in b, \A j \in b : j <= m,
         \A i \in DOMAIN stream : Opens(i) /\ Fits(i) /\ At(i) >= since
           /\ i <= m /\ m = Closes(i) => i = o /\ b = Block(o),
         FinishBlock(o, b), UNCHANGED setup, start' # -1,
         lo' = After(m), discard = 0
  PROVE  BInv'
<1>1. setup \in Setups /\ since \in Int /\ decoded \subseteq DOMAIN stream
      /\ decoded \subseteq BlocksWithin(since, lo) /\ lo = At(m) /\ lo \in Int
  <2>1. lo = At(m)
    BY FFacts DEF Cursor
  <2> QED
    BY <2>1, FFacts, BFacts DEF NothingMissed
<1>2. /\ block' = {} /\ block_hdr' = 0 /\ pending' = NoTarget /\ ~desynced'
      /\ discard' = 0 /\ InStep'
  BY DEF FinishBlock, InStep, NoTarget
<1>3. After(m) \in Nat /\ At(m) \in Nat /\ At(m) < After(m) /\ Cursor' = After(m)
  BY <1>1, <1>2, Order DEF Cursor
<1>4. CASE ResetPartial(lo')
  <2>1. decoded' = {} /\ since' = After(m)
    BY <1>4 DEF ResetPartial
  <2> QED
    BY <1>1, <1>2, <1>3, <2>1, FreshStart
<1>5. CASE /\ decoded' = IF b = Block(o) THEN decoded \cup {o} ELSE decoded
           /\ since' = since
  <2>1. \A i \in DOMAIN stream : i \in Nat /\ (Opens(i) => Closes(i) \in Nat /\ i <= Closes(i))
    <3>1. ASSUME NEW i \in DOMAIN stream, Opens(i) PROVE Closes(i) \in Nat /\ i <= Closes(i)
      <4>1. Closes(i) \in DOMAIN stream /\ i <= Closes(i)
        BY <1>1, <3>1, BlockShape
      <4> QED
        BY <1>1, <4>1, Order
    <3> QED
      BY <1>1, <3>1, Order
  <2>2. ASSUME NEW i \in DOMAIN stream, Opens(i), Fits(i), At(i) >= since, Closes(i) <= m
        PROVE  i \in decoded'
    <3>1. CASE Closes(i) < m
      BY <1>1, <1>5, <2>2, <3>1, AtFrame
    <3>2. CASE Closes(i) = m
      <4>1. i <= m
        BY <2>1, <2>2, <3>2
      <4>2. i = o /\ b = Block(o)
        BY <2>2, <3>2, <4>1
      <4> QED
        BY <1>5, <4>2
    <3> QED
      BY <2>1, <2>2, <3>1, <3>2
  <2>3. ASSUME NEW i \in DOMAIN stream, Opens(i), i <= m, m < Closes(i) PROVE FALSE
    BY <1>1, <2>1, <2>3, InBlock
  <2>4. decoded' \subseteq BlocksWithin(since, After(m))
    <3>1. decoded \subseteq BlocksWithin(since, After(m))
      BY <1>1, <1>3, WithinGrows
    <3>2. ASSUME b = Block(o) PROVE o \in BlocksWithin(since, After(m))
      <4>1. Closes(o) \in DOMAIN stream /\ Closes(o) \in Block(o)
        <5>1. Closes(o) \in DOMAIN stream /\ o <= Closes(o) /\ Block(o) = o..Closes(o)
          BY <1>1, BlockShape
        <5> QED
          BY <2>1, <5>1
      <4>2. Closes(o) <= m
        BY <3>2, <4>1
      <4>3. After(Closes(o)) <= After(m)
        BY <1>1, <4>1, <4>2, Order
      <4> QED
        BY <4>3 DEF BlocksWithin
    <3> QED
      BY <1>5, <3>1, <3>2
  <2>5. since <= At(m) /\ decoded' \subseteq DOMAIN stream
    BY <1>1, <1>5, AtFrame
  <2> QED
    BY <1>1, <1>2, <1>3, <1>5, <2>2, <2>3, <2>4, <2>5, PastFrame
<1> QED
  BY <1>4, <1>5 DEF FinishBlock

(* A block that goes on.                                                   *)
LEMMA AddFragmentBlocks ==
  ASSUME FInv, BInv, InStep, NEW m \in DOMAIN stream, Cursor = At(m), ~stream[m].end,
         NEW o \in DOMAIN stream, NEW b \in SUBSET DOMAIN stream,
         Opens(o), At(o) >= since, o \in b, \A j \in b : j <= m,
         Fits(o) => b = {j \in Block(o) : j <= m} /\ m < Closes(o),
         \A i \in DOMAIN stream : Opens(i) /\ Fits(i) /\ At(i) >= since
           /\ i <= m /\ m < Closes(i) => i = o,
         AddFragment(o, b), UNCHANGED setup, start' # -1,
         lo' = After(m), discard = 0
  PROVE  BInv'
<1>1. setup \in Setups /\ since \in Int /\ decoded \subseteq DOMAIN stream
      /\ decoded \subseteq BlocksWithin(since, lo) /\ lo = At(m) /\ lo \in Int
  <2>1. lo = At(m)
    BY FFacts DEF Cursor
  <2> QED
    BY <2>1, FFacts, BFacts DEF NothingMissed
<1>2. /\ block' = b /\ block_hdr' = o /\ pending' = NoTarget /\ ~desynced'
      /\ discard' = 0 /\ InStep' /\ UNCHANGED <<decoded, since>>
  BY DEF AddFragment, framing, decoder, InStep, NoTarget
<1>3. After(m) \in Nat /\ At(m) \in Nat /\ At(m) < After(m) /\ Cursor' = After(m)
  BY <1>1, <1>2, Order DEF Cursor
<1>4. \A i \in DOMAIN stream : i \in Nat /\ (Opens(i) => Closes(i) \in Nat /\ i <= Closes(i))
  <2>1. ASSUME NEW i \in DOMAIN stream, Opens(i) PROVE Closes(i) \in Nat /\ i <= Closes(i)
    <3>1. Closes(i) \in DOMAIN stream /\ i <= Closes(i)
      BY <1>1, <2>1, BlockShape
    <3> QED
      BY <1>1, <3>1, Order
  <2> QED
    BY <1>1, <2>1, Order
<1>5. ASSUME NEW i \in DOMAIN stream, Opens(i), Fits(i), At(i) >= since, Closes(i) <= m
      PROVE  i \in decoded
  <2>1. CASE Closes(i) < m
    BY <1>1, <1>5, <2>1, AtFrame
  <2>2. CASE Closes(i) = m
    BY <1>1, <1>4, <1>5, <2>2, InBlock
  <2> QED
    BY <1>4, <1>5, <2>1, <2>2
<1>6. \A j \in b : After(j) <= After(m)
  BY <1>1, Order
<1>7. decoded \subseteq BlocksWithin(since, After(m))
  BY <1>1, <1>3, WithinGrows
<1>8. since <= At(m) /\ o # 0
  <2>1. o # 0
    BY <1>1, Positions
  <2> QED
    BY <1>1, <2>1, AtFrame
<1> QED
  BY <1>1, <1>2, <1>3, <1>5, <1>6, <1>7, <1>8, PastFrame

LEMMA HandleFrameBlocks ==
  ASSUME FInv, BInv, NEW m \in FramesAt(lo), HandleFrame(m)
  PROVE  BInv'
<1>1. /\ parsing /\ discard = 0 /\ pending = NoTarget /\ ~desynced
      /\ Take(FrameHeaderLen + stream[m].len) /\ UNCHANGED setup
  <2>1. ~(discard > 0) /\ parsing /\ pending = NoTarget /\ ~desynced
    BY DEF HandleFrame, Phase
  <2> QED
    BY <2>1, FFacts DEF HandleFrame
<1>2. /\ m \in DOMAIN stream /\ At(m) = lo /\ setup \in Setups /\ lo \in Int /\ start # -1
      /\ since \in Int /\ block \subseteq DOMAIN stream /\ InStep
  BY <1>1, FFacts, BFacts DEF FramesAt, InStep
<1>3. /\ start' # -1 /\ lo' = lo + (FrameHeaderLen + stream[m].len) /\ FrameHeaderLen \in Nat
      /\ stream[m].len \in Nat /\ After(m) = lo + FrameHeaderLen + stream[m].len
  BY <1>1, <1>2, Positions, DirectionAssumption DEF Take
<1>4. Cursor = At(m) /\ lo' = After(m) /\ lo' \in Int /\ lo <= lo'
  BY <1>1, <1>2, <1>3 DEF Cursor
<1>5. /\ since <= At(m)
      /\ block_hdr = 0 => block = {}
      /\ block_hdr # 0 =>
           /\ block_hdr \in DOMAIN stream /\ block_hdr \in block
           /\ Opens(block_hdr) /\ At(block_hdr) >= since
           /\ Fits(block_hdr) =>
                block = {j \in Block(block_hdr) : j < m} /\ m <= Closes(block_hdr)
      /\ \A i \in DOMAIN stream :
           Opens(i) /\ Fits(i) /\ At(i) >= since /\ i < m /\ m <= Closes(i) => block_hdr = i
  BY <1>2, <1>4, AtFrame
<1>6. \A i \in DOMAIN stream : Opens(i) =>
        /\ i \in Nat /\ Closes(i) \in Nat /\ i <= Closes(i) /\ Block(i) = i..Closes(i)
  <2>1. ASSUME NEW i \in DOMAIN stream, Opens(i)
        PROVE  i \in Nat /\ Closes(i) \in Nat /\ i <= Closes(i) /\ Block(i) = i..Closes(i)
    <3>1. Closes(i) \in DOMAIN stream /\ i <= Closes(i) /\ Block(i) = i..Closes(i)
      BY <1>2, <2>1, BlockShape
    <3> QED
      BY <1>2, <3>1, Order
  <2> QED
    BY <2>1
<1>7. m \in Nat /\ At(m) \in Nat /\ stream[m].end \in BOOLEAN /\ stream[m].sound \in BOOLEAN
  <2>1. stream[m] \in Frames
    BY <1>2, Positions
  <2> QED
    BY <1>2, <2>1, Order DEF Frames
<1>8. CASE MarkBadBlock
  <2>1. /\ block' = {} /\ block_hdr' = 0 /\ decoded' = {} /\ since' = lo' /\ desynced' = TRUE
        /\ pending' = NoTarget
    BY <1>1, <1>8 DEF MarkBadBlock, ResetPartial, NoTarget
  <2> QED
    BY <1>1, <1>3, <1>4, <2>1, OutOfStep DEF InStep
<1>9. CASE Opens(m) /\ stream[m].end /\ FinishBlock(m, {m})
  <2>1. ASSUME NEW i \in DOMAIN stream, Opens(i), i <= m, m = Closes(i)
        PROVE  i = m /\ {m} = Block(m)
    <3>0. m <= Closes(i)
      BY <1>7, <2>1
    <3>1. m # i => stream[m].typ = "CONTINUATION"
      BY <1>2, <2>1, <3>0, InBlock
    <3>2. i = m
      BY <1>9, <3>1 DEF Opens
    <3>3. Block(m) = m..m
      BY <1>6, <2>1, <3>2
    <3> QED
      BY <1>7, <3>2, <3>3
  <2>2. {m} \in SUBSET DOMAIN stream /\ m \in {m} /\ At(m) >= since /\ \A j \in {m} : j <= m
    BY <1>2, <1>5, <1>7
  <2> QED
    BY <1>1, <1>2, <1>3, <1>4, <1>9, <2>1, <2>2, FinishBlockBlocks
<1>10. CASE Opens(m) /\ ~stream[m].end /\ AddFragment(m, {m})
  <2>1. m <= Closes(m) /\ m \in DOMAIN stream /\ m <= m
    BY <1>2, <1>6, <1>7, <1>10
  <2>2. m < Closes(m)
    <3>1. m # Closes(m)
      BY <1>2, <1>10, <2>1, InBlock
    <3> QED
      BY <1>6, <1>10, <2>1, <3>1
  <2>3. {m} = {j \in Block(m) : j <= m}
    BY <1>6, <1>10, <2>1
  <2>4. ASSUME NEW i \in DOMAIN stream, Opens(i), i <= m, m < Closes(i) PROVE i = m
    <3>1. m <= Closes(i)
      BY <1>6, <1>7, <2>4
    <3> QED
      BY <1>2, <1>10, <2>4, <3>1, InBlock DEF Opens
  <2>5. {m} \in SUBSET DOMAIN stream /\ m \in {m} /\ At(m) >= since /\ \A j \in {m} : j <= m
    BY <1>2, <1>5, <1>7
  <2> QED
    BY <1>1, <1>2, <1>3, <1>4, <1>10, <2>2, <2>3, <2>4, <2>5, AddFragmentBlocks
<1>11. ASSUME block_hdr # 0, stream[m].typ = "CONTINUATION"
       PROVE  /\ block_hdr \in DOMAIN stream /\ Opens(block_hdr) /\ At(block_hdr) >= since
              /\ block \cup {m} \in SUBSET DOMAIN stream
              /\ block_hdr \in block \cup {m} /\ m \in block \cup {m}
              /\ block_hdr < m
              /\ \A j \in block \cup {m} : j <= m
              /\ ~Opens(m)
  <2>1. ASSUME NEW j \in block PROVE j < m
    <3>1. After(j) <= lo
      BY <1>11, BFacts DEF Collected
    <3> QED
      BY <1>2, <3>1, Order
  <2>2. ~Opens(m)
    BY <1>11 DEF Opens
  <2>3. /\ block_hdr \in DOMAIN stream /\ Opens(block_hdr) /\ At(block_hdr) >= since
        /\ block_hdr \in block
    BY <1>5, <1>11
  <2>4. block \cup {m} \in SUBSET DOMAIN stream
    BY <1>2
  <2>5. \A j \in block \cup {m} : j <= m
    <3>1. ASSUME NEW j \in block PROVE j <= m
      <4>1. j < m /\ j \in DOMAIN stream
        BY <1>2, <2>1, <3>1
      <4>2. j \in Nat
        BY <1>2, <4>1, Order
      <4> QED
        BY <1>7, <4>1, <4>2
    <3> QED
      BY <1>7, <3>1
  <2> QED
    BY <2>1, <2>2, <2>3, <2>4, <2>5
<1>12. CASE /\ stream[m].typ = "CONTINUATION" /\ block_hdr # 0 /\ stream[m].end
            /\ FinishBlock(block_hdr, block \cup {m})
  <2>1. ASSUME NEW i \in DOMAIN stream, Opens(i), Fits(i), At(i) >= since, i <= m, m = Closes(i)
        PROVE  i = block_hdr /\ block \cup {m} = Block(block_hdr)
    <3>1. i < m /\ m <= Closes(i)
      BY <1>6, <1>7, <1>11, <1>12, <2>1
    <3>2. i = block_hdr
      BY <1>5, <2>1, <3>1
    <3>3. block = {j \in Block(i) : j < m}
      BY <1>5, <1>12, <2>1, <3>2
    <3>4. Block(i) = i..m
      BY <1>6, <2>1
    <3> QED
      BY <1>6, <1>7, <2>1, <3>1, <3>2, <3>3, <3>4
  <2> QED
    BY <1>1, <1>2, <1>3, <1>4, <1>11, <1>12, <2>1, FinishBlockBlocks
<1>13. CASE /\ stream[m].typ = "CONTINUATION" /\ block_hdr # 0 /\ ~stream[m].end
            /\ AddFragment(block_hdr, block \cup {m})
  <2>1. ASSUME Fits(block_hdr)
        PROVE  block \cup {m} = {j \in Block(block_hdr) : j <= m} /\ m < Closes(block_hdr)
    <3>1. block = {j \in Block(block_hdr) : j < m} /\ m <= Closes(block_hdr)
      BY <1>5, <1>13, <2>1
    <3>2. block_hdr <= m /\ block_hdr \in Nat /\ Closes(block_hdr) \in Nat
          /\ Block(block_hdr) = block_hdr..Closes(block_hdr)
      BY <1>6, <1>7, <1>11, <1>13
    <3>3. m # Closes(block_hdr) /\ m \in Block(block_hdr)
      BY <1>2, <1>11, <1>13, <3>1, <3>2, InBlock
    <3> QED
      BY <1>7, <3>1, <3>2, <3>3
  <2>2. ASSUME NEW i \in DOMAIN stream, Opens(i), Fits(i), At(i) >= since, i <= m, m < Closes(i)
        PROVE  i = block_hdr
    <3>1. i < m /\ m <= Closes(i)
      BY <1>6, <1>7, <1>11, <1>13, <2>2
    <3> QED
      BY <1>5, <2>2, <3>1
  <2> QED
    BY <1>1, <1>2, <1>3, <1>4, <1>11, <1>13, <2>1, <2>2, AddFragmentBlocks
<1>14. CASE ~IsHeaderFrame(m) /\ UNCHANGED <<framing, blocks, decoder>>
  <2>1. UNCHANGED <<discard, desynced, pending, since, block, block_hdr, decoded>>
    BY <1>14 DEF framing, blocks, decoder
  <2>2. Cursor' = After(m) /\ InStep'
    <3>1. discard' = 0 /\ pending' = NoTarget /\ ~desynced'
      BY <1>1, <2>1 DEF NoTarget
    <3> QED
      BY <1>3, <1>4, <3>1 DEF Cursor, InStep, NoTarget
  <2>3. ASSUME NEW i \in DOMAIN stream, Opens(i), Fits(i), i <= m, m <= Closes(i) PROVE FALSE
    BY <1>2, <1>14, <2>3, InBlock
  <2> QED
    BY <1>1, <1>2, <1>3, <1>4, <2>1, <2>2, <2>3, PassedOver
<1>15. CASE Opens(m) /\ Headers(m)
  BY <1>8, <1>9, <1>10, <1>15 DEF Headers
<1>16. CASE stream[m].typ = "CONTINUATION" /\ Continuation(m)
  BY <1>8, <1>12, <1>13, <1>16 DEF Continuation
<1> QED
  BY <1>14, <1>15, <1>16 DEF HandleFrame

LEMMA StepBInv ==
  ASSUME FInv, BInv, [Next]_vars
  PROVE  BInv'
<1>1. CASE UNCHANGED vars
  BY <1>1, StillBlocks DEF vars
<1>2. ASSUME NEW p \in 0..StreamLen, NEW h \in 0..StreamLen,
             FirstBytes(p, h) \/ BytesAfterGap(p, h)
      PROVE  BInv'
  BY <1>2, FirstBytesBlocks, BytesAfterGapBlocks
<1>3. ASSUME NEW h \in 0..StreamLen, MoreBytes(h)
      PROVE  BInv'
  BY <1>3, MoreBytesBlocks
<1>4. CASE PeerCapacity
  BY <1>4, StillBlocks DEF PeerCapacity, feedVars, framing, blocks
<1>5. ASSUME NEW i \in FramesAt(lo), DropPayload(i) \/ HandleFrame(i)
      PROVE  BInv'
  BY <1>5, DropPayloadBlocks, HandleFrameBlocks
<1>6. CASE FrameAwaited
  BY <1>6, BreakBlocks DEF FrameAwaited
<1>7. CASE Parse
  BY <1>5, <1>6, <1>7, DiscardBlocks, SeekBlocks, ResyncBlocks, PrefaceBlocks DEF Parse
<1> QED
  BY <1>1, <1>2, <1>3, <1>4, <1>7 DEF Next

(* With its header blocks, the invariant of a direction (handle_frame(),   *)
(* finish_block(), on_gap(), mark_bad_block()).                            *)
THEOREM BlocksInductive == Spec => [](FInv /\ BInv)
<1>1. Init => FInv /\ BInv
  BY InitFInv, InitBInv
<1>2. FInv /\ BInv /\ [Next]_vars => FInv' /\ BInv'
  BY StepFInv, StepBInv
<1> QED
  BY <1>1, <1>2, PTL DEF Spec

(* In step, whatever is sent, lost or seeded, the blocks that have gone    *)
(* through the decoder since decoding (re)started are exactly those the    *)
(* sender has sent since, but for the ones too large to buffer             *)
(* (finish_block(), on_gap(), mark_bad_block(), seed_from_snapshot()).     *)
THEOREM NothingSkippedTheorem == Spec => []NothingSkipped
<1>1. FInv /\ BInv => NothingSkipped
  <2> SUFFICES ASSUME FInv, BInv, InStep PROVE NothingSkipped
    BY DEF NothingSkipped
  <2>1. setup \in Setups /\ lo \in Int /\ discard \in Nat
    BY FFacts
  <2>2. NothingMissed(lo, Cursor, since, decoded) /\ since \in Int
    BY BFacts
  <2>3. Cursor \in Int /\ lo <= Cursor
    BY <2>1 DEF Cursor
  <2>4. BlocksWithin(since, lo) \subseteq BlocksWithin(since, Cursor)
    BY <2>1, <2>2, <2>3, WithinGrows
  <2> QED
    BY <2>2, <2>4 DEF NothingMissed, NothingSkipped
<1> QED
  BY <1>1, BlocksInductive, PTL

(* The fragments in hand are those of one block, all of them up to the     *)
(* position of the parser: none is left from a block that was given up,    *)
(* and none is lost (handle_frame(), on_gap()).                            *)
THEOREM FragmentsOfOneBlockTheorem == Spec => []FragmentsOfOneBlock
<1>1. FInv /\ BInv => FragmentsOfOneBlock
  <2> SUFFICES ASSUME FInv, BInv, block_hdr # 0, Fits(block_hdr)
               PROVE  block = {j \in Block(block_hdr) : After(j) <= lo}
    BY DEF FragmentsOfOneBlock
  <2>1. setup \in Setups /\ lo \in Int /\ discard \in Nat /\ Cursor \in Int /\ lo <= Cursor
    BY FFacts DEF Cursor
  <2>2. /\ block_hdr \in DOMAIN stream /\ Opens(block_hdr)
        /\ \A j \in block : After(j) <= lo
        /\ block = {j \in Block(block_hdr) : After(j) <= Cursor}
    BY BFacts DEF Collected
  <2>3. ASSUME NEW j \in Block(block_hdr), After(j) <= lo PROVE After(j) <= Cursor
    <3>1. j \in DOMAIN stream
      BY <2>1, <2>2, BlockShape, Positions
    <3> QED
      BY <2>1, <2>3, <3>1, Positions
  <2> QED
    BY <2>2, <2>3
<1> QED
  BY <1>1, BlocksInductive, PTL

-----------------------------------------------------------------------------
(* Types.                                                                  *)

(* What TypeOK says beyond FInv and BInv, and that no byte is there that   *)
(* was not sent.                                                           *)
Ranges ==
  /\ start \in -1..StreamLen /\ lo \in -1..StreamLen /\ hi <= StreamLen
  /\ gaps \in 0..MaxGaps
  /\ parsing \in BOOLEAN /\ poisoned \in BOOLEAN /\ misaligned \in BOOLEAN
  /\ exact \in BOOLEAN
  /\ since \in -1..StreamLen \cup Boundaries

LEMMA RunLength ==
  ASSUME NEW p \in Int, NEW h \in Int
  PROVE  p + Len(Run(p, h)) = IF p <= h THEN h ELSE p
<1>1. CASE p <= h
  <2>1. h - p \in Nat
    BY <1>1
  <2>2. Len(Run(p, h)) = h - p
    BY <2>1 DEF Run
  <2> QED
    BY <1>1, <2>2
<1>2. CASE ~(p <= h)
  <2>1. 1..(h - p) = 1..0
    BY <1>2
  <2>2. DOMAIN Run(p, h) = 1..0 /\ Run(p, h) \in Seq(Int)
    BY <2>1, RunType DEF Run
  <2>3. Len(Run(p, h)) = 0
    BY <2>2
  <2> QED
    BY <1>2, <2>3
<1> QED
  BY <1>1, <1>2

LEMMA TakeRange ==
  ASSUME Shape, Ranges, NEW n, Take(n)
  PROVE  /\ start' = start /\ gaps' = gaps
         /\ lo' \in -1..StreamLen /\ hi' <= StreamLen
<1>1. /\ start' = start /\ gaps' = gaps /\ n \in 1..Len(bytes) /\ bytes \in Seq(Int)
      /\ lo' = lo + n /\ bytes' = Run(lo + n, hi) /\ lo \in -1..StreamLen
  BY DEF Take, Shape, Ranges
<1>2. hi = lo + Len(bytes) /\ hi <= StreamLen /\ Len(bytes) \in Nat /\ StreamLen \in Nat
  BY <1>1, FeedAssumption DEF hi, Ranges
<1>3. lo + n \in Int /\ hi \in Int /\ lo + n <= hi /\ lo + n \in -1..StreamLen
  BY <1>1, <1>2
<1>4. (lo + n) + Len(Run(lo + n, hi)) = hi
  BY <1>3, RunLength
<1>5. hi' = hi
  BY <1>1, <1>4 DEF hi
<1> QED
  BY <1>1, <1>2, <1>3, <1>5

LEMMA FirstCandidate ==
  ASSUME setup \in Setups, Candidates # {}
  PROVE  First \in Candidates
<1>1. Candidates \in SUBSET Nat
  BY Positions DEF Candidates
<1>2. PICK i \in Candidates : \A j \in Candidates : i <= j
  BY <1>1, Least
<1> QED
  BY <1>2 DEF First

LEMMA InitRanges == Init => Ranges
<1> SUFFICES ASSUME Init PROVE Ranges
  OBVIOUS
<1>1. start = -1 /\ lo = -1 /\ bytes = <<>> /\ gaps = 0
  BY DEF Init, FeedInit
<1>2. hi = -1
  BY <1>1 DEF hi
<1>3. exact \in BOOLEAN /\ since \in {-1, 0} \cup Boundaries
  <2>1. CASE exact = FALSE /\ since = -1
    BY <2>1
  <2>2. CASE exact = TRUE /\ since = 0
    BY <2>2
  <2>3. CASE exact = TRUE /\ pending \in Boundaries /\ since = pending
    BY <2>3
  <2> QED
    BY <2>1, <2>2, <2>3 DEF Init
<1>4. parsing \in BOOLEAN /\ poisoned \in BOOLEAN /\ misaligned \in BOOLEAN
  BY DEF Init
<1>5. StreamLen \in Nat /\ MaxGaps \in Nat
  BY FeedAssumption, DirectionAssumption
<1>6. start \in -1..StreamLen /\ lo \in -1..StreamLen /\ hi <= StreamLen /\ gaps \in 0..MaxGaps
      /\ {-1, 0} \subseteq -1..StreamLen
  BY <1>1, <1>2, <1>5
<1>7. since \in -1..StreamLen \cup Boundaries
  BY <1>3, <1>6
<1> QED
  BY <1>3, <1>4, <1>6, <1>7 DEF Ranges

(* A step by what it does to the bytes and to what is decoded.             *)
LEMMA ReRange ==
  ASSUME Ranges, UNCHANGED setup,
         \/ UNCHANGED feedVars
         \/ /\ start' \in -1..StreamLen /\ gaps' \in 0..MaxGaps
            /\ lo' \in -1..StreamLen /\ hi' <= StreamLen,
         parsing' \in BOOLEAN, poisoned' \in BOOLEAN, misaligned' \in BOOLEAN,
         exact' \in BOOLEAN,
         since' \in -1..StreamLen \cup Boundaries
  PROVE  Ranges'
<1>1. Boundaries' = Boundaries
  BY BoundariesStay
<1>2. CASE UNCHANGED feedVars
  <2>1. hi' = hi /\ start' = start /\ gaps' = gaps /\ lo' = lo
    BY <1>2 DEF feedVars, hi
  <2> QED
    BY <1>1, <2>1 DEF Ranges
<1>3. CASE start' \in -1..StreamLen /\ gaps' \in 0..MaxGaps /\ lo' \in -1..StreamLen
           /\ hi' <= StreamLen
  BY <1>1, <1>3 DEF Ranges
<1> QED
  BY <1>2, <1>3

LEMMA StepRanges ==
  ASSUME FInv, Ranges, [Next]_vars
  PROVE  Ranges'
<1>0. /\ Shape /\ StreamLen \in Nat /\ MaxGaps \in Nat
      /\ start \in -1..StreamLen /\ lo \in -1..StreamLen /\ hi <= StreamLen
      /\ gaps \in 0..MaxGaps /\ parsing \in BOOLEAN /\ poisoned \in BOOLEAN
      /\ misaligned \in BOOLEAN /\ exact \in BOOLEAN
      /\ since \in -1..StreamLen \cup Boundaries
  BY FFacts, FeedAssumption, DirectionAssumption DEF Ranges
<1>1. CASE UNCHANGED vars
  BY <1>0, <1>1, ReRange DEF vars, feedVars
<1>2. ASSUME NEW p \in 0..StreamLen, NEW h \in 0..StreamLen, p <= h,
             lo' = p, bytes' = Run(p, h)
      PROVE  lo' \in -1..StreamLen /\ hi' <= StreamLen
  <2>0. p \in Int /\ h \in Int
    BY <1>0
  <2>1. p + Len(Run(p, h)) = h
    BY <1>2, <2>0, RunLength
  <2>2. hi' = h
    BY <1>2, <2>1 DEF hi
  <2> QED
    BY <1>0, <1>2, <2>2
<1>3. ASSUME NEW p \in 0..StreamLen, NEW h \in 0..StreamLen, FirstBytes(p, h)
      PROVE  Ranges'
  <2>1. /\ p <= h /\ start' = p /\ lo' = p /\ bytes' = Run(p, h) /\ UNCHANGED <<gaps, setup>>
        /\ parsing' = TRUE /\ UNCHANGED <<poisoned, misaligned, exact, since>>
    BY <1>3 DEF FirstBytes, Arrival, Begin, framing, decoder
  <2> QED
    BY <1>0, <1>2, <2>1, ReRange
<1>4. ASSUME NEW p \in 0..StreamLen, NEW h \in 0..StreamLen, BytesAfterGap(p, h)
      PROVE  Ranges'
  <2>1. /\ p <= h /\ start' = start /\ lo' = p /\ bytes' = Run(p, h) /\ gaps' = gaps + 1
        /\ gaps < MaxGaps /\ UNCHANGED setup /\ since' = lo'
        /\ parsing' = TRUE /\ poisoned' = TRUE /\ exact' = FALSE /\ misaligned' = misaligned
    BY <1>4 DEF BytesAfterGap, Arrival, Skip, OnGap, ResetPartial
  <2>2. gaps' \in 0..MaxGaps /\ since' \in -1..StreamLen
    BY <1>0, <2>1
  <2> QED
    BY <1>0, <1>2, <2>1, <2>2, ReRange
<1>5. ASSUME NEW h \in 0..StreamLen, MoreBytes(h)
      PROVE  Ranges'
  <2>1. /\ h > hi /\ bytes' = Run(lo, h) /\ UNCHANGED <<start, lo, gaps, setup>>
        /\ parsing' = TRUE /\ UNCHANGED <<poisoned, misaligned, exact, since>>
    BY <1>5 DEF MoreBytes, Arrival, Extend, framing, decoder
  <2>2. bytes \in Seq(Int) /\ hi = lo + Len(bytes)
    BY <1>0 DEF Shape, hi
  <2>3. lo <= h
    BY <1>0, <2>1, <2>2
  <2>4. lo + Len(Run(lo, h)) = h
    BY <1>0, <2>3, RunLength
  <2>5. hi' = h
    BY <2>1, <2>4 DEF hi
  <2> QED
    BY <1>0, <2>1, <2>5, ReRange
<1>6. CASE PeerCapacity
  BY <1>0, <1>6, ReRange DEF PeerCapacity, framing, blocks
<1>7. CASE Break
  BY <1>0, <1>7, ReRange DEF Break, framing, blocks, decoder
<1>8. ASSUME NEW n, Take(n), UNCHANGED setup,
             parsing' \in BOOLEAN, poisoned' \in BOOLEAN, misaligned' \in BOOLEAN,
             exact' \in BOOLEAN, since' \in -1..StreamLen \cup Boundaries \cup {lo'}
      PROVE  Ranges'
  BY <1>0, <1>8, TakeRange, ReRange
<1>9. CASE Discard
  BY <1>0, <1>7, <1>8, <1>9 DEF Discard, blocks, decoder
<1>10. CASE Seek
  <2>1. CASE /\ pending <= lo
             /\ misaligned' = (misaligned \/ pending < lo)
             /\ IF pending < lo THEN ResetPartial(lo) ELSE UNCHANGED decoder
             /\ UNCHANGED <<feedVars, setup, parsing, poisoned>>
    <3>1. misaligned' \in BOOLEAN
      BY <1>0, <2>1
    <3>2. exact' \in BOOLEAN /\ since' \in -1..StreamLen \cup Boundaries
      BY <1>0, <2>1 DEF ResetPartial, decoder
    <3> QED
      BY <1>0, <2>1, <3>1, <3>2, ReRange
  <2>2. CASE /\ Take(MinOf(pending - lo, Len(bytes)))
             /\ UNCHANGED <<setup, parsing, framing, blocks, decoder>>
    BY <1>0, <1>8, <2>2 DEF framing, decoder
  <2> QED
    BY <1>7, <1>10, <2>1, <2>2 DEF Seek
<1>11. CASE Resync
  <2>1. CASE /\ Candidates # {} /\ Adopt(At(First)) /\ since' = At(First)
             /\ UNCHANGED <<setup, parsing, poisoned, misaligned, exact>>
    <3>1. setup \in Setups /\ lo \in Int /\ hi \in Int
      BY <1>0 DEF Shape, hi
    <3>2. First \in DOMAIN stream /\ At(First) >= lo /\ At(First) + FrameHeaderLen <= hi
      BY <3>1, <2>1, FirstCandidate DEF Candidates
    <3>3. At(First) \in -1..StreamLen
      <4>1. At(First) \in Nat /\ FrameHeaderLen \in Nat
        BY <3>1, <3>2, Order, DirectionAssumption
      <4> QED
        BY <1>0, <3>1, <3>2, <4>1
    <3>4. CASE UNCHANGED feedVars
      BY <1>0, <2>1, <3>3, <3>4, ReRange
    <3>5. CASE Take(At(First) - lo)
      BY <1>0, <1>8, <2>1, <3>3, <3>5
    <3> QED
      BY <2>1, <3>4, <3>5 DEF Adopt
  <2>2. CASE /\ IF Len(bytes) > ResyncWindow
                THEN Take(Len(bytes) - ResyncWindow)
                ELSE UNCHANGED feedVars
             /\ parsing' = FALSE
             /\ UNCHANGED <<setup, framing, blocks, decoder>>
    <3>1. parsing' \in BOOLEAN /\ UNCHANGED <<setup, poisoned, misaligned, exact, since>>
      BY <2>2 DEF framing, decoder
    <3>2. CASE UNCHANGED feedVars
      BY <1>0, <3>1, <3>2, ReRange
    <3>3. CASE Take(Len(bytes) - ResyncWindow)
      BY <1>0, <1>8, <3>1, <3>3
    <3> QED
      BY <2>2, <3>2, <3>3
  <2> QED
    BY <1>7, <1>11, <2>1, <2>2 DEF Resync
<1>12. CASE Preface
  <2>1. CASE /\ IF lo = 0 THEN Take(PrefaceLen) ELSE UNCHANGED feedVars
             /\ UNCHANGED <<setup, parsing, poisoned, desynced, discard, pending,
                            misaligned, blocks, decoder>>
    <3>1. UNCHANGED <<setup, parsing, poisoned, misaligned, exact, since>>
      BY <2>1 DEF decoder
    <3>2. CASE UNCHANGED feedVars
      BY <1>0, <3>1, <3>2, ReRange
    <3>3. CASE Take(PrefaceLen)
      BY <1>0, <1>8, <3>1, <3>3
    <3> QED
      BY <2>1, <3>2, <3>3
  <2> QED
    BY <1>7, <1>12, <2>1 DEF Preface
<1>13. CASE FrameAwaited
  BY <1>7, <1>13 DEF FrameAwaited
<1>14. ASSUME NEW i \in FramesAt(lo), DropPayload(i)
       PROVE  Ranges'
  BY <1>0, <1>8, <1>14 DEF DropPayload, decoder
<1>15. ASSUME NEW i \in FramesAt(lo), HandleFrame(i)
       PROVE  Ranges'
  <2>1. Take(FrameHeaderLen + stream[i].len) /\ UNCHANGED <<setup, parsing>>
    BY <1>15 DEF HandleFrame
  <2>2. CASE MarkBadBlock
    BY <1>0, <1>8, <2>1, <2>2 DEF MarkBadBlock, ResetPartial
  <2>3. ASSUME NEW o, NEW b, FinishBlock(o, b) PROVE Ranges'
    BY <1>0, <1>8, <2>1, <2>3 DEF FinishBlock, ResetPartial
  <2>4. CASE UNCHANGED <<framing, decoder>>
    BY <1>0, <1>8, <2>1, <2>4 DEF framing, decoder
  <2> QED
    BY <1>15, <2>2, <2>3, <2>4 DEF HandleFrame, Headers, Continuation, AddFragment
<1> QED
  BY <1>1, <1>3, <1>4, <1>5, <1>6, <1>9, <1>10, <1>11, <1>12, <1>13, <1>14, <1>15
  DEF Next, Parse

(* The types of a direction's state; that a discard never counts below     *)
(* zero, and that a seek never waits for anything but a frame boundary     *)
(* (parse()).                                                              *)
THEOREM TypeTheorem == Spec => []TypeOK
<1>1. Init => Ranges
  BY InitRanges
<1>2. FInv /\ Ranges /\ [Next]_vars => Ranges'
  BY StepRanges
<1>3. FInv /\ BInv /\ Ranges => TypeOK
  BY BFacts DEF FInv, Shape, Ranges, TypeOK
<1> QED
  BY <1>1, <1>2, <1>3, BlocksInductive, PTL DEF Spec
=============================================================================
