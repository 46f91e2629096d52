-------------------------- MODULE HpackMirrorProofs --------------------------
(***************************************************************************)
(* The mirror's safety for every value of the constants: tables of any     *)
(* size, any number of insertions, SETTINGS and losses.                    *)
(***************************************************************************)
EXTENDS HpackMirror, FiniteSetTheorems, NaturalsInduction, WellFoundedInduction, TLAPS

(* The bytes down to an entry grow by at least the overhead per entry.     *)
Spaced(t) ==
  /\ \A i \in 1..Len(t) : t[i].upto >= MinEntrySize
  /\ \A i, j \in 1..Len(t) : i < j => t[j].upto >= t[i].upto + MinEntrySize

(* A field on its way into the table accounts for itself only.             *)
Fields == {f \in Entries : f.upto >= MinEntrySize}

-----------------------------------------------------------------------------
(* Facts about the operators of HpackDecoder, for tables of any length:    *)
(* what each returns, and what it leaves of the table.                     *)

(* The pop_back loop of evict() always finds where to stop.                *)
LEMMA KeptExists ==
  ASSUME NEW t \in Seq(Entries), NEW max \in Nat
  PROVE  /\ Kept(t, max) \in 0..Len(t)
         /\ Upto(t, Kept(t, max)) <= max
         /\ \A j \in (Kept(t, max) + 1)..Len(t) : t[j].upto > max
<1> DEFINE n == Len(t)
           S == {p \in Nat : p <= n /\ Upto(t, n - p) <= max}
<1>1. n \in Nat
  OBVIOUS
<1>2. n \in S
  BY <1>1 DEF Upto
<1>3. PICK p \in S : \A q \in S : ~(<<q, p>> \in OpToRel(<, Nat))
  <2>1. S \subseteq Nat /\ S # {}
    BY <1>2
  <2> QED
    BY <2>1, NatLessThanWellFounded, WFMin
<1>4. \A q \in S : ~(q < p)
  BY <1>3 DEF OpToRel
<1>5. n - p \in 0..n /\ Upto(t, n - p) <= max
  BY <1>1
<1>6. ASSUME NEW j \in (n - p + 1)..n
      PROVE  t[j].upto > max
  <2>1. t[j] \in Entries /\ j \in 1..n /\ j # 0
    BY <1>1, <1>5
  <2>2. n - j \in Nat /\ n - j < p /\ n - j <= n /\ n - (n - j) = j
    BY <1>1, <1>5, <2>1
  <2>3. ~(Upto(t, j) <= max)
    BY <1>4, <2>2
  <2>4. Upto(t, j) = t[j].upto /\ t[j].upto \in Nat
    BY <2>1 DEF Upto, Entries
  <2> QED
    BY <2>3, <2>4
<1>7. \E k \in 0..Len(t) : /\ Upto(t, k) <= max
                           /\ \A j \in (k+1)..Len(t) : t[j].upto > max
  BY <1>5, <1>6
<1> QED
  BY <1>7 DEF Kept

(* A prefix of a table is a table, entry for entry.                        *)
LEMMA PrefixType ==
  ASSUME NEW t \in Seq(Entries), NEW k \in 0..Len(t)
  PROVE  /\ SubSeq(t, 1, k) \in Seq(Entries)
         /\ Len(SubSeq(t, 1, k)) = k
         /\ \A i \in 1..k : SubSeq(t, 1, k)[i] = t[i]
OBVIOUS

LEMMA EntryAt ==
  ASSUME NEW t \in Seq(Entries), NEW i \in 1..Len(t)
  PROVE  t[i] \in Entries /\ t[i].upto \in Nat
<1>1. t[i] \in Entries
  OBVIOUS
<1> QED
  BY <1>1 DEF Entries

LEMMA DeeperType ==
  ASSUME NEW e \in Entries, NEW n \in Nat
  PROVE  /\ Deeper(e, n) \in Entries
         /\ Deeper(e, n).name = e.name
         /\ Deeper(e, n).nlen = e.nlen
         /\ Deeper(e, n).val = e.val
         /\ Deeper(e, n).unknown = e.unknown
         /\ Deeper(e, n).upto = e.upto + n
BY DEF Deeper, Entries

(* Pushing puts the new entry at index 1, moves the others up by one and   *)
(* leaves their contents alone.                                            *)
LEMMA PushType ==
  ASSUME NEW t \in Seq(Entries), NEW f \in Entries
  PROVE  /\ Push(t, f) \in Seq(Entries)
         /\ Len(Push(t, f)) = Len(t) + 1
         /\ Push(t, f)[1] = f
         /\ \A i \in 2..(Len(t) + 1) : Push(t, f)[i] = Deeper(t[i-1], f.upto)
<1>1. f.upto \in Nat
  BY DEF Entries
<1>2. \A i \in 1..(Len(t) + 1) : i # 1 => Deeper(t[i-1], f.upto) \in Entries
  <2> SUFFICES ASSUME NEW i \in 1..(Len(t) + 1), i # 1
               PROVE  Deeper(t[i-1], f.upto) \in Entries
    OBVIOUS
  <2>1. i - 1 \in 1..Len(t)
    OBVIOUS
  <2>2. t[i-1] \in Entries
    BY <2>1, EntryAt
  <2> QED
    BY <2>2, <1>1, DeeperType
<1>3. Push(t, f) \in [1..(Len(t) + 1) -> Entries]
  BY <1>2 DEF Push
<1>4. Push(t, f) \in Seq(Entries) /\ Len(Push(t, f)) = Len(t) + 1
  BY <1>3
<1> QED
  BY <1>4 DEF Push

LEMMA AddBoth ==
  ASSUME NEW a \in Nat, NEW b \in Nat, NEW c \in Nat, NEW z \in Nat, b >= a + z
  PROVE  b + c >= (a + c) + z
OBVIOUS

(* Spacing survives a push and the cut of a prefix.                        *)
LEMMA PushSpaced ==
  ASSUME NEW t \in Seq(Entries), NEW f \in Fields, Spaced(t)
  PROVE  Spaced(Push(t, f))
<1> DEFINE u == Push(t, f)
<1>1. f \in Entries /\ f.upto \in Nat /\ f.upto >= MinEntrySize
  BY DEF Fields, Entries
<1>2. /\ Len(u) = Len(t) + 1
      /\ u[1].upto = f.upto
      /\ \A i \in 2..Len(u) : u[i].upto = t[i-1].upto + f.upto
  <2>1. /\ Len(u) = Len(t) + 1
        /\ u[1] = f
        /\ \A i \in 2..(Len(t) + 1) : u[i] = Deeper(t[i-1], f.upto)
    BY <1>1, PushType
  <2>2. ASSUME NEW i \in 2..(Len(t) + 1)
        PROVE  u[i].upto = t[i-1].upto + f.upto
    <3>1. i - 1 \in 1..Len(t)
      OBVIOUS
    <3>2. t[i-1] \in Entries
      BY <3>1, EntryAt
    <3>3. Deeper(t[i-1], f.upto).upto = t[i-1].upto + f.upto
      BY <3>2, <1>1, DeeperType
    <3> QED
      BY <2>1, <3>3
  <2> QED
    BY <2>1, <2>2
<1>3. \A i \in 1..Len(t) : t[i].upto \in Nat
  BY EntryAt
<1> HIDE DEF u
<1>4. \A i \in 1..Len(u) : u[i].upto >= MinEntrySize
  <2> SUFFICES ASSUME NEW i \in 1..Len(u) PROVE u[i].upto >= MinEntrySize
    OBVIOUS
  <2>1. CASE i = 1
    BY <2>1, <1>1, <1>2
  <2>2. CASE i # 1
    <3>1. i \in 2..Len(u) /\ i - 1 \in 1..Len(t)
      BY <2>2, <1>2
    <3>2. PICK a, b \in Nat : a = t[i-1].upto /\ b = f.upto /\ b >= MinEntrySize
      BY <3>1, <1>1, <1>3
    <3>3. u[i].upto = a + b
      BY <3>1, <3>2, <1>2
    <3>4. a + b >= MinEntrySize
      BY <3>2, DecoderAssumption
    <3> QED
      BY <3>3, <3>4
  <2> QED
    BY <2>1, <2>2
<1>5. \A i, j \in 1..Len(u) : i < j => u[j].upto >= u[i].upto + MinEntrySize
  <2> SUFFICES ASSUME NEW i \in 1..Len(u), NEW j \in 1..Len(u), i < j
               PROVE  u[j].upto >= u[i].upto + MinEntrySize
    OBVIOUS
  <2>0. /\ j \in 2..Len(u) /\ j - 1 \in 1..Len(t)
        /\ u[j].upto = t[j-1].upto + f.upto
    BY <1>2
  <2>1. CASE i = 1
    <3>1. t[j-1].upto >= MinEntrySize /\ t[j-1].upto \in Nat
      BY <2>0, <1>3 DEF Spaced
    <3>2. u[i].upto = f.upto
      BY <2>1, <1>2
    <3>3. PICK a, b \in Nat : a = t[j-1].upto /\ b = f.upto /\ a >= MinEntrySize
      BY <3>1, <1>1
    <3>4. u[j].upto = a + b /\ u[i].upto = b
      BY <2>0, <3>2, <3>3
    <3>5. a + b >= b + MinEntrySize
      BY <3>3, DecoderAssumption
    <3> QED
      BY <3>4, <3>5
  <2>2. CASE i # 1
    <3>1. /\ i \in 2..Len(u) /\ i - 1 \in 1..Len(t) /\ i - 1 < j - 1
          /\ u[i].upto = t[i-1].upto + f.upto
      BY <2>2, <1>2
    <3>2. t[j-1].upto >= t[i-1].upto + MinEntrySize
      BY <2>0, <3>1 DEF Spaced
    <3>3. t[i-1].upto \in Nat /\ t[j-1].upto \in Nat
      BY <2>0, <3>1, <1>3
    <3>4. PICK z \in Nat : z = MinEntrySize
      BY DecoderAssumption
    <3>5. PICK a, b, c \in Nat : /\ a = t[i-1].upto /\ b = t[j-1].upto /\ c = f.upto
                                 /\ b >= a + z
      BY <3>2, <3>3, <3>4, <1>1
    <3>6. u[i].upto = a + c /\ u[j].upto = b + c
      BY <2>0, <3>1, <3>5
    <3>7. b + c >= (a + c) + z
      BY <3>5, AddBoth
    <3> QED
      BY <3>4, <3>6, <3>7
  <2> QED
    BY <2>1, <2>2
<1> QED
  BY <1>4, <1>5 DEF Spaced, u

LEMMA PrefixSpaced ==
  ASSUME NEW t \in Seq(Entries), NEW k \in 0..Len(t), Spaced(t)
  PROVE  Spaced(SubSeq(t, 1, k))
BY PrefixType DEF Spaced

-----------------------------------------------------------------------------
(* The operators on a decoder, field by field.                             *)

LEMMA EvictShape ==
  ASSUME NEW d \in Decoders
  PROVE  LET k == Kept(d.table, d.max)
             e == Evict(d)
         IN  /\ e \in Decoders
             /\ e.table = SubSeq(d.table, 1, k)
             /\ e.size = Upto(d.table, k)
             /\ e.exact = (d.exact \/ (d.observed /\ k < Len(d.table)))
             /\ e.max = d.max
             /\ e.observed = d.observed
             /\ e.over = d.over
<1> DEFINE k == Kept(d.table, d.max)
<1>1. d.table \in Seq(Entries) /\ d.max \in Nat /\ d.exact \in BOOLEAN /\ d.observed \in BOOLEAN
  BY DEF Decoders
<1>2. k \in 0..Len(d.table)
  BY <1>1, KeptExists
<1>3. SubSeq(d.table, 1, k) \in Seq(Entries)
  BY <1>1, <1>2, PrefixType
<1>4. Upto(d.table, k) \in Nat
  BY <1>1, <1>2, EntryAt DEF Upto
<1> HIDE DEF k
<1> QED
  BY <1>1, <1>3, <1>4 DEF Evict, Decoders, k

LEMMA RecheckShape ==
  ASSUME NEW d \in Decoders
  PROVE  LET e == RecheckExact(d)
         IN  /\ e \in Decoders
             /\ e.table = d.table
             /\ e.size = d.size
             /\ e.exact = (d.exact \/ (d.observed /\ ~d.over /\ d.size + MinEntrySize > d.max))
             /\ e.max = d.max
             /\ e.observed = d.observed
             /\ e.over = d.over
BY DecoderAssumption DEF RecheckExact, Decoders

LEMMA EnforceShape ==
  ASSUME NEW d \in Decoders
  PROVE  LET e == EnforceLimit(d)
         IN  /\ e \in Decoders
             /\ e.table = IF d.max > TrackLimit THEN <<>> ELSE d.table
             /\ e.size = IF d.max > TrackLimit THEN 0 ELSE d.size
             /\ e.over = (d.over \/ d.max > TrackLimit)
             /\ e.exact = d.exact
             /\ e.max = d.max
             /\ e.observed = d.observed
<1>1. <<>> \in Seq(Entries) /\ 0 \in Nat
  OBVIOUS
<1> DEFINE c == [d EXCEPT !.over = TRUE, !.table = <<>>, !.size = 0]
<1>2. /\ c \in Decoders /\ c.table = <<>> /\ c.size = 0 /\ c.over = TRUE
      /\ c.exact = d.exact /\ c.max = d.max /\ c.observed = d.observed
  BY <1>1 DEF Decoders
<1>3. EnforceLimit(d) = IF d.max > TrackLimit THEN c ELSE d
  BY DEF EnforceLimit
<1> HIDE DEF c
<1>4. d.over \in BOOLEAN
  BY DEF Decoders
<1> QED
  BY <1>2, <1>3, <1>4

LEMMA ResetShape ==
  ASSUME NEW d \in Decoders
  PROVE  LET e == ResetPartial(d)
         IN  /\ e \in Decoders
             /\ e.table = <<>>
             /\ e.size = 0
             /\ e.exact = FALSE
             /\ e.max = d.max
             /\ e.observed = d.observed
             /\ e.over = d.over
<1>1. <<>> \in Seq(Entries) /\ 0 \in Nat
  OBVIOUS
<1> QED
  BY <1>1 DEF ResetPartial, Decoders

LEMMA NewShape ==
  /\ EnforceLimit(NewExact) \in Decoders
  /\ EnforceLimit(NewExact).table = <<>>
  /\ EnforceLimit(NewExact).size = 0
  /\ EnforceLimit(NewExact).max = DefaultTableSize
  /\ EnforceLimit(NewExact).exact = TRUE
  /\ EnforceLimit(NewExact).over = (DefaultTableSize > TrackLimit)
  /\ EnforceLimit(NewPartial) \in Decoders
  /\ EnforceLimit(NewPartial).table = <<>>
  /\ EnforceLimit(NewPartial).size = 0
  /\ EnforceLimit(NewPartial).max = DefaultTableSize
  /\ EnforceLimit(NewPartial).exact = FALSE
  /\ EnforceLimit(NewPartial).over = (DefaultTableSize > TrackLimit)
<1>1. <<>> \in Seq(Entries) /\ 0 \in Nat
  OBVIOUS
<1>2. /\ NewPartial \in Decoders /\ NewPartial.table = <<>> /\ NewPartial.size = 0
      /\ NewPartial.max = DefaultTableSize /\ NewPartial.exact = FALSE /\ NewPartial.over = FALSE
  BY <1>1, DecoderAssumption DEF NewPartial, Decoders
<1>3. /\ NewExact \in Decoders /\ NewExact.table = <<>> /\ NewExact.size = 0
      /\ NewExact.max = DefaultTableSize /\ NewExact.exact = TRUE /\ NewExact.over = FALSE
  BY <1>2 DEF NewExact, Decoders
<1> QED
  BY <1>2, <1>3, EnforceShape

(* A table squeezed to capacity n, with the exactness it then claims.      *)
Squeezed(e, d, t, n) ==
  LET k == Kept(t, n)
      size == Upto(t, k)
  IN  /\ e.table = SubSeq(t, 1, k)
      /\ e.size = size
      /\ e.exact => \/ d.exact
                     \/ k < Len(t)
                     \/ size + MinEntrySize > n
      /\ e.over = d.over

LEMMA ResizeShape ==
  ASSUME NEW d \in Decoders, NEW n \in Nat
  PROVE  LET e == Resize(d, n)
         IN  /\ e \in Decoders
             /\ e.max = n
             /\ e.observed = TRUE
             /\ \/ n > TrackLimit /\ e.over /\ e.table = <<>> /\ e.size = 0
                \/ n <= TrackLimit /\ Squeezed(e, d, d.table, n)
             /\ d.exact => e.exact
<1> DEFINE a == [d EXCEPT !.observed = TRUE, !.max = n]
           b == Evict(a)
           c == EnforceLimit(b)
<1>1. a \in Decoders /\ a.table = d.table /\ a.max = n /\ a.exact = d.exact /\ a.over = d.over
        /\ a.observed = TRUE
  BY DEF Decoders
<1> HIDE DEF a
<1>2. /\ b \in Decoders
      /\ b.table = SubSeq(d.table, 1, Kept(d.table, n))
      /\ b.size = Upto(d.table, Kept(d.table, n))
      /\ b.exact = (d.exact \/ Kept(d.table, n) < Len(d.table))
      /\ b.max = n /\ b.over = d.over /\ b.observed = TRUE
  BY <1>1, EvictShape
<1> HIDE DEF b
<1>3. /\ c \in Decoders
      /\ c.table = IF n > TrackLimit THEN <<>> ELSE b.table
      /\ c.size = IF n > TrackLimit THEN 0 ELSE b.size
      /\ c.over = (d.over \/ n > TrackLimit)
      /\ c.exact = b.exact /\ c.max = n /\ c.observed = TRUE
  BY <1>2, EnforceShape
<1> HIDE DEF c
<1>4. Resize(d, n) = RecheckExact(c)
  BY DEF Resize, a, b, c
<1>5. /\ Resize(d, n) \in Decoders
      /\ Resize(d, n).table = c.table
      /\ Resize(d, n).size = c.size
      /\ Resize(d, n).exact =
           (b.exact \/ (~c.over /\ c.size + MinEntrySize > n))
      /\ Resize(d, n).max = n /\ Resize(d, n).over = c.over /\ Resize(d, n).observed = TRUE
  BY <1>3, <1>4, RecheckShape
<1>6. CASE n > TrackLimit
  BY <1>2, <1>3, <1>5, <1>6
<1>7. CASE ~(n > TrackLimit)
  <2>1. n <= TrackLimit
    BY <1>7, DecoderAssumption
  <2>2. Squeezed(Resize(d, n), d, d.table, n)
    BY <1>2, <1>3, <1>5, <1>7 DEF Squeezed, Decoders
  <2> QED
    BY <1>2, <1>3, <1>5, <2>1, <2>2
<1> QED
  BY <1>6, <1>7

LEMMA PeerCapacityShape ==
  ASSUME NEW d \in Decoders, NEW n \in Nat
  PROVE  LET e == ApplyPeerCapacity(d, n)
         IN  /\ e \in Decoders
             /\ d.exact => e.exact
             /\ \/ n < d.max /\ e = Resize(d, n)
                \/ /\ n >= d.max
                   /\ e.table = d.table /\ e.size = d.size /\ e.max = d.max
                   /\ e.exact = d.exact /\ e.over = d.over
<1>1. CASE n < d.max
  <2>1. ApplyPeerCapacity(d, n) = Resize(d, n)
    BY <1>1 DEF ApplyPeerCapacity
  <2> QED
    BY <1>1, <2>1, ResizeShape
<1>2. CASE ~(n < d.max)
  <2>1. n >= d.max
    BY <1>2 DEF Decoders
  <2>2. ApplyPeerCapacity(d, n) = [d EXCEPT !.observed = TRUE]
    BY <1>2 DEF ApplyPeerCapacity
  <2> QED
    BY <2>1, <2>2 DEF Decoders
<1> QED
  BY <1>1, <1>2

LEMMA InsertShape ==
  ASSUME NEW d \in Decoders, NEW f \in Entries
  PROVE  LET e == Insert(d, f)
         IN  /\ e \in Decoders
             /\ e.max = d.max
             /\ e.over = d.over
             /\ d.exact => e.exact
             /\ \/ d.over /\ e = d
                \/ ~d.over /\ f.upto > d.max /\ e.table = <<>> /\ e.size = 0
                \/ ~d.over /\ f.upto <= d.max /\ Squeezed(e, d, Push(d.table, f), d.max)
<1>1. CASE d.over
  BY <1>1 DEF Insert
<1>2. CASE ~d.over /\ f.upto > d.max
  <2>1. <<>> \in Seq(Entries) /\ 0 \in Nat
    OBVIOUS
  <2>2. Insert(d, f) = [d EXCEPT !.table = <<>>, !.size = 0, !.exact = TRUE]
    BY <1>2 DEF Insert
  <2> QED
    BY <1>2, <2>1, <2>2 DEF Decoders
<1>3. CASE ~d.over /\ ~(f.upto > d.max)
  <2> DEFINE a == [d EXCEPT !.table = Push(d.table, f), !.size = d.size + f.upto]
             b == Evict(a)
             k == Kept(Push(d.table, f), d.max)
  <2>1. f.upto \in Nat /\ d.max \in Nat /\ d.size \in Nat /\ d.table \in Seq(Entries)
    BY DEF Entries, Decoders
  <2>2. Push(d.table, f) \in Seq(Entries)
    BY <2>1, PushType
  <2>3. d.size + f.upto \in Nat
    BY <2>1
  <2>4. /\ a \in Decoders /\ a.table = Push(d.table, f) /\ a.max = d.max
        /\ a.exact = d.exact /\ a.observed = d.observed /\ a.over = d.over
    BY <2>2, <2>3 DEF Decoders
  <2> HIDE DEF a
  <2>5. /\ b \in Decoders
        /\ b.table = SubSeq(Push(d.table, f), 1, k)
        /\ b.size = Upto(Push(d.table, f), k)
        /\ b.exact = (d.exact \/ (d.observed /\ k < Len(Push(d.table, f))))
        /\ b.max = d.max /\ b.observed = d.observed /\ b.over = d.over
    BY <2>4, EvictShape
  <2> HIDE DEF b
  <2>6. Insert(d, f) = RecheckExact(b)
    BY <1>3 DEF Insert, a, b
  <2>7. LET e == RecheckExact(b)
        IN  /\ e \in Decoders
            /\ e.table = b.table /\ e.size = b.size /\ e.max = d.max /\ e.over = d.over
            /\ e.exact = (b.exact \/ (d.observed /\ ~d.over /\ b.size + MinEntrySize > d.max))
    BY <2>5, RecheckShape
  <2>8. f.upto <= d.max
    BY <1>3, <2>1
  <2>9. Squeezed(Insert(d, f), d, Push(d.table, f), d.max)
    BY <2>5, <2>6, <2>7 DEF Squeezed
  <2>10. d.exact => Insert(d, f).exact
    BY <2>5, <2>6, <2>7
  <2> QED
    BY <1>3, <2>6, <2>7, <2>8, <2>9, <2>10
<1> QED
  BY <1>1, <1>2, <1>3

-----------------------------------------------------------------------------
(* The argument behind `exact' (hpack.rs:18-21).  t is the observer's      *)
(* table and u the encoder's, newest first and byte for byte the same as   *)
(* far as both go.  Of u the first m entries fit in capacity e, and e is   *)
(* at most the observer's capacity d.  If the observer held as many        *)
(* entries, or evicts one of its own, or has no room left for the smallest *)
(* entry, then what it keeps covers those m.                               *)
LEMMA ExactnessArgument ==
  ASSUME NEW t \in Seq(Entries), NEW u \in Seq(Entries), Spaced(u),
         NEW d \in Nat, NEW e \in Nat, e <= d,
         \A i \in 1..Len(t) : i <= Len(u) => t[i].upto = u[i].upto,
         NEW m \in 0..Len(u), \A i \in 1..m : u[i].upto <= e,
         \/ Len(u) <= Len(t)
         \/ Kept(t, d) < Len(t)
         \/ Upto(t, Kept(t, d)) + MinEntrySize > d
  PROVE  m <= Kept(t, d)
<1> DEFINE k == Kept(t, d)
<1>1. /\ k \in 0..Len(t)
      /\ Upto(t, k) <= d
      /\ \A j \in (k+1)..Len(t) : t[j].upto > d
  BY KeptExists
<1> SUFFICES ASSUME k < m PROVE FALSE
  BY <1>1
<1> HIDE DEF k
<1>2. k + 1 \in 1..m /\ k + 1 \in 1..Len(u)
  BY <1>1
<1>3. u[k+1].upto <= e /\ u[k+1].upto \in Nat
  BY <1>2, EntryAt
<1>4. CASE k + 1 <= Len(t)
  <2>1. k + 1 \in (k+1)..Len(t) /\ k + 1 \in 1..Len(t) /\ k + 1 <= Len(u)
    BY <1>1, <1>2, <1>4
  <2>2. t[k+1].upto > d /\ t[k+1].upto = u[k+1].upto
    BY <1>1, <2>1
  <2> QED
    BY <1>3, <2>2
<1>5. CASE ~(k + 1 <= Len(t))
  <2>1. k = Len(t)
    BY <1>1, <1>5
  <2>2. Upto(t, k) + MinEntrySize > d
    BY <2>1, <1>2 DEF k
  <2>3. CASE k = 0
    <3>1. u[k+1].upto >= MinEntrySize
      BY <1>2 DEF Spaced
    <3> QED
      BY <1>3, <2>2, <2>3, <3>1, DecoderAssumption DEF Upto
  <2>4. CASE k # 0
    <3>1. k \in 1..Len(t) /\ k <= Len(u) /\ k \in 1..Len(u) /\ k < k + 1
      BY <2>4, <1>1, <1>2
    <3>2. u[k+1].upto >= u[k].upto + MinEntrySize
      BY <3>1, <1>2 DEF Spaced
    <3>3. Upto(t, k) = u[k].upto /\ u[k].upto \in Nat
      BY <3>1, <2>4, EntryAt DEF Upto
    <3>4. PICK a, b, z \in Nat : a = u[k].upto /\ b = u[k+1].upto /\ z = MinEntrySize
      BY <1>3, <3>3, DecoderAssumption
    <3>5. b >= a + z /\ a + z > d /\ b <= d
      BY <1>3, <2>2, <3>2, <3>3, <3>4
    <3>6. PICK c \in Nat : c = a + z
      BY <3>4
    <3>7. b >= c /\ c > d /\ b <= d
      BY <3>5, <3>6
    <3> QED
      BY <3>7
  <2> QED
    BY <2>3, <2>4
<1> QED
  BY <1>4, <1>5

-----------------------------------------------------------------------------
(* The two tables.                                                         *)

(* The relations between the observer's table t and the encoder's u that   *)
(* the inductive invariant is made of.  Names count where `named' is TRUE: *)
(* without them the same relations survive a hand-over, which forgets that *)
(* a name was a placeholder.                                               *)
Agrees(t, u, named) ==
  \A i \in 1..Len(t) : i <= Len(u) =>
    /\ t[i].val = u[i].val
    /\ named => t[i].unknown \/ t[i].name = u[i].name

SameBytes(t, u) == \A i \in 1..Len(t) : i <= Len(u) => t[i].upto = u[i].upto

Fits(u, max) == Spaced(u) /\ \A i \in 1..Len(u) : u[i].upto <= max

Accounted(d) ==
  /\ d.size = Upto(d.table, Len(d.table))
  /\ d.size <= d.max
  /\ d.max > TrackLimit => d.over
  /\ d.over => d.table = <<>>

(* The claim of exactness against what the encoder holds.                  *)
Roomy(d, e, doubts) == d.exact /\ "capacity" \notin doubts => e.max <= d.max
Covers(d, e, doubts) ==
  d.exact /\ ~d.over /\ doubts = {} => Len(e.table) <= Len(d.table)

(* Without a place in the stream the table is empty, and a table that is   *)
(* empty is exact only when it is too small for any entry.                 *)
Lost == desynced \/ blk.failed
EmptyWhenLost ==
  Lost => dec.table = <<>> /\ (dec.exact => dec.over \/ dec.max < MinEntrySize)

Mirror(d, e, doubts, named) ==
  /\ Agrees(d.table, e.table, named)
  /\ Fits(e.table, e.max)
  /\ Accounted(d)
  /\ "size" \notin doubts => SameBytes(d.table, e.table)
  /\ Roomy(d, e, doubts)
  /\ Covers(d, e, doubts)

IInv(named) == TypeOK /\ Mirror(dec, enc, doubt, named) /\ EmptyWhenLost

-----------------------------------------------------------------------------
(* The encoder's table.                                                    *)

(* The entries that fit are those the loop of evict() would keep, and each *)
(* of them fits.                                                           *)
LEMMA RfcFitIsKept ==
  ASSUME NEW u \in Seq(Entries), Spaced(u), NEW max \in Nat
  PROVE  /\ RfcFit(u, max) = SubSeq(u, 1, Kept(u, max))
         /\ \A i \in 1..Kept(u, max) : u[i].upto <= max
<1> DEFINE m == Kept(u, max)
           F == {i \in DOMAIN u : u[i].upto <= max}
<1>1. /\ m \in 0..Len(u)
      /\ Upto(u, m) <= max
      /\ \A j \in (m+1)..Len(u) : u[j].upto > max
  BY KeptExists
<1> HIDE DEF m
<1>2. ASSUME NEW i \in 1..m PROVE u[i].upto <= max
  <2>1. m # 0 /\ m \in 1..Len(u) /\ i \in 1..Len(u)
    BY <1>1
  <2>2. u[m].upto <= max /\ u[m].upto \in Nat /\ u[i].upto \in Nat
    BY <1>1, <2>1, EntryAt DEF Upto
  <2>3. CASE i = m
    BY <2>2, <2>3
  <2>4. CASE i # m
    <3>1. i < m
      BY <1>1, <2>4
    <3>2. u[m].upto >= u[i].upto + MinEntrySize
      BY <2>1, <3>1 DEF Spaced
    <3> QED
      BY <2>2, <3>2, DecoderAssumption
  <2> QED
    BY <2>3, <2>4
<1>3. F = 1..m
  <2>1. ASSUME NEW i \in F PROVE i \in 1..m
    <3>1. i \in 1..Len(u) /\ u[i].upto <= max /\ u[i].upto \in Nat
      BY EntryAt
    <3>2. ~(i \in (m+1)..Len(u))
      BY <1>1, <3>1
    <3> QED
      BY <1>1, <3>1, <3>2
  <2>2. ASSUME NEW i \in 1..m PROVE i \in F
    BY <1>1, <1>2
  <2> QED
    BY <2>1, <2>2
<1>4. Cardinality(F) = m
  <2>1. Cardinality(1..m) = IF 1 > m THEN 0 ELSE m - 1 + 1
    BY <1>1, FS_Interval
  <2>2. Cardinality(1..m) = m
    BY <1>1, <2>1
  <2> HIDE DEF F
  <2> QED
    BY <1>3, <2>2
<1>5. RfcFit(u, max) = SubSeq(u, 1, m)
  BY <1>4 DEF RfcFit
<1> QED
  BY <1>2, <1>5 DEF m

(* So they are a prefix.                                                   *)
LEMMA RfcFitIsPrefix ==
  ASSUME NEW u \in Seq(Entries), Spaced(u), NEW max \in Nat
  PROVE  \E m \in 0..Len(u) : /\ RfcFit(u, max) = SubSeq(u, 1, m)
                              /\ \A i \in 1..m : u[i].upto <= max
<1>1. Kept(u, max) \in 0..Len(u)
  BY KeptExists
<1>2. /\ RfcFit(u, max) = SubSeq(u, 1, Kept(u, max))
      /\ \A i \in 1..Kept(u, max) : u[i].upto <= max
  BY RfcFitIsKept
<1> QED
  BY <1>1, <1>2

-----------------------------------------------------------------------------
(* Two tables side by side.                                                *)

LEMMA AgreesPrefix ==
  ASSUME NEW named \in BOOLEAN, NEW t \in Seq(Entries), NEW u \in Seq(Entries), Agrees(t, u, named),
         NEW k \in 0..Len(t), NEW m \in 0..Len(u)
  PROVE  Agrees(SubSeq(t, 1, k), SubSeq(u, 1, m), named)
<1>1. /\ Len(SubSeq(t, 1, k)) = k
      /\ Len(SubSeq(u, 1, m)) = m
      /\ \A i \in 1..k : SubSeq(t, 1, k)[i] = t[i]
      /\ \A i \in 1..m : SubSeq(u, 1, m)[i] = u[i]
  BY PrefixType
<1> SUFFICES ASSUME NEW i \in 1..k, i <= m
             PROVE  LET x == SubSeq(t, 1, k)[i]
                        y == SubSeq(u, 1, m)[i]
                    IN  /\ x.val = y.val
                        /\ named => x.unknown \/ x.name = y.name
  BY <1>1 DEF Agrees
<1>2. i \in 1..Len(t) /\ i <= Len(u) /\ i \in 1..m
  OBVIOUS
<1>3. SubSeq(t, 1, k)[i] = t[i] /\ SubSeq(u, 1, m)[i] = u[i]
  BY <1>1, <1>2
<1> QED
  BY <1>2, <1>3 DEF Agrees

LEMMA SameBytesPrefix ==
  ASSUME NEW t \in Seq(Entries), NEW u \in Seq(Entries), SameBytes(t, u),
         NEW k \in 0..Len(t), NEW m \in 0..Len(u)
  PROVE  SameBytes(SubSeq(t, 1, k), SubSeq(u, 1, m))
<1>1. /\ Len(SubSeq(t, 1, k)) = k
      /\ Len(SubSeq(u, 1, m)) = m
      /\ \A i \in 1..k : SubSeq(t, 1, k)[i] = t[i]
      /\ \A i \in 1..m : SubSeq(u, 1, m)[i] = u[i]
  BY PrefixType
<1>2. ASSUME NEW i \in 1..k, i <= m
      PROVE  SubSeq(t, 1, k)[i].upto = SubSeq(u, 1, m)[i].upto
  <2>1. i \in 1..Len(t) /\ i <= Len(u) /\ i \in 1..m
    BY <1>2
  <2>2. SubSeq(t, 1, k)[i] = t[i] /\ SubSeq(u, 1, m)[i] = u[i]
    BY <1>1, <2>1
  <2> QED
    BY <2>1, <2>2 DEF SameBytes
<1> QED
  BY <1>1, <1>2 DEF SameBytes

(* What Push makes of the contents.                                        *)
LEMMA PushAt ==
  ASSUME NEW t \in Seq(Entries), NEW f \in Entries, NEW i \in 2..(Len(t) + 1)
  PROVE  /\ i - 1 \in 1..Len(t)
         /\ Push(t, f)[i].val = t[i-1].val
         /\ Push(t, f)[i].name = t[i-1].name
         /\ Push(t, f)[i].unknown = t[i-1].unknown
         /\ Push(t, f)[i].upto = t[i-1].upto + f.upto
<1>1. i - 1 \in 1..Len(t) /\ f.upto \in Nat
  BY DEF Entries
<1>2. t[i-1] \in Entries
  BY <1>1, EntryAt
<1>3. Push(t, f)[i] = Deeper(t[i-1], f.upto)
  BY PushType
<1>4. /\ Deeper(t[i-1], f.upto).name = t[i-1].name
      /\ Deeper(t[i-1], f.upto).val = t[i-1].val
      /\ Deeper(t[i-1], f.upto).unknown = t[i-1].unknown
      /\ Deeper(t[i-1], f.upto).upto = t[i-1].upto + f.upto
  BY <1>1, <1>2, DeeperType
<1> QED
  BY <1>1, <1>3, <1>4

LEMMA AgreesPush ==
  ASSUME NEW named \in BOOLEAN, NEW t \in Seq(Entries), NEW u \in Seq(Entries), Agrees(t, u, named),
         NEW f \in Entries, NEW g \in Entries,
         f.val = g.val, named => f.unknown \/ f.name = g.name
  PROVE  Agrees(Push(t, f), Push(u, g), named)
<1>1. /\ Len(Push(t, f)) = Len(t) + 1 /\ Push(t, f)[1] = f
      /\ Len(Push(u, g)) = Len(u) + 1 /\ Push(u, g)[1] = g
  BY PushType
<1> SUFFICES ASSUME NEW i \in 1..(Len(t) + 1), i <= Len(u) + 1
             PROVE  /\ Push(t, f)[i].val = Push(u, g)[i].val
                    /\ named => Push(t, f)[i].unknown \/ Push(t, f)[i].name = Push(u, g)[i].name
  BY <1>1 DEF Agrees
<1>2. CASE i = 1
  BY <1>1, <1>2
<1>3. CASE i # 1
  <2>1. i \in 2..(Len(t) + 1) /\ i \in 2..(Len(u) + 1) /\ i - 1 \in 1..Len(t) /\ i - 1 <= Len(u)
    BY <1>3
  <2>2. /\ t[i-1].val = u[i-1].val
        /\ named => t[i-1].unknown \/ t[i-1].name = u[i-1].name
    BY <2>1 DEF Agrees
  <2> QED
    BY <2>1, <2>2, PushAt
<1> QED
  BY <1>2, <1>3

LEMMA SameBytesPush ==
  ASSUME NEW t \in Seq(Entries), NEW u \in Seq(Entries), SameBytes(t, u),
         NEW f \in Entries, NEW g \in Entries, f.upto = g.upto
  PROVE  SameBytes(Push(t, f), Push(u, g))
<1>1. /\ Len(Push(t, f)) = Len(t) + 1 /\ Push(t, f)[1] = f
      /\ Len(Push(u, g)) = Len(u) + 1 /\ Push(u, g)[1] = g
  BY PushType
<1> SUFFICES ASSUME NEW i \in 1..(Len(t) + 1), i <= Len(u) + 1
             PROVE  Push(t, f)[i].upto = Push(u, g)[i].upto
  BY <1>1 DEF SameBytes
<1>2. CASE i = 1
  BY <1>1, <1>2
<1>3. CASE i # 1
  <2>1. i \in 2..(Len(t) + 1) /\ i \in 2..(Len(u) + 1) /\ i - 1 \in 1..Len(t) /\ i - 1 <= Len(u)
    BY <1>3
  <2>2. t[i-1].upto = u[i-1].upto
    BY <2>1 DEF SameBytes
  <2> QED
    BY <2>1, <2>2, PushAt
<1> QED
  BY <1>2, <1>3

(* After a change the encoder's table fits its capacity.                   *)
LEMMA RfcFitFits ==
  ASSUME NEW u \in Seq(Entries), Spaced(u), NEW max \in Nat
  PROVE  /\ RfcFit(u, max) \in Seq(Entries)
         /\ Fits(RfcFit(u, max), max)
<1>1. PICK m \in 0..Len(u) : /\ RfcFit(u, max) = SubSeq(u, 1, m)
                             /\ \A i \in 1..m : u[i].upto <= max
  BY RfcFitIsPrefix
<1>2. /\ SubSeq(u, 1, m) \in Seq(Entries)
      /\ Len(SubSeq(u, 1, m)) = m
      /\ \A i \in 1..m : SubSeq(u, 1, m)[i] = u[i]
  BY PrefixType
<1>3. Spaced(SubSeq(u, 1, m))
  BY PrefixSpaced
<1> QED
  BY <1>1, <1>2, <1>3 DEF Fits

(* A table that fits is left as it is.                                     *)
LEMMA RfcFitIdle ==
  ASSUME NEW u \in Seq(Entries), NEW max \in Nat, Fits(u, max)
  PROVE  RfcFit(u, max) = u
<1> DEFINE F == {i \in DOMAIN u : u[i].upto <= max}
<1>1. F = 1..Len(u)
  BY DEF Fits
<1>2. Cardinality(1..Len(u)) = IF 1 > Len(u) THEN 0 ELSE Len(u) - 1 + 1
  BY FS_Interval
<1>3. Cardinality(1..Len(u)) = Len(u)
  BY <1>2
<1>4. RfcFit(u, max) = SubSeq(u, 1, Cardinality(F))
  BY DEF RfcFit
<1> HIDE DEF F
<1>5. RfcFit(u, max) = SubSeq(u, 1, Len(u))
  BY <1>1, <1>3, <1>4
<1> QED
  BY <1>5

(* The step every change of a table comes down to: the observer squeezes t *)
(* to its capacity, the encoder fits u to its own, and the mirror holds.   *)
LEMMA SqueezeMirrors ==
  ASSUME NEW named \in BOOLEAN, NEW d \in Decoders, NEW d1 \in Decoders, NEW e1 \in Encoders, NEW doubts,
         NEW t \in Seq(Entries), NEW u \in Seq(Entries),
         Spaced(u), Agrees(t, u, named), "size" \notin doubts => SameBytes(t, u),
         d.over => t = <<>>,
         d.exact /\ ~d.over /\ doubts = {} => Len(u) <= Len(t),
         Squeezed(d1, d, t, d1.max), d1.max <= TrackLimit,
         e1.table = RfcFit(u, e1.max),
         Roomy(d1, e1, doubts)
  PROVE  Mirror(d1, e1, doubts, named)
<1> DEFINE n == d1.max
           k == Kept(t, n)
<1>1. n \in Nat /\ e1.max \in Nat /\ d1.exact \in BOOLEAN /\ d.exact \in BOOLEAN
  BY DEF Decoders, Encoders
<1>2. /\ k \in 0..Len(t)
      /\ Upto(t, k) <= n
  BY <1>1, KeptExists
<1>3. PICK m \in 0..Len(u) : /\ RfcFit(u, e1.max) = SubSeq(u, 1, m)
                             /\ \A i \in 1..m : u[i].upto <= e1.max
  BY <1>1, RfcFitIsPrefix
<1>4. d1.table = SubSeq(t, 1, k) /\ d1.size = Upto(t, k) /\ d1.over = d.over
  BY DEF Squeezed
<1>5. d1.exact => d.exact \/ k < Len(t) \/ Upto(t, k) + MinEntrySize > n
  BY DEF Squeezed
<1>6. e1.table = SubSeq(u, 1, m)
  BY <1>3
<1> HIDE DEF k
<1>7. Agrees(d1.table, e1.table, named)
  BY <1>2, <1>4, <1>6, AgreesPrefix
<1>8. Fits(e1.table, e1.max)
  BY <1>1, RfcFitFits
<1>9. "size" \notin doubts => SameBytes(d1.table, e1.table)
  BY <1>2, <1>4, <1>6, SameBytesPrefix
<1>10. Len(d1.table) = k /\ Len(e1.table) = m
  BY <1>2, <1>3, <1>4, <1>6, PrefixType
<1>11. Accounted(d1)
  <2>1. Upto(d1.table, k) = Upto(t, k)
    <3>1. CASE k = 0
      BY <3>1 DEF Upto
    <3>2. CASE k # 0
      <4>1. k \in 1..k /\ SubSeq(t, 1, k)[k] = t[k]
        BY <1>2, <3>2, PrefixType
      <4> QED
        BY <1>4, <4>1, <3>2 DEF Upto
    <3> QED
      BY <3>1, <3>2
  <2>2. d1.over => d1.table = <<>>
    <3> SUFFICES ASSUME d1.over PROVE d1.table = <<>>
      OBVIOUS
    <3>1. t = <<>> /\ k = 0
      BY <1>2, <1>4
    <3> QED
      BY <3>1, <1>4
  <2>3. ~(n > TrackLimit)
    BY <1>1, DecoderAssumption
  <2> QED
    BY <1>2, <1>4, <1>10, <2>1, <2>2, <2>3 DEF Accounted
<1>12. Covers(d1, e1, doubts)
  <2> SUFFICES ASSUME d1.exact, ~d1.over, doubts = {}
               PROVE  m <= k
    BY <1>10 DEF Covers
  <2>1. e1.max <= n
    BY DEF Roomy
  <2>2. \A i \in 1..Len(t) : i <= Len(u) => t[i].upto = u[i].upto
    BY DEF SameBytes
  <2>3. \/ Len(u) <= Len(t)
        \/ Kept(t, n) < Len(t)
        \/ Upto(t, Kept(t, n)) + MinEntrySize > n
    BY <1>4, <1>5 DEF k
  <2>4. \A i \in 1..m : u[i].upto <= e1.max
    BY <1>3
  <2>5. m <= Kept(t, n)
    BY <1>1, <2>1, <2>2, <2>3, <2>4, ExactnessArgument
  <2> QED
    BY <2>5 DEF k
<1> QED
  BY <1>7, <1>8, <1>9, <1>11, <1>12 DEF Mirror

(* An empty decoder table mirrors anything it does not claim to cover.     *)
LEMMA EmptyMirrors ==
  ASSUME NEW named \in BOOLEAN, NEW d \in Decoders, NEW e \in Encoders, NEW doubts,
         d.table = <<>>, d.size = 0, d.max > TrackLimit => d.over,
         Fits(e.table, e.max),
         Roomy(d, e, doubts),
         d.exact /\ ~d.over /\ doubts = {} => e.table = <<>>
  PROVE  Mirror(d, e, doubts, named)
<1>1. d.max \in Nat
  BY DEF Decoders
<1>2. Len(d.table) = 0
  OBVIOUS
<1>3. Agrees(d.table, e.table, named) /\ SameBytes(d.table, e.table)
  BY <1>2 DEF Agrees, SameBytes
<1>4. Accounted(d)
  BY <1>1, <1>2 DEF Accounted, Upto
<1>5. Covers(d, e, doubts)
  BY DEF Covers
<1> QED
  BY <1>3, <1>4, <1>5 DEF Mirror

-----------------------------------------------------------------------------
(* The inductive step, one lemma per action.                               *)

LEMMA InitIInv ==
  ASSUME NEW named \in BOOLEAN, Init
  PROVE  IInv(named)
<1>1. <<>> \in Seq(Entries) /\ <<>> \in Seq(Capacities) /\ 0 \in Nat /\ DefaultTableSize \in Nat
  BY DecoderAssumption
<1>2. dec \in Decoders /\ dec.table = <<>> /\ dec.size = 0 /\ dec.max = DefaultTableSize
      /\ dec.over = (DefaultTableSize > TrackLimit)
      /\ (desynced => dec.exact = FALSE)
  BY NewShape DEF Init
<1>3. enc \in Encoders /\ enc.table = <<>> /\ enc.max = DefaultTableSize
  BY <1>1 DEF Init, Encoders
<1>4. TypeOK
  BY <1>1, <1>2, <1>3 DEF Init, TypeOK, Blocks, NoBlock
<1>5. Fits(enc.table, enc.max)
  BY <1>3 DEF Fits, Spaced
<1>6. Roomy(dec, enc, doubt)
  BY <1>2, <1>3, DecoderAssumption DEF Roomy
<1>7. Mirror(dec, enc, doubt, named)
  BY <1>2, <1>3, <1>5, <1>6, EmptyMirrors
<1>8. EmptyWhenLost
  BY <1>2 DEF Init, EmptyWhenLost, Lost, NoBlock
<1> QED
  BY <1>4, <1>7, <1>8 DEF IInv

(* Mirror reads the encoder's table and capacity only.                     *)
LEMMA MirrorFrame ==
  ASSUME NEW named \in BOOLEAN, NEW d, NEW e, NEW f, NEW doubts, f.table = e.table, f.max = e.max,
         Mirror(d, e, doubts, named)
  PROVE  Mirror(d, f, doubts, named)
BY DEF Mirror, Roomy, Covers

LEMMA SendSettingsStep ==
  ASSUME NEW named \in BOOLEAN, IInv(named), NEW n \in Capacities, NEW seen \in BOOLEAN, SendSettings(n, seen)
  PROVE  IInv(named)'
<1> USE DEF SendSettings, obsVars
<1>1. TypeOK'
  BY DEF IInv, TypeOK
<1>2. Mirror(dec, enc, doubt, named)'
  BY DEF IInv
<1>3. EmptyWhenLost'
  BY DEF IInv, EmptyWhenLost, Lost
<1> QED
  BY <1>1, <1>2, <1>3 DEF IInv

LEMMA EncoderGetsSettingsStep ==
  ASSUME NEW named \in BOOLEAN, IInv(named), EncoderGetsSettings
  PROVE  IInv(named)'
<1> USE DEF EncoderGetsSettings, obsVars, envVars
<1>1. /\ toEnc \in Seq(Capacities) /\ enc \in Encoders /\ toEnc # <<>>
  BY DEF IInv, TypeOK
<1>2. Head(toEnc) \in Nat /\ Tail(toEnc) \in Seq(Capacities)
  BY <1>1, MirrorAssumption
<1>3. enc' \in Encoders /\ enc'.table = enc.table /\ enc'.max = enc.max
  BY <1>1, <1>2 DEF Encoders
<1>4. TypeOK'
  BY <1>2, <1>3 DEF IInv, TypeOK
<1>5. Mirror(dec, enc, doubt, named)'
  BY <1>3, MirrorFrame DEF IInv
<1>6. EmptyWhenLost'
  BY DEF IInv, EmptyWhenLost, Lost
<1> QED
  BY <1>4, <1>5, <1>6 DEF IInv

LEMMA BlockBoundaryStep ==
  ASSUME NEW named \in BOOLEAN, IInv(named), OpenBlock \/ CloseBlock
  PROVE  IInv(named)'
<1>1. UNCHANGED <<enc, nins, toEnc, dec, poisoned, desynced, doubt, toObs, nset, losses>>
  BY DEF OpenBlock, CloseBlock, encVars, obsVars, envVars
<1>2. blk' \in Blocks /\ (blk'.failed => blk.failed)
  <2>1. CASE OpenBlock
    BY <2>1 DEF OpenBlock, Blocks, NoBlock
  <2>2. CASE CloseBlock
    BY <2>2 DEF CloseBlock, Blocks, IInv, TypeOK
  <2> QED
    BY <2>1, <2>2
<1>3. TypeOK'
  BY <1>1, <1>2 DEF IInv, TypeOK
<1>4. Mirror(dec, enc, doubt, named)'
  BY <1>1 DEF IInv
<1>5. EmptyWhenLost'
  BY <1>1, <1>2 DEF IInv, EmptyWhenLost, Lost
<1> QED
  BY <1>3, <1>4, <1>5 DEF IInv

LEMMA ResyncStep ==
  ASSUME NEW named \in BOOLEAN, IInv(named), Resync
  PROVE  IInv(named)'
<1> USE DEF Resync, encVars, envVars
<1>1. TypeOK'
  BY DEF IInv, TypeOK
<1>2. Mirror(dec, enc, doubt, named)'
  BY DEF IInv
<1>3. EmptyWhenLost'
  BY DEF IInv, EmptyWhenLost, Lost
<1> QED
  BY <1>1, <1>2, <1>3 DEF IInv

(* reset_partial() leaves a mirror that claims nothing.                    *)
LEMMA ResetMirrors ==
  ASSUME NEW named \in BOOLEAN, NEW d \in Decoders, NEW e \in Encoders, NEW e1 \in Encoders, NEW doubts,
         Mirror(d, e, doubts, named), Fits(e1.table, e1.max)
  PROVE  Mirror(ResetPartial(d), e1, {}, named)
<1>1. /\ ResetPartial(d) \in Decoders /\ ResetPartial(d).table = <<>>
      /\ ResetPartial(d).size = 0 /\ ResetPartial(d).exact = FALSE
      /\ ResetPartial(d).max = d.max /\ ResetPartial(d).over = d.over
  BY ResetShape
<1>2. d.max > TrackLimit => d.over
  BY DEF Mirror, Accounted
<1>3. Roomy(ResetPartial(d), e1, {})
  BY <1>1 DEF Roomy
<1> HIDE DEF ResetPartial
<1> QED
  BY <1>1, <1>2, <1>3, EmptyMirrors

LEMMA LosePlaceStep ==
  ASSUME NEW named \in BOOLEAN, IInv(named), LosePlace
  PROVE  IInv(named)'
<1> USE DEF LosePlace, encVars
<1>1. dec \in Decoders /\ enc \in Encoders
  BY DEF IInv, TypeOK
<1>2. dec' \in Decoders /\ dec'.table = <<>> /\ dec'.exact = FALSE
  BY <1>1, ResetShape
<1>3. TypeOK'
  BY <1>2 DEF IInv, TypeOK
<1>4. Mirror(dec, enc, doubt, named)'
  <2>1. Mirror(ResetPartial(dec), enc, {}, named)
    BY <1>1, ResetMirrors DEF IInv, Mirror
  <2> QED
    BY <2>1
<1>5. EmptyWhenLost'
  BY <1>2 DEF EmptyWhenLost
<1> QED
  BY <1>3, <1>4, <1>5 DEF IInv

(* A resize of the observer beside an encoder whose table is then fitted   *)
(* to its own capacity.                                                    *)
LEMMA ResizeMirrors ==
  ASSUME NEW named \in BOOLEAN, NEW d \in Decoders, NEW e \in Encoders, NEW e1 \in Encoders,
         NEW D0, NEW D1, D0 \subseteq D1, NEW n \in Nat,
         Mirror(d, e, D0, named), e1.table = RfcFit(e.table, e1.max),
         Roomy(Resize(d, n), e1, D1)
  PROVE  Mirror(Resize(d, n), e1, D1, named)
<1> DEFINE r == Resize(d, n)
<1>1. /\ d.table \in Seq(Entries) /\ e.table \in Seq(Entries) /\ e1.max \in Nat
      /\ Spaced(e.table)
  BY DEF Decoders, Encoders, Mirror, Fits
<1>2. /\ r \in Decoders /\ r.max = n
      /\ \/ n > TrackLimit /\ r.over /\ r.table = <<>> /\ r.size = 0
         \/ n <= TrackLimit /\ Squeezed(r, d, d.table, n)
  BY ResizeShape
<1>3. Fits(e1.table, e1.max)
  BY <1>1, RfcFitFits
<1> HIDE DEF r
<1>4. CASE n > TrackLimit /\ r.over /\ r.table = <<>> /\ r.size = 0
  BY <1>2, <1>3, <1>4, EmptyMirrors DEF r
<1>5. CASE n <= TrackLimit /\ Squeezed(r, d, d.table, n)
  <2>1. /\ Agrees(d.table, e.table, named)
        /\ "size" \notin D1 => SameBytes(d.table, e.table)
        /\ d.over => d.table = <<>>
        /\ d.exact /\ ~d.over /\ D1 = {} => Len(e.table) <= Len(d.table)
    BY DEF Mirror, Accounted, Covers
  <2> QED
    BY <1>1, <1>2, <1>5, <2>1, SqueezeMirrors DEF r
<1> QED
  BY <1>2, <1>4, <1>5

(* A lost decoder stays empty through a resize that only lowers.           *)
LEMMA LowerWhenLost ==
  ASSUME NEW d \in Decoders, NEW n \in Nat, d.table = <<>>, n < d.max,
         d.exact => d.over \/ d.max < MinEntrySize
  PROVE  /\ Resize(d, n).table = <<>>
         /\ Resize(d, n).exact => Resize(d, n).over \/ n < MinEntrySize
<1> DEFINE r == Resize(d, n)
<1>1. /\ r.max = n
      /\ \/ n > TrackLimit /\ r.over /\ r.table = <<>> /\ r.size = 0
         \/ n <= TrackLimit /\ Squeezed(r, d, d.table, n)
  BY ResizeShape
<1> HIDE DEF r
<1>2. CASE n > TrackLimit /\ r.over /\ r.table = <<>>
  BY <1>2 DEF r
<1>3. CASE Squeezed(r, d, d.table, n)
  <2>1. d.table \in Seq(Entries) /\ Len(d.table) = 0
    BY DEF Decoders
  <2>2. Kept(d.table, n) = 0
    <3>1. Kept(d.table, n) \in 0..Len(d.table)
      BY <2>1, KeptExists
    <3> QED
      BY <2>1, <3>1
  <2>3. r.table = SubSeq(d.table, 1, 0) /\ r.over = d.over
    BY <1>3, <2>2 DEF Squeezed
  <2>4. r.table = <<>>
    BY <2>1, <2>3
  <2>5. r.exact => d.exact \/ 0 < 0 \/ 0 + MinEntrySize > n
    BY <1>3, <2>1, <2>2 DEF Squeezed, Upto
  <2>6. r.exact => r.over \/ n < MinEntrySize
    BY <2>3, <2>5, DecoderAssumption DEF Decoders
  <2> QED
    BY <2>4, <2>6 DEF r
<1> QED
  BY <1>1, <1>2, <1>3

LEMMA CapacityDoubtRoomy ==
  ASSUME NEW d \in Decoders, NEW e \in Encoders, NEW D
  PROVE  Roomy(d, e, D \cup CapacityDoubt(d, e))
BY DEF Roomy, CapacityDoubt, Decoders, Encoders

LEMMA ObserverGetsSettingsStep ==
  ASSUME NEW named \in BOOLEAN, IInv(named), ObserverGetsSettings
  PROVE  IInv(named)'
<1> USE DEF ObserverGetsSettings, encVars
<1> DEFINE n == Head(toObs)
<1>1. /\ dec \in Decoders /\ enc \in Encoders /\ toObs \in Seq(Capacities) /\ toObs # <<>>
      /\ Mirror(dec, enc, doubt, named) /\ EmptyWhenLost
  BY DEF IInv, TypeOK
<1>2. n \in Nat /\ Tail(toObs) \in Seq(Capacities)
  <2>1. Head(toObs) \in Capacities /\ Tail(toObs) \in Seq(Capacities)
    BY <1>1
  <2> QED
    BY <2>1, MirrorAssumption
<1> HIDE DEF n
<1>3. /\ dec' \in Decoders
      /\ \/ n < dec.max /\ dec' = Resize(dec, n)
         \/ /\ n >= dec.max
            /\ dec'.table = dec.table /\ dec'.size = dec.size /\ dec'.max = dec.max
            /\ dec'.exact = dec.exact /\ dec'.over = dec.over
  BY <1>1, <1>2, PeerCapacityShape DEF n
<1>4. doubt' = doubt \cup CapacityDoubt(dec', enc) /\ doubt \subseteq doubt'
  OBVIOUS
<1>5. TypeOK'
  BY <1>2, <1>3 DEF IInv, TypeOK, CapacityDoubt
<1>6. Roomy(dec', enc, doubt')
  BY <1>1, <1>3, <1>4, CapacityDoubtRoomy
<1>7. enc.table = RfcFit(enc.table, enc.max)
  BY <1>1, RfcFitIdle DEF Mirror, Encoders
<1>8. Mirror(dec', enc, doubt', named)
  <2>1. CASE n < dec.max /\ dec' = Resize(dec, n)
    BY <1>1, <1>2, <1>4, <1>6, <1>7, <2>1, ResizeMirrors
  <2>2. CASE /\ dec'.table = dec.table /\ dec'.size = dec.size /\ dec'.max = dec.max
             /\ dec'.exact = dec.exact /\ dec'.over = dec.over
    BY <1>1, <1>4, <1>6, <2>2 DEF Mirror, Accounted, Covers
  <2> QED
    BY <1>3, <2>1, <2>2
<1>9. EmptyWhenLost'
  <2>1. CASE n < dec.max /\ dec' = Resize(dec, n)
    <3>1. Lost => /\ dec'.table = <<>>
                  /\ dec'.exact => dec'.over \/ n < MinEntrySize
      BY <1>1, <1>2, <2>1, LowerWhenLost DEF EmptyWhenLost
    <3>2. dec'.max = n
      BY <1>1, <1>2, <2>1, ResizeShape
    <3> QED
      BY <3>1, <3>2 DEF EmptyWhenLost, Lost
  <2>2. CASE /\ dec'.table = dec.table /\ dec'.size = dec.size /\ dec'.max = dec.max
             /\ dec'.exact = dec.exact /\ dec'.over = dec.over
    BY <1>1, <2>2 DEF EmptyWhenLost, Lost
  <2> QED
    BY <1>3, <2>1, <2>2
<1> QED
  BY <1>5, <1>8, <1>9 DEF IInv

(* No entry fits a capacity below the overhead of one.                     *)
LEMMA SmallIsEmpty ==
  ASSUME NEW u \in Seq(Entries), NEW max \in Nat, Fits(u, max), max < MinEntrySize
  PROVE  u = <<>>
<1> SUFFICES ASSUME u # <<>> PROVE FALSE
  OBVIOUS
<1>1. 1 \in 1..Len(u)
  OBVIOUS
<1>2. u[1].upto >= MinEntrySize /\ u[1].upto <= max
  BY <1>1 DEF Fits, Spaced
<1>3. u[1].upto \in Nat
  BY <1>1, EntryAt
<1> QED
  BY <1>2, <1>3, DecoderAssumption

(* While the direction is lost the encoder may do as it likes.             *)
LEMMA LostMirrors ==
  ASSUME NEW named \in BOOLEAN, NEW d \in Decoders, NEW e \in Encoders, NEW e1 \in Encoders, NEW D0, NEW D1,
         Mirror(d, e, D0, named), d.table = <<>>, d.exact => d.over \/ d.max < MinEntrySize,
         Fits(e1.table, e1.max), Roomy(d, e1, D1)
  PROVE  Mirror(d, e1, D1, named)
<1>1. d.size = 0 /\ (d.max > TrackLimit => d.over)
  BY DEF Mirror, Accounted, Upto
<1>2. ASSUME d.exact, ~d.over, D1 = {} PROVE e1.table = <<>>
  <2>1. e1.max <= d.max /\ d.max < MinEntrySize /\ e1.max \in Nat /\ d.max \in Nat
        /\ e1.table \in Seq(Entries)
    BY <1>2 DEF Roomy, Encoders, Decoders
  <2>2. e1.max < MinEntrySize
    BY <2>1, DecoderAssumption
  <2> QED
    BY <2>1, <2>2, SmallIsEmpty
<1> QED
  BY <1>1, <1>2, EmptyMirrors

LEMMA SizeUpdateStep ==
  ASSUME NEW named \in BOOLEAN, IInv(named), NEW n \in Capacities \cup {DefaultTableSize}, SizeUpdate(n)
  PROVE  IInv(named)'
<1> USE DEF SizeUpdate, envVars
<1>1. /\ dec \in Decoders /\ enc \in Encoders /\ Mirror(dec, enc, doubt, named) /\ EmptyWhenLost
      /\ n \in Nat
  BY MirrorAssumption, DecoderAssumption DEF IInv, TypeOK
<1>2. enc.table \in Seq(Entries) /\ Spaced(enc.table) /\ enc.limit \in Nat /\ enc.low \in Nat
  BY <1>1 DEF Encoders, Mirror, Fits
<1>3. RfcFit(enc.table, n) \in Seq(Entries) /\ Fits(RfcFit(enc.table, n), n)
  BY <1>1, <1>2, RfcFitFits
<1>4. enc' \in Encoders /\ enc'.table = RfcFit(enc.table, n) /\ enc'.max = n
  BY <1>1, <1>2, <1>3 DEF Encoders
<1>5. dec' = IF Decoding THEN Resize(dec, n) ELSE dec
  OBVIOUS
<1>6. dec' \in Decoders
  BY <1>1, <1>5, ResizeShape
<1>7. doubt' = doubt \cup CapacityDoubt(dec', enc') /\ doubt \subseteq doubt'
  OBVIOUS
<1>8. Roomy(dec', enc', doubt')
  <2>1. PICK d \in Decoders, e \in Encoders : d = dec' /\ e = enc'
    BY <1>4, <1>6
  <2>2. Roomy(d, e, doubt \cup CapacityDoubt(d, e))
    BY CapacityDoubtRoomy
  <2> QED
    BY <1>7, <2>1, <2>2
<1>9. TypeOK'
  BY <1>4, <1>6 DEF IInv, TypeOK, CapacityDoubt
<1> HIDE DEF SizeUpdate
<1> DEFINE e1 == enc'
           D1 == doubt'
<1>10. CASE Decoding
  <2>1. Mirror(dec', enc', doubt', named)
    <3>1. dec' = Resize(dec, n)
      BY <1>5, <1>10
    <3>2. /\ e1 \in Encoders /\ e1.table = RfcFit(enc.table, e1.max) /\ e1.max = n
          /\ doubt \subseteq D1 /\ Roomy(Resize(dec, n), e1, D1)
      BY <1>4, <1>7, <1>8, <3>1
    <3> HIDE DEF e1, D1
    <3>3. Mirror(Resize(dec, n), e1, D1, named)
      BY <1>1, <3>2, ResizeMirrors
    <3> QED
      BY <3>1, <3>3 DEF e1, D1
  <2>2. EmptyWhenLost'
    BY <1>10 DEF EmptyWhenLost, Lost, Decoding, SizeUpdate
  <2> QED
    BY <1>9, <2>1, <2>2 DEF IInv
<1>11. CASE ~Decoding
  <2>1. dec.table = <<>> /\ (dec.exact => dec.over \/ dec.max < MinEntrySize) /\ dec' = dec
    BY <1>1, <1>5, <1>11 DEF EmptyWhenLost, Lost, Decoding
  <2>2. Mirror(dec', enc', doubt', named)
    <3>1. e1 \in Encoders /\ Fits(e1.table, e1.max) /\ Roomy(dec, e1, D1)
      BY <1>3, <1>4, <1>8, <2>1
    <3> HIDE DEF e1, D1
    <3>2. Mirror(dec, e1, D1, named)
      BY <1>1, <2>1, <3>1, LostMirrors
    <3> QED
      BY <2>1, <3>2 DEF e1, D1
  <2>3. EmptyWhenLost'
    BY <2>1 DEF EmptyWhenLost
  <2> QED
    BY <1>9, <2>2, <2>3 DEF IInv
<1> QED
  BY <1>10, <1>11

LEMMA FailBlockFacts ==
  ASSUME NEW named \in BOOLEAN, IInv(named), FailBlock, NEW e \in Encoders, Fits(e.table, e.max)
  PROVE  /\ dec' \in Decoders /\ blk' \in Blocks /\ poisoned' \in BOOLEAN /\ doubt' = {}
         /\ Mirror(dec', e, doubt', named)
         /\ EmptyWhenLost'
<1>1. dec \in Decoders /\ enc \in Encoders /\ blk \in Blocks /\ Mirror(dec, enc, doubt, named)
  BY DEF IInv, TypeOK
<1>2. dec' = ResetPartial(dec) /\ doubt' = {} /\ poisoned' = TRUE
      /\ blk' = [blk EXCEPT !.failed = TRUE, !.begun = TRUE]
  BY DEF FailBlock
<1>3. dec' \in Decoders /\ dec'.table = <<>> /\ dec'.exact = FALSE
  BY <1>1, <1>2, ResetShape
<1>4. blk' \in Blocks
  BY <1>1, <1>2 DEF Blocks
<1>5. Mirror(dec', e, doubt', named)
  BY <1>1, <1>2, ResetMirrors
<1>6. EmptyWhenLost'
  BY <1>3 DEF EmptyWhenLost
<1> QED
  BY <1>2, <1>3, <1>4, <1>5, <1>6

LEMMA ReferenceStep ==
  ASSUME NEW named \in BOOLEAN, IInv(named), NEW i \in 1..MaxInserts, Reference(i)
  PROVE  IInv(named)'
<1>1. UNCHANGED <<enc, nins, toEnc, desynced, toObs, nset, losses>>
  BY DEF Reference, encVars, envVars
<1>2. enc \in Encoders /\ Fits(enc.table, enc.max) /\ blk \in Blocks /\ i \in Nat
  BY MirrorAssumption DEF IInv, TypeOK, Mirror
<1>3. CASE FailBlock
  <2>1. /\ dec' \in Decoders /\ blk' \in Blocks /\ poisoned' \in BOOLEAN /\ doubt' = {}
        /\ Mirror(dec', enc, doubt', named) /\ EmptyWhenLost'
    BY <1>2, <1>3, FailBlockFacts
  <2>2. TypeOK'
    BY <1>1, <2>1 DEF IInv, TypeOK
  <2>3. Mirror(dec, enc, doubt, named)'
    BY <1>1, <2>1
  <2> QED
    BY <2>1, <2>2, <2>3 DEF IInv
<1>4. CASE /\ UNCHANGED <<dec, poisoned, doubt>>
           /\ blk' = [blk EXCEPT !.begun = TRUE]
  <2>1. blk' \in Blocks /\ blk'.failed = blk.failed
    BY <1>2, <1>4 DEF Blocks
  <2>2. TypeOK'
    BY <1>1, <1>4, <2>1 DEF IInv, TypeOK
  <2>3. Mirror(dec, enc, doubt, named)'
    BY <1>1, <1>4 DEF IInv
  <2>4. EmptyWhenLost'
    BY <1>1, <1>4, <2>1 DEF IInv, EmptyWhenLost, Lost
  <2> QED
    BY <2>2, <2>3, <2>4 DEF IInv
<1> QED
  BY <1>3, <1>4 DEF Reference

(* What is sent and what is read differ in the name at most, and then the  *)
(* name read is marked unknown or stems from an entry both tables hold.    *)
LEMMA SentAndRead ==
  ASSUME NEW named \in BOOLEAN, TypeOK, Agrees(dec.table, enc.table, named),
         NEW i \in {0} \cup DOMAIN enc.table, NEW nl \in NameLens, NEW vl \in ValLens
  PROVE  LET f == ReadLiteral(i, nl, vl)
             g == Sent(i, nl, vl)
         IN  /\ f \in Fields /\ g \in Fields
             /\ f.val = g.val
             /\ named => f.unknown \/ f.name = g.name
             /\ f.nlen = g.nlen => f.upto = g.upto
<1>1. nl \in Nat /\ vl \in Nat /\ nins + 1 \in Nat /\ PlaceholderName \in Nat /\ PlaceholderLen \in Nat
  BY MirrorAssumption, DecoderAssumption DEF TypeOK, PlaceholderName
<1>2. dec.table \in Seq(Entries) /\ enc.table \in Seq(Entries)
  BY DEF TypeOK, Decoders, Encoders
<1>3. CASE i = 0
  <2>1. ReadLiteral(i, nl, vl) = Sent(i, nl, vl)
    BY <1>3 DEF ReadLiteral, Sent
  <2>2. Sent(i, nl, vl) = Field(nins + 1, nl, nins + 1, vl, FALSE)
    BY <1>3 DEF Sent
  <2>3. Sent(i, nl, vl) \in Fields
    BY <1>1, <2>2, DecoderAssumption DEF Field, Fields, Entries
  <2> QED
    BY <2>1, <2>3
<1>4. CASE i # 0
  <2>1. i \in 1..Len(enc.table)
    BY <1>2, <1>4
  <2>2. enc.table[i] \in Entries
    BY <1>2, <2>1, EntryAt
  <2>3. enc.table[i].name \in Nat /\ enc.table[i].nlen \in Nat
    BY <2>2 DEF Entries
  <2>4. Sent(i, nl, vl) = Field(enc.table[i].name, enc.table[i].nlen, nins + 1, vl, FALSE)
    BY <1>4 DEF Sent
  <2>5. LET g == Sent(i, nl, vl)
        IN  /\ g \in Fields /\ g.val = nins + 1 /\ g.name = enc.table[i].name
            /\ g.nlen = enc.table[i].nlen /\ g.upto = enc.table[i].nlen + vl + MinEntrySize
    BY <1>1, <2>3, <2>4, DecoderAssumption DEF Field, Fields, Entries
  <2>6. CASE Known(dec, i)
    <3>1. i \in 1..Len(dec.table)
      BY <1>2, <2>1, <2>6 DEF Known
    <3>2. dec.table[i] \in Entries
      BY <1>2, <3>1, EntryAt
    <3>3. dec.table[i].name \in Nat /\ dec.table[i].nlen \in Nat /\ dec.table[i].unknown \in BOOLEAN
      BY <3>2 DEF Entries
    <3>4. ReadLiteral(i, nl, vl) =
            Field(dec.table[i].name, dec.table[i].nlen, nins + 1, vl, dec.table[i].unknown)
      BY <1>4, <2>6 DEF ReadLiteral
    <3>5. LET f == ReadLiteral(i, nl, vl)
          IN  /\ f \in Fields /\ f.val = nins + 1 /\ f.name = dec.table[i].name
              /\ f.unknown = dec.table[i].unknown
              /\ f.nlen = dec.table[i].nlen /\ f.upto = dec.table[i].nlen + vl + MinEntrySize
      BY <1>1, <3>3, <3>4, DecoderAssumption DEF Field, Fields, Entries
    <3>6. named => dec.table[i].unknown \/ dec.table[i].name = enc.table[i].name
      BY <2>1, <3>1 DEF Agrees
    <3> QED
      BY <2>5, <3>5, <3>6
  <2>7. CASE ~Known(dec, i)
    <3>1. ReadLiteral(i, nl, vl) = Field(PlaceholderName, PlaceholderLen, nins + 1, vl, TRUE)
      BY <1>4, <2>7 DEF ReadLiteral
    <3>2. LET f == ReadLiteral(i, nl, vl)
          IN  /\ f \in Fields /\ f.val = nins + 1 /\ f.unknown = TRUE
              /\ f.nlen = PlaceholderLen /\ f.upto = PlaceholderLen + vl + MinEntrySize
      BY <1>1, <3>1, DecoderAssumption DEF Field, Fields, Entries
    <3> QED
      BY <2>5, <3>2
  <2> QED
    BY <2>6, <2>7
<1> QED
  BY <1>3, <1>4

(* An insertion on both sides.                                             *)
LEMMA InsertMirrors ==
  ASSUME NEW named \in BOOLEAN, NEW d \in Decoders, NEW e \in Encoders, NEW e1 \in Encoders,
         NEW D0, NEW D1, D0 \subseteq D1, NEW f \in Fields, NEW g \in Fields,
         Mirror(d, e, D0, named),
         f.val = g.val, named => f.unknown \/ f.name = g.name,
         "size" \notin D1 => f.upto = g.upto,
         e1.table = RfcInsert(e.table, g, e1.max),
         Roomy(Insert(d, f), e1, D1)
  PROVE  Mirror(Insert(d, f), e1, D1, named)
<1> DEFINE r == Insert(d, f)
           t == Push(d.table, f)
           u == Push(e.table, g)
<1>1. /\ d.table \in Seq(Entries) /\ e.table \in Seq(Entries) /\ e1.max \in Nat
      /\ d.max \in Nat /\ Spaced(e.table)
      /\ f \in Entries /\ g \in Entries /\ f.upto \in Nat /\ g.upto \in Nat
  BY DEF Decoders, Encoders, Mirror, Fits, Fields, Entries
<1>2. /\ r \in Decoders /\ r.max = d.max /\ r.over = d.over
      /\ \/ d.over /\ r = d
         \/ ~d.over /\ f.upto > d.max /\ r.table = <<>> /\ r.size = 0
         \/ ~d.over /\ f.upto <= d.max /\ Squeezed(r, d, t, d.max)
  BY <1>1, InsertShape
<1>3. /\ t \in Seq(Entries) /\ Len(t) = Len(d.table) + 1
      /\ u \in Seq(Entries) /\ Len(u) = Len(e.table) + 1 /\ u[1] = g
      /\ Spaced(u)
  BY <1>1, PushType, PushSpaced
<1>4. e1.table = RfcFit(u, e1.max)
  BY DEF RfcInsert
<1>5. Fits(e1.table, e1.max)
  BY <1>1, <1>3, <1>4, RfcFitFits
<1>6. Agrees(t, u, named)
  BY <1>1, AgreesPush DEF Mirror
<1>7. "size" \notin D1 => SameBytes(t, u)
  BY <1>1, SameBytesPush DEF Mirror
<1>8. /\ d.over => d.table = <<>>
      /\ d.max > TrackLimit => d.over
      /\ d.exact /\ ~d.over /\ D1 = {} => Len(e.table) <= Len(d.table)
  BY DEF Mirror, Accounted, Covers
<1> HIDE DEF r, t, u
<1>9. Roomy(r, e1, D1)
  BY DEF r
<1>10. CASE d.over /\ r = d
  <2>1. r.table = <<>> /\ r.size = 0
    BY <1>8, <1>10 DEF Mirror, Accounted, Upto
  <2>2. Mirror(r, e1, D1, named)
    BY <1>2, <1>5, <1>8, <1>9, <1>10, <2>1, EmptyMirrors
  <2> QED
    BY <2>2 DEF r
<1>11. CASE ~d.over /\ f.upto > d.max /\ r.table = <<>> /\ r.size = 0
  <2>1. ASSUME r.exact, D1 = {} PROVE e1.table = <<>>
    <3>1. e1.max <= d.max /\ g.upto > d.max
      BY <1>2, <1>9, <1>11, <2>1 DEF Roomy
    <3>2. PICK m \in 0..Len(u) : /\ RfcFit(u, e1.max) = SubSeq(u, 1, m)
                                 /\ \A i \in 1..m : u[i].upto <= e1.max
      BY <1>1, <1>3, RfcFitIsPrefix
    <3>3. m = 0
      <4>1. ~(1 \in 1..m)
        <5>1. ~(u[1].upto <= e1.max)
          BY <1>1, <1>3, <3>1
        <5> QED
          BY <3>2, <5>1
      <4> QED
        BY <4>1
    <3> QED
      BY <1>3, <1>4, <3>2, <3>3
  <2>2. Mirror(r, e1, D1, named)
    BY <1>2, <1>5, <1>8, <1>9, <1>11, <2>1, EmptyMirrors
  <2> QED
    BY <2>2 DEF r
<1>12. CASE ~d.over /\ f.upto <= d.max /\ Squeezed(r, d, t, d.max)
  <2>1. d.max <= TrackLimit
    BY <1>1, <1>8, <1>12, DecoderAssumption
  <2>2. d.exact /\ ~d.over /\ D1 = {} => Len(u) <= Len(t)
    BY <1>3, <1>8
  <2>3. Mirror(r, e1, D1, named)
    BY <1>2, <1>3, <1>4, <1>6, <1>7, <1>9, <1>12, <2>1, <2>2, SqueezeMirrors
  <2> QED
    BY <2>3 DEF r
<1> QED
  BY <1>2, <1>10, <1>11, <1>12

LEMMA InsertLiteralStep ==
  ASSUME NEW named \in BOOLEAN, IInv(named), NEW i \in 0..MaxInserts, NEW nl \in NameLens, NEW vl \in ValLens,
         InsertLiteral(i, nl, vl)
  PROVE  IInv(named)'
<1> DEFINE f == ReadLiteral(i, nl, vl)
           g == Sent(i, nl, vl)
           e1 == [enc EXCEPT !.table = RfcInsert(enc.table, g, enc.max)]
           D1 == doubt'
<1>1. /\ dec \in Decoders /\ enc \in Encoders /\ blk \in Blocks /\ i \in Nat
      /\ Mirror(dec, enc, doubt, named) /\ EmptyWhenLost /\ TypeOK
  BY MirrorAssumption DEF IInv, TypeOK
<1>2. /\ UNCHANGED <<toEnc, desynced, toObs, nset, losses>>
      /\ i \in {0} \cup DOMAIN enc.table
      /\ nins' = nins + 1
      /\ enc' = e1
  BY DEF InsertLiteral, envVars
<1>3. /\ f \in Fields /\ g \in Fields
      /\ f.val = g.val
      /\ named => f.unknown \/ f.name = g.name
      /\ f.nlen = g.nlen => f.upto = g.upto
  BY <1>1, <1>2, SentAndRead DEF Mirror
<1> HIDE DEF f, g
<1>4. /\ enc.table \in Seq(Entries) /\ Spaced(enc.table) /\ enc.max \in Nat
      /\ f \in Entries /\ g \in Entries
  BY <1>1, <1>3 DEF Encoders, Mirror, Fits, Fields
<1>5. Push(enc.table, g) \in Seq(Entries) /\ Spaced(Push(enc.table, g))
  BY <1>3, <1>4, PushType, PushSpaced
<1>6. /\ RfcInsert(enc.table, g, enc.max) \in Seq(Entries)
      /\ Fits(RfcInsert(enc.table, g, enc.max), enc.max)
  BY <1>4, <1>5, RfcFitFits DEF RfcInsert
<1>7. /\ e1 \in Encoders /\ e1.table = RfcInsert(enc.table, g, e1.max) /\ e1.max = enc.max
      /\ Fits(e1.table, e1.max)
  BY <1>1, <1>6 DEF Encoders
<1>8. nins' \in Nat
  BY <1>2 DEF IInv, TypeOK
<1> HIDE DEF e1
<1>9. CASE FailBlock
  <2>1. /\ dec' \in Decoders /\ blk' \in Blocks /\ poisoned' \in BOOLEAN /\ doubt' = {}
        /\ Mirror(dec', e1, doubt', named) /\ EmptyWhenLost'
    BY <1>7, <1>9, FailBlockFacts
  <2>2. TypeOK'
    BY <1>2, <1>7, <1>8, <2>1 DEF IInv, TypeOK
  <2>3. Mirror(dec, enc, doubt, named)'
    BY <1>2, <2>1
  <2> QED
    BY <2>1, <2>2, <2>3 DEF IInv
<1>10. CASE /\ ~Decoding
            /\ blk' = [blk EXCEPT !.begun = TRUE]
            /\ UNCHANGED <<dec, poisoned, doubt>>
  <2>1. dec.table = <<>> /\ (dec.exact => dec.over \/ dec.max < MinEntrySize)
    BY <1>1, <1>10 DEF EmptyWhenLost, Lost, Decoding
  <2>2. Roomy(dec, e1, doubt)
    BY <1>1, <1>7 DEF Mirror, Roomy
  <2>3. Mirror(dec, e1, doubt, named)
    BY <1>1, <1>7, <2>1, <2>2, LostMirrors
  <2>4. blk' \in Blocks
    BY <1>1, <1>10 DEF Blocks
  <2>5. TypeOK'
    BY <1>2, <1>7, <1>8, <1>10, <2>4 DEF IInv, TypeOK
  <2>6. Mirror(dec, enc, doubt, named)'
    BY <1>2, <1>10, <2>3
  <2>7. EmptyWhenLost'
    BY <1>10, <2>1 DEF EmptyWhenLost
  <2> QED
    BY <2>5, <2>6, <2>7 DEF IInv
<1>11. CASE /\ Decoding
            /\ blk' = [blk EXCEPT !.begun = TRUE]
            /\ dec' = Insert(dec, f)
            /\ doubt' = doubt \cup CapacityDoubt(dec', enc')
                          \cup (IF f.nlen # g.nlen THEN {"size"} ELSE {})
            /\ UNCHANGED poisoned
  <2>1. dec' \in Decoders
    BY <1>1, <1>4, <1>11, InsertShape
  <2>2. doubt \subseteq D1 /\ ("size" \notin D1 => f.upto = g.upto)
    BY <1>3, <1>11
  <2>3. Roomy(Insert(dec, f), e1, D1)
    <3>1. Roomy(dec', e1, D1)
      BY <1>2, <1>7, <1>11, <2>1 DEF Roomy, CapacityDoubt, Decoders, Encoders
    <3> QED
      BY <1>11, <3>1
  <2>4. blk' \in Blocks /\ blk'.failed = blk.failed
    BY <1>1, <1>11 DEF Blocks
  <2>5. doubt' \subseteq {"capacity", "size"}
    BY <1>11 DEF IInv, TypeOK, CapacityDoubt
  <2>6. TypeOK'
    BY <1>2, <1>7, <1>8, <1>11, <2>1, <2>4, <2>5 DEF IInv, TypeOK
  <2>7. Mirror(dec, enc, doubt, named)'
    <3> HIDE DEF D1
    <3>1. Mirror(Insert(dec, f), e1, D1, named)
      BY <1>1, <1>3, <1>7, <2>2, <2>3, InsertMirrors
    <3> QED
      BY <1>2, <1>11, <3>1 DEF D1
  <2>8. EmptyWhenLost'
    BY <1>2, <1>11, <2>4 DEF EmptyWhenLost, Lost, Decoding
  <2> QED
    BY <2>6, <2>7, <2>8 DEF IInv
<1> QED
  BY <1>9, <1>10, <1>11 DEF InsertLiteral, f, g

-----------------------------------------------------------------------------
(* The theorems.                                                           *)

LEMMA StepIInv ==
  ASSUME NEW named \in BOOLEAN, IInv(named), [Next]_vars
  PROVE  IInv(named)'
<1>1. CASE \E n \in Capacities, seen \in BOOLEAN : SendSettings(n, seen)
  BY <1>1, SendSettingsStep
<1>2. CASE EncoderGetsSettings
  BY <1>2, EncoderGetsSettingsStep
<1>3. CASE ObserverGetsSettings
  BY <1>3, ObserverGetsSettingsStep
<1>4. CASE OpenBlock \/ CloseBlock
  BY <1>4, BlockBoundaryStep
<1>5. CASE \E n \in Capacities \cup {DefaultTableSize} : SizeUpdate(n)
  BY <1>5, SizeUpdateStep
<1>6. CASE \E i \in 1..MaxInserts : Reference(i)
  BY <1>6, ReferenceStep
<1>7. CASE \E i \in 0..MaxInserts, nl \in NameLens, vl \in ValLens : InsertLiteral(i, nl, vl)
  BY <1>7, InsertLiteralStep
<1>8. CASE LosePlace
  BY <1>8, LosePlaceStep
<1>9. CASE Resync
  BY <1>9, ResyncStep
<1>10. CASE UNCHANGED vars
  BY <1>10 DEF vars, IInv, TypeOK, EmptyWhenLost, Lost
<1> QED
  BY <1>1, <1>2, <1>3, <1>4, <1>5, <1>6, <1>7, <1>8, <1>9, <1>10 DEF Next

(* The strengthening every theorem below rests on.                         *)
THEOREM Inductive == Spec => []IInv(TRUE)
<1>1. Init => IInv(TRUE)
  BY InitIInv
<1>2. IInv(TRUE) /\ [Next]_vars => IInv(TRUE)'
  BY StepIInv
<1> QED
  BY <1>1, <1>2, PTL DEF Spec

(* Every variable keeps its type: tables stay sequences of entries and     *)
(* sizes natural numbers, so size -= f.size() never underflows.            *)
THEOREM TypeCorrect == Spec => []TypeOK
<1>1. IInv(TRUE) => TypeOK
  BY DEF IInv
<1> QED
  BY <1>1, Inductive, PTL

(* An index the observer resolves is the entry the encoder means, for any  *)
(* capacities, sizes, losses and orders of SETTINGS.                       *)
THEOREM NeverWrongTheorem == Spec => []NeverWrong
<1>1. IInv(TRUE) => NeverWrong
  <2> SUFFICES ASSUME IInv(TRUE) PROVE NeverWrong
    OBVIOUS
  <2>1. PICK t, u : t = dec.table /\ u = enc.table
    OBVIOUS
  <2>2. t \in Seq(Entries) /\ u \in Seq(Entries)
    BY <2>1 DEF IInv, TypeOK, Decoders, Encoders
  <2>3. Agrees(t, u, TRUE)
    BY <2>1 DEF IInv, Mirror
  <2>4. ASSUME NEW i \in DOMAIN t, i \in DOMAIN u
        PROVE  t[i].val = u[i].val /\ (t[i].unknown \/ t[i].name = u[i].name)
    <3>1. i \in 1..Len(t) /\ i <= Len(u)
      BY <2>2, <2>4
    <3> QED
      BY <2>3, <3>1 DEF Agrees
  <2> QED
    BY <2>1, <2>4 DEF NeverWrong
<1> QED
  BY <1>1, Inductive, PTL

(* The exactness inference is sound but for the recorded doubts.           *)
THEOREM ExactIsCompleteTheorem == Spec => []ExactIsComplete
<1>1. IInv(TRUE) => ExactIsComplete
  BY DEF IInv, Mirror, Covers, ExactIsComplete, IsExact
<1> QED
  BY <1>1, Inductive, PTL

(* A decoder never holds more than the capacity or the track limit.        *)
THEOREM TableBoundedTheorem == Spec => []TableBounded
<1>1. IInv(TRUE) => TableBounded
  <2> SUFFICES ASSUME IInv(TRUE) PROVE TableBounded
    OBVIOUS
  <2>1. /\ dec.size = Upto(dec.table, Len(dec.table)) /\ dec.size <= dec.max
        /\ dec.max > TrackLimit => dec.over
        /\ dec.over => dec.table = <<>>
        /\ dec.max \in Nat /\ dec.size \in Nat
    BY DEF IInv, Mirror, Accounted, TypeOK, Decoders
  <2>2. dec.max > TrackLimit => dec.table = <<>> /\ dec.size = 0
    BY <2>1 DEF Upto
  <2>3. dec.size <= TrackLimit
    BY <2>1, <2>2, DecoderAssumption
  <2> QED
    BY <2>1, <2>2, <2>3 DEF TableBounded
<1> QED
  BY <1>1, Inductive, PTL

(* A conforming peer's block fails only when the accounting was in doubt.  *)
THEOREM FailureNeedsDoubtTheorem == Spec => FailureNeedsDoubt
<1> DEFINE A == ~blk.failed /\ blk'.failed => doubt # {}
<1>1. IInv(TRUE) /\ [Next]_vars => [A]_vars
  <2> SUFFICES ASSUME IInv(TRUE), Next, ~blk.failed, blk'.failed PROVE doubt # {}
    BY DEF vars
  <2>1. enc \in Encoders /\ dec \in Decoders /\ blk \in Blocks /\ TypeOK
        /\ Covers(dec, enc, doubt)
    BY DEF IInv, TypeOK, Mirror
  <2>2. ASSUME NEW i \in Nat, i \in DOMAIN enc.table, BadIndex(dec, i) PROVE doubt # {}
    BY <2>1, <2>2 DEF BadIndex, Known, IsExact, Covers, Decoders, Encoders
  <2>3. [blk EXCEPT !.begun = TRUE].failed = blk.failed
    BY <2>1 DEF Blocks
  <2>4. ASSUME NEW i \in 1..MaxInserts, Reference(i) PROVE doubt # {}
    <3>1. i \in Nat /\ i \in DOMAIN enc.table
      BY <2>4, MirrorAssumption DEF Reference
    <3>2. blk' # [blk EXCEPT !.begun = TRUE]
      BY <2>3
    <3>3. BadIndex(dec, i)
      BY <2>4, <3>2 DEF Reference
    <3> QED
      BY <2>2, <3>1, <3>3
  <2>5. ASSUME NEW i \in 0..MaxInserts, NEW nl \in NameLens, NEW vl \in ValLens,
               InsertLiteral(i, nl, vl)
        PROVE  doubt # {}
    <3>1. i \in Nat /\ i \in {0} \cup DOMAIN enc.table
      BY <2>5, MirrorAssumption DEF InsertLiteral
    <3>2. blk' # [blk EXCEPT !.begun = TRUE]
      BY <2>3
    <3>3. i # 0 /\ BadIndex(dec, i)
      BY <2>5, <3>2 DEF InsertLiteral
    <3> QED
      BY <2>2, <3>1, <3>3
  <2>6. CASE OpenBlock \/ CloseBlock
    BY <2>1, <2>6 DEF OpenBlock, CloseBlock, NoBlock, Blocks
  <2>7. CASE UNCHANGED blk
    BY <2>7
  <2> QED
    BY <2>4, <2>5, <2>6, <2>7, Zenon
       DEF Next, SendSettings, EncoderGetsSettings, ObserverGetsSettings, SizeUpdate,
           LosePlace, Resync
<1> QED
  BY <1>1, Inductive, PTL DEF Spec, FailureNeedsDoubt

(* Exactness is withdrawn only by a loss or by a table over the limit.     *)
THEOREM WithdrawnVisiblyTheorem == Spec => WithdrawnVisibly
<1> DEFINE A == IsExact(dec) /\ ~IsExact(dec)' => poisoned' \/ dec'.over
<1>1. IInv(TRUE) /\ [Next]_vars => [A]_vars
  <2> SUFFICES ASSUME IInv(TRUE), Next, dec.exact, ~dec.over, ~poisoned', ~dec'.over
               PROVE  dec'.exact
    BY DEF vars, IsExact
  <2>1. dec \in Decoders /\ TypeOK /\ Agrees(dec.table, enc.table, TRUE)
    BY DEF IInv, TypeOK, Mirror
  <2>2. CASE ObserverGetsSettings
    <3>1. toObs \in Seq(Capacities) /\ toObs # <<>>
      BY <2>1, <2>2 DEF TypeOK, ObserverGetsSettings
    <3>2. Head(toObs) \in Nat
      <4>1. Head(toObs) \in Capacities
        BY <3>1
      <4> QED
        BY <4>1, MirrorAssumption
    <3> QED
      BY <2>1, <2>2, <3>2, PeerCapacityShape DEF ObserverGetsSettings
  <2>3. ASSUME NEW n \in Capacities \cup {DefaultTableSize}, SizeUpdate(n)
        PROVE  dec'.exact
    <3>1. n \in Nat /\ dec' = IF Decoding THEN Resize(dec, n) ELSE dec
      BY <2>3, MirrorAssumption, DecoderAssumption DEF SizeUpdate
    <3> QED
      BY <2>1, <3>1, ResizeShape
  <2>4. CASE \E i \in 1..MaxInserts : Reference(i)
    BY <2>4 DEF Reference, FailBlock
  <2>5. ASSUME NEW i \in 0..MaxInserts, NEW nl \in NameLens, NEW vl \in ValLens,
               InsertLiteral(i, nl, vl)
        PROVE  dec'.exact
    <3>1. ReadLiteral(i, nl, vl) \in Entries
      BY <2>1, <2>5, SentAndRead DEF InsertLiteral, Fields
    <3> QED
      BY <2>1, <2>5, <3>1, InsertShape DEF InsertLiteral, FailBlock
  <2>6. CASE LosePlace
    BY <2>6 DEF LosePlace
  <2>7. CASE UNCHANGED dec
    BY <2>7
  <2> QED
    BY <2>2, <2>3, <2>4, <2>5, <2>6, <2>7
       DEF Next, SendSettings, EncoderGetsSettings, OpenBlock, CloseBlock, Resync, obsVars
<1> QED
  BY <1>1, Inductive, PTL DEF Spec, WithdrawnVisibly
=============================================================================
