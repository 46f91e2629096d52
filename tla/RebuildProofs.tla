----------------------------- MODULE RebuildProofs -----------------------------
(***************************************************************************)
(* The rebuilder for every value of the constants: any number of           *)
(* connections on any number of 4-tuples, any messages, any snapshot, and  *)
(* any packets captured or missed.                                         *)
(***************************************************************************)
EXTENDS Rebuild, FiniteSetTheorems, SequenceTheorems, WellFoundedInduction, TLAPS

(* What side s of a key may send, in whatever life.                        *)
Places(k, s) ==
  {at \in Nat : \E l \in DOMAIN Content[k] :
                  \E n \in 1..Len(Content[k][l][s]) : at = LifeSpan * l + n}

(* The first position of life l of a key.                                  *)
FirstOf(l) == LifeSpan * l + 1

(* The packets G of life l, as KnownFrom has them.                         *)
SeenIn(G, s) == {p.at : p \in {q \in G : q.from = s /\ q.kind = "DATA"}}

SawIn(G, kind) == \E p \in G : p.kind = kind

Own(s) == IF s = "client" THEN "SYN" ELSE "SYNACK"

KnownIn(l, G, seed, s) ==
  IF l > 0
  THEN IF SawIn(G, "SYN") /\ (SawIn(G, Own(s)) \/ FirstOf(l) \in SeenIn(G, s))
       THEN FirstOf(l) ELSE None
  ELSE IF seed[s] # None /\ \E at \in SeenIn(G, s) : at <= seed[s] THEN seed[s] ELSE None

(* What the hosts of a key are at.                                         *)
HostsTrue(k, l, se) ==
  /\ l \in DOMAIN Content[k]
  /\ se \in [Sides -> Nat \cup {None}]
  /\ \A s \in Sides : se[s] <= Len(Content[k][l][s])
  /\ se["client"] # None
  /\ l = 0 => se["server"] # None

(* The packets of this life, none of a side that was not yet heard.        *)
PacketTrue(l, se, p) ==
  /\ p.kind = "SYN" => p.from = "client" /\ l > 0
  /\ p.kind = "SYNACK" => p.from = "server" /\ se["server"] # None
  /\ p.kind = "DATA" => /\ p.from \in Sides
                        /\ p.at \in FirstOf(l)..(LifeSpan * l + se[p.from])
                        /\ se["server"] # None

GotTrue(l, se, G) == \A p \in G : PacketTrue(l, se, p)

OutRecords == [ts : Nat, msg : Message]

DirRecords ==
  [begun : BOOLEAN, lo : Nat, hi : Nat, desynced : BOOLEAN,
   table : {"whole", "claimed", "partial"}, pending : Int, misaligned : BOOLEAN,
   decode_errors : Nat, seeded : BOOLEAN, out : Seq(OutRecords)]

(* What was received and is not yet parsed was sent.                       *)
DirTrue(k, s, d) ==
  /\ d \in DirRecords
  /\ d.lo <= d.hi
  /\ \A at \in d.lo..(d.hi - 1) : at \in Places(k, s)

ConnTrue(k, c, t) ==
  /\ c \in [client : Sides, first_ts : Nat, last_ts : Nat, saw_syn : BOOLEAN,
            dirs : [Sides -> DirRecords]]
  /\ c.first_ts <= c.last_ts /\ c.last_ts <= t
  /\ \A s \in Sides : DirTrue(k, s, c.dirs[s])

Shows(k, s, at) == Item(k, s, at).sort \notin {"bad", "long"}

Shown(k, s, from, upto) == {at \in from..upto : Shows(k, s, at)}

FailedBy(k, s, from, upto) == \E b \in from..upto : Item(k, s, b).sort = "bad"

(* out has what side s of k can show of the positions in from..upto.       *)
Told(k, s, from, upto, out) ==
  /\ Unmarked(out, Len(out)) = Cardinality(Shown(k, s, from, upto))
  /\ \A at \in Shown(k, s, from, upto) :
       \E i \in {j \in DOMAIN out : Unmarked(out, j) = Cardinality(Shown(k, s, from, at))} :
         \/ out[i].msg = Item(k, s, at).msg
         \/ out[i].msg = Partial(Item(k, s, at).msg) /\ FailedBy(k, s, from, at)

(* S are the positions seen of a side that is known from position from on: *)
(* the direction has come to the first of them that is missing.            *)
Received(first, from, S, hi) ==
  \E base \in Nat :
    /\ base \in S \/ (base = from /\ base = first)
    /\ base <= from /\ base <= hi
    /\ \A at \in S : base <= at
    /\ base..(hi - 1) \subseteq S /\ hi \notin S

KnownDir(k, s, first, from, S, d) ==
  /\ d.begun /\ ~d.desynced
  /\ d.lo = d.hi
  /\ Received(first, from, S, d.hi)
  /\ d.table # "claimed"
  /\ IF d.pending = None
     THEN /\ from <= d.hi
          /\ d.table = "partial" => FailedBy(k, s, from, d.hi - 1)
          /\ Told(k, s, from, d.hi - 1, d.out)
     ELSE /\ d.pending = from /\ d.hi < from
          /\ d.table = "whole" /\ d.out = <<>> /\ d.decode_errors = 0

Fresh(d) == ~d.begun /\ d.pending = None /\ d.out = <<>> /\ d.decode_errors = 0

(* A direction of a connection whose SYN was captured.                     *)
OpenedSide(k, l, G, seed, s, d) ==
  IF d.begun
  THEN IF KnownIn(l, G, seed, s) # None
       THEN KnownDir(k, s, FirstOf(l), FirstOf(l), SeenIn(G, s), d)
       ELSE SeenIn(G, s) # {}
  ELSE /\ Fresh(d) /\ ~d.desynced /\ d.table = "whole"
       /\ SeenIn(G, s) = {} /\ KnownIn(l, G, seed, s) = None

(* A direction of a connection that was there before the capture.          *)
OldSide(k, l, G, seed, s, d) ==
  IF SeenIn(G, s) = {} THEN Fresh(d) /\ ~d.seeded
  ELSE /\ d.begun /\ d.seeded
       /\ KnownIn(l, G, seed, s) # None => KnownDir(k, s, FirstOf(l), seed[s], SeenIn(G, s), d)

ConnKnows(k, l, G, seed, c) ==
  /\ SawIn(G, "SYN") => c.saw_syn /\ \A s \in Sides : OpenedSide(k, l, G, seed, s, c.dirs[s])
  /\ l = 0 => ~c.saw_syn /\ \A s \in Sides : OldSide(k, l, G, seed, s, c.dirs[s])

KeyTrue(k) ==
  /\ HostsTrue(k, life[k], sent[k])
  /\ GotTrue(life[k], sent[k], got[k])
  /\ k \in DOMAIN conns => /\ ConnTrue(k, conns[k], now)
                           /\ ConnKnows(k, life[k], got[k], seeds[k], conns[k])
  /\ k \notin DOMAIN conns => ~SawIn(got[k], "SYN") /\ (life[k] = 0 => got[k] = {})

RInv ==
  /\ now \in Nat /\ decode_failures \in Nat
  /\ seeds \in [Keys -> [Sides -> Int]]
  /\ order \in Seq(Keys) /\ DOMAIN conns = {order[i] : i \in DOMAIN order}
  /\ life \in [Keys -> Nat] /\ sent \in [Keys -> [Sides -> Nat \cup {None}]]
  /\ DOMAIN got = Keys
  /\ \A k \in Keys : KeyTrue(k)
-----------------------------------------------------------------------------
(* What the hosts send.                                                    *)

LEMMA Least == ASSUME NEW B \in SUBSET Nat, B # {} PROVE \E n \in B : \A m \in B : n <= m
<1>1. PICK n \in B : \A m \in B : ~(<<m, n>> \in OpToRel(<, Nat))
  BY NatLessThanWellFounded, WFMin
<1>2. \A m \in B : ~(m < n)
  BY <1>1 DEF OpToRel
<1> QED
  BY <1>2

LEMMA OtherSide ==
  ASSUME NEW s \in Sides
  PROVE  Other(s) \in Sides /\ Other(s) # s /\ \A t \in Sides : t = s \/ t = Other(s)
BY DEF Sides, Other

LEMMA Arithmetic ==
  ASSUME NEW m \in Nat, NEW l \in Nat, NEW n \in Nat, n < m
  PROVE  (m * l + n) \div m = l /\ (m * l + n) % m = n /\ m * l + n \in Nat
OBVIOUS

LEMMA SpanIs == LifeSpan \in Nat
BY RebuildAssumption

LEMMA MssIs == Mss \in Nat \ {0} /\ SeqSpace \in Nat \ {0} /\ Preface \in Seq(Nat)
BY RebuildAssumption

LEMMA LivesAreNat == \A k \in Keys : 0 \in DOMAIN Content[k] /\ DOMAIN Content[k] \subseteq Nat
BY RebuildAssumption

LEMMA ContentIs ==
  ASSUME NEW k \in Keys, NEW l \in DOMAIN Content[k], NEW s \in Sides
  PROVE  /\ LifeSpan \in Nat /\ l \in Nat
         /\ Content[k][l][s] \in Seq(Items)
         /\ Len(Content[k][l][s]) \in Nat
         /\ Len(Content[k][l][s]) < LifeSpan
<1>1. Content[k][l][s] \in Seq(Items)
  BY RebuildAssumption
<1> QED
  BY <1>1, RebuildAssumption

LEMMA FirstIs ==
  ASSUME NEW k \in Keys, NEW l \in DOMAIN Content[k]
  PROVE  FirstOf(l) \in Nat /\ LifeSpan * l \in Nat /\ FirstOf(l) = LifeSpan * l + 1 /\ FirstOf(l) > 0
<1>1. LifeSpan \in Nat /\ l \in Nat
  BY RebuildAssumption
<1>2. LifeSpan * l \in Nat
  BY <1>1
<1> QED
  BY <1>2 DEF FirstOf

LEMMA PlaceIs ==
  ASSUME NEW k \in Keys, NEW l \in DOMAIN Content[k], NEW s \in Sides,
         NEW n \in 1..Len(Content[k][l][s])
  PROVE  /\ LifeSpan * l + n \in Places(k, s)
         /\ (LifeSpan * l + n) % LifeSpan = n
         /\ Item(k, s, LifeSpan * l + n) = Content[k][l][s][n]
<1>1. /\ LifeSpan \in Nat /\ l \in Nat /\ n \in Nat /\ n < LifeSpan
  BY ContentIs
<1>2. /\ (LifeSpan * l + n) \div LifeSpan = l /\ (LifeSpan * l + n) % LifeSpan = n
      /\ LifeSpan * l + n \in Nat
  BY <1>1, Arithmetic
<1>3. Item(k, s, LifeSpan * l + n) = Content[k][l][s][n]
  BY <1>2 DEF Item
<1>4. LifeSpan * l + n \in Places(k, s)
  BY <1>2 DEF Places
<1> QED
  BY <1>2, <1>3, <1>4

LEMMA ItemIs ==
  ASSUME NEW k \in Keys, NEW s \in Sides, NEW at \in Places(k, s)
  PROVE  /\ at \in Nat
         /\ Item(k, s, at).sort \in Sorts
         /\ Item(k, s, at).msg \in Message
         /\ Item(k, s, at).msg # Marker
<1>1. PICK l \in DOMAIN Content[k] : \E n \in 1..Len(Content[k][l][s]) : at = LifeSpan * l + n
  BY DEF Places
<1>2. PICK n \in 1..Len(Content[k][l][s]) : at = LifeSpan * l + n
  BY <1>1
<1>3. Item(k, s, at) = Content[k][l][s][n]
  BY <1>2, PlaceIs
<1>4. Content[k][l][s][n] \in Items
  BY ContentIs, ElementOfSeq
<1>5. PICK e : e = Item(k, s, at) /\ e \in Items
  BY <1>3, <1>4
<1>6. e.sort \in Sorts /\ e.msg \in Message /\ e.msg # Marker
  BY <1>5 DEF Items
<1>7. at \in Nat
  BY DEF Places
<1> QED
  BY <1>5, <1>6, <1>7

LEMMA PartialIs ==
  ASSUME NEW m \in Message
  PROVE  Partial(m) \in Message /\ Partial(m) # Marker
<1>1. /\ m = [typ |-> m.typ, id |-> m.id, flags |-> m.flags, promised |-> m.promised,
              payload |-> m.payload, fields |-> m.fields]
      /\ m.typ \in Nat /\ m.id \in Nat /\ m.flags \in Nat /\ m.promised \in Nat /\ m.payload \in Seq(Nat)
      /\ m.fields \in Seq([name : Seq(Nat), value : Seq(Nat), sensitive : BOOLEAN])
  BY DEF Message
<1>2. PICK fs : fs = [i \in DOMAIN m.fields |-> [m.fields[i] EXCEPT !.name = Unresolved]]
  OBVIOUS
<1>3. Partial(m) = [m EXCEPT !.fields = fs]
  BY <1>2 DEF Partial
<1>4. DOMAIN m.fields = 1..Len(m.fields) /\ Len(m.fields) \in Nat
  BY <1>1
<1>5. ASSUME NEW i \in 1..Len(m.fields)
      PROVE fs[i] \in [name : Seq(Nat), value : Seq(Nat), sensitive : BOOLEAN] /\ fs[i].name = Unresolved
  <2>1. m.fields[i] \in [name : Seq(Nat), value : Seq(Nat), sensitive : BOOLEAN]
    <3>1. PICK X, q : /\ X = [name : Seq(Nat), value : Seq(Nat), sensitive : BOOLEAN]
                      /\ q = m.fields /\ q \in Seq(X)
      BY <1>1
    <3>2. q[i] \in X
      BY <3>1, ElementOfSeq
    <3> QED
      BY <3>1, <3>2
  <2>2. Unresolved \in Seq(Nat)
    BY DEF Unresolved
  <2>3. PICK f : f = m.fields[i]
    OBVIOUS
  <2>4. fs[i] = [f EXCEPT !.name = Unresolved]
    <3>1. PICK D : D = DOMAIN m.fields /\ i \in D
      BY <1>4
    <3>2. fs = [j \in D |-> [m.fields[j] EXCEPT !.name = Unresolved]]
      BY <1>2, <3>1
    <3> QED
      BY <2>3, <3>1, <3>2
  <2>5. /\ f = [name |-> f.name, value |-> f.value, sensitive |-> f.sensitive]
        /\ f.value \in Seq(Nat) /\ f.sensitive \in BOOLEAN
    BY <2>1, <2>3
  <2>6. fs[i] = [name |-> Unresolved, value |-> f.value, sensitive |-> f.sensitive]
    BY <2>4, <2>5
  <2>7. fs[i].name = Unresolved
    BY <2>6
  <2> QED
    BY <2>2, <2>5, <2>6, <2>7
<1>6. fs \in [1..Len(m.fields) -> [name : Seq(Nat), value : Seq(Nat), sensitive : BOOLEAN]]
  BY <1>2, <1>4, <1>5
<1>7. fs \in Seq([name : Seq(Nat), value : Seq(Nat), sensitive : BOOLEAN])
  <2>1. PICK n \in Nat : n = Len(m.fields)
    BY <1>4
  <2>2. PICK X : X = [name : Seq(Nat), value : Seq(Nat), sensitive : BOOLEAN]
    OBVIOUS
  <2>3. fs \in [1..n -> X]
    BY <1>6, <2>1, <2>2
  <2>4. fs \in Seq(X)
    BY <2>1, <2>3, SeqDef
  <2> QED
    BY <2>2, <2>4
<1>8. Partial(m) \in Message
  BY <1>1, <1>3, <1>7 DEF Message
<1>9. ASSUME Partial(m) = Marker PROVE FALSE
  <2>1. fs = Marker.fields
    BY <1>1, <1>3, <1>9
  <2>2. Marker.fields = <<[name |-> <<7, 1>>, value |-> <<>>, sensitive |-> FALSE]>>
    BY DEF Marker, Block
  <2>3. Len(fs) = 1 /\ fs[1].name = <<7, 1>>
    BY <2>1, <2>2
  <2>4. 1 \in 1..Len(m.fields)
    <3>1. DOMAIN fs = 1..Len(m.fields) /\ DOMAIN fs = 1..Len(fs)
      BY <1>4, <1>2, <1>7
    <3> QED
      BY <2>3, <3>1
  <2>5. fs[1].name = <<7, 0>>
    BY <1>5, <2>4 DEF Unresolved
  <2> QED
    BY <2>3, <2>5
<1> QED
  BY <1>8, <1>9

-----------------------------------------------------------------------------
(* What a direction has told.                                              *)

LEMMA UnmarkedIs ==
  ASSUME NEW out, NEW n \in Nat
  PROVE  /\ IsFiniteSet({i \in 1..n : out[i].msg # Marker})
         /\ Unmarked(out, n) \in Nat
         /\ n = 0 => Unmarked(out, n) = 0
<1> DEFINE S == {i \in 1..n : out[i].msg # Marker}
<1>1. IsFiniteSet(1..n)
  BY FS_Interval
<1>2. S \subseteq 1..n
  OBVIOUS
<1>3. IsFiniteSet(S)
  BY <1>1, <1>2, FS_Subset
<1>4. Cardinality(S) \in Nat
  BY <1>3, FS_CardinalityType
<1>5. n = 0 => S = {}
  BY <1>2
<1>6. n = 0 => Cardinality(S) = 0
  BY <1>3, <1>5, FS_EmptySet
<1> QED
  BY <1>3, <1>4, <1>6 DEF Unmarked

LEMMA UnmarkedSame ==
  ASSUME NEW p, NEW q, NEW n \in Nat, \A i \in 1..n : p[i] = q[i]
  PROVE  Unmarked(p, n) = Unmarked(q, n)
<1>1. {i \in 1..n : p[i].msg # Marker} = {i \in 1..n : q[i].msg # Marker}
  OBVIOUS
<1> QED
  BY <1>1 DEF Unmarked

LEMMA UnmarkedBeyond ==
  ASSUME NEW q, NEW n \in Nat, NEW m \in Nat, n <= m, \A i \in (n + 1)..m : q[i].msg = Marker
  PROVE  Unmarked(q, m) = Unmarked(q, n)
<1>1. {i \in 1..m : q[i].msg # Marker} = {i \in 1..n : q[i].msg # Marker}
  OBVIOUS
<1> QED
  BY <1>1 DEF Unmarked

LEMMA UnmarkedNext ==
  ASSUME NEW q, NEW n \in Nat, q[n + 1].msg # Marker
  PROVE  Unmarked(q, n + 1) = Unmarked(q, n) + 1
<1> DEFINE S == {i \in 1..n : q[i].msg # Marker}
<1>1. {i \in 1..(n + 1) : q[i].msg # Marker} = S \cup {n + 1}
  OBVIOUS
<1>2. n + 1 \notin S
  OBVIOUS
<1>3. IsFiniteSet(S)
  BY UnmarkedIs
<1>4. Cardinality(S \cup {n + 1}) = Cardinality(S) + 1
  BY <1>2, <1>3, FS_AddElement
<1> QED
  BY <1>1, <1>4 DEF Unmarked

LEMMA ShownIs ==
  ASSUME NEW k, NEW s, NEW from \in Int, NEW upto \in Int
  PROVE  /\ IsFiniteSet(Shown(k, s, from, upto))
         /\ Cardinality(Shown(k, s, from, upto)) \in Nat
         /\ upto < from => /\ Shown(k, s, from, upto) = {}
                           /\ Cardinality(Shown(k, s, from, upto)) = 0
<1>1. IsFiniteSet(from..upto)
  BY FS_Interval
<1>2. Shown(k, s, from, upto) \subseteq from..upto
  BY DEF Shown
<1>3. IsFiniteSet(Shown(k, s, from, upto))
  BY <1>1, <1>2, FS_Subset
<1>4. Cardinality(Shown(k, s, from, upto)) \in Nat
  BY <1>3, FS_CardinalityType
<1>5. upto < from => Shown(k, s, from, upto) = {}
  BY <1>2
<1> QED
  BY <1>3, <1>4, <1>5, FS_EmptySet

LEMMA ShownNext ==
  ASSUME NEW k, NEW s, NEW from \in Int, NEW at \in Int, from <= at
  PROVE  /\ Shows(k, s, at) =>
              /\ Shown(k, s, from, at) = Shown(k, s, from, at - 1) \cup {at}
              /\ Cardinality(Shown(k, s, from, at)) = Cardinality(Shown(k, s, from, at - 1)) + 1
         /\ ~Shows(k, s, at) => Shown(k, s, from, at) = Shown(k, s, from, at - 1)
<1>1. PICK S : S = Shown(k, s, from, at - 1)
  OBVIOUS
<1>2. IsFiniteSet(S)
  BY <1>1, ShownIs
<1>3. at \notin S
  BY <1>1 DEF Shown
<1>4. Cardinality(S \cup {at}) = Cardinality(S) + 1
  BY <1>2, <1>3, FS_AddElement
<1>5. ASSUME Shows(k, s, at) PROVE Shown(k, s, from, at) = S \cup {at}
  BY <1>1, <1>5 DEF Shown
<1>6. ASSUME ~Shows(k, s, at) PROVE Shown(k, s, from, at) = S
  BY <1>1, <1>6 DEF Shown
<1> QED
  BY <1>1, <1>4, <1>5, <1>6

(* The place in out of what was shown at position at.                      *)
ToldAt(k, s, from, at, out) ==
  \E i \in DOMAIN out :
    /\ Unmarked(out, i) = Cardinality(Shown(k, s, from, at))
    /\ \/ out[i].msg = Item(k, s, at).msg
       \/ out[i].msg = Partial(Item(k, s, at).msg) /\ FailedBy(k, s, from, at)

LEMMA ToldIs ==
  ASSUME NEW k, NEW s, NEW from, NEW upto, NEW out
  PROVE  Told(k, s, from, upto, out) <=>
           /\ Unmarked(out, Len(out)) = Cardinality(Shown(k, s, from, upto))
           /\ \A at \in Shown(k, s, from, upto) : ToldAt(k, s, from, at, out)
BY DEF Told, ToldAt

LEMMA ToldAtLonger ==
  ASSUME NEW k, NEW s, NEW from, NEW at, NEW S, NEW p \in Seq(S), NEW q \in Seq(S),
         Len(p) <= Len(q), \A i \in 1..Len(p) : q[i] = p[i], ToldAt(k, s, from, at, p)
  PROVE  ToldAt(k, s, from, at, q)
<1>1. DOMAIN p = 1..Len(p) /\ DOMAIN q = 1..Len(q) /\ Len(p) \in Nat /\ Len(q) \in Nat
  OBVIOUS
<1>2. PICK i \in DOMAIN p :
        /\ Unmarked(p, i) = Cardinality(Shown(k, s, from, at))
        /\ \/ p[i].msg = Item(k, s, at).msg
           \/ p[i].msg = Partial(Item(k, s, at).msg) /\ FailedBy(k, s, from, at)
  BY DEF ToldAt
<1>3. i \in Nat /\ i \in DOMAIN q /\ q[i] = p[i] /\ \A j \in 1..i : q[j] = p[j]
  BY <1>1
<1>4. Unmarked(q, i) = Unmarked(p, i)
  BY <1>3, UnmarkedSame
<1> QED
  BY <1>2, <1>3, <1>4 DEF ToldAt

LEMMA ToldNothing ==
  ASSUME NEW k, NEW s, NEW from \in Int, NEW upto \in Int, upto < from
  PROVE  Told(k, s, from, upto, <<>>)
<1>1. Unmarked(<<>>, Len(<<>>)) = 0
  BY UnmarkedIs
<1> QED
  BY <1>1, ShownIs, ToldIs

LEMMA ToldHidden ==
  ASSUME NEW k, NEW s, NEW from \in Int, NEW at \in Int, from <= at, NEW out,
         Told(k, s, from, at - 1, out), ~Shows(k, s, at)
  PROVE  Told(k, s, from, at, out)
BY ShownNext, ToldIs

LEMMA ToldShown ==
  ASSUME NEW k, NEW s, NEW from \in Int, NEW at \in Int, from <= at,
         NEW out \in Seq(OutRecords), NEW x \in OutRecords,
         Told(k, s, from, at - 1, out), Shows(k, s, at), x.msg # Marker,
         \/ x.msg = Item(k, s, at).msg
         \/ x.msg = Partial(Item(k, s, at).msg) /\ FailedBy(k, s, from, at)
  PROVE  Told(k, s, from, at, Append(out, x))
<1>0. PICK n \in Nat : n = Len(out)
  OBVIOUS
<1>1. PICK q : q = Append(out, x) /\ n = Len(out)
  BY <1>0
<1>2. /\ q \in Seq(OutRecords) /\ Len(q) = n + 1 /\ q[n + 1] = x
      /\ \A i \in 1..n : q[i] = out[i]
  BY <1>1
<1>3. Unmarked(q, n) = Unmarked(out, n)
  BY <1>2, UnmarkedSame
<1>4. Unmarked(q, n + 1) = Unmarked(q, n) + 1
  BY <1>2, UnmarkedNext
<1>5. Unmarked(out, n) = Cardinality(Shown(k, s, from, at - 1))
  BY <1>1, ToldIs
<1>6. /\ Shown(k, s, from, at) = Shown(k, s, from, at - 1) \cup {at}
      /\ Cardinality(Shown(k, s, from, at)) = Cardinality(Shown(k, s, from, at - 1)) + 1
  BY ShownNext
<1>7. Unmarked(q, Len(q)) = Cardinality(Shown(k, s, from, at))
  BY <1>2, <1>3, <1>4, <1>5, <1>6
<1>8. ASSUME NEW b \in Shown(k, s, from, at - 1) PROVE ToldAt(k, s, from, b, q)
  <2>1. ToldAt(k, s, from, b, out)
    BY ToldIs
  <2>2. Len(out) <= Len(q)
    BY <1>1, <1>2
  <2> QED
    BY <1>1, <1>2, <2>1, <2>2, ToldAtLonger
<1>9. ToldAt(k, s, from, at, q)
  <2>1. n + 1 \in DOMAIN q
    BY <1>2
  <2>2. Unmarked(q, n + 1) = Cardinality(Shown(k, s, from, at))
    BY <1>2, <1>7
  <2> QED
    BY <1>2, <2>1, <2>2 DEF ToldAt
<1>10. ASSUME NEW b \in Shown(k, s, from, at) PROVE ToldAt(k, s, from, b, q)
  BY <1>6, <1>8, <1>9
<1> QED
  BY <1>1, <1>7, <1>10, ToldIs

-----------------------------------------------------------------------------
(* Directions.                                                             *)

LEMMA MarkerIs == Marker \in Message
<1>1. <<7, 1>> \in Seq(Nat) /\ <<>> \in Seq(Nat)
  OBVIOUS
<1>2. PICK f, X : /\ f = [name |-> <<7, 1>>, value |-> <<>>, sensitive |-> FALSE]
                  /\ X = [name : Seq(Nat), value : Seq(Nat), sensitive : BOOLEAN]
                  /\ f \in X
  <2>1. [name |-> <<7, 1>>, value |-> <<>>, sensitive |-> FALSE]
          \in [name : Seq(Nat), value : Seq(Nat), sensitive : BOOLEAN]
    BY <1>1
  <2> QED
    BY <2>1, Zenon
<1>3. <<f>> \in Seq(X)
  BY <1>2
<1>4. PICK g, Y : g = <<f>> /\ Y = Seq(X) /\ g \in Y
  BY <1>3
<1>5. Marker = [typ |-> 1, id |-> 1, flags |-> 0, promised |-> 0, fields |-> g, payload |-> <<>>]
  BY <1>2, <1>4 DEF Marker, Block, HEADERS
<1>6. Message = [typ : Nat, id : Nat, flags : Nat, promised : Nat, payload : Seq(Nat), fields : Y]
  BY <1>2, <1>4 DEF Message
<1> QED
  BY <1>1, <1>4, <1>5, <1>6

LEMMA DirIs ==
  ASSUME NEW d \in DirRecords
  PROVE  /\ d.begun \in BOOLEAN /\ d.lo \in Nat /\ d.hi \in Nat /\ d.desynced \in BOOLEAN
         /\ d.table \in {"whole", "claimed", "partial"} /\ d.pending \in Int
         /\ d.misaligned \in BOOLEAN /\ d.decode_errors \in Nat /\ d.seeded \in BOOLEAN
         /\ d.out \in Seq(OutRecords)
         /\ d = [begun |-> d.begun, lo |-> d.lo, hi |-> d.hi, desynced |-> d.desynced,
                 table |-> d.table, pending |-> d.pending, misaligned |-> d.misaligned,
                 decode_errors |-> d.decode_errors, seeded |-> d.seeded, out |-> d.out]
BY DEF DirRecords

LEMMA MarkedIs ==
  ASSUME NEW d \in DirRecords, NEW ts \in Nat, NEW n \in Nat,
         NEW e, e = MarkFailures(d, ts, n)
  PROVE  /\ e \in DirRecords
         /\ e.begun = d.begun /\ e.desynced = d.desynced /\ e.lo = d.lo /\ e.hi = d.hi
         /\ e.table = d.table /\ e.pending = d.pending /\ e.seeded = d.seeded
         /\ e.decode_errors = d.decode_errors
         /\ Len(e.out) = Len(d.out) + n
         /\ \A i \in 1..Len(d.out) : e.out[i] = d.out[i]
         /\ \A i \in (Len(d.out) + 1)..Len(e.out) : e.out[i].msg = Marker
<1>1. PICK p : p = d.out /\ p \in Seq(OutRecords)
  BY DirIs
<1>2. PICK x : x = [ts |-> ts, msg |-> Marker] /\ x \in OutRecords /\ x.msg = Marker
  <2>1. [ts |-> ts, msg |-> Marker] \in OutRecords
    BY MarkerIs DEF OutRecords
  <2> QED
    BY <2>1
<1>3. PICK m : m = [i \in 1..n |-> x] /\ m \in Seq(OutRecords) /\ Len(m) = n
  <2>1. [i \in 1..n |-> x] \in Seq(OutRecords) /\ Len([i \in 1..n |-> x]) = n
    BY <1>2
  <2> QED
    BY <2>1
<1>4. PICK q : q = p \o m
  OBVIOUS
<1>5. /\ q \in Seq(OutRecords) /\ Len(q) = Len(p) + n
      /\ \A i \in 1..Len(p) : q[i] = p[i]
      /\ \A i \in (Len(p) + 1)..Len(q) : q[i] = x
  BY <1>1, <1>3, <1>4
<1>7. e = [d EXCEPT !.out = q]
  BY <1>1, <1>2, <1>3, <1>4 DEF MarkFailures
<1>8. e \in DirRecords /\ e.out = q
  BY <1>5, <1>7, DirIs DEF DirRecords
<1>9. /\ e.begun = d.begun /\ e.desynced = d.desynced /\ e.lo = d.lo /\ e.hi = d.hi
      /\ e.table = d.table /\ e.pending = d.pending /\ e.seeded = d.seeded
      /\ e.decode_errors = d.decode_errors
  BY <1>7, DirIs
<1>10. \A i \in (Len(d.out) + 1)..Len(e.out) : e.out[i].msg = Marker
  BY <1>1, <1>2, <1>5, <1>8
<1> QED
  BY <1>1, <1>5, <1>8, <1>9, <1>10

LEMMA ToldMarked ==
  ASSUME NEW k, NEW s, NEW from, NEW upto,
         NEW d \in DirRecords, NEW ts \in Nat, NEW n \in Nat, Told(k, s, from, upto, d.out)
  PROVE  Told(k, s, from, upto, MarkFailures(d, ts, n).out)
<1>1. PICK p, q : p = d.out /\ q = MarkFailures(d, ts, n).out
  OBVIOUS
<1>2. /\ p \in Seq(OutRecords) /\ q \in Seq(OutRecords) /\ Len(q) = Len(p) + n
      /\ \A i \in 1..Len(p) : q[i] = p[i]
      /\ \A i \in (Len(p) + 1)..Len(q) : q[i].msg = Marker
  <2>1. PICK e : e = MarkFailures(d, ts, n)
    OBVIOUS
  <2>2. /\ e \in DirRecords /\ Len(e.out) = Len(d.out) + n
        /\ \A i \in 1..Len(d.out) : e.out[i] = d.out[i]
        /\ \A i \in (Len(d.out) + 1)..Len(e.out) : e.out[i].msg = Marker
    BY <2>1, MarkedIs
  <2>3. e.out \in Seq(OutRecords) /\ d.out \in Seq(OutRecords)
    BY <2>2, DirIs
  <2> QED
    BY <1>1, <2>1, <2>2, <2>3
<1>3. Len(p) \in Nat /\ Len(q) \in Nat /\ Len(p) <= Len(q)
  BY <1>2
<1>4. Unmarked(q, Len(q)) = Unmarked(q, Len(p))
  BY <1>2, <1>3, UnmarkedBeyond
<1>5. Unmarked(q, Len(p)) = Unmarked(p, Len(p))
  BY <1>2, <1>3, UnmarkedSame
<1>6. Unmarked(q, Len(q)) = Cardinality(Shown(k, s, from, upto))
  BY <1>1, <1>4, <1>5, ToldIs
<1>7. ASSUME NEW at \in Shown(k, s, from, upto) PROVE ToldAt(k, s, from, at, q)
  <2>1. ToldAt(k, s, from, at, p)
    BY <1>1, ToldIs
  <2>2. PICK S : p \in Seq(S) /\ q \in Seq(S)
    BY <1>2
  <2> QED
    BY <1>2, <1>3, <2>1, <2>2, ToldAtLonger
<1> QED
  BY <1>1, <1>6, <1>7, ToldIs

LEMMA KnownMarked ==
  ASSUME NEW k, NEW s, NEW first, NEW from, NEW S,
         NEW d \in DirRecords, NEW ts \in Nat, NEW n \in Nat,
         KnownDir(k, s, first, from, S, d), d.pending # None => n = 0
  PROVE  KnownDir(k, s, first, from, S, MarkFailures(d, ts, n))
<1>1. PICK e : e = MarkFailures(d, ts, n)
  OBVIOUS
<1>2. /\ e.begun = d.begun /\ e.desynced = d.desynced /\ e.lo = d.lo /\ e.hi = d.hi
      /\ e.table = d.table /\ e.pending = d.pending /\ e.decode_errors = d.decode_errors
  BY <1>1, MarkedIs
<1>3. CASE d.pending = None
  <2>1. Told(k, s, from, d.hi - 1, e.out)
    BY <1>1, <1>3, ToldMarked DEF KnownDir
  <2> QED
    BY <1>1, <1>2, <1>3, <2>1 DEF KnownDir
<1>4. CASE d.pending # None
  <2>1. e.out = <<>>
    <3>1. d.out = <<>> /\ n = 0
      BY <1>4 DEF KnownDir
    <3>2. e \in DirRecords /\ Len(e.out) = Len(d.out) + n
      BY <1>1, MarkedIs
    <3>3. e.out \in Seq(OutRecords) /\ Len(e.out) = 0
      BY <3>1, <3>2, DirIs
    <3> QED
      BY <3>3
  <2> QED
    BY <1>1, <1>2, <1>4, <2>1 DEF KnownDir
<1> QED
  BY <1>3, <1>4

(* d and e are at the same point of what they receive.                     *)
SamePlace(d, e) ==
  /\ e.begun = d.begun /\ e.hi = d.hi /\ e.desynced = d.desynced /\ e.pending = d.pending
  /\ e.seeded = d.seeded

(* d knows the place of the next message and has told what is behind it.   *)
Exact(k, s, from, d) ==
  /\ from <= d.lo
  /\ d.table # "claimed"
  /\ d.table = "partial" => FailedBy(k, s, from, d.lo - 1)
  /\ Told(k, s, from, d.lo - 1, d.out)

(* e is d with one more message, m.                                        *)
Emitted(d, m, e) == \E x \in OutRecords : x.msg = m /\ e.out = Append(d.out, x)

LEMMA EmitIs ==
  ASSUME NEW d \in DirRecords, NEW ts \in Nat, NEW m \in Message, NEW e,
         e = Emit(d, m, ts)
  PROVE  /\ e \in DirRecords /\ SamePlace(d, e)
         /\ e.lo = d.lo /\ e.table = d.table
         /\ Emitted(d, m, e)
<1>1. PICK x : x = [ts |-> ts, msg |-> m]
  OBVIOUS
<1>2. x \in OutRecords /\ x.msg = m
  BY <1>1 DEF OutRecords
<1>3. PICK q : q = Append(d.out, x)
  OBVIOUS
<1>4. q \in Seq(OutRecords)
  BY <1>2, <1>3, DirIs
<1>5. e = [d EXCEPT !.out = q]
  BY <1>1, <1>3 DEF Emit
<1>6. e.out = q /\ e.lo = d.lo /\ e.table = d.table
  BY <1>5, DirIs
<1>7. SamePlace(d, e)
  BY <1>5, DirIs DEF SamePlace
<1>8. e \in DirRecords
  BY <1>4, <1>5, DirIs DEF DirRecords
<1>9. Emitted(d, m, e)
  BY <1>2, <1>3, <1>6 DEF Emitted
<1> QED
  BY <1>6, <1>7, <1>8, <1>9

LEMMA FailIs ==
  ASSUME NEW d \in DirRecords, NEW e, e = Fail(d)
  PROVE  /\ e \in DirRecords /\ SamePlace(d, e)
         /\ e.lo = d.lo /\ e.table = "partial" /\ e.out = d.out
<1>0. PICK n : n = d.decode_errors + 1
  OBVIOUS
<1>1. e = [d EXCEPT !.table = "partial", !.decode_errors = n]
  BY <1>0 DEF Fail
<1>2. e \in DirRecords
  <2>1. n \in Nat
    BY <1>0, DirIs
  <2> QED
    BY <1>1, <2>1, DirIs DEF DirRecords
<1>3. SamePlace(d, e)
  BY <1>1, DirIs DEF SamePlace
<1> QED
  BY <1>1, <1>2, <1>3, DirIs

LEMMA TakeIs ==
  ASSUME NEW k \in Keys, NEW s \in Sides, NEW d \in DirRecords, NEW ts \in Nat,
         d.lo \in Places(k, s), NEW e, e = Take(d, Item(k, s, d.lo), ts)
  PROVE  /\ e \in DirRecords /\ SamePlace(d, e) /\ e.lo = d.lo
         /\ \A from \in Int : Exact(k, s, from, d) =>
              /\ e.table # "claimed"
              /\ e.table = "partial" => FailedBy(k, s, from, d.lo)
              /\ Told(k, s, from, d.lo, e.out)
<1>1. PICK item, at : item = Item(k, s, at) /\ at = d.lo
  OBVIOUS
<1>2. /\ at \in Nat /\ item.sort \in Sorts /\ item.msg \in Message /\ item.msg # Marker
      /\ Partial(item.msg) \in Message /\ Partial(item.msg) # Marker
  BY <1>1, ItemIs, PartialIs
<1>3. Shows(k, s, at) <=> item.sort \notin {"bad", "long"}
  BY <1>1 DEF Shows
<1>4. d.table \in {"whole", "claimed", "partial"} /\ d.out \in Seq(OutRecords)
  BY DirIs
<1>5. ASSUME NEW from \in Int, from <= at, d.table = "partial" => FailedBy(k, s, from, at - 1)
      PROVE  d.table = "partial" => FailedBy(k, s, from, at)
  BY <1>2, <1>5 DEF FailedBy
<1>6. CASE item.sort = "long"
  <2>1. e = d
    BY <1>1, <1>6 DEF Take
  <2>2. ASSUME NEW from \in Int, Exact(k, s, from, d)
        PROVE  /\ e.table # "claimed"
               /\ e.table = "partial" => FailedBy(k, s, from, d.lo)
               /\ Told(k, s, from, d.lo, e.out)
    <3>1. Told(k, s, from, at, e.out)
      BY <1>1, <1>2, <1>3, <1>6, <2>1, <2>2, ToldHidden DEF Exact
    <3> QED
      BY <1>1, <1>5, <2>1, <2>2, <3>1 DEF Exact
  <2> QED
    BY <2>1, <2>2 DEF SamePlace
<1>7. CASE item.sort = "bad" \/ (item.sort = "ref" /\ d.table = "claimed")
  <2>1. e = Fail(d)
    BY <1>1, <1>7 DEF Take
  <2>2. ASSUME NEW from \in Int, Exact(k, s, from, d)
        PROVE  /\ e.table # "claimed"
               /\ e.table = "partial" => FailedBy(k, s, from, d.lo)
               /\ Told(k, s, from, d.lo, e.out)
    <3>1. item.sort = "bad"
      BY <1>7, <2>2 DEF Exact
    <3>2. FailedBy(k, s, from, at)
      BY <1>1, <1>2, <2>2, <3>1 DEF Exact, FailedBy
    <3>3. Told(k, s, from, at, d.out)
      BY <1>1, <1>2, <1>3, <2>2, <3>1, ToldHidden DEF Exact
    <3> QED
      BY <1>1, <2>1, <3>2, <3>3, FailIs
  <2> QED
    BY <2>1, <2>2, FailIs
<1>8. CASE /\ item.sort \notin {"bad", "long"}
           /\ item.sort = "ref" => d.table = "whole"
  <2>0. PICK m \in Message : m = item.msg /\ m # Marker
    BY <1>2
  <2>1. e = Emit(d, m, ts)
    BY <1>1, <1>4, <1>8, <2>0 DEF Take
  <2>2. ASSUME NEW from \in Int, Exact(k, s, from, d)
        PROVE  /\ e.table # "claimed"
               /\ e.table = "partial" => FailedBy(k, s, from, d.lo)
               /\ Told(k, s, from, d.lo, e.out)
    <3>1. PICK x \in OutRecords : x.msg = m /\ e.out = Append(d.out, x)
      <4>1. d \in DirRecords /\ ts \in Nat /\ m \in Message /\ e = Emit(d, m, ts)
        BY <1>1, <2>0, <2>1
      <4>2. Emitted(d, m, e)
        BY <4>1, EmitIs
      <4> QED
        BY <4>2 DEF Emitted
    <3>2. Told(k, s, from, at, e.out)
      <4>1. Told(k, s, from, at - 1, d.out) /\ from <= at /\ at \in Int
        BY <1>1, <1>2, <2>2 DEF Exact
      <4>2. Shows(k, s, at) /\ x.msg # Marker /\ x.msg = Item(k, s, at).msg
        BY <1>1, <1>3, <1>8, <2>0, <3>1
      <4>3. Told(k, s, from, at, Append(d.out, x))
        BY <1>4, <4>1, <4>2, ToldShown
      <4> QED
        BY <3>1, <4>3
    <3>3. e.table = d.table
      BY <2>1, EmitIs
    <3> QED
      BY <1>1, <1>5, <2>2, <3>2, <3>3 DEF Exact
  <2> QED
    BY <1>1, <2>0, <2>1, <2>2, EmitIs
<1>9. CASE item.sort = "ref" /\ d.table = "partial"
  <2>0. PICK m \in Message : m = Partial(item.msg) /\ m # Marker
    BY <1>2
  <2>1. e = Emit(d, m, ts)
    BY <1>1, <1>9, <2>0 DEF Take
  <2>2. ASSUME NEW from \in Int, Exact(k, s, from, d)
        PROVE  /\ e.table # "claimed"
               /\ e.table = "partial" => FailedBy(k, s, from, d.lo)
               /\ Told(k, s, from, d.lo, e.out)
    <3>1. PICK x \in OutRecords : x.msg = m /\ e.out = Append(d.out, x)
      <4>1. d \in DirRecords /\ ts \in Nat /\ m \in Message /\ e = Emit(d, m, ts)
        BY <1>1, <2>0, <2>1
      <4>2. Emitted(d, m, e)
        BY <4>1, EmitIs
      <4> QED
        BY <4>2 DEF Emitted
    <3>2. FailedBy(k, s, from, at)
      BY <1>1, <1>5, <1>9, <2>2 DEF Exact
    <3>3. Told(k, s, from, at, e.out)
      BY <1>1, <1>2, <1>3, <1>4, <1>9, <2>0, <2>2, <3>1, <3>2, ToldShown DEF Exact
    <3>4. e.table = d.table
      BY <2>1, EmitIs
    <3> QED
      BY <1>1, <2>2, <3>2, <3>3, <3>4 DEF Exact
  <2> QED
    BY <1>1, <2>0, <2>1, <2>2, EmitIs
<1> QED
  BY <1>2, <1>4, <1>6, <1>7, <1>8, <1>9 DEF Sorts

LEMMA ParseFrameIs ==
  ASSUME NEW k \in Keys, NEW s \in Sides, NEW d, DirTrue(k, s, d), NEW ts \in Nat,
         d.lo < d.hi, NEW e, e = ParseFrame(d, k, s, ts)
  PROVE  /\ DirTrue(k, s, e) /\ SamePlace(d, e) /\ e.lo = d.lo + 1
         /\ \A from \in Int : Exact(k, s, from, d) => Exact(k, s, from, e)
<1>1. d \in DirRecords /\ d.lo \in Nat /\ d.hi \in Nat
  BY DirIs DEF DirTrue
<1>2. d.lo \in Places(k, s)
  BY <1>1 DEF DirTrue
<1>3. PICK f : f = Take(d, Item(k, s, d.lo), ts)
  OBVIOUS
<1>4. /\ f \in DirRecords /\ SamePlace(d, f) /\ f.lo = d.lo
  BY <1>1, <1>2, <1>3, TakeIs
<1>5. e = [f EXCEPT !.lo = d.lo + 1]
  BY <1>3, <1>4 DEF ParseFrame
<1>6. e \in DirRecords /\ e.lo = d.lo + 1 /\ e.table = f.table /\ e.out = f.out /\ e.hi = d.hi
  BY <1>1, <1>4, <1>5, DirIs DEF DirRecords, SamePlace
<1>7. SamePlace(d, e)
  BY <1>4, <1>5, DirIs DEF SamePlace
<1>8. DirTrue(k, s, e)
  BY <1>1, <1>6 DEF DirTrue
<1>9. ASSUME NEW from \in Int, Exact(k, s, from, d) PROVE Exact(k, s, from, e)
  <2>1. /\ f.table # "claimed"
        /\ f.table = "partial" => FailedBy(k, s, from, d.lo)
        /\ Told(k, s, from, d.lo, f.out)
    BY <1>1, <1>2, <1>3, <1>9, TakeIs
  <2>2. from <= d.lo
    BY <1>9 DEF Exact
  <2>3. e.lo - 1 = d.lo /\ from <= e.lo
    BY <1>1, <1>6, <2>2
  <2> QED
    BY <1>6, <2>1, <2>3 DEF Exact
<1> QED
  BY <1>6, <1>7, <1>8, <1>9

(* f has what becomes of d, frame by frame.                                *)
Parsing(f, n, d, k, s, ts) ==
  f = [i \in 0..n |-> IF i = 0 THEN d ELSE ParseFrame(f[i-1], k, s, ts)]

LEMMA ParsingExists ==
  ASSUME NEW d, NEW k, NEW s, NEW ts, NEW n \in Nat
  PROVE  \E f : Parsing(f, n, d, k, s, ts)
<1> DEFINE B == {i \in Nat : ~ \E f : Parsing(f, i, d, k, s, ts)}
<1>1. ASSUME B # {} PROVE FALSE
  <2>1. PICK i \in B : \A j \in B : i <= j
    <3>1. B \in SUBSET Nat
      OBVIOUS
    <3> HIDE DEF B
    <3> QED
      BY <1>1, <3>1, Least
  <2>2. i \in Nat
    OBVIOUS
  <2>3. CASE i = 0
    <3> DEFINE f == [j \in 0..0 |-> d]
    <3>1. f = [j \in 0..0 |-> IF j = 0 THEN d ELSE ParseFrame(f[j-1], k, s, ts)]
      OBVIOUS
    <3>2. Parsing(f, i, d, k, s, ts)
      BY <2>3, <3>1 DEF Parsing
    <3> QED
      BY <3>2
  <2>4. CASE i # 0
    <3>1. i - 1 \in Nat /\ i - 1 \notin B
      BY <2>1, <2>2, <2>4
    <3>2. PICK g : Parsing(g, i - 1, d, k, s, ts)
      BY <3>1
    <3>3. \A j \in 0..(i - 1) : g[j] = IF j = 0 THEN d ELSE ParseFrame(g[j-1], k, s, ts)
      BY <3>2 DEF Parsing
    <3> DEFINE f == [j \in 0..i |-> IF j = i THEN ParseFrame(g[i-1], k, s, ts) ELSE g[j]]
    <3>4. \A j \in 0..(i - 1) : f[j] = g[j]
      BY <2>2
    <3>5. ASSUME NEW j \in 0..i
          PROVE  f[j] = IF j = 0 THEN d ELSE ParseFrame(f[j-1], k, s, ts)
      <4>1. CASE j = i
        <5>1. f[j] = ParseFrame(g[i-1], k, s, ts)
          BY <4>1
        <5>2. f[i-1] = g[i-1]
          BY <2>2, <3>1, <3>4
        <5> QED
          BY <2>4, <4>1, <5>1, <5>2
      <4>2. CASE j # i
        <5>1. f[j] = g[j] /\ j \in 0..(i - 1)
          BY <2>2, <3>4, <4>2
        <5>2. j # 0 => f[j-1] = g[j-1]
          BY <2>2, <3>4, <5>1
        <5> HIDE DEF f
        <5> QED
          BY <3>3, <5>1, <5>2
      <4> QED
        BY <4>1, <4>2
    <3>6. f = [j \in 0..i |-> f[j]]
      OBVIOUS
    <3> HIDE DEF f
    <3>7. Parsing(f, i, d, k, s, ts)
      BY <3>5, <3>6 DEF Parsing
    <3> QED
      BY <3>7
  <2> QED
    BY <2>3, <2>4
<1> QED
  BY <1>1

LEMMA ParseFramesIs ==
  ASSUME NEW k \in Keys, NEW s \in Sides, NEW d, DirTrue(k, s, d), NEW ts \in Nat,
         NEW e, e = ParseFrames(d, k, s, ts)
  PROVE  /\ DirTrue(k, s, e) /\ SamePlace(d, e) /\ e.lo = d.hi
         /\ \A from \in Int : Exact(k, s, from, d) => Exact(k, s, from, e)
<1> DEFINE Good(c, i) == /\ DirTrue(k, s, c) /\ SamePlace(d, c) /\ c.lo = d.lo + i
                         /\ \A from \in Int : Exact(k, s, from, d) => Exact(k, s, from, c)
<1>1. d \in DirRecords /\ d.lo \in Nat /\ d.hi \in Nat /\ d.lo <= d.hi
  BY DirIs DEF DirTrue
<1>2. PICK n \in Nat : n = d.hi - d.lo
  BY <1>1
<1>3. \E f : Parsing(f, n, d, k, s, ts)
  BY ParsingExists
<1>4. PICK f : Parsing(f, n, d, k, s, ts) /\ e = f[n]
  <2>1. PICK f : /\ f = CHOOSE g : g = [i \in 0..n |-> IF i = 0 THEN d
                                                       ELSE ParseFrame(g[i-1], k, s, ts)]
    OBVIOUS
  <2>2. Parsing(f, n, d, k, s, ts)
    BY <1>3, <2>1 DEF Parsing
  <2>3. e = f[n]
    BY <1>2, <2>1 DEF ParseFrames
  <2> QED
    BY <2>2, <2>3
<1>5. \A i \in 0..n : f[i] = IF i = 0 THEN d ELSE ParseFrame(f[i-1], k, s, ts)
  BY <1>4 DEF Parsing
<1>6. Good(f[0], 0)
  <2>1. f[0] = d
    BY <1>2, <1>5
  <2> QED
    BY <1>1, <2>1 DEF SamePlace
<1>7. ASSUME NEW i \in Nat, i < n, Good(f[i], i) PROVE Good(f[i+1], i + 1)
  <2>1. PICK c, x : c = f[i] /\ x = f[i+1]
    OBVIOUS
  <2>2. x = ParseFrame(c, k, s, ts)
    BY <1>5, <1>7, <2>1
  <2>3. DirTrue(k, s, c) /\ SamePlace(d, c) /\ c.lo = d.lo + i
    BY <1>7, <2>1
  <2>4. c.lo < c.hi
    BY <1>1, <1>2, <1>7, <2>3 DEF SamePlace
  <2>5. /\ DirTrue(k, s, x) /\ SamePlace(c, x) /\ x.lo = c.lo + 1
        /\ \A from \in Int : Exact(k, s, from, c) => Exact(k, s, from, x)
    BY <2>2, <2>3, <2>4, ParseFrameIs
  <2>6. SamePlace(d, x) /\ x.lo = d.lo + (i + 1)
    BY <1>1, <2>3, <2>5 DEF SamePlace
  <2>7. ASSUME NEW from \in Int, Exact(k, s, from, d) PROVE Exact(k, s, from, x)
    BY <1>7, <2>1, <2>5, <2>7
  <2> QED
    BY <2>1, <2>5, <2>6, <2>7
<1>8. Good(f[n], n)
  <2> DEFINE B == {i \in Nat : i <= n /\ ~Good(f[i], i)}
  <2>1. ASSUME B # {} PROVE FALSE
    <3> HIDE DEF Good
    <3>1. PICK i \in B : \A j \in B : i <= j
      <4>1. B \in SUBSET Nat
        OBVIOUS
      <4> HIDE DEF B
      <4> QED
        BY <2>1, <4>1, Least
    <3>2. i # 0
      BY <1>6
    <3>3. i - 1 \in Nat /\ i - 1 < n /\ i - 1 \notin B
      BY <1>2, <3>1, <3>2
    <3>4. Good(f[i-1], i - 1)
      BY <3>3
    <3>5. Good(f[(i - 1) + 1], (i - 1) + 1)
      BY <1>7, <3>3, <3>4
    <3>6. (i - 1) + 1 = i
      OBVIOUS
    <3> QED
      BY <3>5, <3>6
  <2> QED
    BY <1>2, <2>1
<1>9. d.lo + n = d.hi
  BY <1>1, <1>2
<1> QED
  BY <1>4, <1>8, <1>9

LEMMA DirTrueIs ==
  ASSUME NEW k, NEW s, NEW d, DirTrue(k, s, d)
  PROVE  /\ d \in DirRecords /\ d.lo \in Nat /\ d.hi \in Nat /\ d.lo <= d.hi
         /\ d.pending \in Int /\ d.begun \in BOOLEAN /\ d.desynced \in BOOLEAN
         /\ d.table \in {"whole", "claimed", "partial"} /\ d.decode_errors \in Nat
BY DirIs DEF DirTrue

LEMMA StartIs ==
  ASSUME NEW k, NEW s, NEW d, DirTrue(k, s, d), NEW at \in Nat, NEW e, e = StartAt(d, at)
  PROVE  /\ DirTrue(k, s, e) /\ e.begun /\ e.lo = at /\ e.hi = at
         /\ e.table = d.table /\ e.pending = d.pending /\ e.desynced = d.desynced
         /\ e.out = d.out /\ e.decode_errors = d.decode_errors /\ e.seeded = d.seeded
<1>1. d \in DirRecords
  BY DirTrueIs
<1>2. e = [d EXCEPT !.begun = TRUE, !.lo = at, !.hi = at]
  BY DEF StartAt
<1>3. e \in DirRecords
  BY <1>1, <1>2, DirIs DEF DirRecords
<1>4. /\ e.begun /\ e.lo = at /\ e.hi = at
      /\ e.table = d.table /\ e.pending = d.pending /\ e.desynced = d.desynced
      /\ e.out = d.out /\ e.decode_errors = d.decode_errors /\ e.seeded = d.seeded
  BY <1>1, <1>2, DirIs
<1>5. DirTrue(k, s, e)
  BY <1>3, <1>4 DEF DirTrue
<1> QED
  BY <1>4, <1>5

LEMMA PushIs ==
  ASSUME NEW k \in Keys, NEW s \in Sides, NEW d, DirTrue(k, s, d),
         NEW at \in Places(k, s), NEW e, e = Push(d, at)
  PROVE  /\ DirTrue(k, s, e) /\ e.begun
         /\ e.pending = d.pending /\ e.desynced = d.desynced
         /\ e.out = d.out /\ e.decode_errors = d.decode_errors /\ e.seeded = d.seeded
         /\ d.begun => /\ e.lo = d.lo /\ e.table = d.table
                       /\ e.hi = IF at = d.hi THEN d.hi + 1 ELSE d.hi
         /\ ~d.begun => /\ e.lo = at /\ e.hi = at + 1
                        /\ d.pending # None \/ at % LifeSpan = 1 => e.table = d.table
<1>1. at \in Nat
  BY ItemIs
<1>2. PICK f, late :
        /\ f = IF d.begun THEN d ELSE StartAt(d, at)
        /\ late = (~d.begun /\ d.pending = None /\ at % LifeSpan # 1)
  OBVIOUS
<1>3. /\ DirTrue(k, s, f) /\ f.begun /\ f.pending = d.pending /\ f.desynced = d.desynced
      /\ f.out = d.out /\ f.decode_errors = d.decode_errors /\ f.seeded = d.seeded
      /\ f.table = d.table
      /\ d.begun => f.lo = d.lo /\ f.hi = d.hi
      /\ ~d.begun => f.lo = at /\ f.hi = at
  <2>1. CASE d.begun
    BY <1>2, <2>1
  <2>2. CASE ~d.begun
    <3>1. f = StartAt(d, at)
      BY <1>2, <2>2
    <3> QED
      BY <1>1, <2>2, <3>1, StartIs
  <2> QED
    BY <2>1, <2>2
<1>4. PICK h, t : /\ h = IF at = f.hi THEN f.hi + 1 ELSE f.hi
                  /\ t = IF late /\ f.table = "whole" THEN "claimed" ELSE f.table
  OBVIOUS
<1>5. e = [f EXCEPT !.hi = h, !.table = t]
  BY <1>2, <1>4 DEF Push
<1>6. f \in DirRecords /\ f.lo \in Nat /\ f.hi \in Nat /\ f.lo <= f.hi
  BY <1>3, DirTrueIs
<1>7. h \in Nat /\ t \in {"whole", "claimed", "partial"} /\ f.lo <= h
  BY <1>4, <1>6, DirIs
<1>8. e \in DirRecords
  BY <1>5, <1>6, <1>7, DirIs DEF DirRecords
<1>9. /\ e.hi = h /\ e.table = t /\ e.lo = f.lo /\ e.begun = f.begun
      /\ e.pending = f.pending /\ e.desynced = f.desynced
      /\ e.out = f.out /\ e.decode_errors = f.decode_errors /\ e.seeded = f.seeded
  BY <1>5, <1>6, DirIs
<1>10. DirTrue(k, s, e)
  <2>1. ASSUME NEW x \in e.lo..(e.hi - 1) PROVE x \in Places(k, s)
    <3>1. CASE x = at
      BY <3>1
    <3>2. CASE x # at
      <4>1. x \in f.lo..(f.hi - 1)
        BY <1>4, <1>6, <1>9, <3>2
      <4> QED
        BY <1>3, <4>1 DEF DirTrue
    <3> QED
      BY <3>1, <3>2
  <2> QED
    BY <1>7, <1>8, <1>9, <2>1 DEF DirTrue
<1>11. d.begun => /\ e.lo = d.lo /\ e.table = d.table
                  /\ e.hi = IF at = d.hi THEN d.hi + 1 ELSE d.hi
  BY <1>2, <1>3, <1>4, <1>9
<1>12. ~d.begun => /\ e.lo = at /\ e.hi = at + 1
                   /\ d.pending # None \/ at % LifeSpan = 1 => e.table = d.table
  BY <1>2, <1>3, <1>4, <1>9
<1> QED
  BY <1>3, <1>9, <1>10, <1>11, <1>12

(* e is d when it has looked for its first frame.                          *)
Sought(k, s, d, e) ==
  /\ DirTrue(k, s, e) /\ e.begun = d.begun /\ e.hi = d.hi /\ e.seeded = d.seeded
  /\ d.pending >= d.lo =>
       /\ e.desynced = d.desynced /\ e.table = d.table /\ e.out = d.out
       /\ e.decode_errors = d.decode_errors
       /\ d.pending > d.hi => e.lo = d.hi /\ e.pending = d.pending
       /\ d.pending <= d.hi => e.lo = d.pending /\ e.pending = None

LEMMA SeekIs ==
  ASSUME NEW k, NEW s, NEW d, DirTrue(k, s, d), d.pending # None, NEW e, e = Seek(d)
  PROVE  Sought(k, s, d, e)
<1>1. d \in DirRecords /\ d.lo \in Nat /\ d.hi \in Nat /\ d.lo <= d.hi /\ d.pending \in Int
  BY DirTrueIs
<1>2. CASE d.pending < d.lo
  <2>1. e = [d EXCEPT !.pending = None, !.misaligned = TRUE, !.table = "partial",
                      !.desynced = TRUE]
    BY <1>2 DEF Seek
  <2>2. e \in DirRecords
    <3>1. None \in Int
      BY DEF None
    <3> QED
      BY <1>1, <2>1, <3>1, DirIs DEF DirRecords
  <2>3. e.lo = d.lo /\ e.hi = d.hi /\ e.begun = d.begun /\ e.seeded = d.seeded
    BY <1>1, <2>1, DirIs
  <2>4. DirTrue(k, s, e)
    BY <2>2, <2>3 DEF DirTrue
  <2> QED
    BY <1>1, <1>2, <2>3, <2>4 DEF Sought
<1>3. CASE d.pending > d.hi
  <2>1. PICK h : h = d.hi
    OBVIOUS
  <2>2. e = [d EXCEPT !.lo = h]
    BY <1>1, <1>3, <2>1 DEF Seek
  <2>3. e \in DirRecords
    BY <1>1, <2>1, <2>2, DirIs DEF DirRecords
  <2>4. /\ e.lo = d.hi /\ e.hi = d.hi /\ e.begun = d.begun /\ e.desynced = d.desynced
        /\ e.table = d.table /\ e.out = d.out /\ e.decode_errors = d.decode_errors
        /\ e.pending = d.pending /\ e.seeded = d.seeded
    BY <1>1, <2>1, <2>2, DirIs
  <2>5. DirTrue(k, s, e)
    BY <1>1, <2>3, <2>4 DEF DirTrue
  <2> QED
    BY <1>1, <1>3, <2>4, <2>5 DEF Sought
<1>4. CASE d.lo <= d.pending /\ d.pending <= d.hi
  <2>1. PICK h : h = d.pending
    OBVIOUS
  <2>2. e = [d EXCEPT !.pending = None, !.lo = h]
    BY <1>1, <1>4, <2>1 DEF Seek
  <2>3. h \in Nat
    BY <1>1, <1>4, <2>1
  <2>4. e \in DirRecords
    <3>1. None \in Int
      BY DEF None
    <3> QED
      BY <1>1, <2>2, <2>3, <3>1, DirIs DEF DirRecords
  <2>5. /\ e.lo = d.pending /\ e.hi = d.hi /\ e.begun = d.begun /\ e.desynced = d.desynced
        /\ e.table = d.table /\ e.out = d.out /\ e.decode_errors = d.decode_errors
        /\ e.pending = None /\ e.seeded = d.seeded
    BY <1>1, <2>1, <2>2, DirIs
  <2>6. DirTrue(k, s, e)
    <3>1. \A x \in e.lo..(e.hi - 1) : x \in d.lo..(d.hi - 1)
      BY <1>1, <1>4, <2>5
    <3> QED
      BY <1>1, <1>4, <2>4, <2>5, <3>1 DEF DirTrue
  <2> QED
    BY <1>1, <1>4, <2>5, <2>6 DEF Sought
<1> QED
  BY <1>1, <1>2, <1>3, <1>4

(* What parse() comes to, whatever it is given.                            *)
LEMMA ParsedIs ==
  ASSUME NEW k \in Keys, NEW s \in Sides, NEW d, DirTrue(k, s, d), NEW ts \in Nat,
         NEW x \in Parsed(d, k, s, ts)
  PROVE  /\ DirTrue(k, s, x) /\ x.begun = d.begun /\ x.hi = d.hi /\ x.seeded = d.seeded
<1>1. PICK e : e = IF d.pending = None THEN d ELSE Seek(d)
  OBVIOUS
<1>2. DirTrue(k, s, e) /\ e.begun = d.begun /\ e.hi = d.hi /\ e.seeded = d.seeded
  <2>1. CASE d.pending = None
    BY <1>1, <2>1
  <2>2. CASE d.pending # None
    <3>1. Sought(k, s, d, e)
      BY <1>1, <2>2, SeekIs
    <3> QED
      BY <3>1 DEF Sought
  <2> QED
    BY <2>1, <2>2
<1>3. PICK f : f = [e EXCEPT !.desynced = FALSE]
  OBVIOUS
<1>4. DirTrue(k, s, f) /\ f.begun = e.begun /\ f.hi = e.hi /\ f.seeded = e.seeded
  <2>1. e \in DirRecords
    BY <1>2, DirTrueIs
  <2>2. f \in DirRecords
    BY <1>3, <2>1, DirIs DEF DirRecords
  <2>3. f.lo = e.lo /\ f.hi = e.hi /\ f.begun = e.begun /\ f.seeded = e.seeded
    BY <1>3, <2>1, DirIs
  <2> QED
    BY <1>2, <2>2, <2>3 DEF DirTrue
<1>5. x = e \/ x = ParseFrames(f, k, s, ts)
  BY <1>1, <1>3 DEF Parsed
<1>6. ASSUME x = ParseFrames(f, k, s, ts)
      PROVE  DirTrue(k, s, x) /\ x.begun = f.begun /\ x.hi = f.hi /\ x.seeded = f.seeded
  BY <1>4, <1>6, ParseFramesIs DEF SamePlace
<1> QED
  BY <1>2, <1>4, <1>5, <1>6

(* What it comes to in a direction that is in step.                        *)
InStep(k, s, from, d, x) ==
  /\ x.lo = x.hi /\ x.hi = d.hi /\ ~x.desynced /\ x.pending = None
  /\ x.begun = d.begun /\ Exact(k, s, from, x)

LEMMA ParsedInStep ==
  ASSUME NEW k \in Keys, NEW s \in Sides, NEW d, DirTrue(k, s, d), NEW ts \in Nat,
         NEW x \in Parsed(d, k, s, ts), ~d.desynced, d.pending = None,
         NEW from \in Int, Exact(k, s, from, d)
  PROVE  InStep(k, s, from, d, x)
<1>1. d \in DirRecords
  BY DirTrueIs
<1>2. [d EXCEPT !.desynced = FALSE] = d
  <2>1. d.desynced = FALSE
    BY <1>1, DirIs
  <2> QED
    BY <1>1, <2>1 DEF DirRecords
<1>3. x = ParseFrames(d, k, s, ts)
  BY <1>2 DEF Parsed
<1>4. /\ SamePlace(d, x) /\ x.lo = d.hi /\ Exact(k, s, from, x)
  BY <1>3, ParseFramesIs
<1> QED
  BY <1>4 DEF SamePlace, InStep

LEMMA ReceivedStep ==
  ASSUME NEW first \in Nat, NEW from \in Int, NEW S, S \subseteq Nat, NEW hi \in Nat,
         Received(first, from, S, hi), NEW at \in Nat, first <= at, \A y \in S : y < at
  PROVE  Received(first, from, S \cup {at}, IF at = hi THEN hi + 1 ELSE hi)
<1>1. PICK base \in Nat :
        /\ base \in S \/ (base = from /\ base = first)
        /\ base <= from /\ base <= hi
        /\ \A y \in S : base <= y
        /\ base..(hi - 1) \subseteq S /\ hi \notin S
  BY DEF Received
<1>2. base <= at
  BY <1>1
<1>3. CASE at = hi
  <2>1. hi + 1 \notin S \cup {at}
    BY <1>3
  <2>2. base..((hi + 1) - 1) \subseteq S \cup {at}
    BY <1>1, <1>3
  <2>3. /\ base \in S \cup {at} \/ (base = from /\ base = first)
        /\ base <= from /\ base <= hi + 1
        /\ \A y \in S \cup {at} : base <= y
    BY <1>1, <1>2
  <2>4. Received(first, from, S \cup {at}, hi + 1)
    BY <2>1, <2>2, <2>3 DEF Received
  <2> QED
    BY <1>3, <2>4
<1>4. CASE at # hi
  <2>1. /\ hi \notin S \cup {at}
        /\ base..(hi - 1) \subseteq S \cup {at}
        /\ base \in S \cup {at} \/ (base = from /\ base = first)
        /\ base <= from /\ base <= hi
        /\ \A y \in S \cup {at} : base <= y
    BY <1>1, <1>2, <1>4
  <2>2. Received(first, from, S \cup {at}, hi)
    BY <2>1 DEF Received
  <2> QED
    BY <1>4, <2>2
<1> QED
  BY <1>3, <1>4

LEMMA KnownIfExact ==
  ASSUME NEW k, NEW s, NEW first, NEW from \in Int, NEW S, NEW d, d.hi \in Nat,
         d.begun, ~d.desynced, d.lo = d.hi, d.pending = None,
         Received(first, from, S, d.hi), Exact(k, s, from, d)
  PROVE  KnownDir(k, s, first, from, S, d)
BY DEF KnownDir, Exact

(* A seeded direction comes to its first frame, or waits for it.           *)
Came(k, s, from, d, x) ==
  /\ x.begun = d.begun /\ ~x.desynced /\ x.lo = d.hi /\ x.hi = d.hi
  /\ from > d.hi => /\ x.pending = from /\ x.table = "whole"
                    /\ x.out = <<>> /\ x.decode_errors = 0
  /\ from <= d.hi => x.pending = None /\ Exact(k, s, from, x)

LEMMA SeekStep ==
  ASSUME NEW k \in Keys, NEW s \in Sides, NEW d, DirTrue(k, s, d), NEW ts \in Nat,
         NEW x \in Parsed(d, k, s, ts), d.pending # None, d.lo <= d.pending,
         ~d.desynced, d.table = "whole", d.out = <<>>, d.decode_errors = 0
  PROVE  Came(k, s, d.pending, d, x)
<1>1. PICK e : e = Seek(d)
  OBVIOUS
<1>2. d.pending \in Int /\ d.hi \in Nat /\ d.lo \in Nat
  BY DirTrueIs
<1>3. /\ DirTrue(k, s, e) /\ e.begun = d.begun /\ e.hi = d.hi
      /\ e.desynced = d.desynced /\ e.table = d.table /\ e.out = d.out
      /\ e.decode_errors = d.decode_errors
      /\ d.pending > d.hi => e.lo = d.hi /\ e.pending = d.pending
      /\ d.pending <= d.hi => e.lo = d.pending /\ e.pending = None
  <2>1. Sought(k, s, d, e)
    BY <1>1, SeekIs
  <2> QED
    BY <1>2, <2>1 DEF Sought
<1>4. CASE d.pending > d.hi
  <2>1. x = e
    BY <1>1, <1>3, <1>4 DEF Parsed
  <2> QED
    BY <1>2, <1>3, <1>4, <2>1 DEF Came
<1>5. CASE d.pending <= d.hi
  <2>1. x \in Parsed(e, k, s, ts)
    BY <1>1, <1>3, <1>5 DEF Parsed
  <2>2. Told(k, s, d.pending, d.pending - 1, <<>>)
    BY <1>2, ToldNothing
  <2>3. Exact(k, s, d.pending, e)
    BY <1>2, <1>3, <1>5, <2>2 DEF Exact
  <2>4. ~e.desynced /\ e.pending = None
    BY <1>3, <1>5
  <2>5. InStep(k, s, d.pending, e, x)
    BY <1>2, <1>3, <2>1, <2>3, <2>4, ParsedInStep
  <2> QED
    BY <1>2, <1>3, <1>5, <2>5 DEF InStep, Came
<1> QED
  BY <1>2, <1>4, <1>5

LEMMA KnownStep ==
  ASSUME NEW k \in Keys, NEW s \in Sides, NEW d, DirTrue(k, s, d), NEW ts \in Nat,
         NEW first \in Nat, NEW from \in Int, NEW S, S \subseteq Nat,
         KnownDir(k, s, first, from, S, d),
         NEW at \in Places(k, s), first <= at, \A y \in S : y < at,
         NEW x \in Parsed(Push(d, at), k, s, ts)
  PROVE  KnownDir(k, s, first, from, S \cup {at}, x)
<1>1. PICK e : e = Push(d, at) /\ x \in Parsed(e, k, s, ts)
  OBVIOUS
<1>2. at \in Nat /\ d.hi \in Nat /\ d.lo \in Nat /\ d.lo = d.hi /\ d.begun /\ ~d.desynced
  BY ItemIs, DirTrueIs DEF KnownDir
<1>3. /\ DirTrue(k, s, e) /\ e.begun /\ e.pending = d.pending /\ e.desynced = d.desynced
      /\ e.out = d.out /\ e.decode_errors = d.decode_errors
      /\ e.lo = d.lo /\ e.table = d.table
      /\ e.hi = IF at = d.hi THEN d.hi + 1 ELSE d.hi
  BY <1>1, <1>2, PushIs
<1>4. Received(first, from, S \cup {at}, e.hi)
  <2>1. Received(first, from, S, d.hi)
    BY DEF KnownDir
  <2> QED
    BY <1>2, <1>3, <2>1, ReceivedStep
<1>5. e.hi \in Nat
  BY <1>2, <1>3
<1>6. CASE d.pending = None
  <2>1. Exact(k, s, from, e)
    BY <1>2, <1>3, <1>6 DEF KnownDir, Exact
  <2>2. /\ x.lo = x.hi /\ x.hi = e.hi /\ ~x.desynced /\ x.pending = None
        /\ x.begun = e.begun /\ Exact(k, s, from, x)
    <3>1. x \in Parsed(e, k, s, ts) /\ DirTrue(k, s, e) /\ ~e.desynced /\ e.pending = None
      BY <1>1, <1>2, <1>3, <1>6
    <3>2. InStep(k, s, from, e, x)
      BY <2>1, <3>1, ParsedInStep
    <3> QED
      BY <3>2 DEF InStep
  <2> QED
    BY <1>3, <1>4, <1>5, <2>2, KnownIfExact
<1>7. CASE d.pending # None
  <2>1. d.pending = from /\ d.hi < from /\ d.table = "whole" /\ d.out = <<>> /\ d.decode_errors = 0
    BY <1>7 DEF KnownDir
  <2>2. e.pending = from /\ e.lo <= e.pending /\ e.hi <= from
    BY <1>2, <1>3, <2>1
  <2>3. /\ x.begun = e.begun /\ ~x.desynced /\ x.lo = e.hi /\ x.hi = e.hi
        /\ from > e.hi => /\ x.pending = from /\ x.table = "whole"
                          /\ x.out = <<>> /\ x.decode_errors = 0
        /\ from <= e.hi => x.pending = None /\ Exact(k, s, from, x)
    <3>1. /\ x \in Parsed(e, k, s, ts) /\ DirTrue(k, s, e) /\ e.pending # None
          /\ ~e.desynced /\ e.table = "whole" /\ e.out = <<>> /\ e.decode_errors = 0
      BY <1>1, <1>2, <1>3, <1>7, <2>1
    <3>2. Came(k, s, from, e, x)
      BY <2>2, <3>1, SeekStep
    <3> QED
      BY <3>2 DEF Came
  <2>4. CASE from > e.hi
    <3>1. from # None
      BY <1>7, <2>1
    <3> QED
      BY <1>3, <1>4, <1>5, <2>3, <2>4, <3>1 DEF KnownDir
  <2>5. CASE from <= e.hi
    BY <1>3, <1>4, <1>5, <2>3, <2>5, KnownIfExact
  <2> QED
    BY <1>5, <2>4, <2>5
<1> QED
  BY <1>6, <1>7

(* The first packet of a side that is known from its SYN.                  *)
LEMMA FirstStep ==
  ASSUME NEW k \in Keys, NEW s \in Sides, NEW d, DirTrue(k, s, d), NEW ts \in Nat,
         Fresh(d), ~d.desynced, d.table = "whole",
         NEW at \in Places(k, s), at % LifeSpan = 1, NEW x \in Parsed(Push(d, at), k, s, ts)
  PROVE  KnownDir(k, s, at, at, {at}, x)
<1>1. PICK e : e = Push(d, at) /\ x \in Parsed(e, k, s, ts)
  OBVIOUS
<1>2. at \in Nat
  BY ItemIs
<1>3. /\ DirTrue(k, s, e) /\ e.begun /\ e.pending = None /\ ~e.desynced
      /\ e.out = <<>> /\ e.lo = at /\ e.hi = at + 1 /\ e.table = "whole"
  BY <1>1, PushIs DEF Fresh
<1>4. Exact(k, s, at, e)
  <2>1. Told(k, s, at, at - 1, <<>>)
    BY <1>2, ToldNothing
  <2> QED
    BY <1>2, <1>3, <2>1 DEF Exact
<1>5. /\ x.lo = x.hi /\ x.hi = e.hi /\ ~x.desynced /\ x.pending = None
      /\ x.begun = e.begun /\ Exact(k, s, at, x)
  <2>1. x \in Parsed(e, k, s, ts)
    BY <1>1
  <2>2. InStep(k, s, at, e, x)
    BY <1>2, <1>3, <1>4, <2>1, ParsedInStep
  <2> QED
    BY <2>2 DEF InStep
<1>6. Received(at, at, {at}, at + 1)
  BY <1>2 DEF Received
<1>7. x.hi \in Nat /\ x.hi = at + 1 /\ x.begun
  BY <1>2, <1>3, <1>5
<1> QED
  BY <1>2, <1>5, <1>6, <1>7, KnownIfExact

(* The first packet of a side that is known from the snapshot.             *)
LEMMA SeededStep ==
  ASSUME NEW k \in Keys, NEW s \in Sides, NEW d, DirTrue(k, s, d), NEW ts \in Nat,
         ~d.begun, d.out = <<>>, d.decode_errors = 0, ~d.desynced, d.table = "whole",
         d.pending # None, NEW first, NEW at \in Places(k, s), at <= d.pending,
         NEW x \in Parsed(Push(d, at), k, s, ts)
  PROVE  KnownDir(k, s, first, d.pending, {at}, x)
<1>1. PICK e : e = Push(d, at) /\ x \in Parsed(e, k, s, ts)
  OBVIOUS
<1>2. at \in Nat /\ d.pending \in Int
  BY ItemIs, DirTrueIs
<1>3. /\ DirTrue(k, s, e) /\ e.begun /\ e.pending = d.pending /\ ~e.desynced
      /\ e.out = <<>> /\ e.decode_errors = 0 /\ e.lo = at /\ e.hi = at + 1 /\ e.table = "whole"
  BY <1>1, PushIs
<1>4. PICK from \in Int : from = d.pending /\ from # None
  BY <1>2
<1>5. /\ x.begun = e.begun /\ ~x.desynced /\ x.lo = e.hi /\ x.hi = e.hi
      /\ from > e.hi => /\ x.pending = from /\ x.table = "whole"
                        /\ x.out = <<>> /\ x.decode_errors = 0
      /\ from <= e.hi => x.pending = None /\ Exact(k, s, from, x)
  <2>1. x \in Parsed(e, k, s, ts) /\ e.pending # None /\ e.lo <= e.pending
    BY <1>1, <1>3
  <2>2. Came(k, s, from, e, x)
    BY <1>3, <1>4, <2>1, SeekStep
  <2> QED
    BY <2>2 DEF Came
<1>6. Received(first, from, {at}, at + 1)
  BY <1>2, <1>4 DEF Received
<1>7. CASE from > e.hi
  BY <1>2, <1>3, <1>4, <1>5, <1>6, <1>7 DEF KnownDir
<1>8. CASE from <= e.hi
  <2>1. x.hi \in Nat /\ x.hi = at + 1 /\ x.begun /\ ~x.desynced /\ x.lo = x.hi
    BY <1>2, <1>3, <1>5
  <2>2. x.pending = None /\ Exact(k, s, from, x)
    BY <1>5, <1>8
  <2>3. KnownDir(k, s, first, from, {at}, x)
    BY <1>6, <2>1, <2>2, KnownIfExact
  <2> QED
    BY <1>4, <2>3
<1> QED
  BY <1>2, <1>3, <1>4, <1>7, <1>8

-----------------------------------------------------------------------------
(* Connections.                                                            *)

(* e is d but for the flag that it was offered the snapshot.               *)
Offered(d, e) ==
  /\ e.begun = d.begun /\ e.lo = d.lo /\ e.hi = d.hi /\ e.out = d.out
  /\ e.decode_errors = d.decode_errors
  /\ e.desynced = d.desynced /\ e.table = d.table /\ e.pending = d.pending

TakesSeed(d, e, seed) ==
  /\ e.begun = d.begun /\ e.lo = d.lo /\ e.hi = d.hi /\ e.out = d.out
  /\ e.decode_errors = d.decode_errors
  /\ ~e.desynced /\ e.table = "whole" /\ e.pending = seed

LEMMA SeededIs ==
  ASSUME NEW k, NEW s, NEW c, NEW p, p.key = k, p.from = s,
         DirTrue(k, s, c.dirs[s]), seeds[k][s] \in Int,
         NEW e, e = Seeded(c, p)
  PROVE  /\ DirTrue(k, s, e) /\ e.seeded
         /\ c.dirs[s].seeded => e = c.dirs[s]
         /\ c.saw_syn \/ seeds[k][s] = None => Offered(c.dirs[s], e)
         /\ ~c.dirs[s].seeded /\ ~c.saw_syn /\ seeds[k][s] # None =>
              TakesSeed(c.dirs[s], e, seeds[k][s])
<1>1. PICK d, seed : d = c.dirs[s] /\ seed = seeds[k][s]
  OBVIOUS
<1>2. DirTrue(k, s, d) /\ d \in DirRecords /\ seed \in Int
  BY <1>1, DirTrueIs
<1>3. CASE d.seeded
  <2>1. e = d
    BY <1>1, <1>3 DEF Seeded
  <2> QED
    BY <1>1, <1>2, <1>3, <2>1 DEF Offered
<1>4. CASE ~d.seeded /\ (c.saw_syn \/ seed = None)
  <2>1. e = [d EXCEPT !.seeded = TRUE]
    BY <1>1, <1>4 DEF Seeded
  <2>2. e \in DirRecords
    BY <1>2, <2>1, DirIs DEF DirRecords
  <2>3. Offered(d, e) /\ e.lo = d.lo /\ e.hi = d.hi /\ e.seeded
    BY <1>2, <2>1, DirIs DEF Offered
  <2>4. DirTrue(k, s, e)
    BY <1>2, <2>2, <2>3 DEF DirTrue
  <2> QED
    BY <1>1, <1>4, <2>3, <2>4
<1>5. CASE ~d.seeded /\ ~c.saw_syn /\ seed # None
  <2>1. e = [d EXCEPT !.desynced = FALSE, !.table = "whole", !.pending = seed, !.seeded = TRUE]
    BY <1>1, <1>2, <1>5, DirIs DEF Seeded, Seed
  <2>2. e = [begun |-> d.begun, lo |-> d.lo, hi |-> d.hi, desynced |-> FALSE,
             table |-> "whole", pending |-> seed, misaligned |-> d.misaligned,
             decode_errors |-> d.decode_errors, seeded |-> TRUE, out |-> d.out]
    <3>1. d = [begun |-> d.begun, lo |-> d.lo, hi |-> d.hi, desynced |-> d.desynced,
               table |-> d.table, pending |-> d.pending, misaligned |-> d.misaligned,
               decode_errors |-> d.decode_errors, seeded |-> d.seeded, out |-> d.out]
      BY <1>2, DirIs
    <3> QED
      BY <2>1, <3>1
  <2>3. /\ e \in DirRecords
        /\ TakesSeed(d, e, seed) /\ e.lo = d.lo /\ e.hi = d.hi /\ e.seeded
    <3>1. e \in DirRecords
      BY <1>2, <2>2, DirIs DEF DirRecords
    <3>2. TakesSeed(d, e, seed) /\ e.lo = d.lo /\ e.hi = d.hi /\ e.seeded
      BY <2>2 DEF TakesSeed
    <3> QED
      BY <3>1, <3>2
  <2>4. DirTrue(k, s, e)
    BY <1>2, <2>2, <2>3 DEF DirTrue
  <2> QED
    BY <1>1, <1>5, <2>3, <2>4
<1> QED
  BY <1>3, <1>4, <1>5

LEMMA NewDirIs ==
  ASSUME NEW k, NEW s, NEW syn \in BOOLEAN, NEW d, d = NewDir(syn)
  PROVE  /\ DirTrue(k, s, d) /\ Fresh(d) /\ ~d.seeded
         /\ d.desynced = ~syn /\ (syn => d.table = "whole")
<1>1. d = [begun |-> FALSE, lo |-> 0, hi |-> 0, desynced |-> ~syn,
           table |-> IF syn THEN "whole" ELSE "partial", pending |-> None,
           misaligned |-> FALSE, decode_errors |-> 0, seeded |-> FALSE, out |-> <<>>]
  BY DEF NewDir
<1>2. <<>> \in Seq(OutRecords) /\ None \in Int
  BY DEF None
<1>3. d \in DirRecords
  BY <1>1, <1>2 DEF DirRecords
<1>4. DirTrue(k, s, d)
  BY <1>1, <1>3 DEF DirTrue
<1>5. Fresh(d)
  BY <1>1 DEF Fresh
<1> QED
  BY <1>1, <1>4, <1>5

(* What SETTINGS of the other side may do.                                 *)
LEMMA PeerIs ==
  ASSUME NEW k, NEW s, NEW d, DirTrue(k, s, d), NEW o \in PeerCapacity(d)
  PROVE  /\ DirTrue(k, s, o)
         /\ o.begun = d.begun /\ o.desynced = d.desynced /\ o.lo = d.lo /\ o.hi = d.hi
         /\ o.pending = d.pending /\ o.decode_errors = d.decode_errors /\ o.seeded = d.seeded
         /\ o.out = d.out
         /\ o.table = d.table \/ (d.table = "partial" /\ o.table = "whole")
<1>1. d \in DirRecords
  BY DirTrueIs
<1>2. CASE o = d
  BY <1>2
<1>3. CASE o # d
  <2>1. PICK t : t = IF d.table = "partial" THEN "whole" ELSE d.table
    OBVIOUS
  <2>2. o = [d EXCEPT !.table = t]
    BY <1>3, <2>1 DEF PeerCapacity
  <2>3. t \in {"whole", "claimed", "partial"}
    BY <1>1, <2>1, DirIs
  <2>4. o \in DirRecords
    BY <1>1, <2>2, <2>3, DirIs DEF DirRecords
  <2>5. /\ o.begun = d.begun /\ o.desynced = d.desynced /\ o.lo = d.lo /\ o.hi = d.hi
        /\ o.pending = d.pending /\ o.decode_errors = d.decode_errors /\ o.seeded = d.seeded
        /\ o.out = d.out /\ o.table = t
    BY <1>1, <2>2, DirIs
  <2>6. DirTrue(k, s, o)
    BY <2>4, <2>5 DEF DirTrue
  <2> QED
    BY <2>1, <2>5, <2>6
<1> QED
  BY <1>2, <1>3

LEMMA PeerKnown ==
  ASSUME NEW k, NEW s, NEW first, NEW from, NEW S, NEW d, DirTrue(k, s, d),
         NEW o \in PeerCapacity(d), KnownDir(k, s, first, from, S, d)
  PROVE  KnownDir(k, s, first, from, S, o)
<1>1. /\ o.begun = d.begun /\ o.desynced = d.desynced /\ o.lo = d.lo /\ o.hi = d.hi
      /\ o.pending = d.pending /\ o.decode_errors = d.decode_errors
      /\ o.out = d.out
      /\ o.table = d.table \/ (d.table = "partial" /\ o.table = "whole")
  BY PeerIs
<1> QED
  BY <1>1 DEF KnownDir

LEMMA PeerOpened ==
  ASSUME NEW k, NEW l, NEW G, NEW seed, NEW s, NEW d, DirTrue(k, s, d),
         NEW o \in PeerCapacity(d), OpenedSide(k, l, G, seed, s, d)
  PROVE  OpenedSide(k, l, G, seed, s, o)
<1>1. /\ o.begun = d.begun /\ o.desynced = d.desynced
      /\ o.pending = d.pending /\ o.decode_errors = d.decode_errors
      /\ o.out = d.out
      /\ o.table = d.table \/ (d.table = "partial" /\ o.table = "whole")
  BY PeerIs
<1>2. ASSUME NEW S, NEW first, NEW from, KnownDir(k, s, first, from, S, d)
      PROVE  KnownDir(k, s, first, from, S, o)
  BY <1>2, PeerKnown
<1>3. CASE d.begun
  BY <1>1, <1>2, <1>3 DEF OpenedSide
<1>4. CASE ~d.begun
  BY <1>1, <1>4 DEF OpenedSide, Fresh
<1> QED
  BY <1>3, <1>4

LEMMA PeerOld ==
  ASSUME NEW k, NEW l, NEW G, NEW seed, NEW s, NEW d, DirTrue(k, s, d),
         NEW o \in PeerCapacity(d), OldSide(k, l, G, seed, s, d)
  PROVE  OldSide(k, l, G, seed, s, o)
<1>1. /\ o.begun = d.begun /\ o.pending = d.pending /\ o.decode_errors = d.decode_errors
      /\ o.out = d.out /\ o.seeded = d.seeded
  BY PeerIs
<1>2. ASSUME NEW S, NEW first, NEW from, KnownDir(k, s, first, from, S, d)
      PROVE  KnownDir(k, s, first, from, S, o)
  BY <1>2, PeerKnown
<1>3. CASE SeenIn(G, s) = {}
  BY <1>1, <1>3 DEF OldSide, Fresh
<1>4. CASE SeenIn(G, s) # {}
  BY <1>1, <1>2, <1>4 DEF OldSide
<1> QED
  BY <1>3, <1>4

LEMMA MarkedOpened ==
  ASSUME NEW k, NEW l, NEW G, NEW seed, NEW s, NEW d \in DirRecords, NEW ts \in Nat, NEW n \in Nat,
         d.begun, OpenedSide(k, l, G, seed, s, d), d.decode_errors = 0 => n = 0
  PROVE  OpenedSide(k, l, G, seed, s, MarkFailures(d, ts, n))
<1>1. PICK e : e = MarkFailures(d, ts, n)
  OBVIOUS
<1>2. e.begun = d.begun
  BY <1>1, MarkedIs
<1>3. ASSUME NEW S, NEW first, NEW from, KnownDir(k, s, first, from, S, d)
      PROVE  KnownDir(k, s, first, from, S, e)
  <2>1. d.pending # None => n = 0
    BY <1>3 DEF KnownDir
  <2> QED
    BY <1>1, <1>3, <2>1, KnownMarked
<1>4. OpenedSide(k, l, G, seed, s, e)
  BY <1>2, <1>3 DEF OpenedSide
<1> QED
  BY <1>1, <1>4

LEMMA MarkedOld ==
  ASSUME NEW k, NEW l, NEW G, NEW seed, NEW s, NEW d \in DirRecords, NEW ts \in Nat, NEW n \in Nat,
         SeenIn(G, s) # {}, OldSide(k, l, G, seed, s, d), d.decode_errors = 0 => n = 0
  PROVE  OldSide(k, l, G, seed, s, MarkFailures(d, ts, n))
<1>1. PICK e : e = MarkFailures(d, ts, n)
  OBVIOUS
<1>2. e.begun = d.begun /\ e.seeded = d.seeded
  BY <1>1, MarkedIs
<1>3. ASSUME NEW S, NEW first, NEW from, KnownDir(k, s, first, from, S, d)
      PROVE  KnownDir(k, s, first, from, S, e)
  <2>1. d.pending # None => n = 0
    BY <1>3 DEF KnownDir
  <2> QED
    BY <1>1, <1>3, <2>1, KnownMarked
<1>4. OldSide(k, l, G, seed, s, e)
  BY <1>2, <1>3 DEF OldSide
<1> QED
  BY <1>1, <1>4

-----------------------------------------------------------------------------
(* Packets.                                                                *)

LEMMA SeenIs ==
  ASSUME NEW k \in Keys, NEW l, NEW se, NEW G, HostsTrue(k, l, se), GotTrue(l, se, G),
         NEW s \in Sides
  PROVE  /\ IsFiniteSet(SeenIn(G, s)) /\ SeenIn(G, s) \subseteq Nat
         /\ \A y \in SeenIn(G, s) : FirstOf(l) <= y /\ y <= LifeSpan * l + se[s]
         /\ FirstOf(l) \in Nat /\ FirstOf(l) > 0
         /\ SeenIn(G, s) # {} => se["server"] # None
<1>1. l \in DOMAIN Content[k] /\ se[s] \in Int
  BY DEF HostsTrue, None
<1>2. LifeSpan * l \in Nat /\ FirstOf(l) \in Nat /\ FirstOf(l) > 0
  BY <1>1, FirstIs
<1>3. ASSUME NEW y \in SeenIn(G, s)
      PROVE  y \in FirstOf(l)..(LifeSpan * l + se[s]) /\ se["server"] # None
  BY DEF SeenIn, GotTrue, PacketTrue
<1>4. IsFiniteSet(SeenIn(G, s))
  <2>1. PICK a \in Int, b \in Int : a = FirstOf(l) /\ b = LifeSpan * l + se[s]
    BY <1>1, <1>2
  <2>2. IsFiniteSet(a..b)
    BY FS_Interval
  <2>3. SeenIn(G, s) \subseteq a..b
    BY <1>3, <2>1
  <2> QED
    BY <2>2, <2>3, FS_Subset
<1> QED
  BY <1>1, <1>2, <1>3, <1>4

(* The packets with one more, of a host's data or not.                     *)
LEMMA GrownData ==
  ASSUME NEW G, NEW s \in Sides, NEW p, p.from = s, p.kind = "DATA", NEW H, H = G \cup {p}
  PROVE  SeenIn(H, s) = SeenIn(G, s) \cup {p.at}
BY DEF SeenIn

LEMMA GrownOther ==
  ASSUME NEW G, NEW s, NEW p, p.from = s, NEW H, H = G \cup {p}, NEW t, t # s
  PROVE  SeenIn(H, t) = SeenIn(G, t)
BY DEF SeenIn

LEMMA GrownSaw ==
  ASSUME NEW G, NEW p, p.kind = "DATA", NEW H, H = G \cup {p}, NEW kind, kind # "DATA"
  PROVE  SawIn(H, kind) <=> SawIn(G, kind)
BY DEF SawIn

LEMMA GrownSyn ==
  ASSUME NEW G, NEW p, p.kind # "DATA", NEW H, H = G \cup {p}
  PROVE  \A t \in Sides : SeenIn(H, t) = SeenIn(G, t)
BY DEF SeenIn

LEMMA OwnIs == \A s \in Sides : Own(s) \in {"SYN", "SYNACK"}
BY DEF Own

(* What is known of the side that sent nothing is as it was.               *)
LEMMA OthersAsBefore ==
  ASSUME NEW k, NEW l, NEW G, NEW H, NEW seed, NEW t \in Sides, NEW d,
         SeenIn(H, t) = SeenIn(G, t), SawIn(H, "SYN") <=> SawIn(G, "SYN"),
         SawIn(H, Own(t)) <=> SawIn(G, Own(t))
  PROVE  /\ KnownIn(l, H, seed, t) = KnownIn(l, G, seed, t)
         /\ OpenedSide(k, l, G, seed, t, d) => OpenedSide(k, l, H, seed, t, d)
         /\ OldSide(k, l, G, seed, t, d) => OldSide(k, l, H, seed, t, d)
<1>1. KnownIn(l, H, seed, t) = KnownIn(l, G, seed, t)
  BY DEF KnownIn
<1>2. OpenedSide(k, l, G, seed, t, d) => OpenedSide(k, l, H, seed, t, d)
  BY <1>1 DEF OpenedSide
<1>3. OldSide(k, l, G, seed, t, d) => OldSide(k, l, H, seed, t, d)
  BY <1>1 DEF OldSide
<1> QED
  BY <1>1, <1>2, <1>3

LEMMA SentIs ==
  ASSUME NEW k \in Keys, NEW l, NEW se, HostsTrue(k, l, se), NEW s \in Sides,
         se["server"] # None, se[s] < Len(Content[k][l][s]), NEW at, at = LifeSpan * l + (se[s] + 1)
  PROVE  /\ se[s] \in Nat /\ at \in Nat /\ at \in Places(k, s) /\ at >= FirstOf(l)
         /\ (at % LifeSpan = 1) <=> (at = FirstOf(l))
         /\ at = LifeSpan * l + se[s] + 1
<1>1. l \in DOMAIN Content[k] /\ se[s] \in Nat
  BY DEF HostsTrue, Sides, None
<1>2. LifeSpan * l \in Nat /\ FirstOf(l) = LifeSpan * l + 1
  BY <1>1, FirstIs
<1>3. se[s] + 1 \in 1..Len(Content[k][l][s])
  BY <1>1, ContentIs
<1>4. at \in Places(k, s) /\ at % LifeSpan = se[s] + 1
  BY <1>1, <1>3, PlaceIs
<1> QED
  BY <1>1, <1>2, <1>4

LEMMA FedIs ==
  ASSUME NEW k \in Keys, NEW s \in Sides, NEW d, DirTrue(k, s, d), NEW ts \in Nat,
         NEW at \in Places(k, s), NEW x \in Parsed(Push(d, at), k, s, ts)
  PROVE  DirTrue(k, s, x) /\ x.begun /\ x.seeded = d.seeded
<1>1. PICK e : e = Push(d, at) /\ x \in Parsed(e, k, s, ts)
  OBVIOUS
<1>2. DirTrue(k, s, e) /\ e.begun /\ e.seeded = d.seeded
  BY <1>1, PushIs
<1>3. DirTrue(k, s, x) /\ x.begun = e.begun /\ x.seeded = e.seeded
  <2>1. DirTrue(k, s, e) /\ x \in Parsed(e, k, s, ts)
    BY <1>1, <1>2
  <2> QED
    BY <2>1, ParsedIs
<1> QED
  BY <1>2, <1>3

LEMMA OpenedData ==
  ASSUME NEW k \in Keys, NEW l, NEW se, NEW G, NEW seed, HostsTrue(k, l, se), GotTrue(l, se, G),
         SawIn(G, "SYN"), NEW s \in Sides, NEW d, DirTrue(k, s, d),
         OpenedSide(k, l, G, seed, s, d), se["server"] # None, se[s] < Len(Content[k][l][s]),
         NEW p, p.from = s, p.kind = "DATA", p.at = LifeSpan * l + (se[s] + 1),
         NEW ts \in Nat, NEW x \in Parsed(Push(d, p.at), k, s, ts)
  PROVE  OpenedSide(k, l, G \cup {p}, seed, s, x)
<1>1. PICK H, at, S : H = G \cup {p} /\ at = p.at /\ S = SeenIn(G, s)
  OBVIOUS
<1>2. /\ SeenIn(H, s) = S \cup {at} /\ SawIn(H, "SYN")
      /\ SawIn(H, Own(s)) <=> SawIn(G, Own(s))
  <2>1. SeenIn(H, s) = S \cup {at}
    BY <1>1, GrownData
  <2>2. SawIn(H, "SYN")
    BY <1>1, GrownSaw
  <2>3. Own(s) # "DATA"
    BY OwnIs
  <2>4. SawIn(H, Own(s)) <=> SawIn(G, Own(s))
    BY <1>1, <2>3, GrownSaw
  <2> QED
    BY <2>1, <2>2, <2>4
<1>3. /\ at \in Nat /\ at \in Places(k, s) /\ at >= FirstOf(l)
      /\ (at % LifeSpan = 1) <=> (at = FirstOf(l))
      /\ at = LifeSpan * l + se[s] + 1 /\ se[s] \in Nat
  BY <1>1, SentIs
<1>4. /\ S \subseteq Nat /\ FirstOf(l) \in Nat /\ FirstOf(l) > 0
      /\ \A y \in S : FirstOf(l) <= y /\ y <= LifeSpan * l + se[s]
  BY <1>1, SeenIs
<1>5. \A y \in S : y < at
  <2>1. LifeSpan * l \in Nat
    BY FirstIs DEF HostsTrue
  <2> QED
    BY <1>3, <1>4, <2>1
<1>6. l > 0
  BY DEF SawIn, GotTrue, PacketTrue
<1>7. x.begun
  BY <1>1, <1>3, FedIs
<1>8. FirstOf(l) # None
  BY <1>4 DEF None
<1>9. CASE d.begun /\ KnownIn(l, G, seed, s) # None
  <2>1. KnownDir(k, s, FirstOf(l), FirstOf(l), S, d)
    BY <1>1, <1>9 DEF OpenedSide
  <2>2. x \in Parsed(Push(d, at), k, s, ts)
    BY <1>1
  <2>3. KnownDir(k, s, FirstOf(l), FirstOf(l), S \cup {at}, x)
    <3>1. PICK first \in Nat : first = FirstOf(l)
      BY <1>4
    <3>2. /\ KnownDir(k, s, first, first, S, d) /\ first <= at
          /\ at \in Places(k, s) /\ S \subseteq Nat
          /\ first \in Nat /\ first \in Int /\ DirTrue(k, s, d)
      BY <1>3, <1>4, <2>1, <3>1
    <3>3. KnownDir(k, s, first, first, S \cup {at}, x)
      BY <1>5, <2>2, <3>2, KnownStep
    <3> QED
      BY <3>1, <3>3
  <2> QED
    BY <1>1, <1>2, <1>7, <1>9, <2>3 DEF OpenedSide, KnownIn
<1>10. CASE d.begun /\ KnownIn(l, G, seed, s) = None
  <2>1. S # {}
    BY <1>1, <1>10 DEF OpenedSide
  <2>2. at # FirstOf(l)
    <3>1. PICK y \in S : TRUE
      BY <2>1
    <3>2. y \in Nat /\ FirstOf(l) <= y /\ y < at
      BY <1>4, <1>5
    <3> QED
      BY <1>3, <1>4, <3>2
  <2>3. KnownIn(l, H, seed, s) = None
    BY <1>1, <1>2, <1>6, <1>8, <1>10, <2>2 DEF KnownIn
  <2> QED
    BY <1>1, <1>2, <1>7, <2>3 DEF OpenedSide
<1>11. CASE ~d.begun
  <2>1. /\ Fresh(d) /\ ~d.desynced /\ d.table = "whole"
        /\ S = {} /\ KnownIn(l, G, seed, s) = None
    BY <1>1, <1>11 DEF OpenedSide
  <2>2. CASE at = FirstOf(l)
    <3>1. x \in Parsed(Push(d, at), k, s, ts) /\ at % LifeSpan = 1
      BY <1>1, <1>3, <2>2
    <3>2. KnownDir(k, s, at, at, {at}, x)
      BY <1>3, <2>1, <3>1, FirstStep
    <3>3. SeenIn(H, s) = {at}
      BY <1>2, <2>1
    <3> QED
      BY <1>1, <1>7, <2>2, <3>2, <3>3 DEF OpenedSide
  <2>3. CASE at # FirstOf(l)
    <3>1. KnownIn(l, H, seed, s) = None
      BY <1>1, <1>2, <1>6, <1>8, <2>1, <2>3 DEF KnownIn
    <3> QED
      BY <1>1, <1>2, <1>7, <3>1 DEF OpenedSide
  <2> QED
    BY <2>2, <2>3
<1> QED
  BY <1>9, <1>10, <1>11

LEMMA OldData ==
  ASSUME NEW k \in Keys, NEW se, NEW G, NEW seed, HostsTrue(k, 0, se), GotTrue(0, se, G),
         NEW s \in Sides, NEW d, OldSide(k, 0, G, seed, s, d), seed[s] \in Int,
         se["server"] # None, se[s] < Len(Content[k][0][s]),
         NEW e, DirTrue(k, s, e), e.seeded, d.seeded => e = d,
         ~d.seeded /\ seed[s] # None => TakesSeed(d, e, seed[s]),
         NEW p, p.from = s, p.kind = "DATA", p.at = LifeSpan * 0 + (se[s] + 1),
         NEW ts \in Nat, NEW x \in Parsed(Push(e, p.at), k, s, ts)
  PROVE  OldSide(k, 0, G \cup {p}, seed, s, x)
<1>1. PICK H, at, S : H = G \cup {p} /\ at = p.at /\ S = SeenIn(G, s)
  OBVIOUS
<1>2. SeenIn(H, s) = S \cup {at}
  BY <1>1, GrownData
<1>3. /\ at \in Nat /\ at \in Places(k, s) /\ at >= FirstOf(0)
      /\ at = LifeSpan * 0 + se[s] + 1 /\ se[s] \in Nat
  BY <1>1, SentIs
<1>4. /\ S \subseteq Nat /\ FirstOf(0) \in Nat
      /\ \A y \in S : FirstOf(0) <= y /\ y <= LifeSpan * 0 + se[s]
  BY <1>1, SeenIs
<1>5. \A y \in S : y < at
  <2>1. LifeSpan * 0 \in Nat
    BY FirstIs DEF HostsTrue
  <2> QED
    BY <1>3, <1>4, <2>1
<1>6. x \in Parsed(Push(e, at), k, s, ts)
  BY <1>1
<1>7. x.begun /\ x.seeded
  BY <1>3, <1>6, FedIs
<1>8. ASSUME KnownIn(0, H, seed, s) # None
      PROVE  KnownDir(k, s, FirstOf(0), seed[s], S \cup {at}, x)
  <2>1. seed[s] # None /\ \E y \in S \cup {at} : y <= seed[s]
    BY <1>2, <1>8 DEF KnownIn
  <2>2. CASE S = {}
    <3>1. Fresh(d) /\ ~d.seeded
      BY <1>1, <2>2 DEF OldSide
    <3>2. /\ ~e.begun /\ e.out = <<>> /\ e.decode_errors = 0
          /\ ~e.desynced /\ e.table = "whole" /\ e.pending = seed[s]
      BY <2>1, <3>1 DEF TakesSeed, Fresh
    <3>3. at <= e.pending /\ e.pending # None
      BY <2>1, <2>2, <3>2
    <3>4. KnownDir(k, s, FirstOf(0), e.pending, {at}, x)
      BY <1>3, <1>6, <3>2, <3>3, SeededStep
    <3> QED
      BY <2>2, <3>2, <3>4
  <2>3. CASE S # {}
    <3>1. d.begun /\ d.seeded /\ (KnownIn(0, G, seed, s) # None =>
                                    KnownDir(k, s, FirstOf(0), seed[s], S, d))
      BY <1>1, <2>3 DEF OldSide
    <3>2. \E y \in S : y <= seed[s]
      <4>1. PICK y \in S \cup {at} : y <= seed[s]
        BY <2>1
      <4>2. CASE y \in S
        BY <4>1, <4>2
      <4>3. CASE y = at
        <5>1. PICK z \in S : TRUE
          BY <2>3
        <5>2. z \in Nat /\ z < at
          BY <1>4, <1>5
        <5>3. z <= seed[s]
          BY <1>3, <4>1, <4>3, <5>2
        <5> QED
          BY <5>3
      <4> QED
        BY <4>2, <4>3
    <3>3. KnownIn(0, G, seed, s) # None
      BY <1>1, <2>1, <3>2 DEF KnownIn
    <3>4. KnownDir(k, s, FirstOf(0), seed[s], S, e)
      BY <3>1, <3>3
    <3> QED
      BY <1>3, <1>4, <1>5, <1>6, <3>4, KnownStep
  <2> QED
    BY <2>2, <2>3
<1> QED
  BY <1>1, <1>2, <1>7, <1>8 DEF OldSide

LEMMA OpenedSyn ==
  ASSUME NEW k \in Keys, NEW l \in DOMAIN Content[k], NEW H, NEW seed, NEW s \in Sides,
         NEW d, DirTrue(k, s, d), Fresh(d), ~d.desynced, d.table = "whole",
         SeenIn(H, s) = {}, KnownIn(l, H, seed, s) = FirstOf(l),
         NEW at, at = LifeSpan * l, NEW e, e = NoteSyn(d, at)
  PROVE  DirTrue(k, s, e) /\ OpenedSide(k, l, H, seed, s, e)
<1>1. FirstOf(l) \in Nat /\ at + 1 = FirstOf(l) /\ FirstOf(l) > 0
  BY FirstIs
<1>2. e = StartAt(d, FirstOf(l))
  BY <1>1 DEF NoteSyn, Fresh
<1>3. PICK first \in Nat : first = FirstOf(l)
  BY <1>1
<1>4. /\ DirTrue(k, s, e) /\ e.begun /\ e.lo = first /\ e.hi = first
      /\ e.table = "whole" /\ e.pending = None /\ ~e.desynced /\ e.out = <<>>
  <2>1. e = StartAt(d, first)
    BY <1>2, <1>3
  <2>2. /\ DirTrue(k, s, e) /\ e.begun /\ e.lo = first /\ e.hi = first
        /\ e.table = d.table /\ e.pending = d.pending /\ e.desynced = d.desynced
        /\ e.out = d.out
    BY <2>1, StartIs
  <2>3. d.pending = None /\ d.out = <<>>
    BY DEF Fresh
  <2> QED
    BY <2>2, <2>3
<1>5. Exact(k, s, first, e)
  <2>1. Told(k, s, first, first - 1, <<>>)
    BY ToldNothing
  <2> QED
    BY <1>4, <2>1 DEF Exact
<1>6. Received(first, first, {}, first)
  BY DEF Received
<1>7. KnownDir(k, s, first, first, {}, e)
  BY <1>4, <1>5, <1>6, KnownIfExact
<1> QED
  BY <1>1, <1>3, <1>4, <1>7 DEF OpenedSide, None

-----------------------------------------------------------------------------
(* What the hosts do.                                                      *)

(* The hosts of the other keys do nothing.                                 *)
OthersRest(k) ==
  /\ life' \in [Keys -> Nat] /\ sent' \in [Keys -> [Sides -> Nat \cup {None}]]
  /\ \A j \in Keys \ {k} : life'[j] = life[j] /\ sent'[j] = sent[j]

IsSyn(k, p) ==
  /\ p.kind = "SYN" /\ p.from = "client" /\ p.at = LifeSpan * life'[k]
  /\ life'[k] > 0
  /\ life'[k] = life[k] => sent'[k] = sent[k]

IsAck(k, p) ==
  /\ p.kind = "SYNACK" /\ p.from = "server" /\ p.at = LifeSpan * life[k]
  /\ life'[k] = life[k] /\ life[k] > 0
  /\ sent[k]["server"] = None
  /\ sent'[k] = [sent[k] EXCEPT !["server"] = 0]

IsData(k, p) ==
  /\ p.kind = "DATA" /\ p.from \in Sides
  /\ p.at = LifeSpan * life[k] + (sent[k][p.from] + 1)
  /\ life'[k] = life[k]
  /\ sent[k]["server"] # None
  /\ sent[k][p.from] < Len(Content[k][life[k]][p.from])
  /\ sent'[k] = [sent[k] EXCEPT ![p.from] = @ + 1]

LEMMA SendsIs ==
  ASSUME life \in [Keys -> Nat], sent \in [Keys -> [Sides -> Nat \cup {None}]],
         NEW k \in Keys, HostsTrue(k, life[k], sent[k]), NEW p, Sends(k, p)
  PROVE  /\ OthersRest(k) /\ p.key = k /\ HostsTrue(k, life'[k], sent'[k])
         /\ IsSyn(k, p) \/ IsAck(k, p) \/ IsData(k, p)
<1>1. life[k] \in DOMAIN Content[k] /\ life[k] \in Nat /\ DOMAIN Content[k] \subseteq Nat
  BY RebuildAssumption DEF HostsTrue
<1>2. sent[k] \in [Sides -> Nat \cup {None}] /\ sent[k]["client"] # None
  BY DEF HostsTrue
<1>3. \A l \in DOMAIN Content[k] : \A s \in Sides : Len(Content[k][l][s]) \in Nat
  BY ContentIs
<1>4. LifeSpan \in Nat
  BY RebuildAssumption
<1>5. CASE Connect(k, p)
  <2>1. PICK l, se : l = life[k] + 1 /\ se = [client |-> 0, server |-> None]
    OBVIOUS
  <2>2. /\ l \in DOMAIN Content[k] /\ life' = [life EXCEPT ![k] = l]
        /\ sent' = [sent EXCEPT ![k] = se]
        /\ p = [key |-> k, from |-> "client", kind |-> "SYN", at |-> LifeSpan * life'[k] + 0]
    BY <1>5, <2>1 DEF Connect, Packet, At
  <2>3. se \in [Sides -> Nat \cup {None}] /\ se["client"] = 0 /\ se["server"] = None
    BY <2>1 DEF Sides
  <2>4. l \in Nat /\ l > 0 /\ life'[k] = l /\ sent'[k] = se
    BY <1>1, <2>1, <2>2
  <2>5. HostsTrue(k, l, se)
    BY <1>3, <2>2, <2>3, <2>4 DEF HostsTrue, Sides, None
  <2>6. OthersRest(k)
    BY <2>2, <2>3, <2>4 DEF OthersRest
  <2>7. LifeSpan * l + 0 = LifeSpan * l
    BY <1>4, <2>4
  <2>8. l # life[k]
    BY <1>1, <2>1
  <2>9. IsSyn(k, p)
    BY <2>2, <2>4, <2>7, <2>8 DEF IsSyn
  <2> QED
    BY <2>2, <2>4, <2>5, <2>6, <2>9
<1>6. CASE ConnectAgain(k, p)
  <2>1. /\ life[k] > 0 /\ life' = life /\ sent' = sent
        /\ p = [key |-> k, from |-> "client", kind |-> "SYN", at |-> LifeSpan * life'[k] + 0]
    BY <1>6 DEF ConnectAgain, Packet, At
  <2>2. LifeSpan * life[k] + 0 = LifeSpan * life[k]
    BY <1>1, <1>4
  <2>3. IsSyn(k, p)
    BY <2>1, <2>2 DEF IsSyn
  <2> QED
    BY <2>1, <2>3 DEF OthersRest
<1>7. CASE Accept(k, p)
  <2>1. PICK se : se = [sent[k] EXCEPT !["server"] = 0]
    OBVIOUS
  <2>2. /\ sent[k]["server"] = None /\ life' = life
        /\ sent' = [sent EXCEPT ![k] = se]
        /\ p = [key |-> k, from |-> "server", kind |-> "SYNACK", at |-> LifeSpan * life'[k] + 0]
    BY <1>7, <2>1 DEF Accept, Packet, At
  <2>3. /\ se \in [Sides -> Nat \cup {None}] /\ se["server"] = 0
        /\ se["client"] = sent[k]["client"]
    BY <1>2, <2>1 DEF Sides
  <2>4. life'[k] = life[k] /\ sent'[k] = se
    BY <2>2
  <2>5. HostsTrue(k, life[k], se)
    <3>1. \A s \in Sides : se[s] <= Len(Content[k][life[k]][s])
      BY <1>1, <1>3, <2>3 DEF HostsTrue, Sides
    <3>2. 0 # None
      BY DEF None
    <3> QED
      BY <1>1, <1>2, <2>3, <3>1, <3>2 DEF HostsTrue
  <2>6. OthersRest(k)
    BY <2>2, <2>3 DEF OthersRest
  <2>7. LifeSpan * life[k] + 0 = LifeSpan * life[k]
    BY <1>1, <1>4
  <2>8. life[k] > 0
    BY <1>1, <2>2 DEF HostsTrue
  <2>9. IsAck(k, p)
    BY <2>1, <2>2, <2>4, <2>7, <2>8 DEF IsAck
  <2> QED
    BY <2>2, <2>4, <2>5, <2>6, <2>9
<1>8. CASE Send(k, p)
  <2>1. PICK s \in Sides :
          /\ sent[k][s] < Len(Content[k][life[k]][s])
          /\ sent' = [sent EXCEPT ![k][s] = @ + 1]
          /\ p = [key |-> k, from |-> s, kind |-> "DATA", at |-> LifeSpan * life'[k] + sent'[k][s]]
    BY <1>8 DEF Send, Packet, At
  <2>2. sent[k]["server"] # None /\ life' = life
    BY <1>8 DEF Send
  <2>3. sent[k][s] \in Nat
    BY <1>2, <2>2 DEF Sides
  <2>4. PICK se : se = [sent[k] EXCEPT ![s] = @ + 1]
    OBVIOUS
  <2>5. /\ se \in [Sides -> Nat \cup {None}] /\ se[s] = sent[k][s] + 1
        /\ \A t \in Sides : t # s => se[t] = sent[k][t]
    BY <1>2, <2>3, <2>4
  <2>6. sent' = [sent EXCEPT ![k] = se] /\ sent'[k] = se
    BY <2>1, <2>4
  <2>7. \A t \in Sides : se[t] # None <=> sent[k][t] # None
    BY <2>3, <2>5 DEF None
  <2>8. HostsTrue(k, life[k], se)
    <3>1. \A t \in Sides : se[t] <= Len(Content[k][life[k]][t])
      BY <1>1, <1>3, <2>1, <2>3, <2>5 DEF HostsTrue
    <3> QED
      BY <1>1, <1>2, <2>2, <2>5, <2>7, <3>1 DEF HostsTrue, Sides
  <2>9. OthersRest(k)
    BY <2>2, <2>5, <2>6 DEF OthersRest
  <2>10. IsData(k, p)
    BY <2>1, <2>2, <2>4, <2>5, <2>6 DEF IsData
  <2> QED
    BY <2>1, <2>2, <2>6, <2>8, <2>9, <2>10
<1> QED
  BY <1>5, <1>6, <1>7, <1>8 DEF Sends

-----------------------------------------------------------------------------
(* What a connection comes to.                                             *)

LEMMA ConnIs ==
  ASSUME NEW k, NEW t, NEW c, ConnTrue(k, c, t)
  PROVE  /\ c.client \in Sides /\ c.first_ts \in Nat /\ c.last_ts \in Nat
         /\ c.saw_syn \in BOOLEAN /\ c.dirs \in [Sides -> DirRecords]
         /\ c.first_ts <= c.last_ts /\ c.last_ts <= t
         /\ \A s \in Sides : DirTrue(k, s, c.dirs[s])
         /\ c = [client |-> c.client, first_ts |-> c.first_ts, last_ts |-> c.last_ts,
                 saw_syn |-> c.saw_syn, dirs |-> c.dirs]
BY DEF ConnTrue

(* d is c with other directions, at time t.                                *)
Replaced(k, d, t, c, ds) ==
  /\ ConnTrue(k, d, t) /\ d.last_ts = t /\ (d.saw_syn <=> c.saw_syn) /\ d.dirs = ds

LEMMA ConnReplaced ==
  ASSUME NEW k, NEW t0 \in Nat, NEW t \in Nat, t0 <= t, NEW c, ConnTrue(k, c, t0),
         NEW ds, ds \in [Sides -> DirRecords], \A s \in Sides : DirTrue(k, s, ds[s]),
         NEW d, d = [c EXCEPT !.last_ts = t, !.dirs = ds]
  PROVE  Replaced(k, d, t, c, ds)
<1>1. PICK a \in Sides, b \in Nat, l \in Nat, y \in BOOLEAN, f \in [Sides -> DirRecords] :
        c = [client |-> a, first_ts |-> b, last_ts |-> l, saw_syn |-> y, dirs |-> f]
        /\ b <= l /\ l <= t0
  BY ConnIs
<1>2. d = [client |-> a, first_ts |-> b, last_ts |-> t, saw_syn |-> y, dirs |-> ds]
  BY <1>1
<1>3. d.last_ts = t /\ d.saw_syn = c.saw_syn /\ d.dirs = ds /\ d.first_ts = b
  BY <1>1, <1>2
<1>4. d \in [client : Sides, first_ts : Nat, last_ts : Nat, saw_syn : BOOLEAN,
             dirs : [Sides -> DirRecords]]
  BY <1>2
<1>5. b <= t
  BY <1>1
<1> QED
  BY <1>3, <1>4, <1>5 DEF ConnTrue, Replaced

LEMMA NewConnIs ==
  ASSUME NEW k, NEW t \in Nat, t = now', NEW p, p.from \in Sides, NEW c, c = NewConn(p)
  PROVE  /\ ConnTrue(k, c, t) /\ (c.saw_syn <=> p.kind = "SYN")
         /\ \A s \in Sides : /\ Fresh(c.dirs[s]) /\ ~c.dirs[s].seeded
                             /\ c.saw_syn => ~c.dirs[s].desynced /\ c.dirs[s].table = "whole"
<1>1. PICK syn \in BOOLEAN : syn = (p.kind = "SYN")
  OBVIOUS
<1>2. PICK ds : ds = [s \in Sides |-> NewDir(syn)]
  OBVIOUS
<1>3. c = [client |-> p.from, first_ts |-> t, last_ts |-> t, saw_syn |-> syn, dirs |-> ds]
  BY <1>1, <1>2 DEF NewConn
<1>4. ASSUME NEW s \in Sides
      PROVE  /\ DirTrue(k, s, ds[s]) /\ ds[s] \in DirRecords /\ Fresh(ds[s]) /\ ~ds[s].seeded
             /\ syn => ~ds[s].desynced /\ ds[s].table = "whole"
  <2>1. PICK d : d = ds[s] /\ d = NewDir(syn)
    BY <1>2
  <2>2. /\ DirTrue(k, s, d) /\ Fresh(d) /\ ~d.seeded
        /\ d.desynced = ~syn /\ (syn => d.table = "whole")
    BY <2>1, NewDirIs
  <2> QED
    BY <2>1, <2>2, DirTrueIs
<1>5. ds \in [Sides -> DirRecords]
  BY <1>2, <1>4
<1>6. c \in [client : Sides, first_ts : Nat, last_ts : Nat, saw_syn : BOOLEAN,
             dirs : [Sides -> DirRecords]]
  BY <1>3, <1>5
<1>7. c.first_ts = t /\ c.last_ts = t /\ c.saw_syn = syn /\ c.dirs = ds
  BY <1>3
<1>8. ConnTrue(k, c, t)
  BY <1>4, <1>6, <1>7 DEF ConnTrue
<1> QED
  BY <1>1, <1>4, <1>7, <1>8

LEMMA GotStill ==
  ASSUME NEW l, NEW se, NEW ze, NEW G, GotTrue(l, se, G), l \in Nat,
         \A s \in Sides : se[s] \in Int /\ ze[s] \in Int /\ se[s] <= ze[s],
         se["server"] # None => ze["server"] # None
  PROVE  GotTrue(l, ze, G)
<1>1. LifeSpan * l \in Nat /\ FirstOf(l) \in Nat
  <2>1. PICK a : a = LifeSpan * l
    OBVIOUS
  <2>2. a \in Nat
    BY <2>1, SpanIs
  <2>3. FirstOf(l) = a + 1
    BY <2>1 DEF FirstOf
  <2> QED
    BY <2>1, <2>2, <2>3
<1>2. ASSUME NEW p \in G PROVE PacketTrue(l, ze, p)
  <2>1. PacketTrue(l, se, p)
    BY DEF GotTrue
  <2>2. ASSUME p.kind = "DATA"
        PROVE  p.from \in Sides /\ p.at \in FirstOf(l)..(LifeSpan * l + ze[p.from])
    <3>1. PICK a \in Nat, b \in Int, c \in Int :
            a = LifeSpan * l /\ b = se[p.from] /\ c = ze[p.from]
            /\ b <= c /\ p.from \in Sides /\ p.at \in FirstOf(l)..(a + b)
      BY <1>1, <2>1, <2>2 DEF PacketTrue
    <3>2. p.at \in FirstOf(l)..(a + c)
      BY <1>1, <3>1
    <3> QED
      BY <3>1, <3>2
  <2> QED
    BY <2>1, <2>2 DEF PacketTrue
<1> QED
  BY <1>2 DEF GotTrue

LEMMA OfferedOpened ==
  ASSUME NEW k, NEW l, NEW G, NEW seed, NEW s, NEW d, NEW e, Offered(d, e),
         OpenedSide(k, l, G, seed, s, d)
  PROVE  OpenedSide(k, l, G, seed, s, e)
<1>1. ASSUME NEW S, NEW first, NEW from, KnownDir(k, s, first, from, S, d)
      PROVE  KnownDir(k, s, first, from, S, e)
  BY <1>1 DEF KnownDir, Offered
<1> QED
  BY <1>1 DEF OpenedSide, Offered, Fresh

LEMMA SynKnows ==
  ASSUME NEW k \in Keys, NEW l \in DOMAIN Content[k], l > 0, NEW seed,
         NEW p, p.kind = "SYN", p.from = "client", p.at = LifeSpan * l,
         NEW c, c.saw_syn,
         DirTrue(k, "client", c.dirs["client"]), Fresh(c.dirs["client"]),
         ~c.dirs["client"].desynced, c.dirs["client"].table = "whole",
         Fresh(c.dirs["server"]), ~c.dirs["server"].desynced, c.dirs["server"].table = "whole",
         NEW e, e.saw_syn, e.dirs["client"] = NoteSyn(c.dirs["client"], p.at),
         e.dirs["server"] = c.dirs["server"]
  PROVE  ConnKnows(k, l, {p}, seed, e)
<1>1. \A s \in Sides : SeenIn({p}, s) = {}
  BY DEF SeenIn
<1>2. SawIn({p}, "SYN") /\ ~SawIn({p}, "SYNACK")
  BY DEF SawIn
<1>3. "client" \in Sides /\ "server" \in Sides /\ FirstOf(l) \in Nat
  BY FirstIs DEF Sides
<1>4. KnownIn(l, {p}, seed, "client") = FirstOf(l)
  BY <1>2 DEF KnownIn, Own
<1>5. KnownIn(l, {p}, seed, "server") = None
  BY <1>1, <1>2, <1>3 DEF KnownIn, Own
<1>6. OpenedSide(k, l, {p}, seed, "client", e.dirs["client"])
  BY <1>1, <1>3, <1>4, OpenedSyn
<1>7. OpenedSide(k, l, {p}, seed, "server", e.dirs["server"])
  BY <1>1, <1>3, <1>5 DEF OpenedSide, Fresh
<1>8. \A s \in Sides : OpenedSide(k, l, {p}, seed, s, e.dirs[s])
  BY <1>6, <1>7 DEF Sides
<1> QED
  BY <1>8 DEF ConnKnows

LEMMA AckKnows ==
  ASSUME NEW k \in Keys, NEW l \in DOMAIN Content[k], l > 0, NEW seed,
         NEW G, NEW se, GotTrue(l, se, G), se["server"] = None,
         NEW p, p.kind = "SYNACK", p.from = "server", p.at = LifeSpan * l,
         NEW c, ConnKnows(k, l, G, seed, c),
         NEW d, c.saw_syn => Offered(c.dirs["server"], d), DirTrue(k, "server", d),
         NEW e, e.saw_syn = c.saw_syn, e.dirs["client"] = c.dirs["client"],
         e.dirs["server"] = NoteSyn(d, p.at)
  PROVE  ConnKnows(k, l, G \cup {p}, seed, e)
<1>1. PICK H : H = G \cup {p}
  OBVIOUS
<1>2. \A s \in Sides : SeenIn(H, s) = SeenIn(G, s)
  BY <1>1, GrownSyn
<1>3. (SawIn(H, "SYN") <=> SawIn(G, "SYN")) /\ SawIn(H, "SYNACK")
  BY <1>1 DEF SawIn
<1>4. "client" \in Sides /\ "server" \in Sides
  BY DEF Sides
<1>5. ASSUME SawIn(H, "SYN")
      PROVE  e.saw_syn /\ \A s \in Sides : OpenedSide(k, l, H, seed, s, e.dirs[s])
  <2>1. /\ SawIn(G, "SYN") /\ c.saw_syn
        /\ OpenedSide(k, l, G, seed, "client", c.dirs["client"])
        /\ OpenedSide(k, l, G, seed, "server", c.dirs["server"])
    BY <1>3, <1>4, <1>5 DEF ConnKnows
  <2>2. OpenedSide(k, l, H, seed, "client", e.dirs["client"])
    <3>1. Own("client") = "SYN"
      BY DEF Own
    <3> QED
      BY <1>2, <1>3, <1>4, <2>1, <3>1, OthersAsBefore
  <2>3. OpenedSide(k, l, G, seed, "server", d)
    BY <2>1, OfferedOpened
  <2>4. SeenIn(G, "server") = {} /\ ~SawIn(G, "SYNACK")
    BY DEF GotTrue, PacketTrue, SeenIn, SawIn
  <2>5. KnownIn(l, G, seed, "server") = None
    BY <2>4 DEF KnownIn, Own
  <2>6. Fresh(d) /\ ~d.desynced /\ d.table = "whole"
    BY <2>3, <2>4, <2>5 DEF OpenedSide
  <2>7. KnownIn(l, H, seed, "server") = FirstOf(l)
    BY <1>3, <1>5 DEF KnownIn, Own
  <2>8. OpenedSide(k, l, H, seed, "server", e.dirs["server"])
    BY <1>2, <1>4, <2>4, <2>6, <2>7, OpenedSyn
  <2> QED
    BY <2>1, <2>2, <2>8, Zenon DEF Sides
<1> QED
  BY <1>1, <1>5 DEF ConnKnows

(* d is direction s of c, with the seed it takes when it is first seeded.  *)
Took(c, s, seed, d) ==
  /\ d.seeded /\ (c.dirs[s].seeded => d = c.dirs[s])
  /\ c.saw_syn => Offered(c.dirs[s], d)
  /\ ~c.dirs[s].seeded /\ ~c.saw_syn /\ seed # None => TakesSeed(c.dirs[s], d, seed)

(* e is c with direction s come to x, behind n markers, and the other to o. *)
Comes(c, s, x, ts, n, o, e) ==
  /\ x.decode_errors = 0 => n = 0
  /\ e.saw_syn <=> c.saw_syn
  /\ e.dirs[s] = MarkFailures(x, ts, n) /\ e.dirs[Other(s)] = o

LEMMA DataKnows ==
  ASSUME NEW k \in Keys, NEW l, NEW se, NEW G, NEW seed, HostsTrue(k, l, se), GotTrue(l, se, G),
         NEW s \in Sides, se["server"] # None, se[s] < Len(Content[k][l][s]),
         NEW p, p.from = s, p.kind = "DATA", p.at = LifeSpan * l + (se[s] + 1),
         NEW c, ConnKnows(k, l, G, seed, c), \A u \in Sides : DirTrue(k, u, c.dirs[u]),
         seed[s] \in Int,
         NEW d, DirTrue(k, s, d), Took(c, s, seed[s], d),
         NEW ts \in Nat, NEW x \in Parsed(Push(d, p.at), k, s, ts),
         NEW n \in Nat, NEW o \in PeerCapacity(c.dirs[Other(s)]),
         NEW e, Comes(c, s, x, ts, n, o, e)
  PROVE  ConnKnows(k, l, G \cup {p}, seed, e)
<1>0. /\ d.seeded /\ (c.dirs[s].seeded => d = c.dirs[s])
      /\ c.saw_syn => Offered(c.dirs[s], d)
      /\ ~c.dirs[s].seeded /\ ~c.saw_syn /\ seed[s] # None => TakesSeed(c.dirs[s], d, seed[s])
      /\ x.decode_errors = 0 => n = 0
      /\ e.saw_syn <=> c.saw_syn
      /\ e.dirs[s] = MarkFailures(x, ts, n) /\ e.dirs[Other(s)] = o
  BY DEF Took, Comes
<1>1. PICK H, t : H = G \cup {p} /\ t = Other(s)
  OBVIOUS
<1>2. t \in Sides /\ t # s /\ \A u \in Sides : u = s \/ u = t
  BY <1>1, OtherSide
<1>3. /\ SeenIn(H, s) = SeenIn(G, s) \cup {p.at} /\ SeenIn(H, t) = SeenIn(G, t)
      /\ SawIn(H, "SYN") <=> SawIn(G, "SYN")
  <2>1. SeenIn(H, s) = SeenIn(G, s) \cup {p.at}
    BY <1>1, GrownData
  <2>2. SeenIn(H, t) = SeenIn(G, t)
    BY <1>1, <1>2, GrownOther
  <2>3. SawIn(H, "SYN") <=> SawIn(G, "SYN")
    BY <1>1, GrownSaw
  <2> QED
    BY <2>1, <2>2, <2>3
<1>4. SawIn(H, Own(t)) <=> SawIn(G, Own(t))
  <2>1. Own(t) # "DATA"
    BY <1>2, OwnIs
  <2> QED
    BY <1>1, <2>1, GrownSaw
<1>5. p.at \in Places(k, s)
  BY SentIs
<1>6. DirTrue(k, s, x) /\ x.begun /\ x \in DirRecords
  BY <1>5, FedIs, DirTrueIs
<1>7. DirTrue(k, t, c.dirs[t]) /\ o \in PeerCapacity(c.dirs[t]) /\ e.dirs[t] = o
  BY <1>0, <1>1, <1>2
<1>8. ASSUME SawIn(H, "SYN")
      PROVE  e.saw_syn /\ \A u \in Sides : OpenedSide(k, l, H, seed, u, e.dirs[u])
  <2>1. /\ SawIn(G, "SYN") /\ c.saw_syn
        /\ OpenedSide(k, l, G, seed, s, c.dirs[s]) /\ OpenedSide(k, l, G, seed, t, c.dirs[t])
    BY <1>2, <1>3, <1>8 DEF ConnKnows
  <2>2. OpenedSide(k, l, G, seed, s, d)
    BY <1>0, <2>1, OfferedOpened
  <2>3. OpenedSide(k, l, H, seed, s, x)
    BY <1>1, <2>1, <2>2, OpenedData
  <2>4. OpenedSide(k, l, H, seed, s, e.dirs[s])
    BY <1>0, <1>6, <2>3, MarkedOpened
  <2>5. OpenedSide(k, l, G, seed, t, o)
    BY <1>7, <2>1, PeerOpened
  <2>6. OpenedSide(k, l, H, seed, t, e.dirs[t])
    BY <1>2, <1>3, <1>4, <1>7, <2>5, OthersAsBefore
  <2> QED
    BY <1>0, <1>2, <2>1, <2>4, <2>6
<1>9. ASSUME l = 0
      PROVE  ~e.saw_syn /\ \A u \in Sides : OldSide(k, l, H, seed, u, e.dirs[u])
  <2>1. /\ ~c.saw_syn
        /\ OldSide(k, l, G, seed, s, c.dirs[s]) /\ OldSide(k, l, G, seed, t, c.dirs[t])
    BY <1>2, <1>9 DEF ConnKnows
  <2>2. OldSide(k, 0, H, seed, s, x)
    <3>1. PICK b : b = c.dirs[s]
      OBVIOUS
    <3>2. /\ OldSide(k, 0, G, seed, s, b) /\ (b.seeded => d = b)
          /\ ~b.seeded /\ seed[s] # None => TakesSeed(b, d, seed[s])
      BY <1>0, <1>9, <2>1, <3>1
    <3>3. /\ HostsTrue(k, 0, se) /\ GotTrue(0, se, G) /\ se[s] < Len(Content[k][0][s])
          /\ p.at = LifeSpan * 0 + (se[s] + 1)
      BY <1>9
    <3> QED
      BY <1>0, <1>1, <3>2, <3>3, OldData
  <2>3. SeenIn(H, s) # {}
    BY <1>3
  <2>4. OldSide(k, l, H, seed, s, e.dirs[s])
    BY <1>0, <1>6, <1>9, <2>2, <2>3, MarkedOld
  <2>5. OldSide(k, l, G, seed, t, o)
    BY <1>7, <2>1, PeerOld
  <2>6. OldSide(k, l, H, seed, t, e.dirs[t])
    BY <1>2, <1>3, <1>4, <1>7, <2>5, OthersAsBefore
  <2> QED
    BY <1>0, <1>2, <2>1, <2>4, <2>6
<1> QED
  BY <1>1, <1>8, <1>9 DEF ConnKnows

-----------------------------------------------------------------------------
(* Replay().                                                               *)

LEMMA MaxOf ==
  ASSUME NEW a \in Int, NEW b \in Int
  PROVE  /\ Max({a, b}) \in {a, b} /\ Max({a, b}) >= a /\ Max({a, b}) >= b
<1>1. \E m \in {a, b} : \A y \in {a, b} : m >= y
  OBVIOUS
<1> QED
  BY <1>1 DEF Max

LEMMA WithIs ==
  ASSUME NEW k, NEW e, conns' = With(k, e)
  PROVE  /\ DOMAIN conns' = DOMAIN conns \cup {k} /\ conns'[k] = e
         /\ \A j \in DOMAIN conns : j # k => conns'[j] = conns[j]
BY DEF With

LEMMA ConnLater ==
  ASSUME NEW k, NEW c, NEW t \in Nat, NEW v \in Nat, t <= v, ConnTrue(k, c, t)
  PROVE  ConnTrue(k, c, v)
BY ConnIs DEF ConnTrue

LEMMA NoteSynIs ==
  ASSUME NEW k, NEW s, NEW d, DirTrue(k, s, d), NEW at \in Nat
  PROVE  DirTrue(k, s, NoteSyn(d, at))
<1>1. CASE d.begun
  BY <1>1 DEF NoteSyn
<1>2. CASE ~d.begun
  BY <1>2, StartIs DEF NoteSyn
<1> QED
  BY <1>1, <1>2

(* The two updates of a connection are one.                                *)
TwiceHas(b, s, d, c) ==
  /\ c.dirs[s] = d
  /\ \A u \in Sides : u # s => c.dirs[u] = b.dirs[u]

Twice(b, v, s, d, f, c) ==
  /\ TwiceHas(b, s, d, c) /\ (c.saw_syn <=> b.saw_syn)
  /\ [c EXCEPT !.dirs = f] = [b EXCEPT !.last_ts = v, !.dirs = f]
  /\ [c EXCEPT !.dirs[s] = f] = [b EXCEPT !.last_ts = v, !.dirs = [b.dirs EXCEPT ![s] = f]]

LEMMA TwiceIs ==
  ASSUME NEW b, NEW s, NEW d, NEW c, TwiceHas(b, s, d, c), NEW o \in Sides, o # s
  PROVE  c.dirs[s] = d /\ c.dirs[o] = b.dirs[o]
BY DEF TwiceHas

LEMMA ConnTwice ==
  ASSUME NEW k, NEW t, NEW v, NEW b, ConnTrue(k, b, t), NEW s \in Sides, NEW d, NEW f,
         NEW c, c = [b EXCEPT !.last_ts = v, !.dirs[s] = d]
  PROVE  Twice(b, v, s, d, f, c)
<1>1. PICK a, x, l, y, ds :
        b = [client |-> a, first_ts |-> x, last_ts |-> l, saw_syn |-> y, dirs |-> ds]
        /\ DOMAIN ds = Sides /\ ds = [u \in Sides |-> ds[u]]
  BY ConnIs
<1>2. PICK ds1 : ds1 = [ds EXCEPT ![s] = d]
  OBVIOUS
<1>3. c = [client |-> a, first_ts |-> x, last_ts |-> v, saw_syn |-> y, dirs |-> ds1]
  BY <1>1, <1>2
<1>4. ds1[s] = d /\ \A u \in Sides : u # s => ds1[u] = ds[u]
  BY <1>1, <1>2
<1>5. [c EXCEPT !.dirs = f] = [b EXCEPT !.last_ts = v, !.dirs = f]
  BY <1>1, <1>3
<1>6. [ds1 EXCEPT ![s] = f] = [ds EXCEPT ![s] = f]
  BY <1>1, <1>2
<1>7. PICK ds2 : ds2 = [ds EXCEPT ![s] = f] /\ ds2 = [ds1 EXCEPT ![s] = f]
  BY <1>6
<1>8. [c EXCEPT !.dirs[s] = f] = [c EXCEPT !.dirs = ds2]
  <2>1. c.dirs = ds1
    <3>1. [client |-> a, first_ts |-> x, last_ts |-> v, saw_syn |-> y, dirs |-> ds1].dirs = ds1
      OBVIOUS
    <3> QED
      BY <1>3, <3>1, Zenon
  <2>2. [c EXCEPT !.dirs[s] = f] = [c EXCEPT !.dirs = [c.dirs EXCEPT ![s] = f]]
    BY <1>3
  <2> QED
    BY <1>7, <2>1, <2>2
<1>9. [c EXCEPT !.dirs[s] = f] = [b EXCEPT !.last_ts = v, !.dirs = ds2]
  BY <1>1, <1>3, <1>8
<1> QED
  BY <1>1, <1>3, <1>4, <1>5, <1>7, <1>9 DEF Twice, TwiceHas

(* What Feed() comes to, for a packet of side s at position at.            *)
FedTo(k, s, c, at) ==
  /\ decode_failures' \in Nat
  /\ \E x \in Parsed(Push(c.dirs[s], at), k, s, now') : \E n \in Nat :
       \E o \in PeerCapacity(c.dirs[Other(s)]) :
         /\ x.decode_errors = 0 => n = 0
         /\ conns' = With(k, [c EXCEPT !.dirs =
                        [u \in Sides |-> IF u = s THEN MarkFailures(x, now', n) ELSE o]])

LEMMA FeedIs ==
  ASSUME NEW k, NEW s \in Sides, NEW c, NEW p, p.key = k, p.from = s, Feed(c, p),
         decode_failures \in Nat,
         \A x \in Parsed(Push(c.dirs[s], p.at), k, s, now') : x.decode_errors \in Nat
  PROVE  FedTo(k, s, c, p.at)
<1>1. PICK x \in Parsed(Push(c.dirs[s], p.at), k, s, now') :
        /\ decode_failures' = Max({x.decode_errors, decode_failures})
        /\ \E o \in IF SaysCapacity(c.dirs[s], x) THEN PeerCapacity(c.dirs[Other(s)])
                    ELSE {c.dirs[Other(s)]} :
             conns' = With(k, [c EXCEPT !.dirs = [u \in Sides |->
                 IF u = s THEN MarkFailures(x, now', Max({x.decode_errors - decode_failures, 0}))
                 ELSE o]])
  BY DEF Feed
<1>2. PICK n : n = Max({x.decode_errors - decode_failures, 0})
  OBVIOUS
<1>0. PICK a \in Nat : a = x.decode_errors
  BY <1>1
<1>3. PICK b \in Int : a = x.decode_errors /\ b = a - decode_failures
  BY <1>0
<1>4. n \in {b, 0} /\ n >= b /\ n >= 0
  <2>1. n = Max({b, 0})
    BY <1>2, <1>3
  <2> QED
    BY <2>1, MaxOf
<1>5. n \in Nat /\ (a = 0 => n = 0)
  BY <1>3, <1>4
<1>6. PICK o \in PeerCapacity(c.dirs[Other(s)]) :
        conns' = With(k, [c EXCEPT !.dirs =
                            [u \in Sides |-> IF u = s THEN MarkFailures(x, now', n) ELSE o]])
  BY <1>1, <1>2 DEF PeerCapacity
<1>7. decode_failures' \in Nat
  <2>1. PICK f \in Nat : f = decode_failures
    OBVIOUS
  <2>2. decode_failures' = Max({a, f})
    BY <1>1, <1>3, <2>1
  <2>3. Max({a, f}) \in {a, f}
    BY MaxOf
  <2> QED
    BY <2>2, <2>3
<1> QED
  BY <1>3, <1>5, <1>6, <1>7 DEF FedTo

(* The connection of p's key when p is taken, new or not.                  *)
LEMMA OldConnIs ==
  ASSUME NEW k \in Keys, KeyTrue(k), NEW t \in Nat, t = now', now \in Nat, now <= t,
         NEW p, p.key = k, p.from \in Sides,
         NEW b, b = IF IsNew(p) THEN NewConn(p) ELSE conns[k]
  PROVE  /\ ConnTrue(k, b, t)
         /\ IsNew(p) => /\ b.saw_syn <=> p.kind = "SYN"
                        /\ \A s \in Sides :
                             /\ Fresh(b.dirs[s]) /\ ~b.dirs[s].seeded
                             /\ b.saw_syn => ~b.dirs[s].desynced /\ b.dirs[s].table = "whole"
         /\ p.kind # "SYN" => ConnKnows(k, life[k], got[k], seeds[k], b)
<1>1. CASE ~IsNew(p)
  <2>1. b = conns[k] /\ k \in DOMAIN conns
    BY <1>1 DEF IsNew
  <2>2. ConnTrue(k, b, now) /\ ConnKnows(k, life[k], got[k], seeds[k], b)
    BY <2>1 DEF KeyTrue
  <2> QED
    BY <1>1, <2>2, ConnLater
<1>2. CASE IsNew(p)
  <2>1. b = NewConn(p)
    BY <1>2
  <2>2. /\ ConnTrue(k, b, t) /\ (b.saw_syn <=> p.kind = "SYN")
        /\ \A s \in Sides : /\ Fresh(b.dirs[s]) /\ ~b.dirs[s].seeded
                            /\ b.saw_syn => ~b.dirs[s].desynced /\ b.dirs[s].table = "whole"
    <3>1. ConnTrue(k, b, t)
      BY <2>1, NewConnIs
    <3>2. b.saw_syn <=> p.kind = "SYN"
      BY <2>1, NewConnIs
    <3>3. ASSUME NEW s \in Sides
          PROVE  /\ Fresh(b.dirs[s]) /\ ~b.dirs[s].seeded
                 /\ b.saw_syn => ~b.dirs[s].desynced /\ b.dirs[s].table = "whole"
      BY <2>1, NewConnIs
    <3> QED
      BY <3>1, <3>2, <3>3
  <2>3. ASSUME p.kind # "SYN" PROVE ConnKnows(k, life[k], got[k], seeds[k], b)
    <3>1. k \notin DOMAIN conns
      BY <1>2, <2>3 DEF IsNew
    <3>2. ~SawIn(got[k], "SYN") /\ (life[k] = 0 => got[k] = {})
      BY <3>1 DEF KeyTrue
    <3>3. ASSUME life[k] = 0, NEW s \in Sides
          PROVE  OldSide(k, life[k], got[k], seeds[k], s, b.dirs[s])
      <4>1. SeenIn(got[k], s) = {}
        BY <3>2, <3>3 DEF SeenIn
      <4> QED
        BY <2>2, <4>1 DEF OldSide
    <3> QED
      BY <2>2, <2>3, <3>2, <3>3 DEF ConnKnows
  <2> QED
    BY <2>2, <2>3
<1> QED
  BY <1>1, <1>2

(* What is the case of key k once its packet was replayed.                 *)
ReplayTrue(k, H) ==
  /\ decode_failures' \in Nat
  /\ GotTrue(life'[k], sent'[k], H)
  /\ \E e : /\ conns' = With(k, e)
            /\ ConnTrue(k, e, now')
            /\ ConnKnows(k, life'[k], H, seeds[k], e)

LEMMA SynReplayed ==
  ASSUME RInv, NEW k \in Keys, now' \in Nat, now <= now', NEW p, p.key = k,
         HostsTrue(k, life'[k], sent'[k]), IsSyn(k, p), Replay(p)
  PROVE  ReplayTrue(k, {p})
<1>1. PICK t \in Nat : t = now' /\ now <= t
  OBVIOUS
<1>2. PICK l, seed, at : l = life'[k] /\ seed = seeds[k] /\ at = p.at
  OBVIOUS
<1>3. /\ KeyTrue(k) /\ now \in Nat /\ decode_failures \in Nat
      /\ \A s \in Sides : seed[s] \in Int
  BY <1>2 DEF RInv
<1>4. p.kind = "SYN" /\ p.from = "client" /\ at = LifeSpan * l /\ l > 0 /\ l \in DOMAIN Content[k]
  BY <1>2 DEF IsSyn, HostsTrue
<1>5. at \in Nat
  BY <1>4, FirstIs
<1>6. "client" \in Sides /\ "server" \in Sides
  BY DEF Sides
<1>7. IsNew(p)
  BY <1>4 DEF IsNew
<1>8. PICK b : b = NewConn(p)
  OBVIOUS
<1>9. /\ ConnTrue(k, b, t) /\ b.saw_syn
      /\ \A s \in Sides : /\ Fresh(b.dirs[s]) /\ ~b.dirs[s].desynced
                          /\ b.dirs[s].table = "whole"
  BY <1>1, <1>4, <1>6, <1>8, NewConnIs
<1>10. PICK d : d = Seeded(b, p)
  OBVIOUS
<1>11. DirTrue(k, "client", d) /\ Offered(b.dirs["client"], d)
  <2>1. DirTrue(k, "client", b.dirs["client"])
    BY <1>6, <1>9, ConnIs
  <2>2. seeds[k]["client"] \in Int
    BY <1>2, <1>3, <1>6
  <2> QED
    BY <1>4, <1>9, <1>10, <2>1, <2>2, SeededIs
<1>12. Fresh(d) /\ ~d.desynced /\ d.table = "whole"
  BY <1>6, <1>9, <1>11 DEF Offered, Fresh
<1>13. PICK c : c = [b EXCEPT !.last_ts = t, !.dirs["client"] = d]
  OBVIOUS
<1>14. PICK f : f = NoteSyn(d, at)
  OBVIOUS
<1>15. DirTrue(k, "client", f)
  BY <1>5, <1>11, <1>14, NoteSynIs
<1>16. PICK ds : ds = [b.dirs EXCEPT !["client"] = f]
  OBVIOUS
<1>17. /\ c.dirs["client"] = d
       /\ [c EXCEPT !.dirs["client"] = f] = [b EXCEPT !.last_ts = t, !.dirs = ds]
       /\ c.saw_syn /\ c.dirs["server"] = b.dirs["server"]
  <2>1. Twice(b, t, "client", d, f, c)
    BY <1>6, <1>9, <1>13, ConnTwice, Zenon
  <2> QED
    BY <1>6, <1>9, <1>16, <2>1 DEF Twice, TwiceHas
<1>18. PICK e : e = [b EXCEPT !.last_ts = t, !.dirs = ds]
  OBVIOUS
<1>19. /\ ds \in [Sides -> DirRecords] /\ ds["client"] = f /\ ds["server"] = b.dirs["server"]
       /\ \A s \in Sides : DirTrue(k, s, ds[s])
  <2>1. /\ b.dirs \in [Sides -> DirRecords] /\ \A s \in Sides : DirTrue(k, s, b.dirs[s])
        /\ f \in DirRecords
    BY <1>9, <1>15, ConnIs, DirTrueIs
  <2>2. PICK a : a = b.dirs /\ a \in [Sides -> DirRecords]
    BY <2>1
  <2>3. ds = [a EXCEPT !["client"] = f]
    BY <1>16, <2>2
  <2>4. ds \in [Sides -> DirRecords] /\ ds["client"] = f /\ ds["server"] = a["server"]
    BY <1>6, <2>1, <2>2, <2>3
  <2>5. ASSUME NEW s \in Sides PROVE DirTrue(k, s, ds[s])
    <3>1. s = "client" \/ s = "server"
      BY DEF Sides
    <3> QED
      BY <1>15, <2>1, <2>2, <2>4, <3>1
  <2> QED
    BY <2>2, <2>4, <2>5
<1>20. ConnTrue(k, e, t) /\ e.saw_syn /\ e.dirs = ds
  <2>1. t <= t
    BY <1>1
  <2>2. Replaced(k, e, t, b, ds)
    BY <1>9, <1>18, <1>19, <2>1, ConnReplaced, Zenon
  <2> QED
    BY <1>9, <2>2 DEF Replaced
<1>21. conns' = With(k, e) /\ decode_failures' = decode_failures
  <2>1. conns' = With(p.key, [c EXCEPT !.dirs[p.from] = NoteSyn(c.dirs[p.from], p.at)])
        /\ decode_failures' = decode_failures
    BY <1>1, <1>4, <1>7, <1>8, <1>10, <1>13 DEF Replay
  <2> QED
    BY <1>2, <1>4, <1>14, <1>17, <1>18, <2>1
<1>22. ConnKnows(k, l, {p}, seed, e)
  <2>1. /\ DirTrue(k, "client", c.dirs["client"]) /\ Fresh(c.dirs["client"])
        /\ ~c.dirs["client"].desynced /\ c.dirs["client"].table = "whole"
        /\ Fresh(c.dirs["server"]) /\ ~c.dirs["server"].desynced
        /\ c.dirs["server"].table = "whole"
    BY <1>6, <1>9, <1>11, <1>12, <1>17
  <2>2. /\ e.dirs["client"] = NoteSyn(c.dirs["client"], p.at)
        /\ e.dirs["server"] = c.dirs["server"]
    BY <1>2, <1>14, <1>17, <1>19, <1>20
  <2> QED
    BY <1>2, <1>4, <1>17, <1>20, <2>1, <2>2, SynKnows
<1>23. GotTrue(l, sent'[k], {p})
  BY <1>4 DEF GotTrue, PacketTrue
<1> QED
  BY <1>1, <1>2, <1>3, <1>20, <1>21, <1>22, <1>23 DEF ReplayTrue

(* What comes of the side s of connection b when a packet is taken.        *)
LEMMA UpdatedIs ==
  ASSUME NEW k, NEW t \in Nat, NEW b, ConnTrue(k, b, t), NEW ds, DOMAIN ds = Sides,
         ds = [u \in Sides |-> ds[u]], \A u \in Sides : DirTrue(k, u, ds[u])
  PROVE  Replaced(k, [b EXCEPT !.last_ts = t, !.dirs = ds], t, b, ds)
<1>1. ds \in [Sides -> DirRecords]
  BY DirTrueIs
<1>2. t <= t
  OBVIOUS
<1>3. PICK e : e = [b EXCEPT !.last_ts = t, !.dirs = ds]
  BY Zenon
<1> QED
  BY <1>1, <1>2, <1>3, ConnReplaced, Zenon

LEMMA GotMore ==
  ASSUME NEW l, NEW se, NEW G, GotTrue(l, se, G), NEW p, PacketTrue(l, se, p)
  PROVE  GotTrue(l, se, G \cup {p})
BY DEF GotTrue

LEMMA AckReplayed ==
  ASSUME RInv, NEW k \in Keys, now' \in Nat, now <= now', NEW p, p.key = k,
         HostsTrue(k, life'[k], sent'[k]), IsAck(k, p), Replay(p)
  PROVE  ReplayTrue(k, got[k] \cup {p})
<1>1. PICK t \in Nat : t = now' /\ now <= t
  OBVIOUS
<1>2. PICK l, se, ze, seed, at, G :
        /\ l = life[k] /\ l = life'[k] /\ se = sent[k] /\ ze = sent'[k] /\ seed = seeds[k]
        /\ at = p.at /\ G = got[k]
  BY DEF IsAck
<1>3. /\ KeyTrue(k) /\ now \in Nat /\ decode_failures \in Nat
      /\ \A s \in Sides : seed[s] \in Int
  BY <1>2 DEF RInv
<1>4. /\ p.kind = "SYNACK" /\ p.from = "server" /\ at = LifeSpan * l /\ l > 0
      /\ l \in DOMAIN Content[k] /\ se["server"] = None /\ ze = [se EXCEPT !["server"] = 0]
  BY <1>2 DEF IsAck, HostsTrue
<1>5. at \in Nat /\ l \in Nat
  BY <1>4, FirstIs, RebuildAssumption
<1>6. "client" \in Sides /\ "server" \in Sides
  BY DEF Sides
<1>7. HostsTrue(k, l, se) /\ GotTrue(l, se, G)
  BY <1>2, <1>3 DEF KeyTrue
<1>8. PICK b : b = IF IsNew(p) THEN NewConn(p) ELSE conns[k]
  OBVIOUS
<1>9. ConnTrue(k, b, t) /\ ConnKnows(k, l, G, seed, b)
  <2>1. p.from \in Sides /\ p.kind # "SYN"
    BY <1>4, <1>6
  <2>2. KeyTrue(k) /\ t = now' /\ now \in Nat /\ now <= t /\ p.key = k
    BY <1>1, <1>3
  <2>3. ConnTrue(k, b, t) /\ ConnKnows(k, life[k], got[k], seeds[k], b)
    BY <1>8, <2>1, <2>2, OldConnIs
  <2> QED
    BY <1>2, <2>3
<1>10. PICK d : d = Seeded(b, p)
  OBVIOUS
<1>11. DirTrue(k, "server", d) /\ (b.saw_syn => Offered(b.dirs["server"], d))
  <2>1. DirTrue(k, "server", b.dirs["server"])
    BY <1>6, <1>9, ConnIs
  <2>2. seeds[k]["server"] \in Int
    BY <1>2, <1>3, <1>6
  <2> QED
    BY <1>4, <1>10, <2>1, <2>2, SeededIs
<1>13. PICK c : c = [b EXCEPT !.last_ts = t, !.dirs["server"] = d]
  OBVIOUS
<1>14. PICK f : f = NoteSyn(d, at)
  OBVIOUS
<1>15. DirTrue(k, "server", f)
  BY <1>5, <1>11, <1>14, NoteSynIs
<1>16. PICK ds : ds = [b.dirs EXCEPT !["server"] = f]
  OBVIOUS
<1>17. c.dirs["server"] = d /\ [c EXCEPT !.dirs["server"] = f] = [b EXCEPT !.last_ts = t, !.dirs = ds]
  <2>1. Twice(b, t, "server", d, f, c)
    BY <1>6, <1>9, <1>13, ConnTwice, Zenon
  <2> QED
    BY <1>16, <2>1 DEF Twice, TwiceHas
<1>18. PICK e : e = [b EXCEPT !.last_ts = t, !.dirs = ds]
  OBVIOUS
<1>19. /\ DOMAIN ds = Sides /\ ds = [u \in Sides |-> ds[u]]
       /\ ds["server"] = f /\ ds["client"] = b.dirs["client"]
       /\ \A s \in Sides : DirTrue(k, s, ds[s])
  <2>1. b.dirs \in [Sides -> DirRecords] /\ \A s \in Sides : DirTrue(k, s, b.dirs[s])
    BY <1>9, ConnIs
  <2>2. PICK a : a = b.dirs /\ a \in [Sides -> DirRecords]
    BY <2>1
  <2>3. ds = [a EXCEPT !["server"] = f]
    BY <1>16, <2>2
  <2>4. /\ DOMAIN ds = Sides /\ ds = [u \in Sides |-> ds[u]]
        /\ ds["server"] = f /\ ds["client"] = a["client"]
    BY <1>6, <2>2, <2>3
  <2>5. ASSUME NEW s \in Sides PROVE DirTrue(k, s, ds[s])
    <3>1. s = "client" \/ s = "server"
      BY DEF Sides
    <3> QED
      BY <1>15, <2>1, <2>2, <2>4, <3>1
  <2> QED
    BY <2>2, <2>4, <2>5
<1>20. ConnTrue(k, e, t) /\ e.dirs = ds /\ (e.saw_syn <=> b.saw_syn)
  <2>1. Replaced(k, e, t, b, ds)
    BY <1>9, <1>18, <1>19, UpdatedIs, Zenon
  <2> QED
    BY <2>1 DEF Replaced
<1>21. conns' = With(k, e) /\ decode_failures' = decode_failures
  <2>1. p.from = "server" /\ p.kind # "DATA" /\ c.dirs[p.from] = d
        /\ c = [b EXCEPT !.last_ts = now', !.dirs[p.from] = Seeded(b, p)]
    BY <1>1, <1>4, <1>10, <1>13, <1>17
  <2>2. conns' = With(p.key, [c EXCEPT !.dirs[p.from] = NoteSyn(c.dirs[p.from], p.at)])
        /\ decode_failures' = decode_failures
    BY <1>8, <2>1 DEF Replay
  <2> QED
    BY <1>2, <1>14, <1>17, <1>18, <2>1, <2>2
<1>22. ConnKnows(k, l, G \cup {p}, seed, e)
  <2>1. e.dirs["client"] = b.dirs["client"] /\ e.dirs["server"] = NoteSyn(d, p.at)
    BY <1>2, <1>14, <1>19, <1>20
  <2>2. e.saw_syn = b.saw_syn
    <3>1. e.saw_syn \in BOOLEAN /\ b.saw_syn \in BOOLEAN
      BY <1>9, <1>20, ConnIs
    <3> QED
      BY <1>20, <3>1
  <2>3. p.at = LifeSpan * l
    BY <1>2, <1>4
  <2> QED
    BY <1>4, <1>7, <1>9, <1>11, <2>1, <2>2, <2>3, AckKnows
<1>23. GotTrue(l, ze, G \cup {p})
  <2>1. \A s \in Sides : se[s] \in Int /\ ze[s] \in Int /\ se[s] <= ze[s]
    <3>1. se \in [Sides -> Nat \cup {None}]
      BY <1>7 DEF HostsTrue
    <3> QED
      BY <1>4, <3>1 DEF Sides, None
  <2>2. se["server"] # None => ze["server"] # None
    BY <1>4
  <2>3. GotTrue(l, ze, G)
    BY <1>5, <1>7, <2>1, <2>2, GotStill
  <2>4. ze["server"] # None
    <3>1. se \in [Sides -> Nat \cup {None}]
      BY <1>7 DEF HostsTrue
    <3> QED
      BY <1>4, <1>6, <3>1 DEF None
  <2>5. PacketTrue(l, ze, p)
    BY <1>4, <2>4 DEF PacketTrue
  <2> QED
    BY <2>3, <2>5, GotMore
<1>24. /\ decode_failures' \in Nat /\ GotTrue(life'[k], sent'[k], got[k] \cup {p})
       /\ ConnTrue(k, e, now') /\ ConnKnows(k, life'[k], got[k] \cup {p}, seeds[k], e)
  BY <1>1, <1>2, <1>3, <1>20, <1>21, <1>22, <1>23
<1> QED
  BY <1>21, <1>24 DEF ReplayTrue
LEMMA DataReplayed ==
  ASSUME RInv, NEW k \in Keys, now' \in Nat, now <= now', NEW p, p.key = k,
         HostsTrue(k, life'[k], sent'[k]), IsData(k, p), Replay(p)
  PROVE  ReplayTrue(k, got[k] \cup {p})
<1>1. PICK t \in Nat : t = now' /\ now <= t
  OBVIOUS
<1>2. PICK l, se, ze, seed, at, G :
        /\ l = life[k] /\ l = life'[k] /\ se = sent[k] /\ ze = sent'[k] /\ seed = seeds[k]
        /\ at = p.at /\ G = got[k]
  BY DEF IsData
<1>3. /\ KeyTrue(k) /\ now \in Nat /\ decode_failures \in Nat
      /\ \A s \in Sides : seed[s] \in Int
  BY <1>2 DEF RInv
<1>4. PICK s \in Sides :
        /\ p.kind = "DATA" /\ p.from = s /\ at = LifeSpan * l + (se[s] + 1)
        /\ se["server"] # None /\ se[s] < Len(Content[k][l][s]) /\ ze = [se EXCEPT ![s] = @ + 1]
  BY <1>2 DEF IsData
<1>5. HostsTrue(k, l, se) /\ GotTrue(l, se, G) /\ l \in DOMAIN Content[k] /\ l \in Nat
  <2>1. HostsTrue(k, l, se) /\ GotTrue(l, se, G)
    BY <1>2, <1>3 DEF KeyTrue
  <2> QED
    BY <2>1, RebuildAssumption DEF HostsTrue
<1>6. se[s] \in Nat /\ at \in Nat /\ at \in Places(k, s) /\ at >= FirstOf(l)
      /\ at = LifeSpan * l + se[s] + 1
  BY <1>4, <1>5, SentIs
<1>7. PICK o : o = Other(s) /\ o \in Sides /\ o # s /\ \A u \in Sides : u = s \/ u = o
  BY OtherSide
<1>8. PICK b : b = IF IsNew(p) THEN NewConn(p) ELSE conns[k]
  OBVIOUS
<1>9. ConnTrue(k, b, t) /\ ConnKnows(k, l, G, seed, b)
  <2>1. p.from \in Sides /\ p.kind # "SYN"
    BY <1>4
  <2>2. KeyTrue(k) /\ t = now' /\ now \in Nat /\ now <= t /\ p.key = k
    BY <1>1, <1>3
  <2>3. ConnTrue(k, b, t) /\ ConnKnows(k, life[k], got[k], seeds[k], b)
    BY <1>8, <2>1, <2>2, OldConnIs
  <2> QED
    BY <1>2, <2>3
<1>10. PICK d : d = Seeded(b, p)
  OBVIOUS
<1>11. /\ DirTrue(k, s, d) /\ d.seeded /\ (b.dirs[s].seeded => d = b.dirs[s])
       /\ b.saw_syn => Offered(b.dirs[s], d)
       /\ ~b.dirs[s].seeded /\ ~b.saw_syn /\ seed[s] # None => TakesSeed(b.dirs[s], d, seed[s])
  <2>1. DirTrue(k, s, b.dirs[s])
    BY <1>9, ConnIs
  <2>2. seeds[k][s] \in Int
    BY <1>2, <1>3
  <2> QED
    BY <1>2, <1>4, <1>10, <2>1, <2>2, SeededIs
<1>12. PICK c : c = [b EXCEPT !.last_ts = t, !.dirs[s] = d]
  OBVIOUS
<1>13. c.dirs[s] = d /\ c.dirs[o] = b.dirs[o]
       /\ \A f : [c EXCEPT !.dirs = f] = [b EXCEPT !.last_ts = t, !.dirs = f]
  <2>1. ASSUME NEW f PROVE Twice(b, t, s, d, f, c)
    BY <1>9, <1>12, ConnTwice, Zenon
  <2>2. Twice(b, t, s, d, d, c)
    BY <2>1
  <2>3. c.dirs[s] = d /\ c.dirs[o] = b.dirs[o]
    <3>1. TwiceHas(b, s, d, c)
      BY <2>2 DEF Twice
    <3>2. o \in Sides /\ o # s
      BY <1>7, Zenon
    <3> QED
      BY <3>1, <3>2, TwiceIs
  <2>4. ASSUME NEW f PROVE [c EXCEPT !.dirs = f] = [b EXCEPT !.last_ts = t, !.dirs = f]
    BY <2>1, Zenon DEF Twice
  <2> QED
    BY <2>3, <2>4, Zenon
<1>14. \A x \in Parsed(Push(d, at), k, s, t) :
         DirTrue(k, s, x) /\ x \in DirRecords /\ x.decode_errors \in Nat
  BY <1>6, <1>11, FedIs, DirTrueIs
<1>15. PICK x \in Parsed(Push(d, at), k, s, t), n \in Nat, y \in PeerCapacity(b.dirs[o]) :
         /\ decode_failures' \in Nat
         /\ x.decode_errors = 0 => n = 0
         /\ conns' = With(k, [c EXCEPT !.dirs =
                            [u \in Sides |-> IF u = s THEN MarkFailures(x, t, n) ELSE y]])
  <2>1. c = [b EXCEPT !.last_ts = now', !.dirs[p.from] = Seeded(b, p)]
    BY <1>1, <1>4, <1>10, <1>12
  <2>2. Feed(c, p)
    BY <1>4, <1>8, <2>1 DEF Replay
  <2>3. \A z \in Parsed(Push(c.dirs[s], p.at), k, s, now') : z.decode_errors \in Nat
    BY <1>1, <1>2, <1>13, <1>14, Zenon
  <2>4. FedTo(k, s, c, p.at)
    BY <1>3, <1>4, <2>2, <2>3, FeedIs
  <2>5. Parsed(Push(c.dirs[s], p.at), k, s, now') = Parsed(Push(d, at), k, s, t)
        /\ PeerCapacity(c.dirs[Other(s)]) = PeerCapacity(b.dirs[o])
    BY <1>1, <1>2, <1>7, <1>13, Zenon
  <2> QED
    BY <1>1, <2>4, <2>5 DEF FedTo
<1>16. PICK f : f = MarkFailures(x, t, n)
  OBVIOUS
<1>17. PICK ds : ds = [u \in Sides |-> IF u = s THEN f ELSE y]
  OBVIOUS
<1>18. DirTrue(k, s, f)
  <2>1. DirTrue(k, s, x) /\ x \in DirRecords
    BY <1>14
  <2>2. f \in DirRecords /\ f.lo = x.lo /\ f.hi = x.hi
    BY <1>16, <2>1, MarkedIs
  <2> QED
    BY <2>1, <2>2 DEF DirTrue
<1>19. DirTrue(k, o, y)
  <2>1. DirTrue(k, o, b.dirs[o])
    BY <1>7, <1>9, ConnIs
  <2> QED
    BY <2>1, PeerIs
<1>20. /\ DOMAIN ds = Sides /\ ds = [u \in Sides |-> ds[u]] /\ ds[s] = f /\ ds[o] = y
       /\ \A u \in Sides : DirTrue(k, u, ds[u])
  <2>1. DOMAIN ds = Sides /\ ds = [u \in Sides |-> ds[u]] /\ ds[s] = f /\ ds[o] = y
    BY <1>7, <1>17
  <2> QED
    BY <1>7, <1>18, <1>19, <2>1
<1>21. PICK e : e = [b EXCEPT !.last_ts = t, !.dirs = ds]
  OBVIOUS
<1>22. ConnTrue(k, e, t) /\ e.dirs = ds /\ (e.saw_syn <=> b.saw_syn)
  <2>1. Replaced(k, e, t, b, ds)
    BY <1>9, <1>20, <1>21, UpdatedIs, Zenon
  <2> QED
    BY <2>1 DEF Replaced
<1>23. conns' = With(k, e)
  BY <1>13, <1>15, <1>16, <1>17, <1>21, Zenon
<1>24. ConnKnows(k, l, G \cup {p}, seed, e)
  <2>1. e.dirs[s] = MarkFailures(x, t, n) /\ e.dirs[Other(s)] = y
    BY <1>7, <1>16, <1>20, <1>22
  <2>2. Comes(b, s, x, t, n, y, e)
    BY <1>15, <1>22, <2>1 DEF Comes
  <2>6. Took(b, s, seed[s], d)
    BY <1>11 DEF Took
  <2>3. p.from = s /\ p.kind = "DATA" /\ p.at = LifeSpan * l + (se[s] + 1)
    BY <1>2, <1>4
  <2>4. \A u \in Sides : DirTrue(k, u, b.dirs[u])
    BY <1>9, ConnIs
  <2>5. x \in Parsed(Push(d, p.at), k, s, t) /\ y \in PeerCapacity(b.dirs[Other(s)])
    BY <1>2, <1>7
  <2> QED
    BY <1>3, <1>4, <1>5, <1>9, <1>11, <2>2, <2>3, <2>4, <2>5, <2>6, DataKnows
<1>25. GotTrue(l, ze, G \cup {p})
  <2>0. se \in [Sides -> Nat \cup {None}]
    BY <1>5 DEF HostsTrue
  <2>1. \A u \in Sides : se[u] \in Int /\ ze[u] \in Int /\ se[u] <= ze[u]
    BY <1>4, <1>6, <2>0 DEF None
  <2>2. ze["server"] # None
    BY <1>4, <1>6, <2>0 DEF None
  <2>3. GotTrue(l, ze, G)
    BY <1>5, <2>1, <2>2, GotStill
  <2>4. ze[s] = se[s] + 1
    BY <1>4, <2>0
  <2>5. p.at \in FirstOf(l)..(LifeSpan * l + ze[p.from])
    <3>1. PICK a \in Nat, w \in Nat : a = LifeSpan * l /\ w = FirstOf(l)
      BY <1>5, FirstIs
    <3>2. at >= w /\ at = a + (se[s] + 1) /\ ze[s] = se[s] + 1
      BY <1>4, <1>6, <2>4, <3>1
    <3>3. at \in w..(a + ze[s])
      BY <1>6, <3>1, <3>2
    <3> QED
      BY <1>2, <1>4, <3>1, <3>3
  <2>6. PacketTrue(l, ze, p)
    BY <1>4, <2>2, <2>5 DEF PacketTrue
  <2> QED
    BY <2>3, <2>6, GotMore
<1>26. /\ decode_failures' \in Nat /\ GotTrue(life'[k], sent'[k], got[k] \cup {p})
       /\ ConnTrue(k, e, now') /\ ConnKnows(k, life'[k], got[k] \cup {p}, seeds[k], e)
  BY <1>1, <1>2, <1>15, <1>22, <1>24, <1>25
<1> QED
  BY <1>23, <1>26 DEF ReplayTrue
-----------------------------------------------------------------------------
(* The invariant.                                                          *)

LEMMA RestIs ==
  ASSUME RInv, NEW k \in Keys, OthersRest(k), NEW j \in Keys, j # k,
         got'[j] = got[j], seeds' = seeds, now \in Nat, now' \in Nat, now <= now',
         j \in DOMAIN conns' <=> j \in DOMAIN conns,
         j \in DOMAIN conns => conns'[j] = conns[j]
  PROVE  KeyTrue(j)'
<1>1. KeyTrue(j) /\ life'[j] = life[j] /\ sent'[j] = sent[j] /\ seeds'[j] = seeds[j]
  BY DEF RInv, OthersRest
<1>2. ASSUME j \in DOMAIN conns' 
      PROVE  ConnTrue(j, conns'[j], now') /\ ConnKnows(j, life'[j], got'[j], seeds'[j], conns'[j])
  <2>1. PICK t, v, c : t \in Nat /\ v \in Nat /\ t = now /\ v = now' /\ t <= v /\ c = conns[j]
    OBVIOUS
  <2>2. c = conns'[j] /\ ConnTrue(j, c, t) /\ ConnKnows(j, life[j], got[j], seeds[j], c)
    BY <1>1, <1>2, <2>1 DEF KeyTrue
  <2>3. ConnTrue(j, c, v)
    BY <2>1, <2>2, ConnLater
  <2> QED
    BY <1>1, <2>1, <2>2, <2>3
<1> QED
  BY <1>1, <1>2 DEF KeyTrue

LEMMA CapturedTrue ==
  ASSUME RInv, Captured
  PROVE  RInv'
<1>0. PICK k \in Keys : \E p \in PacketsOf(k) :
        /\ Sends(k, p) /\ Replay(p)
        /\ got' = [got EXCEPT ![k] =
                    (IF p.kind = "SYN" \/ life'[k] # life[k] THEN {} ELSE @) \cup {p}]
  BY DEF Captured
<1>1. PICK p \in PacketsOf(k) :
        /\ Sends(k, p) /\ Replay(p)
        /\ got' = [got EXCEPT ![k] =
                    (IF p.kind = "SYN" \/ life'[k] # life[k] THEN {} ELSE @) \cup {p}]
  BY <1>0
<1>2. /\ now \in Nat /\ now' \in Nat /\ now <= now' /\ seeds' = seeds
      /\ order \in Seq(Keys) /\ DOMAIN conns = {order[i] : i \in DOMAIN order} /\ DOMAIN got = Keys
      /\ seeds \in [Keys -> [Sides -> Int]]
  BY DEF Captured, RInv
<1>3. /\ OthersRest(k) /\ p.key = k /\ HostsTrue(k, life'[k], sent'[k])
      /\ IsSyn(k, p) \/ IsAck(k, p) \/ IsData(k, p)
  <2>1. /\ HostsTrue(k, life[k], sent[k]) /\ life \in [Keys -> Nat]
        /\ sent \in [Keys -> [Sides -> Nat \cup {None}]]
    BY DEF RInv, KeyTrue
  <2> QED
    BY <1>1, <2>1, SendsIs
<1>4. ReplayTrue(k, got'[k])
  <2>1. CASE IsSyn(k, p)
    <3>1. got'[k] = {p}
      BY <1>1, <1>2, <2>1 DEF IsSyn
    <3>2. ReplayTrue(k, {p})
      BY <1>1, <1>2, <1>3, <2>1, SynReplayed
    <3> QED
      BY <3>1, <3>2
  <2>2. CASE IsAck(k, p)
    <3>1. got'[k] = got[k] \cup {p}
      BY <1>1, <1>2, <2>2 DEF IsAck
    <3>2. ReplayTrue(k, got[k] \cup {p})
      BY <1>1, <1>2, <1>3, <2>2, AckReplayed
    <3> QED
      BY <3>1, <3>2
  <2>3. CASE IsData(k, p)
    <3>1. got'[k] = got[k] \cup {p}
      BY <1>1, <1>2, <2>3 DEF IsData
    <3>2. ReplayTrue(k, got[k] \cup {p})
      BY <1>1, <1>2, <1>3, <2>3, DataReplayed
    <3> QED
      BY <3>1, <3>2
  <2> QED
    BY <1>3, <2>1, <2>2, <2>3
<1>5. PICK e : /\ conns' = With(k, e) /\ ConnTrue(k, e, now')
               /\ ConnKnows(k, life'[k], got'[k], seeds[k], e)
  BY <1>4 DEF ReplayTrue
<1>6. /\ DOMAIN conns' = DOMAIN conns \cup {k} /\ conns'[k] = e
      /\ \A j \in DOMAIN conns : j # k => conns'[j] = conns[j]
  BY <1>5, WithIs
<1>7. KeyTrue(k)'
  BY <1>2, <1>3, <1>4, <1>5, <1>6 DEF KeyTrue, ReplayTrue
<1>8. ASSUME NEW j \in Keys, j # k PROVE KeyTrue(j)'
  <2>1. got'[j] = got[j]
    BY <1>1, <1>2, <1>8
  <2>2. (j \in DOMAIN conns' <=> j \in DOMAIN conns) /\ (j \in DOMAIN conns => conns'[j] = conns[j])
    BY <1>6, <1>8
  <2> QED
    BY <1>2, <1>3, <1>8, <2>1, <2>2, RestIs
<1>9. order' \in Seq(Keys) /\ DOMAIN conns' = {order'[i] : i \in DOMAIN order'}
  <2>1. CASE IsNew(p)
    <3>1. order' = Append(order, k)
      BY <1>1, <1>3, <2>1 DEF Replay
    <3>2. /\ order' \in Seq(Keys) /\ DOMAIN order' = DOMAIN order \cup {Len(order) + 1}
          /\ order'[Len(order) + 1] = k /\ \A i \in DOMAIN order : order'[i] = order[i]
      BY <1>2, <3>1
    <3> QED
      BY <1>2, <1>6, <3>2
  <2>2. CASE ~IsNew(p)
    <3>1. order' = order /\ k \in DOMAIN conns
      BY <1>1, <1>3, <2>2 DEF Replay, IsNew
    <3> QED
      BY <1>2, <1>6, <3>1
  <2> QED
    BY <2>1, <2>2
<1>10. DOMAIN got' = Keys
  BY <1>1, <1>2
<1>11. life' \in [Keys -> Nat] /\ sent' \in [Keys -> [Sides -> Nat \cup {None}]]
  BY <1>3 DEF OthersRest
<1>12. decode_failures' \in Nat
  BY <1>4 DEF ReplayTrue
<1> QED
  BY <1>2, <1>7, <1>8, <1>9, <1>10, <1>11, <1>12 DEF RInv

LEMMA MissedTrue ==
  ASSUME RInv, Missed
  PROVE  RInv'
<1>0. PICK k \in Keys : \E p \in PacketsOf(k) :
        Sends(k, p) /\ got' = [got EXCEPT ![k] = IF life'[k] # life[k] THEN {} ELSE @]
  BY DEF Missed
<1>1. PICK p \in PacketsOf(k) :
        Sends(k, p) /\ got' = [got EXCEPT ![k] = IF life'[k] # life[k] THEN {} ELSE @]
  BY <1>0
<1>2. /\ now \in Nat /\ now' = now /\ seeds' = seeds /\ conns' = conns /\ order' = order
      /\ decode_failures' = decode_failures /\ decode_failures \in Nat /\ DOMAIN got = Keys
      /\ order \in Seq(Keys) /\ DOMAIN conns = {order[i] : i \in DOMAIN order}
      /\ seeds \in [Keys -> [Sides -> Int]]
  BY DEF Missed, RInv
<1>3. PICK l, m, se, ze, G, H :
        /\ l = life[k] /\ m = life'[k] /\ se = sent[k] /\ ze = sent'[k] /\ G = got[k] /\ H = got'[k]
  OBVIOUS
<1>4. /\ KeyTrue(k) /\ HostsTrue(k, l, se) /\ GotTrue(l, se, G) /\ l \in Nat
  BY <1>3 DEF RInv, KeyTrue
<1>5. /\ OthersRest(k) /\ HostsTrue(k, m, ze)
      /\ IsSyn(k, p) \/ IsAck(k, p) \/ IsData(k, p)
  <2>1. /\ HostsTrue(k, life[k], sent[k]) /\ life \in [Keys -> Nat]
        /\ sent \in [Keys -> [Sides -> Nat \cup {None}]]
    BY DEF RInv, KeyTrue
  <2> QED
    BY <1>1, <1>3, <2>1, SendsIs
<1>6. ASSUME m # l PROVE KeyTrue(k)'
  <2>1. m \in Nat /\ m > 0
    BY <1>3, <1>5, <1>6 DEF IsSyn, IsAck, IsData, OthersRest
  <2>2. H = {}
    BY <1>1, <1>2, <1>3, <1>6
  <2>3. GotTrue(m, ze, H)
    BY <2>2 DEF GotTrue
  <2>4. ~SawIn(H, "SYN") /\ m # 0
    BY <2>1, <2>2 DEF SawIn
  <2>5. \A c : ConnKnows(k, m, H, seeds[k], c)
    BY <2>4 DEF ConnKnows
  <2>6. k \in DOMAIN conns' => /\ ConnTrue(k, conns'[k], now')
                              /\ ConnKnows(k, life'[k], got'[k], seeds'[k], conns'[k])
    BY <1>2, <1>3, <1>4, <2>5 DEF KeyTrue
  <2>7. ~SawIn(got'[k], "SYN") /\ life'[k] # 0
    BY <1>3, <2>4
  <2>8. HostsTrue(k, life'[k], sent'[k]) /\ GotTrue(life'[k], sent'[k], got'[k])
    BY <1>3, <1>5, <2>3
  <2>9. KeyTrue(k)'
    BY <2>6, <2>7, <2>8 DEF KeyTrue
  <2> QED
    BY <2>9
<1>7. ASSUME m = l PROVE KeyTrue(k)'
  <2>1. H = G
    BY <1>1, <1>2, <1>3, <1>7
  <2>2. GotTrue(m, ze, H)
    <3>1. CASE IsSyn(k, p)
      BY <1>3, <1>4, <1>7, <2>1, <3>1 DEF IsSyn
    <3>2. CASE IsAck(k, p)
      <4>1. se \in [Sides -> Nat \cup {None}] /\ se["server"] = None /\ ze = [se EXCEPT !["server"] = 0]
        BY <1>3, <1>4, <3>2 DEF IsAck, HostsTrue
      <4>2. \A s \in Sides : se[s] \in Int /\ ze[s] \in Int /\ se[s] <= ze[s]
        BY <4>1 DEF Sides, None
      <4>3. GotTrue(l, ze, G)
        BY <1>4, <4>1, <4>2, GotStill
      <4> QED
        BY <1>7, <2>1, <4>3
    <3>3. CASE IsData(k, p)
      <4>1. PICK s \in Sides : /\ se["server"] # None /\ se[s] < Len(Content[k][l][s])
                               /\ ze = [se EXCEPT ![s] = @ + 1]
        BY <1>3, <3>3 DEF IsData
      <4>2. se[s] \in Nat /\ se \in [Sides -> Nat \cup {None}]
        <5>1. PICK at : at = LifeSpan * l + (se[s] + 1)
          OBVIOUS
        <5> QED
          BY <1>4, <4>1, <5>1, SentIs DEF HostsTrue
      <4>3. \A u \in Sides : se[u] \in Int /\ ze[u] \in Int /\ se[u] <= ze[u]
        BY <4>1, <4>2 DEF None
      <4>4. ze["server"] # None
        BY <4>1, <4>2 DEF None
      <4>5. GotTrue(l, ze, G)
        BY <1>4, <4>3, <4>4, GotStill
      <4> QED
        BY <1>7, <2>1, <4>5
    <3> QED
      BY <1>5, <3>1, <3>2, <3>3
  <2>3. life'[k] = life[k] /\ got'[k] = got[k]
    BY <1>3, <1>7, <2>1
  <2>4. HostsTrue(k, life'[k], sent'[k]) /\ GotTrue(life'[k], sent'[k], got'[k])
    BY <1>3, <1>5, <2>2
  <2>5. k \in DOMAIN conns' => /\ ConnTrue(k, conns'[k], now')
                              /\ ConnKnows(k, life'[k], got'[k], seeds'[k], conns'[k])
    BY <1>2, <1>4, <2>3 DEF KeyTrue
  <2>6. k \notin DOMAIN conns' => ~SawIn(got'[k], "SYN") /\ (life'[k] = 0 => got'[k] = {})
    BY <1>2, <1>4, <2>3 DEF KeyTrue
  <2>7. KeyTrue(k)'
    BY <2>4, <2>5, <2>6 DEF KeyTrue
  <2> QED
    BY <2>7
<1>8. ASSUME NEW j \in Keys, j # k PROVE KeyTrue(j)'
  <2>1. got'[j] = got[j]
    BY <1>1, <1>2, <1>8
  <2>2. now' \in Nat /\ now <= now'
    BY <1>2
  <2> QED
    BY <1>2, <1>5, <1>8, <2>1, <2>2, RestIs
<1>9. DOMAIN got' = Keys
  BY <1>1, <1>2
<1>10. life' \in [Keys -> Nat] /\ sent' \in [Keys -> [Sides -> Nat \cup {None}]]
  BY <1>5 DEF OthersRest
<1> QED
  BY <1>2, <1>6, <1>7, <1>8, <1>9, <1>10 DEF RInv

(* At the start no packet was captured and no connection is known.         *)
LEMMA InitTrue ==
  ASSUME Init
  PROVE  RInv
<1>1. /\ now \in Nat /\ decode_failures \in Nat /\ seeds \in [Keys -> [Sides -> Int]]
      /\ life \in [Keys -> Nat] /\ sent \in [Keys -> [Sides -> Nat \cup {None}]]
      /\ DOMAIN got = Keys
  BY RebuildAssumption DEF Init
<1>2. order \in Seq(Keys) /\ DOMAIN conns = {order[i] : i \in DOMAIN order}
  BY DEF Init
<1>3. ASSUME NEW k \in Keys PROVE KeyTrue(k)
  <2>1. life[k] = 0 /\ got[k] = {} /\ sent[k] = [s \in Sides |-> 0] /\ DOMAIN conns = {}
    BY DEF Init
  <2>2. HostsTrue(k, life[k], sent[k])
    <3>1. 0 \in DOMAIN Content[k] /\ \A s \in Sides : Len(Content[k][0][s]) \in Nat
      BY ContentIs, RebuildAssumption
    <3>2. "client" \in Sides /\ "server" \in Sides /\ 0 # None
      BY DEF Sides, None
    <3> QED
      BY <2>1, <3>1, <3>2 DEF HostsTrue
  <2>3. GotTrue(life[k], sent[k], got[k]) /\ ~SawIn(got[k], "SYN")
    BY <2>1 DEF GotTrue, SawIn
  <2> QED
    BY <2>1, <2>2, <2>3 DEF KeyTrue
<1> QED
  BY <1>1, <1>2, <1>3 DEF RInv

(* The invariant of the replay: what is known of a key is what its hosts   *)
(* sent and the capture has (run() of rebuild.rs, 152-309).                *)
THEOREM RebuildInductive == Spec => []RInv
<1>1. Init => RInv
  BY InitTrue
<1>2. RInv /\ [Next]_vars => RInv'
  <2> SUFFICES ASSUME RInv, [Next]_vars PROVE RInv'
    OBVIOUS
  <2>1. CASE Captured
    BY <2>1, CapturedTrue
  <2>2. CASE Missed
    BY <2>2, MissedTrue
  <2>3. CASE Finish
    BY <2>3 DEF Finish, network, replay, RInv, KeyTrue
  <2>4. CASE UNCHANGED vars
    BY <2>4 DEF vars, RInv, KeyTrue
  <2> QED
    BY <2>1, <2>2, <2>3, <2>4 DEF Next
<1> QED
  BY <1>1, <1>2, PTL DEF Spec

(* The connections, the order they were seen in and the times are as they  *)
(* should be, and no direction parses what it was not given (run() of      *)
(* rebuild.rs, 161-243): for every content of the hosts, every snapshot    *)
(* and however many packets are captured or missed.                        *)
THEOREM TypeTheorem == Spec => []TypeOK
<1>1. RInv => TypeOK
  <2> SUFFICES ASSUME RInv PROVE TypeOK
    OBVIOUS
  <2>1. DOMAIN conns \subseteq Keys
    BY DEF RInv
  <2>2. ASSUME NEW k \in DOMAIN conns
        PROVE  /\ conns[k].client \in Sides /\ conns[k].saw_syn \in BOOLEAN
               /\ conns[k].first_ts <= conns[k].last_ts /\ conns[k].last_ts <= now
               /\ \A s \in Sides :
                    /\ conns[k].dirs[s].lo <= conns[k].dirs[s].hi
                    /\ conns[k].dirs[s].table \in {"whole", "claimed", "partial"}
    <3>1. ConnTrue(k, conns[k], now)
      BY <2>1 DEF RInv, KeyTrue
    <3> QED
      BY <3>1, ConnIs, DirTrueIs
  <2> QED
    BY <2>2 DEF TypeOK, RInv
<1> QED
  BY <1>1, RebuildInductive, PTL

LEMMA MinIs ==
  ASSUME NEW B \in SUBSET Int, NEW m \in B, \A y \in B : m <= y
  PROVE  Min(B) = m
<1>1. \A x \in B : (\A y \in B : x <= y) => x = m
  OBVIOUS
<1> QED
  BY <1>1 DEF Min

(* What a direction has come to is the first position that is missing.     *)
LEMMA LacksIs ==
  ASSUME NEW S \in SUBSET Nat, IsFiniteSet(S), NEW first, NEW from \in Int, NEW hi \in Nat,
         Received(first, from, S, hi)
  PROVE  LET low == Min(S \cup {from})
         IN  Min((low..(low + Cardinality(S))) \ S) = hi
<1>1. PICK base \in Nat :
        /\ base \in S \/ (base = from /\ base = first)
        /\ base <= from /\ base <= hi
        /\ \A at \in S : base <= at
        /\ base..(hi - 1) \subseteq S /\ hi \notin S
  BY DEF Received
<1>2. Min(S \cup {from}) = base
  <2>1. PICK B : B = S \cup {from}
    OBVIOUS
  <2>2. B \in SUBSET Int /\ base \in B /\ \A y \in B : base <= y
    BY <1>1, <2>1
  <2> QED
    BY <2>1, <2>2, MinIs
<1>3. PICK n \in Nat : n = Cardinality(S) /\ hi - base <= n
  <2>1. /\ IsFiniteSet(base..(hi - 1))
        /\ Cardinality(base..(hi - 1)) = IF base > hi - 1 THEN 0 ELSE (hi - 1) - base + 1
    BY FS_Interval
  <2>2. /\ Cardinality(base..(hi - 1)) <= Cardinality(S) /\ Cardinality(S) \in Nat
    BY <1>1, FS_Subset, FS_CardinalityType
  <2>3. PICK n \in Nat : n = Cardinality(S)
    BY <2>2
  <2> QED
    BY <1>1, <2>1, <2>2, <2>3
<1>4. PICK B : B = (base..(base + n)) \ S
  OBVIOUS
<1>5. hi \in B /\ B \in SUBSET Int
  BY <1>1, <1>3, <1>4
<1>6. ASSUME NEW y \in B PROVE hi <= y
  <2>1. y \in Int /\ base <= y /\ y \notin S /\ y \notin base..(hi - 1)
    BY <1>1, <1>4
  <2> QED
    BY <2>1
<1>7. Min(B) = hi
  BY <1>5, <1>6, MinIs
<1> QED
  BY <1>2, <1>3, <1>4, <1>7

(* RebuiltWhole for one side, by its parts.                                *)
RebuiltSide(k, s, from, last, out) ==
  /\ Unmarked(out, Len(out)) = Cardinality(Shown(k, s, from, last))
  /\ \A at \in Shown(k, s, from, last) :
       \E i \in {j \in DOMAIN out : Unmarked(out, j) = Cardinality(Shown(k, s, from, at))} :
         \/ out[i].msg = Item(k, s, at).msg
         \/ out[i].msg = Partial(Item(k, s, at).msg) /\ \E b \in from..at : Item(k, s, b).sort = "bad"

LEMMA KnownSide ==
  ASSUME NEW k, NEW s, NEW first, NEW from \in Int, NEW S, NEW d, d.hi \in Nat,
         KnownDir(k, s, first, from, S, d)
  PROVE  RebuiltSide(k, s, from, d.hi - 1, d.out)
<1>1. CASE d.pending = None
  BY <1>1 DEF KnownDir, Told, RebuiltSide, FailedBy
<1>2. CASE d.pending # None
  <2>1. d.out = <<>> /\ d.hi < from
    BY <1>2 DEF KnownDir
  <2>2. from..(d.hi - 1) = {}
    BY <2>1
  <2>3. Shown(k, s, from, d.hi - 1) = {}
    BY <2>2 DEF Shown
  <2>4. {i \in 1..0 : <<>>[i].msg # Marker} = {}
    OBVIOUS
  <2>5. Unmarked(<<>>, Len(<<>>)) = Cardinality({})
    BY <2>4 DEF Unmarked
  <2> QED
    BY <2>1, <2>3, <2>5 DEF RebuiltSide
<1> QED
  BY <1>1, <1>2

(* A side that is known from its SYN or from the snapshot has its messages *)
(* in its output in order and once, up to the first packet that is missing *)
(* (rebuild.rs:161-165, 214-228): for every content of the hosts, every    *)
(* snapshot, every number of connections on a 4-tuple and every order in   *)
(* which their packets are captured or missed.                             *)
THEOREM RebuiltWholeTheorem == Spec => []RebuiltWhole
<1>1. RInv => RebuiltWhole
  <2> SUFFICES ASSUME RInv, NEW k \in DOMAIN conns, NEW s \in Sides, KnownFrom(k, s) # None
               PROVE  RebuiltSide(k, s, KnownFrom(k, s), Lacks(k, s) - 1, conns[k].dirs[s].out)
    BY DEF RebuiltWhole, RebuiltSide, Shown, Shows
  <2>1. k \in Keys
    BY DEF RInv
  <2>2. PICK l, G, seed, d, S, from :
          /\ l = life[k] /\ G = got[k] /\ seed = seeds[k] /\ d = conns[k].dirs[s]
          /\ S = SeenIn(G, s) /\ from = KnownIn(l, G, seed, s)
    OBVIOUS
  <2>3. Seen(k, s) = S /\ KnownFrom(k, s) = from /\ from # None
    BY <2>2 DEF Seen, SeenIn, KnownFrom, KnownIn, Saw, SawIn, Own, FirstOf
  <2>4. /\ HostsTrue(k, l, sent[k]) /\ GotTrue(l, sent[k], G) /\ ConnTrue(k, conns[k], now)
        /\ ConnKnows(k, l, G, seed, conns[k]) /\ l \in Nat /\ seed \in [Sides -> Int]
        /\ l \in DOMAIN Content[k]
    BY <2>1, <2>2 DEF RInv, KeyTrue, HostsTrue
  <2>5. /\ from \in Int /\ KnownDir(k, s, FirstOf(l), from, S, d)
    <3>1. CASE l > 0
      <4>1. SawIn(G, "SYN") /\ from = FirstOf(l)
        BY <2>2, <2>3, <3>1 DEF KnownIn
      <4>2. OpenedSide(k, l, G, seed, s, d)
        BY <2>2, <2>4, <4>1 DEF ConnKnows
      <4>3. KnownDir(k, s, FirstOf(l), from, S, d)
        BY <2>2, <2>3, <4>1, <4>2 DEF OpenedSide
      <4> QED
        BY <2>1, <2>4, <4>1, <4>3, FirstIs
    <3>2. CASE l = 0
      <4>1. from = seed[s] /\ S # {}
        BY <2>2, <2>3, <3>2 DEF KnownIn
      <4>2. OldSide(k, l, G, seed, s, d)
        BY <2>2, <2>4, <3>2 DEF ConnKnows
      <4>3. KnownDir(k, s, FirstOf(l), from, S, d)
        BY <2>2, <2>3, <4>1, <4>2 DEF OldSide
      <4> QED
        BY <2>4, <4>1, <4>3
    <3> QED
      BY <2>4, <3>1, <3>2
  <2>6. S \subseteq Nat /\ IsFiniteSet(S)
    BY <2>1, <2>2, <2>4, SeenIs
  <2>7. d.hi \in Nat
    BY <2>2, <2>4, ConnIs, DirTrueIs
  <2>8. Lacks(k, s) = d.hi
    <3>1. Received(FirstOf(l), from, S, d.hi)
      BY <2>5 DEF KnownDir
    <3> QED
      BY <2>3, <2>5, <2>6, <2>7, <3>1, LacksIs DEF Lacks
  <2>9. RebuiltSide(k, s, from, d.hi - 1, d.out)
    BY <2>5, <2>7, KnownSide
  <2> QED
    BY <2>2, <2>3, <2>8, <2>9
<1> QED
  BY <1>1, RebuildInductive, PTL
-----------------------------------------------------------------------------
(* Definitions that go on from the value before.                           *)

LEMMA UpTo ==
  ASSUME NEW n \in Nat, NEW P, 0 \in P, \A i \in 0..(n - 1) : i \in P => i + 1 \in P
  PROVE  \A i \in 0..n : i \in P
<1> DEFINE B == {i \in Nat : i <= n /\ i \notin P}
<1>1. B \in SUBSET Nat
  OBVIOUS
<1>2. ASSUME B # {} PROVE FALSE
  <2>1. PICK i \in B : \A j \in B : i <= j
    <3> HIDE DEF B
    <3> QED
      BY <1>1, <1>2, Least
  <2>2. i \in Nat /\ i # 0 /\ i <= n /\ i \notin P
    BY <2>1
  <2>3. i - 1 \in Nat /\ i - 1 \in 0..(n - 1) /\ i - 1 \notin B
    BY <2>1, <2>2
  <2>4. i - 1 \in P
    BY <2>3
  <2>5. (i - 1) + 1 \in P
    BY <2>3, <2>4
  <2> QED
    BY <2>2, <2>5
<1> QED
  BY <1>2

(* f begins with a and goes on by step.                                    *)
Iterated(f, n, a, step) ==
  f = [i \in 0..n |-> IF i = 0 THEN a ELSE step[<<f[i-1], i>>]]

LEMMA IteratedExists ==
  ASSUME NEW X, NEW a \in X, NEW n \in Nat, NEW step \in [X \X (1..n) -> X]
  PROVE  \E f \in [0..n -> X] : Iterated(f, n, a, step)
<1> DEFINE P == {m \in 0..n : \E f \in [0..m -> X] : Iterated(f, m, a, step)}
<1>1. 0 \in P
  <2>1. PICK f : f = [i \in 0..0 |-> a]
    OBVIOUS
  <2>2. f \in [0..0 -> X]
    BY <2>1
  <2>3. Iterated(f, 0, a, step)
    BY <2>1 DEF Iterated
  <2> QED
    BY <2>2, <2>3
<1>2. ASSUME NEW m \in 0..(n - 1), m \in P PROVE m + 1 \in P
  <2>1. PICK g \in [0..m -> X] : Iterated(g, m, a, step)
    BY <1>2
  <2>2. PICK y : y = step[<<g[m], m + 1>>]
    OBVIOUS
  <2>3. y \in X
    <3>1. g[m] \in X /\ m + 1 \in 1..n
      OBVIOUS
    <3> QED
      BY <2>2, <3>1
  <2>4. PICK f : f = [i \in 0..(m + 1) |-> IF i = m + 1 THEN y ELSE g[i]]
    OBVIOUS
  <2>5. f \in [0..(m + 1) -> X] /\ f[m + 1] = y /\ \A i \in 0..m : f[i] = g[i]
    BY <2>3, <2>4
  <2>6. \A i \in 0..m : g[i] = IF i = 0 THEN a ELSE step[<<g[i-1], i>>]
    BY <2>1 DEF Iterated
  <2>7. ASSUME NEW i \in 0..(m + 1)
        PROVE  f[i] = IF i = 0 THEN a ELSE step[<<f[i-1], i>>]
    <3>1. CASE i = m + 1
      <4>1. i - 1 = m /\ i # 0 /\ f[i-1] = g[m]
        BY <2>5, <3>1
      <4> QED
        BY <2>2, <2>5, <3>1, <4>1
    <3>2. CASE i # m + 1
      <4>1. i \in 0..m /\ f[i] = g[i]
        BY <2>5, <3>2
      <4>2. i # 0 => f[i-1] = g[i-1]
        BY <2>5, <4>1
      <4> QED
        BY <2>6, <4>1, <4>2
    <3> QED
      BY <3>1, <3>2
  <2>8. Iterated(f, m + 1, a, step)
    <3>1. f = [i \in 0..(m + 1) |-> f[i]]
      BY <2>5
    <3> QED
      BY <2>7, <3>1 DEF Iterated
  <2> QED
    BY <2>5, <2>8
<1>3. n \in P
  <2> HIDE DEF P
  <2>1. \A i \in 0..n : i \in P
    BY <1>1, <1>2, UpTo
  <2> QED
    BY <2>1
<1> QED
  BY <1>3

LEMMA IteratedIs ==
  ASSUME NEW n \in Nat, NEW a, NEW step, NEW f, Iterated(f, n, a, step)
  PROVE  f[0] = a /\ \A i \in 1..n : f[i] = step[<<f[i-1], i>>]
<1>1. \A i \in 0..n : f[i] = IF i = 0 THEN a ELSE step[<<f[i-1], i>>]
  BY DEF Iterated
<1>2. 0 \in 0..n /\ \A i \in 1..n : i \in 0..n /\ i # 0
  OBVIOUS
<1> QED
  BY <1>1, <1>2

(* FlattenSeq has what its parts have.                                     *)
Flattening(f, ss) == f = [i \in 1..Len(ss) |-> IF i = 1 THEN ss[i] ELSE f[i-1] \o ss[i]]

LEMMA FlatteningExists ==
  ASSUME NEW X, NEW ss \in Seq(Seq(X)), Len(ss) # 0
  PROVE  \E f : Flattening(f, ss)
<1>1. PICK n \in Nat : n = Len(ss) /\ n > 0 /\ DOMAIN ss = 1..n
  OBVIOUS
<1>2. PICK Y : Y = Seq(X) /\ <<>> \in Y
  <2>1. <<>> \in Seq(X)
    OBVIOUS
  <2> QED
    BY <2>1, Zenon
<1>3. PICK step : step = [z \in Y \X (1..n) |-> z[1] \o ss[z[2]]]
  OBVIOUS
<1>4. \A t \in Y, i \in 1..n : step[<<t, i>>] = t \o ss[i] /\ ss[i] \in Y
  <2>1. \A t \in Y, i \in 1..n : <<t, i>>[1] = t /\ <<t, i>>[2] = i /\ <<t, i>> \in Y \X (1..n)
    OBVIOUS
  <2>2. \A i \in 1..n : ss[i] \in Y
    BY <1>1, <1>2
  <2> QED
    BY <1>3, <2>1, <2>2
<1>5. step \in [Y \X (1..n) -> Y]
  <2>1. ASSUME NEW z \in Y \X (1..n) PROVE z[1] \o ss[z[2]] \in Y
    <3>1. z[1] \in Seq(X) /\ ss[z[2]] \in Seq(X)
      BY <1>2, <1>4
    <3> QED
      BY <1>2, <3>1
  <2> QED
    BY <1>3, <2>1
<1>6. PICK g : Iterated(g, n, <<>>, step)
  BY <1>1, <1>2, <1>5, IteratedExists
<1>7. g[0] = <<>> /\ \A i \in 1..n : g[i] = step[<<g[i-1], i>>]
  BY <1>6, IteratedIs
<1>8. \A i \in 0..n : g[i] \in Y
  <2> DEFINE P == {i \in 0..n : g[i] \in Y}
  <2>1. 0 \in P
    <3>1. 0 \in 0..n
      OBVIOUS
    <3> QED
      BY <1>2, <1>7, <3>1
  <2>2. ASSUME NEW i \in 0..(n - 1), i \in P PROVE i + 1 \in P
    <3>1. g[i + 1] = step[<<g[i], i + 1>>] /\ i + 1 \in 1..n
      BY <1>1, <1>7
    <3> QED
      BY <1>5, <2>2, <3>1
  <2> HIDE DEF P
  <2>3. \A i \in 0..n : i \in P
    BY <1>1, <2>1, <2>2, UpTo
  <2> QED
    BY <2>3 DEF P
<1>9. PICK f : f = [i \in 1..n |-> g[i]]
  OBVIOUS
<1>10. ASSUME NEW i \in 1..n PROVE f[i] = IF i = 1 THEN ss[i] ELSE f[i-1] \o ss[i]
  <2>1. g[i] = g[i-1] \o ss[i] /\ ss[i] \in Seq(X)
    <3>1. g[i-1] \in Y /\ g[i] = step[<<g[i-1], i>>]
      BY <1>7, <1>8
    <3> QED
      BY <1>2, <1>4, <3>1
  <2>2. CASE i = 1
    <3>1. g[i-1] = <<>>
      <4>1. i - 1 = 0 /\ 0 \in 0..n
        BY <2>2
      <4> QED
        BY <1>7, <4>1
    <3>2. <<>> \o ss[i] = ss[i]
      BY <2>1
    <3> QED
      BY <1>9, <2>1, <2>2, <3>1, <3>2
  <2>3. CASE i # 1
    <3>1. f[i-1] = g[i-1] /\ f[i] = g[i]
      BY <1>9, <2>3
    <3> QED
      BY <2>1, <2>3, <3>1
  <2> QED
    BY <2>2, <2>3
<1>11. f = [i \in 1..n |-> f[i]]
  BY <1>9
<1>12. Flattening(f, ss)
  BY <1>1, <1>10, <1>11 DEF Flattening
<1> QED
  BY <1>12

LEMMA ToSetOfBoth ==
  ASSUME NEW X, NEW s \in Seq(X), NEW t \in Seq(X)
  PROVE  s \o t \in Seq(X) /\ ToSet(s \o t) = ToSet(s) \cup ToSet(t)
<1>0. PICK m \in Nat, n \in Nat : m = Len(s) /\ n = Len(t)
  OBVIOUS
<1>1. PICK u : u = s \o t /\ m = Len(s) /\ n = Len(t)
  BY <1>0
<1>2. /\ u \in Seq(X) /\ Len(u) = m + n
      /\ \A i \in 1..m : u[i] = s[i]
      /\ \A i \in 1..n : u[m + i] = t[i]
  BY <1>1
<1>3. DOMAIN u = 1..(m + n) /\ DOMAIN s = 1..m /\ DOMAIN t = 1..n
  BY <1>1, <1>2
<1>4. ASSUME NEW x \in ToSet(u) PROVE x \in ToSet(s) \cup ToSet(t)
  <2>1. PICK i \in 1..(m + n) : x = u[i]
    BY <1>3, <1>4 DEF ToSet
  <2>2. CASE i <= m
    <3>1. i \in 1..m /\ x = s[i]
      BY <1>2, <2>1, <2>2
    <3> QED
      BY <1>3, <3>1 DEF ToSet
  <2>3. CASE i > m
    <3>1. i - m \in 1..n /\ m + (i - m) = i
      BY <2>3
    <3>2. x = t[i - m]
      BY <1>2, <2>1, <3>1
    <3> QED
      BY <1>3, <3>1, <3>2 DEF ToSet
  <2> QED
    BY <2>2, <2>3
<1>5. ToSet(s) \subseteq ToSet(u)
  <2>1. ASSUME NEW i \in 1..m PROVE i \in 1..(m + n) /\ s[i] = u[i]
    BY <1>2
  <2> QED
    BY <1>3, <2>1 DEF ToSet
<1>6. ToSet(t) \subseteq ToSet(u)
  <2>1. ASSUME NEW i \in 1..n PROVE m + i \in 1..(m + n) /\ t[i] = u[m + i]
    BY <1>2
  <2> QED
    BY <1>3, <2>1 DEF ToSet
<1> QED
  BY <1>1, <1>2, <1>4, <1>5, <1>6

LEMMA FlattenIs ==
  ASSUME NEW X, NEW ss \in Seq(Seq(X)), NEW r, r = FlattenSeq(ss)
  PROVE  /\ r \in Seq(X)
         /\ \A x : x \in ToSet(r) <=> \E i \in DOMAIN ss : x \in ToSet(ss[i])
<1>1. CASE Len(ss) = 0
  <2>1. ss = <<>> /\ r = <<>>
    BY <1>1 DEF FlattenSeq
  <2>2. DOMAIN r = {} /\ DOMAIN ss = {} /\ r \in Seq(X)
    <3>1. \A q : q = <<>> => DOMAIN q = {} /\ q \in Seq(X)
      OBVIOUS
    <3> QED
      BY <2>1, <3>1, Zenon
  <2> QED
    BY <2>2 DEF ToSet
<1>2. CASE Len(ss) # 0
  <2>1. PICK n \in Nat : n = Len(ss) /\ n > 0 /\ DOMAIN ss = 1..n
    BY <1>2
  <2>2. \E f : Flattening(f, ss)
    BY <1>2, FlatteningExists
  <2>3. PICK f : f = CHOOSE g : g = [i \in 1..Len(ss) |-> IF i = 1 THEN ss[i] ELSE g[i-1] \o ss[i]]
    OBVIOUS
  <2>4. Flattening(f, ss) /\ r = f[n]
    <3>1. Flattening(f, ss)
      BY <2>2, <2>3 DEF Flattening
    <3>2. r = f[n]
      BY <1>2, <2>1, <2>3 DEF FlattenSeq
    <3> QED
      BY <3>1, <3>2
  <2>5. f[1] = ss[1] /\ \A i \in 2..n : f[i] = f[i-1] \o ss[i]
    <3>1. \A i \in 1..n : f[i] = IF i = 1 THEN ss[i] ELSE f[i-1] \o ss[i]
      BY <2>1, <2>4 DEF Flattening
    <3>2. 1 \in 1..n /\ \A i \in 2..n : i \in 1..n /\ i # 1
      BY <2>1
    <3> QED
      BY <3>1, <3>2, Zenon
  <2> DEFINE Has(i) == /\ f[i] \in Seq(X)
                       /\ \A x : x \in ToSet(f[i]) <=> \E j \in 1..i : x \in ToSet(ss[j])
  <2> DEFINE P == {i \in Nat : i = 0 \/ (i <= n /\ Has(i))}
  <2>6. ASSUME NEW i \in 0..(n - 1), i \in P PROVE i + 1 \in P
    <3>1. PICK m \in Nat : m = i + 1 /\ m \in 1..n /\ m <= n /\ m - 1 = i /\ m # 0
      BY <2>1
    <3>2. ss[m] \in Seq(X)
      BY <2>1, <3>1
    <3>3. Has(m)
      <4>1. CASE i = 0
        <5>1. m = 1 /\ 1..m = {m}
          BY <3>1, <4>1
        <5> QED
          BY <2>5, <3>2, <5>1, Zenon
      <4>2. CASE i # 0
        <5>1. Has(i)
          BY <2>6, <4>2
        <5>2. PICK g, h : g = f[i] /\ h = f[m]
          OBVIOUS
        <5>3. h = g \o ss[m]
          <6>1. m \in 2..n
            BY <3>1, <4>2
          <6> QED
            BY <2>5, <3>1, <5>2, <6>1, Zenon
        <5>4. g \in Seq(X) /\ \A x : x \in ToSet(g) <=> \E j \in 1..i : x \in ToSet(ss[j])
          BY <5>1, <5>2
        <5>5. h \in Seq(X) /\ ToSet(h) = ToSet(g) \cup ToSet(ss[m])
          BY <3>2, <5>3, <5>4, ToSetOfBoth
        <5>6. 1..m = (1..i) \cup {m}
          BY <3>1
        <5>7. \A x : x \in ToSet(h) <=> \E j \in 1..m : x \in ToSet(ss[j])
          BY <5>4, <5>5, <5>6, Zenon
        <5> QED
          BY <5>2, <5>5, <5>7
      <4> QED
        BY <4>1, <4>2
    <3> HIDE DEF Has
    <3> QED
      BY <3>1, <3>3
  <2>7. n \in P
    <3>1. 0 \in P
      OBVIOUS
    <3> HIDE DEF P
    <3>2. \A i \in 0..n : i \in P
      BY <2>1, <2>6, <3>1, UpTo
    <3> QED
      BY <2>1, <3>2
  <2>8. Has(n)
    BY <2>1, <2>7
  <2> QED
    BY <2>1, <2>4, <2>8
<1> QED
  BY <1>1, <1>2
-----------------------------------------------------------------------------
(* What is written of a message is a sequence of numbers.                  *)

LEMMA QuotientIs ==
  ASSUME NEW v \in Nat, ~(v < IntBase)
  PROVE  v \div IntBase \in Nat /\ v \div IntBase < v /\ IntBase + (v % IntBase) \in Nat
<1>1. PICK b \in Nat : b = IntBase /\ b >= 2
  BY RecodeAssumption
<1>2. PICK q \in Nat, r \in Nat : q = v \div b /\ r = v % b /\ v = b * q + r /\ r < b
  BY <1>1
<1>3. q < v
  <2>1. CASE q = 0
    BY <1>1, <2>1
  <2>2. CASE q > 0
    <3>1. 2 * q <= b * q
      BY <1>1
    <3> QED
      BY <1>2, <2>2, <3>1
  <2> QED
    BY <2>1, <2>2
<1> QED
  BY <1>1, <1>2, <1>3

(* What Groups has up to n.                                                *)
Grouped(f, n) ==
  f = [v \in 0..n |->
         IF v < IntBase THEN <<v>> ELSE <<IntBase + (v % IntBase)>> \o f[v \div IntBase]]

GroupsNext(f, v) == IF v < IntBase THEN <<v>> ELSE <<IntBase + (v % IntBase)>> \o f[v \div IntBase]

LEMMA GroupedIs ==
  ASSUME NEW n \in Nat, NEW f
  PROVE  Grouped(f, n) <=> f = [v \in 0..n |-> GroupsNext(f, v)]
BY DEF Grouped, GroupsNext

LEMMA GroupedExists == \A n \in Nat : \E f : Grouped(f, n)
<1> SUFFICES ASSUME NEW n \in Nat PROVE \E f : Grouped(f, n)
  OBVIOUS
<1> DEFINE P == {m \in Nat : \E f : Grouped(f, m)}
<1>1. 0 \in P
  <2>1. PICK f : f = [v \in 0..0 |-> <<0>>]
    OBVIOUS
  <2>2. \A v \in 0..0 : GroupsNext(f, v) = <<0>>
    BY RecodeAssumption DEF GroupsNext
  <2>3. f = [v \in 0..0 |-> GroupsNext(f, v)]
    BY <2>1, <2>2
  <2> QED
    BY <2>3, GroupedIs
<1>2. ASSUME NEW m \in 0..(n - 1), m \in P PROVE m + 1 \in P
  <2>1. PICK g : Grouped(g, m)
    BY <1>2
  <2>2. \A v \in 0..m : g[v] = GroupsNext(g, v)
    BY <2>1, GroupedIs
  <2>3. PICK f : f = [v \in 0..(m + 1) |-> IF v = m + 1 THEN GroupsNext(g, v) ELSE g[v]]
    OBVIOUS
  <2>4. \A v \in 0..m : f[v] = g[v]
    BY <2>3
  <2>5. ASSUME NEW v \in 0..(m + 1) PROVE GroupsNext(g, v) = GroupsNext(f, v)
    <3>1. CASE v < IntBase
      BY <3>1 DEF GroupsNext
    <3>2. CASE ~(v < IntBase)
      <4>1. v \div IntBase \in 0..m
        BY <3>2, QuotientIs
      <4> QED
        BY <2>4, <3>2, <4>1, Zenon DEF GroupsNext
    <3> QED
      BY <3>1, <3>2
  <2>6. ASSUME NEW v \in 0..(m + 1) PROVE f[v] = GroupsNext(f, v)
    <3>1. CASE v = m + 1
      BY <2>3, <2>5, <3>1
    <3>2. CASE v # m + 1
      <4>1. v \in 0..m
        BY <3>2
      <4> QED
        BY <2>2, <2>4, <2>5, <4>1
    <3> QED
      BY <3>1, <3>2
  <2>7. f = [v \in 0..(m + 1) |-> f[v]]
    BY <2>3
  <2>8. f = [v \in 0..(m + 1) |-> GroupsNext(f, v)]
    BY <2>6, <2>7
  <2> QED
    BY <2>8, GroupedIs
<1>3. n \in P
  <2> HIDE DEF P
  <2>1. \A i \in 0..n : i \in P
    BY <1>1, <1>2, UpTo
  <2> QED
    BY <2>1
<1> QED
  BY <1>3

LEMMA GroupedAgree ==
  ASSUME NEW n \in Nat, NEW m \in Nat, NEW f, NEW g, Grouped(f, n), Grouped(g, m), NEW u \in Nat,
         u <= n, u <= m
  PROVE  f[u] = g[u]
<1>1. /\ \A v \in 0..n : f[v] = GroupsNext(f, v)
      /\ \A v \in 0..m : g[v] = GroupsNext(g, v)
  BY GroupedIs
<1> DEFINE B == {v \in Nat : v <= n /\ v <= m /\ f[v] # g[v]}
<1>2. B \in SUBSET Nat
  OBVIOUS
<1>3. ASSUME B # {} PROVE FALSE
  <2>1. PICK v \in B : \A w \in B : v <= w
    <3> HIDE DEF B
    <3> QED
      BY <1>2, <1>3, Least
  <2>2. v \in Nat /\ v \in 0..n /\ v \in 0..m
    BY <2>1
  <2>3. GroupsNext(f, v) = GroupsNext(g, v)
    <3>1. CASE v < IntBase
      BY <3>1 DEF GroupsNext
    <3>2. CASE ~(v < IntBase)
      <4>1. PICK w \in Nat : w = v \div IntBase /\ w < v
        BY <2>2, <3>2, QuotientIs
      <4>2. w \notin B /\ w <= n /\ w <= m
        BY <2>1, <2>2, <4>1
      <4>3. f[w] = g[w]
        BY <4>2
      <4> QED
        BY <3>2, <4>1, <4>3, Zenon DEF GroupsNext
    <3> QED
      BY <3>1, <3>2
  <2> QED
    BY <1>1, <2>1, <2>2, <2>3
<1> QED
  BY <1>3

LEMMA GroupsExist == \E g : g = [v \in Nat |-> GroupsNext(g, v)]
<1>1. PICK F : F = [n \in Nat |-> CHOOSE f : Grouped(f, n)]
  OBVIOUS
<1>2. \A n \in Nat : Grouped(F[n], n)
  BY <1>1, GroupedExists
<1>3. PICK g : g = [v \in Nat |-> F[v][v]]
  OBVIOUS
<1>4. ASSUME NEW v \in Nat PROVE g[v] = GroupsNext(g, v)
  <2>1. PICK f : f = F[v] /\ Grouped(f, v) /\ g[v] = f[v]
    BY <1>2, <1>3
  <2>2. f[v] = GroupsNext(f, v)
    <3>1. f = [u \in 0..v |-> GroupsNext(f, u)] /\ v \in 0..v
      BY <2>1, GroupedIs
    <3> QED
      BY <3>1
  <2>3. GroupsNext(f, v) = GroupsNext(g, v)
    <3>1. CASE v < IntBase
      BY <3>1 DEF GroupsNext
    <3>2. CASE ~(v < IntBase)
      <4>1. PICK w \in Nat : w = v \div IntBase /\ w < v
        BY <3>2, QuotientIs
      <4>2. PICK h : h = F[w] /\ Grouped(h, w) /\ g[w] = h[w]
        BY <1>2, <1>3
      <4>3. f[w] = h[w]
        BY <2>1, <4>1, <4>2, GroupedAgree
      <4> QED
        BY <3>2, <4>1, <4>2, <4>3, Zenon DEF GroupsNext
    <3> QED
      BY <3>1, <3>2
  <2> QED
    BY <2>1, <2>2, <2>3
<1>5. g = [v \in Nat |-> g[v]]
  BY <1>3
<1>6. g = [v \in Nat |-> GroupsNext(g, v)]
  BY <1>4, <1>5
<1> QED
  BY <1>6

LEMMA GroupsIs == \A v \in Nat : Groups[v] \in Seq(Nat)
<1>1. PICK G : G = Groups
  OBVIOUS
<1>2. Groups = [v \in Nat |-> GroupsNext(Groups, v)]
  BY GroupsExist, Zenon DEF Groups, GroupsNext
<1>3. G = [v \in Nat |-> GroupsNext(G, v)]
  BY <1>1, <1>2, Zenon
<1>4. \A v \in Nat : G[v] = GroupsNext(G, v)
  BY <1>3
<1> DEFINE B == {v \in Nat : G[v] \notin Seq(Nat)}
<1>5. ASSUME B # {} PROVE FALSE
  <2>1. PICK v \in B : \A w \in B : v <= w
    <3>1. B \in SUBSET Nat
      OBVIOUS
    <3> HIDE DEF B
    <3> QED
      BY <1>5, <3>1, Least
  <2>2. v \in Nat /\ G[v] \notin Seq(Nat)
    BY <2>1
  <2>3. CASE v < IntBase
    <3>1. G[v] = <<v>>
      BY <1>4, <2>2, <2>3 DEF GroupsNext
    <3> QED
      BY <2>2, <3>1
  <2>4. CASE ~(v < IntBase)
    <3>1. PICK w \in Nat, x \in Nat : w = v \div IntBase /\ w < v /\ x = IntBase + (v % IntBase)
      BY <2>2, <2>4, QuotientIs
    <3>2. w \notin B
      BY <2>1, <2>2, <3>1
    <3>3. PICK t : t = G[w] /\ t \in Seq(Nat)
      BY <3>2
    <3>4. G[v] = <<x>> \o t
      BY <1>4, <2>2, <2>4, <3>1, <3>3, Zenon DEF GroupsNext
    <3>5. <<x>> \o t \in Seq(Nat)
      BY <3>3
    <3> QED
      BY <2>2, <3>4, <3>5
  <2> QED
    BY <2>3, <2>4
<1> QED
  BY <1>1, <1>5

Cells == Seq(Nat)

LEMMA CellsAre ==
  /\ <<>> \in Cells
  /\ \A x \in Nat : <<x>> \in Cells
  /\ \A s, t \in Cells : s \o t \in Cells
  /\ \A s \in Cells : Len(s) \in Nat
<1>1. ASSUME NEW s \in Cells, NEW t \in Cells PROVE s \o t \in Cells
  BY DEF Cells
<1>2. <<>> \in Cells /\ (\A x \in Nat : <<x>> \in Cells) /\ (\A s \in Cells : Len(s) \in Nat)
  BY DEF Cells
<1> QED
  BY <1>1, <1>2

LEMMA StringIs ==
  ASSUME NEW s \in Cells
  PROVE  WriteString(s) \in Cells
<1>1. PICK n \in Nat : n = Len(s)
  BY CellsAre
<1>2. PICK p \in Nat : p = Prefix
  BY RecodeAssumption DEF Prefix
<1>3. WriteInt(n) \in Cells
  <2>1. CASE n < p
    BY <1>2, <2>1, CellsAre DEF WriteInt
  <2>2. CASE ~(n < p)
    <3>1. Groups[n - p] \in Cells
      BY <2>2, GroupsIs DEF Cells
    <3>2. <<p>> \o Groups[n - p] \in Cells
      BY <3>1, CellsAre
    <3> QED
      BY <1>2, <2>2, <3>2 DEF WriteInt
  <2> QED
    BY <2>1, <2>2
<1> QED
  BY <1>1, <1>3, CellsAre DEF WriteString

LEMMA FieldIs ==
  ASSUME NEW f, f.name \in Cells, f.value \in Cells
  PROVE  EncodeField(f) \in Cells
<1>1. PICK x \in Nat : x = IF f.sensitive THEN NeverIndexed ELSE 0
  BY DEF NeverIndexed
<1>2. PICK a \in Cells, b \in Cells : a = WriteString(f.name) /\ b = WriteString(f.value)
  BY StringIs
<1>3. EncodeField(f) = (<<x>> \o a) \o b
  BY <1>1, <1>2 DEF EncodeField
<1> QED
  BY <1>3, CellsAre

LEMMA BodyIs ==
  ASSUME NEW m \in Message
  PROVE  Body(m) \in Cells
<1>1. PICK fs : fs = m.fields
  OBVIOUS
<1>2. /\ fs \in Seq([name : Seq(Nat), value : Seq(Nat), sensitive : BOOLEAN])
      /\ m.promised \in Nat
  BY <1>1 DEF Message
<1>3. ASSUME NEW i \in DOMAIN fs PROVE EncodeField(fs[i]) \in Cells
  <2>1. fs[i].name \in Cells /\ fs[i].value \in Cells
    <3>1. PICK f, Y : f = fs[i] /\ Y = [name : Seq(Nat), value : Seq(Nat), sensitive : BOOLEAN]
      OBVIOUS
    <3>2. fs \in Seq(Y)
      BY <1>2, <3>1, Zenon
    <3>3. fs[i] \in Y
      BY <3>2
    <3>4. f.name \in Seq(Nat) /\ f.value \in Seq(Nat)
      BY <3>1, <3>3
    <3> QED
      BY <3>1, <3>4 DEF Cells
  <2> QED
    BY <2>1, FieldIs
<1>4. PICK n \in Nat : DOMAIN fs = 1..n
  BY <1>2
<1>5. PICK parts : parts = [i \in DOMAIN fs |-> EncodeField(fs[i])]
  OBVIOUS
<1>6. parts \in Seq(Cells)
  <2>1. parts = [i \in 1..n |-> EncodeField(fs[i])] /\ \A i \in 1..n : EncodeField(fs[i]) \in Cells
    BY <1>3, <1>4, <1>5
  <2> QED
    BY <2>1
<1>7. EncodeLiteral(fs) \in Cells
  <2>1. FlattenSeq(parts) \in Seq(Nat)
    BY <1>6, FlattenIs DEF Cells
  <2> QED
    BY <1>5, <2>1 DEF EncodeLiteral, Cells
<1>8. PICK p : p = IF m.typ = PUSH_PROMISE THEN <<m.promised>> ELSE <<>>
  OBVIOUS
<1>9. p \in Cells
  BY <1>2, <1>8, CellsAre
<1> QED
  BY <1>1, <1>7, <1>8, <1>9, CellsAre DEF Body

LEMMA ChunksAre ==
  ASSUME NEW s \in Cells, NEW n \in Nat \ {0}, NEW c, c = Chunks(s, n)
  PROVE  c \in Seq(Cells)
<1>1. PICK l \in Nat : l = Len(s)
  BY CellsAre
<1>2. PICK k \in Nat : k = (l + n - 1) \div n
  OBVIOUS
<1>3. ASSUME NEW i \in 1..k PROVE SubSeq(s, (i - 1) * n + 1, Min({i * n, Len(s)})) \in Cells
  <2>1. PICK a \in Nat : a = (i - 1) * n + 1 /\ a >= 1
    <3>1. i - 1 \in Nat /\ n \in Nat
      OBVIOUS
    <3>2. (i - 1) * n \in Nat
      BY <3>1
    <3> QED
      BY <3>2
  <2>2. PICK b \in Nat : b = i * n
    OBVIOUS
  <2>3. PICK e : e = Min({b, l})
    OBVIOUS
  <2>4. e \in Nat /\ e <= l
    <3>1. CASE b <= l
      <4>1. Min({b, l}) = b
        BY <3>1, MinIs
      <4> QED
        BY <2>3, <3>1, <4>1
    <3>2. CASE ~(b <= l)
      <4>1. Min({b, l}) = l
        BY <3>2, MinIs
      <4> QED
        BY <2>3, <4>1
    <3> QED
      BY <3>1, <3>2
  <2>5. SubSeq(s, a, e) \in Cells
    BY <1>1, <2>1, <2>4 DEF Cells
  <2> QED
    BY <1>1, <2>1, <2>2, <2>3, <2>5
<1>4. c = [i \in 1..k |-> SubSeq(s, (i - 1) * n + 1, Min({i * n, Len(s)}))]
  BY <1>1, <1>2 DEF Chunks
<1>5. DOMAIN c = 1..k /\ c = [i \in 1..k |-> c[i]]
  BY <1>4
<1>6. \A i \in 1..k : c[i] \in Cells
  BY <1>3, <1>4
<1> QED
  BY <1>5, <1>6

LEMMA FrameIs ==
  ASSUME NEW typ \in Nat, NEW flags \in Nat, NEW id \in Nat, NEW payload \in Cells
  PROVE  BuildFrame(typ, flags, id, payload) \in Cells
<1>1. PICK n \in Nat : n = Len(payload)
  BY CellsAre
<1>2. <<n, typ, flags, id>> \in Cells
  BY DEF Cells
<1> QED
  BY <1>1, <1>2, CellsAre DEF BuildFrame

(* A message is written as frames, each of them a sequence of numbers.     *)
LEMMA EncodeIs ==
  ASSUME NEW m \in Message
  PROVE  Encode(m) \in Seq(Cells)
<1>1. m.typ \in Nat /\ m.flags \in Nat /\ m.id \in Nat /\ m.payload \in Cells
  BY DEF Message, Cells
<1>2. CASE ~IsBlock(m)
  <2>1. BuildFrame(m.typ, m.flags, m.id, m.payload) \in Cells
    BY <1>1, FrameIs
  <2> QED
    BY <1>2, <2>1 DEF Encode
<1>3. CASE IsBlock(m)
  <2>1. PICK b \in Cells : b = Body(m)
    BY BodyIs
  <2>2. PICK c : c = BodyChunks(m)
    OBVIOUS
  <2>3. c \in Seq(Cells)
    <3>1. CASE b = <<>>
      <4>1. c = << <<>> >>
        BY <2>1, <2>2, <3>1 DEF BodyChunks
      <4> QED
        BY <4>1, CellsAre
    <3>2. CASE b # <<>>
      <4>1. c = Chunks(b, MaxFrame)
        BY <2>1, <2>2, <3>2 DEF BodyChunks
      <4> QED
        BY <4>1, ChunksAre, RecodeAssumption
    <3> QED
      BY <3>1, <3>2
  <2>4. PICK n \in Nat : DOMAIN c = 1..n
    BY <2>3
  <2>5. ASSUME NEW i \in 1..n
        PROVE  BuildFrame(IF i = 1 THEN m.typ ELSE CONTINUATION, BlockFlags(m, i, Len(c)), m.id, c[i])
                 \in Cells
    <3>1. c[i] \in Cells
      BY <2>3, <2>4
    <3>2. BlockFlags(m, i, Len(c)) \in Nat
      BY <1>1 DEF BlockFlags, END_HEADERS
    <3>3. (IF i = 1 THEN m.typ ELSE CONTINUATION) \in Nat
      BY <1>1 DEF CONTINUATION
    <3> QED
      BY <1>1, <3>1, <3>2, <3>3, FrameIs
  <2>6. Encode(m) = [i \in 1..n |->
          BuildFrame(IF i = 1 THEN m.typ ELSE CONTINUATION, BlockFlags(m, i, Len(c)), m.id, c[i])]
    BY <1>3, <2>2, <2>4 DEF Encode, EncodeBlock
  <2> QED
    BY <2>5, <2>6
<1> QED
  BY <1>2, <1>3

-----------------------------------------------------------------------------
(* The order of the packets.                                               *)

Lexicographic(p, q) ==
  \/ p.ts < q.ts
  \/ p.ts = q.ts /\ p.phase < q.phase
  \/ p.ts = q.ts /\ p.phase = q.phase /\ p.conn < q.conn
  \/ p.ts = q.ts /\ p.phase = q.phase /\ p.conn = q.conn /\ p.n < q.n

OutPkts ==
  [ts : Nat, phase : 0..2, conn : Nat, n : Nat, dir : Sides,
   flags : SUBSET {"SYN", "ACK", "PSH", "FIN"}, payload : Cells]

LEMMA PktIs ==
  ASSUME NEW p \in OutPkts
  PROVE  p.ts \in Nat /\ p.phase \in Nat /\ p.conn \in Nat /\ p.n \in Nat /\ p.dir \in Sides
BY DEF OutPkts

LEMMA BeforeIs ==
  ASSUME NEW p \in OutPkts, NEW q \in OutPkts
  PROVE  Before(p, q) <=> Lexicographic(p, q)
<1>1. PICK x, y : x = <<p.ts, p.phase, p.conn, p.n>> /\ y = <<q.ts, q.phase, q.conn, q.n>>
  OBVIOUS
<1>2. /\ x[1] = p.ts /\ x[2] = p.phase /\ x[3] = p.conn /\ x[4] = p.n
      /\ y[1] = q.ts /\ y[2] = q.phase /\ y[3] = q.conn /\ y[4] = q.n
  BY <1>1
<1>3. Before(p, q) <=> \E i \in 1..4 : x[i] < y[i] /\ \A j \in 1..(i-1) : x[j] = y[j]
  BY <1>1 DEF Before
<1>4. ASSUME Before(p, q) PROVE Lexicographic(p, q)
  <2>1. PICK i \in 1..4 : x[i] < y[i] /\ \A j \in 1..(i-1) : x[j] = y[j]
    BY <1>3, <1>4
  <2>2. i = 1 \/ i = 2 \/ i = 3 \/ i = 4
    OBVIOUS
  <2> QED
    BY <1>2, <2>1, <2>2 DEF Lexicographic
<1>5. ASSUME Lexicographic(p, q) PROVE Before(p, q)
  <2>1. CASE p.ts < q.ts
    <3>1. x[1] < y[1] /\ \A j \in 1..(1-1) : x[j] = y[j]
      BY <1>2, <2>1
    <3> QED
      BY <1>3, <3>1
  <2>2. CASE p.ts = q.ts /\ p.phase < q.phase
    <3>1. x[2] < y[2] /\ \A j \in 1..(2-1) : x[j] = y[j]
      BY <1>2, <2>2
    <3> QED
      BY <1>3, <3>1
  <2>3. CASE p.ts = q.ts /\ p.phase = q.phase /\ p.conn < q.conn
    <3>1. x[3] < y[3] /\ \A j \in 1..(3-1) : x[j] = y[j]
      BY <1>2, <2>3
    <3> QED
      BY <1>3, <3>1
  <2>4. CASE p.ts = q.ts /\ p.phase = q.phase /\ p.conn = q.conn /\ p.n < q.n
    <3>1. x[4] < y[4] /\ \A j \in 1..(4-1) : x[j] = y[j]
      BY <1>2, <2>4
    <3> QED
      BY <1>3, <3>1
  <2> QED
    BY <1>5, <2>1, <2>2, <2>3, <2>4 DEF Lexicographic
<1> QED
  BY <1>4, <1>5

LEMMA BeforeTransitive ==
  ASSUME NEW p \in OutPkts, NEW q \in OutPkts, NEW r \in OutPkts, Before(p, q), Before(q, r)
  PROVE  Before(p, r)
<1>1. Lexicographic(p, q) /\ Lexicographic(q, r)
  BY BeforeIs
<1>2. Lexicographic(p, r)
  BY <1>1, PktIs DEF Lexicographic
<1> QED
  BY <1>2, BeforeIs

LEMMA SubSeqIs ==
  ASSUME NEW X, NEW s \in Seq(X), NEW a \in Nat, NEW b \in Nat, 1 <= a, a <= b + 1, b <= Len(s),
         NEW r, r = SubSeq(s, a, b)
  PROVE  r \in Seq(X) /\ Len(r) = b + 1 - a /\ \A i \in 1..(b + 1 - a) : r[i] = s[a + i - 1]
OBVIOUS

(* u is s, of length m, and behind it t, of length n.                      *)
IsBoth(s, m, t, n, u) ==
  /\ Len(u) = m + n
  /\ \A i \in 1..m : u[i] = s[i]
  /\ \A i \in (m + 1)..(m + n) : u[i] = t[i - m]

LEMMA BothIs ==
  ASSUME NEW X, NEW s \in Seq(X), NEW t \in Seq(X), NEW m \in Nat, NEW n \in Nat,
         Len(s) = m, Len(t) = n
  PROVE  s \o t \in Seq(X) /\ IsBoth(s, m, t, n, s \o t)
BY DEF IsBoth

(* No packet is before one that it comes after.                            *)
InOrder(s) == \A i \in DOMAIN s : \A j \in 1..(i - 1) : ~Before(s[i], s[j])

(* t is s with p at place k.                                               *)
Spliced(s, k, p, t) ==
  /\ Len(t) = Len(s) + 1 /\ t[k] = p
  /\ \A i \in 1..(k - 1) : t[i] = s[i]
  /\ \A i \in (k + 1)..(Len(s) + 1) : t[i] = s[i-1]

LEMMA InsertAtIs ==
  ASSUME NEW X, NEW s \in Seq(X), NEW p \in X, NEW k \in 1..(Len(s) + 1), NEW t,
         t = InsertAt(s, k, p)
  PROVE  t \in Seq(X) /\ Spliced(s, k, p, t)
<1>1. PICK m \in Nat : m = Len(s)
  OBVIOUS
<1>2. PICK a : a = SubSeq(s, 1, k - 1)
  OBVIOUS
<1>3. a \in Seq(X) /\ Len(a) = k - 1 /\ \A i \in 1..(k - 1) : a[i] = s[i]
  <2>1. /\ a \in Seq(X) /\ Len(a) = (k - 1) + 1 - 1
        /\ \A i \in 1..((k - 1) + 1 - 1) : a[i] = s[1 + i - 1]
    BY <1>1, <1>2, SubSeqIs
  <2> QED
    BY <1>1, <2>1
<1>4. PICK c : c = SubSeq(s, k, m)
  OBVIOUS
<1>5. c \in Seq(X) /\ Len(c) = m + 1 - k /\ \A i \in 1..(m + 1 - k) : c[i] = s[k + i - 1]
  BY <1>1, <1>4, SubSeqIs
<1>6. PICK d : d = a \o <<p>>
  OBVIOUS
<1>7. d \in Seq(X) /\ Len(d) = k /\ d[k] = p /\ \A i \in 1..(k - 1) : d[i] = s[i]
  <2>1. <<p>> \in Seq(X) /\ Len(<<p>>) = 1 /\ <<p>>[1] = p
    OBVIOUS
  <2>2. PICK b \in Seq(X) : d = a \o b /\ Len(b) = 1 /\ b[1] = p
    BY <1>6, <2>1
  <2>5. k - 1 \in Nat /\ 1 \in Nat
    BY <1>1
  <2>6. d \in Seq(X) /\ IsBoth(a, k - 1, b, 1, d)
    BY <1>3, <2>2, <2>5, BothIs, Zenon
  <2>7. /\ d \in Seq(X) /\ Len(d) = (k - 1) + 1
        /\ \A i \in 1..(k - 1) : d[i] = a[i]
        /\ \A i \in ((k - 1) + 1)..((k - 1) + 1) : d[i] = b[i - (k - 1)]
    BY <2>6, Zenon DEF IsBoth
  <2>4. k \in ((k - 1) + 1)..((k - 1) + 1) /\ k - (k - 1) = 1
    BY <1>1
  <2> QED
    BY <1>1, <1>3, <2>2, <2>4, <2>7
<1>8. t = d \o c
  BY <1>1, <1>2, <1>4, <1>6 DEF InsertAt
<1>9. /\ t \in Seq(X) /\ Len(t) = m + 1
      /\ \A i \in 1..k : t[i] = d[i]
      /\ \A i \in (k + 1)..(m + 1) : t[i] = c[i - k]
  <2>1. PICK l \in Nat : l = m + 1 - k /\ k + l = m + 1
    BY <1>1
  <2>2. t \in Seq(X) /\ IsBoth(d, k, c, l, t)
    <3>1. k \in Nat /\ Len(c) = l
      BY <1>5, <2>1
    <3> QED
      BY <1>5, <1>7, <1>8, <3>1, BothIs, Zenon
  <2> QED
    BY <2>1, <2>2 DEF IsBoth
<1>10. ASSUME NEW i \in (k + 1)..(m + 1) PROVE t[i] = s[i-1]
  <2>1. i - k \in 1..(m + 1 - k) /\ k + (i - k) - 1 = i - 1
    BY <1>1
  <2> QED
    BY <1>5, <1>9, <2>1
<1>11. t[k] = p /\ \A i \in 1..(k - 1) : t[i] = s[i]
  <2>1. k \in 1..k /\ \A i \in 1..(k - 1) : i \in 1..k
    BY <1>1
  <2> QED
    BY <1>7, <1>9, <2>1
<1> QED
  BY <1>1, <1>9, <1>10, <1>11 DEF Spliced

(* Where a packet is put.                                                  *)
IsPlace(s, p, k) ==
  /\ k \in 1..(Len(s) + 1)
  /\ \A i \in 1..(k - 1) : ~Before(p, s[i])
  /\ k <= Len(s) => Before(p, s[k])

LEMMA InsertPlace ==
  ASSUME NEW s \in Seq(OutPkts), NEW p
  PROVE  \E k : IsPlace(s, p, k) /\ Insert(s, p) = InsertAt(s, k, p)
<1>1. PICK m \in Nat : m = Len(s) /\ DOMAIN s = 1..m
  OBVIOUS
<1>2. PICK B : B = {i \in DOMAIN s : Before(p, s[i])} \cup {Len(s) + 1}
  OBVIOUS
<1>3. B \in SUBSET Nat /\ m + 1 \in B /\ B \in SUBSET Int /\ \A i \in B : i \in 1..(m + 1)
  BY <1>1, <1>2
<1>4. PICK k \in B : \A i \in B : k <= i
  BY <1>3, Least
<1>5. Min(B) = k
  BY <1>3, <1>4, MinIs
<1>6. \A i \in 1..(k - 1) : ~Before(p, s[i])
  <2> SUFFICES ASSUME NEW i \in 1..(k - 1), Before(p, s[i]) PROVE FALSE
    OBVIOUS
  <2>1. i \in DOMAIN s /\ ~(k <= i)
    BY <1>1, <1>3, <1>4
  <2> QED
    BY <1>2, <1>4, <2>1
<1>7. k <= m => Before(p, s[k])
  <2>1. k \in {i \in DOMAIN s : Before(p, s[i])} \/ k = m + 1
    BY <1>1, <1>2, <1>4
  <2> QED
    BY <1>1, <2>1
<1>8. IsPlace(s, p, k)
  BY <1>1, <1>3, <1>4, <1>6, <1>7 DEF IsPlace
<1>9. Insert(s, p) = InsertAt(s, k, p)
  BY <1>2, <1>5 DEF Insert
<1> QED
  BY <1>8, <1>9

LEMMA InsertIs ==
  ASSUME NEW s \in Seq(OutPkts), InOrder(s), NEW p \in OutPkts, NEW t, t = Insert(s, p)
  PROVE  t \in Seq(OutPkts) /\ InOrder(t) /\ ToSet(t) = ToSet(s) \cup {p}
<1>1. PICK m \in Nat : m = Len(s) /\ DOMAIN s = 1..m
  OBVIOUS
<1>2. PICK k : IsPlace(s, p, k) /\ t = InsertAt(s, k, p)
  BY InsertPlace
<1>3. /\ k \in 1..(m + 1) /\ \A i \in 1..(k - 1) : ~Before(p, s[i])
      /\ k <= m => Before(p, s[k])
  BY <1>1, <1>2 DEF IsPlace
<1>4. t \in Seq(OutPkts) /\ Spliced(s, k, p, t)
  BY <1>1, <1>2, <1>3, InsertAtIs
<1>5. /\ DOMAIN t = 1..(m + 1) /\ t[k] = p
      /\ \A i \in 1..(k - 1) : t[i] = s[i]
      /\ \A i \in (k + 1)..(m + 1) : t[i] = s[i-1]
  BY <1>1, <1>4 DEF Spliced
<1>6. ToSet(t) = ToSet(s) \cup {p}
  <2>1. ASSUME NEW i \in 1..m PROVE \E j \in 1..(m + 1) : t[j] = s[i]
    <3>1. CASE i < k
      BY <1>3, <1>5, <3>1
    <3>2. CASE i >= k
      <4>1. i + 1 \in (k + 1)..(m + 1) /\ (i + 1) - 1 = i /\ i + 1 \in 1..(m + 1)
        BY <1>3, <3>2
      <4> QED
        BY <1>5, <4>1
    <3> QED
      BY <1>3, <3>1, <3>2
  <2>2. ASSUME NEW j \in 1..(m + 1) PROVE t[j] = p \/ \E i \in 1..m : t[j] = s[i]
    <3>1. CASE j < k
      BY <1>3, <1>5, <3>1
    <3>2. CASE j > k
      <4>1. j \in (k + 1)..(m + 1) /\ j - 1 \in 1..m
        BY <1>3, <3>2
      <4> QED
        BY <1>5, <4>1
    <3> QED
      BY <1>3, <1>5, <3>1, <3>2
  <2>3. k \in 1..(m + 1) /\ t[k] = p
    BY <1>3, <1>5
  <2>4. /\ ToSet(t) = {t[j] : j \in 1..(m + 1)}
        /\ ToSet(s) = {s[i] : i \in 1..m}
    BY <1>1, <1>5 DEF ToSet
  <2>5. ASSUME NEW x, x \in ToSet(t) PROVE x \in ToSet(s) \cup {p}
    <3>1. PICK j \in 1..(m + 1) : x = t[j]
      BY <2>4, <2>5, Zenon
    <3>2. CASE t[j] = p
      BY <3>1, <3>2, Zenon
    <3>3. CASE \E i \in 1..m : t[j] = s[i]
      BY <2>4, <3>1, <3>3, Zenon
    <3> QED
      BY <2>2, <3>2, <3>3, Zenon
  <2>6. ASSUME NEW x, x \in ToSet(s) \cup {p} PROVE x \in ToSet(t)
    <3>1. CASE x = p
      BY <2>3, <2>4, <3>1, Zenon
    <3>2. CASE x \in ToSet(s)
      <4>1. PICK i \in 1..m : x = s[i]
        BY <2>4, <3>2, Zenon
      <4>2. PICK j \in 1..(m + 1) : t[j] = x
        BY <2>1, <4>1, Zenon
      <4> QED
        BY <2>4, <4>2, Zenon
    <3> QED
      BY <2>6, <3>1, <3>2, Zenon
  <2> QED
    BY <2>5, <2>6, Zenon
<1>7. ASSUME NEW i \in 1..m, NEW j \in 1..(i - 1) PROVE ~Before(s[i], s[j])
  BY <1>1 DEF InOrder
<1>8. ASSUME NEW i \in k..m PROVE ~Before(s[i], p)
  <2>1. i \in 1..m /\ s[i] \in OutPkts /\ s[k] \in OutPkts /\ k <= m /\ k \in 1..m
    BY <1>1, <1>3
  <2>2. Before(p, s[k])
    BY <1>3, <2>1
  <2>3. CASE i = k
    <3>1. ~Lexicographic(s[k], p) \/ ~Lexicographic(p, s[k])
      <4>1. PICK q \in OutPkts : q = s[k]
        BY <2>1
      <4>2. ~Lexicographic(q, p) \/ ~Lexicographic(p, q)
        BY PktIs DEF Lexicographic
      <4> QED
        BY <4>1, <4>2
    <3> QED
      BY <2>1, <2>2, <2>3, <3>1, BeforeIs
  <2>4. CASE i # k
    <3>1. k \in 1..(i - 1)
      BY <1>3, <2>4
    <3>2. ~Before(s[i], s[k])
      BY <1>7, <2>1, <3>1
    <3> QED
      BY <2>1, <2>2, <3>2, BeforeTransitive
  <2> QED
    BY <2>3, <2>4
<1>9. ASSUME NEW i \in 1..(m + 1), NEW j \in 1..(i - 1) PROVE ~Before(t[i], t[j])
  <2>1. CASE i < k
    <3>1. i \in 1..m /\ i \in 1..(k - 1) /\ j \in 1..(k - 1)
      BY <1>3, <2>1
    <3>2. t[i] = s[i] /\ t[j] = s[j]
      BY <1>5, <3>1
    <3> QED
      BY <1>7, <3>1, <3>2
  <2>2. CASE i = k
    <3>1. t[i] = p /\ t[j] = s[j] /\ j \in 1..(k - 1)
      BY <1>3, <1>5, <2>2
    <3> QED
      BY <1>3, <3>1
  <2>3. CASE i > k
    <3>1. t[i] = s[i-1] /\ i - 1 \in 1..m /\ i - 1 \in k..m
      <4>1. i \in (k + 1)..(m + 1) /\ i - 1 \in 1..m /\ i - 1 \in k..m
        BY <1>3, <2>3
      <4> QED
        BY <1>5, <4>1
    <3>2. CASE j < k
      <4>1. j \in 1..(k - 1) /\ j \in 1..((i - 1) - 1)
        BY <1>3, <2>3, <3>2
      <4>2. t[j] = s[j] /\ ~Before(s[i-1], s[j])
        BY <1>5, <1>7, <3>1, <4>1
      <4> QED
        BY <3>1, <4>2
    <3>3. CASE j = k
      BY <1>5, <1>8, <3>1, <3>3
    <3>4. CASE j > k
      <4>1. j \in (k + 1)..(m + 1) /\ j - 1 \in 1..((i - 1) - 1)
        BY <1>3, <3>4
      <4>2. t[j] = s[j-1] /\ ~Before(s[i-1], s[j-1])
        BY <1>5, <1>7, <3>1, <4>1
      <4> QED
        BY <3>1, <4>2
    <3> QED
      BY <1>3, <3>2, <3>3, <3>4
  <2> QED
    BY <1>3, <2>1, <2>2, <2>3
<1> QED
  BY <1>4, <1>5, <1>6, <1>9 DEF InOrder

Sorting(f, pkts) ==
  f = [i \in 0..Len(pkts) |-> IF i = 0 THEN <<>> ELSE Insert(f[i-1], pkts[i])]

(* The packets in order, each of them and no other.                        *)
LEMMA SortedIs ==
  ASSUME NEW pkts \in Seq(OutPkts), NEW t, t = Sorted(pkts)
  PROVE  t \in Seq(OutPkts) /\ InOrder(t) /\ ToSet(t) = ToSet(pkts)
<1>1. PICK n \in Nat : n = Len(pkts) /\ DOMAIN pkts = 1..n
  OBVIOUS
<1>2. PICK Y : Y = {s \in Seq(OutPkts) : InOrder(s)}
  OBVIOUS
<1>3. PICK step : step = [z \in Y \X (1..n) |-> Insert(z[1], pkts[z[2]])]
  OBVIOUS
<1>4. \A s \in Y, i \in 1..n : step[<<s, i>>] = Insert(s, pkts[i]) /\ pkts[i] \in OutPkts
  <2>1. \A s \in Y, i \in 1..n : <<s, i>>[1] = s /\ <<s, i>>[2] = i /\ <<s, i>> \in Y \X (1..n)
    OBVIOUS
  <2>2. \A i \in 1..n : pkts[i] \in OutPkts
    BY <1>1
  <2> QED
    BY <1>3, <2>1, <2>2
<1>5. step \in [Y \X (1..n) -> Y]
  <2>1. ASSUME NEW z \in Y \X (1..n) PROVE Insert(z[1], pkts[z[2]]) \in Y
    <3>1. z[1] \in Seq(OutPkts) /\ InOrder(z[1]) /\ pkts[z[2]] \in OutPkts
      BY <1>1, <1>2
    <3> QED
      BY <1>2, <3>1, InsertIs
  <2> QED
    BY <1>3, <2>1
<1>6. <<>> \in Y
  BY <1>2 DEF InOrder
<1>7. PICK f \in [0..n -> Y] : Iterated(f, n, <<>>, step)
  BY <1>5, <1>6, IteratedExists
<1>8. f[0] = <<>> /\ \A i \in 1..n : f[i] = step[<<f[i-1], i>>]
  BY <1>7, IteratedIs
<1>9. Sorting(f, pkts)
  <2>1. ASSUME NEW i \in 0..n PROVE f[i] = IF i = 0 THEN <<>> ELSE Insert(f[i-1], pkts[i])
    <3>1. CASE i = 0
      BY <1>8, <3>1
    <3>2. CASE i # 0
      <4>1. i \in 1..n /\ i - 1 \in 0..n
        BY <3>2
      <4>2. f[i-1] \in Y
        BY <4>1
      <4>3. f[i] = Insert(f[i-1], pkts[i])
        BY <1>4, <1>8, <4>1, <4>2
      <4> QED
        BY <3>2, <4>3
    <3> QED
      BY <3>1, <3>2
  <2>2. f = [i \in 0..n |-> f[i]]
    OBVIOUS
  <2> QED
    BY <1>1, <2>1, <2>2 DEF Sorting
<1>10. PICK g : g = CHOOSE h : h = [i \in 0..Len(pkts) |->
                                     IF i = 0 THEN <<>> ELSE Insert(h[i-1], pkts[i])]
  OBVIOUS
<1>11. Sorting(g, pkts)
  BY <1>9, <1>10 DEF Sorting
<1>12. t = g[n]
  BY <1>1, <1>10 DEF Sorted
<1>13. g[0] = <<>> /\ \A i \in 1..n : g[i] = Insert(g[i-1], pkts[i])
  <2>1. \A i \in 0..n : g[i] = IF i = 0 THEN <<>> ELSE Insert(g[i-1], pkts[i])
    BY <1>1, <1>11 DEF Sorting
  <2>2. 0 \in 0..n /\ \A i \in 1..n : i \in 0..n /\ i # 0
    OBVIOUS
  <2> QED
    BY <2>1, <2>2
<1> DEFINE Has(i, s) == /\ s \in Y
                        /\ \A x : x \in ToSet(s) <=> \E j \in 1..i : pkts[j] = x
<1> DEFINE P == {i \in 0..n : Has(i, g[i])}
<1>14. 0 \in P
  <2>1. ToSet(<<>>) = {}
    BY DEF ToSet
  <2>2. 0 \in 0..n /\ ~ \E j \in 1..0 : TRUE
    OBVIOUS
  <2> QED
    BY <1>6, <1>13, <2>1, <2>2
<1>15. ASSUME NEW i \in 0..(n - 1), i \in P PROVE i + 1 \in P
  <2>1. PICK m, r, s : m \in 1..n /\ m = i + 1 /\ m - 1 = i /\ r = g[i] /\ s = g[m]
    OBVIOUS
  <2>2. Has(i, r)
    BY <1>15, <2>1
  <2>3. s = Insert(r, pkts[m]) /\ pkts[m] \in OutPkts
    BY <1>1, <1>13, <2>1
  <2>4. s \in Y /\ ToSet(s) = ToSet(r) \cup {pkts[m]}
    BY <1>2, <2>2, <2>3, InsertIs
  <2>5. 1..m = (1..i) \cup {m}
    BY <2>1
  <2>6. Has(m, s)
    BY <2>2, <2>4, <2>5
  <2> HIDE DEF Has
  <2> QED
    BY <2>1, <2>6
<1>16. Has(n, t)
  <2> HIDE DEF P
  <2>1. \A i \in 0..n : i \in P
    BY <1>14, <1>15, UpTo
  <2>2. n \in P
    BY <2>1
  <2> QED
    BY <1>12, <2>2 DEF P
<1>17. ToSet(t) = ToSet(pkts)
  BY <1>1, <1>16 DEF ToSet
<1> QED
  BY <1>2, <1>16, <1>17
-----------------------------------------------------------------------------
(* The packets of a connection.                                            *)

(* What was put out of a direction came while its connection was there.    *)
StampedDir(c, d) == \A i \in DOMAIN d.out : d.out[i].ts \in c.first_ts..c.last_ts

Stamped(c) == \A s \in Sides : StampedDir(c, c.dirs[s])

StreamItems(lo, hi) == [ts : lo..hi, bytes : Cells]

LEMMA StreamIs ==
  ASSUME NEW k, NEW t, ConnTrue(k, conns[k], t), Stamped(conns[k]), NEW s \in Sides
  PROVE  Stream(k, s) \in Seq(StreamItems(conns[k].first_ts, conns[k].last_ts))
<1>1. PICK c : c = conns[k]
  OBVIOUS
<1>2. PICK lo \in Nat, hi \in Nat : lo = c.first_ts /\ hi = c.last_ts /\ lo <= hi
  BY <1>1, ConnIs
<1>3. PICK out : out = c.dirs[s].out
  OBVIOUS
<1>4. out \in Seq(OutRecords) /\ \A i \in DOMAIN out : out[i].ts \in lo..hi
  <2>1. PICK d : d = c.dirs[s]
    OBVIOUS
  <2>2. d \in DirRecords
    BY <1>1, <2>1, ConnIs
  <2>3. out = d.out /\ d.out \in Seq(OutRecords)
    BY <1>3, <2>1, <2>2, DirIs
  <2>4. StampedDir(c, d)
    BY <1>1, <2>1 DEF Stamped
  <2> QED
    BY <1>2, <2>3, <2>4 DEF StampedDir
<1>5. PICK Y : Y = StreamItems(lo, hi)
  OBVIOUS
<1>6. \A ts \in lo..hi, b \in Cells : [ts |-> ts, bytes |-> b] \in Y
  BY <1>5 DEF StreamItems
<1> DEFINE part(i) == LET o == out[i]
                          f == Encode(o.msg)
                      IN  [j \in DOMAIN f |-> [ts |-> o.ts, bytes |-> f[j]]]
<1>7. ASSUME NEW i \in DOMAIN out PROVE part(i) \in Seq(Y)
  <2>1. PICK o : o = out[i]
    OBVIOUS
  <2>2. o \in OutRecords /\ o.ts \in lo..hi
    BY <1>4, <2>1
  <2>3. o.msg \in Message
    BY <2>2 DEF OutRecords
  <2>4. PICK f \in Seq(Cells) : f = Encode(o.msg)
    BY <2>3, EncodeIs
  <2>5. PICK n \in Nat : DOMAIN f = 1..n /\ \A j \in 1..n : f[j] \in Cells
    <3>1. Len(f) \in Nat /\ DOMAIN f = 1..Len(f) /\ \A j \in 1..Len(f) : f[j] \in Cells
      OBVIOUS
    <3> QED
      BY <3>1
  <2>6. PICK g : g = [j \in 1..n |-> [ts |-> o.ts, bytes |-> f[j]]]
    OBVIOUS
  <2>7. part(i) = g
    BY <2>1, <2>4, <2>5, <2>6
  <2>8. \A j \in 1..n : [ts |-> o.ts, bytes |-> f[j]] \in Y
    BY <1>6, <2>2, <2>5
  <2>9. g \in Seq(Y)
    BY <2>6, <2>8
  <2> QED
    BY <2>7, <2>9
<1>8. PICK parts : parts = [i \in DOMAIN out |-> part(i)]
  OBVIOUS
<1>9. parts \in Seq(Seq(Y))
  <2>1. PICK n \in Nat : DOMAIN out = 1..n
    BY <1>4
  <2> HIDE DEF part
  <2> QED
    BY <1>7, <1>8, <2>1
<1>10. PICK frames \in Seq(Y) : frames = FlattenSeq(parts)
  BY <1>9, FlattenIs
<1>11. PICK lead : lead = <<[ts |-> lo, bytes |-> Preface]>>
  OBVIOUS
<1>12. lead \in Seq(Y)
  <2>1. lo \in lo..hi /\ Preface \in Cells
    BY <1>2, MssIs DEF Cells
  <2>2. [ts |-> lo, bytes |-> Preface] \in Y
    BY <1>6, <2>1
  <2> QED
    BY <1>11, <2>2
<1>13. Stream(k, s) = IF s = c.client /\ frames # <<>> THEN lead \o frames ELSE frames
  BY <1>1, <1>2, <1>3, <1>8, <1>10, <1>11, Zenon DEF Stream
<1>14. lead \o frames \in Seq(Y)
  BY <1>10, <1>12
<1> QED
  BY <1>1, <1>2, <1>5, <1>10, <1>13, <1>14, Zenon

(* Packets that carry data.                                                *)
DataPkt(lo, hi, p) ==
  /\ p \in OutPkts
  /\ p.phase = 1 /\ p.ts \in lo..hi /\ p.flags = {"PSH", "ACK"}

LEMMA OutPktIs ==
  ASSUME NEW ts \in Nat, NEW phase \in 0..2, NEW s \in Sides,
         NEW flags \in SUBSET {"SYN", "ACK", "PSH", "FIN"}, NEW b \in Cells,
         NEW p, p = OutPkt(ts, phase, s, flags, b)
  PROVE  /\ p \in OutPkts /\ p.ts = ts /\ p.phase = phase /\ p.dir = s /\ p.flags = flags
         /\ p.payload = b
BY DEF OutPkt, OutPkts

LEMMA ChunksOfMss == \A b \in Cells : Chunks(b, Mss) \in Seq(Cells)
<1> SUFFICES ASSUME NEW b \in Cells PROVE Chunks(b, Mss) \in Seq(Cells)
  OBVIOUS
<1>1. PICK m \in Nat \ {0} : m = Mss
  BY MssIs
<1>2. PICK x : x = Chunks(b, m)
  OBVIOUS
<1>3. x \in Seq(Cells)
  BY <1>2, ChunksAre, Zenon
<1> QED
  BY <1>1, <1>2, <1>3, Zenon

(* The packets that a piece of a stream is cut into.                       *)
PartOf(x, s) ==
  LET c == Chunks(x.bytes, Mss) IN [j \in DOMAIN c |-> OutPkt(x.ts, 1, s, {"PSH", "ACK"}, c[j])]

LEMMA PartIs ==
  ASSUME NEW lo \in Nat, NEW hi \in Nat, NEW x \in StreamItems(lo, hi), NEW s \in Sides,
         NEW Y, Y = {p \in OutPkts : DataPkt(lo, hi, p)}
  PROVE  PartOf(x, s) \in Seq(Y)
<1>1. PICK ts, b : ts = x.ts /\ b = x.bytes
  OBVIOUS
<1>2. ts \in lo..hi /\ b \in Cells
  BY <1>1 DEF StreamItems
<1>3. PICK c : c = Chunks(b, Mss)
  OBVIOUS
<1>4. c \in Seq(Cells)
  BY <1>2, <1>3, ChunksOfMss, Zenon
<1>5. PICK n \in Nat : DOMAIN c = 1..n /\ \A j \in 1..n : c[j] \in Cells
  <2>1. Len(c) \in Nat /\ DOMAIN c = 1..Len(c) /\ \A j \in 1..Len(c) : c[j] \in Cells
    BY <1>4
  <2> QED
    BY <2>1
<1>6. PICK g : g = [j \in 1..n |-> OutPkt(ts, 1, s, {"PSH", "ACK"}, c[j])]
  OBVIOUS
<1>7. PartOf(x, s) = g
  BY <1>1, <1>3, <1>5, <1>6, Zenon DEF PartOf
<1>8. ASSUME NEW j \in 1..n PROVE OutPkt(ts, 1, s, {"PSH", "ACK"}, c[j]) \in Y
  <2>1. PICK p : p = OutPkt(ts, 1, s, {"PSH", "ACK"}, c[j])
    OBVIOUS
  <2>2. ts \in Nat /\ 1 \in 0..2 /\ {"PSH", "ACK"} \in SUBSET {"SYN", "ACK", "PSH", "FIN"}
    BY <1>2
  <2>3. p \in OutPkts /\ p.ts = ts /\ p.phase = 1 /\ p.flags = {"PSH", "ACK"}
    BY <1>5, <2>1, <2>2, OutPktIs
  <2>4. DataPkt(lo, hi, p)
    BY <1>2, <2>3 DEF DataPkt
  <2> QED
    BY <2>1, <2>3, <2>4
<1>9. g \in Seq(Y)
  BY <1>6, <1>8
<1> QED
  BY <1>7, <1>9

LEMMA DataPktsAre ==
  ASSUME NEW lo \in Nat, NEW hi \in Nat, NEW stream \in Seq(StreamItems(lo, hi)), NEW s \in Sides
  PROVE  DataPkts(stream, s) \in Seq({p \in OutPkts : DataPkt(lo, hi, p)})
<1>1. PICK Y : Y = {p \in OutPkts : DataPkt(lo, hi, p)}
  OBVIOUS
<1>2. ASSUME NEW i \in DOMAIN stream PROVE PartOf(stream[i], s) \in Seq(Y)
  <2>1. PICK x \in StreamItems(lo, hi) : x = stream[i]
    OBVIOUS
  <2> QED
    BY <1>1, <2>1, PartIs
<1>3. PICK parts : parts = [i \in DOMAIN stream |-> PartOf(stream[i], s)]
  OBVIOUS
<1>4. parts \in Seq(Seq(Y))
  <2>1. PICK n \in Nat : DOMAIN stream = 1..n
    OBVIOUS
  <2> QED
    BY <1>2, <1>3, <2>1
<1>5. DataPkts(stream, s) = FlattenSeq(parts)
  BY <1>3, Zenon DEF DataPkts, PartOf
<1>6. FlattenSeq(parts) \in Seq(Y)
  BY <1>4, FlattenIs
<1> QED
  BY <1>1, <1>5, <1>6

(* What follows the first two packets of a connection.                     *)
LatePkt(lo, hi, p) ==
  /\ p \in OutPkts /\ "SYN" \notin p.flags /\ p.ts \in lo..hi
  /\ p.phase # 1 => p.payload = <<>>
  /\ "FIN" \in p.flags => p.phase = 2 /\ p.ts = hi
  /\ p.phase = 0 => p.ts = lo

(* From place n on there are only such.                                    *)
LateFrom(lo, hi, n, s) == \A i \in DOMAIN s : i >= n => LatePkt(lo, hi, s[i])

(* A sequence that begins as s does, and has only such from its third on.  *)
Prolongs(lo, hi, s, u) ==
  /\ u \in Seq(OutPkts) /\ Len(u) >= 2 /\ LateFrom(lo, hi, 3, u)
  /\ u[1] = s[1] /\ u[2] = s[2]

LEMMA LateBoth ==
  ASSUME NEW lo, NEW hi, NEW s \in Seq(OutPkts), Len(s) >= 2, LateFrom(lo, hi, 3, s),
         NEW t \in Seq(OutPkts), LateFrom(lo, hi, 1, t), NEW u, u = s \o t
  PROVE  Prolongs(lo, hi, s, u)
<1>1. PICK m \in Nat, n \in Nat : m = Len(s) /\ n = Len(t) /\ DOMAIN s = 1..m /\ DOMAIN t = 1..n
  OBVIOUS
<1>2. u \in Seq(OutPkts) /\ IsBoth(s, m, t, n, u)
  BY <1>1, BothIs, Zenon
<1>3. /\ Len(u) = m + n /\ DOMAIN u = 1..(m + n)
      /\ \A i \in 1..m : u[i] = s[i]
      /\ \A i \in (m + 1)..(m + n) : u[i] = t[i - m]
  <2>1. Len(u) = m + n
    BY <1>2, Zenon DEF IsBoth
  <2>2. DOMAIN u = 1..(m + n)
    BY <1>2, <2>1
  <2> QED
    BY <1>2, <2>1, <2>2, Zenon DEF IsBoth
<1>4. ASSUME NEW i \in 1..(m + n), i >= 3 PROVE LatePkt(lo, hi, u[i])
  <2>1. CASE i <= m
    <3>1. i \in 1..m
      BY <1>1, <2>1
    <3>2. LatePkt(lo, hi, s[i])
      BY <1>1, <1>4, <3>1, Zenon DEF LateFrom
    <3> QED
      BY <1>3, <3>1, <3>2, Zenon
  <2>2. CASE i > m
    <3>1. i - m \in 1..n /\ i - m >= 1 /\ i \in (m + 1)..(m + n)
      BY <2>2
    <3>2. LatePkt(lo, hi, t[i - m])
      BY <1>1, <3>1 DEF LateFrom
    <3> QED
      BY <1>3, <3>1, <3>2, Zenon
  <2>3. i <= m \/ i > m
    BY <1>1
  <2> QED
    BY <2>1, <2>2, <2>3, Zenon
<1>5. LateFrom(lo, hi, 3, u)
  BY <1>3, <1>4 DEF LateFrom
<1>6. m >= 2 /\ 1 \in 1..m /\ 2 \in 1..m /\ Len(u) >= 2
  BY <1>1, <1>3
<1> QED
  BY <1>2, <1>3, <1>5, <1>6, Zenon DEF Prolongs

LEMMA DataLate ==
  ASSUME NEW lo, NEW hi, NEW t \in Seq({p \in OutPkts : DataPkt(lo, hi, p)})
  PROVE  t \in Seq(OutPkts) /\ LateFrom(lo, hi, 1, t)
<1>1. PICK n \in Nat : n = Len(t) /\ DOMAIN t = 1..n
  OBVIOUS
<1>2. \A i \in 1..n : t[i] \in OutPkts /\ DataPkt(lo, hi, t[i])
  BY <1>1
<1>3. t \in Seq(OutPkts)
  <2>1. t = [i \in 1..n |-> t[i]]
    BY <1>1
  <2> QED
    BY <1>2, <2>1
<1>4. ASSUME NEW p \in OutPkts, DataPkt(lo, hi, p) PROVE LatePkt(lo, hi, p)
  BY <1>4 DEF DataPkt, LatePkt
<1> QED
  BY <1>1, <1>2, <1>3, <1>4 DEF LateFrom

(* The packets of a connection with client s that was there from lo to hi. *)
Handshake(lo, s) ==
  << OutPkt(lo, 0, s, {"SYN"}, <<>>), OutPkt(lo, 0, Other(s), {"SYN", "ACK"}, <<>>),
     OutPkt(lo, 0, s, {"ACK"}, <<>>) >>

Close(hi, s) ==
  << OutPkt(hi, 2, s, {"FIN", "ACK"}, <<>>), OutPkt(hi, 2, Other(s), {"FIN", "ACK"}, <<>>) >>

FirstPkt(lo, s, p) == p.ts = lo /\ p.phase = 0 /\ p.dir = s /\ p.flags = {"SYN"} /\ p.payload = <<>>

SecondPkt(lo, s, p) ==
  p.ts = lo /\ p.phase = 0 /\ p.dir = Other(s) /\ p.flags = {"SYN", "ACK"} /\ p.payload = <<>>

LEMMA HandshakeIs ==
  ASSUME NEW lo \in Nat, NEW hi \in Nat, lo <= hi, NEW s \in Sides, NEW h, h = Handshake(lo, s)
  PROVE  /\ h \in Seq(OutPkts) /\ Len(h) >= 2 /\ LateFrom(lo, hi, 3, h)
         /\ FirstPkt(lo, s, h[1]) /\ SecondPkt(lo, s, h[2])
<1>1. PICK p, q, r : /\ p = OutPkt(lo, 0, s, {"SYN"}, <<>>)
                     /\ q = OutPkt(lo, 0, Other(s), {"SYN", "ACK"}, <<>>)
                     /\ r = OutPkt(lo, 0, s, {"ACK"}, <<>>)
  OBVIOUS
<1>2. /\ 0 \in 0..2 /\ Other(s) \in Sides /\ <<>> \in Cells
      /\ {"SYN"} \in SUBSET {"SYN", "ACK", "PSH", "FIN"}
      /\ {"SYN", "ACK"} \in SUBSET {"SYN", "ACK", "PSH", "FIN"}
      /\ {"ACK"} \in SUBSET {"SYN", "ACK", "PSH", "FIN"}
  BY OtherSide, CellsAre
<1>3. p \in OutPkts /\ FirstPkt(lo, s, p)
  BY <1>1, <1>2, OutPktIs DEF FirstPkt
<1>4. q \in OutPkts /\ SecondPkt(lo, s, q)
  BY <1>1, <1>2, OutPktIs DEF SecondPkt
<1>5. r \in OutPkts /\ LatePkt(lo, hi, r)
  <2>1. r \in OutPkts /\ r.ts = lo /\ r.phase = 0 /\ r.flags = {"ACK"} /\ r.payload = <<>>
    BY <1>1, <1>2, OutPktIs
  <2>2. lo \in lo..hi
    OBVIOUS
  <2> QED
    BY <2>1, <2>2 DEF LatePkt
<1>6. h = <<p, q, r>>
  BY <1>1 DEF Handshake
<1>7. h \in Seq(OutPkts) /\ Len(h) = 3 /\ DOMAIN h = 1..3 /\ h[1] = p /\ h[2] = q /\ h[3] = r
  BY <1>3, <1>4, <1>5, <1>6
<1>8. LateFrom(lo, hi, 3, h)
  <2>1. \A i \in 1..3 : i >= 3 => i = 3
    OBVIOUS
  <2> QED
    BY <1>5, <1>7, <2>1 DEF LateFrom
<1> QED
  BY <1>3, <1>4, <1>7, <1>8

LEMMA CloseIs ==
  ASSUME NEW lo \in Nat, NEW hi \in Nat, lo <= hi, NEW s \in Sides, NEW h, h = Close(hi, s)
  PROVE  h \in Seq(OutPkts) /\ LateFrom(lo, hi, 1, h)
<1>1. PICK p, q : /\ p = OutPkt(hi, 2, s, {"FIN", "ACK"}, <<>>)
                  /\ q = OutPkt(hi, 2, Other(s), {"FIN", "ACK"}, <<>>)
  OBVIOUS
<1>2. /\ 2 \in 0..2 /\ Other(s) \in Sides /\ <<>> \in Cells
      /\ {"FIN", "ACK"} \in SUBSET {"SYN", "ACK", "PSH", "FIN"}
  BY OtherSide, CellsAre
<1>3. ASSUME NEW x \in Sides, NEW z, z = OutPkt(hi, 2, x, {"FIN", "ACK"}, <<>>)
      PROVE  z \in OutPkts /\ LatePkt(lo, hi, z)
  <2>1. z \in OutPkts /\ z.ts = hi /\ z.phase = 2 /\ z.flags = {"FIN", "ACK"} /\ z.payload = <<>>
    BY <1>2, <1>3, OutPktIs
  <2>2. hi \in lo..hi
    OBVIOUS
  <2> QED
    BY <2>1, <2>2 DEF LatePkt
<1>4. p \in OutPkts /\ LatePkt(lo, hi, p) /\ q \in OutPkts /\ LatePkt(lo, hi, q)
  BY <1>1, <1>2, <1>3
<1>5. h = <<p, q>>
  BY <1>1 DEF Close
<1>6. h \in Seq(OutPkts) /\ DOMAIN h = 1..2 /\ h[1] = p /\ h[2] = q
  BY <1>4, <1>5
<1>7. \A i \in 1..2 : i = 1 \/ i = 2
  OBVIOUS
<1> QED
  BY <1>4, <1>6, <1>7 DEF LateFrom

(* What ConnPkts puts together.                                            *)
BuiltPkts(i, c) ==
  LET data(x) == IF Taken(i) THEN <<>> ELSE DataPkts(Stream(order[i], x), x)
      w == Handshake(c.first_ts, c.client) \o data(c.client) \o data(Other(c.client))
           \o Close(EndTime(c), c.client)
  IN  [n \in DOMAIN w |-> [w[n] EXCEPT !.conn = i, !.n = n]]

(* p is packet n of the connection at place i of order.                    *)
PktOf(c, i, n, p) ==
  /\ p.conn = i /\ p.n = n
  /\ n = 1 => FirstPkt(c.first_ts, c.client, p)
  /\ n = 2 => SecondPkt(c.first_ts, c.client, p)
  /\ n >= 3 => LatePkt(c.first_ts, c.last_ts, p)

LEMMA ConnPktsAre ==
  ASSUME NEW i \in DOMAIN order, DOMAIN order \subseteq Nat, NEW t,
         ConnTrue(order[i], conns[order[i]], t), Stamped(conns[order[i]])
  PROVE  /\ ConnPkts(i) \in Seq(OutPkts) /\ Len(ConnPkts(i)) >= 2
         /\ \A n \in DOMAIN ConnPkts(i) : PktOf(conns[order[i]], i, n, ConnPkts(i)[n])
<1>1. PICK k, c : k = order[i] /\ c = conns[k]
  OBVIOUS
<1>2. PICK lo \in Nat, hi \in Nat : lo = c.first_ts /\ hi = c.last_ts /\ lo <= hi
  BY <1>1, ConnIs
<1>3. PICK s \in Sides : s = c.client
  BY <1>1, ConnIs
<1> DEFINE data(x) == IF Taken(i) THEN <<>> ELSE DataPkts(Stream(k, x), x)
<1>4. ASSUME NEW x \in Sides PROVE data(x) \in Seq(OutPkts) /\ LateFrom(lo, hi, 1, data(x))
  <2>1. data(x) \in Seq({p \in OutPkts : DataPkt(lo, hi, p)})
    <3>1. Stream(k, x) \in Seq(StreamItems(lo, hi))
      BY <1>1, <1>2, StreamIs
    <3>2. DataPkts(Stream(k, x), x) \in Seq({p \in OutPkts : DataPkt(lo, hi, p)})
      BY <3>1, DataPktsAre
    <3>3. <<>> \in Seq({p \in OutPkts : DataPkt(lo, hi, p)})
      OBVIOUS
    <3> QED
      BY <3>2, <3>3
  <2> HIDE DEF data
  <2> QED
    BY <2>1, DataLate
<1>5. PICK a, b : a = data(s) /\ b = data(Other(s))
  OBVIOUS
<1>6. /\ a \in Seq(OutPkts) /\ LateFrom(lo, hi, 1, a)
      /\ b \in Seq(OutPkts) /\ LateFrom(lo, hi, 1, b)
  <2> HIDE DEF data
  <2> QED
    BY <1>4, <1>5, OtherSide
<1>7. PICK h, e : h = Handshake(lo, s) /\ e = Close(hi, s)
  OBVIOUS
<1>8. /\ h \in Seq(OutPkts) /\ Len(h) >= 2 /\ LateFrom(lo, hi, 3, h)
      /\ FirstPkt(lo, s, h[1]) /\ SecondPkt(lo, s, h[2])
      /\ e \in Seq(OutPkts) /\ LateFrom(lo, hi, 1, e)
  BY <1>2, <1>7, HandshakeIs, CloseIs
<1>9. PICK f, g, w : f = h \o a /\ g = f \o b /\ w = g \o e
  OBVIOUS
<1>10. /\ f \in Seq(OutPkts) /\ Len(f) >= 2 /\ LateFrom(lo, hi, 3, f)
       /\ f[1] = h[1] /\ f[2] = h[2]
  <2>1. Prolongs(lo, hi, h, f)
    BY <1>6, <1>8, <1>9, LateBoth, Zenon
  <2> QED
    BY <2>1 DEF Prolongs
<1>11. /\ g \in Seq(OutPkts) /\ Len(g) >= 2 /\ LateFrom(lo, hi, 3, g)
       /\ g[1] = f[1] /\ g[2] = f[2]
  <2>1. Prolongs(lo, hi, f, g)
    BY <1>6, <1>9, <1>10, LateBoth, Zenon
  <2> QED
    BY <2>1 DEF Prolongs
<1>12. /\ w \in Seq(OutPkts) /\ Len(w) >= 2 /\ LateFrom(lo, hi, 3, w)
       /\ w[1] = g[1] /\ w[2] = g[2]
  <2>1. Prolongs(lo, hi, g, w)
    BY <1>8, <1>9, <1>11, LateBoth, Zenon
  <2> QED
    BY <2>1 DEF Prolongs
<1>13. EndTime(c) = hi
  <2>1. PICK x : x = Max({hi, lo})
    OBVIOUS
  <2>2. x \in {hi, lo} /\ x >= hi
    BY <2>1, MaxOf
  <2>3. x = hi
    BY <1>2, <2>2
  <2>4. EndTime(c) = x
    BY <1>2, <2>1, Zenon DEF EndTime
  <2> QED
    BY <2>3, <2>4, Zenon
<1>14. ConnPkts(i) = [n \in DOMAIN w |-> [w[n] EXCEPT !.conn = i, !.n = n]]
  <2> DEFINE W == Handshake(c.first_ts, c.client) \o data(c.client) \o data(Other(c.client))
                  \o Close(EndTime(c), c.client)
  <2>1. ConnPkts(i) = [n \in DOMAIN W |-> [W[n] EXCEPT !.conn = i, !.n = n]]
    <3>1. ConnPkts(i) = BuiltPkts(i, conns[order[i]])
      BY Zenon DEF ConnPkts, BuiltPkts, Handshake, Close
    <3> QED
      BY <1>1, <3>1, Zenon DEF BuiltPkts
  <2>2. W = w
    <3>1. /\ Handshake(c.first_ts, c.client) = h /\ data(c.client) = a
          /\ data(Other(c.client)) = b /\ Close(EndTime(c), c.client) = e
      <4> HIDE DEF data
      <4> QED
        BY <1>2, <1>3, <1>5, <1>7, <1>13, Zenon
    <3> HIDE DEF data
    <3> QED
      BY <1>9, <3>1, Zenon
  <2> HIDE DEF W
  <2> QED
    BY <2>1, <2>2, Zenon
<1>15. PICK m \in Nat : m = Len(w) /\ DOMAIN w = 1..m /\ m >= 2
  BY <1>12
<1>16. ASSUME NEW n \in 1..m
       PROVE  [w[n] EXCEPT !.conn = i, !.n = n] \in OutPkts
              /\ PktOf(c, i, n, [w[n] EXCEPT !.conn = i, !.n = n])
  <2>1. PICK p, q : p = w[n] /\ q = [w[n] EXCEPT !.conn = i, !.n = n]
    OBVIOUS
  <2>2. p \in OutPkts
    BY <1>12, <1>15, <2>1
  <2>3. /\ q \in OutPkts /\ q.conn = i /\ q.n = n /\ q.ts = p.ts /\ q.phase = p.phase
        /\ q.dir = p.dir /\ q.flags = p.flags /\ q.payload = p.payload
    <3>1. i \in Nat /\ n \in Nat
      BY <1>15
    <3>2. q = [p EXCEPT !.conn = i, !.n = n]
      BY <2>1
    <3> QED
      BY <2>2, <3>1, <3>2 DEF OutPkts
  <2>4. n = 1 => FirstPkt(lo, s, q)
    <3>1. n = 1 => FirstPkt(lo, s, p)
      BY <1>8, <1>10, <1>11, <1>12, <2>1
    <3> QED
      BY <2>3, <3>1 DEF FirstPkt
  <2>5. n = 2 => SecondPkt(lo, s, q)
    <3>1. n = 2 => SecondPkt(lo, s, p)
      BY <1>8, <1>10, <1>11, <1>12, <2>1
    <3> QED
      BY <2>3, <3>1 DEF SecondPkt
  <2>6. n >= 3 => LatePkt(lo, hi, q)
    <3>1. n >= 3 => LatePkt(lo, hi, p)
      BY <1>12, <1>15, <2>1 DEF LateFrom
    <3> QED
      BY <2>3, <3>1 DEF LatePkt
  <2>7. PktOf(c, i, n, q)
    BY <1>2, <1>3, <2>3, <2>4, <2>5, <2>6 DEF PktOf
  <2> QED
    BY <2>1, <2>3, <2>7, Zenon
<1>17. PICK z : z = ConnPkts(i)
  OBVIOUS
<1>18. z = [n \in 1..m |-> z[n]] /\ \A n \in 1..m : z[n] \in OutPkts /\ PktOf(c, i, n, z[n])
  <2>1. z = [n \in 1..m |-> [w[n] EXCEPT !.conn = i, !.n = n]]
    BY <1>14, <1>15, <1>17, Zenon
  <2>2. \A n \in 1..m : z[n] = [w[n] EXCEPT !.conn = i, !.n = n]
    BY <2>1, Zenon
  <2>3. z = [n \in 1..m |-> z[n]]
    BY <2>1, Zenon
  <2> QED
    BY <1>16, <2>2, <2>3, Zenon
<1>19. z \in Seq(OutPkts) /\ Len(z) = m /\ DOMAIN z = 1..m
  BY <1>18
<1> QED
  BY <1>1, <1>15, <1>17, <1>18, <1>19

(* Every connection of order has its first and last packets in time.       *)
ConnsTrue ==
  /\ order \in Seq(Keys)
  /\ \A i \in DOMAIN order : \E t : ConnTrue(order[i], conns[order[i]], t)
  /\ \A i \in DOMAIN order : Stamped(conns[order[i]])

(* A packet of an output connection, and which it is.                      *)
Ours(p) ==
  /\ p \in OutPkts /\ p.conn \in DOMAIN order /\ p.n >= 1
  /\ PktOf(conns[order[p.conn]], p.conn, p.n, p)

(* Packet n of connection i is among s.                                    *)
Among(s, i, n) == \E j \in DOMAIN s : s[j].conn = i /\ s[j].n = n

(* The packets of the output, those of the handshakes among them.          *)
Output(s) ==
  /\ s \in Seq(OutPkts)
  /\ \A j \in DOMAIN s : Ours(s[j])
  /\ \A i \in DOMAIN order : Among(s, i, 1) /\ Among(s, i, 2)

LEMMA ConnOurs ==
  ASSUME ConnsTrue, NEW i \in DOMAIN order, NEW z, z = ConnPkts(i)
  PROVE  /\ z \in Seq(OutPkts) /\ Len(z) >= 2
         /\ \A n \in DOMAIN z : Ours(z[n]) /\ z[n].conn = i /\ z[n].n = n
<1>1. DOMAIN order \subseteq Nat
  BY DEF ConnsTrue
<1>2. PICK t : ConnTrue(order[i], conns[order[i]], t)
  BY DEF ConnsTrue
<1>3. Stamped(conns[order[i]])
  BY DEF ConnsTrue
<1>4. /\ z \in Seq(OutPkts) /\ Len(z) >= 2
      /\ \A n \in DOMAIN z : PktOf(conns[order[i]], i, n, z[n])
  BY <1>1, <1>2, <1>3, ConnPktsAre
<1>5. ASSUME NEW n \in DOMAIN z PROVE Ours(z[n]) /\ z[n].conn = i /\ z[n].n = n
  <2>1. PktOf(conns[order[i]], i, n, z[n])
    BY <1>4
  <2>2. z[n].conn = i /\ z[n].n = n
    BY <2>1 DEF PktOf
  <2>3. z[n] \in OutPkts /\ n >= 1
    BY <1>4
  <2> QED
    BY <2>1, <2>2, <2>3 DEF Ours
<1> QED
  BY <1>4, <1>5

LEMMA OutputIs ==
  ASSUME ConnsTrue, NEW s, s = Sorted(FlattenSeq([i \in DOMAIN order |-> ConnPkts(i)]))
  PROVE  Output(s) /\ InOrder(s)
<1>1. PICK all : all = [i \in DOMAIN order |-> ConnPkts(i)]
  OBVIOUS
<1>2. PICK n \in Nat : DOMAIN order = 1..n
  BY DEF ConnsTrue
<1>3. all \in Seq(Seq(OutPkts))
  <2>1. \A i \in 1..n : ConnPkts(i) \in Seq(OutPkts)
    BY <1>2, ConnOurs
  <2> QED
    BY <1>1, <1>2, <2>1
<1>4. PICK flat : flat = FlattenSeq(all)
  OBVIOUS
<1>5. /\ flat \in Seq(OutPkts)
      /\ \A x : x \in ToSet(flat) <=> \E i \in DOMAIN all : x \in ToSet(all[i])
  BY <1>3, <1>4, FlattenIs
<1>6. s \in Seq(OutPkts) /\ InOrder(s) /\ ToSet(s) = ToSet(flat)
  BY <1>1, <1>4, <1>5, SortedIs
<1>7. \A x : (\E j \in DOMAIN s : s[j] = x) <=> \E i \in 1..n : \E k \in DOMAIN all[i] : all[i][k] = x
  <2>1. DOMAIN all = 1..n
    BY <1>1, <1>2
  <2>2. \A x : x \in ToSet(s) <=> \E i \in 1..n : x \in ToSet(all[i])
    BY <1>5, <1>6, <2>1
  <2> QED
    BY <2>2 DEF ToSet
<1>8. ASSUME NEW j \in DOMAIN s PROVE Ours(s[j])
  <2>1. PICK i \in 1..n : \E k \in DOMAIN all[i] : all[i][k] = s[j]
    BY <1>7
  <2>2. PICK z : z = all[i] /\ z = ConnPkts(i)
    BY <1>1, <1>2
  <2>3. \A k \in DOMAIN z : Ours(z[k])
    BY <1>2, <2>2, ConnOurs
  <2> QED
    BY <2>1, <2>2, <2>3
<1>9. ASSUME NEW i \in 1..n PROVE Among(s, i, 1) /\ Among(s, i, 2)
  <2>1. PICK z : z = all[i] /\ z = ConnPkts(i)
    BY <1>1, <1>2
  <2>2. z \in Seq(OutPkts) /\ Len(z) >= 2 /\ \A k \in DOMAIN z : z[k].conn = i /\ z[k].n = k
    BY <1>2, <2>1, ConnOurs
  <2>3. ASSUME NEW k \in {1, 2} PROVE Among(s, i, k)
    <3>1. k \in DOMAIN z
      BY <2>2
    <3>2. \E j \in DOMAIN s : s[j] = z[k]
      BY <1>7, <2>1, <3>1
    <3> QED
      BY <2>2, <3>1, <3>2 DEF Among
  <2> QED
    BY <2>3
<1> QED
  BY <1>2, <1>6, <1>8, <1>9 DEF Output

(* Two packets in order, of which the first is the earlier.                *)
LEMMA BeforeThen ==
  ASSUME NEW s \in Seq(OutPkts), InOrder(s), NEW i \in DOMAIN s, NEW j \in DOMAIN s,
         Before(s[j], s[i])
  PROVE  j < i
<1>1. PICK n \in Nat : DOMAIN s = 1..n
  OBVIOUS
<1>2. CASE i < j
  <2>1. i \in 1..(j - 1)
    BY <1>1, <1>2
  <2>2. ~Before(s[j], s[i])
    BY <2>1 DEF InOrder
  <2> QED
    BY <2>2
<1>3. CASE i = j
  <2>1. PICK p \in OutPkts : p = s[i]
    OBVIOUS
  <2>2. ~Before(p, p)
    <3>1. ~Lexicographic(p, p)
      BY PktIs DEF Lexicographic
    <3> QED
      BY <3>1, BeforeIs
  <2> QED
    BY <1>3, <2>1, <2>2
<1> QED
  BY <1>1, <1>2, <1>3
-----------------------------------------------------------------------------
(* The rows of the output.                                                 *)

RowRecords ==
  [key : Keys, from : Sides, ts : Nat, flags : SUBSET {"SYN", "ACK", "PSH", "FIN"},
   seq : Int, ack : Int, payload : Cells]

Nexts == [DOMAIN order -> [Sides -> Int]]

Writers == [next : Nexts, rows : Seq(RowRecords)]

WriteRow(v, p) ==
  LET seq == v.next[p.conn][p.dir]
      ack == IF "ACK" \in p.flags THEN v.next[p.conn][Other(p.dir)] ELSE 0
  IN  [next |-> [v.next EXCEPT ![p.conn][p.dir] = (seq + Consumed(p)) % SeqSpace],
       rows |-> Append(v.rows,
         [key |-> order[p.conn], from |-> p.dir, ts |-> p.ts, flags |-> p.flags,
          seq |-> seq, ack |-> ack, payload |-> p.payload])]

(* The row of a packet.                                                    *)
RowOf(p, r) ==
  /\ r \in RowRecords
  /\ r.key = order[p.conn] /\ r.from = p.dir /\ r.ts = p.ts /\ r.flags = p.flags
  /\ r.payload = p.payload

EndOf(r) == (r.seq + Consumed(r)) % SeqSpace

(* e is v after packet p is written.                                       *)
Wrote(v, p, e) ==
  /\ e \in Writers
  /\ \E r \in RowRecords : /\ RowOf(p, r) /\ e.rows = Append(v.rows, r)
                           /\ "ACK" \in p.flags => r.ack = v.next[p.conn][Other(p.dir)]
                           /\ e.next[p.conn][p.dir] = EndOf(r)
  /\ \A i \in DOMAIN order : \A s \in Sides :
       (i = p.conn /\ s = p.dir) \/ e.next[i][s] = v.next[i][s]

LEMMA WriteRowIs ==
  ASSUME ConnsTrue, NEW v \in Writers, NEW p, Ours(p), NEW e, e = WriteRow(v, p)
  PROVE  Wrote(v, p, e)
<1>1. PICK i, s : i = p.conn /\ s = p.dir
  OBVIOUS
<1>2. /\ p \in OutPkts /\ i \in DOMAIN order /\ s \in Sides /\ p.ts \in Nat
      /\ p.flags \in SUBSET {"SYN", "ACK", "PSH", "FIN"} /\ p.payload \in Cells
  BY <1>1 DEF Ours, OutPkts
<1>3. PICK next, rows : next = v.next /\ rows = v.rows
  OBVIOUS
<1>4. next \in [DOMAIN order -> [Sides -> Int]] /\ rows \in Seq(RowRecords)
  BY <1>3 DEF Writers, Nexts
<1>5. PICK seq \in Int : seq = next[i][s]
  BY <1>2, <1>4
<1>6. PICK ack \in Int : ack = IF "ACK" \in p.flags THEN next[i][Other(s)] ELSE 0
  BY <1>2, <1>4, OtherSide
<1>7. order[i] \in Keys
  BY <1>2 DEF ConnsTrue
<1>8. PICK r : r = [key |-> order[i], from |-> s, ts |-> p.ts, flags |-> p.flags,
                    seq |-> seq, ack |-> ack, payload |-> p.payload]
  OBVIOUS
<1>9. r \in RowRecords /\ r.seq = seq /\ r.ack = ack /\ RowOf(p, r)
  <2>1. r \in RowRecords
    BY <1>2, <1>7, <1>8 DEF RowRecords
  <2>2. /\ r.key = order[i] /\ r.from = s /\ r.ts = p.ts /\ r.flags = p.flags
        /\ r.payload = p.payload /\ r.seq = seq /\ r.ack = ack
    BY <1>8
  <2> QED
    BY <1>1, <2>1, <2>2 DEF RowOf
<1>10. PICK end : end = (seq + Consumed(p)) % SeqSpace
  OBVIOUS
<1>11. end = EndOf(r) /\ end \in Int
  <2>1. r.payload = p.payload /\ r.flags = p.flags
    BY <1>9 DEF RowOf
  <2>2. Consumed(r) = Consumed(p)
    BY <2>1 DEF Consumed
  <2>3. PICK c \in Nat : c = Consumed(p)
    <3>1. PICK b \in Cells : b = p.payload
      BY <1>2
    <3>2. PICK n \in Nat : n = Len(b)
      BY DEF Cells
    <3>3. Consumed(p) = n + 1 \/ Consumed(p) = n + 0
      BY <3>1, <3>2, Zenon DEF Consumed
    <3>4. n + 1 \in Nat /\ n + 0 \in Nat
      OBVIOUS
    <3> QED
      BY <3>3, <3>4
  <2>4. PICK m \in Nat \ {0} : m = SeqSpace
    BY MssIs
  <2>5. (seq + c) % m \in Int
    OBVIOUS
  <2> QED
    BY <1>9, <1>10, <2>2, <2>3, <2>4, <2>5 DEF EndOf
<1>12. PICK after : after = [next EXCEPT ![i][s] = end]
  OBVIOUS
<1>13. /\ after \in [DOMAIN order -> [Sides -> Int]] /\ after[i][s] = end
       /\ \A j \in DOMAIN order : \A t \in Sides : (j = i /\ t = s) \/ after[j][t] = next[j][t]
  BY <1>2, <1>4, <1>11, <1>12
<1>14. PICK more \in Seq(RowRecords) : more = Append(rows, r)
  <2>1. Append(rows, r) \in Seq(RowRecords)
    BY <1>4, <1>9
  <2> QED
    BY <2>1, Zenon
<1>15. e = [next |-> after, rows |-> more]
  BY <1>1, <1>3, <1>5, <1>6, <1>8, <1>10, <1>12, <1>14, Zenon DEF WriteRow
<1>16. e \in Writers /\ e.next = after /\ e.rows = more
  BY <1>13, <1>15 DEF Writers, Nexts
<1>17. "ACK" \in p.flags => r.ack = v.next[p.conn][Other(p.dir)]
  BY <1>1, <1>3, <1>6, <1>9
<1> QED
  BY <1>1, <1>3, <1>9, <1>11, <1>13, <1>14, <1>16, <1>17 DEF Wrote

(* Packet j is one of side d of connection i.                              *)
SentBy(s, i, d, j) == s[j].conn = i /\ s[j].dir = d

(* x is where one of the first n packets of a side ends, if it has any.    *)
Left(s, rows, n, i, d, x) ==
  (\E j \in 1..n : SentBy(s, i, d, j)) =>
    \E j \in 1..n : SentBy(s, i, d, j) /\ x = EndOf(rows[j])

(* The first n packets of s are written.                                   *)
Account(s, n, v) ==
  /\ v \in Writers /\ Len(v.rows) = n
  /\ \A j \in 1..n : RowOf(s[j], v.rows[j])
  /\ \A i \in DOMAIN order : \A d \in Sides : Left(s, v.rows, n, i, d, v.next[i][d])
  /\ \A j \in 1..n : "ACK" \in s[j].flags =>
       Left(s, v.rows, j - 1, s[j].conn, Other(s[j].dir), v.rows[j].ack)

(* The first n rows are the same.                                          *)
SameRows(rows, more, n) == \A j \in 1..n : more[j] = rows[j]

LEMMA FewerRows ==
  ASSUME NEW n \in Nat, NEW m \in Nat, m <= n, NEW rows, NEW more, SameRows(rows, more, n)
  PROVE  SameRows(rows, more, m)
<1>1. \A j \in 1..m : j \in 1..n
  OBVIOUS
<1> QED
  BY <1>1, Zenon DEF SameRows

LEMMA LeftStill ==
  ASSUME NEW s, NEW n, NEW rows, NEW more, SameRows(rows, more, n),
         NEW i, NEW d, NEW x, Left(s, rows, n, i, d, x)
  PROVE  Left(s, more, n, i, d, x)
<1>1. \A j \in 1..n : more[j] = rows[j]
  BY Zenon DEF SameRows
<1> QED
  BY <1>1, Zenon DEF Left

LEMMA AccountNext ==
  ASSUME NEW n \in Nat, NEW s, NEW v, Account(s, n, v), NEW p, p = s[n + 1], Ours(p),
         NEW e, Wrote(v, p, e)
  PROVE  Account(s, n + 1, e)
<1>1. PICK rows, next, more, after :
        rows = v.rows /\ next = v.next /\ more = e.rows /\ after = e.next
  OBVIOUS
<1>2. rows \in Seq(RowRecords) /\ Len(rows) = n
  BY <1>1 DEF Account, Writers
<1>3. PICK r \in RowRecords : /\ RowOf(p, r) /\ more = Append(rows, r)
                              /\ "ACK" \in p.flags => r.ack = next[p.conn][Other(p.dir)]
                              /\ after[p.conn][p.dir] = EndOf(r)
  BY <1>1 DEF Wrote
<1>4. PICK m \in Nat : m = n + 1
  OBVIOUS
<1>5. Len(more) = m /\ more[m] = r /\ \A j \in 1..n : more[j] = rows[j]
  BY <1>2, <1>3, <1>4
<1>6. \A j \in 1..m : j = m \/ j \in 1..n
  BY <1>4
<1>7. \A j \in 1..m : RowOf(s[j], more[j])
  <2>1. \A j \in 1..n : RowOf(s[j], rows[j])
    BY <1>1 DEF Account
  <2> QED
    BY <1>3, <1>4, <1>5, <1>6, <2>1
<1>8. p.conn \in DOMAIN order /\ p.dir \in Sides
  BY DEF Ours, OutPkts
<1>9. \A i \in DOMAIN order : \A d \in Sides : Left(s, rows, n, i, d, next[i][d])
  BY <1>1 DEF Account
<1>9a. SameRows(rows, more, n)
  BY <1>5, Zenon DEF SameRows
<1>10. ASSUME NEW i \in DOMAIN order, NEW d \in Sides PROVE Left(s, more, m, i, d, after[i][d])
  <2>1. CASE i = p.conn /\ d = p.dir
    <3>1. SentBy(s, i, d, m) /\ after[i][d] = EndOf(more[m]) /\ m \in 1..m
      BY <1>3, <1>4, <1>5, <2>1 DEF SentBy
    <3> QED
      BY <3>1 DEF Left
  <2>2. CASE ~(i = p.conn /\ d = p.dir)
    <3>1. after[i][d] = next[i][d]
      BY <1>1, <2>2 DEF Wrote
    <3>2. ~SentBy(s, i, d, m)
      BY <1>4, <2>2 DEF SentBy
    <3>3. n <= n /\ \A j \in 1..n : j \in 1..m
      BY <1>4
    <3>4. Left(s, more, n, i, d, next[i][d])
      BY <1>9, <1>9a, LeftStill, Zenon
    <3> QED
      BY <1>6, <3>1, <3>2, <3>3, <3>4 DEF Left
  <2> QED
    BY <2>1, <2>2
<1>11. ASSUME NEW j \in 1..m, "ACK" \in s[j].flags
       PROVE  Left(s, more, j - 1, s[j].conn, Other(s[j].dir), more[j].ack)
  <2>1. CASE j = m
    <3>1. s[j] = p /\ j - 1 = n /\ n <= n
      BY <1>4, <2>1
    <3>2. PICK i, d, x : i = p.conn /\ d = Other(p.dir) /\ x = next[i][d]
      OBVIOUS
    <3>3. more[j].ack = x
      BY <1>3, <1>5, <1>11, <2>1, <3>1, <3>2
    <3>4. Left(s, rows, n, i, d, x)
      BY <1>8, <1>9, <3>2, OtherSide
    <3>5. Left(s, more, n, i, d, x)
      BY <1>9a, <3>4, LeftStill, Zenon
    <3> QED
      BY <3>1, <3>2, <3>3, <3>5
  <2>2. CASE j \in 1..n
    <3>1. Left(s, rows, j - 1, s[j].conn, Other(s[j].dir), rows[j].ack)
      BY <1>1, <1>11, <2>2 DEF Account
    <3>2. j - 1 \in Nat /\ j - 1 <= n /\ more[j] = rows[j]
      BY <1>5, <2>2
    <3>3. PICK l, i, d, x, y :
            l = j - 1 /\ i = s[j].conn /\ d = Other(s[j].dir) /\ x = rows[j].ack /\ y = more[j].ack
      OBVIOUS
    <3>4. SameRows(rows, more, l)
      BY <1>9a, <3>2, <3>3, FewerRows
    <3>5. Left(s, rows, l, i, d, x)
      BY <3>1, <3>3, Zenon
    <3>6. Left(s, more, l, i, d, x) /\ x = y
      BY <3>2, <3>3, <3>4, <3>5, LeftStill, Zenon
    <3> QED
      BY <3>3, <3>6, Zenon
  <2> QED
    BY <1>6, <2>1, <2>2
<1>12. e \in Writers
  BY DEF Wrote
<1> QED
  BY <1>1, <1>4, <1>5, <1>7, <1>10, <1>11, <1>12 DEF Account

Writing(f, pkts) ==
  f = [n \in 0..Len(pkts) |->
        IF n = 0
        THEN [next |-> [i \in DOMAIN order |-> [s \in Sides |-> FirstSeq(i, s)]], rows |-> <<>>]
        ELSE WriteRow(f[n-1], pkts[n])]

LEMMA WrittenIs ==
  ASSUME ConnsTrue, NEW s, Output(s), NEW rows, rows = Written(s)
  PROVE  \E v : Account(s, Len(s), v) /\ rows = v.rows
<1>1. PICK n \in Nat : n = Len(s) /\ DOMAIN s = 1..n
  BY DEF Output
<1>2. \A j \in 1..n : Ours(s[j])
  BY <1>1 DEF Output
<1>3. PICK first : first = [i \in DOMAIN order |-> [d \in Sides |-> FirstSeq(i, d)]]
  OBVIOUS
<1>4. PICK a : a = [next |-> first, rows |-> <<>>]
  OBVIOUS
<1>5. a \in Writers /\ a.rows = <<>>
  <2>1. ASSUME NEW i \in DOMAIN order, NEW d \in Sides PROVE FirstSeq(i, d) \in Int
    <3>1. \A x \in Sides : ISN[x] \in Int
      BY RebuildAssumption
    <3> QED
      BY <3>1 DEF FirstSeq, Sides
  <2>2. first \in [DOMAIN order -> [Sides -> Int]]
    BY <1>3, <2>1
  <2> QED
    BY <1>4, <2>2 DEF Writers, Nexts
<1>6. PICK step : step = [z \in Writers \X (1..n) |-> WriteRow(z[1], s[z[2]])]
  OBVIOUS
<1>7. \A v \in Writers, i \in 1..n : step[<<v, i>>] = WriteRow(v, s[i])
  <2>1. \A v \in Writers, i \in 1..n :
          <<v, i>>[1] = v /\ <<v, i>>[2] = i /\ <<v, i>> \in Writers \X (1..n)
    OBVIOUS
  <2> QED
    BY <1>6, <2>1
<1>8. \A v \in Writers, i \in 1..n : Wrote(v, s[i], WriteRow(v, s[i]))
  BY <1>2, WriteRowIs
<1>9. step \in [Writers \X (1..n) -> Writers]
  <2>1. ASSUME NEW z \in Writers \X (1..n) PROVE WriteRow(z[1], s[z[2]]) \in Writers
    <3>1. z[1] \in Writers /\ z[2] \in 1..n
      OBVIOUS
    <3>2. Wrote(z[1], s[z[2]], WriteRow(z[1], s[z[2]]))
      BY <1>8, <3>1
    <3> QED
      BY <3>2 DEF Wrote
  <2> QED
    BY <1>6, <2>1
<1>10. PICK f \in [0..n -> Writers] : Iterated(f, n, a, step)
  BY <1>5, <1>9, IteratedExists
<1>11. f[0] = a /\ \A i \in 1..n : f[i] = step[<<f[i-1], i>>]
  BY <1>10, IteratedIs
<1>12. Writing(f, s)
  <2>1. ASSUME NEW i \in 0..n PROVE f[i] = IF i = 0 THEN a ELSE WriteRow(f[i-1], s[i])
    <3>1. CASE i = 0
      BY <1>11, <3>1
    <3>2. CASE i # 0
      <4>1. i \in 1..n /\ i - 1 \in 0..n
        BY <3>2
      <4>2. f[i-1] \in Writers
        BY <4>1
      <4>3. f[i] = WriteRow(f[i-1], s[i])
        BY <1>7, <1>11, <4>1, <4>2
      <4> QED
        BY <3>2, <4>3
    <3> QED
      BY <3>1, <3>2
  <2>2. f = [i \in 0..n |-> f[i]]
    OBVIOUS
  <2>3. f = [i \in 0..n |-> IF i = 0 THEN a ELSE WriteRow(f[i-1], s[i])]
    BY <2>1, <2>2
  <2> QED
    BY <1>1, <1>3, <1>4, <2>3, Zenon DEF Writing
<1>13. PICK g : g = CHOOSE h : Writing(h, s)
  OBVIOUS
<1>14. Writing(g, s)
  BY <1>12, <1>13
<1>15. rows = g[n].rows
  BY <1>1, <1>13, Zenon DEF Written, Writing, WriteRow
<1>16. g[0] = a /\ \A i \in 1..n : g[i] = WriteRow(g[i-1], s[i])
  <2>1. \A i \in 0..n : g[i] = IF i = 0 THEN a ELSE WriteRow(g[i-1], s[i])
    BY <1>1, <1>3, <1>4, <1>14 DEF Writing
  <2>2. 0 \in 0..n /\ \A i \in 1..n : i \in 0..n /\ i # 0
    OBVIOUS
  <2> QED
    BY <2>1, <2>2
<1> DEFINE P == {i \in 0..n : Account(s, i, g[i])}
<1>17. 0 \in P
  <2>1. Account(s, 0, a)
    <3>1. ~ \E j \in 1..0 : TRUE
      OBVIOUS
    <3>2. ASSUME NEW i, NEW d, NEW x, NEW r PROVE Left(s, r, 0, i, d, x)
      BY <3>1 DEF Left
    <3>3. Len(a.rows) = 0
      BY <1>5
    <3> QED
      BY <1>5, <3>1, <3>2, <3>3 DEF Account
  <2> QED
    BY <1>16, <2>1
<1>18. ASSUME NEW i \in 0..(n - 1), i \in P PROVE i + 1 \in P
  <2>1. PICK v, e : v = g[i] /\ e = g[i + 1]
    OBVIOUS
  <2>2. Account(s, i, v) /\ i \in Nat
    BY <1>18, <2>1
  <2>3. i + 1 \in 1..n /\ i + 1 \in 0..n /\ (i + 1) - 1 = i
    BY <1>1
  <2>4. e = WriteRow(v, s[i + 1]) /\ Ours(s[i + 1])
    BY <1>2, <1>16, <2>1, <2>3
  <2>5. v \in Writers
    BY <2>2 DEF Account
  <2>6. Wrote(v, s[i + 1], e)
    BY <2>4, <2>5, WriteRowIs
  <2>7. Account(s, i + 1, e)
    BY <2>2, <2>4, <2>6, AccountNext
  <2> QED
    BY <2>1, <2>3, <2>7
<1>19. Account(s, n, g[n])
  <2> HIDE DEF P
  <2>1. \A i \in 0..n : i \in P
    BY <1>17, <1>18, UpTo
  <2>2. n \in P
    BY <2>1
  <2> QED
    BY <2>2 DEF P
<1> QED
  BY <1>1, <1>15, <1>19

(* Row i could have followed the rows before it, of which E have its key.  *)
CausalAt(rows, i, E) ==
  /\ i > 1 => rows[i-1].ts <= rows[i].ts
  /\ "SYN" \in rows[i].flags => \A j \in E : rows[j].payload = <<>>
  /\ rows[i].payload # <<>> => \A j \in E : "FIN" \notin rows[j].flags
  /\ "ACK" \in rows[i].flags =>
       \E j \in E : /\ rows[j].from # rows[i].from
                   /\ rows[i].ack = (rows[j].seq + Consumed(rows[j])) % SeqSpace

CausalIn(rows) ==
  \A i \in DOMAIN rows : CausalAt(rows, i, {j \in 1..(i-1) : rows[j].key = rows[i].key})

(* When a packet of a connection that was there from lo to hi is sent.     *)
Timely(lo, hi, p) ==
  /\ p \in OutPkts /\ p.ts \in lo..hi
  /\ "SYN" \in p.flags => p.phase = 0 /\ p.ts = lo
  /\ p.payload # <<>> => p.phase = 1
  /\ "FIN" \in p.flags => p.phase = 2 /\ p.ts = hi

LEMMA OursIs ==
  ASSUME ConnsTrue, NEW p, Ours(p), NEW c, c = conns[order[p.conn]]
  PROVE  /\ c.first_ts \in Nat /\ c.last_ts \in Nat /\ c.client \in Sides
         /\ Timely(c.first_ts, c.last_ts, p)
         /\ "ACK" \in p.flags => p.n >= 2
         /\ p.n = 2 => p.dir = Other(c.client)
<1>1. p \in OutPkts /\ p.conn \in DOMAIN order /\ p.n \in Nat /\ p.n >= 1 /\ PktOf(c, p.conn, p.n, p)
  BY PktIs DEF Ours
<1>2. PICK t : ConnTrue(order[p.conn], c, t)
  BY <1>1 DEF ConnsTrue
<1>3. PICK lo \in Nat, hi \in Nat : lo = c.first_ts /\ hi = c.last_ts /\ lo <= hi
  BY <1>2, ConnIs
<1>4. c.client \in Sides
  BY <1>2, ConnIs
<1>5. lo \in lo..hi
  BY <1>3
<1>6. CASE p.n = 1
  <2>1. FirstPkt(lo, c.client, p)
    BY <1>1, <1>3, <1>6 DEF PktOf
  <2> QED
    BY <1>1, <1>3, <1>4, <1>5, <1>6, <2>1 DEF FirstPkt, Timely
<1>7. CASE p.n = 2
  <2>1. SecondPkt(lo, c.client, p)
    BY <1>1, <1>3, <1>7 DEF PktOf
  <2> QED
    BY <1>1, <1>3, <1>4, <1>5, <1>7, <2>1 DEF SecondPkt, Timely
<1>8. CASE p.n >= 3
  <2>1. LatePkt(lo, hi, p)
    BY <1>1, <1>3, <1>8 DEF PktOf
  <2> QED
    BY <1>1, <1>3, <1>4, <1>8, <2>1 DEF LatePkt, Timely
<1> QED
  BY <1>1, <1>6, <1>7, <1>8

(* The packets of the handshake come before what acknowledges them.        *)
LEMMA AnsweredBefore ==
  ASSUME ConnsTrue, NEW s, Output(s), InOrder(s), NEW i \in DOMAIN s, "ACK" \in s[i].flags
  PROVE  \E j \in 1..(i - 1) : SentBy(s, s[i].conn, Other(s[i].dir), j)
<1>1. PICK p, c : p = s[i] /\ c = conns[order[p.conn]]
  OBVIOUS
<1>2. Ours(p) /\ s \in Seq(OutPkts)
  BY <1>1 DEF Output
<1>3. /\ c.first_ts \in Nat /\ c.last_ts \in Nat /\ c.client \in Sides
      /\ Timely(c.first_ts, c.last_ts, p) /\ p.n >= 2
      /\ p.n = 2 => p.dir = Other(c.client)
  BY <1>1, <1>2, OursIs
<1>4. PICK lo \in Nat, hi \in Nat, n \in Nat : lo = c.first_ts /\ hi = c.last_ts /\ n = p.n
  BY <1>2, <1>3, PktIs DEF Ours
<1>5. /\ p \in OutPkts /\ p.conn \in DOMAIN order /\ p.dir \in Sides /\ p.ts \in Nat /\ p.ts >= lo
      /\ p.phase \in Nat /\ p.conn \in Nat /\ n >= 2
  BY <1>2, <1>3, <1>4, PktIs DEF Ours, Timely
<1>6. ASSUME NEW m \in {1, 2}, m < n, NEW d, m = 1 => d = c.client, m = 2 => d = Other(c.client)
      PROVE  \E j \in 1..(i - 1) : SentBy(s, p.conn, d, j)
  <2>1. Among(s, p.conn, m)
    BY <1>2, <1>5 DEF Output
  <2>2. PICK j \in DOMAIN s : s[j].conn = p.conn /\ s[j].n = m
    BY <2>1 DEF Among
  <2>3. PICK q : q = s[j]
    OBVIOUS
  <2>4. Ours(q) /\ q.conn = p.conn /\ q.n = m
    BY <2>2, <2>3 DEF Output
  <2>5. q \in OutPkts /\ PktOf(c, q.conn, m, q)
    BY <1>1, <2>4 DEF Ours
  <2>6. q.ts = lo /\ q.phase = 0 /\ q.dir = d
    BY <1>4, <1>6, <2>5 DEF PktOf, FirstPkt, SecondPkt
  <2>7. Lexicographic(q, p)
    BY <1>4, <1>5, <1>6, <2>4, <2>6 DEF Lexicographic
  <2>8. Before(s[j], s[i])
    BY <1>1, <1>5, <2>3, <2>5, <2>7, BeforeIs
  <2>9. j < i
    BY <1>2, <2>8, BeforeThen
  <2>10. j \in 1..(i - 1)
    BY <1>2, <2>9
  <2> QED
    BY <2>2, <2>3, <2>6, <2>10 DEF SentBy
<1>7. CASE p.dir = Other(c.client)
  <2>1. Other(p.dir) = c.client
    BY <1>3, <1>7, OtherSide
  <2>2. \E j \in 1..(i - 1) : SentBy(s, p.conn, c.client, j)
    BY <1>5, <1>6
  <2> QED
    BY <1>1, <2>1, <2>2
<1>8. CASE p.dir = c.client
  <2>1. n # 2
    BY <1>3, <1>4, <1>8, OtherSide
  <2>2. 2 < n
    BY <1>5, <2>1
  <2>3. \E j \in 1..(i - 1) : SentBy(s, p.conn, Other(c.client), j)
    BY <1>6, <2>2
  <2> QED
    BY <1>1, <1>8, <2>3
<1> QED
  BY <1>3, <1>5, <1>7, <1>8, OtherSide

LEMMA WriteCausal ==
  ASSUME ConnsTrue, NEW rows, rows = WritePcap
  PROVE  CausalIn(rows)
<1>1. PICK s : s = Sorted(FlattenSeq([i \in DOMAIN order |-> ConnPkts(i)]))
  OBVIOUS
<1>2. Output(s) /\ InOrder(s)
  BY <1>1, OutputIs
<1>3. rows = Written(s)
  BY <1>1 DEF WritePcap
<1>4. PICK v : Account(s, Len(s), v) /\ rows = v.rows
  BY <1>2, <1>3, WrittenIs
<1>5. PICK n \in Nat : n = Len(s) /\ DOMAIN s = 1..n
  BY <1>2 DEF Output
<1>6. rows \in Seq(RowRecords) /\ DOMAIN rows = 1..n /\ \A j \in 1..n : RowOf(s[j], rows[j])
  <2>1. rows \in Seq(RowRecords) /\ Len(rows) = n /\ \A j \in 1..n : RowOf(s[j], rows[j])
    BY <1>4, <1>5 DEF Account, Writers
  <2> QED
    BY <2>1
<1>7. \A j \in 1..n : Ours(s[j]) /\ s[j] \in OutPkts
  BY <1>2, <1>5 DEF Output, Ours
<1>8. ASSUME NEW i \in 1..n, NEW j \in 1..(i - 1)
      PROVE  j \in 1..n /\ ~Lexicographic(s[i], s[j])
  <2>1. j \in 1..n
    OBVIOUS
  <2>2. ~Before(s[i], s[j])
    BY <1>2, <1>5 DEF InOrder
  <2> QED
    BY <1>7, <2>1, <2>2, BeforeIs
<1>9. ASSUME NEW i \in 1..n, i > 1 PROVE rows[i-1].ts <= rows[i].ts
  <2>1. PICK j \in 1..(i - 1) : j = i - 1
    BY <1>9
  <2>2. j \in 1..n /\ ~Lexicographic(s[i], s[j])
    BY <1>8
  <2>3. s[i].ts \in Nat /\ s[j].ts \in Nat
    BY <1>7, <2>2, PktIs
  <2>4. s[j].ts <= s[i].ts
    BY <2>2, <2>3 DEF Lexicographic
  <2>5. rows[i].ts = s[i].ts /\ rows[j].ts = s[j].ts
    BY <1>6, <2>2 DEF RowOf
  <2> QED
    BY <2>1, <2>4, <2>5
<1>10. ASSUME NEW i \in 1..n, NEW j \in 1..(i - 1), rows[j].key = rows[i].key
       PROVE  /\ "SYN" \in rows[i].flags => rows[j].payload = <<>>
              /\ rows[i].payload # <<>> => "FIN" \notin rows[j].flags
  <2>1. j \in 1..n /\ ~Lexicographic(s[i], s[j])
    BY <1>8
  <2>2. PICK p, q : p = s[i] /\ q = s[j]
    OBVIOUS
  <2>3. /\ RowOf(p, rows[i]) /\ RowOf(q, rows[j]) /\ Ours(p) /\ Ours(q)
        /\ p \in OutPkts /\ q \in OutPkts
    BY <1>6, <1>7, <2>1, <2>2
  <2>4. order[p.conn] = order[q.conn]
    BY <1>10, <2>3 DEF RowOf
  <2>5. PICK c : c = conns[order[p.conn]] /\ c = conns[order[q.conn]]
    BY <2>4
  <2>6. PICK lo \in Nat, hi \in Nat : lo = c.first_ts /\ hi = c.last_ts
    BY <2>3, <2>5, OursIs
  <2>7. Timely(lo, hi, p) /\ Timely(lo, hi, q)
    BY <2>3, <2>5, <2>6, OursIs
  <2>8. ~Lexicographic(p, q)
    BY <2>1, <2>2
  <2>9. p.ts \in Nat /\ q.ts \in Nat /\ p.phase \in Nat /\ q.phase \in Nat
    BY <2>3, PktIs
  <2>10. ASSUME "SYN" \in p.flags, q.payload # <<>> PROVE FALSE
    <3>1. p.ts = lo /\ p.phase = 0 /\ q.ts >= lo /\ q.phase = 1
      BY <2>7, <2>10 DEF Timely
    <3> QED
      BY <2>6, <2>8, <2>9, <3>1 DEF Lexicographic
  <2>11. ASSUME p.payload # <<>>, "FIN" \in q.flags PROVE FALSE
    <3>1. q.ts = hi /\ q.phase = 2 /\ p.ts <= hi /\ p.phase = 1
      BY <2>7, <2>11 DEF Timely
    <3> QED
      BY <2>6, <2>8, <2>9, <3>1 DEF Lexicographic
  <2>12. /\ rows[i].flags = p.flags /\ rows[i].payload = p.payload
         /\ rows[j].flags = q.flags /\ rows[j].payload = q.payload
    BY <2>3 DEF RowOf
  <2> QED
    BY <2>10, <2>11, <2>12
<1>11. ASSUME NEW i \in 1..n, "ACK" \in rows[i].flags
       PROVE  \E j \in 1..(i - 1) : /\ rows[j].key = rows[i].key /\ rows[j].from # rows[i].from
                                    /\ rows[i].ack = EndOf(rows[j])
  <2>1. PICK p : p = s[i]
    OBVIOUS
  <2>2. RowOf(p, rows[i]) /\ Ours(p) /\ p.dir \in Sides
    BY <1>6, <1>7, <2>1, PktIs
  <2>3. "ACK" \in p.flags
    BY <1>11, <2>2 DEF RowOf
  <2>4. \E j \in 1..(i - 1) : SentBy(s, p.conn, Other(p.dir), j)
    BY <1>2, <1>5, <2>1, <2>3, AnsweredBefore
  <2>5. Left(s, rows, i - 1, p.conn, Other(p.dir), rows[i].ack)
    BY <1>4, <1>5, <2>1, <2>3 DEF Account
  <2>6. PICK j \in 1..(i - 1) : SentBy(s, p.conn, Other(p.dir), j) /\ rows[i].ack = EndOf(rows[j])
    BY <2>4, <2>5 DEF Left
  <2>7. RowOf(s[j], rows[j])
    BY <1>6
  <2>8. rows[j].key = order[p.conn] /\ rows[j].from = Other(p.dir)
    BY <2>6, <2>7 DEF RowOf, SentBy
  <2>9. rows[i].key = order[p.conn] /\ rows[i].from = p.dir
    BY <2>2 DEF RowOf
  <2> QED
    BY <2>2, <2>6, <2>8, <2>9, OtherSide
<1>12. ASSUME NEW i \in 1..n, NEW E, E = {j \in 1..(i-1) : rows[j].key = rows[i].key}
       PROVE  CausalAt(rows, i, E)
  <2>1. \A j \in E : j \in 1..(i - 1) /\ rows[j].key = rows[i].key
    BY <1>12
  <2>2. \A j \in 1..(i - 1) : rows[j].key = rows[i].key => j \in E
    BY <1>12
  <2>3. "SYN" \in rows[i].flags => \A j \in E : rows[j].payload = <<>>
    BY <1>10, <2>1, Zenon
  <2>4. rows[i].payload # <<>> => \A j \in E : "FIN" \notin rows[j].flags
    BY <1>10, <2>1, Zenon
  <2>5. "ACK" \in rows[i].flags =>
          \E j \in E : rows[j].from # rows[i].from /\ rows[i].ack = EndOf(rows[j])
    BY <1>11, <2>2, Zenon
  <2> QED
    BY <1>9, <2>3, <2>4, <2>5, Zenon DEF CausalAt, EndOf
<1> QED
  BY <1>6, <1>12 DEF CausalIn

LEMMA CausalIs == CausalIn(file) <=> Causal
BY Zenon DEF CausalIn, CausalAt, Causal
-----------------------------------------------------------------------------
(* The time stamps of what is put out.                                     *)

Within(d, lo, hi) == \A i \in DOMAIN d.out : d.out[i].ts \in lo..hi

LEMMA TakeWithin ==
  ASSUME NEW d \in DirRecords, NEW lo \in Nat, NEW hi \in Nat, Within(d, lo, hi),
         NEW ts \in lo..hi, NEW item, NEW e, e = Take(d, item, ts)
  PROVE  Within(e, lo, hi)
<1>1. CASE e = d
  BY <1>1
<1>2. CASE e = Fail(d)
  <2>1. e.out = d.out
    BY <1>2, FailIs
  <2> QED
    BY <2>1 DEF Within
<1>3. ASSUME NEW m, e = Emit(d, m, ts) PROVE Within(e, lo, hi)
  <2>1. PICK x, out, q : x = [ts |-> ts, msg |-> m] /\ out = d.out /\ q = Append(out, x)
    OBVIOUS
  <2>2. e = [d EXCEPT !.out = q]
    BY <1>3, <2>1 DEF Emit
  <2>3. e.out = q
    BY <2>2, DirIs
  <2>4. out \in Seq(OutRecords) /\ \A i \in DOMAIN out : out[i].ts \in lo..hi
    BY <2>1, DirIs DEF Within
  <2>5. PICK n \in Nat : n = Len(out) /\ DOMAIN out = 1..n
    BY <2>4
  <2>6. /\ DOMAIN q = 1..(n + 1) /\ q[n + 1] = x /\ \A i \in 1..n : q[i] = out[i]
    BY <2>1, <2>4, <2>5
  <2>7. x.ts = ts
    BY <2>1
  <2>8. \A i \in 1..(n + 1) : i = n + 1 \/ i \in 1..n
    OBVIOUS
  <2>9. \A i \in 1..(n + 1) : q[i].ts \in lo..hi
    BY <2>4, <2>5, <2>6, <2>7, <2>8, Zenon
  <2> QED
    BY <2>3, <2>6, <2>9 DEF Within
<1> QED
  BY <1>1, <1>2, <1>3 DEF Take

LEMMA ParseFrameWithin ==
  ASSUME NEW k \in Keys, NEW s \in Sides, NEW d, DirTrue(k, s, d), d.lo < d.hi,
         NEW lo \in Nat, NEW hi \in Nat, Within(d, lo, hi), NEW ts \in lo..hi,
         NEW e, e = ParseFrame(d, k, s, ts)
  PROVE  Within(e, lo, hi)
<1>1. d \in DirRecords /\ d.lo \in Nat /\ d.hi \in Nat
  BY DirTrueIs
<1>2. d.lo \in Places(k, s)
  BY <1>1 DEF DirTrue
<1>3. PICK item, f : item = Item(k, s, d.lo) /\ f = Take(d, item, ts)
  OBVIOUS
<1>4. f \in DirRecords
  BY <1>1, <1>2, <1>3, TakeIs
<1>5. Within(f, lo, hi)
  BY <1>1, <1>3, TakeWithin
<1>6. PICK n : n = f.lo + 1
  OBVIOUS
<1>7. e = [f EXCEPT !.lo = n]
  BY <1>3, <1>6 DEF ParseFrame
<1>8. e.out = f.out
  BY <1>4, <1>7, DirIs
<1> QED
  BY <1>5, <1>8 DEF Within

LEMMA ParseFramesWithin ==
  ASSUME NEW k \in Keys, NEW s \in Sides, NEW d, DirTrue(k, s, d),
         NEW lo \in Nat, NEW hi \in Nat, Within(d, lo, hi), NEW ts \in lo..hi,
         NEW e, e = ParseFrames(d, k, s, ts)
  PROVE  Within(e, lo, hi)
<1>1. d \in DirRecords /\ d.lo \in Nat /\ d.hi \in Nat /\ d.lo <= d.hi
  BY DirTrueIs
<1>2. PICK n \in Nat : n = d.hi - d.lo
  BY <1>1
<1>3. PICK f : f = CHOOSE g : Parsing(g, n, d, k, s, ts)
  OBVIOUS
<1>4. Parsing(f, n, d, k, s, ts)
  BY <1>3, ParsingExists
<1>5. e = f[n]
  BY <1>2, <1>3, Zenon DEF ParseFrames, Parsing
<1>6. f[0] = d /\ \A i \in 1..n : f[i] = ParseFrame(f[i-1], k, s, ts)
  <2>1. \A i \in 0..n : f[i] = IF i = 0 THEN d ELSE ParseFrame(f[i-1], k, s, ts)
    BY <1>4 DEF Parsing
  <2>2. 0 \in 0..n /\ \A i \in 1..n : i \in 0..n /\ i # 0
    OBVIOUS
  <2> QED
    BY <2>1, <2>2
<1> DEFINE Good(i, c) == /\ DirTrue(k, s, c) /\ c.lo = d.lo + i /\ c.hi = d.hi
                         /\ Within(c, lo, hi)
<1> DEFINE P == {i \in 0..n : Good(i, f[i])}
<1>7. 0 \in P
  BY <1>1, <1>6
<1>8. ASSUME NEW i \in 0..(n - 1), i \in P PROVE i + 1 \in P
  <2>1. PICK c, x : c = f[i] /\ x = f[i + 1]
    OBVIOUS
  <2>2. DirTrue(k, s, c) /\ c.lo = d.lo + i /\ c.hi = d.hi /\ Within(c, lo, hi)
    BY <1>8, <2>1
  <2>3. i + 1 \in 1..n /\ (i + 1) - 1 = i /\ i + 1 \in 0..n
    OBVIOUS
  <2>4. x = ParseFrame(c, k, s, ts)
    BY <1>6, <2>1, <2>3
  <2>5. c.lo < c.hi /\ ts \in Nat
    BY <1>1, <1>2, <2>2
  <2>6. DirTrue(k, s, x) /\ SamePlace(c, x) /\ x.lo = c.lo + 1
    BY <2>2, <2>4, <2>5, ParseFrameIs
  <2>7. Within(x, lo, hi)
    BY <2>2, <2>4, <2>5, ParseFrameWithin
  <2>8. x.lo = d.lo + (i + 1) /\ x.hi = d.hi
    BY <1>1, <2>2, <2>6 DEF SamePlace
  <2> QED
    BY <2>1, <2>3, <2>6, <2>7, <2>8
<1>9. Good(n, f[n])
  <2> HIDE DEF P
  <2>1. \A i \in 0..n : i \in P
    BY <1>7, <1>8, UpTo
  <2>2. n \in P
    BY <2>1
  <2> QED
    BY <2>2 DEF P
<1> QED
  BY <1>5, <1>9

LEMMA SeekOut ==
  ASSUME NEW d \in DirRecords, NEW e, e = Seek(d)
  PROVE  e.out = d.out
<1>1. CASE d.pending < d.lo
  <2>1. e = [d EXCEPT !.pending = None, !.misaligned = TRUE, !.table = "partial",
                      !.desynced = TRUE]
    BY <1>1 DEF Seek
  <2> QED
    BY <2>1, DirIs
<1>2. CASE ~(d.pending < d.lo) /\ d.pending > d.hi
  <2>1. e = [d EXCEPT !.lo = d.hi]
    BY <1>2 DEF Seek
  <2> QED
    BY <2>1, DirIs
<1>3. CASE ~(d.pending < d.lo) /\ ~(d.pending > d.hi)
  <2>1. e = [d EXCEPT !.pending = None, !.lo = d.pending]
    BY <1>3 DEF Seek
  <2> QED
    BY <2>1, DirIs
<1> QED
  BY <1>1, <1>2, <1>3

LEMMA ParsedWithin ==
  ASSUME NEW k \in Keys, NEW s \in Sides, NEW d, DirTrue(k, s, d),
         NEW lo \in Nat, NEW hi \in Nat, Within(d, lo, hi), NEW ts \in lo..hi,
         NEW x \in Parsed(d, k, s, ts)
  PROVE  Within(x, lo, hi)
<1>1. PICK e : e = IF d.pending = None THEN d ELSE Seek(d)
  OBVIOUS
<1>2. DirTrue(k, s, e) /\ Within(e, lo, hi)
  <2>1. CASE d.pending = None
    BY <1>1, <2>1
  <2>2. CASE d.pending # None
    <3>1. e = Seek(d) /\ d \in DirRecords
      BY <1>1, <2>2, DirTrueIs
    <3>2. Sought(k, s, d, e)
      BY <2>2, <3>1, SeekIs
    <3>3. e.out = d.out
      BY <3>1, SeekOut
    <3> QED
      BY <3>2, <3>3 DEF Sought, Within
  <2> QED
    BY <2>1, <2>2
<1>3. PICK f : f = [e EXCEPT !.desynced = FALSE]
  OBVIOUS
<1>4. DirTrue(k, s, f) /\ Within(f, lo, hi)
  <2>1. e \in DirRecords
    BY <1>2, DirTrueIs
  <2>2. f \in DirRecords
    BY <1>3, <2>1, DirIs DEF DirRecords
  <2>3. f.lo = e.lo /\ f.hi = e.hi /\ f.out = e.out
    BY <1>3, <2>1, DirIs
  <2>4. DirTrue(k, s, f)
    BY <1>2, <2>2, <2>3 DEF DirTrue
  <2>5. Within(f, lo, hi)
    BY <1>2, <2>3 DEF Within
  <2> QED
    BY <2>4, <2>5
<1>5. x = e \/ x = ParseFrames(f, k, s, ts)
  BY <1>1, <1>3 DEF Parsed
<1> QED
  BY <1>2, <1>4, <1>5, ParseFramesWithin

LEMMA MarkedWithin ==
  ASSUME NEW d \in DirRecords, NEW lo \in Nat, NEW hi \in Nat, Within(d, lo, hi),
         NEW ts \in lo..hi, NEW n \in Nat, NEW e, e = MarkFailures(d, ts, n)
  PROVE  Within(e, lo, hi)
<1>1. PICK x, p, m, q : /\ x = [ts |-> ts, msg |-> Marker] /\ p = d.out
                        /\ m = [i \in 1..n |-> x] /\ q = p \o m
  OBVIOUS
<1>2. p \in Seq(OutRecords) /\ \A i \in DOMAIN p : p[i].ts \in lo..hi
  BY <1>1, DirIs DEF Within
<1>3. PICK l \in Nat : l = Len(p) /\ DOMAIN p = 1..l
  BY <1>2
<1>4. /\ DOMAIN q = 1..(l + n) /\ \A i \in 1..l : q[i] = p[i]
      /\ \A i \in (l + 1)..(l + n) : q[i] = x
  <2>1. x \in OutRecords
    BY <1>1, MarkerIs DEF OutRecords
  <2>2. m \in Seq(OutRecords) /\ Len(m) = n /\ \A i \in 1..n : m[i] = x
    BY <1>1, <2>1
  <2>3. q \in Seq(OutRecords) /\ IsBoth(p, l, m, n, q)
    BY <1>1, <1>2, <1>3, <2>2, BothIs
  <2>4. /\ Len(q) = l + n /\ \A i \in 1..l : q[i] = p[i]
        /\ \A i \in (l + 1)..(l + n) : q[i] = m[i - l]
    BY <2>3 DEF IsBoth
  <2>5. \A i \in (l + 1)..(l + n) : i - l \in 1..n
    OBVIOUS
  <2> QED
    BY <2>2, <2>3, <2>4, <2>5
<1>5. x.ts = ts
  BY <1>1
<1>6. \A i \in 1..(l + n) : i \in 1..l \/ i \in (l + 1)..(l + n)
  OBVIOUS
<1>7. \A i \in 1..(l + n) : q[i].ts \in lo..hi
  BY <1>2, <1>3, <1>4, <1>5, <1>6, Zenon
<1>8. e = [d EXCEPT !.out = q]
  BY <1>1 DEF MarkFailures
<1>9. e.out = q
  BY <1>8, DirIs
<1> QED
  BY <1>4, <1>7, <1>9 DEF Within

(* What was put out came while the connection was there, up to time t.     *)
WithinAll(c, ds, t) == \A u \in Sides : Within(ds[u], c.first_ts, t)

LEMMA FedWithin ==
  ASSUME NEW k \in Keys, NEW s \in Sides, NEW d, DirTrue(k, s, d),
         NEW lo \in Nat, NEW hi \in Nat, Within(d, lo, hi), NEW ts \in lo..hi,
         NEW at \in Places(k, s), NEW x \in Parsed(Push(d, at), k, s, ts), NEW n \in Nat,
         NEW f, f = MarkFailures(x, ts, n)
  PROVE  Within(f, lo, hi)
<1>1. PICK e : e = Push(d, at) /\ x \in Parsed(e, k, s, ts)
  OBVIOUS
<1>2. DirTrue(k, s, e) /\ e.out = d.out
  BY <1>1, PushIs
<1>3. Within(e, lo, hi)
  BY <1>2 DEF Within
<1>4. Within(x, lo, hi)
  BY <1>1, <1>2, <1>3, ParsedWithin
<1>5. ts \in Nat
  OBVIOUS
<1>6. DirTrue(k, s, x)
  BY <1>1, <1>2, <1>5, ParsedIs
<1> QED
  BY <1>4, <1>6, DirTrueIs, MarkedWithin

LEMMA SeededWithin ==
  ASSUME NEW k, NEW s, NEW c, NEW p, p.key = k, p.from = s, NEW t, ConnTrue(k, c, t),
         s \in Sides, seeds[k][s] \in Int, NEW lo, NEW hi, Within(c.dirs[s], lo, hi),
         NEW d, d = Seeded(c, p)
  PROVE  DirTrue(k, s, d) /\ Within(d, lo, hi)
<1>1. DirTrue(k, s, c.dirs[s])
  BY ConnIs
<1>2. DirTrue(k, s, d)
  BY <1>1, SeededIs
<1>3. d.out = c.dirs[s].out
  <2>1. CASE c.dirs[s].seeded
    BY <1>1, <2>1, SeededIs
  <2>2. CASE c.saw_syn \/ seeds[k][s] = None
    <3>1. Offered(c.dirs[s], d)
      BY <1>1, <2>2, SeededIs
    <3> QED
      BY <3>1 DEF Offered
  <2>3. CASE ~c.dirs[s].seeded /\ ~c.saw_syn /\ seeds[k][s] # None
    <3>1. TakesSeed(c.dirs[s], d, seeds[k][s])
      BY <1>1, <2>3, SeededIs
    <3> QED
      BY <3>1 DEF TakesSeed
  <2> QED
    BY <2>1, <2>2, <2>3
<1> QED
  BY <1>2, <1>3 DEF Within

(* The connection that is there before the packet, and what it becomes.    *)
LEMMA StampedUntil ==
  ASSUME NEW k, NEW t \in Nat, NEW b, ConnTrue(k, b, t), Stamped(b)
  PROVE  WithinAll(b, b.dirs, t)
<1>1. PICK lo \in Nat, hi \in Nat : lo = b.first_ts /\ hi = b.last_ts /\ hi <= t
  BY ConnIs
<1>2. \A x \in lo..hi : x \in lo..t
  BY <1>1
<1>3. ASSUME NEW u \in Sides PROVE Within(b.dirs[u], lo, t)
  <2>1. \A i \in DOMAIN b.dirs[u].out : b.dirs[u].out[i].ts \in lo..hi
    BY <1>1 DEF Stamped, StampedDir
  <2> QED
    BY <1>2, <2>1 DEF Within
<1> QED
  BY <1>1, <1>3 DEF WithinAll

LEMMA StampedThen ==
  ASSUME NEW k, NEW t, NEW b, ConnTrue(k, b, t), NEW ds, WithinAll(b, ds, t),
         NEW e, e = [b EXCEPT !.last_ts = t, !.dirs = ds]
  PROVE  Stamped(e)
<1>1. e.first_ts = b.first_ts /\ e.last_ts = t /\ e.dirs = ds
  BY ConnIs
<1> QED
  BY <1>1, Zenon DEF WithinAll, Within, Stamped, StampedDir

LEMMA FreshWithin == ASSUME NEW d, Fresh(d), NEW lo, NEW hi PROVE Within(d, lo, hi)
<1>1. d.out = <<>>
  BY DEF Fresh
<1>2. DOMAIN <<>> = {}
  OBVIOUS
<1> QED
  BY <1>1, <1>2 DEF Within

AllStamped == \A k \in DOMAIN conns : Stamped(conns[k])

LEMMA OldWithin ==
  ASSUME RInv, AllStamped, NEW k \in Keys, NEW t \in Nat, t = now', now <= t,
         NEW p, p.key = k, p.from \in Sides,
         NEW b, b = IF IsNew(p) THEN NewConn(p) ELSE conns[k]
  PROVE  ConnTrue(k, b, t) /\ WithinAll(b, b.dirs, t)
<1>1. KeyTrue(k) /\ now \in Nat
  BY DEF RInv
<1>2. /\ ConnTrue(k, b, t)
      /\ IsNew(p) => \A s \in Sides : Fresh(b.dirs[s])
  <2>1. ConnTrue(k, b, t)
    BY <1>1, OldConnIs
  <2>2. ASSUME IsNew(p), NEW s \in Sides PROVE Fresh(b.dirs[s])
    BY <1>1, <2>2, OldConnIs
  <2> QED
    BY <2>1, <2>2
<1>3. CASE IsNew(p)
  BY <1>2, <1>3, FreshWithin DEF WithinAll
<1>4. CASE ~IsNew(p)
  <2>1. b = conns[k] /\ k \in DOMAIN conns
    BY <1>4 DEF IsNew
  <2>2. Stamped(b)
    BY <2>1 DEF AllStamped
  <2> QED
    BY <1>2, <2>2, StampedUntil
<1> QED
  BY <1>2, <1>3, <1>4

LEMMA ReplayStamped ==
  ASSUME RInv, AllStamped, NEW k \in Keys, now' \in Nat, now <= now', NEW p, p.key = k,
         p.from \in Sides, p.kind = "DATA" => p.at \in Places(k, p.from), Replay(p)
  PROVE  \E e : conns' = With(k, e) /\ Stamped(e)
<1>1. PICK t \in Nat : t = now' /\ now <= t
  OBVIOUS
<1>2. PICK s \in Sides : s = p.from
  OBVIOUS
<1>3. PICK o : o = Other(s) /\ o \in Sides /\ o # s /\ \A u \in Sides : u = s \/ u = o
  BY OtherSide
<1>4. PICK b : b = IF IsNew(p) THEN NewConn(p) ELSE conns[k]
  OBVIOUS
<1>5. ConnTrue(k, b, t) /\ WithinAll(b, b.dirs, t)
  BY <1>1, <1>4, OldWithin
<1>6. PICK lo \in Nat : lo = b.first_ts /\ t \in lo..t
  BY <1>5, ConnIs
<1>7. seeds[k][s] \in Int
  BY DEF RInv
<1>8. PICK d : d = Seeded(b, p)
  OBVIOUS
<1>9. DirTrue(k, s, d) /\ Within(d, lo, t)
  <2>1. Within(b.dirs[s], lo, t)
    BY <1>5, <1>6 DEF WithinAll
  <2> QED
    BY <1>2, <1>5, <1>7, <1>8, <2>1, SeededWithin
<1>10. PICK c : c = [b EXCEPT !.last_ts = t, !.dirs[s] = d]
  OBVIOUS
<1>11. ASSUME NEW f PROVE Twice(b, t, s, d, f, c)
  BY <1>5, <1>10, ConnTwice, Zenon
<1>12. c.dirs[s] = d /\ c.dirs[o] = b.dirs[o]
  <2>1. Twice(b, t, s, d, d, c)
    BY <1>11
  <2>2. TwiceHas(b, s, d, c) /\ o \in Sides /\ o # s
    BY <1>3, <2>1 DEF Twice
  <2> QED
    BY <2>2, TwiceIs
<1>13. c = [b EXCEPT !.last_ts = now', !.dirs[p.from] = Seeded(b, p)]
  BY <1>1, <1>2, <1>8, <1>10
<1>14. CASE p.kind = "DATA"
  <2>1. Feed(c, p)
    BY <1>4, <1>13, <1>14 DEF Replay
  <2>2. PICK at \in Places(k, s) : at = p.at
    BY <1>2, <1>14
  <2>3. \A x \in Parsed(Push(d, at), k, s, t) : x.decode_errors \in Nat
    BY <1>9, <2>2, FedIs, DirTrueIs
  <2>4. \A x \in Parsed(Push(c.dirs[s], p.at), k, s, now') : x.decode_errors \in Nat
    BY <1>1, <1>12, <2>2, <2>3, Zenon
  <2>5. FedTo(k, s, c, p.at)
    <3>1. decode_failures \in Nat
      BY DEF RInv
    <3> QED
      BY <1>2, <2>1, <2>4, <3>1, FeedIs
  <2>6. Parsed(Push(c.dirs[s], p.at), k, s, now') = Parsed(Push(d, at), k, s, t)
        /\ PeerCapacity(c.dirs[Other(s)]) = PeerCapacity(b.dirs[o])
    BY <1>1, <1>3, <1>12, <2>2, Zenon
  <2>7. PICK x \in Parsed(Push(d, at), k, s, t), n \in Nat, y \in PeerCapacity(b.dirs[o]) :
          conns' = With(k, [c EXCEPT !.dirs =
                              [u \in Sides |-> IF u = s THEN MarkFailures(x, t, n) ELSE y]])
    BY <1>1, <2>5, <2>6 DEF FedTo
  <2>8. PICK f, ds : f = MarkFailures(x, t, n) /\ ds = [u \in Sides |-> IF u = s THEN f ELSE y]
    OBVIOUS
  <2>9. Within(f, lo, t)
    BY <1>6, <1>9, <2>2, <2>8, FedWithin
  <2>10. Within(y, lo, t)
    <3>1. DirTrue(k, o, b.dirs[o]) /\ Within(b.dirs[o], lo, t)
      BY <1>3, <1>5, <1>6, ConnIs DEF WithinAll
    <3>2. y.out = b.dirs[o].out
      BY <3>1, PeerIs
    <3> QED
      BY <3>1, <3>2 DEF Within
  <2>11. WithinAll(b, ds, t)
    <3>1. ds[s] = f /\ ds[o] = y
      BY <1>3, <2>8
    <3> QED
      BY <1>3, <1>6, <2>9, <2>10, <3>1 DEF WithinAll
  <2>12. PICK e : e = [b EXCEPT !.last_ts = t, !.dirs = ds]
    OBVIOUS
  <2>13. Stamped(e)
    BY <1>5, <2>11, <2>12, StampedThen
  <2>14. [c EXCEPT !.dirs = ds] = e
    BY <1>11, <2>12, Zenon DEF Twice
  <2>15. conns' = With(k, e)
    BY <2>7, <2>8, <2>14, Zenon
  <2> QED
    BY <2>13, <2>15
<1>15. CASE p.kind # "DATA"
  <2>1. conns' = With(p.key, [c EXCEPT !.dirs[p.from] = NoteSyn(c.dirs[p.from], p.at)])
    BY <1>4, <1>13, <1>15 DEF Replay
  <2>2. PICK f : f = NoteSyn(d, p.at)
    OBVIOUS
  <2>3. f.out = d.out
    <3>1. CASE d.begun
      BY <2>2, <3>1 DEF NoteSyn
    <3>2. CASE ~d.begun
      <4>1. PICK at : at = p.at + 1
        OBVIOUS
      <4>2. f = [d EXCEPT !.begun = TRUE, !.lo = at, !.hi = at]
        BY <2>2, <3>2, <4>1 DEF NoteSyn, StartAt
      <4> QED
        BY <1>9, <4>2, DirTrueIs, DirIs
    <3> QED
      BY <3>1, <3>2
  <2>4. Within(f, lo, t)
    BY <1>9, <2>3 DEF Within
  <2>5. PICK ds : ds = [b.dirs EXCEPT ![s] = f]
    OBVIOUS
  <2>6. WithinAll(b, ds, t)
    <3>1. PICK a : a = b.dirs /\ a \in [Sides -> DirRecords]
      BY <1>5, ConnIs
    <3>2. ds = [a EXCEPT ![s] = f]
      BY <2>5, <3>1
    <3>3. ds[s] = f /\ ds[o] = a[o]
      BY <1>3, <3>1, <3>2
    <3>4. Within(a[o], lo, t)
      BY <1>3, <1>5, <1>6, <3>1 DEF WithinAll
    <3> QED
      BY <1>3, <1>6, <2>4, <3>3, <3>4 DEF WithinAll
  <2>7. PICK e : e = [b EXCEPT !.last_ts = t, !.dirs = ds]
    OBVIOUS
  <2>8. Stamped(e)
    BY <1>5, <2>6, <2>7, StampedThen
  <2>9. [c EXCEPT !.dirs[s] = f] = e
    <3>1. Twice(b, t, s, d, f, c)
      BY <1>11
    <3> QED
      BY <2>5, <2>7, <3>1, Zenon DEF Twice
  <2>10. conns' = With(k, e)
    BY <1>2, <1>12, <2>1, <2>2, <2>9, Zenon
  <2> QED
    BY <2>8, <2>10
<1> QED
  BY <1>14, <1>15

-----------------------------------------------------------------------------
(* The invariant with the time stamps and the output.                      *)
CausalInv == RInv /\ AllStamped /\ (file = <<>> \/ CausalIn(file))

LEMMA ReadyToWrite ==
  ASSUME RInv, AllStamped
  PROVE  ConnsTrue
<1>1. ASSUME NEW i \in DOMAIN order
      PROVE  ConnTrue(order[i], conns[order[i]], now) /\ Stamped(conns[order[i]])
  <2>1. PICK k : k = order[i]
    OBVIOUS
  <2>2. k \in Keys /\ k \in DOMAIN conns
    BY <2>1 DEF RInv
  <2> QED
    BY <2>1, <2>2 DEF RInv, KeyTrue, AllStamped
<1>2. order \in Seq(Keys)
  BY DEF RInv
<1> QED
  BY <1>1, <1>2 DEF ConnsTrue

LEMMA CapturedStamped ==
  ASSUME RInv, AllStamped, Captured
  PROVE  AllStamped'
<1>1. PICK k \in Keys : \E p \in PacketsOf(k) : Sends(k, p) /\ Replay(p)
  BY DEF Captured
<1>2. PICK p : Sends(k, p) /\ Replay(p)
  BY <1>1
<1>3. HostsTrue(k, life[k], sent[k]) /\ now \in Nat
  BY DEF RInv, KeyTrue
<1>4. now' \in Nat /\ now <= now'
  BY <1>3 DEF Captured
<1>5. p.key = k /\ (IsSyn(k, p) \/ IsAck(k, p) \/ IsData(k, p))
  <2>1. life \in [Keys -> Nat] /\ sent \in [Keys -> [Sides -> Nat \cup {None}]]
    BY DEF RInv
  <2> QED
    BY <1>2, <1>3, <2>1, SendsIs
<1>6. p.from \in Sides
  BY <1>5 DEF IsSyn, IsAck, IsData, Sides
<1>7. ASSUME p.kind = "DATA" PROVE p.at \in Places(k, p.from)
  <2>1. IsData(k, p)
    BY <1>5, <1>7 DEF IsSyn, IsAck
  <2>2. PICK l, se, s : l = life[k] /\ se = sent[k] /\ s = p.from /\ s \in Sides
    BY <1>6
  <2>3. /\ se["server"] # None /\ se[s] < Len(Content[k][l][s])
        /\ p.at = LifeSpan * l + (se[s] + 1)
    BY <2>1, <2>2 DEF IsData
  <2>4. p.at \in Places(k, s)
    BY <1>3, <2>2, <2>3, SentIs
  <2> QED
    BY <2>2, <2>4
<1>8. PICK e : conns' = With(k, e) /\ Stamped(e)
  BY <1>2, <1>4, <1>5, <1>6, <1>7, ReplayStamped
<1>9. /\ DOMAIN conns' = DOMAIN conns \cup {k} /\ conns'[k] = e
      /\ \A j \in DOMAIN conns : j # k => conns'[j] = conns[j]
  BY <1>8, WithIs
<1>10. ASSUME NEW j \in DOMAIN conns' PROVE Stamped(conns'[j])
  <2>1. CASE j = k
    BY <1>8, <1>9, <2>1
  <2>2. CASE j # k
    <3>1. j \in DOMAIN conns /\ conns'[j] = conns[j]
      BY <1>9, <2>2
    <3>2. Stamped(conns[j])
      BY <3>1 DEF AllStamped
    <3> QED
      BY <3>1, <3>2
  <2> QED
    BY <2>1, <2>2
<1> QED
  BY <1>10 DEF AllStamped

LEMMA CausalKept ==
  ASSUME CausalInv, [Next]_vars, RInv'
  PROVE  CausalInv'
<1>1. RInv /\ AllStamped /\ (file = <<>> \/ CausalIn(file))
  BY DEF CausalInv
<1>2. CASE Captured
  <2>1. AllStamped'
    BY <1>1, <1>2, CapturedStamped
  <2>2. file' = <<>>
    BY <1>2 DEF Captured
  <2> QED
    BY <2>1, <2>2 DEF CausalInv
<1>3. CASE Missed
  <2>1. conns' = conns /\ file' = <<>>
    BY <1>3 DEF Missed
  <2> QED
    BY <1>1, <2>1 DEF CausalInv, AllStamped
<1>4. CASE Finish
  <2>1. PICK rows : rows = WritePcap
    OBVIOUS
  <2>2. conns' = conns /\ file' = rows
    BY <1>4, <2>1 DEF Finish, replay
  <2>3. CausalIn(rows)
    BY <1>1, <2>1, ReadyToWrite, WriteCausal
  <2>4. CausalIn(file)'
    BY <2>2, <2>3, Zenon
  <2> QED
    BY <1>1, <2>2, <2>4 DEF CausalInv, AllStamped
<1>5. CASE UNCHANGED vars
  <2>1. conns' = conns /\ file' = file
    BY <1>5 DEF vars
  <2>2. (file = <<>> \/ CausalIn(file))'
    BY <1>1, <2>1, Zenon
  <2> QED
    BY <1>1, <2>1, <2>2 DEF CausalInv, AllStamped
<1> QED
  BY <1>2, <1>3, <1>4, <1>5 DEF Next

(* The output could have happened, however many connections used a 4-tuple *)
(* and whatever was captured of them (write_pcap() of rebuild.rs, 421-532):*)
(* time does not go back, no data is before a SYN or after a FIN of its    *)
(* 4-tuple, and a packet acknowledges where one of the peer's ends.        *)
THEOREM CausalTheorem == Spec => []Causal
<1>1. Init => CausalInv
  <2> SUFFICES ASSUME Init PROVE CausalInv
    OBVIOUS
  <2>1. DOMAIN conns = {} /\ file = <<>>
    BY DEF Init
  <2> QED
    BY <2>1, InitTrue DEF CausalInv, AllStamped
<1>2. CausalInv /\ [Next]_vars /\ RInv' => CausalInv'
  BY CausalKept
<1>3. CausalInv => Causal
  <2> SUFFICES ASSUME CausalInv PROVE Causal
    OBVIOUS
  <2>1. CASE file = <<>>
    <3>1. DOMAIN file = {}
      BY <2>1
    <3> QED
      BY <3>1 DEF Causal
  <2>2. CASE CausalIn(file)
    BY <2>2, CausalIs
  <2> QED
    BY <2>1, <2>2 DEF CausalInv
<1> QED
  BY <1>1, <1>2, <1>3, RebuildInductive, PTL DEF Spec
================================================================================
