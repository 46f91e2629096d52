----------------------------- MODULE HandoverProofs -----------------------------
(***************************************************************************)
(* The hand-over of a decoder for every value of the constants.  The       *)
(* relations of HpackMirrorProofs survive it but for the names, so that    *)
(* each of its steps can be taken over as it is.                           *)
(***************************************************************************)
EXTENDS SnapshotHandover, HpackMirrorProofs

(* The encoder has no placeholders.                                        *)
Plain(t) == \A i \in 1..Len(t) : t[i].unknown = FALSE

(* What keeps the table of an observer that missed nothing exact: it is in *)
(* step, it claims exactness, and it works with the encoder's own entries. *)
Undisturbed ==
  /\ blk.failed => poisoned
  /\ watched /\ ~poisoned => ~desynced /\ dec.exact
  /\ toObs # <<>> => nset # 0
  /\ Plain(enc.table)

HInv ==
  /\ IInv(FALSE)
  /\ handed \in BOOLEAN
  /\ watched \in BOOLEAN
  /\ Undisturbed
  /\ MirrorExact

-----------------------------------------------------------------------------
(* Placeholders.                                                           *)

LEMMA PlainFit ==
  ASSUME NEW t \in Seq(Entries), Spaced(t), Plain(t), NEW max \in Nat
  PROVE  Plain(RfcFit(t, max))
<1>1. PICK m \in 0..Len(t) : RfcFit(t, max) = SubSeq(t, 1, m)
  BY RfcFitIsPrefix
<1>2. Len(SubSeq(t, 1, m)) = m /\ \A i \in 1..m : SubSeq(t, 1, m)[i] = t[i]
  BY PrefixType
<1> QED
  BY <1>1, <1>2 DEF Plain

LEMMA PlainPush ==
  ASSUME NEW t \in Seq(Entries), Plain(t), NEW f \in Entries, f.unknown = FALSE
  PROVE  Plain(Push(t, f))
<1>1. Len(Push(t, f)) = Len(t) + 1 /\ Push(t, f)[1] = f
  BY PushType
<1> SUFFICES ASSUME NEW i \in 1..(Len(t) + 1)
             PROVE  Push(t, f)[i].unknown = FALSE
  BY <1>1 DEF Plain
<1>2. CASE i = 1
  BY <1>1, <1>2
<1>3. CASE i # 1
  <2>1. i \in 2..(Len(t) + 1)
    BY <1>3
  <2>2. i - 1 \in 1..Len(t) /\ Push(t, f)[i].unknown = t[i-1].unknown
    BY <2>1, PushAt
  <2> QED
    BY <2>2 DEF Plain
<1> QED
  BY <1>2, <1>3

(* A snapshot has the entries of the table, entry for entry, but for the   *)
(* mark of a placeholder.                                                  *)
LEMMA WrittenShape ==
  ASSUME NEW t \in Seq(Entries)
  PROVE  /\ Written(t) \in Seq(Entries)
         /\ Len(Written(t)) = Len(t)
         /\ \A i \in 1..Len(t) : /\ Written(t)[i].val = t[i].val
                                 /\ Written(t)[i].upto = t[i].upto
         /\ Plain(t) => Written(t) = t
<1>1. ASSUME NEW i \in 1..Len(t)
      PROVE  LET e == [t[i] EXCEPT !.unknown = FALSE]
             IN  /\ e \in Entries /\ e.val = t[i].val /\ e.upto = t[i].upto
                 /\ t[i].unknown = FALSE => e = t[i]
  <2>1. t[i] \in Entries
    BY EntryAt
  <2> QED
    BY <2>1 DEF Entries
<1>2. Written(t) = [i \in 1..Len(t) |-> [t[i] EXCEPT !.unknown = FALSE]]
  BY DEF Written
<1>3. Written(t) \in [1..Len(t) -> Entries]
  BY <1>1, <1>2
<1>4. Written(t) \in Seq(Entries) /\ Len(Written(t)) = Len(t)
  BY <1>3
<1>5. ASSUME Plain(t) PROVE Written(t) = t
  <2>1. \A i \in 1..Len(t) : Written(t)[i] = t[i]
    BY <1>1, <1>2, <1>5 DEF Plain
  <2> QED
    BY <1>4, <2>1
<1> QED
  BY <1>1, <1>2, <1>4, <1>5

-----------------------------------------------------------------------------
(* The same table, changed in the same way on both sides.                  *)

(* What HInv says of the observer while nothing has disturbed it.          *)
Same == dec.table = enc.table /\ dec.max = enc.max

Quiet == watched /\ ~poisoned /\ ~dec.over /\ (nset = 0 \/ doubt = {})

LEMMA SameResize ==
  ASSUME NEW d \in Decoders, NEW n \in Nat, Spaced(d.table), ~Resize(d, n).over
  PROVE  Resize(d, n).table = RfcFit(d.table, n) /\ Resize(d, n).max = n /\ ~d.over
<1>1. d.table \in Seq(Entries)
  BY DEF Decoders
<1>2. RfcFit(d.table, n) = SubSeq(d.table, 1, Kept(d.table, n))
  BY <1>1, RfcFitIsKept
<1>3. Resize(d, n).max = n /\ Squeezed(Resize(d, n), d, d.table, n)
  BY ResizeShape
<1> QED
  BY <1>2, <1>3 DEF Squeezed

LEMMA SameInsert ==
  ASSUME NEW d \in Decoders, NEW f \in Fields, Spaced(d.table), ~d.over
  PROVE  Insert(d, f).table = RfcInsert(d.table, f, d.max) /\ Insert(d, f).max = d.max
<1> DEFINE t == Push(d.table, f)
<1>1. d.table \in Seq(Entries) /\ d.max \in Nat /\ f \in Entries /\ f.upto \in Nat
  BY DEF Decoders, Fields, Entries
<1>2. t \in Seq(Entries) /\ Len(t) = Len(d.table) + 1 /\ t[1] = f /\ Spaced(t)
  BY <1>1, PushType, PushSpaced
<1>3. /\ Insert(d, f).max = d.max
      /\ \/ f.upto > d.max /\ Insert(d, f).table = <<>>
         \/ Squeezed(Insert(d, f), d, t, d.max)
  BY <1>1, InsertShape
<1> HIDE DEF t
<1>4. RfcFit(t, d.max) = SubSeq(t, 1, Kept(t, d.max)) /\ Kept(t, d.max) \in 0..Len(t)
      /\ \A i \in 1..Kept(t, d.max) : t[i].upto <= d.max
  BY <1>1, <1>2, RfcFitIsKept, KeptExists
<1>5. RfcInsert(d.table, f, d.max) = RfcFit(t, d.max)
  BY DEF RfcInsert, t
<1>6. CASE f.upto > d.max /\ Insert(d, f).table = <<>>
  <2>1. ~(1 \in 1..Kept(t, d.max))
    <3>1. PICK m, u \in Nat : m = d.max /\ u = t[1].upto /\ u > m
      BY <1>1, <1>2, <1>6
    <3>2. ~(u <= m)
      BY <3>1
    <3> QED
      BY <1>4, <3>1, <3>2
  <2>2. Kept(t, d.max) = 0
    BY <1>4, <2>1
  <2>3. SubSeq(t, 1, 0) = <<>>
    BY <1>2
  <2> QED
    BY <1>3, <1>4, <1>5, <1>6, <2>2, <2>3
<1>7. CASE Squeezed(Insert(d, f), d, t, d.max)
  BY <1>3, <1>4, <1>5, <1>7 DEF Squeezed
<1> QED
  BY <1>3, <1>6, <1>7

(* With the encoder's own table the observer reads what was sent.          *)
LEMMA SameRead ==
  ASSUME TypeOK, Plain(enc.table), dec.table = enc.table,
         NEW i \in {0} \cup DOMAIN enc.table, NEW nl, NEW vl
  PROVE  ReadLiteral(i, nl, vl) = Sent(i, nl, vl)
<1>1. enc.table \in Seq(Entries)
  BY DEF TypeOK, Encoders
<1>2. i # 0 => i \in 1..Len(enc.table) /\ Known(dec, i)
  BY <1>1 DEF Known
<1> QED
  BY <1>2 DEF ReadLiteral, Sent, Plain

(* No name that is sent is a placeholder.                                  *)
LEMMA SentPlain ==
  ASSUME NEW i, NEW nl, NEW vl
  PROVE  Sent(i, nl, vl).unknown = FALSE
BY DEF Sent, Field

-----------------------------------------------------------------------------
(* The inductive step, one lemma per action that changes a table.          *)

LEMMA HandoverInitStep == HandoverInit => HInv
<1> SUFFICES ASSUME HandoverInit PROVE HInv
  OBVIOUS
<1>1. IInv(FALSE)
  BY InitIInv DEF HandoverInit
<1>2. /\ enc.table = <<>> /\ enc.max = DefaultTableSize
      /\ dec.table = <<>> /\ dec.max = DefaultTableSize
      /\ ~desynced => dec.exact
  BY NewShape DEF HandoverInit, Init
<1>3. /\ blk.failed = FALSE /\ toObs = <<>>
      /\ handed = FALSE /\ watched = ~desynced /\ desynced \in BOOLEAN
  BY DEF HandoverInit, Init, NoBlock
<1>4. Undisturbed
  <2>1. watched => ~desynced /\ dec.exact
    BY <1>2, <1>3
  <2>2. Len(enc.table) = 0
    BY <1>2
  <2>3. Plain(enc.table)
    BY <2>2 DEF Plain
  <2> QED
    BY <1>3, <2>1, <2>3 DEF Undisturbed
<1>5. MirrorExact
  BY <1>2 DEF MirrorExact
<1> QED
  BY <1>1, <1>3, <1>4, <1>5 DEF HInv

(* What the steps below start from.                                        *)
LEMMA HFacts ==
  ASSUME HInv
  PROVE  /\ TypeOK /\ dec \in Decoders /\ enc \in Encoders /\ blk \in Blocks
         /\ enc.table \in Seq(Entries) /\ enc.max \in Nat /\ Spaced(enc.table)
         /\ Undisturbed /\ Plain(enc.table)
         /\ Quiet => Same
BY DEF HInv, IInv, TypeOK, Encoders, Mirror, Fits, Undisturbed, MirrorExact, Quiet, Same

LEMMA ObserverGetsSettingsKeeps ==
  ASSUME HInv, ObserverGetsSettings, UNCHANGED watched
  PROVE  Undisturbed' /\ MirrorExact'
<1> DEFINE n == Head(toObs)
<1>1. /\ UNCHANGED <<enc, poisoned, desynced, blk, nset>>
      /\ toObs # <<>> /\ toObs' = Tail(toObs)
      /\ dec' = ApplyPeerCapacity(dec, n)
      /\ doubt' = doubt \cup CapacityDoubt(dec', enc)
  BY DEF ObserverGetsSettings, encVars
<1>2. n \in Nat /\ nset # 0
  <2>1. toObs \in Seq(Capacities) /\ nset # 0
    BY <1>1, HFacts DEF TypeOK, Undisturbed
  <2>2. Head(toObs) \in Capacities
    BY <1>1, <2>1
  <2> QED
    BY <2>1, <2>2, MirrorAssumption
<1> HIDE DEF n
<1>3. /\ dec.exact => dec'.exact
      /\ \/ n < dec.max /\ dec' = Resize(dec, n)
         \/ /\ n >= dec.max
            /\ dec'.table = dec.table /\ dec'.max = dec.max /\ dec'.over = dec.over
  BY <1>1, <1>2, HFacts, PeerCapacityShape
<1>4. Undisturbed'
  BY <1>1, <1>2, <1>3, HFacts DEF Undisturbed
<1>5. ASSUME Quiet' PROVE Same'
  <2>1. watched /\ ~poisoned /\ ~dec'.over /\ doubt = {} /\ CapacityDoubt(dec', enc) = {}
    BY <1>1, <1>2, <1>5 DEF Quiet
  <2>2. CASE n < dec.max /\ dec' = Resize(dec, n)
    <3>1. dec'.max = n /\ ~dec.over
      BY <1>2, <2>1, <2>2, HFacts, ResizeShape DEF Squeezed
    <3>2. dec.max = enc.max
      BY <2>1, <3>1, HFacts DEF Quiet, Same
    <3>3. dec'.exact
      BY <1>3, <2>1, HFacts DEF Undisturbed
    <3>4. "capacity" \in CapacityDoubt(dec', enc)
      BY <2>2, <3>1, <3>2, <3>3 DEF CapacityDoubt
    <3> QED
      BY <2>1, <3>4
  <2>3. CASE dec'.table = dec.table /\ dec'.max = dec.max /\ dec'.over = dec.over
    BY <1>1, <2>1, <2>3, HFacts DEF Quiet, Same
  <2> QED
    BY <1>3, <2>2, <2>3
<1> QED
  BY <1>4, <1>5 DEF MirrorExact, Quiet, Same

LEMMA SizeUpdateKeeps ==
  ASSUME HInv, NEW n \in Capacities \cup {DefaultTableSize}, SizeUpdate(n), UNCHANGED watched
  PROVE  Undisturbed' /\ MirrorExact'
<1>1. /\ UNCHANGED <<poisoned, desynced, blk, toObs, nset>>
      /\ enc' = [enc EXCEPT !.table = RfcFit(@, n), !.max = n,
                            !.low = IF n <= @ THEN enc.limit ELSE @]
      /\ dec' = IF Decoding THEN Resize(dec, n) ELSE dec
      /\ doubt \subseteq doubt'
  BY DEF SizeUpdate, envVars
<1>2. n \in Nat
  BY MirrorAssumption, DecoderAssumption
<1>3. enc'.table = RfcFit(enc.table, n) /\ enc'.max = n
  BY <1>1, HFacts DEF Encoders
<1>4. dec.exact => dec'.exact
  BY <1>1, <1>2, HFacts, ResizeShape
<1>5. Undisturbed'
  BY <1>1, <1>2, <1>3, <1>4, HFacts, PlainFit DEF Undisturbed
<1>6. ASSUME Quiet' PROVE Same'
  <2>1. watched /\ ~poisoned /\ ~dec'.over /\ (nset = 0 \/ doubt = {})
    BY <1>1, <1>6 DEF Quiet
  <2>2. dec' = Resize(dec, n)
    BY <1>1, <2>1, HFacts DEF Undisturbed, Decoding
  <2>3. ~dec.over
    BY <1>2, <2>1, <2>2, HFacts, ResizeShape DEF Squeezed
  <2>4. dec.table = enc.table
    BY <2>1, <2>3, HFacts DEF Quiet, Same
  <2> QED
    BY <1>2, <1>3, <2>1, <2>2, <2>4, HFacts, SameResize DEF Same
<1> QED
  BY <1>5, <1>6 DEF MirrorExact, Quiet, Same

LEMMA FailBlockKeeps ==
  ASSUME HInv, FailBlock, UNCHANGED <<toObs, nset>>, Plain(enc'.table)
  PROVE  Undisturbed' /\ MirrorExact'
BY DEF FailBlock, Undisturbed, MirrorExact, HInv

LEMMA ReferenceKeeps ==
  ASSUME HInv, NEW i \in 1..MaxInserts, Reference(i), UNCHANGED watched
  PROVE  Undisturbed' /\ MirrorExact'
<1>1. UNCHANGED <<enc, desynced, toObs, nset>>
  BY DEF Reference, encVars, envVars
<1>2. CASE FailBlock
  BY <1>1, <1>2, HFacts, FailBlockKeeps DEF Undisturbed
<1>3. CASE blk' = [blk EXCEPT !.begun = TRUE] /\ UNCHANGED <<dec, poisoned, doubt>>
  <2>1. blk'.failed = blk.failed
    BY <1>3, HFacts DEF Blocks
  <2> QED
    BY <1>1, <1>3, <2>1, HFacts DEF Undisturbed, HInv, MirrorExact
<1> QED
  BY <1>2, <1>3 DEF Reference

LEMMA InsertLiteralKeeps ==
  ASSUME HInv, NEW i \in 0..MaxInserts, NEW nl \in NameLens, NEW vl \in ValLens,
         InsertLiteral(i, nl, vl), UNCHANGED watched
  PROVE  Undisturbed' /\ MirrorExact'
<1> DEFINE f == ReadLiteral(i, nl, vl)
           g == Sent(i, nl, vl)
<1>1. /\ UNCHANGED <<toEnc, desynced, toObs, nset>>
      /\ i \in {0} \cup DOMAIN enc.table
      /\ enc' = [enc EXCEPT !.table = RfcInsert(@, g, enc.max)]
  BY DEF InsertLiteral, envVars
<1>2. enc'.table = RfcInsert(enc.table, g, enc.max) /\ enc'.max = enc.max
  BY <1>1, HFacts DEF Encoders
<1>3. f \in Fields /\ g \in Fields
  BY <1>1, HFacts, SentAndRead DEF HInv, IInv, Mirror
<1>4. Plain(enc'.table)
  <2>1. g \in Entries /\ g.unknown = FALSE
    BY <1>3, SentPlain DEF Fields
  <2>2. /\ Push(enc.table, g) \in Seq(Entries) /\ Spaced(Push(enc.table, g))
        /\ Plain(Push(enc.table, g))
    BY <1>3, <2>1, HFacts, PushType, PushSpaced, PlainPush
  <2> QED
    BY <1>2, <2>2, HFacts, PlainFit DEF RfcInsert
<1>5. CASE FailBlock
  BY <1>1, <1>4, <1>5, FailBlockKeeps
<1>6. CASE ~Decoding /\ blk' = [blk EXCEPT !.begun = TRUE] /\ UNCHANGED <<dec, poisoned>>
  <2>1. blk'.failed = blk.failed
    BY <1>6, HFacts DEF Blocks
  <2>2. ~(watched' /\ ~poisoned')
    BY <1>6, HFacts DEF Undisturbed, Decoding
  <2> QED
    BY <1>1, <1>4, <1>6, <2>1, <2>2, HFacts DEF Undisturbed, MirrorExact
<1>7. CASE /\ Decoding
           /\ blk' = [blk EXCEPT !.begun = TRUE]
           /\ dec' = Insert(dec, f)
           /\ doubt \subseteq doubt'
           /\ UNCHANGED poisoned
  <2>1. blk'.failed = blk.failed
    BY <1>7, HFacts DEF Blocks
  <2>2. dec'.over = dec.over /\ (dec.exact => dec'.exact)
    BY <1>3, <1>7, HFacts, InsertShape DEF Fields
  <2>3. Undisturbed'
    BY <1>1, <1>4, <1>7, <2>1, <2>2, HFacts DEF Undisturbed
  <2>4. ASSUME Quiet' PROVE Same'
    <3>1. Quiet
      BY <1>1, <1>7, <2>2, <2>4 DEF Quiet
    <3>2. dec.table = enc.table /\ dec.max = enc.max /\ ~dec.over
      BY <3>1, HFacts DEF Same, Quiet
    <3>3. f = g
      BY <1>1, <3>2, HFacts, SameRead
    <3> QED
      BY <1>2, <1>3, <1>7, <3>2, <3>3, HFacts, SameInsert DEF Same
  <2> QED
    BY <2>3, <2>4 DEF MirrorExact, Quiet, Same
<1>8. \/ FailBlock
      \/ ~Decoding /\ blk' = [blk EXCEPT !.begun = TRUE] /\ UNCHANGED <<dec, poisoned>>
      \/ /\ Decoding
         /\ blk' = [blk EXCEPT !.begun = TRUE]
         /\ dec' = Insert(dec, f)
         /\ doubt \subseteq doubt'
         /\ UNCHANGED poisoned
  BY DEF InsertLiteral
<1> QED
  BY <1>5, <1>6, <1>7, <1>8

LEMMA NextKeeps ==
  ASSUME HInv, Next, UNCHANGED <<handed, watched>>
  PROVE  HInv'
<1>1. IInv(FALSE)'
  BY StepIInv DEF HInv
<1>2. CASE \E n \in Capacities, seen \in BOOLEAN : SendSettings(n, seen)
  <2>1. /\ UNCHANGED <<enc, dec, poisoned, desynced, blk, doubt>>
        /\ nset' = nset + 1 /\ nset' # 0 /\ nset \in Nat
    BY <1>2, HFacts DEF SendSettings, obsVars, TypeOK
  <2>2. Undisturbed'
    BY <2>1, HFacts DEF Undisturbed
  <2>3. MirrorExact'
    BY <2>1 DEF MirrorExact, HInv
  <2> QED
    BY <1>1, <2>2, <2>3 DEF HInv
<1>3. CASE EncoderGetsSettings
  <2>1. /\ UNCHANGED <<dec, poisoned, desynced, blk, doubt, toObs, nset>>
        /\ enc'.table = enc.table /\ enc'.max = enc.max
    BY <1>3, HFacts DEF EncoderGetsSettings, obsVars, envVars, Encoders
  <2>2. Undisturbed' /\ MirrorExact'
    BY <2>1, HFacts DEF Undisturbed, MirrorExact, HInv
  <2> QED
    BY <1>1, <2>2 DEF HInv
<1>4. CASE OpenBlock \/ CloseBlock
  <2>1. /\ UNCHANGED <<enc, dec, poisoned, desynced, doubt, toObs, nset>>
        /\ blk'.failed => blk.failed
    BY <1>4, HFacts DEF OpenBlock, CloseBlock, encVars, obsVars, envVars, NoBlock, Blocks
  <2>2. Undisturbed' /\ MirrorExact'
    BY <2>1, HFacts DEF Undisturbed, MirrorExact, HInv
  <2> QED
    BY <1>1, <2>2 DEF HInv
<1>5. CASE LosePlace
  BY <1>1, <1>5, HFacts DEF LosePlace, encVars, Undisturbed, MirrorExact, HInv
<1>6. CASE Resync
  BY <1>1, <1>6, HFacts DEF Resync, encVars, envVars, Undisturbed, MirrorExact, HInv
<1>7. CASE ObserverGetsSettings
  BY <1>1, <1>7, ObserverGetsSettingsKeeps DEF HInv
<1>8. CASE \E n \in Capacities \cup {DefaultTableSize} : SizeUpdate(n)
  BY <1>1, <1>8, SizeUpdateKeeps DEF HInv
<1>9. CASE \E i \in 1..MaxInserts : Reference(i)
  BY <1>1, <1>9, ReferenceKeeps DEF HInv
<1>10. CASE \E i \in 0..MaxInserts, nl \in NameLens, vl \in ValLens : InsertLiteral(i, nl, vl)
  BY <1>1, <1>10, InsertLiteralKeeps DEF HInv
<1> QED
  BY <1>2, <1>3, <1>4, <1>5, <1>6, <1>7, <1>8, <1>9, <1>10 DEF Next

(* A decoder made of a table that is accounted for and within the limit    *)
(* has that table.                                                         *)
MadeOf(e, t, max) ==
  /\ e \in Decoders
  /\ e.table = t /\ e.size = Upto(t, Len(t)) /\ e.max = max
  /\ e.exact = TRUE /\ e.over = FALSE

LEMMA FromEntriesShape ==
  ASSUME NEW t \in Seq(Entries), NEW max \in Nat, max <= TrackLimit
  PROVE  MadeOf(EnforceLimit(FromEntries(t, max)), t, max)
<1> DEFINE d == FromEntries(t, max)
<1>1. Upto(t, Len(t)) \in Nat
  <2>1. Len(t) \in Nat /\ (Len(t) # 0 => Len(t) \in 1..Len(t))
    OBVIOUS
  <2> QED
    BY <2>1, EntryAt DEF Upto
<1>2. /\ d \in Decoders
      /\ d.table = t /\ d.size = Upto(t, Len(t)) /\ d.max = max
      /\ d.exact = TRUE /\ d.over = FALSE
  BY <1>1 DEF FromEntries, Decoders
<1> HIDE DEF d
<1>3. ~(d.max > TrackLimit)
  BY <1>2, DecoderAssumption
<1>4. EnforceLimit(d) = d
  BY <1>3 DEF EnforceLimit
<1>5. MadeOf(EnforceLimit(d), t, max)
  BY <1>2, <1>4 DEF MadeOf
<1> QED
  BY <1>5 DEF d

LEMMA HandoverKeeps ==
  ASSUME HInv, Handover
  PROVE  HInv'
<1> DEFINE w == Written(dec.table)
<1>1. /\ UNCHANGED <<enc, nins, toEnc, poisoned, desynced, doubt, blk, toObs, nset, losses, watched>>
      /\ handed' = TRUE
      /\ dec' = EnforceLimit(FromEntries(w, dec.max))
      /\ ~poisoned /\ ~desynced /\ dec.exact /\ ~dec.over
  BY DEF Handover, Snapshottable, IsExact, encVars, envVars
<1>2. /\ dec.table \in Seq(Entries) /\ dec.max \in Nat /\ dec.size \in Nat
      /\ Mirror(dec, enc, doubt, FALSE)
  BY HFacts DEF HInv, IInv, Decoders
<1>3. dec.max <= TrackLimit
  BY <1>1, <1>2, DecoderAssumption DEF Mirror, Accounted
<1>4. /\ w \in Seq(Entries) /\ Len(w) = Len(dec.table)
      /\ \A i \in 1..Len(w) : w[i].val = dec.table[i].val /\ w[i].upto = dec.table[i].upto
      /\ Plain(dec.table) => w = dec.table
  BY <1>2, WrittenShape
<1> HIDE DEF w
<1>5. /\ dec' \in Decoders
      /\ dec'.table = w /\ dec'.size = Upto(w, Len(w)) /\ dec'.max = dec.max
      /\ dec'.exact = TRUE /\ dec'.over = FALSE
  <2>1. PICK m \in Nat : m = dec.max /\ m <= TrackLimit
    BY <1>2, <1>3
  <2>2. MadeOf(EnforceLimit(FromEntries(w, m)), w, m)
    BY <1>4, <2>1, FromEntriesShape
  <2>3. MadeOf(dec', w, dec.max)
    BY <1>1, <2>1, <2>2
  <2> QED
    BY <2>3 DEF MadeOf
<1>6. Upto(w, Len(w)) = dec.size
  <2>1. Upto(w, Len(w)) = Upto(dec.table, Len(dec.table))
    <3>1. Len(w) # 0 => Len(w) \in 1..Len(w)
      BY <1>4
    <3> QED
      BY <1>4, <3>1 DEF Upto
  <2> QED
    BY <1>2, <2>1 DEF Mirror, Accounted
<1>7. Mirror(dec', enc, doubt, FALSE)
  <2>1. Agrees(dec'.table, enc.table, FALSE)
    BY <1>2, <1>4, <1>5 DEF Mirror, Agrees
  <2>2. "size" \notin doubt => SameBytes(dec'.table, enc.table)
    BY <1>2, <1>4, <1>5 DEF Mirror, SameBytes
  <2>3. Accounted(dec')
    BY <1>1, <1>2, <1>5, <1>6 DEF Mirror, Accounted
  <2>4. Roomy(dec', enc, doubt) /\ Covers(dec', enc, doubt)
    BY <1>1, <1>2, <1>4, <1>5 DEF Mirror, Roomy, Covers
  <2> QED
    BY <1>2, <2>1, <2>2, <2>3, <2>4 DEF Mirror
<1>8. IInv(FALSE)'
  <2>1. TypeOK'
    BY <1>1, <1>5, HFacts DEF TypeOK
  <2>2. EmptyWhenLost'
    BY <1>1, HFacts DEF Undisturbed, EmptyWhenLost, Lost
  <2> QED
    BY <1>1, <1>7, <2>1, <2>2 DEF IInv
<1>9. Undisturbed'
  BY <1>1, <1>5, HFacts DEF Undisturbed
<1>10. MirrorExact'
  <2> SUFFICES ASSUME watched, nset = 0 \/ doubt = {}
               PROVE  dec'.table = enc.table /\ dec'.max = enc.max
    BY <1>1 DEF MirrorExact
  <2>1. dec.table = enc.table /\ dec.max = enc.max
    BY <1>1, HFacts DEF Quiet, Same
  <2> QED
    BY <1>4, <1>5, <2>1, HFacts
<1> QED
  BY <1>1, <1>8, <1>9, <1>10 DEF HInv

-----------------------------------------------------------------------------
(* The theorems.                                                           *)

(* The strengthening both theorems below rest on.                          *)
THEOREM HandoverInductive == HandoverSpec => []HInv
<1>1. HInv /\ [HandoverNext]_handoverVars => HInv'
  <2> SUFFICES ASSUME HInv, [HandoverNext]_handoverVars PROVE HInv'
    OBVIOUS
  <2>1. CASE Next /\ UNCHANGED <<handed, watched>>
    BY <2>1, NextKeeps
  <2>2. CASE Handover
    BY <2>2, HandoverKeeps
  <2>3. CASE UNCHANGED handoverVars
    <3>1. IInv(FALSE)'
      BY <2>3, StepIInv DEF handoverVars, HInv
    <3>2. UNCHANGED <<enc, dec, poisoned, desynced, blk, doubt, toObs, nset, handed, watched>>
      BY <2>3 DEF handoverVars, vars
    <3> QED
      BY <3>1, <3>2 DEF HInv, Undisturbed, MirrorExact
  <2> QED
    BY <2>1, <2>2, <2>3 DEF HandoverNext
<1> QED
  BY <1>1, HandoverInitStep, PTL DEF HandoverSpec

(* A daemon that missed nothing, and the rebuilder it seeds, hold the      *)
(* encoder's table, for tables of any size, at whatever byte the snapshot  *)
(* was taken.                                                              *)
THEOREM MirrorExactTheorem == HandoverSpec => []MirrorExact
<1>1. HInv => MirrorExact
  BY DEF HInv
<1> QED
  BY <1>1, HandoverInductive, PTL

(* Every value in a seeded table is the encoder's, whatever was missed     *)
(* before the snapshot or after it.                                        *)
THEOREM SeededValuesTrueTheorem == HandoverSpec => []SeededValuesTrue
<1>1. HInv => SeededValuesTrue
  <2> SUFFICES ASSUME HInv, NEW i \in DOMAIN dec.table, i \in DOMAIN enc.table
               PROVE  dec.table[i].val = enc.table[i].val
    BY DEF SeededValuesTrue
  <2>1. /\ dec.table \in Seq(Entries) /\ enc.table \in Seq(Entries)
        /\ Agrees(dec.table, enc.table, FALSE)
    BY HFacts DEF HInv, IInv, Decoders, Mirror
  <2>2. i \in 1..Len(dec.table) /\ i <= Len(enc.table)
    BY <2>1
  <2> QED
    BY <2>1, <2>2 DEF Agrees
<1> QED
  BY <1>1, HandoverInductive, PTL
=============================================================================
