--------------------------------- MODULE Recode ---------------------------------
(***************************************************************************)
(* The coding of the rebuilt capture: a header block as literals that need *)
(* no table (crates/h2core/src/hpack.rs, encode_literal), cut into frames  *)
(* (crates/h2rebuild/src/rebuild.rs, encode_block), and what a reader      *)
(* without any state makes of it (hpack.rs, decode; conn.rs, parse).       *)
(*                                                                         *)
(* A stream is a sequence of cells.  An octet is a cell below 2 * IntBase, *)
(* where the code has IntBase = 128, so that short strings reach the       *)
(* longer forms of an integer; each field of a frame header, and the id    *)
(* of a promised stream, is one cell.                                      *)
(***************************************************************************)
EXTENDS Integers, Sequences, FiniteSets, FiniteSetsExt, SequencesExt

CONSTANTS
  IntBase,    \* how many values the low bits of an octet have
  MaxFrame    \* DEFAULT_MAX_FRAME_SIZE

ASSUME RecodeAssumption == IntBase \in Nat \ {0, 1} /\ MaxFrame \in Nat \ {0}

(* Frame types and flags.                                                  *)
DATA == 0
HEADERS == 1
SETTINGS == 4
PUSH_PROMISE == 5
CONTINUATION == 9

END_STREAM == 1
END_HEADERS == 4

NeverIndexed == 16

-----------------------------------------------------------------------------
(* Integers with a prefix of seven bits, and strings.                      *)

Prefix == IntBase - 1

(* The octets after the prefix, the low bits first.                        *)
Groups[v \in Nat] ==
  IF v < IntBase THEN <<v>> ELSE <<IntBase + (v % IntBase)>> \o Groups[v \div IntBase]

(* The largest value of the prefix, written as itself alone.               *)
WriteIntInPrefix(v) == IF v <= Prefix THEN <<v>> ELSE <<Prefix>> \o Groups[v - Prefix]

WriteInt(v) == IF v < Prefix THEN <<v>> ELSE <<Prefix>> \o Groups[v - Prefix]

Ok(value, rest) == [ok |-> TRUE, value |-> value, rest |-> rest]
Error == [ok |-> FALSE, value |-> 0, rest |-> <<>>]

Rest(b, n) == SubSeq(b, n + 1, Len(b))

(* The value of such octets.                                               *)
Ungrouped[b \in Seq(Nat)] ==
  IF b[1] < IntBase THEN b[1] ELSE (b[1] % IntBase) + IntBase * Ungrouped[Tail(b)]

(* Where an integer ends that does not end with its prefix.                *)
Stops(b) == {k \in 2..Min({Len(b), 6}) : b[k] < IntBase}

ReadInt(b) ==
  IF b = <<>> THEN Error
  ELSE IF b[1] % IntBase < Prefix THEN Ok(b[1] % IntBase, Tail(b))
  ELSE IF Stops(b) = {} THEN Error
  ELSE Ok(Prefix + Ungrouped[Tail(b)], Rest(b, Min(Stops(b))))

WriteString(s) == WriteInt(Len(s)) \o s

(* Strings in Huffman code do not occur in what encode_literal writes.     *)
ReadString(b) ==
  LET n == ReadInt(b)
  IN  IF ~n.ok \/ b[1] >= IntBase \/ n.value > Len(n.rest) THEN Error
      ELSE Ok(SubSeq(n.rest, 1, n.value), Rest(n.rest, n.value))

-----------------------------------------------------------------------------
(* Header lists.                                                           *)

EncodeField(f) ==
  <<IF f.sensitive THEN NeverIndexed ELSE 0>> \o WriteString(f.name) \o WriteString(f.value)

EncodeLiteral(fields) == FlattenSeq([i \in DOMAIN fields |-> EncodeField(fields[i])])

(* The two branches of decode() that literals with a new name take.        *)
ReadLiteral(b) ==
  LET name == ReadString(Tail(b))
      value == ReadString(name.rest)
  IN  IF b[1] \in {0, NeverIndexed} /\ name.ok /\ value.ok
      THEN Ok([name |-> name.value, value |-> value.value, sensitive |-> b[1] = NeverIndexed],
              value.rest)
      ELSE Error

Decode[b \in Seq(Nat)] ==
  IF b = <<>> THEN Ok(<<>>, <<>>)
  ELSE LET f == ReadLiteral(b)
           others == Decode[f.rest]
       IN  IF f.ok /\ others.ok THEN Ok(<<f.value>> \o others.value, <<>>) ELSE Error

-----------------------------------------------------------------------------
(* Messages: a header block, with fields, or another frame, with payload.  *)

Block(typ, id, flags, promised, fields) ==
  [typ |-> typ, id |-> id, flags |-> flags, promised |-> promised, fields |-> fields,
   payload |-> <<>>]

OtherFrame(typ, id, flags, payload) ==
  [typ |-> typ, id |-> id, flags |-> flags, promised |-> 0, fields |-> <<>>,
   payload |-> payload]

Message ==
  [typ : Nat, id : Nat, flags : Nat, promised : Nat, payload : Seq(Nat),
   fields : Seq([name : Seq(Nat), value : Seq(Nat), sensitive : BOOLEAN])]

IsBlock(m) == m.typ \in {HEADERS, PUSH_PROMISE}

BuildFrame(typ, flags, id, payload) == <<Len(payload), typ, flags, id>> \o payload

Body(m) == (IF m.typ = PUSH_PROMISE THEN <<m.promised>> ELSE <<>>) \o EncodeLiteral(m.fields)

(* A sequence cut into pieces of n, the last of which may be shorter.      *)
Chunks(s, n) ==
  [i \in 1..((Len(s) + n - 1) \div n) |-> SubSeq(s, (i - 1) * n + 1, Min({i * n, Len(s)}))]

BodyChunks(m) == IF Body(m) = <<>> THEN << <<>> >> ELSE Chunks(Body(m), MaxFrame)

BlockFlags(m, i, n) ==
  (IF i = 1 /\ m.typ = HEADERS THEN m.flags ELSE 0) + (IF i = n THEN END_HEADERS ELSE 0)

(* A message as the frames that carry it.                                  *)
EncodeBlock(m) ==
  LET c == BodyChunks(m)
  IN  [i \in DOMAIN c |->
        BuildFrame(IF i = 1 THEN m.typ ELSE CONTINUATION, BlockFlags(m, i, Len(c)), m.id, c[i])]

Encode(m) ==
  IF IsBlock(m) THEN EncodeBlock(m) ELSE << BuildFrame(m.typ, m.flags, m.id, m.payload) >>

-----------------------------------------------------------------------------
(* The reader.                                                             *)

HeaderCells == 4

Frames[b \in Seq(Nat)] ==
  IF b = <<>> THEN Ok(<<>>, <<>>)
  ELSE IF Len(b) < HeaderCells \/ Len(b) < HeaderCells + b[1] THEN Error
  ELSE LET f == [typ |-> b[2], flags |-> b[3], id |-> b[4],
                 payload |-> SubSeq(b, HeaderCells + 1, HeaderCells + b[1])]
           others == Frames[Rest(b, HeaderCells + b[1])]
       IN  IF others.ok THEN Ok(<<f>> \o others.value, <<>>) ELSE Error

(* A block that is complete.  frames are those that carry it.              *)
Finished(frames) ==
  LET f == frames[1]
      body == FlattenSeq([i \in DOMAIN frames |-> frames[i].payload])
      push == f.typ = PUSH_PROMISE
      fields == Decode[IF push THEN Rest(body, 1) ELSE body]
  IN  IF fields.ok
      THEN <<Block(f.typ, f.id, f.flags % END_HEADERS, IF push THEN body[1] ELSE 0, fields.value)>>
      ELSE <<>>

(* One frame after the other; block has those of the block that is open.   *)
TakeFrame(r, f) ==
  LET block == Append(r.block, f)
      done == (f.flags \div END_HEADERS) % 2 = 1
  IN  IF f.typ \in {HEADERS, PUSH_PROMISE, CONTINUATION}
      THEN IF (f.typ = CONTINUATION) # (r.block # <<>>) THEN [r EXCEPT !.ok = FALSE]
           ELSE IF ~done THEN [r EXCEPT !.block = block]
           ELSE [ok |-> r.ok /\ Finished(block) # <<>>, block |-> <<>>,
                 value |-> r.value \o Finished(block)]
      ELSE [r EXCEPT !.ok = @ /\ r.block = <<>>,
                     !.value = Append(@, OtherFrame(f.typ, f.id, f.flags, f.payload))]

(* The messages of a stream, if it is sound to its end.                    *)
Messages(b) ==
  LET frames == Frames[b]
      read == FoldLeft(TakeFrame, [ok |-> frames.ok, block |-> <<>>, value |-> <<>>], frames.value)
  IN  [ok |-> read.ok /\ read.block = <<>>, value |-> read.value]
=============================================================================
