------------------------------ MODULE HpackMirror ------------------------------
(***************************************************************************)
(* One direction of a connection: the sender's HPACK encoder and the       *)
(* passive decoder that mirrors its dynamic table.                         *)
(*                                                                         *)
(* The encoder (outside the repository: any RFC 7541 peer) and the         *)
(* observer are drawn at the same byte of the stream: the decoder state    *)
(* "as of byte N" beside the encoder state as of byte N.  Only SETTINGS    *)
(* travel the other way, so the encoder and the observer learn of them at  *)
(* byte positions that are independent: toEnc and toObs.                   *)
(*                                                                         *)
(* finish_block() decodes a complete header block at once.  Here one       *)
(* action is one iteration of the loop of Decoder::decode, and nothing     *)
(* else touches the direction while a block is open.                       *)
(***************************************************************************)
EXTENDS HpackDecoder, FiniteSets

CONSTANTS
  Joins,        \* how the observer came to the connection: {"start", "midstream"}
  NameLens,     \* lengths of header names the encoder may send
  ValLens,      \* lengths of header values
  Capacities,   \* values SETTINGS_HEADER_TABLE_SIZE may take
  MaxInserts,   \* bound on insertions by the encoder
  MaxSettings,  \* bound on SETTINGS sent
  MaxLosses     \* bound on gaps and framing errors

ASSUME MirrorAssumption ==
  /\ Joins \subseteq {"start", "midstream"}
  /\ NameLens \subseteq Nat
  /\ ValLens \subseteq Nat
  /\ Capacities \subseteq Nat
  /\ MaxInserts \in Nat
  /\ MaxSettings \in Nat
  /\ MaxLosses \in Nat

VARIABLES
  enc,       \* the encoder: its table, the capacity in use, the limit its
             \* peer set, and the lowest limit it still has to signal
  nins,      \* insertions so far; each inserted value is fresh
  dec,       \* Direction.dec
  poisoned,  \* Direction.poisoned
  desynced,  \* Direction.desynced
  blk,       \* the header block being decoded
  toEnc,     \* SETTINGS under way to the encoder
  toObs,     \* SETTINGS the observer has yet to see in the opposite direction
  nset,      \* SETTINGS sent so far
  losses,    \* gaps and framing errors so far
  doubt      \* history: ways in which the accounting has left the encoder's
             \* since the table was last known or dropped

encVars == <<enc, nins, toEnc>>
obsVars == <<dec, poisoned, desynced, doubt>>
envVars == <<toObs, nset, losses>>
vars == <<enc, nins, toEnc, dec, poisoned, desynced, doubt, toObs, nset, losses, blk>>

Encoders == [table: Seq(Entries), max: Nat, limit: Nat, low: Nat]
Blocks == [open: BOOLEAN, begun: BOOLEAN, failed: BOOLEAN]
NoBlock == [open |-> FALSE, begun |-> FALSE, failed |-> FALSE]

-----------------------------------------------------------------------------
(* The encoder's table, from RFC 7541 sections 4.3 and 4.4: after a change *)
(* the entries that remain are the newest that fit.  An entry larger than  *)
(* the table leaves it empty.                                              *)

RfcFit(t, max) ==
  SubSeq(t, 1, Cardinality({i \in DOMAIN t : t[i].upto <= max}))

RfcInsert(t, f, max) == RfcFit(Push(t, f), max)

(* A limit below the capacity in use must be signalled before the next     *)
(* field of a block (RFC 7541 4.2).                                        *)
Signalled == enc.max <= enc.low

Emitting == blk.open /\ Signalled

-----------------------------------------------------------------------------
(* The observer.  It decodes what it has framed, up to the first error of  *)
(* a block.                                                                *)

Decoding == ~desynced /\ ~blk.failed

(* Bookkeeping, not code: the observer claims exactness while it works     *)
(* with less room than the encoder has.                                    *)
CapacityDoubt(d, e) == IF d.exact /\ d.max < e.max THEN {"capacity"} ELSE {}

TypeOK ==
  /\ enc \in Encoders
  /\ nins \in Nat
  /\ dec \in Decoders
  /\ poisoned \in BOOLEAN
  /\ desynced \in BOOLEAN
  /\ blk \in Blocks
  /\ toEnc \in Seq(Capacities)
  /\ toObs \in Seq(Capacities)
  /\ nset \in Nat
  /\ losses \in Nat
  /\ doubt \subseteq {"capacity", "size"}

Init ==
  /\ enc = [table |-> <<>>, max |-> DefaultTableSize,
            limit |-> DefaultTableSize, low |-> DefaultTableSize]
  /\ nins = 0
  /\ \/ /\ "start" \in Joins
        /\ dec = EnforceLimit(NewExact)
        /\ desynced = FALSE
     \/ /\ "midstream" \in Joins
        /\ dec = EnforceLimit(NewPartial)
        /\ desynced = TRUE
  /\ poisoned = FALSE
  /\ blk = NoBlock
  /\ toEnc = <<>>
  /\ toObs = <<>>
  /\ nset = 0
  /\ losses = 0
  /\ doubt = {}

-----------------------------------------------------------------------------
(* SETTINGS.                                                               *)

(* The receiver advertises a capacity.  The observer sees it unless it     *)
(* misses that part of the opposite direction.                             *)
SendSettings(n, seen) ==
  /\ nset < MaxSettings
  /\ nset' = nset + 1
  /\ toEnc' = Append(toEnc, n)
  /\ toObs' = IF seen THEN Append(toObs, n) ELSE toObs
  /\ UNCHANGED <<enc, nins, losses, blk, obsVars>>

(* The encoder receives it between two blocks.                             *)
EncoderGetsSettings ==
  /\ ~blk.open
  /\ toEnc # <<>>
  /\ toEnc' = Tail(toEnc)
  /\ enc' = [enc EXCEPT !.limit = Head(toEnc),
                        !.low = IF Head(toEnc) < @ THEN Head(toEnc) ELSE @]
  /\ UNCHANGED <<nins, blk, obsVars, envVars>>

(* The observer meets it in the opposite direction and caps this decoder.  *)
ObserverGetsSettings ==
  /\ ~blk.open
  /\ toObs # <<>>
  /\ toObs' = Tail(toObs)
  /\ dec' = ApplyPeerCapacity(dec, Head(toObs))
  /\ doubt' = doubt \cup CapacityDoubt(dec', enc)
  /\ UNCHANGED <<encVars, poisoned, desynced, blk, nset, losses>>

-----------------------------------------------------------------------------
(* One header block.                                                       *)

OpenBlock ==
  /\ ~blk.open
  /\ blk' = [NoBlock EXCEPT !.open = TRUE]
  /\ UNCHANGED <<encVars, obsVars, envVars>>

(* Dynamic table size update, at the start of a block only.                *)
SizeUpdate(n) ==
  /\ blk.open
  /\ ~blk.begun
  /\ n <= enc.limit
  /\ enc' = [enc EXCEPT !.table = RfcFit(@, n), !.max = n,
                        !.low = IF n <= @ THEN enc.limit ELSE @]
  /\ dec' = IF Decoding THEN Resize(dec, n) ELSE dec
  /\ doubt' = doubt \cup CapacityDoubt(dec', enc')
  /\ UNCHANGED <<nins, toEnc, poisoned, desynced, blk, envVars>>

(* An error arm that resets the table and leaves the direction trusted.    *)
FailBlockTrusted ==
  /\ blk' = [blk EXCEPT !.failed = TRUE, !.begun = TRUE]
  /\ dec' = ResetPartial(dec)
  /\ doubt' = {}
  /\ UNCHANGED poisoned

(* The error arm of finish_block.                                          *)
FailBlock ==
  /\ blk' = [blk EXCEPT !.failed = TRUE, !.begun = TRUE]
  /\ poisoned' = TRUE
  /\ dec' = ResetPartial(dec)
  /\ doubt' = {}

(* An indexed field, or a literal that names dynamic entry i and is not    *)
(* inserted.                                                               *)
Reference(i) ==
  /\ Emitting
  /\ i \in DOMAIN enc.table
  /\ \/ /\ Decoding
        /\ BadIndex(dec, i)
        /\ FailBlock
     \/ /\ ~(Decoding /\ BadIndex(dec, i))
        /\ blk' = [blk EXCEPT !.begun = TRUE]
        /\ UNCHANGED <<dec, poisoned, doubt>>
  /\ UNCHANGED <<encVars, desynced, envVars>>

(* What the encoder inserts: a fresh value under a new name of length nl   *)
(* (i = 0), or under the name of entry i.                                  *)
Sent(i, nl, vl) ==
  IF i = 0 THEN Field(nins + 1, nl, nins + 1, vl, FALSE)
  ELSE Field(enc.table[i].name, enc.table[i].nlen, nins + 1, vl, FALSE)

(* What read_literal makes of it.                                          *)
ReadLiteral(i, nl, vl) ==
  IF i = 0 THEN Field(nins + 1, nl, nins + 1, vl, FALSE)
  ELSE IF Known(dec, i)
  THEN Field(dec.table[i].name, dec.table[i].nlen, nins + 1, vl, dec.table[i].unknown)
  ELSE Field(PlaceholderName, PlaceholderLen, nins + 1, vl, TRUE)

(* Literal with incremental indexing.                                      *)
InsertLiteral(i, nl, vl) ==
  /\ Emitting
  /\ nins < MaxInserts
  /\ i \in {0} \cup DOMAIN enc.table
  /\ nins' = nins + 1
  /\ enc' = [enc EXCEPT !.table = RfcInsert(@, Sent(i, nl, vl), enc.max)]
  /\ \/ /\ ~Decoding
        /\ blk' = [blk EXCEPT !.begun = TRUE]
        /\ UNCHANGED <<dec, poisoned, doubt>>
     \/ /\ Decoding
        /\ i # 0 /\ BadIndex(dec, i)
        /\ FailBlock
     \/ /\ Decoding
        /\ ~(i # 0 /\ BadIndex(dec, i))
        /\ blk' = [blk EXCEPT !.begun = TRUE]
        /\ dec' = Insert(dec, ReadLiteral(i, nl, vl))
        /\ doubt' = doubt \cup CapacityDoubt(dec', enc')
                      \cup (IF ReadLiteral(i, nl, vl).nlen # Sent(i, nl, vl).nlen
                            THEN {"size"} ELSE {})
        /\ UNCHANGED poisoned
  /\ UNCHANGED <<toEnc, desynced, envVars>>

(* END_HEADERS.                                                            *)
CloseBlock ==
  /\ Emitting
  /\ blk' = [blk EXCEPT !.open = FALSE]
  /\ UNCHANGED <<encVars, obsVars, envVars>>

-----------------------------------------------------------------------------
(* Losing the place in the stream and finding it again.                    *)

(* A gap handler that leaves the direction trusted.                        *)
LosePlaceTrusted ==
  /\ ~blk.open
  /\ losses < MaxLosses
  /\ losses' = losses + 1
  /\ desynced' = TRUE
  /\ dec' = ResetPartial(dec)
  /\ doubt' = {}
  /\ UNCHANGED <<encVars, poisoned, blk, toObs, nset>>

(* on_gap() and mark_bad_block() leave the direction in the same state.    *)
(* What the encoder sends from here to Resync is not decoded.              *)
LosePlace ==
  /\ ~blk.open
  /\ losses < MaxLosses
  /\ losses' = losses + 1
  /\ poisoned' = TRUE
  /\ desynced' = TRUE
  /\ dec' = ResetPartial(dec)
  /\ doubt' = {}
  /\ UNCHANGED <<encVars, blk, toObs, nset>>

(* try_resync() adopts a frame boundary between two blocks.                *)
Resync ==
  /\ ~blk.open
  /\ desynced
  /\ desynced' = FALSE
  /\ UNCHANGED <<encVars, dec, poisoned, doubt, blk, envVars>>

-----------------------------------------------------------------------------
Next ==
  \/ \E n \in Capacities, seen \in BOOLEAN : SendSettings(n, seen)
  \/ EncoderGetsSettings
  \/ ObserverGetsSettings
  \/ OpenBlock
  \/ \E n \in Capacities \cup {DefaultTableSize} : SizeUpdate(n)
  \/ \E i \in 1..MaxInserts : Reference(i)
  \/ \E i \in 0..MaxInserts, nl \in NameLens, vl \in ValLens : InsertLiteral(i, nl, vl)
  \/ CloseBlock
  \/ LosePlace
  \/ Resync

Spec == Init /\ [][Next]_vars

-----------------------------------------------------------------------------
(* Properties.                                                             *)

(* Whatever the observer missed, misjudged or guessed, a dynamic index it  *)
(* resolves is the entry the encoder means: the value is the encoder's,    *)
(* and so is the name unless the entry is marked unknown (hpack.rs:8-17;   *)
(* insert(), evict(), reset_partial()).                                    *)
NeverWrong ==
  \A i \in DOMAIN dec.table : i \in DOMAIN enc.table =>
    /\ dec.table[i].val = enc.table[i].val
    /\ dec.table[i].unknown \/ dec.table[i].name = enc.table[i].name

(* When the observer calls its table exact, every index the encoder may    *)
(* use resolves - as long as it has not worked with less room than the     *)
(* encoder, and no placeholder stood in for a name of another length       *)
(* (the proof sketched at hpack.rs:18-21: evict() and recheck_exact()).    *)
ExactIsComplete ==
  IsExact(dec) /\ doubt = {} => Len(enc.table) <= Len(dec.table)

(* The memory a peer can make a decoder hold is bounded by its capacity    *)
(* and by track_limit, through every resize, insertion and loss            *)
(* (enforce_limit(), evict()).                                             *)
TableBounded ==
  /\ dec.size = Upto(dec.table, Len(dec.table))
  /\ dec.size <= dec.max
  /\ dec.max > TrackLimit => dec.table = <<>>
  /\ dec.size <= TrackLimit

(* A block of a conforming peer fails to decode, and the direction is      *)
(* poisoned for good, only when the accounting had already left the        *)
(* encoder's (BadIndex in decode(), the error arm of finish_block()).      *)
FailureNeedsDoubt ==
  [][~blk.failed /\ blk'.failed => doubt # {}]_vars

(* Exactness, once claimed, is not silently withdrawn: only a loss that    *)
(* poisons the direction or a table above the track limit ends it          *)
(* (reset_partial() is called with poisoned set; enforce_limit()).         *)
WithdrawnVisibly ==
  [][IsExact(dec) /\ ~IsExact(dec)' => poisoned' \/ dec'.over]_vars

=============================================================================
