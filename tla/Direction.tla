------------------------------- MODULE Direction -------------------------------
(***************************************************************************)
(* One direction of a connection as the frame parser sees it               *)
(* (crates/h2core/src/conn.rs, struct Direction): reassembled bytes in,    *)
(* frames and complete header blocks out.  Both h2tapd and h2rebuild drive *)
(* it.                                                                     *)
(*                                                                         *)
(* Reassembly is the abstract ByteFeed, which Reassembler implements.  The *)
(* HPACK decoder is reduced to the set of header blocks decoded since its  *)
(* table was last known or dropped; HpackMirror has its content.  feed()   *)
(* and tick() are an arrival followed by parse(), whose loop runs one      *)
(* iteration per step; nothing else touches the direction until it breaks. *)
(*                                                                         *)
(* Bytes of a payload are taken never to look like a chain of frames       *)
(* (frame.rs:159-161).                                                     *)
(***************************************************************************)
EXTENDS ByteFeed, FiniteSets

CONSTANTS
  Setups,             \* what is sent, and how the direction is set up
  PrefaceLen,         \* length of the connection preface, 0 for the server's side
  FrameHeaderLen,     \* FRAME_HEADER_LEN
  MaxBufferedFrame,   \* MAX_BUFFERED_FRAME
  MaxPlausibleFrame,  \* MAX_PLAUSIBLE_FRAME
  ResyncWindow,       \* RESYNC_WINDOW
  MaxGaps             \* bound on gaps

FrameTypes == {"HEADERS", "PUSH_PROMISE", "CONTINUATION", "SETTINGS", "DATA"}

(* end is END_HEADERS; sound says that header_block_fragment accepts it.   *)
Frames == [typ: FrameTypes, len: Nat, end: BOOLEAN, sound: BOOLEAN]

(* A header block is its opening frame and the CONTINUATIONs that follow   *)
(* it, with nothing in between (RFC 9113 4.3).                             *)
Conforming(s) ==
  \A i \in DOMAIN s :
    /\ s[i].typ \in {"HEADERS", "PUSH_PROMISE", "CONTINUATION"} /\ ~s[i].end =>
         i + 1 \in DOMAIN s /\ s[i+1].typ = "CONTINUATION"
    /\ s[i].typ = "CONTINUATION" => i > 1 /\ ~s[i-1].end

ASSUME DirectionAssumption ==
  /\ \A s \in Setups :
       /\ s = [stream |-> s.stream, mode |-> s.mode, keep_payloads |-> s.keep_payloads]
       /\ s.stream \in Seq(Frames) /\ Conforming(s.stream)
       /\ s.mode \in {"start", "midstream", "seeded"}
       /\ s.keep_payloads \in BOOLEAN
  /\ PrefaceLen \in Nat
  /\ FrameHeaderLen \in Nat \ {0}
  /\ MaxBufferedFrame \in Nat
  /\ MaxPlausibleFrame \in Nat
  /\ ResyncWindow \in Nat
  /\ MaxGaps \in Nat

VARIABLES
  setup,           \* which of Setups: the frames that are sent, the mode, keep_payloads
  parsing,         \* parse() is running
  poisoned, desynced, expect_preface, discard,
  pending,         \* pending_start_seq, as a position, or NoTarget
  misaligned,      \* snapshot_misaligned
  block,           \* the frames whose fragments are in `block'
  block_hdr,       \* the frame that opened the block, or 0
  exact,           \* dec.is_exact()
  decoded,         \* header blocks decoded, by the frame that opened them
  since            \* history: where decoding (re)started

framing == <<poisoned, desynced, expect_preface, discard, pending, misaligned>>
blocks == <<block, block_hdr>>
decoder == <<exact, decoded, since>>
vars == <<start, lo, bytes, gaps, setup, parsing, poisoned, desynced, expect_preface,
          discard, pending, misaligned, block, block_hdr, exact, decoded, since>>

NoTarget == -1

-----------------------------------------------------------------------------
(* The layout of the stream.                                               *)

stream == setup.stream

Layout ==
  [s \in {x.stream : x \in Setups} |->
     LET at[i \in 1..(Len(s) + 1)] ==
           IF i = 1 THEN PrefaceLen ELSE at[i-1] + FrameHeaderLen + s[i-1].len
     IN  at]

(* Where frame i starts, and where it ends.                                *)
At(i) == Layout[stream][i]
After(i) == Layout[stream][i + 1]

End == After(Len(stream))

Boundaries == {PrefaceLen} \cup {After(i) : i \in DOMAIN stream}

FramesAt(p) == {i \in DOMAIN stream : At(i) = p}

IsHeaderFrame(i) == stream[i].typ \in {"HEADERS", "PUSH_PROMISE", "CONTINUATION"}

Opens(i) == stream[i].typ \in {"HEADERS", "PUSH_PROMISE"}

(* The frames from i to the one that ends the block i opens.               *)
Block(i) ==
  {j \in i..Len(stream) : \A k \in i..(j-1) : ~stream[k].end}

Closes(i) == CHOOSE j \in Block(i) : \A k \in Block(i) : k <= j

(* The blocks that lie wholly between two positions.                       *)
BlocksWithin(from, to) ==
  {i \in DOMAIN stream :
     /\ Opens(i)
     /\ At(i) >= from
     /\ After(Closes(i)) <= to}

-----------------------------------------------------------------------------
Init ==
  /\ FeedInit
  /\ setup \in Setups
  /\ parsing = FALSE
  /\ poisoned = FALSE
  /\ discard = 0
  /\ misaligned = FALSE
  /\ block = {}
  /\ block_hdr = 0
  /\ decoded = {}
  /\ \/ /\ setup.mode = "midstream"
        /\ desynced = TRUE /\ expect_preface = FALSE
        /\ pending = NoTarget /\ exact = FALSE /\ since = -1
     \/ /\ setup.mode = "start"
        /\ desynced = FALSE /\ expect_preface = (PrefaceLen > 0)
        /\ pending = NoTarget /\ exact = TRUE /\ since = 0
     \/ /\ setup.mode = "seeded"
        /\ desynced = FALSE /\ expect_preface = FALSE
        /\ pending \in Boundaries /\ exact = TRUE /\ since = pending

(* reset_partial: what is decoded next is decoded from position p on.      *)
ResetPartial(p) ==
  /\ exact' = FALSE
  /\ decoded' = {}
  /\ since' = p

(* A gap handler that forgets a block may be open.                         *)
OnGapKeepsBlock ==
  /\ poisoned' = TRUE
  /\ desynced' = TRUE
  /\ discard' = 0
  /\ ResetPartial(lo')
  /\ UNCHANGED <<expect_preface, pending, misaligned, blocks>>

(* A gap handler that goes on with the table it had.                       *)
OnGapKeepsTable ==
  /\ poisoned' = TRUE
  /\ desynced' = TRUE
  /\ discard' = 0
  /\ block' = {}
  /\ block_hdr' = 0
  /\ UNCHANGED <<expect_preface, pending, misaligned, decoder>>

OnGap ==
  /\ poisoned' = TRUE
  /\ desynced' = TRUE
  /\ discard' = 0
  /\ block' = {}
  /\ block_hdr' = 0
  /\ ResetPartial(lo')
  /\ UNCHANGED <<expect_preface, pending, misaligned>>

(* feed() and tick(), up to the call of parse().                           *)
Arrival(h) ==
  /\ ~parsing
  /\ h <= End
  /\ parsing' = TRUE
  /\ UNCHANGED setup

(* A direction set up on a SYN starts with the byte after it.              *)
FirstBytes(p, h) ==
  /\ Arrival(h)
  /\ p <= h
  /\ setup.mode = "start" => p = 0
  /\ Begin(p, h)
  /\ UNCHANGED <<framing, blocks, decoder>>

MoreBytes(h) ==
  /\ Arrival(h)
  /\ Extend(h)
  /\ UNCHANGED <<framing, blocks, decoder>>

BytesAfterGap(p, h) ==
  /\ Arrival(h)
  /\ p <= h
  /\ gaps < MaxGaps
  /\ Skip(p, h)
  /\ OnGap

(* SETTINGS seen in the opposite direction may make the table exact, or    *)
(* too large to track.                                                     *)
PeerCapacity ==
  /\ ~parsing
  /\ exact' \in BOOLEAN
  /\ UNCHANGED <<feedVars, setup, parsing, framing, blocks, decoded, since>>

-----------------------------------------------------------------------------
(* parse().  The branches of the loop, in the order it tries them.         *)

Phase ==
  IF discard > 0 THEN "discard"
  ELSE IF pending # NoTarget THEN "seek"
  ELSE IF desynced THEN "resync"
  ELSE IF expect_preface THEN "preface"
  ELSE "frame"

Break ==
  /\ parsing' = FALSE
  /\ UNCHANGED <<feedVars, setup, framing, blocks, decoder>>

MinOf(a, b) == IF a < b THEN a ELSE b

(* A discard that counts all there is, not only what it may take.          *)
DiscardUnderflows ==
  /\ parsing /\ Phase = "discard"
  /\ \/ bytes = <<>> /\ Break
     \/ /\ Take(MinOf(discard, Len(bytes)))
        /\ discard' = discard - Len(bytes)
        /\ UNCHANGED <<setup, parsing, poisoned, desynced, expect_preface, pending,
                       misaligned, blocks, decoder>>

Discard ==
  /\ parsing /\ Phase = "discard"
  /\ \/ bytes = <<>> /\ Break
     \/ /\ Take(MinOf(discard, Len(bytes)))
        /\ discard' = discard - MinOf(discard, Len(bytes))
        /\ UNCHANGED <<setup, parsing, poisoned, desynced, expect_preface, pending,
                       misaligned, blocks, decoder>>

(* A seek that waits for a snapshot point it has already passed.           *)
SeekPatient ==
  /\ parsing /\ Phase = "seek"
  /\ \/ pending > lo /\ bytes = <<>> /\ Break
     \/ pending < lo /\ Break
     \/ /\ pending > lo
        /\ bytes # <<>>
        /\ Take(MinOf(pending - lo, Len(bytes)))
        /\ UNCHANGED <<setup, parsing, framing, blocks, decoder>>
     \/ /\ pending = lo
        /\ pending' = NoTarget
        /\ UNCHANGED <<feedVars, setup, parsing, poisoned, desynced, expect_preface,
                       discard, misaligned, blocks, decoder>>

(* A seek that takes wherever it lands for a frame boundary.               *)
SeekTrusting ==
  /\ parsing /\ Phase = "seek"
  /\ \/ pending > lo /\ bytes = <<>> /\ Break
     \/ /\ pending > lo
        /\ bytes # <<>>
        /\ Take(MinOf(pending - lo, Len(bytes)))
        /\ UNCHANGED <<setup, parsing, framing, blocks, decoder>>
     \/ /\ pending <= lo
        /\ pending' = NoTarget
        /\ misaligned' = (misaligned \/ pending < lo)
        /\ UNCHANGED <<feedVars, setup, parsing, poisoned, desynced, expect_preface,
                       discard, blocks, decoder>>

(* Skipping to the snapshot point.                                         *)
Seek ==
  /\ parsing /\ Phase = "seek"
  /\ \/ pending > lo /\ bytes = <<>> /\ Break
     \/ /\ pending > lo
        /\ bytes # <<>>
        /\ Take(MinOf(pending - lo, Len(bytes)))
        /\ UNCHANGED <<setup, parsing, framing, blocks, decoder>>
     \/ /\ pending <= lo
        /\ pending' = NoTarget
        /\ misaligned' = (misaligned \/ pending < lo)
        /\ desynced' = (desynced \/ pending < lo)
        /\ IF pending < lo THEN ResetPartial(lo) ELSE UNCHANGED decoder
        /\ UNCHANGED <<feedVars, setup, parsing, poisoned, expect_preface, discard, blocks>>

(* check_frame_chain(.., 4, 2) at a frame boundary whose header is there:  *)
(* of this frame and the next three, those whose headers are in the buffer *)
(* must be plausible, and there must be two.                               *)
Chain(i) ==
  {j \in i..(i + 3) : j \in DOMAIN stream /\ At(j) + FrameHeaderLen <= hi}

Plausible(i) == \A j \in Chain(i) : stream[j].len <= MaxPlausibleFrame

Candidates ==
  {i \in DOMAIN stream :
     /\ At(i) >= lo
     /\ At(i) + FrameHeaderLen <= hi
     /\ Plausible(i)}

First == CHOOSE i \in Candidates : \A j \in Candidates : i <= j

(* A scan that adopts the boundary it finds and forgets to move up to it.  *)
AdoptInPlace(p) == UNCHANGED feedVars

Adopt(p) == IF p = lo THEN UNCHANGED feedVars ELSE Take(p - lo)

(* A chain that must be seen to its full length.                           *)
ConfidentAtFour(i) == Cardinality(Chain(i)) >= 4

Confident(i) == Cardinality(Chain(i)) >= 2

Resync ==
  /\ parsing /\ Phase = "resync"
  /\ \/ /\ Candidates # {}
        /\ Confident(First)
        /\ Adopt(At(First))
        /\ desynced' = FALSE
        /\ since' = At(First)
        /\ UNCHANGED <<setup, parsing, poisoned, expect_preface, discard, pending,
                       misaligned, blocks, exact, decoded>>
     \/ /\ Candidates # {}
        /\ ~Confident(First)
        /\ Break
     \/ /\ Candidates = {}
        /\ IF Len(bytes) > ResyncWindow
           THEN Take(Len(bytes) - ResyncWindow)
           ELSE UNCHANGED feedVars
        /\ parsing' = FALSE
        /\ UNCHANGED <<setup, framing, blocks, decoder>>

(* A preface that is matched and expected again.                           *)
PrefaceExpectedAgain ==
  /\ parsing /\ Phase = "preface"
  /\ \/ Len(bytes) < PrefaceLen /\ Break
     \/ /\ Len(bytes) >= PrefaceLen
        /\ IF lo = 0 THEN Take(PrefaceLen) ELSE UNCHANGED feedVars
        /\ UNCHANGED <<setup, parsing, framing, blocks, decoder>>

Preface ==
  /\ parsing /\ Phase = "preface"
  /\ \/ Len(bytes) < PrefaceLen /\ Break
     \/ /\ Len(bytes) >= PrefaceLen
        /\ expect_preface' = FALSE
        /\ IF lo = 0 THEN Take(PrefaceLen) ELSE UNCHANGED feedVars
        /\ UNCHANGED <<setup, parsing, poisoned, desynced, discard, pending,
                       misaligned, blocks, decoder>>

-----------------------------------------------------------------------------
(* A frame.                                                                *)

WantPayload(i) ==
  /\ setup.keep_payloads \/ IsHeaderFrame(i) \/ stream[i].typ = "SETTINGS"
  /\ stream[i].len <= MaxBufferedFrame

FrameAwaited ==
  /\ parsing /\ Phase = "frame"
  /\ \/ Len(bytes) < FrameHeaderLen
     \/ \E i \in FramesAt(lo) :
          WantPayload(i) /\ Len(bytes) < FrameHeaderLen + stream[i].len
  /\ Break

(* The header is consumed and the payload will be thrown away.             *)
DropPayload(i) ==
  /\ parsing /\ Phase = "frame"
  /\ Len(bytes) >= FrameHeaderLen
  /\ ~WantPayload(i)
  /\ Take(FrameHeaderLen)
  /\ discard' = stream[i].len
  /\ UNCHANGED <<setup, parsing, poisoned, desynced, expect_preface, pending,
                 misaligned, blocks, decoder>>

(* finish_block, for a block made of the fragments of the frames b.  It    *)
(* decodes if the table allows, and what it inserts may make the table     *)
(* exact or too large to track.                                            *)
FinishBlock(opener, b) ==
  /\ block' = {}
  /\ block_hdr' = 0
  /\ \/ /\ exact' \in BOOLEAN
        /\ decoded' = IF b = Block(opener) THEN decoded \cup {opener} ELSE decoded
        /\ UNCHANGED <<since, poisoned>>
     \/ /\ poisoned' = TRUE
        /\ ResetPartial(lo')
  /\ UNCHANGED <<desynced, expect_preface, discard, pending, misaligned>>

MarkBadBlock ==
  /\ block' = {}
  /\ block_hdr' = 0
  /\ poisoned' = TRUE
  /\ desynced' = TRUE
  /\ ResetPartial(lo')
  /\ UNCHANGED <<expect_preface, discard, pending, misaligned>>

AddFragment(opener, b) ==
  /\ block' = b
  /\ block_hdr' = opener
  /\ UNCHANGED <<framing, decoder>>

(* HEADERS that leave an open block's fragments in front of their own.     *)
HeadersAppend(i) ==
  \/ /\ ~stream[i].sound
     /\ MarkBadBlock
  \/ /\ stream[i].sound
     /\ stream[i].end
     /\ FinishBlock(i, block \cup {i})
  \/ /\ stream[i].sound
     /\ ~stream[i].end
     /\ AddFragment(i, block \cup {i})

Headers(i) ==
  \/ /\ ~stream[i].sound
     /\ MarkBadBlock
  \/ /\ stream[i].sound
     /\ stream[i].end
     /\ FinishBlock(i, {i})
  \/ /\ stream[i].sound
     /\ ~stream[i].end
     /\ AddFragment(i, {i})

Continuation(i) ==
  \/ /\ block_hdr = 0
     /\ MarkBadBlock
  \/ /\ block_hdr # 0
     /\ stream[i].end
     /\ FinishBlock(block_hdr, block \cup {i})
  \/ /\ block_hdr # 0
     /\ ~stream[i].end
     /\ AddFragment(block_hdr, block \cup {i})

HandleFrame(i) ==
  /\ parsing /\ Phase = "frame"
  /\ WantPayload(i)
  /\ Len(bytes) >= FrameHeaderLen + stream[i].len
  /\ Take(FrameHeaderLen + stream[i].len)
  /\ \/ Opens(i) /\ Headers(i)
     \/ stream[i].typ = "CONTINUATION" /\ Continuation(i)
     \/ ~IsHeaderFrame(i) /\ UNCHANGED <<framing, blocks, decoder>>
  /\ UNCHANGED <<setup, parsing>>

Parse ==
  \/ Discard
  \/ Seek
  \/ Resync
  \/ Preface
  \/ FrameAwaited
  \/ \E i \in FramesAt(lo) : DropPayload(i) \/ HandleFrame(i)

Next ==
  \/ \E p, h \in 0..StreamLen : FirstBytes(p, h) \/ BytesAfterGap(p, h)
  \/ \E h \in 0..StreamLen : MoreBytes(h)
  \/ PeerCapacity
  \/ Parse

Spec == Init /\ [][Next]_vars

(* parse() runs until it breaks, and the rest of the stream arrives.       *)
FairSpec ==
  /\ Spec
  /\ WF_vars(Parse)
  /\ WF_vars(\E h \in 0..StreamLen : MoreBytes(h))

-----------------------------------------------------------------------------
(* Properties.                                                             *)

TypeOK ==
  /\ start \in -1..StreamLen /\ lo \in -1..StreamLen /\ gaps \in 0..MaxGaps
  /\ setup \in Setups
  /\ parsing \in BOOLEAN /\ poisoned \in BOOLEAN /\ desynced \in BOOLEAN
  /\ expect_preface \in BOOLEAN /\ misaligned \in BOOLEAN /\ exact \in BOOLEAN
  /\ discard \in Nat
  /\ pending \in Boundaries \cup {NoTarget}
  /\ block \subseteq DOMAIN stream
  /\ block_hdr \in {0} \cup DOMAIN stream
  /\ decoded \subseteq DOMAIN stream
  /\ since \in -1..StreamLen \cup Boundaries

InStep == start # -1 /\ ~desynced /\ pending = NoTarget

(* Framing is never believed wrongly: in step, what is left of the frame   *)
(* being discarded ends on a frame boundary of the sender's stream -       *)
(* through gaps, bad blocks, resync and seeding (parse(), try_resync()).   *)
FramedTrue ==
  InStep => \/ lo + discard \in Boundaries
            \/ expect_preface /\ lo = 0

Fits(i) == \A j \in Block(i) : stream[j].len <= MaxBufferedFrame

(* In step, every header block sent since decoding (re)started has gone    *)
(* through the decoder, none from before has, and none twice - as long as  *)
(* its frames are small enough to buffer (finish_block(), on_gap(),        *)
(* mark_bad_block(), seed_from_snapshot()).                                *)
NothingSkipped ==
  InStep =>
    /\ {i \in BlocksWithin(since, lo) : Fits(i)} \subseteq decoded
    /\ decoded \subseteq BlocksWithin(since, lo)

(* The fragments collected are those of one block, all of them up to here: *)
(* no fragment of an abandoned block leads the next one (block, block_hdr  *)
(* across handle_frame() and on_gap()).                                    *)
FragmentsOfOneBlock ==
  block_hdr # 0 /\ Fits(block_hdr) =>
    block = {j \in Block(block_hdr) : After(j) <= lo}

(* The parser never stops for good with bytes it could use: once the       *)
(* stream has arrived it is parsed to its end, unless the frame boundary   *)
(* is lost (the loop of parse()).                                          *)
CatchesUp ==
  <>[](start = -1 \/ lo = End \/ desynced)

(* After its last gap a direction finds a frame boundary again if two      *)
(* frames that may be recognised are still to come (try_resync()).         *)
Recognisable ==
  \E i \in DOMAIN stream :
    /\ i + 1 \in DOMAIN stream
    /\ At(i) >= hi /\ At(i) >= pending
    /\ \A j \in i..Len(stream) : stream[j].len <= MaxPlausibleFrame

Resynchronises ==
  (start # -1 /\ gaps = MaxGaps /\ desynced /\ Recognisable) ~> ~desynced

-----------------------------------------------------------------------------
(* What the documents claim and the code does not keep.                    *)

(* is_snapshottable().                                                     *)
Snapshottable == ~poisoned /\ ~desynced /\ exact /\ block_hdr = 0

(* conn.rs:185-187: next_frame_seq "is always a frame boundary because     *)
(* parse() only stops between frames".                                     *)
NextFrameSeqIsBoundary ==
  ~parsing /\ start # -1 /\ Snapshottable => lo \in Boundaries
=============================================================================
