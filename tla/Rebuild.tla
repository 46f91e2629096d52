-------------------------------- MODULE Rebuild --------------------------------
(***************************************************************************)
(* h2rebuild (crates/h2rebuild/src/rebuild.rs): the packets of a capture   *)
(* are replayed through a Direction per side of each connection, seeded    *)
(* from the snapshot, and the messages that come out are written as a new  *)
(* capture with connections of its own.                                    *)
(*                                                                         *)
(* The capture (external) is made as it is replayed: each packet that a    *)
(* host sends is in it or was missed, and is not sent again, but for a SYN.*)
(* A key is a 4-tuple, which one connection uses after the other; life 0   *)
(* was there before the capture.  A packet carries one message.  Direction *)
(* and Reassembler have the frames that are cut, held or lost, HpackMirror *)
(* has the table; here a table is whole, lacks entries and does not know   *)
(* it (claimed), or lacks entries and says so (partial).                   *)
(***************************************************************************)
EXTENDS Recode

CONSTANTS
  Keys,        \* 4-tuples
  Content,     \* what each side of each life of a key sends
  LifeSpan,    \* what keeps the sequence numbers of two lives of a key apart
  Seedings,    \* what the snapshot may hold: for each key and side a position or None
  Preface,     \* PREFACE
  Mss,         \* --mss
  ISN,         \* the first sequence number of either side of an output connection
  SeqSpace,    \* sequence numbers are modulo this
  MaxPackets,  \* bound on the packets captured
  MaxMissed,   \* bound on the packets missed
  MaxTime      \* bound on the clock

Sides == {"client", "server"}
Other(s) == CHOOSE t \in Sides : t # s

None == -1

(* What becomes of a message: it decodes whatever the table has, needs the *)
(* table, fails, or is too large to keep.                                  *)
Sorts == {"plain", "ref", "bad", "long"}

(* The message that stands for one that failed.  No host sends it.         *)
Marker ==
  Block(HEADERS, 1, 0, 0, <<[name |-> <<7, 1>>, value |-> <<>>, sensitive |-> FALSE]>>)

Items == [sort : Sorts, msg : Message \ {Marker}]

ASSUME RebuildAssumption ==
  /\ LifeSpan \in Nat
  /\ \A k \in Keys :
       /\ 0 \in DOMAIN Content[k] /\ DOMAIN Content[k] \subseteq Nat
       /\ \A l \in DOMAIN Content[k] : \A s \in Sides :
            /\ Content[k][l][s] \in Seq(Items)
            /\ Len(Content[k][l][s]) < LifeSpan
  /\ \A seeds \in Seedings : seeds \in [Keys -> [Sides -> Int]]
  /\ Preface \in Seq(Nat) \ {<<>>} /\ Mss \in Nat \ {0}
  /\ SeqSpace \in Nat \ {0} /\ ISN \in [Sides -> 0..(SeqSpace - 1)]
  /\ MaxPackets \in Nat /\ MaxMissed \in Nat /\ MaxTime \in Nat

VARIABLES
  life,             \* which connection uses a key
  sent,             \* how many messages a side has sent, or None before its SYN
  missed,           \* how many packets are not in the capture
  now,              \* the time stamp of the last packet
  packets_in,
  seeds,
  conns,            \* ConnState of the keys seen
  order,
  decode_failures,  \* of the report
  got,              \* history: packets captured of a key since its last bare SYN
  file              \* the output, <<>> until it is written

network == <<life, sent, missed>>
replay == <<now, packets_in, conns, order, decode_failures, got>>
vars == <<life, sent, missed, now, packets_in, seeds, conns, order, decode_failures, got, file>>

-----------------------------------------------------------------------------
(* The hosts.                                                              *)

At(k, n) == LifeSpan * life'[k] + n
Item(k, s, at) == Content[k][at \div LifeSpan][s][at % LifeSpan]

Packet(k, s, kind, n) == [key |-> k, from |-> s, kind |-> kind, at |-> At(k, n)]

Connect(k, p) ==
  /\ life[k] + 1 \in DOMAIN Content[k]
  /\ life' = [life EXCEPT ![k] = @ + 1]
  /\ sent' = [sent EXCEPT ![k] = [client |-> 0, server |-> None]]
  /\ p = Packet(k, "client", "SYN", 0)

ConnectAgain(k, p) ==
  /\ life[k] > 0
  /\ sent[k].client = 0 /\ sent[k].server <= 0
  /\ UNCHANGED <<life, sent>>
  /\ p = Packet(k, "client", "SYN", 0)

Accept(k, p) ==
  /\ sent[k].server = None
  /\ sent' = [sent EXCEPT ![k].server = 0]
  /\ UNCHANGED life
  /\ p = Packet(k, "server", "SYNACK", 0)

Send(k, p) ==
  /\ sent[k].server # None
  /\ UNCHANGED life
  /\ \E s \in Sides :
       /\ sent[k][s] < Len(Content[k][life[k]][s])
       /\ sent' = [sent EXCEPT ![k][s] = @ + 1]
       /\ p = Packet(k, s, "DATA", sent'[k][s])

-----------------------------------------------------------------------------
(* A direction, as Direction and HpackMirror have it.  lo and hi are the   *)
(* positions of the next message to be parsed and to be received.          *)

NewDir(from_start) ==
  [begun |-> FALSE, lo |-> 0, hi |-> 0, desynced |-> ~from_start,
   table |-> IF from_start THEN "whole" ELSE "partial", pending |-> None,
   misaligned |-> FALSE, decode_errors |-> 0, seeded |-> FALSE, out |-> <<>>]

Seed(d, next_frame_seq) ==
  [d EXCEPT !.desynced = FALSE, !.table = "whole", !.pending = next_frame_seq]

StartAt(d, at) == [d EXCEPT !.begun = TRUE, !.lo = at, !.hi = at]

NoteSyn(d, at) == IF d.begun THEN d ELSE StartAt(d, at + 1)

(* What is ahead of a hole waits for good: h2rebuild has no tick().        *)
Push(d, at) ==
  LET e == IF d.begun THEN d ELSE StartAt(d, at)
      late == ~d.begun /\ d.pending = None /\ at % LifeSpan # 1
  IN  [e EXCEPT !.hi = IF at = @ THEN @ + 1 ELSE @,
                !.table = IF late /\ @ = "whole" THEN "claimed" ELSE @]

(* Goes to the first frame before it has come.                             *)
SeekAhead(d) ==
  IF d.pending < d.lo
  THEN [d EXCEPT !.pending = None, !.misaligned = TRUE, !.table = "partial", !.desynced = TRUE]
  ELSE IF d.pending > d.hi THEN [d EXCEPT !.lo = d.pending]
  ELSE [d EXCEPT !.pending = None, !.lo = d.pending]

Seek(d) ==
  IF d.pending < d.lo
  THEN [d EXCEPT !.pending = None, !.misaligned = TRUE, !.table = "partial", !.desynced = TRUE]
  ELSE IF d.pending > d.hi THEN [d EXCEPT !.lo = d.hi]
  ELSE [d EXCEPT !.pending = None, !.lo = d.pending]

(* A message whose names are not known is given placeholders.              *)
Unresolved == <<7, 0>>

Partial(m) == [m EXCEPT !.fields = [i \in DOMAIN @ |-> [@[i] EXCEPT !.name = Unresolved]]]

Emit(d, m, ts) == [d EXCEPT !.out = Append(@, [ts |-> ts, msg |-> m])]

Fail(d) == [d EXCEPT !.table = "partial", !.decode_errors = @ + 1]

(* handle_frame(), and what becomes of the frame: one that is truncated is *)
(* dropped, a block is re-encoded, and what else there is is copied.       *)
Take(d, item, ts) ==
  IF item.sort = "long" THEN d
  ELSE IF item.sort = "bad" \/ (item.sort = "ref" /\ d.table = "claimed") THEN Fail(d)
  ELSE IF item.sort = "ref" /\ d.table = "partial" THEN Emit(d, Partial(item.msg), ts)
  ELSE Emit(d, item.msg, ts)

ParseFrame(d, k, s, ts) == [Take(d, Item(k, s, d.lo), ts) EXCEPT !.lo = @ + 1]

ParseFrames(d, k, s, ts) ==
  LET parsed[n \in 0..(d.hi - d.lo)] ==
        IF n = 0 THEN d ELSE ParseFrame(parsed[n-1], k, s, ts)
  IN  parsed[d.hi - d.lo]

(* parse(): out of step it may find its place in what has come, or not yet.*)
Parsed(d, k, s, ts) ==
  LET e == IF d.pending = None THEN d ELSE Seek(d)
  IN  IF e.pending # None THEN {e}
      ELSE {ParseFrames([e EXCEPT !.desynced = FALSE], k, s, ts)}
             \cup (IF e.desynced THEN {e} ELSE {})

-----------------------------------------------------------------------------
(* One turn of the loop of run().                                          *)

(* Failures are those of this direction, decode_failures are those of all. *)
MarkFailures(d, ts, n) ==
  [d EXCEPT !.out = @ \o [i \in 1..n |-> [ts |-> ts, msg |-> Marker]]]

IsNew(p) == p.kind = "SYN" \/ p.key \notin DOMAIN conns

NewConn(p) ==
  [client |-> p.from, first_ts |-> now', last_ts |-> now', saw_syn |-> p.kind = "SYN",
   dirs |-> [s \in Sides |-> NewDir(p.kind = "SYN")]]

(* Takes the snapshot of whoever had these ports.                          *)
SeededAnyway(c, p) ==
  LET d == c.dirs[p.from]
      seed == seeds[p.key][p.from]
  IN  IF d.seeded THEN d
      ELSE [(IF seed = None THEN d ELSE Seed(d, seed)) EXCEPT !.seeded = TRUE]

Seeded(c, p) ==
  LET d == c.dirs[p.from]
      seed == seeds[p.key][p.from]
  IN  IF d.seeded THEN d
      ELSE [(IF c.saw_syn \/ seed = None THEN d ELSE Seed(d, seed)) EXCEPT !.seeded = TRUE]

(* SETTINGS may end another table's partial state.                         *)
PeerCapacity(d) == {d, [d EXCEPT !.table = IF @ = "partial" THEN "whole" ELSE @]}

SaysCapacity(before, after) ==
  \E i \in DOMAIN after.out : i > Len(before.out) /\ after.out[i].msg.typ = SETTINGS

With(k, c) == [j \in DOMAIN conns \cup {k} |-> IF j = k THEN c ELSE conns[j]]

Feed(c, p) ==
  \E d \in Parsed(Push(c.dirs[p.from], p.at), p.key, p.from, now') :
    LET missing == Max({d.decode_errors - decode_failures, 0})
        other == c.dirs[Other(p.from)]
    IN  /\ decode_failures' = Max({d.decode_errors, decode_failures})
        /\ \E o \in IF SaysCapacity(c.dirs[p.from], d)
                    THEN PeerCapacity(other) ELSE {other} :
             conns' = With(p.key, [c EXCEPT !.dirs = [s \in Sides |->
                             IF s = p.from THEN MarkFailures(d, now', missing) ELSE o]])

Replay(p) ==
  LET old == IF IsNew(p) THEN NewConn(p) ELSE conns[p.key]
      c == [old EXCEPT !.last_ts = now', !.dirs[p.from] = Seeded(old, p)]
      opened == [c EXCEPT !.dirs[p.from] = NoteSyn(@, p.at)]
  IN  /\ order' = IF IsNew(p) THEN Append(order, p.key) ELSE order
      /\ IF p.kind = "DATA" THEN Feed(c, p)
         ELSE /\ conns' = With(p.key, opened)
              /\ UNCHANGED decode_failures

-----------------------------------------------------------------------------
(* write_pcap().                                                           *)

(* The frames of a direction of conns[k] with their time stamps.           *)
Stream(k, s) ==
  LET c == conns[k]
      frames == FlattenSeq([i \in DOMAIN c.dirs[s].out |->
                  LET o == c.dirs[s].out[i]
                      f == Encode(o.msg)
                  IN  [j \in DOMAIN f |-> [ts |-> o.ts, bytes |-> f[j]]]])
  IN  IF s = c.client /\ frames # <<>>
      THEN <<[ts |-> c.first_ts, bytes |-> Preface]>> \o frames
      ELSE frames

(* The streams are taken by the first entry of a key in order.             *)
Taken(i) == \E j \in 1..(i-1) : order[j] = order[i]

OutPkt(ts, phase, s, flags, payload) ==
  [ts |-> ts, phase |-> phase, conn |-> 0, n |-> 0, dir |-> s, flags |-> flags,
   payload |-> payload]

DataPkts(stream, s) ==
  FlattenSeq([i \in DOMAIN stream |->
    LET c == Chunks(stream[i].bytes, Mss)
    IN  [j \in DOMAIN c |-> OutPkt(stream[i].ts, 1, s, {"PSH", "ACK"}, c[j])]])

(* The connection ends when it began.                                      *)
EndTimeFirst(c) == c.first_ts

EndTime(c) == Max({c.last_ts, c.first_ts})

ConnPkts(i) ==
  LET k == order[i]
      c == conns[k]
      s == c.client
      t == Other(s)
      data(x) == IF Taken(i) THEN <<>> ELSE DataPkts(Stream(k, x), x)
      pkts == << OutPkt(c.first_ts, 0, s, {"SYN"}, <<>>),
                 OutPkt(c.first_ts, 0, t, {"SYN", "ACK"}, <<>>),
                 OutPkt(c.first_ts, 0, s, {"ACK"}, <<>>) >>
              \o data(s) \o data(t)
              \o << OutPkt(EndTime(c), 2, s, {"FIN", "ACK"}, <<>>),
                    OutPkt(EndTime(c), 2, t, {"FIN", "ACK"}, <<>>) >>
  IN  [n \in DOMAIN pkts |-> [pkts[n] EXCEPT !.conn = i, !.n = n]]

Before(p, q) ==
  LET x == <<p.ts, p.phase, p.conn, p.n>>
      y == <<q.ts, q.phase, q.conn, q.n>>
  IN  \E i \in 1..4 : x[i] < y[i] /\ \A j \in 1..(i-1) : x[j] = y[j]

Consumed(p) == Len(p.payload) + IF p.flags \cap {"SYN", "FIN"} # {} THEN 1 ELSE 0

(* The side that h2rebuild takes for the client is C2S.                    *)
FirstSeq(i, s) == ISN[IF s = conns[order[i]].client THEN "client" ELSE "server"]

(* The packets with their numbers, and the numbers that come next.         *)
Written(pkts) ==
  LET w[n \in 0..Len(pkts)] ==
        IF n = 0
        THEN [next |-> [i \in DOMAIN order |-> [s \in Sides |-> FirstSeq(i, s)]], rows |-> <<>>]
        ELSE LET p == pkts[n]
                 v == w[n-1]
                 seq == v.next[p.conn][p.dir]
                 ack == IF "ACK" \in p.flags THEN v.next[p.conn][Other(p.dir)] ELSE 0
             IN  [next |-> [v.next EXCEPT ![p.conn][p.dir] = (seq + Consumed(p)) % SeqSpace],
                  rows |-> Append(v.rows,
                    [key |-> order[p.conn], from |-> p.dir, ts |-> p.ts, flags |-> p.flags,
                     seq |-> seq, ack |-> ack, payload |-> p.payload])]
  IN  w[Len(pkts)].rows

(* sort_by_key(), which is stable: a packet goes before the first that is  *)
(* behind it.                                                              *)
Insert(pkts, p) ==
  InsertAt(pkts, Min({i \in DOMAIN pkts : Before(p, pkts[i])} \cup {Len(pkts) + 1}), p)

Sorted(pkts) ==
  LET sorted[n \in 0..Len(pkts)] == IF n = 0 THEN <<>> ELSE Insert(sorted[n-1], pkts[n])
  IN  sorted[Len(pkts)]

WritePcap == Written(Sorted(FlattenSeq([i \in DOMAIN order |-> ConnPkts(i)])))

-----------------------------------------------------------------------------
Init ==
  /\ life = [k \in Keys |-> 0]
  /\ sent = [k \in Keys |-> [s \in Sides |-> 0]]
  /\ missed = 0
  /\ now = 0
  /\ packets_in = 0
  /\ seeds \in Seedings
  /\ conns = <<>>
  /\ order = <<>>
  /\ decode_failures = 0
  /\ got = [k \in Keys |-> {}]
  /\ file = <<>>

Sends(k, p) == Connect(k, p) \/ ConnectAgain(k, p) \/ Accept(k, p) \/ Send(k, p)

PacketsOf(k) ==
  UNION {{[key |-> k, from |-> s, kind |-> kind, at |-> LifeSpan * l + n] :
            kind \in {"SYN", "SYNACK", "DATA"}, n \in 0..Len(Content[k][l][s])} :
         s \in Sides, l \in DOMAIN Content[k]}

Captured ==
  /\ file = <<>>
  /\ packets_in < MaxPackets
  /\ packets_in' = packets_in + 1
  /\ now' \in {now, now + 1} /\ now' <= MaxTime
  /\ \E k \in Keys : \E p \in PacketsOf(k) :
       /\ Sends(k, p)
       /\ Replay(p)
       /\ got' = [got EXCEPT ![k] =
                   (IF p.kind = "SYN" \/ life'[k] # life[k] THEN {} ELSE @) \cup {p}]
  /\ UNCHANGED <<missed, seeds, file>>

Missed ==
  /\ file = <<>>
  /\ missed < MaxMissed
  /\ missed' = missed + 1
  /\ \E k \in Keys : \E p \in PacketsOf(k) :
       /\ Sends(k, p)
       /\ got' = [got EXCEPT ![k] = IF life'[k] # life[k] THEN {} ELSE @]
  /\ UNCHANGED <<now, packets_in, seeds, conns, order, decode_failures, file>>

(* The end of the capture.                                                 *)
Finish ==
  /\ file = <<>>
  /\ order # <<>>
  /\ file' = WritePcap
  /\ UNCHANGED <<network, replay, seeds>>

Next == Captured \/ Missed \/ Finish

Spec == Init /\ [][Next]_vars

-----------------------------------------------------------------------------
(* Properties.                                                             *)

(* The connections are those in order, and a direction is never parsed     *)
(* further than it was received.                                           *)
TypeOK ==
  /\ life \in [Keys -> Nat] /\ sent \in [Keys -> [Sides -> Nat \cup {None}]]
  /\ order \in Seq(Keys) /\ DOMAIN conns = {order[i] : i \in DOMAIN order}
  /\ decode_failures \in Nat
  /\ \A k \in DOMAIN conns :
       /\ conns[k].client \in Sides /\ conns[k].saw_syn \in BOOLEAN
       /\ conns[k].first_ts <= conns[k].last_ts /\ conns[k].last_ts <= now
       /\ \A s \in Sides :
            /\ conns[k].dirs[s].lo <= conns[k].dirs[s].hi
            /\ conns[k].dirs[s].table \in {"whole", "claimed", "partial"}

Seen(k, s) == {p.at : p \in {q \in got[k] : q.from = s /\ q.kind = "DATA"}}

Saw(k, kind) == \E p \in got[k] : p.kind = kind

(* Where the capture and the snapshot let a side be known from, or None.   *)
KnownFrom(k, s) ==
  LET first == LifeSpan * life[k] + 1
      own == IF s = "client" THEN "SYN" ELSE "SYNACK"
  IN  IF life[k] > 0
      THEN IF Saw(k, "SYN") /\ (Saw(k, own) \/ first \in Seen(k, s)) THEN first ELSE None
      ELSE IF seeds[k][s] # None /\ \E at \in Seen(k, s) : at <= seeds[k][s]
           THEN seeds[k][s] ELSE None

(* The first position that the capture lacks.                              *)
Lacks(k, s) ==
  LET from == Min(Seen(k, s) \cup {KnownFrom(k, s)})
  IN  Min((from..(from + Cardinality(Seen(k, s)))) \ Seen(k, s))

Msgs(out) == [i \in DOMAIN out |-> out[i].msg]

(* How many of the first n are messages of the hosts.                      *)
Unmarked(out, n) == Cardinality({i \in 1..n : out[i].msg # Marker})

(* A side that is known from its SYN or from the snapshot has, but for the *)
(* markers, every message that can be shown in its output, in order and    *)
(* once, up to the first packet that is missing, and placeholders only     *)
(* behind a block that failed (rebuild.rs:161-165, 214-228): whatever      *)
(* other connections and earlier lives of the ports did.                   *)
RebuiltWhole ==
  \A k \in DOMAIN conns : \A s \in Sides :
    KnownFrom(k, s) # None =>
      LET from == KnownFrom(k, s)
          last == Lacks(k, s) - 1
          shown(upto) == {at \in from..upto : Item(k, s, at).sort \notin {"bad", "long"}}
          out == conns[k].dirs[s].out
      IN  /\ Unmarked(out, Len(out)) = Cardinality(shown(last))
          /\ \A at \in shown(last) :
               \E i \in {j \in DOMAIN out : Unmarked(out, j) = Cardinality(shown(at))} :
                 \/ out[i].msg = Item(k, s, at).msg
                 \/ /\ out[i].msg = Partial(Item(k, s, at).msg)
                    /\ \E b \in from..at : Item(k, s, b).sort = "bad"

Rows(k, s) == SelectSeq(file, LAMBDA r : r.key = k /\ r.from = s)

Joined(rows) == FlattenSeq([i \in DOMAIN rows |-> rows[i].payload])

(* The output can be read with no state at all: each side's sequence       *)
(* numbers are without hole or overlap, and its bytes, after the preface   *)
(* of the client's, are frames and literals that give back the messages    *)
(* (rebuild.rs:3-6, and decode_output in its tests).                       *)
ReadBack ==
  file # <<>> =>
    \A k \in DOMAIN conns : \A s \in Sides :
      LET rows == Rows(k, s)
          data == SelectSeq(rows, LAMBDA r : r.payload # <<>>)
          bytes == Joined(data)
          lead == IF s = conns[k].client /\ bytes # <<>> THEN Preface ELSE <<>>
      IN  /\ \A i \in DOMAIN data :
               data[i].seq = (rows[1].seq + 1 + Len(Joined(SubSeq(data, 1, i - 1)))) % SeqSpace
          /\ SubSeq(bytes, 1, Len(lead)) = lead
          /\ Messages(Rest(bytes, Len(lead)))
               = [ok |-> TRUE, value |-> Msgs(conns[k].dirs[s].out)]

(* The output could have happened: time does not go back, on no 4-tuple is *)
(* there data before a SYN or after a FIN, and what a packet acknowledges  *)
(* is the end of one that the peer has sent (rebuild.rs:464-465, 486-488). *)
Causal ==
  \A i \in DOMAIN file :
    LET earlier == {j \in 1..(i-1) : file[j].key = file[i].key}
    IN  /\ i > 1 => file[i-1].ts <= file[i].ts
        /\ "SYN" \in file[i].flags => \A j \in earlier : file[j].payload = <<>>
        /\ file[i].payload # <<>> => \A j \in earlier : "FIN" \notin file[j].flags
        /\ "ACK" \in file[i].flags =>
             \E j \in earlier : /\ file[j].from # file[i].from
                               /\ file[i].ack = (file[j].seq + Consumed(file[j])) % SeqSpace

(* "A header block we could not decode still has to be visible, or the     *)
(* rebuilt capture would quietly lose a message." (rebuild.rs:276-277).    *)
FailureShown ==
  \A k \in DOMAIN conns : \A s \in Sides :
    Len(SelectSeq(Msgs(conns[k].dirs[s].out), LAMBDA m : m = Marker))
      = conns[k].dirs[s].decode_errors
================================================================================
