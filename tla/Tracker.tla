-------------------------------- MODULE Tracker --------------------------------
(***************************************************************************)
(* The connection table of h2tapd (crates/h2tapd/src/tracker.rs), followed *)
(* for one 4-tuple: the HashMap keeps connections apart by it, so that the *)
(* others matter only in that they may fill the table.                     *)
(*                                                                         *)
(* Two endpoints (external) open, use, close and reopen a connection; each *)
(* packet they send passes the tap or is missed by it.  A byte is its      *)
(* absolute sequence number, and the sequence spaces of two lives of the   *)
(* 4-tuple are apart, so that wrapping is left to Reassembler.             *)
(*                                                                         *)
(* A direction is what tracker.rs can tell of a Direction: how far it is   *)
(* framed and reassembled, and its flags.  A frame here stands for a whole *)
(* header block; the rest of parse() is in Direction, the limits of the    *)
(* out-of-order list in Reassembler, the table in HpackMirror.             *)
(***************************************************************************)
EXTENDS Integers, FiniteSets, FiniteSetsExt

CONSTANTS
  Isn,           \* Isn[l][s]: the first data byte of side s in life l
  StreamLen,     \* StreamLen[l][s]: the bytes side s may send in life l
  FrameEnds,     \* FrameEnds[s]: offsets in its stream at which a frame ends
  ServerPorts,   \* the sides whose port is among server_ports
  IdleTime,      \* idle_us
  ClosedTime,    \* how long a closed connection is kept, ten seconds
  SameInstant,   \* two packets may bear the same timestamp
  MaxTime        \* bound on the clock

Sides == {"client", "server"}
Other(s) == IF s = "client" THEN "server" ELSE "client"
Lives == DOMAIN Isn
Longest == Max({StreamLen[l][s] : l \in Lives, s \in Sides})

ASSUME TrackerAssumption ==
  /\ IsFiniteSet(Lives) /\ Lives # {} /\ Lives \subseteq Nat
  /\ Isn \in [Lives -> [Sides -> Nat \ {0}]]
  /\ StreamLen \in [Lives -> [Sides -> Nat]]
  /\ \A s \in Sides : 0 \in FrameEnds[s] /\ FrameEnds[s] \subseteq Nat
  /\ ServerPorts \subseteq Sides
  /\ IdleTime \in Nat /\ ClosedTime \in Nat /\ MaxTime \in Nat
  /\ SameInstant \in BOOLEAN

VARIABLES
  life,    \* which life of the 4-tuple this is
  phase,   \* "closed", "syn" or "open"
  sent,    \* how many bytes each side has sent in this life
  ended,   \* the sides that have sent a FIN
  now,     \* the time of the packet seen last, or of the tick since
  conns,   \* the entry of this 4-tuple in Tracker.conns: a set of at most one
  whole    \* history: since its SYN this life has been tracked without a miss

world == <<life, phase, sent, ended>>
vars == <<life, phase, sent, ended, now, conns, whole>>

Never == -1

(* The places where a frame of side s ends.                                *)
Boundaries(s) == {Isn[l][s] + b : l \in Lives, b \in FrameEnds[s]}
LastByte == Max({Isn[l][s] + StreamLen[l][s] : l \in Lives, s \in Sides})

-----------------------------------------------------------------------------
(* The endpoints.  at is the sequence number of the first byte of a        *)
(* packet, that of the SYN itself for a SYN.                               *)

Packet(from, kind, at, len) == [from |-> from, kind |-> kind, at |-> at, len |-> len]

Syn(l) == Packet("client", "SYN", Isn[l]["client"] - 1, 0)
SynAck(l) == Packet("server", "SYNACK", Isn[l]["server"] - 1, 0)
Data(l, s, from, to) == Packet(s, "DATA", Isn[l][s] + from, to - from)

(* A packet without data.  Where it is in the stream is not looked at.     *)
Sign(l, s, kind) == Packet(s, kind, Isn[l][s], 0)

(* A SYN, and the same SYN again until the client knows of its answer.     *)
Connect(p) ==
  \/ /\ phase = "closed"
     /\ life + 1 \in Lives
     /\ p = Syn(life + 1)
     /\ life' = life + 1
     /\ phase' = "syn"
     /\ sent' = [s \in Sides |-> 0]
     /\ ended' = {}
  \/ /\ phase = "syn"
     /\ p \in {Syn(life), SynAck(life)}
     /\ UNCHANGED world

Establish(p) ==
  /\ phase = "syn"
  /\ p = Sign(life, "client", "ACK")
  /\ phase' = "open"
  /\ UNCHANGED <<life, sent, ended>>

(* New bytes, or a byte sent before and sent again: Reassembler has the    *)
(* other ways to cut them anew.                                            *)
SendData(p) ==
  /\ phase = "open"
  /\ \E s \in Sides \ ended :
       \/ \E n \in (sent[s] + 1)..StreamLen[life][s] :
            /\ p = Data(life, s, sent[s], n)
            /\ sent' = [sent EXCEPT ![s] = n]
       \/ \E m \in 0..(sent[s] - 1) :
            /\ p = Data(life, s, m, m + 1)
            /\ UNCHANGED sent
  /\ UNCHANGED <<life, phase, ended>>

Close(p) ==
  /\ phase = "open"
  /\ \/ \E s \in Sides \ ended :
          /\ p = Sign(life, s, "FIN")
          /\ ended' = ended \cup {s}
          /\ phase' = IF ended' = Sides THEN "closed" ELSE phase
     \/ \E s \in Sides :
          /\ p = Sign(life, s, "RST")
          /\ phase' = "closed"
          /\ UNCHANGED ended
  /\ UNCHANGED <<life, sent>>

Send(p) == Connect(p) \/ Establish(p) \/ SendData(p) \/ Close(p)

Cuts(l, s) ==
  UNION {{Data(l, s, m, n) : m \in 0..(n - 1)} : n \in 1..StreamLen[l][s]}

PacketsOf(l) ==
  {Syn(l), SynAck(l)}
    \cup {Sign(l, s, k) : s \in Sides, k \in {"ACK", "FIN", "RST"}}
    \cup Cuts(l, "client") \cup Cuts(l, "server")

-----------------------------------------------------------------------------
(* A direction.                                                            *)

(* orderly is history: nothing pending has come out of order.              *)
NewDir(from_start) ==
  [begun |-> FALSE, saw_syn |-> FALSE, origin |-> 0, lo |-> 0, hi |-> 0, held |-> {},
   poisoned |-> FALSE, desynced |-> ~from_start, exact |-> from_start,
   pending_since |-> Never, orderly |-> TRUE]

StartAt(d, n) == [d EXCEPT !.begun = TRUE, !.origin = n, !.lo = n, !.hi = n]

NoteSyn(d, seq) ==
  IF d.begun THEN d ELSE [StartAt(d, seq + 1) EXCEPT !.saw_syn = TRUE]

(* The first byte that the packets S do not supply, from n on.             *)
Reach(S, n) ==
  CHOOSE k \in n..LastByte :
    /\ \A j \in n..(k-1) : \E p \in S : p.at <= j /\ j < p.at + p.len
    /\ ~\E p \in S : p.at <= k /\ k < p.at + p.len

Drain(d, S) ==
  LET k == Reach(S, d.hi)
  IN  [d EXCEPT !.hi = k, !.held = {p \in S : p.at > k}]

(* Reassembler::push.                                                      *)
Push(d, p) ==
  LET e == IF d.begun THEN d ELSE StartAt(d, p.at)
  IN  IF p.at > e.hi THEN [e EXCEPT !.held = @ \cup {p}, !.orderly = FALSE]
      ELSE Drain(e, e.held \cup {p})

(* force_gap, and on_gap with it.                                          *)
GiveUp(d) ==
  LET target == Min({p.at : p \in d.held})
  IN  Drain([d EXCEPT !.lo = target, !.hi = target,
                      !.poisoned = TRUE, !.desynced = TRUE, !.exact = FALSE], d.held)

FramesUpTo(s, d) == {b \in Boundaries(s) : d.lo <= b /\ b <= d.hi}

(* What parse() may make of a direction of side s.  In step it frames all  *)
(* there is, and a block may fail to decode; out of step it may find a     *)
(* boundary, within a window no stream here outgrows; and if it is not     *)
(* where it believes to be, it may go wrong in several ways.               *)
Parsed(s, d) ==
  IF d.desynced
  THEN {d} \cup {[d EXCEPT !.desynced = FALSE, !.lo = Max(FramesUpTo(s, d)), !.exact = e] :
                   e \in {x \in BOOLEAN : FramesUpTo(s, d) # {}}}
  ELSE IF d.lo \in Boundaries(s)
  THEN {[d EXCEPT !.lo = Max(FramesUpTo(s, d)), !.exact = e] : e \in {d.exact, TRUE}}
         \cup {[d EXCEPT !.lo = Max(FramesUpTo(s, d)), !.exact = FALSE, !.poisoned = TRUE]}
  ELSE {[d EXCEPT !.lo = n] : n \in {d.lo, d.hi}}
         \cup {[d EXCEPT !.lo = d.hi, !.exact = FALSE, !.poisoned = TRUE, !.desynced = e] :
                 e \in BOOLEAN}

Feed(s, d, p) ==
  Parsed(s, Push(d, p))
    \cup UNION {Parsed(s, GiveUp(e)) : e \in {x \in {Push(d, p)} : x.held # {} /\ p.at > x.hi}}

(* Restarts the clock of the pending bytes with each segment.              *)
AfterFeedRestarts(d) ==
  [d EXCEPT !.pending_since = IF d.lo = d.hi THEN Never ELSE now',
            !.orderly = @ \/ (d.lo = d.hi /\ d.held = {})]

AfterFeed(d) ==
  [d EXCEPT !.pending_since = IF d.lo = d.hi THEN Never ELSE IF @ = Never THEN now' ELSE @,
            !.orderly = @ \/ (d.lo = d.hi /\ d.held = {})]

(* SETTINGS cap the decoder of the opposite direction, which may show its  *)
(* table complete, or above the limit.                                     *)
Capped(d) == {d} \cup {[d EXCEPT !.exact = e] : e \in BOOLEAN}

-----------------------------------------------------------------------------
(* on_segment.                                                             *)

Fresh(p) == p.kind = "SYN"

(* The sender of the first packet seen, whatever its port.                 *)
SenderIsClient(p) == p.from

ClientOf(p) ==
  IF Fresh(p) \/ Other(p.from) \in ServerPorts \/ p.from \notin ServerPorts
  THEN p.from ELSE Other(p.from)

Created(p) ==
  [client |-> ClientOf(p), from_syn |-> Fresh(p), last_seen |-> now', closed |-> Never,
   dir |-> [s \in Sides |-> NewDir(Fresh(p))]]

(* A SYN that finds an entry and leaves it.                                *)
EntryContinued(p) == IF conns = {} THEN Created(p) ELSE CHOOSE c \in conns : TRUE

Entry(p) == IF Fresh(p) \/ conns = {} THEN Created(p) ELSE CHOOSE c \in conns : TRUE

Touched(c, p) ==
  [c EXCEPT !.last_seen = now',
            !.closed = IF p.kind \in {"FIN", "RST"} /\ @ = Never THEN now' ELSE @,
            !.dir[p.from] = IF p.kind \in {"SYN", "SYNACK"} THEN NoteSyn(@, p.at) ELSE @]

(* The entry as it may be after the packet: one direction is fed, and the  *)
(* other is capped if there may be SETTINGS in the frames that came of it. *)
Fed(c, p) ==
  LET mine == c.dir[p.from]
      others == c.dir[Other(p.from)]
      After(d) == IF d.lo = mine.lo THEN {others} ELSE Capped(others)
      Both(d, o) == [s \in Sides |-> IF s = p.from THEN AfterFeed(d) ELSE o]
  IN  IF p.len = 0 THEN {c}
      ELSE UNION {{[c EXCEPT !.dir = Both(d, o)] : o \in After(d)} : d \in Feed(p.from, mine, p)}

Later == IF SameInstant THEN {now, now + 1} ELSE {now + 1}

OnSegment(p) ==
  /\ now' \in {t \in Later : t <= MaxTime}
  /\ \/ /\ conns = {}
        /\ UNCHANGED conns
        /\ whole' = FALSE
     \/ \E c \in Fed(Touched(Entry(p), p), p) :
          /\ conns' = {c}
          /\ whole' = (Fresh(p) \/ (whole /\ conns # {}))

Missed ==
  /\ whole' = FALSE
  /\ UNCHANGED <<now, conns>>

-----------------------------------------------------------------------------
(* tick.                                                                   *)

(* check_timeout gives up a hole that has lasted.                          *)
Ticked(s, d) == {d} \cup UNION {Parsed(s, GiveUp(e)) : e \in {x \in {d} : x.held # {}}}

Retained(c) ==
  /\ now' - c.last_seen <= IdleTime
  /\ c.closed # Never => now' - c.closed < ClosedTime

Tick ==
  /\ now < MaxTime
  /\ now' = now + 1
  /\ \/ conns = {} /\ UNCHANGED conns
     \/ \E c \in conns :
        \E d \in Ticked("client", c.dir["client"]), e \in Ticked("server", c.dir["server"]) :
          conns' = {x \in {[c EXCEPT !.dir = [s \in Sides |-> IF s = "client" THEN d ELSE e]]} :
                      Retained(x)}
  /\ whole' = (whole /\ conns' # {})
  /\ UNCHANGED world

-----------------------------------------------------------------------------
Init ==
  /\ life = 0
  /\ phase = "closed"
  /\ sent = [s \in Sides |-> 0]
  /\ ended = {}
  /\ now = 0
  /\ conns = {}
  /\ whole = FALSE

Next ==
  \/ \E l \in Lives \cap {life, life + 1} : \E p \in PacketsOf(l) : Send(p) /\ (OnSegment(p) \/ Missed)
  \/ Tick

Spec == Init /\ [][Next]_vars

-----------------------------------------------------------------------------
(* Properties.                                                             *)

Packets == UNION {PacketsOf(l) : l \in Lives}

Dirs == {c.dir[s] : c \in conns, s \in Sides}

(* The variables of the connection table range over what tracker.rs holds. *)
TrackerTypeOK ==
  /\ life \in {0} \cup Lives
  /\ phase \in {"closed", "syn", "open"}
  /\ sent \in [Sides -> Nat] /\ \A s \in Sides : sent[s] <= Longest
  /\ ended \subseteq Sides
  /\ now \in 0..MaxTime
  /\ Cardinality(conns) <= 1
  /\ \A c \in conns :
       /\ c.client \in Sides /\ c.from_syn \in BOOLEAN
       /\ c.last_seen \in 0..MaxTime /\ c.closed \in {Never} \cup 0..MaxTime
  /\ \A d \in Dirs :
       /\ DOMAIN d = DOMAIN NewDir(TRUE)
       /\ d.origin <= d.lo /\ d.lo <= d.hi /\ d.hi <= LastByte
       /\ d.held \subseteq Packets
       /\ d.pending_since \in {Never} \cup 0..MaxTime
  /\ whole \in BOOLEAN

(* An entry that was made on the SYN of this life and has missed no packet *)
(* since has each direction from its first byte to the last one sent: no   *)
(* state of an earlier life of the 4-tuple survives in it, no timeout and  *)
(* no retransmission takes bytes from it or adds to them                   *)
(* (on_segment, tracker.rs:117-122, and tick).                             *)
TrackedWhole ==
  whole =>
    \E c \in conns :
      /\ c.client = "client"
      /\ \A s \in Sides :
           LET d == c.dir[s]
           IN  /\ sent[s] > 0 => d.begun
               /\ d.begun => /\ d.origin = Isn[life][s]
                             /\ d.hi = Isn[life][s] + sent[s]
                             /\ d.held = {}

(* Whoever's packet was the first to be seen, and in whichever life, the   *)
(* entry calls the client the one that opened the connection, if it was    *)
(* made on a SYN or the server's port alone is configured                  *)
(* (tracker.rs:129-139).                                                   *)
RolesTrue ==
  \A c \in conns : c.from_syn \/ ServerPorts = {"server"} => c.client = "client"
=============================================================================
