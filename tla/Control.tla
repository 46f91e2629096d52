-------------------------------- MODULE Control --------------------------------
(***************************************************************************)
(* The control plane of h2tapd: the API thread (crates/h2tapd/src/api.rs), *)
(* which serves one request after the other, the channel to the capture    *)
(* thread, and what that thread does with a command between two packets    *)
(* (crates/h2tapd/src/capture.rs): sessions, their files and the replay of *)
(* the ring.  What the packets mean is in Tracker, and how the ring is     *)
(* bounded in Capture; here it holds the last RingPackets.                 *)
(*                                                                         *)
(* Packets are numbered as they come.  The disk (external) may be full for *)
(* a while, and a file or directory may refuse to be created.  Connections *)
(* and Health change nothing and are one kind of command; requests that    *)
(* are answered without the capture thread (400, 404, GET /) are left out. *)
(***************************************************************************)
EXTENDS Integers, Sequences, FiniteSets

CONSTANTS
  StartReqs,       \* the bodies of POST /captures
  StopNames,       \* the ids of DELETE /captures/{id}, None for DELETE /captures
  RingPackets,     \* how many packets the ring holds
  BufferPackets,   \* how many packets BufWriter holds back
  MaxRequests,     \* bound on the requests
  MaxPackets       \* bound on the packets

None == "none"

(* The path of a file whose name is left to the daemon.                    *)
Default == <<>>

(* started_us, which makes the id of a capture without a name, differs     *)
(* from one request to the next.                                           *)
CaptureId(c) == IF c.name = None THEN <<"cap", c.id>> ELSE <<c.name, 0>>

(* The path that is asked for, or one made of the id.                      *)
PcapPath(c) == IF c.pcap = Default THEN <<CaptureId(c), "pcap">> ELSE c.pcap
SnapshotPath(c) == IF c.snapshot = Default THEN <<CaptureId(c), "snapshot">> ELSE c.snapshot

Command(n, kind, name, pcap, snapshot) ==
  [id |-> n, kind |-> kind, name |-> name, pcap |-> pcap, snapshot |-> snapshot]

StartCommand(n, r) == Command(n, "start", r.name, r.pcap, r.snapshot)

(* A capture's two files are not the same one.                             *)
ASSUME ControlAssumption ==
  /\ \A r \in StartReqs :
       /\ DOMAIN r = {"name", "pcap", "snapshot"}
       /\ \A n \in 1..MaxRequests :
            PcapPath(StartCommand(n, r)) # SnapshotPath(StartCommand(n, r))
  /\ RingPackets \in Nat /\ BufferPackets \in Nat \ {0}
  /\ MaxRequests \in Nat /\ MaxPackets \in Nat

VARIABLES
  asked,     \* how many requests have come
  request,   \* the one being served: a set of at most one
  channel,   \* commands sent to the capture thread and not taken
  replies,   \* replies sent to a receiver that waits
  answers,   \* history: what the caller of each request was told
  thread,    \* of capture: "starting", "gone", "commands" or "packets"
  seen,      \* how many packets have come
  session,   \* the session that runs: a set of at most one
  disk,      \* the files, by their paths
  full,      \* the disk is full
  started,   \* history: the requests that have started a session
  ended      \* history: the sessions that were stopped, and by whom

api == <<asked, request, answers>>
capture == <<seen, session, disk, started, ended>>
vars == <<asked, request, channel, replies, answers, thread, seen, session, disk, full,
          started, ended>>

-----------------------------------------------------------------------------
(* Requests.                                                               *)

Commands ==
  {StartCommand(asked + 1, r) : r \in StartReqs}
    \cup {Command(asked + 1, "stop", n, Default, Default) : n \in StopNames}
    \cup {Command(asked + 1, "health", None, Default, Default)}

HasSeparator(c) == c.name = "../up"

-----------------------------------------------------------------------------
(* The API thread: ask and ask_result.                                     *)

Answer(code, of) == [code |-> code, of |-> of]

Waiting == Answer(0, 0)

(* One channel for all the replies.                                        *)
ReplyChannelShared(id) == 0

ReplyChannel(id) == id

(* The command that came last is taken first.                              *)
QueuedFirst(c) == <<c>> \o channel

Queued(c) == Append(channel, c)

Ask(c) ==
  /\ request = {}
  /\ asked < MaxRequests
  /\ asked' = asked + 1
  /\ IF thread = "gone"
     THEN /\ answers' = Append(answers, Answer(503, 0))
          /\ UNCHANGED <<request, channel>>
     ELSE /\ request' = {c}
          /\ channel' = Queued(c)
          /\ answers' = Append(answers, Waiting)
  /\ UNCHANGED <<replies, thread, capture, full>>

Receive ==
  \E c \in request, r \in replies :
    /\ r.to = ReplyChannel(c.id)
    /\ answers' = [answers EXCEPT ![c.id] = Answer(IF r.ok THEN 200 ELSE 409, r.of)]
    /\ request' = {}
    /\ replies' = replies \ {r}
    /\ UNCHANGED <<asked, channel, thread, capture, full>>

(* REPLY_TIMEOUT passes, or the command is dropped with its reply's sender.*)
TimesOut ==
  \E c \in request :
    /\ ~\E r \in replies : r.to = ReplyChannel(c.id)
    /\ answers' = [answers EXCEPT ![c.id] = Answer(504, 0)]
    /\ request' = {}
    /\ UNCHANGED <<asked, channel, replies, thread, capture, full>>

-----------------------------------------------------------------------------
(* Session.  A packet is counted once BufWriter has it, which it does not  *)
(* if it must flush first and cannot.                                      *)

NewWriter == [file |-> {}, buffer |-> {}, counted |-> {}, refused |-> FALSE]

(* A buffer that takes one packet more than it has room for.               *)
WritePacketOver(w, k) ==
  IF Cardinality(w.buffer) <= BufferPackets
  THEN [w EXCEPT !.buffer = @ \cup {k}, !.counted = @ \cup {k}]
  ELSE IF full THEN [w EXCEPT !.refused = TRUE]
  ELSE [w EXCEPT !.file = @ \cup w.buffer, !.buffer = {k}, !.counted = @ \cup {k}]

WritePacket(w, k) ==
  IF Cardinality(w.buffer) < BufferPackets
  THEN [w EXCEPT !.buffer = @ \cup {k}, !.counted = @ \cup {k}]
  ELSE IF full THEN [w EXCEPT !.refused = TRUE]
  ELSE [w EXCEPT !.file = @ \cup w.buffer, !.buffer = {k}, !.counted = @ \cup {k}]

(* A writer that is closed and loses what it holds.                        *)
ClosedUnflushed(w) == w.file

(* BufWriter is dropped.                                                   *)
Closed(w) == IF full THEN w.file ELSE w.file \cup w.buffer

FirstInRing(n) == IF n > RingPackets THEN n - RingPackets + 1 ELSE 1

(* The packets of the ring are written from the oldest on, as far as k.    *)
Replaying[k \in 0..seen] ==
  IF k < FirstInRing(seen) THEN NewWriter ELSE WritePacket(Replaying[k - 1], k)

(* A replay that leaves the packet that came last to the session.          *)
ReplayedShort == IF seen = 0 THEN NewWriter ELSE Replaying[seen - 1]

Replayed == Replaying[seen]

(* The disk with a file that is created, or written anew.                  *)
Written(files, path, file) ==
  [p \in DOMAIN files \cup {path} |-> IF p = path THEN file ELSE files[p]]

(* A snapshot has the tables as they are after packet number at.           *)
Pcap(c, packets) == [by |-> c.id, packets |-> packets, at |-> 0]
Snapshot(c, at) == [by |-> c.id, packets |-> {}, at |-> at]

-----------------------------------------------------------------------------
(* The commands.                                                           *)

(* A reply nobody waits for is dropped.                                    *)
Reply(c, ok) ==
  replies' = replies \cup
    {r \in {[to |-> ReplyChannel(c.id), of |-> c.id, ok |-> ok]} :
       \E d \in request : ReplyChannel(d.id) = r.to}

Refuse(c) == Reply(c, FALSE) /\ UNCHANGED <<session, disk, started, ended>>

(* A start that creates its file before it looks for a running session.    *)
StartRefusedLate(c) ==
  /\ session # {} \/ HasSeparator(c)
  /\ Reply(c, FALSE)
  /\ disk' = Written(disk, PcapPath(c), Pcap(c, {}))
  /\ UNCHANGED <<session, started, ended>>

StartRefused(c) == (session # {} \/ HasSeparator(c)) /\ Refuse(c)

(* create_dir_all or File::create fails.                                   *)
NoPcap(c) == session = {} /\ ~HasSeparator(c) /\ Refuse(c)

(* Like Started, with the session set before the snapshot is written.      *)
NoSnapshotSessionSet(c) ==
  /\ session = {} /\ ~HasSeparator(c)
  /\ disk' = Written(disk, PcapPath(c), Pcap(c, Closed(Replayed)))
  /\ session' = {[by |-> c.id, id |-> CaptureId(c), pcap |-> PcapPath(c),
                  snapshot |-> SnapshotPath(c), writer |-> Replayed]}
  /\ Reply(c, FALSE)
  /\ started' = started \cup {c.id}
  /\ UNCHANGED ended

(* The pcap is there, and the snapshot cannot be written: its file is as   *)
(* it was, or empty.                                                       *)
NoSnapshot(c) ==
  /\ session = {} /\ ~HasSeparator(c)
  /\ \E files \in {disk, Written(disk, SnapshotPath(c), Snapshot(c, 0))} :
       disk' = Written(files, PcapPath(c), Pcap(c, Closed(Replayed)))
  /\ Reply(c, FALSE)
  /\ UNCHANGED <<session, started, ended>>

Started(c) ==
  /\ session = {} /\ ~HasSeparator(c) /\ ~full
  /\ disk' = Written(Written(disk, SnapshotPath(c), Snapshot(c, seen)),
                     PcapPath(c), Pcap(c, Replayed.file))
  /\ session' = {[by |-> c.id, id |-> CaptureId(c), pcap |-> PcapPath(c),
                  snapshot |-> SnapshotPath(c), writer |-> Replayed]}
  /\ Reply(c, TRUE)
  /\ started' = started \cup {c.id}
  /\ UNCHANGED ended

Start(c) == StartRefused(c) \/ NoPcap(c) \/ NoSnapshot(c) \/ Started(c)

Names(c, s) == c.name = None \/ CaptureId(c) = s.id

(* The session is closed before the reply is sent.                         *)
Stop(c) ==
  \/ /\ ~\E s \in session : Names(c, s)
     /\ Refuse(c)
  \/ \E s \in session :
       /\ Names(c, s)
       /\ session' = {}
       /\ disk' = [disk EXCEPT ![s.pcap].packets = Closed(s.writer)]
       /\ Reply(c, TRUE)
       /\ ended' = ended \cup {[stop |-> c.id, session |-> s, named |-> c.name, flushed |-> ~full]}
       /\ UNCHANGED started

Health(c) == Reply(c, TRUE) /\ UNCHANGED <<session, disk, started, ended>>

Take ==
  /\ thread = "commands"
  /\ channel # <<>>
  /\ channel' = Tail(channel)
  /\ LET c == Head(channel)
     IN  \/ c.kind = "start" /\ Start(c)
         \/ c.kind = "stop" /\ Stop(c)
         \/ c.kind = "health" /\ Health(c)
  /\ UNCHANGED <<api, thread, seen, full>>

-----------------------------------------------------------------------------
(* The capture loop.                                                       *)

(* The socket is opened while the API already takes requests.  If it       *)
(* cannot be, the receiver is dropped, and the process ends.               *)
Opened ==
  /\ thread = "starting"
  /\ \/ thread' = "commands" /\ UNCHANGED channel
     \/ thread' = "gone" /\ channel' = <<>>
  /\ UNCHANGED <<api, replies, capture, full>>

NoMoreCommands ==
  /\ thread = "commands"
  /\ channel = <<>>
  /\ thread' = "packets"
  /\ UNCHANGED <<api, channel, replies, capture, full>>

Packet ==
  /\ thread = "packets"
  /\ seen < MaxPackets
  /\ seen' = seen + 1
  /\ session' = {[s EXCEPT !.writer = WritePacket(@, seen')] : s \in session}
  /\ disk' = [p \in DOMAIN disk |->
                IF \E s \in session : s.pcap = p
                THEN [disk[p] EXCEPT !.packets = UNION {s.writer.file : s \in session'}]
                ELSE disk[p]]
  /\ thread' = "commands"
  /\ UNCHANGED <<api, channel, replies, full, started, ended>>

(* A socket without read_timeout.                                          *)
ReadBlocks == FALSE /\ UNCHANGED vars

(* read_timeout passes, or what comes is of no interest, or an error.      *)
NoPacket ==
  /\ thread = "packets"
  /\ thread' = "commands"
  /\ UNCHANGED <<api, channel, replies, capture, full>>

DiskTurns ==
  /\ full' = ~full
  /\ UNCHANGED <<api, channel, replies, thread, capture>>

Init ==
  /\ asked = 0 /\ request = {} /\ channel = <<>> /\ replies = {} /\ answers = <<>>
  /\ thread = "starting" /\ seen = 0
  /\ session = {} /\ disk = <<>> /\ full = FALSE
  /\ started = {} /\ ended = {}

CaptureThread == Opened \/ Take \/ NoMoreCommands \/ Packet \/ NoPacket

Next ==
  \/ \E c \in Commands : Ask(c)
  \/ Receive
  \/ TimesOut
  \/ CaptureThread
  \/ DiskTurns

(* Both threads run.  The capture thread leaves every wait: for a command  *)
(* it does not wait at all, for a packet no longer than read_timeout.      *)
Spec == Init /\ [][Next]_vars /\ WF_vars(CaptureThread)

-----------------------------------------------------------------------------
(* Properties.                                                             *)

Ids == 1..asked

(* The variables range over what the two threads hold, and a session has   *)
(* both its files and no more in its buffer than fits.                     *)
TypeOK ==
  /\ asked \in 0..MaxRequests
  /\ Cardinality(request) <= 1 /\ \A c \in request : c.id \in Ids
  /\ \A i \in DOMAIN channel : channel[i].id \in Ids
  /\ \A r \in replies : r.of \in Ids /\ r.ok \in BOOLEAN
  /\ Len(answers) = asked
  /\ \A i \in Ids : answers[i].code \in {0, 200, 409, 503, 504}
  /\ thread \in {"starting", "gone", "commands", "packets"}
  /\ seen \in 0..MaxPackets
  /\ Cardinality(session) <= 1
  /\ \A s \in session :
       /\ {s.pcap, s.snapshot} \subseteq DOMAIN disk
       /\ Cardinality(s.writer.buffer) <= BufferPackets
  /\ started \subseteq Ids
  /\ full \in BOOLEAN

(* A caller is told the outcome of its own command, however late the reply *)
(* to an earlier one that has timed out may come (api.rs:78-104).          *)
OwnAnswer == \A i \in Ids : answers[i].code \in {200, 409} => answers[i].of = i

(* A start that was refused has started nothing, wherever in               *)
(* start_capture it failed, and a stop that was refused has ended nothing  *)
(* (capture.rs:212-230, 278-378).                                          *)
AnswerTells ==
  \A i \in Ids :
    /\ answers[i].code \in {409, 503} => i \notin started \cup {e.stop : e \in ended}
    /\ \A s \in session : answers[s.by].code \notin {409, 503}

(* A stop ends the session it names, and one that was asked for before it: *)
(* a stop that has timed out does not outlive what it was meant for and    *)
(* end a capture of the same name started since (capture.rs:216-230).      *)
StopsItsOwn ==
  \A e \in ended : e.session.by < e.stop /\ e.named \in {None, e.session.id[1]}

(* "The snapshot is aligned with the pcap by construction"                 *)
(* (capture.rs:4-8): until a packet is refused, the pcap of a session and  *)
(* its buffer hold the ring as it was at the snapshot and every packet     *)
(* since, and both files are of this session's start.                      *)
Aligned ==
  \A s \in session :
    /\ disk[s.pcap].by = s.by /\ disk[s.snapshot].by = s.by
    /\ disk[s.pcap].packets \cup s.writer.buffer = s.writer.counted
    /\ ~s.writer.refused => s.writer.counted = FirstInRing(disk[s.snapshot].at)..seen

(* A stop that was answered leaves a pcap with every packet it counts, if  *)
(* the disk takes them: nothing stays in a buffer, and no later command    *)
(* spoils the file unless it is a start that writes to the same path       *)
(* (capture.rs:134-145, 216-220).                                          *)
StoppedIsOnDisk ==
  \A e \in ended :
    LET f == disk[e.session.pcap]
    IN  e.flushed /\ f.by = e.session.by => f.packets = e.session.writer.counted

(* While a session runs nothing but its own packets is written to its      *)
(* files: no start, whatever paths it asks for, truncates them             *)
(* (capture.rs:285-287 before 308).                                        *)
RunningFilesKept ==
  [][\A s \in session, t \in session' :
       s.by = t.by =>
         /\ disk[s.pcap].packets \subseteq disk'[s.pcap].packets
         /\ disk'[s.pcap].by = s.by
         /\ disk'[s.snapshot] = disk[s.snapshot]]_vars

(* A command that was sent is carried out, also one whose caller has given *)
(* up waiting and though no packet comes any more (capture.rs:165, 200).   *)
CommandsRun ==
  \A i \in 1..MaxRequests :
    (\E k \in DOMAIN channel : channel[k].id = i) ~> (\A k \in DOMAIN channel : channel[k].id # i)
=============================================================================
