------------------------------ MODULE ControlProofs ------------------------------
(***************************************************************************)
(* What callers of the control API may rely on, for any number of requests *)
(* and packets, any names and paths, and a disk that fails at any time.    *)
(***************************************************************************)
EXTENDS Control, FiniteSetTheorems, NaturalsInduction, WellFoundedInduction, TLAPS

CommandNames == {r.name : r \in StartReqs} \cup StopNames \cup {None}

CommandPaths ==
  {r.pcap : r \in StartReqs} \cup {r.snapshot : r \in StartReqs} \cup {Default}

AllCommands ==
  [id : Nat, kind : {"start", "stop", "health"}, name : CommandNames,
   pcap : CommandPaths, snapshot : CommandPaths]

AllAnswers == [code : {0, 200, 409, 503, 504}, of : Nat]

InQueue == {channel[i].id : i \in 1..Len(channel)}

(* The requests that have changed what the capture thread does.            *)
Acted == started \cup {e.stop : e \in ended}

Typed ==
  /\ asked \in Nat
  /\ channel \in Seq(AllCommands)
  /\ answers \in Seq(AllAnswers) /\ Len(answers) = asked
  /\ \A c \in request : c.id \in Ids
  /\ \A r \in replies : r.ok \in BOOLEAN
  /\ \A s \in session : "by" \in DOMAIN s

QueueInOrder ==
  /\ InQueue \subseteq Ids
  /\ \A i, j \in 1..Len(channel) : i < j => channel[i].id < channel[j].id

SessionIsOlder == \A s \in session : s.by \in started /\ \A n \in InQueue : s.by < n

ActedOnTaken == Acted \subseteq Ids \ InQueue

RepliesTrue ==
  \A r \in replies :
    /\ r.to = r.of
    /\ r.of \in Ids \ InQueue
    /\ ~r.ok => r.of \notin Acted

AnswersTrue ==
  \A i \in Ids : answers[i].code \in {409, 503} => i \notin Acted \cup InQueue

IInv ==
  /\ Typed
  /\ QueueInOrder
  /\ SessionIsOlder
  /\ ActedOnTaken
  /\ RepliesTrue
  /\ AnswersTrue
  /\ OwnAnswer
  /\ StopsItsOwn

-----------------------------------------------------------------------------
(* Commands are what the channel is made for.                              *)
LEMMA CommandsTyped ==
  ASSUME asked \in Nat, NEW c \in Commands
  PROVE  c \in AllCommands /\ c.id = asked + 1
<1>1. \A kind \in {"start", "stop", "health"}, n \in CommandNames, p, q \in CommandPaths :
        /\ Command(asked + 1, kind, n, p, q) \in AllCommands
        /\ Command(asked + 1, kind, n, p, q).id = asked + 1
  BY DEF Command, AllCommands
<1>2. QED  BY <1>1 DEF Commands, StartCommand, CommandNames, CommandPaths

LEMMA InitIInv == Init => IInv
<1>1. SUFFICES ASSUME Init PROVE IInv  OBVIOUS
<1>2. Typed /\ QueueInOrder
  BY <1>1 DEF Init, Typed, QueueInOrder, InQueue
<1>3. QED
  BY <1>1, <1>2 DEF Init, IInv, SessionIsOlder, ActedOnTaken, Acted, RepliesTrue, AnswersTrue,
                    OwnAnswer, StopsItsOwn, Ids, InQueue

-----------------------------------------------------------------------------
(* The API thread.                                                         *)

LEMMA AskIInv ==
  ASSUME IInv, NEW c \in Commands, Ask(c)
  PROVE  IInv'
<1>1. c \in AllCommands /\ c.id = asked + 1
  BY CommandsTyped DEF IInv, Typed
<1>2. /\ asked' = asked + 1 /\ Ids' = Ids \cup {asked + 1} /\ asked + 1 \notin Ids
      /\ UNCHANGED <<replies, session, started, ended>>
  BY DEF Ask, capture, Ids, IInv, Typed
<1>3. PICK x \in {Answer(503, 0), Waiting} : answers' = Append(answers, x)
  BY DEF Ask
<1>4. /\ answers' \in Seq(AllAnswers) /\ Len(answers') = asked'
      /\ answers'[asked + 1] = x
      /\ \A i \in Ids : answers'[i] = answers[i]
  <2>1. x \in AllAnswers
    BY DEF Answer, Waiting, AllAnswers
  <2>2. QED  BY <1>2, <1>3, <2>1 DEF IInv, Typed, Ids
<1>5. CASE thread = "gone"
  <2>1. UNCHANGED <<request, channel>>
    BY <1>5 DEF Ask
  <2>2. Acted' = Acted /\ InQueue' = InQueue
    BY <1>2, <2>1 DEF Acted, InQueue
  <2>3. x.code \notin {200, 409}
    BY DEF Answer, Waiting
  <2>4. Typed' /\ QueueInOrder'
    BY <1>2, <1>4, <2>1, <2>2 DEF IInv, Typed, QueueInOrder
  <2>5. SessionIsOlder' /\ ActedOnTaken' /\ RepliesTrue' /\ StopsItsOwn'
    BY <1>2, <2>2 DEF IInv, SessionIsOlder, ActedOnTaken, RepliesTrue, StopsItsOwn
  <2>6. asked + 1 \notin Acted \cup InQueue
    BY <1>2 DEF IInv, ActedOnTaken, QueueInOrder
  <2>7. AnswersTrue'
    BY <1>2, <1>4, <2>2, <2>6 DEF IInv, AnswersTrue
  <2>8. OwnAnswer'
    BY <1>2, <1>4, <2>3 DEF IInv, OwnAnswer
  <2>9. QED  BY <2>4, <2>5, <2>7, <2>8 DEF IInv
<1>6. CASE thread # "gone"
  <2>1. /\ request' = {c} /\ channel' = Append(channel, c) /\ x = Waiting
    <3>1. request' = {c} /\ channel' = Append(channel, c) /\ answers' = Append(answers, Waiting)
      BY <1>6 DEF Ask, Queued
    <3>2. answers'[asked + 1] = Waiting
      BY <3>1 DEF IInv, Typed
    <3>3. QED  BY <1>4, <3>1, <3>2
  <2>2. /\ Len(channel') = Len(channel) + 1 /\ channel' \in Seq(AllCommands)
        /\ \A i \in 1..Len(channel) : channel'[i] = channel[i]
        /\ channel'[Len(channel) + 1] = c
    BY <1>1, <2>1 DEF IInv, Typed
  <2>3. InQueue' = InQueue \cup {asked + 1}
    <3>1. Len(channel) \in Nat
      BY DEF IInv, Typed
    <3>2. 1..Len(channel') = 1..Len(channel) \cup {Len(channel) + 1}
      BY <2>2, <3>1
    <3>3. QED  BY <1>1, <2>2, <3>2 DEF InQueue
  <2>4. Acted' = Acted
    BY <1>2 DEF Acted
  <2>5. x.code = 0
    BY <2>1 DEF Answer, Waiting
  <2>6. Typed'
    BY <1>1, <1>2, <1>4, <2>1, <2>2 DEF IInv, Typed
  <2>7. QueueInOrder'
    <3>1. InQueue' \subseteq Ids'
      BY <1>2, <2>3 DEF IInv, QueueInOrder
    <3>2. ASSUME NEW i \in 1..Len(channel'), NEW j \in 1..Len(channel'), i < j
          PROVE  channel'[i].id < channel'[j].id
      <4>1. i \in 1..Len(channel) /\ Len(channel) \in Nat
        BY <2>2, <3>2 DEF IInv, Typed
      <4>2. channel'[i].id = channel[i].id /\ channel[i].id \in Ids
        BY <2>2, <4>1 DEF IInv, QueueInOrder, InQueue
      <4>3. CASE j = Len(channel) + 1
        BY <1>1, <2>2, <4>2, <4>3 DEF IInv, Typed, Ids
      <4>4. CASE j \in 1..Len(channel)
        BY <2>2, <3>2, <4>1, <4>4 DEF IInv, QueueInOrder
      <4>5. QED  BY <2>2, <4>1, <4>3, <4>4
    <3>3. QED  BY <3>1, <3>2 DEF QueueInOrder
  <2>8. SessionIsOlder'
    <3>1. \A s \in session : s.by \in started /\ s.by \in Ids
      BY DEF IInv, SessionIsOlder, ActedOnTaken, Acted
    <3>2. \A s \in session : s.by < asked + 1
      BY <3>1 DEF IInv, Typed, Ids
    <3>3. QED  BY <1>2, <2>3, <3>1, <3>2 DEF IInv, SessionIsOlder
  <2>9. ActedOnTaken' /\ RepliesTrue'
    BY <1>2, <2>3, <2>4 DEF IInv, ActedOnTaken, RepliesTrue
  <2>10. AnswersTrue' /\ OwnAnswer'
    BY <1>2, <1>4, <2>3, <2>4, <2>5 DEF IInv, AnswersTrue, OwnAnswer
  <2>11. StopsItsOwn'
    BY <1>2 DEF IInv, StopsItsOwn
  <2>12. QED  BY <2>6, <2>7, <2>8, <2>9, <2>10, <2>11 DEF IInv
<1>7. QED  BY <1>5, <1>6

(* A caller who is answered, or gives up.                                  *)
LEMMA AnsweredIInv ==
  ASSUME IInv, NEW c \in request, NEW x \in AllAnswers,
         answers' = [answers EXCEPT ![c.id] = x],
         request' = {}, replies' \subseteq replies,
         UNCHANGED <<asked, channel, thread, capture, full>>,
         x.code \in {409, 503} => c.id \notin Acted \cup InQueue,
         x.code \in {200, 409} => x.of = c.id
  PROVE  IInv'
<1>1. UNCHANGED <<asked, channel, session, started, ended>>
  BY DEF capture
<1>2. Ids' = Ids /\ Acted' = Acted /\ InQueue' = InQueue /\ c.id \in Ids
  BY <1>1 DEF Ids, Acted, InQueue, IInv, Typed
<1>3. /\ answers' \in Seq(AllAnswers) /\ Len(answers') = asked
      /\ answers'[c.id] = x
      /\ \A i \in Ids \ {c.id} : answers'[i] = answers[i]
  BY <1>2 DEF IInv, Typed, Ids
<1>4. Typed' /\ QueueInOrder'
  BY <1>1, <1>2, <1>3 DEF IInv, Typed, QueueInOrder
<1>5. SessionIsOlder' /\ ActedOnTaken' /\ RepliesTrue' /\ StopsItsOwn'
  BY <1>1, <1>2 DEF IInv, SessionIsOlder, ActedOnTaken, RepliesTrue, StopsItsOwn
<1>6. AnswersTrue' /\ OwnAnswer'
  BY <1>2, <1>3 DEF IInv, AnswersTrue, OwnAnswer
<1>7. QED  BY <1>4, <1>5, <1>6 DEF IInv

LEMMA ReceiveIInv ==
  ASSUME IInv, Receive
  PROVE  IInv'
<1>1. PICK c \in request, r \in replies :
        /\ r.to = ReplyChannel(c.id)
        /\ answers' = [answers EXCEPT ![c.id] = Answer(IF r.ok THEN 200 ELSE 409, r.of)]
        /\ request' = {}
        /\ replies' = replies \ {r}
        /\ UNCHANGED <<asked, channel, thread, capture, full>>
  BY DEF Receive
<1>2. r.of = c.id /\ c.id \in Nat /\ r.ok \in BOOLEAN
  BY <1>1 DEF IInv, RepliesTrue, ReplyChannel, Typed, Ids
<1>3. DEFINE x == Answer(IF r.ok THEN 200 ELSE 409, r.of)
<1>4. /\ x \in AllAnswers /\ x.of = c.id
      /\ x.code = 409 => ~r.ok
      /\ x.code # 503
  BY <1>2 DEF Answer, AllAnswers
<1>5. x.code \in {409, 503} => c.id \notin Acted \cup InQueue
  BY <1>1, <1>2, <1>4 DEF IInv, RepliesTrue
<1>6. answers' = [answers EXCEPT ![c.id] = x]
  BY <1>1
<1>7. HIDE DEF x
<1>8. /\ request' = {} /\ replies' \subseteq replies
      /\ UNCHANGED <<asked, channel, thread, capture, full>>
      /\ c \in request /\ x \in AllAnswers
      /\ x.code \in {200, 409} => x.of = c.id
  BY <1>1, <1>4
<1>9. QED  BY <1>5, <1>6, <1>8, AnsweredIInv

LEMMA TimesOutIInv ==
  ASSUME IInv, TimesOut
  PROVE  IInv'
<1>1. PICK c \in request :
        /\ answers' = [answers EXCEPT ![c.id] = Answer(504, 0)]
        /\ request' = {}
        /\ UNCHANGED <<asked, channel, replies, thread, capture, full>>
  BY DEF TimesOut
<1>2. DEFINE x == Answer(504, 0)
<1>3. x \in AllAnswers /\ x.code \notin {200, 409, 503}
  BY DEF Answer, AllAnswers
<1>4. answers' = [answers EXCEPT ![c.id] = x] /\ replies' \subseteq replies
  BY <1>1
<1>5. HIDE DEF x
<1>6. /\ request' = {} /\ c \in request /\ x \in AllAnswers
      /\ UNCHANGED <<asked, channel, thread, capture, full>>
      /\ x.code \in {409, 503} => c.id \notin Acted \cup InQueue
      /\ x.code \in {200, 409} => x.of = c.id
  BY <1>1, <1>3
<1>7. QED  BY <1>4, <1>6, AnsweredIInv

-----------------------------------------------------------------------------
(* The capture thread takes a command.                                     *)

(* What is left in the queue is what came after.                           *)
LEMMA TakeQueue ==
  ASSUME Typed, QueueInOrder, channel # <<>>, channel' = Tail(channel), UNCHANGED api
  PROVE  /\ Head(channel) \in AllCommands /\ Head(channel).id \in InQueue
         /\ InQueue' \subseteq InQueue
         /\ \A n \in InQueue' : Head(channel).id < n
         /\ channel' \in Seq(AllCommands) /\ QueueInOrder'
<1>1. /\ Len(channel) \in Nat \ {0} /\ Head(channel) = channel[1]
      /\ channel' \in Seq(AllCommands) /\ Len(channel') = Len(channel) - 1
      /\ \A i \in 1..Len(channel') : channel'[i] = channel[i + 1] /\ i + 1 \in 2..Len(channel)
      /\ channel[1] \in AllCommands
  BY DEF Typed
<1>2. Head(channel).id \in InQueue
  BY <1>1 DEF InQueue
<1>3. InQueue' \subseteq InQueue
  BY <1>1 DEF InQueue
<1>4. \A n \in InQueue' : Head(channel).id < n
  <2>1. \A i \in 2..Len(channel) : channel[1].id < channel[i].id
    BY <1>1 DEF QueueInOrder
  <2>2. QED  BY <1>1, <2>1 DEF InQueue
<1>5. QueueInOrder'
  <2>1. Ids' = Ids
    BY DEF api, Ids
  <2>2. \A i, j \in 1..Len(channel') : i < j => channel'[i].id < channel'[j].id
    <3>1. SUFFICES ASSUME NEW i \in 1..Len(channel'), NEW j \in 1..Len(channel'), i < j
                   PROVE  channel[i + 1].id < channel[j + 1].id
      BY <1>1
    <3>2. i + 1 \in 1..Len(channel) /\ j + 1 \in 1..Len(channel) /\ i + 1 < j + 1
      BY <1>1, <3>1
    <3>3. QED  BY <3>2 DEF QueueInOrder
  <2>3. QED  BY <1>3, <2>1, <2>2 DEF QueueInOrder
<1>6. QED  BY <1>1, <1>2, <1>3, <1>4, <1>5

(* What the capture thread may do with a command c.                        *)
ChangesNothing(c) == \E ok \in BOOLEAN : Reply(c, ok) /\ UNCHANGED <<session, started, ended>>

StartsSession(c) ==
  /\ session = {}
  /\ \E s \in session' : session' = {s} /\ "by" \in DOMAIN s /\ s.by = c.id
  /\ started' = started \cup {c.id} /\ UNCHANGED ended
  /\ Reply(c, TRUE)

EndsSession(c) ==
  /\ session' = {} /\ UNCHANGED started
  /\ \E s \in session, e \in ended' :
       /\ Names(c, s)
       /\ ended' = ended \cup {e} /\ e.stop = c.id /\ e.session = s /\ e.named = c.name
  /\ Reply(c, TRUE)

LEMMA TakeOutcomes ==
  ASSUME Take, NEW c, c = Head(channel)
  PROVE  ChangesNothing(c) \/ StartsSession(c) \/ EndsSession(c)
<1>1. \/ c.kind = "health" /\ Health(c)
      \/ c.kind = "stop" /\ Stop(c)
      \/ c.kind = "start" /\ Start(c)
  BY DEF Take
<1>2. CASE c.kind = "health" /\ Health(c)
  BY <1>2 DEF Health, ChangesNothing
<1>3. CASE c.kind = "stop" /\ Stop(c)
  <2>1. CASE Refuse(c)
    BY <2>1 DEF Refuse, ChangesNothing
  <2>2. CASE ~Refuse(c)
    <3>1. PICK s \in session :
            /\ Names(c, s) /\ session' = {} /\ Reply(c, TRUE) /\ UNCHANGED started
            /\ ended' = ended \cup {[stop |-> c.id, session |-> s, named |-> c.name,
                                     flushed |-> ~full]}
      BY <1>3, <2>2 DEF Stop
    <3>2. DEFINE e == [stop |-> c.id, session |-> s, named |-> c.name, flushed |-> ~full]
    <3>3. e \in ended' /\ e.stop = c.id /\ e.session = s /\ e.named = c.name
      BY <3>1
    <3>4. ended' = ended \cup {e}
      BY <3>1
    <3>5. HIDE DEF e
    <3>6. QED  BY <3>1, <3>3, <3>4 DEF EndsSession
  <2>3. QED  BY <2>1, <2>2
<1>4. CASE c.kind = "start" /\ Start(c)
  <2>1. CASE StartRefused(c) \/ NoPcap(c)
    BY <2>1 DEF StartRefused, NoPcap, Refuse, ChangesNothing
  <2>2. CASE NoSnapshot(c)
    BY <2>2 DEF NoSnapshot, ChangesNothing
  <2>3. CASE Started(c)
    <3>1. PICK s : /\ session' = {s} /\ s = [by |-> c.id, id |-> CaptureId(c),
                      pcap |-> PcapPath(c), snapshot |-> SnapshotPath(c), writer |-> Replayed]
      BY <2>3 DEF Started
    <3>2. s \in session' /\ session' = {s} /\ "by" \in DOMAIN s /\ s.by = c.id
      BY <3>1
    <3>3. /\ session = {} /\ Reply(c, TRUE)
          /\ started' = started \cup {c.id} /\ UNCHANGED ended
      BY <2>3 DEF Started
    <3>4. QED  BY <3>2, <3>3 DEF StartsSession
  <2>4. QED  BY <1>4, <2>1, <2>2, <2>3 DEF Start
<1>5. QED  BY <1>1, <1>2, <1>3, <1>4

LEMMA TakeIInv ==
  ASSUME IInv, Take
  PROVE  IInv'
<1>1. DEFINE c == Head(channel)
<1>2. /\ channel # <<>> /\ channel' = Tail(channel)
      /\ UNCHANGED <<asked, request, answers>> /\ UNCHANGED api
  BY DEF Take, api
<1>3. /\ c \in AllCommands /\ c.id \in InQueue /\ InQueue' \subseteq InQueue
      /\ \A n \in InQueue' : c.id < n
      /\ channel' \in Seq(AllCommands) /\ QueueInOrder'
  BY <1>2, TakeQueue DEF IInv
<1>4. c.id \in Nat /\ c.id \notin InQueue' /\ c.id \in Ids /\ Ids' = Ids
  BY <1>2, <1>3 DEF AllCommands, IInv, QueueInOrder, Ids
<1>5. ChangesNothing(c) \/ StartsSession(c) \/ EndsSession(c)
  BY TakeOutcomes
<1>6. HIDE DEF c
<1>7. \E ok \in BOOLEAN :
        /\ replies' \subseteq replies \cup {[to |-> c.id, of |-> c.id, ok |-> ok]}
        /\ ~ok => started' = started /\ ended' = ended
  BY <1>5 DEF ChangesNothing, StartsSession, EndsSession, Reply, ReplyChannel
<1>8. Acted \subseteq Acted' /\ Acted' \subseteq Acted \cup {c.id}
  BY <1>5 DEF ChangesNothing, StartsSession, EndsSession, Acted
<1>9. c.id \notin Acted
  BY <1>3 DEF IInv, ActedOnTaken
<1>10. Typed'
  <2>1. \A s \in session' : "by" \in DOMAIN s
    BY <1>5 DEF ChangesNothing, StartsSession, EndsSession, IInv, Typed
  <2>2. \A r \in replies' : r.ok \in BOOLEAN
    BY <1>7 DEF IInv, Typed
  <2>3. QED  BY <1>2, <1>3, <1>4, <2>1, <2>2 DEF IInv, Typed
<1>11. SessionIsOlder'
  BY <1>3, <1>5 DEF ChangesNothing, StartsSession, EndsSession, IInv, SessionIsOlder
<1>12. ActedOnTaken'
  BY <1>3, <1>4, <1>8 DEF IInv, ActedOnTaken
<1>13. RepliesTrue'
  <2>1. PICK ok \in BOOLEAN :
          /\ replies' \subseteq replies \cup {[to |-> c.id, of |-> c.id, ok |-> ok]}
          /\ ~ok => started' = started /\ ended' = ended
    BY <1>7
  <2>2. SUFFICES ASSUME NEW r \in replies'
                 PROVE  r.to = r.of /\ r.of \in Ids' \ InQueue' /\ (~r.ok => r.of \notin Acted')
    BY DEF RepliesTrue
  <2>3. CASE r \in replies
    BY <1>3, <1>4, <1>8, <2>3 DEF IInv, RepliesTrue
  <2>4. CASE r = [to |-> c.id, of |-> c.id, ok |-> ok]
    <3>1. ~ok => Acted' = Acted
      BY <2>1 DEF Acted
    <3>2. QED  BY <1>4, <1>9, <2>4, <3>1
  <2>5. QED  BY <2>1, <2>3, <2>4
<1>14. AnswersTrue' /\ OwnAnswer'
  BY <1>2, <1>3, <1>4, <1>8 DEF IInv, AnswersTrue, OwnAnswer
<1>15. StopsItsOwn'
  <2>1. CASE ended' = ended
    BY <2>1 DEF IInv, StopsItsOwn
  <2>2. CASE EndsSession(c)
    <3>1. PICK s \in session, e \in ended' :
            /\ Names(c, s)
            /\ ended' = ended \cup {e} /\ e.stop = c.id /\ e.session = s /\ e.named = c.name
      BY <2>2 DEF EndsSession
    <3>2. s.by < c.id
      BY <1>3 DEF IInv, SessionIsOlder
    <3>3. c.name # None => s.id[1] = c.name
      BY <3>1 DEF Names, CaptureId
    <3>4. QED  BY <3>1, <3>2, <3>3 DEF IInv, StopsItsOwn
  <2>3. QED  BY <1>5, <2>1, <2>2 DEF ChangesNothing, StartsSession
<1>16. QED  BY <1>3, <1>10, <1>11, <1>12, <1>13, <1>14, <1>15 DEF IInv

-----------------------------------------------------------------------------
(* Packets and the disk.                                                   *)

LEMMA LoopIInv ==
  ASSUME IInv, Opened \/ NoMoreCommands \/ Packet \/ NoPacket \/ DiskTurns \/ UNCHANGED vars
  PROVE  IInv'
<1>1. /\ UNCHANGED <<asked, request, answers, replies, started, ended>>
      /\ channel' \in {channel, <<>>}
  BY DEF Opened, NoMoreCommands, Packet, NoPacket, DiskTurns, vars, api, capture
<1>2. /\ \A t \in session' : \E s \in session : t.by = s.by
      /\ \A t \in session' : "by" \in DOMAIN t
  <2>1. CASE Packet
    <3>1. session' = {[s EXCEPT !.writer = WritePacket(@, seen')] : s \in session}
      BY <2>1 DEF Packet
    <3>2. \A s \in session : \A w :
            /\ "by" \in DOMAIN [s EXCEPT !.writer = w]
            /\ [s EXCEPT !.writer = w].by = s.by
      BY DEF IInv, Typed
    <3>3. QED  BY <3>1, <3>2
  <2>2. CASE ~Packet
    <3>1. session' = session
      BY <2>2 DEF Opened, NoMoreCommands, NoPacket, DiskTurns, vars, capture
    <3>2. QED  BY <3>1 DEF IInv, Typed
  <2>3. QED  BY <2>1, <2>2
<1>3. Ids' = Ids /\ Acted' = Acted
  BY <1>1 DEF Ids, Acted
<1>4. InQueue' \subseteq InQueue /\ QueueInOrder' /\ channel' \in Seq(AllCommands)
  <2>1. CASE channel' = channel
    BY <1>3, <2>1 DEF InQueue, IInv, QueueInOrder, Typed
  <2>2. CASE channel' = <<>>
    BY <1>3, <2>2 DEF InQueue, QueueInOrder
  <2>3. QED  BY <1>1, <2>1, <2>2
<1>5. Typed'
  BY <1>1, <1>2, <1>3, <1>4 DEF IInv, Typed
<1>6. SessionIsOlder'
  BY <1>1, <1>2, <1>4 DEF IInv, SessionIsOlder
<1>7. ActedOnTaken' /\ RepliesTrue' /\ AnswersTrue' /\ OwnAnswer' /\ StopsItsOwn'
  BY <1>1, <1>3, <1>4 DEF IInv, ActedOnTaken, RepliesTrue, AnswersTrue, OwnAnswer, StopsItsOwn
<1>8. QED  BY <1>4, <1>5, <1>6, <1>7 DEF IInv

LEMMA StepIInv ==
  ASSUME IInv, [Next]_vars
  PROVE  IInv'
<1>1. ASSUME NEW c \in Commands, Ask(c) PROVE IInv'
  BY <1>1, AskIInv
<1>2. CASE Receive
  BY <1>2, ReceiveIInv
<1>3. CASE TimesOut
  BY <1>3, TimesOutIInv
<1>4. CASE Take
  BY <1>4, TakeIInv
<1>5. CASE Opened \/ NoMoreCommands \/ Packet \/ NoPacket \/ DiskTurns \/ UNCHANGED vars
  BY <1>5, LoopIInv
<1>6. QED  BY <1>1, <1>2, <1>3, <1>4, <1>5 DEF Next, CaptureThread

LEMMA Invariance == Spec => []IInv
<1>1. Init => IInv
  BY InitIInv
<1>2. IInv /\ [Next]_vars => IInv'
  BY StepIInv
<1>3. QED  BY <1>1, <1>2, PTL DEF Spec

-----------------------------------------------------------------------------
(* A caller is told the outcome of its own command, however many have      *)
(* given up before it: ask_result() makes a channel for each (api.rs:101). *)
THEOREM OwnAnswerTheorem == Spec => []OwnAnswer
<1>1. IInv => OwnAnswer
  BY DEF IInv
<1>2. QED  BY <1>1, Invariance, PTL

(* A refusal is the truth: what was refused has started no session and     *)
(* ended none, and never will (capture.rs:212-230, 285-343).               *)
THEOREM AnswerTellsTheorem == Spec => []AnswerTells
<1>1. IInv => AnswerTells
  BY DEF IInv, AnswerTells, AnswersTrue, SessionIsOlder, ActedOnTaken, Acted
<1>2. QED  BY <1>1, Invariance, PTL

(* A stop, however late it is taken, ends a session that was asked for     *)
(* before it and that it names (capture.rs:200, 216-230).                  *)
THEOREM StopsItsOwnTheorem == Spec => []StopsItsOwn
<1>1. IInv => StopsItsOwn
  BY DEF IInv
<1>2. QED  BY <1>1, Invariance, PTL

-----------------------------------------------------------------------------
(* Sessions and files.                                                     *)

Files == [by : Nat, packets : SUBSET Nat, at : Nat]

Writers == [file : SUBSET Nat, buffer : SUBSET Nat, counted : SUBSET Nat, refused : BOOLEAN]

(* A writer that was given the packets from first to last.                 *)
WriterTrue(w, first, last) ==
  /\ w \in Writers
  /\ IsFiniteSet(w.buffer) /\ Cardinality(w.buffer) <= BufferPackets
  /\ w.file \cup w.buffer = w.counted
  /\ ~w.refused => w.counted = first..last

SessionTrue(s) ==
  /\ s = [by |-> s.by, id |-> s.id, pcap |-> s.pcap, snapshot |-> s.snapshot,
          writer |-> s.writer]
  /\ {s.pcap, s.snapshot} \subseteq DOMAIN disk /\ s.pcap # s.snapshot
  /\ disk[s.pcap].by = s.by /\ disk[s.snapshot].by = s.by
  /\ disk[s.pcap].packets = s.writer.file
  /\ disk[s.snapshot].at <= seen
  /\ WriterTrue(s.writer, FirstInRing(disk[s.snapshot].at), seen)

(* A session that was stopped is not the one that runs, and its pcap is as *)
(* it was left.                                                            *)
EndedTrue(e) ==
  /\ e.session.by \in started
  /\ \A s \in session : s.by # e.session.by
  /\ e.session.pcap \in DOMAIN disk
  /\ e.flushed /\ disk[e.session.pcap].by = e.session.by =>
       disk[e.session.pcap].packets = e.session.writer.counted

Bounded ==
  /\ asked \in 0..MaxRequests
  /\ \A c, d \in request : c = d
  /\ thread \in {"starting", "gone", "commands", "packets"}
  /\ full \in BOOLEAN
  /\ \A i \in 1..Len(channel) :
       channel[i].kind = "start" => PcapPath(channel[i]) # SnapshotPath(channel[i])

DInv ==
  /\ Bounded
  /\ seen \in 0..MaxPackets
  /\ disk \in [DOMAIN disk -> Files]
  /\ \A s, t \in session : s = t
  /\ \A s \in session : SessionTrue(s)
  /\ \A e \in ended : EndedTrue(e)

-----------------------------------------------------------------------------
(* Writers.                                                                *)

LEMMA NewWriterTrue ==
  ASSUME NEW first \in Nat, NEW last \in Int, last < first
  PROVE  WriterTrue(NewWriter, first, last)
<1>1. first..last = {} /\ BufferPackets \in Nat
  BY ControlAssumption
<1> QED
  BY <1>1, FS_EmptySet DEF WriterTrue, NewWriter, Writers

LEMMA WritePacketTrue ==
  ASSUME NEW first \in Nat, NEW k \in Nat, NEW w, first <= k, WriterTrue(w, first, k - 1)
  PROVE  /\ WriterTrue(WritePacket(w, k), first, k)
         /\ w.file \subseteq WritePacket(w, k).file
<1>0. BufferPackets \in Nat \ {0}
  BY ControlAssumption
<1>1. /\ w \in Writers /\ IsFiniteSet(w.buffer) /\ Cardinality(w.buffer) <= BufferPackets
      /\ w.file \cup w.buffer = w.counted
      /\ ~w.refused => w.counted = first..(k - 1)
  BY DEF WriterTrue
<1>2. first..k = first..(k - 1) \cup {k}
  OBVIOUS
<1>3. CASE Cardinality(w.buffer) < BufferPackets
  <2>1. WritePacket(w, k) =
          [file |-> w.file, buffer |-> w.buffer \cup {k}, counted |-> w.counted \cup {k},
           refused |-> w.refused]
    BY <1>1, <1>3 DEF WritePacket, Writers
  <2>2. IsFiniteSet(w.buffer \cup {k}) /\ Cardinality(w.buffer \cup {k}) <= BufferPackets
    <3> DEFINE S == w.buffer
    <3>0. IsFiniteSet(S) /\ Cardinality(S) < BufferPackets
      BY <1>1, <1>3
    <3> HIDE DEF S
    <3>1. Cardinality(S) \in Nat
      BY <3>0, FS_CardinalityType
    <3>2. /\ IsFiniteSet(S \cup {k})
          /\ Cardinality(S \cup {k}) =
               IF k \in S THEN Cardinality(S) ELSE Cardinality(S) + 1
      BY <3>0, FS_AddElement
    <3>3. Cardinality(S \cup {k}) <= BufferPackets
      BY <1>0, <3>0, <3>1, <3>2
    <3> QED
      BY <3>2, <3>3 DEF S
  <2> QED
    BY <1>1, <1>2, <2>1, <2>2 DEF WriterTrue, Writers
<1>4. CASE ~(Cardinality(w.buffer) < BufferPackets) /\ full
  <2>1. WritePacket(w, k) =
          [file |-> w.file, buffer |-> w.buffer, counted |-> w.counted, refused |-> TRUE]
    BY <1>1, <1>4 DEF WritePacket, Writers
  <2> QED
    BY <1>1, <2>1 DEF WriterTrue, Writers
<1>5. CASE ~(Cardinality(w.buffer) < BufferPackets) /\ ~full
  <2>1. WritePacket(w, k) =
          [file |-> w.file \cup w.buffer, buffer |-> {k}, counted |-> w.counted \cup {k},
           refused |-> w.refused]
    BY <1>1, <1>5 DEF WritePacket, Writers
  <2>2. IsFiniteSet({k}) /\ Cardinality({k}) = 1
    BY FS_Singleton
  <2>3. Cardinality({k}) <= BufferPackets
    BY <1>0, <2>2
  <2> QED
    BY <1>1, <1>2, <2>1, <2>2, <2>3 DEF WriterTrue, Writers
<1> QED
  BY <1>3, <1>4, <1>5

LEMMA RingStarts ==
  ASSUME NEW n \in Nat
  PROVE  FirstInRing(n) \in Nat /\ 1 <= FirstInRing(n) /\ FirstInRing(n) <= n + 1
<1>1. RingPackets \in Nat
  BY ControlAssumption
<1> QED
  BY <1>1 DEF FirstInRing

LEMMA Least ==
  ASSUME NEW S \in SUBSET Nat, S # {}
  PROVE  \E p \in S : \A q \in S : p <= q
<1>1. PICK p \in S : \A q \in S : ~(<<q, p>> \in OpToRel(<, Nat))
  BY NatLessThanWellFounded, WFMin
<1>2. \A q \in S : ~(q < p)
  BY <1>1 DEF OpToRel
<1> QED
  BY <1>2

(* The replay of the ring, as the recursion that defines it.               *)
LEMMA ReplayingUnfolds ==
  ASSUME seen \in Nat
  PROVE  \A k \in 0..seen :
           Replaying[k] = IF k < FirstInRing(seen) THEN NewWriter
                          ELSE WritePacket(Replaying[k - 1], k)
<1> DEFINE first == FirstInRing(seen)
           Step(g, n) == [k \in 0..n |-> IF k < first THEN NewWriter
                                         ELSE WritePacket(g[k - 1], k)]
           Bad == {n \in 0..seen : ~ \E g : g = Step(g, n)}
<1>1. first \in Nat /\ 1 <= first
  BY RingStarts
<1>2. Replaying = CHOOSE g : g = Step(g, seen)
  BY DEF Replaying
<1>3. ASSUME Bad # {} PROVE FALSE
  <2>1. PICK n \in Bad : \A q \in Bad : n <= q
    <3>1. Bad \in SUBSET Nat
      OBVIOUS
    <3> HIDE DEF Bad
    <3> QED
      BY <1>3, <3>1, Least
  <2>2. n \in 0..seen /\ ~ \E g : g = Step(g, n)
    BY <2>1
  <2>3. n # 0
    <3> DEFINE g == [k \in 0..0 |-> NewWriter]
    <3>1. \A k \in 0..0 : k < first
      BY <1>1
    <3>2. g = Step(g, 0)
      <4> HIDE DEF first
      <4> QED
        BY <3>1
    <3> QED
      BY <2>2, <3>2
  <2>4. n - 1 \in 0..seen /\ ~(n <= n - 1)
    BY <2>2, <2>3
  <2>5. PICK f : f = Step(f, n - 1)
    BY <2>1, <2>4
  <2> DEFINE last == IF n < first THEN NewWriter ELSE WritePacket(f[n - 1], n)
             g == [k \in 0..n |-> IF k = n THEN last ELSE f[k]]
  <2>6. ASSUME NEW k \in 0..n
        PROVE  g[k] = IF k < first THEN NewWriter ELSE WritePacket(g[k - 1], k)
    <3>1. CASE k < first
      <4>1. k # n => f[k] = NewWriter
        <5>1. k # n => k \in 0..(n - 1)
          BY <2>2
        <5> QED
          BY <2>5, <3>1, <5>1
      <4> QED
        BY <3>1, <4>1
    <3>2. CASE ~(k < first)
      <4>1. k - 1 \in 0..n /\ k - 1 # n
        BY <1>1, <2>2, <3>2
      <4>2. g[k - 1] = f[k - 1]
        BY <4>1
      <4>3. CASE k = n
        BY <3>2, <4>2, <4>3
      <4>4. CASE k # n
        <5>1. k \in 0..(n - 1)
          BY <2>2, <4>4
        <5>2. f[k] = WritePacket(f[k - 1], k)
          BY <2>5, <3>2, <5>1
        <5> QED
          BY <3>2, <4>2, <4>4, <5>2
      <4> QED
        BY <4>3, <4>4
    <3> QED
      BY <3>1, <3>2
  <2>7. g = Step(g, n)
    <3> DEFINE d == Step(g, n)
    <3>1. \A k \in 0..n : g[k] = d[k]
      BY <2>6
    <3> QED
      BY <3>1
  <2> QED
    BY <2>2, <2>7
<1>4. PICK g : g = Step(g, seen)
  BY <1>3
<1>5. Replaying = Step(Replaying, seen)
  <2> HIDE DEF Step
  <2> QED
    BY <1>2, <1>4
<1> QED
  BY <1>5

(* A session starts with the ring: all of it, or a refusal.                *)
LEMMA ReplayedTrue ==
  ASSUME seen \in Nat
  PROVE  WriterTrue(Replayed, FirstInRing(seen), seen)
<1> DEFINE first == FirstInRing(seen)
           Bad == {k \in 0..seen : ~WriterTrue(Replaying[k], first, k)}
<1>1. first \in Nat /\ 1 <= first
  BY RingStarts
<1> HIDE DEF first
<1>2. ASSUME Bad # {} PROVE FALSE
  <2>1. PICK k \in Bad : \A q \in Bad : k <= q
    <3>1. Bad \in SUBSET Nat
      OBVIOUS
    <3> HIDE DEF Bad
    <3> QED
      BY <1>2, <3>1, Least
  <2>2. k \in 0..seen /\ ~WriterTrue(Replaying[k], first, k)
    BY <2>1
  <2>3. CASE k < first
    <3>1. Replaying[k] = NewWriter
      BY <2>2, <2>3, ReplayingUnfolds DEF first
    <3>2. k \in Int
      BY <2>2
    <3> QED
      BY <1>1, <2>2, <2>3, <3>1, <3>2, NewWriterTrue
  <2>4. CASE ~(k < first)
    <3>1. k \in Nat /\ k - 1 \in 0..seen /\ first <= k /\ ~(k <= k - 1)
      BY <1>1, <2>2, <2>4
    <3>2. WriterTrue(Replaying[k - 1], first, k - 1)
      BY <2>1, <3>1
    <3>3. Replaying[k] = WritePacket(Replaying[k - 1], k)
      BY <2>2, <2>4, ReplayingUnfolds DEF first
    <3> QED
      BY <1>1, <2>2, <3>1, <3>2, <3>3, WritePacketTrue
  <2> QED
    BY <2>3, <2>4
<1>3. seen \in 0..seen
  OBVIOUS
<1> QED
  BY <1>2, <1>3 DEF Replayed, first

-----------------------------------------------------------------------------
(* The steps.                                                              *)

LEMMA InitDInv == Init => DInv
<1> SUFFICES ASSUME Init PROVE DInv
  OBVIOUS
<1>1. MaxRequests \in Nat /\ MaxPackets \in Nat
  BY ControlAssumption
<1>2. Bounded
  <2>1. asked \in 0..MaxRequests /\ request = {} /\ thread = "starting" /\ channel = <<>>
    BY <1>1 DEF Init
  <2>2. full \in BOOLEAN
    BY DEF Init
  <2>3. 1..Len(channel) = {}
    BY <2>1
  <2> QED
    BY <2>1, <2>2, <2>3 DEF Bounded
<1>3. disk = <<>> /\ DOMAIN disk = {}
  BY DEF Init
<1>4. disk \in [DOMAIN disk -> Files]
  BY <1>3
<1> QED
  BY <1>1, <1>2, <1>4 DEF Init, DInv

(* Whatever leaves the capture thread's state alone.                       *)
LEMMA CaptureStays ==
  ASSUME DInv, UNCHANGED capture, Bounded'
  PROVE  DInv'
<1>1. UNCHANGED <<seen, session, disk, started, ended>>
  BY DEF capture
<1>2. (\A s \in session : SessionTrue(s))'
  BY <1>1 DEF DInv, SessionTrue, WriterTrue, FirstInRing
<1>3. (\A e \in ended : EndedTrue(e))'
  BY <1>1 DEF DInv, EndedTrue
<1> QED
  BY <1>1, <1>2, <1>3 DEF DInv

LEMMA AskDInv ==
  ASSUME IInv, DInv, NEW c \in Commands, Ask(c)
  PROVE  DInv'
<1>1. /\ asked \in Nat /\ MaxRequests \in Nat /\ asked < MaxRequests /\ asked' = asked + 1
      /\ asked' \in 0..MaxRequests
      /\ UNCHANGED <<thread, full>> /\ UNCHANGED capture
  <2>1. asked \in Nat /\ MaxRequests \in Nat
    BY ControlAssumption DEF IInv, Typed
  <2> QED
    BY <2>1 DEF Ask
<1>2. c.kind = "start" => PcapPath(c) # SnapshotPath(c)
  <2>1. CASE \E r \in StartReqs : c = StartCommand(asked + 1, r)
    <3>1. asked + 1 \in 1..MaxRequests
      BY <1>1
    <3> QED
      BY <2>1, <3>1, ControlAssumption
  <2>2. CASE c.kind # "start"
    BY <2>2
  <2> QED
    BY <2>1, <2>2 DEF Commands, Command
<1>3. CASE UNCHANGED <<request, channel>>
  <2>1. Bounded'
    BY <1>1, <1>3 DEF DInv, Bounded, PcapPath, SnapshotPath, CaptureId
  <2> QED
    BY <1>1, <2>1, CaptureStays
<1>4. CASE request' = {c} /\ channel' = Append(channel, c)
  <2>1. channel \in Seq(AllCommands)
    BY DEF IInv, Typed
  <2>2. ASSUME NEW i \in 1..Len(channel'), channel'[i].kind = "start"
        PROVE  PcapPath(channel'[i]) # SnapshotPath(channel'[i])
    <3>1. Len(channel') = Len(channel) + 1 /\ Len(channel) \in Nat
      BY <1>4, <2>1
    <3>2. CASE i = Len(channel) + 1
      <4>1. channel'[i] = c
        BY <1>4, <2>1, <3>2
      <4> QED
        BY <1>2, <2>2, <4>1
    <3>3. CASE i # Len(channel) + 1
      <4>1. i \in 1..Len(channel) /\ channel'[i] = channel[i]
        BY <1>4, <2>1, <3>1, <3>3
      <4> QED
        BY <2>2, <4>1 DEF DInv, Bounded
    <3> QED
      BY <3>2, <3>3
  <2>3. \A x, y \in request' : x = y
    BY <1>4
  <2>4. Bounded'
    BY <1>1, <2>2, <2>3 DEF DInv, Bounded, PcapPath, SnapshotPath, CaptureId
  <2> QED
    BY <1>1, <2>4, CaptureStays
<1> QED
  BY <1>3, <1>4 DEF Ask, Queued

(* Callers who are answered or give up, and a capture thread that takes no *)
(* command and no packet.                                                  *)
LEMMA IdleDInv ==
  ASSUME IInv, DInv, Receive \/ TimesOut \/ Opened \/ NoMoreCommands \/ NoPacket \/ DiskTurns
                     \/ UNCHANGED vars
  PROVE  DInv'
<1>1. UNCHANGED asked /\ UNCHANGED capture
  BY DEF Receive, TimesOut, Opened, NoMoreCommands, NoPacket, DiskTurns, vars, api, capture
<1>2. request' \in {request, {}} /\ channel' \in {channel, <<>>}
  BY DEF Receive, TimesOut, Opened, NoMoreCommands, NoPacket, DiskTurns, vars, api
<1>3. thread' \in {"starting", "gone", "commands", "packets"} /\ full' \in BOOLEAN
  <2>1. CASE DiskTurns
    BY <2>1 DEF DiskTurns, DInv, Bounded
  <2>2. CASE ~DiskTurns
    BY <2>2 DEF DInv, Bounded, Receive, TimesOut, Opened, NoMoreCommands, NoPacket, vars
  <2> QED
    BY <2>1, <2>2
<1>4. \A i \in 1..Len(channel') :
        channel'[i].kind = "start" => PcapPath(channel'[i]) # SnapshotPath(channel'[i])
  BY <1>2 DEF DInv, Bounded
<1>5. \A x, y \in request' : x = y
  BY <1>2 DEF DInv, Bounded
<1>6. Bounded'
  BY <1>1, <1>3, <1>4, <1>5 DEF DInv, Bounded, PcapPath, SnapshotPath, CaptureId
<1> QED
  BY <1>1, <1>6, CaptureStays

LEMMA TakeBounded ==
  ASSUME IInv, DInv, Take
  PROVE  Bounded'
<1>1. /\ channel # <<>> /\ channel' = Tail(channel) /\ UNCHANGED <<asked, request, thread, full>>
      /\ channel \in Seq(AllCommands)
  BY DEF Take, api, IInv, Typed
<1>2. ASSUME NEW i \in 1..Len(channel')
      PROVE  channel'[i] = channel[i + 1] /\ i + 1 \in 1..Len(channel)
  BY <1>1
<1>3. \A i \in 1..Len(channel') :
        channel'[i].kind = "start" => PcapPath(channel'[i]) # SnapshotPath(channel'[i])
  BY <1>2 DEF DInv, Bounded
<1> QED
  BY <1>1, <1>3 DEF DInv, Bounded, PcapPath, SnapshotPath, CaptureId

(* Command i writes files of its own over what was there.                  *)
WritesItsOwn(i) ==
  /\ disk' \in [DOMAIN disk' -> Files]
  /\ DOMAIN disk \subseteq DOMAIN disk'
  /\ \A p \in DOMAIN disk' :
       disk'[p].by = i \/ (p \in DOMAIN disk /\ disk'[p] = disk[p])

LEMMA ClosedIsNat ==
  ASSUME NEW w \in Writers
  PROVE  Closed(w) \in SUBSET Nat /\ w.file \in SUBSET Nat
BY DEF Writers, Closed

LEMMA StartWritesItsOwn ==
  ASSUME DInv, NEW c, c.id \in Nat, NoSnapshot(c) \/ Started(c)
  PROVE  WritesItsOwn(c.id)
<1>1. seen \in Nat /\ disk \in [DOMAIN disk -> Files]
  BY ControlAssumption DEF DInv
<1>2. Replayed \in Writers
  BY <1>1, ReplayedTrue DEF WriterTrue
<1>3. Closed(Replayed) \in SUBSET Nat /\ Replayed.file \in SUBSET Nat
  BY <1>2, ClosedIsNat
<1>4. ASSUME NEW q \in SUBSET Nat
      PROVE  Pcap(c, q) \in Files /\ Pcap(c, q).by = c.id
  BY <1>4 DEF Pcap, Files
<1>5. ASSUME NEW n \in Nat
      PROVE  Snapshot(c, n) \in Files /\ Snapshot(c, n).by = c.id
  BY <1>5 DEF Snapshot, Files
<1>6. ASSUME NEW q \in SUBSET Nat, disk' = Written(disk, PcapPath(c), Pcap(c, q))
      PROVE  WritesItsOwn(c.id)
  BY <1>1, <1>4, <1>6 DEF WritesItsOwn, Written
<1>7. ASSUME NEW q \in SUBSET Nat, NEW n \in Nat,
             disk' = Written(Written(disk, SnapshotPath(c), Snapshot(c, n)),
                             PcapPath(c), Pcap(c, q))
      PROVE  WritesItsOwn(c.id)
  BY <1>1, <1>4, <1>5, <1>7 DEF WritesItsOwn, Written
<1>8. CASE NoSnapshot(c)
  BY <1>3, <1>6, <1>7, <1>8 DEF NoSnapshot
<1>9. CASE Started(c)
  BY <1>1, <1>3, <1>7, <1>9 DEF Started
<1> QED
  BY <1>8, <1>9

(* Files written for another command leave stopped captures as they are.   *)
LEMMA EndedKept ==
  ASSUME DInv, NEW i, WritesItsOwn(i), i \notin started, ended' = ended,
         started \subseteq started', \A s \in session' : s.by = i
  PROVE  \A e \in ended' : EndedTrue(e)'
<1> SUFFICES ASSUME NEW e \in ended PROVE EndedTrue(e)'
  OBVIOUS
<1>1. EndedTrue(e)
  BY DEF DInv
<1>2. e.session.by \in started' /\ e.session.by # i
  BY <1>1 DEF EndedTrue
<1>3. e.session.pcap \in DOMAIN disk'
  BY <1>1 DEF EndedTrue, WritesItsOwn
<1>4. disk'[e.session.pcap].by = e.session.by => disk'[e.session.pcap] = disk[e.session.pcap]
  BY <1>2, <1>3 DEF WritesItsOwn
<1> QED
  BY <1>1, <1>2, <1>3, <1>4 DEF EndedTrue

LEMMA NoSnapshotDInv ==
  ASSUME DInv, Bounded', UNCHANGED seen, NEW c, c.id \in Nat, c.id \notin Acted,
         NoSnapshot(c)
  PROVE  DInv'
<1>1. session' = {} /\ UNCHANGED <<started, ended>>
  BY DEF NoSnapshot
<1>2. WritesItsOwn(c.id)
  BY StartWritesItsOwn
<1>3. \A e \in ended' : EndedTrue(e)'
  BY <1>1, <1>2, EndedKept DEF Acted
<1>4. disk' \in [DOMAIN disk' -> Files]
  BY <1>2 DEF WritesItsOwn
<1>5. (\A e \in ended : EndedTrue(e))'
  BY <1>3
<1> QED
  BY <1>1, <1>4, <1>5 DEF DInv

LEMMA StartedDInv ==
  ASSUME DInv, Bounded', UNCHANGED seen, NEW c, c.id \in Nat, c.id \notin Acted,
         PcapPath(c) # SnapshotPath(c), Started(c)
  PROVE  DInv'
<1>0. PICK t : t = [by |-> c.id, id |-> CaptureId(c), pcap |-> PcapPath(c),
                    snapshot |-> SnapshotPath(c), writer |-> Replayed]
  OBVIOUS
<1>1. /\ session' = {t} /\ started' = started \cup {c.id} /\ UNCHANGED ended
      /\ disk' = Written(Written(disk, SnapshotPath(c), Snapshot(c, seen)),
                         PcapPath(c), Pcap(c, Replayed.file))
  BY <1>0 DEF Started
<1>2. WritesItsOwn(c.id)
  BY StartWritesItsOwn
<1>3. \A e \in ended' : EndedTrue(e)'
  BY <1>0, <1>1, <1>2, EndedKept DEF Acted
<1>4. disk' \in [DOMAIN disk' -> Files]
  BY <1>2 DEF WritesItsOwn
<1>5. seen \in Nat /\ seen <= seen
  BY ControlAssumption DEF DInv
<1>6. SessionTrue(t)'
  <2>1. /\ t = [by |-> t.by, id |-> t.id, pcap |-> t.pcap, snapshot |-> t.snapshot,
                writer |-> t.writer]
        /\ t.pcap = PcapPath(c) /\ t.snapshot = SnapshotPath(c) /\ t.by = c.id
        /\ t.writer = Replayed
    BY <1>0
  <2>2. /\ {t.pcap, t.snapshot} \subseteq DOMAIN disk' /\ t.pcap # t.snapshot
        /\ disk'[t.pcap] = Pcap(c, t.writer.file)
        /\ disk'[t.snapshot] = Snapshot(c, seen)
    BY <1>1, <2>1 DEF Written
  <2>3. WriterTrue(t.writer, FirstInRing(seen), seen)
    BY <1>5, <2>1, ReplayedTrue
  <2>4. /\ disk'[t.pcap].by = t.by /\ disk'[t.pcap].packets = t.writer.file
        /\ disk'[t.snapshot].by = t.by /\ disk'[t.snapshot].at = seen
    BY <2>1, <2>2 DEF Pcap, Snapshot
  <2> QED
    BY <1>5, <2>1, <2>2, <2>3, <2>4 DEF SessionTrue, WriterTrue, FirstInRing
<1>7. (\A s \in session : SessionTrue(s))'
  BY <1>1, <1>6
<1>8. (\A e \in ended : EndedTrue(e))'
  BY <1>3
<1>9. (\A s, u \in session : s = u)'
  BY <1>1
<1> QED
  BY <1>4, <1>7, <1>8, <1>9 DEF DInv

(* A pcap that is closed.                                                  *)
LEMMA StopDInv ==
  ASSUME IInv, DInv, Bounded', UNCHANGED seen, NEW c, NEW s \in session,
         session' = {}, UNCHANGED started,
         disk' = [disk EXCEPT ![s.pcap].packets = Closed(s.writer)],
         ended' = ended \cup {[stop |-> c.id, session |-> s, named |-> c.name,
                               flushed |-> ~full]}
  PROVE  DInv'
<1>1. SessionTrue(s) /\ s.by \in started /\ full \in BOOLEAN /\ disk \in [DOMAIN disk -> Files]
  BY DEF IInv, SessionIsOlder, DInv, Bounded
<1>2. s.writer \in Writers /\ s.pcap \in DOMAIN disk
      /\ s.writer.file \cup s.writer.buffer = s.writer.counted
  BY <1>1 DEF SessionTrue, WriterTrue
<1>3. Closed(s.writer) \in SUBSET Nat
  BY <1>2, ClosedIsNat
<1>4. disk[s.pcap] \in Files
  BY <1>1, <1>2
<1>5. /\ DOMAIN disk' = DOMAIN disk
      /\ disk'[s.pcap] = [by |-> disk[s.pcap].by, packets |-> Closed(s.writer),
                          at |-> disk[s.pcap].at]
      /\ \A p \in DOMAIN disk \ {s.pcap} : disk'[p] = disk[p]
  BY <1>1, <1>2, <1>4 DEF Files
<1>6. disk' \in [DOMAIN disk' -> Files]
  <2> DEFINE f == [disk[s.pcap] EXCEPT !.packets = Closed(s.writer)]
  <2>1. f \in Files
    BY <1>3, <1>4 DEF Files
  <2>2. disk' = [disk EXCEPT ![s.pcap] = f]
    OBVIOUS
  <2> HIDE DEF f
  <2> QED
    BY <1>1, <2>1, <2>2
<1>7. disk'[s.pcap].by = s.by /\ disk'[s.pcap].packets = Closed(s.writer)
  BY <1>1, <1>5 DEF SessionTrue
<1>8. ASSUME NEW e \in ended PROVE EndedTrue(e)'
  <2>1. EndedTrue(e) /\ e.session.by # s.by
    BY DEF DInv, EndedTrue
  <2>2. e.session.by \in started' /\ e.session.pcap \in DOMAIN disk'
    BY <1>5, <2>1 DEF EndedTrue
  <2>3. CASE e.session.pcap = s.pcap
    BY <1>7, <2>1, <2>2, <2>3 DEF EndedTrue
  <2>4. CASE e.session.pcap # s.pcap
    <3>1. disk'[e.session.pcap] = disk[e.session.pcap]
      BY <1>5, <2>2, <2>4
    <3> QED
      BY <2>1, <2>2, <3>1 DEF EndedTrue
  <2> QED
    BY <2>3, <2>4
<1>9. ASSUME NEW e, e = [stop |-> c.id, session |-> s, named |-> c.name, flushed |-> ~full]
      PROVE  EndedTrue(e)'
  <2>1. e.session = s /\ (e.flushed => ~full)
    BY <1>1, <1>9
  <2>2. ~full => Closed(s.writer) = s.writer.counted
    BY <1>2 DEF Closed
  <2> QED
    BY <1>1, <1>2, <1>5, <1>7, <2>1, <2>2 DEF EndedTrue
<1>10. (\A e \in ended : EndedTrue(e))'
  BY <1>8, <1>9
<1> QED
  BY <1>6, <1>10 DEF DInv

LEMMA TakeDInv ==
  ASSUME IInv, DInv, Take
  PROVE  DInv'
<1> DEFINE c == Head(channel)
<1>1. /\ channel # <<>> /\ channel' = Tail(channel) /\ UNCHANGED seen /\ UNCHANGED api
      /\ channel \in Seq(AllCommands)
  BY DEF Take, IInv, Typed
<1>2. c \in AllCommands /\ c.id \in InQueue
  BY <1>1, TakeQueue DEF IInv
<1>3. c.id \in Nat /\ c.id \notin Acted
  BY <1>2 DEF AllCommands, IInv, ActedOnTaken
<1>4. c.kind = "start" => PcapPath(c) # SnapshotPath(c)
  <2>1. 1 \in 1..Len(channel) /\ c = channel[1]
    BY <1>1
  <2> QED
    BY <2>1 DEF DInv, Bounded
<1>5. \/ c.kind = "start" /\ Start(c)
      \/ c.kind = "stop" /\ Stop(c)
      \/ c.kind = "health" /\ Health(c)
  BY DEF Take
<1>6. Bounded'
  BY TakeBounded
<1> HIDE DEF c
<1>7. CASE UNCHANGED <<session, disk, started, ended>>
  BY <1>1, <1>6, <1>7, CaptureStays DEF capture
<1>8. CASE NoSnapshot(c)
  BY <1>1, <1>3, <1>6, <1>8, NoSnapshotDInv
<1>9. CASE c.kind = "start" /\ Started(c)
  BY <1>1, <1>3, <1>4, <1>6, <1>9, StartedDInv
<1>10. CASE Stop(c)
  <2>1. CASE Refuse(c)
    BY <1>7, <2>1 DEF Refuse
  <2>2. CASE ~Refuse(c)
    <3>1. PICK s \in session :
            /\ session' = {} /\ UNCHANGED started
            /\ disk' = [disk EXCEPT ![s.pcap].packets = Closed(s.writer)]
            /\ ended' = ended \cup {[stop |-> c.id, session |-> s, named |-> c.name,
                                     flushed |-> ~full]}
      BY <1>10, <2>2 DEF Stop
    <3> QED
      BY <1>1, <1>6, <3>1, StopDInv
  <2> QED
    BY <2>1, <2>2
<1> QED
  BY <1>5, <1>7, <1>8, <1>9, <1>10 DEF Start, StartRefused, NoPcap, Refuse, Health

(* A packet changes the pcap of the session that runs, and nothing else.   *)
LEMMA PacketWrites ==
  ASSUME DInv, Packet, NEW s \in session
  PROVE  \E t : /\ session' = {t}
                /\ t = [by |-> s.by, id |-> s.id, pcap |-> s.pcap, snapshot |-> s.snapshot,
                        writer |-> WritePacket(s.writer, seen + 1)]
                /\ s.writer.file \subseteq t.writer.file
                /\ WriterTrue(t.writer, FirstInRing(disk[s.snapshot].at), seen + 1)
                /\ disk' = [disk EXCEPT ![s.pcap].packets = t.writer.file]
<1>1. SessionTrue(s) /\ seen \in Nat /\ disk \in [DOMAIN disk -> Files] /\ session = {s}
  BY ControlAssumption DEF DInv
<1>2. PICK t : t = [s EXCEPT !.writer = WritePacket(@, seen')]
  OBVIOUS
<1>3. /\ seen' = seen + 1 /\ session' = {t}
      /\ disk' = [p \in DOMAIN disk |->
                    IF \E u \in session : u.pcap = p
                    THEN [disk[p] EXCEPT !.packets = UNION {u.writer.file : u \in session'}]
                    ELSE disk[p]]
  BY <1>1, <1>2 DEF Packet
<1>4. t = [by |-> s.by, id |-> s.id, pcap |-> s.pcap, snapshot |-> s.snapshot,
           writer |-> WritePacket(s.writer, seen + 1)]
  BY <1>1, <1>2, <1>3 DEF SessionTrue
<1>5. UNION {u.writer.file : u \in session'} = t.writer.file
  BY <1>3
<1>6. disk' = [disk EXCEPT ![s.pcap].packets = t.writer.file]
  <2>1. s.pcap \in DOMAIN disk /\ disk = [p \in DOMAIN disk |-> disk[p]]
    BY <1>1 DEF SessionTrue
  <2>2. \A p : (\E u \in session : u.pcap = p) <=> p = s.pcap
    BY <1>1
  <2> QED
    BY <1>3, <1>5, <2>1, <2>2
<1>7. /\ s.writer.file \subseteq t.writer.file
      /\ WriterTrue(t.writer, FirstInRing(disk[s.snapshot].at), seen + 1)
  <2> DEFINE first == FirstInRing(disk[s.snapshot].at)
             k == seen + 1
  <2>1. disk[s.snapshot].at \in Nat /\ disk[s.snapshot].at <= seen
    BY <1>1 DEF SessionTrue, Files
  <2>2. first \in Nat /\ first <= seen + 1
    <3>1. first \in Nat /\ first <= disk[s.snapshot].at + 1
      BY <2>1, RingStarts
    <3> QED
      BY <1>1, <2>1, <3>1
  <2>3. k \in Nat /\ k - 1 = seen /\ first <= k
    BY <1>1, <2>2
  <2>4. WriterTrue(s.writer, first, k - 1)
    BY <1>1, <2>3 DEF SessionTrue
  <2> HIDE DEF first, k
  <2>5. /\ s.writer.file \subseteq WritePacket(s.writer, k).file
        /\ WriterTrue(WritePacket(s.writer, k), first, k)
    BY <2>2, <2>3, <2>4, WritePacketTrue
  <2>6. t.writer = WritePacket(s.writer, k)
    BY <1>4 DEF k
  <2> QED
    BY <2>5, <2>6 DEF first, k
<1> QED
  BY <1>3, <1>4, <1>6, <1>7

LEMMA PacketDInv ==
  ASSUME DInv, Packet
  PROVE  DInv'
<1>1. /\ seen' = seen + 1 /\ seen' \in 0..MaxPackets /\ seen \in Nat
      /\ disk \in [DOMAIN disk -> Files]
      /\ UNCHANGED <<asked, request, channel, full, started, ended>> /\ thread' = "commands"
  BY ControlAssumption DEF DInv, Packet, api
<1>2. Bounded'
  BY <1>1 DEF DInv, Bounded, PcapPath, SnapshotPath, CaptureId
<1>3. CASE session = {}
  <2>1. session' = {} /\ disk' = [p \in DOMAIN disk |-> disk[p]]
    BY <1>3 DEF Packet
  <2>2. disk' = disk
    BY <1>1, <2>1
  <2>3. (\A e \in ended : EndedTrue(e))'
    BY <1>1, <2>1, <2>2 DEF DInv, EndedTrue
  <2> QED
    BY <1>1, <1>2, <2>1, <2>2, <2>3 DEF DInv
<1>4. CASE session # {}
  <2>1. PICK s \in session : TRUE
    BY <1>4
  <2>2. PICK t :
          /\ session' = {t}
          /\ t = [by |-> s.by, id |-> s.id, pcap |-> s.pcap, snapshot |-> s.snapshot,
                  writer |-> WritePacket(s.writer, seen + 1)]
          /\ s.writer.file \subseteq t.writer.file
          /\ WriterTrue(t.writer, FirstInRing(disk[s.snapshot].at), seen + 1)
          /\ disk' = [disk EXCEPT ![s.pcap].packets = t.writer.file]
    BY PacketWrites
  <2>3. SessionTrue(s)
    BY DEF DInv
  <2>4. /\ t.by = s.by /\ t.pcap = s.pcap /\ t.snapshot = s.snapshot
        /\ t = [by |-> t.by, id |-> t.id, pcap |-> t.pcap, snapshot |-> t.snapshot,
                writer |-> t.writer]
    BY <2>2
  <2>5. t.writer.file \in SUBSET Nat
    BY <2>2 DEF WriterTrue, Writers
  <2>6. disk' \in [DOMAIN disk' -> Files] /\ DOMAIN disk' = DOMAIN disk
    <3> DEFINE f == [disk[s.pcap] EXCEPT !.packets = t.writer.file]
    <3>1. f \in Files
      BY <1>1, <2>3, <2>5 DEF SessionTrue, Files
    <3>2. disk' = [disk EXCEPT ![s.pcap] = f]
      BY <2>2
    <3> HIDE DEF f
    <3> QED
      BY <1>1, <3>1, <3>2
  <2>7. /\ disk'[s.pcap].by = disk[s.pcap].by /\ disk'[s.pcap].packets = t.writer.file
        /\ \A p \in DOMAIN disk \ {s.pcap} : disk'[p] = disk[p]
    BY <1>1, <2>2, <2>3 DEF SessionTrue, Files
  <2>8. SessionTrue(t)'
    <3>1. disk'[t.snapshot] = disk[s.snapshot] /\ disk[s.snapshot] \in Files
      BY <1>1, <2>3, <2>4, <2>7 DEF SessionTrue
    <3>2. disk[s.snapshot].at \in Nat /\ disk[s.snapshot].at <= seen
      BY <2>3, <3>1 DEF SessionTrue, Files
    <3>3. disk'[t.snapshot].at <= seen'
      BY <1>1, <3>1, <3>2
    <3>4. /\ {t.pcap, t.snapshot} \subseteq DOMAIN disk' /\ t.pcap # t.snapshot
          /\ disk'[t.pcap].by = t.by /\ disk'[t.snapshot].by = t.by
          /\ disk'[t.pcap].packets = t.writer.file
      BY <2>3, <2>4, <2>6, <2>7, <3>1 DEF SessionTrue
    <3> QED
      BY <1>1, <2>2, <2>4, <3>1, <3>3, <3>4 DEF SessionTrue, WriterTrue, FirstInRing
  <2>9. ASSUME NEW e \in ended PROVE EndedTrue(e)'
    <3>1. EndedTrue(e) /\ e.session.by # s.by
      BY DEF DInv, EndedTrue
    <3>2. /\ e.session.by \in started' /\ e.session.pcap \in DOMAIN disk'
          /\ \A u \in session' : u.by # e.session.by
      BY <1>1, <2>2, <2>4, <2>6, <3>1 DEF EndedTrue
    <3>3. CASE e.session.pcap = s.pcap
      <4>1. disk'[e.session.pcap].by = s.by
        BY <2>3, <2>7, <3>3 DEF SessionTrue
      <4> QED
        BY <3>1, <3>2, <4>1 DEF EndedTrue
    <3>4. CASE e.session.pcap # s.pcap
      <4>1. disk'[e.session.pcap] = disk[e.session.pcap]
        BY <2>6, <2>7, <3>2, <3>4
      <4> QED
        BY <3>1, <3>2, <4>1 DEF EndedTrue
    <3> QED
      BY <3>3, <3>4
  <2>10. (\A e \in ended : EndedTrue(e))'
    BY <1>1, <2>9
  <2>11. (\A u \in session : SessionTrue(u))' /\ (\A u, v \in session : u = v)'
    BY <2>2, <2>8
  <2> QED
    BY <1>1, <1>2, <2>6, <2>10, <2>11 DEF DInv
<1> QED
  BY <1>3, <1>4

LEMMA StepDInv ==
  ASSUME IInv, DInv, [Next]_vars
  PROVE  DInv'
<1>1. ASSUME NEW c \in Commands, Ask(c) PROVE DInv'
  BY <1>1, AskDInv
<1>2. CASE Take
  BY <1>2, TakeDInv
<1>3. CASE Packet
  BY <1>3, PacketDInv
<1>4. CASE Receive \/ TimesOut \/ Opened \/ NoMoreCommands \/ NoPacket \/ DiskTurns \/ UNCHANGED vars
  BY <1>4, IdleDInv
<1> QED
  BY <1>1, <1>2, <1>3, <1>4 DEF Next, CaptureThread

(* The sessions and the files, wherever starts fail and whatever the disk  *)
(* does (capture.rs:84-145, 278-378).                                      *)
THEOREM FilesInductive == Spec => [](IInv /\ DInv)
<1>1. Init => IInv /\ DInv
  BY InitIInv, InitDInv
<1>2. IInv /\ DInv /\ [Next]_vars => IInv' /\ DInv'
  BY StepIInv, StepDInv
<1> QED
  BY <1>1, <1>2, PTL DEF Spec

(* A capture has the packets of the ring and every one since, in its pcap  *)
(* or its buffer, from the state its snapshot has; for rings, buffers and  *)
(* traffic of any length, until the disk refuses a packet                  *)
(* (capture.rs:4-8, 126-132, 318-343).                                     *)
THEOREM AlignedTheorem == Spec => []Aligned
<1>1. DInv => Aligned
  BY DEF DInv, SessionTrue, WriterTrue, Aligned
<1> QED
  BY <1>1, FilesInductive, PTL

(* A capture that was stopped stays on disk as it was counted, unless the  *)
(* disk was full or a later start was given its path                       *)
(* (capture.rs:134-145, 216-220).                                          *)
THEOREM StoppedIsOnDiskTheorem == Spec => []StoppedIsOnDisk
<1>1. DInv => StoppedIsOnDisk
  BY DEF DInv, EndedTrue, StoppedIsOnDisk
<1> QED
  BY <1>1, FilesInductive, PTL

(* No step takes a packet from the files of a session that runs, or gives  *)
(* them to another one (capture.rs:285-287 before 308).                    *)
THEOREM RunningFilesKeptTheorem == Spec => RunningFilesKept
<1> DEFINE Kept ==
      \A s \in session, t \in session' :
        s.by = t.by =>
          /\ disk[s.pcap].packets \subseteq disk'[s.pcap].packets
          /\ disk'[s.pcap].by = s.by
          /\ disk'[s.snapshot] = disk[s.snapshot]
<1>1. ASSUME IInv, DInv, [Next]_vars
      PROVE  Kept
  <2> SUFFICES ASSUME NEW s \in session, NEW t \in session'
               PROVE  /\ disk[s.pcap].packets \subseteq disk'[s.pcap].packets
                      /\ disk'[s.pcap].by = s.by
                      /\ disk'[s.snapshot] = disk[s.snapshot]
    OBVIOUS
  <2>1. SessionTrue(s) /\ disk \in [DOMAIN disk -> Files]
    BY <1>1 DEF DInv
  <2>2. CASE UNCHANGED disk
    BY <2>1, <2>2 DEF SessionTrue
  <2>3. CASE Packet
    <3>1. PICK u : /\ s.writer.file \subseteq u.writer.file
                   /\ disk' = [disk EXCEPT ![s.pcap].packets = u.writer.file]
      BY <1>1, <2>3, PacketWrites
    <3>2. {s.pcap, s.snapshot} \subseteq DOMAIN disk /\ s.pcap # s.snapshot
      BY <2>1 DEF SessionTrue
    <3>3. /\ disk'[s.pcap].by = disk[s.pcap].by /\ disk'[s.pcap].packets = u.writer.file
          /\ disk'[s.snapshot] = disk[s.snapshot]
      BY <2>1, <3>1, <3>2 DEF Files
    <3> QED
      BY <2>1, <3>1, <3>3 DEF SessionTrue
  <2>4. CASE Take
    <3>1. session # {} /\ session' # {}
      OBVIOUS
    <3> DEFINE c == Head(channel)
    <3>2. Start(c) \/ Stop(c) \/ Health(c)
      BY <2>4 DEF Take
    <3> HIDE DEF c
    <3>3. UNCHANGED disk
      BY <3>1, <3>2 DEF Start, StartRefused, NoPcap, NoSnapshot, Started, Stop, Refuse, Health
    <3> QED
      BY <2>2, <3>3
  <2> QED
    BY <1>1, <2>2, <2>3, <2>4
    DEF Next, CaptureThread, Ask, Receive, TimesOut, Opened, NoMoreCommands, NoPacket,
        DiskTurns, vars, capture
<1>2. IInv /\ DInv /\ [Next]_vars => [Kept]_vars
  BY <1>1
<1> QED
  BY <1>2, FilesInductive, PTL DEF Spec, RunningFilesKept

(* What the two threads hold; that no session is without its files, and no *)
(* buffer holds more than fits (capture.rs:108-132, api.rs:83-109).        *)
THEOREM TypeTheorem == Spec => []TypeOK
<1>1. ASSUME IInv, DInv PROVE TypeOK
  <2>1. asked \in 0..MaxRequests /\ thread \in {"starting", "gone", "commands", "packets"}
        /\ seen \in 0..MaxPackets /\ full \in BOOLEAN
    BY <1>1 DEF DInv, Bounded
  <2>2. Cardinality(request) <= 1
    <3>1. CASE request = {}
      BY <3>1, FS_EmptySet
    <3>2. ASSUME NEW c \in request PROVE Cardinality(request) = 1
      <4>1. request = {c}
        BY <1>1, <3>2 DEF DInv, Bounded
      <4> QED
        BY <4>1, FS_Singleton
    <3> QED
      BY <3>1, <3>2
  <2>3. Cardinality(session) <= 1
    <3>1. CASE session = {}
      BY <3>1, FS_EmptySet
    <3>2. ASSUME NEW s \in session PROVE Cardinality(session) = 1
      <4>1. session = {s}
        BY <1>1, <3>2 DEF DInv
      <4> QED
        BY <4>1, FS_Singleton
    <3> QED
      BY <3>1, <3>2
  <2>4. \A i \in DOMAIN channel : channel[i].id \in Ids
    BY <1>1 DEF IInv, Typed, QueueInOrder, InQueue
  <2>5. \A r \in replies : r.of \in Ids /\ r.ok \in BOOLEAN
    BY <1>1 DEF IInv, Typed, RepliesTrue
  <2>6. \A i \in Ids : answers[i].code \in {0, 200, 409, 503, 504}
    <3>1. \A i \in Ids : answers[i] \in AllAnswers
      BY <1>1 DEF IInv, Typed, Ids
    <3> QED
      BY <3>1 DEF AllAnswers
  <2>7. \A s \in session :
          /\ {s.pcap, s.snapshot} \subseteq DOMAIN disk
          /\ Cardinality(s.writer.buffer) <= BufferPackets
    BY <1>1 DEF DInv, SessionTrue, WriterTrue
  <2>8. started \subseteq Ids /\ Len(answers) = asked /\ \A c \in request : c.id \in Ids
    BY <1>1 DEF IInv, Typed, ActedOnTaken, Acted
  <2> QED
    BY <2>1, <2>2, <2>3, <2>4, <2>5, <2>6, <2>7, <2>8 DEF TypeOK
<1> QED
  BY <1>1, FilesInductive, PTL
=============================================================================
