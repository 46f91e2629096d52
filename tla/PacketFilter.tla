------------------------------ MODULE PacketFilter ------------------------------
(***************************************************************************)
(* Which packets reach the tracker: the classic BPF program that           *)
(* build_filter makes of the port list (crates/h2tapd/src/sock.rs), the    *)
(* packet parser in user space (crates/h2core/src/pkt.rs) and the port     *)
(* test of the capture loop, one packet after the other.                   *)
(*                                                                         *)
(* A packet is a record of the fields either side looks at and of the      *)
(* lengths that are claimed and captured.  The program counter counts from *)
(* one; offsets into a packet are those of the code.                       *)
(***************************************************************************)
EXTENDS Integers, Sequences, FiniteSets, SequencesExt

CONSTANTS
  MaxFilterPorts,   \* MAX_FILTER_PORTS
  PortCounts,       \* how long --ports may be
  Packets           \* what may pass the interface

ETHERTYPE_IPV4 == 2048
ETHERTYPE_IPV6 == 34525
ETHERTYPE_VLAN == 33024
ETHERTYPE_QINQ == 34984
IPPROTO_TCP == 6

Tags == {ETHERTYPE_VLAN, ETHERTYPE_QINQ}

(* tags: VLAN tags in front; frag: flags and fragment offset of IPv4; ext: *)
(* the IPv6 extension headers, each [typ, units] and units * 8 octets      *)
(* long; total: IPv4's total length or IPv6's payload length; doff: the    *)
(* TCP header's length in words; rest: what any other field holds; len:    *)
(* octets captured.                                                        *)
PacketFields ==
  {"tags", "ethertype", "version", "ihl", "frag", "proto", "ext", "total",
   "sport", "dport", "doff", "rest", "len"}

ASSUME PacketAssumption ==
  /\ MaxFilterPorts \in Nat
  /\ PortCounts \subseteq Nat
  /\ Packets # {}
  /\ \A p \in Packets :
       /\ DOMAIN p = PacketFields
       /\ p.tags \in Seq(Tags) /\ p.ethertype \in Nat \ Tags
       /\ {p.version, p.ihl, p.doff} \subseteq 0..15
       /\ {p.frag, p.proto, p.total, p.sport, p.dport, p.rest, p.len} \subseteq Nat
       /\ p.ext # <<>> => p.ethertype = ETHERTYPE_IPV6
       /\ p.ext \in Seq([typ: 0..255, units: 1..256])

VARIABLES
  count,      \* how many ports are watched: Port(1) to Port(count)
  attached,   \* PacketSocket.filtered_in_kernel
  stage,      \* where the packet is: "none", "kernel", "user" or "done"
  packet,
  pc, a, x,   \* of the program
  taken       \* the packet went to the session, the ring and the tracker

registers == <<pc, a, x>>
vars == <<count, attached, stage, packet, pc, a, x, taken>>

Port(i) == 1000 + i
Watched == {Port(i) : i \in 1..count}

-----------------------------------------------------------------------------
(* build_filter.  A target is the place of an instruction.                 *)

Ins(code, k, jt, jf) == [code |-> code, k |-> k, jt |-> jt, jf |-> jf]

V4Start == 6
V6Start(n) == V4Start + 8 + 2 * n
AcceptAt(n) == V6Start(n) + 5 + 2 * n

(* A verdict placed one further than it is.                                *)
DropAtBeyond(n) == AcceptAt(n) + 2

DropAt(n) == AcceptAt(n) + 1

(* A load at place i, and a jump to Drop that is not conditional.          *)
Load(code, off, i) == Ins(code, off, i + 1, i + 1)

(* Comparisons that have all failed, and end at the other verdict.         *)
OtherwiseAccepted(n) == Ins("ja", 0, AcceptAt(n), AcceptAt(n))

Otherwise(n) == Ins("ja", 0, DropAt(n), DropAt(n))

(* The comparisons with each port, from place i on.                        *)
PortTests(n, i) == [j \in 1..n |-> Ins("jeq", Port(j), AcceptAt(n), i + j)]

Dispatch(n) ==
  << Load("ldh", 12, 1),
     Ins("jeq", ETHERTYPE_IPV4, V4Start, 3),
     Ins("jeq", ETHERTYPE_IPV6, V6Start(n), 4),
     Ins("jeq", ETHERTYPE_VLAN, AcceptAt(n), 5),
     Ins("jeq", ETHERTYPE_QINQ, AcceptAt(n), DropAt(n)) >>

Ipv4Program(n) ==
  << Load("ldb", 23, V4Start),
     Ins("jeq", IPPROTO_TCP, V4Start + 2, DropAt(n)),
     Load("ldh", 20, V4Start + 2),
     Ins("jset", 16383, DropAt(n), V4Start + 4),
     Load("ldxmsh", 14, V4Start + 4),
     Load("ldhx", 14, V4Start + 5) >>
  \o PortTests(n, V4Start + 6)
  \o << Load("ldhx", 16, V4Start + 6 + n) >>
  \o PortTests(n, V4Start + 7 + n)
  \o << Otherwise(n) >>

Ipv6Program(n) ==
  << Load("ldb", 20, V6Start(n)),
     Ins("jeq", IPPROTO_TCP, V6Start(n) + 2, DropAt(n)),
     Load("ldh", 54, V6Start(n) + 2) >>
  \o PortTests(n, V6Start(n) + 3)
  \o << Load("ldh", 56, V6Start(n) + 3 + n) >>
  \o PortTests(n, V6Start(n) + 4 + n)
  \o << Otherwise(n) >>

Verdicts(n) == << Ins("accept", 0, 0, 0), Ins("drop", 0, 0, 0) >>

Program ==
  [n \in PortCounts |-> Dispatch(n) \o Ipv4Program(n) \o Ipv6Program(n) \o Verdicts(n)]

(* The one octet a conditional jump has for its distance.                  *)
Distance(target, here) == (target - here - 1) % 256

(* A limit that lets in lists too long to jump over.                       *)
FilterUsedPastLimit(n) == n # 0 /\ n <= MaxFilterPorts + 4

(* open() asks for the filter; the kernel may refuse it.                   *)
FilterUsed(n) == n # 0 /\ n <= MaxFilterPorts

-----------------------------------------------------------------------------
(* The program as the kernel runs it: a load beyond the packet drops it.   *)

HeaderLen(p) == 4 * p.ihl

FirstHeader(p) == IF p.ext = <<>> THEN p.proto ELSE p.ext[1].typ

(* What is at an offset.  Of a tagged packet only offset 12 is looked at.  *)
Field(p, off) ==
  IF off = 12 THEN IF p.tags = <<>> THEN p.ethertype ELSE p.tags[1]
  ELSE IF p.ethertype = ETHERTYPE_IPV4
  THEN CASE off = 14 -> p.ihl
         [] off = 20 -> p.frag
         [] off = 23 -> p.proto
         [] p.ihl >= 5 /\ off = 14 + HeaderLen(p) -> p.sport
         [] p.ihl >= 5 /\ off = 16 + HeaderLen(p) -> p.dport
         [] OTHER -> p.rest
  ELSE CASE off = 20 -> FirstHeader(p)
         [] p.ext = <<>> /\ off = 54 -> p.sport
         [] p.ext = <<>> /\ off = 56 -> p.dport
         [] OTHER -> p.rest

Width(code) == IF code \in {"ldh", "ldhx"} THEN 2 ELSE 1

Offset(i) == IF i.code = "ldhx" THEN x + i.k ELSE i.k

(* k is a mask of low bits.                                                *)
Holds(i) == IF i.code = "jeq" THEN a = i.k ELSE a % (i.k + 1) # 0

Execute ==
  LET i == Program[count][pc]
      Go(target) == pc' = pc + 1 + Distance(target, pc)
      Verdict(s, t) == stage' = s /\ taken' = t /\ UNCHANGED registers
  IN  /\ stage = "kernel"
      /\ UNCHANGED <<count, attached, packet>>
      /\ \/ /\ i.code \in {"ldb", "ldh", "ldhx", "ldxmsh"}
            /\ IF Offset(i) + Width(i.code) > packet.len
               THEN Verdict("done", FALSE)
               ELSE /\ pc' = pc + 1
                    /\ a' = IF i.code = "ldxmsh" THEN a ELSE Field(packet, Offset(i))
                    /\ x' = IF i.code = "ldxmsh" THEN 4 * Field(packet, Offset(i)) ELSE x
                    /\ UNCHANGED <<stage, taken>>
         \/ /\ i.code \in {"jeq", "jset"}
            /\ Go(IF Holds(i) THEN i.jt ELSE i.jf)
            /\ UNCHANGED <<stage, taken, a, x>>
         \/ /\ i.code = "ja"
            /\ pc' = i.jt
            /\ UNCHANGED <<stage, taken, a, x>>
         \/ i.code = "accept" /\ Verdict("user", FALSE)
         \/ i.code = "drop" /\ Verdict("done", FALSE)

-----------------------------------------------------------------------------
(* parse_ethernet.                                                         *)

(* The octets of a packet from its network layer on.                       *)
IpLen(p) == p.len - 14 - 4 * Len(p.tags)

ParsesIpv4(p) ==
  /\ IpLen(p) >= 20 /\ p.version = 4
  /\ p.ihl >= 5 /\ IpLen(p) >= HeaderLen(p)
  /\ p.frag % 16384 = 0
  /\ p.proto = IPPROTO_TCP
  /\ p.total >= HeaderLen(p)

(* What the first k extension headers take.                                *)
ExtLen(p, k) == FoldLeft(LAMBDA n, e : n + 8 * e.units, 0, SubSeq(p.ext, 1, k))

Walked(p) == ExtLen(p, Len(p.ext))

ParsesIpv6(p) ==
  /\ IpLen(p) >= 40 /\ p.version = 6
  /\ \A k \in DOMAIN p.ext :
       /\ p.ext[k].typ \in {0, 43, 60, 135}
       /\ 40 + ExtLen(p, k - 1) + 2 <= IpLen(p)
  /\ Walked(p) <= p.total
  /\ p.proto = IPPROTO_TCP
  /\ 40 + Walked(p) <= IpLen(p)

(* What is captured and what is claimed of the TCP segment.                *)
TcpFits(p, ip) ==
  LET captured == IpLen(p) - ip.header
      claimed == p.total - ip.before
  IN  /\ captured >= 20 /\ claimed >= 20
      /\ 4 * p.doff >= 20 /\ 4 * p.doff <= claimed /\ 4 * p.doff <= captured

Parses(p) ==
  \/ /\ p.ethertype = ETHERTYPE_IPV4
     /\ ParsesIpv4(p)
     /\ TcpFits(p, [header |-> HeaderLen(p), before |-> HeaderLen(p)])
  \/ /\ p.ethertype = ETHERTYPE_IPV6
     /\ ParsesIpv6(p)
     /\ TcpFits(p, [header |-> 40 + Walked(p), before |-> Walked(p)])

Interesting(p) ==
  Parses(p) /\ (count = 0 \/ p.sport \in Watched \/ p.dport \in Watched)

-----------------------------------------------------------------------------
Open ==
  /\ stage = "none"
  /\ count \in PortCounts
  /\ attached \in {FALSE, FilterUsed(count)}

(* rx.next() of the capture loop, on a socket that is filtered or not.     *)
Arrive(p) ==
  /\ stage \in {"none", "done"}
  /\ packet' = p
  /\ stage' = IF attached THEN "kernel" ELSE "user"
  /\ pc' = 1 /\ a' = 0 /\ x' = 0
  /\ taken' = FALSE
  /\ UNCHANGED <<count, attached>>

Userspace ==
  /\ stage = "user"
  /\ stage' = "done"
  /\ taken' = Interesting(packet)
  /\ UNCHANGED <<count, attached, packet, registers>>

Init ==
  /\ Open
  /\ stage = "none"
  /\ packet \in {CHOOSE p \in Packets : TRUE}
  /\ pc = 1 /\ a = 0 /\ x = 0
  /\ taken = FALSE

Next == Execute \/ Userspace \/ \E p \in Packets : Arrive(p)

Spec == Init /\ [][Next]_vars

-----------------------------------------------------------------------------
(* Properties.                                                             *)

(* The program counter stays in the program, and a packet is before one of *)
(* its readers or past both.                                               *)
TypeOK ==
  /\ count \in PortCounts
  /\ attached => FilterUsed(count)
  /\ stage \in {"none", "kernel", "user", "done"}
  /\ packet \in Packets
  /\ pc \in DOMAIN Program[count]
  /\ a \in Nat /\ x \in 0..60
  /\ taken \in BOOLEAN

(* "A missing filter costs performance, never correctness" (sock.rs:59-60) *)
(* and "it only ever drops what userspace would also have dropped"         *)
(* (sock.rs:138-139): filtered or not, for every length of the port list,  *)
(* a packet is taken exactly if the parser and the port test take it.      *)
(* Packets with IPv6 extension headers are the exception: the program      *)
(* drops them (sock.rs:206).                                               *)
FilterInvisible ==
  stage = "done" /\ packet.ext = <<>> => taken = Interesting(packet)

(* "Uninteresting packets are discarded in the kernel" (sock.rs:8-10): the *)
(* program lets an untagged packet through for a watched port of TCP       *)
(* alone, and no fragment, whatever its lengths claim.                     *)
FilterSelective ==
  stage = "user" /\ attached /\ packet.tags = <<>> =>
    /\ packet.ethertype \in {ETHERTYPE_IPV4, ETHERTYPE_IPV6}
    /\ FirstHeader(packet) = IPPROTO_TCP
    /\ packet.ethertype = ETHERTYPE_IPV4 => packet.frag % 16384 = 0
    /\ {packet.sport, packet.dport, packet.rest} \cap Watched # {}
=============================================================================
