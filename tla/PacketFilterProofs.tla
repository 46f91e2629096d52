--------------------------- MODULE PacketFilterProofs ---------------------------
(***************************************************************************)
(* The filter for every packet and every length of the port list: what the *)
(* program knows of a packet at each of its instructions.                  *)
(***************************************************************************)
EXTENDS PacketFilter, SequenceTheorems, TLAPS

(* The longest conditional jump, from the dispatch to a verdict, fits into *)
(* its octet.                                                              *)
JumpsFit == 4 * MaxFilterPorts + 14 < 256

-----------------------------------------------------------------------------
(* What is known at an instruction.                                        *)

WatchedOf(n) == {Port(i) : i \in 1..n}

Wanted(p, n) == Parses(p) /\ (n = 0 \/ p.sport \in WatchedOf(n) \/ p.dport \in WatchedOf(n))

NoneOf(v, k) == \A j \in Nat : 1 <= j /\ j <= k => v # Port(j)

IsV4(p) == p.tags = <<>> /\ p.ethertype = ETHERTYPE_IPV4
TcpV4(p) == IsV4(p) /\ p.proto = IPPROTO_TCP
WholeV4(p) == TcpV4(p) /\ p.frag % 16384 = 0
Src4(p) == Field(p, 14 + HeaderLen(p))
Dst4(p) == Field(p, 16 + HeaderLen(p))

IsV6(p) == p.tags = <<>> /\ p.ethertype = ETHERTYPE_IPV6
TcpV6(p) == IsV6(p) /\ FirstHeader(p) = IPPROTO_TCP
Src6(p) == Field(p, 54)
Dst6(p) == Field(p, 56)

Accepted(p, n) ==
  \/ p.tags # <<>>
  \/ WholeV4(p) /\ (Src4(p) \in WatchedOf(n) \/ Dst4(p) \in WatchedOf(n))
  \/ TcpV6(p) /\ (Src6(p) \in WatchedOf(n) \/ Dst6(p) \in WatchedOf(n))

(* Rightly dropped, but for the exception of the property.                 *)
Dropped(p, n) == p.ext = <<>> => ~Wanted(p, n)

InDispatch(p, n, i, av, xv) ==
  \/ i = 1
  \/ i = 2 /\ av = Field(p, 12)
  \/ i = 3 /\ av = Field(p, 12) /\ av # ETHERTYPE_IPV4
  \/ i = 4 /\ av = Field(p, 12) /\ av # ETHERTYPE_IPV4 /\ av # ETHERTYPE_IPV6
  \/ i = 5 /\ av = Field(p, 12) /\ av # ETHERTYPE_IPV4 /\ av # ETHERTYPE_IPV6
     /\ av # ETHERTYPE_VLAN

InIpv4(p, n, i, av, xv) ==
  \/ i = 6 /\ IsV4(p)
  \/ i = 7 /\ IsV4(p) /\ av = p.proto
  \/ i = 8 /\ TcpV4(p)
  \/ i = 9 /\ TcpV4(p) /\ av = p.frag
  \/ i = 10 /\ WholeV4(p)
  \/ i = 11 /\ WholeV4(p) /\ xv = HeaderLen(p)

InSrc4(p, n, i, av, xv) ==
  \E j \in Nat : /\ 1 <= j /\ j <= n /\ i = 11 + j
                 /\ WholeV4(p) /\ xv = HeaderLen(p)
                 /\ av = Src4(p) /\ NoneOf(Src4(p), j - 1)

BetweenV4(p, n, i, av, xv) ==
  i = 12 + n /\ WholeV4(p) /\ xv = HeaderLen(p) /\ NoneOf(Src4(p), n)

InDst4(p, n, i, av, xv) ==
  \E j \in Nat : /\ 1 <= j /\ j <= n /\ i = 12 + n + j
                 /\ WholeV4(p) /\ NoneOf(Src4(p), n)
                 /\ av = Dst4(p) /\ NoneOf(Dst4(p), j - 1)

AfterV4(p, n, i, av, xv) ==
  i = 13 + 2 * n /\ WholeV4(p) /\ NoneOf(Src4(p), n) /\ NoneOf(Dst4(p), n)

InIpv6(p, n, i, av, xv) ==
  \/ i = 14 + 2 * n /\ IsV6(p)
  \/ i = 15 + 2 * n /\ IsV6(p) /\ av = FirstHeader(p)
  \/ i = 16 + 2 * n /\ TcpV6(p)

InSrc6(p, n, i, av, xv) ==
  \E j \in Nat : /\ 1 <= j /\ j <= n /\ i = 16 + 2 * n + j
                 /\ TcpV6(p) /\ av = Src6(p) /\ NoneOf(Src6(p), j - 1)

BetweenV6(p, n, i, av, xv) ==
  i = 17 + 3 * n /\ TcpV6(p) /\ NoneOf(Src6(p), n)

InDst6(p, n, i, av, xv) ==
  \E j \in Nat : /\ 1 <= j /\ j <= n /\ i = 17 + 3 * n + j
                 /\ TcpV6(p) /\ NoneOf(Src6(p), n)
                 /\ av = Dst6(p) /\ NoneOf(Dst6(p), j - 1)

AfterV6(p, n, i, av, xv) ==
  i = 18 + 4 * n /\ TcpV6(p) /\ NoneOf(Src6(p), n) /\ NoneOf(Dst6(p), n)

AtVerdict(p, n, i, av, xv) ==
  \/ i = 19 + 4 * n /\ Accepted(p, n)
  \/ i = 20 + 4 * n /\ Dropped(p, n)

Located(p, n, i, av, xv) ==
  \/ InDispatch(p, n, i, av, xv) \/ AtVerdict(p, n, i, av, xv)
  \/ InIpv4(p, n, i, av, xv) \/ InSrc4(p, n, i, av, xv) \/ BetweenV4(p, n, i, av, xv)
  \/ InDst4(p, n, i, av, xv) \/ AfterV4(p, n, i, av, xv)
  \/ InIpv6(p, n, i, av, xv) \/ InSrc6(p, n, i, av, xv) \/ BetweenV6(p, n, i, av, xv)
  \/ InDst6(p, n, i, av, xv) \/ AfterV6(p, n, i, av, xv)

FInv ==
  /\ TypeOK
  /\ stage = "kernel" => attached /\ Located(packet, count, pc, a, x)
  /\ stage = "user" /\ attached => Accepted(packet, count)
  /\ stage = "done" /\ packet.ext = <<>> => taken = Interesting(packet)

-----------------------------------------------------------------------------
(* The program, instruction by instruction.                                *)

Codes == {"ldb", "ldh", "ldhx", "ldxmsh", "jeq", "jset", "ja", "accept", "drop"}

Instructions == [code : Codes, k : Int, jt : Int, jf : Int]

LEMMA InsIs ==
  ASSUME NEW k \in Int, NEW jt \in Int, NEW jf \in Int
  PROVE  \A code \in Codes : Ins(code, k, jt, jf) \in Instructions
BY DEF Ins, Instructions

Piece(s, m) == s \in Seq(Instructions) /\ m \in Nat /\ Len(s) = m

Joined(r, s, t, m, k) ==
  /\ Piece(r, m + k)
  /\ \A i \in Nat : 1 <= i /\ i <= m => r[i] = s[i]
  /\ \A j \in Nat : 1 <= j /\ j <= k => r[m + j] = t[j]

LEMMA ConcatIs ==
  ASSUME NEW s, NEW t, NEW r, r = s \o t, NEW m, NEW k, Piece(s, m), Piece(t, k)
  PROVE  Joined(r, s, t, m, k)
<1>1. /\ s \in Seq(Instructions) /\ t \in Seq(Instructions)
      /\ m \in Nat /\ m = Len(s) /\ k \in Nat /\ k = Len(t)
  BY DEF Piece
<1>2. /\ r \in Seq(Instructions)
      /\ Len(r) = m + k
      /\ \A i \in 1..(m + k) : r[i] = IF i <= m THEN s[i] ELSE t[i - m]
  BY <1>1, ConcatProperties
<1>3. ASSUME NEW j \in Nat, 1 <= j, j <= k PROVE r[m + j] = t[j]
  <2>1. m + j \in 1..(m + k) /\ ~(m + j <= m) /\ (m + j) - m = j
    BY <1>1, <1>3
  <2>2. r[m + j] = t[(m + j) - m]
    BY <1>2, <2>1
  <2> QED
    BY <2>1, <2>2
<1> QED
  BY <1>1, <1>2, <1>3 DEF Piece, Joined

LEMMA OneIs ==
  ASSUME NEW e \in Instructions
  PROVE  Piece(<<e>>, 1) /\ <<e>>[1] = e
BY DEF Piece

PortTest(s, n, i, acc) ==
  \A j \in Nat : 1 <= j /\ j <= n => s[j] = Ins("jeq", Port(j), acc, i + j)

LEMMA PortTestsAre ==
  ASSUME NEW n \in Nat, NEW i \in Int, NEW s, s = PortTests(n, i),
         NEW acc, acc = AcceptAt(n)
  PROVE  Piece(s, n) /\ PortTest(s, n, i, acc)
<1>1. \A j \in 1..n : Ins("jeq", Port(j), AcceptAt(n), i + j) \in Instructions
  BY InsIs DEF Port, AcceptAt, V6Start, V4Start, Codes
<1>2. PortTests(n, i) \in [1..n -> Instructions]
  BY <1>1 DEF PortTests
<1> QED
  BY <1>2 DEF PortTests, PortTest, Piece

DispatchAt(g, n) ==
  /\ g[1] = Ins("ldh", 12, 2, 2)
  /\ g[2] = Ins("jeq", ETHERTYPE_IPV4, 6, 3)
  /\ g[3] = Ins("jeq", ETHERTYPE_IPV6, 14 + 2 * n, 4)
  /\ g[4] = Ins("jeq", ETHERTYPE_VLAN, 19 + 4 * n, 5)
  /\ g[5] = Ins("jeq", ETHERTYPE_QINQ, 19 + 4 * n, 20 + 4 * n)

LEMMA DispatchIs ==
  ASSUME NEW n \in Nat
  PROVE  Piece(Dispatch(n), 5) /\ DispatchAt(Dispatch(n), n)
<1>1. /\ V4Start = 6 /\ V6Start(n) = 14 + 2 * n /\ AcceptAt(n) = 19 + 4 * n
      /\ DropAt(n) = 20 + 4 * n
  BY DEF V4Start, V6Start, AcceptAt, DropAt
<1>2. /\ Ins("ldh", 12, 2, 2) \in Instructions
      /\ Ins("jeq", ETHERTYPE_IPV4, 6, 3) \in Instructions
      /\ Ins("jeq", ETHERTYPE_IPV6, 14 + 2 * n, 4) \in Instructions
      /\ Ins("jeq", ETHERTYPE_VLAN, 19 + 4 * n, 5) \in Instructions
      /\ Ins("jeq", ETHERTYPE_QINQ, 19 + 4 * n, 20 + 4 * n) \in Instructions
  BY InsIs DEF ETHERTYPE_IPV4, ETHERTYPE_IPV6, ETHERTYPE_VLAN, ETHERTYPE_QINQ, Codes
<1> QED
  BY <1>1, <1>2 DEF Dispatch, Load, Piece, DispatchAt

LEMMA VerdictsAre ==
  ASSUME NEW n \in Nat
  PROVE  /\ Verdicts(n) \in Seq(Instructions) /\ Len(Verdicts(n)) = 2
         /\ Verdicts(n)[1].code = "accept" /\ Verdicts(n)[2].code = "drop"
<1>1. Ins("accept", 0, 0, 0) \in Instructions /\ Ins("drop", 0, 0, 0) \in Instructions
  BY InsIs DEF Codes
<1>2. Ins("accept", 0, 0, 0).code = "accept" /\ Ins("drop", 0, 0, 0).code = "drop"
  BY DEF Ins
<1> QED
  BY <1>1, <1>2 DEF Verdicts

(* acc and drop are the places of the verdicts.                            *)
Ipv4Code(q, n, acc, drop) ==
  /\ Piece(q, 8 + 2 * n)
  /\ q[1] = Ins("ldb", 23, 7, 7)
  /\ q[2] = Ins("jeq", IPPROTO_TCP, 8, drop)
  /\ q[3] = Ins("ldh", 20, 9, 9)
  /\ q[4] = Ins("jset", 16383, drop, 10)
  /\ q[5] = Ins("ldxmsh", 14, 11, 11)
  /\ q[6] = Ins("ldhx", 14, 12, 12)
  /\ \A j \in Nat : 1 <= j /\ j <= n => q[6 + j] = Ins("jeq", Port(j), acc, 12 + j)
  /\ q[7 + n] = Ins("ldhx", 16, 13 + n, 13 + n)
  /\ \A j \in Nat : 1 <= j /\ j <= n => q[7 + n + j] = Ins("jeq", Port(j), acc, 13 + n + j)
  /\ q[8 + 2 * n] = Ins("ja", 0, drop, drop)

LEMMA Ipv4Is ==
  ASSUME NEW n \in Nat, NEW q, q = Ipv4Program(n),
         NEW acc \in Int, acc = AcceptAt(n), NEW drop \in Int, drop = DropAt(n)
  PROVE  Ipv4Code(q, n, acc, drop)
<1>1. PICK e1, e2, e3, e4, e5, e6 \in Instructions :
        /\ e1 = Ins("ldb", 23, 7, 7)
        /\ e2 = Ins("jeq", IPPROTO_TCP, 8, drop)
        /\ e3 = Ins("ldh", 20, 9, 9)
        /\ e4 = Ins("jset", 16383, drop, 10)
        /\ e5 = Ins("ldxmsh", 14, 11, 11)
        /\ e6 = Ins("ldhx", 14, 12, 12)
  BY InsIs DEF IPPROTO_TCP, Codes
<1>2. PICK h : h = <<e1, e2, e3, e4, e5, e6>>
  OBVIOUS
<1>3. /\ Piece(h, 6)
      /\ h[1] = e1 /\ h[2] = e2 /\ h[3] = e3 /\ h[4] = e4 /\ h[5] = e5 /\ h[6] = e6
  BY <1>2 DEF Piece
<1>4. PICK a1, a2 \in Int : a1 = 12 /\ a2 = 13 + n
  OBVIOUS
<1>5. PICK s, t : s = PortTests(n, a1) /\ t = PortTests(n, a2)
  OBVIOUS
<1>6. Piece(s, n) /\ PortTest(s, n, a1, acc)
  BY <1>5, PortTestsAre
<1>7. Piece(t, n) /\ PortTest(t, n, a2, acc)
  BY <1>5, PortTestsAre
<1>8. PICK m, o \in Instructions : m = Ins("ldhx", 16, a2, a2) /\ o = Ins("ja", 0, drop, drop)
  BY InsIs DEF Codes
<1>9. PICK b, z : b = <<m>> /\ z = <<o>> /\ Piece(b, 1) /\ b[1] = m /\ Piece(z, 1) /\ z[1] = o
  BY OneIs
<1>10. PICK q1, q2, q3 : q1 = h \o s /\ q2 = q1 \o b /\ q3 = q2 \o t
  OBVIOUS
<1>11. q = q3 \o z
  <2>1. /\ V4Start = 6 /\ V4Start + 6 = a1 /\ V4Start + 7 + n = a2 /\ V4Start + 6 + n + 1 = a2
        /\ V4Start + 1 = 7 /\ V4Start + 2 = 8 /\ V4Start + 2 + 1 = 9 /\ V4Start + 4 = 10
        /\ V4Start + 4 + 1 = 11 /\ V4Start + 5 + 1 = 12
    BY <1>4 DEF V4Start
  <2>2. /\ e1 = Load("ldb", 23, V4Start)
        /\ e2 = Ins("jeq", IPPROTO_TCP, V4Start + 2, DropAt(n))
        /\ e3 = Load("ldh", 20, V4Start + 2)
        /\ e4 = Ins("jset", 16383, DropAt(n), V4Start + 4)
        /\ e5 = Load("ldxmsh", 14, V4Start + 4)
        /\ e6 = Load("ldhx", 14, V4Start + 5)
        /\ s = PortTests(n, V4Start + 6) /\ t = PortTests(n, V4Start + 7 + n)
        /\ m = Load("ldhx", 16, V4Start + 6 + n)
        /\ o = Otherwise(n)
    BY <1>1, <1>4, <1>5, <1>8, <2>1 DEF Load, Otherwise
  <2> QED
    BY <1>2, <1>9, <1>10, <2>2 DEF Ipv4Program
<1>12. Joined(q1, h, s, 6, n)
  BY <1>3, <1>6, <1>10, ConcatIs
<1>13. Joined(q2, q1, b, 6 + n, 1)
  <2>1. Piece(q1, 6 + n)
    BY <1>12 DEF Joined
  <2> QED
    BY <1>9, <1>10, <2>1, ConcatIs
<1>14. Joined(q3, q2, t, 7 + n, n)
  <2>1. Piece(q2, 7 + n)
    BY <1>13 DEF Joined, Piece
  <2> QED
    BY <1>7, <1>10, <2>1, ConcatIs
<1>15. Joined(q, q3, z, 7 + 2 * n, 1)
  <2>1. Piece(q3, 7 + 2 * n)
    BY <1>14 DEF Joined, Piece
  <2> QED
    BY <1>9, <1>11, <2>1, ConcatIs
<1>16. Piece(q, 8 + 2 * n)
  BY <1>15 DEF Joined, Piece
<1>17. ASSUME NEW i \in Nat, 1 <= i, i <= 6 PROVE q[i] = h[i]
  BY <1>12, <1>13, <1>14, <1>15, <1>17 DEF Joined
<1>18. ASSUME NEW j \in Nat, 1 <= j, j <= n PROVE q[6 + j] = s[j]
  <2>1. 6 + j \in Nat /\ 1 <= 6 + j /\ 6 + j <= 6 + n
    BY <1>18
  <2>2. q[6 + j] = q1[6 + j]
    BY <1>13, <1>14, <1>15, <2>1 DEF Joined
  <2> QED
    BY <1>12, <1>18, <2>2 DEF Joined
<1>19. q[7 + n] = m
  <2>1. q2[(6 + n) + 1] = m
    BY <1>9, <1>13 DEF Joined
  <2>2. q[7 + n] = q2[7 + n] /\ (6 + n) + 1 = 7 + n
    BY <1>14, <1>15 DEF Joined
  <2> QED
    BY <2>1, <2>2
<1>20. ASSUME NEW j \in Nat, 1 <= j, j <= n PROVE q[7 + n + j] = t[j]
  <2>1. (7 + n) + j \in Nat /\ 1 <= (7 + n) + j /\ (7 + n) + j <= 7 + 2 * n
    BY <1>20
  <2>2. q[(7 + n) + j] = q3[(7 + n) + j]
    BY <1>15, <2>1 DEF Joined
  <2> QED
    BY <1>14, <1>20, <2>2 DEF Joined
<1>21. q[8 + 2 * n] = o
  <2>1. q[(7 + 2 * n) + 1] = z[1]
    BY <1>15 DEF Joined
  <2> QED
    BY <1>9, <2>1
<1>22. /\ q[1] = h[1] /\ q[2] = h[2] /\ q[3] = h[3] /\ q[4] = h[4] /\ q[5] = h[5] /\ q[6] = h[6]
  BY <1>17
<1>23. ASSUME NEW j \in Nat, 1 <= j, j <= n PROVE q[6 + j] = Ins("jeq", Port(j), acc, 12 + j)
  BY <1>4, <1>6, <1>18, <1>23 DEF PortTest
<1>24. ASSUME NEW j \in Nat, 1 <= j, j <= n
       PROVE  q[7 + n + j] = Ins("jeq", Port(j), acc, 13 + n + j)
  BY <1>4, <1>7, <1>20, <1>24 DEF PortTest
<1> QED
  BY <1>1, <1>3, <1>4, <1>8, <1>16, <1>19, <1>21, <1>22, <1>23, <1>24 DEF Ipv4Code

Ipv6Code(q, n, acc, drop) ==
  /\ Piece(q, 5 + 2 * n)
  /\ q[1] = Ins("ldb", 20, 15 + 2 * n, 15 + 2 * n)
  /\ q[2] = Ins("jeq", IPPROTO_TCP, 16 + 2 * n, drop)
  /\ q[3] = Ins("ldh", 54, 17 + 2 * n, 17 + 2 * n)
  /\ \A j \in Nat : 1 <= j /\ j <= n =>
       q[3 + j] = Ins("jeq", Port(j), acc, 17 + 2 * n + j)
  /\ q[4 + n] = Ins("ldh", 56, 18 + 3 * n, 18 + 3 * n)
  /\ \A j \in Nat : 1 <= j /\ j <= n =>
       q[4 + n + j] = Ins("jeq", Port(j), acc, 18 + 3 * n + j)
  /\ q[5 + 2 * n] = Ins("ja", 0, drop, drop)

LEMMA Ipv6Is ==
  ASSUME NEW n \in Nat, NEW q, q = Ipv6Program(n),
         NEW acc \in Int, acc = AcceptAt(n), NEW drop \in Int, drop = DropAt(n)
  PROVE  Ipv6Code(q, n, acc, drop)
<1>1. PICK e1, e2, e3 \in Instructions :
        /\ e1 = Ins("ldb", 20, 15 + 2 * n, 15 + 2 * n)
        /\ e2 = Ins("jeq", IPPROTO_TCP, 16 + 2 * n, drop)
        /\ e3 = Ins("ldh", 54, 17 + 2 * n, 17 + 2 * n)
  BY InsIs DEF IPPROTO_TCP, Codes
<1>2. PICK h : h = <<e1, e2, e3>>
  OBVIOUS
<1>3. Piece(h, 3) /\ h[1] = e1 /\ h[2] = e2 /\ h[3] = e3
  BY <1>2 DEF Piece
<1>4. PICK a1, a2 \in Int : a1 = 17 + 2 * n /\ a2 = 18 + 3 * n
  OBVIOUS
<1>5. PICK s, t : s = PortTests(n, a1) /\ t = PortTests(n, a2)
  OBVIOUS
<1>6. Piece(s, n) /\ PortTest(s, n, a1, acc)
  BY <1>5, PortTestsAre
<1>7. Piece(t, n) /\ PortTest(t, n, a2, acc)
  BY <1>5, PortTestsAre
<1>8. PICK m, o \in Instructions : m = Ins("ldh", 56, a2, a2) /\ o = Ins("ja", 0, drop, drop)
  BY InsIs DEF Codes
<1>9. PICK b, z : b = <<m>> /\ z = <<o>> /\ Piece(b, 1) /\ b[1] = m /\ Piece(z, 1) /\ z[1] = o
  BY OneIs
<1>10. PICK q1, q2, q3 : q1 = h \o s /\ q2 = q1 \o b /\ q3 = q2 \o t
  OBVIOUS
<1>11. q = q3 \o z
  <2>1. PICK v \in Int : v = V6Start(n) /\ v = 14 + 2 * n
    BY DEF V6Start, V4Start
  <2>2. /\ e1 = Load("ldb", 20, v)
        /\ e2 = Ins("jeq", IPPROTO_TCP, v + 2, DropAt(n))
        /\ e3 = Load("ldh", 54, v + 2)
        /\ s = PortTests(n, v + 3) /\ t = PortTests(n, v + 4 + n)
        /\ m = Load("ldh", 56, v + 3 + n)
        /\ o = Otherwise(n)
    <3>1. /\ v + 1 = 15 + 2 * n /\ v + 2 = 16 + 2 * n /\ v + 2 + 1 = 17 + 2 * n
          /\ v + 3 = a1 /\ v + 4 + n = a2 /\ v + 3 + n + 1 = a2
      BY <1>4, <2>1
    <3> QED
      BY <1>1, <1>5, <1>8, <3>1 DEF Load, Otherwise
  <2> QED
    BY <1>2, <1>9, <1>10, <2>1, <2>2 DEF Ipv6Program
<1>12. Joined(q1, h, s, 3, n)
  BY <1>3, <1>6, <1>10, ConcatIs
<1>13. Joined(q2, q1, b, 3 + n, 1)
  <2>1. Piece(q1, 3 + n)
    BY <1>12 DEF Joined
  <2> QED
    BY <1>9, <1>10, <2>1, ConcatIs
<1>14. Joined(q3, q2, t, 4 + n, n)
  <2>1. Piece(q2, 4 + n)
    BY <1>13 DEF Joined, Piece
  <2> QED
    BY <1>7, <1>10, <2>1, ConcatIs
<1>15. Joined(q, q3, z, 4 + 2 * n, 1)
  <2>1. Piece(q3, 4 + 2 * n)
    BY <1>14 DEF Joined, Piece
  <2> QED
    BY <1>9, <1>11, <2>1, ConcatIs
<1>16. Piece(q, 5 + 2 * n)
  BY <1>15 DEF Joined, Piece
<1>17. ASSUME NEW i \in Nat, 1 <= i, i <= 3 PROVE q[i] = h[i]
  BY <1>12, <1>13, <1>14, <1>15, <1>17 DEF Joined
<1>18. ASSUME NEW j \in Nat, 1 <= j, j <= n PROVE q[3 + j] = s[j]
  <2>1. 3 + j \in Nat /\ 1 <= 3 + j /\ 3 + j <= 3 + n
    BY <1>18
  <2>2. q[3 + j] = q1[3 + j]
    BY <1>13, <1>14, <1>15, <2>1 DEF Joined
  <2> QED
    BY <1>12, <1>18, <2>2 DEF Joined
<1>19. q[4 + n] = m
  <2>1. q2[(3 + n) + 1] = m
    BY <1>9, <1>13 DEF Joined
  <2>2. q[4 + n] = q2[4 + n] /\ (3 + n) + 1 = 4 + n
    BY <1>14, <1>15 DEF Joined
  <2> QED
    BY <2>1, <2>2
<1>20. ASSUME NEW j \in Nat, 1 <= j, j <= n PROVE q[4 + n + j] = t[j]
  <2>1. (4 + n) + j \in Nat /\ 1 <= (4 + n) + j /\ (4 + n) + j <= 4 + 2 * n
    BY <1>20
  <2>2. q[(4 + n) + j] = q3[(4 + n) + j]
    BY <1>15, <2>1 DEF Joined
  <2> QED
    BY <1>14, <1>20, <2>2 DEF Joined
<1>21. q[5 + 2 * n] = o
  <2>1. q[(4 + 2 * n) + 1] = z[1]
    BY <1>15 DEF Joined
  <2> QED
    BY <1>9, <2>1
<1>22. q[1] = h[1] /\ q[2] = h[2] /\ q[3] = h[3]
  BY <1>17
<1>23. ASSUME NEW j \in Nat, 1 <= j, j <= n
       PROVE  q[3 + j] = Ins("jeq", Port(j), acc, 17 + 2 * n + j)
  BY <1>4, <1>6, <1>18, <1>23 DEF PortTest
<1>24. ASSUME NEW j \in Nat, 1 <= j, j <= n
       PROVE  q[4 + n + j] = Ins("jeq", Port(j), acc, 18 + 3 * n + j)
  BY <1>4, <1>7, <1>20, <1>24 DEF PortTest
<1> QED
  BY <1>1, <1>3, <1>4, <1>8, <1>16, <1>19, <1>21, <1>22, <1>23, <1>24 DEF Ipv6Code

(* The whole of it, in the order of the instructions.                      *)
Tests(g, n, i, acc) ==
  \A j \in Nat : 1 <= j /\ j <= n => g[i + j] = Ins("jeq", Port(j), acc, i + 1 + j)

Ipv4At(g, n) ==
  /\ g[6] = Ins("ldb", 23, 7, 7)
  /\ g[7] = Ins("jeq", IPPROTO_TCP, 8, 20 + 4 * n)
  /\ g[8] = Ins("ldh", 20, 9, 9)
  /\ g[9] = Ins("jset", 16383, 20 + 4 * n, 10)
  /\ g[10] = Ins("ldxmsh", 14, 11, 11)
  /\ g[11] = Ins("ldhx", 14, 12, 12)
  /\ Tests(g, n, 11, 19 + 4 * n)
  /\ g[12 + n] = Ins("ldhx", 16, 13 + n, 13 + n)
  /\ Tests(g, n, 12 + n, 19 + 4 * n)
  /\ g[13 + 2 * n] = Ins("ja", 0, 20 + 4 * n, 20 + 4 * n)

Ipv6At(g, n) ==
  /\ g[14 + 2 * n] = Ins("ldb", 20, 15 + 2 * n, 15 + 2 * n)
  /\ g[15 + 2 * n] = Ins("jeq", IPPROTO_TCP, 16 + 2 * n, 20 + 4 * n)
  /\ g[16 + 2 * n] = Ins("ldh", 54, 17 + 2 * n, 17 + 2 * n)
  /\ Tests(g, n, 16 + 2 * n, 19 + 4 * n)
  /\ g[17 + 3 * n] = Ins("ldh", 56, 18 + 3 * n, 18 + 3 * n)
  /\ Tests(g, n, 17 + 3 * n, 19 + 4 * n)
  /\ g[18 + 4 * n] = Ins("ja", 0, 20 + 4 * n, 20 + 4 * n)

VerdictsAt(g, n) ==
  g[19 + 4 * n].code = "accept" /\ g[20 + 4 * n].code = "drop"

LEMMA ProgramIs ==
  ASSUME NEW n \in PortCounts
  PROVE  /\ DOMAIN Program[n] = 1..(20 + 4 * n)
         /\ DispatchAt(Program[n], n) /\ Ipv4At(Program[n], n)
         /\ Ipv6At(Program[n], n) /\ VerdictsAt(Program[n], n)
<1>1. n \in Nat
  BY PacketAssumption
<1>2. PICK d, q, r, v : d = Dispatch(n) /\ q = Ipv4Program(n) /\ r = Ipv6Program(n) /\ v = Verdicts(n)
  OBVIOUS
<1>3. PICK g1, g2, g : g1 = d \o q /\ g2 = g1 \o r /\ g = g2 \o v
  OBVIOUS
<1>4. Program[n] = g
  BY <1>2, <1>3 DEF Program
<1>5. PICK acc, drop \in Int : /\ acc = AcceptAt(n) /\ acc = 19 + 4 * n
                               /\ drop = DropAt(n) /\ drop = 20 + 4 * n
  BY <1>1 DEF AcceptAt, DropAt, V6Start, V4Start
<1>6. Piece(d, 5) /\ Piece(v, 2)
  BY <1>1, <1>2, DispatchIs, VerdictsAre DEF Piece
<1>7. /\ Ipv4Code(q, n, acc, drop) /\ Ipv6Code(r, n, acc, drop)
      /\ Piece(q, 8 + 2 * n) /\ Piece(r, 5 + 2 * n)
  <2>1. Ipv4Code(q, n, acc, drop)
    BY <1>1, <1>2, <1>5, Ipv4Is
  <2>2. Ipv6Code(r, n, acc, drop)
    BY <1>1, <1>2, <1>5, Ipv6Is
  <2> QED
    BY <2>1, <2>2 DEF Ipv4Code, Ipv6Code
<1>8. Joined(g1, d, q, 5, 8 + 2 * n)
  BY <1>3, <1>6, <1>7, ConcatIs
<1>9. Joined(g2, g1, r, 13 + 2 * n, 5 + 2 * n)
  <2>1. Piece(g1, 13 + 2 * n)
    BY <1>1, <1>8 DEF Joined, Piece
  <2> QED
    BY <1>3, <1>7, <2>1, ConcatIs
<1>10. Joined(g, g2, v, 18 + 4 * n, 2)
  <2>1. Piece(g2, 18 + 4 * n)
    BY <1>1, <1>9 DEF Joined, Piece
  <2> QED
    BY <1>3, <1>6, <2>1, ConcatIs
<1>11. DOMAIN g = 1..(20 + 4 * n)
  BY <1>1, <1>10 DEF Joined, Piece
<1>12. ASSUME NEW i \in Nat, 1 <= i, i <= 5 PROVE g[i] = d[i]
  BY <1>1, <1>8, <1>9, <1>10, <1>12 DEF Joined
<1>13. ASSUME NEW i \in Nat, 1 <= i, i <= 8 + 2 * n PROVE g[5 + i] = q[i]
  <2>1. 5 + i \in Nat /\ 1 <= 5 + i /\ 5 + i <= 13 + 2 * n /\ 5 + i <= 18 + 4 * n
    BY <1>1, <1>13
  <2>2. g[5 + i] = g1[5 + i]
    BY <1>9, <1>10, <2>1 DEF Joined
  <2> QED
    BY <1>8, <1>13, <2>2 DEF Joined
<1>14. ASSUME NEW i \in Nat, 1 <= i, i <= 5 + 2 * n PROVE g[(13 + 2 * n) + i] = r[i]
  <2>1. (13 + 2 * n) + i \in Nat /\ 1 <= (13 + 2 * n) + i /\ (13 + 2 * n) + i <= 18 + 4 * n
    BY <1>1, <1>14
  <2>2. g[(13 + 2 * n) + i] = g2[(13 + 2 * n) + i]
    BY <1>10, <2>1 DEF Joined
  <2> QED
    BY <1>9, <1>14, <2>2 DEF Joined
<1>15. g[(18 + 4 * n) + 1] = v[1] /\ g[(18 + 4 * n) + 2] = v[2]
  BY <1>10 DEF Joined
<1>16. DispatchAt(g, n)
  <2>1. g[1] = d[1] /\ g[2] = d[2] /\ g[3] = d[3] /\ g[4] = d[4] /\ g[5] = d[5]
    BY <1>12
  <2>2. DispatchAt(d, n)
    BY <1>1, <1>2, DispatchIs
  <2> QED
    BY <2>1, <2>2 DEF DispatchAt
<1>17. Ipv4At(g, n)
  <2>1. /\ g[6] = q[1] /\ g[7] = q[2] /\ g[8] = q[3] /\ g[9] = q[4] /\ g[10] = q[5]
        /\ g[11] = q[6] /\ g[12 + n] = q[7 + n] /\ g[13 + 2 * n] = q[8 + 2 * n]
    <3>1. /\ g[5 + 1] = q[1] /\ g[5 + 2] = q[2] /\ g[5 + 3] = q[3] /\ g[5 + 4] = q[4]
          /\ g[5 + 5] = q[5] /\ g[5 + 6] = q[6]
          /\ g[5 + (7 + n)] = q[7 + n] /\ g[5 + (8 + 2 * n)] = q[8 + 2 * n]
      BY <1>1, <1>13
    <3>2. 5 + (7 + n) = 12 + n /\ 5 + (8 + 2 * n) = 13 + 2 * n
      BY <1>1
    <3> QED
      BY <3>1, <3>2
  <2>2. ASSUME NEW j \in Nat, 1 <= j, j <= n PROVE g[11 + j] = Ins("jeq", Port(j), acc, 11 + 1 + j)
    <3>1. g[5 + (6 + j)] = q[6 + j] /\ 5 + (6 + j) = 11 + j /\ 11 + 1 + j = 12 + j
      BY <1>1, <1>13, <2>2
    <3>2. q[6 + j] = Ins("jeq", Port(j), acc, 12 + j)
      BY <1>7, <2>2 DEF Ipv4Code
    <3> QED
      BY <3>1, <3>2
  <2>3. ASSUME NEW j \in Nat, 1 <= j, j <= n
        PROVE  g[12 + n + j] = Ins("jeq", Port(j), acc, 12 + n + 1 + j)
    <3>1. g[5 + (7 + n + j)] = q[7 + n + j] /\ 5 + (7 + n + j) = 12 + n + j
          /\ 12 + n + 1 + j = 13 + n + j
      BY <1>1, <1>13, <2>3
    <3>2. q[7 + n + j] = Ins("jeq", Port(j), acc, 13 + n + j)
      BY <1>7, <2>3 DEF Ipv4Code
    <3> QED
      BY <3>1, <3>2
  <2>4. Tests(g, n, 11, acc) /\ Tests(g, n, 12 + n, acc)
    BY <2>2, <2>3 DEF Tests
  <2> QED
    BY <1>5, <1>7, <2>1, <2>4 DEF Ipv4At, Ipv4Code
<1>18. Ipv6At(g, n)
  <2>1. /\ g[14 + 2 * n] = r[1] /\ g[15 + 2 * n] = r[2] /\ g[16 + 2 * n] = r[3]
        /\ g[17 + 3 * n] = r[4 + n] /\ g[18 + 4 * n] = r[5 + 2 * n]
    <3>1. /\ g[(13 + 2 * n) + 1] = r[1] /\ g[(13 + 2 * n) + 2] = r[2]
          /\ g[(13 + 2 * n) + 3] = r[3] /\ g[(13 + 2 * n) + (4 + n)] = r[4 + n]
          /\ g[(13 + 2 * n) + (5 + 2 * n)] = r[5 + 2 * n]
      BY <1>1, <1>14
    <3>2. /\ (13 + 2 * n) + 1 = 14 + 2 * n /\ (13 + 2 * n) + 2 = 15 + 2 * n
          /\ (13 + 2 * n) + 3 = 16 + 2 * n /\ (13 + 2 * n) + (4 + n) = 17 + 3 * n
          /\ (13 + 2 * n) + (5 + 2 * n) = 18 + 4 * n
      BY <1>1
    <3> QED
      BY <3>1, <3>2
  <2>2. ASSUME NEW j \in Nat, 1 <= j, j <= n
        PROVE  g[16 + 2 * n + j] = Ins("jeq", Port(j), acc, 16 + 2 * n + 1 + j)
    <3>1. g[(13 + 2 * n) + (3 + j)] = r[3 + j] /\ (13 + 2 * n) + (3 + j) = 16 + 2 * n + j
          /\ 16 + 2 * n + 1 + j = 17 + 2 * n + j
      BY <1>1, <1>14, <2>2
    <3>2. r[3 + j] = Ins("jeq", Port(j), acc, 17 + 2 * n + j)
      BY <1>7, <2>2 DEF Ipv6Code
    <3> QED
      BY <3>1, <3>2
  <2>3. ASSUME NEW j \in Nat, 1 <= j, j <= n
        PROVE  g[17 + 3 * n + j] = Ins("jeq", Port(j), acc, 17 + 3 * n + 1 + j)
    <3>1. g[(13 + 2 * n) + (4 + n + j)] = r[4 + n + j]
          /\ (13 + 2 * n) + (4 + n + j) = 17 + 3 * n + j
          /\ 17 + 3 * n + 1 + j = 18 + 3 * n + j
      BY <1>1, <1>14, <2>3
    <3>2. r[4 + n + j] = Ins("jeq", Port(j), acc, 18 + 3 * n + j)
      BY <1>7, <2>3 DEF Ipv6Code
    <3> QED
      BY <3>1, <3>2
  <2>4. Tests(g, n, 16 + 2 * n, acc) /\ Tests(g, n, 17 + 3 * n, acc)
    BY <2>2, <2>3 DEF Tests
  <2> QED
    BY <1>5, <1>7, <2>1, <2>4 DEF Ipv6At, Ipv6Code
<1>19. VerdictsAt(g, n)
  BY <1>1, <1>2, <1>15, VerdictsAre DEF VerdictsAt
<1> QED
  BY <1>4, <1>11, <1>16, <1>17, <1>18, <1>19

-----------------------------------------------------------------------------
(* Packets.                                                                *)

LEMMA PacketIs ==
  ASSUME NEW p \in Packets
  PROVE  /\ p.tags \in Seq(Tags) /\ p.ethertype \in Nat /\ p.ethertype \notin Tags
         /\ p.version \in 0..15 /\ p.ihl \in 0..15 /\ p.doff \in 0..15
         /\ p.frag \in Nat /\ p.proto \in Nat /\ p.total \in Nat
         /\ p.sport \in Nat /\ p.dport \in Nat /\ p.rest \in Nat /\ p.len \in Nat
         /\ p.ext # <<>> => p.ethertype = ETHERTYPE_IPV6
         /\ p.ext \in Seq([typ: 0..255, units: 1..256])
<1>1. /\ p.tags \in Seq(Tags) /\ p.ethertype \in Nat \ Tags
      /\ p.ext # <<>> => p.ethertype = ETHERTYPE_IPV6
      /\ p.ext \in Seq([typ: 0..255, units: 1..256])
  BY PacketAssumption
<1>2. {p.version, p.ihl, p.doff} \subseteq 0..15
  BY PacketAssumption
<1>3. {p.frag, p.proto, p.total, p.sport, p.dport, p.rest, p.len} \subseteq Nat
  BY PacketAssumption
<1>4. p.version \in 0..15 /\ p.ihl \in 0..15 /\ p.doff \in 0..15
  BY <1>2
<1>5. /\ p.frag \in Nat /\ p.proto \in Nat /\ p.total \in Nat
      /\ p.sport \in Nat /\ p.dport \in Nat /\ p.rest \in Nat /\ p.len \in Nat
  BY <1>3
<1> QED
  BY <1>1, <1>4, <1>5

LEMMA NumbersAre ==
  ASSUME NEW p \in Packets
  PROVE  /\ p.ihl \in Nat /\ p.ihl <= 15 /\ HeaderLen(p) \in Nat /\ HeaderLen(p) \in 0..60
         /\ p.frag \in Nat /\ p.proto \in Nat /\ p.len \in Nat
         /\ p.sport \in Nat /\ p.dport \in Nat /\ p.rest \in Nat
<1>1. PICK h : h = p.ihl
  OBVIOUS
<1>2. h \in 0..15
  BY <1>1, PacketIs
<1>3. 4 * h \in Nat /\ 4 * h \in 0..60 /\ h \in Nat /\ h <= 15
  BY <1>2
<1> QED
  BY <1>1, <1>3, PacketIs DEF HeaderLen

LEMMA FirstIs ==
  ASSUME NEW S, NEW s \in Seq(S), s # <<>>
  PROVE  s[1] \in S
<1>1. 1 \in 1..Len(s)
  BY EmptySeq
<1> QED
  BY <1>1, ElementOfSeq

LEMMA FirstHeaderIsNat ==
  ASSUME NEW p \in Packets
  PROVE  FirstHeader(p) \in Nat
<1>1. CASE p.ext = <<>>
  BY <1>1, PacketIs DEF FirstHeader
<1>2. CASE p.ext # <<>>
  <2>1. p.ext[1] \in [typ: 0..255, units: 1..256]
    <3>1. PICK E, s : E = [typ: 0..255, units: 1..256] /\ s = p.ext
      OBVIOUS
    <3>2. s \in Seq(E) /\ s # <<>>
      BY <1>2, <3>1, PacketIs
    <3>3. s[1] \in E
      BY <3>2, FirstIs
    <3> QED
      BY <3>1, <3>3
  <2>2. PICK e : e = p.ext[1]
    OBVIOUS
  <2>3. e.typ \in 0..255
    BY <2>1, <2>2
  <2>4. e.typ \in Nat
    BY <2>3
  <2> QED
    BY <1>2, <2>2, <2>4 DEF FirstHeader
<1> QED
  BY <1>1, <1>2

LEMMA TagIs ==
  ASSUME NEW p \in Packets, p.tags # <<>>
  PROVE  p.tags[1] \in Tags
BY PacketIs, FirstIs

(* What the program reads.                                                 *)
LEMMA FieldIs ==
  ASSUME NEW p \in Packets
  PROVE  /\ p.tags = <<>> => Field(p, 12) = p.ethertype
         /\ p.tags # <<>> => Field(p, 12) \in Tags
         /\ p.ethertype = ETHERTYPE_IPV4 =>
              /\ Field(p, 14) = p.ihl /\ Field(p, 20) = p.frag /\ Field(p, 23) = p.proto
              /\ p.ihl >= 5 => Src4(p) = p.sport /\ Dst4(p) = p.dport
              /\ p.ihl < 5 => {Src4(p), Dst4(p)} \subseteq {p.ihl, p.frag, p.rest}
         /\ p.ethertype # ETHERTYPE_IPV4 =>
              /\ Field(p, 20) = FirstHeader(p)
              /\ p.ext = <<>> => Src6(p) = p.sport /\ Dst6(p) = p.dport
              /\ p.ext # <<>> => Src6(p) = p.rest /\ Dst6(p) = p.rest
<1>1. p.ihl \in 0..15
  BY PacketIs
<1>2. /\ p.tags = <<>> => Field(p, 12) = p.ethertype
      /\ p.tags # <<>> => Field(p, 12) \in Tags
  BY TagIs DEF Field
<1>3. ASSUME p.ethertype = ETHERTYPE_IPV4
      PROVE  Field(p, 14) = p.ihl /\ Field(p, 20) = p.frag /\ Field(p, 23) = p.proto
  <2>1. PICK h \in Nat : h = HeaderLen(p) /\ (p.ihl >= 5 => h >= 20)
    BY <1>1 DEF HeaderLen
  <2>2. Field(p, 14) = p.ihl
    BY <1>3, <2>1 DEF Field
  <2>3. Field(p, 20) = p.frag
    BY <1>3, <2>1 DEF Field
  <2>4. Field(p, 23) = p.proto
    BY <1>3, <2>1 DEF Field
  <2> QED
    BY <2>2, <2>3, <2>4
<1>4. ASSUME p.ethertype = ETHERTYPE_IPV4, p.ihl >= 5
      PROVE  Src4(p) = p.sport /\ Dst4(p) = p.dport
  <2>1. PICK h \in Nat : h = HeaderLen(p) /\ h >= 20
    BY <1>1, <1>4 DEF HeaderLen
  <2>2. Field(p, 14 + h) = p.sport
    BY <1>4, <2>1 DEF Field
  <2>3. Field(p, 16 + h) = p.dport
    BY <1>4, <2>1 DEF Field
  <2> QED
    BY <2>1, <2>2, <2>3 DEF Src4, Dst4
<1>5. ASSUME p.ethertype = ETHERTYPE_IPV4, p.ihl < 5
      PROVE  Src4(p) \in {p.ihl, p.frag, p.rest} /\ Dst4(p) \in {p.ihl, p.frag, p.rest}
  <2>1. PICK h \in {0, 4, 8, 12, 16} : h = HeaderLen(p)
    BY <1>1, <1>5 DEF HeaderLen
  <2>3. ~(p.ihl >= 5)
    BY <1>1, <1>5
  <2>4. ASSUME NEW off \in {14, 16, 18, 20, 22, 24, 26, 28, 30, 32}
        PROVE  Field(p, off) \in {p.ihl, p.frag, p.rest}
    BY <1>5, <2>3, <2>4 DEF Field
  <2>5. 14 + h \in {14, 18, 22, 26, 30} /\ 16 + h \in {16, 20, 24, 28, 32}
    OBVIOUS
  <2>6. Field(p, 14 + h) \in {p.ihl, p.frag, p.rest}
        /\ Field(p, 16 + h) \in {p.ihl, p.frag, p.rest}
    BY <2>4, <2>5
  <2> QED
    BY <2>1, <2>6 DEF Src4, Dst4
<1>6. ASSUME p.ethertype # ETHERTYPE_IPV4
      PROVE  /\ Field(p, 20) = FirstHeader(p)
             /\ p.ext = <<>> => Src6(p) = p.sport /\ Dst6(p) = p.dport
             /\ p.ext # <<>> => Src6(p) = p.rest /\ Dst6(p) = p.rest
  BY <1>6 DEF Field, Src6, Dst6
<1> QED
  BY <1>2, <1>3, <1>4, <1>5, <1>6

LEMMA FieldsAreNat ==
  ASSUME NEW p \in Packets
  PROVE  /\ Field(p, 12) \in Nat
         /\ IsV4(p) => /\ {Field(p, 14), Field(p, 20), Field(p, 23)} \subseteq Nat
                       /\ Field(p, 14) \in 0..15
                       /\ Src4(p) \in Nat /\ Dst4(p) \in Nat
         /\ IsV6(p) => Field(p, 20) \in Nat /\ Src6(p) \in Nat /\ Dst6(p) \in Nat
<1>1. Field(p, 12) \in Nat
  BY FieldIs, PacketIs DEF Tags, ETHERTYPE_VLAN, ETHERTYPE_QINQ
<1>2. ASSUME IsV4(p)
      PROVE  /\ {Field(p, 14), Field(p, 20), Field(p, 23)} \subseteq Nat
             /\ Field(p, 14) \in 0..15
             /\ Src4(p) \in Nat /\ Dst4(p) \in Nat
  <2>1. p.ethertype = ETHERTYPE_IPV4
    BY <1>2 DEF IsV4
  <2>2. Field(p, 14) = p.ihl /\ Field(p, 20) = p.frag /\ Field(p, 23) = p.proto
    BY <2>1, FieldIs
  <2>3. p.ihl \in Nat /\ p.frag \in Nat /\ p.rest \in Nat /\ p.sport \in Nat /\ p.dport \in Nat
    BY NumbersAre
  <2>4. Src4(p) \in Nat /\ Dst4(p) \in Nat
    <3>1. CASE p.ihl >= 5
      BY <2>1, <2>3, <3>1, FieldIs
    <3>2. CASE p.ihl < 5
      <4>1. {Src4(p), Dst4(p)} \subseteq {p.ihl, p.frag, p.rest}
        BY <2>1, <3>2, FieldIs
      <4> QED
        BY <2>3, <4>1
    <3> QED
      BY <2>3, <3>1, <3>2
  <2> QED
    BY <2>2, <2>4, NumbersAre
<1>3. ASSUME IsV6(p) PROVE Field(p, 20) \in Nat /\ Src6(p) \in Nat /\ Dst6(p) \in Nat
  <2>1. p.ethertype # ETHERTYPE_IPV4
    BY <1>3 DEF IsV6, ETHERTYPE_IPV4, ETHERTYPE_IPV6
  <2>2. /\ Field(p, 20) = FirstHeader(p)
        /\ Src6(p) \in {p.sport, p.rest} /\ Dst6(p) \in {p.dport, p.rest}
    BY <2>1, FieldIs
  <2> QED
    BY <2>2, PacketIs, FirstHeaderIsNat
<1> QED
  BY <1>1, <1>2, <1>3

(* The length of a chain of extension headers, and of none.                *)
LengthOf(ext) == FoldLeft(LAMBDA n, e : n + 8 * e.units, 0, ext)

LEMMA LengthOfNone == LengthOf(<<>>) = 0
<1>1. DOMAIN <<>> = {}
  OBVIOUS
<1> QED
  BY <1>1 DEF LengthOf, FoldLeft, MapThenFoldSet

LEMMA WalkedNothing ==
  ASSUME NEW p \in Packets, p.ext = <<>>
  PROVE  Walked(p) = 0
<1>1. SubSeq(p.ext, 1, Len(p.ext)) = <<>>
  OBVIOUS
<1>2. Walked(p) = LengthOf(<<>>)
  BY <1>1, Zenon DEF Walked, ExtLen, LengthOf
<1> QED
  BY <1>2, LengthOfNone

(* What the parser and the port test ask for.                              *)
LEMMA WantedIs ==
  ASSUME NEW p \in Packets, NEW n \in Nat, p.ext = <<>>, Wanted(p, n)
  PROVE  /\ n = 0 \/ p.sport \in WatchedOf(n) \/ p.dport \in WatchedOf(n)
         /\ p.len >= 54 + 4 * Len(p.tags)
         /\ \/ /\ p.ethertype = ETHERTYPE_IPV4
               /\ p.ihl >= 5 /\ p.frag % 16384 = 0 /\ p.proto = IPPROTO_TCP
               /\ p.len >= HeaderLen(p) + 34 + 4 * Len(p.tags)
            \/ /\ p.ethertype = ETHERTYPE_IPV6
               /\ FirstHeader(p) = IPPROTO_TCP
               /\ p.len >= 74 + 4 * Len(p.tags)
<1>1. PICK len, l, h \in Nat : len = p.len /\ l = Len(p.tags) /\ h = HeaderLen(p)
  <2>1. Len(p.tags) \in Nat /\ p.len \in Nat
    BY PacketIs, LenProperties
  <2>2. HeaderLen(p) \in Nat
    BY NumbersAre
  <2> QED
    BY <2>1, <2>2
<1>2. IpLen(p) = len - 14 - 4 * l
  BY <1>1 DEF IpLen
<1>3. CASE p.ethertype = ETHERTYPE_IPV4 /\ ParsesIpv4(p)
           /\ TcpFits(p, [header |-> HeaderLen(p), before |-> HeaderLen(p)])
  <2>1. /\ p.ihl >= 5 /\ p.frag % 16384 = 0 /\ p.proto = IPPROTO_TCP
        /\ IpLen(p) - h >= 20
    BY <1>1, <1>3 DEF ParsesIpv4, TcpFits
  <2>2. h >= 20
    <3>1. p.ihl \in Nat /\ h = 4 * p.ihl
      BY <1>1, NumbersAre DEF HeaderLen
    <3> QED
      BY <2>1, <3>1
  <2>3. len >= h + 34 + 4 * l /\ len >= 54 + 4 * l
    <3>1. len - 14 - 4 * l - h >= 20
      BY <1>2, <2>1
    <3> QED
      BY <2>2, <3>1
  <2> QED
    BY <1>1, <1>3, <2>1, <2>3 DEF Wanted
<1>4. CASE p.ethertype = ETHERTYPE_IPV6 /\ ParsesIpv6(p)
           /\ TcpFits(p, [header |-> 40 + Walked(p), before |-> Walked(p)])
  <2>1. Walked(p) = 0
    BY WalkedNothing
  <2>2. FirstHeader(p) = IPPROTO_TCP /\ IpLen(p) - 40 >= 20
    BY <1>4, <2>1 DEF ParsesIpv6, TcpFits, FirstHeader
  <2>3. len >= 74 + 4 * l /\ len >= 54 + 4 * l
    <3>1. len - 14 - 4 * l - 40 >= 20
      BY <1>2, <2>2
    <3> QED
      BY <3>1
  <2> QED
    BY <1>1, <1>4, <2>2, <2>3 DEF Wanted
<1> QED
  BY <1>3, <1>4 DEF Wanted, Parses

LEMMA NoneIsOutside ==
  ASSUME NEW n \in Nat, NEW v \in Nat
  PROVE  NoneOf(v, n) <=> v \notin WatchedOf(n)
BY DEF NoneOf, WatchedOf

(* Every reason for which the program drops a packet is one of the parser  *)
(* or of the port test.                                                    *)
LEMMA DroppedIs ==
  ASSUME NEW p \in Packets, NEW n \in Nat, n # 0,
         \/ p.len < 14
         \/ p.tags = <<>> /\ p.ethertype \notin {ETHERTYPE_IPV4, ETHERTYPE_IPV6}
         \/ IsV4(p) /\ \/ p.len < 54 \/ p.len < HeaderLen(p) + 34
                       \/ p.proto # IPPROTO_TCP \/ p.frag % 16384 # 0
                       \/ NoneOf(Src4(p), n) /\ NoneOf(Dst4(p), n)
         \/ IsV6(p) /\ \/ p.len < 74 \/ FirstHeader(p) # IPPROTO_TCP
                       \/ NoneOf(Src6(p), n) /\ NoneOf(Dst6(p), n)
  PROVE  Dropped(p, n)
<1> SUFFICES ASSUME p.ext = <<>>, Wanted(p, n) PROVE FALSE
  BY DEF Dropped
<1>1. PICK len, l, h \in Nat : len = p.len /\ l = Len(p.tags) /\ h = HeaderLen(p)
  <2>1. Len(p.tags) \in Nat /\ p.len \in Nat
    BY PacketIs, LenProperties
  <2>2. HeaderLen(p) \in Nat
    BY NumbersAre
  <2> QED
    BY <2>1, <2>2
<1>2. ETHERTYPE_IPV4 # ETHERTYPE_IPV6
  BY DEF ETHERTYPE_IPV4, ETHERTYPE_IPV6
<1>3. p.sport \in WatchedOf(n) \/ p.dport \in WatchedOf(n)
  BY WantedIs
<1>4. p.len >= 14 /\ p.len >= 54
  BY <1>1, WantedIs
<1>5. p.ethertype \in {ETHERTYPE_IPV4, ETHERTYPE_IPV6}
  BY WantedIs
<1>6. ASSUME IsV4(p), \/ p.len < HeaderLen(p) + 34
                      \/ p.proto # IPPROTO_TCP \/ p.frag % 16384 # 0
                      \/ NoneOf(Src4(p), n) /\ NoneOf(Dst4(p), n)
      PROVE  FALSE
  <2>1. /\ p.ihl >= 5 /\ p.frag % 16384 = 0 /\ p.proto = IPPROTO_TCP
        /\ p.len >= HeaderLen(p) + 34 + 4 * Len(p.tags)
    BY <1>2, <1>6, WantedIs DEF IsV4
  <2>2. ~(p.len < HeaderLen(p) + 34)
    BY <1>1, <2>1
  <2>3. Src4(p) = p.sport /\ Dst4(p) = p.dport
    BY <1>6, <2>1, FieldIs DEF IsV4
  <2>4. ~(NoneOf(Src4(p), n) /\ NoneOf(Dst4(p), n))
    BY <1>3, <2>3, NoneIsOutside, PacketIs
  <2> QED
    BY <1>6, <2>1, <2>2, <2>4
<1>7. ASSUME IsV6(p), \/ p.len < 74 \/ FirstHeader(p) # IPPROTO_TCP
                      \/ NoneOf(Src6(p), n) /\ NoneOf(Dst6(p), n)
      PROVE  FALSE
  <2>1. FirstHeader(p) = IPPROTO_TCP /\ p.len >= 74 + 4 * Len(p.tags)
    BY <1>2, <1>7, WantedIs DEF IsV6
  <2>2. ~(p.len < 74)
    BY <1>1, <2>1
  <2>3. Src6(p) = p.sport /\ Dst6(p) = p.dport
    BY <1>2, <1>7, FieldIs DEF IsV6
  <2>4. ~(NoneOf(Src6(p), n) /\ NoneOf(Dst6(p), n))
    BY <1>3, <2>3, NoneIsOutside, PacketIs
  <2> QED
    BY <1>7, <2>1, <2>2, <2>4
<1>8. ~(p.len < 14) /\ ~(p.len < 54)
  BY <1>1, <1>4
<1> QED
  BY <1>5, <1>6, <1>7, <1>8

-----------------------------------------------------------------------------
(* One instruction, of a program g at i: what Execute does, with the       *)
(* registers and the stage after it as t, i2, a2 and x2.                   *)

Ran(g, p, i, av, xv, t, i2, a2, x2) ==
  LET I == g[i]
      Off == IF I.code = "ldhx" THEN xv + I.k ELSE I.k
      Go(target) == i2 = i + 1 + Distance(target, i)
      Same == i2 = i /\ a2 = av /\ x2 = xv
  IN  \/ /\ I.code \in {"ldb", "ldh", "ldhx", "ldxmsh"}
         /\ IF Off + Width(I.code) > p.len
            THEN t = "done" /\ Same
            ELSE /\ t = "kernel"
                 /\ i2 = i + 1
                 /\ a2 = IF I.code = "ldxmsh" THEN av ELSE Field(p, Off)
                 /\ x2 = IF I.code = "ldxmsh" THEN 4 * Field(p, Off) ELSE xv
      \/ /\ I.code \in {"jeq", "jset"}
         /\ t = "kernel" /\ a2 = av /\ x2 = xv
         /\ Go(IF (IF I.code = "jeq" THEN av = I.k ELSE av % (I.k + 1) # 0)
               THEN I.jt ELSE I.jf)
      \/ I.code = "ja" /\ t = "kernel" /\ i2 = I.jt /\ a2 = av /\ x2 = xv
      \/ I.code = "accept" /\ t = "user" /\ Same
      \/ I.code = "drop" /\ t = "done" /\ Same

(* What a load from off, w octets wide, comes to.                          *)
Loaded(p, off, w, v, i, av, xv, t, i2, a2, x2) ==
  \/ off + w > p.len /\ t = "done"
  \/ off + w <= p.len /\ t = "kernel" /\ i2 = i + 1 /\ a2 = v /\ x2 = xv

LEMMA LdbRuns ==
  ASSUME NEW g, NEW p \in Packets, NEW i \in Nat, NEW av, NEW xv \in Nat,
         NEW t, NEW i2, NEW a2, NEW x2,
         Ran(g, p, i, av, xv, t, i2, a2, x2),
         NEW k \in Nat, NEW jt, NEW jf, g[i] = Ins("ldb", k, jt, jf)
  PROVE  Loaded(p, k, 1, Field(p, k), i, av, xv, t, i2, a2, x2)
<1>1. g[i].code = "ldb" /\ g[i].k = k
  BY DEF Ins
<1>2. p.len \in Nat
  BY NumbersAre
<1> QED
  BY <1>1, <1>2 DEF Ran, Loaded, Width

LEMMA LdhRuns ==
  ASSUME NEW g, NEW p \in Packets, NEW i \in Nat, NEW av, NEW xv \in Nat,
         NEW t, NEW i2, NEW a2, NEW x2,
         Ran(g, p, i, av, xv, t, i2, a2, x2),
         NEW k \in Nat, NEW jt, NEW jf, g[i] = Ins("ldh", k, jt, jf)
  PROVE  Loaded(p, k, 2, Field(p, k), i, av, xv, t, i2, a2, x2)
<1>1. g[i].code = "ldh" /\ g[i].k = k
  BY DEF Ins
<1>2. p.len \in Nat
  BY NumbersAre
<1> QED
  BY <1>1, <1>2 DEF Ran, Loaded, Width

LEMMA LdhxRuns ==
  ASSUME NEW g, NEW p \in Packets, NEW i \in Nat, NEW av, NEW xv \in Nat,
         NEW t, NEW i2, NEW a2, NEW x2,
         Ran(g, p, i, av, xv, t, i2, a2, x2),
         NEW k \in Nat, NEW jt, NEW jf, g[i] = Ins("ldhx", k, jt, jf)
  PROVE  Loaded(p, xv + k, 2, Field(p, xv + k), i, av, xv, t, i2, a2, x2)
<1>1. g[i].code = "ldhx" /\ g[i].k = k
  BY DEF Ins
<1>2. p.len \in Nat
  BY NumbersAre
<1> QED
  BY <1>1, <1>2 DEF Ran, Loaded, Width

LEMMA MshRuns ==
  ASSUME NEW g, NEW p \in Packets, NEW i \in Nat, NEW av, NEW xv \in Nat,
         NEW t, NEW i2, NEW a2, NEW x2,
         Ran(g, p, i, av, xv, t, i2, a2, x2),
         NEW k \in Nat, NEW jt, NEW jf, g[i] = Ins("ldxmsh", k, jt, jf)
  PROVE  Loaded(p, k, 1, av, i, av, 4 * Field(p, k), t, i2, a2, x2)
<1>1. g[i].code = "ldxmsh" /\ g[i].k = k
  BY DEF Ins
<1>2. p.len \in Nat
  BY NumbersAre
<1> QED
  BY <1>1, <1>2 DEF Ran, Loaded, Width

(* A jump that is short enough lands where it was meant to.                *)
Jumped(cond, jt, jf, av, xv, t, i2, a2, x2) ==
  t = "kernel" /\ a2 = av /\ x2 = xv /\ (cond => i2 = jt) /\ (~cond => i2 = jf)

LEMMA LandsAt ==
  ASSUME NEW i \in Nat, NEW to \in Nat, i < to, to <= i + 256
  PROVE  i + 1 + Distance(to, i) = to
<1>1. PICK d \in Int : d = to - i - 1 /\ 0 <= d /\ d < 256
  OBVIOUS
<1>2. d % 256 = d
  BY <1>1
<1> QED
  BY <1>1, <1>2 DEF Distance

LEMMA JeqRuns ==
  ASSUME NEW g, NEW p \in Packets, NEW i \in Nat, NEW av, NEW xv \in Nat,
         NEW t, NEW i2, NEW a2, NEW x2,
         Ran(g, p, i, av, xv, t, i2, a2, x2),
         NEW k \in Nat, NEW jt \in Nat, NEW jf \in Nat, g[i] = Ins("jeq", k, jt, jf),
         i < jt, jt <= i + 256, i < jf, jf <= i + 256
  PROVE  Jumped(av = k, jt, jf, av, xv, t, i2, a2, x2)
<1>1. g[i].code = "jeq" /\ g[i].k = k /\ g[i].jt = jt /\ g[i].jf = jf
  BY DEF Ins
<1>2. /\ t = "kernel" /\ a2 = av /\ x2 = xv
      /\ i2 = i + 1 + Distance(IF av = k THEN jt ELSE jf, i)
  BY <1>1 DEF Ran
<1>3. i + 1 + Distance(jt, i) = jt /\ i + 1 + Distance(jf, i) = jf
  BY LandsAt
<1> QED
  BY <1>2, <1>3 DEF Jumped

LEMMA JsetRuns ==
  ASSUME NEW g, NEW p \in Packets, NEW i \in Nat, NEW av, NEW xv \in Nat,
         NEW t, NEW i2, NEW a2, NEW x2,
         Ran(g, p, i, av, xv, t, i2, a2, x2),
         NEW k \in Nat, NEW jt \in Nat, NEW jf \in Nat, g[i] = Ins("jset", k, jt, jf),
         i < jt, jt <= i + 256, i < jf, jf <= i + 256
  PROVE  Jumped(av % (k + 1) # 0, jt, jf, av, xv, t, i2, a2, x2)
<1>1. g[i].code = "jset" /\ g[i].k = k /\ g[i].jt = jt /\ g[i].jf = jf
  BY DEF Ins
<1>2. /\ t = "kernel" /\ a2 = av /\ x2 = xv
      /\ i2 = i + 1 + Distance(IF av % (k + 1) # 0 THEN jt ELSE jf, i)
  BY <1>1 DEF Ran
<1>3. i + 1 + Distance(jt, i) = jt /\ i + 1 + Distance(jf, i) = jf
  BY LandsAt
<1> QED
  BY <1>2, <1>3 DEF Jumped

LEMMA OthersRun ==
  ASSUME NEW g, NEW p, NEW i, NEW av, NEW xv, NEW t, NEW i2, NEW a2, NEW x2,
         Ran(g, p, i, av, xv, t, i2, a2, x2)
  PROVE  /\ \A jt : g[i] = Ins("ja", 0, jt, jt) =>
               t = "kernel" /\ i2 = jt /\ a2 = av /\ x2 = xv
         /\ g[i].code = "accept" => t = "user"
         /\ g[i].code = "drop" => t = "done"
BY DEF Ran, Ins

(* Where an instruction may lead.                                          *)
Outcome(p, n, t, i2, a2, x2) ==
  \/ /\ t = "kernel" /\ a2 \in Nat /\ x2 \in 0..60
     /\ Located(p, n, i2, a2, x2)
  \/ t = "user" /\ Accepted(p, n)
  \/ t = "done" /\ Dropped(p, n)

LEMMA DispatchRuns ==
  ASSUME NEW p \in Packets, NEW n \in Nat, n # 0, 4 * n + 14 < 256,
         NEW g, DispatchAt(g, n),
         NEW i \in Nat, NEW av \in Nat, NEW xv \in 0..60,
         InDispatch(p, n, i, av, xv),
         NEW t, NEW i2, NEW a2, NEW x2, Ran(g, p, i, av, xv, t, i2, a2, x2)
  PROVE  Outcome(p, n, t, i2, a2, x2)
<1>1. Field(p, 12) \in Nat
  BY FieldsAreNat
<1>2. /\ p.tags = <<>> => Field(p, 12) = p.ethertype /\ p.ethertype \notin Tags
      /\ p.tags # <<>> => Field(p, 12) \in {ETHERTYPE_VLAN, ETHERTYPE_QINQ}
  BY FieldIs, PacketIs DEF Tags
<1>3. /\ ETHERTYPE_VLAN \in Nat /\ ETHERTYPE_QINQ \in Nat
      /\ ETHERTYPE_IPV4 \in Nat /\ ETHERTYPE_IPV6 \in Nat
      /\ {ETHERTYPE_IPV4, ETHERTYPE_IPV6} \cap {ETHERTYPE_VLAN, ETHERTYPE_QINQ} = {}
  BY DEF ETHERTYPE_VLAN, ETHERTYPE_QINQ, ETHERTYPE_IPV4, ETHERTYPE_IPV6
<1>4. xv \in Nat
  OBVIOUS
<1>5. CASE i = 1
  <2>1. Loaded(p, 12, 2, Field(p, 12), i, av, xv, t, i2, a2, x2)
    BY <1>4, <1>5, LdhRuns DEF DispatchAt
  <2>2. CASE 12 + 2 > p.len
    <3>1. p.len < 14 /\ t = "done"
      BY <2>1, <2>2, NumbersAre DEF Loaded
    <3> QED
      BY <3>1, DroppedIs DEF Outcome
  <2>3. CASE ~(12 + 2 > p.len)
    <3>1. t = "kernel" /\ i2 = 2 /\ a2 = Field(p, 12) /\ x2 = xv
      BY <1>5, <2>1, <2>3, NumbersAre DEF Loaded
    <3>2. InDispatch(p, n, i2, a2, x2)
      BY <3>1 DEF InDispatch
    <3> QED
      BY <1>1, <3>1, <3>2 DEF Outcome, Located
  <2> QED
    BY <2>2, <2>3
<1>6. CASE i = 2 /\ av = Field(p, 12)
  <2>1. Jumped(av = ETHERTYPE_IPV4, 6, 3, av, xv, t, i2, a2, x2)
    BY <1>3, <1>4, <1>6, JeqRuns DEF DispatchAt
  <2>2. CASE av = ETHERTYPE_IPV4
    <3>1. IsV4(p)
      BY <1>2, <1>3, <1>6, <2>2 DEF IsV4
    <3>2. t = "kernel" /\ i2 = 6 /\ a2 = av /\ x2 = xv
      BY <2>1, <2>2 DEF Jumped
    <3>3. InIpv4(p, n, i2, a2, x2)
      BY <3>1, <3>2 DEF InIpv4
    <3> QED
      BY <3>2, <3>3 DEF Outcome, Located
  <2>3. CASE av # ETHERTYPE_IPV4
    <3>1. t = "kernel" /\ i2 = 3 /\ a2 = av /\ x2 = xv
      BY <2>1, <2>3 DEF Jumped
    <3>2. InDispatch(p, n, i2, a2, x2)
      BY <1>6, <2>3, <3>1 DEF InDispatch
    <3> QED
      BY <3>1, <3>2 DEF Outcome, Located
  <2> QED
    BY <2>2, <2>3
<1>7. CASE i = 3 /\ av = Field(p, 12) /\ av # ETHERTYPE_IPV4
  <2>1. Jumped(av = ETHERTYPE_IPV6, 14 + 2 * n, 4, av, xv, t, i2, a2, x2)
    BY <1>3, <1>4, <1>7, JeqRuns DEF DispatchAt
  <2>2. CASE av = ETHERTYPE_IPV6
    <3>1. IsV6(p)
      BY <1>2, <1>3, <1>7, <2>2 DEF IsV6
    <3>2. t = "kernel" /\ i2 = 14 + 2 * n /\ a2 = av /\ x2 = xv
      BY <2>1, <2>2 DEF Jumped
    <3>3. InIpv6(p, n, i2, a2, x2)
      BY <3>1, <3>2 DEF InIpv6
    <3> QED
      BY <3>2, <3>3 DEF Outcome, Located
  <2>3. CASE av # ETHERTYPE_IPV6
    <3>1. t = "kernel" /\ i2 = 4 /\ a2 = av /\ x2 = xv
      BY <2>1, <2>3 DEF Jumped
    <3>2. InDispatch(p, n, i2, a2, x2)
      BY <1>7, <2>3, <3>1 DEF InDispatch
    <3> QED
      BY <3>1, <3>2 DEF Outcome, Located
  <2> QED
    BY <2>2, <2>3
<1>8. CASE i = 4 /\ av = Field(p, 12) /\ av # ETHERTYPE_IPV4 /\ av # ETHERTYPE_IPV6
  <2>1. Jumped(av = ETHERTYPE_VLAN, 19 + 4 * n, 5, av, xv, t, i2, a2, x2)
    BY <1>3, <1>4, <1>8, JeqRuns DEF DispatchAt
  <2>2. CASE av = ETHERTYPE_VLAN
    <3>1. p.tags # <<>>
      BY <1>2, <1>8, <2>2 DEF Tags
    <3>2. t = "kernel" /\ i2 = 19 + 4 * n /\ a2 = av /\ x2 = xv
      BY <2>1, <2>2 DEF Jumped
    <3>3. AtVerdict(p, n, i2, a2, x2)
      BY <3>1, <3>2 DEF AtVerdict, Accepted
    <3> QED
      BY <3>2, <3>3 DEF Outcome, Located
  <2>3. CASE av # ETHERTYPE_VLAN
    <3>1. t = "kernel" /\ i2 = 5 /\ a2 = av /\ x2 = xv
      BY <2>1, <2>3 DEF Jumped
    <3>2. InDispatch(p, n, i2, a2, x2)
      BY <1>8, <2>3, <3>1 DEF InDispatch
    <3> QED
      BY <3>1, <3>2 DEF Outcome, Located
  <2> QED
    BY <2>2, <2>3
<1>9. CASE i = 5 /\ av = Field(p, 12) /\ av # ETHERTYPE_IPV4 /\ av # ETHERTYPE_IPV6
           /\ av # ETHERTYPE_VLAN
  <2>1. Jumped(av = ETHERTYPE_QINQ, 19 + 4 * n, 20 + 4 * n, av, xv, t, i2, a2, x2)
    BY <1>3, <1>4, <1>9, JeqRuns DEF DispatchAt
  <2>2. CASE av = ETHERTYPE_QINQ
    <3>1. p.tags # <<>>
      BY <1>2, <1>9, <2>2 DEF Tags
    <3>2. t = "kernel" /\ i2 = 19 + 4 * n /\ a2 = av /\ x2 = xv
      BY <2>1, <2>2 DEF Jumped
    <3>3. AtVerdict(p, n, i2, a2, x2)
      BY <3>1, <3>2 DEF AtVerdict, Accepted
    <3> QED
      BY <3>2, <3>3 DEF Outcome, Located
  <2>3. CASE av # ETHERTYPE_QINQ
    <3>1. t = "kernel" /\ i2 = 20 + 4 * n /\ a2 = av /\ x2 = xv
      BY <2>1, <2>3 DEF Jumped
    <3>2. p.tags = <<>> /\ p.ethertype \notin {ETHERTYPE_IPV4, ETHERTYPE_IPV6}
      BY <1>2, <1>9, <2>3
    <3>3. Dropped(p, n)
      BY <3>2, DroppedIs
    <3>4. AtVerdict(p, n, i2, a2, x2)
      BY <3>1, <3>3 DEF AtVerdict
    <3> QED
      BY <3>1, <3>4 DEF Outcome, Located
  <2> QED
    BY <2>2, <2>3
<1> QED
  BY <1>5, <1>6, <1>7, <1>8, <1>9 DEF InDispatch

LEMMA NoneOfIs ==
  ASSUME NEW n \in Nat, NEW v \in Nat
  PROVE  /\ NoneOf(v, 0)
         /\ \A j \in Nat : 1 <= j /\ j <= n /\ v = Port(j) => v \in WatchedOf(n)
         /\ \A j \in Nat : 1 <= j /\ NoneOf(v, j - 1) /\ v # Port(j) => NoneOf(v, j)
BY DEF NoneOf, WatchedOf

(* One comparison of the tests behind place b.                             *)
Tested(n, b, j, av, xv, t, i2, a2, x2) ==
  /\ t = "kernel" /\ a2 = av /\ x2 = xv
  /\ \/ av \in WatchedOf(n) /\ i2 = 19 + 4 * n
     \/ av # Port(j) /\ i2 = b + 1 + j

LEMMA TestRuns ==
  ASSUME NEW p \in Packets, NEW n \in Nat, 4 * n + 14 < 256,
         NEW g, NEW b \in Nat, Tests(g, n, b, 19 + 4 * n), 11 <= b, b <= 17 + 3 * n,
         NEW j \in Nat, 1 <= j, j <= n, NEW i \in Nat, i = b + j,
         NEW av \in Nat, NEW xv \in Nat,
         NEW t, NEW i2, NEW a2, NEW x2, Ran(g, p, i, av, xv, t, i2, a2, x2)
  PROVE  Tested(n, b, j, av, xv, t, i2, a2, x2)
<1>1. PICK jt, jf \in Nat : jt = 19 + 4 * n /\ jf = b + 1 + j
  OBVIOUS
<1>2. i < jt /\ jt <= i + 256 /\ i < jf /\ jf <= i + 256
  BY <1>1
<1>3. Port(j) \in Nat
  BY DEF Port
<1>4. g[i] = Ins("jeq", Port(j), jt, jf)
  BY <1>1 DEF Tests
<1>5. Jumped(av = Port(j), jt, jf, av, xv, t, i2, a2, x2)
  BY <1>2, <1>3, <1>4, JeqRuns
<1>6. CASE av = Port(j)
  <2>1. av \in WatchedOf(n)
    BY <1>6, NoneOfIs
  <2> QED
    BY <1>1, <1>5, <1>6, <2>1 DEF Jumped, Tested
<1>7. CASE av # Port(j)
  BY <1>1, <1>5, <1>7 DEF Jumped, Tested
<1> QED
  BY <1>6, <1>7

LEMMA Ipv4Runs ==
  ASSUME NEW p \in Packets, NEW n \in Nat, n # 0, 4 * n + 14 < 256,
         NEW g, Ipv4At(g, n),
         NEW i \in Nat, NEW av \in Nat, NEW xv \in 0..60,
         InIpv4(p, n, i, av, xv),
         NEW t, NEW i2, NEW a2, NEW x2, Ran(g, p, i, av, xv, t, i2, a2, x2)
  PROVE  Outcome(p, n, t, i2, a2, x2)
<1>1. xv \in Nat /\ p.len \in Nat
  BY NumbersAre
<1>2. IsV4(p) =>
        /\ Field(p, 14) = p.ihl /\ Field(p, 20) = p.frag /\ Field(p, 23) = p.proto
        /\ Src4(p) \in Nat
  BY FieldIs, FieldsAreNat DEF IsV4
<1>3. ASSUME IsV4(p), p.len < 54, t = "done" PROVE Outcome(p, n, t, i2, a2, x2)
  BY <1>3, DroppedIs DEF Outcome
<1>4. CASE i = 6 /\ IsV4(p)
  <2>1. Loaded(p, 23, 1, Field(p, 23), i, av, xv, t, i2, a2, x2)
    BY <1>1, <1>4, LdbRuns DEF Ipv4At
  <2>2. CASE 23 + 1 > p.len
    BY <1>1, <1>3, <1>4, <2>1, <2>2 DEF Loaded
  <2>3. CASE ~(23 + 1 > p.len)
    <3>1. t = "kernel" /\ i2 = 7 /\ a2 = p.proto /\ x2 = xv
      BY <1>1, <1>2, <1>4, <2>1, <2>3 DEF Loaded
    <3>2. InIpv4(p, n, i2, a2, x2)
      BY <1>4, <3>1 DEF InIpv4
    <3> QED
      BY <3>1, <3>2, NumbersAre DEF Outcome, Located
  <2> QED
    BY <2>2, <2>3
<1>5. CASE i = 7 /\ IsV4(p) /\ av = p.proto
  <2>1. Jumped(av = IPPROTO_TCP, 8, 20 + 4 * n, av, xv, t, i2, a2, x2)
    BY <1>1, <1>5, JeqRuns DEF Ipv4At, IPPROTO_TCP
  <2>2. CASE av = IPPROTO_TCP
    <3>1. t = "kernel" /\ i2 = 8 /\ a2 = av /\ x2 = xv
      BY <2>1, <2>2 DEF Jumped
    <3>2. InIpv4(p, n, i2, a2, x2)
      BY <1>5, <2>2, <3>1 DEF InIpv4, TcpV4
    <3> QED
      BY <3>1, <3>2 DEF Outcome, Located
  <2>3. CASE av # IPPROTO_TCP
    <3>1. t = "kernel" /\ i2 = 20 + 4 * n /\ a2 = av /\ x2 = xv
      BY <2>1, <2>3 DEF Jumped
    <3>2. Dropped(p, n)
      BY <1>5, <2>3, DroppedIs
    <3>3. AtVerdict(p, n, i2, a2, x2)
      BY <3>1, <3>2 DEF AtVerdict
    <3> QED
      BY <3>1, <3>3 DEF Outcome, Located
  <2> QED
    BY <2>2, <2>3
<1>6. CASE i = 8 /\ TcpV4(p)
  <2>1. Loaded(p, 20, 2, Field(p, 20), i, av, xv, t, i2, a2, x2)
    BY <1>1, <1>6, LdhRuns DEF Ipv4At
  <2>2. IsV4(p)
    BY <1>6 DEF TcpV4
  <2>3. CASE 20 + 2 > p.len
    BY <1>1, <1>3, <2>1, <2>2, <2>3 DEF Loaded
  <2>4. CASE ~(20 + 2 > p.len)
    <3>1. t = "kernel" /\ i2 = 9 /\ a2 = p.frag /\ x2 = xv
      BY <1>1, <1>2, <1>6, <2>1, <2>2, <2>4 DEF Loaded
    <3>2. InIpv4(p, n, i2, a2, x2)
      BY <1>6, <3>1 DEF InIpv4
    <3> QED
      BY <3>1, <3>2, NumbersAre DEF Outcome, Located
  <2> QED
    BY <2>3, <2>4
<1>7. CASE i = 9 /\ TcpV4(p) /\ av = p.frag
  <2>1. Jumped(av % (16383 + 1) # 0, 20 + 4 * n, 10, av, xv, t, i2, a2, x2)
    BY <1>1, <1>7, JsetRuns DEF Ipv4At
  <2>2. IsV4(p) /\ 16383 + 1 = 16384
    BY <1>7 DEF TcpV4
  <2>3. CASE av % (16383 + 1) # 0
    <3>1. t = "kernel" /\ i2 = 20 + 4 * n /\ a2 = av /\ x2 = xv
      BY <2>1, <2>3 DEF Jumped
    <3>2. p.frag % 16384 # 0
      BY <1>7, <2>2, <2>3
    <3>3. Dropped(p, n)
      BY <2>2, <3>2, DroppedIs
    <3>4. AtVerdict(p, n, i2, a2, x2)
      BY <3>1, <3>3 DEF AtVerdict
    <3> QED
      BY <3>1, <3>4 DEF Outcome, Located
  <2>4. CASE ~(av % (16383 + 1) # 0)
    <3>1. t = "kernel" /\ i2 = 10 /\ a2 = av /\ x2 = xv
      BY <2>1, <2>4 DEF Jumped
    <3>2. p.frag % 16384 = 0
      BY <1>7, <2>2, <2>4
    <3>3. InIpv4(p, n, i2, a2, x2)
      BY <1>7, <3>1, <3>2 DEF InIpv4, WholeV4
    <3> QED
      BY <3>1, <3>3 DEF Outcome, Located
  <2> QED
    BY <2>3, <2>4
<1>8. CASE i = 10 /\ WholeV4(p)
  <2>1. Loaded(p, 14, 1, av, i, av, 4 * Field(p, 14), t, i2, a2, x2)
    BY <1>1, <1>8, MshRuns DEF Ipv4At
  <2>2. IsV4(p)
    BY <1>8 DEF WholeV4, TcpV4
  <2>3. CASE 14 + 1 > p.len
    BY <1>1, <1>3, <2>1, <2>2, <2>3 DEF Loaded
  <2>4. CASE ~(14 + 1 > p.len)
    <3>1. t = "kernel" /\ i2 = 11 /\ a2 = av /\ x2 = HeaderLen(p)
      BY <1>1, <1>2, <1>8, <2>1, <2>2, <2>4 DEF Loaded, HeaderLen
    <3>2. InIpv4(p, n, i2, a2, x2)
      BY <1>8, <3>1 DEF InIpv4
    <3> QED
      BY <3>1, <3>2, NumbersAre DEF Outcome, Located
  <2> QED
    BY <2>3, <2>4
<1>9. CASE i = 11 /\ WholeV4(p) /\ xv = HeaderLen(p)
  <2>1. Loaded(p, xv + 14, 2, Field(p, xv + 14), i, av, xv, t, i2, a2, x2)
    BY <1>1, <1>9, LdhxRuns DEF Ipv4At
  <2>2. IsV4(p)
    BY <1>9 DEF WholeV4, TcpV4
  <2>3. Field(p, xv + 14) = Src4(p)
    <3>1. xv + 14 = 14 + HeaderLen(p)
      BY <1>1, <1>9
    <3> QED
      BY <3>1 DEF Src4
  <2>4. CASE (xv + 14) + 2 > p.len
    <3>1. t = "done"
      BY <1>1, <2>1, <2>4 DEF Loaded
    <3>2. p.len < HeaderLen(p) + 34
      BY <1>1, <1>9, <2>4
    <3> QED
      BY <2>2, <3>1, <3>2, DroppedIs DEF Outcome
  <2>5. CASE ~((xv + 14) + 2 > p.len)
    <3>1. t = "kernel" /\ i2 = 12 /\ a2 = Src4(p) /\ x2 = xv
      BY <1>1, <1>9, <2>1, <2>3, <2>5 DEF Loaded
    <3>2. NoneOf(Src4(p), 1 - 1)
      BY <1>2, <2>2, NoneOfIs
    <3>3. InSrc4(p, n, i2, a2, x2)
      BY <1>9, <3>1, <3>2 DEF InSrc4
    <3> QED
      BY <1>2, <2>2, <3>1, <3>3 DEF Outcome, Located
  <2> QED
    BY <2>4, <2>5
<1> QED
  BY <1>4, <1>5, <1>6, <1>7, <1>8, <1>9 DEF InIpv4

LEMMA Ports4Run ==
  ASSUME NEW p \in Packets, NEW n \in Nat, n # 0, 4 * n + 14 < 256,
         NEW g, Ipv4At(g, n),
         NEW i \in Nat, NEW av \in Nat, NEW xv \in 0..60,
         \/ InSrc4(p, n, i, av, xv) \/ BetweenV4(p, n, i, av, xv)
         \/ InDst4(p, n, i, av, xv) \/ AfterV4(p, n, i, av, xv),
         NEW t, NEW i2, NEW a2, NEW x2, Ran(g, p, i, av, xv, t, i2, a2, x2)
  PROVE  Outcome(p, n, t, i2, a2, x2)
<1>1. xv \in Nat /\ p.len \in Nat
  BY NumbersAre
<1>2. WholeV4(p) => IsV4(p) /\ Src4(p) \in Nat /\ Dst4(p) \in Nat
  BY FieldsAreNat DEF WholeV4, TcpV4
<1>3. ASSUME t = "kernel", i2 = 19 + 4 * n, a2 = av, x2 = xv,
             WholeV4(p), Src4(p) \in WatchedOf(n) \/ Dst4(p) \in WatchedOf(n)
      PROVE  Outcome(p, n, t, i2, a2, x2)
  <2>1. Accepted(p, n)
    BY <1>3 DEF Accepted
  <2>2. AtVerdict(p, n, i2, a2, x2)
    BY <1>3, <2>1 DEF AtVerdict
  <2> QED
    BY <1>3, <2>2 DEF Outcome, Located
<1>4. ASSUME NEW j \in Nat, 1 <= j, j <= n, i = 11 + j,
             WholeV4(p), xv = HeaderLen(p), av = Src4(p), NoneOf(Src4(p), j - 1)
      PROVE  Outcome(p, n, t, i2, a2, x2)
  <2>1. /\ t = "kernel" /\ a2 = av /\ x2 = xv
        /\ \/ av \in WatchedOf(n) /\ i2 = 19 + 4 * n
           \/ av # Port(j) /\ i2 = 12 + j
    <3>1. PICK b \in Nat : b = 11
      OBVIOUS
    <3>2. Tests(g, n, b, 19 + 4 * n) /\ 11 <= b /\ b <= 17 + 3 * n /\ b + 1 + j = 12 + j
      BY <3>1 DEF Ipv4At
    <3>3. i = b + j
      BY <1>4, <3>1
    <3>4. Tested(n, b, j, av, xv, t, i2, a2, x2)
      BY <1>1, <1>4, <3>2, <3>3, TestRuns
    <3> QED
      BY <3>2, <3>4 DEF Tested
  <2>2. CASE av \in WatchedOf(n) /\ i2 = 19 + 4 * n
    BY <1>3, <1>4, <2>1, <2>2
  <2>3. CASE av # Port(j) /\ i2 = 12 + j
    <3>1. NoneOf(Src4(p), j)
      BY <1>2, <1>4, <2>3, NoneOfIs
    <3>2. CASE j = n
      <4>1. BetweenV4(p, n, i2, a2, x2)
        BY <1>4, <2>1, <2>3, <3>1, <3>2 DEF BetweenV4
      <4> QED
        BY <2>1, <4>1 DEF Outcome, Located
    <3>3. CASE j # n
      <4>1. /\ j + 1 \in Nat /\ 1 <= j + 1 /\ j + 1 <= n /\ i2 = 11 + (j + 1)
            /\ (j + 1) - 1 = j
        BY <1>4, <2>3, <3>3
      <4>2. InSrc4(p, n, i2, a2, x2)
        BY <1>4, <2>1, <3>1, <4>1 DEF InSrc4
      <4> QED
        BY <2>1, <4>2 DEF Outcome, Located
    <3> QED
      BY <3>2, <3>3
  <2> QED
    BY <2>1, <2>2, <2>3
<1>5. CASE BetweenV4(p, n, i, av, xv)
  <2>1. i = 12 + n /\ WholeV4(p) /\ xv = HeaderLen(p) /\ NoneOf(Src4(p), n)
    BY <1>5 DEF BetweenV4
  <2>2. Loaded(p, xv + 16, 2, Field(p, xv + 16), i, av, xv, t, i2, a2, x2)
    BY <1>1, <2>1, LdhxRuns DEF Ipv4At
  <2>3. Field(p, xv + 16) = Dst4(p)
    <3>1. xv + 16 = 16 + HeaderLen(p)
      BY <1>1, <2>1
    <3> QED
      BY <3>1 DEF Dst4
  <2>4. CASE (xv + 16) + 2 > p.len
    <3>1. t = "done"
      BY <1>1, <2>2, <2>4 DEF Loaded
    <3>2. p.len < HeaderLen(p) + 34
      BY <1>1, <2>1, <2>4
    <3> QED
      BY <1>2, <2>1, <3>1, <3>2, DroppedIs DEF Outcome
  <2>5. CASE ~((xv + 16) + 2 > p.len)
    <3>1. t = "kernel" /\ i2 = 13 + n /\ a2 = Dst4(p) /\ x2 = xv
      BY <1>1, <2>1, <2>2, <2>3, <2>5 DEF Loaded
    <3>2. NoneOf(Dst4(p), 1 - 1)
      BY <1>2, <2>1, NoneOfIs
    <3>3. i2 = 12 + n + 1
      BY <3>1
    <3>4. InDst4(p, n, i2, a2, x2)
      BY <2>1, <3>1, <3>2, <3>3 DEF InDst4
    <3> QED
      BY <1>2, <2>1, <3>1, <3>4 DEF Outcome, Located
  <2> QED
    BY <2>4, <2>5
<1>6. ASSUME NEW j \in Nat, 1 <= j, j <= n, i = 12 + n + j,
             WholeV4(p), NoneOf(Src4(p), n), av = Dst4(p), NoneOf(Dst4(p), j - 1)
      PROVE  Outcome(p, n, t, i2, a2, x2)
  <2>1. /\ t = "kernel" /\ a2 = av /\ x2 = xv
        /\ \/ av \in WatchedOf(n) /\ i2 = 19 + 4 * n
           \/ av # Port(j) /\ i2 = 13 + n + j
    <3>1. PICK b \in Nat : b = 12 + n
      OBVIOUS
    <3>2. /\ Tests(g, n, b, 19 + 4 * n) /\ 11 <= b /\ b <= 17 + 3 * n
          /\ b + 1 + j = 13 + n + j
      BY <3>1 DEF Ipv4At
    <3>3. i = b + j
      BY <1>6, <3>1
    <3>4. Tested(n, b, j, av, xv, t, i2, a2, x2)
      BY <1>1, <1>6, <3>2, <3>3, TestRuns
    <3> QED
      BY <3>2, <3>4 DEF Tested
  <2>2. CASE av \in WatchedOf(n) /\ i2 = 19 + 4 * n
    BY <1>3, <1>6, <2>1, <2>2
  <2>3. CASE av # Port(j) /\ i2 = 13 + n + j
    <3>1. NoneOf(Dst4(p), j)
      BY <1>2, <1>6, <2>3, NoneOfIs
    <3>2. CASE j = n
      <4>1. i2 = 13 + 2 * n
        BY <2>3, <3>2
      <4>2. AfterV4(p, n, i2, a2, x2)
        BY <1>6, <3>1, <3>2, <4>1 DEF AfterV4
      <4> QED
        BY <2>1, <4>2 DEF Outcome, Located
    <3>3. CASE j # n
      <4>1. /\ j + 1 \in Nat /\ 1 <= j + 1 /\ j + 1 <= n /\ i2 = 12 + n + (j + 1)
            /\ (j + 1) - 1 = j
        BY <1>6, <2>3, <3>3
      <4>2. InDst4(p, n, i2, a2, x2)
        BY <1>6, <2>1, <3>1, <4>1 DEF InDst4
      <4> QED
        BY <2>1, <4>2 DEF Outcome, Located
    <3> QED
      BY <3>2, <3>3
  <2> QED
    BY <2>1, <2>2, <2>3
<1>7. CASE AfterV4(p, n, i, av, xv)
  <2>1. /\ i = 13 + 2 * n /\ WholeV4(p)
        /\ NoneOf(Src4(p), n) /\ NoneOf(Dst4(p), n)
    BY <1>7 DEF AfterV4
  <2>2. t = "kernel" /\ i2 = 20 + 4 * n /\ a2 = av /\ x2 = xv
    BY <2>1, OthersRun DEF Ipv4At
  <2>3. Dropped(p, n)
    BY <1>2, <2>1, DroppedIs
  <2>4. AtVerdict(p, n, i2, a2, x2)
    BY <2>2, <2>3 DEF AtVerdict
  <2> QED
    BY <2>2, <2>4 DEF Outcome, Located
<1> QED
  BY <1>4, <1>5, <1>6, <1>7 DEF InSrc4, InDst4

LEMMA Ipv6Runs ==
  ASSUME NEW p \in Packets, NEW n \in Nat, n # 0, 4 * n + 14 < 256,
         NEW g, Ipv6At(g, n),
         NEW i \in Nat, NEW av \in Nat, NEW xv \in 0..60,
         InIpv6(p, n, i, av, xv),
         NEW t, NEW i2, NEW a2, NEW x2, Ran(g, p, i, av, xv, t, i2, a2, x2)
  PROVE  Outcome(p, n, t, i2, a2, x2)
<1>1. xv \in Nat /\ p.len \in Nat
  BY NumbersAre
<1>2. IsV6(p) => Field(p, 20) = FirstHeader(p) /\ Src6(p) \in Nat
  BY FieldIs, FieldsAreNat DEF IsV6, ETHERTYPE_IPV4, ETHERTYPE_IPV6
<1>3. ASSUME IsV6(p), p.len < 74, t = "done" PROVE Outcome(p, n, t, i2, a2, x2)
  BY <1>3, DroppedIs DEF Outcome
<1>4. CASE i = 14 + 2 * n /\ IsV6(p)
  <2>1. Loaded(p, 20, 1, Field(p, 20), i, av, xv, t, i2, a2, x2)
    BY <1>1, <1>4, LdbRuns DEF Ipv6At
  <2>2. CASE 20 + 1 > p.len
    BY <1>1, <1>3, <1>4, <2>1, <2>2 DEF Loaded
  <2>3. CASE ~(20 + 1 > p.len)
    <3>1. t = "kernel" /\ i2 = 15 + 2 * n /\ a2 = FirstHeader(p) /\ x2 = xv
      BY <1>1, <1>2, <1>4, <2>1, <2>3 DEF Loaded
    <3>2. InIpv6(p, n, i2, a2, x2)
      BY <1>4, <3>1 DEF InIpv6
    <3> QED
      BY <3>1, <3>2, FirstHeaderIsNat DEF Outcome, Located
  <2> QED
    BY <2>2, <2>3
<1>5. CASE i = 15 + 2 * n /\ IsV6(p) /\ av = FirstHeader(p)
  <2>1. PICK jt, jf \in Nat : jt = 16 + 2 * n /\ jf = 20 + 4 * n
    OBVIOUS
  <2>2. i < jt /\ jt <= i + 256 /\ i < jf /\ jf <= i + 256
    BY <1>5, <2>1
  <2>3. Jumped(av = IPPROTO_TCP, jt, jf, av, xv, t, i2, a2, x2)
    BY <1>1, <1>5, <2>1, <2>2, JeqRuns DEF Ipv6At, IPPROTO_TCP
  <2>4. CASE av = IPPROTO_TCP
    <3>1. t = "kernel" /\ i2 = 16 + 2 * n /\ a2 = av /\ x2 = xv
      BY <2>1, <2>3, <2>4 DEF Jumped
    <3>2. InIpv6(p, n, i2, a2, x2)
      BY <1>5, <2>4, <3>1 DEF InIpv6, TcpV6
    <3> QED
      BY <3>1, <3>2 DEF Outcome, Located
  <2>5. CASE av # IPPROTO_TCP
    <3>1. t = "kernel" /\ i2 = 20 + 4 * n /\ a2 = av /\ x2 = xv
      BY <2>1, <2>3, <2>5 DEF Jumped
    <3>2. Dropped(p, n)
      BY <1>5, <2>5, DroppedIs
    <3>3. AtVerdict(p, n, i2, a2, x2)
      BY <3>1, <3>2 DEF AtVerdict
    <3> QED
      BY <3>1, <3>3 DEF Outcome, Located
  <2> QED
    BY <2>4, <2>5
<1>6. CASE i = 16 + 2 * n /\ TcpV6(p)
  <2>1. Loaded(p, 54, 2, Src6(p), i, av, xv, t, i2, a2, x2)
    BY <1>1, <1>6, LdhRuns DEF Ipv6At, Src6
  <2>2. IsV6(p)
    BY <1>6 DEF TcpV6
  <2>3. CASE 54 + 2 > p.len
    BY <1>1, <1>3, <2>1, <2>2, <2>3 DEF Loaded
  <2>4. CASE ~(54 + 2 > p.len)
    <3>1. t = "kernel" /\ i2 = 16 + 2 * n + 1 /\ a2 = Src6(p) /\ x2 = xv
      BY <1>1, <1>6, <2>1, <2>4 DEF Loaded
    <3>2. NoneOf(Src6(p), 1 - 1)
      BY <1>2, <2>2, NoneOfIs
    <3>3. InSrc6(p, n, i2, a2, x2)
      BY <1>6, <3>1, <3>2 DEF InSrc6
    <3> QED
      BY <1>2, <2>2, <3>1, <3>3 DEF Outcome, Located
  <2> QED
    BY <2>3, <2>4
<1> QED
  BY <1>4, <1>5, <1>6 DEF InIpv6

LEMMA Ports6Run ==
  ASSUME NEW p \in Packets, NEW n \in Nat, n # 0, 4 * n + 14 < 256,
         NEW g, Ipv6At(g, n),
         NEW i \in Nat, NEW av \in Nat, NEW xv \in 0..60,
         \/ InSrc6(p, n, i, av, xv) \/ BetweenV6(p, n, i, av, xv)
         \/ InDst6(p, n, i, av, xv) \/ AfterV6(p, n, i, av, xv),
         NEW t, NEW i2, NEW a2, NEW x2, Ran(g, p, i, av, xv, t, i2, a2, x2)
  PROVE  Outcome(p, n, t, i2, a2, x2)
<1>1. xv \in Nat /\ p.len \in Nat
  BY NumbersAre
<1>2. TcpV6(p) => IsV6(p) /\ Src6(p) \in Nat /\ Dst6(p) \in Nat
  BY FieldsAreNat DEF TcpV6
<1>3. ASSUME t = "kernel", i2 = 19 + 4 * n, a2 = av, x2 = xv,
             TcpV6(p), Src6(p) \in WatchedOf(n) \/ Dst6(p) \in WatchedOf(n)
      PROVE  Outcome(p, n, t, i2, a2, x2)
  <2>1. Accepted(p, n)
    BY <1>3 DEF Accepted
  <2>2. AtVerdict(p, n, i2, a2, x2)
    BY <1>3, <2>1 DEF AtVerdict
  <2> QED
    BY <1>3, <2>2 DEF Outcome, Located
<1>4. ASSUME NEW j \in Nat, 1 <= j, j <= n, i = 16 + 2 * n + j,
             TcpV6(p), av = Src6(p), NoneOf(Src6(p), j - 1)
      PROVE  Outcome(p, n, t, i2, a2, x2)
  <2>1. /\ t = "kernel" /\ a2 = av /\ x2 = xv
        /\ \/ av \in WatchedOf(n) /\ i2 = 19 + 4 * n
           \/ av # Port(j) /\ i2 = 17 + 2 * n + j
    <3>1. PICK b \in Nat : b = 16 + 2 * n
      OBVIOUS
    <3>2. /\ Tests(g, n, b, 19 + 4 * n) /\ 11 <= b /\ b <= 17 + 3 * n
          /\ b + 1 + j = 17 + 2 * n + j
      BY <3>1 DEF Ipv6At
    <3>3. i = b + j
      BY <1>4, <3>1
    <3>4. Tested(n, b, j, av, xv, t, i2, a2, x2)
      BY <1>1, <1>4, <3>2, <3>3, TestRuns
    <3> QED
      BY <3>2, <3>4 DEF Tested
  <2>2. CASE av \in WatchedOf(n) /\ i2 = 19 + 4 * n
    BY <1>3, <1>4, <2>1, <2>2
  <2>3. CASE av # Port(j) /\ i2 = 17 + 2 * n + j
    <3>1. NoneOf(Src6(p), j)
      BY <1>2, <1>4, <2>3, NoneOfIs
    <3>2. CASE j = n
      <4>1. i2 = 17 + 3 * n
        BY <2>3, <3>2
      <4>2. BetweenV6(p, n, i2, a2, x2)
        BY <1>4, <3>1, <3>2, <4>1 DEF BetweenV6
      <4> QED
        BY <2>1, <4>2 DEF Outcome, Located
    <3>3. CASE j # n
      <4>1. /\ j + 1 \in Nat /\ 1 <= j + 1 /\ j + 1 <= n /\ i2 = 16 + 2 * n + (j + 1)
            /\ (j + 1) - 1 = j
        BY <1>4, <2>3, <3>3
      <4>2. InSrc6(p, n, i2, a2, x2)
        BY <1>4, <2>1, <3>1, <4>1 DEF InSrc6
      <4> QED
        BY <2>1, <4>2 DEF Outcome, Located
    <3> QED
      BY <3>2, <3>3
  <2> QED
    BY <2>1, <2>2, <2>3
<1>5. CASE BetweenV6(p, n, i, av, xv)
  <2>1. i = 17 + 3 * n /\ TcpV6(p) /\ NoneOf(Src6(p), n)
    BY <1>5 DEF BetweenV6
  <2>2. Loaded(p, 56, 2, Dst6(p), i, av, xv, t, i2, a2, x2)
    BY <1>1, <2>1, LdhRuns DEF Ipv6At, Dst6
  <2>3. CASE 56 + 2 > p.len
    <3>1. t = "done" /\ p.len < 74
      BY <1>1, <2>2, <2>3 DEF Loaded
    <3>2. IsV6(p) /\ p.len < 74
      BY <2>1, <3>1 DEF TcpV6
    <3>3. Dropped(p, n)
      BY <3>2, DroppedIs
    <3> QED
      BY <3>1, <3>3 DEF Outcome
  <2>4. CASE ~(56 + 2 > p.len)
    <3>1. t = "kernel" /\ i2 = 17 + 3 * n + 1 /\ a2 = Dst6(p) /\ x2 = xv
      BY <1>1, <2>1, <2>2, <2>4 DEF Loaded
    <3>2. NoneOf(Dst6(p), 1 - 1)
      BY <1>2, <2>1, NoneOfIs
    <3>3. InDst6(p, n, i2, a2, x2)
      BY <2>1, <3>1, <3>2 DEF InDst6
    <3> QED
      BY <1>2, <2>1, <3>1, <3>3 DEF Outcome, Located
  <2> QED
    BY <2>3, <2>4
<1>6. ASSUME NEW j \in Nat, 1 <= j, j <= n, i = 17 + 3 * n + j,
             TcpV6(p), NoneOf(Src6(p), n), av = Dst6(p), NoneOf(Dst6(p), j - 1)
      PROVE  Outcome(p, n, t, i2, a2, x2)
  <2>1. /\ t = "kernel" /\ a2 = av /\ x2 = xv
        /\ \/ av \in WatchedOf(n) /\ i2 = 19 + 4 * n
           \/ av # Port(j) /\ i2 = 18 + 3 * n + j
    <3>1. PICK b \in Nat : b = 17 + 3 * n
      OBVIOUS
    <3>2. /\ Tests(g, n, b, 19 + 4 * n) /\ 11 <= b /\ b <= 17 + 3 * n
          /\ b + 1 + j = 18 + 3 * n + j
      BY <3>1 DEF Ipv6At
    <3>3. i = b + j
      BY <1>6, <3>1
    <3>4. Tested(n, b, j, av, xv, t, i2, a2, x2)
      BY <1>1, <1>6, <3>2, <3>3, TestRuns
    <3> QED
      BY <3>2, <3>4 DEF Tested
  <2>2. CASE av \in WatchedOf(n) /\ i2 = 19 + 4 * n
    BY <1>3, <1>6, <2>1, <2>2
  <2>3. CASE av # Port(j) /\ i2 = 18 + 3 * n + j
    <3>1. NoneOf(Dst6(p), j)
      BY <1>2, <1>6, <2>3, NoneOfIs
    <3>2. CASE j = n
      <4>1. i2 = 18 + 4 * n
        BY <2>3, <3>2
      <4>2. AfterV6(p, n, i2, a2, x2)
        BY <1>6, <3>1, <3>2, <4>1 DEF AfterV6
      <4> QED
        BY <2>1, <4>2 DEF Outcome, Located
    <3>3. CASE j # n
      <4>1. /\ j + 1 \in Nat /\ 1 <= j + 1 /\ j + 1 <= n /\ i2 = 17 + 3 * n + (j + 1)
            /\ (j + 1) - 1 = j
        BY <1>6, <2>3, <3>3
      <4>2. InDst6(p, n, i2, a2, x2)
        BY <1>6, <2>1, <3>1, <4>1 DEF InDst6
      <4> QED
        BY <2>1, <4>2 DEF Outcome, Located
    <3> QED
      BY <3>2, <3>3
  <2> QED
    BY <2>1, <2>2, <2>3
<1>7. CASE AfterV6(p, n, i, av, xv)
  <2>1. /\ i = 18 + 4 * n /\ TcpV6(p)
        /\ NoneOf(Src6(p), n) /\ NoneOf(Dst6(p), n)
    BY <1>7 DEF AfterV6
  <2>2. t = "kernel" /\ i2 = 20 + 4 * n /\ a2 = av /\ x2 = xv
    BY <2>1, OthersRun DEF Ipv6At
  <2>3. Dropped(p, n)
    BY <1>2, <2>1, DroppedIs
  <2>4. AtVerdict(p, n, i2, a2, x2)
    BY <2>2, <2>3 DEF AtVerdict
  <2> QED
    BY <2>2, <2>4 DEF Outcome, Located
<1> QED
  BY <1>4, <1>5, <1>6, <1>7 DEF InSrc6, InDst6

LEMMA VerdictRuns ==
  ASSUME NEW p \in Packets, NEW n \in Nat, NEW g, VerdictsAt(g, n),
         NEW i \in Nat, NEW av, NEW xv, AtVerdict(p, n, i, av, xv),
         NEW t, NEW i2, NEW a2, NEW x2, Ran(g, p, i, av, xv, t, i2, a2, x2)
  PROVE  Outcome(p, n, t, i2, a2, x2)
<1>1. CASE i = 19 + 4 * n /\ Accepted(p, n)
  <2>1. g[i].code = "accept"
    BY <1>1 DEF VerdictsAt
  <2> QED
    BY <1>1, <2>1, OthersRun DEF Outcome
<1>2. CASE i = 20 + 4 * n /\ Dropped(p, n)
  <2>1. g[i].code = "drop"
    BY <1>2 DEF VerdictsAt
  <2> QED
    BY <1>2, <2>1, OthersRun DEF Outcome
<1> QED
  BY <1>1, <1>2 DEF AtVerdict

LEMMA EachRuns ==
  ASSUME NEW p \in Packets, NEW n \in PortCounts, n # 0, 4 * n + 14 < 256,
         NEW i \in Nat, NEW av \in Nat, NEW xv \in 0..60, Located(p, n, i, av, xv),
         NEW t, NEW i2, NEW a2, NEW x2, Ran(Program[n], p, i, av, xv, t, i2, a2, x2)
  PROVE  Outcome(p, n, t, i2, a2, x2)
<1>1. n \in Nat
  BY PacketAssumption
<1>2. PICK g : g = Program[n]
  OBVIOUS
<1>3. DispatchAt(g, n) /\ Ipv4At(g, n) /\ Ipv6At(g, n) /\ VerdictsAt(g, n)
  BY <1>2, ProgramIs
<1>4. Ran(g, p, i, av, xv, t, i2, a2, x2)
  BY <1>2
<1>5. CASE InDispatch(p, n, i, av, xv)
  BY <1>1, <1>3, <1>4, <1>5, DispatchRuns
<1>6. CASE InIpv4(p, n, i, av, xv)
  BY <1>1, <1>3, <1>4, <1>6, Ipv4Runs
<1>7. CASE \/ InSrc4(p, n, i, av, xv) \/ BetweenV4(p, n, i, av, xv)
           \/ InDst4(p, n, i, av, xv) \/ AfterV4(p, n, i, av, xv)
  BY <1>1, <1>3, <1>4, <1>7, Ports4Run
<1>8. CASE InIpv6(p, n, i, av, xv)
  BY <1>1, <1>3, <1>4, <1>8, Ipv6Runs
<1>9. CASE \/ InSrc6(p, n, i, av, xv) \/ BetweenV6(p, n, i, av, xv)
           \/ InDst6(p, n, i, av, xv) \/ AfterV6(p, n, i, av, xv)
  BY <1>1, <1>3, <1>4, <1>9, Ports6Run
<1>10. CASE AtVerdict(p, n, i, av, xv)
  BY <1>1, <1>3, <1>4, <1>10, VerdictRuns
<1> QED
  BY <1>5, <1>6, <1>7, <1>8, <1>9, <1>10 DEF Located

(* Every place that is known is one of the program.                        *)
LEMMA LocatedInProgram ==
  ASSUME NEW p, NEW n \in PortCounts, NEW i, NEW av, NEW xv, Located(p, n, i, av, xv)
  PROVE  i \in DOMAIN Program[n] /\ i \in Nat
<1>1. n \in Nat
  BY PacketAssumption
<1>2. DOMAIN Program[n] = 1..(20 + 4 * n)
  BY ProgramIs
<1>3. CASE InDispatch(p, n, i, av, xv) \/ AtVerdict(p, n, i, av, xv)
  <2>1. i \in 1..5 \/ i = 20 + 4 * n \/ i = 19 + 4 * n
    BY <1>3 DEF InDispatch, AtVerdict
  <2> QED
    BY <1>1, <1>2, <2>1
<1>4. CASE InIpv4(p, n, i, av, xv) \/ InIpv6(p, n, i, av, xv)
  <2>1. CASE InIpv4(p, n, i, av, xv)
    BY <1>1, <1>2, <2>1 DEF InIpv4
  <2>2. CASE InIpv6(p, n, i, av, xv)
    <3>1. i \in {14 + 2 * n, 15 + 2 * n, 16 + 2 * n}
      BY <2>2 DEF InIpv6
    <3> QED
      BY <1>1, <1>2, <3>1
  <2> QED
    BY <1>4, <2>1, <2>2
<1>5. CASE InSrc4(p, n, i, av, xv) \/ BetweenV4(p, n, i, av, xv)
  BY <1>1, <1>2, <1>5 DEF InSrc4, BetweenV4
<1>6. CASE InDst4(p, n, i, av, xv) \/ AfterV4(p, n, i, av, xv)
  BY <1>1, <1>2, <1>6 DEF InDst4, AfterV4
<1>7. CASE InSrc6(p, n, i, av, xv) \/ BetweenV6(p, n, i, av, xv)
  <2>1. \/ \E j \in Nat : 1 <= j /\ j <= n /\ i = 16 + 2 * n + j
        \/ i = 17 + 3 * n
    BY <1>7 DEF InSrc6, BetweenV6
  <2> QED
    BY <1>1, <1>2, <2>1
<1>8. CASE InDst6(p, n, i, av, xv) \/ AfterV6(p, n, i, av, xv)
  BY <1>1, <1>2, <1>8 DEF InDst6, AfterV6
<1> QED
  BY <1>3, <1>4, <1>5, <1>6, <1>7, <1>8 DEF Located

-----------------------------------------------------------------------------
(* The steps.                                                              *)

LEMMA ExecuteRan ==
  ASSUME Execute
  PROVE  /\ stage = "kernel" /\ UNCHANGED <<count, attached, packet>>
         /\ Ran(Program[count], packet, pc, a, x, stage', pc', a', x')
         /\ taken' = taken \/ taken' = FALSE
         /\ stage' # "kernel" => taken' = FALSE /\ UNCHANGED registers
<1> DEFINE I == Program[count][pc]
           Verdict(s, t) == stage' = s /\ taken' = t /\ UNCHANGED registers
<1>1. stage = "kernel" /\ UNCHANGED <<count, attached, packet>>
  BY DEF Execute
<1>2. CASE /\ I.code \in {"ldb", "ldh", "ldhx", "ldxmsh"}
           /\ IF Offset(I) + Width(I.code) > packet.len
              THEN Verdict("done", FALSE)
              ELSE /\ pc' = pc + 1
                   /\ a' = IF I.code = "ldxmsh" THEN a ELSE Field(packet, Offset(I))
                   /\ x' = IF I.code = "ldxmsh" THEN 4 * Field(packet, Offset(I)) ELSE x
                   /\ UNCHANGED <<stage, taken>>
  <2>1. CASE Offset(I) + Width(I.code) > packet.len
    BY <1>1, <1>2, <2>1 DEF Ran, Offset, registers
  <2>2. CASE ~(Offset(I) + Width(I.code) > packet.len)
    BY <1>1, <1>2, <2>2 DEF Ran, Offset
  <2> QED
    BY <2>1, <2>2
<1>3. CASE /\ I.code \in {"jeq", "jset"}
           /\ pc' = pc + 1 + Distance(IF Holds(I) THEN I.jt ELSE I.jf, pc)
           /\ UNCHANGED <<stage, taken, a, x>>
  BY <1>1, <1>3 DEF Ran, Holds
<1>4. CASE I.code = "ja" /\ pc' = I.jt /\ UNCHANGED <<stage, taken, a, x>>
  BY <1>1, <1>4 DEF Ran
<1>5. CASE I.code = "accept" /\ Verdict("user", FALSE)
  BY <1>1, <1>5 DEF Ran, registers
<1>6. CASE I.code = "drop" /\ Verdict("done", FALSE)
  BY <1>1, <1>6 DEF Ran, registers
<1> HIDE DEF I, Verdict
<1>7. \/ /\ I.code \in {"ldb", "ldh", "ldhx", "ldxmsh"}
         /\ IF Offset(I) + Width(I.code) > packet.len
            THEN Verdict("done", FALSE)
            ELSE /\ pc' = pc + 1
                 /\ a' = IF I.code = "ldxmsh" THEN a ELSE Field(packet, Offset(I))
                 /\ x' = IF I.code = "ldxmsh" THEN 4 * Field(packet, Offset(I)) ELSE x
                 /\ UNCHANGED <<stage, taken>>
      \/ /\ I.code \in {"jeq", "jset"}
         /\ pc' = pc + 1 + Distance(IF Holds(I) THEN I.jt ELSE I.jf, pc)
         /\ UNCHANGED <<stage, taken, a, x>>
      \/ I.code = "ja" /\ pc' = I.jt /\ UNCHANGED <<stage, taken, a, x>>
      \/ I.code = "accept" /\ Verdict("user", FALSE)
      \/ I.code = "drop" /\ Verdict("done", FALSE)
  BY DEF Execute, I, Verdict
<1> QED
  BY <1>2, <1>3, <1>4, <1>5, <1>6, <1>7

LEMMA InterestingIs == \A p : Interesting(p) <=> Wanted(p, count)
BY DEF Interesting, Wanted, Watched, WatchedOf

LEMMA FirstIsLocated ==
  ASSUME NEW n \in PortCounts
  PROVE  /\ 1 \in DOMAIN Program[n]
         /\ \A p, av, xv : Located(p, n, 1, av, xv)
<1>1. n \in Nat
  BY PacketAssumption
<1> QED
  BY <1>1, ProgramIs DEF Located, InDispatch

(* As far as the program has read a packet it knows what it says; what it  *)
(* hands up asks to be looked at, and what it drops nobody wants.          *)
THEOREM FilterInductive ==
  ASSUME JumpsFit
  PROVE  Spec => []FInv
<1>1. Init => FInv
  <2> SUFFICES ASSUME Init PROVE FInv
    OBVIOUS
  <2>1. /\ stage = "none" /\ count \in PortCounts /\ pc = 1 /\ a = 0 /\ x = 0
        /\ taken = FALSE
    BY DEF Init, Open
  <2>2. attached => FilterUsed(count)
    BY DEF Init, Open
  <2>3. packet \in Packets
    BY PacketAssumption DEF Init
  <2>4. pc \in DOMAIN Program[count]
    BY <2>1, FirstIsLocated
  <2>5. a \in Nat /\ x \in 0..60
    BY <2>1
  <2>6. taken \in BOOLEAN
    BY <2>1
  <2> QED
    BY <2>1, <2>2, <2>3, <2>4, <2>5, <2>6 DEF FInv, TypeOK
<1>2. FInv /\ [Next]_vars => FInv'
  <2> SUFFICES ASSUME FInv, [Next]_vars PROVE FInv'
    OBVIOUS
  <2>1. TypeOK
    BY DEF FInv
  <2>2. CASE Execute
    <3>1. PICK p, n, i, av, xv, t, i2, a2, x2 :
            /\ p = packet /\ n = count /\ i = pc /\ av = a /\ xv = x
            /\ t = stage' /\ i2 = pc' /\ a2 = a' /\ x2 = x'
      OBVIOUS
    <3>2. /\ stage = "kernel" /\ UNCHANGED <<count, attached, packet>>
          /\ Ran(Program[n], p, i, av, xv, t, i2, a2, x2)
          /\ taken' \in BOOLEAN
          /\ t # "kernel" => taken' = FALSE /\ UNCHANGED registers
      BY <2>1, <2>2, <3>1, ExecuteRan DEF TypeOK
    <3>3. attached /\ Located(p, n, i, av, xv)
      BY <3>1, <3>2 DEF FInv
    <3>4. /\ p \in Packets /\ n \in PortCounts /\ av \in Nat /\ xv \in 0..60
          /\ n # 0 /\ 4 * n + 14 < 256
      BY <2>1, <3>1, <3>3, PacketAssumption DEF TypeOK, FilterUsed, JumpsFit
    <3>5. i \in Nat /\ i \in DOMAIN Program[n]
      BY <3>3, <3>4, LocatedInProgram
    <3>6. Outcome(p, n, t, i2, a2, x2)
      BY <3>2, <3>3, <3>4, <3>5, EachRuns
    <3>7. /\ count' \in PortCounts /\ packet' \in Packets
          /\ attached' => FilterUsed(count')
      BY <2>1, <3>2 DEF TypeOK, FilterUsed
    <3>8. CASE /\ t = "kernel" /\ a2 \in Nat /\ x2 \in 0..60
               /\ Located(p, n, i2, a2, x2)
      <4>1. pc' \in DOMAIN Program[count']
        BY <3>1, <3>2, <3>4, <3>8, LocatedInProgram
      <4>2. Located(packet', count', pc', a', x') /\ attached'
        BY <3>1, <3>2, <3>3, <3>8
      <4> QED
        BY <3>1, <3>2, <3>7, <3>8, <4>1, <4>2 DEF FInv, TypeOK
    <3>9. CASE t = "user" /\ Accepted(p, n)
      <4>1. pc' \in DOMAIN Program[count'] /\ a' \in Nat /\ x' \in 0..60
        BY <2>1, <3>2, <3>9 DEF TypeOK, registers
      <4>2. Accepted(packet', count')
        BY <3>1, <3>2, <3>9
      <4> QED
        BY <3>1, <3>2, <3>7, <3>9, <4>1, <4>2 DEF FInv, TypeOK
    <3>10. CASE t = "done" /\ Dropped(p, n)
      <4>1. pc' \in DOMAIN Program[count'] /\ a' \in Nat /\ x' \in 0..60
        BY <2>1, <3>2, <3>10 DEF TypeOK, registers
      <4>2. taken' = FALSE
        BY <3>2, <3>10
      <4>3. packet'.ext = <<>> => Interesting(packet)' = FALSE
        <5> SUFFICES ASSUME packet'.ext = <<>> PROVE ~Interesting(packet)'
          BY DEF Interesting, Parses
        <5>1. ~Wanted(packet', count')
          BY <3>1, <3>2, <3>10 DEF Dropped
        <5> QED
          BY <5>1 DEF Interesting, Wanted, Watched, WatchedOf
      <4>4. packet'.ext = <<>> => taken' = Interesting(packet)'
        BY <4>2, <4>3
      <4> QED
        BY <3>1, <3>2, <3>7, <3>10, <4>1, <4>4 DEF FInv, TypeOK
    <3> QED
      BY <3>6, <3>8, <3>9, <3>10 DEF Outcome
  <2>3. CASE Userspace
    <3>1. /\ UNCHANGED <<count, attached, packet, registers>>
          /\ stage' = "done" /\ taken' = Interesting(packet)
      BY <2>3 DEF Userspace
    <3>2. Interesting(packet)' = Interesting(packet)
      BY <3>1 DEF Interesting, Watched
    <3>3. Interesting(packet) \in BOOLEAN
      BY DEF Interesting
    <3>4. TypeOK'
      BY <2>1, <3>1, <3>3 DEF TypeOK, registers, FilterUsed
    <3> QED
      BY <3>1, <3>2, <3>4 DEF FInv
  <2>4. ASSUME NEW p \in Packets, Arrive(p) PROVE FInv'
    <3>1. /\ UNCHANGED <<count, attached>> /\ packet' = p
          /\ stage' = IF attached THEN "kernel" ELSE "user"
          /\ pc' = 1 /\ a' = 0 /\ x' = 0 /\ taken' = FALSE
      BY <2>4 DEF Arrive
    <3>2. /\ 1 \in DOMAIN Program[count] /\ Located(p, count, 1, 0, 0)
      BY <2>1, FirstIsLocated DEF TypeOK
    <3>3. TypeOK'
      <4>1. pc' \in DOMAIN Program[count']
        BY <3>1, <3>2
      <4>2. /\ a' \in Nat /\ x' \in 0..60 /\ packet' \in Packets
            /\ stage' \in {"none", "kernel", "user", "done"}
        BY <3>1
      <4>3. taken' \in BOOLEAN
        BY <3>1
      <4>4. count' \in PortCounts /\ (attached' => FilterUsed(count'))
        BY <2>1, <3>1 DEF TypeOK
      <4> QED
        BY <4>1, <4>2, <4>3, <4>4 DEF TypeOK
    <3>4. CASE attached
      BY <3>1, <3>2, <3>3, <3>4 DEF FInv
    <3>5. CASE ~attached
      BY <3>1, <3>3, <3>5 DEF FInv
    <3> QED
      BY <3>4, <3>5
  <2>5. CASE UNCHANGED vars
    <3>1. UNCHANGED <<count, attached, stage, packet, pc, a, x, taken>>
      BY <2>5 DEF vars
    <3>2. TypeOK' /\ Interesting(packet)' = Interesting(packet)
      BY <2>1, <3>1 DEF TypeOK, FilterUsed, Interesting, Watched
    <3> QED
      BY <3>1, <3>2 DEF FInv
  <2> QED
    BY <2>2, <2>3, <2>4, <2>5 DEF Next
<1> QED
  BY <1>1, <1>2, PTL DEF Spec

(* The program counter stays in the program and the registers hold what a  *)
(* packet can put into them.                                               *)
THEOREM TypeTheorem == ASSUME JumpsFit PROVE Spec => []TypeOK
<1>1. FInv => TypeOK
  BY DEF FInv
<1> QED
  BY <1>1, FilterInductive, PTL

(* With a filter in the kernel or without, for every port list and every   *)
(* packet without extension headers: what is taken is what the parser and  *)
(* the port test of user space take (build_filter of sock.rs).             *)
THEOREM FilterInvisibleTheorem == ASSUME JumpsFit PROVE Spec => []FilterInvisible
<1>1. FInv => FilterInvisible
  BY DEF FInv, FilterInvisible
<1> QED
  BY <1>1, FilterInductive, PTL

(* What the program hands up of untagged packets is TCP, is no fragment    *)
(* and has a watched port where it looked for one (build_filter of         *)
(* sock.rs).                                                               *)
THEOREM FilterSelectiveTheorem == ASSUME JumpsFit PROVE Spec => []FilterSelective
<1>1. FInv => FilterSelective
  <2> SUFFICES ASSUME FInv, stage = "user", attached, packet.tags = <<>>
               PROVE  /\ packet.ethertype \in {ETHERTYPE_IPV4, ETHERTYPE_IPV6}
                      /\ FirstHeader(packet) = IPPROTO_TCP
                      /\ packet.ethertype = ETHERTYPE_IPV4 => packet.frag % 16384 = 0
                      /\ {packet.sport, packet.dport, packet.rest} \cap Watched # {}
    BY DEF FilterSelective
  <2>1. PICK p \in Packets, n \in PortCounts : p = packet /\ n = count
    BY DEF FInv, TypeOK
  <2>2. Accepted(p, n) /\ p.tags = <<>> /\ n # 0 /\ n \in Nat /\ 4 * n + 14 < 256
    BY <2>1, PacketAssumption DEF FInv, TypeOK, FilterUsed, JumpsFit
  <2>3. Watched = WatchedOf(n)
    BY <2>1 DEF Watched, WatchedOf
  <2>4. ASSUME NEW v \in Nat, v < 1001 \/ v % 16384 = 0 PROVE v \notin WatchedOf(n)
    <3> SUFFICES ASSUME v \in WatchedOf(n) PROVE FALSE
      OBVIOUS
    <3>1. PICK j \in 1..n : v = 1000 + j
      BY DEF WatchedOf, Port
    <3>2. v >= 1001 /\ v < 16384 /\ v > 0
      BY <2>2, <3>1
    <3>3. v % 16384 = v
      BY <3>2
    <3> QED
      BY <2>4, <3>2, <3>3
  <2>5. CASE WholeV4(p) /\ (Src4(p) \in WatchedOf(n) \/ Dst4(p) \in WatchedOf(n))
    <3>1. p.ethertype = ETHERTYPE_IPV4 /\ p.proto = IPPROTO_TCP /\ p.frag % 16384 = 0
      BY <2>5 DEF WholeV4, TcpV4, IsV4
    <3>2. FirstHeader(p) = IPPROTO_TCP
      <4>1. p.ext = <<>>
        BY <3>1, PacketIs DEF ETHERTYPE_IPV4, ETHERTYPE_IPV6
      <4> QED
        BY <3>1, <4>1 DEF FirstHeader
    <3>3. p.ihl \notin WatchedOf(n) /\ p.frag \notin WatchedOf(n)
      BY <2>4, <3>1, NumbersAre
    <3>4. p.sport \in WatchedOf(n) \/ p.dport \in WatchedOf(n) \/ p.rest \in WatchedOf(n)
      <4>1. CASE p.ihl >= 5
        BY <2>5, <3>1, <4>1, FieldIs
      <4>2. CASE p.ihl < 5
        <5>1. Src4(p) \in {p.ihl, p.frag, p.rest} /\ Dst4(p) \in {p.ihl, p.frag, p.rest}
          BY <3>1, <4>2, FieldIs
        <5> QED
          BY <2>5, <3>3, <5>1
      <4> QED
        BY <4>1, <4>2, NumbersAre
    <3> QED
      BY <2>1, <2>3, <3>1, <3>2, <3>4
  <2>6. CASE TcpV6(p) /\ (Src6(p) \in WatchedOf(n) \/ Dst6(p) \in WatchedOf(n))
    <3>1. p.ethertype = ETHERTYPE_IPV6 /\ FirstHeader(p) = IPPROTO_TCP
      BY <2>6 DEF TcpV6, IsV6
    <3>2. p.ethertype # ETHERTYPE_IPV4
      BY <3>1 DEF ETHERTYPE_IPV4, ETHERTYPE_IPV6
    <3>3. p.sport \in WatchedOf(n) \/ p.dport \in WatchedOf(n) \/ p.rest \in WatchedOf(n)
      BY <2>6, <3>2, FieldIs
    <3> QED
      BY <2>1, <2>3, <3>1, <3>2, <3>3
  <2> QED
    BY <2>2, <2>5, <2>6 DEF Accepted
<1> QED
  BY <1>1, FilterInductive, PTL
================================================================================
