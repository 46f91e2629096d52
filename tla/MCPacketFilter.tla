---------------------------- MODULE MCPacketFilter ----------------------------
(***************************************************************************)
(* PacketFilter for TLC: sound packets of both versions, and those that    *)
(* differ from a sound one in one field.                                   *)
(***************************************************************************)
EXTENDS PacketFilter

(* No port watched, the first, the last of the longest list a filter is    *)
(* made for, and the first one beyond it.                                  *)
Ports == {Port(0), Port(1), Port(60), Port(61)}

(* A segment without payload.                                              *)
V4(s, d) ==
  [tags |-> <<>>, ethertype |-> ETHERTYPE_IPV4, version |-> 4, ihl |-> 5, frag |-> 16384,
   proto |-> IPPROTO_TCP, ext |-> <<>>, total |-> 40, sport |-> s, dport |-> d, doff |-> 5,
   rest |-> 0, len |-> 54]

V6(s, d) ==
  [V4(s, d) EXCEPT !.ethertype = ETHERTYPE_IPV6, !.version = 6, !.ihl = 0, !.frag = 0,
                   !.total = 20, !.len = 74]

Sound == {V4(s, d) : s \in Ports, d \in Ports} \cup {V6(s, d) : s \in Ports, d \in Ports}

Shapes == UNION {{V4(s, d), V6(s, d)} : <<s, d>> \in {<<Port(1), Port(0)>>, <<Port(0), Port(60)>>}}

Altered(p) ==
  {[p EXCEPT !.tags = <<t>>, !.len = @ + n] : t \in Tags, n \in {0, 4}}
    \cup {[p EXCEPT !.tags = <<ETHERTYPE_QINQ, ETHERTYPE_VLAN>>, !.len = @ + 8]}
    \cup {[p EXCEPT !.ethertype = 2054]}
    \cup {[p EXCEPT !.version = 5]}
    \cup {[p EXCEPT !.proto = 17]}
    \cup {[p EXCEPT !.rest = r, !.ihl = h] : r \in {0, Port(1)}, h \in {4, 5, 6}}
    \cup {[p EXCEPT !.ihl = 8, !.total = @ + 12, !.len = @ + 12]}
    \cup {[p EXCEPT !.frag = f] : f \in {0, 1, 8192, 16385}}
    \cup {[p EXCEPT !.total = t] : t \in {19, 20, 39, 41}}
    \cup {[p EXCEPT !.doff = d] : d \in {4, 6}}
    \cup {[p EXCEPT !.len = n] : n \in {13, 14, 33, 37, 38, 53, 57, 58, 73}}

Extended(p) ==
  IF p.ethertype # ETHERTYPE_IPV6 THEN {}
  ELSE {[p EXCEPT !.ext = <<[typ |-> t, units |-> 1]>>, !.total = @ + 8, !.len = @ + 8] : t \in {0, 44}}

SomePackets == Sound \cup UNION {Altered(p) \cup Extended(p) : p \in Shapes}
===============================================================================
