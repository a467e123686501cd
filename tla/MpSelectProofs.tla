---------------------------- MODULE MpSelectProofs -----------------------------
(***************************************************************************)
(* Proofs about the network of mpSelect agents, for any number of cores,   *)
(* interfaces, paths, flows and packets, any topology that satisfies       *)
(* WiringAssumption, any links that lose and delay, wired or through a     *)
(* MAC, and any commands.                                                  *)
(* The theorem on send times also takes SetUpAssumption (the tables are    *)
(* set up before the first ping is sent) and NoWrap (the run ends before   *)
(* a ping's sequence number wraps).                                        *)
(***************************************************************************)
EXTENDS MpSelect, MpRtableProofs

-----------------------------------------------------------------------------
(* Packets. *)

PingHdr ==
  [type : {"PING_PKT", "PING_BAK"}, s_intf : Intf, d_intf : Intf,
   s_select : Core, d_select : Core, send_time : Nat, ping_seq : Nat]

DataHdr ==
  [type : {"DATA_PKT"}, former_addr : {f.daddr : f \in Flow},
   former_port : {f.dport : f \in Flow}, former_ptype : {f.ptype : f \in Flow},
   send_time : Nat, s_intf : Intf, d_intf : Intf, s_select : Core, d_select : Core]

(* What the fields of a packet range over. *)
PTypes == {"MPSELECT"} \cup {f.ptype : f \in Flow}
DPorts == {0} \cup {f.dport : f \in Flow}
Directions == {"NONE", "DOWN", "UP"}
Headers == {NoHdr} \cup PingHdr \cup DataHdr
FlowOrNone == {NoHdr} \cup Flow
Ttls == 0..IP_DEF_TTL
NextHops == Intf \cup Hop \cup {IP_BROADCAST, NoHop}

Packet ==
  [ptype : PTypes, saddr : Int, daddr : Stop, dport : DPorts, size : Nat, ttl : Ttls,
   num_forwards : Nat, direction : Directions, next_hop : NextHops, local : BOOLEAN,
   hdr : Headers, at : Stop, orig : Nat, nth : Nat, via : SUBSET Node, flow : FlowOrNone]

(* Where a packet of path h is, and what it has passed: its destination    *)
(* address runs ahead of it where a MAC returns it or takes it to the next *)
(* hop instead.                                                            *)
OnPath(p, h) ==
  /\ Wire(h.s_select, h.d_select, h.s_intf, h.d_intf)
  /\ \/ /\ p.at = h.s_intf
        /\ p.daddr \in {h.s_intf, h.d_intf} /\ p.next_hop \in {h.s_intf, h.d_intf}
     \/ /\ p.at = h.d_intf /\ p.next_hop = h.d_intf
        /\ h.s_intf \in p.via \/ Skips(h)
     \/ /\ p.at = h.d_select /\ h.d_intf \in p.via
        /\ h.s_intf \in p.via \/ Skips(h)

(* A ping or an answer is its sender's, comes back only to an interface    *)
(* that returns it, and has been through a MAC before its first interface  *)
(* only if its sender sends through one.                                   *)
PingOK(p, h) ==
  /\ OnPath(p, h)
  /\ p.saddr = h.s_select
  /\ p.at \in p.via => Returns(p.at)
  /\ p.at = h.s_intf => p.via \subseteq {h.s_intf}
  /\ p.at = h.s_intf /\ p.via = {} /\ p.num_forwards > 0 => h.s_select \in MacNode
  /\ p.at = h.d_intf => p.via \subseteq {h.s_intf, h.d_intf}

(* Encapsulated data carries what it needs to be restored. *)
DataFor(p, h) ==
  /\ p.flow \in Flow /\ p.saddr = p.flow.saddr
  /\ h.former_addr = p.flow.daddr /\ h.former_port = p.flow.dport
  /\ h.former_ptype = p.flow.ptype
  /\ p.size = p.flow.size + MPSELECT_HDR_LEN

DataOK(p, h) == OnPath(p, h) /\ DataFor(p, h)

(* Any other packet has the headers and the size of a flow. *)
IsFlows(p) ==
  /\ p.flow \in Flow /\ p.saddr = p.flow.saddr
  /\ p.daddr = p.flow.daddr /\ p.dport = p.flow.dport /\ p.ptype = p.flow.ptype
  /\ p.size = p.flow.size
  /\ p.hdr \notin PingHdr

PlainOK(p) == IsFlows(p) /\ p.at \in Node \cup {p.daddr}

(* Only MACs turn packets upwards. *)
TurnedOK(p) ==
  p.direction = "UP" => MacNode # {} \/ (p.flow \in Flow /\ p.flow.direction = "UP")

PktOK(p) ==
  /\ p \in Packet /\ TurnedOK(p)
  /\ p.ptype = "MPSELECT" => \/ p.hdr \in PingHdr /\ PingOK(p, p.hdr)
                             \/ p.hdr \in DataHdr /\ DataOK(p, p.hdr)
  /\ p.ptype # "MPSELECT" => PlainOK(p)

(* Every path of the map is a path of the topology from core n. *)
Wired(n, P) == \A b \in DOMAIN P : \A e \in Range(P[b]) : Wire(n, b, e[1], e[2])

TableOK(n, T) == Good(T) /\ Wired(n, AbsPeers(T))

TablesOK ==
  /\ rtable = [n \in Node |-> rtable[n]]
  /\ \A n \in Node : TableOK(n, rtable[n])

NetOK == \A p \in net : PktOK(p) /\ (p.hdr \notin PingHdr => p.flow \in sent)

TimersOK ==
  /\ timer \in [Node -> [status : {"IDLE", "PENDING"}, time : Nat]]
  /\ started \in [Node -> BOOLEAN]
  /\ StartedMeansPending

CountersOK ==
  /\ sent \subseteq Flow /\ now \in 0..MaxTime /\ cmds \in 0..MaxCmds
  /\ {aborted, steady} \subseteq BOOLEAN

DeliveredOK == \A p \in delivered : p.at \notin Node /\ PlainOK(p)

IInv ==
  TablesOK /\ NetOK /\ TimersOK /\ CountersOK /\ DeliveredOK /\ AbortNeedsLocalData

-----------------------------------------------------------------------------
(* What the operators on packets do to the fields. *)

LEMMA FieldValues ==
  /\ "MPSELECT" \in PTypes /\ 0 \in DPorts /\ IP_DEF_TTL \in Ttls
  /\ NoHdr \in Headers /\ NoHdr \in FlowOrNone
  /\ "UP" \in Directions /\ "DOWN" \in Directions /\ "NONE" \in Directions
  /\ \A h \in PingHdr : h \in Headers
  /\ \A h \in DataHdr : h \in Headers
  /\ \A f \in Flow : f.ptype \in PTypes /\ f.dport \in DPorts /\ f \in FlowOrNone
<1>1. IP_DEF_TTL \in Ttls
  BY NetworkAssumption DEF Ttls
<1>. QED  BY <1>1 DEF PTypes, DPorts, Headers, FlowOrNone, Directions

LEMMA PacketFields ==
  ASSUME NEW p \in Packet
  PROVE  /\ p.saddr \in Int /\ p.daddr \in Stop /\ p.at \in Stop /\ p.size \in Nat
         /\ p.ttl \in 0..IP_DEF_TTL /\ p.num_forwards \in Nat /\ p.orig \in Nat /\ p.nth \in Nat
         /\ p.direction \in {"NONE", "DOWN", "UP"} /\ p.via \subseteq Node
         /\ p.hdr \in {NoHdr} \cup PingHdr \cup DataHdr /\ p.next_hop \in NextHops
         /\ p.local \in BOOLEAN
BY DEF Packet, Ttls, Directions, Headers

(* The fields a link does not change. *)
SameLoad(p, q) ==
  /\ q.ptype = p.ptype /\ q.saddr = p.saddr /\ q.daddr = p.daddr /\ q.dport = p.dport
  /\ q.size = p.size /\ q.hdr = p.hdr /\ q.orig = p.orig /\ q.nth = p.nth
  /\ q.via = p.via /\ q.flow = p.flow /\ q.next_hop = p.next_hop

LEMMA PacketAt ==
  ASSUME NEW p \in Packet, NEW a \in Stop, NEW q, q = [p EXCEPT !.at = a]
  PROVE  /\ q \in Packet /\ SameLoad(p, q) /\ q.at = a /\ q.direction = p.direction
         /\ q.num_forwards = p.num_forwards /\ q.ttl = p.ttl
BY DEF Packet, SameLoad

LEMMA PacketLocal ==
  ASSUME NEW p \in Packet, NEW b \in BOOLEAN, NEW q, q = [p EXCEPT !.local = b]
  PROVE  /\ q \in Packet /\ SameLoad(p, q) /\ q.at = p.at /\ q.direction = p.direction
         /\ q.num_forwards = p.num_forwards /\ q.ttl = p.ttl
BY DEF Packet, SameLoad

LEMMA PacketMoved ==
  ASSUME NEW p \in Packet, NEW a \in Stop, NEW q, q = [p EXCEPT !.at = a, !.local = FALSE]
  PROVE  /\ q \in Packet /\ SameLoad(p, q) /\ q.at = a /\ q.direction = p.direction
         /\ q.num_forwards = p.num_forwards
BY DEF Packet, SameLoad

LEMMA PacketSpread ==
  ASSUME NEW p \in Packet, NEW S, S \subseteq Stop,
         NEW q \in {[p EXCEPT !.at = m, !.local = FALSE] : m \in S}
  PROVE  q \in Packet /\ SameLoad(p, q) /\ q.at \in S
<1>1. PICK m \in S : q = [p EXCEPT !.at = m, !.local = FALSE]
  OBVIOUS
<1>. QED  BY <1>1, PacketMoved

LEMMA PacketMac ==
  ASSUME NEW p \in Packet, NEW q,
         q = [p EXCEPT !.num_forwards = @ + 1, !.direction = "UP"]
  PROVE  q \in Packet /\ SameLoad(p, q) /\ q.at = p.at
<1>1. p.num_forwards + 1 \in Nat
  BY PacketFields
<1>. QED  BY <1>1, FieldValues DEF Packet, SameLoad

LEMMA PacketTtl ==
  ASSUME NEW p \in Packet, p.ttl - 1 >= 0, NEW q, q = [p EXCEPT !.ttl = @ - 1]
  PROVE  /\ q \in Packet /\ SameLoad(p, q) /\ q.at = p.at /\ q.direction = p.direction
         /\ q.num_forwards = p.num_forwards
<1>1. p.ttl - 1 \in Ttls
  BY PacketFields, NetworkAssumption DEF Ttls
<1>. QED  BY <1>1 DEF Packet, SameLoad

(* By wire a packet comes to where the classifiers route it, unchanged. *)
LEMMA Wires ==
  ASSUME NEW p \in Packet, NEW n \in Node, NEW r \in OnWire(n, p)
  PROVE  /\ r \in Packet /\ SameLoad(p, r) /\ r.at = NextStop(n, p)
         /\ r.num_forwards = p.num_forwards /\ r.direction = p.direction
<1> DEFINE q == [p EXCEPT !.at = NextStop(n, p)]
           u == [q EXCEPT !.ttl = @ - 1]
<1>1. NextStop(n, p) \in Stop
  BY PacketFields DEF NextStop, Stop
<1>2. /\ q \in Packet /\ SameLoad(p, q) /\ q.at = NextStop(n, p)
      /\ q.direction = p.direction
      /\ q.num_forwards = p.num_forwards /\ q.ttl = p.ttl
  BY <1>1, PacketAt
<1>3. OnWire(n, p) =
        IF q.at = n THEN {[q EXCEPT !.local = TRUE]}
        ELSE IF p.ttl - 1 <= 0 THEN {} ELSE {[q EXCEPT !.ttl = @ - 1, !.local = FALSE]}
  BY DEF OnWire
<1> HIDE DEF q
<1>4. CASE q.at = n
  <2>1. r = [q EXCEPT !.local = TRUE]
    BY <1>3, <1>4
  <2>2. /\ r \in Packet /\ SameLoad(q, r) /\ r.at = q.at /\ r.direction = q.direction
        /\ r.num_forwards = q.num_forwards
    BY <1>2, <2>1, PacketLocal
  <2>. QED  BY <1>2, <2>2 DEF SameLoad
<1>5. CASE q.at # n
  <2>1. ~ (p.ttl - 1 <= 0) /\ r = [q EXCEPT !.ttl = @ - 1, !.local = FALSE]
    BY <1>3, <1>5
  <2>2. q.ttl - 1 >= 0
    BY <1>2, <2>1, PacketFields, NetworkAssumption
  <2>3. /\ u \in Packet /\ SameLoad(q, u) /\ u.at = q.at /\ u.direction = q.direction
        /\ u.num_forwards = q.num_forwards
    BY <1>2, <2>2, PacketTtl
  <2>4. r = [u EXCEPT !.local = FALSE]
    BY <2>1
  <2> HIDE DEF u
  <2>5. /\ r \in Packet /\ SameLoad(u, r) /\ r.at = u.at /\ r.direction = u.direction
        /\ r.num_forwards = u.num_forwards
    BY <2>3, <2>4, PacketLocal
  <2>. QED  BY <1>2, <2>3, <2>5 DEF SameLoad
<1>. QED  BY <1>4, <1>5

LEMMA Hears ==
  ASSUME NEW p \in Packet, NEW m \in Node, NEW r \in Heard(m, p)
  PROVE  /\ r \in Packet /\ SameLoad(p, r)
         /\ (r.at = m /\ m \in Default) \/ r.at = NextStop(m, p)
<1>1. CASE m \in Default \cup {NextStop(m, p)}
  <2>1. m \in Stop /\ r = [p EXCEPT !.at = m, !.local = FALSE]
    BY <1>1 DEF Heard, Stop
  <2>2. r \in Packet /\ SameLoad(p, r) /\ r.at = m
    BY <2>1, PacketMoved
  <2>. QED  BY <1>1, <2>2
<1>2. CASE m \notin Default \cup {NextStop(m, p)}
  <2>1. r \in OnWire(m, p)
    BY <1>2 DEF Heard
  <2>. QED  BY <2>1, Wires
<1>. QED  BY <1>1, <1>2

(* Where p, sent by n, may come up as r. *)
Reaches(n, p, r) ==
  \/ n \notin MacNode /\ r.at = NextStop(n, p)
  \/ n \in MacNode /\ p.direction = "UP" /\ r.at = n
  \/ /\ n \in MacNode /\ p.next_hop \in Node \ {n}
     /\ (r.at = p.next_hop /\ p.next_hop \in Default) \/ r.at = NextStop(p.next_hop, p)
  \/ n \in MacNode /\ p.next_hop \notin Node /\ r.at \in Node \cup {p.daddr}

(* r is p on its way from n. *)
Travels(n, p, r) ==
  /\ r \in Packet /\ SameLoad(p, r) /\ Reaches(n, p, r)
  /\ r.num_forwards > 0 => p.num_forwards > 0 \/ n \in MacNode
  /\ r.direction = "UP" => p.direction = "UP" \/ n \in MacNode

LEMMA Launched ==
  ASSUME NEW p \in Packet, NEW n \in Node, NEW r \in Launch(n, p)
  PROVE  Travels(n, p, r)
<1>1. CASE n \notin MacNode
  <2>1. r \in OnWire(n, p)
    BY <1>1 DEF Launch
  <2>2. /\ r \in Packet /\ SameLoad(p, r) /\ r.at = NextStop(n, p)
        /\ r.num_forwards = p.num_forwards /\ r.direction = p.direction
    BY <2>1, Wires
  <2>. QED  BY <1>1, <2>2 DEF Travels, Reaches
<1>2. CASE n \in MacNode
  <2> DEFINE q == [p EXCEPT !.num_forwards = @ + 1, !.direction = "UP"]
  <2>1. q \in Packet /\ SameLoad(p, q)
    BY PacketMac
  <2>2. r \in IF p.direction = "UP" THEN {[p EXCEPT !.at = n, !.local = FALSE]}
              ELSE IF p.next_hop \in Node \ {n} THEN Heard(p.next_hop, q)
              ELSE IF p.next_hop = n THEN {}
              ELSE {[q EXCEPT !.at = m, !.local = FALSE] :
                      m \in IF p.next_hop = IP_BROADCAST THEN Default \ {n} ELSE {p.daddr}}
    BY <1>2 DEF Launch, OnAir
  <2> HIDE DEF q
  <2>3. CASE p.direction = "UP"
    <3>1. r = [p EXCEPT !.at = n, !.local = FALSE] /\ n \in Stop
      BY <2>2, <2>3 DEF Stop
    <3>2. r \in Packet /\ SameLoad(p, r) /\ r.at = n
      BY <3>1, PacketMoved
    <3>. QED  BY <1>2, <2>3, <3>2 DEF Travels, Reaches
  <2>4. CASE p.direction # "UP" /\ p.next_hop \in Node \ {n}
    <3> DEFINE m == p.next_hop
    <3>1. r \in Heard(m, q) /\ m \in Node
      BY <2>2, <2>4
    <3> HIDE DEF m
    <3>2. /\ r \in Packet /\ SameLoad(q, r)
          /\ (r.at = m /\ m \in Default) \/ r.at = NextStop(m, q)
      BY <2>1, <3>1, Hears
    <3>3. SameLoad(p, r) /\ NextStop(m, q) = NextStop(m, p)
      BY <2>1, <3>2 DEF SameLoad, NextStop
    <3>. QED  BY <1>2, <2>4, <3>2, <3>3 DEF Travels, Reaches, m
  <2>5. CASE p.direction # "UP" /\ p.next_hop \notin Node \ {n}
    <3>1. p.next_hop # n
      BY <2>2, <2>5
    <3> DEFINE S == IF p.next_hop = IP_BROADCAST THEN Default \ {n} ELSE {p.daddr}
    <3>2. S \subseteq Stop /\ S \subseteq Node \cup {p.daddr}
      BY PacketFields, NetworkAssumption DEF Stop
    <3>3. r \in {[q EXCEPT !.at = m, !.local = FALSE] : m \in S}
      BY <2>2, <2>5, <3>1
    <3> HIDE DEF S
    <3>4. r \in Packet /\ SameLoad(q, r) /\ r.at \in S
      BY <2>1, <3>2, <3>3, PacketSpread
    <3>5. SameLoad(p, r) /\ p.next_hop \notin Node
      BY <2>1, <2>5, <3>1, <3>4 DEF SameLoad
    <3>. QED  BY <1>2, <3>2, <3>4, <3>5 DEF Travels, Reaches
  <2>. QED  BY <2>3, <2>4, <2>5
<1>. QED  BY <1>1, <1>2

(* A packet of a path, sent towards one of its interfaces. *)
LEMMA PathTravels ==
  ASSUME NEW p \in Packet, p.ptype = "MPSELECT", p.next_hop \in Node,
         NEW n \in Node, NEW r, Travels(n, p, r)
  PROVE  \/ n \notin MacNode /\ r.at = p.daddr
         \/ n \in MacNode /\ p.direction = "UP" /\ r.at = n
         \/ /\ n \in MacNode /\ p.next_hop # n
            /\ (r.at = p.next_hop /\ p.next_hop \in Default) \/ r.at = p.daddr
BY DEF Travels, Reaches, NextStop

LEMMA Entered ==
  ASSUME NEW p \in Packet, NEW n \in Node, NEW q, q = entering(n, p)
  PROVE  /\ q \in Packet /\ q.via = p.via \cup {n}
         /\ p.saddr # RaAddr[n] => q.size = p.size
         /\ q.ptype = p.ptype /\ q.saddr = p.saddr /\ q.daddr = p.daddr
         /\ q.dport = p.dport /\ q.hdr = p.hdr /\ q.flow = p.flow /\ q.at = p.at
         /\ q.num_forwards = p.num_forwards /\ q.orig = p.orig
         /\ q.direction = p.direction /\ q.next_hop = p.next_hop
<1>1. (IF p.saddr = RaAddr[n] THEN p.size + IP_HDR_LEN ELSE p.size) \in Nat
  BY PacketFields, NetworkAssumption
<1>2. p.via \cup {n} \in SUBSET Node
  BY PacketFields
<1>. QED  BY <1>1, <1>2 DEF Packet, entering

(* What forward_mpS_pkt makes of a packet. *)
LEMMA Steered ==
  ASSUME NEW p \in Packet, NEW n \in Node, p.hdr.d_intf \in Stop, p.hdr.d_intf \in Intf,
         NEW q, q = steer(n, p)
  PROVE  /\ q \in Packet
         /\ p.hdr.s_select = RaAddr[n] => q.daddr = p.hdr.d_intf /\ q.next_hop = p.hdr.d_intf
         /\ p.hdr.s_select # RaAddr[n] => q.daddr = RaAddr[n] /\ q.next_hop = p.next_hop
         /\ q.ptype = p.ptype /\ q.saddr = p.saddr /\ q.dport = p.dport
         /\ q.size = p.size /\ q.hdr = p.hdr /\ q.via = p.via /\ q.flow = p.flow
         /\ q.num_forwards = p.num_forwards /\ q.orig = p.orig
         /\ q.direction = p.direction
<1>1. RaAddr[n] \in Stop
  BY WiringAssumption, NetworkAssumption DEF Stop
<1>2. p.hdr.d_intf \in NextHops /\ p.next_hop \in NextHops
  BY PacketFields DEF NextHops
<1>3. CASE p.hdr.s_select = RaAddr[n]
  <2> DEFINE a == p.hdr.d_intf
  <2>1. q = [p EXCEPT !.daddr = a, !.next_hop = a]
    BY <1>3 DEF steer
  <2>2. a \in Stop /\ a \in NextHops
    BY <1>2
  <2> HIDE DEF a
  <2>3. /\ q \in Packet /\ q.daddr = a /\ q.next_hop = a
        /\ q.ptype = p.ptype /\ q.saddr = p.saddr /\ q.dport = p.dport
        /\ q.size = p.size /\ q.hdr = p.hdr /\ q.via = p.via /\ q.flow = p.flow
        /\ q.num_forwards = p.num_forwards /\ q.orig = p.orig /\ q.direction = p.direction
    BY <2>1, <2>2 DEF Packet
  <2>. QED  BY <1>3, <2>3 DEF a
<1>4. CASE p.hdr.s_select # RaAddr[n]
  <2> DEFINE a == RaAddr[n]
  <2>1. q = [p EXCEPT !.daddr = a]
    BY <1>4 DEF steer
  <2>2. a \in Stop
    BY <1>1
  <2> HIDE DEF a
  <2>3. /\ q \in Packet /\ q.daddr = a /\ q.next_hop = p.next_hop
        /\ q.ptype = p.ptype /\ q.saddr = p.saddr /\ q.dport = p.dport
        /\ q.size = p.size /\ q.hdr = p.hdr /\ q.via = p.via /\ q.flow = p.flow
        /\ q.num_forwards = p.num_forwards /\ q.orig = p.orig /\ q.direction = p.direction
    BY <2>1, <2>2 DEF Packet
  <2>. QED  BY <1>4, <2>3 DEF a
<1>. QED  BY <1>3, <1>4

LEMMA PacketDown ==
  ASSUME NEW p \in Packet, NEW q, q = [p EXCEPT !.direction = "DOWN"]
  PROVE  /\ q \in Packet /\ SameLoad(p, q) /\ q.at = p.at /\ q.direction = "DOWN"
         /\ q.num_forwards = p.num_forwards
BY FieldValues DEF Packet, SameLoad

-----------------------------------------------------------------------------
(* Pings and answers. *)

(* The ends of a path of the topology, and the path reversed. *)
LEMMA WireEnds ==
  ASSUME NEW a, NEW b, NEW s, NEW d, Wire(a, b, s, d)
  PROVE  /\ a \in Core /\ b \in Core /\ a # b /\ a \in Node /\ b \in Node
         /\ RaAddr[a] = a /\ RaAddr[b] = b
         /\ s \in Intf /\ d \in Intf /\ s \notin Core /\ d \notin Core
         /\ s \in Node /\ d \in Node /\ s \in Stop /\ d \in Stop /\ a \in Stop /\ b \in Stop
         /\ RaAddr[s] \in {a, s} /\ RaAddr[d] \in {b, d}
         /\ Wire(b, a, d, s)
BY WiringAssumption, NetworkAssumption DEF Wire, Stop

LEMMA PingPacket ==
  ASSUME NEW n \in Core, NEW peer, NEW s, NEW d, Wire(n, peer, s, d),
         NEW type \in {"PING_PKT", "PING_BAK"}, NEW seq \in Nat,
         NEW orig \in Nat, NEW nth \in Nat, now \in Nat,
         NEW p, p = ping_pkt(n, type, s, d, peer, seq, orig, nth)
  PROVE  /\ p \in Packet /\ p.ptype = "MPSELECT" /\ p.hdr \in PingHdr
         /\ p.saddr = n /\ p.daddr = s /\ p.via = {} /\ p.num_forwards = 0
         /\ p.direction = "DOWN" /\ p.next_hop = (IF type = "PING_PKT" THEN s ELSE d)
         /\ p.hdr.s_select = n /\ p.hdr.d_select = peer
         /\ p.hdr.s_intf = s /\ p.hdr.d_intf = d
         /\ p.hdr.type = type /\ p.hdr.ping_seq = seq /\ p.orig = orig
<1> DEFINE h == [type |-> type, s_intf |-> s, d_intf |-> d,
                 s_select |-> RaAddr[n], d_select |-> peer,
                 send_time |-> now, ping_seq |-> seq]
           hop == IF type = "PING_PKT" THEN s ELSE d
<1>1. /\ h \in PingHdr /\ h.s_select = n /\ h.d_select = peer
      /\ h.s_intf = s /\ h.d_intf = d /\ h.type = type /\ h.ping_seq = seq
  BY WireEnds DEF PingHdr
<1>2. p = [ptype |-> "MPSELECT", saddr |-> RaAddr[n], daddr |-> s, dport |-> 0,
           size |-> MPSELECT_HDR_LEN + IP_HDR_LEN + PING_PKT_SIZE,
           ttl |-> IP_DEF_TTL, num_forwards |-> 0, direction |-> "DOWN",
           next_hop |-> hop, local |-> FALSE, hdr |-> h, at |-> n, orig |-> orig, nth |-> nth, via |-> {}, flow |-> NoHdr]
  BY DEF ping_pkt
<1> HIDE DEF h, hop
<1>3. MPSELECT_HDR_LEN + IP_HDR_LEN + PING_PKT_SIZE \in Nat
  BY NetworkAssumption
<1>4. n \in Stop /\ s \in Stop /\ RaAddr[n] = n /\ n \in Int
  BY WireEnds, NetworkAssumption
<1>5. hop \in NextHops
  BY WireEnds DEF hop, NextHops
<1>6. p \in Packet
  BY <1>1, <1>2, <1>3, <1>4, <1>5, FieldValues DEF Packet
<1>. QED  BY <1>1, <1>2, <1>4, <1>6 DEF hop

(* A new ping or answer is on its way to the first interface of its path. *)
LEMMA PingSent ==
  ASSUME NEW n \in Core, NEW peer, NEW s, NEW d, Wire(n, peer, s, d),
         NEW type \in {"PING_PKT", "PING_BAK"}, NEW seq \in Nat,
         NEW orig \in Nat, NEW nth \in Nat, now \in Nat,
         NEW r \in Launch(n, ping_pkt(n, type, s, d, peer, seq, orig, nth))
  PROVE  /\ PktOK(r) /\ r.hdr \in PingHdr /\ r.orig = orig
         /\ r.hdr.type = type /\ r.hdr.s_select = n /\ r.hdr.d_select = peer
         /\ r.hdr.s_intf = s /\ r.hdr.d_intf = d /\ r.hdr.ping_seq = seq
<1> DEFINE p == ping_pkt(n, type, s, d, peer, seq, orig, nth)
<1>1. /\ p \in Packet /\ p.ptype = "MPSELECT" /\ p.hdr \in PingHdr
      /\ p.saddr = n /\ p.daddr = s /\ p.via = {} /\ p.num_forwards = 0
      /\ p.direction = "DOWN" /\ p.next_hop = (IF type = "PING_PKT" THEN s ELSE d)
      /\ p.hdr.s_select = n /\ p.hdr.d_select = peer
      /\ p.hdr.s_intf = s /\ p.hdr.d_intf = d
      /\ p.hdr.type = type /\ p.hdr.ping_seq = seq /\ p.orig = orig
  BY PingPacket
<1>2. r \in Launch(n, p) /\ n \in Node
  BY NetworkAssumption
<1> HIDE DEF p
<1>3. Travels(n, p, r)
  BY <1>1, <1>2, Launched
<1>4. /\ r \in Packet /\ SameLoad(p, r)
      /\ r.num_forwards > 0 => n \in MacNode
      /\ r.direction = "UP" => n \in MacNode
  BY <1>1, <1>3 DEF Travels
<1>5. r.at = s \/ (r.at = d /\ type = "PING_BAK" /\ n \in MacNode /\ d \in Default)
  <2>1. p.next_hop \in Node
    BY <1>1, WireEnds
  <2>2. \/ n \notin MacNode /\ r.at = p.daddr
        \/ n \in MacNode /\ p.direction = "UP" /\ r.at = n
        \/ /\ n \in MacNode /\ p.next_hop # n
           /\ (r.at = p.next_hop /\ p.next_hop \in Default) \/ r.at = p.daddr
    BY <1>1, <1>2, <1>3, <2>1, PathTravels
  <2>. QED  BY <1>1, <2>2
<1>6. /\ r.ptype = "MPSELECT" /\ r.hdr \in PingHdr /\ r.saddr = n /\ r.daddr = s
      /\ r.via = {} /\ r.hdr.s_select = n /\ r.hdr.d_select = peer
      /\ r.hdr.s_intf = s /\ r.hdr.d_intf = d /\ r.next_hop \in {s, d}
      /\ type = "PING_BAK" => r.next_hop = d
      /\ r.hdr.type = type /\ r.hdr.ping_seq = seq /\ r.orig = orig
  BY <1>1, <1>4 DEF SameLoad
<1>7. OnPath(r, r.hdr)
  BY <1>5, <1>6 DEF OnPath, Skips
<1>8. PingOK(r, r.hdr)
  BY <1>4, <1>6, <1>7 DEF PingOK
<1>9. TurnedOK(r)
  BY <1>4 DEF TurnedOK
<1>. QED  BY <1>4, <1>6, <1>8, <1>9 DEF PktOK

(* Where forward_mpS_pkt sends a packet of path h that is at interface n. *)
LEMMA PathGoesOn ==
  ASSUME NEW p, NEW r, NEW h, OnPath(p, h), NEW n \in Node \ Core, p.at = n,
         r.via = p.via \cup {n},
         h.s_select = RaAddr[n] => r.daddr = h.d_intf /\ r.next_hop = h.d_intf,
         h.s_select # RaAddr[n] => r.daddr = RaAddr[n] /\ r.next_hop = p.next_hop,
         \/ n \notin MacNode /\ r.at = r.daddr
         \/ n \in MacNode /\ r.at = n
         \/ n \in MacNode /\ r.next_hop # n /\ r.at \in {r.next_hop, r.daddr}
  PROVE  /\ OnPath(r, h)
         /\ r.at = h.s_intf => p.at = h.s_intf
         /\ r.at = n => Returns(n)
         /\ p.at \in {h.s_intf, h.d_intf}
<1> DEFINE a == h.s_select  b == h.d_select  s == h.s_intf  d == h.d_intf
<1>1. Wire(a, b, s, d)
  BY DEF OnPath
<1> HIDE DEF a, b, s, d
<1>2. /\ a \in Core /\ b \in Core /\ a # b /\ s \notin Core /\ d \notin Core
      /\ RaAddr[s] \in {a, s} /\ RaAddr[d] \in {b, d}
  BY <1>1, WireEnds
<1>3. \/ n = s /\ p.next_hop \in {s, d}
      \/ n = d /\ p.next_hop = d /\ (s \in p.via \/ Skips(h))
  BY <1>2 DEF OnPath, a, b, s, d
<1>4. /\ a = RaAddr[n] => r.daddr = d /\ r.next_hop = d
      /\ a # RaAddr[n] => r.daddr = RaAddr[n] /\ r.next_hop = p.next_hop
  BY DEF a, d
<1>5. CASE n = s
  <2>1. s \in r.via /\ p.next_hop \in {s, d}
    BY <1>3, <1>5
  <2>2. CASE RaAddr[n] = a
    <3>1. s # d /\ r.daddr = d /\ r.next_hop = d
      BY <1>2, <1>4, <1>5, <2>2
    <3>2. (r.at = d \/ r.at = s) /\ (r.at = n => n \in MacNode)
      BY <1>5, <3>1
    <3>. QED  BY <1>1, <1>5, <2>1, <3>1, <3>2 DEF OnPath, Returns, a, b, s, d
  <2>3. CASE RaAddr[n] # a
    <3>1. r.daddr = s /\ r.next_hop \in {s, d} /\ RaAddr[n] = n
      BY <1>2, <1>4, <1>5, <2>1, <2>3
    <3>2. r.at = s \/ (r.at = d /\ r.next_hop = d)
      BY <1>5, <3>1
    <3>. QED  BY <1>1, <1>5, <2>1, <3>1, <3>2 DEF OnPath, Returns, a, b, s, d
  <2>. QED  BY <2>2, <2>3
<1>6. CASE n = d /\ n # s
  <2>1. d \in r.via /\ p.next_hop = d /\ (s \in r.via \/ Skips(h))
    BY <1>3, <1>6
  <2>2. r.daddr = RaAddr[n] /\ r.next_hop = d /\ RaAddr[n] \in {b, d}
    BY <1>2, <1>4, <1>6, <2>1
  <2>3. /\ r.at = d \/ r.at = b
        /\ r.at = n => RaAddr[n] = n \/ n \in MacNode
    BY <1>6, <2>2
  <2>4. r.at # s
    BY <1>2, <1>6, <2>3
  <2>. QED  BY <1>1, <1>6, <2>1, <2>2, <2>3, <2>4 DEF OnPath, Returns, a, b, s, d
<1>. QED  BY <1>3, <1>5, <1>6

(* forward_mpS_pkt. *)
LEMMA Forwarded ==
  ASSUME NEW n \in Node \ Core, NEW p, PktOK(p), p.at = n, p.ptype = "MPSELECT",
         NEW r \in Launch(n, steer(n, entering(n, p)))
  PROVE  PktOK(r) /\ r.hdr = p.hdr /\ r.flow = p.flow /\ r.orig = p.orig
<1> DEFINE q == entering(n, p)
           t == steer(n, q)
<1>1. p \in Packet /\ (\/ p.hdr \in PingHdr /\ PingOK(p, p.hdr)
                       \/ p.hdr \in DataHdr /\ DataOK(p, p.hdr))
  BY DEF PktOK
<1>2. /\ q \in Packet /\ q.via = p.via \cup {n}
      /\ p.saddr # RaAddr[n] => q.size = p.size
      /\ q.ptype = p.ptype /\ q.saddr = p.saddr /\ q.daddr = p.daddr
      /\ q.dport = p.dport /\ q.hdr = p.hdr /\ q.flow = p.flow /\ q.at = p.at
      /\ q.num_forwards = p.num_forwards /\ q.orig = p.orig
      /\ q.direction = p.direction /\ q.next_hop = p.next_hop
  BY <1>1, Entered
<1>3. OnPath(p, p.hdr)
  BY <1>1 DEF PingOK, DataOK
<1>4. Wire(p.hdr.s_select, p.hdr.d_select, p.hdr.s_intf, p.hdr.d_intf)
  BY <1>3 DEF OnPath
<1> DEFINE h == p.hdr
<1>5. /\ h.d_intf \in Stop /\ h.d_intf \in Intf /\ h.d_intf \in Node /\ h.s_intf \in Node
      /\ h.d_select \in Core
  BY <1>4, WireEnds
<1>6. /\ t \in Packet
      /\ q.hdr.s_select = RaAddr[n] => t.daddr = q.hdr.d_intf /\ t.next_hop = q.hdr.d_intf
      /\ q.hdr.s_select # RaAddr[n] => t.daddr = RaAddr[n] /\ t.next_hop = q.next_hop
      /\ t.ptype = q.ptype /\ t.saddr = q.saddr /\ t.dport = q.dport
      /\ t.size = q.size /\ t.hdr = q.hdr /\ t.via = q.via /\ t.flow = q.flow
      /\ t.num_forwards = q.num_forwards /\ t.orig = q.orig /\ t.direction = q.direction
  <2> HIDE DEF q
  <2>. QED  BY <1>2, <1>5, Steered
<1>7. r \in Launch(n, t)
  OBVIOUS
<1> HIDE DEF q, t
<1>8. Travels(n, t, r)
  BY <1>6, <1>7, Launched
<1>9. /\ r \in Packet /\ r.ptype = "MPSELECT" /\ r.saddr = p.saddr
      /\ p.saddr # RaAddr[n] => r.size = p.size
      /\ r.hdr = p.hdr /\ r.via = p.via \cup {n} /\ r.flow = p.flow /\ r.orig = p.orig
      /\ r.daddr = t.daddr /\ r.next_hop = t.next_hop
      /\ r.direction = "UP" => p.direction = "UP" \/ n \in MacNode
  BY <1>2, <1>6, <1>8 DEF Travels, SameLoad
<1>10. /\ h.s_select = RaAddr[n] => r.daddr = h.d_intf /\ r.next_hop = h.d_intf
       /\ h.s_select # RaAddr[n] => r.daddr = RaAddr[n] /\ r.next_hop = p.next_hop
  BY <1>2, <1>6, <1>9
<1>11. \/ n \notin MacNode /\ r.at = r.daddr
       \/ n \in MacNode /\ r.at = n
       \/ n \in MacNode /\ r.next_hop # n /\ r.at \in {r.next_hop, r.daddr}
  <2>1. p.next_hop \in Node
    BY <1>3, <1>5 DEF OnPath
  <2>2. t.next_hop \in Node /\ t.ptype = "MPSELECT"
    BY <1>2, <1>5, <1>6, <2>1
  <2>3. \/ n \notin MacNode /\ r.at = t.daddr
        \/ n \in MacNode /\ t.direction = "UP" /\ r.at = n
        \/ /\ n \in MacNode /\ t.next_hop # n
           /\ (r.at = t.next_hop /\ t.next_hop \in Default) \/ r.at = t.daddr
    BY <1>6, <1>8, <2>2, PathTravels
  <2>. QED  BY <1>9, <2>3
<1>110. /\ OnPath(r, h)
        /\ r.at = h.s_intf => p.at = h.s_intf
        /\ r.at = n => Returns(n)
        /\ p.at \in {h.s_intf, h.d_intf}
  BY <1>3, <1>9, <1>10, <1>11, PathGoesOn
<1>111. TurnedOK(r)
  <2>1. TurnedOK(p)
    BY DEF PktOK
  <2>. QED  BY <1>9, <2>1 DEF TurnedOK
<1>12. CASE p.hdr \in DataHdr /\ DataOK(p, p.hdr)
  <2>1. p.saddr # RaAddr[n]
    BY <1>12, FlowAssumption DEF DataOK, DataFor
  <2>2. DataOK(r, h)
    BY <1>9, <1>110, <1>12, <2>1 DEF DataOK, DataFor
  <2>. QED  BY <1>9, <1>12, <1>111, <2>2 DEF PktOK
<1>13. CASE p.hdr \in PingHdr /\ PingOK(p, p.hdr)
  <2>1. /\ p.at = h.s_intf => p.via \subseteq {h.s_intf}
        /\ p.at = h.d_intf => p.via \subseteq {h.s_intf, h.d_intf}
        /\ p.saddr = h.s_select
    BY <1>13 DEF PingOK
  <2>2. r.at \in r.via => Returns(r.at)
    <3>1. CASE r.at = n
      BY <1>110, <3>1
    <3>2. CASE r.at # n /\ r.at \in p.via
      <4>1. r.at \in {h.s_intf, h.d_intf}
        BY <1>110, <2>1, <3>2
      <4>2. r.at = h.d_intf /\ n = h.s_intf
        BY <1>110, <3>2, <4>1
      <4>3. p.via \subseteq {h.s_intf}
        BY <2>1, <4>2
      <4>. QED  BY <3>2, <4>2, <4>3
    <3>. QED  BY <1>9, <3>1, <3>2
  <2>3. r.at = h.s_intf => r.via \subseteq {h.s_intf}
    BY <1>9, <1>110, <2>1
  <2>4. r.at = h.d_intf => r.via \subseteq {h.s_intf, h.d_intf}
    BY <1>9, <1>110, <2>1
  <2>5. r.via # {}
    BY <1>9
  <2>6. PingOK(r, h)
    BY <1>9, <1>110, <2>1, <2>2, <2>3, <2>4, <2>5 DEF PingOK
  <2>. QED  BY <1>9, <1>13, <1>111, <2>6 DEF PktOK
<1>. QED  BY <1>1, <1>12, <1>13

-----------------------------------------------------------------------------
(* Data. *)

(* A next hop from a table, or a broadcast. *)
LEMMA LookupHop ==
  ASSUME NEW T, Good(T), NEW a, NEW hop, hop = lookup(T, a)
  PROVE  hop \in NextHops
<1> DEFINE I == {i \in DOMAIN T.rtable : Matches(T, i, a)}
           r == First(I)
<1>1. T \in Table /\ DOMAIN T.rtable = 1..Len(T.rtable) /\ Len(T.rtable) \in Nat
  BY TableFields DEF Good
<1>2. hop = IF r = 0 THEN IP_BROADCAST ELSE T.rtable[r].next_hop
  BY DEF lookup, MatchIdx
<1>3. CASE r # 0
  <2>1. I \subseteq Nat \ {0}
    BY <1>1
  <2>2. r \in I
    <3> HIDE DEF I
    <3>. QED  BY <1>3, <2>1, FirstOf
  <2>3. T.rtable[r] \in Route
    <3>1. T.rtable \in Seq(Route) /\ r \in DOMAIN T.rtable
      BY <1>1, <2>2 DEF Table
    <3> HIDE DEF r
    <3>. QED  BY <3>1, ElementOfSeq, <1>1
  <2>4. T.rtable[r].next_hop \in Hop
    BY <2>3, RouteFields
  <2>. QED  BY <1>2, <1>3, <2>4 DEF NextHops
<1>. QED  BY <1>2, <1>3 DEF NextHops

(* r is q, sent on as it is. *)
SentOn(q, r) == PktOK(r) /\ r.flow = q.flow /\ r.hdr \notin PingHdr

(* forward_data without multipath. *)
LEMMA PlainSent ==
  ASSUME NEW n \in Node, NEW q \in Packet, IsFlows(q), NEW hop \in NextHops,
         NEW d, d = [q EXCEPT !.direction = "DOWN"],
         NEW e, e = [d EXCEPT !.next_hop = hop], NEW r \in Launch(n, e)
  PROVE  SentOn(q, r)
<1>1. d \in Packet /\ SameLoad(q, d) /\ d.direction = "DOWN"
  BY PacketDown
<1>2. /\ e \in Packet /\ e.daddr = d.daddr /\ e.direction = d.direction
      /\ e.ptype = d.ptype /\ e.saddr = d.saddr /\ e.dport = d.dport
      /\ e.size = d.size /\ e.hdr = d.hdr /\ e.flow = d.flow
  BY <1>1 DEF Packet
<1>3. Travels(n, e, r)
  BY <1>2, Launched
<1>4. /\ r \in Packet /\ SameLoad(e, r)
      /\ r.direction = "UP" => n \in MacNode
      /\ r.at \in Node \cup {e.daddr}
  BY <1>1, <1>2, <1>3, NetworkAssumption DEF Travels, Reaches, NextStop
<1>5. /\ PlainOK(r) /\ r.flow = q.flow /\ r.hdr \notin PingHdr
  BY <1>1, <1>2, <1>4 DEF SameLoad, PlainOK, IsFlows
<1>6. r.ptype # "MPSELECT" /\ TurnedOK(r)
  BY <1>4, <1>5, FlowAssumption DEF PlainOK, IsFlows, TurnedOK
<1>. QED  BY <1>4, <1>5, <1>6 DEF PktOK, SentOn

(* forward_data's encapsulation. *)
LEMMA Encapsulated ==
  ASSUME NEW n \in Node, NEW q \in Packet, IsFlows(q), NEW path,
         Wire(n, path.select, path.s_intf, path.d_intf), now \in Nat,
         NEW e, e = encapsulate(n, q, path)
  PROVE  /\ e \in Packet /\ e.ptype = "MPSELECT" /\ e.hdr \in DataHdr /\ e.flow = q.flow
         /\ e.daddr = path.s_intf /\ DataFor(e, e.hdr)
         /\ e.next_hop = path.s_intf /\ e.direction = q.direction
         /\ e.hdr.s_select = n /\ e.hdr.d_select = path.select
         /\ e.hdr.s_intf = path.s_intf /\ e.hdr.d_intf = path.d_intf
<1> DEFINE h == [type |-> "DATA_PKT", former_addr |-> q.daddr,
                 former_port |-> q.dport, former_ptype |-> q.ptype,
                 send_time |-> now,
                 s_intf |-> path.s_intf, d_intf |-> path.d_intf,
                 s_select |-> RaAddr[n], d_select |-> path.select]
<1>1. /\ RaAddr[n] = n /\ n \in Core /\ path.select \in Core
      /\ path.s_intf \in Intf /\ path.d_intf \in Intf /\ path.s_intf \in Stop
      /\ path.s_intf \in NextHops
  BY WireEnds DEF NextHops
<1>2. /\ q.flow \in Flow /\ q.daddr = q.flow.daddr /\ q.dport = q.flow.dport
      /\ q.ptype = q.flow.ptype /\ q.saddr = q.flow.saddr /\ q.size = q.flow.size
  BY DEF IsFlows
<1>3. /\ h \in DataHdr /\ h.s_select = n /\ h.d_select = path.select
      /\ h.s_intf = path.s_intf /\ h.d_intf = path.d_intf
      /\ h.former_addr = q.daddr /\ h.former_port = q.dport /\ h.former_ptype = q.ptype
  BY <1>1, <1>2 DEF DataHdr
<1>4. e = [q EXCEPT !.size = q.size + MPSELECT_HDR_LEN, !.hdr = h,
                    !.daddr = path.s_intf, !.dport = 0, !.ptype = "MPSELECT",
                    !.next_hop = path.s_intf]
  BY DEF encapsulate
<1> HIDE DEF h
<1>5. q.size + MPSELECT_HDR_LEN \in Nat
  BY PacketFields, NetworkAssumption
<1>6. h \in Headers /\ "MPSELECT" \in PTypes /\ 0 \in DPorts
  BY <1>3, FieldValues
<1>7. e \in Packet
  BY <1>1, <1>4, <1>5, <1>6, ZenonT(30) DEF Packet
<1>8. /\ e.ptype = "MPSELECT" /\ e.hdr = h /\ e.flow = q.flow
      /\ e.daddr = path.s_intf /\ e.size = q.size + MPSELECT_HDR_LEN
      /\ e.saddr = q.saddr /\ e.next_hop = path.s_intf /\ e.direction = q.direction
  BY <1>4 DEF Packet
<1>. QED  BY <1>2, <1>3, <1>7, <1>8 DEF DataFor

LEMMA DataSent ==
  ASSUME NEW n \in Node, NEW q \in Packet, IsFlows(q), q.direction = "DOWN", NEW path,
         Wire(n, path.select, path.s_intf, path.d_intf), now \in Nat,
         NEW r \in Launch(n, encapsulate(n, q, path))
  PROVE  PktOK(r) /\ r.flow = q.flow /\ r.hdr \in DataHdr
<1> DEFINE e == encapsulate(n, q, path)
<1>1. /\ e \in Packet /\ e.ptype = "MPSELECT" /\ e.hdr \in DataHdr /\ e.flow = q.flow
      /\ e.daddr = path.s_intf /\ DataFor(e, e.hdr)
      /\ e.next_hop = path.s_intf /\ e.direction = q.direction
      /\ e.hdr.s_select = n /\ e.hdr.d_select = path.select
      /\ e.hdr.s_intf = path.s_intf /\ e.hdr.d_intf = path.d_intf
  BY Encapsulated
<1> HIDE DEF e
<1>2. Travels(n, e, r)
  BY <1>1, Launched DEF e
<1>3. r \in Packet /\ SameLoad(e, r) /\ TurnedOK(r)
  BY <1>1, <1>2 DEF Travels, TurnedOK
<1>4. r.at = path.s_intf
  <2>1. e.next_hop \in Node
    BY <1>1, WireEnds
  <2>2. \/ n \notin MacNode /\ r.at = e.daddr
        \/ n \in MacNode /\ e.direction = "UP" /\ r.at = n
        \/ /\ n \in MacNode /\ e.next_hop # n
           /\ (r.at = e.next_hop /\ e.next_hop \in Default) \/ r.at = e.daddr
    BY <1>1, <1>2, <2>1, PathTravels
  <2>. QED  BY <1>1, <2>2
<1>5. DataOK(r, r.hdr)
  BY <1>1, <1>3, <1>4 DEF SameLoad, DataOK, DataFor, OnPath
<1>. QED  BY <1>1, <1>3, <1>5 DEF SameLoad, PktOK

(* What recv hands to forward_data: a data packet, *)
LEMMA PlainEntered ==
  ASSUME NEW n \in Node, NEW p, PktOK(p), p.ptype # "MPSELECT",
         NEW q, q = [entering(n, p) EXCEPT !.ttl = @ - 1], q.ttl >= 0
  PROVE  q \in Packet /\ IsFlows(q) /\ q.flow = p.flow /\ q.direction = p.direction
<1> DEFINE e == entering(n, p)
<1>1. p \in Packet /\ PlainOK(p)
  BY DEF PktOK
<1>2. /\ e \in Packet
      /\ p.saddr # RaAddr[n] => e.size = p.size
      /\ e.ptype = p.ptype /\ e.saddr = p.saddr /\ e.daddr = p.daddr
      /\ e.dport = p.dport /\ e.hdr = p.hdr /\ e.flow = p.flow
      /\ e.direction = p.direction
  BY <1>1, Entered
<1> HIDE DEF e
<1>3. q = [e EXCEPT !.ttl = @ - 1]
  BY DEF e
<1>4. q.ttl = e.ttl - 1
  BY <1>2, <1>3 DEF Packet
<1>5. q \in Packet /\ SameLoad(e, q) /\ q.direction = e.direction
  BY <1>2, <1>3, <1>4, PacketTtl
<1>6. p.saddr # RaAddr[n]
  BY <1>1, FlowAssumption DEF PlainOK, IsFlows
<1>. QED  BY <1>1, <1>2, <1>5, <1>6 DEF SameLoad, PlainOK, IsFlows

(* e with the headers and the size of flow f. *)
Restored(e, f, dir) ==
  [e EXCEPT !.daddr = f.daddr, !.dport = f.dport, !.ptype = f.ptype,
            !.size = f.size, !.direction = dir]

LEMMA PacketRestored ==
  ASSUME NEW e \in Packet, NEW f \in Flow, f.daddr \in Stop, f.size \in Nat,
         NEW dir \in {"NONE", "DOWN", "UP"},
         NEW q, q = Restored(e, f, dir)
  PROVE  /\ q \in Packet /\ q.daddr = f.daddr /\ q.dport = f.dport
         /\ q.ptype = f.ptype /\ q.size = f.size /\ q.flow = e.flow
         /\ q.saddr = e.saddr /\ q.hdr = e.hdr /\ q.direction = dir
<1> DEFINE da == f.daddr  dp == f.dport  pt == f.ptype  sz == f.size
<1>1. da \in Stop /\ dp \in DPorts /\ pt \in PTypes /\ sz \in Nat /\ dir \in Directions
  BY FieldValues DEF Directions
<1> HIDE DEF da, dp, pt, sz
<1>2. q = [e EXCEPT !.daddr = da, !.dport = dp, !.ptype = pt, !.size = sz, !.direction = dir]
  BY DEF da, dp, pt, sz, Restored
<1>3. /\ q \in Packet /\ q.daddr = da /\ q.dport = dp /\ q.ptype = pt /\ q.size = sz
      /\ q.flow = e.flow /\ q.saddr = e.saddr /\ q.hdr = e.hdr /\ q.direction = dir
  BY <1>1, <1>2 DEF Packet
<1>. QED  BY <1>3 DEF da, dp, pt, sz

(* or one that recv_data_pkt has restored. *)
LEMMA Decapsulated ==
  ASSUME NEW n \in Node, NEW p, PktOK(p), p.ptype = "MPSELECT", p.hdr.type = "DATA_PKT",
         NEW q, q = decapsulate(n, entering(n, p))
  PROVE  /\ q \in Packet /\ IsFlows(q) /\ q.flow = p.flow
         /\ q.direction = "UP" => p.direction = "UP" \/ q.daddr = RaAddr[n]
<1> DEFINE e == entering(n, p)
<1>1. p \in Packet /\ p.hdr \in DataHdr /\ DataFor(p, p.hdr)
  <2>1. p.hdr \notin PingHdr
    BY DEF PingHdr
  <2>. QED  BY <2>1 DEF PktOK, DataOK
<1>2. /\ e \in Packet
      /\ p.saddr # RaAddr[n] => e.size = p.size
      /\ e.saddr = p.saddr /\ e.hdr = p.hdr /\ e.flow = p.flow
      /\ e.direction = p.direction
  BY <1>1, Entered
<1> HIDE DEF e
<1>3. p.saddr # RaAddr[n]
  BY <1>1, FlowAssumption DEF DataFor
<1>4. /\ p.flow \in Flow /\ p.hdr.former_addr = p.flow.daddr
      /\ p.hdr.former_port = p.flow.dport /\ p.hdr.former_ptype = p.flow.ptype
      /\ e.size = p.flow.size + MPSELECT_HDR_LEN
  BY <1>1, <1>2, <1>3 DEF DataFor
<1>5. e.size - MPSELECT_HDR_LEN = p.flow.size /\ p.flow.size \in Nat
  BY <1>4, FlowAssumption, NetworkAssumption
<1>6. p.flow.daddr \in Stop
  BY <1>4 DEF Stop
<1> DEFINE dir == IF p.hdr.former_addr = RaAddr[n] THEN "UP" ELSE e.direction
<1>7. /\ dir \in {"NONE", "DOWN", "UP"}
      /\ dir = "UP" => p.direction = "UP" \/ p.flow.daddr = RaAddr[n]
  BY <1>2, <1>4, PacketFields
<1>8. q = [e EXCEPT !.daddr = p.flow.daddr, !.dport = p.flow.dport,
                    !.ptype = p.flow.ptype, !.size = p.flow.size, !.direction = dir]
  BY <1>2, <1>4, <1>5 DEF decapsulate, e
<1> HIDE DEF dir
<1>9. /\ q \in Packet /\ q.daddr = p.flow.daddr /\ q.dport = p.flow.dport
      /\ q.ptype = p.flow.ptype /\ q.size = p.flow.size /\ q.flow = p.flow
      /\ q.saddr = p.saddr /\ q.hdr = p.hdr /\ q.direction = dir
  <2> DEFINE f == p.flow
  <2>1. f \in Flow /\ f.daddr \in Stop /\ f.size \in Nat
    BY <1>4, <1>5, <1>6
  <2>2. q = Restored(e, f, dir)
    BY <1>8 DEF Restored
  <2> HIDE DEF f
  <2>3. /\ q \in Packet /\ q.daddr = f.daddr /\ q.dport = f.dport
        /\ q.ptype = f.ptype /\ q.size = f.size /\ q.flow = e.flow
        /\ q.saddr = e.saddr /\ q.hdr = e.hdr /\ q.direction = dir
    BY <1>2, <1>7, <2>1, <2>2, PacketRestored, SMTT(30)
  <2>. QED  BY <1>2, <2>3 DEF f
<1>10. q.hdr \notin PingHdr /\ p.saddr = p.flow.saddr
  BY <1>1, <1>9 DEF DataHdr, PingHdr, DataFor
<1>. QED  BY <1>4, <1>7, <1>9, <1>10 DEF IsFlows

-----------------------------------------------------------------------------
(* The tables. *)

LEMMA WiredPath ==
  ASSUME NEW n, NEW T, TableOK(n, T), NEW b, NEW s, NEW d, HasPath(T, b, s, d)
  PROVE  Wire(n, b, s, d)
<1>1. b \in DOMAIN AbsPeers(T) /\ Ends(s, d) \in Range(AbsPeers(T)[b])
  BY PathInMap DEF TableOK
<1>2. Ends(s, d)[1] = s /\ Ends(s, d)[2] = d
  BY DEF Ends
<1>. QED  BY <1>1, <1>2 DEF TableOK, Wired

LEMMA ConsRange ==
  ASSUME NEW S, NEW e \in S, NEW a \in Seq(S), NEW x \in Range(Cons(e, a))
  PROVE  x = e \/ x \in Range(a)
<1> DEFINE c == Cons(e, a)
<1>1. /\ c \in Seq(S) /\ Len(c) = Len(a) + 1 /\ c[1] = e
      /\ \A i \in 2..(Len(a) + 1) : c[i] = a[i - 1]
  <2>1. Cons(e, a) \in Seq(S) /\ Len(Cons(e, a)) = Len(a) + 1 /\ Cons(e, a)[1] = e
    BY ConsProperties
  <2>2. \A i \in 2..(Len(a) + 1) : Cons(e, a)[i] = a[i - 1]
    BY ConsProperties
  <2>. QED  BY <2>1, <2>2
<1>2. Len(a) \in Nat /\ DOMAIN a = 1..Len(a) /\ DOMAIN c = 1..Len(c)
  BY <1>1, LenProperties
<1>3. PICK i \in DOMAIN c : x = c[i]
  BY DEF Range
<1> HIDE DEF c
<1>4. i = 1 \/ (i \in 2..(Len(a) + 1) /\ i - 1 \in DOMAIN a)
  BY <1>1, <1>2
<1>. QED  BY <1>1, <1>3, <1>4 DEF Range

LEMMA RemoveAtRange ==
  ASSUME NEW S, NEW a \in Seq(S), NEW k \in 1..Len(a), NEW x \in Range(RemoveAt(a, k))
  PROVE  x \in Range(a)
<1> DEFINE c == RemoveAt(a, k)
<1>1. /\ c \in Seq(S) /\ Len(c) = Len(a) - 1
      /\ \A j \in 1..(Len(a) - 1) : c[j] = IF j < k THEN a[j] ELSE a[j + 1]
  BY RemoveAtProperties
<1>2. Len(a) \in Nat /\ DOMAIN a = 1..Len(a) /\ DOMAIN c = 1..Len(c)
  BY <1>1, LenProperties
<1>3. PICK j \in DOMAIN c : x = c[j]
  BY DEF Range
<1> HIDE DEF c
<1>4. j \in 1..(Len(a) - 1) /\ j \in DOMAIN a /\ j + 1 \in DOMAIN a
  BY <1>1, <1>2
<1>. QED  BY <1>1, <1>3, <1>4 DEF Range

(* The lists of the map. *)
LEMMA MapLists ==
  ASSUME NEW T, Good(T), NEW b \in DOMAIN AbsPeers(T)
  PROVE  AbsPeers(T)[b] \in Seq(Intf \X Intf)
<1>1. /\ DOMAIN AbsPeers(T) = Peers(T)
      /\ \A k \in DOMAIN T.mptable :
           AbsPeers(T)[T.mptable[k].select_addr] = AbsPaths(T.mptable[k].paths)
  BY AbsPeersType
<1>2. PICK i \in DOMAIN T.mptable : T.mptable[i].select_addr = b
  BY <1>1 DEF Peers
<1>3. T.mptable[i].paths \in Seq(Path)
  BY PathsOf
<1>. QED  BY <1>1, <1>2, <1>3, AbsPathsType

LEMMA TableSame ==
  ASSUME NEW n, NEW T, TableOK(n, T), NEW U, Good(U), SameMap(T, U)
  PROVE  TableOK(n, U)
BY DEF TableOK, SameMap

LEMMA TableAdd ==
  ASSUME NEW n, NEW T, TableOK(n, T), NEW select \in Peer, NEW s \in Intf, NEW d \in Intf,
         Wire(n, select, s, d), NEW fresh \in MPtr \ Live(T), NEW t \in Nat,
         NEW U, U = add_mpath(T, select, s, d, fresh, t)
  PROVE  TableOK(n, U) /\ U.status = T.status
<1> DEFINE P == AbsPeers(T)
           a == IF select \in DOMAIN P THEN P[select] ELSE << >>
           x == Ends(s, d)
<1>1. Good(T) /\ Good(U) /\ U.status = T.status /\ AbsPeers(U) = MorePaths(P, select, x)
  BY AddMpathGood, AddMpathMap DEF TableOK
<1>2. /\ DOMAIN AbsPeers(U) = DOMAIN P \cup {select}
      /\ \A b \in DOMAIN AbsPeers(U) : AbsPeers(U)[b] = IF b # select THEN P[b] ELSE Cons(x, a)
  BY <1>1 DEF MorePaths
<1>3. a \in Seq(Intf \X Intf)
  <2>1. CASE select \in DOMAIN P
    BY <1>1, <2>1, MapLists
  <2>2. CASE select \notin DOMAIN P
    BY <2>2
  <2>. QED  BY <2>1, <2>2
<1>4. x \in Intf \X Intf /\ x[1] = s /\ x[2] = d
  BY DEF Ends
<1>5. \A e \in Range(a) : select \in DOMAIN P /\ e \in Range(P[select])
  BY DEF Range
<1> HIDE DEF a, x
<1>6. ASSUME NEW b \in DOMAIN AbsPeers(U), NEW e \in Range(AbsPeers(U)[b])
      PROVE  Wire(n, b, e[1], e[2])
  <2>1. CASE b # select
    BY <1>2, <1>6, <2>1 DEF TableOK, Wired
  <2>2. CASE b = select
    <3>1. e \in Range(Cons(x, a))
      BY <1>2, <2>2
    <3>2. e = x \/ e \in Range(a)
      <4> DEFINE S == Intf \X Intf
      <4>1. x \in S /\ a \in Seq(S)
        BY <1>3, <1>4
      <4> HIDE DEF S
      <4>. QED  BY <3>1, <4>1, ConsRange
    <3>. QED  BY <1>4, <1>5, <2>2, <3>2 DEF TableOK, Wired
  <2>. QED  BY <2>1, <2>2
<1>. QED  BY <1>1, <1>6 DEF TableOK, Wired

LEMMA TableDelete ==
  ASSUME NEW n, NEW T, TableOK(n, T), NEW select, NEW s \in Intf, NEW d \in Intf,
         NEW U, U = delete_mpath(T, select, s, d)
  PROVE  TableOK(n, U) /\ U.status = T.status
<1> DEFINE P == AbsPeers(T)
           x == Ends(s, d)
<1>1. /\ Good(T) /\ Good(U) /\ U.status = T.status
      /\ \/ SameMap(T, U)
         \/ /\ select \in DOMAIN P /\ x \in Range(P[select])
            /\ AbsPeers(U) = LessPaths(P, select, x)
  BY DeleteMpathGood, DeleteMpathMap DEF TableOK
<1>2. CASE SameMap(T, U)
  BY <1>1, <1>2, TableSame
<1>3. CASE /\ select \in DOMAIN P /\ x \in Range(P[select])
           /\ AbsPeers(U) = LessPaths(P, select, x)
  <2> DEFINE a == P[select]
             k == Min(At(a, x))
             S == Intf \X Intf
  <2>1. MapOn(P, Peers(T)) /\ DOMAIN P = Peers(T)
    BY <1>1, AbsPeersType
  <2>2. \A b \in Peers(T) : AbsPeers(U)[b] = IF b = select THEN RemoveAt(a, k) ELSE P[b]
    BY <1>3, <2>1, LessPathsIs
  <2>3. DOMAIN AbsPeers(U) = DOMAIN P
    BY <1>3 DEF LessPaths
  <2>4. a \in Seq(S)
    BY <1>1, <1>3, MapLists
  <2>5. k \in 1..Len(a)
    <3>1. DOMAIN a = 1..Len(a) /\ Len(a) \in Nat
      BY <2>4, LenProperties
    <3>2. At(a, x) # {} /\ At(a, x) \subseteq 1..Len(a)
      <4> HIDE DEF a, x
      <4>. QED  BY <1>3, <3>1 DEF At, Range, a
    <3> HIDE DEF a, x
    <3>3. At(a, x) \subseteq Nat
      BY <3>1, <3>2
    <3>4. Min(At(a, x)) \in At(a, x)
      BY <3>2, <3>3, MinNat
    <3>. QED  BY <3>2, <3>4
  <2> HIDE DEF k, S
  <2>6. ASSUME NEW b \in DOMAIN AbsPeers(U), NEW e \in Range(AbsPeers(U)[b])
        PROVE  Wire(n, b, e[1], e[2])
    <3>1. CASE b # select
      BY <2>1, <2>2, <2>3, <2>6, <3>1 DEF TableOK, Wired
    <3>2. CASE b = select
      <4>1. e \in Range(RemoveAt(a, k))
        BY <2>1, <2>2, <2>3, <3>2
      <4>2. e \in Range(a)
        BY <2>4, <2>5, <4>1, RemoveAtRange
      <4>. QED  BY <1>3, <3>2, <4>2 DEF TableOK, Wired
    <3>. QED  BY <3>1, <3>2
  <2>. QED  BY <1>1, <2>6 DEF TableOK, Wired
<1>. QED  BY <1>1, <1>2, <1>3

(* The tables that scripts set up at time 0. *)
LEMMA InitTables ==
  ASSUME NEW n \in Node
  PROVE  TableOK(n, InitTable[n])
<1> DEFINE T == InitTable[n]
<1>1. /\ Good(T)
      /\ \A i \in DOMAIN T.mptable : \A j \in DOMAIN T.mptable[i].paths :
           Wire(n, T.mptable[i].select_addr, T.mptable[i].paths[j].s_intf,
                T.mptable[i].paths[j].d_intf)
  BY WiringAssumption
<1> HIDE DEF T
<1>2. ASSUME NEW b \in DOMAIN AbsPeers(T), NEW e \in Range(AbsPeers(T)[b])
      PROVE  Wire(n, b, e[1], e[2])
  <2> DEFINE a == AbsPeers(T)[b]
  <2>1. a \in Seq(Intf \X Intf)
    BY <1>1, MapLists
  <2>2. \A i \in DOMAIN a : a[i] \in Intf \X Intf
    BY <2>1, LenProperties, ElementOfSeq
  <2>3. e \in Intf \X Intf
    <3> HIDE DEF a
    <3>1. e \in Range(a)
      BY DEF a
    <3>. QED  BY <2>2, <3>1 DEF Range
  <2>4. e = Ends(e[1], e[2])
    BY <2>3 DEF Ends
  <2>5. HasPath(T, b, e[1], e[2])
    BY <1>1, <2>4, PathInMap
  <2>. QED  BY <1>1, <2>5 DEF HasPath
<1>3. TableOK(n, T)
  BY <1>1, <1>2 DEF TableOK, Wired
<1>. QED  BY <1>3 DEF T

-----------------------------------------------------------------------------
(* The steps, one lemma for what each kind does to the tables and the      *)
(* packets in flight.                                                      *)

LEMMA TableStep ==
  ASSUME TablesOK, NEW n \in Node, NEW U, TableOK(n, U),
         rtable' = [rtable EXCEPT ![n] = U]
  PROVE  TablesOK'
<1>1. DOMAIN rtable = Node
  BY DEF TablesOK
<1>2. rtable' = [m \in Node |-> rtable'[m]]
  BY <1>1
<1>3. \A m \in Node : rtable'[m] = IF m = n THEN U ELSE rtable[m]
  BY <1>1
<1>4. \A m \in Node : TableOK(m, rtable'[m])
  BY <1>3 DEF TablesOK
<1>. QED  BY <1>2, <1>4 DEF TablesOK

Ready(p) == PktOK(p) /\ (p.hdr \notin PingHdr => p.flow \in sent)

LEMMA NetStep ==
  ASSUME NetOK, NEW out, \A r \in out : Ready(r), sent \subseteq sent',
         net' \subseteq net \cup out
  PROVE  NetOK'
BY DEF NetOK, Ready

LEMMA HeardOK ==
  ASSUME TablesOK, NEW n \in Node, NEW h, h.s_intf \in Intf, h.d_intf \in Intf, now \in Nat
  PROVE  TableOK(n, heard(n, h))
<1> DEFINE T == rtable[n]
           U == update_rtime(T, h.s_select, h.d_intf, h.s_intf, now)
<1>1. TableOK(n, T) /\ now \in Int
  BY DEF TablesOK
<1>2. SameMap(T, U) /\ Good(U)
  <2> HIDE DEF T
  <2>. QED  BY <1>1, RtimeMap DEF TableOK
<1>3. TableOK(n, U)
  <2> HIDE DEF T, U
  <2>. QED  BY <1>1, <1>2, TableSame
<1>. QED  BY <1>3 DEF heard

(* What forward_data may end the process on. *)
EndsOn(n, q) == q.daddr = IP_BROADCAST \/ (q.daddr = RaAddr[n] /\ q.direction = "UP")

(* forward_data. *)
LEMMA ForwardDataOK ==
  ASSUME TablesOK, NetOK, now \in Nat, NEW n \in Node, NEW p \in net,
         NEW T, TableOK(n, T), NEW q \in Packet, IsFlows(q), q.flow \in sent,
         forward_data(n, p, T, q), sent' = sent
  PROVE  /\ TablesOK' /\ NetOK'
         /\ aborted' = aborted \/ (aborted' \in BOOLEAN /\ EndsOn(n, q))
<1> DEFINE d == [q EXCEPT !.direction = "DOWN"]
<1>5. ASSUME NEW hop \in NextHops, NEW r \in Launch(n, [d EXCEPT !.next_hop = hop])
      PROVE  Ready(r)
  <2> DEFINE e == [d EXCEPT !.next_hop = hop]
  <2>1. d = [q EXCEPT !.direction = "DOWN"] /\ e = [d EXCEPT !.next_hop = hop]
    OBVIOUS
  <2>2. r \in Launch(n, e)
    BY <1>5
  <2> HIDE DEF d, e
  <2>3. SentOn(q, r)
    BY <2>1, <2>2, PlainSent
  <2>. QED  BY <2>3 DEF SentOn, Ready
<1>1. CASE /\ Upcall(n, q) /\ rtable' = [rtable EXCEPT ![n] = T]
           /\ net' = (net \ {p}) \cup {} /\ aborted' = TRUE
  <2>1. TablesOK'
    BY <1>1, TableStep
  <2>2. NetOK'
    BY <1>1 DEF NetOK
  <2>. QED  BY <1>1, <2>1, <2>2 DEF Upcall, EndsOn
<1>2. CASE /\ \E path \in {lookup_mp(T, q.daddr, now)} :
                /\ rtable' = [rtable EXCEPT ![n] = path.table]
                /\ net' = (net \ {p}) \cup (IF path.select = IP_BROADCAST THEN {}
                                            ELSE Launch(n, encapsulate(n, d, path)))
           /\ UNCHANGED aborted
  <2> DEFINE path == lookup_mp(T, q.daddr, now)
             out == IF path.select = IP_BROADCAST THEN {}
                    ELSE Launch(n, encapsulate(n, d, path))
  <2>1. rtable' = [rtable EXCEPT ![n] = path.table] /\ net' = (net \ {p}) \cup out
    BY <1>2
  <2>2. TableOK(n, path.table)
    <3> DEFINE L == path.table
    <3>1. Good(L) /\ SameMap(T, L)
      BY LookupMpGood, LookupMap DEF TableOK
    <3> HIDE DEF L
    <3>2. TableOK(n, L)
      BY <3>1, TableSame
    <3>. QED  BY <3>2 DEF L
  <2>3. TablesOK'
    <3> DEFINE U == path.table
    <3>1. rtable' = [rtable EXCEPT ![n] = U] /\ TableOK(n, U)
      BY <2>1, <2>2
    <3> HIDE DEF U
    <3>. QED  BY <3>1, TableStep
  <2>4. ASSUME NEW r \in out  PROVE Ready(r)
    <3>1. path.select # IP_BROADCAST /\ r \in Launch(n, encapsulate(n, d, path))
      BY <2>4
    <3> HIDE DEF path
    <3>2. HasPath(T, path.select, path.s_intf, path.d_intf)
      BY <3>1, LookupPath DEF TableOK, path
    <3>3. Wire(n, path.select, path.s_intf, path.d_intf)
      BY <3>2, WiredPath
    <3>4. d \in Packet /\ SameLoad(q, d) /\ d.direction = "DOWN"
      BY PacketDown
    <3> HIDE DEF d
    <3>5. IsFlows(d) /\ d.flow = q.flow
      BY <3>4 DEF SameLoad, IsFlows
    <3>6. PktOK(r) /\ r.flow = d.flow
      BY <3>1, <3>3, <3>4, <3>5, DataSent
    <3>. QED  BY <3>5, <3>6 DEF Ready
  <2>5. NetOK'
    <3>1. net' \subseteq net \cup out /\ sent \subseteq sent'
      BY <2>1
    <3> HIDE DEF out
    <3>. QED  BY <2>4, <3>1, NetStep
  <2>. QED  BY <1>2, <2>3, <2>5
<1>3. CASE /\ rtable' = [rtable EXCEPT ![n] = T]
           /\ \E hop \in {lookup(T, q.daddr)} :
                net' = (net \ {p}) \cup (IF hop = IP_BROADCAST THEN {}
                                         ELSE Launch(n, [d EXCEPT !.next_hop = hop]))
           /\ UNCHANGED aborted
  <2>1. TablesOK'
    BY <1>3, TableStep
  <2> DEFINE hop == lookup(T, q.daddr)
             out == Launch(n, [d EXCEPT !.next_hop = hop])
  <2>2. ASSUME NEW r \in out  PROVE Ready(r)
    BY <1>5, <2>2, LookupHop DEF TableOK
  <2>3. net' \subseteq net \cup out /\ sent \subseteq sent'
    BY <1>3
  <2> HIDE DEF out
  <2>4. NetOK'
    BY <2>2, <2>3, NetStep
  <2>. QED  BY <1>3, <2>1, <2>4
<1>4. CASE /\ q.daddr = IP_BROADCAST /\ rtable' = [rtable EXCEPT ![n] = T]
           /\ net' = (net \ {p}) \cup Launch(n, [d EXCEPT !.next_hop = IP_BROADCAST])
           /\ aborted' = NoSlot(n)
  <2>1. TablesOK'
    BY <1>4, TableStep
  <2> DEFINE out == Launch(n, [d EXCEPT !.next_hop = IP_BROADCAST])
  <2>2. ASSUME NEW r \in out  PROVE Ready(r)
    BY <1>5, <2>2 DEF NextHops
  <2>3. net' \subseteq net \cup out /\ sent \subseteq sent'
    BY <1>4
  <2> HIDE DEF out
  <2>4. NetOK'
    BY <2>2, <2>3, NetStep
  <2>. QED  BY <1>4, <2>1, <2>4 DEF EndsOn, NoSlot
<1>. QED  BY <1>1, <1>2, <1>3, <1>4 DEF forward_data

(* A packet of the invariant, at an agent. *)
LEMMA PingAtCore ==
  ASSUME NEW n \in Core, NEW p, PktOK(p), p.at = n, p.ptype = "MPSELECT",
         p.hdr.type \in {"PING_PKT", "PING_BAK"}
  PROVE  /\ p.hdr \in PingHdr /\ p.hdr.d_select = n
         /\ Wire(n, p.hdr.s_select, p.hdr.d_intf, p.hdr.s_intf)
<1>1. p.hdr \in PingHdr /\ PingOK(p, p.hdr)
  <2>1. p.hdr \notin DataHdr
    BY DEF DataHdr
  <2>. QED  BY <2>1 DEF PktOK
<1> DEFINE h == p.hdr
<1>2. Wire(h.s_select, h.d_select, h.s_intf, h.d_intf)
  BY <1>1 DEF PingOK, OnPath
<1>3. h.s_intf \notin Core /\ h.d_intf \notin Core /\ Wire(h.d_select, h.s_select, h.d_intf, h.s_intf)
  BY <1>2, WireEnds
<1>4. h.d_select = n
  BY <1>1, <1>3 DEF PingOK, OnPath
<1>. QED  BY <1>1, <1>3, <1>4

LEMMA RecvPingOK ==
  ASSUME TablesOK, NetOK, now \in Nat, NEW n \in Node, NEW p \in net, RecvPing(n, p)
  PROVE  TablesOK' /\ NetOK' /\ aborted' = aborted
<1> DEFINE h == p.hdr
           T == heard(n, h)
           U == update_rdelay(T, h.s_select, h.d_intf, h.s_intf, h.send_time, now)
           out == Launch(n, ping_pkt(n, "PING_BAK", h.d_intf, h.s_intf, h.s_select,
                                     h.ping_seq, p.orig, p.nth))
<1>1. /\ n \in Core /\ p.at = n /\ p.ptype = "MPSELECT" /\ h.type = "PING_PKT"
      /\ rtable' = [rtable EXCEPT ![n] = U] /\ net' = (net \ {p}) \cup out
      /\ sent' = sent /\ aborted' = aborted
  BY DEF RecvPing, AtCore, Arrives
<1>2. PktOK(p) /\ p \in Packet
  BY DEF NetOK, PktOK
<1>3. h \in PingHdr /\ Wire(n, h.s_select, h.d_intf, h.s_intf)
  BY <1>1, <1>2, PingAtCore
<1>4. /\ h.s_intf \in Intf /\ h.d_intf \in Intf /\ h.send_time \in Int /\ h.ping_seq \in Nat
      /\ now \in Int
  BY <1>3 DEF PingHdr
<1>5. p.orig \in Nat /\ p.nth \in Nat
  BY <1>2, PacketFields
<1> HIDE DEF h
<1>6. TableOK(n, T)
  BY <1>4, HeardOK
<1>7. TableOK(n, U)
  <2> HIDE DEF T
  <2>1. Good(U) /\ SameMap(T, U)
    BY <1>4, <1>6, UpdateRdelayGood, RdelayMap DEF TableOK
  <2> HIDE DEF U
  <2>. QED  BY <1>6, <2>1, TableSame
<1>8. TablesOK'
  <2> HIDE DEF U
  <2>. QED  BY <1>1, <1>7, TableStep
<1>9. ASSUME NEW r \in out  PROVE Ready(r)
  <2>1. PktOK(r) /\ r.hdr \in PingHdr
    BY <1>1, <1>3, <1>4, <1>5, PingSent
  <2>. QED  BY <2>1 DEF Ready
<1>10. NetOK'
  <2>1. net' \subseteq net \cup out /\ sent \subseteq sent'
    BY <1>1
  <2> HIDE DEF out
  <2>. QED  BY <1>9, <2>1, NetStep
<1>. QED  BY <1>1, <1>8, <1>10

LEMMA RecvBakOK ==
  ASSUME TablesOK, NetOK, now \in Nat, NEW n \in Node, NEW p \in net, RecvBak(n, p)
  PROVE  TablesOK' /\ NetOK' /\ aborted' = aborted
<1> DEFINE h == p.hdr
           T == heard(n, h)
           U == update_sdelay(T, h.s_select, h.d_intf, h.s_intf, h.send_time, h.ping_seq)
<1>1. /\ n \in Core /\ p.at = n /\ p.ptype = "MPSELECT" /\ h.type = "PING_BAK"
      /\ rtable' = [rtable EXCEPT ![n] = U] /\ net' = net \ {p}
      /\ sent' = sent /\ aborted' = aborted
  BY DEF RecvBak, AtCore, Arrives
<1>2. PktOK(p)
  BY DEF NetOK
<1>3. h \in PingHdr
  BY <1>1, <1>2, PingAtCore
<1>4. /\ h.s_intf \in Intf /\ h.d_intf \in Intf /\ h.send_time \in Int /\ h.ping_seq \in Int
  BY <1>3 DEF PingHdr
<1> HIDE DEF h
<1>5. TableOK(n, T)
  BY <1>4, HeardOK
<1>6. TableOK(n, U)
  <2> HIDE DEF T
  <2>1. Good(U) /\ SameMap(T, U)
    BY <1>4, <1>5, UpdateSdelayGood, SdelayMap DEF TableOK
  <2> HIDE DEF U
  <2>. QED  BY <1>5, <2>1, TableSame
<1>7. TablesOK'
  <2> HIDE DEF U
  <2>. QED  BY <1>1, <1>6, TableStep
<1>8. NetOK'
  BY <1>1 DEF NetOK
<1>. QED  BY <1>1, <1>7, <1>8

(* The data that AbortNeedsLocalData names. *)
LocalData ==
  \E f \in sent :
    \/ f.daddr \in Core \cup {IP_BROADCAST}
    \/ /\ f.daddr \in Node /\ RaAddr[f.daddr] = f.daddr
       /\ MacNode # {} \/ f.direction = "UP"

LEMMA UpIsLocal ==
  ASSUME NEW n \in Node, NEW q, IsFlows(q), q.flow \in sent, EndsOn(n, q),
         q.direction = "UP" => n \in Core \/ MacNode # {} \/ q.flow.direction = "UP"
  PROVE  LocalData
<1>1. q.flow \in Flow /\ q.daddr = q.flow.daddr
  BY DEF IsFlows
<1>2. CASE q.daddr = IP_BROADCAST
  BY <1>1, <1>2 DEF LocalData
<1>3. CASE q.daddr = RaAddr[n] /\ q.direction = "UP"
  <2>1. RaAddr[n] \in Core \cup {n} /\ (n \in Core => RaAddr[n] = n)
    BY WiringAssumption
  <2>2. CASE RaAddr[n] \in Core
    BY <1>1, <1>3, <2>2 DEF LocalData
  <2>3. CASE RaAddr[n] = n /\ n \notin Core
    <3>1. MacNode # {} \/ q.flow.direction = "UP"
      BY <1>3, <2>3
    <3>2. q.flow.daddr \in Node /\ RaAddr[q.flow.daddr] = q.flow.daddr
      BY <1>1, <1>3, <2>3
    <3>. QED  BY <3>1, <3>2 DEF LocalData
  <2>. QED  BY <2>1, <2>2, <2>3
<1>. QED  BY <1>2, <1>3 DEF EndsOn

LEMMA RecvDataOK ==
  ASSUME TablesOK, NetOK, now \in Nat, NEW n \in Node, NEW p \in net, RecvData(n, p)
  PROVE  TablesOK' /\ NetOK' /\ (aborted' = aborted \/ (aborted' \in BOOLEAN /\ LocalData))
<1> DEFINE q == decapsulate(n, entering(n, p))
           T == heard(n, p.hdr)
<1>1. /\ p.ptype = "MPSELECT" /\ p.hdr.type = "DATA_PKT" /\ n \in Core
      /\ forward_data(n, p, T, q) /\ sent' = sent
  BY DEF RecvData, AtCore, Arrives
<1>2. PktOK(p) /\ (p.hdr \notin PingHdr => p.flow \in sent)
  BY DEF NetOK
<1>3. p.hdr \in DataHdr /\ p.hdr \notin PingHdr
  <2>1. p.hdr \notin PingHdr
    BY <1>1 DEF PingHdr
  <2>. QED  BY <1>1, <1>2, <2>1 DEF PktOK
<1>4. p.hdr.s_intf \in Intf /\ p.hdr.d_intf \in Intf
  BY <1>3 DEF DataHdr
<1>5. TableOK(n, T)
  BY <1>4, HeardOK
<1>6. q \in Packet /\ IsFlows(q) /\ q.flow = p.flow
  BY <1>1, <1>2, Decapsulated
<1>7. q.flow \in sent
  BY <1>2, <1>3, <1>6
<1> HIDE DEF q, T
<1>8. /\ TablesOK' /\ NetOK'
      /\ aborted' = aborted \/ (aborted' \in BOOLEAN /\ EndsOn(n, q))
  BY <1>1, <1>5, <1>6, <1>7, ForwardDataOK
<1>. QED  BY <1>1, <1>6, <1>7, <1>8, UpIsLocal

LEMMA RecvPlainOK ==
  ASSUME TablesOK, NetOK, now \in Nat, NEW n \in Node, NEW p \in net, RecvPlain(n, p)
  PROVE  TablesOK' /\ NetOK' /\ (aborted' = aborted \/ (aborted' \in BOOLEAN /\ LocalData))
<1> DEFINE q == [entering(n, p) EXCEPT !.ttl = @ - 1]
<1>1. /\ p.ptype # "MPSELECT" /\ sent' = sent
      /\ \/ net' = net \ {p} /\ UNCHANGED <<rtable, aborted>>
         \/ q.ttl >= 0 /\ forward_data(n, p, rtable[n], q)
  BY DEF RecvPlain, Arrives
<1>2. CASE net' = net \ {p} /\ UNCHANGED <<rtable, aborted>>
  BY <1>1, <1>2 DEF NetOK, TablesOK
<1>3. CASE q.ttl >= 0 /\ forward_data(n, p, rtable[n], q)
  <2>1. PktOK(p) /\ (p.hdr \notin PingHdr => p.flow \in sent)
    BY DEF NetOK
  <2>2. p.hdr \notin PingHdr
    BY <1>1, <2>1 DEF PktOK, PlainOK, IsFlows
  <2>3. q \in Packet /\ IsFlows(q) /\ q.flow = p.flow /\ q.direction = p.direction
    BY <1>1, <1>3, <2>1, PlainEntered
  <2>4. q.flow \in sent
    BY <2>1, <2>2, <2>3
  <2>5. TableOK(n, rtable[n])
    BY DEF TablesOK
  <2> HIDE DEF q
  <2>60. q.direction = "UP" => MacNode # {} \/ q.flow.direction = "UP"
    BY <2>1, <2>3 DEF PktOK, TurnedOK
  <2>6. /\ TablesOK' /\ NetOK'
        /\ aborted' = aborted \/ (aborted' \in BOOLEAN /\ EndsOn(n, q))
    BY <1>1, <1>3, <2>3, <2>4, <2>5, ForwardDataOK
  <2>. QED  BY <2>3, <2>4, <2>6, <2>60, UpIsLocal
<1>. QED  BY <1>1, <1>2, <1>3

LEMMA ForwardMpSOK ==
  ASSUME TablesOK, NetOK, NEW n \in Node, NEW p \in net, ForwardMpS(n, p)
  PROVE  TablesOK' /\ NetOK' /\ aborted' = aborted
<1> DEFINE out == Launch(n, steer(n, entering(n, p)))
<1>1. /\ n \notin Core /\ p.at = n /\ p.ptype = "MPSELECT"
      /\ net' \subseteq net \cup out /\ sent' = sent /\ rtable' = rtable /\ aborted' = aborted
  BY DEF ForwardMpS, Arrives
<1>2. PktOK(p) /\ (p.hdr \notin PingHdr => p.flow \in sent)
  BY DEF NetOK
<1>3. ASSUME NEW r \in out  PROVE Ready(r)
  <2>1. PktOK(r) /\ r.hdr = p.hdr /\ r.flow = p.flow
    <3>1. n \in Node \ Core
      BY <1>1
    <3>. QED  BY <1>1, <1>2, <1>3, <3>1, Forwarded
  <2>. QED  BY <1>2, <2>1 DEF Ready
<1> HIDE DEF out
<1>4. NetOK'
  BY <1>1, <1>3, NetStep
<1>. QED  BY <1>1, <1>4 DEF TablesOK

(* The ping timer. *)
LEMMA ExpireOK ==
  ASSUME TablesOK, NetOK, now \in Nat, NEW n \in Node, Expire(n)
  PROVE  TablesOK' /\ NetOK' /\ aborted' = aborted
<1> DEFINE T == rtable[n]
           U == ping_round(T, now)
           out == UNION {Launch(n, ping_pkt(n, "PING_PKT", g.s_intf, g.d_intf,
                                            g.select, g.ping_seq, now, g.nth)) :
                           g \in pings(T)}
<1>1. /\ rtable' = [rtable EXCEPT ![n] = U] /\ net' = net \cup out
      /\ sent' = sent /\ aborted' = aborted
  <2>1. rtable' = [rtable EXCEPT ![n] = ping_round(rtable[n], now)]
    BY DEF Expire
  <2>. QED  BY <2>1 DEF Expire
<1>2. TableOK(n, T)
  BY DEF TablesOK
<1> HIDE DEF T
<1>3. TableOK(n, U)
  <2>1. Good(U) /\ SameMap(T, U)
    BY <1>2, PingRoundGood, PingRoundMap DEF TableOK
  <2> HIDE DEF U
  <2>. QED  BY <1>2, <2>1, TableSame
<1>4. TablesOK'
  <2> HIDE DEF U
  <2>. QED  BY <1>1, <1>3, TableStep
<1>5. ASSUME NEW r \in out  PROVE Ready(r)
  <2>1. PICK g \in pings(T) : r \in Launch(n, ping_pkt(n, "PING_PKT", g.s_intf, g.d_intf,
                                                       g.select, g.ping_seq, now, g.nth))
    BY <1>5
  <2>2. HasPath(T, g.select, g.s_intf, g.d_intf) /\ g.ping_seq \in Nat /\ g.nth \in Nat
    BY <1>2, PingsPath DEF TableOK
  <2>3. Wire(n, g.select, g.s_intf, g.d_intf)
    BY <1>2, <2>2, WiredPath
  <2>4. n \in Core
    BY <2>3, WireEnds
  <2>5. PktOK(r) /\ r.hdr \in PingHdr
    BY <2>1, <2>2, <2>3, <2>4, PingSent
  <2>. QED  BY <2>5 DEF Ready
<1>6. NetOK'
  <2>1. net' \subseteq net \cup out /\ sent \subseteq sent'
    BY <1>1
  <2> HIDE DEF out
  <2>. QED  BY <1>5, <2>1, NetStep
<1>. QED  BY <1>1, <1>4, <1>6

(* A packet as its host sends it. *)
LEMMA FlowPacket ==
  ASSUME NEW f \in Flow, NEW p, p = data_pkt(f)
  PROVE  PktOK(p) /\ p.flow = f
<1>1. /\ f.saddr \in Int /\ f.size \in Nat /\ f.enters \in Node /\ f.ptype # "MPSELECT"
      /\ f.direction \in Directions
      /\ f.daddr \in Stop /\ f.enters \in Stop
  BY FlowAssumption DEF Stop, Directions
<1> DEFINE sa == f.saddr  da == f.daddr  dp == f.dport  pt == f.ptype  sz == f.size
           en == f.enters  di == f.direction
           nf == IF di = "UP" THEN 1 ELSE 0
<1>2. /\ sa \in Int /\ da \in Stop /\ dp \in DPorts /\ sz \in Nat /\ pt \in PTypes
      /\ en \in Stop /\ f \in FlowOrNone /\ di \in Directions /\ nf \in Nat
      /\ NoHop \in NextHops
  BY <1>1, FieldValues DEF NextHops
<1>3. p = [ptype |-> pt, saddr |-> sa, daddr |-> da, dport |-> dp, size |-> sz,
           ttl |-> IP_DEF_TTL, num_forwards |-> nf, direction |-> di,
           next_hop |-> NoHop, local |-> FALSE, hdr |-> NoHdr,
           at |-> en, orig |-> 0, nth |-> 0, via |-> {}, flow |-> f]
  BY DEF data_pkt
<1> HIDE DEF sa, da, dp, pt, sz, en, di, nf
<1>4. p \in Packet
  BY <1>2, <1>3, FieldValues DEF Packet
<1>5. /\ p.ptype = pt /\ p.saddr = sa /\ p.daddr = da /\ p.dport = dp /\ p.size = sz
      /\ p.hdr = NoHdr /\ p.at = en /\ p.flow = f /\ p.direction = di
  BY <1>3
<1>6. NoHdr \notin PingHdr
  BY DEF NoHdr, PingHdr
<1>7. PlainOK(p) /\ p.ptype # "MPSELECT" /\ TurnedOK(p)
  BY <1>1, <1>5, <1>6 DEF PlainOK, IsFlows, TurnedOK, sa, da, dp, pt, sz, en, di
<1>. QED  BY <1>4, <1>5, <1>7 DEF PktOK

LEMMA SendDataOK ==
  ASSUME TablesOK, NetOK, NEW f \in Flow, SendData(f)
  PROVE  TablesOK' /\ NetOK' /\ aborted' = aborted
<1> DEFINE p == data_pkt(f)
<1>1. net' = net \cup {p} /\ sent' = sent \cup {f} /\ rtable' = rtable /\ aborted' = aborted
  BY DEF SendData
<1>2. PktOK(p) /\ p.flow = f
  BY FlowPacket
<1> HIDE DEF p
<1>3. NetOK'
  BY <1>1, <1>2 DEF NetOK
<1>. QED  BY <1>1, <1>3 DEF TablesOK

LEMMA DeleteMpPathOK ==
  ASSUME TablesOK, NetOK, NEW e \in Editable, DeleteMpPath(e[1], e[2], e[3], e[4])
  PROVE  TablesOK' /\ NetOK' /\ aborted' = aborted
<1> DEFINE n == e[1]
           T == rtable[n]
           U == delete_mpath(T, e[2], e[3], e[4])
<1>1. Wire(n, e[2], e[3], e[4])
  BY WiringAssumption
<1>2. n \in Node /\ e[3] \in Intf /\ e[4] \in Intf
  BY <1>1, WireEnds
<1>3. /\ rtable' = [rtable EXCEPT ![n] = U] /\ net' = net /\ sent' = sent
      /\ aborted' = aborted
  BY DEF DeleteMpPath, Command
<1> HIDE DEF n
<1>4. TableOK(n, U)
  <2>1. TableOK(n, T)
    BY <1>2 DEF TablesOK
  <2> HIDE DEF T
  <2>. QED  BY <1>2, <2>1, TableDelete
<1> HIDE DEF U
<1>5. TablesOK'
  BY <1>2, <1>3, <1>4, TableStep
<1>. QED  BY <1>3, <1>5 DEF NetOK

LEMMA AddMpPathOK ==
  ASSUME TablesOK, NetOK, now \in Nat, NEW e \in Editable, AddMpPath(e[1], e[2], e[3], e[4])
  PROVE  TablesOK' /\ NetOK' /\ aborted' = aborted
<1> DEFINE n == e[1]
           T == rtable[n]
<1>1. Wire(n, e[2], e[3], e[4]) /\ e[2] \in Peer
  BY WiringAssumption
<1>2. n \in Node /\ e[3] \in Intf /\ e[4] \in Intf
  BY <1>1, WireEnds
<1>3. PICK fresh \in MPtr \ Live(T) :
        rtable' = [rtable EXCEPT ![n] = add_mpath(T, e[2], e[3], e[4], fresh, now)]
  BY DEF AddMpPath
<1>4. net' = net /\ sent' = sent /\ aborted' = aborted
  BY DEF AddMpPath, Command
<1> DEFINE U == add_mpath(T, e[2], e[3], e[4], fresh, now)
<1> HIDE DEF n
<1>5. TableOK(n, U)
  <2>1. TableOK(n, T)
    BY <1>2 DEF TablesOK
  <2> HIDE DEF T
  <2>. QED  BY <1>1, <1>2, <2>1, TableAdd
<1>6. rtable' = [rtable EXCEPT ![n] = U]
  BY <1>3
<1> HIDE DEF U
<1>7. TablesOK'
  BY <1>2, <1>5, <1>6, TableStep
<1>. QED  BY <1>4, <1>7 DEF NetOK

(* Every step keeps the tables and the packets right, and aborts only for  *)
(* data of a core's node or on a command.                                  *)
LEMMA StepOK ==
  ASSUME TablesOK, NetOK, now \in Nat, Next
  PROVE  /\ TablesOK' /\ NetOK'
         /\ \/ aborted' = aborted
            \/ aborted' \in BOOLEAN /\ LocalData /\ sent' = sent
            \/ aborted' \in BOOLEAN /\ cmds' = cmds + 1
<1>1. ASSUME NEW n \in Node, NEW p \in net, RecvLooped(n, p)
      PROVE  TablesOK' /\ NetOK' /\ aborted' = aborted
  BY <1>1 DEF RecvLooped, Arrives, TablesOK, NetOK
<1>2. ASSUME NEW p \in net, HostRecv(p) \/ Lose(p)
      PROVE  TablesOK' /\ NetOK' /\ aborted' = aborted
  BY <1>2 DEF HostRecv, Lose, TablesOK, NetOK
<1>3. ASSUME NEW n \in Node, Start(n)
      PROVE  TablesOK' /\ NetOK' /\ aborted' = aborted
  BY <1>3 DEF Start, Command, TablesOK, NetOK
<1>4. ASSUME NEW n \in Node, StopPing(n)
      PROVE  TablesOK' /\ NetOK' /\ aborted' \in BOOLEAN /\ cmds' = cmds + 1
  BY <1>4 DEF StopPing, Command, TablesOK, NetOK
<1>5. ASSUME Tick
      PROVE  TablesOK' /\ NetOK' /\ aborted' = aborted
  BY <1>5 DEF Tick, TablesOK, NetOK
<1>6. ASSUME NEW n \in Node, NEW p \in net, RecvData(n, p) \/ RecvPlain(n, p)
      PROVE  /\ TablesOK' /\ NetOK' /\ sent' = sent
             /\ aborted' = aborted \/ (aborted' \in BOOLEAN /\ LocalData)
  <2>1. sent' = sent
    BY <1>6 DEF RecvData, AtCore, RecvPlain, Arrives
  <2>. QED  BY <1>6, <2>1, RecvDataOK, RecvPlainOK
<1>7. ASSUME NEW n \in Node, NEW p \in net,
             ForwardMpS(n, p) \/ RecvPing(n, p) \/ RecvBak(n, p)
      PROVE  TablesOK' /\ NetOK' /\ aborted' = aborted
  BY <1>7, ForwardMpSOK, RecvPingOK, RecvBakOK
<1>8. ASSUME NEW n \in Node, Expire(n)
      PROVE  TablesOK' /\ NetOK' /\ aborted' = aborted
  BY <1>8, ExpireOK
<1>9. ASSUME NEW e \in Editable, \/ DeleteMpPath(e[1], e[2], e[3], e[4])
                                 \/ AddMpPath(e[1], e[2], e[3], e[4])
      PROVE  TablesOK' /\ NetOK' /\ aborted' = aborted
  BY <1>9, DeleteMpPathOK, AddMpPathOK
<1>10. ASSUME NEW f \in Flow, SendData(f)
       PROVE  TablesOK' /\ NetOK' /\ aborted' = aborted
  BY <1>10, SendDataOK
<1>. QED
  BY <1>1, <1>2, <1>3, <1>4, <1>5, <1>6, <1>7, <1>8, <1>9, <1>10, Zenon
     DEF Next, Deliver, DeliverOf, RecvOf

-----------------------------------------------------------------------------
(* The other variables. *)

TimerType == [Node -> [status : {"IDLE", "PENDING"}, time : Nat]]

LEMMA TimerSet ==
  ASSUME timer \in TimerType, NEW n \in Node, NEW st \in {"IDLE", "PENDING"}, NEW t \in Nat,
         timer' = [timer EXCEPT ![n] = [status |-> st, time |-> t]]
  PROVE  /\ timer' \in TimerType
         /\ \A m \in Node : m # n => timer'[m] = timer[m]
         /\ timer'[n].status = st /\ timer'[n].time = t
BY DEF TimerType

(* What the handlers of packets leave alone. *)
LEMMA RecvLeaves ==
  ASSUME NEW n, NEW p,
         \/ RecvLooped(n, p) \/ ForwardMpS(n, p) \/ RecvPing(n, p)
         \/ RecvBak(n, p) \/ RecvData(n, p) \/ RecvPlain(n, p)
  PROVE  UNCHANGED <<timer, delivered, sent, now, cmds, started, steady>>
BY DEF RecvLooped, ForwardMpS, RecvPing, RecvBak, RecvData, RecvPlain, AtCore, Arrives

LEMMA TimersStep ==
  ASSUME TimersOK, now \in Nat, Next
  PROVE  TimersOK'
<1>0. /\ timer \in TimerType /\ started \in [Node -> BOOLEAN] /\ StartedMeansPending
      /\ SEND_PING_INTERVAL \in Nat
  BY IntervalAssumption DEF TimersOK, TimerType
<1>1. CASE UNCHANGED <<timer, started, now>>
  BY <1>0, <1>1 DEF TimersOK, TimerType, StartedMeansPending
<1>2. ASSUME NEW n \in Node, Expire(n)  PROVE TimersOK'
  <2>1. /\ timer' = [timer EXCEPT ![n] = [status |-> "PENDING", time |-> now + SEND_PING_INTERVAL]]
        /\ now' = now /\ started' = started
    BY <1>2 DEF Expire
  <2>2. now + SEND_PING_INTERVAL \in Nat
    BY <1>0
  <2>3. /\ timer' \in TimerType
        /\ \A m \in Node : m # n => timer'[m] = timer[m]
        /\ timer'[n].status = "PENDING" /\ timer'[n].time = now + SEND_PING_INTERVAL
    BY <1>0, <2>1, <2>2, TimerSet
  <2>4. StartedMeansPending'
    BY <1>0, <2>1, <2>3 DEF StartedMeansPending
  <2>. QED  BY <1>0, <2>1, <2>3, <2>4 DEF TimersOK, TimerType
<1>3. ASSUME NEW n \in Node, Start(n)  PROVE TimersOK'
  <2>1. /\ timer' = [timer EXCEPT ![n] = [status |-> "PENDING", time |-> now]]
        /\ now' = now /\ started' = [started EXCEPT ![n] = TRUE]
    BY <1>3 DEF Start, Command
  <2>2. /\ timer' \in TimerType
        /\ \A m \in Node : m # n => timer'[m] = timer[m]
        /\ timer'[n].status = "PENDING" /\ timer'[n].time = now
    BY <1>0, <2>1, TimerSet
  <2>3. started' \in [Node -> BOOLEAN] /\ \A m \in Node : m # n => started'[m] = started[m]
    BY <1>0, <2>1
  <2>4. StartedMeansPending'
    BY <1>0, <2>1, <2>2, <2>3 DEF StartedMeansPending
  <2>. QED  BY <2>2, <2>3, <2>4 DEF TimersOK, TimerType
<1>4. ASSUME NEW n \in Node, StopPing(n)  PROVE TimersOK'
  <2>1. /\ timer' = [timer EXCEPT ![n].status = "IDLE"]
        /\ now' = now /\ started' = [started EXCEPT ![n] = FALSE]
    BY <1>4 DEF StopPing, Command
  <2>2. timer' \in TimerType /\ \A m \in Node : m # n => timer'[m] = timer[m]
    BY <1>0, <2>1 DEF TimerType
  <2>3. /\ started' \in [Node -> BOOLEAN] /\ ~ started'[n]
        /\ \A m \in Node : m # n => started'[m] = started[m]
    BY <1>0, <2>1
  <2>4. StartedMeansPending'
    BY <1>0, <2>1, <2>2, <2>3 DEF StartedMeansPending
  <2>. QED  BY <2>2, <2>3, <2>4 DEF TimersOK, TimerType
<1>5. CASE Tick
  <2>1. /\ \A n \in Node : timer[n].status = "PENDING" => timer[n].time > now
        /\ now' = now + 1 /\ timer' = timer /\ started' = started
    BY <1>5 DEF Tick
  <2>2. \A n \in Node : timer[n].time \in Nat
    BY <1>0 DEF TimerType
  <2>3. ASSUME NEW n \in Node, started[n]
        PROVE  timer[n].status = "PENDING" /\ timer[n].time \in (now + 1)..(now + 1 + SEND_PING_INTERVAL)
    <3>1. timer[n].status = "PENDING" /\ timer[n].time \in now..(now + SEND_PING_INTERVAL)
      BY <1>0, <2>3 DEF StartedMeansPending
    <3>2. timer[n].time > now
      BY <2>1, <3>1
    <3>. QED  BY <1>0, <2>2, <3>1, <3>2
  <2>4. StartedMeansPending'
    BY <2>1, <2>3 DEF StartedMeansPending
  <2>. QED  BY <1>0, <2>1, <2>4 DEF TimersOK, TimerType
<1>6. ASSUME NEW n, NEW select, NEW s, NEW d,
             DeleteMpPath(n, select, s, d) \/ AddMpPath(n, select, s, d)
      PROVE  UNCHANGED <<timer, started, now>>
  BY <1>6 DEF DeleteMpPath, AddMpPath, Command
<1>7. ASSUME NEW p, HostRecv(p) \/ Lose(p)
      PROVE  UNCHANGED <<timer, started, now>>
  BY <1>7 DEF HostRecv, Lose
<1>8. ASSUME NEW f, SendData(f)
      PROVE  UNCHANGED <<timer, started, now>>
  BY <1>8 DEF SendData
<1>9. ASSUME NEW n \in Node, NEW p \in net,
             \/ RecvLooped(n, p) \/ ForwardMpS(n, p) \/ RecvPing(n, p)
             \/ RecvBak(n, p) \/ RecvData(n, p) \/ RecvPlain(n, p)
      PROVE  UNCHANGED <<timer, started, now>>
  BY <1>9, RecvLeaves
<1>. QED
  BY <1>1, <1>2, <1>3, <1>4, <1>5, <1>6, <1>7, <1>8, <1>9, Zenon DEF Next, Deliver, DeliverOf, RecvOf

LEMMA CountersStep ==
  ASSUME CountersOK, aborted' \in BOOLEAN, Next
  PROVE  /\ CountersOK' /\ sent \subseteq sent' /\ cmds' >= cmds
<1> DEFINE Goal == CountersOK' /\ sent \subseteq sent' /\ cmds' >= cmds
<1>0. /\ sent \subseteq Flow /\ now \in 0..MaxTime /\ cmds \in 0..MaxCmds
      /\ steady \in BOOLEAN /\ MaxTime \in Nat /\ MaxCmds \in Nat
  BY NetworkAssumption DEF CountersOK
<1>1. CASE UNCHANGED <<sent, now, cmds, steady>>
  BY <1>0, <1>1 DEF CountersOK
<1>2. CASE Command /\ steady' \in BOOLEAN
  BY <1>0, <1>2 DEF CountersOK, Command
<1>3. CASE Tick
  BY <1>0, <1>3 DEF CountersOK, Tick
<1>4. ASSUME NEW f \in Flow, SendData(f)  PROVE Goal
  BY <1>0, <1>4 DEF CountersOK, SendData
<1>5. ASSUME NEW n \in Node, Expire(n)  PROVE UNCHANGED <<sent, now, cmds, steady>>
  BY <1>5 DEF Expire
<1>6. ASSUME NEW n \in Node, Start(n) \/ StopPing(n)
      PROVE  Command /\ steady' \in BOOLEAN
  BY <1>6 DEF Start, StopPing
<1>7. ASSUME NEW n, NEW select, NEW s, NEW d,
             DeleteMpPath(n, select, s, d) \/ AddMpPath(n, select, s, d)
      PROVE  Command /\ steady' \in BOOLEAN
  BY <1>0, <1>7 DEF DeleteMpPath, AddMpPath
<1>8. ASSUME NEW p, HostRecv(p) \/ Lose(p)
      PROVE  UNCHANGED <<sent, now, cmds, steady>>
  BY <1>8 DEF HostRecv, Lose
<1>9. ASSUME NEW n \in Node, NEW p \in net,
             \/ RecvLooped(n, p) \/ ForwardMpS(n, p) \/ RecvPing(n, p)
             \/ RecvBak(n, p) \/ RecvData(n, p) \/ RecvPlain(n, p)
      PROVE  UNCHANGED <<sent, now, cmds, steady>>
  BY <1>9, RecvLeaves
<1>. QED
  BY <1>1, <1>2, <1>3, <1>4, <1>5, <1>6, <1>7, <1>8, <1>9, Zenon DEF Next, Deliver, DeliverOf, RecvOf

(* What a host receives is a flow's packet. *)
LEMMA DeliveredStep ==
  ASSUME DeliveredOK, NetOK, Next
  PROVE  DeliveredOK'
<1>1. CASE delivered' = delivered
  BY <1>1 DEF DeliveredOK
<1>2. ASSUME NEW p \in net, HostRecv(p)  PROVE DeliveredOK'
  <2>1. p.at \notin Node /\ delivered' = delivered \cup {p} /\ PktOK(p)
    BY <1>2 DEF HostRecv, NetOK
  <2>2. p.ptype # "MPSELECT"
    <3> SUFFICES ASSUME p.ptype = "MPSELECT" PROVE p.at \in Node
      BY <2>1
    <3>1. OnPath(p, p.hdr)
      BY <2>1 DEF PktOK, PingOK, DataOK
    <3>. QED  BY <3>1, WireEnds DEF OnPath
  <2>3. PlainOK(p)
    BY <2>1, <2>2 DEF PktOK
  <2>. QED  BY <2>1, <2>3 DEF DeliveredOK
<1>3. ASSUME NEW n \in Node, Expire(n) \/ Start(n) \/ StopPing(n)
      PROVE  delivered' = delivered
  BY <1>3 DEF Expire, Start, StopPing, Command
<1>4. ASSUME NEW n, NEW select, NEW s, NEW d,
             DeleteMpPath(n, select, s, d) \/ AddMpPath(n, select, s, d)
      PROVE  delivered' = delivered
  BY <1>4 DEF DeleteMpPath, AddMpPath, Command
<1>5. ASSUME NEW p, Lose(p) \/ SendData(p) \/ Tick
      PROVE  delivered' = delivered
  BY <1>5 DEF Lose, SendData, Tick
<1>6. ASSUME NEW n \in Node, NEW p \in net,
             \/ RecvLooped(n, p) \/ ForwardMpS(n, p) \/ RecvPing(n, p)
             \/ RecvBak(n, p) \/ RecvData(n, p) \/ RecvPlain(n, p)
      PROVE  delivered' = delivered
  BY <1>6, RecvLeaves
<1>. QED  BY <1>1, <1>2, <1>3, <1>4, <1>5, <1>6, Zenon DEF Next, Deliver, DeliverOf, RecvOf

-----------------------------------------------------------------------------
(* The theorems. *)

LEMMA InitInv == Init => IInv
<1> SUFFICES ASSUME Init PROVE IInv
  OBVIOUS
<1>1. TablesOK
  BY InitTables, WiringAssumption DEF Init, TablesOK
<1>2. NetOK /\ DeliveredOK
  BY DEF Init, NetOK, DeliveredOK
<1>3. CountersOK /\ AbortNeedsLocalData
  <2>1. sent = {} /\ now = 0 /\ cmds = 0 /\ steady \in BOOLEAN /\ aborted = FALSE
    BY DEF Init
  <2>2. 0 \in 0..MaxTime /\ 0 \in 0..MaxCmds
    BY NetworkAssumption
  <2>3. {aborted, steady} \subseteq BOOLEAN
    BY <2>1
  <2>4. ~ aborted
    BY <2>1
  <2>. QED  BY <2>1, <2>2, <2>3, <2>4 DEF CountersOK, AbortNeedsLocalData
<1>4. TimersOK
  <2>1. timer \in [Node -> [status : {"IDLE", "PENDING"}, time : Nat]]
    BY DEF Init
  <2>2. started \in [Node -> BOOLEAN]
    BY DEF Init
  <2>3. StartedMeansPending
    <3>1. now = 0 /\ 0 \in 0..(0 + SEND_PING_INTERVAL)
      BY IntervalAssumption DEF Init
    <3>2. ASSUME NEW n \in Node, started[n]
          PROVE  timer[n].status = "PENDING" /\ timer[n].time = 0
      <4>1. n \in AutoStart
        BY <3>2 DEF Init
      <4>. QED  BY <4>1 DEF Init
    <3>. QED  BY <3>1, <3>2 DEF StartedMeansPending
  <2>. QED  BY <2>1, <2>2, <2>3 DEF TimersOK
<1>. QED  BY <1>1, <1>2, <1>3, <1>4 DEF IInv

LEMMA NextInv == IInv /\ [Next]_vars => IInv'
<1> SUFFICES ASSUME IInv, [Next]_vars PROVE IInv'
  OBVIOUS
<1>0. /\ TablesOK /\ NetOK /\ TimersOK /\ CountersOK /\ DeliveredOK /\ AbortNeedsLocalData
      /\ now \in Nat /\ aborted \in BOOLEAN /\ cmds \in Nat
  BY NetworkAssumption DEF IInv, CountersOK
<1>1. CASE Next
  <2>1. /\ TablesOK' /\ NetOK'
        /\ \/ aborted' = aborted
           \/ aborted' \in BOOLEAN /\ LocalData /\ sent' = sent
           \/ aborted' \in BOOLEAN /\ cmds' = cmds + 1
    BY <1>0, <1>1, StepOK
  <2>2. CountersOK' /\ sent \subseteq sent' /\ cmds' >= cmds
    BY <1>0, <1>1, <2>1, CountersStep
  <2>3. TimersOK' /\ DeliveredOK'
    BY <1>0, <1>1, TimersStep, DeliveredStep
  <2>4. AbortNeedsLocalData'
    <3> SUFFICES ASSUME aborted', cmds' = 0 PROVE LocalData'
      BY DEF AbortNeedsLocalData, LocalData
    <3>1. cmds = 0
      BY <1>0, <2>2
    <3>2. CASE aborted' = aborted
      BY <1>0, <2>2, <3>1, <3>2 DEF AbortNeedsLocalData, LocalData
    <3>3. CASE LocalData /\ sent' = sent
      BY <3>3 DEF LocalData
    <3>4. ~ (cmds' = cmds + 1)
      BY <3>1
    <3>. QED  BY <2>1, <3>2, <3>3, <3>4, Zenon
  <2>. QED  BY <2>1, <2>2, <2>3, <2>4 DEF IInv
<1>2. CASE UNCHANGED vars
  BY <1>0, <1>2 DEF vars, IInv, TablesOK, NetOK, TimersOK, CountersOK, DeliveredOK,
     AbortNeedsLocalData, StartedMeansPending
<1>. QED  BY <1>1, <1>2

(* The inductive invariant: tables are Good and wired as the topology, a   *)
(* packet in flight is where its path says, a set timer is due in time.    *)
THEOREM NetworkInvariant == Spec => []IInv
<1>1. Init => IInv
  BY InitInv
<1>2. IInv /\ [Next]_vars => IInv'
  BY NextInv
<1>. QED  BY <1>1, <1>2, PTL DEF Spec

(* The variables keep their types: the TTL never leaves its range, and     *)
(* recv_data_pkt never takes more off the size than forward_data added.    *)
THEOREM NetworkTypes == Spec => []TypeOK
<1>1. IInv => TypeOK
  <2> SUFFICES ASSUME IInv PROVE TypeOK
    OBVIOUS
  <2>1. \A n \in Node : rtable[n].status \in {"ok", "crashed", "hung"}
    BY TableFields DEF IInv, TablesOK, TableOK, Good
  <2>2. ASSUME NEW p \in net
        PROVE  /\ p.at \in Stop /\ p.daddr \in Stop /\ p.saddr \in Int
               /\ p.ttl \in 0..IP_DEF_TTL /\ p.num_forwards \in Nat /\ p.size \in Nat
               /\ p.direction \in {"NONE", "DOWN", "UP"} /\ p.local \in BOOLEAN
               /\ p.ptype = "MPSELECT" => p.hdr.type \in {"DATA_PKT", "PING_PKT", "PING_BAK"}
    <3>1. PktOK(p) /\ p \in Packet
      BY DEF IInv, NetOK, PktOK
    <3>2. p.ptype = "MPSELECT" => p.hdr.type \in {"DATA_PKT", "PING_PKT", "PING_BAK"}
      BY <3>1 DEF PktOK, PingHdr, DataHdr
    <3>. QED  BY <3>1, <3>2, PacketFields
  <2>3. delivered \subseteq {p \in delivered : p.at \notin Node}
    BY DEF IInv, DeliveredOK
  <2>. QED  BY <2>1, <2>2, <2>3 DEF IInv, TypeOK, CountersOK, TimersOK
<1>. QED  BY <1>1, NetworkInvariant, PTL

(* Every mpSelect packet that reaches a core, ping, answer or data, is     *)
(* addressed to it and has passed both interfaces of its path, or the far  *)
(* one if it is an answer that a MAC took there.                           *)
THEOREM PathsAreNotMixedUp == Spec => []ArrivesByItsPath
<1>1. IInv => ArrivesByItsPath
  <2> SUFFICES ASSUME IInv, NEW p \in net, p.ptype = "MPSELECT", p.at \in Core
               PROVE  /\ p.hdr.d_select = RaAddr[p.at]
                      /\ p.hdr.d_intf \in p.via
                      /\ p.hdr.s_intf \in p.via \/ Skips(p.hdr)
    BY DEF ArrivesByItsPath
  <2>1. OnPath(p, p.hdr)
    BY DEF IInv, NetOK, PktOK, PingOK, DataOK
  <2>2. /\ p.hdr.s_intf \notin Core /\ p.hdr.d_intf \notin Core
        /\ RaAddr[p.hdr.d_select] = p.hdr.d_select
    BY <2>1, WireEnds DEF OnPath
  <2>. QED  BY <2>1, <2>2 DEF OnPath
<1>. QED  BY <1>1, NetworkInvariant, PTL

(* Pings and answers move on at every interface but those created with     *)
(* their own address and those that send through a MAC.                    *)
THEOREM InterfacesMoveOn == Spec => []InterfaceForwards
<1>1. IInv => InterfaceForwards
  <2> SUFFICES ASSUME IInv, NEW p \in net, p.hdr.type \in {"PING_PKT", "PING_BAK"},
                      p.at \in p.via
               PROVE  Returns(p.at)
    BY DEF InterfaceForwards
  <2>1. p.hdr \notin DataHdr /\ p.hdr # NoHdr
    BY DEF DataHdr, NoHdr
  <2>2. PktOK(p) /\ p.hdr \in PingHdr
    BY <2>1, PacketFields DEF IInv, NetOK, PktOK
  <2>3. PingOK(p, p.hdr)
    BY <2>1, <2>2 DEF PktOK, PlainOK, IsFlows
  <2>. QED  BY <2>3 DEF PingOK
<1>. QED  BY <1>1, NetworkInvariant, PTL

(* A host gets a packet with the address, port, type and size with which   *)
(* it was sent, however often it has been encapsulated on its way.         *)
THEOREM HostsNoticeNothing == Spec => []Transparent
<1>1. IInv => Transparent
  <2> SUFFICES ASSUME IInv, NEW p \in delivered
               PROVE  /\ p.at = p.flow.daddr
                      /\ p.daddr = p.flow.daddr /\ p.dport = p.flow.dport
                      /\ p.ptype = p.flow.ptype /\ p.size = p.flow.size
    BY DEF Transparent
  <2>. QED  BY DEF IInv, DeliveredOK, PlainOK, IsFlows
<1>. QED  BY <1>1, NetworkInvariant, PTL

(* Once started and until stopped an agent has its timer pending, due      *)
(* within one interval, so that stop-ping does not abort.                  *)
THEOREM StartedStaysPending == Spec => []StartedMeansPending
<1>1. IInv => StartedMeansPending
  BY DEF IInv, TimersOK
<1>. QED  BY <1>1, NetworkInvariant, PTL

(* Without commands only broadcasts, data for a core's own node and, where *)
(* there are MACs, data for an interface with its own address end the      *)
(* process.                                                                *)
THEOREM OnlyLocalDataAborts == Spec => []AbortNeedsLocalData
<1>1. IInv => AbortNeedsLocalData
  BY DEF IInv
<1>. QED  BY <1>1, NetworkInvariant, PTL

(* recv takes for a loop only what has been here before, or what a core    *)
(* sent through a MAC to the interface that has its address.               *)
THEOREM LoopDropsExplained == Spec => LoopDropNeedsMac
<1> DEFINE A == \A n \in Node, p \in net : RecvLooped(n, p) =>
                  n \in p.via \/ \E m \in MacNode \cap Core : RaAddr[m] = p.saddr
<1>1. IInv /\ [Next]_vars => [A]_vars
  <2> SUFFICES ASSUME IInv, NEW n \in Node, NEW p \in net, RecvLooped(n, p),
                      n \notin p.via
               PROVE  \E m \in MacNode \cap Core : RaAddr[m] = p.saddr
    OBVIOUS
  <2>1. p.at = n /\ p.saddr = RaAddr[n] /\ p.num_forwards > 0 /\ PktOK(p)
    BY DEF RecvLooped, Arrives, Looped, IInv, NetOK
  <2>2. p.flow \in Flow => p.saddr # p.flow.saddr
    BY <2>1, FlowAssumption
  <2>3. p.hdr \in PingHdr /\ PingOK(p, p.hdr)
    BY <2>1, <2>2 DEF PktOK, DataOK, DataFor, PlainOK, IsFlows
  <2> DEFINE h == p.hdr
  <2>4. Wire(h.s_select, h.d_select, h.s_intf, h.d_intf) /\ p.saddr = h.s_select
    BY <2>3 DEF PingOK, OnPath
  <2>5. /\ h.s_select \in Core /\ h.d_select \in Core /\ h.s_select # h.d_select
        /\ RaAddr[h.s_select] = h.s_select /\ RaAddr[h.d_select] = h.d_select
        /\ h.d_intf \notin Core /\ RaAddr[h.d_intf] \in {h.d_select, h.d_intf}
    BY <2>4, WireEnds
  <2>6. n = h.s_intf
    BY <2>1, <2>3, <2>4, <2>5 DEF PingOK, OnPath
  <2>7. h.s_select \in MacNode
    <3>1. p.via = {}
      BY <2>1, <2>3, <2>6 DEF PingOK
    <3>. QED  BY <2>1, <2>3, <2>6, <3>1 DEF PingOK
  <2>. QED  BY <2>4, <2>5, <2>7
<1>. QED  BY <1>1, NetworkInvariant, PTL DEF Spec, LoopDropNeedsMac

-----------------------------------------------------------------------------
(* The rhythm of the pings. *)

(* The entry e has been pinged at every beat of the timer tm so far, the   *)
(* last time one interval before the next.                                 *)
Beat(e, tm) ==
  /\ e.ping_seq > 0 => /\ tm.status = "PENDING"
                       /\ e.ping_send_time = tm.time - SEND_PING_INTERVAL
  /\ e.ping_seq * SEND_PING_INTERVAL <= tm.time

InRhythm(T, tm) ==
  \A i \in DOMAIN T.mptable : \A j \in DOMAIN T.mptable[i].paths :
    Beat(T.mptable[i].paths[j], tm)

(* By the entry e, ping number q was sent at time t. *)
Dates(e, q, t) ==
  /\ e.ping_seq > q
  /\ t = e.ping_send_time - (e.ping_seq - q - 1) * SEND_PING_INTERVAL

(* The table T has the path, and dates its ping number q right. *)
Dated(T, b, s, d, q, t) ==
  /\ HasPath(T, b, s, d)
  /\ \A i \in DOMAIN T.mptable : \A j \in DOMAIN T.mptable[i].paths :
       T.mptable[i].select_addr = b /\ Joins(T.mptable[i].paths[j], s, d)
         => Dates(T.mptable[i].paths[j], q, t)

PingDated(p, rt) ==
  LET m == Measures(p.hdr) IN Dated(rt[m.core], m.peer, m.s, m.d, p.hdr.ping_seq, p.orig)

TablesTimed == \A n \in Node : PathsOnce(rtable[n]) /\ InRhythm(rtable[n], timer[n])

NetDated == \A p \in net : p.hdr \in PingHdr => PingDated(p, rtable)

(* The invariant of a network whose agents ping in an unbroken rhythm. *)
DateInv == steady => TablesTimed /\ NetDated

(* No sequence number wraps before the simulation ends. *)
NoWrap == MaxTime + SEND_PING_INTERVAL < SeqSpace * SEND_PING_INTERVAL

(* The entries of two lists have the same ends and pings. *)
SamePings(a, b) ==
  /\ DOMAIN b = DOMAIN a
  /\ \A j \in DOMAIN a :
       /\ b[j].s_intf = a[j].s_intf /\ b[j].d_intf = a[j].d_intf
       /\ b[j].ping_seq = a[j].ping_seq /\ b[j].ping_send_time = a[j].ping_send_time

SameClocks(T, U) ==
  /\ DOMAIN U.mptable = DOMAIN T.mptable
  /\ \A i \in DOMAIN T.mptable :
       /\ U.mptable[i].select_addr = T.mptable[i].select_addr
       /\ SamePings(T.mptable[i].paths, U.mptable[i].paths)

LEMMA ClocksSelf == ASSUME NEW T PROVE SameClocks(T, T)
BY DEF SameClocks, SamePings

LEMMA ClocksTrans ==
  ASSUME NEW T, NEW U, NEW V, SameClocks(T, U), SameClocks(U, V)  PROVE SameClocks(T, V)
BY DEF SameClocks, SamePings

(* What the measurements leave alone. *)
LEMMA OnceStays ==
  ASSUME NEW T, NEW U, SameClocks(T, U), PathsOnce(T) PROVE PathsOnce(U)
BY DEF SameClocks, SamePings, PathsOnce, Joins

LEMMA RhythmStays ==
  ASSUME NEW T, NEW U, SameClocks(T, U), NEW tm, InRhythm(T, tm) PROVE InRhythm(U, tm)
BY DEF SameClocks, SamePings, InRhythm, Beat

LEMMA DatedStays ==
  ASSUME NEW T, NEW U, SameClocks(T, U), NEW b, NEW s, NEW d, NEW q, NEW t,
         Dated(T, b, s, d, q, t)
  PROVE  Dated(U, b, s, d, q, t)
<1>1. HasPath(U, b, s, d)
  BY DEF Dated, HasPath, SameClocks, SamePings
<1>2. ASSUME NEW i \in DOMAIN U.mptable, NEW j \in DOMAIN U.mptable[i].paths,
             U.mptable[i].select_addr = b, Joins(U.mptable[i].paths[j], s, d)
      PROVE  Dates(U.mptable[i].paths[j], q, t)
  <2>1. /\ i \in DOMAIN T.mptable /\ j \in DOMAIN T.mptable[i].paths
        /\ U.mptable[i].select_addr = T.mptable[i].select_addr
        /\ U.mptable[i].paths[j].s_intf = T.mptable[i].paths[j].s_intf
        /\ U.mptable[i].paths[j].d_intf = T.mptable[i].paths[j].d_intf
        /\ U.mptable[i].paths[j].ping_seq = T.mptable[i].paths[j].ping_seq
        /\ U.mptable[i].paths[j].ping_send_time = T.mptable[i].paths[j].ping_send_time
    BY DEF SameClocks, SamePings
  <2>2. Dates(T.mptable[i].paths[j], q, t)
    BY <1>2, <2>1 DEF Dated, Joins
  <2>. QED  BY <2>1, <2>2 DEF Dates
<1>. QED  BY <1>1, <1>2 DEF Dated

(* Rewriting other fields of an entry. *)
LEMMA PathExceptPings ==
  ASSUME NEW a, NEW k \in DOMAIN a, NEW e,
         e.s_intf = a[k].s_intf, e.d_intf = a[k].d_intf,
         e.ping_seq = a[k].ping_seq, e.ping_send_time = a[k].ping_send_time
  PROVE  SamePings(a, WithPath(a, k, e))
BY DEF SamePings, WithPath

LEMMA PingsKept ==
  ASSUME NEW p \in Path, NEW v
  PROVE  /\ [p EXCEPT !.recv_delay = v].ping_seq = p.ping_seq
         /\ [p EXCEPT !.recv_delay = v].ping_send_time = p.ping_send_time
         /\ [p EXCEPT !.send_delay = v].ping_seq = p.ping_seq
         /\ [p EXCEPT !.send_delay = v].ping_send_time = p.ping_send_time
         /\ [p EXCEPT !.last_recv_time = v].ping_seq = p.ping_seq
         /\ [p EXCEPT !.last_recv_time = v].ping_send_time = p.ping_send_time
         /\ [p EXCEPT !.cnt = v].ping_seq = p.ping_seq
         /\ [p EXCEPT !.cnt = v].ping_send_time = p.ping_send_time
BY DEF Path

LEMMA RecvTimePings ==
  ASSUME NEW q \in Seq(Path), NEW s, NEW d, NEW t
  PROVE  SamePings(q, update_recv_time(q, s, d, t))
<1> DEFINE i == PathIdx(q, s, d)
<1>1. CASE i # 0
  <2>1. i \in DOMAIN q /\ q[i] \in Path
    BY <1>1, PathIdxType, ElementOfSeq
  <2> DEFINE e == [q[i] EXCEPT !.last_recv_time = t]
  <2>2. /\ e.s_intf = q[i].s_intf /\ e.d_intf = q[i].d_intf
        /\ e.ping_seq = q[i].ping_seq /\ e.ping_send_time = q[i].ping_send_time
    <3> HIDE DEF i
    <3>. QED  BY <2>1, EndsKept, PingsKept
  <2>3. update_recv_time(q, s, d, t) = WithPath(q, i, e)
    BY <1>1 DEF WithPath, update_recv_time
  <2> HIDE DEF i, e
  <2>. QED  BY <2>1, <2>2, <2>3, PathExceptPings
<1>2. CASE i = 0
  BY <1>2 DEF update_recv_time, SamePings
<1>. QED  BY <1>1, <1>2

LEMMA RecvDelayPings ==
  ASSUME NEW q \in Seq(Path), NEW s, NEW d, NEW t, NEW u
  PROVE  SamePings(q, update_recv_delay(q, s, d, t, u))
<1> DEFINE i == PathIdx(q, s, d)
<1>1. CASE i # 0
  <2>1. i \in DOMAIN q /\ q[i] \in Path
    BY <1>1, PathIdxType, ElementOfSeq
  <2> DEFINE e == [q[i] EXCEPT !.recv_delay = u - t]
  <2>2. /\ e.s_intf = q[i].s_intf /\ e.d_intf = q[i].d_intf
        /\ e.ping_seq = q[i].ping_seq /\ e.ping_send_time = q[i].ping_send_time
    <3> HIDE DEF i
    <3>. QED  BY <2>1, EndsKept, PingsKept
  <2>3. update_recv_delay(q, s, d, t, u) = WithPath(q, i, e)
    BY <1>1 DEF WithPath, update_recv_delay
  <2> HIDE DEF i, e
  <2>. QED  BY <2>1, <2>2, <2>3, PathExceptPings
<1>2. CASE i = 0
  BY <1>2 DEF update_recv_delay, SamePings
<1>. QED  BY <1>1, <1>2

LEMMA SendDelayPings ==
  ASSUME NEW q \in Seq(Path), NEW s, NEW d, NEW t, NEW seq
  PROVE  SamePings(q, update_send_delay(q, s, d, t, seq))
<1> DEFINE i == PathIdx(q, s, d)
           v == t + (q[i].ping_seq - seq - 1) * SEND_PING_INTERVAL - q[i].ping_send_time
<1>1. CASE i # 0 /\ q[i].ping_seq > seq
  <2>1. i \in DOMAIN q /\ q[i] \in Path
    BY <1>1, PathIdxType, ElementOfSeq
  <2> DEFINE e == [q[i] EXCEPT !.send_delay = v]
  <2>2. /\ e.s_intf = q[i].s_intf /\ e.d_intf = q[i].d_intf
        /\ e.ping_seq = q[i].ping_seq /\ e.ping_send_time = q[i].ping_send_time
    <3> HIDE DEF i, v
    <3>. QED  BY <2>1, EndsKept, PingsKept
  <2>3. update_send_delay(q, s, d, t, seq) = WithPath(q, i, e)
    BY <1>1 DEF WithPath, update_send_delay
  <2> HIDE DEF i, e
  <2>. QED  BY <2>1, <2>2, <2>3, PathExceptPings
<1>2. CASE ~(i # 0 /\ q[i].ping_seq > seq)
  BY <1>2 DEF update_send_delay, SamePings
<1>. QED  BY <1>1, <1>2

LEMMA WithPathsClocks ==
  ASSUME NEW T, Good(T), NEW select, NEW np,
         \A i \in DOMAIN T.mptable : SamePings(T.mptable[i].paths, np[i])
  PROVE  SameClocks(T, WithPaths(T, select, np))
<1> DEFINE U == WithPaths(T, select, np)
<1>1. /\ SameObjects(T, U)
      /\ \A i \in DOMAIN T.mptable :
           U.mptable[i].paths = IF T.mptable[i].select_addr = select
                                THEN np[i] ELSE T.mptable[i].paths
  BY WithPathsIs
<1> HIDE DEF U
<1>2. \A i \in DOMAIN T.mptable : SamePings(T.mptable[i].paths, T.mptable[i].paths)
  BY DEF SamePings
<1>3. SameClocks(T, U)
  BY <1>1, <1>2 DEF SameClocks, SameObjects
<1>. QED  BY <1>3 DEF U

LEMMA RtimeClocks ==
  ASSUME NEW T, Good(T), NEW select, NEW s, NEW d, NEW t
  PROVE  SameClocks(T, update_rtime(T, select, s, d, t))
<1> DEFINE np == [i \in DOMAIN T.mptable |-> update_recv_time(T.mptable[i].paths, s, d, t)]
<1>1. \A i \in DOMAIN T.mptable : SamePings(T.mptable[i].paths, np[i])
  BY PathsOf, RecvTimePings
<1>2. update_rtime(T, select, s, d, t) = WithPaths(T, select, np)
  BY DEF update_rtime
<1> HIDE DEF np
<1>. QED  BY <1>1, <1>2, WithPathsClocks

LEMMA RdelayClocks ==
  ASSUME NEW T, Good(T), NEW select, NEW s, NEW d, NEW t, NEW u
  PROVE  SameClocks(T, update_rdelay(T, select, s, d, t, u))
<1> DEFINE np == [i \in DOMAIN T.mptable |-> update_recv_delay(T.mptable[i].paths, s, d, t, u)]
<1>1. \A i \in DOMAIN T.mptable : SamePings(T.mptable[i].paths, np[i])
  BY PathsOf, RecvDelayPings
<1>2. update_rdelay(T, select, s, d, t, u) = WithPaths(T, select, np)
  BY DEF update_rdelay
<1> HIDE DEF np
<1>. QED  BY <1>1, <1>2, WithPathsClocks

LEMMA SdelayClocks ==
  ASSUME NEW T, Good(T), NEW select, NEW s, NEW d, NEW t, NEW seq
  PROVE  SameClocks(T, update_sdelay(T, select, s, d, t, seq))
<1> DEFINE np == [i \in DOMAIN T.mptable |-> update_send_delay(T.mptable[i].paths, s, d, t, seq)]
<1>1. \A i \in DOMAIN T.mptable : SamePings(T.mptable[i].paths, np[i])
  BY PathsOf, SendDelayPings
<1>2. update_sdelay(T, select, s, d, t, seq) = WithPaths(T, select, np)
  BY DEF update_sdelay
<1> HIDE DEF np
<1>. QED  BY <1>1, <1>2, WithPathsClocks

LEMMA LookupClocks ==
  ASSUME NEW T, Good(T), NEW daddr, NEW t \in Nat
  PROVE  SameClocks(T, lookup_mp(T, daddr, t).table)
<1> DEFINE L == lookup_mp(T, daddr, t).table
           r == MpRouteIdx(T, daddr)
           I == {i \in DOMAIN T.rtable : /\ Matches(T, i, daddr)
                                         /\ T.rtable[i].mp_flag
                                         /\ T.rtable[i].mptable # NULL}
           m == CHOOSE i \in DOMAIN T.mptable :
                  T.mptable[i].ptr = T.rtable[r].mptable
           paths == T.mptable[m].paths
           k == select_path(paths, t)
<1>0. T \in Table /\ DOMAIN T.rtable = 1..Len(T.rtable) /\ Len(T.rtable) \in Nat
  BY TableFields DEF Good
<1>1. CASE r = 0 \/ (select_path_returns(paths) /\ k = 0)
  <2>1. L = T
    BY <1>1 DEF lookup_mp
  <2>. QED  BY <2>1, ClocksSelf
<1>2. CASE r # 0 /\ ~ select_path_returns(paths)
  <2>1. L = [T EXCEPT !.status = "hung"]
    BY <1>2 DEF lookup_mp
  <2>2. L.mptable = T.mptable
    BY <1>0, <2>1, WithStatus
  <2> HIDE DEF L
  <2>3. SameClocks(T, L)
    BY <2>2 DEF SameClocks, SamePings
  <2>. QED  BY <2>3 DEF L
<1>3. CASE r # 0 /\ select_path_returns(paths) /\ k # 0
  <2>1. m \in DOMAIN T.mptable
    <3>1. I \subseteq Nat \ {0} /\ r = First(I)
      BY <1>0 DEF MpRouteIdx
    <3>2. First(I) \in I
      <4> HIDE DEF I, r
      <4>. QED  BY <1>3, <3>1, FirstOf
    <3>3. r \in DOMAIN T.rtable /\ T.rtable[r].mp_flag
      BY <3>1, <3>2
    <3>4. \E i \in DOMAIN T.mptable : T.mptable[i].ptr = T.rtable[r].mptable
      <4> HIDE DEF r
      <4>. QED  BY <3>3 DEF Good, PointersLive, Live
    <3> HIDE DEF r
    <3>. QED  BY <3>4
  <2> DEFINE e == [paths[k] EXCEPT !.cnt = paths[k].cnt + 1]
             q == WithPath(paths, k, e)
  <2>2. L = [T EXCEPT !.mptable[m].paths = q]
    BY <1>3 DEF lookup_mp, WithPath
  <2> HIDE DEF m, r, L
  <2>3. paths \in Seq(Path)
    BY <2>1, PathsOf
  <2>4. k \in DOMAIN paths /\ paths[k] \in Path
    BY <1>3, <2>3, SelectPathType, ElementOfSeq
  <2>5. /\ e.s_intf = paths[k].s_intf /\ e.d_intf = paths[k].d_intf
        /\ e.ping_seq = paths[k].ping_seq /\ e.ping_send_time = paths[k].ping_send_time
    <3> HIDE DEF k, paths
    <3>. QED  BY <2>4, EndsKept, PingsKept
  <2> HIDE DEF e, k
  <2>6. SamePings(paths, q)
    <3> HIDE DEF paths
    <3>. QED  BY <2>4, <2>5, PathExceptPings
  <2> HIDE DEF q
  <2>7. /\ SameObjects(T, L)
        /\ \A i \in DOMAIN T.mptable :
             L.mptable[i].paths = IF i = m THEN q ELSE T.mptable[i].paths
    BY <2>1, <2>2, OnePathsIs
  <2>8. \A i \in DOMAIN T.mptable : SamePings(T.mptable[i].paths, T.mptable[i].paths)
    BY DEF SamePings
  <2>9. SameClocks(T, L)
    BY <2>6, <2>7, <2>8 DEF SameClocks, SameObjects
  <2>. QED  BY <2>9 DEF L
<1>. QED  BY <1>1, <1>2, <1>3

-----------------------------------------------------------------------------
(* A round of pings. *)

LEMMA NoSeqWraps ==
  ASSUME NEW q \in Nat, NEW t \in 0..MaxTime, q * SEND_PING_INTERVAL <= t, NoWrap
  PROVE  /\ (q + 1) % SeqSpace = q + 1
         /\ (q + 1) * SEND_PING_INTERVAL <= t + SEND_PING_INTERVAL
<1> DEFINE I == SEND_PING_INTERVAL
           S == SeqSpace
<1>0. I \in Nat \ {0} /\ S \in Nat \ {0} /\ MaxTime \in Nat /\ MaxTime + I < S * I
  BY IntervalAssumption, SeqSpaceAssumption, NetworkAssumption DEF NoWrap
<1>1. q * I <= t
  OBVIOUS
<1> HIDE DEF I, S
<1>2. (q + 1) * I = q * I + I /\ q * I \in Nat
  BY <1>0
<1>3. (q + 1) * I < S * I
  BY <1>0, <1>1, <1>2
<1>4. q + 1 < S
  <2> SUFFICES ASSUME S <= q + 1 PROVE FALSE
    BY <1>0
  <2>1. PICK x \in Nat : q + 1 = S + x
    <3>1. q + 1 - S \in Nat
      BY <1>0
    <3>. QED  BY <1>0, <3>1
  <2>2. (S + x) * I = S * I + x * I /\ x * I \in Nat /\ S * I \in Nat
    BY <1>0
  <2>. QED  BY <1>3, <2>1, <2>2
<1>5. (q + 1) % S = q + 1
  BY <1>0, <1>4
<1>. QED  BY <1>0, <1>1, <1>2, <1>5 DEF I, S

(* The entry e after a ping at time t. *)
Pinged(e, f, t) ==
  /\ f.s_intf = e.s_intf /\ f.d_intf = e.d_intf
  /\ f.ping_seq = e.ping_seq + 1 /\ f.ping_send_time = t

ListOnce(paths) ==
  \A j, k \in DOMAIN paths : Joins(paths[k], paths[j].s_intf, paths[j].d_intf) => k = j

LEMMA PingWritten ==
  ASSUME NEW p \in Path, NEW v, NEW w
  PROVE  /\ [p EXCEPT !.ping_send_time = v, !.ping_seq = w].ping_send_time = v
         /\ [p EXCEPT !.ping_send_time = v, !.ping_seq = w].ping_seq = w
BY DEF Path

LEMMA ListPinged ==
  ASSUME NEW paths \in Seq(Path), ListOnce(paths), NEW t \in 0..MaxTime, NoWrap,
         NEW j \in DOMAIN paths, paths[j].ping_seq * SEND_PING_INTERVAL <= t
  PROVE  Pinged(paths[j], ping_paths(paths, t)[j], t)
<1> DEFINE same == {k \in DOMAIN paths : Joins(paths[k], paths[j].s_intf, paths[j].d_intf)}
           c == (paths[j].ping_seq + Cardinality(same)) % SeqSpace
           e == [paths[j] EXCEPT !.ping_send_time = t, !.ping_seq = c]
<1>1. paths[j] \in Path /\ j \in Nat
  BY LenProperties, ElementOfSeq
<1>2. same = {j}
  BY DEF ListOnce, Joins
<1>3. ping_paths(paths, t)[j] = IF j = Min(same) THEN e ELSE paths[j]
  BY DEF ping_paths
<1> HIDE DEF same
<1>4. j = Min(same)
  BY <1>1, <1>2 DEF Min
<1>5. Cardinality(same) = 1
  BY <1>2, FS_Singleton
<1>6. paths[j].ping_seq \in Nat
  BY <1>1, PathFields
<1>7. c = paths[j].ping_seq + 1
  <2> DEFINE q == paths[j].ping_seq
  <2>1. q \in Nat /\ q * SEND_PING_INTERVAL <= t /\ c = (q + 1) % SeqSpace
    BY <1>5, <1>6
  <2> HIDE DEF q, c
  <2>2. c = q + 1
    BY <2>1, NoSeqWraps
  <2>. QED  BY <2>2 DEF q
<1> HIDE DEF c
<1>8. /\ e.s_intf = paths[j].s_intf /\ e.d_intf = paths[j].d_intf
      /\ e.ping_send_time = t /\ e.ping_seq = c
  BY <1>1, EndsKept, PingWritten
<1> HIDE DEF e
<1>. QED  BY <1>3, <1>4, <1>7, <1>8 DEF Pinged

Rounded(T, U, t) ==
  /\ DOMAIN U.mptable = DOMAIN T.mptable
  /\ \A i \in DOMAIN T.mptable :
       /\ U.mptable[i].select_addr = T.mptable[i].select_addr
       /\ DOMAIN U.mptable[i].paths = DOMAIN T.mptable[i].paths
       /\ \A j \in DOMAIN T.mptable[i].paths :
            Pinged(T.mptable[i].paths[j], U.mptable[i].paths[j], t)

LEMMA RoundIs ==
  ASSUME NEW T, Good(T), PathsOnce(T), NEW tm, InRhythm(T, tm),
         NEW t \in 0..MaxTime, tm.time = t, NoWrap
  PROVE  Rounded(T, ping_round(T, t), t)
<1> DEFINE m == [i \in DOMAIN T.mptable |->
                   [T.mptable[i] EXCEPT !.paths = ping_paths(@, t)]]
           U == ping_round(T, t)
<1>0. T \in Table
  BY DEF Good
<1>1. U = [T EXCEPT !.mptable = m] /\ DOMAIN m = DOMAIN T.mptable
  BY DEF ping_round
<1>2. ASSUME NEW i \in DOMAIN T.mptable
      PROVE  /\ m[i].select_addr = T.mptable[i].select_addr
             /\ DOMAIN m[i].paths = DOMAIN T.mptable[i].paths
             /\ \A j \in DOMAIN T.mptable[i].paths :
                  Pinged(T.mptable[i].paths[j], m[i].paths[j], t)
  <2> DEFINE o == T.mptable[i]
             a == o.paths
             q == ping_paths(a, t)
  <2>1. o \in Mpath /\ a \in Seq(Path)
    BY PathsOf
  <2>2. ListOnce(a) /\ \A j \in DOMAIN a : a[j].ping_seq * SEND_PING_INTERVAL <= t
    BY DEF PathsOnce, ListOnce, InRhythm, Beat
  <2>3. DOMAIN q = DOMAIN a
    BY DEF ping_paths
  <2>4. m[i] = [o EXCEPT !.paths = q]
    OBVIOUS
  <2>5. m[i].select_addr = o.select_addr /\ m[i].paths = q
    <3> HIDE DEF m, o, q
    <3>. QED  BY <2>1, <2>4 DEF Mpath
  <2>6. \A j \in DOMAIN a : Pinged(a[j], q[j], t)
    <3> HIDE DEF a
    <3>. QED  BY <2>1, <2>2, ListPinged
  <2> HIDE DEF m, q
  <2>. QED  BY <2>3, <2>5, <2>6
<1>3. U.mptable = m
  <2> HIDE DEF m, U
  <2>. QED  BY <1>0, <1>1 DEF Table
<1> HIDE DEF m, U
<1>4. Rounded(T, U, t)
  BY <1>1, <1>2, <1>3 DEF Rounded
<1>. QED  BY <1>4 DEF U

LEMMA RoundOnce ==
  ASSUME NEW T, NEW U, NEW t, Rounded(T, U, t), PathsOnce(T)  PROVE PathsOnce(U)
BY DEF Rounded, Pinged, PathsOnce, Joins

LEMMA SeqAt ==
  ASSUME NEW T, Good(T), NEW i \in DOMAIN T.mptable, NEW j \in DOMAIN T.mptable[i].paths
  PROVE  T.mptable[i].paths[j].ping_seq \in Nat /\ T.mptable[i].paths[j] \in Path
<1> DEFINE a == T.mptable[i].paths
<1>1. a \in Seq(Path)
  BY PathsOf
<1>2. a[j] \in Path
  <2> HIDE DEF a
  <2>1. j \in DOMAIN a
    BY DEF a
  <2>. QED  BY <1>1, <2>1, LenProperties, ElementOfSeq
<1>. QED  BY <1>2, PathFields

LEMMA RoundRhythm ==
  ASSUME NEW T, NEW U, Good(T), NEW t \in 0..MaxTime, Rounded(T, U, t), NoWrap,
         NEW tm, InRhythm(T, tm), tm.time = t,
         NEW tn, tn.status = "PENDING", tn.time = t + SEND_PING_INTERVAL
  PROVE  InRhythm(U, tn)
<1> SUFFICES ASSUME NEW i \in DOMAIN U.mptable, NEW j \in DOMAIN U.mptable[i].paths
             PROVE  Beat(U.mptable[i].paths[j], tn)
  BY DEF InRhythm
<1> DEFINE e == T.mptable[i].paths[j]
           f == U.mptable[i].paths[j]
<1>1. i \in DOMAIN T.mptable /\ j \in DOMAIN T.mptable[i].paths /\ Pinged(e, f, t)
  BY DEF Rounded
<1>2. e.ping_seq \in Nat
  BY <1>1, SeqAt
<1>3. e.ping_seq * SEND_PING_INTERVAL <= t
  BY <1>1 DEF InRhythm, Beat
<1> HIDE DEF e, f
<1>4. (e.ping_seq + 1) * SEND_PING_INTERVAL <= t + SEND_PING_INTERVAL
  BY <1>2, <1>3, NoSeqWraps
<1>5. t = (t + SEND_PING_INTERVAL) - SEND_PING_INTERVAL
  BY IntervalAssumption
<1>6. Beat(f, tn)
  BY <1>1, <1>4, <1>5 DEF Beat, Pinged
<1>. QED  BY <1>6 DEF f

(* A ping of an earlier round is still dated right. *)
LEMMA RoundDated ==
  ASSUME NEW T, NEW U, Good(T), NEW t \in 0..MaxTime, Rounded(T, U, t),
         NEW tm, InRhythm(T, tm), tm.time = t,
         NEW b, NEW s, NEW d, NEW q \in Nat, NEW u \in Int, Dated(T, b, s, d, q, u)
  PROVE  Dated(U, b, s, d, q, u)
<1>1. HasPath(U, b, s, d)
  <2>1. HasPath(T, b, s, d)
    BY DEF Dated
  <2>. QED  BY <2>1 DEF HasPath, Rounded, Pinged
<1>2. ASSUME NEW i \in DOMAIN U.mptable, NEW j \in DOMAIN U.mptable[i].paths,
             U.mptable[i].select_addr = b, Joins(U.mptable[i].paths[j], s, d)
      PROVE  Dates(U.mptable[i].paths[j], q, u)
  <2> DEFINE e == T.mptable[i].paths[j]
             f == U.mptable[i].paths[j]
  <2>1. /\ i \in DOMAIN T.mptable /\ j \in DOMAIN T.mptable[i].paths /\ Pinged(e, f, t)
        /\ T.mptable[i].select_addr = b
    BY <1>2 DEF Rounded
  <2>2. e.ping_seq \in Nat
    BY <2>1, SeqAt
  <2>3. Dates(e, q, u)
    BY <1>2, <2>1 DEF Dated, Joins, Pinged
  <2>4. Beat(e, tm)
    BY <2>1 DEF InRhythm
  <2> HIDE DEF e, f
  <2> DEFINE x == e.ping_seq
             I == SEND_PING_INTERVAL
  <2>5. x \in Nat /\ x > q /\ I \in Nat
    BY <2>2, <2>3, IntervalAssumption DEF Dates
  <2>6. e.ping_send_time = t - I
    BY <2>4, <2>5 DEF Beat
  <2>7. u = t - I - (x - q - 1) * I
    BY <2>3, <2>6 DEF Dates
  <2>8. f.ping_seq = x + 1 /\ f.ping_send_time = t
    BY <2>1 DEF Pinged
  <2> HIDE DEF x, I
  <2>9. u = t - ((x + 1) - q - 1) * I
    <3>1. PICK y \in Nat : x = q + 1 + y
      <4>1. x - q - 1 \in Nat
        BY <2>5
      <4>. QED  BY <2>5, <4>1
    <3>2. x - q - 1 = y /\ (x + 1) - q - 1 = y + 1
      BY <2>5, <3>1
    <3>3. (y + 1) * I = y * I + I /\ y * I \in Int
      BY <2>5
    <3>. QED  BY <2>5, <2>7, <3>2, <3>3
  <2>10. x + 1 > q
    BY <2>5
  <2>11. Dates(f, q, u)
    BY <2>8, <2>9, <2>10 DEF Dates, I
  <2>. QED  BY <2>11 DEF f
<1>. QED  BY <1>1, <1>2 DEF Dated

(* A ping of this round is dated right. *)
LEMMA RoundNew ==
  ASSUME NEW T, NEW U, Good(T), PathsOnce(T), NEW t \in 0..MaxTime, Rounded(T, U, t),
         NEW g \in pings(T)
  PROVE  Dated(U, g.select, g.s_intf, g.d_intf, g.ping_seq, t)
<1>0. PICK i \in DOMAIN T.mptable : \E j \in DOMAIN T.mptable[i].paths :
        g = [select |-> T.mptable[i].select_addr,
             s_intf |-> T.mptable[i].paths[j].s_intf,
             d_intf |-> T.mptable[i].paths[j].d_intf,
             ping_seq |-> T.mptable[i].paths[j].ping_seq, nth |-> j]
  BY DEF pings
<1>1. PICK j \in DOMAIN T.mptable[i].paths :
        g = [select |-> T.mptable[i].select_addr,
             s_intf |-> T.mptable[i].paths[j].s_intf,
             d_intf |-> T.mptable[i].paths[j].d_intf,
             ping_seq |-> T.mptable[i].paths[j].ping_seq, nth |-> j]
  BY <1>0
<1> DEFINE b == T.mptable[i].select_addr
           e == T.mptable[i].paths[j]
<1>2. /\ g.select = b /\ g.s_intf = e.s_intf /\ g.d_intf = e.d_intf
      /\ g.ping_seq = e.ping_seq
  BY <1>1
<1>3. e.ping_seq \in Nat
  BY SeqAt
<1>4. HasPath(U, b, e.s_intf, e.d_intf)
  BY DEF Rounded, Pinged, HasPath
<1>5. ASSUME NEW k \in DOMAIN U.mptable, NEW l \in DOMAIN U.mptable[k].paths,
             U.mptable[k].select_addr = b, Joins(U.mptable[k].paths[l], e.s_intf, e.d_intf)
      PROVE  Dates(U.mptable[k].paths[l], e.ping_seq, t)
  <2> DEFINE f == U.mptable[k].paths[l]
             h == T.mptable[k].paths[l]
  <2>1. /\ k \in DOMAIN T.mptable /\ l \in DOMAIN T.mptable[k].paths /\ Pinged(h, f, t)
        /\ T.mptable[k].select_addr = b
    BY <1>5 DEF Rounded
  <2>2. k = i
    BY <2>1 DEF Good, ObjectsDistinct
  <2>3. Joins(h, e.s_intf, e.d_intf)
    BY <1>5, <2>1 DEF Joins, Pinged
  <2>4. l = j
    BY <2>1, <2>2, <2>3 DEF PathsOnce
  <2>5. Pinged(e, f, t)
    BY <2>1, <2>2, <2>4
  <2>6. f.ping_seq = e.ping_seq + 1 /\ f.ping_send_time = t
    BY <2>5 DEF Pinged
  <2> HIDE DEF e, f
  <2>7. Dates(f, e.ping_seq, t)
    <3> DEFINE x == e.ping_seq
    <3>1. x \in Nat
      BY <1>3
    <3> HIDE DEF x
    <3>2. (x + 1) - x - 1 = 0 /\ 0 * SEND_PING_INTERVAL = 0 /\ x + 1 > x /\ t - 0 = t
      BY <3>1, IntervalAssumption
    <3>. QED  BY <2>6, <3>2 DEF Dates, x
  <2>. QED  BY <2>7 DEF f
<1> HIDE DEF e, b
<1>6. Dated(U, b, e.s_intf, e.d_intf, e.ping_seq, t)
  BY <1>4, <1>5 DEF Dated
<1>. QED  BY <1>2, <1>6

-----------------------------------------------------------------------------
(* A new path. *)

(* a is the list of peer b in T, or an empty one. *)
OldList(T, b, a) ==
  /\ a \in Seq(Path)
  /\ \/ DOMAIN a = {}
     \/ \E i \in DOMAIN T.mptable : T.mptable[i].select_addr = b /\ T.mptable[i].paths = a

(* The lists of U are those of T, some with e before them. *)
Grown(T, U, e) ==
  /\ \A k \in DOMAIN U.mptable : \E a :
       /\ OldList(T, U.mptable[k].select_addr, a)
       /\ U.mptable[k].paths = a \/ U.mptable[k].paths = Cons(e, a)
  /\ \A i \in DOMAIN T.mptable : \E k \in DOMAIN U.mptable :
       /\ U.mptable[k].select_addr = T.mptable[i].select_addr
       /\ \/ U.mptable[k].paths = T.mptable[i].paths
          \/ U.mptable[k].paths = Cons(e, T.mptable[i].paths)

LEMMA IsOldList ==
  ASSUME NEW T, Good(T), NEW i \in DOMAIN T.mptable
  PROVE  OldList(T, T.mptable[i].select_addr, T.mptable[i].paths)
BY PathsOf DEF OldList

LEMMA AddGrows ==
  ASSUME NEW T, Good(T), NEW select \in Peer, NEW s \in Intf, NEW d \in Intf,
         NEW fresh \in MPtr \ Live(T), NEW t \in Nat
  PROVE  Grown(T, add_mpath(T, select, s, d, fresh, t), NewItem(s, d, t))
<1> DEFINE k == SelectIdx(T, select)
           n == Len(T.mptable)
           e == NewItem(s, d, t)
           U == add_mpath(T, select, s, d, fresh, t)
<1>0. /\ T \in Table /\ T.mptable \in Seq(Mpath) /\ n \in Nat /\ e \in Path
      /\ DOMAIN T.mptable = 1..n /\ \A i \in DOMAIN T.mptable : T.mptable[i] \in Mpath
  BY TableFields, NewItemType DEF Good
<1> HIDE DEF e
<1>1. CASE k # 0
  <2>1. k \in DOMAIN T.mptable
    BY <1>0, <1>1, SelectIdxType
  <2> DEFINE q == Cons(e, T.mptable[k].paths)
  <2>2. U = [T EXCEPT !.mptable[k].paths = q]
    BY <1>1 DEF add_mpath, add_mpath_item, e
  <2> HIDE DEF k, U, q
  <2>3. /\ SameObjects(T, U)
        /\ \A i \in DOMAIN T.mptable :
             U.mptable[i].paths = IF i = k THEN q ELSE T.mptable[i].paths
    BY <2>1, <2>2, OnePathsIs, SMTT(30)
  <2>4. \A i \in DOMAIN T.mptable :
          /\ U.mptable[i].select_addr = T.mptable[i].select_addr
          /\ \/ U.mptable[i].paths = T.mptable[i].paths
             \/ U.mptable[i].paths = Cons(e, T.mptable[i].paths)
    BY <2>3 DEF SameObjects, q
  <2>5. DOMAIN U.mptable = DOMAIN T.mptable
    BY <2>3 DEF SameObjects
  <2>6. Grown(T, U, e)
    BY <2>4, <2>5, IsOldList DEF Grown
  <2>. QED  BY <2>6 DEF U, e
<1>2. CASE k = 0
  <2> DEFINE z == << >>
             c == Cons(e, z)
             o == [ptr |-> fresh, select_addr |-> select, prev_select |-> NULL, paths |-> c]
             m == Cons(o, T.mptable)
  <2>0. z \in Seq(Path) /\ DOMAIN z = {}
    OBVIOUS
  <2>1. U = [T EXCEPT !.mptable = m]
    BY <1>2 DEF add_mpath, add_mpath_item, e
  <2> HIDE DEF z
  <2>2. c \in Seq(Path)
    BY <1>0, <2>0, PathCons
  <2> HIDE DEF c
  <2>3. o \in Mpath /\ o.select_addr = select /\ o.paths = c
    BY <2>2 DEF Mpath
  <2> HIDE DEF o
  <2>4. /\ m \in Seq(Mpath) /\ Len(m) = n + 1 /\ m[1] = o
        /\ \A i \in 2..(n + 1) : m[i] = T.mptable[i - 1]
    <3> DEFINE q == T.mptable
               S == Mpath
    <3>1. o \in S /\ q \in Seq(S)
      BY <1>0, <2>3
    <3> HIDE DEF q, S
    <3>2. Cons(o, q) \in Seq(S)
      BY <3>1, ConsProperties
    <3>3. Len(Cons(o, q)) = Len(q) + 1 /\ Cons(o, q)[1] = o
      BY <3>1, ConsProperties
    <3>4. \A i \in 2..(Len(q) + 1) : Cons(o, q)[i] = q[i - 1]
      BY <3>1, ConsProperties
    <3>. QED  BY <3>2, <3>3, <3>4 DEF q, S
  <2>5. U.mptable = m
    <3> HIDE DEF m, U
    <3>. QED  BY <1>0, <2>1, <2>4, WithMptable, Zenon
  <2> HIDE DEF m, U, n
  <2>6. DOMAIN m = 1..(n + 1)
    BY <2>4, LenProperties
  <2>7. \A i \in DOMAIN m :
          \/ i = 1 /\ m[i] = o
          \/ i # 1 /\ i - 1 \in DOMAIN T.mptable /\ m[i] = T.mptable[i - 1]
    BY <1>0, <2>4, <2>6
  <2>8. \A i \in DOMAIN T.mptable : i + 1 \in DOMAIN m /\ m[i + 1] = T.mptable[i]
    BY <1>0, <2>4, <2>6
  <2>9. ASSUME NEW i \in DOMAIN m
        PROVE  \E a : /\ OldList(T, m[i].select_addr, a)
                      /\ m[i].paths = a \/ m[i].paths = Cons(e, a)
    <3>1. CASE m[i] = o
      <4>1. OldList(T, select, z)
        BY <2>0 DEF OldList
      <4>. QED  BY <2>3, <3>1, <4>1 DEF c
    <3>2. CASE i - 1 \in DOMAIN T.mptable /\ m[i] = T.mptable[i - 1]
      BY <3>2, IsOldList
    <3>. QED  BY <2>7, <3>1, <3>2
  <2>10. Grown(T, U, e)
    BY <2>5, <2>8, <2>9 DEF Grown
  <2>. QED  BY <2>10 DEF U, e
<1>. QED  BY <1>1, <1>2

(* The entries of a list with e before it. *)
LEMMA GrownList ==
  ASSUME NEW e \in Path, NEW a \in Seq(Path)
  PROVE  /\ \A l \in DOMAIN Cons(e, a) : \/ l = 1 /\ Cons(e, a)[l] = e
                                         \/ l - 1 \in DOMAIN a /\ Cons(e, a)[l] = a[l - 1]
         /\ \A j \in DOMAIN a : j + 1 \in DOMAIN Cons(e, a) /\ Cons(e, a)[j + 1] = a[j]
         /\ DOMAIN Cons(e, a) \subseteq Int
<1> DEFINE c == Cons(e, a)
<1>1. /\ c \in Seq(Path) /\ Len(c) = Len(a) + 1 /\ c[1] = e
      /\ \A i \in 2..(Len(a) + 1) : c[i] = a[i - 1]
  BY PathCons
<1> HIDE DEF c
<1>2. DOMAIN c = 1..(Len(a) + 1) /\ DOMAIN a = 1..Len(a) /\ Len(a) \in Nat
  BY <1>1, LenProperties
<1>3. \A l \in DOMAIN c : \/ l = 1 /\ c[l] = e
                          \/ l - 1 \in DOMAIN a /\ c[l] = a[l - 1]
  BY <1>1, <1>2
<1>4. \A j \in DOMAIN a : j + 1 \in DOMAIN c /\ c[j + 1] = a[j]
  BY <1>1, <1>2
<1>. QED  BY <1>2, <1>3, <1>4 DEF c

(* An entry is the new one or was there before. *)
LEMMA GrownEntry ==
  ASSUME NEW T, NEW U, NEW e \in Path, Grown(T, U, e),
         NEW k \in DOMAIN U.mptable, NEW l \in DOMAIN U.mptable[k].paths
  PROVE  \/ U.mptable[k].paths[l] = e
         \/ \E i \in DOMAIN T.mptable : \E j \in DOMAIN T.mptable[i].paths :
              /\ T.mptable[i].select_addr = U.mptable[k].select_addr
              /\ U.mptable[k].paths[l] = T.mptable[i].paths[j]
<1> DEFINE b == U.mptable[k].select_addr
           v == U.mptable[k].paths
<1>1. PICK a : OldList(T, b, a) /\ (v = a \/ v = Cons(e, a))
  BY DEF Grown
<1> HIDE DEF b, v
<1>2. l \in DOMAIN v /\ a \in Seq(Path)
  BY <1>1 DEF v, OldList
<1>3. v[l] = e \/ \E j \in DOMAIN a : v[l] = a[j]
  BY <1>1, <1>2, GrownList
<1>4. ASSUME NEW j \in DOMAIN a
      PROVE  \E i \in DOMAIN T.mptable : T.mptable[i].select_addr = b /\ T.mptable[i].paths = a
  BY <1>1, <1>4 DEF OldList
<1>5. \/ v[l] = e
      \/ \E i \in DOMAIN T.mptable : \E j \in DOMAIN T.mptable[i].paths :
           T.mptable[i].select_addr = b /\ v[l] = T.mptable[i].paths[j]
  BY <1>3, <1>4
<1>. QED  BY <1>5 DEF b, v

NoneJoins(T, s, d) ==
  \A i \in DOMAIN T.mptable : \A j \in DOMAIN T.mptable[i].paths :
    ~ Joins(T.mptable[i].paths[j], s, d)

LEMMA IdxZero ==
  ASSUME NEW T, Good(T), NEW s, NEW d,
         \A i \in DOMAIN T.mptable : PathIdx(T.mptable[i].paths, s, d) = 0
  PROVE  NoneJoins(T, s, d)
<1> SUFFICES ASSUME NEW i \in DOMAIN T.mptable, NEW j \in DOMAIN T.mptable[i].paths
             PROVE  ~ Joins(T.mptable[i].paths[j], s, d)
  BY DEF NoneJoins
<1> DEFINE a == T.mptable[i].paths
           J == {k \in DOMAIN a : Joins(a[k], s, d)}
<1>1. a \in Seq(Path) /\ First(J) = 0
  BY PathsOf DEF PathIdx
<1>2. J \subseteq Nat \ {0}
  <2> HIDE DEF a
  <2>. QED  BY <1>1, LenProperties
<1> HIDE DEF J
<1>3. J = {}
  BY <1>1, <1>2, FirstOf
<1>. QED  BY <1>3 DEF J

LEMMA GrownOnce ==
  ASSUME NEW T, NEW U, NEW e \in Path, Grown(T, U, e), NoneJoins(T, e.s_intf, e.d_intf),
         PathsOnce(T)
  PROVE  PathsOnce(U)
<1>1. ASSUME NEW k \in DOMAIN U.mptable  PROVE ListOnce(U.mptable[k].paths)
  <2> DEFINE b == U.mptable[k].select_addr
             v == U.mptable[k].paths
  <2>1. PICK a : OldList(T, b, a) /\ (v = a \/ v = Cons(e, a))
    BY DEF Grown
  <2> HIDE DEF b, v
  <2>2. a \in Seq(Path)
    BY <2>1 DEF OldList
  <2>3. ListOnce(a) /\ \A j \in DOMAIN a : ~ Joins(a[j], e.s_intf, e.d_intf)
    BY <2>1 DEF OldList, PathsOnce, ListOnce, NoneJoins
  <2>4. CASE v = a
    BY <2>3, <2>4 DEF v
  <2>5. CASE v = Cons(e, a)
    <3> DEFINE c == Cons(e, a)
    <3>1. /\ \A l \in DOMAIN c : \/ l = 1 /\ c[l] = e
                                 \/ l - 1 \in DOMAIN a /\ c[l] = a[l - 1]
          /\ DOMAIN c \subseteq Int
      BY <2>2, GrownList
    <3> HIDE DEF c
    <3>2. ASSUME NEW j \in DOMAIN c, NEW l \in DOMAIN c,
                 Joins(c[l], c[j].s_intf, c[j].d_intf)
          PROVE  l = j
      <4>1. CASE l = 1 /\ c[l] = e
        <5>1. CASE j = 1 /\ c[j] = e
          BY <4>1, <5>1
        <5>2. CASE j - 1 \in DOMAIN a /\ c[j] = a[j - 1]
          BY <2>3, <3>2, <4>1, <5>2 DEF Joins
        <5>. QED  BY <3>1, <5>1, <5>2
      <4>2. CASE l - 1 \in DOMAIN a /\ c[l] = a[l - 1]
        <5>1. CASE j = 1 /\ c[j] = e
          BY <2>3, <3>2, <4>2, <5>1 DEF Joins
        <5>2. CASE j - 1 \in DOMAIN a /\ c[j] = a[j - 1]
          <6>1. l - 1 = j - 1
            BY <2>3, <3>2, <4>2, <5>2 DEF ListOnce
          <6>2. l \in Int /\ j \in Int
            BY <3>1
          <6>. QED  BY <6>1, <6>2
        <5>. QED  BY <3>1, <5>1, <5>2
      <4>. QED  BY <3>1, <4>1, <4>2
    <3>3. ListOnce(c)
      BY <3>2 DEF ListOnce
    <3>. QED  BY <2>5, <3>3 DEF c, v
  <2>. QED  BY <2>1, <2>4, <2>5
<1>. QED  BY <1>1 DEF PathsOnce, ListOnce

LEMMA GrownRhythm ==
  ASSUME NEW T, NEW U, NEW e \in Path, Grown(T, U, e), e.ping_seq = 0,
         NEW tm, tm.time \in Nat, InRhythm(T, tm)
  PROVE  InRhythm(U, tm)
<1>1. Beat(e, tm)
  BY IntervalAssumption DEF Beat
<1> SUFFICES ASSUME NEW k \in DOMAIN U.mptable, NEW l \in DOMAIN U.mptable[k].paths
             PROVE  Beat(U.mptable[k].paths[l], tm)
  BY DEF InRhythm
<1>2. \/ U.mptable[k].paths[l] = e
      \/ \E i \in DOMAIN T.mptable : \E j \in DOMAIN T.mptable[i].paths :
           U.mptable[k].paths[l] = T.mptable[i].paths[j]
  BY GrownEntry
<1>. QED  BY <1>1, <1>2 DEF InRhythm

LEMMA GrownDated ==
  ASSUME NEW T, Good(T), NEW U, NEW e \in Path, Grown(T, U, e), NoneJoins(T, e.s_intf, e.d_intf),
         NEW b, NEW s, NEW d, NEW q, NEW t, Dated(T, b, s, d, q, t)
  PROVE  Dated(U, b, s, d, q, t)
<1>1. PICK i \in DOMAIN T.mptable : \E j \in DOMAIN T.mptable[i].paths :
        /\ b = T.mptable[i].select_addr
        /\ s = T.mptable[i].paths[j].s_intf /\ d = T.mptable[i].paths[j].d_intf
  BY DEF Dated, HasPath
<1>2. PICK j \in DOMAIN T.mptable[i].paths :
        /\ b = T.mptable[i].select_addr
        /\ s = T.mptable[i].paths[j].s_intf /\ d = T.mptable[i].paths[j].d_intf
  BY <1>1
<1>3. HasPath(U, b, s, d)
  <2> DEFINE a == T.mptable[i].paths
  <2>1. a \in Seq(Path)
    BY PathsOf
  <2>2. PICK k \in DOMAIN U.mptable : /\ U.mptable[k].select_addr = b
                                      /\ U.mptable[k].paths = a \/ U.mptable[k].paths = Cons(e, a)
    BY <1>2 DEF Grown
  <2>3. j \in DOMAIN a /\ s = a[j].s_intf /\ d = a[j].d_intf
    BY <1>2
  <2> HIDE DEF a
  <2>4. \E l \in DOMAIN U.mptable[k].paths : U.mptable[k].paths[l] = a[j]
    BY <2>1, <2>2, <2>3, GrownList
  <2>. QED  BY <2>2, <2>3, <2>4 DEF HasPath
<1>4. ASSUME NEW k \in DOMAIN U.mptable, NEW l \in DOMAIN U.mptable[k].paths,
             U.mptable[k].select_addr = b, Joins(U.mptable[k].paths[l], s, d)
      PROVE  Dates(U.mptable[k].paths[l], q, t)
  <2>1. U.mptable[k].paths[l] # e
    BY <1>2, <1>4 DEF NoneJoins, Joins
  <2>2. \E y \in DOMAIN T.mptable : \E x \in DOMAIN T.mptable[y].paths :
          /\ T.mptable[y].select_addr = U.mptable[k].select_addr
          /\ U.mptable[k].paths[l] = T.mptable[y].paths[x]
    BY <2>1, GrownEntry
  <2>. QED  BY <1>4, <2>2 DEF Dated
<1>. QED  BY <1>3, <1>4 DEF Dated

-----------------------------------------------------------------------------
(* The steps that send no new ping. *)

(* r is o further on its way, or the answer to it. *)
Echoes(r, o) ==
  /\ r.hdr \in PingHdr /\ o.hdr \in PingHdr
  /\ Measures(r.hdr) = Measures(o.hdr) /\ r.hdr.ping_seq = o.hdr.ping_seq /\ r.orig = o.orig

NoNewPing == \A r \in net' : r.hdr \in PingHdr => \E o \in net : Echoes(r, o)

ClocksStand ==
  /\ steady' = steady /\ timer' = timer
  /\ \A m \in Node : SameClocks(rtable[m], rtable'[m])

LEMMA MeasuringCore ==
  ASSUME NEW h \in PingHdr
  PROVE  Measures(h).core \in Node
<1>1. h.s_select \in Node /\ h.d_select \in Node
  BY NetworkAssumption DEF PingHdr
<1>. QED  BY <1>1 DEF Measures

LEMMA EchoSelf ==
  ASSUME NEW r, r.hdr \in PingHdr  PROVE Echoes(r, r)
BY DEF Echoes

LEMMA QuietStep ==
  ASSUME DateInv, ClocksStand, NoNewPing
  PROVE  DateInv'
<1> SUFFICES ASSUME steady  PROVE TablesTimed' /\ NetDated'
  BY DEF DateInv, ClocksStand
<1>0. TablesTimed /\ NetDated
  BY DEF DateInv
<1>1. TablesTimed'
  <2>1. ASSUME NEW n \in Node
        PROVE  PathsOnce(rtable'[n]) /\ InRhythm(rtable'[n], timer'[n])
    <3>1. /\ PathsOnce(rtable[n]) /\ InRhythm(rtable[n], timer[n])
          /\ SameClocks(rtable[n], rtable'[n]) /\ timer' = timer
      BY <1>0 DEF TablesTimed, ClocksStand
    <3>2. PathsOnce(rtable'[n]) /\ InRhythm(rtable'[n], timer[n])
      BY <3>1, OnceStays, RhythmStays
    <3>. QED  BY <3>1, <3>2
  <2>. QED  BY <2>1 DEF TablesTimed
<1>2. NetDated'
  <2>1. ASSUME NEW r \in net', r.hdr \in PingHdr
        PROVE  PingDated(r, rtable')
    <3>1. PICK o \in net : Echoes(r, o)
      BY <2>1 DEF NoNewPing
    <3> DEFINE m == Measures(o.hdr)
    <3>2. /\ o.hdr \in PingHdr /\ Measures(r.hdr) = m
          /\ r.hdr.ping_seq = o.hdr.ping_seq /\ r.orig = o.orig
      BY <3>1 DEF Echoes
    <3>3. PingDated(o, rtable)
      BY <1>0, <3>2 DEF NetDated
    <3>4. Dated(rtable[m.core], m.peer, m.s, m.d, o.hdr.ping_seq, o.orig)
      BY <3>3 DEF PingDated
    <3>5. m.core \in Node
      BY <3>2, MeasuringCore
    <3> HIDE DEF m
    <3>6. SameClocks(rtable[m.core], rtable'[m.core])
      BY <3>5 DEF ClocksStand
    <3>7. Dated(rtable'[m.core], m.peer, m.s, m.d, o.hdr.ping_seq, o.orig)
      BY <3>4, <3>6, DatedStays
    <3>. QED  BY <3>2, <3>7 DEF PingDated
  <2>. QED  BY <2>1 DEF NetDated
<1>. QED  BY <1>1, <1>2

LEMMA ClocksKept ==
  ASSUME UNCHANGED <<rtable, timer, steady>>  PROVE ClocksStand
BY ClocksSelf DEF ClocksStand

LEMMA ClocksOne ==
  ASSUME TablesOK, UNCHANGED <<timer, steady>>, NEW n \in Node, NEW U,
         SameClocks(rtable[n], U), rtable' = [rtable EXCEPT ![n] = U]
  PROVE  ClocksStand
<1>1. DOMAIN rtable = Node
  BY DEF TablesOK
<1>2. \A m \in Node : rtable'[m] = IF m = n THEN U ELSE rtable[m]
  BY <1>1
<1>. QED  BY <1>2, ClocksSelf DEF ClocksStand

LEMMA FewerPings ==
  ASSUME NEW out, \A r \in out : r.hdr \notin PingHdr, net' \subseteq net \cup out
  PROVE  NoNewPing
BY EchoSelf DEF NoNewPing

LEMMA NotPing ==
  ASSUME NEW h \in DataHdr  PROVE h \notin PingHdr
BY DEF DataHdr, PingHdr

LEMMA ForwardDataQuiet ==
  ASSUME TablesOK, now \in Nat, NEW n \in Node, NEW p \in net,
         NEW T, TableOK(n, T), SameClocks(rtable[n], T), NEW q \in Packet, IsFlows(q),
         forward_data(n, p, T, q), UNCHANGED <<timer, steady>>
  PROVE  ClocksStand /\ NoNewPing
<1> DEFINE d == [q EXCEPT !.direction = "DOWN"]
<1>1. CASE /\ Upcall(n, q) /\ rtable' = [rtable EXCEPT ![n] = T]
           /\ net' = (net \ {p}) \cup {} /\ aborted' = TRUE
  <2>1. ClocksStand
    BY <1>1, ClocksOne
  <2>2. NoNewPing
    BY <1>1, EchoSelf DEF NoNewPing
  <2>. QED  BY <2>1, <2>2
<1>2. CASE /\ \E path \in {lookup_mp(T, q.daddr, now)} :
                /\ rtable' = [rtable EXCEPT ![n] = path.table]
                /\ net' = (net \ {p}) \cup (IF path.select = IP_BROADCAST THEN {}
                                            ELSE Launch(n, encapsulate(n, d, path)))
           /\ UNCHANGED aborted
  <2> DEFINE path == lookup_mp(T, q.daddr, now)
             out == IF path.select = IP_BROADCAST THEN {}
                    ELSE Launch(n, encapsulate(n, d, path))
  <2>1. rtable' = [rtable EXCEPT ![n] = path.table] /\ net' = (net \ {p}) \cup out
    BY <1>2
  <2>2. ClocksStand
    <3> DEFINE L == path.table
    <3>1. SameClocks(T, L) /\ rtable' = [rtable EXCEPT ![n] = L]
      BY <2>1, LookupClocks DEF TableOK
    <3> HIDE DEF L
    <3>2. SameClocks(rtable[n], L)
      BY <3>1, ClocksTrans
    <3>. QED  BY <3>1, <3>2, ClocksOne
  <2>3. ASSUME NEW r \in out  PROVE r.hdr \notin PingHdr
    <3>1. path.select # IP_BROADCAST /\ r \in Launch(n, encapsulate(n, d, path))
      BY <2>3
    <3> HIDE DEF path
    <3>2. HasPath(T, path.select, path.s_intf, path.d_intf)
      BY <3>1, LookupPath DEF TableOK, path
    <3>3. Wire(n, path.select, path.s_intf, path.d_intf)
      BY <3>2, WiredPath
    <3>4. d \in Packet /\ SameLoad(q, d) /\ d.direction = "DOWN"
      BY PacketDown
    <3> HIDE DEF d
    <3>5. IsFlows(d) /\ d.direction = "DOWN"
      BY <3>4 DEF SameLoad, IsFlows
    <3>6. r.hdr \in DataHdr
      BY <3>1, <3>3, <3>4, <3>5, DataSent
    <3>. QED  BY <3>6, NotPing
  <2>4. net' \subseteq net \cup out
    BY <2>1
  <2> HIDE DEF out
  <2>5. NoNewPing
    BY <2>3, <2>4, FewerPings
  <2>. QED  BY <2>2, <2>5
<1>3. CASE /\ rtable' = [rtable EXCEPT ![n] = T]
           /\ \E hop \in {lookup(T, q.daddr)} :
                net' = (net \ {p}) \cup (IF hop = IP_BROADCAST THEN {}
                                         ELSE Launch(n, [d EXCEPT !.next_hop = hop]))
           /\ UNCHANGED aborted
  <2>1. ClocksStand
    BY <1>3, ClocksOne
  <2> DEFINE hop == lookup(T, q.daddr)
             out == Launch(n, [d EXCEPT !.next_hop = hop])
  <2>2. ASSUME NEW r \in out  PROVE r.hdr \notin PingHdr
    <3>1. hop \in NextHops
      BY LookupHop DEF TableOK
    <3>2. SentOn(q, r)
      BY <2>2, <3>1, PlainSent
    <3>. QED  BY <3>2 DEF SentOn
  <2>3. net' \subseteq net \cup out
    BY <1>3
  <2> HIDE DEF out
  <2>4. NoNewPing
    BY <2>2, <2>3, FewerPings
  <2>. QED  BY <2>1, <2>4
<1>4. CASE /\ rtable' = [rtable EXCEPT ![n] = T]
           /\ net' = (net \ {p}) \cup Launch(n, [d EXCEPT !.next_hop = IP_BROADCAST])
  <2>1. ClocksStand
    BY <1>4, ClocksOne
  <2> DEFINE out == Launch(n, [d EXCEPT !.next_hop = IP_BROADCAST])
  <2>2. ASSUME NEW r \in out  PROVE r.hdr \notin PingHdr
    <3>1. IP_BROADCAST \in NextHops
      BY DEF NextHops
    <3>2. SentOn(q, r)
      BY <2>2, <3>1, PlainSent
    <3>. QED  BY <3>2 DEF SentOn
  <2>3. net' \subseteq net \cup out
    BY <1>4
  <2> HIDE DEF out
  <2>4. NoNewPing
    BY <2>2, <2>3, FewerPings
  <2>. QED  BY <2>1, <2>4
<1>. QED  BY <1>1, <1>2, <1>3, <1>4 DEF forward_data

LEMMA HeardClocks ==
  ASSUME TablesOK, NEW n \in Node, NEW h
  PROVE  SameClocks(rtable[n], heard(n, h))
<1> DEFINE T == rtable[n]
<1>1. Good(T)
  BY DEF TablesOK, TableOK
<1> HIDE DEF T
<1>2. SameClocks(T, update_rtime(T, h.s_select, h.d_intf, h.s_intf, now))
  BY <1>1, RtimeClocks
<1>. QED  BY <1>2 DEF T, heard

LEMMA RecvDataQuiet ==
  ASSUME TablesOK, NetOK, now \in Nat, NEW n \in Node, NEW p \in net, RecvData(n, p)
  PROVE  ClocksStand /\ NoNewPing
<1> DEFINE q == decapsulate(n, entering(n, p))
           T == heard(n, p.hdr)
<1>1. /\ p.ptype = "MPSELECT" /\ p.hdr.type = "DATA_PKT"
      /\ forward_data(n, p, T, q) /\ UNCHANGED <<timer, steady>>
  BY DEF RecvData, AtCore, Arrives
<1>2. PktOK(p)
  BY DEF NetOK
<1>3. p.hdr \in DataHdr
  <2>1. p.hdr \notin PingHdr
    BY <1>1 DEF PingHdr
  <2>. QED  BY <1>1, <1>2, <2>1 DEF PktOK
<1>4. p.hdr.s_intf \in Intf /\ p.hdr.d_intf \in Intf
  BY <1>3 DEF DataHdr
<1>5. TableOK(n, T) /\ SameClocks(rtable[n], T)
  BY <1>4, HeardOK, HeardClocks
<1>6. q \in Packet /\ IsFlows(q)
  BY <1>1, <1>2, Decapsulated
<1> HIDE DEF q, T
<1>. QED  BY <1>1, <1>5, <1>6, ForwardDataQuiet

LEMMA RecvPlainQuiet ==
  ASSUME TablesOK, NetOK, now \in Nat, NEW n \in Node, NEW p \in net, RecvPlain(n, p)
  PROVE  ClocksStand /\ NoNewPing
<1> DEFINE q == [entering(n, p) EXCEPT !.ttl = @ - 1]
<1>1. /\ p.ptype # "MPSELECT" /\ UNCHANGED <<timer, steady>>
      /\ \/ net' = net \ {p} /\ UNCHANGED <<rtable, aborted>>
         \/ q.ttl >= 0 /\ forward_data(n, p, rtable[n], q)
  BY DEF RecvPlain, Arrives
<1>2. CASE net' = net \ {p} /\ UNCHANGED <<rtable, aborted>>
  <2>1. NoNewPing
    BY <1>2, EchoSelf DEF NoNewPing
  <2>. QED  BY <1>1, <1>2, <2>1, ClocksKept
<1>3. CASE q.ttl >= 0 /\ forward_data(n, p, rtable[n], q)
  <2> DEFINE T == rtable[n]
  <2>1. PktOK(p)
    BY DEF NetOK
  <2>2. q \in Packet /\ IsFlows(q)
    BY <1>1, <1>3, <2>1, PlainEntered
  <2>3. TableOK(n, T) /\ SameClocks(T, T)
    BY ClocksSelf DEF TablesOK
  <2> HIDE DEF q
  <2>. QED  BY <1>1, <1>3, <2>2, <2>3, ForwardDataQuiet
<1>. QED  BY <1>1, <1>2, <1>3

LEMMA ForwardMpSQuiet ==
  ASSUME NetOK, NEW n \in Node, NEW p \in net, ForwardMpS(n, p)
  PROVE  ClocksStand /\ NoNewPing
<1> DEFINE out == Launch(n, steer(n, entering(n, p)))
<1>1. /\ n \notin Core /\ p.at = n /\ p.ptype = "MPSELECT"
      /\ net' \subseteq net \cup out /\ UNCHANGED <<rtable, timer, steady>>
  BY DEF ForwardMpS, Arrives
<1>2. PktOK(p) /\ n \in Node \ Core
  BY <1>1 DEF NetOK
<1>3. ASSUME NEW r \in out  PROVE r.hdr = p.hdr /\ r.orig = p.orig
  BY <1>1, <1>2, <1>3, Forwarded
<1> HIDE DEF out
<1>4. NoNewPing
  <2>1. ASSUME NEW r \in net', r.hdr \in PingHdr  PROVE \E o \in net : Echoes(r, o)
    <3>1. CASE r \in net
      BY <2>1, <3>1, EchoSelf
    <3>2. CASE r \in out
      <4>1. Echoes(r, p)
        BY <1>3, <2>1, <3>2 DEF Echoes
      <4>. QED  BY <4>1
    <3>. QED  BY <1>1, <3>1, <3>2
  <2>. QED  BY <2>1 DEF NoNewPing
<1>. QED  BY <1>1, <1>4, ClocksKept

(* The answer measures the path that the ping measures. *)
LEMMA AnswerEchoes ==
  ASSUME NEW r, NEW p, r.hdr \in PingHdr, p.hdr \in PingHdr,
         r.hdr.type = "PING_BAK", p.hdr.type = "PING_PKT",
         r.hdr.s_select = p.hdr.d_select, r.hdr.d_select = p.hdr.s_select,
         r.hdr.s_intf = p.hdr.d_intf, r.hdr.d_intf = p.hdr.s_intf,
         r.hdr.ping_seq = p.hdr.ping_seq, r.orig = p.orig
  PROVE  Echoes(r, p)
BY DEF Echoes, Measures

LEMMA RecvPingQuiet ==
  ASSUME TablesOK, NetOK, now \in Nat, NEW n \in Node, NEW p \in net, RecvPing(n, p)
  PROVE  ClocksStand /\ NoNewPing
<1> DEFINE h == p.hdr
           T == heard(n, h)
           U == update_rdelay(T, h.s_select, h.d_intf, h.s_intf, h.send_time, now)
           out == Launch(n, ping_pkt(n, "PING_BAK", h.d_intf, h.s_intf, h.s_select,
                                     h.ping_seq, p.orig, p.nth))
<1>1. /\ n \in Core /\ p.at = n /\ p.ptype = "MPSELECT" /\ h.type = "PING_PKT"
      /\ rtable' = [rtable EXCEPT ![n] = U] /\ net' = (net \ {p}) \cup out
      /\ UNCHANGED <<timer, steady>>
  BY DEF RecvPing, AtCore, Arrives
<1>2. PktOK(p) /\ p \in Packet
  BY DEF NetOK, PktOK
<1>3. h \in PingHdr /\ h.d_select = n /\ Wire(n, h.s_select, h.d_intf, h.s_intf)
  BY <1>1, <1>2, PingAtCore
<1>4. h.s_intf \in Intf /\ h.d_intf \in Intf /\ h.ping_seq \in Nat
  BY <1>3 DEF PingHdr
<1>5. p.orig \in Nat /\ p.nth \in Nat
  BY <1>2, PacketFields
<1> HIDE DEF h
<1>6. TableOK(n, T) /\ SameClocks(rtable[n], T)
  BY <1>4, HeardOK, HeardClocks
<1>7. SameClocks(rtable[n], U)
  <2> HIDE DEF T
  <2>1. SameClocks(T, U)
    BY <1>6, RdelayClocks DEF TableOK
  <2> HIDE DEF U
  <2>. QED  BY <1>6, <2>1, ClocksTrans
<1>8. ClocksStand
  <2> HIDE DEF U
  <2>. QED  BY <1>1, <1>7, ClocksOne
<1>9. ASSUME NEW r \in out  PROVE Echoes(r, p)
  <2>1. /\ r.hdr \in PingHdr /\ r.orig = p.orig
        /\ r.hdr.type = "PING_BAK" /\ r.hdr.s_select = n /\ r.hdr.d_select = h.s_select
        /\ r.hdr.s_intf = h.d_intf /\ r.hdr.d_intf = h.s_intf /\ r.hdr.ping_seq = h.ping_seq
    BY <1>1, <1>3, <1>4, <1>5, PingSent
  <2>. QED  BY <1>1, <1>3, <2>1, AnswerEchoes DEF h
<1> HIDE DEF out
<1>10. NoNewPing
  BY <1>1, <1>9, EchoSelf DEF NoNewPing
<1>. QED  BY <1>8, <1>10

LEMMA RecvBakQuiet ==
  ASSUME TablesOK, NetOK, now \in Nat, NEW n \in Node, NEW p \in net, RecvBak(n, p)
  PROVE  ClocksStand /\ NoNewPing
<1> DEFINE h == p.hdr
           T == heard(n, h)
           U == update_sdelay(T, h.s_select, h.d_intf, h.s_intf, h.send_time, h.ping_seq)
<1>1. /\ n \in Core /\ p.at = n /\ p.ptype = "MPSELECT" /\ h.type = "PING_BAK"
      /\ rtable' = [rtable EXCEPT ![n] = U] /\ net' = net \ {p}
      /\ UNCHANGED <<timer, steady>>
  BY DEF RecvBak, AtCore, Arrives
<1>2. PktOK(p)
  BY DEF NetOK
<1>3. h \in PingHdr
  BY <1>1, <1>2, PingAtCore
<1>4. h.s_intf \in Intf /\ h.d_intf \in Intf
  BY <1>3 DEF PingHdr
<1> HIDE DEF h
<1>5. TableOK(n, T) /\ SameClocks(rtable[n], T)
  BY <1>4, HeardOK, HeardClocks
<1>6. SameClocks(rtable[n], U)
  <2> HIDE DEF T
  <2>1. SameClocks(T, U)
    BY <1>5, SdelayClocks DEF TableOK
  <2> HIDE DEF U
  <2>. QED  BY <1>5, <2>1, ClocksTrans
<1>7. ClocksStand
  <2> HIDE DEF U
  <2>. QED  BY <1>1, <1>6, ClocksOne
<1>8. NoNewPing
  BY <1>1, EchoSelf DEF NoNewPing
<1>. QED  BY <1>7, <1>8

LEMMA SendDataQuiet ==
  ASSUME NEW f \in Flow, SendData(f)
  PROVE  ClocksStand /\ NoNewPing
<1> DEFINE p == data_pkt(f)
<1>1. net' = net \cup {p} /\ UNCHANGED <<rtable, timer, steady>>
  BY DEF SendData
<1>2. PktOK(p) /\ p.flow = f
  BY FlowPacket
<1>3. p.hdr \notin PingHdr
  BY DEF data_pkt, NoHdr, PingHdr
<1> HIDE DEF p
<1>4. NoNewPing
  BY <1>1, <1>3, EchoSelf DEF NoNewPing
<1>. QED  BY <1>1, <1>4, ClocksKept

-----------------------------------------------------------------------------
(* The steps that ping, and the commands. *)

LEMMA ExpireDated ==
  ASSUME TablesOK, NetOK, timer \in TimerType, now \in 0..MaxTime, NoWrap, DateInv,
         NEW n \in Node, Expire(n)
  PROVE  DateInv'
<1> DEFINE T == rtable[n]
           U == ping_round(T, now)
           out == UNION {Launch(n, ping_pkt(n, "PING_PKT", g.s_intf, g.d_intf,
                                            g.select, g.ping_seq, now, g.nth)) :
                           g \in pings(T)}
<1>1. /\ rtable' = [rtable EXCEPT ![n] = U] /\ net' = net \cup out
      /\ steady' = steady /\ timer[n].time = now
      /\ timer' = [timer EXCEPT ![n] = [status |-> "PENDING", time |-> now + SEND_PING_INTERVAL]]
  <2>1. rtable' = [rtable EXCEPT ![n] = ping_round(rtable[n], now)]
    BY DEF Expire
  <2>. QED  BY <2>1 DEF Expire
<1> SUFFICES ASSUME steady  PROVE TablesTimed' /\ NetDated'
  BY <1>1 DEF DateInv
<1>2. /\ TableOK(n, T) /\ Good(T) /\ PathsOnce(T) /\ InRhythm(T, timer[n])
      /\ TablesTimed /\ NetDated /\ now \in Nat
  BY NetworkAssumption DEF TablesOK, TableOK, DateInv, TablesTimed
<1>3. /\ DOMAIN rtable = Node /\ rtable'[n] = U
      /\ \A m \in Node : m # n => rtable'[m] = rtable[m]
  BY <1>1 DEF TablesOK
<1> DEFINE tm == timer[n]
           tn == timer'[n]
<1>4. /\ \A m \in Node : m # n => timer'[m] = timer[m]
      /\ tn.status = "PENDING" /\ tn.time = now + SEND_PING_INTERVAL
  <2>1. now + SEND_PING_INTERVAL \in Nat
    BY <1>2, IntervalAssumption
  <2>. QED  BY <1>1, <2>1, TimerSet
<1> HIDE DEF T
<1>5. InRhythm(T, tm) /\ tm.time = now
  BY <1>1, <1>2
<1> HIDE DEF tm, tn
<1>6. Rounded(T, U, now)
  BY <1>2, <1>5, RoundIs
<1> HIDE DEF U
<1>7. PathsOnce(U) /\ InRhythm(U, tn)
  BY <1>2, <1>4, <1>5, <1>6, RoundOnce, RoundRhythm
<1>8. TablesTimed'
  <2>1. ASSUME NEW m \in Node  PROVE PathsOnce(rtable'[m]) /\ InRhythm(rtable'[m], timer'[m])
    <3>1. CASE m = n
      BY <1>3, <1>7, <3>1 DEF tn
    <3>2. CASE m # n
      BY <1>2, <1>3, <1>4, <3>2 DEF TablesTimed
    <3>. QED  BY <3>1, <3>2
  <2>. QED  BY <2>1 DEF TablesTimed
<1>9. ASSUME NEW p \in net, p.hdr \in PingHdr  PROVE PingDated(p, rtable')
  <2> DEFINE m == Measures(p.hdr)
             q == p.hdr.ping_seq
             u == p.orig
  <2>1. Dated(rtable[m.core], m.peer, m.s, m.d, q, u)
    BY <1>2, <1>9 DEF NetDated, PingDated
  <2>2. m.core \in Node
    BY <1>9, MeasuringCore
  <2>3. q \in Nat /\ u \in Int
    <3>1. q \in Nat
      BY <1>9 DEF PingHdr
    <3>2. p \in Packet
      BY DEF NetOK, PktOK
    <3>3. p.orig \in Nat
      BY <3>2, PacketFields
    <3>. QED  BY <3>1, <3>3
  <2> HIDE DEF m, q, u
  <2>4. Dated(rtable'[m.core], m.peer, m.s, m.d, q, u)
    <3>1. CASE m.core = n
      <4>1. Dated(T, m.peer, m.s, m.d, q, u)
        BY <2>1, <3>1 DEF T
      <4>2. Dated(U, m.peer, m.s, m.d, q, u)
        BY <1>2, <1>5, <1>6, <2>3, <4>1, RoundDated
      <4>. QED  BY <1>3, <3>1, <4>2
    <3>2. CASE m.core # n
      BY <1>3, <2>1, <2>2, <3>2
    <3>. QED  BY <3>1, <3>2
  <2>. QED  BY <2>4 DEF PingDated, m, q, u
<1>10. ASSUME NEW r \in out  PROVE PingDated(r, rtable')
  <2>1. PICK g \in pings(T) : r \in Launch(n, ping_pkt(n, "PING_PKT", g.s_intf, g.d_intf,
                                                       g.select, g.ping_seq, now, g.nth))
    BY <1>10
  <2>2. HasPath(T, g.select, g.s_intf, g.d_intf) /\ g.ping_seq \in Nat /\ g.nth \in Nat
    BY <1>2, PingsPath
  <2>3. Wire(n, g.select, g.s_intf, g.d_intf)
    BY <1>2, <2>2, WiredPath
  <2>4. n \in Core
    BY <2>3, WireEnds
  <2>5. /\ r.orig = now
        /\ r.hdr.type = "PING_PKT" /\ r.hdr.s_select = n /\ r.hdr.d_select = g.select
        /\ r.hdr.s_intf = g.s_intf /\ r.hdr.d_intf = g.d_intf /\ r.hdr.ping_seq = g.ping_seq
    BY <1>2, <2>1, <2>2, <2>3, <2>4, PingSent
  <2>6. Dated(U, g.select, g.s_intf, g.d_intf, g.ping_seq, now)
    BY <1>2, <1>6, RoundNew
  <2> DEFINE m == Measures(r.hdr)
  <2>7. m.core = n /\ m.peer = g.select /\ m.s = g.s_intf /\ m.d = g.d_intf
    BY <2>5 DEF Measures
  <2> HIDE DEF m
  <2>8. Dated(rtable'[m.core], m.peer, m.s, m.d, r.hdr.ping_seq, r.orig)
    BY <1>3, <2>5, <2>6, <2>7
  <2>. QED  BY <2>8 DEF PingDated, m
<1> HIDE DEF out
<1>11. NetDated'
  BY <1>1, <1>9, <1>10 DEF NetDated
<1>. QED  BY <1>8, <1>11

LEMMA AddDated ==
  ASSUME TablesOK, NetOK, timer \in TimerType, now \in Nat, DateInv,
         NEW e \in Editable, AddMpPath(e[1], e[2], e[3], e[4])
  PROVE  DateInv'
<1> SUFFICES ASSUME steady'  PROVE TablesTimed' /\ NetDated'
  BY DEF DateInv
<1> DEFINE n == e[1]
           s == e[3]
           d == e[4]
           T == rtable[n]
           f == NewItem(s, d, now)
<1>1. Wire(n, e[2], s, d) /\ e[2] \in Peer
  BY WiringAssumption
<1>2. n \in Node /\ s \in Intf /\ d \in Intf
  BY <1>1, WireEnds
<1>3. PICK fresh \in MPtr \ Live(T) :
        rtable' = [rtable EXCEPT ![n] = add_mpath(T, e[2], s, d, fresh, now)]
  BY DEF AddMpPath
<1>4. /\ net' = net /\ timer' = timer /\ steady
      /\ \A i \in DOMAIN T.mptable : PathIdx(T.mptable[i].paths, s, d) = 0
  BY DEF AddMpPath, Command
<1> DEFINE U == add_mpath(T, e[2], s, d, fresh, now)
           tm == timer[n]
<1>5. /\ Good(T) /\ PathsOnce(T) /\ InRhythm(T, tm) /\ tm.time \in Nat
      /\ TablesTimed /\ NetDated
  BY <1>2, <1>4 DEF TablesOK, TableOK, DateInv, TablesTimed, TimerType
<1>6. f \in Path /\ f.ping_seq = 0 /\ f.s_intf = s /\ f.d_intf = d
  <2>1. f \in Path
    BY <1>2, NewItemType
  <2>. QED  BY <2>1 DEF NewItem
<1> HIDE DEF n, s, d, tm
<1>7. NoneJoins(T, s, d)
  <2> HIDE DEF T
  <2>. QED  BY <1>4, <1>5, IdxZero
<1>8. Grown(T, U, f)
  <2> HIDE DEF T
  <2>. QED  BY <1>1, <1>2, <1>5, AddGrows
<1>9. rtable' = [rtable EXCEPT ![n] = U]
  BY <1>3
<1> HIDE DEF T, U, f
<1>10. PathsOnce(U) /\ InRhythm(U, tm)
  BY <1>5, <1>6, <1>7, <1>8, GrownOnce, GrownRhythm
<1>11. /\ DOMAIN rtable = Node /\ rtable'[n] = U
       /\ \A m \in Node : m # n => rtable'[m] = rtable[m]
  BY <1>2, <1>9 DEF TablesOK
<1>12. TablesTimed'
  <2>1. ASSUME NEW m \in Node  PROVE PathsOnce(rtable'[m]) /\ InRhythm(rtable'[m], timer'[m])
    <3>1. CASE m = n
      BY <1>4, <1>10, <1>11, <3>1 DEF tm
    <3>2. CASE m # n
      BY <1>4, <1>5, <1>11, <3>2 DEF TablesTimed
    <3>. QED  BY <3>1, <3>2
  <2>. QED  BY <2>1 DEF TablesTimed
<1>13. ASSUME NEW p \in net, p.hdr \in PingHdr  PROVE PingDated(p, rtable')
  <2> DEFINE m == Measures(p.hdr)
             q == p.hdr.ping_seq
             u == p.orig
  <2>1. Dated(rtable[m.core], m.peer, m.s, m.d, q, u)
    BY <1>5, <1>13 DEF NetDated, PingDated
  <2>2. m.core \in Node
    BY <1>13, MeasuringCore
  <2> HIDE DEF m, q, u
  <2>3. Dated(rtable'[m.core], m.peer, m.s, m.d, q, u)
    <3>1. CASE m.core = n
      <4>1. Dated(T, m.peer, m.s, m.d, q, u)
        BY <2>1, <3>1 DEF T
      <4>2. Dated(U, m.peer, m.s, m.d, q, u)
        BY <1>5, <1>6, <1>7, <1>8, <4>1, GrownDated
      <4>. QED  BY <1>11, <3>1, <4>2
    <3>2. CASE m.core # n
      BY <1>11, <2>1, <2>2, <3>2
    <3>. QED  BY <3>1, <3>2
  <2>. QED  BY <2>3 DEF PingDated, m, q, u
<1>14. NetDated'
  BY <1>4, <1>13 DEF NetDated
<1>. QED  BY <1>12, <1>14

LEMMA NextDated ==
  ASSUME IInv, NoWrap, DateInv, [Next]_vars
  PROVE  DateInv'
<1>0. /\ TablesOK /\ NetOK /\ timer \in TimerType /\ now \in 0..MaxTime /\ now \in Nat
  BY NetworkAssumption DEF IInv, TimersOK, TimerType, CountersOK
<1>1. ASSUME NEW n \in Node, NEW p \in net, RecvLooped(n, p)
      PROVE  ClocksStand /\ NoNewPing
  BY <1>1, ClocksKept, EchoSelf DEF RecvLooped, Arrives, NoNewPing
<1>2. ASSUME NEW p \in net, HostRecv(p) \/ Lose(p)
      PROVE  ClocksStand /\ NoNewPing
  BY <1>2, ClocksKept, EchoSelf DEF HostRecv, Lose, NoNewPing
<1>3. ASSUME Tick
      PROVE  ClocksStand /\ NoNewPing
  BY <1>3, ClocksKept, EchoSelf DEF Tick, NoNewPing
<1>4. ASSUME NEW n \in Node, NEW p \in net,
             \/ ForwardMpS(n, p) \/ RecvPing(n, p) \/ RecvBak(n, p)
             \/ RecvData(n, p) \/ RecvPlain(n, p)
      PROVE  ClocksStand /\ NoNewPing
  BY <1>0, <1>4, ForwardMpSQuiet, RecvPingQuiet, RecvBakQuiet, RecvDataQuiet, RecvPlainQuiet
<1>5. ASSUME NEW f \in Flow, SendData(f)
      PROVE  ClocksStand /\ NoNewPing
  BY <1>5, SendDataQuiet
<1>6. ASSUME UNCHANGED vars
      PROVE  ClocksStand /\ NoNewPing
  BY <1>6, ClocksKept, EchoSelf DEF vars, NoNewPing
<1>7. ASSUME NEW n \in Node, Start(n) \/ StopPing(n)
      PROVE  DateInv'
  BY <1>7 DEF Start, StopPing, DateInv
<1>8. ASSUME NEW n, NEW select, NEW s, NEW d, DeleteMpPath(n, select, s, d)
      PROVE  DateInv'
  BY <1>8 DEF DeleteMpPath, DateInv
<1>9. ASSUME NEW n \in Node, Expire(n)
      PROVE  DateInv'
  BY <1>0, <1>9, ExpireDated
<1>10. ASSUME NEW e \in Editable, AddMpPath(e[1], e[2], e[3], e[4])
       PROVE  DateInv'
  BY <1>0, <1>10, AddDated
<1>11. CASE ClocksStand /\ NoNewPing
  BY <1>11, QuietStep
<1>. QED
  BY <1>1, <1>2, <1>3, <1>4, <1>5, <1>6, <1>7, <1>8, <1>9, <1>10, <1>11, Zenon
     DEF Next, Deliver, DeliverOf, RecvOf

LEMMA InitDated == Init => DateInv
<1> SUFFICES ASSUME Init, steady PROVE TablesTimed /\ NetDated
  BY DEF DateInv
<1>1. /\ rtable = InitTable /\ net = {} /\ \A n \in Node : PathsOnce(InitTable[n])
      /\ \A n \in Node : timer[n].time = 0
  BY DEF Init
<1>2. ASSUME NEW n \in Node  PROVE InRhythm(InitTable[n], timer[n])
  <2>1. 0 * SEND_PING_INTERVAL <= 0 /\ ~ (0 > 0)
    BY IntervalAssumption
  <2>. QED  BY <1>1, <2>1, SetUpAssumption DEF InRhythm, Beat
<1>. QED  BY <1>1, <1>2 DEF TablesTimed, NetDated

(* A core that pings in an unbroken rhythm, and adds paths only once, can  *)
(* tell from the number of a ping and the time of the last one when that   *)
(* ping was sent, however many pings are in flight and however long they   *)
(* take.  The hypothesis is that the simulation ends before a sequence     *)
(* number wraps: 2^32 rounds of one second in the code.                    *)
THEOREM SendTimesRecoverable == NoWrap => (Spec => []SendTimeRecoverable)
<1> SUFFICES ASSUME NoWrap  PROVE Spec => []SendTimeRecoverable
  OBVIOUS
<1>1. Init => DateInv
  BY InitDated
<1>2. IInv /\ DateInv /\ [Next]_vars => DateInv'
  BY NextDated
<1>3. IInv /\ DateInv => SendTimeRecoverable
  <2> SUFFICES ASSUME IInv, DateInv, steady, NEW p \in net,
                      p.hdr.type \in {"PING_PKT", "PING_BAK"},
                      NEW n \in Core, RaAddr[n] = Measures(p.hdr).core,
                      NEW i \in DOMAIN rtable[n].mptable,
                      rtable[n].mptable[i].select_addr = Measures(p.hdr).peer,
                      PathIdx(rtable[n].mptable[i].paths, Measures(p.hdr).s,
                              Measures(p.hdr).d) # 0
               PROVE  Dates(rtable[n].mptable[i].paths[
                              PathIdx(rtable[n].mptable[i].paths, Measures(p.hdr).s,
                                      Measures(p.hdr).d)],
                            p.hdr.ping_seq, p.orig)
    BY ZenonT(30) DEF SendTimeRecoverable, Dates
  <2> DEFINE m == Measures(p.hdr)
             T == rtable[n]
             paths == T.mptable[i].paths
             k == PathIdx(paths, m.s, m.d)
  <2>1. p.hdr \notin DataHdr /\ p.hdr # NoHdr
    BY DEF DataHdr, NoHdr
  <2>2. p.hdr \in PingHdr
    BY <2>1, PacketFields DEF IInv, NetOK, PktOK
  <2>3. m.core = n /\ n \in Node
    BY WiringAssumption, NetworkAssumption
  <2>4. Good(T)
    BY <2>3 DEF IInv, TablesOK, TableOK
  <2>5. Dated(T, m.peer, m.s, m.d, p.hdr.ping_seq, p.orig)
    BY <2>2, <2>3 DEF DateInv, NetDated, PingDated
  <2>6. /\ i \in DOMAIN T.mptable /\ T.mptable[i].select_addr = m.peer
        /\ k # 0
    OBVIOUS
  <2> HIDE DEF m, T
  <2>7. k \in DOMAIN paths /\ Joins(paths[k], m.s, m.d)
    <3> DEFINE J == {j \in DOMAIN paths : Joins(paths[j], m.s, m.d)}
    <3>1. paths \in Seq(Path)
      BY <2>4, <2>6, PathsOf
    <3>2. k = First(J)
      BY DEF PathIdx
    <3>3. J \subseteq Nat \ {0}
      <4> HIDE DEF paths
      <4>. QED  BY <3>1, LenProperties
    <3>4. k \in J
      <4> HIDE DEF J, k
      <4>. QED  BY <2>6, <3>2, <3>3, FirstOf
    <3>. QED  BY <3>4
  <2>8. Dates(paths[k], p.hdr.ping_seq, p.orig)
    <3> HIDE DEF k
    <3>. QED  BY <2>5, <2>6, <2>7 DEF Dated
  <2>. QED  BY <2>8 DEF m, T
<1>. QED  BY <1>1, <1>2, <1>3, NetworkInvariant, PTL DEF Spec
================================================================================
