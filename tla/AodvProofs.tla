------------------------------ MODULE AodvProofs ------------------------------
(***************************************************************************)
(* The sequence numbers of AODV, proved for every network: numbers come    *)
(* from the destinations, and as long as no LocalRepairTimer has brought   *)
(* down a route, following next hops comes strictly closer to the          *)
(* destination in the order (higher number, then fewer hops), so that no   *)
(* set of nodes forwards in a circle.  As long as no local repair has been *)
(* tried, a route of h hops is backed by h - 1 nodes that are better off,  *)
(* which bounds the hop counts and keeps the assertions of the agent true. *)
(***************************************************************************)
EXTENDS AodvNetwork, ListLemmas, FiniteSetTheorems

-----------------------------------------------------------------------------
(* Types *)

Entry ==
  [seqno : Nat, hops : Nat, last_hop_count : Nat, nexthop : Node,
   flags : {"UP", "DOWN", "IN_REPAIR"}, pclist : SUBSET Node, req_cnt : Nat,
   req_timeout : BOOLEAN, req_last_ttl : Nat]

Data ==
  [type : {"DATA"}, src : Node, dst : Node, id : Nat, ttl : Int, forwards : Nat]

Rreq ==
  [type : {"RREQ"}, ttl : Int, hop_count : Nat, bcast_id : Nat, dst : Node,
   dst_seqno : Nat, src : Node, src_seqno : Nat]

Rrep ==
  [type : {"RREP"}, ttl : Int, ipdst : Node, hop_count : Nat, dst : Node,
   dst_seqno : Nat]

Rerr == [type : {"RERR"}, ttl : Int, lost : SUBSET [dst : Node, seqno : Nat]]

Packet == Data \cup Rreq \cup Rrep \cup Rerr

Message == [from : Node, to : Node, pkt : Packet]

(* A data packet in the network: it is dropped before NETWORK_DIAMETER hops. *)
InFlight == {p \in Data : p.ttl > 0 /\ p.forwards + p.ttl <= NETWORK_DIAMETER}

Agent ==
  [seqno : Nat, bid : Nat, rt : [Node -> Entry], seen : SUBSET (Node \X Nat),
   rqueue : Seq(InFlight)]

Status == {"ok", "assert", "freed"}

TypeInv ==
  /\ node \in [Node -> Agent]
  /\ msgs \subseteq Message
  /\ repairs \subseteq [node : Node, dst : Node, uid : Nat]
  /\ sent \subseteq Flow
  /\ faults \in Nat
  /\ status \in Status
  /\ repaired \in BOOLEAN
  /\ undone \in BOOLEAN

-----------------------------------------------------------------------------
(* What holds of entries and packets.  nd is the agents, u that a repair   *)
(* timer has brought down a route.                                         *)

(* The number of a route that does not exist. *)
Odd(k) == k = 0 \/ ~Even(k)

(* An entry for a destination whose own number is k. *)
EntryOK(e, k, u) ==
  /\ e.seqno <= k + 1
  /\ e.flags = "DOWN" => e.hops = INFINITY2 /\ (~u => Odd(e.seqno))
  /\ e.flags # "DOWN" => 0 < e.seqno /\ Even(e.seqno) /\ e.seqno <= k

(* The entry e is newer than, or as new as and shorter than, a route. *)
Better(e, seqno, hops) == e.seqno > seqno \/ (e.seqno = seqno /\ e.hops < hops)

(* What may become of an entry. *)
Improves(e, f) == f.seqno > e.seqno \/ (f.seqno = e.seqno /\ f.hops <= e.hops)

(* The entry e of node n leads to a node that is closer to d. *)
HopOK(n, d, e, nd) ==
  n # d /\ e.flags # "DOWN" =>
    e.nexthop = d \/ Better(nd[e.nexthop].rt[d], e.seqno, e.hops)

DataOK(p) == p \in InFlight

(* A request from f about the way back to src. *)
RreqOK(f, p, nd, u) ==
  /\ 0 < p.src_seqno /\ Even(p.src_seqno) /\ p.src_seqno <= nd[p.src].seqno
  /\ p.dst_seqno <= nd[p.dst].seqno + 1
  /\ ~u => f = p.src \/ Better(nd[f].rt[p.src], p.src_seqno, p.hop_count)

RrepOK(f, p, nd, u) ==
  /\ 0 < p.dst_seqno /\ Even(p.dst_seqno) /\ p.dst_seqno <= nd[p.dst].seqno
  /\ ~u => f = p.dst \/ Better(nd[f].rt[p.dst], p.dst_seqno, p.hop_count)

LostOK(lost, nd, u) ==
  /\ \A v, w \in lost : v.dst = w.dst => v = w
  /\ \A v \in lost : v.seqno <= nd[v.dst].seqno + 1 /\ (~u => Odd(v.seqno))

PacketOK(f, p, nd, u) ==
  /\ p.type = "DATA" => DataOK(p)
  /\ p.type = "RREQ" => RreqOK(f, p, nd, u)
  /\ p.type = "RREP" => RrepOK(f, p, nd, u)
  /\ p.type = "RERR" => LostOK(p.lost, nd, u)

(* The agents. *)
AgentsOK(nd, u) ==
  /\ \A n \in Node : 0 < nd[n].seqno /\ Even(nd[n].seqno)
  /\ \A n, d \in Node : /\ EntryOK(nd[n].rt[d], nd[d].seqno, u)
                        /\ ~u => HopOK(n, d, nd[n].rt[d], nd)

OutOK(O, nd, u) == \A x \in O : PacketOK(x.from, x.pkt, nd, u)

IInv ==
  /\ TypeInv
  /\ AgentsOK(node, undone)
  /\ OutOK(msgs, node, undone)

-----------------------------------------------------------------------------
(* A step of one agent *)

(* Numbers and entries only improve. *)
Grows(nd, md, u) ==
  \A m \in Node : /\ nd[m].seqno <= md[m].seqno
                  /\ ~u => \A d \in Node : Improves(nd[m].rt[d], md[m].rt[d])

(* The agents when n has become v. *)
With(nd, n, v) == [nd EXCEPT ![n] = v]

(* Agent n, among the agents nd, may become v. *)
AgentOK(n, v, nd, u) ==
  /\ v \in Agent
  /\ nd[n].seqno <= v.seqno /\ Even(v.seqno)
  /\ \A d \in Node : /\ EntryOK(v.rt[d], nd[d].seqno, u)
                     /\ ~u => Improves(nd[n].rt[d], v.rt[d])
                     /\ ~u => HopOK(n, d, v.rt[d], nd)

(* The step s of agent n. *)
StepOK(n, s, nd, u) ==
  /\ s \in [nd : Agent, out : SUBSET Message, status : Status]
  /\ AgentOK(n, s.nd, nd, u)
  /\ \A x \in s.out : x.from = n
  /\ OutOK(s.out, With(nd, n, s.nd), u)

LEMMA BetterStays ==
  ASSUME NEW e \in Entry, NEW f \in Entry, NEW k \in Nat, NEW h \in Nat,
         Better(e, k, h), Improves(e, f)
  PROVE  Better(f, k, h)
<1>1. e.seqno \in Nat /\ e.hops \in Nat /\ f.seqno \in Nat /\ f.hops \in Nat
  BY DEF Entry
<1>. QED  BY <1>1 DEF Better, Improves

(* What holds of a packet goes on to hold. *)
LEMMA PacketStays ==
  ASSUME NEW nd \in [Node -> Agent], NEW md \in [Node -> Agent], NEW u \in BOOLEAN,
         Grows(nd, md, u), NEW f \in Node, NEW p \in Packet, PacketOK(f, p, nd, u)
  PROVE  PacketOK(f, p, md, u)
<1>0. \A m \in Node : /\ nd[m].seqno \in Nat /\ md[m].seqno \in Nat
                     /\ \A d \in Node : nd[m].rt[d] \in Entry /\ md[m].rt[d] \in Entry
  BY DEF Agent
<1>1. CASE p.type = "DATA"
  BY <1>1 DEF PacketOK
<1>2. CASE p.type = "RREQ"
  <2>1. p \in Rreq
    BY <1>2 DEF Packet, Data, Rrep, Rerr
  <2>2. p.src \in Node /\ p.dst \in Node /\ p.src_seqno \in Nat /\ p.dst_seqno \in Nat
        /\ p.hop_count \in Nat
    BY <2>1 DEF Rreq
  <2>3. RreqOK(f, p, nd, u)
    BY <1>2 DEF PacketOK
  <2>4. p.src_seqno <= md[p.src].seqno /\ p.dst_seqno <= md[p.dst].seqno + 1
    BY <1>0, <2>2, <2>3 DEF RreqOK, Grows
  <2>5. ASSUME ~u, Better(nd[f].rt[p.src], p.src_seqno, p.hop_count)
        PROVE  Better(md[f].rt[p.src], p.src_seqno, p.hop_count)
    BY <1>0, <2>2, <2>5, BetterStays DEF Grows
  <2>6. RreqOK(f, p, md, u)
    BY <2>3, <2>4, <2>5 DEF RreqOK
  <2>. QED  BY <1>2, <2>6 DEF PacketOK
<1>3. CASE p.type = "RREP"
  <2>1. p \in Rrep
    BY <1>3 DEF Packet, Data, Rreq, Rerr
  <2>2. p.dst \in Node /\ p.dst_seqno \in Nat /\ p.hop_count \in Nat
    BY <2>1 DEF Rrep
  <2>3. RrepOK(f, p, nd, u)
    BY <1>3 DEF PacketOK
  <2>4. p.dst_seqno <= md[p.dst].seqno
    BY <1>0, <2>2, <2>3 DEF RrepOK, Grows
  <2>5. ASSUME ~u, Better(nd[f].rt[p.dst], p.dst_seqno, p.hop_count)
        PROVE  Better(md[f].rt[p.dst], p.dst_seqno, p.hop_count)
    BY <1>0, <2>2, <2>5, BetterStays DEF Grows
  <2>6. RrepOK(f, p, md, u)
    BY <2>3, <2>4, <2>5 DEF RrepOK
  <2>. QED  BY <1>3, <2>6 DEF PacketOK
<1>4. CASE p.type = "RERR"
  <2>1. p \in Rerr
    BY <1>4 DEF Packet, Data, Rreq, Rrep
  <2>2. \A v \in p.lost : v.dst \in Node /\ v.seqno \in Nat
    BY <2>1 DEF Rerr
  <2>3. LostOK(p.lost, nd, u)
    BY <1>4 DEF PacketOK
  <2>4. LostOK(p.lost, md, u)
    BY <1>0, <2>2, <2>3 DEF LostOK, Grows
  <2>. QED  BY <1>4, <2>4 DEF PacketOK
<1>5. p.type \in {"DATA", "RREQ", "RREP", "RERR"}
  BY DEF Packet, Data, Rreq, Rrep, Rerr
<1>. QED  BY <1>1, <1>2, <1>3, <1>4, <1>5

(* When one agent takes a step that is allowed, all are as they should be. *)
LEMMA AgentsStay ==
  ASSUME NEW nd \in [Node -> Agent], NEW u \in BOOLEAN, AgentsOK(nd, u),
         NEW n \in Node, NEW v, AgentOK(n, v, nd, u)
  PROVE  /\ With(nd, n, v) \in [Node -> Agent]
         /\ Grows(nd, With(nd, n, v), u)
         /\ AgentsOK(With(nd, n, v), u)
<1> DEFINE md == With(nd, n, v)
<1>1. v \in Agent /\ md \in [Node -> Agent]
  BY DEF AgentOK, With
<1>2. md[n] = v /\ \A m \in Node \ {n} : md[m] = nd[m]
  BY DEF With
<1> HIDE DEF md
<1>3. \A m \in Node : /\ nd[m].seqno \in Nat /\ md[m].seqno \in Nat
                     /\ \A d \in Node : nd[m].rt[d] \in Entry /\ md[m].rt[d] \in Entry
  BY <1>1 DEF Agent
<1>4. \A e \in Entry : e.seqno \in Nat /\ e.hops \in Nat /\ e.nexthop \in Node
  BY DEF Entry
<1>5. ASSUME NEW m \in Node PROVE nd[m].seqno <= md[m].seqno
  BY <1>2, <1>3 DEF AgentOK
<1>6. ASSUME ~u, NEW m \in Node, NEW d \in Node
      PROVE  Improves(nd[m].rt[d], md[m].rt[d])
  <2>1. CASE m = n
    <3>1. Improves(nd[n].rt[d], v.rt[d])
      BY <1>6, Zenon DEF AgentOK
    <3>. QED  BY <1>2, <2>1, <3>1
  <2>2. CASE m # n
    <3>1. md[m].rt[d] = nd[m].rt[d] /\ nd[m].rt[d].seqno \in Nat /\ nd[m].rt[d].hops \in Nat
      BY <1>2, <1>3, <1>4, <2>2
    <3>. QED  BY <3>1 DEF Improves
  <2>. QED  BY <2>1, <2>2
<1>7. Grows(nd, md, u)
  BY <1>5, <1>6 DEF Grows
<1>8. ASSUME NEW m \in Node PROVE 0 < md[m].seqno /\ Even(md[m].seqno)
  <2>1. 0 < nd[m].seqno /\ Even(nd[m].seqno)
    BY DEF AgentsOK
  <2>2. CASE m = n
    BY <1>2, <1>3, <1>5, <2>1, <2>2 DEF AgentOK
  <2>3. CASE m # n
    BY <1>2, <2>1, <2>3
  <2>. QED  BY <2>2, <2>3
<1>9. ASSUME NEW m \in Node, NEW d \in Node
      PROVE  EntryOK(md[m].rt[d], md[d].seqno, u)
  <2>1. EntryOK(md[m].rt[d], nd[d].seqno, u)
    <3>1. EntryOK(v.rt[d], nd[d].seqno, u) /\ EntryOK(nd[m].rt[d], nd[d].seqno, u)
      BY Zenon DEF AgentOK, AgentsOK
    <3>2. md[m].rt[d] = v.rt[d] \/ md[m].rt[d] = nd[m].rt[d]
      BY <1>2
    <3>. QED  BY <3>1, <3>2
  <2>2. md[m].rt[d].seqno \in Nat /\ nd[d].seqno \in Nat /\ md[d].seqno \in Nat
        /\ nd[d].seqno <= md[d].seqno
    BY <1>3, <1>4, <1>5
  <2>. QED  BY <2>1, <2>2 DEF EntryOK
<1>10. ASSUME ~u, NEW m \in Node, NEW d \in Node
       PROVE  HopOK(m, d, md[m].rt[d], md)
  <2>1. HopOK(m, d, md[m].rt[d], nd)
    <3>1. HopOK(n, d, v.rt[d], nd) /\ HopOK(m, d, nd[m].rt[d], nd)
      BY <1>10, Zenon DEF AgentOK, AgentsOK
    <3>2. CASE m = n
      BY <1>2, <3>1, <3>2
    <3>3. CASE m # n
      BY <1>2, <3>1, <3>3
    <3>. QED  BY <3>2, <3>3
  <2> DEFINE e == md[m].rt[d]
  <2>2. e \in Entry /\ e.seqno \in Nat /\ e.hops \in Nat /\ e.nexthop \in Node
    BY <1>3, <1>4
  <2> HIDE DEF e
  <2>3. Better(nd[e.nexthop].rt[d], e.seqno, e.hops)
        => Better(md[e.nexthop].rt[d], e.seqno, e.hops)
    BY <1>3, <1>6, <1>10, <2>2, BetterStays
  <2>4. HopOK(m, d, e, nd)
    BY <2>1 DEF e
  <2>5. HopOK(m, d, e, md)
    BY <2>3, <2>4 DEF HopOK
  <2>. QED  BY <2>5 DEF e
<1>11. AgentsOK(md, u)
  BY <1>8, <1>9, <1>10 DEF AgentsOK
<1>. QED  BY <1>1, <1>7, <1>11 DEF md

-----------------------------------------------------------------------------
(* The buffer *)

(* The elements of a set of positions have the ranks 1, 2, ... *)
LEMMA RankExists ==
  ASSUME NEW m \in Nat, NEW I \in SUBSET (1..m), NEW k \in 1..Cardinality(I)
  PROVE  \E i \in I : Cardinality({j \in I : j <= i}) = k
<1> DEFINE R(i) == {j \in I : j <= i}
           H == {i \in Nat : Cardinality(R(i)) >= k}
           h == Min(H)
<1>0. \A j \in I : j \in Nat /\ 1 <= j /\ j <= m
  OBVIOUS
<1>1. IsFiniteSet(I) /\ Cardinality(I) \in Nat
  <2>1. IsFiniteSet(1..m)
    BY FS_Interval
  <2>2. IsFiniteSet(I)
    BY <2>1, FS_Subset, Zenon
  <2>. QED  BY <2>2, FS_CardinalityType
<1>2. ASSUME NEW i \in Nat PROVE IsFiniteSet(R(i)) /\ Cardinality(R(i)) \in Nat
  <2>1. R(i) \in SUBSET I
    OBVIOUS
  <2>2. IsFiniteSet(R(i))
    BY <1>1, <2>1, FS_Subset, Zenon
  <2>. QED  BY <2>2, FS_CardinalityType
<1>k. k \in Nat /\ 1 <= k /\ k <= Cardinality(I)
  BY <1>1
<1>3. m \in H
  <2>1. \A j \in I : j <= m
    BY <1>0
  <2>2. R(m) = I
    BY <2>1, Zenon
  <2>. QED  BY <1>1, <1>k, <2>2
<1>4. h \in H /\ \A i \in H : h <= i
  <2>1. H \subseteq Nat /\ H # {}
    BY <1>3
  <2> HIDE DEF H
  <2>. QED  BY <2>1, MinNat
<1>5. h # 0
  <2>1. \A j \in I : ~ (j <= 0)
    BY <1>0
  <2>2. R(0) = {}
    BY <2>1, Zenon
  <2>3. Cardinality(R(0)) = 0
    BY <2>2, FS_EmptySet
  <2>4. 0 \notin H
    BY <1>k, <2>3
  <2>. QED  BY <1>4, <2>4
<1> HIDE DEF h
<1>6. h \in Nat /\ h - 1 \in Nat
  BY <1>4, <1>5
<1>7. Cardinality(R(h)) >= k
  BY <1>4
<1>8. ~ (Cardinality(R(h - 1)) >= k)
  <2> DEFINE g == h - 1
  <2>1. g \in Nat /\ ~ (h <= g)
    BY <1>6
  <2> HIDE DEF g
  <2>2. g \notin H
    BY <1>4, <2>1, Zenon
  <2>3. ~ (Cardinality(R(g)) >= k)
    BY <2>1, <2>2, Zenon
  <2>. QED  BY <2>3 DEF g
<1>9. \A j \in I : (j <= h) <=> (j <= h - 1 \/ j = h)
  BY <1>0, <1>6
<1>10. ~ (h <= h - 1)
  BY <1>6
<1> HIDE DEF H
<1>11. h \in I
  <2>1. SUFFICES ASSUME h \notin I PROVE FALSE
    OBVIOUS
  <2>2. \A j \in I : (j <= h) <=> (j <= h - 1)
    BY <1>9, <2>1, Zenon
  <2>3. R(h) = R(h - 1)
    BY <2>2, Zenon
  <2>. QED  BY <1>7, <1>8, <2>3
<1>12. Cardinality(R(h)) = Cardinality(R(h - 1)) + 1
  <2>1. R(h) = R(h - 1) \cup {h}
    BY <1>9, <1>11
  <2>2. h \notin R(h - 1)
    BY <1>10
  <2>3. IsFiniteSet(R(h - 1))
    BY <1>2, <1>6
  <2> HIDE DEF R
  <2>. QED  BY <2>1, <2>2, <2>3, FS_AddElement
<1>13. Cardinality(R(h)) = k
  <2>1. Cardinality(R(h)) \in Nat /\ Cardinality(R(h - 1)) \in Nat
    BY <1>2, <1>6
  <2> HIDE DEF R
  <2>. QED  BY <1>k, <1>7, <1>8, <1>12, <2>1
<1>. QED  BY <1>11, <1>13

(* Taking packets out of a buffer leaves packets of the buffer. *)
LEMMA UnbufferType ==
  ASSUME NEW S, NEW q \in Seq(S), NEW D
  PROVE  Unbuffer(q, D) \in Seq(S)
<1> DEFINE kept == {i \in DOMAIN q : q[i].dst \notin D}
           Rank(i) == Cardinality({j \in kept : j <= i})
           At(k) == CHOOSE i \in kept : Rank(i) = k
<1>1. Len(q) \in Nat /\ DOMAIN q = 1..Len(q) /\ \A i \in 1..Len(q) : q[i] \in S
  BY LenProperties, ElementOfSeq
<1>2. kept \in SUBSET (1..Len(q)) /\ IsFiniteSet(kept) /\ Cardinality(kept) \in Nat
  <2>1. kept \in SUBSET (1..Len(q))
    BY <1>1
  <2>2. IsFiniteSet(1..Len(q))
    BY <1>1, FS_Interval
  <2> HIDE DEF kept
  <2>3. IsFiniteSet(kept)
    BY <2>1, <2>2, FS_Subset, Zenon
  <2>. QED  BY <2>1, <2>3, FS_CardinalityType
<1>3. Unbuffer(q, D) = [k \in 1..Cardinality(kept) |-> q[At(k)]]
  BY DEF Unbuffer
<1> HIDE DEF kept
<1>4. ASSUME NEW k \in 1..Cardinality(kept) PROVE q[At(k)] \in S
  <2>1. \E i \in kept : Rank(i) = k
    BY <1>1, <1>2, RankExists
  <2>2. At(k) \in kept
    BY <2>1
  <2>. QED  BY <1>1, <1>2, <2>2
<1>5. [k \in 1..Cardinality(kept) |-> q[At(k)]] \in Seq(S)
  <2> HIDE DEF At
  <2>1. \A k \in 1..Cardinality(kept) : q[At(k)] \in S
    BY <1>4
  <2>. QED  BY <1>2, <2>1
<1>. QED  BY <1>3, <1>5

LEMMA EnqueType ==
  ASSUME NEW S, NEW q \in Seq(S), NEW p \in S
  PROVE  enque(q, p) \in Seq(S)
<1>1. Len(q) = AODV_RTQ_MAX_LEN => Tail(q) \in Seq(S)
  <2>1. AODV_RTQ_MAX_LEN > 0
    BY AodvAssumption
  <2>2. Len(q) = AODV_RTQ_MAX_LEN => q # << >>
    BY <2>1, AodvAssumption
  <2>. QED  BY <2>2
<1>. QED  BY <1>1 DEF enque

LEMMA MaxPair ==
  ASSUME NEW a \in Int, NEW b \in Int
  PROVE  Max({a, b}) = IF a >= b THEN a ELSE b
<1>1. \E x \in {a, b} : \A y \in {a, b} : x >= y
  OBVIOUS
<1>2. Max({a, b}) \in {a, b} /\ \A y \in {a, b} : Max({a, b}) >= y
  BY <1>1 DEF Max
<1>. QED  BY <1>2

-----------------------------------------------------------------------------
(* What a step is made of *)

Steps == [nd : Agent, out : SUBSET Message, status : Status]

(* The routes of two agents are the same. *)
Alike(v, w) ==
  \A d \in Node : /\ v.rt[d].seqno = w.rt[d].seqno /\ v.rt[d].hops = w.rt[d].hops
                  /\ v.rt[d].flags = w.rt[d].flags
                  /\ v.rt[d].nexthop = w.rt[d].nexthop

LEMMA AgentFields ==
  ASSUME NEW v \in Agent
  PROVE  /\ v.seqno \in Nat /\ v.bid \in Nat /\ v.rt \in [Node -> Entry]
         /\ v.seen \subseteq Node \X Nat /\ v.rqueue \in Seq(InFlight)
         /\ \A d \in Node : v.rt[d] \in Entry
BY DEF Agent

LEMMA EntryFields ==
  ASSUME NEW e \in Entry
  PROVE  /\ e.seqno \in Nat /\ e.hops \in Nat /\ e.last_hop_count \in Nat
         /\ e.nexthop \in Node /\ e.flags \in {"UP", "DOWN", "IN_REPAIR"}
         /\ e.pclist \subseteq Node /\ e.req_cnt \in Nat /\ e.req_timeout \in BOOLEAN
         /\ e.req_last_ttl \in Nat
BY DEF Entry

(* A step may go on with a higher number and further packets. *)
LEMMA StepExtends ==
  ASSUME NEW nd \in [Node -> Agent], NEW u \in BOOLEAN, AgentsOK(nd, u), NEW n \in Node,
         NEW s, StepOK(n, s, nd, u), NEW t \in Steps, NEW O,
         s.nd.seqno <= t.nd.seqno, Even(t.nd.seqno), Alike(t.nd, s.nd),
         t.out \subseteq s.out \cup O, \A x \in O : x.from = n,
         OutOK(O, With(nd, n, t.nd), u)
  PROVE  StepOK(n, t, nd, u)
<1>1. s \in Steps /\ s.nd \in Agent /\ t.nd \in Agent /\ s.out \subseteq Message
      /\ t.out \subseteq Message
  BY DEF StepOK, Steps
<1> DEFINE ns == With(nd, n, s.nd)
           nt == With(nd, n, t.nd)
<1>2. AgentOK(n, s.nd, nd, u)
  BY DEF StepOK
<1>3. /\ s.nd.seqno \in Nat /\ t.nd.seqno \in Nat /\ nd[n].seqno \in Nat
      /\ \A d \in Node : /\ s.nd.rt[d] \in Entry /\ t.nd.rt[d] \in Entry
                         /\ nd[n].rt[d] \in Entry
  BY <1>1, AgentFields
<1>4. AgentOK(n, t.nd, nd, u)
  <2>1. nd[n].seqno <= t.nd.seqno
    BY <1>2, <1>3 DEF AgentOK
  <2>2. ASSUME NEW d \in Node
        PROVE  /\ EntryOK(t.nd.rt[d], nd[d].seqno, u)
               /\ ~u => Improves(nd[n].rt[d], t.nd.rt[d])
               /\ ~u => HopOK(n, d, t.nd.rt[d], nd)
    <3> DEFINE e == s.nd.rt[d]
               f == t.nd.rt[d]
    <3>1. /\ EntryOK(e, nd[d].seqno, u)
          /\ ~u => Improves(nd[n].rt[d], e)
          /\ ~u => HopOK(n, d, e, nd)
      BY <1>2, Zenon DEF AgentOK
    <3>2. f.seqno = e.seqno /\ f.hops = e.hops /\ f.flags = e.flags /\ f.nexthop = e.nexthop
      BY DEF Alike
    <3> HIDE DEF e, f
    <3>3. EntryOK(f, nd[d].seqno, u)
      BY <3>1, <3>2 DEF EntryOK
    <3>4. ~u => Improves(nd[n].rt[d], f)
      BY <3>1, <3>2 DEF Improves
    <3>5. ~u => HopOK(n, d, f, nd)
      BY <3>1, <3>2 DEF HopOK
    <3>. QED  BY <3>3, <3>4, <3>5 DEF f
  <2>. QED  BY <1>1, <2>1, <2>2 DEF AgentOK
<1>5. ns \in [Node -> Agent] /\ nt \in [Node -> Agent]
  BY <1>1 DEF With
<1>6. Grows(ns, nt, u)
  <2>1. ASSUME NEW m \in Node
        PROVE  /\ ns[m].seqno <= nt[m].seqno
               /\ \A d \in Node : Improves(ns[m].rt[d], nt[m].rt[d])
    <3>1. CASE m = n
      <4>1. ns[m] = s.nd /\ nt[m] = t.nd
        BY <3>1 DEF With
      <4>2. \A d \in Node : Improves(s.nd.rt[d], t.nd.rt[d])
        BY <1>3, EntryFields DEF Alike, Improves
      <4>. QED  BY <4>1, <4>2
    <3>2. CASE m # n
      <4>1. ns[m] = nd[m] /\ nt[m] = nd[m]
        BY <3>2 DEF With
      <4>2. /\ nd[m].seqno \in Nat
            /\ \A d \in Node : nd[m].rt[d].seqno \in Nat /\ nd[m].rt[d].hops \in Nat
        BY AgentFields, EntryFields
      <4>. QED  BY <4>1, <4>2 DEF Improves
    <3>. QED  BY <3>1, <3>2
  <2>. QED  BY <2>1 DEF Grows
<1>7. OutOK(s.out, ns, u)
  BY DEF StepOK
<1> HIDE DEF ns, nt
<1>8. ASSUME NEW x \in t.out PROVE x.from = n /\ PacketOK(x.from, x.pkt, nt, u)
  <2>1. x \in Message /\ x.from \in Node /\ x.pkt \in Packet
    BY <1>1 DEF Message
  <2>2. CASE x \in O
    BY <2>2 DEF OutOK, nt
  <2>3. CASE x \in s.out
    <3>1. x.from = n /\ PacketOK(x.from, x.pkt, ns, u)
      BY <1>7, <2>3 DEF OutOK, StepOK
    <3>. QED  BY <1>5, <1>6, <2>1, <3>1, PacketStays
  <2>. QED  BY <2>2, <2>3
<1>9. OutOK(t.out, With(nd, n, t.nd), u)
  BY <1>8 DEF OutOK, nt
<1>. QED  BY <1>4, <1>8, <1>9 DEF StepOK, Steps

(* An agent may stay as it is. *)
LEMMA StandsStill ==
  ASSUME NEW nd \in [Node -> Agent], NEW u \in BOOLEAN, AgentsOK(nd, u), NEW n \in Node
  PROVE  AgentOK(n, nd[n], nd, u)
<1>1. nd[n] \in Agent /\ nd[n].seqno \in Nat
      /\ \A d \in Node : nd[n].rt[d].seqno \in Nat /\ nd[n].rt[d].hops \in Nat
  BY AgentFields, EntryFields
<1>2. \A d \in Node : Improves(nd[n].rt[d], nd[n].rt[d])
  BY <1>1 DEF Improves
<1>. QED  BY <1>1, <1>2 DEF AgentOK, AgentsOK

(* A step that sends nothing yet. *)
LEMMA StepBegins ==
  ASSUME NEW nd \in [Node -> Agent], NEW u \in BOOLEAN, NEW n \in Node,
         NEW v, AgentOK(n, v, nd, u)
  PROVE  StepOK(n, Step(v), nd, u)
<1>1. Step(v) \in Steps /\ Step(v).nd = v /\ Step(v).out = {}
  BY DEF Step, Steps, AgentOK, Status
<1>. QED  BY <1>1 DEF StepOK, Steps, OutOK

LEMMA CheckKeeps ==
  ASSUME NEW s \in Steps, NEW c
  PROVE  Check(s, c) \in Steps /\ Check(s, c).nd = s.nd /\ Check(s, c).out = s.out
BY DEF Check, Steps, Status

LEMMA StepFields ==
  ASSUME NEW n, NEW s, NEW nd, NEW u, StepOK(n, s, nd, u)
  PROVE  /\ s \in Steps /\ s.nd \in Agent /\ s.out \subseteq Message /\ s.status \in Status
         /\ Even(s.nd.seqno)
BY DEF StepOK, AgentOK, Steps

LEMMA AlikeSame ==
  ASSUME NEW v, NEW w, v.rt = w.rt PROVE Alike(v, w)
BY DEF Alike

(* Packets that are as they should be may be sent. *)
LEMMA Sends ==
  ASSUME NEW nd \in [Node -> Agent], NEW u \in BOOLEAN, AgentsOK(nd, u), NEW n \in Node,
         NEW s, StepOK(n, s, nd, u), NEW O \in SUBSET Message, \A x \in O : x.from = n,
         OutOK(O, With(nd, n, s.nd), u),
         NEW t \in Steps, t.nd = s.nd, t.out = s.out \cup O
  PROVE  StepOK(n, t, nd, u)
<1>1. s \in Steps /\ s.nd \in Agent /\ s.out \subseteq Message /\ Even(s.nd.seqno)
  BY StepFields
<1>2. s.nd.seqno <= s.nd.seqno
  BY <1>1, AgentFields
<1>. QED  BY <1>1, <1>2, AlikeSame, StepExtends

LEMMA UnicastKeeps ==
  ASSUME NEW nd \in [Node -> Agent], NEW u \in BOOLEAN, AgentsOK(nd, u), NEW n \in Node,
         NEW s, StepOK(n, s, nd, u), NEW to \in Node, NEW p \in Packet,
         PacketOK(n, p, With(nd, n, s.nd), u)
  PROVE  StepOK(n, Unicast(s, n, to, p), nd, u) /\ Unicast(s, n, to, p).nd = s.nd
<1> DEFINE O == {[from |-> n, to |-> to, pkt |-> p]}
<1>1. O \in SUBSET Message
  BY DEF Message
<1>2. \A x \in O : x.from = n /\ x.pkt = p
  OBVIOUS
<1> DEFINE t == Unicast(s, n, to, p)
<1>3. t \in Steps /\ t.nd = s.nd /\ t.out = s.out \cup O
  <2>1. s \in Steps
    BY StepFields
  <2>. QED  BY <1>1, <2>1 DEF Unicast, Steps
<1> HIDE DEF O
<1>4. OutOK(O, With(nd, n, s.nd), u)
  BY <1>2 DEF OutOK
<1>5. \A x \in O : x.from = n
  BY <1>2
<1> HIDE DEF t
<1>6. StepOK(n, t, nd, u)
  BY <1>1, <1>3, <1>4, <1>5, Sends
<1>. QED  BY <1>3, <1>6 DEF t

LEMMA BroadcastKeeps ==
  ASSUME NEW nd \in [Node -> Agent], NEW u \in BOOLEAN, AgentsOK(nd, u), NEW n \in Node,
         NEW s, StepOK(n, s, nd, u), NEW p \in Packet,
         PacketOK(n, p, With(nd, n, s.nd), u)
  PROVE  StepOK(n, Broadcast(s, n, p), nd, u) /\ Broadcast(s, n, p).nd = s.nd
<1> DEFINE O == {[from |-> n, to |-> m, pkt |-> p] : m \in Nbr[n]}
<1>1. O \in SUBSET Message
  BY AodvAssumption DEF Message
<1>2. \A x \in O : x.from = n /\ x.pkt = p
  OBVIOUS
<1> DEFINE t == Broadcast(s, n, p)
<1>3. t \in Steps /\ t.nd = s.nd /\ t.out = s.out \cup O
  <2>1. s \in Steps
    BY StepFields
  <2>. QED  BY <1>1, <2>1 DEF Broadcast, Steps
<1> HIDE DEF O
<1>4. OutOK(O, With(nd, n, s.nd), u)
  BY <1>2 DEF OutOK
<1>5. \A x \in O : x.from = n
  BY <1>2
<1> HIDE DEF t
<1>6. StepOK(n, t, nd, u)
  BY <1>1, <1>3, <1>4, <1>5, Sends
<1>. QED  BY <1>3, <1>6 DEF t

(* Errors are about destinations to which there is no route. *)
LEMMA ErrorKeeps ==
  ASSUME NEW nd \in [Node -> Agent], NEW u \in BOOLEAN, AgentsOK(nd, u), NEW n \in Node,
         NEW s, StepOK(n, s, nd, u), NEW D \in SUBSET Node,
         \A d \in D : s.nd.rt[d].flags = "DOWN"
  PROVE  /\ StepOK(n, sendError(s, n, Unreachable(s.nd.rt, D)), nd, u)
         /\ sendError(s, n, Unreachable(s.nd.rt, D)).nd = s.nd
<1> DEFINE lost == Unreachable(s.nd.rt, D)
           p == [type |-> "RERR", ttl |-> 1, lost |-> lost]
           md == With(nd, n, s.nd)
<1>1. s.nd \in Agent /\ AgentOK(n, s.nd, nd, u)
  BY StepFields DEF StepOK
<1>2. /\ s.nd.seqno \in Nat /\ nd[n].seqno <= s.nd.seqno
      /\ \A d \in Node : s.nd.rt[d].seqno \in Nat /\ nd[d].seqno \in Nat
  BY <1>1, AgentFields, EntryFields DEF AgentOK
<1>3. \A d \in Node : md[d].seqno \in Nat /\ nd[d].seqno <= md[d].seqno
  BY <1>2 DEF With
<1>4. ASSUME NEW v \in lost
      PROVE  /\ v.dst \in D /\ v.seqno = s.nd.rt[v.dst].seqno
             /\ v = [dst |-> v.dst, seqno |-> s.nd.rt[v.dst].seqno]
             /\ v \in [dst : Node, seqno : Nat]
  BY <1>2 DEF Unreachable
<1> HIDE DEF lost, md
<1>5. ASSUME NEW v \in lost
      PROVE  v.seqno <= md[v.dst].seqno + 1 /\ (~u => Odd(v.seqno))
  <2>1. v.dst \in Node /\ s.nd.rt[v.dst].flags = "DOWN" /\ v.seqno = s.nd.rt[v.dst].seqno
    BY <1>4
  <2>2. EntryOK(s.nd.rt[v.dst], nd[v.dst].seqno, u)
    BY <1>1, <2>1, Zenon DEF AgentOK
  <2>. QED  BY <1>2, <1>3, <2>1, <2>2 DEF EntryOK
<1>6. \A v, w \in lost : v.dst = w.dst => v = w
  BY <1>4
<1>7. LostOK(lost, md, u)
  BY <1>5, <1>6 DEF LostOK
<1>8. p \in Rerr /\ p.type = "RERR" /\ p.lost = lost
  BY <1>4 DEF Rerr
<1>9. p \in Packet /\ PacketOK(n, p, md, u)
  BY <1>7, <1>8 DEF Packet, PacketOK
<1> HIDE DEF p
<1>10. StepOK(n, Broadcast(s, n, p), nd, u) /\ Broadcast(s, n, p).nd = s.nd
  <2>1. PacketOK(n, p, With(nd, n, s.nd), u)
    BY <1>9 DEF md
  <2>. QED  BY <1>9, <2>1, BroadcastKeeps
<1>. QED  BY <1>10 DEF sendError, p, lost

(* A packet of the buffer. *)
LEMMA BufferedData ==
  ASSUME NEW q \in Seq(InFlight), NEW p \in Range(q)
  PROVE  p \in InFlight /\ p \in Packet /\ p.type = "DATA" /\ p.dst \in Node /\ p.src \in Node
<1>1. p \in InFlight
  <2>1. PICK i \in DOMAIN q : p = q[i]
    BY DEF Range
  <2>. QED  BY <2>1, ElementOfSeq, LenProperties
<1>2. p \in Data
  BY <1>1 DEF InFlight
<1>3. p.type = "DATA" /\ p.dst \in Node /\ p.src \in Node
  BY <1>2 DEF Data
<1>. QED  BY <1>1, <1>2, <1>3 DEF Packet

LEMMA DataPacketOK ==
  ASSUME NEW p \in InFlight, NEW f, NEW nd, NEW u
  PROVE  p \in Packet /\ PacketOK(f, p, nd, u)
<1>1. p \in Data /\ p.type = "DATA"
  BY DEF InFlight, Data
<1>. QED  BY <1>1 DEF Packet, PacketOK, DataOK

(* Forwarding what waits for a route. *)
LEMMA FlushKeeps ==
  ASSUME NEW nd \in [Node -> Agent], NEW u \in BOOLEAN, AgentsOK(nd, u), NEW n \in Node,
         NEW s, StepOK(n, s, nd, u), NEW d \in Node
  PROVE  /\ StepOK(n, Flush(s, n, d), nd, u)
         /\ Flush(s, n, d).nd.rt = s.nd.rt /\ Flush(s, n, d).nd.seqno = s.nd.seqno
         /\ Flush(s, n, d).nd.seen = s.nd.seen
<1> DEFINE e == s.nd.rt[d]
           ps == Buffered(s.nd, d)
           O == {[from |-> n, to |-> e.nexthop, pkt |-> p] : p \in ps}
           c == Check(s, ps # {} => e.flags = "UP" /\ e.hops # INFINITY2)
           t == Flush(s, n, d)
<1>1. s \in Steps /\ s.nd \in Agent /\ s.out \subseteq Message /\ Even(s.nd.seqno)
      /\ e.nexthop \in Node
  BY StepFields, AgentFields, EntryFields
<1>2. \A p \in ps : p \in InFlight
  BY <1>1, AgentFields, BufferedData DEF Buffered
<1>3. \A x \in O : x \in Message /\ x.from = n /\ x.pkt \in InFlight
  BY <1>1, <1>2, DataPacketOK DEF Message
<1>4. c \in Steps /\ c.nd = s.nd /\ c.out = s.out
  BY <1>1, CheckKeeps
<1> HIDE DEF c
<1>5. t = [c EXCEPT !.out = @ \cup O, !.nd.rqueue = Unbuffer(@, {d})]
  BY DEF Flush, c
<1> HIDE DEF t, O
<1>6. Unbuffer(s.nd.rqueue, {d}) \in Seq(InFlight)
  BY <1>1, AgentFields, UnbufferType
<1>7. /\ t.out = s.out \cup O /\ t.status = c.status
      /\ t.nd = [s.nd EXCEPT !.rqueue = Unbuffer(@, {d})]
      /\ t = [nd |-> t.nd, out |-> t.out, status |-> t.status]
  BY <1>4, <1>5 DEF Steps
<1>8. /\ t.nd \in Agent /\ t.nd.rt = s.nd.rt /\ t.nd.seqno = s.nd.seqno
      /\ t.nd.seen = s.nd.seen
  BY <1>1, <1>6, <1>7 DEF Agent
<1>9. t \in Steps
  BY <1>1, <1>3, <1>4, <1>7, <1>8 DEF Steps
<1>10. OutOK(O, With(nd, n, t.nd), u)
  BY <1>3, DataPacketOK DEF OutOK
<1>11. s.nd.seqno <= t.nd.seqno /\ Even(t.nd.seqno) /\ Alike(t.nd, s.nd)
  BY <1>1, <1>8, AgentFields, AlikeSame
<1>12. StepOK(n, t, nd, u)
  BY <1>3, <1>7, <1>9, <1>10, <1>11, StepExtends
<1>. QED  BY <1>8, <1>12 DEF t

(* What a request leaves of an entry. *)
LEMMA RequestEntry ==
  ASSUME NEW e \in Entry
  PROVE  /\ RequestTtl(e) \in Nat
         /\ Asked(e) \in Entry /\ GivenUp(e) \in Entry
         /\ Asked(e).seqno = e.seqno /\ GivenUp(e).seqno = e.seqno
         /\ Asked(e).hops = e.hops /\ GivenUp(e).hops = e.hops
         /\ Asked(e).flags = e.flags /\ GivenUp(e).flags = e.flags
         /\ Asked(e).nexthop = e.nexthop /\ GivenUp(e).nexthop = e.nexthop
<1>1. e.req_last_ttl \in Nat /\ e.last_hop_count \in Nat /\ e.req_cnt \in Nat
  BY EntryFields
<1>2. LastTtl(e) \in Nat
  BY <1>1, MaxPair DEF LastTtl
<1>3. RequestTtl(e) \in Nat
  BY <1>2, AodvAssumption DEF RequestTtl
<1> HIDE DEF Entry
<1>4. DEFINE c == IF IsNetworkWide(e) THEN e.req_cnt + 1 ELSE e.req_cnt
             r == RequestTtl(e)
<1>5. c \in Nat /\ r \in Nat
  BY <1>1, <1>3
<1>6. Asked(e) = [e EXCEPT !.req_last_ttl = r, !.req_timeout = TRUE, !.req_cnt = c]
  BY DEF Asked
<1> HIDE DEF c, r
<1>. QED  BY <1>3, <1>5, <1>6 DEF Entry, GivenUp

(* The requests of an agent carry numbers of its own. *)
LEMMA RequestsKeep ==
  ASSUME NEW nd \in [Node -> Agent], NEW u \in BOOLEAN, AgentsOK(nd, u), NEW n \in Node,
         NEW s, StepOK(n, s, nd, u), NEW D \in SUBSET Node, NEW due
  PROVE  StepOK(n, sendRequests(s, n, D, due), nd, u)
<1> DEFINE rt == s.nd.rt
           now == {d \in D : rt[d].flags # "UP" /\ (rt[d].req_timeout => d \in due)}
           quit == {d \in now : rt[d].req_cnt > RREQ_RETRIES}
           ask == now \ quit
           Nth(d) == Cardinality({c \in ask : c <= d})
           Request(d) == [type |-> "RREQ", ttl |-> RequestTtl(rt[d]), hop_count |-> 1,
                          bcast_id |-> s.nd.bid + Nth(d) - 1, dst |-> d,
                          dst_seqno |-> rt[d].seqno,
                          src |-> n, src_seqno |-> s.nd.seqno + 2 * Nth(d)]
           rt2 == [d \in Node |-> IF d \in ask THEN Asked(rt[d])
                                  ELSE IF d \in quit THEN GivenUp(rt[d])
                                  ELSE rt[d]]
           O == {[from |-> n, to |-> m, pkt |-> Request(d)] : d \in ask, m \in Nbr[n]}
           c == Check(s, \A d \in D : rt[d].flags = "UP" => rt[d].hops # INFINITY2)
           v == [s.nd EXCEPT !.rt = rt2, !.seqno = @ + 2 * Cardinality(ask),
                             !.bid = @ + Cardinality(ask), !.rqueue = Unbuffer(@, quit)]
           t == sendRequests(s, n, D, due)
<1>1. /\ s \in Steps /\ s.nd \in Agent /\ s.out \subseteq Message /\ Even(s.nd.seqno)
      /\ s.nd.seqno \in Nat /\ s.nd.bid \in Nat /\ rt \in [Node -> Entry]
      /\ s.nd.rqueue \in Seq(InFlight)
      /\ AgentOK(n, s.nd, nd, u)
  BY StepFields, AgentFields DEF StepOK
<1>2. c \in Steps /\ c.nd = s.nd /\ c.out = s.out
  BY <1>1, CheckKeeps
<1>3. t = [c EXCEPT !.nd = v, !.out = @ \cup O]
  BY DEF sendRequests
<1> HIDE DEF c
<1>4. t.nd = v /\ t.out = s.out \cup O /\ t.status = c.status
      /\ t = [nd |-> t.nd, out |-> t.out, status |-> t.status]
  <2> HIDE DEF v, O, t
  <2>. QED  BY <1>2, <1>3 DEF Steps
<1> HIDE DEF t
<1>5. ask \in SUBSET Node /\ quit \in SUBSET Node
  OBVIOUS
<1> HIDE DEF ask, quit
<1>6. IsFiniteSet(ask) /\ Cardinality(ask) \in Nat
  <2>1. IsFiniteSet(ask)
    BY <1>5, AodvAssumption, FS_Subset, Zenon
  <2>. QED  BY <2>1, FS_CardinalityType
<1>7. ASSUME NEW d \in ask
      PROVE  Nth(d) \in Nat /\ 1 <= Nth(d) /\ Nth(d) <= Cardinality(ask)
  <2> DEFINE A == {b \in ask : b <= d}
  <2>1. A \in SUBSET ask
    OBVIOUS
  <2>2. d \in A
    <3>1. d \in Nat
      BY <1>5, AodvAssumption
    <3>. QED  BY <3>1
  <2> HIDE DEF A
  <2>3. IsFiniteSet(A) /\ Cardinality(A) <= Cardinality(ask)
    BY <1>6, <2>1, FS_Subset, Zenon
  <2>4. Cardinality(A) \in Nat /\ Cardinality(A) # 0
    BY <2>2, <2>3, FS_CardinalityType, FS_EmptySet
  <2>5. Cardinality(A) \in Nat /\ 1 <= Cardinality(A) /\ Cardinality(A) <= Cardinality(ask)
    BY <2>3, <2>4
  <2>. QED  BY <2>5 DEF A
<1> HIDE DEF Nth
<1>8. rt2 \in [Node -> Entry]
  <2>1. \A d \in Node : rt[d] \in Entry
    BY <1>1
  <2>2. \A d \in Node : Asked(rt[d]) \in Entry /\ GivenUp(rt[d]) \in Entry
    BY <2>1, RequestEntry
  <2>. QED  BY <2>1, <2>2
<1>9. Unbuffer(s.nd.rqueue, quit) \in Seq(InFlight)
  BY <1>1, UnbufferType
<1>10. /\ s.nd.seqno + 2 * Cardinality(ask) \in Nat
       /\ s.nd.bid + Cardinality(ask) \in Nat
       /\ s.nd.seqno <= s.nd.seqno + 2 * Cardinality(ask)
       /\ Even(s.nd.seqno + 2 * Cardinality(ask))
  BY <1>1, <1>6 DEF Even
<1>11. \A d \in Node : /\ rt2[d].seqno = rt[d].seqno /\ rt2[d].hops = rt[d].hops
                       /\ rt2[d].flags = rt[d].flags /\ rt2[d].nexthop = rt[d].nexthop
  <2>1. ASSUME NEW d \in Node
        PROVE  /\ rt2[d].seqno = rt[d].seqno /\ rt2[d].hops = rt[d].hops
               /\ rt2[d].flags = rt[d].flags /\ rt2[d].nexthop = rt[d].nexthop
    <3>1. rt[d] \in Entry
      BY <1>1
    <3>2. rt2[d] \in {Asked(rt[d]), GivenUp(rt[d]), rt[d]}
      OBVIOUS
    <3>. QED  BY <3>1, <3>2, RequestEntry
  <2>. QED  BY <2>1
<1> HIDE DEF rt2
<1>12. /\ v \in Agent /\ v.rt = rt2 /\ v.seqno = s.nd.seqno + 2 * Cardinality(ask)
  BY <1>1, <1>8, <1>9, <1>10 DEF Agent
<1>13. Alike(v, s.nd)
  BY <1>11, <1>12 DEF Alike
<1> HIDE DEF v
<1>14. ASSUME NEW d \in ask
       PROVE  /\ Request(d) \in Packet
              /\ PacketOK(n, Request(d), With(nd, n, v), u)
  <2>1. /\ d \in Node /\ rt[d] \in Entry /\ rt[d].seqno \in Nat
        /\ RequestTtl(rt[d]) \in Nat
    BY <1>1, <1>5, EntryFields, RequestEntry
  <2>2. s.nd.bid + Nth(d) - 1 \in Nat /\ s.nd.seqno + 2 * Nth(d) \in Nat
    BY <1>1, <1>7
  <2>3. Request(d) \in Rreq
    BY <2>1, <2>2 DEF Rreq
  <2>4. With(nd, n, v)[n] = v
    BY DEF With
  <2>5. /\ 0 < s.nd.seqno + 2 * Nth(d) /\ Even(s.nd.seqno + 2 * Nth(d))
        /\ s.nd.seqno + 2 * Nth(d) <= v.seqno
    BY <1>1, <1>6, <1>7, <1>12 DEF Even
  <2>6. rt[d].seqno <= With(nd, n, v)[d].seqno + 1
    <3>1. EntryOK(rt[d], nd[d].seqno, u)
      BY <1>1, <2>1, Zenon DEF AgentOK
    <3>2. rt[d].seqno <= nd[d].seqno + 1
      BY <3>1 DEF EntryOK
    <3>3. nd[n].seqno <= v.seqno /\ nd[n].seqno \in Nat /\ nd[d].seqno \in Nat
          /\ v.seqno \in Nat
      <4>1. nd[n].seqno <= s.nd.seqno
        BY <1>1 DEF AgentOK
      <4>2. nd[n].seqno \in Nat /\ nd[d].seqno \in Nat
        BY <2>1, AgentFields
      <4>. QED  BY <1>1, <1>10, <1>12, <4>1, <4>2
    <3>4. CASE d = n
      BY <2>1, <2>4, <3>2, <3>3, <3>4
    <3>5. CASE d # n
      BY <2>1, <3>2, <3>5 DEF With
    <3>. QED  BY <3>4, <3>5
  <2>7. RreqOK(n, Request(d), With(nd, n, v), u)
    BY <2>4, <2>5, <2>6 DEF RreqOK
  <2>. QED  BY <2>3, <2>7 DEF Packet, PacketOK
<1> HIDE DEF Request
<1>15. \A x \in O : x \in Message /\ x.from = n /\ \E d \in ask : x.pkt = Request(d)
  BY <1>14, AodvAssumption DEF Message
<1> HIDE DEF O
<1>16. t \in Steps
  BY <1>1, <1>2, <1>4, <1>12, <1>15 DEF Steps
<1>17. OutOK(O, With(nd, n, t.nd), u)
  BY <1>4, <1>14, <1>15 DEF OutOK
<1>18. StepOK(n, t, nd, u)
  BY <1>4, <1>10, <1>12, <1>13, <1>15, <1>16, <1>17, StepExtends
<1>. QED  BY <1>18 DEF t

-----------------------------------------------------------------------------
(* Requests and replies *)

(* A route from a neighbour f that is closer to d may be taken over. *)
LEMMA RouteLearnt ==
  ASSUME NEW nd \in [Node -> Agent], NEW u \in BOOLEAN, AgentsOK(nd, u), NEW n \in Node,
         NEW d \in Node, NEW f \in Node, NEW k \in Nat, NEW h \in Nat,
         0 < k, Even(k), k <= nd[d].seqno, Fresher(nd[n].rt[d], k, h),
         ~u => f = d \/ Better(nd[f].rt[d], k, h),
         NEW v \in Agent, v.seqno = nd[n].seqno,
         \A c \in Node \ {d} : v.rt[c] = nd[n].rt[c],
         v.rt[d].seqno = k, v.rt[d].hops = h, v.rt[d].flags = "UP", v.rt[d].nexthop = f
  PROVE  AgentOK(n, v, nd, u)
<1>1. AgentOK(n, nd[n], nd, u)
  BY StandsStill
<1>2. nd[n].seqno <= v.seqno /\ Even(v.seqno)
  BY <1>1 DEF AgentOK
<1>3. ASSUME NEW c \in Node
      PROVE  /\ EntryOK(v.rt[c], nd[c].seqno, u)
             /\ ~u => Improves(nd[n].rt[c], v.rt[c])
             /\ ~u => HopOK(n, c, v.rt[c], nd)
  <2>1. CASE c # d
    <3>1. v.rt[c] = nd[n].rt[c]
      BY <2>1
    <3>2. /\ EntryOK(nd[n].rt[c], nd[c].seqno, u)
          /\ ~u => Improves(nd[n].rt[c], nd[n].rt[c])
          /\ ~u => HopOK(n, c, nd[n].rt[c], nd)
      BY <1>1, Zenon DEF AgentOK
    <3>. QED  BY <3>1, <3>2
  <2>2. CASE c = d
    <3>1. nd[n].rt[d].seqno \in Nat /\ nd[n].rt[d].hops \in Nat /\ nd[d].seqno \in Nat
      BY AgentFields, EntryFields
    <3>2. EntryOK(v.rt[d], nd[d].seqno, u)
      BY <3>1 DEF EntryOK
    <3>3. Improves(nd[n].rt[d], v.rt[d])
      BY <3>1 DEF Improves, Fresher
    <3>4. ~u => HopOK(n, d, v.rt[d], nd)
      BY DEF HopOK
    <3>. QED  BY <2>2, <3>2, <3>3, <3>4
  <2>. QED  BY <2>1, <2>2
<1>. QED  BY <1>2, <1>3 DEF AgentOK

(* The way back to the source of a request. *)
LEMMA ReverseKeeps ==
  ASSUME NEW nd \in [Node -> Agent], NEW u \in BOOLEAN, AgentsOK(nd, u), NEW n \in Node,
         NEW from \in Node, NEW q \in Rreq, RreqOK(from, q, nd, u),
         NEW w \in Agent, w.seqno = nd[n].seqno, w.rt = nd[n].rt
  PROVE  LET s == ReverseRoute(Step(w), n, from, q)
         IN  /\ StepOK(n, s, nd, u)
             /\ s.nd.seqno = nd[n].seqno
             /\ Better(s.nd.rt[q.src], q.src_seqno, q.hop_count + 1)
<1> DEFINE d == q.src
           e == nd[n].rt[d]
           up == rt_update(e, q.src_seqno, q.hop_count, from)
           reset == [up EXCEPT !.req_cnt = 0, !.req_timeout = FALSE,
                               !.req_last_ttl = q.hop_count]
           f == IF e.req_timeout THEN reset ELSE up
           v == [w EXCEPT !.rt[d] = f]
           s == ReverseRoute(Step(w), n, from, q)
<1>1. d \in Node /\ q.src_seqno \in Nat /\ q.hop_count \in Nat
  BY DEF Rreq
<1>2. e \in Entry /\ e.seqno \in Nat /\ e.hops \in Nat
  BY <1>1, AgentFields, EntryFields
<1>3. Step(w).nd = w
  BY DEF Step
<1>4. AgentOK(n, w, nd, u)
  <2>1. AgentOK(n, nd[n], nd, u)
    BY StandsStill
  <2>. QED  BY <2>1 DEF AgentOK
<1>5. CASE ~Fresher(e, q.src_seqno, q.hop_count)
  <2>1. s = Step(w)
    BY <1>3, <1>5 DEF ReverseRoute
  <2>2. Better(e, q.src_seqno, q.hop_count + 1)
    BY <1>1, <1>2, <1>5 DEF Fresher, Better
  <2>. QED  BY <1>3, <1>4, <2>1, <2>2, StepBegins
<1>6. CASE Fresher(e, q.src_seqno, q.hop_count)
  <2>1. up \in Entry /\ up.seqno = q.src_seqno /\ up.hops = q.hop_count
        /\ up.flags = "UP" /\ up.nexthop = from
    BY <1>1, <1>2 DEF rt_update, Entry
  <2> HIDE DEF up
  <2>2. reset \in Entry /\ reset.seqno = q.src_seqno /\ reset.hops = q.hop_count
        /\ reset.flags = "UP" /\ reset.nexthop = from
    BY <1>1, <2>1 DEF Entry
  <2> HIDE DEF reset
  <2>3. f \in Entry /\ f.seqno = q.src_seqno /\ f.hops = q.hop_count
        /\ f.flags = "UP" /\ f.nexthop = from
    BY <2>1, <2>2
  <2>4. s = Flush([Step(w) EXCEPT !.nd.rt[d] = f], n, d)
    BY <1>3, <1>6 DEF ReverseRoute, up, reset
  <2> HIDE DEF f
  <2>5. [Step(w) EXCEPT !.nd.rt[d] = f] = Step(v)
    BY DEF Step
  <2>6. /\ v \in Agent /\ v.seqno = nd[n].seqno /\ v.rt[d] = f
        /\ \A c \in Node \ {d} : v.rt[c] = nd[n].rt[c]
    <3>1. w.rt \in [Node -> Entry]
      BY AgentFields
    <3>2. [w.rt EXCEPT ![d] = f] \in [Node -> Entry]
      BY <2>3, <3>1
    <3>3. v.rt = [w.rt EXCEPT ![d] = f] /\ v \in Agent /\ v.seqno = w.seqno
      BY <3>2 DEF Agent
    <3>. QED  BY <1>1, <3>1, <3>3
  <2> HIDE DEF v
  <2>7. AgentOK(n, v, nd, u)
    <3>1. /\ 0 < q.src_seqno /\ Even(q.src_seqno) /\ q.src_seqno <= nd[d].seqno
          /\ ~u => from = d \/ Better(nd[from].rt[d], q.src_seqno, q.hop_count)
      BY DEF RreqOK
    <3> HIDE DEF d, e
    <3>2. /\ v.rt[d].seqno = q.src_seqno /\ v.rt[d].hops = q.hop_count
          /\ v.rt[d].flags = "UP" /\ v.rt[d].nexthop = from
      BY <2>3, <2>6
    <3>3. Fresher(nd[n].rt[d], q.src_seqno, q.hop_count)
      BY <1>6 DEF e
    <3>. QED  BY <1>1, <2>6, <3>1, <3>2, <3>3, RouteLearnt
  <2>8. StepOK(n, Step(v), nd, u) /\ Step(v).nd = v
    BY <2>7, StepBegins DEF Step
  <2>9. StepOK(n, s, nd, u) /\ s.nd.rt = v.rt /\ s.nd.seqno = v.seqno
    <3> HIDE DEF s
    <3>1. s = Flush(Step(v), n, d)
      BY <2>4, <2>5, Zenon
    <3> HIDE DEF d
    <3>. QED  BY <1>1, <2>8, <3>1, FlushKeeps
  <2>10. Better(v.rt[d], q.src_seqno, q.hop_count + 1)
    BY <1>1, <2>3, <2>6 DEF Better
  <2>. QED  BY <2>6, <2>9, <2>10
<1>. QED  BY <1>5, <1>6

(* A precursor is noted. *)
LEMMA PrecursorKeeps ==
  ASSUME NEW nd \in [Node -> Agent], NEW u \in BOOLEAN, AgentsOK(nd, u), NEW n \in Node,
         NEW s, StepOK(n, s, nd, u), NEW d \in Node, NEW m \in Node
  PROVE  StepOK(n, pc_insert(s, d, m), nd, u)
<1> DEFINE t == pc_insert(s, d, m)
           e == s.nd.rt[d]
           f == [e EXCEPT !.pclist = @ \cup {m}]
           rt == [s.nd.rt EXCEPT ![d] = f]
<1>1. /\ s \in Steps /\ s.nd \in Agent /\ s.out \subseteq Message /\ Even(s.nd.seqno)
      /\ s.nd.seqno \in Nat /\ s.nd.rt \in [Node -> Entry] /\ e \in Entry
  BY StepFields, AgentFields
<1>2. /\ f \in Entry /\ f.seqno = e.seqno /\ f.hops = e.hops /\ f.flags = e.flags
      /\ f.nexthop = e.nexthop
  BY <1>1 DEF Entry
<1>3. t = [s EXCEPT !.nd = [s.nd EXCEPT !.rt = rt]]
  BY <1>1 DEF pc_insert, Steps, Agent
<1> HIDE DEF f, e, t
<1>4. /\ rt \in [Node -> Entry] /\ rt[d] = f
      /\ \A c \in Node : c = d \/ rt[c] = s.nd.rt[c]
  BY <1>1, <1>2
<1> HIDE DEF rt
<1>5. t \in Steps /\ t.nd.seqno = s.nd.seqno /\ t.nd.rt = rt /\ t.out = s.out
  BY <1>1, <1>3, <1>4 DEF Steps, Agent
<1>6. Alike(t.nd, s.nd)
  BY <1>2, <1>4, <1>5 DEF Alike, e
<1>7. OutOK({}, With(nd, n, t.nd), u) /\ \A x \in {} : x.from = n
  BY DEF OutOK
<1>8. s.nd.seqno <= t.nd.seqno /\ Even(t.nd.seqno) /\ t.out \subseteq s.out \cup {}
  BY <1>1, <1>5
<1>9. StepOK(n, t, nd, u)
  BY <1>5, <1>6, <1>7, <1>8, StepExtends
<1>. QED  BY <1>9 DEF t

(* The handler of requests. *)
LEMMA RecvRequestKeeps ==
  ASSUME NEW nd \in [Node -> Agent], NEW u \in BOOLEAN, AgentsOK(nd, u), NEW n \in Node,
         NEW from \in Node, NEW q \in Rreq, RreqOK(from, q, nd, u)
  PROVE  StepOK(n, recvRequest(nd[n], n, from, q), nd, u)
<1> DEFINE w == [nd[n] EXCEPT !.seen = @ \cup {<<q.src, q.bcast_id>>}]
           s == ReverseRoute(Step(w), n, from, q)
           r == s.nd.rt[q.dst]
           own == ReplySeqno(s.nd.seqno, q.dst_seqno)
           res == recvRequest(nd[n], n, from, q)
           ms == With(nd, n, s.nd)
<1>1. /\ q.src \in Node /\ q.dst \in Node /\ q.src_seqno \in Nat /\ q.dst_seqno \in Nat
      /\ q.hop_count \in Nat /\ q.bcast_id \in Nat
  BY DEF Rreq
<1>2. w \in Agent /\ w.seqno = nd[n].seqno /\ w.rt = nd[n].rt
  <2> DEFINE seen == nd[n].seen \cup {<<q.src, q.bcast_id>>}
  <2>1. nd[n] \in Agent /\ seen \subseteq Node \X Nat
    BY <1>1, AgentFields
  <2>2. w = [nd[n] EXCEPT !.seen = seen]
    OBVIOUS
  <2> HIDE DEF seen, w
  <2>. QED  BY <2>1, <2>2 DEF Agent
<1> HIDE DEF w
<1>3. /\ StepOK(n, s, nd, u) /\ s.nd.seqno = nd[n].seqno
      /\ Better(s.nd.rt[q.src], q.src_seqno, q.hop_count + 1)
  BY <1>2, ReverseKeeps
<1>4. /\ s \in Steps /\ s.nd \in Agent /\ s.out \subseteq Message /\ Even(s.nd.seqno)
      /\ s.nd.seqno \in Nat /\ s.nd.rt \in [Node -> Entry]
      /\ r \in Entry /\ r.seqno \in Nat /\ r.hops \in Nat /\ r.nexthop \in Node
      /\ s.nd.rt[q.src] \in Entry /\ s.nd.rt[q.src].nexthop \in Node
  BY <1>1, <1>3, StepFields, AgentFields, EntryFields
<1>5. EntryOK(r, nd[q.dst].seqno, u)
  BY <1>1, <1>3, Zenon DEF StepOK, AgentOK
<1>6. /\ ms[n] = s.nd
      /\ \A m \in Node : ms[m].seqno = nd[m].seqno /\ nd[m].seqno \in Nat
  BY <1>3, AgentFields DEF With
<1>7. AgentOK(n, nd[n], nd, u)
  BY StandsStill
<1>8. CASE q.src = n \/ <<q.src, q.bcast_id>> \in nd[n].seen
  BY <1>7, <1>8, StepBegins DEF recvRequest
<1>9. CASE ~(q.src = n \/ <<q.src, q.bcast_id>> \in nd[n].seen)
  <2>1. res = IF q.dst = n
              THEN sendReply([s EXCEPT !.nd.seqno = own], n, q.src, 1, n, own)
              ELSE IF CanReply(r, q)
              THEN pc_insert(pc_insert(sendReply(s, n, q.src, r.hops + 1, q.dst, r.seqno),
                                       q.dst, s.nd.rt[q.src].nexthop), q.src, r.nexthop)
              ELSE IF q.ttl = 0 THEN s
              ELSE Broadcast(s, n, [q EXCEPT !.hop_count = @ + 1,
                                             !.dst_seqno = Max({@, r.seqno})])
    BY <1>9 DEF recvRequest, w
  <2> HIDE DEF s, res
  <2>2. CASE q.dst = n
    <3> DEFINE s1 == [s EXCEPT !.nd.seqno = own]
               v == [s.nd EXCEPT !.seqno = own]
               p == [type |-> "RREP", ttl |-> NETWORK_DIAMETER, ipdst |-> q.src,
                     hop_count |-> 1, dst |-> n, dst_seqno |-> own]
    <3>1. own \in Nat /\ Even(own) /\ s.nd.seqno <= own /\ 0 < own
      BY <1>1, <1>4, MaxPair DEF ReplySeqno, Even
    <3> HIDE DEF own
    <3>2. v \in Agent /\ v.seqno = own /\ v.rt = s.nd.rt
      BY <1>4, <3>1 DEF Agent
    <3>3. s1 \in Steps /\ s1.nd = v /\ s1.out = s.out
      BY <1>4, <3>2 DEF Steps
    <3> HIDE DEF v, s1
    <3>4. StepOK(n, s1, nd, u)
      <4> DEFINE O == {}
      <4>1. OutOK(O, With(nd, n, s1.nd), u) /\ \A x \in O : x.from = n
        BY DEF OutOK
      <4>2. /\ s.nd.seqno <= s1.nd.seqno /\ Even(s1.nd.seqno) /\ Alike(s1.nd, s.nd)
            /\ s1.out \subseteq s.out \cup O
        BY <3>1, <3>2, <3>3, AlikeSame
      <4> HIDE DEF O
      <4>. QED  BY <1>3, <3>3, <4>1, <4>2, StepExtends
    <3>5. p \in Packet /\ PacketOK(n, p, With(nd, n, s1.nd), u)
      <4>1. p \in Rrep
        BY <1>1, <3>1, AodvAssumption DEF Rrep
      <4>2. With(nd, n, s1.nd)[n].seqno = own
        BY <3>2, <3>3 DEF With
      <4>3. RrepOK(n, p, With(nd, n, s1.nd), u)
        BY <3>1, <4>2 DEF RrepOK
      <4>. QED  BY <4>1, <4>3 DEF Packet, PacketOK
    <3>6. s1.nd.rt[q.src].nexthop \in Node
      BY <1>4, <3>2, <3>3
    <3>7. res = Unicast(s1, n, s1.nd.rt[q.src].nexthop, p)
      BY <2>1, <2>2 DEF sendReply, s1
    <3> HIDE DEF p
    <3>. QED  BY <3>4, <3>5, <3>6, <3>7, UnicastKeeps DEF res
  <2>3. CASE q.dst # n /\ CanReply(r, q)
    <3> DEFINE p == [type |-> "RREP", ttl |-> NETWORK_DIAMETER, ipdst |-> q.src,
                     hop_count |-> r.hops + 1, dst |-> q.dst, dst_seqno |-> r.seqno]
               a == s.nd.rt[q.src].nexthop
               b == r.nexthop
               s1 == Unicast(s, n, a, p)
    <3>1. 0 < r.seqno /\ Even(r.seqno) /\ r.seqno <= nd[q.dst].seqno
      BY <1>5, <2>3 DEF EntryOK, CanReply
    <3>2. Better(r, r.seqno, r.hops + 1)
      BY <1>4 DEF Better
    <3>3. p \in Packet /\ PacketOK(n, p, ms, u)
      <4>1. p \in Rrep
        BY <1>1, <1>4, AodvAssumption DEF Rrep
      <4>2. RrepOK(n, p, ms, u)
        BY <1>1, <1>6, <3>1, <3>2 DEF RrepOK
      <4>. QED  BY <4>1, <4>2 DEF Packet, PacketOK
    <3>4. res = pc_insert(pc_insert(s1, q.dst, a), q.src, b)
      BY <2>1, <2>3 DEF sendReply
    <3> HIDE DEF p
    <3>5. a \in Node /\ b \in Node
      BY <1>4
    <3> HIDE DEF a, b
    <3>6. StepOK(n, s1, nd, u)
      BY <1>3, <3>3, <3>5, UnicastKeeps
    <3> HIDE DEF s1
    <3>7. StepOK(n, pc_insert(s1, q.dst, a), nd, u)
      BY <1>1, <3>5, <3>6, PrecursorKeeps
    <3>8. StepOK(n, pc_insert(pc_insert(s1, q.dst, a), q.src, b), nd, u)
      BY <1>1, <3>5, <3>7, PrecursorKeeps
    <3>. QED  BY <3>4, <3>8 DEF res
  <2>4. CASE q.dst # n /\ ~CanReply(r, q) /\ q.ttl = 0
    BY <1>3, <2>1, <2>4 DEF res
  <2>5. CASE q.dst # n /\ ~CanReply(r, q) /\ q.ttl # 0
    <3> DEFINE k == Max({q.dst_seqno, r.seqno})
               p == [q EXCEPT !.hop_count = @ + 1, !.dst_seqno = k]
    <3>1. k \in Nat /\ k <= nd[q.dst].seqno + 1
      <4>1. q.dst_seqno <= nd[q.dst].seqno + 1 /\ r.seqno <= nd[q.dst].seqno + 1
        BY <1>5 DEF EntryOK, RreqOK
      <4>. QED  BY <1>1, <1>4, <4>1, MaxPair
    <3>2. res = Broadcast(s, n, p)
      BY <2>1, <2>5
    <3>. DEFINE h == q.hop_count + 1
    <3>h. h \in Nat /\ p = [q EXCEPT !.hop_count = h, !.dst_seqno = k]
      BY <1>1
    <3> HIDE DEF k, h, p
    <3>3. /\ p \in Rreq /\ p.type = "RREQ" /\ p.src = q.src /\ p.src_seqno = q.src_seqno
          /\ p.dst = q.dst /\ p.dst_seqno = k /\ p.hop_count = q.hop_count + 1
      BY <3>h, <3>1 DEF Rreq, h
    <3>4. RreqOK(n, p, ms, u)
      BY <1>1, <1>3, <1>6, <3>1, <3>3 DEF RreqOK
    <3>5. p \in Packet /\ PacketOK(n, p, ms, u)
      BY <3>3, <3>4 DEF Packet, PacketOK
    <3>6. StepOK(n, Broadcast(s, n, p), nd, u)
      BY <1>3, <3>5, BroadcastKeeps
    <3>. QED  BY <3>2, <3>6 DEF res
  <2>. QED  BY <2>2, <2>3, <2>4, <2>5
<1>. QED  BY <1>8, <1>9

(* The handler of replies. *)
LEMMA RecvReplyKeeps ==
  ASSUME NEW nd \in [Node -> Agent], NEW u \in BOOLEAN, AgentsOK(nd, u), NEW n \in Node,
         NEW from \in Node, NEW r \in Rrep, RrepOK(from, r, nd, u)
  PROVE  StepOK(n, recvReply(nd[n], n, from, r), nd, u)
<1> DEFINE d == r.dst
           e == nd[n].rt[d]
           up == rt_update(e, r.dst_seqno, r.hop_count, from)
           new == [up EXCEPT !.req_cnt = 0, !.req_timeout = FALSE,
                             !.req_last_ttl = r.hop_count]
           v == [nd[n] EXCEPT !.rt[d] = new]
           s == Flush(Step(v), n, d)
           e0 == s.nd.rt[r.ipdst]
           p == [r EXCEPT !.hop_count = @ + 1]
           sent1 == IF r.ttl = 0 THEN s ELSE Unicast(s, n, e0.nexthop, p)
           c == Check(sent1, e0.flags = "UP")
           res == recvReply(nd[n], n, from, r)
<1>1. d \in Node /\ r.ipdst \in Node /\ r.dst_seqno \in Nat /\ r.hop_count \in Nat
  BY DEF Rrep
<1>2. nd[n] \in Agent /\ e \in Entry
  BY <1>1, AgentFields
<1>3. CASE ~Fresher(e, r.dst_seqno, r.hop_count)
  <2>1. AgentOK(n, nd[n], nd, u)
    BY StandsStill
  <2>. QED  BY <1>3, <2>1, StepBegins DEF recvReply
<1>4. CASE Fresher(e, r.dst_seqno, r.hop_count)
  <2>0. res = IF r.ipdst = n \/ e0.hops = INFINITY2 THEN s ELSE pc_insert(c, d, e0.nexthop)
    BY <1>4 DEF recvReply
  <2> HIDE DEF res
  <2>1. up \in Entry /\ up.seqno = r.dst_seqno /\ up.hops = r.hop_count
        /\ up.flags = "UP" /\ up.nexthop = from
    BY <1>1, <1>2 DEF rt_update, Entry
  <2> HIDE DEF up
  <2>2. new \in Entry /\ new.seqno = r.dst_seqno /\ new.hops = r.hop_count
        /\ new.flags = "UP" /\ new.nexthop = from
    BY <1>1, <2>1 DEF Entry
  <2> HIDE DEF new
  <2>3. /\ v \in Agent /\ v.seqno = nd[n].seqno /\ v.rt[d] = new
        /\ \A b \in Node \ {d} : v.rt[b] = nd[n].rt[b]
    <3>1. nd[n].rt \in [Node -> Entry]
      BY <1>2, AgentFields
    <3>2. [nd[n].rt EXCEPT ![d] = new] \in [Node -> Entry]
      BY <2>2, <3>1
    <3>3. v.rt = [nd[n].rt EXCEPT ![d] = new] /\ v \in Agent /\ v.seqno = nd[n].seqno
      BY <1>2, <3>2 DEF Agent
    <3>. QED  BY <1>1, <3>1, <3>3
  <2> HIDE DEF v
  <2>4. AgentOK(n, v, nd, u)
    <3>1. /\ 0 < r.dst_seqno /\ Even(r.dst_seqno) /\ r.dst_seqno <= nd[d].seqno
          /\ ~u => from = d \/ Better(nd[from].rt[d], r.dst_seqno, r.hop_count)
      BY DEF RrepOK
    <3>2. Fresher(nd[n].rt[d], r.dst_seqno, r.hop_count)
      BY <1>4
    <3> HIDE DEF d
    <3>3. /\ v.rt[d].seqno = r.dst_seqno /\ v.rt[d].hops = r.hop_count
          /\ v.rt[d].flags = "UP" /\ v.rt[d].nexthop = from
      BY <2>2, <2>3
    <3>. QED  BY <1>1, <2>3, <3>1, <3>2, <3>3, RouteLearnt
  <2>5. StepOK(n, Step(v), nd, u) /\ Step(v).nd = v
    BY <2>4, StepBegins DEF Step
  <2>6. StepOK(n, s, nd, u) /\ s.nd.rt = v.rt /\ s.nd.seqno = v.seqno
    BY <1>1, <2>5, FlushKeeps
  <2> HIDE DEF s
  <2>7. e0.nexthop \in Node
    BY <1>1, <2>6, StepFields, AgentFields, EntryFields
  <2>8. p \in Packet /\ PacketOK(n, p, With(nd, n, s.nd), u)
    <3> DEFINE h == r.hop_count + 1
               ms == With(nd, n, s.nd)
    <3>1. h \in Nat /\ p = [r EXCEPT !.hop_count = h]
      BY <1>1
    <3> HIDE DEF h, p
    <3>2. /\ p \in Rrep /\ p.type = "RREP" /\ p.dst = r.dst /\ p.dst_seqno = r.dst_seqno
          /\ p.hop_count = h
      BY <3>1 DEF Rrep
    <3>3. ms[n] = s.nd /\ ms[d].seqno = nd[d].seqno
      BY <1>1, <2>3, <2>6 DEF With
    <3>4. Better(s.nd.rt[d], r.dst_seqno, h)
      BY <1>1, <2>2, <2>3, <2>6 DEF Better, h
    <3>5. RrepOK(n, p, ms, u)
      <4>1. 0 < r.dst_seqno /\ Even(r.dst_seqno) /\ r.dst_seqno <= nd[d].seqno
        BY DEF RrepOK
      <4>. QED  BY <3>2, <3>3, <3>4, <4>1 DEF RrepOK
    <3>. QED  BY <3>2, <3>5 DEF Packet, PacketOK
  <2> HIDE DEF p
  <2>9. StepOK(n, sent1, nd, u)
    <3>1. StepOK(n, Unicast(s, n, e0.nexthop, p), nd, u)
      BY <2>6, <2>7, <2>8, UnicastKeeps
    <3>. QED  BY <2>6, <3>1
  <2> HIDE DEF sent1
  <2>10. StepOK(n, c, nd, u)
    <3>1. sent1 \in Steps
      BY <2>9, StepFields
    <3>2. c \in Steps /\ c.nd = sent1.nd /\ c.out = sent1.out
      BY <3>1, CheckKeeps
    <3>. QED  BY <2>9, <3>2 DEF StepOK, Steps
  <2> HIDE DEF c
  <2>11. StepOK(n, pc_insert(c, d, e0.nexthop), nd, u)
    BY <1>1, <2>7, <2>10, PrecursorKeeps
  <2>12. StepOK(n, res, nd, u)
    BY <2>0, <2>6, <2>11
  <2>. QED  BY <2>12 DEF res
<1>. QED  BY <1>3, <1>4

-----------------------------------------------------------------------------
(* Lost routes *)

(* A route that is kept, though it may be in repair. *)
Kept(e, f) ==
  /\ f.seqno = e.seqno /\ f.hops = e.hops /\ f.nexthop = e.nexthop
  /\ f.flags = "DOWN" <=> e.flags = "DOWN"

(* A route to a destination whose own number is k, brought down. *)
Lost(e, f, k, u) ==
  /\ f.flags = "DOWN" /\ f.hops = INFINITY2 /\ f.seqno <= k + 1
  /\ ~u => Odd(f.seqno) /\ f.seqno > e.seqno

(* Routes may be brought down if they are given a higher number. *)
LEMMA RoutesLost ==
  ASSUME NEW nd \in [Node -> Agent], NEW u \in BOOLEAN, AgentsOK(nd, u), NEW n \in Node,
         NEW v \in Agent, nd[n].seqno <= v.seqno, Even(v.seqno),
         \A d \in Node : \/ Kept(nd[n].rt[d], v.rt[d])
                         \/ Lost(nd[n].rt[d], v.rt[d], nd[d].seqno, u)
  PROVE  AgentOK(n, v, nd, u)
<1>1. ASSUME NEW d \in Node
      PROVE  /\ EntryOK(v.rt[d], nd[d].seqno, u)
             /\ ~u => Improves(nd[n].rt[d], v.rt[d])
             /\ ~u => HopOK(n, d, v.rt[d], nd)
  <2> DEFINE e == nd[n].rt[d]
             f == v.rt[d]
  <2>1. e.seqno \in Nat /\ e.hops \in Nat /\ f.seqno \in Nat /\ f.hops \in Nat
    BY AgentFields, EntryFields
  <2>2. EntryOK(e, nd[d].seqno, u) /\ (~u => HopOK(n, d, e, nd))
    BY Zenon DEF AgentsOK
  <2>3. Kept(e, f) \/ Lost(e, f, nd[d].seqno, u)
    OBVIOUS
  <2> HIDE DEF e, f
  <2>4. CASE Kept(e, f)
    BY <2>1, <2>2, <2>4 DEF Kept, EntryOK, HopOK, Improves, e, f
  <2>5. CASE Lost(e, f, nd[d].seqno, u)
    BY <2>1, <2>5 DEF Lost, EntryOK, HopOK, Improves, e, f
  <2>. QED  BY <2>3, <2>4, <2>5
<1>. QED  BY <1>1 DEF AgentOK

LEMMA RtDown ==
  ASSUME NEW e \in Entry
  PROVE  /\ rt_down(e) \in Entry /\ rt_down(e).flags = "DOWN"
         /\ rt_down(e).seqno = e.seqno
         /\ e.flags # "DOWN" => rt_down(e).hops = INFINITY2
         /\ e.flags = "DOWN" => rt_down(e) = e
<1>1. INFINITY2 \in Nat /\ 0 \in Node
  BY AodvAssumption
<1>2. CASE e.flags = "DOWN"
  BY <1>2, EntryFields DEF rt_down
<1>3. CASE e.flags # "DOWN"
  BY <1>1, <1>3 DEF rt_down, Entry
<1>. QED  BY <1>2, <1>3

(* An entry that is broken is given the next, odd, number. *)
LEMMA BrokenLost ==
  ASSUME NEW e \in Entry, NEW k \in Nat, NEW u \in BOOLEAN, EntryOK(e, k, u),
         e.flags # "DOWN"
  PROVE  Broken(e) \in Entry /\ Lost(e, Broken(e), k, u)
<1> DEFINE f == [e EXCEPT !.seqno = @ + 1]
<1>1. e.seqno \in Nat /\ 0 < e.seqno /\ Even(e.seqno) /\ e.seqno <= k
  BY EntryFields DEF EntryOK
<1>2. f \in Entry /\ f.seqno = e.seqno + 1 /\ f.flags = e.flags
  BY <1>1 DEF Entry
<1>3. Broken(e) = rt_down(f)
  BY DEF Broken
<1> HIDE DEF f
<1>4. Odd(e.seqno + 1) /\ e.seqno + 1 <= k + 1 /\ e.seqno + 1 > e.seqno
  BY <1>1 DEF Odd, Even
<1>. QED  BY <1>2, <1>3, <1>4, RtDown DEF Lost

(* The handler of errors. *)
LEMMA RecvErrorKeeps ==
  ASSUME NEW nd \in [Node -> Agent], NEW u \in BOOLEAN, AgentsOK(nd, u), NEW n \in Node,
         NEW from \in Node, NEW x \in Rerr, LostOK(x.lost, nd, u)
  PROVE  StepOK(n, recvError(nd[n], n, from, x), nd, u)
<1> DEFINE hit == Hit(nd[n], from, x)
           told(d) == (CHOOSE w \in x.lost : w.dst = d).seqno
           rt == [d \in Node |->
                    IF d \notin hit THEN nd[n].rt[d]
                    ELSE rt_down([nd[n].rt[d] EXCEPT !.seqno = told(d), !.pclist = {}])]
           v == [nd[n] EXCEPT !.rt = rt]
           c == \A d \in hit : nd[n].rt[d].flags = "UP" /\ Even(nd[n].rt[d].seqno)
           s == Check(Step(v), c)
           D == {d \in hit : nd[n].rt[d].pclist # {}}
<1>1. \A d \in Node : /\ nd[n].rt[d] \in Entry /\ nd[n].rt[d].seqno \in Nat
                      /\ nd[d].seqno \in Nat
                      /\ EntryOK(nd[n].rt[d], nd[d].seqno, u)
  BY AgentFields, EntryFields DEF AgentsOK
<1>2. ASSUME NEW d \in hit
      PROVE  rt[d] \in Entry /\ Lost(nd[n].rt[d], rt[d], nd[d].seqno, u)
  <2> DEFINE e == nd[n].rt[d]
  <2>1. d \in Node /\ e.hops # INFINITY2 /\ \E w \in x.lost : w.dst = d /\ e.seqno <= w.seqno
    BY DEF Hit
  <2>2. PICK w \in x.lost : w.dst = d /\ e.seqno <= w.seqno
    BY <2>1
  <2>3. (CHOOSE z \in x.lost : z.dst = d) = w
    BY <2>2 DEF LostOK
  <2>4. told(d) = w.seqno
    BY <2>3
  <2>5. w.seqno \in Nat /\ w.seqno <= nd[d].seqno + 1 /\ (~u => Odd(w.seqno))
    BY <2>2 DEF Rerr, LostOK
  <2> HIDE DEF told
  <2>6. e.flags # "DOWN" /\ 0 < e.seqno /\ Even(e.seqno)
    BY <1>1, <2>1 DEF EntryOK
  <2> DEFINE f == [e EXCEPT !.seqno = told(d), !.pclist = {}]
  <2>7. rt[d] = rt_down(f)
    BY <2>1
  <2>8. f \in Entry /\ f.seqno = w.seqno /\ f.flags = e.flags
    <3>1. e \in Entry /\ f = [e EXCEPT !.seqno = w.seqno, !.pclist = {}]
      BY <1>1, <2>1, <2>4
    <3> HIDE DEF e, f
    <3>. QED  BY <2>5, <3>1 DEF Entry
  <2> HIDE DEF f, rt
  <2>9. ~u => w.seqno > e.seqno
    BY <1>1, <2>1, <2>2, <2>5, <2>6 DEF Odd
  <2>10. /\ rt[d] \in Entry /\ rt[d].flags = "DOWN" /\ rt[d].hops = INFINITY2
         /\ rt[d].seqno = w.seqno
    BY <2>6, <2>7, <2>8, RtDown
  <2>. QED  BY <2>5, <2>9, <2>10 DEF Lost
<1>3. hit \in SUBSET Node /\ D \in SUBSET Node /\ D \subseteq hit
  BY DEF Hit
<1>4. \A d \in Node : d \notin hit => rt[d] = nd[n].rt[d]
  OBVIOUS
<1>5. rt = [d \in Node |-> rt[d]]
  OBVIOUS
<1> HIDE DEF hit, rt, D
<1>6. rt \in [Node -> Entry]
  <2>1. \A d \in Node : rt[d] \in Entry
    BY <1>1, <1>2, <1>4
  <2>. QED  BY <1>5, <2>1
<1>7. v \in Agent /\ v.rt = rt /\ v.seqno = nd[n].seqno
  BY <1>6 DEF Agent
<1> HIDE DEF v
<1>8. AgentOK(n, v, nd, u)
  <2>1. nd[n].seqno <= v.seqno /\ Even(v.seqno)
    BY <1>1, <1>7 DEF AgentsOK
  <2>2. \A d \in Node : \/ Kept(nd[n].rt[d], v.rt[d])
                        \/ Lost(nd[n].rt[d], v.rt[d], nd[d].seqno, u)
    BY <1>2, <1>4, <1>7 DEF Kept
  <2>. QED  BY <1>7, <2>1, <2>2, RoutesLost
<1>9. StepOK(n, s, nd, u) /\ s.nd = v
  <2>1. StepOK(n, Step(v), nd, u) /\ Step(v) \in Steps /\ Step(v).nd = v
    BY <1>8, StepBegins, StepFields DEF Step
  <2> HIDE DEF c
  <2>2. s \in Steps /\ s.nd = v /\ s.out = Step(v).out
    BY <2>1, CheckKeeps
  <2>. QED  BY <2>1, <2>2 DEF StepOK, Steps
<1>10. recvError(nd[n], n, from, x) = sendError(s, n, Unreachable(s.nd.rt, D))
  BY <1>7, <1>9 DEF recvError, v, rt, hit, D
<1> HIDE DEF s
<1>11. \A d \in D : s.nd.rt[d].flags = "DOWN"
  BY <1>2, <1>3, <1>7, <1>9 DEF Lost
<1>. QED  BY <1>3, <1>9, <1>10, <1>11, ErrorKeeps

-----------------------------------------------------------------------------
(* Data packets and broken links *)

LEMMA RequestKeeps ==
  ASSUME NEW nd \in [Node -> Agent], NEW u \in BOOLEAN, AgentsOK(nd, u), NEW n \in Node,
         NEW s, StepOK(n, s, nd, u), NEW d \in Node, NEW due
  PROVE  StepOK(n, sendRequest(s, n, d, due), nd, u)
<1>1. {d} \in SUBSET Node
  OBVIOUS
<1>. QED  BY <1>1, RequestsKeep DEF sendRequest

(* A data packet is put into the buffer. *)
LEMMA EnqueKeeps ==
  ASSUME NEW nd \in [Node -> Agent], NEW u \in BOOLEAN, AgentsOK(nd, u), NEW n \in Node,
         NEW p \in InFlight
  PROVE  LET v == [nd[n] EXCEPT !.rqueue = enque(@, p)]
         IN  v \in Agent /\ AgentOK(n, v, nd, u)
<1> DEFINE q == enque(nd[n].rqueue, p)
           v == [nd[n] EXCEPT !.rqueue = q]
<1>1. nd[n] \in Agent /\ nd[n].rqueue \in Seq(InFlight)
  BY AgentFields
<1>2. q \in Seq(InFlight)
  BY <1>1, EnqueType
<1> HIDE DEF q
<1>3. v \in Agent /\ v.seqno = nd[n].seqno /\ v.rt = nd[n].rt
  BY <1>1, <1>2 DEF Agent
<1>4. AgentOK(n, nd[n], nd, u)
  BY StandsStill
<1> HIDE DEF v
<1>5. AgentOK(n, v, nd, u)
  BY <1>3, <1>4 DEF AgentOK
<1>. QED  BY <1>3, <1>5 DEF v, q

(* A packet is forwarded, buffered or given up. *)
LEMMA ResolveKeeps ==
  ASSUME NEW nd \in [Node -> Agent], NEW u \in BOOLEAN, AgentsOK(nd, u), NEW n \in Node,
         NEW p \in InFlight, NEW due
  PROVE  StepOK(n, rt_resolve(nd[n], n, p, due), nd, u)
<1> DEFINE e == nd[n].rt[p.dst]
           buffered == Step([nd[n] EXCEPT !.rqueue = enque(@, p)])
           res == rt_resolve(nd[n], n, p, due)
           s0 == Step(nd[n])
<1>1. p.dst \in Node /\ e \in Entry /\ e.nexthop \in Node
      /\ e.flags \in {"UP", "DOWN", "IN_REPAIR"}
  <2>1. p.dst \in Node
    BY DEF InFlight, Data
  <2>. QED  BY <2>1, AgentFields, EntryFields
<1>2. StepOK(n, s0, nd, u) /\ s0.nd = nd[n]
  BY StandsStill, StepBegins DEF Step
<1>3. StepOK(n, buffered, nd, u)
  BY EnqueKeeps, StepBegins
<1>4. res = IF e.flags = "UP"
            THEN Check(Unicast(s0, n, e.nexthop, p), e.hops # INFINITY2)
            ELSE IF p.src = n THEN sendRequest(buffered, n, p.dst, due)
            ELSE IF e.flags = "IN_REPAIR" THEN buffered
            ELSE sendError(s0, n, Unreachable(nd[n].rt, {p.dst}))
  BY DEF rt_resolve
<1> HIDE DEF res, s0, buffered
<1>5. CASE e.flags = "UP"
  <2> DEFINE s1 == Unicast(s0, n, e.nexthop, p)
             s2 == Check(s1, e.hops # INFINITY2)
  <2>1. p \in Packet /\ PacketOK(n, p, With(nd, n, s0.nd), u)
    BY DataPacketOK
  <2>2. StepOK(n, s1, nd, u)
    BY <1>1, <1>2, <2>1, UnicastKeeps
  <2> HIDE DEF s1
  <2>3. s2 \in Steps /\ s2.nd = s1.nd /\ s2.out = s1.out
    BY <2>2, StepFields, CheckKeeps
  <2> HIDE DEF s2
  <2>4. StepOK(n, s2, nd, u)
    BY <2>2, <2>3 DEF StepOK, Steps
  <2>. QED  BY <1>4, <1>5, <2>4 DEF res, s1, s2
<1>6. CASE e.flags # "UP" /\ p.src = n
  <2>1. StepOK(n, sendRequest(buffered, n, p.dst, due), nd, u)
    BY <1>1, <1>3, RequestKeeps
  <2>. QED  BY <1>4, <1>6, <2>1 DEF res
<1>7. CASE e.flags = "IN_REPAIR" /\ p.src # n
  BY <1>3, <1>4, <1>7 DEF res
<1>8. CASE e.flags = "DOWN" /\ p.src # n
  <2>1. {p.dst} \in SUBSET Node /\ \A d \in {p.dst} : s0.nd.rt[d].flags = "DOWN"
    BY <1>1, <1>2, <1>8
  <2>2. StepOK(n, sendError(s0, n, Unreachable(s0.nd.rt, {p.dst})), nd, u)
    BY <1>2, <2>1, ErrorKeeps
  <2>. QED  BY <1>2, <1>4, <1>8, <2>2 DEF res
<1>. QED  BY <1>1, <1>5, <1>6, <1>7, <1>8

(* A data packet that comes over the air: one hop more, one to live less. *)
LEMMA RecvDataKeeps ==
  ASSUME NEW nd \in [Node -> Agent], NEW u \in BOOLEAN, AgentsOK(nd, u), NEW n \in Node,
         NEW p \in InFlight
  PROVE  StepOK(n, recvData(nd[n], n, [p EXCEPT !.forwards = @ + 1]), nd, u)
<1> DEFINE p1 == [p EXCEPT !.forwards = @ + 1]
           p2 == [p1 EXCEPT !.ttl = @ - 1]
<1>1. /\ p \in Data /\ p.ttl \in Int /\ p.ttl > 0 /\ p.forwards \in Nat
      /\ p.forwards + p.ttl <= NETWORK_DIAMETER
  BY DEF InFlight, Data
<1>2. p1 \in Data /\ p1.forwards = p.forwards + 1 /\ p1.ttl = p.ttl
  BY <1>1 DEF Data
<1> HIDE DEF p1
<1>3. p2 \in Data /\ p2.forwards = p.forwards + 1 /\ p2.ttl = p.ttl - 1
  BY <1>1, <1>2 DEF Data
<1> HIDE DEF p2
<1>4. StepOK(n, Step(nd[n]), nd, u)
  BY StandsStill, StepBegins
<1>5. CASE p1.ttl - 1 # 0
  <2>1. p2 \in InFlight
    BY <1>1, <1>2, <1>3, <1>5, AodvAssumption DEF InFlight
  <2>2. StepOK(n, rt_resolve(nd[n], n, p2, {}), nd, u)
    BY <2>1, ResolveKeeps
  <2>. QED  BY <1>4, <2>2 DEF recvData, p1, p2
<1>6. CASE p1.ttl - 1 = 0
  BY <1>4, <1>6 DEF recvData, p1
<1>. QED  BY <1>5, <1>6

(* The link to a neighbour has failed. *)
LEMMA NbDeleteKeeps ==
  ASSUME NEW nd \in [Node -> Agent], NEW u \in BOOLEAN, AgentsOK(nd, u), NEW n \in Node,
         NEW id \in Node
  PROVE  StepOK(n, nb_delete(nd[n], n, id), nd, u)
<1> DEFINE w == [nd[n] EXCEPT !.seqno = @ + 2]
           hit == {d \in Node : w.rt[d].hops # INFINITY2 /\ w.rt[d].nexthop = id}
           down == [d \in Node |-> IF d \in hit THEN Broken(w.rt[d]) ELSE w.rt[d]]
           rt == [d \in Node |-> [down[d] EXCEPT !.pclist = @ \ {id}]]
           v == [w EXCEPT !.rt = rt]
           c == \A d \in hit : w.rt[d].flags = "UP" /\ Even(w.rt[d].seqno)
           s == Check(Step(v), c)
<1>1. \A d \in Node : /\ nd[n].rt[d] \in Entry /\ nd[d].seqno \in Nat
                      /\ EntryOK(nd[n].rt[d], nd[d].seqno, u)
  BY AgentFields DEF AgentsOK
<1>2. nd[n].seqno + 2 \in Nat /\ nd[n].seqno <= nd[n].seqno + 2 /\ Even(nd[n].seqno + 2)
  BY <1>1 DEF AgentsOK, Even
<1>3. w \in Agent /\ w.seqno = nd[n].seqno + 2 /\ w.rt = nd[n].rt
  <2>1. nd[n] \in Agent
    OBVIOUS
  <2>. QED  BY <1>2, <2>1 DEF Agent
<1>4. nb_delete(nd[n], n, id) = sendError(s, n, Unreachable(rt, hit))
  BY DEF nb_delete, handle_link_failure
<1> HIDE DEF w
<1>5. hit \in SUBSET Node
  OBVIOUS
<1>6. ASSUME NEW d \in hit
      PROVE  down[d] \in Entry /\ Lost(nd[n].rt[d], down[d], nd[d].seqno, u)
  <2>1. d \in Node /\ nd[n].rt[d].hops # INFINITY2 /\ down[d] = Broken(nd[n].rt[d])
    BY <1>3
  <2>2. nd[n].rt[d].flags # "DOWN"
    BY <1>1, <2>1 DEF EntryOK
  <2> HIDE DEF down
  <2>. QED  BY <1>1, <2>1, <2>2, BrokenLost
<1>7. \A d \in Node : d \notin hit => down[d] = nd[n].rt[d]
  BY <1>3
<1> HIDE DEF hit, down
<1>8. ASSUME NEW d \in Node
      PROVE  /\ rt[d] \in Entry
             /\ rt[d].seqno = down[d].seqno /\ rt[d].hops = down[d].hops
             /\ rt[d].flags = down[d].flags /\ rt[d].nexthop = down[d].nexthop
  <2>1. down[d] \in Entry
    BY <1>1, <1>6, <1>7
  <2>2. rt[d] = [down[d] EXCEPT !.pclist = @ \ {id}]
    OBVIOUS
  <2> HIDE DEF rt
  <2>. QED  BY <2>1, <2>2 DEF Entry
<1>9. rt \in [Node -> Entry]
  <2>1. rt = [d \in Node |-> rt[d]]
    OBVIOUS
  <2> HIDE DEF rt
  <2>. QED  BY <1>8, <2>1
<1> HIDE DEF rt
<1>10. v \in Agent /\ v.rt = rt /\ v.seqno = nd[n].seqno + 2
  BY <1>3, <1>9 DEF Agent
<1> HIDE DEF v
<1>11. AgentOK(n, v, nd, u)
  <2>1. ASSUME NEW d \in Node
        PROVE  \/ Kept(nd[n].rt[d], v.rt[d])
               \/ Lost(nd[n].rt[d], v.rt[d], nd[d].seqno, u)
    BY <1>6, <1>7, <1>8, <1>10 DEF Kept, Lost
  <2>. QED  BY <1>2, <1>10, <2>1, RoutesLost
<1>12. StepOK(n, s, nd, u) /\ s.nd = v
  <2>1. StepOK(n, Step(v), nd, u) /\ Step(v) \in Steps /\ Step(v).nd = v
    BY <1>11, StepBegins, StepFields DEF Step
  <2> HIDE DEF c
  <2>2. s \in Steps /\ s.nd = v /\ s.out = Step(v).out
    BY <2>1, CheckKeeps
  <2>. QED  BY <2>1, <2>2 DEF StepOK, Steps
<1> HIDE DEF s
<1>13. \A d \in hit : s.nd.rt[d].flags = "DOWN"
  BY <1>5, <1>6, <1>8, <1>10, <1>12 DEF Lost
<1>14. nb_delete(nd[n], n, id) = sendError(s, n, Unreachable(s.nd.rt, hit))
  BY <1>4, <1>10, <1>12
<1>. QED  BY <1>5, <1>12, <1>13, <1>14, ErrorKeeps, SMTT(30)

(* A route is repaired only if there is one. *)
LEMMA RepairKeeps ==
  ASSUME NEW nd \in [Node -> Agent], NEW u \in BOOLEAN, AgentsOK(nd, u), NEW n \in Node,
         NEW p \in InFlight, Repairs(nd[n], p), NEW due
  PROVE  StepOK(n, local_rt_repair(nd[n], n, p, due), nd, u)
<1> DEFINE q == enque(nd[n].rqueue, p)
           e == nd[n].rt[p.dst]
           f == [e EXCEPT !.flags = "IN_REPAIR"]
           rt == [nd[n].rt EXCEPT ![p.dst] = f]
           v == [nd[n] EXCEPT !.rqueue = enque(@, p), !.rt[p.dst].flags = "IN_REPAIR"]
           s == sendRequest(Step(v), n, p.dst, due)
           t == [s EXCEPT !.status = "freed"]
<1>1. /\ p.dst \in Node /\ p.forwards \in Nat /\ p.ttl \in Int /\ p.ttl > 0
      /\ p.forwards + p.ttl <= NETWORK_DIAMETER
  BY DEF InFlight, Data
<1>2. /\ nd[n] \in Agent /\ nd[n].rt \in [Node -> Entry] /\ e \in Entry /\ e.hops \in Nat
      /\ nd[n].rqueue \in Seq(InFlight) /\ EntryOK(e, nd[p.dst].seqno, u)
      /\ nd[n].seqno \in Nat /\ Even(nd[n].seqno)
  BY <1>1, AgentFields, EntryFields DEF AgentsOK
<1>3. e.flags # "DOWN"
  <2>1. e.hops < p.forwards
    BY <1>1, <1>2 DEF Repairs
  <2>2. p.forwards < INFINITY2 /\ INFINITY2 \in Nat
    BY <1>1, AodvAssumption
  <2>3. e.hops # INFINITY2
    <3> HIDE DEF e
    <3>. QED  BY <1>1, <1>2, <2>1, <2>2
  <2>. QED  BY <1>2, <2>3 DEF EntryOK
<1>4. f \in Entry /\ Kept(e, f)
  BY <1>2, <1>3 DEF Entry, Kept
<1>5. q \in Seq(InFlight)
  BY <1>2, EnqueType
<1>6. v = [nd[n] EXCEPT !.rqueue = q, !.rt = rt]
  BY <1>2 DEF Agent
<1> HIDE DEF v, q, f
<1>7. rt \in [Node -> Entry] /\ rt[p.dst] = f /\ \A d \in Node : d # p.dst => rt[d] = nd[n].rt[d]
  BY <1>1, <1>2, <1>4
<1> HIDE DEF rt
<1>8. v \in Agent /\ v.seqno = nd[n].seqno /\ v.rt = rt
  BY <1>2, <1>5, <1>6, <1>7 DEF Agent
<1>9. AgentOK(n, v, nd, u)
  <2>1. ASSUME NEW d \in Node PROVE Kept(nd[n].rt[d], v.rt[d])
    BY <1>4, <1>7, <1>8 DEF Kept
  <2>2. nd[n].seqno <= v.seqno /\ Even(v.seqno)
    BY <1>2, <1>8
  <2>. QED  BY <1>8, <2>1, <2>2, RoutesLost
<1>10. StepOK(n, s, nd, u)
  BY <1>1, <1>9, StepBegins, RequestKeeps
<1> HIDE DEF s
<1>11. s \in Steps
  BY <1>10, StepFields
<1>12. t \in Steps /\ t.nd = s.nd /\ t.out = s.out
  BY <1>11 DEF Steps, Status
<1> HIDE DEF t
<1>13. StepOK(n, t, nd, u)
  BY <1>10, <1>12 DEF StepOK, Steps
<1>14. local_rt_repair(nd[n], n, p, due) = s \/ local_rt_repair(nd[n], n, p, due) = t
  BY DEF local_rt_repair, s, t, v
<1>. QED  BY <1>10, <1>13, <1>14

(* The timer that looks after the routes. *)
LEMMA PurgeKeeps ==
  ASSUME NEW nd \in [Node -> Agent], NEW u \in BOOLEAN, AgentsOK(nd, u), NEW n \in Node,
         NEW X, NEW due
  PROVE  StepOK(n, rt_purge(nd[n], n, X, due), nd, u)
<1> DEFINE up == {d \in Node : nd[n].rt[d].flags = "UP"}
           waiting == {d \in Node \ up : Buffered(nd[n], d) # {}}
           rt == [d \in Node |-> IF d \in up \cap X THEN Broken(nd[n].rt[d])
                                 ELSE nd[n].rt[d]]
           q == Unbuffer(nd[n].rqueue, up)
           v == [nd[n] EXCEPT !.rt = rt, !.rqueue = q]
           O == {[from |-> n, to |-> nd[n].rt[p.dst].nexthop, pkt |-> p] :
                   p \in {p \in Range(nd[n].rqueue) : p.dst \in up \ X}}
           c == /\ \A d \in up : nd[n].rt[d].hops # INFINITY2
                /\ \A d \in up \cap X : Even(nd[n].rt[d].seqno)
           c0 == Check(Step(v), c)
           s == [c0 EXCEPT !.out = O]
<1>1. \A d \in Node : /\ nd[n].rt[d] \in Entry /\ nd[d].seqno \in Nat
                      /\ nd[n].rt[d].nexthop \in Node
                      /\ EntryOK(nd[n].rt[d], nd[d].seqno, u)
  BY AgentFields, EntryFields DEF AgentsOK
<1>2. nd[n] \in Agent /\ nd[n].rqueue \in Seq(InFlight)
  BY AgentFields
<1>3. rt_purge(nd[n], n, X, due) = sendRequests(s, n, waiting, due)
  BY DEF rt_purge
<1>4. waiting \in SUBSET Node
  OBVIOUS
<1> HIDE DEF waiting
<1>5. ASSUME NEW d \in Node
      PROVE  /\ rt[d] \in Entry
             /\ \/ Kept(nd[n].rt[d], rt[d])
                \/ Lost(nd[n].rt[d], rt[d], nd[d].seqno, u)
  <2>1. CASE d \in up \cap X
    <3>1. rt[d] = Broken(nd[n].rt[d]) /\ nd[n].rt[d].flags # "DOWN"
      BY <2>1
    <3> HIDE DEF rt
    <3>. QED  BY <1>1, <3>1, BrokenLost
  <2>2. CASE d \notin up \cap X
    <3>1. rt[d] = nd[n].rt[d]
      BY <2>2
    <3> HIDE DEF rt
    <3>. QED  BY <1>1, <3>1 DEF Kept
  <2>. QED  BY <2>1, <2>2
<1>6. rt \in [Node -> Entry]
  <2>1. rt = [d \in Node |-> rt[d]]
    OBVIOUS
  <2> HIDE DEF rt
  <2>. QED  BY <1>5, <2>1
<1> HIDE DEF rt
<1>7. q \in Seq(InFlight)
  BY <1>2, UnbufferType
<1> HIDE DEF q
<1>8. v \in Agent /\ v.rt = rt /\ v.seqno = nd[n].seqno
  BY <1>2, <1>6, <1>7 DEF Agent
<1> HIDE DEF v
<1>9. AgentOK(n, v, nd, u)
  <2>1. nd[n].seqno <= v.seqno /\ Even(v.seqno)
    BY <1>1, <1>8 DEF AgentsOK
  <2>2. \A d \in Node : \/ Kept(nd[n].rt[d], v.rt[d])
                        \/ Lost(nd[n].rt[d], v.rt[d], nd[d].seqno, u)
    BY <1>5, <1>8
  <2>. QED  BY <1>8, <2>1, <2>2, RoutesLost
<1>10. StepOK(n, Step(v), nd, u) /\ Step(v) \in Steps /\ Step(v).nd = v /\ Step(v).out = {}
  BY <1>9, StepBegins, StepFields DEF Step
<1>11. c0 \in Steps /\ c0.nd = v /\ c0.out = {}
  <2> HIDE DEF c
  <2>. QED  BY <1>10, CheckKeeps
<1> HIDE DEF c0
<1>12. \A x \in O : x \in Message /\ x.from = n /\ x.pkt \in InFlight
  <2>1. \A p \in Range(nd[n].rqueue) : p \in InFlight /\ p \in Packet /\ p.dst \in Node
    BY <1>2, BufferedData
  <2>. QED  BY <1>1, <2>1 DEF Message
<1> HIDE DEF O
<1>13. s \in Steps /\ s.nd = v /\ s.out = O
  BY <1>11, <1>12 DEF Steps
<1> HIDE DEF s
<1>14. OutOK(O, With(nd, n, s.nd), u)
  BY <1>12, DataPacketOK DEF OutOK
<1>15. StepOK(n, s, nd, u)
  BY <1>9, <1>12, <1>13, <1>14 DEF StepOK, Steps
<1>. QED  BY <1>3, <1>4, <1>15, RequestsKeep

-----------------------------------------------------------------------------
(* The network *)

LEMMA EvenTwo == Even(2) /\ Odd(0)
BY DEF Even, Odd

LEMMA InitIInv == Init => IInv
<1> SUFFICES ASSUME Init PROVE IInv
  OBVIOUS
<1>1. NewEntry \in Entry
  BY AodvAssumption DEF NewEntry, Entry
<1> DEFINE rt == [d \in Node |-> NewEntry]
<1>2. rt \in [Node -> Entry] /\ << >> \in Seq(InFlight)
  BY <1>1
<1>3. NewNode = [seqno |-> 2, bid |-> 1, rt |-> rt, seen |-> {}, rqueue |-> << >>]
  BY DEF NewNode
<1>4. \A d \in Node : rt[d] = NewEntry
  OBVIOUS
<1> HIDE DEF rt
<1>5. NewNode \in Agent
  BY <1>2, <1>3 DEF Agent
<1>6. NewNode.seqno = 2 /\ NewNode.rt = rt
  BY <1>3
<1>7. TypeInv
  BY <1>5 DEF Init, TypeInv, Status
<1>8. AgentsOK(node, undone)
  <2>1. \A n \in Node : node[n] = NewNode
    BY DEF Init
  <2>2. EntryOK(NewEntry, 2, undone)
    BY EvenTwo DEF EntryOK, NewEntry
  <2>3. \A n, d \in Node : HopOK(n, d, NewEntry, node)
    BY DEF HopOK, NewEntry
  <2>4. 0 < 2 /\ Even(2)
    BY EvenTwo
  <2>. QED  BY <1>4, <1>6, <2>1, <2>2, <2>3, <2>4 DEF AgentsOK
<1>9. OutOK(msgs, node, undone)
  BY DEF Init, OutOK
<1>. QED  BY <1>7, <1>8, <1>9 DEF IInv

(* A step of one agent keeps the invariant. *)
LEMMA TakeKeeps ==
  ASSUME IInv, NEW n \in Node, NEW s, NEW gone, StepOK(n, s, node, undone),
         Take(n, s, gone), undone' = undone, repaired' \in BOOLEAN, faults' \in Nat,
         sent' \subseteq Flow, repairs' \subseteq [node : Node, dst : Node, uid : Nat]
  PROVE  IInv'
<1>1. node \in [Node -> Agent] /\ undone \in BOOLEAN /\ AgentsOK(node, undone)
      /\ msgs \subseteq Message /\ OutOK(msgs, node, undone)
  BY DEF IInv, TypeInv
<1>2. /\ s \in Steps /\ s.out \subseteq Message /\ s.status \in Status
      /\ AgentOK(n, s.nd, node, undone)
      /\ OutOK(s.out, With(node, n, s.nd), undone)
  BY StepFields DEF StepOK
<1>3. /\ node' = With(node, n, s.nd) /\ status' = s.status
      /\ msgs' \subseteq msgs \cup s.out
  BY DEF Take, With
<1>4. node' \in [Node -> Agent] /\ Grows(node, node', undone) /\ AgentsOK(node', undone)
  BY <1>1, <1>2, <1>3, AgentsStay
<1>5. TypeInv'
  BY <1>1, <1>2, <1>3, <1>4 DEF TypeInv
<1>6. ASSUME NEW x \in msgs' PROVE PacketOK(x.from, x.pkt, node', undone)
  <2>1. CASE x \in s.out
    BY <1>2, <1>3, <2>1 DEF OutOK
  <2>2. CASE x \in msgs
    <3>1. x.from \in Node /\ x.pkt \in Packet
      BY <1>1, <2>2 DEF Message
    <3>2. PacketOK(x.from, x.pkt, node, undone)
      BY <1>1, <2>2 DEF OutOK
    <3>. QED  BY <1>1, <1>4, <3>1, <3>2, PacketStays
  <2>. QED  BY <1>3, <2>1, <2>2
<1>7. OutOK(msgs', node', undone)
  BY <1>6 DEF OutOK
<1>. QED  BY <1>4, <1>5, <1>7 DEF IInv

(* A packet on its way. *)
LEMMA MessageOK ==
  ASSUME IInv, NEW x \in msgs
  PROVE  /\ node \in [Node -> Agent] /\ undone \in BOOLEAN /\ AgentsOK(node, undone)
         /\ x.from \in Node /\ x.to \in Node
         /\ x.pkt.type = "DATA" => x.pkt \in InFlight
         /\ x.pkt.type = "RREQ" => /\ Aged(x.pkt) \in Rreq
                                   /\ RreqOK(x.from, Aged(x.pkt), node, undone)
         /\ x.pkt.type = "RREP" => /\ Aged(x.pkt) \in Rrep
                                   /\ RrepOK(x.from, Aged(x.pkt), node, undone)
         /\ x.pkt.type = "RERR" => /\ Aged(x.pkt) \in Rerr
                                   /\ LostOK(Aged(x.pkt).lost, node, undone)
<1> DEFINE p == x.pkt
<1>1. /\ node \in [Node -> Agent] /\ undone \in BOOLEAN /\ AgentsOK(node, undone)
      /\ x \in Message /\ PacketOK(x.from, p, node, undone)
  BY DEF IInv, TypeInv, OutOK
<1>2. x.from \in Node /\ x.to \in Node /\ p \in Packet
  BY <1>1 DEF Message
<1> HIDE DEF p
<1>3. CASE p.type = "DATA"
  BY <1>1, <1>2, <1>3 DEF PacketOK, DataOK, p
<1>4. CASE p.type = "RREQ"
  <2>1. p \in Rreq
    BY <1>2, <1>4 DEF Packet, Data, Rrep, Rerr
  <2>2. RreqOK(x.from, p, node, undone)
    BY <1>1, <1>4 DEF PacketOK
  <2>3. /\ Aged(p) \in Rreq /\ Aged(p).src = p.src /\ Aged(p).src_seqno = p.src_seqno
        /\ Aged(p).dst = p.dst /\ Aged(p).dst_seqno = p.dst_seqno
        /\ Aged(p).hop_count = p.hop_count
    BY <2>1 DEF Aged, Rreq
  <2>4. RreqOK(x.from, Aged(p), node, undone)
    BY <2>2, <2>3 DEF RreqOK
  <2>. QED  BY <1>1, <1>2, <1>4, <2>3, <2>4 DEF p
<1>5. CASE p.type = "RREP"
  <2>1. p \in Rrep
    BY <1>2, <1>5 DEF Packet, Data, Rreq, Rerr
  <2>2. RrepOK(x.from, p, node, undone)
    BY <1>1, <1>5 DEF PacketOK
  <2>3. /\ Aged(p) \in Rrep /\ Aged(p).dst = p.dst /\ Aged(p).dst_seqno = p.dst_seqno
        /\ Aged(p).hop_count = p.hop_count
    BY <2>1 DEF Aged, Rrep
  <2>4. RrepOK(x.from, Aged(p), node, undone)
    BY <2>2, <2>3 DEF RrepOK
  <2>. QED  BY <1>1, <1>2, <1>5, <2>3, <2>4 DEF p
<1>6. CASE p.type = "RERR"
  <2>1. p \in Rerr
    BY <1>2, <1>6 DEF Packet, Data, Rreq, Rrep
  <2>2. LostOK(p.lost, node, undone)
    BY <1>1, <1>6 DEF PacketOK
  <2>3. Aged(p) \in Rerr /\ Aged(p).lost = p.lost
    BY <2>1 DEF Aged, Rerr
  <2>. QED  BY <1>1, <1>2, <1>6, <2>2, <2>3 DEF p
<1>7. p.type \in {"DATA", "RREQ", "RREP", "RERR"}
  BY <1>2 DEF Packet, Data, Rreq, Rrep, Rerr
<1>. QED  BY <1>3, <1>4, <1>5, <1>6, <1>7 DEF p

(* Bringing down a route that is not up leaves the numbers alone. *)
LEMMA RepairTimeoutKeeps ==
  ASSUME IInv, NEW r \in repairs, RepairTimeout(r)
  PROVE  IInv'
<1> DEFINE m == r.node
           d == r.dst
           e == node[m].rt[d]
           rt == [node[m].rt EXCEPT ![d] = rt_down(e)]
           v == [node[m] EXCEPT !.rt = rt]
<1>1. /\ node \in [Node -> Agent] /\ undone \in BOOLEAN /\ AgentsOK(node, undone)
      /\ msgs \subseteq Message /\ OutOK(msgs, node, undone)
      /\ m \in Node /\ d \in Node
  BY DEF IInv, TypeInv
<1>2. /\ node[m] \in Agent /\ node[m].rt \in [Node -> Entry] /\ e \in Entry
      /\ e.flags \in {"UP", "DOWN", "IN_REPAIR"} /\ EntryOK(e, node[d].seqno, undone)
      /\ node[m].seqno \in Nat
  BY <1>1, AgentFields, EntryFields DEF AgentsOK
<1>3. /\ UNCHANGED <<msgs, sent, faults, status, repaired>> /\ repairs' \subseteq repairs
      /\ undone' = (undone \/ e.flags = "IN_REPAIR")
  BY DEF RepairTimeout
<1>4. undone' \in BOOLEAN /\ repairs' \subseteq [node : Node, dst : Node, uid : Nat]
  BY <1>1, <1>3 DEF IInv, TypeInv
<1>5. CASE e.flags # "IN_REPAIR"
  <2>1. undone' = undone
    BY <1>1, <1>3, <1>5
  <2>2. node' = node
    <3>1. e.flags = "DOWN" => rt_down(e) = e
      BY <1>2, RtDown
    <3>2. e.flags = "DOWN" => [node EXCEPT ![m].rt[d] = e] = node
      BY <1>1, <1>2 DEF Agent
    <3>. QED  BY <1>2, <1>5, <3>1, <3>2 DEF RepairTimeout
  <2>. QED  BY <1>3, <1>4, <2>1, <2>2 DEF IInv, TypeInv, AgentsOK, OutOK
<1>6. CASE e.flags = "IN_REPAIR"
  <2>1. undone' = TRUE
    BY <1>3, <1>6
  <2>2. node' = With(node, m, v)
    BY <1>2, <1>6 DEF RepairTimeout, With, Agent
  <2>3. /\ rt_down(e) \in Entry /\ rt_down(e).flags = "DOWN" /\ rt_down(e).seqno = e.seqno
        /\ rt_down(e).hops = INFINITY2
    BY <1>2, <1>6, RtDown
  <2>4. /\ rt \in [Node -> Entry] /\ rt[d] = rt_down(e)
        /\ \A c \in Node : c # d => rt[c] = node[m].rt[c]
    BY <1>1, <1>2, <2>3
  <2> HIDE DEF rt
  <2>5. v \in Agent /\ v.seqno = node[m].seqno /\ v.rt = rt
    BY <1>2, <2>4 DEF Agent
  <2> HIDE DEF v
  <2>6. AgentsOK(node, TRUE)
    BY <1>1 DEF AgentsOK, EntryOK
  <2>7. AgentOK(m, v, node, TRUE)
    <3>1. ASSUME NEW c \in Node
          PROVE  \/ Kept(node[m].rt[c], v.rt[c])
                 \/ Lost(node[m].rt[c], v.rt[c], node[c].seqno, TRUE)
      <4>1. CASE c = d
        BY <1>2, <2>3, <2>4, <2>5, <4>1 DEF Lost, EntryOK
      <4>2. CASE c # d
        BY <2>4, <2>5, <4>2 DEF Kept
      <4>. QED  BY <4>1, <4>2
    <3>2. node[m].seqno <= v.seqno /\ Even(v.seqno)
      BY <1>1, <1>2, <2>5 DEF AgentsOK
    <3>. QED  BY <1>1, <2>5, <2>6, <3>1, <3>2, RoutesLost
  <2>8. node' \in [Node -> Agent] /\ Grows(node, node', TRUE) /\ AgentsOK(node', TRUE)
    BY <1>1, <2>2, <2>6, <2>7, AgentsStay
  <2>9. ASSUME NEW x \in msgs PROVE PacketOK(x.from, x.pkt, node', TRUE)
    <3>1. x.from \in Node /\ x.pkt \in Packet
      BY <1>1 DEF Message
    <3>2. PacketOK(x.from, x.pkt, node, TRUE)
      BY <1>1 DEF OutOK, PacketOK, RreqOK, RrepOK, LostOK
    <3>. QED  BY <1>1, <2>8, <3>1, <3>2, PacketStays
  <2>. QED  BY <1>3, <1>4, <2>1, <2>8, <2>9 DEF IInv, TypeInv, OutOK
<1>. QED  BY <1>5, <1>6

LEMMA NextIInv == IInv /\ [Next]_vars => IInv'
<1> SUFFICES ASSUME IInv, [Next]_vars PROVE IInv'
  OBVIOUS
<1>0. /\ node \in [Node -> Agent] /\ undone \in BOOLEAN /\ AgentsOK(node, undone)
      /\ repairs \subseteq [node : Node, dst : Node, uid : Nat] /\ sent \subseteq Flow
      /\ faults \in Nat /\ repaired \in BOOLEAN
  BY DEF IInv, TypeInv
<1>1. ASSUME NEW x \in msgs, RecvRequest(x) PROVE IInv'
  <2>1. StepOK(x.to, recvRequest(node[x.to], x.to, x.from, Aged(x.pkt)), node, undone)
    BY <1>1, MessageOK, RecvRequestKeeps DEF RecvRequest, Arrives
  <2>. QED  BY <1>0, <1>1, <2>1, MessageOK, TakeKeeps DEF RecvRequest
<1>2. ASSUME NEW x \in msgs, RecvReply(x) PROVE IInv'
  <2>1. StepOK(x.to, recvReply(node[x.to], x.to, x.from, Aged(x.pkt)), node, undone)
    BY <1>2, MessageOK, RecvReplyKeeps DEF RecvReply, Arrives
  <2>. QED  BY <1>0, <1>2, <2>1, MessageOK, TakeKeeps DEF RecvReply
<1>3. ASSUME NEW x \in msgs, RecvError(x) PROVE IInv'
  <2>1. StepOK(x.to, recvError(node[x.to], x.to, x.from, Aged(x.pkt)), node, undone)
    BY <1>3, MessageOK, RecvErrorKeeps DEF RecvError, Arrives
  <2>2. PICK F : Take(x.to, recvError(node[x.to], x.to, x.from, Aged(x.pkt)), F \cup {x})
    BY <1>3, Zenon DEF RecvError
  <2>3. UNCHANGED <<repairs, sent, faults, repaired, undone>>
    BY <1>3 DEF RecvError
  <2>. QED  BY <1>0, <2>1, <2>2, <2>3, MessageOK, TakeKeeps
<1>4. ASSUME NEW x \in msgs, RecvData(x) PROVE IInv'
  <2> DEFINE p == [x.pkt EXCEPT !.forwards = @ + 1]
             s == IF p.dst = x.to THEN Step(node[x.to]) ELSE recvData(node[x.to], x.to, p)
  <2>1. x.pkt \in InFlight /\ x.to \in Node
    BY <1>4, MessageOK DEF RecvData, Arrives
  <2>2. StepOK(x.to, Step(node[x.to]), node, undone)
    BY <1>0, <2>1, StandsStill, StepBegins
  <2>3. StepOK(x.to, recvData(node[x.to], x.to, p), node, undone)
    BY <1>0, <2>1, RecvDataKeeps
  <2>4. /\ Take(x.to, s, {x})
        /\ UNCHANGED <<repairs, sent, faults, repaired, undone>>
    BY <1>4 DEF RecvData
  <2> HIDE DEF p
  <2>5. StepOK(x.to, s, node, undone)
    BY <2>2, <2>3
  <2> HIDE DEF s
  <2>. QED  BY <1>0, <2>1, <2>4, <2>5, TakeKeeps
<1>5. ASSUME NEW x \in msgs, Lose(x) PROVE IInv'
  BY <1>5 DEF Lose, IInv, TypeInv, AgentsOK, OutOK
<1>6. ASSUME NEW x \in msgs, NEW due, LinkFailed(x, due) PROVE IInv'
  <2> DEFINE n == x.from
             s == rt_ll_failed(node[n], n, x.to, x.pkt, due)
             repair == Repairs(node[n], x.pkt)
  <2>1. x.pkt \in InFlight /\ x.to \in Node /\ n \in Node
    BY <1>6, MessageOK DEF LinkFailed
  <2>2. StepOK(n, s, node, undone)
    <3>1. CASE Repairs(node[n], x.pkt)
      BY <1>0, <2>1, <3>1, RepairKeeps DEF rt_ll_failed
    <3>2. CASE ~Repairs(node[n], x.pkt)
      BY <1>0, <2>1, <3>2, NbDeleteKeeps DEF rt_ll_failed
    <3>. QED  BY <3>1, <3>2
  <2>3. PICK F : Take(n, s, F \cup {x})
    BY <1>6, Zenon DEF LinkFailed
  <2>4. faults' \in Nat /\ repaired' \in BOOLEAN /\ sent' = sent /\ undone' = undone
    BY <1>0, <1>6 DEF LinkFailed
  <2>5. repairs' \subseteq [node : Node, dst : Node, uid : Nat]
    <3>1. x.pkt.dst \in Node
      BY <2>1 DEF InFlight, Data
    <3>2. [node |-> n, dst |-> x.pkt.dst, uid |-> faults] \in [node : Node, dst : Node, uid : Nat]
      BY <1>0, <2>1, <3>1
    <3>. QED  BY <1>0, <1>6, <3>2 DEF LinkFailed
  <2> HIDE DEF s, n
  <2>. QED  BY <1>0, <2>1, <2>2, <2>3, <2>4, <2>5, TakeKeeps
<1>7. ASSUME NEW r \in repairs, RepairTimeout(r) PROVE IInv'
  BY <1>7, RepairTimeoutKeeps
<1>8. ASSUME NEW due, NEW f \in Flow, Originate(f, due) PROVE IInv'
  <2> DEFINE p == [type |-> "DATA", src |-> f.src, dst |-> f.dst, id |-> f.id,
                   ttl |-> NETWORK_DIAMETER, forwards |-> 0]
  <2>1. f.src \in Node /\ f.dst \in Node /\ f.id \in Nat /\ NETWORK_DIAMETER \in Nat
        /\ 0 < NETWORK_DIAMETER
    BY AodvAssumption
  <2>2. p \in InFlight
    BY <2>1 DEF InFlight, Data
  <2>3. /\ Take(f.src, rt_resolve(node[f.src], f.src, p, due), {})
        /\ sent' \subseteq Flow /\ UNCHANGED <<repairs, faults, repaired, undone>>
    BY <1>0, <1>8 DEF Originate
  <2> HIDE DEF p
  <2>4. StepOK(f.src, rt_resolve(node[f.src], f.src, p, due), node, undone)
    BY <1>0, <2>1, <2>2, ResolveKeeps
  <2>. QED  BY <1>0, <2>1, <2>3, <2>4, TakeKeeps
<1>9. ASSUME NEW due, NEW n \in Node, NEW X \in SUBSET Up(n), RtPurge(n, X, due)
      PROVE  IInv'
  <2>1. faults' \in Nat
    <3>1. IsFiniteSet(X)
      <4>1. X \in SUBSET Node
        BY DEF Up
      <4>. QED  BY <4>1, AodvAssumption, FS_Subset, Zenon
    <3>2. Cardinality(X) \in Nat
      BY <3>1, FS_CardinalityType
    <3>. QED  BY <1>0, <1>9, <3>2 DEF RtPurge
  <2>2. StepOK(n, rt_purge(node[n], n, X, due), node, undone)
    BY <1>0, PurgeKeeps
  <2>3. /\ Take(n, rt_purge(node[n], n, X, due), {})
        /\ UNCHANGED <<repairs, sent, repaired, undone>>
    BY <1>9 DEF RtPurge
  <2>. QED  BY <1>0, <2>1, <2>2, <2>3, TakeKeeps
<1>10. CASE UNCHANGED vars
  BY <1>10 DEF vars, IInv, TypeInv, AgentsOK, OutOK
<1>. QED  BY <1>1, <1>2, <1>3, <1>4, <1>5, <1>6, <1>7, <1>8, <1>9, <1>10, Zenon
          DEF Next, Receive

LEMMA SpecIInv == Spec => []IInv
BY InitIInv, NextIInv, PTL DEF Spec

(* Type correctness: nodes, packets and timers have the shape the handlers *)
(* expect, and no data packet makes more than NETWORK_DIAMETER hops.       *)
THEOREM AodvTypes == Spec => []TypeInv
<1>1. IInv => TypeInv
  BY DEF IInv
<1>. QED  BY <1>1, SpecIInv, PTL

(* The numbers by which routes are compared come from the destinations:    *)
(* rt_update, the replies and the requests of any network never get ahead  *)
(* of the destination's own seqno by more than the step of a broken route. *)
THEOREM NumbersFromOwner == Spec => []SeqnoFromOwner
<1>1. IInv => SeqnoFromOwner
  <2> SUFFICES ASSUME IInv PROVE SeqnoFromOwner
    OBVIOUS
  <2>1. \A n, d \in Node : node[n].rt[d].seqno <= node[d].seqno + 1
    BY DEF IInv, AgentsOK, EntryOK
  <2>2. ASSUME NEW x \in msgs
        PROVE  /\ x.pkt.type = "RREP" => x.pkt.dst_seqno <= node[x.pkt.dst].seqno
               /\ x.pkt.type = "RREQ" => x.pkt.src_seqno <= node[x.pkt.src].seqno
    BY DEF IInv, OutOK, PacketOK, RreqOK, RrepOK
  <2>. QED  BY <2>1, <2>2 DEF SeqnoFromOwner
<1>. QED  BY <1>1, SpecIInv, PTL

(* Among the nodes of a loop, one has the highest number and, with it, the *)
(* fewest hops; its next hop would have to be better still.                *)
LEMMA NoLoop == IInv => LoopFree
<1> SUFFICES ASSUME IInv, ~undone, NEW d \in Node, NEW S \in SUBSET Routes(d), LoopsAt(d, S)
             PROVE  FALSE
  BY DEF LoopFree
<1> DEFINE e(n) == node[n].rt[d]
           K == node[d].seqno + 1
           I == {K - e(n).seqno : n \in S}
<1>1. /\ node \in [Node -> Agent] /\ AgentsOK(node, undone) /\ K \in Nat
  BY AgentFields DEF IInv, TypeInv
<1>2. ASSUME NEW n \in S
      PROVE  /\ n \in Node /\ n # d /\ e(n).flags = "UP" /\ e(n).nexthop \in S
             /\ e(n).seqno \in Nat /\ e(n).hops \in Nat /\ e(n).seqno <= K
             /\ Better(e(e(n).nexthop), e(n).seqno, e(n).hops)
  <2>1. n \in Node /\ n # d /\ e(n).flags = "UP" /\ e(n).nexthop \in S
        /\ e(n).nexthop # d
    BY DEF Routes, LoopsAt
  <2>2. e(n).seqno \in Nat /\ e(n).hops \in Nat
    BY <1>1, <2>1, AgentFields, EntryFields
  <2>3. EntryOK(e(n), node[d].seqno, undone) /\ HopOK(n, d, e(n), node)
    BY <1>1, <2>1 DEF AgentsOK
  <2>4. e(n).seqno <= K
    BY <2>3 DEF EntryOK
  <2>. QED  BY <2>1, <2>2, <2>3, <2>4 DEF HopOK
<1> HIDE DEF e
<1>3. PICK a \in S : \A n \in S : e(n).seqno <= e(a).seqno
  <2>1. I \subseteq Nat
    BY <1>1, <1>2
  <2>2. I # {}
    BY DEF LoopsAt
  <2>3. Min(I) \in I /\ \A j \in I : Min(I) <= j
    BY <2>1, <2>2, MinNat
  <2>4. PICK a \in S : Min(I) = K - e(a).seqno
    BY <2>3
  <2>5. ASSUME NEW n \in S PROVE e(n).seqno <= e(a).seqno
    <3>1. K - e(n).seqno \in I
      OBVIOUS
    <3>2. K - e(a).seqno <= K - e(n).seqno
      BY <2>3, <2>4, <3>1
    <3> HIDE DEF K
    <3>. QED  BY <1>1, <1>2, <3>2
  <2>. QED  BY <2>5
<1> DEFINE H == {e(n).hops : n \in {b \in S : e(b).seqno = e(a).seqno}}
<1>4. Min(H) \in H /\ \A j \in H : Min(H) <= j
  <2>1. H \subseteq Nat /\ H # {}
    BY <1>2
  <2> HIDE DEF H
  <2>. QED  BY <2>1, MinNat
<1>5. PICK n \in S : e(n).seqno = e(a).seqno /\ Min(H) = e(n).hops
  BY <1>4
<1>6. PICK m \in S : m = e(n).nexthop /\ Better(e(m), e(n).seqno, e(n).hops)
  BY <1>2
<1>7. e(m).seqno <= e(n).seqno
  BY <1>3, <1>5
<1>8. e(m).seqno = e(n).seqno /\ e(m).hops < e(n).hops
  BY <1>2, <1>6, <1>7 DEF Better
<1>9. e(m).hops \in H
  BY <1>5, <1>8
<1>10. e(n).hops <= e(m).hops
  BY <1>4, <1>5, <1>9
<1>. QED  BY <1>2, <1>8, <1>10

(* Following the next hops never goes round, in any network and whatever   *)
(* is lost, reordered or broken, unless a LocalRepairTimer has brought     *)
(* down a route without giving it a new number.                            *)
THEOREM RoutesLoopFree == Spec => []LoopFree
BY NoLoop, SpecIInv, PTL

-----------------------------------------------------------------------------
(* Hop counts.  As long as there was no local repair, whoever offers or    *)
(* has a route of h hops was led there by h - 1 nodes that are better off; *)
(* so no route has more hops than there are nodes.                         *)

(* The nodes that have a better route to d than one numbered k of h hops. *)
Closer(nd, d, k, h) == {m \in Node : Better(nd[m].rt[d], k, h)}

(* The nodes that the request q has come through. *)
Through(nd, q) ==
  {m \in Node : /\ <<q.src, q.bcast_id>> \in nd[m].seen
                /\ Better(nd[m].rt[q.src], q.src_seqno, q.hop_count)}

Far(nd, d, k, h) == h <= Cardinality(Closer(nd, d, k, h)) + 1

RouteFar(e, d, nd) ==
  e.flags # "IN_REPAIR" /\ (e.flags = "UP" => Far(nd, d, e.seqno, e.hops))

PacketFar(p, nd) ==
  /\ p.type = "RREP" => Far(nd, p.dst, p.dst_seqno, p.hop_count)
  /\ p.type = "RREQ" => p.hop_count <= Cardinality(Through(nd, p)) + 1

RoutesFar(v, nd) == \A d \in Node : RouteFar(v.rt[d], d, nd)

AgentsFar(nd) == \A n \in Node : RoutesFar(nd[n], nd)

OutFar(O, nd) == \A x \in O : PacketFar(x.pkt, nd)

(* The invariant of a network that has tried no local repair. *)
HopInv ==
  ~repaired => /\ status = "ok" /\ repairs = {} /\ ~undone
               /\ AgentsFar(node) /\ OutFar(msgs, node)

(* An agent goes on from v to w: requests and routes are not forgotten. *)
GoesOn(v, w) ==
  v.seen \subseteq w.seen /\ \A d \in Node : Improves(v.rt[d], w.rt[d])

AllGoOn(nd, md) == \A m \in Node : GoesOn(nd[m], md[m])

(* A larger set of nodes. *)
LEMMA NodesCounted ==
  ASSUME NEW S, NEW T, S \subseteq T, T \subseteq Node
  PROVE  /\ Cardinality(S) \in Nat /\ Cardinality(T) \in Nat
         /\ Cardinality(S) <= Cardinality(T)
<1>1. IsFiniteSet(T)
  BY AodvAssumption, FS_Subset
<1>2. IsFiniteSet(S) /\ Cardinality(S) <= Cardinality(T)
  BY <1>1, FS_Subset
<1>. QED  BY <1>1, <1>2, FS_CardinalityType

(* One node more. *)
LEMMA NodeCounted ==
  ASSUME NEW S, NEW T, S \subseteq T, T \subseteq Node, NEW n \in T, n \notin S
  PROVE  /\ Cardinality(S) \in Nat /\ Cardinality(T) \in Nat
         /\ Cardinality(S) + 1 <= Cardinality(T)
<1>1. IsFiniteSet(T)
  BY AodvAssumption, FS_Subset
<1>2. IsFiniteSet(S)
  BY <1>1, FS_Subset
<1>3. Cardinality(S \cup {n}) = Cardinality(S) + 1
  BY <1>2, FS_AddElement
<1>4. S \cup {n} \subseteq T
  OBVIOUS
<1>5. Cardinality(S \cup {n}) <= Cardinality(T)
  BY <1>1, <1>4, FS_Subset
<1>. QED  BY <1>1, <1>2, <1>3, <1>5, FS_CardinalityType

(* What has been counted goes on to count. *)
LEMMA CloserGrows ==
  ASSUME NEW nd \in [Node -> Agent], NEW md \in [Node -> Agent], AllGoOn(nd, md),
         NEW d \in Node, NEW k \in Nat, NEW h \in Nat
  PROVE  Closer(nd, d, k, h) \subseteq Closer(md, d, k, h)
<1>1. ASSUME NEW m \in Node, Better(nd[m].rt[d], k, h)
      PROVE  Better(md[m].rt[d], k, h)
  <2>1. nd[m].rt[d] \in Entry /\ md[m].rt[d] \in Entry
    BY AgentFields
  <2>2. Improves(nd[m].rt[d], md[m].rt[d])
    BY Zenon DEF AllGoOn, GoesOn
  <2>. QED  BY <1>1, <2>1, <2>2, BetterStays
<1>. QED  BY <1>1, Zenon DEF Closer

LEMMA FarStays ==
  ASSUME NEW nd \in [Node -> Agent], NEW md \in [Node -> Agent], AllGoOn(nd, md),
         NEW d \in Node, NEW k \in Nat, NEW h \in Nat, Far(nd, d, k, h)
  PROVE  Far(md, d, k, h)
<1>1. Closer(nd, d, k, h) \subseteq Closer(md, d, k, h)
  BY CloserGrows
<1>2. Closer(md, d, k, h) \subseteq Node
  BY DEF Closer
<1>. QED  BY <1>1, <1>2, NodesCounted DEF Far

LEMMA ThroughGrows ==
  ASSUME NEW nd \in [Node -> Agent], NEW md \in [Node -> Agent], AllGoOn(nd, md),
         NEW q \in Rreq
  PROVE  Through(nd, q) \subseteq Through(md, q)
<1>0. q.src \in Node /\ q.src_seqno \in Nat /\ q.hop_count \in Nat
  BY DEF Rreq
<1>1. ASSUME NEW m \in Node, Better(nd[m].rt[q.src], q.src_seqno, q.hop_count)
      PROVE  Better(md[m].rt[q.src], q.src_seqno, q.hop_count)
  <2>1. nd[m].rt[q.src] \in Entry /\ md[m].rt[q.src] \in Entry
    BY <1>0, AgentFields
  <2>2. Improves(nd[m].rt[q.src], md[m].rt[q.src])
    BY <1>0, Zenon DEF AllGoOn, GoesOn
  <2>. QED  BY <1>0, <1>1, <2>1, <2>2, BetterStays
<1>2. \A m \in Node : nd[m].seen \subseteq md[m].seen
  BY DEF AllGoOn, GoesOn
<1>. QED  BY <1>1, <1>2, Zenon DEF Through

LEMMA PacketFarStays ==
  ASSUME NEW nd \in [Node -> Agent], NEW md \in [Node -> Agent], AllGoOn(nd, md),
         NEW p \in Packet, PacketFar(p, nd)
  PROVE  PacketFar(p, md)
<1>1. ASSUME p.type = "RREP" PROVE Far(md, p.dst, p.dst_seqno, p.hop_count)
  <2>1. p \in Rrep
    BY <1>1 DEF Packet, Data, Rreq, Rerr
  <2>2. p.dst \in Node /\ p.dst_seqno \in Nat /\ p.hop_count \in Nat
    BY <2>1 DEF Rrep
  <2>. QED  BY <1>1, <2>2, FarStays DEF PacketFar
<1>2. ASSUME p.type = "RREQ" PROVE p.hop_count <= Cardinality(Through(md, p)) + 1
  <2>1. p \in Rreq
    BY <1>2 DEF Packet, Data, Rrep, Rerr
  <2>2. p.hop_count \in Nat
    BY <2>1 DEF Rreq
  <2>3. Through(nd, p) \subseteq Through(md, p) /\ Through(md, p) \subseteq Node
    BY <2>1, ThroughGrows DEF Through
  <2>4. p.hop_count <= Cardinality(Through(nd, p)) + 1
    BY <1>2 DEF PacketFar
  <2>. QED  BY <2>2, <2>3, <2>4, NodesCounted
<1>. QED  BY <1>1, <1>2 DEF PacketFar

(* A node that is not better off has no more hops than there are nodes. *)
LEMMA FarBound ==
  ASSUME NEW nd, NEW n \in Node, NEW d, NEW k, NEW h \in Nat,
         ~Better(nd[n].rt[d], k, h), Far(nd, d, k, h)
  PROVE  h <= Cardinality(Node)
<1>1. Closer(nd, d, k, h) \subseteq Node /\ n \notin Closer(nd, d, k, h)
  BY DEF Closer
<1>. QED  BY <1>1, NodeCounted DEF Far

(* A node that has the route may offer it with one hop more. *)
LEMMA FarNext ==
  ASSUME NEW nd \in [Node -> Agent], NEW n \in Node, NEW d \in Node, NEW k \in Nat,
         NEW h \in Nat, nd[n].rt[d].seqno = k, nd[n].rt[d].hops = h, Far(nd, d, k, h)
  PROVE  Far(nd, d, k, h + 1)
<1>1. \A m \in Node : nd[m].rt[d].seqno \in Nat /\ nd[m].rt[d].hops \in Nat
  BY AgentFields, EntryFields
<1>2. Closer(nd, d, k, h) \subseteq Closer(nd, d, k, h + 1)
  BY <1>1 DEF Closer, Better
<1>3. n \in Closer(nd, d, k, h + 1) /\ n \notin Closer(nd, d, k, h)
  BY <1>1 DEF Closer, Better
<1>4. Closer(nd, d, k, h + 1) \subseteq Node
  BY DEF Closer
<1>. QED  BY <1>2, <1>3, <1>4, NodeCounted DEF Far

(* A node that passes on a request for the first time has come through it. *)
LEMMA ThroughNext ==
  ASSUME NEW nd \in [Node -> Agent], NEW md \in [Node -> Agent], AllGoOn(nd, md),
         NEW n \in Node, NEW q \in Rreq, NEW p \in Rreq,
         <<q.src, q.bcast_id>> \notin nd[n].seen, <<q.src, q.bcast_id>> \in md[n].seen,
         Better(md[n].rt[q.src], q.src_seqno, q.hop_count + 1),
         q.hop_count <= Cardinality(Through(nd, q)) + 1,
         p.src = q.src, p.bcast_id = q.bcast_id, p.src_seqno = q.src_seqno,
         p.hop_count = q.hop_count + 1
  PROVE  p.hop_count <= Cardinality(Through(md, p)) + 1
<1>0. q.src \in Node /\ q.src_seqno \in Nat /\ q.hop_count \in Nat
  BY DEF Rreq
<1>1. \A m \in Node : md[m].rt[q.src].seqno \in Nat /\ md[m].rt[q.src].hops \in Nat
  BY <1>0, AgentFields, EntryFields
<1>2. Through(nd, q) \subseteq Through(md, q)
  BY ThroughGrows
<1>3. Through(md, q) \subseteq Through(md, p)
  <2>1. ASSUME NEW m \in Node, Better(md[m].rt[q.src], q.src_seqno, q.hop_count)
        PROVE  Better(md[m].rt[p.src], p.src_seqno, p.hop_count)
    BY <1>0, <1>1, <2>1 DEF Better
  <2>. QED  BY <2>1 DEF Through
<1>4. n \in Through(md, p) /\ n \notin Through(nd, q) /\ Through(md, p) \subseteq Node
  BY DEF Through
<1>5. Through(nd, q) \subseteq Through(md, p)
  BY <1>2, <1>3
<1>. QED  BY <1>0, <1>4, <1>5, NodeCounted

-----------------------------------------------------------------------------
(* The step s of agent n. *)
StepFar(n, s, nd) ==
  /\ s.status = "ok"
  /\ RoutesFar(s.nd, With(nd, n, s.nd))
  /\ OutFar(s.out, With(nd, n, s.nd))

SameRoute(e, f) == f.seqno = e.seqno /\ f.hops = e.hops /\ f.flags = e.flags

LEMMA WithGoesOn ==
  ASSUME NEW nd \in [Node -> Agent], NEW n \in Node, NEW v \in Agent, NEW w \in Agent,
         GoesOn(v, w)
  PROVE  /\ With(nd, n, v) \in [Node -> Agent] /\ With(nd, n, w) \in [Node -> Agent]
         /\ AllGoOn(With(nd, n, v), With(nd, n, w))
<1>1. With(nd, n, v) \in [Node -> Agent] /\ With(nd, n, w) \in [Node -> Agent]
  BY DEF With
<1>2. ASSUME NEW m \in Node PROVE GoesOn(With(nd, n, v)[m], With(nd, n, w)[m])
  <2>1. CASE m = n
    <3>1. With(nd, n, v)[m] = v /\ With(nd, n, w)[m] = w
      BY <2>1 DEF With
    <3>. QED  BY <3>1
  <2>2. CASE m # n
    <3>1. With(nd, n, v)[m] = nd[m] /\ With(nd, n, w)[m] = nd[m]
      BY <2>2 DEF With
    <3>2. \A d \in Node : nd[m].rt[d].seqno \in Nat /\ nd[m].rt[d].hops \in Nat
      BY AgentFields, EntryFields
    <3>3. GoesOn(nd[m], nd[m])
      BY <3>2 DEF GoesOn, Improves
    <3>. QED  BY <3>1, <3>3
  <2>. QED  BY <2>1, <2>2
<1>. QED  BY <1>1, <1>2 DEF AllGoOn

LEMMA WithSame ==
  ASSUME NEW nd \in [Node -> Agent], NEW n \in Node
  PROVE  With(nd, n, nd[n]) = nd
BY DEF With

(* An agent with the same routes, some of them brought down. *)
LEMMA RoutesFarStay ==
  ASSUME NEW nd \in [Node -> Agent], NEW md \in [Node -> Agent], AllGoOn(nd, md),
         NEW v \in Agent, NEW w \in Agent, RoutesFar(v, nd),
         \A d \in Node : w.rt[d].flags = "DOWN" \/ SameRoute(v.rt[d], w.rt[d])
  PROVE  RoutesFar(w, md)
<1>1. ASSUME NEW d \in Node PROVE RouteFar(w.rt[d], d, md)
  <2> DEFINE e == v.rt[d]
             f == w.rt[d]
  <2>1. e.seqno \in Nat /\ e.hops \in Nat
    BY AgentFields, EntryFields
  <2>2. RouteFar(e, d, nd)
    BY Zenon DEF RoutesFar
  <2>3. f.flags = "DOWN" \/ SameRoute(e, f)
    OBVIOUS
  <2> HIDE DEF e, f
  <2>4. CASE f.flags = "DOWN"
    BY <2>4 DEF RouteFar, f
  <2>5. CASE SameRoute(e, f)
    <3>1. Far(nd, d, e.seqno, e.hops) => Far(md, d, e.seqno, e.hops)
      BY <2>1, FarStays
    <3>2. RouteFar(f, d, md)
      BY <2>2, <2>5, <3>1 DEF RouteFar, SameRoute
    <3>. QED  BY <3>2 DEF f
  <2>. QED  BY <2>3, <2>4, <2>5
<1>. QED  BY <1>1 DEF RoutesFar

LEMMA OutFarStays ==
  ASSUME NEW nd \in [Node -> Agent], NEW md \in [Node -> Agent], AllGoOn(nd, md),
         NEW O \in SUBSET Message, OutFar(O, nd)
  PROVE  OutFar(O, md)
<1>1. ASSUME NEW x \in O PROVE PacketFar(x.pkt, md)
  <2>1. x.pkt \in Packet
    BY DEF Message
  <2>2. PacketFar(x.pkt, nd)
    BY DEF OutFar
  <2>. QED  BY <2>1, <2>2, PacketFarStays
<1>. QED  BY <1>1 DEF OutFar

(* A step may go on, leaving the routes alone, with further packets. *)
LEMMA FarExtends ==
  ASSUME NEW nd \in [Node -> Agent], NEW n \in Node,
         NEW s \in Steps, StepFar(n, s, nd), NEW t \in Steps, NEW O,
         t.status = s.status, Alike(t.nd, s.nd), t.nd.seen = s.nd.seen,
         t.out \subseteq s.out \cup O, OutFar(O, With(nd, n, t.nd))
  PROVE  StepFar(n, t, nd)
<1>1. s.nd \in Agent /\ t.nd \in Agent /\ s.out \in SUBSET Message
  BY DEF Steps
<1>2. \A d \in Node : /\ s.nd.rt[d].seqno \in Nat /\ s.nd.rt[d].hops \in Nat
                      /\ t.nd.rt[d].seqno \in Nat /\ t.nd.rt[d].hops \in Nat
  BY <1>1, AgentFields, EntryFields
<1>3. GoesOn(s.nd, t.nd)
  BY <1>2 DEF GoesOn, Improves, Alike
<1> DEFINE ns == With(nd, n, s.nd)
           nt == With(nd, n, t.nd)
<1>4. ns \in [Node -> Agent] /\ nt \in [Node -> Agent] /\ AllGoOn(ns, nt)
  BY <1>1, <1>3, WithGoesOn
<1>5. s.status = "ok" /\ RoutesFar(s.nd, ns) /\ OutFar(s.out, ns) /\ OutFar(O, nt)
  BY DEF StepFar
<1> HIDE DEF ns, nt
<1>6. RoutesFar(t.nd, nt)
  <2>1. \A d \in Node : SameRoute(s.nd.rt[d], t.nd.rt[d])
    BY DEF Alike, SameRoute
  <2>. QED  BY <1>1, <1>4, <1>5, <2>1, RoutesFarStay
<1>7. OutFar(s.out, nt)
  BY <1>1, <1>4, <1>5, OutFarStays
<1>8. OutFar(t.out, nt)
  BY <1>5, <1>7 DEF OutFar
<1>. QED  BY <1>5, <1>6, <1>8 DEF StepFar, nt

-----------------------------------------------------------------------------
(* Steps that learn no route *)

(* A packet that offers no route, or the sender's own. *)
Modest(p) == p.type \in {"DATA", "RERR"} \/ (p.type = "RREQ" /\ p.hop_count = 1)

(* The routes with a hop count are those that are up. *)
Sane(v) == \A d \in Node : v.rt[d].flags = "UP" <=> v.rt[d].hops # INFINITY2

(* What is left of the routes of v. *)
Keeps(v, w) ==
  /\ w.seen = v.seen
  /\ \A d \in Node : w.rt[d].flags = "DOWN" \/ SameRoute(v.rt[d], w.rt[d])

(* The step s of an agent v brings no route up, and no assertion fails. *)
Quiet(s, v) ==
  /\ Keeps(v, s.nd)
  /\ \A x \in s.out : Modest(x.pkt)
  /\ Sane(v) => s.status = "ok"

(* There are fewer nodes than hops in a route that is down. *)
Small == Cardinality(Node) < INFINITY2

LEMMA AgentSane ==
  ASSUME Small, NEW nd \in [Node -> Agent], AgentsOK(nd, FALSE), NEW n \in Node,
         RoutesFar(nd[n], nd)
  PROVE  Sane(nd[n])
<1> SUFFICES ASSUME NEW d \in Node
             PROVE  nd[n].rt[d].flags = "UP" <=> nd[n].rt[d].hops # INFINITY2
  BY DEF Sane
<1> DEFINE e == nd[n].rt[d]
<1>1. e.seqno \in Nat /\ e.hops \in Nat /\ e.flags \in {"UP", "DOWN", "IN_REPAIR"}
      /\ INFINITY2 \in Nat
  BY AgentFields, EntryFields, AodvAssumption
<1>2. e.flags = "DOWN" => e.hops = INFINITY2
  BY DEF AgentsOK, EntryOK
<1>3. RouteFar(e, d, nd)
  BY Zenon DEF RoutesFar
<1>4. e.flags = "UP" => e.hops <= Cardinality(Node)
  <2>1. ~Better(nd[n].rt[d], e.seqno, e.hops)
    BY <1>1 DEF Better
  <2> HIDE DEF e
  <2>. QED  BY <1>1, <1>3, <2>1, FarBound DEF RouteFar
<1>5. Cardinality(Node) \in Nat
  BY AodvAssumption, FS_CardinalityType
<1>. QED  BY <1>1, <1>2, <1>3, <1>4, <1>5 DEF RouteFar, Small

LEMMA QuietFar ==
  ASSUME Small, NEW nd \in [Node -> Agent], AgentsOK(nd, FALSE), NEW n \in Node,
         RoutesFar(nd[n], nd), NEW s, StepOK(n, s, nd, FALSE), Quiet(s, nd[n])
  PROVE  StepFar(n, s, nd) /\ GoesOn(nd[n], s.nd)
<1>1. s \in Steps /\ s.nd \in Agent /\ s.out \in SUBSET Message
  BY StepFields
<1>2. s.status = "ok"
  BY AgentSane DEF Quiet
<1>3. GoesOn(nd[n], s.nd)
  BY DEF StepOK, AgentOK, GoesOn, Quiet, Keeps
<1> DEFINE ns == With(nd, n, s.nd)
<1>4. ns \in [Node -> Agent] /\ AllGoOn(nd, ns)
  BY <1>1, <1>3, WithGoesOn, WithSame
<1> HIDE DEF ns
<1>5. RoutesFar(s.nd, ns)
  BY <1>1, <1>4, RoutesFarStay DEF Quiet, Keeps
<1>6. ASSUME NEW x \in s.out PROVE PacketFar(x.pkt, ns)
  <2>1. Modest(x.pkt)
    BY DEF Quiet
  <2>2. Cardinality(Through(ns, x.pkt)) \in Nat
    BY NodesCounted DEF Through
  <2>. QED  BY <2>1, <2>2 DEF PacketFar, Modest
<1>7. OutFar(s.out, ns)
  BY <1>6 DEF OutFar
<1>. QED  BY <1>2, <1>3, <1>5, <1>7 DEF StepFar, ns

LEMMA CheckPasses ==
  ASSUME NEW s, NEW c, c PROVE Check(s, c) = s
BY DEF Check

(* A check leaves the rest of the step alone. *)
LEMMA QuietCheck ==
  ASSUME NEW s \in Steps, NEW v, NEW c, Quiet(s, v), Sane(v) => c
  PROVE  Quiet(Check(s, c), v)
<1>1. Check(s, c).nd = s.nd /\ Check(s, c).out = s.out
  BY CheckKeeps
<1>2. Sane(v) => Check(s, c) = s
  BY CheckPasses
<1> DEFINE t == Check(s, c)
<1>3. t.nd = s.nd /\ t.out = s.out /\ (Sane(v) => t = s)
  BY <1>1, <1>2
<1> HIDE DEF t
<1>4. Quiet(t, v)
  BY <1>3 DEF Quiet
<1>. QED  BY <1>4 DEF t

LEMMA KeepsSame ==
  ASSUME NEW v, NEW w, w.rt = v.rt, w.seen = v.seen PROVE Keeps(v, w)
BY DEF Keeps, SameRoute

LEMMA QuietBegins ==
  ASSUME NEW v, NEW w, Keeps(v, w) PROVE Quiet(Step(w), v)
<1>1. Step(w).nd = w /\ Step(w).out = {} /\ Step(w).status = "ok"
  BY DEF Step
<1>. QED  BY <1>1 DEF Quiet

LEMMA QuietUnicast ==
  ASSUME NEW s \in Steps, NEW v, NEW n, NEW to, NEW p, Quiet(s, v), Modest(p)
  PROVE  Quiet(Unicast(s, n, to, p), v)
<1> DEFINE t == Unicast(s, n, to, p)
<1>1. t.nd = s.nd /\ t.status = s.status /\ \A x \in t.out : x \in s.out \/ x.pkt = p
  BY DEF Unicast, Steps
<1> HIDE DEF t
<1>2. Quiet(t, v)
  BY <1>1 DEF Quiet
<1>. QED  BY <1>2 DEF t

LEMMA QuietBroadcast ==
  ASSUME NEW s \in Steps, NEW v, NEW n, NEW p, Quiet(s, v), Modest(p)
  PROVE  Quiet(Broadcast(s, n, p), v)
<1> DEFINE t == Broadcast(s, n, p)
<1>1. t.nd = s.nd /\ t.status = s.status /\ \A x \in t.out : x \in s.out \/ x.pkt = p
  BY DEF Broadcast, Steps
<1> HIDE DEF t
<1>2. Quiet(t, v)
  BY <1>1 DEF Quiet
<1>. QED  BY <1>2 DEF t

LEMMA QuietError ==
  ASSUME NEW s \in Steps, NEW v, NEW n, NEW lost, Quiet(s, v)
  PROVE  Quiet(sendError(s, n, lost), v)
<1> DEFINE p == [type |-> "RERR", ttl |-> 1, lost |-> lost]
<1>1. Modest(p)
  BY DEF Modest
<1>2. sendError(s, n, lost) = IF lost = {} THEN s ELSE Broadcast(s, n, p)
  BY DEF sendError
<1> HIDE DEF p
<1>. QED  BY <1>1, <1>2, QuietBroadcast

(* Requests start with one hop. *)
LEMMA QuietRequests ==
  ASSUME NEW s \in Steps, NEW v \in Agent, NEW n, NEW D \in SUBSET Node, NEW due, Quiet(s, v)
  PROVE  Quiet(sendRequests(s, n, D, due), v)
<1> DEFINE rt == s.nd.rt
           now == {d \in D : rt[d].flags # "UP" /\ (rt[d].req_timeout => d \in due)}
           quit == {d \in now : rt[d].req_cnt > RREQ_RETRIES}
           ask == now \ quit
           Nth(d) == Cardinality({c \in ask : c <= d})
           Request(d) == [type |-> "RREQ", ttl |-> RequestTtl(rt[d]), hop_count |-> 1,
                          bcast_id |-> s.nd.bid + Nth(d) - 1, dst |-> d,
                          dst_seqno |-> rt[d].seqno,
                          src |-> n, src_seqno |-> s.nd.seqno + 2 * Nth(d)]
           rt2 == [d \in Node |-> IF d \in ask THEN Asked(rt[d])
                                  ELSE IF d \in quit THEN GivenUp(rt[d])
                                  ELSE rt[d]]
           O == {[from |-> n, to |-> m, pkt |-> Request(d)] : d \in ask, m \in Nbr[n]}
           b == \A d \in D : rt[d].flags = "UP" => rt[d].hops # INFINITY2
           c == Check(s, b)
           w == [s.nd EXCEPT !.rt = rt2, !.seqno = @ + 2 * Cardinality(ask),
                             !.bid = @ + Cardinality(ask), !.rqueue = Unbuffer(@, quit)]
           t == sendRequests(s, n, D, due)
<1>1. s.nd \in Agent /\ rt \in [Node -> Entry]
  BY AgentFields DEF Steps
<1>2. t = [c EXCEPT !.nd = w, !.out = @ \cup O]
  BY DEF sendRequests
<1>3. Sane(v) => b
  BY DEF Sane, Quiet, Keeps, SameRoute
<1>4. c \in Steps /\ c.out = s.out /\ Quiet(c, v)
  <2> HIDE DEF b
  <2>. QED  BY <1>3, CheckKeeps, QuietCheck
<1> HIDE DEF c
<1>5. t.nd = w /\ t.out = s.out \cup O /\ t.status = c.status
  <2> HIDE DEF w, O, t
  <2>. QED  BY <1>2, <1>4 DEF Steps
<1> HIDE DEF t
<1>6. \A x \in O : Modest(x.pkt)
  <2>1. \A d \in ask : Modest(Request(d))
    BY DEF Modest
  <2> HIDE DEF Request, ask
  <2>. QED  BY <2>1
<1> HIDE DEF O
<1>7. ASSUME NEW d \in Node PROVE SameRoute(rt[d], rt2[d])
  <2>1. rt[d] \in Entry /\ rt2[d] \in {Asked(rt[d]), GivenUp(rt[d]), rt[d]}
    BY <1>1
  <2>. QED  BY <2>1, RequestEntry DEF SameRoute
<1> HIDE DEF rt2, ask, quit
<1>8. w.rt = rt2 /\ w.seen = s.nd.seen
  BY <1>1 DEF Agent
<1> HIDE DEF w
<1>9. Keeps(v, w)
  <2>1. Keeps(v, s.nd)
    BY DEF Quiet
  <2>. QED  BY <1>7, <1>8, <2>1 DEF Keeps, SameRoute
<1>10. Quiet(t, v)
  BY <1>4, <1>5, <1>6, <1>9 DEF Quiet
<1>. QED  BY <1>10 DEF t

LEMMA QuietRequest ==
  ASSUME NEW s \in Steps, NEW v \in Agent, NEW n, NEW d \in Node, NEW due, Quiet(s, v)
  PROVE  Quiet(sendRequest(s, n, d, due), v)
<1>1. {d} \in SUBSET Node
  OBVIOUS
<1>. QED  BY <1>1, QuietRequests DEF sendRequest

LEMMA QuietStep ==
  ASSUME NEW v \in Agent, NEW w \in Agent, Keeps(v, w)
  PROVE  Step(w) \in Steps /\ Step(w).nd = w /\ Quiet(Step(w), v)
<1>1. Step(w) \in Steps /\ Step(w).nd = w
  BY DEF Step, Steps, Status
<1>. QED  BY <1>1, QuietBegins

(* A data packet is forwarded, buffered or given up. *)
LEMMA QuietResolve ==
  ASSUME NEW v \in Agent, NEW n \in Node, NEW p \in InFlight, NEW due
  PROVE  Quiet(rt_resolve(v, n, p, due), v)
<1> DEFINE e == v.rt[p.dst]
           q == enque(v.rqueue, p)
           w == [v EXCEPT !.rqueue = q]
           s0 == Step(v)
           s1 == Step(w)
           res == rt_resolve(v, n, p, due)
<1>1. p.dst \in Node /\ p.type = "DATA" /\ Modest(p)
  BY DEF InFlight, Data, Modest
<1>2. s0 \in Steps /\ s0.nd = v /\ Quiet(s0, v)
  BY KeepsSame, QuietStep
<1>3. w \in Agent /\ w.rt = v.rt /\ w.seen = v.seen
  <2>1. q \in Seq(InFlight)
    BY AgentFields, EnqueType
  <2> HIDE DEF q
  <2>. QED  BY <2>1 DEF Agent
<1>4. res = IF e.flags = "UP"
            THEN Check(Unicast(s0, n, e.nexthop, p), e.hops # INFINITY2)
            ELSE IF p.src = n THEN sendRequest(s1, n, p.dst, due)
            ELSE IF e.flags = "IN_REPAIR" THEN s1
            ELSE sendError(s0, n, Unreachable(v.rt, {p.dst}))
  BY DEF rt_resolve
<1> HIDE DEF w, s0, res
<1>5. s1 \in Steps /\ Quiet(s1, v)
  BY <1>3, KeepsSame, QuietStep
<1> HIDE DEF s1
<1>6. CASE e.flags = "UP"
  <2> DEFINE t == Unicast(s0, n, e.nexthop, p)
  <2>1. Quiet(t, v)
    BY <1>1, <1>2, QuietUnicast
  <2>2. t \in Steps
    <3>1. e.nexthop \in Node /\ p \in Packet
      BY <1>1, AgentFields, EntryFields, DataPacketOK
    <3>. QED  BY <1>2, <3>1 DEF Unicast, Steps, Message
  <2> DEFINE b == e.hops # INFINITY2
  <2>3. (Sane(v) => b) /\ res = Check(t, b)
    BY <1>1, <1>4, <1>6 DEF Sane
  <2> HIDE DEF t, b
  <2>4. Quiet(res, v)
    BY <2>1, <2>2, <2>3, QuietCheck
  <2>. QED  BY <2>4 DEF res
<1>7. CASE e.flags # "UP" /\ p.src = n
  BY <1>1, <1>4, <1>5, <1>7, QuietRequest DEF res
<1>8. CASE e.flags # "UP" /\ p.src # n /\ e.flags = "IN_REPAIR"
  BY <1>4, <1>5, <1>8 DEF res
<1>9. CASE e.flags # "UP" /\ p.src # n /\ e.flags # "IN_REPAIR"
  BY <1>2, <1>4, <1>9, QuietError DEF res
<1>. QED  BY <1>6, <1>7, <1>8, <1>9

LEMMA QuietData ==
  ASSUME NEW v \in Agent, NEW n \in Node, NEW p \in InFlight
  PROVE  Quiet(recvData(v, n, [p EXCEPT !.forwards = @ + 1]), v)
<1> DEFINE p1 == [p EXCEPT !.forwards = @ + 1]
           p2 == [p1 EXCEPT !.ttl = @ - 1]
<1>1. /\ p \in Data /\ p.ttl \in Int /\ p.ttl > 0 /\ p.forwards \in Nat
      /\ p.forwards + p.ttl <= NETWORK_DIAMETER
  BY DEF InFlight, Data
<1>2. p1 \in Data /\ p1.forwards = p.forwards + 1 /\ p1.ttl = p.ttl
  BY <1>1 DEF Data
<1> HIDE DEF p1
<1>3. p2 \in Data /\ p2.forwards = p.forwards + 1 /\ p2.ttl = p.ttl - 1
  BY <1>1, <1>2 DEF Data
<1> HIDE DEF p2
<1>4. Quiet(Step(v), v)
  BY KeepsSame, QuietStep
<1>5. CASE p1.ttl - 1 # 0
  <2>1. p2 \in InFlight
    BY <1>1, <1>2, <1>3, <1>5, AodvAssumption DEF InFlight
  <2>2. Quiet(rt_resolve(v, n, p2, {}), v)
    BY <2>1, QuietResolve
  <2>. QED  BY <1>4, <2>2 DEF recvData, p1, p2
<1>6. CASE p1.ttl - 1 = 0
  BY <1>4, <1>6 DEF recvData, p1
<1>. QED  BY <1>5, <1>6

(* The numbers of routes that are up are even. *)
LEMMA SaneEven ==
  ASSUME NEW nd \in [Node -> Agent], NEW u, AgentsOK(nd, u), NEW n \in Node, NEW d \in Node,
         nd[n].rt[d].hops # INFINITY2
  PROVE  /\ nd[n].rt[d].flags # "DOWN" /\ Even(nd[n].rt[d].seqno)
         /\ Sane(nd[n]) => nd[n].rt[d].flags = "UP"
BY DEF AgentsOK, EntryOK, Sane

LEMMA QuietRecvError ==
  ASSUME NEW nd \in [Node -> Agent], NEW u \in BOOLEAN, AgentsOK(nd, u), NEW n \in Node,
         NEW from \in Node, NEW x \in Rerr
  PROVE  Quiet(recvError(nd[n], n, from, x), nd[n])
<1> DEFINE hit == Hit(nd[n], from, x)
           told(d) == (CHOOSE w \in x.lost : w.dst = d).seqno
           g(d) == [nd[n].rt[d] EXCEPT !.seqno = told(d), !.pclist = {}]
           rt == [d \in Node |-> IF d \notin hit THEN nd[n].rt[d] ELSE rt_down(g(d))]
           v == [nd[n] EXCEPT !.rt = rt]
           c == \A d \in hit : nd[n].rt[d].flags = "UP" /\ Even(nd[n].rt[d].seqno)
           s == Check(Step(v), c)
           L == Unreachable(rt, {d \in hit : nd[n].rt[d].pclist # {}})
<1>1. \A d \in hit : d \in Node /\ nd[n].rt[d].hops # INFINITY2
                     /\ \E w \in x.lost : w.dst = d
  BY DEF Hit
<1>2. ASSUME NEW d \in hit PROVE g(d) \in Entry
  <2>1. (CHOOSE w \in x.lost : w.dst = d) \in x.lost
    BY <1>1
  <2>2. told(d) \in Nat
    BY <2>1 DEF Rerr
  <2>3. nd[n].rt[d] \in Entry
    BY <1>1, AgentFields
  <2> HIDE DEF told
  <2>. QED  BY <2>2, <2>3 DEF Entry
<1>3. recvError(nd[n], n, from, x) = sendError(s, n, L)
  BY DEF recvError
<1> HIDE DEF g, L, hit
<1>4. ASSUME NEW d \in Node
      PROVE  /\ rt[d] \in Entry
             /\ rt[d].flags = "DOWN" \/ SameRoute(nd[n].rt[d], rt[d])
  <2>1. CASE d \in hit
    <3>1. rt[d] = rt_down(g(d))
      BY <2>1
    <3> HIDE DEF rt
    <3>. QED  BY <1>2, <2>1, <3>1, RtDown
  <2>2. CASE d \notin hit
    BY <2>2, AgentFields DEF SameRoute
  <2>. QED  BY <2>1, <2>2
<1>5. rt \in [Node -> Entry]
  <2>1. rt = [d \in Node |-> rt[d]]
    OBVIOUS
  <2> HIDE DEF rt
  <2>. QED  BY <1>4, <2>1
<1> HIDE DEF rt
<1>6. v \in Agent /\ v.rt = rt /\ v.seen = nd[n].seen
  BY <1>5 DEF Agent
<1> HIDE DEF v
<1>7. Step(v) \in Steps /\ Quiet(Step(v), nd[n])
  <2>1. Keeps(nd[n], v)
    BY <1>4, <1>6 DEF Keeps
  <2>. QED  BY <1>6, <2>1, QuietStep
<1>8. Sane(nd[n]) => c
  BY <1>1, SaneEven
<1> HIDE DEF c
<1>9. s \in Steps /\ Quiet(s, nd[n])
  BY <1>7, <1>8, CheckKeeps, QuietCheck
<1>. QED  BY <1>3, <1>9, QuietError

LEMMA QuietNbDelete ==
  ASSUME NEW nd \in [Node -> Agent], NEW u \in BOOLEAN, AgentsOK(nd, u), NEW n \in Node,
         NEW id \in Node
  PROVE  Quiet(nb_delete(nd[n], n, id), nd[n])
<1> DEFINE w == [nd[n] EXCEPT !.seqno = @ + 2]
           hit == {d \in Node : w.rt[d].hops # INFINITY2 /\ w.rt[d].nexthop = id}
           down == [d \in Node |-> IF d \in hit THEN Broken(w.rt[d]) ELSE w.rt[d]]
           rt == [d \in Node |-> [down[d] EXCEPT !.pclist = @ \ {id}]]
           v == [w EXCEPT !.rt = rt]
           c == \A d \in hit : w.rt[d].flags = "UP" /\ Even(w.rt[d].seqno)
           s == Check(Step(v), c)
           L == Unreachable(rt, hit)
<1>1. nb_delete(nd[n], n, id) = sendError(s, n, L)
  BY DEF nb_delete, handle_link_failure
<1> HIDE DEF L
<1>2. w \in Agent /\ w.rt = nd[n].rt /\ w.seen = nd[n].seen
  <2>1. nd[n] \in Agent /\ nd[n].seqno + 2 \in Nat
    BY AgentFields
  <2>. QED  BY <2>1 DEF Agent
<1> HIDE DEF w
<1>3. \A d \in hit : d \in Node /\ nd[n].rt[d].hops # INFINITY2
  BY <1>2
<1>4. ASSUME NEW d \in Node
      PROVE  down[d] \in Entry /\ (down[d].flags = "DOWN" \/ down[d] = nd[n].rt[d])
  <2>1. CASE d \in hit
    <3>1. down[d] = Broken(nd[n].rt[d])
      BY <1>2, <2>1
    <3>2. nd[n].rt[d] \in Entry /\ EntryOK(nd[n].rt[d], nd[d].seqno, u) /\ nd[d].seqno \in Nat
      BY AgentFields DEF AgentsOK
    <3>3. nd[n].rt[d].flags # "DOWN"
      BY <1>3, <2>1, SaneEven
    <3> HIDE DEF down
    <3>. QED  BY <3>1, <3>2, <3>3, BrokenLost DEF Lost
  <2>2. CASE d \notin hit
    BY <1>2, <2>2, AgentFields
  <2>. QED  BY <2>1, <2>2
<1> HIDE DEF down, hit
<1>5. ASSUME NEW d \in Node
      PROVE  /\ rt[d] \in Entry
             /\ rt[d].flags = "DOWN" \/ SameRoute(nd[n].rt[d], rt[d])
  <2>1. rt[d] = [down[d] EXCEPT !.pclist = @ \ {id}]
    OBVIOUS
  <2> HIDE DEF rt
  <2>2. /\ rt[d] \in Entry /\ rt[d].flags = down[d].flags
        /\ rt[d].seqno = down[d].seqno /\ rt[d].hops = down[d].hops
    BY <1>4, <2>1 DEF Entry
  <2>. QED  BY <1>4, <2>2 DEF SameRoute
<1>6. rt \in [Node -> Entry]
  <2>1. rt = [d \in Node |-> rt[d]]
    OBVIOUS
  <2> HIDE DEF rt
  <2>. QED  BY <1>5, <2>1
<1> HIDE DEF rt
<1>7. v \in Agent /\ v.rt = rt /\ v.seen = nd[n].seen
  BY <1>2, <1>6 DEF Agent
<1> HIDE DEF v
<1>8. Step(v) \in Steps /\ Quiet(Step(v), nd[n])
  <2>1. Keeps(nd[n], v)
    BY <1>5, <1>7 DEF Keeps
  <2>. QED  BY <1>7, <2>1, QuietStep
<1>9. Sane(nd[n]) => c
  BY <1>2, <1>3, SaneEven
<1> HIDE DEF c
<1>10. s \in Steps /\ Quiet(s, nd[n])
  BY <1>8, <1>9, CheckKeeps, QuietCheck
<1>. QED  BY <1>1, <1>10, QuietError

LEMMA QuietPurge ==
  ASSUME NEW nd \in [Node -> Agent], NEW u \in BOOLEAN, AgentsOK(nd, u), NEW n \in Node,
         NEW X, NEW due
  PROVE  Quiet(rt_purge(nd[n], n, X, due), nd[n])
<1> DEFINE up == {d \in Node : nd[n].rt[d].flags = "UP"}
           waiting == {d \in Node \ up : Buffered(nd[n], d) # {}}
           rt == [d \in Node |-> IF d \in up \cap X THEN Broken(nd[n].rt[d])
                                 ELSE nd[n].rt[d]]
           q == Unbuffer(nd[n].rqueue, up)
           v == [nd[n] EXCEPT !.rt = rt, !.rqueue = q]
           O == {[from |-> n, to |-> nd[n].rt[p.dst].nexthop, pkt |-> p] :
                   p \in {p \in Range(nd[n].rqueue) : p.dst \in up \ X}}
           c == /\ \A d \in up : nd[n].rt[d].hops # INFINITY2
                /\ \A d \in up \cap X : Even(nd[n].rt[d].seqno)
           c0 == Check(Step(v), c)
           s == [c0 EXCEPT !.out = O]
<1>1. rt_purge(nd[n], n, X, due) = sendRequests(s, n, waiting, due)
  BY DEF rt_purge
<1>2. waiting \in SUBSET Node
  OBVIOUS
<1>3. \A d \in Node : /\ nd[n].rt[d] \in Entry /\ nd[n].rt[d].nexthop \in Node
                      /\ EntryOK(nd[n].rt[d], nd[d].seqno, u) /\ nd[d].seqno \in Nat
  BY AgentFields, EntryFields DEF AgentsOK
<1> HIDE DEF waiting
<1>4. ASSUME NEW d \in Node
      PROVE  /\ rt[d] \in Entry
             /\ rt[d].flags = "DOWN" \/ SameRoute(nd[n].rt[d], rt[d])
  <2>1. CASE d \in up \cap X
    <3>1. rt[d] = Broken(nd[n].rt[d]) /\ nd[n].rt[d].flags # "DOWN"
      BY <2>1
    <3> HIDE DEF rt
    <3>. QED  BY <1>3, <3>1, BrokenLost DEF Lost
  <2>2. CASE d \notin up \cap X
    <3>1. rt[d] = nd[n].rt[d]
      BY <2>2
    <3> HIDE DEF rt
    <3>. QED  BY <1>3, <3>1 DEF SameRoute
  <2>. QED  BY <2>1, <2>2
<1>5. rt \in [Node -> Entry]
  <2>1. rt = [d \in Node |-> rt[d]]
    OBVIOUS
  <2> HIDE DEF rt
  <2>. QED  BY <1>4, <2>1
<1> HIDE DEF rt
<1>6. v \in Agent /\ v.rt = rt /\ v.seen = nd[n].seen
  <2>1. nd[n] \in Agent /\ q \in Seq(InFlight)
    BY AgentFields, UnbufferType
  <2> HIDE DEF q
  <2>. QED  BY <1>5, <2>1 DEF Agent
<1> HIDE DEF v
<1>7. Step(v) \in Steps /\ Quiet(Step(v), nd[n])
  <2>1. Keeps(nd[n], v)
    BY <1>4, <1>6 DEF Keeps
  <2>. QED  BY <1>6, <2>1, QuietStep
<1>8. Sane(nd[n]) => c
  <2>1. \A d \in up : d \in Node /\ nd[n].rt[d].flags = "UP" /\ Even(nd[n].rt[d].seqno)
    BY <1>3 DEF EntryOK
  <2>. QED  BY <2>1 DEF Sane
<1>9. \A x \in O : x \in Message /\ Modest(x.pkt)
  <2>1. \A p \in Range(nd[n].rqueue) : p \in Packet /\ p.dst \in Node /\ p.type = "DATA"
    BY AgentFields, BufferedData
  <2>. QED  BY <1>3, <2>1 DEF Message, Modest
<1> HIDE DEF c, O
<1>10. c0 \in Steps /\ Quiet(c0, nd[n])
  BY <1>7, <1>8, CheckKeeps, QuietCheck
<1> HIDE DEF c0
<1>11. s \in Steps /\ s.nd = c0.nd /\ s.out = O /\ s.status = c0.status
  BY <1>9, <1>10 DEF Steps
<1> HIDE DEF s
<1>12. Quiet(s, nd[n])
  BY <1>9, <1>10, <1>11 DEF Quiet
<1>13. nd[n] \in Agent
  OBVIOUS
<1>. QED  BY <1>1, <1>2, <1>11, <1>12, <1>13, QuietRequests

-----------------------------------------------------------------------------
(* Steps that learn a route *)

LEMMA FlushFar ==
  ASSUME NEW nd \in [Node -> Agent], NEW u \in BOOLEAN, AgentsOK(nd, u), NEW n \in Node,
         NEW s, StepOK(n, s, nd, u), StepFar(n, s, nd), NEW d \in Node,
         s.nd.rt[d].flags = "UP", s.nd.rt[d].hops # INFINITY2
  PROVE  StepFar(n, Flush(s, n, d), nd)
<1> DEFINE e == s.nd.rt[d]
           ps == Buffered(s.nd, d)
           O == {[from |-> n, to |-> e.nexthop, pkt |-> p] : p \in ps}
           t == Flush(s, n, d)
<1>1. s \in Steps /\ s.nd \in Agent
  BY StepFields
<1>2. \A p \in ps : p.type = "DATA"
  BY <1>1, AgentFields, BufferedData DEF Buffered
<1>3. \A x \in O : x.pkt.type = "DATA"
  BY <1>2
<1>4. t = [s EXCEPT !.out = @ \cup O, !.nd.rqueue = Unbuffer(@, {d})]
  BY CheckPasses DEF Flush
<1>5. StepOK(n, t, nd, u) /\ t.nd.rt = s.nd.rt /\ t.nd.seen = s.nd.seen
  BY FlushKeeps
<1> HIDE DEF t, O
<1>6. t.out = s.out \cup O /\ t.status = s.status
  BY <1>1, <1>4 DEF Steps
<1>7. t \in Steps
  BY <1>5, StepFields
<1>8. OutFar(O, With(nd, n, t.nd))
  BY <1>3 DEF OutFar, PacketFar
<1>9. Alike(t.nd, s.nd)
  BY <1>5, AlikeSame
<1>10. StepFar(n, t, nd)
  BY <1>1, <1>5, <1>6, <1>7, <1>8, <1>9, FarExtends
<1>. QED  BY <1>10 DEF t

(* A route that is offered with a hop count that is due is taken over. *)
LEMMA LearntFar ==
  ASSUME Small, NEW nd \in [Node -> Agent], NEW u \in BOOLEAN, ~u, NEW n \in Node,
         RoutesFar(nd[n], nd), NEW d \in Node, NEW k \in Nat, NEW h \in Nat,
         Fresher(nd[n].rt[d], k, h), Far(nd, d, k, h),
         NEW v, AgentOK(n, v, nd, u), nd[n].seen \subseteq v.seen,
         \A c \in Node \ {d} : v.rt[c] = nd[n].rt[c],
         v.rt[d].seqno = k, v.rt[d].hops = h, v.rt[d].flags = "UP"
  PROVE  /\ v \in Agent /\ h # INFINITY2 /\ GoesOn(nd[n], v)
         /\ StepFar(n, Step(v), nd)
<1>1. v \in Agent
  BY DEF AgentOK
<1>2. GoesOn(nd[n], v)
  BY DEF AgentOK, GoesOn
<1>3. h # INFINITY2
  <2>1. nd[n].rt[d].seqno \in Nat /\ nd[n].rt[d].hops \in Nat
    BY AgentFields, EntryFields
  <2>2. ~Better(nd[n].rt[d], k, h)
    BY <2>1 DEF Better, Fresher
  <2>3. h <= Cardinality(Node) /\ Cardinality(Node) \in Nat /\ INFINITY2 \in Nat
    BY <2>2, FarBound, AodvAssumption, FS_CardinalityType
  <2>. QED  BY <2>3 DEF Small
<1> DEFINE md == With(nd, n, v)
<1>4. md \in [Node -> Agent] /\ AllGoOn(nd, md)
  BY <1>1, <1>2, WithGoesOn, WithSame
<1> HIDE DEF md
<1>5. ASSUME NEW c \in Node PROVE RouteFar(v.rt[c], c, md)
  <2>1. CASE c = d
    BY <1>4, <2>1, FarStays DEF RouteFar
  <2>2. CASE c # d
    <3>1. v.rt[c] = nd[n].rt[c] /\ v.rt[c].seqno \in Nat /\ v.rt[c].hops \in Nat
      BY <2>2, AgentFields, EntryFields
    <3>2. RouteFar(v.rt[c], c, nd)
      BY <3>1, Zenon DEF RoutesFar
    <3>. QED  BY <1>4, <3>1, <3>2, FarStays DEF RouteFar
  <2>. QED  BY <2>1, <2>2
<1>6. RoutesFar(v, md)
  BY <1>5 DEF RoutesFar
<1>7. Step(v).nd = v /\ Step(v).out = {} /\ Step(v).status = "ok"
  BY DEF Step
<1>8. StepFar(n, Step(v), nd)
  BY <1>6, <1>7 DEF StepFar, OutFar, md
<1>. QED  BY <1>1, <1>2, <1>3, <1>8

(* The way back to the source of a request. *)
LEMMA ReverseFar ==
  ASSUME Small, NEW nd \in [Node -> Agent], NEW u \in BOOLEAN, ~u, AgentsOK(nd, u),
         NEW n \in Node,
         RoutesFar(nd[n], nd), NEW from \in Node, NEW q \in Rreq,
         RreqOK(from, q, nd, u), PacketFar(q, nd),
         NEW w \in Agent, w.seqno = nd[n].seqno, w.rt = nd[n].rt, nd[n].seen \subseteq w.seen
  PROVE  LET s == ReverseRoute(Step(w), n, from, q)
         IN  StepFar(n, s, nd) /\ s.nd.seen = w.seen
<1> DEFINE d == q.src
           e == nd[n].rt[d]
           up == rt_update(e, q.src_seqno, q.hop_count, from)
           reset == [up EXCEPT !.req_cnt = 0, !.req_timeout = FALSE,
                               !.req_last_ttl = q.hop_count]
           f == IF e.req_timeout THEN reset ELSE up
           v == [w EXCEPT !.rt[d] = f]
           s == ReverseRoute(Step(w), n, from, q)
<1>1. d \in Node /\ q.src_seqno \in Nat /\ q.hop_count \in Nat
  BY DEF Rreq
<1>2. e \in Entry /\ nd[n].seqno \in Nat
  BY <1>1, AgentFields
<1>3. Step(w).nd = w /\ Step(w).out = {} /\ Step(w).status = "ok"
  BY DEF Step
<1>4. CASE ~Fresher(e, q.src_seqno, q.hop_count)
  <2>1. s = Step(w)
    BY <1>3, <1>4 DEF ReverseRoute
  <2>2. \A c \in Node : w.rt[c].seqno \in Nat /\ w.rt[c].hops \in Nat
    BY AgentFields, EntryFields
  <2>3. GoesOn(nd[n], w)
    BY <2>2 DEF GoesOn, Improves
  <2>4. With(nd, n, w) \in [Node -> Agent] /\ AllGoOn(nd, With(nd, n, w))
    BY <2>3, WithGoesOn, WithSame
  <2>5. RoutesFar(w, With(nd, n, w))
    BY <2>4, RoutesFarStay DEF SameRoute
  <2>6. StepFar(n, Step(w), nd)
    BY <1>3, <2>5 DEF StepFar, OutFar
  <2>. QED  BY <1>3, <2>1, <2>6
<1>5. CASE Fresher(e, q.src_seqno, q.hop_count)
  <2>1. up \in Entry /\ up.seqno = q.src_seqno /\ up.hops = q.hop_count
        /\ up.flags = "UP" /\ up.nexthop = from
    BY <1>1, <1>2 DEF rt_update, Entry
  <2> HIDE DEF up
  <2>2. reset \in Entry /\ reset.seqno = q.src_seqno /\ reset.hops = q.hop_count
        /\ reset.flags = "UP" /\ reset.nexthop = from
    BY <1>1, <2>1 DEF Entry
  <2> HIDE DEF reset
  <2>3. f \in Entry /\ f.seqno = q.src_seqno /\ f.hops = q.hop_count
        /\ f.flags = "UP" /\ f.nexthop = from
    BY <2>1, <2>2
  <2>4. s = Flush([Step(w) EXCEPT !.nd.rt[d] = f], n, d)
    BY <1>3, <1>5 DEF ReverseRoute, up, reset
  <2> HIDE DEF f
  <2>5. [Step(w) EXCEPT !.nd.rt[d] = f] = Step(v)
    BY DEF Step
  <2>6. /\ v \in Agent /\ v.seqno = nd[n].seqno /\ v.rt[d] = f /\ v.seen = w.seen
        /\ \A c \in Node \ {d} : v.rt[c] = nd[n].rt[c]
    <3>1. w.rt \in [Node -> Entry]
      BY AgentFields
    <3>2. [w.rt EXCEPT ![d] = f] \in [Node -> Entry]
      BY <2>3, <3>1
    <3>3. v.rt = [w.rt EXCEPT ![d] = f] /\ v \in Agent /\ v.seqno = w.seqno
          /\ v.seen = w.seen
      BY <3>2 DEF Agent
    <3>. QED  BY <1>1, <3>1, <3>3
  <2> HIDE DEF v, s
  <2>7. s = Flush(Step(v), n, d)
    BY <2>4, <2>5, Zenon
  <2>8. Far(nd, d, q.src_seqno, q.hop_count)
    <3>1. Through(nd, q) \subseteq Closer(nd, d, q.src_seqno, q.hop_count)
      BY DEF Through, Closer
    <3>2. Closer(nd, d, q.src_seqno, q.hop_count) \subseteq Node
      BY DEF Closer
    <3>3. q.hop_count <= Cardinality(Through(nd, q)) + 1
      BY DEF PacketFar, Rreq
    <3>. QED  BY <1>1, <3>1, <3>2, <3>3, NodesCounted DEF Far
  <2>9. /\ 0 < q.src_seqno /\ Even(q.src_seqno) /\ q.src_seqno <= nd[d].seqno
        /\ from = d \/ Better(nd[from].rt[d], q.src_seqno, q.hop_count)
    BY DEF RreqOK
  <2>10. Fresher(nd[n].rt[d], q.src_seqno, q.hop_count)
    BY <1>5
  <2> HIDE DEF d, e
  <2>11. /\ v.rt[d].seqno = q.src_seqno /\ v.rt[d].hops = q.hop_count
         /\ v.rt[d].flags = "UP" /\ v.rt[d].nexthop = from
    BY <2>3, <2>6
  <2>12. AgentOK(n, v, nd, u)
    BY <1>1, <2>6, <2>9, <2>10, <2>11, RouteLearnt
  <2>13. q.hop_count # INFINITY2 /\ StepFar(n, Step(v), nd)
    BY <1>1, <2>6, <2>8, <2>10, <2>11, <2>12, LearntFar
  <2>14. StepOK(n, Step(v), nd, u) /\ Step(v).nd = v
    BY <2>12, StepBegins DEF Step
  <2>15. StepFar(n, s, nd) /\ s.nd.seen = v.seen
    <3> DEFINE t == Step(v)
    <3>1. /\ StepOK(n, t, nd, u) /\ StepFar(n, t, nd) /\ t.nd = v /\ s = Flush(t, n, d)
      BY <2>7, <2>13, <2>14
    <3> HIDE DEF t
    <3>2. t.nd.rt[d].flags = "UP" /\ t.nd.rt[d].hops # INFINITY2
      BY <2>11, <2>13, <3>1
    <3>3. StepFar(n, Flush(t, n, d), nd)
      BY <1>1, <3>1, <3>2, FlushFar
    <3>4. Flush(t, n, d).nd.seen = t.nd.seen
      BY <1>1, <3>1, FlushKeeps
    <3>. QED  BY <3>1, <3>3, <3>4
  <2>. QED  BY <2>6, <2>15 DEF s, d
<1>. QED  BY <1>4, <1>5

LEMMA PrecursorFar ==
  ASSUME NEW nd \in [Node -> Agent], NEW n \in Node, NEW s \in Steps, StepFar(n, s, nd),
         NEW d \in Node, NEW m \in Node
  PROVE  /\ pc_insert(s, d, m) \in Steps /\ StepFar(n, pc_insert(s, d, m), nd)
         /\ pc_insert(s, d, m).nd.seen = s.nd.seen
<1> DEFINE t == pc_insert(s, d, m)
           e == s.nd.rt[d]
           f == [e EXCEPT !.pclist = @ \cup {m}]
           rt == [s.nd.rt EXCEPT ![d] = f]
<1>1. s.nd \in Agent /\ s.nd.rt \in [Node -> Entry] /\ e \in Entry
  BY AgentFields DEF Steps
<1>2. /\ f \in Entry /\ f.seqno = e.seqno /\ f.hops = e.hops /\ f.flags = e.flags
      /\ f.nexthop = e.nexthop
  BY <1>1 DEF Entry
<1>3. t = [s EXCEPT !.nd = [s.nd EXCEPT !.rt = rt]]
  BY <1>1 DEF pc_insert, Steps, Agent
<1> HIDE DEF f, e, t
<1>4. /\ rt \in [Node -> Entry] /\ rt[d] = f
      /\ \A c \in Node : c = d \/ rt[c] = s.nd.rt[c]
  BY <1>1, <1>2
<1> HIDE DEF rt
<1>5. t \in Steps /\ t.nd.rt = rt /\ t.out = s.out /\ t.status = s.status
      /\ t.nd.seen = s.nd.seen
  BY <1>1, <1>3, <1>4 DEF Steps, Agent
<1>6. Alike(t.nd, s.nd)
  BY <1>2, <1>4, <1>5 DEF Alike, e
<1> DEFINE O == {}
<1>7. OutFar(O, With(nd, n, t.nd)) /\ t.out \subseteq s.out \cup O
  BY <1>5 DEF OutFar
<1> HIDE DEF O
<1>8. StepFar(n, t, nd)
  BY <1>5, <1>6, <1>7, FarExtends
<1>. QED  BY <1>5, <1>8 DEF t

LEMMA UnicastFar ==
  ASSUME NEW nd \in [Node -> Agent], NEW n \in Node, NEW s \in Steps, StepFar(n, s, nd),
         NEW to, NEW p, PacketFar(p, With(nd, n, s.nd))
  PROVE  StepFar(n, Unicast(s, n, to, p), nd) /\ Unicast(s, n, to, p).nd = s.nd
<1> DEFINE t == Unicast(s, n, to, p)
<1>1. t.nd = s.nd /\ t.status = s.status /\ \A x \in t.out : x \in s.out \/ x.pkt = p
  BY DEF Unicast, Steps
<1> HIDE DEF t
<1>2. StepFar(n, t, nd)
  BY <1>1 DEF StepFar, OutFar
<1>. QED  BY <1>1, <1>2 DEF t

(* A node answers for another one: the reply, and the precursors. *)
Answered(s, n, p, d, to, c, m) == pc_insert(pc_insert(Unicast(s, n, to, p), d, to), c, m)

LEMMA AnsweredFar ==
  ASSUME NEW nd \in [Node -> Agent], NEW n \in Node, NEW s \in Steps, StepFar(n, s, nd),
         NEW p \in Packet, PacketFar(p, With(nd, n, s.nd)),
         NEW d \in Node, NEW to \in Node, NEW c \in Node, NEW m \in Node
  PROVE  /\ StepFar(n, Answered(s, n, p, d, to, c, m), nd)
         /\ Answered(s, n, p, d, to, c, m).nd.seen = s.nd.seen
<1> DEFINE r == Unicast(s, n, to, p)
           t == pc_insert(r, d, to)
<1>1. r \in Steps /\ StepFar(n, r, nd) /\ r.nd = s.nd
  <2>1. r \in Steps
    BY DEF Unicast, Steps, Message
  <2>. QED  BY <2>1, UnicastFar
<1> HIDE DEF r
<1>2. t \in Steps /\ StepFar(n, t, nd) /\ t.nd.seen = r.nd.seen
  <2>1. r \in Steps /\ StepFar(n, r, nd)
    BY <1>1
  <2>. QED  BY <2>1, PrecursorFar
<1> HIDE DEF t
<1>3. StepFar(n, pc_insert(t, c, m), nd) /\ pc_insert(t, c, m).nd.seen = t.nd.seen
  BY <1>2, PrecursorFar
<1>. QED  BY <1>1, <1>2, <1>3 DEF r, t, Answered

LEMMA BroadcastFar ==
  ASSUME NEW nd \in [Node -> Agent], NEW n \in Node, NEW s \in Steps, StepFar(n, s, nd),
         NEW p, PacketFar(p, With(nd, n, s.nd))
  PROVE  StepFar(n, Broadcast(s, n, p), nd) /\ Broadcast(s, n, p).nd = s.nd
<1> DEFINE t == Broadcast(s, n, p)
<1>1. t.nd = s.nd /\ t.status = s.status /\ \A x \in t.out : x \in s.out \/ x.pkt = p
  BY DEF Broadcast, Steps
<1> HIDE DEF t
<1>2. StepFar(n, t, nd)
  BY <1>1 DEF StepFar, OutFar
<1>. QED  BY <1>1, <1>2 DEF t

(* A reply of the destination itself. *)
LEMMA OwnReplyFar ==
  ASSUME NEW p, p.type = "RREP", p.hop_count = 1, NEW nd
  PROVE  PacketFar(p, nd)
<1>1. Cardinality(Closer(nd, p.dst, p.dst_seqno, p.hop_count)) \in Nat
  BY NodesCounted DEF Closer
<1>. QED  BY <1>1 DEF PacketFar, Far

LEMMA StillFar ==
  ASSUME NEW nd \in [Node -> Agent], NEW n \in Node, RoutesFar(nd[n], nd)
  PROVE  StepFar(n, Step(nd[n]), nd)
<1>1. Step(nd[n]).nd = nd[n] /\ Step(nd[n]).out = {} /\ Step(nd[n]).status = "ok"
  BY DEF Step
<1>. QED  BY <1>1, WithSame DEF StepFar, OutFar

LEMMA RecvRequestFar ==
  ASSUME Small, NEW nd \in [Node -> Agent], NEW u \in BOOLEAN, ~u, AgentsOK(nd, u),
         NEW n \in Node,
         RoutesFar(nd[n], nd), NEW from \in Node, NEW q \in Rreq,
         RreqOK(from, q, nd, u), PacketFar(q, nd)
  PROVE  LET t == recvRequest(nd[n], n, from, q)
         IN  StepFar(n, t, nd) /\ nd[n].seen \subseteq t.nd.seen
<1> DEFINE id == <<q.src, q.bcast_id>>
           w == [nd[n] EXCEPT !.seen = @ \cup {id}]
           s == ReverseRoute(Step(w), n, from, q)
           r == s.nd.rt[q.dst]
           own == ReplySeqno(s.nd.seqno, q.dst_seqno)
           res == recvRequest(nd[n], n, from, q)
           ms == With(nd, n, s.nd)
<1>1. /\ q.src \in Node /\ q.dst \in Node /\ q.src_seqno \in Nat /\ q.dst_seqno \in Nat
      /\ q.hop_count \in Nat /\ q.bcast_id \in Nat
  BY DEF Rreq
<1>2. w \in Agent /\ w.seqno = nd[n].seqno /\ w.rt = nd[n].rt
      /\ w.seen = nd[n].seen \cup {id}
  <2> DEFINE seen == nd[n].seen \cup {id}
  <2>1. nd[n] \in Agent /\ seen \subseteq Node \X Nat
    BY <1>1, AgentFields
  <2>2. w = [nd[n] EXCEPT !.seen = seen]
    OBVIOUS
  <2>3. w \in Agent /\ w.seqno = nd[n].seqno /\ w.rt = nd[n].rt /\ w.seen = seen
    <3> HIDE DEF seen, w
    <3>. QED  BY <2>1, <2>2 DEF Agent
  <2>. QED  BY <2>3
<1>3. CASE q.src = n \/ id \in nd[n].seen
  <2>1. res = Step(nd[n]) /\ Step(nd[n]).nd = nd[n]
    BY <1>3 DEF recvRequest, Step
  <2>. QED  BY <2>1, StillFar
<1>4. CASE ~(q.src = n \/ id \in nd[n].seen)
  <2>1. res = IF q.dst = n
              THEN sendReply([s EXCEPT !.nd.seqno = own], n, q.src, 1, n, own)
              ELSE IF CanReply(r, q)
              THEN pc_insert(pc_insert(sendReply(s, n, q.src, r.hops + 1, q.dst, r.seqno),
                                       q.dst, s.nd.rt[q.src].nexthop), q.src, r.nexthop)
              ELSE IF q.ttl = 0 THEN s
              ELSE Broadcast(s, n, [q EXCEPT !.hop_count = @ + 1,
                                             !.dst_seqno = Max({@, r.seqno})])
    BY <1>4 DEF recvRequest
  <2> HIDE DEF res, w
  <2>2. /\ StepOK(n, s, nd, u) /\ s.nd.seqno = nd[n].seqno
        /\ Better(s.nd.rt[q.src], q.src_seqno, q.hop_count + 1)
    BY <1>2, ReverseKeeps
  <2>3. StepFar(n, s, nd) /\ s.nd.seen = w.seen
    BY <1>2, ReverseFar
  <2> HIDE DEF s
  <2>4. /\ s \in Steps /\ s.nd \in Agent /\ s.nd.seqno \in Nat
        /\ r \in Entry /\ r.seqno \in Nat /\ r.hops \in Nat /\ r.nexthop \in Node
        /\ s.nd.rt[q.src].nexthop \in Node
    BY <1>1, <2>2, StepFields, AgentFields, EntryFields
  <2>5. nd[n].seen \subseteq s.nd.seen /\ id \in s.nd.seen
    BY <1>2, <2>3
  <2>6. ms \in [Node -> Agent] /\ ms[n] = s.nd /\ AllGoOn(nd, ms)
    <3>1. GoesOn(nd[n], s.nd)
      BY <2>2, <2>5 DEF StepOK, AgentOK, GoesOn
    <3>2. ms \in [Node -> Agent] /\ ms[n] = s.nd
      BY <2>4 DEF With
    <3>3. nd[n] \in Agent /\ With(nd, n, nd[n]) = nd
      BY WithSame
    <3> HIDE DEF ms
    <3>4. AllGoOn(With(nd, n, nd[n]), With(nd, n, s.nd))
      BY <2>4, <3>1, <3>3, WithGoesOn
    <3>. QED  BY <3>2, <3>3, <3>4 DEF ms
  <2>7. CASE q.dst = n
    <3> DEFINE s1 == [s EXCEPT !.nd.seqno = own]
               v == [s.nd EXCEPT !.seqno = own]
               p == [type |-> "RREP", ttl |-> NETWORK_DIAMETER, ipdst |-> q.src,
                     hop_count |-> 1, dst |-> n, dst_seqno |-> own]
               a == s1.nd.rt[q.src].nexthop
    <3>1. own \in Nat
      BY <1>1, <2>4, MaxPair DEF ReplySeqno, Even
    <3> HIDE DEF own
    <3>2. v \in Agent /\ v.rt = s.nd.rt /\ v.seen = s.nd.seen
      BY <2>4, <3>1 DEF Agent
    <3>3. s1 \in Steps /\ s1.nd = v /\ s1.out = s.out /\ s1.status = s.status
      BY <2>4, <3>2 DEF Steps
    <3> HIDE DEF v
    <3>4. res = Unicast(s1, n, a, p)
      BY <2>1, <2>7 DEF sendReply
    <3> HIDE DEF s1, a
    <3>5. StepFar(n, s1, nd)
      <4> DEFINE O == {}
      <4>1. OutFar(O, With(nd, n, s1.nd)) /\ s1.out \subseteq s.out \cup O
            /\ Alike(s1.nd, s.nd) /\ s1.nd.seen = s.nd.seen
        BY <3>2, <3>3, AlikeSame DEF OutFar
      <4> HIDE DEF O
      <4>. QED  BY <2>3, <2>4, <3>3, <4>1, FarExtends
    <3>6. PacketFar(p, With(nd, n, s1.nd))
      <4>1. p.type = "RREP" /\ p.hop_count = 1
        OBVIOUS
      <4> HIDE DEF p
      <4>. QED  BY <4>1, OwnReplyFar
    <3> HIDE DEF p
    <3>7. StepFar(n, res, nd) /\ res.nd = s1.nd
      BY <3>3, <3>4, <3>5, <3>6, UnicastFar
    <3>. QED  BY <2>5, <3>2, <3>3, <3>7 DEF res
  <2>8. CASE q.dst # n /\ CanReply(r, q)
    <3> DEFINE p == [type |-> "RREP", ttl |-> NETWORK_DIAMETER, ipdst |-> q.src,
                     hop_count |-> r.hops + 1, dst |-> q.dst, dst_seqno |-> r.seqno]
               a == s.nd.rt[q.src].nexthop
               b == r.nexthop
    <3>1. Far(ms, q.dst, r.seqno, r.hops)
      <4>1. RouteFar(r, q.dst, ms)
        BY <1>1, <2>3, Zenon DEF StepFar, RoutesFar
      <4>2. EntryOK(r, nd[q.dst].seqno, u)
        BY <1>1, <2>2, Zenon DEF StepOK, AgentOK
      <4>3. r.flags = "UP"
        BY <2>4, <2>8, <4>1, <4>2, EntryFields DEF EntryOK, RouteFar, CanReply
      <4>. QED  BY <4>1, <4>3 DEF RouteFar
    <3>2. Far(ms, q.dst, r.seqno, r.hops + 1)
      BY <1>1, <2>4, <2>6, <3>1, FarNext
    <3>3. PacketFar(p, ms)
      BY <3>2 DEF PacketFar
    <3>4. p \in Packet /\ PacketOK(n, p, ms, TRUE)
      <4>1. EntryOK(r, nd[q.dst].seqno, u)
        BY <1>1, <2>2, Zenon DEF StepOK, AgentOK
      <4>2. 0 < r.seqno /\ Even(r.seqno) /\ r.seqno <= nd[q.dst].seqno
        BY <2>8, <4>1 DEF EntryOK, CanReply
      <4>3. ms[q.dst].seqno = nd[q.dst].seqno
        BY <1>1, <2>8 DEF With
      <4>4. p \in Rrep
        BY <1>1, <2>4, AodvAssumption DEF Rrep
      <4>5. RrepOK(n, p, ms, TRUE)
        BY <4>2, <4>3 DEF RrepOK
      <4>. QED  BY <4>4, <4>5 DEF Packet, PacketOK
    <3>5. res = Answered(s, n, p, q.dst, a, q.src, b)
      BY <2>1, <2>8 DEF sendReply, Answered
    <3> HIDE DEF p
    <3>6. a \in Node /\ b \in Node
      BY <2>4
    <3> HIDE DEF a, b
    <3>7. StepFar(n, res, nd) /\ res.nd.seen = s.nd.seen
      <4> DEFINE c == q.dst
                 g == q.src
                 t == Answered(s, n, p, c, a, g, b)
      <4>1. /\ s \in Steps /\ StepFar(n, s, nd) /\ p \in Packet
            /\ PacketFar(p, With(nd, n, s.nd))
            /\ c \in Node /\ a \in Node /\ g \in Node /\ b \in Node
        BY <1>1, <2>3, <2>4, <3>3, <3>4, <3>6
      <4>2. res = t
        BY <3>5
      <4> HIDE DEF c, g
      <4>3. StepFar(n, t, nd) /\ t.nd.seen = s.nd.seen
        BY <4>1, AnsweredFar
      <4>. QED  BY <4>2, <4>3
    <3>. QED  BY <2>5, <3>7 DEF res
  <2>9. CASE q.dst # n /\ ~CanReply(r, q) /\ q.ttl = 0
    BY <2>1, <2>3, <2>5, <2>9 DEF res
  <2>10. CASE q.dst # n /\ ~CanReply(r, q) /\ q.ttl # 0
    <3> DEFINE k == Max({q.dst_seqno, r.seqno})
               p == [q EXCEPT !.hop_count = @ + 1, !.dst_seqno = k]
               h == q.hop_count + 1
    <3>1. k \in Nat
      BY <1>1, <2>4, MaxPair
    <3>2. res = Broadcast(s, n, p)
      BY <2>1, <2>10
    <3>3. h \in Nat /\ p = [q EXCEPT !.hop_count = h, !.dst_seqno = k]
      BY <1>1
    <3> HIDE DEF k, h, p
    <3>4. /\ p \in Rreq /\ p.type = "RREQ" /\ p.src = q.src /\ p.src_seqno = q.src_seqno
          /\ p.bcast_id = q.bcast_id /\ p.hop_count = q.hop_count + 1
      BY <3>1, <3>3 DEF Rreq, h
    <3>5. q.hop_count <= Cardinality(Through(nd, q)) + 1
      BY DEF PacketFar, Rreq
    <3>6. p.hop_count <= Cardinality(Through(ms, p)) + 1
      <4>1. id \notin nd[n].seen /\ id \in ms[n].seen
            /\ Better(ms[n].rt[q.src], q.src_seqno, q.hop_count + 1)
        BY <1>4, <2>2, <2>5, <2>6
      <4> HIDE DEF ms
      <4>. QED  BY <2>6, <3>4, <3>5, <4>1, ThroughNext
    <3>7. PacketFar(p, ms)
      BY <3>4, <3>6 DEF PacketFar
    <3>8. StepFar(n, res, nd) /\ res.nd = s.nd
      BY <2>3, <2>4, <3>2, <3>7, BroadcastFar
    <3>. QED  BY <2>5, <3>8 DEF res
  <2>. QED  BY <2>7, <2>8, <2>9, <2>10
<1>. QED  BY <1>3, <1>4

(* The next hop towards the asker becomes a precursor. *)
Noted(s, d, m) == pc_insert(s, d, m)

LEMMA NotedFar ==
  ASSUME NEW nd \in [Node -> Agent], NEW n \in Node, NEW s \in Steps, StepFar(n, s, nd),
         NEW d \in Node, NEW m \in Node
  PROVE  StepFar(n, Noted(s, d, m), nd) /\ Noted(s, d, m).nd.seen = s.nd.seen
BY PrecursorFar DEF Noted

LEMMA RecvReplyFar ==
  ASSUME Small, NEW nd \in [Node -> Agent], NEW u \in BOOLEAN, ~u, AgentsOK(nd, u),
         NEW n \in Node, RoutesFar(nd[n], nd), NEW from \in Node, NEW r \in Rrep,
         RrepOK(from, r, nd, u), PacketFar(r, nd)
  PROVE  LET t == recvReply(nd[n], n, from, r)
         IN  StepFar(n, t, nd) /\ nd[n].seen \subseteq t.nd.seen
<1> DEFINE d == r.dst
           e == nd[n].rt[d]
           up == rt_update(e, r.dst_seqno, r.hop_count, from)
           new == [up EXCEPT !.req_cnt = 0, !.req_timeout = FALSE,
                             !.req_last_ttl = r.hop_count]
           v == [nd[n] EXCEPT !.rt[d] = new]
           s == Flush(Step(v), n, d)
           e0 == s.nd.rt[r.ipdst]
           p == [r EXCEPT !.hop_count = @ + 1]
           sent1 == IF r.ttl = 0 THEN s ELSE Unicast(s, n, e0.nexthop, p)
           res == recvReply(nd[n], n, from, r)
<1>1. d \in Node /\ r.ipdst \in Node /\ r.dst_seqno \in Nat /\ r.hop_count \in Nat
      /\ r.type = "RREP"
  BY DEF Rrep
<1>2. nd[n] \in Agent /\ e \in Entry
  BY <1>1, AgentFields
<1>3. CASE ~Fresher(e, r.dst_seqno, r.hop_count)
  <2>1. res = Step(nd[n]) /\ Step(nd[n]).nd = nd[n]
    BY <1>3 DEF recvReply, Step
  <2>. QED  BY <2>1, StillFar
<1>4. CASE Fresher(e, r.dst_seqno, r.hop_count)
  <2>1. res = IF r.ipdst = n \/ e0.hops = INFINITY2 THEN s
              ELSE pc_insert(Check(sent1, e0.flags = "UP"), d, e0.nexthop)
    BY <1>4 DEF recvReply
  <2> HIDE DEF res
  <2>2. up \in Entry /\ up.seqno = r.dst_seqno /\ up.hops = r.hop_count
        /\ up.flags = "UP" /\ up.nexthop = from
    BY <1>1, <1>2 DEF rt_update, Entry
  <2> HIDE DEF up
  <2>3. new \in Entry /\ new.seqno = r.dst_seqno /\ new.hops = r.hop_count
        /\ new.flags = "UP" /\ new.nexthop = from
    BY <1>1, <2>2 DEF Entry
  <2> HIDE DEF new
  <2>4. /\ v \in Agent /\ v.seqno = nd[n].seqno /\ v.rt[d] = new /\ v.seen = nd[n].seen
        /\ \A b \in Node \ {d} : v.rt[b] = nd[n].rt[b]
    <3>1. nd[n].rt \in [Node -> Entry]
      BY <1>2, AgentFields
    <3>2. [nd[n].rt EXCEPT ![d] = new] \in [Node -> Entry]
      BY <2>3, <3>1
    <3>3. v.rt = [nd[n].rt EXCEPT ![d] = new] /\ v \in Agent /\ v.seqno = nd[n].seqno
          /\ v.seen = nd[n].seen
      BY <1>2, <3>2 DEF Agent
    <3>. QED  BY <1>1, <3>1, <3>3
  <2> HIDE DEF v
  <2>5. /\ 0 < r.dst_seqno /\ Even(r.dst_seqno) /\ r.dst_seqno <= nd[d].seqno
        /\ from = d \/ Better(nd[from].rt[d], r.dst_seqno, r.hop_count)
    BY DEF RrepOK
  <2>6. Fresher(nd[n].rt[d], r.dst_seqno, r.hop_count)
    BY <1>4
  <2>7. Far(nd, d, r.dst_seqno, r.hop_count)
    BY <1>1 DEF PacketFar
  <2> DEFINE t == Step(v)
  <2>8. /\ v.rt[d].seqno = r.dst_seqno /\ v.rt[d].hops = r.hop_count
        /\ v.rt[d].flags = "UP" /\ v.rt[d].nexthop = from
    BY <2>3, <2>4
  <2>9. AgentOK(n, v, nd, u)
    <3> HIDE DEF d
    <3>. QED  BY <1>1, <2>4, <2>5, <2>6, <2>8, RouteLearnt
  <2>10. r.hop_count # INFINITY2 /\ StepFar(n, t, nd)
    <3>1. nd[n].seen \subseteq v.seen
      BY <2>4
    <3> HIDE DEF d
    <3>. QED  BY <1>1, <2>4, <2>6, <2>7, <2>8, <2>9, <3>1, LearntFar
  <2>11. StepOK(n, t, nd, u) /\ t.nd = v
    BY <2>9, StepBegins DEF Step
  <2> HIDE DEF t
  <2>12. s = Flush(t, n, d)
    BY DEF t
  <2> HIDE DEF s
  <2>13. StepFar(n, s, nd)
    BY <1>1, <2>8, <2>10, <2>11, <2>12, FlushFar
  <2>14. StepOK(n, s, nd, u) /\ s.nd.rt = v.rt /\ s.nd.seen = nd[n].seen
    BY <1>1, <2>4, <2>11, <2>12, FlushKeeps
  <2>15. /\ s \in Steps /\ s.nd \in Agent /\ e0 \in Entry /\ e0.nexthop \in Node
         /\ e0.flags \in {"UP", "DOWN", "IN_REPAIR"}
    BY <1>1, <2>14, StepFields, AgentFields, EntryFields
  <2>16. CASE r.ipdst = n \/ e0.hops = INFINITY2
    BY <2>1, <2>13, <2>14, <2>16 DEF res
  <2>17. CASE ~(r.ipdst = n \/ e0.hops = INFINITY2)
    <3> DEFINE ms == With(nd, n, s.nd)
               h == r.hop_count + 1
    <3>1. e0.flags = "UP"
      <4>1. EntryOK(e0, nd[r.ipdst].seqno, u)
        BY <1>1, <2>14, Zenon DEF StepOK, AgentOK
      <4>2. RouteFar(e0, r.ipdst, ms)
        BY <1>1, <2>13, Zenon DEF StepFar, RoutesFar
      <4>. QED  BY <2>15, <2>17, <4>1, <4>2 DEF EntryOK, RouteFar
    <3>2. h \in Nat /\ p = [r EXCEPT !.hop_count = h]
      BY <1>1
    <3> HIDE DEF h, p
    <3>3. /\ p \in Rrep /\ p.type = "RREP" /\ p.dst = d /\ p.dst_seqno = r.dst_seqno
          /\ p.hop_count = h
      BY <3>2 DEF Rrep
    <3>4. ms \in [Node -> Agent] /\ ms[n] = s.nd
      BY <2>15 DEF With
    <3>5. Far(ms, d, r.dst_seqno, r.hop_count)
      <4>1. RouteFar(s.nd.rt[d], d, ms)
        BY <1>1, <2>13, Zenon DEF StepFar, RoutesFar
      <4>. QED  BY <2>8, <2>14, <4>1 DEF RouteFar
    <3>6. Far(ms, d, r.dst_seqno, r.hop_count + 1)
      <4> HIDE DEF ms, d
      <4>. QED  BY <1>1, <2>8, <2>14, <3>4, <3>5, FarNext
    <3>7. p \in Packet /\ PacketFar(p, ms)
      BY <3>3, <3>6 DEF PacketFar, Packet, h
    <3>8. sent1 \in Steps /\ StepFar(n, sent1, nd) /\ sent1.nd = s.nd
      <4> DEFINE a == e0.nexthop
      <4>1. a \in Node
        BY <2>15
      <4> HIDE DEF a
      <4>2. Unicast(s, n, a, p) \in Steps
        BY <2>15, <3>7, <4>1 DEF Unicast, Steps, Message
      <4>3. StepFar(n, Unicast(s, n, a, p), nd) /\ Unicast(s, n, a, p).nd = s.nd
        BY <2>13, <2>15, <3>7, UnicastFar
      <4>. QED  BY <2>13, <2>15, <4>2, <4>3 DEF a
    <3>9. res = pc_insert(sent1, d, e0.nexthop)
      BY <2>1, <2>17, <3>1, CheckPasses
    <3> HIDE DEF sent1, ms
    <3>10. StepFar(n, res, nd) /\ res.nd.seen = sent1.nd.seen
      <4> DEFINE a == e0.nexthop
                 t1 == Noted(sent1, d, a)
      <4>1. sent1 \in Steps /\ StepFar(n, sent1, nd) /\ d \in Node /\ a \in Node
        BY <1>1, <2>15, <3>8
      <4>2. res = t1
        BY <3>9 DEF Noted
      <4> HIDE DEF a, d
      <4>3. StepFar(n, t1, nd) /\ t1.nd.seen = sent1.nd.seen
        BY <4>1, NotedFar
      <4>. QED  BY <4>2, <4>3
    <3>. QED  BY <2>14, <3>8, <3>10 DEF res
  <2>. QED  BY <2>16, <2>17
<1>. QED  BY <1>3, <1>4

-----------------------------------------------------------------------------
(* The network *)

LEMMA InitHopInv == Init => HopInv
<1> SUFFICES ASSUME Init PROVE HopInv
  OBVIOUS
<1>1. ASSUME NEW n \in Node, NEW d \in Node PROVE node[n].rt[d].flags = "DOWN"
  <2>1. node[n] = NewNode
    BY DEF Init
  <2>2. NewNode.rt = [c \in Node |-> NewEntry]
    BY DEF NewNode
  <2>. QED  BY <2>1, <2>2 DEF NewEntry
<1>2. AgentsFar(node)
  BY <1>1 DEF AgentsFar, RoutesFar, RouteFar
<1>3. OutFar(msgs, node)
  BY DEF Init, OutFar
<1>. QED  BY <1>2, <1>3 DEF Init, HopInv

(* A step of one agent keeps the invariant. *)
LEMMA TakeFar ==
  ASSUME IInv, HopInv, ~repaired, NEW n \in Node, NEW s, NEW gone, StepOK(n, s, node, undone),
         StepFar(n, s, node), node[n].seen \subseteq s.nd.seen,
         Take(n, s, gone), UNCHANGED <<undone, repairs>>
  PROVE  HopInv'
<1>1. /\ node \in [Node -> Agent] /\ undone \in BOOLEAN /\ msgs \in SUBSET Message
      /\ ~undone /\ repairs = {} /\ AgentsFar(node) /\ OutFar(msgs, node)
  BY DEF IInv, TypeInv, HopInv
<1>2. /\ s \in Steps /\ s.nd \in Agent /\ s.status = "ok"
      /\ RoutesFar(s.nd, With(node, n, s.nd)) /\ OutFar(s.out, With(node, n, s.nd))
  BY StepFields DEF StepOK, StepFar
<1>3. node' = With(node, n, s.nd) /\ status' = s.status /\ msgs' \subseteq msgs \cup s.out
  BY DEF Take, With
<1>4. GoesOn(node[n], s.nd)
  BY <1>1 DEF StepOK, AgentOK, GoesOn
<1>5. With(node, n, s.nd) \in [Node -> Agent] /\ AllGoOn(node, With(node, n, s.nd))
  BY <1>1, <1>2, <1>4, WithGoesOn, WithSame
<1>6. ASSUME NEW m \in Node PROVE RoutesFar(node'[m], node')
  <2>1. CASE m = n
    <3>1. node'[m] = s.nd
      BY <1>1, <1>3, <2>1 DEF With
    <3>. QED  BY <1>2, <1>3, <3>1
  <2>2. CASE m # n
    <3>1. node'[m] = node[m] /\ node[m] \in Agent
      BY <1>1, <1>3, <2>2 DEF With
    <3>2. RoutesFar(node[m], node)
      BY <1>1 DEF AgentsFar
    <3>3. \A d \in Node : SameRoute(node[m].rt[d], node[m].rt[d])
      BY DEF SameRoute
    <3>4. RoutesFar(node[m], With(node, n, s.nd))
      BY <1>1, <1>5, <3>1, <3>2, <3>3, RoutesFarStay
    <3>. QED  BY <1>3, <3>1, <3>4
  <2>. QED  BY <2>1, <2>2
<1>7. OutFar(msgs', node')
  <2>1. OutFar(msgs, With(node, n, s.nd))
    BY <1>1, <1>5, OutFarStays
  <2>. QED  BY <1>2, <1>3, <2>1 DEF OutFar
<1>. QED  BY <1>1, <1>2, <1>3, <1>6, <1>7 DEF HopInv, AgentsFar

(* And so does one that brings no route up. *)
LEMMA TakeQuiet ==
  ASSUME Small, IInv, HopInv, ~repaired, NEW n \in Node, NEW s, NEW gone,
         StepOK(n, s, node, undone), Quiet(s, node[n]),
         Take(n, s, gone), UNCHANGED <<undone, repairs>>
  PROVE  HopInv'
<1>1. /\ node \in [Node -> Agent] /\ undone = FALSE /\ AgentsOK(node, undone)
      /\ RoutesFar(node[n], node)
  BY DEF IInv, TypeInv, HopInv, AgentsFar
<1>2. AgentsOK(node, FALSE) /\ StepOK(n, s, node, FALSE)
  BY <1>1
<1>3. StepFar(n, s, node) /\ GoesOn(node[n], s.nd)
  BY <1>1, <1>2, QuietFar
<1>4. node[n].seen \subseteq s.nd.seen
  BY <1>3 DEF GoesOn
<1>. QED  BY <1>3, <1>4, TakeFar

(* A route packet on its way. *)
LEMMA MessageFar ==
  ASSUME IInv, HopInv, ~repaired, NEW x \in msgs
  PROVE  x.pkt.type \in {"RREQ", "RREP"} => PacketFar(Aged(x.pkt), node)
<1> DEFINE p == x.pkt
<1>1. PacketFar(p, node) /\ p \in Packet
  BY DEF HopInv, OutFar, IInv, TypeInv, Message
<1> HIDE DEF p
<1>2. CASE p.type = "RREQ"
  <2>1. p \in Rreq
    BY <1>1, <1>2 DEF Packet, Data, Rrep, Rerr
  <2>2. /\ Aged(p).src = p.src /\ Aged(p).src_seqno = p.src_seqno
        /\ Aged(p).bcast_id = p.bcast_id /\ Aged(p).hop_count = p.hop_count
        /\ Aged(p).type = p.type
    BY <2>1 DEF Aged, Rreq
  <2>3. Through(node, Aged(p)) = Through(node, p)
    BY <2>2 DEF Through
  <2>. QED  BY <1>1, <1>2, <2>2, <2>3 DEF PacketFar, p
<1>3. CASE p.type = "RREP"
  <2>1. p \in Rrep
    BY <1>1, <1>3 DEF Packet, Data, Rreq, Rerr
  <2>2. /\ Aged(p).dst = p.dst /\ Aged(p).dst_seqno = p.dst_seqno
        /\ Aged(p).hop_count = p.hop_count /\ Aged(p).type = p.type
    BY <2>1 DEF Aged, Rrep
  <2>. QED  BY <1>1, <1>3, <2>2 DEF PacketFar, p
<1>. QED  BY <1>2, <1>3 DEF p

LEMMA NextHopInv == Small /\ IInv /\ HopInv /\ [Next]_vars => HopInv'
<1> SUFFICES ASSUME Small, IInv, HopInv, [Next]_vars, ~repaired' PROVE HopInv'
  BY DEF HopInv
<1>0. /\ node \in [Node -> Agent] /\ undone \in BOOLEAN /\ AgentsOK(node, undone)
      /\ repaired \in BOOLEAN
  BY DEF IInv, TypeInv
<1>a. ~repaired => /\ ~undone /\ repairs = {}
                   /\ \A n \in Node : RoutesFar(node[n], node)
  BY DEF HopInv, AgentsFar
<1>1. ASSUME NEW x \in msgs, RecvRequest(x) PROVE HopInv'
  <2> DEFINE s == recvRequest(node[x.to], x.to, x.from, Aged(x.pkt))
  <2>1. x.pkt.type = "RREQ" /\ Take(x.to, s, {x}) /\ UNCHANGED <<repairs, repaired, undone>>
    BY <1>1 DEF RecvRequest, Arrives
  <2>2. /\ x.from \in Node /\ x.to \in Node /\ Aged(x.pkt) \in Rreq
        /\ RreqOK(x.from, Aged(x.pkt), node, undone)
    BY <2>1, MessageOK
  <2>3. StepOK(x.to, s, node, undone)
    BY <1>0, <2>2, RecvRequestKeeps
  <2>4. PacketFar(Aged(x.pkt), node)
    BY <2>1, MessageFar
  <2>5. StepFar(x.to, s, node) /\ node[x.to].seen \subseteq s.nd.seen
    BY <1>0, <1>a, <2>1, <2>2, <2>4, RecvRequestFar
  <2> HIDE DEF s
  <2>. QED  BY <2>1, <2>2, <2>3, <2>5, TakeFar
<1>2. ASSUME NEW x \in msgs, RecvReply(x) PROVE HopInv'
  <2> DEFINE s == recvReply(node[x.to], x.to, x.from, Aged(x.pkt))
  <2>1. x.pkt.type = "RREP" /\ Take(x.to, s, {x}) /\ UNCHANGED <<repairs, repaired, undone>>
    BY <1>2 DEF RecvReply, Arrives
  <2>2. /\ x.from \in Node /\ x.to \in Node /\ Aged(x.pkt) \in Rrep
        /\ RrepOK(x.from, Aged(x.pkt), node, undone)
    BY <2>1, MessageOK
  <2>3. StepOK(x.to, s, node, undone)
    BY <1>0, <2>2, RecvReplyKeeps
  <2>4. PacketFar(Aged(x.pkt), node)
    BY <2>1, MessageFar
  <2>5. StepFar(x.to, s, node) /\ node[x.to].seen \subseteq s.nd.seen
    BY <1>0, <1>a, <2>1, <2>2, <2>4, RecvReplyFar
  <2> HIDE DEF s
  <2>. QED  BY <2>1, <2>2, <2>3, <2>5, TakeFar
<1>3. ASSUME NEW x \in msgs, RecvError(x) PROVE HopInv'
  <2> DEFINE s == recvError(node[x.to], x.to, x.from, Aged(x.pkt))
  <2>1. x.pkt.type = "RERR" /\ UNCHANGED <<repairs, repaired, undone>>
    BY <1>3 DEF RecvError, Arrives
  <2>2. PICK F : Take(x.to, s, F \cup {x})
    BY <1>3, Zenon DEF RecvError
  <2>3. x.from \in Node /\ x.to \in Node /\ Aged(x.pkt) \in Rerr
        /\ LostOK(Aged(x.pkt).lost, node, undone)
    BY <2>1, MessageOK
  <2>4. StepOK(x.to, s, node, undone)
    BY <1>0, <2>3, RecvErrorKeeps
  <2>5. Quiet(s, node[x.to])
    BY <1>0, <2>3, QuietRecvError
  <2> HIDE DEF s
  <2>. QED  BY <2>1, <2>2, <2>3, <2>4, <2>5, TakeQuiet
<1>4. ASSUME NEW x \in msgs, RecvData(x) PROVE HopInv'
  <2> DEFINE p == [x.pkt EXCEPT !.forwards = @ + 1]
             s == IF p.dst = x.to THEN Step(node[x.to]) ELSE recvData(node[x.to], x.to, p)
  <2>1. x.pkt \in InFlight /\ x.to \in Node /\ node[x.to] \in Agent
    BY <1>0, <1>4, MessageOK DEF RecvData, Arrives
  <2>2. StepOK(x.to, Step(node[x.to]), node, undone)
    BY <1>0, <2>1, StandsStill, StepBegins
  <2>3. StepOK(x.to, recvData(node[x.to], x.to, p), node, undone)
    BY <1>0, <2>1, RecvDataKeeps
  <2>4. Quiet(Step(node[x.to]), node[x.to])
    <3>1. Keeps(node[x.to], node[x.to])
      BY DEF Keeps, SameRoute
    <3>. QED  BY <3>1, QuietBegins
  <2>5. Quiet(recvData(node[x.to], x.to, p), node[x.to])
    BY <2>1, QuietData
  <2>6. Take(x.to, s, {x}) /\ UNCHANGED <<repairs, repaired, undone>>
    BY <1>4 DEF RecvData
  <2> HIDE DEF p
  <2>7. StepOK(x.to, s, node, undone) /\ Quiet(s, node[x.to])
    BY <2>2, <2>3, <2>4, <2>5
  <2> HIDE DEF s
  <2>. QED  BY <2>1, <2>6, <2>7, TakeQuiet
<1>5. ASSUME NEW x \in msgs, Lose(x) PROVE HopInv'
  BY <1>5 DEF Lose, HopInv, AgentsFar, OutFar
<1>6. ASSUME NEW x \in msgs, NEW due, LinkFailed(x, due) PROVE HopInv'
  <2> DEFINE n == x.from
             s == nb_delete(node[n], n, x.to)
  <2>1. x.to \in Node /\ n \in Node
    BY <1>6, MessageOK
  <2>2. ~repaired /\ ~Repairs(node[n], x.pkt)
    BY <1>0, <1>6 DEF LinkFailed
  <2>3. UNCHANGED <<repairs, undone>> /\ rt_ll_failed(node[n], n, x.to, x.pkt, due) = s
    BY <1>6, <2>2 DEF LinkFailed, rt_ll_failed
  <2>4. PICK F : Take(n, rt_ll_failed(node[n], n, x.to, x.pkt, due), F \cup {x})
    BY <1>6, Zenon DEF LinkFailed
  <2>5. StepOK(n, s, node, undone)
    BY <1>0, <2>1, NbDeleteKeeps
  <2>6. Quiet(s, node[n])
    BY <1>0, <2>1, QuietNbDelete
  <2>7. Take(n, s, F \cup {x})
    BY <2>3, <2>4
  <2> HIDE DEF s, n
  <2>. QED  BY <2>1, <2>2, <2>3, <2>5, <2>6, <2>7, TakeQuiet
<1>7. ASSUME NEW r \in repairs, RepairTimeout(r) PROVE HopInv'
  BY <1>7, <1>a DEF RepairTimeout
<1>8. ASSUME NEW due, NEW f \in Flow, Originate(f, due) PROVE HopInv'
  <2> DEFINE p == [type |-> "DATA", src |-> f.src, dst |-> f.dst, id |-> f.id,
                   ttl |-> NETWORK_DIAMETER, forwards |-> 0]
             s == rt_resolve(node[f.src], f.src, p, due)
  <2>1. f.src \in Node /\ f.dst \in Node /\ f.id \in Nat /\ NETWORK_DIAMETER \in Nat
        /\ 0 < NETWORK_DIAMETER /\ node[f.src] \in Agent
    BY <1>0, AodvAssumption
  <2>2. p \in InFlight
    BY <2>1 DEF InFlight, Data
  <2>3. Take(f.src, s, {}) /\ UNCHANGED <<repairs, repaired, undone>>
    BY <1>8 DEF Originate
  <2> HIDE DEF p
  <2>4. StepOK(f.src, s, node, undone)
    BY <1>0, <2>1, <2>2, ResolveKeeps
  <2>5. Quiet(s, node[f.src])
    BY <2>1, <2>2, QuietResolve
  <2> HIDE DEF s
  <2>. QED  BY <2>1, <2>3, <2>4, <2>5, TakeQuiet
<1>9. ASSUME NEW due, NEW n \in Node, NEW X \in SUBSET Up(n), RtPurge(n, X, due)
      PROVE  HopInv'
  <2> DEFINE s == rt_purge(node[n], n, X, due)
  <2>1. Take(n, s, {}) /\ UNCHANGED <<repairs, repaired, undone>>
    BY <1>9 DEF RtPurge
  <2>2. StepOK(n, s, node, undone)
    BY <1>0, PurgeKeeps
  <2>3. Quiet(s, node[n])
    BY <1>0, QuietPurge
  <2> HIDE DEF s
  <2>. QED  BY <2>1, <2>2, <2>3, TakeQuiet
<1>10. CASE UNCHANGED vars
  BY <1>10 DEF vars, HopInv, AgentsFar, OutFar
<1>. QED  BY <1>1, <1>2, <1>3, <1>4, <1>5, <1>6, <1>7, <1>8, <1>9, <1>10, Zenon
          DEF Next, Receive

(* Whatever is lost, reordered or broken, no assertion of the handlers     *)
(* (a route in use has a hop count: forward, sendRequest and rt_purge; the *)
(* way back of a reply is up: recvReply; a route that breaks is up and its *)
(* number even: recvError, handle_link_failure and rt_purge) fails in a    *)
(* network that has tried no local repair and has fewer nodes than         *)
(* INFINITY2, the hop count of a route that is down: 255 in the code.      *)
THEOREM AssertsNeedRepair == Small => (Spec => []AssertNeedsRepair)
<1>1. HopInv => AssertNeedsRepair
  BY DEF HopInv, AssertNeedsRepair, Running
<1>2. Small => (HopInv /\ IInv /\ [Next]_vars => HopInv')
  BY NextHopInv
<1> SUFFICES ASSUME Small PROVE Spec => []AssertNeedsRepair
  OBVIOUS
<1>3. IInv /\ HopInv /\ [Next]_vars => HopInv'
  BY <1>2
<1>. QED  BY <1>1, <1>3, InitHopInv, SpecIInv, PTL DEF Spec

===============================================================================
