----------------------------- MODULE MyPingProofs -----------------------------
(***************************************************************************)
(* Proofs of the properties of MyPing: that a link's queue, its callback   *)
(* and its packets on the way stay together, and that pings and answers    *)
(* keep their order.                                                       *)
(*                                                                         *)
(* What holds of one direction of the link is stated on the link record    *)
(* (Body, CallbackOK, InLine, OnTheWay) with the clock t, the next uid u,  *)
(* whether the delay was made shorter c and the pings P as parameters;     *)
(* each method of SimpleLink has a lemma saying that it keeps them.        *)
(***************************************************************************)
EXTENDS MyPing, ListLemmas

Pkt ==
  [class : {"data"}, ret : {0, 1}, send_time : Nat, id : Nat]
  \cup [class : {"routing"}, id : Nat]

PktEvent == [pkt : Pkt, time : Nat, uid : Nat]

IsData(p, r) == p.class = "data" /\ p.ret = r

Intr == [time : Int, uid : Nat]
Failure == {"no", "uid", "assert"}

LinkType ==
  [config : Config, status : BOOLEAN, pq : Seq(Pkt), blocked : BOOLEAN, qlim : Nat,
   delay : Delays, itq : Seq(PktEvent), latest : Nat, transit : SUBSET PktEvent,
   intr : Intr, failed : Failure]

(* The end of the last transmission, past or under way. *)
Sent(l, t) == IF l.intr = NoEvent THEN t ELSE l.intr.time

(* No event of the link is before the clock, and all uids are used. *)
NotLate(l, t, u) ==
  /\ l.intr # NoEvent => l.intr.time >= t
  /\ \A y \in l.transit : y.time >= t /\ y.uid < u

(* itq_ holds the packets on their way in the order of their events. *)
ItqOK(l, c) ==
  /\ l.failed = "assert" => c
  /\ l.config.mode = "dynamic" /\ l.failed = "no" =>
       /\ l.transit = Range(l.itq)
       /\ \A i, j \in 1..Len(l.itq) :
            i < j => /\ l.itq[i].uid < l.itq[j].uid
                     /\ ~c => l.itq[i].time <= l.itq[j].time

(* A packet sent now comes out after those on their way: latest_time_ sees *)
(* to that on an ordered link, the delay on the others.                    *)
TimesOK(l, t, c) ==
  /\ ~c /\ l.config.mode # "ordered" =>
       \A y \in l.transit : y.time <= Sent(l, t) + l.delay
  /\ l.config.mode = "ordered" => \A y \in l.transit : y.time <= l.latest

Shortest == TxTime["data"] + Min(Delays)

(* p, if a ping or an answer on the link of n, belongs to a ping that was  *)
(* sent, by n or by its peer, and carries its time.                        *)
Genuine(p, n, P) ==
  p.class = "data" =>
    /\ p.id \in DOMAIN P
    /\ p.send_time = P[p.id].time
    /\ P[p.id].agent = IF p.ret = 0 THEN n ELSE Peer(n)

(* p has been sent, and crossed the link k times, by the time t. *)
Aged(p, k, t) == p.class = "data" => t >= p.send_time + (p.ret + k) * Shortest

ContentOK(l, n, t, P) ==
  /\ \A i \in 1..Len(l.pq) : Genuine(l.pq[i], n, P) /\ Aged(l.pq[i], 0, t)
  /\ \A y \in l.transit : Genuine(y.pkt, n, P) /\ Aged(y.pkt, 1, y.time)

Body(l, n, t, u, c, P) ==
  /\ l \in LinkType
  /\ NotLate(l, t, u) /\ ItqOK(l, c) /\ TimesOK(l, t, c) /\ ContentOK(l, n, t, P)

CallbackOK(l) == (l.blocked <=> l.intr # NoEvent) /\ l.failed # "uid"

(* The pings (r = 0) or answers (r = 1) in the queue are in order, behind  *)
(* those on their way.                                                     *)
InLine(l, r) ==
  /\ \A i, j \in 1..Len(l.pq) :
       i < j /\ IsData(l.pq[i], r) /\ IsData(l.pq[j], r) => l.pq[i].id < l.pq[j].id
  /\ \A y \in l.transit, i \in 1..Len(l.pq) :
       IsData(y.pkt, r) /\ IsData(l.pq[i], r) => y.pkt.id < l.pq[i].id

Sooner(y, z) == y.time < z.time \/ (y.time = z.time /\ y.uid < z.uid)

OnTheWay(l, r) ==
  \A y, z \in l.transit :
    y # z /\ IsData(y.pkt, r) /\ IsData(z.pkt, r) =>
      y.pkt.id # z.pkt.id /\ (y.pkt.id < z.pkt.id => Sooner(y, z))

On(l) == {l.pq[i] : i \in 1..Len(l.pq)} \cup {y.pkt : y \in l.transit}

(* Every answer on l comes before every ping on k that is still to be      *)
(* answered onto l.                                                        *)
Answered(k, l) ==
  \A p \in On(l), q \in On(k) : IsData(p, 1) /\ IsData(q, 0) => p.id < q.id

Ordered(l) == l.config.mode = "ordered"

(* The link k's packets come out in the order they went in. *)
Straight(k, c) == Ordered(k) \/ ~c

(* Pings keep their order in the queue, answers too if the pings came in   *)
(* order (o); on their way they keep it if the link is straight.           *)
LineOK(l, o, c) ==
  \A r \in {0, 1} : r = 0 \/ o =>
    InLine(l, r) /\ (Straight(l, c) => OnTheWay(l, r))

PingRec == [agent : Node, time : Nat]

TypeInv ==
  /\ now \in Nat /\ uids \in Nat \ {0}
  /\ pings \in Seq(PingRec) /\ routing \in Nat
  /\ cut \in [Node -> BOOLEAN]
  /\ link \in [Node -> LinkType] /\ link["a"].config = link["b"].config
  /\ \A i \in DOMAIN pings : pings[i].time <= now

ReportsOK ==
  \A r \in reports :
    /\ r.id \in DOMAIN pings /\ pings[r.id].agent = r.agent
    /\ r.rtt \in Nat /\ r.rtt >= 2 * Shortest
    /\ pings[r.id].time + r.rtt <= now

LinksOK ==
  \A n \in Node : Body(link[n], n, now, uids, cut[n], pings) /\ CallbackOK(link[n])

OrderOK ==
  \A n \in Node :
    LET o == Straight(link[Peer(n)], cut[Peer(n)])
    IN  LineOK(link[n], o, cut[n]) /\ (o => Answered(link[Peer(n)], link[n]))

IInv == TypeInv /\ ReportsOK /\ LinksOK /\ OrderOK

-----------------------------------------------------------------------------
(* Constants. *)

LEMMA Consts ==
  /\ TxTime["data"] \in Nat \ {0} /\ TxTime["routing"] \in Nat \ {0}
  /\ Delays \subseteq Nat /\ Limits \subseteq Nat
  /\ Min(Delays) \in Nat /\ \A d \in Delays : Min(Delays) <= d
  /\ Max(Delays) \in Delays /\ Max(Limits) \in Limits
  /\ Shortest \in Nat /\ Shortest >= 1
<1>1. TxTime["data"] \in Nat \ {0} /\ TxTime["routing"] \in Nat \ {0}
  BY LinkAssumption
<1>2. Delays \subseteq Nat /\ Limits \subseteq Nat
  BY MyPingAssumption
<1>3. Max(Delays) \in Delays
  BY MyPingAssumption, Zenon DEF Max
<1>4. Max(Limits) \in Limits
  BY MyPingAssumption, Zenon DEF Max
<1>5. Min(Delays) \in Delays /\ \A d \in Delays : Min(Delays) <= d
  BY <1>2, <1>3, MinNat
<1>6. Min(Delays) \in Nat
  BY <1>2, <1>5
<1>. QED  BY <1>1, <1>2, <1>3, <1>4, <1>5, <1>6 DEF Shortest

LEMMA PktFields ==
  ASSUME NEW p \in Pkt
  PROVE  /\ p.class \in {"data", "routing"} /\ p.id \in Nat
         /\ p.class = "data" => p.ret \in {0, 1} /\ p.send_time \in Nat
         /\ TxTime[p.class] \in Nat \ {0}
BY Consts DEF Pkt

LEMMA EventFields ==
  ASSUME NEW y \in PktEvent
  PROVE  y.pkt \in Pkt /\ y.time \in Nat /\ y.uid \in Nat
BY DEF PktEvent

LEMMA LinkFields ==
  ASSUME NEW l \in LinkType
  PROVE  /\ l.config \in Config /\ l.status \in BOOLEAN /\ l.pq \in Seq(Pkt)
         /\ l.blocked \in BOOLEAN /\ l.qlim \in Nat /\ l.delay \in Delays
         /\ l.delay \in Nat /\ l.itq \in Seq(PktEvent) /\ l.latest \in Nat
         /\ l.transit \subseteq PktEvent /\ l.intr \in Intr
         /\ l.intr.time \in Int /\ l.intr.uid \in Nat
         /\ l.failed \in Failure
<1>1. /\ l.config \in Config /\ l.status \in BOOLEAN /\ l.pq \in Seq(Pkt)
      /\ l.blocked \in BOOLEAN /\ l.qlim \in Nat /\ l.delay \in Delays
      /\ l.itq \in Seq(PktEvent) /\ l.latest \in Nat
      /\ l.transit \subseteq PktEvent /\ l.intr \in Intr
      /\ l.failed \in Failure
  BY DEF LinkType
<1>. QED  BY <1>1, Consts DEF Intr

-----------------------------------------------------------------------------
(* Queues. *)

(* s is a contiguous part of q. *)
Part(s, q) ==
  /\ s \in Seq(Pkt)
  /\ \E k \in Nat : Len(s) + k <= Len(q) /\ \A i \in 1..Len(s) : s[i] = q[i + k]

LEMMA PartOfSelf ==
  ASSUME NEW q \in Seq(Pkt)  PROVE Part(q, q)
<1>1. Len(q) + 0 <= Len(q) /\ \A i \in 1..Len(q) : q[i] = q[i + 0]
  BY LenProperties
<1>. QED  BY <1>1 DEF Part

LEMMA PartEmpty ==
  ASSUME NEW q \in Seq(Pkt)  PROVE Part(<< >>, q)
<1>1. << >> \in Seq(Pkt) /\ Len(<< >>) = 0 /\ Len(<< >>) + 0 <= Len(q)
  BY LenProperties, EmptySeq
<1>. QED  BY <1>1 DEF Part

LEMMA PartOfPart ==
  ASSUME NEW q, NEW s, NEW v, q \in Seq(Pkt), Part(s, q), Part(v, s)
  PROVE  Part(v, q)
<1>1. PICK k \in Nat : Len(s) + k <= Len(q) /\ \A i \in 1..Len(s) : s[i] = q[i + k]
  BY DEF Part
<1>2. PICK h \in Nat : Len(v) + h <= Len(s) /\ \A i \in 1..Len(v) : v[i] = s[i + h]
  BY DEF Part
<1>3. s \in Seq(Pkt) /\ v \in Seq(Pkt)
  BY DEF Part
<1>4. Len(s) \in Nat /\ Len(v) \in Nat /\ Len(q) \in Nat
  BY <1>3, LenProperties
<1>5. Len(v) + (h + k) <= Len(q)
  BY <1>1, <1>2, <1>4
<1>6. ASSUME NEW i \in 1..Len(v)  PROVE v[i] = q[i + (h + k)]
  <2>1. i + h \in 1..Len(s)
    BY <1>2, <1>4
  <2>2. v[i] = s[i + h] /\ s[i + h] = q[(i + h) + k]
    BY <1>1, <1>2, <2>1
  <2>3. (i + h) + k = i + (h + k)
    OBVIOUS
  <2>. QED  BY <2>2, <2>3
<1>7. h + k \in Nat
  OBVIOUS
<1>. QED  BY <1>3, <1>5, <1>6, <1>7 DEF Part

LEMMA SubSeqPart ==
  ASSUME NEW q \in Seq(Pkt), NEW a \in Nat \ {0}, NEW b \in Nat, b <= Len(q)
  PROVE  Part(SubSeq(q, a, b), q)
<1> DEFINE s == SubSeq(q, a, b)
<1>0. Len(q) \in Nat
  BY LenProperties
<1>1. CASE a <= b
  <2>1. s \in Seq(Pkt) /\ Len(s) = b - a + 1 /\ \A i \in 1..(b - a + 1) : s[i] = q[a + i - 1]
    BY <1>0, <1>1, SubSeqProperties
  <2>2. a - 1 \in Nat /\ Len(s) + (a - 1) <= Len(q)
    BY <1>0, <1>1, <2>1
  <2>3. ASSUME NEW i \in 1..Len(s)  PROVE s[i] = q[i + (a - 1)]
    <3>1. a + i - 1 = i + (a - 1)
      BY <2>1
    <3>. QED  BY <2>1, <3>1
  <2>4. Part(s, q)
    <3>. HIDE DEF s
    <3>. QED  BY <2>1, <2>2, <2>3 DEF Part
  <2>. QED  BY <2>4
<1>2. CASE a > b
  <2>1. s = << >>
    BY <1>0, <1>2
  <2>. QED  BY <2>1, PartEmpty
<1>. QED  BY <1>1, <1>2

LEMMA TailPart ==
  ASSUME NEW q \in Seq(Pkt), q # << >>
  PROVE  /\ Part(Tail(q), q) /\ Head(q) = q[1] /\ Head(q) \in Pkt
         /\ Len(q) >= 1 /\ Tail(q) \in Seq(Pkt) /\ Len(Tail(q)) = Len(q) - 1
         /\ \A i \in 1..(Len(q) - 1) : Tail(q)[i] = q[i + 1]
<1>1. /\ Len(q) \in Nat /\ Len(q) >= 1 /\ Head(q) = q[1] /\ Head(q) \in Pkt
      /\ Tail(q) \in Seq(Pkt) /\ Len(Tail(q)) = Len(q) - 1
      /\ \A i \in 1..(Len(q) - 1) : Tail(q)[i] = q[i + 1]
  BY HeadTailProperties, LenProperties, EmptySeq
<1>2. Len(Tail(q)) + 1 <= Len(q) /\ \A i \in 1..Len(Tail(q)) : Tail(q)[i] = q[i + 1]
  BY <1>1
<1>. QED  BY <1>1, <1>2 DEF Part

-----------------------------------------------------------------------------
(* What the methods of the queue keep. *)

(* r is l with another queue, status_ and qlim_. *)
SameDelay(l, r) ==
  /\ l \in LinkType /\ r \in LinkType
  /\ r.config = l.config /\ r.blocked = l.blocked /\ r.delay = l.delay
  /\ r.itq = l.itq /\ r.latest = l.latest /\ r.transit = l.transit
  /\ r.intr = l.intr /\ r.failed = l.failed

(* Packets that leave the queue disturb nothing. *)
LEMMA TrimKeeps ==
  ASSUME NEW l, NEW r, SameDelay(l, r), Part(r.pq, l.pq)
  PROVE  /\ \A n, t, u, c, P : Body(l, n, t, u, c, P) => Body(r, n, t, u, c, P)
         /\ CallbackOK(l) => CallbackOK(r)
         /\ \A d : InLine(l, d) => InLine(r, d)
         /\ \A d : OnTheWay(l, d) => OnTheWay(r, d)
         /\ On(r) \subseteq On(l)
         /\ Ordered(r) = Ordered(l)
<1>0. PICK k \in Nat : /\ Len(r.pq) + k <= Len(l.pq)
                      /\ \A i \in 1..Len(r.pq) : r.pq[i] = l.pq[i + k]
  BY DEF Part
<1>1. Len(r.pq) \in Nat /\ Len(l.pq) \in Nat
  <2>1. r.pq \in Seq(Pkt) /\ l.pq \in Seq(Pkt)
    BY LinkFields DEF SameDelay
  <2>. QED  BY <2>1, LenProperties
<1>2. \A i \in 1..Len(r.pq) : i + k \in 1..Len(l.pq) /\ r.pq[i] = l.pq[i + k]
  BY <1>0, <1>1
<1>3. \A i, j \in 1..Len(r.pq) : i < j => i + k < j + k
  BY <1>1
<1>4. ASSUME NEW n, NEW t, NEW u, NEW c, NEW P, Body(l, n, t, u, c, P)
      PROVE  Body(r, n, t, u, c, P)
  <2>1. NotLate(r, t, u) /\ ItqOK(r, c) /\ TimesOK(r, t, c)
    BY <1>4 DEF Body, SameDelay, NotLate, ItqOK, TimesOK, Sent
  <2>2. ContentOK(r, n, t, P)
    BY <1>2, <1>4 DEF Body, SameDelay, ContentOK
  <2>. QED  BY <2>1, <2>2 DEF Body, SameDelay
<1>5. ASSUME NEW d, InLine(l, d)  PROVE InLine(r, d)
  BY <1>2, <1>3, <1>5 DEF SameDelay, InLine
<1>6. On(r) \subseteq On(l)
  BY <1>2 DEF SameDelay, On
<1>. QED  BY <1>4, <1>5, <1>6 DEF SameDelay, CallbackOK, OnTheWay, Ordered

(* p has a greater id than those of its kind on the link. *)
Newest(p, r, l) == IsData(p, r) => \A q \in On(l) : IsData(q, r) => q.id < p.id

(* p, at the end of the line, or in front if it is none of those in line. *)
LEMMA JoinKeeps ==
  ASSUME NEW l, NEW e, NEW p \in Pkt, SameDelay(l, e),
         \/ e.pq = Append(l.pq, p)
         \/ e.pq = <<p>> \o l.pq /\ p.class = "routing"
  PROVE  /\ \A n, t, u, c, P :
              Body(l, n, t, u, c, P) /\ Genuine(p, n, P) /\ Aged(p, 0, t)
                => Body(e, n, t, u, c, P)
         /\ CallbackOK(l) => CallbackOK(e)
         /\ \A d : InLine(l, d) /\ Newest(p, d, l) => InLine(e, d)
         /\ \A d : OnTheWay(l, d) => OnTheWay(e, d)
         /\ On(e) \subseteq On(l) \cup {p}
         /\ Ordered(e) = Ordered(l)
<1> DEFINE N == Len(l.pq)
<1>0. /\ CallbackOK(l) => CallbackOK(e)
      /\ \A d : OnTheWay(l, d) => OnTheWay(e, d)
      /\ Ordered(e) = Ordered(l)
  BY DEF SameDelay, CallbackOK, OnTheWay, Ordered
<1>1. l.pq \in Seq(Pkt) /\ N \in Nat
  BY LinkFields, LenProperties DEF SameDelay
<1>2. CASE e.pq = Append(l.pq, p)
  <2>1. /\ Len(e.pq) = N + 1 /\ e.pq[N + 1] = p
        /\ \A i \in 1..N : e.pq[i] = l.pq[i]
    BY <1>1, <1>2, AppendProperties
  <2>2. \A i \in 1..Len(e.pq) : i = N + 1 \/ i \in 1..N
    BY <1>1, <2>1
  <2>3. ASSUME NEW n, NEW t, NEW u, NEW c, NEW P, Body(l, n, t, u, c, P),
               Genuine(p, n, P), Aged(p, 0, t)
        PROVE  Body(e, n, t, u, c, P)
    <3>1. NotLate(e, t, u) /\ ItqOK(e, c) /\ TimesOK(e, t, c)
      BY <2>3 DEF Body, SameDelay, NotLate, ItqOK, TimesOK, Sent
    <3>2. ContentOK(e, n, t, P)
      BY <2>1, <2>2, <2>3 DEF Body, SameDelay, ContentOK
    <3>. QED  BY <3>1, <3>2 DEF Body, SameDelay
  <2>4. \A i \in 1..N : l.pq[i] \in On(l)
    BY DEF On
  <2>5. \A y \in l.transit : y.pkt \in On(l)
    BY DEF On
  <2>6. ASSUME NEW d, InLine(l, d),
               Newest(p, d, l)
        PROVE  InLine(e, d)
    <3>1. ASSUME NEW i \in 1..Len(e.pq), NEW j \in 1..Len(e.pq), i < j,
                 IsData(e.pq[i], d), IsData(e.pq[j], d)
          PROVE  e.pq[i].id < e.pq[j].id
      <4>1. i \in 1..N
        BY <1>1, <2>1, <3>1
      <4>2. CASE j = N + 1
        BY <2>1, <2>4, <2>6, <3>1, <4>1, <4>2 DEF Newest
      <4>3. CASE j \in 1..N
        BY <2>1, <2>6, <3>1, <4>1, <4>3 DEF InLine
      <4>. QED  BY <2>2, <4>2, <4>3
    <3>2. ASSUME NEW y \in e.transit, NEW i \in 1..Len(e.pq),
                 IsData(y.pkt, d), IsData(e.pq[i], d)
          PROVE  y.pkt.id < e.pq[i].id
      <4>0. y \in l.transit
        BY DEF SameDelay
      <4>1. CASE i = N + 1
        BY <2>1, <2>5, <2>6, <3>2, <4>0, <4>1 DEF Newest
      <4>2. CASE i \in 1..N
        BY <2>1, <2>6, <3>2, <4>0, <4>2 DEF InLine
      <4>. QED  BY <2>2, <4>1, <4>2
    <3>. QED  BY <3>1, <3>2 DEF InLine
  <2>7. On(e) \subseteq On(l) \cup {p}
    BY <2>1, <2>2 DEF On, SameDelay
  <2>. HIDE DEF N
  <2>. QED  BY <1>0, <2>3, <2>6, <2>7, Zenon
<1>3. CASE e.pq = <<p>> \o l.pq /\ p.class = "routing"
  <2>0. e.pq = Cons(p, l.pq)
    BY <1>3 DEF Cons
  <2>1. /\ Len(e.pq) = N + 1 /\ e.pq[1] = p
        /\ \A i \in 2..(N + 1) : e.pq[i] = l.pq[i - 1]
    <3>1. /\ Len(Cons(p, l.pq)) = Len(l.pq) + 1 /\ Cons(p, l.pq)[1] = p
          /\ \A i \in 2..(Len(l.pq) + 1) : Cons(p, l.pq)[i] = l.pq[i - 1]
      <4>1. \A q \in Seq(Pkt) :
              /\ Len(Cons(p, q)) = Len(q) + 1 /\ Cons(p, q)[1] = p
              /\ \A i \in 2..(Len(q) + 1) : Cons(p, q)[i] = q[i - 1]
        BY ConsProperties
      <4>. QED  BY <1>1, <4>1
    <3>. QED  BY <2>0, <3>1
  <2>2. \A i \in 1..Len(e.pq) : i = 1 \/ (i \in 2..(N + 1) /\ i - 1 \in 1..N)
    BY <1>1, <2>1
  <2>3. ASSUME NEW n, NEW t, NEW u, NEW c, NEW P, Body(l, n, t, u, c, P),
               Genuine(p, n, P), Aged(p, 0, t)
        PROVE  Body(e, n, t, u, c, P)
    <3>1. NotLate(e, t, u) /\ ItqOK(e, c) /\ TimesOK(e, t, c)
      BY <2>3 DEF Body, SameDelay, NotLate, ItqOK, TimesOK, Sent
    <3>2. ContentOK(e, n, t, P)
      BY <2>1, <2>2, <2>3 DEF Body, SameDelay, ContentOK
    <3>. QED  BY <3>1, <3>2 DEF Body, SameDelay
  <2>4. ASSUME NEW d, InLine(l, d)  PROVE InLine(e, d)
    <3>0. ~IsData(p, d)
      BY <1>3 DEF IsData
    <3>1. \A i \in 1..Len(e.pq) :
            IsData(e.pq[i], d) => i - 1 \in 1..N /\ e.pq[i] = l.pq[i - 1]
      BY <2>1, <2>2, <3>0
    <3>2. \A i, j \in 1..Len(e.pq) : i < j => i - 1 < j - 1
      BY <1>1, <2>1
    <3>. QED  BY <2>4, <3>1, <3>2 DEF InLine, SameDelay
  <2>5. On(e) \subseteq On(l) \cup {p}
    BY <2>1, <2>2 DEF On, SameDelay
  <2>. QED  BY <1>0, <2>3, <2>4, <2>5
<1>. QED  BY <1>2, <1>3

(* The queue that recv leaves before it looks whether it may send. *)
Queued(l, p) ==
  IF l.config.pri /\ p.class = "routing" THEN enqueHigh(l, p) ELSE enque(l, p)

WithPq(l, q) == [l EXCEPT !.pq = q]

LEMMA WithPqType ==
  ASSUME NEW l \in LinkType, NEW q \in Seq(Pkt)
  PROVE  SameDelay(l, WithPq(l, q)) /\ WithPq(l, q).pq = q
BY DEF SameDelay, WithPq, LinkType

LEMMA QueuedIs ==
  ASSUME NEW l \in LinkType, NEW p \in Pkt
  PROVE  /\ SameDelay(l, Queued(l, p))
         /\ \E e : /\ SameDelay(l, e) /\ Part(Queued(l, p).pq, e.pq)
                  /\ \/ e.pq = Append(l.pq, p)
                     \/ e.pq = <<p>> \o l.pq /\ p.class = "routing"
<1>1. l.pq \in Seq(Pkt) /\ l.qlim \in Nat
  BY LinkFields
<1> DEFINE a == Append(l.pq, p)
           b == <<p>> \o l.pq
<1>2. /\ a \in Seq(Pkt) /\ Len(a) = Len(l.pq) + 1 /\ Len(l.pq) \in Nat
      /\ \A i \in 1..Len(l.pq) : a[i] = l.pq[i]
  BY <1>1, AppendProperties, LenProperties
<1>3. b \in Seq(Pkt) /\ Len(b) \in Nat /\ Len(b) >= 1
  <2>1. \A q \in Seq(Pkt) : Cons(p, q) \in Seq(Pkt) /\ Len(Cons(p, q)) = Len(q) + 1
    BY ConsProperties
  <2>2. b = Cons(p, l.pq)
    BY DEF Cons
  <2>. QED  BY <1>1, <1>2, <2>1, <2>2
<1>4. Part(l.pq, a)
  <2>1. Len(l.pq) + 0 <= Len(a) /\ \A i \in 1..Len(l.pq) : l.pq[i] = a[i + 0]
    BY <1>2
  <2>. HIDE DEF a
  <2>. QED  BY <1>1, <2>1 DEF Part
<1>5. Part(Tail(a), a)
  <2>1. a # << >>
    BY <1>2, EmptySeq
  <2>. HIDE DEF a
  <2>. QED  BY <1>2, <2>1, TailPart
<1>6. Part(Front(b), b)
  <2>. HIDE DEF b
  <2>1. Part(SubSeq(b, 1, Len(b) - 1), b)
    BY <1>3, SubSeqPart
  <2>. QED  BY <2>1 DEF Front
<1>7. Part(a, a) /\ Part(b, b)
  BY <1>2, <1>3, PartOfSelf
<1>8. CASE l.config.pri /\ p.class = "routing"
  <2> DEFINE q == IF Len(b) >= l.qlim THEN Front(b) ELSE b
  <2>1. Queued(l, p) = WithPq(l, q)
    BY <1>8, Zenon DEF Queued, enqueHigh, WithPq
  <2>2. Part(q, b) /\ q \in Seq(Pkt)
    BY <1>6, <1>7 DEF Part
  <2>. HIDE DEF q, b
  <2>3. SameDelay(l, Queued(l, p)) /\ Queued(l, p).pq = q
    BY <2>1, <2>2, WithPqType
  <2>4. SameDelay(l, WithPq(l, b)) /\ WithPq(l, b).pq = b
    BY <1>3, WithPqType
  <2>5. b = <<p>> \o l.pq
    BY DEF b
  <2>. QED  BY <1>8, <2>2, <2>3, <2>4, <2>5
<1>9. CASE ~(l.config.pri /\ p.class = "routing")
  <2> DEFINE q == IF Len(l.pq) + 1 < l.qlim THEN a
                  ELSE IF l.config.front THEN Tail(a) ELSE l.pq
  <2>0. l = WithPq(l, l.pq)
    BY DEF WithPq, LinkType
  <2>1. Queued(l, p) = WithPq(l, q)
    <3>1. CASE Len(l.pq) + 1 < l.qlim
      BY <1>9, <3>1, Zenon DEF Queued, enque, WithPq
    <3>2. CASE ~(Len(l.pq) + 1 < l.qlim) /\ l.config.front
      BY <1>9, <3>2, Zenon DEF Queued, enque, WithPq
    <3>3. CASE ~(Len(l.pq) + 1 < l.qlim) /\ ~l.config.front
      <4>1. q = l.pq /\ Queued(l, p) = l
        BY <1>9, <3>3, Zenon DEF Queued, enque
      <4>. QED  BY <2>0, <4>1, Zenon
    <3>. QED  BY <3>1, <3>2, <3>3
  <2>2. Part(q, a) /\ q \in Seq(Pkt)
    BY <1>4, <1>5, <1>7 DEF Part
  <2>. HIDE DEF q, a
  <2>3. SameDelay(l, Queued(l, p)) /\ Queued(l, p).pq = q
    BY <2>1, <2>2, WithPqType
  <2>4. SameDelay(l, WithPq(l, a)) /\ WithPq(l, a).pq = a
    BY <1>2, WithPqType
  <2>5. a = Append(l.pq, p)
    BY DEF a
  <2>. QED  BY <2>2, <2>3, <2>4, <2>5
<1>. QED  BY <1>8, <1>9

(* A packet taken, or dropped, by the queue. *)
LEMMA QueuedKeeps ==
  ASSUME NEW l \in LinkType, NEW p \in Pkt, NEW m, m = Queued(l, p)
  PROVE  /\ m \in LinkType /\ SameDelay(l, m)
         /\ \A n, t, u, c, P :
              Body(l, n, t, u, c, P) /\ Genuine(p, n, P) /\ Aged(p, 0, t)
                => Body(m, n, t, u, c, P)
         /\ CallbackOK(l) => CallbackOK(m)
         /\ \A d : InLine(l, d) /\ Newest(p, d, l) => InLine(m, d)
         /\ \A d : OnTheWay(l, d) => OnTheWay(m, d)
         /\ On(m) \subseteq On(l) \cup {p}
<1>1. PICK e : /\ SameDelay(l, e) /\ Part(m.pq, e.pq)
               /\ \/ e.pq = Append(l.pq, p)
                  \/ e.pq = <<p>> \o l.pq /\ p.class = "routing"
  BY QueuedIs
<1>2. SameDelay(l, m)
  BY QueuedIs
<1>3. SameDelay(e, m)
  BY <1>1, <1>2 DEF SameDelay
<1>4. /\ \A n, t, u, c, P :
           Body(l, n, t, u, c, P) /\ Genuine(p, n, P) /\ Aged(p, 0, t)
             => Body(e, n, t, u, c, P)
      /\ CallbackOK(l) => CallbackOK(e)
      /\ \A d : InLine(l, d) /\ Newest(p, d, l) => InLine(e, d)
      /\ \A d : OnTheWay(l, d) => OnTheWay(e, d)
      /\ On(e) \subseteq On(l) \cup {p}
  BY <1>1, JoinKeeps, Zenon
<1>5. /\ \A n, t, u, c, P : Body(e, n, t, u, c, P) => Body(m, n, t, u, c, P)
      /\ CallbackOK(e) => CallbackOK(m)
      /\ \A d : InLine(e, d) => InLine(m, d)
      /\ \A d : OnTheWay(e, d) => OnTheWay(m, d)
      /\ On(m) \subseteq On(e)
  BY <1>1, <1>3, TrimKeeps, Zenon
<1>6. m \in LinkType
  BY <1>2 DEF SameDelay
<1>. QED  BY <1>2, <1>4, <1>5, <1>6, Zenon

-----------------------------------------------------------------------------
(* What LinkDelay::recv keeps. *)

(* The state of the link when the queue hands over its first packet. *)
Handed(l, q) == [l EXCEPT !.pq = q, !.blocked = TRUE]

LEMMA ArrivalIs ==
  ASSUME NEW l \in LinkType, NEW p \in Pkt, NEW t \in Nat
  PROVE  /\ ArrivalTime(l, p, t) \in Nat
         /\ ArrivalTime(l, p, t) >= t + TxTime[p.class] + l.delay
         /\ Ordered(l) => ArrivalTime(l, p, t) >= l.latest
         /\ ~Ordered(l) => ArrivalTime(l, p, t) = t + TxTime[p.class] + l.delay
<1>1. TxTime[p.class] \in Nat \ {0} /\ l.delay \in Nat /\ l.latest \in Nat
  BY PktFields, LinkFields
<1>. QED  BY <1>1 DEF ArrivalTime, Ordered

EventOf(p, t, u) == [pkt |-> p, time |-> t, uid |-> u]

Departed(h, X, Q, L, F, i) ==
  [h EXCEPT !.transit = X, !.itq = Q, !.latest = L, !.failed = F, !.intr = i]

LEMMA DelayFields ==
  ASSUME NEW h \in LinkType, NEW X \in SUBSET PktEvent, NEW Q \in Seq(PktEvent),
         NEW L \in Nat, NEW F \in Failure,
         NEW i \in Intr, NEW r,
         r = Departed(h, X, Q, L, F, i)
  PROVE  /\ r \in LinkType
         /\ r.config = h.config /\ r.status = h.status /\ r.pq = h.pq
         /\ r.blocked = h.blocked /\ r.delay = h.delay
         /\ r.transit = X /\ r.itq = Q /\ r.latest = L /\ r.failed = F /\ r.intr = i
<1>1. r \in LinkType
  BY DEF LinkType, Departed
<1>2. /\ r.config = h.config /\ r.status = h.status /\ r.pq = h.pq
      /\ r.blocked = h.blocked /\ r.delay = h.delay
  BY DEF LinkType, Departed
<1>3. r.transit = X /\ r.itq = Q /\ r.latest = L /\ r.failed = F /\ r.intr = i
  BY DEF LinkType, Departed
<1>. QED  BY <1>1, <1>2, <1>3

(* r is l after the event x of p has been scheduled at t. *)
Launched(l, q, p, t, x, r) ==
  /\ x \in PktEvent /\ r \in LinkType
  /\ r.pq = q /\ r.blocked = TRUE /\ r.config = l.config
  /\ r.delay = l.delay /\ r.status = l.status /\ r.failed = l.failed
  /\ r.transit = l.transit \cup {x}
  /\ l.config.mode = "dynamic" => r.itq = Append(l.itq, x)
  /\ l.config.mode = "ordered" => r.latest = x.time
  /\ r.intr # NoEvent /\ r.intr.time = t + TxTime[p.class]

(* The fields of the link after the packet has been handed over. *)
LEMMA HandedFields ==
  ASSUME NEW l \in LinkType, NEW p \in Pkt, NEW q \in Seq(Pkt), l.intr = NoEvent,
         NEW t \in Nat, NEW u \in Nat, NEW r, NEW x,
         x = EventOf(p, ArrivalTime(l, p, t), u), r = delay_recv(Handed(l, q), p, t, u)
  PROVE  Launched(l, q, p, t, x, r)
<1> DEFINE h == Handed(l, q)
           a == ArrivalTime(l, p, t)
<1>2. /\ h.pq = q /\ h.blocked = TRUE /\ h.config = l.config
      /\ h.delay = l.delay /\ h.status = l.status /\ h.failed = l.failed
      /\ h.transit = l.transit /\ h.itq = l.itq /\ h.latest = l.latest
      /\ h.intr = l.intr /\ h \in LinkType
  BY DEF Handed, LinkType
<1>3. ArrivalTime(h, p, t) = a /\ a \in Nat
  BY <1>2, ArrivalIs DEF ArrivalTime
<1>4. x \in PktEvent /\ x.time = a
  BY <1>3 DEF PktEvent, EventOf
<1>5. TxTime[p.class] \in Nat
  BY PktFields
<1> DEFINE i == [time |-> t + TxTime[p.class], uid |-> u + 1]
<1>6. i \in Intr /\ i # NoEvent /\ i.time = t + TxTime[p.class]
  BY <1>5 DEF NoEvent, Intr
<1> DEFINE X == h.transit \cup {x}
           Q == IF h.config.mode = "dynamic" THEN Append(h.itq, x) ELSE h.itq
           L == IF h.config.mode = "ordered" THEN a ELSE h.latest
           F == IF h.intr # NoEvent THEN "uid" ELSE h.failed
<1>7. r = Departed(h, X, Q, L, F, i)
  BY <1>3, Zenon DEF delay_recv, EventOf, Departed
<1>8. /\ X \in SUBSET PktEvent /\ Q \in Seq(PktEvent) /\ L \in Nat
      /\ F = h.failed /\ F \in Failure
  <2>1. h.transit \subseteq PktEvent /\ h.itq \in Seq(PktEvent) /\ h.latest \in Nat
        /\ h.failed \in Failure
    BY <1>2, LinkFields
  <2>2. \A e \in Seq(PktEvent) : Append(e, x) \in Seq(PktEvent)
    BY <1>4, AppendProperties
  <2>. QED  BY <1>2, <1>3, <1>4, <2>1, <2>2
<1>11. /\ h.config.mode = "dynamic" => Q = Append(h.itq, x)
       /\ h.config.mode = "ordered" => L = a
       /\ X = h.transit \cup {x}
  OBVIOUS
<1>. HIDE DEF h, a, i, X, Q, L, F
<1>9. /\ r.pq = h.pq /\ r.blocked = h.blocked /\ r.config = h.config
      /\ r.delay = h.delay /\ r.status = h.status /\ r.failed = h.failed
      /\ r.transit = X /\ r.itq = Q /\ r.latest = L /\ r.intr = i
  BY <1>2, <1>6, <1>7, <1>8, DelayFields
<1>10. r \in LinkType
  BY <1>2, <1>6, <1>7, <1>8, DelayFields
<1>. QED  BY <1>2, <1>4, <1>6, <1>9, <1>10, <1>11 DEF Launched

(* r is sound where l is, at the same time, with nothing new on it. *)
Moved(l, r, n, t, u, c, P) ==
  /\ Body(r, n, t, u + 2, c, P) /\ CallbackOK(r) /\ r.config = l.config
  /\ \A d : InLine(l, d) => InLine(r, d)
  /\ \A d : InLine(l, d) /\ OnTheWay(l, d) /\ Straight(l, c) => OnTheWay(r, d)
  /\ On(r) \subseteq On(l)

(* The packet goes out behind all those on their way. *)
LEMMA LaunchKeeps ==
  ASSUME NEW l, NEW n \in Node, NEW t \in Nat, NEW u \in Nat, NEW c \in BOOLEAN,
         NEW P, Body(l, n, t, u, c, P), l.intr = NoEvent, l.failed # "uid",
         l.pq # << >>, NEW r, r = delay_recv(Handed(l, Tail(l.pq)), Head(l.pq), t, u)
  PROVE  Moved(l, r, n, t, u, c, P)
<1> DEFINE p == Head(l.pq)
           x == EventOf(p, ArrivalTime(l, p, t), u)
<1>0. l \in LinkType
  BY DEF Body
<1>1. /\ x \in PktEvent /\ r \in LinkType
      /\ r.pq = Tail(l.pq) /\ r.blocked = TRUE /\ r.config = l.config
      /\ r.delay = l.delay /\ r.status = l.status /\ r.failed = l.failed
      /\ r.transit = l.transit \cup {x}
      /\ l.config.mode = "dynamic" => r.itq = Append(l.itq, x)
      /\ l.config.mode = "ordered" => r.latest = x.time
      /\ r.intr # NoEvent /\ r.intr.time = t + TxTime[p.class]
  <2> DEFINE q == Tail(l.pq)
  <2>1. q \in Seq(Pkt) /\ p \in Pkt
    BY <1>0, LinkFields, TailPart
  <2>2. r = delay_recv(Handed(l, q), p, t, u) /\ x = EventOf(p, ArrivalTime(l, p, t), u)
    OBVIOUS
  <2>. HIDE DEF p, q, x
  <2>3. Launched(l, q, p, t, x, r)
    BY <1>0, <2>1, <2>2, HandedFields
  <2>. QED  BY <2>3 DEF q, Launched
<1>2. /\ Part(Tail(l.pq), l.pq) /\ p = l.pq[1] /\ p \in Pkt /\ Len(l.pq) >= 1
      /\ Len(l.pq) \in Nat
  BY <1>0, LinkFields, TailPart, LenProperties
<1>t. \A i \in 1..Len(r.pq) : i + 1 \in 1..Len(l.pq) /\ r.pq[i] = l.pq[i + 1] /\ 1 < i + 1
  <2>1. \A q \in Seq(Pkt) : q # << >> =>
          \A i \in 1..Len(Tail(q)) : i + 1 \in 1..Len(q) /\ Tail(q)[i] = q[i + 1] /\ 1 < i + 1
    <3>1. SUFFICES ASSUME NEW q \in Seq(Pkt), q # << >>, NEW i \in 1..Len(Tail(q))
                   PROVE  i + 1 \in 1..Len(q) /\ Tail(q)[i] = q[i + 1] /\ 1 < i + 1
      OBVIOUS
    <3>2. Len(Tail(q)) = Len(q) - 1 /\ Len(q) \in Nat /\ Len(q) >= 1
      BY <3>1, TailPart, LenProperties
    <3>3. i \in 1..(Len(q) - 1)
      BY <3>2
    <3>. QED  BY <3>1, <3>2, <3>3, TailPart
  <2>2. l.pq \in Seq(Pkt)
    BY <1>0, LinkFields
  <2>. QED  BY <1>1, <2>1, <2>2, Zenon
<1>u. \A i, j \in 1..Len(r.pq) : i < j => i + 1 < j + 1
  <2>1. r.pq \in Seq(Pkt)
    BY <1>1, LinkFields
  <2>. QED  BY <2>1, LenProperties
<1>3. /\ x.time >= t + TxTime[p.class] + l.delay
      /\ Ordered(l) => x.time >= l.latest
      /\ ~Ordered(l) => x.time = t + TxTime[p.class] + l.delay
      /\ x.pkt = p /\ x.uid = u /\ x.time \in Nat
  BY <1>0, <1>2, ArrivalIs DEF EventOf
<1>4. TxTime[p.class] \in Nat \ {0} /\ l.delay \in Nat /\ l.delay \in Delays
  BY <1>0, <1>2, PktFields, LinkFields
<1>. HIDE DEF x, p
<1>5. \A y \in l.transit : y \in PktEvent /\ y.time \in Nat /\ y.uid \in Nat /\ y.pkt \in Pkt
  BY <1>0, LinkFields, EventFields
<1>6. NotLate(r, t, u + 2)
  <2>1. \A y \in l.transit : y.time >= t /\ y.uid < u
    BY DEF Body, NotLate
  <2>2. x.time >= t /\ x.uid < u + 2
    BY <1>3, <1>4
  <2>. QED  BY <1>1, <1>4, <1>5, <2>1, <2>2 DEF NotLate
<1>7. ~c /\ ~Ordered(l) => \A y \in l.transit : y.time < x.time
  <2>1. ~c /\ ~Ordered(l) => \A y \in l.transit : y.time <= t + l.delay
    BY DEF Body, TimesOK, Sent, Ordered
  <2>. QED  BY <1>3, <1>4, <1>5, <2>1
<1>8. Ordered(l) => \A y \in l.transit : y.time <= x.time
  <2>1. Ordered(l) => \A y \in l.transit : y.time <= l.latest
    BY DEF Body, TimesOK, Ordered
  <2>2. l.latest \in Nat
    BY <1>0, LinkFields
  <2>. QED  BY <1>3, <1>5, <2>1, <2>2
<1>9. Straight(l, c) => \A y \in l.transit : Sooner(y, x)
  <2>1. \A y \in l.transit : y.uid < u
    BY DEF Body, NotLate
  <2>. QED  BY <1>3, <1>5, <1>7, <1>8, <2>1 DEF Sooner, Straight
<1>10. ItqOK(r, c)
  <2>1. r.failed = "assert" => c
    BY <1>1 DEF Body, ItqOK
  <2>2. ASSUME r.config.mode = "dynamic", r.failed = "no"
        PROVE  /\ r.transit = Range(r.itq)
               /\ \A i, j \in 1..Len(r.itq) :
                    i < j => /\ r.itq[i].uid < r.itq[j].uid
                             /\ ~c => r.itq[i].time <= r.itq[j].time
    <3> DEFINE N == Len(l.itq)
    <3>0. l.itq \in Seq(PktEvent) /\ N \in Nat
      BY <1>0, LinkFields, LenProperties
    <3>1. r.itq \in Seq(PktEvent) /\ Len(r.itq) = N + 1 /\ r.itq[N + 1] = x
          /\ \A i \in 1..N : r.itq[i] = l.itq[i]
      <4>1. \A q \in Seq(PktEvent) :
              /\ Append(q, x) \in Seq(PktEvent) /\ Len(Append(q, x)) = Len(q) + 1
              /\ Append(q, x)[Len(q) + 1] = x /\ \A i \in 1..Len(q) : Append(q, x)[i] = q[i]
        BY <1>1, AppendProperties
      <4>2. r.itq = Append(l.itq, x)
        BY <1>1, <2>2
      <4>. QED  BY <3>0, <4>1, <4>2, Zenon
    <3>2. l.transit = Range(l.itq)
      BY <1>1, <2>2 DEF Body, ItqOK
    <3>3. Range(r.itq) = Range(l.itq) \cup {x}
      <4>1. DOMAIN r.itq = 1..(N + 1) /\ DOMAIN l.itq = 1..N
        BY <3>0, <3>1, LenProperties
      <4>2. \A i \in 1..(N + 1) : i \in 1..N \/ i = N + 1
        BY <3>0
      <4>3. \A i \in 1..N : i \in 1..(N + 1)
        BY <3>0
      <4>4. N + 1 \in 1..(N + 1)
        BY <3>0
      <4>. HIDE DEF N
      <4>. QED  BY <3>1, <4>1, <4>2, <4>3, <4>4, Zenon DEF Range
    <3>4. \A i \in 1..N : l.itq[i] \in l.transit
      <4>1. DOMAIN l.itq = 1..N
        BY <3>0, LenProperties
      <4>. QED  BY <3>2, <4>1 DEF Range
    <3>5. ASSUME NEW i \in 1..(N + 1), NEW j \in 1..(N + 1), i < j
          PROVE  /\ r.itq[i].uid < r.itq[j].uid
                 /\ ~c => r.itq[i].time <= r.itq[j].time
      <4>1. i \in 1..N /\ r.itq[i] = l.itq[i] /\ l.itq[i] \in l.transit
        BY <3>0, <3>1, <3>4, <3>5
      <4>2. CASE j \in 1..N
        BY <1>1, <2>2, <3>1, <3>5, <4>1, <4>2 DEF Body, ItqOK
      <4>3. CASE j = N + 1
        <5>1. l.itq[i].uid < u
          BY <4>1 DEF Body, NotLate
        <5>2. ~c => l.itq[i].time <= x.time
          <6>1. ~Ordered(l)
            BY <1>1, <2>2 DEF Ordered
          <6>. QED  BY <1>3, <1>5, <1>7, <4>1, <6>1
        <5>. QED  BY <1>3, <3>1, <4>1, <4>3, <5>1, <5>2
      <4>4. j \in 1..N \/ j = N + 1
        BY <3>0
      <4>. QED  BY <4>2, <4>3, <4>4
    <3>. QED  BY <1>1, <3>1, <3>2, <3>3, <3>5
  <2>. QED  BY <2>1, <2>2 DEF ItqOK
<1>11. TimesOK(r, t, c)
  <2>1. ~c /\ ~Ordered(l) => \A y \in r.transit : y.time <= r.intr.time + r.delay
    <3>1. ~c /\ ~Ordered(l) => x.time <= r.intr.time + r.delay
      BY <1>1, <1>3, <1>4
    <3>2. r.intr.time + r.delay \in Nat
      BY <1>1, <1>4
    <3>. QED  BY <1>1, <1>3, <1>5, <1>7, <3>1, <3>2
  <2>2. Ordered(l) => \A y \in r.transit : y.time <= r.latest
    BY <1>1, <1>3, <1>8 DEF Ordered
  <2>. QED  BY <1>1, <2>1, <2>2 DEF TimesOK, Sent, Ordered
<1>12. ContentOK(r, n, t, P)
  <2>1. 1 \in 1..Len(l.pq)
    BY <1>2
  <2>2. Genuine(p, n, P) /\ Aged(p, 0, t)
    BY <1>2, <2>1 DEF Body, ContentOK
  <2>3. Aged(p, 1, x.time)
    <3>1. SUFFICES ASSUME p.class = "data"  PROVE x.time >= p.send_time + (p.ret + 1) * Shortest
      BY DEF Aged
    <3>2. p.ret \in {0, 1} /\ p.send_time \in Nat /\ Shortest \in Nat
      BY <1>2, <3>1, PktFields, Consts
    <3>3. t >= p.send_time + p.ret * Shortest
      BY <2>2, <3>1, <3>2 DEF Aged
    <3>4. TxTime[p.class] + l.delay >= Shortest
      BY <1>4, <3>1, Consts DEF Shortest
    <3>5. (p.ret + 1) * Shortest = p.ret * Shortest + Shortest
      BY <3>2
    <3>6. p.ret * Shortest \in Nat
      BY <3>2
    <3>7. x.time >= p.send_time + (p.ret * Shortest + Shortest)
      <4>. DEFINE k == p.ret * Shortest
      <4>1. k \in Nat /\ t >= p.send_time + k
        BY <3>2, <3>3, <3>6
      <4>. HIDE DEF k
      <4>. DEFINE e == TxTime[p.class]
      <4>3. e \in Nat /\ e + l.delay >= Shortest /\ x.time >= t + e + l.delay
        BY <1>3, <1>4, <3>4
      <4>. HIDE DEF e
      <4>2. x.time >= p.send_time + (k + Shortest)
        <5>1. x.time \in Nat /\ l.delay \in Nat
          BY <1>3, <1>4
        <5>. QED  BY <3>2, <4>1, <4>3, <5>1
      <4>. QED  BY <4>2 DEF k
    <3>. QED  BY <3>5, <3>7
  <2>4. r.transit = l.transit \cup {x}
    BY <1>1
  <2>. QED  BY <1>3, <1>t, <2>2, <2>3, <2>4 DEF Body, ContentOK
<1>13. ASSUME NEW d, InLine(l, d)  PROVE InLine(r, d)
  <2>1. r.transit = l.transit \cup {x}
    BY <1>1
  <2>2. 1 \in 1..Len(l.pq)
    BY <1>2
  <2>3. \A i, j \in 1..Len(r.pq) :
          i < j /\ IsData(r.pq[i], d) /\ IsData(r.pq[j], d) => r.pq[i].id < r.pq[j].id
    BY <1>13, <1>t, <1>u DEF InLine
  <2>4. \A i \in 1..Len(r.pq) : IsData(p, d) /\ IsData(r.pq[i], d) => p.id < r.pq[i].id
    BY <1>2, <1>13, <1>t, <2>2 DEF InLine
  <2>5. \A y \in l.transit, i \in 1..Len(r.pq) :
          IsData(y.pkt, d) /\ IsData(r.pq[i], d) => y.pkt.id < r.pq[i].id
    BY <1>13, <1>t DEF InLine
  <2>. QED  BY <1>3, <2>1, <2>3, <2>4, <2>5 DEF InLine
<1>14. ASSUME NEW d, InLine(l, d), OnTheWay(l, d), Straight(l, c)
       PROVE  OnTheWay(r, d)
  <2>0. 1 \in 1..Len(l.pq)
    BY <1>2
  <2>1. \A y \in l.transit : IsData(y.pkt, d) /\ IsData(p, d) => y.pkt.id < p.id
    BY <1>2, <1>14, <2>0 DEF InLine
  <2>2. SUFFICES ASSUME NEW y \in r.transit, NEW z \in r.transit, y # z,
                        IsData(y.pkt, d), IsData(z.pkt, d)
                 PROVE  y.pkt.id # z.pkt.id /\ (y.pkt.id < z.pkt.id => Sooner(y, z))
    BY DEF OnTheWay
  <2>3. p.id \in Nat /\ \A w \in l.transit : w.pkt.id \in Nat
    BY <1>2, <1>5, PktFields
  <2>4. CASE y \in l.transit /\ z \in l.transit
    BY <1>14, <2>2, <2>4 DEF OnTheWay
  <2>5. CASE y \in l.transit /\ z = x
    BY <1>3, <1>9, <1>14, <2>1, <2>2, <2>3, <2>5
  <2>6. CASE y = x /\ z \in l.transit
    BY <1>3, <2>1, <2>2, <2>3, <2>6
  <2>. QED  BY <1>1, <2>2, <2>4, <2>5, <2>6
<1>15. On(r) \subseteq On(l)
  <2>1. r.transit = l.transit \cup {x}
    BY <1>1
  <2>2. 1 \in 1..Len(l.pq)
    BY <1>2
  <2>. QED  BY <1>2, <1>3, <1>t, <2>1, <2>2 DEF On
<1>16. CallbackOK(r)
  BY <1>1 DEF CallbackOK
<1>17. Body(r, n, t, u + 2, c, P)
  BY <1>1, <1>6, <1>10, <1>11, <1>12 DEF Body
<1>18. r.config = l.config
  BY <1>1
<1>. QED  BY <1>13, <1>14, <1>15, <1>16, <1>17, <1>18 DEF Moved

(* r is l with p on it or dropped. *)
Taken(l, p, r, n, t, u, c, P) ==
  /\ Body(r, n, t, u + 2, c, P) /\ CallbackOK(r) /\ r.config = l.config
  /\ \A d : InLine(l, d) /\ Newest(p, d, l) => InLine(r, d)
  /\ \A d : InLine(l, d) /\ Newest(p, d, l) /\ OnTheWay(l, d) /\ Straight(l, c)
            => OnTheWay(r, d)
  /\ On(r) \subseteq On(l) \cup {p}

(* Queue::recv, through the DynamicLink. *)
LEMMA RecvKeeps ==
  ASSUME NEW l, NEW n \in Node, NEW t \in Nat, NEW u \in Nat, NEW c \in BOOLEAN,
         NEW P, Body(l, n, t, u, c, P), CallbackOK(l),
         NEW p \in Pkt, Genuine(p, n, P), Aged(p, 0, t), NEW r, r = recv(l, p, t, u)
  PROVE  Taken(l, p, r, n, t, u, c, P)
<1> DEFINE m == Queued(l, p)
<1>0. l \in LinkType
  BY DEF Body
<1>1. /\ m \in LinkType /\ SameDelay(l, m)
      /\ Body(m, n, t, u, c, P)
      /\ CallbackOK(m)
      /\ \A d : InLine(l, d) /\ Newest(p, d, l) => InLine(m, d)
      /\ \A d : OnTheWay(l, d) => OnTheWay(m, d)
      /\ On(m) \subseteq On(l) \cup {p}
  BY <1>0, QueuedKeeps, Zenon
<1>2. m.config = l.config /\ (Straight(m, c) <=> Straight(l, c))
  BY <1>1 DEF SameDelay, Straight, Ordered
<1>3. CASE ~l.status
  <2>1. r = l
    BY <1>3 DEF recv
  <2>2. Body(l, n, t, u + 2, c, P)
    <3>1. \A y \in l.transit : y.uid \in Nat
      BY <1>0, LinkFields, EventFields
    <3>2. NotLate(l, t, u + 2)
      BY <3>1 DEF Body, NotLate
    <3>. QED  BY <3>2 DEF Body
  <2>. QED  BY <2>1, <2>2 DEF Taken
<1>4. CASE l.status /\ (m.blocked \/ m.pq = << >>)
  <2>1. r = m
    BY <1>4, Zenon DEF recv, queue_recv, SendNext, Queued
  <2>2. Body(m, n, t, u + 2, c, P)
    <3>. HIDE DEF m
    <3>1. \A y \in m.transit : y.uid \in Nat
      BY <1>1, LinkFields, EventFields
    <3>2. NotLate(m, t, u + 2)
      BY <1>1, <3>1 DEF Body, NotLate
    <3>. QED  BY <1>1, <3>2 DEF Body
  <2>. HIDE DEF m
  <2>. QED  BY <1>1, <1>2, <2>1, <2>2 DEF Taken
<1>5. CASE l.status /\ ~(m.blocked \/ m.pq = << >>)
  <2>1. r = delay_recv(Handed(m, Tail(m.pq)), Head(m.pq), t, u)
    BY <1>5, Zenon DEF recv, queue_recv, SendNext, Queued, Handed
  <2>2. m.intr = NoEvent /\ m.failed # "uid" /\ m.pq # << >>
    BY <1>1, <1>5 DEF CallbackOK
  <2>. HIDE DEF m
  <2>3. Moved(m, r, n, t, u, c, P)
    BY <1>1, <2>1, <2>2, LaunchKeeps
  <2>. QED  BY <1>1, <1>2, <2>3, Zenon DEF Moved, Taken
<1>. QED  BY <1>3, <1>4, <1>5

(* Queue::resume, at the time of the callback. *)
LEMMA ResumeKeeps ==
  ASSUME NEW l, NEW n \in Node, NEW t \in Nat, NEW u \in Nat, NEW c \in BOOLEAN,
         NEW P, Body(l, n, t, u, c, P), CallbackOK(l),
         l.intr # NoEvent, t = l.intr.time, NEW r, r = resume(l, t, u)
  PROVE  Moved(l, r, n, t, u, c, P)
<1> DEFINE i == [l EXCEPT !.intr = NoEvent]
<1>0. l \in LinkType
  BY DEF Body
<1>1. NoEvent \in Intr
  BY DEF NoEvent, Intr
<1>2. /\ i \in LinkType /\ i.intr = NoEvent /\ i.config = l.config /\ i.pq = l.pq
      /\ i.blocked = l.blocked /\ i.delay = l.delay /\ i.itq = l.itq
      /\ i.latest = l.latest /\ i.transit = l.transit /\ i.failed = l.failed
  BY <1>0, <1>1 DEF LinkType
<1>. HIDE DEF i
<1>3. Body(i, n, t, u, c, P)
  <2>1. NotLate(i, t, u) /\ ItqOK(i, c) /\ ContentOK(i, n, t, P)
    BY <1>2 DEF Body, NotLate, ItqOK, ContentOK
  <2>2. TimesOK(i, t, c)
    BY <1>2 DEF Body, TimesOK, Sent
  <2>. QED  BY <1>2, <2>1, <2>2 DEF Body
<1>4. l.blocked /\ l.blocked = TRUE /\ l.failed # "uid"
  BY <1>0, LinkFields DEF CallbackOK
<1>5. CASE l.pq = << >>
  <2>1. r = [i EXCEPT !.blocked = FALSE]
    BY <1>5, Zenon DEF resume, i
  <2>2. /\ r \in LinkType /\ r.intr = NoEvent /\ r.config = i.config /\ r.pq = i.pq
        /\ r.blocked = FALSE /\ r.delay = i.delay /\ r.itq = i.itq
        /\ r.latest = i.latest /\ r.transit = i.transit /\ r.failed = i.failed
    BY <1>2, <2>1 DEF LinkType
  <2>3. \A y \in l.transit : y.uid \in Nat
    BY <1>0, LinkFields, EventFields
  <2>4. NotLate(r, t, u + 2)
    BY <1>2, <1>3, <2>2, <2>3 DEF Body, NotLate
  <2>5. ItqOK(r, c) /\ ContentOK(r, n, t, P) /\ TimesOK(r, t, c)
    BY <1>2, <1>3, <2>2 DEF Body, ItqOK, ContentOK, TimesOK, Sent
  <2>6. CallbackOK(r)
    BY <1>2, <1>4, <2>2 DEF CallbackOK
  <2>7. r.pq = l.pq /\ r.transit = l.transit /\ r.config = l.config
    BY <1>2, <2>2
  <2>8. /\ \A d : InLine(l, d) => InLine(r, d)
        /\ \A d : OnTheWay(l, d) => OnTheWay(r, d)
        /\ On(r) \subseteq On(l)
    BY <2>7, Zenon DEF InLine, OnTheWay, On
  <2>9. Body(r, n, t, u + 2, c, P)
    BY <2>2, <2>4, <2>5 DEF Body
  <2>. QED  BY <2>6, <2>7, <2>8, <2>9, Zenon DEF Moved
<1>6. CASE l.pq # << >>
  <2>1. r = delay_recv([i EXCEPT !.pq = Tail(i.pq)], Head(l.pq), t, u)
    BY <1>6, Zenon DEF resume, i
  <2>2. [i EXCEPT !.pq = Tail(i.pq)] = Handed(i, Tail(i.pq))
    BY <1>2, <1>4 DEF Handed, LinkType
  <2>3. r = delay_recv(Handed(i, Tail(i.pq)), Head(i.pq), t, u)
    BY <1>2, <2>1, <2>2, Zenon
  <2>4. i.pq # << >> /\ i.failed # "uid"
    BY <1>2, <1>4, <1>6
  <2>5. Moved(i, r, n, t, u, c, P)
    BY <1>2, <1>3, <2>3, <2>4, LaunchKeeps
  <2>6. /\ \A d : InLine(l, d) => InLine(i, d)
        /\ \A d : OnTheWay(l, d) => OnTheWay(i, d)
        /\ On(i) = On(l) /\ (Straight(i, c) <=> Straight(l, c))
    BY <1>2, Zenon DEF InLine, OnTheWay, On, Straight, Ordered
  <2>. QED  BY <1>2, <2>5, <2>6, Zenon DEF Moved
<1>. QED  BY <1>5, <1>6

-----------------------------------------------------------------------------
(* The rest. *)

(* P and more pings. *)
Extends(P, Q) == \A i \in DOMAIN P : i \in DOMAIN Q /\ Q[i] = P[i]

(* Time passes up to the next event, and others use uids and send pings. *)
LEMMA TimePasses ==
  ASSUME NEW l, NEW n \in Node, NEW t \in Nat, NEW u \in Nat, NEW c \in BOOLEAN,
         NEW P, Body(l, n, t, u, c, P),
         NEW t1 \in Nat, NEW u1 \in Nat, NEW Q, t <= t1, u <= u1, Extends(P, Q),
         l.intr # NoEvent => l.intr.time >= t1,
         \A y \in l.transit : y.time >= t1
  PROVE  Body(l, n, t1, u1, c, Q)
<1>0. l \in LinkType
  BY DEF Body
<1>1. \A y \in l.transit : y \in PktEvent /\ y.uid \in Nat /\ y.time \in Nat /\ y.pkt \in Pkt
  BY <1>0, LinkFields, EventFields
<1>2. NotLate(l, t1, u1)
  BY <1>1 DEF Body, NotLate
<1>3. TimesOK(l, t1, c)
  <2>1. l.delay \in Nat /\ l.intr.time \in Int
    BY <1>0, LinkFields
  <2>2. ASSUME NEW y \in l.transit, y.time <= Sent(l, t) + l.delay
        PROVE  y.time <= Sent(l, t1) + l.delay
    BY <1>1, <2>1, <2>2 DEF Sent
  <2>. QED  BY <2>2 DEF Body, TimesOK
<1>4. \A p \in Pkt : Genuine(p, n, P) => Genuine(p, n, Q)
  BY DEF Genuine, Extends
<1>5. \A p \in Pkt : Aged(p, 0, t) => Aged(p, 0, t1)
  <2>1. SUFFICES ASSUME NEW p \in Pkt, p.class = "data",
                        t >= p.send_time + (p.ret + 0) * Shortest
                 PROVE  t1 >= p.send_time + (p.ret + 0) * Shortest
    BY DEF Aged
  <2>2. p.ret \in {0, 1} /\ p.send_time \in Nat /\ Shortest \in Nat
    BY <2>1, PktFields, Consts
  <2>3. (p.ret + 0) * Shortest \in Nat
    BY <2>2
  <2>. DEFINE k == (p.ret + 0) * Shortest
  <2>4. k \in Nat /\ t >= p.send_time + k
    BY <2>1, <2>3
  <2>. HIDE DEF k
  <2>5. t1 >= p.send_time + k
    BY <2>2, <2>4
  <2>. QED  BY <2>5 DEF k
<1>6. ContentOK(l, n, t1, Q)
  <2>1. \A i \in 1..Len(l.pq) : l.pq[i] \in Pkt
    <3>1. l.pq \in Seq(Pkt)
      BY <1>0, LinkFields
    <3>. QED  BY <3>1, ElementOfSeq
  <2>. QED  BY <1>1, <1>4, <1>5, <2>1 DEF Body, ContentOK
<1>. QED  BY <1>2, <1>3, <1>6 DEF Body

(* x is the first of the packets on their way. *)
FirstOut(l, x) ==
  /\ x \in l.transit
  /\ \A y \in l.transit : y.time > x.time \/ (y.time = x.time /\ y.uid >= x.uid)

(* The first of a list whose uids grow is the one the event is for. *)
LEMMA ItqHead ==
  ASSUME NEW l \in LinkType, NEW c \in BOOLEAN, ItqOK(l, c), NEW x, FirstOut(l, x),
         l.config.mode = "dynamic", l.failed = "no"
  PROVE  /\ l.itq # << >>
         /\ ~c => Head(l.itq).time = x.time
         /\ Head(l.itq).time = x.time => l.transit \ {x} = Range(Tail(l.itq))
         /\ Tail(l.itq) \in Seq(PktEvent) /\ Len(Tail(l.itq)) = Len(l.itq) - 1
         /\ \A i \in 1..(Len(l.itq) - 1) : Tail(l.itq)[i] = l.itq[i + 1]
<1> DEFINE N == Len(l.itq)
<1>1. l.itq \in Seq(PktEvent) /\ N \in Nat /\ DOMAIN l.itq = 1..N
  BY LinkFields, LenProperties
<1>2. l.transit = Range(l.itq)
  BY DEF ItqOK
<1>3. PICK j \in 1..N : x = l.itq[j]
  BY <1>1, <1>2 DEF Range, FirstOut
<1>4. \A i \in 1..N : l.itq[i] \in l.transit /\ l.itq[i].time \in Nat /\ l.itq[i].uid \in Nat
  <2>1. \A i \in 1..N : l.itq[i] \in PktEvent
    BY <1>1, ElementOfSeq
  <2>. QED  BY <1>1, <1>2, <2>1, EventFields DEF Range
<1>5. l.itq # << >> /\ 1 \in 1..N
  BY <1>1, <1>3
<1>6. /\ Head(l.itq) = l.itq[1] /\ Tail(l.itq) \in Seq(PktEvent)
      /\ Len(Tail(l.itq)) = N - 1
      /\ \A i \in 1..(N - 1) : Tail(l.itq)[i] = l.itq[i + 1]
  BY <1>1, <1>5, HeadTailProperties
<1>7. ~c => l.itq[1].time = x.time
  <2>1. ASSUME ~c  PROVE l.itq[1].time <= x.time
    <3>1. CASE j = 1
      BY <1>3, <1>4, <3>1
    <3>2. CASE 1 < j
      BY <1>3, <1>5, <2>1, <3>2 DEF ItqOK
    <3>. QED  BY <1>1, <3>1, <3>2
  <2>2. l.itq[1].time >= x.time
    BY <1>3, <1>4, <1>5 DEF FirstOut
  <2>. QED  BY <1>3, <1>4, <1>5, <2>1, <2>2
<1>8. ASSUME l.itq[1].time = x.time  PROVE l.transit \ {x} = Range(Tail(l.itq))
  <2>1. j = 1
    <3>1. l.itq[1].uid >= x.uid
      BY <1>3, <1>4, <1>5, <1>8 DEF FirstOut
    <3>2. 1 < j => l.itq[1].uid < l.itq[j].uid
      BY <1>5 DEF ItqOK
    <3>. QED  BY <1>1, <1>3, <1>4, <1>5, <3>1, <3>2
  <2>2. \A i \in 1..N : i # 1 => l.itq[i] # x
    <3>1. \A i \in 1..N : 1 < i => l.itq[1].uid < l.itq[i].uid
      BY <1>5 DEF ItqOK
    <3>. QED  BY <1>1, <1>3, <1>4, <2>1, <3>1
  <2>. DEFINE T == Tail(l.itq)
  <2>3. /\ DOMAIN T = 1..(N - 1)
        /\ \A i \in 1..(N - 1) : i + 1 \in 1..N /\ i + 1 # 1 /\ T[i] = l.itq[i + 1]
    BY <1>1, <1>5, <1>6, LenProperties
  <2>4. \A i \in 1..N : i # 1 => i - 1 \in 1..(N - 1) /\ (i - 1) + 1 = i
    BY <1>1
  <2>. HIDE DEF T, N
  <2>5. \A y \in Range(T) : y \in l.transit /\ y # x
    BY <1>4, <2>2, <2>3 DEF Range
  <2>6. ASSUME NEW y \in l.transit, y # x  PROVE y \in Range(T)
    <3>1. PICK i \in 1..N : y = l.itq[i]
      BY <1>1, <1>2 DEF Range
    <3>2. i # 1
      BY <1>3, <2>1, <2>6, <3>1
    <3>3. i - 1 \in DOMAIN T /\ T[i - 1] = y
      BY <2>3, <2>4, <3>1, <3>2
    <3>. QED  BY <3>3, Zenon DEF Range
  <2>. QED  BY <2>5, <2>6 DEF T
<1>. QED  BY <1>5, <1>6, <1>7, <1>8

(* r is l without the packet of x, which came out. *)
Handled(l, x, r, n, u, c, P) ==
  /\ Body(r, n, x.time, u, c, P) /\ CallbackOK(r) /\ r.config = l.config
  /\ \A d : InLine(l, d) => InLine(r, d)
  /\ \A d : OnTheWay(l, d) => OnTheWay(r, d)
  /\ On(r) \subseteq On(l)
  /\ r.pq = l.pq /\ r.transit = l.transit \ {x}

(* LinkDelay::handle on the packet that is next. *)
LEMMA HandleKeeps ==
  ASSUME NEW l, NEW n \in Node, NEW t \in Nat, NEW u \in Nat, NEW c \in BOOLEAN,
         NEW P, Body(l, n, t, u, c, P), CallbackOK(l), l.failed = "no",
         NEW x, FirstOut(l, x), l.intr # NoEvent => l.intr.time >= x.time,
         NEW r, r = delay_handle(l, x)
  PROVE  Handled(l, x, r, n, u, c, P)
<1>0. l \in LinkType /\ x \in l.transit /\ ItqOK(l, c)
  BY DEF Body, FirstOut
<1>1. x \in PktEvent /\ x.time \in Nat /\ t <= x.time
  BY <1>0, LinkFields, EventFields DEF Body, NotLate
<1>2. /\ r \in LinkType /\ r.config = l.config /\ r.status = l.status /\ r.pq = l.pq
      /\ r.blocked = l.blocked /\ r.delay = l.delay /\ r.latest = l.latest
      /\ r.intr = l.intr /\ r.transit = l.transit \ {x}
      /\ r.failed \in {"no", "assert"}
      /\ r.failed = "assert" => /\ l.config.mode = "dynamic"
                               /\ Head(l.itq).time # x.time
      /\ l.config.mode = "dynamic" => r.itq = Tail(l.itq)
      /\ l.config.mode = "dynamic" /\ r.failed = "no" => Head(l.itq).time = x.time
  <2>1. CASE l.config.mode # "dynamic"
    <3>1. r = [l EXCEPT !.transit = l.transit \ {x}]
      BY <2>1, Zenon DEF delay_handle
    <3>2. l.transit \ {x} \in SUBSET PktEvent
      BY <1>0, LinkFields
    <3>. QED  BY <1>0, <2>1, <3>1, <3>2 DEF LinkType
  <2>2. CASE l.config.mode = "dynamic"
    <3> DEFINE X == l.transit \ {x}
               T == Tail(l.itq)
               G == IF Head(l.itq).time # x.time THEN "assert" ELSE l.failed
    <3>1. r = [l EXCEPT !.transit = X, !.itq = T, !.failed = G]
      BY <2>2, Zenon DEF delay_handle
    <3>2. X \in SUBSET PktEvent /\ T \in Seq(PktEvent) /\ G \in Failure
      BY <1>0, <2>2, LinkFields, ItqHead DEF Failure
    <3>3. /\ G \in {"no", "assert"} /\ (G = "assert" => Head(l.itq).time # x.time)
          /\ (G = "no" => Head(l.itq).time = x.time)
      OBVIOUS
    <3>. HIDE DEF X, T, G
    <3>4. /\ r \in LinkType /\ r.config = l.config /\ r.status = l.status /\ r.pq = l.pq
          /\ r.blocked = l.blocked /\ r.delay = l.delay /\ r.latest = l.latest
          /\ r.intr = l.intr /\ r.transit = X /\ r.itq = T /\ r.failed = G
      BY <1>0, <3>1, <3>2 DEF LinkType
    <3>. QED  BY <2>2, <3>3, <3>4 DEF X, T
  <2>. QED  BY <2>1, <2>2
<1>3. Extends(P, P)
  BY DEF Extends
<1>4. \A y \in l.transit : y.time >= x.time
  BY <1>0, <1>1, LinkFields, EventFields DEF FirstOut
<1>5. Body(l, n, x.time, u, c, P)
  BY <1>1, <1>3, <1>4, TimePasses
<1>6. ItqOK(r, c)
  <2>1. CASE l.config.mode # "dynamic"
    BY <1>2, <2>1 DEF ItqOK
  <2>2. CASE l.config.mode = "dynamic"
    <3>1. /\ ~c => Head(l.itq).time = x.time
          /\ Head(l.itq).time = x.time => l.transit \ {x} = Range(Tail(l.itq))
          /\ Tail(l.itq) \in Seq(PktEvent) /\ Len(Tail(l.itq)) = Len(l.itq) - 1
          /\ \A i \in 1..(Len(l.itq) - 1) : Tail(l.itq)[i] = l.itq[i + 1]
      BY <1>0, <2>2, ItqHead
    <3>2. Len(l.itq) \in Nat
      BY <1>0, LinkFields, LenProperties
    <3>3. r.failed = "assert" => c
      BY <1>2, <3>1
    <3> DEFINE T == Tail(l.itq)
    <3>4. \A i \in 1..Len(T) : i + 1 \in 1..Len(l.itq) /\ T[i] = l.itq[i + 1]
      BY <3>1, <3>2
    <3>5. \A i, j \in 1..Len(T) : i < j => i + 1 < j + 1
      BY <3>1, <3>2
    <3>6. r.itq = T /\ (r.failed = "no" => l.transit \ {x} = Range(T))
      BY <1>2, <2>2, <3>1
    <3>. HIDE DEF T
    <3>7. \A i, j \in 1..Len(T) :
            i < j => /\ T[i].uid < T[j].uid
                     /\ ~c => T[i].time <= T[j].time
      BY <1>0, <2>2, <3>4, <3>5 DEF ItqOK
    <3>8. r.transit = l.transit \ {x}
      BY <1>2
    <3>9. r.failed = "no" => r.transit = Range(r.itq)
      BY <3>6, <3>8, Zenon
    <3>10. \A i, j \in 1..Len(r.itq) :
             i < j => /\ r.itq[i].uid < r.itq[j].uid
                      /\ ~c => r.itq[i].time <= r.itq[j].time
      BY <3>6, <3>7
    <3>. QED  BY <3>3, <3>9, <3>10, Zenon DEF ItqOK
  <2>. QED  BY <2>1, <2>2
<1>7. NotLate(r, x.time, u) /\ TimesOK(r, x.time, c) /\ ContentOK(r, n, x.time, P)
  BY <1>2, <1>5 DEF Body, NotLate, TimesOK, ContentOK, Sent
<1>8. CallbackOK(r)
  BY <1>2 DEF CallbackOK
<1>9. ASSUME NEW d, InLine(l, d)  PROVE InLine(r, d)
  BY <1>2, <1>9 DEF InLine
<1>10. ASSUME NEW d, OnTheWay(l, d)  PROVE OnTheWay(r, d)
  BY <1>2, <1>10 DEF OnTheWay
<1>11. On(r) \subseteq On(l)
  BY <1>2 DEF On
<1>12. Body(r, n, x.time, u, c, P)
  BY <1>2, <1>6, <1>7 DEF Body
<1>. QED  BY <1>2, <1>8, <1>9, <1>10, <1>11, <1>12 DEF Handled

(* What comes after the packet that is next has a greater id. *)
LEMMA OthersLater ==
  ASSUME NEW l \in LinkType, NEW x, FirstOut(l, x), NEW d, IsData(x.pkt, d),
         InLine(l, d), OnTheWay(l, d)
  PROVE  /\ \A i \in 1..Len(l.pq) : IsData(l.pq[i], d) => x.pkt.id < l.pq[i].id
         /\ \A y \in l.transit : y # x /\ IsData(y.pkt, d) => x.pkt.id < y.pkt.id
<1>1. \A i \in 1..Len(l.pq) : IsData(l.pq[i], d) => x.pkt.id < l.pq[i].id
  BY DEF InLine, FirstOut
<1>2. ASSUME NEW y \in l.transit, y # x, IsData(y.pkt, d)  PROVE x.pkt.id < y.pkt.id
  <2>1. /\ y.time \in Nat /\ y.uid \in Nat /\ x.time \in Nat /\ x.uid \in Nat
        /\ y.pkt.id \in Nat /\ x.pkt.id \in Nat
    BY LinkFields, EventFields, PktFields DEF FirstOut
  <2>2. x.pkt.id # y.pkt.id /\ (y.pkt.id < x.pkt.id => Sooner(y, x))
    BY <1>2 DEF OnTheWay, FirstOut
  <2>3. ~Sooner(y, x)
    BY <2>1 DEF Sooner, FirstOut
  <2>. QED  BY <2>1, <2>2, <2>3
<1>. QED  BY <1>1, <1>2

(* The link is taken down. *)
LEMMA DownKeeps ==
  ASSUME NEW l, NEW n \in Node, NEW t \in Nat, NEW u \in Nat, NEW c \in BOOLEAN,
         NEW P, Body(l, n, t, u, c, P), CallbackOK(l), l.failed = "no",
         l.config.mode = "dynamic", NEW r, r = down(l)
  PROVE  /\ Body(r, n, t, u, c, P) /\ CallbackOK(r) /\ r.config = l.config /\ On(r) = {}
         /\ \A d : InLine(r, d) /\ OnTheWay(r, d)
<1>0. l \in LinkType
  BY DEF Body
<1>1. l.transit = Range(l.itq)
  BY DEF Body, ItqOK
<1>2. << >> \in Seq(Pkt) /\ << >> \in Seq(PktEvent) /\ Len(<< >>) = 0
  OBVIOUS
<1> DEFINE a == [l EXCEPT !.status = FALSE]
           b == [a EXCEPT !.pq = << >>]
<1>3. r = [b EXCEPT !.transit = b.transit \ Range(b.itq), !.itq = << >>]
  BY Zenon DEF down, delay_reset, queue_reset
<1>4. /\ a \in LinkType /\ a.config = l.config /\ a.blocked = l.blocked
      /\ a.itq = l.itq /\ a.transit = l.transit /\ a.intr = l.intr /\ a.failed = l.failed
  BY <1>0 DEF LinkType
<1>. HIDE DEF a
<1>5. /\ b \in LinkType /\ b.pq = << >> /\ b.config = a.config /\ b.blocked = a.blocked
      /\ b.itq = a.itq /\ b.transit = a.transit /\ b.intr = a.intr /\ b.failed = a.failed
  BY <1>2, <1>4 DEF LinkType
<1>6. b.transit \ Range(b.itq) = {}
  BY <1>1, <1>4, <1>5
<1>. HIDE DEF b
<1>7. r = [b EXCEPT !.transit = {}, !.itq = << >>]
  BY <1>3, <1>6, Zenon
<1>8. /\ r \in LinkType /\ r.pq = << >> /\ r.config = b.config /\ r.blocked = b.blocked
      /\ r.transit = {} /\ r.itq = << >> /\ r.intr = b.intr /\ r.failed = b.failed
  BY <1>2, <1>5, <1>7 DEF LinkType
<1>9. /\ r.config = l.config /\ r.blocked = l.blocked /\ r.intr = l.intr
      /\ r.failed = l.failed
  BY <1>4, <1>5, <1>8
<1>10. Range(r.itq) = {}
  BY <1>8 DEF Range
<1>11. Len(r.pq) = 0 /\ Len(r.itq) = 0
  BY <1>2, <1>8
<1>12. NotLate(r, t, u) /\ TimesOK(r, t, c) /\ ContentOK(r, n, t, P)
  BY <1>8, <1>9, <1>11 DEF Body, NotLate, TimesOK, ContentOK
<1>13. ItqOK(r, c)
  BY <1>8, <1>9, <1>10, <1>11 DEF ItqOK
<1>14. CallbackOK(r)
  BY <1>9 DEF CallbackOK
<1>15. On(r) = {}
  BY <1>8, <1>11 DEF On
<1>16. \A d : InLine(r, d) /\ OnTheWay(r, d)
  BY <1>8, <1>11 DEF InLine, OnTheWay
<1>. QED  BY <1>8, <1>9, <1>12, <1>13, <1>14, <1>15, <1>16 DEF Body

(* up and the setting of limit_, with or without shrink-queue. *)
LEMMA UpIsSame ==
  ASSUME NEW l \in LinkType
  PROVE  SameDelay(l, up(l)) /\ Part(up(l).pq, l.pq)
<1>1. SameDelay(l, up(l)) /\ up(l).pq = l.pq
  BY DEF SameDelay, up, LinkType
<1>2. l.pq \in Seq(Pkt)
  BY LinkFields
<1>. QED  BY <1>1, <1>2, PartOfSelf

WithLimit(l, k) == [l EXCEPT !.qlim = k]

LEMMA LimitIsSame ==
  ASSUME NEW l \in LinkType, NEW k \in Nat
  PROVE  /\ SameDelay(l, WithLimit(l, k)) /\ Part(WithLimit(l, k).pq, l.pq)
         /\ SameDelay(l, shrink_queue(WithLimit(l, k)))
         /\ Part(shrink_queue(WithLimit(l, k)).pq, l.pq)
<1> DEFINE m == WithLimit(l, k)
<1>1. SameDelay(l, m) /\ m.pq = l.pq /\ m.qlim = k
  BY DEF SameDelay, WithLimit, LinkType
<1>2. l.pq \in Seq(Pkt) /\ m \in LinkType
  BY <1>1, LinkFields DEF SameDelay
<1>. HIDE DEF m
<1>3. Part(m.pq, l.pq)
  BY <1>1, <1>2, PartOfSelf
<1>4. Len(m.pq) \in Nat
  BY <1>1, <1>2, LenProperties
<1>5. CASE Len(m.pq) <= m.qlim
  <2>1. shrink_queue(m) = m
    BY <1>5, Zenon DEF shrink_queue
  <2>. QED  BY <1>1, <1>3, <2>1 DEF m
<1>6. CASE ~(Len(m.pq) <= m.qlim)
  <2> DEFINE q == IF m.config.front THEN SubSeq(m.pq, Len(m.pq) - m.qlim + 1, Len(m.pq))
                  ELSE SubSeq(m.pq, 1, m.qlim)
  <2>1. shrink_queue(m) = WithPq(m, q)
    BY <1>6, Zenon DEF shrink_queue, WithPq
  <2>2. Part(q, m.pq)
    <3>1. Part(SubSeq(m.pq, Len(m.pq) - m.qlim + 1, Len(m.pq)), m.pq)
      <4>1. Len(m.pq) - m.qlim + 1 \in Nat \ {0}
        BY <1>1, <1>4, <1>6
      <4>. QED  BY <1>1, <1>2, <1>4, <4>1, SubSeqPart
    <3>2. Part(SubSeq(m.pq, 1, m.qlim), m.pq)
      BY <1>1, <1>2, <1>4, <1>6, SubSeqPart
    <3>. QED  BY <3>1, <3>2
  <2>. HIDE DEF q
  <2>3. q \in Seq(Pkt) /\ Part(q, l.pq)
    BY <1>1, <2>2 DEF Part
  <2>4. SameDelay(m, WithPq(m, q)) /\ WithPq(m, q).pq = q
    BY <1>2, <2>3, WithPqType
  <2>5. SameDelay(l, WithPq(m, q))
    BY <1>1, <2>4 DEF SameDelay
  <2>. QED  BY <1>1, <1>3, <2>1, <2>3, <2>4, <2>5 DEF m
<1>. QED  BY <1>5, <1>6

WithDelay(l, d) == [l EXCEPT !.delay = d]

(* The delay is changed. *)
LEMMA DelayKeeps ==
  ASSUME NEW l, NEW n \in Node, NEW t \in Nat, NEW u \in Nat, NEW c \in BOOLEAN,
         NEW P, Body(l, n, t, u, c, P), CallbackOK(l), NEW d \in Delays,
         NEW r, r = WithDelay(l, d), NEW e, e = (c \/ d < l.delay)
  PROVE  /\ Body(r, n, t, u, e, P) /\ CallbackOK(r) /\ r.config = l.config
         /\ r.pq = l.pq /\ r.transit = l.transit
<1>0. l \in LinkType
  BY DEF Body
<1>1. /\ r \in LinkType /\ r.config = l.config /\ r.status = l.status /\ r.pq = l.pq
      /\ r.blocked = l.blocked /\ r.delay = d /\ r.latest = l.latest /\ r.itq = l.itq
      /\ r.intr = l.intr /\ r.transit = l.transit /\ r.failed = l.failed
  BY <1>0 DEF LinkType, WithDelay
<1>2. NotLate(r, t, u) /\ ContentOK(r, n, t, P) /\ ItqOK(r, e)
  BY <1>1 DEF Body, NotLate, ContentOK, ItqOK
<1>3. TimesOK(r, t, e)
  <2>1. l.delay \in Nat /\ d \in Nat /\ l.intr.time \in Int
    BY <1>0, LinkFields, Consts
  <2>2. \A y \in l.transit : y.time \in Nat
    BY <1>0, LinkFields, EventFields
  <2>3. Sent(r, t) = Sent(l, t) /\ Sent(l, t) \in Int
    BY <1>1, <2>1 DEF Sent
  <2>4. ASSUME ~e, NEW y \in l.transit, y.time <= Sent(l, t) + l.delay
        PROVE  y.time <= Sent(r, t) + r.delay
    <3>1. ~(d < l.delay)
      BY <2>4
    <3>2. Sent(l, t) + l.delay <= Sent(l, t) + d
      BY <2>1, <2>3, <3>1
    <3>. QED  BY <1>1, <2>1, <2>2, <2>3, <2>4, <3>2
  <2>. QED  BY <1>1, <2>4 DEF Body, TimesOK
<1>4. CallbackOK(r)
  BY <1>1 DEF CallbackOK
<1>. QED  BY <1>1, <1>2, <1>3, <1>4 DEF Body

-----------------------------------------------------------------------------
(* The specification. *)

LEMMA Peers ==
  /\ \A n \in Node : Peer(n) \in Node /\ Peer(n) # n /\ Peer(Peer(n)) = n
  /\ \A n, m \in Node : m = n \/ m = Peer(n)
BY DEF Node, Peer

(* Every link is as good as before: the steps that change no link. *)
LEMMA NewLinkOK ==
  ASSUME NEW k \in Config, NEW n \in Node
  PROVE  LET l == NewLink(k, Max(Limits), Max(Delays)) IN
         /\ Body(l, n, 0, 1, FALSE, << >>) /\ CallbackOK(l) /\ l.config = k
         /\ On(l) = {} /\ \A r : InLine(l, r) /\ OnTheWay(l, r)
<1> DEFINE l == NewLink(k, Max(Limits), Max(Delays))
<1>1. Max(Limits) \in Nat /\ Max(Delays) \in Delays
  BY Consts
<1>2. << >> \in Seq(Pkt) /\ << >> \in Seq(PktEvent) /\ Len(<< >>) = 0 /\ NoEvent \in Intr
  BY DEF Intr, NoEvent
<1>3. /\ l.config = k /\ l.pq = << >> /\ l.itq = << >> /\ l.transit = {}
      /\ l.intr = NoEvent /\ l.blocked = FALSE /\ l.failed = "no"
  BY DEF NewLink
<1>4. l \in LinkType
  BY <1>1, <1>2 DEF NewLink, LinkType, Failure
<1>. HIDE DEF l
<1>5. Len(l.pq) = 0 /\ Len(l.itq) = 0 /\ Range(l.itq) = {}
  BY <1>2, <1>3 DEF Range
<1>6. NotLate(l, 0, 1) /\ ItqOK(l, FALSE) /\ TimesOK(l, 0, FALSE) /\ ContentOK(l, n, 0, << >>)
  BY <1>3, <1>5 DEF NotLate, ItqOK, TimesOK, ContentOK
<1>7. CallbackOK(l) /\ \A r : InLine(l, r) /\ OnTheWay(l, r)
  BY <1>3, <1>5 DEF CallbackOK, InLine, OnTheWay
<1>8. On(l) = {}
  BY <1>3, <1>5 DEF On
<1>9. Body(l, n, 0, 1, FALSE, << >>)
  BY <1>4, <1>6 DEF Body
<1>. QED  BY <1>3, <1>7, <1>8, <1>9 DEF l

LEMMA InitOK == Init => IInv
<1>1. SUFFICES ASSUME Init  PROVE IInv
  OBVIOUS
<1>2. PICK k \in Configs : link = [n \in Node |-> NewLink(k, Max(Limits), Max(Delays))]
  BY <1>1 DEF Init
<1>3. k \in Config
  BY MyPingAssumption
<1>4. /\ now = 0 /\ uids = 1 /\ pings = << >> /\ routing = 0
      /\ reports = {} /\ cut = [n \in Node |-> FALSE]
  BY <1>1 DEF Init
<1> DEFINE l == NewLink(k, Max(Limits), Max(Delays))
<1>5. \A n \in Node : /\ Body(l, n, 0, 1, FALSE, << >>) /\ CallbackOK(l) /\ l.config = k
                      /\ On(l) = {} /\ \A r : InLine(l, r) /\ OnTheWay(l, r)
  BY <1>3, NewLinkOK
<1>6. link = [n \in Node |-> l]
  BY <1>2
<1>. HIDE DEF l
<1>7. \A n \in Node : link[n] = l /\ cut[n] = FALSE
  BY <1>4, <1>6
<1>8. TypeInv
  <2>1. l \in LinkType /\ {"a", "b"} \subseteq Node
    BY <1>5 DEF Body, Node
  <2>2. link["a"].config = link["b"].config
    BY <1>7, <2>1
  <2>3. pings \in Seq(PingRec) /\ DOMAIN pings = {}
    BY <1>4
  <2>. QED  BY <1>4, <1>6, <2>1, <2>2, <2>3 DEF TypeInv
<1>9. LinksOK
  BY <1>4, <1>5, <1>7 DEF LinksOK
<1>10. OrderOK
  BY <1>5, <1>7, Peers DEF OrderOK, Answered, LineOK
<1>11. ReportsOK
  BY <1>4 DEF ReportsOK
<1>. QED  BY <1>8, <1>9, <1>10, <1>11 DEF IInv

(* What the order of two links needs of a step that adds nothing to them. *)
LEMMA AnsweredStays ==
  ASSUME NEW k, NEW l, NEW k1, NEW l1, Answered(k, l),
         On(k1) \subseteq On(k), On(l1) \subseteq On(l)
  PROVE  Answered(k1, l1)
BY DEF Answered

(* The links of a step: r that of n, s that of its peer. *)
LEMMA TwoLinks ==
  ASSUME TypeInv, NEW n \in Node, NEW m, m = Peer(n), NEW r, NEW s,
         link' = [x \in Node |-> IF x = n THEN r ELSE s],
         r.config = link[n].config, s.config = link[m].config,
         cut' \in [Node -> BOOLEAN],
         Body(r, n, now', uids', cut'[n], pings'), CallbackOK(r),
         Body(s, m, now', uids', cut'[m], pings'), CallbackOK(s),
         LineOK(r, Straight(s, cut'[m]), cut'[n]),
         LineOK(s, Straight(r, cut'[n]), cut'[m]),
         Straight(s, cut'[m]) => Answered(s, r),
         Straight(r, cut'[n]) => Answered(r, s)
  PROVE  LinksOK' /\ OrderOK' /\ link' \in [Node -> LinkType]
         /\ (link["a"].config = link["b"].config)'
<1>1. m \in Node /\ m # n /\ Peer(m) = n /\ \A x \in Node : x = n \/ x = m
  BY Peers
<1>2. link'[n] = r /\ link'[m] = s
  BY <1>1
<1>3. r \in LinkType /\ s \in LinkType
  BY DEF Body
<1>4. link' \in [Node -> LinkType]
  BY <1>3
<1>5. (link["a"].config = link["b"].config)'
  <2>1. "a" \in Node /\ "b" \in Node /\ link[n].config = link[m].config
    BY <1>1 DEF TypeInv, Node
  <2>2. r.config = s.config
    BY <2>1
  <2>. QED  BY <1>1, <1>2, <2>1, <2>2
<1>6. LinksOK'
  BY <1>1, <1>2, Zenon DEF LinksOK
<1>7. OrderOK'
  <2>1. LineOK(link'[n], Straight(link'[Peer(n)], cut'[Peer(n)]), cut'[n])
    BY <1>2
  <2>2. LineOK(link'[m], Straight(link'[Peer(m)], cut'[Peer(m)]), cut'[m])
    BY <1>1, <1>2
  <2>3. Straight(link'[Peer(n)], cut'[Peer(n)]) => Answered(link'[Peer(n)], link'[n])
    BY <1>2
  <2>4. Straight(link'[Peer(m)], cut'[Peer(m)]) => Answered(link'[Peer(m)], link'[m])
    BY <1>1, <1>2
  <2>. QED  BY <1>1, <2>1, <2>2, <2>3, <2>4, Zenon DEF OrderOK
<1>. QED  BY <1>4, <1>5, <1>6, <1>7

(* What the invariant says of a node and its peer. *)
LEMMA Facts ==
  ASSUME IInv, NEW n \in Node, NEW m, m = Peer(n)
  PROVE  /\ m \in Node /\ m # n /\ Peer(m) = n /\ \A x \in Node : x = n \/ x = m
         /\ now \in Nat /\ uids \in Nat /\ uids + 2 \in Nat \ {0} /\ routing \in Nat
         /\ cut[n] \in BOOLEAN /\ cut[m] \in BOOLEAN
         /\ Body(link[n], n, now, uids, cut[n], pings) /\ CallbackOK(link[n])
         /\ Body(link[m], m, now, uids, cut[m], pings) /\ CallbackOK(link[m])
         /\ link[n] \in LinkType /\ link[m] \in LinkType
         /\ LineOK(link[n], Straight(link[m], cut[m]), cut[n])
         /\ LineOK(link[m], Straight(link[n], cut[n]), cut[m])
         /\ Straight(link[m], cut[m]) => Answered(link[m], link[n])
         /\ Straight(link[n], cut[n]) => Answered(link[n], link[m])
<1>1. m \in Node /\ m # n /\ Peer(m) = n /\ \A x \in Node : x = n \/ x = m
  BY Peers
<1>2. /\ Body(link[n], n, now, uids, cut[n], pings) /\ CallbackOK(link[n])
      /\ Body(link[m], m, now, uids, cut[m], pings) /\ CallbackOK(link[m])
  BY <1>1 DEF IInv, LinksOK
<1>3. /\ LineOK(link[n], Straight(link[m], cut[m]), cut[n])
      /\ LineOK(link[m], Straight(link[n], cut[n]), cut[m])
      /\ Straight(link[m], cut[m]) => Answered(link[m], link[n])
      /\ Straight(link[n], cut[n]) => Answered(link[n], link[m])
  BY <1>1, Zenon DEF IInv, OrderOK
<1>4. /\ now \in Nat /\ uids \in Nat /\ uids + 2 \in Nat \ {0} /\ routing \in Nat
      /\ cut[n] \in BOOLEAN /\ cut[m] \in BOOLEAN
  BY <1>1 DEF IInv, TypeInv
<1>5. link[n] \in LinkType /\ link[m] \in LinkType
  BY <1>2 DEF Body
<1>. QED  BY <1>1, <1>2, <1>3, <1>4, <1>5

(* A step that changes the link of n at most, and adds no ping or answer.  *)
LEMMA OneLink ==
  ASSUME IInv, NEW n \in Node, NEW m, m = Peer(n), NEW r,
         link' = [link EXCEPT ![n] = r], r.config = link[n].config,
         cut' \in [Node -> BOOLEAN], cut'[m] = cut[m], cut[n] => cut'[n],
         Body(r, n, now', uids', cut'[n], pings'), CallbackOK(r),
         Body(link[m], m, now', uids', cut[m], pings'),
         \A d : InLine(link[n], d) => InLine(r, d),
         \A d : InLine(link[n], d) /\ OnTheWay(link[n], d) /\ Straight(link[n], cut[n])
                 => OnTheWay(r, d),
         \A q \in On(r) : q \in On(link[n]) \/ q.class = "routing"
  PROVE  LinksOK' /\ OrderOK' /\ link' \in [Node -> LinkType]
         /\ (link["a"].config = link["b"].config)'
<1> DEFINE l == link[n]
           s == link[m]
<1>0. /\ TypeInv /\ m \in Node /\ m # n /\ \A x \in Node : x = n \/ x = m
      /\ link \in [Node -> LinkType] /\ CallbackOK(s)
      /\ LineOK(l, Straight(s, cut[m]), cut[n]) /\ LineOK(s, Straight(l, cut[n]), cut[m])
      /\ Straight(s, cut[m]) => Answered(s, l)
      /\ Straight(l, cut[n]) => Answered(l, s)
  BY Facts DEF IInv, TypeInv
<1>1. link' = [x \in Node |-> IF x = n THEN r ELSE s]
  BY <1>0
<1>2. Straight(r, cut'[n]) => Straight(l, cut[n])
  BY DEF Straight, Ordered
<1>. HIDE DEF l, s
<1>3. LineOK(r, Straight(s, cut'[m]), cut'[n])
  BY <1>0, <1>2 DEF LineOK, l
<1>4. LineOK(s, Straight(r, cut'[n]), cut'[m])
  BY <1>0, <1>2 DEF LineOK
<1>5. Straight(s, cut'[m]) => Answered(s, r)
  BY <1>0 DEF Answered, IsData, l
<1>6. Straight(r, cut'[n]) => Answered(r, s)
  BY <1>0, <1>2 DEF Answered, IsData, l
<1>7. Body(s, m, now', uids', cut'[m], pings') /\ s.config = link[m].config
  BY DEF s
<1>. QED  BY <1>0, <1>1, <1>3, <1>4, <1>5, <1>6, <1>7, TwoLinks

LEMMA PingFields ==
  ASSUME TypeInv
  PROVE  /\ Len(pings) \in Nat /\ DOMAIN pings = 1..Len(pings)
         /\ \A i \in DOMAIN pings : pings[i].agent \in Node /\ pings[i].time \in Nat
<1>1. pings \in Seq(PingRec)
  BY DEF TypeInv
<1>2. \A i \in DOMAIN pings : pings[i] \in PingRec
  BY <1>1, ElementOfSeq, LenProperties
<1>3. Len(pings) \in Nat /\ DOMAIN pings = 1..Len(pings)
  BY <1>1, LenProperties
<1>. QED  BY <1>2, <1>3 DEF PingRec

(* The rest of the invariant in a step that reports nothing. *)
LEMMA RestKept ==
  ASSUME IInv, now' \in Nat, now <= now', Extends(pings, pings'), reports' = reports
  PROVE  ReportsOK'
<1>1. SUFFICES ASSUME NEW r \in reports
               PROVE  /\ r.id \in DOMAIN pings' /\ pings'[r.id].agent = r.agent
                      /\ r.rtt \in Nat /\ r.rtt >= 2 * Shortest
                      /\ pings'[r.id].time + r.rtt <= now'
  BY DEF ReportsOK
<1>2. /\ r.id \in DOMAIN pings /\ pings[r.id].agent = r.agent
      /\ r.rtt \in Nat /\ r.rtt >= 2 * Shortest
      /\ pings[r.id].time + r.rtt <= now
  BY DEF IInv, ReportsOK
<1>3. pings'[r.id] = pings[r.id] /\ r.id \in DOMAIN pings'
  BY <1>2 DEF Extends
<1>4. pings[r.id].time \in Nat /\ now \in Nat
  BY <1>2, PingFields DEF IInv, TypeInv
<1>. QED  BY <1>2, <1>3, <1>4

LEMMA PingsSame ==
  ASSUME NEW P  PROVE Extends(P, P)
BY DEF Extends

(* The next event of a link. *)
LEMMA NextEvent ==
  ASSUME IInv, NEW m \in Node, NEW t \in Nat, NEW u, IsNext(t, u)
  PROVE  /\ link[m].intr # NoEvent => link[m].intr.time >= t
         /\ \A y \in link[m].transit : y.time >= t
<1>1. link[m] \in LinkType
  BY DEF IInv, TypeInv
<1>2. link[m].intr.time \in Int /\ \A y \in link[m].transit : y.time \in Nat
  BY <1>1, LinkFields, EventFields
<1>. QED  BY <1>2 DEF IsNext

-----------------------------------------------------------------------------
(* One lemma per action. *)

LEMMA TickKeeps ==
  ASSUME IInv, Tick  PROVE IInv'
<1>1. /\ now' = now + 1 /\ link' = link /\ uids' = uids /\ pings' = pings
      /\ routing' = routing /\ reports' = reports /\ cut' = cut
  BY DEF Tick
<1>2. now \in Nat /\ uids \in Nat /\ TypeInv
  BY DEF IInv, TypeInv
<1>3. ASSUME NEW n \in Node
      PROVE  Body(link[n], n, now + 1, uids, cut[n], pings)
  <2>0. /\ Body(link[n], n, now, uids, cut[n], pings) /\ cut[n] \in BOOLEAN
        /\ link[n] \in LinkType
    BY DEF IInv, LinksOK, TypeInv
  <2>1. \A t \in EventTimes(link[n]) : t > now
    BY DEF Tick
  <2>2. link[n].intr # NoEvent => link[n].intr.time >= now + 1
    <3>1. link[n].intr.time \in Int
      BY <2>0, LinkFields
    <3>2. link[n].intr # NoEvent => link[n].intr.time \in EventTimes(link[n])
      BY Zenon DEF EventTimes
    <3>. QED  BY <1>2, <2>1, <3>1, <3>2
  <2>3. \A y \in link[n].transit : y.time >= now + 1
    <3>1. \A y \in link[n].transit : y.time \in Nat /\ y.time \in EventTimes(link[n])
      BY <2>0, LinkFields, EventFields DEF EventTimes
    <3>. QED  BY <1>2, <2>1, <3>1
  <2>4. now + 1 \in Nat /\ now <= now + 1
    BY <1>2
  <2>. QED  BY <1>2, <2>0, <2>2, <2>3, <2>4, PingsSame, TimePasses
<1>4. LinksOK'
  BY <1>1, <1>3 DEF IInv, LinksOK
<1>5. OrderOK'
  BY <1>1 DEF IInv, OrderOK
<1>6. now' \in Nat /\ now <= now'
  BY <1>1, <1>2
<1>7. Extends(pings, pings')
  BY <1>1, PingsSame
<1>8. ReportsOK'
  BY <1>1, <1>6, <1>7, RestKept
<1>9. TypeInv'
  <2>1. \A i \in DOMAIN pings : pings[i].time <= now'
    BY <1>2, <1>6, PingFields DEF TypeInv
  <2>. QED  BY <1>1, <1>2, <1>6, <2>1 DEF TypeInv
<1>. QED  BY <1>4, <1>5, <1>8, <1>9 DEF IInv

LEMMA SendRoutingKeeps ==
  ASSUME IInv, NEW n \in Node, SendRouting(n)  PROVE IInv'
<1> DEFINE m == Peer(n)
           p == [class |-> "routing", id |-> routing + 1]
           r == recv(link[n], p, now, uids)
<1>0. /\ routing' = routing + 1 /\ uids' = uids + 2 /\ link' = [link EXCEPT ![n] = r]
      /\ now' = now /\ pings' = pings /\ reports' = reports /\ cut' = cut
  BY DEF SendRouting
<1>1. /\ now \in Nat /\ uids \in Nat /\ uids + 2 \in Nat \ {0} /\ routing \in Nat
      /\ cut[n] \in BOOLEAN /\ cut[m] \in BOOLEAN
      /\ Body(link[n], n, now, uids, cut[n], pings) /\ CallbackOK(link[n])
      /\ Body(link[m], m, now, uids, cut[m], pings)
      /\ m \in Node
  BY Facts
<1>2. p \in Pkt /\ p.class = "routing" /\ Genuine(p, n, pings) /\ Aged(p, 0, now)
  BY <1>1 DEF Pkt, Genuine, Aged
<1>. HIDE DEF p, m, r
<1>3. r = recv(link[n], p, now, uids)
  BY DEF r
<1>4. Taken(link[n], p, r, n, now, uids, cut[n], pings)
  BY <1>1, <1>2, <1>3, RecvKeeps
<1>5. \A d : Newest(p, d, link[n])
  BY <1>2 DEF Newest, IsData
<1>6. Body(link[m], m, now, uids + 2, cut[m], pings)
  <2>1. /\ link[m].intr # NoEvent => link[m].intr.time >= now
        /\ \A y \in link[m].transit : y.time >= now
    BY <1>1 DEF Body, NotLate
  <2>2. uids <= uids + 2 /\ now <= now /\ uids + 2 \in Nat
    BY <1>1
  <2>. QED  BY <1>1, <2>1, <2>2, PingsSame, TimePasses
<1>7. cut \in [Node -> BOOLEAN] /\ TypeInv
  BY DEF IInv, TypeInv
<1>8. /\ \A d : InLine(link[n], d) => InLine(r, d)
      /\ \A d : InLine(link[n], d) /\ OnTheWay(link[n], d) /\ Straight(link[n], cut[n])
                => OnTheWay(r, d)
      /\ \A q \in On(r) : q \in On(link[n]) \/ q.class = "routing"
  BY <1>2, <1>4, <1>5 DEF Taken
<1>9. LinksOK' /\ OrderOK' /\ link' \in [Node -> LinkType]
      /\ (link["a"].config = link["b"].config)'
  <2>1. Body(r, n, now', uids', cut'[n], pings') /\ Body(link[m], m, now', uids', cut[m], pings')
    BY <1>0, <1>4, <1>6 DEF Taken
  <2>2. cut' \in [Node -> BOOLEAN] /\ cut'[m] = cut[m] /\ (cut[n] => cut'[n])
    BY <1>0, <1>7
  <2>3. CallbackOK(r) /\ r.config = link[n].config /\ m = Peer(n)
    BY <1>4 DEF Taken, m
  <2>. QED  BY <1>0, <1>8, <2>1, <2>2, <2>3, OneLink
<1>10. ReportsOK'
  <2>1. now' \in Nat /\ now <= now' /\ Extends(pings, pings')
    BY <1>0, <1>1, PingsSame
  <2>. QED  BY <1>0, <2>1, RestKept
<1>11. TypeInv'
  BY <1>0, <1>1, <1>7, <1>9 DEF TypeInv
<1>. QED  BY <1>9, <1>10, <1>11 DEF IInv

LEMMA SendKeeps ==
  ASSUME IInv, NEW n \in Node, Send(n)  PROVE IInv'
<1> DEFINE m == Peer(n)
           k == Len(pings) + 1
           p == [class |-> "data", ret |-> 0, send_time |-> now, id |-> k]
           e == [agent |-> n, time |-> now]
           P == Append(pings, e)
           r == recv(link[n], p, now, uids)
<1>0. /\ pings' = P /\ uids' = uids + 2 /\ link' = [link EXCEPT ![n] = r]
      /\ now' = now /\ routing' = routing /\ reports' = reports /\ cut' = cut
  BY DEF Send
<1>1. /\ now \in Nat /\ uids \in Nat /\ uids + 2 \in Nat \ {0}
      /\ cut[n] \in BOOLEAN /\ cut[m] \in BOOLEAN
      /\ Body(link[n], n, now, uids, cut[n], pings) /\ CallbackOK(link[n])
      /\ Body(link[m], m, now, uids, cut[m], pings) /\ CallbackOK(link[m])
      /\ m \in Node /\ m # n /\ \A x \in Node : x = n \/ x = m
      /\ link[n] \in LinkType /\ link[m] \in LinkType
      /\ LineOK(link[n], Straight(link[m], cut[m]), cut[n])
      /\ LineOK(link[m], Straight(link[n], cut[n]), cut[m])
      /\ Straight(link[m], cut[m]) => Answered(link[m], link[n])
      /\ Straight(link[n], cut[n]) => Answered(link[n], link[m])
      /\ TypeInv
  BY Facts DEF IInv
<1>2. /\ pings \in Seq(PingRec) /\ e \in PingRec /\ Len(pings) \in Nat
      /\ DOMAIN pings = 1..Len(pings) /\ e.time = now /\ e.agent = n
  BY <1>1, PingFields DEF TypeInv, PingRec
<1>3. /\ P \in Seq(PingRec) /\ DOMAIN P = 1..k /\ P[k] = e
      /\ \A i \in 1..Len(pings) : P[i] = pings[i]
  <2>1. \A q \in Seq(PingRec) :
          /\ Append(q, e) \in Seq(PingRec) /\ Len(Append(q, e)) = Len(q) + 1
          /\ Append(q, e)[Len(q) + 1] = e
          /\ \A i \in 1..Len(q) : Append(q, e)[i] = q[i]
    BY <1>2, AppendProperties
  <2>2. /\ P \in Seq(PingRec) /\ Len(P) = k /\ P[k] = e
        /\ \A i \in 1..Len(pings) : P[i] = pings[i]
    BY <1>2, <2>1, Zenon
  <2>3. DOMAIN P = 1..Len(P)
    BY <2>2, LenProperties
  <2>. QED  BY <2>2, <2>3, Zenon
<1>4. Extends(pings, P)
  BY <1>2, <1>3 DEF Extends
<1>5. /\ p \in Pkt /\ p.class = "data" /\ p.ret = 0 /\ p.id = k /\ p.send_time = now
      /\ k \in Nat
  BY <1>1, <1>2 DEF Pkt
<1>6. Aged(p, 0, now) /\ Genuine(p, n, P)
  <2>1. (0 + 0) * Shortest = 0
    BY Consts
  <2>2. k \in DOMAIN P
    BY <1>3, <1>5
  <2>. HIDE DEF p, P
  <2>3. Aged(p, 0, now)
    BY <1>1, <1>5, <2>1 DEF Aged
  <2>. QED  BY <1>2, <1>3, <1>5, <2>2, <2>3 DEF Genuine
<1>7. r = recv(link[n], p, now, uids)
  OBVIOUS
<1>. HIDE DEF p, P, r, m, k, e
<1>8. \A x \in Node : \A q \in On(link[x]) : q.class = "data" => q.id < k /\ q.id \in Nat
  <2>1. SUFFICES ASSUME NEW x \in Node, NEW q \in On(link[x]), q.class = "data"
                 PROVE  q.id \in DOMAIN pings
    BY <1>2 DEF k
  <2>2. ContentOK(link[x], x, now, pings)
    BY <1>1 DEF Body
  <2>3. Genuine(q, x, pings)
    BY <2>1, <2>2 DEF On, ContentOK
  <2>. QED  BY <2>1, <2>3 DEF Genuine
<1>9. ASSUME NEW x \in Node
      PROVE  /\ Body(link[x], x, now, uids, cut[x], P)
             /\ Body(link[x], x, now, uids + 2, cut[x], P)
  <2>0. Body(link[x], x, now, uids, cut[x], pings) /\ cut[x] \in BOOLEAN
    BY <1>1
  <2>1. /\ link[x].intr # NoEvent => link[x].intr.time >= now
        /\ \A y \in link[x].transit : y.time >= now
    BY <2>0 DEF Body, NotLate
  <2>2. uids <= uids + 2 /\ now <= now /\ uids + 2 \in Nat /\ uids <= uids
    BY <1>1
  <2>. QED  BY <1>1, <1>4, <2>0, <2>1, <2>2, TimePasses
<1>10. Taken(link[n], p, r, n, now, uids, cut[n], P)
  BY <1>1, <1>5, <1>6, <1>7, <1>9, RecvKeeps
<1>11. \A d : Newest(p, d, link[n])
  BY <1>5, <1>8 DEF Newest, IsData
<1>12. /\ Body(r, n, now, uids + 2, cut[n], P) /\ CallbackOK(r)
       /\ r.config = link[n].config /\ On(r) \subseteq On(link[n]) \cup {p}
       /\ \A d : InLine(link[n], d) => InLine(r, d)
       /\ \A d : InLine(link[n], d) /\ OnTheWay(link[n], d) /\ Straight(link[n], cut[n])
                 => OnTheWay(r, d)
  BY <1>10, <1>11 DEF Taken
<1> DEFINE s == link[m]
<1>13. Straight(r, cut[n]) <=> Straight(link[n], cut[n])
  BY <1>12 DEF Straight, Ordered
<1>14. LineOK(r, Straight(s, cut[m]), cut[n])
  BY <1>1, <1>12, <1>13 DEF LineOK
<1>15. LineOK(s, Straight(r, cut[n]), cut[m])
  BY <1>1, <1>13 DEF LineOK
<1>16. Straight(s, cut[m]) => Answered(s, r)
  BY <1>1, <1>5, <1>12 DEF Answered, IsData
<1>17. Straight(r, cut[n]) => Answered(r, s)
  <2>1. \A q \in On(s) : IsData(q, 1) => q.id < k
    BY <1>1, <1>8 DEF IsData
  <2>. QED  BY <1>1, <1>5, <1>12, <1>13, <2>1 DEF Answered
<1>18. link' = [x \in Node |-> IF x = n THEN r ELSE s]
  <2>1. link \in [Node -> LinkType]
    BY <1>1 DEF TypeInv
  <2>. QED  BY <1>0, <1>1, <2>1
<1>19. Body(s, m, now, uids + 2, cut[m], P) /\ CallbackOK(s) /\ m = Peer(n)
  BY <1>1, <1>9 DEF m
<1>20. cut \in [Node -> BOOLEAN] /\ routing \in Nat
  BY <1>1 DEF TypeInv
<1>21. LinksOK' /\ OrderOK' /\ link' \in [Node -> LinkType]
       /\ (link["a"].config = link["b"].config)'
  <2>1. /\ Body(r, n, now', uids', cut'[n], pings') /\ Body(s, m, now', uids', cut'[m], pings')
        /\ cut' \in [Node -> BOOLEAN]
        /\ LineOK(r, Straight(s, cut'[m]), cut'[n])
        /\ LineOK(s, Straight(r, cut'[n]), cut'[m])
        /\ Straight(s, cut'[m]) => Answered(s, r)
        /\ Straight(r, cut'[n]) => Answered(r, s)
    BY <1>0, <1>12, <1>14, <1>15, <1>16, <1>17, <1>19, <1>20
  <2>2. s.config = link[m].config
    OBVIOUS
  <2>. HIDE DEF s
  <2>. QED  BY <1>1, <1>12, <1>18, <1>19, <2>1, <2>2, TwoLinks
<1>22. ReportsOK'
  <2>1. now' \in Nat /\ now <= now' /\ Extends(pings, pings')
    BY <1>0, <1>1, <1>4
  <2>. QED  BY <1>0, <2>1, RestKept
<1>23. TypeInv'
  <2>1. \A i \in DOMAIN P : P[i].time <= now
    <3>1. \A i \in 1..k : i = k \/ i \in 1..Len(pings)
      BY <1>2 DEF k
    <3>2. \A i \in 1..Len(pings) : pings[i].time <= now
      BY <1>1, <1>2 DEF TypeInv
    <3>. QED  BY <1>1, <1>2, <1>3, <3>1, <3>2
  <2>. QED  BY <1>0, <1>1, <1>3, <1>20, <1>21, <2>1 DEF TypeInv
<1>. QED  BY <1>21, <1>22, <1>23 DEF IInv

LEMMA TransmittedKeeps ==
  ASSUME IInv, NEW n \in Node, Transmitted(n)  PROVE IInv'
<1> DEFINE m == Peer(n)
           t == link[n].intr.time
           r == resume(link[n], t, uids)
<1>0. /\ uids' = uids + 2 /\ link' = [link EXCEPT ![n] = r] /\ now' = t
      /\ routing' = routing /\ reports' = reports /\ cut' = cut /\ pings' = pings
      /\ link[n].intr # NoEvent /\ IsNext(t, link[n].intr.uid)
  BY DEF Transmitted
<1>1. /\ now \in Nat /\ uids \in Nat /\ uids + 2 \in Nat \ {0}
      /\ cut[n] \in BOOLEAN /\ cut[m] \in BOOLEAN
      /\ Body(link[n], n, now, uids, cut[n], pings) /\ CallbackOK(link[n])
      /\ Body(link[m], m, now, uids, cut[m], pings)
      /\ m \in Node /\ link[n] \in LinkType /\ TypeInv
  BY Facts DEF IInv
<1>2. t \in Nat /\ now <= t
  <2>1. t \in Int /\ t >= now
    BY <1>0, <1>1, LinkFields DEF Body, NotLate
  <2>. QED  BY <1>1, <2>1
<1>3. ASSUME NEW x \in Node
      PROVE  /\ link[x].intr # NoEvent => link[x].intr.time >= t
             /\ \A y \in link[x].transit : y.time >= t
  BY <1>0, <1>2, NextEvent
<1>. HIDE DEF t, m, r
<1>4. uids <= uids /\ uids <= uids + 2 /\ uids + 2 \in Nat
  BY <1>1
<1>5. Body(link[n], n, t, uids, cut[n], pings)
  BY <1>1, <1>2, <1>3, <1>4, PingsSame, TimePasses
<1>6. Body(link[m], m, t, uids + 2, cut[m], pings)
  BY <1>1, <1>2, <1>3, <1>4, PingsSame, TimePasses
<1>7. r = resume(link[n], t, uids) /\ t = link[n].intr.time
  BY DEF r, t
<1>8. Moved(link[n], r, n, t, uids, cut[n], pings)
  BY <1>0, <1>1, <1>2, <1>5, <1>7, ResumeKeeps
<1>9. /\ Body(r, n, t, uids + 2, cut[n], pings) /\ CallbackOK(r) /\ r.config = link[n].config
      /\ \A d : InLine(link[n], d) => InLine(r, d)
      /\ \A d : InLine(link[n], d) /\ OnTheWay(link[n], d) /\ Straight(link[n], cut[n])
                => OnTheWay(r, d)
      /\ \A q \in On(r) : q \in On(link[n]) \/ q.class = "routing"
  BY <1>8 DEF Moved
<1>10. cut \in [Node -> BOOLEAN] /\ routing \in Nat
  BY <1>1 DEF TypeInv
<1>11. LinksOK' /\ OrderOK' /\ link' \in [Node -> LinkType]
       /\ (link["a"].config = link["b"].config)'
  <2>1. Body(r, n, now', uids', cut'[n], pings') /\ Body(link[m], m, now', uids', cut[m], pings')
    BY <1>0, <1>6, <1>9
  <2>2. cut' \in [Node -> BOOLEAN] /\ cut'[m] = cut[m] /\ (cut[n] => cut'[n]) /\ m = Peer(n)
    BY <1>0, <1>10 DEF m
  <2>. QED  BY <1>0, <1>9, <2>1, <2>2, OneLink
<1>12. ReportsOK'
  <2>1. now' \in Nat /\ now <= now' /\ Extends(pings, pings')
    BY <1>0, <1>2, PingsSame
  <2>. QED  BY <1>0, <2>1, RestKept
<1>13. TypeInv'
  <2>1. \A i \in DOMAIN pings : pings[i].time <= t
    BY <1>1, <1>2, PingFields DEF TypeInv
  <2>. QED  BY <1>0, <1>1, <1>2, <1>10, <1>11, <2>1 DEF TypeInv
<1>. QED  BY <1>11, <1>12, <1>13 DEF IInv

LEMMA ArriveKeeps ==
  ASSUME IInv, NEW n \in Node, NEW x \in link[n].transit, Arrive(n, x)  PROVE IInv'
<1> DEFINE m == Peer(n)
           p == x.pkt
           t == x.time
           isPing == p.class = "data" /\ p.ret = 0
           isAnswer == p.class = "data" /\ p.ret = 1
           r == delay_handle(link[n], x)
           s == IF isPing THEN recv(link[m], Answer(p), t, uids) ELSE link[m]
           rep == [agent |-> m, id |-> p.id, rtt |-> t - p.send_time]
<1>1. /\ now \in Nat /\ uids \in Nat /\ uids + 2 \in Nat \ {0}
      /\ cut[n] \in BOOLEAN /\ cut[m] \in BOOLEAN
      /\ Body(link[n], n, now, uids, cut[n], pings) /\ CallbackOK(link[n])
      /\ Body(link[m], m, now, uids, cut[m], pings) /\ CallbackOK(link[m])
      /\ m \in Node /\ m # n /\ Peer(m) = n /\ \A y \in Node : y = n \/ y = m
      /\ link[n] \in LinkType /\ link[m] \in LinkType
      /\ LineOK(link[n], Straight(link[m], cut[m]), cut[n])
      /\ LineOK(link[m], Straight(link[n], cut[n]), cut[m])
      /\ Straight(link[m], cut[m]) => Answered(link[m], link[n])
      /\ Straight(link[n], cut[n]) => Answered(link[n], link[m])
      /\ TypeInv
  BY Facts DEF IInv
<1>2. /\ uids' = uids + 2 /\ now' = t /\ routing' = routing /\ cut' = cut
      /\ pings' = pings /\ IsNext(t, x.uid)
      /\ reports' = reports \cup IF isAnswer THEN {rep} ELSE {}
  BY DEF Arrive
<1>3. link' = [y \in Node |-> IF y = n THEN r ELSE s]
  <2>1. link' = [link EXCEPT ![n] = r, ![m] = s]
    BY <1>2, Zenon DEF Arrive
  <2>2. link \in [Node -> LinkType]
    BY <1>1 DEF TypeInv
  <2>. HIDE DEF r, s
  <2>. QED  BY <1>1, <2>1, <2>2
<1>4. x \in PktEvent /\ p \in Pkt /\ t \in Nat /\ x.uid \in Nat /\ now <= t
  BY <1>1, LinkFields, EventFields DEF Body, NotLate
<1>5. ASSUME NEW y \in Node
      PROVE  /\ link[y].intr # NoEvent => link[y].intr.time >= t
             /\ \A z \in link[y].transit : z.time >= t
  BY <1>2, <1>4, NextEvent
<1>6. FirstOut(link[n], x)
  BY <1>2 DEF IsNext, FirstOut
<1>7. link[n].failed = "no"
  BY DEF Arrive, Running
<1>8. p.id \in Nat /\ (p.class = "data" => p.ret \in {0, 1} /\ p.send_time \in Nat)
  BY <1>4, PktFields
<1>9. Genuine(p, n, pings) /\ Aged(p, 1, t)
  BY <1>1 DEF Body, ContentOK
<1>10. Shortest \in Nat
  BY Consts
<1>. HIDE DEF m, p, t, r, s
<1>11. t = x.time /\ p = x.pkt /\ m = Peer(n) /\ r = delay_handle(link[n], x)
  BY DEF t, p, m, r
<1>12. /\ Body(r, n, x.time, uids, cut[n], pings) /\ CallbackOK(r) /\ r.config = link[n].config
       /\ \A d : InLine(link[n], d) => InLine(r, d)
       /\ \A d : OnTheWay(link[n], d) => OnTheWay(r, d)
       /\ On(r) \subseteq On(link[n])
       /\ r.pq = link[n].pq /\ r.transit = link[n].transit \ {x}
  <2>1. link[n].intr # NoEvent => link[n].intr.time >= x.time
    BY <1>5, <1>11
  <2>2. Handled(link[n], x, r, n, uids, cut[n], pings)
    BY <1>1, <1>6, <1>7, <1>11, <2>1, HandleKeeps
  <2>. QED  BY <2>2 DEF Handled
<1>13. Body(r, n, t, uids + 2, cut[n], pings)
  <2>1. Body(r, n, t, uids, cut[n], pings)
    BY <1>11, <1>12
  <2>2. /\ r.intr # NoEvent => r.intr.time >= t
        /\ \A y \in r.transit : y.time >= t
    BY <2>1 DEF Body, NotLate
  <2>3. uids <= uids + 2 /\ t <= t /\ uids + 2 \in Nat
    BY <1>1, <1>4
  <2>. QED  BY <1>1, <1>4, <2>1, <2>2, <2>3, PingsSame, TimePasses
<1>14. /\ Body(link[m], m, t, uids, cut[m], pings)
       /\ Body(link[m], m, t, uids + 2, cut[m], pings)
  <2>1. uids <= uids + 2 /\ uids <= uids /\ uids + 2 \in Nat
    BY <1>1
  <2>. QED  BY <1>1, <1>4, <1>5, <2>1, PingsSame, TimePasses
(* the pings that are left have greater ids than the one that came *)
<1>15. ASSUME isPing, Straight(link[n], cut[n])
       PROVE  \A q \in On(r) : IsData(q, 0) => p.id < q.id
  <2>1. IsData(x.pkt, 0)
    BY <1>11, <1>15 DEF IsData
  <2>2. InLine(link[n], 0) /\ OnTheWay(link[n], 0)
    BY <1>1, <1>15 DEF LineOK
  <2>3. /\ \A i \in 1..Len(link[n].pq) : IsData(link[n].pq[i], 0) => x.pkt.id < link[n].pq[i].id
        /\ \A y \in link[n].transit : y # x /\ IsData(y.pkt, 0) => x.pkt.id < y.pkt.id
    BY <1>1, <1>6, <2>1, <2>2, OthersLater
  <2>. QED  BY <1>11, <1>12, <2>3 DEF On
(* the other link after the step *)
<1>16. /\ Body(s, m, t, uids + 2, cut[m], pings) /\ CallbackOK(s)
       /\ s.config = link[m].config
       /\ LineOK(s, Straight(link[n], cut[n]), cut[m])
       /\ Straight(link[n], cut[n]) => Answered(r, s)
       /\ \A q \in On(s) : IsData(q, 0) => q \in On(link[m])
  <2>1. CASE ~isPing
    <3>1. s = link[m]
      BY <2>1 DEF s
    <3>2. Straight(link[n], cut[n]) => Answered(r, link[m])
      BY <1>1, <1>12, AnsweredStays
    <3>. QED  BY <1>1, <1>14, <3>1, <3>2
  <2>2. CASE isPing
    <3> DEFINE a == Answer(p)
    <3>1. /\ a \in Pkt /\ a.class = "data" /\ a.ret = 1 /\ a.id = p.id
          /\ a.send_time = p.send_time
      BY <1>4, <2>2 DEF Answer, Pkt
    <3>. HIDE DEF a
    <3>2. Genuine(a, m, pings)
      BY <1>1, <1>9, <1>11, <2>2, <3>1 DEF Genuine
    <3>3. Aged(a, 0, t)
      <4>1. t >= p.send_time + (0 + 1) * Shortest
        BY <1>9, <2>2 DEF Aged
      <4>2. (0 + 1) * Shortest = Shortest /\ (1 + 0) * Shortest = Shortest
        BY <1>10
      <4>. QED  BY <3>1, <4>1, <4>2 DEF Aged
    <3>4. s = recv(link[m], a, t, uids)
      BY <2>2 DEF s, a
    <3>5. Taken(link[m], a, s, m, t, uids, cut[m], pings)
      BY <1>1, <1>4, <1>14, <3>1, <3>2, <3>3, <3>4, RecvKeeps
    <3>6. p \in On(link[n]) /\ IsData(p, 0)
      BY <1>11, <2>2 DEF On, IsData
    <3>7. Straight(link[n], cut[n]) => \A q \in On(link[m]) : IsData(q, 1) => q.id < a.id
      BY <1>1, <3>1, <3>6 DEF Answered
    <3>8. Newest(a, 0, link[m]) /\ (Straight(link[n], cut[n]) => Newest(a, 1, link[m]))
      BY <3>1, <3>7 DEF Newest, IsData
    <3>9. Straight(s, cut[m]) <=> Straight(link[m], cut[m])
      BY <3>5 DEF Straight, Ordered, Taken
    <3>10. LineOK(s, Straight(link[n], cut[n]), cut[m])
      BY <1>1, <3>5, <3>8, <3>9 DEF Taken, LineOK
    <3>11. On(s) \subseteq On(link[m]) \cup {a}
      BY <3>5 DEF Taken
    <3>12. Straight(link[n], cut[n]) => Answered(r, s)
      BY <1>1, <1>12, <1>15, <2>2, <3>1, <3>11 DEF Answered
    <3>13. \A q \in On(s) : IsData(q, 0) => q \in On(link[m])
      BY <3>1, <3>11 DEF IsData
    <3>. QED  BY <3>5, <3>10, <3>12, <3>13 DEF Taken
  <2>. QED  BY <2>1, <2>2
<1>17. /\ Straight(r, cut[n]) = Straight(link[n], cut[n])
       /\ Straight(s, cut[m]) = Straight(link[m], cut[m])
  BY <1>12, <1>16 DEF Straight, Ordered
<1>18. LineOK(r, Straight(s, cut[m]), cut[n])
  BY <1>1, <1>12, <1>17 DEF LineOK
<1>19. Straight(s, cut[m]) => Answered(s, r)
  BY <1>1, <1>12, <1>16, <1>17 DEF Answered
<1>20. cut \in [Node -> BOOLEAN] /\ routing \in Nat
  BY <1>1 DEF TypeInv
<1>21. LinksOK' /\ OrderOK' /\ link' \in [Node -> LinkType]
       /\ (link["a"].config = link["b"].config)'
  <2>1. /\ Body(r, n, now', uids', cut'[n], pings') /\ Body(s, m, now', uids', cut'[m], pings')
        /\ cut' \in [Node -> BOOLEAN]
        /\ LineOK(r, Straight(s, cut'[m]), cut'[n])
        /\ LineOK(s, Straight(r, cut'[n]), cut'[m])
        /\ Straight(s, cut'[m]) => Answered(s, r)
        /\ Straight(r, cut'[n]) => Answered(r, s)
    BY <1>2, <1>13, <1>16, <1>17, <1>18, <1>19, <1>20
  <2>. QED  BY <1>1, <1>3, <1>11, <1>12, <1>16, <2>1, TwoLinks
<1>22. ReportsOK'
  <2>1. SUFFICES ASSUME NEW q \in reports'
                 PROVE  /\ q.id \in DOMAIN pings /\ pings[q.id].agent = q.agent
                        /\ q.rtt \in Nat /\ q.rtt >= 2 * Shortest
                        /\ pings[q.id].time + q.rtt <= t
    BY <1>2 DEF ReportsOK
  <2>2. CASE q \in reports
    <3>1. /\ q.id \in DOMAIN pings /\ pings[q.id].agent = q.agent
          /\ q.rtt \in Nat /\ q.rtt >= 2 * Shortest
          /\ pings[q.id].time + q.rtt <= now
      BY <2>2 DEF IInv, ReportsOK
    <3>2. pings[q.id].time \in Nat
      BY <1>1, <3>1, PingFields
    <3>. QED  BY <1>1, <1>4, <3>1, <3>2
  <2>3. CASE isAnswer /\ q = rep
    <3>1. /\ p.id \in DOMAIN pings /\ p.send_time = pings[p.id].time
          /\ pings[p.id].agent = m
      BY <1>9, <1>11, <2>3 DEF Genuine
    <3>2. t >= p.send_time + (1 + 1) * Shortest
      BY <1>9, <2>3 DEF Aged
    <3>3. p.send_time \in Nat /\ (1 + 1) * Shortest = 2 * Shortest /\ 2 * Shortest \in Nat
      BY <1>8, <1>10, <2>3
    <3>4. q.agent = m /\ q.id = p.id /\ q.rtt = t - p.send_time
      BY <2>3
    <3>5. t - p.send_time >= 2 * Shortest /\ t - p.send_time \in Nat
          /\ p.send_time + (t - p.send_time) <= t
      <4>. DEFINE w == 2 * Shortest
      <4>1. w \in Nat /\ t >= p.send_time + w
        BY <3>2, <3>3
      <4>. HIDE DEF w
      <4>2. t - p.send_time >= w /\ t - p.send_time \in Nat
            /\ p.send_time + (t - p.send_time) <= t
        BY <1>4, <3>3, <4>1
      <4>. QED  BY <4>2 DEF w
    <3>. QED  BY <3>1, <3>4, <3>5
  <2>. QED  BY <1>2, <2>1, <2>2, <2>3
<1>23. TypeInv'
  <2>1. \A i \in DOMAIN pings : pings[i].time <= t
    BY <1>1, <1>4, PingFields DEF TypeInv
  <2>. QED  BY <1>1, <1>2, <1>4, <1>20, <1>21, <2>1 DEF TypeInv
<1>. QED  BY <1>21, <1>22, <1>23 DEF IInv

(* What a command on the link of n has to keep. *)
LEMMA CommandKeeps ==
  ASSUME IInv, Command, NEW n \in Node, NEW r,
         link' = [link EXCEPT ![n] = r], r.config = link[n].config,
         cut' \in [Node -> BOOLEAN], cut'[Peer(n)] = cut[Peer(n)], cut[n] => cut'[n],
         Body(r, n, now, uids, cut'[n], pings), CallbackOK(r),
         \A d : InLine(link[n], d) => InLine(r, d),
         \A d : OnTheWay(link[n], d) => OnTheWay(r, d),
         On(r) \subseteq On(link[n])
  PROVE  IInv'
<1> DEFINE m == Peer(n)
<1>0. /\ uids' = uids /\ now' = now /\ routing' = routing /\ reports' = reports
      /\ pings' = pings
  BY DEF Command
<1>1. /\ Body(link[m], m, now, uids, cut[m], pings) /\ TypeInv
      /\ now \in Nat /\ uids \in Nat \ {0} /\ routing \in Nat
  BY Facts DEF IInv, TypeInv
<1>. HIDE DEF m
<1>2. LinksOK' /\ OrderOK' /\ link' \in [Node -> LinkType]
      /\ (link["a"].config = link["b"].config)'
  <2>1. Body(r, n, now', uids', cut'[n], pings') /\ Body(link[m], m, now', uids', cut[m], pings')
    BY <1>0, <1>1
  <2>2. m = Peer(n) /\ cut'[m] = cut[m]
    BY DEF m
  <2>3. \A q \in On(r) : q \in On(link[n]) \/ q.class = "routing"
    OBVIOUS
  <2>. QED  BY <2>1, <2>2, <2>3, OneLink
<1>3. ReportsOK'
  <2>1. now' \in Nat /\ now <= now' /\ Extends(pings, pings')
    BY <1>0, <1>1, PingsSame
  <2>. QED  BY <1>0, <2>1, RestKept
<1>4. TypeInv'
  BY <1>0, <1>1, <1>2 DEF TypeInv
<1>. QED  BY <1>2, <1>3, <1>4 DEF IInv

LEMMA SetDelayKeeps ==
  ASSUME IInv, NEW n \in Node, NEW d \in Delays, SetDelay(n, d)  PROVE IInv'
<1> DEFINE r == WithDelay(link[n], d)
           e == cut[n] \/ d < link[n].delay
<1>1. /\ now \in Nat /\ uids \in Nat /\ cut[n] \in BOOLEAN
      /\ Body(link[n], n, now, uids, cut[n], pings) /\ CallbackOK(link[n])
      /\ Peer(n) # n /\ Peer(n) \in Node /\ TypeInv
  BY Facts DEF IInv
<1>2. link' = [link EXCEPT ![n] = r]
  BY Zenon DEF SetDelay, WithDelay
<1>3. cut' = [cut EXCEPT ![n] = e] /\ Command
  BY DEF SetDelay
<1>4. cut \in [Node -> BOOLEAN] /\ e \in BOOLEAN /\ (cut[n] => e)
  BY <1>1 DEF TypeInv
<1>5. r = WithDelay(link[n], d) /\ e = (cut[n] \/ d < link[n].delay)
  OBVIOUS
<1>. HIDE DEF r, e
<1>6. /\ Body(r, n, now, uids, e, pings) /\ CallbackOK(r) /\ r.config = link[n].config
      /\ r.pq = link[n].pq /\ r.transit = link[n].transit
  BY <1>1, <1>5, DelayKeeps
<1>7. /\ \A b : InLine(link[n], b) => InLine(r, b)
      /\ \A b : OnTheWay(link[n], b) => OnTheWay(r, b)
      /\ On(r) \subseteq On(link[n])
  BY <1>6 DEF InLine, OnTheWay, On
<1>8. /\ cut' \in [Node -> BOOLEAN] /\ cut'[n] = e /\ cut'[Peer(n)] = cut[Peer(n)]
  BY <1>1, <1>3, <1>4
<1>. QED  BY <1>2, <1>3, <1>4, <1>6, <1>7, <1>8, CommandKeeps

(* A command that only takes packets from the queue. *)
LEMMA TrimStep ==
  ASSUME IInv, Command, NEW n \in Node, NEW r, link' = [link EXCEPT ![n] = r],
         cut' = cut, SameDelay(link[n], r), Part(r.pq, link[n].pq)
  PROVE  IInv'
<1>1. /\ Body(link[n], n, now, uids, cut[n], pings) /\ CallbackOK(link[n])
      /\ cut \in [Node -> BOOLEAN]
  BY Facts DEF IInv, TypeInv
<1>2. /\ Body(r, n, now, uids, cut[n], pings) /\ CallbackOK(r)
      /\ \A d : InLine(link[n], d) => InLine(r, d)
      /\ \A d : OnTheWay(link[n], d) => OnTheWay(r, d)
      /\ On(r) \subseteq On(link[n])
  BY <1>1, TrimKeeps
<1>3. r.config = link[n].config
  BY DEF SameDelay
<1>. QED  BY <1>1, <1>2, <1>3, CommandKeeps

LEMMA SetLimitKeeps ==
  ASSUME IInv, NEW n \in Node, NEW k \in Limits, NEW shrink \in BOOLEAN,
         SetLimit(n, k, shrink)
  PROVE  IInv'
<1> DEFINE w == WithLimit(link[n], k)
           r == IF shrink THEN shrink_queue(w) ELSE w
<1>1. Command /\ cut' = cut
  BY DEF SetLimit
<1>2. link' = [link EXCEPT ![n] = r]
  BY Zenon DEF SetLimit, WithLimit
<1>3. link[n] \in LinkType /\ k \in Nat
  BY Facts, Consts
<1>4. SameDelay(link[n], r) /\ Part(r.pq, link[n].pq)
  BY <1>3, LimitIsSame
<1>. HIDE DEF r
<1>. QED  BY <1>1, <1>2, <1>4, TrimStep

LEMMA UpStepKeeps ==
  ASSUME IInv, NEW n \in Node, Up(n)  PROVE IInv'
<1> DEFINE r == up(link[n])
<1>1. Command /\ cut' = cut /\ link' = [link EXCEPT ![n] = r]
  BY DEF Up
<1>2. link[n] \in LinkType
  BY Facts
<1>3. SameDelay(link[n], r) /\ Part(r.pq, link[n].pq)
  BY <1>2, UpIsSame
<1>. HIDE DEF r
<1>. QED  BY <1>1, <1>3, TrimStep

LEMMA DownStepKeeps ==
  ASSUME IInv, NEW n \in Node, Down(n)  PROVE IInv'
<1> DEFINE r == down(link[n])
<1>1. Command /\ cut' = cut /\ link' = [link EXCEPT ![n] = r]
  BY DEF Down
<1>2. /\ now \in Nat /\ uids \in Nat /\ cut[n] \in BOOLEAN
      /\ Body(link[n], n, now, uids, cut[n], pings) /\ CallbackOK(link[n])
      /\ cut \in [Node -> BOOLEAN]
  BY Facts DEF IInv, TypeInv
<1>3. link[n].failed = "no" /\ link[n].config.mode = "dynamic"
  BY DEF Down, Command, Running
<1>4. r = down(link[n])
  OBVIOUS
<1>. HIDE DEF r
<1>5. /\ Body(r, n, now, uids, cut[n], pings) /\ CallbackOK(r)
      /\ r.config = link[n].config /\ On(r) = {} /\ \A d : InLine(r, d) /\ OnTheWay(r, d)
  BY <1>2, <1>3, <1>4, DownKeeps
<1>6. On(r) \subseteq On(link[n])
  BY <1>5
<1>. QED  BY <1>1, <1>2, <1>5, <1>6, CommandKeeps

LEMMA NextKeeps == IInv /\ [Next]_vars => IInv'
<1>. SUFFICES ASSUME IInv, [Next]_vars  PROVE IInv'
  OBVIOUS
<1>1. CASE Tick
  BY <1>1, TickKeeps
<1>2. CASE Dispatch
  <2>1. PICK n \in Node : Transmitted(n) \/ \E x \in link[n].transit : Arrive(n, x)
    BY <1>2 DEF Dispatch
  <2>. QED  BY <2>1, TransmittedKeeps, ArriveKeeps
<1>3. ASSUME NEW n \in Node, Send(n) \/ SendRouting(n)  PROVE IInv'
  BY <1>3, SendKeeps, SendRoutingKeeps
<1>4. ASSUME NEW n \in Node, Down(n) \/ Up(n)  PROVE IInv'
  BY <1>4, DownStepKeeps, UpStepKeeps
<1>5. ASSUME NEW n \in Node, NEW d \in Delays, SetDelay(n, d)  PROVE IInv'
  BY <1>5, SetDelayKeeps
<1>6. ASSUME NEW n \in Node, NEW k \in Limits, NEW shrink \in BOOLEAN,
             SetLimit(n, k, shrink)
      PROVE  IInv'
  BY <1>6, SetLimitKeeps
<1>7. CASE UNCHANGED vars
  <2>1. /\ link' = link /\ now' = now /\ uids' = uids /\ pings' = pings
        /\ routing' = routing /\ reports' = reports /\ cut' = cut
    BY <1>7 DEF vars
  <2>2. TypeInv' /\ ReportsOK' /\ LinksOK' /\ OrderOK'
    BY <2>1 DEF IInv, TypeInv, ReportsOK, LinksOK, OrderOK
  <2>. QED  BY <2>2 DEF IInv
<1>. QED  BY <1>1, <1>2, <1>3, <1>4, <1>5, <1>6, <1>7 DEF Next

-----------------------------------------------------------------------------
(* The theorems. *)

(* The inductive invariant holds. *)
THEOREM LinksInvariant == Spec => []IInv
<1>1. Init => IInv
  BY InitOK
<1>2. IInv /\ [Next]_vars => IInv'
  BY NextKeeps
<1>. QED  BY <1>1, <1>2, PTL DEF Spec

(* However packets, resets and changes of the limit come between the       *)
(* events of a link, its queue is blocked exactly while intr_ is scheduled,*)
(* and LinkDelay::recv never schedules it a second time.                   *)
THEOREM QueueIsCalledBack == Spec => []BlockedMeansCallback
<1>1. IInv => BlockedMeansCallback
  BY DEF IInv, LinksOK, CallbackOK, BlockedMeansCallback
<1>. QED  BY <1>1, LinksInvariant, PTL

(* itq_ is exactly the packets on their way of a dynamic link, and the     *)
(* assert of LinkDelay::handle fails only on a link whose delay_ was made  *)
(* smaller.                                                                *)
THEOREM AssertHolds == Spec => []AssertNeedsShorterDelay
<1>1. IInv => AssertNeedsShorterDelay
  BY DEF IInv, LinksOK, Body, ItqOK, AssertNeedsShorterDelay
<1>. QED  BY <1>1, LinksInvariant, PTL

(* A round-trip time that an agent reports is that of a ping of its own.   *)
THEOREM ReportsAreOwn == Spec => []ReportsOwnPings
<1>1. IInv => ReportsOwnPings
  BY DEF IInv, ReportsOK, Shortest, ReportsOwnPings
<1>. QED  BY <1>1, LinksInvariant, PTL

(* Pings, and answers, leave a link in the order in which they were sent,  *)
(* unless a link without avoidReordering_ had its delay_ made smaller.     *)
THEOREM PingsKeepTheirOrder == Spec => NoOvertaking
<1> DEFINE Kept(n, x) ==
             \/ link[n].config.mode # "ordered" /\ (cut[n] \/ (x.pkt.ret = 1 /\ cut[Peer(n)]))
             \/ \A p \in Behind(n, x) : p.ret = x.pkt.ret => p.id > x.pkt.id
<1>1. ASSUME IInv, NEW n \in Node, NEW x \in link[n].transit, Arrive(n, x),
             x.pkt.class = "data"
      PROVE  Kept(n, x)
  <2> DEFINE l == link[n]
             m == Peer(n)
             d == x.pkt.ret
  <2>1. /\ l \in LinkType /\ LineOK(l, Straight(link[m], cut[m]), cut[n])
        /\ m \in Node /\ cut[m] \in BOOLEAN /\ cut[n] \in BOOLEAN
    BY <1>1, Facts
  <2>2. FirstOut(l, x)
    BY <1>1 DEF Arrive, IsNext, FirstOut
  <2>3. /\ \A y \in l.transit : y.pkt.id \in Nat
        /\ \A i \in 1..Len(l.pq) : l.pq[i].id \in Nat
    BY <2>1, LinkFields, EventFields, PktFields, ElementOfSeq
  <2>4. d \in {0, 1} /\ IsData(x.pkt, d) /\ x.pkt.id \in Nat
    BY <1>1, <2>1, LinkFields, EventFields, PktFields DEF IsData
  <2>5. link[m].config = l.config
    BY <1>1, <2>1 DEF IInv, TypeInv, Node
  <2>6. CASE l.config.mode # "ordered" /\ (cut[n] \/ (d = 1 /\ cut[m]))
    BY <2>6
  <2>7. CASE ~(l.config.mode # "ordered" /\ (cut[n] \/ (d = 1 /\ cut[m])))
    <3>1. Straight(l, cut[n]) /\ (d = 0 \/ Straight(link[m], cut[m]))
      BY <2>1, <2>4, <2>5, <2>7 DEF Straight, Ordered
    <3>2. InLine(l, d) /\ OnTheWay(l, d)
      BY <2>1, <2>4, <3>1 DEF LineOK
    <3>3. /\ \A i \in 1..Len(l.pq) : IsData(l.pq[i], d) => x.pkt.id < l.pq[i].id
          /\ \A y \in l.transit : y # x /\ IsData(y.pkt, d) => x.pkt.id < y.pkt.id
      BY <2>1, <2>2, <2>4, <3>2, OthersLater
    <3>4. ASSUME NEW p \in Behind(n, x), p.ret = d  PROVE p.id > x.pkt.id
      <4>1. CASE p \in Range(l.pq) /\ p.class = "data"
        <5>1. l.pq \in Seq(Pkt)
          BY <2>1, LinkFields
        <5>2. PICK i \in 1..Len(l.pq) : p = l.pq[i]
          BY <4>1, <5>1, LenProperties DEF Range
        <5>. QED  BY <2>3, <2>4, <3>3, <3>4, <4>1, <5>2 DEF IsData
      <4>2. CASE \E z \in l.transit : z.pkt.class = "data" /\ z # x /\ p = z.pkt
        BY <2>3, <2>4, <3>3, <3>4, <4>2 DEF IsData
      <4>. QED  BY <3>4, <4>1, <4>2 DEF Behind
    <3>. QED  BY <3>4
  <2>. QED  BY <2>6, <2>7
<1>2. IInv => (\A n \in Node : \A x \in link[n].transit :
                 Arrive(n, x) /\ x.pkt.class = "data" => Kept(n, x))
  BY <1>1
<1>. QED  BY <1>2, LinksInvariant, PTL DEF NoOvertaking
===============================================================================
