--------------------------------- MODULE Aodv ---------------------------------
(***************************************************************************)
(* The AODV routing agents (src/aodv/aodv.cc with aodv_rtable.cc and       *)
(* aodv_rqueue.cc) of a wireless network, as compiled here:                *)
(* AODV_LOCAL_REPAIR and AODV_LINK_LAYER_DETECTION are defined, so that    *)
(* nodes send no hellos and learn of a broken link from the MAC.           *)
(*                                                                         *)
(* Time is abstracted.  A route that is up may have expired at any         *)
(* rt_purge, and where rt_req_timeout is set it may have passed or not.    *)
(* Packets arrive in any order; those on a weak link may be lost.          *)
(*                                                                         *)
(* A node is a record, and a handler an operator on a step: the node, the  *)
(* messages it has sent, and how it ended.                                 *)
(***************************************************************************)
EXTENDS Integers, Sequences, FiniteSetsExt, SequencesExt

CONSTANTS
  Node,             \* the addresses, 0 among them
  Nbr,              \* the nodes in range of each node
  Weak,             \* the pairs between which transmissions may fail
  Flow,             \* the data packets: [src, dst, id]
  INFINITY2, NETWORK_DIAMETER, RREQ_RETRIES,
  TTL_START, TTL_THRESHOLD, TTL_INCREMENT, AODV_RTQ_MAX_LEN,
  MaxFaults         \* bound: data packets the MAC gives back and routes that expire

ASSUME AodvAssumption ==
  /\ Node \subseteq Nat /\ 0 \in Node /\ IsFiniteSet(Node)
  /\ Nbr \in [Node -> SUBSET Node] /\ Weak \subseteq Node \X Node
  /\ Flow \subseteq [src : Node, dst : Node, id : Nat]
  /\ {INFINITY2, NETWORK_DIAMETER, RREQ_RETRIES, TTL_START, TTL_THRESHOLD,
      TTL_INCREMENT, AODV_RTQ_MAX_LEN, MaxFaults} \subseteq Nat
  /\ 0 < NETWORK_DIAMETER /\ NETWORK_DIAMETER < INFINITY2 /\ AODV_RTQ_MAX_LEN > 0

(* An entry that is not in the table behaves as a new one. *)
NewEntry ==
  [seqno |-> 0, hops |-> INFINITY2, last_hop_count |-> INFINITY2, nexthop |-> 0,
   flags |-> "DOWN", pclist |-> {}, req_cnt |-> 0, req_timeout |-> FALSE,
   req_last_ttl |-> 0]

NewNode ==
  [seqno |-> 2, bid |-> 1, rt |-> [d \in Node |-> NewEntry],
   seen |-> {}, rqueue |-> << >>]

Step(nd) == [nd |-> nd, out |-> {}, status |-> "ok"]
Check(s, cond) == IF cond THEN s ELSE [s EXCEPT !.status = "assert"]
Even(k) == k % 2 = 0

Unicast(s, n, to, p) == [s EXCEPT !.out = @ \cup {[from |-> n, to |-> to, pkt |-> p]}]
Broadcast(s, n, p) ==
  [s EXCEPT !.out = @ \cup {[from |-> n, to |-> m, pkt |-> p] : m \in Nbr[n]}]

-----------------------------------------------------------------------------
(* The routing table and the buffer *)

rt_update(e, seqnum, metric, nexthop) ==
  [e EXCEPT !.seqno = seqnum, !.hops = metric, !.flags = "UP", !.nexthop = nexthop]

rt_down(e) ==
  IF e.flags = "DOWN" THEN e
  ELSE [e EXCEPT !.last_hop_count = e.hops, !.hops = INFINITY2, !.flags = "DOWN",
                 !.nexthop = 0]

(* A neighbour that uses the route to d. *)
pc_insert(s, d, m) == [s EXCEPT !.nd.rt[d].pclist = @ \cup {m}]

enque(q, p) == Append(IF Len(q) = AODV_RTQ_MAX_LEN THEN Tail(q) ELSE q, p)

Buffered(nd, d) == {p \in Range(nd.rqueue) : p.dst = d}

(* The buffer q after deque(d) has been called for every d in D until it   *)
(* gave nothing: the other packets, in order.                              *)
Unbuffer(q, D) ==
  LET kept == {i \in DOMAIN q : q[i].dst \notin D}
      Rank(i) == Cardinality({j \in kept : j <= i})
  IN  [k \in 1..Cardinality(kept) |-> q[CHOOSE i \in kept : Rank(i) = k]]

(* The loops that forward every buffered packet for d. *)
Flush(s, n, d) ==
  LET e == s.nd.rt[d]
      ps == Buffered(s.nd, d)
  IN  [Check(s, ps # {} => e.flags = "UP" /\ e.hops # INFINITY2) EXCEPT
         !.out = @ \cup {[from |-> n, to |-> e.nexthop, pkt |-> p] : p \in ps},
         !.nd.rqueue = Unbuffer(@, {d})]

-----------------------------------------------------------------------------
(* Sending *)

(* The TTL of the next request: expanding ring search. *)
LastTtl(e) == Max({e.req_last_ttl, e.last_hop_count})

IsNetworkWide(e) == LastTtl(e) # 0 /\ LastTtl(e) >= TTL_THRESHOLD

RequestTtl(e) ==
  IF LastTtl(e) = 0 THEN TTL_START
  ELSE IF IsNetworkWide(e) THEN NETWORK_DIAMETER
  ELSE LastTtl(e) + TTL_INCREMENT

(* What sendRequest leaves of an entry: a request is out, or no more are   *)
(* made and the packets that wait for the route are dropped.               *)
Asked(e) ==
  [e EXCEPT !.req_last_ttl = RequestTtl(e), !.req_timeout = TRUE,
            !.req_cnt = IF IsNetworkWide(e) THEN @ + 1 ELSE @]

GivenUp(e) == [e EXCEPT !.req_timeout = TRUE, !.req_cnt = 0]

(* sendRequest for every destination in D, one after the other; the order  *)
(* decides no more than which of them gets which number.  due: those whose *)
(* time in rt_req_timeout has passed.                                      *)
sendRequests(s, n, D, due) ==
  LET rt == s.nd.rt
      now == {d \in D : rt[d].flags # "UP" /\ (rt[d].req_timeout => d \in due)}
      quit == {d \in now : rt[d].req_cnt > RREQ_RETRIES}
      ask == now \ quit
      Nth(d) == Cardinality({c \in ask : c <= d})
      Request(d) == [type |-> "RREQ", ttl |-> RequestTtl(rt[d]), hop_count |-> 1,
                     bcast_id |-> s.nd.bid + Nth(d) - 1, dst |-> d,
                     dst_seqno |-> rt[d].seqno,
                     src |-> n, src_seqno |-> s.nd.seqno + 2 * Nth(d)]
  IN  [Check(s, \A d \in D : rt[d].flags = "UP" => rt[d].hops # INFINITY2) EXCEPT
         !.nd = [s.nd EXCEPT
                   !.rt = [d \in Node |-> IF d \in ask THEN Asked(rt[d])
                                          ELSE IF d \in quit THEN GivenUp(rt[d])
                                          ELSE rt[d]],
                   !.seqno = @ + 2 * Cardinality(ask),
                   !.bid = @ + Cardinality(ask),
                   !.rqueue = Unbuffer(@, quit)],
         !.out = @ \cup {[from |-> n, to |-> m, pkt |-> Request(d)] : d \in ask, m \in Nbr[n]}]

sendRequest(s, n, d, due) == sendRequests(s, n, {d}, due)

(* A reply about the route to d, sent to the source ipdst of a request. *)
sendReply(s, n, ipdst, hop_count, d, seqno) ==
  Unicast(s, n, s.nd.rt[ipdst].nexthop,
          [type |-> "RREP", ttl |-> NETWORK_DIAMETER, ipdst |-> ipdst,
           hop_count |-> hop_count, dst |-> d, dst_seqno |-> seqno])

sendError(s, n, lost) ==
  IF lost = {} THEN s ELSE Broadcast(s, n, [type |-> "RERR", ttl |-> 1, lost |-> lost])

(* What an error says of the destinations D. *)
Unreachable(rt, D) == {[dst |-> d, seqno |-> rt[d].seqno] : d \in D}

-----------------------------------------------------------------------------
(* Receiving routing packets *)

(* The route on offer is newer, or as new and shorter. *)
Fresher(e, seqno, hops) ==
  seqno > e.seqno \/ (seqno = e.seqno /\ hops < e.hops)

(* Variant: the number is not made even. *)
ReplySeqno_unrounded(own, asked) == Max({own, asked}) + 1

(* The number with which a destination answers. *)
ReplySeqno(own, asked) ==
  LET k == Max({own, asked}) + 1 IN IF Even(k) THEN k ELSE k + 1

(* recvRequest, the reverse route. *)
ReverseRoute(s, n, from, q) ==
  LET e == s.nd.rt[q.src]
      up == rt_update(e, q.src_seqno, q.hop_count, from)
      reset == [up EXCEPT !.req_cnt = 0, !.req_timeout = FALSE,
                          !.req_last_ttl = q.hop_count]
  IN  IF ~Fresher(e, q.src_seqno, q.hop_count) THEN s
      ELSE Flush([s EXCEPT !.nd.rt[q.src] = IF e.req_timeout THEN reset ELSE up],
                 n, q.src)

(* The route r is fresh enough to answer the request q. *)
CanReply(r, q) == r.hops # INFINITY2 /\ r.seqno >= q.dst_seqno

recvRequest(nd, n, from, q) ==
  LET s == ReverseRoute(Step([nd EXCEPT !.seen = @ \cup {<<q.src, q.bcast_id>>}]),
                        n, from, q)
      r == s.nd.rt[q.dst]
      own == ReplySeqno(s.nd.seqno, q.dst_seqno)
  IN  IF q.src = n \/ <<q.src, q.bcast_id>> \in nd.seen THEN Step(nd)
      ELSE IF q.dst = n
      THEN sendReply([s EXCEPT !.nd.seqno = own], n, q.src, 1, n, own)
      ELSE IF CanReply(r, q)
      THEN pc_insert(pc_insert(sendReply(s, n, q.src, r.hops + 1, q.dst, r.seqno),
                               q.dst, s.nd.rt[q.src].nexthop), q.src, r.nexthop)
      ELSE IF q.ttl = 0 THEN s
      ELSE Broadcast(s, n, [q EXCEPT !.hop_count = @ + 1,
                                     !.dst_seqno = Max({@, r.seqno})])

(* Variant: the count of requests is not reset. *)
recvReply_count_kept(nd, n, from, r) ==
  LET e == nd.rt[r.dst]
      new == [rt_update(e, r.dst_seqno, r.hop_count, from) EXCEPT
                !.req_timeout = FALSE, !.req_last_ttl = r.hop_count]
      s == Flush(Step([nd EXCEPT !.rt[r.dst] = new]), n, r.dst)
      e0 == s.nd.rt[r.ipdst]
  IN  IF ~Fresher(e, r.dst_seqno, r.hop_count) THEN Step(nd)
      ELSE IF r.ipdst = n \/ e0.hops = INFINITY2 \/ r.ttl = 0 THEN s
      ELSE pc_insert(Unicast(s, n, e0.nexthop, [r EXCEPT !.hop_count = @ + 1]),
                     r.dst, e0.nexthop)

recvReply(nd, n, from, r) ==
  LET e == nd.rt[r.dst]
      new == [rt_update(e, r.dst_seqno, r.hop_count, from) EXCEPT
                !.req_cnt = 0, !.req_timeout = FALSE, !.req_last_ttl = r.hop_count]
      s == Flush(Step([nd EXCEPT !.rt[r.dst] = new]), n, r.dst)
      e0 == s.nd.rt[r.ipdst]
      sent == IF r.ttl = 0 THEN s
              ELSE Unicast(s, n, e0.nexthop, [r EXCEPT !.hop_count = @ + 1])
  IN  IF ~Fresher(e, r.dst_seqno, r.hop_count) THEN Step(nd)
      ELSE IF r.ipdst = n \/ e0.hops = INFINITY2 THEN s
      ELSE pc_insert(Check(sent, e0.flags = "UP"), r.dst, e0.nexthop)

(* The destinations that an error x from a neighbour makes unreachable. *)
Hit(nd, from, x) ==
  {d \in Node : \E u \in x.lost :
     /\ u.dst = d /\ nd.rt[d].hops # INFINITY2
     /\ nd.rt[d].nexthop = from /\ nd.rt[d].seqno <= u.seqno}

recvError(nd, n, from, x) ==
  LET hit == Hit(nd, from, x)
      told(d) == (CHOOSE u \in x.lost : u.dst = d).seqno
      rt == [d \in Node |->
               IF d \notin hit THEN nd.rt[d]
               ELSE rt_down([nd.rt[d] EXCEPT !.seqno = told(d), !.pclist = {}])]
      s == Check(Step([nd EXCEPT !.rt = rt]),
                 \A d \in hit : nd.rt[d].flags = "UP" /\ Even(nd.rt[d].seqno))
  IN  sendError(s, n, Unreachable(rt, {d \in hit : nd.rt[d].pclist # {}}))

-----------------------------------------------------------------------------
(* Data packets and broken links *)

rt_resolve(nd, n, p, due) ==
  LET e == nd.rt[p.dst]
      buffered == Step([nd EXCEPT !.rqueue = enque(@, p)])
  IN  IF e.flags = "UP"
      THEN Check(Unicast(Step(nd), n, e.nexthop, p), e.hops # INFINITY2)
      ELSE IF p.src = n THEN sendRequest(buffered, n, p.dst, due)
      ELSE IF e.flags = "IN_REPAIR" THEN buffered
      ELSE sendError(Step(nd), n, Unreachable(nd.rt, {p.dst}))

(* AODV::recv of a data packet that came over the air.  A node requests no *)
(* routes for the packets of others.                                       *)
recvData(nd, n, p) ==
  IF p.src = n \/ p.ttl - 1 = 0 THEN Step(nd)
  ELSE rt_resolve(nd, n, [p EXCEPT !.ttl = @ - 1], {})

(* Variant: a broken route keeps its number. *)
Broken_same_seqno(e) == rt_down(e)

(* Variant: a broken route is counted on by two, as a node's own number. *)
Broken_by_two(e) == rt_down([e EXCEPT !.seqno = @ + 2])

Broken(e) == rt_down([e EXCEPT !.seqno = @ + 1])

handle_link_failure(nd, n, id) ==
  LET hit == {d \in Node : nd.rt[d].hops # INFINITY2 /\ nd.rt[d].nexthop = id}
      down == [d \in Node |-> IF d \in hit THEN Broken(nd.rt[d]) ELSE nd.rt[d]]
      rt == [d \in Node |-> [down[d] EXCEPT !.pclist = @ \ {id}]]
      s == Check(Step([nd EXCEPT !.rt = rt]),
                 \A d \in hit : nd.rt[d].flags = "UP" /\ Even(nd.rt[d].seqno))
  IN  sendError(s, n, Unreachable(rt, hit))

(* The list of neighbours that hellos fill is always empty here. *)
nb_delete(nd, n, id) == handle_link_failure([nd EXCEPT !.seqno = @ + 2], n, id)

(* The packet p is copied for the timer after sendRequest, which may have  *)
(* dropped it.                                                             *)
local_rt_repair(nd, n, p, due) ==
  LET s == sendRequest(Step([nd EXCEPT !.rqueue = enque(@, p),
                                       !.rt[p.dst].flags = "IN_REPAIR"]), n, p.dst, due)
  IN  IF p \in Range(s.nd.rqueue) THEN s ELSE [s EXCEPT !.status = "freed"]

Repairs(nd, p) == p.forwards > nd.rt[p.dst].hops

rt_ll_failed(nd, n, to, p, due) ==
  IF Repairs(nd, p) THEN local_rt_repair(nd, n, p, due) ELSE nb_delete(nd, n, to)

(* Variant: only the routes that are up are looked at. *)
rt_purge_up(nd, n, X, due) ==
  LET up == {d \in Node : nd.rt[d].flags = "UP"}
  IN  Step([nd EXCEPT
        !.rt = [d \in Node |-> IF d \in up \cap X THEN Broken(@[d]) ELSE @[d]]])

(* The routes to X have expired; the requests go out one by one. *)
rt_purge(nd, n, X, due) ==
  LET up == {d \in Node : nd.rt[d].flags = "UP"}
      waiting == {d \in Node \ up : Buffered(nd, d) # {}}
      purged == [nd EXCEPT
        !.rt = [d \in Node |-> IF d \in up \cap X THEN Broken(@[d]) ELSE @[d]],
        !.rqueue = Unbuffer(@, up)]
      forwarded == {[from |-> n, to |-> nd.rt[p.dst].nexthop, pkt |-> p] :
                      p \in {q \in Range(nd.rqueue) : q.dst \in up \ X}}
      s == [Check(Step(purged), /\ \A d \in up : nd.rt[d].hops # INFINITY2
                                /\ \A d \in up \cap X : Even(nd.rt[d].seqno))
            EXCEPT !.out = forwarded]
  IN  sendRequests(s, n, waiting, due)
===============================================================================
