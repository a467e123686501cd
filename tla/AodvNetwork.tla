----------------------------- MODULE AodvNetwork -----------------------------
(***************************************************************************)
(* Nodes that run AODV, with the radio between them and data to send.      *)
(*                                                                         *)
(* The radio is external: a broadcast reaches each neighbour or not, a     *)
(* unicast that fails is given back to the agent if it is data (the        *)
(* callback xmit_failure_) and dropped otherwise.  Which of the packets    *)
(* that are on their way are still in the interface queue, where           *)
(* PriQueue::filter finds them, is left open.                              *)
(***************************************************************************)
EXTENDS Aodv

VARIABLES
  node,       \* the agents
  msgs,       \* the messages on their way, one per receiver
  repairs,    \* the events of the LocalRepairTimers: [node, dst, uid]
  sent,       \* the flows that have been sent
  faults,     \* number of packets the MAC has given back and routes expired
  status,     \* "ok", or why the process has ended
  repaired,   \* a local repair has been tried
  undone      \* a LocalRepairTimer has brought down a route

vars == <<node, msgs, repairs, sent, faults, status, repaired, undone>>

Init ==
  /\ node = [n \in Node |-> NewNode]
  /\ msgs = {} /\ repairs = {} /\ sent = {}
  /\ faults = 0
  /\ status = "ok" /\ repaired = FALSE /\ undone = FALSE

Running == status = "ok"

(* Node m frees every further copy of the request q: the copies are left   *)
(* out of msgs, where their arrival could change nothing.                  *)
Knows(m, q) == q.src = m \/ <<q.src, q.bcast_id>> \in node[m].seen

(* Node n takes the step s; gone are the messages that leave the network. *)
Take(n, s, gone) ==
  /\ node' = [node EXCEPT ![n] = s.nd]
  /\ msgs' = (msgs \ gone) \cup
             {x \in s.out : x.pkt.type = "RREQ" => ~Knows(x.to, x.pkt)}
  /\ status' = s.status

(* PriQueue::filter: a choice of the packets of n to the neighbour m. *)
Filtered(n, m) == SUBSET {x \in msgs : x.from = n /\ x.to = m}

Originate(f, due) ==
  /\ Running /\ f \in Flow \ sent
  /\ sent' = sent \cup {f}
  /\ Take(f.src,
          rt_resolve(node[f.src], f.src,
                     [type |-> "DATA", src |-> f.src, dst |-> f.dst, id |-> f.id,
                      ttl |-> NETWORK_DIAMETER, forwards |-> 0], due), {})
  /\ UNCHANGED <<repairs, faults, repaired, undone>>

Arrives(x, type) == Running /\ x \in msgs /\ x.to \in Nbr[x.from] /\ x.pkt.type = type
Aged(p) == [p EXCEPT !.ttl = @ - 1]

RecvRequest(x) ==
  /\ Arrives(x, "RREQ")
  /\ Take(x.to, recvRequest(node[x.to], x.to, x.from, Aged(x.pkt)), {x})
  /\ UNCHANGED <<repairs, sent, faults, repaired, undone>>

RecvReply(x) ==
  /\ Arrives(x, "RREP")
  /\ Take(x.to, recvReply(node[x.to], x.to, x.from, Aged(x.pkt)), {x})
  /\ UNCHANGED <<repairs, sent, faults, repaired, undone>>

RecvError(x) ==
  /\ Arrives(x, "RERR")
  /\ \E F \in IF Hit(node[x.to], x.from, x.pkt) = {} THEN {{}} ELSE Filtered(x.to, x.from) :
       Take(x.to, recvError(node[x.to], x.to, x.from, Aged(x.pkt)), F \cup {x})
  /\ UNCHANGED <<repairs, sent, faults, repaired, undone>>

(* The MAC counts the hop; the node's classifier keeps what is for it. *)
RecvData(x) ==
  LET p == [x.pkt EXCEPT !.forwards = @ + 1]
  IN  /\ Arrives(x, "DATA")
      /\ Take(x.to, IF p.dst = x.to THEN Step(node[x.to])
                    ELSE recvData(node[x.to], x.to, p), {x})
      /\ UNCHANGED <<repairs, sent, faults, repaired, undone>>

(* A routing packet is lost. *)
Lose(x) ==
  /\ Running /\ x \in msgs /\ x.pkt.type # "DATA"
  /\ <<x.from, x.to>> \in Weak \/ x.to \notin Nbr[x.from]
  /\ msgs' = msgs \ {x}
  /\ UNCHANGED <<node, repairs, sent, faults, status, repaired, undone>>

(* The MAC gives up on a data packet. *)
LinkFailed(x, due) ==
  LET n == x.from
      p == x.pkt
      repair == Repairs(node[n], p)
  IN  /\ Running /\ x \in msgs /\ p.type = "DATA"
      /\ <<n, x.to>> \in Weak /\ faults < MaxFaults
      /\ faults' = faults + 1
      /\ \E F \in IF repair THEN {{}} ELSE Filtered(n, x.to) :
           Take(n, rt_ll_failed(node[n], n, x.to, p, due), F \cup {x})
      /\ repairs' = IF repair
                    THEN repairs \cup {[node |-> n, dst |-> p.dst, uid |-> faults]}
                    ELSE repairs
      /\ repaired' = (repaired \/ repair)
      /\ UNCHANGED <<sent, undone>>

(* LocalRepairTimer::handle *)
RepairTimeout(r) ==
  LET e == node[r.node].rt[r.dst]
  IN  /\ Running /\ r \in repairs
      /\ repairs' = repairs \ {r}
      /\ node' = IF e.flags = "UP" THEN node
                 ELSE [node EXCEPT ![r.node].rt[r.dst] = rt_down(e)]
      /\ undone' = (undone \/ e.flags = "IN_REPAIR")
      /\ UNCHANGED <<msgs, sent, faults, status, repaired>>

Up(n) == {d \in Node : node[n].rt[d].flags = "UP"}

(* The destinations for which n has a time in rt_req_timeout. *)
Asking(n) == {d \in Node : node[n].rt[d].req_timeout}

(* RouteCacheTimer::handle; the routes to X have expired. *)
RtPurge(n, X, due) ==
  /\ Running
  /\ faults + Cardinality(X) <= MaxFaults
  /\ faults' = faults + Cardinality(X)
  /\ Take(n, rt_purge(node[n], n, X, due), {})
  /\ UNCHANGED <<repairs, sent, repaired, undone>>

Receive ==
  \E x \in msgs : \/ RecvRequest(x) \/ RecvReply(x) \/ RecvError(x)
                  \/ RecvData(x) \/ Lose(x)

Next ==
  \/ Receive
  \/ \E x \in msgs : \E due \in SUBSET Asking(x.from) : LinkFailed(x, due)
  \/ \E r \in repairs : RepairTimeout(r)
  \/ \E f \in Flow : \E due \in SUBSET Asking(f.src) : Originate(f, due)
  \/ \E n \in Node : \E X \in SUBSET Up(n), due \in SUBSET Asking(n) : RtPurge(n, X, due)

(* The scheduler does not stop while there are packets on the air, or      *)
(* routes for rt_purge, which runs every half second, to look after.       *)
Scheduled == Receive \/ \E n \in Node : RtPurge(n, {}, Asking(n))

Spec == Init /\ [][Next]_vars /\ WF_vars(Scheduled)

-----------------------------------------------------------------------------
(* The nodes that forward to d by their tables. *)
Routes(d) == {n \in Node \ {d} : node[n].rt[d].flags = "UP"}

LoopsAt(d, S) ==
  /\ S # {}
  /\ \A n \in S : node[n].rt[d].nexthop \in S

(* Following the next hops towards a destination never goes round. *)
LoopFree == ~undone => \A d \in Node : \A S \in SUBSET Routes(d) : ~LoopsAt(d, S)

(* The assertions of the agents, that routes with a hop count are up and   *)
(* have even numbers, fail in no process that has not tried local repair.  *)
AssertNeedsRepair == ~Running => repaired

(* Numbers by which the routes to d are compared come from d: no table and *)
(* no message is ahead of d by more than the one step that marks a broken  *)
(* route.                                                                  *)
SeqnoFromOwner ==
  /\ \A n, d \in Node : n # d => node[n].rt[d].seqno <= node[d].seqno + 1
  /\ \A x \in msgs :
       /\ x.pkt.type = "RREP" => x.pkt.dst_seqno <= node[x.pkt.dst].seqno
       /\ x.pkt.type = "RREQ" => x.pkt.src_seqno <= node[x.pkt.src].seqno

(* local_rt_repair copies a packet that sendRequest has freed only when a  *)
(* repair of the same route is under way and its timer pending: a route    *)
(* that comes up starts with a count of zero, so the first packet given    *)
(* back is never the one that finds its retries used up.                   *)
FreedNeedsTwoRepairs ==
  status = "freed" =>
    \E r, s \in repairs : r # s /\ r.node = s.node /\ r.dst = s.dst

(* Every data packet arrives or is dropped, and the network comes to rest. *)
Drains == <>[](~Running \/ (msgs = {} /\ \A n \in Node : node[n].rqueue = << >>))

-----------------------------------------------------------------------------
(* What comments and assertions of the code say, where it does otherwise. *)

(* assert (rt->rt_flags == RTF_UP) in handle_link_failure, recvReply and   *)
(* recvError, and assert((rt->rt_seqno%2) == 0): they never fail.          *)
AssertsHold == status # "assert"
===============================================================================
