------------------------------- MODULE MpSelect -------------------------------
(***************************************************************************)
(* A network of mpSelect agents (src/mpSelect/mpSelect.cc): cores that     *)
(* measure the paths to their peers with pings and send data over them,    *)
(* and the interface agents the packets of a path pass through.            *)
(*                                                                         *)
(* The simulator runs one handler at a time to its end, so one action is   *)
(* one call of recv, one timer expiry or one Tcl command.  Between two     *)
(* handlers anything may come next: packets in flight arrive in any order  *)
(* and after any delay, or are lost.                                       *)
(*                                                                         *)
(* Header fields that no code reads (addr_type, error, source port) and    *)
(* the printfs are left out.                                               *)
(* A packet also carries, for the properties only, the time the ping it    *)
(* is or answers was sent (orig) and for which entry of the path list      *)
(* (nth), the agents that have received it (via), and for data the flow it *)
(* is of (flow).                                                           *)
(***************************************************************************)
EXTENDS MpTypes, FiniteSets

CONSTANTS
  Node,        \* the addresses of the nodes that have an mpSelect agent
  Core,        \* those whose agent was told "core"; the others "intf"
  RaAddr,      \* for each node, the address its agent was created with
  InitTable,   \* for each node, the table its script sets up at time 0
  Flow,        \* data: [saddr, daddr, dport, ptype, size, enters, direction]
  Tap,         \* <<n, a>> where the classifier of n hands data for a to the agent
  Default,     \* the nodes whose classifier hands what it has no route for to
               \* the agent
  AutoStart,   \* the nodes whose script says "start" at time 0
  Operated,    \* the nodes whose script says "start" or "stop-ping" later
  Editable,    \* <<n, select, s, d>>: the paths that scripts delete and add
  MacNode,     \* the nodes whose agent sends to an LL and its MAC, the others
               \* send to the classifier of their node
  Lossy,       \* links may lose packets
  IP_HDR_LEN, MPSELECT_HDR_LEN, PING_PKT_SIZE,
  IP_DEF_TTL,  \* bound: 32 in the code
  MaxPaths,    \* bound: entries of one path list
  MaxCmds,     \* bound: commands given during the run
  MaxSent,     \* bound: flows whose packet is sent
  MaxTime      \* bound: the clock

ASSUME NetworkAssumption ==
  /\ Core \subseteq Node /\ AutoStart \subseteq Node /\ Operated \subseteq Node
  /\ RaAddr \in [Node -> Int]
  /\ MacNode \subseteq Default /\ Default \subseteq Node /\ Lossy \in BOOLEAN
  /\ {IP_HDR_LEN, MPSELECT_HDR_LEN, PING_PKT_SIZE, IP_DEF_TTL} \subseteq Nat
  /\ {MaxPaths, MaxCmds, MaxSent, MaxTime} \subseteq Nat

(* A path as a script has to set it up: from core a through its interface  *)
(* s and the far interface d to core b.  An interface agent is created     *)
(* with the address of its core or with its own.                           *)
Wire(a, b, s, d) ==
  /\ {a, b} \subseteq Core /\ a # b
  /\ s \in Intf /\ d \in Intf
  /\ RaAddr[s] \in {a, s} /\ RaAddr[d] \in {b, d}

(* Cores are created with their own address.  Every path a script gives to *)
(* a core is a path of the topology.                                       *)
ASSUME WiringAssumption ==
  /\ Peer \subseteq Core /\ Intf \subseteq Node \ Core
  /\ \A n \in Core : RaAddr[n] = n
  /\ \A n \in Node : RaAddr[n] \in Core \cup {n}
  /\ \A n \in Node :
       /\ Good(InitTable[n])
       /\ \A i \in DOMAIN InitTable[n].mptable :
            LET m == InitTable[n].mptable[i]
            IN  \A j \in DOMAIN m.paths :
                  Wire(n, m.select_addr, m.paths[j].s_intf, m.paths[j].d_intf)
  /\ InitTable = [n \in Node |-> InitTable[n]]
  /\ \A e \in Editable : e[2] \in Peer /\ Wire(e[1], e[2], e[3], e[4])

(* The tables are set up before the first ping is sent. *)
ASSUME SetUpAssumption ==
  \A n \in Node : \A i \in DOMAIN InitTable[n].mptable :
    \A j \in DOMAIN InitTable[n].mptable[i].paths :
      InitTable[n].mptable[i].paths[j].ping_seq = 0

(* Data is sent by hosts, whose addresses are not those of agents, to any  *)
(* address, and comes to its first agent by wire or, "UP", through a MAC.  *)
ASSUME FlowAssumption ==
  \A f \in Flow :
    /\ f.saddr \in Int /\ f.size \in Nat /\ f.enters \in Node
    /\ \A n \in Node : f.saddr # RaAddr[n]
    /\ f.ptype # "MPSELECT" /\ f.direction \in {"NONE", "UP"}

VARIABLES
  rtable,     \* rtable_ of every agent
  timer,      \* ping_timer_ of every agent: [status, time]
  net,        \* the packets in flight, each with the place it goes to (at)
  delivered,  \* the packets hosts have received
  sent,       \* the flows whose packet has been sent
  now,        \* Scheduler::clock()
  aborted,    \* the process has ended in abort(), exit or a bad dereference
  cmds,       \* number of commands given
  started,    \* for each agent, whether its last start/stop-ping was start
  steady      \* no ping was out of turn: there was no start, stop-ping or
              \* delete-mp-path, and no path was added twice

vars == <<rtable, timer, net, delivered, sent, now, aborted, cmds, started, steady>>

-----------------------------------------------------------------------------
(* The network between agents (external to mpSelect). *)

(* The classifier of n hands data for address a to the agent of n. *)
Diverts(n, a) == <<n, a>> \in Tap \/ (n \in Default /\ a = IP_BROADCAST)

(* The node where the packet node n passes to its classifier comes up: the *)
(* address classifiers route it to its destination.                        *)
NextStop(n, p) ==
  IF p.ptype # "MPSELECT" /\ Diverts(n, p.daddr) THEN n ELSE p.daddr

(* Nobody has a route for broadcasts: Classifier::no-slot exits. *)
NoSlot(n) == n \notin MacNode /\ ~ Diverts(n, IP_BROADCAST)

(* A packet that stays on its node crosses no link and is due at once      *)
(* (local); a wired link takes one off the TTL and drops at zero.          *)
OnWire(n, p) ==
  LET q == [p EXCEPT !.at = NextStop(n, p)]
  IN  IF q.at = n THEN {[q EXCEPT !.local = TRUE]}
      ELSE IF p.ttl - 1 <= 0 THEN {} ELSE {[q EXCEPT !.ttl = @ - 1, !.local = FALSE]}

(* Node m has heard p, and its classifier sees it. *)
Heard(m, p) ==
  IF m \in Default \cup {NextStop(m, p)}
  THEN {[p EXCEPT !.at = m, !.local = FALSE]} ELSE OnWire(m, p)

(* LL::recv: a packet that a MAC has turned upwards goes up to the node    *)
(* again, whoever sends it.  Any other goes to its next hop, where the MAC *)
(* counts it and turns it upwards; what is for a node without an agent is  *)
(* routed on by address, and no node answers its own ARP request.          *)
OnAir(n, p) ==
  LET q == [p EXCEPT !.num_forwards = @ + 1, !.direction = "UP"]
  IN  IF p.direction = "UP" THEN {[p EXCEPT !.at = n, !.local = FALSE]}
      ELSE IF p.next_hop \in Node \ {n} THEN Heard(p.next_hop, q)
      ELSE IF p.next_hop = n THEN {}
      ELSE {[q EXCEPT !.at = m, !.local = FALSE] :
              m \in IF p.next_hop = IP_BROADCAST THEN Default \ {n} ELSE {p.daddr}}

(* schedule(target_, p, 0.0). *)
Launch(n, p) == IF n \in MacNode THEN OnAir(n, p) ELSE OnWire(n, p)

-----------------------------------------------------------------------------
(* Packets. *)

NoHdr == [type |-> "none"]
NoHop == -2

(* allocpkt, and the headers that send_ping_handler and recv_ping_pkt both *)
(* fill in.  The next hop is the first interface for a ping, the last one  *)
(* for an answer: the s_intf_ of the ping that it answers.                 *)
ping_pkt(n, type, s, d, peer, seq, orig, nth) ==
  [ptype |-> "MPSELECT", saddr |-> RaAddr[n], daddr |-> s, dport |-> 0,
   size |-> MPSELECT_HDR_LEN + IP_HDR_LEN + PING_PKT_SIZE,
   ttl |-> IP_DEF_TTL, num_forwards |-> 0, direction |-> "DOWN",
   next_hop |-> IF type = "PING_PKT" THEN s ELSE d, local |-> FALSE,
   hdr |-> [type |-> type, s_intf |-> s, d_intf |-> d,
            s_select |-> RaAddr[n], d_select |-> peer,
            send_time |-> now, ping_seq |-> seq],
   at |-> n, orig |-> orig, nth |-> nth, via |-> {}, flow |-> NoHdr]

data_pkt(f) ==
  [ptype |-> f.ptype, saddr |-> f.saddr, daddr |-> f.daddr, dport |-> f.dport,
   size |-> f.size, ttl |-> IP_DEF_TTL, num_forwards |-> IF f.direction = "UP" THEN 1 ELSE 0,
   direction |-> f.direction, next_hop |-> NoHop, local |-> FALSE, hdr |-> NoHdr,
   at |-> f.enters, orig |-> 0, nth |-> 0, via |-> {}, flow |-> f]

(* forward_data's encapsulation on the path that lookup chose. *)
encapsulate(n, p, path) ==
  [p EXCEPT !.size = @ + MPSELECT_HDR_LEN,
            !.hdr = [type |-> "DATA_PKT", former_addr |-> p.daddr,
                     former_port |-> p.dport, former_ptype |-> p.ptype,
                     send_time |-> now,
                     s_intf |-> path.s_intf, d_intf |-> path.d_intf,
                     s_select |-> RaAddr[n], d_select |-> path.select],
            !.daddr = path.s_intf, !.dport = 0, !.ptype = "MPSELECT",
            !.next_hop = path.s_intf]

(* Variant: the IP header is restored, the size is not. *)
decapsulate_size_kept(n, p) ==
  [p EXCEPT !.daddr = p.hdr.former_addr, !.dport = p.hdr.former_port,
            !.ptype = p.hdr.former_ptype,
            !.direction = IF p.hdr.former_addr = RaAddr[n] THEN "UP" ELSE @]

(* recv_data_pkt's restoring of the headers. *)
decapsulate(n, p) ==
  [p EXCEPT !.daddr = p.hdr.former_addr, !.dport = p.hdr.former_port,
            !.ptype = p.hdr.former_ptype, !.size = @ - MPSELECT_HDR_LEN,
            !.direction = IF p.hdr.former_addr = RaAddr[n] THEN "UP" ELSE @]

-----------------------------------------------------------------------------
(* The handlers. *)

(* No list has two entries for one pair of interfaces. *)
PathsOnce(T) ==
  \A i \in DOMAIN T.mptable :
    LET paths == T.mptable[i].paths
    IN  \A j, k \in DOMAIN paths :
          Joins(paths[k], paths[j].s_intf, paths[j].d_intf) => k = j

Running == ~aborted /\ \A n \in Node : rtable[n].status = "ok"

Init ==
  /\ rtable = InitTable
  /\ timer = [n \in Node |->
                [status |-> IF n \in AutoStart THEN "PENDING" ELSE "IDLE", time |-> 0]]
  /\ net = {} /\ delivered = {} /\ sent = {}
  /\ now = 0 /\ aborted = FALSE /\ cmds = 0
  /\ started = [n \in Node |-> n \in AutoStart]
  /\ steady = \A n \in Node : PathsOnce(InitTable[n])

(* Variant: whatever a MAC has turned upwards is passed up. *)
Upcall_any_up(n, q) == q.direction = "UP"

(* The upcall for local packets goes through dmux_, which nothing sets. *)
Upcall(n, q) ==
  q.direction = "UP" /\ q.daddr \in {IP_BROADCAST, RaAddr[n]}

UsesMP(T, q) == q.daddr # IP_BROADCAST /\ find_MP(T, q.daddr)

(* forward_data at n on q, which p has become, with the table T that the   *)
(* caller leaves.                                                          *)
forward_data(n, p, T, q) ==
  LET d == [q EXCEPT !.direction = "DOWN"]
      Becomes(U, out) == /\ rtable' = [rtable EXCEPT ![n] = U]
                         /\ net' = (net \ {p}) \cup out
  IN  \/ Upcall(n, q) /\ Becomes(T, {}) /\ aborted' = TRUE
      \/ /\ ~Upcall(n, q) /\ UsesMP(T, q)
         /\ \E path \in {lookup_mp(T, q.daddr, now)} :
              Becomes(path.table, IF path.select = IP_BROADCAST THEN {}
                                  ELSE Launch(n, encapsulate(n, d, path)))
         /\ UNCHANGED aborted
      \/ /\ ~Upcall(n, q) /\ ~UsesMP(T, q) /\ q.daddr # IP_BROADCAST
         /\ \E hop \in {lookup(T, q.daddr)} :
              Becomes(T, IF hop = IP_BROADCAST THEN {}
                         ELSE Launch(n, [d EXCEPT !.next_hop = hop]))
         /\ UNCHANGED aborted
      \/ /\ ~Upcall(n, q) /\ q.daddr = IP_BROADCAST
         /\ Becomes(T, Launch(n, [d EXCEPT !.next_hop = IP_BROADCAST]))
         /\ aborted' = NoSlot(n)

(* Variant: whose packet it is is not looked at. *)
Looped_anyone(n, p) == p.num_forwards > 0

(* The checks at the top of recv: a packet of one's own that has been      *)
(* forwarded is dropped, one that has not gets its IP header counted.      *)
Looped(n, p) == p.saddr = RaAddr[n] /\ p.num_forwards > 0

(* Variant: the number of hops is not looked at, nor whose packet it is. *)
entering_anyone(n, p) ==
  [p EXCEPT !.size = @ + IP_HDR_LEN, !.via = @ \cup {n}]

entering(n, p) ==
  [p EXCEPT !.size = IF p.saddr = RaAddr[n] THEN @ + IP_HDR_LEN ELSE @,
            !.via = @ \cup {n}]

(* n's agent is handed p. *)
Arrives(n, p) ==
  /\ Running
  /\ p.at = n
  /\ UNCHANGED <<timer, delivered, sent, now, cmds, started, steady>>

RecvLooped(n, p) ==
  /\ Arrives(n, p) /\ Looped(n, p)
  /\ net' = net \ {p}
  /\ UNCHANGED <<rtable, aborted>>

(* Variant: the direction is taken from d_select_. *)
steer_by_d_select(n, q) ==
  IF q.hdr.d_select = RaAddr[n]
  THEN [q EXCEPT !.daddr = q.hdr.d_intf, !.next_hop = q.hdr.d_intf]
  ELSE [q EXCEPT !.daddr = RaAddr[n]]

(* Variant: only next_hop is rewritten, not the destination address. *)
steer_daddr_kept(n, q) ==
  IF q.hdr.s_select = RaAddr[n] THEN [q EXCEPT !.next_hop = q.hdr.d_intf] ELSE q

(* forward_mpS_pkt's choice: a packet of the core whose address n has goes *)
(* to the far interface, any other to that core, with the next hop it had. *)
steer(n, q) ==
  IF q.hdr.s_select = RaAddr[n]
  THEN [q EXCEPT !.daddr = q.hdr.d_intf, !.next_hop = q.hdr.d_intf]
  ELSE [q EXCEPT !.daddr = RaAddr[n]]

(* forward_mpS_pkt. *)
ForwardMpS(n, p) ==
  /\ Arrives(n, p) /\ ~Looped(n, p)
  /\ p.ptype = "MPSELECT" /\ n \notin Core
  /\ net' = (net \ {p}) \cup
            IF p.daddr \in {p.hdr.s_intf, p.hdr.d_intf}
            THEN Launch(n, steer(n, entering(n, p))) ELSE {}
  /\ UNCHANGED <<rtable, aborted>>

AtCore(n, p, type) ==
  /\ Arrives(n, p) /\ ~Looped(n, p)
  /\ p.ptype = "MPSELECT" /\ n \in Core /\ p.hdr.type = type

(* The update of last_recv_time that recv_ping_pkt and recv_data_pkt make. *)
heard(n, h) == update_rtime(rtable[n], h.s_select, h.d_intf, h.s_intf, now)

(* recv_ping_pkt on a ping: the answer goes back over the path reversed. *)
RecvPing(n, p) ==
  LET h == p.hdr
  IN  /\ AtCore(n, p, "PING_PKT")
      /\ rtable' = [rtable EXCEPT ![n] =
           update_rdelay(heard(n, h), h.s_select, h.d_intf, h.s_intf,
                         h.send_time, now)]
      /\ net' = (net \ {p}) \cup
           Launch(n, ping_pkt(n, "PING_BAK", h.d_intf, h.s_intf, h.s_select,
                              h.ping_seq, p.orig, p.nth))
      /\ UNCHANGED aborted

(* Variant: an answer is answered like a ping. *)
RecvBak_answered(n, p) ==
  LET h == p.hdr
  IN  /\ AtCore(n, p, "PING_BAK")
      /\ rtable' = [rtable EXCEPT ![n] =
           update_sdelay(heard(n, h), h.s_select, h.d_intf, h.s_intf,
                         h.send_time, h.ping_seq)]
      /\ net' = (net \ {p}) \cup
           Launch(n, ping_pkt(n, "PING_BAK", h.d_intf, h.s_intf, h.s_select,
                              h.ping_seq, p.orig, p.nth))
      /\ UNCHANGED aborted

(* recv_ping_pkt on an answer. *)
RecvBak(n, p) ==
  LET h == p.hdr
  IN  /\ AtCore(n, p, "PING_BAK")
      /\ rtable' = [rtable EXCEPT ![n] =
           update_sdelay(heard(n, h), h.s_select, h.d_intf, h.s_intf,
                         h.send_time, h.ping_seq)]
      /\ net' = net \ {p}
      /\ UNCHANGED aborted

(* recv_data_pkt. *)
RecvData(n, p) ==
  /\ AtCore(n, p, "DATA_PKT")
  /\ \E q \in {decapsulate(n, entering(n, p))}, T \in {heard(n, p.hdr)} :
       forward_data(n, p, T, q)

(* Variant: recv does not count the TTL down. *)
RecvPlain_ttl_kept(n, p) ==
  /\ Arrives(n, p) /\ ~Looped(n, p) /\ p.ptype # "MPSELECT"
  /\ \E q \in {entering(n, p)} : forward_data(n, p, rtable[n], q)

(* Variant: recv counts the TTL down and never looks at it. *)
RecvPlain_ttl_unchecked(n, p) ==
  /\ Arrives(n, p) /\ ~Looped(n, p) /\ p.ptype # "MPSELECT"
  /\ \E q \in {[entering(n, p) EXCEPT !.ttl = @ - 1]} :
       forward_data(n, p, rtable[n], q)

(* recv on a packet of any other type. *)
RecvPlain(n, p) ==
  /\ Arrives(n, p) /\ ~Looped(n, p) /\ p.ptype # "MPSELECT"
  /\ \E q \in {[entering(n, p) EXCEPT !.ttl = @ - 1]} :
       \/ q.ttl < 0 /\ net' = net \ {p} /\ UNCHANGED <<rtable, aborted>>
       \/ q.ttl >= 0 /\ forward_data(n, p, rtable[n], q)

-----------------------------------------------------------------------------
(* Variant: send_ping_handler reads the sequence number after              *)
(* update_ping_info.                                                       *)
Expire_seq_after_update(n) ==
  /\ Running
  /\ timer[n].status = "PENDING" /\ timer[n].time = now
  /\ net' = net \cup UNION {Launch(n, ping_pkt(n, "PING_PKT", g.s_intf, g.d_intf,
                                               g.select, g.ping_seq, now, g.nth)) :
                              g \in pings(ping_round(rtable[n], now))}
  /\ rtable' = [rtable EXCEPT ![n] = ping_round(@, now)]
  /\ timer' = [timer EXCEPT ![n] =
                 [status |-> "PENDING", time |-> now + SEND_PING_INTERVAL]]
  /\ UNCHANGED <<delivered, sent, now, aborted, cmds, started, steady>>

(* Variant: expire does not set the timer again. *)
Expire_once(n) ==
  /\ Running
  /\ timer[n].status = "PENDING" /\ timer[n].time = now
  /\ net' = net \cup UNION {Launch(n, ping_pkt(n, "PING_PKT", g.s_intf, g.d_intf,
                                               g.select, g.ping_seq, now, g.nth)) :
                              g \in pings(rtable[n])}
  /\ rtable' = [rtable EXCEPT ![n] = ping_round(@, now)]
  /\ timer' = [timer EXCEPT ![n].status = "IDLE"]
  /\ UNCHANGED <<delivered, sent, now, aborted, cmds, started, steady>>

(* The ping timer: expire, with send_ping_handler and reset_ping_timer. *)
Expire(n) ==
  /\ Running
  /\ timer[n].status = "PENDING" /\ timer[n].time = now
  /\ net' = net \cup UNION {Launch(n, ping_pkt(n, "PING_PKT", g.s_intf, g.d_intf,
                                               g.select, g.ping_seq, now, g.nth)) :
                              g \in pings(rtable[n])}
  /\ rtable' = [rtable EXCEPT ![n] = ping_round(@, now)]
  /\ timer' = [timer EXCEPT ![n] =
                 [status |-> "PENDING", time |-> now + SEND_PING_INTERVAL]]
  /\ UNCHANGED <<delivered, sent, now, aborted, cmds, started, steady>>

(* The commands a script may give while the simulation runs. *)
Command ==
  /\ Running
  /\ cmds < MaxCmds
  /\ cmds' = cmds + 1
  /\ UNCHANGED <<net, delivered, sent, now>>

(* start: resched(0.0), whether or not the timer is pending. *)
Start(n) ==
  /\ Command /\ n \in Operated
  /\ timer' = [timer EXCEPT ![n] = [status |-> "PENDING", time |-> now]]
  /\ started' = [started EXCEPT ![n] = TRUE] /\ steady' = FALSE
  /\ UNCHANGED <<rtable, aborted>>

(* stop-ping: TimerHandler::cancel aborts unless the timer is pending. *)
StopPing(n) ==
  /\ Command /\ n \in Operated
  /\ timer' = [timer EXCEPT ![n].status = "IDLE"]
  /\ aborted' = (timer[n].status # "PENDING")
  /\ started' = [started EXCEPT ![n] = FALSE] /\ steady' = FALSE
  /\ UNCHANGED rtable

DeleteMpPath(n, select, s, d) ==
  /\ Command
  /\ rtable' = [rtable EXCEPT ![n] = delete_mpath(@, select, s, d)]
  /\ steady' = FALSE
  /\ UNCHANGED <<timer, aborted, started>>

AddMpPath(n, select, s, d) ==
  /\ Command
  /\ \A i \in DOMAIN rtable[n].mptable : Len(rtable[n].mptable[i].paths) < MaxPaths
  /\ \E fresh \in MPtr \ Live(rtable[n]) :
       rtable' = [rtable EXCEPT ![n] = add_mpath(@, select, s, d, fresh, now)]
  /\ steady' = (steady /\ \A i \in DOMAIN rtable[n].mptable :
                             PathIdx(rtable[n].mptable[i].paths, s, d) = 0)
  /\ UNCHANGED <<timer, aborted, started>>

-----------------------------------------------------------------------------
(* Hosts, links and time. *)

SendData(f) ==
  /\ Running
  /\ f \notin sent /\ Cardinality(sent) < MaxSent
  /\ sent' = sent \cup {f}
  /\ net' = net \cup {data_pkt(f)}
  /\ UNCHANGED <<rtable, timer, delivered, now, aborted, cmds, started, steady>>

HostRecv(p) ==
  /\ Running
  /\ p.at \notin Node
  /\ delivered' = delivered \cup {p}
  /\ net' = net \ {p}
  /\ UNCHANGED <<rtable, timer, sent, now, aborted, cmds, started, steady>>

Lose(p) ==
  /\ Running /\ Lossy /\ ~p.local
  /\ net' = net \ {p}
  /\ UNCHANGED <<rtable, timer, delivered, sent, now, aborted, cmds, started, steady>>

(* An event that is due is dispatched before the clock moves on. *)
Tick ==
  /\ Running
  /\ now < MaxTime
  /\ \A p \in net : ~p.local
  /\ \A n \in Node : timer[n].status = "PENDING" => timer[n].time > now
  /\ now' = now + 1
  /\ UNCHANGED <<rtable, timer, net, delivered, sent, aborted, cmds, started, steady>>

RecvOf(p) ==
  \E n \in Node :
    \/ RecvLooped(n, p) \/ ForwardMpS(n, p) \/ RecvPing(n, p)
    \/ RecvBak(n, p) \/ RecvData(n, p) \/ RecvPlain(n, p)

DeliverOf(p) == RecvOf(p) \/ HostRecv(p)

Deliver == \E p \in net : DeliverOf(p)

Next ==
  \/ Deliver
  \/ \E n \in Node : Expire(n) \/ Start(n) \/ StopPing(n)
  \/ \E e \in Editable : \/ DeleteMpPath(e[1], e[2], e[3], e[4])
                         \/ AddMpPath(e[1], e[2], e[3], e[4])
  \/ \E f \in Flow : SendData(f)
  \/ \E p \in net : Lose(p)
  \/ Tick

(* A packet in flight is an event in the queue of the scheduler.  It takes *)
(* those that are due now first, in turn, and gets to the later ones only  *)
(* when none is left: a packet that is due again at once, for ever, keeps  *)
(* all others waiting.                                                     *)
DeliverLocal == \E p \in net : p.local /\ DeliverOf(p)
DeliverLater == (\A p \in net : ~p.local) /\ Deliver

Spec == Init /\ [][Next]_vars /\ WF_vars(DeliverLocal) /\ WF_vars(DeliverLater)
-----------------------------------------------------------------------------
Stop == Node \cup {f.daddr : f \in Flow}

(* The variables have their types. *)
TypeOK ==
  /\ \A n \in Node : rtable[n].status \in {"ok", "crashed", "hung"}
  /\ timer \in [Node -> [status : {"IDLE", "PENDING"}, time : Nat]]
  /\ \A p \in net :
       /\ p.at \in Stop /\ p.daddr \in Stop /\ p.saddr \in Int
       /\ p.ttl \in 0..IP_DEF_TTL /\ p.num_forwards \in Nat /\ p.size \in Nat
       /\ p.direction \in {"NONE", "DOWN", "UP"} /\ p.local \in BOOLEAN
       /\ p.ptype = "MPSELECT" => p.hdr.type \in {"DATA_PKT", "PING_PKT", "PING_BAK"}
  /\ delivered \subseteq {p \in delivered : p.at \notin Node} /\ sent \subseteq Flow
  /\ now \in 0..MaxTime /\ cmds \in 0..MaxCmds
  /\ {aborted, steady} \subseteq BOOLEAN /\ started \in [Node -> BOOLEAN]

(* The core that is measuring with a ping or an answer to one, and the     *)
(* path it measures.                                                       *)
Measures(h) ==
  IF h.type = "PING_PKT"
  THEN [core |-> h.s_select, peer |-> h.d_select, s |-> h.s_intf, d |-> h.d_intf]
  ELSE [core |-> h.d_select, peer |-> h.s_select, s |-> h.d_intf, d |-> h.s_intf]

(* A core keeps the sending time of its last ping only.  As long as it     *)
(* pings in an unbroken rhythm, on new paths too, it can tell from that    *)
(* and the sequence number when any ping in flight, or answered by an      *)
(* answer in flight, was sent: the sum update_send_delay does on the       *)
(* answer is right however many pings have been sent since.                *)
SendTimeRecoverable == steady =>
  \A p \in net : p.hdr.type \in {"PING_PKT", "PING_BAK"} =>
    LET m == Measures(p.hdr)
    IN  \A n \in Core : RaAddr[n] = m.core =>
          \A i \in DOMAIN rtable[n].mptable :
            LET paths == rtable[n].mptable[i].paths
                k == PathIdx(paths, m.s, m.d)
            IN  rtable[n].mptable[i].select_addr = m.peer /\ k # 0 =>
                  /\ paths[k].ping_seq > p.hdr.ping_seq
                  /\ p.orig = paths[k].ping_send_time
                       - (paths[k].ping_seq - p.hdr.ping_seq - 1) * SEND_PING_INTERVAL

(* An answer of a core on a MAC skips its near interface: its next hop is  *)
(* the far one, which takes it if it gets what is not for its own node.    *)
Skips(h) == h.type = "PING_BAK" /\ h.s_select \in MacNode /\ h.d_intf \in Default

(* A core does not check d_select_, nor how a packet came.  Still every    *)
(* mpSelect packet that reaches a core is addressed to it and has passed   *)
(* through both interfaces of its path, but for an answer sent through a   *)
(* MAC, which need not have passed the first, so that what the core notes  *)
(* about the path is about that path.                                      *)
ArrivesByItsPath ==
  \A p \in net : p.ptype = "MPSELECT" /\ p.at \in Core =>
    /\ p.hdr.d_select = RaAddr[p.at]
    /\ p.hdr.d_intf \in p.via
    /\ p.hdr.s_intf \in p.via \/ Skips(p.hdr)

(* An interface agent that gets its own packets back: it was created with  *)
(* its own address instead of that of its core, or it sends through a MAC, *)
(* and the LL returns what came through another MAC.                       *)
Returns(n) == RaAddr[n] = n \/ n \in MacNode

(* forward_mpS_pkt moves every ping and answer one interface or core       *)
(* further, except at an agent that gets its own packets back.             *)
InterfaceForwards ==
  \A p \in net :
    p.hdr.type \in {"PING_PKT", "PING_BAK"} /\ p.at \in (Node \ Core) \cap p.via
    => Returns(p.at)

(* The size of a ping or an answer counts the IP header when it is made,   *)
(* and once more for every interface agent with the address of its sender  *)
(* that it has passed (the core is not there to see it, so recv of the     *)
(* interface takes the packet for a new one of its own), however it came   *)
(* there and however many hops it has gone since.                          *)
HeaderPerOwnAgent ==
  \A p \in net : p.hdr.type \in {"PING_PKT", "PING_BAK"} =>
    p.size = MPSELECT_HDR_LEN + PING_PKT_SIZE
               + IP_HDR_LEN * (1 + Cardinality({v \in p.via : RaAddr[v] = p.saddr}))

(* Hosts do not notice the encapsulation: a packet comes out with the      *)
(* type, port, address and size it was sent with.                          *)
Transparent ==
  \A p \in delivered :
    /\ p.at = p.flow.daddr
    /\ p.daddr = p.flow.daddr /\ p.dport = p.flow.dport /\ p.ptype = p.flow.ptype
    /\ p.size = p.flow.size

(* Once started and until stopped an agent has its next round of pings     *)
(* scheduled, within SEND_PING_INTERVAL: stop-ping then finds the timer    *)
(* pending and does not abort the simulator.                               *)
StartedMeansPending ==
  \A n \in Node : started[n] =>
    /\ timer[n].status = "PENDING"
    /\ timer[n].time \in now..(now + SEND_PING_INTERVAL)

(* Without commands the process ends only on a broadcast, on data for a    *)
(* core's own node, and on data for the node of an interface agent created *)
(* with its own address that came through a MAC: forward_data reaches for  *)
(* dmux_, which nothing sets, or the classifier has no slot.  No other     *)
(* packet that is decapsulated or turned upwards by a MAC gets there.      *)
AbortNeedsLocalData ==
  aborted /\ cmds = 0 =>
    \E f \in sent :
      \/ f.daddr \in Core \cup {IP_BROADCAST}
      \/ /\ f.daddr \in Node /\ RaAddr[f.daddr] = f.daddr
         /\ MacNode # {} \/ f.direction = "UP"

(* What recv drops as a packet of its own that was forwarded has been here *)
(* before, or was sent through a MAC by the very core whose address this   *)
(* agent has.  No hop counted further on, and no packet of anyone else,    *)
(* is taken for a loop.                                                    *)
LoopDropNeedsMac ==
  [][\A n \in Node, p \in net : RecvLooped(n, p) =>
       n \in p.via \/ \E m \in MacNode \cap Core : RaAddr[m] = p.saddr]_vars

(* A packet at an interface agent that has sent it to itself. *)
Circles(p) == p.at \in (Node \ Core) \cap p.via /\ Returns(p.at)

(* Every packet leaves the network: it is delivered, answered, dropped or  *)
(* lost, unless one that goes round on a node without taking time stops    *)
(* the clock for all.  Those that take time to go round do not keep others *)
(* from leaving.                                                           *)
Drains ==
  <>[]\/ ~Running
      \/ \E p \in net : p.local /\ Circles(p)
      \/ \A p \in net : Circles(p)

-----------------------------------------------------------------------------
(* What a comment of the code says, where the code does otherwise. *)

(* send_delay_, "the time the answer was received minus the time the ping  *)
(* was sent": the delay that n works out from an answer, if any, counts    *)
(* from the sending of the ping which that answer answers.                 *)
DelayFromItsPing ==
  [][\A n \in Core, p \in net : RecvBak(n, p) =>
       \A i \in DOMAIN rtable[n].mptable :
         LET old == rtable[n].mptable[i]
             new == rtable'[n].mptable[i]
             k   == PathIdx(old.paths, p.hdr.d_intf, p.hdr.s_intf)
         IN  old.select_addr = p.hdr.s_select /\ k # 0 =>
               new.paths[k].send_delay
                 \in {old.paths[k].send_delay, p.hdr.send_time - p.orig}]_vars
===============================================================================
