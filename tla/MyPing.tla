-------------------------------- MODULE MyPing --------------------------------
(***************************************************************************)
(* Two myPing agents (src/myPing/myping.cc) on nodes "a" and "b", joined   *)
(* by a duplex link whose directions are those of SimpleLink, as in        *)
(* src/TclTestSrc/net4myPing.tcl, with the packets of a routing protocol   *)
(* on the same link.  The script may take the link down and up again and   *)
(* change its delay and queue limit while packets are on their way.        *)
(*                                                                         *)
(* The scheduler dispatches the earliest event, events of one time in the  *)
(* order of their uids (EventQueue).                                       *)
(***************************************************************************)
EXTENDS SimpleLink

CONSTANTS
  Configs,   \* the configurations the links may have
  Delays,    \* the values of delay_; the links start with the largest
  Limits,    \* the values of limit_; the queues start with the largest
  MaxPings,  \* bound: send commands
  MaxRouting,\* bound: packets of the routing protocol
  MaxCmds,   \* bound: commands on the link
  MaxTime    \* bound: the time up to which the script acts

ASSUME MyPingAssumption ==
  /\ Configs \subseteq Config /\ Configs # {}
  /\ Delays \subseteq Nat /\ \E d \in Delays : \A e \in Delays : d >= e
  /\ Limits \subseteq Nat /\ \E k \in Limits : \A j \in Limits : k >= j
  /\ {MaxPings, MaxRouting, MaxCmds, MaxTime} \subseteq Nat

Node == {"a", "b"}
Peer(n) == IF n = "a" THEN "b" ELSE "a"

VARIABLES
  link,     \* the link out of each node
  now,      \* the clock
  uids,     \* the next uid
  pings,    \* for each ping: who sent it, and when
  routing,  \* number of routing packets sent
  reports,  \* what the agents passed to the Tcl proc recv: [agent, id, rtt]
  cmds,     \* number of commands on the link
  cut       \* for each link, whether delay_ has been made smaller

vars == <<link, now, uids, pings, routing, reports, cmds, cut>>

Init ==
  /\ \E c \in Configs : link = [n \in Node |-> NewLink(c, Max(Limits), Max(Delays))]
  /\ now = 0 /\ uids = 1 /\ pings = << >> /\ routing = 0
  /\ reports = {} /\ cmds = 0 /\ cut = [n \in Node |-> FALSE]

Running == \A n \in Node : link[n].failed = "no"

(* The clock does not pass an event that is due. *)
Tick ==
  /\ Running /\ now < MaxTime
  /\ \A n \in Node : \A t \in EventTimes(link[n]) : t > now
  /\ now' = now + 1
  /\ UNCHANGED <<link, uids, pings, routing, reports, cmds, cut>>

(* The command send. *)
Send(n) ==
  /\ Running /\ Len(pings) < MaxPings /\ now <= MaxTime
  /\ pings' = Append(pings, [agent |-> n, time |-> now])
  /\ link' = [link EXCEPT ![n] =
       recv(@, [class |-> "data", ret |-> 0, send_time |-> now, id |-> Len(pings) + 1],
            now, uids)]
  /\ uids' = uids + 2
  /\ UNCHANGED <<now, routing, reports, cmds, cut>>

(* A routing agent sends a packet to its neighbour. *)
SendRouting(n) ==
  /\ Running /\ routing < MaxRouting /\ now <= MaxTime
  /\ routing' = routing + 1
  /\ link' = [link EXCEPT ![n] =
       recv(@, [class |-> "routing", id |-> routing + 1], now, uids)]
  /\ uids' = uids + 2
  /\ UNCHANGED <<now, pings, reports, cmds, cut>>

(* x is the next event of the simulation. *)
IsNext(time, uid) ==
  \A m \in Node :
    /\ \A y \in link[m].transit : y.time > time \/ (y.time = time /\ y.uid >= uid)
    /\ link[m].intr # NoEvent =>
         link[m].intr.time > time \/ (link[m].intr.time = time /\ link[m].intr.uid >= uid)

Transmitted(n) ==
  /\ Running /\ link[n].intr # NoEvent /\ IsNext(link[n].intr.time, link[n].intr.uid)
  /\ now' = link[n].intr.time
  /\ link' = [link EXCEPT ![n] = resume(@, now', uids)]
  /\ uids' = uids + 2
  /\ UNCHANGED <<pings, routing, reports, cmds, cut>>

(* Variant: the answer to a ping is stamped anew. *)
Answer_restamped(p) == [p EXCEPT !.ret = 1, !.send_time = now']

Answer(p) == [p EXCEPT !.ret = 1]

(* A packet comes out at the other end of the link of n.  The agent there  *)
(* answers a ping with a packet to its own peer, in the same event.        *)
Arrive(n, x) ==
  LET p == x.pkt
      m == Peer(n)
      isPing == p.class = "data" /\ p.ret = 0
      isAnswer == p.class = "data" /\ p.ret = 1
  IN  /\ Running /\ IsNext(x.time, x.uid)
      /\ now' = x.time
      /\ link' = [link EXCEPT
           ![n] = delay_handle(@, x),
           ![m] = IF isPing THEN recv(@, Answer(p), now', uids) ELSE @]
      /\ uids' = uids + 2
      /\ reports' = reports \cup
           IF isAnswer THEN {[agent |-> m, id |-> p.id, rtt |-> now' - p.send_time]} ELSE {}
      /\ UNCHANGED <<pings, routing, cmds, cut>>

Dispatch ==
  \E n \in Node : Transmitted(n) \/ \E x \in link[n].transit : Arrive(n, x)

-----------------------------------------------------------------------------
(* The commands of the script. *)
Command ==
  /\ Running /\ cmds < MaxCmds /\ now <= MaxTime
  /\ cmds' = cmds + 1
  /\ UNCHANGED <<now, uids, pings, routing, reports>>

SetDelay(n, d) ==
  /\ Command /\ d # link[n].delay
  /\ link' = [link EXCEPT ![n].delay = d]
  /\ cut' = [cut EXCEPT ![n] = @ \/ d < link[n].delay]

(* limit_ is set, and shrink-queue called if the script wants that. *)
SetLimit(n, k, shrink) ==
  /\ Command
  /\ link' = [link EXCEPT ![n] =
       IF shrink THEN shrink_queue([@ EXCEPT !.qlim = k]) ELSE [@ EXCEPT !.qlim = k]]
  /\ UNCHANGED cut

Down(n) ==
  /\ Command /\ link[n].config.mode = "dynamic" /\ link[n].status
  /\ link' = [link EXCEPT ![n] = down(@)]
  /\ UNCHANGED cut

Up(n) ==
  /\ Command /\ ~link[n].status
  /\ link' = [link EXCEPT ![n] = up(@)]
  /\ UNCHANGED cut

Next ==
  \/ Tick \/ Dispatch
  \/ \E n \in Node :
       \/ Send(n) \/ SendRouting(n) \/ Down(n) \/ Up(n)
       \/ \E d \in Delays : SetDelay(n, d)
       \/ \E k \in Limits, shrink \in BOOLEAN : SetLimit(n, k, shrink)

(* run() dispatches as long as there are events. *)
Spec == Init /\ [][Next]_vars /\ WF_vars(Dispatch)

-----------------------------------------------------------------------------
(* A queue is blocked exactly as long as it will be called back: it never  *)
(* waits for a call that nobody has scheduled, and intr_ is never          *)
(* scheduled twice, however packets, resets and limits change the queue in *)
(* between.                                                                *)
BlockedMeansCallback ==
  \A n \in Node : /\ link[n].blocked <=> link[n].intr # NoEvent
                  /\ link[n].failed # "uid"

(* LinkDelay::handle finds at the head of itq_ the packet whose event it   *)
(* is, link failures notwithstanding; its assert is left to links whose    *)
(* delay was made shorter with packets on their way.                       *)
AssertNeedsShorterDelay ==
  \A n \in Node :
    /\ link[n].failed = "assert" => cut[n]
    /\ link[n].failed = "no" /\ link[n].config.mode = "dynamic" =>
         link[n].transit = Range(link[n].itq)

(* The pings and answers of a direction of the link that are behind x. *)
Behind(n, x) ==
  {p \in Range(link[n].pq) : p.class = "data"} \cup
  {y.pkt : y \in {z \in link[n].transit : z.pkt.class = "data" /\ z # x}}

(* Pings do not overtake each other on a link, in the queue or on the way, *)
(* nor do their answers, unless the delay is made shorter on a link that   *)
(* does not guard against it; an ordered link (avoidReordering_) keeps the *)
(* order even then.                                                        *)
NoOvertaking ==
  [][\A n \in Node : \A x \in link[n].transit : Arrive(n, x) /\ x.pkt.class = "data" =>
       \/ link[n].config.mode # "ordered" /\ (cut[n] \/ (x.pkt.ret = 1 /\ cut[Peer(n)]))
       \/ \A p \in Behind(n, x) : p.ret = x.pkt.ret => p.id > x.pkt.id]_vars

(* What an agent reports is about a ping of its own, sent as long ago as   *)
(* it says, and no faster than two transmissions over the shortest delay.  *)
ReportsOwnPings ==
  \A r \in reports :
    /\ pings[r.id].agent = r.agent
    /\ r.rtt >= 2 * (TxTime["data"] + Min(Delays))
    /\ pings[r.id].time + r.rtt <= now

(* Every packet that a link has taken comes out or is dropped. *)
LinksDrain ==
  <>[](~Running \/ \A n \in Node : link[n].pq = << >> /\ link[n].transit = {})
===============================================================================
