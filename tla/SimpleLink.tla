------------------------------ MODULE SimpleLink ------------------------------
(***************************************************************************)
(* One direction of a link as SimpleLink builds it: a DynamicLink that can *)
(* be down (src/link/dynalink.cc), a queue (src/queue/queue.cc with        *)
(* drop-tail.cc or priqueue.cc) and a LinkDelay (src/link/delay.cc), which *)
(* holds a packet for its transmission time, calls the queue back, and     *)
(* hands the packet on after the propagation delay.                        *)
(*                                                                         *)
(* A link is a record; each method is an operator from link to link.  The  *)
(* events it has in the scheduler are part of it: the packets on their way *)
(* and intr_, with their times and uids.  Two uids are given out by each   *)
(* LinkDelay::recv, uid and uid + 1.                                       *)
(***************************************************************************)
EXTENDS Integers, Sequences, FiniteSetsExt, SequencesExt

CONSTANT TxTime  \* txtime of a packet, by its class

ASSUME LinkAssumption ==
  /\ {"data", "routing"} \subseteq DOMAIN TxTime
  /\ \A c \in DOMAIN TxTime : TxTime[c] \in Nat \ {0}

(* How a link is configured before the run: mode is "dynamic" (isDynamic), *)
(* "ordered" (avoidReordering_) or "plain"; pri is a PriQueue that prefers *)
(* routing protocols; front is drop_front_.                                *)
Config == [mode : {"plain", "dynamic", "ordered"}, pri : BOOLEAN, front : BOOLEAN]

NoEvent == [time |-> -1, uid |-> 0]

NewLink(config, limit, delay) ==
  [config  |-> config,
   status  |-> TRUE,     \* status_ of the DynamicLink
   pq      |-> << >>,    \* the packets waiting
   blocked |-> FALSE,    \* blocked_
   qlim    |-> limit,    \* qlim_
   delay   |-> delay,    \* delay_
   itq     |-> << >>,    \* itq_: the packets of transit as they were sent
   latest  |-> 0,        \* latest_time_
   transit |-> {},       \* packets scheduled to come out: [pkt, time, uid]
   intr    |-> NoEvent,  \* intr_, when it is scheduled
   failed  |-> "no"]     \* the abort() or assert() that ended the process

-----------------------------------------------------------------------------
(* LinkDelay *)

(* Variant: a packet is never held back behind an earlier one. *)
ArrivalTime_unordered(l, p, now) == now + TxTime[p.class] + l.delay

(* When the packet p that is sent now comes out. *)
ArrivalTime(l, p, now) ==
  LET direct == now + TxTime[p.class] + l.delay
  IN  IF l.config.mode = "ordered" /\ direct < l.latest
      THEN l.latest + TxTime[p.class] ELSE direct

(* LinkDelay::recv.  Scheduling intr_ while it is scheduled aborts. *)
delay_recv(l, p, now, uid) ==
  LET t == ArrivalTime(l, p, now)
      x == [pkt |-> p, time |-> t, uid |-> uid]
  IN  [l EXCEPT !.transit = @ \cup {x},
                !.itq = IF l.config.mode = "dynamic" THEN Append(@, x) ELSE @,
                !.latest = IF l.config.mode = "ordered" THEN t ELSE @,
                !.failed = IF l.intr # NoEvent THEN "uid" ELSE @,
                !.intr = [time |-> now + TxTime[p.class], uid |-> uid + 1]]

(* The event x of a packet is dispatched: LinkDelay::handle on a dynamic   *)
(* link, which takes the packet from itq_ and asserts that it is this one. *)
delay_handle(l, x) ==
  IF l.config.mode # "dynamic" THEN [l EXCEPT !.transit = @ \ {x}]
  ELSE [l EXCEPT !.transit = @ \ {x}, !.itq = Tail(@),
                 !.failed = IF Head(l.itq).time # x.time THEN "assert" ELSE @]

(* Variant: reset drops the packets and leaves their events scheduled. *)
delay_reset_uncancelled(l) == [l EXCEPT !.itq = << >>]

(* LinkDelay::reset, which only a dynamic link does anything in: it        *)
(* cancels the events of the packets in itq_.                              *)
delay_reset(l) == [l EXCEPT !.transit = @ \ Range(l.itq), !.itq = << >>]

-----------------------------------------------------------------------------
(* Queue, DropTail and PriQueue *)

(* DropTail::enque *)
enque(l, p) ==
  IF Len(l.pq) + 1 < l.qlim THEN [l EXCEPT !.pq = Append(@, p)]
  ELSE IF l.config.front THEN [l EXCEPT !.pq = Tail(Append(@, p))]
  ELSE l

(* The first part of PriQueue::recvHighPriority. *)
enqueHigh(l, p) ==
  LET q == <<p>> \o l.pq
  IN  [l EXCEPT !.pq = IF Len(q) >= l.qlim THEN Front(q) ELSE q]

(* Variant: the link is not looked at before a packet is sent. *)
SendNext_unchecked(l, now, uid) ==
  IF l.pq = << >> THEN l
  ELSE delay_recv([l EXCEPT !.pq = Tail(@), !.blocked = TRUE], Head(l.pq), now, uid)

(* The end of Queue::recv and recvHighPriority. *)
SendNext(l, now, uid) ==
  IF l.blocked \/ l.pq = << >> THEN l
  ELSE delay_recv([l EXCEPT !.pq = Tail(@), !.blocked = TRUE], Head(l.pq), now, uid)

(* The recv of the queue, which a PriQueue gives a second branch. *)
queue_recv(l, p, now, uid) ==
  SendNext(IF l.config.pri /\ p.class = "routing" THEN enqueHigh(l, p) ELSE enque(l, p),
           now, uid)

(* DynamicLink::recv *)
recv(l, p, now, uid) == IF l.status THEN queue_recv(l, p, now, uid) ELSE l

(* Variant: a queue that has nothing to send stays blocked. *)
resume_blocked(l, now, uid) ==
  LET i == [l EXCEPT !.intr = NoEvent]
  IN  IF l.pq = << >> THEN i
      ELSE delay_recv([i EXCEPT !.pq = Tail(@)], Head(l.pq), now, uid)

(* intr_ is dispatched: QueueHandler::handle and Queue::resume. *)
resume(l, now, uid) ==
  LET i == [l EXCEPT !.intr = NoEvent]
  IN  IF l.pq = << >> THEN [i EXCEPT !.blocked = FALSE]
      ELSE delay_recv([i EXCEPT !.pq = Tail(@)], Head(l.pq), now, uid)

(* DropTail::shrink_queue *)
shrink_queue(l) ==
  LET n == Len(l.pq)
  IN  IF n <= l.qlim THEN l
      ELSE [l EXCEPT !.pq = IF l.config.front THEN SubSeq(@, n - l.qlim + 1, n)
                            ELSE SubSeq(@, 1, l.qlim)]

(* Queue::reset and, for a PriQueue, Terminate. *)
queue_reset(l) == [l EXCEPT !.pq = << >>]

(* The link is taken down: every connector on it is reset. *)
down(l) == delay_reset(queue_reset([l EXCEPT !.status = FALSE]))
up(l) == [l EXCEPT !.status = TRUE]

(* The times of a link's events. *)
EventTimes(l) ==
  {x.time : x \in l.transit} \cup (IF l.intr = NoEvent THEN {} ELSE {l.intr.time})
===============================================================================
