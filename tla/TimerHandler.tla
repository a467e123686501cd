------------------------------ MODULE TimerHandler ------------------------------
(***************************************************************************)
(* Timers (src/common/timer-handler.cc and .h) on the event list of the    *)
(* simulator (src/common/scheduler.cc, Scheduler and ListScheduler).  The  *)
(* ping timer of an mpSelect agent is one of these.                        *)
(*                                                                         *)
(* A timer owns one event object that it schedules again and again; the    *)
(* sign of the object's uid_ says whether it is in the list.  Any code may *)
(* call any timer, at any time: the handlers of other events, and expire() *)
(* of a timer, for itself or for another one.                              *)
(*                                                                         *)
(* The code ends in abort() in six places; aborted says which one.         *)
(***************************************************************************)
EXTENDS Integers, Sequences, FiniteSetsExt, SequencesExt

CONSTANTS
  Timer,     \* the timers; also their event objects
  None,      \* no timer
  Delay,     \* the delays callers ask for
  MaxUid,    \* bound: calls of Scheduler::schedule
  MaxClock   \* bound: the clock

ASSUME TimerAssumption ==
  None \notin Timer /\ Delay \subseteq Int /\ MaxUid \in Nat /\ MaxClock \in Nat

VARIABLES
  queue,     \* queue_ of ListScheduler: [ev, time, uid] in list order
  uid,       \* uid_ of every event object: 0 new, > 0 in the list
  uids,      \* Scheduler::uid_, the next one to give out
  clock,     \* Scheduler::clock_
  status,    \* status_ of every timer
  handling,  \* the timer whose expire() is running, or None
  aborted    \* the abort() the process ended in, or "no"

vars == <<queue, uid, uids, clock, status, handling, aborted>>

Init ==
  /\ queue = << >> /\ uid = [t \in Timer |-> 0] /\ uids = 1 /\ clock = 0
  /\ status = [t \in Timer |-> "IDLE"]
  /\ handling = None /\ aborted = "no"

-----------------------------------------------------------------------------
(* The scheduler. *)

(* Variant: a new event goes before those of the same time. *)
insert_first(q, e) ==
  LET later == {i \in DOMAIN q : e.time <= q[i].time}
  IN  InsertAt(q, IF later = {} THEN Len(q) + 1 ELSE Min(later), e)

(* ListScheduler::insert: before the first event that is later. *)
insert(q, e) ==
  LET later == {i \in DOMAIN q : e.time < q[i].time}
  IN  InsertAt(q, IF later = {} THEN Len(q) + 1 ELSE Min(later), e)

InList(q, t) == {i \in DOMAIN q : q[i].ev = t}

(* ListScheduler::cancel: nothing for an event that is not in the list. *)
unlink(q, t) ==
  IF uid[t] <= 0 \/ InList(q, t) = {} THEN q ELSE RemoveAt(q, Min(InList(q, t)))

(* The abort() of ListScheduler::cancel: uid_ says the event is in the     *)
(* list, and it is not.                                                    *)
CancelFails(t) == uid[t] > 0 /\ InList(queue, t) = {}

(* Scheduler::schedule of t's event on the list q: aborts when it is in    *)
(* the list already.                                                       *)
schedule(q, t, delay, inList) ==
  IF inList
  THEN aborted' = "uid" /\ UNCHANGED <<queue, uid, uids, status>>
  ELSE /\ queue' = insert(q, [ev |-> t, time |-> clock + delay, uid |-> uids])
       /\ uid' = [uid EXCEPT ![t] = uids]
       /\ uids' = uids + 1
       /\ status' = [status EXCEPT ![t] = "PENDING"]
       /\ UNCHANGED aborted

-----------------------------------------------------------------------------
(* The timer calls. *)

Call == aborted = "no" /\ UNCHANGED <<clock, handling>>

(* _cancel, which ends with the event out of the list. *)
Unscheduled(t) ==
  IF CancelFails(t)
  THEN aborted' = "lost" /\ UNCHANGED <<queue, uid, uids, status>>
  ELSE /\ queue' = unlink(queue, t)
       /\ uid' = [uid EXCEPT ![t] = IF @ > 0 THEN -@ ELSE @]
       /\ status' = [status EXCEPT ![t] = "IDLE"]
       /\ UNCHANGED <<uids, aborted>>

Sched(t, delay) ==
  /\ Call /\ uids <= MaxUid
  /\ IF status[t] # "IDLE"
     THEN aborted' = "sched" /\ UNCHANGED <<queue, uid, uids, status>>
     ELSE schedule(queue, t, delay, uid[t] > 0)

(* Variant: resched does not look whether the timer is pending. *)
Resched_no_cancel(t, delay) ==
  /\ Call /\ uids <= MaxUid
  /\ schedule(queue, t, delay, uid[t] > 0)

Resched(t, delay) ==
  /\ Call /\ uids <= MaxUid
  /\ IF status[t] = "PENDING"
     THEN IF CancelFails(t)
          THEN aborted' = "lost" /\ UNCHANGED <<queue, uid, uids, status>>
          ELSE schedule(unlink(queue, t), t, delay, FALSE)
     ELSE schedule(queue, t, delay, uid[t] > 0)

Cancel(t) ==
  /\ Call
  /\ IF status[t] # "PENDING"
     THEN aborted' = "cancel" /\ UNCHANGED <<queue, uid, uids, status>>
     ELSE Unscheduled(t)

ForceCancel(t) == Call /\ status[t] = "PENDING" /\ Unscheduled(t)

-----------------------------------------------------------------------------
(* Variant: dispatch does not compare the time with the clock. *)
Dispatch_unchecked ==
  /\ aborted = "no" /\ handling = None /\ queue # << >>
  /\ queue' = Tail(queue)
  /\ clock' = queue[1].time
  /\ uid' = [uid EXCEPT ![queue[1].ev] = -@]
  /\ status' = [status EXCEPT ![queue[1].ev] = "HANDLING"]
  /\ handling' = queue[1].ev
  /\ UNCHANGED <<uids, aborted>>

(* Scheduler::run: deque and dispatch, then TimerHandler::handle up to the *)
(* call of expire().                                                       *)
Dispatch ==
  /\ aborted = "no" /\ handling = None /\ queue # << >>
  /\ queue' = Tail(queue)
  /\ LET t == queue[1].ev
     IN  IF queue[1].time < clock
         THEN aborted' = "backwards" /\ UNCHANGED <<uid, clock, status, handling>>
         ELSE /\ clock' = queue[1].time
              /\ uid' = [uid EXCEPT ![t] = -@]
              /\ IF status[t] # "PENDING"
                 THEN aborted' = "handle" /\ UNCHANGED <<status, handling>>
                 ELSE /\ status' = [status EXCEPT ![t] = "HANDLING"]
                      /\ handling' = t
                      /\ UNCHANGED aborted
  /\ UNCHANGED uids

(* Variant: a timer that expire() set again is marked idle all the same. *)
EndExpire_always_idle ==
  /\ aborted = "no" /\ handling # None
  /\ status' = [status EXCEPT ![handling] = "IDLE"]
  /\ handling' = None
  /\ UNCHANGED <<queue, uid, uids, clock, aborted>>

(* Variant: a timer that expire() did not set again stays as it is. *)
EndExpire_never_idle ==
  /\ aborted = "no" /\ handling # None
  /\ handling' = None
  /\ UNCHANGED <<queue, uid, uids, clock, status, aborted>>

(* handle after expire() has returned. *)
EndExpire ==
  /\ aborted = "no" /\ handling # None
  /\ status' = [status EXCEPT ![handling] = IF @ = "HANDLING" THEN "IDLE" ELSE @]
  /\ handling' = None
  /\ UNCHANGED <<queue, uid, uids, clock, aborted>>

(* An event that is not a timer's is dispatched; its handler's calls on    *)
(* timers are steps of their own.                                          *)
OtherEvent ==
  /\ aborted = "no" /\ handling = None
  /\ clock < MaxClock
  /\ queue # << >> => clock + 1 <= queue[1].time
  /\ clock' = clock + 1
  /\ UNCHANGED <<queue, uid, uids, status, handling, aborted>>

Next ==
  \/ \E t \in Timer : \/ \E d \in Delay : Sched(t, d) \/ Resched(t, d)
                      \/ Cancel(t) \/ ForceCancel(t)
  \/ Dispatch \/ EndExpire \/ OtherEvent

(* run() goes on as long as there are events, and handlers return. *)
Spec == Init /\ [][Next]_vars /\ WF_vars(Dispatch \/ EndExpire)

-----------------------------------------------------------------------------
(* The variables have their types. *)
TypeOK ==
  /\ queue \in Seq([ev : Timer, time : Int, uid : Nat \ {0}])
  /\ uid \in [Timer -> Int] /\ uids \in Nat \ {0} /\ clock \in Nat
  /\ status \in [Timer -> {"IDLE", "PENDING", "HANDLING"}]
  /\ handling \in Timer \cup {None}
  /\ aborted \in {"no", "sched", "cancel", "uid", "lost", "handle", "backwards"}

(* The three records of whether a timer is set, its status, the sign of    *)
(* its event's uid and the list, agree between any two calls, inside       *)
(* expire() too, and the event is in the list only once.                   *)
PendingIsQueued ==
  \A t \in Timer : aborted = "no" =>
    /\ status[t] = "PENDING" <=> uid[t] > 0
    /\ status[t] = "PENDING" <=> InList(queue, t) # {}
    /\ Cardinality(InList(queue, t)) <= 1
    /\ status[t] = "HANDLING" => handling = t

(* The three defensive abort()s are never reached, whoever calls which     *)
(* timer when: that of schedule() on a uid that is not valid, that of      *)
(* ListScheduler::cancel on an event that is not in the list, and that of  *)
(* handle() on a timer that is not pending.                                *)
DefensiveAbortsUnreachable == aborted \notin {"uid", "lost", "handle"}

(* The list is the queue the scheduler promises: timers expire in the      *)
(* order of their times, in the order of the calls that set them at one    *)
(* time, and never after they were cancelled.                              *)
EQ == INSTANCE EventQueue WITH Event <- Timer,
        pending <- {queue[i] : i \in DOMAIN queue}
EventQueueSpec == EQ!Spec

(* A timer that is set and left alone expires: once callers stop calling,  *)
(* every timer comes to rest.                                              *)
TimersComeToRest ==
  <>[](aborted # "no" \/ \A t \in Timer : status[t] = "IDLE")
===============================================================================
