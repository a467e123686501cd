------------------------------ MODULE Schedulers ------------------------------
(***************************************************************************)
(* Scheduler (src/common/scheduler.cc and .h) with each of its event       *)
(* queues: List, Heap, Calendar and Splay.  A simulation has one scheduler *)
(* object, of the kind the script chose.  Its clients are handlers, which  *)
(* schedule and cancel events while run() dispatches, and the script,      *)
(* which also gives commands before run() and after it has returned.       *)
(*                                                                         *)
(* An event is its time and uid: a uid is never given out twice.           *)
(***************************************************************************)
EXTENDS Integers, Sequences, FiniteSetsExt, SequencesExt

CONSTANTS
  Kind,      \* the kinds of scheduler, of "List", "Heap", "Calendar", "Splay"
  Script,    \* the times of the events scheduled before the simulation starts
  Delay,     \* the delays schedule is called with
  AtTime,    \* the times of "at": absolute, or relative and negative
  Width,     \* see CalendarQueue
  KeySpace,  \* see HeapQueue
  MaxCalls,  \* bound: calls and commands after the set-up
  MaxClock   \* bound: the times of events

H == INSTANCE HeapQueue
C == INSTANCE CalendarQueue
S == INSTANCE SplayTree

VARIABLES
  kind,     \* the class of the scheduler
  script,   \* the times of the at commands that come before the simulation
  q,        \* its events
  uids,     \* uid_, the next one to give out
  clock,    \* clock_
  halted,   \* halted_
  running,  \* run() is on the stack
  orphans,  \* events that dumpq took out: not queued, their uid_ still positive
  calls,    \* the number of calls and commands after the set-up
  aborted   \* the way the process ended, or "no"

vars == <<kind, script, q, uids, clock, halted, running, orphans, calls, aborted>>

-----------------------------------------------------------------------------
(* The virtual methods. *)

EmptyQueue(k) ==
  CASE k = "List" -> << >> [] k = "Heap" -> H!Empty
    [] k = "Calendar" -> C!Empty [] k = "Splay" -> S!Leaf

Members(k, d) ==
  CASE k = "List" -> Range(d) [] k = "Heap" -> H!Members(d)
    [] k = "Calendar" -> C!Members(d) [] k = "Splay" -> S!Members(d)

(* ListScheduler::insert: before the first event that is later. *)
list_insert(l, e) ==
  LET later == {i \in DOMAIN l : e.time < l[i].time}
  IN  InsertAt(l, IF later = {} THEN Len(l) + 1 ELSE Min(later), e)

insert(k, d, e) ==
  CASE k = "List" -> {list_insert(d, e)} [] k = "Heap" -> {H!heap_insert(d, e)}
    [] k = "Calendar" -> C!insert(d, e) [] k = "Splay" -> {S!insert(d, e)}

(* The next event, of a queue that is not empty, and what is left. *)
deque(k, d) ==
  CASE k = "List" -> [ev |-> Head(d), after |-> {Tail(d)}]
    [] k = "Heap" -> [ev    |-> [time |-> H!heap_min(d).time, uid |-> H!heap_min(d).uid],
                      after |-> {H!heap_extract_min(d)}]
    [] k = "Calendar" -> C!deque(d)
    [] k = "Splay" -> LET r == S!deque(d) IN [ev |-> r[1], after |-> {r[2]}]

cancel(k, d, e) ==
  CASE k = "List" -> RemoveAt(d, Min({i \in DOMAIN d : d[i] = e}))
    [] k = "Heap" -> H!heap_delete(d, e)
    [] k = "Calendar" -> C!cancel(d, e)
    [] k = "Splay" -> S!cancel(d, e)

(* cancel gets to the event e: the list by walking, the heap with          *)
(* heap_member, the calendar by the links of e itself, which its asserts   *)
(* then compare with the bucket of e's time, the tree by its order.        *)
CancelFinds(k, d, e) ==
  CASE k = "List" -> e \in Range(d)
    [] k = "Heap" -> H!heap_member(d, e) # {}
    [] k = "Calendar" -> C!Place(d, e) # {}
    [] k = "Splay" -> S!Finds(d, e)

lookup(k, d, uid) == {e \in Members(k, d) : e.uid = uid}

Events == Members(kind, q)

-----------------------------------------------------------------------------
Init ==
  /\ kind \in Kind /\ script \in Script
  /\ q = EmptyQueue(kind)
  /\ uids = 1 /\ clock = 0 /\ halted = FALSE /\ running = FALSE
  /\ orphans = {} /\ calls = 0 /\ aborted = "no"

MaxUid == Max({Len(times) : times \in Script}) + MaxCalls

Alive == aborted = "no" /\ script = << >> /\ UNCHANGED <<kind, script>>

Call == Alive /\ calls < MaxCalls /\ calls' = calls + 1

(* schedule. *)
schedule(delay) ==
  /\ clock + delay \in 0..MaxClock
  /\ q' \in insert(kind, q, [time |-> clock + delay, uid |-> uids])
  /\ uids' = uids + 1
  /\ UNCHANGED <<clock, halted, running, orphans, aborted>>

Schedule(delay) == Call /\ schedule(delay)

(* The at commands with which a script sets up the simulation. *)
SetUp ==
  /\ script # << >>
  /\ schedule(Head(script))
  /\ script' = Tail(script) /\ UNCHANGED <<kind, calls>>

(* The commands at and at-now; a time in the past is refused. *)
At(t) ==
  LET delay == IF t < 0 THEN -t ELSE t - clock
  IN  delay >= 0 /\ Schedule(delay)

(* cancel of an event whose uid_ is positive. *)
Cancel(e) ==
  /\ Call
  /\ IF CancelFinds(kind, q, e)
     THEN q' = cancel(kind, q, e) /\ orphans' = orphans \ {e} /\ UNCHANGED aborted
     ELSE IF kind = "Heap"
     THEN orphans' = orphans \ {e} /\ UNCHANGED <<q, aborted>>
     ELSE aborted' = "lost" /\ UNCHANGED <<q, orphans>>
  /\ UNCHANGED <<uids, clock, halted, running>>

(* The command cancel, which does nothing for a uid it does not find. *)
CancelUid(uid) == \E e \in lookup(kind, q, uid) : Cancel(e)

(* One turn of the loop of run(): deque and dispatch. *)
Dispatch ==
  /\ Alive /\ running /\ ~halted /\ Events # {}
  /\ \E d \in {deque(kind, q)} :
       /\ q' \in d.after
       /\ IF d.ev.time < clock
          THEN aborted' = "backwards" /\ UNCHANGED clock
          ELSE clock' = d.ev.time /\ UNCHANGED aborted
  /\ UNCHANGED <<uids, halted, running, orphans, calls>>

(* run() returns. *)
Return ==
  /\ Alive /\ running /\ (halted \/ Events = {})
  /\ running' = FALSE
  /\ UNCHANGED <<q, uids, clock, halted, orphans, calls, aborted>>

(* The command run: reset, then run(). *)
Run ==
  /\ Call /\ ~running
  /\ clock' = 0 /\ running' = TRUE
  /\ UNCHANGED <<q, uids, halted, orphans, aborted>>

Resume ==
  /\ Call /\ ~running
  /\ halted' = FALSE /\ running' = TRUE
  /\ UNCHANGED <<q, uids, clock, orphans, aborted>>

Halt ==
  /\ Call /\ ~halted
  /\ halted' = TRUE
  /\ UNCHANGED <<q, uids, clock, running, orphans, aborted>>

(* The queues that may be left when every event has been dequeued. *)
RECURSIVE Drained(_, _)
Drained(k, Q) ==
  IF \A d \in Q : Members(k, d) = {} THEN Q
  ELSE Drained(k, UNION {deque(k, d).after : d \in Q})

Dumpq ==
  /\ Call /\ halted
  /\ q' \in Drained(kind, {q})
  /\ orphans' = orphans \cup Events
  /\ UNCHANGED <<uids, clock, halted, running, aborted>>

Next ==
  \/ SetUp
  \/ \E delay \in Delay : Schedule(delay)
  \/ \E t \in AtTime : At(t)
  \/ \E e \in Events \cup orphans : Cancel(e)
  \/ \E uid \in 1..MaxUid : CancelUid(uid)
  \/ Dispatch \/ Return \/ Run \/ Resume \/ Halt \/ Dumpq

Spec == Init /\ [][Next]_vars

-----------------------------------------------------------------------------
(* Every kind of scheduler is the queue that EventQueue describes: all of  *)
(* them dispatch the same events in the same order, simultaneous ones in   *)
(* the order in which they were scheduled, however the calendar has been   *)
(* resized and the tree splayed in between.                                *)
EQ == INSTANCE EventQueue WITH
        Event <- 1..MaxUid,
        pending <- {[ev |-> e.uid, time |-> e.time, uid |-> e.uid] : e \in Events}
EventQueueSpec == EQ!Spec

(* The statistics of the calendar, which decide when it is resized and     *)
(* which its asserts compare, are what they are said to be: the number of  *)
(* events, and of distinct times, in all and in every bucket.              *)
CalendarCounts ==
  kind = "Calendar" =>
    /\ q.qsize = Cardinality(Events)
    /\ q.stat_qsize = Cardinality({e.time : e \in Events})
    /\ \A i \in DOMAIN q.buckets :
         q.count[i] = Cardinality({e.time : e \in Range(q.buckets[i])})
    /\ Cardinality({e.time : e \in Events}) <= C!top_threshold(q)

(* Whatever has happened to the structure, cancel finds an event that is   *)
(* in it: the abort "did not find it" and the asserts of the calendar are  *)
(* left to events that dumpq has taken out of the queue.                   *)
LostOnlyByDumpq == aborted = "lost" => orphans # {}
===============================================================================
