------------------------------- MODULE EventQueue -------------------------------
(***************************************************************************)
(* What an ns-2 scheduler promises the objects that use it: events are     *)
(* dispatched in the order of their times, those of one time in the order  *)
(* in which they were scheduled, an event that was cancelled never, and    *)
(* the clock shows the time of the event and does not go back.             *)
(***************************************************************************)
EXTENDS Integers

CONSTANT Event   \* the event objects

VARIABLES
  pending,  \* the scheduled events: [ev, time, uid]
  clock     \* the time of the last dispatch

vars == <<pending, clock>>

Init == pending = {} /\ clock = 0

Before(a, b) == a.time < b.time \/ (a.time = b.time /\ a.uid < b.uid)

(* An object is in the queue at most once. *)
Absent(e) == \A b \in pending : b.ev # e

(* Later than everything scheduled so far. *)
Newest(uid) == \A b \in pending : b.uid < uid

Schedule(e, time, uid) ==
  /\ Absent(e) /\ Newest(uid)
  /\ pending' = pending \cup {[ev |-> e, time |-> time, uid |-> uid]}
  /\ UNCHANGED clock

Cancel(b) ==
  /\ b \in pending
  /\ pending' = pending \ {b}
  /\ UNCHANGED clock

(* Cancelled and scheduled anew. *)
Move(b, time, uid) ==
  /\ b \in pending /\ Newest(uid)
  /\ pending' = (pending \ {b}) \cup {[ev |-> b.ev, time |-> time, uid |-> uid]}
  /\ UNCHANGED clock

Dispatch(b) ==
  /\ b \in pending
  /\ \A c \in pending \ {b} : Before(b, c)
  /\ b.time >= clock
  /\ pending' = pending \ {b}
  /\ clock' = b.time

(* An event whose time has passed ends the run. *)
Fail(b) ==
  /\ b \in pending
  /\ b.time < clock
  /\ pending' = pending \ {b}
  /\ UNCHANGED clock

(* Another event, of no concern here, is dispatched before those pending   *)
(* later.                                                                  *)
Advance ==
  /\ clock' > clock
  /\ \A b \in pending : b.time >= clock'
  /\ UNCHANGED pending

(* The clock is set back to the start before the events are dispatched. *)
Restart == clock' = 0 /\ UNCHANGED pending

(* All events are taken out undispatched. *)
Clear == pending' = {} /\ UNCHANGED clock

New(e) == {b \in pending' : b.ev = e}

Next ==
  \/ \E e \in Event : \E b \in New(e) : Schedule(e, b.time, b.uid)
  \/ \E b \in pending : \/ Cancel(b) \/ Dispatch(b) \/ Fail(b)
                        \/ \E c \in New(b.ev) : Move(b, c.time, c.uid)
  \/ Advance \/ Restart \/ Clear

Spec == Init /\ [][Next]_vars
===============================================================================
