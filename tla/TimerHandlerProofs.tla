-------------------------- MODULE TimerHandlerProofs --------------------------
(***************************************************************************)
(* Proofs about TimerHandler for any number of timers, any delays and any  *)
(* number of calls: a timer's status, the sign of its event's uid and the  *)
(* event list always agree, the defensive abort()s are dead code, and the  *)
(* list is the queue that EventQueue describes.                            *)
(***************************************************************************)
EXTENDS TimerHandler, ListLemmas, FiniteSetTheorems

Entry == [ev : Timer, time : Int, uid : Nat \ {0}]

(* The events in a list, and that none is in it twice. *)
Evs(q) == {q[i].ev : i \in DOMAIN q}
Once(q) == \A i, j \in DOMAIN q : q[i].ev = q[j].ev => i = j

(* PendingIsQueued without counting: the form that every call preserves. *)
Consistent ==
  aborted = "no" =>
    /\ \A t \in Timer : status[t] = "PENDING" <=> uid[t] > 0
    /\ \A t \in Timer : status[t] = "PENDING" <=> t \in Evs(queue)
    /\ Once(queue)
    /\ \A t \in Timer : status[t] = "HANDLING" => handling = t

TInv == TypeOK /\ Consistent /\ DefensiveAbortsUnreachable

-----------------------------------------------------------------------------
(* The list operations. *)

(* insert adds one event and keeps the others. *)
LEMMA InsertKeeps ==
  ASSUME NEW q \in Seq(Entry), NEW e \in Entry, Once(q), e.ev \notin Evs(q)
  PROVE  /\ insert(q, e) \in Seq(Entry)
         /\ Once(insert(q, e))
         /\ Evs(insert(q, e)) = Evs(q) \cup {e.ev}
<1> DEFINE later == {i \in DOMAIN q : e.time < q[i].time}
           k == IF later = {} THEN Len(q) + 1 ELSE Min(later)
           r == InsertAt(q, k, e)
<1>0. Len(q) \in Nat /\ DOMAIN q = 1..Len(q)
  BY LenProperties
<1>1. k \in 1..(Len(q) + 1)
  <2>1. CASE later = {}
    BY <1>0, <2>1
  <2>2. CASE later # {}
    <3>1. later \subseteq Nat
      BY <1>0
    <3>2. Min(later) \in later
      BY <2>2, <3>1, MinNat
    <3>. QED  BY <1>0, <2>2, <3>2
  <2>. QED  BY <2>1, <2>2
<1> HIDE DEF later, k
<1>2. /\ r \in Seq(Entry) /\ Len(r) = Len(q) + 1
      /\ \A j \in 1..(Len(q) + 1) :
           r[j] = IF j < k THEN q[j] ELSE IF j = k THEN e ELSE q[j - 1]
  BY <1>1, InsertAtProperties
<1>3. insert(q, e) = r
  BY DEF insert, later, k
<1> HIDE DEF r
<1>4. DOMAIN r = 1..(Len(q) + 1)
  BY <1>2, LenProperties
<1>5. \A j \in DOMAIN r :
        \/ j = k /\ r[j] = e
        \/ j < k /\ j \in DOMAIN q /\ r[j] = q[j]
        \/ j > k /\ j - 1 \in DOMAIN q /\ r[j] = q[j - 1]
  BY <1>0, <1>1, <1>2, <1>4
<1>6. \A j \in DOMAIN q : \E h \in DOMAIN r : r[h] = q[j]
  <2> SUFFICES ASSUME NEW j \in DOMAIN q PROVE \E h \in DOMAIN r : r[h] = q[j]
    OBVIOUS
  <2>1. CASE j < k
    BY <1>0, <1>2, <1>4, <2>1
  <2>2. CASE ~ (j < k)
    <3>1. j + 1 \in 1..(Len(q) + 1) /\ ~ (j + 1 < k) /\ j + 1 # k /\ (j + 1) - 1 = j
      BY <1>0, <1>1, <2>2
    <3>2. r[j + 1] = q[j]
      BY <1>2, <3>1
    <3>. QED  BY <1>4, <3>1, <3>2
  <2>. QED  BY <2>1, <2>2
<1>7. k \in DOMAIN r /\ r[k] = e
  BY <1>0, <1>1, <1>2, <1>4
<1>8. Evs(r) = Evs(q) \cup {e.ev}
  BY <1>5, <1>6, <1>7 DEF Evs
<1>9. Once(r)
  <2> SUFFICES ASSUME NEW i \in DOMAIN r, NEW j \in DOMAIN r, r[i].ev = r[j].ev
               PROVE  i = j
    BY DEF Once
  <2>1. \A h \in DOMAIN q : q[h].ev # e.ev
    BY DEF Evs
  <2>2. \A g, h \in DOMAIN q : q[g].ev = q[h].ev => g = h
    BY DEF Once
  <2>3. i \in Int /\ j \in Int /\ k \in Int
    BY <1>1, <1>4
  <2>. QED  BY <1>5, <2>1, <2>2, <2>3
<1>. QED  BY <1>2, <1>3, <1>8, <1>9

(* unlink takes out the event, which is in the list once. *)
LEMMA UnlinkKeeps ==
  ASSUME NEW q \in Seq(Entry), NEW t \in Timer, Once(q),
         uid[t] \in Int, uid[t] > 0, t \in Evs(q)
  PROVE  /\ unlink(q, t) \in Seq(Entry)
         /\ Once(unlink(q, t))
         /\ Evs(unlink(q, t)) = Evs(q) \ {t}
         /\ InList(q, t) # {}
<1> DEFINE k == Min(InList(q, t))
           r == RemoveAt(q, k)
<1>0. Len(q) \in Nat /\ DOMAIN q = 1..Len(q)
  BY LenProperties
<1>1. InList(q, t) # {} /\ InList(q, t) \subseteq Nat
  BY <1>0 DEF Evs, InList
<1>2. k \in InList(q, t)
  BY <1>1, MinNat
<1>3. k \in 1..Len(q) /\ q[k].ev = t
  BY <1>0, <1>2 DEF InList
<1> HIDE DEF k
<1>4. /\ r \in Seq(Entry) /\ Len(r) = Len(q) - 1
      /\ \A j \in 1..(Len(q) - 1) : r[j] = IF j < k THEN q[j] ELSE q[j + 1]
  BY <1>3, RemoveAtProperties
<1>5. unlink(q, t) = r
  <2>1. ~ (uid[t] <= 0 \/ InList(q, t) = {})
    BY <1>1
  <2>. QED  BY <2>1 DEF unlink, k
<1> HIDE DEF r
<1>6. DOMAIN r = 1..(Len(q) - 1)
  BY <1>4, LenProperties
<1>7. \A j \in DOMAIN r :
        \/ j < k /\ j \in DOMAIN q /\ r[j] = q[j]
        \/ ~ (j < k) /\ j + 1 \in DOMAIN q /\ j + 1 # k /\ r[j] = q[j + 1]
  BY <1>0, <1>3, <1>4, <1>6
<1>8. \A j \in DOMAIN q : j # k => \E h \in DOMAIN r : r[h] = q[j]
  <2> SUFFICES ASSUME NEW j \in DOMAIN q, j # k PROVE \E h \in DOMAIN r : r[h] = q[j]
    OBVIOUS
  <2>1. CASE j < k
    BY <1>0, <1>3, <1>4, <1>6, <2>1
  <2>2. CASE ~ (j < k)
    <3>1. j - 1 \in 1..(Len(q) - 1) /\ ~ (j - 1 < k) /\ (j - 1) + 1 = j
      BY <1>0, <1>3, <2>2
    <3>2. r[j - 1] = q[j]
      BY <1>4, <3>1
    <3>. QED  BY <1>6, <3>1, <3>2
  <2>. QED  BY <2>1, <2>2
<1>9. \A g, h \in DOMAIN q : q[g].ev = q[h].ev => g = h
  BY DEF Once
<1>10. Evs(r) = Evs(q) \ {t}
  <2>1. k \in DOMAIN q
    BY <1>0, <1>3
  <2>2. \A j \in DOMAIN q : j # k => q[j].ev # t
    BY <1>3, <1>9, <2>1
  <2>3. \A j \in DOMAIN r : r[j].ev \in Evs(q) /\ r[j].ev # t
    <3> SUFFICES ASSUME NEW j \in DOMAIN r PROVE r[j].ev \in Evs(q) /\ r[j].ev # t
      OBVIOUS
    <3>1. PICK h \in DOMAIN q : h # k /\ r[j] = q[h]
      BY <1>0, <1>3, <1>6, <1>7
    <3>. QED  BY <2>2, <3>1 DEF Evs
  <2>4. \A x \in Evs(q) : x # t => x \in Evs(r)
    BY <1>3, <1>8 DEF Evs
  <2>. QED  BY <2>3, <2>4 DEF Evs
<1>11. Once(r)
  <2> SUFFICES ASSUME NEW i \in DOMAIN r, NEW j \in DOMAIN r, r[i].ev = r[j].ev
               PROVE  i = j
    BY DEF Once
  <2>1. i \in Int /\ j \in Int /\ k \in Int
    BY <1>0, <1>3, <1>6
  <2>. QED  BY <1>7, <1>9, <2>1
<1>. QED  BY <1>1, <1>4, <1>5, <1>10, <1>11

(* deque takes out the first event. *)
LEMMA TailKeeps ==
  ASSUME NEW q \in Seq(Entry), q # << >>, Once(q)
  PROVE  /\ Tail(q) \in Seq(Entry)
         /\ Once(Tail(q))
         /\ Evs(Tail(q)) = Evs(q) \ {q[1].ev}
         /\ q[1] \in Entry /\ q[1].ev \in Evs(q)
<1> DEFINE r == Tail(q)
<1>0. Len(q) \in Nat /\ Len(q) # 0 /\ DOMAIN q = 1..Len(q)
  BY LenProperties, EmptySeq
<1>1. /\ r \in Seq(Entry) /\ Len(r) = Len(q) - 1
      /\ \A i \in 1..(Len(q) - 1) : r[i] = q[i + 1]
  BY HeadTailProperties
<1>2. DOMAIN r = 1..(Len(q) - 1)
  BY <1>1, LenProperties
<1> HIDE DEF r
<1>3. 1 \in DOMAIN q /\ q[1] \in Entry
  BY <1>0, ElementOfSeq
<1>4. \A g, h \in DOMAIN q : q[g].ev = q[h].ev => g = h
  BY DEF Once
<1>5. \A j \in DOMAIN r : j + 1 \in DOMAIN q /\ j + 1 # 1 /\ r[j] = q[j + 1]
  BY <1>0, <1>1, <1>2
<1>6. \A j \in DOMAIN q : j # 1 => j - 1 \in DOMAIN r /\ r[j - 1] = q[j]
  <2> SUFFICES ASSUME NEW j \in DOMAIN q, j # 1
               PROVE  j - 1 \in DOMAIN r /\ r[j - 1] = q[j]
    OBVIOUS
  <2>1. j - 1 \in 1..(Len(q) - 1) /\ (j - 1) + 1 = j
    BY <1>0
  <2>. QED  BY <1>1, <1>2, <2>1
<1>7. Evs(r) = Evs(q) \ {q[1].ev}
  <2>1. \A j \in DOMAIN r : r[j].ev \in Evs(q) /\ r[j].ev # q[1].ev
    BY <1>3, <1>4, <1>5 DEF Evs
  <2>2. \A x \in Evs(q) : x # q[1].ev => x \in Evs(r)
    BY <1>6 DEF Evs
  <2>. QED  BY <2>1, <2>2 DEF Evs
<1>8. Once(r)
  <2> SUFFICES ASSUME NEW i \in DOMAIN r, NEW j \in DOMAIN r, r[i].ev = r[j].ev
               PROVE  i = j
    BY DEF Once
  <2>1. i \in Int /\ j \in Int
    BY <1>0, <1>2
  <2>2. i + 1 = j + 1
    BY <1>4, <1>5
  <2>. QED  BY <2>1, <2>2
<1>9. q[1].ev \in Evs(q)
  BY <1>3 DEF Evs
<1>. QED  BY <1>1, <1>3, <1>7, <1>8, <1>9 DEF r

-----------------------------------------------------------------------------
(* The steps. *)

(* What a call may rely on. *)
LEMMA Before ==
  ASSUME TInv, aborted = "no"
  PROVE  /\ queue \in Seq(Entry) /\ Once(queue)
         /\ uid \in [Timer -> Int] /\ uids \in Nat \ {0} /\ clock \in Nat
         /\ status \in [Timer -> {"IDLE", "PENDING", "HANDLING"}]
         /\ handling \in Timer \cup {None}
         /\ \A t \in Timer : status[t] = "PENDING" <=> uid[t] > 0
         /\ \A t \in Timer : status[t] = "PENDING" <=> t \in Evs(queue)
         /\ \A t \in Timer : status[t] = "HANDLING" => handling = t
BY DEF TInv, TypeOK, Consistent, Entry

(* A step that ends in an abort() other than the defensive ones and only   *)
(* shortens the list keeps the invariant.                                  *)
LEMMA AbortKeeps ==
  ASSUME TInv, aborted' \in {"sched", "cancel", "backwards"},
         queue' \in Seq(Entry),
         UNCHANGED <<uid, uids, clock, status, handling>>
  PROVE  TInv'
BY DEF TInv, TypeOK, Consistent, Entry, DefensiveAbortsUnreachable

(* Setting a timer whose event is not in the list q, which holds the       *)
(* events of the other pending timers.                                     *)
LEMMA ScheduleKeeps ==
  ASSUME TInv, aborted = "no", NEW t \in Timer, NEW delay \in Delay,
         NEW q \in Seq(Entry), Once(q), Evs(q) = Evs(queue) \ {t},
         schedule(q, t, delay, FALSE), UNCHANGED <<clock, handling>>
  PROVE  TInv'
<1> DEFINE e == [ev |-> t, time |-> clock + delay, uid |-> uids]
<1>1. e \in Entry /\ e.ev = t
  BY Before, TimerAssumption DEF Entry
<1>2. /\ queue' = insert(q, e)
      /\ uid' = [uid EXCEPT ![t] = uids] /\ uids' = uids + 1
      /\ status' = [status EXCEPT ![t] = "PENDING"] /\ aborted' = aborted
  BY DEF schedule
<1> HIDE DEF e
<1>3. /\ queue' \in Seq(Entry) /\ Once(queue')
      /\ Evs(queue') = Evs(queue) \cup {t}
  <2>1. e.ev \notin Evs(q)
    BY <1>1
  <2>2. /\ insert(q, e) \in Seq(Entry) /\ Once(insert(q, e))
        /\ Evs(insert(q, e)) = Evs(q) \cup {e.ev}
    BY <1>1, <2>1, InsertKeeps
  <2>3. (Evs(queue) \ {t}) \cup {t} = Evs(queue) \cup {t}
    OBVIOUS
  <2>. QED  BY <1>1, <1>2, <2>2, <2>3
<1>4. TypeOK'
  BY <1>2, <1>3, Before DEF TInv, TypeOK, Entry
<1>5. \A u \in Timer : /\ u # t => status'[u] = status[u] /\ uid'[u] = uid[u]
                       /\ u = t => status'[u] = "PENDING" /\ uid'[u] > 0
  BY <1>2, Before
<1>6. Consistent'
  <2>1. \A u \in Timer : status'[u] = "PENDING" <=> uid'[u] > 0
    BY <1>5, Before
  <2>2. \A u \in Timer : status'[u] = "PENDING" <=> u \in Evs(queue')
    BY <1>3, <1>5, Before
  <2>3. \A u \in Timer : status'[u] = "HANDLING" => handling' = u
    BY <1>5, Before
  <2>. QED  BY <1>3, <2>1, <2>2, <2>3 DEF Consistent
<1>7. DefensiveAbortsUnreachable'
  BY <1>2 DEF TInv, DefensiveAbortsUnreachable
<1>. QED  BY <1>4, <1>6, <1>7 DEF TInv

(* Taking a pending timer's event out of the list. *)
LEMMA PendingUnlinks ==
  ASSUME TInv, aborted = "no", NEW t \in Timer, status[t] = "PENDING"
  PROVE  /\ unlink(queue, t) \in Seq(Entry) /\ Once(unlink(queue, t))
         /\ Evs(unlink(queue, t)) = Evs(queue) \ {t}
         /\ ~ CancelFails(t)
<1>1. uid[t] \in Int /\ uid[t] > 0 /\ t \in Evs(queue)
  BY Before
<1>2. queue \in Seq(Entry) /\ Once(queue)
  BY Before
<1>. QED  BY <1>1, <1>2, UnlinkKeeps DEF CancelFails

LEMMA UnscheduledKeeps ==
  ASSUME TInv, aborted = "no", NEW t \in Timer, status[t] = "PENDING",
         Unscheduled(t), UNCHANGED <<clock, handling>>
  PROVE  TInv'
<1>1. /\ queue' = unlink(queue, t)
      /\ uid' = [uid EXCEPT ![t] = IF uid[t] > 0 THEN -uid[t] ELSE uid[t]]
      /\ status' = [status EXCEPT ![t] = "IDLE"]
      /\ uids' = uids /\ aborted' = aborted
  BY PendingUnlinks DEF Unscheduled
<1>2. /\ queue' \in Seq(Entry) /\ Once(queue') /\ Evs(queue') = Evs(queue) \ {t}
  BY <1>1, PendingUnlinks
<1>3. TypeOK'
  BY <1>1, <1>2, Before DEF TInv, TypeOK, Entry
<1>4. \A u \in Timer : /\ u # t => status'[u] = status[u] /\ uid'[u] = uid[u]
                       /\ u = t => status'[u] = "IDLE" /\ ~ (uid'[u] > 0)
  BY <1>1, Before
<1>5. Consistent'
  <2>1. \A u \in Timer : status'[u] = "PENDING" <=> uid'[u] > 0
    BY <1>4, Before
  <2>2. \A u \in Timer : status'[u] = "PENDING" <=> u \in Evs(queue')
    BY <1>2, <1>4, Before
  <2>3. \A u \in Timer : status'[u] = "HANDLING" => handling' = u
    BY <1>4, Before
  <2>. QED  BY <1>2, <2>1, <2>2, <2>3 DEF Consistent
<1>6. DefensiveAbortsUnreachable'
  BY <1>1 DEF TInv, DefensiveAbortsUnreachable
<1>. QED  BY <1>3, <1>5, <1>6 DEF TInv

(* A timer that is not pending may be set at once. *)
LEMMA SetIdleKeeps ==
  ASSUME TInv, aborted = "no", NEW t \in Timer, NEW delay \in Delay,
         status[t] # "PENDING", schedule(queue, t, delay, uid[t] > 0),
         UNCHANGED <<clock, handling>>
  PROVE  TInv'
<1>1. ~ (uid[t] > 0) /\ t \notin Evs(queue)
  BY Before
<1>2. schedule(queue, t, delay, FALSE)
  BY <1>1 DEF schedule
<1>3. Evs(queue) = Evs(queue) \ {t}
  BY <1>1
<1>4. queue \in Seq(Entry) /\ Once(queue)
  BY Before
<1>. QED  BY <1>2, <1>3, <1>4, ScheduleKeeps

LEMMA SchedKeeps ==
  ASSUME TInv, NEW t \in Timer, NEW delay \in Delay, Sched(t, delay)
  PROVE  TInv'
<1>1. aborted = "no" /\ UNCHANGED <<clock, handling>>
  BY DEF Sched, Call
<1>2. CASE status[t] # "IDLE"
  <2>1. aborted' = "sched" /\ UNCHANGED <<queue, uid, uids, status>>
    BY <1>2 DEF Sched
  <2>. QED  BY <1>1, <2>1, Before, AbortKeeps
<1>3. CASE status[t] = "IDLE"
  <2>1. schedule(queue, t, delay, uid[t] > 0)
    BY <1>3 DEF Sched
  <2>. QED  BY <1>1, <1>3, <2>1, SetIdleKeeps
<1>. QED  BY <1>2, <1>3

LEMMA ReschedKeeps ==
  ASSUME TInv, NEW t \in Timer, NEW delay \in Delay, Resched(t, delay)
  PROVE  TInv'
<1>1. aborted = "no" /\ UNCHANGED <<clock, handling>>
  BY DEF Resched, Call
<1>2. CASE status[t] = "PENDING"
  <2>1. schedule(unlink(queue, t), t, delay, FALSE)
    BY <1>1, <1>2, PendingUnlinks DEF Resched
  <2>. QED  BY <1>1, <1>2, <2>1, PendingUnlinks, ScheduleKeeps
<1>3. CASE status[t] # "PENDING"
  <2>1. schedule(queue, t, delay, uid[t] > 0)
    BY <1>3 DEF Resched
  <2>. QED  BY <1>1, <1>3, <2>1, SetIdleKeeps
<1>. QED  BY <1>2, <1>3

LEMMA CancelKeeps ==
  ASSUME TInv, NEW t \in Timer, Cancel(t) \/ ForceCancel(t)
  PROVE  TInv'
<1>1. aborted = "no" /\ UNCHANGED <<clock, handling>>
  BY DEF Cancel, ForceCancel, Call
<1>2. CASE status[t] = "PENDING"
  <2>1. Unscheduled(t)
    BY <1>2 DEF Cancel, ForceCancel
  <2>. QED  BY <1>1, <1>2, <2>1, UnscheduledKeeps
<1>3. CASE status[t] # "PENDING"
  <2>1. aborted' = "cancel" /\ UNCHANGED <<queue, uid, uids, status>>
    BY <1>3 DEF Cancel, ForceCancel
  <2>. QED  BY <1>1, <2>1, Before, AbortKeeps
<1>. QED  BY <1>2, <1>3

LEMMA DispatchKeeps ==
  ASSUME TInv, Dispatch
  PROVE  TInv'
<1> DEFINE t == queue[1].ev
<1>1. /\ aborted = "no" /\ handling = None /\ queue # << >>
      /\ queue' = Tail(queue) /\ uids' = uids
  BY DEF Dispatch
<1>2. /\ queue' \in Seq(Entry) /\ Once(queue') /\ Evs(queue') = Evs(queue) \ {t}
      /\ queue[1] \in Entry /\ t \in Evs(queue)
  BY <1>1, Before, TailKeeps
<1>3. t \in Timer /\ status[t] = "PENDING" /\ uid[t] > 0 /\ queue[1].time \in Int
  BY <1>1, <1>2, Before DEF Entry
<1>4. CASE queue[1].time < clock
  <2>1. aborted' = "backwards" /\ UNCHANGED <<uid, clock, status, handling>>
    BY <1>4 DEF Dispatch
  <2>. QED  BY <1>1, <1>2, <2>1, AbortKeeps
<1>5. CASE ~ (queue[1].time < clock)
  <2>1. /\ clock' = queue[1].time /\ uid' = [uid EXCEPT ![t] = -uid[t]]
        /\ status' = [status EXCEPT ![t] = "HANDLING"]
        /\ handling' = t /\ aborted' = aborted
    BY <1>3, <1>5 DEF Dispatch
  <2> HIDE DEF t
  <2>2. clock' \in Nat
    BY <1>1, <1>3, <1>5, <2>1, Before
  <2>3. TypeOK'
    BY <1>1, <1>2, <1>3, <2>1, <2>2, Before DEF TInv, TypeOK, Entry
  <2>4. \A u \in Timer : /\ u # t => status'[u] = status[u] /\ uid'[u] = uid[u]
                         /\ u = t => status'[u] = "HANDLING" /\ ~ (uid'[u] > 0)
    BY <1>1, <1>3, <2>1, Before
  <2>5. \A u \in Timer : status[u] # "HANDLING"
    BY <1>1, Before, TimerAssumption
  <2>6. Consistent'
    <3>1. \A u \in Timer : status'[u] = "PENDING" <=> uid'[u] > 0
      BY <1>1, <2>4, Before
    <3>2. \A u \in Timer : status'[u] = "PENDING" <=> u \in Evs(queue')
      BY <1>1, <1>2, <2>4, Before
    <3>3. \A u \in Timer : status'[u] = "HANDLING" => handling' = u
      BY <2>1, <2>4, <2>5
    <3>. QED  BY <1>2, <3>1, <3>2, <3>3 DEF Consistent
  <2>7. DefensiveAbortsUnreachable'
    BY <2>1 DEF TInv, DefensiveAbortsUnreachable
  <2>. QED  BY <2>3, <2>6, <2>7 DEF TInv
<1>. QED  BY <1>4, <1>5

LEMMA EndExpireKeeps ==
  ASSUME TInv, EndExpire
  PROVE  TInv'
<1> DEFINE h == handling
<1>1. /\ aborted = "no" /\ h \in Timer
      /\ status' = [status EXCEPT ![h] = IF status[h] = "HANDLING" THEN "IDLE"
                                         ELSE status[h]]
      /\ handling' = None
      /\ UNCHANGED <<queue, uid, uids, clock, aborted>>
  BY Before DEF EndExpire
<1> HIDE DEF h
<1>2. TypeOK'
  BY <1>1, Before DEF TInv, TypeOK, Entry
<1>3. \A u \in Timer : /\ status'[u] = "PENDING" <=> status[u] = "PENDING"
                       /\ status'[u] # "HANDLING"
  BY <1>1, Before DEF h
<1>4. Consistent'
  BY <1>1, <1>3, Before DEF Consistent
<1>5. DefensiveAbortsUnreachable'
  BY <1>1 DEF TInv, DefensiveAbortsUnreachable
<1>. QED  BY <1>2, <1>4, <1>5 DEF TInv

LEMMA OtherEventKeeps ==
  ASSUME TInv, OtherEvent
  PROVE  TInv'
BY DEF TInv, TypeOK, Consistent, DefensiveAbortsUnreachable, OtherEvent

(* The invariant is inductive. *)
LEMMA TimerInductive == Spec => []TInv
<1>1. Init => TInv
  <2> SUFFICES ASSUME Init PROVE TInv
    OBVIOUS
  <2>1. Evs(queue) = {} /\ Once(queue) /\ queue \in Seq(Entry)
    BY DEF Init, Evs, Once
  <2>2. TypeOK
    BY <2>1 DEF Init, TypeOK, Entry
  <2>3. Consistent
    BY <2>1 DEF Init, Consistent
  <2>. QED  BY <2>2, <2>3 DEF Init, TInv, DefensiveAbortsUnreachable
<1>2. TInv /\ [Next]_vars => TInv'
  <2> SUFFICES ASSUME TInv, [Next]_vars PROVE TInv'
    OBVIOUS
  <2>1. ASSUME NEW t \in Timer, NEW d \in Delay, Sched(t, d) PROVE TInv'
    BY <2>1, SchedKeeps
  <2>2. ASSUME NEW t \in Timer, NEW d \in Delay, Resched(t, d) PROVE TInv'
    BY <2>2, ReschedKeeps
  <2>3. ASSUME NEW t \in Timer, Cancel(t) \/ ForceCancel(t) PROVE TInv'
    BY <2>3, CancelKeeps
  <2>4. CASE Dispatch
    BY <2>4, DispatchKeeps
  <2>5. CASE EndExpire
    BY <2>5, EndExpireKeeps
  <2>6. CASE OtherEvent
    BY <2>6, OtherEventKeeps
  <2>7. CASE UNCHANGED vars
    BY <2>7 DEF vars, TInv, TypeOK, Consistent, DefensiveAbortsUnreachable
  <2>. QED  BY <2>1, <2>2, <2>3, <2>4, <2>5, <2>6, <2>7 DEF Next
<1>. QED  BY <1>1, <1>2, PTL DEF Spec

-----------------------------------------------------------------------------
(* Timers, events, clock and statuses have their types, whatever callers   *)
(* ask of TimerHandler and however often.                                  *)
THEOREM TimersTypeCorrect == Spec => []TypeOK
<1>1. TInv => TypeOK
  BY DEF TInv
<1>. QED  BY <1>1, TimerInductive, PTL

(* No order of calls on any number of timers, from their own expire() or   *)
(* others', reaches one of the abort()s that guard TimerHandler and the    *)
(* list against each other.                                                *)
THEOREM DefensiveAbortsAreDead == Spec => []DefensiveAbortsUnreachable
<1>1. TInv => DefensiveAbortsUnreachable
  BY DEF TInv
<1>. QED  BY <1>1, TimerInductive, PTL

(* status_ of a timer, the sign of its event's uid_ and the event list     *)
(* agree between any two calls, and no event is in the list twice.         *)
THEOREM StatusUidListAgree == Spec => []PendingIsQueued
<1>1. TInv => PendingIsQueued
  <2> SUFFICES ASSUME TInv, aborted = "no", NEW t \in Timer
               PROVE  /\ status[t] = "PENDING" <=> uid[t] > 0
                      /\ status[t] = "PENDING" <=> InList(queue, t) # {}
                      /\ Cardinality(InList(queue, t)) <= 1
                      /\ status[t] = "HANDLING" => handling = t
    BY DEF PendingIsQueued
  <2>1. t \in Evs(queue) <=> InList(queue, t) # {}
    BY DEF Evs, InList
  <2>2. \A i, j \in InList(queue, t) : i = j
    BY Before DEF Once, InList
  <2>3. Cardinality(InList(queue, t)) <= 1
    <3>1. CASE InList(queue, t) = {}
      BY <3>1, FS_EmptySet
    <3>2. CASE InList(queue, t) # {}
      <4>1. PICK i \in InList(queue, t) : TRUE
        BY <3>2
      <4>2. InList(queue, t) = {i}
        BY <2>2, <4>1
      <4>. QED  BY <4>2, FS_Singleton
    <3>. QED  BY <3>1, <3>2
  <2>. QED  BY <2>1, <2>3, Before
<1>. QED  BY <1>1, TimerInductive, PTL
-----------------------------------------------------------------------------
(* The list as a queue: its entries in order, and what the calls do to the *)
(* set of its entries.                                                     *)

Elems(q) == {q[i] : i \in DOMAIN q}

Earlier(a, b) == a.time < b.time \/ (a.time = b.time /\ a.uid < b.uid)

(* The list is sorted by time, entries of one time by uid. *)
InOrder(q) == \A i, j \in DOMAIN q : i < j => Earlier(q[i], q[j])

(* insert keeps the order if the new entry has the latest uid. *)
LEMMA InsertSorts ==
  ASSUME NEW q \in Seq(Entry), NEW e \in Entry, InOrder(q),
         \A i \in DOMAIN q : q[i].uid < e.uid
  PROVE  /\ InOrder(insert(q, e))
         /\ Elems(insert(q, e)) = Elems(q) \cup {e}
<1> DEFINE later == {i \in DOMAIN q : e.time < q[i].time}
           k == IF later = {} THEN Len(q) + 1 ELSE Min(later)
           r == InsertAt(q, k, e)
<1>0. Len(q) \in Nat /\ DOMAIN q = 1..Len(q)
  BY LenProperties
<1>1. /\ k \in 1..(Len(q) + 1)
      /\ \A j \in DOMAIN q : j < k => ~ (e.time < q[j].time)
      /\ k \in DOMAIN q => e.time < q[k].time
  <2>1. CASE later = {}
    BY <1>0, <2>1
  <2>2. CASE later # {}
    <3>1. later \subseteq Nat
      BY <1>0
    <3>2. Min(later) \in later /\ \A j \in later : Min(later) <= j
      BY <2>2, <3>1, MinNat
    <3>3. k = Min(later)
      BY <2>2
    <3> HIDE DEF k
    <3>4. k \in later /\ \A j \in later : k <= j
      BY <3>2, <3>3
    <3>5. \A j \in DOMAIN q : j < k => j \notin later
      BY <1>0, <3>4
    <3>. QED  BY <1>0, <3>4, <3>5
  <2>. QED  BY <2>1, <2>2
<1> HIDE DEF later, k
<1>2. /\ r \in Seq(Entry) /\ Len(r) = Len(q) + 1
      /\ \A j \in 1..(Len(q) + 1) :
           r[j] = IF j < k THEN q[j] ELSE IF j = k THEN e ELSE q[j - 1]
  BY <1>1, InsertAtProperties
<1>3. insert(q, e) = r
  BY DEF insert, later, k
<1> HIDE DEF r
<1>4. DOMAIN r = 1..(Len(q) + 1)
  BY <1>2, LenProperties
<1>5. \A j \in DOMAIN r :
        \/ j = k /\ r[j] = e
        \/ j < k /\ j \in DOMAIN q /\ r[j] = q[j]
        \/ j > k /\ j - 1 \in DOMAIN q /\ r[j] = q[j - 1]
  BY <1>0, <1>1, <1>2, <1>4
<1>6. \A j \in DOMAIN q : \E h \in DOMAIN r : r[h] = q[j]
  <2> SUFFICES ASSUME NEW j \in DOMAIN q PROVE \E h \in DOMAIN r : r[h] = q[j]
    OBVIOUS
  <2>1. CASE j < k
    BY <1>0, <1>2, <1>4, <2>1
  <2>2. CASE ~ (j < k)
    <3>1. j + 1 \in 1..(Len(q) + 1) /\ ~ (j + 1 < k) /\ j + 1 # k /\ (j + 1) - 1 = j
      BY <1>0, <1>1, <2>2
    <3>2. r[j + 1] = q[j]
      BY <1>2, <3>1
    <3>. QED  BY <1>4, <3>1, <3>2
  <2>. QED  BY <2>1, <2>2
<1>7. k \in DOMAIN r /\ r[k] = e
  BY <1>0, <1>1, <1>2, <1>4
<1>8. Elems(r) = Elems(q) \cup {e}
  BY <1>5, <1>6, <1>7 DEF Elems
<1>9. \A j \in DOMAIN q : q[j].time \in Int /\ q[j].uid \in Int
  <2>1. \A j \in DOMAIN q : q[j] \in Entry
    BY <1>0, ElementOfSeq
  <2>. QED  BY <2>1 DEF Entry
<1>10. e.time \in Int /\ e.uid \in Int
  BY DEF Entry
<1>11. \A j \in DOMAIN q : j < k => Earlier(q[j], e)
  BY <1>1, <1>9, <1>10 DEF Earlier
<1>12. \A j \in DOMAIN q : ~ (j < k) => Earlier(e, q[j])
  <2> SUFFICES ASSUME NEW j \in DOMAIN q, ~ (j < k) PROVE Earlier(e, q[j])
    OBVIOUS
  <2>1. k \in DOMAIN q /\ e.time < q[k].time
    BY <1>0, <1>1
  <2>2. j = k \/ Earlier(q[k], q[j])
    BY <1>0, <1>1, <2>1 DEF InOrder
  <2>. QED  BY <1>9, <1>10, <2>1, <2>2 DEF Earlier
<1>13. InOrder(r)
  <2> SUFFICES ASSUME NEW i \in DOMAIN r, NEW j \in DOMAIN r, i < j
               PROVE  Earlier(r[i], r[j])
    BY DEF InOrder
  <2>1. i \in Int /\ j \in Int /\ k \in Int
    BY <1>1, <1>4
  <2>2. CASE i = k
    <3>1. j > k /\ j - 1 \in DOMAIN q /\ r[j] = q[j - 1] /\ ~ (j - 1 < k) /\ r[i] = e
      BY <1>5, <1>7, <2>1, <2>2
    <3>. QED  BY <1>12, <3>1
  <2>3. CASE j = k
    <3>1. i < k /\ i \in DOMAIN q /\ r[i] = q[i] /\ r[j] = e
      BY <1>5, <1>7, <2>1, <2>3
    <3>. QED  BY <1>11, <3>1
  <2>4. CASE i # k /\ j # k
    <3>1. PICK g \in DOMAIN q : r[i] = q[g] /\ g = (IF i < k THEN i ELSE i - 1)
      BY <1>5, <2>1, <2>4
    <3>2. PICK h \in DOMAIN q : r[j] = q[h] /\ h = (IF j < k THEN j ELSE j - 1)
      BY <1>5, <2>1, <2>4
    <3>3. g < h
      BY <2>1, <2>4, <3>1, <3>2
    <3>. QED  BY <3>1, <3>2, <3>3 DEF InOrder
  <2>. QED  BY <2>2, <2>3, <2>4
<1>. QED  BY <1>3, <1>8, <1>13

(* unlink takes out the one entry of t. *)
LEMMA UnlinkSorts ==
  ASSUME NEW q \in Seq(Entry), NEW t \in Timer, Once(q), InOrder(q),
         uid[t] \in Int, uid[t] > 0, t \in Evs(q)
  PROVE  \E b \in Elems(q) : /\ b.ev = t
                             /\ InOrder(unlink(q, t))
                             /\ Elems(unlink(q, t)) = Elems(q) \ {b}
<1> DEFINE k == Min(InList(q, t))
           r == RemoveAt(q, k)
<1>0. Len(q) \in Nat /\ DOMAIN q = 1..Len(q)
  BY LenProperties
<1>1. InList(q, t) # {} /\ InList(q, t) \subseteq Nat
  BY <1>0 DEF Evs, InList
<1>2. k \in InList(q, t)
  BY <1>1, MinNat
<1>3. k \in 1..Len(q) /\ q[k].ev = t
  BY <1>0, <1>2 DEF InList
<1> HIDE DEF k
<1>4. /\ r \in Seq(Entry) /\ Len(r) = Len(q) - 1
      /\ \A j \in 1..(Len(q) - 1) : r[j] = IF j < k THEN q[j] ELSE q[j + 1]
  BY <1>3, RemoveAtProperties
<1>5. unlink(q, t) = r
  <2>1. ~ (uid[t] <= 0 \/ InList(q, t) = {})
    BY <1>1
  <2>. QED  BY <2>1 DEF unlink, k
<1> HIDE DEF r
<1>6. DOMAIN r = 1..(Len(q) - 1)
  BY <1>4, LenProperties
<1>7. \A j \in DOMAIN r :
        LET h == IF j < k THEN j ELSE j + 1
        IN  h \in DOMAIN q /\ h # k /\ r[j] = q[h]
  BY <1>0, <1>3, <1>4, <1>6
<1>8. \A j \in DOMAIN q : j # k => \E h \in DOMAIN r : r[h] = q[j]
  <2> SUFFICES ASSUME NEW j \in DOMAIN q, j # k PROVE \E h \in DOMAIN r : r[h] = q[j]
    OBVIOUS
  <2>1. CASE j < k
    BY <1>0, <1>3, <1>4, <1>6, <2>1
  <2>2. CASE ~ (j < k)
    <3>1. j - 1 \in 1..(Len(q) - 1) /\ ~ (j - 1 < k) /\ (j - 1) + 1 = j
      BY <1>0, <1>3, <2>2
    <3>2. r[j - 1] = q[j]
      BY <1>4, <3>1
    <3>. QED  BY <1>6, <3>1, <3>2
  <2>. QED  BY <2>1, <2>2
<1>9. k \in DOMAIN q /\ \A j \in DOMAIN q : j # k => q[j] # q[k]
  BY <1>0, <1>3 DEF Once
<1>10. Elems(r) = Elems(q) \ {q[k]}
  <2>1. \A j \in DOMAIN r : r[j] \in Elems(q) /\ r[j] # q[k]
    BY <1>7, <1>9 DEF Elems
  <2>2. \A x \in Elems(q) : x # q[k] => x \in Elems(r)
    BY <1>8 DEF Elems
  <2>. QED  BY <2>1, <2>2 DEF Elems
<1>11. InOrder(r)
  <2> SUFFICES ASSUME NEW i \in DOMAIN r, NEW j \in DOMAIN r, i < j
               PROVE  Earlier(r[i], r[j])
    BY DEF InOrder
  <2> DEFINE g == IF i < k THEN i ELSE i + 1
             h == IF j < k THEN j ELSE j + 1
  <2>1. g \in DOMAIN q /\ h \in DOMAIN q /\ r[i] = q[g] /\ r[j] = q[h]
    BY <1>7
  <2>2. g < h
    BY <1>0, <1>3, <1>6
  <2>. QED  BY <2>1, <2>2 DEF InOrder
<1>12. q[k] \in Elems(q) /\ q[k].ev = t
  BY <1>3, <1>9 DEF Elems
<1>. QED  BY <1>5, <1>10, <1>11, <1>12

(* deque takes out the first entry, and no other is earlier. *)
LEMMA TailSorts ==
  ASSUME NEW q \in Seq(Entry), q # << >>, Once(q), InOrder(q)
  PROVE  /\ InOrder(Tail(q))
         /\ q[1] \in Elems(q) /\ Elems(Tail(q)) = Elems(q) \ {q[1]}
         /\ \A b \in Elems(q) : b = q[1] \/ Earlier(q[1], b)
<1> DEFINE r == Tail(q)
<1>0. Len(q) \in Nat /\ Len(q) # 0 /\ DOMAIN q = 1..Len(q)
  BY LenProperties, EmptySeq
<1>1. /\ r \in Seq(Entry) /\ Len(r) = Len(q) - 1
      /\ \A i \in 1..(Len(q) - 1) : r[i] = q[i + 1]
  BY HeadTailProperties
<1>2. DOMAIN r = 1..(Len(q) - 1)
  BY <1>1, LenProperties
<1> HIDE DEF r
<1>3. 1 \in DOMAIN q /\ \A j \in DOMAIN q : j # 1 => 1 < j
  BY <1>0
<1>4. \A j \in DOMAIN q : j # 1 => q[j] # q[1]
  BY <1>3 DEF Once
<1>5. \A j \in DOMAIN r : j + 1 \in DOMAIN q /\ j + 1 # 1 /\ r[j] = q[j + 1]
  BY <1>0, <1>1, <1>2
<1>6. \A j \in DOMAIN q : j # 1 => j - 1 \in DOMAIN r /\ r[j - 1] = q[j]
  <2> SUFFICES ASSUME NEW j \in DOMAIN q, j # 1
               PROVE  j - 1 \in DOMAIN r /\ r[j - 1] = q[j]
    OBVIOUS
  <2>1. j - 1 \in 1..(Len(q) - 1) /\ (j - 1) + 1 = j
    BY <1>0
  <2>. QED  BY <1>1, <1>2, <2>1
<1>7. Elems(r) = Elems(q) \ {q[1]}
  <2>1. \A j \in DOMAIN r : r[j] \in Elems(q) /\ r[j] # q[1]
    BY <1>4, <1>5 DEF Elems
  <2>2. \A x \in Elems(q) : x # q[1] => x \in Elems(r)
    BY <1>6 DEF Elems
  <2>. QED  BY <2>1, <2>2 DEF Elems
<1>8. InOrder(r)
  <2> SUFFICES ASSUME NEW i \in DOMAIN r, NEW j \in DOMAIN r, i < j
               PROVE  Earlier(r[i], r[j])
    BY DEF InOrder
  <2>1. i + 1 < j + 1
    BY <1>0, <1>2
  <2>. QED  BY <1>5, <2>1 DEF InOrder
<1>9. \A b \in Elems(q) : b = q[1] \/ Earlier(q[1], b)
  BY <1>3 DEF Elems, InOrder
<1>10. q[1] \in Elems(q)
  BY <1>3 DEF Elems
<1>. QED  BY <1>7, <1>8, <1>9, <1>10 DEF r

-----------------------------------------------------------------------------
(* The refinement. *)

(* The list is in order, and no uid in it is yet to be given out. *)
QInv == InOrder(queue) /\ \A b \in Elems(queue) : b.uid < uids

(* A step of the queue that EventQueue describes, or none. *)
QStep == QInv' /\ [EQ!Next]_(EQ!vars)

LEMMA EntryElems ==
  ASSUME NEW q \in Seq(Entry)
  PROVE  \A b \in Elems(q) : b \in Entry /\ b.ev \in Evs(q)
<1>1. DOMAIN q = 1..Len(q)
  BY LenProperties
<1>. QED  BY <1>1, ElementOfSeq DEF Elems, Evs

(* A step that leaves list, uids and clock alone is no step of the queue. *)
LEMMA QStutter ==
  ASSUME QInv, UNCHANGED <<queue, uids, clock>>
  PROVE  QStep
BY DEF QInv, QStep, InOrder, Elems, EQ!vars

(* schedule on a list q of entries that are all older. *)
LEMMA ScheduleSorts ==
  ASSUME TInv, aborted = "no", NEW t \in Timer, NEW delay \in Delay,
         NEW q \in Seq(Entry), InOrder(q), \A b \in Elems(q) : b.uid < uids,
         schedule(q, t, delay, FALSE)
  PROVE  /\ QInv'
         /\ Elems(queue') =
              Elems(q) \cup {[ev |-> t, time |-> clock + delay, uid |-> uids]}
<1> DEFINE e == [ev |-> t, time |-> clock + delay, uid |-> uids]
<1>1. e \in Entry /\ e.uid = uids
  BY Before, TimerAssumption DEF Entry
<1>2. queue' = insert(q, e) /\ uids' = uids + 1
  BY DEF schedule
<1> HIDE DEF e
<1>3. \A i \in DOMAIN q : q[i].uid < e.uid
  BY <1>1 DEF Elems
<1>4. InOrder(queue') /\ Elems(queue') = Elems(q) \cup {e}
  BY <1>1, <1>2, <1>3, InsertSorts
<1>5. \A b \in Elems(q) : b.uid \in Nat
  BY EntryElems DEF Entry
<1>6. uids \in Nat
  BY Before
<1>7. \A b \in Elems(queue') : b.uid < uids'
  BY <1>1, <1>2, <1>4, <1>5, <1>6
<1>. QED  BY <1>4, <1>7 DEF QInv, e

(* Setting a timer that is not pending is Schedule. *)
LEMMA SetIdleRefines ==
  ASSUME TInv, QInv, aborted = "no", NEW t \in Timer, NEW delay \in Delay,
         status[t] # "PENDING", schedule(queue, t, delay, uid[t] > 0),
         UNCHANGED <<clock, handling>>
  PROVE  QStep
<1>0. PICK e : e = [ev |-> t, time |-> clock + delay, uid |-> uids]
  OBVIOUS
<1>1. ~ (uid[t] > 0) /\ t \notin Evs(queue) /\ queue \in Seq(Entry)
  BY Before
<1>2. schedule(queue, t, delay, FALSE)
  BY <1>1 DEF schedule
<1>3. QInv' /\ Elems(queue') = Elems(queue) \cup {e}
  BY <1>0, <1>1, <1>2, ScheduleSorts DEF QInv
<1>4. \A b \in Elems(queue) : b.ev # t
  BY <1>1, EntryElems
<1>5. e.ev = t /\ e.time = clock + delay /\ e.uid = uids
  BY <1>0
<1>6. EQ!Schedule(t, e.time, e.uid)
  BY <1>0, <1>3, <1>4, <1>5 DEF EQ!Schedule, EQ!Absent, EQ!Newest, QInv, Elems
<1>7. e \in EQ!New(t)
  BY <1>3, <1>5 DEF EQ!New, Elems
<1>8. EQ!Next
  BY <1>6, <1>7, Zenon DEF EQ!Next
<1>. QED  BY <1>3, <1>8 DEF QStep

(* Taking a pending timer's event out of the list. *)
LEMMA PendingUnlinksSorted ==
  ASSUME TInv, QInv, aborted = "no", NEW t \in Timer, status[t] = "PENDING"
  PROVE  \E b \in Elems(queue) : /\ b.ev = t
                                 /\ InOrder(unlink(queue, t))
                                 /\ Elems(unlink(queue, t)) = Elems(queue) \ {b}
<1>1. uid[t] \in Int /\ uid[t] > 0 /\ t \in Evs(queue)
  BY Before
<1>2. queue \in Seq(Entry) /\ Once(queue) /\ InOrder(queue)
  BY Before DEF QInv
<1>. QED  BY <1>1, <1>2, UnlinkSorts

(* Setting a pending timer anew is Move. *)
LEMMA SetPendingRefines ==
  ASSUME TInv, QInv, aborted = "no", NEW t \in Timer, NEW delay \in Delay,
         status[t] = "PENDING", schedule(unlink(queue, t), t, delay, FALSE),
         UNCHANGED <<clock, handling>>
  PROVE  QStep
<1> DEFINE q == unlink(queue, t)
<1>0. PICK e : e = [ev |-> t, time |-> clock + delay, uid |-> uids]
  OBVIOUS
<1>1. PICK b \in Elems(queue) : b.ev = t /\ InOrder(q) /\ Elems(q) = Elems(queue) \ {b}
  BY PendingUnlinksSorted
<1>2. q \in Seq(Entry)
  BY PendingUnlinks
<1> HIDE DEF q
<1>3. QInv' /\ Elems(queue') = (Elems(queue) \ {b}) \cup {e}
  BY <1>0, <1>1, <1>2, ScheduleSorts DEF QInv, q
<1>4. e.ev = t /\ e.time = clock + delay /\ e.uid = uids /\ e.ev = b.ev
  BY <1>0, <1>1
<1>5. EQ!Move(b, e.time, e.uid)
  BY <1>0, <1>1, <1>3, <1>4 DEF EQ!Move, EQ!Newest, QInv, Elems
<1>6. e \in EQ!New(b.ev)
  BY <1>3, <1>4 DEF EQ!New, Elems
<1>7. b \in {queue[i] : i \in DOMAIN queue}
  BY <1>1 DEF Elems
<1>8. EQ!Next
  BY <1>5, <1>6, <1>7, Zenon DEF EQ!Next
<1>. QED  BY <1>3, <1>8 DEF QStep

(* Cancelling is Cancel. *)
LEMMA UnscheduledRefines ==
  ASSUME TInv, QInv, aborted = "no", NEW t \in Timer, status[t] = "PENDING",
         Unscheduled(t), UNCHANGED <<clock, handling>>
  PROVE  QStep
<1>1. queue' = unlink(queue, t) /\ uids' = uids
  BY PendingUnlinks DEF Unscheduled
<1>2. PICK b \in Elems(queue) : InOrder(queue') /\ Elems(queue') = Elems(queue) \ {b}
  BY <1>1, PendingUnlinksSorted
<1>3. QInv'
  BY <1>1, <1>2 DEF QInv
<1>4. EQ!Cancel(b)
  BY <1>2 DEF EQ!Cancel, Elems
<1>5. b \in {queue[i] : i \in DOMAIN queue}
  BY <1>2 DEF Elems
<1>. QED  BY <1>3, <1>4, <1>5 DEF QStep, EQ!Next

LEMMA SchedRefines ==
  ASSUME TInv, QInv, NEW t \in Timer, NEW delay \in Delay,
         Sched(t, delay) \/ Resched(t, delay)
  PROVE  QStep
<1>1. aborted = "no" /\ UNCHANGED <<clock, handling>>
  BY DEF Sched, Resched, Call
<1>2. CASE Sched(t, delay) /\ status[t] # "IDLE"
  <2>1. UNCHANGED <<queue, uids>>
    BY <1>2 DEF Sched
  <2>. QED  BY <1>1, <2>1, QStutter
<1>3. CASE Sched(t, delay) /\ status[t] = "IDLE"
  <2>1. schedule(queue, t, delay, uid[t] > 0)
    BY <1>3 DEF Sched
  <2>. QED  BY <1>1, <1>3, <2>1, SetIdleRefines
<1>4. CASE Resched(t, delay) /\ status[t] = "PENDING"
  <2>1. schedule(unlink(queue, t), t, delay, FALSE)
    BY <1>1, <1>4, PendingUnlinks DEF Resched
  <2>. QED  BY <1>1, <1>4, <2>1, SetPendingRefines
<1>5. CASE Resched(t, delay) /\ status[t] # "PENDING"
  <2>1. schedule(queue, t, delay, uid[t] > 0)
    BY <1>5 DEF Resched
  <2>. QED  BY <1>1, <1>5, <2>1, SetIdleRefines
<1>. QED  BY <1>2, <1>3, <1>4, <1>5

LEMMA CancelRefines ==
  ASSUME TInv, QInv, NEW t \in Timer, Cancel(t) \/ ForceCancel(t)
  PROVE  QStep
<1>1. aborted = "no" /\ UNCHANGED <<clock, handling>>
  BY DEF Cancel, ForceCancel, Call
<1>2. CASE status[t] = "PENDING"
  <2>1. Unscheduled(t)
    BY <1>2 DEF Cancel, ForceCancel
  <2>. QED  BY <1>1, <1>2, <2>1, UnscheduledRefines
<1>3. CASE status[t] # "PENDING"
  <2>1. UNCHANGED <<queue, uids>>
    BY <1>3 DEF Cancel, ForceCancel
  <2>. QED  BY <1>1, <2>1, QStutter
<1>. QED  BY <1>2, <1>3

(* Dispatching is Dispatch, or Fail when the event's time has passed. *)
LEMMA DispatchRefines ==
  ASSUME TInv, QInv, Dispatch
  PROVE  QStep
<1>0. PICK b : b = queue[1]
  OBVIOUS
<1>1. /\ aborted = "no" /\ queue # << >> /\ queue' = Tail(queue) /\ uids' = uids
  BY DEF Dispatch
<1>2. queue \in Seq(Entry) /\ Once(queue) /\ InOrder(queue)
  BY <1>1, Before DEF QInv
<1>3. /\ InOrder(queue') /\ b \in Elems(queue) /\ Elems(queue') = Elems(queue) \ {b}
      /\ \A c \in Elems(queue) : c = b \/ Earlier(b, c)
  BY <1>0, <1>1, <1>2, TailSorts
<1>4. QInv'
  BY <1>1, <1>3 DEF QInv
<1>5. b \in {queue[i] : i \in DOMAIN queue}
  BY <1>3 DEF Elems
<1>6. CASE b.time < clock
  <2>1. clock' = clock
    BY <1>0, <1>6 DEF Dispatch
  <2>2. EQ!Fail(b)
    BY <1>3, <1>6, <2>1 DEF EQ!Fail, Elems
  <2>3. EQ!Next
    BY <1>5, <2>2, Zenon DEF EQ!Next
  <2>. QED  BY <1>4, <2>3 DEF QStep
<1>7. CASE ~ (b.time < clock)
  <2>1. clock' = b.time
    BY <1>0, <1>7 DEF Dispatch
  <2>2. b.time \in Int /\ clock \in Int
    <3>1. b \in Entry
      BY <1>2, <1>3, EntryElems
    <3>. QED  BY <1>1, <3>1, Before DEF Entry
  <2>3. b.time >= clock
    BY <1>7, <2>2
  <2>4. EQ!Dispatch(b)
    BY <1>3, <2>1, <2>3 DEF EQ!Dispatch, EQ!Before, Elems, Earlier
  <2>5. EQ!Next
    BY <1>5, <2>4, Zenon DEF EQ!Next
  <2>. QED  BY <1>4, <2>5 DEF QStep
<1>. QED  BY <1>6, <1>7

(* Another event is dispatched: Advance, since the first entry is the      *)
(* earliest.                                                               *)
LEMMA OtherEventRefines ==
  ASSUME TInv, QInv, OtherEvent
  PROVE  QStep
<1>1. /\ aborted = "no" /\ clock' = clock + 1 /\ queue' = queue /\ uids' = uids
      /\ queue # << >> => clock + 1 <= queue[1].time
  BY DEF OtherEvent
<1>2. queue \in Seq(Entry) /\ Once(queue) /\ InOrder(queue) /\ clock \in Nat
  BY <1>1, Before DEF QInv
<1>3. \A b \in Elems(queue) : b.time >= clock + 1
  <2> SUFFICES ASSUME NEW b \in Elems(queue) PROVE b.time >= clock + 1
    OBVIOUS
  <2>1. queue # << >>
    BY <1>2 DEF Elems
  <2>2. queue[1] \in Elems(queue) /\ (b = queue[1] \/ Earlier(queue[1], b))
    BY <1>2, <2>1, TailSorts
  <2>3. b.time \in Int /\ queue[1].time \in Int
    BY <1>2, <2>2, EntryElems DEF Entry
  <2>. QED  BY <1>1, <1>2, <2>1, <2>2, <2>3 DEF Earlier
<1>4. EQ!Advance
  BY <1>1, <1>2, <1>3 DEF EQ!Advance, Elems
<1>5. QInv'
  BY <1>1 DEF QInv
<1>. QED  BY <1>4, <1>5 DEF QStep, EQ!Next

(* The event list of the simulator is the queue that EventQueue promises   *)
(* the objects that use it: whoever sets, resets and cancels which timers, *)
(* they expire in the order of their times, then of the calls that set     *)
(* them, never after being cancelled, and the clock does not go back.      *)
THEOREM ListImplementsEventQueue == Spec => EventQueueSpec
<1>1. Init => QInv /\ EQ!Init
  <2> SUFFICES ASSUME Init PROVE QInv /\ EQ!Init
    OBVIOUS
  <2>1. queue = << >> /\ clock = 0
    BY DEF Init
  <2>2. DOMAIN queue = {}
    BY <2>1
  <2>. QED  BY <2>1, <2>2 DEF QInv, InOrder, Elems, EQ!Init
<1>2. TInv /\ QInv /\ [Next]_vars => QStep
  <2> SUFFICES ASSUME TInv, QInv, [Next]_vars PROVE QStep
    OBVIOUS
  <2>1. ASSUME NEW t \in Timer, NEW d \in Delay, Sched(t, d) \/ Resched(t, d)
        PROVE  QStep
    BY <2>1, SchedRefines
  <2>2. ASSUME NEW t \in Timer, Cancel(t) \/ ForceCancel(t) PROVE QStep
    BY <2>2, CancelRefines
  <2>3. CASE Dispatch
    BY <2>3, DispatchRefines
  <2>4. CASE EndExpire
    BY <2>4, QStutter DEF EndExpire
  <2>5. CASE OtherEvent
    BY <2>5, OtherEventRefines
  <2>6. CASE UNCHANGED vars
    BY <2>6, QStutter DEF vars
  <2>. QED  BY <2>1, <2>2, <2>3, <2>4, <2>5, <2>6 DEF Next
<1>. QED  BY <1>1, <1>2, TimerInductive, PTL DEF Spec, QStep, EventQueueSpec, EQ!Spec
===============================================================================
