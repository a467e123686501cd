----------------------------- MODULE CalendarQueue -----------------------------
(***************************************************************************)
(* The calendar queue of CalendarScheduler (src/common/scheduler.cc), the  *)
(* scheduler ns-2 uses unless told otherwise.  Events are hashed by time   *)
(* into the days (buckets_) of a year; deque searches the year from the    *)
(* day of the last event on.                                               *)
(*                                                                         *)
(* A bucket's circular list is a sequence, head first; bucket numbers      *)
(* start at 0.  Which width a resize chooses, and when deque resizes for   *)
(* the width alone, depends on statistics of gaps and search lengths: here *)
(* it may choose any of Width at any time.  So insert and deque give sets  *)
(* of results.                                                             *)
(***************************************************************************)
EXTENDS Integers, Sequences, FiniteSetsExt, SequencesExt

CONSTANT Width  \* the widths of a day that newwidth and resize may come to

(* CALENDAR_HASH *)
Hash(t, width, nbuckets) == (t \div width) % nbuckets

(* reinit *)
reinit(nbuck, bwidth, start) ==
  [buckets    |-> [i \in 0..(nbuck - 1) |-> << >>],
   count      |-> [i \in 0..(nbuck - 1) |-> 0],
   nbuckets   |-> nbuck,
   width      |-> bwidth,
   qsize      |-> 0,
   stat_qsize |-> 0,
   lastbucket |-> Hash(start, bwidth, nbuck),
   cal_clock  |-> start]

Empty == reinit(4, 1, 0)

bot_threshold(c) == c.nbuckets \div 2 - 2
top_threshold(c) == c.nbuckets * 2

BucketOf(c, t) == Hash(t, c.width, c.nbuckets)

(* The list of bucket i becomes b, with one more distinct time if unique.  *)
Linked(c, i, b, unique) ==
  [c EXCEPT !.buckets[i] = b, !.qsize = @ + 1,
            !.count[i] = IF unique THEN @ + 1 ELSE @,
            !.stat_qsize = IF unique THEN @ + 1 ELSE @]

(* Variant: insert2 puts e behind the events of its time. *)
insert2_behind(c, e) ==
  LET i == BucketOf(c, e.time)
      b == c.buckets[i]
      k == Cardinality({j \in DOMAIN b : b[j].time <= e.time}) + 1
  IN  Linked(c, i, InsertAt(b, k, e), \A j \in DOMAIN b : b[j].time # e.time)

(* insert2: before the events of the same time. *)
insert2(c, e) ==
  LET i == BucketOf(c, e.time)
      b == c.buckets[i]
      notEarlier == {j \in DOMAIN b : e.time <= b[j].time}
      k == IF notEarlier = {} THEN Len(b) + 1 ELSE Min(notEarlier)
      next == IF k > Len(b) THEN b[1] ELSE b[k]
  IN  Linked(c, i, InsertAt(b, k, e), b = << >> \/ next.time # e.time)

(* The order in which resize empties the buckets: each from its tail. *)
Unpacked(c) ==
  FlattenSeq([i \in 1..c.nbuckets |-> Reverse(c.buckets[i - 1])])

(* resize to newsize buckets, at least 4. *)
resize(c, newsize) ==
  {FoldLeft(insert2, reinit(Max({newsize, 4}), w, c.cal_clock), Unpacked(c)) :
     w \in Width}

(* insert's first step: an event before cal_clock_ takes the search back. *)
Rewound(c, time) ==
  IF c.cal_clock > time
  THEN [c EXCEPT !.cal_clock = time, !.lastbucket = BucketOf(c, time)] ELSE c

(* insert: behind the events of the same time; then the year may double. *)
insert(c, e) ==
  LET r == Rewound(c, e.time)
      i == BucketOf(r, e.time)
      b == r.buckets[i]
      k == Max({0} \cup {j \in DOMAIN b : b[j].time <= e.time})
      n == Linked(r, i, InsertAt(b, k + 1, e), k = 0 \/ b[k].time < e.time)
  IN  IF n.stat_qsize > top_threshold(n) THEN resize(n, 2 * n.nbuckets) ELSE {n}

(* The k-th bucket of head's search, and how far ahead of cal_clock_ an    *)
(* event may be to be of this year: diff0_, diff1_, diff2_.  The last      *)
(* bucket is not looked at in this way.                                    *)
Searched(c, k) == (c.lastbucket + k) % c.nbuckets
diff(c, k) ==
  CASE k = 0 -> (c.width * c.nbuckets) \div 2
    [] k = 1 -> (c.width * c.nbuckets) \div 2 + c.width
    [] OTHER -> c.width * c.nbuckets

ThisYear(c, k) ==
  LET b == c.buckets[Searched(c, k)]
  IN  b # << >> /\ b[1].time - c.cal_clock < diff(c, k)

(* head: the bucket of the next event, the first one found of this year    *)
(* or else that of the earliest event; the search moves there.             *)
HeadBucket(c) ==
  LET found == {k \in 0..(c.nbuckets - 2) : ThisYear(c, k)}
  IN  IF found # {} THEN Searched(c, Min(found))
      ELSE CHOOSE i \in DOMAIN c.buckets :
             /\ c.buckets[i] # << >>
             /\ \A j \in DOMAIN c.buckets :
                  c.buckets[j] # << >> => c.buckets[i][1].time <= c.buckets[j][1].time

head(c) ==
  LET l == HeadBucket(c)
  IN  [c EXCEPT !.lastbucket = l, !.cal_clock = c.buckets[l][1].time]

(* The list of bucket i becomes b, with one distinct time less if unique.  *)
Unlinked(c, i, b, unique) ==
  [c EXCEPT !.buckets[i] = b, !.qsize = @ - 1,
            !.count[i] = IF unique THEN @ - 1 ELSE @,
            !.stat_qsize = IF unique THEN @ - 1 ELSE @]

(* deque's unlinking of the head of lastbucket_; then the year may halve. *)
Shrunk(c) ==
  LET b == c.buckets[c.lastbucket]
      n == Unlinked(c, c.lastbucket, Tail(b), Len(b) = 1 \/ b[2].time # b[1].time)
  IN  IF n.stat_qsize < bot_threshold(n) THEN resize(n, n.nbuckets \div 2) ELSE {n}

(* deque: the event and the calendars that may be left. *)
deque(c) ==
  LET h == head(c)
  IN  [ev    |-> h.buckets[h.lastbucket][1],
       after |-> UNION {Shrunk(d) : d \in {h} \cup resize(h, h.nbuckets)}]

Place(c, e) == {k \in DOMAIN c.buckets[BucketOf(c, e.time)] :
                  c.buckets[BucketOf(c, e.time)][k] = e}

(* Variant: cancel looks at the next event only, as deque does. *)
cancel_next_only(c, e) ==
  LET i == BucketOf(c, e.time)
      b == c.buckets[i]
      k == CHOOSE k \in Place(c, e) : TRUE
      next == b[(k % Len(b)) + 1]
  IN  Unlinked(c, i, RemoveAt(b, k), Len(b) = 1 \/ next.time # e.time)

(* cancel of an event that is in the queue.  Its neighbours in the ring    *)
(* tell whether it was the only one of its time.                           *)
cancel(c, e) ==
  LET i == BucketOf(c, e.time)
      b == c.buckets[i]
      k == CHOOSE k \in Place(c, e) : TRUE
      next == b[(k % Len(b)) + 1]
      prev == b[IF k = 1 THEN Len(b) ELSE k - 1]
  IN  Unlinked(c, i, RemoveAt(b, k),
               Len(b) = 1 \/ (next.time # e.time /\ prev.time # e.time))

Members(c) == UNION {Range(c.buckets[i]) : i \in DOMAIN c.buckets}
===============================================================================
