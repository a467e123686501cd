------------------------------- MODULE SplayTree -------------------------------
(***************************************************************************)
(* The splay tree of SplayScheduler (src/common/splay-scheduler.cc).  A    *)
(* tree is Leaf or <<event, left, right>>; the loops that move pointers    *)
(* down the tree are recursions that build the tree they leave behind.     *)
(***************************************************************************)
EXTENDS Integers, Sequences

Leaf == << >>
Ev(t) == t[1]
LEFT(t) == t[2]
RIGHT(t) == t[3]

(* insert's loop: the events up to the given time, and those after it.     *)
(* Two steps in one direction rotate the tree.                             *)
RECURSIVE Split(_, _)
Split(t, time) ==
  IF t = Leaf THEN <<Leaf, Leaf>>
  ELSE IF time < Ev(t).time
  THEN LET x == LEFT(t)
       IN  IF x = Leaf THEN <<Leaf, t>>
           ELSE IF time < Ev(x).time
           THEN LET s == Split(LEFT(x), time)
                IN  <<s[1], <<Ev(x), s[2], <<Ev(t), RIGHT(x), RIGHT(t)>> >> >>
           ELSE LET s == Split(x, time)
                IN  <<s[1], <<Ev(t), s[2], RIGHT(t)>> >>
  ELSE LET x == RIGHT(t)
       IN  IF x = Leaf THEN <<t, Leaf>>
           ELSE IF time >= Ev(x).time
           THEN LET s == Split(RIGHT(x), time)
                IN  << <<Ev(x), <<Ev(t), LEFT(t), LEFT(x)>>, s[1]>>, s[2]>>
           ELSE LET s == Split(x, time)
                IN  << <<Ev(t), LEFT(t), s[1]>>, s[2]>>

insert(t, e) == LET s == Split(t, e.time) IN <<e, s[1], s[2]>>

(* deque below the root t, whose left child exists: the event and the tree *)
(* without it.  Every second node of the left spine is rotated.            *)
RECURSIVE Unspine(_)
Unspine(t) ==
  LET l == LEFT(t)
      ll == LEFT(l)
  IN  IF ll = Leaf
      THEN <<Ev(l), <<Ev(t), RIGHT(l), RIGHT(t)>> >>
      ELSE IF LEFT(ll) = Leaf
      THEN <<Ev(ll), <<Ev(t), <<Ev(l), RIGHT(ll), RIGHT(l)>>, RIGHT(t)>> >>
      ELSE LET u == Unspine(<<Ev(ll), LEFT(ll), <<Ev(l), RIGHT(ll), RIGHT(l)>> >>)
           IN  <<u[1], <<Ev(t), u[2], RIGHT(t)>> >>

deque(t) == IF LEFT(t) = Leaf THEN <<Ev(t), RIGHT(t)>> ELSE Unspine(t)

RECURSIVE Leftmost(_)
Leftmost(t) == IF LEFT(t) = Leaf THEN Ev(t) ELSE Leftmost(LEFT(t))

RECURSIVE WithoutLeftmost(_)
WithoutLeftmost(t) ==
  IF LEFT(t) = Leaf THEN RIGHT(t)
  ELSE <<Ev(t), WithoutLeftmost(LEFT(t)), RIGHT(t)>>

(* What cancel puts in the place of a node: the only child, or the         *)
(* successor over both.                                                    *)
Replacement(t) ==
  IF RIGHT(t) = Leaf THEN LEFT(t)
  ELSE IF LEFT(t) = Leaf THEN RIGHT(t)
  ELSE <<Leftmost(RIGHT(t)), LEFT(t), WithoutLeftmost(RIGHT(t))>>

(* Variant: events of one time are not told apart by uid. *)
GoesRight_time_only(e, t) == e.time > Ev(t).time

(* The direction in which cancel looks for e below t. *)
GoesRight(e, t) ==
  e.time > Ev(t).time \/ (e.time = Ev(t).time /\ e.uid > Ev(t).uid)

RECURSIVE Finds(_, _)
Finds(t, e) ==
  t # Leaf /\ (Ev(t) = e \/ Finds(IF GoesRight(e, t) THEN RIGHT(t) ELSE LEFT(t), e))

RECURSIVE cancel(_, _)
cancel(t, e) ==
  IF Ev(t) = e THEN Replacement(t)
  ELSE IF GoesRight(e, t) THEN <<Ev(t), LEFT(t), cancel(RIGHT(t), e)>>
       ELSE <<Ev(t), cancel(LEFT(t), e), RIGHT(t)>>

RECURSIVE Members(_)
Members(t) ==
  IF t = Leaf THEN {} ELSE {Ev(t)} \cup Members(LEFT(t)) \cup Members(RIGHT(t))
===============================================================================
