------------------------------- MODULE HeapQueue -------------------------------
(***************************************************************************)
(* The binary heap of src/common/heap.h and scheduler.cc that             *)
(* HeapScheduler keeps its events in.  The array is a sequence, so indices *)
(* are one higher than in the code; its growth is left out.  An element is *)
(* an event with the secondary key that keeps events of one time in order. *)
(***************************************************************************)
EXTENDS Integers, Sequences, SequencesExt

CONSTANT KeySpace  \* h_s_key is an unsigned int: 2^32

Empty == [elems |-> << >>, s_key |-> 0]

parent(i) == i \div 2
left(i) == 2 * i
right(i) == 2 * i + 1
swap(a, i, j) == [a EXCEPT ![i] = a[j], ![j] = a[i]]

KEY_LESS_THAN(x, y) == x.time < y.time \/ (x.time = y.time /\ x.s_key < y.s_key)

RECURSIVE SiftUp(_, _)
SiftUp(a, i) ==
  IF i > 1 /\ KEY_LESS_THAN(a[i], a[parent(i)])
  THEN SiftUp(swap(a, i, parent(i)), parent(i)) ELSE a

heap_insert(h, e) ==
  [elems |-> SiftUp(Append(h.elems, [time |-> e.time, uid |-> e.uid, s_key |-> h.s_key]),
                    Len(h.elems) + 1),
   s_key |-> (h.s_key + 1) % KeySpace]

(* The child that heap_extract_min compares with i, or i if there is none. *)
Try(a, i) ==
  IF right(i) <= Len(a)
  THEN IF KEY_LESS_THAN(a[left(i)], a[right(i)]) THEN left(i) ELSE right(i)
  ELSE IF left(i) <= Len(a) THEN left(i) ELSE i

RECURSIVE Heapify(_, _)
Heapify(a, i) ==
  LET x == Try(a, i)
  IN  IF i <= Len(a) /\ x # i /\ KEY_LESS_THAN(a[x], a[i])
      THEN Heapify(swap(a, i, x), x) ELSE a

heap_min(h) == h.elems[1]

heap_extract_min(h) ==
  [h EXCEPT !.elems =
     IF Len(@) = 1 THEN << >>
     ELSE Heapify([Front(@) EXCEPT ![1] = Last(h.elems)], 1)]

heap_member(h, e) == {i \in DOMAIN h.elems : h.elems[i].uid = e.uid}

RECURSIVE ToRoot(_, _)
ToRoot(a, i) == IF i = 1 THEN a ELSE ToRoot(swap(a, i, parent(i)), parent(i))

(* The element is brought to the root past smaller ones and taken out      *)
(* there; nothing for one that is not in the heap.                         *)
heap_delete(h, e) ==
  LET i == CHOOSE i \in heap_member(h, e) : TRUE
  IN  IF heap_member(h, e) = {} THEN h
      ELSE heap_extract_min([h EXCEPT !.elems = ToRoot(@, i)])

Members(h) == {[time |-> x.time, uid |-> x.uid] : x \in Range(h.elems)}
===============================================================================
