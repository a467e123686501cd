------------------------------ MODULE MCSchedulers ------------------------------
(* Schedulers, with an empty queue and with one on the point of growing. *)
EXTENDS Schedulers

MCKind == {"List", "Heap", "Calendar", "Splay"}
MCScript == {<<3, 0, 1, 5, 5, 2, 4, 9, 7>>}
MCDelay == {-1, 0, 1, 6}
MCAtTime == {-2, 8}
MCWidth == {1, 2, 3}
===============================================================================
