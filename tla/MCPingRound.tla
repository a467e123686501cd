------------------------------ MODULE MCPingRound ------------------------------
(***************************************************************************)
(* PingRound on every table of at most two peers with at most two paths,   *)
(* some the same, some lists empty, as delete-mp-path leaves them.         *)
(***************************************************************************)
EXTENDS PingRound, Bitwise

MCBitAnd(a, b) == a & b

Lists == UNION {[1..k -> {NewItem(11, 21, 0), NewItem(12, 22, 0)}] : k \in 0..2}

Obj(ptr, select, paths) ==
  [ptr |-> ptr, select_addr |-> select, prev_select |-> NULL, paths |-> paths]

MCTables ==
  {[EmptyTable EXCEPT !.mptable = m] :
     m \in {<< >>}
       \cup {<<Obj("a", 1, l)>> : l \in Lists}
       \cup {<<Obj("b", 2, k), Obj("a", 1, l)>> : k, l \in Lists}}
===============================================================================
