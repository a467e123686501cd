-------------------------------- MODULE MCAodv --------------------------------
(* Four nodes in a row, of which the last is the destination and hard to   *)
(* reach.                                                                  *)
EXTENDS AodvNetwork

MCNode == 0..3
MCNbr == [n \in MCNode |-> {m \in MCNode : m = n - 1 \/ m = n + 1}]
MCWeak == {<<2, 3>>, <<3, 2>>}
MCLast == {<<2, 3>>}
(* Data from the first node, and from the node before the last. *)
MCFlow == {[src |-> 0, dst |-> 3, id |-> 1], [src |-> 2, dst |-> 3, id |-> 2]}
(* Two packets of one flow. *)
MCPair == {[src |-> 0, dst |-> 3, id |-> i] : i \in 1..2}
===============================================================================
