------------------------------ MODULE MCMpSelect ------------------------------
(***************************************************************************)
(* The network of src/TclTestSrc/net3.tcl in small: cores 10 and 20, with  *)
(* interfaces 11 (and 12) on the side of 10 and 21 (and 22) on the side of *)
(* 20, host 1 beyond core 10 and host 2 beyond core 20.                    *)
(***************************************************************************)
EXTENDS MpSelect, Bitwise

WordAnd == [a \in 0..127, b \in 0..31 |-> a & b]
MCBitAnd(a, b) == WordAnd[a, b]

FullMask == 31

MCCores == {10, 20}
MCOnePath == {10, 20, 11, 21}
MCDataNodes == {10, 20, 11, 21, 23}
MCThreePaths == {10, 20, 11, 21, 12, 22, 13, 23}

(* Interface agents created with the address of their core: the way in     *)
(* which forward_mpS_pkt can tell the two directions apart.                *)
MCCoreAddr == [n \in MCOnePath |-> IF n < 20 THEN 10 ELSE 20]

(* The same, but interface 13 is created with its own address, as the Tcl  *)
(* library does for every agent.                                           *)
MCMixedAddr ==
  [n \in MCThreePaths |-> IF n = 13 THEN 13 ELSE IF n < 20 THEN 10 ELSE 20]

(* Interface 23, which no path uses, has its own address. *)
MCDataAddr == [n \in MCDataNodes |-> IF n = 23 THEN 23 ELSE IF n < 20 THEN 10 ELSE 20]

P1 == CHOOSE p \in MPtr : TRUE

(* Tables as the commands leave them. *)
OnePath(peer, s, d) == add_mpath(EmptyTable, peer, s, d, P1, 0)
Attached(T, peer, dest, hop) ==
  attach_select(add_item(T, dest, FullMask, hop), dest, FullMask, peer)

(* One path each way, only for pings. *)
MCPingTables ==
  [n \in MCOnePath |->
     CASE n = 10 -> OnePath(20, 11, 21)
       [] n = 20 -> OnePath(10, 21, 11)
       [] OTHER  -> EmptyTable]

(* The same with interfaces that no path uses yet. *)
MCOpenTables ==
  [n \in MCThreePaths |-> IF n \in MCOnePath THEN MCPingTables[n] ELSE EmptyTable]

(* Data for host 2, for core 20 itself and for the node of interface 23    *)
(* goes over the path, data for host 5 goes over it the other way and has  *)
(* no route there; data for host 3 does not; core 20 routes to its host    *)
(* and to 23.                                                              *)
MCDataTables ==
  [n \in MCDataNodes |->
     CASE n = 10 -> add_item(Attached(Attached(Attached(OnePath(20, 11, 21), 20, 2, 11),
                                               20, 20, 11), 20, 23, 11), 3, FullMask, 3)
       [] n = 20 -> add_item(add_item(Attached(OnePath(10, 21, 11), 10, 5, 21),
                                      2, FullMask, 2), 23, FullMask, 23)
       [] OTHER  -> EmptyTable]

F(from, to, size) ==
  [saddr |-> from, daddr |-> to, dport |-> 7, ptype |-> "cbr", size |-> size,
   enters |-> IF from = 1 THEN 10 ELSE 20, direction |-> "NONE"]

MCNoFlows == {}
MCNoPairs == {}
(* Data for hosts, for agents' own nodes, without a route and for everyone. *)
MCFlows ==
  {F(1, to, 500) : to \in {2, 3, 20, 23}} \cup {F(2, to, 500) : to \in {5, IP_BROADCAST}}
(* Host 3 behind a classifier that hands the packet back to the agent. *)
MCTapLoop == {<<10, to>> : to \in {2, 3, 20}}
MCEdit == {<<10, 20, i, i + 10>> : i \in {11, 12, 13}}
MCEditOne == {<<10, 20, 11, 21>>}
===============================================================================
