-------------------------------- MODULE TableMap -------------------------------
(***************************************************************************)
(* The map that a pointer table stands for: a route's pointer stands for   *)
(* the peer of the object it points to, the object list for the map from   *)
(* peers to paths.  Measurements, counters and the order of the objects    *)
(* are invisible.                                                          *)
(***************************************************************************)
EXTENDS MpTypes

CONSTANT None  \* the peer of a route that is not bound

(* The peer whose object a route of T points to. *)
PeerOf(T, r) == IF r.mp_flag THEN Deref(T, r.mptable).select_addr ELSE None

AbsRoute(T, r) ==
  [seg |-> r.daddr_seg, mask |-> r.mask, hop |-> r.next_hop, peer |-> PeerOf(T, r)]

AbsRoutes(T) == [i \in DOMAIN T.rtable |-> AbsRoute(T, T.rtable[i])]

AbsPaths(paths) == [j \in DOMAIN paths |-> <<paths[j].s_intf, paths[j].d_intf>>]

Peers(T) == {T.mptable[i].select_addr : i \in DOMAIN T.mptable}

AbsPeers(T) == [p \in Peers(T) |-> AbsPaths(T.mptable[SelectIdx(T, p)].paths)]
================================================================================
