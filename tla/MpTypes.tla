-------------------------------- MODULE MpTypes --------------------------------
(***************************************************************************)
(* The types of a routing table's parts (the classes of mpSelect_rtable.h) *)
(* over given sets of addresses, and what every table that the methods of  *)
(* MpRtable make from an empty one satisfies.                              *)
(***************************************************************************)
EXTENDS MpRtable

CONSTANTS
  Seg, Mask,  \* destination segments and masks of routes
  Hop,        \* next hops of routes
  Peer,       \* addresses of other mpSelect cores
  Intf        \* addresses of interfaces

Path ==
  [s_intf : Intf, d_intf : Intf, recv_delay : Int, send_delay : Int,
   ping_send_time : Int, last_recv_time : Int, ping_seq : 0..(SeqSpace - 1),
   cnt : Nat]

Mpath ==
  [ptr : MPtr, select_addr : Peer, prev_select : MPtr \cup {NULL},
   paths : Seq(Path)]

Route ==
  [daddr_seg : Seg, mask : Mask, next_hop : Hop, mp_flag : BOOLEAN,
   mptable : MPtr \cup {NULL, Uninit}]

Table ==
  [rtable : Seq(Route), mptable : Seq(Mpath),
   status : {"ok", "crashed", "hung"}]

(* No object has a back link: add_mpath never sets prev_select. *)
NoBackLinks(T) ==
  \A i \in DOMAIN T.mptable : T.mptable[i].prev_select = NULL

Good(T) ==
  T \in Table /\ PointersLive(T) /\ ObjectsDistinct(T) /\ NoBackLinks(T)
================================================================================
