-------------------------------- MODULE MpTable --------------------------------
(***************************************************************************)
(* One mpSelect agent's routing table at work: the Tcl commands of         *)
(* mpSelect::command that change it, in any order, and the calls the       *)
(* packet handlers and the ping timer make on it, in any order.            *)
(*                                                                         *)
(* A packet handler runs to completion before the scheduler dispatches the *)
(* next event, so one action is one command or one handler's use of the    *)
(* table.  No action is enabled once the process has crashed or hung.      *)
(***************************************************************************)
EXTENDS MpTypes

CONSTANTS
  Dest,       \* destinations of data packets
  MaxRoutes,  \* bound: entries of the route list
  MaxPaths,   \* bound: entries of one path list
  MaxUses,    \* bound: uses of one path
  MaxTime,    \* bound: the clock
  MaxLag      \* bound: ticks between the sending of a ping and its arrival

ASSUME BoundsAssumption ==
  MaxRoutes \in Nat /\ MaxPaths \in Nat /\ MaxUses \in Nat
  /\ MaxTime \in Nat /\ MaxLag \in Nat

VARIABLES
  table,  \* rtable_: the table (see MpRtable)
  now   \* Scheduler::clock()

vars == <<table, now>>

Init == table = EmptyTable /\ now = 0

Running == table.status = "ok"

-----------------------------------------------------------------------------
(* The Tcl commands. *)

AddRouteItem(dest_seg, mask, next_hop) ==
  /\ Running
  /\ Len(table.rtable) < MaxRoutes
  /\ table' = add_item(table, dest_seg, mask, next_hop)
  /\ UNCHANGED now

AddMpPath(select, s, d) ==
  /\ Running
  /\ \A i \in DOMAIN table.mptable :
       table.mptable[i].select_addr = select =>
         Len(table.mptable[i].paths) < MaxPaths
  /\ \E fresh \in MPtr \ Live(table) :
       table' = add_mpath(table, select, s, d, fresh, now)
  /\ UNCHANGED now

DeleteRouteItem(dest_seg, mask) ==
  /\ Running
  /\ table' = delete_item(table, dest_seg, mask)
  /\ UNCHANGED now

DeleteMpPath(select, s, d) ==
  /\ Running
  /\ table' = delete_mpath(table, select, s, d)
  /\ UNCHANGED now

DeleteSelect(select) ==
  /\ Running
  /\ table' = delete_select(table, select)
  /\ UNCHANGED now

AttachSelect(dest_seg, mask, select) ==
  /\ Running
  /\ table' = attach_select(table, dest_seg, mask, select)
  /\ UNCHANGED now

DetachSelect(dest_seg, mask, select) ==
  /\ Running
  /\ table' = detach_select(table, dest_seg, mask, select)
  /\ UNCHANGED now

-----------------------------------------------------------------------------
(* The calls made while packets are handled. *)

(* forward_data: find_MP decides which lookup is made. *)
Forward(daddr) ==
  /\ Running
  /\ \A i \in DOMAIN table.mptable : \A j \in DOMAIN table.mptable[i].paths :
       table.mptable[i].paths[j].cnt < MaxUses
  /\ find_MP(table, daddr)
  /\ table' = lookup_mp(table, daddr, now).table
  /\ UNCHANGED now

(* recv_data_pkt, and recv_ping_pkt before it looks at the packet type. *)
Heard(select, s, d) ==
  /\ Running
  /\ table' = update_rtime(table, select, s, d, now)
  /\ UNCHANGED now

(* recv_ping_pkt on a ping sent at time t. *)
RecvPing(select, s, d, t) ==
  /\ Running
  /\ table' = update_rdelay(update_rtime(table, select, s, d, now),
                            select, s, d, t, now)
  /\ UNCHANGED now

(* recv_ping_pkt on the answer to ping seq, sent at time t. *)
RecvBak(select, s, d, t, seq) ==
  /\ Running
  /\ table' = update_sdelay(update_rtime(table, select, s, d, now),
                            select, s, d, t, seq)
  /\ UNCHANGED now

(* send_ping_handler. *)
SendPings ==
  /\ Running
  /\ table' = ping_round(table, now)
  /\ UNCHANGED now

Tick ==
  /\ Running
  /\ now < MaxTime
  /\ now' = now + 1
  /\ UNCHANGED table

(* When a packet that arrives now can have been sent. *)
SentTimes == {t \in 0..now : now - t <= MaxLag}

Command ==
  \/ \E g \in Seg, m \in Mask :
       \/ \E h \in Hop : AddRouteItem(g, m, h)
       \/ DeleteRouteItem(g, m)
       \/ \E select \in Peer : \/ AttachSelect(g, m, select)
                               \/ DetachSelect(g, m, select)
  \/ \E select \in Peer : \/ DeleteSelect(select)
                          \/ \E s, d \in Intf : \/ AddMpPath(select, s, d)
                                                \/ DeleteMpPath(select, s, d)

Traffic ==
  \/ \E daddr \in Dest : Forward(daddr)
  \/ \E select \in Peer, s, d \in Intf :
       \/ Heard(select, s, d)
       \/ \E t \in SentTimes : \/ RecvPing(select, s, d, t)
                            \/ \E seq \in 0..(SeqSpace - 1) :
                                 RecvBak(select, s, d, t, seq)
  \/ SendPings

Next == Command \/ Traffic \/ Tick

Spec == Init /\ [][Next]_vars

-----------------------------------------------------------------------------
(* The variables have their types. *)
TypeOK == table \in Table /\ now \in Nat

(* A route marked as multipath (mp_flag_) points to an mpath object that   *)
(* is in the list, so that no lookup, print or delete_select follows a     *)
(* pointer to freed or uninitialised memory: delete_select unmarks every   *)
(* route of the object it frees, however often the object's address has    *)
(* been freed and allocated again since the route was attached.            *)
NoDangling == PointersLive(table)

(* No two mpath objects are for the same peer, or at the same address: the *)
(* methods that walk the list without a break act on one object.           *)
UniqueSelects == ObjectsDistinct(table)

(* When find_MP says that a destination uses multipath, the lookup that    *)
(* follows takes the path from that very route: not from a later match,    *)
(* and never finds none.                                                   *)
FindMPAgrees ==
  \A daddr \in Dest :
    find_MP(table, daddr) => MpRouteIdx(table, daddr) = MatchIdx(table, daddr)

(* select_path hangs only on a peer that has two different paths: a table  *)
(* with one path per peer forwards for ever.                               *)
HangNeedsTwoPaths ==
  table.status = "hung" =>
    \E i \in DOMAIN table.mptable : \E j, k \in DOMAIN table.mptable[i].paths :
      ~ Joins(table.mptable[i].paths[j], table.mptable[i].paths[k].s_intf,
              table.mptable[i].paths[k].d_intf)

(* The process crashes when, and only when, delete-select names a peer     *)
(* that is not the last one added: add_mpath never sets the prev_select    *)
(* link that delete_select then dereferences.  No other sequence of        *)
(* commands and packets crashes the table code.                            *)
CrashesOnOlderPeer ==
  [][table'.status = "crashed" <=>
       \E select \in Peer : DeleteSelect(select) /\ SelectIdx(table, select) > 1]_vars

-----------------------------------------------------------------------------
(* What the comments of mpSelect_rtable.h say, where the code does         *)
(* otherwise.                                                              *)

(* is_alive, "whether the path is usable (the time data was last received  *)
(* has not exceeded the estimate)": a path select_path picks has been      *)
(* heard from within ALIVE_INTERVAL.                                       *)
PicksLivePaths ==
  [][\A i \in DOMAIN table.mptable : \A j \in DOMAIN table.mptable[i].paths :
       (/\ Len(table'.mptable) = Len(table.mptable)
        /\ Len(table'.mptable[i].paths) = Len(table.mptable[i].paths)
        /\ table'.mptable[i].paths[j].cnt = table.mptable[i].paths[j].cnt + 1)
       => now - table.mptable[i].paths[j].last_recv_time <= ALIVE_INTERVAL]_vars
===============================================================================
