------------------------------- MODULE MpRtable -------------------------------
(***************************************************************************)
(* The routing table of an mpSelect agent (src/mpSelect/mpSelect_rtable.cc *)
(* and .h) as operators on table values.                                   *)
(*                                                                         *)
(* A table T is a record with                                              *)
(*   rtable   the route_item list in list order, newest first;             *)
(*   mptable  the mpath list in list order, newest first.  An mpath object *)
(*            carries the address it was allocated at (ptr), because a     *)
(*            route refers to it by address, and its path list in order;   *)
(*   status   "ok" while the process runs, "crashed" after a NULL          *)
(*            dereference, "hung" once a call never returns.               *)
(*                                                                         *)
(* Only the prev_select links are kept as data: the other back links are   *)
(* set wherever a forward link is, and add nothing to the list order.      *)
(* prev_select is not, and delete_select relies on it.                     *)
(*                                                                         *)
(* Every operator has the name of the C++ method it translates.  Times are *)
(* numbers of clock ticks.                                                 *)
(***************************************************************************)
EXTENDS Integers, Sequences, FiniteSetsExt, SequencesExt

CONSTANTS
  BitAnd(_, _),        \* the & of nsaddr_t
  MPtr,                \* the heap addresses an mpath object may have
  NULL,                \* the null pointer
  Uninit,              \* the pointer value left in memory by operator new
  IP_BROADCAST,        \* the address that means "no route"
  SEND_PING_INTERVAL,  \* 1.0 s in ticks
  ALIVE_INTERVAL,      \* 2.0 s in ticks
  SeqSpace               \* ping_seq_ is an unsigned int: 2^32 values

ASSUME PtrAssumption == NULL \notin MPtr /\ Uninit \notin MPtr
ASSUME IntervalAssumption ==
  SEND_PING_INTERVAL \in Nat \ {0} /\ ALIVE_INTERVAL \in Nat
ASSUME SeqSpaceAssumption == SeqSpace \in Nat \ {0}

-----------------------------------------------------------------------------
(* The position a list walk that stops at its first match stops at; 0 when *)
(* it reaches the end.                                                     *)
First(I) == IF I = {} THEN 0 ELSE Min(I)

EmptyTable == [rtable |-> << >>, mptable |-> << >>, status |-> "ok"]

-----------------------------------------------------------------------------
(* mpath: the path list of one peer. *)

NewItem(s, d, now) ==
  [s_intf |-> s, d_intf |-> d, recv_delay |-> 0, send_delay |-> 0,
   ping_send_time |-> now, last_recv_time |-> now, ping_seq |-> 0, cnt |-> 0]

Joins(item, s, d) == item.s_intf = s /\ item.d_intf = d

PathIdx(paths, s, d) == First({i \in DOMAIN paths : Joins(paths[i], s, d)})

add_mpath_item(paths, s, d, now) == Cons(NewItem(s, d, now), paths)

(* Variant: the walk goes on after a match. *)
delete_mpath_item_all(paths, s, d) ==
  LET Other(item) == ~Joins(item, s, d) IN SelectSeq(paths, Other)

delete_mpath_item(paths, s, d) ==
  LET i == PathIdx(paths, s, d)
  IN  IF i = 0 THEN paths ELSE RemoveAt(paths, i)

update_send_delay(paths, s, d, t, seq) ==
  LET i == PathIdx(paths, s, d)
  IN  IF i # 0 /\ paths[i].ping_seq > seq
      THEN [paths EXCEPT ![i].send_delay =
              t + (paths[i].ping_seq - seq - 1) * SEND_PING_INTERVAL
                - paths[i].ping_send_time]
      ELSE paths

update_recv_delay(paths, s, d, t, now) ==
  LET i == PathIdx(paths, s, d)
  IN  IF i = 0 THEN paths ELSE [paths EXCEPT ![i].recv_delay = now - t]

update_recv_time(paths, s, d, t) ==
  LET i == PathIdx(paths, s, d)
  IN  IF i = 0 THEN paths ELSE [paths EXCEPT ![i].last_recv_time = t]

update_ping(paths, s, d, now) ==
  LET i == PathIdx(paths, s, d)
  IN  IF i = 0 THEN paths
      ELSE [paths EXCEPT ![i].ping_send_time = now,
                         ![i].ping_seq = (@ + 1) % SeqSpace]

(* Variant: the interfaces compared the wrong way round. *)
is_alive_returns_swapped(paths, s, d) == paths # << >> => Joins(paths[1], d, s)

(* The loop of is_alive never advances its cursor: it returns only when    *)
(* the list is empty or its head is the path asked for.                    *)
is_alive_returns(paths, s, d) == paths # << >> => Joins(paths[1], s, d)

is_alive(paths, s, d, now) ==
  paths # << >> /\ now - paths[1].last_recv_time > ALIVE_INTERVAL

(* select_path asks is_alive about every path of the list; its local next  *)
(* stays 0.                                                                *)
select_path_returns(paths) ==
  \A i \in DOMAIN paths :
    is_alive_returns(paths, paths[i].s_intf, paths[i].d_intf)

select_path(paths, now) ==
  LET alive == {i \in DOMAIN paths :
                  is_alive(paths, paths[i].s_intf, paths[i].d_intf, now)}
      next  == 0
  IN  IF alive = {} THEN 0
      ELSE Max({i \in alive : i = Min(alive) \/ next > paths[i].cnt})

-----------------------------------------------------------------------------
(* mpRtable: the two lists. *)

Live(T) == {T.mptable[i].ptr : i \in DOMAIN T.mptable}

(* The object at a live address. *)
Deref(T, p) == T.mptable[CHOOSE i \in DOMAIN T.mptable : T.mptable[i].ptr = p]

RouteIdx(T, dest_seg, mask) ==
  First({i \in DOMAIN T.rtable : /\ T.rtable[i].daddr_seg = dest_seg
                                 /\ T.rtable[i].mask = mask})

SelectIdx(T, select) ==
  First({i \in DOMAIN T.mptable : T.mptable[i].select_addr = select})

Matches(T, i, daddr) ==
  BitAnd(daddr, T.rtable[i].mask) = T.rtable[i].daddr_seg

MatchIdx(T, daddr) == First({i \in DOMAIN T.rtable : Matches(T, i, daddr)})

(* The table after a method of mpath rewrote the path list of the peers    *)
(* whose address is select, to what the given list holds.                  *)
WithPaths(T, select, newPaths) ==
  [T EXCEPT !.mptable =
     [i \in DOMAIN T.mptable |->
        IF T.mptable[i].select_addr = select
        THEN [T.mptable[i] EXCEPT !.paths = newPaths[i]]
        ELSE T.mptable[i]]]

(* Variant: new routes go to the end of the list, behind older matches. *)
add_item_last(T, dest_seg, mask, next_hop) ==
  [T EXCEPT !.rtable =
     Append(@, [daddr_seg |-> dest_seg, mask |-> mask, next_hop |-> next_hop,
                mp_flag |-> FALSE, mptable |-> Uninit])]

(* operator new leaves mptable_ as it found the memory. *)
add_item(T, dest_seg, mask, next_hop) ==
  [T EXCEPT !.rtable =
     Cons([daddr_seg |-> dest_seg, mask |-> mask, next_hop |-> next_hop,
           mp_flag |-> FALSE, mptable |-> Uninit], @)]

(* Variant: a new object for every path. *)
add_mpath_always_new(T, select, s, d, fresh, now) ==
  [T EXCEPT !.mptable =
     Cons([ptr |-> fresh, select_addr |-> select, prev_select |-> NULL,
           paths |-> add_mpath_item(<< >>, s, d, now)], @)]

(* Variant: the object that was head gets its back link. *)
add_mpath_linked(T, select, s, d, fresh, now) ==
  LET i == SelectIdx(T, select)
      linked == [j \in DOMAIN T.mptable |->
                   IF j = 1 THEN [T.mptable[j] EXCEPT !.prev_select = fresh]
                   ELSE T.mptable[j]]
  IN  IF i = 0
      THEN [T EXCEPT !.mptable =
              Cons([ptr |-> fresh, select_addr |-> select, prev_select |-> NULL,
                    paths |-> add_mpath_item(<< >>, s, d, now)], linked)]
      ELSE [T EXCEPT !.mptable[i].paths = add_mpath_item(@, s, d, now)]

(* fresh is the address operator new returns for a new mpath object. *)
add_mpath(T, select, s, d, fresh, now) ==
  LET i == SelectIdx(T, select)
  IN  IF i = 0
      THEN [T EXCEPT !.mptable =
              Cons([ptr |-> fresh, select_addr |-> select, prev_select |-> NULL,
                    paths |-> add_mpath_item(<< >>, s, d, now)], @)]
      ELSE [T EXCEPT !.mptable[i].paths = add_mpath_item(@, s, d, now)]

delete_item(T, dest_seg, mask) ==
  LET i == RouteIdx(T, dest_seg, mask)
  IN  IF i = 0 THEN T ELSE [T EXCEPT !.rtable = RemoveAt(@, i)]

delete_mpath(T, select, s, d) ==
  WithPaths(T, select,
    [i \in DOMAIN T.mptable |-> delete_mpath_item(T.mptable[i].paths, s, d)])

(* Variant: the routes of a peer that goes are left marked. *)
unflag_select_skipped(T, select) == T

(* The first loop of delete_select. *)
unflag_select(T, select) ==
  [T EXCEPT !.rtable =
     [i \in DOMAIN T.rtable |->
        IF T.rtable[i].mp_flag /\ Deref(T, T.rtable[i].mptable).select_addr = select
        THEN [T.rtable[i] EXCEPT !.mp_flag = FALSE]
        ELSE T.rtable[i]]]

(* The head is unlinked and the next object made head.  Elsewhere the      *)
(* object is unlinked through its prev_select, a NULL dereference when no  *)
(* one has set it.  The loop goes on through the next_select of the object *)
(* it just freed, which free() leaves as it was: the walk goes on and, as  *)
(* no other entry has this address, ends.  In the last case the code sets  *)
(* next_select of that object to its prev_select, so the walk goes back by *)
(* one, and the prev_select of the next object stays as it was.            *)
delete_select(T, select) ==
  LET U == unflag_select(T, select)
      i == SelectIdx(T, select)
      n == Len(T.mptable)
  IN  CASE i = 0 -> U
        [] i = 1 /\ n = 1 -> [U EXCEPT !.mptable = << >>]
        [] i = 1 /\ n > 1 ->
             [U EXCEPT !.mptable = [Tail(@) EXCEPT ![1].prev_select = NULL]]
        [] i > 1 /\ T.mptable[i].prev_select = NULL ->
             [U EXCEPT !.status = "crashed"]
        [] i > 1 /\ T.mptable[i].prev_select # NULL ->
             [U EXCEPT !.mptable = RemoveAt(@, i)]

attach_select(T, dest_seg, mask, select) ==
  LET r == RouteIdx(T, dest_seg, mask)
      p == SelectIdx(T, select)
  IN  IF r = 0 \/ p = 0 THEN T
      ELSE [T EXCEPT !.rtable[r].mp_flag = TRUE,
                     !.rtable[r].mptable = T.mptable[p].ptr]

detach_select(T, dest_seg, mask, select) ==
  LET r == RouteIdx(T, dest_seg, mask)
      p == SelectIdx(T, select)
  IN  IF r = 0 \/ p = 0 THEN T
      ELSE [T EXCEPT !.rtable[r].mp_flag = FALSE,
                     !.rtable[r].mptable = NULL]

(* Variant: any matching route will do, not the first. *)
find_MP_any(T, daddr) ==
  \E r \in DOMAIN T.rtable : Matches(T, r, daddr) /\ T.rtable[r].mp_flag

find_MP(T, daddr) ==
  LET r == MatchIdx(T, daddr) IN r # 0 /\ T.rtable[r].mp_flag

(* lookup(daddr): the next hop when no multipath is used. *)
lookup(T, daddr) ==
  LET r == MatchIdx(T, daddr)
  IN  IF r = 0 THEN IP_BROADCAST ELSE T.rtable[r].next_hop

(* The route lookup(daddr, s_intf, d_intf) takes its path from. *)
MpRouteIdx(T, daddr) ==
  First({i \in DOMAIN T.rtable : /\ Matches(T, i, daddr)
                                 /\ T.rtable[i].mp_flag
                                 /\ T.rtable[i].mptable # NULL})

(* lookup(daddr, s_intf, d_intf): the peer's address and the path chosen,  *)
(* with the table select_path leaves.                                      *)
lookup_mp(T, daddr, now) ==
  LET none == [select |-> IP_BROADCAST, s_intf |-> 0, d_intf |-> 0, table |-> T]
      r == MpRouteIdx(T, daddr)
      m == CHOOSE i \in DOMAIN T.mptable :
             T.mptable[i].ptr = T.rtable[r].mptable
      paths == T.mptable[m].paths
      k == select_path(paths, now)
  IN  IF r = 0 THEN none
      ELSE IF ~ select_path_returns(paths)
           THEN [none EXCEPT !.table.status = "hung"]
      ELSE IF k = 0 THEN none
      ELSE [select |-> T.mptable[m].select_addr,
            s_intf |-> paths[k].s_intf, d_intf |-> paths[k].d_intf,
            table |-> [T EXCEPT !.mptable[m].paths[k].cnt = @ + 1]]

update_sdelay(T, select, s, d, t, seq) ==
  WithPaths(T, select,
    [i \in DOMAIN T.mptable |->
       update_send_delay(T.mptable[i].paths, s, d, t, seq)])

update_rdelay(T, select, s, d, t, now) ==
  WithPaths(T, select,
    [i \in DOMAIN T.mptable |->
       update_recv_delay(T.mptable[i].paths, s, d, t, now)])

update_rtime(T, select, s, d, t) ==
  WithPaths(T, select,
    [i \in DOMAIN T.mptable |->
       update_recv_time(T.mptable[i].paths, s, d, t)])

update_ping_info(T, select, s, d, now) ==
  WithPaths(T, select,
    [i \in DOMAIN T.mptable |-> update_ping(T.mptable[i].paths, s, d, now)])

-----------------------------------------------------------------------------
(* One run of the loop of mpSelect::send_ping_handler: get_path_item hands *)
(* out a copy of every path of every peer in list order, one ping is sent  *)
(* for it with the sequence number of the copy, and update_ping_info moves *)
(* on the first path that joins the same two interfaces.                   *)

pings(T) ==
  UNION {{[select |-> T.mptable[i].select_addr,
           s_intf |-> T.mptable[i].paths[j].s_intf,
           d_intf |-> T.mptable[i].paths[j].d_intf,
           ping_seq |-> T.mptable[i].paths[j].ping_seq,
           nth |-> j] : j \in DOMAIN T.mptable[i].paths} : i \in DOMAIN T.mptable}

(* Variant: a counter without the wrap of unsigned int. *)
ping_paths_unbounded(paths, now) ==
  [j \in DOMAIN paths |->
     LET same == {k \in DOMAIN paths :
                    Joins(paths[k], paths[j].s_intf, paths[j].d_intf)}
     IN  IF j = Min(same)
         THEN [paths[j] EXCEPT !.ping_send_time = now,
                 !.ping_seq = @ + Cardinality(same)]
         ELSE paths[j]]

ping_paths(paths, now) ==
  [j \in DOMAIN paths |->
     LET same == {k \in DOMAIN paths :
                    Joins(paths[k], paths[j].s_intf, paths[j].d_intf)}
     IN  IF j = Min(same)
         THEN [paths[j] EXCEPT !.ping_send_time = now,
                 !.ping_seq = (@ + Cardinality(same)) % SeqSpace]
         ELSE paths[j]]

ping_round(T, now) ==
  [T EXCEPT !.mptable =
     [i \in DOMAIN T.mptable |->
        [T.mptable[i] EXCEPT !.paths = ping_paths(@, now)]]]

-----------------------------------------------------------------------------
(* What keeps a table safe to use. *)

(* A route marked as multipath points to an object in the list. *)
PointersLive(T) ==
  \A i \in DOMAIN T.rtable :
    T.rtable[i].mp_flag => T.rtable[i].mptable \in Live(T)

(* No two objects are for one peer, or at one address. *)
ObjectsDistinct(T) ==
  \A i, j \in DOMAIN T.mptable :
    \/ T.mptable[i].select_addr = T.mptable[j].select_addr
    \/ T.mptable[i].ptr = T.mptable[j].ptr
    => i = j
===============================================================================
