----------------------------- MODULE MpTableProofs -----------------------------
(***************************************************************************)
(* Proofs about MpTable, for any set of addresses, any number of routes,   *)
(* peers and paths, and any interval lengths: its invariants, and that it  *)
(* implements RouteMap.  The map a table T stands for is AbsRoutes(T) and  *)
(* AbsPeers(T); for each method of mpRtable a lemma of MpRtableProofs says *)
(* what it does to this map when the table is Good, which every table of   *)
(* the specification is.                                                   *)
(***************************************************************************)
EXTENDS MpTableRefinement, MpRtableProofs

-----------------------------------------------------------------------------
(* The theorems. *)

IInv == Good(table) /\ now \in Nat

LEMMA InitGood == Init => IInv
<1> SUFFICES ASSUME Init PROVE IInv
  OBVIOUS
<1>1. table = EmptyTable /\ now = 0
  BY DEF Init
<1>2. EmptyTable \in Table /\ EmptyTable.rtable = << >> /\ EmptyTable.mptable = << >>
  BY DEF EmptyTable, Table
<1>3. PointersLive(table) /\ ObjectsDistinct(table) /\ NoBackLinks(table)
  BY <1>1, <1>2 DEF PointersLive, ObjectsDistinct, NoBackLinks
<1>. QED  BY <1>1, <1>2, <1>3 DEF IInv, Good

(* One step per action: each is one of the methods above. *)
LEMMA NextGood == IInv /\ [Next]_vars => IInv'
<1> SUFFICES ASSUME IInv, [Next]_vars PROVE IInv'
  OBVIOUS
<1>0. Good(table) /\ now \in Nat /\ now \in Int
  BY DEF IInv
<1>1. ASSUME NEW g \in Seg, NEW m \in Mask, NEW h \in Hop, AddRouteItem(g, m, h)
      PROVE  IInv'
  BY <1>0, <1>1, AddItemGood DEF AddRouteItem, IInv
<1>2. ASSUME NEW g \in Seg, NEW m \in Mask, DeleteRouteItem(g, m)
      PROVE  IInv'
  BY <1>0, <1>2, DeleteItemGood DEF DeleteRouteItem, IInv
<1>3. ASSUME NEW g \in Seg, NEW m \in Mask, NEW select \in Peer,
             AttachSelect(g, m, select) \/ DetachSelect(g, m, select)
      PROVE  IInv'
  BY <1>0, <1>3, AttachGood DEF AttachSelect, DetachSelect, IInv
<1>4. ASSUME NEW select \in Peer, DeleteSelect(select)
      PROVE  IInv'
  BY <1>0, <1>4, DeleteSelectGood DEF DeleteSelect, IInv
<1>5. ASSUME NEW select \in Peer, NEW s \in Intf, NEW d \in Intf,
             AddMpPath(select, s, d)
      PROVE  IInv'
  BY <1>0, <1>5, AddMpathGood DEF AddMpPath, IInv
<1>6. ASSUME NEW select \in Peer, NEW s \in Intf, NEW d \in Intf,
             DeleteMpPath(select, s, d)
      PROVE  IInv'
  BY <1>0, <1>6, DeleteMpathGood DEF DeleteMpPath, IInv
<1>7. ASSUME NEW daddr \in Dest, Forward(daddr)
      PROVE  IInv'
  BY <1>0, <1>7, LookupMpGood DEF Forward, IInv
<1>8. ASSUME NEW select \in Peer, NEW s \in Intf, NEW d \in Intf
      PROVE  Good(update_rtime(table, select, s, d, now))
  BY <1>0, UpdateRtimeGood
<1>9. ASSUME NEW select \in Peer, NEW s \in Intf, NEW d \in Intf,
             Heard(select, s, d)
      PROVE  IInv'
  BY <1>0, <1>8, <1>9 DEF Heard, IInv
<1>10. ASSUME NEW select \in Peer, NEW s \in Intf, NEW d \in Intf,
              NEW t \in SentTimes, RecvPing(select, s, d, t)
       PROVE  IInv'
  <2>1. t \in Int
    BY DEF SentTimes
  <2>2. Good(update_rdelay(update_rtime(table, select, s, d, now), select, s, d, t, now))
    BY <1>0, <1>8, <2>1, UpdateRdelayGood
  <2>. QED  BY <1>0, <1>10, <2>2 DEF RecvPing, IInv
<1>11. ASSUME NEW select \in Peer, NEW s \in Intf, NEW d \in Intf,
              NEW t \in SentTimes, NEW seq \in 0..(SeqSpace - 1),
              RecvBak(select, s, d, t, seq)
       PROVE  IInv'
  <2>1. t \in Int /\ seq \in Int
    BY DEF SentTimes
  <2>2. Good(update_sdelay(update_rtime(table, select, s, d, now), select, s, d, t, seq))
    BY <1>8, <2>1, UpdateSdelayGood
  <2>. QED  BY <1>0, <1>11, <2>2 DEF RecvBak, IInv
<1>12. CASE SendPings
  BY <1>0, <1>12, PingRoundGood DEF SendPings, IInv
<1>13. CASE Tick
  BY <1>0, <1>13 DEF Tick, IInv
<1>14. CASE UNCHANGED vars
  BY <1>0, <1>14 DEF vars, IInv
<1>. QED
  BY <1>1, <1>2, <1>3, <1>4, <1>5, <1>6, <1>7, <1>9, <1>10, <1>11, <1>12, <1>13,
     <1>14, Zenon DEF Next, Command, Traffic

LEMMA AlwaysGood == Spec => []IInv
<1>1. Init => IInv
  BY InitGood
<1>2. IInv /\ [Next]_vars => IInv'
  BY NextGood
<1>. QED  BY <1>1, <1>2, PTL DEF Spec

(* The table has its type after any sequence of commands and packets. *)
THEOREM TypeCorrect == Spec => []TypeOK
<1>1. IInv => TypeOK
  BY DEF IInv, Good, TypeOK
<1>. QED  BY <1>1, AlwaysGood, PTL

(* No route marked as multipath ever points to an mpath object that was    *)
(* freed, or to uninitialised memory, whatever addresses are reused.       *)
THEOREM RoutesNeverDangle == Spec => []NoDangling
<1>1. IInv => NoDangling
  BY DEF IInv, Good, NoDangling
<1>. QED  BY <1>1, AlwaysGood, PTL

(* The object list never holds two objects for one peer. *)
THEOREM SelectsStayUnique == Spec => []UniqueSelects
<1>1. IInv => UniqueSelects
  BY DEF IInv, Good, UniqueSelects
<1>. QED  BY <1>1, AlwaysGood, PTL

-----------------------------------------------------------------------------
(* What stops the process. *)

(* Some peer has two different paths. *)
TwoPaths(T) ==
  \E i \in DOMAIN T.mptable : \E j, k \in DOMAIN T.mptable[i].paths :
    ~ Joins(T.mptable[i].paths[j], T.mptable[i].paths[k].s_intf,
            T.mptable[i].paths[k].d_intf)

LEMMA StatusKept ==
  ASSUME NEW T \in Table, NEW g, NEW m, NEW h, NEW select, NEW s, NEW d, NEW p, NEW t
  PROVE  /\ add_item(T, g, m, h).status = T.status
         /\ delete_item(T, g, m).status = T.status
         /\ attach_select(T, g, m, select).status = T.status
         /\ detach_select(T, g, m, select).status = T.status
         /\ add_mpath(T, select, s, d, p, t).status = T.status
<1>1. add_item(T, g, m, h).status = T.status
  BY DEF add_item, Table
<1>2. delete_item(T, g, m).status = T.status
  BY DEF delete_item, Table
<1>3. attach_select(T, g, m, select).status = T.status
  BY DEF attach_select, Table
<1>4. detach_select(T, g, m, select).status = T.status
  BY DEF detach_select, Table
<1>5. add_mpath(T, select, s, d, p, t).status = T.status
  BY DEF add_mpath, Table
<1>. QED  BY <1>1, <1>2, <1>3, <1>4, <1>5

(* A lookup hangs only on a peer with two different paths. *)
LEMMA LookupStatus ==
  ASSUME NEW T, Good(T), NEW daddr, NEW t
  PROVE  LET L == lookup_mp(T, daddr, t).table
         IN  \/ L.status = T.status
             \/ L.status = "hung" /\ L.mptable = T.mptable /\ TwoPaths(T)
<1> DEFINE r == MpRouteIdx(T, daddr)
           I == {i \in DOMAIN T.rtable : /\ Matches(T, i, daddr)
                                         /\ T.rtable[i].mp_flag
                                         /\ T.rtable[i].mptable # NULL}
           m == CHOOSE i \in DOMAIN T.mptable :
                  T.mptable[i].ptr = T.rtable[r].mptable
           paths == T.mptable[m].paths
           k == select_path(paths, t)
           L == lookup_mp(T, daddr, t).table
<1>0. /\ T \in Table /\ DOMAIN T.rtable = 1..Len(T.rtable)
      /\ Len(T.rtable) \in Nat
  BY TableFields DEF Good
<1>1. CASE r = 0 \/ (select_path_returns(paths) /\ k = 0)
  BY <1>1 DEF lookup_mp
<1>2. CASE r # 0 /\ ~ select_path_returns(paths)
  <2>1. L = [T EXCEPT !.status = "hung"]
    BY <1>2 DEF lookup_mp
  <2>2. r \in DOMAIN T.rtable /\ T.rtable[r].mp_flag
    <3>1. I \subseteq Nat \ {0}
      BY <1>0
    <3>2. r = First(I)
      BY DEF MpRouteIdx
    <3>3. First(I) \in I
      <4> HIDE DEF I, r
      <4>. QED  BY <1>2, <3>1, <3>2, FirstOf
    <3>. QED  BY <3>2, <3>3
  <2>3. \E i \in DOMAIN T.mptable : T.mptable[i].ptr = T.rtable[r].mptable
    <3> HIDE DEF r
    <3>. QED  BY <2>2 DEF Good, PointersLive, Live
  <2>4. m \in DOMAIN T.mptable
    <3> HIDE DEF r
    <3>. QED  BY <2>3
  <2>5. L.status = "hung" /\ L.mptable = T.mptable
    <3> HIDE DEF L
    <3>. QED  BY <1>0, <2>1, WithStatus
  <2> HIDE DEF m, r, L
  <2>6. PICK j \in DOMAIN paths : ~ is_alive_returns(paths, paths[j].s_intf, paths[j].d_intf)
    BY <1>2 DEF select_path_returns
  <2>7. paths # << >> /\ ~ Joins(paths[1], paths[j].s_intf, paths[j].d_intf)
    <3> HIDE DEF paths
    <3>. QED  BY <2>6 DEF is_alive_returns
  <2>8. 1 \in DOMAIN paths
    <3>1. paths \in Seq(Path)
      BY <1>0, <2>4, TableFields, MpathFields
    <3> HIDE DEF paths
    <3>. QED  BY <2>7, <3>1, EmptySeq, LenProperties
  <2>9. TwoPaths(T)
    BY <2>4, <2>6, <2>7, <2>8 DEF TwoPaths
  <2>. QED  BY <2>5, <2>9 DEF L
<1>3. CASE r # 0 /\ select_path_returns(paths) /\ k # 0
  <2>1. L = [T EXCEPT !.mptable[m].paths[k].cnt = T.mptable[m].paths[k].cnt + 1]
    BY <1>3 DEF lookup_mp
  <2>2. L.status = T.status
    <3> HIDE DEF m, k, r
    <3>. QED  BY <1>0, <2>1 DEF Table
  <2>. QED  BY <2>2
<1>. QED  BY <1>1, <1>2, <1>3

(* One step: which of them stop the process, and how. *)
LEMMA StepStatus ==
  ASSUME IInv, Next
  PROVE  /\ table.status = "ok"
         /\ \/ table'.status = "ok"
            \/ table'.status = "hung" /\ table'.mptable = table.mptable /\ TwoPaths(table)
            \/ /\ table'.status = "crashed"
               /\ \E select \in Peer :
                    DeleteSelect(select) /\ SelectIdx(table, select) > 1
<1> DEFINE Stays == table.status = "ok" /\ table'.status = "ok"
<1>0. Good(table) /\ table \in Table /\ now \in Nat /\ now \in Int
  BY DEF IInv, Good
<1>1. ASSUME NEW g \in Seg, NEW m \in Mask, NEW h \in Hop, AddRouteItem(g, m, h)
      PROVE  Stays
  BY <1>0, <1>1, StatusKept DEF AddRouteItem, Running
<1>2. ASSUME NEW g \in Seg, NEW m \in Mask, DeleteRouteItem(g, m)
      PROVE  Stays
  BY <1>0, <1>2, StatusKept DEF DeleteRouteItem, Running
<1>3. ASSUME NEW g \in Seg, NEW m \in Mask, NEW select \in Peer,
             AttachSelect(g, m, select) \/ DetachSelect(g, m, select)
      PROVE  Stays
  BY <1>0, <1>3, StatusKept DEF AttachSelect, DetachSelect, Running
<1>4. ASSUME NEW select \in Peer, DeleteSelect(select)
      PROVE  Stays \/ (/\ table.status = "ok" /\ table'.status = "crashed"
                       /\ SelectIdx(table, select) > 1)
  <2>1. table.status = "ok" /\ table' = delete_select(table, select)
    BY <1>4 DEF DeleteSelect, Running
  <2>2. SelectIdx(table, select) \in Nat
    <3>1. DOMAIN table.mptable = 1..Len(table.mptable)
      BY <1>0, TableFields
    <3>. QED  BY <1>0, <3>1, SelectIdxType
  <2>3. CASE SelectIdx(table, select) > 1
    BY <1>0, <2>1, <2>3, DeleteSelectGood
  <2>4. CASE SelectIdx(table, select) <= 1
    BY <1>0, <2>1, <2>4, DeleteSelectGood
  <2>. QED  BY <2>2, <2>3, <2>4
<1>5. ASSUME NEW select \in Peer, NEW s \in Intf, NEW d \in Intf,
             AddMpPath(select, s, d)
      PROVE  Stays
  BY <1>0, <1>5, StatusKept DEF AddMpPath, Running
<1>6. ASSUME NEW select \in Peer, NEW s \in Intf, NEW d \in Intf,
             DeleteMpPath(select, s, d)
      PROVE  Stays
  BY <1>0, <1>6, DeleteMpathGood DEF DeleteMpPath, Running
<1>7. ASSUME NEW daddr \in Dest, Forward(daddr)
      PROVE  \/ Stays
             \/ /\ table.status = "ok" /\ table'.status = "hung"
                /\ table'.mptable = table.mptable /\ TwoPaths(table)
  <2>1. table.status = "ok" /\ table' = lookup_mp(table, daddr, now).table
    BY <1>7 DEF Forward, Running
  <2>2. \/ table'.status = table.status
        \/ table'.status = "hung" /\ table'.mptable = table.mptable /\ TwoPaths(table)
    BY <1>0, <2>1, LookupStatus
  <2>. QED  BY <2>1, <2>2
<1>8. ASSUME NEW select \in Peer, NEW s \in Intf, NEW d \in Intf
      PROVE  /\ Good(update_rtime(table, select, s, d, now))
             /\ update_rtime(table, select, s, d, now).status = table.status
  BY <1>0, UpdateRtimeGood
<1>9. ASSUME NEW select \in Peer, NEW s \in Intf, NEW d \in Intf,
             Heard(select, s, d)
      PROVE  Stays
  BY <1>8, <1>9 DEF Heard, Running
<1>10. ASSUME NEW select \in Peer, NEW s \in Intf, NEW d \in Intf,
              NEW t \in SentTimes, RecvPing(select, s, d, t)
       PROVE  Stays
  <2>1. t \in Int
    BY DEF SentTimes
  <2>. QED  BY <1>0, <1>8, <1>10, <2>1, UpdateRdelayGood DEF RecvPing, Running
<1>11. ASSUME NEW select \in Peer, NEW s \in Intf, NEW d \in Intf,
              NEW t \in SentTimes, NEW seq \in 0..(SeqSpace - 1),
              RecvBak(select, s, d, t, seq)
       PROVE  Stays
  <2>1. t \in Int /\ seq \in Int
    BY DEF SentTimes
  <2>. QED  BY <1>8, <1>11, <2>1, UpdateSdelayGood DEF RecvBak, Running
<1>12. CASE SendPings
  BY <1>0, <1>12, PingRoundGood DEF SendPings, Running
<1>13. CASE Tick
  BY <1>13 DEF Tick, Running
<1>. QED
  BY <1>1, <1>2, <1>3, <1>4, <1>5, <1>6, <1>7, <1>9, <1>10, <1>11, <1>12, <1>13,
     Zenon DEF Next, Command, Traffic

(* The table code crashes exactly on the deletion of a peer that is not    *)
(* the last one added.                                                     *)
THEOREM CrashCharacterised == Spec => CrashesOnOlderPeer
<1>1. IInv /\ [Next]_vars =>
        [table'.status = "crashed" <=>
           \E select \in Peer : DeleteSelect(select) /\ SelectIdx(table, select) > 1]_vars
  <2>1. SUFFICES ASSUME IInv, Next
                 PROVE  table'.status = "crashed" <=>
                          \E select \in Peer :
                            DeleteSelect(select) /\ SelectIdx(table, select) > 1
    OBVIOUS
  <2>2. ASSUME NEW select \in Peer, DeleteSelect(select), SelectIdx(table, select) > 1
        PROVE  table'.status = "crashed"
    BY <2>1, <2>2, DeleteSelectGood DEF IInv, DeleteSelect
  <2>3. table'.status = "crashed" =>
          \E select \in Peer : DeleteSelect(select) /\ SelectIdx(table, select) > 1
    BY <2>1, StepStatus
  <2>. QED  BY <2>2, <2>3
<1>. QED  BY <1>1, AlwaysGood, PTL DEF Spec, CrashesOnOlderPeer

(* A lookup hangs only on a peer with two different paths. *)
THEOREM HangCharacterised == Spec => []HangNeedsTwoPaths
<1> DEFINE J == table.status = "hung" => TwoPaths(table)
<1>1. Init => J
  BY DEF Init, EmptyTable
<1>2. IInv /\ J /\ [Next]_vars => J'
  <2>1. SUFFICES ASSUME IInv, J, [Next]_vars PROVE J'
    OBVIOUS
  <2>2. CASE Next
    <3>1. TwoPaths(table) /\ table'.mptable = table.mptable => TwoPaths(table')
      BY DEF TwoPaths
    <3>2. TwoPaths(table)' = TwoPaths(table')
      BY DEF TwoPaths
    <3>. QED  BY <2>1, <2>2, <3>1, <3>2, StepStatus
  <2>3. CASE UNCHANGED vars
    BY <2>1, <2>3 DEF vars, TwoPaths
  <2>. QED  BY <2>1, <2>2, <2>3
<1>3. J => HangNeedsTwoPaths
  BY DEF TwoPaths, HangNeedsTwoPaths
<1>. QED  BY <1>1, <1>2, <1>3, AlwaysGood, PTL DEF Spec

(* The lookup that follows find_MP uses the route find_MP looked at. *)
THEOREM FindMPSound == Spec => []FindMPAgrees
<1>1. IInv => FindMPAgrees
  <2>1. SUFFICES ASSUME IInv, NEW daddr \in Dest, find_MP(table, daddr)
                 PROVE  MpRouteIdx(table, daddr) = MatchIdx(table, daddr)
    BY DEF FindMPAgrees
  <2> DEFINE I == {i \in DOMAIN table.rtable : Matches(table, i, daddr)}
             J == {i \in DOMAIN table.rtable : /\ Matches(table, i, daddr)
                                               /\ table.rtable[i].mp_flag
                                               /\ table.rtable[i].mptable # NULL}
  <2>2. /\ table \in Table /\ DOMAIN table.rtable = 1..Len(table.rtable)
        /\ Len(table.rtable) \in Nat
    BY <2>1, TableFields DEF IInv, Good
  <2>3. I \subseteq Nat \ {0} /\ J \subseteq I
    BY <2>2
  <2>4. First(I) # 0 /\ table.rtable[First(I)].mp_flag
    BY <2>1 DEF find_MP, MatchIdx
  <2>5. First(I) \in I /\ \A j \in I : First(I) <= j
    <3> HIDE DEF I
    <3>. QED  BY <2>3, <2>4, FirstOf
  <2>6. First(I) \in J
    <3>1. table.rtable[First(I)].mptable \in Live(table)
      BY <2>1, <2>4, <2>5 DEF IInv, Good, PointersLive
    <3>2. Live(table) \subseteq MPtr
      BY <2>2, TableFields, MpathFields DEF Live
    <3>. QED  BY <2>4, <2>5, <3>1, <3>2, PtrAssumption
  <2>7. First(J) \in J /\ \A j \in J : First(J) <= j
    <3> HIDE DEF I, J
    <3>1. J \subseteq Nat \ {0} /\ J # {}
      BY <2>3, <2>6
    <3>. QED  BY <3>1, FirstOf
  <2>8. First(J) = First(I)
    <3> HIDE DEF I, J
    <3>1. First(I) \in Nat /\ First(J) \in Nat
      BY <2>3, <2>5, <2>7
    <3>2. First(I) <= First(J) /\ First(J) <= First(I)
      BY <2>3, <2>5, <2>6, <2>7
    <3>. QED  BY <3>1, <3>2
  <2>. QED  BY <2>8 DEF MpRouteIdx, MatchIdx
<1>. QED  BY <1>1, AlwaysGood, PTL

-----------------------------------------------------------------------------
(* Every step is a step of the map, or changes nothing of it. *)

MapStep == RM!Next \/ UNCHANGED RM!vars

(* RouteMap's own instances of the library are the library. *)
LEMMA SameLibrary ==
  ASSUME NEW e, NEW q, NEW k, NEW I
  PROVE  /\ RM!Cons(e, q) = Cons(e, q) /\ RM!RemoveAt(q, k) = RemoveAt(q, k)
         /\ RM!Range(q) = Range(q) /\ RM!Min(I) = Min(I)
BY DEF RM!Cons, Cons, RM!RemoveAt, RemoveAt, RM!Range, Range, RM!Min, Min

(* Both lists are searched for the newest entry with a key. *)
LEMMA KeyIs ==
  ASSUME NEW g, NEW m, Good(table)
  PROVE  RM!Key(g, m) = RouteIdx(table, g, m)
<1>1. /\ DOMAIN absRoutes = DOMAIN table.rtable
      /\ \A i \in DOMAIN table.rtable : absRoutes[i] = AbsRoute(table, table.rtable[i])
  BY AbsRoutesType DEF absRoutes
<1>2. \A i \in DOMAIN table.rtable : /\ absRoutes[i].seg = table.rtable[i].daddr_seg
                                     /\ absRoutes[i].mask = table.rtable[i].mask
  BY <1>1, AbsRouteFields
<1>3. {i \in DOMAIN absRoutes : absRoutes[i].seg = g /\ absRoutes[i].mask = m}
      = {i \in DOMAIN table.rtable : /\ table.rtable[i].daddr_seg = g
                                     /\ table.rtable[i].mask = m}
  BY <1>1, <1>2
<1> DEFINE I == {i \in DOMAIN table.rtable : /\ table.rtable[i].daddr_seg = g
                                             /\ table.rtable[i].mask = m}
<1>4. RM!Key(g, m) = RM!Newest(I) /\ RouteIdx(table, g, m) = First(I)
  BY <1>3 DEF RM!Key, RouteIdx
<1> HIDE DEF I
<1>. QED  BY <1>4, SameLibrary DEF RM!Newest, First

LEMMA SameMapStep ==
  ASSUME SameMap(table, table'), table'.status = table.status
  PROVE  MapStep
<1>1. absRoutes' = absRoutes /\ absPeers' = absPeers
  BY DEF SameMap, absRoutes, absPeers
<1>2. Running' = Running
  BY DEF Running
<1>. QED  BY <1>1, <1>2 DEF MapStep, RM!vars

LEMMA AddRouteItemStep ==
  ASSUME Good(table), NEW g \in Seg, NEW m \in Mask, NEW h \in Hop, AddRouteItem(g, m, h)
  PROVE  MapStep
<1>1. Running /\ table' = add_item(table, g, m, h)
  BY DEF AddRouteItem
<1>2. /\ AbsRoutes(table') = Cons(NewRoute(g, m, h), AbsRoutes(table))
      /\ AbsPeers(table') = AbsPeers(table) /\ table'.status = table.status
  BY <1>1, AddItemMap
<1>3. /\ absRoutes' = Cons(NewRoute(g, m, h), absRoutes) /\ absPeers' = absPeers
      /\ Running' = Running
  BY <1>2 DEF absRoutes, absPeers, Running
<1>4. RM!AddRoute(g, m, h)
  <2> DEFINE x == NewRoute(g, m, h)
  <2>1. x = [seg |-> g, mask |-> m, hop |-> h, peer |-> None]
    BY DEF NewRoute
  <2> HIDE DEF x
  <2>2. absRoutes' = RM!Cons(x, absRoutes)
    BY <1>3, SameLibrary DEF x
  <2>. QED  BY <1>3, <2>1, <2>2 DEF RM!AddRoute
<1>. QED  BY <1>1, <1>4, Zenon DEF MapStep, RM!Next

LEMMA DeleteRouteItemStep ==
  ASSUME Good(table), NEW g \in Seg, NEW m \in Mask, DeleteRouteItem(g, m)
  PROVE  MapStep
<1> DEFINE k == RouteIdx(table, g, m)
<1>1. Running /\ table' = delete_item(table, g, m)
  BY DEF DeleteRouteItem
<1>2. CASE k = 0
  <2>1. table' = table
    BY <1>1, <1>2 DEF delete_item
  <2>. QED  BY <2>1, SameMapStep DEF SameMap
<1>3. CASE k # 0
  <2>1. /\ AbsRoutes(table') = RemoveAt(AbsRoutes(table), k)
        /\ AbsPeers(table') = AbsPeers(table) /\ table'.status = table.status
    BY <1>1, <1>3, DeleteItemMap
  <2>2. k = RM!Key(g, m)
    BY KeyIs
  <2> HIDE DEF k
  <2>3. /\ absRoutes' = RemoveAt(absRoutes, k) /\ absPeers' = absPeers
        /\ Running' = Running
    BY <2>1 DEF absRoutes, absPeers, Running
  <2>4. RM!DeleteRoute(g, m)
    <3>1. absRoutes' = RM!RemoveAt(absRoutes, k)
      BY <2>3, SameLibrary
    <3>. QED  BY <1>3, <2>2, <2>3, <3>1 DEF RM!DeleteRoute
  <2>. QED  BY <1>1, <2>4, Zenon DEF MapStep, RM!Next
<1>. QED  BY <1>2, <1>3

LEMMA AttachSelectStep ==
  ASSUME Good(table), NEW g \in Seg, NEW m \in Mask, NEW p \in Peer, AttachSelect(g, m, p)
  PROVE  MapStep
<1> DEFINE r == RouteIdx(table, g, m)
           k == SelectIdx(table, p)
<1>1. Running /\ table' = attach_select(table, g, m, p)
  BY DEF AttachSelect
<1>2. CASE r = 0 \/ k = 0
  <2>1. table' = table
    BY <1>1, <1>2 DEF attach_select
  <2>. QED  BY <2>1, SameMapStep DEF SameMap
<1>3. CASE r # 0 /\ k # 0
  <2>0. table \in Table
    BY DEF Good
  <2>1. r \in DOMAIN table.rtable /\ k \in DOMAIN table.mptable
        /\ table.mptable[k].select_addr = p
    BY <1>3, <2>0, RouteIdxType, SelectIdxType
  <2>2. table' = BoundTo(table, r, TRUE, table.mptable[k].ptr)
    BY <1>1, <1>3 DEF attach_select, BoundTo
  <2>3. r = RM!Key(g, m)
    BY KeyIs
  <2> HIDE DEF r, k
  <2>4. table.mptable[k].ptr \in MPtr \cup {NULL, Uninit}
    BY <2>0, <2>1, TableFields, MpathFields
  <2> DEFINE a == table.mptable[k].ptr
  <2>5. /\ AbsRoutes(table') = Rebound(AbsRoutes(table), r, p)
        /\ AbsPeers(table') = AbsPeers(table) /\ table'.status = table.status
    <3> DEFINE f == TRUE
    <3>1. Binding(table, f, a, p)
      BY <2>1 DEF Binding, PointsTo
    <3>2. /\ table' = BoundTo(table, r, f, a) /\ a \in MPtr \cup {NULL, Uninit}
          /\ f \in BOOLEAN
      BY <2>2, <2>4
    <3> HIDE DEF a, f
    <3>. QED  BY <2>1, <3>1, <3>2, BindMap
  <2>6. /\ absRoutes' = Rebound(absRoutes, r, p) /\ absPeers' = absPeers
        /\ Running' = Running
    BY <2>5 DEF absRoutes, absPeers, Running
  <2>7. p \in DOMAIN absPeers
    BY <2>1, AbsPeersType DEF absPeers
  <2>8. RM!Bind(g, m, p)
    BY <1>3, <2>3, <2>6, <2>7 DEF RM!Bind, Rebound
  <2>. QED  BY <1>1, <2>8, Zenon DEF MapStep, RM!Next
<1>. QED  BY <1>2, <1>3

LEMMA DetachSelectStep ==
  ASSUME Good(table), NEW g \in Seg, NEW m \in Mask, NEW p \in Peer, DetachSelect(g, m, p)
  PROVE  MapStep
<1> DEFINE r == RouteIdx(table, g, m)
           k == SelectIdx(table, p)
<1>1. Running /\ table' = detach_select(table, g, m, p)
  BY DEF DetachSelect
<1>2. CASE r = 0 \/ k = 0
  <2>1. table' = table
    BY <1>1, <1>2 DEF detach_select
  <2>. QED  BY <2>1, SameMapStep DEF SameMap
<1>3. CASE r # 0 /\ k # 0
  <2>0. table \in Table
    BY DEF Good
  <2>1. r \in DOMAIN table.rtable /\ k \in DOMAIN table.mptable
    BY <1>3, <2>0, RouteIdxType, SelectIdxType
  <2>2. table' = BoundTo(table, r, FALSE, NULL)
    BY <1>1, <1>3 DEF detach_select, BoundTo
  <2>3. r = RM!Key(g, m)
    BY KeyIs
  <2> HIDE DEF r, k
  <2>4. /\ AbsRoutes(table') = Rebound(AbsRoutes(table), r, None)
        /\ AbsPeers(table') = AbsPeers(table) /\ table'.status = table.status
    <3> DEFINE a == NULL
               f == FALSE
    <3>1. /\ table' = BoundTo(table, r, f, a) /\ a \in MPtr \cup {NULL, Uninit}
          /\ f \in BOOLEAN /\ Binding(table, f, a, None)
      BY <2>2 DEF Binding
    <3> HIDE DEF a, f
    <3>. QED  BY <2>1, <3>1, BindMap
  <2>5. /\ absRoutes' = Rebound(absRoutes, r, None) /\ absPeers' = absPeers
        /\ Running' = Running
    BY <2>4 DEF absRoutes, absPeers, Running
  <2>6. absPeers # << >>
    <3>1. table.mptable[k].select_addr \in DOMAIN absPeers
      BY <2>1, AbsPeersType DEF absPeers
    <3>. QED  BY <3>1
  <2>7. RM!Unbind(g, m)
    BY <1>3, <2>3, <2>5, <2>6 DEF RM!Unbind, Rebound
  <2>. QED  BY <1>1, <2>7, Zenon DEF MapStep, RM!Next
<1>. QED  BY <1>2, <1>3

LEMMA AddMpPathStep ==
  ASSUME Good(table), now \in Nat, NEW p \in Peer, NEW s \in Intf, NEW d \in Intf,
         AddMpPath(p, s, d)
  PROVE  MapStep
<1>1. PICK fresh \in MPtr \ Live(table) : table' = add_mpath(table, p, s, d, fresh, now)
  BY DEF AddMpPath
<1>2. /\ AbsRoutes(table') = AbsRoutes(table) /\ table'.status = table.status
      /\ AbsPeers(table') = MorePaths(AbsPeers(table), p, Ends(s, d))
  BY <1>1, AddMpathMap
<1>3. /\ absRoutes' = absRoutes /\ absPeers' = MorePaths(absPeers, p, Ends(s, d))
      /\ Running' = Running
  BY <1>2 DEF absRoutes, absPeers, Running
<1>4. RM!AddPath(p, s, d)
  <2> DEFINE x == Ends(s, d)
             o == IF p \in DOMAIN absPeers THEN absPeers[p] ELSE << >>
  <2>1. RM!Cons(x, o) = Cons(x, o)
    BY SameLibrary
  <2>2. absPeers' = [q \in DOMAIN absPeers \cup {p} |->
                       IF q # p THEN absPeers[q] ELSE RM!Cons(x, o)]
    BY <1>3, <2>1 DEF MorePaths
  <2>. QED  BY <1>3, <2>2 DEF RM!AddPath, Ends
<1>5. Running
  BY DEF AddMpPath
<1>. QED  BY <1>4, <1>5, Zenon DEF MapStep, RM!Next

LEMMA DeleteMpPathStep ==
  ASSUME Good(table), NEW p \in Peer, NEW s \in Intf, NEW d \in Intf, DeleteMpPath(p, s, d)
  PROVE  MapStep
<1>1. Running /\ table' = delete_mpath(table, p, s, d)
  BY DEF DeleteMpPath
<1>2. /\ table'.status = table.status
      /\ \/ SameMap(table, table')
         \/ /\ p \in DOMAIN AbsPeers(table)
            /\ Ends(s, d) \in Range(AbsPeers(table)[p])
            /\ AbsRoutes(table') = AbsRoutes(table)
            /\ AbsPeers(table') = LessPaths(AbsPeers(table), p, Ends(s, d))
  <2> DEFINE U == delete_mpath(table, p, s, d)
  <2>1. /\ U.status = table.status
        /\ \/ SameMap(table, U)
           \/ /\ p \in DOMAIN AbsPeers(table)
              /\ Ends(s, d) \in Range(AbsPeers(table)[p])
              /\ AbsRoutes(U) = AbsRoutes(table)
              /\ AbsPeers(U) = LessPaths(AbsPeers(table), p, Ends(s, d))
    BY DeleteMpathMap
  <2> HIDE DEF U
  <2>2. table' = U
    BY <1>1 DEF U
  <2>. QED  BY <2>1, <2>2
<1>3. CASE SameMap(table, table')
  BY <1>2, <1>3, SameMapStep
<1>4. CASE ~ SameMap(table, table')
  <2>1. /\ p \in DOMAIN absPeers /\ Ends(s, d) \in Range(absPeers[p])
        /\ absRoutes' = absRoutes /\ absPeers' = LessPaths(absPeers, p, Ends(s, d))
        /\ Running' = Running
    BY <1>2, <1>4 DEF absRoutes, absPeers, Running
  <2>2. RM!DeletePath(p, s, d)
    <3> DEFINE x == Ends(s, d)
               q == absPeers[p]
    <3>1. /\ RM!RemoveAt(q, RM!Min(At(q, x))) = RemoveAt(q, Min(At(q, x)))
          /\ RM!Range(q) = Range(q)
      BY SameLibrary
    <3>2. absPeers' = [absPeers EXCEPT ![p] = RM!RemoveAt(q, RM!Min(At(q, x)))]
      BY <2>1, <3>1 DEF LessPaths
    <3>3. x \in RM!Range(q)
      BY <2>1, <3>1
    <3>. QED  BY <2>1, <3>2, <3>3 DEF RM!DeletePath, Ends, At
  <2>. QED  BY <1>1, <2>2, Zenon DEF MapStep, RM!Next
<1>. QED  BY <1>3, <1>4

LEMMA DeleteSelectStep ==
  ASSUME Good(table), NEW p \in Peer, DeleteSelect(p)
  PROVE  MapStep
<1>1. Running /\ table' = delete_select(table, p)
  BY DEF DeleteSelect
<1>2. \/ SameMap(table, table') /\ table'.status = table.status
      \/ /\ p \in DOMAIN AbsPeers(table)
         /\ AbsRoutes(table') = UnboundIn(AbsRoutes(table), p)
         /\ \/ AbsPeers(table') = Without(AbsPeers(table), p) /\ table'.status = table.status
            \/ /\ AbsPeers(table') = AbsPeers(table) /\ table'.status = "crashed"
               /\ DOMAIN AbsPeers(table) # {p}
  <2> DEFINE D == delete_select(table, p)
  <2>1. \/ SameMap(table, D) /\ D.status = table.status
        \/ /\ p \in DOMAIN AbsPeers(table)
           /\ AbsRoutes(D) = UnboundIn(AbsRoutes(table), p)
           /\ \/ AbsPeers(D) = Without(AbsPeers(table), p) /\ D.status = table.status
              \/ /\ AbsPeers(D) = AbsPeers(table) /\ D.status = "crashed"
                 /\ DOMAIN AbsPeers(table) # {p}
    BY DeleteSelectMap
  <2> HIDE DEF D
  <2>2. table' = D
    BY <1>1 DEF D
  <2>. QED  BY <2>1, <2>2
<1>3. CASE SameMap(table, table') /\ table'.status = table.status
  BY <1>3, SameMapStep
<1>4. CASE /\ p \in DOMAIN AbsPeers(table)
           /\ AbsRoutes(table') = UnboundIn(AbsRoutes(table), p)
           /\ AbsPeers(table') = Without(AbsPeers(table), p) /\ table'.status = table.status
  <2>1. /\ p \in DOMAIN absPeers /\ absRoutes' = UnboundIn(absRoutes, p)
        /\ absPeers' = Without(absPeers, p) /\ Running' = Running
    BY <1>4 DEF absRoutes, absPeers, Running
  <2>2. RM!DeletePeer(p)
    BY <2>1 DEF RM!DeletePeer, RM!Unbound, Without, UnboundIn, WithPeer
  <2>. QED  BY <1>1, <2>2, Zenon DEF MapStep, RM!Next
<1>5. CASE /\ p \in DOMAIN AbsPeers(table)
           /\ AbsRoutes(table') = UnboundIn(AbsRoutes(table), p)
           /\ AbsPeers(table') = AbsPeers(table) /\ table'.status = "crashed"
           /\ DOMAIN AbsPeers(table) # {p}
  <2>1. /\ p \in DOMAIN absPeers /\ DOMAIN absPeers # {p}
        /\ absRoutes' = UnboundIn(absRoutes, p)
        /\ absPeers' = absPeers /\ Running' = FALSE
    BY <1>5 DEF absRoutes, absPeers, Running
  <2>2. RM!Crash(p)
    BY <2>1 DEF RM!Crash, RM!Unbound, UnboundIn, WithPeer
  <2>. QED  BY <1>1, <2>2, Zenon DEF MapStep, RM!Next
<1>. QED  BY <1>2, <1>3, <1>4, <1>5

LEMMA ForwardStep ==
  ASSUME Good(table), now \in Nat, NEW daddr, Forward(daddr)
  PROVE  MapStep
<1>1. Running /\ table' = lookup_mp(table, daddr, now).table
  BY DEF Forward
<1>2. /\ SameMap(table, table')
      /\ \/ table'.status = table.status
         \/ /\ table'.status = "hung"
            /\ \E p \in DOMAIN AbsPeers(table) :
                 /\ Differ(AbsPeers(table)[p])
                 /\ \E i \in DOMAIN AbsRoutes(table) : AbsRoutes(table)[i].peer = p
  BY <1>1, LookupMap
<1>3. CASE table'.status = table.status
  BY <1>2, <1>3, SameMapStep
<1>4. CASE table'.status # table.status
  <2>1. PICK p \in DOMAIN absPeers : /\ Differ(absPeers[p])
                                     /\ \E i \in DOMAIN absRoutes : absRoutes[i].peer = p
    BY <1>2, <1>4 DEF absPeers, absRoutes
  <2>2. absRoutes' = absRoutes /\ absPeers' = absPeers /\ Running' = FALSE
    BY <1>2, <1>4 DEF absRoutes, absPeers, Running, SameMap
  <2>3. RM!Hang(p)
    BY <2>1, <2>2 DEF RM!Hang, Differ
  <2>4. p \in Peer
    <3>1. p \in Peers(table)
      BY <2>1, AbsPeersType DEF absPeers
    <3>2. PICK k \in DOMAIN table.mptable : p = table.mptable[k].select_addr
      BY <3>1 DEF Peers
    <3>. QED  BY <3>2, PathsOf, MpathFields
  <2>. QED  BY <1>1, <2>3, <2>4, Zenon DEF MapStep, RM!Next
<1>. QED  BY <1>3, <1>4

LEMMA HeardStep ==
  ASSUME Good(table), now \in Nat, NEW p, NEW s \in Intf, NEW d \in Intf
  PROVE  /\ Heard(p, s, d) => MapStep
         /\ \A t \in SentTimes : RecvPing(p, s, d, t) => MapStep
         /\ \A t \in SentTimes, seq \in 0..(SeqSpace - 1) :
              RecvBak(p, s, d, t, seq) => MapStep
<1> DEFINE U == update_rtime(table, p, s, d, now)
<1>1. SameMap(table, U) /\ Good(U) /\ U.status = table.status
  BY RtimeMap
<1> HIDE DEF U
<1>2. ASSUME Heard(p, s, d)  PROVE MapStep
  <2>1. table' = U
    BY <1>2 DEF Heard, U
  <2>. QED  BY <1>1, <2>1, SameMapStep
<1>3. ASSUME NEW t \in SentTimes, RecvPing(p, s, d, t)  PROVE MapStep
  <2>1. t \in Int
    BY DEF SentTimes
  <2>2. table' = update_rdelay(U, p, s, d, t, now)
    BY <1>3 DEF RecvPing, U
  <2>3. SameMap(U, table') /\ table'.status = U.status
    BY <1>1, <2>1, <2>2, RdelayMap
  <2>4. SameMap(table, table')
    BY <1>1, <2>3, SameMapTrans
  <2>. QED  BY <1>1, <2>3, <2>4, SameMapStep
<1>4. ASSUME NEW t \in SentTimes, NEW seq \in 0..(SeqSpace - 1), RecvBak(p, s, d, t, seq)
      PROVE  MapStep
  <2>1. t \in Int /\ seq \in Int
    BY SeqSpaceAssumption DEF SentTimes
  <2>2. table' = update_sdelay(U, p, s, d, t, seq)
    BY <1>4 DEF RecvBak, U
  <2>3. SameMap(U, table') /\ table'.status = U.status
    BY <1>1, <2>1, <2>2, SdelayMap
  <2>4. SameMap(table, table')
    BY <1>1, <2>3, SameMapTrans
  <2>. QED  BY <1>1, <2>3, <2>4, SameMapStep
<1>. QED  BY <1>2, <1>3, <1>4

(* The pointer table implements the map: after any sequence of commands    *)
(* and packets, whatever addresses operator new reuses, a command has done *)
(* to the routes, their peers and the peers' paths what the comments of    *)
(* mpSelect_rtable.h say and nothing else, and the two ways the process    *)
(* can stop are those RouteMap names.                                      *)
THEOREM TableImplementsRouteMap == Spec => RouteMapSpec
<1>1. Init => RM!Init
  <2> SUFFICES ASSUME Init PROVE RM!Init
    OBVIOUS
  <2>1. /\ table.rtable = << >> /\ table.mptable = << >> /\ Running
    BY DEF Init, EmptyTable, Running
  <2>2. absRoutes = << >>
    <3>1. DOMAIN table.rtable = {}
      BY <2>1
    <3>2. absRoutes = [i \in {} |-> AbsRoute(table, table.rtable[i])]
      BY <3>1 DEF absRoutes, AbsRoutes
    <3>. QED  BY <3>2
  <2>3. absPeers = << >>
    <3>1. Peers(table) = {}
      BY <2>1 DEF Peers
    <3>2. absPeers = [p \in {} |-> AbsPaths(table.mptable[SelectIdx(table, p)].paths)]
      BY <3>1 DEF absPeers, AbsPeers
    <3>. QED  BY <3>2
  <2>4. Running = TRUE
    BY <2>1 DEF Running
  <2>. QED  BY <2>2, <2>3, <2>4 DEF RM!Init
<1>2. IInv /\ [Next]_vars => MapStep
  <2> SUFFICES ASSUME IInv, [Next]_vars PROVE MapStep
    OBVIOUS
  <2>0. Good(table) /\ now \in Nat
    BY DEF IInv
  <2>1. ASSUME NEW g \in Seg, NEW m \in Mask, NEW h \in Hop, AddRouteItem(g, m, h)
        PROVE  MapStep
    BY <2>0, <2>1, AddRouteItemStep
  <2>2. ASSUME NEW g \in Seg, NEW m \in Mask, DeleteRouteItem(g, m)
        PROVE  MapStep
    BY <2>0, <2>2, DeleteRouteItemStep
  <2>3. ASSUME NEW g \in Seg, NEW m \in Mask, NEW select \in Peer,
               AttachSelect(g, m, select) \/ DetachSelect(g, m, select)
        PROVE  MapStep
    BY <2>0, <2>3, AttachSelectStep, DetachSelectStep
  <2>4. ASSUME NEW select \in Peer, DeleteSelect(select)
        PROVE  MapStep
    BY <2>0, <2>4, DeleteSelectStep
  <2>5. ASSUME NEW select \in Peer, NEW s \in Intf, NEW d \in Intf,
               AddMpPath(select, s, d) \/ DeleteMpPath(select, s, d)
        PROVE  MapStep
    BY <2>0, <2>5, AddMpPathStep, DeleteMpPathStep
  <2>6. ASSUME NEW daddr \in Dest, Forward(daddr)
        PROVE  MapStep
    BY <2>0, <2>6, ForwardStep
  <2>7. ASSUME NEW select \in Peer, NEW s \in Intf, NEW d \in Intf
        PROVE  /\ Heard(select, s, d) => MapStep
               /\ \A t \in SentTimes : RecvPing(select, s, d, t) => MapStep
               /\ \A t \in SentTimes, seq \in 0..(SeqSpace - 1) :
                    RecvBak(select, s, d, t, seq) => MapStep
    BY <2>0, HeardStep
  <2>8. CASE SendPings
    BY <2>0, <2>8, PingRoundMap, SameMapStep DEF SendPings
  <2>9. CASE table' = table
    BY <2>9, SameMapStep DEF SameMap
  <2>. QED
    BY <2>1, <2>2, <2>3, <2>4, <2>5, <2>6, <2>7, <2>8, <2>9, Zenon
       DEF Next, Command, Traffic, Tick, vars
<1>. QED  BY <1>1, <1>2, AlwaysGood, PTL DEF Spec, MapStep, RouteMapSpec, RM!Spec
===============================================================================
