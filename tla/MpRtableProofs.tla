---------------------------- MODULE MpRtableProofs -----------------------------
(***************************************************************************)
(* What the methods of mpath and mpRtable do to a table, for any set of    *)
(* addresses and any number of routes, peers and paths: each keeps a Good  *)
(* table Good, and does to the map it stands for (AbsRoutes, AbsPeers)     *)
(* what the lemma of its name says.                                        *)
(***************************************************************************)
EXTENDS TableMap, ListLemmas, FiniteSetTheorems

(* First picks the least position of a set of positions, 0 when empty. *)
LEMMA FirstOf ==
  ASSUME NEW I, I \subseteq Nat \ {0}
  PROVE  /\ First(I) = 0 <=> I = {}
         /\ I # {} => First(I) \in I /\ \A j \in I : First(I) <= j
<1>1. CASE I = {}
  BY <1>1 DEF First
<1>2. CASE I # {}
  <2>1. Min(I) \in I /\ \A j \in I : Min(I) <= j
    BY <1>2, MinNat
  <2>. QED  BY <1>2, <2>1 DEF First
<1>. QED  BY <1>1, <1>2

-----------------------------------------------------------------------------
(* The methods of mpath keep a path list a path list. *)

LEMMA PathIdxType ==
  ASSUME NEW paths \in Seq(Path), NEW s, NEW d
  PROVE  /\ PathIdx(paths, s, d) = 0 \/ PathIdx(paths, s, d) \in DOMAIN paths
         /\ DOMAIN paths = 1..Len(paths) /\ Len(paths) \in Nat
<1> DEFINE I == {i \in DOMAIN paths : Joins(paths[i], s, d)}
<1>1. DOMAIN paths = 1..Len(paths) /\ Len(paths) \in Nat
  BY LenProperties
<1>2. I \subseteq Nat \ {0} /\ I \subseteq DOMAIN paths
  BY <1>1
<1>3. PathIdx(paths, s, d) = First(I)
  BY DEF PathIdx
<1> HIDE DEF I
<1>. QED  BY <1>1, <1>2, <1>3, FirstOf

LEMMA NewItemType ==
  ASSUME NEW s \in Intf, NEW d \in Intf, NEW t \in Nat
  PROVE  NewItem(s, d, t) \in Path
BY SeqSpaceAssumption DEF NewItem, Path

LEMMA DeletePathType ==
  ASSUME NEW paths \in Seq(Path), NEW s \in Intf, NEW d \in Intf
  PROVE  delete_mpath_item(paths, s, d) \in Seq(Path)
BY PathIdxType, RemoveAtProperties DEF delete_mpath_item

(* Rewriting a field of a path. *)
LEMMA PathExcept ==
  ASSUME NEW p \in Path, NEW v \in Int, NEW c \in 0..(SeqSpace - 1)
  PROVE  /\ [p EXCEPT !.recv_delay = v] \in Path
         /\ [p EXCEPT !.send_delay = v] \in Path
         /\ [p EXCEPT !.last_recv_time = v] \in Path
         /\ [p EXCEPT !.ping_send_time = v, !.ping_seq = c] \in Path
         /\ [p EXCEPT !.cnt = p.cnt + 1] \in Path
<1>1. [p EXCEPT !.recv_delay = v] \in Path
  BY DEF Path
<1>2. [p EXCEPT !.send_delay = v] \in Path
  BY DEF Path
<1>3. [p EXCEPT !.last_recv_time = v] \in Path
  BY DEF Path
<1>4. [p EXCEPT !.ping_send_time = v, !.ping_seq = c] \in Path
  BY DEF Path
<1>5. [p EXCEPT !.cnt = p.cnt + 1] \in Path
  <2>1. p.cnt + 1 \in Nat
    BY DEF Path
  <2>. QED  BY <2>1 DEF Path
<1>. QED  BY <1>1, <1>2, <1>3, <1>4, <1>5

(* The fields of a path the formulas compute with. *)
LEMMA PathFields ==
  ASSUME NEW p \in Path
  PROVE  /\ p.ping_send_time \in Int /\ p.last_recv_time \in Int
         /\ p.ping_seq \in Nat /\ p.ping_seq \in 0..(SeqSpace - 1)
BY SeqSpaceAssumption DEF Path

LEMMA ModRange ==
  ASSUME NEW a \in Nat
  PROVE  a % SeqSpace \in 0..(SeqSpace - 1)
BY SeqSpaceAssumption

LEMMA SendDelayType ==
  ASSUME NEW paths \in Seq(Path), NEW s \in Intf, NEW d \in Intf,
         NEW t \in Int, NEW seq \in Int
  PROVE  update_send_delay(paths, s, d, t, seq) \in Seq(Path)
<1> DEFINE i == PathIdx(paths, s, d)
<1>1. CASE i # 0 /\ paths[i].ping_seq > seq
  <2> DEFINE v == t + (paths[i].ping_seq - seq - 1) * SEND_PING_INTERVAL
                    - paths[i].ping_send_time
  <2>1. i \in 1..Len(paths) /\ paths[i] \in Path
    BY <1>1, PathIdxType, ElementOfSeq
  <2>2. v \in Int
    <3>1. paths[i].ping_send_time \in Int /\ paths[i].ping_seq \in Nat
      BY <2>1, PathFields
    <3> HIDE DEF i
    <3>. QED  BY <3>1, IntervalAssumption
  <2>3. [paths[i] EXCEPT !.send_delay = v] \in Path
    <3>1. 0 \in 0..(SeqSpace - 1)
      BY SeqSpaceAssumption
    <3> HIDE DEF v, i
    <3>. QED  BY <2>1, <2>2, <3>1, PathExcept
  <2>4. update_send_delay(paths, s, d, t, seq)
          = [paths EXCEPT ![i] = [paths[i] EXCEPT !.send_delay = v]]
    BY <1>1 DEF update_send_delay
  <2> HIDE DEF v, i
  <2>. QED  BY <2>1, <2>3, <2>4, ExceptSeq
<1>2. CASE ~ (i # 0 /\ paths[i].ping_seq > seq)
  BY <1>2 DEF update_send_delay
<1>. QED  BY <1>1, <1>2

LEMMA RecvDelayType ==
  ASSUME NEW paths \in Seq(Path), NEW s \in Intf, NEW d \in Intf,
         NEW t \in Int, NEW u \in Int
  PROVE  update_recv_delay(paths, s, d, t, u) \in Seq(Path)
<1> DEFINE i == PathIdx(paths, s, d)
<1>1. CASE i # 0
  <2>1. i \in 1..Len(paths) /\ paths[i] \in Path
    BY <1>1, PathIdxType, ElementOfSeq
  <2>2. [paths[i] EXCEPT !.recv_delay = u - t] \in Path
    <3>1. 0 \in 0..(SeqSpace - 1) /\ u - t \in Int
      BY SeqSpaceAssumption
    <3> HIDE DEF i
    <3>. QED  BY <2>1, <3>1, PathExcept
  <2>3. update_recv_delay(paths, s, d, t, u)
          = [paths EXCEPT ![i] = [paths[i] EXCEPT !.recv_delay = u - t]]
    BY <1>1 DEF update_recv_delay
  <2> HIDE DEF i
  <2>. QED  BY <2>1, <2>2, <2>3, ExceptSeq
<1>2. CASE i = 0
  BY <1>2 DEF update_recv_delay
<1>. QED  BY <1>1, <1>2

LEMMA RecvTimeType ==
  ASSUME NEW paths \in Seq(Path), NEW s \in Intf, NEW d \in Intf, NEW t \in Int
  PROVE  update_recv_time(paths, s, d, t) \in Seq(Path)
<1> DEFINE i == PathIdx(paths, s, d)
<1>1. CASE i # 0
  <2>1. i \in 1..Len(paths) /\ paths[i] \in Path
    BY <1>1, PathIdxType, ElementOfSeq
  <2>2. [paths[i] EXCEPT !.last_recv_time = t] \in Path
    <3>1. 0 \in 0..(SeqSpace - 1) /\ t \in Int
      BY SeqSpaceAssumption
    <3> HIDE DEF i
    <3>. QED  BY <2>1, <3>1, PathExcept
  <2>3. update_recv_time(paths, s, d, t)
          = [paths EXCEPT ![i] = [paths[i] EXCEPT !.last_recv_time = t]]
    BY <1>1 DEF update_recv_time
  <2> HIDE DEF i
  <2>. QED  BY <2>1, <2>2, <2>3, ExceptSeq
<1>2. CASE i = 0
  BY <1>2 DEF update_recv_time
<1>. QED  BY <1>1, <1>2

LEMMA PingPathsType ==
  ASSUME NEW paths \in Seq(Path), NEW t \in Nat
  PROVE  ping_paths(paths, t) \in Seq(Path)
<1> DEFINE same(j) == {k \in DOMAIN paths :
                         Joins(paths[k], paths[j].s_intf, paths[j].d_intf)}
           f == ping_paths(paths, t)
<1>0. DOMAIN paths = 1..Len(paths) /\ Len(paths) \in Nat
  BY LenProperties
<1>1. ASSUME NEW j \in DOMAIN paths PROVE f[j] \in Path
  <2>1. paths[j] \in Path
    BY <1>0, ElementOfSeq
  <2>2. Cardinality(same(j)) \in Nat
    <3>1. IsFiniteSet(1..Len(paths))
      BY <1>0, FS_Interval
    <3>2. same(j) \subseteq 1..Len(paths)
      BY <1>0
    <3>. QED  BY <3>1, <3>2, FS_Subset, FS_CardinalityType
  <2> DEFINE c == (paths[j].ping_seq + Cardinality(same(j))) % SeqSpace
  <2>3. c \in 0..(SeqSpace - 1)
    <3>1. paths[j].ping_seq \in Nat
      BY <2>1, PathFields
    <3>2. paths[j].ping_seq + Cardinality(same(j)) \in Nat
      <4> HIDE DEF same
      <4>. QED  BY <2>2, <3>1
    <3> HIDE DEF same
    <3>. QED  BY <3>2, ModRange
  <2>4. f[j] = IF j = Min(same(j))
               THEN [paths[j] EXCEPT !.ping_send_time = t, !.ping_seq = c]
               ELSE paths[j]
    BY DEF ping_paths
  <2>5. [paths[j] EXCEPT !.ping_send_time = t, !.ping_seq = c] \in Path
    <3>1. t \in Int
      OBVIOUS
    <3> HIDE DEF c, same, f
    <3>. QED  BY <2>1, <2>3, <3>1, PathExcept, Zenon
  <2> HIDE DEF c, f, same
  <2>. QED  BY <2>1, <2>4, <2>5
<1>2. f \in [1..Len(paths) -> Path]
  <2>1. f = [j \in 1..Len(paths) |-> f[j]]
    BY <1>0 DEF ping_paths
  <2> HIDE DEF f
  <2>. QED  BY <1>0, <1>1, <2>1
<1> HIDE DEF f
<1>3. f \in Seq(Path)
  BY <1>0, <1>2, SeqDef
<1>. QED  BY <1>3 DEF f

-----------------------------------------------------------------------------
(* Every method keeps a table Good. *)

(* The parts of a table and the positions of its lists. *)
LEMMA TableFields ==
  ASSUME NEW T \in Table
  PROVE  /\ T.rtable \in Seq(Route) /\ T.mptable \in Seq(Mpath)
         /\ T.status \in {"ok", "crashed", "hung"}
         /\ DOMAIN T.rtable = 1..Len(T.rtable) /\ Len(T.rtable) \in Nat
         /\ DOMAIN T.mptable = 1..Len(T.mptable) /\ Len(T.mptable) \in Nat
         /\ \A i \in DOMAIN T.rtable : T.rtable[i] \in Route
         /\ \A i \in DOMAIN T.mptable : T.mptable[i] \in Mpath
<1>1. /\ T.rtable \in Seq(Route) /\ T.mptable \in Seq(Mpath)
      /\ T.status \in {"ok", "crashed", "hung"}
  BY DEF Table
<1>. QED  BY <1>1, LenProperties, ElementOfSeq

(* A table with one of its parts replaced. *)
LEMMA WithRtable ==
  ASSUME NEW T \in Table, NEW r \in Seq(Route)
  PROVE  /\ [T EXCEPT !.rtable = r] \in Table
         /\ [T EXCEPT !.rtable = r].rtable = r
         /\ [T EXCEPT !.rtable = r].mptable = T.mptable
         /\ [T EXCEPT !.rtable = r].status = T.status
BY DEF Table

LEMMA WithMptable ==
  ASSUME NEW T \in Table, NEW m \in Seq(Mpath)
  PROVE  /\ [T EXCEPT !.mptable = m] \in Table
         /\ [T EXCEPT !.mptable = m].mptable = m
         /\ [T EXCEPT !.mptable = m].rtable = T.rtable
         /\ [T EXCEPT !.mptable = m].status = T.status
BY DEF Table

LEMMA WithStatus ==
  ASSUME NEW T \in Table, NEW st \in {"ok", "crashed", "hung"}
  PROVE  /\ [T EXCEPT !.status = st] \in Table
         /\ [T EXCEPT !.status = st].rtable = T.rtable
         /\ [T EXCEPT !.status = st].mptable = T.mptable
         /\ [T EXCEPT !.status = st].status = st
BY DEF Table

LEMMA MpathFields ==
  ASSUME NEW m \in Mpath
  PROVE  m.ptr \in MPtr /\ m.select_addr \in Peer /\ m.paths \in Seq(Path)
BY DEF Mpath

(* A step that rewrites path lists only keeps the objects as they are. *)
SameObjects(T, U) ==
  /\ U.rtable = T.rtable
  /\ DOMAIN U.mptable = DOMAIN T.mptable
  /\ \A i \in DOMAIN T.mptable :
       /\ U.mptable[i].ptr = T.mptable[i].ptr
       /\ U.mptable[i].select_addr = T.mptable[i].select_addr
       /\ U.mptable[i].prev_select = T.mptable[i].prev_select

LEMMA SameObjectsGood ==
  ASSUME NEW T, NEW U, Good(T), U \in Table, SameObjects(T, U)
  PROVE  Good(U)
<1>1. Live(U) = Live(T)
  BY DEF Live, SameObjects
<1>2. PointersLive(U)
  BY <1>1 DEF Good, PointersLive, SameObjects
<1>3. ObjectsDistinct(U)
  BY DEF Good, ObjectsDistinct, SameObjects
<1>4. NoBackLinks(U)
  BY DEF Good, NoBackLinks, SameObjects
<1>. QED  BY <1>2, <1>3, <1>4 DEF Good

LEMMA WithPathsGood ==
  ASSUME NEW T, Good(T), NEW select, NEW np,
         \A i \in DOMAIN T.mptable : np[i] \in Seq(Path)
  PROVE  Good(WithPaths(T, select, np)) /\ WithPaths(T, select, np).status = T.status
<1> DEFINE m == [i \in DOMAIN T.mptable |->
                   IF T.mptable[i].select_addr = select
                   THEN [T.mptable[i] EXCEPT !.paths = np[i]]
                   ELSE T.mptable[i]]
<1>0. T \in Table
  BY DEF Good
<1>1. ASSUME NEW i \in DOMAIN T.mptable
      PROVE  /\ m[i] \in Mpath
             /\ m[i].ptr = T.mptable[i].ptr
             /\ m[i].select_addr = T.mptable[i].select_addr
             /\ m[i].prev_select = T.mptable[i].prev_select
  <2>1. T.mptable[i] \in Mpath /\ np[i] \in Seq(Path)
    BY <1>0, TableFields
  <2>2. m[i] = IF T.mptable[i].select_addr = select
               THEN [T.mptable[i] EXCEPT !.paths = np[i]]
               ELSE T.mptable[i]
    OBVIOUS
  <2> HIDE DEF m
  <2>3. CASE T.mptable[i].select_addr = select
    <3> DEFINE o == T.mptable[i]
               q == np[i]
    <3>1. m[i] = [o EXCEPT !.paths = q]
      BY <2>2, <2>3
    <3>2. o \in Mpath /\ q \in Seq(Path)
      BY <2>1
    <3> HIDE DEF o, q
    <3>3. /\ m[i] \in Mpath /\ m[i].ptr = o.ptr
          /\ m[i].select_addr = o.select_addr /\ m[i].prev_select = o.prev_select
      BY <3>1, <3>2 DEF Mpath
    <3>. QED  BY <3>3 DEF o
  <2>4. CASE T.mptable[i].select_addr # select
    BY <2>1, <2>2, <2>4
  <2>. QED  BY <2>3, <2>4
<1>2. m \in Seq(Mpath) /\ DOMAIN m = DOMAIN T.mptable
  <2>1. m \in [1..Len(T.mptable) -> Mpath] /\ DOMAIN m = DOMAIN T.mptable
    <3>1. m = [i \in DOMAIN T.mptable |-> m[i]]
      OBVIOUS
    <3>2. DOMAIN T.mptable = 1..Len(T.mptable)
      BY <1>0, TableFields
    <3> HIDE DEF m
    <3>. QED  BY <1>1, <3>1, <3>2
  <2>2. Len(T.mptable) \in Nat
    BY <1>0, TableFields
  <2> HIDE DEF m
  <2>. QED  BY <2>1, <2>2, SeqDef
<1>3. WithPaths(T, select, np) = [T EXCEPT !.mptable = m]
  BY DEF WithPaths
<1> DEFINE U == [T EXCEPT !.mptable = m]
<1>4. U \in Table /\ U.mptable = m /\ U.rtable = T.rtable /\ U.status = T.status
  <2> HIDE DEF m
  <2>. QED  BY <1>0, <1>2, WithMptable, Zenon
<1>5. SameObjects(T, U)
  <2> HIDE DEF m, U
  <2>. QED  BY <1>1, <1>2, <1>4 DEF SameObjects
<1> HIDE DEF m, U
<1>6. Good(U)
  BY <1>4, <1>5, SameObjectsGood
<1>. QED  BY <1>3, <1>4, <1>6 DEF U

-----------------------------------------------------------------------------
(* Each method of mpRtable keeps a good table good. *)

LEMMA DeleteMpathGood ==
  ASSUME NEW T, Good(T), NEW select, NEW s \in Intf, NEW d \in Intf
  PROVE  Good(delete_mpath(T, select, s, d)) /\ delete_mpath(T, select, s, d).status = T.status
<1> DEFINE np == [i \in DOMAIN T.mptable |-> delete_mpath_item(T.mptable[i].paths, s, d)]
<1>1. \A i \in DOMAIN T.mptable : np[i] \in Seq(Path)
  <2>1. \A i \in DOMAIN T.mptable : T.mptable[i].paths \in Seq(Path)
    BY TableFields, MpathFields DEF Good
  <2>. QED  BY <2>1, DeletePathType
<1>2. delete_mpath(T, select, s, d) = WithPaths(T, select, np)
  BY DEF delete_mpath
<1> HIDE DEF np
<1>. QED  BY <1>1, <1>2, WithPathsGood

LEMMA UpdateSdelayGood ==
  ASSUME NEW T, Good(T), NEW select, NEW s \in Intf, NEW d \in Intf,
         NEW t \in Int, NEW seq \in Int
  PROVE  Good(update_sdelay(T, select, s, d, t, seq)) /\ update_sdelay(T, select, s, d, t, seq).status = T.status
<1> DEFINE np == [i \in DOMAIN T.mptable |-> update_send_delay(T.mptable[i].paths, s, d, t, seq)]
<1>1. \A i \in DOMAIN T.mptable : np[i] \in Seq(Path)
  <2>1. \A i \in DOMAIN T.mptable : T.mptable[i].paths \in Seq(Path)
    BY TableFields, MpathFields DEF Good
  <2>. QED  BY <2>1, SendDelayType
<1>2. update_sdelay(T, select, s, d, t, seq) = WithPaths(T, select, np)
  BY DEF update_sdelay
<1> HIDE DEF np
<1>. QED  BY <1>1, <1>2, WithPathsGood

LEMMA UpdateRdelayGood ==
  ASSUME NEW T, Good(T), NEW select, NEW s \in Intf, NEW d \in Intf,
         NEW t \in Int, NEW u \in Int
  PROVE  Good(update_rdelay(T, select, s, d, t, u)) /\ update_rdelay(T, select, s, d, t, u).status = T.status
<1> DEFINE np == [i \in DOMAIN T.mptable |-> update_recv_delay(T.mptable[i].paths, s, d, t, u)]
<1>1. \A i \in DOMAIN T.mptable : np[i] \in Seq(Path)
  <2>1. \A i \in DOMAIN T.mptable : T.mptable[i].paths \in Seq(Path)
    BY TableFields, MpathFields DEF Good
  <2>. QED  BY <2>1, RecvDelayType
<1>2. update_rdelay(T, select, s, d, t, u) = WithPaths(T, select, np)
  BY DEF update_rdelay
<1> HIDE DEF np
<1>. QED  BY <1>1, <1>2, WithPathsGood

LEMMA UpdateRtimeGood ==
  ASSUME NEW T, Good(T), NEW select, NEW s \in Intf, NEW d \in Intf, NEW t \in Int
  PROVE  Good(update_rtime(T, select, s, d, t)) /\ update_rtime(T, select, s, d, t).status = T.status
<1> DEFINE np == [i \in DOMAIN T.mptable |-> update_recv_time(T.mptable[i].paths, s, d, t)]
<1>1. \A i \in DOMAIN T.mptable : np[i] \in Seq(Path)
  <2>1. \A i \in DOMAIN T.mptable : T.mptable[i].paths \in Seq(Path)
    BY TableFields, MpathFields DEF Good
  <2>. QED  BY <2>1, RecvTimeType
<1>2. update_rtime(T, select, s, d, t) = WithPaths(T, select, np)
  BY DEF update_rtime
<1> HIDE DEF np
<1>. QED  BY <1>1, <1>2, WithPathsGood

LEMMA PingRoundGood ==
  ASSUME NEW T, Good(T), NEW t \in Nat
  PROVE  Good(ping_round(T, t)) /\ ping_round(T, t).status = T.status
<1> DEFINE m == [i \in DOMAIN T.mptable |->
                   [T.mptable[i] EXCEPT !.paths = ping_paths(@, t)]]
           U == [T EXCEPT !.mptable = m]
<1>0. T \in Table
  BY DEF Good
<1>1. ASSUME NEW i \in DOMAIN T.mptable
      PROVE  /\ m[i] \in Mpath
             /\ m[i].ptr = T.mptable[i].ptr
             /\ m[i].select_addr = T.mptable[i].select_addr
             /\ m[i].prev_select = T.mptable[i].prev_select
  <2> DEFINE o == T.mptable[i]
             q == ping_paths(o.paths, t)
  <2>1. o \in Mpath /\ o.paths \in Seq(Path)
    BY <1>0, TableFields, MpathFields
  <2>2. q \in Seq(Path)
    BY <2>1, PingPathsType
  <2>3. m[i] = [o EXCEPT !.paths = q]
    OBVIOUS
  <2> HIDE DEF m, q
  <2>4. /\ m[i] \in Mpath /\ m[i].ptr = o.ptr
        /\ m[i].select_addr = o.select_addr /\ m[i].prev_select = o.prev_select
    <3> HIDE DEF o
    <3>. QED  BY <2>1, <2>2, <2>3 DEF Mpath
  <2>. QED  BY <2>4 DEF o
<1>2. m \in Seq(Mpath) /\ DOMAIN m = DOMAIN T.mptable
  <2>1. m = [i \in DOMAIN T.mptable |-> m[i]]
    OBVIOUS
  <2>2. DOMAIN T.mptable = 1..Len(T.mptable) /\ Len(T.mptable) \in Nat
    BY <1>0, TableFields
  <2> HIDE DEF m
  <2>3. m \in [1..Len(T.mptable) -> Mpath] /\ DOMAIN m = DOMAIN T.mptable
    BY <1>1, <2>1, <2>2
  <2>. QED  BY <2>2, <2>3, SeqDef
<1>3. ping_round(T, t) = U
  BY DEF ping_round
<1>4. U \in Table /\ U.mptable = m /\ U.rtable = T.rtable /\ U.status = T.status
  <2> HIDE DEF m
  <2>. QED  BY <1>0, <1>2, WithMptable, Zenon
<1>5. SameObjects(T, U)
  <2> HIDE DEF m, U
  <2>. QED  BY <1>1, <1>2, <1>4 DEF SameObjects
<1> HIDE DEF m, U
<1>. QED  BY <1>3, <1>4, <1>5, SameObjectsGood

(* Rewriting the path list of the object at one position. *)
LEMMA OnePathsGood ==
  ASSUME NEW T, Good(T), NEW k \in DOMAIN T.mptable, NEW q \in Seq(Path)
  PROVE  Good([T EXCEPT !.mptable[k].paths = q])
<1> DEFINE o == [T.mptable[k] EXCEPT !.paths = q]
           m == [T.mptable EXCEPT ![k] = o]
           U == [T EXCEPT !.mptable = m]
<1>0. T \in Table /\ T.mptable[k] \in Mpath
  BY TableFields DEF Good
<1>1. /\ o \in Mpath /\ o.ptr = T.mptable[k].ptr
      /\ o.select_addr = T.mptable[k].select_addr
      /\ o.prev_select = T.mptable[k].prev_select
  <2> DEFINE w == T.mptable[k]
  <2>1. w \in Mpath
    BY <1>0
  <2> HIDE DEF w
  <2>2. /\ [w EXCEPT !.paths = q] \in Mpath /\ [w EXCEPT !.paths = q].ptr = w.ptr
        /\ [w EXCEPT !.paths = q].select_addr = w.select_addr
        /\ [w EXCEPT !.paths = q].prev_select = w.prev_select
    BY <2>1 DEF Mpath
  <2>. QED  BY <2>2 DEF w
<1>2. /\ m \in Seq(Mpath) /\ DOMAIN m = DOMAIN T.mptable
      /\ \A i \in DOMAIN T.mptable : m[i] = IF i = k THEN o ELSE T.mptable[i]
  <2>1. T.mptable \in Seq(Mpath) /\ DOMAIN T.mptable = 1..Len(T.mptable)
    BY <1>0, TableFields
  <2> HIDE DEF o
  <2>. QED  BY <1>1, <2>1, ExceptSeq
<1>3. U \in Table /\ U.mptable = m /\ U.rtable = T.rtable
  <2> HIDE DEF m
  <2>. QED  BY <1>0, <1>2, WithMptable, Zenon
<1>4. SameObjects(T, U)
  <2> HIDE DEF m, U, o
  <2>. QED  BY <1>1, <1>2, <1>3 DEF SameObjects
<1>5. [T EXCEPT !.mptable[k].paths = q] = U
  OBVIOUS
<1> HIDE DEF o, m, U
<1>. QED  BY <1>3, <1>4, <1>5, SameObjectsGood

LEMMA RouteIdxType ==
  ASSUME NEW T \in Table, NEW g, NEW m
  PROVE  RouteIdx(T, g, m) = 0 \/ RouteIdx(T, g, m) \in DOMAIN T.rtable
<1> DEFINE I == {i \in DOMAIN T.rtable : /\ T.rtable[i].daddr_seg = g
                                         /\ T.rtable[i].mask = m}
<1>1. DOMAIN T.rtable = 1..Len(T.rtable) /\ Len(T.rtable) \in Nat
  BY TableFields
<1>2. I \subseteq Nat \ {0} /\ I \subseteq DOMAIN T.rtable
  BY <1>1
<1>3. RouteIdx(T, g, m) = First(I)
  BY DEF RouteIdx
<1> HIDE DEF I
<1>. QED  BY <1>2, <1>3, FirstOf

(* SelectIdx is the position of the first object for the peer. *)
LEMMA SelectIdxType ==
  ASSUME NEW T \in Table, NEW select
  PROVE  /\ SelectIdx(T, select) = 0 =>
              \A i \in DOMAIN T.mptable : T.mptable[i].select_addr # select
         /\ SelectIdx(T, select) # 0 =>
              /\ SelectIdx(T, select) \in DOMAIN T.mptable
              /\ T.mptable[SelectIdx(T, select)].select_addr = select
<1> DEFINE I == {i \in DOMAIN T.mptable : T.mptable[i].select_addr = select}
<1>1. DOMAIN T.mptable = 1..Len(T.mptable) /\ Len(T.mptable) \in Nat
  BY TableFields
<1>2. I \subseteq Nat \ {0} /\ I \subseteq DOMAIN T.mptable
  BY <1>1
<1>3. SelectIdx(T, select) = First(I)
  BY DEF SelectIdx
<1>4. First(I) = 0 => I = {}
  <2> HIDE DEF I
  <2>. QED  BY <1>2, FirstOf
<1>5. First(I) # 0 => First(I) \in I
  <2> HIDE DEF I
  <2>. QED  BY <1>2, FirstOf
<1>. QED  BY <1>3, <1>4, <1>5

(* Changing routes only: good if marked routes still point into the list. *)
LEMMA RoutesGood ==
  ASSUME NEW T, Good(T), NEW r \in Seq(Route),
         \A i \in DOMAIN r : r[i].mp_flag => r[i].mptable \in Live(T)
  PROVE  Good([T EXCEPT !.rtable = r])
<1> DEFINE U == [T EXCEPT !.rtable = r]
<1>1. U \in Table /\ U.rtable = r /\ U.mptable = T.mptable
  BY WithRtable DEF Good
<1> HIDE DEF U
<1>2. PointersLive(U)
  BY <1>1 DEF PointersLive, Live
<1>3. ObjectsDistinct(U) /\ NoBackLinks(U)
  BY <1>1 DEF Good, ObjectsDistinct, NoBackLinks
<1>4. Good(U)
  BY <1>1, <1>2, <1>3 DEF Good
<1>. QED  BY <1>4 DEF U

LEMMA AddItemGood ==
  ASSUME NEW T, Good(T), NEW g \in Seg, NEW m \in Mask, NEW h \in Hop
  PROVE  Good(add_item(T, g, m, h))
<1> DEFINE e == [daddr_seg |-> g, mask |-> m, next_hop |-> h,
                 mp_flag |-> FALSE, mptable |-> Uninit]
           r == Cons(e, T.rtable)
<1>0. /\ T \in Table /\ T.rtable \in Seq(Route) /\ Len(T.rtable) \in Nat
      /\ DOMAIN T.rtable = 1..Len(T.rtable)
  BY TableFields DEF Good
<1>1. e \in Route /\ ~ e.mp_flag
  BY DEF Route
<1>2. /\ r \in Seq(Route) /\ Len(r) = Len(T.rtable) + 1
      /\ r[1] = e /\ \A i \in 2..(Len(T.rtable) + 1) : r[i] = T.rtable[i - 1]
  <2> DEFINE q == T.rtable
  <2>1. q \in Seq(Route) /\ e \in Route
    BY <1>0, <1>1
  <2> HIDE DEF e, q
  <2>2. /\ Cons(e, q) \in Seq(Route) /\ Len(Cons(e, q)) = Len(q) + 1
        /\ Cons(e, q)[1] = e /\ \A i \in 2..(Len(q) + 1) : Cons(e, q)[i] = q[i - 1]
    <3>1. ASSUME NEW x \in Route, NEW s \in Seq(Route)
          PROVE  /\ Cons(x, s) \in Seq(Route) /\ Len(Cons(x, s)) = Len(s) + 1
                 /\ Cons(x, s)[1] = x
                 /\ \A i \in 2..(Len(s) + 1) : Cons(x, s)[i] = s[i - 1]
      BY ConsProperties
    <3>. QED  BY <2>1, <3>1
  <2>. QED  BY <2>2 DEF q
<1>3. ASSUME NEW i \in DOMAIN r, r[i].mp_flag PROVE r[i].mptable \in Live(T)
  <2> HIDE DEF e, r
  <2>1. i \in 1..(Len(T.rtable) + 1)
    BY <1>2, LenProperties
  <2>2. i # 1
    BY <1>1, <1>2, <1>3
  <2>3. i - 1 \in DOMAIN T.rtable /\ r[i] = T.rtable[i - 1]
    BY <1>0, <1>2, <2>1, <2>2
  <2>. QED  BY <1>3, <2>3 DEF Good, PointersLive
<1>4. add_item(T, g, m, h) = [T EXCEPT !.rtable = r]
  BY DEF add_item
<1> HIDE DEF e, r
<1>. QED  BY <1>2, <1>3, <1>4, RoutesGood

LEMMA DeleteItemGood ==
  ASSUME NEW T, Good(T), NEW g, NEW m
  PROVE  Good(delete_item(T, g, m))
<1> DEFINE k == RouteIdx(T, g, m)
           r == RemoveAt(T.rtable, k)
<1>0. /\ T \in Table /\ T.rtable \in Seq(Route) /\ Len(T.rtable) \in Nat
      /\ DOMAIN T.rtable = 1..Len(T.rtable)
  BY TableFields DEF Good
<1>1. CASE k = 0
  BY <1>1 DEF delete_item
<1>2. CASE k # 0
  <2>1. k \in 1..Len(T.rtable)
    BY <1>0, <1>2, RouteIdxType
  <2>2. /\ r \in Seq(Route) /\ Len(r) = Len(T.rtable) - 1
        /\ \A i \in 1..(Len(T.rtable) - 1) :
             r[i] = IF i < k THEN T.rtable[i] ELSE T.rtable[i + 1]
    <3> HIDE DEF k
    <3>. QED  BY <1>0, <2>1, RemoveAtProperties
  <2>3. ASSUME NEW i \in DOMAIN r PROVE \E j \in DOMAIN T.rtable : r[i] = T.rtable[j]
    <3> HIDE DEF k, r
    <3>1. i \in 1..(Len(T.rtable) - 1)
      BY <2>2, LenProperties
    <3>2. i \in DOMAIN T.rtable /\ i + 1 \in DOMAIN T.rtable
      BY <1>0, <3>1
    <3>. QED  BY <2>2, <3>1, <3>2
  <2>4. \A i \in DOMAIN r : r[i].mp_flag => r[i].mptable \in Live(T)
    <3> HIDE DEF k, r
    <3>. QED  BY <2>3 DEF Good, PointersLive
  <2>5. delete_item(T, g, m) = [T EXCEPT !.rtable = r]
    BY <1>2 DEF delete_item
  <2> HIDE DEF k, r
  <2>. QED  BY <2>2, <2>4, <2>5, RoutesGood
<1>. QED  BY <1>1, <1>2

(* Binding or unbinding the route at one position. *)
LEMMA BindGood ==
  ASSUME NEW T, Good(T), NEW k \in DOMAIN T.rtable, NEW flag \in BOOLEAN,
         NEW p \in MPtr \cup {NULL, Uninit}, flag => p \in Live(T)
  PROVE  Good([T EXCEPT !.rtable[k].mp_flag = flag, !.rtable[k].mptable = p])
<1> DEFINE w == T.rtable[k]
           e == [w EXCEPT !.mp_flag = flag, !.mptable = p]
           r == [T.rtable EXCEPT ![k] = e]
<1>0. /\ T \in Table /\ T.rtable \in Seq(Route) /\ T.rtable[k] \in Route
      /\ DOMAIN T.rtable = 1..Len(T.rtable)
  BY TableFields DEF Good
<1>1. e \in Route /\ e.mp_flag = flag /\ e.mptable = p
  <2>1. w \in Route
    BY <1>0
  <2> HIDE DEF w
  <2>. QED  BY <2>1 DEF Route
<1>2. /\ r \in Seq(Route) /\ Len(r) = Len(T.rtable)
      /\ \A i \in DOMAIN T.rtable : r[i] = IF i = k THEN e ELSE T.rtable[i]
  <2> HIDE DEF e
  <2>. QED  BY <1>0, <1>1, ExceptSeq
<1>3. DOMAIN r = DOMAIN T.rtable
  OBVIOUS
<1>4. \A i \in DOMAIN r : r[i].mp_flag => r[i].mptable \in Live(T)
  <2> HIDE DEF e, r
  <2>. QED  BY <1>1, <1>2, <1>3 DEF Good, PointersLive
<1>5. [T EXCEPT !.rtable[k].mp_flag = flag, !.rtable[k].mptable = p]
        = [T EXCEPT !.rtable = r]
  BY <1>0 DEF Table, Route
<1> HIDE DEF e, r, w
<1>. QED  BY <1>2, <1>4, <1>5, RoutesGood

LEMMA AttachGood ==
  ASSUME NEW T, Good(T), NEW g, NEW m, NEW select
  PROVE  Good(attach_select(T, g, m, select)) /\ Good(detach_select(T, g, m, select))
<1> DEFINE r == RouteIdx(T, g, m)
           p == SelectIdx(T, select)
<1>0. T \in Table
  BY DEF Good
<1>1. CASE r = 0 \/ p = 0
  BY <1>1 DEF attach_select, detach_select
<1>2. CASE r # 0 /\ p # 0
  <2>1. r \in DOMAIN T.rtable /\ p \in DOMAIN T.mptable
    BY <1>0, <1>2, RouteIdxType, SelectIdxType
  <2>2. T.mptable[p].ptr \in MPtr /\ T.mptable[p].ptr \in Live(T)
    BY <1>0, <2>1, TableFields, MpathFields DEF Live
  <2>3. /\ attach_select(T, g, m, select)
             = [T EXCEPT !.rtable[r].mp_flag = TRUE,
                         !.rtable[r].mptable = T.mptable[p].ptr]
        /\ detach_select(T, g, m, select)
             = [T EXCEPT !.rtable[r].mp_flag = FALSE, !.rtable[r].mptable = NULL]
    BY <1>2 DEF attach_select, detach_select
  <2> HIDE DEF r, p
  <2>4. Good([T EXCEPT !.rtable[r].mp_flag = TRUE,
                       !.rtable[r].mptable = T.mptable[p].ptr])
    BY <2>1, <2>2, BindGood
  <2>5. Good([T EXCEPT !.rtable[r].mp_flag = FALSE, !.rtable[r].mptable = NULL])
    BY <2>1, BindGood
  <2>. QED  BY <2>3, <2>4, <2>5
<1>. QED  BY <1>1, <1>2

LEMMA AddMpathGood ==
  ASSUME NEW T, Good(T), NEW select \in Peer, NEW s \in Intf, NEW d \in Intf,
         NEW fresh \in MPtr \ Live(T), NEW t \in Nat
  PROVE  Good(add_mpath(T, select, s, d, fresh, t))
<1> DEFINE k == SelectIdx(T, select)
           n == Len(T.mptable)
<1>0. /\ T \in Table /\ T.mptable \in Seq(Mpath) /\ n \in Nat
      /\ DOMAIN T.mptable = 1..n /\ \A i \in DOMAIN T.mptable : T.mptable[i] \in Mpath
  BY TableFields DEF Good
<1>1. CASE k # 0
  <2>1. k \in DOMAIN T.mptable
    BY <1>0, <1>1, SelectIdxType
  <2> DEFINE q == add_mpath_item(T.mptable[k].paths, s, d, t)
  <2>2. q \in Seq(Path)
    <3>1. T.mptable[k].paths \in Seq(Path)
      BY <1>0, <2>1, MpathFields
    <3>. QED  BY <3>1, NewItemType, ConsProperties DEF add_mpath_item
  <2>3. add_mpath(T, select, s, d, fresh, t) = [T EXCEPT !.mptable[k].paths = q]
    BY <1>1 DEF add_mpath
  <2> HIDE DEF k, q
  <2>. QED  BY <2>1, <2>2, <2>3, OnePathsGood
<1>2. CASE k = 0
  <2> DEFINE o == [ptr |-> fresh, select_addr |-> select, prev_select |-> NULL,
                   paths |-> add_mpath_item(<< >>, s, d, t)]
             m == Cons(o, T.mptable)
             U == [T EXCEPT !.mptable = m]
  <2>1. /\ o \in Mpath /\ o.ptr = fresh /\ o.select_addr = select
        /\ o.prev_select = NULL
    <3>1. << >> \in Seq(Path)
      OBVIOUS
    <3>2. add_mpath_item(<< >>, s, d, t) \in Seq(Path)
      BY <3>1, NewItemType, ConsProperties DEF add_mpath_item
    <3>. QED  BY <3>2 DEF Mpath
  <2>2. /\ m \in Seq(Mpath) /\ Len(m) = n + 1 /\ m[1] = o
        /\ \A i \in 2..(n + 1) : m[i] = T.mptable[i - 1]
    <3> DEFINE q == T.mptable
    <3>1. q \in Seq(Mpath)
      BY <1>0
    <3> HIDE DEF o, q
    <3>2. /\ Cons(o, q) \in Seq(Mpath) /\ Len(Cons(o, q)) = Len(q) + 1
          /\ Cons(o, q)[1] = o /\ \A i \in 2..(Len(q) + 1) : Cons(o, q)[i] = q[i - 1]
      <4> DEFINE S == Mpath
      <4>1. o \in S /\ q \in Seq(S)
        BY <2>1, <3>1
      <4> HIDE DEF S
      <4>2. Cons(o, q) \in Seq(S)
        BY <4>1, ConsProperties
      <4>3. Len(Cons(o, q)) = Len(q) + 1 /\ Cons(o, q)[1] = o
        BY <4>1, ConsProperties
      <4>4. \A i \in 2..(Len(q) + 1) : Cons(o, q)[i] = q[i - 1]
        BY <4>1, ConsProperties
      <4>. QED  BY <4>2, <4>3, <4>4 DEF S
    <3>. QED  BY <3>2 DEF q
  <2>3. U \in Table /\ U.mptable = m /\ U.rtable = T.rtable
    <3> HIDE DEF m
    <3>. QED  BY <1>0, <2>2, WithMptable, Zenon
  <2>4. add_mpath(T, select, s, d, fresh, t) = U
    BY <1>2 DEF add_mpath
  <2> HIDE DEF o, m, U, n
  <2>5. DOMAIN m = 1..(n + 1)
    BY <2>2, LenProperties
  <2>6. \A i \in DOMAIN m :
          \/ i = 1 /\ m[i] = o
          \/ i # 1 /\ i - 1 \in DOMAIN T.mptable /\ m[i] = T.mptable[i - 1]
    BY <1>0, <2>2, <2>5
  <2>7. \A i \in DOMAIN T.mptable : i + 1 \in DOMAIN m /\ m[i + 1] = T.mptable[i]
    BY <1>0, <2>2, <2>5
  <2>8. PointersLive(U)
    <3>1. Live(T) \subseteq Live(U)
      BY <2>3, <2>7 DEF Live
    <3>. QED  BY <2>3, <3>1 DEF Good, PointersLive
  <2>9. NoBackLinks(U)
    BY <2>1, <2>3, <2>6 DEF Good, NoBackLinks
  <2>10. ObjectsDistinct(U)
    <3>1. \A i \in DOMAIN T.mptable :
            T.mptable[i].select_addr # select /\ T.mptable[i].ptr # fresh
      BY <1>0, <1>2, SelectIdxType DEF Live
    <3>2. SUFFICES ASSUME NEW i \in DOMAIN m, NEW j \in DOMAIN m,
                          \/ m[i].select_addr = m[j].select_addr
                          \/ m[i].ptr = m[j].ptr
                   PROVE  i = j
      BY <2>3 DEF ObjectsDistinct
    <3>3. i \in Int /\ j \in Int
      BY <1>0, <2>5
    <3>4. CASE i = 1
      BY <2>1, <2>6, <3>1, <3>2, <3>4
    <3>5. CASE j = 1
      BY <2>1, <2>6, <3>1, <3>2, <3>5
    <3>6. CASE i # 1 /\ j # 1
      <4>1. /\ i - 1 \in DOMAIN T.mptable /\ m[i] = T.mptable[i - 1]
            /\ j - 1 \in DOMAIN T.mptable /\ m[j] = T.mptable[j - 1]
        BY <2>6, <3>6
      <4>2. i - 1 = j - 1
        BY <3>2, <4>1 DEF Good, ObjectsDistinct
      <4>. QED  BY <3>3, <4>2
    <3>. QED  BY <3>4, <3>5, <3>6
  <2>. QED  BY <2>3, <2>4, <2>8, <2>9, <2>10 DEF Good
<1>. QED  BY <1>1, <1>2

(* The object at a live address is the one the route was bound to. *)
LEMMA DerefOf ==
  ASSUME NEW T, Good(T), NEW k \in DOMAIN T.mptable
  PROVE  Deref(T, T.mptable[k].ptr) = T.mptable[k]
<1>1. \A i \in DOMAIN T.mptable : T.mptable[i].ptr = T.mptable[k].ptr => i = k
  BY DEF Good, ObjectsDistinct
<1>2. (CHOOSE i \in DOMAIN T.mptable : T.mptable[i].ptr = T.mptable[k].ptr) = k
  BY <1>1
<1>. QED  BY <1>2 DEF Deref

(* The first loop of delete_select leaves no marked route on the peer and  *)
(* touches nothing else.                                                   *)
LEMMA UnflagGood ==
  ASSUME NEW T, Good(T), NEW select
  PROVE  /\ Good(unflag_select(T, select))
         /\ unflag_select(T, select).mptable = T.mptable
         /\ unflag_select(T, select).status = T.status
         /\ \A i \in DOMAIN unflag_select(T, select).rtable :
              unflag_select(T, select).rtable[i].mp_flag =>
                \E k \in DOMAIN T.mptable :
                  /\ unflag_select(T, select).rtable[i].mptable = T.mptable[k].ptr
                  /\ T.mptable[k].select_addr # select
<1> DEFINE r == [i \in DOMAIN T.rtable |->
                   IF T.rtable[i].mp_flag
                        /\ Deref(T, T.rtable[i].mptable).select_addr = select
                   THEN [T.rtable[i] EXCEPT !.mp_flag = FALSE]
                   ELSE T.rtable[i]]
           U == [T EXCEPT !.rtable = r]
<1>0. /\ T \in Table /\ T.rtable \in Seq(Route) /\ Len(T.rtable) \in Nat
      /\ DOMAIN T.rtable = 1..Len(T.rtable)
      /\ \A i \in DOMAIN T.rtable : T.rtable[i] \in Route
  BY TableFields DEF Good
<1>1. ASSUME NEW i \in DOMAIN T.rtable
      PROVE  /\ r[i] \in Route
             /\ r[i].mp_flag => /\ r[i] = T.rtable[i]
                                /\ Deref(T, T.rtable[i].mptable).select_addr # select
  <2> DEFINE w == T.rtable[i]
  <2>1. w \in Route
    BY <1>0
  <2>2. r[i] = IF w.mp_flag /\ Deref(T, w.mptable).select_addr = select
               THEN [w EXCEPT !.mp_flag = FALSE] ELSE w
    OBVIOUS
  <2> HIDE DEF r, w
  <2>3. [w EXCEPT !.mp_flag = FALSE] \in Route /\ ~ [w EXCEPT !.mp_flag = FALSE].mp_flag
    BY <2>1 DEF Route
  <2>4. r[i] \in Route /\ (r[i].mp_flag => r[i] = w /\ Deref(T, w.mptable).select_addr # select)
    BY <2>1, <2>2, <2>3
  <2>. QED  BY <2>4 DEF w
<1>2. r \in Seq(Route) /\ DOMAIN r = DOMAIN T.rtable
  <2>1. r = [i \in DOMAIN T.rtable |-> r[i]]
    OBVIOUS
  <2> HIDE DEF r
  <2>2. r \in [1..Len(T.rtable) -> Route] /\ DOMAIN r = DOMAIN T.rtable
    BY <1>0, <1>1, <2>1
  <2>. QED  BY <1>0, <2>2, SeqDef
<1>3. unflag_select(T, select) = U
  BY DEF unflag_select
<1> HIDE DEF r
<1>4. \A i \in DOMAIN r : r[i].mp_flag =>
        \E k \in DOMAIN T.mptable : /\ r[i].mptable = T.mptable[k].ptr
                                    /\ T.mptable[k].select_addr # select
  <2>1. SUFFICES ASSUME NEW i \in DOMAIN r, r[i].mp_flag
                 PROVE  \E k \in DOMAIN T.mptable :
                          /\ r[i].mptable = T.mptable[k].ptr
                          /\ T.mptable[k].select_addr # select
    OBVIOUS
  <2>2. r[i] = T.rtable[i] /\ Deref(T, r[i].mptable).select_addr # select
    BY <1>1, <1>2, <2>1
  <2>3. r[i].mptable \in Live(T)
    BY <1>2, <2>1, <2>2 DEF Good, PointersLive
  <2>4. PICK k \in DOMAIN T.mptable : r[i].mptable = T.mptable[k].ptr
    BY <2>3 DEF Live
  <2>. QED  BY <2>2, <2>4, DerefOf
<1>5. \A i \in DOMAIN r : r[i].mp_flag => r[i].mptable \in Live(T)
  BY <1>4 DEF Live
<1>6. Good(U)
  BY <1>2, <1>5, RoutesGood
<1>7. U.rtable = r /\ U.mptable = T.mptable /\ U.status = T.status
  BY <1>0, <1>2, WithRtable, Zenon
<1> HIDE DEF U
<1>. QED  BY <1>3, <1>4, <1>6, <1>7

LEMMA StatusGood ==
  ASSUME NEW T, Good(T), NEW st \in {"ok", "crashed", "hung"}
  PROVE  Good([T EXCEPT !.status = st])
<1> DEFINE U == [T EXCEPT !.status = st]
<1>1. U \in Table /\ U.rtable = T.rtable /\ U.mptable = T.mptable
  BY WithStatus DEF Good
<1> HIDE DEF U
<1>2. SameObjects(T, U)
  BY <1>1 DEF SameObjects
<1>3. Good(U)
  BY <1>1, <1>2, SameObjectsGood
<1>. QED  BY <1>3 DEF U

(* What is left of the object list when its head is unlinked. *)
LEMMA TailProperties ==
  ASSUME NEW m \in Seq(Mpath), Len(m) > 1,
         \A i \in DOMAIN m : m[i].prev_select = NULL
  PROVE  /\ [Tail(m) EXCEPT ![1].prev_select = NULL] \in Seq(Mpath)
         /\ [Tail(m) EXCEPT ![1].prev_select = NULL] = Tail(m)
         /\ DOMAIN Tail(m) = 1..(Len(m) - 1)
         /\ \A i \in 1..(Len(m) - 1) : i + 1 \in DOMAIN m /\ Tail(m)[i] = m[i + 1]
<1> DEFINE u == Tail(m)
<1>0. Len(m) \in Nat /\ DOMAIN m = 1..Len(m)
  BY LenProperties
<1>1. m # << >>
  BY <1>0
<1>2. /\ u \in Seq(Mpath) /\ Len(u) = Len(m) - 1
      /\ \A i \in 1..Len(u) : u[i] = m[i + 1]
  BY <1>1, HeadTailProperties
<1> HIDE DEF u
<1>3. DOMAIN u = 1..(Len(m) - 1)
  BY <1>2, LenProperties
<1>4. \A i \in 1..(Len(m) - 1) : i + 1 \in DOMAIN m /\ u[i] = m[i + 1]
  BY <1>0, <1>2
<1>5. u[1] \in Mpath /\ u[1].prev_select = NULL
  <2>1. 1 \in 1..(Len(m) - 1)
    BY <1>0
  <2>. QED  BY <1>2, <1>4, <2>1, ElementOfSeq
<1>6. [u[1] EXCEPT !.prev_select = NULL] = u[1]
  <2> DEFINE o == u[1]
  <2>1. o \in Mpath /\ o.prev_select = NULL
    BY <1>5
  <2> HIDE DEF o
  <2>2. [o EXCEPT !.prev_select = NULL] = o
    BY <2>1 DEF Mpath
  <2>. QED  BY <2>2 DEF o
<1>7. [u EXCEPT ![1].prev_select = NULL] = [u EXCEPT ![1] = u[1]]
  BY <1>6
<1>8. [u EXCEPT ![1] = u[1]] = u
  <2>1. u \in [1..(Len(m) - 1) -> Mpath]
    BY <1>2, <1>3, LenProperties
  <2>. QED  BY <2>1
<1>. QED  BY <1>2, <1>3, <1>4, <1>7, <1>8 DEF u

LEMMA DeleteSelectGood ==
  ASSUME NEW T, Good(T), NEW select
  PROVE  /\ Good(delete_select(T, select))
         /\ SelectIdx(T, select) > 1 => delete_select(T, select).status = "crashed"
         /\ SelectIdx(T, select) <= 1 => delete_select(T, select).status = T.status
<1> DEFINE U == unflag_select(T, select)
           k == SelectIdx(T, select)
           n == Len(T.mptable)
           D == delete_select(T, select)
           V == [U EXCEPT !.mptable = [Tail(U.mptable) EXCEPT ![1].prev_select = NULL]]
<1>0. /\ T \in Table /\ T.mptable \in Seq(Mpath) /\ n \in Nat
      /\ DOMAIN T.mptable = 1..n /\ T.status \in {"ok", "crashed", "hung"}
  BY TableFields DEF Good
<1>1. /\ Good(U) /\ U.mptable = T.mptable /\ U.status = T.status
      /\ \A i \in DOMAIN U.rtable : U.rtable[i].mp_flag =>
           \E j \in DOMAIN T.mptable : /\ U.rtable[i].mptable = T.mptable[j].ptr
                                       /\ T.mptable[j].select_addr # select
  BY UnflagGood
<1>2. k \in Nat /\ (k # 0 => k \in 1..n /\ T.mptable[k].select_addr = select)
  BY <1>0, SelectIdxType
<1>3. D = CASE k = 0 -> U
            [] k = 1 /\ n = 1 -> [U EXCEPT !.mptable = << >>]
            [] k = 1 /\ n > 1 -> V
            [] k > 1 /\ T.mptable[k].prev_select = NULL ->
                 [U EXCEPT !.status = "crashed"]
            [] k > 1 /\ T.mptable[k].prev_select # NULL ->
                 [U EXCEPT !.mptable = RemoveAt(U.mptable, k)]
  BY DEF delete_select
<1> HIDE DEF U, k, n, D, V
<1>4. CASE k = 0
  <2>1. D = U
    BY <1>3, <1>4
  <2>. QED  BY <1>1, <1>4, <2>1 DEF D, k
<1>5. CASE k = 1 /\ n = 1
  <2>1. D = [U EXCEPT !.mptable = << >>]
    BY <1>3, <1>5
  <2>2. U \in Table /\ << >> \in Seq(Mpath)
    BY <1>1 DEF Good
  <2>3. D \in Table /\ D.mptable = << >> /\ D.rtable = U.rtable /\ D.status = U.status
    BY <2>1, <2>2, WithMptable
  <2>4. PointersLive(D)
    <3>1. \A i \in DOMAIN U.rtable : ~ U.rtable[i].mp_flag
      BY <1>0, <1>1, <1>2, <1>5
    <3>. QED  BY <2>3, <3>1 DEF PointersLive
  <2>5. ObjectsDistinct(D) /\ NoBackLinks(D)
    BY <2>3 DEF ObjectsDistinct, NoBackLinks
  <2>. QED  BY <1>1, <1>5, <2>3, <2>4, <2>5 DEF Good, D, k
<1>6. CASE k = 1 /\ n > 1
  <2> DEFINE m == Tail(T.mptable)
  <2>0. \A i \in DOMAIN T.mptable : T.mptable[i].prev_select = NULL
    BY DEF Good, NoBackLinks
  <2>1. /\ [m EXCEPT ![1].prev_select = NULL] = m
        /\ m \in Seq(Mpath)
        /\ DOMAIN m = 1..(n - 1)
        /\ \A i \in 1..(n - 1) : i + 1 \in DOMAIN T.mptable /\ m[i] = T.mptable[i + 1]
    BY <1>0, <1>6, <2>0, TailProperties DEF n
  <2>2. D = [U EXCEPT !.mptable = [m EXCEPT ![1].prev_select = NULL]]
    <3>1. D = V
      BY <1>0, <1>3, <1>6
    <3>. QED  BY <1>1, <3>1 DEF V
  <2> HIDE DEF m
  <2>3. D = [U EXCEPT !.mptable = m]
    BY <2>1, <2>2
  <2>4. U \in Table
    BY <1>1 DEF Good
  <2>5. D \in Table /\ D.mptable = m /\ D.rtable = U.rtable /\ D.status = U.status
    BY <2>1, <2>3, <2>4, WithMptable
  <2>6. PointersLive(D)
    <3>1. SUFFICES ASSUME NEW i \in DOMAIN U.rtable, U.rtable[i].mp_flag
                   PROVE  U.rtable[i].mptable \in Live(D)
      BY <2>5 DEF PointersLive
    <3>2. PICK j \in DOMAIN T.mptable : /\ U.rtable[i].mptable = T.mptable[j].ptr
                                        /\ T.mptable[j].select_addr # select
      BY <1>1, <3>1
    <3>3. j \in 1..n /\ j # 1
      BY <1>0, <1>2, <1>6, <3>2
    <3>4. j - 1 \in 1..(n - 1) /\ (j - 1) + 1 = j
      BY <1>0, <3>3
    <3>5. j - 1 \in DOMAIN m /\ m[j - 1] = T.mptable[j]
      BY <2>1, <3>4
    <3>. QED  BY <2>5, <3>2, <3>5 DEF Live
  <2>7. ObjectsDistinct(D)
    <3>1. SUFFICES ASSUME NEW i \in DOMAIN m, NEW j \in DOMAIN m,
                          \/ m[i].select_addr = m[j].select_addr
                          \/ m[i].ptr = m[j].ptr
                   PROVE  i = j
      BY <2>5 DEF ObjectsDistinct
    <3>2. i + 1 = j + 1
      BY <2>1, <3>1 DEF Good, ObjectsDistinct
    <3>. QED  BY <1>0, <2>1, <3>1, <3>2
  <2>8. NoBackLinks(D)
    BY <2>0, <2>1, <2>5 DEF NoBackLinks
  <2>. QED  BY <1>1, <1>6, <2>5, <2>6, <2>7, <2>8 DEF Good, D, k
<1>7. CASE k > 1
  <2>1. T.mptable[k].prev_select = NULL
    BY <1>0, <1>2, <1>7 DEF Good, NoBackLinks
  <2>2. D = [U EXCEPT !.status = "crashed"]
    BY <1>2, <1>3, <1>7, <2>1
  <2>3. Good(D)
    BY <1>1, <2>2, StatusGood
  <2>4. D.status = "crashed"
    BY <1>1, <2>2, WithStatus DEF Good
  <2>. QED  BY <1>2, <1>7, <2>3, <2>4 DEF D, k
<1>. QED  BY <1>0, <1>2, <1>4, <1>5, <1>6, <1>7

(* select_path picks no path, or one of the list. *)
LEMMA SelectPathType ==
  ASSUME NEW paths \in Seq(Path), NEW t \in Nat
  PROVE  select_path(paths, t) = 0 \/ select_path(paths, t) \in DOMAIN paths
<1> DEFINE alive == {i \in DOMAIN paths :
                       is_alive(paths, paths[i].s_intf, paths[i].d_intf, t)}
           J == {i \in alive : i = Min(alive) \/ 0 > paths[i].cnt}
<1>0. DOMAIN paths = 1..Len(paths) /\ Len(paths) \in Nat
  BY LenProperties
<1>1. CASE alive = {}
  BY <1>1 DEF select_path
<1>2. CASE alive # {}
  <2>1. alive \subseteq Nat
    BY <1>0
  <2>2. Min(alive) \in alive
    <3> HIDE DEF alive
    <3>. QED  BY <1>2, <2>1, MinNat
  <2>3. ASSUME NEW i \in alive PROVE ~ (0 > paths[i].cnt)
    <3>1. paths[i] \in Path
      BY <1>0, ElementOfSeq
    <3>2. paths[i].cnt \in Nat
      BY <3>1 DEF Path
    <3>. QED  BY <3>2
  <2>4. J = {Min(alive)}
    <3> HIDE DEF alive
    <3>. QED  BY <2>2, <2>3
  <2>5. Max(J) = Min(alive)
    <3> HIDE DEF alive, J
    <3>1. Min(alive) \in Nat
      BY <2>1, <2>2
    <3>. QED  BY <2>4, <3>1 DEF Max
  <2>6. select_path(paths, t) = Max(J)
    BY <1>2 DEF select_path
  <2>. QED  BY <2>2, <2>5, <2>6
<1>. QED  BY <1>1, <1>2

LEMMA LookupMpGood ==
  ASSUME NEW T, Good(T), NEW daddr, NEW t \in Nat
  PROVE  Good(lookup_mp(T, daddr, t).table)
<1> DEFINE r == MpRouteIdx(T, daddr)
           I == {i \in DOMAIN T.rtable : /\ Matches(T, i, daddr)
                                         /\ T.rtable[i].mp_flag
                                         /\ T.rtable[i].mptable # NULL}
           m == CHOOSE i \in DOMAIN T.mptable :
                  T.mptable[i].ptr = T.rtable[r].mptable
           paths == T.mptable[m].paths
           k == select_path(paths, t)
           L == lookup_mp(T, daddr, t).table
<1>0. /\ T \in Table /\ DOMAIN T.rtable = 1..Len(T.rtable)
      /\ Len(T.rtable) \in Nat
  BY TableFields DEF Good
<1>1. CASE r = 0
  BY <1>1 DEF lookup_mp
<1>2. CASE r # 0 /\ ~ select_path_returns(paths)
  <2>1. L = [T EXCEPT !.status = "hung"]
    BY <1>2 DEF lookup_mp
  <2>. QED  BY <2>1, StatusGood
<1>3. CASE r # 0 /\ select_path_returns(paths) /\ k = 0
  BY <1>3 DEF lookup_mp
<1>4. CASE r # 0 /\ select_path_returns(paths) /\ k # 0
  <2>1. r \in DOMAIN T.rtable /\ T.rtable[r].mp_flag
    <3>1. I \subseteq Nat \ {0}
      BY <1>0
    <3>2. r = First(I)
      BY DEF MpRouteIdx
    <3>3. First(I) \in I
      <4> HIDE DEF I, r
      <4>. QED  BY <1>4, <3>1, <3>2, FirstOf
    <3>. QED  BY <3>2, <3>3
  <2>2. \E i \in DOMAIN T.mptable : T.mptable[i].ptr = T.rtable[r].mptable
    <3> HIDE DEF r
    <3>. QED  BY <2>1 DEF Good, PointersLive, Live
  <2>3. m \in DOMAIN T.mptable
    <3> HIDE DEF r
    <3>. QED  BY <2>2
  <2> HIDE DEF m, r
  <2>4. paths \in Seq(Path)
    BY <1>0, <2>3, TableFields, MpathFields
  <2>5. k \in DOMAIN paths /\ DOMAIN paths = 1..Len(paths)
    BY <1>4, <2>4, SelectPathType, LenProperties
  <2> DEFINE q == [paths EXCEPT ![k] = [paths[k] EXCEPT !.cnt = paths[k].cnt + 1]]
  <2>6. q \in Seq(Path)
    <3>1. paths[k] \in Path
      BY <2>4, <2>5, ElementOfSeq
    <3>2. 0 \in 0..(SeqSpace - 1) /\ 0 \in Int
      BY SeqSpaceAssumption
    <3>3. [paths[k] EXCEPT !.cnt = paths[k].cnt + 1] \in Path
      <4> HIDE DEF k, paths
      <4>. QED  BY <3>1, <3>2, PathExcept
    <3> HIDE DEF k, paths
    <3>. QED  BY <2>4, <2>5, <3>3, ExceptSeq
  <2>7. L = [T EXCEPT !.mptable[m].paths = q]
    BY <1>4 DEF lookup_mp, m, r
  <2> HIDE DEF q, L
  <2>8. Good(L)
    BY <2>3, <2>6, <2>7, OnePathsGood
  <2>. QED  BY <2>8 DEF L
<1>. QED  BY <1>1, <1>2, <1>3, <1>4

-----------------------------------------------------------------------------
(* The map a table stands for. *)

ARoute == [seg : Seg, mask : Mask, hop : Hop, peer : Peer \cup {None}]

-----------------------------------------------------------------------------
(* Lists. *)

(* A list that is another with one entry more in front, or one less. *)
LEMMA IsCons ==
  ASSUME NEW S, NEW q \in Seq(S), NEW b \in Seq(S), NEW e \in S,
         Len(b) = Len(q) + 1, b[1] = e,
         \A i \in 1..Len(q) : b[i + 1] = q[i]
  PROVE  b = Cons(e, q)
<1> DEFINE c == Cons(e, q)
<1>1. /\ c \in Seq(S) /\ Len(c) = Len(q) + 1 /\ c[1] = e
      /\ \A i \in 2..(Len(q) + 1) : c[i] = q[i - 1]
  BY ConsProperties
<1>2. Len(q) \in Nat
  BY LenProperties
<1> HIDE DEF c
<1>3. ASSUME NEW i \in 1..Len(b)  PROVE b[i] = c[i]
  <2>1. CASE i = 1
    BY <1>1, <2>1
  <2>2. CASE i # 1
    <3>1. i - 1 \in 1..Len(q) /\ (i - 1) + 1 = i /\ i \in 2..(Len(q) + 1)
      BY <1>2, <2>2
    <3>2. b[(i - 1) + 1] = q[i - 1] /\ c[i] = q[i - 1]
      BY <1>1, <3>1
    <3>. QED  BY <3>1, <3>2
  <2>. QED  BY <2>1, <2>2
<1>4. b = c
  BY <1>1, <1>3, SeqEqual
<1>. QED  BY <1>4 DEF c

LEMMA IsRemoveAt ==
  ASSUME NEW S, NEW q \in Seq(S), NEW b \in Seq(S), NEW k \in 1..Len(q),
         Len(b) = Len(q) - 1,
         \A j \in 1..(Len(q) - 1) : b[j] = IF j < k THEN q[j] ELSE q[j + 1]
  PROVE  b = RemoveAt(q, k)
<1> DEFINE c == RemoveAt(q, k)
<1>1. /\ c \in Seq(S) /\ Len(c) = Len(q) - 1
      /\ \A j \in 1..(Len(q) - 1) : c[j] = IF j < k THEN q[j] ELSE q[j + 1]
  BY RemoveAtProperties
<1> HIDE DEF c
<1>2. \A j \in 1..Len(b) : b[j] = c[j]
  BY <1>1
<1>3. b = c
  BY <1>1, <1>2, SeqEqual
<1>. QED  BY <1>3 DEF c

(* A function on the positions of a list is a list. *)
LEMMA IsList ==
  ASSUME NEW S, NEW n \in Nat, NEW f, f = [i \in 1..n |-> f[i]],
         \A i \in 1..n : f[i] \in S
  PROVE  f \in Seq(S) /\ Len(f) = n
<1>1. f \in [1..n -> S]
  OBVIOUS
<1>2. f \in Seq(S)
  BY <1>1, SeqDef
<1>3. DOMAIN f = 1..n /\ DOMAIN f = 1..Len(f) /\ Len(f) \in Nat
  BY <1>1, <1>2, LenProperties
<1>. QED  BY <1>2, <1>3

-----------------------------------------------------------------------------
(* The map of a good table. *)

LEMMA RouteFields ==
  ASSUME NEW r \in Route
  PROVE  /\ r.daddr_seg \in Seg /\ r.mask \in Mask /\ r.next_hop \in Hop
         /\ r.mp_flag \in BOOLEAN /\ r.mptable \in MPtr \cup {NULL, Uninit}
BY DEF Route

(* The peer of a route bound to the object at position k. *)
LEMMA PeerAt ==
  ASSUME NEW T, Good(T), NEW r, NEW k \in DOMAIN T.mptable,
         r.mptable = T.mptable[k].ptr
  PROVE  PeerOf(T, r) = IF r.mp_flag THEN T.mptable[k].select_addr ELSE None
<1>1. Deref(T, r.mptable) = T.mptable[k]
  BY DerefOf
<1>. QED  BY <1>1 DEF PeerOf

LEMMA AbsRouteFields ==
  ASSUME NEW T, NEW r
  PROVE  LET a == AbsRoute(T, r)
         IN  /\ a.seg = r.daddr_seg /\ a.mask = r.mask /\ a.hop = r.next_hop
             /\ a.peer = PeerOf(T, r)
             /\ a = [seg |-> r.daddr_seg, mask |-> r.mask, hop |-> r.next_hop,
                     peer |-> PeerOf(T, r)]
BY DEF AbsRoute

LEMMA PeerType ==
  ASSUME NEW T, Good(T), NEW i \in DOMAIN T.rtable
  PROVE  /\ PeerOf(T, T.rtable[i]) \in Peer \cup {None}
         /\ T.rtable[i].mp_flag =>
              \E k \in DOMAIN T.mptable : /\ T.rtable[i].mptable = T.mptable[k].ptr
                                          /\ PeerOf(T, T.rtable[i]) = T.mptable[k].select_addr
         /\ ~T.rtable[i].mp_flag => PeerOf(T, T.rtable[i]) = None
<1>0. T \in Table /\ T.rtable[i] \in Route
  BY TableFields DEF Good
<1>1. CASE T.rtable[i].mp_flag
  <2>1. PICK k \in DOMAIN T.mptable : T.rtable[i].mptable = T.mptable[k].ptr
    BY <1>1 DEF Good, PointersLive, Live
  <2>2. PeerOf(T, T.rtable[i]) = T.mptable[k].select_addr
    BY <1>1, <2>1, PeerAt
  <2>3. T.mptable[k].select_addr \in Peer
    BY <1>0, TableFields, MpathFields
  <2>. QED  BY <1>1, <2>1, <2>2, <2>3
<1>2. CASE ~T.rtable[i].mp_flag
  BY <1>2 DEF PeerOf
<1>. QED  BY <1>1, <1>2

LEMMA AbsRoutesType ==
  ASSUME NEW T, Good(T)
  PROVE  /\ AbsRoutes(T) \in Seq(ARoute) /\ Len(AbsRoutes(T)) = Len(T.rtable)
         /\ DOMAIN AbsRoutes(T) = DOMAIN T.rtable
         /\ \A i \in DOMAIN T.rtable : /\ AbsRoutes(T)[i] = AbsRoute(T, T.rtable[i])
                                       /\ AbsRoutes(T)[i] \in ARoute
<1>0. T \in Table
  BY DEF Good
<1>1. /\ DOMAIN T.rtable = 1..Len(T.rtable) /\ Len(T.rtable) \in Nat
      /\ \A i \in DOMAIN T.rtable : T.rtable[i] \in Route
  BY <1>0, TableFields
<1> DEFINE f == AbsRoutes(T)
<1>2. f = [i \in 1..Len(T.rtable) |-> f[i]] /\ DOMAIN f = DOMAIN T.rtable
  BY <1>1 DEF AbsRoutes
<1>3. \A i \in DOMAIN T.rtable : f[i] = AbsRoute(T, T.rtable[i])
  BY DEF AbsRoutes
<1>4. ASSUME NEW i \in DOMAIN T.rtable  PROVE f[i] \in ARoute
  <2>1. /\ T.rtable[i].daddr_seg \in Seg /\ T.rtable[i].mask \in Mask
        /\ T.rtable[i].next_hop \in Hop /\ PeerOf(T, T.rtable[i]) \in Peer \cup {None}
    BY <1>1, RouteFields, PeerType
  <2>2. AbsRoute(T, T.rtable[i]) \in ARoute
    BY <2>1 DEF AbsRoute, ARoute
  <2>. QED  BY <1>3, <2>2
<1> HIDE DEF f
<1>5. f \in Seq(ARoute) /\ Len(f) = Len(T.rtable)
  BY <1>1, <1>2, <1>4, IsList
<1>. QED  BY <1>2, <1>3, <1>4, <1>5 DEF f

LEMMA AbsPathsType ==
  ASSUME NEW q \in Seq(Path)
  PROVE  /\ AbsPaths(q) \in Seq(Intf \X Intf) /\ Len(AbsPaths(q)) = Len(q)
         /\ DOMAIN AbsPaths(q) = DOMAIN q /\ DOMAIN q = 1..Len(q) /\ Len(q) \in Nat
         /\ \A i \in DOMAIN q : AbsPaths(q)[i] = <<q[i].s_intf, q[i].d_intf>>
<1>1. DOMAIN q = 1..Len(q) /\ Len(q) \in Nat /\ \A i \in DOMAIN q : q[i] \in Path
  BY LenProperties, ElementOfSeq
<1> DEFINE f == AbsPaths(q)
<1>2. f = [i \in 1..Len(q) |-> f[i]] /\ DOMAIN f = DOMAIN q
  BY <1>1 DEF AbsPaths
<1>3. \A i \in DOMAIN q : f[i] = <<q[i].s_intf, q[i].d_intf>>
  BY DEF AbsPaths
<1>4. ASSUME NEW i \in 1..Len(q)  PROVE f[i] \in Intf \X Intf
  <2>1. q[i].s_intf \in Intf /\ q[i].d_intf \in Intf
    BY <1>1 DEF Path
  <2>2. <<q[i].s_intf, q[i].d_intf>> \in Intf \X Intf
    BY <2>1
  <2>3. f[i] = <<q[i].s_intf, q[i].d_intf>>
    BY <1>1, <1>3
  <2>. QED  BY <2>2, <2>3, Zenon
<1> HIDE DEF f
<1>5. f \in Seq(Intf \X Intf) /\ Len(f) = Len(q)
  BY <1>1, <1>2, <1>4, IsList
<1>. QED  BY <1>1, <1>2, <1>3, <1>5 DEF f

(* The peers are those of the objects, each with the paths of its object. *)
LEMMA SelectIdxOf ==
  ASSUME NEW T, Good(T), NEW k \in DOMAIN T.mptable
  PROVE  SelectIdx(T, T.mptable[k].select_addr) = k
<1> DEFINE p == T.mptable[k].select_addr
           j == SelectIdx(T, p)
<1>1. T \in Table
  BY DEF Good
<1>2. /\ j = 0 => \A i \in DOMAIN T.mptable : T.mptable[i].select_addr # p
      /\ j # 0 => j \in DOMAIN T.mptable /\ T.mptable[j].select_addr = p
  BY <1>1, SelectIdxType
<1> HIDE DEF j
<1>3. j = k
  BY <1>2 DEF Good, ObjectsDistinct
<1>. QED  BY <1>3 DEF j

MapOn(F, D) == F = [p \in D |-> F[p]]

LEMMA AbsPeersType ==
  ASSUME NEW T, Good(T)
  PROVE  /\ DOMAIN AbsPeers(T) = Peers(T) /\ MapOn(AbsPeers(T), Peers(T))
         /\ \A k \in DOMAIN T.mptable :
              /\ T.mptable[k].select_addr \in Peers(T)
              /\ AbsPeers(T)[T.mptable[k].select_addr] = AbsPaths(T.mptable[k].paths)
<1>1. DOMAIN AbsPeers(T) = Peers(T) /\ MapOn(AbsPeers(T), Peers(T))
  BY DEF AbsPeers, MapOn
<1>2. ASSUME NEW k \in DOMAIN T.mptable
      PROVE  /\ T.mptable[k].select_addr \in Peers(T)
             /\ AbsPeers(T)[T.mptable[k].select_addr] = AbsPaths(T.mptable[k].paths)
  <2>1. T.mptable[k].select_addr \in Peers(T)
    BY DEF Peers
  <2>2. SelectIdx(T, T.mptable[k].select_addr) = k
    BY SelectIdxOf
  <2>. QED  BY <2>1, <2>2 DEF AbsPeers
<1>. QED  BY <1>1, <1>2

LEMMA PeersAre ==
  ASSUME NEW T, Good(T), NEW F, MapOn(F, Peers(T)),
         \A k \in DOMAIN T.mptable :
           F[T.mptable[k].select_addr] = AbsPaths(T.mptable[k].paths)
  PROVE  AbsPeers(T) = F
<1>1. ASSUME NEW p \in Peers(T)  PROVE F[p] = AbsPeers(T)[p]
  <2>1. PICK k \in DOMAIN T.mptable : p = T.mptable[k].select_addr
    BY DEF Peers
  <2>. QED  BY <2>1, AbsPeersType
<1>2. MapOn(AbsPeers(T), Peers(T))
  BY AbsPeersType
<1>. QED  BY <1>1, <1>2 DEF MapOn

-----------------------------------------------------------------------------
(* Measurements and counters are not part of the map. *)

SameMap(T, U) == AbsRoutes(U) = AbsRoutes(T) /\ AbsPeers(U) = AbsPeers(T)

(* The same objects stand for the same peers. *)
LEMMA SamePeerOf ==
  ASSUME NEW T, NEW U, Good(T), Good(U), SameObjects(T, U)
  PROVE  AbsRoutes(U) = AbsRoutes(T) /\ Peers(U) = Peers(T)
<1>1. ASSUME NEW i \in DOMAIN T.rtable
      PROVE  AbsRoutes(U)[i] = AbsRoutes(T)[i]
  <2>1. U.rtable[i] = T.rtable[i] /\ i \in DOMAIN U.rtable
    BY DEF SameObjects
  <2>2. PeerOf(U, T.rtable[i]) = PeerOf(T, T.rtable[i])
    <3>1. CASE T.rtable[i].mp_flag
      <4>1. PICK k \in DOMAIN T.mptable :
                   /\ T.rtable[i].mptable = T.mptable[k].ptr
                   /\ PeerOf(T, T.rtable[i]) = T.mptable[k].select_addr
        BY <3>1, PeerType
      <4>2. /\ k \in DOMAIN U.mptable /\ U.mptable[k].ptr = T.mptable[k].ptr
            /\ U.mptable[k].select_addr = T.mptable[k].select_addr
        BY DEF SameObjects
      <4>3. PeerOf(U, T.rtable[i]) = U.mptable[k].select_addr
        BY <3>1, <4>1, <4>2, PeerAt
      <4>. QED  BY <4>1, <4>2, <4>3
    <3>2. CASE ~T.rtable[i].mp_flag
      BY <3>2 DEF PeerOf
    <3>. QED  BY <3>1, <3>2
  <2>3. AbsRoute(U, U.rtable[i]) = AbsRoute(T, T.rtable[i])
    BY <2>1, <2>2 DEF AbsRoute
  <2>. QED  BY <2>1, <2>3, AbsRoutesType
<1>2. U.rtable = T.rtable
  BY DEF SameObjects
<1>3. /\ AbsRoutes(T) \in Seq(ARoute) /\ AbsRoutes(U) \in Seq(ARoute)
      /\ Len(AbsRoutes(T)) = Len(AbsRoutes(U))
      /\ DOMAIN T.rtable = 1..Len(AbsRoutes(T))
  BY <1>2, AbsRoutesType, LenProperties
<1>4. AbsRoutes(U) = AbsRoutes(T)
  BY <1>1, <1>3, SeqEqual
<1>5. Peers(U) = Peers(T)
  BY DEF Peers, SameObjects
<1>. QED  BY <1>4, <1>5

LEMMA SameEnds ==
  ASSUME NEW T, NEW U, Good(T), Good(U), SameObjects(T, U),
         \A i \in DOMAIN T.mptable :
           AbsPaths(U.mptable[i].paths) = AbsPaths(T.mptable[i].paths)
  PROVE  SameMap(T, U)
<1>1. AbsRoutes(U) = AbsRoutes(T) /\ Peers(U) = Peers(T)
  BY SamePeerOf
<1> DEFINE F == AbsPeers(T)
<1>2. MapOn(F, Peers(U))
  BY <1>1, AbsPeersType
<1>3. ASSUME NEW k \in DOMAIN U.mptable
      PROVE  F[U.mptable[k].select_addr] = AbsPaths(U.mptable[k].paths)
  <2>1. k \in DOMAIN T.mptable /\ U.mptable[k].select_addr = T.mptable[k].select_addr
    BY DEF SameObjects
  <2>2. F[T.mptable[k].select_addr] = AbsPaths(T.mptable[k].paths)
    BY <2>1, AbsPeersType
  <2>. QED  BY <2>1, <2>2
<1> HIDE DEF F
<1>4. AbsPeers(U) = F
  BY <1>2, <1>3, PeersAre
<1>. QED  BY <1>1, <1>4 DEF SameMap, F

LEMMA SameMapTrans ==
  ASSUME NEW T, NEW U, NEW V, SameMap(T, U), SameMap(U, V)  PROVE SameMap(T, V)
BY DEF SameMap

(* The objects after one path list, or those of a peer, are rewritten. *)
LEMMA WithPathsIs ==
  ASSUME NEW T, Good(T), NEW select, NEW np, NEW U, U = WithPaths(T, select, np)
  PROVE  /\ SameObjects(T, U) /\ U.status = T.status
         /\ \A i \in DOMAIN T.mptable :
              U.mptable[i].paths = IF T.mptable[i].select_addr = select
                                   THEN np[i] ELSE T.mptable[i].paths
<1> DEFINE m == [i \in DOMAIN T.mptable |->
                   IF T.mptable[i].select_addr = select
                   THEN [T.mptable[i] EXCEPT !.paths = np[i]]
                   ELSE T.mptable[i]]
<1>0. T \in Table
  BY DEF Good
<1>1. U = [T EXCEPT !.mptable = m]
  BY Zenon DEF WithPaths
<1>2. DOMAIN m = DOMAIN T.mptable
  OBVIOUS
<1>3. ASSUME NEW i \in DOMAIN T.mptable
      PROVE  /\ m[i].ptr = T.mptable[i].ptr
             /\ m[i].select_addr = T.mptable[i].select_addr
             /\ m[i].prev_select = T.mptable[i].prev_select
             /\ m[i].paths = IF T.mptable[i].select_addr = select
                             THEN np[i] ELSE T.mptable[i].paths
  <2> DEFINE o == T.mptable[i]
             q == np[i]
  <2>1. o \in Mpath
    BY <1>0, TableFields
  <2>2. m[i] = IF o.select_addr = select THEN [o EXCEPT !.paths = q] ELSE o
    OBVIOUS
  <2> HIDE DEF m, o, q
  <2>3. /\ m[i].ptr = o.ptr /\ m[i].select_addr = o.select_addr
        /\ m[i].prev_select = o.prev_select
        /\ m[i].paths = IF o.select_addr = select THEN q ELSE o.paths
    BY <2>1, <2>2 DEF Mpath
  <2>. QED  BY <2>3 DEF o, q
<1> HIDE DEF m
<1>4. U.mptable = m /\ U.rtable = T.rtable /\ U.status = T.status
  BY <1>0, <1>1 DEF Table
<1>. QED  BY <1>2, <1>3, <1>4 DEF SameObjects

LEMMA OnePathsIs ==
  ASSUME NEW T, Good(T), NEW k \in DOMAIN T.mptable, NEW q,
         NEW U, U = [T EXCEPT !.mptable[k].paths = q]
  PROVE  /\ SameObjects(T, U) /\ U.status = T.status
         /\ \A i \in DOMAIN T.mptable :
              U.mptable[i].paths = IF i = k THEN q ELSE T.mptable[i].paths
<1> DEFINE w == T.mptable[k]
           o == [w EXCEPT !.paths = q]
           m == [T.mptable EXCEPT ![k] = o]
<1>0. T \in Table /\ w \in Mpath
  BY TableFields DEF Good
<1>1. U = [T EXCEPT !.mptable = m]
  OBVIOUS
<1>2. DOMAIN m = DOMAIN T.mptable
  OBVIOUS
<1>3. \A i \in DOMAIN T.mptable : m[i] = IF i = k THEN o ELSE T.mptable[i]
  OBVIOUS
<1>4. /\ o.ptr = w.ptr /\ o.select_addr = w.select_addr
      /\ o.prev_select = w.prev_select /\ o.paths = q
  <2> HIDE DEF w
  <2>. QED  BY <1>0 DEF Mpath
<1> HIDE DEF m, o
<1>5. U.mptable = m /\ U.rtable = T.rtable /\ U.status = T.status
  BY <1>0, <1>1 DEF Table
<1>. QED  BY <1>2, <1>3, <1>4, <1>5 DEF SameObjects

(* Rewriting other fields of a path than its interfaces. *)
LEMMA SameAbsPaths ==
  ASSUME NEW a \in Seq(Path), NEW b, DOMAIN b = DOMAIN a,
         \A i \in DOMAIN a : b[i].s_intf = a[i].s_intf /\ b[i].d_intf = a[i].d_intf
  PROVE  AbsPaths(b) = AbsPaths(a)
BY DEF AbsPaths

WithPath(a, k, e) == [a EXCEPT ![k] = e]

LEMMA PathExceptEnds ==
  ASSUME NEW a \in Seq(Path), NEW k \in DOMAIN a, NEW e,
         e.s_intf = a[k].s_intf, e.d_intf = a[k].d_intf
  PROVE  AbsPaths(WithPath(a, k, e)) = AbsPaths(a)
<1> DEFINE b == WithPath(a, k, e)
<1>1. DOMAIN b = DOMAIN a /\ \A i \in DOMAIN a : b[i] = IF i = k THEN e ELSE a[i]
  BY DEF WithPath
<1> HIDE DEF b
<1>2. AbsPaths(b) = AbsPaths(a)
  BY <1>1, SameAbsPaths
<1>. QED  BY <1>2 DEF b

(* The fields a path keeps when another is rewritten. *)
LEMMA EndsKept ==
  ASSUME NEW p \in Path, NEW v, NEW w
  PROVE  /\ [p EXCEPT !.recv_delay = v].s_intf = p.s_intf
         /\ [p EXCEPT !.recv_delay = v].d_intf = p.d_intf
         /\ [p EXCEPT !.send_delay = v].s_intf = p.s_intf
         /\ [p EXCEPT !.send_delay = v].d_intf = p.d_intf
         /\ [p EXCEPT !.last_recv_time = v].s_intf = p.s_intf
         /\ [p EXCEPT !.last_recv_time = v].d_intf = p.d_intf
         /\ [p EXCEPT !.ping_send_time = v, !.ping_seq = w].s_intf = p.s_intf
         /\ [p EXCEPT !.ping_send_time = v, !.ping_seq = w].d_intf = p.d_intf
         /\ [p EXCEPT !.cnt = v].s_intf = p.s_intf
         /\ [p EXCEPT !.cnt = v].d_intf = p.d_intf
BY DEF Path

LEMMA RecvTimeEnds ==
  ASSUME NEW q \in Seq(Path), NEW s, NEW d, NEW t
  PROVE  AbsPaths(update_recv_time(q, s, d, t)) = AbsPaths(q)
<1> DEFINE i == PathIdx(q, s, d)
<1>1. CASE i # 0
  <2>1. i \in DOMAIN q /\ q[i] \in Path
    BY <1>1, PathIdxType, ElementOfSeq
  <2> DEFINE e == [q[i] EXCEPT !.last_recv_time = t]
  <2>2. e.s_intf = q[i].s_intf /\ e.d_intf = q[i].d_intf
    <3> HIDE DEF i
    <3>. QED  BY <2>1, EndsKept
  <2>3. update_recv_time(q, s, d, t) = WithPath(q, i, e)
    BY <1>1 DEF WithPath, update_recv_time
  <2> HIDE DEF i, e
  <2>. QED  BY <2>1, <2>2, <2>3, PathExceptEnds
<1>2. CASE i = 0
  BY <1>2 DEF update_recv_time
<1>. QED  BY <1>1, <1>2

LEMMA RecvDelayEnds ==
  ASSUME NEW q \in Seq(Path), NEW s, NEW d, NEW t, NEW u
  PROVE  AbsPaths(update_recv_delay(q, s, d, t, u)) = AbsPaths(q)
<1> DEFINE i == PathIdx(q, s, d)
<1>1. CASE i # 0
  <2>1. i \in DOMAIN q /\ q[i] \in Path
    BY <1>1, PathIdxType, ElementOfSeq
  <2> DEFINE e == [q[i] EXCEPT !.recv_delay = u - t]
  <2>2. e.s_intf = q[i].s_intf /\ e.d_intf = q[i].d_intf
    <3> HIDE DEF i
    <3>. QED  BY <2>1, EndsKept
  <2>3. update_recv_delay(q, s, d, t, u) = WithPath(q, i, e)
    BY <1>1 DEF WithPath, update_recv_delay
  <2> HIDE DEF i, e
  <2>. QED  BY <2>1, <2>2, <2>3, PathExceptEnds
<1>2. CASE i = 0
  BY <1>2 DEF update_recv_delay
<1>. QED  BY <1>1, <1>2

LEMMA SendDelayEnds ==
  ASSUME NEW q \in Seq(Path), NEW s, NEW d, NEW t, NEW seq
  PROVE  AbsPaths(update_send_delay(q, s, d, t, seq)) = AbsPaths(q)
<1> DEFINE i == PathIdx(q, s, d)
           v == t + (q[i].ping_seq - seq - 1) * SEND_PING_INTERVAL - q[i].ping_send_time
<1>1. CASE i # 0 /\ q[i].ping_seq > seq
  <2>1. i \in DOMAIN q /\ q[i] \in Path
    BY <1>1, PathIdxType, ElementOfSeq
  <2> DEFINE e == [q[i] EXCEPT !.send_delay = v]
  <2>2. e.s_intf = q[i].s_intf /\ e.d_intf = q[i].d_intf
    <3> HIDE DEF i, v
    <3>. QED  BY <2>1, EndsKept
  <2>3. update_send_delay(q, s, d, t, seq) = WithPath(q, i, e)
    BY <1>1 DEF WithPath, update_send_delay
  <2> HIDE DEF i, e
  <2>. QED  BY <2>1, <2>2, <2>3, PathExceptEnds
<1>2. CASE ~(i # 0 /\ q[i].ping_seq > seq)
  BY <1>2 DEF update_send_delay
<1>. QED  BY <1>1, <1>2

LEMMA PingPathsEnds ==
  ASSUME NEW q \in Seq(Path), NEW t
  PROVE  AbsPaths(ping_paths(q, t)) = AbsPaths(q)
<1> DEFINE same(j) == {k \in DOMAIN q : Joins(q[k], q[j].s_intf, q[j].d_intf)}
           c(j) == (q[j].ping_seq + Cardinality(same(j))) % SeqSpace
           b == ping_paths(q, t)
<1>1. DOMAIN b = DOMAIN q
  BY DEF ping_paths
<1>2. ASSUME NEW j \in DOMAIN q
      PROVE  b[j].s_intf = q[j].s_intf /\ b[j].d_intf = q[j].d_intf
  <2> DEFINE e == [q[j] EXCEPT !.ping_send_time = t, !.ping_seq = c(j)]
  <2>1. b[j] = IF j = Min(same(j)) THEN e ELSE q[j]
    BY DEF ping_paths
  <2>2. q[j] \in Path
    BY LenProperties, ElementOfSeq
  <2>3. e.s_intf = q[j].s_intf /\ e.d_intf = q[j].d_intf
    <3> HIDE DEF c
    <3>. QED  BY <2>2, EndsKept
  <2> HIDE DEF e, b, same
  <2>. QED  BY <2>1, <2>3
<1> HIDE DEF b
<1>3. AbsPaths(b) = AbsPaths(q)
  BY <1>1, <1>2, SameAbsPaths
<1>. QED  BY <1>3 DEF b

(* The methods that only measure leave the map alone. *)
LEMMA WithPathsMap ==
  ASSUME NEW T, Good(T), NEW select, NEW np,
         \A i \in DOMAIN T.mptable : /\ np[i] \in Seq(Path)
                                     /\ AbsPaths(np[i]) = AbsPaths(T.mptable[i].paths)
  PROVE  /\ SameMap(T, WithPaths(T, select, np)) /\ Good(WithPaths(T, select, np))
         /\ WithPaths(T, select, np).status = T.status
<1> DEFINE U == WithPaths(T, select, np)
<1>1. Good(U) /\ U.status = T.status
  BY WithPathsGood
<1>2. /\ SameObjects(T, U)
      /\ \A i \in DOMAIN T.mptable :
           U.mptable[i].paths = IF T.mptable[i].select_addr = select
                                THEN np[i] ELSE T.mptable[i].paths
  BY WithPathsIs
<1> HIDE DEF U
<1>3. SameMap(T, U)
  BY <1>1, <1>2, SameEnds
<1>. QED  BY <1>1, <1>3 DEF U

LEMMA PathsOf ==
  ASSUME NEW T, Good(T), NEW i \in DOMAIN T.mptable
  PROVE  T.mptable[i].paths \in Seq(Path) /\ T.mptable[i] \in Mpath
BY TableFields, MpathFields DEF Good

LEMMA RtimeMap ==
  ASSUME NEW T, Good(T), NEW select, NEW s \in Intf, NEW d \in Intf, NEW t \in Int,
         NEW U, U = update_rtime(T, select, s, d, t)
  PROVE  SameMap(T, U) /\ Good(U) /\ U.status = T.status
<1> DEFINE np == [i \in DOMAIN T.mptable |-> update_recv_time(T.mptable[i].paths, s, d, t)]
<1>1. \A i \in DOMAIN T.mptable : /\ np[i] \in Seq(Path)
                                  /\ AbsPaths(np[i]) = AbsPaths(T.mptable[i].paths)
  BY PathsOf, RecvTimeType, RecvTimeEnds
<1>2. U = WithPaths(T, select, np)
  BY DEF update_rtime
<1> HIDE DEF np
<1>. QED  BY <1>1, <1>2, WithPathsMap

LEMMA RdelayMap ==
  ASSUME NEW T, Good(T), NEW select, NEW s \in Intf, NEW d \in Intf, NEW t \in Int,
         NEW u \in Int, NEW U, U = update_rdelay(T, select, s, d, t, u)
  PROVE  SameMap(T, U) /\ U.status = T.status
<1> DEFINE np == [i \in DOMAIN T.mptable |-> update_recv_delay(T.mptable[i].paths, s, d, t, u)]
<1>1. \A i \in DOMAIN T.mptable : /\ np[i] \in Seq(Path)
                                  /\ AbsPaths(np[i]) = AbsPaths(T.mptable[i].paths)
  BY PathsOf, RecvDelayType, RecvDelayEnds
<1>2. U = WithPaths(T, select, np)
  BY DEF update_rdelay
<1> HIDE DEF np
<1>. QED  BY <1>1, <1>2, WithPathsMap

LEMMA SdelayMap ==
  ASSUME NEW T, Good(T), NEW select, NEW s \in Intf, NEW d \in Intf, NEW t \in Int,
         NEW seq \in Int, NEW U, U = update_sdelay(T, select, s, d, t, seq)
  PROVE  SameMap(T, U) /\ U.status = T.status
<1> DEFINE np == [i \in DOMAIN T.mptable |-> update_send_delay(T.mptable[i].paths, s, d, t, seq)]
<1>1. \A i \in DOMAIN T.mptable : /\ np[i] \in Seq(Path)
                                  /\ AbsPaths(np[i]) = AbsPaths(T.mptable[i].paths)
  BY PathsOf, SendDelayType, SendDelayEnds
<1>2. U = WithPaths(T, select, np)
  BY DEF update_sdelay
<1> HIDE DEF np
<1>. QED  BY <1>1, <1>2, WithPathsMap

LEMMA PingRoundMap ==
  ASSUME NEW T, Good(T), NEW t \in Nat, NEW U, U = ping_round(T, t)
  PROVE  SameMap(T, U) /\ U.status = T.status
<1> DEFINE m == [i \in DOMAIN T.mptable |->
                   [T.mptable[i] EXCEPT !.paths = ping_paths(@, t)]]
<1>0. T \in Table /\ Good(U) /\ U.status = T.status
  BY PingRoundGood DEF Good
<1>1. U = [T EXCEPT !.mptable = m] /\ DOMAIN m = DOMAIN T.mptable
  BY DEF ping_round
<1>2. ASSUME NEW i \in DOMAIN T.mptable
      PROVE  /\ m[i].ptr = T.mptable[i].ptr
             /\ m[i].select_addr = T.mptable[i].select_addr
             /\ m[i].prev_select = T.mptable[i].prev_select
             /\ AbsPaths(m[i].paths) = AbsPaths(T.mptable[i].paths)
  <2> DEFINE o == T.mptable[i]
             q == ping_paths(o.paths, t)
  <2>1. o \in Mpath /\ o.paths \in Seq(Path)
    BY PathsOf
  <2>2. AbsPaths(q) = AbsPaths(o.paths)
    BY <2>1, PingPathsEnds
  <2>3. m[i] = [o EXCEPT !.paths = q]
    OBVIOUS
  <2> HIDE DEF m, q
  <2>4. /\ m[i].ptr = o.ptr /\ m[i].select_addr = o.select_addr
        /\ m[i].prev_select = o.prev_select /\ m[i].paths = q
    <3> HIDE DEF o
    <3>. QED  BY <2>1, <2>3 DEF Mpath
  <2>. QED  BY <2>2, <2>4 DEF o
<1> HIDE DEF m
<1>3. U.mptable = m /\ U.rtable = T.rtable
  BY <1>0, <1>1 DEF Table
<1>4. SameObjects(T, U)
  BY <1>1, <1>2, <1>3 DEF SameObjects
<1>5. \A i \in DOMAIN T.mptable : AbsPaths(U.mptable[i].paths) = AbsPaths(T.mptable[i].paths)
  BY <1>2, <1>3
<1>. QED  BY <1>0, <1>4, <1>5, SameEnds

-----------------------------------------------------------------------------
(* The commands on routes. *)

LEMMA SameMptable ==
  ASSUME NEW T, NEW U, U.mptable = T.mptable
  PROVE  AbsPeers(U) = AbsPeers(T) /\ \A r : AbsRoute(U, r) = AbsRoute(T, r)
<1>1. Peers(U) = Peers(T) /\ \A p : SelectIdx(U, p) = SelectIdx(T, p)
  BY DEF Peers, SelectIdx
<1>2. \A p : Deref(U, p) = Deref(T, p)
  BY DEF Deref
<1>. QED  BY <1>1, <1>2 DEF AbsPeers, AbsRoute, PeerOf

NewRoute(g, m, h) == [seg |-> g, mask |-> m, hop |-> h, peer |-> None]

LEMMA AddItemMap ==
  ASSUME NEW T, Good(T), NEW g \in Seg, NEW m \in Mask, NEW h \in Hop,
         NEW U, U = add_item(T, g, m, h)
  PROVE  /\ AbsRoutes(U) = Cons(NewRoute(g, m, h), AbsRoutes(T))
         /\ AbsPeers(U) = AbsPeers(T) /\ U.status = T.status
<1> DEFINE e == [daddr_seg |-> g, mask |-> m, next_hop |-> h,
                 mp_flag |-> FALSE, mptable |-> Uninit]
           r == Cons(e, T.rtable)
           x == NewRoute(g, m, h)
<1>0. /\ T \in Table /\ T.rtable \in Seq(Route) /\ Len(T.rtable) \in Nat
      /\ DOMAIN T.rtable = 1..Len(T.rtable) /\ Good(U)
  BY TableFields, AddItemGood DEF Good
<1>1. e \in Route
  BY DEF Route
<1>2. AbsRoute(T, e) = x /\ x \in ARoute
  BY DEF AbsRoute, PeerOf, ARoute, NewRoute
<1>3. U = [T EXCEPT !.rtable = r]
  BY DEF add_item
<1> HIDE DEF e, x
<1>4. /\ r \in Seq(Route) /\ Len(r) = Len(T.rtable) + 1
      /\ r[1] = e /\ \A i \in 2..(Len(T.rtable) + 1) : r[i] = T.rtable[i - 1]
  <2> DEFINE q == T.rtable
  <2>1. q \in Seq(Route)
    BY <1>0
  <2> HIDE DEF q
  <2>2. /\ Cons(e, q) \in Seq(Route) /\ Len(Cons(e, q)) = Len(q) + 1
        /\ Cons(e, q)[1] = e /\ \A i \in 2..(Len(q) + 1) : Cons(e, q)[i] = q[i - 1]
    <3> DEFINE S == Route
    <3>1. e \in S /\ q \in Seq(S)
      BY <1>1, <2>1
    <3> HIDE DEF S
    <3>2. /\ Cons(e, q) \in Seq(S) /\ Len(Cons(e, q)) = Len(q) + 1
          /\ Cons(e, q)[1] = e /\ \A i \in 2..(Len(q) + 1) : Cons(e, q)[i] = q[i - 1]
      BY <3>1, ConsProperties
    <3>. QED  BY <3>2 DEF S
  <2>. QED  BY <2>2 DEF q
<1> HIDE DEF r
<1>5. U.rtable = r /\ U.mptable = T.mptable /\ U.status = T.status
  BY <1>0, <1>3, <1>4, WithRtable
<1>6. AbsPeers(U) = AbsPeers(T) /\ \A w : AbsRoute(U, w) = AbsRoute(T, w)
  BY <1>5, SameMptable
<1> DEFINE a == AbsRoutes(T)
           b == AbsRoutes(U)
<1>7. /\ a \in Seq(ARoute) /\ Len(a) = Len(T.rtable)
      /\ \A i \in 1..Len(T.rtable) : a[i] = AbsRoute(T, T.rtable[i])
  BY <1>0, AbsRoutesType
<1>8. /\ b \in Seq(ARoute) /\ Len(b) = Len(T.rtable) + 1 /\ DOMAIN r = 1..(Len(T.rtable) + 1)
      /\ \A i \in DOMAIN r : b[i] = AbsRoute(T, r[i])
  BY <1>0, <1>4, <1>5, <1>6, AbsRoutesType, LenProperties
<1> HIDE DEF a, b
<1>9. b[1] = x
  <2>1. 1 \in DOMAIN r
    BY <1>0, <1>8
  <2>. QED  BY <1>2, <1>4, <1>8, <2>1
<1>10. ASSUME NEW i \in 1..Len(a)  PROVE b[i + 1] = a[i]
  <2>1. i + 1 \in DOMAIN r /\ i + 1 \in 2..(Len(T.rtable) + 1) /\ (i + 1) - 1 = i
    BY <1>0, <1>7, <1>8
  <2>2. r[i + 1] = T.rtable[(i + 1) - 1]
    BY <1>4, <2>1
  <2>3. r[i + 1] = T.rtable[i]
    BY <2>1, <2>2
  <2>. QED  BY <1>7, <1>8, <2>1, <2>3
<1>11. b = Cons(x, a)
  BY <1>2, <1>7, <1>8, <1>9, <1>10, IsCons
<1>. QED  BY <1>5, <1>6, <1>11 DEF a, b, x

LEMMA DeleteItemMap ==
  ASSUME NEW T, Good(T), NEW g, NEW m, NEW k, k = RouteIdx(T, g, m), k # 0,
         NEW U, U = delete_item(T, g, m)
  PROVE  /\ AbsRoutes(U) = RemoveAt(AbsRoutes(T), k)
         /\ AbsPeers(U) = AbsPeers(T) /\ U.status = T.status
<1> DEFINE r == RemoveAt(T.rtable, k)
<1>0. /\ T \in Table /\ T.rtable \in Seq(Route) /\ Len(T.rtable) \in Nat
      /\ DOMAIN T.rtable = 1..Len(T.rtable) /\ Good(U)
  BY TableFields, DeleteItemGood DEF Good
<1>1. k \in 1..Len(T.rtable)
  BY <1>0, RouteIdxType
<1>2. U = [T EXCEPT !.rtable = r]
  BY DEF delete_item
<1>3. /\ r \in Seq(Route) /\ Len(r) = Len(T.rtable) - 1
      /\ \A i \in 1..(Len(T.rtable) - 1) :
           r[i] = IF i < k THEN T.rtable[i] ELSE T.rtable[i + 1]
  BY <1>0, <1>1, RemoveAtProperties
<1> HIDE DEF r
<1>4. U.rtable = r /\ U.mptable = T.mptable /\ U.status = T.status
  BY <1>0, <1>2, <1>3, WithRtable
<1>5. AbsPeers(U) = AbsPeers(T) /\ \A w : AbsRoute(U, w) = AbsRoute(T, w)
  BY <1>4, SameMptable
<1> DEFINE a == AbsRoutes(T)
           b == AbsRoutes(U)
<1>6. /\ a \in Seq(ARoute) /\ Len(a) = Len(T.rtable)
      /\ \A i \in 1..Len(T.rtable) : a[i] = AbsRoute(T, T.rtable[i])
  BY <1>0, AbsRoutesType
<1>7. /\ b \in Seq(ARoute) /\ Len(b) = Len(T.rtable) - 1 /\ DOMAIN r = 1..(Len(T.rtable) - 1)
      /\ \A i \in DOMAIN r : b[i] = AbsRoute(T, r[i])
  BY <1>0, <1>3, <1>4, <1>5, AbsRoutesType, LenProperties
<1> HIDE DEF a, b
<1>8. ASSUME NEW j \in 1..(Len(a) - 1)
      PROVE  b[j] = IF j < k THEN a[j] ELSE a[j + 1]
  <2>1. j \in DOMAIN r /\ j \in 1..Len(T.rtable) /\ j + 1 \in 1..Len(T.rtable)
    BY <1>0, <1>6, <1>7
  <2>2. b[j] = AbsRoute(T, r[j]) /\ a[j] = AbsRoute(T, T.rtable[j])
        /\ a[j + 1] = AbsRoute(T, T.rtable[j + 1])
    BY <1>6, <1>7, <2>1
  <2>3. r[j] = IF j < k THEN T.rtable[j] ELSE T.rtable[j + 1]
    BY <1>3, <1>7, <2>1
  <2>. QED  BY <2>2, <2>3
<1>9. b = RemoveAt(a, k)
  BY <1>1, <1>6, <1>7, <1>8, IsRemoveAt
<1>. QED  BY <1>4, <1>5, <1>9 DEF a, b

WithPeer(r, p) == [r EXCEPT !.peer = p]

(* The routes with the peer of one of them replaced. *)
Rebound(a, k, p) == [a EXCEPT ![k].peer = p]

LEMMA ReboundIs ==
  ASSUME NEW a \in Seq(ARoute), NEW b \in Seq(ARoute), NEW k \in 1..Len(a), NEW p,
         Len(b) = Len(a), \A i \in 1..Len(a) : i # k => b[i] = a[i],
         b[k] = WithPeer(a[k], p)
  PROVE  b = Rebound(a, k, p)
<1>1. a \in [1..Len(a) -> ARoute] /\ b \in [1..Len(a) -> ARoute]
  BY LenProperties
<1> DEFINE c == [a EXCEPT ![k] = WithPeer(a[k], p)]
<1>2. b = c
  <2>1. DOMAIN a = 1..Len(a) /\ DOMAIN b = 1..Len(a)
    BY <1>1
  <2>2. \A i \in 1..Len(a) : b[i] = IF i = k THEN WithPeer(a[k], p) ELSE a[i]
    BY <1>1
  <2>3. b = [i \in 1..Len(a) |-> IF i = k THEN WithPeer(a[k], p) ELSE a[i]]
    BY <1>1, <2>2
  <2>. QED  BY <1>1, <2>1, <2>3
<1>. QED  BY <1>2 DEF Rebound, WithPeer

BoundTo(T, k, flag, p) == [T EXCEPT !.rtable[k].mp_flag = flag, !.rtable[k].mptable = p]

(* At address a is the object of a peer. *)
PointsTo(T, a, peer) ==
  \E j \in DOMAIN T.mptable : a = T.mptable[j].ptr /\ peer = T.mptable[j].select_addr

Binding(T, flag, a, peer) == IF flag THEN PointsTo(T, a, peer) ELSE peer = None

LEMMA BindMap ==
  ASSUME NEW T, Good(T), NEW k \in DOMAIN T.rtable, NEW flag \in BOOLEAN,
         NEW p \in MPtr \cup {NULL, Uninit}, NEW peer,
         Binding(T, flag, p, peer),
         NEW U, U = BoundTo(T, k, flag, p)
  PROVE  /\ AbsRoutes(U) = Rebound(AbsRoutes(T), k, peer)
         /\ AbsPeers(U) = AbsPeers(T) /\ U.status = T.status
<1> DEFINE w == T.rtable[k]
           e == [w EXCEPT !.mp_flag = flag, !.mptable = p]
           r == [T.rtable EXCEPT ![k] = e]
<1>0. /\ T \in Table /\ T.rtable \in Seq(Route) /\ T.rtable[k] \in Route
      /\ DOMAIN T.rtable = 1..Len(T.rtable) /\ Len(T.rtable) \in Nat
  BY TableFields DEF Good
<1>1. Good(U)
  <2>1. flag => p \in Live(T)
    BY DEF Live, PointsTo, Binding
  <2>. QED  BY <2>1, BindGood DEF BoundTo
<1>2. U = [T EXCEPT !.rtable = r]
  BY <1>0 DEF Table, Route, BoundTo
<1>3. /\ e \in Route /\ e.mp_flag = flag /\ e.mptable = p
      /\ e.daddr_seg = w.daddr_seg /\ e.mask = w.mask /\ e.next_hop = w.next_hop
  <2>1. w \in Route
    BY <1>0
  <2> HIDE DEF w
  <2>. QED  BY <2>1 DEF Route
<1> HIDE DEF e
<1>4. /\ r \in Seq(Route) /\ Len(r) = Len(T.rtable) /\ DOMAIN r = DOMAIN T.rtable
      /\ \A i \in DOMAIN T.rtable : r[i] = IF i = k THEN e ELSE T.rtable[i]
  BY <1>0, <1>3, ExceptSeq
<1> HIDE DEF r
<1>5. U.rtable = r /\ U.mptable = T.mptable /\ U.status = T.status
  BY <1>0, <1>2, <1>4, WithRtable
<1>6. AbsPeers(U) = AbsPeers(T) /\ \A v : AbsRoute(U, v) = AbsRoute(T, v)
  BY <1>5, SameMptable
<1>7. PeerOf(T, e) = peer
  <2>1. CASE flag
    BY <1>3, <2>1, PeerAt DEF PointsTo, Binding
  <2>2. CASE ~flag
    BY <1>3, <2>2 DEF PeerOf, Binding
  <2>. QED  BY <2>1, <2>2
<1> DEFINE a == AbsRoutes(T)
           b == AbsRoutes(U)
<1>8. /\ a \in Seq(ARoute) /\ Len(a) = Len(T.rtable)
      /\ \A i \in 1..Len(T.rtable) : a[i] = AbsRoute(T, T.rtable[i])
  BY <1>0, AbsRoutesType
<1>9. /\ b \in Seq(ARoute) /\ Len(b) = Len(T.rtable)
      /\ \A i \in 1..Len(T.rtable) : b[i] = AbsRoute(T, r[i])
  BY <1>0, <1>1, <1>4, <1>5, <1>6, AbsRoutesType
<1>10. AbsRoute(T, e) = WithPeer(AbsRoute(T, w), peer)
  BY <1>3, <1>7 DEF AbsRoute, WithPeer
<1> HIDE DEF a, b
<1>11. b[k] = WithPeer(a[k], peer)
  BY <1>0, <1>4, <1>8, <1>9, <1>10
<1>12. \A i \in 1..Len(a) : i # k => b[i] = a[i]
  BY <1>0, <1>4, <1>8, <1>9
<1>13. b = Rebound(a, k, peer)
  BY <1>0, <1>8, <1>9, <1>11, <1>12, ReboundIs
<1>. QED  BY <1>5, <1>6, <1>13 DEF a, b

-----------------------------------------------------------------------------
(* The commands on paths. *)

Ends(s, d) == <<s, d>>

(* The peers with one more path to p. *)
MorePaths(P, p, x) ==
  [q \in DOMAIN P \cup {p} |->
     IF q # p THEN P[q] ELSE Cons(x, IF p \in DOMAIN P THEN P[p] ELSE << >>)]

LEMMA PathCons ==
  ASSUME NEW y \in Path, NEW z \in Seq(Path)
  PROVE  /\ Cons(y, z) \in Seq(Path) /\ Len(Cons(y, z)) = Len(z) + 1
         /\ Cons(y, z)[1] = y
         /\ \A i \in 2..(Len(z) + 1) : Cons(y, z)[i] = z[i - 1]
BY ConsProperties

LEMMA NewPathEnds ==
  ASSUME NEW q \in Seq(Path), NEW s \in Intf, NEW d \in Intf, NEW t \in Nat
  PROVE  /\ add_mpath_item(q, s, d, t) \in Seq(Path)
         /\ AbsPaths(add_mpath_item(q, s, d, t)) = Cons(Ends(s, d), AbsPaths(q))
<1> DEFINE e == NewItem(s, d, t)
           c == Cons(e, q)
           x == Ends(s, d)
<1>1. e \in Path /\ e.s_intf = s /\ e.d_intf = d
  BY NewItemType DEF NewItem
<1>2. x \in Intf \X Intf /\ x = <<s, d>>
  BY DEF Ends
<1>3. add_mpath_item(q, s, d, t) = c
  BY DEF add_mpath_item
<1> HIDE DEF e, x
<1>4. /\ c \in Seq(Path) /\ Len(c) = Len(q) + 1 /\ c[1] = e
      /\ \A i \in 2..(Len(q) + 1) : c[i] = q[i - 1]
  BY <1>1, PathCons
<1> HIDE DEF c
<1> DEFINE a == AbsPaths(q)
           b == AbsPaths(c)
<1>5. /\ a \in Seq(Intf \X Intf) /\ Len(a) = Len(q) /\ Len(q) \in Nat
      /\ \A i \in 1..Len(q) : a[i] = <<q[i].s_intf, q[i].d_intf>>
  BY AbsPathsType
<1>6. /\ b \in Seq(Intf \X Intf) /\ Len(b) = Len(q) + 1
      /\ \A i \in 1..(Len(q) + 1) : b[i] = <<c[i].s_intf, c[i].d_intf>>
  BY <1>4, AbsPathsType
<1> HIDE DEF a, b
<1>7. b[1] = x
  <2>1. 1 \in 1..(Len(q) + 1)
    BY <1>5
  <2>2. b[1] = <<c[1].s_intf, c[1].d_intf>>
    BY <1>6, <2>1
  <2>. QED  BY <1>1, <1>2, <1>4, <2>2
<1>8. ASSUME NEW i \in 1..Len(a)  PROVE b[i + 1] = a[i]
  <2>1. i + 1 \in 1..(Len(q) + 1) /\ i + 1 \in 2..(Len(q) + 1) /\ (i + 1) - 1 = i
    BY <1>5
  <2>2. c[i + 1] = q[(i + 1) - 1]
    BY <1>4, <2>1
  <2>3. c[i + 1] = q[i]
    BY <2>1, <2>2
  <2>. QED  BY <1>5, <1>6, <2>1, <2>3
<1>9. Len(b) = Len(a) + 1
  BY <1>5, <1>6
<1> DEFINE S == Intf \X Intf
<1>10. a \in Seq(S) /\ b \in Seq(S) /\ x \in S
  BY <1>2, <1>5, <1>6
<1> HIDE DEF S
<1>11. b = Cons(x, a)
  BY <1>7, <1>8, <1>9, <1>10, IsCons
<1>. QED  BY <1>3, <1>4, <1>11 DEF a, b, x

LEMMA AddMpathMap ==
  ASSUME NEW T, Good(T), NEW select \in Peer, NEW s \in Intf, NEW d \in Intf,
         NEW fresh \in MPtr \ Live(T), NEW t \in Nat,
         NEW U, U = add_mpath(T, select, s, d, fresh, t)
  PROVE  /\ AbsRoutes(U) = AbsRoutes(T) /\ U.status = T.status
         /\ AbsPeers(U) = MorePaths(AbsPeers(T), select, Ends(s, d))
<1> DEFINE k == SelectIdx(T, select)
           n == Len(T.mptable)
           P == AbsPeers(T)
           x == Ends(s, d)
           F == MorePaths(P, select, x)
<1>0. /\ T \in Table /\ T.mptable \in Seq(Mpath) /\ n \in Nat
      /\ DOMAIN T.mptable = 1..n /\ \A i \in DOMAIN T.mptable : T.mptable[i] \in Mpath
      /\ Good(U)
  BY TableFields, AddMpathGood DEF Good
<1>1. DOMAIN P = Peers(T)
  BY AbsPeersType
<1>2. /\ MapOn(F, Peers(T) \cup {select})
      /\ \A q \in Peers(T) : q # select => F[q] = P[q]
      /\ F[select] = Cons(x, IF select \in Peers(T) THEN P[select] ELSE << >>)
  BY <1>1 DEF MorePaths, MapOn
<1> HIDE DEF F, P, x
<1>3. CASE k # 0
  <2>1. k \in DOMAIN T.mptable /\ T.mptable[k].select_addr = select
    BY <1>0, <1>3, SelectIdxType
  <2> DEFINE q == add_mpath_item(T.mptable[k].paths, s, d, t)
  <2>2. q \in Seq(Path) /\ AbsPaths(q) = Cons(x, AbsPaths(T.mptable[k].paths))
    BY <2>1, PathsOf, NewPathEnds DEF x
  <2>3. U = [T EXCEPT !.mptable[k].paths = q]
    BY <1>3 DEF add_mpath
  <2> HIDE DEF k, q
  <2>4. /\ SameObjects(T, U) /\ U.status = T.status
        /\ \A i \in DOMAIN T.mptable :
             U.mptable[i].paths = IF i = k THEN q ELSE T.mptable[i].paths
    BY <2>1, <2>3, OnePathsIs
  <2>5. AbsRoutes(U) = AbsRoutes(T) /\ Peers(U) = Peers(T)
    BY <1>0, <2>4, SamePeerOf
  <2>6. select \in Peers(T) /\ P[select] = AbsPaths(T.mptable[k].paths)
    BY <2>1, AbsPeersType DEF P
  <2>7. MapOn(F, Peers(U))
    <3>1. Peers(T) \cup {select} = Peers(U)
      BY <2>5, <2>6
    <3>. QED  BY <1>2, <3>1, Zenon
  <2>8. ASSUME NEW i \in DOMAIN U.mptable
        PROVE  F[U.mptable[i].select_addr] = AbsPaths(U.mptable[i].paths)
    <3>1. i \in DOMAIN T.mptable /\ U.mptable[i].select_addr = T.mptable[i].select_addr
      BY <2>4 DEF SameObjects
    <3>2. CASE i = k
      <4>1. F[select] = Cons(x, AbsPaths(T.mptable[k].paths))
        BY <1>2, <2>6
      <4>. QED  BY <2>1, <2>2, <2>4, <3>1, <3>2, <4>1
    <3>3. CASE i # k
      <4>1. T.mptable[i].select_addr # select
        BY <2>1, <3>1, <3>3 DEF Good, ObjectsDistinct
      <4>2. /\ T.mptable[i].select_addr \in Peers(T)
            /\ P[T.mptable[i].select_addr] = AbsPaths(T.mptable[i].paths)
        BY <3>1, AbsPeersType DEF P
      <4>. QED  BY <1>2, <2>4, <3>1, <3>3, <4>1, <4>2
    <3>. QED  BY <3>2, <3>3
  <2>9. AbsPeers(U) = F
    BY <1>0, <2>7, <2>8, PeersAre
  <2>. QED  BY <2>4, <2>5, <2>9 DEF F, P, x
<1>4. CASE k = 0
  <2> DEFINE empty == << >>
             l == add_mpath_item(empty, s, d, t)
             o == [ptr |-> fresh, select_addr |-> select, prev_select |-> NULL,
                   paths |-> l]
             m == Cons(o, T.mptable)
  <2>0. empty \in Seq(Path) /\ Len(empty) = 0
    OBVIOUS
  <2>00. AbsPaths(empty) = << >>
    <3> HIDE DEF empty
    <3>1. AbsPaths(empty) \in Seq(Intf \X Intf) /\ Len(AbsPaths(empty)) = 0
      BY <2>0, AbsPathsType
    <3>. QED  BY <3>1, EmptySeq
  <2>1. l \in Seq(Path) /\ AbsPaths(l) = Cons(x, << >>)
    <3> HIDE DEF empty
    <3>1. l \in Seq(Path) /\ AbsPaths(l) = Cons(Ends(s, d), AbsPaths(empty))
      BY <2>0, NewPathEnds
    <3>. QED  BY <2>00, <3>1 DEF x
  <2>2. /\ o \in Mpath /\ o.ptr = fresh /\ o.select_addr = select
        /\ AbsPaths(o.paths) = Cons(x, << >>)
    <3> HIDE DEF l
    <3>. QED  BY <2>1 DEF Mpath
  <2>3. U = [T EXCEPT !.mptable = m]
    BY <1>4 DEF add_mpath
  <2> HIDE DEF o
  <2>4. /\ m \in Seq(Mpath) /\ Len(m) = n + 1 /\ m[1] = o
        /\ \A i \in 2..(n + 1) : m[i] = T.mptable[i - 1]
    <3> DEFINE q == T.mptable
    <3>1. q \in Seq(Mpath)
      BY <1>0
    <3> HIDE DEF q
    <3>2. /\ Cons(o, q) \in Seq(Mpath) /\ Len(Cons(o, q)) = Len(q) + 1
          /\ Cons(o, q)[1] = o /\ \A i \in 2..(Len(q) + 1) : Cons(o, q)[i] = q[i - 1]
      BY <2>2, <3>1, ConsProperties
    <3>. QED  BY <3>2 DEF q
  <2> HIDE DEF m, n
  <2>5. U.mptable = m /\ U.rtable = T.rtable /\ U.status = T.status
    BY <1>0, <2>3, <2>4, WithMptable
  <2>6. DOMAIN m = 1..(n + 1)
    BY <2>4, LenProperties
  <2>7. \A i \in DOMAIN m :
          \/ i = 1 /\ m[i] = o
          \/ i # 1 /\ i - 1 \in DOMAIN T.mptable /\ m[i] = T.mptable[i - 1]
    BY <1>0, <2>4, <2>6
  <2>8. 1 \in DOMAIN m /\ \A i \in DOMAIN T.mptable : i + 1 \in DOMAIN m /\ m[i + 1] = T.mptable[i]
    BY <1>0, <2>4, <2>6
  <2>9. Peers(U) = Peers(T) \cup {select} /\ select \notin Peers(T)
    <3>1. \A i \in DOMAIN T.mptable : T.mptable[i].select_addr # select
      BY <1>0, <1>4, SelectIdxType
    <3>2. Peers(U) \subseteq Peers(T) \cup {select}
      BY <2>2, <2>5, <2>7 DEF Peers
    <3>3. Peers(T) \subseteq Peers(U)
      BY <2>5, <2>8 DEF Peers
    <3>4. select \in Peers(U)
      BY <2>2, <2>4, <2>5, <2>8 DEF Peers
    <3>. QED  BY <3>1, <3>2, <3>3, <3>4 DEF Peers
  <2>10. AbsRoutes(U) = AbsRoutes(T)
    <3>1. ASSUME NEW i \in DOMAIN T.rtable
          PROVE  AbsRoutes(U)[i] = AbsRoutes(T)[i]
      <4>1. PeerOf(U, T.rtable[i]) = PeerOf(T, T.rtable[i])
        <5>1. CASE T.rtable[i].mp_flag
          <6>1. PICK j \in DOMAIN T.mptable :
                       /\ T.rtable[i].mptable = T.mptable[j].ptr
                       /\ PeerOf(T, T.rtable[i]) = T.mptable[j].select_addr
            BY <5>1, PeerType
          <6>2. j + 1 \in DOMAIN U.mptable /\ U.mptable[j + 1] = T.mptable[j]
            BY <2>5, <2>8
          <6>3. PeerOf(U, T.rtable[i]) = U.mptable[j + 1].select_addr
            BY <1>0, <5>1, <6>1, <6>2, PeerAt
          <6>. QED  BY <6>1, <6>2, <6>3
        <5>2. CASE ~T.rtable[i].mp_flag
          BY <5>2 DEF PeerOf
        <5>. QED  BY <5>1, <5>2
      <4>2. AbsRoute(U, U.rtable[i]) = AbsRoute(T, T.rtable[i])
        BY <2>5, <4>1 DEF AbsRoute
      <4>. QED  BY <1>0, <2>5, <4>2, AbsRoutesType
    <3>2. /\ AbsRoutes(T) \in Seq(ARoute) /\ AbsRoutes(U) \in Seq(ARoute)
          /\ Len(AbsRoutes(T)) = Len(AbsRoutes(U))
          /\ DOMAIN T.rtable = 1..Len(AbsRoutes(T))
      BY <1>0, <2>5, AbsRoutesType, LenProperties
    <3>. QED  BY <3>1, <3>2, SeqEqual
  <2>11. MapOn(F, Peers(U))
    BY <1>2, <2>9, Zenon
  <2>12. ASSUME NEW i \in DOMAIN U.mptable
         PROVE  F[U.mptable[i].select_addr] = AbsPaths(U.mptable[i].paths)
    <3>1. CASE i = 1
      BY <1>2, <2>2, <2>4, <2>5, <2>9, <3>1
    <3>2. CASE i # 1
      <4>1. i - 1 \in DOMAIN T.mptable /\ U.mptable[i] = T.mptable[i - 1]
        BY <2>5, <2>7, <3>2
      <4>2. /\ U.mptable[i].select_addr \in Peers(T)
            /\ P[U.mptable[i].select_addr] = AbsPaths(U.mptable[i].paths)
        BY <4>1, AbsPeersType DEF P
      <4>. QED  BY <1>2, <2>9, <4>2
    <3>. QED  BY <3>1, <3>2
  <2>13. AbsPeers(U) = F
    BY <1>0, <2>11, <2>12, PeersAre
  <2>. QED  BY <2>5, <2>10, <2>13 DEF F, P, x
<1>. QED  BY <1>3, <1>4

(* The positions of a path in the map are those of the items that join the *)
(* two interfaces.                                                         *)
At(a, x) == {j \in DOMAIN a : a[j] = x}

LEMMA AtEnds ==
  ASSUME NEW q \in Seq(Path), NEW s, NEW d
  PROVE  /\ PathIdx(q, s, d) = First(At(AbsPaths(q), Ends(s, d)))
         /\ At(AbsPaths(q), Ends(s, d)) \subseteq Nat \ {0}
<1> DEFINE a == AbsPaths(q)
<1>1. /\ DOMAIN a = DOMAIN q /\ DOMAIN q = 1..Len(q) /\ Len(q) \in Nat
      /\ \A i \in DOMAIN q : a[i] = <<q[i].s_intf, q[i].d_intf>>
  BY AbsPathsType
<1> HIDE DEF a
<1>2. \A i \in DOMAIN q : a[i] = Ends(s, d) <=> Joins(q[i], s, d)
  BY <1>1 DEF Ends, Joins
<1>3. At(a, Ends(s, d)) = {i \in DOMAIN q : Joins(q[i], s, d)}
  BY <1>1, <1>2 DEF At
<1>4. At(a, Ends(s, d)) \subseteq Nat \ {0}
  BY <1>1 DEF At
<1>. QED  BY <1>3, <1>4 DEF PathIdx, a

LEMMA LessPathEnds ==
  ASSUME NEW q \in Seq(Path), NEW s \in Intf, NEW d \in Intf
  PROVE  LET a == AbsPaths(q)
             x == Ends(s, d)
             c == delete_mpath_item(q, s, d)
         IN  /\ x \notin Range(a) => c = q
             /\ x \in Range(a) => AbsPaths(c) = RemoveAt(a, Min(At(a, x)))
<1> DEFINE a == AbsPaths(q)
           x == Ends(s, d)
           c == delete_mpath_item(q, s, d)
           k == PathIdx(q, s, d)
           S == Intf \X Intf
<1>1. /\ a \in Seq(S) /\ Len(a) = Len(q) /\ Len(q) \in Nat /\ DOMAIN q = 1..Len(q)
      /\ DOMAIN a = DOMAIN q
      /\ \A i \in DOMAIN q : a[i] = <<q[i].s_intf, q[i].d_intf>>
  BY AbsPathsType
<1>2. k = First(At(a, x)) /\ At(a, x) \subseteq Nat \ {0}
  BY AtEnds
<1>3. c = IF k = 0 THEN q ELSE RemoveAt(q, k)
  BY DEF delete_mpath_item
<1> HIDE DEF a, x, c, k, S
<1>4. x \in Range(a) <=> At(a, x) # {}
  BY DEF Range, At
<1>5. CASE x \notin Range(a)
  <2>1. k = 0
    BY <1>2, <1>4, <1>5, FirstOf
  <2>. QED  BY <1>3, <1>5, <2>1 DEF a, x, c
<1>6. CASE x \in Range(a)
  <2>1. k \in At(a, x) /\ k # 0 /\ k = Min(At(a, x))
    BY <1>2, <1>4, <1>6, FirstOf DEF First
  <2>2. k \in 1..Len(q)
    BY <1>1, <2>1 DEF At
  <2>3. c = RemoveAt(q, k)
    BY <1>3, <2>1
  <2>4. /\ c \in Seq(Path) /\ Len(c) = Len(q) - 1
        /\ \A j \in 1..(Len(q) - 1) : c[j] = IF j < k THEN q[j] ELSE q[j + 1]
    BY <2>2, <2>3, RemoveAtProperties
  <2> DEFINE b == AbsPaths(c)
  <2>5. /\ b \in Seq(S) /\ Len(b) = Len(q) - 1 /\ DOMAIN c = 1..(Len(q) - 1)
        /\ \A i \in DOMAIN c : b[i] = <<c[i].s_intf, c[i].d_intf>>
    BY <2>4, AbsPathsType DEF S
  <2> HIDE DEF b
  <2>6. ASSUME NEW j \in 1..(Len(a) - 1)
        PROVE  b[j] = IF j < k THEN a[j] ELSE a[j + 1]
    <3>1. j \in DOMAIN c /\ j \in DOMAIN q /\ j + 1 \in DOMAIN q
      BY <1>1, <2>5
    <3>2. /\ b[j] = <<c[j].s_intf, c[j].d_intf>> /\ a[j] = <<q[j].s_intf, q[j].d_intf>>
          /\ a[j + 1] = <<q[j + 1].s_intf, q[j + 1].d_intf>>
      BY <1>1, <2>5, <3>1
    <3>3. c[j] = IF j < k THEN q[j] ELSE q[j + 1]
      BY <2>4, <2>5, <3>1
    <3>. QED  BY <3>2, <3>3
  <2>7. b = RemoveAt(a, k)
    BY <1>1, <2>2, <2>5, <2>6, IsRemoveAt
  <2>. QED  BY <1>6, <2>1, <2>7 DEF a, b, c, x
<1>. QED  BY <1>5, <1>6

(* The peers without the newest path x of p. *)
LessPaths(P, p, x) == [P EXCEPT ![p] = RemoveAt(@, Min(At(@, x)))]

LEMMA LessPathsIs ==
  ASSUME NEW P, NEW D, MapOn(P, D), NEW p \in D, NEW x
  PROVE  /\ MapOn(LessPaths(P, p, x), D)
         /\ \A q \in D : LessPaths(P, p, x)[q] =
                            IF q = p THEN RemoveAt(P[p], Min(At(P[p], x))) ELSE P[q]
<1>1. DOMAIN P = D
  BY DEF MapOn
<1>. QED  BY <1>1 DEF LessPaths, MapOn

LEMMA DeleteMpathMap ==
  ASSUME NEW T, Good(T), NEW select, NEW s \in Intf, NEW d \in Intf,
         NEW U, U = delete_mpath(T, select, s, d)
  PROVE  /\ U.status = T.status
         /\ \/ SameMap(T, U)
            \/ /\ select \in DOMAIN AbsPeers(T)
               /\ Ends(s, d) \in Range(AbsPeers(T)[select])
               /\ AbsRoutes(U) = AbsRoutes(T)
               /\ AbsPeers(U) = LessPaths(AbsPeers(T), select, Ends(s, d))
<1> DEFINE P == AbsPeers(T)
           x == Ends(s, d)
           np == [i \in DOMAIN T.mptable |-> delete_mpath_item(T.mptable[i].paths, s, d)]
<1>0. Good(U) /\ U.status = T.status
  BY DeleteMpathGood
<1>1. \A i \in DOMAIN T.mptable : np[i] = delete_mpath_item(T.mptable[i].paths, s, d)
  OBVIOUS
<1>2. U = WithPaths(T, select, np)
  BY DEF delete_mpath
<1> HIDE DEF np
<1>3. /\ SameObjects(T, U)
      /\ \A i \in DOMAIN T.mptable :
           U.mptable[i].paths = IF T.mptable[i].select_addr = select
                                THEN np[i] ELSE T.mptable[i].paths
  BY <1>2, WithPathsIs
<1>4. /\ DOMAIN P = Peers(T) /\ MapOn(P, Peers(T))
      /\ \A k \in DOMAIN T.mptable :
           /\ T.mptable[k].select_addr \in Peers(T)
           /\ P[T.mptable[k].select_addr] = AbsPaths(T.mptable[k].paths)
  BY AbsPeersType
<1>5. ASSUME NEW i \in DOMAIN T.mptable, T.mptable[i].select_addr = select
      PROVE  /\ x \notin Range(P[select]) => np[i] = T.mptable[i].paths
             /\ x \in Range(P[select]) =>
                  AbsPaths(np[i]) = RemoveAt(P[select], Min(At(P[select], x)))
  BY <1>1, <1>4, <1>5, PathsOf, LessPathEnds
<1>6. AbsRoutes(U) = AbsRoutes(T) /\ Peers(U) = Peers(T)
  BY <1>0, <1>3, SamePeerOf
<1> HIDE DEF P, x
<1>7. CASE select \in Peers(T) /\ x \in Range(P[select])
  <2> DEFINE F == LessPaths(P, select, x)
  <2>1. /\ MapOn(F, Peers(U))
        /\ \A q \in Peers(T) : F[q] = IF q = select THEN RemoveAt(P[select], Min(At(P[select], x)))
                                      ELSE P[q]
    BY <1>4, <1>6, <1>7, LessPathsIs
  <2> HIDE DEF F
  <2>2. ASSUME NEW i \in DOMAIN U.mptable
        PROVE  F[U.mptable[i].select_addr] = AbsPaths(U.mptable[i].paths)
    <3>1. i \in DOMAIN T.mptable /\ U.mptable[i].select_addr = T.mptable[i].select_addr
      BY <1>3 DEF SameObjects
    <3>2. CASE T.mptable[i].select_addr = select
      BY <1>3, <1>5, <1>7, <2>1, <3>1, <3>2
    <3>3. CASE T.mptable[i].select_addr # select
      BY <1>3, <1>4, <2>1, <3>1, <3>3
    <3>. QED  BY <3>2, <3>3
  <2>3. AbsPeers(U) = F
    BY <1>0, <2>1, <2>2, PeersAre
  <2>. QED  BY <1>0, <1>4, <1>6, <1>7, <2>3 DEF F, P, x
<1>8. CASE ~ (select \in Peers(T) /\ x \in Range(P[select]))
  <2>1. ASSUME NEW i \in DOMAIN T.mptable
        PROVE  AbsPaths(U.mptable[i].paths) = AbsPaths(T.mptable[i].paths)
    BY <1>3, <1>4, <1>5, <1>8
  <2>2. SameMap(T, U)
    BY <1>0, <1>3, <2>1, SameEnds
  <2>. QED  BY <1>0, <2>2
<1>. QED  BY <1>7, <1>8

-----------------------------------------------------------------------------
(* delete_select. *)

(* The routes with those bound to p unbound. *)
UnboundIn(a, p) ==
  [i \in DOMAIN a |-> IF a[i].peer = p THEN WithPeer(a[i], None) ELSE a[i]]

Without(P, p) == [q \in DOMAIN P \ {p} |-> P[q]]

LEMMA UnboundIs ==
  ASSUME NEW a \in Seq(ARoute), NEW b \in Seq(ARoute), NEW p, Len(b) = Len(a),
         \A i \in 1..Len(a) :
           b[i] = IF a[i].peer = p THEN WithPeer(a[i], None) ELSE a[i]
  PROVE  b = UnboundIn(a, p)
<1>1. a \in [1..Len(a) -> ARoute] /\ b \in [1..Len(a) -> ARoute] /\ DOMAIN a = 1..Len(a)
  BY LenProperties
<1>2. b = [i \in 1..Len(a) |-> b[i]]
  BY <1>1
<1>. QED  BY <1>1, <1>2 DEF UnboundIn

LEMMA WithoutPeer ==
  ASSUME NEW a \in ARoute, a.peer = None
  PROVE  WithPeer(a, None) = a
BY DEF WithPeer, ARoute

LEMMA UnflagMap ==
  ASSUME NEW T, Good(T), NEW select, NEW U, U = unflag_select(T, select)
  PROVE  /\ AbsRoutes(U) = UnboundIn(AbsRoutes(T), select)
         /\ AbsPeers(U) = AbsPeers(T) /\ U.status = T.status /\ Good(U)
         /\ U.mptable = T.mptable
<1> DEFINE r == [i \in DOMAIN T.rtable |->
                   IF T.rtable[i].mp_flag
                        /\ Deref(T, T.rtable[i].mptable).select_addr = select
                   THEN [T.rtable[i] EXCEPT !.mp_flag = FALSE]
                   ELSE T.rtable[i]]
<1>0. /\ T \in Table /\ Len(T.rtable) \in Nat /\ DOMAIN T.rtable = 1..Len(T.rtable)
      /\ \A i \in DOMAIN T.rtable : T.rtable[i] \in Route
  BY TableFields DEF Good
<1>1. Good(U) /\ U.mptable = T.mptable /\ U.status = T.status
  BY UnflagGood
<1>2. AbsPeers(U) = AbsPeers(T) /\ \A w : AbsRoute(U, w) = AbsRoute(T, w)
  BY <1>1, SameMptable
<1>3. U.rtable = r
  BY <1>0 DEF unflag_select, Table
<1> DEFINE a == AbsRoutes(T)
           b == AbsRoutes(U)
<1>4. /\ a \in Seq(ARoute) /\ Len(a) = Len(T.rtable)
      /\ \A i \in DOMAIN T.rtable : a[i] = AbsRoute(T, T.rtable[i]) /\ a[i] \in ARoute
  BY AbsRoutesType
<1>5. DOMAIN r = DOMAIN T.rtable
  OBVIOUS
<1>6. /\ b \in Seq(ARoute) /\ Len(b) = Len(T.rtable)
      /\ \A i \in DOMAIN T.rtable : b[i] = AbsRoute(T, U.rtable[i])
  <2> HIDE DEF r
  <2>1. /\ b \in Seq(ARoute) /\ DOMAIN b = DOMAIN T.rtable
        /\ \A i \in DOMAIN T.rtable : b[i] = AbsRoute(U, U.rtable[i])
    BY <1>1, <1>3, <1>5, AbsRoutesType
  <2>2. DOMAIN b = 1..Len(b) /\ Len(b) \in Nat
    BY <2>1, LenProperties
  <2> HIDE DEF b
  <2>. QED  BY <1>0, <1>2, <2>1, <2>2
<1>7. ASSUME NEW i \in DOMAIN T.rtable
      PROVE  b[i] = IF a[i].peer = select THEN WithPeer(a[i], None) ELSE a[i]
  <2> DEFINE w == T.rtable[i]
             v == [w EXCEPT !.mp_flag = FALSE]
  <2>1. w \in Route
    BY <1>0
  <2>2. U.rtable[i] = IF w.mp_flag /\ Deref(T, w.mptable).select_addr = select
                      THEN v ELSE w
    BY <1>3
  <2>3. /\ ~ v.mp_flag /\ v.daddr_seg = w.daddr_seg /\ v.mask = w.mask
        /\ v.next_hop = w.next_hop
    <3> HIDE DEF w
    <3>. QED  BY <2>1 DEF Route
  <2>4. /\ b[i] = AbsRoute(T, U.rtable[i]) /\ a[i] = AbsRoute(T, w) /\ a[i] \in ARoute
    BY <1>4, <1>6
  <2> HIDE DEF a, b, r, w, v
  <2>5. a[i].peer = PeerOf(T, w)
    BY <2>4, AbsRouteFields
  <2>6. PeerOf(T, w) = IF w.mp_flag THEN Deref(T, w.mptable).select_addr ELSE None
    BY DEF PeerOf
  <2>7. CASE w.mp_flag /\ Deref(T, w.mptable).select_addr = select
    <3>1. a[i].peer = select
      BY <2>5, <2>6, <2>7
    <3>2. b[i] = AbsRoute(T, v)
      BY <2>2, <2>4, <2>7
    <3>3. AbsRoute(T, v) = WithPeer(AbsRoute(T, w), None)
      BY <2>3 DEF AbsRoute, PeerOf, WithPeer
    <3>. QED  BY <2>4, <3>1, <3>2, <3>3
  <2>8. CASE ~ (w.mp_flag /\ Deref(T, w.mptable).select_addr = select)
    <3>1. b[i] = a[i]
      BY <2>2, <2>4, <2>8
    <3>2. CASE a[i].peer = select
      <4>1. a[i].peer = None
        BY <2>5, <2>6, <2>8, <3>2
      <4>2. WithPeer(a[i], None) = a[i]
        BY <2>4, <4>1, WithoutPeer
      <4>. QED  BY <3>1, <3>2, <4>2
    <3>3. CASE a[i].peer # select
      BY <3>1, <3>3
    <3>. QED  BY <3>2, <3>3
  <2>. QED  BY <2>7, <2>8
<1> HIDE DEF a, b, r
<1>8. b = UnboundIn(a, select)
  BY <1>0, <1>4, <1>6, <1>7, UnboundIs
<1>. QED  BY <1>1, <1>2, <1>8 DEF a, b

(* A peer that is not known has no routes. *)
LEMMA UnboundStranger ==
  ASSUME NEW T, Good(T), NEW select, select \notin Peers(T)
  PROVE  UnboundIn(AbsRoutes(T), select) = AbsRoutes(T)
<1> DEFINE a == AbsRoutes(T)
<1>1. /\ a \in Seq(ARoute) /\ Len(a) = Len(T.rtable) /\ DOMAIN a = DOMAIN T.rtable
      /\ \A i \in DOMAIN T.rtable : a[i] = AbsRoute(T, T.rtable[i]) /\ a[i] \in ARoute
      /\ DOMAIN a = 1..Len(a)
  BY AbsRoutesType, LenProperties
<1>2. ASSUME NEW i \in DOMAIN T.rtable
      PROVE  a[i] = IF a[i].peer = select THEN WithPeer(a[i], None) ELSE a[i]
  <2>1. a[i].peer = PeerOf(T, T.rtable[i])
    BY <1>1, AbsRouteFields
  <2>2. T.rtable[i].mp_flag => PeerOf(T, T.rtable[i]) \in Peers(T)
    BY PeerType DEF Peers
  <2>3. a[i].peer = select => a[i].peer = None
    BY <2>1, <2>2, PeerType
  <2> HIDE DEF a
  <2>. QED  BY <1>1, <2>3, WithoutPeer
<1> HIDE DEF a
<1>3. a = UnboundIn(a, select)
  BY <1>1, <1>2, UnboundIs
<1>. QED  BY <1>3 DEF a

(* The three ways delete_select can go. *)
LEMMA DeleteSelectIs ==
  ASSUME NEW T, Good(T), NEW select
  PROVE  LET U == unflag_select(T, select)
             k == SelectIdx(T, select)
             n == Len(T.mptable)
             D == delete_select(T, select)
         IN  /\ k = 0 => D = U
             /\ k = 1 => /\ D.rtable = U.rtable /\ DOMAIN D.mptable = 1..(n - 1)
                         /\ \A i \in 1..(n - 1) : D.mptable[i] = T.mptable[i + 1]
             /\ k # 0 /\ k # 1 => D.rtable = U.rtable /\ D.mptable = T.mptable
<1> DEFINE U == unflag_select(T, select)
           k == SelectIdx(T, select)
           n == Len(T.mptable)
           D == delete_select(T, select)
           V == [U EXCEPT !.mptable = [Tail(U.mptable) EXCEPT ![1].prev_select = NULL]]
<1>0. T \in Table /\ T.mptable \in Seq(Mpath) /\ n \in Nat /\ DOMAIN T.mptable = 1..n
  BY TableFields DEF Good
<1>1. Good(U) /\ U.mptable = T.mptable /\ U \in Table
  BY UnflagGood DEF Good
<1>2. k \in Nat /\ (k # 0 => k \in 1..n)
  BY <1>0, SelectIdxType
<1>3. D = CASE k = 0 -> U
            [] k = 1 /\ n = 1 -> [U EXCEPT !.mptable = << >>]
            [] k = 1 /\ n > 1 -> V
            [] k > 1 /\ T.mptable[k].prev_select = NULL ->
                 [U EXCEPT !.status = "crashed"]
            [] k > 1 /\ T.mptable[k].prev_select # NULL ->
                 [U EXCEPT !.mptable = RemoveAt(U.mptable, k)]
  BY DEF delete_select
<1> HIDE DEF U, k, n, D, V
<1>4. CASE k = 0
  <2>1. D = U
    BY <1>3, <1>4
  <2>. QED  BY <1>4, <2>1 DEF U, k, n, D
<1>5. CASE k = 1 /\ n = 1
  <2>1. D = [U EXCEPT !.mptable = << >>]
    BY <1>3, <1>5
  <2>2. << >> \in Seq(Mpath)
    OBVIOUS
  <2>3. D.rtable = U.rtable /\ D.mptable = << >>
    BY <1>1, <2>1, <2>2, WithMptable
  <2>4. DOMAIN D.mptable = 1..(n - 1) /\ 1..(n - 1) = {}
    BY <1>5, <2>3
  <2>. QED  BY <1>5, <2>3, <2>4 DEF U, k, n, D
<1>6. CASE k = 1 /\ n > 1
  <2> DEFINE m == Tail(T.mptable)
  <2>0. \A i \in DOMAIN T.mptable : T.mptable[i].prev_select = NULL
    BY DEF Good, NoBackLinks
  <2>1. /\ [m EXCEPT ![1].prev_select = NULL] = m
        /\ m \in Seq(Mpath)
        /\ DOMAIN m = 1..(n - 1)
        /\ \A i \in 1..(n - 1) : i + 1 \in DOMAIN T.mptable /\ m[i] = T.mptable[i + 1]
    BY <1>0, <1>6, <2>0, TailProperties DEF n
  <2>2. D = [U EXCEPT !.mptable = [m EXCEPT ![1].prev_select = NULL]]
    <3>1. D = V
      BY <1>0, <1>3, <1>6
    <3>. QED  BY <1>1, <3>1 DEF V
  <2> HIDE DEF m
  <2>3. D = [U EXCEPT !.mptable = m]
    BY <2>1, <2>2
  <2>4. D.mptable = m /\ D.rtable = U.rtable
    BY <1>1, <2>1, <2>3, WithMptable
  <2>. QED  BY <1>6, <2>1, <2>4 DEF U, k, n, D
<1>7. CASE k > 1
  <2>1. T.mptable[k].prev_select = NULL
    BY <1>0, <1>2, <1>7 DEF Good, NoBackLinks
  <2>2. D = [U EXCEPT !.status = "crashed"]
    BY <1>2, <1>3, <1>7, <2>1
  <2>3. D.rtable = U.rtable /\ D.mptable = T.mptable
    BY <1>1, <2>2, WithStatus
  <2>. QED  BY <1>2, <1>7, <2>3 DEF U, k, D
<1>. QED  BY <1>0, <1>2, <1>4, <1>5, <1>6, <1>7

(* A table with the same routes, and objects among which each route marked *)
(* finds its own, has the same map of routes.                              *)
LEMMA SameRoutes ==
  ASSUME NEW T, NEW U, Good(T), Good(U), U.rtable = T.rtable,
         \A i \in DOMAIN T.rtable : T.rtable[i].mp_flag =>
           \E j \in DOMAIN T.mptable : \E k \in DOMAIN U.mptable :
             T.rtable[i].mptable = T.mptable[j].ptr /\ U.mptable[k] = T.mptable[j]
  PROVE  AbsRoutes(U) = AbsRoutes(T)
<1>1. ASSUME NEW i \in DOMAIN T.rtable
      PROVE  AbsRoutes(U)[i] = AbsRoutes(T)[i]
  <2>1. PeerOf(U, T.rtable[i]) = PeerOf(T, T.rtable[i])
    <3>1. CASE T.rtable[i].mp_flag
      <4>1. PICK j \in DOMAIN T.mptable : \E k \in DOMAIN U.mptable :
               T.rtable[i].mptable = T.mptable[j].ptr /\ U.mptable[k] = T.mptable[j]
        BY <3>1
      <4>2. PICK k \in DOMAIN U.mptable :
               T.rtable[i].mptable = T.mptable[j].ptr /\ U.mptable[k] = T.mptable[j]
        BY <4>1
      <4>3. PeerOf(T, T.rtable[i]) = T.mptable[j].select_addr
        BY <3>1, <4>2, PeerAt
      <4>4. PeerOf(U, T.rtable[i]) = U.mptable[k].select_addr
        BY <3>1, <4>2, PeerAt
      <4>. QED  BY <4>2, <4>3, <4>4
    <3>2. CASE ~T.rtable[i].mp_flag
      BY <3>2 DEF PeerOf
    <3>. QED  BY <3>1, <3>2
  <2>2. AbsRoute(U, U.rtable[i]) = AbsRoute(T, T.rtable[i])
    BY <2>1 DEF AbsRoute
  <2>. QED  BY <2>2, AbsRoutesType
<1>2. /\ AbsRoutes(T) \in Seq(ARoute) /\ AbsRoutes(U) \in Seq(ARoute)
      /\ Len(AbsRoutes(T)) = Len(AbsRoutes(U))
      /\ DOMAIN T.rtable = 1..Len(AbsRoutes(T))
  BY AbsRoutesType, LenProperties
<1>. QED  BY <1>1, <1>2, SeqEqual

LEMMA DeleteSelectMap ==
  ASSUME NEW T, Good(T), NEW select, NEW D, D = delete_select(T, select)
  PROVE  \/ SameMap(T, D) /\ D.status = T.status
         \/ /\ select \in DOMAIN AbsPeers(T)
            /\ AbsRoutes(D) = UnboundIn(AbsRoutes(T), select)
            /\ \/ AbsPeers(D) = Without(AbsPeers(T), select) /\ D.status = T.status
               \/ /\ AbsPeers(D) = AbsPeers(T) /\ D.status = "crashed"
                  /\ DOMAIN AbsPeers(T) # {select}
<1> DEFINE U == unflag_select(T, select)
           k == SelectIdx(T, select)
           n == Len(T.mptable)
           P == AbsPeers(T)
<1>0. /\ T \in Table /\ n \in Nat /\ DOMAIN T.mptable = 1..n /\ Good(D)
      /\ k > 1 => D.status = "crashed"
      /\ k <= 1 => D.status = T.status
  BY TableFields, DeleteSelectGood DEF Good
<1>1. /\ k = 0 => \A i \in DOMAIN T.mptable : T.mptable[i].select_addr # select
      /\ k # 0 => k \in 1..n /\ T.mptable[k].select_addr = select
  BY <1>0, SelectIdxType
<1>2. /\ AbsRoutes(U) = UnboundIn(AbsRoutes(T), select)
      /\ AbsPeers(U) = P /\ U.status = T.status /\ Good(U) /\ U.mptable = T.mptable
  BY UnflagMap
<1>3. /\ k = 0 => D = U
      /\ k = 1 => /\ D.rtable = U.rtable /\ DOMAIN D.mptable = 1..(n - 1)
                  /\ \A i \in 1..(n - 1) : D.mptable[i] = T.mptable[i + 1]
      /\ k # 0 /\ k # 1 => D.rtable = U.rtable /\ D.mptable = T.mptable
  BY DeleteSelectIs
<1>4. /\ DOMAIN P = Peers(T) /\ MapOn(P, Peers(T))
      /\ \A j \in DOMAIN T.mptable :
           /\ T.mptable[j].select_addr \in Peers(T)
           /\ P[T.mptable[j].select_addr] = AbsPaths(T.mptable[j].paths)
  BY AbsPeersType
<1>5. \A i \in DOMAIN U.rtable : U.rtable[i].mp_flag =>
        \E j \in DOMAIN T.mptable : /\ U.rtable[i].mptable = T.mptable[j].ptr
                                    /\ T.mptable[j].select_addr # select
  BY UnflagGood
<1> HIDE DEF U, k, n, P
<1>6. CASE k = 0
  <2>1. select \notin Peers(T)
    BY <1>1, <1>6 DEF Peers
  <2>2. SameMap(T, D)
    BY <1>2, <1>3, <1>6, <2>1, UnboundStranger DEF SameMap, P
  <2>. QED  BY <1>2, <1>3, <1>6, <2>2
<1>7. CASE k = 1
  <2>1. AbsRoutes(D) = AbsRoutes(U)
    <3>1. ASSUME NEW i \in DOMAIN U.rtable, U.rtable[i].mp_flag
          PROVE  \E j \in DOMAIN U.mptable : \E h \in DOMAIN D.mptable :
                   U.rtable[i].mptable = U.mptable[j].ptr /\ D.mptable[h] = U.mptable[j]
      <4>1. PICK j \in DOMAIN T.mptable : /\ U.rtable[i].mptable = T.mptable[j].ptr
                                          /\ T.mptable[j].select_addr # select
        BY <1>5, <3>1
      <4>2. j \in 1..n /\ j # 1
        BY <1>0, <1>1, <1>7, <4>1
      <4>3. j - 1 \in 1..(n - 1) /\ (j - 1) + 1 = j
        BY <1>0, <4>2
      <4>4. j - 1 \in DOMAIN D.mptable /\ D.mptable[j - 1] = T.mptable[j]
        BY <1>3, <1>7, <4>3
      <4>. QED  BY <1>2, <4>1, <4>4
    <3>. QED  BY <1>0, <1>2, <1>3, <1>7, <3>1, SameRoutes
  <2> DEFINE F == Without(P, select)
  <2>2. /\ DOMAIN F = Peers(T) \ {select} /\ \A q \in Peers(T) \ {select} : F[q] = P[q]
        /\ MapOn(F, Peers(T) \ {select})
    BY <1>4 DEF Without, MapOn
  <2> HIDE DEF F
  <2>3. ASSUME NEW i \in DOMAIN D.mptable
        PROVE  /\ i + 1 \in DOMAIN T.mptable /\ D.mptable[i] = T.mptable[i + 1]
               /\ T.mptable[i + 1].select_addr # select
    <3>1. /\ i \in 1..(n - 1) /\ i + 1 \in DOMAIN T.mptable /\ i + 1 # 1 /\ 1 \in DOMAIN T.mptable
          /\ D.mptable[i] = T.mptable[i + 1]
      BY <1>0, <1>3, <1>7
    <3>2. T.mptable[1].select_addr = select
      BY <1>1, <1>7
    <3>. QED  BY <3>1, <3>2 DEF Good, ObjectsDistinct
  <2>4. Peers(D) = Peers(T) \ {select}
    <3>1. Peers(D) \subseteq Peers(T) \ {select}
      BY <1>4, <2>3 DEF Peers
    <3>2. ASSUME NEW p \in Peers(T) \ {select}  PROVE p \in Peers(D)
      <4>1. PICK j \in DOMAIN T.mptable : p = T.mptable[j].select_addr
        BY DEF Peers
      <4>2. j # 1
        BY <1>1, <1>7, <4>1
      <4>3. j - 1 \in 1..(n - 1) /\ (j - 1) + 1 = j
        BY <1>0, <4>2
      <4>4. j - 1 \in DOMAIN D.mptable /\ D.mptable[j - 1] = T.mptable[j]
        BY <1>3, <1>7, <4>3
      <4>. QED  BY <4>1, <4>4 DEF Peers
    <3>. QED  BY <3>1, <3>2
  <2>5. MapOn(F, Peers(D))
    BY <2>2, <2>4
  <2>6. \A i \in DOMAIN D.mptable :
          F[D.mptable[i].select_addr] = AbsPaths(D.mptable[i].paths)
    BY <1>4, <2>2, <2>3
  <2>7. AbsPeers(D) = F
    BY <1>0, <2>5, <2>6, PeersAre
  <2>8. select \in DOMAIN P
    BY <1>0, <1>1, <1>4, <1>7
  <2>9. D.status = T.status
    BY <1>0, <1>7
  <2>. QED  BY <1>2, <2>1, <2>7, <2>8, <2>9 DEF F, P
<1>8. CASE k # 0 /\ k # 1
  <2>1. k \in 1..n /\ k > 1 /\ 1 \in DOMAIN T.mptable /\ k \in DOMAIN T.mptable
    BY <1>0, <1>1, <1>8
  <2>2. T.mptable[1].select_addr # select
    BY <1>1, <1>8, <2>1 DEF Good, ObjectsDistinct
  <2>3. select \in DOMAIN P /\ DOMAIN P # {select}
    BY <1>1, <1>4, <1>8, <2>1, <2>2
  <2>4. D.mptable = U.mptable /\ D.rtable = U.rtable /\ D.status = "crashed"
    BY <1>0, <1>2, <1>3, <1>8, <2>1
  <2>5. AbsPeers(D) = AbsPeers(U) /\ \A w : AbsRoute(D, w) = AbsRoute(U, w)
    BY <2>4, SameMptable
  <2>6. AbsRoutes(D) = AbsRoutes(U)
    BY <2>4, <2>5 DEF AbsRoutes
  <2>. QED  BY <1>2, <2>3, <2>4, <2>5, <2>6 DEF P
<1>. QED  BY <1>6, <1>7, <1>8

-----------------------------------------------------------------------------
(* A lookup counts a use of a path, which the map does not show, or hangs. *)

(* Two entries of a list differ. *)
Differ(a) == \E i, j \in DOMAIN a : a[i] # a[j]

LEMMA NotReturning ==
  ASSUME NEW q \in Seq(Path), ~ select_path_returns(q)
  PROVE  Differ(AbsPaths(q))
<1>1. /\ DOMAIN AbsPaths(q) = DOMAIN q /\ DOMAIN q = 1..Len(q) /\ Len(q) \in Nat
      /\ \A i \in DOMAIN q : AbsPaths(q)[i] = <<q[i].s_intf, q[i].d_intf>>
  BY AbsPathsType
<1>2. PICK i \in DOMAIN q : ~ Joins(q[1], q[i].s_intf, q[i].d_intf)
  BY DEF select_path_returns, is_alive_returns
<1>3. 1 \in DOMAIN q
  BY <1>1
<1>4. <<q[1].s_intf, q[1].d_intf>> # <<q[i].s_intf, q[i].d_intf>>
  BY <1>2 DEF Joins
<1>5. AbsPaths(q)[1] # AbsPaths(q)[i]
  BY <1>1, <1>3, <1>4
<1>. QED  BY <1>1, <1>3, <1>5 DEF Differ

LEMMA LookupMap ==
  ASSUME NEW T, Good(T), NEW daddr, NEW t \in Nat, NEW L, L = lookup_mp(T, daddr, t).table
  PROVE  /\ SameMap(T, L)
         /\ \/ L.status = T.status
            \/ /\ L.status = "hung"
               /\ \E p \in DOMAIN AbsPeers(T) :
                    /\ Differ(AbsPeers(T)[p])
                    /\ \E i \in DOMAIN AbsRoutes(T) : AbsRoutes(T)[i].peer = p
<1> DEFINE r == MpRouteIdx(T, daddr)
           I == {i \in DOMAIN T.rtable : /\ Matches(T, i, daddr)
                                         /\ T.rtable[i].mp_flag
                                         /\ T.rtable[i].mptable # NULL}
           m == CHOOSE i \in DOMAIN T.mptable :
                  T.mptable[i].ptr = T.rtable[r].mptable
           paths == T.mptable[m].paths
           k == select_path(paths, t)
<1>0. /\ T \in Table /\ DOMAIN T.rtable = 1..Len(T.rtable)
      /\ Len(T.rtable) \in Nat /\ Good(L)
  BY TableFields, LookupMpGood DEF Good
<1>1. ASSUME r = 0 \/ (select_path_returns(paths) /\ k = 0)
      PROVE  SameMap(T, L) /\ L.status = T.status
  BY <1>1 DEF lookup_mp, SameMap
<1>2. ASSUME r # 0
      PROVE  /\ r \in DOMAIN T.rtable /\ T.rtable[r].mp_flag
             /\ m \in DOMAIN T.mptable /\ T.mptable[m].ptr = T.rtable[r].mptable
  <2>1. r \in DOMAIN T.rtable /\ T.rtable[r].mp_flag
    <3>1. I \subseteq Nat \ {0}
      BY <1>0
    <3>2. r = First(I)
      BY DEF MpRouteIdx
    <3>3. First(I) \in I
      <4> HIDE DEF I, r
      <4>. QED  BY <1>2, <3>1, <3>2, FirstOf
    <3>. QED  BY <3>2, <3>3
  <2>2. \E i \in DOMAIN T.mptable : T.mptable[i].ptr = T.rtable[r].mptable
    <3> HIDE DEF r
    <3>. QED  BY <2>1 DEF Good, PointersLive, Live
  <2>3. m \in DOMAIN T.mptable /\ T.mptable[m].ptr = T.rtable[r].mptable
    <3> HIDE DEF r
    <3>. QED  BY <2>2
  <2>. QED  BY <2>1, <2>3
<1>3. CASE r # 0 /\ ~ select_path_returns(paths)
  <2>1. L = [T EXCEPT !.status = "hung"]
    BY <1>3 DEF lookup_mp
  <2>2. L.rtable = T.rtable /\ L.mptable = T.mptable /\ L.status = "hung"
    BY <1>0, <2>1, WithStatus
  <2>3. SameMap(T, L)
    <3>1. AbsPeers(L) = AbsPeers(T) /\ \A w : AbsRoute(L, w) = AbsRoute(T, w)
      BY <2>2, SameMptable
    <3>. QED  BY <2>2, <3>1 DEF SameMap, AbsRoutes
  <2> HIDE DEF m, r
  <2>4. paths \in Seq(Path)
    BY <1>2, <1>3, PathsOf
  <2> DEFINE p == T.mptable[m].select_addr
  <2>5. p \in DOMAIN AbsPeers(T) /\ AbsPeers(T)[p] = AbsPaths(paths)
    BY <1>2, <1>3, AbsPeersType
  <2>6. Differ(AbsPaths(paths))
    BY <1>3, <2>4, NotReturning
  <2>7. PeerOf(T, T.rtable[r]) = p
    BY <1>2, <1>3, PeerAt
  <2>8. r \in DOMAIN AbsRoutes(T) /\ AbsRoutes(T)[r].peer = p
    BY <1>2, <1>3, <2>7, AbsRoutesType, AbsRouteFields
  <2> HIDE DEF p, paths
  <2>. QED  BY <2>2, <2>3, <2>5, <2>6, <2>8
<1>4. CASE r # 0 /\ select_path_returns(paths) /\ k # 0
  <2> DEFINE e == [paths[k] EXCEPT !.cnt = paths[k].cnt + 1]
             q == WithPath(paths, k, e)
  <2>1. L = [T EXCEPT !.mptable[m].paths = q]
    BY <1>4 DEF lookup_mp, WithPath
  <2> HIDE DEF m, r
  <2>2. paths \in Seq(Path)
    BY <1>2, <1>4, PathsOf
  <2>3. k \in DOMAIN paths /\ paths[k] \in Path
    BY <1>4, <2>2, SelectPathType, ElementOfSeq
  <2>4. e.s_intf = paths[k].s_intf /\ e.d_intf = paths[k].d_intf
    <3> HIDE DEF k, paths
    <3>. QED  BY <2>3, EndsKept
  <2> HIDE DEF e, k
  <2>5. AbsPaths(q) = AbsPaths(paths)
    <3> HIDE DEF paths
    <3>. QED  BY <2>2, <2>3, <2>4, PathExceptEnds
  <2> HIDE DEF q
  <2>6. /\ SameObjects(T, L) /\ L.status = T.status
        /\ \A i \in DOMAIN T.mptable :
             L.mptable[i].paths = IF i = m THEN q ELSE T.mptable[i].paths
    BY <1>2, <1>4, <2>1, OnePathsIs
  <2>7. \A i \in DOMAIN T.mptable : AbsPaths(L.mptable[i].paths) = AbsPaths(T.mptable[i].paths)
    BY <2>5, <2>6
  <2>8. SameMap(T, L)
    BY <1>0, <2>6, <2>7, SameEnds
  <2>. QED  BY <2>6, <2>8
<1>. QED  BY <1>1, <1>3, <1>4

-----------------------------------------------------------------------------
(* The paths that lookups and rounds of pings hand out. *)

HasPath(T, b, s, d) ==
  \E i \in DOMAIN T.mptable : \E j \in DOMAIN T.mptable[i].paths :
    /\ b = T.mptable[i].select_addr
    /\ s = T.mptable[i].paths[j].s_intf /\ d = T.mptable[i].paths[j].d_intf

(* A path of the lists is a path of the map. *)
LEMMA PathInMap ==
  ASSUME NEW T, Good(T), NEW b, NEW s, NEW d
  PROVE  HasPath(T, b, s, d) <=>
           b \in DOMAIN AbsPeers(T) /\ Ends(s, d) \in Range(AbsPeers(T)[b])
<1>1. /\ DOMAIN AbsPeers(T) = Peers(T)
      /\ \A k \in DOMAIN T.mptable :
           /\ T.mptable[k].select_addr \in Peers(T)
           /\ AbsPeers(T)[T.mptable[k].select_addr] = AbsPaths(T.mptable[k].paths)
  BY AbsPeersType
<1>2. ASSUME NEW i \in DOMAIN T.mptable
      PROVE  LET a == T.mptable[i].paths
             IN  /\ DOMAIN AbsPaths(a) = DOMAIN a
                 /\ \A j \in DOMAIN a : AbsPaths(a)[j] = Ends(a[j].s_intf, a[j].d_intf)
  <2>1. T.mptable[i].paths \in Seq(Path)
    BY PathsOf
  <2>. QED  BY <2>1, AbsPathsType DEF Ends
<1>3. ASSUME HasPath(T, b, s, d)
      PROVE  b \in DOMAIN AbsPeers(T) /\ Ends(s, d) \in Range(AbsPeers(T)[b])
  <2>1. PICK i \in DOMAIN T.mptable : \E j \in DOMAIN T.mptable[i].paths :
          /\ b = T.mptable[i].select_addr
          /\ s = T.mptable[i].paths[j].s_intf /\ d = T.mptable[i].paths[j].d_intf
    BY <1>3 DEF HasPath
  <2>2. PICK j \in DOMAIN T.mptable[i].paths :
          /\ b = T.mptable[i].select_addr
          /\ s = T.mptable[i].paths[j].s_intf /\ d = T.mptable[i].paths[j].d_intf
    BY <2>1
  <2> DEFINE A == AbsPaths(T.mptable[i].paths)
  <2>3. b \in DOMAIN AbsPeers(T) /\ AbsPeers(T)[b] = A
    BY <1>1, <2>2
  <2>4. j \in DOMAIN A /\ A[j] = Ends(s, d)
    BY <1>2, <2>2
  <2> HIDE DEF A
  <2>. QED  BY <2>3, <2>4 DEF Range
<1>4. ASSUME b \in DOMAIN AbsPeers(T), Ends(s, d) \in Range(AbsPeers(T)[b])
      PROVE  HasPath(T, b, s, d)
  <2>1. PICK i \in DOMAIN T.mptable : T.mptable[i].select_addr = b
    BY <1>1, <1>4 DEF Peers
  <2> DEFINE a == T.mptable[i].paths
             A == AbsPaths(a)
  <2>2. AbsPeers(T)[b] = A /\ DOMAIN A = DOMAIN a
    BY <1>1, <1>2, <2>1
  <2>3. PICK j \in DOMAIN A : A[j] = Ends(s, d)
    <3> HIDE DEF A
    <3>. QED  BY <1>4, <2>2 DEF Range
  <2>4. j \in DOMAIN a /\ Ends(a[j].s_intf, a[j].d_intf) = Ends(s, d)
    BY <1>2, <2>2, <2>3
  <2>5. a[j].s_intf = s /\ a[j].d_intf = d
    BY <2>4 DEF Ends
  <2>. QED  BY <2>1, <2>4, <2>5 DEF HasPath
<1>. QED  BY <1>3, <1>4

LEMMA LookupPath ==
  ASSUME NEW T, Good(T), NEW daddr, NEW t \in Nat, NEW L, L = lookup_mp(T, daddr, t),
         L.select # IP_BROADCAST
  PROVE  HasPath(T, L.select, L.s_intf, L.d_intf)
<1> DEFINE r == MpRouteIdx(T, daddr)
           I == {i \in DOMAIN T.rtable : /\ Matches(T, i, daddr)
                                         /\ T.rtable[i].mp_flag
                                         /\ T.rtable[i].mptable # NULL}
           m == CHOOSE i \in DOMAIN T.mptable :
                  T.mptable[i].ptr = T.rtable[r].mptable
           paths == T.mptable[m].paths
           k == select_path(paths, t)
<1>0. T \in Table /\ DOMAIN T.rtable = 1..Len(T.rtable) /\ Len(T.rtable) \in Nat
  BY TableFields DEF Good
<1>1. /\ r # 0 /\ k # 0 /\ L.select = T.mptable[m].select_addr
      /\ L.s_intf = paths[k].s_intf /\ L.d_intf = paths[k].d_intf
  BY DEF lookup_mp
<1>2. m \in DOMAIN T.mptable
  <2>1. r \in DOMAIN T.rtable /\ T.rtable[r].mp_flag
    <3>1. I \subseteq Nat \ {0}
      BY <1>0
    <3>2. r = First(I)
      BY DEF MpRouteIdx
    <3>3. First(I) \in I
      <4> HIDE DEF I, r
      <4>. QED  BY <1>1, <3>1, <3>2, FirstOf
    <3>. QED  BY <3>2, <3>3
  <2>2. \E i \in DOMAIN T.mptable : T.mptable[i].ptr = T.rtable[r].mptable
    <3> HIDE DEF r
    <3>. QED  BY <2>1 DEF Good, PointersLive, Live
  <2> HIDE DEF r
  <2>. QED  BY <2>2
<1> HIDE DEF m, r
<1>3. k \in DOMAIN paths
  <2>1. paths \in Seq(Path)
    BY <1>2, PathsOf
  <2>. QED  BY <1>1, <2>1, SelectPathType
<1> HIDE DEF k
<1>. QED  BY <1>1, <1>2, <1>3 DEF HasPath

LEMMA PingsPath ==
  ASSUME NEW T, Good(T), NEW g \in pings(T)
  PROVE  HasPath(T, g.select, g.s_intf, g.d_intf) /\ g.ping_seq \in Nat /\ g.nth \in Nat
<1>1. PICK i \in DOMAIN T.mptable : \E j \in DOMAIN T.mptable[i].paths :
        g = [select |-> T.mptable[i].select_addr,
             s_intf |-> T.mptable[i].paths[j].s_intf,
             d_intf |-> T.mptable[i].paths[j].d_intf,
             ping_seq |-> T.mptable[i].paths[j].ping_seq, nth |-> j]
  BY DEF pings
<1>2. PICK j \in DOMAIN T.mptable[i].paths :
        g = [select |-> T.mptable[i].select_addr,
             s_intf |-> T.mptable[i].paths[j].s_intf,
             d_intf |-> T.mptable[i].paths[j].d_intf,
             ping_seq |-> T.mptable[i].paths[j].ping_seq, nth |-> j]
  BY <1>1
<1> DEFINE paths == T.mptable[i].paths
<1>3. paths \in Seq(Path)
  BY PathsOf
<1>4. j \in 1..Len(paths) /\ Len(paths) \in Nat /\ paths[j] \in Path
  BY <1>2, <1>3, LenProperties, ElementOfSeq
<1>5. paths[j].ping_seq \in Nat /\ j \in Nat
  BY <1>4, PathFields
<1>. QED  BY <1>2, <1>5 DEF HasPath
================================================================================
