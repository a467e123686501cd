---------------------------- MODULE PingRoundProofs ----------------------------
(***************************************************************************)
(* Proof that the loop of send_ping_handler, with the static cursor of     *)
(* get_path_item and an update of the list in every turn, is the one step  *)
(* that the other modules take for a round, on tables of any size.         *)
(***************************************************************************)
EXTENDS PingRound, MpRtableProofs

-----------------------------------------------------------------------------
(* A path list of which the first paths have had their turn. *)

(* Counting modulo SeqSpace one by one. *)
LEMMA ModUnique ==
  ASSUME NEW a \in Int, NEW b \in Int, NEW k \in 0..(SeqSpace - 1),
         NEW j \in 0..(SeqSpace - 1), SeqSpace * a + k = SeqSpace * b + j
  PROVE  k = j
<1> DEFINE S == SeqSpace
<1>1. S \in Int /\ S > 0
  BY SeqSpaceAssumption
<1>2. S * (a - b) = j - k
  BY <1>1
<1>3. j - k < S /\ j - k > 0 - S
  BY <1>1
<1>4. CASE a = b
  BY <1>1, <1>4
<1>5. CASE a > b
  <2>1. a - b >= 1
    BY <1>5
  <2>2. S * (a - b) >= S
    BY <1>1, <2>1
  <2> DEFINE X == S * (a - b)
  <2>3. X = j - k /\ X >= S
    BY <1>2, <2>2
  <2> HIDE DEF X, S
  <2>. QED  BY <1>1, <1>3, <2>3
<1>6. CASE a < b
  <2>1. b - a >= 1 /\ S * (b - a) = k - j
    BY <1>6, <1>2, <1>1
  <2>2. S * (b - a) >= S
    BY <1>1, <2>1
  <2>. QED  BY <2>1, <1>3, <2>2, <1>1
<1>. QED  BY <1>4, <1>5, <1>6

LEMMA ModStep ==
  ASSUME NEW a \in Nat
  PROVE  ((a % SeqSpace) + 1) % SeqSpace = (a + 1) % SeqSpace
<1> DEFINE S == SeqSpace
<1>0. S \in Nat \ {0}
  BY SeqSpaceAssumption
<1>1. ASSUME NEW b \in Nat
      PROVE  /\ b \div S \in Int /\ b % S \in 0..(S - 1)
             /\ b = S * (b \div S) + (b % S)
  <2> HIDE DEF S
  <2>1. b \div S \in Int
    BY <1>0
  <2>2. b % S \in 0..(S - 1)
    BY <1>0
  <2>3. b = S * (b \div S) + (b % S)
    BY <1>0
  <2>. QED  BY <2>1, <2>2, <2>3
<1> DEFINE k == a % S
           m == (k + 1) % S
           n == (a + 1) % S
           x == a \div S
           y == (k + 1) \div S
           z == (a + 1) \div S
<1>2. /\ a = S * x + k /\ k + 1 = S * y + m /\ a + 1 = S * z + n
      /\ x \in Int /\ y \in Int /\ z \in Int
      /\ m \in 0..(S - 1) /\ n \in 0..(S - 1) /\ k \in 0..(S - 1)
  <2>1. k + 1 \in Nat /\ a + 1 \in Nat
    BY <1>0, <1>1
  <2>. QED  BY <1>1, <2>1
<1> HIDE DEF k, m, n, x, y, z
<1>3. S * (x + y) = S * x + S * y
  BY <1>0, <1>2
<1>4. S * (x + y) + m = S * z + n
  <2> DEFINE X == S * x  Y == S * y  Z == S * z
  <2>1. X \in Int /\ Y \in Int /\ Z \in Int
    BY <1>0, <1>2
  <2>2. a = X + k /\ k + 1 = Y + m /\ a + 1 = Z + n
    BY <1>2
  <2> HIDE DEF X, Y, Z
  <2>3. X + Y + m = Z + n
    BY <2>1, <2>2, <1>2, <1>0
  <2>. QED  BY <2>3, <1>3 DEF X, Y, Z
<1>5. m = n
  BY <1>2, <1>4, ModUnique
<1>. QED  BY <1>5 DEF m, n, k

(* The paths that join the same interfaces as the j-th, and those of them  *)
(* among the first n.                                                      *)
Same(q, j) == {k \in DOMAIN q : Joins(q[k], q[j].s_intf, q[j].d_intf)}
Turns(q, j, n) == {k \in Same(q, j) : k <= n}

(* e after c pings, the last at time t. *)
Stamp(e, t, c) == [e EXCEPT !.ping_send_time = t, !.ping_seq = (@ + c) % SeqSpace]

(* q after the first n paths have been pinged at time t. *)
Pinged(q, n, t) ==
  [j \in DOMAIN q |->
     IF j = Min(Same(q, j)) /\ Turns(q, j, n) # {}
     THEN Stamp(q[j], t, Cardinality(Turns(q, j, n))) ELSE q[j]]

LEMMA StampIs ==
  ASSUME NEW e \in Path, NEW t \in Nat, NEW c \in Nat
  PROVE  /\ Stamp(e, t, c) \in Path
         /\ Stamp(e, t, c).s_intf = e.s_intf /\ Stamp(e, t, c).d_intf = e.d_intf
         /\ Stamp(Stamp(e, t, c), t, 1) = Stamp(e, t, c + 1)
<1> DEFINE v == (e.ping_seq + c) % SeqSpace
           w == (e.ping_seq + c + 1) % SeqSpace
<1>1. e.ping_seq \in Nat
  BY PathFields
<1>2. v \in 0..(SeqSpace - 1) /\ (v + 1) % SeqSpace = w
  <2>1. e.ping_seq + c \in Nat
    BY <1>1
  <2>. QED  BY <2>1, ModRange, ModStep
<1>3. (e.ping_seq + (c + 1)) % SeqSpace = w
  <2>1. e.ping_seq + (c + 1) = e.ping_seq + c + 1
    BY <1>1
  <2>. QED  BY <2>1
<1>4. Stamp(e, t, c) = [e EXCEPT !.ping_send_time = t, !.ping_seq = v]
  BY DEF Stamp
<1>5. Stamp(e, t, c + 1) = [e EXCEPT !.ping_send_time = t, !.ping_seq = w]
  BY <1>3 DEF Stamp
<1> HIDE DEF v, w
<1> DEFINE f == [e EXCEPT !.ping_send_time = t, !.ping_seq = v]
<1>6. f \in Path
  <2>1. t \in Int
    OBVIOUS
  <2>. QED  BY <1>2, <2>1, PathExcept, Zenon
<1>7. /\ f.ping_seq = v /\ f.s_intf = e.s_intf /\ f.d_intf = e.d_intf
      /\ [f EXCEPT !.ping_send_time = t, !.ping_seq = w]
           = [e EXCEPT !.ping_send_time = t, !.ping_seq = w]
  BY DEF Path
<1>8. Stamp(f, t, 1) = [f EXCEPT !.ping_send_time = t, !.ping_seq = w]
  <2> HIDE DEF f
  <2>. QED  BY <1>2, <1>7 DEF Stamp
<1>. QED  BY <1>4, <1>5, <1>6, <1>7, <1>8

LEMMA SameIs ==
  ASSUME NEW q \in Seq(Path), NEW j \in DOMAIN q
  PROVE  /\ DOMAIN q = 1..Len(q) /\ Len(q) \in Nat /\ q[j] \in Path
         /\ Same(q, j) \subseteq DOMAIN q /\ Same(q, j) \subseteq Nat /\ j \in Same(q, j)
         /\ Min(Same(q, j)) \in Same(q, j) /\ \A k \in Same(q, j) : Min(Same(q, j)) <= k
         /\ IsFiniteSet(Same(q, j))
         /\ \A k \in Same(q, j) : Same(q, k) = Same(q, j)
         /\ \A n \in Nat : IsFiniteSet(Turns(q, j, n)) /\ Cardinality(Turns(q, j, n)) \in Nat
<1>1. DOMAIN q = 1..Len(q) /\ Len(q) \in Nat /\ q[j] \in Path
  BY LenProperties, ElementOfSeq
<1>2. /\ Same(q, j) \subseteq DOMAIN q /\ j \in Same(q, j)
      /\ \A k \in Same(q, j) : Same(q, k) = Same(q, j)
  BY DEF Same, Joins
<1>3. Same(q, j) \subseteq Nat /\ Same(q, j) # {}
  BY <1>1, <1>2
<1>4. Min(Same(q, j)) \in Same(q, j) /\ \A k \in Same(q, j) : Min(Same(q, j)) <= k
  BY <1>3, MinNat
<1>5. IsFiniteSet(Same(q, j))
  <2>1. IsFiniteSet(1..Len(q))
    BY <1>1, FS_Interval
  <2>. QED  BY <1>1, <1>2, <2>1, FS_Subset
<1>6. ASSUME NEW n \in Nat
      PROVE  IsFiniteSet(Turns(q, j, n)) /\ Cardinality(Turns(q, j, n)) \in Nat
  <2>1. Turns(q, j, n) \subseteq Same(q, j)
    BY DEF Turns
  <2>. QED  BY <1>5, <2>1, FS_Subset, FS_CardinalityType
<1>. QED  BY <1>1, <1>2, <1>3, <1>4, <1>5, <1>6

LEMMA PingedIs ==
  ASSUME NEW q \in Seq(Path), NEW n \in Nat, NEW t \in Nat
  PROVE  /\ Pinged(q, n, t) \in Seq(Path) /\ DOMAIN Pinged(q, n, t) = DOMAIN q
         /\ Len(Pinged(q, n, t)) = Len(q)
         /\ \A j \in DOMAIN q : /\ Pinged(q, n, t)[j].s_intf = q[j].s_intf
                                /\ Pinged(q, n, t)[j].d_intf = q[j].d_intf
<1> DEFINE f == Pinged(q, n, t)
<1>1. DOMAIN q = 1..Len(q) /\ Len(q) \in Nat
  BY LenProperties
<1>2. f = [j \in DOMAIN q |-> f[j]]
  BY DEF Pinged
<1>3. ASSUME NEW j \in DOMAIN q
      PROVE  f[j] \in Path /\ f[j].s_intf = q[j].s_intf /\ f[j].d_intf = q[j].d_intf
  <2>1. q[j] \in Path /\ Cardinality(Turns(q, j, n)) \in Nat
    BY SameIs
  <2> DEFINE e == Stamp(q[j], t, Cardinality(Turns(q, j, n)))
  <2>2. f[j] = q[j] \/ f[j] = e
    BY DEF Pinged
  <2>3. e \in Path /\ e.s_intf = q[j].s_intf /\ e.d_intf = q[j].d_intf
    BY <2>1, StampIs
  <2> HIDE DEF e, f
  <2>. QED  BY <2>1, <2>2, <2>3
<1> HIDE DEF f
<1>4. f \in [1..Len(q) -> Path]
  BY <1>1, <1>2, <1>3
<1>5. f \in Seq(Path) /\ Len(f) = Len(q) /\ DOMAIN f = DOMAIN q
  BY <1>1, <1>4, SeqDef, LenProperties
<1>. QED  BY <1>3, <1>5 DEF f

LEMMA PingedNone ==
  ASSUME NEW q \in Seq(Path), NEW t \in Nat
  PROVE  Pinged(q, 0, t) = q
<1>1. ASSUME NEW j \in DOMAIN q PROVE Turns(q, j, 0) = {}
  BY SameIs DEF Turns
<1>2. \A j \in DOMAIN q : Pinged(q, 0, t)[j] = q[j]
  BY <1>1 DEF Pinged
<1>. QED  BY <1>2, PingedIs, SeqEqual

LEMMA PingedAll ==
  ASSUME NEW q \in Seq(Path), NEW t \in Nat
  PROVE  Pinged(q, Len(q), t) = ping_paths(q, t)
<1>1. ASSUME NEW j \in DOMAIN q
      PROVE  Turns(q, j, Len(q)) = Same(q, j) /\ Same(q, j) # {}
  BY SameIs DEF Turns
<1>2. ASSUME NEW j \in DOMAIN q PROVE Pinged(q, Len(q), t)[j] = ping_paths(q, t)[j]
  <2>1. Pinged(q, Len(q), t)[j] =
          IF j = Min(Same(q, j)) THEN Stamp(q[j], t, Cardinality(Same(q, j))) ELSE q[j]
    BY <1>1 DEF Pinged
  <2>2. ping_paths(q, t)[j] =
          IF j = Min(Same(q, j)) THEN Stamp(q[j], t, Cardinality(Same(q, j))) ELSE q[j]
    BY DEF ping_paths, Same, Stamp
  <2>. QED  BY <2>1, <2>2
<1>3. /\ Pinged(q, Len(q), t) = [j \in DOMAIN q |-> Pinged(q, Len(q), t)[j]]
      /\ ping_paths(q, t) = [j \in DOMAIN q |-> ping_paths(q, t)[j]]
  BY DEF Pinged, ping_paths
<1>. QED  BY <1>2, <1>3

(* One turn: update_ping on the path whose turn it is. *)
LEMMA UpdatePingIs ==
  ASSUME NEW r \in Seq(Path), NEW g, NEW h, NEW t \in Nat,
         NEW i, i = PathIdx(r, g, h), i # 0
  PROVE  /\ i \in DOMAIN r
         /\ update_ping(r, g, h, t) = [r EXCEPT ![i] = Stamp(r[i], t, 1)]
<1>1. i \in DOMAIN r
  BY PathIdxType
<1>. QED  BY <1>1 DEF update_ping, Stamp

LEMMA PingedAt ==
  ASSUME NEW q \in Seq(Path), NEW n \in Nat, n + 1 \in DOMAIN q, NEW t \in Nat
  PROVE  Pinged(q, n, t)[n + 1] = q[n + 1]
<1> DEFINE j == n + 1
<1>1. j = Min(Same(q, j)) => Turns(q, j, n) = {}
  <2>1. Same(q, j) \subseteq Nat /\ \A k \in Same(q, j) : Min(Same(q, j)) <= k
    BY SameIs
  <2>. QED  BY <2>1 DEF Turns
<1>. QED  BY <1>1 DEF Pinged

LEMMA PingedStep ==
  ASSUME NEW q \in Seq(Path), NEW n \in Nat, n + 1 \in DOMAIN q, NEW t \in Nat
  PROVE  update_ping(Pinged(q, n, t), q[n + 1].s_intf, q[n + 1].d_intf, t)
           = Pinged(q, n + 1, t)
<1> DEFINE z == n + 1
           g == q[z].s_intf
           h == q[z].d_intf
           r == Pinged(q, n, t)
           u == Pinged(q, z, t)
           i == Min(Same(q, z))
<1>0. z \in Nat /\ z \in DOMAIN q
  OBVIOUS
<1>1. /\ r \in Seq(Path) /\ DOMAIN r = DOMAIN q /\ u \in Seq(Path) /\ DOMAIN u = DOMAIN q
      /\ \A j \in DOMAIN q : r[j].s_intf = q[j].s_intf /\ r[j].d_intf = q[j].d_intf
  BY <1>0, PingedIs
<1>2. /\ DOMAIN q = 1..Len(q) /\ Len(q) \in Nat /\ Same(q, z) \subseteq DOMAIN q
      /\ i \in Same(q, z) /\ z \in Same(q, z)
      /\ \A k \in Same(q, z) : i <= k /\ Same(q, k) = Same(q, z)
  BY <1>0, SameIs
<1>3. PathIdx(r, g, h) = i
  <2>1. {k \in DOMAIN r : Joins(r[k], g, h)} = Same(q, z)
    <3> HIDE DEF r
    <3>. QED  BY <1>1 DEF Same, Joins
  <2>2. Same(q, z) # {}
    BY <1>2
  <2>. QED  BY <2>1, <2>2 DEF PathIdx, First
<1>4. update_ping(r, g, h, t) = [r EXCEPT ![i] = Stamp(r[i], t, 1)] /\ i \in DOMAIN r
  <2>1. i # 0
    BY <1>2
  <2> HIDE DEF r, g, h, i
  <2>. QED  BY <1>1, <1>3, <2>1, UpdatePingIs
<1>5. ASSUME NEW j \in DOMAIN q, j # i PROVE u[j] = r[j]
  <2>1. CASE j = Min(Same(q, j))
    <3>1. z \notin Same(q, j)
      <4> SUFFICES ASSUME z \in Same(q, j) PROVE FALSE
        OBVIOUS
      <4>1. Same(q, z) = Same(q, j)
        BY <1>0, SameIs
      <4>. QED  BY <4>1, <2>1, <1>5
    <3>2. Same(q, j) \subseteq Nat
      BY SameIs
    <3>3. Turns(q, j, z) = Turns(q, j, n)
      BY <3>1, <3>2 DEF Turns
    <3>. QED  BY <3>3 DEF Pinged
  <2>2. CASE j # Min(Same(q, j))
    BY <2>2 DEF Pinged
  <2>. QED  BY <2>1, <2>2
<1>6. u[i] = Stamp(r[i], t, 1)
  <2>1. Same(q, i) = Same(q, z) /\ i = Min(Same(q, i)) /\ i \in DOMAIN q
    BY <1>2
  <2> DEFINE A == Turns(q, i, n)
             B == Turns(q, i, z)
  <2>2. B = A \cup {z} /\ z \notin A
    <3>1. Same(q, i) \subseteq Nat /\ z \in Same(q, i)
      BY <2>1, <1>2
    <3>. QED  BY <3>1 DEF Turns
  <2>3. IsFiniteSet(A) /\ Cardinality(A) \in Nat /\ q[i] \in Path
    BY <2>1, SameIs
  <2>4. Cardinality(B) = Cardinality(A) + 1 /\ B # {}
    <3> HIDE DEF A, B
    <3>. QED  BY <2>2, <2>3, FS_AddElement
  <2>5. u[i] = Stamp(q[i], t, Cardinality(A) + 1)
    <3>1. u[i] = IF i = Min(Same(q, i)) /\ B # {}
                 THEN Stamp(q[i], t, Cardinality(B)) ELSE q[i]
      BY <2>1 DEF Pinged
    <3> HIDE DEF A, B, u, i
    <3>. QED  BY <3>1, <2>1, <2>4
  <2>6. r[i] = IF A # {} THEN Stamp(q[i], t, Cardinality(A)) ELSE q[i]
    BY <2>1 DEF Pinged
  <2>7. CASE A # {}
    <3> HIDE DEF A, B, u, r, i
    <3>1. Stamp(Stamp(q[i], t, Cardinality(A)), t, 1) = Stamp(q[i], t, Cardinality(A) + 1)
      BY <2>3, StampIs
    <3>. QED  BY <3>1, <2>5, <2>6, <2>7
  <2>8. CASE A = {}
    <3>1. Cardinality(A) = 0
      BY <2>8, FS_EmptySet
    <3> HIDE DEF A, B, u, r, i
    <3>. QED  BY <3>1, <2>5, <2>6, <2>8
  <2>. QED  BY <2>7, <2>8
<1>7. u = [j \in DOMAIN q |-> u[j]] /\ r = [j \in DOMAIN q |-> r[j]]
  BY DEF Pinged
<1> HIDE DEF u, r, i, g, h
<1>8. [r EXCEPT ![i] = Stamp(r[i], t, 1)] = u
  BY <1>1, <1>4, <1>5, <1>6, <1>7
<1>. QED  BY <1>4, <1>8 DEF r, u, g, h

LEMMA UpdatePingType ==
  ASSUME NEW r \in Seq(Path), NEW g, NEW h, NEW t \in Nat
  PROVE  update_ping(r, g, h, t) \in Seq(Path)
<1> DEFINE i == PathIdx(r, g, h)
<1>1. CASE i = 0
  BY <1>1 DEF update_ping
<1>2. CASE i # 0
  <2>1. i \in DOMAIN r /\ update_ping(r, g, h, t) = [r EXCEPT ![i] = Stamp(r[i], t, 1)]
    BY <1>2, UpdatePingIs
  <2> HIDE DEF i
  <2>2. r[i] \in Path
    BY <2>1, LenProperties, ElementOfSeq
  <2> DEFINE e == Stamp(r[i], t, 1)
  <2>3. e \in Path
    BY <2>2, StampIs
  <2> HIDE DEF e
  <2>4. [r EXCEPT ![i] = e] \in Seq(Path)
    BY <2>1, <2>3, ExceptSeq
  <2>. QED  BY <2>1, <2>4 DEF e
<1>. QED  BY <1>1, <1>2

-----------------------------------------------------------------------------
(* The cursor. *)

(* How many paths of the i-th object have had their turn when the cursor   *)
(* is at path y of object x.                                               *)
Over(T, i, x, y) ==
  IF i < x THEN Len(T.mptable[i].paths) ELSE IF i = x THEN y ELSE 0

CursorOK(T, x, y) ==
  \/ x = 0 /\ y = 0
  \/ x \in DOMAIN T.mptable /\ y \in DOMAIN T.mptable[x].paths

(* What get_path_item gives is the next path in the order of the lists. *)
LEMMA NextPath ==
  ASSUME NEW T, Good(T), CursorOK(T, s, p), NEW c, c = get_path_item(T)
  PROVE  /\ c.found \in BOOLEAN
         /\ c.found => /\ c.s \in DOMAIN T.mptable /\ c.p \in DOMAIN T.mptable[c.s].paths
                       /\ Over(T, c.s, s, p) = c.p - 1
                       /\ \A i \in DOMAIN T.mptable :
                            i # c.s => Over(T, i, c.s, c.p) = Over(T, i, s, p)
         /\ ~c.found => /\ c.s = 0 /\ c.p = 0
                        /\ \A i \in DOMAIN T.mptable :
                             Over(T, i, s, p) = Len(T.mptable[i].paths)
<1> DEFINE n == Len(T.mptable)
           L(i) == Len(T.mptable[i].paths)
           s0 == IF p = 0 /\ s = 0 THEN 1 ELSE s
           on == {i \in s0..n : IF i = s0 /\ p # 0 THEN p < L(i)
                                ELSE T.mptable[i].paths # << >>}
           next == First(on)
<1>1. T \in Table /\ n \in Nat /\ DOMAIN T.mptable = 1..n
  BY TableFields DEF Good
<1>2. ASSUME NEW i \in 1..n
      PROVE  /\ L(i) \in Nat /\ DOMAIN T.mptable[i].paths = 1..L(i)
             /\ T.mptable[i].paths = << >> <=> L(i) = 0
  <2>1. T.mptable[i].paths \in Seq(Path)
    BY <1>1, TableFields, MpathFields
  <2>. QED  BY <2>1, LenProperties, EmptySeq
<1>3. /\ s \in Nat /\ p \in Nat /\ (s = 0 <=> p = 0) /\ s0 \in Nat /\ s0 >= 1 /\ s0 >= s
      /\ s # 0 => s \in 1..n /\ p \in 1..L(s) /\ s0 = s
      /\ s = 0 => s0 = 1
  BY <1>1, <1>2 DEF CursorOK
<1>4. c = IF T.mptable = << >> THEN [found |-> FALSE, s |-> s, p |-> p]
          ELSE [found |-> next # 0, s |-> next,
                p |-> IF next = 0 THEN 0
                      ELSE IF next = s0 /\ p # 0 THEN p + 1 ELSE 1]
  BY DEF get_path_item
<1>5. /\ on \subseteq Nat \ {0} /\ on \subseteq s0..n
      /\ \A i \in s0..n : i \notin on => IF i = s0 /\ p # 0 THEN p >= L(i) ELSE L(i) = 0
      /\ \A i \in on : IF i = s0 /\ p # 0 THEN p < L(i) ELSE L(i) > 0
  <2> HIDE DEF n, L, s0
  <2>1. on \subseteq Nat \ {0} /\ on \subseteq s0..n
    BY <1>1, <1>3
  <2>2. \A i \in s0..n : i \in 1..n
    BY <1>1, <1>3
  <2>. QED  BY <1>1, <1>2, <1>3, <2>1, <2>2
<1>6. /\ next = 0 <=> on = {}
      /\ on # {} => next \in on /\ \A j \in on : next <= j
  BY <1>5, FirstOf
<1>7. T.mptable = << >> <=> n = 0
  BY <1>1, TableFields, EmptySeq
<1>8. ASSUME NEW i \in 1..n, i \notin on
      PROVE  Over(T, i, s, p) = L(i)
  <2> HIDE DEF n, next, on, s0
  <2>1. L(i) \in Nat
    BY <1>2
  <2>2. CASE i < s0
    BY <2>2, <1>3 DEF Over
  <2>3. CASE i \in s0..n
    <3>1. CASE i = s0 /\ p # 0
      <4>1. p >= L(i) /\ i = s /\ p \in 1..L(i)
        BY <1>3, <1>5, <1>8, <2>3, <3>1
      <4> HIDE DEF L
      <4>. QED  BY <4>1, <2>1, <1>3 DEF Over
    <3>2. CASE ~(i = s0 /\ p # 0)
      <4>1. L(i) = 0 /\ i > s
        BY <1>3, <1>5, <1>8, <2>3, <3>2
      <4>. QED  BY <4>1, <1>3 DEF Over
    <3>. QED  BY <3>1, <3>2
  <2>4. i < s0 \/ i \in s0..n
    BY <1>1, <1>3
  <2>. QED  BY <2>2, <2>3, <2>4
<1> DEFINE y == IF next = s0 /\ p # 0 THEN p + 1 ELSE 1
<1>9. CASE on = {}
  <2>1. next = 0
    BY <1>6, <1>9
  <2>2. c = [found |-> FALSE, s |-> 0, p |-> 0]
    <3>1. CASE T.mptable = << >>
      <4>1. s = 0 /\ p = 0
        BY <1>3, <1>7, <3>1
      <4>2. c = [found |-> FALSE, s |-> s, p |-> p]
        BY <1>4, <3>1
      <4>. QED  BY <4>1, <4>2
    <3>2. CASE T.mptable # << >>
      <4>1. c = [found |-> next # 0, s |-> next, p |-> 0]
        BY <1>4, <2>1, <3>2
      <4>2. (next # 0) = FALSE
        BY <2>1
      <4>. QED  BY <2>1, <4>1, <4>2
    <3>. QED  BY <3>1, <3>2
  <2>. QED  BY <1>1, <1>8, <1>9, <2>2
<1>10. CASE on # {}
  <2>1. next \in on /\ next # 0 /\ next \in s0..n /\ next \in 1..n /\ T.mptable # << >>
    <3>1. next \in on /\ next # 0
      BY <1>6, <1>10
    <3>2. next \in s0..n
      <4> HIDE DEF n, next, on, s0
      <4>. QED  BY <1>5, <3>1
    <3> HIDE DEF n, next, on, s0
    <3>3. next \in 1..n
      BY <1>1, <1>3, <3>2
    <3>4. n # 0
      BY <1>1, <3>3
    <3>. QED  BY <1>7, <3>1, <3>2, <3>3, <3>4
  <2>2. c = [found |-> TRUE, s |-> next, p |-> y]
    <3>1. c = [found |-> next # 0, s |-> next, p |-> y]
      <4> HIDE DEF n, next, on, s0
      <4>. QED  BY <1>4, <2>1
    <3>2. (next # 0) = TRUE
      BY <2>1
    <3>. QED  BY <3>1, <3>2
  <2>3. L(next) \in Nat /\ DOMAIN T.mptable[next].paths = 1..L(next)
    BY <1>2, <2>1
  <2>4. y \in 1..L(next) /\ Over(T, next, s, p) = y - 1
    <3>1. CASE next = s0 /\ p # 0
      <4>1. y = p + 1 /\ p < L(next) /\ next = s
        <5> HIDE DEF n, next, on, s0, L
        <5>. QED  BY <1>3, <1>5, <2>1, <3>1
      <4>2. Over(T, next, s, p) = p
        <5> HIDE DEF n, next, on, s0, L
        <5>. QED  BY <1>3, <4>1 DEF Over
      <4> HIDE DEF n, next, on, s0, L, y
      <4>. QED  BY <1>3, <2>3, <4>1, <4>2
    <3>2. CASE ~(next = s0 /\ p # 0)
      <4>1. y = 1 /\ L(next) > 0 /\ next > s
        <5> HIDE DEF n, next, on, s0, L
        <5>. QED  BY <1>3, <1>5, <2>1, <3>2
      <4>2. Over(T, next, s, p) = 0
        <5> HIDE DEF n, next, on, s0, L
        <5>. QED  BY <1>1, <1>3, <2>1, <4>1 DEF Over
      <4> HIDE DEF n, next, on, s0, L, y
      <4>. QED  BY <2>3, <4>1, <4>2
    <3>. QED  BY <3>1, <3>2
  <2>5. ASSUME NEW i \in 1..n, i # next
        PROVE  Over(T, i, next, y) = Over(T, i, s, p)
    <3>1. CASE i < next
      <4>1. i \notin on
        <5> HIDE DEF n, next, on
        <5>. QED  BY <1>1, <1>6, <1>10, <2>1, <3>1
      <4>2. Over(T, i, s, p) = L(i)
        BY <1>8, <4>1
      <4>. QED  BY <3>1, <4>2 DEF Over
    <3>2. CASE i > next
      <4>1. i > s
        <5> HIDE DEF n, next, on, s0
        <5>. QED  BY <1>1, <1>3, <2>1, <3>2
      <4> HIDE DEF n, next, on, s0, y
      <4>. QED  BY <1>1, <1>3, <2>1, <3>2, <4>1 DEF Over
    <3>3. i < next \/ i > next
      <4> HIDE DEF n, next, on, s0
      <4>. QED  BY <1>1, <2>1, <2>5
    <3>. QED  BY <3>1, <3>2, <3>3
  <2> HIDE DEF next, y, L, n, on, s0
  <2>. QED  BY <1>1, <2>1, <2>2, <2>3, <2>4, <2>5
<1>. QED  BY <1>9, <1>10

-----------------------------------------------------------------------------
(* The pings of a round. *)

PingOf(T, i, j) ==
  [select |-> T.mptable[i].select_addr,
   s_intf |-> T.mptable[i].paths[j].s_intf, d_intf |-> T.mptable[i].paths[j].d_intf,
   ping_seq |-> T.mptable[i].paths[j].ping_seq, nth |-> j]

(* Those that have been sent when the cursor is at path y of object x. *)
Sent(T, x, y) ==
  UNION {{PingOf(T, i, j) : j \in 1..Over(T, i, x, y)} : i \in DOMAIN T.mptable}

LEMMA SentNone ==
  ASSUME NEW T, Good(T)
  PROVE  Sent(T, 0, 0) = {}
<1>1. \A i \in DOMAIN T.mptable : Over(T, i, 0, 0) = 0
  BY TableFields DEF Good, Over
<1>. QED  BY <1>1 DEF Sent

LEMMA SentAll ==
  ASSUME NEW T, Good(T), NEW x, NEW y,
         \A i \in DOMAIN T.mptable : Over(T, i, x, y) = Len(T.mptable[i].paths)
  PROVE  Sent(T, x, y) = pings(T)
<1>1. ASSUME NEW i \in DOMAIN T.mptable
      PROVE  1..Over(T, i, x, y) = DOMAIN T.mptable[i].paths
  <2>1. T.mptable[i].paths \in Seq(Path)
    BY TableFields, MpathFields DEF Good
  <2>. QED  BY <2>1, LenProperties
<1>2. pings(T) = UNION {{PingOf(T, i, j) : j \in DOMAIN T.mptable[i].paths} : i \in DOMAIN T.mptable}
  BY DEF pings, PingOf
<1>3. ASSUME NEW e PROVE e \in Sent(T, x, y) <=> e \in pings(T)
  <2>1. e \in Sent(T, x, y) <=>
          \E i \in DOMAIN T.mptable : \E j \in 1..Over(T, i, x, y) : e = PingOf(T, i, j)
    BY DEF Sent
  <2>2. e \in pings(T) <=>
          \E i \in DOMAIN T.mptable : \E j \in DOMAIN T.mptable[i].paths : e = PingOf(T, i, j)
    BY <1>2
  <2>. QED  BY <1>1, <2>1, <2>2
<1>. QED  BY <1>3

LEMMA SentStep ==
  ASSUME NEW T, Good(T), NEW x, NEW y, NEW u \in DOMAIN T.mptable, NEW v \in Nat \ {0},
         Over(T, u, x, y) = v - 1,
         \A i \in DOMAIN T.mptable : i # u => Over(T, i, u, v) = Over(T, i, x, y)
  PROVE  /\ Sent(T, u, v) = Sent(T, x, y) \cup {PingOf(T, u, v)}
         /\ PingOf(T, u, v) \notin Sent(T, x, y)
<1>1. u \in Nat /\ Over(T, u, u, v) = v
  <2>1. DOMAIN T.mptable = 1..Len(T.mptable) /\ Len(T.mptable) \in Nat
    BY TableFields DEF Good
  <2>. QED  BY <2>1 DEF Over
<1>2. \A a, b : \A e : e \in Sent(T, a, b) <=>
        \E i \in DOMAIN T.mptable : \E j \in 1..Over(T, i, a, b) : e = PingOf(T, i, j)
  BY DEF Sent
<1>3. \A j : j \in 1..v <=> j \in 1..(v - 1) \/ j = v
  OBVIOUS
<1>4. ASSUME NEW e PROVE e \in Sent(T, u, v) <=> e \in Sent(T, x, y) \/ e = PingOf(T, u, v)
  <2>1. ASSUME NEW i \in DOMAIN T.mptable, NEW j
        PROVE  j \in 1..Over(T, i, u, v) <=>
                 j \in 1..Over(T, i, x, y) \/ (i = u /\ j = v)
    BY <1>1, <1>3
  <2>. QED  BY <1>2, <2>1
<1>5. PingOf(T, u, v) \notin Sent(T, x, y)
  <2> SUFFICES ASSUME NEW i \in DOMAIN T.mptable, NEW j \in 1..Over(T, i, x, y),
                      PingOf(T, u, v) = PingOf(T, i, j)
               PROVE  FALSE
    BY <1>2
  <2>1. T.mptable[u].select_addr = T.mptable[i].select_addr /\ v = j
    BY DEF PingOf
  <2>2. u = i
    BY <2>1 DEF Good, ObjectsDistinct
  <2>. QED  BY <2>1, <2>2
<1>. QED  BY <1>4, <1>5

-----------------------------------------------------------------------------
(* The invariant: what is true after every turn of a round. *)

PingRec == [select : Peer, s_intf : Intf, d_intf : Intf, ping_seq : Nat, nth : Nat]

(* T is B after the pings up to path y of object x, sent at time t. *)
Partly(B, T, x, y, t) ==
  /\ SameObjects(B, T) /\ T.status = B.status
  /\ \A i \in DOMAIN B.mptable :
       T.mptable[i].paths = Pinged(B.mptable[i].paths, Over(B, i, x, y), t)

SentOK(B, x, y, q) ==
  /\ q \in Seq(PingRec)
  /\ {q[i] : i \in DOMAIN q} = Sent(B, x, y)
  /\ IsFiniteSet(Sent(B, x, y)) /\ Len(q) = Cardinality(Sent(B, x, y))

(* A round that has made T of B, with the cursor at path y of object x. *)
RoundOK(B, T, x, y, q, t) ==
  /\ CursorOK(B, x, y) /\ (x = 0 <=> q = << >>)
  /\ Partly(B, T, x, y, t) /\ SentOK(B, x, y, q)

TablesOK(F) == F = [a \in Agent |-> F[a]] /\ \A a \in Agent : Good(F[a])

IInv ==
  /\ TablesOK(table) /\ TablesOK(before)
  /\ rounds \in Nat
  /\ busy \in Agent \cup {Nobody}
  /\ busy = Nobody => s = 0 /\ p = 0
  /\ busy # Nobody => /\ RoundOK(before[busy], table[busy], s, p, sent, rounds)
                      /\ \A b \in Agent : b # busy => table[b] = before[b]

LEMMA InitInv == Init => IInv
<1> SUFFICES ASSUME Init PROVE IInv
  OBVIOUS
<1>1. /\ table \in [Agent -> Tables] /\ before = table /\ rounds = 0
      /\ busy = Nobody /\ s = 0 /\ p = 0
  BY DEF Init
<1>2. \A a \in Agent : Good(table[a])
  BY <1>1, RoundAssumption
<1>. QED  BY <1>1, <1>2 DEF IInv, TablesOK

(* Before the first ping. *)
LEMMA RoundBegins ==
  ASSUME NEW B, Good(B), NEW t \in Nat
  PROVE  RoundOK(B, B, 0, 0, << >>, t)
<1>1. ASSUME NEW i \in DOMAIN B.mptable
      PROVE  B.mptable[i].paths = Pinged(B.mptable[i].paths, Over(B, i, 0, 0), t)
  <2>1. B.mptable[i].paths \in Seq(Path) /\ i \in Nat \ {0}
    BY TableFields, MpathFields DEF Good
  <2>2. Over(B, i, 0, 0) = 0
    BY <2>1 DEF Over
  <2>. QED  BY <2>1, <2>2, PingedNone
<1>2. Partly(B, B, 0, 0, t)
  BY <1>1 DEF Partly, SameObjects
<1>3. SentOK(B, 0, 0, << >>)
  <2>1. Sent(B, 0, 0) = {} /\ IsFiniteSet({}) /\ Cardinality({}) = 0
    BY SentNone, FS_EmptySet
  <2>. QED  BY <2>1 DEF SentOK
<1>. QED  BY <1>2, <1>3 DEF RoundOK, CursorOK

(* The lengths of the lists do not change in a round. *)
SameShape(B, T, x, y) ==
  /\ DOMAIN T.mptable = DOMAIN B.mptable
  /\ \A i \in DOMAIN B.mptable :
       /\ Over(B, i, x, y) \in Nat
       /\ B.mptable[i].paths \in Seq(Path)
       /\ Len(T.mptable[i].paths) = Len(B.mptable[i].paths)
       /\ DOMAIN T.mptable[i].paths = DOMAIN B.mptable[i].paths
       /\ \A u, v : Over(T, i, u, v) = Over(B, i, u, v)
  /\ CursorOK(T, x, y)

LEMMA SameLengths ==
  ASSUME NEW B, NEW T, Good(B), NEW x, NEW y, NEW t \in Nat,
         CursorOK(B, x, y), Partly(B, T, x, y, t)
  PROVE  SameShape(B, T, x, y)
<1>1. DOMAIN T.mptable = DOMAIN B.mptable
  BY DEF Partly, SameObjects
<1>2. \A i \in DOMAIN B.mptable : B.mptable[i].paths \in Seq(Path) /\ i \in Nat \ {0}
  BY TableFields, MpathFields DEF Good
<1>3. ASSUME NEW i \in DOMAIN B.mptable PROVE Over(B, i, x, y) \in Nat
  <2>1. Len(B.mptable[i].paths) \in Nat
    BY <1>2, LenProperties
  <2>2. x \in DOMAIN B.mptable /\ y \in DOMAIN B.mptable[x].paths => y \in Nat
    BY <1>2, LenProperties
  <2>. QED  BY <2>1, <2>2 DEF Over, CursorOK
<1>4. ASSUME NEW i \in DOMAIN B.mptable
      PROVE  /\ Len(T.mptable[i].paths) = Len(B.mptable[i].paths)
             /\ DOMAIN T.mptable[i].paths = DOMAIN B.mptable[i].paths
             /\ \A u, v : Over(T, i, u, v) = Over(B, i, u, v)
  <2>1. T.mptable[i].paths = Pinged(B.mptable[i].paths, Over(B, i, x, y), t)
    BY DEF Partly
  <2>2. /\ Len(T.mptable[i].paths) = Len(B.mptable[i].paths)
        /\ DOMAIN T.mptable[i].paths = DOMAIN B.mptable[i].paths
    BY <1>2, <1>3, <2>1, PingedIs
  <2>. QED  BY <2>2 DEF Over
<1>5. CursorOK(T, x, y)
  BY <1>1, <1>4 DEF CursorOK
<1>. QED  BY <1>1, <1>2, <1>3, <1>4, <1>5 DEF SameShape

LEMMA SameObjectsTrans ==
  ASSUME NEW B, NEW T, NEW U, SameObjects(B, T), SameObjects(T, U)
  PROVE  SameObjects(B, U)
BY DEF SameObjects

LEMMA BeginInv ==
  ASSUME IInv, NEW a \in Agent, Begin(a)
  PROVE  IInv'
<1>1. /\ busy = Nobody /\ busy' = a /\ rounds' = rounds + 1 /\ rounds \in Nat
      /\ sent' = << >> /\ before' = table /\ TablesOK(table)
      /\ table' = table /\ s' = 0 /\ p' = 0 /\ a # Nobody
  BY RoundAssumption DEF IInv, Begin
<1>2. rounds' \in Nat /\ Good(table[a])
  BY <1>1 DEF TablesOK
<1>3. RoundOK(table[a], table[a], 0, 0, << >>, rounds')
  BY <1>2, RoundBegins
<1>. QED  BY <1>1, <1>2, <1>3 DEF IInv

(* Path v of object u is the one after path y of object x. *)
Follows(B, x, y, u, v) ==
  /\ u \in DOMAIN B.mptable /\ v \in DOMAIN B.mptable[u].paths
  /\ Over(B, u, x, y) = v - 1
  /\ \A i \in DOMAIN B.mptable : i # u => Over(B, i, u, v) = Over(B, i, x, y)

LEMMA FollowsTypes ==
  ASSUME NEW B, Good(B), NEW x, NEW y, NEW u, NEW v, Follows(B, x, y, u, v)
  PROVE  /\ u \in Nat \ {0} /\ v \in Nat \ {0} /\ v - 1 \in Nat /\ (v - 1) + 1 = v
         /\ B.mptable[u] \in Mpath /\ B.mptable[u].paths \in Seq(Path)
         /\ B.mptable[u].paths[v] \in Path
         /\ Over(B, u, u, v) = v
<1> DEFINE Q == B.mptable[u].paths
<1>1. u \in DOMAIN B.mptable /\ v \in DOMAIN Q
  BY DEF Follows
<1>2. u \in Nat \ {0} /\ B.mptable[u] \in Mpath
  BY <1>1, TableFields DEF Good
<1>3. Q \in Seq(Path)
  BY <1>2, MpathFields
<1> HIDE DEF Q
<1>4. DOMAIN Q = 1..Len(Q) /\ Len(Q) \in Nat /\ Q[v] \in Path
  BY <1>1, <1>3, LenProperties, ElementOfSeq
<1>5. v \in Nat \ {0} /\ v - 1 \in Nat /\ (v - 1) + 1 = v
  BY <1>1, <1>4
<1>6. Over(B, u, u, v) = v
  BY <1>2 DEF Over
<1>. QED  BY <1>2, <1>3, <1>4, <1>5, <1>6 DEF Q

(* The path whose turn it is has not changed in this round. *)
LEMMA TurnOf ==
  ASSUME NEW B, NEW T, Good(B), NEW x, NEW y, NEW t \in Nat, Partly(B, T, x, y, t),
         NEW u, NEW v, Follows(B, x, y, u, v)
  PROVE  /\ T.mptable[u].select_addr = B.mptable[u].select_addr
         /\ T.mptable[u].paths = Pinged(B.mptable[u].paths, v - 1, t)
         /\ T.mptable[u].paths[v] = B.mptable[u].paths[v]
<1> DEFINE Q == B.mptable[u].paths
<1>1. /\ u \in DOMAIN B.mptable /\ v \in DOMAIN Q /\ Over(B, u, x, y) = v - 1
  BY DEF Follows
<1>2. Q \in Seq(Path) /\ v - 1 \in Nat /\ (v - 1) + 1 = v
  BY FollowsTypes
<1>3. T.mptable[u].select_addr = B.mptable[u].select_addr
  BY <1>1 DEF Partly, SameObjects
<1>4. T.mptable[u].paths = Pinged(Q, v - 1, t)
  BY <1>1 DEF Partly
<1> HIDE DEF Q
<1>5. Pinged(Q, v - 1, t)[(v - 1) + 1] = Q[(v - 1) + 1]
  BY <1>1, <1>2, PingedAt
<1>6. Pinged(Q, v - 1, t)[v] = Q[v]
  BY <1>2, <1>5, Zenon
<1>7. T.mptable[u].paths[v] = Q[v]
  BY <1>4, <1>6, Zenon
<1>. QED  BY <1>3, <1>4, <1>7 DEF Q

LEMMA TurnPing ==
  ASSUME NEW B, NEW T, Good(B), NEW x, NEW y, NEW t \in Nat, Partly(B, T, x, y, t),
         NEW u, NEW v, Follows(B, x, y, u, v)
  PROVE  PingOf(T, u, v) = PingOf(B, u, v)
<1>1. /\ T.mptable[u].select_addr = B.mptable[u].select_addr
      /\ T.mptable[u].paths[v] = B.mptable[u].paths[v]
  BY TurnOf
<1>. QED  BY <1>1, Zenon DEF PingOf

(* U is T with the lists of the objects for a replaced by those of np. *)
PathsSet(T, U, a, np) ==
  /\ SameObjects(T, U) /\ U.status = T.status
  /\ \A i \in DOMAIN T.mptable :
       U.mptable[i].paths = IF T.mptable[i].select_addr = a
                            THEN np[i] ELSE T.mptable[i].paths

LEMMA TurnMoves ==
  ASSUME NEW B, NEW T, NEW U, NEW x, NEW y, NEW t, NEW u, NEW v, NEW a, NEW np,
         ObjectsDistinct(T), Partly(B, T, x, y, t), Follows(B, x, y, u, v),
         PathsSet(T, U, a, np), T.mptable[u].select_addr = a,
         Over(B, u, u, v) = v, np[u] = Pinged(B.mptable[u].paths, v, t)
  PROVE  Partly(B, U, u, v, t)
<1>1. SameObjects(B, T) /\ T.status = B.status /\ SameObjects(T, U) /\ U.status = T.status
  BY Zenon DEF Partly, PathsSet
<1>2. SameObjects(B, U) /\ U.status = B.status
  BY <1>1, SameObjectsTrans, Zenon
<1>3. DOMAIN T.mptable = DOMAIN B.mptable /\ u \in DOMAIN B.mptable
  BY <1>1, Zenon DEF SameObjects, Follows
<1>4. U.mptable[u].paths = Pinged(B.mptable[u].paths, Over(B, u, u, v), t)
  <2>1. U.mptable[u].paths = np[u]
    BY <1>3, Zenon DEF PathsSet
  <2>. QED  BY <2>1, Zenon
<1>5. ASSUME NEW i \in DOMAIN B.mptable, i # u
      PROVE  U.mptable[i].paths = Pinged(B.mptable[i].paths, Over(B, i, u, v), t)
  <2>1. T.mptable[i].select_addr # a
    BY <1>3, <1>5, Zenon DEF ObjectsDistinct
  <2>2. U.mptable[i].paths = T.mptable[i].paths
    BY <1>3, <2>1, Zenon DEF PathsSet
  <2>3. T.mptable[i].paths = Pinged(B.mptable[i].paths, Over(B, i, x, y), t)
    BY Zenon DEF Partly
  <2>4. Over(B, i, u, v) = Over(B, i, x, y)
    BY <1>5, Zenon DEF Follows
  <2>. QED  BY <2>2, <2>3, <2>4, Zenon
<1>6. \A i \in DOMAIN B.mptable :
        U.mptable[i].paths = Pinged(B.mptable[i].paths, Over(B, i, u, v), t)
  BY <1>4, <1>5, Zenon
<1>. QED  BY <1>2, <1>6, Zenon DEF Partly

(* One turn: the path is updated, *)
LEMMA TurnUpdates ==
  ASSUME NEW B, NEW T, Good(B), Good(T), NEW x, NEW y, NEW t \in Nat,
         Partly(B, T, x, y, t), NEW u, NEW v, Follows(B, x, y, u, v),
         NEW U, U = update_ping_info(T, T.mptable[u].select_addr,
                      T.mptable[u].paths[v].s_intf, T.mptable[u].paths[v].d_intf, t)
  PROVE  Good(U) /\ Partly(B, U, u, v, t)
<1> DEFINE Q == B.mptable[u].paths
           a == B.mptable[u].select_addr
           g == Q[v].s_intf
           h == Q[v].d_intf
           np == [i \in DOMAIN T.mptable |-> update_ping(T.mptable[i].paths, g, h, t)]
<1>1. /\ T.mptable[u].select_addr = a /\ T.mptable[u].paths = Pinged(Q, v - 1, t)
      /\ T.mptable[u].paths[v] = Q[v]
  BY TurnOf
<1>2. /\ u \in DOMAIN B.mptable /\ v \in DOMAIN Q /\ Q \in Seq(Path)
      /\ v - 1 \in Nat /\ (v - 1) + 1 = v /\ Over(B, u, u, v) = v
      /\ \A i \in DOMAIN B.mptable : i # u => Over(B, i, u, v) = Over(B, i, x, y)
  BY FollowsTypes DEF Follows
<1>3. DOMAIN T.mptable = DOMAIN B.mptable /\ SameObjects(B, T) /\ T.status = B.status
  BY DEF Partly, SameObjects
<1>4. U = WithPaths(T, a, np)
  <2>1. U = update_ping_info(T, a, g, h, t)
    BY <1>1
  <2>. QED  BY <2>1 DEF update_ping_info
<1>5. \A i \in DOMAIN T.mptable :
        np[i] = update_ping(T.mptable[i].paths, g, h, t) /\ np[i] \in Seq(Path)
  <2>1. \A i \in DOMAIN T.mptable : T.mptable[i].paths \in Seq(Path)
    BY TableFields, MpathFields DEF Good
  <2> HIDE DEF g, h
  <2>. QED  BY <2>1, UpdatePingType
<1>6. np[u] = Pinged(Q, v, t)
  <2>1. update_ping(Pinged(Q, v - 1, t), Q[(v - 1) + 1].s_intf, Q[(v - 1) + 1].d_intf, t)
          = Pinged(Q, (v - 1) + 1, t)
    <3> HIDE DEF Q
    <3>. QED  BY <1>2, PingedStep
  <2>2. np[u] = update_ping(Pinged(Q, v - 1, t), g, h, t)
    <3> HIDE DEF Q, g, h
    <3>. QED  BY <1>1, <1>2, <1>3
  <2>. QED  BY <1>2, <2>1, <2>2
<1> HIDE DEF np, a, g, h, Q
<1>7. Good(U)
  BY <1>4, <1>5, WithPathsGood
<1>8. PathsSet(T, U, a, np)
  BY <1>4, WithPathsIs DEF PathsSet
<1>9. ObjectsDistinct(T)
  BY Zenon DEF Good
<1>10. Partly(B, U, u, v, t)
  <2>1. np[u] = Pinged(B.mptable[u].paths, v, t)
    BY <1>6, Zenon DEF Q
  <2>2. T.mptable[u].select_addr = a /\ Over(B, u, u, v) = v
    BY <1>1, <1>2, Zenon
  <2>. QED  BY <1>8, <1>9, <2>1, <2>2, TurnMoves, Zenon
<1>. QED  BY <1>7, <1>10

(* and its ping is sent, which has not been sent before. *)
LEMMA TurnSends ==
  ASSUME NEW B, Good(B), NEW x, NEW y, NEW q, SentOK(B, x, y, q),
         NEW u, NEW v, Follows(B, x, y, u, v), NEW g, g = PingOf(B, u, v)
  PROVE  SentOK(B, u, v, Append(q, g)) /\ Append(q, g) # << >>
<1> DEFINE S == Sent(B, x, y)
           R == PingRec
           A == Append(q, g)
<1>1. g \in R
  <2> DEFINE o == B.mptable[u]
             e == o.paths[v]
  <2>1. o \in Mpath /\ e \in Path /\ v \in Nat
    BY FollowsTypes
  <2>2. g = [select |-> o.select_addr, s_intf |-> e.s_intf, d_intf |-> e.d_intf,
             ping_seq |-> e.ping_seq, nth |-> v]
    BY DEF PingOf
  <2> HIDE DEF e, o
  <2>3. o.select_addr \in Peer /\ e.ping_seq \in Nat
    BY <2>1, PathFields, MpathFields
  <2>4. e.s_intf \in Intf /\ e.d_intf \in Intf
    BY <2>1 DEF Path
  <2>. QED  BY <2>1, <2>2, <2>3, <2>4 DEF PingRec
<1>2. Sent(B, u, v) = S \cup {g} /\ g \notin S
  <2>1. v \in Nat \ {0}
    BY FollowsTypes
  <2>. QED  BY <2>1, SentStep DEF Follows
<1> HIDE DEF S, R, A
<1>3. /\ q \in Seq(R) /\ {q[i] : i \in DOMAIN q} = S
      /\ IsFiniteSet(S) /\ Len(q) = Cardinality(S)
  BY DEF SentOK, S, R
<1>4. /\ A \in Seq(R) /\ A # << >> /\ Len(A) = Len(q) + 1
      /\ \A i \in 1..Len(q) : A[i] = q[i]
      /\ A[Len(q) + 1] = g
  BY <1>1, <1>3, AppendProperties DEF A
<1>5. DOMAIN A = 1..(Len(q) + 1) /\ DOMAIN q = 1..Len(q) /\ Len(q) \in Nat
  BY <1>3, <1>4, LenProperties
<1>6. {A[i] : i \in DOMAIN A} = {q[i] : i \in DOMAIN q} \cup {g}
  BY <1>4, <1>5
<1>7. IsFiniteSet(S \cup {g}) /\ Cardinality(S \cup {g}) = Cardinality(S) + 1
  BY <1>2, <1>3, FS_AddElement
<1>. QED  BY <1>2, <1>3, <1>4, <1>6, <1>7 DEF SentOK, A, R

(* get_path_item gives the path after the cursor. *)
LEMMA ItemFollows ==
  ASSUME NEW B, NEW T, Good(B), Good(T), NEW q, NEW t \in Nat,
         RoundOK(B, T, s, p, q, t), get_path_item(T).found
  PROVE  Follows(B, s, p, get_path_item(T).s, get_path_item(T).p)
<1> DEFINE u == get_path_item(T).s
           v == get_path_item(T).p
<1>1. SameShape(B, T, s, p)
  BY SameLengths DEF RoundOK
<1>2. CursorOK(T, s, p)
  BY <1>1 DEF SameShape
<1>3. /\ u \in DOMAIN T.mptable /\ v \in DOMAIN T.mptable[u].paths
      /\ Over(T, u, s, p) = v - 1
      /\ \A i \in DOMAIN T.mptable : i # u => Over(T, i, u, v) = Over(T, i, s, p)
  BY <1>2, NextPath
<1> HIDE DEF u, v
<1>4. Follows(B, s, p, u, v)
  BY <1>1, <1>3, SMTT(30) DEF SameShape, Follows
<1>. QED  BY <1>4 DEF u, v

LEMMA RoundGoesOn ==
  ASSUME NEW B, NEW T, Good(B), Good(T), NEW x, NEW y, NEW q, NEW t \in Nat,
         RoundOK(B, T, x, y, q, t), NEW u, NEW v, Follows(B, x, y, u, v),
         NEW m, m = T.mptable[u], NEW e, e = m.paths[v],
         NEW U, U = update_ping_info(T, m.select_addr, e.s_intf, e.d_intf, t),
         NEW g, g = [select |-> m.select_addr, s_intf |-> e.s_intf,
                     d_intf |-> e.d_intf, ping_seq |-> e.ping_seq, nth |-> v]
  PROVE  Good(U) /\ RoundOK(B, U, u, v, Append(q, g), t)
<1>1. Partly(B, T, x, y, t) /\ SentOK(B, x, y, q)
  BY DEF RoundOK
<1>2. Good(U) /\ Partly(B, U, u, v, t)
  BY <1>1, TurnUpdates
<1>3. g = PingOf(B, u, v)
  <2>1. g = PingOf(T, u, v)
    BY DEF PingOf
  <2>2. PingOf(T, u, v) = PingOf(B, u, v)
    BY <1>1, TurnPing
  <2>. QED  BY <2>1, <2>2, Zenon
<1>4. SentOK(B, u, v, Append(q, g)) /\ Append(q, g) # << >>
  BY <1>1, <1>3, TurnSends
<1>5. CursorOK(B, u, v) /\ u # 0
  <2>1. u # 0
    BY FollowsTypes
  <2>. QED  BY <2>1 DEF Follows, CursorOK
<1>. QED  BY <1>2, <1>4, <1>5 DEF RoundOK

LEMMA SendPingInv ==
  ASSUME IInv, NEW a \in Agent, SendPing(a)
  PROVE  IInv'
<1> DEFINE c == get_path_item(table[a])
           m == table[a].mptable[c.s]
           e == m.paths[c.p]
           U == update_ping_info(table[a], m.select_addr, e.s_intf, e.d_intf, rounds)
           g == [select |-> m.select_addr, s_intf |-> e.s_intf, d_intf |-> e.d_intf,
                 ping_seq |-> e.ping_seq, nth |-> c.p]
<1>1. /\ busy = a /\ c.found /\ s' = c.s /\ p' = c.p /\ sent' = Append(sent, g)
      /\ table' = [table EXCEPT ![a] = U]
      /\ busy' = busy /\ rounds' = rounds /\ before' = before
  BY SMTT(30) DEF SendPing
<1>2. /\ a # Nobody /\ TablesOK(table) /\ TablesOK(before) /\ rounds \in Nat
      /\ RoundOK(before[a], table[a], s, p, sent, rounds)
      /\ \A b \in Agent : b # a => table[b] = before[b]
  BY <1>1, RoundAssumption, SMTT(30) DEF IInv
<1>3. Good(U) /\ RoundOK(before[a], U, c.s, c.p, Append(sent, g), rounds)
  <2>1. Good(table[a]) /\ Good(before[a])
    BY <1>2 DEF TablesOK
  <2>2. Follows(before[a], s, p, c.s, c.p)
    BY <1>1, <1>2, <2>1, ItemFollows
  <2> HIDE DEF c
  <2>. QED  BY <1>2, <2>1, <2>2, RoundGoesOn, SMTT(30)
<1> HIDE DEF c, m, e, U, g
<1>4. /\ table'[a] = U /\ \A b \in Agent : b # a => table'[b] = table[b]
      /\ table' = [b \in Agent |-> table'[b]]
  BY <1>1, <1>2 DEF TablesOK
<1>5. TablesOK(table')
  BY <1>2, <1>3, <1>4 DEF TablesOK
<1>. QED  BY <1>1, <1>2, <1>3, <1>4, <1>5, SMTT(30) DEF IInv

LEMMA EndInv ==
  ASSUME IInv, NEW a \in Agent, End(a)
  PROVE  IInv'
<1> DEFINE c == get_path_item(table[a])
<1>1. /\ busy = a /\ ~c.found /\ s' = c.s /\ p' = c.p /\ busy' = Nobody
      /\ table' = table /\ rounds' = rounds /\ before' = before
  BY DEF End
<1>2. /\ a # Nobody /\ TablesOK(table) /\ TablesOK(before) /\ rounds \in Nat
      /\ RoundOK(before[a], table[a], s, p, sent, rounds)
  BY <1>1, RoundAssumption DEF IInv
<1>3. c.s = 0 /\ c.p = 0
  <2>1. Good(table[a]) /\ Good(before[a])
    BY <1>2 DEF TablesOK
  <2>2. CursorOK(table[a], s, p)
    BY <1>2, <2>1, SameLengths DEF RoundOK, SameShape
  <2>. QED  BY <1>1, <2>1, <2>2, NextPath
<1> HIDE DEF c
<1>. QED  BY <1>1, <1>2, <1>3 DEF IInv

LEMMA SpecInv == Spec => []IInv
<1>1. Init => IInv
  BY InitInv
<1>2. IInv /\ [Next]_vars => IInv'
  <2> SUFFICES ASSUME IInv, [Next]_vars PROVE IInv'
    OBVIOUS
  <2>1. CASE Next
    BY <2>1, BeginInv, SendPingInv, EndInv DEF Next
  <2>2. CASE UNCHANGED vars
    BY <2>2 DEF vars, IInv
  <2>. QED  BY <2>1, <2>2
<1>. QED  BY <1>1, <1>2, PTL DEF Spec

-----------------------------------------------------------------------------
(* The theorems. *)

(* get_path_item leaves its two static variables NULL at the end of every  *)
(* round, and within a round has them on a path of the agent's own table.  *)
THEOREM CursorComesToRest == Spec => []CursorAtRest
<1>1. IInv => CursorAtRest
  <2> SUFFICES ASSUME IInv PROVE CursorAtRest
    OBVIOUS
  <2>1. CASE busy = Nobody
    BY <2>1 DEF IInv, CursorAtRest
  <2>2. CASE busy # Nobody
    <3> DEFINE B == before[busy]
               T == table[busy]
    <3>1. busy \in Agent /\ RoundOK(B, T, s, p, sent, rounds) /\ Good(B) /\ rounds \in Nat
      BY <2>2 DEF IInv, TablesOK
    <3> HIDE DEF B, T
    <3>2. /\ CursorOK(T, s, p) /\ (s = 0 <=> sent = << >>)
          /\ DOMAIN T.mptable = 1..Len(B.mptable)
      BY <3>1, SameLengths, TableFields DEF RoundOK, Good, SameShape
    <3>3. Len(B.mptable) \in Nat
      BY <3>1, TableFields DEF Good
    <3>4. sent = << >> => s = 0 /\ p = 0
      BY <3>2, <3>3 DEF CursorOK
    <3>5. sent # << >> => s \in DOMAIN T.mptable /\ p \in DOMAIN T.mptable[s].paths
      BY <3>2 DEF CursorOK
    <3>. QED  BY <2>2, <3>4, <3>5 DEF CursorAtRest, T
  <2>. QED  BY <2>1, <2>2
<1>. QED  BY <1>1, SpecInv, PTL

(* When every path has had its turn the table is what ping_round says. *)
LEMMA RoundDone ==
  ASSUME NEW B, NEW T, Good(B), Good(T), NEW q, NEW t \in Nat, NEW c,
         RoundOK(B, T, s, p, q, t), c = get_path_item(T), ~c.found
  PROVE  /\ {q[i] : i \in DOMAIN q} = pings(B) /\ Len(q) = Cardinality(pings(B))
         /\ T = ping_round(B, t)
<1>1. CursorOK(B, s, p) /\ Partly(B, T, s, p, t) /\ SentOK(B, s, p, q)
  BY DEF RoundOK
<1>2. /\ DOMAIN T.mptable = DOMAIN B.mptable
      /\ \A i \in DOMAIN B.mptable :
           /\ B.mptable[i].paths \in Seq(Path)
           /\ Over(B, i, s, p) = Len(B.mptable[i].paths)
  <2>1. /\ DOMAIN T.mptable = DOMAIN B.mptable /\ CursorOK(T, s, p)
        /\ \A i \in DOMAIN B.mptable :
             /\ B.mptable[i].paths \in Seq(Path)
             /\ Len(T.mptable[i].paths) = Len(B.mptable[i].paths)
             /\ \A x, y : Over(T, i, x, y) = Over(B, i, x, y)
    <3>1. SameShape(B, T, s, p)
      BY <1>1, SameLengths
    <3>. QED  BY <3>1 DEF SameShape
  <2>2. \A i \in DOMAIN T.mptable : Over(T, i, s, p) = Len(T.mptable[i].paths)
    BY <2>1, NextPath
  <2>. QED  BY <2>1, <2>2
<1>3. Sent(B, s, p) = pings(B)
  BY <1>2, SentAll
<1>4. ASSUME NEW i \in DOMAIN B.mptable
      PROVE  T.mptable[i] = [B.mptable[i] EXCEPT !.paths = ping_paths(@, t)]
  <2> DEFINE o == B.mptable[i]
             w == T.mptable[i]
             r == ping_paths(o.paths, t)
  <2>1. o \in Mpath /\ w \in Mpath
    BY <1>2, TableFields DEF Good
  <2>2. /\ w.ptr = o.ptr /\ w.select_addr = o.select_addr
        /\ w.prev_select = o.prev_select /\ w.paths = r
    <3>1. w.paths = Pinged(o.paths, Len(o.paths), t)
      BY <1>1, <1>2 DEF Partly
    <3>2. w.paths = r
      BY <1>2, <3>1, PingedAll
    <3>. QED  BY <1>1, <3>2 DEF Partly, SameObjects
  <2> HIDE DEF o, w, r
  <2>3. w = [o EXCEPT !.paths = r]
    BY <2>1, <2>2 DEF Mpath
  <2>. QED  BY <2>3 DEF o, w, r
<1>5. T = ping_round(B, t)
  <2> DEFINE m == [i \in DOMAIN B.mptable |->
                     [B.mptable[i] EXCEPT !.paths = ping_paths(@, t)]]
  <2>1. T.mptable = m
    <3>1. T.mptable = [i \in DOMAIN B.mptable |-> T.mptable[i]]
      <4>1. T.mptable \in Seq(Mpath)
        BY TableFields DEF Good
      <4> DEFINE n == T.mptable
                 S == Mpath
      <4>2. n \in Seq(S)
        BY <4>1
      <4> HIDE DEF n, S
      <4>3. n = [i \in DOMAIN n |-> n[i]]
        BY <4>2
      <4>. QED  BY <1>2, <4>3 DEF n
    <3>2. \A i \in DOMAIN B.mptable : T.mptable[i] = m[i]
      BY <1>4
    <3>. QED  BY <3>1, <3>2
  <2>2. ping_round(B, t) = [B EXCEPT !.mptable = m]
    BY DEF ping_round
  <2> HIDE DEF m
  <2>3. B \in Table /\ T \in Table /\ T.rtable = B.rtable /\ T.status = B.status
    BY <1>1 DEF Good, Partly, SameObjects
  <2>4. T = [B EXCEPT !.mptable = m]
    BY <2>1, <2>3 DEF Table
  <2>. QED  BY <2>2, <2>4
<1>. QED  BY <1>1, <1>3, <1>5 DEF SentOK

(* A run of send_ping_handler sends one ping for every path of its table,  *)
(* with the number the path had before, and leaves the table of ping_round *)
(* and every other agent's as it was: the one step of the other modules.   *)
THEOREM RoundsAreAtomic == Spec => RoundIsAtomic
<1> DEFINE A == \A a \in Agent : End(a) =>
                  /\ {sent[i] : i \in DOMAIN sent} = pings(before[a])
                  /\ Len(sent) = Cardinality(pings(before[a]))
                  /\ table = [before EXCEPT ![a] = ping_round(@, rounds)]
<1>1. IInv /\ [Next]_vars => [A]_vars
  <2> SUFFICES ASSUME IInv, NEW a \in Agent, End(a)
               PROVE  /\ {sent[i] : i \in DOMAIN sent} = pings(before[a])
                      /\ Len(sent) = Cardinality(pings(before[a]))
                      /\ table = [before EXCEPT ![a] = ping_round(@, rounds)]
    OBVIOUS
  <2> DEFINE c == get_path_item(table[a])
  <2>1. busy = a /\ ~c.found
    BY DEF End
  <2>2. /\ a # Nobody /\ TablesOK(table) /\ TablesOK(before) /\ rounds \in Nat
        /\ RoundOK(before[a], table[a], s, p, sent, rounds)
        /\ \A b \in Agent : b # a => table[b] = before[b]
    BY <2>1, RoundAssumption DEF IInv
  <2>3. /\ {sent[i] : i \in DOMAIN sent} = pings(before[a])
        /\ Len(sent) = Cardinality(pings(before[a]))
        /\ table[a] = ping_round(before[a], rounds)
    <3>1. Good(table[a]) /\ Good(before[a])
      BY <2>2 DEF TablesOK
    <3>. QED  BY <2>1, <2>2, <3>1, RoundDone
  <2>4. table = [before EXCEPT ![a] = ping_round(@, rounds)]
    BY <2>2, <2>3 DEF TablesOK
  <2>. QED  BY <2>3, <2>4
<1>. QED  BY <1>1, SpecInv, PTL DEF Spec, RoundIsAtomic
================================================================================
