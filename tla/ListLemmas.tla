------------------------------ MODULE ListLemmas ------------------------------
(***************************************************************************)
(* Facts about the list operators the models share: the least element of a *)
(* set of positions, and a list with an element put in front or taken out. *)
(***************************************************************************)
EXTENDS Integers, Sequences, FiniteSetsExt, SequencesExt, SequenceTheorems,
        WellFoundedInduction, TLAPS

(* A non-empty set of naturals has a least element, and Min is it. *)
LEMMA MinNat ==
  ASSUME NEW I, I \subseteq Nat, I # {}
  PROVE  Min(I) \in I /\ \A j \in I : Min(I) <= j
<1>1. IsWellFoundedOn(OpToRel(<, Nat), Nat)
  BY NatLessThanWellFounded
<1>2. PICK m \in I : \A y \in I : <<y, m>> \notin OpToRel(<, Nat)
  BY <1>1, WFMin, Zenon
<1>3. \A y \in I : m <= y
  <2>1. SUFFICES ASSUME NEW y \in I, ~ (m <= y) PROVE FALSE
    OBVIOUS
  <2>2. y \in Nat /\ m \in Nat /\ y < m
    BY <2>1
  <2>3. <<y, m>> \in OpToRel(<, Nat)
    BY <2>2, Zenon DEF OpToRel
  <2>. QED  BY <1>2, <2>1, <2>3
<1>4. \E x \in I : \A y \in I : x <= y
  BY <1>3
<1>. QED  BY <1>4, Zenon DEF Min

(* Cons puts an element in front. *)
LEMMA ConsProperties ==
  ASSUME NEW S, NEW e \in S, NEW s \in Seq(S)
  PROVE  /\ Cons(e, s) \in Seq(S)
         /\ Len(Cons(e, s)) = Len(s) + 1
         /\ Cons(e, s)[1] = e
         /\ \A i \in 2..(Len(s) + 1) : Cons(e, s)[i] = s[i - 1]
<1>1. <<e>> \in Seq(S) /\ Len(<<e>>) = 1 /\ <<e>>[1] = e
  OBVIOUS
<1>2. /\ <<e>> \o s \in Seq(S)
      /\ Len(<<e>> \o s) = 1 + Len(s)
      /\ \A i \in 1 .. 1 + Len(s) :
           (<<e>> \o s)[i] = IF i <= 1 THEN <<e>>[i] ELSE s[i - 1]
  BY <1>1, ConcatProperties, SMTT(20)
<1>. QED  BY <1>1, <1>2, LenProperties DEF Cons

(* RemoveAt takes out the element at a position of the list. *)
LEMMA RemoveAtProperties ==
  ASSUME NEW S, NEW s \in Seq(S), NEW i \in 1..Len(s)
  PROVE  /\ RemoveAt(s, i) \in Seq(S)
         /\ Len(RemoveAt(s, i)) = Len(s) - 1
         /\ \A j \in 1..(Len(s) - 1) :
              RemoveAt(s, i)[j] = IF j < i THEN s[j] ELSE s[j + 1]
<1> DEFINE a == SubSeq(s, 1, i - 1)
           b == SubSeq(s, i + 1, Len(s))
<1>0. Len(s) \in Nat /\ i \in Int /\ i <= Len(s) /\ DOMAIN s = 1..Len(s)
  BY LenProperties
<1>1. /\ a \in Seq(S) /\ Len(a) = i - 1
      /\ \A j \in 1 .. i - 1 : a[j] = s[j]
  BY <1>0
<1>2. /\ b \in Seq(S) /\ Len(b) = Len(s) - i
      /\ \A j \in 1 .. Len(s) - i : b[j] = s[i + j]
  <2>1. i + 1 \in Int /\ Len(s) \in Int
    BY <1>0
  <2>2. \A k \in i + 1 .. Len(s) : s[k] \in S
    BY <1>0, ElementOfSeq
  <2>3. /\ b \in Seq(S)
        /\ Len(b) = IF i + 1 <= Len(s) THEN Len(s) - (i + 1) + 1 ELSE 0
        /\ \A j \in 1 .. Len(s) - (i + 1) + 1 : b[j] = s[(i + 1) + j - 1]
    BY <2>1, <2>2, SubSeqProperties
  <2> HIDE DEF b
  <2>4. Len(b) = Len(s) - i
    <3>1. CASE i + 1 <= Len(s)
      BY <1>0, <2>3, <3>1
    <3>2. CASE ~ (i + 1 <= Len(s))
      <4>1. Len(s) - i = 0
        <5>1. \A n, k \in Int : k <= n /\ ~ (k + 1 <= n) => n - k = 0
          OBVIOUS
        <5>2. Len(s) \in Int /\ i \in Int /\ i <= Len(s) /\ ~ (i + 1 <= Len(s))
          BY <1>0, <3>2
        <5>. QED  BY <5>1, <5>2, Zenon
      <4>2. Len(b) = 0
        BY <2>3, <3>2
      <4>. QED  BY <1>0, <4>1, <4>2
    <3>. QED  BY <3>1, <3>2
  <2>5. ASSUME NEW j \in 1 .. Len(s) - i PROVE b[j] = s[i + j]
    <3>1. j \in 1 .. Len(s) - (i + 1) + 1 /\ (i + 1) + j - 1 = i + j
      BY <1>0
    <3>. QED  BY <2>3, <3>1
  <2>. QED  BY <2>3, <2>4, <2>5
<1>3. /\ a \o b \in Seq(S)
      /\ Len(a \o b) = Len(a) + Len(b)
      /\ \A j \in 1 .. Len(a) + Len(b) :
           (a \o b)[j] = IF j <= Len(a) THEN a[j] ELSE b[j - Len(a)]
  BY <1>1, <1>2, ConcatProperties
<1>4. RemoveAt(s, i) = a \o b
  BY DEF RemoveAt
<1> HIDE DEF a, b
<1>5. Len(a \o b) = Len(s) - 1
  BY <1>0, <1>1, <1>2, <1>3
<1>6. ASSUME NEW j \in 1..(Len(s) - 1)
      PROVE  (a \o b)[j] = IF j < i THEN s[j] ELSE s[j + 1]
  <2>1. j \in 1 .. Len(a) + Len(b)
    BY <1>0, <1>1, <1>2
  <2>2. CASE j < i
    <3>1. j <= Len(a) /\ j \in 1 .. i - 1
      BY <1>0, <1>1, <2>2
    <3>. QED  BY <1>1, <1>3, <2>1, <2>2, <3>1
  <2>3. CASE ~ (j < i)
    <3>1. /\ ~ (j <= Len(a)) /\ j - Len(a) \in 1 .. Len(s) - i
          /\ i + (j - Len(a)) = j + 1
      BY <1>0, <1>1, <2>3
    <3>. QED  BY <1>2, <1>3, <2>1, <2>3, <3>1
  <2>. QED  BY <2>2, <2>3
<1>. QED  BY <1>3, <1>4, <1>5, <1>6

(* InsertAt puts an element before a position, or after the last one. *)
LEMMA InsertAtProperties ==
  ASSUME NEW S, NEW s \in Seq(S), NEW e \in S, NEW i \in 1..(Len(s) + 1)
  PROVE  /\ InsertAt(s, i, e) \in Seq(S)
         /\ Len(InsertAt(s, i, e)) = Len(s) + 1
         /\ \A j \in 1..(Len(s) + 1) :
              InsertAt(s, i, e)[j] = IF j < i THEN s[j]
                                     ELSE IF j = i THEN e ELSE s[j - 1]
<1> DEFINE a == SubSeq(s, 1, i - 1)
           b == SubSeq(s, i, Len(s))
           c == a \o <<e>>
<1>0. Len(s) \in Nat /\ i \in Int /\ 1 <= i /\ i <= Len(s) + 1 /\ DOMAIN s = 1..Len(s)
  BY LenProperties
<1>1. /\ a \in Seq(S) /\ Len(a) = i - 1
      /\ \A j \in 1 .. i - 1 : a[j] = s[j]
  BY <1>0
<1>2. /\ b \in Seq(S) /\ Len(b) = Len(s) - i + 1
      /\ \A j \in 1 .. Len(s) - i + 1 : b[j] = s[i + j - 1]
  <2>1. i \in Int /\ Len(s) \in Int
    BY <1>0
  <2>2. \A k \in i .. Len(s) : s[k] \in S
    BY <1>0, ElementOfSeq
  <2>3. /\ b \in Seq(S)
        /\ Len(b) = IF i <= Len(s) THEN Len(s) - i + 1 ELSE 0
        /\ \A j \in 1 .. Len(s) - i + 1 : b[j] = s[i + j - 1]
    BY <2>1, <2>2, SubSeqProperties
  <2> HIDE DEF b
  <2>4. \A n, k \in Int : k <= n + 1 /\ ~ (k <= n) => n - k + 1 = 0
    OBVIOUS
  <2>5. ~ (i <= Len(s)) => Len(s) - i + 1 = 0
    BY <1>0, <2>1, <2>4
  <2>. QED  BY <2>3, <2>5
<1>3. <<e>> \in Seq(S) /\ Len(<<e>>) = 1 /\ <<e>>[1] = e
  OBVIOUS
<1> HIDE DEF a, b
<1>4. /\ c \in Seq(S) /\ Len(c) = Len(a) + 1
      /\ \A j \in 1 .. Len(a) + 1 :
           c[j] = IF j <= Len(a) THEN a[j] ELSE <<e>>[j - Len(a)]
  BY <1>1, <1>3, ConcatProperties, SMTT(20)
<1> HIDE DEF c
<1>5. Len(c) = i /\ c[i] = e /\ \A j \in 1 .. i - 1 : c[j] = s[j]
  <2>1. Len(c) = i
    BY <1>0, <1>1, <1>4
  <2>2. i \in 1 .. Len(a) + 1 /\ ~ (i <= Len(a)) /\ i - Len(a) = 1
    BY <1>0, <1>1
  <2>3. c[i] = e
    BY <1>3, <1>4, <2>2
  <2>4. ASSUME NEW j \in 1 .. i - 1 PROVE c[j] = s[j]
    <3>1. j \in 1 .. Len(a) + 1 /\ j <= Len(a)
      BY <1>0, <1>1
    <3>. QED  BY <1>1, <1>4, <3>1
  <2>. QED  BY <2>1, <2>3, <2>4
<1>6. /\ c \o b \in Seq(S)
      /\ Len(c \o b) = Len(c) + Len(b)
      /\ \A j \in 1 .. Len(c) + Len(b) :
           (c \o b)[j] = IF j <= Len(c) THEN c[j] ELSE b[j - Len(c)]
  BY <1>2, <1>4, ConcatProperties
<1>7. InsertAt(s, i, e) = c \o b
  BY DEF InsertAt, a, b, c
<1>8. Len(c) + Len(b) = Len(s) + 1
  BY <1>0, <1>2, <1>5
<1>9. ASSUME NEW j \in 1 .. Len(s) + 1
      PROVE  (c \o b)[j] = IF j < i THEN s[j] ELSE IF j = i THEN e ELSE s[j - 1]
  <2>1. j \in 1 .. Len(c) + Len(b) /\ j \in Int
    BY <1>8
  <2>2. CASE j < i
    <3>1. j <= Len(c) /\ j \in 1 .. i - 1
      BY <1>0, <1>5, <2>1, <2>2
    <3>. QED  BY <1>5, <1>6, <2>1, <2>2, <3>1
  <2>3. CASE j = i
    BY <1>0, <1>5, <1>6, <2>1, <2>3
  <2>4. CASE j > i
    <3>1. /\ ~ (j <= Len(c)) /\ j - Len(c) \in 1 .. Len(s) - i + 1
          /\ i + (j - Len(c)) - 1 = j - 1
      BY <1>0, <1>5, <2>1, <2>4
    <3>2. ~ (j < i) /\ j # i
      BY <1>0, <2>1, <2>4
    <3>. QED  BY <1>2, <1>6, <2>1, <3>1, <3>2
  <2>. QED  BY <1>0, <2>1, <2>2, <2>3, <2>4
<1>. QED  BY <1>6, <1>7, <1>8, <1>9
===============================================================================
