----------------------------- MODULE SeqLemmas -----------------------------
(***************************************************************************)
(* What the operators on sequences that strips and stacks of workspaces    *)
(* are built from return: first index, insert, remove, retain.             *)
(***************************************************************************)
EXTENDS Lists, SequenceTheorems, FunctionTheorems, FiniteSetTheorems, TLAPS

----------------------------------------------------------------------------
(* Numbers. *)

LEMMA LeastExists ==
    ASSUME NEW I \in SUBSET Nat, I # {}
    PROVE  \E x \in I : \A i \in I : x <= i
<1> DEFINE T == {1 .. i : i \in I}
<1>1. T # {}
  OBVIOUS
<1>2. T \subseteq FiniteSubsetsOf(Nat)
  <2>1. SUFFICES ASSUME NEW i \in I PROVE 1 .. i \in SUBSET Nat /\ IsFiniteSet(1 .. i)
    BY DEF FiniteSubsetsOf
  <2> QED BY FS_Interval
<1>3. PICK t \in T : \A u \in T : <<u, t>> \notin StrictSubsetOrdering(Nat)
  BY <1>1, <1>2, FS_StrictSubsetOrderingWellFounded, WFMin
<1>4. PICK x \in I : t = 1 .. x
  OBVIOUS
<1>5. ASSUME NEW i \in I, i < x PROVE FALSE
  <2>1. 1 .. i \in T /\ 1 .. i \subseteq Nat /\ 1 .. x \subseteq Nat
    OBVIOUS
  <2>2. 1 .. i \subseteq 1 .. x /\ x \in 1 .. x /\ x \notin 1 .. i
    BY <1>5
  <2>3. <<1 .. i, t>> \in StrictSubsetOrdering(Nat)
    BY <1>4, <2>1, <2>2 DEF StrictSubsetOrdering
  <2> QED BY <1>3, <2>1, <2>3
<1> QED BY <1>5

LEMMA Counting ==
    ASSUME NEW S, 0 \in S, \A n \in Nat : n \in S => n + 1 \in S
    PROVE  Nat \subseteq S
<1> DEFINE T == Nat \ S
<1>1. SUFFICES ASSUME T # {} PROVE FALSE
  OBVIOUS
<1>2. PICK x \in T : \A y \in T : x <= y
  BY <1>1, LeastExists
<1>3. x # 0 /\ x - 1 \in Nat
  OBVIOUS
<1>4. x - 1 \in S
  BY <1>2, <1>3
<1> QED BY <1>3, <1>4

LEMMA MinOfSet ==
    ASSUME NEW I \in SUBSET Nat, I # {}
    PROVE  Min(I) \in I /\ \A i \in I : Min(I) <= i
BY LeastExists DEF Min

LEMMA MaxOfSet ==
    ASSUME NEW I \in SUBSET Nat, I # {}, NEW n \in Nat, \A i \in I : i <= n
    PROVE  Max(I) \in I /\ \A i \in I : i <= Max(I)
<1> DEFINE J == {n - i : i \in I}
<1>1. J \in SUBSET Nat /\ J # {}
  <2>1. ASSUME NEW i \in I PROVE n - i \in Nat
    OBVIOUS
  <2> QED BY <2>1
<1>2. PICK x \in J : \A j \in J : x <= j
  BY <1>1, LeastExists
<1>3. PICK m \in I : x = n - m
  OBVIOUS
<1>4. \A i \in I : i <= m
  <2>1. SUFFICES ASSUME NEW i \in I PROVE i <= m
    OBVIOUS
  <2>2. n - i \in J
    OBVIOUS
  <2>3. n - m <= n - i
    BY <1>2, <1>3, <2>2
  <2> QED BY <2>3
<1> QED BY <1>4 DEF Max

----------------------------------------------------------------------------
(* The first index of an element. *)

LEMMA InSeqOf ==
    ASSUME NEW S, NEW s \in Seq(S), NEW x
    PROVE  /\ InSeq(s, x) <=> \E i \in 1 .. Len(s) : s[i] = x
           /\ InSeq(s, x) <=> x \in ToSet(s)
           /\ InSeq(s, x) => x \in S
BY DEF InSeq, ToSet

LEMMA IndexInProperties ==
    ASSUME NEW S, NEW s \in Seq(S), NEW x
    PROVE  /\ IndexIn(s, x) \in 0 .. Len(s)
           /\ IndexIn(s, x) = 0 <=> ~InSeq(s, x)
           /\ InSeq(s, x) => IndexIn(s, x) \in 1 .. Len(s) /\ s[IndexIn(s, x)] = x
<1> DEFINE I == {i \in 1 .. Len(s) : s[i] = x}
<1>1. I \in SUBSET Nat
  OBVIOUS
<1>2. IndexIn(s, x) = IF I # {} THEN Min(I) ELSE 0
  BY DEF IndexIn, SelectInSeq
<1>3. I # {} => Min(I) \in I
  BY <1>1, MinOfSet
<1>4. I # {} <=> InSeq(s, x)
  BY InSeqOf
<1>5. Len(s) \in Nat
  OBVIOUS
<1> HIDE DEF I
<1>6. CASE I = {}
  BY <1>2, <1>4, <1>5, <1>6
<1>7. CASE I # {}
  BY <1>2, <1>3, <1>4, <1>5, <1>7 DEF I
<1> QED BY <1>6, <1>7

----------------------------------------------------------------------------
(* Insert and remove. *)

LEMMA InsertAtProperties ==
    ASSUME NEW S, NEW s \in Seq(S), NEW i \in 1 .. Len(s) + 1, NEW e \in S
    PROVE  /\ InsertAt(s, i, e) \in Seq(S)
           /\ Len(InsertAt(s, i, e)) = Len(s) + 1
           /\ \A j \in 1 .. Len(s) + 1 :
                InsertAt(s, i, e)[j] = IF j < i THEN s[j] ELSE IF j = i THEN e ELSE s[j - 1]
<1> DEFINE a == SubSeq(s, 1, i - 1)
           b == SubSeq(s, i, Len(s))
<1>1. Len(s) \in Nat /\ i \in Int
  OBVIOUS
<1>2. a \in Seq(S) /\ Len(a) = i - 1 /\ \A j \in 1 .. i - 1 : a[j] = s[j]
  <2>1. \A j \in 1 .. i - 1 : s[j] \in S
    OBVIOUS
  <2> QED BY <2>1, SubSeqProperties
<1>3. b \in Seq(S) /\ Len(b) = Len(s) - i + 1 /\ \A j \in 1 .. Len(s) - i + 1 : b[j] = s[i + j - 1]
  <2>1. \A j \in i .. Len(s) : s[j] \in S
    OBVIOUS
  <2>2. /\ b \in Seq(S)
        /\ Len(b) = IF i <= Len(s) THEN Len(s) - i + 1 ELSE 0
        /\ \A j \in 1 .. Len(s) - i + 1 : b[j] = s[i + j - 1]
    BY <1>1, <2>1, SubSeqProperties
  <2> QED BY <1>1, <2>2
<1>4. <<e>> \in Seq(S) /\ Len(<<e>>) = 1 /\ <<e>>[1] = e
  OBVIOUS
<1> HIDE DEF a, b
<1>5. a \o <<e>> \in Seq(S) /\ Len(a \o <<e>>) = i
      /\ \A j \in 1 .. i : (a \o <<e>>)[j] = IF j < i THEN s[j] ELSE e
  <2>1. /\ a \o <<e>> \in Seq(S) /\ Len(a \o <<e>>) = Len(a) + Len(<<e>>)
        /\ \A j \in 1 .. Len(a) + Len(<<e>>) :
              (a \o <<e>>)[j] = IF j <= Len(a) THEN a[j] ELSE <<e>>[j - Len(a)]
    BY <1>2, <1>4, ConcatProperties
  <2> QED BY <1>1, <1>2, <1>4, <2>1
<1>6. /\ (a \o <<e>>) \o b \in Seq(S)
      /\ Len((a \o <<e>>) \o b) = Len(s) + 1
      /\ \A j \in 1 .. Len(s) + 1 :
            ((a \o <<e>>) \o b)[j] = IF j < i THEN s[j] ELSE IF j = i THEN e ELSE s[j - 1]
  <2> DEFINE c == a \o <<e>>
  <2>1. c \in Seq(S) /\ Len(c) = i /\ \A j \in 1 .. i : c[j] = IF j < i THEN s[j] ELSE e
    BY <1>5
  <2> HIDE DEF c
  <2>2. /\ c \o b \in Seq(S) /\ Len(c \o b) = Len(c) + Len(b)
        /\ \A j \in 1 .. Len(c) + Len(b) : (c \o b)[j] = IF j <= Len(c) THEN c[j] ELSE b[j - Len(c)]
    BY <1>3, <2>1, ConcatProperties
  <2>3. Len(c \o b) = Len(s) + 1
    BY <1>1, <1>3, <2>1, <2>2
  <2>4. ASSUME NEW j \in 1 .. Len(s) + 1
        PROVE  (c \o b)[j] = IF j < i THEN s[j] ELSE IF j = i THEN e ELSE s[j - 1]
    <3>1. (c \o b)[j] = IF j <= i THEN c[j] ELSE b[j - i]
      BY <1>1, <1>3, <2>1, <2>2, <2>4
    <3>2. CASE j <= i
      BY <1>1, <2>1, <3>1, <3>2
    <3>3. CASE j > i
      <4>1. j - i \in 1 .. Len(s) - i + 1 /\ i + (j - i) - 1 = j - 1
        BY <1>1, <3>3
      <4> QED BY <1>1, <1>3, <3>1, <3>3, <4>1
    <3>4. j <= i \/ j > i
      BY <1>1
    <3> QED BY <3>2, <3>3, <3>4
  <2> QED BY <2>2, <2>3, <2>4 DEF c
<1> QED BY <1>6 DEF InsertAt, a, b

LEMMA RemoveAtProperties ==
    ASSUME NEW S, NEW s \in Seq(S), NEW i \in 1 .. Len(s)
    PROVE  /\ RemoveAt(s, i) \in Seq(S)
           /\ Len(RemoveAt(s, i)) = Len(s) - 1
           /\ \A j \in 1 .. Len(s) - 1 : RemoveAt(s, i)[j] = IF j < i THEN s[j] ELSE s[j + 1]
<1> DEFINE a == SubSeq(s, 1, i - 1)
           b == SubSeq(s, i + 1, Len(s))
<1>1. Len(s) \in Nat /\ i \in Int
  OBVIOUS
<1>2. a \in Seq(S) /\ Len(a) = i - 1 /\ \A j \in 1 .. i - 1 : a[j] = s[j]
  <2>1. \A j \in 1 .. i - 1 : s[j] \in S
    OBVIOUS
  <2> QED BY <2>1, SubSeqProperties
<1>3. b \in Seq(S) /\ Len(b) = Len(s) - i /\ \A j \in 1 .. Len(s) - i : b[j] = s[i + j]
  <2>1. \A j \in i + 1 .. Len(s) : s[j] \in S
    OBVIOUS
  <2>2. /\ b \in Seq(S)
        /\ Len(b) = IF i + 1 <= Len(s) THEN Len(s) - (i + 1) + 1 ELSE 0
        /\ \A j \in 1 .. Len(s) - (i + 1) + 1 : b[j] = s[(i + 1) + j - 1]
    BY <1>1, <2>1, SubSeqProperties
  <2> QED BY <1>1, <2>2
<1> HIDE DEF a, b
<1>4. /\ a \o b \in Seq(S) /\ Len(a \o b) = Len(a) + Len(b)
      /\ \A j \in 1 .. Len(a) + Len(b) : (a \o b)[j] = IF j <= Len(a) THEN a[j] ELSE b[j - Len(a)]
  BY <1>2, <1>3, ConcatProperties
<1>5. ASSUME NEW j \in 1 .. Len(s) - 1 PROVE (a \o b)[j] = IF j < i THEN s[j] ELSE s[j + 1]
  <2>1. (a \o b)[j] = IF j <= i - 1 THEN a[j] ELSE b[j - (i - 1)]
    BY <1>1, <1>2, <1>3, <1>4, <1>5
  <2>2. CASE j < i
    BY <1>1, <1>2, <2>1, <2>2
  <2>3. CASE j >= i
    <3>1. j - (i - 1) \in 1 .. Len(s) - i /\ i + (j - (i - 1)) = j + 1
      BY <1>1, <2>3
    <3> QED BY <1>1, <1>3, <2>1, <2>3, <3>1
  <2>4. j < i \/ j >= i
    BY <1>1
  <2> QED BY <2>2, <2>3, <2>4
<1>6. Len(a \o b) = Len(s) - 1
  BY <1>1, <1>2, <1>3, <1>4
<1> QED BY <1>4, <1>5, <1>6 DEF RemoveAt, a, b

----------------------------------------------------------------------------
(* Vec::retain. *)

Stay(s, S) == {i \in DOMAIN s : s[i] \notin S}
Rank(s, S, i) == Cardinality({j \in Stay(s, S) : j <= i})

LEMMA RankProperties ==
    ASSUME NEW T, NEW s \in Seq(T), NEW S
    PROVE  /\ Stay(s, S) \subseteq 1 .. Len(s) /\ IsFiniteSet(Stay(s, S))
           /\ Cardinality(Stay(s, S)) \in 0 .. Len(s)
           /\ \A i \in Stay(s, S) : Rank(s, S, i) \in 1 .. Cardinality(Stay(s, S))
           /\ \A i, j \in Stay(s, S) : i < j => Rank(s, S, i) < Rank(s, S, j)
<1> DEFINE stay == Stay(s, S)
           below(i) == {j \in stay : j <= i}
<1>1. stay \subseteq 1 .. Len(s)
  BY DEF Stay
<1>2. IsFiniteSet(stay) /\ Cardinality(stay) \in 0 .. Len(s)
  <2>1. Len(s) \in Nat
    OBVIOUS
  <2>2. IsFiniteSet(1 .. Len(s)) /\ Cardinality(1 .. Len(s)) = Len(s)
    BY <2>1, FS_Interval
  <2>3. IsFiniteSet(stay) /\ Cardinality(stay) <= Len(s)
    BY <1>1, <2>2, FS_Subset
  <2> QED BY <2>1, <2>3, FS_CardinalityType
<1>3. \A i : Rank(s, S, i) = Cardinality(below(i))
  BY DEF Rank
<1> HIDE DEF stay
<1>4. ASSUME NEW i \in stay
      PROVE  /\ IsFiniteSet(below(i)) /\ Cardinality(below(i)) \in 1 .. Cardinality(stay)
  <2>1. IsFiniteSet(below(i)) /\ Cardinality(below(i)) <= Cardinality(stay)
    <3>1. below(i) \in SUBSET stay
      OBVIOUS
    <3> QED BY <1>2, <3>1, FS_Subset
  <2>2. i \in below(i)
    BY <1>1, <1>4
  <2>3. Cardinality(below(i)) \in Nat /\ Cardinality(below(i)) # 0
    BY <2>1, <2>2, FS_CardinalityType, FS_EmptySet
  <2> QED BY <1>2, <2>1, <2>3
<1>5. ASSUME NEW i \in stay, NEW j \in stay, i < j
      PROVE  Cardinality(below(i)) < Cardinality(below(j))
  <2>0. i \in Int /\ j \in Int /\ \A x \in stay : x \in Int
    BY <1>1
  <2>1. below(i) \in SUBSET below(j) /\ j \in below(j) /\ j \notin below(i)
    <3>1. ASSUME NEW x \in below(i) PROVE x \in below(j)
      BY <1>5, <2>0
    <3>2. j \in below(j) /\ j \notin below(i)
      BY <1>5, <2>0
    <3> QED BY <3>1, <3>2
  <2> DEFINE a == below(i)
             b == below(j)
  <2>2. IsFiniteSet(b) /\ a \in SUBSET b /\ a # b
    BY <1>4, <2>1
  <2>3. Cardinality(a) \in Nat /\ Cardinality(b) \in Nat
    BY <1>4, FS_CardinalityType
  <2> HIDE DEF a, b
  <2>4. Cardinality(a) <= Cardinality(b) /\ Cardinality(a) # Cardinality(b)
    BY <2>2, FS_Subset
  <2>5. Cardinality(a) < Cardinality(b)
    BY <2>3, <2>4
  <2> QED BY <2>5 DEF a, b
<1>6. \A i \in stay : Rank(s, S, i) \in 1 .. Cardinality(stay)
  BY <1>3, <1>4
<1>7. \A i, j \in stay : i < j => Rank(s, S, i) < Rank(s, S, j)
  BY <1>3, <1>5
<1> QED BY <1>1, <1>2, <1>6, <1>7 DEF stay

Enumerates(f, D, s, S) ==
    /\ f \in [1 .. Len(D) -> 1 .. Len(s)]
    /\ \A k \in 1 .. Len(D) : D[k] = s[f[k]] /\ s[f[k]] \notin S
    /\ \A k, l \in 1 .. Len(D) : k < l => f[k] < f[l]
    /\ \A i \in 1 .. Len(s) : s[i] \notin S => \E k \in 1 .. Len(D) : f[k] = i

\* What stays, stays in its order: the result is s along an increasing enumeration of the
\* indices whose elements are not dropped.
LEMMA DroppedEnumerates ==
    ASSUME NEW T, NEW s \in Seq(T), NEW S
    PROVE  /\ Dropped(s, S) \in Seq(T)
           /\ Len(Dropped(s, S)) <= Len(s)
           /\ \E f : Enumerates(f, Dropped(s, S), s, S)
<1> DEFINE stay == Stay(s, S)
           n == Cardinality(stay)
           rank(i) == Rank(s, S, i)
           f == [k \in 1 .. n |-> CHOOSE i \in stay : rank(i) = k]
<1>1. /\ stay \subseteq 1 .. Len(s) /\ IsFiniteSet(stay) /\ n \in 0 .. Len(s) /\ n \in Nat
      /\ \A i \in stay : rank(i) \in 1 .. n
      /\ \A i, j \in stay : i < j => rank(i) < rank(j)
  BY RankProperties
<1>2. Dropped(s, S) = [k \in 1 .. n |-> s[CHOOSE i \in stay : rank(i) = k]]
  BY DEF Dropped, Stay, Rank
<1>3. stay = {i \in 1 .. Len(s) : s[i] \notin S}
  BY DEF Stay
<1> HIDE DEF stay, n, rank
<1>4. \A i, j \in stay : rank(i) = rank(j) => i = j
  <2>1. ASSUME NEW i \in stay, NEW j \in stay, rank(i) = rank(j), i # j PROVE FALSE
    <3>1. i < j \/ j < i
      BY <1>1, <2>1
    <3> QED BY <1>1, <2>1, <3>1
  <2> QED BY <2>1
<1>5. \A k \in 1 .. n : \E i \in stay : rank(i) = k
  <2> DEFINE r == [i \in stay |-> rank(i)]
  <2>1. r \in [stay -> 1 .. n] /\ \A i, j \in stay : r[i] = r[j] => i = j
    BY <1>1, <1>4
  <2>2. r \in Injection(stay, 1 .. n)
    BY <2>1, Fun_IsInj
  <2>3. IsFiniteSet(1 .. n) /\ Cardinality(1 .. n) = n
    BY <1>1, FS_Interval
  <2>4. Cardinality(stay) = Cardinality(1 .. n)
    BY <2>3 DEF n
  <2> HIDE DEF r
  <2>5. r \in Surjection(stay, 1 .. n)
    BY <2>2, <2>3, <2>4, FS_Injection
  <2>6. \A k \in 1 .. n : \E i \in stay : r[i] = k
    BY <2>5, Fun_SurjectionProperties
  <2> QED BY <2>6 DEF r
<1>6. \A k \in 1 .. n : f[k] \in stay /\ rank(f[k]) = k
  BY <1>5
<1>7. Dropped(s, S) = [k \in 1 .. n |-> s[f[k]]]
  BY <1>2
<1> HIDE DEF f
<1>8. \A k \in 1 .. n : s[f[k]] \in T
  <2>1. \A k \in 1 .. n : f[k] \in 1 .. Len(s)
    BY <1>1, <1>6
  <2> QED BY <2>1, ElementOfSeq
<1>9. Dropped(s, S) \in Seq(T) /\ Len(Dropped(s, S)) = n
  BY <1>1, <1>7, <1>8
<1>10. f \in [1 .. n -> 1 .. Len(s)]
  <2>1. f = [k \in 1 .. n |-> f[k]]
    BY DEF f
  <2> QED BY <1>1, <1>6, <2>1
<1>11. \A k, l \in 1 .. n : k < l => f[k] < f[l]
  <2>1. ASSUME NEW k \in 1 .. n, NEW l \in 1 .. n, k < l, ~(f[k] < f[l]) PROVE FALSE
    <3>1. f[l] < f[k] \/ f[l] = f[k]
      BY <1>10, <2>1
    <3>2. rank(f[k]) = k /\ rank(f[l]) = l /\ f[k] \in stay /\ f[l] \in stay
      BY <1>6
    <3>3. rank(f[l]) < rank(f[k]) \/ rank(f[l]) = rank(f[k])
      BY <1>1, <3>1, <3>2
    <3> QED BY <2>1, <3>2, <3>3
  <2> QED BY <2>1
<1>12. \A i \in 1 .. Len(s) : s[i] \notin S => \E k \in 1 .. n : f[k] = i
  <2>1. ASSUME NEW i \in 1 .. Len(s), s[i] \notin S PROVE rank(i) \in 1 .. n /\ f[rank(i)] = i
    <3>1. i \in stay
      BY <1>3, <2>1
    <3>2. rank(i) \in 1 .. n
      BY <1>1, <3>1
    <3> QED BY <1>4, <1>6, <3>1, <3>2
  <2> QED BY <2>1
<1>13. \A k \in 1 .. n : s[f[k]] \notin S
  BY <1>3, <1>6
<1>14. \A k \in 1 .. n : Dropped(s, S)[k] = s[f[k]]
  BY <1>7
<1> DEFINE D == Dropped(s, S)
<1>15. D \in Seq(T) /\ Len(D) <= Len(s) /\ n = Len(D)
  BY <1>1, <1>9
<1> HIDE DEF D
<1>16. \A k \in 1 .. n : D[k] = s[f[k]]
  BY <1>14 DEF D
<1>17. Enumerates(f, D, s, S)
  BY <1>10, <1>11, <1>12, <1>13, <1>15, <1>16 DEF Enumerates
<1> QED BY <1>15, <1>17 DEF D

LEMMA ToSetOf ==
    ASSUME NEW S, NEW s \in Seq(S)
    PROVE  /\ ToSet(s) \subseteq S
           /\ \A x : x \in ToSet(s) <=> \E i \in 1 .. Len(s) : s[i] = x
           /\ \A i \in 1 .. Len(s) : s[i] \in ToSet(s)
           /\ IsInjective(s) <=> \A i, j \in 1 .. Len(s) : s[i] = s[j] => i = j
BY DEF ToSet, IsInjective

LEMMA DroppedSet ==
    ASSUME NEW T, NEW s \in Seq(T), NEW S
    PROVE  /\ Dropped(s, S) \in Seq(T) /\ Len(Dropped(s, S)) <= Len(s)
           /\ ToSet(Dropped(s, S)) = ToSet(s) \ S
           /\ IsInjective(s) => IsInjective(Dropped(s, S))
<1> DEFINE D == Dropped(s, S)
<1>1. D \in Seq(T) /\ Len(D) <= Len(s)
  BY DroppedEnumerates
<1>2. PICK f : Enumerates(f, D, s, S)
  BY DroppedEnumerates
<1> HIDE DEF D
<1> USE <1>2 DEF Enumerates
<1>3. ASSUME NEW x \in ToSet(D) PROVE x \in ToSet(s) \ S
  <2>1. PICK k \in 1 .. Len(D) : D[k] = x
    BY <1>1, <1>3, ToSetOf
  <2>2. f[k] \in 1 .. Len(s) /\ s[f[k]] = x /\ x \notin S
    BY <1>2, <2>1
  <2> QED BY <2>2, ToSetOf
<1>4. ASSUME NEW x \in ToSet(s) \ S PROVE x \in ToSet(D)
  <2>1. PICK i \in 1 .. Len(s) : s[i] = x
    BY <1>4, ToSetOf
  <2>2. PICK k \in 1 .. Len(D) : f[k] = i
    BY <1>2, <1>4, <2>1
  <2>3. D[k] = x
    BY <1>2, <2>1, <2>2
  <2> QED BY <1>1, <2>3, ToSetOf
<1>5. ASSUME IsInjective(s) PROVE IsInjective(D)
  <2>1. ASSUME NEW k \in 1 .. Len(D), NEW l \in 1 .. Len(D), D[k] = D[l] PROVE k = l
    <3>1. s[f[k]] = s[f[l]] /\ f[k] \in 1 .. Len(s) /\ f[l] \in 1 .. Len(s)
      BY <1>2, <2>1
    <3>2. f[k] = f[l]
      BY <1>5, <3>1, ToSetOf
    <3>3. ~(k < l) /\ ~(l < k)
      BY <1>2, <3>1, <3>2
    <3> QED BY <3>3
  <2> QED BY <1>1, <2>1, ToSetOf
<1> QED BY <1>1, <1>3, <1>4, <1>5 DEF D

\* The first and the last that stay.
LEMMA DroppedEnds ==
    ASSUME NEW T, NEW s \in Seq(T), NEW S, NEW i \in 1 .. Len(s), s[i] \notin S
    PROVE  /\ Dropped(s, S) # <<>>
           /\ (\A j \in 1 .. Len(s) : j < i => s[j] \in S) => Dropped(s, S)[1] = s[i]
           /\ (\A j \in 1 .. Len(s) : i < j => s[j] \in S) => Last(Dropped(s, S)) = s[i]
<1> DEFINE D == Dropped(s, S)
<1>1. D \in Seq(T) /\ Len(D) \in Nat
  BY DroppedEnumerates
<1>2. PICK f : Enumerates(f, D, s, S)
  BY DroppedEnumerates
<1> HIDE DEF D
<1> USE <1>2 DEF Enumerates
<1>3. PICK k \in 1 .. Len(D) : f[k] = i
  BY <1>2
<1>4. D # <<>> /\ 1 \in 1 .. Len(D) /\ Len(D) \in 1 .. Len(D)
  BY <1>1, <1>3
<1>5. ASSUME \A j \in 1 .. Len(s) : j < i => s[j] \in S PROVE D[1] = s[i]
  <2>1. f[1] \in 1 .. Len(s) /\ s[f[1]] \notin S
    BY <1>2, <1>4
  <2>2. ~(f[1] < f[k])
    BY <1>3, <1>5, <2>1
  <2>3. ~(1 < k)
    BY <1>2, <1>4, <2>2
  <2>4. k = 1
    BY <1>3, <2>3
  <2> QED BY <1>2, <1>3, <2>4
<1>6. ASSUME \A j \in 1 .. Len(s) : i < j => s[j] \in S PROVE Last(D) = s[i]
  <2>1. f[Len(D)] \in 1 .. Len(s) /\ s[f[Len(D)]] \notin S
    BY <1>2, <1>4
  <2>2. ~(f[k] < f[Len(D)])
    BY <1>3, <1>6, <2>1
  <2>3. ~(k < Len(D))
    BY <1>2, <1>4, <2>2
  <2>4. k = Len(D)
    BY <1>1, <1>3, <2>3
  <2> QED BY <1>2, <1>3, <2>4 DEF Last
<1> QED BY <1>4, <1>5, <1>6 DEF D

LEMMA InsertAtSet ==
    ASSUME NEW S, NEW s \in Seq(S), NEW i \in 1 .. Len(s) + 1, NEW e \in S
    PROVE  /\ InsertAt(s, i, e) \in Seq(S) /\ Len(InsertAt(s, i, e)) = Len(s) + 1
           /\ ToSet(InsertAt(s, i, e)) = ToSet(s) \cup {e}
           /\ IsInjective(s) /\ e \notin ToSet(s) => IsInjective(InsertAt(s, i, e))
<1> DEFINE t == InsertAt(s, i, e)
<1>1. /\ t \in Seq(S) /\ Len(t) = Len(s) + 1
      /\ \A j \in 1 .. Len(s) + 1 : t[j] = IF j < i THEN s[j] ELSE IF j = i THEN e ELSE s[j - 1]
  BY InsertAtProperties
<1> HIDE DEF t
<1>2. Len(s) \in Nat /\ i \in Int
  OBVIOUS
<1>3. ASSUME NEW x \in ToSet(t) PROVE x \in ToSet(s) \cup {e}
  <2>1. PICK j \in 1 .. Len(s) + 1 : t[j] = x
    BY <1>1, <1>3, ToSetOf
  <2>2. CASE j < i
    BY <1>1, <1>2, <2>1, <2>2, ToSetOf
  <2>3. CASE j = i
    BY <1>1, <2>1, <2>3
  <2>4. CASE i < j
    <3>1. j - 1 \in 1 .. Len(s) /\ t[j] = s[j - 1]
      BY <1>1, <1>2, <2>4
    <3> QED BY <2>1, <3>1, ToSetOf
  <2> QED BY <1>2, <2>2, <2>3, <2>4
<1>4. ASSUME NEW x \in ToSet(s) PROVE x \in ToSet(t)
  <2>1. PICK j \in 1 .. Len(s) : s[j] = x
    BY <1>4, ToSetOf
  <2>2. CASE j < i
    <3>1. j \in 1 .. Len(t) /\ t[j] = x
      BY <1>1, <1>2, <2>1, <2>2
    <3> QED BY <1>1, <3>1, ToSetOf
  <2>3. CASE i <= j
    <3>1. j + 1 \in 1 .. Len(t) /\ t[j + 1] = s[(j + 1) - 1] /\ (j + 1) - 1 = j
      BY <1>1, <1>2, <2>3
    <3> QED BY <1>1, <2>1, <3>1, ToSetOf
  <2> QED BY <1>2, <2>2, <2>3
<1>5. e \in ToSet(t)
  <2>1. i \in 1 .. Len(t) /\ t[i] = e
    BY <1>1, <1>2
  <2> QED BY <1>1, <2>1, ToSetOf
<1>6. ASSUME IsInjective(s), e \notin ToSet(s) PROVE IsInjective(t)
  <2> DEFINE b(j) == IF j < i THEN j ELSE j - 1
  <2>1. ASSUME NEW j \in 1 .. Len(t), j # i
        PROVE  b(j) \in 1 .. Len(s) /\ t[j] = s[b(j)] /\ t[j] # e
    <3>1. b(j) \in 1 .. Len(s) /\ t[j] = s[b(j)]
      BY <1>1, <1>2, <2>1
    <3> QED BY <1>6, <3>1, ToSetOf
  <2>2. t[i] = e /\ i \in 1 .. Len(t)
    BY <1>1, <1>2
  <2>3. ASSUME NEW j \in 1 .. Len(t), NEW k \in 1 .. Len(t), t[j] = t[k] PROVE j = k
    <3>1. CASE j = i \/ k = i
      BY <2>1, <2>2, <2>3, <3>1
    <3>2. CASE j # i /\ k # i
      <4>1. s[b(j)] = s[b(k)] /\ b(j) \in 1 .. Len(s) /\ b(k) \in 1 .. Len(s)
        BY <2>1, <2>3, <3>2
      <4>2. b(j) = b(k)
        BY <1>6, <4>1, ToSetOf
      <4> QED BY <1>2, <3>2, <4>2
    <3> QED BY <3>1, <3>2
  <2> QED BY <1>1, <2>3, ToSetOf
<1> QED BY <1>1, <1>3, <1>4, <1>5, <1>6 DEF t

LEMMA RemoveAtSet ==
    ASSUME NEW S, NEW s \in Seq(S), NEW i \in 1 .. Len(s)
    PROVE  /\ RemoveAt(s, i) \in Seq(S) /\ Len(RemoveAt(s, i)) = Len(s) - 1
           /\ ToSet(s) = ToSet(RemoveAt(s, i)) \cup {s[i]}
           /\ IsInjective(s) => /\ IsInjective(RemoveAt(s, i))
                                /\ ToSet(RemoveAt(s, i)) = ToSet(s) \ {s[i]}
<1> DEFINE t == RemoveAt(s, i)
           b(j) == IF j < i THEN j ELSE j + 1
<1>1. /\ t \in Seq(S) /\ Len(t) = Len(s) - 1
      /\ \A j \in 1 .. Len(s) - 1 : t[j] = IF j < i THEN s[j] ELSE s[j + 1]
  BY RemoveAtProperties
<1> HIDE DEF t
<1>2. Len(s) \in Nat /\ i \in Int
  OBVIOUS
<1>3. ASSUME NEW j \in 1 .. Len(t) PROVE b(j) \in 1 .. Len(s) /\ b(j) # i /\ t[j] = s[b(j)]
  BY <1>1, <1>2
<1>4. \A x \in ToSet(t) : \E j \in 1 .. Len(t) : x = s[b(j)]
  BY <1>1, <1>3, ToSetOf
<1>5. ASSUME NEW x \in ToSet(s), x # s[i] PROVE x \in ToSet(t)
  <2>1. PICK j \in 1 .. Len(s) : s[j] = x
    BY <1>5, ToSetOf
  <2>2. CASE j < i
    <3>1. j \in 1 .. Len(t) /\ t[j] = x
      BY <1>1, <1>2, <2>1, <2>2
    <3> QED BY <1>1, <3>1, ToSetOf
  <2>3. CASE i < j
    <3>1. j - 1 \in 1 .. Len(t) /\ t[j - 1] = s[(j - 1) + 1] /\ (j - 1) + 1 = j
      BY <1>1, <1>2, <2>3
    <3> QED BY <1>1, <2>1, <3>1, ToSetOf
  <2>4. j < i \/ i < j
    BY <1>2, <1>5, <2>1
  <2> QED BY <2>2, <2>3, <2>4
<1>6. ToSet(s) = ToSet(t) \cup {s[i]}
  <2>1. ToSet(t) \subseteq ToSet(s)
    BY <1>3, <1>4, ToSetOf
  <2>2. s[i] \in ToSet(s)
    BY ToSetOf
  <2> QED BY <1>5, <2>1, <2>2
<1>7. ASSUME IsInjective(s) PROVE IsInjective(t) /\ ToSet(t) = ToSet(s) \ {s[i]}
  <2>1. ASSUME NEW j \in 1 .. Len(t), NEW k \in 1 .. Len(t), t[j] = t[k] PROVE j = k
    <3>1. s[b(j)] = s[b(k)] /\ b(j) \in 1 .. Len(s) /\ b(k) \in 1 .. Len(s)
      BY <1>3, <2>1
    <3>2. b(j) = b(k)
      BY <1>7, <3>1, ToSetOf
    <3> QED BY <1>2, <3>2
  <2>2. s[i] \notin ToSet(t)
    <3>1. ASSUME NEW j \in 1 .. Len(t), s[b(j)] = s[i] PROVE FALSE
      BY <1>3, <1>7, <3>1, ToSetOf
    <3> QED BY <1>4, <3>1
  <2>3. IsInjective(t)
    BY <1>1, <2>1, ToSetOf
  <2> QED BY <1>6, <2>2, <2>3
<1> QED BY <1>1, <1>6, <1>7 DEF t

LEMMA ReplaceAtProperties ==
    ASSUME NEW S, NEW s \in Seq(S), NEW i \in 1 .. Len(s), NEW e \in S
    PROVE  /\ ReplaceAt(s, i, e) \in Seq(S)
           /\ Len(ReplaceAt(s, i, e)) = Len(s)
           /\ \A j \in 1 .. Len(s) : ReplaceAt(s, i, e)[j] = IF j = i THEN e ELSE s[j]
BY ExceptSeq DEF ReplaceAt

\* The same in one word, for proofs with many sequences at hand.
IsReplacement(t, S, s, i, e) ==
    /\ t \in Seq(S) /\ Len(t) = Len(s)
    /\ \A j \in 1 .. Len(s) : t[j] = IF j = i THEN e ELSE s[j]

LEMMA ReplaceAtIsReplacement ==
    ASSUME NEW S, NEW s \in Seq(S), NEW i \in 1 .. Len(s), NEW e \in S
    PROVE  IsReplacement(ReplaceAt(s, i, e), S, s, i, e)
BY ReplaceAtProperties DEF IsReplacement

LEMMA SameSequence ==
    ASSUME NEW S, NEW s \in Seq(S), NEW t \in Seq(S), Len(s) = Len(t),
           \A i \in 1 .. Len(s) : s[i] = t[i]
    PROVE  s = t
BY SeqEqual

\* An element is replaced and another one removed, in either order.
LEMMA ReplaceAndRemove ==
    ASSUME NEW S, NEW s \in Seq(S), NEW i \in 1 .. Len(s), NEW j \in 1 .. Len(s), i # j,
           NEW e \in S
    PROVE  /\ (IF i < j THEN i ELSE i - 1) \in 1 .. Len(s) - 1
           /\ RemoveAt(ReplaceAt(s, i, e), j)
              = ReplaceAt(RemoveAt(s, j), IF i < j THEN i ELSE i - 1, e)
<1>0. PICK k \in 1 .. Len(s) - 1 : k = IF i < j THEN i ELSE i - 1
  <2>1. (IF i < j THEN i ELSE i - 1) \in 1 .. Len(s) - 1
    OBVIOUS
  <2> QED BY <2>1, Zenon
<1> DEFINE a == ReplaceAt(s, i, e)
           b == RemoveAt(s, j)
           left == RemoveAt(a, j)
           right == ReplaceAt(b, k, e)
<1>1. Len(s) \in Nat /\ k \in 1 .. Len(s) - 1 /\ i \in Int /\ j \in Int
  OBVIOUS
<1>2. a \in Seq(S) /\ Len(a) = Len(s) /\ \A n \in 1 .. Len(s) : a[n] = IF n = i THEN e ELSE s[n]
  BY ReplaceAtProperties
<1>3. /\ b \in Seq(S) /\ Len(b) = Len(s) - 1
      /\ \A n \in 1 .. Len(s) - 1 : b[n] = IF n < j THEN s[n] ELSE s[n + 1]
  BY RemoveAtProperties
<1> HIDE DEF a, b
<1>4. /\ left \in Seq(S) /\ Len(left) = Len(s) - 1
      /\ \A n \in 1 .. Len(s) - 1 : left[n] = IF n < j THEN a[n] ELSE a[n + 1]
  BY <1>2, RemoveAtProperties
<1>5. /\ right \in Seq(S) /\ Len(right) = Len(s) - 1
      /\ \A n \in 1 .. Len(s) - 1 : right[n] = IF n = k THEN e ELSE b[n]
  <2>1. k \in 1 .. Len(b)
    BY <1>1, <1>3
  <2>2. /\ right \in Seq(S) /\ Len(right) = Len(b)
        /\ \A n \in 1 .. Len(b) : right[n] = IF n = k THEN e ELSE b[n]
    <3>1. b \in Seq(S) /\ e \in S
      BY <1>3
    <3>2. IsReplacement(right, S, b, k, e)
      BY <2>1, <3>1, ReplaceAtIsReplacement
    <3> HIDE DEF right
    <3> QED BY <3>2 DEF IsReplacement
  <2> QED BY <1>3, <2>2
<1> HIDE DEF left, right
<1>6. ASSUME NEW n \in 1 .. Len(s) - 1 PROVE left[n] = right[n]
  <2>1. CASE n < j
    <3>1. n \in 1 .. Len(s) /\ (n = i <=> n = k)
      BY <1>0, <1>1, <2>1
    <3>2. left[n] = IF n = i THEN e ELSE s[n]
      BY <1>2, <1>4, <2>1, <3>1
    <3>3. right[n] = IF n = k THEN e ELSE s[n]
      BY <1>3, <1>5, <2>1
    <3> QED BY <3>1, <3>2, <3>3
  <2>2. CASE ~(n < j)
    <3>1. n + 1 \in 1 .. Len(s) /\ (n + 1 = i <=> n = k)
      BY <1>0, <1>1, <2>2
    <3>2. left[n] = IF n + 1 = i THEN e ELSE s[n + 1]
      BY <1>2, <1>4, <2>2, <3>1
    <3>3. right[n] = IF n = k THEN e ELSE s[n + 1]
      BY <1>3, <1>5, <2>2
    <3> QED BY <3>1, <3>2, <3>3
  <2> QED BY <2>1, <2>2
<1>7. left = right
  BY <1>4, <1>5, <1>6, SameSequence
<1> QED BY <1>0, <1>1, <1>7 DEF a, b, left, right

LEMMA ReplaceTwo ==
    ASSUME NEW S, NEW s \in Seq(S), NEW i \in 1 .. Len(s), NEW j \in 1 .. Len(s), i # j,
           NEW e \in S, NEW f \in S
    PROVE  ReplaceAt(ReplaceAt(s, i, e), j, f) = ReplaceAt(ReplaceAt(s, j, f), i, e)
<1> DEFINE a == ReplaceAt(s, i, e)
           b == ReplaceAt(s, j, f)
           left == ReplaceAt(a, j, f)
           right == ReplaceAt(b, i, e)
<1>1. a \in Seq(S) /\ Len(a) = Len(s) /\ \A n \in 1 .. Len(s) : a[n] = IF n = i THEN e ELSE s[n]
  BY ReplaceAtProperties
<1>2. b \in Seq(S) /\ Len(b) = Len(s) /\ \A n \in 1 .. Len(s) : b[n] = IF n = j THEN f ELSE s[n]
  BY ReplaceAtProperties
<1> HIDE DEF a, b
<1>3. /\ left \in Seq(S) /\ Len(left) = Len(s)
      /\ \A n \in 1 .. Len(s) : left[n] = IF n = j THEN f ELSE a[n]
  BY <1>1, ReplaceAtProperties
<1>4. /\ right \in Seq(S) /\ Len(right) = Len(s)
      /\ \A n \in 1 .. Len(s) : right[n] = IF n = i THEN e ELSE b[n]
  BY <1>2, ReplaceAtProperties
<1> HIDE DEF left, right
<1>5. \A n \in 1 .. Len(s) : left[n] = right[n]
  BY <1>1, <1>2, <1>3, <1>4
<1>6. left = right
  BY <1>3, <1>4, <1>5, SameSequence
<1> QED BY <1>6 DEF a, b, left, right

----------------------------------------------------------------------------
(* Recursive functions on 0 .. n: the function that a step r defines is there. *)

Steps(f, n, x0, r) == f[0] = x0 /\ \A k \in 1 .. n : f[k] = r[k][f[k - 1]]

LEMMA Iterated ==
    ASSUME NEW T, NEW n \in Nat, NEW x0 \in T, NEW r \in [1 .. n -> [T -> T]]
    PROVE  \E f \in [0 .. n -> T] : Steps(f, n, x0, r)
<1> DEFINE Has(k) == \E f \in [0 .. k -> T] : Steps(f, k, x0, r)
           S == {k \in Nat : k <= n => Has(k)}
<1>1. 0 \in S
  <2>1. [k \in 0 .. 0 |-> x0] \in [0 .. 0 -> T] /\ Steps([k \in 0 .. 0 |-> x0], 0, x0, r)
    BY DEF Steps
  <2> QED BY <2>1
<1>2. ASSUME NEW k \in Nat, k \in S PROVE k + 1 \in S
  <2> SUFFICES ASSUME k + 1 <= n PROVE Has(k + 1)
    OBVIOUS
  <2>1. PICK f \in [0 .. k -> T] : Steps(f, k, x0, r)
    BY <1>2
  <2> DEFINE y == r[k + 1][f[k]]
             g == [j \in 0 .. k + 1 |-> IF j = k + 1 THEN y ELSE f[j]]
  <2>2. y \in T
    <3>1. k + 1 \in 1 .. n /\ f[k] \in T
      OBVIOUS
    <3>2. r[k + 1] \in [T -> T]
      BY <3>1
    <3> QED BY <3>1, <3>2
  <2>3. g \in [0 .. k + 1 -> T]
    BY <2>2
  <2>4. g[0] = x0
    BY <2>1 DEF Steps
  <2>5. ASSUME NEW j \in 1 .. k + 1 PROVE g[j] = r[j][g[j - 1]]
    <3>1. CASE j = k + 1
      BY <3>1
    <3>2. CASE j # k + 1
      <4>1. j \in 1 .. k /\ g[j] = f[j] /\ g[j - 1] = f[j - 1]
        BY <3>2
      <4> QED BY <2>1, <4>1 DEF Steps
    <3> QED BY <3>1, <3>2
  <2> HIDE DEF g
  <2> QED BY <2>3, <2>4, <2>5 DEF Steps
<1> HIDE DEF S
<1>3. Nat \subseteq S
  BY <1>1, <1>2, Counting
<1> QED BY <1>3 DEF S

\* The windows of a list of columns.
LEMMA FlattenGood ==
    ASSUME NEW W, NEW s \in Seq(Seq(W))
    PROVE  FlattenSeq(s) \in Seq(W)
<1> DEFINE n == Len(s)
           r == [i \in 1 .. n |-> [x \in Seq(W) |-> IF i = 1 THEN s[i] ELSE x \o s[i]]]
           IsFlat(f) == f = [i \in 1 .. n |-> IF i = 1 THEN s[i] ELSE f[i - 1] \o s[i]]
           g == CHOOSE f : IsFlat(f)
<1>1. n \in Nat /\ \A i \in 1 .. n : s[i] \in Seq(W)
  BY ElementOfSeq
<1>2. CASE n = 0
  <2>1. s = <<>>
    BY <1>2, EmptySeq
  <2> QED BY <2>1, <1>2 DEF FlattenSeq
<1>3. CASE n # 0
  <2>1. r \in [1 .. n -> [Seq(W) -> Seq(W)]]
    <3>1. ASSUME NEW i \in 1 .. n, NEW x \in Seq(W)
          PROVE  (IF i = 1 THEN s[i] ELSE x \o s[i]) \in Seq(W)
      BY <1>1
    <3> HIDE DEF n
    <3> QED BY <3>1
  <2>2. <<>> \in Seq(W)
    OBVIOUS
  <2>3. PICK f \in [0 .. n -> Seq(W)] : Steps(f, n, <<>>, r)
    <3> HIDE DEF n, r
    <3> QED BY <1>1, <2>1, <2>2, Iterated
  <2> DEFINE h == [i \in 1 .. n |-> f[i]]
  <2>4. ASSUME NEW i \in 1 .. n PROVE h[i] = IF i = 1 THEN s[i] ELSE h[i - 1] \o s[i]
    <3>1. f[i] = r[i][f[i - 1]] /\ f[i - 1] \in Seq(W)
      <4>1. i - 1 \in 0 .. n
        BY <1>1
      <4> HIDE DEF r, n
      <4> QED BY <2>3, <4>1 DEF Steps
    <3>2. f[i] = IF i = 1 THEN s[i] ELSE f[i - 1] \o s[i]
      BY <3>1
    <3> QED BY <3>2
  <2>5. IsFlat(h)
    BY <2>4
  <2> HIDE DEF h
  <2>6. IsFlat(g)
    <3>1. \E e : IsFlat(e)
      BY <2>5
    <3> HIDE DEF IsFlat
    <3> QED BY <3>1
  <2>7. FlattenSeq(s) = g[n]
    BY <1>3 DEF FlattenSeq
  <2> HIDE DEF g
  <2> DEFINE S == {i \in Nat : i + 1 <= n => g[i + 1] \in Seq(W)}
  <2>8. \A i \in 1 .. n : g[i] = IF i = 1 THEN s[i] ELSE g[i - 1] \o s[i]
    BY <2>6
  <2>9. 0 \in S
    <3>1. 1 \in 1 .. n
      BY <1>1, <1>3
    <3>2. g[1] = s[1] /\ s[1] \in Seq(W)
      BY <1>1, <2>8, <3>1
    <3>3. 0 + 1 = 1
      OBVIOUS
    <3> QED BY <3>2, <3>3
  <2>10. ASSUME NEW i \in Nat, i \in S PROVE i + 1 \in S
    <3> SUFFICES ASSUME i + 2 <= n PROVE g[i + 2] \in Seq(W)
      OBVIOUS
    <3>1. g[i + 1] \in Seq(W) /\ s[i + 2] \in Seq(W)
      BY <1>1, <2>10
    <3>2. g[i + 2] = g[i + 1] \o s[i + 2]
      <4> DEFINE k == i + 2
      <4>1. k \in 1 .. n /\ k # 1 /\ k - 1 = i + 1
        BY <1>1
      <4> HIDE DEF k
      <4>2. g[k] = g[k - 1] \o s[k]
        BY <2>8, <4>1
      <4> QED BY <4>1, <4>2 DEF k
    <3> QED BY <3>1, <3>2
  <2> HIDE DEF S
  <2>11. Nat \subseteq S
    BY <2>9, <2>10, Counting
  <2>12. n - 1 \in S
    BY <1>1, <1>3, <2>11
  <2> QED BY <1>1, <2>7, <2>12 DEF S
<1> QED BY <1>2, <1>3

\* A sequence without repetition is as long as its set is large.
LEMMA InjectiveLength ==
    ASSUME NEW S, NEW s \in Seq(S), IsInjective(s)
    PROVE  IsFiniteSet(ToSet(s)) /\ Cardinality(ToSet(s)) = Len(s)
<1> DEFINE I == 1 .. Len(s)
           T == ToSet(s)
<1>1. IsFiniteSet(I) /\ Cardinality(I) = Len(s)
  <2> DEFINE n == Len(s)
  <2>1. n \in Nat /\ 1 \in Int
    OBVIOUS
  <2> HIDE DEF n
  <2>2. IsFiniteSet(1 .. n) /\ Cardinality(1 .. n) = IF 1 > n THEN 0 ELSE n - 1 + 1
    BY <2>1, FS_Interval
  <2>3. Cardinality(1 .. n) = n
    BY <2>1, <2>2
  <2> QED BY <2>2, <2>3 DEF n
<1>2. /\ \A x : x \in T <=> \E i \in I : s[i] = x
      /\ \A i, j \in I : s[i] = s[j] => i = j
      /\ DOMAIN s = I /\ s = [i \in I |-> s[i]]
  BY ToSetOf
<1> HIDE DEF I, T
<1>3. s \in [I -> T]
  BY <1>2
<1>4. s \in Bijection(I, T)
  BY <1>2, <1>3 DEF Bijection, Injection, Surjection, IsInjective
<1>5. ExistsBijection(I, T)
  BY <1>4 DEF ExistsBijection
<1>6. IsFiniteSet(T) /\ Cardinality(T) = Cardinality(I)
  BY <1>1, <1>5, FS_Bijection
<1> QED BY <1>1, <1>6 DEF T

\* An element of the sequence goes to another place in it.
LEMMA MovedProperties ==
    ASSUME NEW S, NEW s \in Seq(S), IsInjective(s), NEW x \in ToSet(s), NEW at \in 1 .. Len(s)
    PROVE  LET t == InsertAt(Without(s, x), at, x)
           IN  t \in Seq(S) /\ IsInjective(t) /\ ToSet(t) = ToSet(s)
<1> DEFINE r == Without(s, x)
           t == InsertAt(r, at, x)
<1>1. r \in Seq(S) /\ ToSet(r) = ToSet(s) \ {x} /\ IsInjective(r)
  BY DroppedSet DEF Without
<1> HIDE DEF r
<1>2. /\ IsFiniteSet(ToSet(s)) /\ Cardinality(ToSet(s)) = Len(s)
      /\ Cardinality(ToSet(r)) = Len(r)
  BY <1>1, InjectiveLength
<1>3. Cardinality(ToSet(s) \ {x}) = Cardinality(ToSet(s)) - 1
  BY <1>2, FS_RemoveElement
<1>4. Len(r) = Len(s) - 1
  BY <1>1, <1>2, <1>3
<1>5. at \in 1 .. Len(r) + 1 /\ x \in S
  BY <1>4, ToSetOf
<1>6. x \notin ToSet(r)
  BY <1>1
<1>7. t \in Seq(S) /\ ToSet(t) = ToSet(r) \cup {x} /\ IsInjective(t)
  BY <1>1, <1>5, <1>6, InsertAtSet
<1>8. ToSet(r) \cup {x} = ToSet(s)
  BY <1>1
<1> QED BY <1>7, <1>8 DEF t, r
=============================================================================
