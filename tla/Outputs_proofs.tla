--------------------------- MODULE Outputs_proofs ---------------------------
(***************************************************************************)
(* Proofs about outputs that come and go.  First the inductive invariant   *)
(* of module Outputs, for any outputs, windows and names, any number of    *)
(* outputs away, and with or without the last output going.  Then a second *)
(* one, with one output away at a time and never the last, for what fails  *)
(* without these two hypotheses: no window is lost, no identity is doubled *)
(* Then, step by step, that Outputs implements Homes.                      *)
(***************************************************************************)
EXTENDS OutputsProps, SeqLemmas

----------------------------------------------------------------------------
(* Stacks. *)

\* A stack as the engine keeps it: workspaces, no key twice.
GoodStack(s) ==
    /\ s \in Seq(WorkspaceType)
    /\ \A i, j \in 1 .. Len(s) : s[i].key = s[j].key => i = j

LEMMA RangeOf ==
    ASSUME NEW S, NEW s \in Seq(S)
    PROVE  /\ Range(s) = ToSet(s) /\ Range(s) \subseteq S
           /\ \A x : x \in Range(s) <=> \E i \in 1 .. Len(s) : s[i] = x
           /\ \A i \in 1 .. Len(s) : s[i] \in Range(s)
           /\ s = <<>> <=> Range(s) = {}
<1>1. Range(s) = ToSet(s)
  BY DEF Range, ToSet
<1>2. DOMAIN s = 1 .. Len(s) /\ Len(s) \in Nat
  OBVIOUS
<1>3. s = <<>> => Range(s) = {}
  BY DEF Range
<1>4. s # <<>> => s[1] \in Range(s)
  BY <1>2 DEF Range
<1> QED BY <1>1, <1>3, <1>4, ToSetOf

LEMMA Fields ==
    ASSUME NEW x \in WorkspaceType
    PROVE  /\ x.key \in Nat /\ x.id \in Nat /\ x.name \in Names \cup {NoName} /\ x.wins \subseteq Windows
           /\ x = [key |-> x.key, id |-> x.id, name |-> x.name, wins |-> x.wins]
BY DEF WorkspaceType

LEMMA StackFacts ==
    ASSUME NEW s, GoodStack(s)
    PROVE  /\ \A x \in Range(s) : x \in WorkspaceType /\ x.key \in Nat /\ x.id \in Nat
           /\ \A x, y \in Range(s) : x.key = y.key => x = y
           /\ \A k : k \in Keys(s) <=> \E x \in Range(s) : x.key = k
           /\ \A x \in Range(s) : x.key \in Keys(s) /\ At(s, x.key) = x
           /\ \A k \in Keys(s) : k \in Nat /\ At(s, k) \in Range(s) /\ At(s, k).key = k
           /\ s = <<>> <=> Keys(s) = {}
<1>1. s \in Seq(WorkspaceType) /\ DOMAIN s = 1 .. Len(s)
  BY DEF GoodStack
<1>2. \A x \in Range(s) : x \in WorkspaceType /\ x.key \in Nat /\ x.id \in Nat
  BY <1>1, RangeOf, Fields
<1>3. \A x, y \in Range(s) : x.key = y.key => x = y
  BY <1>1, RangeOf DEF GoodStack
<1>4. \A k : k \in Keys(s) <=> \E x \in Range(s) : x.key = k
  BY DEF Keys, Range
<1>5. ASSUME NEW i \in 1 .. Len(s) PROVE At(s, s[i].key) = s[i]
  <2> DEFINE j == PlaceOf(s, s[i].key)
  <2>1. j \in DOMAIN s /\ s[j].key = s[i].key
    BY <1>1 DEF PlaceOf
  <2> QED BY <1>1, <2>1 DEF GoodStack, At
<1>6. \A x \in Range(s) : x.key \in Keys(s) /\ At(s, x.key) = x
  BY <1>1, <1>4, <1>5, RangeOf
<1>7. \A k \in Keys(s) : k \in Nat /\ At(s, k) \in Range(s) /\ At(s, k).key = k
  BY <1>2, <1>4, <1>6
<1>8. s = <<>> <=> Range(s) = {}
  BY <1>1, RangeOf
<1> QED BY <1>2, <1>3, <1>4, <1>6, <1>7, <1>8

\* From the set of its workspaces: what it takes for a sequence to be a good stack.
LEMMA StackByKeys ==
    ASSUME NEW s \in Seq(WorkspaceType), IsInjective(s),
           \A x, y \in Range(s) : x.key = y.key => x = y
    PROVE  GoodStack(s)
<1>1. \A i, j \in 1 .. Len(s) : s[i] = s[j] => i = j
  BY ToSetOf
<1> QED BY <1>1, RangeOf DEF GoodStack

LEMMA StackIsInjective ==
    ASSUME NEW s, GoodStack(s)
    PROVE  s \in Seq(WorkspaceType) /\ IsInjective(s)
BY ToSetOf DEF GoodStack

LEMMA CountKeys ==
    ASSUME NEW s, GoodStack(s)
    PROVE  Cardinality(Keys(s)) = Len(s) /\ IsFiniteSet(Keys(s)) /\ Keys(s) \subseteq Nat
<1> DEFINE k == [i \in 1 .. Len(s) |-> s[i].key]
<1>1. s \in Seq(WorkspaceType) /\ DOMAIN s = 1 .. Len(s) /\ Len(s) \in Nat
  BY DEF GoodStack
<1>2. \A i \in 1 .. Len(s) : s[i].key \in Nat
  BY <1>1, Fields
<1>3. k \in Seq(Nat) /\ Len(k) = Len(s)
  BY <1>1, <1>2
<1>4. IsInjective(k)
  BY <1>1 DEF GoodStack, IsInjective
<1>5. ToSet(k) = Keys(s)
  BY <1>1 DEF ToSet, Keys
<1> HIDE DEF k
<1>6. IsFiniteSet(ToSet(k)) /\ Cardinality(ToSet(k)) = Len(k)
  BY <1>3, <1>4, InjectiveLength
<1>7. Keys(s) \subseteq Nat
  BY StackFacts
<1> QED BY <1>3, <1>5, <1>6, <1>7

LEMMA KeysAreBounded ==
    ASSUME NEW s, GoodStack(s)
    PROVE  \E n \in Nat : \A k \in Keys(s) : k <= n
<1> DEFINE B == {n \in Nat : \E b \in Nat : \A i \in 1 .. Len(s) : i <= n => s[i].key <= b}
<1>1. DOMAIN s = 1 .. Len(s) /\ Len(s) \in Nat /\ \A i \in 1 .. Len(s) : s[i].key \in Nat
  BY RangeOf, StackFacts DEF GoodStack
<1>2. 0 \in B
  <2>1. \A i \in 1 .. Len(s) : i <= 0 => s[i].key <= 0
    BY <1>1
  <2> QED BY <2>1
<1>3. ASSUME NEW n \in Nat, n \in B PROVE n + 1 \in B
  <2>1. PICK b \in Nat : \A i \in 1 .. Len(s) : i <= n => s[i].key <= b
    BY <1>3
  <2>2. CASE n + 1 \in 1 .. Len(s)
    <3> DEFINE c == b + s[n + 1].key
    <3>1. c \in Nat /\ b <= c /\ s[n + 1].key <= c
      BY <1>1, <2>2
    <3>2. \A i \in 1 .. Len(s) : i <= n + 1 => i <= n \/ i = n + 1
      BY <1>1
    <3>3. \A i \in 1 .. Len(s) : i <= n + 1 => s[i].key <= c
      BY <1>1, <2>1, <3>1, <3>2
    <3> HIDE DEF c
    <3>4. \E d \in Nat : \A i \in 1 .. Len(s) : i <= n + 1 => s[i].key <= d
      BY <3>1, <3>3
    <3>5. n + 1 \in Nat
      OBVIOUS
    <3> QED BY <3>4, <3>5, Zenon
  <2>3. CASE n + 1 \notin 1 .. Len(s)
    BY <1>1, <2>1, <2>3
  <2> QED BY <2>2, <2>3
<1> HIDE DEF B
<1>4. Nat \subseteq B
  BY <1>2, <1>3, Counting
<1>5. Len(s) \in B
  BY <1>1, <1>4
<1>6. PICK b \in Nat : \A i \in 1 .. Len(s) : i <= Len(s) => s[i].key <= b
  BY <1>5 DEF B
<1>7. \A i \in 1 .. Len(s) : s[i].key <= b
  BY <1>1, <1>6
<1> QED BY <1>1, <1>7 DEF Keys

\* A free key is above all others.
LEMMA NextKeyIsFree ==
    ASSUME NEW s, GoodStack(s)
    PROVE  NextKey(s) \in Nat /\ \A k \in Keys(s) : k < NextKey(s)
<1>1. CASE s = <<>>
  BY <1>1, StackFacts DEF NextKey
<1>2. CASE s # <<>>
  <2>1. Keys(s) # {} /\ IsFiniteSet(Keys(s)) /\ Keys(s) \in SUBSET Nat
    BY <1>2, StackFacts, CountKeys
  <2>2. \E n \in Nat : \A k \in Keys(s) : k <= n
    BY KeysAreBounded
  <2>3. Max(Keys(s)) \in Keys(s) /\ \A k \in Keys(s) : k <= Max(Keys(s))
    BY <2>1, <2>2, MaxOfSet
  <2>4. Max(Keys(s)) \in Nat
    BY <2>1, <2>3
  <2>5. NextKey(s) = Max(Keys(s)) + 1
    BY <1>2 DEF NextKey
  <2> QED BY <2>1, <2>3, <2>4, <2>5
<1> QED BY <1>1, <1>2

LEMMA DropStack ==
    ASSUME NEW s, GoodStack(s), NEW S
    PROVE  GoodStack(Dropped(s, S)) /\ Range(Dropped(s, S)) = Range(s) \ S
<1>1. s \in Seq(WorkspaceType) /\ IsInjective(s)
  BY StackIsInjective
<1> DEFINE d == Dropped(s, S)
<1>2. d \in Seq(WorkspaceType) /\ ToSet(d) = ToSet(s) \ S /\ IsInjective(d)
  BY <1>1, DroppedSet
<1> HIDE DEF d
<1>3. Range(d) = Range(s) \ S
  BY <1>1, <1>2, RangeOf
<1>4. \A x, y \in Range(d) : x.key = y.key => x = y
  BY <1>3, StackFacts
<1>5. GoodStack(d)
  BY <1>2, <1>4, StackByKeys
<1> QED BY <1>3, <1>5 DEF d

\* A change of the workspaces that leaves each its key.
LEMMA MapStack ==
    ASSUME NEW s, GoodStack(s), NEW t, t = [i \in DOMAIN s |-> t[i]],
           \A i \in 1 .. Len(s) : t[i] \in WorkspaceType /\ t[i].key = s[i].key
    PROVE  /\ GoodStack(t) /\ Len(t) = Len(s) /\ Keys(t) = Keys(s)
           /\ \A x : x \in Range(t) <=> \E i \in 1 .. Len(s) : t[i] = x
<1>1. DOMAIN s = 1 .. Len(s) /\ Len(s) \in Nat
  BY DEF GoodStack
<1>2. t \in Seq(WorkspaceType) /\ Len(t) = Len(s) /\ DOMAIN t = DOMAIN s
  BY <1>1
<1>3. GoodStack(t)
  BY <1>1, <1>2 DEF GoodStack
<1>4. Keys(t) = Keys(s)
  BY <1>1, <1>2 DEF Keys
<1> QED BY <1>2, <1>3, <1>4, RangeOf

LEMMA SplicedSet ==
    ASSUME NEW S, NEW s \in Seq(S), NEW b \in Seq(S), NEW p \in 1 .. Len(s) + 1
    PROVE  /\ Spliced(s, p, b) \in Seq(S)
           /\ Range(Spliced(s, p, b)) = Range(s) \cup Range(b)
           /\ IsInjective(s) /\ IsInjective(b) /\ Range(s) \cap Range(b) = {} => IsInjective(Spliced(s, p, b))
<1>0. PICK l \in Nat, n \in Nat, m \in Nat, k \in Nat, q \in Nat :
          l = Len(s) /\ n = Len(b) /\ m = p - 1 /\ k = l - m /\ q = m + n
  OBVIOUS
<1>1. l = m + k /\ l + n = q + k /\ q = m + n /\ p = m + 1
  BY <1>0
<1> DEFINE a == SubSeq(s, 1, p - 1)
           c == SubSeq(s, p, Len(s))
<1>2. a \in Seq(S) /\ Len(a) = m /\ \A j \in 1 .. m : a[j] = s[j]
  BY <1>0, <1>1
<1>3. c \in Seq(S) /\ Len(c) = k /\ \A j \in 1 .. k : c[j] = s[m + j]
  BY <1>0, <1>1
<1> HIDE DEF a, c
<1> DEFINE ab == a \o b
           t == ab \o c
<1>4. /\ ab \in Seq(S) /\ Len(ab) = q
      /\ \A j \in 1 .. q : j <= m => ab[j] = a[j]
      /\ \A j \in 1 .. q : j > m => ab[j] = b[j - m]
  <2>1. b \in Seq(S) /\ Len(b) = n
    BY <1>0
  <2>2. /\ ab \in Seq(S) /\ Len(ab) = m + n
        /\ \A j \in 1 .. m + n : j <= m => ab[j] = a[j]
        /\ \A j \in 1 .. m + n : j > m => ab[j] = b[j - m]
    <3>1. a \o b \in Seq(S) /\ Len(a \o b) = Len(a) + Len(b)
      BY <1>2, <2>1, ConcatProperties
    <3>2. \A j \in 1 .. Len(a) + Len(b) : (a \o b)[j] = IF j <= Len(a) THEN a[j] ELSE b[j - Len(a)]
      BY <1>2, <2>1, ConcatProperties
    <3>3. ab = a \o b
      OBVIOUS
    <3> HIDE DEF ab
    <3> QED BY <1>2, <2>1, <3>1, <3>2, <3>3
  <2> HIDE DEF ab
  <2> QED BY <1>1, <2>2
<1> HIDE DEF ab
<1>5. /\ t \in Seq(S) /\ Len(t) = l + n
      /\ \A j \in 1 .. l + n : j <= q => t[j] = ab[j]
      /\ \A j \in 1 .. l + n : j > q => t[j] = c[j - q]
  <2>2. /\ t \in Seq(S) /\ Len(t) = q + k
        /\ \A j \in 1 .. q + k : j <= q => t[j] = ab[j]
        /\ \A j \in 1 .. q + k : j > q => t[j] = c[j - q]
    <3>1. ab \o c \in Seq(S) /\ Len(ab \o c) = Len(ab) + Len(c)
      BY <1>3, <1>4, ConcatProperties
    <3>2. \A j \in 1 .. Len(ab) + Len(c) : (ab \o c)[j] = IF j <= Len(ab) THEN ab[j] ELSE c[j - Len(ab)]
      BY <1>3, <1>4, ConcatProperties
    <3>3. t = ab \o c
      OBVIOUS
    <3> HIDE DEF t
    <3> QED BY <1>3, <1>4, <3>1, <3>2, <3>3, SMTT(30)
  <2> HIDE DEF t
  <2> QED BY <1>1, <2>2
<1>10. t = Spliced(s, p, b)
  BY DEF t, ab, a, c, Spliced
<1> HIDE DEF t
<1>7. \A j \in 1 .. l + n : j <= m => t[j] = s[j] /\ j \in 1 .. l
  BY <1>1, <1>2, <1>4, <1>5
<1>8. \A j \in 1 .. l + n : j > m /\ j <= q => t[j] = b[j - m] /\ j - m \in 1 .. n
  BY <1>1, <1>4, <1>5
<1>9. \A j \in 1 .. l + n : j > q => t[j] = s[j - n] /\ j - n \in 1 .. l /\ j - n > m
  <2>1. ASSUME NEW j \in 1 .. l + n, j > q
        PROVE  t[j] = s[j - n] /\ j - n \in 1 .. l /\ j - n > m
    <3>1. \E i \in 1 .. k : i = j - q /\ m + i = j - n
      BY <1>1, <2>1
    <3>2. PICK i \in 1 .. k : i = j - q /\ m + i = j - n
      BY <3>1
    <3>3. t[j] = c[i] /\ c[i] = s[m + i]
      BY <1>3, <1>5, <2>1, <3>2
    <3>4. m + i \in 1 .. l /\ m + i > m
      BY <1>1
    <3> QED BY <3>2, <3>3, <3>4
  <2> QED BY <2>1
<1>11. ASSUME NEW x \in Range(t) PROVE x \in Range(s) \cup Range(b)
  <2>1. PICK j \in 1 .. l + n : t[j] = x
    BY <1>5, RangeOf
  <2>2. CASE j <= m
    BY <1>0, <1>7, <2>1, <2>2, RangeOf
  <2>3. CASE j > m /\ j <= q
    BY <1>0, <1>8, <2>1, <2>3, RangeOf
  <2>4. CASE j > q
    BY <1>0, <1>9, <2>1, <2>4, RangeOf
  <2> QED BY <1>1, <2>2, <2>3, <2>4
<1>12. ASSUME NEW x \in Range(s) PROVE x \in Range(t)
  <2>1. PICK i \in 1 .. l : s[i] = x
    BY <1>0, RangeOf
  <2>2. CASE i <= m
    <3>1. i \in 1 .. l + n
      OBVIOUS
    <3> QED BY <1>5, <1>7, <2>1, <2>2, <3>1, RangeOf
  <2>3. CASE i > m
    <3>1. \E j \in 1 .. l + n : j > q /\ j - n = i
      BY <1>1, <2>3
    <3>2. PICK j \in 1 .. l + n : j > q /\ j - n = i
      BY <3>1
    <3>3. t[j] = x
      BY <1>9, <2>1, <3>2
    <3> QED BY <1>5, <3>3, RangeOf
  <2> QED BY <1>0, <2>2, <2>3
<1>13. ASSUME NEW x \in Range(b) PROVE x \in Range(t)
  <2>1. PICK i \in 1 .. n : b[i] = x
    BY <1>0, RangeOf
  <2>2. \E j \in 1 .. l + n : j > m /\ j <= q /\ j - m = i
    BY <1>1
  <2>3. PICK j \in 1 .. l + n : j > m /\ j <= q /\ j - m = i
    BY <2>2
  <2>4. t[j] = x
    BY <1>8, <2>1, <2>3
  <2> QED BY <1>5, <2>4, RangeOf
<1>14. ASSUME IsInjective(s), IsInjective(b), Range(s) \cap Range(b) = {} PROVE IsInjective(t)
  <2>1. \A i, j \in 1 .. l : s[i] = s[j] => i = j
    BY <1>0, <1>14, ToSetOf
  <2>2. \A i, j \in 1 .. n : b[i] = b[j] => i = j
    BY <1>0, <1>14, ToSetOf
  <2>3. \A i \in 1 .. l, j \in 1 .. n : s[i] # b[j]
    BY <1>0, <1>14, RangeOf
  <2>4. ASSUME NEW i \in 1 .. l + n, NEW j \in 1 .. l + n, i < j, t[i] = t[j] PROVE FALSE
    <3>1. CASE j <= m
      BY <1>7, <2>1, <2>4, <3>1
    <3>2. CASE j > m /\ j <= q /\ i <= m
      BY <1>7, <1>8, <2>3, <2>4, <3>2
    <3>3. CASE j > m /\ j <= q /\ i > m
      <4>1. i <= q /\ i - m # j - m
        BY <2>4, <3>3
      <4> QED BY <1>8, <2>2, <2>4, <3>3, <4>1
    <3>4. CASE j > q /\ i <= m
      <4>1. i # j - n
        BY <1>0, <1>9, <3>4
      <4> QED BY <1>7, <1>9, <2>1, <2>4, <3>4, <4>1
    <3>5. CASE j > q /\ i > m /\ i <= q
      BY <1>8, <1>9, <2>3, <2>4, <3>5
    <3>6. CASE j > q /\ i > q
      <4>1. i - n # j - n
        BY <2>4
      <4> QED BY <1>9, <2>1, <2>4, <3>6, <4>1
    <3> QED BY <3>1, <3>2, <3>3, <3>4, <3>5, <3>6
  <2>5. \A i, j \in 1 .. l + n : t[i] = t[j] => i = j
    <3> SUFFICES ASSUME NEW i \in 1 .. l + n, NEW j \in 1 .. l + n, t[i] = t[j], i # j PROVE FALSE
      OBVIOUS
    <3>1. i < j \/ j < i
      OBVIOUS
    <3> QED BY <2>4, <3>1
  <2> QED BY <1>5, <2>5, ToSetOf
<1>15. Range(t) = Range(s) \cup Range(b)
  BY <1>11, <1>12, <1>13
<1> QED BY <1>5, <1>10, <1>14, <1>15

\* A block that has other keys is put into a stack.
LEMMA SpliceStack ==
    ASSUME NEW s, GoodStack(s), NEW b, GoodStack(b), NEW p \in 1 .. Len(s) + 1, Keys(s) \cap Keys(b) = {}
    PROVE  /\ GoodStack(Spliced(s, p, b))
           /\ Range(Spliced(s, p, b)) = Range(s) \cup Range(b)
           /\ Keys(Spliced(s, p, b)) = Keys(s) \cup Keys(b)
<1> DEFINE t == Spliced(s, p, b)
<1>1. s \in Seq(WorkspaceType) /\ IsInjective(s) /\ b \in Seq(WorkspaceType) /\ IsInjective(b)
  BY StackIsInjective
<1>2. \A x \in Range(s), y \in Range(b) : x.key # y.key
  BY StackFacts
<1>3. Range(s) \cap Range(b) = {}
  BY <1>2
<1>4. t \in Seq(WorkspaceType) /\ Range(t) = Range(s) \cup Range(b) /\ IsInjective(t)
  BY <1>1, <1>3, SplicedSet
<1> HIDE DEF t
<1>5. \A x, y \in Range(t) : x.key = y.key => x = y
  BY <1>2, <1>4, StackFacts
<1>6. GoodStack(t)
  BY <1>4, <1>5, StackByKeys
<1>7. Keys(t) = Keys(s) \cup Keys(b)
  BY <1>4, <1>6, StackFacts
<1> QED BY <1>4, <1>6, <1>7 DEF t

LEMMA RemoveStack ==
    ASSUME NEW s, GoodStack(s), NEW i \in 1 .. Len(s)
    PROVE  GoodStack(RemoveAt(s, i)) /\ Range(RemoveAt(s, i)) = Range(s) \ {s[i]}
<1>1. s \in Seq(WorkspaceType) /\ IsInjective(s)
  BY StackIsInjective
<1> DEFINE d == RemoveAt(s, i)
<1>2. d \in Seq(WorkspaceType) /\ ToSet(d) = ToSet(s) \ {s[i]} /\ IsInjective(d)
  BY <1>1, RemoveAtSet
<1> HIDE DEF d
<1>3. Range(d) = Range(s) \ {s[i]}
  BY <1>1, <1>2, RangeOf
<1>4. \A x, y \in Range(d) : x.key = y.key => x = y
  BY <1>3, StackFacts
<1>5. GoodStack(d)
  BY <1>2, <1>4, StackByKeys
<1> QED BY <1>3, <1>5 DEF d

----------------------------------------------------------------------------
(* Outputs and records. *)

\* An output in the middle of a step: it may show a workspace that is gone.
GoodOutput(m) ==
    /\ m = [stack |-> m.stack, active |-> m.active]
    /\ GoodStack(m.stack)
    /\ m.active \in Nat

GoodMon(ms) ==
    /\ ms = [o \in DOMAIN ms |-> ms[o]]
    /\ DOMAIN ms \subseteq Outputs /\ IsFiniteSet(DOMAIN ms)
    /\ \A o \in DOMAIN ms : GoodOutput(ms[o])

Shows(m) == m.active \in Keys(m.stack)

GoodRecord(r) ==
    /\ r = [stack |-> r.stack, active |-> r.active, host |-> r.host, moved |-> r.moved, minimized |-> r.minimized]
    /\ GoodStack(r.stack)
    /\ r.host \in Outputs \cup {NoOutput}
    /\ r.moved \in Seq(Nat \X Nat)

GoodAway(aw) ==
    /\ aw = [g \in DOMAIN aw |-> aw[g]]
    /\ DOMAIN aw \subseteq Outputs /\ IsFiniteSet(DOMAIN aw)
    /\ \A g \in DOMAIN aw : GoodRecord(aw[g])

LEMMA FiniteImage ==
    ASSUME NEW S, IsFiniteSet(S), NEW f, f = [x \in S |-> f[x]]
    PROVE  IsFiniteSet({f[x] : x \in S})
<1> DEFINE T == {f[x] : x \in S}
<1>1. f \in Surjection(S, T)
  BY DEF Surjection
<1> HIDE DEF T
<1>2. IsFiniteSet(T)
  BY <1>1, FS_Surjection
<1> QED BY <1>2 DEF T

LEMMA FiniteStack ==
    ASSUME NEW s, GoodStack(s)
    PROVE  IsFiniteSet(Range(s))
BY StackIsInjective, InjectiveLength, RangeOf

LEMMA FiniteStacks ==
    ASSUME NEW f, IsFiniteSet(DOMAIN f), \A o \in DOMAIN f : GoodStack(f[o].stack)
    PROVE  IsFiniteSet(Within(f))
<1> DEFINE r == [o \in DOMAIN f |-> Range(f[o].stack)]
           S == {r[o] : o \in DOMAIN f}
<1>1. IsFiniteSet(S)
  <2>1. r = [o \in DOMAIN f |-> r[o]]
    OBVIOUS
  <2> HIDE DEF r
  <2> QED BY <2>1, FiniteImage
<1>2. \A T \in S : IsFiniteSet(T)
  BY FiniteStack
<1>3. S = {Range(f[o].stack) : o \in DOMAIN f}
  OBVIOUS
<1> HIDE DEF S
<1>4. IsFiniteSet(UNION S)
  BY <1>1, <1>2, FS_UNION
<1> QED BY <1>3, <1>4 DEF Within

LEMMA IdentitiesOf ==
    ASSUME NEW ms, NEW aw
    PROVE  \A id : id \in Identities(ms, aw) <=>
              \/ \E o \in DOMAIN ms : \E x \in Range(ms[o].stack) : x.id = id
              \/ \E g \in DOMAIN aw : \E x \in Range(aw[g].stack) : x.id = id
BY DEF Identities, Within

LEMMA FiniteIdentities ==
    ASSUME NEW ms, NEW aw, GoodMon(ms), GoodAway(aw)
    PROVE  IsFiniteSet(Identities(ms, aw)) /\ Identities(ms, aw) \subseteq Nat
<1> DEFINE L == Within(ms)
           A == Within(aw)
           id == [x \in L \cup A |-> x.id]
<1>1. \A o \in DOMAIN ms : GoodStack(ms[o].stack)
  BY DEF GoodMon, GoodOutput
<1>2. \A g \in DOMAIN aw : GoodStack(aw[g].stack)
  BY DEF GoodAway, GoodRecord
<1>3. IsFiniteSet(L) /\ IsFiniteSet(A)
  BY <1>1, <1>2, FiniteStacks DEF GoodMon, GoodAway
<1>4. IsFiniteSet(L \cup A)
  <2> HIDE DEF L, A
  <2> QED BY <1>3, FS_Union
<1>5. IsFiniteSet({id[x] : x \in L \cup A})
  <2>1. id = [x \in L \cup A |-> id[x]]
    OBVIOUS
  <2> HIDE DEF L, A, id
  <2> QED BY <1>4, <2>1, FiniteImage
<1>6. Identities(ms, aw) = {id[x] : x \in L \cup A}
  <2>1. Identities(ms, aw) = {x.id : x \in L \cup A}
    BY DEF Identities
  <2> HIDE DEF L, A
  <2> QED BY <2>1
<1>7. Identities(ms, aw) \subseteq Nat
  BY <1>1, <1>2, IdentitiesOf, StackFacts
<1> QED BY <1>5, <1>6, <1>7

\* There is always an identity that nothing has (NEXT_ID).
LEMMA FreshIdIsFree ==
    ASSUME NEW ms, NEW aw, GoodMon(ms), GoodAway(aw), GoodMon(mon), GoodAway(away)
    PROVE  /\ FreshId(ms, aw) \in Nat
           /\ FreshId(ms, aw) \notin Identities(ms, aw)
           /\ FreshId(ms, aw) \notin Identities(mon, away)
<1> DEFINE used == Identities(ms, aw) \cup Identities(mon, away)
           n == Cardinality(used)
           free == (1 .. n + 1) \ used
<1>1. IsFiniteSet(used) /\ n \in Nat
  <2>1. IsFiniteSet(used)
    BY FiniteIdentities, FS_Union
  <2> HIDE DEF used
  <2> QED BY <2>1, FS_CardinalityType
<1>2. FreshId(ms, aw) = Min(free)
  BY DEF FreshId
<1>3. free # {}
  <2> SUFFICES ASSUME 1 .. n + 1 \subseteq used PROVE FALSE
    OBVIOUS
  <2>1. Cardinality(1 .. n + 1) = n + 1
    <3>1. n + 1 \in Int /\ 1 \in Int /\ ~(1 > n + 1) /\ n + 1 - 1 + 1 = n + 1
      BY <1>1
    <3> HIDE DEF n
    <3> QED BY <3>1, FS_Interval
  <2>2. Cardinality(1 .. n + 1) <= n
    <3> HIDE DEF used
    <3> QED BY <1>1, FS_Subset
  <2> QED BY <1>1, <2>1, <2>2
<1>4. free \in SUBSET Nat
  BY <1>1
<1> HIDE DEF free
<1>5. Min(free) \in free
  BY <1>3, <1>4, MinOfSet
<1> QED BY <1>2, <1>4, <1>5 DEF free

LEMMA AppendStack ==
    ASSUME NEW s, GoodStack(s), NEW x \in WorkspaceType, x.key \notin Keys(s)
    PROVE  GoodStack(Append(s, x)) /\ Range(Append(s, x)) = Range(s) \cup {x}
<1> DEFINE t == Append(s, x)
<1>1. s \in Seq(WorkspaceType) /\ Len(s) \in Nat
  BY DEF GoodStack
<1>2. t \in Seq(WorkspaceType) /\ Len(t) = Len(s) + 1 /\ t[Len(s) + 1] = x /\ \A i \in 1 .. Len(s) : t[i] = s[i]
  BY <1>1
<1> HIDE DEF t
<1>3. \A i \in 1 .. Len(s) : s[i].key # x.key
  BY <1>1, StackFacts, RangeOf
<1>4. \A i \in 1 .. Len(t) : i \in 1 .. Len(s) \/ i = Len(s) + 1
  BY <1>1, <1>2
<1>5. GoodStack(t)
  BY <1>2, <1>3, <1>4 DEF GoodStack
<1>6. \A i \in 1 .. Len(s) : i \in 1 .. Len(t)
  BY <1>1, <1>2
<1>7. Len(s) + 1 \in 1 .. Len(t)
  BY <1>1, <1>2
<1>8. \A y : y \in Range(t) <=> y \in Range(s) \/ y = x
  BY <1>1, <1>2, <1>4, <1>6, <1>7, RangeOf
<1> QED BY <1>5, <1>8 DEF t

LEMMA NewWorkspace ==
    ASSUME NEW key \in Nat, NEW id \in Nat
    PROVE  Workspace(key, id) \in WorkspaceType /\ Workspace(key, id).key = key /\ Workspace(key, id).id = id
           /\ Workspace(key, id).wins = {} /\ Workspace(key, id).name = NoName
BY DEF Workspace, WorkspaceType

----------------------------------------------------------------------------
(* maintain_empty_workspace. *)

LEMMA LastContentIsThere ==
    ASSUME NEW s, GoodStack(s), NEW occupied
    PROVE  LastContent(s, occupied) \in 0 .. Len(s)
<1> DEFINE C == {0} \cup {i \in DOMAIN s : HasContent(s[i], occupied)}
<1>1. DOMAIN s = 1 .. Len(s) /\ Len(s) \in Nat
  BY DEF GoodStack
<1>2. C \in SUBSET Nat /\ C # {} /\ \A i \in C : i <= Len(s)
  BY <1>1
<1> HIDE DEF C
<1>3. Max(C) \in C
  BY <1>1, <1>2, MaxOfSet
<1> QED BY <1>1, <1>3 DEF C, LastContent

\* The stack with an empty workspace at the bottom.
LEMMA GrownStack ==
    ASSUME NEW m, GoodOutput(m), NEW occupied, NEW id \in Nat
    PROVE  /\ GoodStack(Grown(m, occupied, id)) /\ Trailing(m, occupied) \in Nat
           /\ Range(m.stack) \subseteq Range(Grown(m, occupied, id))
           /\ Trailing(m, occupied) \in Keys(Grown(m, occupied, id))
           /\ \A x \in Range(Grown(m, occupied, id)) :
                \/ x \in Range(m.stack)
                \/ /\ x.id = id /\ x.wins = {} /\ x.name = NoName /\ x.key \notin Keys(m.stack)
                   /\ x.key = Trailing(m, occupied)
<1> DEFINE s == m.stack
           last == LastContent(s, occupied)
           tails == Tails(s, occupied)
           trailing == Trailing(m, occupied)
           grown == Grown(m, occupied, id)
           new == Workspace(trailing, id)
<1>1. GoodStack(s) /\ m.active \in Nat /\ Keys(s) \subseteq Nat
  BY CountKeys DEF GoodOutput
<1>2. DOMAIN s = 1 .. Len(s) /\ Len(s) \in Nat
  BY <1>1 DEF GoodStack
<1>3. last \in 0 .. Len(s)
  BY <1>1, LastContentIsThere
<1>4. tails \subseteq Keys(s) /\ (tails # {} => s[last + 1].key \in Keys(s))
  BY <1>2, <1>3 DEF Keys, Tails
<1>5. NextKey(s) \in Nat /\ NextKey(s) \notin Keys(s)
  BY <1>1, NextKeyIsFree
<1> HIDE DEF last, tails
<1>6. trailing = IF m.active \in tails THEN m.active ELSE IF tails = {} THEN NextKey(s) ELSE s[last + 1].key
  BY DEF Trailing, tails, last
<1> HIDE DEF trailing
<1>7. trailing \in Nat /\ (tails = {} => trailing \notin Keys(s)) /\ (tails # {} => trailing \in Keys(s))
  BY <1>1, <1>4, <1>5, <1>6
<1>8. new \in WorkspaceType /\ new.key = trailing /\ new.id = id /\ new.wins = {} /\ new.name = NoName
  BY <1>7, NewWorkspace
<1> HIDE DEF new
<1>9. grown = IF tails # {} THEN s ELSE Append(s, new)
  BY DEF Grown, tails, new, trailing
<1> HIDE DEF grown
<1>10. CASE tails # {}
  <2>1. grown = s
    BY <1>9, <1>10
  <2> QED BY <1>1, <1>7, <1>10, <2>1 DEF grown, trailing
<1>11. CASE tails = {}
  <2>1. grown = Append(s, new)
    BY <1>9, <1>11
  <2>2. GoodStack(grown) /\ Range(grown) = Range(s) \cup {new}
    BY <1>1, <1>7, <1>8, <1>11, <2>1, AppendStack
  <2>3. trailing \in Keys(grown)
    BY <1>8, <2>2, StackFacts
  <2> QED BY <1>7, <1>8, <1>11, <2>2, <2>3 DEF grown, trailing
<1> QED BY <1>10, <1>11

\* What the upkeep makes of an output: it drops what has no content and may add an empty workspace.
Kept(m, r, occupied, id) ==
    /\ GoodOutput(r) /\ Shows(r)
    /\ \A x \in Range(m.stack) : HasContent(x, occupied) => x \in Range(r.stack)
    /\ \A x \in Range(r.stack) :
          \/ x \in Range(m.stack)
          \/ x.id = id /\ x.wins = {} /\ x.name = NoName /\ x.key \notin Keys(m.stack)
    /\ \A x, y \in Range(r.stack) : x \in Range(m.stack) \/ y \in Range(m.stack) \/ x.key = y.key

LEMMA UpkeptKeeps ==
    ASSUME NEW m, GoodOutput(m), NEW occupied, NEW id \in Nat
    PROVE  Kept(m, Upkept(m, occupied, id), occupied, id)
<1> DEFINE trailing == Trailing(m, occupied)
           grown == Grown(m, occupied, id)
           gone == {x \in Range(grown) : x.key \notin {trailing, m.active} /\ ~HasContent(x, occupied)}
           kept == Dropped(grown, gone)
           active == IF m.active \in Keys(kept) THEN m.active ELSE trailing
           r == Upkept(m, occupied, id)
<1>1. r = [stack |-> kept, active |-> active]
  BY DEF Upkept
<1>2. /\ GoodStack(grown) /\ trailing \in Nat /\ Range(m.stack) \subseteq Range(grown) /\ trailing \in Keys(grown)
      /\ \A x \in Range(grown) :
           \/ x \in Range(m.stack)
           \/ x.id = id /\ x.wins = {} /\ x.name = NoName /\ x.key \notin Keys(m.stack) /\ x.key = trailing
  BY GrownStack
<1> HIDE DEF grown, trailing
<1>3. GoodStack(kept) /\ Range(kept) = Range(grown) \ gone
  BY <1>2, DropStack
<1> HIDE DEF kept
<1>4. trailing \in Keys(kept)
  <2>1. PICK x \in Range(grown) : x.key = trailing
    BY <1>2, StackFacts
  <2>2. x \in Range(kept)
    BY <1>3, <2>1
  <2> QED BY <1>3, <2>1, <2>2, StackFacts
<1>5. active \in Keys(kept) /\ active \in Nat
  BY <1>2, <1>4 DEF GoodOutput
<1> HIDE DEF active, r
<1>6. GoodOutput(r) /\ Shows(r) /\ r.stack = kept
  BY <1>1, <1>3, <1>5 DEF GoodOutput, Shows
<1>7. \A x \in Range(m.stack) : HasContent(x, occupied) => x \in Range(kept)
  BY <1>2, <1>3
<1>8. \A x \in Range(kept) :
        \/ x \in Range(m.stack)
        \/ x.id = id /\ x.wins = {} /\ x.name = NoName /\ x.key \notin Keys(m.stack)
  BY <1>2, <1>3
<1>9. \A x, y \in Range(kept) : x \in Range(m.stack) \/ y \in Range(m.stack) \/ x.key = y.key
  BY <1>2, <1>3
<1> QED BY <1>6, <1>7, <1>8, <1>9 DEF Kept, r

\* An output is replaced by another one.
LEMMA Replaced ==
    ASSUME NEW ms, GoodMon(ms), NEW o \in Outputs, NEW r, GoodOutput(r), NEW ns,
           ns = [p \in DOMAIN ns |-> ns[p]], DOMAIN ns = DOMAIN ms \cup {o}, ns[o] = r,
           \A p \in DOMAIN ms \ {o} : ns[p] = ms[p]
    PROVE  GoodMon(ns)
<1>1. IsFiniteSet(DOMAIN ns)
  BY FS_AddElement DEF GoodMon
<1>2. \A p \in DOMAIN ns : GoodOutput(ns[p])
  BY DEF GoodMon
<1>3. DOMAIN ns \subseteq Outputs
  BY DEF GoodMon
<1> QED BY <1>1, <1>2, <1>3 DEF GoodMon

LEMMA MaintainedKeeps ==
    ASSUME NEW ms, NEW mini, NEW aw, NEW o \in DOMAIN ms, GoodMon(ms), GoodAway(aw), GoodMon(mon), GoodAway(away)
    PROVE  /\ GoodMon(Maintained(ms, mini, aw, o)) /\ DOMAIN Maintained(ms, mini, aw, o) = DOMAIN ms
           /\ \A p \in DOMAIN ms \ {o} : Maintained(ms, mini, aw, o)[p] = ms[p]
           /\ Kept(ms[o], Maintained(ms, mini, aw, o)[o], Occupied(mini, o), FreshId(ms, aw))
<1> DEFINE r == Upkept(ms[o], Occupied(mini, o), FreshId(ms, aw))
           ns == Maintained(ms, mini, aw, o)
<1>1. ns = [ms EXCEPT ![o] = r]
  BY DEF Maintained
<1>2. GoodOutput(ms[o]) /\ o \in Outputs
  BY DEF GoodMon
<1>3. FreshId(ms, aw) \in Nat
  BY FreshIdIsFree
<1>4. Kept(ms[o], r, Occupied(mini, o), FreshId(ms, aw))
  BY <1>2, <1>3, UpkeptKeeps
<1> HIDE DEF r
<1>5. DOMAIN ns = DOMAIN ms /\ ns[o] = r /\ \A p \in DOMAIN ms \ {o} : ns[p] = ms[p]
  BY <1>1
<1>6. ns = [p \in DOMAIN ns |-> ns[p]]
  BY <1>1
<1> HIDE DEF ns
<1>7. GoodMon(ns)
  BY <1>2, <1>4, <1>5, <1>6, Replaced DEF Kept
<1> QED BY <1>4, <1>5, <1>7 DEF ns

----------------------------------------------------------------------------
(* Minimized windows. *)

GoodMini(mini) ==
    /\ mini = [w \in DOMAIN mini |-> mini[w]]
    /\ \A w \in DOMAIN mini : /\ mini[w] = [output |-> mini[w].output, key |-> mini[w].key]
                              /\ mini[w].output \in Outputs

\* The workspace w waits to come back to is there.
HasHome(ms, mini, w) == mini[w].output \in DOMAIN ms /\ mini[w].key \in Keys(ms[mini[w].output].stack)

\* All have one, save those of an output that is being taken away.
HomesIn(ms, mini, gone) == \A w \in DOMAIN mini : mini[w].output = gone \/ HasHome(ms, mini, w)

\* Upkeep drops no workspace a minimized window waits for, and has its output show one.
LEMMA UpkeepKeepsHomes ==
    ASSUME NEW ms, NEW mini, NEW aw, NEW o, NEW gone,
           GoodMon(ms), GoodAway(aw), GoodMon(mon), GoodAway(away), HomesIn(ms, mini, gone)
    PROVE  /\ GoodMon(Maintained(ms, mini, aw, o)) /\ DOMAIN Maintained(ms, mini, aw, o) = DOMAIN ms
           /\ \A p \in DOMAIN ms \ {o} : Maintained(ms, mini, aw, o)[p] = ms[p]
           /\ \A p \in DOMAIN ms : p = o \/ Shows(ms[p]) => Shows(Maintained(ms, mini, aw, o)[p])
           /\ HomesIn(Maintained(ms, mini, aw, o), mini, gone)
<1> DEFINE ns == Maintained(ms, mini, aw, o)
<1>1. CASE o \notin DOMAIN ms
  <2>1. ns = ms
    BY <1>1 DEF Maintained
  <2> QED BY <1>1, <2>1
<1>2. CASE o \in DOMAIN ms
  <2> DEFINE id == FreshId(ms, aw)
             occupied == Occupied(mini, o)
  <2>1. /\ GoodMon(ns) /\ DOMAIN ns = DOMAIN ms
        /\ \A p \in DOMAIN ms \ {o} : ns[p] = ms[p]
        /\ Kept(ms[o], ns[o], occupied, id)
    BY <1>2, MaintainedKeeps
  <2> HIDE DEF ns, id
  <2>2. Shows(ns[o]) /\ GoodStack(ns[o].stack) /\ GoodStack(ms[o].stack)
    BY <1>2, <2>1 DEF Kept, GoodOutput, GoodMon
  <2>3. ASSUME NEW w \in DOMAIN mini, mini[w].output # gone PROVE HasHome(ns, mini, w)
    <3>1. HasHome(ms, mini, w)
      BY <2>3 DEF HomesIn
    <3>2. CASE mini[w].output # o
      BY <2>1, <3>1, <3>2 DEF HasHome
    <3>3. CASE mini[w].output = o
      <4>1. PICK x \in Range(ms[o].stack) : x.key = mini[w].key
        BY <2>2, <3>1, <3>3, StackFacts DEF HasHome
      <4>2. x.key \in occupied
        BY <3>3, <4>1 DEF Occupied
      <4>3. x \in Range(ns[o].stack)
        BY <2>1, <4>2 DEF Kept, HasContent
      <4>4. mini[w].key \in Keys(ns[o].stack)
        BY <2>2, <4>1, <4>3, StackFacts
      <4> QED BY <1>2, <2>1, <3>3, <4>4 DEF HasHome
    <3> QED BY <3>2, <3>3
  <2> QED BY <2>1, <2>2, <2>3 DEF HomesIn, ns
<1> QED BY <1>1, <1>2

----------------------------------------------------------------------------
(* move_workspaces_to. *)

LEMMA RekeyedStack ==
    ASSUME NEW s, GoodStack(s), NEW next \in Nat
    PROVE  /\ GoodStack(Rekeyed(s, next)) /\ \A k \in Keys(Rekeyed(s, next)) : next <= k
           /\ Moved(s, next) \in Seq(Nat \X Nat)
           /\ \A p \in Range(Moved(s, next)) : p \in Nat \X Nat /\ p[2] \in Keys(Rekeyed(s, next))
<1> DEFINE t == Rekeyed(s, next)
           m == Moved(s, next)
<1>1. s \in Seq(WorkspaceType) /\ DOMAIN s = 1 .. Len(s) /\ Len(s) \in Nat
  BY DEF GoodStack
<1>2. ASSUME NEW i \in 1 .. Len(s)
      PROVE  /\ t[i] \in WorkspaceType /\ t[i].key = next + i - 1
             /\ m[i] = <<s[i].key, next + i - 1>> /\ m[i] \in Nat \X Nat
  <2>1. s[i] \in WorkspaceType
    BY <1>1
  <2>2. s[i].key \in Nat /\ s[i].id \in Nat /\ s[i].name \in Names \cup {NoName} /\ s[i].wins \subseteq Windows
    BY <2>1, Fields
  <2>3. s[i] = [key |-> s[i].key, id |-> s[i].id, name |-> s[i].name, wins |-> s[i].wins]
    BY <2>1, Fields
  <2>4. next + i - 1 \in Nat
    OBVIOUS
  <2>5. t[i] = [s[i] EXCEPT !.key = next + i - 1]
    BY <1>1 DEF Rekeyed
  <2>6. t[i] = [key |-> next + i - 1, id |-> s[i].id, name |-> s[i].name, wins |-> s[i].wins]
    BY <2>3, <2>5
  <2>7. m[i] = <<s[i].key, next + i - 1>>
    BY <1>1 DEF Moved
  <2> QED BY <2>2, <2>4, <2>6, <2>7 DEF WorkspaceType
<1>3. t = [i \in 1 .. Len(s) |-> t[i]] /\ m = [i \in 1 .. Len(s) |-> m[i]]
  BY <1>1 DEF Rekeyed, Moved
<1> HIDE DEF t, m
<1>4. t \in Seq(WorkspaceType) /\ Len(t) = Len(s) /\ DOMAIN t = 1 .. Len(s)
  BY <1>1, <1>2, <1>3
<1>5. m \in Seq(Nat \X Nat) /\ Len(m) = Len(s)
  BY <1>1, <1>2, <1>3
<1>6. \A i, j \in 1 .. Len(s) : next + i - 1 = next + j - 1 => i = j
  OBVIOUS
<1>7. GoodStack(t)
  BY <1>2, <1>4, <1>6 DEF GoodStack
<1>8. \A i \in 1 .. Len(s) : t[i].key \in Keys(t)
  BY <1>4 DEF Keys
<1>9. \A k \in Keys(t) : next <= k
  <2>1. \A i \in 1 .. Len(s) : next <= next + i - 1
    OBVIOUS
  <2> QED BY <1>2, <1>4, <2>1 DEF Keys
<1>10. ASSUME NEW p \in Range(m) PROVE p \in Nat \X Nat /\ p[2] \in Keys(t)
  <2>1. PICK i \in 1 .. Len(s) : m[i] = p
    BY <1>5, RangeOf
  <2>2. p = <<s[i].key, next + i - 1>> /\ p[2] = t[i].key
    BY <1>2, <2>1
  <2> QED BY <1>2, <1>8, <2>1, <2>2
<1> QED BY <1>5, <1>7, <1>9, <1>10 DEF t, m

LEMMA HostingStack ==
    ASSUME NEW s, GoodStack(s), NEW occupied, NEW b, GoodStack(b), Keys(s) \cap Keys(b) = {}
    PROVE  /\ GoodStack(Hosting(s, occupied, b))
           /\ Range(Hosting(s, occupied, b)) = Range(s) \cup Range(b)
           /\ Keys(Hosting(s, occupied, b)) = Keys(s) \cup Keys(b)
<1> DEFINE trailing == s # <<>> /\ ~HasContent(Last(s), occupied)
           p == Len(s) + (IF trailing THEN 0 ELSE 1)
<1>1. s \in Seq(WorkspaceType)
  BY DEF GoodStack
<1>2. p \in 1 .. Len(s) + 1
  <2>1. PICK n \in Nat : n = Len(s)
    BY <1>1
  <2>2. n = 0 => s = <<>>
    BY <1>1, <2>1, EmptySeq
  <2>3. CASE trailing = TRUE
    BY <2>1, <2>2, <2>3
  <2>4. CASE trailing = FALSE
    BY <2>1, <2>4
  <2> QED BY <2>3, <2>4
<1>3. Hosting(s, occupied, b) = Spliced(s, p, b)
  BY DEF Hosting
<1> HIDE DEF p
<1> QED BY <1>2, <1>3, SpliceStack

\* What `gone` held is on the host: every workspace of the host is still there, and the windows
\* that were minimized on `gone` wait on the host.
LEMMA ParkedKeeps ==
    ASSUME NEW ms, GoodMon(ms), NEW mini, GoodMini(mini), NEW gone, NEW stack, GoodStack(stack),
           NEW host \in DOMAIN ms, Shows(ms[host]), HomesIn(ms, mini, gone)
    PROVE  LET r == Parked(ms, mini, gone, stack, host) IN
           /\ GoodMon(r.mon) /\ DOMAIN r.mon = DOMAIN ms
           /\ \A p \in DOMAIN ms \ {host} : r.mon[p] = ms[p]
           /\ Shows(r.mon[host])
           /\ r.moved \in Seq(Nat \X Nat)
           /\ GoodMini(r.minimized) /\ DOMAIN r.minimized = DOMAIN mini
           /\ HomesIn(r.mon, r.minimized, NoOutput)
<1> DEFINE m == ms[host]
           carried == Carried(stack, mini, gone)
           next == NextKey(m.stack)
           block == Rekeyed(carried, next)
           moved == Moved(carried, next)
           hosting == Hosting(m.stack, Occupied(mini, host), block)
           ns == [ms EXCEPT ![host].stack = hosting]
           mini2 == Rehomed(mini, gone, moved, host, m.active)
           left == {w \in DOMAIN mini : mini[w].output = gone /\ mini[w].key \in {p[1] : p \in Range(moved)}}
           r == Parked(ms, mini, gone, stack, host)
<1>1. r = [mon |-> ns, moved |-> moved, left |-> left, minimized |-> mini2]
  BY DEF Parked
<1>2. GoodOutput(m) /\ GoodStack(m.stack) /\ host \in Outputs
  BY DEF GoodMon, GoodOutput
<1>3. GoodStack(carried)
  BY DropStack DEF Carried
<1>4. next \in Nat /\ \A k \in Keys(m.stack) : k < next
  BY <1>2, NextKeyIsFree
<1> HIDE DEF carried, next
<1>5. /\ GoodStack(block) /\ \A k \in Keys(block) : next <= k
      /\ moved \in Seq(Nat \X Nat)
      /\ \A p \in Range(moved) : p \in Nat \X Nat /\ p[2] \in Keys(block)
  BY <1>3, <1>4, RekeyedStack
<1> HIDE DEF block, moved
<1>6. Keys(m.stack) \cap Keys(block) = {}
  <2>1. Keys(m.stack) \subseteq Nat /\ Keys(block) \subseteq Nat
    BY <1>2, <1>5, CountKeys
  <2> QED BY <1>4, <1>5, <2>1
<1>7. GoodStack(hosting) /\ Keys(hosting) = Keys(m.stack) \cup Keys(block)
  BY <1>2, <1>5, <1>6, HostingStack
<1> HIDE DEF hosting
<1>8. /\ DOMAIN ns = DOMAIN ms /\ ns = [p \in DOMAIN ns |-> ns[p]]
      /\ ns[host] = [stack |-> hosting, active |-> m.active]
      /\ \A p \in DOMAIN ms \ {host} : ns[p] = ms[p]
  <2>1. ms[host] = [stack |-> m.stack, active |-> m.active] /\ ms = [p \in DOMAIN ms |-> ms[p]]
    BY <1>2 DEF GoodOutput, GoodMon
  <2> QED BY <2>1
<1> HIDE DEF ns
<1>9. GoodMon(ns)
  <2>1. GoodOutput(ns[host])
    BY <1>2, <1>7, <1>8 DEF GoodOutput
  <2> QED BY <1>2, <1>8, <2>1, Replaced
<1>10. Shows(ns[host])
  BY <1>7, <1>8 DEF Shows
<1>11. /\ DOMAIN mini2 = DOMAIN mini /\ mini2 = [w \in DOMAIN mini2 |-> mini2[w]]
       /\ \A w \in DOMAIN mini : mini[w].output # gone => mini2[w] = mini[w]
  BY DEF Rehomed
<1>12. ASSUME NEW w \in DOMAIN mini, mini[w].output = gone
       PROVE  \E k \in Keys(hosting) : mini2[w] = [output |-> host, key |-> k]
  <2> DEFINE to == {p[2] : p \in {q \in Range(moved) : q[1] = mini[w].key}}
             k == IF to # {} THEN CHOOSE k \in to : TRUE ELSE m.active
  <2>1. mini2[w] = [output |-> host, key |-> k]
    BY <1>12 DEF Rehomed
  <2>2. to \subseteq Keys(hosting)
    BY <1>5, <1>7
  <2>3. m.active \in Keys(hosting)
    BY <1>7 DEF Shows
  <2> HIDE DEF to
  <2>4. k \in Keys(hosting)
    BY <2>2, <2>3
  <2> HIDE DEF k
  <2> QED BY <2>1, <2>4
<1> HIDE DEF mini2
<1>13. GoodMini(mini2)
  <2>1. ASSUME NEW w \in DOMAIN mini
        PROVE  mini2[w] = [output |-> mini2[w].output, key |-> mini2[w].key] /\ mini2[w].output \in Outputs
    <3>1. CASE mini[w].output # gone
      BY <1>11, <3>1 DEF GoodMini
    <3>2. CASE mini[w].output = gone
      <4>1. PICK k \in Keys(hosting) : mini2[w] = [output |-> host, key |-> k]
        BY <1>12, <3>2
      <4> QED BY <1>2, <4>1
    <3> QED BY <3>1, <3>2
  <2> QED BY <1>11, <2>1 DEF GoodMini
<1>14. ASSUME NEW w \in DOMAIN mini PROVE HasHome(ns, mini2, w)
  <2>1. CASE mini[w].output # gone
    <3>1. HasHome(ms, mini, w) /\ mini2[w] = mini[w]
      BY <1>11, <2>1 DEF HomesIn
    <3>2. CASE mini[w].output = host
      BY <1>7, <1>8, <3>1, <3>2 DEF HasHome
    <3>3. CASE mini[w].output # host
      BY <1>8, <3>1, <3>3 DEF HasHome
    <3> QED BY <3>2, <3>3
  <2>2. CASE mini[w].output = gone
    <3>1. PICK k \in Keys(hosting) : mini2[w] = [output |-> host, key |-> k]
      BY <1>12, <2>2
    <3> QED BY <1>8, <3>1 DEF HasHome
  <2> QED BY <2>1, <2>2
<1>15. HomesIn(ns, mini2, NoOutput)
  BY <1>11, <1>14 DEF HomesIn
<1> HIDE DEF r
<1>16. r.mon = ns /\ r.moved = moved /\ r.minimized = mini2
  BY <1>1
<1> QED BY <1>5, <1>8, <1>9, <1>10, <1>11, <1>13, <1>15, <1>16 DEF r

----------------------------------------------------------------------------
(* rebind_unplugged_host. *)

LEMMA KeyOfIsThere ==
    ASSUME NEW s, GoodStack(s), NEW id, \E x \in Range(s) : x.id = id
    PROVE  KeyOf(s, id) \in Keys(s) /\ KeyOf(s, id) \in Nat /\ At(s, KeyOf(s, id)).id = id
<1>1. PICK x \in Range(s) : x.id = id
  OBVIOUS
<1>2. x.key \in Keys(s) /\ At(s, x.key).id = id
  BY <1>1, StackFacts
<1>3. KeyOf(s, id) \in Keys(s) /\ At(s, KeyOf(s, id)).id = id
  BY <1>2 DEF KeyOf
<1> QED BY <1>3, StackFacts

LEMMA FollowedPairs ==
    ASSUME NEW r, GoodRecord(r), NEW s, GoodStack(s)
    PROVE  /\ Followed(r, s) \in Seq(Nat \X Nat)
           /\ \A p \in Range(Followed(r, s)) : /\ p \in Range(r.moved) /\ p \in Nat \X Nat
                                               /\ KeyOf(s, Identity(r, p)) \in Keys(s)
                                               /\ KeyOf(s, Identity(r, p)) \in Nat
           /\ \A q \in Remap(r, s) : q[2] \in Keys(s)
<1> DEFINE lost == {p \in Range(r.moved) : \A x \in Range(s) : x.id # Identity(r, p)}
           f == Followed(r, s)
<1>1. r.moved \in Seq(Nat \X Nat)
  BY DEF GoodRecord
<1>2. f = Dropped(r.moved, lost)
  BY DEF Followed
<1>3. f \in Seq(Nat \X Nat) /\ ToSet(f) = ToSet(r.moved) \ lost
  <2> HIDE DEF lost, f
  <2> QED BY <1>1, <1>2, DroppedSet
<1> HIDE DEF f
<1>4. Range(f) = Range(r.moved) \ lost
  BY <1>1, <1>3, RangeOf
<1>5. \A p \in Range(f) : p \in Nat \X Nat
  BY <1>3, RangeOf
<1>6. ASSUME NEW p \in Range(f)
      PROVE  KeyOf(s, Identity(r, p)) \in Keys(s) /\ KeyOf(s, Identity(r, p)) \in Nat
  <2>1. \E x \in Range(s) : x.id = Identity(r, p)
    BY <1>4
  <2> QED BY <2>1, KeyOfIsThere
<1>7. \A q \in Remap(r, s) : q[2] \in Keys(s)
  BY <1>6 DEF Remap, f
<1> QED BY <1>3, <1>4, <1>5, <1>6, <1>7 DEF f

LEMMA FollowingRecord ==
    ASSUME NEW r, GoodRecord(r), NEW s, GoodStack(s), NEW new \in Outputs
    PROVE  /\ GoodRecord(Following(r, s, new)) /\ Following(r, s, new).stack = r.stack
           /\ Following(r, s, new).active = r.active
           /\ Following(r, s, new).host = new
<1> DEFINE f == Followed(r, s)
           m == [i \in DOMAIN f |-> <<f[i][1], KeyOf(s, Identity(r, f[i]))>>]
           t == Following(r, s, new)
<1>1. f \in Seq(Nat \X Nat) /\ \A p \in Range(f) : p \in Nat \X Nat /\ KeyOf(s, Identity(r, p)) \in Nat
  BY FollowedPairs
<1>2. t = [r EXCEPT !.host = new, !.moved = m]
  BY DEF Following
<1> HIDE DEF f
<1>3. DOMAIN f = 1 .. Len(f) /\ Len(f) \in Nat
  BY <1>1
<1>4. ASSUME NEW i \in 1 .. Len(f) PROVE <<f[i][1], KeyOf(s, Identity(r, f[i]))>> \in Nat \X Nat
  <2>1. f[i] \in Range(f)
    BY <1>1, RangeOf
  <2>2. f[i] \in Nat \X Nat /\ KeyOf(s, Identity(r, f[i])) \in Nat
    BY <1>1, <2>1
  <2> QED BY <2>2
<1>5. m \in Seq(Nat \X Nat)
  BY <1>3, <1>4
<1> HIDE DEF m
<1>6. r = [stack |-> r.stack, active |-> r.active, host |-> r.host, moved |-> r.moved, minimized |-> r.minimized]
  BY DEF GoodRecord
<1>7. t = [stack |-> r.stack, active |-> r.active, host |-> new, moved |-> m, minimized |-> r.minimized]
  BY <1>2, <1>6
<1> HIDE DEF t
<1>8. GoodRecord(t)
  BY <1>5, <1>7 DEF GoodRecord
<1> QED BY <1>7, <1>8 DEF t

\* The records of `old` have the new host, all stay what they were otherwise, and no minimized
\* window loses its workspace.
LEMMA ReboundKeeps ==
    ASSUME NEW ms, GoodMon(ms), NEW aw, GoodAway(aw), NEW mini, GoodMini(mini), NEW old,
           NEW new \in DOMAIN ms, HomesIn(ms, mini, NoOutput)
    PROVE  LET r == Rebound(ms, aw, mini, old, new) IN
           /\ GoodAway(r.away) /\ DOMAIN r.away = DOMAIN aw
           /\ \A g \in DOMAIN aw : /\ r.away[g].stack = aw[g].stack
                                   /\ r.away[g] = aw[g] \/ r.away[g].host = new
           /\ GoodMini(r.minimized) /\ DOMAIN r.minimized = DOMAIN mini
           /\ HomesIn(ms, r.minimized, NoOutput)
<1> DEFINE s == ms[new].stack
           followers == {g \in DOMAIN aw \ {old} : aw[g].host = old}
           pairs(w) == UNION {Remap(aw[g], s) : g \in {f \in followers : w \in aw[f].minimized}}
           remapped(w) == {q \in pairs(w) : mini[w].output = new /\ q[1] = mini[w].key}
           aw2 == [g \in DOMAIN aw |-> IF g \in followers THEN Following(aw[g], s, new) ELSE aw[g]]
           mini2 == [w \in DOMAIN mini |->
                        IF remapped(w) = {} THEN mini[w]
                        ELSE [mini[w] EXCEPT !.key = (CHOOSE q \in remapped(w) : TRUE)[2]]]
           r == Rebound(ms, aw, mini, old, new)
<1>1. r = [away |-> aw2, minimized |-> mini2]
  BY DEF Rebound
<1>2. GoodStack(s) /\ new \in Outputs
  BY DEF GoodMon, GoodOutput
<1>3. \A g \in DOMAIN aw : GoodRecord(aw[g])
  BY DEF GoodAway
<1> HIDE DEF s
<1>4. ASSUME NEW g \in DOMAIN aw
      PROVE  /\ GoodRecord(aw2[g]) /\ aw2[g].stack = aw[g].stack
             /\ aw2[g] = aw[g] \/ aw2[g].host = new
  <2>1. CASE g \in followers
    <3>1. aw2[g] = Following(aw[g], s, new)
      BY <2>1
    <3> HIDE DEF aw2, followers
    <3> QED BY <1>2, <1>3, <3>1, FollowingRecord
  <2>2. CASE g \notin followers
    <3>1. aw2[g] = aw[g]
      BY <2>2
    <3> HIDE DEF aw2, followers
    <3> QED BY <1>3, <3>1
  <2> QED BY <2>1, <2>2
<1>5. GoodAway(aw2) /\ DOMAIN aw2 = DOMAIN aw
  <2>1. DOMAIN aw2 = DOMAIN aw /\ aw2 = [g \in DOMAIN aw2 |-> aw2[g]]
    OBVIOUS
  <2> HIDE DEF aw2
  <2> QED BY <1>4, <2>1 DEF GoodAway
<1> HIDE DEF aw2
<1>6. DOMAIN mini2 = DOMAIN mini /\ mini2 = [w \in DOMAIN mini2 |-> mini2[w]]
  OBVIOUS
<1>7. ASSUME NEW w \in DOMAIN mini
      PROVE  \/ mini2[w] = mini[w]
             \/ mini[w].output = new /\ \E k \in Keys(s) : mini2[w] = [output |-> new, key |-> k]
  <2>1. CASE remapped(w) = {}
    BY <2>1
  <2>2. CASE remapped(w) # {}
    <3> DEFINE q == CHOOSE q \in remapped(w) : TRUE
    <3>1. mini2[w] = [mini[w] EXCEPT !.key = q[2]]
      BY <2>2
    <3>2. q \in remapped(w)
      <4> HIDE DEF remapped
      <4> QED BY <2>2
    <3>3. q \in pairs(w) /\ mini[w].output = new
      <4> HIDE DEF pairs, q
      <4> QED BY <3>2
    <3> HIDE DEF q
    <3>4. PICK g \in DOMAIN aw : q \in Remap(aw[g], s)
      BY <3>3
    <3>5. q[2] \in Keys(s)
      BY <1>2, <1>3, <3>4, FollowedPairs
    <3>6. mini[w] = [output |-> mini[w].output, key |-> mini[w].key]
      BY DEF GoodMini
    <3> HIDE DEF mini2
    <3>7. mini2[w] = [output |-> new, key |-> q[2]]
      BY <3>1, <3>3, <3>6
    <3> QED BY <3>3, <3>5, <3>7
  <2> QED BY <2>1, <2>2
<1> HIDE DEF mini2
<1>8. ASSUME NEW w \in DOMAIN mini
      PROVE  /\ mini2[w] = [output |-> mini2[w].output, key |-> mini2[w].key] /\ mini2[w].output \in Outputs
             /\ mini2[w].output = NoOutput \/ HasHome(ms, mini2, w)
  <2>1. CASE mini2[w] = mini[w]
    BY <2>1 DEF GoodMini, HomesIn, HasHome
  <2>2. CASE mini[w].output = new /\ \E k \in Keys(s) : mini2[w] = [output |-> new, key |-> k]
    <3>1. PICK k \in Keys(s) : mini2[w] = [output |-> new, key |-> k]
      BY <2>2
    <3> QED BY <1>2, <3>1 DEF HasHome, s
  <2> QED BY <1>7, <2>1, <2>2
<1>9. GoodMini(mini2) /\ HomesIn(ms, mini2, NoOutput)
  BY <1>6, <1>8 DEF GoodMini, HomesIn
<1> HIDE DEF r
<1>10. r.away = aw2 /\ r.minimized = mini2
  BY <1>1
<1> QED BY <1>4, <1>5, <1>6, <1>9, <1>10 DEF r

----------------------------------------------------------------------------
(* take_back_workspaces. *)

LEMMA PairsOf ==
    ASSUME NEW r, GoodRecord(r)
    PROVE  /\ \A p \in Range(Pairs(r)) : p \in Range(r.moved) /\ p \in Nat \X Nat /\ p[1] \in Keys(r.stack)
           /\ \A k \in Returned(r) : k \in Keys(r.stack) /\ \E p \in Range(Pairs(r)) : p[1] = k
           /\ r.moved = <<>> => Range(Pairs(r)) = {}
<1> DEFINE lost == {p \in Range(r.moved) : p[1] \notin Keys(r.stack)}
           f == Pairs(r)
<1>1. r.moved \in Seq(Nat \X Nat)
  BY DEF GoodRecord
<1>2. f = Dropped(r.moved, lost)
  BY DEF Pairs
<1>3. f \in Seq(Nat \X Nat) /\ ToSet(f) = ToSet(r.moved) \ lost
  <2> HIDE DEF lost, f
  <2> QED BY <1>1, <1>2, DroppedSet
<1> HIDE DEF f
<1>4. Range(f) = Range(r.moved) \ lost
  BY <1>1, <1>3, RangeOf
<1>5. \A p \in Range(f) : p \in Nat \X Nat
  BY <1>3, RangeOf
<1>6. r.moved = <<>> => Range(r.moved) = {}
  BY <1>1, RangeOf
<1> QED BY <1>4, <1>5, <1>6 DEF Returned, f

\* What comes back for a key has that key.
LEMMA ReturningWorkspace ==
    ASSUME NEW ms, GoodMon(ms), NEW kept, GoodRecord(kept), NEW key \in Returned(kept)
    PROVE  Returning(ms, kept, key).ws \in WorkspaceType /\ Returning(ms, kept, key).ws.key = key
<1> DEFINE p == CHOOSE p \in Range(Pairs(kept)) : p[1] = key
           old == At(kept.stack, p[1])
           there == Parking(ms, kept, p)
           parked == CHOOSE x \in there : TRUE
           b == Back(ms, kept, p)
<1>1. p \in Range(Pairs(kept)) /\ p[1] = key /\ key \in Keys(kept.stack) /\ key \in Nat
  <2>1. \E q \in Range(Pairs(kept)) : q[1] = key
    BY PairsOf
  <2>2. p \in Range(Pairs(kept)) /\ p[1] = key
    BY <2>1
  <2> HIDE DEF p
  <2> QED BY <2>2, PairsOf
<1>2. Returning(ms, kept, key) = b
  BY DEF Returning
<1> HIDE DEF p
<1>3. old \in WorkspaceType /\ old.key = key
  BY <1>1, StackFacts DEF GoodRecord
<1>4. \A x \in there : x \in WorkspaceType
  <2>1. ASSUME NEW x \in there PROVE x \in WorkspaceType
    <3>1. kept.host \in DOMAIN ms /\ p[2] \in Keys(ms[kept.host].stack) /\ x = At(ms[kept.host].stack, p[2])
      BY <2>1 DEF Parking
    <3>2. GoodStack(ms[kept.host].stack)
      BY <3>1 DEF GoodMon, GoodOutput
    <3> QED BY <3>1, <3>2, StackFacts
  <2> QED BY <2>1
<1> HIDE DEF there, old
<1>5. b = IF \E x \in there : x.id = old.id
          THEN [ws |-> [parked EXCEPT !.key = p[1]], whole |-> TRUE]
          ELSE [ws |-> [old EXCEPT !.wins = {w \in old.wins : \E x \in there : w \in x.wins}], whole |-> FALSE]
  BY DEF Back, there, old
<1> HIDE DEF b
<1>6. CASE \E x \in there : x.id = old.id
  <2>1. parked \in there
    BY <1>6
  <2>2. parked \in WorkspaceType
    BY <1>4, <2>1
  <2> HIDE DEF parked
  <2>3. b.ws = [parked EXCEPT !.key = key]
    BY <1>1, <1>5, <1>6
  <2>4. /\ parked.id \in Nat /\ parked.name \in Names \cup {NoName} /\ parked.wins \subseteq Windows
        /\ parked = [key |-> parked.key, id |-> parked.id, name |-> parked.name, wins |-> parked.wins]
    BY <2>2, Fields
  <2>5. b.ws = [key |-> key, id |-> parked.id, name |-> parked.name, wins |-> parked.wins]
    BY <2>3, <2>4
  <2> QED BY <1>1, <1>2, <2>4, <2>5 DEF WorkspaceType
<1>7. CASE ~(\E x \in there : x.id = old.id)
  <2> DEFINE wins == {w \in old.wins : \E x \in there : w \in x.wins}
  <2>1. wins \subseteq old.wins
    OBVIOUS
  <2>2. b.ws = [old EXCEPT !.wins = wins]
    BY <1>5, <1>7
  <2> HIDE DEF wins
  <2>3. /\ old.key \in Nat /\ old.id \in Nat /\ old.name \in Names \cup {NoName} /\ old.wins \subseteq Windows
        /\ old = [key |-> old.key, id |-> old.id, name |-> old.name, wins |-> old.wins]
    BY <1>3, Fields
  <2>4. b.ws = [key |-> old.key, id |-> old.id, name |-> old.name, wins |-> wins]
    BY <2>2, <2>3
  <2> QED BY <1>2, <1>3, <2>1, <2>3, <2>4 DEF WorkspaceType
<1> QED BY <1>6, <1>7

\* A record that waited with no host shows a workspace it has.
WaitsWell(kept) == kept.host = NoOutput => kept.active \in Keys(kept.stack) /\ kept.moved = <<>>

LEMMA RestoredStack ==
    ASSUME NEW ms, GoodMon(ms), NEW kept, GoodRecord(kept), WaitsWell(kept), NEW id \in Nat
    PROVE  /\ GoodStack(Restored(ms, kept, id)) /\ Restored(ms, kept, id) # <<>>
           /\ Returned(kept) \subseteq Keys(Restored(ms, kept, id))
           /\ kept.host = NoOutput => Restored(ms, kept, id) = kept.stack
<1> DEFINE gone == {x \in Range(kept.stack) : x.key \notin Returned(kept)}
           those == Dropped(kept.stack, gone)
           back == [i \in DOMAIN those |-> Returning(ms, kept, those[i].key).ws]
           new == <<Workspace(0, id)>>
           r == Restored(ms, kept, id)
<1>1. r = IF kept.host = NoOutput THEN kept.stack ELSE IF back = <<>> THEN new ELSE back
  BY DEF Restored
<1>2. GoodStack(kept.stack)
  BY DEF GoodRecord
<1>3. CASE kept.host = NoOutput
  <2>1. r = kept.stack
    BY <1>1, <1>3
  <2>2. Returned(kept) \subseteq Keys(kept.stack)
    BY PairsOf
  <2>3. kept.stack # <<>>
    BY <1>2, <1>3, StackFacts DEF WaitsWell
  <2> QED BY <1>2, <2>1, <2>2, <2>3
<1>4. CASE kept.host # NoOutput
  <2>1. GoodStack(those) /\ Range(those) = Range(kept.stack) \ gone
    <3> HIDE DEF gone, those
    <3>1. those = Dropped(kept.stack, gone)
      BY DEF those
    <3> QED BY <1>2, <3>1, DropStack
  <2> HIDE DEF those
  <2>2. DOMAIN those = 1 .. Len(those) /\ Len(those) \in Nat /\ those \in Seq(WorkspaceType)
    BY <2>1 DEF GoodStack
  <2>3. ASSUME NEW i \in 1 .. Len(those) PROVE back[i] \in WorkspaceType /\ back[i].key = those[i].key
    <3>1. those[i] \in Range(those)
      BY <2>2, RangeOf
    <3>2. those[i].key \in Returned(kept)
      BY <2>1, <3>1
    <3>3. back[i] = Returning(ms, kept, those[i].key).ws
      BY <2>2
    <3> HIDE DEF back
    <3> QED BY <3>2, <3>3, ReturningWorkspace
  <2>4. back = [i \in DOMAIN those |-> back[i]]
    OBVIOUS
  <2> HIDE DEF back
  <2>5. GoodStack(back) /\ Keys(back) = Keys(those)
    BY <2>1, <2>3, <2>4, MapStack
  <2>6. Returned(kept) \subseteq Keys(those)
    <3> SUFFICES ASSUME NEW k \in Returned(kept) PROVE k \in Keys(those)
      OBVIOUS
    <3>1. k \in Keys(kept.stack)
      BY PairsOf
    <3>2. PICK x \in Range(kept.stack) : x.key = k
      BY <1>2, <3>1, StackFacts
    <3>3. x \in Range(those)
      BY <2>1, <3>2
    <3> QED BY <2>1, <3>2, <3>3, StackFacts
  <2>7. CASE back # <<>>
    BY <1>1, <1>4, <2>5, <2>6, <2>7
  <2>8. CASE back = <<>>
    <3>1. Keys(back) = {}
      BY <2>5, <2>8, StackFacts
    <3>2. Returned(kept) = {}
      BY <2>5, <2>6, <3>1
    <3>3. r = new
      BY <1>1, <1>4, <2>8
    <3>4. GoodStack(new) /\ new # <<>>
      <4>1. Workspace(0, id) \in WorkspaceType
        BY NewWorkspace
      <4> QED BY <4>1 DEF GoodStack
    <3> QED BY <1>4, <3>2, <3>3, <3>4
  <2> QED BY <2>7, <2>8
<1> QED BY <1>3, <1>4

LEMMA HostWithoutStack ==
    ASSUME NEW s, GoodStack(s), NEW gone, NEW taken
    PROVE  /\ GoodStack(HostWithout(s, gone, taken))
           /\ \A k \in Keys(s) : k \in gone \/ k \in Keys(HostWithout(s, gone, taken))
<1> DEFINE lost == {x \in Range(s) : x.key \in gone}
           those == Dropped(s, lost)
           t == [i \in DOMAIN those |-> [those[i] EXCEPT !.wins = @ \ taken]]
<1>1. GoodStack(those) /\ Range(those) = Range(s) \ lost
  <2> HIDE DEF lost, those
  <2>1. those = Dropped(s, lost)
    BY DEF those
  <2> QED BY <2>1, DropStack
<1>2. HostWithout(s, gone, taken) = t
  BY DEF HostWithout
<1> HIDE DEF those
<1>3. DOMAIN those = 1 .. Len(those) /\ those \in Seq(WorkspaceType)
  BY <1>1 DEF GoodStack
<1>4. ASSUME NEW i \in 1 .. Len(those) PROVE t[i] \in WorkspaceType /\ t[i].key = those[i].key
  <2> DEFINE x == those[i]
  <2>1. x \in WorkspaceType
    BY <1>3
  <2>2. t[i] = [x EXCEPT !.wins = x.wins \ taken]
    BY <1>3
  <2> HIDE DEF x, t
  <2>3. /\ x.key \in Nat /\ x.id \in Nat /\ x.name \in Names \cup {NoName} /\ x.wins \subseteq Windows
        /\ x = [key |-> x.key, id |-> x.id, name |-> x.name, wins |-> x.wins]
    BY <2>1, Fields
  <2>4. t[i] = [key |-> x.key, id |-> x.id, name |-> x.name, wins |-> x.wins \ taken]
    BY <2>2, <2>3
  <2>5. t[i] \in WorkspaceType /\ t[i].key = x.key
    BY <2>3, <2>4 DEF WorkspaceType
  <2> QED BY <2>5 DEF x
<1>5. t = [i \in DOMAIN those |-> t[i]]
  OBVIOUS
<1> HIDE DEF t
<1>6. GoodStack(t) /\ Keys(t) = Keys(those)
  BY <1>1, <1>4, <1>5, MapStack
<1>7. ASSUME NEW k \in Keys(s), k \notin gone PROVE k \in Keys(those)
  <2>1. PICK x \in Range(s) : x.key = k
    BY StackFacts
  <2>2. x \in Range(those)
    BY <1>1, <1>7, <2>1
  <2> QED BY <1>1, <2>1, <2>2, StackFacts
<1> QED BY <1>2, <1>6, <1>7

\* A minimized window of a workspace that comes back is on the output that is back.
LEMMA HomeAgainKeeps ==
    ASSUME NEW mini, GoodMini(mini), NEW kept, GoodRecord(kept), NEW o \in Outputs
    PROVE  LET m == HomeAgain(mini, kept, o) IN
           /\ GoodMini(m) /\ DOMAIN m = DOMAIN mini
           /\ \A w \in DOMAIN mini :
                \/ \E k \in Returned(kept) : m[w] = [output |-> o, key |-> k]
                \/ /\ m[w] = mini[w]
                   /\ \A p \in Range(Pairs(kept)) : mini[w] # [output |-> kept.host, key |-> p[2]]
<1> DEFINE returns(w) == {p \in Range(Pairs(kept)) : mini[w] = [output |-> kept.host, key |-> p[2]]}
           m == HomeAgain(mini, kept, o)
<1>1. m = [w \in DOMAIN mini |->
            IF returns(w) = {} THEN mini[w] ELSE [output |-> o, key |-> (CHOOSE p \in returns(w) : TRUE)[1]]]
  BY DEF HomeAgain
<1> HIDE DEF m
<1>2. ASSUME NEW w \in DOMAIN mini
      PROVE  \/ \E k \in Returned(kept) : m[w] = [output |-> o, key |-> k]
             \/ /\ m[w] = mini[w]
                /\ \A p \in Range(Pairs(kept)) : mini[w] # [output |-> kept.host, key |-> p[2]]
  <2>1. CASE returns(w) = {}
    BY <1>1, <2>1
  <2>2. CASE returns(w) # {}
    <3> DEFINE p == CHOOSE p \in returns(w) : TRUE
    <3>1. p \in returns(w)
      <4> HIDE DEF returns
      <4> QED BY <2>2
    <3>2. p \in Range(Pairs(kept))
      <4> HIDE DEF p
      <4> QED BY <3>1
    <3>3. m[w] = [output |-> o, key |-> p[1]]
      BY <1>1, <2>2
    <3> HIDE DEF p
    <3>4. p[1] \in Returned(kept)
      BY <3>2 DEF Returned
    <3> QED BY <3>3, <3>4
  <2> QED BY <2>1, <2>2
<1>3. DOMAIN m = DOMAIN mini /\ m = [w \in DOMAIN m |-> m[w]]
  BY <1>1
<1>4. ASSUME NEW w \in DOMAIN mini PROVE m[w] = [output |-> m[w].output, key |-> m[w].key] /\ m[w].output \in Outputs
  <2>1. CASE \E k \in Returned(kept) : m[w] = [output |-> o, key |-> k]
    <3>1. PICK k \in Returned(kept) : m[w] = [output |-> o, key |-> k]
      BY <2>1
    <3> QED BY <3>1
  <2>2. CASE m[w] = mini[w]
    BY <2>2 DEF GoodMini
  <2> QED BY <1>2, <2>1, <2>2
<1>5. GoodMini(m)
  BY <1>3, <1>4 DEF GoodMini
<1> QED BY <1>2, <1>3, <1>5 DEF m

\* Where a minimized window is when o, known by its record, is there again: nothing waits on o, save
\* what went with it when it was the last.
WaitsFor(ms, mini, gone, kept, o) ==
    \A w \in DOMAIN mini :
        \/ mini[w].output = gone
        \/ HasHome(ms, mini, w) /\ mini[w].output # o
        \/ kept.host = NoOutput /\ mini[w].output = o /\ mini[w].key \in Keys(kept.stack)

LEMMA TakenBackKeeps ==
    ASSUME NEW ms, GoodMon(ms), NEW mini, GoodMini(mini), NEW aw, GoodAway(aw),
           NEW kept, GoodRecord(kept), WaitsWell(kept), NEW o \in DOMAIN ms, NEW gone,
           WaitsFor(ms, mini, gone, kept, o), \A p \in DOMAIN ms : p = o \/ Shows(ms[p]),
           GoodMon(mon), GoodAway(away)
    PROVE  LET r == TakenBack(ms, mini, aw, kept, o) IN
           /\ GoodMon(r.mon) /\ DOMAIN r.mon = DOMAIN ms
           /\ \A p \in DOMAIN ms : Shows(r.mon[p])
           /\ GoodMini(r.minimized) /\ DOMAIN r.minimized = DOMAIN mini
           /\ HomesIn(r.mon, r.minimized, gone)
<1> DEFINE stack == Restored(ms, kept, FreshId(ms, aw))
           mini2 == HomeAgain(mini, kept, o)
           active == IF kept.active \in Keys(stack) THEN kept.active ELSE Head(stack).key
           left(p) == HostWithout(ms[p].stack, GoneKeys(ms, kept), Taken(ms, kept))
           ms2 == [p \in DOMAIN ms |->
                      IF p = o THEN [stack |-> stack, active |-> active]
                      ELSE IF p = kept.host THEN [ms[p] EXCEPT !.stack = left(p)] ELSE ms[p]]
           ms3 == Maintained(ms2, mini2, aw, o)
           ms4 == Maintained(ms3, mini2, aw, kept.host)
           r == TakenBack(ms, mini, aw, kept, o)
<1>1. r = [mon |-> IF kept.host = NoOutput THEN ms3 ELSE ms4, minimized |-> mini2]
  BY DEF TakenBack
<1>2. o \in Outputs /\ \A p \in DOMAIN ms : GoodOutput(ms[p]) /\ GoodStack(ms[p].stack)
  BY DEF GoodMon, GoodOutput
<1>3. /\ GoodStack(stack) /\ stack # <<>> /\ Returned(kept) \subseteq Keys(stack)
      /\ kept.host = NoOutput => stack = kept.stack
  <2>1. FreshId(ms, aw) \in Nat
    BY FreshIdIsFree
  <2> QED BY <2>1, RestoredStack
<1>4. /\ GoodMini(mini2) /\ DOMAIN mini2 = DOMAIN mini
      /\ \A w \in DOMAIN mini :
           \/ \E k \in Returned(kept) : mini2[w] = [output |-> o, key |-> k]
           \/ /\ mini2[w] = mini[w]
              /\ \A p \in Range(Pairs(kept)) : mini[w] # [output |-> kept.host, key |-> p[2]]
  BY <1>2, HomeAgainKeeps
<1> HIDE DEF stack, mini2
<1>5. active \in Keys(stack) /\ active \in Nat
  <2>1. Head(stack) \in Range(stack)
    <3>1. stack \in Seq(WorkspaceType) /\ stack # <<>>
      BY <1>3 DEF GoodStack
    <3>2. Head(stack) = stack[1] /\ 1 \in DOMAIN stack
      BY <3>1
    <3> QED BY <3>2 DEF Range
  <2>2. active \in Keys(stack)
    BY <1>3, <2>1, StackFacts
  <2> HIDE DEF active
  <2> QED BY <1>3, <2>2, StackFacts
<1> HIDE DEF active
<1>6. ASSUME NEW p \in DOMAIN ms
      PROVE  /\ GoodStack(left(p))
             /\ \A k \in Keys(ms[p].stack) : k \in GoneKeys(ms, kept) \/ k \in Keys(left(p))
  BY <1>2, HostWithoutStack
<1> HIDE DEF left
<1>7. /\ DOMAIN ms2 = DOMAIN ms /\ ms2 = [p \in DOMAIN ms2 |-> ms2[p]]
      /\ ms2[o] = [stack |-> stack, active |-> active]
      /\ \A p \in DOMAIN ms : p # o /\ p # kept.host => ms2[p] = ms[p]
      /\ \A p \in DOMAIN ms : p # o /\ p = kept.host => ms2[p] = [stack |-> left(p), active |-> ms[p].active]
  <2>1. \A p \in DOMAIN ms : ms[p] = [stack |-> ms[p].stack, active |-> ms[p].active]
    BY <1>2 DEF GoodOutput
  <2>2. \A p \in DOMAIN ms : p # o /\ p = kept.host => ms2[p] = [ms[p] EXCEPT !.stack = left(p)]
    OBVIOUS
  <2>3. \A p \in DOMAIN ms : [ms[p] EXCEPT !.stack = left(p)] = [stack |-> left(p), active |-> ms[p].active]
    BY <2>1
  <2>4. /\ DOMAIN ms2 = DOMAIN ms /\ ms2 = [p \in DOMAIN ms2 |-> ms2[p]]
        /\ ms2[o] = [stack |-> stack, active |-> active]
        /\ \A p \in DOMAIN ms : p # o /\ p # kept.host => ms2[p] = ms[p]
    OBVIOUS
  <2> HIDE DEF ms2
  <2> QED BY <2>2, <2>3, <2>4
<1> HIDE DEF ms2
<1>8. GoodMon(ms2)
  <2>1. ASSUME NEW p \in DOMAIN ms PROVE GoodOutput(ms2[p])
    <3>1. CASE p = o
      BY <1>3, <1>5, <1>7, <3>1 DEF GoodOutput
    <3>2. CASE p # o /\ p # kept.host
      BY <1>2, <1>7, <3>2
    <3>3. CASE p # o /\ p = kept.host
      <4>1. ms2[p] = [stack |-> left(p), active |-> ms[p].active]
        BY <1>7, <3>3
      <4> QED BY <1>2, <1>6, <4>1 DEF GoodOutput
    <3> QED BY <3>1, <3>2, <3>3
  <2> QED BY <1>7, <2>1 DEF GoodMon
<1>9. HomesIn(ms2, mini2, gone)
  <2>1. SUFFICES ASSUME NEW w \in DOMAIN mini, mini2[w].output # gone PROVE HasHome(ms2, mini2, w)
    BY <1>4 DEF HomesIn
  <2>2. CASE \E k \in Returned(kept) : mini2[w] = [output |-> o, key |-> k]
    <3>1. PICK k \in Returned(kept) : mini2[w] = [output |-> o, key |-> k]
      BY <2>2
    <3> QED BY <1>3, <1>7, <3>1 DEF HasHome
  <2>3. CASE /\ mini2[w] = mini[w]
             /\ \A p \in Range(Pairs(kept)) : mini[w] # [output |-> kept.host, key |-> p[2]]
    <3>1. CASE HasHome(ms, mini, w) /\ mini[w].output # o
      <4> DEFINE q == mini[w].output
                 k == mini[w].key
      <4>1. q \in DOMAIN ms /\ k \in Keys(ms[q].stack) /\ mini[w] = [output |-> q, key |-> k]
        BY <3>1 DEF HasHome, GoodMini
      <4>2. CASE q # kept.host
        BY <1>7, <2>3, <3>1, <4>1, <4>2 DEF HasHome
      <4>3. CASE q = kept.host
        <5>1. k \notin GoneKeys(ms, kept)
          BY <2>3, <4>1, <4>3 DEF GoneKeys
        <5>2. k \in Keys(left(q))
          BY <1>6, <4>1, <5>1
        <5>3. ms2[q].stack = left(q)
          BY <1>7, <3>1, <4>1, <4>3
        <5> QED BY <1>7, <2>3, <4>1, <5>2, <5>3 DEF HasHome
      <4> QED BY <4>2, <4>3
    <3>2. CASE kept.host = NoOutput /\ mini[w].output = o /\ mini[w].key \in Keys(kept.stack)
      BY <1>3, <1>7, <2>3, <3>2 DEF HasHome
    <3> QED BY <2>1, <2>3, <3>1, <3>2 DEF WaitsFor
  <2> QED BY <1>4, <2>2, <2>3
<1>10. \A p \in DOMAIN ms : p = kept.host \/ Shows(ms2[p])
  BY <1>5, <1>7 DEF Shows
<1>11. /\ GoodMon(ms3) /\ DOMAIN ms3 = DOMAIN ms
       /\ \A p \in DOMAIN ms : p = kept.host \/ Shows(ms3[p])
       /\ HomesIn(ms3, mini2, gone)
  <2>1. /\ GoodMon(ms3) /\ DOMAIN ms3 = DOMAIN ms2
        /\ \A p \in DOMAIN ms2 : p = o \/ Shows(ms2[p]) => Shows(ms3[p])
        /\ HomesIn(ms3, mini2, gone)
    BY <1>8, <1>9, UpkeepKeepsHomes
  <2> HIDE DEF ms3
  <2> QED BY <1>7, <1>10, <2>1
<1> HIDE DEF ms3
<1>12. /\ GoodMon(ms4) /\ DOMAIN ms4 = DOMAIN ms
       /\ \A p \in DOMAIN ms : Shows(ms4[p])
       /\ HomesIn(ms4, mini2, gone)
  <2>1. GoodMon(ms3) /\ HomesIn(ms3, mini2, gone)
    BY <1>11
  <2>2. /\ GoodMon(ms4) /\ DOMAIN ms4 = DOMAIN ms3
        /\ \A p \in DOMAIN ms3 : p = kept.host \/ Shows(ms3[p]) => Shows(ms4[p])
        /\ HomesIn(ms4, mini2, gone)
    <3> DEFINE h == kept.host
               ns == Maintained(ms3, mini2, aw, h)
    <3> HIDE DEF h
    <3>1. /\ GoodMon(ns) /\ DOMAIN ns = DOMAIN ms3
          /\ \A p \in DOMAIN ms3 : p = h \/ Shows(ms3[p]) => Shows(ns[p])
          /\ HomesIn(ns, mini2, gone)
      BY <2>1, UpkeepKeepsHomes
    <3> QED BY <3>1 DEF h
  <2> HIDE DEF ms4
  <2> QED BY <1>11, <2>2
<1> HIDE DEF ms4, r
<1>13. CASE kept.host = NoOutput
  <2>1. r.mon = ms3 /\ r.minimized = mini2
    BY <1>1, <1>13
  <2>2. NoOutput \notin DOMAIN ms
    BY OutputsAssumption DEF GoodMon
  <2> QED BY <1>4, <1>11, <1>13, <2>1, <2>2 DEF r
<1>14. CASE kept.host # NoOutput
  <2>1. r.mon = ms4 /\ r.minimized = mini2
    BY <1>1, <1>14
  <2> QED BY <1>4, <1>12, <2>1 DEF r
<1> QED BY <1>13, <1>14

----------------------------------------------------------------------------
(* adopt_homeless_workspaces. *)

OneHomeless(aw) == \A g, h \in DOMAIN aw : aw[g].host = NoOutput /\ aw[h].host = NoOutput => g = h

LEMMA AdoptedKeeps ==
    ASSUME NEW ms, GoodMon(ms), NEW mini, GoodMini(mini), NEW aw, GoodAway(aw), OneHomeless(aw),
           NEW o \in DOMAIN ms, \A p \in DOMAIN ms : Shows(ms[p]),
           NEW gone, HomesIn(ms, mini, gone), gone = NoOutput \/ gone \in Homeless(aw, o),
           o \notin DOMAIN aw, GoodMon(mon), GoodAway(away)
    PROVE  LET r == Adopted(ms, mini, aw, o) IN
           /\ GoodMon(r.mon) /\ DOMAIN r.mon = DOMAIN ms
           /\ \A p \in DOMAIN ms : Shows(r.mon[p])
           /\ GoodMini(r.minimized) /\ DOMAIN r.minimized = DOMAIN mini
           /\ HomesIn(r.mon, r.minimized, NoOutput)
           /\ GoodAway(r.away) /\ DOMAIN r.away = DOMAIN aw
           /\ \A g \in DOMAIN aw : r.away[g].stack = aw[g].stack /\ r.away[g].host # NoOutput
<1> DEFINE r == Adopted(ms, mini, aw, o)
<1>0. o \in Outputs /\ NoOutput \notin Outputs
  BY OutputsAssumption DEF GoodMon
<1>1. CASE Homeless(aw, o) = {}
  <2>1. r = [mon |-> ms, minimized |-> mini, away |-> aw]
    BY <1>1 DEF Adopted
  <2>2. \A g \in DOMAIN aw : aw[g].host # NoOutput
    BY <1>1 DEF Homeless
  <2> HIDE DEF r
  <2>3. r.mon = ms /\ r.minimized = mini /\ r.away = aw
    BY <2>1
  <2> QED BY <1>1, <2>2, <2>3 DEF r
<1>2. CASE Homeless(aw, o) # {}
  <2> DEFINE g == CHOOSE h \in Homeless(aw, o) : TRUE
             parked == Parked(ms, mini, g, aw[g].stack, o)
             aw2 == [aw EXCEPT ![g].host = o, ![g].moved = parked.moved, ![g].minimized = parked.left]
             tidy == Maintained(parked.mon, parked.minimized, aw2, o)
             bound == Rebound(tidy, aw2, parked.minimized, g, o)
  <2>1. r = [mon |-> tidy, minimized |-> bound.minimized, away |-> bound.away]
    BY <1>2 DEF Adopted
  <2>2. g \in Homeless(aw, o)
    BY <1>2
  <2> HIDE DEF g
  <2>3. g \in DOMAIN aw /\ aw[g].host = NoOutput /\ GoodRecord(aw[g])
    BY <2>2 DEF Homeless, GoodAway
  <2>4. HomesIn(ms, mini, g)
    <3>1. CASE gone = NoOutput
      BY <1>0, <3>1 DEF HomesIn, GoodMini
    <3>2. CASE gone \in Homeless(aw, o)
      <4>1. gone = g
        BY <2>3, <3>2 DEF Homeless, OneHomeless
      <4> QED BY <4>1
    <3> QED BY <3>1, <3>2
  <2>5. /\ GoodMon(parked.mon) /\ DOMAIN parked.mon = DOMAIN ms
        /\ \A p \in DOMAIN ms \ {o} : parked.mon[p] = ms[p]
        /\ Shows(parked.mon[o])
        /\ parked.moved \in Seq(Nat \X Nat)
        /\ GoodMini(parked.minimized) /\ DOMAIN parked.minimized = DOMAIN mini
        /\ HomesIn(parked.mon, parked.minimized, NoOutput)
    <3>1. GoodStack(aw[g].stack)
      BY <2>3 DEF GoodRecord
    <3> QED BY <2>4, <3>1, ParkedKeeps
  <2> HIDE DEF parked
  <2>6. /\ DOMAIN aw2 = DOMAIN aw /\ aw2 = [h \in DOMAIN aw2 |-> aw2[h]]
        /\ aw2[g] = [stack |-> aw[g].stack, active |-> aw[g].active, host |-> o, moved |-> parked.moved,
                     minimized |-> parked.left]
        /\ \A h \in DOMAIN aw \ {g} : aw2[h] = aw[h]
    <3>1. aw[g] = [stack |-> aw[g].stack, active |-> aw[g].active, host |-> aw[g].host, moved |-> aw[g].moved,
                   minimized |-> aw[g].minimized]
      BY <2>3 DEF GoodRecord
    <3>2. aw = [h \in DOMAIN aw |-> aw[h]]
      BY DEF GoodAway
    <3> QED BY <2>3, <3>1, <3>2
  <2> HIDE DEF aw2
  <2>7. GoodAway(aw2)
    <3>1. GoodRecord(aw2[g])
      BY <1>0, <2>3, <2>5, <2>6 DEF GoodRecord
    <3> QED BY <2>6, <3>1 DEF GoodAway
  <2>8. /\ GoodMon(tidy) /\ DOMAIN tidy = DOMAIN ms
        /\ \A p \in DOMAIN ms : Shows(tidy[p])
        /\ HomesIn(tidy, parked.minimized, NoOutput)
    <3> DEFINE pm == parked.mon
               pw == parked.minimized
    <3>1. GoodMon(pm) /\ HomesIn(pm, pw, NoOutput)
      BY <2>5
    <3> HIDE DEF pm, pw
    <3>2. /\ GoodMon(Maintained(pm, pw, aw2, o)) /\ DOMAIN Maintained(pm, pw, aw2, o) = DOMAIN pm
          /\ \A p \in DOMAIN pm \ {o} : Maintained(pm, pw, aw2, o)[p] = pm[p]
          /\ \A p \in DOMAIN pm : p = o \/ Shows(pm[p]) => Shows(Maintained(pm, pw, aw2, o)[p])
          /\ HomesIn(Maintained(pm, pw, aw2, o), pw, NoOutput)
      BY <2>7, <3>1, UpkeepKeepsHomes, Zenon
    <3>3. DOMAIN pm = DOMAIN ms /\ \A p \in DOMAIN ms : p = o \/ Shows(pm[p])
      BY <2>5 DEF pm
    <3>4. tidy = Maintained(pm, pw, aw2, o)
      BY DEF pm, pw
    <3> HIDE DEF tidy
    <3> QED BY <3>2, <3>3, <3>4 DEF pw
  <2> HIDE DEF tidy
  <2>9. /\ GoodAway(bound.away) /\ DOMAIN bound.away = DOMAIN aw2
        /\ \A h \in DOMAIN aw2 : /\ bound.away[h].stack = aw2[h].stack
                                 /\ bound.away[h] = aw2[h] \/ bound.away[h].host = o
        /\ GoodMini(bound.minimized) /\ DOMAIN bound.minimized = DOMAIN mini
        /\ HomesIn(tidy, bound.minimized, NoOutput)
    <3> DEFINE pw == parked.minimized
    <3>1. GoodMini(pw) /\ HomesIn(tidy, pw, NoOutput) /\ DOMAIN pw = DOMAIN mini
      BY <2>5, <2>8
    <3> HIDE DEF pw
    <3>2. o \in DOMAIN tidy
      BY <2>8
    <3>3. LET b == Rebound(tidy, aw2, pw, g, o) IN
          /\ GoodAway(b.away) /\ DOMAIN b.away = DOMAIN aw2
          /\ \A h \in DOMAIN aw2 : /\ b.away[h].stack = aw2[h].stack
                                   /\ b.away[h] = aw2[h] \/ b.away[h].host = o
          /\ GoodMini(b.minimized) /\ DOMAIN b.minimized = DOMAIN pw
          /\ HomesIn(tidy, b.minimized, NoOutput)
      BY <2>7, <2>8, <3>1, <3>2, ReboundKeeps
    <3> QED BY <3>1, <3>3 DEF pw
  <2> HIDE DEF bound, r
  <2>10. r.mon = tidy /\ r.minimized = bound.minimized /\ r.away = bound.away
    BY <2>1
  <2>11. ASSUME NEW h \in DOMAIN aw PROVE r.away[h].stack = aw[h].stack /\ r.away[h].host # NoOutput
    <3>1. aw2[h].stack = aw[h].stack /\ aw2[h].host # NoOutput
      <4>1. CASE h = g
        BY <1>0, <2>6, <4>1
      <4>2. CASE h # g
        <5>1. aw[h].host # NoOutput
          BY <2>3, <4>2 DEF OneHomeless
        <5> QED BY <2>6, <4>2, <5>1
      <4> QED BY <4>1, <4>2
    <3> QED BY <1>0, <2>6, <2>9, <2>10, <3>1
  <2> QED BY <2>6, <2>8, <2>9, <2>10, <2>11 DEF r
<1> QED BY <1>1, <1>2

----------------------------------------------------------------------------
(* The inductive invariant. *)

OutputsShow == GoodMon(mon) /\ \A o \in DOMAIN mon : Shows(mon[o])

OrderIsOfOutputs == order \in Seq(Outputs) /\ IsInjective(order) /\ Range(order) = DOMAIN mon

FocusIsThere == focused \in DOMAIN mon \cup {NoOutput} /\ (focused = NoOutput <=> DOMAIN mon = {})

MinimizedAreManaged == managed \subseteq Windows /\ GoodMini(minimized) /\ DOMAIN minimized \subseteq managed

\* A record with no host is the one of the last output that went, and only while there is no other.
RecordsAreKept ==
    /\ GoodAway(away) /\ DOMAIN away \cap DOMAIN mon = {} /\ OneHomeless(away)
    /\ \A g \in DOMAIN away : WaitsWell(away[g]) /\ (away[g].host = NoOutput => DOMAIN mon = {})

\* Where the minimized windows wait with no output there: in the record of the last one.
WaitAway == \A w \in DOMAIN minimized :
    /\ minimized[w].output \in DOMAIN away /\ away[minimized[w].output].host = NoOutput
    /\ minimized[w].key \in Keys(away[minimized[w].output].stack)

MinimizedWait == IF DOMAIN mon = {} THEN WaitAway ELSE HomesIn(mon, minimized, NoOutput)

HomesAreKnown == home \in [Identities(mon, away) -> Outputs]

IInv ==
    /\ OutputsShow
    /\ OrderIsOfOutputs
    /\ FocusIsThere
    /\ MinimizedAreManaged
    /\ RecordsAreKept
    /\ MinimizedWait
    /\ HomesAreKnown

LEMMA EmptyFunction ==
    ASSUME NEW f, f = [x \in DOMAIN f |-> f[x]]
    PROVE  DOMAIN f = {} <=> f = NoOne
BY DEF NoOne

LEMMA IInvImplies ==
    ASSUME IInv
    PROVE  TypeOK /\ MinimizedHaveAHome
<1> USE DEF IInv
<1>1. DOMAIN mon = {} <=> mon = NoOne
  BY EmptyFunction DEF OutputsShow, GoodMon
<1>2. \A o \in DOMAIN mon : /\ GoodStack(mon[o].stack) /\ mon[o].stack \in Seq(WorkspaceType)
                            /\ Cardinality(Keys(mon[o].stack)) = Len(mon[o].stack)
                            /\ mon[o].active \in Keys(mon[o].stack)
  <2>1. SUFFICES ASSUME NEW o \in DOMAIN mon
                 PROVE  /\ GoodStack(mon[o].stack) /\ mon[o].stack \in Seq(WorkspaceType)
                        /\ Cardinality(Keys(mon[o].stack)) = Len(mon[o].stack)
                        /\ mon[o].active \in Keys(mon[o].stack)
    OBVIOUS
  <2>2. GoodStack(mon[o].stack)
    BY DEF OutputsShow, GoodMon, GoodOutput
  <2>3. mon[o].active \in Keys(mon[o].stack)
    BY DEF OutputsShow, Shows
  <2>4. Cardinality(Keys(mon[o].stack)) = Len(mon[o].stack)
    BY <2>2, CountKeys
  <2> QED BY <2>2, <2>3, <2>4 DEF GoodStack
<1>3. Cardinality({g \in DOMAIN away : away[g].host = NoOutput}) <= 1
  <2> DEFINE Waiting == {g \in DOMAIN away : away[g].host = NoOutput}
  <2>1. \A g, h \in Waiting : g = h
    BY DEF RecordsAreKept, OneHomeless
  <2> HIDE DEF Waiting
  <2>2. Cardinality(Waiting) <= 1
    <3>1. CASE Waiting = {}
      BY <3>1, FS_EmptySet
    <3>2. CASE Waiting # {}
      <4>1. PICK g : Waiting = {g}
        BY <2>1, <3>2
      <4> QED BY <4>1, FS_Singleton
    <3> QED BY <3>1, <3>2
  <2> QED BY <2>2 DEF Waiting
<1>4. TypeOK
  <2>1. DOMAIN mon \subseteq Outputs /\ DOMAIN away \subseteq Outputs \ DOMAIN mon
    BY DEF OutputsShow, GoodMon, RecordsAreKept, GoodAway
  <2>2. \A w \in DOMAIN minimized : minimized[w].output \in Outputs
    BY DEF MinimizedAreManaged, GoodMini
  <2>3. \A g \in DOMAIN away : away[g].host \in Outputs \cup {NoOutput}
    BY DEF RecordsAreKept, GoodAway, GoodRecord
  <2> QED BY <1>1, <1>2, <1>3, <2>1, <2>2, <2>3
          DEF TypeOK, OrderIsOfOutputs, FocusIsThere, MinimizedAreManaged, HomesAreKnown
<1>5. MinimizedHaveAHome
  <2> SUFFICES ASSUME mon # NoOne, NEW w \in DOMAIN minimized
               PROVE  \E p \in Live : minimized[w] = [output |-> p[1], key |-> p[2].key]
    BY DEF MinimizedHaveAHome
  <2> DEFINE o == minimized[w].output
  <2>1. minimized[w] = [output |-> o, key |-> minimized[w].key] /\ o \in Outputs /\ o # NoOutput
    BY OutputsAssumption DEF MinimizedAreManaged, GoodMini
  <2>2. o \in DOMAIN mon /\ minimized[w].key \in Keys(mon[o].stack)
    BY <1>1, <2>1 DEF MinimizedWait, HomesIn, HasHome
  <2>3. PICK x \in Range(mon[o].stack) : x.key = minimized[w].key
    BY <1>2, <2>2, StackFacts
  <2>4. <<o, x>> \in Live
    BY <2>2 DEF Live
  <2>5. minimized[w] = [output |-> <<o, x>>[1], key |-> <<o, x>>[2].key]
    BY <2>1, <2>3
  <2> QED BY <2>4, <2>5
<1> QED BY <1>4, <1>5

----------------------------------------------------------------------------
(* Parts of the steps. *)

\* A workspace that exists has a home.
LEMMA HomedType ==
    ASSUME NEW ms, GoodMon(ms), NEW aw, NEW old, NEW D, old \in [D -> Outputs],
           \A g \in DOMAIN aw : \A x \in Range(aw[g].stack) : x.id \in D
    PROVE  Homed(ms, aw, old) \in [Identities(ms, aw) -> Outputs]
<1> SUFFICES ASSUME NEW id \in Identities(ms, aw), id \notin D
             PROVE  (CHOOSE o \in DOMAIN ms : id \in {x.id : x \in Range(ms[o].stack)}) \in Outputs
  BY DEF Homed
<1>1. PICK o \in DOMAIN ms : \E x \in Range(ms[o].stack) : x.id = id
  BY IdentitiesOf
<1>2. id \in {x.id : x \in Range(ms[o].stack)}
  BY <1>1
<1>3. DOMAIN ms \subseteq Outputs
  BY DEF GoodMon
<1> QED BY <1>2, <1>3

\* An output's stack changes and keeps its keys.
Stacked(ms, o, s) == [ms EXCEPT ![o].stack = s]

\* ns is ms with the stack s, of the same keys, on o.
Restacked(ns, ms, o, s) ==
    /\ GoodMon(ns) /\ DOMAIN ns = DOMAIN ms
    /\ ns[o] = [stack |-> s, active |-> ms[o].active]
    /\ \A p \in DOMAIN ms : p # o => ns[p] = ms[p]
    /\ \A p \in DOMAIN ms : Keys(ns[p].stack) = Keys(ms[p].stack)
    /\ \A p \in DOMAIN ms : Shows(ms[p]) => Shows(ns[p])

LEMMA StackChanged ==
    ASSUME NEW ms, GoodMon(ms), NEW o \in DOMAIN ms, NEW s, GoodStack(s), Keys(s) = Keys(ms[o].stack)
    PROVE  Restacked(Stacked(ms, o, s), ms, o, s)
<1> DEFINE ns == Stacked(ms, o, s)
<1>1. GoodOutput(ms[o]) /\ o \in Outputs
  BY DEF GoodMon
<1>2. ms[o] = [stack |-> ms[o].stack, active |-> ms[o].active]
  BY <1>1 DEF GoodOutput
<1>3. /\ DOMAIN ns = DOMAIN ms /\ ns = [p \in DOMAIN ns |-> ns[p]]
      /\ ns[o] = [stack |-> s, active |-> ms[o].active]
      /\ \A p \in DOMAIN ms : p # o => ns[p] = ms[p]
  BY <1>2 DEF Stacked
<1> HIDE DEF ns
<1>4. GoodOutput(ns[o])
  BY <1>1, <1>3 DEF GoodOutput
<1>5. GoodMon(ns)
  BY <1>1, <1>3, <1>4, Replaced
<1>6. ASSUME NEW p \in DOMAIN ms PROVE Keys(ns[p].stack) = Keys(ms[p].stack) /\ ns[p].active = ms[p].active
  BY <1>3
<1> QED BY <1>3, <1>5, <1>6 DEF Shows, Restacked, ns

Showing(ms, o, k) == [ms EXCEPT ![o].active = k]

LEMMA ActiveChanged ==
    ASSUME NEW ms, GoodMon(ms), NEW o \in DOMAIN ms, NEW k \in Nat
    PROVE  LET ns == Showing(ms, o, k) IN
           /\ GoodMon(ns) /\ DOMAIN ns = DOMAIN ms
           /\ ns[o] = [stack |-> ms[o].stack, active |-> k]
           /\ \A p \in DOMAIN ms : p # o => ns[p] = ms[p]
           /\ \A p \in DOMAIN ms : ns[p].stack = ms[p].stack
<1> DEFINE ns == Showing(ms, o, k)
<1>1. GoodOutput(ms[o]) /\ o \in Outputs
  BY DEF GoodMon
<1>2. ms[o] = [stack |-> ms[o].stack, active |-> ms[o].active]
  BY <1>1 DEF GoodOutput
<1>3. /\ DOMAIN ns = DOMAIN ms /\ ns = [p \in DOMAIN ns |-> ns[p]]
      /\ ns[o] = [stack |-> ms[o].stack, active |-> k]
      /\ \A p \in DOMAIN ms : p # o => ns[p] = ms[p]
  BY <1>2 DEF Showing
<1> HIDE DEF ns
<1>4. GoodOutput(ns[o])
  BY <1>1, <1>3 DEF GoodOutput
<1>5. GoodMon(ns)
  BY <1>1, <1>3, <1>4, Replaced
<1> QED BY <1>3, <1>5 DEF ns

\* What the user sees of an output becomes k.
LEMMA ShownKeeps ==
    ASSUME NEW ms, GoodMon(ms), \A p \in DOMAIN ms : Shows(ms[p]), NEW mini, HomesIn(ms, mini, NoOutput),
           NEW aw, GoodAway(aw), NEW o \in DOMAIN ms, NEW k \in Nat, GoodMon(mon), GoodAway(away)
    PROVE  /\ GoodMon(Shown(ms, mini, aw, o, k)) /\ DOMAIN Shown(ms, mini, aw, o, k) = DOMAIN ms
           /\ \A p \in DOMAIN ms : Shows(Shown(ms, mini, aw, o, k)[p])
           /\ HomesIn(Shown(ms, mini, aw, o, k), mini, NoOutput)
<1> DEFINE ns == Showing(ms, o, k)
           r == Maintained(ns, mini, aw, o)
<1>1. /\ GoodMon(ns) /\ DOMAIN ns = DOMAIN ms
      /\ \A p \in DOMAIN ms : p # o => ns[p] = ms[p]
      /\ \A p \in DOMAIN ms : ns[p].stack = ms[p].stack
  BY ActiveChanged, ZenonT(60)
<1> HIDE DEF ns
<1>2. HomesIn(ns, mini, NoOutput)
  BY <1>1 DEF HomesIn, HasHome
<1>3. /\ GoodMon(r) /\ DOMAIN r = DOMAIN ns
      /\ \A p \in DOMAIN ns \ {o} : r[p] = ns[p]
      /\ \A p \in DOMAIN ns : p = o \/ Shows(ns[p]) => Shows(r[p])
      /\ HomesIn(r, mini, NoOutput)
  <2>1. GoodMon(ns)
    BY <1>1
  <2> QED BY <1>2, <2>1, UpkeepKeepsHomes, Zenon
<1>4. Shown(ms, mini, aw, o, k) = r
  BY DEF Shown, Showing, ns
<1> HIDE DEF r
<1> QED BY <1>1, <1>3, <1>4

\* Windows come to and leave workspaces, and workspaces get names; no key changes.
LEMMA WithoutWindowStack ==
    ASSUME NEW s, GoodStack(s), NEW w
    PROVE  GoodStack(WithoutWindow(s, w)) /\ Keys(WithoutWindow(s, w)) = Keys(s)
<1> DEFINE t == WithoutWindow(s, w)
<1>1. DOMAIN s = 1 .. Len(s) /\ s \in Seq(WorkspaceType)
  BY DEF GoodStack
<1>2. ASSUME NEW i \in 1 .. Len(s) PROVE t[i] \in WorkspaceType /\ t[i].key = s[i].key
  <2> DEFINE x == s[i]
  <2>1. x \in WorkspaceType
    BY <1>1
  <2>2. t[i] = [x EXCEPT !.wins = x.wins \ {w}]
    BY <1>1 DEF WithoutWindow
  <2> HIDE DEF x, t
  <2>3. /\ x.key \in Nat /\ x.id \in Nat /\ x.name \in Names \cup {NoName} /\ x.wins \subseteq Windows
        /\ x = [key |-> x.key, id |-> x.id, name |-> x.name, wins |-> x.wins]
    BY <2>1, Fields
  <2>4. t[i] = [key |-> x.key, id |-> x.id, name |-> x.name, wins |-> x.wins \ {w}]
    BY <2>2, <2>3
  <2>5. t[i] \in WorkspaceType /\ t[i].key = x.key
    BY <2>3, <2>4 DEF WorkspaceType
  <2> QED BY <2>5 DEF x
<1>3. t = [i \in DOMAIN s |-> t[i]]
  BY DEF WithoutWindow
<1> HIDE DEF t
<1>4. GoodStack(t) /\ Keys(t) = Keys(s)
  BY <1>2, <1>3, MapStack
<1> QED BY <1>4 DEF t

LEMMA WithWindowStack ==
    ASSUME NEW s, GoodStack(s), NEW k, NEW w \in Windows
    PROVE  GoodStack(WithWindow(s, k, w)) /\ Keys(WithWindow(s, k, w)) = Keys(s)
<1> DEFINE t == WithWindow(s, k, w)
<1>1. DOMAIN s = 1 .. Len(s) /\ s \in Seq(WorkspaceType)
  BY DEF GoodStack
<1>2. ASSUME NEW i \in 1 .. Len(s) PROVE t[i] \in WorkspaceType /\ t[i].key = s[i].key
  <2> DEFINE x == s[i]
  <2>1. x \in WorkspaceType
    BY <1>1
  <2>2. t[i] = IF x.key = k THEN [x EXCEPT !.wins = x.wins \cup {w}] ELSE x
    BY <1>1 DEF WithWindow, OnKey
  <2> HIDE DEF x, t
  <2>3. /\ x.key \in Nat /\ x.id \in Nat /\ x.name \in Names \cup {NoName} /\ x.wins \subseteq Windows
        /\ x = [key |-> x.key, id |-> x.id, name |-> x.name, wins |-> x.wins]
    BY <2>1, Fields
  <2>4. x.key = k => t[i] = [key |-> x.key, id |-> x.id, name |-> x.name, wins |-> x.wins \cup {w}]
    BY <2>2, <2>3
  <2>5. t[i] \in WorkspaceType /\ t[i].key = x.key
    BY <2>1, <2>2, <2>3, <2>4 DEF WorkspaceType
  <2> QED BY <2>5 DEF x
<1>3. t = [i \in DOMAIN s |-> t[i]]
  BY DEF WithWindow, OnKey
<1> HIDE DEF t
<1>4. GoodStack(t) /\ Keys(t) = Keys(s)
  BY <1>2, <1>3, MapStack
<1> QED BY <1>4 DEF t

LEMMA NamedStack ==
    ASSUME NEW s, GoodStack(s), NEW k, NEW name \in Names \cup {NoName}
    PROVE  LET t == OnKey(s, k, LAMBDA x : [x EXCEPT !.name = name])
           IN  GoodStack(t) /\ Keys(t) = Keys(s)
<1> DEFINE t == OnKey(s, k, LAMBDA x : [x EXCEPT !.name = name])
<1>1. DOMAIN s = 1 .. Len(s) /\ s \in Seq(WorkspaceType)
  BY DEF GoodStack
<1>2. ASSUME NEW i \in 1 .. Len(s) PROVE t[i] \in WorkspaceType /\ t[i].key = s[i].key
  <2> DEFINE x == s[i]
  <2>1. x \in WorkspaceType
    BY <1>1
  <2>2. t[i] = IF x.key = k THEN [x EXCEPT !.name = name] ELSE x
    BY <1>1 DEF OnKey
  <2> HIDE DEF x, t
  <2>3. /\ x.key \in Nat /\ x.id \in Nat /\ x.name \in Names \cup {NoName} /\ x.wins \subseteq Windows
        /\ x = [key |-> x.key, id |-> x.id, name |-> x.name, wins |-> x.wins]
    BY <2>1, Fields
  <2>4. x.key = k => t[i] = [key |-> x.key, id |-> x.id, name |-> name, wins |-> x.wins]
    BY <2>2, <2>3
  <2>5. t[i] \in WorkspaceType /\ t[i].key = x.key
    BY <2>1, <2>2, <2>3, <2>4 DEF WorkspaceType
  <2> QED BY <2>5 DEF x
<1>3. t = [i \in DOMAIN s |-> t[i]]
  BY DEF OnKey
<1> HIDE DEF t
<1>4. GoodStack(t) /\ Keys(t) = Keys(s)
  BY <1>2, <1>3, MapStack
<1> QED BY <1>4 DEF t

LEMMA RenamedStack ==
    ASSUME NEW s, GoodStack(s), NEW id, NEW name \in Names \cup {NoName}
    PROVE  /\ GoodStack(Rename(s, id, name)) /\ Keys(Rename(s, id, name)) = Keys(s)
           /\ \A y \in Range(Rename(s, id, name)) : \E x \in Range(s) : x.id = y.id
<1> DEFINE t == Rename(s, id, name)
<1>1. DOMAIN s = 1 .. Len(s) /\ s \in Seq(WorkspaceType)
  BY DEF GoodStack
<1>2. ASSUME NEW i \in 1 .. Len(s) PROVE t[i] \in WorkspaceType /\ t[i].key = s[i].key /\ t[i].id = s[i].id
  <2> DEFINE x == s[i]
  <2>1. x \in WorkspaceType
    BY <1>1
  <2>2. t[i] = IF x.id = id THEN [x EXCEPT !.name = name] ELSE x
    BY <1>1 DEF Rename
  <2> HIDE DEF x, t
  <2>3. /\ x.key \in Nat /\ x.id \in Nat /\ x.name \in Names \cup {NoName} /\ x.wins \subseteq Windows
        /\ x = [key |-> x.key, id |-> x.id, name |-> x.name, wins |-> x.wins]
    BY <2>1, Fields
  <2>4. x.id = id => t[i] = [key |-> x.key, id |-> x.id, name |-> name, wins |-> x.wins]
    BY <2>2, <2>3
  <2>5. t[i] \in WorkspaceType /\ t[i].key = x.key /\ t[i].id = x.id
    BY <2>1, <2>2, <2>3, <2>4 DEF WorkspaceType
  <2> QED BY <2>5 DEF x
<1>3. t = [i \in DOMAIN s |-> t[i]]
  BY DEF Rename
<1> HIDE DEF t
<1>4. GoodStack(t) /\ Len(t) = Len(s) /\ Keys(t) = Keys(s)
  BY <1>2, <1>3, MapStack
<1>5. \A i \in 1 .. Len(s) : s[i] \in Range(s)
  BY <1>1, RangeOf
<1>6. ASSUME NEW y \in Range(t) PROVE \E x \in Range(s) : x.id = y.id
  <2>1. PICK i \in 1 .. Len(s) : t[i] = y
    BY <1>4, RangeOf DEF GoodStack
  <2> QED BY <1>2, <1>5, <2>1
<1> QED BY <1>4, <1>6 DEF t

\* What a workspace of o has changes, and the upkeep of o follows.
LEMMA WindowUpkeep ==
    ASSUME OutputsShow, GoodAway(away), NEW o \in DOMAIN mon, NEW s, GoodStack(s),
           Keys(s) = Keys(mon[o].stack), NEW mini, HomesIn(mon, mini, NoOutput), NEW aw, GoodAway(aw)
    PROVE  LET r == Maintained([mon EXCEPT ![o].stack = s], mini, aw, o) IN
           /\ GoodMon(r) /\ DOMAIN r = DOMAIN mon
           /\ \A p \in DOMAIN mon : Shows(r[p])
           /\ HomesIn(r, mini, NoOutput)
<1> DEFINE ns == Stacked(mon, o, s)
           r == Maintained(ns, mini, aw, o)
<1>0. GoodMon(mon) /\ \A p \in DOMAIN mon : Shows(mon[p])
  BY DEF OutputsShow
<1>1. /\ GoodMon(ns) /\ DOMAIN ns = DOMAIN mon
      /\ \A p \in DOMAIN mon : Keys(ns[p].stack) = Keys(mon[p].stack)
      /\ \A p \in DOMAIN mon : Shows(mon[p]) => Shows(ns[p])
  <2>1. Restacked(ns, mon, o, s)
    BY <1>0, StackChanged
  <2> HIDE DEF ns
  <2> QED BY <2>1 DEF Restacked
<1> HIDE DEF ns
<1>2. HomesIn(ns, mini, NoOutput)
  BY <1>1 DEF HomesIn, HasHome
<1>3. /\ GoodMon(r) /\ DOMAIN r = DOMAIN ns
      /\ \A p \in DOMAIN ns \ {o} : r[p] = ns[p]
      /\ \A p \in DOMAIN ns : p = o \/ Shows(ns[p]) => Shows(r[p])
      /\ HomesIn(r, mini, NoOutput)
  <2>1. GoodMon(ns)
    BY <1>1
  <2> QED BY <1>0, <1>2, <2>1, UpkeepKeepsHomes, Zenon
<1> HIDE DEF r
<1>4. /\ GoodMon(r) /\ DOMAIN r = DOMAIN mon
      /\ \A p \in DOMAIN mon : Shows(r[p])
      /\ HomesIn(r, mini, NoOutput)
  BY <1>0, <1>1, <1>3
<1> QED BY <1>4 DEF r, ns, Stacked

\* No output comes or goes, and the records stay.
LEMMA SameOutputs ==
    ASSUME IInv, DOMAIN mon # {}, order' = order, away' = away,
           GoodMon(mon'), DOMAIN mon' = DOMAIN mon, \A o \in DOMAIN mon : Shows(mon'[o]),
           focused' \in DOMAIN mon, MinimizedAreManaged', HomesIn(mon', minimized', NoOutput),
           home' = Homed(mon', away, home)
    PROVE  IInv'
<1>1. OutputsShow' /\ OrderIsOfOutputs' /\ RecordsAreKept' /\ MinimizedWait'
  BY DEF IInv, OutputsShow, OrderIsOfOutputs, RecordsAreKept, MinimizedWait
<1>2. FocusIsThere'
  <2>1. NoOutput \notin DOMAIN mon
    BY OutputsAssumption DEF IInv, OutputsShow, GoodMon
  <2> QED BY <2>1 DEF FocusIsThere
<1>3. HomesAreKnown'
  <2>1. \A g \in DOMAIN away : \A x \in Range(away[g].stack) : x.id \in Identities(mon, away)
    BY IdentitiesOf
  <2>2. home \in [Identities(mon, away) -> Outputs]
    BY DEF IInv, HomesAreKnown
  <2>3. Homed(mon', away, home) \in [Identities(mon', away) -> Outputs]
    BY <2>1, <2>2, HomedType
  <2> QED BY <2>3 DEF HomesAreKnown
<1> QED BY <1>1, <1>2, <1>3 DEF IInv

LEMMA FirstFoundIsThere ==
    ASSUME OrderIsOfOutputs, NEW w, Found(w) # {}
    PROVE  FirstFound(w) \in Found(w) /\ FirstFound(w) \in DOMAIN mon
<1> DEFINE lost == DOMAIN mon \ Found(w)
           d == Dropped(order, lost)
<1>1. order \in Seq(Outputs) /\ Range(order) = DOMAIN mon
  BY DEF OrderIsOfOutputs
<1>2. Found(w) \subseteq DOMAIN mon
  BY DEF Found
<1>3. d \in Seq(Outputs) /\ ToSet(d) = ToSet(order) \ lost
  <2> HIDE DEF lost, d
  <2>1. d = Dropped(order, lost)
    BY DEF d
  <2> QED BY <1>1, <2>1, DroppedSet
<1>4. FirstFound(w) = Head(d)
  BY DEF FirstFound
<1> HIDE DEF d
<1>5. Range(d) = Found(w)
  <2>1. Range(d) = ToSet(d) /\ Range(order) = ToSet(order)
    BY <1>1, <1>3, RangeOf
  <2> QED BY <1>1, <1>2, <1>3, <2>1
<1>6. d # <<>>
  BY <1>3, <1>5, RangeOf
<1>7. Head(d) \in Range(d)
  BY <1>3, <1>6 DEF Range
<1> QED BY <1>2, <1>4, <1>5, <1>7

----------------------------------------------------------------------------
(* The steps. *)

LEMMA StacksAreGood ==
    ASSUME IInv, NEW o \in DOMAIN mon
    PROVE  GoodStack(mon[o].stack) /\ mon[o].active \in Keys(mon[o].stack) /\ o \in Outputs /\ o # NoOutput
BY OutputsAssumption DEF IInv, OutputsShow, GoodMon, GoodOutput, Shows

LEMMA OpenStep ==
    ASSUME IInv, NEW w \in Windows, NEW o \in DOMAIN mon, Open(w, o)
    PROVE  IInv'
<1> DEFINE s == WithWindow(mon[o].stack, mon[o].active, w)
           r == Maintained([mon EXCEPT ![o].stack = s], minimized, away, o)
<1>1. GoodStack(s) /\ Keys(s) = Keys(mon[o].stack)
  BY StacksAreGood, WithWindowStack
<1>2. mon' = r
  BY DEF Open
<1> HIDE DEF s
<1>3. OutputsShow /\ GoodAway(away) /\ HomesIn(mon, minimized, NoOutput)
  BY DEF IInv, RecordsAreKept, MinimizedWait
<1>4. GoodMon(r) /\ DOMAIN r = DOMAIN mon /\ (\A p \in DOMAIN mon : Shows(r[p])) /\ HomesIn(r, minimized, NoOutput)
  BY <1>1, <1>3, WindowUpkeep
<1> HIDE DEF r
<1>5. MinimizedAreManaged'
  BY DEF IInv, MinimizedAreManaged, Open
<1>6. focused' \in DOMAIN mon
  BY DEF IInv, FocusIsThere, Open
<1>7. order' = order /\ away' = away /\ minimized' = minimized /\ home' = Homed(mon', away, home)
  BY DEF Open
<1> QED BY <1>2, <1>4, <1>5, <1>6, <1>7, SameOutputs

\* A minimized window is gone from the list.
LEMMA FewerMinimized ==
    ASSUME NEW mini, GoodMini(mini), NEW w
    PROVE  LET m == Restrict(mini, DOMAIN mini \ {w}) IN
           /\ GoodMini(m) /\ DOMAIN m = DOMAIN mini \ {w}
           /\ \A v \in DOMAIN m : m[v] = mini[v]
           /\ \A ms, gone : HomesIn(ms, mini, gone) => HomesIn(ms, m, gone)
<1> DEFINE m == Restrict(mini, DOMAIN mini \ {w})
<1>1. DOMAIN m = DOMAIN mini \ {w} /\ m = [v \in DOMAIN m |-> m[v]] /\ \A v \in DOMAIN m : m[v] = mini[v]
  BY DEF Restrict
<1> HIDE DEF m
<1>2. GoodMini(m)
  BY <1>1 DEF GoodMini
<1>3. \A ms, gone : HomesIn(ms, mini, gone) => HomesIn(ms, m, gone)
  BY <1>1 DEF HomesIn, HasHome
<1> QED BY <1>1, <1>2, <1>3 DEF m

LEMMA CloseStep ==
    ASSUME IInv, NEW w \in Windows, Close(w)
    PROVE  IInv'
<1> DEFINE mini == Restrict(minimized, DOMAIN minimized \ {w})
<1>1. /\ managed' = managed \ {w} /\ minimized' = mini /\ order' = order /\ focused' = focused /\ away' = away
      /\ home' = Homed(mon', away, home)
  BY DEF Close
<1>2. /\ GoodMini(mini) /\ DOMAIN mini = DOMAIN minimized \ {w}
      /\ \A v \in DOMAIN mini : mini[v] = minimized[v]
      /\ \A ms, gone : HomesIn(ms, minimized, gone) => HomesIn(ms, mini, gone)
  BY FewerMinimized DEF IInv, MinimizedAreManaged
<1> HIDE DEF mini
<1>3. MinimizedAreManaged'
  BY <1>1, <1>2 DEF IInv, MinimizedAreManaged
<1>4. CASE DOMAIN mon = {}
  <2>1. mon' = mon
    BY <1>4 DEF Close, Found
  <2>2. WaitAway /\ RecordsAreKept /\ OutputsShow /\ OrderIsOfOutputs /\ FocusIsThere
    BY <1>4 DEF IInv, MinimizedWait
  <2>3. WaitAway'
    BY <1>1, <1>2, <2>2 DEF WaitAway
  <2>4. HomesAreKnown'
    <3>1. \A g \in DOMAIN away : \A x \in Range(away[g].stack) : x.id \in Identities(mon, away)
      BY IdentitiesOf
    <3>2. home \in [Identities(mon, away) -> Outputs] /\ GoodMon(mon)
      BY DEF IInv, HomesAreKnown, OutputsShow
    <3>3. Homed(mon, away, home) \in [Identities(mon, away) -> Outputs]
      BY <3>1, <3>2, HomedType
    <3> QED BY <1>1, <2>1, <3>3 DEF HomesAreKnown
  <2>5. RecordsAreKept' /\ OutputsShow' /\ OrderIsOfOutputs' /\ FocusIsThere' /\ MinimizedWait'
    BY <1>1, <1>4, <2>1, <2>2, <2>3
       DEF RecordsAreKept, OutputsShow, OrderIsOfOutputs, FocusIsThere, MinimizedWait
  <2> QED BY <1>3, <2>4, <2>5 DEF IInv
<1>5. CASE DOMAIN mon # {}
  <2>1. focused' \in DOMAIN mon
    BY <1>1, <1>5 DEF IInv, FocusIsThere
  <2>2. OutputsShow /\ GoodAway(away) /\ HomesIn(mon, mini, NoOutput)
    BY <1>2, <1>5 DEF IInv, RecordsAreKept, MinimizedWait
  <2>3. /\ GoodMon(mon') /\ DOMAIN mon' = DOMAIN mon /\ \A p \in DOMAIN mon : Shows(mon'[p])
        /\ HomesIn(mon', mini, NoOutput)
    <3>1. CASE Found(w) = {}
      <4>1. mon' = mon
        BY <3>1 DEF Close
      <4> QED BY <2>2, <4>1 DEF OutputsShow
    <3>2. CASE Found(w) # {}
      <4> DEFINE o == FirstFound(w)
                 s == WithoutWindow(mon[o].stack, w)
                 r == Maintained([mon EXCEPT ![o].stack = s], mini, away, o)
      <4>1. o \in DOMAIN mon
        BY <3>2, FirstFoundIsThere DEF IInv
      <4>2. mon' = r
        BY <1>1, <3>2 DEF Close
      <4> HIDE DEF o
      <4>3. GoodStack(s) /\ Keys(s) = Keys(mon[o].stack)
        BY <4>1, StacksAreGood, WithoutWindowStack
      <4> HIDE DEF s
      <4>4. GoodMon(r) /\ DOMAIN r = DOMAIN mon /\ (\A p \in DOMAIN mon : Shows(r[p])) /\ HomesIn(r, mini, NoOutput)
        BY <2>2, <4>1, <4>3, WindowUpkeep
      <4> HIDE DEF r
      <4> QED BY <4>2, <4>4
    <3> QED BY <3>1, <3>2
  <2> QED BY <1>1, <1>3, <1>5, <2>1, <2>3, SameOutputs
<1> QED BY <1>4, <1>5

LEMMA MinimizeStep ==
    ASSUME IInv, NEW w \in Windows, NEW k, Minimize(w, k)
    PROVE  IInv'
<1> DEFINE o == FirstFound(w)
           mini == With(minimized, w, [output |-> o, key |-> k])
           s == WithoutWindow(mon[o].stack, w)
           r == Maintained([mon EXCEPT ![o].stack = s], mini, away, o)
<1>1. /\ w \in managed /\ Holds(o, k, w) /\ minimized' = mini /\ mon' = r
      /\ order' = order /\ focused' = focused /\ managed' = managed /\ away' = away
      /\ home' = Homed(mon', away, home)
  BY DEF Minimize
<1>2. o \in DOMAIN mon
  BY FirstFoundIsThere DEF IInv, Minimize
<1> HIDE DEF o
<1>3. GoodStack(mon[o].stack) /\ o \in Outputs
  BY <1>2, StacksAreGood
<1>4. k \in Keys(mon[o].stack)
  BY <1>1, <1>3, StackFacts DEF Holds
<1>5. /\ DOMAIN mini = DOMAIN minimized \cup {w} /\ mini = [v \in DOMAIN mini |-> mini[v]]
      /\ mini[w] = [output |-> o, key |-> k] /\ \A v \in DOMAIN minimized : v # w => mini[v] = minimized[v]
  BY DEF With
<1> HIDE DEF mini
<1>6. GoodMini(minimized) /\ HomesIn(mon, minimized, NoOutput) /\ OutputsShow /\ GoodAway(away)
  BY <1>2 DEF IInv, MinimizedAreManaged, MinimizedWait, RecordsAreKept
<1>7. GoodMini(mini)
  <2>1. ASSUME NEW v \in DOMAIN mini
        PROVE  mini[v] = [output |-> mini[v].output, key |-> mini[v].key] /\ mini[v].output \in Outputs
    <3>1. CASE v = w
      BY <1>3, <1>5, <3>1
    <3>2. CASE v # w
      BY <1>5, <1>6, <3>2 DEF GoodMini
    <3> QED BY <3>1, <3>2
  <2> QED BY <1>5, <2>1 DEF GoodMini
<1>8. HomesIn(mon, mini, NoOutput)
  <2>1. ASSUME NEW v \in DOMAIN mini PROVE mini[v].output = NoOutput \/ HasHome(mon, mini, v)
    <3>1. CASE v = w
      BY <1>2, <1>4, <1>5, <3>1 DEF HasHome
    <3>2. CASE v # w
      BY <1>5, <1>6, <3>2 DEF HomesIn, HasHome
    <3> QED BY <3>1, <3>2
  <2> QED BY <2>1 DEF HomesIn
<1>9. GoodStack(s) /\ Keys(s) = Keys(mon[o].stack)
  BY <1>3, WithoutWindowStack
<1> HIDE DEF s
<1>10. GoodMon(r) /\ DOMAIN r = DOMAIN mon /\ (\A p \in DOMAIN mon : Shows(r[p])) /\ HomesIn(r, mini, NoOutput)
  BY <1>2, <1>6, <1>8, <1>9, WindowUpkeep
<1> HIDE DEF r
<1>11. MinimizedAreManaged'
  BY <1>1, <1>5, <1>7 DEF IInv, MinimizedAreManaged
<1>12. focused' \in DOMAIN mon
  BY <1>1, <1>2 DEF IInv, FocusIsThere
<1> QED BY <1>1, <1>2, <1>10, <1>11, <1>12, SameOutputs

LEMMA RestoreStep ==
    ASSUME IInv, NEW w \in Windows, Restore(w)
    PROVE  IInv'
<1> DEFINE mini == Restrict(minimized, DOMAIN minimized \ {w})
           o == IF minimized[w].output \in DOMAIN mon THEN minimized[w].output ELSE focused
           s == WithWindow(mon[o].stack, mon[o].active, w)
           r == Maintained([mon EXCEPT ![o].stack = s], mini, away, o)
<1>1. /\ managed' = managed /\ minimized' = mini /\ order' = order /\ focused' = o /\ away' = away
      /\ mon' = (IF o = NoOutput THEN mon ELSE r)
      /\ home' = Homed(mon', away, home)
  BY DEF Restore
<1>2. /\ GoodMini(mini) /\ DOMAIN mini = DOMAIN minimized \ {w}
      /\ \A v \in DOMAIN mini : mini[v] = minimized[v]
      /\ \A ms, gone : HomesIn(ms, minimized, gone) => HomesIn(ms, mini, gone)
  BY FewerMinimized DEF IInv, MinimizedAreManaged
<1> HIDE DEF mini
<1>3. MinimizedAreManaged'
  BY <1>1, <1>2 DEF IInv, MinimizedAreManaged
<1>4. CASE DOMAIN mon = {}
  <2>1. o = focused /\ focused = NoOutput
    BY <1>4 DEF IInv, FocusIsThere
  <2>2. mon' = mon /\ focused' = focused
    BY <1>1, <2>1
  <2>3. WaitAway /\ RecordsAreKept /\ OutputsShow /\ OrderIsOfOutputs /\ FocusIsThere
    BY <1>4 DEF IInv, MinimizedWait
  <2>4. WaitAway'
    BY <1>1, <1>2, <2>3 DEF WaitAway
  <2>5. HomesAreKnown'
    <3>1. \A g \in DOMAIN away : \A x \in Range(away[g].stack) : x.id \in Identities(mon, away)
      BY IdentitiesOf
    <3>2. home \in [Identities(mon, away) -> Outputs] /\ GoodMon(mon)
      BY DEF IInv, HomesAreKnown, OutputsShow
    <3>3. Homed(mon, away, home) \in [Identities(mon, away) -> Outputs]
      BY <3>1, <3>2, HomedType
    <3> QED BY <1>1, <2>2, <3>3 DEF HomesAreKnown
  <2>6. RecordsAreKept' /\ OutputsShow' /\ OrderIsOfOutputs' /\ FocusIsThere' /\ MinimizedWait'
    BY <1>1, <1>4, <2>2, <2>3, <2>4
       DEF RecordsAreKept, OutputsShow, OrderIsOfOutputs, FocusIsThere, MinimizedWait
  <2> QED BY <1>3, <2>5, <2>6 DEF IInv
<1>5. CASE DOMAIN mon # {}
  <2>1. o \in DOMAIN mon
    BY <1>5 DEF IInv, FocusIsThere
  <2> HIDE DEF o
  <2>2. GoodStack(mon[o].stack) /\ o # NoOutput
    BY <2>1, StacksAreGood
  <2>3. GoodStack(s) /\ Keys(s) = Keys(mon[o].stack)
    BY <2>2, WithWindowStack
  <2> HIDE DEF s
  <2>4. OutputsShow /\ GoodAway(away) /\ HomesIn(mon, mini, NoOutput)
    BY <1>2, <1>5 DEF IInv, RecordsAreKept, MinimizedWait
  <2>5. GoodMon(r) /\ DOMAIN r = DOMAIN mon /\ (\A p \in DOMAIN mon : Shows(r[p])) /\ HomesIn(r, mini, NoOutput)
    BY <2>1, <2>3, <2>4, WindowUpkeep
  <2> HIDE DEF r
  <2>6. mon' = r
    BY <1>1, <2>2
  <2> QED BY <1>1, <1>3, <1>5, <2>1, <2>5, <2>6, SameOutputs
<1> QED BY <1>4, <1>5

\* The upkeep of two outputs, and the one the user goes to after that.
LEMMA UpkeepOfTwo ==
    ASSUME NEW ms, GoodMon(ms), NEW mini, HomesIn(ms, mini, NoOutput), NEW aw, GoodAway(aw),
           NEW o1, NEW o2 \in DOMAIN ms, \A p \in DOMAIN ms : p = o1 \/ p = o2 \/ Shows(ms[p]),
           NEW k \in Nat, NEW follow \in BOOLEAN, GoodMon(mon), GoodAway(away)
    PROVE  LET tidy == Maintained(Maintained(ms, mini, aw, o1), mini, aw, o2)
               r == IF follow THEN Shown(tidy, mini, aw, o2, k) ELSE tidy
           IN  /\ GoodMon(r) /\ DOMAIN r = DOMAIN ms
               /\ \A p \in DOMAIN ms : Shows(r[p])
               /\ HomesIn(r, mini, NoOutput)
<1> DEFINE m1 == Maintained(ms, mini, aw, o1)
           tidy == Maintained(m1, mini, aw, o2)
           shown == Shown(tidy, mini, aw, o2, k)
<1>1. /\ GoodMon(m1) /\ DOMAIN m1 = DOMAIN ms
      /\ \A p \in DOMAIN ms \ {o1} : m1[p] = ms[p]
      /\ \A p \in DOMAIN ms : p = o1 \/ Shows(ms[p]) => Shows(m1[p])
      /\ HomesIn(m1, mini, NoOutput)
  BY UpkeepKeepsHomes, Zenon
<1> HIDE DEF m1
<1>2. /\ GoodMon(tidy) /\ DOMAIN tidy = DOMAIN m1
      /\ \A p \in DOMAIN m1 \ {o2} : tidy[p] = m1[p]
      /\ \A p \in DOMAIN m1 : p = o2 \/ Shows(m1[p]) => Shows(tidy[p])
      /\ HomesIn(tidy, mini, NoOutput)
  <2>1. GoodMon(m1) /\ HomesIn(m1, mini, NoOutput)
    BY <1>1
  <2> QED BY <2>1, UpkeepKeepsHomes, Zenon
<1> HIDE DEF tidy
<1>3. GoodMon(tidy) /\ DOMAIN tidy = DOMAIN ms /\ (\A p \in DOMAIN ms : Shows(tidy[p])) /\ HomesIn(tidy, mini, NoOutput)
  BY <1>1, <1>2
<1>4. GoodMon(shown) /\ DOMAIN shown = DOMAIN ms /\ (\A p \in DOMAIN ms : Shows(shown[p])) /\ HomesIn(shown, mini, NoOutput)
  BY <1>3, ShownKeeps
<1> HIDE DEF shown
<1> QED BY <1>3, <1>4 DEF shown, tidy, m1

LEMMA MoveWindowStep ==
    ASSUME IInv, NEW w \in Windows, NEW o1 \in DOMAIN mon, NEW o2 \in DOMAIN mon, NEW k1,
           NEW k2 \in Keys(mon[o2].stack), NEW follow \in BOOLEAN, MoveWindow(w, o1, k1, o2, k2, follow)
    PROVE  IInv'
<1> DEFINE s1 == WithoutWindow(mon[o1].stack, w)
           taken == Stacked(mon, o1, s1)
           s2 == WithWindow(taken[o2].stack, k2, w)
           given == Stacked(taken, o2, s2)
           tidy == Maintained(Maintained(given, minimized, away, o1), minimized, away, o2)
           r == IF follow THEN Shown(tidy, minimized, away, o2, k2) ELSE tidy
<1>1. /\ mon' = r /\ focused' = (IF follow THEN o2 ELSE focused) /\ home' = Homed(mon', away, home)
      /\ order' = order /\ minimized' = minimized /\ managed' = managed /\ away' = away
  BY DEF MoveWindow, Stacked
<1>2. /\ GoodMon(mon) /\ (\A p \in DOMAIN mon : Shows(mon[p])) /\ GoodAway(away)
      /\ HomesIn(mon, minimized, NoOutput)
  BY DEF IInv, OutputsShow, RecordsAreKept, MinimizedWait
<1>3. GoodStack(s1) /\ Keys(s1) = Keys(mon[o1].stack)
  BY StacksAreGood, WithoutWindowStack
<1> HIDE DEF s1
<1>4. /\ GoodMon(taken) /\ DOMAIN taken = DOMAIN mon
      /\ taken[o1] = [stack |-> s1, active |-> mon[o1].active]
      /\ \A p \in DOMAIN mon : p # o1 => taken[p] = mon[p]
      /\ \A p \in DOMAIN mon : Keys(taken[p].stack) = Keys(mon[p].stack)
      /\ \A p \in DOMAIN mon : Shows(mon[p]) => Shows(taken[p])
  <2>1. GoodMon(mon) /\ GoodStack(s1) /\ Keys(s1) = Keys(mon[o1].stack)
    BY <1>2, <1>3
  <2>2. Restacked(taken, mon, o1, s1)
    BY <2>1, StackChanged
  <2> HIDE DEF taken
  <2> QED BY <2>2 DEF Restacked
<1> HIDE DEF taken
<1>5. GoodStack(s2) /\ Keys(s2) = Keys(taken[o2].stack)
  <2>1. GoodStack(taken[o2].stack)
    BY <1>4 DEF GoodMon, GoodOutput
  <2> QED BY <2>1, WithWindowStack
<1> HIDE DEF s2
<1>6. /\ GoodMon(given) /\ DOMAIN given = DOMAIN taken
      /\ \A p \in DOMAIN taken : Keys(given[p].stack) = Keys(taken[p].stack)
      /\ \A p \in DOMAIN taken : Shows(taken[p]) => Shows(given[p])
  <2>1. Restacked(given, taken, o2, s2)
    BY <1>4, <1>5, StackChanged
  <2> HIDE DEF given
  <2> QED BY <2>1 DEF Restacked
<1> HIDE DEF given
<1>7. DOMAIN given = DOMAIN mon /\ \A p \in DOMAIN mon : Shows(given[p])
  BY <1>2, <1>4, <1>6
<1>8. HomesIn(given, minimized, NoOutput)
  BY <1>2, <1>4, <1>6 DEF HomesIn, HasHome
<1>9. k2 \in Nat
  BY StacksAreGood, StackFacts
<1>10. /\ GoodMon(r) /\ DOMAIN r = DOMAIN given
       /\ \A p \in DOMAIN given : Shows(r[p])
       /\ HomesIn(r, minimized, NoOutput)
  BY <1>2, <1>6, <1>7, <1>8, <1>9, UpkeepOfTwo
<1> HIDE DEF r
<1>11. MinimizedAreManaged'
  BY <1>1 DEF IInv, MinimizedAreManaged
<1>12. focused' \in DOMAIN mon
  BY <1>1 DEF IInv, FocusIsThere
<1> QED BY <1>1, <1>7, <1>10, <1>11, <1>12, SameOutputs

LEMMA FocusWorkspaceStep ==
    ASSUME IInv, NEW o \in DOMAIN mon, NEW k \in Keys(mon[o].stack), FocusWorkspace(o, k)
    PROVE  IInv'
<1> DEFINE r == Shown(mon, minimized, away, o, k)
<1>1. /\ GoodMon(mon) /\ (\A p \in DOMAIN mon : Shows(mon[p])) /\ GoodAway(away)
      /\ HomesIn(mon, minimized, NoOutput)
  BY DEF IInv, OutputsShow, RecordsAreKept, MinimizedWait
<1>2. k \in Nat
  BY StacksAreGood, StackFacts
<1>3. GoodMon(r) /\ DOMAIN r = DOMAIN mon /\ (\A p \in DOMAIN mon : Shows(r[p])) /\ HomesIn(r, minimized, NoOutput)
  BY <1>1, <1>2, ShownKeeps
<1>4. /\ mon' = r /\ focused' = o /\ home' = Homed(mon', away, home)
      /\ order' = order /\ minimized' = minimized /\ managed' = managed /\ away' = away
  BY DEF FocusWorkspace
<1> HIDE DEF r
<1>5. MinimizedAreManaged'
  BY <1>4 DEF IInv, MinimizedAreManaged
<1> QED BY <1>3, <1>4, <1>5, SameOutputs

LEMMA FocusOutputStep ==
    ASSUME IInv, NEW o \in DOMAIN mon, FocusOutput(o)
    PROVE  IInv'
<1>1. FocusIsThere'
  BY StacksAreGood DEF FocusOutput, FocusIsThere
<1> QED BY <1>1 DEF FocusOutput, IInv, OutputsShow, OrderIsOfOutputs, MinimizedAreManaged,
                    RecordsAreKept, MinimizedWait, WaitAway, HomesAreKnown

\* The records change and name nothing they did not; else as SameOutputs.
LEMMA SameHosts ==
    ASSUME IInv, DOMAIN mon # {}, order' = order,
           GoodMon(mon'), DOMAIN mon' = DOMAIN mon, \A o \in DOMAIN mon : Shows(mon'[o]),
           focused' \in DOMAIN mon, MinimizedAreManaged', HomesIn(mon', minimized', NoOutput),
           GoodAway(away'), DOMAIN away' = DOMAIN away, \A g \in DOMAIN away : away'[g].host = away[g].host,
           HomesAreKnown'
    PROVE  IInv'
<1>1. OutputsShow' /\ OrderIsOfOutputs' /\ MinimizedWait'
  BY DEF IInv, OutputsShow, OrderIsOfOutputs, MinimizedWait
<1>2. FocusIsThere'
  <2>1. NoOutput \notin DOMAIN mon
    BY OutputsAssumption DEF IInv, OutputsShow, GoodMon
  <2> QED BY <2>1 DEF FocusIsThere
<1>3. RecordsAreKept'
  <2>1. \A g \in DOMAIN away : away[g].host # NoOutput
    BY DEF IInv, RecordsAreKept
  <2>2. \A g \in DOMAIN away' : away'[g].host # NoOutput
    BY <2>1
  <2>3. DOMAIN away \cap DOMAIN mon = {}
    BY DEF IInv, RecordsAreKept
  <2> QED BY <2>2, <2>3 DEF RecordsAreKept, OneHomeless, WaitsWell
<1> QED BY <1>1, <1>2, <1>3 DEF IInv

LEMMA NameWorkspaceStep ==
    ASSUME IInv, NEW o \in DOMAIN mon, NEW k, NEW name \in Names \cup {NoName}, NameWorkspace(o, k, name)
    PROVE  IInv'
<1> DEFINE id == At(mon[o].stack, k).id
           aw == [g \in DOMAIN away |-> [away[g] EXCEPT !.stack = Rename(away[g].stack, id, name)]]
           s == OnKey(mon[o].stack, k, LAMBDA x : [x EXCEPT !.name = name])
           r == Maintained([mon EXCEPT ![o].stack = s], minimized, aw, o)
<1>1. /\ away' = aw /\ mon' = r /\ home' = Homed(mon', away', home)
      /\ order' = order /\ focused' = focused /\ minimized' = minimized /\ managed' = managed
  BY DEF NameWorkspace
<1>2. /\ OutputsShow /\ GoodAway(away) /\ HomesIn(mon, minimized, NoOutput)
  BY DEF IInv, RecordsAreKept, MinimizedWait
<1>3. ASSUME NEW g \in DOMAIN away
      PROVE  /\ GoodRecord(aw[g]) /\ aw[g].host = away[g].host
             /\ \A y \in Range(aw[g].stack) : \E x \in Range(away[g].stack) : x.id = y.id
  <2> DEFINE t == Rename(away[g].stack, id, name)
  <2>1. GoodRecord(away[g])
    BY <1>2 DEF GoodAway
  <2>2. GoodStack(t) /\ \A y \in Range(t) : \E x \in Range(away[g].stack) : x.id = y.id
    BY <2>1, RenamedStack DEF GoodRecord
  <2>3. aw[g] = [away[g] EXCEPT !.stack = t]
    OBVIOUS
  <2> HIDE DEF t, aw
  <2>4. away[g] = [stack |-> away[g].stack, active |-> away[g].active, host |-> away[g].host,
                   moved |-> away[g].moved, minimized |-> away[g].minimized]
    BY <2>1 DEF GoodRecord
  <2>5. aw[g] = [stack |-> t, active |-> away[g].active, host |-> away[g].host,
                   moved |-> away[g].moved, minimized |-> away[g].minimized]
    BY <2>3, <2>4
  <2>6. GoodRecord(aw[g])
    BY <2>1, <2>2, <2>5 DEF GoodRecord
  <2> QED BY <2>2, <2>5, <2>6
<1>4. DOMAIN aw = DOMAIN away /\ aw = [g \in DOMAIN aw |-> aw[g]]
  OBVIOUS
<1> HIDE DEF aw
<1>5. GoodAway(aw)
  BY <1>2, <1>3, <1>4 DEF GoodAway
<1>6. GoodStack(s) /\ Keys(s) = Keys(mon[o].stack)
  BY StacksAreGood, NamedStack
<1> HIDE DEF s
<1>7. GoodMon(r) /\ DOMAIN r = DOMAIN mon /\ (\A p \in DOMAIN mon : Shows(r[p])) /\ HomesIn(r, minimized, NoOutput)
  BY <1>2, <1>5, <1>6, WindowUpkeep
<1> HIDE DEF r
<1>8. MinimizedAreManaged'
  BY <1>1 DEF IInv, MinimizedAreManaged
<1>9. focused' \in DOMAIN mon
  BY <1>1 DEF IInv, FocusIsThere
<1>10. HomesAreKnown'
  <2>1. \A g \in DOMAIN aw : \A y \in Range(aw[g].stack) : y.id \in Identities(mon, away)
    BY <1>3, <1>4, IdentitiesOf
  <2>2. home \in [Identities(mon, away) -> Outputs]
    BY DEF IInv, HomesAreKnown
  <2>3. Homed(r, aw, home) \in [Identities(r, aw) -> Outputs]
    BY <1>7, <2>1, <2>2, HomedType
  <2> QED BY <1>1, <2>3 DEF HomesAreKnown
<1> QED BY <1>1, <1>3, <1>4, <1>5, <1>7, <1>8, <1>9, <1>10, SameHosts

\* A workspace is taken off a stack.
LEMMA TakenOff ==
    ASSUME NEW s, GoodStack(s), NEW k \in Keys(s)
    PROVE  LET i == PlaceOf(s, k) IN
           /\ i \in 1 .. Len(s) /\ s[i] = At(s, k)
           /\ GoodStack(RemoveAt(s, i)) /\ Range(RemoveAt(s, i)) = Range(s) \ {At(s, k)}
           /\ \A h \in Keys(s) : h = k \/ h \in Keys(RemoveAt(s, i))
           /\ RemoveAt(s, i) # <<>> => RemoveAt(s, i)[Min({i, Len(RemoveAt(s, i))})].key \in Nat
<1> DEFINE i == PlaceOf(s, k)
           rest == RemoveAt(s, i)
<1>1. DOMAIN s = 1 .. Len(s)
  BY DEF GoodStack
<1>2. i \in 1 .. Len(s) /\ s[i].key = k
  BY <1>1 DEF Keys, PlaceOf
<1>3. s[i] = At(s, k)
  BY DEF At
<1> HIDE DEF i
<1>4. GoodStack(rest) /\ Range(rest) = Range(s) \ {s[i]}
  BY <1>2, RemoveStack
<1> HIDE DEF rest
<1>5. ASSUME NEW h \in Keys(s), h # k PROVE h \in Keys(rest)
  <2>1. PICK x \in Range(s) : x.key = h
    BY StackFacts
  <2>2. x \in Range(rest)
    BY <1>2, <1>4, <1>5, <2>1
  <2> QED BY <1>4, <2>1, <2>2, StackFacts
<1>6. ASSUME rest # <<>> PROVE rest[Min({i, Len(rest)})].key \in Nat
  <2> DEFINE I == {i, Len(rest)}
             n == Min(I)
  <2>1. rest \in Seq(WorkspaceType) /\ Len(rest) \in Nat
    BY <1>4 DEF GoodStack
  <2>2. Len(rest) # 0
    BY <1>6, <2>1, EmptySeq
  <2>3. I \in SUBSET Nat /\ I # {} /\ Len(rest) \in I /\ \A m \in I : 1 <= m
    BY <1>2, <2>1, <2>2
  <2> HIDE DEF I
  <2>4. n \in I /\ n <= Len(rest)
    BY <2>3, MinOfSet
  <2> HIDE DEF n
  <2>5. n \in 1 .. Len(rest)
    BY <2>1, <2>3, <2>4
  <2>6. rest[n] \in Range(rest)
    BY <2>1, <2>5, RangeOf
  <2>7. rest[n].key \in Nat
    BY <1>4, <2>6, StackFacts
  <2> QED BY <2>7 DEF n, I
<1>7. Range(rest) = Range(s) \ {At(s, k)}
  BY <1>3, <1>4
<1> QED BY <1>2, <1>3, <1>4, <1>5, <1>6, <1>7 DEF rest, i

\* t is m with the workspace x too, under the key.
HasToo(t, m, x, key) ==
    \E y : /\ Range(t.stack) = Range(m.stack) \cup {y}
           /\ y.key = key /\ y.id = x.id /\ y.name = x.name /\ y.wins = x.wins

\* A workspace is put on the stack of another output, under a free key.
LEMMA PutOn ==
    ASSUME NEW m, GoodOutput(m), Shows(m), NEW x \in WorkspaceType
    PROVE  LET trailing == Last(m.stack).name = NoName /\ Last(m.stack).wins = {}
               key == NextKey(m.stack)
               t == [m EXCEPT !.stack = Spliced(@, Len(@) + (IF trailing THEN 0 ELSE 1), <<[x EXCEPT !.key = key]>>)]
           IN  /\ GoodOutput(t) /\ Shows(t) /\ key \in Nat /\ key \in Keys(t.stack)
               /\ Keys(m.stack) \subseteq Keys(t.stack) /\ HasToo(t, m, x, key)
<1> DEFINE s == m.stack
           trailing == Last(s).name = NoName /\ Last(s).wins = {}
           key == NextKey(s)
           y == [x EXCEPT !.key = key]
           p == Len(s) + (IF trailing THEN 0 ELSE 1)
           spliced == Spliced(s, p, <<y>>)
           t == [m EXCEPT !.stack = spliced]
<1>1. GoodStack(s) /\ m.active \in Keys(s) /\ m.active \in Nat /\ m = [stack |-> s, active |-> m.active]
  BY DEF GoodOutput, Shows
<1>2. key \in Nat /\ \A k \in Keys(s) : k < key
  BY <1>1, NextKeyIsFree
<1> HIDE DEF key
<1>3. y \in WorkspaceType /\ y.key = key /\ y.id = x.id /\ y.name = x.name /\ y.wins = x.wins
  <2>1. /\ x.id \in Nat /\ x.name \in Names \cup {NoName} /\ x.wins \subseteq Windows
        /\ x = [key |-> x.key, id |-> x.id, name |-> x.name, wins |-> x.wins]
    BY Fields
  <2>2. y = [key |-> key, id |-> x.id, name |-> x.name, wins |-> x.wins]
    BY <2>1
  <2> HIDE DEF y
  <2> QED BY <1>2, <2>1, <2>2 DEF WorkspaceType
<1> HIDE DEF y
<1>4. p \in 1 .. Len(s) + 1
  <2>1. s \in Seq(WorkspaceType) /\ s # <<>>
    BY <1>1, StackFacts DEF GoodStack
  <2>2. PICK n \in Nat : n = Len(s)
    BY <2>1
  <2>3. n # 0
    BY <2>1, <2>2, EmptySeq
  <2> HIDE DEF s, trailing
  <2>4. p = n \/ p = n + 1
    <3>1. CASE trailing
      <4>1. (IF trailing THEN 0 ELSE 1) = 0
        BY <3>1, Zenon
      <4>2. p = n + 0
        BY <2>2, <4>1
      <4> QED BY <4>2
    <3>2. CASE ~trailing
      <4>1. (IF trailing THEN 0 ELSE 1) = 1
        BY <3>2, Zenon
      <4> QED BY <2>2, <4>1
    <3> QED BY <3>1, <3>2
  <2> HIDE DEF p
  <2> QED BY <2>2, <2>3, <2>4
<1> HIDE DEF p
<1>5. GoodStack(<<y>>) /\ Keys(<<y>>) = {key}
  BY <1>3 DEF GoodStack, Keys
<1>6. Keys(s) \cap Keys(<<y>>) = {}
  <2>1. key \notin Keys(s)
    <3>1. Keys(s) \subseteq Nat
      BY <1>1, CountKeys
    <3> QED BY <1>2, <3>1
  <2> QED BY <1>5, <2>1
<1>7. GoodStack(spliced) /\ Keys(spliced) = Keys(s) \cup Keys(<<y>>) /\ Range(spliced) = Range(s) \cup {y}
  <2> DEFINE b == <<y>>
  <2>1. GoodStack(b) /\ Keys(s) \cap Keys(b) = {}
    BY <1>5, <1>6
  <2> HIDE DEF b
  <2>2. /\ GoodStack(Spliced(s, p, b)) /\ Keys(Spliced(s, p, b)) = Keys(s) \cup Keys(b)
        /\ Range(Spliced(s, p, b)) = Range(s) \cup Range(b)
    BY <1>1, <1>4, <2>1, SpliceStack
  <2>3. Range(b) = {y}
    BY DEF Range, b
  <2> QED BY <2>2, <2>3 DEF b
<1> HIDE DEF spliced
<1>8. t = [stack |-> spliced, active |-> m.active]
  BY <1>1
<1> HIDE DEF t
<1>9. GoodOutput(t) /\ Shows(t) /\ key \in Keys(t.stack) /\ Keys(s) \subseteq Keys(t.stack)
  BY <1>1, <1>5, <1>7, <1>8 DEF GoodOutput, Shows
<1>10. HasToo(t, m, x, key)
  BY <1>3, <1>7, <1>8 DEF HasToo
<1> QED BY <1>2, <1>9, <1>10 DEF t, spliced, p, y, key

LEMMA MoveWorkspaceStep ==
    ASSUME IInv, NEW o1 \in DOMAIN mon, NEW k1 \in Keys(mon[o1].stack), NEW o2 \in DOMAIN mon,
           MoveWorkspaceToMonitor(o1, k1, o2)
    PROVE  IInv'
<1> DEFINE ws == At(mon[o1].stack, k1)
           i == PlaceOf(mon[o1].stack, k1)
           rest == RemoveAt(mon[o1].stack, i)
           next == IF mon[o1].active # k1 \/ rest = <<>> THEN mon[o1].active ELSE rest[Min({i, Len(rest)})].key
           m == mon[o2]
           trailing == Last(m.stack).name = NoName /\ Last(m.stack).wins = {}
           key == NextKey(m.stack)
           given == [m EXCEPT !.stack = Spliced(@, Len(@) + (IF trailing THEN 0 ELSE 1), <<[ws EXCEPT !.key = key]>>)]
           ms == [mon EXCEPT ![o1] = [stack |-> rest, active |-> next], ![o2] = given]
           mini == [w \in DOMAIN minimized |->
                      IF minimized[w] = [output |-> o1, key |-> k1] THEN [output |-> o2, key |-> key] ELSE minimized[w]]
           forgotten(g) == {x.key : x \in {y \in Range(away[g].stack) : y.id = ws.id}}
           stackOf(g) == Dropped(away[g].stack, {x \in Range(away[g].stack) : x.id = ws.id})
           movedOf(g) == Dropped(away[g].moved, {p \in Range(away[g].moved) : p[1] \in forgotten(g)})
           aw == [g \in DOMAIN away |-> [away[g] EXCEPT !.stack = stackOf(g), !.moved = movedOf(g)]]
           tidy == Maintained(Maintained(ms, mini, aw, o1), mini, aw, o2)
           follow == focused = o1 /\ mon[o1].active = k1
           r == IF follow THEN Shown(tidy, mini, aw, o2, key) ELSE tidy
<1>1. /\ o1 # o2 /\ mon' = r /\ focused' = (IF follow THEN o2 ELSE focused)
      /\ minimized' = mini /\ away' = aw /\ home' = Homed(mon', aw, [home EXCEPT ![ws.id] = o2])
      /\ order' = order /\ managed' = managed
  BY DEF MoveWorkspaceToMonitor
<1>2. /\ GoodMon(mon) /\ (\A p \in DOMAIN mon : GoodOutput(mon[p]) /\ Shows(mon[p])) /\ GoodAway(away)
      /\ HomesIn(mon, minimized, NoOutput) /\ GoodMini(minimized)
  BY DEF IInv, OutputsShow, RecordsAreKept, MinimizedWait, MinimizedAreManaged, GoodMon
<1>3. GoodStack(mon[o1].stack) /\ mon[o1].active \in Nat
  BY <1>2 DEF GoodOutput
<1>4. /\ i \in 1 .. Len(mon[o1].stack) /\ mon[o1].stack[i] = ws /\ GoodStack(rest)
      /\ \A h \in Keys(mon[o1].stack) : h = k1 \/ h \in Keys(rest)
      /\ rest # <<>> => rest[Min({i, Len(rest)})].key \in Nat
  <2> DEFINE s == mon[o1].stack
             j == PlaceOf(s, k1)
             left == RemoveAt(s, j)
  <2>1. GoodStack(s) /\ k1 \in Keys(s)
    BY <1>3
  <2> HIDE DEF s
  <2>2. /\ j \in 1 .. Len(s) /\ s[j] = At(s, k1)
        /\ GoodStack(left) /\ Range(left) = Range(s) \ {At(s, k1)}
        /\ \A h \in Keys(s) : h = k1 \/ h \in Keys(left)
        /\ left # <<>> => left[Min({j, Len(left)})].key \in Nat
    BY <2>1, TakenOff, Zenon
  <2>3. i = j /\ rest = left /\ ws = At(s, k1)
    BY DEF s
  <2> HIDE DEF i, j, rest, left, ws
  <2> QED BY <2>2, <2>3 DEF s
<1>5. next \in Nat
  BY <1>3, <1>4
<1>6. ws \in WorkspaceType
  BY <1>3, StackFacts
<1> HIDE DEF ws, i, rest, next
<1>7. GoodOutput(given) /\ Shows(given) /\ key \in Nat /\ key \in Keys(given.stack) /\ Keys(m.stack) \subseteq Keys(given.stack)
  <2>1. GoodOutput(m) /\ Shows(m)
    BY <1>2
  <2> HIDE DEF m
  <2> QED BY <1>6, <2>1, PutOn
<1> HIDE DEF given, key
<1>8. /\ DOMAIN ms = DOMAIN mon /\ ms = [p \in DOMAIN ms |-> ms[p]]
      /\ ms[o1] = [stack |-> rest, active |-> next] /\ ms[o2] = given
      /\ \A p \in DOMAIN mon : p # o1 /\ p # o2 => ms[p] = mon[p]
  <2>1. mon = [p \in DOMAIN mon |-> mon[p]]
    BY <1>2 DEF GoodMon
  <2> QED BY <1>1, <2>1
<1> HIDE DEF ms
<1>9. GoodMon(ms)
  <2>1. GoodOutput(ms[o1])
    BY <1>4, <1>5, <1>8 DEF GoodOutput
  <2>2. \A p \in DOMAIN ms : GoodOutput(ms[p])
    BY <1>2, <1>7, <1>8, <2>1
  <2> QED BY <1>2, <1>8, <2>2 DEF GoodMon
<1>10. \A p \in DOMAIN ms : p = o1 \/ p = o2 \/ Shows(ms[p])
  BY <1>2, <1>8
<1>11. /\ DOMAIN mini = DOMAIN minimized /\ mini = [w \in DOMAIN mini |-> mini[w]]
       /\ \A w \in DOMAIN minimized :
            mini[w] = IF minimized[w] = [output |-> o1, key |-> k1] THEN [output |-> o2, key |-> key] ELSE minimized[w]
  OBVIOUS
<1> HIDE DEF mini
<1>12. ASSUME NEW w \in DOMAIN minimized
       PROVE  /\ mini[w] = [output |-> mini[w].output, key |-> mini[w].key] /\ mini[w].output \in Outputs
              /\ HasHome(ms, mini, w)
  <2>1. CASE minimized[w] = [output |-> o1, key |-> k1]
    <3>1. mini[w] = [output |-> o2, key |-> key]
      BY <1>11, <2>1
    <3>2. o2 \in Outputs
      BY StacksAreGood
    <3> QED BY <1>7, <1>8, <3>1, <3>2 DEF HasHome
  <2>2. CASE minimized[w] # [output |-> o1, key |-> k1]
    <3>1. mini[w] = minimized[w]
      BY <1>11, <2>2
    <3>2. minimized[w] = [output |-> minimized[w].output, key |-> minimized[w].key] /\ minimized[w].output \in Outputs
      BY <1>2 DEF GoodMini
    <3>3. HasHome(mon, minimized, w)
      BY <1>2, <3>2, OutputsAssumption DEF HomesIn
    <3>4. CASE minimized[w].output = o1
      <4>1. minimized[w].key # k1
        BY <2>2, <3>2, <3>4
      <4>2. minimized[w].key \in Keys(rest)
        BY <1>4, <3>3, <3>4, <4>1 DEF HasHome
      <4> QED BY <1>8, <3>1, <3>2, <3>4, <4>2 DEF HasHome
    <3>5. CASE minimized[w].output = o2
      BY <1>7, <1>8, <3>1, <3>2, <3>3, <3>5 DEF HasHome
    <3>6. CASE minimized[w].output # o1 /\ minimized[w].output # o2
      BY <1>8, <3>1, <3>2, <3>3, <3>6 DEF HasHome
    <3> QED BY <3>4, <3>5, <3>6
  <2> QED BY <2>1, <2>2
<1>13. GoodMini(mini) /\ HomesIn(ms, mini, NoOutput)
  BY <1>11, <1>12 DEF GoodMini, HomesIn
<1>14. ASSUME NEW g \in DOMAIN away
       PROVE  /\ GoodRecord(aw[g]) /\ aw[g].host = away[g].host
              /\ \A x \in Range(aw[g].stack) : x \in Range(away[g].stack)
  <2>1. GoodRecord(away[g])
    BY <1>2 DEF GoodAway
  <2>2. GoodStack(stackOf(g)) /\ \A x \in Range(stackOf(g)) : x \in Range(away[g].stack)
    <3> DEFINE S == {x \in Range(away[g].stack) : x.id = ws.id}
    <3>1. stackOf(g) = Dropped(away[g].stack, S)
      OBVIOUS
    <3> HIDE DEF S, stackOf
    <3> QED BY <2>1, <3>1, DropStack DEF GoodRecord
  <2>3. movedOf(g) \in Seq(Nat \X Nat)
    <3> DEFINE S == {p \in Range(away[g].moved) : p[1] \in forgotten(g)}
    <3>1. movedOf(g) = Dropped(away[g].moved, S)
      OBVIOUS
    <3> HIDE DEF S, movedOf
    <3> QED BY <2>1, <3>1, DroppedSet DEF GoodRecord
  <2>4. aw[g] = [away[g] EXCEPT !.stack = stackOf(g), !.moved = movedOf(g)]
    OBVIOUS
  <2> HIDE DEF aw, stackOf, movedOf
  <2>5. away[g] = [stack |-> away[g].stack, active |-> away[g].active, host |-> away[g].host,
                   moved |-> away[g].moved, minimized |-> away[g].minimized]
    BY <2>1 DEF GoodRecord
  <2>6. aw[g] = [stack |-> stackOf(g), active |-> away[g].active, host |-> away[g].host,
                 moved |-> movedOf(g), minimized |-> away[g].minimized]
    BY <2>4, <2>5
  <2>7. GoodRecord(aw[g])
    BY <2>1, <2>2, <2>3, <2>6 DEF GoodRecord
  <2> QED BY <2>2, <2>6, <2>7
<1>15. DOMAIN aw = DOMAIN away /\ aw = [g \in DOMAIN aw |-> aw[g]]
  OBVIOUS
<1> HIDE DEF aw
<1>16. GoodAway(aw)
  BY <1>2, <1>14, <1>15 DEF GoodAway
<1>17. /\ GoodMon(r) /\ DOMAIN r = DOMAIN ms
       /\ \A p \in DOMAIN ms : Shows(r[p])
       /\ HomesIn(r, mini, NoOutput)
  <2>1. key \in Nat /\ follow \in BOOLEAN /\ o2 \in DOMAIN ms
    BY <1>7, <1>8
  <2> HIDE DEF follow
  <2> QED BY <1>2, <1>9, <1>10, <1>13, <1>16, <2>1, UpkeepOfTwo
<1> HIDE DEF r
<1>18. MinimizedAreManaged'
  BY <1>1, <1>11, <1>13 DEF IInv, MinimizedAreManaged
<1>19. focused' \in DOMAIN mon
  BY <1>1 DEF IInv, FocusIsThere
<1>20. HomesAreKnown'
  <2> DEFINE old == [home EXCEPT ![ws.id] = o2]
             D == Identities(mon, away)
  <2>1. \A g \in DOMAIN aw : \A x \in Range(aw[g].stack) : x.id \in D
    BY <1>14, <1>15, IdentitiesOf
  <2>2. old \in [D -> Outputs]
    <3>1. home \in [D -> Outputs] /\ o2 \in Outputs
      BY StacksAreGood DEF IInv, HomesAreKnown
    <3> HIDE DEF D
    <3> QED BY <3>1
  <2> HIDE DEF D, old
  <2>3. Homed(r, aw, old) \in [Identities(r, aw) -> Outputs]
    BY <1>17, <2>1, <2>2, HomedType
  <2>4. home' = Homed(r, aw, old)
    BY <1>1 DEF old
  <2> QED BY <1>1, <2>3, <2>4 DEF HomesAreKnown
<1> QED BY <1>1, <1>8, <1>13, <1>14, <1>15, <1>16, <1>17, <1>18, <1>19, <1>20, SameHosts

LEMMA RecordAdded ==
    ASSUME NEW aw, GoodAway(aw), NEW o \in Outputs, NEW r, GoodRecord(r)
    PROVE  /\ GoodAway(With(aw, o, r)) /\ DOMAIN With(aw, o, r) = DOMAIN aw \cup {o}
           /\ With(aw, o, r)[o] = r /\ \A g \in DOMAIN aw : g # o => With(aw, o, r)[g] = aw[g]
<1> DEFINE a == With(aw, o, r)
<1>1. /\ DOMAIN a = DOMAIN aw \cup {o} /\ a = [g \in DOMAIN a |-> a[g]]
      /\ a[o] = r /\ \A g \in DOMAIN aw : g # o => a[g] = aw[g]
  BY DEF With
<1> HIDE DEF a
<1>2. IsFiniteSet(DOMAIN a) /\ DOMAIN a \subseteq Outputs
  BY <1>1, FS_AddElement DEF GoodAway
<1>3. \A g \in DOMAIN a : GoodRecord(a[g])
  BY <1>1 DEF GoodAway
<1>4. GoodAway(a)
  BY <1>1, <1>2, <1>3 DEF GoodAway
<1> QED BY <1>1, <1>4 DEF a

LEMMA OutputRemoved ==
    ASSUME NEW ms, GoodMon(ms), NEW o
    PROVE  LET ns == Restrict(ms, DOMAIN ms \ {o}) IN
           GoodMon(ns) /\ DOMAIN ns = DOMAIN ms \ {o} /\ \A p \in DOMAIN ns : ns[p] = ms[p]
<1> DEFINE ns == Restrict(ms, DOMAIN ms \ {o})
<1>1. /\ DOMAIN ns = DOMAIN ms \ {o} /\ ns = [p \in DOMAIN ns |-> ns[p]]
      /\ \A p \in DOMAIN ns : ns[p] = ms[p]
  BY DEF Restrict
<1> HIDE DEF ns
<1>2. IsFiniteSet(DOMAIN ns)
  BY <1>1, FS_Subset DEF GoodMon
<1>3. GoodMon(ns)
  BY <1>1, <1>2 DEF GoodMon
<1> QED BY <1>1, <1>3 DEF ns

\* The output the user goes to when o goes, if there is one.
NextHost(o) ==
    IF focused # o THEN focused ELSE IF Without(order, o) # <<>> THEN Head(Without(order, o)) ELSE NoOutput

LEMMA OrderWithout ==
    ASSUME IInv, NEW o \in DOMAIN mon
    PROVE  /\ Without(order, o) \in Seq(Outputs) /\ IsInjective(Without(order, o))
           /\ Range(Without(order, o)) = DOMAIN mon \ {o}
           /\ NextHost(o) \in (DOMAIN mon \ {o}) \cup {NoOutput}
           /\ NextHost(o) = NoOutput <=> DOMAIN mon \ {o} = {}
<1> DEFINE left == Without(order, o)
<1>1. order \in Seq(Outputs) /\ IsInjective(order) /\ Range(order) = DOMAIN mon
  BY DEF IInv, OrderIsOfOutputs
<1>2. left \in Seq(Outputs) /\ IsInjective(left) /\ ToSet(left) = ToSet(order) \ {o}
  <2>1. left = Dropped(order, {o})
    BY DEF Without
  <2> HIDE DEF left
  <2> QED BY <1>1, <2>1, DroppedSet
<1> HIDE DEF left
<1>3. Range(left) = DOMAIN mon \ {o}
  <2>1. Range(left) = ToSet(left) /\ Range(order) = ToSet(order)
    BY <1>1, <1>2, RangeOf
  <2> QED BY <1>1, <1>2, <2>1
<1>4. left = <<>> <=> DOMAIN mon \ {o} = {}
  BY <1>2, <1>3, RangeOf
<1>5. left # <<>> => Head(left) \in DOMAIN mon \ {o}
  <2> SUFFICES ASSUME left # <<>> PROVE Head(left) \in Range(left)
    BY <1>3
  <2> QED BY <1>2 DEF Range
<1>6. NextHost(o) = IF focused # o THEN focused ELSE IF left # <<>> THEN Head(left) ELSE NoOutput
  BY DEF NextHost, left
<1>7. focused \in DOMAIN mon /\ NoOutput \notin DOMAIN mon
  BY OutputsAssumption DEF IInv, FocusIsThere, OutputsShow, GoodMon
<1>8. /\ NextHost(o) \in (DOMAIN mon \ {o}) \cup {NoOutput}
      /\ NextHost(o) = NoOutput <=> DOMAIN mon \ {o} = {}
  BY <1>4, <1>5, <1>6, <1>7
<1> QED BY <1>2, <1>3, <1>8 DEF left

LEMMA LastUnregistered ==
    ASSUME IInv, NEW o, Unregister(o), NextHost(o) = NoOutput
    PROVE  IInv'
<1> DEFINE ms == Restrict(mon, DOMAIN mon \ {o})
           r == [stack |-> mon[o].stack, active |-> mon[o].active, host |-> NoOutput, moved |-> <<>>, minimized |-> {}]
           aw == With(away, o, r)
<1>1. /\ o \in DOMAIN mon /\ order' = Without(order, o) /\ focused' = NoOutput /\ mon' = ms /\ away' = aw
      /\ minimized' = minimized /\ managed' = managed /\ home' = Homed(mon', away', home)
  BY DEF Unregister, NextHost
<1>2. DOMAIN mon = {o}
  BY <1>1, OrderWithout
<1>3. GoodMon(ms) /\ DOMAIN ms = {}
  <2>1. GoodMon(ms) /\ DOMAIN ms = DOMAIN mon \ {o}
    BY OutputRemoved DEF IInv, OutputsShow
  <2> QED BY <1>2, <2>1
<1> HIDE DEF ms
<1>4. GoodStack(mon[o].stack) /\ mon[o].active \in Keys(mon[o].stack) /\ o \in Outputs
  BY <1>1, StacksAreGood
<1>5. GoodRecord(r)
  BY <1>4 DEF GoodRecord
<1>6. GoodAway(away) /\ (\A g \in DOMAIN away : away[g].host # NoOutput /\ WaitsWell(away[g]))
      /\ HomesIn(mon, minimized, NoOutput)
  BY <1>1 DEF IInv, RecordsAreKept, MinimizedWait
<1>7. r.stack = mon[o].stack /\ r.host = NoOutput /\ WaitsWell(r)
  BY <1>4 DEF WaitsWell
<1> HIDE DEF r
<1>8. /\ GoodAway(aw) /\ DOMAIN aw = DOMAIN away \cup {o}
      /\ aw[o] = r /\ \A g \in DOMAIN away : g # o => aw[g] = away[g]
  BY <1>4, <1>5, <1>6, RecordAdded
<1> HIDE DEF aw
<1>9. OutputsShow'
  BY <1>1, <1>3 DEF OutputsShow
<1>10. OrderIsOfOutputs'
  BY <1>1, <1>2, <1>3, OrderWithout DEF OrderIsOfOutputs
<1>11. FocusIsThere'
  BY <1>1, <1>3 DEF FocusIsThere
<1>12. MinimizedAreManaged'
  BY <1>1 DEF IInv, MinimizedAreManaged
<1>13. RecordsAreKept'
  <2>1. \A g \in DOMAIN aw : aw[g].host = NoOutput => g = o
    BY <1>6, <1>8
  <2>2. \A g \in DOMAIN aw : WaitsWell(aw[g])
    BY <1>6, <1>7, <1>8
  <2> QED BY <1>1, <1>3, <1>8, <2>1, <2>2 DEF RecordsAreKept, OneHomeless
<1>14. WaitAway'
  <2>1. ASSUME NEW w \in DOMAIN minimized
        PROVE  minimized[w].output = o /\ minimized[w].key \in Keys(mon[o].stack)
    <3>1. HasHome(mon, minimized, w)
      BY <1>6, OutputsAssumption DEF HomesIn, IInv, MinimizedAreManaged, GoodMini
    <3> QED BY <1>2, <3>1 DEF HasHome
  <2> QED BY <1>1, <1>7, <1>8, <2>1 DEF WaitAway
<1>15. MinimizedWait'
  BY <1>1, <1>3, <1>14 DEF MinimizedWait
<1>16. HomesAreKnown'
  <2> DEFINE D == Identities(mon, away)
  <2>1. \A g \in DOMAIN aw : \A x \in Range(aw[g].stack) : x.id \in D
    BY <1>1, <1>7, <1>8, IdentitiesOf
  <2>2. home \in [D -> Outputs]
    BY DEF IInv, HomesAreKnown
  <2> HIDE DEF D
  <2>3. Homed(ms, aw, home) \in [Identities(ms, aw) -> Outputs]
    BY <1>3, <2>1, <2>2, HomedType
  <2> QED BY <1>1, <2>3 DEF HomesAreKnown
<1> QED BY <1>9, <1>10, <1>11, <1>12, <1>13, <1>15, <1>16 DEF IInv

LEMMA OneUnregistered ==
    ASSUME IInv, NEW o, Unregister(o), NextHost(o) # NoOutput
    PROVE  IInv'
<1> DEFINE ms == Restrict(mon, DOMAIN mon \ {o})
           host == NextHost(o)
           parked == Parked(ms, minimized, o, mon[o].stack, host)
           r == [stack |-> mon[o].stack, active |-> mon[o].active, host |-> host, moved |-> parked.moved,
                 minimized |-> parked.left]
           kept == With(away, o, r)
           tidy == Maintained(parked.mon, parked.minimized, kept, host)
           bound == Rebound(tidy, away, parked.minimized, o, host)
           aw == With(bound.away, o, r)
<1>1. /\ o \in DOMAIN mon /\ order' = Without(order, o) /\ focused' = host /\ mon' = tidy /\ away' = aw
      /\ minimized' = bound.minimized /\ managed' = managed /\ home' = Homed(mon', away', home)
  BY DEF Unregister, NextHost
<1>2. /\ GoodMon(mon) /\ (\A p \in DOMAIN mon : Shows(mon[p])) /\ GoodMini(minimized)
      /\ HomesIn(mon, minimized, NoOutput) /\ GoodAway(away)
      /\ \A g \in DOMAIN away : away[g].host # NoOutput
      /\ DOMAIN away \cap DOMAIN mon = {}
  BY <1>1 DEF IInv, OutputsShow, MinimizedAreManaged, MinimizedWait, RecordsAreKept
<1>3. GoodMon(ms) /\ DOMAIN ms = DOMAIN mon \ {o} /\ \A p \in DOMAIN ms : ms[p] = mon[p]
  BY <1>2, OutputRemoved
<1> HIDE DEF ms
<1>4. host \in DOMAIN ms /\ host # NoOutput
  BY <1>1, <1>3, OrderWithout
<1> HIDE DEF host
<1>5. HomesIn(ms, minimized, o)
  BY <1>2, <1>3, OutputsAssumption DEF HomesIn, HasHome, GoodMini
<1>6. GoodStack(mon[o].stack) /\ mon[o].active \in Keys(mon[o].stack) /\ o \in Outputs
  BY <1>1, StacksAreGood
<1>7. /\ GoodMon(parked.mon) /\ DOMAIN parked.mon = DOMAIN ms
      /\ \A p \in DOMAIN ms \ {host} : parked.mon[p] = ms[p]
      /\ Shows(parked.mon[host])
      /\ parked.moved \in Seq(Nat \X Nat)
      /\ GoodMini(parked.minimized) /\ DOMAIN parked.minimized = DOMAIN minimized
      /\ HomesIn(parked.mon, parked.minimized, NoOutput)
  <2> DEFINE stack == mon[o].stack
  <2>1. GoodStack(stack) /\ Shows(ms[host])
    BY <1>2, <1>3, <1>4, <1>6
  <2> HIDE DEF stack
  <2>2. LET q == Parked(ms, minimized, o, stack, host) IN
        /\ GoodMon(q.mon) /\ DOMAIN q.mon = DOMAIN ms
        /\ \A p \in DOMAIN ms \ {host} : q.mon[p] = ms[p]
        /\ Shows(q.mon[host])
        /\ q.moved \in Seq(Nat \X Nat)
        /\ GoodMini(q.minimized) /\ DOMAIN q.minimized = DOMAIN minimized
        /\ HomesIn(q.mon, q.minimized, NoOutput)
    BY <1>2, <1>3, <1>4, <1>5, <2>1, ParkedKeeps
  <2> QED BY <2>2 DEF stack
<1> HIDE DEF parked
<1>8. GoodRecord(r) /\ r.host = host /\ r.stack = mon[o].stack
  <2>1. host \in Outputs
    BY <1>3, <1>4 DEF GoodMon
  <2> QED BY <1>6, <1>7, <2>1 DEF GoodRecord
<1> HIDE DEF r
<1>9. GoodAway(kept)
  BY <1>2, <1>6, <1>8, RecordAdded
<1> HIDE DEF kept
<1>10. /\ GoodMon(tidy) /\ DOMAIN tidy = DOMAIN ms
       /\ \A p \in DOMAIN ms : Shows(tidy[p])
       /\ HomesIn(tidy, parked.minimized, NoOutput)
  <2> DEFINE pm == parked.mon
             pw == parked.minimized
  <2>1. GoodMon(pm) /\ HomesIn(pm, pw, NoOutput) /\ GoodMon(mon) /\ GoodAway(away)
    BY <1>2, <1>7
  <2> HIDE DEF pm, pw
  <2>2. /\ GoodMon(Maintained(pm, pw, kept, host)) /\ DOMAIN Maintained(pm, pw, kept, host) = DOMAIN pm
        /\ \A p \in DOMAIN pm \ {host} : Maintained(pm, pw, kept, host)[p] = pm[p]
        /\ \A p \in DOMAIN pm : p = host \/ Shows(pm[p]) => Shows(Maintained(pm, pw, kept, host)[p])
        /\ HomesIn(Maintained(pm, pw, kept, host), pw, NoOutput)
    BY <1>9, <2>1, UpkeepKeepsHomes, Zenon
  <2>3. DOMAIN pm = DOMAIN ms /\ \A p \in DOMAIN ms : p = host \/ Shows(pm[p])
    BY <1>2, <1>3, <1>7 DEF pm
  <2>4. tidy = Maintained(pm, pw, kept, host)
    BY DEF pm, pw
  <2> HIDE DEF tidy
  <2> QED BY <2>2, <2>3, <2>4 DEF pw
<1> HIDE DEF tidy
<1>11. /\ GoodAway(bound.away) /\ DOMAIN bound.away = DOMAIN away
       /\ \A g \in DOMAIN away : /\ bound.away[g].stack = away[g].stack
                                 /\ bound.away[g] = away[g] \/ bound.away[g].host = host
       /\ GoodMini(bound.minimized) /\ DOMAIN bound.minimized = DOMAIN minimized
       /\ HomesIn(tidy, bound.minimized, NoOutput)
  <2> DEFINE pw == parked.minimized
  <2>1. GoodMini(pw) /\ HomesIn(tidy, pw, NoOutput) /\ DOMAIN pw = DOMAIN minimized
    BY <1>7, <1>10
  <2> HIDE DEF pw
  <2>2. host \in DOMAIN tidy /\ GoodMon(tidy) /\ GoodAway(away)
    BY <1>2, <1>4, <1>10
  <2>3. LET b == Rebound(tidy, away, pw, o, host) IN
        /\ GoodAway(b.away) /\ DOMAIN b.away = DOMAIN away
        /\ \A g \in DOMAIN away : /\ b.away[g].stack = away[g].stack
                                  /\ b.away[g] = away[g] \/ b.away[g].host = host
        /\ GoodMini(b.minimized) /\ DOMAIN b.minimized = DOMAIN pw
        /\ HomesIn(tidy, b.minimized, NoOutput)
    BY <2>1, <2>2, ReboundKeeps
  <2> QED BY <2>1, <2>3 DEF pw
<1> HIDE DEF bound
<1>12. /\ GoodAway(aw) /\ DOMAIN aw = DOMAIN away \cup {o}
       /\ aw[o] = r /\ \A g \in DOMAIN away : g # o => aw[g] = bound.away[g]
  <2> DEFINE ba == bound.away
  <2>1. GoodAway(ba) /\ DOMAIN ba = DOMAIN away
    BY <1>11
  <2> HIDE DEF ba
  <2>2. /\ GoodAway(With(ba, o, r)) /\ DOMAIN With(ba, o, r) = DOMAIN ba \cup {o}
        /\ With(ba, o, r)[o] = r /\ \A g \in DOMAIN ba : g # o => With(ba, o, r)[g] = ba[g]
    BY <1>6, <1>8, <2>1, RecordAdded
  <2> QED BY <2>1, <2>2 DEF ba
<1> HIDE DEF aw
<1>13. ASSUME NEW g \in DOMAIN aw PROVE aw[g].host # NoOutput
  BY <1>2, <1>4, <1>8, <1>11, <1>12
<1>14. OutputsShow' /\ OrderIsOfOutputs' /\ FocusIsThere'
  <2>1. OutputsShow'
    BY <1>1, <1>10 DEF OutputsShow
  <2>2. OrderIsOfOutputs'
    BY <1>1, <1>3, <1>10, OrderWithout DEF OrderIsOfOutputs
  <2>3. FocusIsThere'
    BY <1>1, <1>4, <1>10 DEF FocusIsThere
  <2> QED BY <2>1, <2>2, <2>3
<1>15. MinimizedAreManaged'
  BY <1>1, <1>11 DEF IInv, MinimizedAreManaged
<1>16. RecordsAreKept'
  BY <1>1, <1>2, <1>3, <1>10, <1>12, <1>13 DEF RecordsAreKept, OneHomeless, WaitsWell
<1>17. MinimizedWait'
  BY <1>1, <1>4, <1>10, <1>11 DEF MinimizedWait
<1>18. HomesAreKnown'
  <2> DEFINE D == Identities(mon, away)
  <2>1. ASSUME NEW g \in DOMAIN aw, NEW x \in Range(aw[g].stack) PROVE x.id \in D
    <3>1. CASE g = o
      BY <1>1, <1>8, <1>12, <3>1, IdentitiesOf
    <3>2. CASE g # o
      BY <1>11, <1>12, <3>2, IdentitiesOf
    <3> QED BY <3>1, <3>2
  <2>2. home \in [D -> Outputs]
    BY DEF IInv, HomesAreKnown
  <2> HIDE DEF D
  <2>3. Homed(tidy, aw, home) \in [Identities(tidy, aw) -> Outputs]
    BY <1>10, <2>1, <2>2, HomedType
  <2> QED BY <1>1, <2>3 DEF HomesAreKnown
<1> QED BY <1>14, <1>15, <1>16, <1>17, <1>18 DEF IInv

LEMMA RecordTaken ==
    ASSUME NEW aw, GoodAway(aw), NEW o
    PROVE  LET a == Restrict(aw, DOMAIN aw \ {o}) IN
           GoodAway(a) /\ DOMAIN a = DOMAIN aw \ {o} /\ \A g \in DOMAIN a : a[g] = aw[g]
<1> DEFINE a == Restrict(aw, DOMAIN aw \ {o})
<1>1. /\ DOMAIN a = DOMAIN aw \ {o} /\ a = [g \in DOMAIN a |-> a[g]]
      /\ \A g \in DOMAIN a : a[g] = aw[g]
  BY DEF Restrict
<1> HIDE DEF a
<1>2. IsFiniteSet(DOMAIN a)
  BY <1>1, FS_Subset DEF GoodAway
<1>3. GoodAway(a)
  BY <1>1, <1>2 DEF GoodAway
<1> QED BY <1>1, <1>3 DEF a

LEMMA RegisterStep ==
    ASSUME IInv, NEW o \in Outputs, Register(o)
    PROVE  IInv'
<1> DEFINE m == [stack |-> <<Workspace(0, FreshId(mon, away))>>, active |-> 0]
           new == With(mon, o, m)
           aw == Restrict(away, DOMAIN away \ {o})
           back == IF o \in DOMAIN away THEN TakenBack(new, minimized, aw, away[o], o)
                   ELSE [mon |-> new, minimized |-> minimized]
           all == Adopted(back.mon, back.minimized, aw, o)
           gone == IF Homeless(aw, o) = {} THEN NoOutput ELSE CHOOSE g \in Homeless(aw, o) : TRUE
<1>1. /\ o \notin DOMAIN mon /\ mon' = all.mon /\ minimized' = all.minimized /\ away' = all.away
      /\ order' = Append(order, o) /\ focused' = (IF focused = NoOutput THEN o ELSE focused)
      /\ home' = Homed(mon', away', home) /\ managed' = managed
  BY DEF Register
<1>2. /\ GoodMon(mon) /\ (\A p \in DOMAIN mon : Shows(mon[p])) /\ GoodMini(minimized)
      /\ GoodAway(away) /\ OneHomeless(away) /\ DOMAIN away \cap DOMAIN mon = {}
      /\ \A g \in DOMAIN away : WaitsWell(away[g]) /\ (away[g].host = NoOutput => DOMAIN mon = {})
  BY DEF IInv, OutputsShow, MinimizedAreManaged, RecordsAreKept
<1>3. GoodOutput(m) /\ Shows(m)
  <2>1. FreshId(mon, away) \in Nat
    BY <1>2, FreshIdIsFree
  <2>2. Workspace(0, FreshId(mon, away)) \in WorkspaceType /\ Workspace(0, FreshId(mon, away)).key = 0
    BY <2>1, NewWorkspace
  <2> DEFINE x == Workspace(0, FreshId(mon, away))
             s == <<x>>
  <2>3. x \in WorkspaceType /\ x.key = 0
    BY <2>2
  <2> HIDE DEF x
  <2>4. GoodStack(s) /\ 0 \in Keys(s)
    BY <2>3 DEF GoodStack, Keys
  <2>5. m = [stack |-> s, active |-> 0]
    BY DEF x
  <2> HIDE DEF s, m
  <2> QED BY <2>4, <2>5 DEF GoodOutput, Shows
<1> HIDE DEF m
<1>4. /\ DOMAIN new = DOMAIN mon \cup {o} /\ new = [p \in DOMAIN new |-> new[p]]
      /\ new[o] = m /\ \A p \in DOMAIN mon : new[p] = mon[p]
  BY <1>1 DEF With
<1> HIDE DEF new
<1>5. GoodMon(new)
  <2>1. \A p \in DOMAIN mon \ {o} : new[p] = mon[p]
    BY <1>4
  <2> QED BY <1>2, <1>3, <1>4, <2>1, Replaced
<1>6. \A p \in DOMAIN new : Shows(new[p])
  BY <1>2, <1>3, <1>4
<1>7. GoodAway(aw) /\ DOMAIN aw = DOMAIN away \ {o} /\ \A g \in DOMAIN aw : aw[g] = away[g]
  BY <1>2, RecordTaken
<1> HIDE DEF aw
<1>8. OneHomeless(aw) /\ o \notin DOMAIN aw
  BY <1>2, <1>7 DEF OneHomeless
<1>9. gone = NoOutput \/ gone \in Homeless(aw, o)
  OBVIOUS
<1>10. \A g \in Homeless(aw, o) : g = gone
  <2>1. \A g, h \in Homeless(aw, o) : g = h
    BY <1>8 DEF OneHomeless, Homeless
  <2> QED BY <2>1
<1> HIDE DEF gone
<1>11. ASSUME NEW w \in DOMAIN minimized
       PROVE  \/ minimized[w].output = gone
              \/ HasHome(new, minimized, w) /\ minimized[w].output # o
              \/ /\ o \in DOMAIN away /\ away[o].host = NoOutput
                 /\ minimized[w].output = o /\ minimized[w].key \in Keys(away[o].stack)
  <2>1. CASE DOMAIN mon # {}
    <3>1. HasHome(mon, minimized, w)
      <4>1. minimized[w].output # NoOutput
        BY <1>2, OutputsAssumption DEF GoodMini
      <4> QED BY <2>1, <4>1 DEF IInv, MinimizedWait, HomesIn
    <3> QED BY <1>1, <1>4, <3>1 DEF HasHome
  <2>2. CASE DOMAIN mon = {}
    <3> DEFINE g == minimized[w].output
    <3>1. g \in DOMAIN away /\ away[g].host = NoOutput /\ minimized[w].key \in Keys(away[g].stack)
      BY <2>2 DEF IInv, MinimizedWait, WaitAway
    <3>2. CASE g = o
      BY <3>1, <3>2
    <3>3. CASE g # o
      <4>1. g \in Homeless(aw, o)
        BY <1>7, <3>1, <3>3 DEF Homeless
      <4> QED BY <1>10, <4>1
    <3> QED BY <3>2, <3>3
  <2> QED BY <2>1, <2>2
<1>12. /\ GoodMon(back.mon) /\ DOMAIN back.mon = DOMAIN new
       /\ \A p \in DOMAIN new : Shows(back.mon[p])
       /\ GoodMini(back.minimized) /\ DOMAIN back.minimized = DOMAIN minimized
       /\ HomesIn(back.mon, back.minimized, gone)
  <2>1. CASE o \in DOMAIN away
    <3> DEFINE kept == away[o]
               b == TakenBack(new, minimized, aw, kept, o)
    <3>1. GoodRecord(kept) /\ WaitsWell(kept)
      BY <1>2, <2>1 DEF GoodAway
    <3>2. WaitsFor(new, minimized, gone, kept, o)
      BY <1>11 DEF WaitsFor
    <3>3. back = b
      BY <2>1
    <3> HIDE DEF kept
    <3>4. /\ GoodMon(b.mon) /\ DOMAIN b.mon = DOMAIN new
          /\ \A p \in DOMAIN new : Shows(b.mon[p])
          /\ GoodMini(b.minimized) /\ DOMAIN b.minimized = DOMAIN minimized
          /\ HomesIn(b.mon, b.minimized, gone)
      <4>1. o \in DOMAIN new /\ \A p \in DOMAIN new : p = o \/ Shows(new[p])
        BY <1>4, <1>6
      <4> QED BY <1>2, <1>5, <1>7, <3>1, <3>2, <4>1, TakenBackKeeps
    <3> HIDE DEF b, back
    <3> QED BY <3>3, <3>4
  <2>2. CASE o \notin DOMAIN away
    <3>1. back.mon = new /\ back.minimized = minimized
      BY <2>2
    <3>2. HomesIn(new, minimized, gone)
      BY <1>11, <2>2 DEF HomesIn
    <3> HIDE DEF back
    <3> QED BY <1>2, <1>5, <1>6, <3>1, <3>2
  <2> QED BY <2>1, <2>2
<1> HIDE DEF back
<1>13. /\ GoodMon(all.mon) /\ DOMAIN all.mon = DOMAIN new
       /\ \A p \in DOMAIN new : Shows(all.mon[p])
       /\ GoodMini(all.minimized) /\ DOMAIN all.minimized = DOMAIN minimized
       /\ HomesIn(all.mon, all.minimized, NoOutput)
       /\ GoodAway(all.away) /\ DOMAIN all.away = DOMAIN aw
       /\ \A g \in DOMAIN aw : all.away[g].stack = aw[g].stack /\ all.away[g].host # NoOutput
  <2> DEFINE bm == back.mon
             bw == back.minimized
             r == Adopted(bm, bw, aw, o)
  <2>1. /\ GoodMon(bm) /\ GoodMini(bw) /\ HomesIn(bm, bw, gone) /\ o \in DOMAIN bm
        /\ DOMAIN bm = DOMAIN new /\ DOMAIN bw = DOMAIN minimized /\ \A p \in DOMAIN bm : Shows(bm[p])
    BY <1>4, <1>12
  <2> HIDE DEF bm, bw
  <2>2. /\ GoodMon(r.mon) /\ DOMAIN r.mon = DOMAIN bm
        /\ \A p \in DOMAIN bm : Shows(r.mon[p])
        /\ GoodMini(r.minimized) /\ DOMAIN r.minimized = DOMAIN bw
        /\ HomesIn(r.mon, r.minimized, NoOutput)
        /\ GoodAway(r.away) /\ DOMAIN r.away = DOMAIN aw
        /\ \A g \in DOMAIN aw : r.away[g].stack = aw[g].stack /\ r.away[g].host # NoOutput
    BY <1>2, <1>7, <1>8, <1>9, <2>1, AdoptedKeeps
  <2>3. all = r
    BY DEF bm, bw
  <2> HIDE DEF all, r
  <2> QED BY <2>1, <2>2, <2>3
<1> HIDE DEF all
<1>14. OutputsShow' /\ MinimizedWait'
  BY <1>1, <1>4, <1>13 DEF OutputsShow, MinimizedWait
<1>15. OrderIsOfOutputs'
  <2> DEFINE t == Append(order, o)
  <2>1. order \in Seq(Outputs) /\ IsInjective(order) /\ Range(order) = DOMAIN mon /\ Len(order) \in Nat
    BY DEF IInv, OrderIsOfOutputs
  <2>2. t \in Seq(Outputs) /\ Len(t) = Len(order) + 1 /\ t[Len(order) + 1] = o
        /\ \A i \in 1 .. Len(order) : t[i] = order[i]
    BY <2>1
  <2> HIDE DEF t
  <2>3. \A i \in 1 .. Len(t) : i \in 1 .. Len(order) \/ i = Len(order) + 1
    BY <2>1, <2>2
  <2>4. (\A i \in 1 .. Len(order) : i \in 1 .. Len(t)) /\ Len(order) + 1 \in 1 .. Len(t)
    BY <2>1, <2>2
  <2>5. \A p : p \in Range(t) <=> p \in Range(order) \/ p = o
    BY <2>1, <2>2, <2>3, <2>4, RangeOf, SMTT(30)
  <2>6. \A i \in 1 .. Len(order) : order[i] # o
    BY <1>1, <2>1, RangeOf
  <2>7. \A i, j \in 1 .. Len(order) : order[i] = order[j] => i = j
    BY <2>1, ToSetOf
  <2>8. IsInjective(t)
    <3>1. ASSUME NEW i \in 1 .. Len(t), NEW j \in 1 .. Len(t), t[i] = t[j] PROVE i = j
      BY <2>2, <2>3, <2>6, <2>7, <3>1
    <3> QED BY <2>2, <3>1, ToSetOf
  <2>9. Range(t) = DOMAIN new
    BY <1>4, <2>1, <2>5
  <2> QED BY <1>1, <1>13, <2>2, <2>8, <2>9 DEF OrderIsOfOutputs, t
<1>16. FocusIsThere'
  BY <1>1, <1>4, <1>13, OutputsAssumption DEF IInv, FocusIsThere
<1>17. MinimizedAreManaged'
  BY <1>1, <1>13 DEF IInv, MinimizedAreManaged
<1>18. RecordsAreKept'
  BY <1>1, <1>2, <1>4, <1>7, <1>13 DEF RecordsAreKept, OneHomeless, WaitsWell
<1>19. HomesAreKnown'
  <2> DEFINE D == Identities(mon, away)
             am == all.mon
             aa == all.away
  <2>1. ASSUME NEW g \in DOMAIN aa, NEW x \in Range(aa[g].stack) PROVE x.id \in D
    BY <1>7, <1>13, IdentitiesOf
  <2>2. home \in [D -> Outputs]
    BY DEF IInv, HomesAreKnown
  <2>3. GoodMon(am)
    BY <1>13
  <2>4. mon' = am /\ away' = aa
    BY <1>1
  <2> HIDE DEF D, am, aa
  <2>5. Homed(am, aa, home) \in [Identities(am, aa) -> Outputs]
    BY <2>1, <2>2, <2>3, HomedType
  <2> QED BY <1>1, <2>4, <2>5 DEF HomesAreKnown
<1> QED BY <1>14, <1>15, <1>16, <1>17, <1>18, <1>19 DEF IInv

----------------------------------------------------------------------------
(* The theorems. *)

LEMMA InitIInv ==
    ASSUME Init
    PROVE  IInv
<1>1. PICK o \in Outputs :
        /\ mon = With(NoOne, o, [stack |-> <<Workspace(0, 1)>>, active |-> 0])
        /\ order = <<o>> /\ focused = o
        /\ minimized = NoOne /\ managed = {} /\ away = NoOne
        /\ home = With(NoOne, 1, o)
  BY DEF Init
<1> DEFINE x == Workspace(0, 1)
           s == <<x>>
           m == [stack |-> s, active |-> 0]
<1>2. x \in WorkspaceType /\ x.key = 0 /\ x.id = 1
  BY NewWorkspace DEF Workspace
<1>3. mon = With(NoOne, o, m)
  BY <1>1
<1> HIDE DEF x
<1>4. GoodStack(s) /\ 0 \in Keys(s) /\ Range(s) = {x}
  BY <1>2 DEF GoodStack, Keys, Range
<1> HIDE DEF s
<1>5. GoodOutput(m) /\ Shows(m) /\ m.stack = s
  BY <1>4 DEF GoodOutput, Shows
<1> HIDE DEF m
<1>6. DOMAIN mon = {o} /\ mon = [p \in DOMAIN mon |-> mon[p]] /\ mon[o] = m
  BY <1>3 DEF With, NoOne
<1>7. DOMAIN away = {} /\ away = [p \in DOMAIN away |-> away[p]] /\ DOMAIN minimized = {}
      /\ minimized = [p \in DOMAIN minimized |-> minimized[p]]
  BY <1>1 DEF NoOne
<1>8. OutputsShow
  <2>1. IsFiniteSet(DOMAIN mon)
    BY <1>6, FS_Singleton
  <2> QED BY <1>5, <1>6, <2>1 DEF OutputsShow, GoodMon
<1>9. OrderIsOfOutputs
  BY <1>1, <1>6 DEF OrderIsOfOutputs, IsInjective, Range
<1>10. FocusIsThere
  BY <1>1, <1>6, OutputsAssumption DEF FocusIsThere
<1>11. MinimizedAreManaged
  BY <1>1, <1>7 DEF MinimizedAreManaged, GoodMini
<1>12. RecordsAreKept
  <2>1. IsFiniteSet(DOMAIN away)
    BY <1>7, FS_EmptySet
  <2> QED BY <1>7, <2>1 DEF RecordsAreKept, GoodAway, OneHomeless
<1>13. MinimizedWait
  BY <1>6, <1>7 DEF MinimizedWait, HomesIn
<1>14. HomesAreKnown
  <2>1. \A id : id \in Identities(mon, away) <=> id = 1
    BY <1>2, <1>4, <1>5, <1>6, <1>7, IdentitiesOf
  <2>2. Identities(mon, away) = {1}
    BY <2>1
  <2>3. home \in [{1} -> Outputs]
    BY <1>1 DEF With, NoOne
  <2> QED BY <2>2, <2>3 DEF HomesAreKnown
<1> QED BY <1>8, <1>9, <1>10, <1>11, <1>12, <1>13, <1>14 DEF IInv

LEMMA NextIInv ==
    ASSUME IInv, [Next]_vars
    PROVE  IInv'
<1>1. CASE UNCHANGED vars
  BY <1>1 DEF vars, IInv, OutputsShow, OrderIsOfOutputs, FocusIsThere, MinimizedAreManaged, RecordsAreKept,
              MinimizedWait, WaitAway, HomesAreKnown
<1>2. ASSUME NEW o \in Outputs, Register(o) PROVE IInv'
  BY <1>2, RegisterStep
<1>3. ASSUME NEW o \in Outputs, Unregister(o) PROVE IInv'
  BY <1>3, LastUnregistered, OneUnregistered
<1>4. ASSUME WindowStep PROVE IInv'
  <2>1. PICK w \in Windows :
        \/ \E o \in DOMAIN mon : Open(w, o)
        \/ Close(w)
        \/ \E k \in 0..MaxKey : Minimize(w, k)
        \/ Restore(w)
        \/ \E o1 \in Found(w), o2 \in DOMAIN mon :
            \E k1 \in Keys(mon[o1].stack), k2 \in Keys(mon[o2].stack), follow \in BOOLEAN :
                MoveWindow(w, o1, k1, o2, k2, follow)
    BY <1>4 DEF WindowStep
  <2>2. ASSUME NEW o \in DOMAIN mon, Open(w, o) PROVE IInv'
    BY <2>2, OpenStep
  <2>3. CASE Close(w)
    BY <2>3, CloseStep
  <2>4. ASSUME NEW k \in 0..MaxKey, Minimize(w, k) PROVE IInv'
    BY <2>4, MinimizeStep
  <2>5. CASE Restore(w)
    BY <2>5, RestoreStep
  <2>6. ASSUME NEW o1 \in Found(w), NEW o2 \in DOMAIN mon, NEW k1 \in Keys(mon[o1].stack),
               NEW k2 \in Keys(mon[o2].stack), NEW follow \in BOOLEAN, MoveWindow(w, o1, k1, o2, k2, follow)
        PROVE  IInv'
    <3>1. o1 \in DOMAIN mon
      BY DEF Found
    <3> QED BY <2>6, <3>1, MoveWindowStep
  <2> QED BY <2>1, <2>2, <2>3, <2>4, <2>5, <2>6
<1>5. ASSUME WorkspaceStep PROVE IInv'
  <2>1. PICK o \in DOMAIN mon :
        \/ FocusOutput(o)
        \/ \E k \in Keys(mon[o].stack) :
            \/ FocusWorkspace(o, k)
            \/ \E o2 \in DOMAIN mon : MoveWorkspaceToMonitor(o, k, o2)
            \/ \E name \in Names \cup {NoName} : NameWorkspace(o, k, name)
    BY <1>5 DEF WorkspaceStep
  <2>2. CASE FocusOutput(o)
    BY <2>2, FocusOutputStep
  <2>3. ASSUME NEW k \in Keys(mon[o].stack), FocusWorkspace(o, k) PROVE IInv'
    BY <2>3, FocusWorkspaceStep
  <2>4. ASSUME NEW k \in Keys(mon[o].stack), NEW o2 \in DOMAIN mon, MoveWorkspaceToMonitor(o, k, o2) PROVE IInv'
    BY <2>4, MoveWorkspaceStep
  <2>5. ASSUME NEW k \in Keys(mon[o].stack), NEW name \in Names \cup {NoName}, NameWorkspace(o, k, name) PROVE IInv'
    BY <2>5, NameWorkspaceStep
  <2> QED BY <2>1, <2>2, <2>3, <2>4, <2>5
<1> QED BY <1>1, <1>2, <1>3, <1>4, <1>5 DEF Next

\* The inductive invariant holds of every behaviour: stacks, records and the wait of the minimized
\* windows stay together, whatever comes, goes, moves or is renamed (src/layout/engine.rs:1205-1640).
THEOREM Invariance == Spec => []IInv
<1>1. Init => IInv
  BY InitIInv
<1>2. IInv /\ [Next]_vars => IInv'
  BY NextIInv
<1> QED BY <1>1, <1>2, PTL DEF Spec

\* The state is well formed, an output shows a workspace it has, no stack has a key twice, and at
\* most one record waits for an output to appear (register_monitor_with_scale and
\* adopt_homeless_workspaces, engine.rs:1205-1303, 1627).
THEOREM TypeCorrect == Spec => []TypeOK
<1>1. IInv => TypeOK
  BY IInvImplies
<1> QED BY <1>1, Invariance, PTL

\* While there is an output, every minimized window waits for a workspace that is there, with any
\* number of outputs away and even if the last one goes (move_workspaces_to, take_back_workspaces,
\* relocate_workspace: engine.rs:1432, 1551, monitor_actions.rs:296).
THEOREM MinimizedKeepAHome == Spec => []MinimizedHaveAHome
<1>1. IInv => MinimizedHaveAHome
  BY IInvImplies
<1> QED BY <1>1, Invariance, PTL

----------------------------------------------------------------------------
(* One output away at a time, and one always there. *)

\* No two workspaces that are there have the same identity.
IdsApart(ms) == \A o, p \in DOMAIN ms : \A x \in Range(ms[o].stack), y \in Range(ms[p].stack) :
    x.id = y.id => o = p /\ x.key = y.key

\* No two of them have the same window.
TilesApart(ms) == \A o, p \in DOMAIN ms : \A x \in Range(ms[o].stack), y \in Range(ms[p].stack) :
    \A w \in x.wins \cap y.wins : o = p /\ x.key = y.key

\* A name is one workspace's, and that of the same workspace in a record.
NamesApart(ms, aw) == \A x, y \in Within(ms) \cup Within(aw) : x.name = y.name => x.name = NoName \/ x.id = y.id

\* A workspace that a record has parked is there under the key the record gives, or not at all.
ParkedThere(ms, aw) == \A g \in DOMAIN aw : \A p \in Range(aw[g].moved), y \in Range(aw[g].stack) :
    \A o \in DOMAIN ms : \A x \in Range(ms[o].stack) :
        p[1] = y.key /\ x.id = y.id => o = aw[g].host /\ x.key = p[2]

Apart(ms, aw) == IdsApart(ms) /\ TilesApart(ms) /\ NamesApart(ms, aw) /\ ParkedThere(ms, aw)

Tiled(ms) == UNION {x.wins : x \in Within(ms)}

LEMMA WithinOf ==
    ASSUME NEW ms
    PROVE  /\ \A x : x \in Within(ms) <=> \E o \in DOMAIN ms : x \in Range(ms[o].stack)
           /\ \A w : w \in Tiled(ms) <=> \E o \in DOMAIN ms : \E x \in Range(ms[o].stack) : w \in x.wins
<1>1. \A x : x \in Within(ms) <=> \E o \in DOMAIN ms : x \in Range(ms[o].stack)
  BY DEF Within
<1>2. \A w : w \in Tiled(ms) <=> \E x \in Within(ms) : w \in x.wins
  BY DEF Tiled
<1> QED BY <1>1, <1>2

\* Each workspace of ns is one of ms; what it has more is w, that none of ms has, and only one has it.
Grows(ms, ns, w, q, k) ==
    /\ DOMAIN ns \subseteq DOMAIN ms
    /\ \A o \in DOMAIN ns : \A y \in Range(ns[o].stack) : \E x \in Range(ms[o].stack) :
        /\ x.key = y.key /\ x.id = y.id /\ x.name = y.name
        /\ \A v \in y.wins : v \in x.wins \/ (v = w /\ w \notin Tiled(ms) /\ o = q /\ y.key = k)

LEMMA GrowsApart ==
    ASSUME NEW ms, NEW aw, Apart(ms, aw), NEW ns, NEW w, NEW q, NEW k, Grows(ms, ns, w, q, k)
    PROVE  Apart(ns, aw)
<1>1. IdsApart(ms) /\ TilesApart(ms) /\ NamesApart(ms, aw) /\ ParkedThere(ms, aw)
  BY DEF Apart
<1>2. DOMAIN ns \subseteq DOMAIN ms
  BY DEF Grows
<1>3. ASSUME NEW o \in DOMAIN ns, NEW y \in Range(ns[o].stack)
      PROVE  \E x \in Range(ms[o].stack) :
                /\ x.key = y.key /\ x.id = y.id /\ x.name = y.name
                /\ \A v \in y.wins : v \in x.wins \/ (v = w /\ w \notin Tiled(ms) /\ o = q /\ y.key = k)
  BY DEF Grows
<1>4. IdsApart(ns)
  <2> SUFFICES ASSUME NEW o \in DOMAIN ns, NEW p \in DOMAIN ns, NEW y \in Range(ns[o].stack),
                      NEW z \in Range(ns[p].stack), y.id = z.id
               PROVE  o = p /\ y.key = z.key
    BY DEF IdsApart
  <2>1. PICK x \in Range(ms[o].stack) : x.key = y.key /\ x.id = y.id
    BY <1>3
  <2>2. PICK u \in Range(ms[p].stack) : u.key = z.key /\ u.id = z.id
    BY <1>3
  <2> QED BY <1>1, <1>2, <2>1, <2>2 DEF IdsApart
<1>5. TilesApart(ns)
  <2> SUFFICES ASSUME NEW o \in DOMAIN ns, NEW p \in DOMAIN ns, NEW y \in Range(ns[o].stack),
                      NEW z \in Range(ns[p].stack), NEW v \in y.wins, v \in z.wins
               PROVE  o = p /\ y.key = z.key
    BY DEF TilesApart
  <2>1. PICK x \in Range(ms[o].stack) :
          x.key = y.key /\ (v \in x.wins \/ (v = w /\ w \notin Tiled(ms) /\ o = q /\ y.key = k))
    BY <1>3
  <2>2. PICK u \in Range(ms[p].stack) :
          u.key = z.key /\ (v \in u.wins \/ (v = w /\ w \notin Tiled(ms) /\ p = q /\ z.key = k))
    BY <1>3
  <2>3. v \notin Tiled(ms) => v \notin x.wins /\ v \notin u.wins
    BY <1>2, WithinOf
  <2> QED BY <1>1, <1>2, <2>1, <2>2, <2>3 DEF TilesApart
<1>6. NamesApart(ns, aw)
  <2>1. ASSUME NEW y \in Within(ns) \cup Within(aw)
        PROVE  \E x \in Within(ms) \cup Within(aw) : x.id = y.id /\ x.name = y.name
    <3>1. CASE y \in Within(aw)
      BY <3>1
    <3>2. CASE y \in Within(ns)
      <4>1. PICK o \in DOMAIN ns : y \in Range(ns[o].stack)
        BY <3>2, WithinOf
      <4>2. PICK x \in Range(ms[o].stack) : x.id = y.id /\ x.name = y.name
        BY <1>3, <4>1
      <4>3. x \in Within(ms)
        BY <1>2, <4>2, WithinOf
      <4> QED BY <4>2, <4>3
    <3> QED BY <3>1, <3>2
  <2> SUFFICES ASSUME NEW y \in Within(ns) \cup Within(aw), NEW z \in Within(ns) \cup Within(aw), y.name = z.name
               PROVE  y.name = NoName \/ y.id = z.id
    BY DEF NamesApart
  <2>2. PICK x \in Within(ms) \cup Within(aw) : x.id = y.id /\ x.name = y.name
    BY <2>1
  <2>3. PICK u \in Within(ms) \cup Within(aw) : u.id = z.id /\ u.name = z.name
    BY <2>1
  <2> QED BY <1>1, <2>2, <2>3 DEF NamesApart
<1>7. ParkedThere(ns, aw)
  <2> SUFFICES ASSUME NEW g \in DOMAIN aw, NEW p \in Range(aw[g].moved), NEW y \in Range(aw[g].stack),
                      NEW o \in DOMAIN ns, NEW z \in Range(ns[o].stack), p[1] = y.key, z.id = y.id
               PROVE  o = aw[g].host /\ z.key = p[2]
    BY DEF ParkedThere
  <2>1. PICK x \in Range(ms[o].stack) : x.key = z.key /\ x.id = z.id
    BY <1>3
  <2> QED BY <1>1, <1>2, <2>1 DEF ParkedThere
<1> QED BY <1>4, <1>5, <1>6, <1>7 DEF Apart

\* A workspace like those the upkeep appends.
IsNew(ms, aw, x) == x.id \notin Identities(ms, aw) /\ x.wins = {} /\ x.name = NoName

\* Each workspace of ns is one of ms, or the new one; those of ms that have windows are there.
Tidied(ms, ns, aw) ==
    /\ DOMAIN ms \subseteq DOMAIN ns
    /\ \A o \in DOMAIN ns : \A y \in Range(ns[o].stack) :
        (o \in DOMAIN ms /\ y \in Range(ms[o].stack)) \/ IsNew(ms, aw, y)
    /\ \A o, p \in DOMAIN ns : \A x \in Range(ns[o].stack), y \in Range(ns[p].stack) :
        IsNew(ms, aw, x) /\ IsNew(ms, aw, y) => o = p /\ x.key = y.key
    /\ \A o \in DOMAIN ms : \A x \in Range(ms[o].stack) : x.wins # {} => x \in Range(ns[o].stack)

LEMMA TidiedApart ==
    ASSUME NEW ms, NEW aw, Apart(ms, aw), NEW ns, Tidied(ms, ns, aw)
    PROVE  Apart(ns, aw) /\ Tiled(ns) = Tiled(ms)
<1>1. IdsApart(ms) /\ TilesApart(ms) /\ NamesApart(ms, aw) /\ ParkedThere(ms, aw)
  BY DEF Apart
<1>2. ASSUME NEW o \in DOMAIN ns, NEW y \in Range(ns[o].stack)
      PROVE  (o \in DOMAIN ms /\ y \in Range(ms[o].stack)) \/ IsNew(ms, aw, y)
  BY DEF Tidied
<1>3. ASSUME NEW o \in DOMAIN ns, NEW y \in Range(ns[o].stack), NEW p \in DOMAIN ns, NEW z \in Range(ns[p].stack),
             IsNew(ms, aw, y), IsNew(ms, aw, z)
      PROVE  o = p /\ y.key = z.key
  BY <1>3 DEF Tidied
<1>4. ASSUME NEW o \in DOMAIN ms, NEW x \in Range(ms[o].stack)
      PROVE  /\ x.id \in Identities(ms, aw) /\ ~IsNew(ms, aw, x)
             /\ x.wins # {} => o \in DOMAIN ns /\ x \in Range(ns[o].stack)
  <2>1. x.id \in Identities(ms, aw)
    BY IdentitiesOf
  <2> QED BY <2>1 DEF IsNew, Tidied
<1>5. \A g \in DOMAIN aw : \A x \in Range(aw[g].stack) : x.id \in Identities(ms, aw)
  BY IdentitiesOf
<1>6. IdsApart(ns)
  <2> SUFFICES ASSUME NEW o \in DOMAIN ns, NEW p \in DOMAIN ns, NEW y \in Range(ns[o].stack),
                      NEW z \in Range(ns[p].stack), y.id = z.id
               PROVE  o = p /\ y.key = z.key
    BY DEF IdsApart
  <2>1. CASE IsNew(ms, aw, y)
    <3>1. IsNew(ms, aw, z)
      BY <1>2, <1>4, <2>1 DEF IsNew
    <3> QED BY <1>3, <2>1, <3>1
  <2>2. CASE IsNew(ms, aw, z)
    <3>1. IsNew(ms, aw, y)
      BY <1>2, <1>4, <2>2 DEF IsNew
    <3> QED BY <1>3, <2>2, <3>1
  <2>3. CASE ~IsNew(ms, aw, y) /\ ~IsNew(ms, aw, z)
    BY <1>1, <1>2, <2>3 DEF IdsApart
  <2> QED BY <2>1, <2>2, <2>3
<1>7. TilesApart(ns)
  <2> SUFFICES ASSUME NEW o \in DOMAIN ns, NEW p \in DOMAIN ns, NEW y \in Range(ns[o].stack),
                      NEW z \in Range(ns[p].stack), NEW v \in y.wins, v \in z.wins
               PROVE  o = p /\ y.key = z.key
    BY DEF TilesApart
  <2>1. ~IsNew(ms, aw, y) /\ ~IsNew(ms, aw, z)
    BY DEF IsNew
  <2> QED BY <1>1, <1>2, <2>1 DEF TilesApart
<1>8. NamesApart(ns, aw)
  <2>1. ASSUME NEW y \in Within(ns) \cup Within(aw)
        PROVE  y \in Within(ms) \cup Within(aw) \/ y.name = NoName
    <3>1. CASE y \in Within(aw)
      BY <3>1
    <3>2. CASE y \in Within(ns)
      <4>1. PICK o \in DOMAIN ns : y \in Range(ns[o].stack)
        BY <3>2, WithinOf
      <4> QED BY <1>2, <4>1, WithinOf DEF IsNew
    <3> QED BY <3>1, <3>2
  <2> QED BY <1>1, <2>1 DEF NamesApart
<1>9. ParkedThere(ns, aw)
  <2> SUFFICES ASSUME NEW g \in DOMAIN aw, NEW p \in Range(aw[g].moved), NEW y \in Range(aw[g].stack),
                      NEW o \in DOMAIN ns, NEW z \in Range(ns[o].stack), p[1] = y.key, z.id = y.id
               PROVE  o = aw[g].host /\ z.key = p[2]
    BY DEF ParkedThere
  <2>1. o \in DOMAIN ms /\ z \in Range(ms[o].stack)
    BY <1>2, <1>5 DEF IsNew
  <2> QED BY <1>1, <2>1 DEF ParkedThere
<1>10. \A w : w \in Tiled(ns) <=> w \in Tiled(ms)
  <2>1. ASSUME NEW w, w \in Tiled(ns) PROVE w \in Tiled(ms)
    <3>1. PICK o \in DOMAIN ns : \E x \in Range(ns[o].stack) : w \in x.wins
      BY <2>1, WithinOf
    <3>2. PICK x \in Range(ns[o].stack) : w \in x.wins
      BY <3>1
    <3>3. o \in DOMAIN ms /\ x \in Range(ms[o].stack)
      BY <1>2, <3>2 DEF IsNew
    <3> QED BY <3>2, <3>3, WithinOf
  <2>2. ASSUME NEW w, w \in Tiled(ms) PROVE w \in Tiled(ns)
    <3>1. PICK o \in DOMAIN ms : \E x \in Range(ms[o].stack) : w \in x.wins
      BY <2>2, WithinOf
    <3>2. PICK x \in Range(ms[o].stack) : w \in x.wins
      BY <3>1
    <3>3. o \in DOMAIN ns /\ x \in Range(ns[o].stack)
      BY <1>4, <3>2
    <3> QED BY <3>2, <3>3, WithinOf
  <2> QED BY <2>1, <2>2
<1> QED BY <1>6, <1>7, <1>8, <1>9, <1>10 DEF Apart

\* ns has the outputs of ms, is apart as well, and the tiles there are T.
ApartWith(ns, ms, aw, T) == GoodMon(ns) /\ DOMAIN ns = DOMAIN ms /\ Apart(ns, aw) /\ Tiled(ns) = T

LEMMA UpkeepKeepsApart ==
    ASSUME NEW ms, NEW mini, NEW aw, NEW o, GoodMon(ms), GoodAway(aw), GoodMon(mon), GoodAway(away), Apart(ms, aw)
    PROVE  ApartWith(Maintained(ms, mini, aw, o), ms, aw, Tiled(ms))
<1> DEFINE ns == Maintained(ms, mini, aw, o)
<1>1. CASE o \notin DOMAIN ms
  BY <1>1 DEF Maintained, ApartWith
<1>2. CASE o \in DOMAIN ms
  <2>1. /\ GoodMon(ns) /\ DOMAIN ns = DOMAIN ms /\ \A p \in DOMAIN ms \ {o} : ns[p] = ms[p]
        /\ Kept(ms[o], ns[o], Occupied(mini, o), FreshId(ms, aw))
    BY <1>2, MaintainedKeeps
  <2>2. FreshId(ms, aw) \notin Identities(ms, aw)
    BY FreshIdIsFree
  <2> HIDE DEF ns
  <2>3. ASSUME NEW p \in DOMAIN ns, NEW y \in Range(ns[p].stack)
        PROVE  (p \in DOMAIN ms /\ y \in Range(ms[p].stack)) \/ (IsNew(ms, aw, y) /\ p = o)
    <3>1. CASE p # o
      BY <2>1, <3>1
    <3>2. CASE p = o
      <4>1. y \in Range(ms[o].stack) \/ (y.id = FreshId(ms, aw) /\ y.wins = {} /\ y.name = NoName)
        BY <2>1, <3>2 DEF Kept
      <4> QED BY <1>2, <2>2, <3>2, <4>1 DEF IsNew
    <3> QED BY <3>1, <3>2
  <2>4. ASSUME NEW p \in DOMAIN ms, NEW x \in Range(ms[p].stack)
        PROVE  ~IsNew(ms, aw, x)
    BY IdentitiesOf DEF IsNew
  <2>5. ASSUME NEW p \in DOMAIN ns, NEW q \in DOMAIN ns, NEW x \in Range(ns[p].stack), NEW y \in Range(ns[q].stack),
               IsNew(ms, aw, x), IsNew(ms, aw, y)
        PROVE  p = q /\ x.key = y.key
    <3>1. p = o /\ q = o
      BY <2>3, <2>4, <2>5
    <3>2. x \notin Range(ms[o].stack) /\ y \notin Range(ms[o].stack)
      BY <1>2, <2>4, <2>5
    <3> QED BY <2>1, <3>1, <3>2 DEF Kept
  <2>6. ASSUME NEW p \in DOMAIN ms, NEW x \in Range(ms[p].stack), x.wins # {}
        PROVE  x \in Range(ns[p].stack)
    <3>1. CASE p # o
      BY <2>1, <3>1
    <3>2. CASE p = o
      BY <2>1, <2>6, <3>2 DEF Kept, HasContent
    <3> QED BY <3>1, <3>2
  <2>7. Tidied(ms, ns, aw)
    BY <2>1, <2>3, <2>5, <2>6 DEF Tidied
  <2>8. Apart(ns, aw) /\ Tiled(ns) = Tiled(ms)
    BY <2>7, TidiedApart
  <2> QED BY <2>1, <2>8 DEF ns, ApartWith
<1> QED BY <1>1, <1>2

\* A record has no identity twice, and no key twice on either side of what it says has moved.
RecordSound(r) ==
    /\ \A x, y \in Range(r.stack) : x.id = y.id => x = y
    /\ \A p, q \in Range(r.moved) : p[1] = q[1] \/ p[2] = q[2] => p = q

OneAtATime ==
    /\ DOMAIN mon # {}
    /\ \A g, h \in DOMAIN away : g = h
    /\ \A g \in DOMAIN away : away[g].host \in DOMAIN mon /\ RecordSound(away[g])

TilesAreManaged == Tiled(mon) = managed \ DOMAIN minimized

AInv == IInv /\ OneAtATime /\ Apart(mon, away) /\ TilesAreManaged

LEMMA AInvFacts ==
    ASSUME AInv
    PROVE  /\ GoodMon(mon) /\ GoodAway(away) /\ Apart(mon, away) /\ Tiled(mon) = managed \ DOMAIN minimized
           /\ \A o \in DOMAIN mon : GoodStack(mon[o].stack)
<1>1. GoodMon(mon) /\ GoodAway(away)
  BY DEF AInv, IInv, OutputsShow, RecordsAreKept
<1> QED BY <1>1 DEF AInv, TilesAreManaged, GoodMon, GoodOutput

LEMMA SameAway ==
    ASSUME AInv, IInv', away' = away, NEW T, ApartWith(mon', mon, away, T), T = managed' \ DOMAIN minimized'
    PROVE  AInv'
<1>1. DOMAIN mon' = DOMAIN mon /\ Apart(mon', away') /\ Tiled(mon') = T
  BY DEF ApartWith
<1>2. OneAtATime'
  BY <1>1 DEF AInv, OneAtATime
<1> QED BY <1>1, <1>2 DEF AInv, TilesAreManaged

LEMMA UpkeepAfter ==
    ASSUME NEW ns, NEW ms, NEW T, NEW mini, NEW aw, NEW o, ApartWith(ns, ms, aw, T),
           GoodAway(aw), GoodMon(mon), GoodAway(away)
    PROVE  ApartWith(Maintained(ns, mini, aw, o), ms, aw, T)
<1>1. GoodMon(ns) /\ DOMAIN ns = DOMAIN ms /\ Apart(ns, aw) /\ Tiled(ns) = T
  BY DEF ApartWith
<1>2. ApartWith(Maintained(ns, mini, aw, o), ns, aw, Tiled(ns))
  BY <1>1, UpkeepKeepsApart
<1> QED BY <1>1, <1>2 DEF ApartWith

LEMMA WithoutWindowRange ==
    ASSUME NEW s, GoodStack(s), NEW w
    PROVE  LET t == WithoutWindow(s, w) IN
           /\ \A y \in Range(t) : \E x \in Range(s) :
                x.key = y.key /\ x.id = y.id /\ x.name = y.name /\ y.wins = x.wins \ {w}
           /\ \A x \in Range(s) : \E y \in Range(t) : y.wins = x.wins \ {w}
<1> DEFINE t == WithoutWindow(s, w)
<1>1. s \in Seq(WorkspaceType)
  BY DEF GoodStack
<1>2. ASSUME NEW x \in WorkspaceType
      PROVE  LET y == [x EXCEPT !.wins = @ \ {w}] IN
             x.key = y.key /\ x.id = y.id /\ x.name = y.name /\ y.wins = x.wins \ {w}
  <2>1. x = [key |-> x.key, id |-> x.id, name |-> x.name, wins |-> x.wins]
    BY Fields
  <2>2. [x EXCEPT !.wins = @ \ {w}] = [key |-> x.key, id |-> x.id, name |-> x.name, wins |-> x.wins \ {w}]
    BY <2>1
  <2> QED BY <2>2
<1>3. DOMAIN t = DOMAIN s /\ \A i \in DOMAIN s : t[i] = [s[i] EXCEPT !.wins = @ \ {w}]
  BY DEF WithoutWindow
<1> HIDE DEF t
<1>4. \A i \in DOMAIN s : s[i] \in WorkspaceType
  BY <1>1
<1>5. ASSUME NEW i \in DOMAIN s
      PROVE  s[i].key = t[i].key /\ s[i].id = t[i].id /\ s[i].name = t[i].name /\ t[i].wins = s[i].wins \ {w}
  BY <1>2, <1>3, <1>4, ZenonT(60)
<1> QED BY <1>3, <1>5 DEF Range, t

LEMMA WithWindowRange ==
    ASSUME NEW s, GoodStack(s), NEW w, NEW k
    PROVE  LET t == WithWindow(s, k, w) IN
           /\ \A y \in Range(t) : \E x \in Range(s) :
                /\ x.key = y.key /\ x.id = y.id /\ x.name = y.name
                /\ (y.key = k => y.wins = x.wins \cup {w}) /\ (y.key # k => y.wins = x.wins)
           /\ \A x \in Range(s) : \E y \in Range(t) :
                y.key = x.key /\ (y.key = k => y.wins = x.wins \cup {w}) /\ (y.key # k => y.wins = x.wins)
<1> DEFINE t == WithWindow(s, k, w)
<1>1. s \in Seq(WorkspaceType)
  BY DEF GoodStack
<1>2. ASSUME NEW x \in WorkspaceType
      PROVE  LET y == [x EXCEPT !.wins = @ \cup {w}] IN
             x.key = y.key /\ x.id = y.id /\ x.name = y.name /\ y.wins = x.wins \cup {w}
  <2>1. x = [key |-> x.key, id |-> x.id, name |-> x.name, wins |-> x.wins]
    BY Fields
  <2>2. [x EXCEPT !.wins = @ \cup {w}] = [key |-> x.key, id |-> x.id, name |-> x.name, wins |-> x.wins \cup {w}]
    BY <2>1
  <2> QED BY <2>2
<1>3. DOMAIN t = DOMAIN s /\ \A i \in DOMAIN s : t[i] = IF s[i].key = k THEN [s[i] EXCEPT !.wins = @ \cup {w}] ELSE s[i]
  BY DEF WithWindow, OnKey
<1> HIDE DEF t
<1>4. \A i \in DOMAIN s : s[i] \in WorkspaceType
  BY <1>1
<1>5. ASSUME NEW i \in DOMAIN s
      PROVE  /\ s[i].key = t[i].key /\ s[i].id = t[i].id /\ s[i].name = t[i].name
             /\ (t[i].key = k => t[i].wins = s[i].wins \cup {w}) /\ (t[i].key # k => t[i].wins = s[i].wins)
  BY <1>2, <1>3, <1>4, ZenonT(60)
<1> QED BY <1>3, <1>5 DEF Range, t

LEMMA WithoutApart ==
    ASSUME NEW ms, GoodMon(ms), NEW aw, Apart(ms, aw), NEW o \in DOMAIN ms, NEW w,
           \E x \in Range(ms[o].stack) : w \in x.wins
    PROVE  ApartWith(Stacked(ms, o, WithoutWindow(ms[o].stack, w)), ms, aw, Tiled(ms) \ {w})
<1> DEFINE s == ms[o].stack
           t == WithoutWindow(s, w)
           ns == Stacked(ms, o, t)
<1>1. GoodStack(s)
  BY DEF GoodMon, GoodOutput
<1>2. PICK u \in Range(s) : w \in u.wins
  OBVIOUS
<1>3. GoodStack(t) /\ Keys(t) = Keys(s)
  BY <1>1, WithoutWindowStack
<1>4. /\ \A y \in Range(t) : \E x \in Range(s) :
           x.key = y.key /\ x.id = y.id /\ x.name = y.name /\ y.wins = x.wins \ {w}
      /\ \A x \in Range(s) : \E y \in Range(t) : y.wins = x.wins \ {w}
  BY <1>1, WithoutWindowRange
<1>5. Restacked(ns, ms, o, t)
  BY <1>1, <1>3, StackChanged
<1> HIDE DEF t, ns
<1>6. /\ GoodMon(ns) /\ DOMAIN ns = DOMAIN ms
      /\ ns[o] = [stack |-> t, active |-> ms[o].active]
      /\ \A p \in DOMAIN ms : p # o => ns[p] = ms[p]
  BY <1>5 DEF Restacked
<1>7. ns[o].stack = t
  BY <1>6
<1>8. Grows(ms, ns, w, o, 0)
  <2>1. ASSUME NEW p \in DOMAIN ns, NEW y \in Range(ns[p].stack)
        PROVE  \E x \in Range(ms[p].stack) :
                x.key = y.key /\ x.id = y.id /\ x.name = y.name /\ \A v \in y.wins : v \in x.wins
    BY <1>4, <1>6, <1>7
  <2> QED BY <1>6, <2>1 DEF Grows
<1>9. Apart(ns, aw)
  BY <1>8, GrowsApart
<1>10. \A v : v \in Tiled(ns) <=> v \in Tiled(ms) \ {w}
  <2>1. ASSUME NEW v, v \in Tiled(ns) PROVE v \in Tiled(ms) \ {w}
    <3>1. PICK p \in DOMAIN ns : \E x \in Range(ns[p].stack) : v \in x.wins
      BY <2>1, WithinOf
    <3>2. PICK x \in Range(ns[p].stack) : v \in x.wins
      BY <3>1
    <3>3. CASE p = o
      <4>1. PICK y \in Range(ms[o].stack) : v \in y.wins /\ v # w
        BY <1>4, <1>7, <3>2, <3>3
      <4> QED BY <4>1, WithinOf
    <3>4. CASE p # o
      <4>1. x \in Range(ms[p].stack) /\ p \in DOMAIN ms
        BY <1>6, <3>2, <3>4
      <4>2. v # w
        BY <1>2, <3>2, <3>4, <4>1 DEF Apart, TilesApart
      <4> QED BY <3>2, <4>1, <4>2, WithinOf
    <3> QED BY <3>3, <3>4
  <2>2. ASSUME NEW v, v \in Tiled(ms), v # w PROVE v \in Tiled(ns)
    <3>1. PICK p \in DOMAIN ms : \E x \in Range(ms[p].stack) : v \in x.wins
      BY <2>2, WithinOf
    <3>2. \E x \in Range(ns[p].stack) : v \in x.wins
      <4>1. CASE p = o
        BY <1>4, <1>7, <2>2, <3>1, <4>1
      <4>2. CASE p # o
        BY <1>6, <3>1, <4>2
      <4> QED BY <4>1, <4>2
    <3> QED BY <1>6, <3>2, WithinOf
  <2> QED BY <2>1, <2>2
<1> QED BY <1>6, <1>9, <1>10 DEF ApartWith, ns, t

LEMMA WithApart ==
    ASSUME NEW ms, GoodMon(ms), NEW aw, Apart(ms, aw), NEW o \in DOMAIN ms, NEW w \in Windows,
           NEW k \in Keys(ms[o].stack), w \notin Tiled(ms)
    PROVE  ApartWith(Stacked(ms, o, WithWindow(ms[o].stack, k, w)), ms, aw, Tiled(ms) \cup {w})
<1> DEFINE s == ms[o].stack
           t == WithWindow(s, k, w)
           ns == Stacked(ms, o, t)
<1>1. GoodStack(s)
  BY DEF GoodMon, GoodOutput
<1>2. PICK u \in Range(s) : u.key = k
  BY <1>1, StackFacts
<1>3. GoodStack(t) /\ Keys(t) = Keys(s)
  BY <1>1, WithWindowStack
<1>4. /\ \A y \in Range(t) : \E x \in Range(s) :
                /\ x.key = y.key /\ x.id = y.id /\ x.name = y.name
                /\ (y.key = k => y.wins = x.wins \cup {w}) /\ (y.key # k => y.wins = x.wins)
      /\ \A x \in Range(s) : \E y \in Range(t) :
                y.key = x.key /\ (y.key = k => y.wins = x.wins \cup {w}) /\ (y.key # k => y.wins = x.wins)
  BY <1>1, WithWindowRange
<1>5. Restacked(ns, ms, o, t)
  BY <1>1, <1>3, StackChanged
<1> HIDE DEF t, ns
<1>6. /\ GoodMon(ns) /\ DOMAIN ns = DOMAIN ms
      /\ ns[o] = [stack |-> t, active |-> ms[o].active]
      /\ \A p \in DOMAIN ms : p # o => ns[p] = ms[p]
  BY <1>5 DEF Restacked
<1>7. ns[o].stack = t
  BY <1>6
<1>8. Grows(ms, ns, w, o, k)
  <2>1. ASSUME NEW p \in DOMAIN ns, NEW y \in Range(ns[p].stack)
        PROVE  \E x \in Range(ms[p].stack) :
                /\ x.key = y.key /\ x.id = y.id /\ x.name = y.name
                /\ \A v \in y.wins : v \in x.wins \/ (v = w /\ w \notin Tiled(ms) /\ p = o /\ y.key = k)
    BY <1>4, <1>6, <1>7
  <2> QED BY <1>6, <2>1 DEF Grows
<1>9. Apart(ns, aw)
  BY <1>8, GrowsApart
<1>10. \A v : v \in Tiled(ns) <=> v \in Tiled(ms) \cup {w}
  <2>1. ASSUME NEW v, v \in Tiled(ns) PROVE v \in Tiled(ms) \cup {w}
    <3>1. PICK p \in DOMAIN ns : \E x \in Range(ns[p].stack) : v \in x.wins
      BY <2>1, WithinOf
    <3>2. PICK y \in Range(ns[p].stack) : v \in y.wins
      BY <3>1
    <3>3. \E x \in Range(ms[p].stack) : v \in x.wins \/ v = w
      BY <1>8, <3>2 DEF Grows
    <3> QED BY <1>6, <3>3, WithinOf
  <2>2. ASSUME NEW v, v \in Tiled(ms) PROVE v \in Tiled(ns)
    <3>1. PICK p \in DOMAIN ms : \E x \in Range(ms[p].stack) : v \in x.wins
      BY <2>2, WithinOf
    <3>2. \E x \in Range(ns[p].stack) : v \in x.wins
      <4>1. CASE p = o
        BY <1>4, <1>7, <3>1, <4>1
      <4>2. CASE p # o
        BY <1>6, <3>1, <4>2
      <4> QED BY <4>1, <4>2
    <3> QED BY <1>6, <3>2, WithinOf
  <2>3. w \in Tiled(ns)
    <3>1. PICK y \in Range(t) : y.key = k /\ w \in y.wins
      BY <1>2, <1>4
    <3> QED BY <1>6, <1>7, <3>1, WithinOf
  <2> QED BY <2>1, <2>2, <2>3
<1> QED BY <1>6, <1>9, <1>10 DEF ApartWith, ns, t

LEMMA ShownKeepsApart ==
    ASSUME NEW ms, GoodMon(ms), NEW mini, NEW aw, GoodAway(aw), NEW o \in DOMAIN ms, NEW k \in Nat,
           GoodMon(mon), GoodAway(away), Apart(ms, aw)
    PROVE  ApartWith(Shown(ms, mini, aw, o, k), ms, aw, Tiled(ms))
<1> DEFINE ns == Showing(ms, o, k)
           r == Maintained(ns, mini, aw, o)
<1>1. /\ GoodMon(ns) /\ DOMAIN ns = DOMAIN ms
      /\ \A p \in DOMAIN ms : p # o => ns[p] = ms[p]
      /\ \A p \in DOMAIN ms : ns[p].stack = ms[p].stack
  BY ActiveChanged, ZenonT(60)
<1> HIDE DEF ns
<1>2. Grows(ms, ns, 0, o, 0)
  BY <1>1 DEF Grows
<1>3. Apart(ns, aw)
  BY <1>2, GrowsApart
<1>4. \A w : w \in Tiled(ns) <=> w \in Tiled(ms)
  BY <1>1, WithinOf
<1>5. ApartWith(r, ns, aw, Tiled(ns))
  BY <1>1, <1>3, UpkeepKeepsApart
<1>6. Shown(ms, mini, aw, o, k) = r
  BY DEF Shown, Showing, ns
<1> HIDE DEF r
<1> QED BY <1>1, <1>4, <1>5, <1>6 DEF ApartWith

LEMMA UpkeepOfTwoApart ==
    ASSUME NEW ms, GoodMon(ms), NEW mini, NEW aw, GoodAway(aw), NEW o1, NEW o2 \in DOMAIN ms,
           NEW k \in Nat, NEW follow \in BOOLEAN, GoodMon(mon), GoodAway(away), Apart(ms, aw)
    PROVE  LET tidy == Maintained(Maintained(ms, mini, aw, o1), mini, aw, o2)
           IN  ApartWith(IF follow THEN Shown(tidy, mini, aw, o2, k) ELSE tidy, ms, aw, Tiled(ms))
<1> DEFINE ns == Maintained(ms, mini, aw, o1)
           tidy == Maintained(ns, mini, aw, o2)
           r == Shown(tidy, mini, aw, o2, k)
<1>1. ApartWith(ns, ms, aw, Tiled(ms))
  BY UpkeepKeepsApart
<1>2. GoodMon(ns) /\ DOMAIN ns = DOMAIN ms /\ Apart(ns, aw) /\ Tiled(ns) = Tiled(ms)
  BY <1>1 DEF ApartWith
<1> HIDE DEF ns
<1>3. ApartWith(tidy, ns, aw, Tiled(ns))
  BY <1>2, UpkeepKeepsApart
<1>4. GoodMon(tidy) /\ DOMAIN tidy = DOMAIN ns /\ Apart(tidy, aw) /\ Tiled(tidy) = Tiled(ns)
  BY <1>3 DEF ApartWith
<1> HIDE DEF tidy
<1>5. ApartWith(r, tidy, aw, Tiled(tidy))
  BY <1>2, <1>4, ShownKeepsApart
<1> HIDE DEF r
<1>6. ApartWith(tidy, ms, aw, Tiled(ms)) /\ ApartWith(r, ms, aw, Tiled(ms))
  BY <1>2, <1>4, <1>5 DEF ApartWith
<1>7. ApartWith(IF follow THEN r ELSE tidy, ms, aw, Tiled(ms))
  BY <1>6
<1> QED BY <1>7 DEF ns, tidy, r

----------------------------------------------------------------------------
(* The steps of the windows. *)

LEMMA OpenApart ==
    ASSUME AInv, IInv', NEW w \in Windows, NEW o \in DOMAIN mon, Open(w, o)
    PROVE  AInv'
<1> DEFINE k == mon[o].active
           ns == Stacked(mon, o, WithWindow(mon[o].stack, k, w))
           r == Maintained(ns, minimized, away, o)
<1>1. mon' = r /\ managed' = managed \cup {w} /\ w \notin managed /\ away' = away /\ minimized' = minimized
  BY DEF Open, Stacked
<1>2. k \in Keys(mon[o].stack)
  BY StacksAreGood DEF AInv
<1> HIDE DEF k
<1>3. ApartWith(ns, mon, away, Tiled(mon) \cup {w})
  BY <1>1, <1>2, AInvFacts, WithApart
<1> HIDE DEF ns
<1>4. ApartWith(r, mon, away, Tiled(mon) \cup {w})
  BY <1>3, AInvFacts, UpkeepAfter
<1> HIDE DEF r
<1>5. w \notin DOMAIN minimized
  BY <1>1 DEF AInv, IInv, MinimizedAreManaged
<1>6. Tiled(mon) \cup {w} = managed' \ DOMAIN minimized'
  BY <1>1, <1>5, AInvFacts
<1> QED BY <1>1, <1>4, <1>6, SameAway

\* What a tile is found on has it.
LEMMA FoundHas ==
    ASSUME AInv, NEW w
    PROVE  /\ Found(w) = {} => w \notin Tiled(mon)
           /\ Found(w) # {} => /\ FirstFound(w) \in DOMAIN mon
                               /\ \E x \in Range(mon[FirstFound(w)].stack) : w \in x.wins
<1>1. \A o \in DOMAIN mon : o \in Found(w) <=> \E x \in Range(mon[o].stack) : w \in x.wins
  <2>1. ASSUME NEW o \in DOMAIN mon
        PROVE  w \in Windowed(mon[o].stack) <=> \E x \in Range(mon[o].stack) : w \in x.wins
    BY DEF Windowed, Range
  <2> QED BY <2>1 DEF Found
<1>2. Found(w) \subseteq DOMAIN mon
  BY DEF Found
<1>3. Found(w) # {} => FirstFound(w) \in Found(w)
  BY FirstFoundIsThere DEF AInv, IInv
<1> QED BY <1>1, <1>2, <1>3, WithinOf

LEMMA CloseApart ==
    ASSUME AInv, IInv', NEW w \in Windows, Close(w)
    PROVE  AInv'
<1> DEFINE mini == Restrict(minimized, DOMAIN minimized \ {w})
           o == FirstFound(w)
           ns == Stacked(mon, o, WithoutWindow(mon[o].stack, w))
           r == Maintained(ns, mini, away, o)
<1>1. /\ managed' = managed \ {w} /\ minimized' = mini /\ away' = away
      /\ mon' = IF Found(w) = {} THEN mon ELSE r
  BY DEF Close, Stacked
<1>2. DOMAIN mini = DOMAIN minimized \ {w}
  BY FewerMinimized DEF AInv, IInv, MinimizedAreManaged
<1> HIDE DEF mini
<1>3. CASE Found(w) = {}
  <2>1. mon' = mon
    BY <1>1, <1>3
  <2>2. Tiled(mon) = managed' \ DOMAIN minimized'
    BY <1>1, <1>2, <1>3, FoundHas, AInvFacts
  <2>3. ApartWith(mon', mon, away, Tiled(mon))
    BY <2>1, AInvFacts DEF ApartWith
  <2> QED BY <1>1, <2>2, <2>3, SameAway
<1>4. CASE Found(w) # {}
  <2>1. o \in DOMAIN mon /\ \E x \in Range(mon[o].stack) : w \in x.wins
    BY <1>4, FoundHas
  <2>2. mon' = r
    BY <1>1, <1>4
  <2> HIDE DEF o
  <2>3. ApartWith(ns, mon, away, Tiled(mon) \ {w})
    BY <2>1, AInvFacts, WithoutApart
  <2> HIDE DEF ns
  <2>4. ApartWith(r, mon, away, Tiled(mon) \ {w})
    BY <2>3, AInvFacts, UpkeepAfter
  <2> HIDE DEF r
  <2>5. Tiled(mon) \ {w} = managed' \ DOMAIN minimized'
    BY <1>1, <1>2, AInvFacts
  <2> QED BY <1>1, <2>2, <2>4, <2>5, SameAway
<1> QED BY <1>3, <1>4

LEMMA MinimizeApart ==
    ASSUME AInv, IInv', NEW w \in Windows, NEW k, Minimize(w, k)
    PROVE  AInv'
<1> DEFINE o == FirstFound(w)
           mini == With(minimized, w, [output |-> o, key |-> k])
           ns == Stacked(mon, o, WithoutWindow(mon[o].stack, w))
           r == Maintained(ns, mini, away, o)
<1>1. managed' = managed /\ minimized' = mini /\ mon' = r /\ away' = away /\ Found(w) # {}
  BY DEF Minimize, Stacked
<1>2. DOMAIN mini = DOMAIN minimized \cup {w}
  BY DEF With
<1> HIDE DEF mini
<1>3. o \in DOMAIN mon /\ \E x \in Range(mon[o].stack) : w \in x.wins
  BY <1>1, FoundHas
<1> HIDE DEF o
<1>4. ApartWith(ns, mon, away, Tiled(mon) \ {w})
  BY <1>3, AInvFacts, WithoutApart
<1> HIDE DEF ns
<1>5. ApartWith(r, mon, away, Tiled(mon) \ {w})
  BY <1>4, AInvFacts, UpkeepAfter
<1> HIDE DEF r
<1>6. Tiled(mon) \ {w} = managed' \ DOMAIN minimized'
  BY <1>1, <1>2, AInvFacts
<1> QED BY <1>1, <1>5, <1>6, SameAway

LEMMA RestoreApart ==
    ASSUME AInv, IInv', NEW w \in Windows, Restore(w)
    PROVE  AInv'
<1> DEFINE mini == Restrict(minimized, DOMAIN minimized \ {w})
           o == IF minimized[w].output \in DOMAIN mon THEN minimized[w].output ELSE focused
           k == mon[o].active
           ns == Stacked(mon, o, WithWindow(mon[o].stack, k, w))
           r == Maintained(ns, mini, away, o)
<1>1. /\ managed' = managed /\ minimized' = mini /\ away' = away /\ w \in DOMAIN minimized
      /\ mon' = (IF o = NoOutput THEN mon ELSE r)
  BY DEF Restore, Stacked
<1>2. DOMAIN mini = DOMAIN minimized \ {w}
  BY FewerMinimized DEF AInv, IInv, MinimizedAreManaged
<1> HIDE DEF mini
<1>3. o \in DOMAIN mon
  BY DEF AInv, OneAtATime, IInv, FocusIsThere
<1> HIDE DEF o
<1>4. o # NoOutput /\ k \in Keys(mon[o].stack)
  BY <1>3, StacksAreGood DEF AInv
<1> HIDE DEF k
<1>5. w \notin Tiled(mon) /\ w \in managed
  BY <1>1, AInvFacts DEF AInv, IInv, MinimizedAreManaged
<1>6. ApartWith(ns, mon, away, Tiled(mon) \cup {w})
  BY <1>3, <1>4, <1>5, AInvFacts, WithApart
<1> HIDE DEF ns
<1>7. ApartWith(r, mon, away, Tiled(mon) \cup {w})
  BY <1>6, AInvFacts, UpkeepAfter
<1> HIDE DEF r
<1>8. mon' = r
  BY <1>1, <1>4
<1>9. Tiled(mon) \cup {w} = managed' \ DOMAIN minimized'
  BY <1>1, <1>2, <1>5, AInvFacts
<1> QED BY <1>1, <1>7, <1>8, <1>9, SameAway

LEMMA MoveWindowApart ==
    ASSUME AInv, IInv', NEW w \in Windows, NEW o1 \in DOMAIN mon, NEW o2 \in DOMAIN mon, NEW k1,
           NEW k2 \in Keys(mon[o2].stack), NEW follow \in BOOLEAN, MoveWindow(w, o1, k1, o2, k2, follow)
    PROVE  AInv'
<1> DEFINE taken == Stacked(mon, o1, WithoutWindow(mon[o1].stack, w))
           given == Stacked(taken, o2, WithWindow(taken[o2].stack, k2, w))
           tidy == Maintained(Maintained(given, minimized, away, o1), minimized, away, o2)
           r == IF follow THEN Shown(tidy, minimized, away, o2, k2) ELSE tidy
<1>1. /\ mon' = r /\ minimized' = minimized /\ managed' = managed /\ away' = away
      /\ \E x \in Range(mon[o1].stack) : w \in x.wins
  BY DEF MoveWindow, Holds, Stacked
<1>2. ApartWith(taken, mon, away, Tiled(mon) \ {w})
  BY <1>1, AInvFacts, WithoutApart
<1>2a. GoodMon(taken) /\ DOMAIN taken = DOMAIN mon /\ Apart(taken, away) /\ Tiled(taken) = Tiled(mon) \ {w}
  BY <1>2 DEF ApartWith
<1>3. k2 \in Keys(taken[o2].stack) /\ k2 \in Nat
  <2> DEFINE s == WithoutWindow(mon[o1].stack, w)
  <2>1. GoodStack(s) /\ Keys(s) = Keys(mon[o1].stack)
    BY AInvFacts, WithoutWindowStack
  <2> HIDE DEF s
  <2>2. Restacked(Stacked(mon, o1, s), mon, o1, s)
    BY <2>1, AInvFacts, StackChanged
  <2>3. Restacked(taken, mon, o1, s)
    BY <2>2 DEF s
  <2> HIDE DEF taken
  <2>4. k2 \in Nat
    BY AInvFacts, StackFacts
  <2> QED BY <2>3, <2>4 DEF Restacked
<1> HIDE DEF taken
<1>4. ApartWith(given, taken, away, Tiled(taken) \cup {w})
  <2>1. w \notin Tiled(taken) /\ o2 \in DOMAIN taken
    BY <1>2a
  <2> QED BY <1>2a, <1>3, <2>1, WithApart
<1> HIDE DEF given
<1>4a. GoodMon(given) /\ DOMAIN given = DOMAIN taken /\ Apart(given, away) /\ Tiled(given) = Tiled(taken) \cup {w}
  BY <1>4 DEF ApartWith
<1>5. ApartWith(r, given, away, Tiled(given))
  <2>1. GoodMon(mon) /\ GoodAway(away) /\ o2 \in DOMAIN given
    BY <1>2a, <1>4a, AInvFacts
  <2> QED BY <1>3, <1>4a, <2>1, UpkeepOfTwoApart
<1> HIDE DEF r
<1>6. w \in Tiled(mon)
  BY <1>1, WithinOf
<1>7. Tiled(given) = managed' \ DOMAIN minimized'
  BY <1>1, <1>2a, <1>4a, <1>6, AInvFacts
<1>8. ApartWith(r, mon, away, Tiled(given))
  BY <1>2a, <1>4a, <1>5 DEF ApartWith
<1> QED BY <1>1, <1>7, <1>8, SameAway

----------------------------------------------------------------------------
(* The steps of the focus, and of the names. *)

LEMMA FocusWorkspaceApart ==
    ASSUME AInv, IInv', NEW o \in DOMAIN mon, NEW k \in Keys(mon[o].stack), FocusWorkspace(o, k)
    PROVE  AInv'
<1> DEFINE r == Shown(mon, minimized, away, o, k)
<1>1. mon' = r /\ minimized' = minimized /\ managed' = managed /\ away' = away
  BY DEF FocusWorkspace
<1>2. k \in Nat
  BY AInvFacts, StackFacts
<1>3. ApartWith(r, mon, away, Tiled(mon))
  BY <1>2, AInvFacts, ShownKeepsApart
<1> HIDE DEF r
<1>4. Tiled(mon) = managed' \ DOMAIN minimized'
  BY <1>1, AInvFacts
<1> QED BY <1>1, <1>3, <1>4, SameAway

LEMMA FocusOutputApart ==
    ASSUME AInv, IInv', NEW o \in DOMAIN mon, FocusOutput(o)
    PROVE  AInv'
<1>1. mon' = mon /\ minimized' = minimized /\ managed' = managed /\ away' = away
  BY DEF FocusOutput
<1>2. ApartWith(mon', mon, away, Tiled(mon)) /\ Tiled(mon) = managed' \ DOMAIN minimized'
  BY <1>1, AInvFacts DEF ApartWith
<1> QED BY <1>1, <1>2, SameAway

\* y is x, and has the name if it is the workspace id.
Renames(y, x, id, name) ==
    /\ y.key = x.key /\ y.id = x.id /\ y.wins = x.wins
    /\ x.id = id => y.name = name
    /\ x.id # id => y.name = x.name

AllRenamed(ns, ms, id, name) ==
    /\ DOMAIN ns = DOMAIN ms
    /\ \A o \in DOMAIN ns : \A y \in Range(ns[o].stack) : \E x \in Range(ms[o].stack) : Renames(y, x, id, name)
    /\ \A o \in DOMAIN ns : \A x \in Range(ms[o].stack) : \E y \in Range(ns[o].stack) : y.wins = x.wins

NameIsFree(ms, aw, id, name) == name = NoName \/ \A x \in Within(ms) \cup Within(aw) : x.id = id \/ x.name # name

LEMMA RenamedApart ==
    ASSUME NEW ms, NEW aw, Apart(ms, aw), NEW ns, NEW bw, NEW id, NEW name, NameIsFree(ms, aw, id, name),
           AllRenamed(ns, ms, id, name), AllRenamed(bw, aw, id, name),
           \A g \in DOMAIN aw : bw[g].moved = aw[g].moved /\ bw[g].host = aw[g].host
    PROVE  Apart(ns, bw) /\ Tiled(ns) = Tiled(ms)
<1>1. IdsApart(ms) /\ TilesApart(ms) /\ NamesApart(ms, aw) /\ ParkedThere(ms, aw)
  BY DEF Apart
<1>2. ASSUME NEW o \in DOMAIN ns, NEW y \in Range(ns[o].stack)
      PROVE  o \in DOMAIN ms /\ \E x \in Range(ms[o].stack) : Renames(y, x, id, name)
  BY DEF AllRenamed
<1>3. ASSUME NEW g \in DOMAIN bw, NEW y \in Range(bw[g].stack)
      PROVE  g \in DOMAIN aw /\ \E x \in Range(aw[g].stack) : Renames(y, x, id, name)
  BY DEF AllRenamed
<1>4. IdsApart(ns)
  <2> SUFFICES ASSUME NEW o \in DOMAIN ns, NEW p \in DOMAIN ns, NEW y \in Range(ns[o].stack),
                      NEW z \in Range(ns[p].stack), y.id = z.id
               PROVE  o = p /\ y.key = z.key
    BY DEF IdsApart
  <2>1. PICK x \in Range(ms[o].stack) : x.key = y.key /\ x.id = y.id
    BY <1>2 DEF Renames
  <2>2. PICK u \in Range(ms[p].stack) : u.key = z.key /\ u.id = z.id
    BY <1>2 DEF Renames
  <2> QED BY <1>1, <1>2, <2>1, <2>2 DEF IdsApart
<1>5. TilesApart(ns)
  <2> SUFFICES ASSUME NEW o \in DOMAIN ns, NEW p \in DOMAIN ns, NEW y \in Range(ns[o].stack),
                      NEW z \in Range(ns[p].stack), NEW v \in y.wins, v \in z.wins
               PROVE  o = p /\ y.key = z.key
    BY DEF TilesApart
  <2>1. PICK x \in Range(ms[o].stack) : x.key = y.key /\ v \in x.wins
    BY <1>2 DEF Renames
  <2>2. PICK u \in Range(ms[p].stack) : u.key = z.key /\ v \in u.wins
    BY <1>2 DEF Renames
  <2> QED BY <1>1, <1>2, <2>1, <2>2 DEF TilesApart
<1>6. NamesApart(ns, bw)
  <2>1. ASSUME NEW y \in Within(ns) \cup Within(bw)
        PROVE  \E x \in Within(ms) \cup Within(aw) : Renames(y, x, id, name)
    <3>1. CASE y \in Within(bw)
      <4>1. PICK g \in DOMAIN bw : y \in Range(bw[g].stack)
        BY <3>1, WithinOf
      <4>2. PICK x \in Range(aw[g].stack) : Renames(y, x, id, name)
        BY <1>3, <4>1
      <4>3. x \in Within(aw)
        BY <1>3, <4>1, <4>2, WithinOf
      <4> QED BY <4>2, <4>3
    <3>2. CASE y \in Within(ns)
      <4>1. PICK o \in DOMAIN ns : y \in Range(ns[o].stack)
        BY <3>2, WithinOf
      <4>2. PICK x \in Range(ms[o].stack) : Renames(y, x, id, name)
        BY <1>2, <4>1
      <4>3. x \in Within(ms)
        BY <1>2, <4>1, <4>2, WithinOf
      <4> QED BY <4>2, <4>3
    <3> QED BY <3>1, <3>2
  <2> SUFFICES ASSUME NEW y \in Within(ns) \cup Within(bw), NEW z \in Within(ns) \cup Within(bw), y.name = z.name
               PROVE  y.name = NoName \/ y.id = z.id
    BY DEF NamesApart
  <2>2. PICK x \in Within(ms) \cup Within(aw) : Renames(y, x, id, name)
    BY <2>1
  <2>3. PICK u \in Within(ms) \cup Within(aw) : Renames(z, u, id, name)
    BY <2>1
  <2>4. CASE x.id = id /\ u.id = id
    BY <2>2, <2>3, <2>4 DEF Renames
  <2>5. CASE x.id # id /\ u.id # id
    BY <1>1, <2>2, <2>3, <2>5 DEF Renames, NamesApart
  <2>6. CASE x.id = id /\ u.id # id
    BY <2>2, <2>3, <2>6 DEF Renames, NameIsFree
  <2>7. CASE x.id # id /\ u.id = id
    BY <2>2, <2>3, <2>7 DEF Renames, NameIsFree
  <2> QED BY <2>4, <2>5, <2>6, <2>7
<1>7. ParkedThere(ns, bw)
  <2> SUFFICES ASSUME NEW g \in DOMAIN bw, NEW p \in Range(bw[g].moved), NEW y \in Range(bw[g].stack),
                      NEW o \in DOMAIN ns, NEW z \in Range(ns[o].stack), p[1] = y.key, z.id = y.id
               PROVE  o = bw[g].host /\ z.key = p[2]
    BY DEF ParkedThere
  <2>1. PICK x \in Range(ms[o].stack) : x.key = z.key /\ x.id = z.id
    BY <1>2 DEF Renames
  <2>2. PICK u \in Range(aw[g].stack) : u.key = y.key /\ u.id = y.id
    BY <1>3 DEF Renames
  <2>3. g \in DOMAIN aw /\ o \in DOMAIN ms /\ bw[g].host = aw[g].host /\ p \in Range(aw[g].moved)
    BY DEF AllRenamed
  <2> QED BY <1>1, <2>1, <2>2, <2>3 DEF ParkedThere
<1>8. \A w : w \in Tiled(ns) <=> w \in Tiled(ms)
  <2>1. ASSUME NEW w, w \in Tiled(ns) PROVE w \in Tiled(ms)
    <3>1. PICK o \in DOMAIN ns : \E x \in Range(ns[o].stack) : w \in x.wins
      BY <2>1, WithinOf
    <3>2. \E x \in Range(ms[o].stack) : w \in x.wins
      BY <1>2, <3>1 DEF Renames
    <3> QED BY <1>2, <3>1, <3>2, WithinOf
  <2>2. ASSUME NEW w, w \in Tiled(ms) PROVE w \in Tiled(ns)
    <3>1. PICK o \in DOMAIN ms : \E x \in Range(ms[o].stack) : w \in x.wins
      BY <2>2, WithinOf
    <3>2. o \in DOMAIN ns /\ \E x \in Range(ns[o].stack) : w \in x.wins
      BY <3>1 DEF AllRenamed
    <3> QED BY <3>2, WithinOf
  <2> QED BY <2>1, <2>2
<1> QED BY <1>4, <1>5, <1>6, <1>7, <1>8 DEF Apart

LEMMA RenameRange ==
    ASSUME NEW s, GoodStack(s), NEW id, NEW name
    PROVE  /\ \A y \in Range(Rename(s, id, name)) : \E x \in Range(s) : Renames(y, x, id, name)
           /\ \A x \in Range(s) : \E y \in Range(Rename(s, id, name)) : y.wins = x.wins
           /\ \A y, z \in Range(Rename(s, id, name)) :
                \E x, u \in Range(s) : y.id = x.id /\ z.id = u.id /\ (x = u => y = z)
<1> DEFINE t == Rename(s, id, name)
<1>1. \A i \in DOMAIN s : s[i] \in WorkspaceType
  BY DEF GoodStack
<1>2. ASSUME NEW x \in WorkspaceType
      PROVE  LET y == [x EXCEPT !.name = name] IN
             y.key = x.key /\ y.id = x.id /\ y.wins = x.wins /\ y.name = name
  <2>1. x = [key |-> x.key, id |-> x.id, name |-> x.name, wins |-> x.wins]
    BY Fields
  <2>2. [x EXCEPT !.name = name] = [key |-> x.key, id |-> x.id, name |-> name, wins |-> x.wins]
    BY <2>1
  <2> QED BY <2>2
<1>3. DOMAIN t = DOMAIN s /\ \A i \in DOMAIN s : t[i] = IF s[i].id = id THEN [s[i] EXCEPT !.name = name] ELSE s[i]
  BY DEF Rename
<1> HIDE DEF t
<1>4. ASSUME NEW i \in DOMAIN s PROVE Renames(t[i], s[i], id, name)
  <2> DEFINE x == s[i]
             y == [x EXCEPT !.name = name]
  <2>1. y.key = x.key /\ y.id = x.id /\ y.wins = x.wins /\ y.name = name
    <3>1. x \in WorkspaceType
      BY <1>1
    <3> HIDE DEF x
    <3> QED BY <1>2, <3>1
  <2>2. t[i] = IF x.id = id THEN y ELSE x
    BY <1>3
  <2>3. (x.id = id => t[i] = y) /\ (x.id # id => t[i] = x)
    BY <2>2
  <2> HIDE DEF x, y
  <2>4. Renames(t[i], x, id, name)
    BY <2>1, <2>3 DEF Renames
  <2> QED BY <2>4 DEF x
<1>5. \A i, j \in DOMAIN s : s[i] = s[j] => t[i] = t[j]
  BY <1>3
<1>6. \A i \in DOMAIN s : t[i].wins = s[i].wins /\ t[i].id = s[i].id
  BY <1>4 DEF Renames
<1>7. \A y \in Range(t) : \E i \in DOMAIN s : y = t[i]
  BY <1>3 DEF Range
<1>8. \A i \in DOMAIN s : s[i] \in Range(s) /\ t[i] \in Range(t)
  BY <1>3 DEF Range
<1>9. \A x \in Range(s) : \E i \in DOMAIN s : x = s[i]
  BY DEF Range
<1>10. \A y \in Range(t) : \E x \in Range(s) : Renames(y, x, id, name)
  BY <1>4, <1>7, <1>8
<1>11. \A x \in Range(s) : \E y \in Range(t) : y.wins = x.wins
  BY <1>6, <1>8, <1>9
<1>12. \A y, z \in Range(t) : \E x, u \in Range(s) : y.id = x.id /\ z.id = u.id /\ (x = u => y = z)
  <2> SUFFICES ASSUME NEW y \in Range(t), NEW z \in Range(t)
               PROVE  \E x, u \in Range(s) : y.id = x.id /\ z.id = u.id /\ (x = u => y = z)
    OBVIOUS
  <2>1. PICK i \in DOMAIN s : y = t[i]
    BY <1>7
  <2>2. PICK j \in DOMAIN s : z = t[j]
    BY <1>7
  <2> QED BY <1>5, <1>6, <1>8, <2>1, <2>2
<1> QED BY <1>10, <1>11, <1>12 DEF t

\* t is s, and its workspace k has the name.
NamedAs(t, s, k, name) ==
    /\ \A y \in Range(t) : \E x \in Range(s) : y.key = x.key /\ y.id = x.id /\ y.wins = x.wins
                                /\ (x.key = k => y.name = name) /\ (x.key # k => y.name = x.name)
    /\ \A x \in Range(s) : \E y \in Range(t) : y.wins = x.wins

LEMMA NamedRange ==
    ASSUME NEW s, GoodStack(s), NEW k, NEW name
    PROVE  NamedAs(OnKey(s, k, LAMBDA x : [x EXCEPT !.name = name]), s, k, name)
<1> DEFINE t == OnKey(s, k, LAMBDA x : [x EXCEPT !.name = name])
<1>1. \A i \in DOMAIN s : s[i] \in WorkspaceType
  BY DEF GoodStack
<1>2. ASSUME NEW x \in WorkspaceType
      PROVE  LET y == [x EXCEPT !.name = name] IN
             y.key = x.key /\ y.id = x.id /\ y.wins = x.wins /\ y.name = name
  <2>1. x = [key |-> x.key, id |-> x.id, name |-> x.name, wins |-> x.wins]
    BY Fields
  <2>2. [x EXCEPT !.name = name] = [key |-> x.key, id |-> x.id, name |-> name, wins |-> x.wins]
    BY <2>1
  <2> QED BY <2>2
<1>3. DOMAIN t = DOMAIN s /\ \A i \in DOMAIN s : t[i] = IF s[i].key = k THEN [s[i] EXCEPT !.name = name] ELSE s[i]
  BY DEF OnKey
<1> HIDE DEF t
<1>4. ASSUME NEW i \in DOMAIN s
      PROVE  /\ t[i].key = s[i].key /\ t[i].id = s[i].id /\ t[i].wins = s[i].wins
             /\ (s[i].key = k => t[i].name = name) /\ (s[i].key # k => t[i].name = s[i].name)
  <2> DEFINE x == s[i]
             y == [x EXCEPT !.name = name]
  <2>1. y.key = x.key /\ y.id = x.id /\ y.wins = x.wins /\ y.name = name
    <3>1. x \in WorkspaceType
      BY <1>1
    <3> HIDE DEF x
    <3> QED BY <1>2, <3>1
  <2>2. t[i] = IF x.key = k THEN y ELSE x
    BY <1>3
  <2>3. (x.key = k => t[i] = y) /\ (x.key # k => t[i] = x)
    BY <2>2
  <2> HIDE DEF x, y
  <2>4. /\ t[i].key = x.key /\ t[i].id = x.id /\ t[i].wins = x.wins
        /\ (x.key = k => t[i].name = name) /\ (x.key # k => t[i].name = x.name)
    BY <2>1, <2>3
  <2> QED BY <2>4 DEF x
<1>5. \A y \in Range(t) : \E i \in DOMAIN s : y = t[i]
  BY <1>3 DEF Range
<1>6. \A i \in DOMAIN s : s[i] \in Range(s) /\ t[i] \in Range(t)
  BY <1>3 DEF Range
<1>7. \A x \in Range(s) : \E i \in DOMAIN s : x = s[i]
  BY DEF Range
<1>8. \A y \in Range(t) : \E x \in Range(s) : y.key = x.key /\ y.id = x.id /\ y.wins = x.wins
                                   /\ (x.key = k => y.name = name) /\ (x.key # k => y.name = x.name)
  BY <1>4, <1>5, <1>6
<1>9. \A x \in Range(s) : \E y \in Range(t) : y.wins = x.wins
  BY <1>4, <1>6, <1>7
<1> QED BY <1>8, <1>9 DEF t, NamedAs

LEMMA NameWorkspaceApart ==
    ASSUME AInv, IInv', NEW o \in DOMAIN mon, NEW k \in Keys(mon[o].stack), NEW name \in Names \cup {NoName},
           NameWorkspace(o, k, name)
    PROVE  AInv'
<1> DEFINE id == At(mon[o].stack, k).id
           aw == [g \in DOMAIN away |-> [away[g] EXCEPT !.stack = Rename(away[g].stack, id, name)]]
           s == OnKey(mon[o].stack, k, LAMBDA x : [x EXCEPT !.name = name])
           ns == Stacked(mon, o, s)
           r == Maintained(ns, minimized, aw, o)
<1>1. /\ away' = aw /\ mon' = r /\ minimized' = minimized /\ managed' = managed
      /\ name # NoName => ~NameInUse(name, id)
  BY DEF NameWorkspace, Stacked
<1>2. NameIsFree(mon, away, id, name)
  BY <1>1 DEF NameIsFree, NameInUse
<1>3. GoodMon(mon) /\ GoodAway(away) /\ GoodStack(mon[o].stack) /\ Apart(mon, away)
  BY AInvFacts
<1>4. At(mon[o].stack, k) \in Range(mon[o].stack) /\ At(mon[o].stack, k).key = k
  BY <1>3, StackFacts
<1>5. /\ \A x \in Range(mon[o].stack) : x.id = id <=> x.key = k
      /\ \A p \in DOMAIN mon : \A x \in Range(mon[p].stack) : p # o => x.id # id
  <2>1. IdsApart(mon)
    BY <1>3 DEF Apart
  <2>2. \A x \in Range(mon[o].stack) : x.key = k => x = At(mon[o].stack, k)
    BY <1>3, <1>4, StackFacts
  <2> QED BY <1>4, <2>1, <2>2 DEF IdsApart
<1> HIDE DEF id
<1>6. GoodStack(s) /\ Keys(s) = Keys(mon[o].stack)
  BY <1>3, NamedStack
<1>7. NamedAs(s, mon[o].stack, k, name)
  BY <1>3, NamedRange
<1> HIDE DEF s
<1>8. Restacked(ns, mon, o, s)
  BY <1>3, <1>6, StackChanged
<1> HIDE DEF ns
<1>9. /\ GoodMon(ns) /\ DOMAIN ns = DOMAIN mon /\ ns[o].stack = s
      /\ \A p \in DOMAIN mon : p # o => ns[p] = mon[p]
  BY <1>8 DEF Restacked
<1>10. AllRenamed(ns, mon, id, name)
  <2>1. ASSUME NEW p \in DOMAIN mon
        PROVE  /\ \A y \in Range(ns[p].stack) : \E x \in Range(mon[p].stack) : Renames(y, x, id, name)
               /\ \A x \in Range(mon[p].stack) : \E y \in Range(ns[p].stack) : y.wins = x.wins
    <3>1. CASE p = o
      BY <1>5, <1>7, <1>9, <3>1 DEF Renames, NamedAs
    <3>2. CASE p # o
      BY <1>5, <1>9, <3>2 DEF Renames
    <3> QED BY <3>1, <3>2
  <2> QED BY <1>9, <2>1 DEF AllRenamed
<1>11. ASSUME NEW g \in DOMAIN away
       PROVE  aw[g].stack = Rename(away[g].stack, id, name) /\ aw[g].moved = away[g].moved /\ aw[g].host = away[g].host
  <2> DEFINE t == Rename(away[g].stack, id, name)
  <2>1. aw[g] = [away[g] EXCEPT !.stack = t]
    OBVIOUS
  <2>2. away[g] = [stack |-> away[g].stack, active |-> away[g].active, host |-> away[g].host,
                   moved |-> away[g].moved, minimized |-> away[g].minimized]
    BY <1>3 DEF GoodAway, GoodRecord
  <2> HIDE DEF t, aw
  <2>3. aw[g] = [stack |-> t, active |-> away[g].active, host |-> away[g].host,
                   moved |-> away[g].moved, minimized |-> away[g].minimized]
    BY <2>1, <2>2
  <2> QED BY <2>3 DEF t
<1>12. DOMAIN aw = DOMAIN away
  OBVIOUS
<1> HIDE DEF aw
<1>13. ASSUME NEW g \in DOMAIN away
       PROVE  GoodStack(away[g].stack)
  BY <1>3 DEF GoodAway, GoodRecord
<1>14. AllRenamed(aw, away, id, name)
  BY <1>11, <1>12, <1>13, RenameRange DEF AllRenamed
<1>15. Apart(ns, aw) /\ Tiled(ns) = Tiled(mon)
  BY <1>2, <1>3, <1>10, <1>11, <1>14, RenamedApart
<1>16. GoodAway(aw)
  BY <1>1 DEF IInv, RecordsAreKept
<1>17. ApartWith(r, ns, aw, Tiled(ns))
  BY <1>3, <1>9, <1>15, <1>16, UpkeepKeepsApart
<1> HIDE DEF r
<1>18. DOMAIN r = DOMAIN mon /\ Apart(r, aw) /\ Tiled(r) = Tiled(mon)
  BY <1>9, <1>15, <1>17 DEF ApartWith
<1>19. ASSUME NEW g \in DOMAIN away PROVE RecordSound(aw[g])
  <2>1. RecordSound(away[g])
    BY DEF AInv, OneAtATime
  <2>2. ASSUME NEW y \in Range(aw[g].stack), NEW z \in Range(aw[g].stack), y.id = z.id PROVE y = z
    <3>1. \E x, u \in Range(away[g].stack) : y.id = x.id /\ z.id = u.id /\ (x = u => y = z)
      BY <1>11, <1>13, RenameRange
    <3> QED BY <2>1, <2>2, <3>1 DEF RecordSound
  <2> QED BY <1>11, <2>1, <2>2 DEF RecordSound
<1>20. OneAtATime'
  BY <1>1, <1>11, <1>12, <1>18, <1>19 DEF AInv, OneAtATime
<1>21. TilesAreManaged'
  BY <1>1, <1>18, AInvFacts DEF TilesAreManaged
<1> QED BY <1>1, <1>18, <1>20, <1>21 DEF AInv

----------------------------------------------------------------------------
(* A workspace goes to another output. *)

\* Each workspace of ns and bw that has a name has it, and the identity, of one of ms and aw.
Sourced(ns, bw, ms, aw) ==
    \A y \in Within(ns) \cup Within(bw) :
        y.name = NoName \/ \E x \in Within(ms) \cup Within(aw) : x.id = y.id /\ x.name = y.name

LEMMA SourcedNames ==
    ASSUME NEW ms, NEW aw, NamesApart(ms, aw), NEW ns, NEW bw, Sourced(ns, bw, ms, aw)
    PROVE  NamesApart(ns, bw)
<1> SUFFICES ASSUME NEW y \in Within(ns) \cup Within(bw), NEW z \in Within(ns) \cup Within(bw), y.name = z.name
             PROVE  y.name = NoName \/ y.id = z.id
  BY DEF NamesApart
<1> SUFFICES ASSUME y.name # NoName PROVE y.id = z.id
  OBVIOUS
<1>1. PICK x \in Within(ms) \cup Within(aw) : x.id = y.id /\ x.name = y.name
  BY DEF Sourced
<1>2. PICK u \in Within(ms) \cup Within(aw) : u.id = z.id /\ u.name = z.name
  BY DEF Sourced
<1> QED BY <1>1, <1>2 DEF NamesApart

\* The windows of a workspace of ns are those of the workspace of ms with its identity.
Carries(ns, ms) ==
    \A o \in DOMAIN ns : \A y \in Range(ns[o].stack) : \E p \in DOMAIN ms : \E x \in Range(ms[p].stack) :
        x.id = y.id /\ x.name = y.name /\ x.wins = y.wins

LEMMA CarriedTilesApart ==
    ASSUME NEW ms, GoodMon(ms), TilesApart(ms), NEW ns, IdsApart(ns), Carries(ns, ms)
    PROVE  TilesApart(ns)
<1> SUFFICES ASSUME NEW o \in DOMAIN ns, NEW p \in DOMAIN ns, NEW y \in Range(ns[o].stack),
                    NEW z \in Range(ns[p].stack), NEW v \in y.wins, v \in z.wins
             PROVE  o = p /\ y.key = z.key
  BY DEF TilesApart
<1>1. PICK q \in DOMAIN ms : \E x \in Range(ms[q].stack) : x.id = y.id /\ x.wins = y.wins
  BY DEF Carries
<1>2. PICK x \in Range(ms[q].stack) : x.id = y.id /\ x.wins = y.wins
  BY <1>1
<1>3. PICK r \in DOMAIN ms : \E u \in Range(ms[r].stack) : u.id = z.id /\ u.wins = z.wins
  BY DEF Carries
<1>4. PICK u \in Range(ms[r].stack) : u.id = z.id /\ u.wins = z.wins
  BY <1>3
<1>5. q = r /\ x.key = u.key
  BY <1>2, <1>4 DEF TilesApart
<1>6. GoodStack(ms[q].stack)
  BY DEF GoodMon, GoodOutput
<1>7. x = u
  BY <1>2, <1>4, <1>5, <1>6, StackFacts
<1> QED BY <1>2, <1>4, <1>7 DEF IdsApart

\* ns has what ms has, save that the workspace x of o1 is on o2, under the key.
Relocated(ns, ms, o1, x, o2, key) ==
    /\ DOMAIN ns = DOMAIN ms /\ o1 # o2
    /\ Range(ns[o1].stack) = Range(ms[o1].stack) \ {x}
    /\ HasToo(ns[o2], ms[o2], x, key)
    /\ \A o \in DOMAIN ms : o # o1 /\ o # o2 => ns[o] = ms[o]

\* bw has the records of aw, without the identity and without its pair.
Forgets(bw, aw, id) ==
    /\ DOMAIN bw = DOMAIN aw
    /\ \A g \in DOMAIN aw :
        /\ bw[g].host = aw[g].host
        /\ Range(bw[g].moved) \subseteq Range(aw[g].moved)
        /\ \A y \in Range(bw[g].stack) : y \in Range(aw[g].stack) /\ y.id # id

LEMMA RelocatedApart ==
    ASSUME NEW ms, GoodMon(ms), NEW aw, Apart(ms, aw), NEW o1 \in DOMAIN ms, NEW o2 \in DOMAIN ms,
           NEW x \in Range(ms[o1].stack), NEW key, NEW ns, Relocated(ns, ms, o1, x, o2, key),
           NEW bw, Forgets(bw, aw, x.id)
    PROVE  Apart(ns, bw) /\ Tiled(ns) = Tiled(ms)
<1>1. IdsApart(ms) /\ TilesApart(ms) /\ NamesApart(ms, aw) /\ ParkedThere(ms, aw)
  BY DEF Apart
<1>2. PICK n : /\ Range(ns[o2].stack) = Range(ms[o2].stack) \cup {n}
               /\ n.key = key /\ n.id = x.id /\ n.name = x.name /\ n.wins = x.wins
  BY DEF Relocated, HasToo
<1>3. DOMAIN ns = DOMAIN ms /\ o1 # o2 /\ Range(ns[o1].stack) = Range(ms[o1].stack) \ {x}
  BY DEF Relocated
<1>4. \A o \in DOMAIN ms : o # o1 /\ o # o2 => ns[o] = ms[o]
  BY DEF Relocated
<1>5. \A y \in Range(ms[o1].stack) : y.id = x.id => y = x
  <2>1. GoodStack(ms[o1].stack)
    BY DEF GoodMon, GoodOutput
  <2> QED BY <1>1, <2>1, StackFacts DEF IdsApart
<1>6. ASSUME NEW o \in DOMAIN ns, NEW y \in Range(ns[o].stack)
      PROVE  (y \in Range(ms[o].stack) /\ y.id # x.id) \/ (o = o2 /\ y = n)
  <2>1. (y \in Range(ms[o].stack) /\ (o = o1 => y # x)) \/ (o = o2 /\ y = n)
    BY <1>2, <1>3, <1>4
  <2>2. ASSUME y \in Range(ms[o].stack), o = o1 => y # x PROVE y.id # x.id
    BY <1>1, <1>3, <1>5, <2>2 DEF IdsApart
  <2> QED BY <2>1, <2>2
<1>7. ASSUME NEW o \in DOMAIN ms, NEW y \in Range(ms[o].stack)
      PROVE  y \in Range(ns[o].stack) \/ (o = o1 /\ y = x)
  BY <1>2, <1>3, <1>4
<1>8. IdsApart(ns)
  <2> SUFFICES ASSUME NEW o \in DOMAIN ns, NEW p \in DOMAIN ns, NEW y \in Range(ns[o].stack),
                      NEW z \in Range(ns[p].stack), y.id = z.id
               PROVE  o = p /\ y.key = z.key
    BY DEF IdsApart
  <2>1. (y \in Range(ms[o].stack) /\ y.id # x.id) \/ (o = o2 /\ y = n)
    BY <1>6
  <2>2. (z \in Range(ms[p].stack) /\ z.id # x.id) \/ (p = o2 /\ z = n)
    BY <1>6
  <2> QED BY <1>1, <1>2, <1>3, <2>1, <2>2 DEF IdsApart
<1>9. Carries(ns, ms)
  <2> SUFFICES ASSUME NEW o \in DOMAIN ns, NEW y \in Range(ns[o].stack)
               PROVE  \E p \in DOMAIN ms : \E u \in Range(ms[p].stack) :
                        u.id = y.id /\ u.name = y.name /\ u.wins = y.wins
    BY DEF Carries
  <2>1. CASE y \in Range(ms[o].stack)
    BY <1>3, <2>1
  <2>2. CASE y = n
    BY <1>2, <2>2
  <2> QED BY <1>6, <2>1, <2>2
<1>10. TilesApart(ns)
  BY <1>1, <1>8, <1>9, CarriedTilesApart
<1>11. NamesApart(ns, bw)
  <2>1. ASSUME NEW y \in Within(ns) \cup Within(bw)
        PROVE  \E u \in Within(ms) \cup Within(aw) : u.id = y.id /\ u.name = y.name
    <3>1. CASE y \in Within(ns)
      <4>1. PICK o \in DOMAIN ns : y \in Range(ns[o].stack)
        BY <3>1, WithinOf
      <4>2. PICK p \in DOMAIN ms : \E u \in Range(ms[p].stack) : u.id = y.id /\ u.name = y.name
        BY <1>9, <4>1 DEF Carries
      <4> QED BY <4>2, WithinOf
    <3>2. CASE y \in Within(bw)
      <4>1. PICK g \in DOMAIN bw : y \in Range(bw[g].stack)
        BY <3>2, WithinOf
      <4>2. g \in DOMAIN aw /\ y \in Range(aw[g].stack)
        BY <4>1 DEF Forgets
      <4> QED BY <4>2, WithinOf
    <3> QED BY <3>1, <3>2
  <2>2. Sourced(ns, bw, ms, aw)
    BY <2>1 DEF Sourced
  <2> QED BY <1>1, <2>2, SourcedNames
<1>12. ParkedThere(ns, bw)
  <2> SUFFICES ASSUME NEW g \in DOMAIN bw, NEW p \in Range(bw[g].moved), NEW y \in Range(bw[g].stack),
                      NEW o \in DOMAIN ns, NEW z \in Range(ns[o].stack), p[1] = y.key, z.id = y.id
               PROVE  o = bw[g].host /\ z.key = p[2]
    BY DEF ParkedThere
  <2>1. /\ g \in DOMAIN aw /\ p \in Range(aw[g].moved) /\ y \in Range(aw[g].stack) /\ y.id # x.id
        /\ bw[g].host = aw[g].host
    BY DEF Forgets
  <2>2. o \in DOMAIN ms /\ z \in Range(ms[o].stack)
    BY <1>2, <1>3, <1>6, <2>1
  <2> QED BY <1>1, <2>1, <2>2 DEF ParkedThere
<1>13. \A w : w \in Tiled(ns) <=> w \in Tiled(ms)
  <2>1. ASSUME NEW w, w \in Tiled(ns) PROVE w \in Tiled(ms)
    <3>1. PICK o \in DOMAIN ns : \E y \in Range(ns[o].stack) : w \in y.wins
      BY <2>1, WithinOf
    <3>2. PICK p \in DOMAIN ms : \E u \in Range(ms[p].stack) : w \in u.wins
      BY <1>9, <3>1 DEF Carries
    <3> QED BY <3>2, WithinOf
  <2>2. ASSUME NEW w, w \in Tiled(ms) PROVE w \in Tiled(ns)
    <3>1. PICK o \in DOMAIN ms : \E y \in Range(ms[o].stack) : w \in y.wins
      BY <2>2, WithinOf
    <3>2. PICK y \in Range(ms[o].stack) : w \in y.wins
      BY <3>1
    <3>3. CASE y \in Range(ns[o].stack)
      BY <1>3, <3>2, <3>3, WithinOf
    <3>4. CASE y = x
      <4>1. n \in Range(ns[o2].stack) /\ w \in n.wins
        BY <1>2, <3>2, <3>4
      <4> QED BY <1>3, <4>1, WithinOf
    <3> QED BY <1>7, <3>3, <3>4
  <2> QED BY <2>1, <2>2
<1> QED BY <1>8, <1>10, <1>11, <1>12, <1>13 DEF Apart

LEMMA MoveWorkspaceApart ==
    ASSUME AInv, IInv', NEW o1 \in DOMAIN mon, NEW k1 \in Keys(mon[o1].stack), NEW o2 \in DOMAIN mon,
           MoveWorkspaceToMonitor(o1, k1, o2)
    PROVE  AInv'
<1> DEFINE ws == At(mon[o1].stack, k1)
           i == PlaceOf(mon[o1].stack, k1)
           rest == RemoveAt(mon[o1].stack, i)
           next == IF mon[o1].active # k1 \/ rest = <<>> THEN mon[o1].active ELSE rest[Min({i, Len(rest)})].key
           m == mon[o2]
           trailing == Last(m.stack).name = NoName /\ Last(m.stack).wins = {}
           key == NextKey(m.stack)
           given == [m EXCEPT !.stack = Spliced(@, Len(@) + (IF trailing THEN 0 ELSE 1), <<[ws EXCEPT !.key = key]>>)]
           ms == [mon EXCEPT ![o1] = [stack |-> rest, active |-> next], ![o2] = given]
           mini == [w \in DOMAIN minimized |->
                      IF minimized[w] = [output |-> o1, key |-> k1] THEN [output |-> o2, key |-> key] ELSE minimized[w]]
           forgotten(g) == {x.key : x \in {y \in Range(away[g].stack) : y.id = ws.id}}
           stackOf(g) == Dropped(away[g].stack, {x \in Range(away[g].stack) : x.id = ws.id})
           movedOf(g) == Dropped(away[g].moved, {p \in Range(away[g].moved) : p[1] \in forgotten(g)})
           aw == [g \in DOMAIN away |-> [away[g] EXCEPT !.stack = stackOf(g), !.moved = movedOf(g)]]
           tidy == Maintained(Maintained(ms, mini, aw, o1), mini, aw, o2)
           follow == focused = o1 /\ mon[o1].active = k1
           r == IF follow THEN Shown(tidy, mini, aw, o2, key) ELSE tidy
<1>1. /\ o1 # o2 /\ mon' = r /\ minimized' = mini /\ away' = aw /\ managed' = managed
  BY DEF MoveWorkspaceToMonitor
<1>2. /\ GoodMon(mon) /\ GoodAway(away) /\ Apart(mon, away) /\ Tiled(mon) = managed \ DOMAIN minimized
      /\ \A p \in DOMAIN mon : GoodOutput(mon[p]) /\ Shows(mon[p])
  BY AInvFacts DEF AInv, IInv, OutputsShow, GoodMon
<1>3. GoodStack(mon[o1].stack) /\ mon[o1].active \in Nat
  BY <1>2 DEF GoodOutput
<1>4. /\ GoodStack(rest) /\ Range(rest) = Range(mon[o1].stack) \ {ws}
      /\ rest # <<>> => rest[Min({i, Len(rest)})].key \in Nat
  <2> DEFINE s == mon[o1].stack
             j == PlaceOf(s, k1)
             left == RemoveAt(s, j)
  <2>1. GoodStack(s) /\ k1 \in Keys(s)
    BY <1>3
  <2> HIDE DEF s
  <2>2. /\ j \in 1 .. Len(s) /\ s[j] = At(s, k1)
        /\ GoodStack(left) /\ Range(left) = Range(s) \ {At(s, k1)}
        /\ \A h \in Keys(s) : h = k1 \/ h \in Keys(left)
        /\ left # <<>> => left[Min({j, Len(left)})].key \in Nat
    BY <2>1, TakenOff, Zenon
  <2>3. i = j /\ rest = left /\ ws = At(s, k1)
    BY DEF s
  <2> HIDE DEF i, j, rest, left, ws
  <2> QED BY <2>2, <2>3 DEF s
<1>5. next \in Nat
  BY <1>3, <1>4
<1>6. ws \in WorkspaceType /\ ws \in Range(mon[o1].stack)
  BY <1>3, StackFacts
<1> HIDE DEF ws, i, rest, next
<1>7. GoodOutput(given) /\ key \in Nat /\ HasToo(given, m, ws, key)
  <2>1. GoodOutput(m) /\ Shows(m)
    BY <1>2
  <2> HIDE DEF m
  <2> QED BY <1>6, <2>1, PutOn
<1> HIDE DEF given, key
<1>8. /\ DOMAIN ms = DOMAIN mon /\ ms = [p \in DOMAIN ms |-> ms[p]]
      /\ ms[o1] = [stack |-> rest, active |-> next] /\ ms[o2] = given
      /\ \A p \in DOMAIN mon : p # o1 /\ p # o2 => ms[p] = mon[p]
  <2>1. mon = [p \in DOMAIN mon |-> mon[p]]
    BY <1>2 DEF GoodMon
  <2> QED BY <1>1, <2>1
<1> HIDE DEF ms
<1>9. GoodMon(ms)
  <2>1. GoodOutput(ms[o1])
    BY <1>4, <1>5, <1>8 DEF GoodOutput
  <2>2. \A p \in DOMAIN ms : GoodOutput(ms[p])
    BY <1>2, <1>7, <1>8, <2>1
  <2> QED BY <1>2, <1>8, <2>2 DEF GoodMon
<1>10. Relocated(ms, mon, o1, ws, o2, key)
  <2>1. ms[o1].stack = rest
    BY <1>8
  <2> QED BY <1>1, <1>4, <1>7, <1>8, <2>1 DEF Relocated
<1>11. DOMAIN mini = DOMAIN minimized
  OBVIOUS
<1> HIDE DEF mini
<1>12. GoodAway(aw)
  BY <1>1 DEF IInv, RecordsAreKept
<1>13. ASSUME NEW g \in DOMAIN away
       PROVE  /\ aw[g].host = away[g].host
              /\ Range(aw[g].moved) \subseteq Range(away[g].moved)
              /\ Range(aw[g].stack) = Range(away[g].stack) \ {x \in Range(away[g].stack) : x.id = ws.id}
  <2>1. GoodRecord(away[g])
    BY <1>2 DEF GoodAway
  <2>2. Range(stackOf(g)) = Range(away[g].stack) \ {x \in Range(away[g].stack) : x.id = ws.id}
    <3> DEFINE S == {x \in Range(away[g].stack) : x.id = ws.id}
    <3>1. stackOf(g) = Dropped(away[g].stack, S)
      OBVIOUS
    <3> HIDE DEF S, stackOf
    <3>2. Range(stackOf(g)) = Range(away[g].stack) \ S
      BY <2>1, <3>1, DropStack DEF GoodRecord
    <3> QED BY <3>2 DEF S
  <2>3. Range(movedOf(g)) \subseteq Range(away[g].moved)
    <3> DEFINE S == {p \in Range(away[g].moved) : p[1] \in forgotten(g)}
    <3>1. movedOf(g) = Dropped(away[g].moved, S)
      OBVIOUS
    <3> HIDE DEF S, movedOf
    <3>2. away[g].moved \in Seq(Nat \X Nat)
      BY <2>1 DEF GoodRecord
    <3>3. movedOf(g) \in Seq(Nat \X Nat) /\ ToSet(movedOf(g)) = ToSet(away[g].moved) \ S
      BY <3>1, <3>2, DroppedSet
    <3>4. Range(away[g].moved) = ToSet(away[g].moved) /\ Range(movedOf(g)) = ToSet(movedOf(g))
      BY <3>2, <3>3, RangeOf
    <3> QED BY <3>3, <3>4
  <2>4. aw[g] = [away[g] EXCEPT !.stack = stackOf(g), !.moved = movedOf(g)]
    OBVIOUS
  <2> HIDE DEF aw, stackOf, movedOf
  <2>5. away[g] = [stack |-> away[g].stack, active |-> away[g].active, host |-> away[g].host,
                   moved |-> away[g].moved, minimized |-> away[g].minimized]
    BY <2>1 DEF GoodRecord
  <2>6. aw[g] = [stack |-> stackOf(g), active |-> away[g].active, host |-> away[g].host,
                 moved |-> movedOf(g), minimized |-> away[g].minimized]
    BY <2>4, <2>5
  <2> QED BY <2>2, <2>3, <2>6
<1>14. DOMAIN aw = DOMAIN away
  OBVIOUS
<1> HIDE DEF aw
<1>15. Forgets(aw, away, ws.id)
  <2>1. ASSUME NEW g \in DOMAIN away, NEW y \in Range(aw[g].stack)
        PROVE  y \in Range(away[g].stack) /\ y.id # ws.id
    BY <1>13
  <2> QED BY <1>13, <1>14, <2>1 DEF Forgets
<1>16. Apart(ms, aw) /\ Tiled(ms) = Tiled(mon)
  BY <1>2, <1>6, <1>10, <1>15, RelocatedApart
<1>17. ApartWith(r, ms, aw, Tiled(ms))
  <2>1. key \in Nat /\ follow \in BOOLEAN /\ o2 \in DOMAIN ms
    BY <1>7, <1>8
  <2> HIDE DEF follow
  <2> QED BY <1>2, <1>9, <1>12, <1>16, <2>1, UpkeepOfTwoApart
<1> HIDE DEF r
<1>18. DOMAIN r = DOMAIN mon /\ Apart(r, aw) /\ Tiled(r) = Tiled(mon)
  BY <1>8, <1>16, <1>17 DEF ApartWith
<1>19. ASSUME NEW g \in DOMAIN away PROVE RecordSound(aw[g])
  <2>1. RecordSound(away[g])
    BY DEF AInv, OneAtATime
  <2>2. Range(aw[g].stack) \subseteq Range(away[g].stack) /\ Range(aw[g].moved) \subseteq Range(away[g].moved)
    BY <1>13
  <2> QED BY <2>1, <2>2 DEF RecordSound
<1>20. OneAtATime'
  BY <1>1, <1>13, <1>14, <1>18, <1>19 DEF AInv, OneAtATime
<1>21. TilesAreManaged'
  BY <1>1, <1>2, <1>11, <1>18 DEF TilesAreManaged
<1> QED BY <1>1, <1>18, <1>20, <1>21 DEF AInv

----------------------------------------------------------------------------
(* An output goes. *)

\* The block is the workspaces of the stack under new keys, and the pairs say which key became which.
Rekeying(block, moved, stack) ==
    /\ \A y \in Range(block) : \E x \in Range(stack) :
        x.id = y.id /\ x.name = y.name /\ x.wins = y.wins /\ <<x.key, y.key>> \in Range(moved)
    /\ \A x \in Range(stack) : \E y \in Range(block) : y.wins = x.wins
    /\ \A p, q \in Range(moved) : p[1] = q[1] \/ p[2] = q[2] => p = q

LEMMA RekeyedFrom ==
    ASSUME NEW s, GoodStack(s), NEW next \in Nat
    PROVE  Rekeying(Rekeyed(s, next), Moved(s, next), s)
<1> DEFINE t == Rekeyed(s, next)
           m == Moved(s, next)
<1>1. s \in Seq(WorkspaceType) /\ DOMAIN s = 1 .. Len(s) /\ Len(s) \in Nat
  BY DEF GoodStack
<1>2. ASSUME NEW i \in 1 .. Len(s)
      PROVE  /\ t[i].key = next + i - 1 /\ t[i].id = s[i].id /\ t[i].name = s[i].name /\ t[i].wins = s[i].wins
             /\ m[i] = <<s[i].key, next + i - 1>>
  <2>1. s[i] = [key |-> s[i].key, id |-> s[i].id, name |-> s[i].name, wins |-> s[i].wins]
    BY <1>1, Fields
  <2>2. t[i] = [s[i] EXCEPT !.key = next + i - 1]
    BY <1>1 DEF Rekeyed
  <2>3. t[i] = [key |-> next + i - 1, id |-> s[i].id, name |-> s[i].name, wins |-> s[i].wins]
    BY <2>1, <2>2
  <2>4. m[i] = <<s[i].key, next + i - 1>>
    BY <1>1 DEF Moved
  <2> QED BY <2>3, <2>4
<1>3. DOMAIN t = 1 .. Len(s) /\ DOMAIN m = 1 .. Len(s)
  BY <1>1 DEF Rekeyed, Moved
<1> HIDE DEF t, m
<1>4. \A i, j \in 1 .. Len(s) : next + i - 1 = next + j - 1 => i = j
  OBVIOUS
<1>5. \A i \in 1 .. Len(s) : s[i] \in Range(s) /\ t[i] \in Range(t) /\ m[i] \in Range(m)
  BY <1>1, <1>3 DEF Range
<1>6. /\ \A y \in Range(t) : \E i \in 1 .. Len(s) : y = t[i]
      /\ \A x \in Range(s) : \E i \in 1 .. Len(s) : x = s[i]
      /\ \A p \in Range(m) : \E i \in 1 .. Len(s) : p = m[i]
  BY <1>1, <1>3 DEF Range
<1>7. ASSUME NEW y \in Range(t)
      PROVE  \E x \in Range(s) : x.id = y.id /\ x.name = y.name /\ x.wins = y.wins /\ <<x.key, y.key>> \in Range(m)
  <2>1. PICK i \in 1 .. Len(s) : y = t[i]
    BY <1>6
  <2>2. m[i] = <<s[i].key, y.key>>
    BY <1>2, <2>1
  <2> QED BY <1>2, <1>5, <2>1, <2>2
<1>8. ASSUME NEW x \in Range(s)
      PROVE  \E y \in Range(t) : y.wins = x.wins
  <2>1. PICK i \in 1 .. Len(s) : x = s[i]
    BY <1>6
  <2>2. t[i].wins = x.wins /\ t[i] \in Range(t)
    BY <1>2, <1>5, <2>1
  <2> QED BY <2>2
<1>9. ASSUME NEW p \in Range(m), NEW q \in Range(m), p[1] = q[1] \/ p[2] = q[2]
      PROVE  p = q
  <2>1. PICK i \in 1 .. Len(s) : p = m[i]
    BY <1>6
  <2>2. PICK j \in 1 .. Len(s) : q = m[j]
    BY <1>6
  <2>3. p = <<s[i].key, next + i - 1>> /\ q = <<s[j].key, next + j - 1>>
    BY <1>2, <2>1, <2>2
  <2>4. CASE p[1] = q[1]
    <3>1. s[i].key = s[j].key
      BY <2>3, <2>4
    <3>2. i = j
      BY <3>1 DEF GoodStack
    <3> QED BY <2>1, <2>2, <3>2
  <2>5. CASE p[2] = q[2]
    <3>1. next + i - 1 = next + j - 1
      BY <2>3, <2>5
    <3>2. i = j
      BY <1>4, <3>1
    <3> QED BY <2>1, <2>2, <3>2
  <2> QED BY <1>9, <2>4, <2>5
<1> QED BY <1>7, <1>8, <1>9 DEF Rekeying, t, m

\* In ns the output o has gone, and those of its workspaces that have a window are on the host.
ParksOn(ns, ms, o, host, moved) ==
    /\ DOMAIN ns = DOMAIN ms \ {o}
    /\ \A p \in DOMAIN ns : p # host => ns[p] = ms[p]
    /\ \E carried, block :
        /\ Range(ns[host].stack) = Range(ms[host].stack) \cup Range(block)
        /\ Rekeying(block, moved, carried)
        /\ Range(carried) \subseteq Range(ms[o].stack)
        /\ \A x \in Range(ms[o].stack) : x.wins # {} => x \in Range(carried)

\* The one record is of o, that has gone to the host.
RecordOf(bw, o, stack, host, moved) ==
    DOMAIN bw = {o} /\ bw[o].stack = stack /\ bw[o].host = host /\ bw[o].moved = moved

LEMMA ParkedApart ==
    ASSUME NEW ms, GoodMon(ms), NEW aw, Apart(ms, aw), NEW o \in DOMAIN ms, NEW host \in DOMAIN ms, host # o,
           NEW ns, NEW moved, ParksOn(ns, ms, o, host, moved),
           NEW bw, RecordOf(bw, o, ms[o].stack, host, moved)
    PROVE  Apart(ns, bw) /\ Tiled(ns) = Tiled(ms) /\ RecordSound(bw[o])
<1>1. IdsApart(ms) /\ TilesApart(ms) /\ NamesApart(ms, aw)
  BY DEF Apart
<1>2. PICK carried, block :
        /\ Range(ns[host].stack) = Range(ms[host].stack) \cup Range(block)
        /\ Rekeying(block, moved, carried)
        /\ Range(carried) \subseteq Range(ms[o].stack)
        /\ \A x \in Range(ms[o].stack) : x.wins # {} => x \in Range(carried)
  BY DEF ParksOn
<1>3. DOMAIN ns = DOMAIN ms \ {o} /\ \A p \in DOMAIN ns : p # host => ns[p] = ms[p]
  BY DEF ParksOn
<1>4. \A x, y \in Range(ms[o].stack) : x.id = y.id => x = y
  <2>1. GoodStack(ms[o].stack)
    BY DEF GoodMon, GoodOutput
  <2> QED BY <1>1, <2>1, StackFacts DEF IdsApart
<1>5. \A y \in Range(block) : \E x \in Range(ms[o].stack) :
        x.id = y.id /\ x.name = y.name /\ x.wins = y.wins /\ <<x.key, y.key>> \in Range(moved)
  BY <1>2 DEF Rekeying
<1>6. \A p, q \in Range(moved) : p[1] = q[1] \/ p[2] = q[2] => p = q
  BY <1>2 DEF Rekeying
<1>7. ASSUME NEW p \in DOMAIN ns, NEW y \in Range(ns[p].stack)
      PROVE  (p # o /\ y \in Range(ms[p].stack)) \/ (p = host /\ y \in Range(block))
  BY <1>2, <1>3
<1>8. ASSUME NEW p \in DOMAIN ms, p # o, NEW y \in Range(ms[p].stack)
      PROVE  p \in DOMAIN ns /\ y \in Range(ns[p].stack)
  BY <1>2, <1>3, <1>8
<1>9. ASSUME NEW y \in Range(block), NEW z \in Range(block), y.id = z.id
      PROVE  y.key = z.key
  <2>1. PICK x \in Range(ms[o].stack) : x.id = y.id /\ <<x.key, y.key>> \in Range(moved)
    BY <1>5
  <2>2. PICK u \in Range(ms[o].stack) : u.id = z.id /\ <<u.key, z.key>> \in Range(moved)
    BY <1>5
  <2>3. x = u
    BY <1>4, <1>9, <2>1, <2>2
  <2>4. <<x.key, y.key>> = <<x.key, z.key>>
    BY <1>6, <2>1, <2>2, <2>3
  <2> QED BY <2>4
<1>10. ASSUME NEW p \in DOMAIN ms, p # o, NEW y \in Range(ms[p].stack), NEW z \in Range(block)
       PROVE  y.id # z.id
  <2>1. PICK x \in Range(ms[o].stack) : x.id = z.id
    BY <1>5
  <2> QED BY <1>1, <1>10, <2>1 DEF IdsApart
<1>11. IdsApart(ns)
  <2> SUFFICES ASSUME NEW p \in DOMAIN ns, NEW q \in DOMAIN ns, NEW y \in Range(ns[p].stack),
                      NEW z \in Range(ns[q].stack), y.id = z.id
               PROVE  p = q /\ y.key = z.key
    BY DEF IdsApart
  <2>1. (p # o /\ y \in Range(ms[p].stack)) \/ (p = host /\ y \in Range(block))
    BY <1>7
  <2>2. (q # o /\ z \in Range(ms[q].stack)) \/ (q = host /\ z \in Range(block))
    BY <1>7
  <2>3. p \in DOMAIN ms /\ q \in DOMAIN ms
    BY <1>3
  <2>4. CASE y \in Range(ms[p].stack) /\ z \in Range(ms[q].stack)
    BY <1>1, <2>3, <2>4 DEF IdsApart
  <2>5. CASE p = host /\ y \in Range(block) /\ q = host /\ z \in Range(block)
    BY <1>9, <2>5
  <2> QED BY <1>10, <2>1, <2>2, <2>3, <2>4, <2>5
<1>12. Carries(ns, ms)
  <2> SUFFICES ASSUME NEW p \in DOMAIN ns, NEW y \in Range(ns[p].stack)
               PROVE  \E q \in DOMAIN ms : \E x \in Range(ms[q].stack) :
                        x.id = y.id /\ x.name = y.name /\ x.wins = y.wins
    BY DEF Carries
  <2>1. CASE y \in Range(ms[p].stack)
    BY <1>3, <2>1
  <2>2. CASE y \in Range(block)
    BY <1>5, <2>2
  <2> QED BY <1>7, <2>1, <2>2
<1>13. TilesApart(ns)
  BY <1>1, <1>11, <1>12, CarriedTilesApart
<1>14. NamesApart(ns, bw)
  <2>1. ASSUME NEW y \in Within(ns) \cup Within(bw)
        PROVE  \E u \in Within(ms) \cup Within(aw) : u.id = y.id /\ u.name = y.name
    <3>1. CASE y \in Within(ns)
      <4>1. PICK p \in DOMAIN ns : y \in Range(ns[p].stack)
        BY <3>1, WithinOf
      <4>2. PICK q \in DOMAIN ms : \E u \in Range(ms[q].stack) : u.id = y.id /\ u.name = y.name
        BY <1>12, <4>1 DEF Carries
      <4> QED BY <4>2, WithinOf
    <3>2. CASE y \in Within(bw)
      <4>1. PICK g \in DOMAIN bw : y \in Range(bw[g].stack)
        BY <3>2, WithinOf
      <4>2. y \in Range(ms[o].stack)
        BY <4>1 DEF RecordOf
      <4> QED BY <4>2, WithinOf
    <3> QED BY <3>1, <3>2
  <2>2. Sourced(ns, bw, ms, aw)
    BY <2>1 DEF Sourced
  <2> QED BY <1>1, <2>2, SourcedNames
<1>15. ParkedThere(ns, bw)
  <2> SUFFICES ASSUME NEW g \in DOMAIN bw, NEW p \in Range(bw[g].moved), NEW y \in Range(bw[g].stack),
                      NEW q \in DOMAIN ns, NEW z \in Range(ns[q].stack), p[1] = y.key, z.id = y.id
               PROVE  q = bw[g].host /\ z.key = p[2]
    BY DEF ParkedThere
  <2>1. bw[g].host = host /\ p \in Range(moved) /\ y \in Range(ms[o].stack)
    BY DEF RecordOf
  <2>2. q = host /\ z \in Range(block)
    BY <1>1, <1>3, <1>7, <2>1 DEF IdsApart
  <2>3. PICK x \in Range(ms[o].stack) : x.id = z.id /\ <<x.key, z.key>> \in Range(moved)
    BY <1>5, <2>2
  <2>4. x = y
    BY <1>4, <2>1, <2>3
  <2> DEFINE t == <<x.key, z.key>>
  <2>5. t \in Range(moved) /\ t[1] = p[1] /\ t[2] = z.key
    BY <2>3, <2>4
  <2> HIDE DEF t
  <2>6. t = p
    BY <1>6, <2>1, <2>5
  <2> QED BY <2>1, <2>2, <2>5, <2>6
<1>16. \A w : w \in Tiled(ns) <=> w \in Tiled(ms)
  <2>1. ASSUME NEW w, w \in Tiled(ns) PROVE w \in Tiled(ms)
    <3>1. PICK p \in DOMAIN ns : \E y \in Range(ns[p].stack) : w \in y.wins
      BY <2>1, WithinOf
    <3>2. PICK q \in DOMAIN ms : \E u \in Range(ms[q].stack) : w \in u.wins
      BY <1>12, <3>1 DEF Carries
    <3> QED BY <3>2, WithinOf
  <2>2. ASSUME NEW w, w \in Tiled(ms) PROVE w \in Tiled(ns)
    <3>1. PICK p \in DOMAIN ms : \E y \in Range(ms[p].stack) : w \in y.wins
      BY <2>2, WithinOf
    <3>2. PICK y \in Range(ms[p].stack) : w \in y.wins
      BY <3>1
    <3>3. CASE p # o
      BY <1>8, <3>2, <3>3, WithinOf
    <3>4. CASE p = o
      <4>1. y \in Range(carried)
        BY <1>2, <3>2, <3>4
      <4>2. PICK z \in Range(block) : z.wins = y.wins
        BY <1>2, <4>1 DEF Rekeying
      <4>3. host \in DOMAIN ns /\ z \in Range(ns[host].stack)
        BY <1>2, <1>3
      <4> QED BY <3>2, <4>2, <4>3, WithinOf
    <3> QED BY <3>3, <3>4
  <2> QED BY <2>1, <2>2
<1>17. RecordSound(bw[o])
  BY <1>4, <1>6 DEF RecordSound, RecordOf
<1> QED BY <1>11, <1>13, <1>14, <1>15, <1>16, <1>17 DEF Apart

LEMMA ParkedFrom ==
    ASSUME NEW ms, GoodMon(ms), NEW o \in DOMAIN ms, NEW host \in DOMAIN ms, host # o, NEW mini,
           NEW rest, rest = Restrict(ms, DOMAIN ms \ {o})
    PROVE  LET r == Parked(rest, mini, o, ms[o].stack, host) IN
           /\ ParksOn(r.mon, ms, o, host, r.moved)
           /\ DOMAIN r.minimized = DOMAIN mini
<1> DEFINE s == ms[o].stack
           m == rest[host]
           carried == Carried(s, mini, o)
           next == NextKey(m.stack)
           block == Rekeyed(carried, next)
           moved == Moved(carried, next)
           hosting == Hosting(m.stack, Occupied(mini, host), block)
           ns == [rest EXCEPT ![host].stack = hosting]
           mini2 == Rehomed(mini, o, moved, host, m.active)
           left == {w \in DOMAIN mini : mini[w].output = o /\ mini[w].key \in {p[1] : p \in Range(moved)}}
           r == Parked(rest, mini, o, s, host)
<1>1. r = [mon |-> ns, moved |-> moved, left |-> left, minimized |-> mini2]
  BY DEF Parked
<1>2. DOMAIN mini2 = DOMAIN mini
  BY DEF Rehomed
<1> HIDE DEF mini2, left
<1>3. /\ GoodMon(rest) /\ DOMAIN rest = DOMAIN ms \ {o} /\ \A p \in DOMAIN rest : rest[p] = ms[p]
  BY OutputRemoved
<1>4. GoodStack(s) /\ GoodOutput(m) /\ GoodStack(m.stack) /\ m = ms[host]
  BY <1>3 DEF GoodMon, GoodOutput
<1>5. GoodStack(carried) /\ Range(carried) \subseteq Range(s) /\ \A x \in Range(s) : x.wins # {} => x \in Range(carried)
  <2> DEFINE S == {x \in Range(s) : ~HasContent(x, Occupied(mini, o))}
  <2>1. carried = Dropped(s, S)
    BY DEF Carried
  <2>2. \A x \in S : x.wins = {}
    BY DEF HasContent
  <2> HIDE DEF S, carried, s
  <2> QED BY <1>4, <2>1, <2>2, DropStack
<1>6. next \in Nat /\ \A k \in Keys(m.stack) : k < next
  BY <1>4, NextKeyIsFree
<1> HIDE DEF carried, next
<1>7. Rekeying(block, moved, carried)
  BY <1>5, <1>6, RekeyedFrom
<1>8. GoodStack(block) /\ \A k \in Keys(block) : next <= k
  BY <1>5, <1>6, RekeyedStack
<1> HIDE DEF block, moved
<1>9. Keys(m.stack) \cap Keys(block) = {}
  <2>1. Keys(m.stack) \subseteq Nat /\ Keys(block) \subseteq Nat
    BY <1>4, <1>8, CountKeys
  <2>2. \A k \in Nat : ~(k < next /\ next <= k)
    BY <1>6
  <2> QED BY <1>6, <1>8, <2>1, <2>2
<1>10. Range(hosting) = Range(m.stack) \cup Range(block)
  BY <1>4, <1>8, <1>9, HostingStack, SMTT(30)
<1> HIDE DEF hosting
<1>11. /\ DOMAIN ns = DOMAIN rest
       /\ ns[host].stack = hosting
       /\ \A p \in DOMAIN rest : p # host => ns[p] = rest[p]
  <2>1. rest[host] = [stack |-> m.stack, active |-> m.active] /\ rest = [p \in DOMAIN rest |-> rest[p]]
    BY <1>3, <1>4 DEF GoodOutput, GoodMon
  <2>2. host \in DOMAIN rest
    BY <1>3
  <2> QED BY <2>1, <2>2
<1> HIDE DEF ns
<1>12. ParksOn(ns, ms, o, host, moved)
  <2>1. Range(ns[host].stack) = Range(ms[host].stack) \cup Range(block)
    BY <1>4, <1>10, <1>11
  <2>2. /\ Range(carried) \subseteq Range(ms[o].stack)
        /\ \A x \in Range(ms[o].stack) : x.wins # {} => x \in Range(carried)
    BY <1>5
  <2>3. DOMAIN ns = DOMAIN ms \ {o} /\ \A p \in DOMAIN ns : p # host => ns[p] = ms[p]
    BY <1>3, <1>11
  <2> QED BY <1>7, <2>1, <2>2, <2>3 DEF ParksOn
<1>13. r.mon = ns /\ r.moved = moved /\ r.minimized = mini2
  BY <1>1
<1> HIDE DEF r
<1> QED BY <1>2, <1>12, <1>13 DEF r

\* No more than one output is away, and the last one stays.
OneAway == MaxAway \in {0, 1} /\ MayGoDark = FALSE

LEMMA NoneAway ==
    ASSUME OneAway, AInv, NEW o, Unregister(o)
    PROVE  DOMAIN away = {}
<1>1. IsFiniteSet(DOMAIN away) /\ Cardinality(DOMAIN away) < MaxAway
  BY AInvFacts DEF Unregister, GoodAway
<1>2. Cardinality(DOMAIN away) \in Nat
  BY <1>1, FS_CardinalityType
<1>3. Cardinality(DOMAIN away) = 0
  BY <1>1, <1>2 DEF OneAway
<1> QED BY <1>1, <1>3, FS_EmptySet

LEMMA UnregisterApart ==
    ASSUME OneAway, AInv, IInv', NEW o, Unregister(o)
    PROVE  AInv'
<1> DEFINE ms == Restrict(mon, DOMAIN mon \ {o})
           host == NextHost(o)
           parked == Parked(ms, minimized, o, mon[o].stack, host)
           r == [stack |-> mon[o].stack, active |-> mon[o].active, host |-> host, moved |-> parked.moved,
                 minimized |-> parked.left]
           kept == With(away, o, r)
           tidy == Maintained(parked.mon, parked.minimized, kept, host)
           bound == Rebound(tidy, away, parked.minimized, o, host)
           aw == With(bound.away, o, r)
<1>1. o \in DOMAIN mon /\ DOMAIN mon # {o}
  BY DEF Unregister, OneAway
<1>2. DOMAIN away = {}
  BY NoneAway
<1>3. NextHost(o) # NoOutput /\ NextHost(o) \in DOMAIN mon \ {o}
  <2>1. DOMAIN mon \ {o} # {}
    BY <1>1
  <2> QED BY <1>1, <2>1, OrderWithout DEF AInv
<1>4. mon' = tidy /\ away' = aw /\ minimized' = bound.minimized /\ managed' = managed
  BY <1>3 DEF Unregister, NextHost
<1>5. /\ GoodMon(mon) /\ (\A p \in DOMAIN mon : Shows(mon[p])) /\ GoodMini(minimized)
      /\ HomesIn(mon, minimized, NoOutput) /\ GoodAway(away) /\ Apart(mon, away)
      /\ Tiled(mon) = managed \ DOMAIN minimized
  BY <1>1, AInvFacts DEF AInv, IInv, OutputsShow, MinimizedAreManaged, MinimizedWait
<1>6. GoodMon(ms) /\ DOMAIN ms = DOMAIN mon \ {o} /\ \A p \in DOMAIN ms : ms[p] = mon[p]
  BY <1>5, OutputRemoved
<1>7. host \in DOMAIN mon /\ host # o /\ host \in DOMAIN ms
  BY <1>3, <1>6
<1> HIDE DEF host
<1>8. ParksOn(parked.mon, mon, o, host, parked.moved) /\ DOMAIN parked.minimized = DOMAIN minimized
  <2>1. ms = Restrict(mon, DOMAIN mon \ {o})
    OBVIOUS
  <2> HIDE DEF ms
  <2>2. LET q == Parked(ms, minimized, o, mon[o].stack, host) IN
        /\ ParksOn(q.mon, mon, o, host, q.moved)
        /\ DOMAIN q.minimized = DOMAIN minimized
    BY <1>1, <1>5, <1>7, <2>1, ParkedFrom
  <2> QED BY <2>2
<1> HIDE DEF ms
<1>9. GoodStack(mon[o].stack) /\ mon[o].active \in Keys(mon[o].stack) /\ o \in Outputs
  BY <1>1, StacksAreGood DEF AInv
<1>10. GoodMon(parked.mon) /\ parked.moved \in Seq(Nat \X Nat)
  <2> DEFINE stack == mon[o].stack
  <2>1. HomesIn(ms, minimized, o)
    BY <1>5, <1>6, OutputsAssumption DEF HomesIn, HasHome, GoodMini
  <2>2. GoodStack(stack) /\ Shows(ms[host])
    BY <1>5, <1>6, <1>7, <1>9
  <2> HIDE DEF stack
  <2>3. LET q == Parked(ms, minimized, o, stack, host) IN
        /\ GoodMon(q.mon) /\ DOMAIN q.mon = DOMAIN ms
        /\ \A p \in DOMAIN ms \ {host} : q.mon[p] = ms[p]
        /\ Shows(q.mon[host])
        /\ q.moved \in Seq(Nat \X Nat)
        /\ GoodMini(q.minimized) /\ DOMAIN q.minimized = DOMAIN minimized
        /\ HomesIn(q.mon, q.minimized, NoOutput)
    BY <1>5, <1>6, <1>7, <2>1, <2>2, ParkedKeeps
  <2> QED BY <2>3 DEF stack
<1>11. bound.away = [g \in DOMAIN away |-> bound.away[g]] /\ DOMAIN bound.minimized = DOMAIN parked.minimized
  BY <1>2 DEF Rebound
<1> HIDE DEF bound
<1>12. DOMAIN bound.away = {}
  BY <1>2, <1>11
<1> HIDE DEF parked
<1>13. GoodRecord(r) /\ r.stack = mon[o].stack /\ r.host = host /\ r.moved = parked.moved
  <2>1. host \in Outputs
    BY <1>5, <1>7 DEF GoodMon
  <2> QED BY <1>9, <1>10, <2>1 DEF GoodRecord
<1> HIDE DEF r
<1>14. GoodAway(kept) /\ DOMAIN kept = {o} /\ kept[o] = r
  <2>1. GoodAway(away) /\ GoodRecord(r) /\ o \in Outputs
    BY <1>5, <1>9, <1>13
  <2>2. /\ GoodAway(kept) /\ DOMAIN kept = DOMAIN away \cup {o}
        /\ kept[o] = r /\ \A g \in DOMAIN away : g # o => kept[g] = away[g]
    BY <2>1, RecordAdded
  <2> HIDE DEF kept
  <2> QED BY <1>2, <2>2
<1>15. aw = kept
  BY <1>2, <1>12 DEF With
<1> HIDE DEF kept, aw
<1>16. RecordOf(kept, o, mon[o].stack, host, parked.moved)
  BY <1>13, <1>14 DEF RecordOf
<1>17. Apart(parked.mon, kept) /\ Tiled(parked.mon) = Tiled(mon) /\ RecordSound(kept[o])
  <2> DEFINE pm == parked.mon
             pv == parked.moved
  <2>1. ParksOn(pm, mon, o, host, pv) /\ RecordOf(kept, o, mon[o].stack, host, pv)
    BY <1>8, <1>16
  <2> HIDE DEF pm, pv
  <2>2. Apart(pm, kept) /\ Tiled(pm) = Tiled(mon) /\ RecordSound(kept[o])
    BY <1>1, <1>5, <1>7, <2>1, ParkedApart
  <2> QED BY <2>2 DEF pm
<1>18. ApartWith(tidy, parked.mon, kept, Tiled(parked.mon))
  <2> DEFINE pm == parked.mon
             pw == parked.minimized
  <2>1. GoodMon(pm) /\ GoodAway(kept) /\ GoodMon(mon) /\ GoodAway(away) /\ Apart(pm, kept)
    BY <1>5, <1>10, <1>14, <1>17
  <2> HIDE DEF pm, pw
  <2>2. ApartWith(Maintained(pm, pw, kept, host), pm, kept, Tiled(pm))
    BY <2>1, UpkeepKeepsApart
  <2> QED BY <2>2 DEF pm, pw
<1> HIDE DEF tidy
<1>19. DOMAIN tidy = DOMAIN mon \ {o} /\ Apart(tidy, kept) /\ Tiled(tidy) = Tiled(mon)
  BY <1>8, <1>17, <1>18 DEF ApartWith, ParksOn
<1>20. OneAtATime'
  <2>1. \A g \in DOMAIN kept : g = o /\ kept[g].host = host /\ RecordSound(kept[g])
    BY <1>13, <1>14, <1>17
  <2>2. host \in DOMAIN tidy
    BY <1>7, <1>19
  <2> QED BY <1>4, <1>15, <2>1, <2>2 DEF OneAtATime
<1>21. TilesAreManaged'
  BY <1>4, <1>5, <1>8, <1>11, <1>19 DEF TilesAreManaged
<1> QED BY <1>4, <1>15, <1>19, <1>20, <1>21 DEF AInv

----------------------------------------------------------------------------
(* An output comes back. *)

\* What comes back for the pair p of a record: the workspace that is parked under its key, as it is
\* now, or the old one with the windows that are there.
ReturnsAs(r, kept, s, p) ==
    LET old == At(kept.stack, p[1]) IN
    /\ r.ws.key = p[1] /\ r.ws.id = old.id
    /\ r.whole =>
        \E x \in Range(s) : x.key = p[2] /\ x.id = old.id /\ r.ws.name = x.name /\ r.ws.wins = x.wins
    /\ ~r.whole =>
        /\ r.ws.name = old.name /\ \A x \in Range(s) : x.key = p[2] => x.id # old.id
        /\ \A v \in r.ws.wins : \E x \in Range(s) : x.key = p[2] /\ v \in x.wins

LEMMA ReturnsWell ==
    ASSUME NEW ms, GoodMon(ms), NEW kept, GoodRecord(kept), RecordSound(kept), kept.host \in DOMAIN ms,
           NEW p \in Range(Pairs(kept))
    PROVE  ReturnsAs(Returning(ms, kept, p[1]), kept, ms[kept.host].stack, p)
<1> DEFINE s == ms[kept.host].stack
           old == At(kept.stack, p[1])
           there == Parking(ms, kept, p)
           parked == CHOOSE x \in there : TRUE
           b == Back(ms, kept, p)
<1>1. p \in Range(kept.moved) /\ p[1] \in Keys(kept.stack) /\ p[1] \in Nat
  BY PairsOf
<1>2. Returning(ms, kept, p[1]) = b
  <2> DEFINE q == CHOOSE q \in Range(Pairs(kept)) : q[1] = p[1]
  <2>1. q \in Range(Pairs(kept)) /\ q[1] = p[1]
    OBVIOUS
  <2>2. Returning(ms, kept, p[1]) = Back(ms, kept, q)
    BY DEF Returning
  <2> HIDE DEF q
  <2>3. q \in Range(kept.moved)
    BY <2>1, PairsOf
  <2>4. q = p
    BY <1>1, <2>1, <2>3 DEF RecordSound
  <2> QED BY <2>2, <2>4
<1>3. old \in WorkspaceType /\ old.key = p[1]
  BY <1>1, StackFacts DEF GoodRecord
<1>4. GoodStack(s)
  BY DEF GoodMon, GoodOutput
<1>5. \A x : x \in there <=> x \in Range(s) /\ x.key = p[2]
  <2>1. there = IF p[2] \in Keys(s) THEN {At(s, p[2])} ELSE {}
    BY DEF Parking
  <2> HIDE DEF there, s
  <2>2. CASE p[2] \in Keys(s)
    <3>1. there = {At(s, p[2])}
      BY <2>1, <2>2
    <3>2. At(s, p[2]) \in Range(s) /\ At(s, p[2]).key = p[2]
      BY <1>4, <2>2, StackFacts
    <3>3. \A x \in Range(s) : x.key = p[2] => x = At(s, p[2])
      BY <1>4, StackFacts
    <3> QED BY <3>1, <3>2, <3>3
  <2>3. CASE p[2] \notin Keys(s)
    <3>1. there = {}
      BY <2>1, <2>3
    <3>2. \A x \in Range(s) : x.key # p[2]
      BY <1>4, <2>3, StackFacts
    <3> QED BY <3>1, <3>2
  <2> QED BY <2>2, <2>3
<1> HIDE DEF there, old
<1>6. b = IF \E x \in there : x.id = old.id
          THEN [ws |-> [parked EXCEPT !.key = p[1]], whole |-> TRUE]
          ELSE [ws |-> [old EXCEPT !.wins = {w \in old.wins : \E x \in there : w \in x.wins}], whole |-> FALSE]
  BY DEF Back, there, old
<1> HIDE DEF b
<1>7. ReturnsAs(b, kept, s, p)
  <2>1. CASE \E x \in there : x.id = old.id
    <3>1. PICK x \in there : x.id = old.id
      BY <2>1
    <3>2. parked \in there
      BY <2>1
    <3>3. parked = x
      BY <1>4, <1>5, <3>1, <3>2, StackFacts
    <3> HIDE DEF parked, s
    <3>4. b.ws = [x EXCEPT !.key = p[1]] /\ b.whole = TRUE
      BY <1>6, <2>1, <3>3
    <3>5. x \in Range(s) /\ x.key = p[2]
      BY <1>5, <3>1
    <3>6. x \in WorkspaceType
      BY <1>4, <3>5, StackFacts
    <3>7. x = [key |-> x.key, id |-> x.id, name |-> x.name, wins |-> x.wins]
      BY <3>6, Fields
    <3>8. b.ws = [key |-> p[1], id |-> x.id, name |-> x.name, wins |-> x.wins]
      BY <3>4, <3>7
    <3>9. b.ws.key = p[1] /\ b.ws.id = old.id /\ b.ws.name = x.name /\ b.ws.wins = x.wins
      BY <3>1, <3>8
    <3> QED BY <3>1, <3>4, <3>5, <3>9 DEF ReturnsAs, old
  <2>2. CASE ~(\E x \in there : x.id = old.id)
    <3> DEFINE wins == {w \in old.wins : \E x \in there : w \in x.wins}
    <3>1. b.ws = [old EXCEPT !.wins = wins] /\ b.whole = FALSE
      BY <1>6, <2>2
    <3>2. \A v \in wins : \E x \in Range(s) : x.key = p[2] /\ v \in x.wins
      BY <1>5
    <3> HIDE DEF wins, s
    <3>3. old = [key |-> old.key, id |-> old.id, name |-> old.name, wins |-> old.wins]
      BY <1>3, Fields
    <3>4. b.ws = [key |-> old.key, id |-> old.id, name |-> old.name, wins |-> wins]
      BY <3>1, <3>3
    <3>5. b.ws.key = p[1] /\ b.ws.id = old.id /\ b.ws.name = old.name /\ b.ws.wins = wins
      BY <1>3, <3>4
    <3>6. \A x \in Range(s) : x.key = p[2] => x.id # old.id
      BY <1>5, <2>2
    <3> QED BY <3>1, <3>2, <3>5, <3>6 DEF ReturnsAs, old
  <2> QED BY <2>1, <2>2
<1> QED BY <1>2, <1>7 DEF s

\* t is what comes back, or one new workspace where nothing does.
IsRestored(t, ms, kept, id) ==
    /\ \A p \in Range(Pairs(kept)) : Returning(ms, kept, p[1]).ws \in Range(t)
    /\ \/ \A y \in Range(t) : \E p \in Range(Pairs(kept)) : y = Returning(ms, kept, p[1]).ws
       \/ Range(t) = {Workspace(0, id)}

LEMMA RestoredFrom ==
    ASSUME NEW ms, NEW kept, GoodRecord(kept), kept.host # NoOutput, NEW id
    PROVE  IsRestored(Restored(ms, kept, id), ms, kept, id)
<1> DEFINE gone == {x \in Range(kept.stack) : x.key \notin Returned(kept)}
           those == Dropped(kept.stack, gone)
           back == [i \in DOMAIN those |-> Returning(ms, kept, those[i].key).ws]
           new == <<Workspace(0, id)>>
           r == Restored(ms, kept, id)
<1>1. r = IF back = <<>> THEN new ELSE back
  BY DEF Restored
<1> HIDE DEF r
<1>2. GoodStack(kept.stack)
  BY DEF GoodRecord
<1>3. GoodStack(those) /\ Range(those) = Range(kept.stack) \ gone
  <2> HIDE DEF gone, those
  <2>1. those = Dropped(kept.stack, gone)
    BY DEF those
  <2> QED BY <1>2, <2>1, DropStack
<1> HIDE DEF those
<1>4. DOMAIN those = 1 .. Len(those) /\ Len(those) \in Nat
  BY <1>3 DEF GoodStack
<1>5. DOMAIN back = DOMAIN those /\ \A i \in DOMAIN those : back[i] = Returning(ms, kept, those[i].key).ws
  OBVIOUS
<1> HIDE DEF back
<1>6. ASSUME NEW p \in Range(Pairs(kept)) PROVE \E i \in DOMAIN those : those[i].key = p[1]
  <2>1. p[1] \in Keys(kept.stack) /\ p[1] \in Returned(kept)
    BY PairsOf DEF Returned
  <2>2. PICK x \in Range(kept.stack) : x.key = p[1]
    BY <1>2, <2>1, StackFacts
  <2>3. x \in Range(those)
    BY <1>3, <2>1, <2>2
  <2> QED BY <2>2, <2>3 DEF Range
<1>7. ASSUME NEW i \in DOMAIN those PROVE \E p \in Range(Pairs(kept)) : p[1] = those[i].key
  <2>1. those[i] \in Range(those)
    BY DEF Range
  <2>2. those[i].key \in Returned(kept)
    BY <1>3, <2>1
  <2> QED BY <2>2, PairsOf
<1>8. CASE back # <<>>
  <2>1. r = back
    BY <1>1, <1>8
  <2>2. \A p \in Range(Pairs(kept)) : Returning(ms, kept, p[1]).ws \in Range(r)
    BY <1>5, <1>6, <2>1 DEF Range
  <2>3. ASSUME NEW y \in Range(r) PROVE \E p \in Range(Pairs(kept)) : y = Returning(ms, kept, p[1]).ws
    <3>1. PICK i \in DOMAIN those : y = back[i]
      BY <1>5, <2>1 DEF Range
    <3>2. PICK p \in Range(Pairs(kept)) : p[1] = those[i].key
      BY <1>7
    <3> QED BY <1>5, <3>1, <3>2
  <2> QED BY <2>2, <2>3 DEF IsRestored, r
<1>9. CASE back = <<>>
  <2>1. Range(r) = {Workspace(0, id)}
    BY <1>1, <1>9 DEF Range
  <2>2. DOMAIN those = {}
    BY <1>5, <1>9
  <2>3. Range(Pairs(kept)) = {}
    BY <1>6, <2>2
  <2> QED BY <2>1, <2>3 DEF IsRestored, r
<1> QED BY <1>8, <1>9

\* t is s without what is gone and what is taken.
IsLeft(t, s, gone, taken) ==
    /\ \A z \in Range(t) : \E x \in Range(s) :
        /\ x.key = z.key /\ x.id = z.id /\ x.name = z.name /\ x.key \notin gone /\ z.wins = x.wins \ taken
    /\ \A x \in Range(s) : x.key \notin gone =>
        \E z \in Range(t) : z.key = x.key /\ z.id = x.id /\ z.wins = x.wins \ taken

LEMMA HostWithoutRange ==
    ASSUME NEW s, GoodStack(s), NEW gone, NEW taken
    PROVE  IsLeft(HostWithout(s, gone, taken), s, gone, taken)
<1> DEFINE lost == {x \in Range(s) : x.key \in gone}
           those == Dropped(s, lost)
           t == [i \in DOMAIN those |-> [those[i] EXCEPT !.wins = @ \ taken]]
<1>1. GoodStack(those) /\ Range(those) = Range(s) \ lost
  <2> HIDE DEF lost, those
  <2>1. those = Dropped(s, lost)
    BY DEF those
  <2> QED BY <2>1, DropStack
<1>2. HostWithout(s, gone, taken) = t
  BY DEF HostWithout
<1> HIDE DEF those
<1>3. \A i \in DOMAIN those : those[i] \in WorkspaceType /\ those[i] \in Range(those)
  BY <1>1 DEF GoodStack, Range
<1>4. DOMAIN t = DOMAIN those /\ \A i \in DOMAIN those : t[i] = [those[i] EXCEPT !.wins = @ \ taken]
  OBVIOUS
<1> HIDE DEF t
<1>5. ASSUME NEW i \in DOMAIN those
      PROVE  /\ t[i].key = those[i].key /\ t[i].id = those[i].id /\ t[i].name = those[i].name
             /\ t[i].wins = those[i].wins \ taken /\ t[i] \in Range(t)
  <2> DEFINE x == those[i]
  <2>1. x \in WorkspaceType
    BY <1>3
  <2>2. t[i] = [x EXCEPT !.wins = x.wins \ taken]
    BY <1>4
  <2> HIDE DEF x
  <2>3. x = [key |-> x.key, id |-> x.id, name |-> x.name, wins |-> x.wins]
    BY <2>1, Fields
  <2>4. t[i] = [key |-> x.key, id |-> x.id, name |-> x.name, wins |-> x.wins \ taken]
    BY <2>2, <2>3
  <2>5. t[i].key = x.key /\ t[i].id = x.id /\ t[i].name = x.name /\ t[i].wins = x.wins \ taken
    BY <2>4
  <2>6. t[i] \in Range(t)
    BY <1>4 DEF Range
  <2> QED BY <2>5, <2>6 DEF x
<1>6. \A z \in Range(t) : \E i \in DOMAIN those : z = t[i]
  BY <1>4 DEF Range
<1>7. \A x \in Range(those) : \E i \in DOMAIN those : x = those[i]
  BY DEF Range
<1>8. ASSUME NEW z \in Range(t)
      PROVE  \E x \in Range(s) : /\ x.key = z.key /\ x.id = z.id /\ x.name = z.name
                                 /\ x.key \notin gone /\ z.wins = x.wins \ taken
  <2>1. PICK i \in DOMAIN those : z = t[i]
    BY <1>6
  <2>2. those[i] \in Range(s) /\ those[i].key \notin gone
    BY <1>1, <1>3
  <2> QED BY <1>5, <2>1, <2>2
<1>9. ASSUME NEW x \in Range(s), x.key \notin gone
      PROVE  \E z \in Range(t) : z.key = x.key /\ z.id = x.id /\ z.wins = x.wins \ taken
  <2>1. x \in Range(those)
    BY <1>1, <1>9
  <2>2. PICK i \in DOMAIN those : x = those[i]
    BY <1>7, <2>1
  <2> QED BY <1>5, <2>2
<1> QED BY <1>2, <1>8, <1>9 DEF IsLeft

\* ns is ms when the output o, known by the record kept, has taken back what is its own.
HandsBack(ns, ms, kept, o, id) ==
    /\ DOMAIN ns = DOMAIN ms
    /\ IsRestored(ns[o].stack, ms, kept, id)
    /\ IsLeft(ns[kept.host].stack, ms[kept.host].stack, GoneKeys(ms, kept), Taken(ms, kept))
    /\ \A p \in DOMAIN ms : p # o /\ p # kept.host => ns[p] = ms[p]

LEMMA HandedBackApart ==
    ASSUME NEW ms, GoodMon(ms), NEW bw, Apart(ms, bw), NEW o \in DOMAIN ms, o \in DOMAIN bw,
           NEW kept, kept = bw[o], GoodRecord(kept), RecordSound(kept), kept.host \in DOMAIN ms, kept.host # o,
           \A x \in Range(ms[o].stack) : x.wins = {},
           NEW id \in Nat, id \notin Identities(ms, bw),
           NEW aw, DOMAIN aw = {}, NEW ns, HandsBack(ns, ms, kept, o, id)
    PROVE  Apart(ns, aw) /\ Tiled(ns) = Tiled(ms)
<1> DEFINE host == kept.host
           R(p) == Returning(ms, kept, p[1])
           old(p) == At(kept.stack, p[1])
           P == Range(Pairs(kept))
           s == ms[host].stack
           t == ns[o].stack
           fresh == Workspace(0, id)
           gone == GoneKeys(ms, kept)
           taken == Taken(ms, kept)
<1>1. IdsApart(ms) /\ TilesApart(ms) /\ NamesApart(ms, bw) /\ ParkedThere(ms, bw)
  BY DEF Apart
<1>2. ASSUME NEW p \in P
      PROVE  /\ p \in Range(kept.moved) /\ old(p) \in Range(kept.stack) /\ old(p).key = p[1]
             /\ R(p).ws.key = p[1] /\ R(p).ws.id = old(p).id
             /\ R(p).whole => \E x \in Range(s) : /\ x.key = p[2] /\ x.id = old(p).id
                                                  /\ R(p).ws.name = x.name /\ R(p).ws.wins = x.wins
             /\ ~R(p).whole => R(p).ws.name = old(p).name /\ \A x \in Range(s) : x.key = p[2] => x.id # old(p).id
             /\ \A v \in R(p).ws.wins : \E x \in Range(s) : x.key = p[2] /\ v \in x.wins
  <2>1. p \in Range(kept.moved) /\ p[1] \in Keys(kept.stack)
    BY PairsOf
  <2>2. old(p) \in Range(kept.stack) /\ old(p).key = p[1]
    BY <2>1, StackFacts DEF GoodRecord
  <2>3. ReturnsAs(R(p), kept, s, p)
    BY ReturnsWell
  <2> DEFINE r == R(p)
  <2>4. ReturnsAs(r, kept, s, p)
    BY <2>3
  <2> HIDE DEF r, s
  <2>5. /\ r.ws.key = p[1] /\ r.ws.id = old(p).id
        /\ r.whole => \E x \in Range(s) : /\ x.key = p[2] /\ x.id = old(p).id
                                          /\ r.ws.name = x.name /\ r.ws.wins = x.wins
        /\ ~r.whole => r.ws.name = old(p).name /\ \A x \in Range(s) : x.key = p[2] => x.id # old(p).id
        /\ ~r.whole => \A v \in r.ws.wins : \E x \in Range(s) : x.key = p[2] /\ v \in x.wins
    BY <2>4 DEF ReturnsAs
  <2>6. \A v \in r.ws.wins : \E x \in Range(s) : x.key = p[2] /\ v \in x.wins
    BY <2>5
  <2> QED BY <2>1, <2>2, <2>5, <2>6 DEF r
<1>3. /\ \A k : k \in gone <=> \E p \in P : p[2] = k /\ R(p).whole
      /\ \A v : v \in taken <=> \E p \in P : ~R(p).whole /\ v \in R(p).ws.wins
  BY DEF GoneKeys, Taken
<1>4. /\ \A p \in P : R(p).ws \in Range(t)
      /\ (\A y \in Range(t) : \E p \in P : y = R(p).ws) \/ Range(t) = {fresh}
  BY DEF HandsBack, IsRestored
<1>5. /\ \A z \in Range(ns[host].stack) : \E x \in Range(s) :
            x.key = z.key /\ x.id = z.id /\ x.name = z.name /\ x.key \notin gone /\ z.wins = x.wins \ taken
      /\ \A x \in Range(s) : x.key \notin gone => \E z \in Range(ns[host].stack) : z.wins = x.wins \ taken
  BY DEF HandsBack, IsLeft
<1>6. DOMAIN ns = DOMAIN ms /\ \A p \in DOMAIN ms : p # o /\ p # host => ns[p] = ms[p]
  BY DEF HandsBack
<1>7. fresh.id = id /\ fresh.wins = {} /\ fresh.name = NoName
  BY DEF Workspace
<1>8. \A p, q \in P : p[1] = q[1] \/ p[2] = q[2] => p = q
  BY <1>2 DEF RecordSound
<1>9. host \in DOMAIN ms /\ host # o
  OBVIOUS
<1>10. \A x, y \in Range(s) : x.key = y.key => x = y
  <2>1. GoodStack(s)
    BY DEF GoodMon, GoodOutput
  <2> HIDE DEF s
  <2> QED BY <2>1, StackFacts
<1> HIDE DEF host, R, old, P, fresh, gone, taken
<1>11. ASSUME NEW y \in Range(t) PROVE (\E p \in P : y = R(p).ws) \/ (y = fresh /\ Range(t) = {fresh})
  BY <1>4
<1>12. ASSUME NEW q \in DOMAIN ns, q # o, NEW y \in Range(ns[q].stack)
       PROVE  \E x \in Range(ms[q].stack) :
                 /\ x.key = y.key /\ x.id = y.id /\ x.name = y.name /\ y.wins \subseteq x.wins
                 /\ q = host => x.key \notin gone /\ y.wins \cap taken = {}
  <2>1. CASE q = host
    <3>1. PICK x \in Range(s) :
            x.key = y.key /\ x.id = y.id /\ x.name = y.name /\ x.key \notin gone /\ y.wins = x.wins \ taken
      BY <1>5, <2>1
    <3>2. y.wins \subseteq x.wins /\ y.wins \cap taken = {}
      BY <3>1
    <3> QED BY <2>1, <3>1, <3>2
  <2>2. CASE q # host
    BY <1>6, <1>12, <2>2
  <2> QED BY <2>1, <2>2
<1>13. ASSUME NEW p \in P, NEW q \in DOMAIN ms, NEW x \in Range(ms[q].stack), x.id = old(p).id
       PROVE  q = host /\ x.key \in gone
  <2>1. q = host /\ x.key = p[2]
    BY <1>1, <1>2, <1>13 DEF ParkedThere, host
  <2>2. R(p).whole
    BY <1>2, <1>13, <2>1
  <2> QED BY <1>3, <2>1, <2>2
<1>14. ASSUME NEW p \in P, NEW v \in R(p).ws.wins, NEW q \in DOMAIN ms, NEW x \in Range(ms[q].stack), v \in x.wins
       PROVE  q = host /\ x.key = p[2] /\ (x.key \in gone \/ v \in taken)
  <2>1. PICK u \in Range(s) : u.key = p[2] /\ v \in u.wins
    BY <1>2
  <2>2. q = host /\ x.key = p[2]
    BY <1>1, <1>9, <1>14, <2>1 DEF TilesApart
  <2> QED BY <1>3, <2>2
<1>15. IdsApart(ns)
  <2>1. ASSUME NEW p \in P, NEW q \in P, R(p).ws.id = R(q).ws.id PROVE R(p).ws.key = R(q).ws.key
    <3>1. old(p) = old(q)
      BY <1>2, <2>1 DEF RecordSound
    <3> QED BY <1>2, <3>1
  <2>2. ASSUME NEW y \in Range(t), NEW z \in Range(t), y.id = z.id PROVE y.key = z.key
    <3>1. CASE Range(t) = {fresh}
      BY <3>1
    <3>2. CASE Range(t) # {fresh}
      <4>1. PICK p \in P : y = R(p).ws
        BY <1>11, <3>2
      <4>2. PICK q \in P : z = R(q).ws
        BY <1>11, <3>2
      <4> QED BY <2>1, <2>2, <4>1, <4>2
    <3> QED BY <3>1, <3>2
  <2>3. ASSUME NEW y \in Range(t), NEW q \in DOMAIN ns, q # o, NEW z \in Range(ns[q].stack) PROVE y.id # z.id
    <3>1. PICK x \in Range(ms[q].stack) : x.key = z.key /\ x.id = z.id /\ (q = host => x.key \notin gone)
      BY <1>12, <2>3
    <3>2. CASE y = fresh
      <4>1. x.id \in Identities(ms, bw)
        BY <1>6, <3>1, IdentitiesOf
      <4> QED BY <1>7, <3>1, <3>2, <4>1
    <3>3. CASE \E p \in P : y = R(p).ws
      <4>1. PICK p \in P : y = R(p).ws
        BY <3>3
      <4>2. y.id = old(p).id
        BY <1>2, <4>1
      <4>3. x.id # old(p).id
        BY <1>6, <1>13, <3>1
      <4> QED BY <3>1, <4>2, <4>3
    <3> QED BY <1>11, <3>2, <3>3
  <2> SUFFICES ASSUME NEW p \in DOMAIN ns, NEW q \in DOMAIN ns, NEW y \in Range(ns[p].stack),
                      NEW z \in Range(ns[q].stack), y.id = z.id
               PROVE  p = q /\ y.key = z.key
    BY DEF IdsApart
  <2>4. CASE p = o /\ q = o
    BY <2>2, <2>4
  <2>5. CASE p = o /\ q # o
    BY <2>3, <2>5
  <2>6. CASE p # o /\ q = o
    BY <2>3, <2>6
  <2>7. CASE p # o /\ q # o
    <3>1. PICK x \in Range(ms[p].stack) : x.key = y.key /\ x.id = y.id
      BY <1>12, <2>7
    <3>2. PICK u \in Range(ms[q].stack) : u.key = z.key /\ u.id = z.id
      BY <1>12, <2>7
    <3> QED BY <1>1, <1>6, <3>1, <3>2 DEF IdsApart
  <2> QED BY <2>4, <2>5, <2>6, <2>7
<1>16. TilesApart(ns)
  <2>1. ASSUME NEW y \in Range(t), NEW v \in y.wins PROVE \E p \in P : y = R(p).ws
    BY <1>7, <1>11, <2>1
  <2>2. ASSUME NEW p \in P, NEW q \in P, NEW v \in R(p).ws.wins, v \in R(q).ws.wins PROVE p = q
    <3>1. PICK x \in Range(s) : x.key = p[2] /\ v \in x.wins
      BY <1>2
    <3>2. PICK u \in Range(s) : u.key = q[2] /\ v \in u.wins
      BY <1>2, <2>2
    <3>3. x.key = u.key
      BY <1>1, <1>9, <3>1, <3>2 DEF TilesApart
    <3>4. p[2] = q[2]
      BY <3>1, <3>2, <3>3
    <3> QED BY <1>8, <3>4
  <2>3. ASSUME NEW y \in Range(t), NEW v \in y.wins, NEW q \in DOMAIN ns, q # o, NEW z \in Range(ns[q].stack)
        PROVE  v \notin z.wins
    <3>1. PICK p \in P : y = R(p).ws
      BY <2>1
    <3>2. PICK x \in Range(ms[q].stack) :
            x.key = z.key /\ z.wins \subseteq x.wins /\ (q = host => x.key \notin gone /\ z.wins \cap taken = {})
      BY <1>12, <2>3
    <3>3. v \in z.wins => q = host /\ (x.key \in gone \/ v \in taken)
      BY <1>6, <1>14, <3>1, <3>2
    <3> QED BY <3>2, <3>3
  <2> SUFFICES ASSUME NEW p \in DOMAIN ns, NEW q \in DOMAIN ns, NEW y \in Range(ns[p].stack),
                      NEW z \in Range(ns[q].stack), NEW v \in y.wins, v \in z.wins
               PROVE  p = q /\ y.key = z.key
    BY DEF TilesApart
  <2>4. CASE p = o /\ q = o
    <3>1. PICK a \in P : y = R(a).ws
      BY <2>1, <2>4
    <3>2. PICK b \in P : z = R(b).ws
      BY <2>1, <2>4
    <3>3. a = b
      BY <2>2, <3>1, <3>2
    <3> QED BY <2>4, <3>1, <3>2, <3>3
  <2>5. CASE p = o /\ q # o
    BY <2>3, <2>5
  <2>6. CASE p # o /\ q = o
    BY <2>3, <2>6
  <2>7. CASE p # o /\ q # o
    <3>1. PICK x \in Range(ms[p].stack) : x.key = y.key /\ v \in x.wins
      BY <1>12, <2>7
    <3>2. PICK u \in Range(ms[q].stack) : u.key = z.key /\ v \in u.wins
      BY <1>12, <2>7
    <3> QED BY <1>1, <1>6, <3>1, <3>2 DEF TilesApart
  <2> QED BY <2>4, <2>5, <2>6, <2>7
<1>17. NamesApart(ns, aw)
  <2>1. ASSUME NEW y \in Within(ns) \cup Within(aw)
        PROVE  y.name = NoName \/ \E u \in Within(ms) \cup Within(bw) : u.id = y.id /\ u.name = y.name
    <3>1. PICK q \in DOMAIN ns : y \in Range(ns[q].stack)
      BY WithinOf
    <3>2. CASE q # o
      <4>1. PICK x \in Range(ms[q].stack) : x.id = y.id /\ x.name = y.name
        BY <1>12, <3>1, <3>2
      <4> QED BY <1>6, <4>1, WithinOf
    <3>3. CASE q = o /\ y = fresh
      BY <1>7, <3>3
    <3>4. CASE q = o /\ \E p \in P : y = R(p).ws
      <4>1. PICK p \in P : y = R(p).ws
        BY <3>4
      <4>2. CASE R(p).whole
        <5>1. PICK x \in Range(s) : x.id = old(p).id /\ R(p).ws.name = x.name
          BY <1>2, <4>2
        <5>2. x \in Within(ms)
          BY <1>9, <5>1, WithinOf
        <5> QED BY <1>2, <4>1, <5>1, <5>2
      <4>3. CASE ~R(p).whole
        <5>1. old(p) \in Within(bw)
          BY <1>2, WithinOf
        <5> QED BY <1>2, <4>1, <4>3, <5>1
      <4> QED BY <4>2, <4>3
    <3> QED BY <1>11, <3>1, <3>2, <3>3, <3>4
  <2>2. Sourced(ns, aw, ms, bw)
    BY <2>1 DEF Sourced
  <2> QED BY <1>1, <2>2, SourcedNames
<1>18. ParkedThere(ns, aw)
  BY DEF ParkedThere
<1>19. \A w : w \in Tiled(ns) <=> w \in Tiled(ms)
  <2>1. ASSUME NEW w, w \in Tiled(ns) PROVE w \in Tiled(ms)
    <3>1. PICK q \in DOMAIN ns : \E y \in Range(ns[q].stack) : w \in y.wins
      BY <2>1, WithinOf
    <3>2. PICK y \in Range(ns[q].stack) : w \in y.wins
      BY <3>1
    <3>3. CASE q # o
      BY <1>6, <1>12, <3>2, <3>3, WithinOf
    <3>4. CASE q = o
      <4>1. PICK p \in P : y = R(p).ws
        BY <1>7, <1>11, <3>2, <3>4
      <4>2. \E x \in Range(s) : w \in x.wins
        BY <1>2, <3>2, <4>1
      <4> QED BY <1>9, <4>2, WithinOf
    <3> QED BY <3>3, <3>4
  <2>2. ASSUME NEW w, w \in Tiled(ms) PROVE w \in Tiled(ns)
    <3>1. PICK q \in DOMAIN ms : \E x \in Range(ms[q].stack) : w \in x.wins
      BY <2>2, WithinOf
    <3>2. PICK x \in Range(ms[q].stack) : w \in x.wins
      BY <3>1
    <3>3. q # o
      BY <3>2
    <3>4. CASE q # host
      <4>1. x \in Range(ns[q].stack)
        BY <1>6, <3>2, <3>3, <3>4
      <4> QED BY <1>6, <3>2, <4>1, WithinOf
    <3>5. CASE q = host
      <4>1. ASSUME NEW p \in P, w \in R(p).ws.wins PROVE w \in Tiled(ns)
        BY <1>4, <1>6, <4>1, WithinOf
      <4>2. CASE x.key \in gone
        <5>1. PICK p \in P : p[2] = x.key /\ R(p).whole
          BY <1>3, <4>2
        <5>2. PICK u \in Range(s) : u.key = p[2] /\ R(p).ws.wins = u.wins
          BY <1>2, <5>1
        <5>3. u = x
          BY <1>10, <3>2, <3>5, <5>1, <5>2
        <5> QED BY <3>2, <4>1, <5>2, <5>3
      <4>3. CASE w \in taken
        BY <1>3, <4>1, <4>3
      <4>4. CASE x.key \notin gone /\ w \notin taken
        <5>1. PICK z \in Range(ns[host].stack) : z.wins = x.wins \ taken
          BY <1>5, <3>2, <3>5, <4>4
        <5> QED BY <1>6, <1>9, <3>2, <4>4, <5>1, WithinOf
      <4> QED BY <4>2, <4>3, <4>4
    <3> QED BY <3>4, <3>5
  <2> QED BY <2>1, <2>2
<1> QED BY <1>15, <1>16, <1>17, <1>18, <1>19 DEF Apart

\* take_back_workspaces
LEMMA TakenBackApart ==
    ASSUME NEW ms, GoodMon(ms), NEW bw, Apart(ms, bw), NEW o \in DOMAIN ms, o \in DOMAIN bw,
           NEW kept, kept = bw[o], GoodRecord(kept), RecordSound(kept), kept.host \in DOMAIN ms, kept.host # o,
           \A x \in Range(ms[o].stack) : x.wins = {}, NEW aw, GoodAway(aw), DOMAIN aw = {},
           FreshId(ms, aw) \notin Identities(ms, bw), NEW mini, GoodMon(mon), GoodAway(away)
    PROVE  ApartWith(TakenBack(ms, mini, aw, kept, o).mon, ms, aw, Tiled(ms))
<1> DEFINE id == FreshId(ms, aw)
           stack == Restored(ms, kept, id)
           mini2 == HomeAgain(mini, kept, o)
           active == IF kept.active \in Keys(stack) THEN kept.active ELSE Head(stack).key
           host == kept.host
           left == HostWithout(ms[host].stack, GoneKeys(ms, kept), Taken(ms, kept))
           ms2 == [p \in DOMAIN ms |->
                      IF p = o THEN [stack |-> stack, active |-> active]
                      ELSE IF p = host
                      THEN [ms[p] EXCEPT !.stack = HostWithout(ms[p].stack, GoneKeys(ms, kept), Taken(ms, kept))]
                      ELSE ms[p]]
           ms3 == Maintained(ms2, mini2, aw, o)
           ms4 == Maintained(ms3, mini2, aw, host)
           r == TakenBack(ms, mini, aw, kept, o)
<1>0. host \in Outputs /\ host # NoOutput /\ o \in Outputs
  BY OutputsAssumption DEF GoodMon
<1>1. r.mon = ms4
  BY <1>0 DEF TakenBack
<1> HIDE DEF r
<1>2. \A p \in DOMAIN ms : GoodOutput(ms[p]) /\ GoodStack(ms[p].stack)
  BY DEF GoodMon, GoodOutput
<1>3. id \in Nat
  BY FreshIdIsFree
<1> HIDE DEF id
<1>4. GoodStack(stack) /\ stack # <<>>
  <2>1. WaitsWell(kept)
    BY <1>0 DEF WaitsWell
  <2> QED BY <1>3, <2>1, RestoredStack
<1>5. IsRestored(stack, ms, kept, id)
  BY <1>0, RestoredFrom
<1> HIDE DEF stack, mini2
<1>6. active \in Nat
  <2>1. Head(stack) \in Range(stack)
    <3>1. stack \in Seq(WorkspaceType) /\ stack # <<>>
      BY <1>4 DEF GoodStack
    <3>2. Head(stack) = stack[1] /\ 1 \in DOMAIN stack
      BY <3>1
    <3> QED BY <3>2 DEF Range
  <2>2. active \in Keys(stack)
    BY <1>4, <2>1, StackFacts
  <2> HIDE DEF active
  <2> QED BY <1>4, <2>2, StackFacts
<1> HIDE DEF active
<1>7. GoodStack(left)
  BY <1>2, HostWithoutStack
<1>8. IsLeft(left, ms[host].stack, GoneKeys(ms, kept), Taken(ms, kept))
  BY <1>2, HostWithoutRange
<1>9. /\ DOMAIN ms2 = DOMAIN ms /\ ms2 = [p \in DOMAIN ms2 |-> ms2[p]]
      /\ ms2[o] = [stack |-> stack, active |-> active]
      /\ \A p \in DOMAIN ms : p # o /\ p # host => ms2[p] = ms[p]
      /\ ms2[host] = [stack |-> left, active |-> ms[host].active]
  <2>1. ms[host] = [stack |-> ms[host].stack, active |-> ms[host].active]
    BY <1>2 DEF GoodOutput
  <2>2. ms2[host] = [ms[host] EXCEPT !.stack = left]
    OBVIOUS
  <2>3. [ms[host] EXCEPT !.stack = left] = [stack |-> left, active |-> ms[host].active]
    BY <2>1
  <2>4. /\ DOMAIN ms2 = DOMAIN ms /\ ms2 = [p \in DOMAIN ms2 |-> ms2[p]]
        /\ ms2[o] = [stack |-> stack, active |-> active]
        /\ \A p \in DOMAIN ms : p # o /\ p # host => ms2[p] = ms[p]
    OBVIOUS
  <2> HIDE DEF ms2
  <2> QED BY <2>2, <2>3, <2>4
<1> HIDE DEF ms2, left
<1>10. GoodMon(ms2)
  <2>1. GoodOutput(ms2[o])
    BY <1>4, <1>6, <1>9 DEF GoodOutput
  <2>2. GoodOutput(ms2[host])
    BY <1>2, <1>7, <1>9 DEF GoodOutput
  <2>3. \A p \in DOMAIN ms : GoodOutput(ms2[p])
    BY <1>2, <1>9, <2>1, <2>2
  <2> QED BY <1>9, <2>3 DEF GoodMon
<1>11. HandsBack(ms2, ms, kept, o, id)
  BY <1>5, <1>8, <1>9 DEF HandsBack
<1>12. Apart(ms2, aw) /\ Tiled(ms2) = Tiled(ms)
  <2>1. id \notin Identities(ms, bw)
    BY DEF id
  <2> QED BY <1>3, <1>11, <2>1, HandedBackApart
<1>13. ApartWith(ms2, ms, aw, Tiled(ms))
  BY <1>9, <1>10, <1>12 DEF ApartWith
<1>14. ApartWith(ms3, ms, aw, Tiled(ms))
  BY <1>13, UpkeepAfter
<1> HIDE DEF ms3
<1>15. ApartWith(ms4, ms, aw, Tiled(ms))
  <2> HIDE DEF host
  <2> QED BY <1>14, UpkeepAfter
<1> QED BY <1>1, <1>15 DEF r

LEMMA RegisterApart ==
    ASSUME AInv, IInv', NEW o \in Outputs, Register(o)
    PROVE  AInv'
<1> DEFINE x0 == Workspace(0, FreshId(mon, away))
           m == [stack |-> <<x0>>, active |-> 0]
           new == With(mon, o, m)
           aw == Restrict(away, DOMAIN away \ {o})
           back == IF o \in DOMAIN away THEN TakenBack(new, minimized, aw, away[o], o)
                   ELSE [mon |-> new, minimized |-> minimized]
           all == Adopted(back.mon, back.minimized, aw, o)
<1>1. /\ o \notin DOMAIN mon /\ mon' = all.mon /\ minimized' = all.minimized /\ away' = all.away
      /\ managed' = managed
  BY DEF Register
<1>2. /\ GoodMon(mon) /\ GoodAway(away) /\ Apart(mon, away) /\ Tiled(mon) = managed \ DOMAIN minimized
      /\ DOMAIN mon # {} /\ (\A g, h \in DOMAIN away : g = h) /\ GoodMini(minimized)
      /\ \A g \in DOMAIN away : away[g].host \in DOMAIN mon /\ RecordSound(away[g]) /\ GoodRecord(away[g])
  BY AInvFacts DEF AInv, OneAtATime, IInv, MinimizedAreManaged, GoodAway
<1>3. NoOutput \notin DOMAIN mon
  BY <1>2, OutputsAssumption DEF GoodMon
<1>4. x0 \in WorkspaceType /\ x0.key = 0 /\ x0.id = FreshId(mon, away) /\ x0.wins = {} /\ x0.name = NoName
  <2>1. FreshId(mon, away) \in Nat
    BY <1>2, FreshIdIsFree
  <2> QED BY <2>1, NewWorkspace
<1>5. x0.id \notin Identities(mon, away)
  BY <1>2, <1>4, FreshIdIsFree
<1> HIDE DEF x0
<1>6. GoodOutput(m) /\ Range(m.stack) = {x0}
  <2> DEFINE s == <<x0>>
  <2>1. GoodStack(s) /\ Range(s) = {x0}
    BY <1>4 DEF GoodStack, Range
  <2>2. m = [stack |-> s, active |-> 0]
    OBVIOUS
  <2> HIDE DEF s, m
  <2> QED BY <2>1, <2>2 DEF GoodOutput
<1> HIDE DEF m
<1>7. /\ DOMAIN new = DOMAIN mon \cup {o} /\ new = [p \in DOMAIN new |-> new[p]]
      /\ new[o] = m /\ \A p \in DOMAIN mon : new[p] = mon[p]
  BY <1>1 DEF With
<1> HIDE DEF new
<1>8. GoodMon(new)
  <2>1. \A p \in DOMAIN mon \ {o} : new[p] = mon[p]
    BY <1>7
  <2> QED BY <1>2, <1>6, <1>7, <2>1, Replaced
<1>9. Apart(new, away) /\ Tiled(new) = Tiled(mon)
  <2>1. IsNew(mon, away, x0)
    BY <1>4, <1>5 DEF IsNew
  <2>2. ASSUME NEW p \in DOMAIN new, NEW y \in Range(new[p].stack)
        PROVE  (p \in DOMAIN mon /\ y \in Range(mon[p].stack)) \/ (p = o /\ y = x0)
    BY <1>6, <1>7
  <2>3. \A p \in DOMAIN mon : \A y \in Range(mon[p].stack) : ~IsNew(mon, away, y)
    BY IdentitiesOf DEF IsNew
  <2>4. Tidied(mon, new, away)
    BY <1>7, <2>1, <2>2, <2>3 DEF Tidied
  <2> QED BY <1>2, <2>4, TidiedApart
<1>10. GoodAway(aw) /\ DOMAIN aw = DOMAIN away \ {o} /\ \A g \in DOMAIN aw : aw[g] = away[g]
  BY <1>2, RecordTaken
<1> HIDE DEF aw
<1>11. Homeless(aw, o) = {}
  BY <1>2, <1>3, <1>10 DEF Homeless
<1>12. mon' = back.mon /\ minimized' = back.minimized /\ away' = aw
  BY <1>1, <1>11 DEF Adopted
<1>13. Tiled(mon) = managed' \ DOMAIN minimized /\ o \in DOMAIN new
  BY <1>1, <1>2, <1>7
<1> HIDE DEF all
<1>14. CASE o \notin DOMAIN away
  <2>1. mon' = new /\ minimized' = minimized
    BY <1>12, <1>14
  <2>2. aw = away
    BY <1>2, <1>10, <1>14 DEF GoodAway
  <2>3. OneAtATime'
    BY <1>2, <1>7, <1>12, <2>1, <2>2 DEF OneAtATime
  <2>4. TilesAreManaged'
    BY <1>9, <1>13, <2>1 DEF TilesAreManaged
  <2>5. Apart(mon, away)'
    BY <1>9, <1>12, <2>1, <2>2
  <2> QED BY <2>3, <2>4, <2>5 DEF AInv
<1>15. CASE o \in DOMAIN away
  <2> DEFINE kept == away[o]
             b == TakenBack(new, minimized, aw, kept, o)
  <2>1. DOMAIN aw = {}
    BY <1>2, <1>10, <1>15
  <2>2. mon' = b.mon /\ minimized' = b.minimized
    BY <1>12, <1>15
  <2>3. /\ GoodRecord(kept) /\ RecordSound(kept) /\ kept.host \in DOMAIN new /\ kept.host # o
        /\ kept = away[o]
    BY <1>1, <1>2, <1>7, <1>15
  <2>4. \A x \in Range(new[o].stack) : x.wins = {}
    BY <1>4, <1>6, <1>7
  <2>5. FreshId(new, aw) \notin Identities(new, away)
    <3> DEFINE id == FreshId(new, aw)
    <3>1. id \notin Identities(new, aw) /\ id \notin Identities(mon, away)
      BY <1>2, <1>8, <1>10, FreshIdIsFree
    <3> HIDE DEF id
    <3>2. \A p \in DOMAIN new : \A x \in Range(new[p].stack) : x.id # id
      BY <3>1, IdentitiesOf
    <3>3. \A g \in DOMAIN away : \A x \in Range(away[g].stack) : x.id # id
      BY <3>1, IdentitiesOf
    <3>4. id \notin Identities(new, away)
      BY <3>2, <3>3, IdentitiesOf
    <3> QED BY <3>4 DEF id
  <2> HIDE DEF kept
  <2>6. ApartWith(b.mon, new, aw, Tiled(new))
    BY <1>2, <1>8, <1>9, <1>10, <1>13, <1>15, <2>1, <2>3, <2>4, <2>5, TakenBackApart
  <2>7. DOMAIN b.minimized = DOMAIN minimized
    BY DEF TakenBack, HomeAgain
  <2> HIDE DEF b, back
  <2>8. DOMAIN mon' = DOMAIN new /\ Apart(mon', aw) /\ Tiled(mon') = Tiled(mon)
    BY <1>9, <2>2, <2>6 DEF ApartWith
  <2>9. OneAtATime'
    BY <1>7, <1>12, <1>13, <2>1, <2>8 DEF OneAtATime
  <2>10. TilesAreManaged'
    BY <1>13, <2>2, <2>7, <2>8 DEF TilesAreManaged
  <2>11. Apart(mon, away)'
    BY <1>12, <2>8
  <2> QED BY <2>9, <2>10, <2>11 DEF AInv
<1> QED BY <1>14, <1>15

----------------------------------------------------------------------------
(* Init and Next. *)

LEMMA InitAInv ==
    ASSUME Init
    PROVE  AInv
<1>1. PICK o \in Outputs :
        /\ mon = With(NoOne, o, [stack |-> <<Workspace(0, 1)>>, active |-> 0])
        /\ minimized = NoOne /\ managed = {} /\ away = NoOne
  BY DEF Init
<1> DEFINE x == Workspace(0, 1)
           s == <<x>>
           m == [stack |-> s, active |-> 0]
<1>2. x.wins = {} /\ x.name = NoName
  BY DEF Workspace
<1>3. mon = With(NoOne, o, m)
  BY <1>1
<1> HIDE DEF x
<1>4. Range(s) = {x}
  BY DEF Range
<1> HIDE DEF s
<1>5. m.stack = s
  OBVIOUS
<1> HIDE DEF m
<1>6. DOMAIN mon = {o} /\ mon[o] = m
  BY <1>3 DEF With, NoOne
<1>7. DOMAIN away = {} /\ DOMAIN minimized = {}
  BY <1>1 DEF NoOne
<1>8. OneAtATime
  BY <1>6, <1>7 DEF OneAtATime
<1>9. /\ \A p \in DOMAIN mon : \A y \in Range(mon[p].stack) : p = o /\ y = x
      /\ \A y : y \in Within(mon) <=> y = x
      /\ \A y : y \notin Within(away)
  BY <1>4, <1>5, <1>6, <1>7, WithinOf
<1>10. Apart(mon, away)
  <2>1. IdsApart(mon) /\ TilesApart(mon)
    BY <1>9 DEF IdsApart, TilesApart
  <2>2. NamesApart(mon, away)
    BY <1>2, <1>9 DEF NamesApart
  <2>3. ParkedThere(mon, away)
    BY <1>7 DEF ParkedThere
  <2> QED BY <2>1, <2>2, <2>3 DEF Apart
<1>11. TilesAreManaged
  <2>1. \A w : w \notin Tiled(mon)
    BY <1>2, <1>9, WithinOf
  <2> QED BY <1>1, <2>1 DEF TilesAreManaged
<1> QED BY InitIInv, <1>8, <1>10, <1>11 DEF AInv

LEMMA NextAInv ==
    ASSUME OneAway, AInv, [Next]_vars
    PROVE  AInv'
<1>0. IInv'
  BY NextIInv DEF AInv
<1>1. CASE UNCHANGED vars
  <2>1. OneAtATime' /\ Apart(mon, away)' /\ TilesAreManaged'
    BY <1>1 DEF AInv, vars, OneAtATime, TilesAreManaged
  <2> QED BY <1>0, <2>1 DEF AInv
<1>2. ASSUME NEW o \in Outputs, Register(o) PROVE AInv'
  BY <1>0, <1>2, RegisterApart
<1>3. ASSUME NEW o \in Outputs, Unregister(o) PROVE AInv'
  BY <1>0, <1>3, UnregisterApart
<1>4. ASSUME WindowStep PROVE AInv'
  <2>1. PICK w \in Windows :
        \/ \E o \in DOMAIN mon : Open(w, o)
        \/ Close(w)
        \/ \E k \in 0..MaxKey : Minimize(w, k)
        \/ Restore(w)
        \/ \E o1 \in Found(w), o2 \in DOMAIN mon :
            \E k1 \in Keys(mon[o1].stack), k2 \in Keys(mon[o2].stack), follow \in BOOLEAN :
                MoveWindow(w, o1, k1, o2, k2, follow)
    BY <1>4 DEF WindowStep
  <2>2. ASSUME NEW o \in DOMAIN mon, Open(w, o) PROVE AInv'
    BY <1>0, <2>2, OpenApart
  <2>3. CASE Close(w)
    BY <1>0, <2>3, CloseApart
  <2>4. ASSUME NEW k \in 0..MaxKey, Minimize(w, k) PROVE AInv'
    BY <1>0, <2>4, MinimizeApart
  <2>5. CASE Restore(w)
    BY <1>0, <2>5, RestoreApart
  <2>6. ASSUME NEW o1 \in Found(w), NEW o2 \in DOMAIN mon, NEW k1 \in Keys(mon[o1].stack),
               NEW k2 \in Keys(mon[o2].stack), NEW follow \in BOOLEAN, MoveWindow(w, o1, k1, o2, k2, follow)
        PROVE  AInv'
    <3>1. o1 \in DOMAIN mon
      BY DEF Found
    <3> QED BY <1>0, <2>6, <3>1, MoveWindowApart
  <2> QED BY <2>1, <2>2, <2>3, <2>4, <2>5, <2>6
<1>5. ASSUME WorkspaceStep PROVE AInv'
  <2>1. PICK o \in DOMAIN mon :
        \/ FocusOutput(o)
        \/ \E k \in Keys(mon[o].stack) :
            \/ FocusWorkspace(o, k)
            \/ \E o2 \in DOMAIN mon : MoveWorkspaceToMonitor(o, k, o2)
            \/ \E name \in Names \cup {NoName} : NameWorkspace(o, k, name)
    BY <1>5 DEF WorkspaceStep
  <2>2. CASE FocusOutput(o)
    BY <1>0, <2>2, FocusOutputApart
  <2>3. ASSUME NEW k \in Keys(mon[o].stack), FocusWorkspace(o, k) PROVE AInv'
    BY <1>0, <2>3, FocusWorkspaceApart
  <2>4. ASSUME NEW k \in Keys(mon[o].stack), NEW o2 \in DOMAIN mon, MoveWorkspaceToMonitor(o, k, o2) PROVE AInv'
    BY <1>0, <2>4, MoveWorkspaceApart
  <2>5. ASSUME NEW k \in Keys(mon[o].stack), NEW name \in Names \cup {NoName}, NameWorkspace(o, k, name) PROVE AInv'
    BY <1>0, <2>5, NameWorkspaceApart
  <2> QED BY <2>1, <2>2, <2>3, <2>4, <2>5
<1> QED BY <1>1, <1>2, <1>3, <1>4, <1>5 DEF Next

----------------------------------------------------------------------------
(* What follows. *)

LEMMA AInvIdentities ==
    ASSUME AInv
    PROVE  IdentitiesAreUnique
<1> SUFFICES ASSUME NEW p \in Live, NEW q \in Live, p # q
             PROVE  p[2].id # q[2].id /\ (p[2].name = q[2].name => p[2].name = NoName)
  BY DEF IdentitiesAreUnique
<1>1. PICK o \in DOMAIN mon : p \in {o} \X Range(mon[o].stack)
  BY DEF Live
<1>2. PICK u \in DOMAIN mon : q \in {u} \X Range(mon[u].stack)
  BY DEF Live
<1>3. GoodStack(mon[o].stack) /\ Apart(mon, away)
  BY AInvFacts
<1> DEFINE x == p[2]
           y == q[2]
<1>4. /\ p = <<o, x>> /\ x \in Range(mon[o].stack)
      /\ q = <<u, y>> /\ y \in Range(mon[u].stack)
  BY <1>1, <1>2
<1> HIDE DEF x, y
<1>5. x.id # y.id
  <2>1. SUFFICES ASSUME x.id = y.id PROVE FALSE
    OBVIOUS
  <2>2. o = u /\ x.key = y.key
    BY <1>3, <1>4, <2>1 DEF Apart, IdsApart
  <2>3. x = y
    BY <1>3, <1>4, <2>2, StackFacts
  <2> QED BY <1>4, <2>2, <2>3
<1>6. x \in Within(mon) /\ y \in Within(mon)
  BY <1>4, WithinOf
<1>7. x.name = y.name => x.name = NoName
  BY <1>3, <1>5, <1>6 DEF Apart, NamesApart
<1> QED BY <1>5, <1>7 DEF x, y

\* The places of w: its workspace is one stack's, under one key.
IsOnlyIn(w, o, x) ==
    /\ IsIn(w, o, x)
    /\ \A p \in DOMAIN mon : \A y \in Range(mon[p].stack) : IsIn(w, p, y) => p = o /\ y.key = x.key

LEMMA OnePlace ==
    ASSUME NEW w, NEW o \in DOMAIN mon, GoodStack(mon[o].stack), NEW x \in Range(mon[o].stack), IsOnlyIn(w, o, x)
    PROVE  \E i \in DOMAIN mon[o].stack : mon[o].stack[i] = x /\ Places(w) = {<<o, i>>}
<1> DEFINE s == mon[o].stack
<1>1. PICK i \in DOMAIN s : s[i] = x
  BY DEF Range
<1>2. s \in Seq(WorkspaceType) /\ \A j \in DOMAIN s : s[j].key = s[i].key => j = i
  <2>1. s \in Seq(WorkspaceType) /\ \A j, k \in 1 .. Len(s) : s[j].key = s[k].key => j = k
    BY DEF GoodStack
  <2>2. DOMAIN s = 1 .. Len(s)
    BY <2>1
  <2> QED BY <2>1, <2>2
<1>3. ASSUME NEW p PROVE p \in Places(w) <=> p = <<o, i>>
  <2>1. CASE p \in Places(w)
    <3>1. PICK u \in DOMAIN mon : \E j \in DOMAIN mon[u].stack : p = <<u, j>> /\ IsIn(w, u, mon[u].stack[j])
      BY <2>1 DEF Places
    <3>2. PICK j \in DOMAIN mon[u].stack : p = <<u, j>> /\ IsIn(w, u, mon[u].stack[j])
      BY <3>1
    <3>3. mon[u].stack[j] \in Range(mon[u].stack)
      BY DEF Range
    <3>4. u = o /\ mon[u].stack[j].key = x.key
      BY <3>2, <3>3 DEF IsOnlyIn
    <3>5. j = i
      BY <1>1, <1>2, <3>4
    <3> QED BY <2>1, <3>2, <3>4, <3>5
  <2>2. <<o, i>> \in Places(w)
    BY <1>1 DEF Places, IsOnlyIn
  <2> QED BY <2>1, <2>2
<1>4. Places(w) = {<<o, i>>}
  BY <1>3
<1> QED BY <1>1, <1>4

\* A managed window is in one workspace, and another in none.
LEMMA AInvPlaces ==
    ASSUME AInv, NEW w
    PROVE  /\ w \in managed => \E o \in DOMAIN mon : \E x \in Range(mon[o].stack) : IsOnlyIn(w, o, x)
           /\ w \notin managed => \A o \in DOMAIN mon : \A x \in Range(mon[o].stack) : ~IsIn(w, o, x)
<1>1. /\ Tiled(mon) = managed \ DOMAIN minimized /\ DOMAIN minimized \subseteq managed /\ GoodMini(minimized)
      /\ HomesIn(mon, minimized, NoOutput) /\ \A o \in DOMAIN mon : GoodStack(mon[o].stack)
  BY AInvFacts DEF AInv, IInv, MinimizedAreManaged, MinimizedWait, OneAtATime
<1>2. TilesApart(mon)
  BY DEF AInv, Apart
<1>3. CASE w \in DOMAIN minimized
  <2> DEFINE o == minimized[w].output
             k == minimized[w].key
  <2>1. minimized[w] = [output |-> o, key |-> k] /\ o \in Outputs
    BY <1>1, <1>3 DEF GoodMini
  <2>2. o \in DOMAIN mon /\ k \in Keys(mon[o].stack)
    BY <1>1, <1>3, <2>1, OutputsAssumption DEF HomesIn, HasHome
  <2>3. PICK x \in Range(mon[o].stack) : x.key = k
    BY <1>1, <2>2, StackFacts
  <2>4. \A p \in DOMAIN mon : \A y \in Range(mon[p].stack) : w \notin y.wins
    BY <1>1, <1>3, WithinOf
  <2> HIDE DEF o, k
  <2>5. IsIn(w, o, x)
    BY <1>3, <2>1, <2>3 DEF IsIn
  <2>6. \A p \in DOMAIN mon : \A y \in Range(mon[p].stack) : IsIn(w, p, y) => p = o /\ y.key = x.key
    BY <2>1, <2>3, <2>4 DEF IsIn
  <2> QED BY <1>1, <1>3, <2>2, <2>5, <2>6 DEF IsOnlyIn
<1>4. CASE w \in managed /\ w \notin DOMAIN minimized
  <2>1. PICK o \in DOMAIN mon : \E x \in Range(mon[o].stack) : w \in x.wins
    BY <1>1, <1>4, WithinOf
  <2>2. PICK x \in Range(mon[o].stack) : w \in x.wins
    BY <2>1
  <2>3. IsIn(w, o, x)
    BY <2>2 DEF IsIn
  <2>4. \A p \in DOMAIN mon : \A y \in Range(mon[p].stack) : IsIn(w, p, y) => p = o /\ y.key = x.key
    BY <1>2, <1>4, <2>2 DEF IsIn, TilesApart
  <2> QED BY <1>4, <2>3, <2>4 DEF IsOnlyIn
<1>5. CASE w \notin managed
  BY <1>1, <1>5, WithinOf DEF IsIn
<1> QED BY <1>1, <1>3, <1>4, <1>5

LEMMA AInvNothingLost ==
    ASSUME AInv
    PROVE  NothingIsLost
<1> SUFFICES ASSUME NEW w \in Windows PROVE Cardinality(Places(w)) = IF w \in managed THEN 1 ELSE 0
  BY DEF NothingIsLost
<1>1. CASE w \in managed
  <2>1. PICK o \in DOMAIN mon : \E x \in Range(mon[o].stack) : IsOnlyIn(w, o, x)
    BY <1>1, AInvPlaces
  <2>2. PICK x \in Range(mon[o].stack) : IsOnlyIn(w, o, x)
    BY <2>1
  <2>3. GoodStack(mon[o].stack)
    BY AInvFacts
  <2>4. PICK p : Places(w) = {p}
    BY <2>2, <2>3, OnePlace
  <2> QED BY <1>1, <2>4, FS_Singleton
<1>2. CASE w \notin managed
  <2>1. \A p \in DOMAIN mon : \A y \in Range(mon[p].stack) : ~IsIn(w, p, y)
    BY <1>2, AInvPlaces
  <2>2. ASSUME NEW q, q \in Places(w) PROVE FALSE
    <3>1. PICK u \in DOMAIN mon : \E j \in DOMAIN mon[u].stack : q = <<u, j>> /\ IsIn(w, u, mon[u].stack[j])
      BY <2>2 DEF Places
    <3>2. PICK j \in DOMAIN mon[u].stack : q = <<u, j>> /\ IsIn(w, u, mon[u].stack[j])
      BY <3>1
    <3>3. mon[u].stack[j] \in Range(mon[u].stack)
      BY DEF Range
    <3> QED BY <2>1, <3>2, <3>3
  <2>3. Places(w) = {}
    BY <2>2
  <2> QED BY <1>2, <2>3, FS_EmptySet
<1> QED BY <1>1, <1>2

\* The second inductive invariant holds of every behaviour that takes one output away at a time and
\* never the last: identities, tiles and names stay apart, and a key of the host that a record names
\* holds a workspace of the record only if it is the one that was parked there
\* (src/layout/engine.rs:1205-1640, monitor_actions.rs:210-330).
THEOREM StaysApart ==
    ASSUME OneAway
    PROVE  Spec => []AInv
<1>1. Init => AInv
  BY InitAInv
<1>2. AInv /\ [Next]_vars => AInv'
  BY NextAInv
<1> QED BY <1>1, <1>2, PTL DEF Spec

\* With one output away at a time, and never the last, no window is lost, none is in two workspaces, and
\* one that is closed is in none: what move_workspaces_to parks, take_back_workspaces brings back, to
\* whatever workspace or output it was moved meanwhile (engine.rs:1432, 1551; the test
\* test_the_last_monitor_going_loses_nothing, engine.rs:17168).
THEOREM NoWindowIsLost ==
    ASSUME OneAway
    PROVE  Spec => []NothingIsLost
<1>1. AInv => NothingIsLost
  BY AInvNothingLost
<1> QED BY <1>1, StaysApart, PTL

\* With one output away at a time, and never the last, no two workspaces of the outputs that are there
\* have the same identity, nor the same name (take_back_workspaces, relocate_workspace and
\* rename_workspace_on: engine.rs:1551, monitor_actions.rs:296).
THEOREM IdentitiesStayUnique ==
    ASSUME OneAway
    PROVE  Spec => []IdentitiesAreUnique
<1>1. AInv => IdentitiesAreUnique
  BY AInvIdentities
<1> QED BY <1>1, StaysApart, PTL

----------------------------------------------------------------------------
(* Where the windows are, and what the mapping to Homes makes of it. *)

\* w is in the workspace id of o, as a tile or as a minimized window.
Holding(mini, w, o, x) == w \in x.wins \/ (w \in DOMAIN mini /\ mini[w] = [output |-> o, key |-> x.key])
Lives(ms, mini, w, id, o) == o \in DOMAIN ms /\ \E x \in Range(ms[o].stack) : x.id = id /\ Holding(mini, w, o, x)

Sits(w, id, o) == w \in managed /\ w \in DOMAIN Inside /\ Inside[w] = id /\ id \in DOMAIN home /\ OutputOf(id) = o

LEMMA OutputOfIs ==
    ASSUME IdsApart(mon), NEW o \in DOMAIN mon, NEW x \in Range(mon[o].stack)
    PROVE  OutputOf(x.id) = o
<1> DEFINE id == x.id
<1>1. ASSUME NEW p PROVE p \in OutputsOf(id) <=> p = o
  <2>1. ASSUME p \in OutputsOf(id) PROVE p = o
    <3>1. PICK i \in DOMAIN mon[p].stack : p \in DOMAIN mon /\ mon[p].stack[i].id = id
      BY <2>1 DEF OutputsOf
    <3>2. mon[p].stack[i] \in Range(mon[p].stack)
      BY DEF Range
    <3> QED BY <3>1, <3>2 DEF IdsApart
  <2>2. o \in OutputsOf(id)
    BY DEF OutputsOf, Range
  <2> QED BY <2>1, <2>2
<1>2. OutputsOf(id) = {o}
  BY <1>1
<1> HIDE DEF id
<1>3. OutputOf(id) = o
  BY <1>2 DEF OutputOf
<1> QED BY <1>3 DEF id

LEMMA LivesSits ==
    ASSUME AInv, NEW w, NEW id, NEW o, Lives(mon, minimized, w, id, o)
    PROVE  Sits(w, id, o)
<1>1. o \in DOMAIN mon
  BY DEF Lives
<1>2. PICK x \in Range(mon[o].stack) : x.id = id /\ Holding(minimized, w, o, x)
  BY DEF Lives
<1>3. IsIn(w, o, x)
  BY <1>2 DEF IsIn, Holding
<1>4. w \in managed
  BY <1>1, <1>3, AInvPlaces
<1>5. PICK p \in DOMAIN mon : \E y \in Range(mon[p].stack) : IsOnlyIn(w, p, y)
  BY <1>4, AInvPlaces
<1>6. PICK y \in Range(mon[p].stack) : IsOnlyIn(w, p, y)
  BY <1>5
<1>7. GoodStack(mon[p].stack) /\ Apart(mon, away)
  BY AInvFacts
<1>8. o = p /\ x.key = y.key
  BY <1>1, <1>3, <1>6 DEF IsOnlyIn
<1>9. x = y
  BY <1>7, <1>8, StackFacts
<1>10. PICK i \in DOMAIN mon[p].stack : mon[p].stack[i] = y /\ Places(w) = {<<p, i>>}
  BY <1>6, <1>7, OnePlace
<1>11. w \in DOMAIN Inside /\ Inside[w] = id
  <2>1. (CHOOSE q \in Places(w) : TRUE) = <<p, i>>
    BY <1>10
  <2>2. IdAt(<<p, i>>) = y.id
    BY <1>10 DEF IdAt
  <2> QED BY <1>2, <1>4, <1>9, <1>10, <2>1, <2>2 DEF Inside
<1>12. id \in DOMAIN home
  BY <1>1, <1>2, IdentitiesOf DEF AInv, IInv, HomesAreKnown
<1>13. OutputOf(id) = o
  BY <1>1, <1>2, <1>7, OutputOfIs DEF Apart
<1> QED BY <1>4, <1>11, <1>12, <1>13 DEF Sits

LEMMA MappingIs ==
    AInv => /\ DOMAIN Inside = managed /\ Inside = [w \in DOMAIN Inside |-> Inside[w]]
            /\ \A w, id, o : Lives(mon, minimized, w, id, o) => Sits(w, id, o)
            /\ \A w \in managed : \E id, o : Lives(mon, minimized, w, id, o)
            /\ \A id : id \in H!Occupied <=> \E w \in managed : Inside[w] = id
<1> SUFFICES ASSUME AInv
             PROVE  /\ DOMAIN Inside = managed /\ Inside = [w \in DOMAIN Inside |-> Inside[w]]
                    /\ \A w, id, o : Lives(mon, minimized, w, id, o) => Sits(w, id, o)
                    /\ \A w \in managed : \E id, o : Lives(mon, minimized, w, id, o)
                    /\ \A id : id \in H!Occupied <=> \E w \in managed : Inside[w] = id
  OBVIOUS
<1>1. \A w, id, o : Lives(mon, minimized, w, id, o) => Sits(w, id, o)
  BY LivesSits
<1>2. ASSUME NEW w \in managed PROVE \E id, o : Lives(mon, minimized, w, id, o)
  <2>1. PICK o \in DOMAIN mon : \E x \in Range(mon[o].stack) : IsOnlyIn(w, o, x)
    BY AInvPlaces
  <2>2. PICK x \in Range(mon[o].stack) : IsOnlyIn(w, o, x)
    BY <2>1
  <2>3. Lives(mon, minimized, w, x.id, o)
    BY <2>2 DEF Lives, IsOnlyIn, IsIn, Holding
  <2> QED BY <2>3
<1>3. Inside = [w \in DOMAIN Inside |-> Inside[w]] /\ DOMAIN Inside \subseteq managed
  BY DEF Inside
<1>4. DOMAIN Inside = managed
  BY <1>1, <1>2, <1>3 DEF Sits
<1>5. \A id : id \in H!Occupied <=> \E w \in DOMAIN Inside : Inside[w] = id
  BY DEF H!Occupied, H!Range
<1> QED BY <1>1, <1>2, <1>3, <1>4, <1>5

----------------------------------------------------------------------------
(* Where the workspaces are. *)

\* The workspaces of ns are those of ms, under their keys, or new ones.
Stems(ns, ms) ==
    /\ DOMAIN ns = DOMAIN ms
    /\ \A o \in DOMAIN ns : \A y \in Range(ns[o].stack) :
        (\E x \in Range(ms[o].stack) : x.key = y.key /\ x.id = y.id) \/ y.id \notin Identities(mon, away)

\* x, on o, is parked there for the output g.
ParkedFor(aw, g, o, x) ==
    /\ g \in DOMAIN aw /\ aw[g].host = o
    /\ \E p \in Range(aw[g].moved), y \in Range(aw[g].stack) : p[2] = x.key /\ y.key = p[1] /\ y.id = x.id

\* A workspace is at home, or parked; those in a record are at home on the output that is away.
NearHome(ms, aw, hm) ==
    /\ \A o \in DOMAIN ms : \A x \in Range(ms[o].stack) : hm[x.id] = o \/ ParkedFor(aw, hm[x.id], o, x)
    /\ \A g \in DOMAIN aw : \A y \in Range(aw[g].stack) : hm[y.id] = g

HInv == AInv /\ NearHome(mon, away, home)

\* The records say the same, but for names.
SameRecords(bw, aw) ==
    /\ DOMAIN bw = DOMAIN aw
    /\ \A g \in DOMAIN aw :
        /\ bw[g].host = aw[g].host /\ bw[g].moved = aw[g].moved
        /\ \A y \in Range(bw[g].stack) : \E x \in Range(aw[g].stack) : x.key = y.key /\ x.id = y.id
        /\ \A x \in Range(aw[g].stack) : \E y \in Range(bw[g].stack) : x.key = y.key /\ x.id = y.id

LEMMA HomedIs ==
    ASSUME NEW ms, NEW aw, NEW old, IdsApart(ms)
    PROVE  /\ \A id \in Identities(ms, aw) : id \in DOMAIN old => Homed(ms, aw, old)[id] = old[id]
           /\ \A o \in DOMAIN ms : \A x \in Range(ms[o].stack) : x.id \notin DOMAIN old => Homed(ms, aw, old)[x.id] = o
<1>1. \A id \in Identities(ms, aw) : id \in DOMAIN old => Homed(ms, aw, old)[id] = old[id]
  BY DEF Homed
<1>2. ASSUME NEW o \in DOMAIN ms, NEW x \in Range(ms[o].stack), x.id \notin DOMAIN old
      PROVE  Homed(ms, aw, old)[x.id] = o
  <2> DEFINE id == x.id
             there(p) == id \in {y.id : y \in Range(ms[p].stack)}
  <2>1. id \in Identities(ms, aw)
    BY IdentitiesOf
  <2>2. Homed(ms, aw, old)[id] = CHOOSE p \in DOMAIN ms : there(p)
    BY <1>2, <2>1 DEF Homed
  <2>3. there(o) /\ \A p \in DOMAIN ms : there(p) => p = o
    BY DEF IdsApart
  <2> HIDE DEF there
  <2>4. (CHOOSE p \in DOMAIN ms : there(p)) = o
    BY <2>3
  <2> QED BY <2>2, <2>4
<1> QED BY <1>1, <1>2

LEMMA StaysNearHome ==
    ASSUME HInv, NEW ms, NEW aw, IdsApart(ms), Stems(ms, mon), SameRecords(aw, away)
    PROVE  NearHome(ms, aw, Homed(ms, aw, home))
<1> DEFINE hm == Homed(ms, aw, home)
<1>1. DOMAIN home = Identities(mon, away) /\ NearHome(mon, away, home)
  BY DEF HInv, AInv, IInv, HomesAreKnown
<1>2. /\ \A id \in Identities(ms, aw) : id \in DOMAIN home => hm[id] = home[id]
      /\ \A o \in DOMAIN ms : \A x \in Range(ms[o].stack) : x.id \notin DOMAIN home => hm[x.id] = o
  BY HomedIs
<1> HIDE DEF hm
<1>3. ASSUME NEW o \in DOMAIN ms, NEW y \in Range(ms[o].stack)
      PROVE  hm[y.id] = o \/ ParkedFor(aw, hm[y.id], o, y)
  <2>1. CASE y.id \notin DOMAIN home
    BY <1>2, <2>1
  <2>2. CASE y.id \in DOMAIN home
    <3>1. o \in DOMAIN mon /\ \E x \in Range(mon[o].stack) : x.key = y.key /\ x.id = y.id
      BY <1>1, <2>2 DEF Stems
    <3>2. PICK x \in Range(mon[o].stack) : x.key = y.key /\ x.id = y.id
      BY <3>1
    <3>3. hm[y.id] = home[y.id]
      BY <1>2, <2>2, IdentitiesOf
    <3>4. home[y.id] = o \/ ParkedFor(away, home[y.id], o, x)
      BY <1>1, <3>1, <3>2 DEF NearHome
    <3>5. ParkedFor(away, home[y.id], o, x) => ParkedFor(aw, home[y.id], o, y)
      BY <3>2 DEF ParkedFor, SameRecords
    <3> QED BY <3>3, <3>4, <3>5
  <2> QED BY <2>1, <2>2
<1>4. ASSUME NEW g \in DOMAIN aw, NEW y \in Range(aw[g].stack)
      PROVE  hm[y.id] = g
  <2>1. g \in DOMAIN away /\ \E x \in Range(away[g].stack) : x.id = y.id
    BY DEF SameRecords
  <2>2. y.id \in DOMAIN home /\ home[y.id] = g
    BY <1>1, <2>1, IdentitiesOf DEF NearHome
  <2>3. y.id \in Identities(ms, aw)
    BY IdentitiesOf
  <2> QED BY <1>2, <2>2, <2>3
<1> QED BY <1>3, <1>4 DEF NearHome, hm

\* What Homes says of windows that open, move and close.
Settling ==
    /\ HInv /\ HInv' /\ Stems(mon', mon) /\ home' = Homed(mon', away', home)

LEMMA SettledIs ==
    ASSUME Settling
    PROVE  H!Settled
<1>1. /\ AInv /\ AInv' /\ NearHome(mon, away, home) /\ NearHome(mon', away', home') /\ DOMAIN mon' = DOMAIN mon
      /\ home' = Homed(mon', away', home) /\ DOMAIN home = Identities(mon, away)
  BY DEF Settling, Stems, HInv, AInv, IInv, HomesAreKnown
<1>2. /\ \A w, id, o : Lives(mon, minimized, w, id, o) => Sits(w, id, o)
      /\ \A w \in managed : \E id, o : Lives(mon, minimized, w, id, o)
      /\ \A id : id \in H!Occupied <=> \E w \in managed : Inside[w] = id
  BY <1>1, MappingIs
<1>3. (/\ \A w, id, o : Lives(mon, minimized, w, id, o) => Sits(w, id, o)
       /\ \A w \in managed : \E id, o : Lives(mon, minimized, w, id, o)
       /\ \A id : id \in H!Occupied <=> \E w \in managed : Inside[w] = id)'
  BY <1>1, MappingIs, PTL
<1>4. ASSUME NEW id \in H!Occupied
      PROVE  \E o \in DOMAIN mon : \E x \in Range(mon[o].stack) : x.id = id /\ OutputOf(id) = o /\ id \in DOMAIN home
  <2>1. PICK w \in managed : Inside[w] = id
    BY <1>2
  <2>2. PICK i, o : Lives(mon, minimized, w, i, o)
    BY <1>2
  <2>3. Sits(w, i, o)
    BY <1>2, <2>2
  <2> QED BY <2>1, <2>2, <2>3 DEF Lives, Sits
<1>5. ASSUME NEW id \in H!Occupied'
      PROVE  \E o \in DOMAIN mon' : \E x \in Range(mon'[o].stack) : x.id = id /\ OutputOf(id)' = o /\ id \in DOMAIN home'
  <2>1. PICK w \in managed' : Inside'[w] = id
    BY <1>3
  <2>2. PICK i, o : Lives(mon', minimized', w, i, o)
    BY <1>3
  <2>3. Sits(w, i, o)'
    BY <1>3, <2>2
  <2> QED BY <2>1, <2>2, <2>3 DEF Lives, Sits
<1>6. /\ \A id \in Identities(mon', away') : id \in DOMAIN home => home'[id] = home[id]
  <2>1. IdsApart(mon')
    BY <1>1 DEF AInv, Apart
  <2> QED BY <1>1, <2>1, HomedIs
<1>7. ASSUME NEW id \in H!Occupied \cap H!Occupied'
      PROVE  home'[id] = home[id] /\ OutputOf(id)' = OutputOf(id) /\ id \in DOMAIN home /\ id \in DOMAIN home'
  <2>1. PICK o \in DOMAIN mon : \E x \in Range(mon[o].stack) : x.id = id /\ OutputOf(id) = o /\ id \in DOMAIN home
    BY <1>4
  <2>2. PICK p \in DOMAIN mon' : \E y \in Range(mon'[p].stack) : y.id = id /\ OutputOf(id)' = p /\ id \in DOMAIN home'
    BY <1>5
  <2>3. PICK y \in Range(mon'[p].stack) : y.id = id /\ OutputOf(id)' = p /\ id \in DOMAIN home'
    BY <2>2
  <2>4. p \in DOMAIN mon /\ \E x \in Range(mon[p].stack) : x.id = id
    BY <1>1, <2>1, <2>3 DEF Settling, Stems
  <2>5. p = o
    BY <1>1, <2>1, <2>4 DEF AInv, Apart, IdsApart
  <2>6. id \in Identities(mon', away')
    BY <2>3, IdentitiesOf
  <2> QED BY <1>6, <2>1, <2>3, <2>5, <2>6
<1>8. ASSUME NEW id \in H!Occupied'
      PROVE  /\ id \in DOMAIN home' /\ OutputOf(id)' \in DOMAIN mon'
             /\ home'[id] \in {OutputOf(id)'} \cup (Outputs \ DOMAIN mon')
  <2>1. PICK o \in DOMAIN mon' : \E x \in Range(mon'[o].stack) : x.id = id /\ OutputOf(id)' = o /\ id \in DOMAIN home'
    BY <1>5
  <2>2. home'[id] = o \/ home'[id] \in DOMAIN away'
    BY <1>1, <2>1 DEF NearHome, ParkedFor
  <2>3. DOMAIN away' \subseteq Outputs \ DOMAIN mon'
    BY <1>1 DEF AInv, IInv, RecordsAreKept, GoodAway
  <2> QED BY <2>1, <2>2, <2>3
<1>9. DOMAIN mon' = DOMAIN mon
  BY <1>1
<1> HIDE DEF Settling
<1> QED BY <1>7, <1>8, <1>9 DEF H!Settled, H!Stay

\* The windows stay in their workspaces and on their outputs, save those of S.
Remain(ms, mini, ns, mini2, S) ==
    \A w, id, o : w \notin S /\ Lives(ms, mini, w, id, o) => Lives(ns, mini2, w, id, o)

LEMMA RemainInside ==
    ASSUME HInv, HInv', NEW S, Remain(mon, minimized, mon', minimized', S)
    PROVE  \A w \in managed \ S : w \in managed' /\ Inside'[w] = Inside[w]
<1>1. AInv /\ AInv'
  BY DEF HInv
<1>2. /\ \A w, id, o : Lives(mon, minimized, w, id, o) => Sits(w, id, o)
      /\ \A w \in managed : \E id, o : Lives(mon, minimized, w, id, o)
  BY <1>1, MappingIs
<1>3. (\A w, id, o : Lives(mon, minimized, w, id, o) => Sits(w, id, o))'
  <2>1. AInv => \A w, id, o : Lives(mon, minimized, w, id, o) => Sits(w, id, o)
    BY MappingIs
  <2> QED BY <1>1, <2>1, MappingIs, PTL
<1>4. SUFFICES ASSUME NEW w \in managed, w \notin S PROVE w \in managed' /\ Inside'[w] = Inside[w]
  OBVIOUS
<1>5. PICK id, o : Lives(mon, minimized, w, id, o)
  BY <1>2
<1>6. Sits(w, id, o)
  BY <1>2, <1>5
<1>7. Lives(mon', minimized', w, id, o)
  BY <1>4, <1>5 DEF Remain
<1>8. Sits(w, id, o)'
  BY <1>3, <1>7
<1> QED BY <1>6, <1>8 DEF Sits

InsideSound == DOMAIN Inside = managed /\ Inside = [v \in DOMAIN Inside |-> Inside[v]]

LEMMA InsideIs == AInv => InsideSound
BY MappingIs DEF InsideSound

LEMMA InsideWillBe ==
    ASSUME AInv'
    PROVE  InsideSound'
BY InsideIs, PTL

LEMMA TidyIs ==
    ASSUME Settling, managed' = managed, Remain(mon, minimized, mon', minimized', {})
    PROVE  H!Tidy
<1>1. HInv /\ HInv' /\ AInv /\ AInv' /\ DOMAIN mon' = DOMAIN mon
  BY DEF Settling, Stems, HInv
<1>2. DOMAIN Inside = managed /\ Inside = [v \in DOMAIN Inside |-> Inside[v]]
  BY <1>1, InsideIs DEF InsideSound
<1>3. DOMAIN Inside' = managed' /\ Inside' = [v \in DOMAIN Inside' |-> Inside'[v]]
  BY <1>1, InsideWillBe DEF InsideSound
<1>4. \A w \in managed : Inside'[w] = Inside[w]
  BY <1>1, RemainInside
<1>5. Inside' = Inside
  BY <1>2, <1>3, <1>4
<1>6. H!Occupied' = H!Occupied
  BY <1>5 DEF H!Occupied, H!Range
<1>7. H!Settled
  BY SettledIs
<1>8. H!Occupied \cap H!Occupied' = H!Occupied
  BY <1>6
<1>9. H!Stay(H!Occupied)
  BY <1>7, <1>8 DEF H!Settled
<1> QED BY <1>1, <1>5, <1>9 DEF H!Tidy

LEMMA PlaceIs ==
    ASSUME Settling, NEW w, managed' = managed \cup {w}, Remain(mon, minimized, mon', minimized', {w})
    PROVE  H!Place(w)
<1>1. HInv /\ HInv' /\ AInv /\ AInv' /\ DOMAIN mon' = DOMAIN mon
  BY DEF Settling, Stems, HInv
<1>2. DOMAIN Inside = managed /\ Inside = [v \in DOMAIN Inside |-> Inside[v]]
  BY <1>1, InsideIs DEF InsideSound
<1>3. DOMAIN Inside' = managed' /\ Inside' = [v \in DOMAIN Inside' |-> Inside'[v]]
  BY <1>1, InsideWillBe DEF InsideSound
<1>4. \A v \in managed \ {w} : Inside'[v] = Inside[v]
  BY <1>1, RemainInside
<1>5. H!Settled
  BY SettledIs
<1> QED BY <1>1, <1>2, <1>3, <1>4, <1>5 DEF H!Place

LEMMA CloseIs ==
    ASSUME Settling, NEW w \in managed, managed' = managed \ {w}, Remain(mon, minimized, mon', minimized', {w})
    PROVE  H!Close(w)
<1>1. HInv /\ HInv' /\ AInv /\ AInv' /\ DOMAIN mon' = DOMAIN mon
  BY DEF Settling, Stems, HInv
<1>2. DOMAIN Inside = managed /\ Inside = [v \in DOMAIN Inside |-> Inside[v]]
  BY <1>1, InsideIs DEF InsideSound
<1>3. DOMAIN Inside' = managed' /\ Inside' = [v \in DOMAIN Inside' |-> Inside'[v]]
  BY <1>1, InsideWillBe DEF InsideSound
<1>4. \A v \in managed \ {w} : Inside'[v] = Inside[v]
  BY <1>1, RemainInside
<1>5. H!Settled
  BY SettledIs
<1>6. Inside' = [v \in DOMAIN Inside \ {w} |-> Inside[v]]
  BY <1>2, <1>3, <1>4
<1>7. Inside' = H!Restrict(Inside, DOMAIN Inside \ {w})
  BY <1>6 DEF H!Restrict
<1> QED BY <1>1, <1>2, <1>5, <1>7 DEF H!Close

----------------------------------------------------------------------------
(* What a step keeps, as far as windows and workspaces go. *)

Goes(ns, ms, mini0, mini, S) == GoodMon(ns) /\ Stems(ns, ms) /\ Remain(ms, mini0, ns, mini, S)

\* A workspace that holds a window has content, and stays.
LEMMA UpkeepGoes ==
    ASSUME NEW ms, NEW mini0, NEW mini, NEW S, NEW ns, Goes(ns, ms, mini0, mini, S), NEW aw, GoodAway(aw), NEW o,
           GoodMon(mon), GoodAway(away)
    PROVE  Goes(Maintained(ns, mini, aw, o), ms, mini0, mini, S)
<1> DEFINE r == Maintained(ns, mini, aw, o)
<1>1. GoodMon(ns) /\ Stems(ns, ms) /\ Remain(ms, mini0, ns, mini, S)
  BY DEF Goes
<1>2. CASE o \notin DOMAIN ns
  BY <1>2 DEF Maintained
<1>3. CASE o \in DOMAIN ns
  <2> DEFINE id == FreshId(ns, aw)
  <2>1. /\ GoodMon(r) /\ DOMAIN r = DOMAIN ns /\ \A p \in DOMAIN ns \ {o} : r[p] = ns[p]
        /\ Kept(ns[o], r[o], Occupied(mini, o), id)
    BY <1>1, <1>3, MaintainedKeeps
  <2>2. id \notin Identities(mon, away)
    BY <1>1, FreshIdIsFree
  <2> HIDE DEF r, id
  <2>3. ASSUME NEW p \in DOMAIN r, NEW y \in Range(r[p].stack)
        PROVE  y \in Range(ns[p].stack) \/ y.id \notin Identities(mon, away)
    BY <2>1, <2>2 DEF Kept
  <2>4. Stems(r, ms)
    BY <1>1, <2>1, <2>3 DEF Stems
  <2>5. ASSUME NEW w, NEW i, NEW p, Lives(ns, mini, w, i, p) PROVE Lives(r, mini, w, i, p)
    <3>1. PICK x \in Range(ns[p].stack) : p \in DOMAIN ns /\ x.id = i /\ Holding(mini, w, p, x)
      BY <2>5 DEF Lives
    <3>2. x \in Range(r[p].stack)
      <4>1. CASE p # o
        BY <2>1, <3>1, <4>1
      <4>2. CASE p = o
        <5>1. x.wins # {} \/ x.key \in Occupied(mini, o)
          BY <3>1, <4>2 DEF Holding, Occupied
        <5> QED BY <2>1, <4>2, <5>1 DEF Kept, HasContent
      <4> QED BY <4>1, <4>2
    <3> QED BY <2>1, <3>1, <3>2 DEF Lives
  <2>6. Remain(ms, mini0, r, mini, S)
    BY <1>1, <2>5 DEF Remain
  <2> QED BY <2>1, <2>4, <2>6 DEF Goes, r
<1> QED BY <1>2, <1>3

\* The stacks have the same keys, and their workspaces lose no window but those of S.
Reshaped(ns, ms, S) ==
    /\ GoodMon(ns) /\ DOMAIN ns = DOMAIN ms
    /\ \A o \in DOMAIN ms :
        /\ Keys(ns[o].stack) = Keys(ms[o].stack)
        /\ \A y \in Range(ns[o].stack) : \E x \in Range(ms[o].stack) :
            x.key = y.key /\ x.id = y.id /\ x.wins \ S \subseteq y.wins

KeepsMini(mini, mini0, S) == \A v \in DOMAIN mini0 \ S : v \in DOMAIN mini /\ mini[v] = mini0[v]

LEMMA ReshapedGoes ==
    ASSUME NEW ms, NEW ns, NEW S, NEW ls, NEW mini0, NEW mini1, NEW mini, GoodMon(ls),
           Goes(ms, ls, mini0, mini1, S), Reshaped(ns, ms, S), KeepsMini(mini, mini1, S)
    PROVE  Goes(ns, ls, mini0, mini, S)
<1>1. GoodMon(ms) /\ Stems(ms, ls) /\ Remain(ls, mini0, ms, mini1, S) /\ GoodMon(ns) /\ DOMAIN ns = DOMAIN ms
  BY DEF Goes, Reshaped
<1>2. \A o \in DOMAIN ms : GoodStack(ms[o].stack) /\ GoodStack(ns[o].stack)
  BY <1>1 DEF GoodMon, GoodOutput
<1>3. Stems(ns, ls)
  BY <1>1 DEF Stems, Reshaped
<1>4. ASSUME NEW w, NEW i, NEW o, w \notin S, Lives(ms, mini1, w, i, o) PROVE Lives(ns, mini, w, i, o)
  <2>1. PICK x \in Range(ms[o].stack) : o \in DOMAIN ms /\ x.id = i /\ Holding(mini1, w, o, x)
    BY <1>4 DEF Lives
  <2>2. PICK y \in Range(ns[o].stack) : y.key = x.key
    BY <1>2, <2>1, StackFacts DEF Reshaped
  <2>3. PICK u \in Range(ms[o].stack) : u.key = y.key /\ u.id = y.id /\ u.wins \ S \subseteq y.wins
    BY <2>1, <2>2 DEF Reshaped
  <2>4. u = x
    BY <1>2, <2>1, <2>2, <2>3, StackFacts
  <2>5. Holding(mini, w, o, y)
    BY <1>4, <2>1, <2>2, <2>3, <2>4 DEF Holding, KeepsMini
  <2> QED BY <1>1, <2>1, <2>3, <2>4, <2>5 DEF Lives
<1>5. Remain(ls, mini0, ns, mini, S)
  BY <1>1, <1>4 DEF Remain
<1> QED BY <1>1, <1>3, <1>5 DEF Goes

LEMMA GoesNowhere ==
    ASSUME NEW ms, GoodMon(ms), NEW mini, NEW S
    PROVE  Goes(ms, ms, mini, mini, S) /\ Reshaped(ms, ms, S) /\ KeepsMini(mini, mini, S)
BY DEF Goes, Stems, Remain, Reshaped, KeepsMini

LEMMA RestackedIs ==
    ASSUME NEW ms, GoodMon(ms), NEW o \in DOMAIN ms, NEW s, GoodStack(s), Keys(s) = Keys(ms[o].stack), NEW S,
           \A y \in Range(s) : \E x \in Range(ms[o].stack) : x.key = y.key /\ x.id = y.id /\ x.wins \ S \subseteq y.wins
    PROVE  Reshaped(Stacked(ms, o, s), ms, S)
<1> DEFINE ns == Stacked(ms, o, s)
<1>1. Restacked(ns, ms, o, s)
  BY StackChanged
<1> HIDE DEF ns
<1>2. /\ GoodMon(ns) /\ DOMAIN ns = DOMAIN ms /\ ns[o].stack = s
      /\ \A p \in DOMAIN ms : p # o => ns[p] = ms[p]
  BY <1>1 DEF Restacked
<1>3. ASSUME NEW p \in DOMAIN ms, NEW y \in Range(ns[p].stack)
      PROVE  \E x \in Range(ms[p].stack) : x.key = y.key /\ x.id = y.id /\ x.wins \ S \subseteq y.wins
  BY <1>2
<1>4. \A p \in DOMAIN ms : Keys(ns[p].stack) = Keys(ms[p].stack)
  BY <1>1 DEF Restacked
<1> QED BY <1>2, <1>3, <1>4 DEF Reshaped, ns

LEMMA WithIs ==
    ASSUME NEW ms, GoodMon(ms), NEW o \in DOMAIN ms, NEW k, NEW w \in Windows
    PROVE  Reshaped(Stacked(ms, o, WithWindow(ms[o].stack, k, w)), ms, {w})
<1> DEFINE s == ms[o].stack
           t == WithWindow(s, k, w)
<1>1. GoodStack(s)
  BY DEF GoodMon, GoodOutput
<1>2. GoodStack(t) /\ Keys(t) = Keys(s)
  BY <1>1, WithWindowStack
<1>3. \A y \in Range(t) : \E x \in Range(s) :
        x.key = y.key /\ x.id = y.id /\ (y.key = k => y.wins = x.wins \cup {w}) /\ (y.key # k => y.wins = x.wins)
  BY <1>1, WithWindowRange
<1> HIDE DEF t
<1>4. \A y \in Range(t) : \E x \in Range(s) : x.key = y.key /\ x.id = y.id /\ x.wins \ {w} \subseteq y.wins
  BY <1>3
<1>5. Reshaped(Stacked(ms, o, t), ms, {w})
  BY <1>2, <1>4, RestackedIs
<1> QED BY <1>5 DEF t

LEMMA WithoutIs ==
    ASSUME NEW ms, GoodMon(ms), NEW o \in DOMAIN ms, NEW w
    PROVE  Reshaped(Stacked(ms, o, WithoutWindow(ms[o].stack, w)), ms, {w})
<1> DEFINE s == ms[o].stack
           t == WithoutWindow(s, w)
<1>1. GoodStack(s)
  BY DEF GoodMon, GoodOutput
<1>2. GoodStack(t) /\ Keys(t) = Keys(s)
  BY <1>1, WithoutWindowStack
<1>3. \A y \in Range(t) : \E x \in Range(s) : x.key = y.key /\ x.id = y.id /\ y.wins = x.wins \ {w}
  BY <1>1, WithoutWindowRange
<1> HIDE DEF t
<1>4. \A y \in Range(t) : \E x \in Range(s) : x.key = y.key /\ x.id = y.id /\ x.wins \ {w} \subseteq y.wins
  BY <1>3
<1>5. Reshaped(Stacked(ms, o, t), ms, {w})
  BY <1>2, <1>4, RestackedIs
<1> QED BY <1>5 DEF t

LEMMA ShowingIs ==
    ASSUME NEW ms, GoodMon(ms), NEW o \in DOMAIN ms, NEW k \in Nat, NEW S
    PROVE  Reshaped(Showing(ms, o, k), ms, S)
<1> DEFINE ns == Showing(ms, o, k)
<1>1. /\ GoodMon(ns) /\ DOMAIN ns = DOMAIN ms /\ \A p \in DOMAIN ms : ns[p].stack = ms[p].stack
  BY ActiveChanged
<1> HIDE DEF ns
<1> QED BY <1>1 DEF Reshaped, ns

----------------------------------------------------------------------------
(* The steps of the windows, and of the focus. *)

\* A step that leaves the records alone, but for names.
LEMMA RecordsGo ==
    ASSUME HInv, AInv', SameRecords(away', away), home' = Homed(mon', away', home),
           NEW S, Goes(mon', mon, minimized, minimized', S)
    PROVE  Settling /\ Remain(mon, minimized, mon', minimized', S)
<1>1. IdsApart(mon') /\ Stems(mon', mon) /\ Remain(mon, minimized, mon', minimized', S)
  BY DEF AInv, Apart, Goes
<1>2. NearHome(mon', away', Homed(mon', away', home))
  BY <1>1, StaysNearHome
<1>3. NearHome(mon', away', home')
  BY <1>2
<1>4. HInv'
  BY <1>3 DEF HInv
<1> QED BY <1>1, <1>4 DEF Settling

LEMMA StepGoes ==
    ASSUME HInv, AInv', away' = away, home' = Homed(mon', away, home),
           NEW S, Goes(mon', mon, minimized, minimized', S)
    PROVE  Settling /\ Remain(mon, minimized, mon', minimized', S)
<1>1. SameRecords(away', away) /\ home' = Homed(mon', away', home)
  BY DEF SameRecords
<1> QED BY <1>1, RecordsGo

LEMMA HInvFacts ==
    ASSUME HInv
    PROVE  /\ AInv /\ IInv /\ GoodMon(mon) /\ GoodAway(away) /\ DOMAIN mon # {}
           /\ \A S : /\ Goes(mon, mon, minimized, minimized, S) /\ Reshaped(mon, mon, S)
                     /\ KeepsMini(minimized, minimized, S)
<1>1. AInv /\ IInv /\ GoodMon(mon) /\ GoodAway(away) /\ DOMAIN mon # {}
  BY AInvFacts DEF HInv, AInv, OneAtATime
<1> QED BY <1>1, GoesNowhere

LEMMA OpenPlaces ==
    ASSUME HInv, AInv', NEW w \in Windows, NEW o \in DOMAIN mon, Open(w, o)
    PROVE  HInv' /\ H!Place(w)
<1> DEFINE k == mon[o].active
           ns == Stacked(mon, o, WithWindow(mon[o].stack, k, w))
           r == Maintained(ns, minimized, away, o)
<1>1. /\ mon' = r /\ managed' = managed \cup {w} /\ away' = away /\ minimized' = minimized
      /\ home' = Homed(mon', away, home)
  BY DEF Open, Stacked
<1> HIDE DEF k
<1>2. Reshaped(ns, mon, {w})
  BY HInvFacts, WithIs
<1> HIDE DEF ns
<1>3. Goes(ns, mon, minimized, minimized, {w})
  BY <1>2, HInvFacts, ReshapedGoes
<1>4. Goes(r, mon, minimized, minimized, {w})
  BY <1>3, HInvFacts, UpkeepGoes
<1> HIDE DEF r
<1>5. Settling /\ Remain(mon, minimized, mon', minimized', {w})
  BY <1>1, <1>4, StepGoes
<1> QED BY <1>1, <1>5, PlaceIs DEF Settling

LEMMA FewerKept ==
    ASSUME HInv, NEW w
    PROVE  KeepsMini(Restrict(minimized, DOMAIN minimized \ {w}), minimized, {w})
BY HInvFacts, FewerMinimized DEF IInv, MinimizedAreManaged, KeepsMini

LEMMA CloseCloses ==
    ASSUME HInv, AInv', NEW w \in Windows, Close(w)
    PROVE  HInv' /\ H!Close(w)
<1> DEFINE mini == Restrict(minimized, DOMAIN minimized \ {w})
           o == FirstFound(w)
           ns == Stacked(mon, o, WithoutWindow(mon[o].stack, w))
           r == Maintained(ns, mini, away, o)
<1>1. /\ w \in managed /\ managed' = managed \ {w} /\ minimized' = mini /\ away' = away
      /\ mon' = IF Found(w) = {} THEN mon ELSE r
      /\ home' = Homed(mon', away, home)
  BY DEF Close, Stacked
<1>2. KeepsMini(mini, minimized, {w})
  BY FewerKept
<1> HIDE DEF mini
<1>3. Goes(mon', mon, minimized, minimized', {w})
  <2>1. CASE Found(w) = {}
    <3>1. Goes(mon, mon, minimized, mini, {w})
      BY <1>2, HInvFacts, ReshapedGoes
    <3> QED BY <1>1, <2>1, <3>1
  <2>2. CASE Found(w) # {}
    <3>1. o \in DOMAIN mon
      BY <2>2, HInvFacts, FoundHas
    <3>2. mon' = r
      BY <1>1, <2>2
    <3> HIDE DEF o
    <3>3. Reshaped(ns, mon, {w})
      BY <3>1, HInvFacts, WithoutIs
    <3> HIDE DEF ns
    <3>4. Goes(ns, mon, minimized, mini, {w})
      BY <1>2, <3>3, HInvFacts, ReshapedGoes
    <3>5. Goes(r, mon, minimized, mini, {w})
      BY <3>4, HInvFacts, UpkeepGoes
    <3> QED BY <1>1, <3>2, <3>5
  <2> QED BY <2>1, <2>2
<1>5. Settling /\ Remain(mon, minimized, mon', minimized', {w})
  BY <1>1, <1>3, StepGoes
<1> QED BY <1>1, <1>5, CloseIs DEF Settling

LEMMA RestorePlaces ==
    ASSUME HInv, AInv', NEW w \in Windows, Restore(w)
    PROVE  HInv' /\ H!Place(w)
<1> DEFINE mini == Restrict(minimized, DOMAIN minimized \ {w})
           o == IF minimized[w].output \in DOMAIN mon THEN minimized[w].output ELSE focused
           k == mon[o].active
           ns == Stacked(mon, o, WithWindow(mon[o].stack, k, w))
           r == Maintained(ns, mini, away, o)
<1>1. /\ managed' = managed /\ minimized' = mini /\ away' = away /\ w \in DOMAIN minimized
      /\ mon' = (IF o = NoOutput THEN mon ELSE r)
      /\ home' = Homed(mon', away, home)
  BY DEF Restore, Stacked
<1>2. KeepsMini(mini, minimized, {w})
  BY FewerKept
<1> HIDE DEF mini
<1>3. o \in DOMAIN mon
  BY HInvFacts DEF IInv, FocusIsThere
<1> HIDE DEF o
<1>4. o # NoOutput
  BY <1>3, HInvFacts, StacksAreGood
<1> HIDE DEF k
<1>5. mon' = r
  BY <1>1, <1>4
<1>6. Reshaped(ns, mon, {w})
  BY <1>3, HInvFacts, WithIs
<1> HIDE DEF ns
<1>7. Goes(ns, mon, minimized, mini, {w})
  BY <1>2, <1>6, HInvFacts, ReshapedGoes
<1>8. Goes(r, mon, minimized, mini, {w})
  BY <1>7, HInvFacts, UpkeepGoes
<1> HIDE DEF r
<1>9. Settling /\ Remain(mon, minimized, mon', minimized', {w})
  BY <1>1, <1>5, <1>8, StepGoes
<1>10. managed' = managed \cup {w}
  BY <1>1, HInvFacts DEF IInv, MinimizedAreManaged
<1> QED BY <1>9, <1>10, PlaceIs DEF Settling

LEMMA ShownGoes ==
    ASSUME HInv, NEW S, NEW ms, Goes(ms, mon, minimized, minimized, S), NEW o \in DOMAIN ms, NEW k \in Nat
    PROVE  Goes(Shown(ms, minimized, away, o, k), mon, minimized, minimized, S)
<1> DEFINE ns == Showing(ms, o, k)
           r == Maintained(ns, minimized, away, o)
<1>1. GoodMon(ms)
  BY DEF Goes
<1>2. Reshaped(ns, ms, S)
  BY <1>1, ShowingIs
<1>3. KeepsMini(minimized, minimized, S)
  BY HInvFacts
<1> HIDE DEF ns
<1>4. Goes(ns, mon, minimized, minimized, S)
  BY <1>2, <1>3, HInvFacts, ReshapedGoes
<1>5. Goes(r, mon, minimized, minimized, S)
  BY <1>4, HInvFacts, UpkeepGoes
<1>6. Shown(ms, minimized, away, o, k) = r
  BY DEF Shown, r, ns, Showing
<1> QED BY <1>5, <1>6

LEMMA FocusWorkspaceTidies ==
    ASSUME HInv, AInv', NEW o \in DOMAIN mon, NEW k \in Keys(mon[o].stack), FocusWorkspace(o, k)
    PROVE  HInv' /\ H!Tidy
<1> DEFINE r == Shown(mon, minimized, away, o, k)
<1>1. /\ mon' = r /\ minimized' = minimized /\ managed' = managed /\ away' = away
      /\ home' = Homed(mon', away, home)
  BY DEF FocusWorkspace
<1>2. k \in Nat
  BY HInvFacts, AInvFacts, StackFacts
<1>3. Goes(r, mon, minimized, minimized, {})
  BY <1>2, HInvFacts, ShownGoes
<1> HIDE DEF r
<1>4. Settling /\ Remain(mon, minimized, mon', minimized', {})
  BY <1>1, <1>3, StepGoes
<1> QED BY <1>1, <1>4, TidyIs DEF Settling

LEMMA FocusOutputTidies ==
    ASSUME HInv, AInv', NEW o \in DOMAIN mon, FocusOutput(o)
    PROVE  HInv' /\ H!Tidy
<1>1. mon' = mon /\ minimized' = minimized /\ managed' = managed /\ away' = away /\ home' = home
  BY DEF FocusOutput
<1>2. Homed(mon, away, home) = home
  BY HInvFacts DEF Homed, IInv, HomesAreKnown
<1>3. Goes(mon', mon, minimized, minimized', {})
  BY <1>1, HInvFacts
<1>4. Settling /\ Remain(mon, minimized, mon', minimized', {})
  BY <1>1, <1>2, <1>3, StepGoes
<1> QED BY <1>1, <1>4, TidyIs DEF Settling

LEMMA MinimizeTidies ==
    ASSUME HInv, AInv', NEW w \in Windows, NEW k, Minimize(w, k)
    PROVE  HInv' /\ H!Tidy
<1> DEFINE o == FirstFound(w)
           mini == With(minimized, w, [output |-> o, key |-> k])
           ns == Stacked(mon, o, WithoutWindow(mon[o].stack, w))
           r == Maintained(ns, mini, away, o)
<1>1. /\ managed' = managed /\ minimized' = mini /\ mon' = r /\ away' = away
      /\ home' = Homed(mon', away, home)
      /\ w \notin DOMAIN minimized /\ Found(w) # {} /\ Holds(o, k, w)
  BY DEF Minimize, Stacked
<1>2. /\ w \in DOMAIN mini /\ mini[w] = [output |-> o, key |-> k]
      /\ KeepsMini(mini, minimized, {w})
  BY DEF With, KeepsMini
<1> HIDE DEF mini
<1>3. o \in DOMAIN mon
  BY <1>1, HInvFacts, FoundHas
<1> HIDE DEF o
<1>4. PICK x \in Range(mon[o].stack) : x.key = k /\ w \in x.wins
  BY <1>1 DEF Holds
<1>5. Reshaped(ns, mon, {w})
  BY <1>3, HInvFacts, WithoutIs
<1> HIDE DEF ns
<1>6. Goes(ns, mon, minimized, mini, {w})
  BY <1>2, <1>5, HInvFacts, ReshapedGoes
<1>7. Goes(r, mon, minimized, mini, {w})
  BY <1>6, HInvFacts, UpkeepGoes
<1>8. GoodMon(ns)
  BY <1>6 DEF Goes
<1>9. Goes(ns, ns, mini, mini, {})
  BY <1>8, GoesNowhere
<1>10. Goes(r, ns, mini, mini, {})
  BY <1>9, HInvFacts, UpkeepGoes
<1> HIDE DEF r
<1>11. Lives(ns, mini, w, x.id, o)
  <2>1. GoodStack(mon[o].stack)
    BY <1>3, HInvFacts, AInvFacts
  <2>2. PICK y \in Range(ns[o].stack) : y.key = k
    <3>1. k \in Keys(ns[o].stack)
      BY <1>3, <1>4, <2>1, StackFacts, <1>5 DEF Reshaped
    <3>2. o \in DOMAIN ns /\ GoodStack(ns[o].stack)
      BY <1>3, <1>5, <1>8 DEF Reshaped, GoodMon, GoodOutput
    <3> QED BY <3>1, <3>2, StackFacts
  <2>3. PICK u \in Range(mon[o].stack) : u.key = y.key /\ u.id = y.id
    BY <1>3, <1>5 DEF Reshaped
  <2>4. u = x
    BY <1>4, <2>1, <2>2, <2>3, StackFacts
  <2>5. o \in DOMAIN ns
    BY <1>3, <1>5 DEF Reshaped
  <2> QED BY <1>2, <2>2, <2>3, <2>4, <2>5 DEF Lives, Holding
<1>12. Lives(r, mini, w, x.id, o)
  BY <1>10, <1>11 DEF Goes, Remain
<1>13. ASSUME NEW id, NEW p, Lives(mon, minimized, w, id, p) PROVE id = x.id /\ p = o
  <2>1. Lives(mon, minimized, w, x.id, o)
    BY <1>3, <1>4 DEF Lives, Holding
  <2>2. Sits(w, id, p) /\ Sits(w, x.id, o)
    BY <1>13, <2>1, HInvFacts, LivesSits
  <2> QED BY <2>2 DEF Sits
<1>14. Remain(mon, minimized, r, mini, {})
  BY <1>7, <1>12, <1>13 DEF Goes, Remain
<1>15. Goes(r, mon, minimized, mini, {})
  BY <1>7, <1>14 DEF Goes
<1>16. Settling /\ Remain(mon, minimized, mon', minimized', {})
  BY <1>1, <1>15, StepGoes
<1> QED BY <1>1, <1>16, TidyIs DEF Settling

LEMMA MoveWindowPlaces ==
    ASSUME HInv, AInv', NEW w \in Windows, NEW o1 \in DOMAIN mon, NEW o2 \in DOMAIN mon, NEW k1,
           NEW k2 \in Keys(mon[o2].stack), NEW follow \in BOOLEAN, MoveWindow(w, o1, k1, o2, k2, follow)
    PROVE  HInv' /\ H!Place(w)
<1> DEFINE taken == Stacked(mon, o1, WithoutWindow(mon[o1].stack, w))
           given == Stacked(taken, o2, WithWindow(taken[o2].stack, k2, w))
           tidy1 == Maintained(given, minimized, away, o1)
           tidy == Maintained(tidy1, minimized, away, o2)
           r == IF follow THEN Shown(tidy, minimized, away, o2, k2) ELSE tidy
<1>1. /\ mon' = r /\ minimized' = minimized /\ managed' = managed /\ away' = away
      /\ home' = Homed(mon', away, home)
      /\ \E x \in Range(mon[o1].stack) : w \in x.wins
  BY DEF MoveWindow, Holds, Stacked
<1>2. Reshaped(taken, mon, {w})
  BY HInvFacts, WithoutIs
<1> HIDE DEF taken
<1>3. Goes(taken, mon, minimized, minimized, {w})
  BY <1>2, HInvFacts, ReshapedGoes
<1>4. GoodMon(taken) /\ o2 \in DOMAIN taken
  BY <1>3 DEF Goes, Stems
<1>5. Reshaped(given, taken, {w})
  BY <1>4, WithIs
<1> HIDE DEF given
<1>6. Goes(given, mon, minimized, minimized, {w})
  BY <1>3, <1>5, HInvFacts, ReshapedGoes
<1>7. Goes(tidy1, mon, minimized, minimized, {w})
  BY <1>6, HInvFacts, UpkeepGoes
<1> HIDE DEF tidy1
<1>8. Goes(tidy, mon, minimized, minimized, {w})
  BY <1>7, HInvFacts, UpkeepGoes
<1> HIDE DEF tidy
<1>9. o2 \in DOMAIN tidy /\ k2 \in Nat
  BY <1>8, HInvFacts, AInvFacts, StackFacts DEF Goes, Stems
<1>10. Goes(Shown(tidy, minimized, away, o2, k2), mon, minimized, minimized, {w})
  BY <1>8, <1>9, ShownGoes
<1>11. Goes(r, mon, minimized, minimized, {w})
  BY <1>8, <1>10
<1> HIDE DEF r
<1>12. Settling /\ Remain(mon, minimized, mon', minimized', {w})
  BY <1>1, <1>11, StepGoes
<1>13. managed' = managed \cup {w}
  <2>1. w \in Tiled(mon)
    BY <1>1, WithinOf
  <2> QED BY <1>1, <2>1, HInvFacts, AInvFacts
<1> QED BY <1>12, <1>13, PlaceIs DEF Settling

LEMMA NameWorkspaceTidies ==
    ASSUME HInv, AInv', NEW o \in DOMAIN mon, NEW k \in Keys(mon[o].stack), NEW name \in Names \cup {NoName},
           NameWorkspace(o, k, name)
    PROVE  HInv' /\ H!Tidy
<1> DEFINE id == At(mon[o].stack, k).id
           aw == [g \in DOMAIN away |-> [away[g] EXCEPT !.stack = Rename(away[g].stack, id, name)]]
           s == OnKey(mon[o].stack, k, LAMBDA x : [x EXCEPT !.name = name])
           ns == Stacked(mon, o, s)
           r == Maintained(ns, minimized, aw, o)
<1>1. /\ away' = aw /\ mon' = r /\ minimized' = minimized /\ managed' = managed
      /\ home' = Homed(mon', away', home)
  BY DEF NameWorkspace, Stacked
<1>2. GoodMon(mon) /\ GoodAway(away) /\ GoodStack(mon[o].stack)
  BY HInvFacts, AInvFacts
<1> HIDE DEF id
<1>3. GoodStack(s) /\ Keys(s) = Keys(mon[o].stack)
  BY <1>2, NamedStack
<1>4. NamedAs(s, mon[o].stack, k, name)
  BY <1>2, NamedRange
<1> HIDE DEF s
<1>5. \A y \in Range(s) : \E x \in Range(mon[o].stack) : x.key = y.key /\ x.id = y.id /\ x.wins \ {} \subseteq y.wins
  BY <1>4 DEF NamedAs
<1>6. Reshaped(ns, mon, {})
  BY <1>2, <1>3, <1>5, RestackedIs
<1> HIDE DEF ns
<1>7. Goes(ns, mon, minimized, minimized, {})
  BY <1>6, HInvFacts, ReshapedGoes
<1>8. ASSUME NEW g \in DOMAIN away
      PROVE  aw[g].stack = Rename(away[g].stack, id, name) /\ aw[g].moved = away[g].moved /\ aw[g].host = away[g].host
  <2> DEFINE t == Rename(away[g].stack, id, name)
  <2>1. aw[g] = [away[g] EXCEPT !.stack = t]
    OBVIOUS
  <2>2. away[g] = [stack |-> away[g].stack, active |-> away[g].active, host |-> away[g].host,
                   moved |-> away[g].moved, minimized |-> away[g].minimized]
    BY <1>2 DEF GoodAway, GoodRecord
  <2> HIDE DEF t, aw
  <2>3. aw[g] = [stack |-> t, active |-> away[g].active, host |-> away[g].host,
                   moved |-> away[g].moved, minimized |-> away[g].minimized]
    BY <2>1, <2>2
  <2> QED BY <2>3 DEF t
<1>9. DOMAIN aw = DOMAIN away
  OBVIOUS
<1> HIDE DEF aw
<1>10. ASSUME NEW g \in DOMAIN away
       PROVE  /\ \A y \in Range(aw[g].stack) : \E x \in Range(away[g].stack) : x.key = y.key /\ x.id = y.id
              /\ \A x \in Range(away[g].stack) : \E y \in Range(aw[g].stack) : x.key = y.key /\ x.id = y.id
  <2> DEFINE t == aw[g].stack
             u == away[g].stack
  <2>1. GoodStack(u)
    BY <1>2 DEF GoodAway, GoodRecord
  <2>2. t = Rename(u, id, name)
    BY <1>8
  <2> HIDE DEF t, u
  <2>3. GoodStack(t) /\ Keys(t) = Keys(u)
    BY <2>1, <2>2, RenamedStack
  <2>4. \A y \in Range(t) : \E x \in Range(u) : x.key = y.key /\ x.id = y.id
    BY <2>1, <2>2, RenameRange DEF Renames
  <2>5. ASSUME NEW x \in Range(u) PROVE \E y \in Range(t) : x.key = y.key /\ x.id = y.id
    <3>1. PICK y \in Range(t) : y.key = x.key
      BY <2>1, <2>3, StackFacts
    <3>2. PICK z \in Range(u) : z.key = y.key /\ z.id = y.id
      BY <2>4
    <3>3. z = x
      BY <2>1, <3>1, <3>2, StackFacts
    <3> QED BY <3>1, <3>2, <3>3
  <2> QED BY <2>4, <2>5 DEF t, u
<1>11. SameRecords(aw, away)
  BY <1>8, <1>9, <1>10 DEF SameRecords
<1>12. GoodAway(aw)
  BY <1>1 DEF AInv, IInv, RecordsAreKept
<1>13. Goes(r, mon, minimized, minimized, {})
  BY <1>2, <1>7, <1>12, UpkeepGoes
<1> HIDE DEF r
<1>14. Settling /\ Remain(mon, minimized, mon', minimized', {})
  BY <1>1, <1>11, <1>13, RecordsGo
<1> QED BY <1>1, <1>14, TidyIs DEF Settling

----------------------------------------------------------------------------
(* Steps that move workspaces. *)

LEMMA OccupiedLives ==
    ASSUME AInv, NEW id \in H!Occupied
    PROVE  \E w, o : Lives(mon, minimized, w, id, o) /\ OutputOf(id) = o /\ id \in DOMAIN home
<1>1. PICK w \in managed : Inside[w] = id
  BY MappingIs
<1>2. PICK i, o : Lives(mon, minimized, w, i, o)
  BY MappingIs
<1>3. Sits(w, i, o)
  BY <1>2, LivesSits
<1> QED BY <1>1, <1>2, <1>3 DEF Sits

AllSit == \A w, id, o : Lives(mon, minimized, w, id, o) => Sits(w, id, o)

LEMMA TheySit == AInv => AllSit
BY MappingIs DEF AllSit

LEMMA LivesWillSit ==
    ASSUME AInv'
    PROVE  AllSit'
BY TheySit, PTL

\* Each window is in the workspace it was in, wherever that is now.
LEMMA InsideSame ==
    ASSUME AInv, AInv', managed' = managed,
           \A w, id, o : Lives(mon, minimized, w, id, o) => \E p : Lives(mon', minimized', w, id, p)
    PROVE  Inside' = Inside
<1>1. InsideSound /\ InsideSound'
  BY InsideIs, InsideWillBe
<1>2. ASSUME NEW w \in managed PROVE Inside'[w] = Inside[w]
  <2>1. PICK id, o : Lives(mon, minimized, w, id, o)
    BY MappingIs
  <2>2. Inside[w] = id
    BY <2>1, LivesSits DEF Sits
  <2>3. PICK p : Lives(mon', minimized', w, id, p)
    BY <2>1
  <2>4. Sits(w, id, p)'
    BY <2>3, LivesWillSit DEF AllSit
  <2> QED BY <2>2, <2>4 DEF Sits
<1>3. InsideSound => DOMAIN Inside = managed /\ Inside = [v \in DOMAIN Inside |-> Inside[v]]
  BY DEF InsideSound
<1>4. InsideSound' => DOMAIN Inside' = managed' /\ Inside' = [v \in DOMAIN Inside' |-> Inside'[v]]
  BY DEF InsideSound
<1> QED BY <1>1, <1>2, <1>3, <1>4

\* The workspaces that hm knows are at home, or parked.
NearOrNew(ms, aw, hm) ==
    /\ \A o \in DOMAIN ms : \A x \in Range(ms[o].stack) :
        x.id \in DOMAIN hm => hm[x.id] = o \/ ParkedFor(aw, hm[x.id], o, x)
    /\ \A g \in DOMAIN aw : \A y \in Range(aw[g].stack) : y.id \in DOMAIN hm /\ hm[y.id] = g

LEMMA HomedNear ==
    ASSUME NEW ms, NEW aw, NEW hm, NearOrNew(ms, aw, hm), DOMAIN hm \subseteq Identities(mon, away),
           NEW ns, IdsApart(ns), Stems(ns, ms)
    PROVE  NearHome(ns, aw, Homed(ns, aw, hm))
<1> DEFINE nw == Homed(ns, aw, hm)
<1>1. /\ \A id \in Identities(ns, aw) : id \in DOMAIN hm => nw[id] = hm[id]
      /\ \A o \in DOMAIN ns : \A x \in Range(ns[o].stack) : x.id \notin DOMAIN hm => nw[x.id] = o
  BY HomedIs
<1> HIDE DEF nw
<1>2. ASSUME NEW o \in DOMAIN ns, NEW y \in Range(ns[o].stack)
      PROVE  nw[y.id] = o \/ ParkedFor(aw, nw[y.id], o, y)
  <2>1. CASE y.id \notin DOMAIN hm
    BY <1>1, <2>1
  <2>2. CASE y.id \in DOMAIN hm
    <3>1. o \in DOMAIN ms /\ \E x \in Range(ms[o].stack) : x.key = y.key /\ x.id = y.id
      BY <2>2 DEF Stems
    <3>2. PICK x \in Range(ms[o].stack) : x.key = y.key /\ x.id = y.id
      BY <3>1
    <3>3. nw[y.id] = hm[y.id]
      BY <1>1, <2>2, IdentitiesOf
    <3>4. hm[y.id] = o \/ ParkedFor(aw, hm[y.id], o, x)
      BY <2>2, <3>1, <3>2 DEF NearOrNew
    <3>5. ParkedFor(aw, hm[y.id], o, x) => ParkedFor(aw, hm[y.id], o, y)
      BY <3>2 DEF ParkedFor
    <3> QED BY <3>3, <3>4, <3>5
  <2> QED BY <2>1, <2>2
<1>3. ASSUME NEW g \in DOMAIN aw, NEW y \in Range(aw[g].stack)
      PROVE  nw[y.id] = g
  BY <1>1, IdentitiesOf DEF NearOrNew
<1> QED BY <1>2, <1>3 DEF NearHome, nw

\* The upkeep of an output takes no window from its place, and brings new workspaces.
Follows(ns, ms, mini) == Goes(ns, ms, mini, mini, {})

LEMMA UpkeepFollows ==
    ASSUME NEW ms, NEW ns, NEW mini, Follows(ns, ms, mini), NEW aw, GoodAway(aw), NEW o, AInv
    PROVE  Follows(Maintained(ns, mini, aw, o), ms, mini)
BY AInvFacts, UpkeepGoes DEF Follows

LEMMA FollowsItself ==
    ASSUME NEW ms, GoodMon(ms), NEW mini
    PROVE  Follows(ms, ms, mini)
BY GoesNowhere DEF Follows

LEMMA FollowsFacts ==
    ASSUME NEW ms, NEW ns, NEW mini, Follows(ns, ms, mini)
    PROVE  /\ GoodMon(ns) /\ Stems(ns, ms) /\ DOMAIN ns = DOMAIN ms
           /\ \A w, id, o : Lives(ms, mini, w, id, o) => Lives(ns, mini, w, id, o)
BY DEF Follows, Goes, Stems, Remain

----------------------------------------------------------------------------
(* A workspace goes to another output. *)

\* bw has the records of aw, without what they said of id.
ForgetsOnly(bw, aw, id) ==
    /\ DOMAIN bw = DOMAIN aw
    /\ \A g \in DOMAIN aw :
        /\ bw[g].host = aw[g].host
        /\ \A y \in Range(bw[g].stack) : y \in Range(aw[g].stack) /\ y.id # id
        /\ \A y \in Range(aw[g].stack) : y.id # id => y \in Range(bw[g].stack)
        /\ \A p \in Range(aw[g].moved), y \in Range(aw[g].stack) :
            y.key = p[1] /\ y.id # id => p \in Range(bw[g].moved)

LEMMA RelocatedNear ==
    ASSUME HInv, NEW o1 \in DOMAIN mon, NEW o2 \in DOMAIN mon, NEW x \in Range(mon[o1].stack), NEW key,
           NEW ms, Relocated(ms, mon, o1, x, o2, key), NEW aw, ForgetsOnly(aw, away, x.id),
           NEW hm, hm = [home EXCEPT ![x.id] = o2]
    PROVE  NearOrNew(ms, aw, hm) /\ DOMAIN hm \subseteq Identities(mon, away)
<1>1. DOMAIN home = Identities(mon, away) /\ NearHome(mon, away, home) /\ IdsApart(mon)
  BY DEF HInv, AInv, IInv, HomesAreKnown, Apart
<1>2. DOMAIN hm = DOMAIN home /\ x.id \in DOMAIN home
  BY <1>1, IdentitiesOf
<1>3. hm[x.id] = o2 /\ \A id \in DOMAIN home : id # x.id => hm[id] = home[id]
  BY <1>2
<1>4. PICK n : Range(ms[o2].stack) = Range(mon[o2].stack) \cup {n} /\ n.key = key /\ n.id = x.id
  BY DEF Relocated, HasToo
<1>5. /\ DOMAIN ms = DOMAIN mon /\ o1 # o2 /\ Range(ms[o1].stack) = Range(mon[o1].stack) \ {x}
      /\ \A o \in DOMAIN mon : o # o1 /\ o # o2 => ms[o] = mon[o]
  BY DEF Relocated
<1>6. ASSUME NEW o \in DOMAIN ms, NEW y \in Range(ms[o].stack), y.id \in DOMAIN hm
      PROVE  hm[y.id] = o \/ ParkedFor(aw, hm[y.id], o, y)
  <2>1. CASE y.id = x.id
    <3>1. o = o2
      <4>1. ASSUME y \in Range(mon[o].stack) PROVE o = o1 /\ y.key = x.key
        BY <1>1, <1>5, <2>1, <4>1 DEF IdsApart
      <4>2. GoodStack(mon[o1].stack)
        BY AInvFacts DEF HInv
      <4>3. y \in Range(mon[o].stack) => o = o1 /\ y = x
        BY <4>1, <4>2, StackFacts
      <4> QED BY <1>4, <1>5, <4>3
    <3> QED BY <1>3, <2>1, <3>1
  <2>2. CASE y.id # x.id
    <3>1. o \in DOMAIN mon /\ y \in Range(mon[o].stack)
      BY <1>4, <1>5, <2>2
    <3>2. hm[y.id] = home[y.id]
      BY <1>2, <1>3, <1>6, <2>2
    <3>3. home[y.id] = o \/ ParkedFor(away, home[y.id], o, y)
      BY <1>1, <3>1 DEF NearHome
    <3>4. ASSUME NEW g, ParkedFor(away, g, o, y) PROVE ParkedFor(aw, g, o, y)
      <4>1. g \in DOMAIN away /\ away[g].host = o
        BY <3>4 DEF ParkedFor
      <4>2. PICK p \in Range(away[g].moved) : \E z \in Range(away[g].stack) : p[2] = y.key /\ z.key = p[1] /\ z.id = y.id
        BY <3>4 DEF ParkedFor
      <4>3. PICK z \in Range(away[g].stack) : p[2] = y.key /\ z.key = p[1] /\ z.id = y.id
        BY <4>2
      <4>4. z \in Range(aw[g].stack) /\ p \in Range(aw[g].moved) /\ g \in DOMAIN aw /\ aw[g].host = o
        BY <2>2, <4>1, <4>3 DEF ForgetsOnly
      <4> QED BY <4>3, <4>4 DEF ParkedFor
    <3> QED BY <3>2, <3>3, <3>4
  <2> QED BY <2>1, <2>2
<1>7. ASSUME NEW g \in DOMAIN aw, NEW y \in Range(aw[g].stack)
      PROVE  y.id \in DOMAIN hm /\ hm[y.id] = g
  <2>1. g \in DOMAIN away /\ y \in Range(away[g].stack) /\ y.id # x.id
    BY DEF ForgetsOnly
  <2>2. y.id \in DOMAIN home /\ home[y.id] = g
    BY <1>1, <2>1, IdentitiesOf DEF NearHome
  <2> QED BY <1>2, <1>3, <2>1, <2>2
<1> QED BY <1>1, <1>2, <1>6, <1>7 DEF NearOrNew

\* The minimized windows of the workspace go along.
MiniRelocated(mini, mini0, o1, x, o2, key) ==
    /\ DOMAIN mini = DOMAIN mini0
    /\ \A w \in DOMAIN mini0 :
        /\ mini0[w] = [output |-> o1, key |-> x.key] => mini[w] = [output |-> o2, key |-> key]
        /\ mini0[w] # [output |-> o1, key |-> x.key] => mini[w] = mini0[w]

LEMMA RelocatedLives ==
    ASSUME NEW ls, GoodMon(ls), IdsApart(ls), NEW o1 \in DOMAIN ls, NEW o2 \in DOMAIN ls, NEW x \in Range(ls[o1].stack),
           NEW key, NEW ms, Relocated(ms, ls, o1, x, o2, key), NEW mini0, NEW mini,
           MiniRelocated(mini, mini0, o1, x, o2, key),
           NEW w, NEW id, NEW o, Lives(ls, mini0, w, id, o)
    PROVE  Lives(ms, mini, w, id, IF id = x.id THEN o2 ELSE o)
<1>1. PICK y \in Range(ls[o].stack) : o \in DOMAIN ls /\ y.id = id /\ Holding(mini0, w, o, y)
  BY DEF Lives
<1>2. PICK n : /\ Range(ms[o2].stack) = Range(ls[o2].stack) \cup {n}
               /\ n.key = key /\ n.id = x.id /\ n.wins = x.wins
  BY DEF Relocated, HasToo
<1>3. /\ DOMAIN ms = DOMAIN ls /\ o1 # o2 /\ Range(ms[o1].stack) = Range(ls[o1].stack) \ {x}
      /\ \A p \in DOMAIN ls : p # o1 /\ p # o2 => ms[p] = ls[p]
  BY DEF Relocated
<1>4. GoodStack(ls[o1].stack)
  BY DEF GoodMon, GoodOutput
<1>5. CASE id = x.id
  <2>1. o = o1 /\ y.key = x.key
    BY <1>1, <1>5 DEF IdsApart
  <2>2. y = x
    BY <1>1, <1>4, <2>1, StackFacts
  <2>3. Holding(mini, w, o2, n)
    BY <1>1, <1>2, <2>1, <2>2 DEF Holding, MiniRelocated
  <2> QED BY <1>2, <1>3, <1>5, <2>3 DEF Lives
<1>6. CASE id # x.id
  <2>1. y \in Range(ms[o].stack)
    BY <1>1, <1>2, <1>3, <1>6
  <2>2. o = o1 => y.key # x.key
    BY <1>1, <1>4, <1>6, StackFacts
  <2>3. [output |-> o, key |-> y.key] # [output |-> o1, key |-> x.key]
    BY <2>2
  <2>4. Holding(mini, w, o, y)
    BY <1>1, <2>3 DEF Holding, MiniRelocated
  <2> QED BY <1>1, <1>3, <1>6, <2>1, <2>4 DEF Lives
<1> QED BY <1>5, <1>6

LEMMA RelocationIs ==
    ASSUME HInv, AInv', managed' = managed, NEW o1 \in DOMAIN mon, NEW o2 \in DOMAIN mon,
           NEW x \in Range(mon[o1].stack), NEW key, NEW ms, Relocated(ms, mon, o1, x, o2, key),
           MiniRelocated(minimized', minimized, o1, x, o2, key), ForgetsOnly(away', away, x.id),
           Follows(mon', ms, minimized'), home' = Homed(mon', away', [home EXCEPT ![x.id] = o2])
    PROVE  HInv' /\ (H!Tidy \/ \E i \in H!Occupied : H!Take(i, o2))
<1> DEFINE hm == [home EXCEPT ![x.id] = o2]
           id0 == x.id
<1>1. AInv /\ GoodMon(mon) /\ IdsApart(mon) /\ IdsApart(mon') /\ DOMAIN home = Identities(mon, away)
  BY AInvFacts DEF HInv, AInv, Apart, IInv, HomesAreKnown
<1>2. NearOrNew(ms, away', hm) /\ DOMAIN hm \subseteq Identities(mon, away)
  BY RelocatedNear
<1>3. Stems(mon', ms) /\ DOMAIN mon' = DOMAIN ms /\ DOMAIN ms = DOMAIN mon
  BY FollowsFacts DEF Relocated
<1>4. DOMAIN hm = DOMAIN home /\ id0 \in DOMAIN home /\ hm[id0] = o2
      /\ \A id \in DOMAIN home : id # id0 => hm[id] = home[id]
  BY <1>1, IdentitiesOf
<1>5. home' = Homed(mon', away', hm)
  OBVIOUS
<1> HIDE DEF hm
<1>6. NearHome(mon', away', home')
  BY <1>1, <1>2, <1>3, <1>5, HomedNear
<1>7. HInv'
  BY <1>6 DEF HInv
<1>8. \A id \in Identities(mon', away') : id \in DOMAIN hm => home'[id] = hm[id]
  BY <1>1, <1>5, HomedIs
<1>9. ASSUME NEW w, NEW id, NEW o, Lives(mon, minimized, w, id, o)
      PROVE  Lives(mon', minimized', w, id, IF id = id0 THEN o2 ELSE o)
  <2>1. Lives(ms, minimized', w, id, IF id = id0 THEN o2 ELSE o)
    BY <1>1, <1>9, RelocatedLives
  <2> QED BY <2>1, FollowsFacts
<1>10. Inside' = Inside
  BY <1>1, <1>9, InsideSame
<1> HIDE DEF id0
<1>11. ASSUME NEW id \in H!Occupied
       PROVE  /\ id \in DOMAIN home /\ id \in DOMAIN home'
              /\ id = id0 => OutputOf(id)' = o2 /\ home'[id] = o2
              /\ id # id0 => OutputOf(id)' = OutputOf(id) /\ home'[id] = home[id]
  <2>1. PICK w, o : Lives(mon, minimized, w, id, o) /\ OutputOf(id) = o /\ id \in DOMAIN home
    BY <1>1, OccupiedLives
  <2> DEFINE q == IF id = id0 THEN o2 ELSE o
  <2>2. Lives(mon', minimized', w, id, q)
    BY <1>9, <2>1
  <2>3. (id = id0 => q = o2) /\ (id # id0 => q = o)
    OBVIOUS
  <2> HIDE DEF q
  <2>4. Sits(w, id, q)'
    BY <2>2, LivesWillSit DEF AllSit
  <2>5. OutputOf(id)' = q /\ id \in DOMAIN home'
    BY <2>4 DEF Sits
  <2>6. id \in Identities(mon', away')
    BY <2>2, IdentitiesOf DEF Lives
  <2>7. home'[id] = hm[id]
    BY <1>4, <1>8, <2>1, <2>6
  <2> QED BY <1>4, <2>1, <2>3, <2>5, <2>7
<1>12. DOMAIN mon' = DOMAIN mon
  BY <1>3
<1>13. CASE id0 \in H!Occupied
  <2>1. H!Take(id0, o2)
    BY <1>10, <1>11, <1>12, <1>13 DEF H!Take, H!Stay
  <2> QED BY <1>7, <1>13, <2>1
<1>14. CASE id0 \notin H!Occupied
  <2>1. H!Tidy
    BY <1>10, <1>11, <1>12, <1>14 DEF H!Tidy, H!Stay
  <2> QED BY <1>7, <2>1
<1> QED BY <1>13, <1>14

LEMMA MoveWorkspaceTakes ==
    ASSUME HInv, AInv', NEW o1 \in DOMAIN mon, NEW k1 \in Keys(mon[o1].stack), NEW o2 \in DOMAIN mon,
           MoveWorkspaceToMonitor(o1, k1, o2)
    PROVE  HInv' /\ (H!Tidy \/ \E i \in H!Occupied : H!Take(i, o2))
<1> DEFINE ws == At(mon[o1].stack, k1)
           i == PlaceOf(mon[o1].stack, k1)
           rest == RemoveAt(mon[o1].stack, i)
           next == IF mon[o1].active # k1 \/ rest = <<>> THEN mon[o1].active ELSE rest[Min({i, Len(rest)})].key
           m == mon[o2]
           trailing == Last(m.stack).name = NoName /\ Last(m.stack).wins = {}
           key == NextKey(m.stack)
           given == [m EXCEPT !.stack = Spliced(@, Len(@) + (IF trailing THEN 0 ELSE 1), <<[ws EXCEPT !.key = key]>>)]
           ms == [mon EXCEPT ![o1] = [stack |-> rest, active |-> next], ![o2] = given]
           mini == [w \in DOMAIN minimized |->
                      IF minimized[w] = [output |-> o1, key |-> k1] THEN [output |-> o2, key |-> key] ELSE minimized[w]]
           forgotten(g) == {x.key : x \in {y \in Range(away[g].stack) : y.id = ws.id}}
           stackOf(g) == Dropped(away[g].stack, {x \in Range(away[g].stack) : x.id = ws.id})
           movedOf(g) == Dropped(away[g].moved, {p \in Range(away[g].moved) : p[1] \in forgotten(g)})
           aw == [g \in DOMAIN away |-> [away[g] EXCEPT !.stack = stackOf(g), !.moved = movedOf(g)]]
           tidy1 == Maintained(ms, mini, aw, o1)
           tidy == Maintained(tidy1, mini, aw, o2)
           follow == focused = o1 /\ mon[o1].active = k1
           r == IF follow THEN Shown(tidy, mini, aw, o2, key) ELSE tidy
           hm == [home EXCEPT ![ws.id] = o2]
<1>1. /\ o1 # o2 /\ mon' = r /\ minimized' = mini /\ away' = aw /\ managed' = managed
      /\ home' = Homed(mon', aw, hm)
  BY DEF MoveWorkspaceToMonitor
<1>2. /\ AInv /\ GoodMon(mon) /\ GoodAway(away)
      /\ \A p \in DOMAIN mon : GoodOutput(mon[p]) /\ Shows(mon[p])
  BY AInvFacts DEF HInv, AInv, IInv, OutputsShow, GoodMon
<1>3. GoodStack(mon[o1].stack) /\ mon[o1].active \in Nat
  BY <1>2 DEF GoodOutput
<1>4. /\ GoodStack(rest) /\ Range(rest) = Range(mon[o1].stack) \ {ws}
      /\ rest # <<>> => rest[Min({i, Len(rest)})].key \in Nat
  <2> DEFINE s == mon[o1].stack
             j == PlaceOf(s, k1)
             left == RemoveAt(s, j)
  <2>1. GoodStack(s) /\ k1 \in Keys(s)
    BY <1>3
  <2> HIDE DEF s
  <2>2. /\ j \in 1 .. Len(s) /\ s[j] = At(s, k1)
        /\ GoodStack(left) /\ Range(left) = Range(s) \ {At(s, k1)}
        /\ \A h \in Keys(s) : h = k1 \/ h \in Keys(left)
        /\ left # <<>> => left[Min({j, Len(left)})].key \in Nat
    BY <2>1, TakenOff, Zenon
  <2>3. i = j /\ rest = left /\ ws = At(s, k1)
    BY DEF s
  <2> HIDE DEF i, j, rest, left, ws
  <2> QED BY <2>2, <2>3 DEF s
<1>5. next \in Nat
  BY <1>3, <1>4
<1>6. ws \in WorkspaceType /\ ws \in Range(mon[o1].stack) /\ ws.key = k1
  BY <1>3, StackFacts
<1> HIDE DEF ws, i, rest, next
<1>7. GoodOutput(given) /\ key \in Nat /\ HasToo(given, m, ws, key)
  <2>1. GoodOutput(m) /\ Shows(m)
    BY <1>2
  <2> HIDE DEF m
  <2> QED BY <1>6, <2>1, PutOn
<1> HIDE DEF given, key
<1>8. /\ DOMAIN ms = DOMAIN mon /\ ms = [p \in DOMAIN ms |-> ms[p]]
      /\ ms[o1] = [stack |-> rest, active |-> next] /\ ms[o2] = given
      /\ \A p \in DOMAIN mon : p # o1 /\ p # o2 => ms[p] = mon[p]
  <2>1. mon = [p \in DOMAIN mon |-> mon[p]]
    BY <1>2 DEF GoodMon
  <2> QED BY <1>1, <2>1
<1> HIDE DEF ms
<1>9. GoodMon(ms)
  <2>1. GoodOutput(ms[o1])
    BY <1>4, <1>5, <1>8 DEF GoodOutput
  <2>2. \A p \in DOMAIN ms : GoodOutput(ms[p])
    BY <1>2, <1>7, <1>8, <2>1
  <2> QED BY <1>2, <1>8, <2>2 DEF GoodMon
<1>10. Relocated(ms, mon, o1, ws, o2, key)
  <2>1. ms[o1].stack = rest
    BY <1>8
  <2> QED BY <1>1, <1>4, <1>7, <1>8, <2>1 DEF Relocated
<1>11. MiniRelocated(mini, minimized, o1, ws, o2, key)
  <2>1. DOMAIN mini = DOMAIN minimized
    OBVIOUS
  <2>2. \A w \in DOMAIN minimized :
            mini[w] = IF minimized[w] = [output |-> o1, key |-> k1] THEN [output |-> o2, key |-> key] ELSE minimized[w]
    OBVIOUS
  <2> HIDE DEF mini
  <2> QED BY <1>6, <2>1, <2>2 DEF MiniRelocated
<1> HIDE DEF mini
<1>12. GoodAway(aw)
  BY <1>1 DEF AInv, IInv, RecordsAreKept
<1>13. ASSUME NEW g \in DOMAIN away
       PROVE  /\ aw[g].host = away[g].host
              /\ Range(aw[g].stack) = Range(away[g].stack) \ {x \in Range(away[g].stack) : x.id = ws.id}
              /\ Range(aw[g].moved) = Range(away[g].moved) \ {p \in Range(away[g].moved) : p[1] \in forgotten(g)}
  <2>1. GoodRecord(away[g])
    BY <1>2 DEF GoodAway
  <2>2. Range(stackOf(g)) = Range(away[g].stack) \ {x \in Range(away[g].stack) : x.id = ws.id}
    <3> DEFINE S == {x \in Range(away[g].stack) : x.id = ws.id}
    <3>1. stackOf(g) = Dropped(away[g].stack, S)
      OBVIOUS
    <3> HIDE DEF S, stackOf
    <3>2. Range(stackOf(g)) = Range(away[g].stack) \ S
      BY <2>1, <3>1, DropStack DEF GoodRecord
    <3> QED BY <3>2 DEF S
  <2>3. Range(movedOf(g)) = Range(away[g].moved) \ {p \in Range(away[g].moved) : p[1] \in forgotten(g)}
    <3> DEFINE S == {p \in Range(away[g].moved) : p[1] \in forgotten(g)}
    <3>1. movedOf(g) = Dropped(away[g].moved, S)
      OBVIOUS
    <3> HIDE DEF S, movedOf
    <3>2. away[g].moved \in Seq(Nat \X Nat)
      BY <2>1 DEF GoodRecord
    <3>3. movedOf(g) \in Seq(Nat \X Nat) /\ ToSet(movedOf(g)) = ToSet(away[g].moved) \ S
      BY <3>1, <3>2, DroppedSet
    <3>4. Range(away[g].moved) = ToSet(away[g].moved) /\ Range(movedOf(g)) = ToSet(movedOf(g))
      BY <3>2, <3>3, RangeOf
    <3>5. Range(movedOf(g)) = Range(away[g].moved) \ S
      BY <3>3, <3>4
    <3> QED BY <3>5 DEF S
  <2>4. aw[g] = [away[g] EXCEPT !.stack = stackOf(g), !.moved = movedOf(g)]
    OBVIOUS
  <2> HIDE DEF aw, stackOf, movedOf, forgotten
  <2>5. away[g] = [stack |-> away[g].stack, active |-> away[g].active, host |-> away[g].host,
                   moved |-> away[g].moved, minimized |-> away[g].minimized]
    BY <2>1 DEF GoodRecord
  <2>6. aw[g] = [stack |-> stackOf(g), active |-> away[g].active, host |-> away[g].host,
                 moved |-> movedOf(g), minimized |-> away[g].minimized]
    BY <2>4, <2>5
  <2> QED BY <2>2, <2>3, <2>6
<1>14. DOMAIN aw = DOMAIN away
  OBVIOUS
<1> HIDE DEF aw
<1>15. ForgetsOnly(aw, away, ws.id)
  <2>1. ASSUME NEW g \in DOMAIN away, NEW p \in Range(away[g].moved), NEW y \in Range(away[g].stack),
               y.key = p[1], y.id # ws.id
        PROVE  p \in Range(aw[g].moved)
    <3>1. GoodStack(away[g].stack)
      BY <1>2 DEF GoodAway, GoodRecord
    <3>2. p[1] \notin forgotten(g)
      BY <2>1, <3>1, StackFacts
    <3> HIDE DEF forgotten
    <3> QED BY <1>13, <3>2
  <2>2. ASSUME NEW g \in DOMAIN away
        PROVE  /\ \A y \in Range(aw[g].stack) : y \in Range(away[g].stack) /\ y.id # ws.id
               /\ \A y \in Range(away[g].stack) : y.id # ws.id => y \in Range(aw[g].stack)
    BY <1>13
  <2> QED BY <1>13, <1>14, <2>1, <2>2 DEF ForgetsOnly
<1>16. Follows(tidy1, ms, mini)
  BY <1>2, <1>9, <1>12, FollowsItself, UpkeepFollows
<1> HIDE DEF tidy1
<1>17. Follows(tidy, ms, mini)
  BY <1>2, <1>12, <1>16, UpkeepFollows
<1> HIDE DEF tidy
<1>18. Follows(Shown(tidy, mini, aw, o2, key), ms, mini)
  <2> DEFINE ns == Showing(tidy, o2, key)
  <2>1. GoodMon(tidy) /\ o2 \in DOMAIN tidy
    BY <1>8, <1>17, FollowsFacts
  <2>2. Reshaped(ns, tidy, {}) /\ KeepsMini(mini, mini, {})
    BY <1>7, <2>1, ShowingIs DEF KeepsMini
  <2>3. Shown(tidy, mini, aw, o2, key) = Maintained(ns, mini, aw, o2)
    BY DEF Shown, Showing
  <2> HIDE DEF ns
  <2>4. Follows(ns, ms, mini)
    BY <1>9, <1>17, <2>2, ReshapedGoes DEF Follows
  <2> QED BY <1>2, <1>12, <2>3, <2>4, UpkeepFollows
<1>19. Follows(r, ms, mini)
  BY <1>17, <1>18
<1> HIDE DEF r, key
<1>20. home' = Homed(mon', away', [home EXCEPT ![ws.id] = o2])
  BY <1>1
<1>21. /\ MiniRelocated(minimized', minimized, o1, ws, o2, key) /\ ForgetsOnly(away', away, ws.id)
       /\ Follows(mon', ms, minimized') /\ managed' = managed
  BY <1>1, <1>11, <1>15, <1>19
<1> QED BY <1>6, <1>10, <1>20, <1>21, RelocationIs

----------------------------------------------------------------------------
(* An output goes. *)

\* What o had in ms, with its windows, is on the host in ns.
ParksAll(ns, mini2, ms, mini, o, host, moved) ==
    /\ DOMAIN ns = DOMAIN ms \ {o} /\ host \in DOMAIN ns
    /\ \A p \in DOMAIN ns : p # host => ns[p] = ms[p]
    /\ Range(ms[host].stack) \subseteq Range(ns[host].stack)
    /\ \A y \in Range(ns[host].stack) :
        \/ y \in Range(ms[host].stack)
        \/ \E x \in Range(ms[o].stack) : x.id = y.id /\ <<x.key, y.key>> \in Range(moved)
    /\ \A x \in Range(ms[o].stack) : \A w :
        Holding(mini, w, o, x) => \E y \in Range(ns[host].stack) : y.id = x.id /\ Holding(mini2, w, host, y)
    /\ \A w \in DOMAIN mini : mini[w].output # o => w \in DOMAIN mini2 /\ mini2[w] = mini[w]

LEMMA RekeyedHas ==
    ASSUME NEW s, GoodStack(s), NEW next \in Nat, NEW x \in Range(s)
    PROVE  \E y \in Range(Rekeyed(s, next)) :
                y.id = x.id /\ y.wins = x.wins /\ <<x.key, y.key>> \in Range(Moved(s, next))
<1> DEFINE t == Rekeyed(s, next)
           m == Moved(s, next)
<1>1. s \in Seq(WorkspaceType) /\ DOMAIN s = 1 .. Len(s) /\ Len(s) \in Nat
  BY DEF GoodStack
<1>2. PICK i \in 1 .. Len(s) : x = s[i]
  BY <1>1 DEF Range
<1>3. s[i] = [key |-> s[i].key, id |-> s[i].id, name |-> s[i].name, wins |-> s[i].wins]
  BY <1>1, Fields
<1>4. t[i] = [s[i] EXCEPT !.key = next + i - 1]
  BY <1>1 DEF Rekeyed
<1>5. t[i] = [key |-> next + i - 1, id |-> s[i].id, name |-> s[i].name, wins |-> s[i].wins]
  BY <1>3, <1>4
<1>6. m[i] = <<s[i].key, next + i - 1>>
  BY <1>1 DEF Moved
<1>7. DOMAIN t = 1 .. Len(s) /\ DOMAIN m = 1 .. Len(s)
  BY <1>1 DEF Rekeyed, Moved
<1> HIDE DEF t, m
<1>8. t[i] \in Range(t) /\ m[i] \in Range(m)
  BY <1>7 DEF Range
<1>9. t[i].key = next + i - 1 /\ t[i].id = x.id /\ t[i].wins = x.wins
  BY <1>2, <1>5
<1>10. m[i] = <<x.key, t[i].key>>
  BY <1>2, <1>6, <1>9
<1> QED BY <1>8, <1>9, <1>10 DEF t, m

\* A minimized window goes to its workspace, under the new key.
LEMMA RehomedTo ==
    ASSUME NEW mini, NEW o, NEW host, NEW moved, NEW shown, NEW w \in DOMAIN mini, NEW k, NEW k2,
           \A p, q \in Range(moved) : p[1] = q[1] \/ p[2] = q[2] => p = q,
           mini[w] = [output |-> o, key |-> k], <<k, k2>> \in Range(moved)
    PROVE  /\ w \in DOMAIN Rehomed(mini, o, moved, host, shown)
           /\ Rehomed(mini, o, moved, host, shown)[w] = [output |-> host, key |-> k2]
<1> DEFINE to == {p[2] : p \in {q \in Range(moved) : q[1] = mini[w].key}}
           r == Rehomed(mini, o, moved, host, shown)
<1>1. mini[w].output = o /\ mini[w].key = k
  OBVIOUS
<1>2. to = {k2}
  <2>1. \A p \in Range(moved) : p[1] = k => p = <<k, k2>>
    OBVIOUS
  <2> QED BY <1>1, <2>1
<1>3. DOMAIN r = DOMAIN mini
      /\ r[w] = IF mini[w].output # o THEN mini[w]
                ELSE [output |-> host, key |-> IF to # {} THEN CHOOSE c \in to : TRUE ELSE shown]
  BY DEF Rehomed
<1> HIDE DEF to, r
<1>4. to # {} /\ (CHOOSE c \in to : TRUE) = k2
  BY <1>2
<1> QED BY <1>1, <1>3, <1>4 DEF r

LEMMA ParkedAll ==
    ASSUME NEW ms, GoodMon(ms), NEW o \in DOMAIN ms, NEW host \in DOMAIN ms, host # o, NEW mini,
           NEW rest, rest = Restrict(ms, DOMAIN ms \ {o})
    PROVE  LET r == Parked(rest, mini, o, ms[o].stack, host) IN
           ParksAll(r.mon, r.minimized, ms, mini, o, host, r.moved)
<1> DEFINE s == ms[o].stack
           m == rest[host]
           carried == Carried(s, mini, o)
           next == NextKey(m.stack)
           block == Rekeyed(carried, next)
           moved == Moved(carried, next)
           hosting == Hosting(m.stack, Occupied(mini, host), block)
           ns == [rest EXCEPT ![host].stack = hosting]
           mini2 == Rehomed(mini, o, moved, host, m.active)
           left == {w \in DOMAIN mini : mini[w].output = o /\ mini[w].key \in {p[1] : p \in Range(moved)}}
           r == Parked(rest, mini, o, s, host)
<1>1. r = [mon |-> ns, moved |-> moved, left |-> left, minimized |-> mini2]
  BY DEF Parked
<1>1a. r.mon = ns /\ r.moved = moved /\ r.minimized = mini2
  <2> HIDE DEF r, ns, moved, left, mini2
  <2> QED BY <1>1
<1> HIDE DEF r, left
<1>2. \A w \in DOMAIN mini : mini[w].output # o => w \in DOMAIN mini2 /\ mini2[w] = mini[w]
  BY DEF Rehomed
<1>3. /\ GoodMon(rest) /\ DOMAIN rest = DOMAIN ms \ {o} /\ \A p \in DOMAIN rest : rest[p] = ms[p]
  BY OutputRemoved
<1>4. GoodStack(s) /\ GoodOutput(m) /\ GoodStack(m.stack) /\ m = ms[host]
  BY <1>3 DEF GoodMon, GoodOutput
<1>5. /\ GoodStack(carried) /\ Range(carried) \subseteq Range(s)
      /\ \A x \in Range(s) : HasContent(x, Occupied(mini, o)) => x \in Range(carried)
  <2> DEFINE S == {x \in Range(s) : ~HasContent(x, Occupied(mini, o))}
  <2>1. carried = Dropped(s, S)
    BY DEF Carried
  <2>2. GoodStack(carried) /\ Range(carried) = Range(s) \ S
    <3> HIDE DEF S, carried, s
    <3> QED BY <1>4, <2>1, DropStack
  <2> HIDE DEF carried, s
  <2> QED BY <2>2
<1>6. next \in Nat /\ \A k \in Keys(m.stack) : k < next
  BY <1>4, NextKeyIsFree
<1> HIDE DEF carried, next
<1>7. Rekeying(block, moved, carried)
  BY <1>5, <1>6, RekeyedFrom
<1>7a. \A x \in Range(carried) : \E y \in Range(block) :
            y.id = x.id /\ y.wins = x.wins /\ <<x.key, y.key>> \in Range(moved)
  BY <1>5, <1>6, RekeyedHas
<1>8. GoodStack(block) /\ \A k \in Keys(block) : next <= k
  BY <1>5, <1>6, RekeyedStack
<1> HIDE DEF block, moved
<1>9. Keys(m.stack) \cap Keys(block) = {}
  <2>1. Keys(m.stack) \subseteq Nat /\ Keys(block) \subseteq Nat
    BY <1>4, <1>8, CountKeys
  <2>2. \A k \in Nat : ~(k < next /\ next <= k)
    BY <1>6
  <2> QED BY <1>6, <1>8, <2>1, <2>2
<1>10. Range(hosting) = Range(m.stack) \cup Range(block)
  BY <1>4, <1>8, <1>9, HostingStack, SMTT(30)
<1> HIDE DEF hosting
<1>11. /\ DOMAIN ns = DOMAIN rest
       /\ ns[host].stack = hosting
       /\ \A p \in DOMAIN rest : p # host => ns[p] = rest[p]
  <2>1. rest[host] = [stack |-> m.stack, active |-> m.active] /\ rest = [p \in DOMAIN rest |-> rest[p]]
    BY <1>3, <1>4 DEF GoodOutput, GoodMon
  <2>2. host \in DOMAIN rest
    BY <1>3
  <2> QED BY <2>1, <2>2
<1> HIDE DEF ns
<1>12. Range(ns[host].stack) = Range(ms[host].stack) \cup Range(block)
  BY <1>4, <1>10, <1>11
<1>13. DOMAIN ns = DOMAIN ms \ {o} /\ host \in DOMAIN ns /\ \A p \in DOMAIN ns : p # host => ns[p] = ms[p]
  BY <1>3, <1>11
<1>14. ASSUME NEW y \in Range(ns[host].stack)
       PROVE  \/ y \in Range(ms[host].stack)
              \/ \E x \in Range(ms[o].stack) : x.id = y.id /\ <<x.key, y.key>> \in Range(moved)
  BY <1>5, <1>7, <1>12 DEF Rekeying
<1>15. ASSUME NEW x \in Range(ms[o].stack), NEW w, Holding(mini, w, o, x)
       PROVE  \E y \in Range(ns[host].stack) : y.id = x.id /\ Holding(mini2, w, host, y)
  <2>1. HasContent(x, Occupied(mini, o))
    BY <1>15 DEF Holding, HasContent, Occupied
  <2>2. x \in Range(carried)
    BY <1>5, <2>1
  <2>3. PICK y \in Range(block) : y.id = x.id /\ y.wins = x.wins /\ <<x.key, y.key>> \in Range(moved)
    BY <1>7a, <2>2
  <2>4. CASE w \in x.wins
    BY <1>12, <2>3, <2>4 DEF Holding
  <2>5. CASE w \in DOMAIN mini /\ mini[w] = [output |-> o, key |-> x.key]
    <3>1. \A p, q \in Range(moved) : p[1] = q[1] \/ p[2] = q[2] => p = q
      BY <1>7 DEF Rekeying
    <3>2. w \in DOMAIN mini2 /\ mini2[w] = [output |-> host, key |-> y.key]
      <4> DEFINE k == x.key
                 k2 == y.key
      <4>1. mini[w] = [output |-> o, key |-> k] /\ <<k, k2>> \in Range(moved) /\ w \in DOMAIN mini
        BY <2>3, <2>5
      <4> HIDE DEF k, k2
      <4>2. /\ w \in DOMAIN Rehomed(mini, o, moved, host, m.active)
            /\ Rehomed(mini, o, moved, host, m.active)[w] = [output |-> host, key |-> k2]
        BY <3>1, <4>1, RehomedTo
      <4> QED BY <4>2 DEF k2
    <3> QED BY <1>12, <2>3, <3>2 DEF Holding
  <2> QED BY <1>15, <2>4, <2>5 DEF Holding
<1> HIDE DEF mini2
<1>16. ParksAll(ns, mini2, ms, mini, o, host, moved)
  BY <1>2, <1>12, <1>13, <1>14, <1>15 DEF ParksAll
<1> QED BY <1>1a, <1>16 DEF r

LEMMA ParkedLives ==
    ASSUME NEW ms, NEW ns, NEW mini, NEW mini2, NEW o, NEW host, NEW moved,
           ParksAll(ns, mini2, ms, mini, o, host, moved), NEW w, NEW id, NEW p, Lives(ms, mini, w, id, p)
    PROVE  Lives(ns, mini2, w, id, IF p = o THEN host ELSE p)
<1>1. PICK x \in Range(ms[p].stack) : p \in DOMAIN ms /\ x.id = id /\ Holding(mini, w, p, x)
  BY DEF Lives
<1>2. CASE p = o
  BY <1>1, <1>2 DEF ParksAll, Lives
<1>3. CASE p # o
  <2>1. p \in DOMAIN ns /\ x \in Range(ns[p].stack)
    BY <1>1, <1>3 DEF ParksAll
  <2>2. Holding(mini2, w, p, x)
    BY <1>1, <1>3 DEF ParksAll, Holding
  <2> QED BY <1>1, <1>3, <2>1, <2>2 DEF Lives
<1> QED BY <1>2, <1>3

LEMMA ParkedNear ==
    ASSUME HInv, DOMAIN away = {}, NEW o \in DOMAIN mon, NEW host, NEW ms, NEW mini, NEW moved,
           ParksAll(ms, mini, mon, minimized, o, host, moved),
           NEW aw, RecordOf(aw, o, mon[o].stack, host, moved)
    PROVE  NearOrNew(ms, aw, home) /\ DOMAIN home = Identities(mon, away)
<1>1. DOMAIN home = Identities(mon, away) /\ NearHome(mon, away, home)
  BY DEF HInv, AInv, IInv, HomesAreKnown
<1>2. \A p \in DOMAIN mon : \A x \in Range(mon[p].stack) : x.id \in DOMAIN home /\ home[x.id] = p
  BY <1>1, IdentitiesOf DEF NearHome, ParkedFor
<1>3. ASSUME NEW p \in DOMAIN ms, NEW y \in Range(ms[p].stack)
      PROVE  home[y.id] = p \/ ParkedFor(aw, home[y.id], p, y)
  <2>1. CASE p \in DOMAIN mon /\ y \in Range(mon[p].stack)
    BY <1>2, <2>1
  <2>2. CASE p = host /\ \E x \in Range(mon[o].stack) : x.id = y.id /\ <<x.key, y.key>> \in Range(moved)
    <3>1. PICK x \in Range(mon[o].stack) : x.id = y.id /\ <<x.key, y.key>> \in Range(moved)
      BY <2>2
    <3>2. home[y.id] = o
      BY <1>2, <3>1
    <3>3. o \in DOMAIN aw /\ aw[o].host = p /\ <<x.key, y.key>> \in Range(aw[o].moved) /\ x \in Range(aw[o].stack)
      BY <2>2, <3>1 DEF RecordOf
    <3>4. ParkedFor(aw, o, p, y)
      <4> DEFINE q == <<x.key, y.key>>
      <4>1. q[1] = x.key /\ q[2] = y.key /\ q \in Range(aw[o].moved)
        BY <3>3
      <4> HIDE DEF q
      <4> QED BY <3>1, <3>3, <4>1 DEF ParkedFor
    <3> QED BY <3>2, <3>4
  <2> QED BY <2>1, <2>2 DEF ParksAll
<1>4. ASSUME NEW g \in DOMAIN aw, NEW y \in Range(aw[g].stack)
      PROVE  y.id \in DOMAIN home /\ home[y.id] = g
  BY <1>2 DEF RecordOf
<1> QED BY <1>1, <1>3, <1>4 DEF NearOrNew

LEMMA UnplugIs ==
    ASSUME HInv, AInv', managed' = managed, DOMAIN away = {}, NEW o \in DOMAIN mon, NEW host, NEW ms, NEW moved,
           GoodMon(ms), ParksAll(ms, minimized', mon, minimized, o, host, moved),
           RecordOf(away', o, mon[o].stack, host, moved),
           Follows(mon', ms, minimized'), home' = Homed(mon', away', home)
    PROVE  HInv' /\ H!Unplug(o, host)
<1>1. AInv /\ IdsApart(mon')
  BY DEF HInv, AInv, Apart
<1>2. NearOrNew(ms, away', home) /\ DOMAIN home = Identities(mon, away)
  BY ParkedNear
<1>3. Stems(mon', ms) /\ DOMAIN mon' = DOMAIN ms /\ DOMAIN ms = DOMAIN mon \ {o} /\ host \in DOMAIN ms
  BY FollowsFacts DEF ParksAll
<1>4. NearHome(mon', away', home')
  BY <1>1, <1>2, <1>3, HomedNear
<1>5. HInv'
  BY <1>4 DEF HInv
<1>6. \A id \in Identities(mon', away') : id \in DOMAIN home => home'[id] = home[id]
  BY <1>1, HomedIs
<1>7. ASSUME NEW w, NEW id, NEW p, Lives(mon, minimized, w, id, p)
      PROVE  Lives(mon', minimized', w, id, IF p = o THEN host ELSE p)
  <2>1. Lives(ms, minimized', w, id, IF p = o THEN host ELSE p)
    BY <1>7, ParkedLives
  <2> QED BY <2>1, FollowsFacts
<1>8. Inside' = Inside
  BY <1>1, <1>7, InsideSame
<1>9. ASSUME NEW id \in H!Occupied
      PROVE  /\ id \in DOMAIN home /\ id \in DOMAIN home' /\ home'[id] = home[id]
             /\ OutputOf(id)' = IF OutputOf(id) = o THEN host ELSE OutputOf(id)
  <2>1. PICK w, p : Lives(mon, minimized, w, id, p) /\ OutputOf(id) = p /\ id \in DOMAIN home
    BY <1>1, OccupiedLives
  <2> DEFINE q == IF p = o THEN host ELSE p
  <2>2. Lives(mon', minimized', w, id, q)
    BY <1>7, <2>1
  <2> HIDE DEF q
  <2>3. Sits(w, id, q)'
    BY <2>2, LivesWillSit DEF AllSit
  <2>4. OutputOf(id)' = q /\ id \in DOMAIN home'
    BY <2>3 DEF Sits
  <2>5. id \in Identities(mon', away')
    BY <2>2, IdentitiesOf DEF Lives
  <2>6. q = IF OutputOf(id) = o THEN host ELSE OutputOf(id)
    BY <2>1 DEF q
  <2> QED BY <1>6, <2>1, <2>4, <2>5, <2>6
<1> QED BY <1>3, <1>5, <1>8, <1>9 DEF H!Unplug

LEMMA UnregisterUnplugs ==
    ASSUME OneAway, HInv, AInv', NEW o, Unregister(o)
    PROVE  HInv' /\ o \in Outputs /\ \E host \in Outputs : H!Unplug(o, host)
<1> DEFINE ms == Restrict(mon, DOMAIN mon \ {o})
           host == NextHost(o)
           stack == mon[o].stack
           parked == Parked(ms, minimized, o, stack, host)
           r == [stack |-> stack, active |-> mon[o].active, host |-> host, moved |-> parked.moved,
                 minimized |-> parked.left]
           kept == With(away, o, r)
           tidy == Maintained(parked.mon, parked.minimized, kept, host)
           bound == Rebound(tidy, away, parked.minimized, o, host)
           aw == With(bound.away, o, r)
<1>1. o \in DOMAIN mon /\ DOMAIN mon # {o} /\ AInv
  BY DEF Unregister, OneAway, HInv
<1>2. DOMAIN away = {}
  BY <1>1, NoneAway
<1>3. NextHost(o) # NoOutput /\ NextHost(o) \in DOMAIN mon \ {o}
  <2>1. DOMAIN mon \ {o} # {}
    BY <1>1
  <2> QED BY <1>1, <2>1, OrderWithout DEF AInv
<1>4. /\ mon' = tidy /\ away' = aw /\ minimized' = bound.minimized /\ managed' = managed
      /\ home' = Homed(mon', away', home)
  BY <1>3 DEF Unregister, NextHost
<1>5. /\ GoodMon(mon) /\ (\A p \in DOMAIN mon : Shows(mon[p])) /\ GoodMini(minimized)
      /\ HomesIn(mon, minimized, NoOutput) /\ GoodAway(away)
  BY <1>1, AInvFacts DEF AInv, IInv, OutputsShow, MinimizedAreManaged, MinimizedWait
<1>6. GoodMon(ms) /\ DOMAIN ms = DOMAIN mon \ {o} /\ \A p \in DOMAIN ms : ms[p] = mon[p]
  BY <1>5, OutputRemoved
<1>7. host \in DOMAIN mon /\ host # o /\ host \in DOMAIN ms
  BY <1>3, <1>6
<1> HIDE DEF host
<1>8. ParksAll(parked.mon, parked.minimized, mon, minimized, o, host, parked.moved)
  <2>1. ms = Restrict(mon, DOMAIN mon \ {o})
    OBVIOUS
  <2> HIDE DEF ms
  <2>2. LET q == Parked(ms, minimized, o, mon[o].stack, host) IN
        ParksAll(q.mon, q.minimized, mon, minimized, o, host, q.moved)
    BY <1>1, <1>5, <1>7, <2>1, ParkedAll
  <2> QED BY <2>2
<1>9. GoodStack(stack) /\ mon[o].active \in Keys(stack) /\ o \in Outputs
  BY <1>1, StacksAreGood DEF AInv
<1>10. HomesIn(ms, minimized, o) /\ Shows(ms[host])
  BY <1>5, <1>6, <1>7, OutputsAssumption DEF HomesIn, HasHome, GoodMini
<1> HIDE DEF ms
<1>11. GoodMon(parked.mon) /\ parked.moved \in Seq(Nat \X Nat) /\ GoodMini(parked.minimized)
  <2> HIDE DEF stack
  <2>1. LET q == Parked(ms, minimized, o, stack, host) IN
        /\ GoodMon(q.mon) /\ DOMAIN q.mon = DOMAIN ms
        /\ \A p \in DOMAIN ms \ {host} : q.mon[p] = ms[p]
        /\ Shows(q.mon[host])
        /\ q.moved \in Seq(Nat \X Nat)
        /\ GoodMini(q.minimized) /\ DOMAIN q.minimized = DOMAIN minimized
        /\ HomesIn(q.mon, q.minimized, NoOutput)
    BY <1>5, <1>6, <1>7, <1>9, <1>10, ParkedKeeps
  <2> QED BY <2>1
<1> HIDE DEF parked
<1>12. bound.away = [g \in DOMAIN away |-> bound.away[g]] /\ bound.minimized = parked.minimized
  <2> DEFINE mini == parked.minimized
             followers == {g \in DOMAIN away \ {o} : away[g].host = o}
             remap(w) == {q \in UNION {Remap(away[g], tidy[host].stack) :
                                            g \in {f \in followers : w \in away[f].minimized}} :
                             mini[w].output = host /\ q[1] = mini[w].key}
  <2>1. bound.away = [g \in DOMAIN away |-> bound.away[g]]
    BY <1>2 DEF Rebound
  <2>2. bound.minimized = [w \in DOMAIN mini |->
            IF remap(w) = {} THEN mini[w] ELSE [mini[w] EXCEPT !.key = (CHOOSE q \in remap(w) : TRUE)[2]]]
    BY DEF Rebound
  <2>3. \A w : remap(w) = {}
    BY <1>2
  <2> HIDE DEF remap, bound
  <2>4. mini = [w \in DOMAIN mini |-> mini[w]]
    BY <1>11 DEF GoodMini
  <2> HIDE DEF mini
  <2>5. bound.minimized = mini
    BY <2>2, <2>3, <2>4
  <2> QED BY <2>1, <2>5 DEF mini
<1> HIDE DEF bound
<1>13. DOMAIN bound.away = {}
  BY <1>2, <1>12
<1>14. GoodRecord(r) /\ r.stack = stack /\ r.host = host /\ r.moved = parked.moved
  <2>1. host \in Outputs
    BY <1>5, <1>7 DEF GoodMon
  <2> QED BY <1>9, <1>11, <2>1 DEF GoodRecord
<1> HIDE DEF r, stack
<1>15. GoodAway(kept) /\ DOMAIN kept = {o} /\ kept[o] = r
  <2>1. GoodAway(away) /\ GoodRecord(r) /\ o \in Outputs
    BY <1>5, <1>9, <1>14
  <2>2. GoodAway(With(away, o, r)) /\ DOMAIN With(away, o, r) = DOMAIN away \cup {o} /\ With(away, o, r)[o] = r
    BY <2>1, RecordAdded
  <2>3. GoodAway(kept) /\ DOMAIN kept = DOMAIN away \cup {o} /\ kept[o] = r
    BY <2>2
  <2> HIDE DEF kept
  <2> QED BY <1>2, <2>3
<1>16. aw = kept
  BY <1>2, <1>13 DEF With
<1> HIDE DEF kept, aw
<1>17. RecordOf(kept, o, stack, host, parked.moved)
  BY <1>14, <1>15 DEF RecordOf
<1>18. Follows(tidy, parked.mon, parked.minimized)
  <2> DEFINE pm == parked.mon
             pw == parked.minimized
  <2>1. GoodMon(pm)
    BY <1>11
  <2> HIDE DEF pm, pw
  <2>2. Follows(Maintained(pm, pw, kept, host), pm, pw)
    BY <1>1, <1>15, <2>1, FollowsItself, UpkeepFollows
  <2> QED BY <2>2 DEF pm, pw
<1> HIDE DEF tidy
<1>19. HInv' /\ H!Unplug(o, host)
  <2> DEFINE pm == parked.mon
             pv == parked.moved
  <2>1. /\ minimized' = parked.minimized /\ mon' = tidy /\ away' = kept
        /\ managed' = managed /\ home' = Homed(mon', away', home)
    BY <1>4, <1>12, <1>16
  <2>2. GoodMon(pm) /\ ParksAll(pm, minimized', mon, minimized, o, host, pv)
    BY <1>8, <1>11, <2>1
  <2>3. RecordOf(away', o, mon[o].stack, host, pv) /\ Follows(mon', pm, minimized')
    BY <1>17, <1>18, <2>1 DEF stack
  <2> HIDE DEF pm, pv
  <2> QED BY <1>1, <1>2, <2>1, <2>2, <2>3, UnplugIs
<1>20. host \in Outputs
  BY <1>5, <1>7 DEF GoodMon
<1> QED BY <1>9, <1>19, <1>20

----------------------------------------------------------------------------
(* An output comes back, and has what is its own. *)

LEMMA PairsHave ==
    ASSUME NEW r, GoodRecord(r), NEW p \in Range(r.moved), p[1] \in Keys(r.stack)
    PROVE  p \in Range(Pairs(r))
<1> DEFINE lost == {q \in Range(r.moved) : q[1] \notin Keys(r.stack)}
           f == Pairs(r)
<1>1. r.moved \in Seq(Nat \X Nat)
  BY DEF GoodRecord
<1>2. f = Dropped(r.moved, lost)
  BY DEF Pairs
<1>3. p \notin lost
  OBVIOUS
<1> HIDE DEF lost, f
<1>4. f \in Seq(Nat \X Nat) /\ ToSet(f) = ToSet(r.moved) \ lost
  BY <1>1, <1>2, DroppedSet
<1>5. p \in Range(f)
  BY <1>1, <1>3, <1>4, RangeOf
<1> QED BY <1>5 DEF f

LEMMA HomeAgainIs ==
    ASSUME NEW mini, NEW kept, GoodRecord(kept), RecordSound(kept), NEW o, NEW w \in DOMAIN mini
    PROVE  /\ w \in DOMAIN HomeAgain(mini, kept, o)
           /\ \A q \in Range(Pairs(kept)) : mini[w] = [output |-> kept.host, key |-> q[2]] =>
                HomeAgain(mini, kept, o)[w] = [output |-> o, key |-> q[1]]
           /\ (\A q \in Range(Pairs(kept)) : mini[w] # [output |-> kept.host, key |-> q[2]]) =>
                HomeAgain(mini, kept, o)[w] = mini[w]
<1> DEFINE returns == {p \in Range(Pairs(kept)) : mini[w] = [output |-> kept.host, key |-> p[2]]}
           again == HomeAgain(mini, kept, o)
<1>1. w \in DOMAIN again /\ again[w] = IF returns = {} THEN mini[w]
                                        ELSE [output |-> o, key |-> (CHOOSE p \in returns : TRUE)[1]]
  BY DEF HomeAgain
<1> HIDE DEF again
<1>2. ASSUME NEW q \in Range(Pairs(kept)), mini[w] = [output |-> kept.host, key |-> q[2]]
      PROVE  again[w] = [output |-> o, key |-> q[1]]
  <2> DEFINE c == CHOOSE p \in returns : TRUE
  <2>1. q \in returns
    BY <1>2
  <2>2. c \in returns
    BY <2>1
  <2>3. c \in Range(Pairs(kept)) /\ mini[w] = [output |-> kept.host, key |-> c[2]]
    BY <2>2
  <2>4. again[w] = [output |-> o, key |-> c[1]]
    BY <1>1, <2>1
  <2> HIDE DEF c, returns
  <2>5. c[2] = q[2]
    BY <1>2, <2>3
  <2>6. c \in Range(kept.moved) /\ q \in Range(kept.moved)
    BY <2>3, PairsOf
  <2>7. c = q
    BY <2>5, <2>6 DEF RecordSound
  <2> QED BY <2>4, <2>7
<1> QED BY <1>1, <1>2 DEF again

\* No window is in the workspace i.
Vacant(i) == \A v, q : ~Lives(mon, minimized, v, i, q)

\* w stays in its workspace, which is at home if its home is o, or o takes it along.
Brings(ms, mini, w, id, p, o) ==
    \/ Lives(ms, mini, w, id, IF home[id] = o THEN o ELSE p)
    \/ ~ParkedKeysAreTheirs /\ \E i \in DOMAIN home : home[i] = o /\ Vacant(i) /\ Lives(ms, mini, w, i, o)

\* ms has the output o too: its workspaces are on it, and no other one moved.
PlugsIn(ms, mini, aw, o) ==
    /\ DOMAIN ms = DOMAIN mon \cup {o}
    /\ NearOrNew(ms, aw, home)
    /\ \A w, id, p : Lives(mon, minimized, w, id, p) => Brings(ms, mini, w, id, p, o)

\* A new output, which no record knows.
LEMMA NewPlugs ==
    ASSUME HInv, NEW o, o \notin DOMAIN mon, o \notin DOMAIN away,
           NEW ms, DOMAIN ms = DOMAIN mon \cup {o}, \A p \in DOMAIN mon : ms[p] = mon[p],
           \A x \in Range(ms[o].stack) : x.id \notin DOMAIN home
    PROVE  PlugsIn(ms, minimized, away, o)
<1>1. DOMAIN home = Identities(mon, away) /\ NearHome(mon, away, home)
  BY DEF HInv, AInv, IInv, HomesAreKnown
<1>2. NearOrNew(ms, away, home)
  <2>1. ASSUME NEW p \in DOMAIN ms, NEW x \in Range(ms[p].stack), x.id \in DOMAIN home
        PROVE  home[x.id] = p \/ ParkedFor(away, home[x.id], p, x)
    <3>1. p \in DOMAIN mon /\ ms[p] = mon[p]
      BY <2>1
    <3> QED BY <1>1, <3>1 DEF NearHome
  <2>2. ASSUME NEW g \in DOMAIN away, NEW y \in Range(away[g].stack) PROVE y.id \in DOMAIN home /\ home[y.id] = g
    BY <1>1, IdentitiesOf DEF NearHome
  <2> QED BY <2>1, <2>2 DEF NearOrNew
<1>3. ASSUME NEW w, NEW id, NEW p, Lives(mon, minimized, w, id, p)
      PROVE  Brings(ms, minimized, w, id, p, o)
  <2>1. PICK x \in Range(mon[p].stack) : p \in DOMAIN mon /\ x.id = id /\ Holding(minimized, w, p, x)
    BY <1>3 DEF Lives
  <2>2. home[id] # o
    BY <1>1, <2>1 DEF NearHome, ParkedFor
  <2>3. Lives(ms, minimized, w, id, p)
    BY <2>1 DEF Lives
  <2> QED BY <2>2, <2>3 DEF Brings
<1> QED BY <1>2, <1>3 DEF PlugsIn

\* What is on the host at home on o goes, and all that goes is, but for windows in a workspace that
\* has the key of one of these by now: they go into that one.
LEMMA HandsBackPlugs ==
    ASSUME HInv, NEW o \in DOMAIN away, o \notin DOMAIN mon, NEW kept, kept = away[o],
           NEW host, host = kept.host, host \in DOMAIN mon, host # o, GoodRecord(kept), RecordSound(kept),
           \A g \in DOMAIN away : g = o,
           NEW new, GoodMon(new), DOMAIN new = DOMAIN mon \cup {o}, \A p \in DOMAIN mon : new[p] = mon[p],
           NEW id0 \in Nat, id0 \notin DOMAIN home,
           NEW ms, HandsBack(ms, new, kept, o, id0), NEW aw, DOMAIN aw = {}
    PROVE  PlugsIn(ms, HomeAgain(minimized, kept, o), aw, o)
<1> DEFINE s == mon[host].stack
           R(p) == Returning(new, kept, p[1])
           old(p) == At(kept.stack, p[1])
           P == Range(Pairs(kept))
           gone == GoneKeys(new, kept)
           taken == Taken(new, kept)
           fresh == Workspace(0, id0)
           mini == HomeAgain(minimized, kept, o)
<1>1. /\ DOMAIN home = Identities(mon, away) /\ NearHome(mon, away, home)
      /\ TilesApart(mon) /\ ParkedThere(mon, away)
  BY DEF HInv, AInv, IInv, HomesAreKnown, Apart
<1>2. ASSUME NEW p \in P
      PROVE  /\ p \in Range(kept.moved) /\ old(p) \in Range(kept.stack) /\ old(p).key = p[1]
             /\ R(p).ws.key = p[1] /\ R(p).ws.id = old(p).id
             /\ R(p).whole => \E x \in Range(s) : x.key = p[2] /\ x.id = old(p).id /\ R(p).ws.wins = x.wins
             /\ ~R(p).whole => \A x \in Range(s) : x.key = p[2] => x.id # old(p).id
             /\ ~R(p).whole => \A v \in R(p).ws.wins : \E x \in Range(s) : x.key = p[2] /\ v \in x.wins
  <2>1. p \in Range(kept.moved) /\ p[1] \in Keys(kept.stack)
    BY PairsOf
  <2>2. old(p) \in Range(kept.stack) /\ old(p).key = p[1]
    BY <2>1, StackFacts DEF GoodRecord
  <2>3. s = new[kept.host].stack /\ kept.host \in DOMAIN new
    OBVIOUS
  <2> DEFINE r == R(p)
  <2> HIDE DEF s
  <2>4. ReturnsAs(r, kept, s, p)
    BY <2>3, ReturnsWell
  <2> HIDE DEF r
  <2>5. /\ r.ws.key = p[1] /\ r.ws.id = old(p).id
        /\ r.whole => \E x \in Range(s) : x.key = p[2] /\ x.id = old(p).id /\ r.ws.wins = x.wins
        /\ ~r.whole => \A x \in Range(s) : x.key = p[2] => x.id # old(p).id
        /\ ~r.whole => \A v \in r.ws.wins : \E x \in Range(s) : x.key = p[2] /\ v \in x.wins
    BY <2>4 DEF ReturnsAs
  <2> QED BY <2>1, <2>2, <2>5 DEF r
<1>3. /\ \A k : k \in gone <=> \E p \in P : p[2] = k /\ R(p).whole
      /\ \A v : v \in taken <=> \E p \in P : ~R(p).whole /\ v \in R(p).ws.wins
  BY DEF GoneKeys, Taken
<1>4. \A p, q \in P : p[2] = q[2] => p = q
  BY <1>2 DEF RecordSound
<1>5. /\ \A p \in P : R(p).ws \in Range(ms[o].stack)
      /\ (\A y \in Range(ms[o].stack) : \E p \in P : y = R(p).ws) \/ Range(ms[o].stack) = {fresh}
  BY DEF HandsBack, IsRestored
<1>6. /\ \A z \in Range(ms[host].stack) : \E x \in Range(s) : x.key = z.key /\ x.id = z.id /\ x.key \notin gone
      /\ \A x \in Range(s) : x.key \notin gone =>
            \E z \in Range(ms[host].stack) : z.key = x.key /\ z.id = x.id /\ z.wins = x.wins \ taken
  <2>1. IsLeft(ms[host].stack, s, gone, taken)
    BY DEF HandsBack
  <2> HIDE DEF s, gone, taken
  <2> QED BY <2>1 DEF IsLeft
<1>7. DOMAIN ms = DOMAIN mon \cup {o} /\ \A p \in DOMAIN mon : p # host => ms[p] = mon[p]
  BY DEF HandsBack
<1>8. fresh.id = id0
  BY DEF Workspace
<1>9. GoodStack(s)
  BY DEF HInv, AInv, IInv, GoodMon, GoodOutput
<1>10. ASSUME NEW q \in DOMAIN mon, NEW x \in Range(mon[q].stack), home[x.id] # q
       PROVE  /\ q = host /\ home[x.id] = o
              /\ \E p \in P : p[2] = x.key /\ old(p).id = x.id
  <2>1. ParkedFor(away, home[x.id], q, x)
    BY <1>1, <1>10 DEF NearHome
  <2>2. q = host /\ home[x.id] = o
    BY <2>1 DEF ParkedFor
  <2>3. PICK p \in Range(kept.moved) : \E y \in Range(kept.stack) : p[2] = x.key /\ y.key = p[1] /\ y.id = x.id
    BY <2>1, <2>2 DEF ParkedFor
  <2>4. PICK y \in Range(kept.stack) : p[2] = x.key /\ y.key = p[1] /\ y.id = x.id
    BY <2>3
  <2>5. p[1] \in Keys(kept.stack) /\ At(kept.stack, p[1]) = y
    BY <2>4, StackFacts DEF GoodRecord
  <2>6. p \in P
    BY <2>5, PairsHave
  <2> QED BY <2>2, <2>4, <2>5, <2>6
<1>11. ASSUME NEW y \in Range(kept.stack) PROVE y.id \in DOMAIN home /\ home[y.id] = o
  BY <1>1, IdentitiesOf DEF NearHome
<1>12. \A w \in DOMAIN minimized :
        /\ w \in DOMAIN mini
        /\ \A q \in P : minimized[w] = [output |-> host, key |-> q[2]] => mini[w] = [output |-> o, key |-> q[1]]
        /\ (\A q \in P : minimized[w] # [output |-> host, key |-> q[2]]) => mini[w] = minimized[w]
  BY HomeAgainIs
<1>13. ASSUME NEW q \in P, NEW x \in Range(s), x.key = q[2], x.id # old(q).id
       PROVE  ~ParkedKeysAreTheirs /\ Vacant(old(q).id)
  <2>1. q[2] \in Keys(s) /\ At(s, q[2]) = x
    BY <1>9, <1>13, StackFacts
  <2>2. ~ParkedKeysAreTheirs
    BY <1>2, <1>13, <2>1, ZenonT(60) DEF ParkedKeysAreTheirs
  <2>3. ASSUME NEW v, NEW p, Lives(mon, minimized, v, old(q).id, p) PROVE FALSE
    <3>1. PICK u \in Range(mon[p].stack) : p \in DOMAIN mon /\ u.id = old(q).id
      BY <2>3 DEF Lives
    <3>2. p = host /\ u.key = q[2]
      BY <1>1, <1>2, <3>1 DEF ParkedThere
    <3>3. u = x
      BY <1>9, <1>13, <3>1, <3>2, StackFacts
    <3> QED BY <1>13, <3>1, <3>3
  <2> QED BY <2>2, <2>3 DEF Vacant
<1>14. \A x, y \in Range(s) : x.key = y.key => x = y
  BY <1>9, StackFacts
<1> DEFINE OldId(p) == old(p).id
<1>15. \A p \in P : OldId(p) \in DOMAIN home /\ home[OldId(p)] = o
  BY <1>2, <1>11
<1>16. \A p \in P :
             /\ R(p).ws.key = p[1] /\ R(p).ws.id = OldId(p)
             /\ R(p).whole => \E x \in Range(s) : x.key = p[2] /\ x.id = OldId(p) /\ R(p).ws.wins = x.wins
             /\ ~R(p).whole => \A x \in Range(s) : x.key = p[2] => x.id # OldId(p)
             /\ ~R(p).whole => \A v \in R(p).ws.wins : \E x \in Range(s) : x.key = p[2] /\ v \in x.wins
  BY <1>2
<1>17. \A q \in DOMAIN mon : \A x \in Range(mon[q].stack) : home[x.id] # q =>
             q = host /\ home[x.id] = o /\ \E p \in P : p[2] = x.key /\ OldId(p) = x.id
  BY <1>10
<1>18. \A q \in P : \A x \in Range(s) : x.key = q[2] /\ x.id # OldId(q) => ~ParkedKeysAreTheirs /\ Vacant(OldId(q))
  BY <1>13
<1> HIDE DEF R, old, OldId, P, gone, taken, fresh, mini
<1>19. NearOrNew(ms, aw, home)
  <2>1. ASSUME NEW p \in DOMAIN ms, NEW y \in Range(ms[p].stack), y.id \in DOMAIN home PROVE home[y.id] = p
    <3>1. CASE p = o
      <4>1. y # fresh
        BY <1>8, <2>1
      <4>2. PICK q \in P : y = R(q).ws
        BY <1>5, <3>1, <4>1
      <4> QED BY <1>15, <1>16, <3>1, <4>2
    <3>2. CASE p = host
      <4>1. PICK x \in Range(s) : x.key = y.key /\ x.id = y.id /\ x.key \notin gone
        BY <1>6, <3>2
      <4>2. ASSUME NEW q \in P, q[2] = x.key, OldId(q) = x.id PROVE FALSE
        <5>1. R(q).whole
          BY <1>16, <4>1, <4>2
        <5> QED BY <1>3, <4>1, <4>2, <5>1
      <4> QED BY <1>17, <3>2, <4>1, <4>2
    <3>3. CASE p # o /\ p # host
      <4>1. p \in DOMAIN mon /\ y \in Range(mon[p].stack)
        BY <1>7, <3>3
      <4> QED BY <1>17, <3>3, <4>1
    <3> QED BY <3>1, <3>2, <3>3
  <2> QED BY <2>1 DEF NearOrNew
<1>20. ASSUME NEW w, NEW x \in Range(s), NEW q \in P, q[2] = x.key,
              w \in R(q).ws.wins \/ (w \in DOMAIN minimized /\ minimized[w] = [output |-> host, key |-> x.key])
       PROVE  Lives(ms, mini, w, OldId(q), o)
  <2> DEFINE y == R(q).ws
  <2>1. y.key = q[1] /\ y.id = OldId(q) /\ y \in Range(ms[o].stack)
    BY <1>5, <1>16
  <2>2. w \in y.wins \/ (w \in DOMAIN minimized /\ minimized[w] = [output |-> host, key |-> q[2]])
    BY <1>20
  <2> HIDE DEF y
  <2>3. Holding(mini, w, o, y)
    BY <1>12, <2>1, <2>2 DEF Holding
  <2> QED BY <1>7, <2>1, <2>3 DEF Lives
<1>21. ASSUME NEW w, NEW x \in Range(s), w \in x.wins, \A q \in P : q[2] = x.key => ~R(q).whole /\ w \notin R(q).ws.wins
       PROVE  Lives(ms, mini, w, x.id, host)
  <2>1. x.key \notin gone
    BY <1>3, <1>21
  <2>2. ASSUME w \in taken PROVE FALSE
    <3>1. PICK q \in P : ~R(q).whole /\ w \in R(q).ws.wins
      BY <1>3, <2>2
    <3>2. PICK u \in Range(s) : u.key = q[2] /\ w \in u.wins
      BY <1>16, <3>1
    <3>3. u.key = x.key
      BY <1>1, <1>21, <3>2 DEF TilesApart
    <3> QED BY <1>21, <3>1, <3>2, <3>3
  <2>3. PICK z \in Range(ms[host].stack) : z.key = x.key /\ z.id = x.id /\ z.wins = x.wins \ taken
    BY <1>6, <2>1
  <2>4. Holding(mini, w, host, z)
    BY <1>21, <2>2, <2>3 DEF Holding
  <2> QED BY <1>7, <2>3, <2>4 DEF Lives
<1>22. ASSUME NEW w, NEW x \in Range(s), w \in DOMAIN minimized, minimized[w] = [output |-> host, key |-> x.key],
              \A q \in P : q[2] # x.key
       PROVE  Lives(ms, mini, w, x.id, host)
  <2>1. \A q \in P : [output |-> host, key |-> x.key] # [output |-> host, key |-> q[2]]
    BY <1>22
  <2>2. w \in DOMAIN mini /\ mini[w] = [output |-> host, key |-> x.key]
    BY <1>12, <1>22, <2>1
  <2>3. x.key \notin gone
    BY <1>3, <1>22
  <2>4. PICK z \in Range(ms[host].stack) : z.key = x.key /\ z.id = x.id
    BY <1>6, <2>3
  <2>5. Holding(mini, w, host, z)
    BY <2>2, <2>4 DEF Holding
  <2> QED BY <1>7, <2>4, <2>5 DEF Lives
<1>23. ASSUME NEW w, NEW x \in Range(s), Holding(minimized, w, host, x)
       PROVE  Brings(ms, mini, w, x.id, host, o)
  <2>1. w \in x.wins \/ (w \in DOMAIN minimized /\ minimized[w] = [output |-> host, key |-> x.key])
    BY <1>23 DEF Holding
  <2>2. CASE \A q \in P : q[2] # x.key
    <3>1. home[x.id] # o
      BY <1>17, <2>2
    <3>2. Lives(ms, mini, w, x.id, host)
      BY <1>21, <1>22, <2>1, <2>2
    <3> QED BY <3>1, <3>2 DEF Brings
  <2>3. ASSUME NEW q \in P, q[2] = x.key, OldId(q) = x.id PROVE Brings(ms, mini, w, x.id, host, o)
    <3>1. R(q).whole
      BY <1>16, <2>3
    <3>2. R(q).ws.wins = x.wins
      BY <1>14, <1>16, <2>3, <3>1
    <3>3a. w \in R(q).ws.wins \/ (w \in DOMAIN minimized /\ minimized[w] = [output |-> host, key |-> x.key])
      BY <2>1, <3>2
    <3>3b. Lives(ms, mini, w, OldId(q), o)
      BY <1>20, <2>3, <3>3a
    <3>3. Lives(ms, mini, w, x.id, o)
      BY <2>3, <3>3b
    <3>4. home[x.id] = o
      BY <1>15, <2>3
    <3> QED BY <3>3, <3>4 DEF Brings
  <2>4. ASSUME NEW q \in P, q[2] = x.key, OldId(q) # x.id PROVE Brings(ms, mini, w, x.id, host, o)
    <3>1. home[x.id] # o
      BY <1>4, <1>17, <2>4
    <3>2. ~R(q).whole
      BY <1>14, <1>16, <2>4
    <3>3. \A p \in P : p[2] = x.key => p = q
      BY <1>4, <2>4
    <3>4. CASE w \in R(q).ws.wins \/ (w \in DOMAIN minimized /\ minimized[w] = [output |-> host, key |-> x.key])
      <4>1. Lives(ms, mini, w, OldId(q), o)
        BY <1>20, <2>4, <3>4
      <4>2. ~ParkedKeysAreTheirs /\ Vacant(OldId(q))
        BY <1>18, <2>4
      <4> QED BY <1>15, <4>1, <4>2 DEF Brings
    <3>5. CASE w \notin R(q).ws.wins /\ w \in x.wins
      <4>1. Lives(ms, mini, w, x.id, host)
        BY <1>21, <3>2, <3>3, <3>5
      <4> QED BY <3>1, <4>1 DEF Brings
    <3> QED BY <2>1, <3>4, <3>5
  <2> QED BY <2>2, <2>3, <2>4
<1>24. ASSUME NEW w, NEW id, NEW p, Lives(mon, minimized, w, id, p)
       PROVE  Brings(ms, mini, w, id, p, o)
  <2>1. PICK x \in Range(mon[p].stack) : p \in DOMAIN mon /\ x.id = id /\ Holding(minimized, w, p, x)
    BY <1>24 DEF Lives
  <2>2. CASE p = host
    BY <1>23, <2>1, <2>2
  <2>3. CASE p # host
    <3>1. home[id] = p /\ p # o
      BY <1>17, <2>1, <2>3
    <3>2. \A q \in P : [output |-> p, key |-> x.key] # [output |-> host, key |-> q[2]]
      BY <2>3
    <3>3. Holding(mini, w, p, x)
      BY <1>12, <2>1, <3>2 DEF Holding
    <3>4. Lives(ms, mini, w, id, p)
      BY <1>7, <2>1, <2>3, <3>3 DEF Lives
    <3> QED BY <3>1, <3>4 DEF Brings
  <2> QED BY <2>2, <2>3
<1> QED BY <1>7, <1>19, <1>24 DEF PlugsIn, mini

LEMMA PlugIs ==
    ASSUME HInv, AInv', managed' = managed, NEW o \in Outputs, o \notin DOMAIN mon, NEW ms,
           PlugsIn(ms, minimized', away', o), Follows(mon', ms, minimized'), home' = Homed(mon', away', home)
    PROVE  HInv' /\ H!Plug(o) /\ (ParkedKeysAreTheirs => Inside' = Inside)
<1>1. AInv /\ IdsApart(mon') /\ DOMAIN home = Identities(mon, away)
  BY DEF HInv, AInv, Apart, IInv, HomesAreKnown
<1>2. Stems(mon', ms) /\ DOMAIN mon' = DOMAIN mon \cup {o} /\ NearOrNew(ms, away', home)
  BY FollowsFacts DEF PlugsIn
<1>3. NearHome(mon', away', home')
  BY <1>1, <1>2, HomedNear
<1>4. HInv'
  BY <1>3 DEF HInv
<1>5. \A id \in Identities(mon', away') : id \in DOMAIN home => home'[id] = home[id]
  BY <1>1, HomedIs
<1> DEFINE Was(w, id, p) == Lives(mon, minimized, w, id, p)
           Will(w, id, p) == Lives(mon', minimized', w, id, p)
<1>6. ASSUME NEW w, NEW id, NEW p, Will(w, id, p)
      PROVE  /\ w \in DOMAIN Inside' /\ Inside'[w] = id /\ OutputOf(id)' = p
             /\ id \in DOMAIN home' /\ (id \in DOMAIN home => home'[id] = home[id])
  <2>1. Sits(w, id, p)'
    BY <1>6, LivesWillSit DEF AllSit
  <2>2. id \in Identities(mon', away')
    BY <1>6, IdentitiesOf DEF Lives
  <2> QED BY <1>5, <2>1, <2>2 DEF Sits
<1>7. ASSUME NEW w, NEW id, NEW p, Was(w, id, p)
      PROVE  \/ Will(w, id, IF home[id] = o THEN o ELSE p)
             \/ ~ParkedKeysAreTheirs /\ \E i \in DOMAIN home : home[i] = o /\ Vacant(i) /\ Will(w, i, o)
  <2>1. Brings(ms, minimized', w, id, p, o)
    BY <1>7 DEF PlugsIn
  <2>2. \A i, q : Lives(ms, minimized', w, i, q) => Will(w, i, q)
    BY FollowsFacts
  <2> HIDE DEF Was, Will
  <2> QED BY <2>1, <2>2 DEF Brings
<1>8. \A w \in DOMAIN Inside : \E p : Was(w, Inside[w], p) /\ OutputOf(Inside[w]) = p /\ Inside[w] \in DOMAIN home
  <2>1. ASSUME NEW w \in DOMAIN Inside
        PROVE  \E p : Was(w, Inside[w], p) /\ OutputOf(Inside[w]) = p /\ Inside[w] \in DOMAIN home
    <3>1. PICK id, p : Was(w, id, p)
      BY <1>1, MappingIs
    <3>2. Sits(w, id, p)
      BY <1>1, <3>1, LivesSits
    <3> HIDE DEF Was
    <3> QED BY <3>1, <3>2 DEF Sits
  <2> QED BY <2>1
<1>9. \A id : Vacant(id) => id \notin H!Occupied
  <2>1. ASSUME NEW id \in H!Occupied PROVE ~Vacant(id)
    BY <1>1, OccupiedLives DEF Vacant
  <2> QED BY <2>1
<1>10. DOMAIN Inside' = DOMAIN Inside
  <2>1. InsideSound /\ InsideSound'
    BY <1>1, InsideIs, InsideWillBe
  <2>2. InsideSound' => DOMAIN Inside' = managed'
    BY DEF InsideSound
  <2> QED BY <2>1, <2>2 DEF InsideSound
<1>11. \A id : id \in H!Occupied <=> \E w \in DOMAIN Inside : Inside[w] = id
  BY DEF H!Occupied, H!Range
<1>12. \A id : id \in H!Occupied' <=> \E w \in DOMAIN Inside' : Inside'[w] = id
  BY DEF H!Occupied, H!Range
<1> HIDE DEF Was, Will
<1> DEFINE Stays(id) == /\ id \in DOMAIN home' /\ id \in DOMAIN home /\ home'[id] = home[id]
                        /\ OutputOf(id)' = IF home[id] = o THEN o ELSE OutputOf(id)
           Comes(id) == id \in DOMAIN home' /\ home'[id] = o /\ OutputOf(id)' = o
\* What becomes of a window.
<1>14. ASSUME NEW w \in DOMAIN Inside
       PROVE  \E i, j : /\ Inside[w] = i /\ Inside'[w] = j
                        /\ \/ i = j /\ Stays(i)
                           \/ ~ParkedKeysAreTheirs /\ j \notin H!Occupied /\ Comes(j)
  <2>1. PICK id : id = Inside[w]
    OBVIOUS
  <2>2. PICK p : Was(w, id, p) /\ OutputOf(id) = p /\ id \in DOMAIN home
    BY <1>8, <2>1
  <2>3. CASE Will(w, id, IF home[id] = o THEN o ELSE p)
    <3>1. PICK q : q = (IF home[id] = o THEN o ELSE p) /\ Will(w, id, q)
      BY <2>3
    <3>2. Inside'[w] = id /\ OutputOf(id)' = q /\ id \in DOMAIN home' /\ home'[id] = home[id]
      BY <1>6, <2>2, <3>1
    <3>3. Stays(id)
      BY <2>2, <3>1, <3>2
    <3> HIDE DEF Stays, Comes
    <3> QED BY <2>1, <3>2, <3>3
  <2>4. ASSUME ~ParkedKeysAreTheirs, NEW i \in DOMAIN home, home[i] = o, Vacant(i), Will(w, i, o)
        PROVE  \E j : Inside'[w] = j /\ ~ParkedKeysAreTheirs /\ j \notin H!Occupied /\ Comes(j)
    <3>1. Inside'[w] = i /\ OutputOf(i)' = o /\ i \in DOMAIN home' /\ home'[i] = home[i]
      BY <1>6, <2>4
    <3>2. i \notin H!Occupied
      BY <1>9, <2>4
    <3> QED BY <2>4, <3>1, <3>2
  <2> HIDE DEF Stays, Comes
  <2> QED BY <1>7, <2>1, <2>2, <2>3, <2>4
<1> HIDE DEF Stays, Comes
<1>15. \A id \in H!Occupied' : (id \in H!Occupied => Stays(id)) /\ (id \notin H!Occupied => Comes(id))
  <2>1. ASSUME NEW id \in H!Occupied'
        PROVE  (id \in H!Occupied => Stays(id)) /\ (id \notin H!Occupied => Comes(id))
    <3>1. PICK w \in DOMAIN Inside : Inside'[w] = id
      BY <1>10, <1>12
    <3>2. Inside[w] \in H!Occupied
      BY <1>11
    <3> QED BY <1>14, <3>1, <3>2
  <2> QED BY <2>1
<1>16. \A w \in DOMAIN Inside : Inside'[w] = Inside[w] \/ Inside'[w] \notin H!Occupied
  BY <1>14
<1>17. H!Plug(o)
  BY <1>2, <1>10, <1>15, <1>16 DEF H!Plug, Stays, Comes
<1>18. ParkedKeysAreTheirs => Inside' = Inside
  <2>1. InsideSound /\ InsideSound'
    BY <1>1, InsideIs, InsideWillBe
  <2>2. InsideSound => Inside = [v \in DOMAIN Inside |-> Inside[v]]
    BY DEF InsideSound
  <2>3. InsideSound' => Inside' = [v \in DOMAIN Inside' |-> Inside'[v]]
    BY DEF InsideSound
  <2>4. ParkedKeysAreTheirs => \A w \in DOMAIN Inside : Inside'[w] = Inside[w]
    BY <1>14
  <2> QED BY <1>10, <2>1, <2>2, <2>3, <2>4
<1> QED BY <1>4, <1>17, <1>18

\* take_back_workspaces
LEMMA TakenBackPlugs ==
    ASSUME HInv, NEW o \in DOMAIN away, o \notin DOMAIN mon, NEW kept, kept = away[o],
           kept.host \in DOMAIN mon, GoodRecord(kept), RecordSound(kept), \A g \in DOMAIN away : g = o,
           NEW new, GoodMon(new), DOMAIN new = DOMAIN mon \cup {o}, \A p \in DOMAIN mon : new[p] = mon[p],
           NEW aw, GoodAway(aw), DOMAIN aw = {}
    PROVE  LET b == TakenBack(new, minimized, aw, kept, o) IN
           \E ms : PlugsIn(ms, b.minimized, aw, o) /\ Follows(b.mon, ms, b.minimized)
<1> DEFINE id == FreshId(new, aw)
           stack == Restored(new, kept, id)
           mini == HomeAgain(minimized, kept, o)
           active == IF kept.active \in Keys(stack) THEN kept.active ELSE Head(stack).key
           host == kept.host
           left == HostWithout(new[host].stack, GoneKeys(new, kept), Taken(new, kept))
           ms2 == [p \in DOMAIN new |->
                      IF p = o THEN [stack |-> stack, active |-> active]
                      ELSE IF p = host
                      THEN [new[p] EXCEPT !.stack = HostWithout(new[p].stack, GoneKeys(new, kept), Taken(new, kept))]
                      ELSE new[p]]
           ms3 == Maintained(ms2, mini, aw, o)
           ms4 == Maintained(ms3, mini, aw, host)
           b == TakenBack(new, minimized, aw, kept, o)
<1>0. /\ AInv /\ GoodMon(mon) /\ GoodAway(away) /\ host \in Outputs /\ host # NoOutput /\ o \in Outputs
      /\ DOMAIN home = Identities(mon, away) /\ host # o
  BY AInvFacts, OutputsAssumption DEF HInv, AInv, IInv, HomesAreKnown, GoodMon
<1>1. b = [mon |-> ms4, minimized |-> mini]
  BY <1>0 DEF TakenBack
<1>1a. b.mon = ms4 /\ b.minimized = mini
  <2> HIDE DEF b, ms4, mini
  <2> QED BY <1>1
<1> HIDE DEF b
<1>2. \A p \in DOMAIN new : GoodOutput(new[p]) /\ GoodStack(new[p].stack)
  BY DEF GoodMon, GoodOutput
<1>3. id \in Nat /\ id \notin DOMAIN home
  BY <1>0, FreshIdIsFree
<1> HIDE DEF id
<1>4. GoodStack(stack) /\ stack # <<>>
  <2>1. WaitsWell(kept)
    BY <1>0 DEF WaitsWell
  <2> QED BY <1>3, <2>1, RestoredStack
<1>5. IsRestored(stack, new, kept, id)
  BY <1>0, RestoredFrom
<1> HIDE DEF stack, mini
<1>6. active \in Nat
  <2>1. Head(stack) \in Range(stack)
    <3>1. stack \in Seq(WorkspaceType) /\ stack # <<>>
      BY <1>4 DEF GoodStack
    <3>2. Head(stack) = stack[1] /\ 1 \in DOMAIN stack
      BY <3>1
    <3> QED BY <3>2 DEF Range
  <2>2. active \in Keys(stack)
    BY <1>4, <2>1, StackFacts
  <2> HIDE DEF active
  <2> QED BY <1>4, <2>2, StackFacts
<1> HIDE DEF active
<1>7. GoodStack(left)
  BY <1>2, HostWithoutStack
<1>8. IsLeft(left, new[host].stack, GoneKeys(new, kept), Taken(new, kept))
  BY <1>2, HostWithoutRange
<1>9. /\ DOMAIN ms2 = DOMAIN new /\ ms2 = [p \in DOMAIN ms2 |-> ms2[p]]
      /\ ms2[o] = [stack |-> stack, active |-> active]
      /\ \A p \in DOMAIN new : p # o /\ p # host => ms2[p] = new[p]
      /\ ms2[host] = [stack |-> left, active |-> new[host].active]
  <2>1. new[host] = [stack |-> new[host].stack, active |-> new[host].active]
    BY <1>2 DEF GoodOutput
  <2>2. ms2[host] = [new[host] EXCEPT !.stack = left]
    BY <1>0
  <2>3. [new[host] EXCEPT !.stack = left] = [stack |-> left, active |-> new[host].active]
    BY <2>1
  <2>4. /\ DOMAIN ms2 = DOMAIN new /\ ms2 = [p \in DOMAIN ms2 |-> ms2[p]]
        /\ ms2[o] = [stack |-> stack, active |-> active]
        /\ \A p \in DOMAIN new : p # o /\ p # host => ms2[p] = new[p]
    OBVIOUS
  <2> HIDE DEF ms2
  <2> QED BY <2>2, <2>3, <2>4
<1> HIDE DEF ms2, left
<1>10. GoodMon(ms2)
  <2>1. GoodOutput(ms2[o])
    BY <1>4, <1>6, <1>9 DEF GoodOutput
  <2>2. GoodOutput(ms2[host])
    <3>1. host \in DOMAIN new
      OBVIOUS
    <3> HIDE DEF host
    <3>2. new[host].active \in Nat
      BY <1>2, <3>1 DEF GoodOutput
    <3> QED BY <1>7, <1>9, <3>2 DEF GoodOutput
  <2>3. \A p \in DOMAIN new : GoodOutput(ms2[p])
    BY <1>2, <1>9, <2>1, <2>2
  <2> QED BY <1>9, <2>3 DEF GoodMon
<1>11. HandsBack(ms2, new, kept, o, id)
  BY <1>5, <1>8, <1>9 DEF HandsBack
<1>13. PlugsIn(ms2, mini, aw, o)
  <2>1. host = kept.host /\ host \in DOMAIN mon
    OBVIOUS
  <2> HIDE DEF host
  <2>2. PlugsIn(ms2, HomeAgain(minimized, kept, o), aw, o)
    BY <1>0, <1>3, <1>11, <2>1, HandsBackPlugs
  <2> QED BY <2>2 DEF mini
<1>14. Follows(ms3, ms2, mini)
  BY <1>0, <1>10, FollowsItself, UpkeepFollows
<1> HIDE DEF ms3
<1>15. Follows(ms4, ms2, mini)
  <2> HIDE DEF host
  <2> QED BY <1>0, <1>14, UpkeepFollows
<1> HIDE DEF ms4
<1>16. \E ms : PlugsIn(ms, b.minimized, aw, o) /\ Follows(b.mon, ms, b.minimized)
  BY <1>1a, <1>13, <1>15
<1> QED BY <1>16 DEF b

LEMMA RegisterPlugs ==
    ASSUME HInv, AInv', NEW o \in Outputs, Register(o)
    PROVE  HInv' /\ H!Plug(o) /\ (ParkedKeysAreTheirs => Inside' = Inside)
<1> DEFINE x0 == Workspace(0, FreshId(mon, away))
           m == [stack |-> <<x0>>, active |-> 0]
           new == With(mon, o, m)
           aw == Restrict(away, DOMAIN away \ {o})
           back == IF o \in DOMAIN away THEN TakenBack(new, minimized, aw, away[o], o)
                   ELSE [mon |-> new, minimized |-> minimized]
           all == Adopted(back.mon, back.minimized, aw, o)
<1>1. /\ o \notin DOMAIN mon /\ mon' = all.mon /\ minimized' = all.minimized /\ away' = all.away
      /\ managed' = managed /\ home' = Homed(mon', away', home)
  BY DEF Register
<1>2. /\ AInv /\ GoodMon(mon) /\ GoodAway(away) /\ (\A g, h \in DOMAIN away : g = h)
      /\ \A g \in DOMAIN away : away[g].host \in DOMAIN mon /\ RecordSound(away[g]) /\ GoodRecord(away[g])
      /\ DOMAIN home = Identities(mon, away)
  BY AInvFacts DEF HInv, AInv, OneAtATime, IInv, GoodAway, HomesAreKnown
<1>3. NoOutput \notin DOMAIN mon
  BY <1>2, OutputsAssumption DEF GoodMon
<1>4. x0 \in WorkspaceType /\ x0.key = 0 /\ x0.id = FreshId(mon, away)
  <2>1. FreshId(mon, away) \in Nat
    BY <1>2, FreshIdIsFree
  <2> QED BY <2>1, NewWorkspace
<1>5. x0.id \notin DOMAIN home
  BY <1>2, <1>4, FreshIdIsFree
<1> HIDE DEF x0
<1>6. GoodOutput(m) /\ Range(m.stack) = {x0}
  <2> DEFINE s == <<x0>>
  <2>1. GoodStack(s) /\ Range(s) = {x0}
    BY <1>4 DEF GoodStack, Range
  <2>2. m = [stack |-> s, active |-> 0]
    OBVIOUS
  <2> HIDE DEF s, m
  <2> QED BY <2>1, <2>2 DEF GoodOutput
<1> HIDE DEF m
<1>7. /\ DOMAIN new = DOMAIN mon \cup {o} /\ new = [p \in DOMAIN new |-> new[p]]
      /\ new[o] = m /\ \A p \in DOMAIN mon : new[p] = mon[p]
  BY <1>1 DEF With
<1> HIDE DEF new
<1>8. GoodMon(new)
  <2>1. \A p \in DOMAIN mon \ {o} : new[p] = mon[p]
    BY <1>7
  <2> QED BY <1>2, <1>6, <1>7, <2>1, Replaced
<1>9. GoodAway(aw) /\ DOMAIN aw = DOMAIN away \ {o} /\ \A g \in DOMAIN aw : aw[g] = away[g]
  BY <1>2, RecordTaken
<1> HIDE DEF aw
<1>10. Homeless(aw, o) = {}
  BY <1>2, <1>3, <1>9 DEF Homeless
<1>11. mon' = back.mon /\ minimized' = back.minimized /\ away' = aw
  BY <1>1, <1>10 DEF Adopted
<1> HIDE DEF all
<1>12. \E ms : PlugsIn(ms, minimized', away', o) /\ Follows(mon', ms, minimized')
  <2>1. CASE o \notin DOMAIN away
    <3>1. mon' = new /\ minimized' = minimized
      BY <1>11, <2>1
    <3>2. away' = away
      BY <1>2, <1>9, <1>11, <2>1 DEF GoodAway
    <3>3. \A x \in Range(new[o].stack) : x.id \notin DOMAIN home
      BY <1>5, <1>6, <1>7
    <3>4. PlugsIn(new, minimized, away, o)
      BY <1>1, <1>7, <2>1, <3>3, NewPlugs
    <3>5. Follows(new, new, minimized)
      BY <1>8, FollowsItself
    <3> QED BY <3>1, <3>2, <3>4, <3>5
  <2>2. CASE o \in DOMAIN away
    <3> DEFINE kept == away[o]
               b == TakenBack(new, minimized, aw, kept, o)
    <3>1. mon' = b.mon /\ minimized' = b.minimized
      BY <1>11, <2>2
    <3>2. /\ kept = away[o] /\ kept.host \in DOMAIN mon /\ GoodRecord(kept) /\ RecordSound(kept)
          /\ \A g \in DOMAIN away : g = o
      BY <1>2, <2>2
    <3>3. DOMAIN aw = {}
      BY <1>9, <3>2
    <3> HIDE DEF kept, back
    <3>4. \E ms : PlugsIn(ms, b.minimized, aw, o) /\ Follows(b.mon, ms, b.minimized)
      BY <1>1, <1>7, <1>8, <1>9, <2>2, <3>2, <3>3, TakenBackPlugs
    <3> QED BY <1>11, <3>1, <3>4
  <2> QED BY <2>1, <2>2
<1>13. PICK ms : PlugsIn(ms, minimized', away', o) /\ Follows(mon', ms, minimized')
  BY <1>12
<1> QED BY <1>1, <1>13, PlugIs

----------------------------------------------------------------------------
(* Every step of Outputs is a step of Homes. *)

LEMMA InitHInv ==
    ASSUME Init
    PROVE  HInv /\ H!Init
<1>1. PICK o \in Outputs :
        /\ mon = With(NoOne, o, [stack |-> <<Workspace(0, 1)>>, active |-> 0])
        /\ minimized = NoOne /\ managed = {} /\ away = NoOne /\ home = With(NoOne, 1, o)
  BY DEF Init
<1> DEFINE x == Workspace(0, 1)
           s == <<x>>
           m == [stack |-> s, active |-> 0]
<1>2. x.id = 1
  BY DEF Workspace
<1>3. mon = With(NoOne, o, m)
  BY <1>1
<1> HIDE DEF x
<1>4. Range(s) = {x}
  BY DEF Range
<1> HIDE DEF s
<1>5. m.stack = s
  OBVIOUS
<1> HIDE DEF m
<1>6. DOMAIN mon = {o} /\ mon[o] = m
  BY <1>3 DEF With, NoOne
<1>7. DOMAIN away = {} /\ home[1] = o
  BY <1>1 DEF NoOne, With
<1>8. NearHome(mon, away, home)
  BY <1>2, <1>4, <1>5, <1>6, <1>7 DEF NearHome
<1>9. AInv
  BY InitAInv
<1>10. H!Occupied = {}
  BY <1>1, <1>9, MappingIs
<1> QED BY <1>6, <1>8, <1>9, <1>10 DEF HInv, H!Init

\* A step that does what Homes promises and keeps the invariant, and moves no window with an output if
\* no parked key is another's.
Keeps ==
    /\ HInv' /\ (H!Next \/ UNCHANGED H!vars)
    /\ DOMAIN mon' = DOMAIN mon \/ (ParkedKeysAreTheirs => Inside' = Inside)

LEMMA WindowStepKeeps ==
    ASSUME HInv, AInv', WindowStep
    PROVE  Keeps
<1>1. PICK w \in Windows :
        \/ \E o \in DOMAIN mon : Open(w, o)
        \/ Close(w)
        \/ \E k \in 0..MaxKey : Minimize(w, k)
        \/ Restore(w)
        \/ \E o1 \in Found(w), o2 \in DOMAIN mon :
            \E k1 \in Keys(mon[o1].stack), k2 \in Keys(mon[o2].stack), follow \in BOOLEAN :
                MoveWindow(w, o1, k1, o2, k2, follow)
  BY DEF WindowStep
<1>2. ASSUME NEW o \in DOMAIN mon, Open(w, o) PROVE Keeps
  <2>1. HInv' /\ H!Place(w)
    BY <1>2, OpenPlaces
  <2>2. DOMAIN mon' = DOMAIN mon
    BY <2>1 DEF H!Place
  <2> QED BY <2>1, <2>2 DEF Keeps, H!Next
<1>3. CASE Close(w)
  <2>1. HInv' /\ H!Close(w)
    BY <1>3, CloseCloses
  <2>2. DOMAIN mon' = DOMAIN mon
    BY <2>1 DEF H!Close
  <2> QED BY <2>1, <2>2 DEF Keeps, H!Next
<1>4. ASSUME NEW k \in 0..MaxKey, Minimize(w, k) PROVE Keeps
  <2>1. HInv' /\ H!Tidy
    BY <1>4, MinimizeTidies
  <2>2. DOMAIN mon' = DOMAIN mon
    BY <2>1 DEF H!Tidy
  <2> QED BY <2>1, <2>2 DEF Keeps, H!Next
<1>5. CASE Restore(w)
  <2>1. HInv' /\ H!Place(w)
    BY <1>5, RestorePlaces
  <2>2. DOMAIN mon' = DOMAIN mon
    BY <2>1 DEF H!Place
  <2> QED BY <2>1, <2>2 DEF Keeps, H!Next
<1>6. ASSUME NEW o1 \in Found(w), NEW o2 \in DOMAIN mon, NEW k1 \in Keys(mon[o1].stack),
             NEW k2 \in Keys(mon[o2].stack), NEW follow \in BOOLEAN, MoveWindow(w, o1, k1, o2, k2, follow)
      PROVE  Keeps
  <2>1. o1 \in DOMAIN mon
    BY DEF Found
  <2>2. HInv' /\ H!Place(w)
    BY <1>6, <2>1, MoveWindowPlaces
  <2>3. DOMAIN mon' = DOMAIN mon
    BY <2>2 DEF H!Place
  <2> QED BY <2>2, <2>3 DEF Keeps, H!Next
<1> QED BY <1>1, <1>2, <1>3, <1>4, <1>5, <1>6

LEMMA WorkspaceStepKeeps ==
    ASSUME HInv, AInv', WorkspaceStep
    PROVE  Keeps
<1>1. PICK o \in DOMAIN mon :
        \/ FocusOutput(o)
        \/ \E k \in Keys(mon[o].stack) :
            \/ FocusWorkspace(o, k)
            \/ \E o2 \in DOMAIN mon : MoveWorkspaceToMonitor(o, k, o2)
            \/ \E name \in Names \cup {NoName} : NameWorkspace(o, k, name)
  BY DEF WorkspaceStep
<1>2. CASE FocusOutput(o)
  <2>1. HInv' /\ H!Tidy
    BY <1>2, FocusOutputTidies
  <2>2. DOMAIN mon' = DOMAIN mon
    BY <2>1 DEF H!Tidy
  <2> QED BY <2>1, <2>2 DEF Keeps, H!Next
<1>3. ASSUME NEW k \in Keys(mon[o].stack), FocusWorkspace(o, k) PROVE Keeps
  <2>1. HInv' /\ H!Tidy
    BY <1>3, FocusWorkspaceTidies
  <2>2. DOMAIN mon' = DOMAIN mon
    BY <2>1 DEF H!Tidy
  <2> QED BY <2>1, <2>2 DEF Keeps, H!Next
<1>4. ASSUME NEW k \in Keys(mon[o].stack), NEW o2 \in DOMAIN mon, MoveWorkspaceToMonitor(o, k, o2) PROVE Keeps
  <2>1. HInv' /\ (H!Tidy \/ \E i \in H!Occupied : H!Take(i, o2))
    BY <1>4, MoveWorkspaceTakes
  <2>2. o2 \in Outputs
    BY HInvFacts DEF GoodMon
  <2>3. DOMAIN mon' = DOMAIN mon
    BY <2>1 DEF H!Tidy, H!Take
  <2> QED BY <2>1, <2>2, <2>3 DEF Keeps, H!Next
<1>5. ASSUME NEW k \in Keys(mon[o].stack), NEW name \in Names \cup {NoName}, NameWorkspace(o, k, name) PROVE Keeps
  <2>1. HInv' /\ H!Tidy
    BY <1>5, NameWorkspaceTidies
  <2>2. DOMAIN mon' = DOMAIN mon
    BY <2>1 DEF H!Tidy
  <2> QED BY <2>1, <2>2 DEF Keeps, H!Next
<1> QED BY <1>1, <1>2, <1>3, <1>4, <1>5

LEMMA NextKeeps ==
    ASSUME OneAway, HInv, [Next]_vars
    PROVE  Keeps
<1>1. AInv'
  BY NextAInv DEF HInv
<1>2. CASE UNCHANGED vars
  <2>1. HInv'
    BY <1>1, <1>2 DEF HInv, vars
  <2>2. UNCHANGED H!vars
    BY <1>2 DEF vars, H!vars, Inside, Places, IsIn, IdAt, OutputOf, OutputsOf
  <2>3. DOMAIN mon' = DOMAIN mon
    BY <1>2 DEF vars
  <2> QED BY <2>1, <2>2, <2>3 DEF Keeps
<1>3. ASSUME NEW o \in Outputs, Register(o) PROVE Keeps
  <2>1. HInv' /\ H!Plug(o) /\ (ParkedKeysAreTheirs => Inside' = Inside)
    BY <1>1, <1>3, RegisterPlugs
  <2> QED BY <2>1 DEF Keeps, H!Next
<1>4. ASSUME NEW o \in Outputs, Unregister(o) PROVE Keeps
  <2>1. HInv' /\ o \in Outputs /\ \E host \in Outputs : H!Unplug(o, host)
    BY <1>1, <1>4, UnregisterUnplugs
  <2>2. Inside' = Inside
    BY <2>1 DEF H!Unplug
  <2> QED BY <2>1, <2>2 DEF Keeps, H!Next
<1>5. CASE WindowStep
  BY <1>1, <1>5, WindowStepKeeps
<1>6. CASE WorkspaceStep
  BY <1>1, <1>6, WorkspaceStepKeeps
<1> QED BY <1>2, <1>3, <1>4, <1>5, <1>6 DEF Next

\* With one output away at a time and never none left, what is done to outputs, workspaces and windows is
\* what Homes promises: each step of unregister_monitor, register_monitor_with_scale (engine.rs:1205-1303)
\* and of the handlers of windows and workspaces is a step of Homes, or changes nothing that Homes has a
\* word for.
THEOREM OutputsKeepHomes ==
    ASSUME OneAway
    PROVE  Spec => HomesAreKept
<1>1. Init => HInv /\ H!Init
  BY InitHInv
<1>2. HInv /\ [Next]_vars => HInv' /\ [H!Next]_H!vars
  BY NextKeeps DEF Keeps
<1> QED BY <1>1, <1>2, PTL DEF Spec, HomesAreKept, H!Spec

\* An output that comes or goes leaves every window in the workspace it is in, a minimized one too, unless
\* a key of the record names another workspace in that very state (take_back_workspaces, engine.rs:1458):
\* whatever windows and workspaces the user opened, closed, moved, named and minimized in between.
THEOREM WindowsStay ==
    ASSUME OneAway
    PROVE  Spec => WindowsStayPutUnlessAKeyIsReused
<1>1. Init => HInv
  BY InitHInv
<1>2. HInv /\ [Next]_vars =>
        HInv' /\ [DOMAIN mon' # DOMAIN mon /\ ParkedKeysAreTheirs => Inside' = Inside]_vars
  BY NextKeeps DEF Keeps
<1> QED BY <1>1, <1>2, PTL DEF Spec, WindowsStayPutUnlessAKeyIsReused

LEMMA HInvAtHome ==
    ASSUME HInv
    PROVE  H!AtHome
<1>1. AInv /\ NearHome(mon, away, home) /\ GoodAway(away)
  BY HInvFacts DEF HInv
<1>2. DOMAIN away \subseteq Outputs \ DOMAIN mon
  BY <1>1 DEF AInv, IInv, RecordsAreKept, GoodAway
<1>3. ASSUME NEW id \in H!Occupied
      PROVE  /\ id \in DOMAIN home /\ OutputOf(id) \in DOMAIN mon
             /\ home[id] \in DOMAIN mon => OutputOf(id) = home[id]
  <2>1. PICK w, o : Lives(mon, minimized, w, id, o) /\ OutputOf(id) = o /\ id \in DOMAIN home
    BY <1>1, OccupiedLives
  <2>2. PICK x \in Range(mon[o].stack) : o \in DOMAIN mon /\ x.id = id
    BY <2>1 DEF Lives
  <2>3. home[id] = o \/ home[id] \in DOMAIN away
    BY <1>1, <2>2 DEF NearHome, ParkedFor
  <2> QED BY <1>2, <2>1, <2>2, <2>3
<1> QED BY <1>3 DEF H!AtHome

\* A workspace with a window, a minimized one too, is always on an output that is there, and on its home
\* output whenever that is, whatever keys were given again (take_back_workspaces, engine.rs:1458).
THEOREM WorkspacesAreAtHome ==
    ASSUME OneAway
    PROVE  Spec => []H!AtHome
<1>1. Init => HInv
  BY InitHInv
<1>2. HInv /\ [Next]_vars => HInv'
  BY NextKeeps DEF Keeps
<1>3. HInv => H!AtHome
  BY HInvAtHome
<1> QED BY <1>1, <1>2, <1>3, PTL DEF Spec
==============================================================================
