------------------------ MODULE EventStream_proofs ------------------------
(***************************************************************************)
(* Proofs about the event stream, for any clients, snapshots, capacity of  *)
(* the channel and number of steps.                                        *)
(***************************************************************************)
EXTENDS EventStreamProps, WellFoundedInduction, FiniteSetTheorems, SequenceTheorems, TLAPS

----------------------------------------------------------------------------
(* Induction, and what a recursive definition over 0 .. n computes. *)

LEMMA NatSetInduction ==
    ASSUME NEW S, 0 \in S, \A n \in Nat : n \in S => n + 1 \in S
    PROVE  Nat \subseteq S
<1> SUFFICES ASSUME Nat \ S # {} PROVE FALSE
  OBVIOUS
<1> DEFINE T == Nat \ S
<1>1. PICK m \in T : \A k \in T : <<k, m>> \notin OpToRel(<, Nat)
  BY WFMin, NatLessThanWellFounded, Zenon
<1>2. \A k \in T : ~ k < m
  BY <1>1, Zenon DEF OpToRel
<1>3. m \in Nat /\ m # 0 /\ m - 1 \in Nat
  BY SMT
<1>4. m - 1 \notin T
  BY <1>2, <1>3
<1>5. m - 1 \in S
  BY <1>3, <1>4
<1>6. (m - 1) + 1 = m
  BY <1>3
<1> QED BY <1>3, <1>5, <1>6

\* The views while events are read, one after the other.
ReadingOf(f, v, q, n) ==
    f = [i \in 0 .. n |-> IF i = 0 THEN v ELSE Known(f[i - 1], q[i])]

LEMMA ReadingExists ==
    ASSUME NEW v, NEW q, NEW n \in Nat
    PROVE  \E f : ReadingOf(f, v, q, n)
<1> DEFINE S == {k \in Nat : \E f : ReadingOf(f, v, q, k)}
<1>1. 0 \in S
  <2> DEFINE f == [i \in 0 .. 0 |-> v]
  <2>1. ReadingOf(f, v, q, 0)
    BY DEF ReadingOf
  <2> QED BY <2>1
<1>2. ASSUME NEW k \in Nat, k \in S PROVE k + 1 \in S
  <2>1. PICK f : ReadingOf(f, v, q, k)
    BY <1>2
  <2> DEFINE g == [i \in 0 .. k + 1 |-> IF i = k + 1 THEN Known(f[k], q[k + 1]) ELSE f[i]]
  <2>2. g = [i \in 0 .. k + 1 |-> IF i = 0 THEN v ELSE Known(g[i - 1], q[i])]
    <3>1. ASSUME NEW i \in 0 .. k + 1
          PROVE  g[i] = IF i = 0 THEN v ELSE Known(g[i - 1], q[i])
      <4>1. CASE i = 0
        <5>1. g[i] = f[i] /\ i \in 0 .. k
          BY <4>1
        <5> QED BY <2>1, <4>1, <5>1 DEF ReadingOf
      <4>2. CASE i = k + 1
        <5>1. g[i] = Known(f[k], q[k + 1]) /\ g[i - 1] = f[k] /\ i # 0
          BY <4>2
        <5> QED BY <4>2, <5>1
      <4>3. CASE i \in 1 .. k
        <5>1. g[i] = f[i] /\ g[i - 1] = f[i - 1] /\ i # 0 /\ i \in 0 .. k
          BY <4>3
        <5> QED BY <2>1, <5>1 DEF ReadingOf
      <4> QED BY <4>1, <4>2, <4>3
    <3> HIDE DEF g
    <3>2. g = [i \in 0 .. k + 1 |-> g[i]]
      BY DEF g
    <3> QED BY <3>1, <3>2
  <2> HIDE DEF g
  <2>3. ReadingOf(g, v, q, k + 1)
    BY <2>2 DEF ReadingOf
  <2> QED BY <2>3
<1> HIDE DEF S
<1>3. Nat \subseteq S
  BY <1>1, <1>2, NatSetInduction
<1> QED BY <1>3 DEF S

LEMMA ReadingSteps ==
    ASSUME NEW v, NEW q, Len(q) \in Nat
    PROVE  /\ Reading(v, q)[0] = v
           /\ \A i \in 1 .. Len(q) : Reading(v, q)[i] = Known(Reading(v, q)[i - 1], q[i])
<1> DEFINE R == Reading(v, q)
<1>1. ReadingOf(R, v, q, Len(q))
  <2>1. R = CHOOSE f : ReadingOf(f, v, q, Len(q))
    BY DEF Reading, ReadingOf
  <2>2. \E f : ReadingOf(f, v, q, Len(q))
    BY ReadingExists
  <2> QED BY <2>1, <2>2
<1> HIDE DEF R
<1>2. R[0] = v
  BY <1>1 DEF ReadingOf
<1>3. ASSUME NEW i \in 1 .. Len(q) PROVE R[i] = Known(R[i - 1], q[i])
  <2>1. i \in 0 .. Len(q) /\ i # 0
    OBVIOUS
  <2> QED BY <1>1, <2>1 DEF ReadingOf
<1> QED BY <1>2, <1>3 DEF R

\* Views that start alike and take the same steps are alike.
Reads(f, q, n) == \A i \in 1 .. n : f[i] = Known(f[i - 1], q[i])

LEMMA SameReading ==
    ASSUME NEW f, NEW g, NEW q, NEW n \in Nat, f[0] = g[0], Reads(f, q, n), Reads(g, q, n)
    PROVE  f[n] = g[n]
<1> DEFINE S == {k \in Nat : k <= n => f[k] = g[k]}
<1>1. 0 \in S
  OBVIOUS
<1>2. ASSUME NEW k \in Nat, k \in S PROVE k + 1 \in S
  <2> SUFFICES ASSUME k + 1 <= n PROVE f[k + 1] = g[k + 1]
    OBVIOUS
  <2>1. k + 1 \in 1 .. n /\ (k + 1) - 1 = k /\ f[k] = g[k]
    BY <1>2
  <2>2. f[k + 1] = Known(f[(k + 1) - 1], q[k + 1]) /\ g[k + 1] = Known(g[(k + 1) - 1], q[k + 1])
    BY <2>1 DEF Reads
  <2> QED BY <2>1, <2>2
<1> HIDE DEF S
<1>3. Nat \subseteq S
  BY <1>1, <1>2, NatSetInduction
<1> QED BY <1>3 DEF S

LEMMA ReadNothing ==
    ASSUME NEW v
    PROVE  Read(v, <<>>) = v
<1>1. Len(<<>>) = 0
  OBVIOUS
<1> QED BY <1>1, ReadingSteps DEF Read

\* Reading a sequence is reading its front and then its last event.
LEMMA ReadAppend ==
    ASSUME NEW v, NEW S, NEW q \in Seq(S), NEW e
    PROVE  Read(v, Append(q, e)) = Known(Read(v, q), e)
<1> DEFINE p == Append(q, e)
           f == Reading(v, q)
           g == Reading(v, p)
<1>1. /\ Len(q) \in Nat /\ Len(p) = Len(q) + 1 /\ p[Len(q) + 1] = e
      /\ \A i \in 1 .. Len(q) : p[i] = q[i]
  <2>1. q \in Seq(S \cup {e}) /\ e \in S \cup {e}
    OBVIOUS
  <2> QED BY <2>1, AppendProperties
<1> HIDE DEF p
<1>2. f[0] = v /\ \A i \in 1 .. Len(q) : f[i] = Known(f[i - 1], q[i])
  BY <1>1, ReadingSteps
<1>3. g[0] = v /\ \A i \in 1 .. Len(p) : g[i] = Known(g[i - 1], p[i])
  BY <1>1, ReadingSteps
<1> HIDE DEF f, g
<1>4. Reads(f, q, Len(q)) /\ Reads(g, q, Len(q))
  <2>1. ASSUME NEW i \in 1 .. Len(q) PROVE g[i] = Known(g[i - 1], q[i])
    <3>1. i \in 1 .. Len(p) /\ p[i] = q[i]
      BY <1>1
    <3> QED BY <1>3, <3>1
  <2> QED BY <1>2, <2>1 DEF Reads
<1>5. f[Len(q)] = g[Len(q)]
  BY <1>1, <1>2, <1>3, <1>4, SameReading
<1>6. g[Len(p)] = Known(g[Len(q)], e)
  <2>1. Len(p) \in 1 .. Len(p) /\ Len(p) - 1 = Len(q) /\ p[Len(p)] = e
    BY <1>1
  <2>2. g[Len(p)] = Known(g[Len(p) - 1], p[Len(p)])
    BY <1>3, <2>1
  <2> QED BY <2>1, <2>2
<1> QED BY <1>5, <1>6 DEF Read, f, g, p

\* Reading a sequence is reading its first event and then the others.
LEMMA ReadHead ==
    ASSUME NEW v, NEW S, NEW q \in Seq(S), q # <<>>
    PROVE  Read(Known(v, Head(q)), Tail(q)) = Read(v, q)
<1> DEFINE p == Tail(q)
           w == Known(v, Head(q))
           f == Reading(v, q)
           g == Reading(w, p)
           h == [i \in 0 .. Len(p) |-> f[i + 1]]
<1>1. /\ Len(q) \in Nat /\ Len(p) = Len(q) - 1 /\ Len(p) \in Nat /\ Head(q) = q[1]
      /\ \A i \in 1 .. Len(p) : p[i] = q[i + 1]
  BY HeadTailProperties
<1> HIDE DEF p
<1>2. f[0] = v /\ \A i \in 1 .. Len(q) : f[i] = Known(f[i - 1], q[i])
  BY <1>1, ReadingSteps
<1>3. g[0] = w /\ \A i \in 1 .. Len(p) : g[i] = Known(g[i - 1], p[i])
  BY <1>1, ReadingSteps
<1> HIDE DEF f, g
<1>4. h[0] = w
  <2>1. 1 \in 1 .. Len(q) /\ h[0] = f[1] /\ 1 - 1 = 0
    BY <1>1
  <2>2. f[1] = Known(f[1 - 1], q[1])
    BY <1>2, <2>1
  <2> QED BY <1>1, <1>2, <2>1, <2>2
<1>5. ASSUME NEW i \in 1 .. Len(p) PROVE h[i] = Known(h[i - 1], p[i])
  <2>1. i + 1 \in 1 .. Len(q) /\ h[i] = f[i + 1] /\ h[i - 1] = f[(i - 1) + 1]
        /\ (i - 1) + 1 = i /\ (i + 1) - 1 = i /\ p[i] = q[i + 1]
    BY <1>1
  <2>2. f[i + 1] = Known(f[(i + 1) - 1], q[i + 1])
    BY <1>2, <2>1
  <2> QED BY <2>1, <2>2
<1>6. h[Len(p)] = f[Len(q)]
  BY <1>1
<1> HIDE DEF h
<1>7. h[Len(p)] = g[Len(p)]
  <2>1. Reads(h, p, Len(p)) /\ Reads(g, p, Len(p))
    BY <1>3, <1>5 DEF Reads
  <2>2. h[0] = g[0] /\ Len(p) \in Nat
    BY <1>1, <1>3, <1>4
  <2> QED BY <2>1, <2>2, SameReading
<1> QED BY <1>6, <1>7 DEF Read, f, g, p, w

\* Reading one sequence after another.
LEMMA ReadConcat ==
    ASSUME NEW v, NEW S, NEW a \in Seq(S), NEW b \in Seq(S)
    PROVE  Read(v, a \o b) = Read(Read(v, a), b)
<1> DEFINE p == a \o b
           f == Reading(v, a)
           w == f[Len(a)]
           g == Reading(w, b)
           h == Reading(v, p)
           k == [i \in 0 .. Len(b) |-> h[Len(a) + i]]
<1>1. /\ Len(a) \in Nat /\ Len(b) \in Nat /\ Len(p) = Len(a) + Len(b)
      /\ \A i \in 1 .. Len(a) : p[i] = a[i]
      /\ \A i \in 1 .. Len(b) : p[Len(a) + i] = b[i]
  OBVIOUS
<1> HIDE DEF p
<1>2. f[0] = v /\ \A i \in 1 .. Len(a) : f[i] = Known(f[i - 1], a[i])
  BY <1>1, ReadingSteps
<1>3. g[0] = w /\ \A i \in 1 .. Len(b) : g[i] = Known(g[i - 1], b[i])
  BY <1>1, ReadingSteps
<1>4. h[0] = v /\ \A i \in 1 .. Len(p) : h[i] = Known(h[i - 1], p[i])
  BY <1>1, ReadingSteps
<1> HIDE DEF f, g, h
<1>5. f[Len(a)] = h[Len(a)]
  <2>1. ASSUME NEW i \in 1 .. Len(a) PROVE h[i] = Known(h[i - 1], a[i])
    <3>1. i \in 1 .. Len(p) /\ p[i] = a[i]
      BY <1>1
    <3> QED BY <1>4, <3>1
  <2>2. Reads(f, a, Len(a)) /\ Reads(h, a, Len(a))
    BY <1>2, <2>1 DEF Reads
  <2>3. f[0] = h[0] /\ Len(a) \in Nat
    BY <1>1, <1>2, <1>4
  <2> QED BY <2>2, <2>3, SameReading
<1>6. ASSUME NEW i \in 1 .. Len(b) PROVE k[i] = Known(k[i - 1], b[i])
  <2>1. Len(a) + i \in 1 .. Len(p) /\ k[i] = h[Len(a) + i] /\ k[i - 1] = h[Len(a) + (i - 1)]
        /\ Len(a) + (i - 1) = (Len(a) + i) - 1 /\ p[Len(a) + i] = b[i]
    BY <1>1
  <2>2. h[Len(a) + i] = Known(h[(Len(a) + i) - 1], p[Len(a) + i])
    BY <1>4, <2>1
  <2> QED BY <2>1, <2>2
<1>7. k[0] = w
  BY <1>1, <1>5
<1>8. k[Len(b)] = h[Len(p)]
  BY <1>1
<1> HIDE DEF k, w
<1>9. k[Len(b)] = g[Len(b)]
  <2>1. Reads(k, b, Len(b)) /\ Reads(g, b, Len(b))
    BY <1>3, <1>6 DEF Reads
  <2>2. k[0] = g[0] /\ Len(b) \in Nat
    BY <1>1, <1>3, <1>7
  <2> QED BY <2>1, <2>2, SameReading
<1> QED BY <1>8, <1>9 DEF Read, f, g, h, w, p

\* A reading is found by following any views that take its steps.
LEMMA ReadAlong ==
    ASSUME NEW v, NEW q, Len(q) \in Nat, NEW f, f[0] = v, Reads(f, q, Len(q))
    PROVE  Read(v, q) = f[Len(q)]
<1> DEFINE g == Reading(v, q)
<1>1. g[0] = v /\ Reads(g, q, Len(q))
  BY ReadingSteps DEF Reads
<1> HIDE DEF g
<1>2. g[0] = f[0]
  BY <1>1
<1>3. g[Len(q)] = f[Len(q)]
  BY <1>1, <1>2, SameReading
<1> QED BY <1>3 DEF Read, g

LEMMA ReadOne ==
    ASSUME NEW v, NEW e
    PROVE  Read(v, <<e>>) = Known(v, e)
<1>1. <<e>> = Append(<<>>, e) /\ <<>> \in Seq({e})
  OBVIOUS
<1>2. Read(v, Append(<<>>, e)) = Known(Read(v, <<>>), e)
  BY <1>1, ReadAppend
<1> QED BY <1>1, <1>2, ReadNothing

LEMMA ReadIf ==
    ASSUME NEW v, NEW condition \in BOOLEAN, NEW e
    PROVE  /\ Read(v, If(condition, e)) = IF condition THEN Known(v, e) ELSE v
           /\ If(condition, e) \in Seq({e})
<1>1. CASE condition = TRUE
  <2>1. If(condition, e) = <<e>>
    BY <1>1 DEF If
  <2> QED BY <1>1, <2>1, ReadOne
<1>2. CASE condition = FALSE
  <2>1. If(condition, e) = <<>>
    BY <1>2 DEF If
  <2> QED BY <1>2, <2>1, ReadNothing
<1> QED BY <1>1, <1>2

\* What is known of the state depends on nothing else.
LEMMA StateFollows ==
    ASSUME NEW u, NEW v, NEW q, Len(q) \in Nat, StateOf(u) = StateOf(v)
    PROVE  StateOf(Read(u, q)) = StateOf(Read(v, q))
<1> DEFINE f == Reading(u, q)
           g == Reading(v, q)
           S == {k \in Nat : k <= Len(q) => StateOf(f[k]) = StateOf(g[k])}
<1>1. f[0] = u /\ \A i \in 1 .. Len(q) : f[i] = Known(f[i - 1], q[i])
  BY ReadingSteps
<1>2. g[0] = v /\ \A i \in 1 .. Len(q) : g[i] = Known(g[i - 1], q[i])
  BY ReadingSteps
<1> HIDE DEF f, g
<1>3. 0 \in S
  BY <1>1, <1>2
<1>4. ASSUME NEW k \in Nat, k \in S PROVE k + 1 \in S
  <2> SUFFICES ASSUME k + 1 <= Len(q) PROVE StateOf(f[k + 1]) = StateOf(g[k + 1])
    OBVIOUS
  <2>1. k + 1 \in 1 .. Len(q) /\ (k + 1) - 1 = k /\ StateOf(f[k]) = StateOf(g[k])
    BY <1>4
  <2>2. f[k + 1] = Known(f[k], q[k + 1]) /\ g[k + 1] = Known(g[k], q[k + 1])
    <3>1. f[k + 1] = Known(f[(k + 1) - 1], q[k + 1]) /\ g[k + 1] = Known(g[(k + 1) - 1], q[k + 1])
      BY <1>1, <1>2, <2>1
    <3> QED BY <2>1, <3>1
  <2>3. ASSUME NEW x, NEW y, NEW e, StateOf(x) = StateOf(y)
        PROVE  StateOf(Known(x, e)) = StateOf(Known(y, e))
    <3>1. x.ws = y.ws /\ x.windows = y.windows /\ x.overview = y.overview
      BY <2>3 DEF StateOf
    <3>2. KnownState(x, e) = KnownState(y, e)
      BY <3>1 DEF KnownState
    <3> QED BY <3>2 DEF Known, Told, StateOf
  <2> QED BY <2>1, <2>2, <2>3
<1> HIDE DEF S
<1>5. Nat \subseteq S
  BY <1>3, <1>4, NatSetInduction
<1> QED BY <1>5 DEF S, Read, f, g

----------------------------------------------------------------------------
(* One sequence of events after another: FlattenSeq. *)

\* The sequences joined so far.
JoinedOf(f, ss, n) == f = [i \in 1 .. n |-> IF i = 1 THEN ss[i] ELSE f[i - 1] \o ss[i]]

LEMMA JoinedExists ==
    ASSUME NEW ss, NEW n \in Nat
    PROVE  \E f : JoinedOf(f, ss, n)
<1> DEFINE S == {k \in Nat : \E f : JoinedOf(f, ss, k)}
<1>1. 0 \in S
  <2> DEFINE f == [i \in 1 .. 0 |-> ss[i]]
  <2>1. JoinedOf(f, ss, 0)
    BY DEF JoinedOf
  <2> QED BY <2>1
<1>2. ASSUME NEW k \in Nat, k \in S PROVE k + 1 \in S
  <2>1. PICK f : JoinedOf(f, ss, k)
    BY <1>2
  <2> DEFINE next == IF k = 0 THEN ss[1] ELSE f[k] \o ss[k + 1]
             g == [i \in 1 .. k + 1 |-> IF i = k + 1 THEN next ELSE f[i]]
  <2>2. g = [i \in 1 .. k + 1 |-> IF i = 1 THEN ss[i] ELSE g[i - 1] \o ss[i]]
    <3>1. ASSUME NEW i \in 1 .. k + 1
          PROVE  g[i] = IF i = 1 THEN ss[i] ELSE g[i - 1] \o ss[i]
      <4>1. CASE i = k + 1 /\ k = 0
        BY <4>1
      <4>2. CASE i = k + 1 /\ k # 0
        <5>1. i # 1 /\ i - 1 = k /\ k \in 1 .. k + 1 /\ k # k + 1 /\ k + 1 \in 1 .. k + 1
          BY <4>2
        <5>2. g[k + 1] = next /\ g[k] = f[k]
          BY <5>1
        <5>3. next = f[k] \o ss[k + 1]
          BY <4>2
        <5> QED BY <4>2, <5>1, <5>2, <5>3
      <4>3. CASE i \in 1 .. k
        <5>1. g[i] = f[i] /\ (i # 1 => g[i - 1] = f[i - 1])
          BY <4>3
        <5> QED BY <2>1, <4>3, <5>1 DEF JoinedOf
      <4> QED BY <4>1, <4>2, <4>3
    <3> HIDE DEF g
    <3>2. g = [i \in 1 .. k + 1 |-> g[i]]
      BY DEF g
    <3> QED BY <3>1, <3>2
  <2> HIDE DEF g
  <2>3. JoinedOf(g, ss, k + 1)
    BY <2>2 DEF JoinedOf
  <2> QED BY <2>3
<1> HIDE DEF S
<1>3. Nat \subseteq S
  BY <1>1, <1>2, NatSetInduction
<1> QED BY <1>3 DEF S

\* Reading them all is reading each in turn.
ReadsAll(f, ss) == \A i \in 1 .. Len(ss) : f[i] = Read(f[i - 1], ss[i])

LEMMA ReadFlattened ==
    ASSUME NEW S, NEW ss \in Seq(Seq(S)), NEW v, NEW f, f[0] = v, ReadsAll(f, ss)
    PROVE  FlattenSeq(ss) \in Seq(S) /\ Read(v, FlattenSeq(ss)) = f[Len(ss)]
<1>1. Len(ss) \in Nat /\ \A i \in 1 .. Len(ss) : ss[i] \in Seq(S)
  OBVIOUS
<1>2. CASE Len(ss) = 0
  <2>1. ss = <<>>
    BY <1>2
  <2>2. FlattenSeq(ss) = <<>>
    BY <1>2, <2>1 DEF FlattenSeq
  <2> QED BY <1>2, <2>2, ReadNothing
<1>3. CASE Len(ss) # 0
  <2> DEFINE J == CHOOSE j : JoinedOf(j, ss, Len(ss))
  <2>1. FlattenSeq(ss) = J[Len(ss)]
    BY <1>3 DEF FlattenSeq, JoinedOf
  <2>2. JoinedOf(J, ss, Len(ss))
    BY <1>1, JoinedExists
  <2> HIDE DEF J
  <2>3. J[1] = ss[1]
    BY <1>1, <1>3, <2>2 DEF JoinedOf
  <2>4. ASSUME NEW i \in 2 .. Len(ss) PROVE J[i] = J[i - 1] \o ss[i]
    <3>1. i \in 1 .. Len(ss) /\ i # 1
      OBVIOUS
    <3> QED BY <2>2, <3>1 DEF JoinedOf
  <2> DEFINE T == {k \in Nat : k + 1 <= Len(ss) => J[k + 1] \in Seq(S) /\ Read(v, J[k + 1]) = f[k + 1]}
  <2>5. 0 \in T
    <3>1. 1 \in 1 .. Len(ss) /\ 1 - 1 = 0 /\ 0 + 1 = 1
      BY <1>1, <1>3
    <3>2. f[1] = Read(f[1 - 1], ss[1])
      BY <3>1 DEF ReadsAll
    <3> QED BY <1>1, <2>3, <3>1, <3>2
  <2>6. ASSUME NEW k \in Nat, k \in T PROVE k + 1 \in T
    <3> SUFFICES ASSUME (k + 1) + 1 <= Len(ss)
                 PROVE  J[(k + 1) + 1] \in Seq(S) /\ Read(v, J[(k + 1) + 1]) = f[(k + 1) + 1]
      OBVIOUS
    <3> DEFINE m == (k + 1) + 1
    <3>1. m \in 1 .. Len(ss) /\ m \in 2 .. Len(ss) /\ m - 1 = k + 1 /\ k + 1 <= Len(ss)
      BY <1>1
    <3> HIDE DEF m
    <3>2. J[m] = J[m - 1] \o ss[m] /\ f[m] = Read(f[m - 1], ss[m]) /\ ss[m] \in Seq(S)
      BY <1>1, <2>4, <3>1 DEF ReadsAll
    <3>3. J[k + 1] \in Seq(S) /\ Read(v, J[k + 1]) = f[k + 1]
      BY <2>6, <3>1
    <3>4. Read(v, J[k + 1] \o ss[m]) = Read(Read(v, J[k + 1]), ss[m])
      BY <3>2, <3>3, ReadConcat
    <3>5. J[m] \in Seq(S)
      BY <3>1, <3>2, <3>3, ConcatProperties
    <3> QED BY <3>1, <3>2, <3>3, <3>4, <3>5 DEF m
  <2> HIDE DEF T
  <2>7. Nat \subseteq T
    BY <2>5, <2>6, NatSetInduction
  <2>8. Len(ss) - 1 \in T /\ (Len(ss) - 1) + 1 = Len(ss)
    BY <1>1, <1>3, <2>7
  <2> QED BY <1>1, <2>1, <2>8 DEF T
<1> QED BY <1>2, <1>3

----------------------------------------------------------------------------
(* What diff tells of the workspaces. *)

View(ws, windows, overview, config) ==
    [ws |-> ws, windows |-> windows, overview |-> overview, config |-> config]

WorkspaceTypes ==
    {"workspaces_changed", "workspace_active_window_changed", "workspace_urgency_changed", "workspace_activated"}
WindowTypes ==
    {"window_opened_or_changed", "window_closed", "window_urgency_changed", "window_layouts_changed",
     "window_focus_timestamp_changed", "window_focus_changed"}

LEMMA WorkspaceEvent ==
    ASSUME NEW ws, NEW windows, NEW overview, NEW config, NEW e, e.type \in WorkspaceTypes
    PROVE  Known(View(ws, windows, overview, config), e)
           = View(KnownWorkspaces(ws, e), windows, overview, config)
<1> DEFINE v == View(ws, windows, overview, config)
<1>1. KnownWindows(v.windows, e) = windows
  BY DEF WorkspaceTypes, KnownWindows, View
<1>2. KnownState(v, e) = [ws |-> KnownWorkspaces(ws, e), windows |-> windows, overview |-> overview]
  BY <1>1 DEF WorkspaceTypes, KnownState, View
<1>3. KnownConfig(v, e) = config
  BY DEF WorkspaceTypes, KnownConfig, View
<1> QED BY <1>2, <1>3 DEF Known, Told, View

LEMMA WindowEvent ==
    ASSUME NEW ws, NEW windows, NEW overview, NEW config, NEW e, e.type \in WindowTypes
    PROVE  Known(View(ws, windows, overview, config), e)
           = View(ws, KnownWindows(windows, e), overview, config)
<1> DEFINE v == View(ws, windows, overview, config)
<1>1. KnownWorkspaces(v.ws, e) = ws
  BY DEF WindowTypes, KnownWorkspaces, View
<1>2. KnownState(v, e) = [ws |-> ws, windows |-> KnownWindows(windows, e), overview |-> overview]
  BY <1>1 DEF WindowTypes, KnownState, View
<1>3. KnownConfig(v, e) = config
  BY DEF WindowTypes, KnownConfig, View
<1> QED BY <1>2, <1>3 DEF Known, Told, View

\* A list of workspaces, well typed and sane.
Entry(x, window, urgent, active, focused) ==
    [id |-> x.id, output |-> x.output, name |-> x.name, window |-> window, urgent |-> urgent,
     active |-> active, focused |-> focused]

ListOK(ws) ==
    /\ Len(ws) \in Nat
    /\ ws = [i \in 1 .. Len(ws) |-> Entry(ws[i], ws[i].window, ws[i].urgent, ws[i].active, ws[i].focused)]
    /\ \A i \in 1 .. Len(ws) : ws[i].active \in BOOLEAN /\ ws[i].focused \in BOOLEAN
    /\ \A i, j \in 1 .. Len(ws) : ws[i].id = ws[j].id => i = j
    /\ \A i \in 1 .. Len(ws) : \E j \in 1 .. Len(ws) : ws[j].output = ws[i].output /\ ws[j].active
    /\ \A i, j \in 1 .. Len(ws) : ws[i].output = ws[j].output /\ ws[i].active /\ ws[j].active => i = j
    /\ Len(ws) # 0 => \E i \in 1 .. Len(ws) : ws[i].focused
    /\ \A i, j \in 1 .. Len(ws) : ws[i].focused /\ ws[j].focused => i = j
    /\ \A i \in 1 .. Len(ws) : ws[i].focused => ws[i].active

LEMMA ListsAreOK ==
    ASSUME NEW s \in Snapshots \cup {Nothing}
    PROVE  ListOK(s.ws)
<1>1. CASE s \in Snapshots
  <2>1. Snapshot(s) /\ Sane(s)
    BY <1>1, EventStreamAssumption
  <2>2. Len(s.ws) \in Nat
    BY <2>1 DEF Snapshot
  <2>3. s.ws = [i \in 1 .. Len(s.ws) |-> Entry(s.ws[i], s.ws[i].window, s.ws[i].urgent, s.ws[i].active, s.ws[i].focused)]
    BY <2>1 DEF Snapshot, Entry
  <2>4. DOMAIN s.ws = 1 .. Len(s.ws)
    BY <2>3
  <2>5. Len(s.ws) # 0 => s.ws # <<>>
    OBVIOUS
  <2> DEFINE ws == s.ws
  <2>6. /\ \A i \in 1 .. Len(ws) : ws[i].active \in BOOLEAN /\ ws[i].focused \in BOOLEAN
        /\ \A i, j \in 1 .. Len(ws) : ws[i].id = ws[j].id => i = j
        /\ \A i \in 1 .. Len(ws) : \E j \in 1 .. Len(ws) : ws[j].output = ws[i].output /\ ws[j].active
        /\ \A i, j \in 1 .. Len(ws) : ws[i].output = ws[j].output /\ ws[i].active /\ ws[j].active => i = j
        /\ Len(ws) # 0 => \E i \in 1 .. Len(ws) : ws[i].focused
        /\ \A i, j \in 1 .. Len(ws) : ws[i].focused /\ ws[j].focused => i = j
        /\ \A i \in 1 .. Len(ws) : ws[i].focused => ws[i].active
    BY <2>1, <2>4, <2>5 DEF Snapshot, Sane
  <2> QED BY <2>2, <2>3, <2>6 DEF ListOK
<1>2. CASE s = Nothing
  <2>1. s.ws = <<>>
    BY <1>2 DEF Nothing
  <2>2. Len(s.ws) = 0 /\ 1 .. 0 = {}
    BY <2>1
  <2> QED BY <2>1, <2>2 DEF ListOK
<1> QED BY <1>1, <1>2

\* The list that has the entries of next but for what is given.
Entries(next, window, urgent, active, focused) ==
    [i \in 1 .. Len(next) |-> Entry(next[i], window[i], urgent[i], active[i], focused[i])]

\* The list once the events of the first k workspaces are read.
Rises(old, new) == (new.focused /\ ~old.focused) \/ (new.active /\ ~old.active)

WindowAfter(prev, next, k) == [i \in 1 .. Len(next) |-> IF i <= k THEN next[i].window ELSE prev[i].window]

UrgentAfter(prev, next, k) == [i \in 1 .. Len(next) |-> IF i <= k THEN next[i].urgent ELSE prev[i].urgent]

ActiveAfter(prev, next, k) ==
    [i \in 1 .. Len(next) |->
       IF \E j \in 1 .. k : Rises(prev[j], next[j]) /\ next[j].output = next[i].output
       THEN next[i].active ELSE prev[i].active]

FocusedAfter(prev, next, k) ==
    [i \in 1 .. Len(next) |->
       IF \E j \in 1 .. k : next[j].focused /\ ~prev[j].focused THEN next[i].focused ELSE prev[i].focused]

ListAfter(prev, next, k) ==
    Entries(next, WindowAfter(prev, next, k), UrgentAfter(prev, next, k),
            ActiveAfter(prev, next, k), FocusedAfter(prev, next, k))

SameShape(prev, next) ==
    /\ Len(prev) = Len(next)
    /\ \A i \in 1 .. Len(next) : prev[i].id = next[i].id /\ prev[i].output = next[i].output /\ prev[i].name = next[i].name

LEMMA NotRestructured ==
    ASSUME NEW prev, NEW next, ListOK(prev), ListOK(next), ~Restructured(prev, next)
    PROVE  SameShape(prev, next)
<1>1. Len(prev) = Len(next) /\ DOMAIN next = 1 .. Len(next)
  BY DEF Restructured, ListOK
<1>2. \A i \in 1 .. Len(next) : Place(prev[i]) = Place(next[i])
  BY <1>1 DEF Restructured
<1> QED BY <1>1, <1>2 DEF SameShape, Place

LEMMA ListBefore ==
    ASSUME NEW prev, NEW next, ListOK(prev), ListOK(next), SameShape(prev, next)
    PROVE  ListAfter(prev, next, 0) = prev
<1>1. ASSUME NEW i \in 1 .. Len(next)
      PROVE  Entry(next[i], prev[i].window, prev[i].urgent, prev[i].active, prev[i].focused) = prev[i]
  <2>1. prev[i] = Entry(prev[i], prev[i].window, prev[i].urgent, prev[i].active, prev[i].focused)
    BY DEF ListOK, SameShape
  <2> QED BY <2>1 DEF SameShape, Entry
<1>2. ListAfter(prev, next, 0)
      = [i \in 1 .. Len(next) |-> Entry(next[i], prev[i].window, prev[i].urgent, prev[i].active, prev[i].focused)]
  BY DEF ListAfter, Entries, WindowAfter, UrgentAfter, ActiveAfter, FocusedAfter
<1>3. prev = [i \in 1 .. Len(next) |-> prev[i]]
  BY DEF ListOK, SameShape
<1> QED BY <1>1, <1>2, <1>3

LEMMA ListAtTheEnd ==
    ASSUME NEW prev, NEW next, ListOK(prev), ListOK(next), SameShape(prev, next)
    PROVE  ListAfter(prev, next, Len(next)) = next
<1> DEFINE n == Len(next)
           A(i) == IF \E j \in 1 .. n : Rises(prev[j], next[j]) /\ next[j].output = next[i].output
                   THEN next[i].active ELSE prev[i].active
           F(i) == IF \E j \in 1 .. n : next[j].focused /\ ~prev[j].focused
                   THEN next[i].focused ELSE prev[i].focused
<1>1. ASSUME NEW i \in 1 .. n PROVE A(i) = next[i].active
  <2>1. CASE \E j \in 1 .. n : Rises(prev[j], next[j]) /\ next[j].output = next[i].output
    BY <2>1
  <2>2. CASE ~ \E j \in 1 .. n : Rises(prev[j], next[j]) /\ next[j].output = next[i].output
    <3>1. PICK j \in 1 .. n : next[j].output = next[i].output /\ next[j].active
      BY DEF ListOK
    <3>2. prev[j].active /\ prev[j].output = prev[i].output
      BY <2>2, <3>1 DEF Rises, SameShape
    <3>3. prev[i].active <=> i = j
      BY <3>2 DEF ListOK, SameShape
    <3>4. next[i].active <=> i = j
      BY <3>1 DEF ListOK
    <3>5. prev[i].active \in BOOLEAN /\ next[i].active \in BOOLEAN
      BY DEF ListOK, SameShape
    <3> QED BY <2>2, <3>3, <3>4, <3>5
  <2> QED BY <2>1, <2>2
<1>2. ASSUME NEW i \in 1 .. n PROVE F(i) = next[i].focused
  <2>1. CASE \E j \in 1 .. n : next[j].focused /\ ~prev[j].focused
    BY <2>1
  <2>2. CASE ~ \E j \in 1 .. n : next[j].focused /\ ~prev[j].focused
    <3>1. PICK j \in 1 .. n : next[j].focused
      BY DEF ListOK
    <3>2. prev[j].focused
      BY <2>2, <3>1
    <3>3. prev[i].focused <=> i = j
      BY <3>2 DEF ListOK, SameShape
    <3>4. next[i].focused <=> i = j
      BY <3>1 DEF ListOK
    <3>5. prev[i].focused \in BOOLEAN /\ next[i].focused \in BOOLEAN
      BY DEF ListOK, SameShape
    <3> QED BY <2>2, <3>3, <3>4, <3>5
  <2> QED BY <2>1, <2>2
<1>3. ListAfter(prev, next, n) = [i \in 1 .. n |-> Entry(next[i], next[i].window, next[i].urgent, A(i), F(i))]
  BY DEF ListAfter, Entries, WindowAfter, UrgentAfter, ActiveAfter, FocusedAfter
<1> HIDE DEF A, F
<1>4. ListAfter(prev, next, n)
      = [i \in 1 .. n |-> Entry(next[i], next[i].window, next[i].urgent, next[i].active, next[i].focused)]
  BY <1>1, <1>2, <1>3
<1> QED BY <1>4 DEF ListOK

\* One workspace's events take the list one entry further.
WindowTold(id, window) == [type |-> "workspace_active_window_changed", id |-> id, window |-> window]
UrgencyTold(id, urgent) == [type |-> "workspace_urgency_changed", id |-> id, urgent |-> urgent]
ActivationTold(id, focused) == [type |-> "workspace_activated", id |-> id, focused |-> focused]

FlagSet(new) ==
    {WindowTold(new.id, new.window), UrgencyTold(new.id, new.urgent),
     ActivationTold(new.id, TRUE), ActivationTold(new.id, FALSE)}

LEMMA FlagEventsAre ==
    ASSUME NEW old, NEW new, old.active \in BOOLEAN, old.focused \in BOOLEAN,
           new.active \in BOOLEAN, new.focused \in BOOLEAN, NEW v
    PROVE  /\ FlagEvents(old, new) \in Seq(FlagSet(new))
           /\ Read(v, FlagEvents(old, new))
              = Read(Read(Read(v, If(old.window # new.window, WindowTold(new.id, new.window))),
                          If(old.urgent # new.urgent, UrgencyTold(new.id, new.urgent))),
                     If(Rises(old, new), ActivationTold(new.id, new.focused /\ ~old.focused)))
<1> DEFINE a == If(old.window # new.window, WindowTold(new.id, new.window))
           b == If(old.urgent # new.urgent, UrgencyTold(new.id, new.urgent))
           c == If(Rises(old, new), ActivationTold(new.id, new.focused /\ ~old.focused))
           S == FlagSet(new)
<1>0. ASSUME NEW condition, NEW e \in S PROVE If(condition, e) \in Seq(S)
  BY DEF If
<1>1. a \in Seq(S) /\ b \in Seq(S)
  <2>1. WindowTold(new.id, new.window) \in S /\ UrgencyTold(new.id, new.urgent) \in S
    BY DEF FlagSet
  <2> HIDE DEF S
  <2> QED BY <1>0, <2>1
<1>2. c \in Seq(S)
  <2>1. (new.focused /\ ~old.focused) = TRUE \/ (new.focused /\ ~old.focused) = FALSE
    OBVIOUS
  <2>2. ActivationTold(new.id, new.focused /\ ~old.focused) \in S
    BY <2>1 DEF FlagSet
  <2> HIDE DEF S
  <2> QED BY <1>0, <2>2
<1>3. FlagEvents(old, new) = (a \o b) \o c
  BY DEF FlagEvents, WindowTold, UrgencyTold, ActivationTold, Rises
<1> HIDE DEF a, b, c, S
<1>4. a \o b \in Seq(S) /\ (a \o b) \o c \in Seq(S)
  BY <1>1, <1>2, ConcatProperties
<1>5. Read(v, (a \o b) \o c) = Read(Read(v, a \o b), c)
  <2> DEFINE d == a \o b
  <2>1. d \in Seq(S)
    BY <1>4
  <2> HIDE DEF d
  <2>2. Read(v, d \o c) = Read(Read(v, d), c)
    BY <1>2, <2>1, ReadConcat
  <2> QED BY <2>2 DEF d
<1>6. Read(v, a \o b) = Read(Read(v, a), b)
  BY <1>1, ReadConcat
<1> QED BY <1>3, <1>4, <1>5, <1>6 DEF a, b, c, S

\* An entry of the list is changed.
WithField(r, field, value) == [r EXCEPT ![field] = value]
WithFlags(r, active, focused) == [r EXCEPT !.active = active, !.focused = focused]

LEMMA EntryChanges ==
    ASSUME NEW x, NEW window, NEW urgent, NEW active, NEW focused, NEW value
    PROVE  /\ WithField(Entry(x, window, urgent, active, focused), "window", value)
              = Entry(x, value, urgent, active, focused)
           /\ WithField(Entry(x, window, urgent, active, focused), "urgent", value)
              = Entry(x, window, value, active, focused)
<1>1. ASSUME NEW field, field = "window"
      PROVE  [Entry(x, window, urgent, active, focused) EXCEPT ![field] = value]
             = Entry(x, value, urgent, active, focused)
  BY <1>1 DEF Entry
<1>2. ASSUME NEW field, field = "urgent"
      PROVE  [Entry(x, window, urgent, active, focused) EXCEPT ![field] = value]
             = Entry(x, window, value, active, focused)
  BY <1>2 DEF Entry
<1> QED BY <1>1, <1>2 DEF WithField

LEMMA EntryActivates ==
    ASSUME NEW x, NEW window, NEW urgent, NEW active, NEW focused, NEW a, NEW f
    PROVE  WithFlags(Entry(x, window, urgent, active, focused), a, f) = Entry(x, window, urgent, a, f)
<1> DEFINE r == [Entry(x, window, urgent, active, focused) EXCEPT !.active = a, !.focused = f]
<1>1. /\ r.id = x.id /\ r.output = x.output /\ r.name = x.name /\ r.window = window
      /\ r.urgent = urgent /\ r.active = a /\ r.focused = f
  BY DEF Entry
<1>2. r = [field \in {"id", "output", "name", "window", "urgent", "active", "focused"} |-> r[field]]
  BY DEF Entry
<1> HIDE DEF r
<1>3. r = [id |-> r.id, output |-> r.output, name |-> r.name, window |-> r.window, urgent |-> r.urgent,
           active |-> r.active, focused |-> r.focused]
  BY <1>2
<1>4. r = Entry(x, window, urgent, a, f)
  BY <1>1, <1>3 DEF Entry
<1> QED BY <1>4 DEF r, WithFlags

\* A value put at the place k.
Put(next, f, k, value) == [i \in 1 .. Len(next) |-> IF i = k THEN value ELSE f[i]]

LEMMA OneEntry ==
    ASSUME NEW next, ListOK(next), NEW window, NEW urgent, NEW active, NEW focused,
           NEW k \in 1 .. Len(next), NEW value
    PROVE  /\ OnWorkspace(Entries(next, window, urgent, active, focused), next[k].id, "window", value)
              = Entries(next, Put(next, window, k, value), urgent, active, focused)
           /\ OnWorkspace(Entries(next, window, urgent, active, focused), next[k].id, "urgent", value)
              = Entries(next, window, Put(next, urgent, k, value), active, focused)
<1> DEFINE ws == Entries(next, window, urgent, active, focused)
<1>1. DOMAIN ws = 1 .. Len(next)
      /\ \A i \in 1 .. Len(next) : ws[i] = Entry(next[i], window[i], urgent[i], active[i], focused[i])
  BY DEF Entries
<1>2. \A i \in 1 .. Len(next) : ws[i].id = next[i].id
  BY <1>1 DEF Entry
<1> HIDE DEF ws
<1>3. {i \in DOMAIN ws : ws[i].id = next[k].id} = {k}
  BY <1>1, <1>2 DEF ListOK
<1>4. OnWorkspace(ws, next[k].id, "window", value)
      = [i \in 1 .. Len(next) |-> IF i = k THEN [ws[i] EXCEPT !["window"] = value] ELSE ws[i]]
  BY <1>1, <1>3 DEF OnWorkspace, Updated
<1>5. OnWorkspace(ws, next[k].id, "urgent", value)
      = [i \in 1 .. Len(next) |-> IF i = k THEN [ws[i] EXCEPT !["urgent"] = value] ELSE ws[i]]
  BY <1>1, <1>3 DEF OnWorkspace, Updated
<1>6. ASSUME NEW i \in 1 .. Len(next)
      PROVE  (IF i = k THEN [ws[i] EXCEPT !["window"] = value] ELSE ws[i])
             = Entry(next[i], IF i = k THEN value ELSE window[i], urgent[i], active[i], focused[i])
  <2>1. WithField(Entry(next[i], window[i], urgent[i], active[i], focused[i]), "window", value)
        = Entry(next[i], value, urgent[i], active[i], focused[i])
    BY EntryChanges
  <2> QED BY <1>1, <2>1 DEF WithField
<1>7. ASSUME NEW i \in 1 .. Len(next)
      PROVE  (IF i = k THEN [ws[i] EXCEPT !["urgent"] = value] ELSE ws[i])
             = Entry(next[i], window[i], IF i = k THEN value ELSE urgent[i], active[i], focused[i])
  <2>1. WithField(Entry(next[i], window[i], urgent[i], active[i], focused[i]), "urgent", value)
        = Entry(next[i], window[i], value, active[i], focused[i])
    BY EntryChanges
  <2> QED BY <1>1, <2>1 DEF WithField
<1>8. OnWorkspace(ws, next[k].id, "window", value)
      = Entries(next, Put(next, window, k, value), urgent, active, focused)
  BY <1>4, <1>6 DEF Entries, Put
<1>9. OnWorkspace(ws, next[k].id, "urgent", value)
      = Entries(next, window, Put(next, urgent, k, value), active, focused)
  BY <1>5, <1>7 DEF Entries, Put
<1> QED BY <1>8, <1>9 DEF ws

LEMMA OneActivated ==
    ASSUME NEW next, ListOK(next), NEW window, NEW urgent, NEW active, NEW focused,
           NEW k \in 1 .. Len(next), NEW taken
    PROVE  Activated(Entries(next, window, urgent, active, focused), next[k].id, taken)
           = Entries(next, window, urgent,
                     [i \in 1 .. Len(next) |-> IF next[i].output = next[k].output THEN i = k ELSE active[i]],
                     [i \in 1 .. Len(next) |-> IF taken THEN i = k ELSE focused[i]])
<1> DEFINE ws == Entries(next, window, urgent, active, focused)
           output == (CHOOSE x \in Range(ws) : x.id = next[k].id).output
           A == [i \in 1 .. Len(next) |-> IF next[i].output = next[k].output THEN i = k ELSE active[i]]
           F == [i \in 1 .. Len(next) |-> IF taken THEN i = k ELSE focused[i]]
<1>1. DOMAIN ws = 1 .. Len(next)
      /\ \A i \in 1 .. Len(next) : ws[i] = Entry(next[i], window[i], urgent[i], active[i], focused[i])
  BY DEF Entries
<1>2. \A i \in 1 .. Len(next) : /\ ws[i].id = next[i].id /\ ws[i].output = next[i].output
                                /\ ws[i].active = active[i] /\ ws[i].focused = focused[i]
  BY <1>1 DEF Entry
<1> HIDE DEF ws
<1>3. Activated(ws, next[k].id, taken)
      = [i \in 1 .. Len(next) |->
            [ws[i] EXCEPT !.active = IF ws[i].output = output THEN ws[i].id = next[k].id ELSE ws[i].active,
                          !.focused = IF taken THEN ws[i].id = next[k].id ELSE ws[i].focused]]
  BY <1>1 DEF Activated
<1>4. output = next[k].output
  <2>1. Range(ws) = {ws[i] : i \in 1 .. Len(next)}
    BY <1>1 DEF Range
  <2>2. ws[k] \in Range(ws) /\ ws[k].id = next[k].id
    BY <1>2, <2>1
  <2>3. ASSUME NEW x \in Range(ws), x.id = next[k].id PROVE x = ws[k]
    <3>1. PICK i \in 1 .. Len(next) : x = ws[i]
      BY <2>1
    <3>2. next[i].id = next[k].id
      BY <1>2, <2>3, <3>1
    <3>3. i = k
      BY <3>2 DEF ListOK
    <3> QED BY <3>1, <3>3
  <2>4. (CHOOSE x \in Range(ws) : x.id = next[k].id) = ws[k]
    BY <2>2, <2>3
  <2> QED BY <1>2, <2>4
<1> HIDE DEF output
<1>5. ASSUME NEW i \in 1 .. Len(next)
      PROVE  [ws[i] EXCEPT !.active = IF ws[i].output = output THEN ws[i].id = next[k].id ELSE ws[i].active,
                           !.focused = IF taken THEN ws[i].id = next[k].id ELSE ws[i].focused]
             = Entry(next[i], window[i], urgent[i], A[i], F[i])
  <2>1. (ws[i].id = next[k].id) = (i = k)
    BY <1>2 DEF ListOK
  <2>2. A[i] = IF ws[i].output = output THEN ws[i].id = next[k].id ELSE ws[i].active
    BY <1>2, <1>4, <2>1
  <2>3. F[i] = IF taken THEN ws[i].id = next[k].id ELSE ws[i].focused
    BY <1>2, <2>1
  <2> HIDE DEF A, F
  <2>4. ws[i] = Entry(next[i], window[i], urgent[i], active[i], focused[i])
    BY <1>1
  <2> DEFINE a == A[i]
             f == F[i]
  <2>5. /\ a = IF ws[i].output = output THEN ws[i].id = next[k].id ELSE ws[i].active
        /\ f = IF taken THEN ws[i].id = next[k].id ELSE ws[i].focused
    BY <2>2, <2>3
  <2> HIDE DEF a, f
  <2>6. [ws[i] EXCEPT !.active = a, !.focused = f] = Entry(next[i], window[i], urgent[i], a, f)
    <3>1. WithFlags(Entry(next[i], window[i], urgent[i], active[i], focused[i]), a, f)
          = Entry(next[i], window[i], urgent[i], a, f)
      BY EntryActivates
    <3> QED BY <2>4, <3>1 DEF WithFlags
  <2> QED BY <2>5, <2>6 DEF a, f
<1> HIDE DEF A, F
<1>6. Activated(ws, next[k].id, taken) = Entries(next, window, urgent, A, F)
  BY <1>3, <1>5 DEF Entries
<1> QED BY <1>6 DEF ws, A, F

LEMMA OneWorkspaceTold ==
    ASSUME NEW prev, NEW next, ListOK(prev), ListOK(next), SameShape(prev, next),
           NEW k \in 1 .. Len(next), NEW windows, NEW overview, NEW config
    PROVE  /\ FlagEvents(prev[k], next[k]) \in Seq(FlagSet(next[k]))
           /\ Read(View(ListAfter(prev, next, k - 1), windows, overview, config), FlagEvents(prev[k], next[k]))
              = View(ListAfter(prev, next, k), windows, overview, config)
<1> DEFINE old == prev[k]
           new == next[k]
           V(ws) == View(ws, windows, overview, config)
           W0 == WindowAfter(prev, next, k - 1)
           W1 == WindowAfter(prev, next, k)
           U0 == UrgentAfter(prev, next, k - 1)
           U1 == UrgentAfter(prev, next, k)
           A0 == ActiveAfter(prev, next, k - 1)
           A1 == ActiveAfter(prev, next, k)
           F0 == FocusedAfter(prev, next, k - 1)
           F1 == FocusedAfter(prev, next, k)
           a == If(old.window # new.window, WindowTold(new.id, new.window))
           b == If(old.urgent # new.urgent, UrgencyTold(new.id, new.urgent))
           taken == new.focused /\ ~old.focused
           c == If(Rises(old, new), ActivationTold(new.id, taken))
<1>1. /\ Len(next) \in Nat /\ k \in 1 .. Len(prev) /\ k - 1 \in Nat
      /\ old.active \in BOOLEAN /\ old.focused \in BOOLEAN /\ new.active \in BOOLEAN /\ new.focused \in BOOLEAN
  BY DEF ListOK, SameShape
<1>2. Read(V(Entries(next, W0, U0, A0, F0)), a) = V(Entries(next, W1, U0, A0, F0))
  <2>1. CASE (old.window # new.window) = TRUE
    <3>1. Read(V(Entries(next, W0, U0, A0, F0)), a) = Known(V(Entries(next, W0, U0, A0, F0)), WindowTold(new.id, new.window))
      BY <2>1, ReadIf
    <3>2. KnownWorkspaces(Entries(next, W0, U0, A0, F0), WindowTold(new.id, new.window))
          = OnWorkspace(Entries(next, W0, U0, A0, F0), new.id, "window", new.window)
      BY DEF KnownWorkspaces, WindowTold
    <3>3. W1 = Put(next, W0, k, next[k].window)
      BY <1>1 DEF WindowAfter, Put
    <3>4. OnWorkspace(Entries(next, W0, U0, A0, F0), new.id, "window", new.window) = Entries(next, W1, U0, A0, F0)
      <4> HIDE DEF W0, W1, U0, A0, F0
      <4>1. OnWorkspace(Entries(next, W0, U0, A0, F0), next[k].id, "window", next[k].window)
            = Entries(next, Put(next, W0, k, next[k].window), U0, A0, F0)
        BY OneEntry
      <4> QED BY <3>3, <4>1
    <3>5. WindowTold(new.id, new.window).type \in WorkspaceTypes
      BY DEF WindowTold, WorkspaceTypes
    <3> QED BY <3>1, <3>2, <3>4, <3>5, WorkspaceEvent
  <2>2. CASE (old.window # new.window) = FALSE
    <3>1. Read(V(Entries(next, W0, U0, A0, F0)), a) = V(Entries(next, W0, U0, A0, F0))
      BY <2>2, ReadIf
    <3>2. W1 = W0
      BY <1>1, <2>2 DEF WindowAfter
    <3> QED BY <3>1, <3>2
  <2> QED BY <2>1, <2>2
<1>3. Read(V(Entries(next, W1, U0, A0, F0)), b) = V(Entries(next, W1, U1, A0, F0))
  <2>1. CASE (old.urgent # new.urgent) = TRUE
    <3>1. Read(V(Entries(next, W1, U0, A0, F0)), b) = Known(V(Entries(next, W1, U0, A0, F0)), UrgencyTold(new.id, new.urgent))
      BY <2>1, ReadIf
    <3>2. KnownWorkspaces(Entries(next, W1, U0, A0, F0), UrgencyTold(new.id, new.urgent))
          = OnWorkspace(Entries(next, W1, U0, A0, F0), new.id, "urgent", new.urgent)
      BY DEF KnownWorkspaces, UrgencyTold
    <3>3. U1 = Put(next, U0, k, next[k].urgent)
      BY <1>1 DEF UrgentAfter, Put
    <3>4. OnWorkspace(Entries(next, W1, U0, A0, F0), new.id, "urgent", new.urgent) = Entries(next, W1, U1, A0, F0)
      <4> HIDE DEF W1, U0, U1, A0, F0
      <4>1. OnWorkspace(Entries(next, W1, U0, A0, F0), next[k].id, "urgent", next[k].urgent)
            = Entries(next, W1, Put(next, U0, k, next[k].urgent), A0, F0)
        BY OneEntry
      <4> QED BY <3>3, <4>1
    <3>5. UrgencyTold(new.id, new.urgent).type \in WorkspaceTypes
      BY DEF UrgencyTold, WorkspaceTypes
    <3> QED BY <3>1, <3>2, <3>4, <3>5, WorkspaceEvent
  <2>2. CASE (old.urgent # new.urgent) = FALSE
    <3>1. Read(V(Entries(next, W1, U0, A0, F0)), b) = V(Entries(next, W1, U0, A0, F0))
      BY <2>2, ReadIf
    <3>2. U1 = U0
      BY <1>1, <2>2 DEF UrgentAfter
    <3> QED BY <3>1, <3>2
  <2> QED BY <2>1, <2>2
<1>4. Read(V(Entries(next, W1, U1, A0, F0)), c) = V(Entries(next, W1, U1, A1, F1))
  <2>0. Rises(old, new) \in BOOLEAN /\ taken \in BOOLEAN
    BY DEF Rises
  <2>1. CASE Rises(old, new) = TRUE
    <3>1. Read(V(Entries(next, W1, U1, A0, F0)), c) = Known(V(Entries(next, W1, U1, A0, F0)), ActivationTold(new.id, taken))
      BY <2>0, <2>1, ReadIf
    <3>2. KnownWorkspaces(Entries(next, W1, U1, A0, F0), ActivationTold(new.id, taken))
          = Activated(Entries(next, W1, U1, A0, F0), new.id, taken)
      BY DEF KnownWorkspaces, ActivationTold
    <3>3. new.active
      BY <1>1, <2>1 DEF Rises, ListOK
    <3>4. A1 = [i \in 1 .. Len(next) |-> IF next[i].output = new.output THEN i = k ELSE A0[i]]
      <4>1. ASSUME NEW i \in 1 .. Len(next) PROVE A1[i] = IF next[i].output = new.output THEN i = k ELSE A0[i]
        <5>1. CASE next[i].output = new.output
          <6>1. A1[i] = next[i].active
            BY <2>1, <5>1 DEF ActiveAfter
          <6>2. next[i].active <=> i = k
            BY <3>3, <5>1 DEF ListOK
          <6>3. next[i].active \in BOOLEAN
            BY DEF ListOK
          <6> QED BY <5>1, <6>1, <6>2, <6>3
        <5>2. CASE next[i].output # new.output
          <6>1. (\E j \in 1 .. k : Rises(prev[j], next[j]) /\ next[j].output = next[i].output)
                <=> \E j \in 1 .. k - 1 : Rises(prev[j], next[j]) /\ next[j].output = next[i].output
            BY <1>1, <5>2
          <6> QED BY <5>2, <6>1 DEF ActiveAfter
        <5> QED BY <5>1, <5>2
      <4>2. A1 = [i \in 1 .. Len(next) |-> A1[i]]
        BY DEF ActiveAfter
      <4> QED BY <4>1, <4>2
    <3>5. F1 = [i \in 1 .. Len(next) |-> IF taken THEN i = k ELSE F0[i]]
      <4>1. ASSUME NEW i \in 1 .. Len(next) PROVE F1[i] = IF taken THEN i = k ELSE F0[i]
        <5>1. CASE taken
          <6>1. F1[i] = next[i].focused
            BY <5>1 DEF FocusedAfter
          <6>2. next[i].focused <=> i = k
            BY <5>1 DEF ListOK
          <6>3. next[i].focused \in BOOLEAN
            BY DEF ListOK
          <6> QED BY <5>1, <6>1, <6>2, <6>3
        <5>2. CASE ~taken
          <6>1. (\E j \in 1 .. k : next[j].focused /\ ~prev[j].focused)
                <=> \E j \in 1 .. k - 1 : next[j].focused /\ ~prev[j].focused
            BY <1>1, <5>2
          <6> QED BY <5>2, <6>1 DEF FocusedAfter
        <5> QED BY <5>1, <5>2
      <4>2. F1 = [i \in 1 .. Len(next) |-> F1[i]]
        BY DEF FocusedAfter
      <4> QED BY <4>1, <4>2
    <3>6. Activated(Entries(next, W1, U1, A0, F0), new.id, taken) = Entries(next, W1, U1, A1, F1)
      <4> HIDE DEF W1, U1, A0, A1, F0, F1, taken
      <4>1. Activated(Entries(next, W1, U1, A0, F0), next[k].id, taken)
            = Entries(next, W1, U1,
                      [i \in 1 .. Len(next) |-> IF next[i].output = next[k].output THEN i = k ELSE A0[i]],
                      [i \in 1 .. Len(next) |-> IF taken THEN i = k ELSE F0[i]])
        BY OneActivated
      <4> QED BY <3>4, <3>5, <4>1
    <3>7. ActivationTold(new.id, taken).type \in WorkspaceTypes
      BY DEF ActivationTold, WorkspaceTypes
    <3> QED BY <3>1, <3>2, <3>6, <3>7, WorkspaceEvent
  <2>2. CASE Rises(old, new) = FALSE
    <3>1. Read(V(Entries(next, W1, U1, A0, F0)), c) = V(Entries(next, W1, U1, A0, F0))
      BY <2>2, ReadIf
    <3>2. A1 = A0
      <4>1. ASSUME NEW i \in 1 .. Len(next)
            PROVE  (\E j \in 1 .. k : Rises(prev[j], next[j]) /\ next[j].output = next[i].output)
                   <=> \E j \in 1 .. k - 1 : Rises(prev[j], next[j]) /\ next[j].output = next[i].output
        BY <1>1, <2>2
      <4> QED BY <4>1 DEF ActiveAfter
    <3>3. F1 = F0
      <4>1. (\E j \in 1 .. k : next[j].focused /\ ~prev[j].focused)
            <=> \E j \in 1 .. k - 1 : next[j].focused /\ ~prev[j].focused
        BY <1>1, <2>2 DEF Rises
      <4> QED BY <4>1 DEF FocusedAfter
    <3> QED BY <3>1, <3>2, <3>3
  <2> QED BY <2>0, <2>1, <2>2
<1>5. /\ FlagEvents(old, new) \in Seq(FlagSet(new))
      /\ Read(V(Entries(next, W0, U0, A0, F0)), FlagEvents(old, new))
         = Read(Read(Read(V(Entries(next, W0, U0, A0, F0)), a), b), c)
  BY <1>1, FlagEventsAre
<1> QED BY <1>2, <1>3, <1>4, <1>5 DEF ListAfter

\* Events that tell nothing of a config load.
StateEvents(events) == \E S : events \in Seq(S) /\ \A e \in S : e.type # "config_loaded"

LEMMA ListsTell ==
    ASSUME NEW prev, NEW next, ListOK(prev), ListOK(next), NEW windows, NEW overview, NEW config
    PROVE  /\ StateEvents(WorkspaceEvents(prev, next))
           /\ Read(View(prev, windows, overview, config), WorkspaceEvents(prev, next))
              = View(next, windows, overview, config)
<1>1. CASE Restructured(prev, next)
  <2> DEFINE e == [type |-> "workspaces_changed", ws |-> next]
  <2>1. WorkspaceEvents(prev, next) = <<e>>
    BY <1>1 DEF WorkspaceEvents
  <2>2. KnownWorkspaces(prev, e) = next /\ e.type \in WorkspaceTypes /\ e.type # "config_loaded"
    BY DEF KnownWorkspaces, WorkspaceTypes
  <2>3. StateEvents(<<e>>)
    <3> DEFINE S == {e}
    <3>1. <<e>> \in Seq(S) /\ \A x \in S : x.type # "config_loaded"
      BY <2>2
    <3> HIDE DEF S, e
    <3> QED BY <3>1 DEF StateEvents
  <2> HIDE DEF e
  <2>4. Read(View(prev, windows, overview, config), <<e>>) = Known(View(prev, windows, overview, config), e)
    BY ReadOne
  <2>5. Known(View(prev, windows, overview, config), e) = View(KnownWorkspaces(prev, e), windows, overview, config)
    BY <2>2, WorkspaceEvent
  <2> QED BY <2>1, <2>2, <2>3, <2>4, <2>5
<1>2. CASE ~Restructured(prev, next)
  <2> DEFINE n == Len(next)
             V(ws) == View(ws, windows, overview, config)
             ss == [i \in DOMAIN next |-> FlagEvents(prev[i], next[i])]
             S == UNION {FlagSet(next[i]) : i \in 1 .. n}
             f == [k \in 0 .. n |-> V(ListAfter(prev, next, k))]
  <2>1. SameShape(prev, next)
    BY <1>2, NotRestructured
  <2>2. n \in Nat /\ DOMAIN next = 1 .. n
    BY DEF ListOK
  <2>3. WorkspaceEvents(prev, next) = FlattenSeq(ss)
    BY <1>2 DEF WorkspaceEvents
  <2>4. ASSUME NEW i \in 1 .. n
        PROVE  /\ FlagEvents(prev[i], next[i]) \in Seq(S)
               /\ f[i] = Read(f[i - 1], FlagEvents(prev[i], next[i]))
    <3>1. FlagEvents(prev[i], next[i]) \in Seq(FlagSet(next[i]))
      BY <2>1, OneWorkspaceTold
    <3>2. FlagSet(next[i]) \subseteq S
      OBVIOUS
    <3>3. V(ListAfter(prev, next, i)) = Read(V(ListAfter(prev, next, i - 1)), FlagEvents(prev[i], next[i]))
      BY <2>1, OneWorkspaceTold
    <3>4. i \in 0 .. n /\ i - 1 \in 0 .. n
      BY <2>2
    <3> HIDE DEF S
    <3>5. FlagEvents(prev[i], next[i]) \in Seq(S)
      BY <3>1, <3>2, SeqMonotonic
    <3> QED BY <3>3, <3>4, <3>5
  <2>5. \A e \in S : e.type # "config_loaded"
    BY DEF FlagSet, WindowTold, UrgencyTold, ActivationTold
  <2>6. f[0] = V(prev) /\ f[n] = V(next)
    BY <2>1, <2>2, ListBefore, ListAtTheEnd
  <2> HIDE DEF S
  <2>7. ss = [i \in 1 .. n |-> FlagEvents(prev[i], next[i])] /\ ss \in Seq(Seq(S)) /\ Len(ss) = n
    <3> DEFINE T == Seq(S)
    <3>1. \A i \in 1 .. n : FlagEvents(prev[i], next[i]) \in T
      BY <2>4
    <3>2. ss = [i \in 1 .. n |-> FlagEvents(prev[i], next[i])]
      BY <2>2
    <3> HIDE DEF T
    <3>3. ss \in Seq(T) /\ Len(ss) = n
      BY <2>2, <3>1, <3>2
    <3> QED BY <3>2, <3>3 DEF T
  <2>8. ReadsAll(f, ss)
    BY <2>4, <2>7 DEF ReadsAll
  <2> HIDE DEF ss, f
  <2>9. FlattenSeq(ss) \in Seq(S) /\ Read(V(prev), FlattenSeq(ss)) = f[Len(ss)]
    <3> DEFINE v == V(prev)
    <3>1. f[0] = v
      BY <2>6
    <3>2. ss \in Seq(Seq(S))
      BY <2>7
    <3> HIDE DEF v
    <3>3. FlattenSeq(ss) \in Seq(S) /\ Read(v, FlattenSeq(ss)) = f[Len(ss)]
      BY <2>8, <3>1, <3>2, ReadFlattened
    <3> QED BY <3>3 DEF v
  <2>10. StateEvents(FlattenSeq(ss))
    BY <2>5, <2>9 DEF StateEvents
  <2> QED BY <2>3, <2>6, <2>7, <2>9, <2>10
<1> QED BY <1>1, <1>2

----------------------------------------------------------------------------
(* What diff tells of the windows. *)

\* Every element of S, once.
Listing(q, S) ==
    /\ q \in Seq(S) /\ Len(q) \in Nat /\ DOMAIN q = 1 .. Len(q)
    /\ \A i, j \in 1 .. Len(q) : q[i] = q[j] => i = j
    /\ \A x \in S : \E i \in 1 .. Len(q) : q[i] = x

LEMMA SetToSeqLists ==
    ASSUME NEW S, IsFiniteSet(S)
    PROVE  Listing(SetToSeq(S), S)
<1> DEFINE n == Cardinality(S)
           q == SetToSeq(S)
<1>1. n \in Nat /\ ExistsBijection(1 .. n, S)
  BY FS_CardinalityType
<1>2. PICK f : f \in Bijection(1 .. n, S)
  BY <1>1 DEF ExistsBijection
<1>3. f \in [1 .. n -> S] /\ IsInjective(f)
  BY <1>2 DEF Bijection, Injection, IsInjective
<1>4. q \in [1 .. n -> S] /\ IsInjective(q)
  BY <1>3 DEF SetToSeq
<1> HIDE DEF q
<1>5. q \in Seq(S) /\ Len(q) = n /\ DOMAIN q = 1 .. n
  BY <1>1, <1>4
<1>6. \A i, j \in 1 .. n : q[i] = q[j] => i = j
  BY <1>4 DEF IsInjective
<1>7. q \in Surjection(1 .. n, S)
  <2>1. q \in Injection(1 .. n, S)
    BY <1>4, <1>6 DEF Injection, IsInjective
  <2>2. Cardinality(1 .. n) = n
    <3>1. IsFiniteSet(1 .. n) /\ Cardinality(1 .. n) = IF 1 > n THEN 0 ELSE n - 1 + 1
      BY <1>1, FS_Interval
    <3> QED BY <1>1, <3>1
  <2> QED BY <2>1, <2>2, FS_Injection
<1>8. \A x \in S : \E i \in 1 .. n : q[i] = x
  BY <1>7 DEF Surjection
<1> QED BY <1>1, <1>5, <1>6, <1>8 DEF Listing, q

\* Windows, one function for each field.
Win(body, focused, urgent, layout, stamp) ==
    [body |-> body, focused |-> focused, urgent |-> urgent, layout |-> layout, stamp |-> stamp]

Wins(D, body, focused, urgent, layout, stamp) ==
    [w \in D |-> Win(body[w], focused[w], urgent[w], layout[w], stamp[w])]

WindowsOK(m) ==
    /\ IsFiniteSet(DOMAIN m) /\ NoWindow \notin DOMAIN m
    /\ m = [w \in DOMAIN m |-> Win(m[w].body, m[w].focused, m[w].urgent, m[w].layout, m[w].stamp)]
    /\ \A w \in DOMAIN m : m[w].focused \in BOOLEAN
    /\ \A v, w \in DOMAIN m : m[v].focused /\ m[w].focused => v = w

LEMMA WindowsAreOK ==
    ASSUME NEW s \in Snapshots \cup {Nothing}
    PROVE  WindowsOK(s.windows)
<1>1. CASE s \in Snapshots
  <2>1. Snapshot(s) /\ Sane(s)
    BY <1>1, EventStreamAssumption
  <2> QED BY <2>1 DEF Snapshot, Sane, WindowsOK, Win
<1>2. CASE s = Nothing
  <2>1. s.windows = <<>> /\ DOMAIN <<>> = {}
    BY <1>2 DEF Nothing
  <2>2. IsFiniteSet({})
    BY FS_EmptySet
  <2> QED BY <2>1, <2>2 DEF WindowsOK
<1> QED BY <1>1, <1>2

LEMMA SameWins ==
    ASSUME NEW D, NEW b, NEW f, NEW u, NEW l, NEW s, NEW bb, NEW ff, NEW uu, NEW ll, NEW ss,
           \A w \in D : b[w] = bb[w] /\ f[w] = ff[w] /\ u[w] = uu[w] /\ l[w] = ll[w] /\ s[w] = ss[w]
    PROVE  Wins(D, b, f, u, l, s) = Wins(D, bb, ff, uu, ll, ss)
BY DEF Wins

\* A field of one window, or of all.
PutIn(D, f, id, value) == [w \in D |-> IF w = id THEN value ELSE f[w]]

WithFocus(r, focused) == [r EXCEPT !.focused = focused]
WithLayout(r, layout) == [r EXCEPT !.layout = layout]

LEMMA WinChanges ==
    ASSUME NEW body, NEW focused, NEW urgent, NEW layout, NEW stamp, NEW value
    PROVE  /\ WithFocus(Win(body, focused, urgent, layout, stamp), value) = Win(body, value, urgent, layout, stamp)
           /\ WithLayout(Win(body, focused, urgent, layout, stamp), value) = Win(body, focused, urgent, value, stamp)
           /\ WithField(Win(body, focused, urgent, layout, stamp), "urgent", value) = Win(body, focused, value, layout, stamp)
           /\ WithField(Win(body, focused, urgent, layout, stamp), "stamp", value) = Win(body, focused, urgent, layout, value)
<1>1. ASSUME NEW field, field = "focused"
      PROVE  [Win(body, focused, urgent, layout, stamp) EXCEPT ![field] = value] = Win(body, value, urgent, layout, stamp)
  BY <1>1 DEF Win
<1>2. ASSUME NEW field, field = "layout"
      PROVE  [Win(body, focused, urgent, layout, stamp) EXCEPT ![field] = value] = Win(body, focused, urgent, value, stamp)
  BY <1>2 DEF Win
<1>3. ASSUME NEW field, field = "urgent"
      PROVE  [Win(body, focused, urgent, layout, stamp) EXCEPT ![field] = value] = Win(body, focused, value, layout, stamp)
  BY <1>3 DEF Win
<1>4. ASSUME NEW field, field = "stamp"
      PROVE  [Win(body, focused, urgent, layout, stamp) EXCEPT ![field] = value] = Win(body, focused, urgent, layout, value)
  BY <1>4 DEF Win
<1>5. WithFocus(Win(body, focused, urgent, layout, stamp), value) = Win(body, value, urgent, layout, stamp)
  BY <1>1 DEF WithFocus
<1>6. WithLayout(Win(body, focused, urgent, layout, stamp), value) = Win(body, focused, urgent, value, stamp)
  BY <1>2 DEF WithLayout
<1>7. WithField(Win(body, focused, urgent, layout, stamp), "urgent", value) = Win(body, focused, value, layout, stamp)
  BY <1>3 DEF WithField
<1>8. WithField(Win(body, focused, urgent, layout, stamp), "stamp", value) = Win(body, focused, urgent, layout, value)
  BY <1>4 DEF WithField
<1> QED BY <1>5, <1>6, <1>7, <1>8

LEMMA UrgencyPut ==
    ASSUME NEW D, NEW b, NEW f, NEW u, NEW l, NEW s, NEW id, NEW value
    PROVE  Updated(Wins(D, b, f, u, l, s), {id}, "urgent", value) = Wins(D, b, f, PutIn(D, u, id, value), l, s)
<1>1. Updated(Wins(D, b, f, u, l, s), {id}, "urgent", value)
      = [w \in D |-> IF w = id THEN WithField(Win(b[w], f[w], u[w], l[w], s[w]), "urgent", value)
                     ELSE Win(b[w], f[w], u[w], l[w], s[w])]
  BY DEF Updated, Wins, WithField
<1>2. \A w \in D : WithField(Win(b[w], f[w], u[w], l[w], s[w]), "urgent", value) = Win(b[w], f[w], value, l[w], s[w])
  BY WinChanges
<1> QED BY <1>1, <1>2 DEF Wins, PutIn

LEMMA StampPut ==
    ASSUME NEW D, NEW b, NEW f, NEW u, NEW l, NEW s, NEW id, NEW value
    PROVE  Updated(Wins(D, b, f, u, l, s), {id}, "stamp", value) = Wins(D, b, f, u, l, PutIn(D, s, id, value))
<1>1. Updated(Wins(D, b, f, u, l, s), {id}, "stamp", value)
      = [w \in D |-> IF w = id THEN WithField(Win(b[w], f[w], u[w], l[w], s[w]), "stamp", value)
                     ELSE Win(b[w], f[w], u[w], l[w], s[w])]
  BY DEF Updated, Wins, WithField
<1>2. \A w \in D : WithField(Win(b[w], f[w], u[w], l[w], s[w]), "stamp", value) = Win(b[w], f[w], u[w], l[w], value)
  BY WinChanges
<1> QED BY <1>1, <1>2 DEF Wins, PutIn

LEMMA FocusPut ==
    ASSUME NEW D, NEW b, NEW f, NEW u, NEW l, NEW s, NEW id
    PROVE  OnlyFocused(Wins(D, b, f, u, l, s), id) = Wins(D, b, [w \in D |-> w = id], u, l, s)
<1>1. OnlyFocused(Wins(D, b, f, u, l, s), id)
      = [w \in D |-> WithFocus(Win(b[w], f[w], u[w], l[w], s[w]), w = id)]
  BY DEF OnlyFocused, Wins, WithFocus
<1>2. \A w \in D : WithFocus(Win(b[w], f[w], u[w], l[w], s[w]), w = id) = Win(b[w], w = id, u[w], l[w], s[w])
  BY WinChanges
<1> QED BY <1>1, <1>2 DEF Wins

\* The windows with one more, which takes the focus if it has it.
WinsPut(D, b, f, u, l, s, id, B, F, U, L, S) ==
    Wins(D \cup {id}, PutIn(D \cup {id}, b, id, B),
         [w \in D \cup {id} |-> IF w = id THEN F ELSE IF F THEN FALSE ELSE f[w]],
         PutIn(D \cup {id}, u, id, U), PutIn(D \cup {id}, l, id, L), PutIn(D \cup {id}, s, id, S))

LEMMA WindowPut ==
    ASSUME NEW D, NEW b, NEW f, NEW u, NEW l, NEW s, NEW id, NEW B, NEW F \in BOOLEAN, NEW U, NEW L, NEW S
    PROVE  Replaced(Wins(D, b, f, u, l, s), id, Win(B, F, U, L, S))
           = WinsPut(D, b, f, u, l, s, id, B, F, U, L, S)
<1> DEFINE m == Wins(D, b, f, u, l, s)
           others == IF F THEN OnlyFocused(m, id) ELSE m
<1>1. Replaced(m, id, Win(B, F, U, L, S))
      = [w \in D \cup {id} |-> IF w = id THEN Win(B, F, U, L, S) ELSE others[w]]
  <2>1. DOMAIN m = D /\ Win(B, F, U, L, S).focused = F
    BY DEF Wins, Win
  <2> HIDE DEF m
  <2> QED BY <2>1 DEF Replaced
<1>2. ASSUME NEW w \in D, w # id
      PROVE  others[w] = Win(b[w], IF F THEN FALSE ELSE f[w], u[w], l[w], s[w])
  <2>1. CASE F = TRUE
    <3>1. others = Wins(D, b, [x \in D |-> x = id], u, l, s)
      BY <2>1, FocusPut
    <3>2. (w = id) = FALSE
      BY <1>2
    <3> HIDE DEF others
    <3> QED BY <2>1, <3>1, <3>2 DEF Wins
  <2>2. CASE F = FALSE
    BY <2>2 DEF Wins
  <2> QED BY <2>1, <2>2
<1> HIDE DEF m, others
<1>3. Replaced(m, id, Win(B, F, U, L, S))
      = [w \in D \cup {id} |-> IF w = id THEN Win(B, F, U, L, S)
                               ELSE Win(b[w], IF F THEN FALSE ELSE f[w], u[w], l[w], s[w])]
  BY <1>1, <1>2
<1> QED BY <1>3 DEF Wins, WinsPut, PutIn, m

LEMMA LayoutsPut ==
    ASSUME NEW D, NEW b, NEW f, NEW u, NEW l, NEW s, NEW m, m = Wins(D, b, f, u, l, s), NEW changes
    PROVE  [w \in DOMAIN m |-> IF w \in DOMAIN changes THEN [m[w] EXCEPT !.layout = changes[w]] ELSE m[w]]
           = Wins(D, b, f, u, [w \in D |-> IF w \in DOMAIN changes THEN changes[w] ELSE l[w]], s)
<1>1. DOMAIN m = D /\ \A w \in D : m[w] = Win(b[w], f[w], u[w], l[w], s[w])
  BY DEF Wins
<1>2. \A w \in D : WithLayout(Win(b[w], f[w], u[w], l[w], s[w]), changes[w]) = Win(b[w], f[w], u[w], changes[w], s[w])
  BY WinChanges
<1>3. \A w \in D : [m[w] EXCEPT !.layout = changes[w]] = Win(b[w], f[w], u[w], changes[w], s[w])
  BY <1>1, <1>2 DEF WithLayout
<1> QED BY <1>1, <1>3 DEF Wins

\* Events about windows leave the rest of a view alone.
WindowSteps(g, q) ==
    \A i \in 1 .. Len(q) : q[i].type \in WindowTypes /\ g[i] = KnownWindows(g[i - 1], q[i])

LEMMA ReadWindows ==
    ASSUME NEW ws, NEW overview, NEW config, NEW q, Len(q) \in Nat, NEW g, WindowSteps(g, q)
    PROVE  Read(View(ws, g[0], overview, config), q) = View(ws, g[Len(q)], overview, config)
<1> DEFINE f == [i \in 0 .. Len(q) |-> View(ws, g[i], overview, config)]
<1>1. f[0] = View(ws, g[0], overview, config) /\ f[Len(q)] = View(ws, g[Len(q)], overview, config)
  OBVIOUS
<1>2. ASSUME NEW i \in 1 .. Len(q) PROVE f[i] = Known(f[i - 1], q[i])
  <2>1. f[i] = View(ws, g[i], overview, config) /\ f[i - 1] = View(ws, g[i - 1], overview, config)
    OBVIOUS
  <2>2. Known(View(ws, g[i - 1], overview, config), q[i]) = View(ws, KnownWindows(g[i - 1], q[i]), overview, config)
    BY WindowEvent DEF WindowSteps
  <2> QED BY <2>1, <2>2 DEF WindowSteps
<1>3. Reads(f, q, Len(q))
  BY <1>2 DEF Reads
<1> HIDE DEF f
<1> QED BY <1>1, <1>3, ReadAlong

\* Events told one for each of a listing.
Done(q, k) == {q[i] : i \in 1 .. k}

LEMMA DoneMore ==
    ASSUME NEW q, NEW S, Listing(q, S), NEW k \in 1 .. Len(q)
    PROVE  /\ q[k] \in S /\ q[k] \notin Done(q, k - 1)
           /\ Done(q, k) = Done(q, k - 1) \cup {q[k]} /\ Done(q, k) \subseteq S /\ Done(q, k - 1) \subseteq S
<1>1. Len(q) \in Nat /\ \A i \in 1 .. Len(q) : q[i] \in S
  BY DEF Listing
<1>2. 1 .. k = (1 .. k - 1) \cup {k} /\ 1 .. k \subseteq 1 .. Len(q)
  BY <1>1
<1>3. q[k] \notin Done(q, k - 1)
  <2> SUFFICES ASSUME NEW i \in 1 .. k - 1, q[i] = q[k] PROVE FALSE
    BY DEF Done
  <2>1. i \in 1 .. Len(q) /\ i # k
    BY <1>1
  <2> QED BY <2>1 DEF Listing
<1>4. Done(q, k) = Done(q, k - 1) \cup {q[k]}
  BY <1>2 DEF Done
<1>5. Done(q, k) \subseteq S
  BY <1>1, <1>2 DEF Done
<1> QED BY <1>1, <1>3, <1>4, <1>5

LEMMA DoneAll ==
    ASSUME NEW q, NEW S, Listing(q, S)
    PROVE  Done(q, Len(q)) = S /\ Done(q, 0) = {}
BY DEF Done, Listing

LEMMA TypedEvents ==
    ASSUME NEW q, NEW n \in Nat, q = [i \in 1 .. n |-> q[i]],
           \A i \in 1 .. n : q[i].type # "config_loaded"
    PROVE  StateEvents(q)
<1> DEFINE S == {q[i] : i \in 1 .. n}
<1>1. q \in Seq(S) /\ \A e \in S : e.type # "config_loaded"
  OBVIOUS
<1> HIDE DEF S
<1> QED BY <1>1 DEF StateEvents

LEMMA ReadTwo ==
    ASSUME NEW v, NEW a, NEW b, StateEvents(a), StateEvents(b)
    PROVE  StateEvents(a \o b) /\ Read(v, a \o b) = Read(Read(v, a), b)
<1>1. PICK S : a \in Seq(S) /\ \A e \in S : e.type # "config_loaded"
  BY DEF StateEvents
<1>2. PICK T : b \in Seq(T) /\ \A e \in T : e.type # "config_loaded"
  BY DEF StateEvents
<1> DEFINE U == S \cup T
<1>3. S \subseteq U /\ T \subseteq U /\ \A e \in U : e.type # "config_loaded"
  BY <1>1, <1>2
<1> HIDE DEF U
<1>4. a \in Seq(U) /\ b \in Seq(U)
  BY <1>1, <1>2, <1>3, SeqMonotonic
<1>5. a \o b \in Seq(U)
  BY <1>4, ConcatProperties
<1>6. Read(v, a \o b) = Read(Read(v, a), b)
  BY <1>4, ReadConcat
<1> QED BY <1>3, <1>5, <1>6 DEF StateEvents

EachTold(type, q, value) == [i \in DOMAIN q |-> [type |-> type, id |-> q[i], value |-> value[q[i]]]]

Overridden(D, f, value, T) == [w \in D |-> IF w \in T THEN value[w] ELSE f[w]]

LEMMA UrgencyToldEach ==
    ASSUME NEW D, NEW b, NEW f, NEW u, NEW l, NEW s, NEW value, NEW X, X \subseteq D, NEW q, Listing(q, X),
           NEW ws, NEW overview, NEW config
    PROVE  /\ StateEvents(EachTold("window_urgency_changed", q, value))
           /\ Read(View(ws, Wins(D, b, f, u, l, s), overview, config), EachTold("window_urgency_changed", q, value))
              = View(ws, Wins(D, b, f, Overridden(D, u, value, X), l, s), overview, config)
<1> DEFINE events == EachTold("window_urgency_changed", q, value)
           g == [k \in 0 .. Len(q) |-> Wins(D, b, f, Overridden(D, u, value, Done(q, k)), l, s)]
<1>1. /\ Len(q) \in Nat /\ DOMAIN q = 1 .. Len(q) /\ Len(events) = Len(q)
      /\ events = [i \in 1 .. Len(q) |-> events[i]]
      /\ \A i \in 1 .. Len(q) : events[i] = [type |-> "window_urgency_changed", id |-> q[i], value |-> value[q[i]]]
  BY DEF Listing, EachTold
<1> HIDE DEF events
<1>2. ASSUME NEW i \in 1 .. Len(q)
      PROVE  events[i].type \in WindowTypes /\ g[i] = KnownWindows(g[i - 1], events[i])
  <2>1. i \in 0 .. Len(q) /\ i - 1 \in 0 .. Len(q)
    BY <1>1
  <2> DEFINE u0 == Overridden(D, u, value, Done(q, i - 1))
             u1 == Overridden(D, u, value, Done(q, i))
  <2>2. KnownWindows(g[i - 1], events[i]) = Updated(Wins(D, b, f, u0, l, s), {q[i]}, "urgent", value[q[i]])
    <3> DEFINE m == Wins(D, b, f, u0, l, s)
               e == events[i]
    <3>1. g[i - 1] = m
      BY <2>1
    <3>2. e.type = "window_urgency_changed" /\ e.id = q[i] /\ e.value = value[q[i]]
      BY <1>1
    <3> HIDE DEF m, e, g
    <3>3. KnownWindows(m, e) = Updated(m, {q[i]}, "urgent", value[q[i]])
      BY <3>2 DEF KnownWindows
    <3> QED BY <3>1, <3>3 DEF m, e
  <2>3. u1 = PutIn(D, u0, q[i], value[q[i]])
    <3>1. Done(q, i) = Done(q, i - 1) \cup {q[i]}
      BY DoneMore
    <3> QED BY <3>1 DEF Overridden, PutIn
  <2>4. g[i] = Wins(D, b, f, u1, l, s)
    BY <2>1
  <2> HIDE DEF u0, u1, g
  <2>5. Updated(Wins(D, b, f, u0, l, s), {q[i]}, "urgent", value[q[i]]) = Wins(D, b, f, u1, l, s)
    BY <2>3, UrgencyPut
  <2>6. events[i].type \in WindowTypes
    BY <1>1 DEF WindowTypes
  <2> QED BY <2>2, <2>4, <2>5, <2>6
<1>3. g[0] = Wins(D, b, f, u, l, s)
  <2>1. Done(q, 0) = {}
    BY DoneAll
  <2>2. g[0] = Wins(D, b, f, Overridden(D, u, value, {}), l, s)
    <3>1. 0 \in 0 .. Len(q)
      BY <1>1
    <3> QED BY <2>1, <3>1
  <2> HIDE DEF g
  <2>3. \A w \in D : Overridden(D, u, value, {})[w] = u[w]
    BY DEF Overridden
  <2> QED BY <2>2, <2>3, SameWins
<1>4. g[Len(q)] = Wins(D, b, f, Overridden(D, u, value, X), l, s)
  BY <1>1, DoneAll
<1> HIDE DEF g
<1>5. Read(View(ws, g[0], overview, config), events) = View(ws, g[Len(events)], overview, config)
  <2>1. WindowSteps(g, events) /\ Len(events) \in Nat
    BY <1>1, <1>2 DEF WindowSteps
  <2> QED BY <2>1, ReadWindows
<1>6. StateEvents(events)
  BY <1>1, TypedEvents
<1> QED BY <1>1, <1>3, <1>4, <1>5, <1>6 DEF events

LEMMA StampToldEach ==
    ASSUME NEW D, NEW b, NEW f, NEW u, NEW l, NEW s, NEW value, NEW X, X \subseteq D, NEW q, Listing(q, X),
           NEW ws, NEW overview, NEW config
    PROVE  /\ StateEvents(EachTold("window_focus_timestamp_changed", q, value))
           /\ Read(View(ws, Wins(D, b, f, u, l, s), overview, config), EachTold("window_focus_timestamp_changed", q, value))
              = View(ws, Wins(D, b, f, u, l, Overridden(D, s, value, X)), overview, config)
<1> DEFINE events == EachTold("window_focus_timestamp_changed", q, value)
           g == [k \in 0 .. Len(q) |-> Wins(D, b, f, u, l, Overridden(D, s, value, Done(q, k)))]
<1>1. /\ Len(q) \in Nat /\ DOMAIN q = 1 .. Len(q) /\ Len(events) = Len(q)
      /\ events = [i \in 1 .. Len(q) |-> events[i]]
      /\ \A i \in 1 .. Len(q) : events[i] = [type |-> "window_focus_timestamp_changed", id |-> q[i], value |-> value[q[i]]]
  BY DEF Listing, EachTold
<1> HIDE DEF events
<1>2. ASSUME NEW i \in 1 .. Len(q)
      PROVE  events[i].type \in WindowTypes /\ g[i] = KnownWindows(g[i - 1], events[i])
  <2>1. i \in 0 .. Len(q) /\ i - 1 \in 0 .. Len(q)
    BY <1>1
  <2> DEFINE s0 == Overridden(D, s, value, Done(q, i - 1))
             s1 == Overridden(D, s, value, Done(q, i))
  <2>2. KnownWindows(g[i - 1], events[i]) = Updated(Wins(D, b, f, u, l, s0), {q[i]}, "stamp", value[q[i]])
    <3> DEFINE m == Wins(D, b, f, u, l, s0)
               e == events[i]
    <3>1. g[i - 1] = m
      BY <2>1
    <3>2. e.type = "window_focus_timestamp_changed" /\ e.id = q[i] /\ e.value = value[q[i]]
      BY <1>1
    <3> HIDE DEF m, e, g
    <3>3. KnownWindows(m, e) = Updated(m, {q[i]}, "stamp", value[q[i]])
      BY <3>2 DEF KnownWindows
    <3> QED BY <3>1, <3>3 DEF m, e
  <2>3. s1 = PutIn(D, s0, q[i], value[q[i]])
    <3>1. Done(q, i) = Done(q, i - 1) \cup {q[i]}
      BY DoneMore
    <3> QED BY <3>1 DEF Overridden, PutIn
  <2>4. g[i] = Wins(D, b, f, u, l, s1)
    BY <2>1
  <2> HIDE DEF s0, s1, g
  <2>5. Updated(Wins(D, b, f, u, l, s0), {q[i]}, "stamp", value[q[i]]) = Wins(D, b, f, u, l, s1)
    BY <2>3, StampPut
  <2>6. events[i].type \in WindowTypes
    BY <1>1 DEF WindowTypes
  <2> QED BY <2>2, <2>4, <2>5, <2>6
<1>3. g[0] = Wins(D, b, f, u, l, s)
  <2>1. Done(q, 0) = {}
    BY DoneAll
  <2>2. g[0] = Wins(D, b, f, u, l, Overridden(D, s, value, {}))
    <3>1. 0 \in 0 .. Len(q)
      BY <1>1
    <3> QED BY <2>1, <3>1
  <2> HIDE DEF g
  <2>3. \A w \in D : Overridden(D, s, value, {})[w] = s[w]
    BY DEF Overridden
  <2> QED BY <2>2, <2>3, SameWins
<1>4. g[Len(q)] = Wins(D, b, f, u, l, Overridden(D, s, value, X))
  BY <1>1, DoneAll
<1> HIDE DEF g
<1>5. Read(View(ws, g[0], overview, config), events) = View(ws, g[Len(events)], overview, config)
  <2>1. WindowSteps(g, events) /\ Len(events) \in Nat
    BY <1>1, <1>2 DEF WindowSteps
  <2> QED BY <2>1, ReadWindows
<1>6. StateEvents(events)
  BY <1>1, TypedEvents
<1> QED BY <1>1, <1>3, <1>4, <1>5, <1>6 DEF events

\* The fields of the windows of both, of next for those in T.
Both(prev, next) == DOMAIN prev \cup DOMAIN next

Mixed(prev, next, T, field) == [w \in Both(prev, next) |-> IF w \in T THEN next[w][field] ELSE prev[w][field]]

MixedFocus(prev, next, T) ==
    [w \in Both(prev, next) |->
       IF w \in T THEN next[w].focused ELSE prev[w].focused /\ ~ \E x \in T : next[x].focused]

MixedWins(D, prev, next, T) ==
    Wins(D, Mixed(prev, next, T, "body"), MixedFocus(prev, next, T), Mixed(prev, next, T, "urgent"),
         Mixed(prev, next, T, "layout"), Mixed(prev, next, T, "stamp"))

LEMMA MixedNone ==
    ASSUME NEW prev, NEW next, WindowsOK(prev)
    PROVE  MixedWins(DOMAIN prev, prev, next, {}) = prev
<1> DEFINE b == Mixed(prev, next, {}, "body")
           f == MixedFocus(prev, next, {})
           u == Mixed(prev, next, {}, "urgent")
           l == Mixed(prev, next, {}, "layout")
           s == Mixed(prev, next, {}, "stamp")
<1>1. ASSUME NEW w \in DOMAIN prev
      PROVE  /\ b[w] = prev[w].body /\ f[w] = prev[w].focused /\ u[w] = prev[w].urgent
             /\ l[w] = prev[w].layout /\ s[w] = prev[w].stamp
  <2>1. w \in Both(prev, next) /\ prev[w].focused \in BOOLEAN
    BY DEF Both, WindowsOK
  <2>2. b[w] = prev[w].body /\ u[w] = prev[w].urgent /\ l[w] = prev[w].layout /\ s[w] = prev[w].stamp
    BY <2>1 DEF Mixed
  <2>3. f[w] = prev[w].focused
    BY <2>1 DEF MixedFocus
  <2> QED BY <2>2, <2>3
<1> HIDE DEF b, f, u, l, s
<1>2. Wins(DOMAIN prev, b, f, u, l, s)
      = [w \in DOMAIN prev |-> Win(prev[w].body, prev[w].focused, prev[w].urgent, prev[w].layout, prev[w].stamp)]
  BY <1>1 DEF Wins
<1>3. Wins(DOMAIN prev, b, f, u, l, s) = prev
  BY <1>2 DEF WindowsOK
<1> QED BY <1>3 DEF MixedWins, b, f, u, l, s

\* One more window is told whole.
LEMMA MixedMore ==
    ASSUME NEW prev, NEW next, WindowsOK(prev), WindowsOK(next), NEW T, T \subseteq DOMAIN next,
           NEW id \in DOMAIN next, id \notin T
    PROVE  Replaced(MixedWins(DOMAIN prev \cup T, prev, next, T), id, next[id])
           = MixedWins(DOMAIN prev \cup (T \cup {id}), prev, next, T \cup {id})
<1> DEFINE N == T \cup {id}
           D == DOMAIN prev \cup T
           E == D \cup {id}
           b == Mixed(prev, next, T, "body")
           f == MixedFocus(prev, next, T)
           u == Mixed(prev, next, T, "urgent")
           l == Mixed(prev, next, T, "layout")
           s == Mixed(prev, next, T, "stamp")
           F == next[id].focused
           ff == [w \in E |-> IF w = id THEN F ELSE IF F THEN FALSE ELSE f[w]]
<1>1. F \in BOOLEAN /\ next[id] = Win(next[id].body, F, next[id].urgent, next[id].layout, next[id].stamp)
  BY DEF WindowsOK
<1>2. \A w \in E : /\ PutIn(E, b, id, next[id].body)[w] = Mixed(prev, next, N, "body")[w]
                   /\ PutIn(E, u, id, next[id].urgent)[w] = Mixed(prev, next, N, "urgent")[w]
                   /\ PutIn(E, l, id, next[id].layout)[w] = Mixed(prev, next, N, "layout")[w]
                   /\ PutIn(E, s, id, next[id].stamp)[w] = Mixed(prev, next, N, "stamp")[w]
  BY DEF PutIn, Mixed, Both
<1>3. ASSUME NEW w \in E PROVE ff[w] = MixedFocus(prev, next, N)[w]
  <2>1. w \in Both(prev, next) /\ id \in N
    BY DEF Both
  <2>2. CASE w = id
    BY <2>1, <2>2 DEF MixedFocus
  <2>3. CASE w # id /\ F
    <3>1. ff[w] = FALSE
      BY <2>3
    <3>2. CASE w \in T
      <4>1. ~ next[w].focused /\ next[w].focused \in BOOLEAN
        BY <2>3, <3>2 DEF WindowsOK
      <4> QED BY <2>1, <3>1, <3>2, <4>1 DEF MixedFocus
    <3>3. CASE w \notin T
      <4>1. \E x \in N : next[x].focused
        BY <2>1, <2>3
      <4>2. MixedFocus(prev, next, N)[w] = (prev[w].focused /\ ~ \E x \in N : next[x].focused)
        BY <2>1, <2>3, <3>3 DEF MixedFocus
      <4> QED BY <3>1, <4>1, <4>2
    <3> QED BY <3>2, <3>3
  <2>4. CASE w # id /\ ~F
    <3>1. ff[w] = f[w]
      BY <2>4
    <3>2. (\E x \in N : next[x].focused) <=> \E x \in T : next[x].focused
      BY <2>4
    <3> QED BY <2>1, <2>4, <3>1, <3>2 DEF MixedFocus
  <2> QED BY <1>1, <2>2, <2>3, <2>4
<1>4. Replaced(MixedWins(D, prev, next, T), id, next[id])
      = Wins(E, PutIn(E, b, id, next[id].body), ff, PutIn(E, u, id, next[id].urgent),
             PutIn(E, l, id, next[id].layout), PutIn(E, s, id, next[id].stamp))
  <2> HIDE DEF b, f, u, l, s, F
  <2>0. F \in BOOLEAN
    BY <1>1
  <2>1. Replaced(Wins(D, b, f, u, l, s), id, Win(next[id].body, F, next[id].urgent, next[id].layout, next[id].stamp))
        = WinsPut(D, b, f, u, l, s, id, next[id].body, F, next[id].urgent, next[id].layout, next[id].stamp)
    BY <2>0, WindowPut
  <2>2. MixedWins(D, prev, next, T) = Wins(D, b, f, u, l, s)
    BY DEF MixedWins, b, f, u, l, s
  <2> QED BY <1>1, <2>1, <2>2 DEF WinsPut
<1>5. E = DOMAIN prev \cup N
  OBVIOUS
<1> HIDE DEF b, f, u, l, s, F, ff, E, N
<1>6. Wins(E, PutIn(E, b, id, next[id].body), ff, PutIn(E, u, id, next[id].urgent),
           PutIn(E, l, id, next[id].layout), PutIn(E, s, id, next[id].stamp))
      = MixedWins(E, prev, next, N)
  BY <1>2, <1>3, SameWins DEF MixedWins
<1> QED BY <1>4, <1>5, <1>6 DEF D, N

WholeTold(q, next) == [i \in DOMAIN q |-> [type |-> "window_opened_or_changed", id |-> q[i], window |-> next[q[i]]]]

ClosedTold(q) == [i \in DOMAIN q |-> [type |-> "window_closed", id |-> q[i]]]

LEMMA WholeToldEach ==
    ASSUME NEW prev, NEW next, WindowsOK(prev), WindowsOK(next), NEW X, X \subseteq DOMAIN next,
           NEW q, Listing(q, X), NEW ws, NEW overview, NEW config
    PROVE  /\ StateEvents(WholeTold(q, next))
           /\ Read(View(ws, prev, overview, config), WholeTold(q, next))
              = View(ws, MixedWins(DOMAIN prev \cup X, prev, next, X), overview, config)
<1> DEFINE events == WholeTold(q, next)
           At(k) == MixedWins(DOMAIN prev \cup Done(q, k), prev, next, Done(q, k))
           g == [k \in 0 .. Len(q) |-> At(k)]
<1>1. /\ Len(q) \in Nat /\ DOMAIN q = 1 .. Len(q) /\ Len(events) = Len(q)
      /\ events = [i \in 1 .. Len(q) |-> events[i]]
      /\ \A i \in 1 .. Len(q) : events[i] = [type |-> "window_opened_or_changed", id |-> q[i], window |-> next[q[i]]]
  BY DEF Listing, WholeTold
<1> HIDE DEF events
<1>2. ASSUME NEW i \in 1 .. Len(q)
      PROVE  events[i].type \in WindowTypes /\ g[i] = KnownWindows(g[i - 1], events[i])
  <2>1. i \in 0 .. Len(q) /\ i - 1 \in 0 .. Len(q)
    BY <1>1
  <2>2. g[i] = At(i) /\ g[i - 1] = At(i - 1)
    BY <2>1
  <2>3. KnownWindows(At(i - 1), events[i]) = Replaced(At(i - 1), q[i], next[q[i]])
    <3> DEFINE m == At(i - 1)
               e == events[i]
    <3>1. e.type = "window_opened_or_changed" /\ e.id = q[i] /\ e.window = next[q[i]]
      BY <1>1
    <3> HIDE DEF m, e
    <3>2. KnownWindows(m, e) = Replaced(m, q[i], next[q[i]])
      BY <3>1 DEF KnownWindows
    <3> QED BY <3>2 DEF m, e
  <2>4. /\ q[i] \in X /\ q[i] \notin Done(q, i - 1) /\ Done(q, i - 1) \subseteq X
        /\ Done(q, i) = Done(q, i - 1) \cup {q[i]}
    BY DoneMore
  <2>5. Replaced(At(i - 1), q[i], next[q[i]]) = At(i)
    <3> DEFINE T == Done(q, i - 1)
               id == q[i]
    <3>1. T \subseteq DOMAIN next /\ id \in DOMAIN next /\ id \notin T /\ Done(q, i) = T \cup {id}
      BY <2>4
    <3> HIDE DEF T, id
    <3>2. Replaced(MixedWins(DOMAIN prev \cup T, prev, next, T), id, next[id])
          = MixedWins(DOMAIN prev \cup (T \cup {id}), prev, next, T \cup {id})
      BY <3>1, MixedMore
    <3> QED BY <3>1, <3>2 DEF T, id
  <2>6. events[i].type \in WindowTypes
    BY <1>1 DEF WindowTypes
  <2> HIDE DEF g, At
  <2> QED BY <2>2, <2>3, <2>5, <2>6
<1>3. g[0] = prev
  <2>1. 0 \in 0 .. Len(q) /\ Done(q, 0) = {}
    BY <1>1, DoneAll
  <2>2. g[0] = MixedWins(DOMAIN prev \cup {}, prev, next, {}) /\ DOMAIN prev \cup {} = DOMAIN prev
    BY <2>1
  <2> HIDE DEF g
  <2> QED BY <2>2, MixedNone
<1>4. g[Len(q)] = MixedWins(DOMAIN prev \cup X, prev, next, X)
  <2>1. Len(q) \in 0 .. Len(q) /\ Done(q, Len(q)) = X
    BY <1>1, DoneAll
  <2> QED BY <2>1
<1> HIDE DEF g
<1>5. Read(View(ws, g[0], overview, config), events) = View(ws, g[Len(events)], overview, config)
  <2>1. WindowSteps(g, events) /\ Len(events) \in Nat
    BY <1>1, <1>2 DEF WindowSteps
  <2> QED BY <2>1, ReadWindows
<1>6. StateEvents(events)
  BY <1>1, TypedEvents
<1> QED BY <1>1, <1>3, <1>4, <1>5, <1>6 DEF events

LEMMA ClosedToldEach ==
    ASSUME NEW D, NEW b, NEW f, NEW u, NEW l, NEW s, NEW X, NEW q, Listing(q, X),
           NEW ws, NEW overview, NEW config
    PROVE  /\ StateEvents(ClosedTold(q))
           /\ Read(View(ws, Wins(D, b, f, u, l, s), overview, config), ClosedTold(q))
              = View(ws, Wins(D \ X, b, f, u, l, s), overview, config)
<1> DEFINE events == ClosedTold(q)
           At(k) == Wins(D \ Done(q, k), b, f, u, l, s)
           g == [k \in 0 .. Len(q) |-> At(k)]
<1>1. /\ Len(q) \in Nat /\ DOMAIN q = 1 .. Len(q) /\ Len(events) = Len(q)
      /\ events = [i \in 1 .. Len(q) |-> events[i]]
      /\ \A i \in 1 .. Len(q) : events[i] = [type |-> "window_closed", id |-> q[i]]
  BY DEF Listing, ClosedTold
<1> HIDE DEF events
<1>2. ASSUME NEW i \in 1 .. Len(q)
      PROVE  events[i].type \in WindowTypes /\ g[i] = KnownWindows(g[i - 1], events[i])
  <2>1. i \in 0 .. Len(q) /\ i - 1 \in 0 .. Len(q)
    BY <1>1
  <2>2. g[i] = At(i) /\ g[i - 1] = At(i - 1)
    BY <2>1
  <2>3. KnownWindows(At(i - 1), events[i]) = Restrict(At(i - 1), DOMAIN At(i - 1) \ {q[i]})
    <3> DEFINE m == At(i - 1)
               e == events[i]
    <3>1. e.type = "window_closed" /\ e.id = q[i]
      BY <1>1
    <3> HIDE DEF m, e
    <3>2. KnownWindows(m, e) = Restrict(m, DOMAIN m \ {q[i]})
      BY <3>1 DEF KnownWindows
    <3> QED BY <3>2 DEF m, e
  <2>4. Done(q, i) = Done(q, i - 1) \cup {q[i]}
    BY DoneMore
  <2>5. Restrict(At(i - 1), DOMAIN At(i - 1) \ {q[i]}) = At(i)
    <3> DEFINE E == D \ Done(q, i - 1)
               id == q[i]
    <3>1. E \ {id} = D \ Done(q, i)
      BY <2>4
    <3> HIDE DEF E, id
    <3>2. Restrict(Wins(E, b, f, u, l, s), DOMAIN Wins(E, b, f, u, l, s) \ {id}) = Wins(E \ {id}, b, f, u, l, s)
      BY DEF Restrict, Wins
    <3> QED BY <3>1, <3>2 DEF E, id
  <2>6. events[i].type \in WindowTypes
    BY <1>1 DEF WindowTypes
  <2> HIDE DEF g, At
  <2> QED BY <2>2, <2>3, <2>5, <2>6
<1>3. g[0] = Wins(D, b, f, u, l, s)
  <2>1. 0 \in 0 .. Len(q) /\ Done(q, 0) = {} /\ D \ {} = D
    BY <1>1, DoneAll
  <2> QED BY <2>1
<1>4. g[Len(q)] = Wins(D \ X, b, f, u, l, s)
  <2>1. Len(q) \in 0 .. Len(q) /\ Done(q, Len(q)) = X
    BY <1>1, DoneAll
  <2> QED BY <2>1
<1> HIDE DEF g
<1>5. Read(View(ws, g[0], overview, config), events) = View(ws, g[Len(events)], overview, config)
  <2>1. WindowSteps(g, events) /\ Len(events) \in Nat
    BY <1>1, <1>2 DEF WindowSteps
  <2> QED BY <2>1, ReadWindows
<1>6. StateEvents(events)
  BY <1>1, TypedEvents
<1> QED BY <1>1, <1>3, <1>4, <1>5, <1>6 DEF events

LEMMA LayoutsTold ==
    ASSUME NEW D, NEW b, NEW f, NEW u, NEW l, NEW s, NEW X, X \subseteq D, NEW value,
           NEW ws, NEW overview, NEW config
    PROVE  LET events == If(X # {}, [type |-> "window_layouts_changed", changes |-> [w \in X |-> value[w]]])
           IN  /\ StateEvents(events)
               /\ Read(View(ws, Wins(D, b, f, u, l, s), overview, config), events)
                  = View(ws, Wins(D, b, f, u, Overridden(D, l, value, X), s), overview, config)
<1> DEFINE changes == [w \in X |-> value[w]]
           e == [type |-> "window_layouts_changed", changes |-> changes]
           events == If(X # {}, e)
           m == Wins(D, b, f, u, l, s)
           ll == Overridden(D, l, value, X)
<1>1. e.type = "window_layouts_changed" /\ e.changes = changes /\ DOMAIN changes = X
  OBVIOUS
<1>2. [w \in D |-> IF w \in DOMAIN changes THEN changes[w] ELSE l[w]] = ll
  BY DEF Overridden
<1> HIDE DEF changes, e
<1>3. KnownWindows(m, e) = Wins(D, b, f, u, ll, s)
  <2>1. [w \in DOMAIN m |-> IF w \in DOMAIN changes THEN [m[w] EXCEPT !.layout = changes[w]] ELSE m[w]]
        = Wins(D, b, f, u, [w \in D |-> IF w \in DOMAIN changes THEN changes[w] ELSE l[w]], s)
    BY LayoutsPut
  <2> HIDE DEF m, ll
  <2>2. KnownWindows(m, e)
        = [w \in DOMAIN m |-> IF w \in DOMAIN changes THEN [m[w] EXCEPT !.layout = changes[w]] ELSE m[w]]
    BY <1>1 DEF KnownWindows
  <2> QED BY <1>2, <2>1, <2>2
<1>4. StateEvents(events)
  <2> DEFINE S == {e}
  <2>1. events \in Seq(S)
    <3>1. (X # {}) \in BOOLEAN
      OBVIOUS
    <3> QED BY <3>1, ReadIf
  <2>2. \A x \in S : x.type # "config_loaded"
    BY <1>1
  <2> HIDE DEF S, events
  <2> QED BY <2>1, <2>2 DEF StateEvents
<1>5. CASE (X # {}) = TRUE
  <2>1. Read(View(ws, m, overview, config), events) = Known(View(ws, m, overview, config), e)
    BY <1>5, ReadIf
  <2>2. Known(View(ws, m, overview, config), e) = View(ws, KnownWindows(m, e), overview, config)
    <3>1. e.type \in WindowTypes
      BY <1>1 DEF WindowTypes
    <3> QED BY <3>1, WindowEvent
  <2> HIDE DEF events, m
  <2> QED BY <1>3, <1>4, <2>1, <2>2 DEF events, m, e, changes
<1>6. CASE (X # {}) = FALSE
  <2>1. Read(View(ws, m, overview, config), events) = View(ws, m, overview, config)
    BY <1>6, ReadIf
  <2>2. \A w \in D : l[w] = ll[w]
    BY <1>6 DEF Overridden
  <2> HIDE DEF ll
  <2>3. m = Wins(D, b, f, u, ll, s)
    BY <2>2, SameWins
  <2> QED BY <1>4, <2>1, <2>3 DEF ll, e, changes
<1> QED BY <1>5, <1>6

LEMMA FocusedIs ==
    ASSUME NEW m, WindowsOK(m)
    PROVE  \A w \in DOMAIN m : m[w].focused <=> w = FocusedIn(m)
<1> DEFINE those == {w \in DOMAIN m : m[w].focused}
<1>1. CASE those = {}
  <2>1. FocusedIn(m) = NoWindow
    BY <1>1 DEF FocusedIn
  <2> QED BY <1>1, <2>1 DEF WindowsOK
<1>2. CASE those # {}
  <2>1. FocusedIn(m) \in those
    BY <1>2 DEF FocusedIn
  <2> QED BY <2>1 DEF WindowsOK
<1> QED BY <1>1, <1>2

\* The focus told, the windows are those of next.
LEMMA FocusTold ==
    ASSUME NEW prev, NEW next, WindowsOK(prev), WindowsOK(next), NEW W, Whole(prev, next) \subseteq W, W \subseteq DOMAIN next,
           NEW b, NEW u, NEW l, NEW s,
           \A w \in DOMAIN next : /\ b[w] = next[w].body /\ u[w] = next[w].urgent
                                  /\ l[w] = next[w].layout /\ s[w] = next[w].stamp,
           NEW ws, NEW overview, NEW config
    PROVE  LET events == If(FocusedIn(prev) # FocusedIn(next), [type |-> "window_focus_changed", id |-> FocusedIn(next)])
           IN  /\ StateEvents(events)
               /\ Read(View(ws, Wins(DOMAIN next, b, MixedFocus(prev, next, W), u, l, s), overview, config), events)
                  = View(ws, next, overview, config)
<1> DEFINE N == DOMAIN next
           id == FocusedIn(next)
           f == MixedFocus(prev, next, W)
           m == Wins(N, b, f, u, l, s)
           e == [type |-> "window_focus_changed", id |-> id]
           events == If(FocusedIn(prev) # id, e)
           nf == [w \in N |-> next[w].focused]
<1>1. e.type = "window_focus_changed" /\ e.id = id
  OBVIOUS
<1>2. \A w \in N : next[w].focused = (w = id) /\ next[w].focused \in BOOLEAN
  BY FocusedIs DEF WindowsOK
<1>3. Wins(N, b, nf, u, l, s) = next
  <2>1. Wins(N, b, nf, u, l, s)
        = [w \in N |-> Win(next[w].body, next[w].focused, next[w].urgent, next[w].layout, next[w].stamp)]
    BY DEF Wins
  <2> QED BY <2>1 DEF WindowsOK
<1>4. StateEvents(events)
  <2> DEFINE S == {e}
  <2> HIDE DEF id
  <2>1. events \in Seq(S)
    <3>1. (FocusedIn(prev) # id) \in BOOLEAN
      OBVIOUS
    <3> QED BY <3>1, ReadIf
  <2>2. \A x \in S : x.type # "config_loaded"
    BY <1>1
  <2> HIDE DEF S, events
  <2> QED BY <2>1, <2>2 DEF StateEvents
<1>5. CASE (FocusedIn(prev) # id) = TRUE
  <2>1. Read(View(ws, m, overview, config), events) = Known(View(ws, m, overview, config), e)
    BY <1>5, ReadIf
  <2>2. Known(View(ws, m, overview, config), e) = View(ws, KnownWindows(m, e), overview, config)
    <3>1. e.type \in WindowTypes
      BY <1>1 DEF WindowTypes
    <3> QED BY <3>1, WindowEvent
  <2>3. KnownWindows(m, e) = next
    <3> HIDE DEF e, f, id, nf
    <3>1. KnownWindows(m, e) = OnlyFocused(m, id)
      <4> HIDE DEF m
      <4> QED BY <1>1 DEF KnownWindows
    <3>2. OnlyFocused(m, id) = Wins(N, b, [w \in N |-> w = id], u, l, s)
      BY FocusPut
    <3>3. [w \in N |-> w = id] = nf
      BY <1>2 DEF nf
    <3> QED BY <1>3, <3>1, <3>2, <3>3
  <2> HIDE DEF events, m, e
  <2> QED BY <1>4, <2>1, <2>2, <2>3 DEF events, m, e
<1>6. CASE (FocusedIn(prev) # id) = FALSE
  <2>1. Read(View(ws, m, overview, config), events) = View(ws, m, overview, config)
    BY <1>6, ReadIf
  <2>2. ASSUME NEW w \in N PROVE f[w] = nf[w]
    <3>1. w \in Both(prev, next)
      BY DEF Both
    <3>2. CASE w \in W
      BY <3>1, <3>2 DEF MixedFocus
    <3>3. CASE w \notin W
      <4>1. w \in DOMAIN prev
        BY <3>3 DEF Whole
      <4>2. prev[w].focused = (w = id) /\ prev[w].focused \in BOOLEAN
        BY <1>6, <4>1, FocusedIs DEF WindowsOK
      <4>3. f[w] = (prev[w].focused /\ ~ \E x \in W : next[x].focused)
        BY <3>1, <3>3 DEF MixedFocus
      <4>4. (\E x \in W : next[x].focused) => w # id
        BY <1>2, <3>3
      <4>5. f[w] = (w = id)
        BY <4>2, <4>3, <4>4
      <4> QED BY <1>2, <4>5
    <3> QED BY <3>2, <3>3
  <2> HIDE DEF f, nf
  <2>3. m = Wins(N, b, nf, u, l, s)
    BY <2>2, SameWins
  <2> HIDE DEF events, m
  <2> QED BY <1>3, <1>4, <2>1, <2>3 DEF events, m, f
<1> QED BY <1>5, <1>6

LEMMA WindowsTell ==
    ASSUME NEW prev, NEW next, WindowsOK(prev), WindowsOK(next), NEW ws, NEW overview, NEW config
    PROVE  /\ StateEvents(WindowEvents(prev, next))
           /\ Read(View(ws, prev, overview, config), WindowEvents(prev, next)) = View(ws, next, overview, config)
<1> DEFINE V(m) == View(ws, m, overview, config)
           P == DOMAIN prev
           N == DOMAIN next
           W == Whole(prev, next)
           gone == P \ N
           Differ(field) == {w \in N \ W : prev[w][field] # next[w][field]}
           urgents == [w \in N |-> next[w].urgent]
           layouts == [w \in N |-> next[w].layout]
           stamps == [w \in N |-> next[w].stamp]
           E1 == WholeTold(SetToSeq(W), next)
           E2 == ClosedTold(SetToSeq(gone))
           E3 == EachTold("window_urgency_changed", SetToSeq(Differ("urgent")), urgents)
           E4 == If(Differ("layout") # {}, [type |-> "window_layouts_changed", changes |-> [w \in Differ("layout") |-> layouts[w]]])
           E5 == EachTold("window_focus_timestamp_changed", SetToSeq(Differ("stamp")), stamps)
           E6 == If(FocusedIn(prev) # FocusedIn(next), [type |-> "window_focus_changed", id |-> FocusedIn(next)])
           b == Mixed(prev, next, W, "body")
           f == MixedFocus(prev, next, W)
           u == Mixed(prev, next, W, "urgent")
           l == Mixed(prev, next, W, "layout")
           s == Mixed(prev, next, W, "stamp")
           u3 == Overridden(N, u, urgents, Differ("urgent"))
           l4 == Overridden(N, l, layouts, Differ("layout"))
           s5 == Overridden(N, s, stamps, Differ("stamp"))
<1>1. /\ IsFiniteSet(W) /\ IsFiniteSet(gone) /\ W \subseteq N
      /\ IsFiniteSet(Differ("urgent")) /\ IsFiniteSet(Differ("stamp"))
      /\ Differ("urgent") \subseteq N /\ Differ("layout") \subseteq N /\ Differ("stamp") \subseteq N
  <2>1. IsFiniteSet(P) /\ IsFiniteSet(N)
    BY DEF WindowsOK
  <2>2. W \subseteq N /\ gone \subseteq P
    BY DEF Whole
  <2>3. Differ("urgent") \subseteq N /\ Differ("layout") \subseteq N /\ Differ("stamp") \subseteq N
    OBVIOUS
  <2> HIDE DEF P, N, W, gone, Differ
  <2> QED BY <2>1, <2>2, <2>3, FS_Subset
<1>2. /\ Listing(SetToSeq(W), W) /\ Listing(SetToSeq(gone), gone)
      /\ Listing(SetToSeq(Differ("urgent")), Differ("urgent")) /\ Listing(SetToSeq(Differ("stamp")), Differ("stamp"))
  <2> HIDE DEF W, gone, Differ
  <2> QED BY <1>1, SetToSeqLists
<1>3. WindowEvents(prev, next) = ((((E1 \o E2) \o E3) \o E4) \o E5) \o E6
  <2>1. [i \in DOMAIN SetToSeq(Differ("urgent")) |->
           [type |-> "window_urgency_changed", id |-> SetToSeq(Differ("urgent"))[i],
            value |-> next[SetToSeq(Differ("urgent"))[i]]["urgent"]]] = E3
    <3> DEFINE q == SetToSeq(Differ("urgent"))
    <3>1. \A i \in DOMAIN q : q[i] \in N
      BY <1>1, <1>2 DEF Listing
    <3> HIDE DEF q
    <3> QED BY <3>1 DEF EachTold, q
  <2>2. [i \in DOMAIN SetToSeq(Differ("stamp")) |->
           [type |-> "window_focus_timestamp_changed", id |-> SetToSeq(Differ("stamp"))[i],
            value |-> next[SetToSeq(Differ("stamp"))[i]]["stamp"]]] = E5
    <3> DEFINE q == SetToSeq(Differ("stamp"))
    <3>1. \A i \in DOMAIN q : q[i] \in N
      BY <1>1, <1>2 DEF Listing
    <3> HIDE DEF q
    <3> QED BY <3>1 DEF EachTold, q
  <2>3. [w \in Differ("layout") |-> next[w].layout] = [w \in Differ("layout") |-> layouts[w]]
    OBVIOUS
  <2> QED BY <2>1, <2>2, <2>3 DEF WindowEvents, WholeTold, ClosedTold
<1>4. StateEvents(E1) /\ Read(V(prev), E1) = V(MixedWins(P \cup W, prev, next, W))
  <2> DEFINE q == SetToSeq(W)
  <2>1. Listing(q, W) /\ W \subseteq DOMAIN next
    BY <1>1, <1>2
  <2> HIDE DEF q, W
  <2>2. /\ StateEvents(WholeTold(q, next))
        /\ Read(View(ws, prev, overview, config), WholeTold(q, next))
           = View(ws, MixedWins(DOMAIN prev \cup W, prev, next, W), overview, config)
    BY <2>1, WholeToldEach
  <2> QED BY <2>2 DEF q
<1>5. StateEvents(E2) /\ Read(V(MixedWins(P \cup W, prev, next, W)), E2) = V(Wins(N, b, f, u, l, s))
  <2> DEFINE D == P \cup W
  <2>1. MixedWins(D, prev, next, W) = Wins(D, b, f, u, l, s)
    BY DEF MixedWins
  <2>2. D \ gone = N
    BY DEF Whole
  <2> HIDE DEF D, b, f, u, l, s, gone, N
  <2>3. StateEvents(E2) /\ Read(V(Wins(D, b, f, u, l, s)), E2) = V(Wins(D \ gone, b, f, u, l, s))
    BY <1>2, ClosedToldEach
  <2> QED BY <2>1, <2>2, <2>3 DEF D
<1>6. StateEvents(E3) /\ Read(V(Wins(N, b, f, u, l, s)), E3) = V(Wins(N, b, f, u3, l, s))
  <2> HIDE DEF Differ, b, f, u, l, s, urgents, N
  <2> QED BY <1>1, <1>2, UrgencyToldEach
<1>7. StateEvents(E4) /\ Read(V(Wins(N, b, f, u3, l, s)), E4) = V(Wins(N, b, f, u3, l4, s))
  <2> HIDE DEF Differ, b, f, u3, l, s, layouts, N
  <2> QED BY <1>1, LayoutsTold
<1>8. StateEvents(E5) /\ Read(V(Wins(N, b, f, u3, l4, s)), E5) = V(Wins(N, b, f, u3, l4, s5))
  <2> HIDE DEF Differ, b, f, u3, l4, s, stamps, N
  <2> QED BY <1>1, <1>2, StampToldEach
<1>9. \A w \in N : /\ b[w] = next[w].body /\ u3[w] = next[w].urgent
                   /\ l4[w] = next[w].layout /\ s5[w] = next[w].stamp
  BY DEF Mixed, Overridden, Whole, Both
<1>10. StateEvents(E6) /\ Read(V(Wins(N, b, f, u3, l4, s5)), E6) = V(next)
  <2> HIDE DEF b, u3, l4, s5, W
  <2>1. W \subseteq W
    OBVIOUS
  <2> QED BY <1>1, <1>9, <2>1, FocusTold DEF W
<1> HIDE DEF E1, E2, E3, E4, E5, E6, V, b, f, u, l, s, u3, l4, s5, N, W, P
<1>11. StateEvents(E1 \o E2) /\ Read(V(prev), E1 \o E2) = V(Wins(N, b, f, u, l, s))
  BY <1>4, <1>5, ReadTwo
<1>12. StateEvents((E1 \o E2) \o E3) /\ Read(V(prev), (E1 \o E2) \o E3) = V(Wins(N, b, f, u3, l, s))
  BY <1>6, <1>11, ReadTwo
<1>13. /\ StateEvents(((E1 \o E2) \o E3) \o E4)
       /\ Read(V(prev), ((E1 \o E2) \o E3) \o E4) = V(Wins(N, b, f, u3, l4, s))
  BY <1>7, <1>12, ReadTwo
<1>14. /\ StateEvents((((E1 \o E2) \o E3) \o E4) \o E5)
       /\ Read(V(prev), (((E1 \o E2) \o E3) \o E4) \o E5) = V(Wins(N, b, f, u3, l4, s5))
  BY <1>8, <1>13, ReadTwo
<1>15. /\ StateEvents(((((E1 \o E2) \o E3) \o E4) \o E5) \o E6)
       /\ Read(V(prev), ((((E1 \o E2) \o E3) \o E4) \o E5) \o E6) = V(next)
  BY <1>10, <1>14, ReadTwo
<1> QED BY <1>3, <1>15 DEF V

----------------------------------------------------------------------------
(* What diff tells is enough. *)

LEMMA KnownSnapshots ==
    ASSUME NEW s \in Snapshots \cup {Nothing}
    PROVE  StateOf(s) = s
<1>1. CASE s \in Snapshots
  BY <1>1, EventStreamAssumption DEF Snapshot, StateOf
<1>2. CASE s = Nothing
  BY <1>2 DEF Nothing, StateOf
<1> QED BY <1>1, <1>2

LEMMA ToldIs ==
    ASSUME NEW s \in Snapshots \cup {Nothing}, NEW config
    PROVE  /\ Told(s, config) = View(s.ws, s.windows, s.overview, config)
           /\ StateOf(Told(s, config)) = s /\ Told(s, config).config = config
<1>1. StateOf(Told(s, config)) = StateOf(s)
  BY DEF Told, StateOf
<1> QED BY <1>1, KnownSnapshots DEF Told, View

\* A client that knows the one state and reads what diff tells knows the other (state.rs): whatever
\* workspaces and windows came, went or changed, and wherever the focus went, nothing else is needed.
\* None of those events is a config load.
THEOREM DiffTells ==
    ASSUME NEW s \in Snapshots \cup {Nothing}, NEW t \in Snapshots, NEW config
    PROVE  /\ StateEvents(Diff(s, t))
           /\ Read(Told(s, config), Diff(s, t)) = Told(t, config)
<1> DEFINE A == WorkspaceEvents(s.ws, t.ws)
           B == WindowEvents(s.windows, t.windows)
           C == OverviewEvents(s, t)
           e == [type |-> "overview_opened_or_closed", open |-> t.overview]
           v1 == View(t.ws, s.windows, s.overview, config)
           v2 == View(t.ws, t.windows, s.overview, config)
           v3 == View(t.ws, t.windows, t.overview, config)
<1>1. t \in Snapshots \cup {Nothing}
  OBVIOUS
<1>2. StateEvents(A) /\ Read(Told(s, config), A) = v1
  <2>1. ListOK(s.ws) /\ ListOK(t.ws)
    BY <1>1, ListsAreOK
  <2> QED BY <2>1, ToldIs, ListsTell
<1>3. StateEvents(B) /\ Read(v1, B) = v2
  <2>1. WindowsOK(s.windows) /\ WindowsOK(t.windows)
    BY <1>1, WindowsAreOK
  <2> QED BY <2>1, WindowsTell
<1>4. StateEvents(C) /\ Read(v2, C) = v3
  <2> DEFINE changed == s.overview # t.overview
             S == {e}
  <2>1. C = If(changed, e) /\ changed \in BOOLEAN
    BY DEF OverviewEvents
  <2>2. C \in Seq(S) /\ Read(v2, C) = IF changed THEN Known(v2, e) ELSE v2
    <3> HIDE DEF e, changed, C, v2
    <3> QED BY <2>1, ReadIf
  <2>3. \A x \in S : x.type # "config_loaded"
    OBVIOUS
  <2>4. Known(v2, e) = v3
    <3>1. e.type = "overview_opened_or_closed" /\ e.open = t.overview
      OBVIOUS
    <3> HIDE DEF e
    <3>2. KnownWorkspaces(t.ws, e) = t.ws /\ KnownWindows(t.windows, e) = t.windows
      BY <3>1 DEF KnownWorkspaces, KnownWindows
    <3>3. /\ KnownState(v2, e) = [ws |-> t.ws, windows |-> t.windows, overview |-> t.overview]
          /\ KnownConfig(v2, e) = config
      BY <3>1, <3>2 DEF KnownState, KnownConfig, View
    <3> QED BY <3>3 DEF Known, Told, View
  <2>5. ~changed => v2 = v3
    OBVIOUS
  <2> HIDE DEF S, C
  <2>6. StateEvents(C)
    BY <2>2, <2>3 DEF StateEvents
  <2> QED BY <2>1, <2>2, <2>4, <2>5, <2>6
<1>5. Diff(s, t) = (A \o B) \o C
  BY DEF Diff
<1>6. v3 = Told(t, config)
  BY <1>1, ToldIs
<1> HIDE DEF A, B, C, v1, v2, v3
<1>7. StateEvents(A \o B) /\ Read(Told(s, config), A \o B) = v2
  BY <1>2, <1>3, ReadTwo
<1>8. StateEvents((A \o B) \o C) /\ Read(Told(s, config), (A \o B) \o C) = v3
  BY <1>4, <1>7, ReadTwo
<1> QED BY <1>5, <1>6, <1>8

----------------------------------------------------------------------------
(* The shape of the state. *)

Phases == {"away", "asking", "subscribed", "replaying", "streaming"}

SomeEvents(q) == \E S : q \in Seq(S)

ReceiverOK(r) ==
    /\ r = Open(r.events) \/ r = Closed \/ r = Lagged
    /\ SomeEvents(r.events) /\ Len(r.events) \in Nat /\ Len(r.events) <= Capacity

\* Beyond TypeOK: who holds the mirror, and that a pass is sent before its subscriber subscribes.
Shape ==
    /\ TypeOK
    /\ phase \in [Clients -> Phases]
    /\ DOMAIN queue = Clients /\ DOMAIN replay = Clients /\ DOMAIN view = Clients
    /\ StateEvents(outbox)
    /\ \A c \in Clients :
        /\ ReceiverOK(queue[c])
        /\ holder = c => phase[c] \in {"asking", "subscribed"}
        /\ phase[c] = "subscribed" => outbox = <<>>

LEMMA EmptyIsOK ==
    /\ StateEvents(<<>>) /\ SomeEvents(<<>>)
    /\ ReceiverOK(Closed) /\ ReceiverOK(Lagged) /\ ReceiverOK(Open(<<>>))
<1>1. <<>> \in Seq({}) /\ Len(<<>>) = 0 /\ Capacity \in Nat
  BY EventStreamAssumption
<1>2. SomeEvents(<<>>)
  BY <1>1 DEF SomeEvents
<1>3. StateEvents(<<>>)
  <2> DEFINE S == {}
  <2>1. <<>> \in Seq(S) /\ \A e \in S : e.type # "config_loaded"
    BY <1>1
  <2> HIDE DEF S
  <2> QED BY <2>1 DEF StateEvents
<1>4. ASSUME NEW r, r.events = <<>>, r = Open(r.events) \/ r = Closed \/ r = Lagged PROVE ReceiverOK(r)
  BY <1>1, <1>2, <1>4 DEF ReceiverOK
<1>5. Closed.events = <<>> /\ Lagged.events = <<>> /\ Open(<<>>).events = <<>>
  BY DEF Closed, Lagged, Open
<1> QED BY <1>2, <1>3, <1>4, <1>5

LEMMA ReceiversAre ==
    ASSUME NEW q
    PROVE  /\ Open(q).is = "open" /\ Open(q).events = q /\ Open(q) # Lagged /\ Open(q) # Closed
           /\ Closed.is = "closed" /\ Closed # Lagged /\ Lagged.is = "lagged"
<1>1. Open(q).is = "open" /\ Open(q).events = q /\ Closed.is = "closed" /\ Lagged.is = "lagged"
  BY DEF Open, Closed, Lagged
<1> QED BY <1>1

\* What an event that is sent does to a receiver.
LEMMA SentTo ==
    ASSUME NEW c \in Clients, ReceiverOK(queue[c]), NEW e
    PROVE  /\ DOMAIN Sent(e) = Clients /\ ReceiverOK(Sent(e)[c])
           /\ Sent(e)[c].is = "closed" => queue[c].is = "closed"
           /\ Sent(e)[c] # Lagged /\ queue[c].is # "closed"
              => /\ queue[c].is = "open" /\ queue[c] # Lagged
                 /\ \A v : Read(v, Sent(e)[c].events) = Known(Read(v, queue[c].events), e)
<1> DEFINE q == queue[c].events
           r == Sent(e)[c]
<1>1. DOMAIN Sent(e) = Clients
  BY DEF Sent
<1>2. r = IF queue[c].is # "open" THEN queue[c]
          ELSE IF Len(q) = Capacity THEN Lagged
          ELSE Open(Append(q, e))
  BY DEF Sent
<1> HIDE DEF r
<1>3. CASE queue[c].is # "open"
  <2>1. queue[c] = Closed \/ queue[c] = Lagged
    BY <1>3, ReceiversAre DEF ReceiverOK
  <2> QED BY <1>1, <1>2, <1>3, <2>1, ReceiversAre DEF r
<1>4. CASE queue[c].is = "open" /\ Len(q) = Capacity
  <2>1. r = Lagged
    BY <1>2, <1>4
  <2> QED BY <1>1, <2>1, EmptyIsOK, ReceiversAre DEF r
<1>5. CASE queue[c].is = "open" /\ Len(q) # Capacity
  <2>1. r = Open(Append(q, e)) /\ r.events = Append(q, e) /\ r.is = "open"
    BY <1>2, <1>5, ReceiversAre
  <2>2. PICK S : q \in Seq(S)
    BY DEF ReceiverOK, SomeEvents
  <2> DEFINE T == S \cup {e}
  <2>3. q \in Seq(T) /\ e \in T
    BY <2>2
  <2> HIDE DEF T, q
  <2>4. Append(q, e) \in Seq(T) /\ Len(Append(q, e)) = Len(q) + 1
    BY <2>3, AppendProperties
  <2>5. SomeEvents(Append(q, e))
    BY <2>4 DEF SomeEvents
  <2>6. Len(q) \in Nat /\ Len(q) <= Capacity /\ Capacity \in Nat
    BY EventStreamAssumption DEF ReceiverOK, q
  <2>7. Len(Append(q, e)) \in Nat /\ Len(Append(q, e)) <= Capacity
    BY <1>5, <2>4, <2>6
  <2>8. ReceiverOK(r)
    BY <2>1, <2>5, <2>7 DEF ReceiverOK
  <2>9. \A v : Read(v, Append(q, e)) = Known(Read(v, q), e)
    BY <2>3, ReadAppend
  <2>10. queue[c] # Lagged
    BY <1>5, ReceiversAre
  <2> QED BY <1>1, <1>5, <2>1, <2>8, <2>9, <2>10 DEF r, q
<1> QED BY <1>3, <1>4, <1>5

LEMMA TailOfEvents ==
    ASSUME NEW q, StateEvents(q), q # <<>>
    PROVE  StateEvents(Tail(q)) /\ Head(q).type # "config_loaded" /\ SomeEvents(q)
<1>1. PICK S : q \in Seq(S) /\ \A e \in S : e.type # "config_loaded"
  BY DEF StateEvents
<1>2. Tail(q) \in Seq(S) /\ Head(q) \in S
  BY <1>1, HeadTailProperties
<1>3. StateEvents(Tail(q))
  BY <1>1, <1>2 DEF StateEvents
<1>4. SomeEvents(q)
  BY <1>1 DEF SomeEvents
<1> QED BY <1>1, <1>2, <1>3, <1>4

\* The part of Shape about one client, so that a step is looked at client by client.
ClientShape(c) ==
    /\ ReceiverOK(queue[c])
    /\ holder = c => phase[c] \in {"asking", "subscribed"}
    /\ phase[c] = "subscribed" => outbox = <<>>
    /\ phase[c] \in {"subscribed", "replaying", "streaming"} => queue[c].is # "closed"
    /\ phase[c] = "subscribed" => holder = c
    /\ phase[c] # "replaying" => replay[c] = Unknown

ServerShape ==
    /\ engine \in Snapshots /\ last \in Snapshots \cup {Nothing}
    /\ holder \in Clients \cup {Nobody, Task} /\ (holder = Task <=> task = "sending")
    /\ holder = Nobody => outbox = <<>>
    /\ permit \in BOOLEAN /\ announced \in BOOLEAN /\ unheeded \in BOOLEAN
    /\ unnotified \in Nat /\ lastConfig \in Nat /\ steps \in 0 .. MaxSteps
    /\ phase \in [Clients -> Phases]
    /\ DOMAIN queue = Clients /\ DOMAIN replay = Clients /\ DOMAIN view = Clients
    /\ StateEvents(outbox)

LEMMA ShapeParts == Shape <=> ServerShape /\ \A c \in Clients : ClientShape(c)
<1>1. \A r : ReceiverOK(r) => r.is \in {"open", "closed", "lagged"} /\ Len(r.events) <= Capacity
  BY ReceiversAre DEF ReceiverOK
<1>2. {permit, announced, unheeded} \subseteq BOOLEAN <=> permit \in BOOLEAN /\ announced \in BOOLEAN /\ unheeded \in BOOLEAN
  OBVIOUS
<1> QED BY <1>1, <1>2 DEF Shape, TypeOK, ServerShape, ClientShape

LEMMA InitShape == Init => Shape
<1> SUFFICES ASSUME Init PROVE Shape
  OBVIOUS
<1>1. ServerShape
  <2>1. phase \in [Clients -> Phases] /\ DOMAIN queue = Clients /\ DOMAIN replay = Clients /\ DOMAIN view = Clients
    BY DEF Init, Phases
  <2>2. StateEvents(outbox) /\ Nobody # Task /\ 0 \in 0 .. MaxSteps
    BY EventStreamAssumption, EmptyIsOK DEF Init
  <2> QED BY <2>1, <2>2 DEF Init, ServerShape
<1>2. ASSUME NEW c \in Clients PROVE ClientShape(c)
  BY EventStreamAssumption, EmptyIsOK DEF Init, ClientShape
<1> QED BY <1>1, <1>2, ShapeParts

LEMMA StepShape == Shape /\ [Next]_vars => Shape'
<1>0. Shape' <=> (ServerShape /\ \A c \in Clients : ClientShape(c))'
  BY ShapeParts, PTL
<1> SUFFICES ASSUME ServerShape, \A c \in Clients : ClientShape(c), [Next]_vars
             PROVE  ServerShape' /\ \A c \in Clients : ClientShape(c)'
  BY <1>0, ShapeParts
<1> USE EventStreamAssumption DEF serverVars, clientVars
<1>1. ASSUME NEW s \in Snapshots, Change(s) PROVE ServerShape' /\ \A c \in Clients : ClientShape(c)'
  BY <1>1 DEF Change, Outside, ServerShape, ClientShape
<1>2. CASE KeepConfig
  BY <1>2 DEF KeepConfig, Outside, ServerShape, ClientShape
<1>3. ASSUME NEW e, queue' = Sent(e), UNCHANGED <<phase, replay, view, holder>>,
             outbox = <<>> => outbox' = <<>>
      PROVE  DOMAIN queue' = Clients /\ \A c \in Clients : ClientShape(c)'
  <2>1. DOMAIN queue' = Clients
    BY <1>3 DEF Sent
  <2>2. ASSUME NEW c \in Clients PROVE ClientShape(c)'
    <3>1. ReceiverOK(queue'[c]) /\ (queue'[c].is = "closed" => queue[c].is = "closed")
      BY <1>3, SentTo DEF ClientShape
    <3> QED BY <1>3, <3>1 DEF ClientShape
  <2> QED BY <2>1, <2>2
<1>4. CASE Notice
  <2>1. DOMAIN queue' = Clients /\ \A c \in Clients : ClientShape(c)'
    BY <1>3, <1>4 DEF Notice
  <2> QED BY <1>4, <2>1 DEF Notice, Outside, ServerShape
<1>5. CASE NotifyStateChanged
  BY <1>5 DEF NotifyStateChanged, ServerShape, ClientShape
<1>6. CASE SendConfig
  <2>1. DOMAIN queue' = Clients /\ \A c \in Clients : ClientShape(c)'
    BY <1>3, <1>6 DEF SendConfig
  <2> QED BY <1>6, <2>1 DEF SendConfig, ServerShape
<1>7. CASE SendNext
  <2>1. DOMAIN queue' = Clients /\ \A c \in Clients : ClientShape(c)'
    BY <1>3, <1>7 DEF SendNext
  <2>2. StateEvents(outbox')
    BY <1>7, TailOfEvents DEF SendNext, ServerShape
  <2> QED BY <1>7, <2>1, <2>2 DEF SendNext, ServerShape
<1>8. CASE TaskWakes
  BY <1>8 DEF TaskWakes, IfHeard, ServerShape, ClientShape
<1>9. CASE TaskLooks
  BY <1>9 DEF TaskLooks, IfHeard, ServerShape, ClientShape
<1>10. StateEvents(Diff(last, engine))
  BY DiffTells DEF ServerShape
<1>11. CASE TaskDescribes
  BY <1>10, <1>11 DEF TaskDescribes, Describe, ServerShape, ClientShape
<1>12. CASE TaskDone
  BY <1>12 DEF TaskDone, ServerShape, ClientShape
<1>13. ASSUME NEW c \in Clients, Connect(c) PROVE ServerShape' /\ \A d \in Clients : ClientShape(d)'
  BY <1>13 DEF Connect, Outside, ServerShape, ClientShape, Phases
<1>14. ASSUME NEW c \in Clients, SubscriberDescribes(c) PROVE ServerShape' /\ \A d \in Clients : ClientShape(d)'
  BY <1>10, <1>14 DEF SubscriberDescribes, Describe, ServerShape, ClientShape
<1>15. ASSUME NEW c \in Clients, Subscribe(c) PROVE ServerShape' /\ \A d \in Clients : ClientShape(d)'
  BY <1>15, EmptyIsOK, ReceiversAre DEF Subscribe, ServerShape, ClientShape, Phases
<1>16. ASSUME NEW c \in Clients, TakeReplay(c) PROVE ServerShape' /\ \A d \in Clients : ClientShape(d)'
  BY <1>16 DEF TakeReplay, ServerShape, ClientShape, Phases
<1>17. ASSUME NEW c \in Clients, WriteReplay(c) PROVE ServerShape' /\ \A d \in Clients : ClientShape(d)'
  BY <1>17 DEF WriteReplay, ServerShape, ClientShape, Phases
<1>18. ASSUME NEW c \in Clients, Receive(c) PROVE ServerShape' /\ \A d \in Clients : ClientShape(d)'
  <2> DEFINE q == queue[c].events
  <2>1. ReceiverOK(Open(Tail(q)))
    <3>1. PICK S : q \in Seq(S)
      BY DEF ClientShape, ReceiverOK, SomeEvents
    <3>2. q # <<>> /\ Len(q) \in Nat /\ Len(q) <= Capacity
      BY <1>18 DEF Receive, ClientShape, ReceiverOK
    <3>3. Tail(q) \in Seq(S) /\ Len(Tail(q)) = Len(q) - 1
      BY <3>1, <3>2, HeadTailProperties
    <3>4. Len(Tail(q)) \in Nat /\ Len(Tail(q)) <= Capacity
      BY <3>2, <3>3
    <3>5. SomeEvents(Tail(q))
      BY <3>3 DEF SomeEvents
    <3>6. Open(Tail(q)).events = Tail(q)
      BY ReceiversAre
    <3> QED BY <3>4, <3>5, <3>6 DEF ReceiverOK
  <2> HIDE DEF q
  <2>2. queue' = [queue EXCEPT ![c] = Open(Tail(q))]
    BY <1>18 DEF Receive, q
  <2> QED BY <1>18, <2>1, <2>2, ReceiversAre DEF Receive, ServerShape, ClientShape
<1>19. ASSUME NEW c \in Clients, CatchUp(c) PROVE ServerShape' /\ \A d \in Clients : ClientShape(d)'
  BY <1>19 DEF CatchUp, ServerShape, ClientShape, Phases
<1>20. ASSUME NEW c \in Clients, Disconnect(c) PROVE ServerShape' /\ \A d \in Clients : ClientShape(d)'
  BY <1>20, EmptyIsOK DEF Disconnect, ServerShape, ClientShape, Phases
<1>21. CASE UNCHANGED vars
  BY <1>21 DEF vars, ServerShape, ClientShape
<1> QED BY <1>1, <1>2, <1>4, <1>5, <1>6, <1>7, <1>8, <1>9, <1>11, <1>12, <1>13, <1>14, <1>15, <1>16, <1>17,
           <1>18, <1>19, <1>20, <1>21 DEF Next, TaskStep, Subscribing, ClientStep

----------------------------------------------------------------------------
(* What every client knows, or will.                                       *)
(*                                                                         *)
(* NoChangeIsMissed speaks of the moments between passes, and of clients   *)
(* that follow; by itself it is not inductive.  While a pass is sent, what *)
(* is on its way is still short of what was described by the rest of the   *)
(* outbox.  A client that has subscribed and not yet taken what it is told *)
(* first has a receiver already, and what is sent meanwhile (loads and     *)
(* notices, as it holds the mirror) must not spoil what it will know.      *)

FollowsState(c) == Follows(c) => StateOf(Read(Followed(c), outbox)) = last

FollowsConfig(c) == Follows(c) /\ ~announced => Followed(c).config = lastConfig

ToFollow(c) == Read(Told(last, lastConfig), queue[c].events)

WillFollow(c) ==
    phase[c] = "subscribed" /\ queue[c] # Lagged =>
        StateOf(ToFollow(c)) = last /\ (~announced => ToFollow(c).config = lastConfig)

Knowing(c) == FollowsState(c) /\ FollowsConfig(c) /\ WillFollow(c)

Inv == Shape /\ \A c \in Clients : Knowing(c)

LEMMA EventOutside ==
    ASSUME NEW v, NEW e
    PROVE  /\ e.type \in {"notice", "config_loaded"} => StateOf(Known(v, e)) = StateOf(v)
           /\ Known(v, e).config = IF e.type = "config_loaded" THEN e.config ELSE v.config
<1>1. ASSUME e.type \in {"notice", "config_loaded"} PROVE StateOf(Known(v, e)) = StateOf(v)
  <2>1. KnownWorkspaces(v.ws, e) = v.ws /\ KnownWindows(v.windows, e) = v.windows
    BY <1>1 DEF KnownWorkspaces, KnownWindows
  <2> QED BY <1>1, <2>1 DEF Known, Told, StateOf, KnownState
<1>2. Known(v, e).config = IF e.type = "config_loaded" THEN e.config ELSE v.config
  BY DEF Known, Told, KnownConfig
<1> QED BY <1>1, <1>2

\* Nothing that a client follows changes.
LEMMA KnowingStays ==
    ASSUME NEW c \in Clients, Knowing(c), UNCHANGED <<last, outbox, lastConfig, announced>>,
           phase'[c] = phase[c], queue'[c] = queue[c], replay'[c] = replay[c], view'[c] = view[c]
    PROVE  Knowing(c)'
BY DEF Knowing, FollowsState, FollowsConfig, WillFollow, Follows, Followed, Start, ToFollow

LEMMA NotFollowing ==
    ASSUME NEW c \in Clients, phase'[c] \in {"away", "asking"}
    PROVE  Knowing(c)'
BY DEF Knowing, FollowsState, FollowsConfig, WillFollow, Follows

\* A load or a notice is sent.
LEMMA KnowingSent ==
    ASSUME Shape, NEW c \in Clients, Knowing(c), NEW e, queue' = Sent(e),
           UNCHANGED <<last, outbox, lastConfig, phase, replay, view>>,
           \/ e.type = "notice" /\ announced' = announced
           \/ e.type = "config_loaded" /\ e.config = lastConfig
    PROVE  Knowing(c)'
<1>1. /\ ReceiverOK(queue[c]) /\ StateEvents(outbox)
      /\ phase[c] \in {"subscribed", "replaying", "streaming"} => queue[c].is # "closed"
  BY DEF Shape, TypeOK
<1>2. ASSUME queue'[c] # Lagged, phase[c] \in {"subscribed", "replaying", "streaming"}
      PROVE  queue[c] # Lagged /\ \A v : Read(v, queue'[c].events) = Known(Read(v, queue[c].events), e)
  BY <1>1, <1>2, SentTo
<1>3. Len(outbox) \in Nat
  BY <1>1 DEF StateEvents
<1>4. \A v : StateOf(Known(v, e)) = StateOf(v) /\ Known(v, e).config = IF e.type = "config_loaded" THEN e.config ELSE v.config
  BY EventOutside
<1>5. ASSUME Follows(c)' PROVE StateOf(Read(Followed(c), outbox))' = last' /\ (~announced' => Followed(c)'.config = lastConfig')
  <2>1. Follows(c) /\ queue'[c] # Lagged /\ phase[c] \in {"replaying", "streaming"}
    BY <1>2, <1>5 DEF Follows
  <2>2. Followed(c)' = Known(Followed(c), e)
    BY <1>2, <2>1 DEF Followed, Start
  <2>3. StateOf(Read(Followed(c)', outbox)) = StateOf(Read(Followed(c), outbox))
    <3>1. StateOf(Followed(c)') = StateOf(Followed(c))
      BY <1>4, <2>2
    <3> QED BY <1>3, <3>1, StateFollows
  <2>4. StateOf(Read(Followed(c), outbox)) = last
    BY <2>1 DEF Knowing, FollowsState
  <2>5. ~announced' => Followed(c)'.config = lastConfig
    BY <1>4, <2>1, <2>2 DEF Knowing, FollowsConfig
  <2> QED BY <2>3, <2>4, <2>5
<1>6. ASSUME phase'[c] = "subscribed", queue'[c] # Lagged
      PROVE  StateOf(ToFollow(c)') = last' /\ (~announced' => ToFollow(c)'.config = lastConfig')
  <2>1. queue[c] # Lagged /\ phase[c] = "subscribed"
    BY <1>2, <1>6
  <2>2. ToFollow(c)' = Known(ToFollow(c), e)
    BY <1>2, <1>6 DEF ToFollow
  <2> QED BY <1>4, <2>1, <2>2 DEF Knowing, WillFollow
<1> QED BY <1>5, <1>6 DEF Knowing, FollowsState, FollowsConfig, WillFollow

\* The next event of a pass is sent.
LEMMA KnowingSentNext ==
    ASSUME Shape, NEW c \in Clients, Knowing(c), SendNext
    PROVE  Knowing(c)'
<1> DEFINE e == Head(outbox)
<1>1. /\ ReceiverOK(queue[c]) /\ StateEvents(outbox) /\ (phase[c] = "subscribed" => outbox = <<>>)
      /\ phase[c] \in {"subscribed", "replaying", "streaming"} => queue[c].is # "closed"
  BY DEF Shape, TypeOK
<1>2. /\ outbox # <<>> /\ outbox' = Tail(outbox) /\ queue' = Sent(e)
      /\ UNCHANGED <<last, lastConfig, announced, phase, replay, view>>
  BY DEF SendNext, serverVars, clientVars
<1>3. e.type # "config_loaded" /\ SomeEvents(outbox)
  BY <1>1, <1>2, TailOfEvents
<1> HIDE DEF e
<1>4. phase'[c] # "subscribed"
  BY <1>1, <1>2
<1>5. ASSUME Follows(c)' PROVE StateOf(Read(Followed(c), outbox))' = last' /\ (~announced' => Followed(c)'.config = lastConfig')
  <2>1. queue'[c] # Lagged /\ phase[c] \in {"replaying", "streaming"} /\ queue[c].is # "closed"
    BY <1>1, <1>2, <1>5 DEF Follows
  <2>2. queue[c] # Lagged /\ \A v : Read(v, queue'[c].events) = Known(Read(v, queue[c].events), e)
    BY <1>1, <1>2, <2>1, SentTo
  <2>3. Follows(c) /\ Followed(c)' = Known(Followed(c), e)
    BY <1>2, <2>1, <2>2 DEF Followed, Start, Follows
  <2>4. Read(Known(Followed(c), e), Tail(outbox)) = Read(Followed(c), outbox)
    <3>1. PICK S : outbox \in Seq(S)
      BY <1>3 DEF SomeEvents
    <3> QED BY <1>2, <3>1, ReadHead DEF e
  <2>5. Known(Followed(c), e).config = Followed(c).config
    BY <1>3, EventOutside
  <2> QED BY <1>2, <2>3, <2>4, <2>5 DEF Knowing, FollowsState, FollowsConfig
<1> QED BY <1>4, <1>5 DEF Knowing, FollowsState, FollowsConfig, WillFollow

\* A pass begins.
LEMMA KnowingDescribed ==
    ASSUME Shape, NEW c \in Clients, Knowing(c), NEW who, Describe(who), UNCHANGED <<lastConfig, announced>>,
           phase'[c] = phase[c], queue'[c] = queue[c], replay'[c] = replay[c], view'[c] = view[c]
    PROVE  Knowing(c)'
<1>1. /\ holder = Nobody /\ outbox = <<>> /\ Nobody \notin Clients
      /\ last \in Snapshots \cup {Nothing} /\ engine \in Snapshots
      /\ phase[c] = "subscribed" => holder = c
  BY EventStreamAssumption DEF Shape, TypeOK, Describe
<1>2. phase'[c] # "subscribed"
  BY <1>1
<1>3. ASSUME Follows(c)' PROVE StateOf(Read(Followed(c), outbox))' = last' /\ (~announced' => Followed(c)'.config = lastConfig')
  <2>1. Follows(c) /\ Followed(c)' = Followed(c)
    BY <1>3 DEF Follows, Followed, Start
  <2>2. StateOf(Followed(c)) = last
    BY <1>1, <2>1, ReadNothing DEF Knowing, FollowsState
  <2> DEFINE d == Diff(last, engine)
  <2>3. outbox' = d /\ last' = engine
    BY DEF Describe
  <2>4. StateEvents(d) /\ Read(Told(last, 0), d) = Told(engine, 0)
    BY <1>1, DiffTells
  <2> HIDE DEF d
  <2>5. StateOf(Told(last, 0)) = last /\ StateOf(Told(engine, 0)) = engine
    BY <1>1, ToldIs
  <2>6. Len(d) \in Nat
    BY <2>4 DEF StateEvents
  <2>7. StateOf(Read(Followed(c), d)) = StateOf(Read(Told(last, 0), d))
    BY <2>2, <2>5, <2>6, StateFollows
  <2>8. ~announced => Followed(c).config = lastConfig
    BY <2>1 DEF Knowing, FollowsConfig
  <2> QED BY <2>1, <2>3, <2>4, <2>5, <2>7, <2>8
<1> QED BY <1>2, <1>3 DEF Knowing, FollowsState, FollowsConfig, WillFollow

LEMMA InitKnowing == Init => \A c \in Clients : Knowing(c)
BY DEF Init, Knowing, FollowsState, FollowsConfig, WillFollow, Follows

LEMMA StepKnowing ==
    ASSUME Inv, [Next]_vars, NEW c \in Clients
    PROVE  Knowing(c)'
<1>0. Shape /\ Knowing(c) /\ phase \in [Clients -> Phases] /\ DOMAIN queue = Clients /\ DOMAIN replay = Clients /\ DOMAIN view = Clients
  BY DEF Inv, Shape
<1>1. ASSUME NEW s \in Snapshots, Change(s) PROVE Knowing(c)'
  BY <1>0, <1>1, KnowingStays DEF Change, serverVars, clientVars
<1>2. CASE KeepConfig
  <2>1. /\ announced' /\ lastConfig' = lastConfig + 1
        /\ UNCHANGED <<last, outbox, phase, queue, replay, view>>
    BY <1>2 DEF KeepConfig, serverVars, clientVars
  <2>2. FollowsState(c)'
    BY <1>0, <2>1 DEF Knowing, FollowsState, Follows, Followed, Start
  <2>3. ASSUME phase[c] = "subscribed", queue[c] # Lagged PROVE StateOf(ToFollow(c)') = last
    <3> DEFINE q == queue[c].events
    <3>1. last \in Snapshots \cup {Nothing} /\ Len(q) \in Nat
      BY <1>0 DEF Shape, TypeOK, ReceiverOK
    <3>2. StateOf(Told(last, lastConfig')) = StateOf(Told(last, lastConfig))
      BY <3>1, ToldIs
    <3>3. StateOf(Read(Told(last, lastConfig'), q)) = StateOf(Read(Told(last, lastConfig), q))
      <4> HIDE DEF q
      <4> QED BY <3>1, <3>2, StateFollows
    <3> QED BY <1>0, <2>1, <2>3, <3>3 DEF Knowing, WillFollow, ToFollow
  <2>4. FollowsConfig(c)' /\ WillFollow(c)'
    BY <2>1, <2>3 DEF FollowsConfig, WillFollow
  <2> QED BY <2>2, <2>4 DEF Knowing
<1>3. CASE Notice
  <2> DEFINE e == [type |-> "notice"]
  <2>1. e.type = "notice"
    OBVIOUS
  <2>2. queue' = Sent(e) /\ UNCHANGED <<last, outbox, lastConfig, announced, phase, replay, view>>
    BY <1>3 DEF Notice, serverVars
  <2> HIDE DEF e
  <2> QED BY <1>0, <2>1, <2>2, KnowingSent
<1>4. CASE NotifyStateChanged
  BY <1>0, <1>4, KnowingStays DEF NotifyStateChanged, serverVars, clientVars
<1>5. CASE SendConfig
  <2> DEFINE e == [type |-> "config_loaded", config |-> lastConfig]
  <2>1. e.type = "config_loaded" /\ e.config = lastConfig
    OBVIOUS
  <2>2. queue' = Sent(e) /\ UNCHANGED <<last, outbox, lastConfig, phase, replay, view>>
    BY <1>5 DEF SendConfig, serverVars
  <2> HIDE DEF e
  <2> QED BY <1>0, <2>1, <2>2, KnowingSent
<1>6. CASE SendNext
  BY <1>0, <1>6, KnowingSentNext
<1>7. CASE TaskWakes
  BY <1>0, <1>7, KnowingStays DEF TaskWakes, clientVars
<1>8. CASE TaskLooks
  BY <1>0, <1>8, KnowingStays DEF TaskLooks, clientVars
<1>9. CASE TaskDescribes
  BY <1>0, <1>9, KnowingDescribed DEF TaskDescribes, clientVars
<1>10. CASE TaskDone
  BY <1>0, <1>10, KnowingStays DEF TaskDone, clientVars
<1>11. ASSUME NEW d \in Clients, Connect(d) PROVE Knowing(c)'
  <2>1. phase' = [phase EXCEPT ![d] = "asking"] /\ UNCHANGED <<last, outbox, lastConfig, announced, queue, replay, view>>
    BY <1>11 DEF Connect, serverVars
  <2>2. CASE c = d
    BY <1>0, <2>1, <2>2, NotFollowing
  <2>3. CASE c # d
    BY <1>0, <2>1, <2>3, KnowingStays
  <2> QED BY <2>2, <2>3
<1>12. ASSUME NEW d \in Clients, SubscriberDescribes(d) PROVE Knowing(c)'
  BY <1>0, <1>12, KnowingDescribed DEF SubscriberDescribes, clientVars
<1>13. ASSUME NEW d \in Clients, Subscribe(d) PROVE Knowing(c)'
  <2>1. /\ phase' = [phase EXCEPT ![d] = "subscribed"] /\ queue' = [queue EXCEPT ![d] = Open(<<>>)]
        /\ UNCHANGED <<last, outbox, lastConfig, announced, replay, view>>
    BY <1>13 DEF Subscribe, serverVars
  <2>2. CASE c = d
    <3>1. phase'[c] = "subscribed" /\ queue'[c].events = <<>>
      BY <1>0, <2>1, <2>2, ReceiversAre
    <3>2. ToFollow(c)' = Told(last, lastConfig)
      BY <2>1, <3>1, ReadNothing DEF ToFollow
    <3>3. last \in Snapshots \cup {Nothing}
      BY <1>0 DEF Shape, TypeOK
    <3>4. StateOf(ToFollow(c)') = last /\ ToFollow(c)'.config = lastConfig
      BY <3>2, <3>3, ToldIs
    <3> QED BY <2>1, <3>1, <3>4 DEF Knowing, FollowsState, FollowsConfig, WillFollow, Follows
  <2>3. CASE c # d
    BY <1>0, <2>1, <2>3, KnowingStays
  <2> QED BY <2>2, <2>3
<1>14. ASSUME NEW d \in Clients, TakeReplay(d) PROVE Knowing(c)'
  <2>1. /\ phase' = [phase EXCEPT ![d] = "replaying"] /\ replay' = [replay EXCEPT ![d] = Told(last, lastConfig)]
        /\ UNCHANGED <<last, outbox, lastConfig, announced, queue, view>>
    BY <1>14 DEF TakeReplay
  <2>2. CASE c = d
    <3>1. phase'[c] = "replaying" /\ replay'[c] = Told(last, lastConfig) /\ phase[c] = "subscribed" /\ outbox = <<>>
      BY <1>0, <1>14, <2>1, <2>2 DEF TakeReplay, Shape
    <3>2. Followed(c)' = ToFollow(c)
      BY <2>1, <3>1 DEF Followed, Start, ToFollow
    <3>3. queue[c] # Lagged => StateOf(ToFollow(c)) = last /\ (~announced => ToFollow(c).config = lastConfig)
      BY <1>0, <3>1 DEF Knowing, WillFollow
    <3>4. Read(ToFollow(c), <<>>) = ToFollow(c)
      BY ReadNothing
    <3>5. Follows(c)' <=> queue[c] # Lagged
      BY <2>1, <3>1 DEF Follows
    <3>6. FollowsState(c)' /\ FollowsConfig(c)'
      BY <2>1, <3>1, <3>2, <3>3, <3>4, <3>5 DEF FollowsState, FollowsConfig
    <3> QED BY <3>1, <3>6 DEF Knowing, WillFollow
  <2>3. CASE c # d
    BY <1>0, <2>1, <2>3, KnowingStays
  <2> QED BY <2>2, <2>3
<1>15. ASSUME NEW d \in Clients, WriteReplay(d) PROVE Knowing(c)'
  <2>1. /\ phase' = [phase EXCEPT ![d] = "streaming"] /\ view' = [view EXCEPT ![d] = replay[d]]
        /\ replay' = [replay EXCEPT ![d] = Unknown] /\ phase[d] = "replaying"
        /\ UNCHANGED <<last, outbox, lastConfig, announced, queue>>
    BY <1>15 DEF WriteReplay, serverVars
  <2>2. CASE c = d
    <3>1. phase'[c] = "streaming" /\ view'[c] = replay[c] /\ phase[c] = "replaying"
      BY <1>0, <2>1, <2>2
    <3>2. Start(c)' = Start(c) /\ (Follows(c)' <=> Follows(c))
      BY <2>1, <3>1 DEF Start, Follows
    <3>3. Followed(c)' = Followed(c)
      BY <2>1, <3>2 DEF Followed
    <3> QED BY <1>0, <2>1, <3>1, <3>2, <3>3 DEF Knowing, FollowsState, FollowsConfig, WillFollow
  <2>3. CASE c # d
    BY <1>0, <2>1, <2>3, KnowingStays
  <2> QED BY <2>2, <2>3
<1>16. ASSUME NEW d \in Clients, Receive(d) PROVE Knowing(c)'
  <2> DEFINE q == queue[d].events
  <2>1. /\ view' = [view EXCEPT ![d] = Known(view[d], Head(q))] /\ queue' = [queue EXCEPT ![d] = Open(Tail(q))]
        /\ phase[d] = "streaming" /\ queue[d].is = "open" /\ q # <<>>
        /\ UNCHANGED <<last, outbox, lastConfig, announced, phase, replay>>
    BY <1>16 DEF Receive, serverVars
  <2>2. CASE c = d
    <3>1. PICK S : q \in Seq(S)
      BY <1>0 DEF Shape, ReceiverOK, SomeEvents
    <3>2. /\ view'[c] = Known(view[c], Head(q)) /\ queue'[c].events = Tail(q)
          /\ phase[c] = "streaming" /\ phase'[c] = "streaming" /\ queue[c] # Lagged
      BY <1>0, <2>1, <2>2, ReceiversAre
    <3>3. Read(Known(view[c], Head(q)), Tail(q)) = Read(view[c], q)
      <4> HIDE DEF q
      <4> QED BY <2>1, <3>1, ReadHead
    <3>4. Followed(c)' = Followed(c) /\ Follows(c)
      BY <2>2, <3>2, <3>3 DEF Followed, Start, Follows
    <3> HIDE DEF q
    <3> QED BY <1>0, <2>1, <3>2, <3>4 DEF Knowing, FollowsState, FollowsConfig, WillFollow
  <2>3. CASE c # d
    BY <1>0, <2>1, <2>3, KnowingStays
  <2> QED BY <2>2, <2>3
<1>17. ASSUME NEW d \in Clients, CatchUp(d) PROVE Knowing(c)'
  <2>1. phase' = [phase EXCEPT ![d] = "asking"] /\ UNCHANGED <<last, outbox, lastConfig, announced, queue, replay, view>>
    BY <1>17 DEF CatchUp, serverVars
  <2>2. CASE c = d
    BY <1>0, <2>1, <2>2, NotFollowing
  <2>3. CASE c # d
    BY <1>0, <2>1, <2>3, KnowingStays
  <2> QED BY <2>2, <2>3
<1>18. ASSUME NEW d \in Clients, Disconnect(d) PROVE Knowing(c)'
  <2>1. /\ phase' = [phase EXCEPT ![d] = "away"] /\ queue' = [queue EXCEPT ![d] = Closed]
        /\ replay' = [replay EXCEPT ![d] = Unknown] /\ view' = [view EXCEPT ![d] = Unknown]
        /\ UNCHANGED <<last, outbox, lastConfig, announced>>
    BY <1>18 DEF Disconnect, serverVars
  <2>2. CASE c = d
    BY <1>0, <2>1, <2>2, NotFollowing
  <2>3. CASE c # d
    BY <1>0, <2>1, <2>3, KnowingStays
  <2> QED BY <2>2, <2>3
<1>19. CASE UNCHANGED vars
  BY <1>0, <1>19, KnowingStays DEF vars, serverVars, clientVars
<1> QED BY <1>1, <1>2, <1>3, <1>4, <1>5, <1>6, <1>7, <1>8, <1>9, <1>10, <1>11, <1>12, <1>13, <1>14, <1>15,
           <1>16, <1>17, <1>18, <1>19 DEF Next, TaskStep, Subscribing, ClientStep

LEMMA Invariance == Spec => []Inv
<1>1. Init => Inv
  BY InitShape, InitKnowing DEF Inv
<1>2. Inv /\ [Next]_vars => Inv'
  <2> SUFFICES ASSUME Inv, [Next]_vars PROVE Inv'
    OBVIOUS
  <2>1. Shape'
    BY StepShape DEF Inv
  <2>2. \A c \in Clients : Knowing(c)'
    BY StepKnowing
  <2> QED BY <2>1, <2>2 DEF Inv
<1> QED BY <1>1, <1>2, PTL DEF Spec

\* The state is well formed: the channel keeps no more than its capacity for a receiver, the mirror
\* has one holder, and a client is told first what its subscription found.
THEOREM TypeCorrect == Spec => []TypeOK
<1>1. Inv => TypeOK
  BY DEF Inv, Shape
<1> QED BY <1>1, Invariance, PTL

\* Between two passes a subscriber that has not lagged knows, after reading what is on its way,
\* exactly the state the last pass described (subscribe_with_replay, sync_locked, stream_events):
\* for any number of clients, any snapshots, any capacity, and whatever else was sent.
THEOREM NothingIsMissed == Spec => []NoChangeIsMissed
<1>1. Inv => NoChangeIsMissed
  <2> SUFFICES ASSUME Inv, holder = Nobody, NEW c \in Clients, Follows(c)
               PROVE  StateOf(Followed(c)) = last
    BY DEF NoChangeIsMissed
  <2>1. outbox = <<>> /\ StateOf(Read(Followed(c), outbox)) = last
    BY DEF Inv, Shape, TypeOK, Knowing, FollowsState
  <2> QED BY <2>1, ReadNothing
<1> QED BY <1>1, Invariance, PTL

\* A config load that was announced is known to every subscriber that has read everything, though it
\* is kept and sent in two steps without the mirror (broadcast_event): in whichever order the two
\* meet a subscription, it was in what the client was told first or comes as an event.
THEOREM LoadsAreKnown == Spec => []ConfigIsKnown
<1>1. Inv => ConfigIsKnown
  BY DEF Inv, ConfigIsKnown, Knowing, FollowsConfig
<1> QED BY <1>1, Invariance, PTL
=============================================================================
