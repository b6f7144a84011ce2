------------------------------- MODULE Lists -------------------------------
(***************************************************************************)
(* What Vec and HashMap give the engine and the community modules do not:  *)
(* whether and where an element is in a sequence, retain, and insert.      *)
(***************************************************************************)
EXTENDS Integers, Sequences, FiniteSets, SequencesExt

InSeq(s, x) == \E i \in DOMAIN s : s[i] = x

\* The first index of x in s, 0 when it is not there.
IndexIn(s, x) == SelectInSeq(s, LAMBDA y : y = x)

\* Vec::retain: s without the members of S.  The k-th that stays is the one that k of
\* those that stay are not behind.
Dropped(s, S) ==
    LET stay    == {i \in DOMAIN s : s[i] \notin S}
        rank(i) == Cardinality({j \in stay : j <= i})
    IN  [k \in 1 .. Cardinality(stay) |-> s[CHOOSE i \in stay : rank(i) = k]]

Without(s, x) == Dropped(s, {x})

\* HashMap::insert.
With(f, key, value) == [k \in DOMAIN f \cup {key} |-> IF k = key THEN value ELSE f[k]]
=============================================================================
