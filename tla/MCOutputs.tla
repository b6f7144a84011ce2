----------------------------- MODULE MCOutputs -----------------------------
(***************************************************************************)
(* TLC instances of outputs that come and go.  The engine treats keys and  *)
(* identities as opaque, save that a free key above all others is given    *)
(* next.  The view names a workspace by its place in its stack, keeps the  *)
(* keys of the stacks that some record refers to, and has of an identity   *)
(* only the places of the records that have it too.                        *)
(***************************************************************************)
EXTENDS OutputsProps, TLC

Symmetry == Permutations(Windows) \cup Permutations(Outputs)

PlaceIn(stack, key) == Max({0} \cup {i \in DOMAIN stack : stack[i].key = key})
ReferredTo(o) == \E g \in DOMAIN away : away[g].host = o
KeySeen(o, k) == IF ReferredTo(o) \/ o \notin DOMAIN mon THEN k ELSE PlaceIn(mon[o].stack, k)

WorkspaceSeen(x) == <<x.name, x.wins, home[x.id]>>
Elsewhere(x) == [g \in DOMAIN away |-> {i \in DOMAIN away[g].stack : away[g].stack[i].id = x.id}]

View ==
    <<[o \in DOMAIN mon |->
        <<KeySeen(o, mon[o].active),
          [i \in DOMAIN mon[o].stack |->
             LET x == mon[o].stack[i] IN <<KeySeen(o, x.key), WorkspaceSeen(x), Elsewhere(x)>>]>>],
      [g \in DOMAIN away |->
        <<[i \in DOMAIN away[g].stack |-> WorkspaceSeen(away[g].stack[i])],
          PlaceIn(away[g].stack, away[g].active), away[g].host, away[g].minimized,
          [i \in DOMAIN away[g].moved |-> <<PlaceIn(away[g].stack, away[g].moved[i][1]), away[g].moved[i][2]>>]>>],
      [w \in DOMAIN minimized |-> <<minimized[w].output, KeySeen(minimized[w].output, minimized[w].key)>>],
      order, focused, managed,
      ToString(<<mon, away, minimized, home>>) # "">>

\* No window closes: what an output takes along is not a new window with the handle of an old one.
OpenSpec == Init /\ [][Next /\ managed \subseteq managed']_vars

\* Of the instance: two windows on two outputs (as tiles, where a stack has come to its fourth
\* key), or one window and either a name or a third output.
Records == Within(away)
Named == \E x \in Records \cup {p[2] : p \in Live} : x.name # NoName
Few == Cardinality(managed \cup UNION {x.wins : x \in Records}) < 2

InBounds ==
    /\ (\E p \in Live : p[2].key = 3) => minimized = NoOne
    /\ Named => Few /\ \A p \in Live : p[2].key <= 2
    /\ Cardinality(DOMAIN mon \cup DOMAIN away) = 3 => ~Named /\ Few /\ \A p \in Live : p[2].key <= 1
=============================================================================
