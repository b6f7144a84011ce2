----------------------------- MODULE MCMonitor -----------------------------
(***************************************************************************)
(* TLC instances of an output.  The engine treats workspace keys as opaque *)
(* identities: what it computes from them is only a key nobody holds.  The *)
(* view names each workspace by its place in the order, so that states     *)
(* that differ in the keys alone are visited once.  (Its last component is *)
(* always TRUE: printing the state makes TLC evaluate it before it stores  *)
(* it, which a view alone does not.)                                       *)
(***************************************************************************)
EXTENDS MonitorProps, TLC

Symmetry == Permutations(Windows)

Place(id) == IndexIn(mon.order, id)

\* Nothing but back-and-forth reads the previous workspace.
PreviousSeen == IF config.backAndForth THEN Place(mon.previous) ELSE 0

View ==
    <<[i \in DOMAIN mon.order |-> mon.ws[mon.order[i]]],
      <<Place(mon.active), PreviousSeen, mon.focusColumn, mon.focusWindow>>,
      mon.ring, mon.lastActivated,
      {<<w, Place(minimized[w].workspace), minimized[w].slot>> : w \in DOMAIN minimized},
      managed, config, Len(ToString(<<mon, minimized>>)) > 0>>

\* Life on a single workspace: no operation that names another one.
StripNext ==
    \/ \E w \in Windows : OpenWindow(w, FALSE) \/ CloseWindow(w) \/ FocusWindow(w) \/ ForegroundNotice(w)
    \/ Minimizing
    \/ ColumnOps
    \/ TabOps

\* Windows that open, close and move between workspaces, one tile a column.
StackNext ==
    \/ \E w \in Windows : OpenWindow(w, FALSE) \/ CloseWindow(w) \/ FocusWindow(w)
    \/ \E id \in DOMAIN mon.ws : FocusWorkspace(id)
    \/ \E w \in Windows, to \in DOMAIN mon.ws, follow \in BOOLEAN :
            MoveWindowToWorkspace(w, to, follow)
    \/ \E to \in DOMAIN mon.ws, follow \in BOOLEAN : MoveColumnToWorkspace(to, follow)

StackSpec == Init /\ [][StackNext /\ UNCHANGED config]_vars

Plain == [tabbed |-> FALSE, aboveFirst |-> FALSE, backAndForth |-> FALSE]
PlainOnly == {Plain}
=============================================================================
