------------------------------ MODULE MCScenes ------------------------------
(***************************************************************************)
(* Five lives of one output.  The first two have every operation:          *)
(*   plain    two windows, every setting off, no names                     *)
(*   above    an empty workspace above the first, new columns tabbed,      *)
(*            back-and-forth between workspaces, names; one window         *)
(* and in the others there are more windows:                               *)
(*   strip    three windows on one workspace, stacked and tabbed           *)
(*   stack    three windows that move between workspaces                   *)
(*   desktop  four windows, minimized and restored in every order, from    *)
(*            every arrangement in columns (Win+D and back)                *)
(***************************************************************************)
EXTENDS MCMonitor

CONSTANTS OneWindow, TwoWindows, ThreeWindows    \* what the scenes above, plain, strip and stack open

ASSUME ScenesAssumption == OneWindow \subseteq TwoWindows /\ TwoWindows \subseteq ThreeWindows /\ ThreeWindows \subseteq Windows

\* Two states of one scene that a permutation maps to each other are alike also
\* where the scene has only two of the three windows: swapping those two does it.
SceneSymmetry == Permutations(ThreeWindows)

VARIABLES scene,
          arrangement    \* of desktop: the columns before anything was minimized

Above == [tabbed |-> TRUE, aboveFirst |-> TRUE, backAndForth |-> TRUE]
PlainAndAbove == {Plain, Above}

\* The ways to cut s into columns of one tile or more.
Cuts(s) ==
    {[k \in 1 .. Cardinality(ends) |->
        SubSeq(s, 1 + (IF k = 1 THEN 0 ELSE SetToSortSeq(ends, <)[k - 1]), SetToSortSeq(ends, <)[k])]
     : ends \in {e \cup {Len(s)} : e \in SUBSET (1 .. Len(s) - 1)}}

Arranged(cols, tabbed) ==
    [i \in DOMAIN cols |-> [tiles |-> cols[i], active |-> cols[i][1], tab |-> IF i \in tabbed THEN 1 ELSE 0]]

DesktopInit ==
    /\ arrangement \in Cuts(SetToSeq(Windows))
    /\ \E tabbed \in SUBSET DOMAIN arrangement :
        LET first == arrangement[1][1]
        IN  mon = [order |-> <<0, 1>>,
                   ws |-> [k \in {0, 1} |->
                            IF k = 1 THEN EmptyWorkspace
                            ELSE [columns |-> Arranged(arrangement, tabbed), active |-> first, named |-> FALSE]],
                   active |-> 0, previous |-> NoWorkspace, focusColumn |-> 1,
                   focusWindow |-> first, ring |-> <<first>>, lastActivated |-> first]
    /\ managed = Windows
    /\ minimized = <<>>
    /\ config = Plain

\* An output whose windows have all closed again: the first workspaces are gone, and
\* two more windows bring the keys to the largest one.
UsedInit ==
    /\ mon = [order |-> <<2>>, ws |-> [k \in {2} |-> EmptyWorkspace], active |-> 2,
              previous |-> NoWorkspace, focusColumn |-> 0, focusWindow |-> NoWindow,
              ring |-> <<>>, lastActivated |-> NoWindow]
    /\ managed = {}
    /\ minimized = <<>>

EveryOperation ==
    \/ \E w \in IF scene = "above" THEN OneWindow ELSE TwoWindows :
        \/ \E refused \in BOOLEAN : OpenWindow(w, refused)
        \/ \E id \in DOMAIN mon.ws : OpenOnWorkspace(w, id)
        \/ CloseWindow(w)
    \/ Minimizing \/ Focusing \/ ColumnOps \/ TabOps \/ WorkspaceOps

ScenesInit ==
    /\ \/ scene \in {"plain", "above"} /\ arrangement = <<>> /\ UsedInit
       \/ scene \in {"strip", "stack"} /\ arrangement = <<>> /\ Init
       \/ scene = "desktop" /\ DesktopInit
    /\ config = IF scene = "above" THEN Above ELSE Plain

ScenesNext ==
    /\ UNCHANGED <<scene, arrangement, config>>
    /\ \/ /\ scene \in {"plain", "above"} /\ EveryOperation
          /\ scene = "plain" => \A id \in DOMAIN mon'.ws : ~mon'.ws[id].named
       \/ scene = "strip" /\ StripNext /\ managed' \subseteq ThreeWindows
       \/ scene = "stack" /\ StackNext /\ managed' \subseteq ThreeWindows
       \/ scene = "desktop" /\ Minimizing

ScenesSpec == ScenesInit /\ [][ScenesNext]_<<vars, scene, arrangement>>

ScenesView == <<scene, arrangement, View>>

\* The arrangement with the minimized windows left out.
Expected ==
    SelectSeq([i \in DOMAIN arrangement |->
                SelectSeq(arrangement[i], LAMBDA w : w \notin DOMAIN minimized)],
              LAMBDA tiles : tiles # <<>>)

\* workspace.rs:444-453: whatever is minimized and restored in whatever order, the
\* windows that are there stand in their old order and in the columns they shared.
OldColumns ==
    scene = "desktop" => [i \in DOMAIN mon.ws[0].columns |-> mon.ws[0].columns[i].tiles] = Expected
=============================================================================
