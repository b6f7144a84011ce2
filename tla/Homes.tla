------------------------------- MODULE Homes -------------------------------
(***************************************************************************)
(* What wiri promises about outputs that come and go, with no word of      *)
(* stacks, keys and records: a workspace is on its home output whenever    *)
(* that output is there, and on one that is there when it is not; only the *)
(* user gives a workspace another home.  A window is in a workspace until  *)
(* the user moves it, with one exception: an output that comes may take it *)
(* along (Plug).  Nothing is promised of workspaces that have no window:   *)
(* they come and go.                                                       *)
(***************************************************************************)
EXTENDS Functions

CONSTANTS Windows, Outputs

VARIABLES plugged,  \* the outputs that are there
          in,       \* window -> its workspace
          home,     \* workspace -> the output the user has it on
          at        \* workspace -> the output it is on

vars == <<plugged, in, home, at>>

Occupied == Range(in)

Init == plugged \in {{o} : o \in Outputs} /\ Occupied = {}

Stay(S) == \A x \in S : home'[x] = home[x] /\ at'[x] = at[x]

\* The workspaces that had a window stay where they are; a new one is where its window is (it is of
\* an output that is away if it was left there empty).
Settled ==
    /\ Stay(Occupied \cap Occupied')
    /\ \A x \in Occupied' \ Occupied : at'[x] \in plugged /\ home'[x] \in {at'[x]} \cup (Outputs \ plugged)

\* Its workspaces come back, and no other workspace moves.  A window stays in its workspace, or the
\* output takes it along, into a workspace of its own that had no window.
Plug(o) ==
    /\ o \in Outputs \ plugged
    /\ plugged' = plugged \cup {o}
    /\ DOMAIN in' = DOMAIN in
    /\ \A w \in DOMAIN in : in'[w] = in[w] \/ in'[w] \notin Occupied
    /\ \A x \in Occupied \cap Occupied' : home'[x] = home[x] /\ at'[x] = IF home[x] = o THEN o ELSE at[x]
    /\ \A x \in Occupied' \ Occupied : home'[x] = o /\ at'[x] = o

\* Another output has what it held, all of it.
Unplug(o, host) ==
    /\ o \in plugged /\ host \in plugged \ {o}
    /\ plugged' = plugged \ {o}
    /\ \A x \in Occupied : home'[x] = home[x] /\ at'[x] = IF at[x] = o THEN host ELSE at[x]
    /\ UNCHANGED in

\* A window opens, or the user moves it.
Place(w) ==
    /\ UNCHANGED plugged
    /\ DOMAIN in' = DOMAIN in \cup {w} /\ \A v \in DOMAIN in \ {w} : in'[v] = in[v]
    /\ Settled

Close(w) ==
    /\ UNCHANGED plugged
    /\ w \in DOMAIN in
    /\ in' = Restrict(in, DOMAIN in \ {w})
    /\ Settled

\* The user takes a workspace to another output.
Take(x, o) ==
    /\ UNCHANGED <<plugged, in>>
    /\ x \in Occupied /\ o \in plugged
    /\ home'[x] = o /\ at'[x] = o
    /\ Stay(Occupied \ {x})

\* Workspaces without a window come and go.
Tidy == UNCHANGED <<plugged, in>> /\ Stay(Occupied)

Next ==
    \/ Tidy
    \/ \E w \in Windows : Close(w) \/ Place(w)
    \/ \E o \in Outputs : Plug(o) \/ (\E host \in Outputs : Unplug(o, host)) \/ (\E x \in Occupied : Take(x, o))

Spec == Init /\ [][Next]_vars

-----------------------------------------------------------------------------
\* A workspace with a window is on an output that is there: on its home if that is.
AtHome == \A x \in Occupied : at[x] \in plugged /\ (home[x] \in plugged => at[x] = home[x])
=============================================================================
