---------------------------- MODULE Homes_proofs ----------------------------
(***************************************************************************)
(* What the promise of Homes comes to, for any windows and outputs.        *)
(***************************************************************************)
EXTENDS Homes, TLAPS

\* Nothing has an occupied workspace before the first window opens.
LEMMA InitAtHome == Init => AtHome
BY DEF Init, AtHome

\* An output that comes has its workspaces at once, and no other moves; one that is occupied only now
\* is its own (register_monitor_with_scale).
LEMMA PlugKeeps == ASSUME NEW o, AtHome, Plug(o) PROVE AtHome'
<1> SUFFICES ASSUME NEW x \in Occupied'
             PROVE at'[x] \in plugged' /\ (home'[x] \in plugged' => at'[x] = home'[x])
    BY DEF AtHome
<1>1. CASE x \notin Occupied
    BY <1>1 DEF Plug
<1>2. CASE x \in Occupied
    <2>1. home'[x] = home[x] /\ at'[x] = IF home[x] = o THEN o ELSE at[x]
        BY <1>2 DEF Plug
    <2>2. CASE home[x] = o
        BY <2>1, <2>2 DEF Plug
    <2>3. CASE home[x] # o
        BY <1>2, <2>1, <2>3 DEF Plug, AtHome
    <2> QED BY <2>2, <2>3
<1> QED BY <1>1, <1>2

\* What an output held is on another that is there; what was away from home may not be on its
\* home, which is not the host unless it was there (unregister_monitor).
LEMMA UnplugKeeps == ASSUME NEW o, NEW host, AtHome, Unplug(o, host) PROVE AtHome'
<1> SUFFICES ASSUME NEW x \in Occupied'
             PROVE at'[x] \in plugged' /\ (home'[x] \in plugged' => at'[x] = home'[x])
    BY DEF AtHome
<1>1. x \in Occupied /\ home'[x] = home[x] /\ at'[x] = IF at[x] = o THEN host ELSE at[x]
    BY DEF Unplug, Occupied
<1>2. CASE at[x] = o
    BY <1>1, <1>2 DEF Unplug, AtHome
<1>3. CASE at[x] # o
    BY <1>1, <1>3 DEF Unplug, AtHome
<1> QED BY <1>2, <1>3

\* Windows that open, move and close leave the workspaces that had one where they are.
LEMMA SettledKeeps == ASSUME AtHome, plugged' = plugged, Settled PROVE AtHome'
<1> SUFFICES ASSUME NEW x \in Occupied'
             PROVE at'[x] \in plugged' /\ (home'[x] \in plugged' => at'[x] = home'[x])
    BY DEF AtHome
<1>1. CASE x \in Occupied
    <2>1. home'[x] = home[x] /\ at'[x] = at[x]
        BY <1>1 DEF Settled, Stay
    <2> QED BY <1>1, <2>1 DEF AtHome
<1>2. CASE x \notin Occupied
    BY <1>2 DEF Settled
<1> QED BY <1>1, <1>2

\* The user may give a workspace any home that is there (relocate_workspace).
LEMMA TakeKeeps == ASSUME NEW y, NEW o, AtHome, Take(y, o) PROVE AtHome'
<1> SUFFICES ASSUME NEW x \in Occupied'
             PROVE at'[x] \in plugged' /\ (home'[x] \in plugged' => at'[x] = home'[x])
    BY DEF AtHome
<1>1. x \in Occupied
    BY DEF Take, Occupied
<1>2. CASE x = y
    BY <1>2 DEF Take
<1>3. CASE x # y
    BY <1>1, <1>3 DEF Take, Stay, AtHome
<1> QED BY <1>2, <1>3

\* Whatever a step does, a workspace with a window is on an output that is there, on its home if
\* that is.
LEMMA StepKeeps == AtHome /\ [Next]_vars => AtHome'
<1> SUFFICES ASSUME AtHome, [Next]_vars PROVE AtHome'
    OBVIOUS
<1>1. CASE Tidy
    <2>1. Occupied' = Occupied
        BY <1>1 DEF Tidy, Occupied
    <2> QED BY <1>1, <2>1 DEF Tidy, Stay, AtHome
<1>2. ASSUME NEW w \in Windows, Close(w) PROVE AtHome'
    BY <1>2, SettledKeeps DEF Close
<1>3. ASSUME NEW w \in Windows, Place(w) PROVE AtHome'
    BY <1>3, SettledKeeps DEF Place
<1>4. ASSUME NEW o \in Outputs, Plug(o) PROVE AtHome'
    BY <1>4, PlugKeeps
<1>5. ASSUME NEW o \in Outputs, NEW host \in Outputs, Unplug(o, host) PROVE AtHome'
    BY <1>5, UnplugKeeps
<1>6. ASSUME NEW o \in Outputs, NEW x \in Occupied, Take(x, o) PROVE AtHome'
    BY <1>6, TakeKeeps
<1>7. CASE UNCHANGED vars
    BY <1>7 DEF vars, AtHome, Occupied
<1> QED BY <1>1, <1>2, <1>3, <1>4, <1>5, <1>6, <1>7 DEF Next

\* As outputs come and go, a workspace with a window is on an output that is there, and on its home
\* output whenever that is (engine.rs:1266-1303, 1455-1457).
THEOREM OutputsComeAndGo == Spec => []AtHome
<1>1. Init => AtHome
    BY InitAtHome
<1>2. AtHome /\ [Next]_vars => AtHome'
    BY StepKeeps
<1> QED BY <1>1, <1>2, PTL DEF Spec
=============================================================================
