--------------------------- MODULE OutputsProps ---------------------------
(***************************************************************************)
(* What must be true of outputs that come and go.                          *)
(***************************************************************************)
EXTENDS Outputs

WorkspaceType == [key : Nat, id : Nat, name : Names \cup {NoName}, wins : SUBSET Windows]

\* The state is well formed, a stack has no key twice, an output shows a workspace it has, and at
\* most one record waits for an output to appear, which adopt_homeless_workspaces counts on to
\* place minimized windows (engine.rs:1627).
TypeOK ==
    /\ DOMAIN mon \subseteq Outputs /\ DOMAIN away \subseteq Outputs \ DOMAIN mon
    /\ \A o \in DOMAIN mon :
        /\ mon[o].stack \in Seq(WorkspaceType)
        /\ Cardinality(Keys(mon[o].stack)) = Len(mon[o].stack)
        /\ mon[o].active \in Keys(mon[o].stack)
    /\ Range(order) = DOMAIN mon /\ IsInjective(order)
    /\ focused \in DOMAIN mon \cup {NoOutput} /\ (focused = NoOutput <=> mon = NoOne)
    /\ managed \subseteq Windows /\ DOMAIN minimized \subseteq managed
    /\ \A w \in DOMAIN minimized : minimized[w].output \in Outputs
    /\ \A g \in DOMAIN away : away[g].host \in Outputs \cup {NoOutput}
    /\ Cardinality({g \in DOMAIN away : away[g].host = NoOutput}) <= 1
    /\ home \in [Identities(mon, away) -> Outputs]

Live == UNION {{o} \X Range(mon[o].stack) : o \in DOMAIN mon}

\* the workspaces w is in: as a tile, or as a minimized window
IsIn(w, o, x) == w \in x.wins \/ (w \in DOMAIN minimized /\ minimized[w] = [output |-> o, key |-> x.key])
Places(w) == UNION {{<<o, i>> : i \in {j \in DOMAIN mon[o].stack : IsIn(w, o, mon[o].stack[j])}} : o \in DOMAIN mon}

\* As long as there is an output, every managed window is in one workspace of one output, and a
\* window that is closed is in none: outputs that come and go lose no window, show none twice and
\* leave no ghost tile (move_workspaces_to, take_back_workspaces; the test
\* test_the_last_monitor_going_loses_nothing, engine.rs:17168).
NothingIsLost ==
    mon # NoOne => \A w \in Windows : Cardinality(Places(w)) = IF w \in managed THEN 1 ELSE 0

\* A workspace is one live object: no two workspaces of the outputs that are there have the same
\* identity, nor the same name (rebind_unplugged_host; the test
\* chained_hotplug_does_not_duplicate_an_earlier_workspace_identity_or_name, monitor_actions_tests.rs:113).
IdentitiesAreUnique ==
    \A p, q \in Live :
        \/ p = q
        \/ p[2].id # q[2].id /\ (p[2].name = q[2].name => p[2].name = NoName)

\* A minimized window waits for a workspace that is there (minimize_window records it, and every
\* step that moves or drops workspaces keeps it: engine.rs:1432, 1551, monitor_actions.rs:296).
\* Without one it cannot rejoin its column (engine.rs:2481), and travels with no workspace.
MinimizedHaveAHome ==
    mon # NoOne =>
    \A w \in DOMAIN minimized : \E p \in Live : minimized[w] = [output |-> p[1], key |-> p[2].key]

\* A key of the host that a record names is still the workspace that was parked under it (it is
\* not ensured: a parked workspace that is empty goes, and its key is given again).
ParkedKeysAreTheirs ==
    \A g \in DOMAIN away : away[g].host \in DOMAIN mon =>
        \A p \in Range(away[g].moved) : p[2] \in Keys(mon[away[g].host].stack) =>
            At(mon[away[g].host].stack, p[2]).id = At(away[g].stack, p[1]).id

(***************************************************************************)
(* The promise                                                             *)
(***************************************************************************)

IdAt(p) == mon[p[1]].stack[p[2]].id
Inside == [w \in {v \in managed : Places(v) # {}} |-> IdAt(CHOOSE p \in Places(w) : TRUE)]
OutputsOf(id) == {o \in DOMAIN mon : \E i \in DOMAIN mon[o].stack : mon[o].stack[i].id = id}
OutputOf(id) == IF OutputsOf(id) = {} THEN NoOutput ELSE CHOOSE o \in OutputsOf(id) : TRUE

H == INSTANCE Homes WITH plugged <- DOMAIN mon, in <- Inside, at <- [id \in DOMAIN home |-> OutputOf(id)]

\* The records, keys and stacks implement the promise of Homes: outputs that come and go leave
\* every workspace that has a window, minimized ones too, on its home output whenever that is
\* there, take each one along whole, and no window changes its workspace but for one that a coming
\* output takes into its own (unregister_monitor and register_monitor_with_scale, engine.rs:1205-1303).
HomesAreKept == H!Spec

\* Outputs that come and go leave every window in its workspace (the comment of take_back_workspaces,
\* engine.rs:1453-1455; the test
\* test_windows_closed_or_moved_while_the_monitor_was_away_do_not_come_back, engine.rs:17030:
\* "moved by the user: stays where they put it").
WindowsStayPut == [][DOMAIN mon' # DOMAIN mon => Inside' = Inside]_vars

\* The same as long as no parked key names another workspace: what joined a parked workspace,
\* left it or was minimized in it meanwhile is where it was when the workspace moves
\* (move_workspaces_to, take_back_workspaces; engine.rs:1482-1484, 1553-1580).
WindowsStayPutUnlessAKeyIsReused ==
    [][DOMAIN mon' # DOMAIN mon /\ ParkedKeysAreTheirs => Inside' = Inside]_vars
=============================================================================
