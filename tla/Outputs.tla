------------------------------ MODULE Outputs ------------------------------
(***************************************************************************)
(* Outputs that come and go.  Each output has a stack of workspaces; when  *)
(* an output goes, what it held is parked on another one, and what it      *)
(* looked like is kept until it comes back (UnpluggedMonitor,              *)
(* src/layout/engine.rs).  src/backend/output_runtime.rs registers the     *)
(* outputs it finds and then unregisters the others, one after another on  *)
(* the engine's thread.                                                    *)
(*                                                                         *)
(* A strip is the set of its windows here (Monitor has columns and focus). *)
(* A workspace has a key, which names it on its output and is given again  *)
(* once free, and an id, its identity, which is never given twice.         *)
(***************************************************************************)
EXTENDS Lists, FiniteSetsExt, Functions

CONSTANTS Windows, Outputs, NoOutput,
          Names, NoName,
          MaxKey,     \* bound: the largest key
          MaxAway,    \* bound: outputs that are away at one time
          MayGoDark   \* may the last output go

ASSUME OutputsAssumption ==
    /\ NoOutput \notin Outputs /\ NoName \notin Names
    /\ MaxKey \in Nat /\ MaxAway \in 0..Cardinality(Outputs) /\ MayGoDark \in BOOLEAN

VARIABLES
    mon,        \* live output -> [stack, active]
    order,      \* MonitorSet.order
    focused,    \* MonitorSet.focused
    minimized,  \* minimized window -> [output, key]
    managed,    \* tiled_windows
    away,       \* output -> [stack, active, host, moved, minimized], the UnpluggedMonitor
    home        \* history: id -> the output the user has it on

vars == <<mon, order, focused, minimized, managed, away, home>>

NoOne == [w \in {} |-> NoOutput]

(***************************************************************************)
(* Stacks                                                                  *)
(***************************************************************************)

Workspace(key, id) == [key |-> key, id |-> id, name |-> NoName, wins |-> {}]

Keys(stack) == {stack[i].key : i \in DOMAIN stack}
PlaceOf(stack, key) == CHOOSE i \in DOMAIN stack : stack[i].key = key
At(stack, key) == stack[PlaceOf(stack, key)]
\* Mutant: a key is the place at the end.
NextKeyByLength(stack) == Len(stack)
NextKey(stack) == IF stack = <<>> THEN 0 ELSE Max(Keys(stack)) + 1

\* stack with `block` inserted before its place p
Spliced(stack, p, block) == SubSeq(stack, 1, p - 1) \o block \o SubSeq(stack, p, Len(stack))

OnKey(stack, key, Op(_)) == [i \in DOMAIN stack |-> IF stack[i].key = key THEN Op(stack[i]) ELSE stack[i]]
WithoutWindow(stack, w) == [i \in DOMAIN stack |-> [stack[i] EXCEPT !.wins = @ \ {w}]]
WithWindow(stack, key, w) == OnKey(stack, key, LAMBDA x : [x EXCEPT !.wins = @ \cup {w}])

Windowed(stack) == UNION {stack[i].wins : i \in DOMAIN stack}

\* Mutant: nobody asks for the minimized windows.
OccupiedByTiles(mini, o) == {}

\* the workspaces of o that minimized windows wait to come back to
Occupied(mini, o) == {mini[w].key : w \in {v \in DOMAIN mini : mini[v].output = o}}
HasContent(x, occupied) == x.wins # {} \/ x.name # NoName \/ x.key \in occupied

\* the workspaces of some outputs, or of some records
Within(ms) == UNION {Range(ms[o].stack) : o \in DOMAIN ms}

Identities(ms, aw) == {x.id : x \in Within(ms) \cup Within(aw)}

\* NEXT_ID: an id nothing has, before this step or now (the counter of the code never comes back)
FreshId(ms, aw) ==
    LET used == Identities(ms, aw) \cup Identities(mon, away) IN Min((1..Cardinality(used) + 1) \ used)

(***************************************************************************)
(* maintain_empty_workspace: one empty workspace at the bottom, and the    *)
(* empty one the user looks at; the others go                              *)
(***************************************************************************)

LastContent(stack, occupied) == Max({0} \cup {i \in DOMAIN stack : HasContent(stack[i], occupied)})

\* the keys below the last workspace with content
Tails(stack, occupied) == {stack[i].key : i \in LastContent(stack, occupied) + 1..Len(stack)}

\* the empty workspace that stays at the bottom: the one in view, or the first, or a new one
Trailing(m, occupied) ==
    LET tails == Tails(m.stack, occupied) IN
    IF m.active \in tails THEN m.active
    ELSE IF tails = {} THEN NextKey(m.stack)
    ELSE m.stack[LastContent(m.stack, occupied) + 1].key

Grown(m, occupied, id) ==
    IF Tails(m.stack, occupied) # {} THEN m.stack ELSE Append(m.stack, Workspace(Trailing(m, occupied), id))

Upkept(m, occupied, id) ==
    LET trailing == Trailing(m, occupied)
        grown == Grown(m, occupied, id)
        kept == Dropped(grown, {x \in Range(grown) : x.key \notin {trailing, m.active} /\ ~HasContent(x, occupied)})
    IN [stack |-> kept, active |-> IF m.active \in Keys(kept) THEN m.active ELSE trailing]

Maintained(ms, mini, aw, o) ==
    IF o \notin DOMAIN ms THEN ms
    ELSE [ms EXCEPT ![o] = Upkept(@, Occupied(mini, o), FreshId(ms, aw))]

\* home', for the workspaces that exist after the step: a new one is at home where it was born
Homed(ms, aw, old) ==
    [id \in Identities(ms, aw) |->
        IF id \in DOMAIN old THEN old[id]
        ELSE CHOOSE o \in DOMAIN ms : id \in {x.id : x \in Range(ms[o].stack)}]

(***************************************************************************)
(* An output goes                                                          *)
(***************************************************************************)

\* Mutant: a workspace that has only minimized windows does not go along.
CarriedTiles(stack, mini, gone) == Dropped(stack, {x \in Range(stack) : ~HasContent(x, {})})

\* what goes along: a workspace with a name, a window, or a minimized window to come back to it
Carried(stack, mini, gone) == Dropped(stack, {x \in Range(stack) : ~HasContent(x, Occupied(mini, gone))})

\* the keys the carried workspaces get on the host, and what they had
Rekeyed(carried, next) == [i \in DOMAIN carried |-> [carried[i] EXCEPT !.key = next + i - 1]]
Moved(carried, next) == [i \in DOMAIN carried |-> <<carried[i].key, next + i - 1>>]

\* what the host has comes first, in its order; an empty workspace stays the last
Hosting(stack, occupied, block) ==
    LET trailing == stack # <<>> /\ ~HasContent(Last(stack), occupied)
    IN Spliced(stack, Len(stack) + (IF trailing THEN 0 ELSE 1), block)

\* where a minimized window of the output that went waits now: with its workspace, if that moved
Rehomed(mini, gone, moved, host, shown) ==
    LET to(w) == {p[2] : p \in {q \in Range(moved) : q[1] = mini[w].key}}
    IN [w \in DOMAIN mini |->
            IF mini[w].output # gone THEN mini[w]
            ELSE [output |-> host, key |-> IF to(w) # {} THEN CHOOSE k \in to(w) : TRUE ELSE shown]]

\* move_workspaces_to: what `gone` (in ms no more) held is parked on the host
Parked(ms, mini, gone, stack, host) ==
    LET m == ms[host]
        carried == Carried(stack, mini, gone)
        moved == Moved(carried, NextKey(m.stack))
    IN [mon |-> [ms EXCEPT ![host].stack =
                    Hosting(@, Occupied(mini, host), Rekeyed(carried, NextKey(@)))],
        moved |-> moved,
        left |-> {w \in DOMAIN mini : mini[w].output = gone /\ mini[w].key \in {p[1] : p \in Range(moved)}},
        minimized |-> Rehomed(mini, gone, moved, host, m.active)]

\* Of a record r that has workspaces on a stack: which of them are there, under which keys.
Identity(r, p) == At(r.stack, p[1]).id
KeyOf(stack, id) == CHOOSE k \in Keys(stack) : At(stack, k).id = id
Followed(r, stack) ==
    Dropped(r.moved, {p \in Range(r.moved) : \A x \in Range(stack) : x.id # Identity(r, p)})
Remap(r, stack) == {<<p[2], KeyOf(stack, Identity(r, p))>> : p \in Range(Followed(r, stack))}
Following(r, stack, new) ==
    LET f == Followed(r, stack)
    IN [r EXCEPT !.host = new, !.moved = [i \in DOMAIN f |-> <<f[i][1], KeyOf(stack, Identity(r, f[i]))>>]]

\* rebind_unplugged_host: the records of what was parked on `old` follow it to `new`, and so does a
\* window that was minimized there, if its key on `new` is one of the old keys
Rebound(ms, aw, mini, old, new) ==
    LET stack == ms[new].stack
        followers == {g \in DOMAIN aw \ {old} : aw[g].host = old}
        remapped(w) == {r \in UNION {Remap(aw[g], stack) : g \in {f \in followers : w \in aw[f].minimized}} :
                            mini[w].output = new /\ r[1] = mini[w].key}
    IN [away |-> [g \in DOMAIN aw |-> IF g \in followers THEN Following(aw[g], stack, new) ELSE aw[g]],
        minimized |-> [w \in DOMAIN mini |->
            IF remapped(w) = {} THEN mini[w] ELSE [mini[w] EXCEPT !.key = (CHOOSE r \in remapped(w) : TRUE)[2]]]]

\* unregister_monitor
Unregister(o) ==
    /\ o \in DOMAIN mon /\ Cardinality(DOMAIN away) < MaxAway /\ (MayGoDark \/ DOMAIN mon # {o})
    /\ LET ms == Restrict(mon, DOMAIN mon \ {o})
           left == Without(order, o)
           host == IF focused # o THEN focused ELSE IF left # <<>> THEN Head(left) ELSE NoOutput
           record(moved, mini) ==
                [stack |-> mon[o].stack, active |-> mon[o].active, host |-> host, moved |-> moved, minimized |-> mini]
       IN /\ order' = left
          /\ focused' = host
          /\ IF host = NoOutput
             THEN /\ mon' = ms
                  /\ away' = With(away, o, record(<<>>, {}))
                  /\ UNCHANGED minimized
             ELSE LET parked == Parked(ms, minimized, o, mon[o].stack, host)
                      kept == With(away, o, record(parked.moved, parked.left))
                      tidy == Maintained(parked.mon, parked.minimized, kept, host)
                      bound == Rebound(tidy, away, parked.minimized, o, host)
                  IN /\ mon' = tidy
                     /\ away' = With(bound.away, o, record(parked.moved, parked.left))
                     /\ minimized' = bound.minimized
    /\ home' = Homed(mon', away', home)
    /\ UNCHANGED managed

(***************************************************************************)
(* An output comes, or comes back                                          *)
(***************************************************************************)

Parking(ms, kept, p) ==
    IF kept.host \in DOMAIN ms /\ p[2] \in Keys(ms[kept.host].stack) THEN {At(ms[kept.host].stack, p[2])} ELSE {}

\* Mutant: the workspace comes back as it was when the output went.
BackAsItWas(ms, kept, p) == [ws |-> At(kept.stack, p[1]), whole |-> TRUE]

\* Mutant: the parked workspace is copied, and its windows are taken one by one.
BackAsACopy(ms, kept, p) ==
    [ws |-> IF Parking(ms, kept, p) = {} THEN At(kept.stack, p[1])
            ELSE [CHOOSE x \in Parking(ms, kept, p) : TRUE EXCEPT !.key = p[1]],
     whole |-> FALSE]

\* The parked workspace is one live object: it comes back with what it has now.  A key that
\* names another workspace by now yields the windows of the old one that are there.
Back(ms, kept, p) ==
    LET old == At(kept.stack, p[1])
        there == Parking(ms, kept, p)
    IN IF \E x \in there : x.id = old.id
       THEN [ws |-> [CHOOSE x \in there : TRUE EXCEPT !.key = p[1]], whole |-> TRUE]
       ELSE [ws |-> [old EXCEPT !.wins = {w \in @ : \E x \in there : w \in x.wins}], whole |-> FALSE]

\* The pairs of the record whose workspace it has, and what comes back for a key.
Pairs(kept) == Dropped(kept.moved, {p \in Range(kept.moved) : p[1] \notin Keys(kept.stack)})
Returned(kept) == {p[1] : p \in Range(Pairs(kept))}
Returning(ms, kept, key) == Back(ms, kept, CHOOSE p \in Range(Pairs(kept)) : p[1] = key)

\* the stack of the output that is back
Restored(ms, kept, id) ==
    LET those == Dropped(kept.stack, {x \in Range(kept.stack) : x.key \notin Returned(kept)})
        back == [i \in DOMAIN those |-> Returning(ms, kept, those[i].key).ws]
    IN IF kept.host = NoOutput THEN kept.stack ELSE IF back = <<>> THEN <<Workspace(0, id)>> ELSE back

\* what leaves the host: whole workspaces, and single windows
GoneKeys(ms, kept) == {p[2] : p \in {q \in Range(Pairs(kept)) : Returning(ms, kept, q[1]).whole}}
Taken(ms, kept) ==
    UNION {Returning(ms, kept, p[1]).ws.wins : p \in {q \in Range(Pairs(kept)) : ~Returning(ms, kept, q[1]).whole}}
HostWithout(stack, gone, taken) ==
    LET those == Dropped(stack, {x \in Range(stack) : x.key \in gone})
    IN [i \in DOMAIN those |-> [those[i] EXCEPT !.wins = @ \ taken]]

\* Mutant: only the windows that were minimized when the output went go back.
HomeAgainRecorded(mini, kept, o) ==
    LET returns(w) == {p \in Range(Pairs(kept)) : w \in kept.minimized /\ mini[w] = [output |-> kept.host, key |-> p[2]]}
    IN [w \in DOMAIN mini |->
            IF returns(w) = {} THEN mini[w] ELSE [output |-> o, key |-> (CHOOSE p \in returns(w) : TRUE)[1]]]

\* the minimized windows of these workspaces go back with them
HomeAgain(mini, kept, o) ==
    LET returns(w) == {p \in Range(Pairs(kept)) : mini[w] = [output |-> kept.host, key |-> p[2]]}
    IN [w \in DOMAIN mini |->
            IF returns(w) = {} THEN mini[w] ELSE [output |-> o, key |-> (CHOOSE p \in returns(w) : TRUE)[1]]]

\* take_back_workspaces
TakenBack(ms, mini, aw, kept, o) ==
    LET stack == Restored(ms, kept, FreshId(ms, aw))
        mini2 == HomeAgain(mini, kept, o)
        ms2 == [p \in DOMAIN ms |->
                    IF p = o THEN [stack |-> stack,
                                   active |-> IF kept.active \in Keys(stack) THEN kept.active ELSE Head(stack).key]
                    ELSE IF p = kept.host
                    THEN [ms[p] EXCEPT !.stack = HostWithout(@, GoneKeys(ms, kept), Taken(ms, kept))]
                    ELSE ms[p]]
        ms3 == Maintained(ms2, mini2, aw, o)
    IN [mon |-> IF kept.host = NoOutput THEN ms3 ELSE Maintained(ms3, mini2, aw, kept.host), minimized |-> mini2]

\* adopt_homeless_workspaces: what waited with no output (one output at most does) goes to o
Homeless(aw, o) == {g \in DOMAIN aw \ {o} : aw[g].host = NoOutput}
Adopted(ms, mini, aw, o) ==
    IF Homeless(aw, o) = {} THEN [mon |-> ms, minimized |-> mini, away |-> aw]
    ELSE LET g == CHOOSE h \in Homeless(aw, o) : TRUE
             parked == Parked(ms, mini, g, aw[g].stack, o)
             aw2 == [aw EXCEPT ![g].host = o, ![g].moved = parked.moved, ![g].minimized = parked.left]
             tidy == Maintained(parked.mon, parked.minimized, aw2, o)
             bound == Rebound(tidy, aw2, parked.minimized, g, o)
         IN [mon |-> tidy, minimized |-> bound.minimized, away |-> bound.away]

\* register_monitor_with_scale
Register(o) ==
    /\ o \notin DOMAIN mon
    /\ LET new == With(mon, o, [stack |-> <<Workspace(0, FreshId(mon, away))>>, active |-> 0])
           aw == Restrict(away, DOMAIN away \ {o})
           back == IF o \in DOMAIN away THEN TakenBack(new, minimized, aw, away[o], o)
                   ELSE [mon |-> new, minimized |-> minimized]
           all == Adopted(back.mon, back.minimized, aw, o)
       IN /\ mon' = all.mon /\ minimized' = all.minimized /\ away' = all.away
    /\ order' = Append(order, o)
    /\ focused' = IF focused = NoOutput THEN o ELSE focused
    /\ home' = Homed(mon', away', home)
    /\ UNCHANGED managed

(***************************************************************************)
(* Windows                                                                 *)
(***************************************************************************)

Holds(o, k, w) == \E x \in Range(mon[o].stack) : x.key = k /\ w \in x.wins

\* the output locate_window finds w on, the first in order
Found(w) == {o \in DOMAIN mon : w \in Windowed(mon[o].stack)}
FirstFound(w) == Head(Dropped(order, DOMAIN mon \ Found(w)))

\* add_window: on the workspace the user sees; with no output it is not managed (place_new_tile)
Open(w, o) ==
    /\ w \notin managed
    /\ managed' = managed \cup {w}
    /\ mon' = Maintained([mon EXCEPT ![o].stack = WithWindow(@, mon[o].active, w)], minimized, away, o)
    /\ home' = Homed(mon', away, home)
    /\ UNCHANGED <<order, focused, minimized, away>>

\* remove_window; an output that is away is not looked at
Close(w) ==
    /\ w \in managed
    /\ managed' = managed \ {w}
    /\ minimized' = Restrict(minimized, DOMAIN minimized \ {w})
    /\ mon' = IF Found(w) = {} THEN mon
              ELSE LET o == FirstFound(w)
                   IN Maintained([mon EXCEPT ![o].stack = WithoutWindow(@, w)], minimized', away, o)
    /\ home' = Homed(mon', away, home)
    /\ UNCHANGED <<order, focused, away>>

\* minimize_window, of a tile
Minimize(w, k) ==
    /\ w \in managed \ DOMAIN minimized /\ Found(w) # {}
    /\ LET o == FirstFound(w)
       IN /\ Holds(o, k, w)
          /\ minimized' = With(minimized, w, [output |-> o, key |-> k])
          /\ mon' = Maintained([mon EXCEPT ![o].stack = WithoutWindow(@, w)], minimized', away, o)
    /\ home' = Homed(mon', away, home)
    /\ UNCHANGED <<order, focused, managed, away>>

\* restore_window: it comes back where the user looks; the record is gone even if there is no output
Restore(w) ==
    /\ w \in DOMAIN minimized
    /\ minimized' = Restrict(minimized, DOMAIN minimized \ {w})
    /\ LET o == IF minimized[w].output \in DOMAIN mon THEN minimized[w].output ELSE focused
       IN /\ focused' = o
          /\ mon' = IF o = NoOutput THEN mon
                    ELSE Maintained([mon EXCEPT ![o].stack = WithWindow(@, mon[o].active, w)], minimized', away, o)
    /\ home' = Homed(mon', away, home)
    /\ UNCHANGED <<order, managed, away>>

\* the workspace the user sees becomes k (Monitor::switch_workspace and the upkeep after it)
Shown(ms, mini, aw, o, k) == Maintained([ms EXCEPT ![o].active = k], mini, aw, o)

\* transfer_workspace_window: to another workspace, or to the one another output shows
MoveWindow(w, o1, k1, o2, k2, follow) ==
    /\ Holds(o1, k1, w)
    /\ <<o1, k1>> # <<o2, k2>>
    /\ o1 # o2 => k2 = mon[o2].active
    /\ follow => focused = o1 /\ mon[o1].active = k1
    /\ LET taken == [mon EXCEPT ![o1].stack = WithoutWindow(@, w)]
           given == [taken EXCEPT ![o2].stack = WithWindow(@, k2, w)]
           tidy == Maintained(Maintained(given, minimized, away, o1), minimized, away, o2)
       IN mon' = IF follow THEN Shown(tidy, minimized, away, o2, k2) ELSE tidy
    /\ focused' = IF follow THEN o2 ELSE focused
    /\ home' = Homed(mon', away, home)
    /\ UNCHANGED <<order, minimized, managed, away>>

(***************************************************************************)
(* Workspaces                                                              *)
(***************************************************************************)

\* relocate_workspace: above the empty workspace of the destination; no output that is away takes
\* it back any more
MoveWorkspaceToMonitor(o1, k1, o2) ==
    /\ o1 # o2
    /\ LET ws == At(mon[o1].stack, k1)
           i == PlaceOf(mon[o1].stack, k1)
           rest == RemoveAt(mon[o1].stack, i)
           next == IF mon[o1].active # k1 \/ rest = <<>> THEN mon[o1].active ELSE rest[Min({i, Len(rest)})].key
           m == mon[o2]
           trailing == Last(m.stack).name = NoName /\ Last(m.stack).wins = {}
           key == NextKey(m.stack)
           given == [m EXCEPT !.stack = Spliced(@, Len(@) + (IF trailing THEN 0 ELSE 1), <<[ws EXCEPT !.key = key]>>)]
           ms == [mon EXCEPT ![o1] = [stack |-> rest, active |-> next], ![o2] = given]
           mini == [w \in DOMAIN minimized |->
                      IF minimized[w] = [output |-> o1, key |-> k1] THEN [output |-> o2, key |-> key] ELSE minimized[w]]
           forgotten(g) == {x.key : x \in {y \in Range(away[g].stack) : y.id = ws.id}}
           aw == [g \in DOMAIN away |->
                    [away[g] EXCEPT !.stack = Dropped(@, {x \in Range(@) : x.id = ws.id}),
                                    !.moved = Dropped(@, {p \in Range(@) : p[1] \in forgotten(g)})]]
           tidy == Maintained(Maintained(ms, mini, aw, o1), mini, aw, o2)
           follow == focused = o1 /\ mon[o1].active = k1
       IN /\ mon' = IF follow THEN Shown(tidy, mini, aw, o2, key) ELSE tidy
          /\ focused' = IF follow THEN o2 ELSE focused
          /\ minimized' = mini /\ away' = aw
          /\ home' = Homed(mon', aw, [home EXCEPT ![ws.id] = o2])
    /\ UNCHANGED <<order, managed>>

\* the user goes to another workspace, of any output
FocusWorkspace(o, k) ==
    /\ k # mon[o].active
    /\ focused' = o
    /\ mon' = Shown(mon, minimized, away, o, k)
    /\ home' = Homed(mon', away, home)
    /\ UNCHANGED <<order, minimized, managed, away>>

\* set_focused_output
FocusOutput(o) ==
    /\ o # focused
    /\ focused' = o
    /\ UNCHANGED <<mon, order, minimized, managed, away, home>>

\* rename_workspace_on: a name is one workspace's, and those that are away have theirs
NameInUse(name, id) ==
    \E x \in Within(mon) \cup Within(away) : x.id # id /\ x.name = name

Rename(stack, id, name) == [i \in DOMAIN stack |-> IF stack[i].id = id THEN [stack[i] EXCEPT !.name = name] ELSE stack[i]]

NameWorkspace(o, k, name) ==
    /\ At(mon[o].stack, k).name # name
    /\ LET id == At(mon[o].stack, k).id
       IN /\ name # NoName => ~NameInUse(name, id)
          /\ away' = [g \in DOMAIN away |-> [away[g] EXCEPT !.stack = Rename(@, id, name)]]
          /\ mon' = Maintained([mon EXCEPT ![o].stack = OnKey(@, k, LAMBDA x : [x EXCEPT !.name = name])],
                               minimized, away', o)
    /\ home' = Homed(mon', away', home)
    /\ UNCHANGED <<order, focused, minimized, managed>>

(***************************************************************************)
(* The specification                                                       *)
(***************************************************************************)

\* the first output has been found
Init ==
    \E o \in Outputs :
        /\ mon = With(NoOne, o, [stack |-> <<Workspace(0, 1)>>, active |-> 0])
        /\ order = <<o>> /\ focused = o
        /\ minimized = NoOne /\ managed = {} /\ away = NoOne
        /\ home = With(NoOne, 1, o)

WindowStep ==
    \E w \in Windows :
        \/ \E o \in DOMAIN mon : Open(w, o)
        \/ Close(w)
        \/ \E k \in 0..MaxKey : Minimize(w, k)
        \/ Restore(w)
        \/ \E o1 \in Found(w), o2 \in DOMAIN mon :
            \E k1 \in Keys(mon[o1].stack), k2 \in Keys(mon[o2].stack), follow \in BOOLEAN :
                MoveWindow(w, o1, k1, o2, k2, follow)

WorkspaceStep ==
    \E o \in DOMAIN mon :
        \/ FocusOutput(o)
        \/ \E k \in Keys(mon[o].stack) :
            \/ FocusWorkspace(o, k)
            \/ \E o2 \in DOMAIN mon : MoveWorkspaceToMonitor(o, k, o2)
            \/ \E name \in Names \cup {NoName} : NameWorkspace(o, k, name)

Bounded == \A o \in DOMAIN mon : \A k \in Keys(mon[o].stack) : k <= MaxKey

Next ==
    /\ \/ \E o \in Outputs : Register(o) \/ Unregister(o)
       \/ WindowStep
       \/ WorkspaceStep
    /\ Bounded'

Spec == Init /\ [][Next]_vars
=============================================================================
