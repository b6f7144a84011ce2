------------------------------ MODULE Monitor ------------------------------
(***************************************************************************)
(* One output of the tiling engine: its stack of workspaces, each with a   *)
(* strip of columns (module Strip), the focus, the bounded MRU ring, and   *)
(* the windows that are minimized.  One action per engine operation of     *)
(* src/layout/engine.rs, engine/workspace_actions.rs, engine/focus_actions *)
(* .rs, engine/tabs.rs and engine/rules.rs that changes this state, each   *)
(* one up to and including the layout pass it ends with.                   *)
(*                                                                         *)
(* Operations are composed as the code composes its calls: an operator on  *)
(* a monitor value m for each function, and an action that gives mon' the  *)
(* result of the calls in their order.                                     *)
(***************************************************************************)
EXTENDS Strip, FiniteSets, Functions

CONSTANTS Windows,          \* the windows applications may open
          NoWorkspace,      \* Option::None where a workspace key is expected
          MaxKey,           \* the largest workspace key (i32::MAX in the code)
          MaxNamed,         \* bound: workspaces that carry a name at a time
          RingCapacity,     \* FocusRing::capacity (32)
          Configs           \* the configuration files: see config

\* There are more keys than windows and names can keep workspaces alive: a free one is found.
ASSUME MonitorAssumption ==
    /\ {MaxKey, MaxNamed} \subseteq Nat /\ RingCapacity \in Nat \ {0}
    /\ IsFiniteSet(Windows) /\ Cardinality(Windows) + MaxNamed + 3 <= MaxKey
    /\ Configs \subseteq [tabbed : BOOLEAN, aboveFirst : BOOLEAN, backAndForth : BOOLEAN]
    /\ NoWindow \notin Windows

VARIABLES mon,        \* the Monitor, with the engine's last_activated
          minimized,  \* [window -> home workspace and slot]
          managed,    \* the keys of tiled_windows
          config      \* default-column-display "tabbed", empty-workspace-above-first
                      \* and workspace-auto-back-and-forth, as the engine was started

vars == <<mon, minimized, managed, config>>

Keys == 0 .. MaxKey

----------------------------------------------------------------------------
(* FocusRing. *)

\* Mutant: an older entry of the window stays in the ring.
RingPushTwice(ring, w) == SubSeq(<<w>> \o ring, 1, MinOf(Len(ring) + 1, RingCapacity))

RingPush(ring, w) ==
    LET r == <<w>> \o Without(ring, w) IN SubSeq(r, 1, MinOf(Len(r), RingCapacity))

RingPushBack(ring, w) ==
    IF InSeq(ring, w) \/ Len(ring) >= RingCapacity THEN ring ELSE Append(ring, w)

----------------------------------------------------------------------------
(* The workspace stack. *)

ActiveStrip(m) == m.ws[m.active]

\* Mutant: the workspace a minimized window is to come back to counts as empty.
HasContentOfTiles(m, occupied, id) == WindowsOf(m.ws[id]) # {} \/ m.ws[id].named

HasContent(m, occupied, id) ==
    WindowsOf(m.ws[id]) # {} \/ m.ws[id].named \/ id \in occupied

\* next_workspace_id, saturating; when the key is taken, the smallest free one.
NewKey(m) ==
    LET used == DOMAIN m.ws
        next == MinOf(MaxKey, 1 + CHOOSE k \in used : \A j \in used : j <= k)
    IN  IF next \notin used THEN next
        ELSE CHOOSE k \in Keys \ used : \A j \in Keys \ used : k <= j

InsertWorkspace(m, id, at) ==
    [m EXCEPT !.order = InsertAt(@, at, id),
              !.ws = With(@, id, EmptyWorkspace)]

\* Mutant: the workspaces leave the visible order and stay in the map.
DropFromOrderOnly(m, doomed) ==
    [m EXCEPT !.order = Dropped(@, doomed)]

DropWorkspaces(m, doomed) ==
    [m EXCEPT !.order = Dropped(@, doomed),
              !.ws = Restrict(@, DOMAIN @ \ doomed),
              !.previous = IF @ \in doomed THEN NoWorkspace ELSE @]

\* Mutant: surplus empty workspaces go, and none is added at the bottom.
KeepTrailingWithoutGrowth(m, occupied) ==
    DropWorkspaces(m, {id \in DOMAIN m.ws : /\ id \notin {Last(m.order), m.active}
                                            /\ ~HasContent(m, occupied, id)})

\* The part of the order below the last occupied workspace.
BelowOccupied(m, occupied) ==
    SubSeq(m.order, 1 + SelectLastInSeq(m.order, LAMBDA id : HasContent(m, occupied, id)), Len(m.order))

GrowTrailing(m, occupied) ==
    IF BelowOccupied(m, occupied) # <<>> THEN m
    ELSE InsertWorkspace(m, NewKey(m), Len(m.order) + 1)

\* The empty workspace that stays: the viewed one if it is one of them, else the first.
Kept(m, empty) == IF InSeq(empty, m.active) THEN m.active ELSE empty[1]

TrimEmpty(m, occupied, trail) ==
    DropWorkspaces(m, {id \in DOMAIN m.ws : /\ id \notin {trail, m.active}
                                            /\ ~HasContent(m, occupied, id)})

TrimTrailing(m, occupied) == TrimEmpty(m, occupied, Kept(m, BelowOccupied(m, occupied)))

\* One trailing empty workspace, new if there is none.
KeepTrailing(m, occupied) == TrimTrailing(GrowTrailing(m, occupied), occupied)

\* Mutant: surplus empty workspaces go, and none is added on top.
KeepLeadingWithoutGrowth(m, occupied) ==
    LET first == SelectInSeq(m.order, LAMBDA id : HasContent(m, occupied, id))
        above == SubSeq(m.order, 1, first - 1)
    IN  IF first < 2 THEN m ELSE DropWorkspaces(m, ToSet(Tail(above)) \ {m.active})

\* empty-workspace-above-first.
KeepLeading(m, occupied) ==
    LET first == SelectInSeq(m.order, LAMBDA id : HasContent(m, occupied, id))
        above == SubSeq(m.order, 1, first - 1)
    IN  IF first = 0 THEN m
        ELSE IF first = 1 THEN InsertWorkspace(m, NewKey(m), 1)
        ELSE DropWorkspaces(m, ToSet(above) \ {Kept(m, above), m.active})

Homes(min) == {min[w].workspace : w \in DOMAIN min}

\* maintain_empty_workspace: a minimized window keeps its home workspace alive.
Maintain(m, min) ==
    IF config.aboveFirst THEN KeepLeading(KeepTrailing(m, Homes(min)), Homes(min))
    ELSE KeepTrailing(m, Homes(min))

----------------------------------------------------------------------------
(* Focus. *)

SetFocus(m, w) ==
    [m EXCEPT !.focusWindow = w,
              !.ring = RingPush(@, w),
              !.ws[m.active] = RememberFocus(@, w),
              !.focusColumn = IF Holds(ActiveStrip(m), w) THEN FindColumn(ActiveStrip(m), w) ELSE @]

\* The tile that has the focus again when a workspace becomes active.
RestoreFocus(m) ==
    LET ws      == ActiveStrip(m)
        recent  == SelectInSeq(m.ring, LAMBDA w : Holds(ws, w))
        target  == IF RememberedFocus(ws) # NoWindow THEN RememberedFocus(ws)
                   ELSE IF recent # 0 THEN m.ring[recent] ELSE ws.columns[1].tiles[1]
    IN  IF ws.columns = <<>> THEN m
        ELSE [m EXCEPT !.focusColumn = FindColumn(ws, target), !.focusWindow = target]

Switch(m, id) ==
    RestoreFocus([m EXCEPT !.previous = IF id = m.active THEN @ ELSE m.active,
                           !.active = id, !.focusColumn = 0, !.focusWindow = NoWindow])

WorkspaceOf(m, w) == {id \in DOMAIN m.ws : Holds(m.ws[id], w)}

\* remember_action_focus, for a tile.
RememberAction(m, w) ==
    [m EXCEPT !.ws = [id \in DOMAIN @ |-> RememberFocus(@[id], w)]]

Activate(m, w) == RememberAction([m EXCEPT !.lastActivated = w], w)

\* The layout pass: a tabbed column shows its focused window, and a focus that
\* was not activated yet is.
ShowFocus(m) ==
    [m EXCEPT !.ws[m.active].columns =
        [i \in DOMAIN @ |-> ClampTab(SelectWindow(@[i], m.focusWindow))]]

ActivateNew(m) ==
    IF m.focusWindow \in {NoWindow, m.lastActivated} THEN m ELSE Activate(m, m.focusWindow)

Layout(m) == ActivateNew(ShowFocus(m))

\* engine switch_workspace: the focused tile is activated even when it already was.
ActivateFocus(m) == IF m.focusWindow = NoWindow THEN m ELSE Activate(m, m.focusWindow)

SwitchAndMaintain(m, min, id) == ActivateFocus(Layout(Maintain(Switch(m, id), min)))

\* focus_action_window, for a window that is in the layout: its workspace first.
\* The column index is the one located before the switch.
FocusTile(m, min, w) ==
    LET id == CHOOSE k \in WorkspaceOf(m, w) : TRUE
        at == IF id = m.active THEN m ELSE SwitchAndMaintain(m, min, id)
        f  == [at EXCEPT !.focusColumn = FindColumn(m.ws[id], w),
                         !.focusWindow = w, !.ring = RingPush(@, w)]
    IN  Activate(Layout(RememberAction(f, w)), w)

----------------------------------------------------------------------------
(* Monitor::remove_window: take a window out and decide who has the focus.  *)

\* The focused tile went: the head of the ring if it is on this workspace, the
\* neighbouring column only when the ring is empty.
FocusAfterLoss(m, lostColumn) ==
    LET columns == ActiveStrip(m).columns
        adj     == MinOf(lostColumn, Len(columns))
        next    == IF m.ring # <<>> THEN m.ring[1] ELSE columns[adj].tiles[1]
    IN  IF columns = <<>> \/ ~Holds(ActiveStrip(m), next)
        THEN [m EXCEPT !.focusColumn = 0, !.focusWindow = NoWindow]
        ELSE [m EXCEPT !.focusColumn = IF m.ring # <<>> THEN FindColumn(ActiveStrip(m), next) ELSE adj,
                       !.focusWindow = next, !.ring = RingPush(@, next)]

\* Mutant: another tile went, and the column index is only clamped.
ReanchorByClamping(m) ==
    [m EXCEPT !.focusColumn = MinOf(@, Len(ActiveStrip(m).columns))]

\* Another tile went: follow the focused window, or clamp to a column that exists.
ReanchorFocus(m) ==
    LET columns == ActiveStrip(m).columns
        clamped == MinOf(IF m.focusColumn = 0 THEN 1 ELSE m.focusColumn, Len(columns))
    IN  IF columns = <<>> THEN [m EXCEPT !.focusColumn = 0]
        ELSE IF m.focusWindow = NoWindow
        THEN [m EXCEPT !.focusColumn = clamped, !.focusWindow = columns[clamped].tiles[1]]
        ELSE IF Holds(ActiveStrip(m), m.focusWindow)
        THEN [m EXCEPT !.focusColumn = FindColumn(ActiveStrip(m), m.focusWindow)]
        ELSE [m EXCEPT !.focusColumn = clamped]

RemoveFromMonitor(m, w) ==
    LET c    == FindColumn(ActiveStrip(m), w)
        left == [m EXCEPT !.ring = Without(@, w),
                          !.ws = [id \in DOMAIN @ |-> RemoveFromStrip(@[id], w)]]
    IN  IF c = 0 THEN left
        ELSE IF m.focusWindow = w THEN FocusAfterLoss(left, c)
        ELSE ReanchorFocus(left)

\* forget the activation of a window that left the layout.
Deactivated(m, w) == [m EXCEPT !.lastActivated = IF @ = w THEN NoWindow ELSE @]

----------------------------------------------------------------------------
(* Columns and workspaces that change place. *)

\* apply_new_column_policy: a column of one tile takes the configured display.
NewColumnPolicy(m, w) ==
    LET id  == CHOOSE k \in WorkspaceOf(m, w) : TRUE
        c   == FindColumn(m.ws[id], w)
        col == m.ws[id].columns[c]
        set == IF Len(col.tiles) = 1 THEN [col EXCEPT !.tab = IF config.tabbed THEN 1 ELSE 0] ELSE col
    IN  [m EXCEPT !.ws[id].columns[c] = SelectWindow(set, w)]

\* finish_column_op: the focus window keeps the focus wherever its column went.
FinishColumnOp(m) ==
    Layout([m EXCEPT !.focusColumn =
                IF Holds(ActiveStrip(m), m.focusWindow)
                THEN FindColumn(ActiveStrip(m), m.focusWindow) ELSE @])

\* Mutant: a window that leaves takes the whole column value with it.
DetachedColumnKeepsMates(ws, c, w) ==
    IF w = NoWindow THEN ws.columns[c] ELSE SelectWindow(ws.columns[c], w)

\* The column that leaves: all of column c, or w alone when it has company.
DetachedColumn(ws, c, w) ==
    IF w = NoWindow \/ Len(ws.columns[c].tiles) = 1 THEN ws.columns[c]
    ELSE SelectWindow([ws.columns[c] EXCEPT !.tiles = <<w>>], w)

AfterDetach(ws, c, w) ==
    [ws EXCEPT !.columns = IF w = NoWindow THEN RemoveAt(@, c)
                           ELSE PutColumn(@, c, RemoveTile(@[c], w))]

\* repair_workspace_move_cursor: only a cursor whose window left is moved.
RepairCursor(m, id, near) ==
    LET ws      == m.ws[id]
        heir    == ActiveWindow(ws.columns[MinOf(near, Len(ws.columns))])
        settled == IF Holds(ws, ws.active) THEN ws
                   ELSE IF ws.columns = <<>> THEN [ws EXCEPT !.active = NoWindow]
                   ELSE RememberFocus(ws, heir)
        focus   == IF Holds(ws, m.focusWindow) THEN m.focusWindow ELSE RememberedFocus(settled)
    IN  IF id # m.active THEN [m EXCEPT !.ws[id] = settled]
        ELSE [m EXCEPT !.ws[id] = RememberFocus(settled, m.focusWindow),
                       !.focusWindow = focus,
                       !.focusColumn = IF focus = NoWindow THEN 0 ELSE FindColumn(ws, focus)]

\* Mutant: the arriving window takes over the cursor of the workspace.
InsertTransferredSelects(m, id, col) ==
    LET ws == m.ws[id]
    IN  [m EXCEPT !.ws[id] = RememberFocus(InsertColumn(ws, AfterActive(ws), col), ActiveWindow(col))]

\* insert_workspace_column: right of the remembered column, which stays selected.
InsertTransferred(m, id, col) ==
    LET ws       == m.ws[id]
        anchor   == RememberedFocus(ws)
        at       == IF anchor = NoWindow THEN 1 ELSE FindColumn(ws, anchor) + 1
        joined   == RememberFocus(InsertColumn(ws, at, col),
                                  IF anchor = NoWindow THEN ActiveWindow(col) ELSE anchor)
    IN  [m EXCEPT !.ws[id] = joined,
                  !.focusColumn = IF id = m.active /\ Holds(joined, m.focusWindow)
                                  THEN FindColumn(joined, m.focusWindow) ELSE @]

FocusArrival(m, min, w) == IF w = NoWindow THEN m ELSE FocusTile(m, min, w)

\* Move column c of workspace from (or only w of it) to workspace to; focus is
\* the window that is focused there afterwards, NoWindow for none.
Transfer(m, min, from, c, w, to, focus) ==
    LET col     == DetachedColumn(m.ws[from], c, w)
        out     == RepairCursor([m EXCEPT !.ws[from] = AfterDetach(@, c, w)], from, c)
        aged    == [out EXCEPT !.ring = Dropped(@, ToSet(col.tiles))]
    IN  Layout(FocusArrival(Maintain(InsertTransferred(aged, to, col), min), min, focus))

MoveInOrder(order, id, at) == InsertAt(Without(order, id), at, id)

----------------------------------------------------------------------------
(* Actions. *)

Init ==
    /\ mon = [order |-> <<0>>, ws |-> [k \in {0} |-> EmptyWorkspace], active |-> 0,
              previous |-> NoWorkspace, focusColumn |-> 0, focusWindow |-> NoWindow,
              ring |-> <<>>, lastActivated |-> NoWindow]
    /\ minimized = <<>>
    /\ managed = {}
    /\ config \in Configs

Focused == mon.focusWindow
Focusable == managed \ DOMAIN minimized

\* focus_before, or os_foreground: with no focus here the foreground window may be any, on this workspace,
\* on another one, minimized, or (one that is not managed here) on another output.
FocusBefore == IF Focused # NoWindow THEN {Focused} ELSE Windows \cup {NoWindow}

\* The new window is refused the focus: the one that had it gets it back, if it is on the same workspace.
KeepTheFocus(m, w, previous) ==
    LET aged == [m EXCEPT !.ring = RingPushBack(Without(@, w), w)]
        strip == ActiveStrip(m)
    IN  IF previous \in {NoWindow, w} THEN m
        ELSE IF ~Holds(strip, previous) THEN aged
        ELSE [aged EXCEPT !.focusWindow = previous, !.focusColumn = FindColumn(strip, previous),
                          !.ws[m.active] = RememberFocus(@, previous)]

\* A window opens on the active workspace, in a column right of the active one.
OpenWindow(w, refused) ==
    LET placed  == SetFocus([mon EXCEPT !.ws[mon.active] = InsertAfterActive(@, w)], w)
        settled == NewColumnPolicy(Maintain(placed, minimized), w)
    IN  /\ w \notin managed
        /\ managed' = managed \cup {w}
        /\ \E previous \in FocusBefore :
            mon' = Layout(IF refused THEN KeepTheFocus(settled, w, previous) ELSE settled)
        /\ UNCHANGED minimized

\* open-on-workspace: it is placed there and the focus stays where it is.
OpenOnWorkspace(w, id) ==
    LET strip  == mon.ws[id]
        opened == RememberFocus(InsertAfterActive(strip, w), strip.active)
        placed == [mon EXCEPT !.ws[id] = opened, !.ring = RingPushBack(@, w)]
    IN  /\ w \notin managed /\ id # mon.active
        /\ managed' = managed \cup {w}
        /\ mon' = Layout(NewColumnPolicy(Maintain(placed, minimized), w))
        /\ UNCHANGED minimized

\* A window closes.  One that is minimized is in no strip: nothing is maintained or laid out.
CloseWindow(w) ==
    /\ w \in managed
    /\ managed' = managed \ {w}
    /\ minimized' = Restrict(minimized, DOMAIN minimized \ {w})
    /\ mon' = IF w \in DOMAIN minimized THEN Deactivated(mon, w)
              ELSE Layout(Maintain(RemoveFromMonitor(Deactivated(mon, w), w), minimized))

\* EVENT_SYSTEM_MINIMIZESTART.  The slots of windows minimized from the same
\* workspace are folded in, in the order the hash map happens to give them.
MinimizeWindow(w) ==
    /\ w \in Focusable
    /\ \E id \in WorkspaceOf(mon, w) :
       \E earlier \in SetToSeqs({minimized[x].slot :
                                   x \in {y \in DOMAIN minimized : minimized[y].workspace = id}}) :
          minimized' = With(minimized, w,
                            [workspace |-> id, slot |-> Learned(SlotOf(mon.ws[id], w), earlier)])
    /\ mon' = Layout(Maintain(RemoveFromMonitor(Deactivated(mon, w), w), minimized'))
    /\ UNCHANGED managed

\* What restore_window makes of the monitor: the window comes back on the
\* workspace the user is looking at, in its old place if that is its home.
Restored(m, min, w) ==
    LET strip == IF min[w].workspace = m.active THEN PutBack(ActiveStrip(m), min[w].slot)
                 ELSE InsertSlotAfterActive(ActiveStrip(m), min[w].slot)
        back  == SetFocus([m EXCEPT !.ws[m.active] = strip], w)
    IN  Layout(Maintain(back, Restrict(min, DOMAIN min \ {w})))

RestoreWindow(w) ==
    /\ w \in DOMAIN minimized
    /\ mon' = Restored(mon, minimized, w)
    /\ minimized' = Restrict(minimized, DOMAIN minimized \ {w})
    /\ UNCHANGED managed

\* focus-window by id, a click on a tab, the recent-windows switcher.
FocusWindow(w) ==
    /\ w \in managed
    /\ LET min == Restrict(minimized, DOMAIN minimized \ {w})
       IN  /\ minimized' = min
           /\ mon' = FocusTile(IF w \in DOMAIN minimized THEN Restored(mon, minimized, w) ELSE mon,
                               min, w)
    /\ UNCHANGED managed

\* A foreground notice that is followed: the OS says w is what the user looks at.
\* With hide-method "cloak" w may be on another workspace (Alt+Tab still lists it);
\* that workspace becomes active, and the stack is not maintained here.
ForegroundNotice(w) ==
    LET m  == RememberAction([mon EXCEPT !.lastActivated = w], w)
        id == CHOOSE k \in WorkspaceOf(mon, w) : TRUE
    IN  /\ w \in Focusable
        /\ mon' = IF mon.active = id /\ Focused = w /\ mon.focusColumn = FindColumn(mon.ws[id], w)
                  THEN m
                  ELSE Layout(SetFocus(IF mon.active = id THEN m ELSE Switch(m, id), w))
        /\ UNCHANGED <<minimized, managed>>

\* Where a directional focus action goes (NoWindow at an edge).
FocusTarget(m, step) ==
    LET columns == ActiveStrip(m).columns
        c       == IF Holds(ActiveStrip(m), m.focusWindow)
                   THEN FindColumn(ActiveStrip(m), m.focusWindow)
                   ELSE MinOf(IF m.focusColumn = 0 THEN 1 ELSE m.focusColumn, Len(columns))
        tiles   == columns[c].tiles
        i       == IF InSeq(tiles, m.focusWindow) THEN IndexIn(tiles, m.focusWindow) ELSE 1
        Column(k) == IF k \in DOMAIN columns THEN ActiveWindow(columns[k]) ELSE NoWindow
        Tile(k)   == IF k \in DOMAIN tiles THEN tiles[k] ELSE NoWindow
        Else(x, y) == IF x # NoWindow THEN x ELSE y
        Go == [left |-> Column(c - 1), right |-> Column(c + 1), up |-> Tile(i - 1),
               down |-> Tile(i + 1), first |-> Column(1), last |-> Column(Len(columns)),
               top |-> Tile(1), bottom |-> Tile(Len(tiles))]
    IN  IF columns = <<>> THEN NoWindow ELSE Else(Go[step[1]], Go[step[2]])

\* The composite steps fall back to their second half at an edge.
FocusSteps ==
    {<<s, s>> : s \in {"left", "right", "up", "down", "first", "last", "top", "bottom"}}
    \cup {<<"right", "first">>, <<"left", "last">>, <<"down", "left">>, <<"down", "right">>,
          <<"up", "left">>, <<"up", "right">>, <<"down", "top">>, <<"up", "bottom">>}

FocusStep(step) ==
    /\ FocusTarget(mon, step) # NoWindow
    /\ mon' = FocusTile(mon, minimized, FocusTarget(mon, step))
    /\ UNCHANGED <<minimized, managed>>

\* focus-workspace; asking for the active one may go back to the previous one.
FocusWorkspace(id) ==
    LET to == IF config.backAndForth /\ id = mon.active /\ mon.previous \in DOMAIN mon.ws
              THEN mon.previous ELSE id
    IN  /\ mon' = SwitchAndMaintain(mon, minimized, to)
        /\ UNCHANGED <<minimized, managed>>

\* A column operation that is refused changes nothing.
ColumnOp(strip, moved, expelled) ==
    /\ strip # ActiveStrip(mon)
    /\ LET m == [moved EXCEPT !.ws[mon.active] = strip]
       IN  mon' = FinishColumnOp(IF expelled = NoWindow THEN m ELSE NewColumnPolicy(m, expelled))
    /\ UNCHANGED <<minimized, managed>>

ConsumeOrExpelWindow(right) ==
    LET c     == FindColumn(ActiveStrip(mon), Focused)
        multi == Len(ActiveStrip(mon).columns[c].tiles) > 1
    IN  /\ c # 0
        /\ ColumnOp(ConsumeOrExpel(ActiveStrip(mon), Focused, right), mon,
                    IF multi THEN Focused ELSE NoWindow)

ConsumeWindowIntoColumn ==
    /\ mon.focusColumn # 0
    /\ ColumnOp(ConsumeInto(ActiveStrip(mon), mon.focusColumn), mon, NoWindow)

\* The bottom tile leaves; if it had the focus, the tile above gets it.
ExpelWindowFromColumn ==
    LET c      == mon.focusColumn
        strip  == ExpelFrom(ActiveStrip(mon), c)
        bottom == Last(ActiveStrip(mon).columns[c].tiles)
        above  == Last(strip.columns[c].tiles)
    IN  /\ c # 0
        /\ ColumnOp(strip,
                    IF Focused # bottom THEN mon
                    ELSE [mon EXCEPT !.focusWindow = above, !.ring = RingPush(@, above)],
                    bottom)

MoveWindowInColumn(delta) ==
    /\ Focused # NoWindow
    /\ ColumnOp(MoveTileWithin(ActiveStrip(mon), Focused, delta), mon, NoWindow)

SwapWindow(delta) ==
    /\ Focused # NoWindow
    /\ ColumnOp(SwapWithNeighbour(ActiveStrip(mon), Focused, delta), mon, NoWindow)

\* move-column-left / -right / -to-first / -to-last / -to-index.
MoveColumn(target) ==
    LET c == mon.focusColumn
    IN  /\ c # 0 /\ target # c /\ target \in DOMAIN ActiveStrip(mon).columns
        /\ mon' = Layout([mon EXCEPT !.ws[mon.active] = MoveColumnTo(@, c, target),
                                     !.focusColumn = target])
        /\ UNCHANGED <<minimized, managed>>

ToggleColumnTabbed ==
    /\ mon.focusColumn # 0
    /\ mon' = Layout([mon EXCEPT !.ws[mon.active].columns[mon.focusColumn] =
                                    ToggleTabbed(@, Focused)])
    /\ UNCHANGED <<minimized, managed>>

\* focus-tab-next / -previous, wrapping.
CycleTab(delta) ==
    LET col == ActiveStrip(mon).columns[mon.focusColumn]
        n   == Len(col.tiles)
        to  == col.tiles[((col.tab - 1 + delta) % n) + 1]
    IN  /\ mon.focusColumn # 0 /\ Tabbed(col)
        /\ mon' = Activate(Layout(SetFocus(mon, to)), to)
        /\ UNCHANGED <<minimized, managed>>

\* move-window-to-workspace, by id or for the focused window.  The focus goes
\* along only when asked to and the window had it.
MoveWindowToWorkspace(w, to, follow) ==
    /\ w \in Focusable
    /\ \E from \in WorkspaceOf(mon, w) \ {to} :
          mon' = Transfer(mon, minimized, from, FindColumn(mon.ws[from], w), w, to,
                          IF follow /\ from = mon.active /\ w = Focused THEN w ELSE NoWindow)
    /\ UNCHANGED <<minimized, managed>>

ActiveColumn ==
    IF Holds(ActiveStrip(mon), Focused) THEN FindColumn(ActiveStrip(mon), Focused)
    ELSE mon.focusColumn

MoveColumnToWorkspace(to, follow) ==
    LET col == ActiveStrip(mon).columns[ActiveColumn]
    IN  /\ ActiveColumn # 0 /\ to # mon.active
        /\ mon' = Transfer(mon, minimized, mon.active, ActiveColumn, NoWindow, to,
                           IF follow THEN ActiveWindow(col) ELSE NoWindow)
        /\ UNCHANGED <<minimized, managed>>

\* move-workspace-to-index: nothing goes below the trailing empty workspace.
MoveWorkspaceToIndex(id, index) ==
    LET last   == Last(mon.order)
        bottom == last # id /\ ~HasContent(mon, Homes(minimized), last)
        at     == MinOf(index, IF bottom THEN Len(mon.order) - 1 ELSE Len(mon.order))
    IN  /\ mon' = Layout(Maintain([mon EXCEPT !.order = MoveInOrder(@, id, at)], minimized))
        /\ UNCHANGED <<minimized, managed>>

\* set-workspace-name / unset-workspace-name.
NameWorkspace(id, named) ==
    /\ named => Cardinality({k \in DOMAIN mon.ws : mon.ws[k].named}) < MaxNamed
    /\ mon' = Maintain([mon EXCEPT !.ws[id].named = named], minimized)
    /\ UNCHANGED <<minimized, managed>>

----------------------------------------------------------------------------
WindowLifecycle ==
    \E w \in Windows :
        \/ \E refused \in BOOLEAN : OpenWindow(w, refused)
        \/ \E id \in DOMAIN mon.ws : OpenOnWorkspace(w, id)
        \/ CloseWindow(w)

Minimizing == \E w \in Windows : MinimizeWindow(w) \/ RestoreWindow(w)

Focusing ==
    \/ \E w \in Windows : FocusWindow(w) \/ ForegroundNotice(w)
    \/ \E step \in FocusSteps : FocusStep(step)
    \/ \E id \in DOMAIN mon.ws : FocusWorkspace(id)

ColumnOps ==
    \/ \E right \in BOOLEAN : ConsumeOrExpelWindow(right)
    \/ ConsumeWindowIntoColumn
    \/ ExpelWindowFromColumn
    \/ \E delta \in {-1, 1} : MoveWindowInColumn(delta) \/ SwapWindow(delta)
    \/ \E target \in 1 .. Cardinality(Windows) : MoveColumn(target)

TabOps == ToggleColumnTabbed \/ \E delta \in {-1, 1} : CycleTab(delta)

WorkspaceOps ==
    \/ \E w \in Windows, to \in DOMAIN mon.ws, follow \in BOOLEAN :
            MoveWindowToWorkspace(w, to, follow)
    \/ \E to \in DOMAIN mon.ws, follow \in BOOLEAN : MoveColumnToWorkspace(to, follow)
    \/ \E id \in DOMAIN mon.ws, index \in 1 .. Len(mon.order) : MoveWorkspaceToIndex(id, index)
    \/ \E id \in DOMAIN mon.ws, named \in BOOLEAN : NameWorkspace(id, named)

Next ==
    /\ UNCHANGED config
    /\ \/ WindowLifecycle
       \/ Minimizing
       \/ Focusing
       \/ ColumnOps
       \/ TabOps
       \/ WorkspaceOps

Spec == Init /\ [][Next]_vars
=============================================================================
