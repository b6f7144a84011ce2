---------------------------- MODULE MonitorProps ----------------------------
(***************************************************************************)
(* What the operations of an output (module Monitor) must keep true.       *)
(***************************************************************************)
EXTENDS Monitor

Columns == [tiles : Seq(Windows), active : Windows \cup {NoWindow}, tab : Nat]
Workspaces == [columns : Seq(Columns), active : Windows \cup {NoWindow}, named : BOOLEAN]
Slots == [window : Windows, column : Nat \ {0}, index : Nat \ {0}, tabbed : BOOLEAN,
          above : Seq(Windows), below : Seq(Windows), left : Seq(Windows), right : Seq(Windows)]

\* The monitor, the minimized records and the managed set have their types, and
\* the visible order lists every workspace once.
TypeOK ==
    /\ managed \subseteq Windows
    /\ DOMAIN minimized \subseteq managed
    /\ \A w \in DOMAIN minimized : minimized[w] \in [workspace : Keys, slot : Slots]
    /\ DOMAIN mon.ws \subseteq Keys
    /\ \A id \in DOMAIN mon.ws : mon.ws[id] \in Workspaces
    /\ ToSet(mon.order) = DOMAIN mon.ws /\ Len(mon.order) = Cardinality(DOMAIN mon.ws)
    /\ mon.active \in DOMAIN mon.ws
    /\ mon.previous \in Keys \cup {NoWorkspace}
    /\ mon.focusColumn \in Nat
    /\ {mon.focusWindow, mon.lastActivated} \subseteq Windows \cup {NoWindow}

TileCount(w) ==
    LET tiles(id, c) == mon.ws[id].columns[c].tiles
    IN  Cardinality(UNION {UNION {{<<id, c, i>> : i \in {j \in DOMAIN tiles(id, c) : tiles(id, c)[j] = w}}
                                   : c \in DOMAIN mon.ws[id].columns} : id \in DOMAIN mon.ws})

\* A managed window is one tile of one workspace, or it is minimized; an
\* unmanaged one is nowhere (engine.rs:1692-1695: a second tile would outlive it).
OnePlaceEach ==
    \A w \in Windows :
        TileCount(w) = IF w \in managed \ DOMAIN minimized THEN 1 ELSE 0

\* No strip keeps an empty column, and a tabbed column shows a tab that exists
\* (workspace.rs: remove_window, consume_into_column, clamp_active_tab).
StripsWellFormed ==
    \A id \in DOMAIN mon.ws : \A c \in DOMAIN mon.ws[id].columns :
        LET col == mon.ws[id].columns[c]
        IN  col.tiles # <<>> /\ col.tab \in 0 .. Len(col.tiles)

\* The focused window is a tile of the active workspace, focus_column is its
\* column, and that column draws it: the focused HWND is never a hidden tab.
FocusIsShown ==
    /\ mon.focusColumn \in 0 .. Len(ActiveStrip(mon).columns)
    /\ mon.focusWindow # NoWindow =>
        /\ mon.focusColumn # 0
        /\ mon.focusWindow \in VisibleTiles(ActiveStrip(mon).columns[mon.focusColumn])

\* A workspace nobody looks at, before and after a step, keeps its cursor: the
\* remembered window changes only if it left the workspace.
CursorIsKept ==
    [][\A id \in DOMAIN mon.ws \cap DOMAIN mon'.ws :
        LET cursor == mon.ws[id].active
        IN  /\ id \notin {mon.active, mon'.active}
            /\ Holds(mon.ws[id], cursor) /\ Holds(mon'.ws[id], cursor)
            => mon'.ws[id].active = cursor]_vars

\* The MRU ring has no window twice, none that left the layout, and is bounded.
RingSound ==
    /\ Len(mon.ring) <= RingCapacity
    /\ ToSet(mon.ring) \subseteq managed \ DOMAIN minimized
    /\ IsInjective(mon.ring)

\* The lowest workspace is empty and unnamed, and no minimized window is to
\* come back to it (maintain_empty_workspace).
EmptyAtTheBottom == ~HasContent(mon, Homes(minimized), Last(mon.order))

\* empty-workspace-above-first keeps another one on top, whatever is moved there.
EmptyAtTheTop == config.aboveFirst => ~HasContent(mon, Homes(minimized), mon.order[1])

\* A minimized window always has a workspace to come back to.
HomeIsKept == Homes(minimized) \subseteq DOMAIN mon.ws

\* layout/mod.rs:671-672: when the focused window closes or is minimized, the
\* focus goes to the previous window of the ring, and falls back to a neighbouring
\* column if that one is gone: it is not lost while the workspace has columns.
FocusFallsBack ==
    [][/\ mon.focusWindow \in managed \ DOMAIN minimized
       /\ mon.focusWindow \notin managed' \ DOMAIN minimized'
       /\ ActiveStrip(mon').columns # <<>>
       => mon'.focusWindow # NoWindow]_vars
=============================================================================
