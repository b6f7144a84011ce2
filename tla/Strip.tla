------------------------------- MODULE Strip -------------------------------
(***************************************************************************)
(* The strip of one workspace: its columns, the tiles stacked or tabbed in *)
(* a column, what each column and the workspace remember as their active   *)
(* window, and the place a minimized window leaves behind.  The pure       *)
(* operations of src/layout/workspace.rs, as operators on values.          *)
(*                                                                         *)
(* A column is [tiles, active, tab]: the windows from top to bottom, the   *)
(* window it remembers (or NoWindow), and tab = 0 for a stacked column,    *)
(* otherwise the 1-based index of the tab it shows.  A workspace is        *)
(* [columns, active, named].  Sizes, scroll offsets and cached rectangles  *)
(* are left out: no operation below reads them.                            *)
(***************************************************************************)
EXTENDS Lists

CONSTANT NoWindow           \* Option::None where a WindowId is expected

MinOf(i, j) == IF i <= j THEN i ELSE j

----------------------------------------------------------------------------
(* Columns. *)

ColumnOf(w) == [tiles |-> <<w>>, active |-> NoWindow, tab |-> 0]

Tabbed(col) == col.tab > 0

\* Mutant: the bottom tab goes, and one that is not there any more is shown.
ClampTabNever(col) == col

ClampTab(col) ==
    IF Tabbed(col) /\ col.tab > Len(col.tiles)
    THEN [col EXCEPT !.tab = IF col.tiles = <<>> THEN 1 ELSE Len(col.tiles)]
    ELSE col

ActiveTile(col) ==
    IF InSeq(col.tiles, col.active) THEN col.active
    ELSE IF col.tiles = <<>> THEN NoWindow ELSE col.tiles[1]

ActiveWindow(col) ==
    IF ~Tabbed(col) THEN ActiveTile(col)
    ELSE IF col.tab \in DOMAIN col.tiles THEN col.tiles[col.tab] ELSE NoWindow

\* The windows of the column that are drawn: every tile, or the one tab.
VisibleTiles(col) ==
    IF ~Tabbed(col) THEN ToSet(col.tiles)
    ELSE IF col.tiles = <<>> THEN {}
    ELSE {col.tiles[MinOf(col.tab, Len(col.tiles))]}

\* Mutant: the window is remembered and the tab it sits behind stays hidden.
SelectWindowNotTab(col, w) ==
    IF InSeq(col.tiles, w) THEN [col EXCEPT !.active = w] ELSE col

SelectWindow(col, w) ==
    IF ~InSeq(col.tiles, w) THEN col
    ELSE [col EXCEPT !.active = w,
                     !.tab = IF Tabbed(col) THEN IndexIn(col.tiles, w) ELSE 0]

RemoveTile(col, w) ==
    LET i    == IndexIn(col.tiles, w)
        left == RemoveAt(col.tiles, i)
        next == IF left = <<>> THEN NoWindow ELSE left[MinOf(i, Len(left))]
    IN  IF i = 0 THEN col
        ELSE ClampTab([tiles  |-> left,
                       active |-> IF col.active = w THEN next ELSE col.active,
                       tab    |-> IF i < col.tab THEN col.tab - 1 ELSE col.tab])

AddTile(col, w) == [col EXCEPT !.tiles = Append(@, w)]

ToggleTabbed(col, focus) ==
    IF Tabbed(col) THEN [col EXCEPT !.tab = 0]
    ELSE SelectWindow([col EXCEPT !.tab = 1], focus)

----------------------------------------------------------------------------
(* The workspace: finding, remembering, inserting, removing. *)

EmptyWorkspace == [columns |-> <<>>, active |-> NoWindow, named |-> FALSE]

FindColumn(ws, w) == SelectInSeq(ws.columns, LAMBDA col : InSeq(col.tiles, w))

Holds(ws, w) == FindColumn(ws, w) # 0

WindowsOf(ws) == UNION {ToSet(ws.columns[i].tiles) : i \in DOMAIN ws.columns}

RememberFocus(ws, w) ==
    IF ~Holds(ws, w) THEN ws
    ELSE [ws EXCEPT !.active = w, !.columns[FindColumn(ws, w)] = SelectWindow(@, w)]

RememberedFocus(ws) ==
    IF Holds(ws, ws.active) THEN ws.active
    ELSE IF ws.columns = <<>> THEN NoWindow ELSE ActiveTile(ws.columns[1])

\* Where a new column goes: right of the remembered one, else at the end.
AfterActive(ws) ==
    IF Holds(ws, ws.active) THEN FindColumn(ws, ws.active) + 1 ELSE Len(ws.columns) + 1

InsertColumn(ws, at, col) == [ws EXCEPT !.columns = InsertAt(@, at, col)]

InsertAfterActive(ws, w) ==
    RememberFocus(InsertColumn(ws, AfterActive(ws), ColumnOf(w)), w)

\* Write back column c of the strip, dropping it when nothing is left in it.
PutColumn(columns, c, col) ==
    IF col.tiles = <<>> THEN RemoveAt(columns, c) ELSE ReplaceAt(columns, c, col)

RemoveFromStrip(ws, w) ==
    LET c == FindColumn(ws, w)
    IN  IF c = 0 THEN ws
        ELSE [ws EXCEPT !.columns = PutColumn(@, c, RemoveTile(@[c], w))]

----------------------------------------------------------------------------
(* Minimize: the slot a window leaves, and putting it back. *)

TilesOf(columns) == FlattenSeq([i \in DOMAIN columns |-> columns[i].tiles])

\* Windows of the columns on the left, nearest column first, top tile first.
LeftOf(ws, c) == TilesOf(Reverse(SubSeq(ws.columns, 1, c - 1)))
RightOf(ws, c) == TilesOf(SubSeq(ws.columns, c + 1, Len(ws.columns)))

SlotOf(ws, w) ==
    LET c     == FindColumn(ws, w)
        tiles == ws.columns[c].tiles
        i     == IndexIn(tiles, w)
    IN  [window |-> w, column |-> c, index |-> i, tabbed |-> Tabbed(ws.columns[c]),
         above |-> Reverse(SubSeq(tiles, 1, i - 1)),
         below |-> SubSeq(tiles, i + 1, Len(tiles)),
         left  |-> LeftOf(ws, c),
         right |-> RightOf(ws, c)]

InsertNearestFirst(list, other, beyond) ==
    LET at == SelectInSeq(list, LAMBDA w : InSeq(beyond, w))
    IN  InsertAt(list, IF at = 0 THEN Len(list) + 1 ELSE at, other)

\* Mutant: a slot knows only the windows that were in the strip with it.
LearnNothing(slot, earlier) == slot

\* Fold a window minimized earlier into a fresh slot.
LearnFrom(slot, earlier) ==
    LET me == slot.window   other == earlier.window
    IN  IF \E side \in {"above", "below", "left", "right"} : InSeq(slot[side], other)
        THEN slot
        ELSE IF InSeq(earlier.below, me)
        THEN [slot EXCEPT !.above = InsertNearestFirst(@, other, earlier.above)]
        ELSE IF InSeq(earlier.above, me)
        THEN [slot EXCEPT !.below = InsertNearestFirst(@, other, earlier.below)]
        ELSE IF InSeq(earlier.right, me)
        THEN [slot EXCEPT !.left = InsertNearestFirst(@, other, earlier.left)]
        ELSE IF InSeq(earlier.left, me)
        THEN [slot EXCEPT !.right = InsertNearestFirst(@, other, earlier.right)]
        ELSE slot

\* The slots of windows minimized earlier, folded in one after another.
Learned(slot, earlier) ==
    LET after[k \in 0 .. Len(earlier)] ==
            IF k = 0 THEN slot ELSE LearnFrom(after[k - 1], earlier[k])
    IN  after[Len(earlier)]

\* The first window of list that is still in the strip (0 when none is).
FirstPresent(ws, list) == SelectInSeq(list, LAMBDA w : Holds(ws, w))

RejoinAt(tiles, slot) ==
    LET a == SelectInSeq(slot.above, LAMBDA w : InSeq(tiles, w))
        b == SelectInSeq(slot.below, LAMBDA w : InSeq(tiles, w))
    IN  IF a # 0 THEN IndexIn(tiles, slot.above[a]) + 1 ELSE IndexIn(tiles, slot.below[b])

OwnColumnAt(ws, slot) ==
    LET l == FirstPresent(ws, slot.left)
        r == FirstPresent(ws, slot.right)
    IN  IF l # 0 THEN FindColumn(ws, slot.left[l]) + 1
        ELSE IF r # 0 THEN FindColumn(ws, slot.right[r])
        ELSE MinOf(slot.column, Len(ws.columns) + 1)

\* put_back: rejoin a neighbour of the old column, else a column of its own.
\* The tiles are spliced in as they are: the tab index is not repaired here.
PutBack(ws, slot) ==
    LET mates == slot.above \o slot.below
        m     == FirstPresent(ws, mates)
        c     == FindColumn(ws, mates[m])
        own   == [ColumnOf(slot.window) EXCEPT !.tab = IF slot.tabbed THEN 1 ELSE 0]
    IN  IF m # 0
        THEN [ws EXCEPT !.columns[c].tiles = InsertAt(@, RejoinAt(@, slot), slot.window)]
        ELSE InsertColumn(ws, OwnColumnAt(ws, slot), own)

\* A window restored on another workspace: its old neighbours mean nothing here.
InsertSlotAfterActive(ws, slot) ==
    RememberFocus(PutBack(ws, [slot EXCEPT !.column = AfterActive(ws), !.above = <<>>,
                                           !.below = <<>>, !.left = <<>>, !.right = <<>>]),
                  slot.window)

----------------------------------------------------------------------------
(* Column operations.  Each gives the workspace unchanged where the code    *)
(* returns None or false.                                                   *)

\* Split w off column c (of several tiles) as a stacked column at index at.
Expelled(ws, c, w, at) ==
    [ws EXCEPT !.columns = InsertAt(ReplaceAt(@, c, RemoveTile(@[c], w)), at, ColumnOf(w))]

\* Mutant: the window joins its neighbour and its own column is not dropped.
ConsumeOrExpelCopies(ws, w, right) ==
    LET target == IF right THEN FindColumn(ws, w) + 1 ELSE FindColumn(ws, w) - 1
    IN  IF target \notin DOMAIN ws.columns THEN ws
        ELSE [ws EXCEPT !.columns[target] = AddTile(@, w)]

ConsumeOrExpel(ws, w, right) ==
    LET c      == FindColumn(ws, w)
        target == IF right THEN c + 1 ELSE c - 1
    IN  IF c = 0 THEN ws
        ELSE IF Len(ws.columns[c].tiles) > 1
        THEN Expelled(ws, c, w, IF right THEN c + 1 ELSE c)
        ELSE IF target \notin DOMAIN ws.columns THEN ws
        ELSE [ws EXCEPT !.columns = RemoveAt(ReplaceAt(@, target, AddTile(@[target], w)), c)]

\* The first tile of column c+1 joins column c.  It is taken out of the list
\* directly: neither the tab nor the remembered window of c+1 moves with it.
ConsumeInto(ws, c) ==
    LET w    == ws.columns[c + 1].tiles[1]
        rest == ClampTab([ws.columns[c + 1] EXCEPT !.tiles = Tail(@)])
    IN  IF c + 1 \notin DOMAIN ws.columns THEN ws
        ELSE [ws EXCEPT !.columns = PutColumn(ReplaceAt(@, c, AddTile(@[c], w)), c + 1, rest)]

ExpelFrom(ws, c) ==
    IF c \notin DOMAIN ws.columns \/ Len(ws.columns[c].tiles) < 2 THEN ws
    ELSE Expelled(ws, c, Last(ws.columns[c].tiles), c + 1)

Swap(s, i, j) == [s EXCEPT ![i] = s[j], ![j] = s[i]]

MoveTileWithin(ws, w, delta) ==
    LET c   == FindColumn(ws, w)
        col == ws.columns[c]
        i   == IndexIn(col.tiles, w)
        j   == i + delta
    IN  IF c = 0 THEN ws
        ELSE IF j \notin DOMAIN col.tiles THEN ws
        ELSE [ws EXCEPT !.columns[c] =
                [col EXCEPT !.tiles = Swap(@, i, j),
                            !.tab = IF @ = i THEN j ELSE IF @ = j THEN i ELSE @]]

SwapWithNeighbour(ws, w, delta) ==
    LET c      == FindColumn(ws, w)
        t      == c + delta
        mine   == ws.columns[c]
        theirs == ws.columns[t]
        from   == IndexIn(mine.tiles, w)
        other  == ActiveWindow(theirs)
        at     == IndexIn(theirs.tiles, other)
    IN  IF c = 0 \/ t \notin DOMAIN ws.columns THEN ws
        ELSE IF at = 0 THEN ws
        ELSE [ws EXCEPT
                !.columns[c] = [mine EXCEPT !.tiles[from] = other,
                                            !.active = IF @ = w THEN other ELSE @],
                !.columns[t] = [theirs EXCEPT !.tiles[at] = w, !.active = w,
                                              !.tab = IF Tabbed(theirs) THEN at ELSE 0]]

MoveColumnTo(ws, c, target) ==
    IF c \notin DOMAIN ws.columns \/ target \notin DOMAIN ws.columns THEN ws
    ELSE [ws EXCEPT !.columns = InsertAt(RemoveAt(@, c), target, @[c])]

=============================================================================
