--------------------------- MODULE Monitor_lemmas ---------------------------
(***************************************************************************)
(* What proofs about one output rest on.  First what the operations of a   *)
(* strip return: for every strip whose columns are sound and share no      *)
(* window, each operation gives such a strip again, with exactly the       *)
(* windows it should have.  Then the parts of the inductive invariant of   *)
(* module Monitor, and what its helpers keep of them, for every set of     *)
(* windows, bound and configuration.                                       *)
(***************************************************************************)
EXTENDS MonitorProps, SeqLemmas

ColumnType(W) == [tiles : Seq(W), active : W \cup {NoWindow}, tab : Nat]
StripType(W) == [columns : Seq(ColumnType(W)), active : W \cup {NoWindow}, named : BOOLEAN]

Tiles(col) == ToSet(col.tiles)

\* A column as the engine keeps it: tiles, no window twice, a tab that exists.
GoodColumn(col, W) ==
    /\ col \in ColumnType(W)
    /\ col.tiles # <<>> /\ IsInjective(col.tiles)
    /\ col.tab \in 0 .. Len(col.tiles)

GoodColumns(cols, W) ==
    /\ cols \in Seq(ColumnType(W))
    /\ \A c \in 1 .. Len(cols) : GoodColumn(cols[c], W)
    /\ \A c, d \in 1 .. Len(cols) : c # d => Tiles(cols[c]) \cap Tiles(cols[d]) = {}

TilesIn(cols) == UNION {Tiles(cols[c]) : c \in DOMAIN cols}

GoodStrip(ws, W) == ws \in StripType(W) /\ GoodColumns(ws.columns, W)

----------------------------------------------------------------------------
(* Columns. *)

LEMMA ColumnFields ==
    ASSUME NEW W, NEW col, GoodColumn(col, W)
    PROVE  /\ col.tiles \in Seq(W) /\ Len(col.tiles) \in Nat \ {0}
           /\ col.active \in W \cup {NoWindow}
           /\ col.tab \in Nat /\ col.tab <= Len(col.tiles)
           /\ IsInjective(col.tiles)
           /\ Tiles(col) \subseteq W /\ Tiles(col) # {}
           /\ col = [tiles |-> col.tiles, active |-> col.active, tab |-> col.tab]
<1>1. col.tiles \in Seq(W) /\ Len(col.tiles) \in Nat \ {0}
  BY EmptySeq DEF GoodColumn, ColumnType
<1>2. Tiles(col) \subseteq W /\ col.tiles[1] \in Tiles(col)
  BY <1>1, ToSetOf DEF Tiles
<1> QED BY <1>1, <1>2 DEF GoodColumn, ColumnType

LEMMA MakeColumn ==
    ASSUME NEW W, NEW t \in Seq(W), Len(t) # 0, IsInjective(t), NEW a \in W \cup {NoWindow},
           NEW b \in Nat, b <= Len(t)
    PROVE  GoodColumn([tiles |-> t, active |-> a, tab |-> b], W)
           /\ Tiles([tiles |-> t, active |-> a, tab |-> b]) = ToSet(t)
<1>1. Len(t) \in Nat /\ t # <<>>
  OBVIOUS
<1> QED BY <1>1 DEF GoodColumn, ColumnType, Tiles

LEMMA SingleTile ==
    ASSUME NEW W, NEW w \in W
    PROVE  <<w>> \in Seq(W) /\ Len(<<w>>) = 1 /\ IsInjective(<<w>>) /\ ToSet(<<w>>) = {w}
<1> DEFINE s == <<w>>
<1>1. s \in Seq(W) /\ Len(s) = 1 /\ s[1] = w
  OBVIOUS
<1> HIDE DEF s
<1>2. IsInjective(s) /\ ToSet(s) = {w}
  <2>1. \A x : x \in ToSet(s) <=> \E i \in 1 .. 1 : s[i] = x
    BY <1>1, ToSetOf
  <2>2. \A i \in 1 .. 1 : i = 1
    OBVIOUS
  <2>3. ToSet(s) = {w}
    BY <1>1, <2>1, <2>2
  <2> QED BY <1>1, <2>2, <2>3, ToSetOf
<1> QED BY <1>1, <1>2 DEF s

LEMMA ColumnOfGood ==
    ASSUME NEW W, NEW w \in W
    PROVE  GoodColumn(ColumnOf(w), W) /\ Tiles(ColumnOf(w)) = {w}
<1> DEFINE s == <<w>>
<1>1. s \in Seq(W) /\ Len(s) = 1 /\ IsInjective(s) /\ ToSet(s) = {w}
  BY SingleTile
<1> HIDE DEF s
<1>2. GoodColumn([tiles |-> s, active |-> NoWindow, tab |-> 0], W)
      /\ Tiles([tiles |-> s, active |-> NoWindow, tab |-> 0]) = {w}
  <2>1. NoWindow \in W \cup {NoWindow} /\ 0 \in Nat /\ 0 <= Len(s) /\ Len(s) # 0
    BY <1>1
  <2> QED BY <1>1, <2>1, MakeColumn
<1> QED BY <1>2 DEF s, ColumnOf

\* Clamping repairs a tab that is out of range, and nothing else.
LEMMA ClampTabGood ==
    ASSUME NEW W, NEW t \in Seq(W), IsInjective(t), NEW a \in W \cup {NoWindow}, NEW b \in Nat
    PROVE  LET col == ClampTab([tiles |-> t, active |-> a, tab |-> b])
           IN  /\ col.tiles = t /\ col.active = a /\ col \in ColumnType(W)
               /\ t # <<>> => GoodColumn(col, W)
               /\ t # <<>> /\ b <= Len(t) => col = [tiles |-> t, active |-> a, tab |-> b]
<1> DEFINE col == [tiles |-> t, active |-> a, tab |-> b]
           n == IF b > 0 /\ b > Len(t) THEN IF t = <<>> THEN 1 ELSE Len(t) ELSE b
<1>1. Len(t) \in Nat /\ (t # <<>> => Len(t) # 0)
  BY EmptySeq
<1>2. ClampTab(col) = [tiles |-> t, active |-> a, tab |-> n]
  BY DEF ClampTab, Tabbed
<1>3. n \in Nat /\ (t # <<>> => n <= Len(t)) /\ (b <= Len(t) => n = b)
  BY <1>1
<1> HIDE DEF n
<1>4. [tiles |-> t, active |-> a, tab |-> n] \in ColumnType(W)
  BY <1>3 DEF ColumnType
<1>5. t # <<>> => GoodColumn([tiles |-> t, active |-> a, tab |-> n], W)
  BY <1>1, <1>3, MakeColumn
<1> QED BY <1>1, <1>2, <1>3, <1>4, <1>5

\* A good column is not clamped.
LEMMA ClampTabNothing ==
    ASSUME NEW W, NEW col, GoodColumn(col, W)
    PROVE  ClampTab(col) = col
BY ColumnFields DEF ClampTab

\* Selecting a tile: the tiles stay, the tile is remembered and, in a tabbed column, shown.
LEMMA SelectWindowGood ==
    ASSUME NEW W, NEW col, GoodColumn(col, W), NEW w
    PROVE  /\ GoodColumn(SelectWindow(col, w), W)
           /\ SelectWindow(col, w).tiles = col.tiles
           /\ w \notin Tiles(col) => SelectWindow(col, w) = col
           /\ w \in Tiles(col) => /\ SelectWindow(col, w).active = w
                                  /\ w \in VisibleTiles(SelectWindow(col, w))
           /\ Tabbed(SelectWindow(col, w)) <=> Tabbed(col)
<1> DEFINE t == col.tiles
           s == SelectWindow(col, w)
<1>1. /\ t \in Seq(W) /\ Len(t) \in Nat \ {0} /\ IsInjective(t) /\ col.tab \in Nat
      /\ col = [tiles |-> t, active |-> col.active, tab |-> col.tab]
  BY ColumnFields
<1>2. InSeq(t, w) <=> w \in Tiles(col)
  BY <1>1, InSeqOf DEF Tiles
<1>3. CASE w \notin Tiles(col)
  BY <1>2, <1>3 DEF SelectWindow
<1>4. CASE w \in Tiles(col)
  <2> DEFINE i == IndexIn(t, w)
             b == IF Tabbed(col) THEN i ELSE 0
  <2>1. i \in 1 .. Len(t) /\ t[i] = w /\ w \in W
    BY <1>1, <1>2, <1>4, IndexInProperties, InSeqOf
  <2>2. s = [tiles |-> t, active |-> w, tab |-> b]
    BY <1>1, <1>2, <1>4 DEF SelectWindow
  <2>3. b \in Nat /\ b <= Len(t) /\ (b > 0 <=> Tabbed(col))
    BY <1>1, <2>1 DEF Tabbed
  <2> HIDE DEF s, i
  <2>4. GoodColumn(s, W)
    BY <1>1, <2>1, <2>2, <2>3, MakeColumn
  <2>5. w \in VisibleTiles(s)
    <3>1. CASE Tabbed(col)
      <4>1. s.tiles = t /\ s.tab = i /\ Tabbed(s) /\ t # <<>>
        BY <1>1, <2>1, <2>2, <2>3, <3>1 DEF Tabbed
      <4>2. MinOf(i, Len(t)) = i
        BY <1>1, <2>1 DEF MinOf
      <4> QED BY <2>1, <4>1, <4>2 DEF VisibleTiles
    <3>2. CASE ~Tabbed(col)
      <4>1. s.tiles = t /\ ~Tabbed(s)
        BY <2>2, <2>3, <3>2 DEF Tabbed
      <4> QED BY <1>4, <4>1 DEF VisibleTiles, Tiles
    <3> QED BY <3>1, <3>2
  <2>6. Tabbed(s) <=> Tabbed(col)
    BY <2>2, <2>3 DEF Tabbed
  <2>7. s.tiles = t /\ s.active = w
    BY <2>2
  <2> QED BY <1>4, <2>4, <2>5, <2>6, <2>7 DEF s
<1> QED BY <1>3, <1>4

\* Without one of its tiles a column has the others; it is sound unless none is left.
LEMMA RemoveTileGood ==
    ASSUME NEW W, NEW col, GoodColumn(col, W), NEW w, w \in Tiles(col)
    PROVE  /\ RemoveTile(col, w) \in ColumnType(W)
           /\ Tiles(RemoveTile(col, w)) = Tiles(col) \ {w}
           /\ Len(RemoveTile(col, w).tiles) = Len(col.tiles) - 1
           /\ RemoveTile(col, w).tiles # <<>> => GoodColumn(RemoveTile(col, w), W)
<1> DEFINE t == col.tiles
           i == IndexIn(t, w)
           left == RemoveAt(t, i)
           next == IF left = <<>> THEN NoWindow ELSE left[MinOf(i, Len(left))]
           a == IF col.active = w THEN next ELSE col.active
           b == IF i < col.tab THEN col.tab - 1 ELSE col.tab
<1>1. /\ t \in Seq(W) /\ Len(t) \in Nat \ {0} /\ IsInjective(t) /\ col.tab \in Nat
      /\ col.active \in W \cup {NoWindow}
  BY ColumnFields
<1>2. i \in 1 .. Len(t) /\ t[i] = w
  BY <1>1, IndexInProperties, InSeqOf DEF Tiles
<1>3. /\ left \in Seq(W) /\ Len(left) = Len(t) - 1
      /\ IsInjective(left) /\ ToSet(left) = ToSet(t) \ {w}
  BY <1>1, <1>2, RemoveAtSet
<1>4. RemoveTile(col, w) = ClampTab([tiles |-> left, active |-> a, tab |-> b])
  BY <1>2 DEF RemoveTile
<1> HIDE DEF i, left
<1>5. next \in W \cup {NoWindow}
  <2>1. CASE left = <<>>
    BY <2>1
  <2>2. CASE left # <<>>
    <3>1. Len(left) \in Nat \ {0}
      BY <1>3, <2>2, EmptySeq
    <3>2. MinOf(i, Len(left)) \in 1 .. Len(left)
      BY <1>2, <3>1 DEF MinOf
    <3> QED BY <1>3, <2>2, <3>2, ElementOfSeq
  <2> QED BY <2>1, <2>2
<1>6. a \in W \cup {NoWindow} /\ b \in Nat
  BY <1>1, <1>2, <1>5
<1> HIDE DEF a, b
<1>7. /\ RemoveTile(col, w).tiles = left /\ RemoveTile(col, w) \in ColumnType(W)
      /\ left # <<>> => GoodColumn(RemoveTile(col, w), W)
  BY <1>3, <1>4, <1>6, ClampTabGood
<1> QED BY <1>3, <1>7 DEF Tiles

LEMMA AddTileGood ==
    ASSUME NEW W, NEW col, GoodColumn(col, W), NEW w \in W, w \notin Tiles(col)
    PROVE  GoodColumn(AddTile(col, w), W) /\ Tiles(AddTile(col, w)) = Tiles(col) \cup {w}
<1> DEFINE t == col.tiles
           u == Append(t, w)
<1>1. /\ t \in Seq(W) /\ Len(t) \in Nat \ {0} /\ IsInjective(t) /\ col.tab \in Nat
      /\ col.active \in W \cup {NoWindow} /\ col.tab <= Len(t)
      /\ col = [tiles |-> t, active |-> col.active, tab |-> col.tab]
  BY ColumnFields
<1>2. AddTile(col, w) = [tiles |-> u, active |-> col.active, tab |-> col.tab]
  <2>1. \A x : [col EXCEPT !.tiles = x] = [tiles |-> x, active |-> col.active, tab |-> col.tab]
    BY <1>1
  <2> QED BY <2>1 DEF AddTile
<1>3. /\ u \in Seq(W) /\ Len(u) = Len(t) + 1 /\ u[Len(t) + 1] = w
      /\ \A i \in 1 .. Len(t) : u[i] = t[i]
  BY <1>1, AppendProperties
<1> HIDE DEF u
<1>4. ToSet(u) = ToSet(t) \cup {w}
  <2>1. ASSUME NEW x \in ToSet(u) PROVE x \in ToSet(t) \cup {w}
    <3>1. PICK i \in 1 .. Len(t) + 1 : u[i] = x
      BY <1>3, <2>1, ToSetOf
    <3>2. CASE i \in 1 .. Len(t)
      BY <1>1, <1>3, <3>1, <3>2, ToSetOf
    <3>3. CASE i = Len(t) + 1
      BY <1>3, <3>1, <3>3
    <3> QED BY <1>1, <3>2, <3>3
  <2>2. ASSUME NEW x \in ToSet(t) PROVE x \in ToSet(u)
    <3>1. PICK i \in 1 .. Len(t) : t[i] = x
      BY <1>1, <2>2, ToSetOf
    <3>2. i \in 1 .. Len(u) /\ u[i] = x
      BY <1>1, <1>3, <3>1
    <3> QED BY <1>3, <3>2, ToSetOf
  <2>3. w \in ToSet(u)
    <3>1. Len(u) \in 1 .. Len(u) /\ u[Len(u)] = w
      BY <1>1, <1>3
    <3> QED BY <1>3, <3>1, ToSetOf
  <2> QED BY <2>1, <2>2, <2>3
<1>5. IsInjective(u)
  <2>1. ASSUME NEW i \in 1 .. Len(u), NEW j \in 1 .. Len(u), u[i] = u[j] PROVE i = j
    <3>1. CASE i \in 1 .. Len(t) /\ j \in 1 .. Len(t)
      BY <1>1, <1>3, <2>1, <3>1, ToSetOf
    <3>2. ASSUME NEW k \in 1 .. Len(t) PROVE u[k] # w
      BY <1>1, <1>3, ToSetOf DEF Tiles
    <3> QED BY <1>1, <1>3, <2>1, <3>1, <3>2
  <2> QED BY <1>3, <2>1, ToSetOf
<1> QED BY <1>1, <1>2, <1>3, <1>4, <1>5, MakeColumn DEF Tiles

\* A window put among the tiles of a column, wherever.
WithTileAt(col, i, w) == [col EXCEPT !.tiles = InsertAt(@, i, w)]

LEMMA InsertTileGood ==
    ASSUME NEW W, NEW col, GoodColumn(col, W), NEW w \in W, w \notin Tiles(col),
           NEW i \in 1 .. Len(col.tiles) + 1
    PROVE  /\ GoodColumn(WithTileAt(col, i, w), W)
           /\ Tiles(WithTileAt(col, i, w)) = Tiles(col) \cup {w}
<1> DEFINE t == col.tiles
           u == InsertAt(t, i, w)
<1>1. /\ t \in Seq(W) /\ Len(t) \in Nat \ {0} /\ IsInjective(t) /\ col.tab \in Nat
      /\ col.active \in W \cup {NoWindow} /\ col.tab <= Len(t)
      /\ col = [tiles |-> t, active |-> col.active, tab |-> col.tab]
  BY ColumnFields
<1>2. WithTileAt(col, i, w) = [tiles |-> u, active |-> col.active, tab |-> col.tab]
  BY <1>1 DEF WithTileAt
<1>3. u \in Seq(W) /\ Len(u) = Len(t) + 1 /\ ToSet(u) = ToSet(t) \cup {w} /\ IsInjective(u)
  BY <1>1, InsertAtSet DEF Tiles
<1> HIDE DEF u
<1> QED BY <1>1, <1>2, <1>3, MakeColumn DEF Tiles

\* Toggling between stacked and tabbed moves no tile.
LEMMA ToggleTabbedGood ==
    ASSUME NEW W, NEW col, GoodColumn(col, W), NEW w
    PROVE  GoodColumn(ToggleTabbed(col, w), W) /\ ToggleTabbed(col, w).tiles = col.tiles
<1>1. /\ col.tiles \in Seq(W) /\ Len(col.tiles) \in Nat \ {0} /\ IsInjective(col.tiles)
      /\ col.active \in W \cup {NoWindow}
      /\ col = [tiles |-> col.tiles, active |-> col.active, tab |-> col.tab]
  BY ColumnFields
<1>2. CASE Tabbed(col)
  <2>1. ToggleTabbed(col, w) = [tiles |-> col.tiles, active |-> col.active, tab |-> 0]
    BY <1>1, <1>2 DEF ToggleTabbed
  <2> QED BY <1>1, <2>1, MakeColumn
<1>3. CASE ~Tabbed(col)
  <2> DEFINE one == [tiles |-> col.tiles, active |-> col.active, tab |-> 1]
  <2>1. ToggleTabbed(col, w) = SelectWindow(one, w)
    BY <1>1, <1>3 DEF ToggleTabbed
  <2>2. GoodColumn(one, W) /\ one.tiles = col.tiles
    BY <1>1, MakeColumn
  <2> HIDE DEF one
  <2> QED BY <2>1, <2>2, SelectWindowGood
<1> QED BY <1>2, <1>3

----------------------------------------------------------------------------
(* Lists of columns. *)

LEMMA TilesInOf ==
    ASSUME NEW W, NEW cols \in Seq(ColumnType(W))
    PROVE  /\ \A x : x \in TilesIn(cols) <=> \E c \in 1 .. Len(cols) : x \in Tiles(cols[c])
           /\ TilesIn(cols) \subseteq W
<1>1. \A x : x \in TilesIn(cols) <=> \E c \in 1 .. Len(cols) : x \in Tiles(cols[c])
  BY DEF TilesIn
<1>2. ASSUME NEW c \in 1 .. Len(cols) PROVE Tiles(cols[c]) \subseteq W
  <2>1. cols[c] \in ColumnType(W)
    BY ElementOfSeq
  <2>2. cols[c].tiles \in Seq(W)
    BY <2>1 DEF ColumnType
  <2> QED BY <2>2, ToSetOf DEF Tiles
<1> QED BY <1>1, <1>2

LEMMA FindColumnProperties ==
    ASSUME NEW W, NEW ws \in StripType(W), GoodColumns(ws.columns, W), NEW w
    PROVE  /\ FindColumn(ws, w) \in 0 .. Len(ws.columns)
           /\ FindColumn(ws, w) = 0 <=> w \notin TilesIn(ws.columns)
           /\ w \in TilesIn(ws.columns) => /\ FindColumn(ws, w) \in 1 .. Len(ws.columns)
                                           /\ w \in Tiles(ws.columns[FindColumn(ws, w)])
           /\ \A c \in 1 .. Len(ws.columns) : w \in Tiles(ws.columns[c]) => FindColumn(ws, w) = c
           /\ Holds(ws, w) <=> w \in TilesIn(ws.columns)
           /\ WindowsOf(ws) = TilesIn(ws.columns)
<1> DEFINE cols == ws.columns
           I == {c \in 1 .. Len(cols) : InSeq(cols[c].tiles, w)}
           f == FindColumn(ws, w)
<1>1. cols \in Seq(ColumnType(W)) /\ Len(cols) \in Nat
  BY DEF StripType
<1>2. ASSUME NEW c \in 1 .. Len(cols) PROVE InSeq(cols[c].tiles, w) <=> w \in Tiles(cols[c])
  <2>1. cols[c] \in ColumnType(W)
    BY <1>1, ElementOfSeq
  <2>2. cols[c].tiles \in Seq(W)
    BY <2>1 DEF ColumnType
  <2> QED BY <2>2, InSeqOf DEF Tiles
<1>3. I \in SUBSET Nat
  OBVIOUS
<1>4. f = IF I # {} THEN Min(I) ELSE 0
  BY DEF FindColumn, SelectInSeq
<1>5. I # {} => Min(I) \in I
  BY <1>3, MinOfSet
<1>6. I # {} <=> w \in TilesIn(cols)
  BY <1>1, <1>2, TilesInOf
<1>7. WindowsOf(ws) = TilesIn(cols)
  BY DEF WindowsOf, TilesIn, Tiles
<1>8. \A c, d \in 1 .. Len(cols) : c # d => Tiles(cols[c]) \cap Tiles(cols[d]) = {}
  BY DEF GoodColumns
<1> HIDE DEF cols, f, I
<1>9. CASE I = {}
  <2>1. f = 0 /\ w \notin TilesIn(cols)
    BY <1>4, <1>6, <1>9
  <2>2. \A c \in 1 .. Len(cols) : w \notin Tiles(cols[c])
    BY <1>1, <2>1, TilesInOf
  <2> QED BY <1>1, <1>7, <2>1, <2>2 DEF cols, f, Holds
<1>10. CASE I # {}
  <2>1. f \in 1 .. Len(cols) /\ w \in Tiles(cols[f]) /\ w \in TilesIn(cols)
    BY <1>2, <1>4, <1>5, <1>6, <1>10 DEF I
  <2>2. f \in Nat \ {0}
    BY <2>1
  <2>3. \A c \in 1 .. Len(cols) : w \in Tiles(cols[c]) => f = c
    BY <1>8, <2>1
  <2> QED BY <1>1, <1>7, <2>1, <2>2, <2>3 DEF cols, f, Holds
<1> QED BY <1>9, <1>10

\* A column that shares no window with the others is inserted.
LEMMA InsertColumnGood ==
    ASSUME NEW W, NEW cols, GoodColumns(cols, W), NEW at \in 1 .. Len(cols) + 1,
           NEW col, GoodColumn(col, W), Tiles(col) \cap TilesIn(cols) = {}
    PROVE  /\ GoodColumns(InsertAt(cols, at, col), W)
           /\ TilesIn(InsertAt(cols, at, col)) = TilesIn(cols) \cup Tiles(col)
           /\ Len(InsertAt(cols, at, col)) = Len(cols) + 1
           /\ InsertAt(cols, at, col)[at] = col
           /\ \A c \in 1 .. Len(cols) :
                InsertAt(cols, at, col)[IF c < at THEN c ELSE c + 1] = cols[c]
<1> DEFINE new == InsertAt(cols, at, col)
           b(c) == IF c < at THEN c ELSE c - 1
           u(c) == IF c < at THEN c ELSE c + 1
<1>1. cols \in Seq(ColumnType(W)) /\ Len(cols) \in Nat /\ col \in ColumnType(W) /\ at \in Int
  BY DEF GoodColumns, GoodColumn
<1>2. /\ new \in Seq(ColumnType(W)) /\ Len(new) = Len(cols) + 1
      /\ \A c \in 1 .. Len(cols) + 1 :
            new[c] = IF c < at THEN cols[c] ELSE IF c = at THEN col ELSE cols[c - 1]
  BY <1>1, InsertAtProperties
<1> HIDE DEF new
<1>3. new[at] = col
  BY <1>1, <1>2
<1>4. ASSUME NEW c \in 1 .. Len(new), c # at PROVE b(c) \in 1 .. Len(cols) /\ new[c] = cols[b(c)]
  BY <1>1, <1>2, <1>4
<1>5. ASSUME NEW c \in 1 .. Len(cols) PROVE u(c) \in 1 .. Len(new) /\ new[u(c)] = cols[c]
  <2>1. CASE c < at
    BY <1>1, <1>2, <2>1
  <2>2. CASE c >= at
    <3>1. c + 1 \in 1 .. Len(cols) + 1 /\ ~(c + 1 < at) /\ c + 1 # at /\ (c + 1) - 1 = c
      BY <1>1, <2>2
    <3>2. u(c) = c + 1
      BY <1>1, <2>2
    <3> QED BY <1>2, <3>1, <3>2
  <2> QED BY <1>1, <2>1, <2>2
<1>6. \A c \in 1 .. Len(new) : GoodColumn(new[c], W)
  BY <1>3, <1>4 DEF GoodColumns
<1>7. ASSUME NEW c \in 1 .. Len(new), NEW d \in 1 .. Len(new), c # d
      PROVE  Tiles(new[c]) \cap Tiles(new[d]) = {}
  <2>1. ASSUME NEW e \in 1 .. Len(cols) PROVE Tiles(cols[e]) \cap Tiles(col) = {}
    <3>1. Tiles(cols[e]) \subseteq TilesIn(cols)
      BY <1>1, TilesInOf
    <3> QED BY <3>1
  <2>2. CASE c = at
    BY <1>3, <1>4, <1>7, <2>1, <2>2
  <2>3. CASE d = at
    BY <1>3, <1>4, <1>7, <2>1, <2>3
  <2>4. CASE c # at /\ d # at
    <3>1. b(c) # b(d)
      BY <1>1, <1>7, <2>4
    <3> QED BY <1>4, <2>4, <3>1 DEF GoodColumns
  <2> QED BY <2>2, <2>3, <2>4
<1>8. TilesIn(new) = TilesIn(cols) \cup Tiles(col)
  <2>1. ASSUME NEW x \in TilesIn(new) PROVE x \in TilesIn(cols) \cup Tiles(col)
    <3>1. PICK c \in 1 .. Len(new) : x \in Tiles(new[c])
      BY <1>2, <2>1, TilesInOf
    <3>2. c = at \/ (b(c) \in 1 .. Len(cols) /\ x \in Tiles(cols[b(c)]))
      BY <1>4, <3>1
    <3> QED BY <1>1, <1>3, <3>1, <3>2, TilesInOf
  <2>2. ASSUME NEW x \in TilesIn(cols) PROVE x \in TilesIn(new)
    <3>1. PICK c \in 1 .. Len(cols) : x \in Tiles(cols[c])
      BY <1>1, <2>2, TilesInOf
    <3>2. u(c) \in 1 .. Len(new) /\ x \in Tiles(new[u(c)])
      BY <1>5, <3>1
    <3> QED BY <1>2, <3>2, TilesInOf
  <2>3. at \in 1 .. Len(new)
    BY <1>1, <1>2
  <2>4. ASSUME NEW x \in Tiles(col) PROVE x \in TilesIn(new)
    BY <1>2, <1>3, <2>3, TilesInOf
  <2> QED BY <2>1, <2>2, <2>4
<1>9. \A c \in 1 .. Len(cols) : new[IF c < at THEN c ELSE c + 1] = cols[c]
  BY <1>5
<1>10. GoodColumns(new, W)
  BY <1>2, <1>6, <1>7 DEF GoodColumns
<1> QED BY <1>2, <1>3, <1>8, <1>9, <1>10 DEF new

LEMMA RemoveColumnGood ==
    ASSUME NEW W, NEW cols, GoodColumns(cols, W), NEW at \in 1 .. Len(cols)
    PROVE  /\ GoodColumns(RemoveAt(cols, at), W)
           /\ TilesIn(RemoveAt(cols, at)) = TilesIn(cols) \ Tiles(cols[at])
           /\ Len(RemoveAt(cols, at)) = Len(cols) - 1
           /\ \A c \in 1 .. Len(cols) - 1 :
                RemoveAt(cols, at)[c] = cols[IF c < at THEN c ELSE c + 1]
<1> DEFINE new == RemoveAt(cols, at)
           b(c) == IF c < at THEN c ELSE c + 1
           u(c) == IF c < at THEN c ELSE c - 1
<1>1. cols \in Seq(ColumnType(W)) /\ Len(cols) \in Nat /\ at \in Int
  BY DEF GoodColumns
<1>2. /\ new \in Seq(ColumnType(W)) /\ Len(new) = Len(cols) - 1
      /\ \A c \in 1 .. Len(cols) - 1 : new[c] = IF c < at THEN cols[c] ELSE cols[c + 1]
  BY <1>1, RemoveAtProperties
<1> HIDE DEF new
<1>4. ASSUME NEW c \in 1 .. Len(new)
      PROVE  b(c) \in 1 .. Len(cols) /\ b(c) # at /\ new[c] = cols[b(c)]
  BY <1>1, <1>2
<1>5. ASSUME NEW c \in 1 .. Len(cols), c # at PROVE u(c) \in 1 .. Len(new) /\ new[u(c)] = cols[c]
  <2>1. CASE c < at
    BY <1>1, <1>2, <2>1
  <2>2. CASE c > at
    <3>1. c - 1 \in 1 .. Len(cols) - 1 /\ ~(c - 1 < at) /\ (c - 1) + 1 = c
      BY <1>1, <2>2
    <3>2. u(c) = c - 1
      BY <1>1, <2>2
    <3> QED BY <1>2, <3>1, <3>2
  <2> QED BY <1>1, <1>5, <2>1, <2>2
<1>6. \A c \in 1 .. Len(new) : GoodColumn(new[c], W)
  BY <1>4 DEF GoodColumns
<1>7. ASSUME NEW c \in 1 .. Len(new), NEW d \in 1 .. Len(new), c # d
      PROVE  Tiles(new[c]) \cap Tiles(new[d]) = {}
  <2>1. b(c) # b(d)
    BY <1>1, <1>7
  <2> QED BY <1>4, <2>1 DEF GoodColumns
<1>8. TilesIn(new) = TilesIn(cols) \ Tiles(cols[at])
  <2>1. ASSUME NEW x \in TilesIn(new) PROVE x \in TilesIn(cols) \ Tiles(cols[at])
    <3>1. PICK c \in 1 .. Len(new) : x \in Tiles(new[c])
      BY <1>2, <2>1, TilesInOf
    <3>2. b(c) \in 1 .. Len(cols) /\ x \in Tiles(cols[b(c)]) /\ b(c) # at
      BY <1>4, <3>1
    <3>3. x \in TilesIn(cols)
      BY <1>1, <3>2, TilesInOf
    <3> QED BY <3>2, <3>3 DEF GoodColumns
  <2>2. ASSUME NEW x \in TilesIn(cols), x \notin Tiles(cols[at]) PROVE x \in TilesIn(new)
    <3>1. PICK c \in 1 .. Len(cols) : x \in Tiles(cols[c])
      BY <1>1, <2>2, TilesInOf
    <3>2. u(c) \in 1 .. Len(new) /\ x \in Tiles(new[u(c)])
      BY <1>5, <2>2, <3>1
    <3> QED BY <1>2, <3>2, TilesInOf
  <2> QED BY <2>1, <2>2
<1>9. \A c \in 1 .. Len(cols) - 1 : new[c] = cols[IF c < at THEN c ELSE c + 1]
  BY <1>2, <1>4
<1>10. GoodColumns(new, W)
  BY <1>2, <1>6, <1>7 DEF GoodColumns
<1> QED BY <1>2, <1>8, <1>9, <1>10 DEF new

\* Several columns are replaced at once: sound ones, that share no window with each other.
LEMMA ReplaceColumnsGood ==
    ASSUME NEW W, NEW cols, GoodColumns(cols, W), NEW new,
           new \in Seq(ColumnType(W)), Len(new) = Len(cols),
           \A c \in 1 .. Len(cols) : new[c] = cols[c] \/ GoodColumn(new[c], W),
           \A c, d \in 1 .. Len(cols) : c # d => Tiles(new[c]) \cap Tiles(new[d]) = {}
    PROVE  GoodColumns(new, W)
BY DEF GoodColumns

LEMMA ReplaceColumnGood ==
    ASSUME NEW W, NEW cols, GoodColumns(cols, W), NEW at \in 1 .. Len(cols),
           NEW col, GoodColumn(col, W),
           \A x \in Tiles(col) : x \in TilesIn(cols) => x \in Tiles(cols[at])
    PROVE  /\ GoodColumns(ReplaceAt(cols, at, col), W)
           /\ TilesIn(ReplaceAt(cols, at, col)) = (TilesIn(cols) \ Tiles(cols[at])) \cup Tiles(col)
           /\ Len(ReplaceAt(cols, at, col)) = Len(cols)
           /\ \A c \in 1 .. Len(cols) : ReplaceAt(cols, at, col)[c] = IF c = at THEN col ELSE cols[c]
<1> DEFINE new == ReplaceAt(cols, at, col)
<1>1. cols \in Seq(ColumnType(W)) /\ Len(cols) \in Nat /\ col \in ColumnType(W)
  BY DEF GoodColumns, GoodColumn
<1>2. /\ new \in Seq(ColumnType(W)) /\ Len(new) = Len(cols)
      /\ \A c \in 1 .. Len(cols) : new[c] = IF c = at THEN col ELSE cols[c]
  BY <1>1, ExceptSeq DEF ReplaceAt
<1> HIDE DEF new
<1>3. ASSUME NEW c \in 1 .. Len(cols), c # at
      PROVE  Tiles(cols[c]) \cap Tiles(col) = {} /\ Tiles(cols[c]) \cap Tiles(cols[at]) = {}
  <2>1. Tiles(cols[c]) \subseteq TilesIn(cols) /\ Tiles(cols[c]) \cap Tiles(cols[at]) = {}
    BY <1>1, <1>3, TilesInOf DEF GoodColumns
  <2> QED BY <2>1
<1>4. GoodColumns(new, W)
  <2>1. ASSUME NEW c \in 1 .. Len(cols), NEW d \in 1 .. Len(cols), c # d
        PROVE  Tiles(new[c]) \cap Tiles(new[d]) = {}
    <3>1. CASE c = at
      BY <1>2, <1>3, <2>1, <3>1
    <3>2. CASE d = at
      BY <1>2, <1>3, <2>1, <3>2
    <3>3. CASE c # at /\ d # at
      BY <1>2, <2>1, <3>3 DEF GoodColumns
    <3> QED BY <3>1, <3>2, <3>3
  <2> QED BY <1>2, <2>1, ReplaceColumnsGood
<1>5. TilesIn(new) = (TilesIn(cols) \ Tiles(cols[at])) \cup Tiles(col)
  <2>1. ASSUME NEW x \in TilesIn(new) PROVE x \in (TilesIn(cols) \ Tiles(cols[at])) \cup Tiles(col)
    <3>1. PICK c \in 1 .. Len(cols) : x \in Tiles(new[c])
      BY <1>2, <2>1, TilesInOf
    <3>2. CASE c = at
      BY <1>2, <3>1, <3>2
    <3>3. CASE c # at
      <4>1. x \in Tiles(cols[c]) /\ x \notin Tiles(cols[at])
        BY <1>2, <1>3, <3>1, <3>3
      <4> QED BY <1>1, <4>1, TilesInOf
    <3> QED BY <3>2, <3>3
  <2>2. ASSUME NEW x \in TilesIn(cols), x \notin Tiles(cols[at]) PROVE x \in TilesIn(new)
    <3>1. PICK c \in 1 .. Len(cols) : x \in Tiles(cols[c])
      BY <1>1, <2>2, TilesInOf
    <3>2. new[c] = cols[c]
      BY <1>2, <2>2, <3>1
    <3> QED BY <1>2, <3>1, <3>2, TilesInOf
  <2>3. ASSUME NEW x \in Tiles(col) PROVE x \in TilesIn(new)
    BY <1>2, <2>3, TilesInOf
  <2> QED BY <2>1, <2>2, <2>3
<1> QED BY <1>2, <1>4, <1>5 DEF new

----------------------------------------------------------------------------
(* The strip: what its columns are, and what it remembers. *)

LEMMA StripFields ==
    ASSUME NEW W, NEW ws, GoodStrip(ws, W)
    PROVE  /\ ws \in StripType(W) /\ GoodColumns(ws.columns, W)
           /\ ws.columns \in Seq(ColumnType(W)) /\ Len(ws.columns) \in Nat
           /\ ws.active \in W \cup {NoWindow} /\ ws.named \in BOOLEAN
           /\ \A c \in 1 .. Len(ws.columns) : GoodColumn(ws.columns[c], W)
           /\ WindowsOf(ws) = TilesIn(ws.columns) /\ WindowsOf(ws) \subseteq W
           /\ DOMAIN ws.columns = 1 .. Len(ws.columns)
           /\ ws.columns = <<>> <=> Len(ws.columns) = 0
           /\ ws.columns = <<>> <=> WindowsOf(ws) = {}
<1>1. /\ ws \in StripType(W) /\ GoodColumns(ws.columns, W)
      /\ ws.columns \in Seq(ColumnType(W)) /\ Len(ws.columns) \in Nat
      /\ ws.active \in W \cup {NoWindow} /\ ws.named \in BOOLEAN
      /\ \A c \in 1 .. Len(ws.columns) : GoodColumn(ws.columns[c], W)
  BY DEF GoodStrip, GoodColumns, StripType
<1>2. WindowsOf(ws) = TilesIn(ws.columns)
  BY <1>1, FindColumnProperties
<1>3. WindowsOf(ws) \subseteq W
  BY <1>1, <1>2, TilesInOf
<1>4. DOMAIN ws.columns = 1 .. Len(ws.columns)
  BY <1>1, LenProperties
<1>5. ws.columns = <<>> <=> Len(ws.columns) = 0
  BY <1>1, EmptySeq
<1>6. ws.columns = <<>> <=> WindowsOf(ws) = {}
  <2>1. ASSUME Len(ws.columns) # 0 PROVE TilesIn(ws.columns) # {}
    <3>1. 1 \in 1 .. Len(ws.columns)
      BY <1>1, <2>1
    <3>2. PICK x : x \in Tiles(ws.columns[1])
      BY <1>1, <3>1, ColumnFields
    <3> QED BY <1>1, <3>1, <3>2, TilesInOf
  <2>2. ASSUME Len(ws.columns) = 0 PROVE TilesIn(ws.columns) = {}
    BY <1>1, <2>2, TilesInOf
  <2> QED BY <1>2, <1>5, <2>1, <2>2
<1> QED BY <1>1, <1>2, <1>3, <1>4, <1>5, <1>6

\* A workspace with other columns.
LEMMA WithColumns ==
    ASSUME NEW W, NEW ws, GoodStrip(ws, W), NEW cols, GoodColumns(cols, W)
    PROVE  /\ GoodStrip([ws EXCEPT !.columns = cols], W)
           /\ [ws EXCEPT !.columns = cols].columns = cols
           /\ [ws EXCEPT !.columns = cols].active = ws.active
           /\ [ws EXCEPT !.columns = cols].named = ws.named
           /\ WindowsOf([ws EXCEPT !.columns = cols]) = TilesIn(cols)
<1> DEFINE new == [ws EXCEPT !.columns = cols]
<1>1. new = [columns |-> cols, active |-> ws.active, named |-> ws.named]
  BY DEF GoodStrip, StripType
<1>2. new \in StripType(W) /\ new.columns = cols
  BY <1>1 DEF GoodStrip, StripType, GoodColumns
<1> HIDE DEF new
<1>3. GoodStrip(new, W)
  BY <1>2 DEF GoodStrip
<1> QED BY <1>1, <1>2, <1>3, StripFields DEF new

\* The same windows in the same places: only tabs and what is remembered may differ.
SamePlaces(a, b) ==
    /\ Len(a.columns) = Len(b.columns)
    /\ \A c \in 1 .. Len(b.columns) : a.columns[c].tiles = b.columns[c].tiles

LEMMA SamePlacesFind ==
    ASSUME NEW W, NEW a, NEW b, GoodStrip(a, W), GoodStrip(b, W), SamePlaces(a, b)
    PROVE  /\ WindowsOf(a) = WindowsOf(b)
           /\ \A x : Holds(a, x) <=> Holds(b, x)
           /\ \A x : FindColumn(a, x) = FindColumn(b, x)
<1>1. \A c \in 1 .. Len(b.columns) : Tiles(a.columns[c]) = Tiles(b.columns[c])
  BY DEF SamePlaces, Tiles
<1>2. Len(a.columns) = Len(b.columns)
  BY DEF SamePlaces
<1>3. /\ a.columns \in Seq(ColumnType(W)) /\ b.columns \in Seq(ColumnType(W))
      /\ WindowsOf(a) = TilesIn(a.columns) /\ WindowsOf(b) = TilesIn(b.columns)
      /\ a \in StripType(W) /\ b \in StripType(W)
      /\ GoodColumns(a.columns, W) /\ GoodColumns(b.columns, W)
  BY StripFields
<1>4. \A x : x \in TilesIn(a.columns) <=> x \in TilesIn(b.columns)
  BY <1>1, <1>2, <1>3, TilesInOf
<1>5. ASSUME NEW x PROVE (Holds(a, x) <=> Holds(b, x)) /\ FindColumn(a, x) = FindColumn(b, x)
  <2>1. (Holds(a, x) <=> x \in TilesIn(a.columns)) /\ (Holds(b, x) <=> x \in TilesIn(b.columns))
    BY <1>3, FindColumnProperties
  <2>2. CASE x \notin TilesIn(b.columns)
    <3>1. FindColumn(a, x) = 0 /\ FindColumn(b, x) = 0
      BY <1>3, <1>4, <2>2, FindColumnProperties
    <3> QED BY <1>4, <2>1, <3>1
  <2>3. CASE x \in TilesIn(b.columns)
    <3>1. FindColumn(b, x) \in 1 .. Len(b.columns) /\ x \in Tiles(b.columns[FindColumn(b, x)])
      BY <1>3, <2>3, FindColumnProperties
    <3>2. FindColumn(b, x) \in 1 .. Len(a.columns) /\ x \in Tiles(a.columns[FindColumn(b, x)])
      BY <1>1, <1>2, <3>1
    <3>3. FindColumn(a, x) = FindColumn(b, x)
      BY <1>3, <3>2, FindColumnProperties
    <3> QED BY <1>4, <2>1, <3>3
  <2> QED BY <2>2, <2>3
<1>6. WindowsOf(a) = WindowsOf(b)
  <2>1. TilesIn(a.columns) = TilesIn(b.columns)
    BY <1>4
  <2> QED BY <1>3, <2>1
<1>7. \A x : (Holds(a, x) <=> Holds(b, x)) /\ FindColumn(a, x) = FindColumn(b, x)
  BY <1>5, Zenon
<1> QED BY <1>6, <1>7, Zenon

\* Finding a window of the strip, in the terms of the strip.
LEMMA Finding ==
    ASSUME NEW W, NEW ws, GoodStrip(ws, W), NEW w
    PROVE  /\ Holds(ws, w) <=> w \in WindowsOf(ws)
           /\ FindColumn(ws, w) \in 0 .. Len(ws.columns)
           /\ FindColumn(ws, w) = 0 <=> w \notin WindowsOf(ws)
           /\ w \in WindowsOf(ws) =>
                /\ FindColumn(ws, w) \in 1 .. Len(ws.columns)
                /\ GoodColumn(ws.columns[FindColumn(ws, w)], W)
                /\ w \in Tiles(ws.columns[FindColumn(ws, w)]) /\ w \in W
           /\ \A c \in 1 .. Len(ws.columns) :
                w \in Tiles(ws.columns[c]) => w \in WindowsOf(ws) /\ FindColumn(ws, w) = c
<1>1. /\ ws \in StripType(W) /\ GoodColumns(ws.columns, W)
      /\ WindowsOf(ws) = TilesIn(ws.columns) /\ WindowsOf(ws) \subseteq W
      /\ ws.columns \in Seq(ColumnType(W))
      /\ \A c \in 1 .. Len(ws.columns) : GoodColumn(ws.columns[c], W)
  BY StripFields
<1>2. \A c \in 1 .. Len(ws.columns) : w \in Tiles(ws.columns[c]) => w \in WindowsOf(ws)
  BY <1>1, TilesInOf
<1> QED BY <1>1, <1>2, FindColumnProperties

\* Remembering a window selects it in its column, and moves nothing.
LEMMA RememberFocusGood ==
    ASSUME NEW W, NEW ws, GoodStrip(ws, W), NEW w
    PROVE  /\ GoodStrip(RememberFocus(ws, w), W) /\ SamePlaces(RememberFocus(ws, w), ws)
           /\ RememberFocus(ws, w).named = ws.named
           /\ w \notin WindowsOf(ws) => RememberFocus(ws, w) = ws
           /\ w \in WindowsOf(ws) =>
                /\ RememberFocus(ws, w).active = w
                /\ \A c \in 1 .. Len(ws.columns) :
                        RememberFocus(ws, w).columns[c] = SelectWindow(ws.columns[c], w)
<1> DEFINE c == FindColumn(ws, w)
           cols == ws.columns
           new == [cols EXCEPT ![c] = SelectWindow(@, w)]
<1>1. /\ ws \in StripType(W) /\ GoodColumns(cols, W) /\ cols \in Seq(ColumnType(W))
      /\ ws.active \in W \cup {NoWindow} /\ ws.named \in BOOLEAN
  BY StripFields
<1>2. CASE w \notin WindowsOf(ws)
  <2>1. RememberFocus(ws, w) = ws
    BY <1>2, Finding DEF RememberFocus
  <2> QED BY <1>2, <2>1 DEF SamePlaces
<1>3. CASE w \in WindowsOf(ws)
  <2>1. c \in 1 .. Len(cols) /\ GoodColumn(cols[c], W) /\ w \in Tiles(cols[c]) /\ w \in W /\ Holds(ws, w)
    BY <1>3, Finding
  <2>2. \A d \in 1 .. Len(cols) : d # c => w \notin Tiles(cols[d])
    BY Finding
  <2> DEFINE r == RememberFocus(ws, w)
             col == SelectWindow(cols[c], w)
  <2>3. r = [columns |-> ReplaceAt(cols, c, col), active |-> w, named |-> ws.named]
    BY <1>1, <2>1 DEF RememberFocus, StripType, ReplaceAt
  <2> HIDE DEF r, c
  <2>4. GoodColumn(col, W) /\ col.tiles = cols[c].tiles /\ Tiles(col) = Tiles(cols[c])
    BY <2>1, SelectWindowGood DEF Tiles
  <2> HIDE DEF col
  <2>5. /\ GoodColumns(ReplaceAt(cols, c, col), W)
        /\ Len(ReplaceAt(cols, c, col)) = Len(cols)
        /\ \A d \in 1 .. Len(cols) : ReplaceAt(cols, c, col)[d] = IF d = c THEN col ELSE cols[d]
    BY <1>1, <2>1, <2>4, ReplaceColumnGood
  <2>6. r \in StripType(W) /\ r.columns = ReplaceAt(cols, c, col) /\ r.active = w /\ r.named = ws.named
    BY <1>1, <2>1, <2>3, <2>5 DEF StripType, GoodColumns
  <2>7. GoodStrip(r, W)
    BY <2>5, <2>6 DEF GoodStrip
  <2>8. SamePlaces(r, ws)
    BY <2>4, <2>5, <2>6 DEF SamePlaces
  <2>9. ASSUME NEW d \in 1 .. Len(cols) PROVE r.columns[d] = SelectWindow(cols[d], w)
    <3>1. CASE d = c
      BY <2>5, <2>6, <3>1 DEF col
    <3>2. CASE d # c
      <4>1. GoodColumn(cols[d], W) /\ w \notin Tiles(cols[d])
        BY <1>1, <2>2, <3>2 DEF GoodColumns
      <4>2. SelectWindow(cols[d], w) = cols[d]
        BY <4>1, SelectWindowGood
      <4> QED BY <2>5, <2>6, <3>2, <4>2
    <3> QED BY <3>1, <3>2
  <2> QED BY <1>3, <2>6, <2>7, <2>8, <2>9 DEF r
<1> QED BY <1>2, <1>3

\* A sound column always has an active tile.
LEMMA ActiveGood ==
    ASSUME NEW W, NEW col, GoodColumn(col, W)
    PROVE  ActiveTile(col) \in Tiles(col) /\ ActiveWindow(col) \in Tiles(col)
<1>1. col.tiles \in Seq(W) /\ Len(col.tiles) \in Nat \ {0} /\ col.tab \in Nat /\ col.tab <= Len(col.tiles)
  BY ColumnFields
<1>2. ActiveTile(col) \in Tiles(col)
  <2>1. InSeq(col.tiles, col.active) => col.active \in Tiles(col)
    BY <1>1, InSeqOf DEF Tiles
  <2>2. col.tiles[1] \in Tiles(col) /\ col.tiles # <<>>
    BY <1>1, ToSetOf DEF Tiles
  <2> QED BY <2>1, <2>2 DEF ActiveTile
<1>3. Tabbed(col) => col.tab \in DOMAIN col.tiles /\ col.tiles[col.tab] \in Tiles(col)
  BY <1>1, ToSetOf DEF Tabbed, Tiles
<1> QED BY <1>2, <1>3 DEF ActiveWindow

LEMMA RememberedGood ==
    ASSUME NEW W, NEW ws, GoodStrip(ws, W)
    PROVE  RememberedFocus(ws) = NoWindow \/ RememberedFocus(ws) \in WindowsOf(ws)
<1>1. CASE Holds(ws, ws.active)
  BY <1>1, Finding DEF RememberedFocus
<1>2. CASE ~Holds(ws, ws.active) /\ ws.columns # <<>>
  <2>1. 1 \in 1 .. Len(ws.columns) /\ GoodColumn(ws.columns[1], W)
    BY <1>2, StripFields
  <2>2. ActiveTile(ws.columns[1]) \in Tiles(ws.columns[1])
    BY <2>1, ActiveGood
  <2>3. ActiveTile(ws.columns[1]) \in WindowsOf(ws)
    BY <2>1, <2>2, Finding
  <2> QED BY <1>2, <2>3 DEF RememberedFocus
<1>3. CASE ~Holds(ws, ws.active) /\ ws.columns = <<>>
  BY <1>3 DEF RememberedFocus
<1> QED BY <1>1, <1>2, <1>3

\* A strip that is not empty has a window it remembers.
LEMMA RememberedSomething ==
    ASSUME NEW W, NoWindow \notin W, NEW ws, GoodStrip(ws, W), ws.columns # <<>>
    PROVE  RememberedFocus(ws) # NoWindow /\ RememberedFocus(ws) \in WindowsOf(ws)
<1>1. CASE Holds(ws, ws.active)
  <2>1. ws.active \in WindowsOf(ws) /\ ws.active \in W
    BY <1>1, Finding
  <2> QED BY <1>1, <2>1 DEF RememberedFocus
<1>2. CASE ~Holds(ws, ws.active)
  <2>1. 1 \in 1 .. Len(ws.columns) /\ GoodColumn(ws.columns[1], W)
    BY StripFields
  <2>2. ActiveTile(ws.columns[1]) \in Tiles(ws.columns[1])
    BY <2>1, ActiveGood
  <2>3. ActiveTile(ws.columns[1]) \in WindowsOf(ws) /\ ActiveTile(ws.columns[1]) \in W
    BY <2>1, <2>2, Finding
  <2> QED BY <1>2, <2>3 DEF RememberedFocus
<1> QED BY <1>1, <1>2

----------------------------------------------------------------------------
(* Inserting into a strip and removing from it. *)

LEMMA InsertColumnInStrip ==
    ASSUME NEW W, NEW ws, GoodStrip(ws, W), NEW at \in 1 .. Len(ws.columns) + 1,
           NEW col, GoodColumn(col, W), Tiles(col) \cap WindowsOf(ws) = {}
    PROVE  /\ GoodStrip(InsertColumn(ws, at, col), W)
           /\ WindowsOf(InsertColumn(ws, at, col)) = WindowsOf(ws) \cup Tiles(col)
           /\ InsertColumn(ws, at, col).named = ws.named
<1> DEFINE new == InsertAt(ws.columns, at, col)
<1>1. GoodColumns(ws.columns, W) /\ WindowsOf(ws) = TilesIn(ws.columns)
  BY StripFields
<1>2. GoodColumns(new, W) /\ TilesIn(new) = TilesIn(ws.columns) \cup Tiles(col)
  BY <1>1, InsertColumnGood
<1>3. InsertColumn(ws, at, col) = [ws EXCEPT !.columns = new]
  BY DEF InsertColumn
<1> HIDE DEF new
<1> QED BY <1>1, <1>2, <1>3, WithColumns

LEMMA AfterActiveInRange ==
    ASSUME NEW W, NEW ws, GoodStrip(ws, W)
    PROVE  AfterActive(ws) \in 1 .. Len(ws.columns) + 1
<1>1. FindColumn(ws, ws.active) \in 0 .. Len(ws.columns) /\ Len(ws.columns) \in Nat
  BY Finding, StripFields
<1> QED BY <1>1 DEF AfterActive

\* A window that is not in the strip is put in a column of its own, and remembered.
LEMMA InsertAfterActiveGood ==
    ASSUME NEW W, NEW ws, GoodStrip(ws, W), NEW w \in W, w \notin WindowsOf(ws)
    PROVE  /\ GoodStrip(InsertAfterActive(ws, w), W)
           /\ WindowsOf(InsertAfterActive(ws, w)) = WindowsOf(ws) \cup {w}
           /\ InsertAfterActive(ws, w).named = ws.named
<1> DEFINE mid == InsertColumn(ws, AfterActive(ws), ColumnOf(w))
<1>1. GoodColumn(ColumnOf(w), W) /\ Tiles(ColumnOf(w)) = {w}
  BY ColumnOfGood
<1>2. GoodStrip(mid, W) /\ WindowsOf(mid) = WindowsOf(ws) \cup {w} /\ mid.named = ws.named
  BY <1>1, AfterActiveInRange, InsertColumnInStrip
<1>3. InsertAfterActive(ws, w) = RememberFocus(mid, w)
  BY DEF InsertAfterActive
<1> HIDE DEF mid
<1>4. /\ GoodStrip(RememberFocus(mid, w), W) /\ SamePlaces(RememberFocus(mid, w), mid)
      /\ RememberFocus(mid, w).named = mid.named
  BY <1>2, RememberFocusGood
<1> QED BY <1>2, <1>3, <1>4, SamePlacesFind

\* A column is written back with fewer tiles, and goes when it has none.
LEMMA PutColumnGood ==
    ASSUME NEW W, NEW cols, GoodColumns(cols, W), NEW c \in 1 .. Len(cols),
           NEW col \in ColumnType(W), col.tiles # <<>> => GoodColumn(col, W),
           Tiles(col) \subseteq Tiles(cols[c])
    PROVE  /\ GoodColumns(PutColumn(cols, c, col), W)
           /\ TilesIn(PutColumn(cols, c, col)) = (TilesIn(cols) \ Tiles(cols[c])) \cup Tiles(col)
<1>1. CASE col.tiles = <<>>
  <2>1. Tiles(col) = {}
    BY <1>1 DEF Tiles, ToSet
  <2> QED BY <1>1, <2>1, RemoveColumnGood DEF PutColumn
<1>2. CASE col.tiles # <<>>
  <2>1. \A x \in Tiles(col) : x \in TilesIn(cols) => x \in Tiles(cols[c])
    OBVIOUS
  <2>2. GoodColumn(col, W) /\ PutColumn(cols, c, col) = ReplaceAt(cols, c, col)
    BY <1>2 DEF PutColumn, ReplaceAt
  <2>3. /\ GoodColumns(ReplaceAt(cols, c, col), W)
        /\ TilesIn(ReplaceAt(cols, c, col)) = (TilesIn(cols) \ Tiles(cols[c])) \cup Tiles(col)
        /\ Len(ReplaceAt(cols, c, col)) = Len(cols)
    BY <2>1, <2>2, ReplaceColumnGood
  <2> QED BY <2>2, <2>3
<1> QED BY <1>1, <1>2

\* A window is taken out of the strip; the strip forgets nothing else.
LEMMA RemoveFromStripGood ==
    ASSUME NEW W, NEW ws, GoodStrip(ws, W), NEW w
    PROVE  /\ GoodStrip(RemoveFromStrip(ws, w), W)
           /\ WindowsOf(RemoveFromStrip(ws, w)) = WindowsOf(ws) \ {w}
           /\ RemoveFromStrip(ws, w).named = ws.named
           /\ w \notin WindowsOf(ws) => RemoveFromStrip(ws, w) = ws
<1> DEFINE c == FindColumn(ws, w)
           cols == ws.columns
           col == RemoveTile(cols[c], w)
           new == PutColumn(cols, c, col)
<1>1. CASE w \notin WindowsOf(ws)
  BY <1>1, Finding DEF RemoveFromStrip
<1>2. CASE w \in WindowsOf(ws)
  <2>1. /\ c \in 1 .. Len(cols) /\ GoodColumn(cols[c], W) /\ w \in Tiles(cols[c])
        /\ GoodColumns(cols, W) /\ WindowsOf(ws) = TilesIn(cols)
        /\ \A d \in 1 .. Len(cols) : w \in Tiles(cols[d]) => d = c
    BY <1>2, Finding, StripFields
  <2>2. RemoveFromStrip(ws, w) = [ws EXCEPT !.columns = new]
    BY <2>1 DEF RemoveFromStrip
  <2> HIDE DEF c
  <2>3. /\ col \in ColumnType(W) /\ Tiles(col) = Tiles(cols[c]) \ {w}
        /\ col.tiles # <<>> => GoodColumn(col, W)
    BY <2>1, RemoveTileGood
  <2> HIDE DEF col
  <2>4. GoodColumns(new, W) /\ TilesIn(new) = (TilesIn(cols) \ Tiles(cols[c])) \cup Tiles(col)
    BY <2>1, <2>3, PutColumnGood
  <2>5. Tiles(cols[c]) \subseteq TilesIn(cols)
    BY <2>1, TilesInOf DEF GoodColumns
  <2>6. TilesIn(new) = TilesIn(cols) \ {w}
    BY <2>1, <2>3, <2>4, <2>5
  <2> HIDE DEF new
  <2> QED BY <1>2, <2>1, <2>2, <2>4, <2>6, WithColumns
<1> QED BY <1>1, <1>2

----------------------------------------------------------------------------
(* A minimized window comes back. *)

\* What the slot of a minimized window holds.
SlotType(W) == [window : W, column : Nat \ {0}, index : Nat \ {0}, tabbed : BOOLEAN,
                above : Seq(W), below : Seq(W), left : Seq(W), right : Seq(W)]

\* The first window of a list that is in the strip.
LEMMA FirstPresentProperties ==
    ASSUME NEW W, NEW ws, GoodStrip(ws, W), NEW list \in Seq(W)
    PROVE  /\ FirstPresent(ws, list) \in 0 .. Len(list)
           /\ FirstPresent(ws, list) # 0 => list[FirstPresent(ws, list)] \in WindowsOf(ws)
<1> DEFINE I == {i \in 1 .. Len(list) : Holds(ws, list[i])}
           f == FirstPresent(ws, list)
<1>1. I \in SUBSET Nat /\ Len(list) \in Nat
  OBVIOUS
<1>2. f = IF I # {} THEN Min(I) ELSE 0
  BY DEF FirstPresent, SelectInSeq
<1>3. I # {} => Min(I) \in I
  BY <1>1, MinOfSet
<1>4. \A i \in I : i \in 1 .. Len(list) /\ Holds(ws, list[i])
  OBVIOUS
<1> HIDE DEF I, f
<1>5. f \in 0 .. Len(list) /\ (f # 0 => Holds(ws, list[f]))
  <2>1. CASE I = {}
    BY <1>1, <1>2, <2>1
  <2>2. CASE I # {}
    <3>1. f \in I
      BY <1>2, <1>3, <2>2
    <3>2. f \in 1 .. Len(list) /\ Holds(ws, list[f])
      BY <1>4, <3>1
    <3> QED BY <1>1, <3>2
  <2> QED BY <2>1, <2>2
<1>6. f # 0 => list[f] \in WindowsOf(ws)
  BY <1>5, Finding
<1> QED BY <1>5, <1>6 DEF f

\* The first window of a list that is among some tiles.
LEMMA FirstTileProperties ==
    ASSUME NEW W, NEW tiles \in Seq(W), NEW list \in Seq(W)
    PROVE  LET a == SelectInSeq(list, LAMBDA w : InSeq(tiles, w))
           IN  /\ a \in 0 .. Len(list)
               /\ a # 0 => list[a] \in ToSet(tiles)
               /\ a = 0 <=> \A j \in 1 .. Len(list) : list[j] \notin ToSet(tiles)
<1> DEFINE I == {i \in 1 .. Len(list) : InSeq(tiles, list[i])}
           f == SelectInSeq(list, LAMBDA w : InSeq(tiles, w))
<1>1. I \in SUBSET Nat /\ Len(list) \in Nat
  OBVIOUS
<1>2. f = IF I # {} THEN Min(I) ELSE 0
  BY DEF SelectInSeq
<1>3. I # {} => Min(I) \in I
  BY <1>1, MinOfSet
<1>4. \A i : i \in I <=> i \in 1 .. Len(list) /\ list[i] \in ToSet(tiles)
  BY InSeqOf
<1> HIDE DEF I
<1> QED BY <1>1, <1>2, <1>3, <1>4

\* Next to a neighbour that is there, there is a place among the tiles.
LEMMA RejoinAtInRange ==
    ASSUME NEW W, NEW tiles \in Seq(W), NEW slot \in SlotType(W),
           NEW mate \in ToSet(tiles),
           NEW m \in 1 .. Len(slot.above \o slot.below), mate = (slot.above \o slot.below)[m]
    PROVE  RejoinAt(tiles, slot) \in 1 .. Len(tiles) + 1
<1> DEFINE above == slot.above
           below == slot.below
           a == SelectInSeq(above, LAMBDA w : InSeq(tiles, w))
           b == SelectInSeq(below, LAMBDA w : InSeq(tiles, w))
<1>1. above \in Seq(W) /\ below \in Seq(W) /\ Len(tiles) \in Nat
  BY DEF SlotType
<1>2. /\ a \in 0 .. Len(above) /\ (a # 0 => above[a] \in ToSet(tiles))
      /\ a = 0 <=> \A j \in 1 .. Len(above) : above[j] \notin ToSet(tiles)
  BY <1>1, FirstTileProperties
<1>3. /\ b \in 0 .. Len(below) /\ (b # 0 => below[b] \in ToSet(tiles))
      /\ b = 0 <=> \A j \in 1 .. Len(below) : below[j] \notin ToSet(tiles)
  BY <1>1, FirstTileProperties
<1>4. RejoinAt(tiles, slot) = IF a # 0 THEN IndexIn(tiles, above[a]) + 1 ELSE IndexIn(tiles, below[b])
  BY DEF RejoinAt
<1> HIDE DEF a, b, above, below
<1>5. \A x \in ToSet(tiles) : IndexIn(tiles, x) \in 1 .. Len(tiles)
  BY IndexInProperties, InSeqOf
<1>6. CASE a # 0
  BY <1>1, <1>2, <1>4, <1>5, <1>6
<1>7. CASE a = 0
  <2>1. Len(above) \in Nat /\ Len(below) \in Nat
    BY <1>1
  <2>2. /\ Len(above \o below) = Len(above) + Len(below)
        /\ m <= Len(above) => (above \o below)[m] = above[m]
        /\ m > Len(above) => (above \o below)[m] = below[m - Len(above)]
    BY <1>1, ConcatProperties DEF above, below
  <2>3. m \in 1 .. Len(above) + Len(below)
    BY <2>2 DEF above, below
  <2>4. ~(m <= Len(above))
    BY <1>2, <1>7, <2>1, <2>2, <2>3 DEF above, below
  <2>5. m - Len(above) \in 1 .. Len(below) /\ below[m - Len(above)] \in ToSet(tiles)
    <3>1. m - Len(above) \in 1 .. Len(below) /\ m > Len(above)
      BY <2>1, <2>3, <2>4
    <3>2. mate = (above \o below)[m]
      BY DEF above, below
    <3> QED BY <2>2, <3>1, <3>2
  <2>6. b # 0
    BY <1>3, <2>5
  <2> QED BY <1>1, <1>3, <1>4, <1>5, <1>7, <2>6
<1> QED BY <1>6, <1>7

\* put_back: the window is in the strip again, among its old neighbours or on its own.
LEMMA PutBackGood ==
    ASSUME NEW W, NEW ws, GoodStrip(ws, W), NEW slot \in SlotType(W),
           slot.window \notin WindowsOf(ws)
    PROVE  /\ GoodStrip(PutBack(ws, slot), W)
           /\ WindowsOf(PutBack(ws, slot)) = WindowsOf(ws) \cup {slot.window}
           /\ PutBack(ws, slot).named = ws.named
<1> DEFINE cols == ws.columns
           w == slot.window
           mates == slot.above \o slot.below
           m == FirstPresent(ws, mates)
           c == FindColumn(ws, mates[m])
           own == [ColumnOf(w) EXCEPT !.tab = IF slot.tabbed THEN 1 ELSE 0]
<1>1. /\ w \in W /\ mates \in Seq(W) /\ slot.left \in Seq(W) /\ slot.right \in Seq(W)
      /\ slot.column \in Nat \ {0}
  BY DEF SlotType
<1>2. /\ cols \in Seq(ColumnType(W)) /\ Len(cols) \in Nat /\ GoodColumns(cols, W)
      /\ WindowsOf(ws) = TilesIn(cols)
      /\ \A d \in 1 .. Len(cols) : GoodColumn(cols[d], W)
  BY StripFields
<1>3. m \in 0 .. Len(mates) /\ (m # 0 => mates[m] \in WindowsOf(ws))
  BY <1>1, FirstPresentProperties
<1>4. CASE m # 0
  <2> DEFINE tiles == cols[c].tiles
             at == RejoinAt(tiles, slot)
             col == WithTileAt(cols[c], at, w)
             new == ReplaceAt(cols, c, col)
  <2>1. m \in 1 .. Len(mates) /\ mates[m] \in WindowsOf(ws)
    <3> HIDE DEF m, mates
    <3> QED BY <1>1, <1>3, <1>4
  <2>2. c \in 1 .. Len(cols) /\ GoodColumn(cols[c], W) /\ mates[m] \in Tiles(cols[c])
    BY <2>1, Finding
  <2>3. tiles \in Seq(W) /\ mates[m] \in ToSet(tiles)
    BY <2>2, ColumnFields DEF Tiles
  <2>4. at \in 1 .. Len(tiles) + 1
    BY <2>1, <2>3, RejoinAtInRange
  <2>5. PutBack(ws, slot) = [ws EXCEPT !.columns = new]
    <3>1. PutBack(ws, slot) = [ws EXCEPT !.columns[c].tiles = InsertAt(@, at, w)]
      BY <1>4 DEF PutBack
    <3>2. new = [cols EXCEPT ![c] = [cols[c] EXCEPT !.tiles = InsertAt(cols[c].tiles, at, w)]]
      BY DEF ReplaceAt, WithTileAt
    <3> HIDE DEF m, mates, c, at, new
    <3> QED BY <3>1, <3>2
  <2>6. Tiles(cols[c]) \subseteq TilesIn(cols)
    BY <1>2, <2>2, TilesInOf
  <2> HIDE DEF at, m, mates, c
  <2>7. GoodColumn(col, W) /\ Tiles(col) = Tiles(cols[c]) \cup {w}
    <3>1. w \notin Tiles(cols[c])
      BY <1>2, <2>6
    <3> HIDE DEF w, cols
    <3> QED BY <1>1, <2>2, <2>4, <3>1, InsertTileGood
  <2>8. \A x \in Tiles(col) : x \in TilesIn(cols) => x \in Tiles(cols[c])
    BY <1>2, <2>7
  <2> HIDE DEF col
  <2>9. GoodColumns(new, W) /\ TilesIn(new) = (TilesIn(cols) \ Tiles(cols[c])) \cup Tiles(col)
    BY <1>2, <2>2, <2>7, <2>8, ReplaceColumnGood
  <2>10. TilesIn(new) = WindowsOf(ws) \cup {w}
    BY <1>2, <2>6, <2>7, <2>9
  <2> HIDE DEF new
  <2> QED BY <2>5, <2>9, <2>10, WithColumns
<1>5. CASE m = 0
  <2> DEFINE at == OwnColumnAt(ws, slot)
             s == <<w>>
             b == IF slot.tabbed THEN 1 ELSE 0
  <2>1. PutBack(ws, slot) = InsertColumn(ws, at, own)
    BY <1>5 DEF PutBack
  <2>2. at \in 1 .. Len(cols) + 1
    <3> DEFINE l == FirstPresent(ws, slot.left)
               r == FirstPresent(ws, slot.right)
    <3>1. /\ l # 0 => slot.left[l] \in WindowsOf(ws)
          /\ r # 0 => slot.right[r] \in WindowsOf(ws)
      BY <1>1, FirstPresentProperties
    <3>2. /\ l # 0 => FindColumn(ws, slot.left[l]) \in 1 .. Len(cols)
          /\ r # 0 => FindColumn(ws, slot.right[r]) \in 1 .. Len(cols)
      BY <3>1, Finding
    <3>3. MinOf(slot.column, Len(cols) + 1) \in 1 .. Len(cols) + 1
      BY <1>1, <1>2 DEF MinOf
    <3>4. at = IF l # 0 THEN FindColumn(ws, slot.left[l]) + 1
               ELSE IF r # 0 THEN FindColumn(ws, slot.right[r])
               ELSE MinOf(slot.column, Len(cols) + 1)
      BY DEF OwnColumnAt
    <3> HIDE DEF l, r
    <3> QED BY <1>2, <3>2, <3>3, <3>4
  <2>3. own = [tiles |-> s, active |-> NoWindow, tab |-> b]
    BY DEF ColumnOf
  <2>4. s \in Seq(W) /\ Len(s) = 1 /\ IsInjective(s) /\ ToSet(s) = {w}
    BY <1>1, SingleTile
  <2>5. b \in Nat /\ b <= 1 /\ NoWindow \in W \cup {NoWindow}
    OBVIOUS
  <2> HIDE DEF s, b, own, at
  <2>6. GoodColumn(own, W) /\ Tiles(own) = {w}
    BY <2>3, <2>4, <2>5, MakeColumn
  <2> QED BY <2>1, <2>2, <2>6, InsertColumnInStrip
<1> QED BY <1>4, <1>5

\* Restored on another workspace: right of its active column.
LEMMA InsertSlotAfterActiveGood ==
    ASSUME NEW W, NEW ws, GoodStrip(ws, W), NEW slot \in SlotType(W),
           slot.window \notin WindowsOf(ws)
    PROVE  /\ GoodStrip(InsertSlotAfterActive(ws, slot), W)
           /\ WindowsOf(InsertSlotAfterActive(ws, slot)) = WindowsOf(ws) \cup {slot.window}
           /\ InsertSlotAfterActive(ws, slot).named = ws.named
<1> DEFINE bare == [slot EXCEPT !.column = AfterActive(ws), !.above = <<>>,
                                !.below = <<>>, !.left = <<>>, !.right = <<>>]
           mid == PutBack(ws, bare)
<1>1. AfterActive(ws) \in Nat \ {0} /\ <<>> \in Seq(W)
  BY AfterActiveInRange, StripFields
<1>2. bare \in SlotType(W) /\ bare.window = slot.window
  BY <1>1 DEF SlotType
<1>3. InsertSlotAfterActive(ws, slot) = RememberFocus(mid, slot.window)
  BY DEF InsertSlotAfterActive
<1> HIDE DEF bare
<1>4. /\ GoodStrip(mid, W) /\ WindowsOf(mid) = WindowsOf(ws) \cup {slot.window}
      /\ mid.named = ws.named
  BY <1>2, PutBackGood
<1> HIDE DEF mid
<1>5. /\ GoodStrip(RememberFocus(mid, slot.window), W)
      /\ SamePlaces(RememberFocus(mid, slot.window), mid)
      /\ RememberFocus(mid, slot.window).named = mid.named
  BY <1>4, RememberFocusGood
<1> QED BY <1>3, <1>4, <1>5, SamePlacesFind

----------------------------------------------------------------------------
(* Column operations.  None of them brings a window in or takes one out. *)

\* The strip after a column operation: sound, with the windows it had.
Rearranged(new, ws, W) ==
    GoodStrip(new, W) /\ WindowsOf(new) = WindowsOf(ws) /\ new.named = ws.named

LEMMA RearrangedSame ==
    ASSUME NEW W, NEW ws, GoodStrip(ws, W)
    PROVE  Rearranged(ws, ws, W)
BY DEF Rearranged

LEMMA RearrangedBy ==
    ASSUME NEW W, NEW ws, GoodStrip(ws, W), NEW cols, GoodColumns(cols, W),
           TilesIn(cols) = TilesIn(ws.columns)
    PROVE  Rearranged([ws EXCEPT !.columns = cols], ws, W)
BY WithColumns, StripFields DEF Rearranged

\* A tile of a column of several leaves it for a column of its own.
LEMMA ExpelledGood ==
    ASSUME NEW W, NEW ws, GoodStrip(ws, W), NEW c \in 1 .. Len(ws.columns),
           NEW w \in Tiles(ws.columns[c]), Len(ws.columns[c].tiles) > 1,
           NEW at \in 1 .. Len(ws.columns) + 1
    PROVE  Rearranged(Expelled(ws, c, w, at), ws, W)
           /\ Len(Expelled(ws, c, w, at).columns) = Len(ws.columns) + 1
<1> DEFINE cols == ws.columns
           col == RemoveTile(cols[c], w)
           mid == ReplaceAt(cols, c, col)
           new == InsertAt(mid, at, ColumnOf(w))
<1>1. /\ cols \in Seq(ColumnType(W)) /\ Len(cols) \in Nat /\ GoodColumns(cols, W)
      /\ GoodColumn(cols[c], W)
  BY StripFields
<1>2. Tiles(cols[c]) \subseteq TilesIn(cols) /\ w \in W
  BY <1>1, TilesInOf
<1>3. GoodColumn(col, W) /\ Tiles(col) = Tiles(cols[c]) \ {w}
  <2>1. /\ Tiles(col) = Tiles(cols[c]) \ {w} /\ Len(col.tiles) = Len(cols[c].tiles) - 1
        /\ col.tiles # <<>> => GoodColumn(col, W)
    BY <1>1, RemoveTileGood
  <2>2. Len(cols[c].tiles) \in Nat
    BY <1>1, ColumnFields
  <2>3. Len(<<>>) = 0
    OBVIOUS
  <2> HIDE DEF col, cols
  <2> QED BY <2>1, <2>2, <2>3 DEF cols
<1> HIDE DEF col
<1>4. /\ GoodColumns(mid, W) /\ TilesIn(mid) = (TilesIn(cols) \ Tiles(cols[c])) \cup Tiles(col)
      /\ Len(mid) = Len(cols)
  BY <1>1, <1>3, ReplaceColumnGood
<1>5. TilesIn(mid) = TilesIn(cols) \ {w}
  <2>1. \A d \in 1 .. Len(cols) : w \in Tiles(cols[d]) => d = c
    BY <1>1 DEF GoodColumns
  <2> QED BY <1>2, <1>3, <1>4
<1> HIDE DEF mid
<1>6. GoodColumn(ColumnOf(w), W) /\ Tiles(ColumnOf(w)) = {w}
  BY <1>2, ColumnOfGood
<1>7. GoodColumns(new, W) /\ TilesIn(new) = TilesIn(mid) \cup {w} /\ Len(new) = Len(cols) + 1
  BY <1>4, <1>5, <1>6, InsertColumnGood
<1>8. TilesIn(new) = TilesIn(cols)
  BY <1>2, <1>5, <1>7
<1>9. Expelled(ws, c, w, at) = [ws EXCEPT !.columns = new]
  BY DEF Expelled, col, mid, ReplaceAt
<1> HIDE DEF new
<1>10. [ws EXCEPT !.columns = new].columns = new
  BY <1>7, WithColumns
<1> QED BY <1>7, <1>8, <1>9, <1>10, RearrangedBy

\* consume or expel: a lone window joins the column beside it, another leaves its column.
LEMMA ConsumeOrExpelGood ==
    ASSUME NEW W, NEW ws, GoodStrip(ws, W), NEW w, NEW right \in BOOLEAN
    PROVE  Rearranged(ConsumeOrExpel(ws, w, right), ws, W)
<1> DEFINE cols == ws.columns
           c == FindColumn(ws, w)
           target == IF right THEN c + 1 ELSE c - 1
           col == AddTile(cols[target], w)
           mid == ReplaceAt(cols, target, col)
           new == RemoveAt(mid, c)
<1>1. /\ cols \in Seq(ColumnType(W)) /\ Len(cols) \in Nat /\ GoodColumns(cols, W)
      /\ DOMAIN cols = 1 .. Len(cols)
      /\ c \in 0 .. Len(cols)
      /\ \A d \in 1 .. Len(cols) : GoodColumn(cols[d], W)
      /\ WindowsOf(ws) = TilesIn(cols)
  BY StripFields, Finding
<1>2. ASSUME c # 0
      PROVE  /\ c \in 1 .. Len(cols) /\ GoodColumn(cols[c], W) /\ w \in Tiles(cols[c]) /\ w \in W
             /\ w \in TilesIn(cols)
  BY <1>1, <1>2, Finding
<1>3. CASE c = 0
  <2>1. ConsumeOrExpel(ws, w, right) = ws
    BY <1>3 DEF ConsumeOrExpel
  <2> QED BY <2>1, RearrangedSame
<1>4. CASE c # 0 /\ Len(cols[c].tiles) > 1
  <2>1. (IF right THEN c + 1 ELSE c) \in 1 .. Len(cols) + 1
    BY <1>1, <1>4
  <2>2. ConsumeOrExpel(ws, w, right) = Expelled(ws, c, w, IF right THEN c + 1 ELSE c)
    BY <1>4 DEF ConsumeOrExpel
  <2> HIDE DEF c
  <2> QED BY <1>2, <1>4, <2>1, <2>2, ExpelledGood
<1>5. CASE c # 0 /\ ~(Len(cols[c].tiles) > 1) /\ target \notin 1 .. Len(cols)
  <2>1. ConsumeOrExpel(ws, w, right) = ws
    BY <1>1, <1>5 DEF ConsumeOrExpel
  <2> QED BY <2>1, RearrangedSame
<1>6. CASE c # 0 /\ ~(Len(cols[c].tiles) > 1) /\ target \in 1 .. Len(cols)
  <2>1. ConsumeOrExpel(ws, w, right) = [ws EXCEPT !.columns = new]
    BY <1>1, <1>6 DEF ConsumeOrExpel
  <2>2. target # c /\ target \in Int
    BY <1>1
  <2>3. c \in 1 .. Len(cols) /\ w \in Tiles(cols[c]) /\ w \in W /\ w \in TilesIn(cols)
    BY <1>2, <1>6
  <2>4. \A d \in 1 .. Len(cols) : w \in Tiles(cols[d]) => d = c
    BY Finding
  <2>5. Tiles(cols[c]) = {w}
    <3> DEFINE t == cols[c].tiles
    <3>1. /\ t \in Seq(W) /\ Len(t) \in Nat \ {0} /\ ~(Len(t) > 1) /\ w \in ToSet(t)
      BY <1>2, <1>6, ColumnFields DEF Tiles
    <3> HIDE DEF t
    <3>2. Len(t) = 1
      <4>1. \A n \in Nat \ {0} : ~(n > 1) => n = 1
        OBVIOUS
      <4> QED BY <3>1, <4>1, Zenon
    <3>3. \A x : x \in ToSet(t) <=> \E i \in 1 .. Len(t) : t[i] = x
      BY <3>1, ToSetOf
    <3>4. ToSet(t) = {w}
      BY <3>1, <3>2, <3>3
    <3> QED BY <3>4 DEF t, Tiles
  <2> HIDE DEF target, c
  <2>6. GoodColumn(cols[target], W) /\ w \notin Tiles(cols[target])
    BY <1>1, <1>6, <2>2, <2>4
  <2>7. GoodColumn(col, W) /\ Tiles(col) = Tiles(cols[target]) \cup {w}
    BY <2>3, <2>6, AddTileGood
  <2> DEFINE less == RemoveAt(cols, c)
             k == IF target < c THEN target ELSE target - 1
  <2>8. k \in 1 .. Len(cols) - 1 /\ new = ReplaceAt(less, k, col)
    <3>1. col \in ColumnType(W)
      BY <2>7 DEF GoodColumn
    <3> QED BY <1>1, <1>6, <2>2, <2>3, <3>1, ReplaceAndRemove
  <2>9. /\ GoodColumns(less, W) /\ TilesIn(less) = TilesIn(cols) \ {w}
        /\ Len(less) = Len(cols) - 1
        /\ \A d \in 1 .. Len(cols) - 1 : less[d] = cols[IF d < c THEN d ELSE d + 1]
    BY <1>1, <2>3, <2>5, RemoveColumnGood, Z3T(40)
  <2>10. less[k] = cols[target] /\ k \in 1 .. Len(less)
    <3>1. (IF k < c THEN k ELSE k + 1) = target
      BY <2>2, <2>3, <1>1
    <3> QED BY <2>8, <2>9, <3>1
  <2> HIDE DEF less, k, col, new
  <2>11. Tiles(cols[target]) \subseteq TilesIn(less)
    <3>1. less \in Seq(ColumnType(W))
      BY <2>9 DEF GoodColumns
    <3> QED BY <2>10, <3>1, TilesInOf
  <2>12. \A x \in Tiles(col) : x \in TilesIn(less) => x \in Tiles(less[k])
    BY <2>7, <2>9, <2>10
  <2>13. GoodColumns(new, W) /\ TilesIn(new) = (TilesIn(less) \ Tiles(less[k])) \cup Tiles(col)
    <3>1. GoodColumns(less, W)
      BY <2>9
    <3> QED BY <2>7, <2>8, <2>10, <2>12, <3>1, ReplaceColumnGood
  <2>14. TilesIn(new) = TilesIn(cols)
    BY <2>3, <2>7, <2>9, <2>10, <2>11, <2>13
  <2> QED BY <2>1, <2>13, <2>14, RearrangedBy
<1> QED BY <1>3, <1>4, <1>5, <1>6

\* consume into column: its first tile leaves the column on the right.
LEMMA ConsumeIntoGood ==
    ASSUME NEW W, NEW ws, GoodStrip(ws, W), NEW c \in 1 .. Len(ws.columns)
    PROVE  /\ Rearranged(ConsumeInto(ws, c), ws, W)
           /\ c <= Len(ConsumeInto(ws, c).columns)
<1> DEFINE cols == ws.columns
           w == cols[c + 1].tiles[1]
           t == Tail(cols[c + 1].tiles)
           rest == ClampTab([cols[c + 1] EXCEPT !.tiles = Tail(@)])
           col == AddTile(cols[c], w)
           new == PutColumn(ReplaceAt(cols, c, col), c + 1, rest)
<1>1. /\ cols \in Seq(ColumnType(W)) /\ Len(cols) \in Nat /\ GoodColumns(cols, W)
      /\ DOMAIN cols = 1 .. Len(cols)
      /\ \A d \in 1 .. Len(cols) : GoodColumn(cols[d], W)
  BY StripFields
<1>2. CASE c + 1 \notin 1 .. Len(cols)
  <2>1. ConsumeInto(ws, c) = ws
    BY <1>1, <1>2 DEF ConsumeInto
  <2> QED BY <1>1, <2>1, RearrangedSame
<1>3. CASE c + 1 \in 1 .. Len(cols)
  <2>1. ConsumeInto(ws, c) = [ws EXCEPT !.columns = new]
    BY <1>1, <1>3 DEF ConsumeInto
  <2> DEFINE d == c + 1
             s == cols[d].tiles
  <2>2. d \in 1 .. Len(cols) /\ d # c /\ c \in Int
    BY <1>1, <1>3
  <2>3. /\ GoodColumn(cols[c], W) /\ GoodColumn(cols[d], W)
        /\ s \in Seq(W) /\ Len(s) \in Nat \ {0} /\ IsInjective(s)
        /\ cols[d].active \in W \cup {NoWindow} /\ cols[d].tab \in Nat
        /\ cols[d] = [tiles |-> s, active |-> cols[d].active, tab |-> cols[d].tab]
    BY <1>1, <2>2, ColumnFields
  <2>4. t \in Seq(W) /\ IsInjective(t) /\ ToSet(t) = ToSet(s) \ {w}
    <3>1. /\ t \in Seq(W) /\ Len(t) = Len(s) - 1
          /\ \A i \in 1 .. Len(s) - 1 : t[i] = s[i + 1]
      BY <2>3
    <3> HIDE DEF s, t, w
    <3>2. \A i, j \in 1 .. Len(s) : s[i] = s[j] => i = j
      BY <2>3, ToSetOf
    <3>3. w = s[1] /\ \A x : x \in ToSet(s) <=> \E i \in 1 .. Len(s) : s[i] = x
      BY <2>3, ToSetOf DEF s, w
    <3>4. \A x : x \in ToSet(t) <=> \E i \in 1 .. Len(t) : t[i] = x
      BY <3>1, ToSetOf
    <3>5. IsInjective(t)
      <4>1. ASSUME NEW i \in 1 .. Len(t), NEW j \in 1 .. Len(t), t[i] = t[j] PROVE i = j
        <5>1. s[i + 1] = s[j + 1] /\ i + 1 \in 1 .. Len(s) /\ j + 1 \in 1 .. Len(s)
          BY <2>3, <3>1, <4>1
        <5>2. i + 1 = j + 1
          BY <3>2, <5>1
        <5> QED BY <5>2
      <4> QED BY <3>1, <4>1, ToSetOf
    <3>6. ASSUME NEW x \in ToSet(t) PROVE x \in ToSet(s) \ {w}
      <4>1. PICK i \in 1 .. Len(t) : t[i] = x
        BY <3>4, <3>6
      <4>2. x = s[i + 1] /\ i + 1 \in 1 .. Len(s) /\ i + 1 # 1 /\ 1 \in 1 .. Len(s)
        BY <2>3, <3>1, <4>1
      <4> QED BY <3>2, <3>3, <4>2
    <3>7. ASSUME NEW x \in ToSet(s), x # w PROVE x \in ToSet(t)
      <4>1. PICK i \in 1 .. Len(s) : s[i] = x
        BY <3>3, <3>7
      <4>2. i - 1 \in 1 .. Len(t) /\ t[i - 1] = x
        BY <2>3, <3>1, <3>3, <3>7, <4>1
      <4> QED BY <3>4, <4>2
    <3> QED BY <3>1, <3>5, <3>6, <3>7
  <2>5. rest = ClampTab([tiles |-> t, active |-> cols[d].active, tab |-> cols[d].tab])
    <3>1. \A x : [cols[d] EXCEPT !.tiles = x]
                 = [tiles |-> x, active |-> cols[d].active, tab |-> cols[d].tab]
      BY <2>3
    <3> QED BY <3>1
  <2>6. w \in Tiles(cols[d]) /\ w \in W /\ Tiles(cols[d]) \subseteq TilesIn(cols)
    <3>1. 1 \in 1 .. Len(s)
      BY <2>3
    <3>2. s[1] \in ToSet(s) /\ s[1] \in W
      BY <2>3, <3>1, ToSetOf
    <3> QED BY <1>1, <2>2, <3>2, TilesInOf DEF Tiles
  <2> HIDE DEF t, w, d
  <2>7. /\ rest \in ColumnType(W) /\ rest.tiles = t
        /\ t # <<>> => GoodColumn(rest, W)
    <3>1. /\ t \in Seq(W) /\ IsInjective(t)
          /\ cols[d].active \in W \cup {NoWindow} /\ cols[d].tab \in Nat
      BY <2>3, <2>4
    <3> HIDE DEF rest, cols
    <3> QED BY <2>5, <3>1, ClampTabGood
  <2>8. Tiles(rest) = Tiles(cols[d]) \ {w}
    BY <2>4, <2>7 DEF Tiles
  <2> HIDE DEF rest
  <2>9. w \notin Tiles(cols[c])
    BY <1>1, <2>2, <2>6 DEF GoodColumns
  <2>10. GoodColumn(col, W) /\ Tiles(col) = Tiles(cols[c]) \cup {w}
    BY <2>3, <2>6, <2>9, AddTileGood
  <2> HIDE DEF col
  <2> DEFINE less == PutColumn(cols, d, rest)
  <2>11. GoodColumns(less, W) /\ TilesIn(less) = (TilesIn(cols) \ Tiles(cols[d])) \cup Tiles(rest)
    BY <1>1, <2>2, <2>7, <2>8, PutColumnGood
  <2>12. TilesIn(less) = TilesIn(cols) \ {w}
    BY <2>6, <2>8, <2>11
  <2>13. c \in 1 .. Len(less) /\ less[c] = cols[c] /\ new = ReplaceAt(less, c, col)
    <3>1. col \in ColumnType(W) /\ d = c + 1
      BY <2>10 DEF GoodColumn, d
    <3>2. CASE rest.tiles = <<>>
      <4>1. less = RemoveAt(cols, d) /\ new = RemoveAt(ReplaceAt(cols, c, col), d)
        BY <3>1, <3>2 DEF PutColumn
      <4>2. /\ RemoveAt(cols, d) \in Seq(ColumnType(W)) /\ Len(RemoveAt(cols, d)) = Len(cols) - 1
            /\ \A j \in 1 .. Len(cols) - 1 : RemoveAt(cols, d)[j] = IF j < d THEN cols[j] ELSE cols[j + 1]
        BY <1>1, <2>2, RemoveAtProperties
      <4>3. c < d /\ c \in 1 .. Len(cols) - 1
        BY <1>1, <2>2, <3>1
      <4>4. new = ReplaceAt(RemoveAt(cols, d), IF c < d THEN c ELSE c - 1, col)
        BY <1>1, <2>2, <3>1, <4>1, ReplaceAndRemove
      <4> HIDE DEF less, new
      <4> QED BY <4>1, <4>2, <4>3, <4>4
    <3>3. CASE rest.tiles # <<>>
      <4>1. less = ReplaceAt(cols, d, rest) /\ new = ReplaceAt(ReplaceAt(cols, c, col), d, rest)
        BY <3>1, <3>3 DEF PutColumn
      <4>2. /\ Len(ReplaceAt(cols, d, rest)) = Len(cols)
            /\ \A j \in 1 .. Len(cols) : ReplaceAt(cols, d, rest)[j] = IF j = d THEN rest ELSE cols[j]
        <5>1. cols \in Seq(ColumnType(W)) /\ d \in 1 .. Len(cols) /\ rest \in ColumnType(W)
          BY <1>1, <2>2, <2>7
        <5> HIDE DEF cols
        <5>2. IsReplacement(ReplaceAt(cols, d, rest), ColumnType(W), cols, d, rest)
          BY <5>1, ReplaceAtIsReplacement
        <5> QED BY <5>2 DEF IsReplacement
      <4>3. new = ReplaceAt(ReplaceAt(cols, d, rest), c, col)
        BY <1>1, <2>2, <2>7, <3>1, <4>1, ReplaceTwo
      <4> HIDE DEF less, new
      <4> QED BY <2>2, <4>1, <4>2, <4>3
    <3> QED BY <3>2, <3>3
  <2> HIDE DEF less, new
  <2>14. Tiles(cols[c]) \subseteq TilesIn(less)
    BY <2>11, <2>13, TilesInOf DEF GoodColumns
  <2>15. \A x \in Tiles(col) : x \in TilesIn(less) => x \in Tiles(less[c])
    BY <2>10, <2>12, <2>13
  <2>16. /\ GoodColumns(new, W) /\ TilesIn(new) = (TilesIn(less) \ Tiles(less[c])) \cup Tiles(col)
         /\ Len(new) = Len(less)
    BY <2>10, <2>11, <2>13, <2>15, ReplaceColumnGood
  <2>17. TilesIn(new) = TilesIn(cols)
    BY <2>6, <2>10, <2>12, <2>13, <2>14, <2>16
  <2>18. [ws EXCEPT !.columns = new].columns = new
    BY <2>16, WithColumns
  <2>19. Len(less) \in Nat
    BY <2>11 DEF GoodColumns
  <2>20. c <= Len(ConsumeInto(ws, c).columns)
    BY <2>1, <2>13, <2>16, <2>18, <2>19
  <2> QED BY <2>1, <2>16, <2>17, <2>20, RearrangedBy
<1> QED BY <1>2, <1>3

LEMMA LastOf ==
    ASSUME NEW S, NEW s \in Seq(S), Len(s) # 0
    PROVE  Last(s) = s[Len(s)] /\ Last(s) \in ToSet(s) /\ Last(s) \in S
<1>1. Len(s) \in 1 .. Len(s)
  OBVIOUS
<1> QED BY <1>1, ToSetOf, ElementOfSeq DEF Last

\* expel from column: its last tile gets a column of its own.
LEMMA ExpelFromGood ==
    ASSUME NEW W, NEW ws, GoodStrip(ws, W), NEW c
    PROVE  Rearranged(ExpelFrom(ws, c), ws, W)
<1> DEFINE cols == ws.columns
<1>1. /\ Len(cols) \in Nat /\ DOMAIN cols = 1 .. Len(cols)
      /\ \A d \in 1 .. Len(cols) : GoodColumn(cols[d], W)
  BY StripFields
<1>2. CASE c \notin 1 .. Len(cols) \/ Len(cols[c].tiles) < 2
  BY <1>1, <1>2, RearrangedSame DEF ExpelFrom
<1>3. CASE c \in 1 .. Len(cols) /\ ~(Len(cols[c].tiles) < 2)
  <2>1. cols[c].tiles \in Seq(W) /\ Len(cols[c].tiles) \in Nat \ {0}
    BY <1>1, <1>3, ColumnFields
  <2>2. Last(cols[c].tiles) \in Tiles(cols[c])
    BY <2>1, LastOf DEF Tiles
  <2>3. Len(cols[c].tiles) > 1 /\ c + 1 \in 1 .. Len(cols) + 1
    BY <1>1, <1>3, <2>1
  <2>4. ExpelFrom(ws, c) = Expelled(ws, c, Last(cols[c].tiles), c + 1)
    BY <1>1, <1>3 DEF ExpelFrom
  <2> QED BY <1>3, <2>2, <2>3, <2>4, ExpelledGood
<1> QED BY <1>2, <1>3

LEMMA ExpelFromLength ==
    ASSUME NEW W, NEW ws, GoodStrip(ws, W), NEW c \in 1 .. Len(ws.columns)
    PROVE  c \in 1 .. Len(ExpelFrom(ws, c).columns)
<1> DEFINE cols == ws.columns
           n == ExpelFrom(ws, c)
<1>1. /\ Len(cols) \in Nat /\ DOMAIN cols = 1 .. Len(cols) /\ GoodColumn(cols[c], W)
  BY StripFields
<1>2. CASE Len(cols[c].tiles) < 2
  BY <1>1, <1>2 DEF ExpelFrom
<1>3. CASE ~(Len(cols[c].tiles) < 2)
  <2>1. cols[c].tiles \in Seq(W) /\ Len(cols[c].tiles) \in Nat \ {0}
    BY <1>1, ColumnFields
  <2>2. Last(cols[c].tiles) \in Tiles(cols[c])
    BY <2>1, LastOf DEF Tiles
  <2>3. Len(cols[c].tiles) > 1 /\ c + 1 \in 1 .. Len(cols) + 1
    BY <1>1, <1>3, <2>1
  <2>4. n = Expelled(ws, c, Last(cols[c].tiles), c + 1)
    BY <1>1, <1>3 DEF ExpelFrom
  <2> HIDE DEF n
  <2>5. Len(n.columns) = Len(cols) + 1
    BY <2>2, <2>3, <2>4, ExpelledGood
  <2> QED BY <1>1, <2>5 DEF n
<1> QED BY <1>2, <1>3

\* Exchanging two elements keeps what is in the sequence.
LEMMA SwapProperties ==
    ASSUME NEW S, NEW s \in Seq(S), NEW i \in 1 .. Len(s), NEW j \in 1 .. Len(s)
    PROVE  /\ Swap(s, i, j) \in Seq(S) /\ Len(Swap(s, i, j)) = Len(s)
           /\ ToSet(Swap(s, i, j)) = ToSet(s)
           /\ IsInjective(s) => IsInjective(Swap(s, i, j))
<1> DEFINE t == Swap(s, i, j)
           p(k) == IF k = j THEN i ELSE IF k = i THEN j ELSE k
<1>1. /\ t \in Seq(S) /\ Len(t) = Len(s)
      /\ \A k \in 1 .. Len(s) : t[k] = IF k = j THEN s[i] ELSE IF k = i THEN s[j] ELSE s[k]
  <2>1. s[i] \in S /\ s[j] \in S
    BY ElementOfSeq
  <2> DEFINE x == s[i]
             y == s[j]
             a == ReplaceAt(s, i, y)
  <2>2. t = ReplaceAt(a, j, x) /\ x \in S /\ y \in S
    BY <2>1 DEF Swap, ReplaceAt
  <2> HIDE DEF x, y
  <2>3. a \in Seq(S) /\ Len(a) = Len(s) /\ \A k \in 1 .. Len(s) : a[k] = IF k = i THEN y ELSE s[k]
    BY <2>2, ReplaceAtProperties
  <2> HIDE DEF a, t
  <2>4. /\ ReplaceAt(a, j, x) \in Seq(S) /\ Len(ReplaceAt(a, j, x)) = Len(a)
        /\ \A k \in 1 .. Len(a) : ReplaceAt(a, j, x)[k] = IF k = j THEN x ELSE a[k]
    <3>1. j \in 1 .. Len(a) /\ a \in Seq(S) /\ x \in S
      BY <2>2, <2>3
    <3>2. IsReplacement(ReplaceAt(a, j, x), S, a, j, x)
      BY <3>1, ReplaceAtIsReplacement
    <3> QED BY <3>2 DEF IsReplacement
  <2> QED BY <2>2, <2>3, <2>4 DEF x, y
<1>2. \A k \in 1 .. Len(s) : p(k) \in 1 .. Len(s) /\ t[k] = s[p(k)] /\ t[p(k)] = s[k] /\ p(p(k)) = k
  BY <1>1
<1> HIDE DEF t, p
<1>3. \A x : x \in ToSet(t) <=> \E k \in 1 .. Len(s) : t[k] = x
  BY <1>1, ToSetOf
<1>4. \A x : x \in ToSet(s) <=> \E k \in 1 .. Len(s) : s[k] = x
  BY ToSetOf
<1>5. ToSet(t) = ToSet(s)
  BY <1>2, <1>3, <1>4
<1>6. ASSUME IsInjective(s) PROVE IsInjective(t)
  <2>1. \A k, l \in 1 .. Len(s) : s[k] = s[l] => k = l
    BY <1>6, ToSetOf
  <2>2. ASSUME NEW k \in 1 .. Len(s), NEW l \in 1 .. Len(s), t[k] = t[l] PROVE k = l
    <3>1. p(k) = p(l)
      BY <1>2, <2>1, <2>2
    <3> QED BY <1>2, <3>1
  <2> QED BY <1>1, <2>2, ToSetOf
<1> QED BY <1>1, <1>5, <1>6 DEF t

\* A tile moves one up or down in its column, and its tab goes with it.
LEMMA MoveTileWithinGood ==
    ASSUME NEW W, NEW ws, GoodStrip(ws, W), NEW w, NEW delta \in Int
    PROVE  Rearranged(MoveTileWithin(ws, w, delta), ws, W)
<1> DEFINE cols == ws.columns
           c == FindColumn(ws, w)
           col == cols[c]
           i == IndexIn(col.tiles, w)
           j == i + delta
           t == Swap(col.tiles, i, j)
           b == IF col.tab = i THEN j ELSE IF col.tab = j THEN i ELSE col.tab
           put == [tiles |-> t, active |-> col.active, tab |-> b]
           new == ReplaceAt(cols, c, put)
<1>1. /\ cols \in Seq(ColumnType(W)) /\ Len(cols) \in Nat /\ GoodColumns(cols, W)
      /\ DOMAIN cols = 1 .. Len(cols) /\ WindowsOf(ws) = TilesIn(cols)
      /\ c \in 0 .. Len(cols)
      /\ ws = [columns |-> cols, active |-> ws.active, named |-> ws.named]
  BY StripFields, Finding DEF StripType
<1>2. CASE c = 0
  BY <1>2, RearrangedSame DEF MoveTileWithin
<1>3. ASSUME c # 0
      PROVE  /\ c \in 1 .. Len(cols) /\ GoodColumn(col, W) /\ w \in Tiles(col)
             /\ col.tiles \in Seq(W) /\ Len(col.tiles) \in Nat \ {0} /\ IsInjective(col.tiles)
             /\ col.active \in W \cup {NoWindow} /\ col.tab \in 0 .. Len(col.tiles)
             /\ col = [tiles |-> col.tiles, active |-> col.active, tab |-> col.tab]
             /\ DOMAIN col.tiles = 1 .. Len(col.tiles)
             /\ i \in 1 .. Len(col.tiles)
  <2>1. c \in 1 .. Len(cols) /\ GoodColumn(col, W) /\ w \in Tiles(col)
    BY <1>3, Finding
  <2>2. /\ col.tiles \in Seq(W) /\ Len(col.tiles) \in Nat \ {0} /\ IsInjective(col.tiles)
        /\ col.active \in W \cup {NoWindow} /\ col.tab \in Nat /\ col.tab <= Len(col.tiles)
        /\ col = [tiles |-> col.tiles, active |-> col.active, tab |-> col.tab]
    BY <2>1, ColumnFields
  <2>3. i \in 1 .. Len(col.tiles)
    BY <2>1, <2>2, IndexInProperties, InSeqOf DEF Tiles
  <2> HIDE DEF col, i
  <2> QED BY <2>1, <2>2, <2>3, LenProperties
<1>4. CASE c # 0 /\ j \notin 1 .. Len(col.tiles)
  BY <1>3, <1>4, RearrangedSame DEF MoveTileWithin
<1>5. CASE c # 0 /\ j \in 1 .. Len(col.tiles)
  <2>1. MoveTileWithin(ws, w, delta)
        = [ws EXCEPT !.columns[c] = [col EXCEPT !.tiles = t, !.tab = b]]
    BY <1>3, <1>5 DEF MoveTileWithin
  <2>2. [col EXCEPT !.tiles = t, !.tab = b] = put
    <3>1. \A x, y : [col EXCEPT !.tiles = x, !.tab = y]
                    = [tiles |-> x, active |-> col.active, tab |-> y]
      <4>1. col \in ColumnType(W)
        BY <1>3, <1>5 DEF GoodColumn
      <4> HIDE DEF col
      <4>2. \A x : [col EXCEPT !.tiles = x] = [tiles |-> x, active |-> col.active, tab |-> col.tab]
        BY <4>1 DEF ColumnType
      <4>3. \A x, y : [col EXCEPT !.tiles = x, !.tab = y] = [[col EXCEPT !.tiles = x] EXCEPT !.tab = y]
        BY <4>1 DEF ColumnType
      <4>4. \A x, y : [[tiles |-> x, active |-> col.active, tab |-> col.tab] EXCEPT !.tab = y]
                      = [tiles |-> x, active |-> col.active, tab |-> y]
        OBVIOUS
      <4> QED BY <4>2, <4>3, <4>4
    <3> QED BY <3>1
  <2>3. [ws EXCEPT !.columns[c] = put] = [ws EXCEPT !.columns = new]
    <3>1. \A x : [ws EXCEPT !.columns[c] = x] = [ws EXCEPT !.columns = [cols EXCEPT ![c] = x]]
      BY <1>1
    <3> QED BY <3>1 DEF ReplaceAt
  <2>4. t \in Seq(W) /\ Len(t) = Len(col.tiles) /\ ToSet(t) = ToSet(col.tiles) /\ IsInjective(t)
    <3>1. col.tiles \in Seq(W) /\ i \in 1 .. Len(col.tiles) /\ j \in 1 .. Len(col.tiles)
      BY <1>3, <1>5
    <3> HIDE DEF i, j, col
    <3> QED BY <1>3, <1>5, <3>1, SwapProperties
  <2>5. b \in Nat /\ b <= Len(t)
    <3> HIDE DEF i, col, t
    <3> QED BY <1>3, <1>5, <2>4
  <2>6. GoodColumn(put, W) /\ Tiles(put) = Tiles(col)
    <3>1. Len(t) # 0 /\ col.active \in W \cup {NoWindow}
      BY <1>3, <1>5, <2>4
    <3> HIDE DEF t, b
    <3>2. GoodColumn(put, W) /\ Tiles(put) = ToSet(t)
      BY <2>4, <2>5, <3>1, MakeColumn
    <3> QED BY <2>4, <3>2 DEF Tiles
  <2> HIDE DEF put
  <2>7. GoodColumns(new, W) /\ TilesIn(new) = (TilesIn(cols) \ Tiles(cols[c])) \cup Tiles(put)
    <3>1. c \in 1 .. Len(cols) /\ \A x \in Tiles(put) : x \in TilesIn(cols) => x \in Tiles(cols[c])
      BY <1>3, <1>5, <2>6
    <3> HIDE DEF c
    <3> QED BY <1>1, <2>6, <3>1, ReplaceColumnGood
  <2>8. TilesIn(new) = TilesIn(cols)
    <3>1. Tiles(cols[c]) \subseteq TilesIn(cols)
      BY <1>1, <1>3, <1>5, TilesInOf
    <3> QED BY <2>6, <2>7, <3>1
  <2>9. MoveTileWithin(ws, w, delta) = [ws EXCEPT !.columns = new]
    <3> HIDE DEF new, c, col, t, b
    <3> QED BY <2>1, <2>2, <2>3
  <2> HIDE DEF new
  <2> QED BY <2>7, <2>8, <2>9, RearrangedBy
<1> QED BY <1>2, <1>4, <1>5

\* One tile of a column becomes a window that is not in it.
LEMMA ReplaceTile ==
    ASSUME NEW W, NEW t \in Seq(W), IsInjective(t), NEW i \in 1 .. Len(t), NEW x \in W,
           x \notin ToSet(t)
    PROVE  /\ ReplaceAt(t, i, x) \in Seq(W) /\ Len(ReplaceAt(t, i, x)) = Len(t)
           /\ IsInjective(ReplaceAt(t, i, x))
           /\ ToSet(ReplaceAt(t, i, x)) = (ToSet(t) \ {t[i]}) \cup {x}
<1> DEFINE u == ReplaceAt(t, i, x)
<1>1. u \in Seq(W) /\ Len(u) = Len(t) /\ \A k \in 1 .. Len(t) : u[k] = IF k = i THEN x ELSE t[k]
  <2>1. i \in 1 .. Len(t) /\ t \in Seq(W) /\ x \in W
    OBVIOUS
  <2>2. IsReplacement(u, W, t, i, x)
    BY <2>1, ReplaceAtIsReplacement
  <2> HIDE DEF u
  <2> QED BY <2>2 DEF IsReplacement
<1> HIDE DEF u
<1>2. /\ \A k \in 1 .. Len(t) : t[k] # x
      /\ \A k, l \in 1 .. Len(t) : t[k] = t[l] => k = l
      /\ \A y : y \in ToSet(t) <=> \E k \in 1 .. Len(t) : t[k] = y
  BY ToSetOf
<1>3. IsInjective(u)
  <2>1. \A k, l \in 1 .. Len(u) : u[k] = u[l] => k = l
    BY <1>1, <1>2
  <2> QED BY <1>1, <2>1, ToSetOf
<1>4. \A y : y \in ToSet(u) <=> \E k \in 1 .. Len(t) : u[k] = y
  BY <1>1, ToSetOf
<1>5. ToSet(u) = (ToSet(t) \ {t[i]}) \cup {x}
  BY <1>1, <1>2, <1>4
<1> QED BY <1>1, <1>3, <1>5 DEF u

\* Two columns are replaced, that hold together what they held before.
LEMMA ReplaceTwoColumns ==
    ASSUME NEW W, NEW cols, GoodColumns(cols, W), NEW c \in 1 .. Len(cols), NEW d \in 1 .. Len(cols),
           c # d, NEW a, NEW b, GoodColumn(a, W), GoodColumn(b, W), Tiles(a) \cap Tiles(b) = {},
           Tiles(a) \cup Tiles(b) = Tiles(cols[c]) \cup Tiles(cols[d])
    PROVE  /\ GoodColumns(ReplaceAt(ReplaceAt(cols, c, a), d, b), W)
           /\ TilesIn(ReplaceAt(ReplaceAt(cols, c, a), d, b)) = TilesIn(cols)
<1> DEFINE mid == ReplaceAt(cols, c, a)
           new == ReplaceAt(mid, d, b)
<1>1. cols \in Seq(ColumnType(W)) /\ a \in ColumnType(W) /\ b \in ColumnType(W)
  BY DEF GoodColumns, GoodColumn
<1>2. /\ mid \in Seq(ColumnType(W)) /\ Len(mid) = Len(cols)
      /\ \A k \in 1 .. Len(cols) : mid[k] = IF k = c THEN a ELSE cols[k]
  BY <1>1, ReplaceAtProperties
<1> HIDE DEF mid
<1>3. /\ new \in Seq(ColumnType(W)) /\ Len(new) = Len(mid)
      /\ \A k \in 1 .. Len(mid) : new[k] = IF k = d THEN b ELSE mid[k]
  <2>1. d \in 1 .. Len(mid) /\ mid \in Seq(ColumnType(W))
    BY <1>2
  <2> QED BY <1>1, <2>1, ReplaceAtProperties
<1>4. /\ Len(new) = Len(cols)
      /\ \A k \in 1 .. Len(cols) : new[k] = IF k = d THEN b ELSE IF k = c THEN a ELSE cols[k]
  BY <1>2, <1>3
<1> HIDE DEF new
<1>5. /\ \A k \in 1 .. Len(cols) : GoodColumn(cols[k], W)
      /\ \A k, l \in 1 .. Len(cols) : k # l => Tiles(cols[k]) \cap Tiles(cols[l]) = {}
  BY DEF GoodColumns
<1>6. \A k \in 1 .. Len(cols) : new[k] = cols[k] \/ GoodColumn(new[k], W)
  BY <1>4
<1>7. ASSUME NEW k \in 1 .. Len(cols), k # c, k # d
      PROVE  new[k] = cols[k] /\ Tiles(new[k]) \cap (Tiles(a) \cup Tiles(b)) = {}
  <2>1. Tiles(cols[k]) \cap Tiles(cols[c]) = {} /\ Tiles(cols[k]) \cap Tiles(cols[d]) = {}
    BY <1>5, <1>7
  <2>2. new[k] = cols[k]
    BY <1>4, <1>7
  <2> QED BY <2>1, <2>2
<1>8. ASSUME NEW k \in 1 .. Len(cols), NEW l \in 1 .. Len(cols), k # l
      PROVE  Tiles(new[k]) \cap Tiles(new[l]) = {}
  <2>1. new[c] = a /\ new[d] = b
    BY <1>4
  <2>2. CASE k \in {c, d} /\ l \in {c, d}
    BY <1>8, <2>1, <2>2
  <2>3. CASE k \in {c, d} /\ l \notin {c, d}
    BY <1>7, <2>1, <2>3
  <2>4. CASE k \notin {c, d} /\ l \in {c, d}
    BY <1>7, <2>1, <2>4
  <2>5. CASE k \notin {c, d} /\ l \notin {c, d}
    BY <1>5, <1>7, <1>8, <2>5
  <2> QED BY <2>2, <2>3, <2>4, <2>5
<1>9. GoodColumns(new, W)
  BY <1>3, <1>4, <1>6, <1>8, ReplaceColumnsGood
<1>10. ASSUME NEW x PROVE x \in TilesIn(new) <=> x \in TilesIn(cols)
  <2>1. x \in TilesIn(new) <=> \E k \in 1 .. Len(cols) : x \in Tiles(new[k])
    BY <1>3, <1>4, TilesInOf
  <2>2. x \in TilesIn(cols) <=> \E k \in 1 .. Len(cols) : x \in Tiles(cols[k])
    BY <1>1, TilesInOf
  <2>3. new[c] = a /\ new[d] = b
    BY <1>4
  <2>4. CASE x \in Tiles(a) \cup Tiles(b)
    BY <2>1, <2>2, <2>3, <2>4
  <2>5. CASE x \notin Tiles(a) \cup Tiles(b)
    BY <1>7, <2>1, <2>2, <2>3, <2>5
  <2> QED BY <2>4, <2>5
<1>11. TilesIn(new) = TilesIn(cols)
  BY <1>10
<1> QED BY <1>9, <1>11 DEF new, mid

\* Two columns written into a workspace at once.
WithBoth(ws, c, x, d, y) == [ws EXCEPT !.columns[c] = x, !.columns[d] = y]

LEMMA WriteTwoColumns ==
    ASSUME NEW W, NEW ws \in StripType(W), NEW c \in 1 .. Len(ws.columns),
           NEW d \in 1 .. Len(ws.columns), NEW x, NEW y
    PROVE  WithBoth(ws, c, x, d, y)
           = [ws EXCEPT !.columns = ReplaceAt(ReplaceAt(ws.columns, c, x), d, y)]
<1>1. [ws EXCEPT !.columns[c] = x, !.columns[d] = y]
      = [[ws EXCEPT !.columns[c] = x] EXCEPT !.columns[d] = y]
  BY DEF StripType
<1> DEFINE cols == ws.columns
           mid == [cols EXCEPT ![c] = x]
           new == [mid EXCEPT ![d] = y]
<1>2. ws = [columns |-> cols, active |-> ws.active, named |-> ws.named]
  BY DEF StripType
<1>3. [ws EXCEPT !.columns[c] = x] = [columns |-> mid, active |-> ws.active, named |-> ws.named]
  BY DEF StripType
<1> HIDE DEF mid
<1>4. [[columns |-> mid, active |-> ws.active, named |-> ws.named] EXCEPT !.columns[d] = y]
      = [columns |-> new, active |-> ws.active, named |-> ws.named]
  OBVIOUS
<1> HIDE DEF new
<1>5. [ws EXCEPT !.columns = new] = [columns |-> new, active |-> ws.active, named |-> ws.named]
  BY DEF StripType
<1> QED BY <1>1, <1>3, <1>4, <1>5 DEF mid, new, ReplaceAt, WithBoth

ColumnWith(t, a, b) == [tiles |-> t, active |-> a, tab |-> b]

LEMMA SwapTileColumn ==
    ASSUME NEW W, NEW col, GoodColumn(col, W), NEW i \in 1 .. Len(col.tiles),
           NEW x \in W, x \notin Tiles(col), NEW a \in W \cup {NoWindow},
           NEW b \in 0 .. Len(col.tiles), NEW y, col.tiles[i] = y
    PROVE  /\ GoodColumn(ColumnWith(ReplaceAt(col.tiles, i, x), a, b), W)
           /\ Tiles(ColumnWith(ReplaceAt(col.tiles, i, x), a, b)) = (Tiles(col) \ {y}) \cup {x}
<1> DEFINE t == col.tiles
           u == ReplaceAt(t, i, x)
<1>1. t \in Seq(W) /\ Len(t) \in Nat \ {0} /\ IsInjective(t)
  BY ColumnFields
<1>2. u \in Seq(W) /\ Len(u) = Len(t) /\ IsInjective(u) /\ ToSet(u) = (ToSet(t) \ {t[i]}) \cup {x}
  BY <1>1, ReplaceTile DEF Tiles
<1> HIDE DEF u
<1>3. Len(u) # 0 /\ b \in Nat /\ b <= Len(u)
  BY <1>1, <1>2
<1>4. GoodColumn(ColumnWith(u, a, b), W) /\ Tiles(ColumnWith(u, a, b)) = ToSet(u)
  BY <1>2, <1>3, MakeColumn DEF ColumnWith
<1> QED BY <1>2, <1>4 DEF u, Tiles

\* swap with the neighbour: the window and the active tile beside it change places.
LEMMA SwapWithNeighbourGood ==
    ASSUME NEW W, NEW ws, GoodStrip(ws, W), NEW w, NEW delta \in {-1, 1}
    PROVE  Rearranged(SwapWithNeighbour(ws, w, delta), ws, W)
<1> DEFINE cols == ws.columns
           c == FindColumn(ws, w)
           t == c + delta
           mine == cols[c]
           theirs == cols[t]
           from == IndexIn(mine.tiles, w)
           other == ActiveWindow(theirs)
           at == IndexIn(theirs.tiles, other)
           a == IF mine.active = w THEN other ELSE mine.active
           b == IF Tabbed(theirs) THEN at ELSE 0
           left == ColumnWith(ReplaceAt(mine.tiles, from, other), a, mine.tab)
           right == ColumnWith(ReplaceAt(theirs.tiles, at, w), w, b)
           new == ReplaceAt(ReplaceAt(cols, c, left), t, right)
<1>1. /\ cols \in Seq(ColumnType(W)) /\ Len(cols) \in Nat /\ GoodColumns(cols, W)
      /\ DOMAIN cols = 1 .. Len(cols) /\ WindowsOf(ws) = TilesIn(cols)
      /\ c \in 0 .. Len(cols) /\ ws \in StripType(W)
  BY StripFields, Finding
<1>2. CASE c = 0 \/ t \notin 1 .. Len(cols)
  BY <1>1, <1>2, RearrangedSame DEF SwapWithNeighbour
<1>3. CASE c # 0 /\ t \in 1 .. Len(cols)
  <2>1. c \in 1 .. Len(cols) /\ t \in 1 .. Len(cols) /\ c # t
    BY <1>1, <1>3
  <2>2. GoodColumn(mine, W) /\ w \in Tiles(mine) /\ w \in W
    BY <1>3, Finding
  <2>3. GoodColumn(theirs, W) /\ Tiles(mine) \cap Tiles(theirs) = {}
    BY <1>1, <2>1 DEF GoodColumns
  <2>4. other \in Tiles(theirs)
    BY <2>3, ActiveGood
  <2> HIDE DEF cols, c, t, other
  <2>5. /\ mine.tiles \in Seq(W) /\ mine.active \in W \cup {NoWindow} /\ mine.tab \in 0 .. Len(mine.tiles)
        /\ mine \in ColumnType(W) /\ Len(mine.tiles) \in Nat
    BY <2>2, ColumnFields DEF GoodColumn
  <2>6. theirs.tiles \in Seq(W) /\ Tiles(theirs) \subseteq W /\ theirs \in ColumnType(W)
    BY <2>3, ColumnFields DEF GoodColumn
  <2> HIDE DEF mine, theirs
  <2>7. from \in 1 .. Len(mine.tiles) /\ mine.tiles[from] = w
    BY <2>2, <2>5, IndexInProperties, InSeqOf DEF Tiles
  <2>8. at \in 1 .. Len(theirs.tiles) /\ theirs.tiles[at] = other
    BY <2>4, <2>6, IndexInProperties, InSeqOf DEF Tiles
  <2>9. /\ SwapWithNeighbour(ws, w, delta)
           = [ws EXCEPT !.columns[c] = [mine EXCEPT !.tiles[from] = other,
                                                    !.active = IF @ = w THEN other ELSE @],
                        !.columns[t] = [theirs EXCEPT !.tiles[at] = w, !.active = w,
                                                      !.tab = IF Tabbed(theirs) THEN at ELSE 0]]
    <3>1. ~(c = 0 \/ t \notin DOMAIN cols) /\ at # 0
      BY <1>1, <1>3, <2>8
    <3> QED BY <3>1 DEF SwapWithNeighbour, c, t, mine, theirs, other, cols
  <2> HIDE DEF from, at
  <2>10. [mine EXCEPT !.tiles[from] = other, !.active = IF @ = w THEN other ELSE @] = left
    <3>1. [mine EXCEPT !.tiles[from] = other, !.active = IF @ = w THEN other ELSE @]
          = [[mine EXCEPT !.tiles = [mine.tiles EXCEPT ![from] = other]] EXCEPT !.active = a]
      BY <2>5 DEF ColumnType
    <3>2. \A x : [mine EXCEPT !.tiles = x] = [tiles |-> x, active |-> mine.active, tab |-> mine.tab]
      BY <2>5 DEF ColumnType
    <3>3. \A x, y : [[tiles |-> x, active |-> mine.active, tab |-> mine.tab] EXCEPT !.active = y]
                    = [tiles |-> x, active |-> y, tab |-> mine.tab]
      OBVIOUS
    <3> QED BY <3>1, <3>2, <3>3 DEF ReplaceAt, ColumnWith
  <2>11. [theirs EXCEPT !.tiles[at] = w, !.active = w, !.tab = b] = right
    <3> DEFINE e == [theirs.tiles EXCEPT ![at] = w]
    <3>1. [theirs EXCEPT !.tiles[at] = w, !.active = w, !.tab = b]
          = [[[theirs EXCEPT !.tiles = e] EXCEPT !.active = w] EXCEPT !.tab = b]
      BY <2>6 DEF ColumnType
    <3>0. right = [tiles |-> e, active |-> w, tab |-> b]
      BY DEF ReplaceAt, ColumnWith
    <3> HIDE DEF e, b, right
    <3>2. \A x : [theirs EXCEPT !.tiles = x] = [tiles |-> x, active |-> theirs.active, tab |-> theirs.tab]
      BY <2>6 DEF ColumnType
    <3>3. \A x, y : [[tiles |-> x, active |-> theirs.active, tab |-> theirs.tab] EXCEPT !.active = y]
                    = [tiles |-> x, active |-> y, tab |-> theirs.tab]
      OBVIOUS
    <3>4. \A x, y, z : [[tiles |-> x, active |-> y, tab |-> theirs.tab] EXCEPT !.tab = z]
                       = [tiles |-> x, active |-> y, tab |-> z]
      OBVIOUS
    <3> DEFINE one == [tiles |-> e, active |-> theirs.active, tab |-> theirs.tab]
               two == [tiles |-> e, active |-> w, tab |-> theirs.tab]
    <3>5. [theirs EXCEPT !.tiles = e] = one
      BY <3>2
    <3>6. [one EXCEPT !.active = w] = two
      BY <3>3
    <3>7. [two EXCEPT !.tab = b] = right
      BY <3>0, <3>4
    <3> HIDE DEF one, two
    <3> QED BY <3>1, <3>5, <3>6, <3>7
  <2>12. GoodColumn(left, W) /\ Tiles(left) = (Tiles(mine) \ {w}) \cup {other}
    <3>1. a \in W \cup {NoWindow} /\ other \in W /\ other \notin Tiles(mine)
      BY <2>3, <2>4, <2>5, <2>6
    <3>2. from \in 1 .. Len(mine.tiles)
      BY <2>7
    <3> DEFINE tab == mine.tab
    <3>3. tab \in 0 .. Len(mine.tiles)
      BY <2>5
    <3> HIDE DEF a, tab
    <3>4. GoodColumn(mine, W) /\ mine.tiles[from] = w
      BY <2>2, <2>7
    <3>5. /\ GoodColumn(ColumnWith(ReplaceAt(mine.tiles, from, other), a, tab), W)
          /\ Tiles(ColumnWith(ReplaceAt(mine.tiles, from, other), a, tab)) = (Tiles(mine) \ {w}) \cup {other}
      BY <3>1, <3>2, <3>3, <3>4, SwapTileColumn
    <3> QED BY <3>5 DEF tab
  <2>13. GoodColumn(right, W) /\ Tiles(right) = (Tiles(theirs) \ {other}) \cup {w}
    <3>1. b \in 0 .. Len(theirs.tiles) /\ w \notin Tiles(theirs) /\ w \in W \cup {NoWindow}
      BY <2>2, <2>3, <2>8
    <3> HIDE DEF b
    <3> QED BY <2>2, <2>3, <2>8, <3>1, SwapTileColumn
  <2> HIDE DEF left, right, b
  <2>14. /\ Tiles(left) \cap Tiles(right) = {}
         /\ Tiles(left) \cup Tiles(right) = Tiles(cols[c]) \cup Tiles(cols[t])
    BY <2>2, <2>3, <2>4, <2>12, <2>13 DEF mine, theirs
  <2>15. GoodColumns(new, W) /\ TilesIn(new) = TilesIn(cols)
    BY <1>1, <2>1, <2>12, <2>13, <2>14, ReplaceTwoColumns
  <2>16. SwapWithNeighbour(ws, w, delta) = [ws EXCEPT !.columns[c] = left, !.columns[t] = right]
    BY <2>9, <2>10, <2>11 DEF b
  <2>17. SwapWithNeighbour(ws, w, delta) = [ws EXCEPT !.columns = new]
    <3>1. SwapWithNeighbour(ws, w, delta) = WithBoth(ws, c, left, t, right)
      BY <2>16 DEF WithBoth
    <3>2. WithBoth(ws, c, left, t, right) = [ws EXCEPT !.columns = ReplaceAt(ReplaceAt(ws.columns, c, left), t, right)]
      BY <1>1, <2>1, WriteTwoColumns DEF cols
    <3> QED BY <3>1, <3>2 DEF cols
  <2> HIDE DEF new
  <2> QED BY <2>15, <2>17, RearrangedBy DEF cols
<1> QED BY <1>2, <1>3

\* A whole column moves: it is found at its new index.
LEMMA MoveColumnToGood ==
    ASSUME NEW W, NEW ws, GoodStrip(ws, W), NEW c \in 1 .. Len(ws.columns),
           NEW target \in 1 .. Len(ws.columns)
    PROVE  /\ Rearranged(MoveColumnTo(ws, c, target), ws, W)
           /\ target \in 1 .. Len(MoveColumnTo(ws, c, target).columns)
           /\ MoveColumnTo(ws, c, target).columns[target] = ws.columns[c]
<1> DEFINE cols == ws.columns
           col == cols[c]
           less == RemoveAt(cols, c)
           new == InsertAt(less, target, col)
<1>1. /\ cols \in Seq(ColumnType(W)) /\ Len(cols) \in Nat /\ GoodColumns(cols, W)
      /\ DOMAIN cols = 1 .. Len(cols) /\ GoodColumn(col, W)
  BY StripFields
<1>2. MoveColumnTo(ws, c, target) = [ws EXCEPT !.columns = new]
  BY <1>1 DEF MoveColumnTo
<1>3. GoodColumns(less, W) /\ TilesIn(less) = TilesIn(cols) \ Tiles(col) /\ Len(less) = Len(cols) - 1
  BY <1>1, RemoveColumnGood
<1>4. target \in 1 .. Len(less) + 1 /\ Tiles(col) \cap TilesIn(less) = {}
  BY <1>1, <1>3
<1>5. Tiles(col) \subseteq TilesIn(cols)
  BY <1>1, TilesInOf
<1> HIDE DEF less, col
<1>6. /\ GoodColumns(new, W) /\ TilesIn(new) = TilesIn(less) \cup Tiles(col)
      /\ Len(new) = Len(less) + 1 /\ new[target] = col
  <2>1. GoodColumns(less, W)
    BY <1>3
  <2> QED BY <1>1, <1>4, <2>1, InsertColumnGood
<1>7. TilesIn(new) = TilesIn(cols)
  BY <1>3, <1>5, <1>6
<1>8. Len(new) = Len(cols)
  BY <1>1, <1>3, <1>6
<1> HIDE DEF new
<1>9. [ws EXCEPT !.columns = new].columns = new
  BY <1>6, WithColumns
<1> QED BY <1>2, <1>6, <1>7, <1>8, <1>9, RearrangedBy DEF col

----------------------------------------------------------------------------
(* Columns that change in place, and columns that leave the strip. *)

\* Columns that keep their tiles keep every window where it is.
LEMMA SameTilesGood ==
    ASSUME NEW W, NEW ws, GoodStrip(ws, W), NEW new \in Seq(ColumnType(W)), Len(new) = Len(ws.columns),
           \A c \in 1 .. Len(ws.columns) : GoodColumn(new[c], W) /\ new[c].tiles = ws.columns[c].tiles
    PROVE  /\ GoodStrip([ws EXCEPT !.columns = new], W)
           /\ SamePlaces([ws EXCEPT !.columns = new], ws)
           /\ [ws EXCEPT !.columns = new].named = ws.named
           /\ [ws EXCEPT !.columns = new].active = ws.active
           /\ [ws EXCEPT !.columns = new].columns = new
<1>1. Len(ws.columns) \in Nat /\ GoodColumns(ws.columns, W)
  BY StripFields
<1>2. \A c \in 1 .. Len(ws.columns) : Tiles(new[c]) = Tiles(ws.columns[c])
  BY DEF Tiles
<1>3. GoodColumns(new, W)
  BY <1>1, <1>2 DEF GoodColumns
<1>4. /\ GoodStrip([ws EXCEPT !.columns = new], W)
      /\ [ws EXCEPT !.columns = new].columns = new
      /\ [ws EXCEPT !.columns = new].active = ws.active
      /\ [ws EXCEPT !.columns = new].named = ws.named
  BY <1>3, WithColumns
<1> QED BY <1>1, <1>4 DEF SamePlaces

\* One column is written back with its tiles.
LEMMA SameTilesAt ==
    ASSUME NEW W, NEW ws, GoodStrip(ws, W), NEW c \in 1 .. Len(ws.columns),
           NEW col, GoodColumn(col, W), col.tiles = ws.columns[c].tiles
    PROVE  LET n == [ws EXCEPT !.columns = ReplaceAt(ws.columns, c, col)]
           IN  /\ GoodStrip(n, W) /\ SamePlaces(n, ws)
               /\ n.named = ws.named /\ n.active = ws.active
               /\ n.columns = ReplaceAt(ws.columns, c, col)
<1> DEFINE cols == ws.columns
           new == ReplaceAt(cols, c, col)
<1>1. /\ cols \in Seq(ColumnType(W)) /\ Len(cols) \in Nat
      /\ \A d \in 1 .. Len(cols) : GoodColumn(cols[d], W)
  BY StripFields
<1>2. col \in ColumnType(W)
  BY DEF GoodColumn
<1>3. /\ new \in Seq(ColumnType(W)) /\ Len(new) = Len(cols)
      /\ \A d \in 1 .. Len(cols) : new[d] = IF d = c THEN col ELSE cols[d]
  <2>1. c \in 1 .. Len(cols)
    OBVIOUS
  <2> HIDE DEF cols
  <2>2. IsReplacement(new, ColumnType(W), cols, c, col)
    BY <1>1, <1>2, <2>1, ReplaceAtIsReplacement
  <2> HIDE DEF new
  <2> QED BY <2>2 DEF IsReplacement
<1> HIDE DEF new
<1>4. \A d \in 1 .. Len(ws.columns) : GoodColumn(new[d], W) /\ new[d].tiles = ws.columns[d].tiles
  BY <1>1, <1>3
<1>5. Len(new) = Len(ws.columns)
  BY <1>3
<1>6. /\ GoodStrip([ws EXCEPT !.columns = new], W)
      /\ SamePlaces([ws EXCEPT !.columns = new], ws)
      /\ [ws EXCEPT !.columns = new].named = ws.named
      /\ [ws EXCEPT !.columns = new].active = ws.active
      /\ [ws EXCEPT !.columns = new].columns = new
  BY <1>3, <1>4, <1>5, SameTilesGood
<1> QED BY <1>6 DEF new

\* The layout pass over one strip: every column with the tile selects it.
ShownStrip(ws, w) ==
    [ws EXCEPT !.columns = [i \in DOMAIN @ |-> ClampTab(SelectWindow(@[i], w))]]

LEMMA ShownGood ==
    ASSUME NEW W, NEW ws, GoodStrip(ws, W), NEW w
    PROVE  /\ GoodStrip(ShownStrip(ws, w), W) /\ SamePlaces(ShownStrip(ws, w), ws)
           /\ ShownStrip(ws, w).named = ws.named /\ ShownStrip(ws, w).active = ws.active
           /\ \A c \in 1 .. Len(ws.columns) : ShownStrip(ws, w).columns[c] = SelectWindow(ws.columns[c], w)
<1> DEFINE cols == ws.columns
           new == [i \in DOMAIN ws.columns |-> ClampTab(SelectWindow(ws.columns[i], w))]
<1>1. /\ cols \in Seq(ColumnType(W)) /\ Len(cols) \in Nat /\ DOMAIN cols = 1 .. Len(cols)
      /\ \A d \in 1 .. Len(cols) : GoodColumn(cols[d], W)
  BY StripFields
<1>2. \A c \in 1 .. Len(cols) : /\ GoodColumn(SelectWindow(cols[c], w), W)
                                /\ SelectWindow(cols[c], w).tiles = cols[c].tiles
  BY <1>1, SelectWindowGood
<1>3. \A c \in 1 .. Len(cols) : new[c] = SelectWindow(cols[c], w)
  BY <1>1, <1>2, ClampTabNothing
<1>4. DOMAIN new = 1 .. Len(cols)
  BY <1>1
<1>5. \A c \in 1 .. Len(cols) : new[c] \in ColumnType(W)
  BY <1>2, <1>3 DEF GoodColumn
<1>6. new \in [1 .. Len(cols) -> ColumnType(W)]
  <2>1. new = [i \in 1 .. Len(cols) |-> ClampTab(SelectWindow(cols[i], w))]
    BY <1>1
  <2> HIDE DEF new
  <2> QED BY <1>4, <1>5, <2>1
<1> HIDE DEF new
<1>7. new \in Seq(ColumnType(W)) /\ Len(new) = Len(cols)
  BY <1>1, <1>6
<1>8. \A c \in 1 .. Len(ws.columns) : GoodColumn(new[c], W) /\ new[c].tiles = ws.columns[c].tiles
  BY <1>2, <1>3
<1>9. /\ GoodStrip([ws EXCEPT !.columns = new], W)
      /\ SamePlaces([ws EXCEPT !.columns = new], ws)
      /\ [ws EXCEPT !.columns = new].named = ws.named
      /\ [ws EXCEPT !.columns = new].active = ws.active
      /\ [ws EXCEPT !.columns = new].columns = new
  BY <1>7, <1>8, SameTilesGood
<1>10. ShownStrip(ws, w) = [ws EXCEPT !.columns = new]
  BY DEF ShownStrip, new
<1> QED BY <1>3, <1>9, <1>10

\* new column policy: the display of a column of one tile; its tiles stay.
LEMMA WithTabGood ==
    ASSUME NEW W, NEW col, GoodColumn(col, W), NEW b \in {0, 1}
    PROVE  GoodColumn([col EXCEPT !.tab = b], W) /\ [col EXCEPT !.tab = b].tiles = col.tiles
<1>1. /\ col.tiles \in Seq(W) /\ Len(col.tiles) \in Nat \ {0} /\ IsInjective(col.tiles)
      /\ col.active \in W \cup {NoWindow} /\ col \in ColumnType(W)
  BY ColumnFields DEF GoodColumn
<1>2. [col EXCEPT !.tab = b] = [tiles |-> col.tiles, active |-> col.active, tab |-> b]
  BY <1>1 DEF ColumnType
<1> DEFINE t == col.tiles
           a == col.active
<1>3. t \in Seq(W) /\ Len(t) # 0 /\ IsInjective(t) /\ a \in W \cup {NoWindow} /\ b \in Nat /\ b <= Len(t)
  BY <1>1
<1>4. [col EXCEPT !.tab = b] = [tiles |-> t, active |-> a, tab |-> b]
  BY <1>2
<1> HIDE DEF t, a
<1>5. GoodColumn([tiles |-> t, active |-> a, tab |-> b], W)
  BY <1>3, MakeColumn
<1> QED BY <1>4, <1>5 DEF t

----------------------------------------------------------------------------
(* The slot a minimized window leaves. *)

LEMMA ReverseGood ==
    ASSUME NEW W, NEW s \in Seq(W)
    PROVE  Reverse(s) \in Seq(W)
<1>1. Len(s) \in Nat /\ \A i \in 1 .. Len(s) : s[i] \in W
  BY ElementOfSeq
<1> DEFINE n == Len(s)
<1>2. [i \in 1 .. n |-> s[(n - i) + 1]] \in [1 .. n -> W]
  <2>1. ASSUME NEW i \in 1 .. n PROVE s[(n - i) + 1] \in W
    BY <1>1
  <2> QED BY <2>1
<1>3. Reverse(s) = [i \in 1 .. n |-> s[(n - i) + 1]]
  BY DEF Reverse
<1> HIDE DEF n
<1>4. n \in Nat
  BY <1>1 DEF n
<1> QED BY <1>2, <1>3, <1>4

LEMMA PartGood ==
    ASSUME NEW W, NEW s \in Seq(W), NEW i \in Int, NEW j \in Int, 1 <= i, j <= Len(s)
    PROVE  SubSeq(s, i, j) \in Seq(W)
<1>1. \A k \in i .. j : s[k] \in W
  BY ElementOfSeq
<1> QED BY <1>1, SubSeqProperties

LEMMA TilesOfGood ==
    ASSUME NEW W, NEW cols \in Seq(ColumnType(W))
    PROVE  TilesOf(cols) \in Seq(W)
<1>1. /\ Len(cols) \in Nat /\ DOMAIN cols = 1 .. Len(cols)
      /\ \A i \in 1 .. Len(cols) : cols[i].tiles \in Seq(W)
  <2>1. \A i \in 1 .. Len(cols) : cols[i] \in ColumnType(W)
    BY ElementOfSeq
  <2>2. Len(cols) \in Nat /\ DOMAIN cols = 1 .. Len(cols)
    OBVIOUS
  <2> QED BY <2>1, <2>2 DEF ColumnType
<1>2. [i \in DOMAIN cols |-> cols[i].tiles] \in Seq(Seq(W))
  <2>1. [i \in DOMAIN cols |-> cols[i].tiles] \in [1 .. Len(cols) -> Seq(W)]
    BY <1>1
  <2> QED BY <1>1, <2>1
<1> QED BY <1>2, FlattenGood DEF TilesOf

LEMMA SlotOfGood ==
    ASSUME NEW W, NEW ws, GoodStrip(ws, W), NEW w \in WindowsOf(ws)
    PROVE  SlotOf(ws, w) \in SlotType(W) /\ SlotOf(ws, w).window = w
<1> DEFINE cols == ws.columns
           c == FindColumn(ws, w)
           tiles == cols[c].tiles
           i == IndexIn(tiles, w)
<1>1. /\ cols \in Seq(ColumnType(W)) /\ Len(cols) \in Nat /\ c \in 1 .. Len(cols)
      /\ GoodColumn(cols[c], W) /\ w \in Tiles(cols[c]) /\ w \in W
  BY StripFields, Finding
<1>2. tiles \in Seq(W) /\ Len(tiles) \in Nat
  BY <1>1, ColumnFields
<1>3. i \in 1 .. Len(tiles)
  BY <1>1, <1>2, IndexInProperties, InSeqOf DEF Tiles
<1> HIDE DEF c, i, tiles
<1>4. SubSeq(tiles, 1, i - 1) \in Seq(W) /\ SubSeq(tiles, i + 1, Len(tiles)) \in Seq(W)
  BY <1>2, <1>3, PartGood
<1>5. /\ SubSeq(cols, 1, c - 1) \in Seq(ColumnType(W))
      /\ SubSeq(cols, c + 1, Len(cols)) \in Seq(ColumnType(W))
  BY <1>1, PartGood
<1>6. LeftOf(ws, c) \in Seq(W) /\ RightOf(ws, c) \in Seq(W)
  BY <1>5, ReverseGood, TilesOfGood DEF LeftOf, RightOf
<1>7. Reverse(SubSeq(tiles, 1, i - 1)) \in Seq(W)
  BY <1>4, ReverseGood
<1>8. SlotOf(ws, w)
      = [window |-> w, column |-> c, index |-> i, tabbed |-> Tabbed(cols[c]),
         above |-> Reverse(SubSeq(tiles, 1, i - 1)),
         below |-> SubSeq(tiles, i + 1, Len(tiles)),
         left  |-> LeftOf(ws, c), right |-> RightOf(ws, c)]
  BY DEF SlotOf, c, i, tiles
<1>9. Tabbed(cols[c]) \in BOOLEAN
  BY DEF Tabbed
<1>10. c \in Nat \ {0} /\ i \in Nat \ {0}
  BY <1>1, <1>2, <1>3
<1> HIDE DEF cols
<1> QED BY <1>1, <1>4, <1>6, <1>7, <1>8, <1>9, <1>10 DEF SlotType

LEMMA InsertNearestGood ==
    ASSUME NEW W, NEW list \in Seq(W), NEW other \in W, NEW beyond \in Seq(W)
    PROVE  InsertNearestFirst(list, other, beyond) \in Seq(W)
<1> DEFINE at == SelectInSeq(list, LAMBDA w : InSeq(beyond, w))
           k == IF at = 0 THEN Len(list) + 1 ELSE at
<1>1. at \in 0 .. Len(list)
  <2> DEFINE I == {i \in 1 .. Len(list) : InSeq(beyond, list[i])}
  <2>1. I \in SUBSET Nat
    OBVIOUS
  <2>2. at = IF I # {} THEN Min(I) ELSE 0
    BY DEF SelectInSeq
  <2>3. I # {} => Min(I) \in I
    BY <2>1, MinOfSet
  <2> QED BY <2>2, <2>3
<1>2. InsertNearestFirst(list, other, beyond) = InsertAt(list, k, other)
  BY DEF InsertNearestFirst
<1> HIDE DEF at
<1>3. k \in 1 .. Len(list) + 1
  <2>1. Len(list) \in Nat
    OBVIOUS
  <2> QED BY <1>1, <2>1
<1> HIDE DEF k
<1> QED BY <1>2, <1>3, InsertAtProperties

\* Folding an earlier slot in changes one list of neighbours at most.
LEMMA LearnFromGood ==
    ASSUME NEW W, NEW slot \in SlotType(W), NEW earlier \in SlotType(W)
    PROVE  LearnFrom(slot, earlier) \in SlotType(W) /\ LearnFrom(slot, earlier).window = slot.window
<1> DEFINE other == earlier.window
<1>1. /\ other \in W
      /\ {slot.above, slot.below, slot.left, slot.right} \subseteq Seq(W)
      /\ {earlier.above, earlier.below, earlier.left, earlier.right} \subseteq Seq(W)
  BY DEF SlotType
<1> DEFINE a == InsertNearestFirst(slot.above, other, earlier.above)
           b == InsertNearestFirst(slot.below, other, earlier.below)
           l == InsertNearestFirst(slot.left, other, earlier.left)
           r == InsertNearestFirst(slot.right, other, earlier.right)
<1>3. a \in Seq(W) /\ b \in Seq(W) /\ l \in Seq(W) /\ r \in Seq(W)
  <2> HIDE DEF other
  <2>1. slot.above \in Seq(W) /\ slot.below \in Seq(W) /\ slot.left \in Seq(W) /\ slot.right \in Seq(W)
    BY <1>1
  <2>2. /\ earlier.above \in Seq(W) /\ earlier.below \in Seq(W)
        /\ earlier.left \in Seq(W) /\ earlier.right \in Seq(W)
    BY <1>1
  <2> QED BY <1>1, <2>1, <2>2, InsertNearestGood
<1>4. LearnFrom(slot, earlier) \in {slot, [slot EXCEPT !.above = a], [slot EXCEPT !.below = b],
                                    [slot EXCEPT !.left = l], [slot EXCEPT !.right = r]}
  BY DEF LearnFrom
<1> HIDE DEF a, b, l, r
<1>5. CASE LearnFrom(slot, earlier) = slot
  BY <1>5
<1>6. CASE LearnFrom(slot, earlier) = [slot EXCEPT !.above = a]
  BY <1>3, <1>6 DEF SlotType
<1>7. CASE LearnFrom(slot, earlier) = [slot EXCEPT !.below = b]
  BY <1>3, <1>7 DEF SlotType
<1>8. CASE LearnFrom(slot, earlier) = [slot EXCEPT !.left = l]
  BY <1>3, <1>8 DEF SlotType
<1>9. CASE LearnFrom(slot, earlier) = [slot EXCEPT !.right = r]
  BY <1>3, <1>9 DEF SlotType
<1> QED BY <1>4, <1>5, <1>6, <1>7, <1>8, <1>9

LEMMA LearnedGood ==
    ASSUME NEW W, NEW slot \in SlotType(W), NEW earlier \in Seq(SlotType(W))
    PROVE  Learned(slot, earlier) \in SlotType(W) /\ Learned(slot, earlier).window = slot.window
<1> DEFINE n == Len(earlier)
           T == {s \in SlotType(W) : s.window = slot.window}
           r == [k \in 1 .. n |-> [s \in T |-> LearnFrom(s, earlier[k])]]
           IsAfter(f) == f = [k \in 0 .. n |-> IF k = 0 THEN slot ELSE LearnFrom(f[k - 1], earlier[k])]
           g == CHOOSE f : IsAfter(f)
<1>1. n \in Nat /\ \A k \in 1 .. n : earlier[k] \in SlotType(W)
  BY ElementOfSeq
<1>2. ASSUME NEW k \in 1 .. n, NEW s \in T PROVE LearnFrom(s, earlier[k]) \in T
  <2>1. earlier[k] \in SlotType(W) /\ s \in SlotType(W) /\ s.window = slot.window
    BY <1>1
  <2> QED BY <2>1, LearnFromGood
<1>3. slot \in T
  OBVIOUS
<1> HIDE DEF n, T
<1>4. r \in [1 .. n -> [T -> T]]
  BY <1>2
<1> HIDE DEF r
<1>5. PICK f \in [0 .. n -> T] : Steps(f, n, slot, r)
  BY <1>1, <1>3, <1>4, Iterated
<1>6. ASSUME NEW k \in 0 .. n
      PROVE  f[k] = IF k = 0 THEN slot ELSE LearnFrom(f[k - 1], earlier[k])
  <2>1. CASE k = 0
    BY <1>5, <2>1 DEF Steps
  <2>2. CASE k # 0
    <3>1. k \in 1 .. n /\ k - 1 \in 0 .. n
      BY <1>1, <2>2
    <3>2. f[k] = r[k][f[k - 1]] /\ f[k - 1] \in T
      BY <1>5, <3>1 DEF Steps
    <3> QED BY <2>2, <3>1, <3>2 DEF r
  <2> QED BY <2>1, <2>2
<1>7. IsAfter(f)
  BY <1>6
<1>8. IsAfter(g)
  <2>1. \E e : IsAfter(e)
    BY <1>7
  <2> HIDE DEF IsAfter
  <2> QED BY <2>1
<1>9. Learned(slot, earlier) = g[n]
  BY DEF Learned, n
<1> HIDE DEF g
<1> DEFINE S == {k \in Nat : k <= n => g[k] \in T}
<1>10. \A k \in 0 .. n : g[k] = IF k = 0 THEN slot ELSE LearnFrom(g[k - 1], earlier[k])
  BY <1>8
<1>11. 0 \in S
  BY <1>1, <1>3, <1>10
<1>12. ASSUME NEW k \in Nat, k \in S PROVE k + 1 \in S
  <2> SUFFICES ASSUME k + 1 <= n PROVE g[k + 1] \in T
    OBVIOUS
  <2> DEFINE j == k + 1
  <2>1. j \in 0 .. n /\ j \in 1 .. n /\ j # 0 /\ j - 1 = k
    BY <1>1
  <2>2. g[k] \in T
    BY <1>1, <1>12
  <2> HIDE DEF j
  <2>3. g[j] = LearnFrom(g[k], earlier[j])
    BY <1>10, <2>1
  <2> QED BY <1>2, <2>1, <2>2, <2>3 DEF j
<1> HIDE DEF S
<1>13. Nat \subseteq S
  BY <1>11, <1>12, Counting
<1>14. g[n] \in T
  BY <1>1, <1>13 DEF S
<1> QED BY <1>9, <1>14 DEF T

----------------------------------------------------------------------------
(***************************************************************************)
(* A monitor value: its record, its stack of workspaces, its focus.        *)
(***************************************************************************)
Typed(m) ==
    /\ m = [order |-> m.order, ws |-> m.ws, active |-> m.active, previous |-> m.previous,
            focusColumn |-> m.focusColumn, focusWindow |-> m.focusWindow, ring |-> m.ring,
            lastActivated |-> m.lastActivated]
    /\ m.order \in Seq(Keys)
    /\ m.ws = [id \in DOMAIN m.ws |-> m.ws[id]]
    /\ DOMAIN m.ws \subseteq Keys
    /\ m.active \in DOMAIN m.ws
    /\ m.previous \in Keys \cup {NoWorkspace}
    /\ m.lastActivated \in Windows \cup {NoWindow}

\* The windows in the strips are those of P, each in one workspace.
Stack(m, P) ==
    /\ Typed(m)
    /\ IsInjective(m.order) /\ ToSet(m.order) = DOMAIN m.ws
    /\ \A id \in DOMAIN m.ws : GoodStrip(m.ws[id], Windows)
    /\ \A i, j \in DOMAIN m.ws : i # j => WindowsOf(m.ws[i]) \cap WindowsOf(m.ws[j]) = {}
    /\ \A w : w \in P <=> \E id \in DOMAIN m.ws : w \in WindowsOf(m.ws[id])

RingIn(ring, P) ==
    /\ ring \in Seq(Windows) /\ IsInjective(ring)
    /\ ToSet(ring) \subseteq P /\ Len(ring) <= RingCapacity

GoodRing(m, P) == RingIn(m.ring, P)

\* The focus is a window of the active workspace and focus_column its column, or there is none.
GoodFocus(m) ==
    /\ m.focusWindow = NoWindow \/ m.focusWindow \in WindowsOf(ActiveStrip(m))
    /\ m.focusColumn = FindColumn(ActiveStrip(m), m.focusWindow)

\* The focused window is drawn.
Shown(m) ==
    m.focusWindow # NoWindow =>
        m.focusWindow \in VisibleTiles(ActiveStrip(m).columns[FindColumn(ActiveStrip(m), m.focusWindow)])

Fit(m, P) == Stack(m, P) /\ GoodRing(m, P) /\ GoodFocus(m)

NamedIn(m) == {id \in DOMAIN m.ws : m.ws[id].named}

\* There is room for one more workspace, and the occupied ones are there.
Roomy(m, occupied) ==
    /\ Cardinality(DOMAIN m.ws) <= MaxKey
    /\ Cardinality(NamedIn(m)) <= MaxNamed
    /\ occupied \subseteq DOMAIN m.ws

\* What maintain_empty_workspace establishes.
Settled(m, occupied, above) ==
    /\ ~HasContent(m, occupied, Last(m.order))
    /\ above => ~HasContent(m, occupied, m.order[1])

----------------------------------------------------------------------------
(* Records. *)

MonNames == {"order", "ws", "active", "previous", "focusColumn", "focusWindow", "ring", "lastActivated"}

IsRec(m) == DOMAIN m = MonNames /\ m = [f \in DOMAIN m |-> m[f]]

\* A record is a function on its field names: in this form a value of many updated fields
\* is compared with another field by field.
LEMMA TypedIsRec ==
    ASSUME NEW m, Typed(m)
    PROVE  IsRec(m)
<1> DEFINE o == m.order
           g == m.ws
           a == m.active
           p == m.previous
           fc == m.focusColumn
           fw == m.focusWindow
           rr == m.ring
           la == m.lastActivated
<1>1. m = [order |-> o, ws |-> g, active |-> a, previous |-> p,
           focusColumn |-> fc, focusWindow |-> fw, ring |-> rr, lastActivated |-> la]
  BY DEF Typed
<1> HIDE DEF o, g, a, p, fc, fw, rr, la
<1> QED BY <1>1 DEF IsRec, MonNames

LEMMA RecIsLiteral ==
    ASSUME NEW n, IsRec(n)
    PROVE  n = [order |-> n.order, ws |-> n.ws, active |-> n.active, previous |-> n.previous,
                focusColumn |-> n.focusColumn, focusWindow |-> n.focusWindow, ring |-> n.ring,
                lastActivated |-> n.lastActivated]
<1> DEFINE k == [order |-> n.order, ws |-> n.ws, active |-> n.active, previous |-> n.previous,
                 focusColumn |-> n.focusColumn, focusWindow |-> n.focusWindow, ring |-> n.ring,
                 lastActivated |-> n.lastActivated]
<1>1. DOMAIN k = MonNames /\ k = [f \in MonNames |-> k[f]]
  BY DEF MonNames
<1>2. /\ k.order = n.order /\ k.ws = n.ws /\ k.active = n.active /\ k.previous = n.previous
      /\ k.focusColumn = n.focusColumn /\ k.focusWindow = n.focusWindow /\ k.ring = n.ring
      /\ k.lastActivated = n.lastActivated
  OBVIOUS
<1> HIDE DEF k
<1>3. \A f \in MonNames : k[f] = n[f]
  BY <1>2 DEF MonNames
<1>4. DOMAIN n = MonNames /\ n = [f \in MonNames |-> n[f]]
  BY DEF IsRec
<1>5. k = n
  BY <1>1, <1>3, <1>4
<1> QED BY <1>5 DEF k

----------------------------------------------------------------------------
(* Strips that change in place. *)

\* n is m with strips that hold the same windows in the same columns.
InPlace(n, m) ==
    /\ Typed(n)
    /\ n.order = m.order /\ DOMAIN n.ws = DOMAIN m.ws
    /\ n.active = m.active /\ n.previous = m.previous
    /\ \A id \in DOMAIN m.ws : /\ GoodStrip(n.ws[id], Windows)
                               /\ SamePlaces(n.ws[id], m.ws[id])
                               /\ n.ws[id].named = m.ws[id].named

SameFocus(n, m) == n.focusWindow = m.focusWindow /\ n.focusColumn = m.focusColumn

LEMMA InPlaceWindows ==
    ASSUME NEW m, NEW P, Stack(m, P), NEW n, InPlace(n, m), NEW id \in DOMAIN m.ws
    PROVE  /\ WindowsOf(n.ws[id]) = WindowsOf(m.ws[id])
           /\ \A w : Holds(n.ws[id], w) <=> Holds(m.ws[id], w)
           /\ \A w : FindColumn(n.ws[id], w) = FindColumn(m.ws[id], w)
<1>1. /\ GoodStrip(n.ws[id], Windows) /\ GoodStrip(m.ws[id], Windows)
      /\ SamePlaces(n.ws[id], m.ws[id])
  BY DEF InPlace, Stack
<1> QED BY <1>1, SamePlacesFind

LEMMA InPlaceStack ==
    ASSUME NEW m, NEW P, Stack(m, P), NEW n, InPlace(n, m)
    PROVE  Stack(n, P)
<1>1. \A id \in DOMAIN m.ws : WindowsOf(n.ws[id]) = WindowsOf(m.ws[id])
  BY InPlaceWindows
<1>2. n.order = m.order /\ DOMAIN n.ws = DOMAIN m.ws /\ Typed(n)
  BY DEF InPlace
<1>3. \A id \in DOMAIN n.ws : GoodStrip(n.ws[id], Windows)
  BY DEF InPlace
<1> QED BY <1>1, <1>2, <1>3 DEF Stack

LEMMA InPlaceRefl ==
    ASSUME NEW m, NEW P, Stack(m, P)
    PROVE  InPlace(m, m)
BY DEF InPlace, Stack, SamePlaces

LEMMA InPlaceTrans ==
    ASSUME NEW a, NEW b, NEW c, InPlace(a, b), InPlace(b, c)
    PROVE  InPlace(a, c)
BY DEF InPlace, SamePlaces

LEMMA InPlaceContent ==
    ASSUME NEW m, NEW P, Stack(m, P), NEW n, InPlace(n, m), NEW occupied
    PROVE  /\ \A id \in DOMAIN m.ws : HasContent(n, occupied, id) = HasContent(m, occupied, id)
           /\ NamedIn(n) = NamedIn(m)
           /\ Roomy(m, occupied) => Roomy(n, occupied)
<1>1. \A id \in DOMAIN m.ws : WindowsOf(n.ws[id]) = WindowsOf(m.ws[id])
  BY InPlaceWindows
<1>2. DOMAIN n.ws = DOMAIN m.ws /\ \A id \in DOMAIN m.ws : n.ws[id].named = m.ws[id].named
  BY DEF InPlace
<1>3. NamedIn(n) = NamedIn(m)
  BY <1>2 DEF NamedIn
<1> QED BY <1>1, <1>2, <1>3 DEF HasContent, Roomy

LEMMA InPlaceFocus ==
    ASSUME NEW m, NEW P, Stack(m, P), NEW n, InPlace(n, m), GoodFocus(m), SameFocus(n, m)
    PROVE  GoodFocus(n)
<1>1. m.active \in DOMAIN m.ws /\ n.active = m.active
  BY DEF Stack, Typed, InPlace
<1>2. /\ WindowsOf(n.ws[m.active]) = WindowsOf(m.ws[m.active])
      /\ \A w : FindColumn(n.ws[m.active], w) = FindColumn(m.ws[m.active], w)
  BY <1>1, InPlaceWindows
<1> QED BY <1>1, <1>2 DEF GoodFocus, SameFocus, ActiveStrip

\* The ends of the order are workspaces of the stack.
LEMMA Ends ==
    ASSUME NEW m, NEW P, Stack(m, P)
    PROVE  /\ Len(m.order) \in Nat \ {0} /\ m.order \in Seq(Keys) /\ m.order # <<>>
           /\ Last(m.order) \in DOMAIN m.ws /\ m.order[1] \in DOMAIN m.ws
           /\ m.order[1] \in Keys /\ Last(m.order) \in Keys
           /\ Last(m.order) = m.order[Len(m.order)]
           /\ \A i \in 1 .. Len(m.order) : m.order[i] \in DOMAIN m.ws
<1>1. /\ m.order \in Seq(Keys) /\ m.active \in DOMAIN m.ws /\ DOMAIN m.ws \subseteq Keys
      /\ ToSet(m.order) = DOMAIN m.ws
  BY DEF Stack, Typed
<1>2. PICK i \in 1 .. Len(m.order) : m.order[i] = m.active
  BY <1>1, ToSetOf
<1>3. Len(m.order) \in Nat \ {0}
  BY <1>1, <1>2
<1>4. \A j \in 1 .. Len(m.order) : m.order[j] \in DOMAIN m.ws
  BY <1>1, ToSetOf
<1>5. 1 \in 1 .. Len(m.order) /\ Len(m.order) \in 1 .. Len(m.order)
  BY <1>3
<1>6. m.order # <<>>
  BY <1>3
<1> QED BY <1>1, <1>3, <1>4, <1>5, <1>6 DEF Last

LEMMA InPlaceSettled ==
    ASSUME NEW m, NEW P, Stack(m, P), NEW n, InPlace(n, m), NEW occupied, NEW above,
           Settled(m, occupied, above)
    PROVE  Settled(n, occupied, above)
<1>1. n.order = m.order /\ Last(m.order) \in DOMAIN m.ws /\ m.order[1] \in DOMAIN m.ws
  BY Ends DEF InPlace
<1> QED BY <1>1, InPlaceContent DEF Settled

\* A column that has selected a window shows it.
LEMMA SelectedIsShown ==
    ASSUME NEW W, NEW s, GoodStrip(s, W), NEW n, GoodStrip(n, W), SamePlaces(n, s), NEW w \in WindowsOf(s),
           n.columns[FindColumn(s, w)] = SelectWindow(s.columns[FindColumn(s, w)], w)
    PROVE  w \in VisibleTiles(n.columns[FindColumn(n, w)])
<1>1. FindColumn(n, w) = FindColumn(s, w)
  BY SamePlacesFind
<1>2. /\ GoodColumn(s.columns[FindColumn(s, w)], W)
      /\ w \in Tiles(s.columns[FindColumn(s, w)])
  BY Finding
<1>3. w \in VisibleTiles(SelectWindow(s.columns[FindColumn(s, w)], w))
  BY <1>2, SelectWindowGood
<1> QED BY <1>1, <1>3

----------------------------------------------------------------------------
(* Remembering, activating, and the layout pass. *)

LEMMA WithLastActivated ==
    ASSUME NEW m, NEW P, Stack(m, P), NEW w \in Windows \cup {NoWindow}
    PROVE  LET n == [m EXCEPT !.lastActivated = w]
           IN  InPlace(n, m) /\ SameFocus(n, m) /\ n.ring = m.ring /\ n.ws = m.ws
<1> DEFINE n == [m EXCEPT !.lastActivated = w]
<1>1. /\ n.order = m.order /\ n.ws = m.ws /\ n.active = m.active /\ n.previous = m.previous
      /\ n.focusColumn = m.focusColumn /\ n.focusWindow = m.focusWindow /\ n.ring = m.ring
      /\ n.lastActivated = w
  BY DEF Stack, Typed
<1>2. n = [order |-> m.order, ws |-> m.ws, active |-> m.active, previous |-> m.previous,
           focusColumn |-> m.focusColumn, focusWindow |-> m.focusWindow, ring |-> m.ring,
           lastActivated |-> w]
  BY DEF Stack, Typed
<1>3. Typed(n)
  <2> HIDE DEF n
  <2> QED BY <1>1, <1>2 DEF Stack, Typed
<1> HIDE DEF n
<1>4. InPlace(n, m)
  BY <1>1, <1>3 DEF InPlace, Stack, SamePlaces
<1> QED BY <1>1, <1>4 DEF SameFocus, n

\* Remembering a window selects it in its workspace, and moves nothing.
LEMMA RememberActionGood ==
    ASSUME NEW m, NEW P, Stack(m, P), NEW w
    PROVE  LET n == RememberAction(m, w)
           IN  /\ InPlace(n, m) /\ SameFocus(n, m) /\ n.ring = m.ring
               /\ n.lastActivated = m.lastActivated
               /\ \A id \in DOMAIN m.ws : n.ws[id] = RememberFocus(m.ws[id], w)
<1> DEFINE n == RememberAction(m, w)
           ws == [id \in DOMAIN m.ws |-> RememberFocus(m.ws[id], w)]
<1>1. n = [order |-> m.order, ws |-> ws, active |-> m.active, previous |-> m.previous,
           focusColumn |-> m.focusColumn, focusWindow |-> m.focusWindow, ring |-> m.ring,
           lastActivated |-> m.lastActivated]
  BY DEF Stack, Typed, RememberAction
<1>2. DOMAIN ws = DOMAIN m.ws /\ \A id \in DOMAIN m.ws : ws[id] = RememberFocus(m.ws[id], w)
  OBVIOUS
<1>3. ws = [id \in DOMAIN ws |-> ws[id]]
  OBVIOUS
<1> HIDE DEF n, ws
<1>4. Typed(n)
  BY <1>1, <1>2, <1>3 DEF Stack, Typed
<1>5. \A id \in DOMAIN m.ws : /\ GoodStrip(n.ws[id], Windows)
                              /\ SamePlaces(n.ws[id], m.ws[id])
                              /\ n.ws[id].named = m.ws[id].named
  <2>1. \A id \in DOMAIN m.ws : GoodStrip(m.ws[id], Windows)
    BY DEF Stack
  <2> QED BY <1>1, <1>2, <2>1, RememberFocusGood
<1>6. InPlace(n, m)
  BY <1>1, <1>2, <1>4, <1>5 DEF InPlace
<1> QED BY <1>1, <1>2, <1>6 DEF SameFocus, n

LEMMA ActivateGood ==
    ASSUME NEW m, NEW P, Stack(m, P), NEW w \in Windows \cup {NoWindow}
    PROVE  /\ InPlace(Activate(m, w), m) /\ SameFocus(Activate(m, w), m)
           /\ Activate(m, w).ring = m.ring
           /\ \A id \in DOMAIN m.ws : Activate(m, w).ws[id] = RememberFocus(m.ws[id], w)
<1> DEFINE a == [m EXCEPT !.lastActivated = w]
<1>1. InPlace(a, m) /\ SameFocus(a, m) /\ a.ring = m.ring /\ a.ws = m.ws
  BY WithLastActivated
<1> HIDE DEF a
<1>2. Stack(a, P)
  BY <1>1, InPlaceStack
<1> DEFINE n == RememberAction(a, w)
<1>3. /\ InPlace(n, a) /\ SameFocus(n, a) /\ n.ring = a.ring
      /\ \A id \in DOMAIN a.ws : n.ws[id] = RememberFocus(a.ws[id], w)
  BY <1>2, RememberActionGood
<1>4. n = Activate(m, w)
  BY DEF Activate, a
<1> HIDE DEF n
<1> QED BY <1>1, <1>3, <1>4, InPlaceTrans DEF SameFocus

\* Remembering the focused window shows it.
LEMMA RememberedIsShown ==
    ASSUME NEW m, NEW P, Stack(m, P), GoodFocus(m), NEW n, InPlace(n, m), SameFocus(n, m),
           n.ws[m.active] = RememberFocus(m.ws[m.active], m.focusWindow)
    PROVE  Shown(n)
<1> DEFINE w == m.focusWindow
           s == m.ws[m.active]
<1>1. m.active \in DOMAIN m.ws /\ n.active = m.active /\ n.focusWindow = w
  BY DEF Stack, Typed, InPlace, SameFocus
<1>2. GoodStrip(s, Windows) /\ GoodStrip(n.ws[m.active], Windows) /\ SamePlaces(n.ws[m.active], s)
  BY <1>1 DEF Stack, InPlace
<1>3. CASE w = NoWindow
  BY <1>1, <1>3 DEF Shown
<1>4. CASE w # NoWindow
  <2>1. w \in WindowsOf(s)
    BY <1>4 DEF GoodFocus, ActiveStrip
  <2>2. FindColumn(s, w) \in 1 .. Len(s.columns)
    BY <1>2, <2>1, Finding
  <2>3. n.ws[m.active].columns[FindColumn(s, w)] = SelectWindow(s.columns[FindColumn(s, w)], w)
    BY <1>2, <2>1, <2>2, RememberFocusGood
  <2> HIDE DEF w, s
  <2>4. w \in VisibleTiles(n.ws[m.active].columns[FindColumn(n.ws[m.active], w)])
    BY <1>2, <2>1, <2>3, SelectedIsShown
  <2> QED BY <1>1, <2>4 DEF Shown, ActiveStrip
<1> QED BY <1>3, <1>4

\* The layout pass shows the focused window.
LEMMA ShowFocusGood ==
    ASSUME NEW m, NEW P, Stack(m, P)
    PROVE  LET n == ShowFocus(m)
           IN  /\ InPlace(n, m) /\ SameFocus(n, m) /\ n.ring = m.ring
               /\ n.lastActivated = m.lastActivated
               /\ GoodFocus(m) => Shown(n)
<1> DEFINE n == ShowFocus(m)
           s == m.ws[m.active]
           w == m.focusWindow
           t == ShownStrip(s, w)
           ws == [m.ws EXCEPT ![m.active] = t]
<1>1. m.active \in DOMAIN m.ws /\ GoodStrip(s, Windows) /\ \A id \in DOMAIN m.ws : GoodStrip(m.ws[id], Windows)
  BY DEF Stack, Typed
<1>2. /\ GoodStrip(t, Windows) /\ SamePlaces(t, s) /\ t.named = s.named
      /\ \A c \in 1 .. Len(s.columns) : t.columns[c] = SelectWindow(s.columns[c], w)
  <2> HIDE DEF s, w
  <2> QED BY <1>1, ShownGood
<1>3. n = [m EXCEPT !.ws = ws]
  BY DEF ShowFocus, ShownStrip
<1> HIDE DEF t
<1>4. DOMAIN ws = DOMAIN m.ws /\ ws = [id \in DOMAIN ws |-> ws[id]] /\ ws[m.active] = t
      /\ \A id \in DOMAIN m.ws : id # m.active => ws[id] = m.ws[id]
  BY <1>1 DEF Stack, Typed
<1> HIDE DEF n, ws
<1>5. n = [order |-> m.order, ws |-> ws, active |-> m.active, previous |-> m.previous,
           focusColumn |-> m.focusColumn, focusWindow |-> m.focusWindow, ring |-> m.ring,
           lastActivated |-> m.lastActivated]
  BY <1>3 DEF Stack, Typed
<1>6. Typed(n)
  BY <1>4, <1>5 DEF Stack, Typed
<1>7. \A id \in DOMAIN m.ws : /\ GoodStrip(n.ws[id], Windows)
                              /\ SamePlaces(n.ws[id], m.ws[id])
                              /\ n.ws[id].named = m.ws[id].named
  BY <1>1, <1>2, <1>4, <1>5 DEF SamePlaces
<1>8. InPlace(n, m)
  BY <1>4, <1>5, <1>6, <1>7 DEF InPlace
<1>9. ASSUME GoodFocus(m) PROVE Shown(n)
  <2>1. CASE w = NoWindow
    BY <1>5, <2>1 DEF Shown
  <2>2. CASE w # NoWindow
    <3>1. w \in WindowsOf(s)
      BY <1>9, <2>2 DEF GoodFocus, ActiveStrip
    <3>2. FindColumn(s, w) \in 1 .. Len(s.columns)
      BY <1>1, <3>1, Finding
    <3>3. t.columns[FindColumn(s, w)] = SelectWindow(s.columns[FindColumn(s, w)], w)
      BY <1>2, <3>2
    <3>4. n.ws[n.active] = t /\ n.focusWindow = w
      BY <1>4, <1>5
    <3> HIDE DEF w, s
    <3>6. GoodStrip(s, Windows) /\ GoodStrip(t, Windows) /\ SamePlaces(t, s)
      BY <1>1, <1>2
    <3>5. w \in VisibleTiles(t.columns[FindColumn(t, w)])
      BY <3>1, <3>3, <3>6, SelectedIsShown
    <3> QED BY <3>4, <3>5 DEF Shown, ActiveStrip
  <2> QED BY <2>1, <2>2
<1> QED BY <1>5, <1>8, <1>9 DEF SameFocus, n

LEMMA InPlaceFit ==
    ASSUME NEW m, NEW P, Fit(m, P), NEW n, InPlace(n, m), SameFocus(n, m), n.ring = m.ring
    PROVE  Fit(n, P)
BY InPlaceStack, InPlaceFocus DEF Fit, GoodRing

\* The active strip and the focus in it.
LEMMA FocusFields ==
    ASSUME NEW m, NEW P, Stack(m, P), GoodFocus(m)
    PROVE  /\ m.active \in DOMAIN m.ws /\ GoodStrip(ActiveStrip(m), Windows)
           /\ ActiveStrip(m) = m.ws[m.active] /\ WindowsOf(ActiveStrip(m)) \subseteq Windows
           /\ WindowsOf(ActiveStrip(m)) \subseteq P
           /\ m.focusWindow \in Windows \cup {NoWindow}
           /\ m.focusWindow = NoWindow \/ m.focusWindow \in P
           /\ m.focusColumn \in 0 .. Len(ActiveStrip(m).columns)
           /\ m.focusColumn # 0 <=> m.focusWindow # NoWindow
           /\ m.focusColumn # 0 => /\ m.focusColumn \in 1 .. Len(ActiveStrip(m).columns)
                                   /\ m.focusWindow \in Tiles(ActiveStrip(m).columns[m.focusColumn])
                                   /\ GoodColumn(ActiveStrip(m).columns[m.focusColumn], Windows)
<1>1. m.active \in DOMAIN m.ws /\ GoodStrip(ActiveStrip(m), Windows) /\ ActiveStrip(m) = m.ws[m.active]
  BY DEF Stack, Typed, ActiveStrip
<1>2. WindowsOf(ActiveStrip(m)) \subseteq Windows
  BY <1>1, StripFields
<1>3. WindowsOf(ActiveStrip(m)) \subseteq P
  BY <1>1 DEF Stack
<1>4. NoWindow \notin Windows
  BY MonitorAssumption
<1> DEFINE s == ActiveStrip(m)
           w == m.focusWindow
<1>5. /\ FindColumn(s, w) \in 0 .. Len(s.columns)
      /\ FindColumn(s, w) = 0 <=> w \notin WindowsOf(s)
      /\ w \in WindowsOf(s) => /\ FindColumn(s, w) \in 1 .. Len(s.columns)
                               /\ GoodColumn(s.columns[FindColumn(s, w)], Windows)
                               /\ w \in Tiles(s.columns[FindColumn(s, w)])
  <2> HIDE DEF s, w
  <2>1. GoodStrip(s, Windows)
    BY <1>1 DEF s
  <2> QED BY <2>1, Finding
<1>6. (w = NoWindow \/ w \in WindowsOf(s)) /\ m.focusColumn = FindColumn(s, w)
  BY DEF GoodFocus
<1>7. w = NoWindow => w \notin WindowsOf(s)
  BY <1>2, <1>4
<1>8. m.focusColumn # 0 <=> w # NoWindow
  BY <1>5, <1>6, <1>7
<1> QED BY <1>1, <1>2, <1>3, <1>5, <1>6, <1>8

\* A focus that is activated, or a layout pass: the focused window is drawn.
LEMMA ActivateFocusedGood ==
    ASSUME NEW m, NEW P, Stack(m, P), GoodFocus(m)
    PROVE  LET n == Activate(m, m.focusWindow)
           IN  InPlace(n, m) /\ SameFocus(n, m) /\ n.ring = m.ring /\ Shown(n)
<1> DEFINE n == Activate(m, m.focusWindow)
<1>1. m.focusWindow \in Windows \cup {NoWindow} /\ m.active \in DOMAIN m.ws
  BY FocusFields
<1>2. /\ InPlace(n, m) /\ SameFocus(n, m) /\ n.ring = m.ring
      /\ \A id \in DOMAIN m.ws : n.ws[id] = RememberFocus(m.ws[id], m.focusWindow)
  BY <1>1, ActivateGood
<1> HIDE DEF n
<1>3. n.ws[m.active] = RememberFocus(m.ws[m.active], m.focusWindow)
  BY <1>1, <1>2
<1>4. Shown(n)
  BY <1>2, <1>3, RememberedIsShown
<1> QED BY <1>2, <1>4 DEF n

LEMMA LayoutGood ==
    ASSUME NEW m, NEW P, Stack(m, P), GoodFocus(m)
    PROVE  LET n == Layout(m)
           IN  InPlace(n, m) /\ SameFocus(n, m) /\ n.ring = m.ring /\ Shown(n)
<1> DEFINE a == ShowFocus(m)
           n == Layout(m)
<1>1. InPlace(a, m) /\ SameFocus(a, m) /\ a.ring = m.ring /\ Shown(a)
  BY ShowFocusGood
<1>2. n = ActivateNew(a)
  BY DEF Layout
<1> HIDE DEF a, n
<1>3. Stack(a, P) /\ GoodFocus(a)
  BY <1>1, InPlaceStack, InPlaceFocus
<1>4. CASE n = a
  BY <1>1, <1>4 DEF n
<1>5. CASE n = Activate(a, a.focusWindow)
  <2>1. InPlace(n, a) /\ SameFocus(n, a) /\ n.ring = a.ring /\ Shown(n)
    BY <1>3, <1>5, ActivateFocusedGood
  <2>2. InPlace(n, m)
    BY <1>1, <2>1, InPlaceTrans
  <2> QED BY <1>1, <2>1, <2>2 DEF SameFocus, n
<1>6. n = a \/ n = Activate(a, a.focusWindow)
  BY <1>2 DEF ActivateNew
<1> QED BY <1>4, <1>5, <1>6

\* engine switch_workspace ends with this one.
LEMMA ActivateFocusGood ==
    ASSUME NEW m, NEW P, Stack(m, P), GoodFocus(m)
    PROVE  LET n == ActivateFocus(m)
           IN  InPlace(n, m) /\ SameFocus(n, m) /\ n.ring = m.ring /\ Shown(n)
<1>1. CASE m.focusWindow = NoWindow
  <2>1. ActivateFocus(m) = m
    BY <1>1 DEF ActivateFocus
  <2> QED BY <1>1, <2>1, InPlaceRefl DEF SameFocus, Shown
<1>2. CASE m.focusWindow # NoWindow
  <2>1. ActivateFocus(m) = Activate(m, m.focusWindow)
    BY <1>2 DEF ActivateFocus
  <2> QED BY <2>1, ActivateFocusedGood
<1> QED BY <1>1, <1>2

----------------------------------------------------------------------------
(* The ring. *)

\* What is pushed comes first, the oldest falls out at capacity.
LEMMA RingPushGood ==
    ASSUME NEW P, NEW ring, RingIn(ring, P), NEW w \in Windows
    PROVE  RingIn(RingPush(ring, w), P \cup {w})
<1> DEFINE rest == Without(ring, w)
           r == <<w>> \o rest
           n == MinOf(Len(r), RingCapacity)
           s == SubSeq(r, 1, n)
<1>1. ring \in Seq(Windows) /\ IsInjective(ring) /\ ToSet(ring) \subseteq P
  BY DEF RingIn
<1>2. rest \in Seq(Windows) /\ ToSet(rest) = ToSet(ring) \ {w} /\ IsInjective(rest)
  BY <1>1, DroppedSet DEF Without
<1>3. RingPush(ring, w) = s
  BY DEF RingPush
<1> HIDE DEF rest
<1>4. /\ r \in Seq(Windows) /\ Len(r) = Len(rest) + 1 /\ Len(rest) \in Nat
      /\ \A i \in 1 .. Len(r) : r[i] = IF i = 1 THEN w ELSE rest[i - 1]
  BY <1>2
<1> HIDE DEF r
<1>5. n \in Nat /\ n <= Len(r) /\ n <= RingCapacity
  BY <1>4, MonitorAssumption DEF MinOf
<1> HIDE DEF n
<1>6. /\ s \in Seq(Windows) /\ Len(s) = n
      /\ \A i \in 1 .. n : s[i] = r[i]
  <2>1. \A i \in 1 .. n : r[i] \in Windows
    BY <1>4, <1>5, ElementOfSeq
  <2> QED BY <1>5, <2>1, SubSeqProperties
<1> HIDE DEF s
<1>7. /\ \A x : x \in ToSet(rest) <=> \E i \in 1 .. Len(rest) : rest[i] = x
      /\ \A i \in 1 .. Len(rest) : rest[i] \in ToSet(rest)
      /\ \A i, j \in 1 .. Len(rest) : rest[i] = rest[j] => i = j
  BY <1>2, ToSetOf
<1>8. ASSUME NEW i \in 1 .. n PROVE s[i] = IF i = 1 THEN w ELSE rest[i - 1]
  BY <1>4, <1>5, <1>6
<1>9. \A i \in 1 .. n : i # 1 => i - 1 \in 1 .. Len(rest)
  BY <1>4, <1>5
<1>10. \A i \in 1 .. n : s[i] \in P \cup {w}
  BY <1>1, <1>2, <1>7, <1>8, <1>9
<1>11. ASSUME NEW i \in 1 .. n, NEW j \in 1 .. n, s[i] = s[j] PROVE i = j
  <2>1. w \notin ToSet(rest)
    BY <1>2
  <2>2. CASE i # 1 /\ j # 1
    <3>1. rest[i - 1] = rest[j - 1] /\ i - 1 \in 1 .. Len(rest) /\ j - 1 \in 1 .. Len(rest)
      BY <1>8, <1>9, <1>11, <2>2
    <3>2. i - 1 = j - 1
      BY <1>7, <3>1
    <3> QED BY <3>2
  <2>3. CASE i = 1 /\ j # 1
    BY <1>7, <1>8, <1>9, <1>11, <2>1, <2>3
  <2>4. CASE i # 1 /\ j = 1
    BY <1>7, <1>8, <1>9, <1>11, <2>1, <2>4
  <2> QED BY <2>2, <2>3, <2>4
<1>12. IsInjective(s) /\ ToSet(s) \subseteq P \cup {w}
  BY <1>6, <1>10, <1>11, ToSetOf
<1> QED BY <1>3, <1>5, <1>6, <1>12 DEF RingIn

LEMMA RingPushBackGood ==
    ASSUME NEW P, NEW ring, RingIn(ring, P), NEW w \in Windows
    PROVE  RingIn(RingPushBack(ring, w), P \cup {w})
<1>1. /\ ring \in Seq(Windows) /\ IsInjective(ring) /\ ToSet(ring) \subseteq P
      /\ Len(ring) <= RingCapacity /\ Len(ring) \in Nat /\ RingCapacity \in Nat
  BY MonitorAssumption DEF RingIn
<1>2. CASE InSeq(ring, w) \/ Len(ring) >= RingCapacity
  <2>1. RingPushBack(ring, w) = ring
    BY <1>2 DEF RingPushBack
  <2> QED BY <1>1, <2>1 DEF RingIn
<1>3. CASE ~(InSeq(ring, w) \/ Len(ring) >= RingCapacity)
  <2> DEFINE s == Append(ring, w)
  <2>1. RingPushBack(ring, w) = s
    BY <1>3 DEF RingPushBack
  <2>2. w \notin ToSet(ring)
    BY <1>1, <1>3, InSeqOf
  <2>3. /\ s \in Seq(Windows) /\ Len(s) = Len(ring) + 1
        /\ \A i \in 1 .. Len(s) : s[i] = IF i = Len(s) THEN w ELSE ring[i]
        /\ \A i \in 1 .. Len(s) : i # Len(s) => i \in 1 .. Len(ring)
    BY <1>1
  <2> HIDE DEF s
  <2>4. /\ \A i \in 1 .. Len(ring) : ring[i] \in ToSet(ring)
        /\ \A i, j \in 1 .. Len(ring) : ring[i] = ring[j] => i = j
    BY <1>1, ToSetOf
  <2>5. \A i \in 1 .. Len(s) : s[i] \in P \cup {w}
    BY <1>1, <2>3, <2>4
  <2>6. ASSUME NEW i \in 1 .. Len(s), NEW j \in 1 .. Len(s), s[i] = s[j] PROVE i = j
    BY <2>2, <2>3, <2>4, <2>6
  <2>7. IsInjective(s) /\ ToSet(s) \subseteq P \cup {w}
    BY <2>3, <2>5, <2>6, ToSetOf
  <2>8. Len(s) <= RingCapacity
    BY <1>1, <1>3, <2>3
  <2> QED BY <2>1, <2>3, <2>7, <2>8 DEF RingIn
<1> QED BY <1>2, <1>3

LEMMA RingDroppedGood ==
    ASSUME NEW P, NEW ring, RingIn(ring, P), NEW S
    PROVE  RingIn(Dropped(ring, S), P \ S)
<1>1. /\ ring \in Seq(Windows) /\ IsInjective(ring) /\ ToSet(ring) \subseteq P
      /\ Len(ring) <= RingCapacity /\ Len(ring) \in Nat /\ RingCapacity \in Nat
  BY MonitorAssumption DEF RingIn
<1>2. /\ Dropped(ring, S) \in Seq(Windows) /\ Len(Dropped(ring, S)) <= Len(ring)
      /\ ToSet(Dropped(ring, S)) = ToSet(ring) \ S /\ IsInjective(Dropped(ring, S))
  BY <1>1, DroppedSet
<1>3. Len(Dropped(ring, S)) \in Nat
  BY <1>2
<1> QED BY <1>1, <1>2, <1>3 DEF RingIn

LEMMA RingMonotone ==
    ASSUME NEW P, NEW Q, P \subseteq Q, NEW ring, RingIn(ring, P)
    PROVE  RingIn(ring, Q)
BY DEF RingIn

----------------------------------------------------------------------------
(* A strip that is written back, with another focus and ring. *)

At(ws, id, s) == [ws EXCEPT ![id] = s]

Mon(m, ws, column, window, ring) ==
    [order |-> m.order, ws |-> ws, active |-> m.active, previous |-> m.previous,
     focusColumn |-> column, focusWindow |-> window, ring |-> ring,
     lastActivated |-> m.lastActivated]

LEMMA MonFields ==
    ASSUME NEW m, NEW ws, NEW column, NEW window, NEW ring
    PROVE  LET n == Mon(m, ws, column, window, ring)
           IN  /\ n.order = m.order /\ n.ws = ws /\ n.active = m.active /\ n.previous = m.previous
               /\ n.focusColumn = column /\ n.focusWindow = window /\ n.ring = ring
               /\ n.lastActivated = m.lastActivated
BY DEF Mon

LEMMA MonEqual ==
    ASSUME NEW n, IsRec(n), NEW m, NEW ws, NEW c, NEW w, NEW r,
           n.order = m.order, n.ws = ws, n.active = m.active, n.previous = m.previous,
           n.focusColumn = c, n.focusWindow = w, n.ring = r, n.lastActivated = m.lastActivated
    PROVE  n = Mon(m, ws, c, w, r)
<1>1. n = [order |-> n.order, ws |-> n.ws, active |-> n.active, previous |-> n.previous,
           focusColumn |-> n.focusColumn, focusWindow |-> n.focusWindow, ring |-> n.ring,
           lastActivated |-> n.lastActivated]
  BY RecIsLiteral
<1>2. [order |-> n.order, ws |-> n.ws, active |-> n.active, previous |-> n.previous,
       focusColumn |-> n.focusColumn, focusWindow |-> n.focusWindow, ring |-> n.ring,
       lastActivated |-> n.lastActivated] = Mon(m, ws, c, w, r)
  BY DEF Mon
<1> QED BY <1>1, <1>2, Zenon

LEMMA MonTyped ==
    ASSUME NEW m, Typed(m), NEW ws, DOMAIN ws = DOMAIN m.ws, ws = [id \in DOMAIN ws |-> ws[id]],
           NEW column, NEW window, NEW ring
    PROVE  Typed(Mon(m, ws, column, window, ring))
<1> DEFINE n == Mon(m, ws, column, window, ring)
<1>1. /\ n.order = m.order /\ n.ws = ws /\ n.active = m.active /\ n.previous = m.previous
      /\ n.focusColumn = column /\ n.focusWindow = window /\ n.ring = ring
      /\ n.lastActivated = m.lastActivated
  BY MonFields
<1>2. n = [order |-> m.order, ws |-> ws, active |-> m.active, previous |-> m.previous,
           focusColumn |-> column, focusWindow |-> window, ring |-> ring,
           lastActivated |-> m.lastActivated]
  BY DEF Mon
<1> HIDE DEF n
<1> QED BY <1>1, <1>2 DEF Typed, n

LEMMA AtGood ==
    ASSUME NEW m, Typed(m), NEW id \in DOMAIN m.ws, NEW s
    PROVE  /\ DOMAIN At(m.ws, id, s) = DOMAIN m.ws
           /\ At(m.ws, id, s) = [k \in DOMAIN At(m.ws, id, s) |-> At(m.ws, id, s)[k]]
           /\ At(m.ws, id, s)[id] = s
           /\ \A k \in DOMAIN m.ws : k # id => At(m.ws, id, s)[k] = m.ws[k]
BY DEF At, Typed

\* The strip of one workspace is written back with its windows where they were.
LEMMA MonInPlace ==
    ASSUME NEW m, NEW P, Stack(m, P), NEW id \in DOMAIN m.ws,
           NEW s, GoodStrip(s, Windows), SamePlaces(s, m.ws[id]), s.named = m.ws[id].named,
           NEW column, NEW window, NEW ring
    PROVE  InPlace(Mon(m, At(m.ws, id, s), column, window, ring), m)
<1> DEFINE ws == At(m.ws, id, s)
           n == Mon(m, ws, column, window, ring)
<1>1. /\ DOMAIN ws = DOMAIN m.ws /\ ws = [k \in DOMAIN ws |-> ws[k]] /\ ws[id] = s
      /\ \A k \in DOMAIN m.ws : k # id => ws[k] = m.ws[k]
  BY AtGood DEF Stack
<1> HIDE DEF ws
<1>2. n.order = m.order /\ n.ws = ws /\ n.active = m.active /\ n.previous = m.previous
  BY MonFields
<1>3. Typed(n)
  BY <1>1, MonTyped DEF Stack
<1> HIDE DEF n
<1>4. \A k \in DOMAIN m.ws : /\ GoodStrip(n.ws[k], Windows)
                             /\ SamePlaces(n.ws[k], m.ws[k])
                             /\ n.ws[k].named = m.ws[k].named
  BY <1>1, <1>2 DEF Stack, SamePlaces
<1> QED BY <1>1, <1>2, <1>3, <1>4 DEF InPlace, n, ws

\* Windows leave the strips, and others come to one of them.
LEMMA StackChanged ==
    ASSUME NEW m, NEW P, Stack(m, P), NEW n, Typed(n), n.order = m.order, DOMAIN n.ws = DOMAIN m.ws,
           \A i \in DOMAIN m.ws : GoodStrip(n.ws[i], Windows),
           NEW out, NEW in, in \cap (P \ out) = {}, NEW id \in DOMAIN m.ws,
           \A i \in DOMAIN m.ws : i # id => WindowsOf(n.ws[i]) = WindowsOf(m.ws[i]) \ out,
           WindowsOf(n.ws[id]) = (WindowsOf(m.ws[id]) \ out) \cup in
    PROVE  Stack(n, (P \ out) \cup in)
<1>1. \A i \in DOMAIN m.ws : WindowsOf(m.ws[i]) \subseteq P
  BY DEF Stack
<1>2. \A i \in DOMAIN m.ws : i # id => WindowsOf(n.ws[i]) \subseteq P \ out
  BY <1>1
<1>3. ASSUME NEW i \in DOMAIN m.ws, NEW j \in DOMAIN m.ws, i # j
      PROVE  WindowsOf(n.ws[i]) \cap WindowsOf(n.ws[j]) = {}
  <2>1. WindowsOf(m.ws[i]) \cap WindowsOf(m.ws[j]) = {}
    BY <1>3 DEF Stack
  <2>2. CASE i = id
    BY <1>2, <1>3, <2>1, <2>2
  <2>3. CASE j = id
    BY <1>2, <1>3, <2>1, <2>3
  <2>4. CASE i # id /\ j # id
    BY <2>1, <2>4
  <2> QED BY <2>2, <2>3, <2>4
<1>4. ASSUME NEW w PROVE w \in (P \ out) \cup in <=> \E i \in DOMAIN m.ws : w \in WindowsOf(n.ws[i])
  <2>1. w \in P <=> \E i \in DOMAIN m.ws : w \in WindowsOf(m.ws[i])
    BY DEF Stack
  <2>2. ASSUME w \in in PROVE w \in WindowsOf(n.ws[id])
    BY <2>2
  <2>3. ASSUME w \notin in
        PROVE  \A i \in DOMAIN m.ws : w \in WindowsOf(n.ws[i]) <=> w \in WindowsOf(m.ws[i]) /\ w \notin out
    BY <2>3
  <2>4. CASE w \in in
    BY <2>2, <2>4
  <2>5. CASE w \notin in
    BY <2>1, <2>3, <2>5
  <2> QED BY <2>4, <2>5
<1> QED BY <1>3, <1>4 DEF Stack

LEMMA MonChanged ==
    ASSUME NEW m, NEW P, Stack(m, P), NEW id \in DOMAIN m.ws,
           NEW s, GoodStrip(s, Windows),
           NEW out, NEW in, out \subseteq WindowsOf(m.ws[id]), in \cap (P \ out) = {},
           WindowsOf(s) = (WindowsOf(m.ws[id]) \ out) \cup in,
           NEW column, NEW window, NEW ring
    PROVE  Stack(Mon(m, At(m.ws, id, s), column, window, ring), (P \ out) \cup in)
<1> DEFINE ws == At(m.ws, id, s)
           n == Mon(m, ws, column, window, ring)
<1>1. /\ DOMAIN ws = DOMAIN m.ws /\ ws = [k \in DOMAIN ws |-> ws[k]] /\ ws[id] = s
      /\ \A k \in DOMAIN m.ws : k # id => ws[k] = m.ws[k]
  BY AtGood DEF Stack
<1> HIDE DEF ws
<1>2. n.order = m.order /\ n.ws = ws
  BY MonFields
<1>3. Typed(n)
  BY <1>1, MonTyped DEF Stack
<1> HIDE DEF n
<1>4. \A i \in DOMAIN m.ws : GoodStrip(n.ws[i], Windows)
  BY <1>1, <1>2 DEF Stack
<1>5. \A i \in DOMAIN m.ws : i # id => WindowsOf(n.ws[i]) = WindowsOf(m.ws[i]) \ out
  <2>1. \A i \in DOMAIN m.ws : i # id => WindowsOf(m.ws[i]) \cap WindowsOf(m.ws[id]) = {}
    BY DEF Stack
  <2> QED BY <1>1, <1>2, <2>1
<1>6. WindowsOf(n.ws[id]) = (WindowsOf(m.ws[id]) \ out) \cup in
  BY <1>1, <1>2
<1>7. DOMAIN n.ws = DOMAIN m.ws
  BY <1>1, <1>2
<1>8. Stack(n, (P \ out) \cup in)
  BY <1>2, <1>3, <1>4, <1>5, <1>6, <1>7, StackChanged
<1> QED BY <1>8 DEF n, ws

----------------------------------------------------------------------------
(* Giving the focus. *)

\* The focus goes to a window of the active workspace.
LEMMA SetFocusGood ==
    ASSUME NEW m, NEW P, Stack(m, P), GoodRing(m, P), NEW w \in WindowsOf(ActiveStrip(m))
    PROVE  LET n == SetFocus(m, w)
           IN  InPlace(n, m) /\ Fit(n, P) /\ n.focusWindow = w
<1> DEFINE s == m.ws[m.active]
           t == RememberFocus(s, w)
           c == FindColumn(s, w)
           n == SetFocus(m, w)
<1>1. /\ m.active \in DOMAIN m.ws /\ GoodStrip(s, Windows) /\ s = ActiveStrip(m)
      /\ \A id \in DOMAIN m.ws : WindowsOf(m.ws[id]) \subseteq P
  BY DEF Stack, Typed, ActiveStrip
<1>2. w \in WindowsOf(s) /\ w \in P /\ w \in Windows /\ Holds(s, w)
  BY <1>1, StripFields, Finding
<1>3. GoodStrip(t, Windows) /\ SamePlaces(t, s) /\ t.named = s.named
  BY <1>1, RememberFocusGood
<1>4. n = Mon(m, At(m.ws, m.active, t), c, w, RingPush(m.ring, w))
  <2>1. IsRec(m)
    BY TypedIsRec DEF Stack
  <2>2. /\ n.order = m.order /\ n.ws = At(m.ws, m.active, t) /\ n.active = m.active
        /\ n.previous = m.previous /\ n.focusColumn = c /\ n.focusWindow = w
        /\ n.ring = RingPush(m.ring, w) /\ n.lastActivated = m.lastActivated
    BY <1>1, <1>2, <2>1 DEF SetFocus, At, IsRec, MonNames
  <2>3. IsRec(n)
    BY <2>1 DEF SetFocus, IsRec, MonNames
  <2> HIDE DEF n, t, c
  <2> QED BY <2>2, <2>3, MonEqual
<1>5. WindowsOf(t) = WindowsOf(s) /\ FindColumn(t, w) = c
  BY <1>1, <1>3, SamePlacesFind
<1> HIDE DEF t, c, n
<1>6. InPlace(n, m)
  BY <1>1, <1>3, <1>4, MonInPlace
<1>7. n.active = m.active /\ n.focusColumn = c /\ n.focusWindow = w /\ n.ring = RingPush(m.ring, w)
      /\ n.ws = At(m.ws, m.active, t)
  BY <1>4, MonFields
<1>8. ActiveStrip(n) = t
  <2>1. At(m.ws, m.active, t)[m.active] = t
    <3>1. Typed(m)
      BY DEF Stack
    <3>2. m.active \in DOMAIN m.ws
      BY <1>1
    <3> QED BY <3>1, <3>2 DEF At, Typed
  <2>2. n.ws[n.active] = At(m.ws, m.active, t)[m.active]
    BY <1>7
  <2> QED BY <2>1, <2>2 DEF ActiveStrip
<1>9. GoodFocus(n)
  BY <1>2, <1>5, <1>7, <1>8 DEF GoodFocus, c
<1>10. GoodRing(n, P)
  <2>1. RingIn(RingPush(m.ring, w), P \cup {w})
    BY <1>2, RingPushGood DEF GoodRing
  <2>2. P \cup {w} = P
    BY <1>2
  <2> QED BY <1>7, <2>1, <2>2 DEF GoodRing
<1> QED BY <1>6, <1>7, <1>9, <1>10, InPlaceStack DEF Fit, n

\* A new active workspace: its remembered window has the focus.
LEMMA RestoreFocusGood ==
    ASSUME NEW m, NEW P, Stack(m, P), m.focusColumn = 0, m.focusWindow = NoWindow
    PROVE  LET n == RestoreFocus(m)
           IN  InPlace(n, m) /\ GoodFocus(n) /\ n.ring = m.ring /\ n.ws = m.ws
<1> DEFINE s == ActiveStrip(m)
           t == RememberedFocus(s)
           c == FindColumn(s, t)
           n == RestoreFocus(m)
<1>1. m.active \in DOMAIN m.ws /\ GoodStrip(s, Windows) /\ s = m.ws[m.active]
  BY DEF Stack, Typed, ActiveStrip
<1>2. NoWindow \notin Windows /\ WindowsOf(s) \subseteq Windows
  BY <1>1, StripFields, MonitorAssumption
<1>3. CASE s.columns = <<>>
  <2>1. n = m
    BY <1>3 DEF RestoreFocus
  <2>2. FindColumn(s, NoWindow) = 0
    BY <1>1, <1>2, Finding
  <2>3. GoodFocus(m)
    BY <2>2 DEF GoodFocus
  <2> QED BY <2>1, <2>3, InPlaceRefl
<1>4. CASE s.columns # <<>>
  <2>1. t # NoWindow /\ t \in WindowsOf(s)
    BY <1>1, <1>2, <1>4, RememberedSomething
  <2>2. n = [m EXCEPT !.focusColumn = c, !.focusWindow = t]
    BY <1>4, <2>1 DEF RestoreFocus
  <2>3. n = Mon(m, m.ws, c, t, m.ring)
    <3>1. IsRec(m)
      BY TypedIsRec DEF Stack
    <3>2. /\ n.order = m.order /\ n.ws = m.ws /\ n.active = m.active
          /\ n.previous = m.previous /\ n.focusColumn = c /\ n.focusWindow = t
          /\ n.ring = m.ring /\ n.lastActivated = m.lastActivated
      BY <2>2, <3>1 DEF IsRec, MonNames
    <3>3. IsRec(n)
      BY <2>2, <3>1 DEF IsRec, MonNames
    <3> HIDE DEF n, t, c
    <3> QED BY <3>2, <3>3, MonEqual
  <2> HIDE DEF n, c, t
  <2>4. /\ n.order = m.order /\ n.ws = m.ws /\ n.active = m.active /\ n.previous = m.previous
        /\ n.focusColumn = c /\ n.focusWindow = t /\ n.ring = m.ring
    BY <2>3, MonFields
  <2>5. Typed(n)
    BY <2>3, MonTyped DEF Stack, Typed
  <2>6. InPlace(n, m)
    BY <2>4, <2>5, InPlaceRefl DEF InPlace
  <2>7. GoodFocus(n)
    BY <2>1, <2>4 DEF GoodFocus, ActiveStrip, c
  <2> QED BY <2>4, <2>6, <2>7 DEF n
<1> QED BY <1>3, <1>4

\* The stack does not depend on which workspace is active.
Viewing(m, id) ==
    [m EXCEPT !.previous = IF id = m.active THEN @ ELSE m.active, !.active = id,
              !.focusColumn = 0, !.focusWindow = NoWindow]

LEMMA ViewingGood ==
    ASSUME NEW m, NEW P, Stack(m, P), NEW id \in DOMAIN m.ws
    PROVE  LET n == Viewing(m, id)
           IN  /\ Stack(n, P) /\ n.active = id /\ n.ws = m.ws /\ n.order = m.order /\ n.ring = m.ring
               /\ n.focusColumn = 0 /\ n.focusWindow = NoWindow
<1> DEFINE n == Viewing(m, id)
           p == IF id = m.active THEN m.previous ELSE m.active
<1>1. p \in Keys \cup {NoWorkspace}
  BY DEF Stack, Typed
<1>2. IsRec(m)
  BY TypedIsRec DEF Stack
<1>3. /\ n.order = m.order /\ n.ws = m.ws /\ n.active = id /\ n.previous = p
      /\ n.focusColumn = 0 /\ n.focusWindow = NoWindow /\ n.ring = m.ring
      /\ n.lastActivated = m.lastActivated
  BY <1>2 DEF Viewing, IsRec, MonNames
<1>4. IsRec(n)
  BY <1>2 DEF Viewing, IsRec, MonNames
<1> HIDE DEF n, p
<1>5. Typed(n)
  <2>1. n = [order |-> n.order, ws |-> n.ws, active |-> n.active, previous |-> n.previous,
             focusColumn |-> n.focusColumn, focusWindow |-> n.focusWindow, ring |-> n.ring,
             lastActivated |-> n.lastActivated]
    BY <1>4, RecIsLiteral
  <2> QED BY <1>1, <1>3, <2>1 DEF Stack, Typed
<1>6. Stack(n, P)
  BY <1>3, <1>5 DEF Stack
<1> QED BY <1>3, <1>6 DEF n

LEMMA SwitchGood ==
    ASSUME NEW m, NEW P, Stack(m, P), GoodRing(m, P), NEW id \in DOMAIN m.ws
    PROVE  LET n == Switch(m, id)
           IN  Fit(n, P) /\ n.active = id /\ n.ws = m.ws /\ n.order = m.order
<1> DEFINE a == Viewing(m, id)
           n == Switch(m, id)
<1>1. /\ Stack(a, P) /\ a.active = id /\ a.ws = m.ws /\ a.order = m.order /\ a.ring = m.ring
      /\ a.focusColumn = 0 /\ a.focusWindow = NoWindow
  BY ViewingGood
<1>2. n = RestoreFocus(a)
  BY DEF Switch, Viewing
<1> HIDE DEF a, n
<1>3. InPlace(n, a) /\ GoodFocus(n) /\ n.ring = a.ring /\ n.ws = a.ws
  BY <1>1, <1>2, RestoreFocusGood
<1>4. Stack(n, P)
  BY <1>1, <1>3, InPlaceStack
<1>5. n.active = id /\ n.order = m.order
  BY <1>1, <1>3 DEF InPlace
<1> QED BY <1>1, <1>3, <1>4, <1>5 DEF Fit, GoodRing, n

----------------------------------------------------------------------------
(* Maintaining the stack: empty workspaces come and go.                    *)

\* n is m after empty workspaces came and went: those with content, and the
\* active one, are the same.
Pruned(n, m, occupied) ==
    /\ Typed(n) /\ IsInjective(n.order) /\ ToSet(n.order) = DOMAIN n.ws
    /\ n.active = m.active /\ SameFocus(n, m) /\ n.ring = m.ring
    /\ n.lastActivated = m.lastActivated
    /\ \A id \in DOMAIN n.ws : n.ws[id] = EmptyWorkspace \/ (id \in DOMAIN m.ws /\ n.ws[id] = m.ws[id])
    /\ \A id \in DOMAIN m.ws : HasContent(m, occupied, id) \/ id = m.active
                               => id \in DOMAIN n.ws /\ n.ws[id] = m.ws[id]

LEMMA EmptyGood ==
    ASSUME NEW W
    PROVE  /\ GoodStrip(EmptyWorkspace, W) /\ WindowsOf(EmptyWorkspace) = {}
           /\ EmptyWorkspace.named = FALSE
<1> DEFINE e == <<>>
<1>1. e \in Seq(ColumnType(W)) /\ Len(e) = 0 /\ DOMAIN e = {}
  OBVIOUS
<1> HIDE DEF e
<1>2. EmptyWorkspace = [columns |-> e, active |-> NoWindow, named |-> FALSE]
  BY DEF EmptyWorkspace, e
<1>3. EmptyWorkspace \in StripType(W) /\ EmptyWorkspace.columns = e /\ EmptyWorkspace.named = FALSE
  BY <1>1, <1>2 DEF StripType
<1>4. GoodColumns(e, W)
  BY <1>1 DEF GoodColumns
<1> QED BY <1>1, <1>3, <1>4 DEF GoodStrip, WindowsOf

\* What an emptied or new workspace does not have.
LEMMA PrunedContent ==
    ASSUME NEW m, NEW P, Stack(m, P), NEW occupied, occupied \subseteq DOMAIN m.ws,
           NEW n, Pruned(n, m, occupied)
    PROVE  /\ Stack(n, P) /\ occupied \subseteq DOMAIN n.ws /\ NamedIn(n) = NamedIn(m)
           /\ GoodFocus(m) => GoodFocus(n)
           /\ \A id \in DOMAIN n.ws :
                HasContent(n, occupied, id) <=> id \in DOMAIN m.ws /\ HasContent(m, occupied, id)
<1>1. /\ EmptyWorkspace.named = FALSE /\ WindowsOf(EmptyWorkspace) = {}
      /\ GoodStrip(EmptyWorkspace, Windows)
  BY EmptyGood
<1>2. /\ \A id \in DOMAIN n.ws :
            n.ws[id] = EmptyWorkspace \/ (id \in DOMAIN m.ws /\ n.ws[id] = m.ws[id])
      /\ \A id \in DOMAIN m.ws : HasContent(m, occupied, id) \/ id = m.active
                                 => id \in DOMAIN n.ws /\ n.ws[id] = m.ws[id]
      /\ Typed(n) /\ IsInjective(n.order) /\ ToSet(n.order) = DOMAIN n.ws
      /\ n.active = m.active /\ n.focusWindow = m.focusWindow /\ n.focusColumn = m.focusColumn
  BY DEF Pruned, SameFocus
<1>3. \A id \in DOMAIN m.ws : WindowsOf(m.ws[id]) # {} \/ m.ws[id].named \/ id \in occupied
                              => HasContent(m, occupied, id)
  BY DEF HasContent
<1>4. /\ \A id \in DOMAIN m.ws : GoodStrip(m.ws[id], Windows)
      /\ \A i, j \in DOMAIN m.ws : i # j => WindowsOf(m.ws[i]) \cap WindowsOf(m.ws[j]) = {}
      /\ \A w : w \in P <=> \E id \in DOMAIN m.ws : w \in WindowsOf(m.ws[id])
      /\ m.active \in DOMAIN m.ws
  BY DEF Stack, Typed
<1>5. \A id \in DOMAIN n.ws : WindowsOf(n.ws[id]) # {} => id \in DOMAIN m.ws /\ n.ws[id] = m.ws[id]
  BY <1>1, <1>2
<1>6. \A id \in DOMAIN m.ws : WindowsOf(m.ws[id]) # {} => id \in DOMAIN n.ws /\ n.ws[id] = m.ws[id]
  BY <1>2, <1>3
<1>7. Stack(n, P)
  <2>1. \A id \in DOMAIN n.ws : GoodStrip(n.ws[id], Windows)
    BY <1>1, <1>2, <1>4
  <2>2. \A i, j \in DOMAIN n.ws : i # j => WindowsOf(n.ws[i]) \cap WindowsOf(n.ws[j]) = {}
    BY <1>4, <1>5
  <2>3. ASSUME NEW w PROVE w \in P <=> \E id \in DOMAIN n.ws : w \in WindowsOf(n.ws[id])
    <3>1. w \in P => \E id \in DOMAIN n.ws : w \in WindowsOf(n.ws[id])
      BY <1>4, <1>6
    <3>2. ASSUME NEW id \in DOMAIN n.ws, w \in WindowsOf(n.ws[id]) PROVE w \in P
      BY <1>4, <1>5, <3>2
    <3> QED BY <3>1, <3>2
  <2> QED BY <1>2, <2>1, <2>2, <2>3 DEF Stack
<1>8. occupied \subseteq DOMAIN n.ws
  BY <1>2, <1>3
<1>9. NamedIn(n) = NamedIn(m)
  <2>1. \A id : id \in NamedIn(n) => id \in NamedIn(m)
    BY <1>1, <1>2 DEF NamedIn
  <2>2. \A id : id \in NamedIn(m) => id \in NamedIn(n)
    BY <1>2, <1>3 DEF NamedIn
  <2> QED BY <2>1, <2>2
<1>10. GoodFocus(m) => GoodFocus(n)
  <2>1. ActiveStrip(n) = ActiveStrip(m)
    BY <1>2, <1>4 DEF ActiveStrip
  <2> QED BY <1>2, <2>1 DEF GoodFocus
<1>11. ASSUME NEW id \in DOMAIN n.ws
       PROVE HasContent(n, occupied, id) <=> id \in DOMAIN m.ws /\ HasContent(m, occupied, id)
  <2>1. CASE id \in DOMAIN m.ws /\ HasContent(m, occupied, id)
    BY <1>2, <2>1 DEF HasContent
  <2>2. CASE ~(id \in DOMAIN m.ws /\ HasContent(m, occupied, id))
    <3>1. id \notin occupied
      BY <1>3, <2>2
    <3>2. WindowsOf(n.ws[id]) = {}
      BY <1>3, <1>5, <2>2
    <3>3. ~ n.ws[id].named
      BY <1>1, <1>2, <1>3, <2>2
    <3> QED BY <2>2, <3>1, <3>2, <3>3 DEF HasContent
  <2> QED BY <2>1, <2>2
<1> QED BY <1>7, <1>8, <1>9, <1>10, <1>11

LEMMA PrunedTrans ==
    ASSUME NEW m, NEW P, Stack(m, P), NEW occupied, occupied \subseteq DOMAIN m.ws,
           NEW b, Pruned(b, m, occupied), NEW n, Pruned(n, b, occupied)
    PROVE  Pruned(n, m, occupied)
<1>1. \A id \in DOMAIN b.ws :
         HasContent(b, occupied, id) <=> id \in DOMAIN m.ws /\ HasContent(m, occupied, id)
  BY PrunedContent
<1>2. b.active = m.active
  BY DEF Pruned
<1>3. \A id \in DOMAIN m.ws : HasContent(m, occupied, id) \/ id = m.active
                              => id \in DOMAIN n.ws /\ n.ws[id] = m.ws[id]
  <2>1. \A id \in DOMAIN m.ws : HasContent(m, occupied, id) \/ id = m.active
          => /\ id \in DOMAIN b.ws /\ b.ws[id] = m.ws[id]
             /\ HasContent(b, occupied, id) \/ id = b.active
    BY <1>1, <1>2 DEF Pruned
  <2> QED BY <2>1 DEF Pruned
<1>4. \A id \in DOMAIN n.ws : n.ws[id] = EmptyWorkspace \/ (id \in DOMAIN m.ws /\ n.ws[id] = m.ws[id])
  BY DEF Pruned
<1> QED BY <1>3, <1>4 DEF Pruned, SameFocus

LEMMA PrunedRefl ==
    ASSUME NEW m, NEW P, Stack(m, P), NEW occupied
    PROVE  Pruned(m, m, occupied)
BY DEF Pruned, Stack, SameFocus

\* A free key: the next one, or the smallest.
LEMMA NewKeyIsFree ==
    ASSUME NEW m, NEW P, Stack(m, P), Cardinality(DOMAIN m.ws) <= MaxKey
    PROVE  NewKey(m) \in Keys \ DOMAIN m.ws
<1> DEFINE used == DOMAIN m.ws
           top == CHOOSE k \in used : \A j \in used : j <= k
           next == MinOf(MaxKey, 1 + top)
<1>1. used \subseteq Keys /\ used # {} /\ MaxKey \in Nat
  BY MonitorAssumption DEF Stack, Typed
<1> DEFINE free == Keys \ used
<1> HIDE DEF used
<1>2. IsFiniteSet(Keys) /\ Cardinality(Keys) = MaxKey + 1
  BY <1>1, FS_Interval DEF Keys
<1>3. used \in SUBSET Nat /\ \A k \in used : k <= MaxKey
  BY <1>1 DEF Keys
<1>4. top \in used
  <2>1. Max(used) \in used /\ \A j \in used : j <= Max(used)
    BY <1>1, <1>3, MaxOfSet
  <2> QED BY <2>1
<1>5. next \in Keys
  <2>1. top \in Nat
    BY <1>3, <1>4
  <2> HIDE DEF top
  <2> QED BY <1>1, <2>1 DEF MinOf, Keys
<1>6. free # {}
  <2>1. Cardinality(used) # Cardinality(Keys)
    <3>1. IsFiniteSet(used)
      BY <1>1, <1>2, FS_Subset
    <3>2. Cardinality(used) \in Nat /\ Cardinality(used) <= MaxKey
      BY <3>1, FS_CardinalityType DEF used
    <3> QED BY <1>1, <1>2, <3>2
  <2> QED BY <1>1, <2>1
<1>7. (CHOOSE k \in free : \A j \in free : k <= j) \in free
  <2>1. free \in SUBSET Nat
    BY DEF Keys
  <2> HIDE DEF free
  <2>2. \E k \in free : \A j \in free : k <= j
    BY <1>6, <2>1, LeastExists
  <2> QED BY <2>2
<1>8. NewKey(m) = IF next \notin used THEN next ELSE CHOOSE k \in free : \A j \in free : k <= j
  BY DEF NewKey, used
<1> HIDE DEF next, top
<1> QED BY <1>5, <1>7, <1>8 DEF used

LEMMA InsertWorkspaceGood ==
    ASSUME NEW m, NEW P, Stack(m, P), NEW occupied, occupied \subseteq DOMAIN m.ws,
           NEW id \in Keys \ DOMAIN m.ws, NEW at \in 1 .. Len(m.order) + 1
    PROVE  LET n == InsertWorkspace(m, id, at)
           IN  /\ Pruned(n, m, occupied) /\ n.order = InsertAt(m.order, at, id)
               /\ DOMAIN n.ws = DOMAIN m.ws \cup {id}
<1> DEFINE n == InsertWorkspace(m, id, at)
           o == InsertAt(m.order, at, id)
           ws == [k \in DOMAIN m.ws \cup {id} |-> IF k = id THEN EmptyWorkspace ELSE m.ws[k]]
<1>1. /\ m.order \in Seq(Keys) /\ IsInjective(m.order) /\ ToSet(m.order) = DOMAIN m.ws
      /\ m.active \in DOMAIN m.ws /\ DOMAIN m.ws \subseteq Keys
      /\ m.previous \in Keys \cup {NoWorkspace} /\ m.lastActivated \in Windows \cup {NoWindow}
      /\ IsRec(m)
  BY TypedIsRec DEF Stack, Typed
<1>2. o \in Seq(Keys) /\ IsInjective(o) /\ ToSet(o) = DOMAIN m.ws \cup {id}
  BY <1>1, InsertAtSet
<1>3. With(m.ws, id, EmptyWorkspace) = ws
  BY DEF With
<1>4. /\ n.order = o /\ n.ws = With(m.ws, id, EmptyWorkspace) /\ n.active = m.active
      /\ n.previous = m.previous /\ n.focusColumn = m.focusColumn
      /\ n.focusWindow = m.focusWindow /\ n.ring = m.ring /\ n.lastActivated = m.lastActivated
  BY <1>1 DEF InsertWorkspace, IsRec, MonNames
<1>5. IsRec(n)
  BY <1>1 DEF InsertWorkspace, IsRec, MonNames
<1>6. /\ DOMAIN ws = DOMAIN m.ws \cup {id} /\ ws = [k \in DOMAIN ws |-> ws[k]]
      /\ ws[id] = EmptyWorkspace /\ \A k \in DOMAIN m.ws : ws[k] = m.ws[k]
  OBVIOUS
<1> HIDE DEF n, o, ws
<1>7. n.ws = ws
  BY <1>3, <1>4
<1>8. n = [order |-> n.order, ws |-> n.ws, active |-> n.active, previous |-> n.previous,
           focusColumn |-> n.focusColumn, focusWindow |-> n.focusWindow, ring |-> n.ring,
           lastActivated |-> n.lastActivated]
  BY <1>5, RecIsLiteral
<1>9. Typed(n)
  <2>1. /\ n.order \in Seq(Keys) /\ n.ws = [k \in DOMAIN n.ws |-> n.ws[k]]
        /\ DOMAIN n.ws \subseteq Keys /\ n.active \in DOMAIN n.ws
        /\ n.previous \in Keys \cup {NoWorkspace} /\ n.lastActivated \in Windows \cup {NoWindow}
    BY <1>1, <1>2, <1>4, <1>6, <1>7
  <2> QED BY <1>8, <2>1 DEF Typed
<1>10. Pruned(n, m, occupied)
  BY <1>2, <1>4, <1>6, <1>7, <1>9 DEF Pruned, SameFocus
<1> QED BY <1>4, <1>6, <1>7, <1>10 DEF n, o

LEMMA DropWorkspacesGood ==
    ASSUME NEW m, NEW P, Stack(m, P), NEW occupied, occupied \subseteq DOMAIN m.ws,
           NEW doomed, m.active \notin doomed,
           \A id \in DOMAIN m.ws : id \in doomed => ~HasContent(m, occupied, id)
    PROVE  LET n == DropWorkspaces(m, doomed)
           IN  /\ Pruned(n, m, occupied) /\ n.order = Dropped(m.order, doomed)
               /\ DOMAIN n.ws = DOMAIN m.ws \ doomed
<1> DEFINE n == DropWorkspaces(m, doomed)
           o == Dropped(m.order, doomed)
           ws == [k \in DOMAIN m.ws \ doomed |-> m.ws[k]]
           p == IF m.previous \in doomed THEN NoWorkspace ELSE m.previous
<1>1. /\ m.order \in Seq(Keys) /\ IsInjective(m.order) /\ ToSet(m.order) = DOMAIN m.ws
      /\ m.active \in DOMAIN m.ws /\ DOMAIN m.ws \subseteq Keys
      /\ m.previous \in Keys \cup {NoWorkspace} /\ m.lastActivated \in Windows \cup {NoWindow}
      /\ IsRec(m)
  BY TypedIsRec DEF Stack, Typed
<1>2. o \in Seq(Keys) /\ IsInjective(o) /\ ToSet(o) = DOMAIN m.ws \ doomed
  BY <1>1, DroppedSet
<1>3. Restrict(m.ws, DOMAIN m.ws \ doomed) = ws
  BY DEF Restrict
<1>4. /\ n.order = o /\ n.ws = Restrict(m.ws, DOMAIN m.ws \ doomed) /\ n.active = m.active
      /\ n.previous = p /\ n.focusColumn = m.focusColumn
      /\ n.focusWindow = m.focusWindow /\ n.ring = m.ring /\ n.lastActivated = m.lastActivated
  BY <1>1 DEF DropWorkspaces, IsRec, MonNames
<1>5. IsRec(n)
  BY <1>1 DEF DropWorkspaces, IsRec, MonNames
<1>6. /\ DOMAIN ws = DOMAIN m.ws \ doomed /\ ws = [k \in DOMAIN ws |-> ws[k]]
      /\ \A k \in DOMAIN ws : ws[k] = m.ws[k]
  OBVIOUS
<1>60. p \in Keys \cup {NoWorkspace}
  BY <1>1
<1> HIDE DEF n, o, ws, p
<1>7. n.ws = ws
  BY <1>3, <1>4
<1>8. n = [order |-> n.order, ws |-> n.ws, active |-> n.active, previous |-> n.previous,
           focusColumn |-> n.focusColumn, focusWindow |-> n.focusWindow, ring |-> n.ring,
           lastActivated |-> n.lastActivated]
  BY <1>5, RecIsLiteral
<1>9. Typed(n)
  <2>1. /\ n.order \in Seq(Keys) /\ n.ws = [k \in DOMAIN n.ws |-> n.ws[k]]
        /\ DOMAIN n.ws \subseteq Keys /\ n.active \in DOMAIN n.ws
        /\ n.previous \in Keys \cup {NoWorkspace} /\ n.lastActivated \in Windows \cup {NoWindow}
    BY <1>1, <1>2, <1>4, <1>6, <1>60, <1>7
  <2> QED BY <1>8, <2>1 DEF Typed
<1>10. Pruned(n, m, occupied)
  BY <1>1, <1>2, <1>4, <1>6, <1>7, <1>9 DEF Pruned, SameFocus
<1> QED BY <1>4, <1>6, <1>7, <1>10 DEF n, o

\* The part of the order below the last workspace with content.
BelowIs(m, occupied, b, last) ==
    /\ last \in 0 .. Len(m.order) /\ b \in Seq(Keys) /\ Len(b) = Len(m.order) - last
    /\ \A i \in 1 .. Len(b) : b[i] = m.order[last + i]
    /\ \A j \in 1 .. Len(m.order) : last < j => ~HasContent(m, occupied, m.order[j])

LEMMA BelowGood ==
    ASSUME NEW m, NEW P, Stack(m, P), NEW occupied
    PROVE  \E last : BelowIs(m, occupied, BelowOccupied(m, occupied), last)
<1> DEFINE o == m.order
           I == {i \in 1 .. Len(o) : HasContent(m, occupied, o[i])}
           last == IF I # {} THEN Max(I) ELSE 0
           b == SubSeq(o, 1 + last, Len(o))
<1>1. o \in Seq(Keys) /\ Len(o) \in Nat
  BY Ends
<1>2. BelowOccupied(m, occupied) = b
  BY DEF BelowOccupied, SelectLastInSeq
<1>3. I \in SUBSET Nat /\ \A i \in I : i \in 1 .. Len(o) /\ i <= Len(o) /\ HasContent(m, occupied, o[i])
  BY <1>1
<1>4. \A j \in 1 .. Len(o) : HasContent(m, occupied, o[j]) => j \in I
  OBVIOUS
<1> HIDE DEF I, o
<1>5. last \in 0 .. Len(o) /\ \A i \in I : i <= last
  <2>1. CASE I = {}
    BY <1>1, <2>1
  <2>2. CASE I # {}
    <3>1. Max(I) \in I /\ \A i \in I : i <= Max(I)
      BY <1>1, <1>3, <2>2, MaxOfSet
    <3>2. last = Max(I)
      BY <2>2
    <3>3. last \in 1 .. Len(o)
      BY <1>3, <3>1, <3>2
    <3> QED BY <1>1, <3>1, <3>2, <3>3
  <2> QED BY <2>1, <2>2
<1> HIDE DEF last
<1>6. b \in Seq(Keys) /\ Len(b) = Len(o) - last /\ \A i \in 1 .. Len(b) : b[i] = o[last + i]
  BY <1>1, <1>5
<1>7. \A j \in 1 .. Len(o) : last < j => ~HasContent(m, occupied, o[j])
  BY <1>1, <1>3, <1>4, <1>5
<1> HIDE DEF b
<1> QED BY <1>2, <1>5, <1>6, <1>7 DEF BelowIs, o

LEMMA GrowTrailingGood ==
    ASSUME NEW m, NEW P, Stack(m, P), NEW occupied, occupied \subseteq DOMAIN m.ws,
           Cardinality(DOMAIN m.ws) <= MaxKey
    PROVE  LET n == GrowTrailing(m, occupied)
           IN  Pruned(n, m, occupied) /\ BelowOccupied(n, occupied) # <<>>
<1> DEFINE n == GrowTrailing(m, occupied)
<1>1. CASE BelowOccupied(m, occupied) # <<>>
  <2>1. n = m
    BY <1>1 DEF GrowTrailing
  <2> QED BY <1>1, <2>1, PrunedRefl
<1>2. CASE BelowOccupied(m, occupied) = <<>>
  <2> DEFINE id == NewKey(m)
             at == Len(m.order) + 1
  <2>1. n = InsertWorkspace(m, id, at)
    BY <1>2 DEF GrowTrailing
  <2>2. id \in Keys \ DOMAIN m.ws
    BY NewKeyIsFree
  <2>3. Len(m.order) \in Nat /\ m.order \in Seq(Keys)
    BY Ends
  <2>4. at \in 1 .. Len(m.order) + 1
    BY <2>3
  <2> HIDE DEF id, n
  <2>5. Pruned(n, m, occupied) /\ n.order = InsertAt(m.order, at, id)
    BY <2>1, <2>2, <2>4, InsertWorkspaceGood
  <2>6. n.order[at] = id /\ Len(n.order) = at
    <3> DEFINE t == InsertAt(m.order, at, id)
    <3>0. id \in Keys /\ m.order \in Seq(Keys) /\ at \in 1 .. Len(m.order) + 1
      BY <2>2, <2>3, <2>4
    <3>1. /\ Len(t) = Len(m.order) + 1
          /\ \A j \in 1 .. Len(m.order) + 1 :
                t[j] = IF j < at THEN m.order[j] ELSE IF j = at THEN id ELSE m.order[j - 1]
      <4> HIDE DEF at
      <4> QED BY <3>0, InsertAtProperties
    <3> HIDE DEF t
    <3>2. t[at] = id
      BY <2>3, <2>4, <3>1
    <3> QED BY <2>5, <3>1, <3>2 DEF t
  <2>7. Stack(n, P) /\ \A k \in DOMAIN n.ws :
              HasContent(n, occupied, k) <=> k \in DOMAIN m.ws /\ HasContent(m, occupied, k)
    BY <2>5, PrunedContent
  <2>8. at \in 1 .. Len(n.order) /\ at = Len(n.order) /\ Len(n.order) \in Nat
    BY <2>3, <2>6
  <2>9. n.order[at] \in DOMAIN n.ws
    BY <2>7, <2>8, Ends
  <2>10. ~HasContent(n, occupied, n.order[at])
    BY <2>2, <2>6, <2>7, <2>9
  <2> DEFINE b == BelowOccupied(n, occupied)
             I == {i \in 1 .. Len(n.order) : HasContent(n, occupied, n.order[i])}
             last == IF I # {} THEN Max(I) ELSE 0
  <2>11. b = SubSeq(n.order, 1 + last, Len(n.order))
    BY DEF BelowOccupied, SelectLastInSeq
  <2>12. at \notin I /\ \A i \in I : i \in Nat /\ i <= at
    BY <2>8, <2>10
  <2> HIDE DEF I, b, at
  <2>13. last \in Nat /\ last < at
    <3>1. at \in Nat /\ at # 0
      BY <2>3 DEF at
    <3>2. CASE I = {}
      BY <3>1, <3>2
    <3>3. CASE I # {}
      <4>1. I \in SUBSET Nat
        BY <2>12
      <4>2. Max(I) \in I
        BY <2>12, <3>1, <3>3, <4>1, MaxOfSet
      <4> QED BY <2>12, <3>1, <3>3, <4>2
    <3> QED BY <3>2, <3>3
  <2> HIDE DEF last
  <2>14. n.order \in Seq(Keys)
    BY <2>7, Ends
  <2>15. Len(b) # 0
    BY <2>8, <2>11, <2>13, <2>14
  <2>16. b # <<>>
    BY <2>15
  <2> QED BY <2>5, <2>16 DEF b, n
<1> QED BY <1>1, <1>2

\* The empty workspace that stays.
LEMMA KeptGood ==
    ASSUME NEW m, NEW empty \in Seq(Keys), empty # <<>>
    PROVE  /\ \E i \in 1 .. Len(empty) : empty[i] = Kept(m, empty)
           /\ m.active \in ToSet(empty) => Kept(m, empty) = m.active
           /\ m.active \notin ToSet(empty) => Kept(m, empty) = empty[1]
<1>1. Len(empty) \in Nat \ {0} /\ 1 \in 1 .. Len(empty)
  <2>1. Len(empty) # 0
    BY EmptySeq
  <2> QED BY <2>1
<1>2. InSeq(empty, m.active) <=> m.active \in ToSet(empty)
  BY InSeqOf
<1>3. m.active \in ToSet(empty) <=> \E i \in 1 .. Len(empty) : empty[i] = m.active
  BY ToSetOf
<1> QED BY <1>1, <1>2, <1>3 DEF Kept

\* Each workspace with content has a window in it, a window that is to come back
\* to it, or a name.
Housed(occupied, P) == \E h : occupied \subseteq {h[w] : w \in Windows \ P}

ContentIn(m, occupied) == {id \in DOMAIN m.ws : HasContent(m, occupied, id)}

LEMMA ContentBound ==
    ASSUME NEW m, NEW P, Stack(m, P), NEW occupied, Housed(occupied, P),
           Cardinality(NamedIn(m)) <= MaxNamed
    PROVE  /\ IsFiniteSet(ContentIn(m, occupied)) /\ IsFiniteSet(DOMAIN m.ws)
           /\ Cardinality(ContentIn(m, occupied)) \in Nat
           /\ Cardinality(ContentIn(m, occupied)) <= Cardinality(Windows) + MaxNamed
<1>1. PICK h : occupied \subseteq {h[w] : w \in Windows \ P}
  BY DEF Housed
<1> DEFINE f == [w \in Windows |-> IF w \in P THEN CHOOSE id \in DOMAIN m.ws : w \in WindowsOf(m.ws[id])
                                   ELSE h[w]]
           I == {f[w] : w \in Windows}
<1>2. f \in Surjection(Windows, I)
  BY DEF Surjection
<1>3. IsFiniteSet(Windows) /\ MaxNamed \in Nat /\ MaxKey \in Nat
  BY MonitorAssumption
<1>4. \A id \in DOMAIN m.ws : WindowsOf(m.ws[id]) # {} => id \in I
  <2> SUFFICES ASSUME NEW id \in DOMAIN m.ws, NEW w \in WindowsOf(m.ws[id]) PROVE id \in I
    OBVIOUS
  <2>1. w \in P /\ w \in Windows
    BY StripFields DEF Stack
  <2>2. \A j \in DOMAIN m.ws : w \in WindowsOf(m.ws[j]) => j = id
    BY DEF Stack
  <2>3. (CHOOSE j \in DOMAIN m.ws : w \in WindowsOf(m.ws[j])) = id
    BY <2>2
  <2>4. f[w] = id
    BY <2>1, <2>3
  <2> HIDE DEF f
  <2> QED BY <2>1, <2>4
<1>5. occupied \subseteq I
  <2> SUFFICES ASSUME NEW w \in Windows \ P PROVE h[w] \in I
    BY <1>1
  <2>1. f[w] = h[w]
    OBVIOUS
  <2> HIDE DEF f
  <2> QED BY <2>1
<1> HIDE DEF f
<1>6. IsFiniteSet(I) /\ Cardinality(I) <= Cardinality(Windows)
  BY <1>2, <1>3, FS_Surjection
<1> HIDE DEF I
<1>7. IsFiniteSet(DOMAIN m.ws)
  <2>1. IsFiniteSet(Keys)
    BY <1>3, FS_Interval DEF Keys
  <2> QED BY <2>1, FS_Subset DEF Stack, Typed
<1>8. IsFiniteSet(NamedIn(m))
  BY <1>7, FS_Subset DEF NamedIn
<1>9. ContentIn(m, occupied) \subseteq I \cup NamedIn(m)
  BY <1>4, <1>5 DEF ContentIn, HasContent, NamedIn
<1>10. /\ IsFiniteSet(I \cup NamedIn(m))
       /\ Cardinality(I \cup NamedIn(m)) <= Cardinality(I) + Cardinality(NamedIn(m))
  <2>1. /\ IsFiniteSet(I \cup NamedIn(m)) /\ IsFiniteSet(I \cap NamedIn(m))
        /\ Cardinality(I \cup NamedIn(m))
           = Cardinality(I) + Cardinality(NamedIn(m)) - Cardinality(I \cap NamedIn(m))
    BY <1>6, <1>8, FS_Union, FS_Intersection
  <2>2. /\ Cardinality(I) \in Nat /\ Cardinality(NamedIn(m)) \in Nat
        /\ Cardinality(I \cap NamedIn(m)) \in Nat
    BY <1>6, <1>8, <2>1, FS_CardinalityType
  <2> QED BY <2>1, <2>2
<1>11. /\ IsFiniteSet(ContentIn(m, occupied))
       /\ Cardinality(ContentIn(m, occupied)) <= Cardinality(I \cup NamedIn(m))
  BY <1>9, <1>10, FS_Subset
<1>12. /\ Cardinality(ContentIn(m, occupied)) \in Nat /\ Cardinality(I) \in Nat
       /\ Cardinality(NamedIn(m)) \in Nat /\ Cardinality(I \cup NamedIn(m)) \in Nat
       /\ Cardinality(Windows) \in Nat
  BY <1>3, <1>6, <1>8, <1>10, <1>11, FS_CardinalityType
<1> QED BY <1>3, <1>6, <1>7, <1>10, <1>11, <1>12

\* Below the last workspace with content one stays, and no other but the active one.
LEMMA TrimTrailingGood ==
    ASSUME NEW m, NEW P, Stack(m, P), NEW occupied, occupied \subseteq DOMAIN m.ws,
           BelowOccupied(m, occupied) # <<>>
    PROVE  LET n == TrimTrailing(m, occupied)
           IN  /\ Pruned(n, m, occupied)
               /\ ~HasContent(n, occupied, Last(n.order))
               /\ \E trail : DOMAIN n.ws \subseteq ContentIn(m, occupied) \cup {trail, m.active}
<1> DEFINE n == TrimTrailing(m, occupied)
           b == BelowOccupied(m, occupied)
           trail == Kept(m, b)
           doomed == {id \in DOMAIN m.ws : id \notin {trail, m.active} /\ ~HasContent(m, occupied, id)}
           o == m.order
<1>1. PICK last : BelowIs(m, occupied, b, last)
  BY BelowGood
<1>2. /\ last \in 0 .. Len(o) /\ b \in Seq(Keys) /\ Len(b) = Len(o) - last
      /\ \A i \in 1 .. Len(b) : b[i] = o[last + i]
      /\ \A j \in 1 .. Len(o) : last < j => ~HasContent(m, occupied, o[j])
  BY <1>1 DEF BelowIs
<1>3. n = DropWorkspaces(m, doomed)
  BY DEF TrimTrailing, TrimEmpty
<1> HIDE DEF n, b, trail
<1>4. Pruned(n, m, occupied) /\ n.order = Dropped(o, doomed) /\ DOMAIN n.ws = DOMAIN m.ws \ doomed
  BY <1>3, DropWorkspacesGood
<1>5. DOMAIN n.ws \subseteq ContentIn(m, occupied) \cup {trail, m.active}
  BY <1>4 DEF ContentIn
<1>6. /\ o \in Seq(Keys) /\ Len(o) \in Nat /\ \A i \in 1 .. Len(o) : o[i] \in DOMAIN m.ws
      /\ \A i, j \in 1 .. Len(o) : o[i] = o[j] => i = j
  <2>1. IsInjective(o) /\ o \in Seq(Keys)
    BY DEF Stack, Typed
  <2> QED BY <2>1, Ends, ToSetOf
<1>7. b # <<>> /\ \E i \in 1 .. Len(b) : b[i] = trail
  BY <1>2, KeptGood DEF b, trail
<1>8. PICK k \in 1 .. Len(b) : b[k] = trail
  BY <1>7
<1> DEFINE i == last + k
<1>9. i \in 1 .. Len(o) /\ last < i /\ o[i] = trail
  BY <1>2, <1>6, <1>8
<1> HIDE DEF i
<1>10. ASSUME NEW j \in 1 .. Len(o), i < j PROVE o[j] \in doomed
  <2>1. o[j] # trail
    BY <1>6, <1>9, <1>10
  <2>2. ~HasContent(m, occupied, o[j])
    BY <1>2, <1>6, <1>9, <1>10
  <2>3. o[j] # m.active
    <3>1. SUFFICES ASSUME o[j] = m.active PROVE FALSE
      OBVIOUS
    <3>2. PICK l \in 1 .. Len(b) : l = j - last
      BY <1>2, <1>6, <1>9, <1>10
    <3>3. last + l = j
      BY <1>2, <1>6, <3>2
    <3>4. b[l] = m.active
      BY <1>2, <3>1, <3>3
    <3>5. m.active \in ToSet(b)
      BY <1>2, <3>4, ToSetOf
    <3>6. trail = m.active
      BY <1>2, <1>7, <3>5, KeptGood DEF trail, b
    <3> QED BY <2>1, <3>1, <3>6
  <2> QED BY <1>6, <2>1, <2>2, <2>3
<1>11. Last(n.order) = trail
  <2>1. o[i] \notin doomed
    BY <1>9
  <2> HIDE DEF doomed
  <2> QED BY <1>4, <1>6, <1>9, <1>10, <2>1, DroppedEnds
<1>12. ~HasContent(n, occupied, Last(n.order))
  <2>1. trail \in DOMAIN n.ws
    BY <1>4, <1>6, <1>9
  <2>2. ~HasContent(m, occupied, trail)
    BY <1>2, <1>9
  <2> QED BY <1>4, <1>11, <2>1, <2>2, PrunedContent
<1> QED BY <1>4, <1>5, <1>12 DEF n

LEMMA KeepTrailingGood ==
    ASSUME NEW m, NEW P, Stack(m, P), NEW occupied, Housed(occupied, P), Roomy(m, occupied)
    PROVE  LET n == KeepTrailing(m, occupied)
           IN  /\ Pruned(n, m, occupied)
               /\ ~HasContent(n, occupied, Last(n.order))
               /\ Cardinality(DOMAIN n.ws) + 1 <= MaxKey
<1> DEFINE g == GrowTrailing(m, occupied)
           n == KeepTrailing(m, occupied)
<1>1. /\ occupied \subseteq DOMAIN m.ws /\ Cardinality(DOMAIN m.ws) <= MaxKey
      /\ Cardinality(NamedIn(m)) <= MaxNamed
  BY DEF Roomy
<1>2. n = TrimTrailing(g, occupied)
  BY DEF KeepTrailing
<1>3. Pruned(g, m, occupied) /\ BelowOccupied(g, occupied) # <<>>
  BY <1>1, GrowTrailingGood
<1> HIDE DEF g, n
<1>4. Stack(g, P) /\ occupied \subseteq DOMAIN g.ws /\ NamedIn(g) = NamedIn(m)
  BY <1>1, <1>3, PrunedContent
<1>5. /\ Pruned(n, g, occupied) /\ ~HasContent(n, occupied, Last(n.order))
      /\ \E trail : DOMAIN n.ws \subseteq ContentIn(g, occupied) \cup {trail, g.active}
  BY <1>2, <1>3, <1>4, TrimTrailingGood
<1>6. Pruned(n, m, occupied)
  BY <1>1, <1>3, <1>5, PrunedTrans
<1>7. PICK trail : DOMAIN n.ws \subseteq ContentIn(g, occupied) \cup {trail, g.active}
  BY <1>5
<1> DEFINE C == ContentIn(g, occupied)
           D == C \cup {trail}
           E == D \cup {g.active}
<1>8. /\ IsFiniteSet(C) /\ Cardinality(C) \in Nat
      /\ Cardinality(C) <= Cardinality(Windows) + MaxNamed
  BY <1>1, <1>4, ContentBound
<1> HIDE DEF C
<1>9. IsFiniteSet(D) /\ Cardinality(D) \in Nat /\ Cardinality(D) <= Cardinality(C) + 1
  <2>1. IsFiniteSet(D) /\ Cardinality(D) = IF trail \in C THEN Cardinality(C) ELSE Cardinality(C) + 1
    BY <1>8, FS_AddElement
  <2> HIDE DEF D
  <2> QED BY <1>8, <2>1
<1> HIDE DEF D
<1>10. IsFiniteSet(E) /\ Cardinality(E) \in Nat /\ Cardinality(E) <= Cardinality(D) + 1
  <2>1. /\ IsFiniteSet(E)
        /\ Cardinality(E) = IF g.active \in D THEN Cardinality(D) ELSE Cardinality(D) + 1
    BY <1>9, FS_AddElement
  <2> HIDE DEF E
  <2> QED BY <1>9, <2>1
<1>11. DOMAIN n.ws \subseteq E
  BY <1>7 DEF C, D
<1> HIDE DEF E
<1>12. IsFiniteSet(DOMAIN n.ws) /\ Cardinality(DOMAIN n.ws) <= Cardinality(E)
  BY <1>10, <1>11, FS_Subset
<1>13. Cardinality(DOMAIN n.ws) \in Nat /\ Cardinality(Windows) \in Nat /\ MaxNamed \in Nat /\ MaxKey \in Nat
       /\ Cardinality(Windows) + MaxNamed + 3 <= MaxKey
  BY <1>12, MonitorAssumption, FS_CardinalityType
<1> QED BY <1>5, <1>6, <1>8, <1>9, <1>10, <1>12, <1>13 DEF n

\* empty-workspace-above-first.
LEMMA KeepLeadingGood ==
    ASSUME NEW m, NEW P, Stack(m, P), NEW occupied, occupied \subseteq DOMAIN m.ws,
           Cardinality(DOMAIN m.ws) + 1 <= MaxKey, ~HasContent(m, occupied, Last(m.order))
    PROVE  LET n == KeepLeading(m, occupied)
           IN  /\ Pruned(n, m, occupied)
               /\ ~HasContent(n, occupied, Last(n.order)) /\ ~HasContent(n, occupied, n.order[1])
               /\ Cardinality(DOMAIN n.ws) <= MaxKey
<1> DEFINE n == KeepLeading(m, occupied)
           o == m.order
           I == {i \in 1 .. Len(o) : HasContent(m, occupied, o[i])}
           first == IF I # {} THEN Min(I) ELSE 0
           above == SubSeq(o, 1, first - 1)
           doomed == ToSet(above) \ {Kept(m, above), m.active}
<1>1. n = IF first = 0 THEN m
          ELSE IF first = 1 THEN InsertWorkspace(m, NewKey(m), 1)
          ELSE DropWorkspaces(m, doomed)
  BY DEF KeepLeading, SelectInSeq
<1>2. /\ o \in Seq(Keys) /\ Len(o) \in Nat \ {0} /\ \A i \in 1 .. Len(o) : o[i] \in DOMAIN m.ws
      /\ \A i, j \in 1 .. Len(o) : o[i] = o[j] => i = j
      /\ Last(o) = o[Len(o)] /\ 1 \in 1 .. Len(o) /\ Len(o) \in 1 .. Len(o)
  <2>1. IsInjective(o) /\ o \in Seq(Keys)
    BY DEF Stack, Typed
  <2>2. Len(o) \in Nat \ {0} /\ Last(o) = o[Len(o)] /\ \A i \in 1 .. Len(o) : o[i] \in DOMAIN m.ws
    BY Ends
  <2>3. 1 \in 1 .. Len(o) /\ Len(o) \in 1 .. Len(o)
    BY <2>2
  <2> QED BY <2>1, <2>2, <2>3, ToSetOf
<1>3. /\ I \in SUBSET Nat /\ \A i \in I : i \in 1 .. Len(o) /\ HasContent(m, occupied, o[i])
      /\ \A i \in 1 .. Len(o) : i \notin I => ~HasContent(m, occupied, o[i])
  BY <1>2
<1>4. IsFiniteSet(DOMAIN m.ws) /\ Cardinality(DOMAIN m.ws) \in Nat /\ MaxKey \in Nat
  <2>1. IsFiniteSet(Keys) /\ MaxKey \in Nat
    BY MonitorAssumption, FS_Interval DEF Keys
  <2> QED BY <2>1, FS_Subset, FS_CardinalityType DEF Stack, Typed
<1>5. Len(o) \notin I
  BY <1>2, <1>3
<1> HIDE DEF I, n
<1>6. CASE I = {}
  <2>1. n = m
    BY <1>1, <1>6
  <2>2. ~HasContent(m, occupied, o[1])
    BY <1>2, <1>3, <1>6
  <2> QED BY <1>4, <2>1, <2>2, PrunedRefl DEF n
<1>7. CASE I # {}
  <2>1. first \in I /\ first = Min(I) /\ \A i \in I : first <= i
    BY <1>3, <1>7, MinOfSet
  <2> HIDE DEF first
  <2>2. first \in 1 .. Len(o) /\ first < Len(o)
    BY <1>2, <1>3, <1>5, <2>1
  <2>3. \A i \in 1 .. Len(o) : i < first => ~HasContent(m, occupied, o[i])
    BY <1>2, <1>3, <2>1, <2>2
  <2>4. CASE first = 1
    <3> DEFINE id == NewKey(m)
    <3>1. id \in Keys \ DOMAIN m.ws
      BY <1>4, NewKeyIsFree
    <3>2. n = InsertWorkspace(m, id, 1) /\ 1 \in 1 .. Len(o) + 1
      BY <1>1, <1>2, <2>4
    <3> HIDE DEF id
    <3>3. Pruned(n, m, occupied) /\ n.order = InsertAt(o, 1, id) /\ DOMAIN n.ws = DOMAIN m.ws \cup {id}
      BY <3>1, <3>2, InsertWorkspaceGood
    <3> DEFINE t == InsertAt(o, 1, id)
    <3>4. /\ Len(t) = Len(o) + 1
          /\ \A j \in 1 .. Len(o) + 1 : t[j] = IF j < 1 THEN o[j] ELSE IF j = 1 THEN id ELSE o[j - 1]
      BY <1>2, <3>1, <3>2, InsertAtProperties
    <3> HIDE DEF t
    <3>5. t[1] = id /\ t[Len(t)] = o[Len(o)]
      <4>1. Len(t) \in 1 .. Len(o) + 1 /\ 1 \in 1 .. Len(o) + 1 /\ Len(t) - 1 = Len(o)
            /\ ~(Len(t) < 1) /\ Len(t) # 1
        BY <1>2, <3>4
      <4> QED BY <3>4, <4>1
    <3>6. n.order[1] = id /\ Last(n.order) = Last(o)
      BY <1>2, <3>3, <3>5 DEF t, Last
    <3>7. \A k \in DOMAIN n.ws :
            HasContent(n, occupied, k) <=> k \in DOMAIN m.ws /\ HasContent(m, occupied, k)
      BY <3>3, PrunedContent
    <3>8. ~HasContent(n, occupied, n.order[1]) /\ ~HasContent(n, occupied, Last(n.order))
      BY <1>2, <3>1, <3>3, <3>6, <3>7
    <3>9. Cardinality(DOMAIN n.ws) <= MaxKey
      <4> DEFINE u == DOMAIN m.ws \cup {id}
      <4>1. Cardinality(u) = IF id \in DOMAIN m.ws THEN Cardinality(DOMAIN m.ws)
                             ELSE Cardinality(DOMAIN m.ws) + 1
        BY <1>4, FS_AddElement
      <4> HIDE DEF u
      <4>2. Cardinality(u) <= MaxKey
        BY <1>4, <4>1
      <4> QED BY <3>3, <4>2 DEF u
    <3> QED BY <3>3, <3>8, <3>9 DEF n
  <2>5. CASE first # 1
    <3>1. n = DropWorkspaces(m, doomed)
      BY <1>1, <2>2, <2>5
    <3>2. above \in Seq(Keys) /\ Len(above) = first - 1 /\ \A i \in 1 .. Len(above) : above[i] = o[i]
      BY <1>2, <2>2
    <3> DEFINE trail == Kept(m, above)
    <3> HIDE DEF above, trail
    <3>3. above # <<>>
      BY <2>2, <2>5, <3>2
    <3>4. /\ \E i \in 1 .. Len(above) : above[i] = trail
          /\ m.active \in ToSet(above) => trail = m.active
      BY <3>2, <3>3, KeptGood DEF trail
    <3>5. PICK i \in 1 .. Len(above) : above[i] = trail
      BY <3>4
    <3>6. i \in 1 .. Len(o) /\ i < first /\ o[i] = trail /\ ~HasContent(m, occupied, trail)
      BY <1>2, <2>2, <2>3, <3>2, <3>5
    <3>7. \A x : x \in ToSet(above) <=> \E j \in 1 .. Len(above) : above[j] = x
      BY <3>2, ToSetOf
    <3>8. doomed = ToSet(above) \ {trail, m.active}
      BY DEF trail
    <3> HIDE DEF doomed
    <3>9. /\ m.active \notin doomed /\ trail \notin doomed
          /\ \A id \in DOMAIN m.ws : id \in doomed => ~HasContent(m, occupied, id)
      <4>1. \A j \in 1 .. Len(above) : j \in 1 .. Len(o) /\ j < first
        BY <1>2, <2>2, <3>2
      <4> QED BY <2>3, <3>2, <3>7, <3>8, <4>1
    <3>10. Pruned(n, m, occupied) /\ n.order = Dropped(o, doomed) /\ DOMAIN n.ws = DOMAIN m.ws \ doomed
      BY <3>1, <3>9, DropWorkspacesGood
    <3>11. ASSUME NEW j \in 1 .. Len(o), j < i PROVE o[j] \in doomed
      <4>1. j \in 1 .. Len(above) /\ above[j] = o[j]
        BY <1>2, <2>2, <3>2, <3>6, <3>11
      <4>2. o[j] \in ToSet(above)
        BY <3>7, <4>1
      <4>3. o[j] # trail
        BY <1>2, <3>6, <3>11
      <4> QED BY <3>4, <3>8, <4>2, <4>3
    <3>12. n.order[1] = trail
      BY <1>2, <3>6, <3>9, <3>10, <3>11, DroppedEnds
    <3>13. o[Len(o)] \notin doomed
      <4>1. SUFFICES ASSUME o[Len(o)] \in ToSet(above) PROVE FALSE
        BY <3>8
      <4>2. PICK j \in 1 .. Len(above) : above[j] = o[Len(o)]
        BY <3>7, <4>1
      <4>3. j \in 1 .. Len(o) /\ j < first /\ o[j] = o[Len(o)]
        BY <1>2, <2>2, <3>2, <4>2
      <4> QED BY <1>2, <2>2, <4>3
    <3>14. Last(n.order) = o[Len(o)]
      <4>1. \A j \in 1 .. Len(o) : Len(o) < j => o[j] \in doomed
        BY <1>2
      <4> QED BY <1>2, <3>10, <3>13, <4>1, DroppedEnds
    <3>15. \A k \in DOMAIN n.ws :
            HasContent(n, occupied, k) <=> k \in DOMAIN m.ws /\ HasContent(m, occupied, k)
      BY <3>10, PrunedContent
    <3>16. trail \in DOMAIN n.ws /\ o[Len(o)] \in DOMAIN n.ws
      BY <1>2, <3>6, <3>9, <3>10, <3>13
    <3>17. ~HasContent(n, occupied, n.order[1]) /\ ~HasContent(n, occupied, Last(n.order))
      BY <1>2, <3>6, <3>12, <3>14, <3>15, <3>16
    <3>18. Cardinality(DOMAIN n.ws) <= MaxKey
      <4>1. DOMAIN n.ws \subseteq DOMAIN m.ws
        BY <3>10
      <4>2. Cardinality(DOMAIN n.ws) <= Cardinality(DOMAIN m.ws) /\ IsFiniteSet(DOMAIN n.ws)
        BY <1>4, <4>1, FS_Subset
      <4>3. Cardinality(DOMAIN n.ws) \in Nat
        BY <4>2, FS_CardinalityType
      <4> QED BY <1>4, <4>2, <4>3
    <3> QED BY <3>10, <3>17, <3>18 DEF n
  <2> QED BY <2>4, <2>5
<1> QED BY <1>6, <1>7

LEMMA MaintainGood ==
    ASSUME NEW m, NEW P, Stack(m, P), NEW min, Housed(Homes(min), P), Roomy(m, Homes(min))
    PROVE  LET n == Maintain(m, min)
           IN  /\ Pruned(n, m, Homes(min)) /\ Roomy(n, Homes(min))
               /\ Settled(n, Homes(min), config.aboveFirst)
<1> DEFINE occ == Homes(min)
           t == KeepTrailing(m, occ)
           n == Maintain(m, min)
<1>1. n = IF config.aboveFirst THEN KeepLeading(t, occ) ELSE t
  BY DEF Maintain
<1> HIDE DEF occ, t, n
<1>0. Housed(occ, P) /\ Roomy(m, occ) /\ occ \subseteq DOMAIN m.ws /\ Cardinality(NamedIn(m)) <= MaxNamed
  BY DEF occ, Roomy
<1>2. /\ Pruned(t, m, occ) /\ ~HasContent(t, occ, Last(t.order))
      /\ Cardinality(DOMAIN t.ws) + 1 <= MaxKey
  BY <1>0, KeepTrailingGood DEF t
<1>3. Stack(t, P) /\ occ \subseteq DOMAIN t.ws /\ NamedIn(t) = NamedIn(m)
  BY <1>0, <1>2, PrunedContent
<1>4. Cardinality(DOMAIN t.ws) \in Nat /\ MaxKey \in Nat
  <2>1. IsFiniteSet(Keys) /\ MaxKey \in Nat
    BY MonitorAssumption, FS_Interval DEF Keys
  <2> QED BY <1>3, <2>1, FS_Subset, FS_CardinalityType DEF Stack, Typed
<1>5. CASE config.aboveFirst
  <2>1. n = KeepLeading(t, occ)
    BY <1>1, <1>5
  <2>2. /\ Pruned(n, t, occ) /\ Cardinality(DOMAIN n.ws) <= MaxKey
        /\ ~HasContent(n, occ, Last(n.order)) /\ ~HasContent(n, occ, n.order[1])
    BY <1>2, <1>3, <2>1, KeepLeadingGood
  <2>3. Pruned(n, m, occ)
    BY <1>0, <1>2, <2>2, PrunedTrans
  <2>4. occ \subseteq DOMAIN n.ws /\ NamedIn(n) = NamedIn(m)
    BY <1>0, <2>3, PrunedContent
  <2> QED BY <1>0, <2>2, <2>3, <2>4 DEF Roomy, Settled, n, occ
<1>6. CASE ~config.aboveFirst
  <2>1. n = t
    BY <1>1, <1>6
  <2> QED BY <1>0, <1>2, <1>3, <1>4, <1>6, <2>1 DEF Roomy, Settled, n, occ
<1> QED BY <1>5, <1>6

----------------------------------------------------------------------------
(* The cursors of the workspaces nobody looks at.                          *)

\* Outside S, a workspace of n that is not empty has the windows and the cursor it has in m.
SameCursors(n, m, S) ==
    \A id \in DOMAIN n.ws \ S :
        \/ WindowsOf(n.ws[id]) = {}
        \/ /\ id \in DOMAIN m.ws
           /\ n.ws[id].active = m.ws[id].active
           /\ WindowsOf(n.ws[id]) = WindowsOf(m.ws[id])

\* Outside S, a cursor that is a window of the workspace in m and in n is the same.
KeptCursors(n, m, S) ==
    \A id \in (DOMAIN n.ws \cap DOMAIN m.ws) \ S :
        /\ m.ws[id].active \in WindowsOf(m.ws[id])
        /\ m.ws[id].active \in WindowsOf(n.ws[id])
        => n.ws[id].active = m.ws[id].active

\* The strips nobody looks at remember what they did.
QuietStrips(n, m) == \A id \in DOMAIN m.ws \ {m.active} : n.ws[id].active = m.ws[id].active

LEMMA SameCursorsTrans ==
    ASSUME NEW p, NEW n, NEW m, NEW S, NEW T, NEW U, S \subseteq U, T \subseteq U,
           SameCursors(p, n, S), SameCursors(n, m, T)
    PROVE  SameCursors(p, m, U)
BY DEF SameCursors

LEMMA KeptThenSame ==
    ASSUME NEW p, NEW n, NEW m, NEW S, NEW T, NEW U, S \subseteq U, T \subseteq U,
           SameCursors(p, n, S), KeptCursors(n, m, T)
    PROVE  KeptCursors(p, m, U)
BY DEF SameCursors, KeptCursors

LEMMA SameIsKept ==
    ASSUME NEW n, NEW m, NEW S, NEW U, S \subseteq U, SameCursors(n, m, S)
    PROVE  KeptCursors(n, m, U)
BY DEF SameCursors, KeptCursors

LEMMA SameStrips ==
    ASSUME NEW n, NEW m, n.ws = m.ws, NEW S
    PROVE  SameCursors(n, m, S)
BY DEF SameCursors

LEMMA QuietIsSame ==
    ASSUME NEW m, NEW P, Stack(m, P), NEW n, InPlace(n, m), QuietStrips(n, m)
    PROVE  SameCursors(n, m, {m.active})
<1>1. DOMAIN n.ws = DOMAIN m.ws
  BY DEF InPlace
<1>2. \A id \in DOMAIN m.ws : WindowsOf(n.ws[id]) = WindowsOf(m.ws[id])
  BY InPlaceWindows
<1> QED BY <1>1, <1>2 DEF SameCursors, QuietStrips

LEMMA MaintainCursors ==
    ASSUME NEW m, NEW P, Stack(m, P), NEW min, Housed(Homes(min), P), Roomy(m, Homes(min))
    PROVE  SameCursors(Maintain(m, min), m, {})
<1> DEFINE n == Maintain(m, min)
<1>1. Pruned(n, m, Homes(min))
  BY MaintainGood
<1>2. WindowsOf(EmptyWorkspace) = {}
  BY EmptyGood
<1> HIDE DEF n
<1>3. SameCursors(n, m, {})
  BY <1>1, <1>2 DEF Pruned, SameCursors
<1> QED BY <1>3 DEF n

\* Remembering a window of the active workspace is nothing to the others.
LEMMA RememberedElsewhere ==
    ASSUME NEW m, NEW P, Stack(m, P), NEW w, w = NoWindow \/ w \in WindowsOf(m.ws[m.active])
    PROVE  \A id \in DOMAIN m.ws \ {m.active} : RememberFocus(m.ws[id], w) = m.ws[id]
<1>1. ASSUME NEW id \in DOMAIN m.ws \ {m.active} PROVE RememberFocus(m.ws[id], w) = m.ws[id]
  <2>1. m.active \in DOMAIN m.ws /\ GoodStrip(m.ws[id], Windows)
    BY DEF Stack, Typed
  <2>2. w \notin WindowsOf(m.ws[id])
    <3>1. NoWindow \notin WindowsOf(m.ws[id])
      BY <2>1, StripFields, MonitorAssumption
    <3> QED BY <2>1, <3>1, <1>1 DEF Stack
  <2> QED BY <2>1, <2>2, RememberFocusGood
<1> QED BY <1>1

\* A window is activated: only its workspace hears of it.
LEMMA ActivateCursors ==
    ASSUME NEW m, NEW P, Stack(m, P), NEW id \in DOMAIN m.ws, NEW w \in WindowsOf(m.ws[id])
    PROVE  SameCursors(Activate(m, w), m, {id})
<1> DEFINE n == Activate(m, w)
<1>1. w \in Windows /\ \A k \in DOMAIN m.ws : GoodStrip(m.ws[k], Windows)
  <2>1. \A k \in DOMAIN m.ws : GoodStrip(m.ws[k], Windows)
    BY DEF Stack
  <2> QED BY <2>1, StripFields
<1>2. InPlace(n, m) /\ \A k \in DOMAIN m.ws : n.ws[k] = RememberFocus(m.ws[k], w)
  BY <1>1, ActivateGood
<1> HIDE DEF n
<1>3. DOMAIN n.ws = DOMAIN m.ws
  BY <1>2 DEF InPlace
<1>4. ASSUME NEW k \in DOMAIN m.ws, k # id PROVE n.ws[k] = m.ws[k]
  <2>1. w \notin WindowsOf(m.ws[k])
    BY <1>4 DEF Stack
  <2> QED BY <1>1, <1>2, <2>1, RememberFocusGood
<1>5. SameCursors(n, m, {id})
  BY <1>3, <1>4 DEF SameCursors
<1> QED BY <1>5 DEF n

LEMMA ActivateQuiet ==
    ASSUME NEW m, NEW P, Stack(m, P), NEW w, w = NoWindow \/ w \in WindowsOf(m.ws[m.active])
    PROVE  QuietStrips(Activate(m, w), m) /\ QuietStrips(RememberAction(m, w), m)
<1>1. w \in Windows \cup {NoWindow}
  <2>1. GoodStrip(m.ws[m.active], Windows)
    BY DEF Stack, Typed
  <2> QED BY <2>1, StripFields
<1>2. \A id \in DOMAIN m.ws : /\ Activate(m, w).ws[id] = RememberFocus(m.ws[id], w)
                              /\ RememberAction(m, w).ws[id] = RememberFocus(m.ws[id], w)
  BY <1>1, ActivateGood, RememberActionGood
<1> QED BY <1>2, RememberedElsewhere DEF QuietStrips

LEMMA ShowFocusQuiet ==
    ASSUME NEW m, NEW P, Stack(m, P)
    PROVE  QuietStrips(ShowFocus(m), m)
<1>1. m = [f \in DOMAIN m |-> m[f]] /\ "ws" \in DOMAIN m
  BY TypedIsRec DEF Stack, IsRec, MonNames
<1>2. m.ws = [id \in DOMAIN m.ws |-> m.ws[id]]
  BY DEF Stack, Typed
<1>3. \A id \in DOMAIN m.ws \ {m.active} : ShowFocus(m).ws[id] = m.ws[id]
  BY <1>1, <1>2 DEF ShowFocus
<1> QED BY <1>3 DEF QuietStrips

LEMMA LayoutCursors ==
    ASSUME NEW m, NEW P, Stack(m, P), GoodFocus(m)
    PROVE  SameCursors(Layout(m), m, {m.active})
<1> DEFINE a == ShowFocus(m)
           n == Layout(m)
<1>1. InPlace(a, m) /\ SameFocus(a, m) /\ QuietStrips(a, m)
  BY ShowFocusGood, ShowFocusQuiet
<1>2. n = ActivateNew(a)
  BY DEF Layout
<1> HIDE DEF a, n
<1>3. Stack(a, P) /\ GoodFocus(a) /\ a.active = m.active
  BY <1>1, InPlaceStack, InPlaceFocus DEF InPlace
<1>4. SameCursors(a, m, {m.active})
  BY <1>1, QuietIsSame
<1>5. SameCursors(n, a, {m.active})
  <2>1. CASE a.focusWindow \in {NoWindow, a.lastActivated}
    <3>1. n = a
      BY <1>2, <2>1 DEF ActivateNew
    <3> QED BY <3>1, SameStrips
  <2>2. CASE a.focusWindow \notin {NoWindow, a.lastActivated}
    <3>1. n = Activate(a, a.focusWindow)
      BY <1>2, <2>2 DEF ActivateNew
    <3>2. a.focusWindow \in WindowsOf(a.ws[a.active])
      BY <1>3, <2>2 DEF GoodFocus, ActiveStrip
    <3>3. InPlace(n, a) /\ QuietStrips(n, a)
      BY <1>3, <3>1, <3>2, ActivateFocusedGood, ActivateQuiet
    <3> QED BY <1>3, <3>3, QuietIsSame
  <2> QED BY <2>1, <2>2
<1>6. SameCursors(n, m, {m.active})
  BY <1>4, <1>5, SameCursorsTrans
<1> QED BY <1>6 DEF n

LEMMA ActivateFocusedCursors ==
    ASSUME NEW m, NEW P, Stack(m, P), GoodFocus(m)
    PROVE  SameCursors(Activate(m, m.focusWindow), m, {m.active})
<1> DEFINE n == Activate(m, m.focusWindow)
<1>1. m.focusWindow = NoWindow \/ m.focusWindow \in WindowsOf(m.ws[m.active])
  BY DEF GoodFocus, ActiveStrip
<1>2. InPlace(n, m) /\ QuietStrips(n, m)
  BY <1>1, ActivateFocusedGood, ActivateQuiet
<1> HIDE DEF n
<1>3. SameCursors(n, m, {m.active})
  BY <1>2, QuietIsSame
<1> QED BY <1>3 DEF n

LEMMA ActivateFocusCursors ==
    ASSUME NEW m, NEW P, Stack(m, P), GoodFocus(m)
    PROVE  SameCursors(ActivateFocus(m), m, {m.active})
<1>1. CASE m.focusWindow = NoWindow
  BY <1>1, SameStrips DEF ActivateFocus
<1>2. CASE m.focusWindow # NoWindow
  BY <1>2, ActivateFocusedCursors DEF ActivateFocus
<1> QED BY <1>1, <1>2

\* A column of some strip is selected or changes its display: no strip forgets its cursor.
LEMMA NewColumnPolicyCursors ==
    ASSUME NEW m, NEW P, Stack(m, P), NEW w, InPlace(NewColumnPolicy(m, w), m)
    PROVE  SameCursors(NewColumnPolicy(m, w), m, {})
<1> DEFINE n == NewColumnPolicy(m, w)
<1>1. m = [f \in DOMAIN m |-> m[f]] /\ "ws" \in DOMAIN m
  BY TypedIsRec DEF Stack, IsRec, MonNames
<1>2. m.ws = [id \in DOMAIN m.ws |-> m.ws[id]]
  BY DEF Stack, Typed
<1>3. ASSUME NEW id \in DOMAIN m.ws PROVE n.ws[id].active = m.ws[id].active
  <2>1. m.ws[id] \in StripType(Windows)
    BY DEF Stack, GoodStrip
  <2> QED BY <1>1, <1>2, <2>1 DEF NewColumnPolicy, StripType
<1>4. DOMAIN n.ws = DOMAIN m.ws /\ \A id \in DOMAIN m.ws : WindowsOf(n.ws[id]) = WindowsOf(m.ws[id])
  BY InPlaceWindows DEF InPlace
<1> HIDE DEF n
<1>5. SameCursors(n, m, {})
  BY <1>3, <1>4 DEF SameCursors
<1> QED BY <1>5 DEF n

LEMMA SetFocusQuiet ==
    ASSUME NEW m, NEW P, Stack(m, P), NEW w
    PROVE  QuietStrips(SetFocus(m, w), m)
<1>1. m = [f \in DOMAIN m |-> m[f]] /\ {"ws", "focusWindow", "ring", "focusColumn"} \subseteq DOMAIN m
  BY TypedIsRec DEF Stack, IsRec, MonNames
<1>2. m.ws = [id \in DOMAIN m.ws |-> m.ws[id]]
  BY DEF Stack, Typed
<1>3. \A id \in DOMAIN m.ws \ {m.active} : SetFocus(m, w).ws[id] = m.ws[id]
  BY <1>1, <1>2 DEF SetFocus
<1> QED BY <1>3 DEF QuietStrips

LEMMA SetFocusCursors ==
    ASSUME NEW m, NEW P, Stack(m, P), GoodRing(m, P), NEW w \in WindowsOf(ActiveStrip(m))
    PROVE  SameCursors(SetFocus(m, w), m, {m.active})
<1> DEFINE n == SetFocus(m, w)
<1>1. InPlace(n, m) /\ QuietStrips(n, m)
  BY SetFocusGood, SetFocusQuiet
<1> HIDE DEF n
<1>2. SameCursors(n, m, {m.active})
  BY <1>1, QuietIsSame
<1> QED BY <1>2 DEF n
=============================================================================
