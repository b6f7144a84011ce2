--------------------------- MODULE Monitor_proofs ---------------------------
(***************************************************************************)
(* What holds of one output whatever the windows, the bounds and the       *)
(* configuration: the inductive invariant of module Monitor, one lemma for *)
(* each action, and the theorems it gives.                                 *)
(***************************************************************************)
EXTENDS Monitor_lemmas

\* A monitor between two operations, except that its layout may be due.
Steady(m, min, P) ==
    Fit(m, P) /\ Roomy(m, Homes(min)) /\ Settled(m, Homes(min), config.aboveFirst)

\* A monitor between two operations.
AtRest(m, min, P) == Steady(m, min, P) /\ Shown(m)

LEMMA InPlaceSteady ==
    ASSUME NEW m, NEW min, NEW P, Steady(m, min, P), NEW n, InPlace(n, m),
           GoodRing(n, P), GoodFocus(n)
    PROVE  Steady(n, min, P)
<1>1. Stack(m, P)
  BY DEF Steady, Fit
<1>2. Stack(n, P)
  BY <1>1, InPlaceStack
<1>3. Roomy(n, Homes(min))
  BY <1>1, InPlaceContent DEF Steady
<1>4. Settled(n, Homes(min), config.aboveFirst)
  BY <1>1, InPlaceSettled DEF Steady
<1> QED BY <1>2, <1>3, <1>4 DEF Steady, Fit

LEMMA MaintainSteady ==
    ASSUME NEW m, NEW P, Fit(m, P), NEW min, Housed(Homes(min), P), Roomy(m, Homes(min))
    PROVE  LET n == Maintain(m, min)
           IN  /\ Steady(n, min, P) /\ Pruned(n, m, Homes(min)) /\ SameCursors(n, m, {})
<1> DEFINE n == Maintain(m, min)
<1>1. Stack(m, P)
  BY DEF Fit
<1>2. /\ Pruned(n, m, Homes(min)) /\ Roomy(n, Homes(min))
      /\ Settled(n, Homes(min), config.aboveFirst) /\ SameCursors(n, m, {})
  BY <1>1, MaintainGood, MaintainCursors
<1> HIDE DEF n
<1>3. Homes(min) \subseteq DOMAIN m.ws
  BY DEF Roomy
<1>4. Stack(n, P) /\ GoodFocus(n)
  BY <1>1, <1>2, <1>3, PrunedContent DEF Fit
<1>5. GoodRing(n, P)
  BY <1>2 DEF Pruned, Fit, GoodRing
<1> QED BY <1>2, <1>4, <1>5 DEF Steady, Fit, n

\* The layout pass, and what it leaves alone.
LEMMA LayoutSteady ==
    ASSUME NEW m, NEW min, NEW P, Steady(m, min, P)
    PROVE  LET n == Layout(m)
           IN  /\ AtRest(n, min, P) /\ InPlace(n, m) /\ SameFocus(n, m)
               /\ SameCursors(n, m, {m.active})
<1> DEFINE n == Layout(m)
<1>1. Stack(m, P) /\ GoodFocus(m) /\ GoodRing(m, P)
  BY DEF Steady, Fit
<1>2. /\ InPlace(n, m) /\ SameFocus(n, m) /\ n.ring = m.ring /\ Shown(n)
      /\ SameCursors(n, m, {m.active})
  BY <1>1, LayoutGood, LayoutCursors
<1> HIDE DEF n
<1>3. GoodRing(n, P) /\ GoodFocus(n)
  BY <1>1, <1>2, InPlaceFocus DEF GoodRing
<1> QED BY <1>2, <1>3, InPlaceSteady DEF AtRest, n

\* Activating the focused window.
LEMMA ActivateSteady ==
    ASSUME NEW m, NEW min, NEW P, Steady(m, min, P), NEW w, w = m.focusWindow
    PROVE  LET n == Activate(m, w)
           IN  /\ AtRest(n, min, P) /\ InPlace(n, m) /\ SameFocus(n, m)
               /\ SameCursors(n, m, {m.active})
<1> DEFINE n == Activate(m, w)
<1>1. Stack(m, P) /\ GoodFocus(m) /\ GoodRing(m, P)
  BY DEF Steady, Fit
<1>2. /\ InPlace(n, m) /\ SameFocus(n, m) /\ n.ring = m.ring /\ Shown(n)
      /\ SameCursors(n, m, {m.active})
  BY <1>1, ActivateFocusedGood, ActivateFocusedCursors
<1> HIDE DEF n
<1>3. GoodRing(n, P) /\ GoodFocus(n)
  BY <1>1, <1>2, InPlaceFocus DEF GoodRing
<1> QED BY <1>2, <1>3, InPlaceSteady DEF AtRest, n

LEMMA ActivateFocusSteady ==
    ASSUME NEW m, NEW min, NEW P, Steady(m, min, P)
    PROVE  LET n == ActivateFocus(m)
           IN  /\ AtRest(n, min, P) /\ InPlace(n, m) /\ SameFocus(n, m)
               /\ SameCursors(n, m, {m.active})
<1> DEFINE n == ActivateFocus(m)
<1>1. Stack(m, P) /\ GoodFocus(m) /\ GoodRing(m, P)
  BY DEF Steady, Fit
<1>2. /\ InPlace(n, m) /\ SameFocus(n, m) /\ n.ring = m.ring /\ Shown(n)
      /\ SameCursors(n, m, {m.active})
  BY <1>1, ActivateFocusGood, ActivateFocusCursors
<1> HIDE DEF n
<1>3. GoodRing(n, P) /\ GoodFocus(n)
  BY <1>1, <1>2, InPlaceFocus DEF GoodRing
<1> QED BY <1>2, <1>3, InPlaceSteady DEF AtRest, n

----------------------------------------------------------------------------
(* Going to a workspace, and to a window. *)

\* The workspace becomes active, with its windows where they were.
LEMMA SwitchAndMaintainGood ==
    ASSUME NEW m, NEW P, Stack(m, P), GoodRing(m, P), NEW min, Housed(Homes(min), P),
           Roomy(m, Homes(min)), NEW id \in DOMAIN m.ws
    PROVE  LET n == SwitchAndMaintain(m, min, id)
           IN  /\ AtRest(n, min, P) /\ n.active = id
               /\ SamePlaces(n.ws[id], m.ws[id]) /\ SameCursors(n, m, {id})
<1> DEFINE a == Switch(m, id)
           b == Maintain(a, min)
           c == Layout(b)
           n == SwitchAndMaintain(m, min, id)
<1>1. Fit(a, P) /\ a.active = id /\ a.ws = m.ws /\ a.order = m.order
  BY SwitchGood
<1>2. n = ActivateFocus(c)
  BY DEF SwitchAndMaintain
<1> HIDE DEF a, n
<1>3. Roomy(a, Homes(min))
  BY <1>1 DEF Roomy, NamedIn
<1>4. Steady(b, min, P) /\ Pruned(b, a, Homes(min)) /\ SameCursors(b, a, {})
  BY <1>1, <1>3, MaintainSteady
<1> HIDE DEF b
<1>5. id \in DOMAIN b.ws /\ b.ws[id] = m.ws[id] /\ b.active = id
  BY <1>1, <1>4 DEF Pruned
<1>6. AtRest(c, min, P) /\ InPlace(c, b) /\ SameCursors(c, b, {id})
  BY <1>4, <1>5, LayoutSteady
<1> HIDE DEF c
<1>7. AtRest(n, min, P) /\ InPlace(n, c) /\ SameCursors(n, c, {id})
  BY <1>2, <1>5, <1>6, ActivateFocusSteady DEF AtRest, InPlace
<1>8. InPlace(n, b)
  BY <1>6, <1>7, InPlaceTrans
<1>9. n.active = id /\ SamePlaces(n.ws[id], m.ws[id])
  BY <1>5, <1>8 DEF InPlace
<1>10. SameCursors(n, m, {id})
  <2>1. SameCursors(a, m, {})
    BY <1>1, SameStrips
  <2>2. SameCursors(b, m, {id})
    BY <1>4, <2>1, SameCursorsTrans
  <2>3. SameCursors(c, m, {id})
    BY <1>6, <2>2, SameCursorsTrans
  <2> QED BY <1>7, <2>3, SameCursorsTrans
<1> QED BY <1>7, <1>9, <1>10 DEF n

LEMMA SwitchToGood ==
    ASSUME NEW m, NEW min, NEW P, Steady(m, min, P), Housed(Homes(min), P), NEW id \in DOMAIN m.ws
    PROVE  LET n == SwitchAndMaintain(m, min, id)
           IN  /\ AtRest(n, min, P) /\ n.active = id
               /\ SamePlaces(n.ws[id], m.ws[id]) /\ SameCursors(n, m, {id})
BY SwitchAndMaintainGood DEF Steady, Fit

\* The one workspace a window is in.
LEMMA WorkspaceOfGood ==
    ASSUME NEW m, NEW P, Stack(m, P), NEW w \in P
    PROVE  \E id \in DOMAIN m.ws : /\ WorkspaceOf(m, w) = {id} /\ w \in WindowsOf(m.ws[id])
                                   /\ (CHOOSE k \in WorkspaceOf(m, w) : TRUE) = id
<1>1. PICK id \in DOMAIN m.ws : w \in WindowsOf(m.ws[id])
  BY DEF Stack
<1>2. \A k \in DOMAIN m.ws : Holds(m.ws[k], w) <=> w \in WindowsOf(m.ws[k])
  BY Finding DEF Stack
<1>3. \A k \in DOMAIN m.ws : w \in WindowsOf(m.ws[k]) => k = id
  BY <1>1 DEF Stack
<1>4. WorkspaceOf(m, w) = {id}
  BY <1>1, <1>2, <1>3 DEF WorkspaceOf
<1> QED BY <1>1, <1>4

\* The focus is put on a window of the active workspace.
FocusPushed(m, c, w) == [m EXCEPT !.focusColumn = c, !.focusWindow = w, !.ring = RingPush(@, w)]

LEMMA FocusPut ==
    ASSUME NEW m, NEW P, Stack(m, P), GoodRing(m, P), NEW w \in WindowsOf(ActiveStrip(m)),
           NEW c, c = FindColumn(ActiveStrip(m), w)
    PROVE  LET n == FocusPushed(m, c, w)
           IN  InPlace(n, m) /\ GoodFocus(n) /\ GoodRing(n, P) /\ n.focusWindow = w /\ n.ws = m.ws
<1> DEFINE n == FocusPushed(m, c, w)
<1>1. /\ m.active \in DOMAIN m.ws /\ GoodStrip(ActiveStrip(m), Windows)
      /\ \A id \in DOMAIN m.ws : WindowsOf(m.ws[id]) \subseteq P
  BY DEF Stack, Typed, ActiveStrip
<1>2. w \in P /\ w \in Windows
  BY <1>1, StripFields DEF ActiveStrip
<1>3. n = Mon(m, m.ws, c, w, RingPush(m.ring, w))
  <2>1. IsRec(m)
    BY TypedIsRec DEF Stack
  <2>2. /\ n.order = m.order /\ n.ws = m.ws /\ n.active = m.active
        /\ n.previous = m.previous /\ n.focusColumn = c /\ n.focusWindow = w
        /\ n.ring = RingPush(m.ring, w) /\ n.lastActivated = m.lastActivated
    BY <2>1 DEF FocusPushed, IsRec, MonNames
  <2>3. IsRec(n)
    BY <2>1 DEF FocusPushed, IsRec, MonNames
  <2> HIDE DEF n
  <2> QED BY <2>2, <2>3, MonEqual
<1> HIDE DEF n
<1>4. /\ n.order = m.order /\ n.ws = m.ws /\ n.active = m.active /\ n.previous = m.previous
      /\ n.focusColumn = c /\ n.focusWindow = w /\ n.ring = RingPush(m.ring, w)
  BY <1>3, MonFields
<1>5. Typed(n)
  BY <1>3, MonTyped DEF Stack, Typed
<1>6. InPlace(n, m)
  BY <1>4, <1>5, InPlaceRefl DEF InPlace
<1>7. GoodFocus(n)
  BY <1>4 DEF GoodFocus, ActiveStrip
<1>8. GoodRing(n, P)
  <2>1. RingIn(RingPush(m.ring, w), P \cup {w})
    BY <1>2, RingPushGood DEF GoodRing
  <2>2. P \cup {w} = P
    BY <1>2
  <2> QED BY <1>4, <2>1, <2>2 DEF GoodRing
<1> QED BY <1>4, <1>6, <1>7, <1>8 DEF n

LEMMA FocusTileGood ==
    ASSUME NEW m, NEW min, NEW P, Steady(m, min, P), Housed(Homes(min), P), NEW w \in P
    PROVE  LET n == FocusTile(m, min, w)
           IN  AtRest(n, min, P) /\ SameCursors(n, m, {n.active})
<1> DEFINE id == CHOOSE k \in WorkspaceOf(m, w) : TRUE
           at == IF id = m.active THEN m ELSE SwitchAndMaintain(m, min, id)
           c == FindColumn(m.ws[id], w)
           f == FocusPushed(at, c, w)
           g == RememberAction(f, w)
           h == Layout(g)
           n == FocusTile(m, min, w)
<1>1. Stack(m, P) /\ GoodRing(m, P) /\ m.active \in DOMAIN m.ws
  BY DEF Steady, Fit, Stack, Typed
<1>2. id \in DOMAIN m.ws /\ w \in WindowsOf(m.ws[id])
  <2>1. \E k \in DOMAIN m.ws : /\ w \in WindowsOf(m.ws[k])
                               /\ (CHOOSE j \in WorkspaceOf(m, w) : TRUE) = k
    BY <1>1, WorkspaceOfGood
  <2> QED BY <2>1
<1>3. n = Activate(h, w)
  BY DEF FocusTile, FocusPushed
<1> HIDE DEF id, n
<1>4. /\ Steady(at, min, P) /\ at.active = id /\ SamePlaces(at.ws[id], m.ws[id])
      /\ SameCursors(at, m, {id})
  <2>1. CASE id = m.active
    BY <2>1, SameStrips DEF SamePlaces
  <2>2. CASE id # m.active
    <3> DEFINE s == SwitchAndMaintain(m, min, id)
    <3>1. at = s
      BY <2>2
    <3>2. /\ AtRest(s, min, P) /\ s.active = id /\ SamePlaces(s.ws[id], m.ws[id])
          /\ SameCursors(s, m, {id})
      BY <1>2, SwitchToGood
    <3> HIDE DEF s, at
    <3> QED BY <3>1, <3>2 DEF AtRest
  <2> QED BY <2>1, <2>2
<1> HIDE DEF at
<1>5. Stack(at, P) /\ GoodRing(at, P) /\ id \in DOMAIN at.ws
  BY <1>4 DEF Steady, Fit, Stack, Typed
<1>6. w \in WindowsOf(ActiveStrip(at)) /\ c = FindColumn(ActiveStrip(at), w)
  <2>1. GoodStrip(at.ws[id], Windows) /\ GoodStrip(m.ws[id], Windows)
    BY <1>1, <1>2, <1>5 DEF Stack
  <2>2. WindowsOf(at.ws[id]) = WindowsOf(m.ws[id])
        /\ FindColumn(at.ws[id], w) = FindColumn(m.ws[id], w)
    BY <1>4, <2>1, SamePlacesFind
  <2> QED BY <1>2, <1>4, <2>2 DEF ActiveStrip
<1> HIDE DEF c
<1>7. InPlace(f, at) /\ GoodFocus(f) /\ GoodRing(f, P) /\ f.focusWindow = w /\ f.ws = at.ws
  BY <1>5, <1>6, FocusPut
<1> HIDE DEF f
<1>8. Steady(f, min, P)
  BY <1>4, <1>7, InPlaceSteady
<1>9. InPlace(g, f) /\ SameFocus(g, f) /\ g.ring = f.ring /\ SameCursors(g, f, {f.active})
  <2>1. Stack(f, P) /\ w \in WindowsOf(f.ws[f.active])
    BY <1>6, <1>7, <1>8 DEF Steady, Fit, InPlace, ActiveStrip
  <2>2. InPlace(g, f) /\ SameFocus(g, f) /\ g.ring = f.ring /\ QuietStrips(g, f)
    BY <1>8, <2>1, RememberActionGood, ActivateQuiet DEF Steady, Fit
  <2> HIDE DEF g
  <2> QED BY <2>1, <2>2, QuietIsSame
<1> HIDE DEF g
<1>10. Steady(g, min, P) /\ g.focusWindow = w
  <2>1. GoodFocus(g)
    BY <1>8, <1>9, InPlaceFocus DEF Steady, Fit
  <2>2. GoodRing(g, P)
    BY <1>7, <1>9 DEF GoodRing
  <2> QED BY <1>7, <1>8, <1>9, <2>1, <2>2, InPlaceSteady DEF SameFocus
<1>11. AtRest(h, min, P) /\ SameFocus(h, g) /\ InPlace(h, g) /\ SameCursors(h, g, {g.active})
  BY <1>10, LayoutSteady
<1> HIDE DEF h
<1>12. Steady(h, min, P) /\ h.focusWindow = w
  BY <1>10, <1>11 DEF AtRest, SameFocus
<1>13. AtRest(n, min, P) /\ InPlace(n, h) /\ SameCursors(n, h, {h.active})
  BY <1>3, <1>12, ActivateSteady
<1>14. f.active = id /\ g.active = id /\ h.active = id /\ n.active = id
  BY <1>4, <1>7, <1>9, <1>11, <1>13 DEF InPlace
<1>15. SameCursors(n, m, {id})
  <2>1. SameCursors(f, m, {id})
    BY <1>4, <1>7 DEF SameCursors
  <2>2. SameCursors(g, m, {id})
    BY <1>9, <1>14, <2>1, SameCursorsTrans
  <2>3. SameCursors(h, m, {id})
    BY <1>11, <1>14, <2>2, SameCursorsTrans
  <2> QED BY <1>13, <1>14, <2>3, SameCursorsTrans
<1> QED BY <1>13, <1>14, <1>15 DEF n

----------------------------------------------------------------------------
(* Where the focus goes when a window leaves. *)

\* Only the focus differs.
LEMMA FocusSet ==
    ASSUME NEW m, NEW P, Stack(m, P), NEW x, x = NoWindow \/ x \in WindowsOf(ActiveStrip(m)),
           NEW c, c = FindColumn(ActiveStrip(m), x), NEW ring, RingIn(ring, P),
           NEW n, n = Mon(m, m.ws, c, x, ring)
    PROVE  /\ InPlace(n, m) /\ Fit(n, P) /\ n.focusWindow = x /\ n.ws = m.ws
<1>1. /\ n.order = m.order /\ n.ws = m.ws /\ n.active = m.active /\ n.previous = m.previous
      /\ n.focusColumn = c /\ n.focusWindow = x /\ n.ring = ring
  BY MonFields
<1>2. Typed(n)
  BY MonTyped DEF Stack, Typed
<1>3. InPlace(n, m)
  BY <1>1, <1>2, InPlaceRefl DEF InPlace
<1>4. GoodFocus(n)
  BY <1>1 DEF GoodFocus, ActiveStrip
<1> QED BY <1>1, <1>3, <1>4, InPlaceStack DEF Fit, GoodRing

ColumnSet(m, c) == [m EXCEPT !.focusColumn = c]
FocusMoved(m, c, w) == [m EXCEPT !.focusColumn = c, !.focusWindow = w]

LEMMA FocusValues ==
    ASSUME NEW m, NEW P, Stack(m, P), NEW c, NEW w
    PROVE  /\ ColumnSet(m, c) = Mon(m, m.ws, c, m.focusWindow, m.ring)
           /\ FocusMoved(m, c, w) = Mon(m, m.ws, c, w, m.ring)
           /\ FocusPushed(m, c, w) = Mon(m, m.ws, c, w, RingPush(m.ring, w))
<1>1. IsRec(m)
  BY TypedIsRec DEF Stack
<1>2. ColumnSet(m, c) = Mon(m, m.ws, c, m.focusWindow, m.ring)
  <2> DEFINE n == ColumnSet(m, c)
  <2>1. /\ n.order = m.order /\ n.ws = m.ws /\ n.active = m.active
        /\ n.previous = m.previous /\ n.focusColumn = c /\ n.focusWindow = m.focusWindow
        /\ n.ring = m.ring /\ n.lastActivated = m.lastActivated
    BY <1>1 DEF ColumnSet, IsRec, MonNames
  <2>2. IsRec(n)
    BY <1>1 DEF ColumnSet, IsRec, MonNames
  <2> HIDE DEF n
  <2>3. n = Mon(m, m.ws, c, m.focusWindow, m.ring)
    BY <2>1, <2>2, MonEqual
  <2> QED BY <2>3 DEF n
<1>3. FocusMoved(m, c, w) = Mon(m, m.ws, c, w, m.ring)
  <2> DEFINE n == FocusMoved(m, c, w)
  <2>1. /\ n.order = m.order /\ n.ws = m.ws /\ n.active = m.active
        /\ n.previous = m.previous /\ n.focusColumn = c /\ n.focusWindow = w
        /\ n.ring = m.ring /\ n.lastActivated = m.lastActivated
    BY <1>1 DEF FocusMoved, IsRec, MonNames
  <2>2. IsRec(n)
    BY <1>1 DEF FocusMoved, IsRec, MonNames
  <2> HIDE DEF n
  <2>3. n = Mon(m, m.ws, c, w, m.ring)
    BY <2>1, <2>2, MonEqual
  <2> QED BY <2>3 DEF n
<1>4. FocusPushed(m, c, w) = Mon(m, m.ws, c, w, RingPush(m.ring, w))
  <2> DEFINE n == FocusPushed(m, c, w)
  <2>1. /\ n.order = m.order /\ n.ws = m.ws /\ n.active = m.active
        /\ n.previous = m.previous /\ n.focusColumn = c /\ n.focusWindow = w
        /\ n.ring = RingPush(m.ring, w) /\ n.lastActivated = m.lastActivated
    BY <1>1 DEF FocusPushed, IsRec, MonNames
  <2>2. IsRec(n)
    BY <1>1 DEF FocusPushed, IsRec, MonNames
  <2> HIDE DEF n
  <2>3. n = Mon(m, m.ws, c, w, RingPush(m.ring, w))
    BY <2>1, <2>2, MonEqual
  <2> QED BY <2>3 DEF n
<1> QED BY <1>2, <1>3, <1>4

\* The column of no window, and of the first tile of a column.
LEMMA ActiveColumns ==
    ASSUME NEW m, NEW P, Stack(m, P)
    PROVE  LET s == ActiveStrip(m)
           IN  /\ GoodStrip(s, Windows) /\ WindowsOf(s) \subseteq P
               /\ FindColumn(s, NoWindow) = 0 /\ Len(s.columns) \in Nat
               /\ s.columns = <<>> <=> Len(s.columns) = 0
               /\ \A c \in 1 .. Len(s.columns) : /\ s.columns[c].tiles[1] \in WindowsOf(s)
                                                 /\ FindColumn(s, s.columns[c].tiles[1]) = c
<1> DEFINE s == ActiveStrip(m)
<1>1. GoodStrip(s, Windows) /\ WindowsOf(s) \subseteq P
  BY DEF Stack, Typed, ActiveStrip
<1> HIDE DEF s
<1>2. WindowsOf(s) \subseteq Windows /\ Len(s.columns) \in Nat /\ (s.columns = <<>> <=> Len(s.columns) = 0)
  BY <1>1, StripFields
<1>3. FindColumn(s, NoWindow) = 0
  BY <1>1, <1>2, Finding, MonitorAssumption
<1>4. ASSUME NEW c \in 1 .. Len(s.columns)
      PROVE  s.columns[c].tiles[1] \in WindowsOf(s) /\ FindColumn(s, s.columns[c].tiles[1]) = c
  <2>1. GoodColumn(s.columns[c], Windows)
    BY <1>1, StripFields
  <2> DEFINE t == s.columns[c].tiles
  <2>2. t \in Seq(Windows) /\ Len(t) \in Nat \ {0}
    BY <2>1, ColumnFields
  <2>3. 1 \in 1 .. Len(t)
    BY <2>2
  <2>4. t[1] \in ToSet(t)
    BY <2>2, <2>3, ToSetOf
  <2> QED BY <1>1, <2>4, Finding DEF Tiles
<1> QED BY <1>1, <1>2, <1>3, <1>4 DEF s

LEMMA FocusAfterLossGood ==
    ASSUME NEW m, NEW P, Stack(m, P), GoodRing(m, P), NEW lost \in Nat \ {0}
    PROVE  LET n == FocusAfterLoss(m, lost)
           IN  InPlace(n, m) /\ Fit(n, P) /\ n.ws = m.ws
<1> DEFINE s == ActiveStrip(m)
           adj == MinOf(lost, Len(s.columns))
           first == s.columns[adj].tiles[1]
           next == IF m.ring # <<>> THEN m.ring[1] ELSE first
           n == FocusAfterLoss(m, lost)
           c == IF m.ring # <<>> THEN FindColumn(s, next) ELSE adj
<1>1. /\ GoodStrip(s, Windows) /\ WindowsOf(s) \subseteq P
      /\ FindColumn(s, NoWindow) = 0 /\ Len(s.columns) \in Nat
      /\ s.columns = <<>> <=> Len(s.columns) = 0
      /\ \A i \in 1 .. Len(s.columns) : /\ s.columns[i].tiles[1] \in WindowsOf(s)
                                        /\ FindColumn(s, s.columns[i].tiles[1]) = i
  BY ActiveColumns
<1>2. n = IF s.columns = <<>> \/ ~Holds(s, next) THEN FocusMoved(m, 0, NoWindow)
          ELSE FocusPushed(m, c, next)
  BY DEF FocusAfterLoss, FocusMoved, FocusPushed
<1> HIDE DEF s, n
<1>3. CASE s.columns = <<>> \/ ~Holds(s, next)
  <2>1. n = Mon(m, m.ws, 0, NoWindow, m.ring)
    BY <1>2, <1>3, FocusValues
  <2>2. RingIn(m.ring, P)
    BY DEF GoodRing
  <2>3. 0 = FindColumn(ActiveStrip(m), NoWindow)
    BY <1>1 DEF s
  <2> QED BY <2>1, <2>2, <2>3, FocusSet DEF n
<1>4. CASE ~(s.columns = <<>> \/ ~Holds(s, next))
  <2>1. adj \in 1 .. Len(s.columns)
    BY <1>1, <1>4 DEF MinOf
  <2> HIDE DEF adj
  <2>2. next \in WindowsOf(s) /\ next \in Windows
    BY <1>1, <1>4, Finding
  <2>3. c = FindColumn(s, next)
    BY <1>1, <2>1
  <2> HIDE DEF next, c
  <2>4. n = Mon(m, m.ws, c, next, RingPush(m.ring, next))
    BY <1>2, <1>4, FocusValues
  <2>5. RingIn(RingPush(m.ring, next), P)
    <3>1. RingIn(RingPush(m.ring, next), P \cup {next})
      BY <2>2, RingPushGood DEF GoodRing
    <3>2. P \cup {next} = P
      BY <1>1, <2>2
    <3> QED BY <3>1, <3>2
  <2> QED BY <2>2, <2>3, <2>4, <2>5, FocusSet DEF n, s
<1> QED BY <1>3, <1>4

LEMMA ReanchorFocusGood ==
    ASSUME NEW m, NEW P, Stack(m, P), GoodRing(m, P), m.focusColumn \in Nat,
           m.focusWindow = NoWindow \/ m.focusWindow \in WindowsOf(ActiveStrip(m))
    PROVE  LET n == ReanchorFocus(m)
           IN  InPlace(n, m) /\ Fit(n, P) /\ n.ws = m.ws
<1> DEFINE s == ActiveStrip(m)
           clamped == MinOf(IF m.focusColumn = 0 THEN 1 ELSE m.focusColumn, Len(s.columns))
           first == s.columns[clamped].tiles[1]
           n == ReanchorFocus(m)
<1>1. /\ GoodStrip(s, Windows) /\ WindowsOf(s) \subseteq P
      /\ FindColumn(s, NoWindow) = 0 /\ Len(s.columns) \in Nat
      /\ s.columns = <<>> <=> Len(s.columns) = 0
      /\ \A i \in 1 .. Len(s.columns) : /\ s.columns[i].tiles[1] \in WindowsOf(s)
                                        /\ FindColumn(s, s.columns[i].tiles[1]) = i
  BY ActiveColumns
<1>2. n = IF s.columns = <<>> THEN ColumnSet(m, 0)
          ELSE IF m.focusWindow = NoWindow THEN FocusMoved(m, clamped, first)
          ELSE IF Holds(s, m.focusWindow) THEN ColumnSet(m, FindColumn(s, m.focusWindow))
          ELSE ColumnSet(m, clamped)
  BY DEF ReanchorFocus, FocusMoved, ColumnSet
<1>3. RingIn(m.ring, P) /\ (m.focusWindow = NoWindow \/ m.focusWindow \in WindowsOf(s))
  BY DEF GoodRing
<1>4. s.columns = <<>> => WindowsOf(s) = {}
  BY <1>1, StripFields
<1> HIDE DEF n
<1>5. CASE s.columns = <<>>
  <2>1. n = ColumnSet(m, 0)
    BY <1>2, <1>5
  <2>2. n = Mon(m, m.ws, 0, m.focusWindow, m.ring)
    BY <2>1, FocusValues
  <2>3. m.focusWindow = NoWindow
    BY <1>3, <1>4, <1>5
  <2>4. 0 = FindColumn(ActiveStrip(m), m.focusWindow)
    BY <1>1, <2>3
  <2> QED BY <1>3, <2>2, <2>4, FocusSet DEF n
<1>6. CASE s.columns # <<>> /\ m.focusWindow = NoWindow
  <2>1. n = FocusMoved(m, clamped, first)
    BY <1>2, <1>6
  <2>2. clamped \in 1 .. Len(s.columns)
    BY <1>1, <1>6 DEF MinOf
  <2> HIDE DEF clamped
  <2>3. first \in WindowsOf(s) /\ clamped = FindColumn(s, first)
    BY <1>1, <2>2
  <2> HIDE DEF first
  <2>4. n = Mon(m, m.ws, clamped, first, m.ring)
    BY <2>1, FocusValues
  <2> QED BY <1>3, <2>3, <2>4, FocusSet DEF n
<1>7. CASE s.columns # <<>> /\ m.focusWindow # NoWindow
  <2>1. Holds(s, m.focusWindow)
    BY <1>1, <1>3, <1>7, Finding
  <2>2. n = ColumnSet(m, FindColumn(s, m.focusWindow))
    BY <1>2, <1>7, <2>1
  <2>3. n = Mon(m, m.ws, FindColumn(s, m.focusWindow), m.focusWindow, m.ring)
    BY <2>2, FocusValues
  <2> QED BY <1>3, <2>3, FocusSet DEF n
<1> QED BY <1>5, <1>6, <1>7

\* What the stack keeps whatever happens to its windows.
SameStack(n, m) ==
    /\ n.order = m.order /\ DOMAIN n.ws = DOMAIN m.ws /\ n.active = m.active
    /\ \A id \in DOMAIN m.ws : n.ws[id].named = m.ws[id].named

LEMMA SameStackRoomy ==
    ASSUME NEW m, NEW n, SameStack(n, m), NEW occupied, Roomy(m, occupied)
    PROVE  Roomy(n, occupied)
<1>1. NamedIn(n) = NamedIn(m)
  BY DEF SameStack, NamedIn
<1> QED BY <1>1 DEF SameStack, Roomy

LEMMA InPlaceSameStack ==
    ASSUME NEW a, NEW b, InPlace(a, b)
    PROVE  SameStack(a, b)
BY DEF InPlace, SameStack

LEMMA SameStackTrans ==
    ASSUME NEW a, NEW b, NEW c, SameStack(a, b), SameStack(b, c)
    PROVE  SameStack(a, c)
BY DEF SameStack

WithoutWindow(m, w) ==
    [m EXCEPT !.ring = Without(@, w), !.ws = [id \in DOMAIN @ |-> RemoveFromStrip(@[id], w)]]

LEMMA RemovedCursor ==
    ASSUME NEW ws, GoodStrip(ws, Windows), NEW w
    PROVE  RemoveFromStrip(ws, w).active = ws.active
BY DEF RemoveFromStrip, GoodStrip, StripType

LEMMA RemoveFromMonitorGood ==
    ASSUME NEW m, NEW P, Fit(m, P), NEW w \in P
    PROVE  LET n == RemoveFromMonitor(m, w)
           IN  Fit(n, P \ {w}) /\ SameStack(n, m) /\ KeptCursors(n, m, {})
<1> DEFINE s == ActiveStrip(m)
           ws == [id \in DOMAIN m.ws |-> RemoveFromStrip(m.ws[id], w)]
           left == WithoutWindow(m, w)
           c == FindColumn(s, w)
           n == RemoveFromMonitor(m, w)
           Q == P \ {w}
<1>1. /\ Stack(m, P) /\ GoodRing(m, P) /\ GoodFocus(m) /\ m.active \in DOMAIN m.ws
      /\ Typed(m) /\ s = m.ws[m.active] /\ GoodStrip(s, Windows)
      /\ \A id \in DOMAIN m.ws : GoodStrip(m.ws[id], Windows)
  BY DEF Fit, Stack, Typed, ActiveStrip
<1>2. n = IF c = 0 THEN left
          ELSE IF m.focusWindow = w THEN FocusAfterLoss(left, c)
          ELSE ReanchorFocus(left)
  BY DEF RemoveFromMonitor, WithoutWindow
<1>3. left = Mon(m, ws, m.focusColumn, m.focusWindow, Without(m.ring, w))
  <2>1. IsRec(m)
    BY <1>1, TypedIsRec
  <2>2. /\ left.order = m.order /\ left.ws = ws /\ left.active = m.active
        /\ left.previous = m.previous /\ left.focusColumn = m.focusColumn
        /\ left.focusWindow = m.focusWindow
        /\ left.ring = Without(m.ring, w) /\ left.lastActivated = m.lastActivated
    BY <2>1 DEF WithoutWindow, IsRec, MonNames
  <2>3. IsRec(left)
    BY <2>1 DEF WithoutWindow, IsRec, MonNames
  <2> HIDE DEF left, ws
  <2> QED BY <2>2, <2>3, MonEqual
<1>4. /\ DOMAIN ws = DOMAIN m.ws /\ ws = [k \in DOMAIN ws |-> ws[k]]
      /\ \A id \in DOMAIN m.ws : ws[id] = RemoveFromStrip(m.ws[id], w)
  OBVIOUS
<1> HIDE DEF left, n, ws
<1>5. /\ left.order = m.order /\ left.ws = ws /\ left.active = m.active
      /\ left.focusColumn = m.focusColumn /\ left.focusWindow = m.focusWindow
      /\ left.ring = Without(m.ring, w)
  BY <1>3, MonFields
<1>6. Typed(left)
  BY <1>1, <1>3, <1>4, MonTyped
<1>7. \A id \in DOMAIN m.ws : /\ GoodStrip(left.ws[id], Windows)
                              /\ WindowsOf(left.ws[id]) = WindowsOf(m.ws[id]) \ {w}
                              /\ left.ws[id].named = m.ws[id].named
                              /\ w \notin WindowsOf(m.ws[id]) => left.ws[id] = m.ws[id]
  BY <1>1, <1>4, <1>5, RemoveFromStripGood
<1>8. SameStack(left, m) /\ KeptCursors(left, m, {})
  <2>1. SameStack(left, m)
    BY <1>4, <1>5, <1>7 DEF SameStack
  <2>2. \A id \in DOMAIN m.ws : left.ws[id].active = m.ws[id].active
    BY <1>1, <1>4, <1>5, RemovedCursor
  <2> QED BY <2>1, <2>2 DEF KeptCursors, SameStack
<1>9. Stack(left, Q)
  <2>1. {} \cap (P \ {w}) = {}
    OBVIOUS
  <2>2. WindowsOf(left.ws[m.active]) = (WindowsOf(m.ws[m.active]) \ {w}) \cup {}
    BY <1>1, <1>7
  <2>3. \A i \in DOMAIN m.ws : i # m.active => WindowsOf(left.ws[i]) = WindowsOf(m.ws[i]) \ {w}
    BY <1>7
  <2>4. \A i \in DOMAIN m.ws : GoodStrip(left.ws[i], Windows)
    BY <1>7
  <2>5. DOMAIN left.ws = DOMAIN m.ws /\ left.order = m.order /\ Stack(m, P) /\ m.active \in DOMAIN m.ws
    BY <1>1, <1>4, <1>5
  <2>6. Stack(left, (P \ {w}) \cup {})
    BY <1>6, <2>1, <2>2, <2>3, <2>4, <2>5, StackChanged
  <2>7. (P \ {w}) \cup {} = Q
    OBVIOUS
  <2> QED BY <2>6, <2>7
<1>10. GoodRing(left, Q)
  <2>1. RingIn(Dropped(m.ring, {w}), P \ {w})
    BY <1>1, RingDroppedGood DEF GoodRing
  <2> QED BY <1>5, <2>1 DEF GoodRing, Without
<1> HIDE DEF Q
<1>11. ActiveStrip(left) = left.ws[m.active] /\ WindowsOf(ActiveStrip(left)) = WindowsOf(s) \ {w}
       /\ (w \notin WindowsOf(s) => ActiveStrip(left) = s)
  <2>1. ActiveStrip(left) = left.ws[m.active]
    BY <1>5 DEF ActiveStrip
  <2>2. m.active \in DOMAIN m.ws /\ s = m.ws[m.active]
    BY <1>1
  <2> HIDE DEF s
  <2>3. /\ WindowsOf(left.ws[m.active]) = WindowsOf(m.ws[m.active]) \ {w}
        /\ w \notin WindowsOf(m.ws[m.active]) => left.ws[m.active] = m.ws[m.active]
    BY <1>7, <2>2
  <2> QED BY <2>1, <2>2, <2>3
<1>12. /\ m.focusColumn \in Nat /\ c \in Nat /\ (c = 0 <=> w \notin WindowsOf(s))
       /\ m.focusWindow = NoWindow \/ m.focusWindow \in WindowsOf(s)
       /\ m.focusColumn = FindColumn(s, m.focusWindow)
  <2>1. m.focusColumn \in 0 .. Len(s.columns)
    BY <1>1, FocusFields
  <2>2. c \in 0 .. Len(s.columns) /\ (c = 0 <=> w \notin WindowsOf(s))
    BY <1>1, Finding
  <2>3. m.focusWindow = NoWindow \/ m.focusWindow \in WindowsOf(s)
    BY <1>1 DEF GoodFocus
  <2>4. m.focusColumn = FindColumn(s, m.focusWindow)
    BY <1>1 DEF GoodFocus
  <2> QED BY <2>1, <2>2, <2>3, <2>4
<1> HIDE DEF s, c
<1>13. CASE c = 0
  <2>1. n = left /\ ActiveStrip(left) = s
    BY <1>2, <1>11, <1>12, <1>13
  <2>2. GoodFocus(left)
    BY <1>5, <1>12, <2>1 DEF GoodFocus
  <2> QED BY <1>8, <1>9, <1>10, <2>1, <2>2 DEF Fit, Q, n
<1>14. CASE c # 0 /\ m.focusWindow = w
  <2>1. n = FocusAfterLoss(left, c) /\ c \in Nat \ {0}
    BY <1>2, <1>12, <1>14
  <2>2. InPlace(n, left) /\ Fit(n, Q) /\ n.ws = left.ws
    BY <1>9, <1>10, <2>1, FocusAfterLossGood
  <2>3. KeptCursors(n, m, {})
    BY <1>8, <2>2 DEF KeptCursors
  <2> QED BY <1>8, <2>2, <2>3, InPlaceSameStack, SameStackTrans DEF Q, n
<1>15. CASE c # 0 /\ m.focusWindow # w
  <2>1. n = ReanchorFocus(left)
    BY <1>2, <1>15
  <2>2. left.focusColumn \in Nat
        /\ (left.focusWindow = NoWindow \/ left.focusWindow \in WindowsOf(ActiveStrip(left)))
    BY <1>5, <1>11, <1>12, <1>15
  <2>3. InPlace(n, left) /\ Fit(n, Q) /\ n.ws = left.ws
    BY <1>9, <1>10, <2>1, <2>2, ReanchorFocusGood
  <2>4. KeptCursors(n, m, {})
    BY <1>8, <2>3 DEF KeptCursors
  <2> QED BY <1>8, <2>3, <2>4, InPlaceSameStack, SameStackTrans DEF Q, n
<1> QED BY <1>13, <1>14, <1>15

----------------------------------------------------------------------------
(* Strips that are written back. *)

\* The workspaces have the windows they had, in other columns perhaps.
LEMMA SteadySame ==
    ASSUME NEW m, NEW min, NEW P, Steady(m, min, P), NEW n, Fit(n, P), SameStack(n, m),
           \A id \in DOMAIN m.ws : WindowsOf(n.ws[id]) = WindowsOf(m.ws[id])
    PROVE  Steady(n, min, P)
<1>1. Stack(m, P) /\ Roomy(m, Homes(min)) /\ Settled(m, Homes(min), config.aboveFirst)
  BY DEF Steady, Fit
<1>2. Roomy(n, Homes(min))
  BY <1>1, SameStackRoomy
<1>3. n.order = m.order /\ Last(m.order) \in DOMAIN m.ws /\ m.order[1] \in DOMAIN m.ws
  BY <1>1, Ends DEF SameStack
<1>4. \A id \in DOMAIN m.ws : HasContent(n, Homes(min), id) = HasContent(m, Homes(min), id)
  BY DEF SameStack, HasContent
<1>5. Settled(n, Homes(min), config.aboveFirst)
  BY <1>1, <1>3, <1>4 DEF Settled
<1> QED BY <1>2, <1>5 DEF Steady

LEMMA MaintainLayoutGood ==
    ASSUME NEW m, NEW P, Fit(m, P), NEW min, Housed(Homes(min), P), Roomy(m, Homes(min))
    PROVE  LET n == Layout(Maintain(m, min))
           IN  AtRest(n, min, P) /\ SameCursors(n, m, {m.active}) /\ n.active = m.active
<1> DEFINE b == Maintain(m, min)
           n == Layout(b)
<1>1. Steady(b, min, P) /\ Pruned(b, m, Homes(min)) /\ SameCursors(b, m, {})
  BY MaintainSteady
<1> HIDE DEF b
<1>2. AtRest(n, min, P) /\ InPlace(n, b) /\ SameCursors(n, b, {b.active})
  BY <1>1, LayoutSteady
<1> HIDE DEF n
<1>3. b.active = m.active /\ n.active = m.active
  BY <1>1, <1>2 DEF Pruned, InPlace
<1>4. SameCursors(n, m, {m.active})
  BY <1>1, <1>2, <1>3, SameCursorsTrans
<1> QED BY <1>2, <1>3, <1>4 DEF n, b

WithStrip(m, id, s) == [m EXCEPT !.ws[id] = s]

LEMMA WithStripIs ==
    ASSUME NEW m, Typed(m), NEW id \in DOMAIN m.ws, NEW s
    PROVE  /\ WithStrip(m, id, s) = Mon(m, At(m.ws, id, s), m.focusColumn, m.focusWindow, m.ring)
           /\ WithStrip(m, id, s).order = m.order /\ WithStrip(m, id, s).ws = At(m.ws, id, s)
           /\ DOMAIN WithStrip(m, id, s).ws = DOMAIN m.ws
           /\ WithStrip(m, id, s).ws[id] = s
           /\ \A k \in DOMAIN m.ws : k # id => WithStrip(m, id, s).ws[k] = m.ws[k]
           /\ WithStrip(m, id, s).active = m.active /\ WithStrip(m, id, s).ring = m.ring
           /\ WithStrip(m, id, s).focusColumn = m.focusColumn
           /\ WithStrip(m, id, s).focusWindow = m.focusWindow
<1> DEFINE n == WithStrip(m, id, s)
<1>1. IsRec(m)
  BY TypedIsRec
<1>2. /\ n.order = m.order /\ n.ws = At(m.ws, id, s) /\ n.active = m.active
      /\ n.previous = m.previous /\ n.focusColumn = m.focusColumn
      /\ n.focusWindow = m.focusWindow
      /\ n.ring = m.ring /\ n.lastActivated = m.lastActivated
  BY <1>1 DEF WithStrip, At, IsRec, MonNames
<1>3. IsRec(n)
  BY <1>1 DEF WithStrip, IsRec, MonNames
<1> HIDE DEF n
<1>4. n = Mon(m, At(m.ws, id, s), m.focusColumn, m.focusWindow, m.ring)
  BY <1>2, <1>3, MonEqual
<1>5. /\ DOMAIN At(m.ws, id, s) = DOMAIN m.ws /\ At(m.ws, id, s)[id] = s
      /\ \A k \in DOMAIN m.ws : k # id => At(m.ws, id, s)[k] = m.ws[k]
  BY DEF At, Typed
<1> QED BY <1>2, <1>4, <1>5 DEF n

\* A strip that is written back is nothing to the others.
LEMMA WithStripCursors ==
    ASSUME NEW m, Typed(m), NEW id \in DOMAIN m.ws, NEW s
    PROVE  /\ SameCursors(WithStrip(m, id, s), m, {id})
           /\ WithStrip(m, id, s).active = m.active
<1>1. /\ DOMAIN WithStrip(m, id, s).ws = DOMAIN m.ws /\ WithStrip(m, id, s).active = m.active
      /\ \A k \in DOMAIN m.ws : k # id => WithStrip(m, id, s).ws[k] = m.ws[k]
  BY WithStripIs
<1> QED BY <1>1 DEF SameCursors

LEMMA WithStripChanged ==
    ASSUME NEW m, NEW P, Stack(m, P), NEW id \in DOMAIN m.ws,
           NEW s, GoodStrip(s, Windows), s.named = m.ws[id].named,
           NEW out, NEW in, out \subseteq WindowsOf(m.ws[id]), in \cap (P \ out) = {},
           WindowsOf(s) = (WindowsOf(m.ws[id]) \ out) \cup in
    PROVE  Stack(WithStrip(m, id, s), (P \ out) \cup in) /\ SameStack(WithStrip(m, id, s), m)
<1> DEFINE n == WithStrip(m, id, s)
<1>1. /\ n = Mon(m, At(m.ws, id, s), m.focusColumn, m.focusWindow, m.ring)
      /\ n.order = m.order /\ DOMAIN n.ws = DOMAIN m.ws /\ n.active = m.active
      /\ n.ws[id] = s /\ \A k \in DOMAIN m.ws : k # id => n.ws[k] = m.ws[k]
  BY WithStripIs DEF Stack
<1> HIDE DEF n
<1>2. SameStack(n, m)
  BY <1>1 DEF SameStack
<1>3. Stack(n, (P \ out) \cup in)
  BY <1>1, MonChanged
<1> QED BY <1>2, <1>3 DEF n

\* The windows of a workspace are arranged in other columns.
LEMMA WithStripRearranged ==
    ASSUME NEW m, NEW P, Stack(m, P), NEW id \in DOMAIN m.ws,
           NEW s, Rearranged(s, m.ws[id], Windows)
    PROVE  /\ Stack(WithStrip(m, id, s), P) /\ SameStack(WithStrip(m, id, s), m)
           /\ \A k \in DOMAIN m.ws : WindowsOf(WithStrip(m, id, s).ws[k]) = WindowsOf(m.ws[k])
<1> DEFINE n == WithStrip(m, id, s)
<1>1. GoodStrip(s, Windows) /\ s.named = m.ws[id].named /\ WindowsOf(s) = WindowsOf(m.ws[id])
  BY DEF Rearranged
<1>2. /\ {} \subseteq WindowsOf(m.ws[id]) /\ {} \cap (P \ {}) = {}
      /\ WindowsOf(s) = (WindowsOf(m.ws[id]) \ {}) \cup {}
  BY <1>1
<1>3. Stack(n, (P \ {}) \cup {}) /\ SameStack(n, m)
  <2> HIDE DEF n
  <2> QED BY <1>1, <1>2, WithStripChanged DEF n
<1>4. (P \ {}) \cup {} = P
  OBVIOUS
<1>5. n.ws[id] = s /\ \A k \in DOMAIN m.ws : k # id => n.ws[k] = m.ws[k]
  BY WithStripIs DEF Stack
<1> HIDE DEF n
<1>6. \A k \in DOMAIN m.ws : WindowsOf(n.ws[k]) = WindowsOf(m.ws[k])
  BY <1>1, <1>5
<1> QED BY <1>3, <1>4, <1>6 DEF n

\* A column of a workspace is written back with the same tiles.
WithColumn(m, id, c, col) == [m EXCEPT !.ws[id].columns[c] = col]

LEMMA WithColumnGood ==
    ASSUME NEW m, NEW P, Stack(m, P), NEW id \in DOMAIN m.ws, NEW c \in 1 .. Len(m.ws[id].columns),
           NEW col, GoodColumn(col, Windows), col.tiles = m.ws[id].columns[c].tiles
    PROVE  LET n == WithColumn(m, id, c, col)
           IN  InPlace(n, m) /\ SameFocus(n, m) /\ n.ring = m.ring
<1> DEFINE s == m.ws[id]
           t == [s EXCEPT !.columns = ReplaceAt(s.columns, c, col)]
           n == WithColumn(m, id, c, col)
           w == WithStrip(m, id, t)
<1>1. n = w
  BY DEF WithColumn, WithStrip, ReplaceAt
<1>2. GoodStrip(s, Windows)
  BY DEF Stack
<1>3. GoodStrip(t, Windows) /\ SamePlaces(t, s) /\ t.named = s.named
  <2> HIDE DEF s
  <2> QED BY <1>2, SameTilesAt DEF s
<1> HIDE DEF n, w, t, s
<1>4. /\ w = Mon(m, At(m.ws, id, t), m.focusColumn, m.focusWindow, m.ring)
      /\ w.focusColumn = m.focusColumn /\ w.focusWindow = m.focusWindow /\ w.ring = m.ring
  BY WithStripIs DEF Stack, w
<1>5. InPlace(w, m)
  BY <1>3, <1>4, MonInPlace DEF s
<1> QED BY <1>1, <1>4, <1>5 DEF SameFocus, n

LEMMA NewColumnPolicyGood ==
    ASSUME NEW m, NEW P, Stack(m, P), NEW w \in P
    PROVE  LET n == NewColumnPolicy(m, w)
           IN  InPlace(n, m) /\ SameFocus(n, m) /\ n.ring = m.ring
<1> DEFINE id == CHOOSE k \in WorkspaceOf(m, w) : TRUE
           c == FindColumn(m.ws[id], w)
           col == m.ws[id].columns[c]
           b == IF config.tabbed THEN 1 ELSE 0
           set == IF Len(col.tiles) = 1 THEN [col EXCEPT !.tab = b] ELSE col
           n == NewColumnPolicy(m, w)
<1>1. id \in DOMAIN m.ws /\ w \in WindowsOf(m.ws[id])
  <2>1. \E k \in DOMAIN m.ws : /\ w \in WindowsOf(m.ws[k])
                               /\ (CHOOSE j \in WorkspaceOf(m, w) : TRUE) = k
    BY WorkspaceOfGood
  <2> QED BY <2>1
<1>2. n = WithColumn(m, id, c, SelectWindow(set, w))
  BY DEF NewColumnPolicy, WithColumn
<1> HIDE DEF n, id
<1>3. GoodStrip(m.ws[id], Windows)
  BY <1>1 DEF Stack
<1>4. c \in 1 .. Len(m.ws[id].columns) /\ GoodColumn(col, Windows)
  BY <1>1, <1>3, Finding
<1>5. b \in {0, 1}
  OBVIOUS
<1> HIDE DEF b, c, col
<1>6. GoodColumn(set, Windows) /\ set.tiles = col.tiles
  BY <1>4, <1>5, WithTabGood
<1> HIDE DEF set
<1>7. /\ GoodColumn(SelectWindow(set, w), Windows)
      /\ SelectWindow(set, w).tiles = m.ws[id].columns[c].tiles
  BY <1>6, SelectWindowGood DEF col
<1>8. InPlace(n, m) /\ SameFocus(n, m) /\ n.ring = m.ring
  BY <1>1, <1>2, <1>4, <1>7, WithColumnGood
<1> QED BY <1>8 DEF n

LEMMA NewColumnPolicySteady ==
    ASSUME NEW m, NEW min, NEW P, Steady(m, min, P), NEW w \in P
    PROVE  LET n == NewColumnPolicy(m, w)
           IN  /\ Steady(n, min, P) /\ InPlace(n, m) /\ SameFocus(n, m)
               /\ SameCursors(n, m, {})
<1> DEFINE n == NewColumnPolicy(m, w)
<1>1. Stack(m, P) /\ GoodFocus(m) /\ GoodRing(m, P)
  BY DEF Steady, Fit
<1>2. InPlace(n, m) /\ SameFocus(n, m) /\ n.ring = m.ring /\ SameCursors(n, m, {})
  BY <1>1, NewColumnPolicyGood, NewColumnPolicyCursors
<1> HIDE DEF n
<1>3. GoodFocus(n) /\ GoodRing(n, P)
  BY <1>1, <1>2, InPlaceFocus DEF GoodRing
<1> QED BY <1>2, <1>3, InPlaceSteady DEF n

----------------------------------------------------------------------------
(* The invariant. *)

\* The records of the minimized windows.
Records(min) ==
    \A w \in DOMAIN min : /\ min[w] \in [workspace : Keys, slot : SlotType(Windows)]
                          /\ min[w].slot.window = w

IInv ==
    /\ managed \subseteq Windows /\ DOMAIN minimized \subseteq managed
    /\ Records(minimized) /\ config \in Configs
    /\ AtRest(mon, minimized, Focusable)

\* A workspace nobody looks at, before and after, keeps the cursor it can keep.
CursorsKept(n, m) == KeptCursors(n, m, {m.active, n.active})

LEMMA StillKept ==
    ASSUME NEW n, NEW m, NEW S, S \subseteq {m.active, n.active}, SameCursors(n, m, S)
    PROVE  CursorsKept(n, m)
BY SameIsKept DEF CursorsKept

LEMMA LaterKept ==
    ASSUME NEW n, NEW b, NEW m, NEW S, NEW T, S \subseteq {m.active, n.active},
           T \subseteq {m.active, n.active}, SameCursors(n, b, S), KeptCursors(b, m, T)
    PROVE  CursorsKept(n, m)
BY KeptThenSame DEF CursorsKept

\* What a step does: the invariant holds in the state it leads to (the settings apart, which
\* stay), and the cursors are kept.
InvKept ==
    /\ managed' \subseteq Windows /\ DOMAIN minimized' \subseteq managed'
    /\ Records(minimized') /\ AtRest(mon', minimized', managed' \ DOMAIN minimized')
    /\ CursorsKept(mon', mon)

\* The records house the workspaces they name.
LEMMA RecordsHouse ==
    ASSUME NEW min, DOMAIN min \subseteq Windows, NEW P, DOMAIN min \cap P = {}
    PROVE  Housed(Homes(min), P)
<1> DEFINE h == [w \in DOMAIN min |-> min[w].workspace]
<1>1. Homes(min) \subseteq {h[w] : w \in Windows \ P}
  BY DEF Homes
<1> QED BY <1>1 DEF Housed

LEMMA InvFacts ==
    ASSUME IInv
    PROVE  /\ Steady(mon, minimized, Focusable) /\ Shown(mon)
           /\ Stack(mon, Focusable) /\ GoodRing(mon, Focusable) /\ GoodFocus(mon)
           /\ Roomy(mon, Homes(minimized)) /\ Housed(Homes(minimized), Focusable)
           /\ mon.active \in DOMAIN mon.ws /\ Typed(mon)
           /\ Focusable \subseteq Windows /\ NoWindow \notin Windows
           /\ DOMAIN minimized \subseteq Windows
<1>1. Housed(Homes(minimized), Focusable)
  <2>1. DOMAIN minimized \cap Focusable = {} /\ DOMAIN minimized \subseteq Windows
    BY DEF IInv, Focusable
  <2> QED BY <2>1, RecordsHouse
<1> QED BY <1>1, MonitorAssumption DEF IInv, AtRest, Steady, Fit, Stack, Typed, Focusable

\* Steps that change neither the managed windows nor the records.
LEMMA SameWindows ==
    ASSUME IInv, UNCHANGED <<minimized, managed>>, AtRest(mon', minimized, Focusable),
           CursorsKept(mon', mon)
    PROVE  InvKept
BY DEF IInv, InvKept, Focusable

----------------------------------------------------------------------------
(* Focus actions. *)

Directions == {"left", "right", "up", "down", "first", "last", "top", "bottom"}

LEMMA FocusStepTarget ==
    ASSUME NEW m, NEW P, Stack(m, P), GoodFocus(m), NEW step \in FocusSteps
    PROVE  FocusTarget(m, step) = NoWindow \/ FocusTarget(m, step) \in P
<1> DEFINE s == ActiveStrip(m)
           columns == s.columns
           c == IF Holds(s, m.focusWindow) THEN FindColumn(s, m.focusWindow)
                ELSE MinOf(IF m.focusColumn = 0 THEN 1 ELSE m.focusColumn, Len(columns))
           tiles == columns[c].tiles
           i == IF InSeq(tiles, m.focusWindow) THEN IndexIn(tiles, m.focusWindow) ELSE 1
           Column(k) == IF k \in DOMAIN columns THEN ActiveWindow(columns[k]) ELSE NoWindow
           Tile(k)   == IF k \in DOMAIN tiles THEN tiles[k] ELSE NoWindow
           Go == [left |-> Column(c - 1), right |-> Column(c + 1), up |-> Tile(i - 1),
                  down |-> Tile(i + 1), first |-> Column(1), last |-> Column(Len(columns)),
                  top |-> Tile(1), bottom |-> Tile(Len(tiles))]
           Else(x, y) == IF x # NoWindow THEN x ELSE y
           Fine(x) == x = NoWindow \/ x \in P
<1>1. GoodStrip(s, Windows) /\ WindowsOf(s) \subseteq P /\ Len(columns) \in Nat
      /\ m.focusColumn \in Nat
  <2>1. m.focusColumn \in 0 .. Len(columns)
    BY FocusFields
  <2> QED BY <2>1, ActiveColumns
<1>2. \A k : Fine(Column(k))
  <2> SUFFICES ASSUME NEW k \in DOMAIN columns PROVE ActiveWindow(columns[k]) \in P
    OBVIOUS
  <2> HIDE DEF s
  <2>1. k \in 1 .. Len(columns) /\ GoodColumn(columns[k], Windows)
    BY <1>1, StripFields
  <2>2. ActiveWindow(columns[k]) \in Tiles(columns[k])
    BY <2>1, ActiveGood
  <2> QED BY <1>1, <2>1, <2>2, Finding
<1>3. ASSUME columns # <<>> PROVE \A k : Fine(Tile(k))
  <2> HIDE DEF s
  <2>1. Len(columns) # 0
    BY <1>1, <1>3, StripFields
  <2>2. c \in 1 .. Len(columns)
    <3>1. Holds(s, m.focusWindow) => FindColumn(s, m.focusWindow) \in 1 .. Len(columns)
      BY <1>1, Finding
    <3> QED BY <1>1, <2>1, <3>1 DEF MinOf
  <2> HIDE DEF c
  <2>3. GoodColumn(columns[c], Windows)
    BY <1>1, <2>2, StripFields
  <2>4. tiles \in Seq(Windows)
    BY <2>3, ColumnFields
  <2>5. ASSUME NEW k \in DOMAIN tiles PROVE tiles[k] \in P
    <3>1. tiles[k] \in Tiles(columns[c])
      BY <2>4, <2>5, ToSetOf DEF Tiles
    <3> QED BY <1>1, <2>2, <3>1, Finding
  <2> QED BY <2>5
<1>4. FocusTarget(m, step) = IF columns = <<>> THEN NoWindow ELSE Else(Go[step[1]], Go[step[2]])
  BY DEF FocusTarget
<1>5. step[1] \in Directions /\ step[2] \in Directions
  BY DEF FocusSteps, Directions
<1>6. CASE columns = <<>>
  BY <1>4, <1>6
<1>7. CASE columns # <<>>
  <2>1. \A k : Fine(Tile(k))
    BY <1>3, <1>7
  <2> HIDE DEF Column, Tile, columns, c, tiles, i, s
  <2>2. \A d \in Directions : Fine(Go[d])
    BY <1>2, <2>1 DEF Directions
  <2>3. Fine(Go[step[1]]) /\ Fine(Go[step[2]])
    BY <1>5, <2>2
  <2> QED BY <1>4, <1>7, <2>3
<1> QED BY <1>6, <1>7

LEMMA FocusStepKeeps ==
    ASSUME IInv, NEW step \in FocusSteps, FocusStep(step)
    PROVE  InvKept
<1> DEFINE w == FocusTarget(mon, step)
<1>1. w # NoWindow /\ mon' = FocusTile(mon, minimized, w) /\ UNCHANGED <<minimized, managed>>
  BY DEF FocusStep
<1>2. w \in Focusable
  BY <1>1, InvFacts, FocusStepTarget
<1> HIDE DEF w
<1>3. AtRest(mon', minimized, Focusable)
  BY <1>1, <1>2, InvFacts, FocusTileGood
<1>4. CursorsKept(mon', mon)
  <2>1. SameCursors(mon', mon, {mon'.active})
    BY <1>1, <1>2, InvFacts, FocusTileGood
  <2> QED BY <2>1, StillKept
<1> QED BY <1>1, <1>3, <1>4, SameWindows

LEMMA FocusWorkspaceKeeps ==
    ASSUME IInv, NEW id \in DOMAIN mon.ws, FocusWorkspace(id)
    PROVE  InvKept
<1> DEFINE to == IF config.backAndForth /\ id = mon.active /\ mon.previous \in DOMAIN mon.ws
                 THEN mon.previous ELSE id
<1>1. mon' = SwitchAndMaintain(mon, minimized, to) /\ UNCHANGED <<minimized, managed>>
  BY DEF FocusWorkspace
<1>2. to \in DOMAIN mon.ws
  OBVIOUS
<1> HIDE DEF to
<1>3. AtRest(mon', minimized, Focusable) /\ mon'.active = to /\ SameCursors(mon', mon, {to})
  BY <1>1, <1>2, InvFacts, SwitchToGood
<1>4. CursorsKept(mon', mon)
  BY <1>3, StillKept
<1> QED BY <1>1, <1>3, <1>4, SameWindows

\* A switch alone keeps the stack as it was.
LEMMA SwitchSteady ==
    ASSUME NEW m, NEW min, NEW P, Steady(m, min, P), NEW id \in DOMAIN m.ws
    PROVE  LET n == Switch(m, id)
           IN  Steady(n, min, P) /\ n.active = id /\ n.ws = m.ws
<1> DEFINE n == Switch(m, id)
<1>1. Stack(m, P) /\ GoodRing(m, P) /\ Roomy(m, Homes(min)) /\ Settled(m, Homes(min), config.aboveFirst)
  BY DEF Steady, Fit
<1>2. Fit(n, P) /\ n.active = id /\ n.ws = m.ws /\ n.order = m.order
  BY <1>1, SwitchGood
<1> HIDE DEF n
<1>3. Roomy(n, Homes(min))
  BY <1>1, <1>2 DEF Roomy, NamedIn
<1>4. Settled(n, Homes(min), config.aboveFirst)
  BY <1>1, <1>2 DEF Settled, HasContent
<1> QED BY <1>2, <1>3, <1>4 DEF Steady, n

LEMMA SetFocusSteady ==
    ASSUME NEW m, NEW min, NEW P, Steady(m, min, P), NEW w \in WindowsOf(ActiveStrip(m))
    PROVE  LET n == SetFocus(m, w)
           IN  /\ Steady(n, min, P) /\ InPlace(n, m) /\ n.focusWindow = w
               /\ SameCursors(n, m, {m.active})
<1> DEFINE n == SetFocus(m, w)
<1>1. /\ InPlace(n, m) /\ Fit(n, P) /\ n.focusWindow = w
      /\ SameCursors(n, m, {m.active})
  BY SetFocusGood, SetFocusCursors DEF Steady, Fit
<1> HIDE DEF n
<1> QED BY <1>1, InPlaceSteady DEF Fit, n

LEMMA ForegroundNoticeKeeps ==
    ASSUME IInv, NEW w \in Windows, ForegroundNotice(w)
    PROVE  InvKept
<1> DEFINE m == Activate(mon, w)
           id == CHOOSE k \in WorkspaceOf(mon, w) : TRUE
           seen == mon.active = id /\ Focused = w /\ mon.focusColumn = FindColumn(mon.ws[id], w)
           at == IF mon.active = id THEN m ELSE Switch(m, id)
           f == SetFocus(at, w)
<1>1. w \in Focusable /\ UNCHANGED <<minimized, managed>>
      /\ mon' = IF seen THEN m ELSE Layout(f)
  BY DEF ForegroundNotice, Activate
<1>2. id \in DOMAIN mon.ws /\ w \in WindowsOf(mon.ws[id])
  <2>1. \E k \in DOMAIN mon.ws : /\ w \in WindowsOf(mon.ws[k])
                                 /\ (CHOOSE j \in WorkspaceOf(mon, w) : TRUE) = k
    BY <1>1, InvFacts, WorkspaceOfGood
  <2> QED BY <2>1
<1> HIDE DEF id
<1>3. CASE seen
  <2>1. w = mon.focusWindow
    BY <1>3 DEF Focused
  <2>2. AtRest(m, minimized, Focusable) /\ SameCursors(m, mon, {mon.active})
    BY <2>1, InvFacts, ActivateSteady
  <2>3. mon' = m
    BY <1>1, <1>3
  <2> HIDE DEF m
  <2>4. CursorsKept(mon', mon)
    BY <2>2, <2>3, StillKept
  <2> QED BY <1>1, <2>2, <2>3, <2>4, SameWindows
<1>4. CASE ~seen
  <2>1. /\ InPlace(m, mon) /\ SameFocus(m, mon) /\ m.ring = mon.ring
        /\ SameCursors(m, mon, {id})
    BY <1>2, InvFacts, ActivateGood, ActivateCursors
  <2>2. mon' = Layout(f)
    BY <1>1, <1>4
  <2> HIDE DEF m, seen
  <2>3. GoodFocus(m) /\ GoodRing(m, Focusable)
    BY <2>1, InvFacts, InPlaceFocus DEF GoodRing
  <2>4. Steady(m, minimized, Focusable)
    BY <2>1, <2>3, InvFacts, InPlaceSteady
  <2>5. m.active = mon.active /\ id \in DOMAIN m.ws /\ WindowsOf(m.ws[id]) = WindowsOf(mon.ws[id])
    <3>1. m.active = mon.active /\ DOMAIN m.ws = DOMAIN mon.ws
      BY <2>1 DEF InPlace
    <3> QED BY <1>2, <2>1, <3>1, InvFacts, InPlaceWindows
  <2>6. /\ Steady(at, minimized, Focusable) /\ w \in WindowsOf(ActiveStrip(at))
        /\ at.active = id /\ at.ws = m.ws
    <3>1. CASE mon.active = id
      BY <1>2, <2>4, <2>5, <3>1 DEF ActiveStrip
    <3>2. CASE mon.active # id
      <4> DEFINE s == Switch(m, id)
      <4>1. Steady(s, minimized, Focusable) /\ s.active = id /\ s.ws = m.ws
        BY <2>4, <2>5, SwitchSteady
      <4>2. at = s
        BY <3>2
      <4> HIDE DEF s, at
      <4> QED BY <1>2, <2>5, <4>1, <4>2 DEF ActiveStrip
    <3> QED BY <3>1, <3>2
  <2> HIDE DEF at
  <2>7. Steady(f, minimized, Focusable) /\ InPlace(f, at) /\ SameCursors(f, at, {at.active})
    BY <2>6, SetFocusSteady
  <2> HIDE DEF f
  <2>8. AtRest(mon', minimized, Focusable) /\ InPlace(mon', f) /\ SameCursors(mon', f, {f.active})
    BY <2>2, <2>7, LayoutSteady
  <2>9. mon'.active = id /\ f.active = id
    BY <2>6, <2>7, <2>8 DEF InPlace
  <2>10. CursorsKept(mon', mon)
    <3>1. SameCursors(at, mon, {id})
      BY <2>1, <2>6 DEF SameCursors
    <3>2. SameCursors(f, mon, {id})
      BY <2>6, <2>7, <3>1, SameCursorsTrans
    <3>3. SameCursors(mon', mon, {id})
      BY <2>8, <2>9, <3>2, SameCursorsTrans
    <3> QED BY <2>9, <3>3, StillKept
  <2> QED BY <1>1, <2>8, <2>10, SameWindows
<1> QED BY <1>3, <1>4

----------------------------------------------------------------------------
(* Column operations. *)

\* The focused window keeps the focus wherever its column went.
LEMMA FinishColumnOpGood ==
    ASSUME NEW m, NEW min, NEW P, Stack(m, P), GoodRing(m, P), Roomy(m, Homes(min)),
           Settled(m, Homes(min), config.aboveFirst),
           m.focusWindow \in WindowsOf(ActiveStrip(m)) \/ (m.focusWindow = NoWindow /\ m.focusColumn = 0)
    PROVE  LET n == FinishColumnOp(m)
           IN  AtRest(n, min, P) /\ SameCursors(n, m, {m.active}) /\ n.active = m.active
<1> DEFINE s == ActiveStrip(m)
           w == m.focusWindow
           c == IF Holds(s, w) THEN FindColumn(s, w) ELSE m.focusColumn
           n == ColumnSet(m, c)
<1>1. FinishColumnOp(m) = Layout(n)
  BY DEF FinishColumnOp, ColumnSet
<1>2. GoodStrip(s, Windows) /\ FindColumn(s, NoWindow) = 0
  BY ActiveColumns
<1>3. (w \in WindowsOf(s) \/ (w = NoWindow /\ m.focusColumn = 0)) /\ (Holds(s, w) <=> w \in WindowsOf(s))
  BY <1>2, Finding
<1>4. c = FindColumn(s, w) /\ (w = NoWindow \/ w \in WindowsOf(s))
  BY <1>2, <1>3, Finding
<1> HIDE DEF c, n
<1>5. n = Mon(m, m.ws, c, w, m.ring)
  BY FocusValues DEF n
<1>6. InPlace(n, m) /\ Fit(n, P) /\ n.ws = m.ws
  <2>1. RingIn(m.ring, P)
    BY DEF GoodRing
  <2> HIDE DEF w
  <2> QED BY <1>4, <1>5, <2>1, FocusSet
<1>7. Steady(n, min, P)
  BY <1>6, InPlaceContent, InPlaceSettled DEF Steady
<1> DEFINE l == Layout(n)
<1>8. AtRest(l, min, P) /\ InPlace(l, n) /\ SameCursors(l, n, {n.active})
  BY <1>7, LayoutSteady
<1> HIDE DEF l
<1>9. SameCursors(n, m, {}) /\ n.active = m.active /\ l.active = m.active
  BY <1>6, <1>8, SameStrips DEF InPlace
<1>10. SameCursors(l, m, {m.active})
  BY <1>8, <1>9, SameCursorsTrans
<1> QED BY <1>1, <1>8, <1>9, <1>10 DEF l

\* A column operation rearranges the windows of the active workspace.
LEMMA ColumnOpKeeps ==
    ASSUME IInv, NEW strip, Rearranged(strip, ActiveStrip(mon), Windows),
           NEW moved, InPlace(moved, mon), GoodRing(moved, Focusable),
           moved.ws = mon.ws,
           moved.focusWindow \in WindowsOf(ActiveStrip(mon))
             \/ (moved.focusWindow = NoWindow /\ moved.focusColumn = 0),
           NEW expelled, expelled = NoWindow \/ expelled \in Focusable,
           ColumnOp(strip, moved, expelled)
    PROVE  InvKept
<1> DEFINE a == WithStrip(moved, mon.active, strip)
           b == IF expelled = NoWindow THEN a ELSE NewColumnPolicy(a, expelled)
           P == Focusable
           occ == Homes(minimized)
<1>1. mon' = FinishColumnOp(b) /\ UNCHANGED <<minimized, managed>>
  BY DEF ColumnOp, WithStrip
<1>2. /\ Stack(mon, P) /\ Roomy(mon, occ) /\ Settled(mon, occ, config.aboveFirst)
      /\ mon.active \in DOMAIN mon.ws
  BY InvFacts DEF Steady
<1>3. /\ Stack(moved, P) /\ moved.active = mon.active
      /\ Roomy(moved, occ) /\ Settled(moved, occ, config.aboveFirst)
  BY <1>2, InPlaceStack, InPlaceContent, InPlaceSettled DEF InPlace
<1>4. Rearranged(strip, moved.ws[mon.active], Windows)
  BY DEF ActiveStrip
<1>5. /\ Stack(a, P) /\ SameStack(a, moved)
      /\ \A k \in DOMAIN moved.ws : WindowsOf(a.ws[k]) = WindowsOf(moved.ws[k])
  BY <1>2, <1>3, <1>4, WithStripRearranged
<1>6. /\ a.ring = moved.ring /\ a.focusWindow = moved.focusWindow /\ a.focusColumn = moved.focusColumn
      /\ a.active = mon.active
  BY <1>2, <1>3, WithStripIs DEF Stack
<1>12. SameCursors(a, mon, {mon.active})
  <2>1. SameCursors(a, moved, {mon.active})
    BY <1>2, <1>3, WithStripCursors DEF Stack
  <2> HIDE DEF a
  <2> QED BY <2>1 DEF SameCursors
<1> HIDE DEF a, b, P, occ
<1>7. Roomy(a, occ)
  BY <1>3, <1>5, SameStackRoomy
<1>8. Settled(a, occ, config.aboveFirst)
  <2>1. a.order = moved.order /\ Last(moved.order) \in DOMAIN moved.ws
        /\ moved.order[1] \in DOMAIN moved.ws
    BY <1>3, <1>5, Ends DEF SameStack
  <2>2. \A id \in DOMAIN moved.ws : HasContent(a, occ, id) = HasContent(moved, occ, id)
    BY <1>5 DEF SameStack, HasContent
  <2> QED BY <1>3, <2>1, <2>2 DEF Settled
<1>9. /\ a.focusWindow \in WindowsOf(ActiveStrip(a)) \/ (a.focusWindow = NoWindow /\ a.focusColumn = 0)
      /\ GoodRing(a, P)
  <2>1. WindowsOf(ActiveStrip(a)) = WindowsOf(ActiveStrip(mon))
    BY <1>2, <1>3, <1>5 DEF SameStack, ActiveStrip
  <2> QED BY <1>6, <2>1 DEF GoodRing, P
<1>10. CASE expelled = NoWindow
  <2>1. b = a
    BY <1>10 DEF b
  <2>2. AtRest(mon', minimized, P) /\ SameCursors(mon', a, {a.active})
    BY <1>1, <1>5, <1>7, <1>8, <1>9, <2>1, FinishColumnOpGood DEF occ
  <2>3. SameCursors(mon', mon, {mon.active})
    BY <1>6, <1>12, <2>2, SameCursorsTrans
  <2>4. CursorsKept(mon', mon)
    BY <2>3, StillKept
  <2> QED BY <1>1, <2>2, <2>4, SameWindows DEF P
<1>11. CASE expelled # NoWindow
  <2>1. b = NewColumnPolicy(a, expelled) /\ expelled \in P
    BY <1>11 DEF b, P
  <2>2. InPlace(b, a) /\ SameFocus(b, a) /\ b.ring = a.ring /\ SameCursors(b, a, {})
    BY <1>5, <2>1, NewColumnPolicyGood, NewColumnPolicyCursors
  <2>3. Stack(b, P) /\ Roomy(b, occ) /\ Settled(b, occ, config.aboveFirst) /\ GoodRing(b, P)
    BY <1>5, <1>7, <1>8, <1>9, <2>2, InPlaceStack, InPlaceContent, InPlaceSettled DEF GoodRing
  <2>4. b.focusWindow \in WindowsOf(ActiveStrip(b)) \/ (b.focusWindow = NoWindow /\ b.focusColumn = 0)
    <3>1. WindowsOf(ActiveStrip(b)) = WindowsOf(ActiveStrip(a))
      <4>1. b.active = a.active /\ a.active \in DOMAIN a.ws
        BY <1>5, <2>2 DEF InPlace, Stack, Typed
      <4> QED BY <1>5, <2>2, <4>1, InPlaceWindows DEF ActiveStrip
    <3> QED BY <1>9, <2>2, <3>1 DEF SameFocus
  <2>5. AtRest(mon', minimized, P) /\ SameCursors(mon', b, {b.active})
    BY <1>1, <2>3, <2>4, FinishColumnOpGood DEF occ
  <2>6. b.active = mon.active
    BY <1>6, <2>2 DEF InPlace
  <2>7. SameCursors(b, mon, {mon.active})
    BY <1>12, <2>2, SameCursorsTrans
  <2>8. SameCursors(mon', mon, {mon.active})
    BY <2>5, <2>6, <2>7, SameCursorsTrans
  <2>9. CursorsKept(mon', mon)
    BY <2>8, StillKept
  <2> QED BY <1>1, <2>5, <2>9, SameWindows DEF P
<1> QED BY <1>10, <1>11

\* The focus as the column operations meet it.
LEMMA FocusedFacts ==
    ASSUME IInv
    PROVE  LET s == ActiveStrip(mon)
           IN  /\ GoodStrip(s, Windows) /\ s = mon.ws[mon.active] /\ Focused = mon.focusWindow
               /\ Focused \in WindowsOf(s) \/ (Focused = NoWindow /\ mon.focusColumn = 0)
               /\ WindowsOf(s) \subseteq Focusable
               /\ mon.focusColumn = FindColumn(s, Focused)
               /\ mon.focusColumn \in 0 .. Len(s.columns)
               /\ mon.focusColumn # 0 => /\ mon.focusColumn \in 1 .. Len(s.columns)
                                         /\ Focused \in Tiles(s.columns[mon.focusColumn])
                                         /\ GoodColumn(s.columns[mon.focusColumn], Windows)
<1>1. Stack(mon, Focusable) /\ GoodFocus(mon)
  BY InvFacts
<1>2. Focused = mon.focusWindow
  BY DEF Focused
<1>3. Focused \in WindowsOf(ActiveStrip(mon)) \/ (Focused = NoWindow /\ mon.focusColumn = 0)
  BY <1>1, <1>2, FocusFields DEF GoodFocus
<1> QED BY <1>1, <1>2, <1>3, FocusFields DEF GoodFocus

\* An operation that leaves the monitor's focus to FinishColumnOp.
LEMMA PlainColumnOp ==
    ASSUME IInv, NEW strip, Rearranged(strip, ActiveStrip(mon), Windows),
           NEW expelled, expelled = NoWindow \/ expelled \in Focusable,
           ColumnOp(strip, mon, expelled)
    PROVE  InvKept
<1>1. InPlace(mon, mon) /\ GoodRing(mon, Focusable)
  BY InvFacts, InPlaceRefl
<1>2. mon.focusWindow \in WindowsOf(ActiveStrip(mon)) \/ (mon.focusWindow = NoWindow /\ mon.focusColumn = 0)
  BY FocusedFacts
<1> QED BY <1>1, <1>2, ColumnOpKeeps

LEMMA ConsumeOrExpelWindowKeeps ==
    ASSUME IInv, NEW right \in BOOLEAN, ConsumeOrExpelWindow(right)
    PROVE  InvKept
<1> DEFINE s == ActiveStrip(mon)
           c == FindColumn(s, Focused)
           multi == Len(s.columns[c].tiles) > 1
           strip == ConsumeOrExpel(s, Focused, right)
           e == IF multi THEN Focused ELSE NoWindow
<1>1. c # 0 /\ ColumnOp(strip, mon, e)
  BY DEF ConsumeOrExpelWindow
<1>2. GoodStrip(s, Windows)
  BY FocusedFacts
<1>3. e = NoWindow \/ e \in Focusable
  BY FocusedFacts
<1> HIDE DEF s, e
<1>4. Rearranged(strip, s, Windows)
  BY <1>2, ConsumeOrExpelGood
<1> HIDE DEF strip
<1> QED BY <1>1, <1>3, <1>4, PlainColumnOp DEF s

LEMMA ConsumeWindowIntoColumnKeeps ==
    ASSUME IInv, ConsumeWindowIntoColumn
    PROVE  InvKept
<1> DEFINE s == ActiveStrip(mon)
           c == mon.focusColumn
           strip == ConsumeInto(s, c)
<1>1. c # 0 /\ ColumnOp(strip, mon, NoWindow)
  BY DEF ConsumeWindowIntoColumn
<1>2. GoodStrip(s, Windows) /\ c \in 1 .. Len(s.columns)
  BY <1>1, FocusedFacts
<1> HIDE DEF s, c
<1>3. Rearranged(strip, s, Windows)
  BY <1>2, ConsumeIntoGood
<1> HIDE DEF strip
<1> QED BY <1>1, <1>3, PlainColumnOp DEF s

LEMMA MoveWindowInColumnKeeps ==
    ASSUME IInv, NEW delta \in {-1, 1}, MoveWindowInColumn(delta)
    PROVE  InvKept
<1> DEFINE s == ActiveStrip(mon)
           strip == MoveTileWithin(s, Focused, delta)
<1>1. ColumnOp(strip, mon, NoWindow)
  BY DEF MoveWindowInColumn
<1>2. GoodStrip(s, Windows) /\ delta \in Int
  BY FocusedFacts
<1> HIDE DEF s
<1>3. Rearranged(strip, s, Windows)
  BY <1>2, MoveTileWithinGood
<1> HIDE DEF strip
<1> QED BY <1>1, <1>3, PlainColumnOp DEF s

LEMMA SwapWindowKeeps ==
    ASSUME IInv, NEW delta \in {-1, 1}, SwapWindow(delta)
    PROVE  InvKept
<1> DEFINE s == ActiveStrip(mon)
           strip == SwapWithNeighbour(s, Focused, delta)
<1>1. ColumnOp(strip, mon, NoWindow)
  BY DEF SwapWindow
<1>2. GoodStrip(s, Windows)
  BY FocusedFacts
<1> HIDE DEF s
<1>3. Rearranged(strip, s, Windows)
  BY <1>2, SwapWithNeighbourGood
<1> HIDE DEF strip
<1> QED BY <1>1, <1>3, PlainColumnOp DEF s

\* The tile above the bottom one takes the focus.
WindowPushed(m, w) == [m EXCEPT !.focusWindow = w, !.ring = RingPush(@, w)]

LEMMA ExpelWindowFromColumnKeeps ==
    ASSUME IInv, ExpelWindowFromColumn
    PROVE  InvKept
<1> DEFINE s == ActiveStrip(mon)
           c == mon.focusColumn
           strip == ExpelFrom(s, c)
           bottom == Last(s.columns[c].tiles)
           above == Last(strip.columns[c].tiles)
           given == WindowPushed(mon, above)
           moved == IF Focused # bottom THEN mon ELSE given
<1>1. c # 0 /\ ColumnOp(strip, moved, bottom)
  BY DEF ExpelWindowFromColumn, WindowPushed
<1>2. /\ GoodStrip(s, Windows) /\ c \in 1 .. Len(s.columns)
      /\ GoodColumn(s.columns[c], Windows) /\ WindowsOf(s) \subseteq Focusable
  BY <1>1, FocusedFacts
<1> HIDE DEF s, c
<1>3. bottom \in Focusable
  <2>1. s.columns[c].tiles \in Seq(Windows) /\ Len(s.columns[c].tiles) # 0
    BY <1>2, ColumnFields
  <2>2. bottom \in Tiles(s.columns[c])
    BY <2>1, LastOf DEF Tiles
  <2> QED BY <1>2, <2>2, Finding
<1>4. Rearranged(strip, s, Windows) /\ c \in 1 .. Len(strip.columns)
  BY <1>2, ExpelFromGood, ExpelFromLength
<1> HIDE DEF strip
<1>5. above \in WindowsOf(s)
  <2>1. GoodStrip(strip, Windows) /\ WindowsOf(strip) = WindowsOf(s)
    BY <1>4 DEF Rearranged
  <2>2. GoodColumn(strip.columns[c], Windows)
    BY <1>4, <2>1, StripFields
  <2>3. strip.columns[c].tiles \in Seq(Windows) /\ Len(strip.columns[c].tiles) # 0
    BY <2>2, ColumnFields
  <2>4. above \in Tiles(strip.columns[c])
    BY <2>3, LastOf DEF Tiles
  <2> QED BY <1>4, <2>1, <2>4, Finding
<1> HIDE DEF bottom, above, given, moved
<1>6. above \in Focusable /\ above \in Windows
  BY <1>2, <1>5, InvFacts
<1>7. CASE Focused # bottom
  <2>1. moved = mon
    BY <1>7 DEF moved
  <2> QED BY <1>1, <1>3, <1>4, <2>1, PlainColumnOp DEF s
<1>8. CASE Focused = bottom
  <2>1. moved = given
    BY <1>8 DEF moved
  <2>2. given = Mon(mon, mon.ws, mon.focusColumn, above, RingPush(mon.ring, above))
    <3>1. IsRec(mon)
      BY InvFacts, TypedIsRec
    <3>2. /\ given.order = mon.order /\ given.ws = mon.ws /\ given.active = mon.active
          /\ given.previous = mon.previous /\ given.focusColumn = mon.focusColumn
          /\ given.focusWindow = above /\ given.ring = RingPush(mon.ring, above)
          /\ given.lastActivated = mon.lastActivated
      BY <3>1 DEF given, WindowPushed, IsRec, MonNames
    <3>3. IsRec(given)
      BY <3>1 DEF given, WindowPushed, IsRec, MonNames
    <3> QED BY <3>2, <3>3, MonEqual
  <2>3. /\ given.order = mon.order /\ given.ws = mon.ws /\ given.active = mon.active
        /\ given.previous = mon.previous /\ given.focusWindow = above
        /\ given.ring = RingPush(mon.ring, above)
    BY <2>2, MonFields
  <2>4. Typed(given)
    <3>1. DOMAIN mon.ws = DOMAIN mon.ws /\ mon.ws = [id \in DOMAIN mon.ws |-> mon.ws[id]] /\ Typed(mon)
      BY InvFacts DEF Typed
    <3> QED BY <2>2, <3>1, MonTyped
  <2>5. InPlace(given, mon)
    <3>1. InPlace(mon, mon)
      BY InvFacts, InPlaceRefl
    <3> QED BY <2>3, <2>4, <3>1 DEF InPlace
  <2>6. GoodRing(given, Focusable)
    <3>1. RingIn(mon.ring, Focusable)
      BY InvFacts DEF GoodRing
    <3>2. RingIn(RingPush(mon.ring, above), Focusable \cup {above})
      BY <1>6, <3>1, RingPushGood
    <3>3. Focusable \cup {above} = Focusable
      BY <1>6
    <3> QED BY <2>3, <3>2, <3>3 DEF GoodRing
  <2>7. given.focusWindow \in WindowsOf(s)
    BY <1>5, <2>3
  <2> QED BY <1>1, <1>3, <1>4, <2>1, <2>3, <2>5, <2>6, <2>7, ColumnOpKeeps DEF s
<1> QED BY <1>7, <1>8

\* move-column: the focused window is in the column that moves.
MovedColumn(m, s, c) == [m EXCEPT !.ws[m.active] = s, !.focusColumn = c]

LEMMA MoveColumnKeeps ==
    ASSUME IInv, NEW target, MoveColumn(target)
    PROVE  InvKept
<1> DEFINE s == ActiveStrip(mon)
           c == mon.focusColumn
           strip == MoveColumnTo(s, c, target)
           n == MovedColumn(mon, strip, target)
           a == WithStrip(mon, mon.active, strip)
           P == Focusable
<1>1. /\ c # 0 /\ target \in DOMAIN s.columns /\ mon' = Layout(n)
      /\ UNCHANGED <<minimized, managed>>
  BY DEF MoveColumn, MovedColumn, ActiveStrip
<1>2. /\ GoodStrip(s, Windows) /\ c \in 1 .. Len(s.columns) /\ Focused \in Tiles(s.columns[c])
      /\ s = mon.ws[mon.active] /\ Focused = mon.focusWindow
      /\ Stack(mon, P) /\ mon.active \in DOMAIN mon.ws /\ Typed(mon)
  BY <1>1, FocusedFacts, InvFacts
<1>3. target \in 1 .. Len(s.columns)
  BY <1>1, <1>2, StripFields
<1> HIDE DEF s, c, P
<1>4. /\ Rearranged(strip, s, Windows) /\ target \in 1 .. Len(strip.columns)
      /\ strip.columns[target] = s.columns[c]
  BY <1>2, <1>3, MoveColumnToGood
<1> HIDE DEF strip, n, a
<1>5. /\ Stack(a, P) /\ SameStack(a, mon)
      /\ \A k \in DOMAIN mon.ws : WindowsOf(a.ws[k]) = WindowsOf(mon.ws[k])
  <2>1. Rearranged(strip, mon.ws[mon.active], Windows)
    BY <1>2, <1>4
  <2> QED BY <1>2, <2>1, WithStripRearranged DEF a
<1>6. /\ a.ring = mon.ring /\ a.focusWindow = mon.focusWindow /\ a.active = mon.active
      /\ a.ws[mon.active] = strip
      /\ a.ws = At(mon.ws, mon.active, strip) /\ a.order = mon.order
  BY <1>2, WithStripIs DEF a
<1>7. n = ColumnSet(a, target)
  BY DEF n, a, MovedColumn, WithStrip, ColumnSet
<1>8. n = Mon(a, a.ws, target, a.focusWindow, a.ring)
  BY <1>5, <1>7, FocusValues
<1>9. a.focusWindow \in WindowsOf(ActiveStrip(a)) /\ target = FindColumn(ActiveStrip(a), a.focusWindow)
  <2>1. ActiveStrip(a) = strip /\ GoodStrip(strip, Windows)
    BY <1>4, <1>6 DEF ActiveStrip, Rearranged
  <2>2. Focused \in Tiles(strip.columns[target])
    BY <1>2, <1>4
  <2> QED BY <1>2, <1>4, <1>6, <2>1, <2>2, Finding
<1>10. RingIn(a.ring, P)
  BY <1>6, InvFacts DEF GoodRing, P
<1>11. InPlace(n, a) /\ Fit(n, P) /\ n.ws = a.ws
  BY <1>5, <1>8, <1>9, <1>10, FocusSet
<1>12. SameStack(n, mon)
  BY <1>5, <1>11, InPlaceSameStack, SameStackTrans
<1>13. Steady(n, minimized, P)
  <2>1. \A k \in DOMAIN mon.ws : WindowsOf(n.ws[k]) = WindowsOf(mon.ws[k])
    BY <1>5, <1>11
  <2>2. Steady(mon, minimized, P)
    BY InvFacts DEF P
  <2> QED BY <1>11, <1>12, <2>1, <2>2, SteadySame
<1>14. AtRest(mon', minimized, Focusable) /\ SameCursors(mon', n, {n.active})
  BY <1>1, <1>13, LayoutSteady DEF P
<1>15. SameCursors(a, mon, {mon.active})
  BY <1>2, WithStripCursors DEF a
<1>16. SameCursors(n, mon, {mon.active}) /\ n.active = mon.active
  BY <1>6, <1>11, <1>15 DEF SameCursors, InPlace
<1>17. SameCursors(mon', mon, {mon.active})
  BY <1>14, <1>16, SameCursorsTrans
<1>18. CursorsKept(mon', mon)
  BY <1>17, StillKept
<1> QED BY <1>1, <1>14, <1>18, SameWindows

LEMMA ToggleColumnTabbedKeeps ==
    ASSUME IInv, ToggleColumnTabbed
    PROVE  InvKept
<1> DEFINE s == ActiveStrip(mon)
           c == mon.focusColumn
           col == ToggleTabbed(s.columns[c], Focused)
           n == WithColumn(mon, mon.active, c, col)
           P == Focusable
<1>1. c # 0 /\ mon' = Layout(n) /\ UNCHANGED <<minimized, managed>>
  BY DEF ToggleColumnTabbed, WithColumn, ActiveStrip
<1>2. /\ GoodStrip(s, Windows) /\ c \in 1 .. Len(s.columns) /\ GoodColumn(s.columns[c], Windows)
      /\ s = mon.ws[mon.active] /\ Steady(mon, minimized, P)
      /\ Stack(mon, P) /\ mon.active \in DOMAIN mon.ws /\ GoodFocus(mon) /\ GoodRing(mon, P)
  BY <1>1, FocusedFacts, InvFacts
<1> HIDE DEF s, c, P
<1>3. GoodColumn(col, Windows) /\ col.tiles = mon.ws[mon.active].columns[c].tiles
  BY <1>2, ToggleTabbedGood
<1> HIDE DEF col
<1>4. InPlace(n, mon) /\ SameFocus(n, mon) /\ n.ring = mon.ring
  BY <1>2, <1>3, WithColumnGood
<1> HIDE DEF n
<1>5. GoodFocus(n) /\ GoodRing(n, P)
  BY <1>2, <1>4, InPlaceFocus DEF GoodRing
<1>6. Steady(n, minimized, P)
  BY <1>2, <1>4, <1>5, InPlaceSteady
<1>7. AtRest(mon', minimized, Focusable) /\ SameCursors(mon', n, {n.active})
  BY <1>1, <1>6, LayoutSteady DEF P
<1>8. SameCursors(n, mon, {mon.active}) /\ n.active = mon.active
  <2>1. "ws" \in DOMAIN mon /\ \A k \in DOMAIN mon.ws : k # mon.active => n.ws[k] = mon.ws[k]
    BY InvFacts, TypedIsRec DEF n, WithColumn, IsRec, MonNames
  <2> QED BY <1>4, <2>1 DEF SameCursors, InPlace
<1>9. SameCursors(mon', mon, {mon.active})
  BY <1>7, <1>8, SameCursorsTrans
<1>10. CursorsKept(mon', mon)
  BY <1>9, StillKept
<1> QED BY <1>1, <1>7, <1>10, SameWindows

LEMMA CycleTabKeeps ==
    ASSUME IInv, NEW delta \in {-1, 1}, CycleTab(delta)
    PROVE  InvKept
<1> DEFINE s == ActiveStrip(mon)
           c == mon.focusColumn
           col == s.columns[c]
           n == Len(col.tiles)
           k == ((col.tab - 1 + delta) % n) + 1
           to == col.tiles[k]
           f == SetFocus(mon, to)
           l == Layout(f)
           P == Focusable
<1>1. c # 0 /\ mon' = Activate(l, to) /\ UNCHANGED <<minimized, managed>>
  BY DEF CycleTab
<1>2. /\ GoodStrip(s, Windows) /\ c \in 1 .. Len(s.columns) /\ GoodColumn(col, Windows)
      /\ Steady(mon, minimized, P)
  BY <1>1, FocusedFacts, InvFacts
<1> HIDE DEF s, c, P
<1>3. col.tiles \in Seq(Windows) /\ n \in Nat \ {0} /\ col.tab \in Nat
  BY <1>2, ColumnFields
<1>4. k \in 1 .. n
  <2> DEFINE j == col.tab - 1 + delta
  <2>1. j \in Int
    BY <1>3
  <2> HIDE DEF j, n
  <2>2. j % n \in 0 .. n - 1
    BY <1>3, <2>1
  <2> QED BY <1>3, <2>2 DEF j
<1> HIDE DEF k
<1>5. to \in Tiles(col)
  BY <1>3, <1>4, ToSetOf DEF Tiles
<1>6. to \in WindowsOf(ActiveStrip(mon))
  BY <1>2, <1>5, Finding DEF s
<1> HIDE DEF to, f, l
<1>7. /\ Steady(f, minimized, P) /\ f.focusWindow = to /\ InPlace(f, mon)
      /\ SameCursors(f, mon, {mon.active})
  BY <1>2, <1>6, SetFocusSteady DEF f
<1>8. AtRest(l, minimized, P) /\ SameFocus(l, f) /\ InPlace(l, f) /\ SameCursors(l, f, {f.active})
  BY <1>7, LayoutSteady DEF l
<1>9. AtRest(mon', minimized, Focusable) /\ SameCursors(mon', l, {l.active})
  BY <1>1, <1>7, <1>8, ActivateSteady DEF AtRest, SameFocus, P
<1>10. f.active = mon.active /\ l.active = mon.active
  BY <1>7, <1>8 DEF InPlace
<1>11. SameCursors(mon', mon, {mon.active})
  <2>1. SameCursors(l, mon, {mon.active})
    BY <1>7, <1>8, <1>10, SameCursorsTrans
  <2> QED BY <1>9, <1>10, <2>1, SameCursorsTrans
<1>12. CursorsKept(mon', mon)
  BY <1>11, StillKept
<1> QED BY <1>1, <1>9, <1>12, SameWindows

----------------------------------------------------------------------------
(* Windows that leave. *)

\* A workspace a minimized window no longer needs was counted as occupied until now.
LEMMA HomesShrink ==
    ASSUME NEW m, NEW min, NEW P, Steady(m, min, P), NEW fewer, Homes(fewer) \subseteq Homes(min)
    PROVE  Steady(m, fewer, P)
BY DEF Steady, Roomy, Settled, HasContent

\* A window leaves the records.
LEMMA Forgotten ==
    ASSUME NEW min, Records(min), NEW w
    PROVE  LET n == Restrict(min, DOMAIN min \ {w})
           IN  /\ DOMAIN n = DOMAIN min \ {w} /\ \A x \in DOMAIN min : x # w => n[x] = min[x]
               /\ Records(n) /\ Homes(n) \subseteq Homes(min)
<1> DEFINE n == Restrict(min, DOMAIN min \ {w})
<1>1. DOMAIN n = DOMAIN min \ {w} /\ \A x \in DOMAIN min : x # w => n[x] = min[x]
  BY DEF Restrict
<1> HIDE DEF n
<1>2. Records(n)
  BY <1>1 DEF Records
<1>3. Homes(n) \subseteq Homes(min)
  BY <1>1 DEF Homes
<1> QED BY <1>1, <1>2, <1>3 DEF n

LEMMA DeactivatedGood ==
    ASSUME NEW m, NEW P, Fit(m, P), NEW w
    PROVE  LET n == Deactivated(m, w)
           IN  InPlace(n, m) /\ Fit(n, P) /\ n.ws = m.ws
<1> DEFINE x == IF m.lastActivated = w THEN NoWindow ELSE m.lastActivated
           n == [m EXCEPT !.lastActivated = x]
<1>1. Deactivated(m, w) = n
  BY DEF Deactivated
<1>2. x \in Windows \cup {NoWindow} /\ Stack(m, P)
  BY DEF Fit, Stack, Typed
<1> HIDE DEF x
<1>3. InPlace(n, m) /\ SameFocus(n, m) /\ n.ring = m.ring /\ n.ws = m.ws
  BY <1>2, WithLastActivated
<1> HIDE DEF n
<1>4. Fit(n, P)
  BY <1>3, InPlaceFit
<1> QED BY <1>1, <1>3, <1>4

\* A window leaves the strips and the stack is maintained.
LEMMA RemovedGood ==
    ASSUME NEW m, NEW P, Fit(m, P), NEW w \in P, NEW min, Housed(Homes(min), P \ {w}),
           Roomy(m, Homes(min))
    PROVE  LET n == Layout(Maintain(RemoveFromMonitor(Deactivated(m, w), w), min))
           IN  AtRest(n, min, P \ {w}) /\ KeptCursors(n, m, {m.active})
<1> DEFINE d == Deactivated(m, w)
           r == RemoveFromMonitor(d, w)
<1>1. InPlace(d, m) /\ Fit(d, P) /\ d.ws = m.ws
  BY DeactivatedGood
<1> HIDE DEF d
<1>2. Fit(r, P \ {w}) /\ SameStack(r, d) /\ KeptCursors(r, d, {})
  BY <1>1, RemoveFromMonitorGood
<1> HIDE DEF r
<1>3. Roomy(r, Homes(min))
  BY <1>1, <1>2, InPlaceSameStack, SameStackTrans, SameStackRoomy
<1> DEFINE n == Layout(Maintain(r, min))
<1>4. AtRest(n, min, P \ {w}) /\ SameCursors(n, r, {r.active})
  BY <1>2, <1>3, MaintainLayoutGood
<1> HIDE DEF n
<1>5. KeptCursors(r, m, {}) /\ r.active = m.active
  BY <1>1, <1>2 DEF KeptCursors, SameStack, InPlace
<1>6. KeptCursors(n, m, {m.active})
  BY <1>4, <1>5, KeptThenSame
<1> QED BY <1>4, <1>6 DEF n, r, d

LEMMA CloseWindowKeeps ==
    ASSUME IInv, NEW w \in Windows, CloseWindow(w)
    PROVE  InvKept
<1> DEFINE P == Focusable
           fewer == Restrict(minimized, DOMAIN minimized \ {w})
           d == Deactivated(mon, w)
<1>1. /\ w \in managed /\ managed' = managed \ {w} /\ minimized' = fewer
      /\ mon' = IF w \in DOMAIN minimized THEN d
                ELSE Layout(Maintain(RemoveFromMonitor(d, w), minimized))
  BY DEF CloseWindow
<1>2. /\ DOMAIN fewer = DOMAIN minimized \ {w} /\ Records(fewer)
      /\ Homes(fewer) \subseteq Homes(minimized)
  BY Forgotten DEF IInv
<1>3. managed \subseteq Windows /\ DOMAIN minimized \subseteq managed
  BY DEF IInv
<1>4. Fit(mon, P) /\ Steady(mon, minimized, P) /\ Roomy(mon, Homes(minimized)) /\ Shown(mon)
  BY InvFacts DEF Steady
<1> HIDE DEF fewer
<1>5. CASE w \in DOMAIN minimized
  <2>1. mon' = d
    BY <1>1, <1>5
  <2>2. InPlace(d, mon) /\ Fit(d, P) /\ d.ws = mon.ws
    BY <1>4, DeactivatedGood
  <2>2a. d.focusWindow = mon.focusWindow /\ d.active = mon.active
    <3>1. IsRec(mon)
      BY <1>4, TypedIsRec DEF Fit, Stack
    <3> QED BY <3>1 DEF Deactivated, IsRec, MonNames
  <2> HIDE DEF d
  <2>3. Steady(d, fewer, P)
    BY <1>2, <1>4, <2>2, InPlaceSteady, HomesShrink DEF Fit
  <2>3a. Shown(d)
    BY <1>4, <2>2, <2>2a DEF Shown, ActiveStrip
  <2>4. AtRest(mon', fewer, P) /\ SameCursors(mon', d, {d.active})
    BY <2>1, <2>3, <2>3a, SameStrips DEF AtRest
  <2>5. managed' \ DOMAIN minimized' = P
    BY <1>1, <1>2, <1>5 DEF Focusable
  <2>6. SameCursors(mon', mon, {mon.active})
    BY <2>2, <2>4 DEF SameCursors, InPlace
  <2>7. CursorsKept(mon', mon)
    BY <2>6, StillKept
  <2> QED BY <1>1, <1>2, <1>3, <2>4, <2>5, <2>7 DEF InvKept
<1>6. CASE w \notin DOMAIN minimized
  <2>1. mon' = Layout(Maintain(RemoveFromMonitor(Deactivated(mon, w), w), minimized)) /\ w \in P
    BY <1>1, <1>6 DEF Focusable
  <2>2. DOMAIN minimized \cap (P \ {w}) = {} /\ DOMAIN minimized \subseteq Windows
    BY <1>3 DEF Focusable
  <2>3. Housed(Homes(minimized), P \ {w})
    BY <2>2, RecordsHouse
  <2>4. AtRest(mon', minimized, P \ {w}) /\ KeptCursors(mon', mon, {mon.active})
    BY <1>4, <2>1, <2>3, RemovedGood
  <2>5. AtRest(mon', fewer, P \ {w})
    BY <1>2, <2>4, HomesShrink DEF AtRest
  <2>6. managed' \ DOMAIN minimized' = P \ {w}
    BY <1>1, <1>2, <1>6 DEF Focusable
  <2>7. CursorsKept(mon', mon)
    BY <2>4 DEF CursorsKept, KeptCursors
  <2> QED BY <1>1, <1>2, <1>3, <2>5, <2>6, <2>7 DEF InvKept
<1> QED BY <1>5, <1>6

\* The slots of windows minimized from the same workspace, in some order.
LEMMA OrderedIsSeq ==
    ASSUME NEW T, NEW S, IsFiniteSet(S), S \subseteq T, NEW q \in SetToSeqs(S)
    PROVE  q \in Seq(T)
<1>1. q \in [1 .. Cardinality(S) -> S]
  BY DEF SetToSeqs
<1>2. Cardinality(S) \in Nat
  BY FS_CardinalityType
<1> QED BY <1>1, <1>2

\* What is left of the records' values is finite.
LEMMA RecordsFinite ==
    ASSUME NEW min, DOMAIN min \subseteq Windows, NEW id
    PROVE  IsFiniteSet({min[x].slot : x \in {y \in DOMAIN min : min[y].workspace = id}})
<1> DEFINE A == {y \in DOMAIN min : min[y].workspace = id}
           B == {min[x].slot : x \in A}
           f == [x \in A |-> min[x].slot]
<1>1. IsFiniteSet(A)
  <2>1. A \subseteq Windows
    OBVIOUS
  <2> HIDE DEF A
  <2> QED BY <2>1, MonitorAssumption, FS_Subset
<1>2. f \in Surjection(A, B)
  BY DEF Surjection
<1>3. IsFiniteSet(B)
  <2> HIDE DEF A, B, f
  <2> QED BY <1>1, <1>2, FS_Surjection
<1> QED BY <1>3

LEMMA MinimizeWindowKeeps ==
    ASSUME IInv, NEW w \in Windows, MinimizeWindow(w)
    PROVE  InvKept
<1> DEFINE P == Focusable
           SlotsOf(id) == {minimized[x].slot : x \in {y \in DOMAIN minimized : minimized[y].workspace = id}}
<1>1. /\ w \in P /\ managed' = managed
      /\ mon' = Layout(Maintain(RemoveFromMonitor(Deactivated(mon, w), w), minimized'))
  BY DEF MinimizeWindow
<1>0. PICK id \in WorkspaceOf(mon, w) : \E earlier \in SetToSeqs(SlotsOf(id)) :
         minimized' = With(minimized, w,
                           [workspace |-> id, slot |-> Learned(SlotOf(mon.ws[id], w), earlier)])
  BY DEF MinimizeWindow
<1>2. PICK earlier \in SetToSeqs(SlotsOf(id)) :
         minimized' = With(minimized, w,
                           [workspace |-> id, slot |-> Learned(SlotOf(mon.ws[id], w), earlier)])
  BY <1>0
<1> DEFINE slot == Learned(SlotOf(mon.ws[id], w), earlier)
           rec == [workspace |-> id, slot |-> slot]
<1>3. /\ managed \subseteq Windows /\ DOMAIN minimized \subseteq managed /\ Records(minimized)
      /\ w \notin DOMAIN minimized /\ DOMAIN minimized \subseteq Windows
  BY <1>1 DEF IInv, Focusable
<1>4. Fit(mon, P) /\ Stack(mon, P) /\ Roomy(mon, Homes(minimized))
  BY InvFacts DEF Steady
<1>5. id \in DOMAIN mon.ws /\ w \in WindowsOf(mon.ws[id]) /\ id \in Keys /\ GoodStrip(mon.ws[id], Windows)
  <2>1. id \in DOMAIN mon.ws /\ Holds(mon.ws[id], w)
    BY <1>0 DEF WorkspaceOf
  <2>2. GoodStrip(mon.ws[id], Windows) /\ id \in Keys
    BY <1>4, <2>1 DEF Stack, Typed
  <2> QED BY <2>1, <2>2, Finding
<1>6. slot \in SlotType(Windows) /\ slot.window = w
  <2> DEFINE S == SlotsOf(id)
             own == SlotOf(mon.ws[id], w)
  <2>1. S \subseteq SlotType(Windows)
    BY <1>3 DEF Records
  <2>2. IsFiniteSet(S)
    BY <1>3, RecordsFinite
  <2>3. earlier \in SetToSeqs(S)
    BY <1>2
  <2> HIDE DEF S
  <2>4. earlier \in Seq(SlotType(Windows))
    BY <2>1, <2>2, <2>3, OrderedIsSeq
  <2>5. own \in SlotType(Windows) /\ own.window = w
    BY <1>5, SlotOfGood
  <2> HIDE DEF own
  <2>6. Learned(own, earlier) \in SlotType(Windows) /\ Learned(own, earlier).window = own.window
    BY <2>4, <2>5, LearnedGood
  <2> QED BY <2>5, <2>6 DEF own
<1> HIDE DEF slot, SlotsOf
<1>7. rec \in [workspace : Keys, slot : SlotType(Windows)] /\ rec.slot.window = w /\ rec.workspace = id
  BY <1>5, <1>6
<1> HIDE DEF rec
<1>8. /\ DOMAIN minimized' = DOMAIN minimized \cup {w} /\ minimized'[w] = rec
      /\ \A x \in DOMAIN minimized : minimized'[x] = minimized[x]
  BY <1>2, <1>3 DEF With, rec, slot
<1>9. Records(minimized')
  BY <1>3, <1>7, <1>8 DEF Records
<1>10. Homes(minimized') \subseteq DOMAIN mon.ws
  <2>1. Homes(minimized) \subseteq DOMAIN mon.ws
    BY <1>4 DEF Roomy
  <2> QED BY <1>5, <1>7, <1>8, <2>1 DEF Homes
<1>11. Housed(Homes(minimized'), P \ {w})
  <2>1. DOMAIN minimized' \subseteq Windows /\ DOMAIN minimized' \cap (P \ {w}) = {}
    BY <1>3, <1>8 DEF Focusable
  <2> QED BY <2>1, RecordsHouse
<1>12. Roomy(mon, Homes(minimized'))
  BY <1>4, <1>10 DEF Roomy
<1>13. AtRest(mon', minimized', P \ {w}) /\ KeptCursors(mon', mon, {mon.active})
  BY <1>1, <1>4, <1>11, <1>12, RemovedGood
<1>14. managed' \ DOMAIN minimized' = P \ {w} /\ DOMAIN minimized' \subseteq managed'
  BY <1>1, <1>3, <1>8 DEF Focusable
<1>15. CursorsKept(mon', mon)
  BY <1>13 DEF CursorsKept, KeptCursors
<1> QED BY <1>1, <1>3, <1>9, <1>13, <1>14, <1>15 DEF InvKept

----------------------------------------------------------------------------
(* Windows that come, and come back. *)

\* A window joins the active workspace and gets the focus.
Joined(m, s, w) == SetFocus(WithStrip(m, m.active, s), w)

LEMMA JoinedGood ==
    ASSUME NEW m, NEW P, Stack(m, P), GoodRing(m, P), NEW w \in Windows \ P,
           NEW s, GoodStrip(s, Windows), s.named = ActiveStrip(m).named,
           WindowsOf(s) = WindowsOf(ActiveStrip(m)) \cup {w}
    PROVE  LET n == Joined(m, s, w)
           IN  /\ Fit(n, P \cup {w}) /\ SameStack(n, m) /\ n.focusWindow = w
               /\ WindowsOf(ActiveStrip(n)) = WindowsOf(s) /\ n.active = m.active
<1> DEFINE a == WithStrip(m, m.active, s)
           n == SetFocus(a, w)
           Q == P \cup {w}
<1>1. m.active \in DOMAIN m.ws /\ Typed(m) /\ ActiveStrip(m) = m.ws[m.active]
  BY DEF Stack, Typed, ActiveStrip
<1>2. Stack(a, Q) /\ SameStack(a, m)
  <2>1. /\ {} \subseteq WindowsOf(m.ws[m.active]) /\ {w} \cap (P \ {}) = {}
        /\ WindowsOf(s) = (WindowsOf(m.ws[m.active]) \ {}) \cup {w}
        /\ s.named = m.ws[m.active].named
    BY <1>1
  <2>2. Stack(a, (P \ {}) \cup {w}) /\ SameStack(a, m)
    BY <1>1, <2>1, WithStripChanged
  <2>3. (P \ {}) \cup {w} = Q
    OBVIOUS
  <2> QED BY <2>2, <2>3
<1>3. a.ring = m.ring /\ a.active = m.active /\ a.ws[m.active] = s
  BY <1>1, WithStripIs
<1> HIDE DEF a, Q
<1>4. GoodRing(a, Q)
  <2>1. P \subseteq Q /\ RingIn(m.ring, P)
    BY DEF Q, GoodRing
  <2> QED BY <1>3, <2>1, RingMonotone DEF GoodRing
<1>5. ActiveStrip(a) = s /\ w \in WindowsOf(s)
  BY <1>3 DEF ActiveStrip
<1>6. InPlace(n, a) /\ Fit(n, Q) /\ n.focusWindow = w
  BY <1>2, <1>4, <1>5, SetFocusGood
<1> HIDE DEF n
<1>7. SameStack(n, m)
  BY <1>2, <1>6, InPlaceSameStack, SameStackTrans
<1>8. WindowsOf(ActiveStrip(n)) = WindowsOf(s) /\ n.active = m.active
  <2>1. n.active = a.active /\ m.active \in DOMAIN a.ws
    BY <1>1, <1>2, <1>6 DEF InPlace, SameStack
  <2>2. WindowsOf(n.ws[m.active]) = WindowsOf(a.ws[m.active])
    BY <1>2, <1>6, <2>1, InPlaceWindows
  <2> QED BY <1>3, <2>1, <2>2 DEF ActiveStrip
<1> QED BY <1>6, <1>7, <1>8 DEF n, a, Q, Joined

\* Its arrival is nothing to the other workspaces.
LEMMA JoinedCursors ==
    ASSUME NEW m, NEW P, Stack(m, P), NEW s, NEW w
    PROVE  SameCursors(Joined(m, s, w), m, {m.active})
<1> DEFINE a == WithStrip(m, m.active, s)
           n == Joined(m, s, w)
<1>1. m.active \in DOMAIN m.ws /\ Typed(m) /\ IsRec(m) /\ "ws" \in DOMAIN m /\ "active" \in DOMAIN m
  BY TypedIsRec DEF Stack, Typed, IsRec, MonNames
<1>2. DOMAIN n.ws = DOMAIN m.ws /\ \A k \in DOMAIN m.ws : k # m.active => n.ws[k] = m.ws[k]
  <2>1. /\ DOMAIN a.ws = DOMAIN m.ws /\ a.active = m.active
        /\ \A k \in DOMAIN m.ws : k # m.active => a.ws[k] = m.ws[k]
    BY <1>1, WithStripIs
  <2>2. IsRec(a)
    BY <1>1 DEF WithStrip, IsRec, MonNames
  <2>3. n = SetFocus(a, w)
    BY DEF Joined
  <2> HIDE DEF a, n
  <2>4. DOMAIN n.ws = DOMAIN a.ws /\ \A k \in DOMAIN a.ws : k # a.active => n.ws[k] = a.ws[k]
    BY <2>2, <2>3 DEF SetFocus, IsRec, MonNames
  <2> QED BY <2>1, <2>4
<1> HIDE DEF n
<1>3. SameCursors(n, m, {m.active})
  BY <1>2 DEF SameCursors
<1> QED BY <1>3 DEF n

LEMMA RestoredGood ==
    ASSUME NEW m, NEW P, NEW min, Records(min), DOMAIN min \subseteq Windows, DOMAIN min \cap P = {},
           Fit(m, P), Roomy(m, Homes(min)), NEW w \in DOMAIN min
    PROVE  LET fewer == Restrict(min, DOMAIN min \ {w})
               n == Restored(m, min, w)
           IN  /\ AtRest(n, fewer, P \cup {w}) /\ Housed(Homes(fewer), P \cup {w})
               /\ SameCursors(n, m, {m.active}) /\ n.active = m.active
<1> DEFINE fewer == Restrict(min, DOMAIN min \ {w})
           slot == min[w].slot
           strip == IF min[w].workspace = m.active THEN PutBack(ActiveStrip(m), slot)
                    ELSE InsertSlotAfterActive(ActiveStrip(m), slot)
           back == Joined(m, strip, w)
           Q == P \cup {w}
<1>1. Restored(m, min, w) = Layout(Maintain(back, fewer))
  BY DEF Restored, Joined, WithStrip
<1>2. slot \in SlotType(Windows) /\ slot.window = w /\ w \in Windows \ P
  BY DEF Records
<1>3. /\ Stack(m, P) /\ GoodRing(m, P) /\ GoodStrip(ActiveStrip(m), Windows)
      /\ WindowsOf(ActiveStrip(m)) \subseteq P
  BY ActiveColumns DEF Fit
<1>4. DOMAIN fewer = DOMAIN min \ {w} /\ Homes(fewer) \subseteq Homes(min)
  BY Forgotten
<1> HIDE DEF fewer, slot
<1>5. /\ GoodStrip(strip, Windows) /\ strip.named = ActiveStrip(m).named
      /\ WindowsOf(strip) = WindowsOf(ActiveStrip(m)) \cup {w}
  <2>1. slot.window \notin WindowsOf(ActiveStrip(m))
    BY <1>2, <1>3
  <2>2. CASE min[w].workspace = m.active
    BY <1>2, <1>3, <2>1, <2>2, PutBackGood
  <2>3. CASE min[w].workspace # m.active
    BY <1>2, <1>3, <2>1, <2>3, InsertSlotAfterActiveGood
  <2> QED BY <2>2, <2>3
<1> HIDE DEF strip
<1>6. Fit(back, Q) /\ SameStack(back, m) /\ back.active = m.active /\ SameCursors(back, m, {m.active})
  <2>1. Fit(back, Q) /\ SameStack(back, m) /\ back.active = m.active
    BY <1>2, <1>3, <1>5, JoinedGood
  <2> QED BY <1>3, <2>1, JoinedCursors
<1> HIDE DEF back
<1>7. Roomy(back, Homes(fewer))
  <2>1. Roomy(m, Homes(fewer))
    BY <1>4 DEF Roomy
  <2> QED BY <1>6, <2>1, SameStackRoomy
<1>8. Housed(Homes(fewer), Q)
  <2>1. DOMAIN fewer \subseteq Windows /\ DOMAIN fewer \cap Q = {}
    BY <1>4
  <2> QED BY <2>1, RecordsHouse
<1> DEFINE n == Layout(Maintain(back, fewer))
<1>9. AtRest(n, fewer, Q) /\ SameCursors(n, back, {m.active}) /\ n.active = m.active
  BY <1>6, <1>7, <1>8, MaintainLayoutGood
<1> HIDE DEF n
<1>10. SameCursors(n, m, {m.active})
  BY <1>6, <1>9, SameCursorsTrans
<1> QED BY <1>1, <1>8, <1>9, <1>10 DEF n, fewer

\* What a step that takes w out of the records leaves.
LEMMA WindowIsBack ==
    ASSUME IInv, NEW w \in managed, managed' = managed,
           minimized' = Restrict(minimized, DOMAIN minimized \ {w}),
           AtRest(mon', minimized', Focusable \cup {w}), CursorsKept(mon', mon)
    PROVE  InvKept
<1>1. /\ DOMAIN minimized' = DOMAIN minimized \ {w} /\ Records(minimized')
  BY Forgotten DEF IInv
<1>2. managed' \ DOMAIN minimized' = Focusable \cup {w}
  BY <1>1 DEF Focusable
<1>3. managed \subseteq Windows /\ DOMAIN minimized \subseteq managed
  BY DEF IInv
<1>4. DOMAIN minimized' \subseteq managed' /\ managed' \subseteq Windows
  BY <1>1, <1>3
<1> QED BY <1>1, <1>2, <1>4 DEF InvKept

LEMMA RestoreWindowKeeps ==
    ASSUME IInv, NEW w \in Windows, RestoreWindow(w)
    PROVE  InvKept
<1>1. /\ w \in DOMAIN minimized /\ mon' = Restored(mon, minimized, w) /\ managed' = managed
      /\ minimized' = Restrict(minimized, DOMAIN minimized \ {w})
  BY DEF RestoreWindow
<1>2. /\ Records(minimized) /\ DOMAIN minimized \subseteq Windows
      /\ DOMAIN minimized \cap Focusable = {} /\ w \in managed
  BY <1>1 DEF IInv, Focusable
<1>3. Fit(mon, Focusable) /\ Roomy(mon, Homes(minimized))
  BY InvFacts DEF Steady
<1>4. AtRest(mon', minimized', Focusable \cup {w}) /\ SameCursors(mon', mon, {mon.active})
  BY <1>1, <1>2, <1>3, RestoredGood
<1>5. CursorsKept(mon', mon)
  BY <1>4, StillKept
<1> QED BY <1>1, <1>2, <1>4, <1>5, WindowIsBack

LEMMA FocusWindowKeeps ==
    ASSUME IInv, NEW w \in Windows, FocusWindow(w)
    PROVE  InvKept
<1> DEFINE fewer == Restrict(minimized, DOMAIN minimized \ {w})
           at == IF w \in DOMAIN minimized THEN Restored(mon, minimized, w) ELSE mon
           Q == Focusable \cup {w}
<1>1. /\ w \in managed /\ managed' = managed /\ minimized' = fewer
      /\ mon' = FocusTile(at, fewer, w)
  BY DEF FocusWindow
<1>2. /\ Records(minimized) /\ DOMAIN minimized \subseteq Windows
      /\ DOMAIN minimized \cap Focusable = {}
  BY DEF IInv, Focusable
<1>3. Fit(mon, Focusable) /\ Roomy(mon, Homes(minimized)) /\ Steady(mon, minimized, Focusable)
  BY InvFacts DEF Steady
<1>4. /\ Steady(at, fewer, Q) /\ Housed(Homes(fewer), Q)
      /\ SameCursors(at, mon, {mon.active})
  <2>1. CASE w \in DOMAIN minimized
    <3> DEFINE r == Restored(mon, minimized, w)
    <3>1. at = r
      BY <2>1
    <3>2. AtRest(r, fewer, Q) /\ Housed(Homes(fewer), Q) /\ SameCursors(r, mon, {mon.active})
      BY <1>2, <1>3, <2>1, RestoredGood
    <3> HIDE DEF r, fewer, at, Q
    <3> QED BY <3>1, <3>2 DEF AtRest
  <2>2. CASE w \notin DOMAIN minimized
    <3>1. at = mon /\ Q = Focusable
      BY <1>1, <2>2 DEF Focusable
    <3>2. DOMAIN fewer = DOMAIN minimized \ {w} /\ Homes(fewer) \subseteq Homes(minimized)
      BY <1>2, Forgotten
    <3> HIDE DEF fewer, at, Q
    <3>3. DOMAIN fewer \subseteq Windows /\ DOMAIN fewer \cap Focusable = {}
      BY <1>2, <3>2
    <3>4. Housed(Homes(fewer), Focusable)
      BY <3>3, RecordsHouse
    <3>5. Steady(mon, fewer, Focusable)
      BY <1>3, <3>2, HomesShrink
    <3> QED BY <3>1, <3>4, <3>5, SameStrips
  <2> QED BY <2>1, <2>2
<1> HIDE DEF at, fewer, Q
<1>5. w \in Q
  BY DEF Q
<1>6. AtRest(mon', minimized', Q) /\ SameCursors(mon', at, {mon'.active})
  BY <1>1, <1>4, <1>5, FocusTileGood
<1>7. CursorsKept(mon', mon)
  <2>1. SameCursors(mon', mon, {mon.active, mon'.active})
    BY <1>4, <1>6, SameCursorsTrans
  <2> QED BY <2>1, StillKept
<1> QED BY <1>1, <1>6, <1>7, WindowIsBack DEF fewer, Q

Refocused(n, m, min, P) == Steady(n, min, P) /\ SameCursors(n, m, {m.active}) /\ n.active = m.active

\* The window that had the focus gets it back, if it is there; any other gets nothing.
LEMMA KeepTheFocusGood ==
    ASSUME NEW m, NEW min, NEW P, Steady(m, min, P), NEW w \in P, NEW x
    PROVE  Refocused(KeepTheFocus(m, w, x), m, min, P)
<1> DEFINE s == m.ws[m.active]
           t == RememberFocus(s, x)
           c == FindColumn(s, x)
           ring == RingPushBack(Without(m.ring, w), w)
           n == KeepTheFocus(m, w, x)
<1>0. /\ m.active \in DOMAIN m.ws /\ GoodStrip(s, Windows) /\ s = ActiveStrip(m) /\ Typed(m)
      /\ Stack(m, P) /\ GoodRing(m, P) /\ GoodFocus(m) /\ w \in Windows
  <2>1. Stack(m, P) /\ GoodRing(m, P) /\ GoodFocus(m)
    BY DEF Steady, Fit
  <2>2. m.active \in DOMAIN m.ws /\ GoodStrip(s, Windows) /\ s = ActiveStrip(m) /\ Typed(m)
    BY <2>1 DEF Stack, Typed, ActiveStrip
  <2>3. PICK k \in DOMAIN m.ws : w \in WindowsOf(m.ws[k])
    BY <2>1 DEF Stack
  <2>4. GoodStrip(m.ws[k], Windows)
    BY <2>1 DEF Stack
  <2>5. w \in Windows
    BY <2>3, <2>4, StripFields
  <2> QED BY <2>1, <2>2, <2>5
<1>10. RingIn(ring, P)
  <2> DEFINE r == Without(m.ring, w)
  <2>1. RingIn(Dropped(m.ring, {w}), P \ {w})
    BY <1>0, RingDroppedGood DEF GoodRing
  <2>2. RingIn(r, P)
    BY <2>1, RingMonotone DEF Without
  <2> HIDE DEF r
  <2>3. RingIn(RingPushBack(r, w), P \cup {w})
    BY <1>0, <2>2, RingPushBackGood
  <2>4. P \cup {w} = P
    OBVIOUS
  <2> QED BY <2>3, <2>4 DEF r
<1>11. Holds(s, x) <=> x \in WindowsOf(s)
  <2> HIDE DEF s
  <2> QED BY <1>0, Finding
<1>1. CASE x \in {NoWindow, w}
  <2>1. n = m
    BY <1>1 DEF KeepTheFocus
  <2> HIDE DEF n
  <2> QED BY <2>1, SameStrips DEF n, Refocused
<1>2. CASE x \notin {NoWindow, w} /\ Holds(s, x)
  <2>1. /\ m.active \in DOMAIN m.ws /\ GoodStrip(s, Windows) /\ s = ActiveStrip(m)
        /\ Stack(m, P) /\ x \in WindowsOf(s)
    BY <1>0, <1>2, <1>11
  <2>2. GoodStrip(t, Windows) /\ SamePlaces(t, s) /\ t.named = s.named
    BY <2>1, RememberFocusGood
  <2>3. n = Mon(m, At(m.ws, m.active, t), c, x, ring)
    <3>1. IsRec(m)
      BY <2>1, TypedIsRec DEF Stack
    <3>2. /\ n.order = m.order /\ n.ws = At(m.ws, m.active, t) /\ n.active = m.active
          /\ n.previous = m.previous /\ n.focusColumn = c /\ n.focusWindow = x
          /\ n.ring = ring /\ n.lastActivated = m.lastActivated
      BY <1>2, <2>1, <3>1 DEF KeepTheFocus, At, IsRec, MonNames
    <3>3. IsRec(n)
      BY <1>2, <2>1, <3>1 DEF KeepTheFocus, IsRec, MonNames
    <3> HIDE DEF n, t, c, ring
    <3> QED BY <3>2, <3>3, MonEqual
  <2>4. WindowsOf(t) = WindowsOf(s) /\ FindColumn(t, x) = c
    BY <2>1, <2>2, SamePlacesFind
  <2> HIDE DEF t, c, n, ring
  <2>6. InPlace(n, m)
    BY <2>1, <2>2, <2>3, MonInPlace
  <2>7. n.active = m.active /\ n.focusColumn = c /\ n.focusWindow = x /\ n.ring = ring
        /\ n.ws = At(m.ws, m.active, t)
    BY <2>3, MonFields
  <2>8. ActiveStrip(n) = t
    <3>1. Typed(m) /\ m.active \in DOMAIN m.ws
      BY <2>1 DEF Stack
    <3>2. At(m.ws, m.active, t)[m.active] = t
      BY <3>1 DEF At, Typed
    <3> QED BY <2>7, <3>2 DEF ActiveStrip
  <2>9. GoodFocus(n) /\ GoodRing(n, P)
    BY <2>1, <2>4, <1>10, <2>7, <2>8 DEF GoodFocus, GoodRing
  <2>10. Steady(n, min, P)
    BY <2>6, <2>9, InPlaceSteady
  <2>11. SameCursors(n, m, {m.active})
    <3>1. \A k \in DOMAIN m.ws : k # m.active => n.ws[k] = m.ws[k]
      BY <2>1, <2>7 DEF At, Stack, Typed
    <3> QED BY <2>6, <3>1 DEF SameCursors, InPlace
  <2> QED BY <2>7, <2>10, <2>11 DEF n, Refocused
<1>3. CASE x \notin {NoWindow, w} /\ ~Holds(s, x)
  <2> DEFINE still == At(m.ws, m.active, s)
  <2>1. still = m.ws
    BY <1>0 DEF At, Typed
  <2>2. n = Mon(m, still, m.focusColumn, m.focusWindow, ring)
    <3>1. IsRec(m)
      BY <1>0, TypedIsRec
    <3>2. /\ n.order = m.order /\ n.ws = still /\ n.active = m.active
          /\ n.previous = m.previous /\ n.focusColumn = m.focusColumn /\ n.focusWindow = m.focusWindow
          /\ n.ring = ring /\ n.lastActivated = m.lastActivated
      <4> HIDE DEF still
      <4> QED BY <1>0, <1>3, <2>1, <3>1 DEF KeepTheFocus, IsRec, MonNames
    <3>3. IsRec(n)
      BY <1>0, <1>3, <3>1 DEF KeepTheFocus, IsRec, MonNames
    <3> HIDE DEF n, ring, still
    <3> QED BY <3>2, <3>3, MonEqual
  <2> HIDE DEF n, ring
  <2>3. InPlace(n, m)
    <3>1. SamePlaces(s, s)
      BY DEF SamePlaces
    <3> HIDE DEF s
    <3> QED BY <1>0, <2>2, <3>1, MonInPlace DEF s
  <2> HIDE DEF still
  <2>4. n.active = m.active /\ n.focusColumn = m.focusColumn /\ n.focusWindow = m.focusWindow
        /\ n.ring = ring /\ n.ws = m.ws
    BY <2>1, <2>2, MonFields
  <2>5. GoodFocus(n) /\ GoodRing(n, P)
    BY <1>0, <1>10, <2>4 DEF GoodFocus, GoodRing, ActiveStrip
  <2>6. Steady(n, min, P)
    BY <2>3, <2>5, InPlaceSteady
  <2>7. SameCursors(n, m, {m.active})
    BY <2>3, <2>4 DEF SameCursors, InPlace
  <2> QED BY <2>4, <2>6, <2>7 DEF n, Refocused
<1> QED BY <1>1, <1>2, <1>3

\* The stack is maintained and the column of the new window takes the configured display.
LEMMA SettledGood ==
    ASSUME NEW m, NEW P, Fit(m, P), NEW min, Housed(Homes(min), P), Roomy(m, Homes(min)), NEW w \in P
    PROVE  LET n == NewColumnPolicy(Maintain(m, min), w)
           IN  /\ Steady(n, min, P) /\ WindowsOf(ActiveStrip(n)) = WindowsOf(ActiveStrip(m))
               /\ SameCursors(n, m, {}) /\ n.active = m.active
<1> DEFINE b == Maintain(m, min)
           n == NewColumnPolicy(b, w)
<1>1. Steady(b, min, P) /\ Pruned(b, m, Homes(min)) /\ SameCursors(b, m, {})
  BY MaintainSteady
<1> HIDE DEF b
<1>2. Steady(n, min, P) /\ InPlace(n, b) /\ SameCursors(n, b, {})
  BY <1>1, NewColumnPolicySteady
<1> HIDE DEF n
<1>3. b.active = m.active /\ m.active \in DOMAIN b.ws /\ b.ws[m.active] = m.ws[m.active]
  BY <1>1 DEF Pruned, Fit, Stack, Typed
<1>4. Stack(b, P)
  BY <1>1 DEF Steady, Fit
<1>5. WindowsOf(n.ws[m.active]) = WindowsOf(b.ws[m.active])
  BY <1>2, <1>3, <1>4, InPlaceWindows
<1>6. n.active = m.active
  BY <1>2, <1>3 DEF InPlace
<1>7. SameCursors(n, m, {})
  BY <1>1, <1>2, SameCursorsTrans
<1> QED BY <1>2, <1>3, <1>5, <1>6, <1>7 DEF n, b, ActiveStrip

\* What a step that adds w to the managed windows leaves.
LEMMA WindowIsNew ==
    ASSUME IInv, NEW w \in Windows, w \notin managed, managed' = managed \cup {w},
           minimized' = minimized, AtRest(mon', minimized, Focusable \cup {w}),
           CursorsKept(mon', mon)
    PROVE  InvKept
<1>1. managed \subseteq Windows /\ DOMAIN minimized \subseteq managed /\ Records(minimized)
  BY DEF IInv
<1>2. managed' \ DOMAIN minimized' = Focusable \cup {w}
  BY <1>1 DEF Focusable
<1> QED BY <1>1, <1>2 DEF InvKept

LEMMA NewWindowFacts ==
    ASSUME IInv, NEW w \in Windows, w \notin managed
    PROVE  /\ w \in Windows \ Focusable /\ Housed(Homes(minimized), Focusable \cup {w})
           /\ \A id \in DOMAIN mon.ws : w \notin WindowsOf(mon.ws[id])
<1>1. DOMAIN minimized \subseteq Windows /\ DOMAIN minimized \cap (Focusable \cup {w}) = {}
  BY DEF IInv, Focusable
<1>2. Housed(Homes(minimized), Focusable \cup {w})
  BY <1>1, RecordsHouse
<1>3. w \notin Focusable
  BY DEF Focusable
<1> QED BY <1>2, <1>3, InvFacts DEF Stack

LEMMA OpenWindowKeeps ==
    ASSUME IInv, NEW w \in Windows, NEW refused \in BOOLEAN, OpenWindow(w, refused)
    PROVE  InvKept
<1> DEFINE strip == InsertAfterActive(ActiveStrip(mon), w)
           placed == Joined(mon, strip, w)
           settled == NewColumnPolicy(Maintain(placed, minimized), w)
           Q == Focusable \cup {w}
<1>0. PICK previous \in FocusBefore :
        mon' = Layout(IF refused THEN KeepTheFocus(settled, w, previous) ELSE settled)
  BY DEF OpenWindow, Joined, WithStrip, ActiveStrip
<1> DEFINE final == IF refused THEN KeepTheFocus(settled, w, previous) ELSE settled
<1>1. /\ w \notin managed /\ managed' = managed \cup {w} /\ minimized' = minimized
      /\ mon' = Layout(final)
  BY <1>0 DEF OpenWindow
<1>2. /\ w \in Windows \ Focusable /\ Housed(Homes(minimized), Q)
      /\ w \notin WindowsOf(ActiveStrip(mon))
      /\ GoodStrip(ActiveStrip(mon), Windows)
      /\ Stack(mon, Focusable) /\ GoodRing(mon, Focusable) /\ Roomy(mon, Homes(minimized))
  BY <1>1, NewWindowFacts, InvFacts, FocusedFacts
<1>3. /\ GoodStrip(strip, Windows) /\ strip.named = ActiveStrip(mon).named
      /\ WindowsOf(strip) = WindowsOf(ActiveStrip(mon)) \cup {w}
  BY <1>2, InsertAfterActiveGood
<1> HIDE DEF strip
<1>4. /\ Fit(placed, Q) /\ SameStack(placed, mon)
      /\ WindowsOf(ActiveStrip(placed)) = WindowsOf(strip)
  BY <1>2, <1>3, JoinedGood
<1>9. SameCursors(placed, mon, {mon.active}) /\ placed.active = mon.active
  BY <1>2, <1>4, JoinedCursors DEF SameStack
<1> HIDE DEF placed
<1>5. Roomy(placed, Homes(minimized)) /\ w \in Q
  BY <1>2, <1>4, SameStackRoomy
<1> HIDE DEF Q
<1>6. /\ Steady(settled, minimized, Q) /\ WindowsOf(ActiveStrip(settled)) = WindowsOf(strip)
      /\ SameCursors(settled, placed, {}) /\ settled.active = placed.active
  BY <1>2, <1>4, <1>5, SettledGood
<1> HIDE DEF settled
<1>7. /\ Steady(final, minimized, Q) /\ SameCursors(final, settled, {settled.active})
      /\ final.active = settled.active
  <2> DEFINE kept == KeepTheFocus(settled, w, previous)
  <2>2. /\ Steady(kept, minimized, Q) /\ SameCursors(kept, settled, {settled.active})
        /\ kept.active = settled.active
    <3>1. Steady(settled, minimized, Q) /\ w \in Q
      BY <1>5, <1>6
    <3>2. Refocused(KeepTheFocus(settled, w, previous), settled, minimized, Q)
      BY <3>1, KeepTheFocusGood
    <3> HIDE DEF final
    <3> QED BY <3>2 DEF Refocused
  <2>3. final = IF refused THEN kept ELSE settled
    OBVIOUS
  <2> HIDE DEF kept, final
  <2> QED BY <1>6, <2>2, <2>3, SameStrips
<1> HIDE DEF final
<1>8. AtRest(mon', minimized, Q) /\ SameCursors(mon', final, {final.active})
  BY <1>1, <1>7, LayoutSteady
<1>10. CursorsKept(mon', mon)
  <2>1. settled.active = mon.active /\ final.active = mon.active
    BY <1>6, <1>7, <1>9
  <2>2. SameCursors(settled, mon, {mon.active})
    BY <1>6, <1>9, SameCursorsTrans
  <2>3. SameCursors(final, mon, {mon.active})
    BY <1>7, <2>1, <2>2, SameCursorsTrans
  <2>4. SameCursors(mon', mon, {mon.active})
    BY <1>8, <2>1, <2>3, SameCursorsTrans
  <2> QED BY <2>4, StillKept
<1> QED BY <1>1, <1>8, <1>10, WindowIsNew DEF Q

\* A window joins a workspace nobody looks at, and the focus stays.
ArrivedAt(m, id, s, w) == [m EXCEPT !.ws[id] = s, !.ring = RingPushBack(@, w)]

LEMMA ArrivedGood ==
    ASSUME NEW m, NEW P, Fit(m, P), NEW w \in Windows \ P, NEW id \in DOMAIN m.ws, id # m.active,
           NEW s, GoodStrip(s, Windows), s.named = m.ws[id].named,
           WindowsOf(s) = WindowsOf(m.ws[id]) \cup {w}
    PROVE  LET n == ArrivedAt(m, id, s, w)
           IN  Fit(n, P \cup {w}) /\ SameStack(n, m)
<1> DEFINE n == ArrivedAt(m, id, s, w)
           ring == RingPushBack(m.ring, w)
           Q == P \cup {w}
<1>1. Stack(m, P) /\ GoodRing(m, P) /\ GoodFocus(m) /\ Typed(m)
  BY DEF Fit, Stack
<1>2. n = Mon(m, At(m.ws, id, s), m.focusColumn, m.focusWindow, ring)
  <2>1. IsRec(m)
    BY <1>1, TypedIsRec
  <2>2. /\ n.order = m.order /\ n.ws = At(m.ws, id, s) /\ n.active = m.active
        /\ n.previous = m.previous /\ n.focusColumn = m.focusColumn /\ n.focusWindow = m.focusWindow
        /\ n.ring = ring /\ n.lastActivated = m.lastActivated
    BY <2>1 DEF ArrivedAt, At, IsRec, MonNames
  <2>3. IsRec(n)
    BY <2>1 DEF ArrivedAt, IsRec, MonNames
  <2> HIDE DEF n, ring
  <2> QED BY <2>2, <2>3, MonEqual
<1> HIDE DEF n
<1>3. /\ n.order = m.order /\ n.ws = At(m.ws, id, s) /\ n.active = m.active
      /\ n.focusColumn = m.focusColumn /\ n.focusWindow = m.focusWindow /\ n.ring = ring
  BY <1>2, MonFields
<1>4. /\ DOMAIN n.ws = DOMAIN m.ws /\ n.ws[id] = s
      /\ \A k \in DOMAIN m.ws : k # id => n.ws[k] = m.ws[k]
  BY <1>1, <1>3 DEF At, Typed
<1>5. SameStack(n, m)
  BY <1>3, <1>4 DEF SameStack
<1>6. Stack(n, Q)
  <2>1. /\ {} \subseteq WindowsOf(m.ws[id]) /\ {w} \cap (P \ {}) = {}
        /\ WindowsOf(s) = (WindowsOf(m.ws[id]) \ {}) \cup {w}
    OBVIOUS
  <2>2. Stack(n, (P \ {}) \cup {w})
    BY <1>1, <1>2, <2>1, MonChanged
  <2>3. (P \ {}) \cup {w} = Q
    OBVIOUS
  <2> QED BY <2>2, <2>3
<1>7. GoodRing(n, Q)
  BY <1>1, <1>3, RingPushBackGood DEF GoodRing
<1>8. ActiveStrip(n) = ActiveStrip(m)
  BY <1>1, <1>3, <1>4 DEF ActiveStrip, Typed
<1>9. GoodFocus(n)
  BY <1>1, <1>3, <1>8 DEF GoodFocus
<1> QED BY <1>5, <1>6, <1>7, <1>9 DEF Fit, n

LEMMA ArrivedStrips ==
    ASSUME NEW m, NEW P, Stack(m, P), NEW id \in DOMAIN m.ws, NEW s, NEW w
    PROVE  LET n == ArrivedAt(m, id, s, w)
           IN  /\ DOMAIN n.ws = DOMAIN m.ws /\ n.ws[id] = s
               /\ \A k \in DOMAIN m.ws : k # id => n.ws[k] = m.ws[k]
<1>1. IsRec(m) /\ m.ws = [k \in DOMAIN m.ws |-> m.ws[k]]
  BY TypedIsRec DEF Stack, Typed
<1> QED BY <1>1 DEF ArrivedAt, IsRec, MonNames

LEMMA OpenOnWorkspaceKeeps ==
    ASSUME IInv, NEW w \in Windows, NEW id \in DOMAIN mon.ws, OpenOnWorkspace(w, id)
    PROVE  InvKept
<1> DEFINE strip == mon.ws[id]
           joined == InsertAfterActive(strip, w)
           opened == RememberFocus(joined, strip.active)
           placed == ArrivedAt(mon, id, opened, w)
           settled == NewColumnPolicy(Maintain(placed, minimized), w)
           Q == Focusable \cup {w}
<1>1. /\ w \notin managed /\ managed' = managed \cup {w} /\ minimized' = minimized
      /\ id # mon.active /\ mon' = Layout(settled)
  BY DEF OpenOnWorkspace, ArrivedAt
<1>2. /\ w \in Windows \ Focusable /\ Housed(Homes(minimized), Q)
      /\ w \notin WindowsOf(strip)
      /\ Fit(mon, Focusable) /\ Roomy(mon, Homes(minimized))
  BY <1>1, NewWindowFacts, InvFacts DEF Steady
<1>3. GoodStrip(strip, Windows)
  BY <1>2 DEF Fit, Stack
<1>4. /\ GoodStrip(joined, Windows) /\ joined.named = strip.named
      /\ WindowsOf(joined) = WindowsOf(strip) \cup {w}
  <2> HIDE DEF strip
  <2> QED BY <1>2, <1>3, InsertAfterActiveGood
<1> HIDE DEF joined
<1>5. /\ GoodStrip(opened, Windows) /\ opened.named = strip.named
      /\ WindowsOf(opened) = WindowsOf(strip) \cup {w}
  <2>1. GoodStrip(opened, Windows) /\ SamePlaces(opened, joined) /\ opened.named = joined.named
    BY <1>4, RememberFocusGood
  <2> HIDE DEF opened, strip
  <2>2. WindowsOf(opened) = WindowsOf(joined)
    BY <1>4, <2>1, SamePlacesFind
  <2> QED BY <1>4, <2>1, <2>2
<1>10. strip.active \in WindowsOf(strip) => opened.active = strip.active
  <2>1. strip.active \in WindowsOf(strip) => strip.active \in WindowsOf(joined)
    BY <1>4
  <2> HIDE DEF strip
  <2> QED BY <1>4, <2>1, RememberFocusGood
<1> HIDE DEF opened
<1>6. Fit(placed, Q) /\ SameStack(placed, mon)
  BY <1>1, <1>2, <1>5, ArrivedGood
<1>11. KeptCursors(placed, mon, {}) /\ placed.active = mon.active
  <2>1. /\ DOMAIN placed.ws = DOMAIN mon.ws /\ placed.ws[id] = opened
        /\ \A k \in DOMAIN mon.ws : k # id => placed.ws[k] = mon.ws[k]
    BY <1>2, ArrivedStrips DEF Fit
  <2> HIDE DEF placed
  <2> QED BY <1>6, <1>10, <2>1 DEF KeptCursors, SameStack
<1> HIDE DEF placed
<1>7. Roomy(placed, Homes(minimized)) /\ w \in Q
  BY <1>2, <1>6, SameStackRoomy
<1> HIDE DEF Q
<1>8. /\ Steady(settled, minimized, Q)
      /\ SameCursors(settled, placed, {}) /\ settled.active = placed.active
  BY <1>2, <1>6, <1>7, SettledGood
<1> HIDE DEF settled
<1>9. AtRest(mon', minimized, Q) /\ SameCursors(mon', settled, {settled.active})
  BY <1>1, <1>8, LayoutSteady
<1>12. CursorsKept(mon', mon)
  <2>1. SameCursors(mon', placed, {mon.active})
    BY <1>8, <1>9, <1>11, SameCursorsTrans
  <2> QED BY <1>11, <2>1, LaterKept
<1> QED BY <1>1, <1>9, <1>12, WindowIsNew DEF Q
----------------------------------------------------------------------------
(* Windows that go to another workspace. *)

\* The column of one window that leaves its mates.
LEMMA AloneGood ==
    ASSUME NEW W, NEW col, GoodColumn(col, W), NEW w \in W
    PROVE  LET n == SelectWindow([col EXCEPT !.tiles = <<w>>], w)
           IN  GoodColumn(n, W) /\ Tiles(n) = {w}
<1> DEFINE t == <<w>>
           one == [col EXCEPT !.tiles = t]
           b == IF Tabbed(col) THEN 1 ELSE 0
<1>1. col = [tiles |-> col.tiles, active |-> col.active, tab |-> col.tab] /\ col.tab \in Nat
  BY ColumnFields
<1>2. t \in Seq(W) /\ Len(t) = 1 /\ IsInjective(t) /\ ToSet(t) = {w}
  BY SingleTile
<1> HIDE DEF t
<1>3. one = [tiles |-> t, active |-> col.active, tab |-> col.tab]
  BY <1>1
<1>4. InSeq(t, w) /\ IndexIn(t, w) = 1
  <2>1. InSeq(t, w)
    BY <1>2, InSeqOf
  <2>2. IndexIn(t, w) \in 1 .. Len(t)
    BY <1>2, <2>1, IndexInProperties
  <2> QED BY <1>2, <2>1, <2>2
<1>5. one.tiles = t /\ (Tabbed(one) <=> Tabbed(col))
  BY <1>3 DEF Tabbed
<1>6. SelectWindow(one, w) = [tiles |-> t, active |-> w, tab |-> b]
  BY <1>3, <1>4, <1>5 DEF SelectWindow
<1>7. b \in Nat /\ b <= Len(t) /\ Len(t) # 0 /\ w \in W \cup {NoWindow}
  BY <1>2
<1> HIDE DEF b, one
<1>8. GoodColumn([tiles |-> t, active |-> w, tab |-> b], W)
      /\ Tiles([tiles |-> t, active |-> w, tab |-> b]) = ToSet(t)
  BY <1>2, <1>7, MakeColumn
<1> QED BY <1>2, <1>6, <1>8 DEF one, t

\* What leaves a workspace, and what stays.
LEMMA DetachGood ==
    ASSUME NEW ws, GoodStrip(ws, Windows), NEW c \in 1 .. Len(ws.columns),
           NEW w, w = NoWindow \/ w \in Tiles(ws.columns[c])
    PROVE  LET col == DetachedColumn(ws, c, w)
               rest == AfterDetach(ws, c, w)
           IN  /\ GoodColumn(col, Windows) /\ Tiles(col) \subseteq WindowsOf(ws)
               /\ GoodStrip(rest, Windows) /\ rest.named = ws.named
               /\ WindowsOf(rest) = WindowsOf(ws) \ Tiles(col)
<1> DEFINE cols == ws.columns
           mine == cols[c]
           col == DetachedColumn(ws, c, w)
           rest == AfterDetach(ws, c, w)
<1>1. /\ GoodColumns(cols, Windows) /\ GoodColumn(mine, Windows) /\ WindowsOf(ws) = TilesIn(cols)
      /\ Tiles(mine) \subseteq WindowsOf(ws)
  <2>1. GoodColumns(cols, Windows) /\ GoodColumn(mine, Windows) /\ WindowsOf(ws) = TilesIn(cols)
    BY StripFields
  <2>2. \A x \in Tiles(mine) : x \in WindowsOf(ws)
    BY Finding
  <2> QED BY <2>1, <2>2
<1>2. CASE w = NoWindow
  <2> DEFINE left == RemoveAt(cols, c)
  <2>1. col = mine /\ rest = [ws EXCEPT !.columns = left]
    BY <1>2 DEF DetachedColumn, AfterDetach
  <2>2. GoodColumns(left, Windows) /\ TilesIn(left) = TilesIn(cols) \ Tiles(mine)
    BY <1>1, RemoveColumnGood
  <2> HIDE DEF left, mine, cols, col, rest
  <2>3. /\ GoodStrip(rest, Windows) /\ rest.named = ws.named /\ WindowsOf(rest) = TilesIn(left)
    BY <2>1, <2>2, WithColumns
  <2> QED BY <1>1, <2>1, <2>2, <2>3 DEF col, rest
<1>3. CASE w # NoWindow
  <2> DEFINE less == RemoveTile(mine, w)
             left == PutColumn(cols, c, less)
  <2>1. w \in Tiles(mine) /\ rest = [ws EXCEPT !.columns = left] /\ w \in Windows
    BY <1>1, <1>3, ColumnFields DEF AfterDetach
  <2>2. GoodColumn(col, Windows) /\ Tiles(col) = {w}
    <3>1. CASE Len(mine.tiles) = 1
      <4>1. col = mine
        BY <3>1 DEF DetachedColumn
      <4>2. mine.tiles \in Seq(Windows)
        BY <1>1, ColumnFields
      <4>3. \A x : x \in Tiles(mine) <=> x = mine.tiles[1]
        <5>1. \A x : x \in ToSet(mine.tiles) <=> \E i \in 1 .. Len(mine.tiles) : mine.tiles[i] = x
          BY <4>2, ToSetOf
        <5> QED BY <3>1, <5>1 DEF Tiles
      <4>4. Tiles(mine) = {w}
        BY <2>1, <4>3
      <4> QED BY <1>1, <4>1, <4>4
    <3>2. CASE Len(mine.tiles) # 1
      <4> DEFINE alone == SelectWindow([mine EXCEPT !.tiles = <<w>>], w)
      <4>1. col = alone
        BY <1>3, <3>2 DEF DetachedColumn
      <4>2. GoodColumn(alone, Windows) /\ Tiles(alone) = {w}
        BY <1>1, <2>1, AloneGood
      <4> QED BY <4>1, <4>2
    <3> QED BY <3>1, <3>2
  <2>3. /\ less \in ColumnType(Windows) /\ Tiles(less) = Tiles(mine) \ {w}
        /\ less.tiles # <<>> => GoodColumn(less, Windows)
    BY <1>1, <2>1, RemoveTileGood
  <2>4. Tiles(less) \subseteq Tiles(cols[c])
    BY <2>3
  <2> HIDE DEF less
  <2>5. GoodColumns(left, Windows) /\ TilesIn(left) = (TilesIn(cols) \ Tiles(cols[c])) \cup Tiles(less)
    BY <1>1, <2>3, <2>4, PutColumnGood
  <2> HIDE DEF left, mine, cols, col, rest
  <2>6. /\ GoodStrip(rest, Windows) /\ rest.named = ws.named /\ WindowsOf(rest) = TilesIn(left)
    BY <2>1, <2>5, WithColumns
  <2>7. WindowsOf(rest) = WindowsOf(ws) \ {w}
    BY <1>1, <2>1, <2>3, <2>5, <2>6 DEF mine
  <2> QED BY <1>1, <2>1, <2>2, <2>6, <2>7 DEF col, rest
<1> QED BY <1>2, <1>3

LEMMA DetachedCursor ==
    ASSUME NEW ws, GoodStrip(ws, Windows), NEW c, NEW w
    PROVE  AfterDetach(ws, c, w).active = ws.active
BY DEF AfterDetach, GoodStrip, StripType

\* Only the strip of id differs, and it keeps the cursor it can keep.
OnlyStrip(n, m, id) == \A k \in DOMAIN m.ws : k # id => n.ws[k] = m.ws[k]
CursorAt(n, m, id) == m.ws[id].active \in WindowsOf(m.ws[id]) => n.ws[id].active = m.ws[id].active

\* The cursor of a workspace that lost a window.
SettledStrip(ws, heir) ==
    IF Holds(ws, ws.active) THEN ws
    ELSE IF ws.columns = <<>> THEN [ws EXCEPT !.active = NoWindow] ELSE RememberFocus(ws, heir)

LEMMA SettledStripGood ==
    ASSUME NEW ws, GoodStrip(ws, Windows), NEW heir
    PROVE  LET n == SettledStrip(ws, heir)
           IN  GoodStrip(n, Windows) /\ SamePlaces(n, ws) /\ n.named = ws.named
<1>1. GoodStrip(RememberFocus(ws, heir), Windows) /\ SamePlaces(RememberFocus(ws, heir), ws)
      /\ RememberFocus(ws, heir).named = ws.named
  BY RememberFocusGood
<1>2. SamePlaces(ws, ws)
  BY DEF SamePlaces
<1> DEFINE n == [ws EXCEPT !.active = NoWindow]
<1>3. n.columns = ws.columns /\ n.named = ws.named /\ n \in StripType(Windows)
  BY DEF GoodStrip, StripType
<1> HIDE DEF n
<1>4. GoodStrip(n, Windows) /\ SamePlaces(n, ws)
  BY <1>3 DEF GoodStrip, SamePlaces
<1> QED BY <1>1, <1>2, <1>3, <1>4 DEF SettledStrip, n

LEMMA RepairCursorGood ==
    ASSUME NEW m, NEW P, Stack(m, P), NEW id \in DOMAIN m.ws, NEW near,
           id # m.active => GoodFocus(m)
    PROVE  LET n == RepairCursor(m, id, near)
           IN  /\ InPlace(n, m) /\ GoodFocus(n) /\ n.ring = m.ring
               /\ OnlyStrip(n, m, id) /\ (id # m.active => CursorAt(n, m, id))
<1> DEFINE ws == m.ws[id]
           heir == ActiveWindow(ws.columns[MinOf(near, Len(ws.columns))])
           settled == SettledStrip(ws, heir)
           focus == IF Holds(ws, m.focusWindow) THEN m.focusWindow ELSE RememberedFocus(settled)
           t == RememberFocus(settled, m.focusWindow)
           c == IF focus = NoWindow THEN 0 ELSE FindColumn(ws, focus)
           n == RepairCursor(m, id, near)
<1>1. GoodStrip(ws, Windows) /\ Typed(m)
  BY DEF Stack
<1>2. GoodStrip(settled, Windows) /\ SamePlaces(settled, ws) /\ settled.named = ws.named
  <2> HIDE DEF heir, ws
  <2> QED BY <1>1, SettledStripGood
<1>3. CASE id # m.active
  <2>1. n = WithStrip(m, id, settled)
    BY <1>3 DEF RepairCursor, WithStrip, SettledStrip
  <2> HIDE DEF n, settled
  <2>2. /\ n = Mon(m, At(m.ws, id, settled), m.focusColumn, m.focusWindow, m.ring)
        /\ \A k \in DOMAIN m.ws : k # id => n.ws[k] = m.ws[k]
        /\ n.active = m.active /\ n.ring = m.ring
        /\ n.focusColumn = m.focusColumn /\ n.focusWindow = m.focusWindow
    BY <1>1, <2>1, WithStripIs
  <2>3. InPlace(n, m)
    BY <1>2, <2>2, MonInPlace
  <2>4. GoodFocus(n)
    BY <1>3, <2>2, <2>3, InPlaceFocus DEF SameFocus
  <2>5. n.ws[id] = settled
    BY <1>1, <2>1, WithStripIs
  <2>6. OnlyStrip(n, m, id)
    BY <2>2 DEF OnlyStrip
  <2>7. CursorAt(n, m, id)
    <3>1. ws.active \in WindowsOf(ws) => settled = ws
      BY <1>1, Finding DEF settled, SettledStrip
    <3> QED BY <2>5, <3>1 DEF CursorAt
  <2> QED BY <2>2, <2>3, <2>4, <2>6, <2>7 DEF n
<1>4. CASE id = m.active
  <2>1. n = Mon(m, At(m.ws, id, t), c, focus, m.ring)
    <3>1. IsRec(m)
      BY <1>1, TypedIsRec
    <3>2. /\ n.order = m.order /\ n.ws = At(m.ws, id, t) /\ n.active = m.active
          /\ n.previous = m.previous /\ n.focusColumn = c /\ n.focusWindow = focus
          /\ n.ring = m.ring /\ n.lastActivated = m.lastActivated
      BY <1>4, <3>1 DEF RepairCursor, SettledStrip, At, IsRec, MonNames
    <3>3. IsRec(n)
      BY <1>4, <3>1 DEF RepairCursor, IsRec, MonNames
    <3> HIDE DEF n, t, c, focus
    <3> QED BY <3>2, <3>3, MonEqual
  <2>2. GoodStrip(t, Windows) /\ SamePlaces(t, settled) /\ t.named = settled.named
    BY <1>2, RememberFocusGood
  <2>3. SamePlaces(t, ws)
    BY <1>2, <2>2 DEF SamePlaces
  <2>4. focus = NoWindow \/ focus \in WindowsOf(ws)
    <3>1. RememberedFocus(settled) = NoWindow \/ RememberedFocus(settled) \in WindowsOf(settled)
      BY <1>2, RememberedGood
    <3>2. WindowsOf(settled) = WindowsOf(ws)
      BY <1>1, <1>2, SamePlacesFind
    <3>3. Holds(ws, m.focusWindow) => m.focusWindow \in WindowsOf(ws)
      BY <1>1, Finding
    <3> QED BY <3>1, <3>2, <3>3
  <2>5. /\ WindowsOf(t) = WindowsOf(ws) /\ \A x : FindColumn(t, x) = FindColumn(ws, x)
    BY <1>1, <2>2, <2>3, SamePlacesFind
  <2>6. FindColumn(ws, NoWindow) = 0
    BY <1>1, <1>4, ActiveColumns DEF ActiveStrip
  <2> HIDE DEF t, n, focus, settled
  <2>7. InPlace(n, m)
    BY <1>2, <2>1, <2>2, <2>3, MonInPlace
  <2>8. n.active = m.active /\ n.focusColumn = c /\ n.focusWindow = focus /\ n.ring = m.ring
        /\ n.ws = At(m.ws, id, t)
    BY <2>1, MonFields
  <2>9. ActiveStrip(n) = t
    <3>1. At(m.ws, id, t)[id] = t
      BY <1>1 DEF At, Typed
    <3> QED BY <1>4, <2>8, <3>1 DEF ActiveStrip
  <2>10. GoodFocus(n)
    BY <2>4, <2>5, <2>6, <2>8, <2>9 DEF GoodFocus
  <2>11. OnlyStrip(n, m, id)
    BY <1>1, <2>8 DEF OnlyStrip, At, Typed
  <2> QED BY <1>4, <2>7, <2>8, <2>10, <2>11 DEF n
<1> QED BY <1>3, <1>4

\* The windows that left are out of the ring.
Aged(m, S) == [m EXCEPT !.ring = Dropped(@, S)]

LEMMA AgedGood ==
    ASSUME NEW m, NEW P, Stack(m, P), GoodFocus(m), NEW Q, GoodRing(m, Q), NEW S, Q \ S = P
    PROVE  LET n == Aged(m, S)
           IN  Fit(n, P) /\ SameStack(n, m) /\ n.ws = m.ws
<1> DEFINE ring == Dropped(m.ring, S)
           n == Aged(m, S)
<1>1. n = Mon(m, m.ws, m.focusColumn, m.focusWindow, ring)
  <2>1. IsRec(m)
    BY TypedIsRec DEF Stack
  <2>2. /\ n.order = m.order /\ n.ws = m.ws /\ n.active = m.active
        /\ n.previous = m.previous /\ n.focusColumn = m.focusColumn /\ n.focusWindow = m.focusWindow
        /\ n.ring = ring /\ n.lastActivated = m.lastActivated
    BY <2>1 DEF Aged, IsRec, MonNames
  <2>3. IsRec(n)
    BY <2>1 DEF Aged, IsRec, MonNames
  <2> HIDE DEF n, ring
  <2> QED BY <2>2, <2>3, MonEqual
<1>2. RingIn(ring, P)
  BY RingDroppedGood DEF GoodRing
<1> HIDE DEF n, ring
<1>3. /\ m.focusWindow = NoWindow \/ m.focusWindow \in WindowsOf(ActiveStrip(m))
      /\ m.focusColumn = FindColumn(ActiveStrip(m), m.focusWindow)
  BY DEF GoodFocus
<1>4. InPlace(n, m) /\ Fit(n, P) /\ n.ws = m.ws
  BY <1>1, <1>2, <1>3, FocusSet
<1> QED BY <1>4, InPlaceSameStack DEF n

\* The column that arrives, right of the remembered one.
JoinedStrip(ws, col) ==
    LET anchor == RememberedFocus(ws)
        at     == IF anchor = NoWindow THEN 1 ELSE FindColumn(ws, anchor) + 1
    IN  RememberFocus(InsertColumn(ws, at, col), IF anchor = NoWindow THEN ActiveWindow(col) ELSE anchor)

LEMMA JoinedStripGood ==
    ASSUME NEW ws, GoodStrip(ws, Windows), NEW col, GoodColumn(col, Windows),
           Tiles(col) \cap WindowsOf(ws) = {}
    PROVE  LET n == JoinedStrip(ws, col)
           IN  /\ GoodStrip(n, Windows) /\ n.named = ws.named
               /\ WindowsOf(n) = WindowsOf(ws) \cup Tiles(col)
               /\ ws.active \in WindowsOf(ws) => n.active = ws.active
<1> DEFINE anchor == RememberedFocus(ws)
           at == IF anchor = NoWindow THEN 1 ELSE FindColumn(ws, anchor) + 1
           x == IF anchor = NoWindow THEN ActiveWindow(col) ELSE anchor
           s == InsertColumn(ws, at, col)
           n == JoinedStrip(ws, col)
<1>1. n = RememberFocus(s, x)
  BY DEF JoinedStrip
<1>2. at \in 1 .. Len(ws.columns) + 1
  <2>1. anchor = NoWindow \/ anchor \in WindowsOf(ws)
    BY RememberedGood
  <2>2. FindColumn(ws, anchor) \in 0 .. Len(ws.columns) /\ Len(ws.columns) \in Nat
    BY Finding, StripFields
  <2> HIDE DEF anchor
  <2> QED BY <2>1, <2>2
<1>6. ws.active \in WindowsOf(ws) => x = ws.active
  <2>1. WindowsOf(ws) \subseteq Windows /\ (Holds(ws, ws.active) <=> ws.active \in WindowsOf(ws))
    BY Finding, StripFields
  <2> QED BY <2>1, MonitorAssumption DEF RememberedFocus
<1> HIDE DEF at, x, n
<1>3. /\ GoodStrip(s, Windows) /\ WindowsOf(s) = WindowsOf(ws) \cup Tiles(col) /\ s.named = ws.named
  BY <1>2, InsertColumnInStrip
<1> HIDE DEF s
<1>4. GoodStrip(n, Windows) /\ SamePlaces(n, s) /\ n.named = s.named
  BY <1>1, <1>3, RememberFocusGood
<1>5. WindowsOf(n) = WindowsOf(s)
  BY <1>3, <1>4, SamePlacesFind
<1>7. ws.active \in WindowsOf(ws) => n.active = ws.active
  BY <1>1, <1>3, <1>6, RememberFocusGood
<1> QED BY <1>3, <1>4, <1>5, <1>7 DEF n

LEMMA InsertTransferredGood ==
    ASSUME NEW m, NEW P, Fit(m, P), NEW id \in DOMAIN m.ws, NEW col, GoodColumn(col, Windows),
           Tiles(col) \cap P = {}
    PROVE  LET n == InsertTransferred(m, id, col)
           IN  /\ Fit(n, P \cup Tiles(col)) /\ SameStack(n, m)
               /\ OnlyStrip(n, m, id) /\ CursorAt(n, m, id)
<1> DEFINE ws == m.ws[id]
           joined == JoinedStrip(ws, col)
           w == m.focusWindow
           c == IF id = m.active /\ Holds(joined, w) THEN FindColumn(joined, w) ELSE m.focusColumn
           n == InsertTransferred(m, id, col)
           Q == P \cup Tiles(col)
<1>1. /\ Stack(m, P) /\ GoodRing(m, P) /\ GoodFocus(m) /\ Typed(m) /\ GoodStrip(ws, Windows)
      /\ WindowsOf(ws) \subseteq P
  BY DEF Fit, Stack
<1>2. n = Mon(m, At(m.ws, id, joined), c, w, m.ring)
  <2>1. IsRec(m)
    BY <1>1, TypedIsRec
  <2>2. /\ n.order = m.order /\ n.ws = At(m.ws, id, joined) /\ n.active = m.active
        /\ n.previous = m.previous /\ n.focusColumn = c /\ n.focusWindow = w
        /\ n.ring = m.ring /\ n.lastActivated = m.lastActivated
    BY <2>1 DEF InsertTransferred, JoinedStrip, At, IsRec, MonNames
  <2>3. IsRec(n)
    BY <2>1 DEF InsertTransferred, IsRec, MonNames
  <2> HIDE DEF n, joined, c
  <2> QED BY <2>2, <2>3, MonEqual
<1>3. /\ GoodStrip(joined, Windows) /\ joined.named = ws.named
      /\ WindowsOf(joined) = WindowsOf(ws) \cup Tiles(col)
      /\ ws.active \in WindowsOf(ws) => joined.active = ws.active
  <2>1. Tiles(col) \cap WindowsOf(ws) = {}
    BY <1>1
  <2> HIDE DEF ws
  <2> QED BY <1>1, <2>1, JoinedStripGood
<1> HIDE DEF n, joined, c, w
<1>4. /\ n.order = m.order /\ n.ws = At(m.ws, id, joined) /\ n.active = m.active
      /\ n.focusColumn = c /\ n.focusWindow = w /\ n.ring = m.ring
  BY <1>2, MonFields
<1>5. /\ DOMAIN n.ws = DOMAIN m.ws /\ n.ws[id] = joined
      /\ \A k \in DOMAIN m.ws : k # id => n.ws[k] = m.ws[k]
  BY <1>1, <1>4 DEF At, Typed
<1>6. SameStack(n, m)
  BY <1>3, <1>4, <1>5 DEF SameStack
<1>7. Stack(n, Q)
  <2>1. /\ {} \subseteq WindowsOf(m.ws[id]) /\ Tiles(col) \cap (P \ {}) = {}
        /\ WindowsOf(joined) = (WindowsOf(m.ws[id]) \ {}) \cup Tiles(col)
    BY <1>3
  <2>2. Stack(n, (P \ {}) \cup Tiles(col))
    BY <1>1, <1>2, <1>3, <2>1, MonChanged
  <2>3. (P \ {}) \cup Tiles(col) = Q
    OBVIOUS
  <2> QED BY <2>2, <2>3
<1>8. GoodRing(n, Q)
  <2>1. P \subseteq Q /\ RingIn(m.ring, P)
    BY <1>1 DEF GoodRing
  <2> QED BY <1>4, <2>1, RingMonotone DEF GoodRing
<1>9. GoodFocus(n)
  <2>1. /\ w = NoWindow \/ w \in WindowsOf(ActiveStrip(m))
        /\ m.focusColumn = FindColumn(ActiveStrip(m), w)
    BY <1>1 DEF GoodFocus, w
  <2>2. CASE id # m.active
    <3>1. ActiveStrip(n) = ActiveStrip(m) /\ c = m.focusColumn
      BY <1>1, <1>4, <1>5, <2>2 DEF ActiveStrip, Typed, c
    <3> QED BY <1>4, <2>1, <3>1 DEF GoodFocus
  <2>3. CASE id = m.active
    <3>1. ActiveStrip(n) = joined /\ ActiveStrip(m) = ws
      BY <1>4, <1>5, <2>3 DEF ActiveStrip
    <3>2. Holds(joined, w) <=> w \in WindowsOf(joined)
      BY <1>3, Finding
    <3>3. CASE w = NoWindow
      <4>1. NoWindow \notin WindowsOf(joined) /\ NoWindow \notin WindowsOf(ws)
        <5>1. WindowsOf(joined) \subseteq Windows /\ WindowsOf(ws) \subseteq Windows
          BY <1>1, <1>3, StripFields
        <5> QED BY <5>1, MonitorAssumption
      <4>2. FindColumn(joined, NoWindow) = 0 /\ FindColumn(ws, NoWindow) = 0
        BY <1>1, <1>3, <4>1, Finding
      <4>3. c = 0
        BY <2>1, <3>1, <3>2, <3>3, <4>1, <4>2 DEF c
      <4> QED BY <1>4, <3>1, <3>3, <4>2, <4>3 DEF GoodFocus
    <3>4. CASE w \in WindowsOf(ws)
      <4>1. w \in WindowsOf(joined) /\ c = FindColumn(joined, w)
        BY <1>3, <2>3, <3>2, <3>4 DEF c
      <4> QED BY <1>4, <3>1, <4>1 DEF GoodFocus
    <3> QED BY <2>1, <3>1, <3>3, <3>4
  <2> QED BY <2>2, <2>3
<1>10. OnlyStrip(n, m, id) /\ CursorAt(n, m, id)
  BY <1>3, <1>5 DEF OnlyStrip, CursorAt
<1> QED BY <1>6, <1>7, <1>8, <1>9, <1>10 DEF Fit, n

LEMMA TransferGood ==
    ASSUME NEW m, NEW min, NEW P, Steady(m, min, P), Housed(Homes(min), P),
           NEW from \in DOMAIN m.ws, NEW to \in DOMAIN m.ws, from # to,
           NEW c \in 1 .. Len(m.ws[from].columns),
           NEW w, w = NoWindow \/ w \in Tiles(m.ws[from].columns[c]),
           NEW focus, focus = NoWindow \/ focus \in P
    PROVE  LET n == Transfer(m, min, from, c, w, to, focus)
           IN  AtRest(n, min, P) /\ CursorsKept(n, m)
<1> DEFINE s == m.ws[from]
           col == DetachedColumn(s, c, w)
           rest == AfterDetach(s, c, w)
           T == Tiles(col)
           cut == WithStrip(m, from, rest)
           out == RepairCursor(cut, from, c)
           aged == Aged(out, T)
           joined == InsertTransferred(aged, to, col)
           b == Maintain(joined, min)
           f == FocusArrival(b, min, focus)
           n == Layout(f)
<1>1. Transfer(m, min, from, c, w, to, focus) = n
  BY DEF Transfer, WithStrip, Aged, Tiles
<1> HIDE DEF n
<1>2. /\ Stack(m, P) /\ GoodRing(m, P) /\ GoodFocus(m) /\ Roomy(m, Homes(min)) /\ Typed(m)
      /\ GoodStrip(s, Windows) /\ WindowsOf(s) \subseteq P
  BY DEF Steady, Fit, Stack
<1>3. /\ GoodColumn(col, Windows) /\ T \subseteq WindowsOf(s)
      /\ GoodStrip(rest, Windows) /\ rest.named = s.named
      /\ WindowsOf(rest) = WindowsOf(s) \ T /\ rest.active = s.active
  BY <1>2, DetachGood, DetachedCursor
<1> HIDE DEF col, rest
<1>4. Stack(cut, P \ T) /\ SameStack(cut, m)
  <2>1. /\ T \subseteq WindowsOf(m.ws[from]) /\ {} \cap (P \ T) = {}
        /\ WindowsOf(rest) = (WindowsOf(m.ws[from]) \ T) \cup {}
    BY <1>3
  <2> HIDE DEF T
  <2>2. Stack(cut, (P \ T) \cup {}) /\ SameStack(cut, m)
    BY <1>2, <1>3, <2>1, WithStripChanged
  <2>3. (P \ T) \cup {} = P \ T
    OBVIOUS
  <2> QED BY <2>2, <2>3
<1>5. /\ cut.ring = m.ring /\ cut.active = m.active
      /\ cut.focusColumn = m.focusColumn /\ cut.focusWindow = m.focusWindow
      /\ cut.ws[from] = rest /\ \A k \in DOMAIN m.ws : k # from => cut.ws[k] = m.ws[k]
  BY <1>2, WithStripIs
<1> HIDE DEF cut, T
<1>6. /\ InPlace(out, cut) /\ GoodFocus(out) /\ out.ring = m.ring
      /\ OnlyStrip(out, cut, from) /\ (from # cut.active => CursorAt(out, cut, from))
  <2>1. from # cut.active => GoodFocus(cut)
    BY <1>2, <1>5 DEF GoodFocus, ActiveStrip, Typed
  <2>2. from \in DOMAIN cut.ws
    BY <1>4 DEF SameStack
  <2> QED BY <1>4, <1>5, <2>1, <2>2, RepairCursorGood
<1> HIDE DEF out
<1>7. Fit(aged, P \ T) /\ SameStack(aged, out) /\ aged.ws = out.ws
  <2>1. Stack(out, P \ T)
    BY <1>4, <1>6, InPlaceStack
  <2>2. GoodRing(out, P)
    BY <1>2, <1>6 DEF GoodRing
  <2> QED BY <1>6, <2>1, <2>2, AgedGood
<1> HIDE DEF aged
<1>8. SameStack(aged, m)
  BY <1>4, <1>6, <1>7, InPlaceSameStack, SameStackTrans
<1>9. /\ Fit(joined, P) /\ SameStack(joined, m)
      /\ OnlyStrip(joined, aged, to) /\ CursorAt(joined, aged, to)
  <2>1. to \in DOMAIN aged.ws
    BY <1>8 DEF SameStack
  <2>2. Tiles(col) \cap (P \ T) = {}
    BY DEF T
  <2>3. /\ Fit(joined, (P \ T) \cup Tiles(col)) /\ SameStack(joined, aged)
        /\ OnlyStrip(joined, aged, to) /\ CursorAt(joined, aged, to)
    BY <1>3, <1>7, <2>1, <2>2, InsertTransferredGood
  <2>4. (P \ T) \cup Tiles(col) = P
    BY <1>2, <1>3 DEF T
  <2> QED BY <1>8, <2>3, <2>4, SameStackTrans
<1> HIDE DEF joined
<1>10. Roomy(joined, Homes(min))
  BY <1>2, <1>9, SameStackRoomy
<1>11. Steady(b, min, P) /\ SameCursors(b, joined, {})
  BY <1>9, <1>10, MaintainSteady
<1> HIDE DEF b
<1>12. Steady(f, min, P) /\ SameCursors(f, b, {f.active})
  <2>1. CASE focus = NoWindow
    <3>1. f = b
      BY <2>1 DEF FocusArrival
    <3> HIDE DEF f
    <3> QED BY <1>11, <3>1, SameStrips
  <2>2. CASE focus # NoWindow
    <3> DEFINE g == FocusTile(b, min, focus)
    <3>1. AtRest(g, min, P) /\ SameCursors(g, b, {g.active})
      BY <1>11, <2>2, FocusTileGood
    <3>2. f = g
      BY <2>2 DEF FocusArrival
    <3> HIDE DEF f, g
    <3> QED BY <3>1, <3>2 DEF AtRest
  <2> QED BY <2>1, <2>2
<1> HIDE DEF f
<1>13. AtRest(n, min, P) /\ InPlace(n, f) /\ SameCursors(n, f, {f.active})
  BY <1>12, LayoutSteady DEF n
<1>14. KeptCursors(joined, m, {m.active})
  <2>1. /\ DOMAIN cut.ws = DOMAIN m.ws /\ DOMAIN out.ws = DOMAIN m.ws
        /\ DOMAIN aged.ws = DOMAIN m.ws /\ DOMAIN joined.ws = DOMAIN m.ws
    BY <1>4, <1>6, <1>8, <1>9 DEF SameStack, InPlace
  <2>2. ASSUME NEW k \in DOMAIN m.ws, k # m.active,
               m.ws[k].active \in WindowsOf(m.ws[k]), m.ws[k].active \in WindowsOf(joined.ws[k])
        PROVE  joined.ws[k].active = m.ws[k].active
    <3>1. CASE k = from
      <4>1. joined.ws[k] = out.ws[k]
        BY <1>7, <1>9, <2>1, <3>1 DEF OnlyStrip
      <4>2. WindowsOf(out.ws[k]) = WindowsOf(cut.ws[k])
        BY <1>4, <1>6, <2>1, InPlaceWindows
      <4>3. cut.ws[k].active = m.ws[k].active
        BY <1>3, <1>5, <3>1
      <4>4. CursorAt(out, cut, k)
        BY <1>5, <1>6, <2>2, <3>1
      <4> QED BY <2>2, <4>1, <4>2, <4>3, <4>4 DEF CursorAt
    <3>2. CASE k # from
      <4>1. aged.ws[k] = m.ws[k]
        BY <1>5, <1>6, <1>7, <2>1, <3>2 DEF OnlyStrip
      <4>2. CASE k = to
        BY <1>9, <2>2, <4>1, <4>2 DEF CursorAt
      <4>3. CASE k # to
        BY <1>9, <2>1, <4>1, <4>3 DEF OnlyStrip
      <4> QED BY <4>2, <4>3
    <3> QED BY <3>1, <3>2
  <2> QED BY <2>2 DEF KeptCursors
<1>15. CursorsKept(n, m)
  <2>1. SameCursors(f, joined, {f.active})
    BY <1>11, <1>12, SameCursorsTrans
  <2>2. SameCursors(n, joined, {f.active})
    BY <1>13, <2>1, SameCursorsTrans
  <2>3. n.active = f.active
    BY <1>13 DEF InPlace
  <2> QED BY <1>14, <2>2, <2>3, LaterKept
<1> QED BY <1>1, <1>13, <1>15

LEMMA MoveWindowToWorkspaceKeeps ==
    ASSUME IInv, NEW w \in Windows, NEW to \in DOMAIN mon.ws, NEW follow \in BOOLEAN,
           MoveWindowToWorkspace(w, to, follow)
    PROVE  InvKept
<1>1. PICK from \in WorkspaceOf(mon, w) \ {to} :
         mon' = Transfer(mon, minimized, from, FindColumn(mon.ws[from], w), w, to,
                         IF follow /\ from = mon.active /\ w = Focused THEN w ELSE NoWindow)
  BY DEF MoveWindowToWorkspace
<1>2. w \in Focusable /\ UNCHANGED <<minimized, managed>>
  BY DEF MoveWindowToWorkspace
<1> DEFINE c == FindColumn(mon.ws[from], w)
           focus == IF follow /\ from = mon.active /\ w = Focused THEN w ELSE NoWindow
<1>3. from \in DOMAIN mon.ws /\ from # to /\ Holds(mon.ws[from], w) /\ GoodStrip(mon.ws[from], Windows)
  BY InvFacts DEF WorkspaceOf, Stack
<1>4. c \in 1 .. Len(mon.ws[from].columns) /\ w \in Tiles(mon.ws[from].columns[c])
  BY <1>3, Finding
<1>5. focus = NoWindow \/ focus \in Focusable
  BY <1>2
<1>6. mon' = Transfer(mon, minimized, from, c, w, to, focus)
  BY <1>1
<1> HIDE DEF c, focus
<1>7. AtRest(mon', minimized, Focusable) /\ CursorsKept(mon', mon)
  BY <1>3, <1>4, <1>5, <1>6, InvFacts, TransferGood
<1> QED BY <1>2, <1>7, SameWindows

LEMMA MoveColumnToWorkspaceKeeps ==
    ASSUME IInv, NEW to \in DOMAIN mon.ws, NEW follow \in BOOLEAN, MoveColumnToWorkspace(to, follow)
    PROVE  InvKept
<1> DEFINE s == ActiveStrip(mon)
           c == ActiveColumn
           focus == IF follow THEN ActiveWindow(s.columns[c]) ELSE NoWindow
<1>1. /\ c # 0 /\ to # mon.active /\ UNCHANGED <<minimized, managed>>
      /\ mon' = Transfer(mon, minimized, mon.active, c, NoWindow, to, focus)
  BY DEF MoveColumnToWorkspace
<1>2. /\ GoodStrip(s, Windows) /\ s = mon.ws[mon.active] /\ WindowsOf(s) \subseteq Focusable
      /\ mon.active \in DOMAIN mon.ws
  BY FocusedFacts, InvFacts
<1>3. c \in 1 .. Len(s.columns)
  <2>1. c = IF Holds(s, Focused) THEN FindColumn(s, Focused) ELSE mon.focusColumn
    BY DEF ActiveColumn
  <2>2. mon.focusColumn = FindColumn(s, Focused) /\ mon.focusColumn \in 0 .. Len(s.columns)
        /\ (mon.focusColumn # 0 => mon.focusColumn \in 1 .. Len(s.columns))
    BY FocusedFacts
  <2> HIDE DEF s, c
  <2> QED BY <1>1, <2>1, <2>2
<1>4. focus = NoWindow \/ focus \in Focusable
  <2> HIDE DEF s, c
  <2>1. GoodColumn(s.columns[c], Windows)
    BY <1>2, <1>3, StripFields
  <2>2. ActiveWindow(s.columns[c]) \in Tiles(s.columns[c])
    BY <2>1, ActiveGood
  <2>3. ActiveWindow(s.columns[c]) \in WindowsOf(s)
    BY <1>2, <1>3, <2>2, Finding
  <2> QED BY <1>2, <2>3
<1> HIDE DEF focus, c, s
<1>5. c \in 1 .. Len(mon.ws[mon.active].columns)
  BY <1>2, <1>3
<1>6. AtRest(mon', minimized, Focusable) /\ CursorsKept(mon', mon)
  BY <1>1, <1>2, <1>4, <1>5, InvFacts, TransferGood
<1> QED BY <1>1, <1>6, SameWindows

----------------------------------------------------------------------------
(* Workspaces that change place, or name. *)

Reordered(m, o) == [m EXCEPT !.order = o]

LEMMA ReorderedGood ==
    ASSUME NEW m, NEW P, Fit(m, P), NEW o \in Seq(Keys), IsInjective(o), ToSet(o) = ToSet(m.order)
    PROVE  LET n == Reordered(m, o)
           IN  /\ Fit(n, P) /\ \A occupied : Roomy(m, occupied) => Roomy(n, occupied)
               /\ n.ws = m.ws /\ n.active = m.active
<1> DEFINE n == Reordered(m, o)
<1>1. Stack(m, P) /\ Typed(m) /\ IsRec(m) /\ GoodFocus(m) /\ GoodRing(m, P)
  BY TypedIsRec DEF Fit, Stack
<1>2. /\ n.order = o /\ n.ws = m.ws /\ n.active = m.active /\ n.previous = m.previous
      /\ n.focusColumn = m.focusColumn /\ n.focusWindow = m.focusWindow /\ n.ring = m.ring
      /\ n.lastActivated = m.lastActivated
  BY <1>1 DEF Reordered, IsRec, MonNames
<1>3. IsRec(n)
  BY <1>1 DEF Reordered, IsRec, MonNames
<1> HIDE DEF n
<1>4. Typed(n)
  <2>1. n = [order |-> n.order, ws |-> n.ws, active |-> n.active, previous |-> n.previous,
             focusColumn |-> n.focusColumn, focusWindow |-> n.focusWindow, ring |-> n.ring,
             lastActivated |-> n.lastActivated]
    BY <1>3, RecIsLiteral
  <2> QED BY <1>1, <1>2, <2>1 DEF Typed
<1>5. Stack(n, P)
  BY <1>1, <1>2, <1>4 DEF Stack
<1>6. GoodFocus(n) /\ GoodRing(n, P)
  BY <1>1, <1>2 DEF GoodFocus, GoodRing, ActiveStrip
<1>7. ASSUME NEW occupied, Roomy(m, occupied) PROVE Roomy(n, occupied)
  BY <1>2, <1>7 DEF Roomy, NamedIn
<1> QED BY <1>2, <1>5, <1>6, <1>7 DEF Fit, n

LEMMA MoveWorkspaceToIndexKeeps ==
    ASSUME IInv, NEW id \in DOMAIN mon.ws, NEW index \in 1 .. Len(mon.order),
           MoveWorkspaceToIndex(id, index)
    PROVE  InvKept
<1> DEFINE last == Last(mon.order)
           bottom == last # id /\ ~HasContent(mon, Homes(minimized), last)
           at == MinOf(index, IF bottom THEN Len(mon.order) - 1 ELSE Len(mon.order))
           o == MoveInOrder(mon.order, id, at)
           n == Reordered(mon, o)
<1>1. mon' = Layout(Maintain(n, minimized)) /\ UNCHANGED <<minimized, managed>>
  BY DEF MoveWorkspaceToIndex, Reordered
<1>2. /\ Fit(mon, Focusable) /\ Roomy(mon, Homes(minimized))
      /\ mon.order \in Seq(Keys) /\ IsInjective(mon.order) /\ ToSet(mon.order) = DOMAIN mon.ws
      /\ Housed(Homes(minimized), Focusable)
  BY InvFacts DEF Steady, Fit, Stack, Typed
<1>3. last = mon.order[Len(mon.order)] /\ Len(mon.order) \in Nat \ {0}
  BY InvFacts, Ends
<1>4. at \in 1 .. Len(mon.order)
  <2>1. PICK i \in 1 .. Len(mon.order) : mon.order[i] = id
    BY <1>2, ToSetOf
  <2>2. bottom => Len(mon.order) # 1
    BY <1>3, <2>1
  <2> DEFINE l == Len(mon.order)
             h == IF bottom THEN l - 1 ELSE l
  <2>3. index \in 1 .. l /\ l \in Nat \ {0} /\ (bottom => l # 1) /\ at = MinOf(index, h)
    BY <1>3, <2>2
  <2> HIDE DEF bottom, at, l
  <2>4. h \in 1 .. l
    BY <2>3
  <2> HIDE DEF h
  <2>5. at \in 1 .. l
    BY <2>3, <2>4 DEF MinOf
  <2> QED BY <2>5 DEF l
<1> HIDE DEF at, bottom, last
<1>5. o \in Seq(Keys) /\ IsInjective(o) /\ ToSet(o) = ToSet(mon.order)
  <2>1. id \in ToSet(mon.order)
    BY <1>2
  <2> QED BY <1>2, <1>4, <2>1, MovedProperties DEF MoveInOrder
<1> HIDE DEF o
<1>6. Fit(n, Focusable) /\ Roomy(n, Homes(minimized)) /\ n.ws = mon.ws /\ n.active = mon.active
  BY <1>2, <1>5, ReorderedGood
<1> HIDE DEF n
<1>7. AtRest(mon', minimized, Focusable) /\ SameCursors(mon', n, {n.active})
  BY <1>1, <1>2, <1>6, MaintainLayoutGood
<1>8. SameCursors(mon', mon, {mon.active})
  BY <1>6, <1>7 DEF SameCursors
<1>9. CursorsKept(mon', mon)
  BY <1>8, StillKept
<1> QED BY <1>1, <1>7, <1>9, SameWindows

\* A workspace gets a name or loses it.
Renamed(m, id, named) == WithStrip(m, id, [m.ws[id] EXCEPT !.named = named])

LEMMA RenamedGood ==
    ASSUME NEW m, NEW P, Fit(m, P), Shown(m), NEW id \in DOMAIN m.ws, NEW named \in BOOLEAN
    PROVE  LET n == Renamed(m, id, named)
           IN  /\ Fit(n, P) /\ Shown(n) /\ DOMAIN n.ws = DOMAIN m.ws
               /\ NamedIn(n) = IF named THEN NamedIn(m) \cup {id} ELSE NamedIn(m) \ {id}
               /\ SameCursors(n, m, {})
<1> DEFINE s == m.ws[id]
           t == [s EXCEPT !.named = named]
           n == Renamed(m, id, named)
<1>1. /\ Stack(m, P) /\ Typed(m) /\ GoodFocus(m) /\ GoodRing(m, P) /\ GoodStrip(s, Windows)
      /\ m.active \in DOMAIN m.ws
  BY DEF Fit, Stack, Typed
<1>2. t.columns = s.columns /\ t.named = named /\ t.active = s.active /\ GoodStrip(t, Windows)
  BY <1>1 DEF GoodStrip, StripType
<1>3. n = WithStrip(m, id, t)
  BY DEF Renamed
<1> HIDE DEF t, n
<1>4. /\ n = Mon(m, At(m.ws, id, t), m.focusColumn, m.focusWindow, m.ring)
      /\ DOMAIN n.ws = DOMAIN m.ws /\ n.ws[id] = t
      /\ \A k \in DOMAIN m.ws : k # id => n.ws[k] = m.ws[k]
      /\ n.active = m.active /\ n.ring = m.ring
      /\ n.focusColumn = m.focusColumn /\ n.focusWindow = m.focusWindow
  BY <1>1, <1>3, WithStripIs
<1>5. WindowsOf(t) = WindowsOf(s)
  BY <1>2 DEF WindowsOf
<1>6. Stack(n, P)
  <2>1. /\ {} \subseteq WindowsOf(m.ws[id]) /\ {} \cap (P \ {}) = {}
        /\ WindowsOf(t) = (WindowsOf(m.ws[id]) \ {}) \cup {}
    BY <1>5
  <2>2. Stack(n, (P \ {}) \cup {})
    BY <1>1, <1>2, <1>4, <2>1, MonChanged
  <2>3. (P \ {}) \cup {} = P
    OBVIOUS
  <2> QED BY <2>2, <2>3
<1>7. ActiveStrip(n).columns = ActiveStrip(m).columns
  BY <1>1, <1>2, <1>4 DEF ActiveStrip
<1>8. /\ WindowsOf(ActiveStrip(n)) = WindowsOf(ActiveStrip(m))
      /\ \A w : FindColumn(ActiveStrip(n), w) = FindColumn(ActiveStrip(m), w)
  BY <1>7 DEF WindowsOf, FindColumn
<1>9. GoodFocus(n) /\ Shown(n) /\ GoodRing(n, P)
  <2>1. GoodFocus(n)
    BY <1>1, <1>4, <1>8 DEF GoodFocus
  <2>2. Shown(n)
    BY <1>4, <1>7, <1>8 DEF Shown
  <2>3. GoodRing(n, P)
    BY <1>1, <1>4 DEF GoodRing
  <2> QED BY <2>1, <2>2, <2>3
<1>10. NamedIn(n) = IF named THEN NamedIn(m) \cup {id} ELSE NamedIn(m) \ {id}
  BY <1>2, <1>4 DEF NamedIn
<1>11. SameCursors(n, m, {})
  BY <1>2, <1>4, <1>5 DEF SameCursors
<1> QED BY <1>4, <1>6, <1>9, <1>10, <1>11 DEF Fit, n

LEMMA NameWorkspaceKeeps ==
    ASSUME IInv, NEW id \in DOMAIN mon.ws, NEW named \in BOOLEAN, NameWorkspace(id, named)
    PROVE  InvKept
<1> DEFINE n == Renamed(mon, id, named)
           b == Maintain(n, minimized)
           N == NamedIn(mon)
<1>1. /\ named => Cardinality(N) < MaxNamed
      /\ mon' = b /\ UNCHANGED <<minimized, managed>>
  BY DEF NameWorkspace, Renamed, WithStrip, NamedIn
<1>2. /\ Fit(mon, Focusable) /\ Shown(mon) /\ Roomy(mon, Homes(minimized))
      /\ Housed(Homes(minimized), Focusable)
  BY InvFacts DEF Steady
<1>3. /\ Fit(n, Focusable) /\ Shown(n) /\ DOMAIN n.ws = DOMAIN mon.ws
      /\ NamedIn(n) = IF named THEN N \cup {id} ELSE N \ {id}
      /\ SameCursors(n, mon, {})
  BY <1>2, RenamedGood
<1>4. IsFiniteSet(N)
  <2>1. IsFiniteSet(DOMAIN mon.ws)
    BY <1>2, ContentBound DEF Fit, Roomy
  <2>2. N \subseteq DOMAIN mon.ws
    BY DEF NamedIn
  <2> HIDE DEF N
  <2> QED BY <2>1, <2>2, FS_Subset
<1> HIDE DEF n, N
<1>5. Cardinality(NamedIn(n)) <= MaxNamed
  <2>1. Cardinality(N) <= MaxNamed /\ Cardinality(N) \in Nat /\ MaxNamed \in Nat
    BY <1>2, <1>4, FS_CardinalityType, MonitorAssumption DEF Roomy, N
  <2>2. Cardinality(N \cup {id}) \in {Cardinality(N), Cardinality(N) + 1}
    BY <1>4, FS_AddElement
  <2>3. Cardinality(N \ {id}) \in {Cardinality(N), Cardinality(N) - 1}
    BY <1>4, FS_RemoveElement
  <2> DEFINE x == Cardinality(N \cup {id})
             y == Cardinality(N \ {id})
             z == Cardinality(N)
  <2>4. Cardinality(NamedIn(n)) = IF named THEN x ELSE y
    BY <1>3
  <2>5. /\ x \in {z, z + 1} /\ y \in {z, z - 1} /\ (named => z < MaxNamed)
        /\ z <= MaxNamed /\ z \in Nat /\ MaxNamed \in Nat
    BY <1>1, <2>1, <2>2, <2>3
  <2> HIDE DEF x, y, z
  <2> QED BY <2>4, <2>5
<1>6. Roomy(n, Homes(minimized))
  BY <1>2, <1>3, <1>5 DEF Roomy
<1>7. /\ Steady(b, minimized, Focusable) /\ Pruned(b, n, Homes(minimized))
      /\ SameCursors(b, n, {})
  BY <1>2, <1>3, <1>6, MaintainSteady
<1> HIDE DEF b
<1>8. Shown(b)
  <2>1. ActiveStrip(b) = ActiveStrip(n) /\ b.focusWindow = n.focusWindow
    BY <1>3, <1>7 DEF Pruned, SameFocus, ActiveStrip, Fit, Stack, Typed
  <2> QED BY <1>3, <2>1 DEF Shown
<1>9. AtRest(mon', minimized, Focusable)
  BY <1>1, <1>7, <1>8 DEF AtRest
<1>10. CursorsKept(mon', mon)
  <2>1. SameCursors(b, mon, {})
    BY <1>3, <1>7, SameCursorsTrans
  <2> QED BY <1>1, <2>1, StillKept
<1> QED BY <1>1, <1>9, <1>10, SameWindows

----------------------------------------------------------------------------
(* The invariant holds. *)

\* One workspace, empty and unnamed, and no window.
LEMMA InitInv ==
    ASSUME Init
    PROVE  IInv
<1>1. /\ mon.order = <<0>> /\ mon.ws = [k \in {0} |-> EmptyWorkspace] /\ mon.active = 0
      /\ mon.previous = NoWorkspace /\ mon.focusColumn = 0 /\ mon.focusWindow = NoWindow
      /\ mon.ring = <<>> /\ mon.lastActivated = NoWindow
      /\ minimized = <<>> /\ managed = {} /\ config \in Configs
  BY DEF Init
<1>2. /\ MaxKey \in Nat /\ MaxNamed \in Nat /\ 1 <= MaxKey /\ 0 \in Keys
  <2>1. Cardinality(Windows) \in Nat
    BY MonitorAssumption, FS_CardinalityType
  <2> QED BY <2>1, MonitorAssumption DEF Keys
<1>3. DOMAIN minimized = {} /\ Homes(minimized) = {} /\ Records(minimized) /\ Focusable = {}
  <2>1. DOMAIN minimized = {}
    BY <1>1
  <2> QED BY <1>1, <2>1 DEF Homes, Records, Focusable
<1>4. GoodStrip(EmptyWorkspace, Windows) /\ WindowsOf(EmptyWorkspace) = {} /\ EmptyWorkspace.named = FALSE
  BY EmptyGood
<1>5. mon.order \in Seq(Keys) /\ Len(mon.order) = 1 /\ IsInjective(mon.order) /\ ToSet(mon.order) = {0}
      /\ mon.order[1] = 0 /\ Last(mon.order) = 0
  BY <1>1, <1>2, SingleTile DEF Last
<1>6. DOMAIN mon.ws = {0} /\ mon.ws[0] = EmptyWorkspace /\ mon.ws = [k \in DOMAIN mon.ws |-> mon.ws[k]]
  BY <1>1
<1>7. Typed(mon)
  <2>1. mon = [order |-> mon.order, ws |-> mon.ws, active |-> mon.active, previous |-> mon.previous,
               focusColumn |-> mon.focusColumn, focusWindow |-> mon.focusWindow, ring |-> mon.ring,
               lastActivated |-> mon.lastActivated]
    BY DEF Init
  <2> QED BY <1>1, <1>2, <1>5, <1>6, <2>1 DEF Typed
<1>8. Stack(mon, {})
  BY <1>4, <1>5, <1>6, <1>7 DEF Stack
<1>9. GoodRing(mon, {})
  <2> DEFINE e == <<>>
  <2>1. e \in Seq(Windows) /\ Len(e) = 0 /\ RingCapacity \in Nat
    BY MonitorAssumption
  <2> HIDE DEF e
  <2>3. 1 .. Len(e) = {}
    BY <2>1
  <2>4. /\ IsInjective(e) <=> \A i, j \in 1 .. Len(e) : e[i] = e[j] => i = j
        /\ \A x : x \in ToSet(e) <=> \E i \in 1 .. Len(e) : e[i] = x
    BY <2>1, ToSetOf
  <2>2. IsInjective(e) /\ ToSet(e) = {}
    BY <2>3, <2>4
  <2> QED BY <1>1, <2>1, <2>2 DEF GoodRing, RingIn, e
<1>10. ActiveStrip(mon) = EmptyWorkspace
  BY <1>1, <1>6 DEF ActiveStrip
<1>11. GoodFocus(mon) /\ Shown(mon)
  <2>1. FindColumn(ActiveStrip(mon), NoWindow) = 0
    BY <1>8, ActiveColumns
  <2> QED BY <1>1, <2>1 DEF GoodFocus, Shown
<1>12. Roomy(mon, {})
  <2>1. NamedIn(mon) = {}
    BY <1>4, <1>6 DEF NamedIn
  <2>2. Cardinality(NamedIn(mon)) = 0 /\ Cardinality(DOMAIN mon.ws) = 1
    BY <1>6, <2>1, FS_EmptySet, FS_Singleton
  <2> QED BY <1>2, <2>2 DEF Roomy
<1>13. Settled(mon, {}, config.aboveFirst)
  BY <1>4, <1>5, <1>6 DEF Settled, HasContent
<1>14. AtRest(mon, minimized, Focusable)
  BY <1>3, <1>8, <1>9, <1>11, <1>12, <1>13 DEF AtRest, Steady, Fit
<1> QED BY <1>1, <1>3, <1>14 DEF IInv

LEMMA NextKept ==
    ASSUME IInv, Next
    PROVE  InvKept
<1>1. InvKept
  <2>1. CASE WindowLifecycle
    BY <2>1, OpenWindowKeeps, OpenOnWorkspaceKeeps, CloseWindowKeeps DEF WindowLifecycle
  <2>2. CASE Minimizing
    BY <2>2, MinimizeWindowKeeps, RestoreWindowKeeps DEF Minimizing
  <2>3. CASE Focusing
    BY <2>3, FocusWindowKeeps, ForegroundNoticeKeeps, FocusStepKeeps, FocusWorkspaceKeeps DEF Focusing
  <2>4. CASE ColumnOps
    BY <2>4, ConsumeOrExpelWindowKeeps, ConsumeWindowIntoColumnKeeps, ExpelWindowFromColumnKeeps,
       MoveWindowInColumnKeeps, SwapWindowKeeps, MoveColumnKeeps DEF ColumnOps
  <2>5. CASE TabOps
    BY <2>5, ToggleColumnTabbedKeeps, CycleTabKeeps DEF TabOps
  <2>6. CASE WorkspaceOps
    BY <2>6, MoveWindowToWorkspaceKeeps, MoveColumnToWorkspaceKeeps, MoveWorkspaceToIndexKeeps,
       NameWorkspaceKeeps DEF WorkspaceOps
  <2> QED BY <2>1, <2>2, <2>3, <2>4, <2>5, <2>6 DEF Next
<1> QED BY <1>1

LEMMA NextInv ==
    ASSUME IInv, Next
    PROVE  IInv'
<1>1. InvKept
  BY NextKept
<1>2. config' = config
  BY DEF Next
<1> QED BY <1>1, <1>2 DEF IInv, InvKept, AtRest, Steady, Focusable

\* Whatever the applications, the user and the OS do, in any order: the strips, the focus,
\* the ring and the stack of an output are sound after every operation.
THEOREM Invariance == Spec => []IInv
<1>1. Init => IInv
  BY InitInv
<1>2. IInv /\ [Next]_vars => IInv'
  <2> SUFFICES ASSUME IInv, [Next]_vars PROVE IInv'
    OBVIOUS
  <2>1. CASE Next
    BY <2>1, NextInv
  <2>2. CASE UNCHANGED vars
    BY <2>2 DEF vars, IInv, AtRest, Steady, Focusable
  <2> QED BY <2>1, <2>2
<1> QED BY <1>1, <1>2, PTL DEF Spec

----------------------------------------------------------------------------
(* What the invariant says of the properties the runs check. *)

LEMMA InvTypeOK ==
    ASSUME IInv
    PROVE  TypeOK
<1>1. Stack(mon, Focusable) /\ Typed(mon) /\ GoodFocus(mon) /\ Records(minimized)
  BY InvFacts DEF IInv
<1>2. \A w \in DOMAIN minimized : minimized[w] \in [workspace : Keys, slot : Slots]
  BY <1>1 DEF Records, Slots, SlotType
<1>3. \A id \in DOMAIN mon.ws : mon.ws[id] \in Workspaces
  BY <1>1 DEF Stack, GoodStrip, StripType, ColumnType, Workspaces, Columns
<1>4. Len(mon.order) = Cardinality(DOMAIN mon.ws)
  BY <1>1, InjectiveLength DEF Stack, Typed
<1>5. mon.focusColumn \in Nat /\ mon.focusWindow \in Windows \cup {NoWindow}
  <2>1. mon.focusColumn \in 0 .. Len(ActiveStrip(mon).columns) /\ mon.focusWindow \in Windows \cup {NoWindow}
    BY <1>1, FocusFields
  <2> QED BY <2>1
<1> QED BY <1>1, <1>2, <1>3, <1>4, <1>5 DEF TypeOK, IInv, Stack, Typed

\* The places of a window.
Spots(w) ==
    LET tiles(id, c) == mon.ws[id].columns[c].tiles
    IN  UNION {UNION {{<<id, c, i>> : i \in {j \in DOMAIN tiles(id, c) : tiles(id, c)[j] = w}}
                      : c \in DOMAIN mon.ws[id].columns} : id \in DOMAIN mon.ws}

LEMMA SpotsOf ==
    ASSUME IInv, NEW w, NEW x
    PROVE  x \in Spots(w) <=> \E id \in DOMAIN mon.ws : \E c \in 1 .. Len(mon.ws[id].columns) :
                              \E i \in 1 .. Len(mon.ws[id].columns[c].tiles) :
                                 mon.ws[id].columns[c].tiles[i] = w /\ x = <<id, c, i>>
<1>1. ASSUME NEW id \in DOMAIN mon.ws
      PROVE  /\ DOMAIN mon.ws[id].columns = 1 .. Len(mon.ws[id].columns)
             /\ \A c \in 1 .. Len(mon.ws[id].columns) :
                    DOMAIN mon.ws[id].columns[c].tiles = 1 .. Len(mon.ws[id].columns[c].tiles)
  <2>1. GoodStrip(mon.ws[id], Windows)
    BY InvFacts DEF Stack
  <2>2. /\ DOMAIN mon.ws[id].columns = 1 .. Len(mon.ws[id].columns)
        /\ \A c \in 1 .. Len(mon.ws[id].columns) : GoodColumn(mon.ws[id].columns[c], Windows)
    BY <2>1, StripFields
  <2>3. ASSUME NEW c \in 1 .. Len(mon.ws[id].columns)
        PROVE  DOMAIN mon.ws[id].columns[c].tiles = 1 .. Len(mon.ws[id].columns[c].tiles)
    <3>1. mon.ws[id].columns[c].tiles \in Seq(Windows)
      BY <2>2, ColumnFields
    <3> QED BY <3>1
  <2> QED BY <2>2, <2>3
<1>2. x \in Spots(w) <=> \E id \in DOMAIN mon.ws : \E c \in DOMAIN mon.ws[id].columns :
                              \E i \in DOMAIN mon.ws[id].columns[c].tiles :
                                 mon.ws[id].columns[c].tiles[i] = w /\ x = <<id, c, i>>
  BY DEF Spots
<1> QED BY <1>1, <1>2

LEMMA InvOnePlaceEach ==
    ASSUME IInv
    PROVE  OnePlaceEach
<1> SUFFICES ASSUME NEW w \in Windows
             PROVE  TileCount(w) = IF w \in Focusable THEN 1 ELSE 0
  BY DEF OnePlaceEach, Focusable
<1>1. TileCount(w) = Cardinality(Spots(w))
  BY DEF TileCount, Spots
<1>2. Stack(mon, Focusable)
  BY InvFacts
<1>3. ASSUME NEW id \in DOMAIN mon.ws, NEW c \in 1 .. Len(mon.ws[id].columns),
             NEW i \in 1 .. Len(mon.ws[id].columns[c].tiles), mon.ws[id].columns[c].tiles[i] = w
      PROVE  /\ w \in WindowsOf(mon.ws[id]) /\ c = FindColumn(mon.ws[id], w)
             /\ \A j \in 1 .. Len(mon.ws[id].columns[c].tiles) :
                    mon.ws[id].columns[c].tiles[j] = w => j = i
  <2> DEFINE s == mon.ws[id]
             t == s.columns[c].tiles
  <2>1. GoodStrip(s, Windows)
    BY <1>2 DEF Stack
  <2>2. GoodColumn(s.columns[c], Windows)
    BY <2>1, StripFields
  <2>3. t \in Seq(Windows) /\ IsInjective(t)
    BY <2>2, ColumnFields
  <2>4. w \in Tiles(s.columns[c]) /\ \A j \in 1 .. Len(t) : t[j] = t[i] => j = i
    BY <1>3, <2>3, ToSetOf DEF Tiles
  <2>5. w \in WindowsOf(s) /\ c = FindColumn(s, w)
    BY <2>1, <2>4, Finding
  <2> QED BY <1>3, <2>4, <2>5
<1>4. ASSUME NEW x \in Spots(w)
      PROVE  \E k \in DOMAIN mon.ws : \E d \in 1 .. Len(mon.ws[k].columns) :
             \E j \in 1 .. Len(mon.ws[k].columns[d].tiles) :
                mon.ws[k].columns[d].tiles[j] = w /\ x = <<k, d, j>>
  BY <1>4, SpotsOf
<1>5. CASE w \in Focusable
  <2>1. PICK id \in DOMAIN mon.ws : w \in WindowsOf(mon.ws[id])
    BY <1>2, <1>5 DEF Stack
  <2>2. \A k \in DOMAIN mon.ws : w \in WindowsOf(mon.ws[k]) => k = id
    BY <1>2, <2>1 DEF Stack
  <2> DEFINE s == mon.ws[id]
             c == FindColumn(s, w)
             t == s.columns[c].tiles
  <2>3. GoodStrip(s, Windows)
    BY <1>2 DEF Stack
  <2>4. c \in 1 .. Len(s.columns) /\ GoodColumn(s.columns[c], Windows) /\ w \in Tiles(s.columns[c])
    BY <2>1, <2>3, Finding
  <2>5. t \in Seq(Windows)
    BY <2>4, ColumnFields
  <2>6. PICK i \in 1 .. Len(t) : t[i] = w
    BY <2>4, <2>5, ToSetOf DEF Tiles
  <2>7. <<id, c, i>> \in Spots(w)
    BY <2>4, <2>6, SpotsOf
  <2>8. ASSUME NEW x \in Spots(w) PROVE x = <<id, c, i>>
    <3>0. PICK k \in DOMAIN mon.ws : \E d \in 1 .. Len(mon.ws[k].columns) :
             \E j \in 1 .. Len(mon.ws[k].columns[d].tiles) :
                mon.ws[k].columns[d].tiles[j] = w /\ x = <<k, d, j>>
      BY <1>4, <2>8
    <3>1. PICK d \in 1 .. Len(mon.ws[k].columns) :
             \E j \in 1 .. Len(mon.ws[k].columns[d].tiles) :
                mon.ws[k].columns[d].tiles[j] = w /\ x = <<k, d, j>>
      BY <3>0
    <3>2. PICK j \in 1 .. Len(mon.ws[k].columns[d].tiles) :
             mon.ws[k].columns[d].tiles[j] = w /\ x = <<k, d, j>>
      BY <3>1
    <3>3. w \in WindowsOf(mon.ws[k]) /\ d = FindColumn(mon.ws[k], w)
          /\ \A l \in 1 .. Len(mon.ws[k].columns[d].tiles) : mon.ws[k].columns[d].tiles[l] = w => l = j
      BY <1>3, <3>2
    <3>4. k = id
      BY <2>2, <3>3
    <3>5. d = c
      BY <3>3, <3>4
    <3>6. i = j
      BY <2>6, <3>3, <3>4, <3>5
    <3> QED BY <3>2, <3>4, <3>5, <3>6
  <2>9. Spots(w) = {<<id, c, i>>}
    BY <2>7, <2>8
  <2> QED BY <1>1, <1>5, <2>9, FS_Singleton
<1>6. CASE w \notin Focusable
  <2>1. \A k \in DOMAIN mon.ws : w \notin WindowsOf(mon.ws[k])
    BY <1>2, <1>6 DEF Stack
  <2>2. ASSUME NEW x \in Spots(w) PROVE FALSE
    <3>0. PICK k \in DOMAIN mon.ws : \E d \in 1 .. Len(mon.ws[k].columns) :
             \E j \in 1 .. Len(mon.ws[k].columns[d].tiles) :
                mon.ws[k].columns[d].tiles[j] = w /\ x = <<k, d, j>>
      BY <1>4, <2>2
    <3>1. PICK d \in 1 .. Len(mon.ws[k].columns) :
             \E j \in 1 .. Len(mon.ws[k].columns[d].tiles) :
                mon.ws[k].columns[d].tiles[j] = w /\ x = <<k, d, j>>
      BY <3>0
    <3> QED BY <1>3, <2>1, <3>1
  <2>3. Spots(w) = {}
    BY <2>2
  <2> QED BY <1>1, <1>6, <2>3, FS_EmptySet
<1> QED BY <1>5, <1>6

LEMMA InvStripsWellFormed ==
    ASSUME IInv
    PROVE  StripsWellFormed
<1>1. ASSUME NEW id \in DOMAIN mon.ws, NEW c \in DOMAIN mon.ws[id].columns
      PROVE  GoodColumn(mon.ws[id].columns[c], Windows)
  <2>1. GoodStrip(mon.ws[id], Windows)
    BY InvFacts DEF Stack
  <2> QED BY <2>1, StripFields
<1> QED BY <1>1 DEF StripsWellFormed, GoodColumn

LEMMA InvFocusIsShown ==
    ASSUME IInv
    PROVE  FocusIsShown
<1>1. /\ mon.focusColumn \in 0 .. Len(ActiveStrip(mon).columns)
      /\ mon.focusColumn # 0 <=> mon.focusWindow # NoWindow
  BY InvFacts, FocusFields
<1>2. mon.focusColumn = FindColumn(ActiveStrip(mon), mon.focusWindow) /\ Shown(mon)
  BY InvFacts DEF GoodFocus
<1> QED BY <1>1, <1>2 DEF FocusIsShown, Shown

LEMMA InvStack ==
    ASSUME IInv
    PROVE  RingSound /\ EmptyAtTheBottom /\ EmptyAtTheTop /\ HomeIsKept
BY InvFacts DEF RingSound, GoodRing, RingIn, Focusable, Steady, Settled, EmptyAtTheBottom,
   EmptyAtTheTop, Roomy, HomeIsKept

\* Every variable has its type, and the visible order lists each workspace once.
THEOREM TypeCorrect == Spec => []TypeOK
BY Invariance, InvTypeOK, PTL

\* A managed window is one tile of one workspace or it is minimized, whatever was opened,
\* closed, minimized, restored and moved before (src/layout/engine.rs:1692).
THEOREM WindowsHaveOnePlace == Spec => []OnePlaceEach
BY Invariance, InvOnePlaceEach, PTL

\* No operation leaves an empty column or a tab that does not exist
\* (src/layout/workspace.rs, remove_window and clamp_active_tab).
THEOREM StripsStayWellFormed == Spec => []StripsWellFormed
BY Invariance, InvStripsWellFormed, PTL

\* The focused window is in the active workspace, in the focused column, and drawn there.
THEOREM FocusStaysShown == Spec => []FocusIsShown
BY Invariance, InvFocusIsShown, PTL

\* The ring is bounded and lists, once each, only windows of the layout (src/layout/focus_ring.rs).
THEOREM RingStaysSound == Spec => []RingSound
BY Invariance, InvStack, PTL

\* There is always an empty workspace to go to below the occupied ones.
THEOREM RoomBelow == Spec => []EmptyAtTheBottom
BY Invariance, InvStack, PTL

\* And one above them when empty-workspace-above-first asks for it.
THEOREM RoomAbove == Spec => []EmptyAtTheTop
BY Invariance, InvStack, PTL

\* The workspace a minimized window comes back to is never dropped.
THEOREM HomesAreKept == Spec => []HomeIsKept
BY Invariance, InvStack, PTL

\* A step of the monitor, as CursorIsKept tells it.
CursorStep ==
    \A id \in DOMAIN mon.ws \cap DOMAIN mon'.ws :
        LET cursor == mon.ws[id].active
        IN  /\ id \notin {mon.active, mon'.active}
            /\ Holds(mon.ws[id], cursor) /\ Holds(mon'.ws[id], cursor)
            => mon'.ws[id].active = cursor

LEMMA InvCursorStep ==
    ASSUME IInv, IInv', [Next]_vars
    PROVE  [CursorStep]_vars
<1>1. CASE UNCHANGED vars
  BY <1>1
<1>2. CASE Next
  <2>1. CursorsKept(mon', mon)
    BY <1>2, NextKept DEF InvKept
  <2>2. \A id \in DOMAIN mon.ws : GoodStrip(mon.ws[id], Windows)
    BY InvFacts DEF Stack
  <2>3. \A id \in DOMAIN mon'.ws : GoodStrip(mon'.ws[id], Windows)
    BY DEF IInv, AtRest, Steady, Fit, Stack
  <2>4. ASSUME NEW id \in DOMAIN mon.ws \cap DOMAIN mon'.ws, id \notin {mon.active, mon'.active},
               Holds(mon.ws[id], mon.ws[id].active), Holds(mon'.ws[id], mon.ws[id].active)
        PROVE  mon'.ws[id].active = mon.ws[id].active
    <3>1. mon.ws[id].active \in WindowsOf(mon.ws[id])
      BY <2>2, <2>4, Finding
    <3>2. mon.ws[id].active \in WindowsOf(mon'.ws[id])
      BY <2>3, <2>4, Finding
    <3> QED BY <2>1, <2>4, <3>1, <3>2 DEF CursorsKept, KeptCursors
  <2> QED BY <2>4 DEF CursorStep
<1> QED BY <1>1, <1>2

\* Whatever the applications, the user and the OS do: a workspace nobody looks at keeps the
\* cursor it can keep, when windows join it, leave it, and whatever happens to the others
\* (src/layout/engine/workspace_actions.rs, repair_workspace_move_cursor).
THEOREM CursorsAreKept == Spec => CursorIsKept
<1>1. IInv /\ IInv' /\ [Next]_vars => [CursorStep]_vars
  BY InvCursorStep
<1> QED BY <1>1, Invariance, PTL DEF Spec, CursorIsKept, CursorStep
=============================================================================
