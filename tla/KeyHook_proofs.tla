--------------------------- MODULE KeyHook_proofs ---------------------------
(***************************************************************************)
(* Proofs about the keyboard hook, for any set of keys, binds and          *)
(* configurations.                                                         *)
(***************************************************************************)
EXTENDS KeyHookProps, TLAPS

Parties == {"app", "pick", "shot", "sheet", "switcher", "binds", "tap"}

\* The parties remember the keys whose first down they took.
OwnersRemember ==
    /\ owner \in [Keys -> Parties]
    /\ \A k \in Keys :
        /\ owner[k] = "binds" => CapturedRow(k) # {}
        /\ owner[k] = "pick" => k = EscKey /\ pick.captured
        /\ owner[k] = "shot" => k \in shot.pair

Remembers(k) ==
    /\ owner[k] = "binds" => CapturedRow(k) # {}
    /\ owner[k] = "pick" => k = EscKey /\ pick.captured
    /\ owner[k] = "shot" => k \in shot.pair

\* The shape of the records that steps update in part.
Shapes ==
    /\ binds = [down |-> binds.down, captured |-> binds.captured, inhibited |-> binds.inhibited]
    /\ \A r \in binds.captured : r.key \notin Modifiers
    /\ switcher = [physical |-> switcher.physical, suppressed |-> switcher.suppressed,
                   active |-> switcher.active]
    /\ pick = [phase |-> pick.phase, down |-> pick.down, captured |-> pick.captured]
    /\ shot = [phase |-> shot.phase, pair |-> shot.pair]

IInv == OwnersRemember /\ ModifiersAreTracked /\ WholePresses /\ Shapes

\* The bind engine follows a key whoever takes it, and forgets a captured key only at its up.
LEMMA FollowTracks ==
    ASSUME Shapes, NEW k \in Keys, NEW pressed \in BOOLEAN, Follow(k, pressed)
    PROVE  /\ binds'.down = Toggled(binds.down, k, pressed)
           /\ binds' = [down |-> binds'.down, captured |-> binds'.captured, inhibited |-> binds'.inhibited]
           /\ \A r \in binds'.captured : r.key \notin Modifiers
           /\ \A l \in Keys : (l # k \/ pressed) /\ CapturedRow(l) # {} => CapturedRow(l)' # {}
<1>1. binds' = [down |-> Toggled(binds.down, k, pressed),
                captured |-> IF pressed THEN binds.captured ELSE binds.captured \ CapturedRow(k),
                inhibited |-> binds.inhibited]
  BY DEF Shapes, Follow, BindsModal
<1>2. ASSUME NEW l \in Keys, l # k \/ pressed, CapturedRow(l) # {} PROVE CapturedRow(l)' # {}
  BY <1>1, <1>2 DEF CapturedRow
<1>3. \A r \in binds'.captured : r.key \notin Modifiers
  BY <1>1 DEF Shapes
<1> QED BY <1>1, <1>2, <1>3

LEMMA ToggledModifiers ==
    ASSUME NEW S, NEW k, NEW pressed \in BOOLEAN, S \cap Modifiers = physical \cap Modifiers
    PROVE  Toggled(S, k, pressed) \cap Modifiers = Toggled(physical, k, pressed) \cap Modifiers
BY DEF Toggled

\* What an event leaves to show about the key, when the party `by` got it.
LEMMA DeliveredKeeps ==
    ASSUME OwnersRemember, NEW k \in Keys, NEW pressed \in BOOLEAN, NEW by \in Parties,
           Delivered(k, pressed, by),
           pressed => \/ by \notin {"binds", "pick", "shot"}
                      \/ by = "binds" /\ CapturedRow(k)' # {}
                      \/ by = "pick" /\ k = EscKey /\ pick'.captured
                      \/ by = "shot" /\ k \in shot'.pair,
           owner[k] \in {"binds", "pick", "shot"} => by # "app",
           pressed /\ CapturedRow(k) # {} => CapturedRow(k)' # {},
           pressed /\ k = EscKey /\ pick.captured => pick'.captured,
           pressed /\ k \in shot.pair => k \in shot'.pair,
           \A l \in Keys \ {k} : /\ CapturedRow(l) # {} => CapturedRow(l)' # {}
                                 /\ l = EscKey /\ pick.captured => pick'.captured
                                 /\ l \in shot.pair => l \in shot'.pair
    PROVE  OwnersRemember' /\ WholePresses'
<1>1. owner' \in [Keys -> Parties]
  BY DEF OwnersRemember, Delivered, Parties
<1>2. ASSUME NEW l \in Keys PROVE Remembers(l)'
  <2>1. CASE l # k
    BY <2>1, <1>2 DEF OwnersRemember, Delivered, Remembers
  <2>2. CASE l = k
    <3>1. CASE ~pressed
      BY <2>2, <3>1 DEF OwnersRemember, Delivered, Remembers
    <3>2. CASE pressed /\ k \notin physical
      BY <2>2, <3>2 DEF OwnersRemember, Delivered, Remembers
    <3>3. CASE pressed /\ k \in physical
      BY <2>2, <3>3 DEF OwnersRemember, Delivered, Remembers
    <3> QED BY <3>1, <3>2, <3>3
  <2> QED BY <2>1, <2>2
<1>3. WholePresses'
  BY DEF WholePresses, Delivered, OwnersRemember
<1> QED BY <1>1, <1>2, <1>3 DEF OwnersRemember, Remembers

\* The pick forgets that it has Escape only when Escape goes up.
LEMMA PickKeeps ==
    ASSUME Shapes, NEW k \in Keys, NEW pressed \in BOOLEAN, pick' = PickEvent(k, pressed)
    PROVE  /\ pick' = [phase |-> pick'.phase, down |-> pick'.down, captured |-> pick'.captured]
           /\ pick.captured /\ (k # EscKey \/ pressed) => pick'.captured
<1>1. CASE k # EscKey
  BY <1>1 DEF PickEvent, Shapes
<1>2. CASE k = EscKey
  <2> DEFINE taken == PickTake(k, pressed) /\ ~pick.captured
  <2>1. pick' = [phase |-> IF taken THEN "resolving" ELSE pick.phase, down |-> pressed,
                 captured |-> IF pick.captured THEN pressed ELSE taken]
    BY <1>2 DEF PickEvent
  <2> HIDE DEF taken
  <2>2. pick'.captured = IF pick.captured THEN pressed ELSE taken
    BY <2>1
  <2>3. pick' = [phase |-> pick'.phase, down |-> pick'.down, captured |-> pick'.captured]
    BY <2>1
  <2> QED BY <2>2, <2>3, <1>2
<1> QED BY <1>1, <1>2

\* What every branch but that of the pick leaves: the modifiers are followed, captured keys
\* are kept while they are down, the records keep their shape.
Followed(k, pressed) ==
    /\ binds'.down \cap Modifiers = Toggled(binds.down, k, pressed) \cap Modifiers
    /\ binds' = [down |-> binds'.down, captured |-> binds'.captured, inhibited |-> binds'.inhibited]
    /\ \A r \in binds'.captured : r.key \notin Modifiers
    /\ \A l \in Keys : (l # k \/ pressed) /\ CapturedRow(l) # {} => CapturedRow(l)' # {}
    /\ switcher'.physical = Toggled(switcher.physical, k, pressed)
    /\ switcher' = [physical |-> switcher'.physical, suppressed |-> switcher'.suppressed,
                     active |-> switcher'.active]

LEMMA FollowedKeeps ==
    ASSUME KeyHookAssumption, IInv, NEW k \in Keys, NEW pressed \in BOOLEAN, NEW by \in Parties,
           Followed(k, pressed), pick' = PickEvent(k, pressed),
           shot' = [phase |-> shot'.phase, pair |-> shot'.pair],
           \A l \in Keys : (l # k \/ pressed) /\ l \in shot.pair => l \in shot'.pair,
           physical' = Toggled(physical, k, pressed), Delivered(k, pressed, by),
           by # "pick",
           pressed => (by = "binds" => CapturedRow(k)' # {}) /\ (by = "shot" => k \in shot'.pair),
           owner[k] \in {"binds", "pick", "shot"} => by # "app"
    PROVE  IInv'
<1> USE DEF IInv
<1>1. Shapes'
  BY PickKeeps DEF Followed, Shapes
<1>2. ModifiersAreTracked'
  BY ToggledModifiers DEF Followed, ModifiersAreTracked
<1>3. OwnersRemember' /\ WholePresses'
  <2>1. \A l \in Keys : l # k \/ pressed => (CapturedRow(l) # {} => CapturedRow(l)' # {})
    BY DEF Followed
  <2>2. pick.captured /\ (k # EscKey \/ pressed) => pick'.captured
    BY PickKeeps
  <2> QED BY <2>1, <2>2, DeliveredKeeps
<1> QED BY <1>1, <1>2, <1>3

\* An Escape the pick does not take was not taken by it before either.
LEMMA NotThePicks ==
    ASSUME OwnersRemember, NEW k \in Keys, NEW pressed \in BOOLEAN, ~PickTake(k, pressed)
    PROVE  owner[k] # "pick"
BY DEF OwnersRemember, PickTake

LEMMA PickKeepsAll ==
    ASSUME KeyHookAssumption, IInv, NEW k \in Keys, NEW pressed \in BOOLEAN,
           physical' = Toggled(physical, k, pressed), ThroughPick(k, pressed)
    PROVE  IInv'
<1> USE DEF IInv, ThroughPick
<1>1. Shapes'
  BY PickKeeps DEF Shapes
<1>2. k = EscKey /\ k \notin Modifiers
  BY DEF PickTake, KeyHookAssumption
<1>3. ModifiersAreTracked'
  BY <1>2 DEF ModifiersAreTracked, Toggled
<1>4. pressed => pick'.captured
  BY <1>2 DEF PickEvent
<1>5. OwnersRemember' /\ WholePresses'
  <2>1. \A l \in Keys : CapturedRow(l)' = CapturedRow(l)
    BY DEF CapturedRow
  <2>2. "pick" \in Parties
    BY DEF Parties
  <2> QED BY <1>2, <1>4, <2>1, <2>2, DeliveredKeeps
<1> QED BY <1>1, <1>3, <1>5

LEMMA ShotKeepsAll ==
    ASSUME KeyHookAssumption, IInv, NEW k \in Keys, NEW pressed \in BOOLEAN,
           physical' = Toggled(physical, k, pressed), ThroughShot(k, pressed)
    PROVE  IInv'
<1> USE DEF IInv, ThroughShot
<1>1. Followed(k, pressed)
  <2>1. switcher'.physical = Toggled(switcher.physical, k, pressed)
        /\ switcher' = [physical |-> switcher'.physical, suppressed |-> switcher'.suppressed,
                         active |-> switcher'.active]
    BY DEF SwitcherPassedOver, Shapes
  <2> QED BY <2>1, FollowTracks DEF Followed
<1>2. shot' = [phase |-> shot.phase,
               pair |-> IF ~pressed THEN shot.pair \ {k}
                        ELSE IF shot.phase = "up" /\ k \notin Modifiers THEN shot.pair \cup {k}
                        ELSE shot.pair]
  BY DEF Shapes
<1> DEFINE takes == k \in shot.pair \/ (shot.phase = "up" /\ pressed /\ k \notin Modifiers)
           captured == k \in {r.key : r \in binds.captured}
           by == IF takes THEN "shot" ELSE IF captured THEN "binds" ELSE "app"
<1>3. captured <=> CapturedRow(k) # {}
  BY DEF CapturedRow
<1>4. by \in Parties /\ by # "pick" /\ Delivered(k, pressed, by)
  BY DEF Parties
<1>5. pressed => (by = "binds" => CapturedRow(k)' # {}) /\ (by = "shot" => k \in shot'.pair)
  BY <1>1, <1>2, <1>3 DEF Followed
<1>6. owner[k] \in {"binds", "pick", "shot"} => by # "app"
  BY <1>3, NotThePicks DEF OwnersRemember
<1>7. shot' = [phase |-> shot'.phase, pair |-> shot'.pair]
      /\ \A l \in Keys : (l # k \/ pressed) /\ l \in shot.pair => l \in shot'.pair
  BY <1>2
<1>8. pick' = PickEvent(k, pressed)
  OBVIOUS
<1> HIDE DEF by, IInv, ThroughShot
<1> QED BY <1>1, <1>4, <1>5, <1>6, <1>7, <1>8, FollowedKeeps

LEMMA SheetKeepsAll ==
    ASSUME KeyHookAssumption, IInv, NEW k \in Keys, NEW pressed \in BOOLEAN,
           physical' = Toggled(physical, k, pressed), ThroughSheet(k, pressed)
    PROVE  IInv'
<1> USE DEF IInv, ThroughSheet
<1>1. Followed(k, pressed)
  <2>1. switcher'.physical = Toggled(switcher.physical, k, pressed)
        /\ switcher' = [physical |-> switcher'.physical, suppressed |-> switcher'.suppressed,
                         active |-> switcher'.active]
    BY DEF SwitcherPassedOver, Shapes
  <2> QED BY <2>1, FollowTracks DEF Followed
<1>2. shot' = [phase |-> shot'.phase, pair |-> shot'.pair]
  BY DEF Shapes
<1>3. "sheet" \in Parties
  BY DEF Parties
<1>4. pick' = PickEvent(k, pressed) /\ Delivered(k, pressed, "sheet") /\ shot' = shot
  OBVIOUS
<1> HIDE DEF IInv, ThroughSheet
<1> QED BY <1>1, <1>2, <1>3, <1>4, FollowedKeeps

LEMMA SwitcherKeepsAll ==
    ASSUME KeyHookAssumption, IInv, NEW k \in Keys, NEW pressed \in BOOLEAN,
           physical' = Toggled(physical, k, pressed), ThroughSwitcher(k, pressed)
    PROVE  IInv'
<1> USE DEF IInv, ThroughSwitcher
<1>1. Followed(k, pressed)
  <2>1. switcher'.physical = Toggled(switcher.physical, k, pressed)
        /\ switcher' = [physical |-> switcher'.physical, suppressed |-> switcher'.suppressed,
                         active |-> switcher'.active]
    BY DEF SwitcherEvent
  <2> QED BY <2>1, FollowTracks DEF Followed
<1>2. shot' = [phase |-> shot'.phase, pair |-> shot'.pair]
  BY DEF Shapes
<1> DEFINE captured == k \in {r.key : r \in binds.captured}
           by == IF SwitcherTake(k, pressed) THEN "switcher" ELSE IF captured THEN "binds" ELSE "app"
<1>3. captured <=> CapturedRow(k) # {}
  BY DEF CapturedRow
<1>4. by \in Parties /\ by \notin {"pick", "shot"} /\ Delivered(k, pressed, by)
  BY DEF Parties
<1>5. pressed /\ by = "binds" => CapturedRow(k)' # {}
  BY <1>1, <1>3 DEF Followed
<1>6. owner[k] \in {"binds", "pick", "shot"} => by # "app"
  BY <1>3, NotThePicks DEF OwnersRemember, ShotOwns
<1>7. pick' = PickEvent(k, pressed) /\ shot' = shot
  OBVIOUS
<1> HIDE DEF by, IInv, ThroughSwitcher
<1> QED BY <1>1, <1>2, <1>4, <1>5, <1>6, <1>7, FollowedKeeps

LEMMA BindsKeepAll ==
    ASSUME KeyHookAssumption, IInv, NEW k \in Keys, NEW pressed \in BOOLEAN,
           physical' = Toggled(physical, k, pressed), ThroughBinds(k, pressed)
    PROVE  IInv'
<1> USE DEF IInv, ThroughBinds
<1> DEFINE fresh == BindsTake(k, pressed) /\ CapturedRow(k) = {}
<1>1. binds' = [down |-> Toggled(binds.down, k, pressed),
                captured |-> IF fresh THEN binds.captured \cup Named(k)
                             ELSE IF pressed \/ k \in Modifiers THEN binds.captured
                             ELSE binds.captured \ CapturedRow(k),
                inhibited |-> binds.inhibited]
  BY DEF Shapes, BindsEvent
<1>2. \A l \in Keys : (l # k \/ pressed) /\ CapturedRow(l) # {} => CapturedRow(l)' # {}
  BY <1>1 DEF CapturedRow
<1>9. \A r \in binds'.captured : r.key \notin Modifiers
  BY <1>1 DEF Shapes, BindsTake, Named
<1>3. Followed(k, pressed)
  <2>1. switcher'.physical = Toggled(switcher.physical, k, pressed)
        /\ switcher' = [physical |-> switcher'.physical, suppressed |-> switcher'.suppressed,
                         active |-> switcher'.active]
    BY DEF SwitcherEvent
  <2> QED BY <2>1, <1>1, <1>2, <1>9 DEF Followed
<1>4. shot' = [phase |-> shot'.phase, pair |-> shot'.pair]
  BY DEF Shapes
<1>5. PICK intime \in BOOLEAN :
        Delivered(k, pressed, IF TapTake(k, pressed, ~BindsTake(k, pressed), intime) THEN "tap"
                              ELSE IF BindsTake(k, pressed) THEN "binds" ELSE "app")
  OBVIOUS
<1> DEFINE by == IF TapTake(k, pressed, ~BindsTake(k, pressed), intime) THEN "tap"
                 ELSE IF BindsTake(k, pressed) THEN "binds" ELSE "app"
<1>6. by \in Parties /\ by \notin {"pick", "shot"} /\ Delivered(k, pressed, by)
  BY <1>5 DEF Parties
<1>7. pressed /\ by = "binds" => CapturedRow(k)' # {}
  <2>1. CASE CapturedRow(k) # {}
    BY <1>2, <2>1
  <2>2. CASE fresh
    BY <1>1, <2>2 DEF CapturedRow, BindsTake, Named
  <2> QED BY <2>1, <2>2
<1>8. owner[k] \in {"binds", "pick", "shot"} => by # "app"
  <2>1. CapturedRow(k) # {} => BindsTake(k, pressed)
    BY DEF CapturedRow, BindsTake, Shapes
  <2> QED BY <2>1, NotThePicks DEF OwnersRemember, ShotOwns
<1>10. pick' = PickEvent(k, pressed) /\ shot' = shot
  OBVIOUS
<1> HIDE DEF by, IInv, ThroughBinds
<1> QED BY <1>3, <1>4, <1>6, <1>7, <1>8, <1>10, FollowedKeeps

\* Nothing but the keyboard changes what the parties know of a key.
LEMMA OtherStep ==
    ASSUME IInv, physical' = physical, owner' = owner, stray' \in {<<>>, stray},
           binds' = [down |-> binds.down, captured |-> binds.captured, inhibited |-> binds'.inhibited],
           switcher' = [physical |-> switcher.physical, suppressed |-> switcher.suppressed,
                        active |-> switcher'.active],
           pick' = [phase |-> pick'.phase, down |-> pick.down, captured |-> pick.captured],
           shot' = [phase |-> shot'.phase, pair |-> shot.pair]
    PROVE  IInv'
<1> USE DEF IInv
<1>1. binds'.down = binds.down /\ binds'.captured = binds.captured
      /\ switcher'.physical = switcher.physical /\ switcher'.suppressed = switcher.suppressed
      /\ pick'.down = pick.down /\ pick'.captured = pick.captured /\ shot'.pair = shot.pair
  OBVIOUS
<1>2. Shapes'
  BY <1>1 DEF Shapes
<1>3. ModifiersAreTracked'
  BY <1>1 DEF ModifiersAreTracked
<1>4. OwnersRemember'
  BY <1>1 DEF OwnersRemember, CapturedRow
<1>5. WholePresses'
  BY DEF WholePresses
<1> QED BY <1>2, <1>3, <1>4, <1>5

LEMMA Initially == KeyHookAssumption /\ Init => IInv
BY DEF Init, IInv, OwnersRemember, Parties, ModifiersAreTracked, WholePresses, Shapes

LEMMA Inductive ==
    ASSUME KeyHookAssumption, IInv, [Next]_vars
    PROVE  IInv'
<1> USE DEF IInv
<1>0. /\ binds = [down |-> binds.down, captured |-> binds.captured, inhibited |-> binds.inhibited]
      /\ switcher = [physical |-> switcher.physical, suppressed |-> switcher.suppressed,
                     active |-> switcher.active]
      /\ pick = [phase |-> pick.phase, down |-> pick.down, captured |-> pick.captured]
      /\ shot = [phase |-> shot.phase, pair |-> shot.pair]
  BY DEF Shapes
<1>1. ASSUME NEW k \in Keys, NEW pressed \in BOOLEAN, KeyEvent(k, pressed) PROVE IInv'
  <2> USE <1>1 DEF KeyEvent
  <2>1. CASE ThroughPick(k, pressed)
    BY <2>1, PickKeepsAll
  <2>2. CASE ThroughShot(k, pressed)
    BY <2>2, ShotKeepsAll
  <2>3. CASE ThroughSheet(k, pressed)
    BY <2>3, SheetKeepsAll
  <2>4. CASE ThroughSwitcher(k, pressed)
    BY <2>4, SwitcherKeepsAll
  <2>5. CASE ThroughBinds(k, pressed)
    BY <2>5, BindsKeepAll
  <2> QED BY <2>1, <2>2, <2>3, <2>4, <2>5
<1>2. CASE TakeWork
  BY <1>0, <1>2, OtherStep DEF TakeWork, hookVars
<1>3. CASE DoWork
  <2>1. switcher' = [physical |-> switcher.physical, suppressed |-> switcher.suppressed,
                     active |-> switcher'.active]
    <3>1. ASSUME NEW work, SwitcherWork(work) PROVE switcher' = switcher
                \/ \E b : switcher' = [switcher EXCEPT !.active = b]
      BY <3>1 DEF SwitcherWork, NoSession, Cycle
    <3> QED BY <3>1, <1>0, <1>3 DEF DoWork
  <2>2. shot' = [phase |-> shot'.phase, pair |-> shot.pair]
    BY <1>0, <1>3 DEF DoWork, ShotOpening
  <2>3. binds' = [down |-> binds.down, captured |-> binds.captured, inhibited |-> binds'.inhibited]
    BY <1>0, <1>3 DEF DoWork
  <2>4. pick' = [phase |-> pick'.phase, down |-> pick.down, captured |-> pick.captured]
    BY <1>0, <1>3 DEF DoWork
  <2>5. physical' = physical /\ owner' = owner /\ stray' = <<>>
    BY <1>3 DEF DoWork
  <2> QED BY <2>1, <2>2, <2>3, <2>4, <2>5, OtherStep
<1>4. CASE ReloadHotkeys
  BY <1>0, <1>4, OtherStep DEF ReloadHotkeys, hookVars
<1>5. ASSUME NEW c, SetConfig(c) PROVE IInv'
  BY <1>0, <1>5, OtherStep DEF SetConfig, NoSession
<1>6. CASE SessionLost
  BY <1>0, <1>6, OtherStep DEF SessionLost, NoSession
<1>7. CASE Surfaces
  <2>1. shot' = [phase |-> shot'.phase, pair |-> shot.pair]
    BY <1>0, <1>7 DEF Surfaces, ShotOpening
  <2>2. pick' = [phase |-> pick'.phase, down |-> pick.down, captured |-> pick.captured]
    BY <1>0, <1>7 DEF Surfaces
  <2> QED BY <1>0, <1>7, <2>1, <2>2, OtherStep DEF Surfaces
<1>8. CASE UNCHANGED vars
  BY <1>0, <1>8, OtherStep DEF vars, hookVars
<1> QED BY <1>1, <1>2, <1>3, <1>4, <1>5, <1>6, <1>7, <1>8 DEF Next

\* The parties remember what they took, and the modifiers are followed, for any keys, binds,
\* configurations and scenes (src/input/low_level_hook.rs:417).
THEOREM Invariance == Spec => []IInv
<1>1. Init => IInv
  BY Initially, KeyHookAssumption
<1>2. IInv /\ [Next]_vars => IInv'
  BY Inductive, KeyHookAssumption
<1> QED BY <1>1, <1>2, PTL DEF Spec

\* What binds, pick and screenshot session take, no application sees half of.
THEOREM PressesAreWhole == Spec => []WholePresses
BY Invariance, PTL DEF IInv

\* The bind engine and the switcher agree with the keyboard on the modifiers.
THEOREM ModifiersTracked == Spec => []ModifiersAreTracked
BY Invariance, PTL DEF IInv

----------------------------------------------------------------------------
(* Types, and what the engine and the hook know of a session. *)

Items == {"cycle", "confirm", "cancel", "browse", "screenshot", "shot", "sheet", "inhibit", "picked"}

Types ==
    /\ scene \in Scenes /\ physical \subseteq Keys /\ last \in physical \cup {NoKey}
    /\ published \in Configs /\ config \in Configs
    /\ binds.down \subseteq Keys /\ binds.captured \subseteq Rows /\ binds.inhibited \in BOOLEAN
    /\ \A r, s \in binds.captured : r.key = s.key => r = s
    /\ switcher.suppressed \subseteq switcher.physical /\ switcher.physical \subseteq Keys
    /\ switcher.active \in BOOLEAN
    /\ pick.phase \in {"none", "waiting", "resolving"} /\ (pick.captured => pick.down)
    /\ shot.phase \in {"closed", "opening", "up"} /\ shot.pair \subseteq Keys
    /\ queue \in Seq(Items) /\ batch \in Seq(Items) /\ Len(queue) + Len(batch) <= MaxQueue
    /\ session \in BOOLEAN /\ reloading \in {"no", "sent", "arrived"}

\* An item of work is queued, or handed to the message loop and not done.
Waits(item, work) == \E i \in 1 .. Len(work) : work[i] = item
Pending(item) == Waits(item, queue) \/ Waits(item, batch)

\* The engine has a session only while the hook listens for its end, with the switcher
\* enabled on both sides, and once no modifier is down the release is on its way.
SessionHasAnEnd ==
    session => /\ switcher.active /\ config.recent /\ published.recent
               /\ physical \cap Modifiers = {} => Pending("confirm")

\* Between the reloads the hook works with the configuration of the engine, and no
\* Alt+Tab from before a reload is left when the next one is asked for.
ReloadIsKnown ==
    /\ reloading # "sent" => published = config
    /\ reloading # "arrived" /\ ~published.recent => ~Pending("cycle")

SessionInv == IInv /\ Types /\ SessionHasAnEnd /\ ReloadIsKnown

LEMMA EnqueueAppends ==
    ASSUME NEW items, items \subseteq Items \cup {"none", "plain"}, queue \in Seq(Items), Enqueue(items)
    PROVE  /\ queue' \in Seq(Items) /\ Len(queue') <= Len(queue) + 1
           /\ \A x : Waits(x, queue) => Waits(x, queue')
           /\ \A x : Waits(x, queue') => Waits(x, queue) \/ x \in items
           /\ \A x \in Items : items = {x} => Waits(x, queue')
<1> DEFINE work == items \ {"none", "plain"}
<1>1. CASE work = {}
  <2>1. queue' = queue
    BY <1>1 DEF Enqueue
  <2>2. ASSUME NEW x \in Items, items = {x} PROVE FALSE
    BY <1>1, <2>2 DEF Items
  <2> QED BY <2>1, <2>2
<1>2. CASE work # {}
  <2> DEFINE y == CHOOSE w \in work : TRUE
  <2>1. y \in work /\ y \in items /\ y \in Items
    BY <1>2
  <2>2. queue' = Append(queue, y)
    BY <1>2 DEF Enqueue
  <2> HIDE DEF y, work
  <2>3. /\ queue' \in Seq(Items) /\ Len(queue') = Len(queue) + 1 /\ queue'[Len(queue) + 1] = y
        /\ \A i \in 1 .. Len(queue) : queue'[i] = queue[i]
        /\ Len(queue) \in Nat
    BY <2>1, <2>2
  <2>4. \A x : Waits(x, queue) => Waits(x, queue')
    BY <2>3 DEF Waits
  <2>5. \A x : Waits(x, queue') => Waits(x, queue) \/ x \in items
    BY <2>1, <2>3 DEF Waits
  <2>6. \A x \in Items : items = {x} => Waits(x, queue')
    BY <2>1, <2>3 DEF Waits
  <2> QED BY <2>3, <2>4, <2>5, <2>6
<1> QED BY <1>1, <1>2

LEMMA BindsTyped ==
    ASSUME KeyHookAssumption, Shapes, Types, NEW k \in Keys, NEW pressed \in BOOLEAN,
           binds' \in {binds, BindsModal(k, pressed), BindsEvent(k, pressed)}
    PROVE  /\ binds'.down \subseteq Keys /\ binds'.captured \subseteq Rows /\ binds'.inhibited \in BOOLEAN
           /\ \A r, s \in binds'.captured : r.key = s.key => r = s
<1>1. CASE binds' = binds
  BY <1>1 DEF Types
<1>2. CASE binds' = BindsModal(k, pressed)
  <2>1. binds' = [down |-> Toggled(binds.down, k, pressed),
                  captured |-> IF pressed THEN binds.captured ELSE binds.captured \ CapturedRow(k),
                  inhibited |-> binds.inhibited]
    BY <1>2 DEF Shapes, BindsModal
  <2> QED BY <2>1 DEF Types, Toggled
<1>3. CASE binds' = BindsEvent(k, pressed)
  <2> DEFINE fresh == BindsTake(k, pressed) /\ CapturedRow(k) = {}
  <2>1. binds' = [down |-> Toggled(binds.down, k, pressed),
                  captured |-> IF fresh THEN binds.captured \cup Named(k)
                               ELSE IF pressed \/ k \in Modifiers THEN binds.captured
                               ELSE binds.captured \ CapturedRow(k),
                  inhibited |-> binds.inhibited]
    BY <1>3 DEF Shapes, BindsEvent
  <2>2. Named(k) \subseteq Rows /\ \A r \in Named(k) : r.key = k
    BY DEF Named, Types, KeyHookAssumption
  <2>3. \A r, s \in Named(k) : r = s
    <3>1. \A r, s \in published.rows : r.key = s.key /\ r.mods = s.mods => r = s
      BY DEF Types, KeyHookAssumption
    <3> QED BY <3>1 DEF Named
  <2>4. CapturedRow(k) = {} => \A r \in binds.captured : r.key # k
    BY DEF CapturedRow
  <2> HIDE DEF fresh
  <2>5. binds'.down \subseteq Keys /\ binds'.inhibited \in BOOLEAN /\ binds'.captured \subseteq Rows
    BY <2>1, <2>2 DEF Types, Toggled
  <2>6. \A r, s \in binds'.captured : r.key = s.key => r = s
    <3>1. CASE fresh
      <4>1. binds'.captured = binds.captured \cup Named(k)
        BY <2>1, <3>1
      <4>2. \A r \in binds.captured : r.key # k
        BY <2>4, <3>1 DEF fresh
      <4> QED BY <2>2, <2>3, <4>1, <4>2 DEF Types
    <3>2. CASE ~fresh
      <4>1. binds'.captured \subseteq binds.captured
        BY <2>1, <3>2
      <4> QED BY <4>1 DEF Types
    <3> QED BY <3>1, <3>2
  <2> QED BY <2>5, <2>6
<1> QED BY <1>1, <1>2, <1>3

LEMMA SwitcherTyped ==
    ASSUME Shapes, Types, NEW k \in Keys, NEW pressed \in BOOLEAN,
           switcher' \in {switcher, SwitcherPassedOver(k, pressed), SwitcherEvent(k, pressed)}
    PROVE  /\ switcher'.suppressed \subseteq switcher'.physical /\ switcher'.physical \subseteq Keys
           /\ switcher'.active \in BOOLEAN
           /\ switcher.active => switcher'.active
<1>1. CASE switcher' = switcher
  BY <1>1 DEF Types
<1>2. CASE switcher' = SwitcherPassedOver(k, pressed)
  <2>1. switcher' = [physical |-> Toggled(switcher.physical, k, pressed),
                     suppressed |-> IF pressed THEN switcher.suppressed ELSE switcher.suppressed \ {k},
                     active |-> switcher.active]
    BY <1>2 DEF Shapes, SwitcherPassedOver
  <2> QED BY <2>1 DEF Types, Toggled
<1>3. CASE switcher' = SwitcherEvent(k, pressed)
  <2> DEFINE input == SwitcherInput(k, pressed)
  <2>1. switcher' = [physical |-> Toggled(switcher.physical, k, pressed),
                     suppressed |-> IF ~pressed THEN switcher.suppressed \ {k}
                                    ELSE IF input = "none" THEN switcher.suppressed
                                    ELSE switcher.suppressed \cup {k},
                     active |-> switcher.active \/ input = "cycle"]
    BY <1>3 DEF SwitcherEvent
  <2> HIDE DEF input
  <2> QED BY <2>1 DEF Types, Toggled
<1> QED BY <1>1, <1>2, <1>3

LEMMA PickTyped ==
    ASSUME Types, NEW k \in Keys, NEW pressed \in BOOLEAN, pick' = PickEvent(k, pressed)
    PROVE  pick'.phase \in {"none", "waiting", "resolving"} /\ (pick'.captured => pick'.down)
<1>1. CASE k # EscKey
  BY <1>1 DEF PickEvent, Types
<1>2. CASE k = EscKey
  <2> DEFINE taken == PickTake(k, pressed) /\ ~pick.captured
  <2>1. pick' = [phase |-> IF taken THEN "resolving" ELSE pick.phase, down |-> pressed,
                 captured |-> IF pick.captured THEN pressed ELSE taken]
    BY <1>2 DEF PickEvent
  <2>2. taken => pressed
    BY DEF PickTake
  <2> HIDE DEF taken
  <2> QED BY <2>1, <2>2 DEF Types
<1> QED BY <1>1, <1>2

\* The events of the keyboard: what an item comes from, and what a release leaves.
LEMMA InputTyped ==
    ASSUME KeyHookAssumption, Types, NEW k \in Keys, NEW pressed \in BOOLEAN
    PROVE  /\ SwitcherInput(k, pressed) \in Items \cup {"none"}
           /\ PassedOverInput(k, pressed) \in {"confirm", "none"}
           /\ BindsFire(k, pressed) \subseteq Acts
           /\ SwitcherInput(k, pressed) = "cycle" => published.recent
<1>1. Command(k) \in Items \cup {"none"} /\ Command(k) # "cycle"
  BY DEF Command, Items
<1>2. SwitcherInput(k, pressed) \in Items \cup {"none"}
      /\ (SwitcherInput(k, pressed) = "cycle" => published.recent)
  BY <1>1 DEF SwitcherInput, Items
<1>3. BindsFire(k, pressed) \subseteq Acts
  <2>1. Named(k) \subseteq Rows
    BY DEF Named, Types, KeyHookAssumption
  <2>2. CapturedRow(k) \subseteq Rows
    BY DEF CapturedRow, Types
  <2>3. \A r \in Rows : r.act \in Acts
    BY DEF Rows
  <2> HIDE DEF Types
  <2> QED BY <2>1, <2>2, <2>3 DEF BindsFire
<1> QED BY <1>2, <1>3 DEF PassedOverInput

\* What is true of every branch of the callback.
LEMMA EventKeeps ==
    ASSUME KeyHookAssumption, SessionInv, NEW k \in Keys, NEW pressed \in BOOLEAN,
           KeyEvent(k, pressed), IInv', NEW items, Enqueue(items),
           items \subseteq Items \cup {"none", "plain"},
           "cycle" \in items => published.recent,
           binds' \in {binds, BindsModal(k, pressed), BindsEvent(k, pressed)},
           switcher' \in {switcher, SwitcherPassedOver(k, pressed), SwitcherEvent(k, pressed)},
           pick' = PickEvent(k, pressed),
           shot'.phase = shot.phase, shot'.pair \subseteq Keys,
           (switcher.active /\ published.recent /\ ~pressed /\ k \in Modifiers /\ Held(k, pressed) = {})
                => items = {"confirm"}
    PROVE  SessionInv'
<1>1. /\ batch = <<>> /\ Len(queue) < MaxQueue /\ batch' = batch
      /\ physical' = Toggled(physical, k, pressed)
      /\ last' = IF pressed THEN k ELSE IF last = k THEN NoKey ELSE last
      /\ UNCHANGED <<scene, published, config, reloading, session>>
  BY DEF KeyEvent
<1>2. IInv /\ Types /\ SessionHasAnEnd /\ ReloadIsKnown
  BY DEF SessionInv
<1>3. /\ queue' \in Seq(Items) /\ Len(queue') <= Len(queue) + 1
      /\ \A x : Waits(x, queue) => Waits(x, queue')
      /\ \A x : Waits(x, queue') => Waits(x, queue) \/ x \in items
      /\ \A x \in Items : items = {x} => Waits(x, queue')
  BY <1>2, EnqueueAppends DEF Types
<1>4. Types'
  <2>1. Shapes
    BY <1>2 DEF IInv
  <2>2. /\ binds'.down \subseteq Keys /\ binds'.captured \subseteq Rows /\ binds'.inhibited \in BOOLEAN
        /\ \A r, s \in binds'.captured : r.key = s.key => r = s
    BY <1>2, <2>1, BindsTyped
  <2>3. /\ switcher'.suppressed \subseteq switcher'.physical /\ switcher'.physical \subseteq Keys
        /\ switcher'.active \in BOOLEAN
    BY <1>2, <2>1, SwitcherTyped
  <2>4. pick'.phase \in {"none", "waiting", "resolving"} /\ (pick'.captured => pick'.down)
    BY <1>2, PickTyped
  <2>5. Len(queue') + Len(batch') <= MaxQueue
    BY <1>1, <1>2, <1>3 DEF Types, KeyHookAssumption
  <2>6. physical' \subseteq Keys /\ last' \in physical' \cup {NoKey}
    BY <1>1, <1>2 DEF Types, Toggled
  <2> QED BY <1>1, <1>2, <1>3, <2>2, <2>3, <2>4, <2>5, <2>6 DEF Types
<1>5. SessionHasAnEnd'
  <2> SUFFICES ASSUME session'
               PROVE  /\ switcher'.active /\ config'.recent /\ published'.recent
                      /\ physical' \cap Modifiers = {} => Pending("confirm")'
    BY DEF SessionHasAnEnd
  <2>1. switcher.active /\ config'.recent /\ published'.recent /\ published.recent
    BY <1>1, <1>2 DEF SessionHasAnEnd
  <2>2. switcher'.active
    BY <1>2, <2>1, SwitcherTyped DEF IInv
  <2>3. ASSUME physical' \cap Modifiers = {} PROVE Waits("confirm", queue')
    <3>1. CASE physical \cap Modifiers = {}
      <4>1. Waits("confirm", queue) \/ Waits("confirm", batch)
        BY <1>1, <1>2, <3>1 DEF SessionHasAnEnd, Pending
      <4>2. ~Waits("confirm", batch)
        BY <1>1 DEF Waits
      <4> QED BY <1>3, <4>1, <4>2
    <3>2. CASE physical \cap Modifiers # {}
      <4>1. ~pressed /\ k \in Modifiers
        BY <1>1, <2>3, <3>2 DEF Toggled
      <4>2. switcher.physical \cap Modifiers = physical \cap Modifiers
        BY <1>2 DEF IInv, ModifiersAreTracked
      <4>3. Held(k, pressed) = {}
        BY <1>1, <2>3, <4>1, <4>2 DEF Held, Toggled
      <4> QED BY <1>3, <2>1, <4>1, <4>3 DEF Items
    <3> QED BY <3>1, <3>2
  <2> QED BY <2>1, <2>2, <2>3 DEF Pending
<1>6. ReloadIsKnown'
  <2>1. ASSUME Pending("cycle")' PROVE Pending("cycle") \/ published.recent
    <3>1. ~Waits("cycle", batch') 
      BY <1>1 DEF Waits
    <3> QED BY <1>3, <2>1, <3>1 DEF Pending
  <2> QED BY <1>1, <1>2, <2>1 DEF ReloadIsKnown
<1> QED BY <1>4, <1>5, <1>6 DEF SessionInv

LEMMA KeyEventKeeps ==
    ASSUME KeyHookAssumption, SessionInv, NEW k \in Keys, NEW pressed \in BOOLEAN,
           KeyEvent(k, pressed), IInv'
    PROVE  SessionInv'
<1>1. IInv /\ Types /\ Shapes
  BY DEF SessionInv, IInv
<1>2. /\ SwitcherInput(k, pressed) \in Items \cup {"none"}
      /\ PassedOverInput(k, pressed) \in {"confirm", "none"}
      /\ BindsFire(k, pressed) \subseteq Acts
      /\ SwitcherInput(k, pressed) = "cycle" => published.recent
  BY <1>1, InputTyped
<1>3. shot = [phase |-> shot.phase, pair |-> shot.pair]
  BY <1>1 DEF Shapes
<1> DEFINE ending == switcher.active /\ published.recent /\ ~pressed /\ k \in Modifiers /\ Held(k, pressed) = {}
<1>4. shot.pair \subseteq Keys
  BY <1>1 DEF Types
<1>5. ending => PassedOverInput(k, pressed) = "confirm"
  BY DEF PassedOverInput
<1>6. CASE ThroughPick(k, pressed)
  <2> DEFINE items == IF pick'.phase # pick.phase THEN {"picked"} ELSE {}
  <2>1. Enqueue(items) /\ binds' = binds /\ switcher' = switcher /\ pick' = PickEvent(k, pressed)
        /\ shot' = shot
    BY <1>6 DEF ThroughPick
  <2>2. ~ending
    BY <1>6 DEF ThroughPick, PickTake, KeyHookAssumption
  <2>3. items \subseteq Items \cup {"none", "plain"} /\ "cycle" \notin items
    BY DEF Items
  <2> HIDE DEF items
  <2> QED BY <1>4, <2>1, <2>2, <2>3, EventKeeps
<1>7. CASE ThroughShot(k, pressed)
  <2> DEFINE items == {PassedOverInput(k, pressed)}
  <2>1. Enqueue(items) /\ binds' = BindsModal(k, pressed) /\ switcher' = SwitcherPassedOver(k, pressed)
        /\ pick' = PickEvent(k, pressed)
    BY <1>7 DEF ThroughShot, Follow
  <2>2. shot'.phase = shot.phase /\ shot'.pair \subseteq Keys
    BY <1>3, <1>4, <1>7 DEF ThroughShot
  <2>3. items \subseteq Items \cup {"none", "plain"} /\ "cycle" \notin items
    BY <1>2 DEF Items
  <2>4. ending => items = {"confirm"}
    BY <1>5
  <2> HIDE DEF items
  <2> QED BY <2>1, <2>2, <2>3, <2>4, EventKeeps
<1>8. CASE ThroughSheet(k, pressed)
  <2> DEFINE items == {PassedOverInput(k, pressed)}
  <2>1. Enqueue(items) /\ binds' = BindsModal(k, pressed) /\ switcher' = SwitcherPassedOver(k, pressed)
        /\ pick' = PickEvent(k, pressed) /\ shot' = shot
    BY <1>8 DEF ThroughSheet, Follow
  <2>3. items \subseteq Items \cup {"none", "plain"} /\ "cycle" \notin items
    BY <1>2 DEF Items
  <2>4. ending => items = {"confirm"}
    BY <1>5
  <2> HIDE DEF items
  <2> QED BY <1>4, <2>1, <2>3, <2>4, EventKeeps
<1>9. CASE ThroughSwitcher(k, pressed)
  <2> DEFINE items == {SwitcherInput(k, pressed)}
  <2>1. Enqueue(items) /\ binds' = BindsModal(k, pressed) /\ switcher' = SwitcherEvent(k, pressed)
        /\ pick' = PickEvent(k, pressed) /\ shot' = shot
    BY <1>9 DEF ThroughSwitcher, Follow
  <2>3. items \subseteq Items \cup {"none", "plain"} /\ ("cycle" \in items => published.recent)
    BY <1>2 DEF Items
  <2>4. ending => items = {"confirm"}
    BY DEF SwitcherInput
  <2> HIDE DEF items
  <2> QED BY <1>4, <2>1, <2>3, <2>4, EventKeeps
<1>10. CASE ThroughBinds(k, pressed)
  <2> DEFINE items == BindsFire(k, pressed)
  <2>1. Enqueue(items) /\ binds' = BindsEvent(k, pressed) /\ switcher' = SwitcherEvent(k, pressed)
        /\ pick' = PickEvent(k, pressed) /\ shot' = shot
    BY <1>10 DEF ThroughBinds
  <2>2. ~ending
    BY <1>10 DEF ThroughBinds, SwitcherOwns
  <2>3. items \subseteq Items \cup {"none", "plain"} /\ "cycle" \notin items
    BY <1>2 DEF Items, Acts
  <2> HIDE DEF items
  <2> QED BY <1>4, <2>1, <2>2, <2>3, EventKeeps
<1> QED BY <1>6, <1>7, <1>8, <1>9, <1>10 DEF KeyEvent

\* The message loop does one item of its batch.
LEMMA DoWorkKeeps ==
    ASSUME KeyHookAssumption, SessionInv, DoWork, IInv'
    PROVE  SessionInv'
<1> DEFINE done == Head(batch)
<1>1. IInv /\ Types /\ Shapes /\ SessionHasAnEnd /\ ReloadIsKnown
  BY DEF SessionInv, IInv
<1>2. /\ batch \in Seq(Items) /\ batch # <<>> /\ batch' = Tail(batch) /\ queue \in Seq(Items)
      /\ UNCHANGED <<scene, physical, last, published, config>>
      /\ reloading' = Settled(reloading, queue', batch')
  BY <1>1 DEF DoWork, Types
<1>3. /\ done \in Items /\ batch' \in Seq(Items) /\ Len(batch') = Len(batch) - 1
      /\ \A x : Waits(x, batch') => Waits(x, batch)
      /\ \A x : Waits(x, batch) => x = done \/ Waits(x, batch')
      /\ Waits(done, batch)
  <2>1. /\ Len(batch) \in Nat \ {0} /\ done = batch[1] /\ done \in Items
        /\ batch' \in Seq(Items) /\ Len(batch') = Len(batch) - 1
        /\ \A i \in 1 .. Len(batch') : batch'[i] = batch[i + 1]
    BY <1>2
  <2> HIDE DEF done
  <2>2. ASSUME NEW x, Waits(x, batch') PROVE Waits(x, batch)
    <3>1. PICK i \in 1 .. Len(batch') : batch'[i] = x
      BY <2>2 DEF Waits
    <3>2. i + 1 \in 1 .. Len(batch) /\ batch[i + 1] = x
      BY <2>1, <3>1
    <3> QED BY <3>2 DEF Waits
  <2>3. ASSUME NEW x, Waits(x, batch), x # done PROVE Waits(x, batch')
    <3>1. PICK i \in 1 .. Len(batch) : batch[i] = x
      BY <2>3 DEF Waits
    <3>2. i # 1
      BY <2>1, <2>3, <3>1
    <3>3. i - 1 \in 1 .. Len(batch') /\ batch'[i - 1] = x
      <4>1. i - 1 \in 1 .. Len(batch')
        BY <2>1, <3>1, <3>2
      <4>2. batch'[i - 1] = batch[(i - 1) + 1]
        BY <2>1, <4>1
      <4>3. (i - 1) + 1 = i
        BY <3>1
      <4> QED BY <3>1, <4>1, <4>2, <4>3
    <3> QED BY <3>3 DEF Waits
  <2>4. Waits(done, batch)
    BY <2>1 DEF Waits
  <2> QED BY <2>1, <2>2, <2>3, <2>4
\* The switcher's part: the session ends, or it is left, or Alt+Tab (re)opens it.
<1>4. \/ session' = FALSE /\ queue' = queue /\ switcher'.active = FALSE
      \/ /\ session' = session /\ queue' = queue /\ switcher'.active = switcher.active
         /\ session => done # "confirm"
      \/ /\ done = "cycle" /\ config.recent /\ session' \in BOOLEAN /\ switcher'.active = session'
         /\ Enqueue(IF session' /\ switcher.physical \cap Modifiers = {} THEN {"confirm"} ELSE {})
  <2>1. ASSUME SwitcherWork(done), done # "cycle"
        PROVE  \/ NoSession /\ queue' = queue
               \/ /\ session' = session /\ queue' = queue /\ switcher' = switcher
                  /\ session => done # "confirm"
    BY <2>1 DEF SwitcherWork
  <2>2. ASSUME SwitcherWork(done), done = "cycle", config.recent PROVE Cycle
    BY <2>2 DEF SwitcherWork
  <2>3. ASSUME SwitcherWork(done), ~config.recent PROVE NoSession /\ queue' = queue
    BY <2>3 DEF SwitcherWork
  <2>4. NoSession => session' = FALSE /\ switcher'.active = FALSE
    BY <1>1 DEF NoSession, Shapes
  <2>5. Cycle => /\ session' \in BOOLEAN /\ switcher'.active = session'
                 /\ Enqueue(IF session' /\ switcher.physical \cap Modifiers = {} THEN {"confirm"} ELSE {})
    <3>1. ASSUME NEW open \in {TRUE, session}, session' = open,
                 switcher' = [switcher EXCEPT !.active = open],
                 Enqueue(IF open /\ switcher.physical \cap Modifiers = {} THEN {"confirm"} ELSE {})
          PROVE  /\ session' \in BOOLEAN /\ switcher'.active = session'
                 /\ Enqueue(IF session' /\ switcher.physical \cap Modifiers = {} THEN {"confirm"} ELSE {})
      <4>1. switcher'.active = open
        BY <1>1, <3>1 DEF Shapes
      <4> QED BY <1>1, <3>1, <4>1 DEF Types
    <3> QED BY <3>1 DEF Cycle
  <2>6. \/ SwitcherWork(done)
        \/ session' = session /\ queue' = queue /\ switcher' = switcher /\ done # "confirm"
    BY DEF DoWork
  <2> QED BY <2>1, <2>2, <2>3, <2>4, <2>5, <2>6
<1>5. /\ queue' \in Seq(Items) /\ Len(queue') <= Len(queue) + 1
      /\ \A x : Waits(x, queue) => Waits(x, queue')
      /\ \A x : Waits(x, queue') => Waits(x, queue) \/ x = "confirm"
      /\ session' /\ ~session /\ switcher.physical \cap Modifiers = {} => Waits("confirm", queue')
  <2> DEFINE items == IF session' /\ switcher.physical \cap Modifiers = {} THEN {"confirm"} ELSE {}
  <2>1. CASE queue' = queue /\ ~(session' /\ ~session)
    <3>1. Len(queue) \in Nat
      BY <1>2
    <3> QED BY <1>2, <2>1, <3>1
  <2>2. CASE Enqueue(items)
    <3>1. items \subseteq Items \cup {"none", "plain"} /\ "confirm" \in Items
      BY DEF Items
    <3>2. \A x : x \in items => x = "confirm"
      OBVIOUS
    <3>3. session' /\ switcher.physical \cap Modifiers = {} => items = {"confirm"}
      OBVIOUS
    <3> HIDE DEF items
    <3> QED BY <1>2, <2>2, <3>1, <3>2, <3>3, EnqueueAppends
  <2> QED BY <1>4, <2>1, <2>2
<1>6. Types'
  <2>1. binds' = [down |-> binds.down, captured |-> binds.captured, inhibited |-> binds'.inhibited]
        /\ binds'.inhibited \in BOOLEAN
    BY <1>1 DEF DoWork, Shapes, Types
  <2>2. switcher' = [physical |-> switcher.physical, suppressed |-> switcher.suppressed,
                     active |-> switcher'.active]
    <3>1. ASSUME NEW work, SwitcherWork(work) PROVE switcher' = switcher
                \/ \E b : switcher' = [switcher EXCEPT !.active = b]
      BY <3>1 DEF SwitcherWork, NoSession, Cycle
    <3> QED BY <3>1, <1>1 DEF DoWork, Shapes
  <2>3. switcher'.active \in BOOLEAN /\ session' \in BOOLEAN
    BY <1>1, <1>4 DEF Types
  <2>4. shot'.phase \in {"closed", "opening", "up"} /\ shot'.pair = shot.pair
    BY <1>1 DEF DoWork, ShotOpening, Shapes, Types
  <2>5. pick'.phase \in {"none", "waiting", "resolving"} /\ pick'.down = pick.down
        /\ pick'.captured = pick.captured
    BY <1>1 DEF DoWork, Shapes, Types
  <2>6. Len(queue') + Len(batch') <= MaxQueue
    BY <1>1, <1>2, <1>3, <1>5 DEF Types, KeyHookAssumption
  <2>7. reloading' \in {"no", "sent", "arrived"}
    BY <1>1, <1>2 DEF Settled, Types
  <2>8. /\ binds'.down = binds.down /\ binds'.captured = binds.captured
        /\ switcher'.physical = switcher.physical /\ switcher'.suppressed = switcher.suppressed
    BY <2>1, <2>2
  <2> QED BY <1>1, <1>2, <1>3, <1>5, <2>1, <2>3, <2>4, <2>5, <2>6, <2>7, <2>8 DEF Types
<1>7. SessionHasAnEnd'
  <2> SUFFICES ASSUME session'
               PROVE  /\ switcher'.active /\ config.recent /\ published.recent
                      /\ physical \cap Modifiers = {} => Pending("confirm")'
    BY <1>2 DEF SessionHasAnEnd
  <2>1. switcher'.active
    BY <1>1, <1>4 DEF SessionHasAnEnd
  <2>2. config.recent
    BY <1>1, <1>4 DEF SessionHasAnEnd
  <2>3. published.recent
    <3>1. CASE session
      BY <1>1, <3>1 DEF SessionHasAnEnd
    <3>2. CASE ~session
      <4>1. done = "cycle" /\ Pending("cycle")
        BY <1>3, <1>4, <3>2 DEF Pending
      <4> QED BY <1>1, <2>2, <4>1 DEF ReloadIsKnown
    <3> QED BY <3>1, <3>2
  <2>4. ASSUME physical \cap Modifiers = {} PROVE Pending("confirm")'
    <3>1. switcher.physical \cap Modifiers = {}
      BY <1>1, <2>4 DEF IInv, ModifiersAreTracked
    <3>2. CASE ~session
      BY <1>5, <3>1, <3>2 DEF Pending
    <3>3. CASE session
      <4>1. Waits("confirm", queue) \/ Waits("confirm", batch)
        BY <1>1, <2>4, <3>3 DEF SessionHasAnEnd, Pending
      <4>2. done # "confirm"
        BY <1>4, <3>3
      <4> QED BY <1>3, <1>5, <4>1, <4>2 DEF Pending
    <3> QED BY <3>2, <3>3
  <2> QED BY <2>1, <2>2, <2>3, <2>4
<1>8. ReloadIsKnown'
  <2>1. Pending("cycle")' => Pending("cycle")
    BY <1>3, <1>5 DEF Pending
  <2>2. reloading' # reloading => reloading = "arrived" /\ reloading' = "no" /\ ~Pending("cycle")'
    <3>1. queue' = <<>> /\ batch' = <<>> => ~Pending("cycle")'
      BY DEF Pending, Waits
    <3> QED BY <1>2, <3>1 DEF Settled
  <2> QED BY <1>1, <1>2, <2>1, <2>2 DEF ReloadIsKnown
<1> QED BY <1>6, <1>7, <1>8 DEF SessionInv

\* The steps that only hand work over, change the configuration or a surface.
LEMMA OtherKeeps ==
    ASSUME KeyHookAssumption, SessionInv, IInv', NEW c \in Configs,
           \/ TakeWork \/ ReloadHotkeys \/ SetConfig(c) \/ SessionLost \/ Surfaces \/ UNCHANGED vars
    PROVE  SessionInv'
<1>1. IInv /\ Types /\ Shapes /\ SessionHasAnEnd /\ ReloadIsKnown
  BY DEF SessionInv, IInv
<1>2. ~Waits("cycle", <<>>) /\ ~Waits("confirm", <<>>)
  BY DEF Waits
<1>3. CASE TakeWork
  <2>1. /\ batch = <<>> /\ batch' = queue /\ queue' = <<>>
        /\ UNCHANGED <<scene, physical, last, published, hookVars, config, reloading, session, owner>>
    BY <1>3 DEF TakeWork
  <2>2. Types'
    BY <1>1, <2>1 DEF Types, hookVars
  <2>3. \A x \in {"cycle", "confirm"} : Pending(x)' <=> Pending(x)
    BY <1>2, <2>1 DEF Pending
  <2> QED BY <1>1, <2>1, <2>2, <2>3 DEF SessionInv, SessionHasAnEnd, ReloadIsKnown, hookVars
<1>4. CASE ReloadHotkeys
  <2>1. /\ reloading = "sent" /\ reloading' = Settled("arrived", queue, batch) /\ published' = config
        /\ UNCHANGED <<scene, physical, last, hookVars, queue, batch, config, session, owner>>
    BY <1>4 DEF ReloadHotkeys
  <2>2. Types'
    BY <1>1, <2>1 DEF Types, hookVars, Settled
  <2>3. \A x : Pending(x)' <=> Pending(x)
    BY <2>1 DEF Pending
  <2>4. reloading' # "arrived" => ~Pending("cycle")
    BY <1>2, <2>1 DEF Settled, Pending
  <2>5. SessionHasAnEnd'
    BY <1>1, <2>1, <2>3 DEF SessionHasAnEnd, hookVars
  <2> QED BY <1>1, <2>1, <2>2, <2>3, <2>4, <2>5 DEF SessionInv, ReloadIsKnown
<1>5. CASE SetConfig(c)
  <2>1. /\ config' = c /\ reloading = "no" /\ reloading' = "sent" /\ session' = FALSE
        /\ switcher' = [switcher EXCEPT !.active = FALSE]
        /\ UNCHANGED <<scene, physical, last, published, binds, tap, pick, shot, sheet, queue, batch, owner>>
    BY <1>5 DEF SetConfig, NoSession
  <2>2. Types'
    BY <1>1, <2>1 DEF Types, Shapes
  <2>3. \A x : Pending(x)' <=> Pending(x)
    BY <2>1 DEF Pending
  <2> QED BY <1>1, <2>1, <2>2, <2>3 DEF SessionInv, SessionHasAnEnd, ReloadIsKnown
<1>6. CASE SessionLost
  <2>1. /\ session' = FALSE /\ switcher' = [switcher EXCEPT !.active = FALSE]
        /\ UNCHANGED <<scene, physical, last, published, binds, tap, pick, shot, sheet, queue, batch,
                       config, reloading, owner>>
    BY <1>6 DEF SessionLost, NoSession
  <2>2. Types'
    BY <1>1, <2>1 DEF Types, Shapes
  <2>3. \A x : Pending(x)' <=> Pending(x)
    BY <2>1 DEF Pending
  <2> QED BY <1>1, <2>1, <2>2, <2>3 DEF SessionInv, SessionHasAnEnd, ReloadIsKnown
<1>7. CASE Surfaces
  <2>1. UNCHANGED <<scene, physical, last, published, binds, tap, switcher, queue, batch, config,
                    reloading, session, owner>>
    BY <1>7 DEF Surfaces
  <2>2. shot'.phase \in {"closed", "opening", "up"} /\ shot'.pair = shot.pair
    BY <1>1, <1>7 DEF Surfaces, ShotOpening, Shapes, Types
  <2>3. pick'.phase \in {"none", "waiting", "resolving"} /\ pick'.down = pick.down
        /\ pick'.captured = pick.captured
    BY <1>1, <1>7 DEF Surfaces, Shapes, Types
  <2>4. Types'
    BY <1>1, <2>1, <2>2, <2>3 DEF Types
  <2>5. \A x : Pending(x)' <=> Pending(x)
    BY <2>1 DEF Pending
  <2> QED BY <1>1, <2>1, <2>4, <2>5 DEF SessionInv, SessionHasAnEnd, ReloadIsKnown
<1>8. CASE UNCHANGED vars
  <2>1. \A x : Pending(x)' <=> Pending(x)
    BY <1>8 DEF Pending, vars
  <2> QED BY <1>1, <1>8, <2>1 DEF SessionInv, SessionHasAnEnd, ReloadIsKnown, Types, vars, hookVars
<1> QED BY <1>3, <1>4, <1>5, <1>6, <1>7, <1>8

LEMMA SessionInitially == KeyHookAssumption /\ Init => SessionInv
<1> SUFFICES ASSUME KeyHookAssumption, Init PROVE SessionInv
  OBVIOUS
<1>1. IInv
  BY Initially
<1>2. ~Pending("cycle")
  BY DEF Init, Pending, Waits
<1>3. Types
  <2>1. scene \in Scenes /\ config \in Configs /\ published \in Configs
    BY DEF Init, KeyHookAssumption
  <2>2. queue \in Seq(Items) /\ batch \in Seq(Items) /\ Len(queue) + Len(batch) <= MaxQueue
    <3>1. queue = <<>> /\ batch = <<>> /\ MaxQueue \in Nat
      BY DEF Init, KeyHookAssumption
    <3> QED BY <3>1
  <2>3. /\ binds.down = {} /\ binds.captured = {} /\ binds.inhibited = FALSE
        /\ switcher.physical = {} /\ switcher.suppressed = {} /\ switcher.active = FALSE
        /\ pick.phase = "none" /\ pick.captured = FALSE /\ shot.phase = "closed" /\ shot.pair = {}
    BY DEF Init
  <2>4. physical = {} /\ last = NoKey /\ session = FALSE /\ reloading = "no"
    BY DEF Init
  <2> QED BY <2>1, <2>2, <2>3, <2>4 DEF Types
<1> QED BY <1>1, <1>2, <1>3 DEF SessionInv, SessionHasAnEnd, ReloadIsKnown, Init

\* Whatever is pressed, released, reloaded, opened and lost: the engine's session has an end,
\* for any keys, binds, configurations and scenes (src/input/recent.rs:91).
THEOREM SessionInvariance == Spec => []SessionInv
<1>1. Init => SessionInv
  BY SessionInitially, KeyHookAssumption
<1>2. SessionInv /\ [Next]_vars => SessionInv'
  <2> SUFFICES ASSUME SessionInv, [Next]_vars PROVE SessionInv'
    OBVIOUS
  <2>1. IInv'
    BY Inductive, KeyHookAssumption DEF SessionInv
  <2>2. ASSUME NEW k \in Keys, NEW pressed \in BOOLEAN, KeyEvent(k, pressed) PROVE SessionInv'
    BY <2>1, <2>2, KeyEventKeeps, KeyHookAssumption
  <2>3. CASE DoWork
    BY <2>1, <2>3, DoWorkKeeps, KeyHookAssumption
  <2>4. config \in Configs /\ scene.configs \subseteq Configs
    BY KeyHookAssumption DEF SessionInv, Types
  <2>5. CASE TakeWork \/ ReloadHotkeys \/ SessionLost \/ Surfaces \/ UNCHANGED vars
    BY <2>1, <2>4, <2>5, OtherKeeps, KeyHookAssumption
  <2>6. ASSUME NEW c \in scene.configs, SetConfig(c) PROVE SessionInv'
    BY <2>1, <2>4, <2>6, OtherKeeps, KeyHookAssumption
  <2> QED BY <2>2, <2>3, <2>5, <2>6 DEF Next
<1> QED BY <1>1, <1>2, PTL DEF Spec

LEMMA EmptyWorkEndsNothing ==
    ASSUME SessionInv
    PROVE  TypeOK /\ NoSessionWithoutModifier
<1>1. queue = <<>> /\ batch = <<>> => ~Pending("confirm")
  BY DEF Pending, Waits
<1> QED BY <1>1 DEF SessionInv, SessionHasAnEnd, NoSessionWithoutModifier, TypeOK, Types

\* Types, the queue within its bound, and one row captured for a key.
THEOREM TypeCorrect == Spec => []TypeOK
BY SessionInvariance, EmptyWorkEndsNothing, PTL

\* With the work done, no recent-windows session outlives its modifiers.
THEOREM SessionsEnd == Spec => []NoSessionWithoutModifier
BY SessionInvariance, EmptyWorkEndsNothing, PTL
=============================================================================
