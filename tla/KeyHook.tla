------------------------------ MODULE KeyHook ------------------------------
(***************************************************************************)
(* What happens to a key: the low-level keyboard hook and the five parties *)
(* in it that may swallow an event (src/input/low_level_hook.rs), in the   *)
(* order of the callback                                                   *)
(*                                                                         *)
(*   pick      Escape ends an interactive pick       src/ipc/pick.rs       *)
(*   shot      the screenshot session     src/overlay/screenshot_ui.rs     *)
(*   sheet     a key closes the hotkey sheet  overlay/bindings_cheatsheet.rs *)
(*   switcher  Alt+Tab and its session        src/input/recent.rs          *)
(*   binds     the bind engine                src/input/keyboard.rs        *)
(*   tap       double Alt                     src/input/double_alt.rs      *)
(*                                                                         *)
(* and the work they queue (src/input/dispatch.rs), which the thread of    *)
(* the hook handles between two events.  Configuration reloads, windows    *)
(* and IPC clients act on other threads, between any two steps.            *)
(***************************************************************************)
EXTENDS Naturals, Sequences

CONSTANTS Keys,        \* virtual keys
          Modifiers,   \* those that are modifiers
          AltKey,      \* the modifier of double Alt and of the recent-windows chord
          TabKey,      \* the other key of that chord
          EscKey,
          NoKey,
          Configs,     \* [rows : binds, recent : is the switcher enabled]
          Scenes,      \* bound: what one behaviour uses: [keys, surfaces, configs]
          MaxQueue     \* bound: the user is not faster than this

Acts == {"plain", "sheet", "shot", "inhibit"}
Rows == [key : Keys \ Modifiers, mods : SUBSET Modifiers, act : Acts,
         release : BOOLEAN, repeat : BOOLEAN, inhibitable : BOOLEAN]

\* A bind is found by its modifiers and its key: there is one at most.
ASSUME KeyHookAssumption ==
    /\ Modifiers \subseteq Keys /\ AltKey \in Modifiers
    /\ TabKey \in Keys \ Modifiers /\ EscKey \in Keys \ Modifiers /\ NoKey \notin Keys
    /\ \A c \in Configs :
        /\ c.rows \subseteq Rows /\ c.recent \in BOOLEAN
        /\ \A r, s \in c.rows : r.key = s.key /\ r.mods = s.mods => r = s
    /\ \A s \in Scenes : s.keys \subseteq Keys /\ s.configs \subseteq Configs /\ s.surfaces \subseteq {"pick", "shot", "sheet"}
    /\ MaxQueue \in Nat \ {0}

VARIABLES
    scene,      \* what this behaviour uses
    \* the keyboard
    physical,   \* the keys that are down
    last,       \* the key that repeats: the one pressed last
    \* the hook's thread
    published,  \* the configuration the hook works with
    binds,      \* KeyboardEngine: down, captured, inhibited
    tap,        \* DoubleAlt: first, held, swallowed
    switcher,   \* input/recent.rs: KEYS (physical, suppressed) and ACTIVE
    pick,       \* the pick: phase, and what it knows of Escape
    shot,       \* the screenshot session: phase, and KEYS
    sheet,      \* the hotkey sheet: visible, and CONSUMED
    queue,      \* dispatch QUEUE
    batch,      \* what dispatch::take handed to the message loop
    \* the engine
    config,     \* full_config
    reloading,  \* WM_RELOAD_HOTKEYS: "no", "sent", or "arrived" with older work still to do
    session,    \* RecentState.session is there
    \* history
    owner,      \* who took the first down of a key that is down
    stray       \* of the last event: <<owner, who took it>> if the two disagree

hookVars == <<binds, tap, switcher, pick, shot, sheet>>
vars == <<scene, physical, last, published, hookVars, queue, batch, config, reloading, session, owner, stray>>

Toggled(S, k, in) == IF in THEN S \cup {k} ELSE S \ {k}

(***************************************************************************)
(* The bind engine                                                         *)
(***************************************************************************)

\* A key-down that reached the application is not captured later.
CapturedRow(k) == {r \in binds.captured : r.key = k}
InUse(r) == ~binds.inhibited \/ ~r.inhibitable \/ r.act = "inhibit"

BindsModal(k, pressed) ==
    [binds EXCEPT !.down = Toggled(@, k, pressed),
                  !.captured = IF pressed THEN @ ELSE @ \ CapturedRow(k)]

\* The row a fresh key-down names, with the modifiers that are down now.
Named(k) ==
    {r \in published.rows : r.key = k /\ r.mods = binds.down \cap Modifiers /\ InUse(r)}

BindsTake(k, pressed) ==
    /\ k \notin Modifiers
    /\ \/ CapturedRow(k) # {}
       \/ pressed /\ k \notin binds.down /\ Named(k) # {}

\* Mutant: a repeat may capture once more.
BindsEventRecaptures(k, pressed) ==
    LET fresh == pressed /\ k \notin Modifiers /\ Named(k) # {}
    IN  [binds EXCEPT !.down = Toggled(@, k, pressed),
                      !.captured = IF fresh THEN @ \cup Named(k)
                                   ELSE IF pressed \/ k \in Modifiers THEN @ ELSE @ \ CapturedRow(k)]

BindsEvent(k, pressed) ==
    LET fresh == BindsTake(k, pressed) /\ CapturedRow(k) = {}
    IN  [binds EXCEPT !.down = Toggled(@, k, pressed),
                      !.captured = IF fresh THEN @ \cup Named(k)
                                   ELSE IF pressed \/ k \in Modifiers THEN @ ELSE @ \ CapturedRow(k)]

\* The actions the event fires: of a row that was captured now or before.
BindsFire(k, pressed) ==
    IF ~BindsTake(k, pressed) THEN {}
    ELSE IF CapturedRow(k) = {} THEN {r.act : r \in {q \in Named(k) : ~q.release}}
    ELSE {r.act : r \in {q \in CapturedRow(k) : InUse(q) /\ q.release = ~pressed /\ (pressed => q.repeat)}}

(***************************************************************************)
(* Double Alt.  Its verdict counts only where the bind engine is asked.    *)
(***************************************************************************)

TapFirst(k, pressed, allowed) ==
    tap.first /\ allowed /\ (pressed => k = AltKey) /\ binds'.down \cap Modifiers \subseteq {AltKey}

TapSecond(k, pressed, allowed, intime) ==
    /\ k = AltKey /\ pressed /\ ~tap.held /\ ~tap.swallowed
    /\ TapFirst(k, pressed, allowed) /\ intime

TapTake(k, pressed, allowed, intime) ==
    (k = AltKey /\ tap.swallowed) \/ TapSecond(k, pressed, allowed, intime)

TapEvent(k, pressed, allowed, intime) ==
    LET first == TapFirst(k, pressed, allowed)
        second == TapSecond(k, pressed, allowed, intime)
        opens == /\ k = AltKey /\ pressed /\ ~tap.held /\ ~tap.swallowed /\ allowed
                 /\ binds'.down \cap Modifiers \subseteq {AltKey}
    IN  [first |-> IF opens THEN ~second ELSE first,
         held |-> IF k = AltKey THEN pressed ELSE tap.held,
         swallowed |-> IF k = AltKey /\ tap.swallowed THEN pressed ELSE tap.swallowed \/ second]

(***************************************************************************)
(* The work queue, as far as the hook notices what becomes of the work.    *)
(***************************************************************************)

\* An event makes one item at most.
Enqueue(items) ==
    LET work == items \ {"none", "plain"}
    IN  queue' = IF work = {} THEN queue ELSE Append(queue, CHOOSE w \in work : TRUE)

(***************************************************************************)
(* The recent-windows switcher.  held: the modifiers after this event.     *)
(***************************************************************************)

Held(k, pressed) == Toggled(switcher.physical, k, pressed) \cap Modifiers
Ordinary(k, held) == \E r \in published.rows : r.key = k /\ r.mods = held

\* In a session the built-in keys come first, then those of ordinary binds.
Command(k) ==
    IF k = EscKey THEN "cancel"
    ELSE IF \E r \in published.rows : r.key = k /\ r.act = "shot" THEN "screenshot"
    ELSE IF \E r \in published.rows : r.key = k /\ r.act = "plain" THEN "browse"
    ELSE "none"

\* What the switcher makes of an event, as an input for the engine.
SwitcherInput(k, pressed) ==
    LET held == Held(k, pressed) IN
    IF ~published.recent \/ (pressed /\ k \in switcher.suppressed /\ ~switcher.active) THEN "none"
    ELSE IF ~pressed
         THEN IF switcher.active /\ k \in Modifiers /\ held = {} THEN "confirm" ELSE "none"
    ELSE IF k = TabKey /\ held = {AltKey} /\ ~Ordinary(k, held) THEN "cycle"
    ELSE IF switcher.active THEN Command(k)
    ELSE "none"

SwitcherTake(k, pressed) ==
    k \in switcher.suppressed \/ (pressed /\ SwitcherInput(k, pressed) # "none")

SwitcherEvent(k, pressed) ==
    LET input == SwitcherInput(k, pressed)
    IN  [physical |-> Toggled(switcher.physical, k, pressed),
         suppressed |-> IF ~pressed THEN switcher.suppressed \ {k}
                        ELSE IF input = "none" THEN switcher.suppressed ELSE switcher.suppressed \cup {k},
         active |-> switcher.active \/ input = "cycle"]

\* A party in front of the switcher has the event: it keeps track all the same.
SwitcherPassedOver(k, pressed) ==
    [switcher EXCEPT !.physical = Toggled(@, k, pressed),
                     !.suppressed = IF pressed THEN @ ELSE @ \ {k}]

PassedOverInput(k, pressed) ==
    IF published.recent /\ switcher.active /\ ~pressed /\ k \in Modifiers /\ Held(k, pressed) = {}
    THEN "confirm" ELSE "none"

(***************************************************************************)
(* One event of the keyboard, through the whole callback                   *)
(***************************************************************************)

\* Who got the event: "app" if it was passed on.
Delivered(k, pressed, by) ==
    LET first == pressed /\ k \notin physical
    IN  /\ owner' = [owner EXCEPT ![k] = IF first THEN by ELSE IF pressed THEN @ ELSE "app"]
        /\ stray' = IF first \/ (owner[k] = "app" <=> by = "app") THEN <<>> ELSE <<owner[k], by>>

\* Mutant: only presses are followed.
FollowPresses(k, pressed) ==
    /\ binds' = IF pressed THEN BindsModal(k, pressed) ELSE binds
    /\ tap' = TapEvent(k, pressed, FALSE, FALSE)

\* The modal parties let the bind engine and double Alt follow what is down.
\* Nobody asks double Alt here whether it had taken the key.
Follow(k, pressed) ==
    /\ binds' = BindsModal(k, pressed)
    /\ tap' = TapEvent(k, pressed, FALSE, FALSE)

PickTake(k, pressed) ==
    /\ k = EscKey
    /\ pick.captured \/ (pressed /\ ~pick.down /\ pick.phase = "waiting")

PickEvent(k, pressed) ==
    IF k # EscKey THEN pick
    ELSE LET taken == PickTake(k, pressed) /\ ~pick.captured
         IN  [phase |-> IF taken THEN "resolving" ELSE pick.phase,
              down |-> pressed,
              captured |-> IF pick.captured THEN pressed ELSE taken]

ThroughPick(k, pressed) ==
    /\ PickTake(k, pressed)
    /\ pick' = PickEvent(k, pressed)
    /\ Enqueue(IF pick'.phase # pick.phase THEN {"picked"} ELSE {})
    /\ Delivered(k, pressed, "pick")
    /\ UNCHANGED <<binds, tap, switcher, shot, sheet>>

\* While the session is up every key is its own; a pair it took stays taken.
ShotOwns(k) == k \in shot.pair \/ shot.phase = "up"

ThroughShot(k, pressed) ==
    LET takes == k \in shot.pair \/ (shot.phase = "up" /\ pressed /\ k \notin Modifiers)
        captured == k \in {r.key : r \in binds.captured}
    IN  /\ ~PickTake(k, pressed) /\ ShotOwns(k)
        /\ pick' = PickEvent(k, pressed)
        /\ shot' = [shot EXCEPT !.pair =
                        IF ~pressed THEN @ \ {k}
                        ELSE IF shot.phase = "up" /\ k \notin Modifiers THEN @ \cup {k} ELSE @]
        /\ switcher' = SwitcherPassedOver(k, pressed)
        /\ Enqueue({PassedOverInput(k, pressed)})
        /\ Follow(k, pressed)
        /\ Delivered(k, pressed, IF takes THEN "shot" ELSE IF captured THEN "binds" ELSE "app")
        /\ UNCHANGED sheet

SheetTakes(k, pressed) == k \in sheet.consumed \/ (pressed /\ sheet.visible)

ThroughSheet(k, pressed) ==
    /\ ~PickTake(k, pressed) /\ ~ShotOwns(k) /\ SheetTakes(k, pressed)
    /\ pick' = PickEvent(k, pressed)
    /\ sheet' = IF k \in sheet.consumed
                THEN [sheet EXCEPT !.consumed = IF pressed THEN @ ELSE @ \ {k}]
                ELSE [visible |-> FALSE, consumed |-> sheet.consumed \cup {k}]
    /\ switcher' = SwitcherPassedOver(k, pressed)
    /\ Enqueue({PassedOverInput(k, pressed)})
    /\ Follow(k, pressed)
    /\ Delivered(k, pressed, "sheet")
    /\ UNCHANGED shot

SwitcherOwns(k, pressed) ==
    switcher.active \/ SwitcherEvent(k, pressed).active \/ SwitcherTake(k, pressed)

ThroughSwitcher(k, pressed) ==
    LET captured == k \in {r.key : r \in binds.captured}
    IN  /\ ~PickTake(k, pressed) /\ ~ShotOwns(k) /\ ~SheetTakes(k, pressed)
        /\ SwitcherOwns(k, pressed)
        /\ pick' = PickEvent(k, pressed)
        /\ switcher' = SwitcherEvent(k, pressed)
        /\ Enqueue({SwitcherInput(k, pressed)})
        /\ Follow(k, pressed)
        /\ Delivered(k, pressed, IF SwitcherTake(k, pressed) THEN "switcher"
                                ELSE IF captured THEN "binds" ELSE "app")
        /\ UNCHANGED <<shot, sheet>>

ThroughBinds(k, pressed) ==
    LET taken == BindsTake(k, pressed)
    IN  /\ ~PickTake(k, pressed) /\ ~ShotOwns(k) /\ ~SheetTakes(k, pressed)
        /\ ~SwitcherOwns(k, pressed)
        /\ pick' = PickEvent(k, pressed)
        /\ switcher' = SwitcherEvent(k, pressed)
        /\ binds' = BindsEvent(k, pressed)
        /\ Enqueue(BindsFire(k, pressed))
        /\ \E intime \in BOOLEAN :
            /\ tap' = TapEvent(k, pressed, ~taken, intime)
            /\ Delivered(k, pressed, IF TapTake(k, pressed, ~taken, intime) THEN "tap"
                                    ELSE IF taken THEN "binds" ELSE "app")
        /\ UNCHANGED <<shot, sheet>>

\* Only the key that was pressed last repeats.
KeyEvent(k, pressed) ==
    /\ batch = <<>> /\ Len(queue) < MaxQueue
    /\ k \in scene.keys
    /\ IF pressed THEN k \notin physical \/ last = k ELSE k \in physical
    /\ physical' = Toggled(physical, k, pressed)
    /\ last' = IF pressed THEN k ELSE IF last = k THEN NoKey ELSE last
    /\ \/ ThroughPick(k, pressed)
       \/ ThroughShot(k, pressed)
       \/ ThroughSheet(k, pressed)
       \/ ThroughSwitcher(k, pressed)
       \/ ThroughBinds(k, pressed)
    /\ UNCHANGED <<scene, published, batch, config, reloading, session>>

(***************************************************************************)
(* The message loop: it takes the whole queue and works it off before the  *)
(* next event of the keyboard                                              *)
(***************************************************************************)

TakeWork ==
    /\ batch = <<>> /\ queue # <<>>
    /\ batch' = queue /\ queue' = <<>>
    /\ stray' = <<>>
    /\ UNCHANGED <<scene, physical, last, published, hookVars, config, reloading, session, owner>>

\* recent_reset ends the session; set_active(false)
NoSession == session' = FALSE /\ switcher' = [switcher EXCEPT !.active = FALSE]

\* Mutant: nobody sends the release after the session that came too late.
CycleWithoutRelease ==
    \E open \in {TRUE, session} :
        /\ session' = open
        /\ switcher' = [switcher EXCEPT !.active = open]
        /\ UNCHANGED queue

\* The session opens unless the focused window is not wiri's.  If the last modifier
\* went up while nobody listened, its release is sent after all.
Cycle ==
    \E open \in {TRUE, session} :
        /\ session' = open
        /\ switcher' = [switcher EXCEPT !.active = open]
        /\ Enqueue(IF open /\ switcher.physical \cap Modifiers = {} THEN {"confirm"} ELSE {})

SwitcherWork(input) ==
    IF ~config.recent THEN NoSession /\ UNCHANGED queue
    ELSE IF input = "cycle" THEN Cycle
    ELSE /\ \/ session /\ NoSession
            \/ (~session \/ input = "browse") /\ UNCHANGED <<session, switcher>>
         /\ UNCHANGED queue

\* open() of the screenshot UI is a thread's: the session is up a while later.
ShotOpening == shot' = [shot EXCEPT !.phase = IF @ = "closed" THEN "opening" ELSE @]

Settled(state, work, taken) ==
    IF state = "arrived" /\ work = <<>> /\ taken = <<>> THEN "no" ELSE state

DoWork ==
    /\ batch # <<>> /\ batch' = Tail(batch)
    /\ stray' = <<>>
    /\ LET work == Head(batch) IN
       \/ /\ work \in {"cycle", "confirm", "cancel", "browse", "screenshot"}
          /\ SwitcherWork(work)
          /\ IF work = "screenshot" /\ session /\ config.recent THEN ShotOpening ELSE UNCHANGED shot
          /\ UNCHANGED <<binds, sheet, pick>>
       \/ /\ work = "shot" /\ ShotOpening
          /\ UNCHANGED <<binds, sheet, pick, switcher, session, queue>>
       \/ /\ work = "sheet" /\ sheet' = [sheet EXCEPT !.visible = ~@]
          /\ UNCHANGED <<binds, shot, pick, switcher, session, queue>>
       \/ /\ work = "inhibit" /\ binds' = [binds EXCEPT !.inhibited = ~@]
          /\ UNCHANGED <<sheet, shot, pick, switcher, session, queue>>
       \/ /\ work = "picked" /\ pick' = [pick EXCEPT !.phase = "none"]
          /\ UNCHANGED <<binds, sheet, shot, switcher, session, queue>>
    /\ reloading' = Settled(reloading, queue', batch')
    /\ UNCHANGED <<scene, physical, last, published, tap, config, owner>>

\* Mutant: the new table starts without the keys that are captured.
ReloadHotkeysForgets ==
    /\ reloading = "sent" /\ batch = <<>>
    /\ reloading' = Settled("arrived", queue, batch)
    /\ published' = config
    /\ binds' = [binds EXCEPT !.captured = {}]
    /\ stray' = <<>>
    /\ UNCHANGED <<scene, physical, last, tap, switcher, pick, shot, sheet, queue, batch, config, session, owner>>

\* WM_RELOAD_HOTKEYS: the keys that are captured stay captured.
ReloadHotkeys ==
    /\ reloading = "sent" /\ batch = <<>>
    /\ reloading' = Settled("arrived", queue, batch)
    /\ published' = config
    /\ stray' = <<>>
    /\ UNCHANGED <<scene, physical, last, hookVars, queue, batch, config, session, owner>>

(***************************************************************************)
(* Other threads                                                           *)
(***************************************************************************)

\* TilingEngine::set_full_config, and the message to the hook's thread.  Bound: a
\* configuration is not changed again before the work it met is done.
SetConfig(c) ==
    /\ c # config /\ reloading = "no"
    /\ config' = c /\ reloading' = "sent"
    /\ NoSession
    /\ stray' = <<>>
    /\ UNCHANGED <<scene, physical, last, published, binds, tap, pick, shot, sheet, queue, batch, owner>>

\* Another window came to the front, or no window of the session is left.
SessionLost ==
    /\ session /\ NoSession
    /\ stray' = <<>>
    /\ UNCHANGED <<scene, physical, last, published, binds, tap, pick, shot, sheet, queue, batch,
                   config, reloading, owner>>

\* Clients and the user's mouse open and close the surfaces, and begin and end picks.
Surfaces ==
    /\ \/ /\ "sheet" \in scene.surfaces
          /\ sheet' = [sheet EXCEPT !.visible = ~@]
          /\ UNCHANGED <<shot, pick>>
       \/ /\ "shot" \in scene.surfaces /\ shot.phase = "closed" /\ ShotOpening
          /\ UNCHANGED <<sheet, pick>>
       \/ /\ shot.phase = "opening" /\ shot' = [shot EXCEPT !.phase = "up"]
          /\ UNCHANGED <<sheet, pick>>
       \/ /\ shot.phase \in {"opening", "up"} /\ shot' = [shot EXCEPT !.phase = "closed"]
          /\ UNCHANGED <<sheet, pick>>
       \/ /\ "pick" \in scene.surfaces
          /\ pick.phase = "none" /\ ~pick.captured /\ pick' = [pick EXCEPT !.phase = "waiting"]
          /\ UNCHANGED <<sheet, shot>>
       \/ /\ pick.phase # "none" /\ pick' = [pick EXCEPT !.phase = "none"]
          /\ UNCHANGED <<sheet, shot>>
    /\ stray' = <<>>
    /\ UNCHANGED <<scene, physical, last, published, binds, tap, switcher, queue, batch, config,
                   reloading, session, owner>>

Init ==
    /\ scene \in Scenes
    /\ physical = {} /\ last = NoKey
    /\ config \in scene.configs /\ published = config /\ reloading = "no"
    /\ binds = [down |-> {}, captured |-> {}, inhibited |-> FALSE]
    /\ tap = [first |-> FALSE, held |-> FALSE, swallowed |-> FALSE]
    /\ switcher = [physical |-> {}, suppressed |-> {}, active |-> FALSE]
    /\ pick = [phase |-> "none", down |-> FALSE, captured |-> FALSE]
    /\ shot = [phase |-> "closed", pair |-> {}]
    /\ sheet = [visible |-> FALSE, consumed |-> {}]
    /\ queue = <<>> /\ batch = <<>> /\ session = FALSE
    /\ owner = [k \in Keys |-> "app"] /\ stray = <<>>

Next ==
    \/ \E k \in Keys, pressed \in BOOLEAN : KeyEvent(k, pressed)
    \/ TakeWork \/ DoWork \/ ReloadHotkeys
    \/ \E c \in scene.configs : SetConfig(c)
    \/ SessionLost \/ Surfaces

Spec == Init /\ [][Next]_vars
=============================================================================
