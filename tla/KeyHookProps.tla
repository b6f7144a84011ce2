---------------------------- MODULE KeyHookProps ----------------------------
(***************************************************************************)
(* What the keyboard hook promises to applications and to the user.        *)
(***************************************************************************)
EXTENDS KeyHook

\* Types; and a key is captured for one row at a time, as `captured` maps keys to
\* rows (src/input/keyboard.rs:302).
TypeOK ==
    /\ scene \in Scenes /\ physical \subseteq Keys /\ last \in physical \cup {NoKey}
    /\ published \in Configs /\ config \in Configs
    /\ binds.down \subseteq Keys /\ binds.captured \subseteq Rows /\ binds.inhibited \in BOOLEAN
    /\ \A r, s \in binds.captured : r.key = s.key => r = s
    /\ switcher.suppressed \subseteq switcher.physical /\ switcher.physical \subseteq Keys
    /\ pick.phase \in {"none", "waiting", "resolving"} /\ (pick.captured => pick.down)
    /\ shot.phase \in {"closed", "opening", "up"} /\ shot.pair \subseteq Keys
    /\ Len(queue) + Len(batch) <= MaxQueue

\* What the bind engine, the pick and the screenshot session take, they take whole: if
\* one of them took the first down of a key, its repeats and its up never reach an
\* application, whatever is reloaded, inhibited, opened or closed meanwhile
\* (src/input/keyboard.rs:1-4, src/ipc/pick.rs:117, src/overlay/screenshot_ui.rs:97).
WholePresses == stray = <<>> \/ stray[1] \notin {"binds", "pick", "shot"}

\* Whoever takes an event, the bind engine and the switcher agree with the keyboard on the
\* modifiers that are down: no bind fires, and no session ends, by a modifier that is long up
\* (src/input/keyboard.rs:275, src/input/recent.rs:143).
ModifiersAreTracked ==
    /\ binds.down \cap Modifiers = physical \cap Modifiers
    /\ switcher.physical \cap Modifiers = physical \cap Modifiers

\* When the queue is worked off no recent-windows session is left over whose modifiers
\* are all up: the release that would confirm it came, or was sent after
\* (set_active, src/input/recent.rs:91-104).
NoSessionWithoutModifier ==
    queue = <<>> /\ batch = <<>> /\ session => switcher.active /\ physical \cap Modifiers # {}

\* Violated.  src/input/recent.rs:94: "Never clear suppression: swallowed downs still own
\* their matching ups", and the test second_tap_repeat_and_up_are_paired of double Alt:
\* the up of a key whose down an application never saw is not given to it.
SwallowedDownsOwnTheirUps == stray = <<>> \/ stray[2] # "app"
=============================================================================
