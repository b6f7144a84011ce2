# wiri in TLA+

wiri is a scrollable tiling window manager for Windows: it moves, shows and hides the
windows of other programs, which go on living their own lives.  This directory holds TLA+
specifications of the parts of wiri where the order of events matters, the TLC runs that
check them, and proofs that TLAPS checks.

Every definition is translated from the Rust source; `PROJECT.json` maps each one to the
lines it stands for.  Paths below are relative to `src/src/` of the repository.

    tlc -workers 2 -config MonitorScenes.cfg MCScenes    model-check one run
    tlapm HiddenRecord_proofs.tla                       check the proofs of a module

## 1. The system

### Components

| component | source | state it keeps | operations | what makes it correct |
|---|---|---|---|---|
| workspace strip | `layout/workspace.rs` | columns of tiles; stacked or tabbed; the remembered window of each column and of the workspace | insert, remove, consume, expel, swap, move, tab, slot of a minimized window and putting it back | no empty column, a shown tab exists, windows return to their place |
| monitor | `layout/mod.rs` | the workspaces of an output in order, active and previous one, focused column and window, MRU ring | switch, set focus, remove a window and refocus | focus is on a tile that is drawn; ring sound |
| tiling engine | `layout/engine.rs`, `layout/engine/*` | monitors, managed and minimized windows, `last_activated`, applied state | one handler per event, bind and IPC action | each window in one place; an empty workspace at the end; cursors stay |
| outputs, hot-plug | `engine.rs` 1205-1645, `layout/engine/monitor_actions.rs`, `backend/output_runtime.rs` | live outputs in order; records of those that are away, with what was parked where | register, unregister, rebind, take back, adopt; move a workspace to another output | every window and workspace comes back to its output, none twice |
| floating windows | `layout/floating*.rs`, `engine/float_*.rs` | float homes, stack | float, unfloat, raise, hide with the workspace | float and tile states exclude each other |
| record of hidden windows | `backend/hidden.rs`, `backend/cloak.rs`, `show_window` in `backend/mod.rs` | registry, `hidden.json`, list of cloaked windows | note, forget, show, hide, recover, panic, quit | no window is stranded out of view |
| keyboard hook | `input/low_level_hook.rs`, `input/keyboard.rs`, `input/double_alt.rs`, `input/recent.rs`, `ipc/pick.rs`, `overlay/screenshot_ui.rs`, `overlay/bindings_cheatsheet.rs`, `input/dispatch.rs` | what is down and who owns it, for each of six parties; the queue of work | one callback per key event; the work, reload, inhibition | a swallowed press has its release swallowed; modifiers are known; no session without its modifier |
| recent windows | `engine/recent.rs`, `input/recent.rs` | frozen list, selection | open, step, commit, cancel | commit focuses a live window |
| event stream of the IPC server | `ipc/server.rs`, `ipc/state.rs` | the mirror, a stored wake-up, a bounded channel, the last config load | state pass, subscribe with replay, lag and catch up | a subscriber can rebuild the state and never has to ask |
| requests and pick of the IPC server | `ipc/server.rs`, `ipc/pick.rs` | pending pick | request, reply | a pick ends once |
| foreground reducer | `engine/foreground*.rs`, `input/focus.rs` | hook FIFO, observations, generations | notice, request, converge | the focus follows the user, not an echo |
| event source, reconcile | `backend/message_loop.rs`, `backend/hooks.rs`, `backend/reconcile.rs` | schedule, queues | WinEvents, passes | a window is managed in the end |
| configuration | `config/*` | last good configuration | load, reload, validate | a bad file changes nothing |
| animation, geometry, overlays, screenshots, tray, spawner | `animation/`, `layout/engine/sizing.rs`, `overlay/`, `screenshot/`, `hooks/` | curves, rectangles, pixels | - | outside the reach of TLC |

### How they interact

WinEvent hooks, the keyboard hook, IPC clients and timers feed one engine behind one lock
(`Arc<RwLock<TilingEngine>>`).  A handler changes the engine's state and ends with a layout
pass, which compares what should be where with what was applied last and calls the backend:
`show_window`, `SetWindowPos`, `activate`.  These calls only post; the windows obey later, and
the resulting WinEvents come back as input.  Handlers do not overlap, so for the engine the
interleaving that matters is that of whole handlers in any order.  For the record of hidden
windows it is that of the single steps of `show_window`, because the process can end between
any two of them, and because applications handle posted requests whenever they get to it.

The keyboard hook runs on the thread of the message loop, between two messages: it decides at
once who gets a key and only queues the work, which the loop does before the next key, while
reloads, clients and other windows act in between.  A writer of the engine leaves behind a wake-up
for the task of the event stream, which describes the engine on a thread of its own; subscriptions
do the same on theirs, and the channel between them and the clients is bounded.

### What is hard

* Focus is kept redundantly: `focus_column` (an index), `focus_window`, the remembered window of
  the column, that of the workspace, the shown tab, the MRU ring, `last_activated`.  Some twenty
  handlers edit some of them.
* Workspaces come and go by themselves, and minimized windows hold on to their keys.
* A window that minimizes leaves a slot described by its neighbours, some of them minimized too.
* An output goes, its host goes, the first one returns: records name workspaces by keys that are
  given again, and the same workspace is in several records.
* A kill at any time; handles (HWND) that Windows gives to somebody else; late hides.
* A key goes down in one state of the program and up in another.
* A change between the description of the state and the subscription to its changes.

`PROJECT.json` lists the hazards one by one, each at its line.

## 2. The modules

| module | models | extends |
|---|---|---|
| `Lists` | what `Vec` and `HashMap` give the engine: membership, `retain`, `insert` | `SequencesExt` |
| `SeqLemmas` | facts about these and about sequences, `FoldLeft` and `FlattenSeq` that the library does not state | `Lists`, `TLAPS` |
| `Strip` | `layout/workspace.rs` as operators on values | `Lists` |
| `Monitor` | one output: `layout/mod.rs` and the engine's operations on it | `Strip` |
| `MonitorProps` | the properties of an output | `Monitor` |
| `Monitor_lemmas` | what each operation on a strip does to its windows; the parts of the invariant of an output, and what the helpers of the operations keep of it | `MonitorProps`, `SeqLemmas` |
| `Monitor_proofs` | one lemma per action, and the theorems | `Monitor_lemmas` |
| `MCMonitor` | TLC: symmetry, view, reduced next-state relations | `MonitorProps` |
| `MCScenes` | TLC: all operations under two configurations; three and four windows | `MCMonitor` |
| `Outputs`, `OutputsProps` | several outputs that come and go | `Lists` |
| `Outputs_proofs` | what each helper keeps of the stacks and records, and then of identities, names and tiles; one lemma per action for each invariant, one per action for the step of `Homes` it is, and the theorems | `OutputsProps`, `SeqLemmas` |
| `Homes` | what is promised of them, with no word of stacks, keys and records | |
| `Homes_proofs` | what the promise comes to | `Homes`, `TLAPS` |
| `MCOutputs` | TLC: symmetry, view, bounds | `OutputsProps` |
| `HiddenRecord`, `HiddenRecordProps` | registry, `hidden.json`, cloak list, `show_window`, process life; properties and inductive invariant | |
| `HiddenRecord_proofs` | the theorems | `HiddenRecordProps`, `TLAPS` |
| `MCHiddenRecord` | TLC: a bound | `HiddenRecordProps` |
| `KeyHook`, `KeyHookProps` | the keyboard hook, its six parties and the work they queue | |
| `KeyHook_proofs` | the theorems and their invariant | `KeyHookProps`, `TLAPS` |
| `MCKeyHook` | TLC: binds, configurations, scenes | `KeyHookProps` |
| `EventStream`, `EventStreamProps` | state task, mirror, difference, channel, subscribers | |
| `EventStream_proofs` | that `Diff` tells everything, and the theorems | `EventStreamProps`, `TLAPS` |
| `MCEventStream` | TLC: snapshots, two scenes | `EventStreamProps` |

Definitions marked `Mutant:` are not part of the models.  Each is a plausible mistake in the
definition that follows it, and shows that a property would notice.

### Strip and Monitor

`mon` is the `Monitor` struct (plus the engine's `last_activated`): `order` is the visible order
(`workspace_ids`), `ws` the map from keys to workspaces, `active`, `previous`, `focusColumn` (0 for
`None`; indices are 1-based), `focusWindow`, `ring`.  `minimized` is the engine's map of that name
(home workspace and slot), `managed` the keys of `tiled_windows`.

The code's functions are operators from monitor to monitor, composed in the order of the calls;
an action is a handler from its guards to the layout pass it ends with.  `Layout` keeps of that pass
what changes this state: a tabbed column shows its focused window, and a focus that was not activated
yet is activated and remembered.  Left out because nothing here reads it: widths, scroll offsets,
rectangles, animations.  `config` holds the three settings the operations ask for; it is chosen at the
start, and a reload is left out.  Not modelled yet: floating windows, fullscreen.
A handler that returns early without changing anything is not a step, except where the code changes
something first.

What the world decides is a choice: which window opens, whether a window rule sends it to another
workspace or refuses it the focus, which window a foreground notice names, and the order in which a
hash map gives the slots of minimized windows.  So is `os_foreground`, which `keep_the_focus` falls back to
on an output without a focused window (`engine/rules.rs:794-797`): it may be any window, on this
workspace or not (`FocusBefore`).

### Outputs and Homes

`mon` maps the live outputs to their stack of workspaces, `order` and `focused` are those of
`MonitorSet`, `away` are the `UnpluggedMonitor` records: the stack as it was, the `host` that has it
now, and `moved`, the pairs of old and new key.  A strip is only the set of its windows: columns and
focus in a strip are `Monitor`'s subject.  A workspace has a key, given again once free, and an id
(`ipc_id`), never given twice; the model takes the smallest unused one, which keeps the states finite.
`Register` and `Unregister` are the two handlers with every call they make: parking, upkeep of the
empty workspaces, rebinding of older records, taking back, adopting what waited for any output.
Between them windows open, close, move, minimize and come back, and the user names, visits and
moves workspaces.

`home` is history: the output the user has a workspace on.  `Homes` states the promise with it: a
workspace with a window is on its home output if that is there and on another one that is there if
not, and only the user changes homes; a window stays in its workspace until the user moves it.  The
code has one exception to the last (`OutputsReuse`), and `Plug` says what it amounts to: an output that
comes may take a window along, into a workspace of its own that had none.  `HomesAreKept` says that
`Outputs` implements `Homes`, under the mapping at the end of `OutputsProps`.

Left out: floating windows, which travel as the minimized ones do; minimizing of floats; rules,
`empty-workspace-above-first`, workspaces named by the configuration; which settings an output gets.
One record at most waits for an output: only the last output that goes leaves one, and the next that
comes adopts it.

### HiddenRecord

`owner`, `shown`, `cloaked`, `posted` are what Windows knows of a handle; `file` is `hidden.json`;
`registry`, `dirty`, `cloaklist`, `wanted` are the statics of the two Rust modules.  `op` is the call of
`show_window` in flight: every call the code makes inside it (record, cloak, uncloak, post) is a step,
and `Kill` may come between.  `run` is the life of the process: `recovering` is `restore_from_file`,
`startup` the first enumeration under a `Batch`, `up`, `quitting` is `restore_all`, `panicking` the panic
hook.  An entry keeps its owner (process id and window class) and the way the window was hidden.

`lost` is history: it names the windows for which the record was not enough, and each action that
adds to it says why.  The safety property is about all the others.

External, modelled from how the code uses it: a posted request is handled later and the last one
wins; a handle is reused only after the notice that its window is gone was handled (`Open`); an
uncloak may be refused by the shell (`ShellRefuses`).  Not modelled: the original rectangles in the same
file, writes that fail, the compositor's own cloaks, a panic inside `show_window` or on another thread.

### KeyHook

`physical` is the keyboard itself; each of `binds`, `tap`, `switcher`, `pick`, `shot`, `sheet` is what one
party remembers (`KeyboardEngine`, `DoubleAlt`, the statics of `input/recent.rs`, of the pick, of the
screenshot session, of the hotkey sheet).  `KeyEvent` is one run of the callback: five alternatives, one
for each place it can return from, each with the bookkeeping the parties in front and behind do on that
path.  `queue` and `batch` are the dispatch queue and what the message loop has taken of it; `DoWork`
handles one item.  `published` is the configuration the hook works with, `config` the engine's, and
`ReloadHotkeys` the message between them.  `owner` and `stray` are history: who took the first press
of a key, and whether the last event went elsewhere.

Left out: the mouse hook and the pointer grab; the cooldown of a bind, the fallback for Latin keys, chords
of the overview grid, keys that only reach a bind in the overview, keys that are system-critical; the
auto-repeat of any but the last key; injected keys.  `PostThreadMessage` succeeds.

### EventStream

`engine` is what `ipc_snapshot` would say now, `last` the mirror's last description, `holder` who has the
mirror lock, `outbox` the events of a pass not sent yet: other threads act between any two sends.
`permit` is the one stored wake-up of `STATE_CHANGED`, `task` the place of `run_state_task`; `queue` is the
receiver of a client (`Closed`, `Lagged`, or `Open` with its events); `phase`, `replay`, `view` are a client's progress,
what it is told first, and what it knows.  `Diff` is `state::diff`, event by event.  `Known` is external:
what a client that follows the documentation makes of an event (`docs/IPC_PROTOCOL.md` of the repository).
`Nothing` is `IpcSnapshot::default`, the mirror before the first pass.  `EventStreamAssumption` says of the
snapshots what `ipc_snapshot` gives (`layout/engine/ipcview.rs:221`): an id names one workspace, each output
shows one of its own, one that is shown has the focus, and one window at most.

Left out: keyboard layouts (told the way the overview is), event filters and the legacy dialect, notices
kept for the next subscriber, the requests.  A replay is written in one step.

## 3. The runs

| run | instance | what it shows |
|---|---|---|
| `MonitorScenes` | all operations; 2 windows with every setting off, or one window with back-and-forth, a name, an empty workspace on top and tabs by default; 3 windows in one workspace with tabs; 3 windows moving between workspaces; 4 windows in all 8 cuts into columns, each stacked or tabbed | no ghost tile, focus on a drawn tile, sound ring, no empty column, both ends of the stack empty, homes and cursors kept; columns and order survive Win+D |
| `Outputs` | 3 outputs, 2 windows, 1 name | nothing is lost, identities are unique, minimized windows have a home, `Homes` is implemented, windows stay in their workspace unless a parked key is reused |
| `HiddenRecord` | 2 handles, 2 owners, 2 kills, the shell may refuse | nothing is stranded without a named reason; recorded windows come back |
| `KeyHook` | 3 configurations, 6 scenes of 2 or 3 keys with the surfaces | presses are whole, modifiers known, no session left over |
| `EventStream` | 2 clients, channel of 2; all pairs of 72 states | no change is missed, config loads known, everyone knows in the end |
| `MonitorFocus` | 3 windows moving between workspaces | *violated*, see below |
| `HiddenShowOrder` | 2 handles, 1 kill | *violated* |
| `KeyHookPairs` | as `KeyHook` | *violated* |
| `OutputsChain` | 3 outputs, 2 away | *violated* |
| `OutputsDark` | 2 outputs, both may be away | *violated* |
| `OutputsReuse` | 2 outputs, 2 windows that stay open, no other bound than `MaxKey` | *violated* |
| `EventStreamFirst` | as `EventStream`, 2 steps | *violated* |

Properties, in words: the `...Props` modules state each above its definition.

### Bounds

* Windows: two can be in one column, two columns or two workspaces; three are needed for a column
  next to a column of two, and for the window that closes to leave two rivals; four for a slot that
  learns of a neighbour through a third window.  `MonitorScenes` gives each to the operations that
  need it, in five scenes of one run (`MCScenes`).
* `RingCapacity = 2` (32 in the code): with three windows the ring overflows.
* `MaxKey` is the largest workspace key, `i32::MAX` in the code.  In the runs of `Monitor` it leaves one
  key more than the workspaces there can be (`MonitorAssumption`: the windows, the names and three more;
  8 in `MonitorScenes`), so that a free key always exists and the saturating
  `next_workspace_id` and the search for a free key both happen.  The scenes with every operation
  have two windows at most, and start with an output that was used before, at key 2 (`UsedInit`), so that they
  come to the largest key too, with windows minimized.  In `Outputs` it cuts behaviours off
  (`Bounded`): the engine takes the next key above all others, and no number of keys is enough for
  every history.  `MaxKey = 3` admits two parked workspaces above two of the host's own (with no
  window minimized then: three keys are enough for those histories).
* `Outputs`: `MaxAway = 1` in the passing run, because two records at a time run into `OutputsChain`.
  `InBounds` keeps the instance small (two windows on two outputs, or one window with a name or
  with a third output).  It does not cut off the behaviours in which a parked key is given again.
* `KeyHook`: a scene is what one behaviour uses, chosen so that each pair of parties that share keys
  meets: the switcher and binds, the switcher and double Alt with a second modifier, a screenshot taken
  from the switcher, sheet and screenshot, switcher and screenshot, pick and screenshot.
  `MaxQueue = 2` is a user no faster than that; a configuration is not changed again before the work it
  met is done.
* `EventStream`: `Capacity = 2` (64 in the code) and `MaxSteps = 4` changes, loads, notices and connects let
  a client lag and catch up while another follows.  The scene `pairs` goes from any snapshot to any
  other: three workspaces on two outputs and up to two windows, differing in every field `diff` looks at.
* `MaxNamed` bounds the names at a time, `MaxKills` the kills.  After the last kill `HiddenRecord` follows
  the recovery to its end (`LastRecovery`); the run that comes then repeats the one before.
* Workspace keys are opaque to the engine, so the views name a workspace by its place where no record
  refers to its key.  Windows, outputs, handles and owners are symmetric; the runs with liveness
  use no symmetry.
* Deadlock is checked, except in the runs of `Outputs`, whose bounds stop it, and of `EventStream`,
  where everything may come to rest.

### Fairness

`HiddenRecord`: wiri is started again (the documentation asks the user to), the recovery runs to its
end (a loop with a 600 ms deadline), and applications handle their messages.  `EventStream`: a guard
that was taken is dropped, threads that can run do, what is in the channel is sent, and a client that
stays connected reads.  Neither assumes that anything outside happens: changes, kills, connections.

### What the violated runs show

* `HiddenShowOrder`: `show_window` drops the entry (`backend/mod.rs:1065`) before the window is in view.
  The hide path takes the care this one does not (`backend/mod.rs:1074-1075`).
* `MonitorFocus`: with the head of the MRU ring on another workspace, `Monitor::remove_window`
  (`layout/mod.rs:677-682`) gives the focus to nobody, although its comment promises the neighbouring
  column.  Windows may repair it by naming another foreground window; nothing in wiri does.
* `KeyHookPairs`: the second tap of a double Alt is swallowed and held, Tab opens the switcher, and the
  switcher's branch drops the verdict of `DOUBLE_ALT.event` (`input/low_level_hook.rs:485`): the application
  gets the release of a key it never saw pressed.  The same can be had from a key the switcher
  suppressed, or the one that closed the hotkey sheet, released while a screenshot is being taken.
* `OutputsChain`: outputs A and B go, in this order, and come back in the same one.  B's record still lists
  A's workspace, which was parked there, and the path for single windows makes it once more, empty,
  with the same identity and name (`layout/engine.rs:1534`).
* `OutputsDark`: a window closes while there is no output.  Its tile is only in the record, where nobody
  looks, and comes back with the output (`layout/engine.rs:1476`).
* `OutputsReuse`: windows w1 and w2 are in two workspaces of A, which goes; they are parked on B under the keys
  1 and 2.  The user moves w1 away, its parked workspace is empty and is dropped, and a new workspace of B
  gets the key 2; the user moves w1 there.  A returns and takes w1 out of it (`layout/engine.rs:1507-1528`,
  which asks only whether the window is in the workspace with that key), against the comment at 1453
  and the test at 17030 ("moved by the user: stays where they put it").  `WindowsStayPutUnlessAKeyIsReused`
  shows that this is the only way, and `HomesAreKept` bounds it.
* `EventStreamFirst`: the state task spends its wake-up while the only subscriber has described the
  engine but not subscribed (`ipc/server.rs:226`): that change is told by nobody until the next one.
  `EveryoneKnowsUnlessUnheeded` shows that this is the only way to be left behind.

### Known deviations without a run

Met while modelling, kept in the models as the code has them, and left out of the properties:

* A kill in the startup pass, which holds the writes of `hidden.json` back (`main.rs:522`), leaves hidden
  windows that are in no file, against `docs/TROUBLESHOOTING.md:40-43`; `lost` names them.
* `follow_os_foreground` (`layout/engine.rs:3874`) switches the workspace without maintaining the stack: the
  empty workspace that was left stays until the next operation, against `docs/DOCUMENTATION.md:586`.
* Also in `lost`, for the same reason: a hide that the application handles only after the next start looked
  (`backend/hidden.rs:457`), a window the shell does not uncloak (`backend/cloak.rs:314`), and what a kill in the
  middle of the panic hook leaves hidden (`backend/hidden.rs:508`).  `ConcealedIsRecorded` says nothing about these
  windows, and the hazard list does not count it for them.

## 4. The proofs

`HiddenRecord_proofs.tla` proves, for any `Handles` and `Owners`, with or without a shell that
refuses, and for any number of kills: `Invariance` (`Spec => []IInv`), `TypeCorrect` and
`EveryHideIsRecorded` (`Spec => []ConcealedIsRecorded`).  The only assumption is `HiddenAssumption` (the
two null values are not members of the sets they are the null of, and the parameters have their types).

`ConcealedIsRecorded` is not inductive.  A window that is about to be concealed must have been
recorded by an earlier step of the same call (`CallIsSound`); a cloak can only be undone while the list
has it (`CloaksAreListed`); what the file says depends on the phase of the process (`Phases`), and a
recovery or a panic works from a copy of the record, so in these phases the argument is about the
copy (`Accounted`); an entry must be about the window that has the handle now (`RegistryIsCurrent`), which
holds because a window that closes stays in the layout until its notice is handled (`GoneIsUnowned`)
and a handle without a window is neither cloaked nor asked for anything (`Unowned`).  `IInv` is the
conjunction.  The proof has one lemma per action, and under it one step per conjunct; four lemmas
about `NoteShown`, `NoteHidden`, `Uncloak` and `ShowAgain` say what these do to the state and carry most
of the actions.

`Monitor_proofs.tla` proves the eight invariants of an output, for any set of windows, any `RingCapacity`
above zero, any number of names and every configuration: `TypeCorrect`, `WindowsHaveOnePlace`,
`StripsStayWellFormed`, `FocusStaysShown`, `RingStaysSound`, `RoomBelow`, `RoomAbove`, and `HomesAreKept`; and
its action property, `CursorsAreKept`.  The
assumption is `MonitorAssumption`: there are more keys than windows, names and three more (the code
has 2^31), so that a free one is always found.  None of the eight is inductive alone.  `IInv` says of the
monitor between two operations:

* `Stack`: each strip is well formed, the strips are disjoint and hold exactly the windows that are managed
  and not minimized, and the visible order lists each workspace once;
* `GoodRing`: the ring lists some of these windows, once each, and no more than its capacity;
* `GoodFocus`: the focused window is in the active workspace and `focus_column` is the column `find_column`
  gives, or both say there is none; `Shown`: that column draws it;
* `Roomy`: there are fewer workspaces than keys, and the home of each minimized window is one of them.
  Here the counting is: a workspace lives because it is named, has a window or is the home of one
  (`Housed`: a window is on one side only), and two are kept empty;
* `Settled`: the empty workspaces at the ends are there; `Records`: a slot is about its own window.

An operation is proved in the order of its calls.  `Monitor_lemmas` says first what each operation on a strip does to
the set of its windows and to `GoodStrip`, then the same of the helpers (`Maintain`, `Layout`,
`SetFocus`, `Detach`, ...), each of which leads from a part of the invariant to a part of it, since in the middle
of a handler the whole does not hold: `Layout` establishes `Shown`, `Maintain` establishes `Settled`.
`Monitor_proofs` puts these together, with one lemma for each of the actions of `Next`.

`CursorsAreKept` (`CursorIsKept`) is proved along the same calls.  Each lemma about an operation also says what
becomes of the cursors: it leaves all strips but one as they were (`SameCursors`), or it changes the content
of others too, and then a cursor stays wherever its window does (`KeptCursors`).  What may move is the strip that
was active and the strip that becomes active.  That does not follow from the parts by itself: a handler
that activates two workspaces in turn could leave a new cursor in the one it only passed through, so the
lemmas are stated between the first and the last state of the handler.

`KeyHook_proofs.tla` proves four theorems for any keys, binds, configurations and scenes, from
`KeyHookAssumption` (the special keys are keys of the right kind, and one row at most is named by a key and
its modifiers).  For `PressesAreWhole` and `ModifiersTracked`, what must be added to the two properties is that
whoever took the first press of a key still remembers it (`OwnersRemember`), that modifiers are never
captured, and that the records keep their shape (`Shapes`).  One lemma per place the callback returns from, one
for all steps that are not keys.  That sheet, switcher and double Alt are not in `WholePresses` is
`KeyHookPairs`: for them the invariant fails where a party in front of them answers first.

`SessionsEnd` (`NoSessionWithoutModifier`) needs more, `SessionInv`: the engine has a session only while the hook
listens for its end and the switcher is enabled in both configurations, and once no modifier is down the
release is among the work (`SessionHasAnEnd`).  For that to survive a reload, the hook must work
with the engine's configuration unless a reload is on its way, and no step of the switcher may be left over
from before one (`ReloadIsKnown`).  `TypeCorrect` (types, one captured row for a key, the bound of the queue)
is the rest of it.

`EventStream_proofs.tla` proves, for any clients, any set of snapshots, any capacity and any number of steps,
`TypeCorrect`, `NothingIsMissed` and `LoadsAreKnown`.  They rest on `DiffTells`, which is about `Diff` alone and has no
state in it: whatever two snapshots are, a client that knows the first and reads what `Diff` makes of the
two, event by event, knows the second.  It is proved list by list and, for the windows, kind by kind of event:
after each group of events the known windows are a mixture of the old and the new ones, field by field
(`MixedWins`), and the mixture is complete after the last group.  The order matters: a window that is opened or
changed is told whole and may take the focus from all others, so the change of the focus has to come last.

`NoChangeIsMissed` speaks of the moments between two passes.  The invariant speaks of every moment: what a
client will know, once it has read its receiver *and* what the pass still has to send to it, is the last
description (`FollowsState`); a client that subscribed and was not told anything yet will be told what the
holder of the mirror has described, and has nothing before it in its receiver but events that leave the state
alone (`WillFollow`); of a config load it knows the last one, or the load is still to be sent
(`FollowsConfig`).  A receiver that lags or closes is out of the invariant until it subscribes again.

What `Read` gives for a sequence of events is a recursive function; the facts about it (`ReadConcat`, ...) are
proved by `NatSetInduction`, the induction over the naturals for a *set* of numbers, which follows
from the well-foundedness the library states without an operator as a parameter.  `FoldLeft` in
`SeqLemmas` is treated alike.

`Outputs_proofs.tla` proves `TypeCorrect` and `MinimizedKeepAHome`, from `OutputsAssumption` alone: any outputs, windows
and names, any number of records and of keys, with or without the last output going.  (The runs need
`MaxAway = 1` and `MayGoDark = FALSE` for their other invariants; these two hold without.)
`MinimizedHaveAHome` speaks of the time while there is an output.  The invariant must say where the minimized
windows wait when there is none: in the stack of the one record that has no host (`WaitAway`), which is why there may
be one such record only, and none while an output is there (`RecordsAreKept`).  `OutputsShow` (stacks have no key
twice and each output shows one it has) is needed because what matters of a key is that it is free: `NextKeyIsFree`
is about the largest key of a stack, and parking counts up from it.  The helpers are proved in the order of the
code: `UpkeepKeepsHomes`, `ParkedKeeps`, `ReboundKeeps`, `TakenBackKeeps`, `AdoptedKeeps`; in the middle of a handler some
windows wait for an output that is not there (`HomesIn` names it), and adopting ends that.

The same module then proves `NoWindowIsLost` and `IdentitiesStayUnique`, for any outputs, windows and names and any
number of keys, under the hypothesis `OneAway`: no more than one output is away at a time, and the last one stays
(`MaxAway \in {0, 1} /\ MayGoDark = FALSE`, what the run `Outputs` has too).  It is needed: without its first half
`OutputsChain` makes an identity twice, without its second `OutputsDark` brings a tile back whose window is closed.
The invariant `AInv` adds to `IInv`

* `Apart`: no two workspaces that are there have an identity or a window in common (`IdsApart`, `TilesApart`); a name
  is one workspace's, those in a record included (`NamesApart`), since a record gives a name back; and the workspace a
  record has parked is there under the key the record gives, or it is not there at all (`ParkedThere`).  The last one
  is what makes `Back` safe: it takes the live workspace if the key still names it, and otherwise a clone, which must
  not meet the original.  `relocate_workspace` keeps it because it forgets the workspace in every record (`Forgets`);
* `OneAtATime`: there is one record at most, its host is there, and it has no identity and no key twice;
* `TilesAreManaged`: the tiles that are there are the managed windows that are not minimized.

The key of a parked workspace may be given again once it is free (`ParkedKeysAreTheirs` says when it was
not).  None of these proofs excludes it: an output that returns may take windows from a workspace
that only has the key, but it loses none and doubles none.  One lemma says what a handler does to the stacks in
terms of sets of workspaces (`Grows`, `Tidied`, `Relocated`, `ParksOn`, `HandsBack`), the next that this keeps
`Apart`, and `...Apart` for each action puts the two together.

At its end the module proves the refinement, `OutputsKeepHomes`: under `OneAway` alone, `Outputs` implements
`Homes` (`HomesAreKept`), reused keys included; and `WindowsStay`: in a step in which outputs come or go no
window changes its workspace, unless a record's key is another workspace's
(`WindowsStayPutUnlessAKeyIsReused`).  The exception is needed (`OutputsReuse`): then the output that
returns gets a clone of the workspace, with those windows of the record that the other workspace has by then.
`HInv` is `AInv` with `NearHome`: a workspace that is there is at home, or it is parked for its home output (the
record of that output has its identity, and a pair with the key it is under), and what is in a record is at
home on that output.  So `home`, which only history knows, says which workspaces an output gets back.
The mapping is made tractable once for all: `LivesSits` says that a window that is in a workspace, as a
tile or as a minimized one (`Lives`), is where the mapping puts it (`Sits`), and `InsideSame` that
`Inside` does not change if every window stays in its workspace, wherever that goes.  Then there is one
lemma per action, for the step of `Homes` it is:

* opening, restoring and moving a window are `Place`, closing it is `Close` (`OpenPlaces`, `CloseCloses`, ...);
* minimizing it, naming and showing a workspace are `Tidy`: a minimized window stays in its workspace;
* `relocate_workspace` is `Take`, or `Tidy` for a workspace without windows (`MoveWorkspaceTakes`);
* `unregister_monitor` is `Unplug`: `ParkedAll` says that every workspace that holds a window, a minimized one
  too, is parked, and that its minimized windows wait under the new key (`UnregisterUnplugs`);
* `register_monitor_with_scale` is `Plug`: what leaves the host is what is at home on the output, all of it, and
  a window that leaves without its workspace goes into one of the record that was not there, so that no
  window was in it (`HandsBackPlugs`, `TakenBackPlugs`, `RegisterPlugs`).

`NextKeeps` puts them together, and `WorkspacesAreAtHome` reads off the invariant what a user would ask: a workspace
with a window is on an output that is there, and on its home whenever that is.

`Homes_proofs.tla` proves the same of `Homes` itself, for any number of outputs away: `OutputsComeAndGo`.
No assumption; one lemma per kind of step.

Only model-checked: liveness (`RecordedComeBack`, `EveryoneKnowsUnlessUnheeded`), which is out of the
prover's reach, and `OldColumns`, which is about a scene of one run.

## 5. Not modelled, and what is next

More than half of the repository's Rust is tests inside the source files, wire formats, parsing of the
configuration, geometry and drawing; the models stand for the stateful part of some ten files.

* Floating windows: float homes in the upkeep of the stack, the float stack.  For hot-plug and upkeep
  minimized windows stand for them.
* Foreground reducer: the hook FIFO, wiri's own requests and their echoes.
* Event source and reconcile pass: WinEvents lost or late, the passes that stop after six quiet ones.
* IPC requests, the reply of a pick, its timeout; reload of a configuration with its debounce.
* The compositor's thread and its own cloaks; a panic on another thread during `show_window`.
* Configuration, wire formats, sizing, snapping, animation, drawing: pure functions or numbers over
  time, for which the repository's own tests are the better tool.

Next would come the foreground reducer, then floats on top of `Monitor` and `Outputs`, then the event
source with an abstract set of managed windows it must converge to.
