---------------------------- MODULE HiddenRecord ----------------------------
(***************************************************************************)
(* The crash-safe record of the windows wiri has hidden: the registry of   *)
(* src/backend/hidden.rs, the file hidden.json that mirrors it, the cloak  *)
(* list of src/backend/cloak.rs, and BackendHandle::show_window            *)
(* (src/backend/mod.rs), step by step, so that wiri may be killed between  *)
(* any two of them.                                                        *)
(*                                                                         *)
(* A handle (HWND) is owned by one application window at a time; Windows   *)
(* gives it to another one later.  ShowWindowAsync only posts: the window  *)
(* obeys when its own thread gets to it, and the last request wins.        *)
(***************************************************************************)
EXTENDS Naturals

CONSTANTS Handles,      \* HWND values
          Owners,       \* the (process, class) pairs a handle can belong to
          NoOwner,      \* the handle is not a window
          NoEntry,      \* no entry for the handle in a record
          ShellRefuses, \* the shell may fail to uncloak a window
          MaxKills      \* bound: how often wiri is killed

Entries == [owner : Owners \cup {NoOwner}, cloaked : BOOLEAN]

ASSUME HiddenAssumption ==
    /\ NoOwner \notin Owners
    /\ NoEntry \notin Entries
    /\ ShellRefuses \in BOOLEAN
    /\ MaxKills \in Nat

VARIABLES
    \* Windows
    owner,      \* who the handle belongs to
    shown,      \* IsWindowVisible
    cloaked,    \* DWMWA_CLOAKED
    posted,     \* the ShowWindowAsync request the window has not handled yet
    \* the disk
    file,       \* hidden.json
    \* the wiri process
    run,        \* where the process is in its life
    registry,   \* REGISTRY.windows
    dirty,      \* REGISTRY.dirty: a change was held back by a Batch
    cloaklist,  \* CLOAKED: the windows this run cloaked
    wanted,     \* cloak::wanted(): hide-method "cloak", and the shell offers it
    managed,    \* the windows in the layout
    gone,       \* managed windows whose WindowDestroyed is not handled yet
    op,         \* the show_window call in flight
    todo,       \* the entries a recovery, a quit or a panic still has to act on
    \* history
    lost,       \* windows the record was not enough for, and why not
    kills

windowsVars == <<owner, shown, cloaked, posted>>
processVars == <<run, registry, dirty, cloaklist, wanted, managed, gone, op, todo>>
vars == <<windowsVars, file, processVars, lost, kills>>

NoRecord == [h \in Handles |-> NoEntry]
Idle == [at |-> "idle", handle |-> NoOwner]
At(step, h) == op = [at |-> step, handle |-> h]

\* The layout works (and show_window is called) from the startup pass on.
Working == run \in {"startup", "up"}

\* Nobody sees the window, or nobody will once it has handled what was posted.
Concealed(h) ==
    /\ owner[h] # NoOwner
    /\ cloaked[h] \/ posted[h] = "hide" \/ (~shown[h] /\ posted[h] # "show")

\* What the next start reads in record r is enough to show the window again.
Recoverable(r, h) ==
    /\ r[h] # NoEntry
    /\ r[h].owner = owner[h]
    /\ cloaked[h] => r[h].cloaked

----------------------------------------------------------------------------
(* Registry::persist: a Batch (the startup pass) holds the write back. *)

Persist(r) ==
    /\ registry' = r
    /\ IF run = "startup" THEN dirty' = TRUE /\ UNCHANGED file
       ELSE file' = r /\ dirty' = FALSE

\* Mutant: any entry of the handle counts as recorded, whatever way it was hidden.
NoteHiddenOnce(h, cloak) ==
    IF registry[h] # NoEntry THEN UNCHANGED <<registry, dirty, file>>
    ELSE Persist([registry EXCEPT ![h] = [owner |-> owner[h], cloaked |-> cloak]])

\* note_hidden(h, TRUE, cloak); a window recorded that way already is not looked up again.
NoteHidden(h, cloak) ==
    IF registry[h] # NoEntry /\ registry[h].cloaked = cloak
    THEN UNCHANGED <<registry, dirty, file>>
    ELSE Persist([registry EXCEPT ![h] = [owner |-> owner[h], cloaked |-> cloak]])

\* note_hidden(h, FALSE, _), hidden::forget.
NoteShown(h) ==
    IF registry[h] = NoEntry THEN UNCHANGED <<registry, dirty, file>>
    ELSE Persist([registry EXCEPT ![h] = NoEntry])

Post(h, request) ==
    posted' = IF owner[h] = NoOwner THEN posted ELSE [posted EXCEPT ![h] = request]

Uncloaked(h) == cloaked' = [cloaked EXCEPT ![h] = FALSE]

\* The shell does not let go of the window: it stays cloaked, and is lost.
Refused(h) ==
    /\ ShellRefuses /\ cloaked[h]
    /\ lost' = lost \cup {h}
    /\ UNCHANGED cloaked

\* cloak::uncloak.
Uncloak(h) ==
    \/ /\ h \notin cloaklist
       /\ UNCHANGED <<cloaked, cloaklist, lost>>
    \/ /\ h \in cloaklist
       /\ \/ Uncloaked(h) /\ cloaklist' = cloaklist \ {h} /\ UNCHANGED lost
          \/ Refused(h) /\ UNCHANGED cloaklist

----------------------------------------------------------------------------
(* BackendHandle::show_window. *)

\* Only windows of the layout are shown and hidden, one call at a time.
Begin(step, h) ==
    /\ op = Idle
    /\ op' = [at |-> step, handle |-> h]

\* show: the record forgets the window first ...
ShowRecord(h) ==
    /\ Working /\ h \in managed
    /\ Begin("uncloak", h)
    /\ NoteShown(h)
    /\ UNCHANGED <<windowsVars, run, cloaklist, wanted, managed, gone, todo, lost, kills>>

ShowUncloak(h) ==
    /\ run # "recovering" /\ At("uncloak", h)
    /\ Uncloak(h)
    /\ op' = [op EXCEPT !.at = "post show"]
    /\ UNCHANGED <<owner, shown, posted, file, run, registry, dirty, wanted, managed, gone, todo, kills>>

\* ... and the window is shown last.
ShowPost(h) ==
    /\ At("post show", h)
    /\ Post(h, "show")
    /\ op' = Idle
    /\ UNCHANGED <<owner, shown, cloaked, file, run, registry, dirty, cloaklist, wanted,
                   managed, gone, todo, lost, kills>>

\* hide: recorded first.  With hide-method "cloak" the window is cloaked ...
HideRecord(h) ==
    /\ Working /\ h \in managed
    /\ IF wanted
       THEN Begin("cloak", h) /\ NoteHidden(h, TRUE)
       ELSE Begin("unrecorded cloak", h) /\ NoteHidden(h, FALSE)
    /\ UNCHANGED <<windowsVars, run, cloaklist, wanted, managed, gone, todo, lost, kills>>

HideCloak(h) ==
    /\ At("cloak", h)
    /\ op' = Idle
    /\ owner[h] # NoOwner
    /\ cloaked' = [cloaked EXCEPT ![h] = TRUE]
    /\ cloaklist' = cloaklist \cup {h}
    /\ UNCHANGED <<owner, shown, posted, file, run, registry, dirty, wanted, managed, gone, todo,
                   lost, kills>>

\* ... and one that cannot be is hidden the plain way.
HideCloakFails(h) ==
    /\ At("cloak", h) /\ ~(h \in cloaklist /\ cloaked[h])
    /\ cloaklist' = cloaklist \ {h}
    /\ NoteHidden(h, FALSE)
    /\ op' = [op EXCEPT !.at = "unrecorded cloak"]
    /\ UNCHANGED <<windowsVars, run, wanted, managed, gone, todo, lost, kills>>

\* A cloak from before the method changed is undone.
HideUncloak(h) ==
    /\ At("unrecorded cloak", h)
    /\ Uncloak(h)
    /\ op' = [op EXCEPT !.at = "post hide"]
    /\ UNCHANGED <<owner, shown, posted, file, run, registry, dirty, wanted, managed, gone, todo, kills>>

HidePost(h) ==
    /\ At("post hide", h)
    /\ Post(h, "hide")
    /\ op' = Idle
    /\ UNCHANGED <<owner, shown, cloaked, file, run, registry, dirty, cloaklist, wanted,
                   managed, gone, todo, lost, kills>>

----------------------------------------------------------------------------
(* hidden::restore_from_file, on start. *)

\* select_restorable: still the same window, and out of sight.
Restorable(h) ==
    /\ file[h] # NoEntry /\ owner[h] # NoOwner
    /\ ~shown[h] \/ file[h].cloaked
    /\ file[h].owner = owner[h]

\* A hide the dead wiri posted that has not happened yet is not noticed.
HideIsLate(h) == Concealed(h) /\ Recoverable(file, h) /\ ~Restorable(h)

Start ==
    /\ run = "down"
    /\ run' = "recovering"
    /\ todo' = [h \in Handles |-> IF Restorable(h) THEN file[h] ELSE NoEntry]
    /\ lost' = lost \cup {h \in Handles : HideIsLate(h)}
    /\ UNCHANGED <<windowsVars, file, registry, dirty, cloaklist, wanted, managed, gone, op, kills>>

\* Mutant: a window is taken off the list without being shown.
ShowAgainUncloaksOnly(h) ==
    /\ todo[h] # NoEntry
    /\ todo' = [todo EXCEPT ![h] = NoEntry]
    /\ cloaked' = [cloaked EXCEPT ![h] = FALSE]
    /\ UNCHANGED <<cloaklist, lost, posted>>

\* show_again, which uncloaks a window whoever cloaked it.
ShowAgain(h) ==
    /\ todo[h] # NoEntry
    /\ todo' = [todo EXCEPT ![h] = NoEntry]
    /\ IF todo[h].cloaked
       THEN /\ cloaklist' = cloaklist \ {h}
            /\ \/ Uncloaked(h) /\ UNCHANGED lost
               \/ Refused(h)
       ELSE UNCHANGED <<cloaked, cloaklist, lost>>
    /\ Post(h, "show")

RecoverWindow(h) ==
    /\ run = "recovering"
    /\ ShowAgain(h)
    /\ UNCHANGED <<owner, shown, file, run, registry, dirty, wanted, managed, gone, op, kills>>

\* The record is rewritten after 600 ms at the latest, whether the windows are
\* in view by then or not.
RecoverDone ==
    /\ run = "recovering" /\ todo = NoRecord
    /\ file' = registry
    /\ run' = "startup"
    /\ UNCHANGED <<windowsVars, registry, dirty, cloaklist, wanted, managed, gone, op, todo, lost, kills>>

\* The startup pass is over: its Batch is dropped.
StartupDone ==
    /\ run = "startup" /\ op = Idle
    /\ run' = "up"
    /\ file' = IF dirty THEN registry ELSE file
    /\ dirty' = FALSE
    /\ UNCHANGED <<windowsVars, registry, cloaklist, wanted, managed, gone, op, todo, lost, kills>>

----------------------------------------------------------------------------
(* Quit (restore_all), panic (restore_all_hidden from the hook), kill. *)

Quit ==
    /\ run = "up" /\ op = Idle
    /\ run' = "quitting"
    /\ todo' = [h \in Handles |-> IF h \in managed \/ registry[h] # NoEntry
                                  THEN [owner |-> owner[h], cloaked |-> FALSE] ELSE NoEntry]
    /\ UNCHANGED <<windowsVars, file, registry, dirty, cloaklist, wanted, managed, gone, op, lost, kills>>

QuitShow(h) ==
    /\ run = "quitting" /\ todo[h] # NoEntry
    /\ todo' = [todo EXCEPT ![h] = NoEntry]
    /\ Begin("uncloak", h)
    /\ NoteShown(h)
    /\ UNCHANGED <<windowsVars, run, cloaklist, wanted, managed, gone, lost, kills>>

\* The process is over: what it held in memory is gone.
Ended ==
    /\ run' = "down"
    /\ registry' = NoRecord
    /\ dirty' = FALSE /\ wanted' = FALSE
    /\ cloaklist' = {} /\ managed' = {} /\ gone' = {} /\ todo' = NoRecord
    /\ op' = Idle

QuitDone ==
    /\ run = "quitting" /\ todo = NoRecord /\ op = Idle
    /\ file' = NoRecord
    /\ Ended
    /\ UNCHANGED <<windowsVars, lost, kills>>

\* What a process that ends here leaves concealed without a usable entry: the
\* window of the call in flight, and what a Batch holds back.
Unrecorded ==
    {h \in Handles : \/ op.handle = h /\ op.at \in {"uncloak", "post show", "unrecorded cloak"}
                     \/ registry[h] # file[h]
                     \/ run = "panicking" /\ todo[h] # NoEntry}

Kill ==
    /\ run # "down" /\ kills < MaxKills
    /\ kills' = kills + 1
    /\ lost' = lost \cup (IF run = "recovering" THEN {} ELSE Unrecorded)
    /\ Ended
    /\ UNCHANGED <<windowsVars, file>>

\* A panic outside show_window: the hook empties the record, shows what was in
\* it, and the process ends; a Batch on the stack is dropped by the unwinding.
Panic ==
    /\ Working /\ op = Idle /\ kills < MaxKills
    /\ kills' = kills + 1
    /\ run' = "panicking"
    /\ todo' = registry
    /\ Persist(NoRecord)
    /\ UNCHANGED <<windowsVars, cloaklist, wanted, managed, gone, op, lost>>

PanicShow(h) ==
    /\ run = "panicking"
    /\ ShowAgain(h)
    /\ UNCHANGED <<owner, shown, file, run, registry, dirty, wanted, managed, gone, op, kills>>

PanicDone ==
    /\ run = "panicking" /\ todo = NoRecord
    /\ file' = NoRecord
    /\ Ended
    /\ UNCHANGED <<windowsVars, lost, kills>>
----------------------------------------------------------------------------
(* What happens around these calls. *)

\* The window's own thread handles the request.
Pump(h) ==
    /\ posted[h] # "none"
    /\ shown' = [shown EXCEPT ![h] = posted[h] = "show"]
    /\ posted' = [posted EXCEPT ![h] = "none"]
    /\ UNCHANGED <<owner, cloaked, file, processVars, lost, kills>>

\* A window closes, or its process dies.
Close(h) ==
    /\ owner[h] # NoOwner
    /\ owner' = [owner EXCEPT ![h] = NoOwner]
    /\ shown' = [shown EXCEPT ![h] = FALSE]
    /\ cloaked' = [cloaked EXCEPT ![h] = FALSE]
    /\ posted' = [posted EXCEPT ![h] = "none"]
    /\ gone' = IF h \in managed THEN gone \cup {h} ELSE gone
    /\ lost' = lost \ {h}
    /\ UNCHANGED <<file, run, registry, dirty, cloaklist, wanted, managed, op, todo, kills>>

\* Windows gives the handle away again, later than the notice that it is free.
Open(h, o) ==
    /\ owner[h] = NoOwner /\ h \notin gone /\ op.handle # h
    /\ owner' = [owner EXCEPT ![h] = o]
    /\ shown' = [shown EXCEPT ![h] = TRUE]
    /\ UNCHANGED <<cloaked, posted, file, processVars, lost, kills>>

\* Mutant: the window leaves the layout and the notice stays pending.
DestroyedStaysPending(h) ==
    /\ Working /\ op = Idle /\ h \in gone
    /\ managed' = managed \ {h}
    /\ cloaklist' = cloaklist \ {h}
    /\ NoteShown(h)
    /\ UNCHANGED <<windowsVars, run, wanted, gone, op, todo, lost, kills>>

\* remove_window: cloak::forget, hidden::forget.
Destroyed(h) ==
    /\ Working /\ op = Idle /\ h \in gone
    /\ gone' = gone \ {h}
    /\ managed' = managed \ {h}
    /\ cloaklist' = cloaklist \ {h}
    /\ NoteShown(h)
    /\ UNCHANGED <<windowsVars, run, wanted, op, todo, lost, kills>>

\* A window in view enters the layout.
Manage(h) ==
    /\ Working /\ op = Idle /\ h \notin managed
    /\ owner[h] # NoOwner /\ shown[h] /\ ~cloaked[h]
    /\ managed' = managed \cup {h}
    /\ UNCHANGED <<windowsVars, file, run, registry, dirty, cloaklist, wanted, gone, op, todo,
                   lost, kills>>

\* The config is reloaded, or the shell turns out not to offer cloaking.
SetMethod ==
    /\ Working
    /\ wanted' = ~wanted
    /\ UNCHANGED <<windowsVars, file, run, registry, dirty, cloaklist, managed, gone, op, todo,
                   lost, kills>>

Init ==
    /\ owner \in [Handles -> Owners]
    /\ shown = [h \in Handles |-> TRUE]
    /\ cloaked = [h \in Handles |-> FALSE]
    /\ posted = [h \in Handles |-> "none"]
    /\ file = NoRecord /\ registry = NoRecord /\ todo = NoRecord
    /\ run = "down" /\ op = Idle /\ dirty = FALSE /\ wanted = FALSE
    /\ cloaklist = {} /\ managed = {} /\ gone = {}
    /\ lost = {} /\ kills = 0

Showing(h) == ShowRecord(h) \/ ShowUncloak(h) \/ ShowPost(h)
Hiding(h) == HideRecord(h) \/ HideCloak(h) \/ HideCloakFails(h) \/ HideUncloak(h) \/ HidePost(h)
Recovering(h) == Start \/ RecoverWindow(h) \/ RecoverDone \/ StartupDone
Ending(h) == Quit \/ QuitShow(h) \/ QuitDone \/ Kill \/ Panic \/ PanicShow(h) \/ PanicDone
Around(h) == Pump(h) \/ Close(h) \/ (\E o \in Owners : Open(h, o)) \/ Destroyed(h) \/ Manage(h)
             \/ SetMethod

Next == \E h \in Handles : Showing(h) \/ Hiding(h) \/ Recovering(h) \/ Ending(h) \/ Around(h)

Spec == Init /\ [][Next]_vars

\* The user starts wiri again after a kill, the recovery runs to its end, and
\* applications handle their messages.
Fairness ==
    /\ WF_vars(Start) /\ WF_vars(RecoverDone)
    /\ \A h \in Handles : WF_vars(RecoverWindow(h)) /\ WF_vars(Pump(h))

FairSpec == Spec /\ Fairness
=============================================================================
