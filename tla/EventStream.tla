---------------------------- MODULE EventStream ----------------------------
(***************************************************************************)
(* The event stream of the IPC server (src/ipc/server.rs).  A client is    *)
(* told the state once and then what changes: a pass under the mirror lock *)
(* describes the engine, compares the description with the one the         *)
(* subscribers were last told, and sends the difference through a bounded  *)
(* broadcast channel.  One task runs a pass when something may have        *)
(* changed, and every subscription runs one on a thread of its own.  The   *)
(* engine's threads and the main loop never wait for any of them.          *)
(*                                                                         *)
(* Keyboard layouts are told the way the overview is, and left out.  The   *)
(* focus notices a pass takes from the engine and sends after the          *)
(* difference are among the notices here; one that finds no receiver goes  *)
(* with what the next subscriber is told first, and is left out.           *)
(***************************************************************************)
EXTENDS Naturals, Sequences, FiniteSets, SequencesExt, Functions

CONSTANTS Clients, Nobody, Task,
          NoWindow,
          Snapshots,       \* what the engine may look like
          Unknown,         \* what a client knows that was told nothing
          Capacity,        \* events the channel holds
          MaxSteps         \* bound: steps of the world outside (changes, loads, notices, connects)

\* IpcSnapshot::default, what is known before the first pass.
Nothing == [ws |-> <<>>, windows |-> <<>>, overview |-> FALSE]

\* A snapshot is as ipc_snapshot builds it (ipcview.rs:247-320): workspaces and windows are
\* known by their ids, each output shows one of its workspaces, one of those shown has the focus,
\* and at most one window has.
Snapshot(s) ==
    /\ s = [ws |-> s.ws, windows |-> s.windows, overview |-> s.overview]
    /\ s.ws = [i \in 1 .. Len(s.ws) |->
                 [id |-> s.ws[i].id, output |-> s.ws[i].output, name |-> s.ws[i].name, window |-> s.ws[i].window,
                  urgent |-> s.ws[i].urgent, active |-> s.ws[i].active, focused |-> s.ws[i].focused]]
    /\ s.windows = [w \in DOMAIN s.windows |->
                      [body |-> s.windows[w].body, focused |-> s.windows[w].focused, urgent |-> s.windows[w].urgent,
                       layout |-> s.windows[w].layout, stamp |-> s.windows[w].stamp]]
    /\ Len(s.ws) \in Nat /\ IsFiniteSet(DOMAIN s.windows) /\ NoWindow \notin DOMAIN s.windows
    /\ \A i \in DOMAIN s.ws : s.ws[i].active \in BOOLEAN /\ s.ws[i].focused \in BOOLEAN
    /\ \A w \in DOMAIN s.windows : s.windows[w].focused \in BOOLEAN

Sane(s) ==
    /\ \A i, j \in DOMAIN s.ws : s.ws[i].id = s.ws[j].id => i = j
    /\ \A i \in DOMAIN s.ws : \E j \in DOMAIN s.ws : s.ws[j].output = s.ws[i].output /\ s.ws[j].active
    /\ \A i, j \in DOMAIN s.ws :
        s.ws[i].output = s.ws[j].output /\ s.ws[i].active /\ s.ws[j].active => i = j
    /\ s.ws # <<>> => \E i \in DOMAIN s.ws : s.ws[i].focused
    /\ \A i, j \in DOMAIN s.ws : s.ws[i].focused /\ s.ws[j].focused => i = j
    /\ \A i \in DOMAIN s.ws : s.ws[i].focused => s.ws[i].active
    /\ \A v, w \in DOMAIN s.windows : s.windows[v].focused /\ s.windows[w].focused => v = w

ASSUME EventStreamAssumption ==
    /\ \A s \in Snapshots : Snapshot(s) /\ Sane(s)
    /\ Capacity \in Nat \ {0} /\ MaxSteps \in Nat
    /\ {Nobody, Task} \cap Clients = {} /\ Nobody # Task

VARIABLES
    engine,      \* what ipc_snapshot gives now
    last,        \* Mirror.last
    holder,      \* who has the mirror lock
    outbox,      \* events of the pass that are not sent yet
    permit,      \* STATE_CHANGED has a stored permit
    unnotified,  \* changes whose StateChangeGuard is not dropped yet
    task,        \* run_state_task: "asleep", "woken", "waiting" for the mirror, "sending"
    lastConfig,  \* the number of the last config load
    announced,   \* the config load is kept but not sent yet
    phase,       \* client -> "away", "asking", "subscribed", "replaying", "streaming"
    queue,       \* client -> its receiver, and the events it has not given yet
    replay,      \* client -> what it is told first
    view,        \* client -> what it knows
    unheeded,    \* history: a wake-up was spent, with nobody there to tell, after a subscription looked
    steps

serverVars == <<last, holder, outbox, unheeded>>
clientVars == <<phase, queue, replay, view>>
vars == <<engine, serverVars, permit, unnotified, task, lastConfig, announced, clientVars, steps>>

(***************************************************************************)
(* What changed (state.rs)                                                 *)
(***************************************************************************)

Place(x) == <<x.id, x.output, x.name>>

\* workspaces_restructured; the place in the list gives a workspace its number on its output
Restructured(prev, next) ==
    Len(prev) # Len(next) \/ \E i \in DOMAIN next : Place(prev[i]) # Place(next[i])

If(condition, event) == IF condition THEN <<event>> ELSE <<>>

FlagEvents(old, new) ==
    If(old.window # new.window, [type |-> "workspace_active_window_changed", id |-> new.id, window |-> new.window])
    \o If(old.urgent # new.urgent, [type |-> "workspace_urgency_changed", id |-> new.id, urgent |-> new.urgent])
    \o If((new.focused /\ ~old.focused) \/ (new.active /\ ~old.active),
          [type |-> "workspace_activated", id |-> new.id, focused |-> new.focused /\ ~old.focused])

WorkspaceEvents(prev, next) ==
    IF Restructured(prev, next) THEN <<[type |-> "workspaces_changed", ws |-> next]>>
    ELSE FlattenSeq([i \in DOMAIN next |-> FlagEvents(prev[i], next[i])])

FocusedIn(windows) ==
    LET those == {w \in DOMAIN windows : windows[w].focused} IN IF those = {} THEN NoWindow ELSE CHOOSE w \in those : TRUE

\* same_window is about the body alone
Whole(prev, next) == {w \in DOMAIN next : w \notin DOMAIN prev \/ prev[w].body # next[w].body}

WindowEvents(prev, next) ==
    LET differ(field) ==
            {w \in DOMAIN next \ Whole(prev, next) : prev[w][field] # next[w][field]}
        each(type, field) == LET those == SetToSeq(differ(field))
                             IN [i \in DOMAIN those |-> [type |-> type, id |-> those[i], value |-> next[those[i]][field]]]
        whole == SetToSeq(Whole(prev, next))
        closed == SetToSeq(DOMAIN prev \ DOMAIN next)
    IN [i \in DOMAIN whole |-> [type |-> "window_opened_or_changed", id |-> whole[i], window |-> next[whole[i]]]]
       \o [i \in DOMAIN closed |-> [type |-> "window_closed", id |-> closed[i]]]
       \o each("window_urgency_changed", "urgent")
       \o If(differ("layout") # {},
             [type |-> "window_layouts_changed", changes |-> [w \in differ("layout") |-> next[w].layout]])
       \o each("window_focus_timestamp_changed", "stamp")
       \o If(FocusedIn(prev) # FocusedIn(next), [type |-> "window_focus_changed", id |-> FocusedIn(next)])

OverviewEvents(prev, next) ==
    If(prev.overview # next.overview, [type |-> "overview_opened_or_closed", open |-> next.overview])

\* Mutant: a list that changed its shape is all that is told.
DiffOfListsOnly(prev, next) ==
    IF Restructured(prev.ws, next.ws) THEN WorkspaceEvents(prev.ws, next.ws)
    ELSE WorkspaceEvents(prev.ws, next.ws) \o WindowEvents(prev.windows, next.windows) \o OverviewEvents(prev, next)

Diff(prev, next) ==
    WorkspaceEvents(prev.ws, next.ws) \o WindowEvents(prev.windows, next.windows) \o OverviewEvents(prev, next)

(***************************************************************************)
(* What a client makes of it                                               *)
(***************************************************************************)

\* the entries f[x] of those x get a new value in a field
Updated(f, those, field, value) ==
    [x \in DOMAIN f |-> IF x \in those THEN [f[x] EXCEPT ![field] = value] ELSE f[x]]

OnWorkspace(ws, id, field, value) == Updated(ws, {i \in DOMAIN ws : ws[i].id = id}, field, value)

Activated(ws, id, focused) ==
    LET output == (CHOOSE x \in Range(ws) : x.id = id).output
    IN [i \in DOMAIN ws |->
          [ws[i] EXCEPT !.active = IF ws[i].output = output THEN ws[i].id = id ELSE ws[i].active,
                        !.focused = IF focused THEN ws[i].id = id ELSE ws[i].focused]]

OnlyFocused(windows, id) == [w \in DOMAIN windows |-> [windows[w] EXCEPT !.focused = (w = id)]]

\* the window as given; if it has the focus no other has
Replaced(windows, id, window) ==
    LET others == IF window.focused THEN OnlyFocused(windows, id) ELSE windows
    IN [w \in DOMAIN windows \cup {id} |-> IF w = id THEN window ELSE others[w]]

KnownWorkspaces(ws, e) ==
    CASE e.type = "workspaces_changed" -> e.ws
      [] e.type = "workspace_active_window_changed" -> OnWorkspace(ws, e.id, "window", e.window)
      [] e.type = "workspace_urgency_changed" -> OnWorkspace(ws, e.id, "urgent", e.urgent)
      [] e.type = "workspace_activated" -> Activated(ws, e.id, e.focused)
      [] OTHER -> ws

KnownWindows(windows, e) ==
    CASE e.type = "window_opened_or_changed" -> Replaced(windows, e.id, e.window)
      [] e.type = "window_closed" -> Restrict(windows, DOMAIN windows \ {e.id})
      [] e.type = "window_urgency_changed" -> Updated(windows, {e.id}, "urgent", e.value)
      [] e.type = "window_layouts_changed" ->
            [w \in DOMAIN windows |-> IF w \in DOMAIN e.changes THEN [windows[w] EXCEPT !.layout = e.changes[w]] ELSE windows[w]]
      [] e.type = "window_focus_timestamp_changed" -> Updated(windows, {e.id}, "stamp", e.value)
      [] e.type = "window_focus_changed" -> OnlyFocused(windows, e.id)
      [] OTHER -> windows

\* Of a view v: the state it knows, and the config load.
StateOf(v) == [ws |-> v.ws, windows |-> v.windows, overview |-> v.overview]

KnownState(v, e) ==
    [ws |-> KnownWorkspaces(v.ws, e), windows |-> KnownWindows(v.windows, e),
     overview |-> IF e.type = "overview_opened_or_closed" THEN e.open ELSE v.overview]

KnownConfig(v, e) == IF e.type = "config_loaded" THEN e.config ELSE v.config

\* the state, and the config load it is told with
Told(snapshot, config) ==
    [ws |-> snapshot.ws, windows |-> snapshot.windows, overview |-> snapshot.overview, config |-> config]

\* a view, after an event
Known(v, e) == Told(KnownState(v, e), KnownConfig(v, e))

(***************************************************************************)
(* The channel (tokio::sync::broadcast)                                    *)
(***************************************************************************)

\* A receiver that is there, one that is not, and one that has missed events.
Open(events) == [is |-> "open", events |-> events]
Closed == [is |-> "closed", events |-> <<>>]
Lagged == [is |-> "lagged", events |-> <<>>]

Receivers == {c \in Clients : queue[c] # Closed}

\* Mutant: the channel has no bound.
SentWithoutLag(e) ==
    [c \in Clients |-> IF queue[c].is = "open" THEN Open(Append(queue[c].events, e)) ELSE queue[c]]

Sent(e) ==
    [c \in Clients |->
        IF queue[c].is # "open" THEN queue[c]
        ELSE IF Len(queue[c].events) = Capacity THEN Lagged
        ELSE Open(Append(queue[c].events, e))]

(***************************************************************************)
(* The world outside                                                       *)
(***************************************************************************)

Outside == steps < MaxSteps /\ steps' = steps + 1

\* any thread changes the engine, and then drops its StateChangeGuard
Change(s) ==
    /\ Outside /\ s # engine
    /\ engine' = s
    /\ unnotified' = unnotified + 1
    /\ UNCHANGED <<serverVars, permit, task, lastConfig, announced, clientVars>>

NotifyStateChanged ==
    /\ unnotified > 0
    /\ unnotified' = unnotified - 1
    /\ permit' = TRUE
    /\ UNCHANGED <<engine, serverVars, task, lastConfig, announced, clientVars, steps>>

\* broadcast_event of a config load, by the main loop alone: kept first, then sent
KeepConfig ==
    /\ Outside /\ ~announced
    /\ lastConfig' = lastConfig + 1
    /\ announced' = TRUE
    /\ UNCHANGED <<engine, serverVars, permit, unnotified, task, clientVars>>

SendConfig ==
    /\ announced
    /\ announced' = FALSE
    /\ queue' = Sent([type |-> "config_loaded", config |-> lastConfig])
    /\ UNCHANGED <<engine, serverVars, permit, unnotified, task, lastConfig, phase, replay, view, steps>>

\* events that say nothing of the state take their place in the channel (a screenshot was taken, ...)
Notice ==
    /\ Outside
    /\ queue' = Sent([type |-> "notice"])
    /\ UNCHANGED <<engine, serverVars, permit, unnotified, task, lastConfig, announced, phase, replay, view>>

(***************************************************************************)
(* A pass: sync_locked                                                     *)
(***************************************************************************)

Describe(who) ==
    /\ holder = Nobody
    /\ holder' = who
    /\ outbox' = Diff(last, engine)
    /\ last' = engine
    /\ unheeded' = FALSE

SendNext ==
    /\ outbox # <<>>
    /\ queue' = Sent(Head(outbox))
    /\ outbox' = Tail(outbox)
    /\ UNCHANGED <<engine, last, holder, unheeded, permit, unnotified, task, lastConfig, announced, phase, replay, view, steps>>

\* nobody is told while nobody listens; the mirror is not held here
IfHeard(then) ==
    IF Receivers = {}
    THEN task' = "asleep" /\ unheeded' = (holder \in Clients /\ last # engine)
    ELSE task' = then /\ UNCHANGED unheeded

\* run_state_task wakes: the permit is spent
TaskWakes ==
    /\ task = "asleep" /\ permit
    /\ permit' = FALSE
    /\ IfHeard("woken")
    /\ UNCHANGED <<engine, last, holder, outbox, unnotified, lastConfig, announced, clientVars, steps>>

\* sync_state, on a thread that may wait
TaskLooks ==
    /\ task = "woken"
    /\ IfHeard("waiting")
    /\ UNCHANGED <<engine, last, holder, outbox, permit, unnotified, lastConfig, announced, clientVars, steps>>

TaskDescribes ==
    /\ task = "waiting"
    /\ Describe(Task)
    /\ task' = "sending"
    /\ UNCHANGED <<engine, permit, unnotified, lastConfig, announced, clientVars, steps>>

\* Mutant: changes notified during the pass count as told.
TaskDoneClearsPermit ==
    /\ holder = Task /\ outbox = <<>>
    /\ holder' = Nobody
    /\ task' = "asleep"
    /\ permit' = FALSE
    /\ UNCHANGED <<engine, last, outbox, unheeded, unnotified, lastConfig, announced, clientVars, steps>>

TaskDone ==
    /\ holder = Task /\ outbox = <<>>
    /\ holder' = Nobody
    /\ task' = "asleep"
    /\ UNCHANGED <<engine, last, outbox, unheeded, permit, unnotified, lastConfig, announced, clientVars, steps>>

(***************************************************************************)
(* A client: stream_events                                                 *)
(***************************************************************************)

Connect(c) ==
    /\ Outside /\ phase[c] = "away"
    /\ phase' = [phase EXCEPT ![c] = "asking"]
    /\ UNCHANGED <<engine, serverVars, permit, unnotified, task, lastConfig, announced, queue, replay, view>>

\* subscribe_with_replay
SubscriberDescribes(c) ==
    /\ phase[c] = "asking"
    /\ Describe(c)
    /\ UNCHANGED <<engine, permit, unnotified, task, lastConfig, announced, clientVars, steps>>

Subscribe(c) ==
    /\ holder = c /\ outbox = <<>> /\ phase[c] = "asking"
    /\ phase' = [phase EXCEPT ![c] = "subscribed"]
    /\ queue' = [queue EXCEPT ![c] = Open(<<>>)]
    /\ UNCHANGED <<engine, serverVars, permit, unnotified, task, lastConfig, announced, replay, view, steps>>

\* Mutant: the config load is not part of what comes first.
TakeReplayOfState(c) ==
    /\ holder = c /\ phase[c] = "subscribed"
    /\ replay' = [replay EXCEPT ![c] = Told(last, 0)]
    /\ phase' = [phase EXCEPT ![c] = "replaying"]
    /\ holder' = Nobody
    /\ UNCHANGED <<engine, last, outbox, unheeded, permit, unnotified, task, lastConfig, announced, queue, view, steps>>

TakeReplay(c) ==
    /\ holder = c /\ phase[c] = "subscribed"
    /\ replay' = [replay EXCEPT ![c] = Told(last, lastConfig)]
    /\ phase' = [phase EXCEPT ![c] = "replaying"]
    /\ holder' = Nobody
    /\ UNCHANGED <<engine, last, outbox, unheeded, permit, unnotified, task, lastConfig, announced, queue, view, steps>>

WriteReplay(c) ==
    /\ phase[c] = "replaying"
    /\ phase' = [phase EXCEPT ![c] = "streaming"]
    /\ view' = [view EXCEPT ![c] = replay[c]]
    /\ replay' = [replay EXCEPT ![c] = Unknown]
    /\ UNCHANGED <<engine, serverVars, permit, unnotified, task, lastConfig, announced, queue, steps>>

Receive(c) ==
    /\ phase[c] = "streaming" /\ queue[c].is = "open" /\ queue[c].events # <<>>
    /\ view' = [view EXCEPT ![c] = Known(view[c], Head(queue[c].events))]
    /\ queue' = [queue EXCEPT ![c] = Open(Tail(queue[c].events))]
    /\ UNCHANGED <<engine, serverVars, permit, unnotified, task, lastConfig, announced, phase, replay, steps>>

\* RecvError::Lagged: it subscribes again; the old receiver is there until it has
CatchUp(c) ==
    /\ phase[c] = "streaming" /\ queue[c] = Lagged
    /\ phase' = [phase EXCEPT ![c] = "asking"]
    /\ UNCHANGED <<engine, serverVars, permit, unnotified, task, lastConfig, announced, queue, replay, view, steps>>

\* the pipe is closed, which is seen by a read or a failed write
Disconnect(c) ==
    /\ phase[c] \in {"replaying", "streaming"}
    /\ phase' = [phase EXCEPT ![c] = "away"]
    /\ queue' = [queue EXCEPT ![c] = Closed]
    /\ replay' = [replay EXCEPT ![c] = Unknown]
    /\ view' = [view EXCEPT ![c] = Unknown]
    /\ UNCHANGED <<engine, serverVars, permit, unnotified, task, lastConfig, announced, steps>>

(***************************************************************************)
(* The specification                                                       *)
(***************************************************************************)

Init ==
    /\ engine \in Snapshots
    /\ last = Nothing
    /\ holder = Nobody /\ outbox = <<>> /\ unheeded = FALSE
    /\ permit = FALSE /\ unnotified = 0 /\ task = "asleep"
    /\ lastConfig = 0 /\ announced = FALSE
    /\ phase = [c \in Clients |-> "away"]
    /\ queue = [c \in Clients |-> Closed]
    /\ replay = [c \in Clients |-> Unknown]
    /\ view = [c \in Clients |-> Unknown]
    /\ steps = 0

TaskStep == TaskWakes \/ TaskLooks \/ TaskDescribes \/ TaskDone
Subscribing(c) == SubscriberDescribes(c) \/ Subscribe(c) \/ TakeReplay(c)
ClientStep(c) == Subscribing(c) \/ WriteReplay(c) \/ Receive(c) \/ CatchUp(c)

Next ==
    \/ \E s \in Snapshots : Change(s)
    \/ KeepConfig \/ Notice
    \/ NotifyStateChanged \/ SendConfig
    \/ SendNext
    \/ TaskStep
    \/ \E c \in Clients : Connect(c) \/ ClientStep(c) \/ Disconnect(c)

Spec == Init /\ [][Next]_vars

\* Threads run, and a client reads what it is sent.  Nothing outside has to happen.
Fairness ==
    /\ WF_vars(NotifyStateChanged) /\ WF_vars(SendConfig) /\ WF_vars(SendNext) /\ WF_vars(TaskStep)
    /\ \A c \in Clients : WF_vars(ClientStep(c))

FairSpec == Spec /\ Fairness
=============================================================================
