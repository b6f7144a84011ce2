------------------------- MODULE HiddenRecordProps -------------------------
(***************************************************************************)
(* What hidden.json promises (module HiddenRecord).                        *)
(***************************************************************************)
EXTENDS HiddenRecord

Records == [Handles -> Entries \cup {NoEntry}]

\* Every variable has its type; only a window of the layout has a notice pending.
TypeOK ==
    /\ owner \in [Handles -> Owners \cup {NoOwner}]
    /\ shown \in [Handles -> BOOLEAN] /\ cloaked \in [Handles -> BOOLEAN]
    /\ posted \in [Handles -> {"none", "show", "hide"}]
    /\ file \in Records /\ registry \in Records /\ todo \in Records
    /\ run \in {"down", "recovering", "startup", "up", "quitting", "panicking"}
    /\ dirty \in BOOLEAN /\ wanted \in BOOLEAN
    /\ cloaklist \subseteq Handles /\ lost \subseteq Handles
    /\ gone \subseteq managed /\ managed \subseteq Handles
    /\ op \in [at : {"idle", "uncloak", "post show", "cloak", "unrecorded cloak", "post hide"},
               handle : Handles \cup {NoOwner}]
    /\ kills \in Nat

\* While nobody works on it, what the record says of a window: the registry in
\* the startup pass, the file at all other times.
Book == IF run = "startup" THEN registry ELSE file

InFlight(h) == op.handle = h /\ op.at \in {"uncloak", "post show", "unrecorded cloak"}

\* A window nobody sees can be shown again by the next start, unless the call in
\* flight or the panic hook is about to show it, or it is one of the windows the
\* history counts as lost: concealed by a call that a kill cut short after it had
\* dropped the entry, held back by the Batch of the startup pass, cloaked by a shell
\* that would not undo it, or hidden late by an application that did not respond.
ConcealedIsRecorded ==
    \A h \in Handles :
        Concealed(h) => \/ Recoverable(Book, h)
                        \/ InFlight(h)
                        \/ run = "panicking" /\ todo[h] # NoEntry
                        \/ h \in lost

\* TROUBLESHOOTING.md:40-43 and hidden.rs:3-9: every hide is recorded as it happens, so
\* whenever a wiri that has started up is killed, the next start finds every window that is
\* out of view in the record (backend/mod.rs:1074-1075: "if wiri dies right after the call").
KillableAnyTime ==
    run = "up" => \A h \in Handles : Concealed(h) => Recoverable(file, h)

InView(h) == owner[h] = NoOwner \/ (shown[h] /\ ~cloaked[h])

\* After a kill, a window that is not lost comes back into view as soon as wiri
\* was started once more and the application answered.
RecordedComeBack ==
    \A h \in Handles :
        (run = "down" /\ Concealed(h) /\ h \notin lost) ~> (InView(h) \/ h \in lost)

----------------------------------------------------------------------------
(* The inductive invariant behind ConcealedIsRecorded. *)

\* A handle that is no window has nothing to undo.
Unowned == \A h \in Handles : owner[h] = NoOwner => ~cloaked[h] /\ posted[h] = "none"

\* The layout knows which of its windows are gone.
GoneIsUnowned == \A h \in managed : h \in gone <=> owner[h] = NoOwner

\* An entry of the registry is about the window that has the handle now.
RegistryIsCurrent ==
    \A h \in Handles :
        registry[h] # NoEntry =>
            /\ h \in managed
            /\ owner[h] = NoOwner \/ registry[h].owner = owner[h]

\* What each phase of the process holds in memory, and how the file follows it.
Phases ==
    /\ run \in {"down", "recovering", "panicking"} => registry = NoRecord /\ op = Idle
    /\ run \in {"down", "startup", "up"} => todo = NoRecord
    /\ run \in {"startup", "panicking"} => file = NoRecord
    /\ run = "startup" /\ ~dirty => registry = NoRecord
    /\ run \in {"up", "quitting"} => file = registry
    /\ run = "quitting" =>
        /\ op.at \in {"idle", "uncloak", "post show"}
        /\ \A h \in Handles : registry[h] # NoEntry => todo[h] # NoEntry

\* Every cloak that can still be undone by name is on the list.
CloaksAreListed ==
    run \in {"startup", "up", "quitting"} =>
        \A h \in Handles : cloaked[h] => h \in cloaklist \cup lost

\* What the call in flight has established so far.
CallIsSound ==
    \A h \in Handles :
        op.handle = h =>
            /\ op.at = "cloak" => registry[h] # NoEntry /\ registry[h].cloaked
            /\ op.at \in {"unrecorded cloak", "post hide"} => registry[h] # NoEntry
            /\ op.at \in {"post show", "post hide"} /\ cloaked[h] => h \in lost

\* Why a window nobody sees is not lost, in each phase.
Accounted(h) ==
    IF run = "recovering" THEN Recoverable(file, h) /\ todo[h] = file[h]
    ELSE IF run = "panicking" THEN todo[h] # NoEntry /\ (cloaked[h] => todo[h].cloaked)
    ELSE Recoverable(Book, h) \/ InFlight(h)

ConcealedIsAccounted == \A h \in Handles : Concealed(h) => Accounted(h) \/ h \in lost

IInv ==
    /\ TypeOK
    /\ Unowned
    /\ GoneIsUnowned
    /\ RegistryIsCurrent
    /\ Phases
    /\ CloaksAreListed
    /\ CallIsSound
    /\ ConcealedIsAccounted
=============================================================================
