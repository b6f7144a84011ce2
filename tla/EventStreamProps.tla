------------------------- MODULE EventStreamProps -------------------------
(***************************************************************************)
(* What a subscriber of the event stream can count on.                     *)
(***************************************************************************)
EXTENDS EventStream

\* The state is well formed: the channel keeps no more than its capacity for a receiver, the mirror
\* has one holder, and a client is told first what its subscription found.
TypeOK ==
    /\ engine \in Snapshots /\ last \in Snapshots \cup {Nothing}
    /\ holder \in Clients \cup {Nobody, Task} /\ (holder = Task <=> task = "sending")
    /\ holder = Nobody => outbox = <<>>
    /\ {permit, announced, unheeded} \subseteq BOOLEAN
    /\ unnotified \in Nat /\ lastConfig \in Nat /\ steps \in 0..MaxSteps
    /\ \A c \in Clients :
        /\ queue[c].is \in {"open", "closed", "lagged"} /\ Len(queue[c].events) <= Capacity
        /\ phase[c] \in {"subscribed", "replaying", "streaming"} => queue[c].is # "closed"
        /\ phase[c] = "subscribed" => holder = c
        /\ phase[c] # "replaying" => replay[c] = Unknown

\* What becomes of a view when events are read, one after the other.
Reading(v, events) ==
    LET known[i \in 0 .. Len(events)] == IF i = 0 THEN v ELSE Known(known[i - 1], events[i])
    IN  known
Read(v, events) == Reading(v, events)[Len(events)]

\* What c knows once it has read everything that is on its way to it.
Start(c) == IF phase[c] = "replaying" THEN replay[c] ELSE view[c]
Followed(c) == Read(Start(c), queue[c].events)

Follows(c) == phase[c] \in {"replaying", "streaming"} /\ queue[c] # Lagged

\* "The replay and the events that follow it neither miss a change nor repeat one" (server.rs:191-195):
\* between two passes, a subscriber that has not lagged knows, after reading what is on its way,
\* exactly the state the last pass described, whatever was described in between, however many
\* clients came and went and whatever else was sent.
NoChangeIsMissed ==
    holder = Nobody => \A c \in Clients : Follows(c) => StateOf(Followed(c)) = last

\* A config load that was announced is known to every subscriber that has read everything: it was
\* in what it was told first or came as an event, though the load is kept and sent in two steps
\* without the mirror (broadcast_event, server.rs:108-114).
ConfigIsKnown ==
    ~announced => \A c \in Clients : Follows(c) => Followed(c).config = lastConfig

Knows(c) == phase[c] = "streaming" /\ view[c] = Told(engine, lastConfig)

\* Once nothing changes any more, every client that stays connected comes to know the state of the
\* engine and the last config load, the ones that lagged too (run_state_task, stream_events).
\* Excused: the wake-up that said so was spent while the first subscriber was on its way.
EveryoneKnowsUnlessUnheeded ==
    <>[](unheeded \/ \A c \in Clients : phase[c] # "away" => Knows(c))

\* The same with no excuse: "the replay and the events that follow it neither miss a change nor
\* repeat one" (server.rs:191-195), and the state is told "and then what changes, so that it never
\* has to ask" (server.rs:117-120).
EveryoneKnowsInTheEnd ==
    <>[](\A c \in Clients : phase[c] # "away" => Knows(c))
=============================================================================
