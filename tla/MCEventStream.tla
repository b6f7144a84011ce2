--------------------------- MODULE MCEventStream ---------------------------
(***************************************************************************)
(* TLC instances of the event stream, in two scenes.                       *)
(*   pairs   one client that reads each event at once, and the engine goes *)
(*           from any of many states to any other: what diff tells is      *)
(*           enough                                                        *)
(*   races   two clients, loads, notices and changes between few states,   *)
(*           more than the channel holds                                   *)
(***************************************************************************)
EXTENDS EventStreamProps, TLC

CONSTANTS c1, c2, w1, w2

VARIABLE scene

Ws(id, output, name, window, active, focused) ==
    [id |-> id, output |-> output, name |-> name, window |-> window, urgent |-> FALSE,
     active |-> active, focused |-> focused]

\* Three workspaces of two outputs: which one each shows, where the focus is.
Shown(name, window, left, focus) ==
    << Ws(1, "left", name, window, left = 1, left = 1 /\ focus = "left"),
       Ws(2, "left", "", NoWindow, left = 2, left = 2 /\ focus = "left"),
       Ws(3, "right", "", NoWindow, TRUE, focus = "right") >>

Lists ==
    {Shown("", w1, left, focus) : left \in {1, 2}, focus \in {"left", "right"}}
    \cup {Shown("mail", NoWindow, 1, "left"),
          SubSeq(Shown("", w1, 1, "left"), 1, 2),
          [Shown("", NoWindow, 1, "right") EXCEPT ![2].urgent = TRUE],
          [Shown("", w1, 2, "right") EXCEPT ![1].urgent = TRUE]}

Win(body, focused, urgent, layout, stamp) ==
    [body |-> body, focused |-> focused, urgent |-> urgent, layout |-> layout, stamp |-> stamp]

Plain(focused) == Win("a", focused, FALSE, 0, 0)

WindowSets ==
    { <<>>, w1 :> Plain(FALSE), w1 :> Plain(TRUE), w1 :> Win("b", TRUE, FALSE, 0, 1),
      (w1 :> Plain(TRUE)) @@ (w2 :> Plain(FALSE)),
      (w1 :> Win("b", FALSE, FALSE, 1, 0)) @@ (w2 :> Plain(TRUE)),
      (w1 :> Win("a", FALSE, TRUE, 1, 0)) @@ (w2 :> Win("b", TRUE, FALSE, 0, 1)),
      (w1 :> Plain(FALSE)) @@ (w2 :> Win("a", FALSE, TRUE, 1, 1)) }

MCSnapshots ==
    {[ws |-> list, windows |-> windows, overview |-> open] :
        list \in Lists, windows \in WindowSets, open \in {FALSE}}
    \cup {[ws |-> Shown("", w1, 2, "left"), windows |-> windows, overview |-> TRUE] : windows \in WindowSets}

Few ==
    {s \in MCSnapshots : s.ws = Shown("", w1, 1, "left") /\ s.windows = w1 :> Plain(TRUE)}
    \cup {s \in MCSnapshots : s.ws = Shown("", w1, 2, "right") /\ s.windows = (w1 :> Plain(TRUE)) @@ (w2 :> Plain(FALSE))}

SceneInit ==
    /\ scene \in {"pairs", "races"}
    /\ Init
    /\ scene = "races" => engine \in Few

Alone ==
    /\ phase'[c2] = "away" /\ steps' <= 2 /\ lastConfig' = 0
    /\ engine' # engine => phase[c1] = "streaming"
    /\ queue[c1].events # <<>> => queue'[c1].events = <<>>
    /\ engine' = engine => phase'[c1] # "away" \/ steps = 0

SceneNext ==
    /\ UNCHANGED scene
    /\ Next
    /\ scene = "races" => engine' \in Few
    /\ scene = "pairs" => Alone

SceneSpec == SceneInit /\ [][SceneNext]_<<vars, scene>> /\ Fairness
=============================================================================
