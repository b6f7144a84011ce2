------------------------- MODULE HiddenRecord_proofs -------------------------
(***************************************************************************)
(* Proofs about the record of the hidden windows (module HiddenRecord):    *)
(* IInv is inductive, so every window that nobody sees is in the record.   *)
(***************************************************************************)
EXTENDS HiddenRecordProps, TLAPS

----------------------------------------------------------------------------
(* What the shared helpers establish. *)

\* Registry::persist: how a change of the registry reaches the file.
FileFollows ==
    /\ run = "startup" => file' = file /\ (~dirty' => registry' = registry /\ ~dirty)
    /\ run # "startup" /\ file = registry => file' = registry'

BooksTyped == registry' \in Records /\ file' \in Records /\ dirty' \in BOOLEAN

Forgotten(h) ==
    /\ registry' = [registry EXCEPT ![h] = NoEntry]
    /\ BooksTyped /\ FileFollows

Recorded(h, cloak) ==
    /\ registry'[h] # NoEntry /\ registry'[h].cloaked = cloak
    /\ registry'[h].owner = owner[h] \/ registry'[h] = registry[h]
    /\ \A g \in Handles \ {h} : registry'[g] = registry[g]
    /\ BooksTyped /\ FileFollows

CloaksTyped ==
    /\ cloaked' \in [Handles -> BOOLEAN]
    /\ cloaklist' \subseteq Handles
    /\ lost \subseteq lost' /\ lost' \subseteq Handles

UncloakTried(h) ==
    /\ CloaksTyped
    /\ \A g \in Handles \ {h} : /\ cloaked'[g] = cloaked[g]
                                /\ g \in cloaklist => g \in cloaklist'
    /\ cloaked'[h] => /\ cloaked[h]
                      /\ h \in lost' \/ (h \notin cloaklist /\ h \notin cloaklist')

ShownAgain(h) ==
    /\ CloaksTyped
    /\ todo' = [todo EXCEPT ![h] = NoEntry] /\ todo' \in Records
    /\ \A g \in Handles \ {h} : cloaked'[g] = cloaked[g] /\ posted'[g] = posted[g]
    /\ cloaked'[h] => cloaked[h] /\ (h \in lost' \/ ~todo[h].cloaked)
    /\ posted' \in [Handles -> {"none", "show", "hide"}]
    /\ posted'[h] = IF owner[h] = NoOwner THEN posted[h] ELSE "show"

\* note_hidden(h, FALSE, _) and hidden::forget leave no entry.
LEMMA NoteShownFacts ==
  ASSUME TypeOK, NEW h \in Handles, NoteShown(h)
  PROVE  Forgotten(h)
<1>1. CASE registry[h] = NoEntry
  BY <1>1 DEF TypeOK, Records, NoteShown, Forgotten, BooksTyped, FileFollows
<1>2. CASE registry[h] # NoEntry
  BY <1>2 DEF TypeOK, Records, NoteShown, Persist, Forgotten, BooksTyped, FileFollows
<1> QED
  BY <1>1, <1>2

\* note_hidden(h, TRUE, cloak) leaves an entry that says how the window is hidden.
LEMMA NoteHiddenFacts ==
  ASSUME TypeOK, NEW h \in Handles, NEW cloak \in BOOLEAN, NoteHidden(h, cloak)
  PROVE  Recorded(h, cloak)
<1>1. CASE registry[h] # NoEntry /\ registry[h].cloaked = cloak
  BY <1>1 DEF TypeOK, Records, NoteHidden, Recorded, BooksTyped, FileFollows
<1>2. CASE ~(registry[h] # NoEntry /\ registry[h].cloaked = cloak)
  <2> DEFINE entry == [owner |-> owner[h], cloaked |-> cloak]
  <2>1. entry \in Entries /\ entry # NoEntry
    <3>1. owner[h] \in Owners \cup {NoOwner}
      BY DEF TypeOK
    <3>2. entry \in Entries
      BY <3>1, Zenon DEF Entries
    <3> QED
      BY <3>2, HiddenAssumption
  <2>2. registry' = [registry EXCEPT ![h] = entry]
    BY <1>2 DEF NoteHidden, Persist
  <2>3. registry' \in Records /\ registry'[h] = entry
    BY <2>1, <2>2 DEF TypeOK, Records
  <2>4. BooksTyped /\ FileFollows
    BY <1>2, <2>3 DEF TypeOK, NoteHidden, Persist, BooksTyped, FileFollows
  <2> QED
    BY <2>1, <2>2, <2>3, <2>4 DEF TypeOK, Records, Recorded
<1> QED
  BY <1>1, <1>2

\* cloak::uncloak: a window that stays cloaked was not on the list, or is lost.
LEMMA UncloakFacts ==
  ASSUME TypeOK, NEW h \in Handles, Uncloak(h)
  PROVE  UncloakTried(h)
<1> USE DEF UncloakTried, CloaksTyped
<1>1. CASE h \notin cloaklist
  BY <1>1 DEF TypeOK, Uncloak
<1>2. CASE h \in cloaklist /\ Uncloaked(h)
  BY <1>2 DEF TypeOK, Uncloak, Uncloaked, Refused
<1>3. CASE h \in cloaklist /\ Refused(h) /\ UNCHANGED cloaklist
  BY <1>3 DEF TypeOK, Uncloak, Refused
<1> QED
  BY <1>1, <1>2, <1>3 DEF Uncloak

\* hidden::show_again: the entry is done with, and the window was asked to show.
LEMMA ShowAgainFacts ==
  ASSUME TypeOK, NEW h \in Handles, ShowAgain(h)
  PROVE  ShownAgain(h)
<1> USE DEF ShownAgain, CloaksTyped
<1>1. todo' = [todo EXCEPT ![h] = NoEntry] /\ todo' \in Records
  BY DEF TypeOK, Records, ShowAgain
<1>2. /\ posted' \in [Handles -> {"none", "show", "hide"}]
      /\ posted'[h] = IF owner[h] = NoOwner THEN posted[h] ELSE "show"
      /\ \A g \in Handles \ {h} : posted'[g] = posted[g]
  BY DEF TypeOK, ShowAgain, Post
<1>3. CASE ~todo[h].cloaked
  BY <1>1, <1>2, <1>3 DEF TypeOK, ShowAgain
<1>4. CASE todo[h].cloaked /\ Uncloaked(h) /\ UNCHANGED lost
  BY <1>1, <1>2, <1>4 DEF TypeOK, ShowAgain, Uncloaked
<1>5. CASE todo[h].cloaked /\ Refused(h)
  BY <1>1, <1>2, <1>5 DEF TypeOK, ShowAgain, Refused
<1> QED
  BY <1>3, <1>4, <1>5 DEF ShowAgain

----------------------------------------------------------------------------
(* Every action keeps the invariant: one lemma each, one step per part of IInv *)
(* that the action can disturb.                                                *)

\* show_window: the record forgets the window.
LEMMA ShowRecordStep ==
  ASSUME IInv, NEW h \in Handles, ShowRecord(h)
  PROVE  IInv'
<1>1. Forgotten(h)
  BY NoteShownFacts DEF IInv, ShowRecord
<1>2. TypeOK'
  BY <1>1 DEF IInv, TypeOK, ShowRecord, Begin, Forgotten, BooksTyped, windowsVars
<1>3. RegistryIsCurrent'
  BY <1>1 DEF IInv, RegistryIsCurrent, ShowRecord, Forgotten, windowsVars
<1>4. Phases'
  BY <1>1 DEF IInv, Phases, ShowRecord, Working, Forgotten, FileFollows
<1>5. CallIsSound'
  BY <1>1 DEF IInv, CallIsSound, ShowRecord, Begin
<1>6. ConcealedIsAccounted'
  BY <1>1 DEF IInv, ConcealedIsAccounted, Concealed, Accounted, Recoverable, Book, InFlight,
     ShowRecord, Working, Begin, Idle, Forgotten, BooksTyped, FileFollows, windowsVars,
     Records, Phases
<1>7. Unowned' /\ GoneIsUnowned' /\ CloaksAreListed'
  BY DEF IInv, Unowned, GoneIsUnowned, CloaksAreListed, ShowRecord, windowsVars
<1> QED
  BY <1>2, <1>3, <1>4, <1>5, <1>6, <1>7 DEF IInv

\* show_window: the window is uncloaked.
LEMMA ShowUncloakStep ==
  ASSUME IInv, NEW h \in Handles, ShowUncloak(h)
  PROVE  IInv'
<1>1. UncloakTried(h)
  BY UncloakFacts DEF IInv, ShowUncloak
<1>2. TypeOK'
  BY <1>1 DEF IInv, TypeOK, ShowUncloak, UncloakTried, CloaksTyped
<1>3. Unowned'
  BY <1>1 DEF IInv, Unowned, ShowUncloak, UncloakTried
<1>4. Phases'
  BY <1>1 DEF IInv, Phases, Idle, ShowUncloak, At
<1>5. CloaksAreListed'
  <2> SUFFICES ASSUME run \in {"startup", "up", "quitting"}, NEW g \in Handles, cloaked'[g]
               PROVE  g \in cloaklist' \cup lost'
    BY DEF CloaksAreListed, ShowUncloak
  <2>1. cloaked[g] => g \in cloaklist \cup lost
    BY DEF IInv, CloaksAreListed
  <2> QED
    BY <1>1, <2>1 DEF UncloakTried, CloaksTyped
<1>6. CallIsSound'
  BY <1>1 DEF IInv, CallIsSound, Idle, ShowUncloak, At, UncloakTried, CloaksTyped, TypeOK,
     Phases, CloaksAreListed
<1>7. ConcealedIsAccounted'
  BY <1>1 DEF IInv, ConcealedIsAccounted, Concealed, Accounted, Recoverable, Book, InFlight,
     ShowUncloak, At, UncloakTried, CloaksTyped
<1>8. GoneIsUnowned' /\ RegistryIsCurrent'
  BY DEF IInv, GoneIsUnowned, RegistryIsCurrent, ShowUncloak
<1> QED
  BY <1>2, <1>3, <1>4, <1>5, <1>6, <1>7, <1>8 DEF IInv

\* show_window: the window is shown.
LEMMA ShowPostStep ==
  ASSUME IInv, NEW h \in Handles, ShowPost(h)
  PROVE  IInv'
<1>1. TypeOK'
  BY DEF IInv, TypeOK, ShowPost, Post, Idle
<1>2. Unowned'
  BY DEF IInv, Unowned, ShowPost, Post, TypeOK
<1>3. Phases'
  BY DEF IInv, Phases, Idle, ShowPost
<1>4. CallIsSound'
  BY DEF IInv, CallIsSound, Idle, ShowPost
<1>5. ConcealedIsAccounted'
  BY DEF IInv, ConcealedIsAccounted, Concealed, Accounted, Recoverable, Book, InFlight,
     ShowPost, At, Post, TypeOK, CallIsSound
<1>6. GoneIsUnowned' /\ RegistryIsCurrent' /\ CloaksAreListed'
  BY DEF IInv, GoneIsUnowned, RegistryIsCurrent, CloaksAreListed, ShowPost
<1> QED
  BY <1>1, <1>2, <1>3, <1>4, <1>5, <1>6 DEF IInv

\* show_window, hiding: the record learns of the window.
LEMMA HideRecordStep ==
  ASSUME IInv, NEW h \in Handles, HideRecord(h)
  PROVE  IInv'
<1>1. /\ op = Idle /\ run \in {"startup", "up"} /\ run' = run
      /\ op'.handle = h /\ op'.at \in {"cloak", "unrecorded cloak"}
      /\ op' \in [at : {"cloak", "unrecorded cloak"}, handle : Handles]
  <2>1. op = Idle /\ run \in {"startup", "up"} /\ run' = run
    BY DEF HideRecord, Begin, Working
  <2>2. CASE wanted
    <3>1. op' = [at |-> "cloak", handle |-> h]
      BY <2>2 DEF HideRecord, Begin
    <3> QED
      BY <2>1, <3>1
  <2>3. CASE ~wanted
    <3>1. op' = [at |-> "unrecorded cloak", handle |-> h]
      BY <2>3 DEF HideRecord, Begin
    <3> QED
      BY <2>1, <3>1
  <2> QED
    BY <2>2, <2>3
<1>2. /\ BooksTyped /\ FileFollows
      /\ registry'[h] # NoEntry /\ (op'.at = "cloak" => registry'[h].cloaked)
      /\ registry'[h].owner = owner[h] \/ registry'[h] = registry[h]
      /\ \A g \in Handles \ {h} : registry'[g] = registry[g]
  <2>1. CASE wanted
    <3>1. Recorded(h, TRUE)
      BY <2>1, NoteHiddenFacts DEF IInv, HideRecord
    <3> QED
      BY <3>1 DEF Recorded
  <2>2. CASE ~wanted
    <3>1. Recorded(h, FALSE) /\ op' = [at |-> "unrecorded cloak", handle |-> h]
      BY <2>2, NoteHiddenFacts DEF IInv, HideRecord, Begin
    <3> QED
      BY <3>1 DEF Recorded
  <2> QED
    BY <2>1, <2>2
<1>3. TypeOK'
  BY <1>1, <1>2 DEF IInv, TypeOK, HideRecord, BooksTyped, windowsVars
<1>4. RegistryIsCurrent'
  BY <1>2 DEF IInv, RegistryIsCurrent, HideRecord, windowsVars
<1>5. Phases'
  BY <1>1, <1>2 DEF IInv, Phases, FileFollows, HideRecord
<1>6. CallIsSound'
  BY <1>1, <1>2 DEF CallIsSound
<1>7. ConcealedIsAccounted'
  <2> SUFFICES ASSUME NEW g \in Handles, Concealed(g)'
               PROVE  Accounted(g)' \/ g \in lost'
    BY DEF ConcealedIsAccounted
  <2>1. Concealed(g) /\ (Recoverable(Book, g) \/ g \in lost)
    <3>1. Concealed(g) /\ (Accounted(g) \/ g \in lost)
      BY DEF IInv, ConcealedIsAccounted, HideRecord, Concealed, windowsVars
    <3>2. ~InFlight(g)
      BY <1>1 DEF Idle, InFlight
    <3> QED
      BY <1>1, <3>1, <3>2 DEF Accounted
  <2>2. Book = registry /\ Book' = registry'
    BY <1>1, <1>2 DEF IInv, Phases, Book, FileFollows
  <2>3. CASE g = h
    <3>1. CASE op'.at = "cloak"
      BY <1>1, <1>2, <2>1, <2>2, <2>3, <3>1 DEF IInv, RegistryIsCurrent, HideRecord, Concealed,
         Accounted, Recoverable, windowsVars
    <3>2. CASE op'.at = "unrecorded cloak"
      BY <1>1, <2>3, <3>2 DEF Accounted, InFlight
    <3> QED
      BY <1>1, <3>1, <3>2
  <2>4. CASE g # h
    BY <1>1, <1>2, <2>1, <2>2, <2>4 DEF HideRecord, Accounted, Recoverable, windowsVars
  <2> QED
    BY <2>3, <2>4
<1>8. Unowned' /\ GoneIsUnowned' /\ CloaksAreListed'
  BY DEF IInv, Unowned, GoneIsUnowned, CloaksAreListed, HideRecord, windowsVars
<1> QED
  BY <1>3, <1>4, <1>5, <1>6, <1>7, <1>8 DEF IInv

\* hide_window: the window is cloaked.
LEMMA HideCloakStep ==
  ASSUME IInv, NEW h \in Handles, HideCloak(h)
  PROVE  IInv'
<1>1. TypeOK'
  BY DEF IInv, TypeOK, HideCloak, Idle
<1>2. Unowned'
  BY DEF IInv, Unowned, HideCloak
<1>3. Phases'
  BY DEF IInv, Phases, Idle, HideCloak
<1>4. CloaksAreListed'
  BY DEF IInv, CloaksAreListed, HideCloak
<1>5. CallIsSound'
  BY DEF IInv, CallIsSound, Idle, HideCloak
<1>6. ConcealedIsAccounted'
  BY DEF IInv, ConcealedIsAccounted, Concealed, Accounted, Recoverable, Book, InFlight,
     HideCloak, At, Idle, TypeOK, RegistryIsCurrent, Phases, CallIsSound
<1>7. GoneIsUnowned' /\ RegistryIsCurrent'
  BY DEF IInv, GoneIsUnowned, RegistryIsCurrent, HideCloak
<1> QED
  BY <1>1, <1>2, <1>3, <1>4, <1>5, <1>6, <1>7 DEF IInv

\* show_window, hiding: the cloak is refused and the plain way is recorded.
LEMMA HideCloakFailsStep ==
  ASSUME IInv, NEW h \in Handles, HideCloakFails(h)
  PROVE  IInv'
<1>1. Recorded(h, FALSE)
  BY NoteHiddenFacts DEF IInv, HideCloakFails
<1>2. TypeOK'
  BY <1>1 DEF IInv, TypeOK, HideCloakFails, Recorded, BooksTyped, windowsVars
<1>3. RegistryIsCurrent'
  BY <1>1 DEF IInv, RegistryIsCurrent, CallIsSound, HideCloakFails, At, Recorded, windowsVars
<1>4. Phases'
  BY <1>1 DEF IInv, Phases, Idle, HideCloakFails, At, Recorded, FileFollows
<1>5. CloaksAreListed'
  BY <1>1 DEF IInv, CloaksAreListed, HideCloakFails, windowsVars, CallIsSound
<1>6. CallIsSound'
  BY <1>1 DEF IInv, CallIsSound, HideCloakFails, At, Recorded
<1>7. ConcealedIsAccounted'
  <2> SUFFICES ASSUME NEW g \in Handles, Concealed(g)'
               PROVE  Accounted(g)' \/ g \in lost'
    BY DEF ConcealedIsAccounted
  <2>1. run \in {"startup", "up"} /\ run' = run
    BY DEF IInv, TypeOK, Phases, Idle, HideCloakFails, At
  <2>2. CASE g = h
    BY <2>1, <2>2 DEF IInv, TypeOK, HideCloakFails, At, Accounted, InFlight
  <2>3. CASE g # h
    <3>1. Concealed(g) /\ (Accounted(g) \/ g \in lost) /\ ~InFlight(g)
      BY <2>3 DEF IInv, ConcealedIsAccounted, HideCloakFails, At, InFlight, Concealed, windowsVars
    <3>2. Book = registry /\ Book' = registry'
      BY <1>1, <2>1 DEF IInv, Phases, Book, Recorded, FileFollows
    <3> QED
      BY <1>1, <2>1, <2>3, <3>1, <3>2 DEF HideCloakFails, Accounted, Recoverable, Recorded, windowsVars
  <2> QED
    BY <2>2, <2>3
<1>8. Unowned' /\ GoneIsUnowned'
  BY DEF IInv, Unowned, GoneIsUnowned, HideCloakFails, windowsVars
<1> QED
  BY <1>2, <1>3, <1>4, <1>5, <1>6, <1>7, <1>8 DEF IInv

\* show_window, hiding: an older cloak is undone.
LEMMA HideUncloakStep ==
  ASSUME IInv, NEW h \in Handles, HideUncloak(h)
  PROVE  IInv'
<1>1. UncloakTried(h)
  BY UncloakFacts DEF IInv, HideUncloak
<1>2. TypeOK'
  BY <1>1 DEF IInv, TypeOK, HideUncloak, UncloakTried, CloaksTyped
<1>3. Unowned'
  BY <1>1 DEF IInv, Unowned, HideUncloak, UncloakTried
<1>4. Phases'
  BY <1>1 DEF IInv, Phases, Idle, HideUncloak, At
<1>5. CloaksAreListed'
  <2> SUFFICES ASSUME run \in {"startup", "up", "quitting"}, NEW g \in Handles, cloaked'[g]
               PROVE  g \in cloaklist' \cup lost'
    BY DEF CloaksAreListed, HideUncloak
  <2>1. cloaked[g] => g \in cloaklist \cup lost
    BY DEF IInv, CloaksAreListed
  <2> QED
    BY <1>1, <2>1 DEF UncloakTried, CloaksTyped
<1>6. CallIsSound'
  BY <1>1 DEF IInv, CallIsSound, Idle, HideUncloak, At, UncloakTried, CloaksTyped, TypeOK,
     Phases, CloaksAreListed
<1>7. ConcealedIsAccounted'
  <2> SUFFICES ASSUME NEW g \in Handles, Concealed(g)'
               PROVE  Accounted(g)' \/ g \in lost'
    BY DEF ConcealedIsAccounted
  <2>1. run \in {"startup", "up"}
    BY DEF IInv, TypeOK, Phases, Idle, HideUncloak, At
  <2>2. Book = registry /\ Book' = registry'
    BY <2>1 DEF IInv, Phases, HideUncloak, Book
  <2>3. CASE g = h
    BY <1>1, <2>1, <2>2, <2>3 DEF IInv, RegistryIsCurrent, CallIsSound, CloaksAreListed, HideUncloak, At,
       UncloakTried, CloaksTyped, Concealed, Accounted, Recoverable
  <2>4. CASE g # h
    BY <1>1, <2>1, <2>2, <2>4 DEF IInv, ConcealedIsAccounted, HideUncloak, At, UncloakTried,
       CloaksTyped, Concealed, Accounted, Recoverable, InFlight
  <2> QED
    BY <2>3, <2>4
<1>8. GoneIsUnowned' /\ RegistryIsCurrent'
  BY DEF IInv, GoneIsUnowned, RegistryIsCurrent, HideUncloak
<1> QED
  BY <1>2, <1>3, <1>4, <1>5, <1>6, <1>7, <1>8 DEF IInv

\* hide_window: the window is hidden.
LEMMA HidePostStep ==
  ASSUME IInv, NEW h \in Handles, HidePost(h)
  PROVE  IInv'
<1>1. TypeOK'
  BY DEF IInv, TypeOK, HidePost, Post, Idle
<1>2. Unowned'
  BY DEF IInv, Unowned, HidePost, Post, TypeOK
<1>3. Phases'
  BY DEF IInv, Phases, Idle, HidePost
<1>4. CallIsSound'
  BY DEF IInv, CallIsSound, Idle, HidePost
<1>5. ConcealedIsAccounted'
  BY DEF IInv, ConcealedIsAccounted, Concealed, Accounted, Recoverable, Book, InFlight,
     HidePost, At, Post, Idle, TypeOK, RegistryIsCurrent, Phases, CallIsSound
<1>6. GoneIsUnowned' /\ RegistryIsCurrent' /\ CloaksAreListed'
  BY DEF IInv, GoneIsUnowned, RegistryIsCurrent, CloaksAreListed, HidePost
<1> QED
  BY <1>1, <1>2, <1>3, <1>4, <1>5, <1>6 DEF IInv

\* restore_from_file: the entries worth acting on are selected.
LEMMA StartStep ==
  ASSUME IInv, Start
  PROVE  IInv'
<1>1. TypeOK'
  BY DEF IInv, TypeOK, Records, Start, windowsVars
<1>2. Phases'
  BY DEF IInv, Phases, Start
<1>3. CloaksAreListed'
  BY DEF IInv, CloaksAreListed, Start
<1>4. CallIsSound'
  BY DEF IInv, CallIsSound, Start, windowsVars
<1>5. ConcealedIsAccounted'
  <2> SUFFICES ASSUME NEW g \in Handles, Concealed(g)'
               PROVE  Accounted(g)' \/ g \in lost'
    BY DEF ConcealedIsAccounted
  <2>1. op = Idle /\ ~InFlight(g)
    <3>1. op = Idle
      BY DEF IInv, Phases, Start
    <3> QED
      BY <3>1 DEF Idle, InFlight
  <2>2. Concealed(g) /\ (Recoverable(file, g) \/ g \in lost)
    BY <2>1 DEF IInv, ConcealedIsAccounted, Accounted, Book, Start, Concealed, windowsVars
  <2>3. CASE g \in lost \/ HideIsLate(g)
    BY <2>3 DEF Start
  <2>4. CASE g \notin lost /\ ~HideIsLate(g)
    BY <2>2, <2>4 DEF Start, HideIsLate, Accounted, Recoverable, windowsVars
  <2> QED
    BY <2>3, <2>4
<1>6. Unowned' /\ GoneIsUnowned' /\ RegistryIsCurrent'
  BY DEF IInv, Unowned, GoneIsUnowned, RegistryIsCurrent, Start, windowsVars
<1> QED
  BY <1>1, <1>2, <1>3, <1>4, <1>5, <1>6 DEF IInv

\* restore_from_file: one of them is shown.
LEMMA RecoverWindowStep ==
  ASSUME IInv, NEW h \in Handles, RecoverWindow(h)
  PROVE  IInv'
<1>1. ShownAgain(h)
  BY ShowAgainFacts DEF IInv, RecoverWindow
<1>2. TypeOK'
  BY <1>1 DEF IInv, TypeOK, RecoverWindow, ShownAgain, CloaksTyped
<1>3. Unowned'
  BY <1>1 DEF IInv, Unowned, RecoverWindow, ShownAgain
<1>4. Phases'
  BY <1>1 DEF IInv, Phases, RecoverWindow
<1>5. CloaksAreListed'
  BY <1>1 DEF IInv, CloaksAreListed, RecoverWindow
<1>6. CallIsSound'
  BY <1>1 DEF IInv, CallIsSound, RecoverWindow, ShownAgain, CloaksTyped, Entries
<1>7. ConcealedIsAccounted'
  <2> SUFFICES ASSUME NEW g \in Handles, Concealed(g)'
               PROVE  Accounted(g)' \/ g \in lost'
    BY DEF ConcealedIsAccounted
  <2>1. CASE g = h
    BY <1>1, <2>1 DEF IInv, Unowned, ConcealedIsAccounted, RecoverWindow, ShowAgain, ShownAgain, CloaksTyped, Concealed,
       Accounted, Recoverable
  <2>2. CASE g # h
    BY <1>1, <2>2 DEF IInv, TypeOK, Records, ConcealedIsAccounted, RecoverWindow, ShownAgain, CloaksTyped, Concealed,
       Accounted, Recoverable
  <2> QED
    BY <2>1, <2>2
<1>8. GoneIsUnowned' /\ RegistryIsCurrent'
  BY DEF IInv, GoneIsUnowned, RegistryIsCurrent, RecoverWindow
<1> QED
  BY <1>2, <1>3, <1>4, <1>5, <1>6, <1>7, <1>8 DEF IInv

\* restore_from_file: the record is rewritten.
LEMMA RecoverDoneStep ==
  ASSUME IInv, RecoverDone
  PROVE  IInv'
<1>1. TypeOK'
  BY DEF IInv, TypeOK, RecoverDone, windowsVars
<1>2. Phases'
  BY DEF IInv, Phases, RecoverDone
<1>3. CloaksAreListed'
  BY DEF IInv, CloaksAreListed, RecoverDone, windowsVars, Unowned, NoRecord,
     ConcealedIsAccounted, Concealed, Accounted, Recoverable
<1>4. ConcealedIsAccounted'
  BY DEF IInv, ConcealedIsAccounted, Concealed, Accounted, Recoverable, RecoverDone,
     windowsVars, NoRecord
<1>5. Unowned' /\ GoneIsUnowned' /\ RegistryIsCurrent' /\ CallIsSound'
  BY DEF IInv, Unowned, GoneIsUnowned, RegistryIsCurrent, CallIsSound, RecoverDone, windowsVars
<1> QED
  BY <1>1, <1>2, <1>3, <1>4, <1>5 DEF IInv

\* The Batch of the startup pass is dropped.
LEMMA StartupDoneStep ==
  ASSUME IInv, StartupDone
  PROVE  IInv'
<1>1. TypeOK'
  BY DEF IInv, TypeOK, StartupDone, windowsVars
<1>2. Phases'
  BY DEF IInv, Phases, StartupDone
<1>3. CloaksAreListed'
  BY DEF IInv, CloaksAreListed, StartupDone, windowsVars
<1>4. ConcealedIsAccounted'
  BY DEF IInv, ConcealedIsAccounted, Concealed, Accounted, Recoverable, Book, InFlight,
     StartupDone, windowsVars, Phases
<1>5. Unowned' /\ GoneIsUnowned' /\ RegistryIsCurrent' /\ CallIsSound'
  BY DEF IInv, Unowned, GoneIsUnowned, RegistryIsCurrent, CallIsSound, StartupDone, windowsVars
<1> QED
  BY <1>1, <1>2, <1>3, <1>4, <1>5 DEF IInv

\* restore_all begins.
LEMMA QuitStep ==
  ASSUME IInv, Quit
  PROVE  IInv'
<1>1. TypeOK'
  BY DEF IInv, TypeOK, Records, Quit, windowsVars, Entries
<1>2. Phases'
  <2>1. \A h \in Handles : registry[h] # NoEntry => todo'[h] # NoEntry
    <3> SUFFICES ASSUME NEW h \in Handles, registry[h] # NoEntry
                 PROVE  todo'[h] # NoEntry
      OBVIOUS
    <3>1. owner[h] \in Owners \cup {NoOwner}
      BY DEF IInv, TypeOK
    <3>2. [owner |-> owner[h], cloaked |-> FALSE] \in Entries
      BY <3>1 DEF Entries
    <3> QED
      BY <3>2, HiddenAssumption DEF Quit
  <2> QED
    BY <2>1 DEF IInv, Phases, Idle, Quit
<1>3. CloaksAreListed'
  BY DEF IInv, CloaksAreListed, Quit, windowsVars
<1>4. ConcealedIsAccounted'
  BY DEF IInv, ConcealedIsAccounted, Concealed, Accounted, Recoverable, Book, InFlight, Quit,
     windowsVars
<1>5. Unowned' /\ GoneIsUnowned' /\ RegistryIsCurrent' /\ CallIsSound'
  BY DEF IInv, Unowned, GoneIsUnowned, RegistryIsCurrent, CallIsSound, Quit, windowsVars
<1> QED
  BY <1>1, <1>2, <1>3, <1>4, <1>5 DEF IInv

\* restore_all shows a window.
LEMMA QuitShowStep ==
  ASSUME IInv, NEW h \in Handles, QuitShow(h)
  PROVE  IInv'
<1>1. Forgotten(h)
  BY NoteShownFacts DEF IInv, QuitShow
<1>2. TypeOK'
  BY <1>1 DEF IInv, TypeOK, Records, QuitShow, Begin, Forgotten, BooksTyped, windowsVars
<1>3. RegistryIsCurrent'
  BY <1>1 DEF IInv, RegistryIsCurrent, QuitShow, Forgotten, windowsVars
<1>4. Phases'
  BY <1>1 DEF IInv, Phases, Idle, QuitShow, Begin, Forgotten, BooksTyped, FileFollows, Records
<1>5. CallIsSound'
  BY <1>1 DEF IInv, CallIsSound, QuitShow, Begin
<1>6. ConcealedIsAccounted'
  BY <1>1 DEF IInv, ConcealedIsAccounted, Concealed, Accounted, Recoverable, Book, InFlight,
     QuitShow, Begin, Idle, Forgotten, BooksTyped, FileFollows, windowsVars, Records, Phases
<1>7. Unowned' /\ GoneIsUnowned' /\ CloaksAreListed'
  BY DEF IInv, Unowned, GoneIsUnowned, CloaksAreListed, QuitShow, windowsVars
<1> QED
  BY <1>2, <1>3, <1>4, <1>5, <1>6, <1>7 DEF IInv

\* The process ends after a quit.
LEMMA QuitDoneStep ==
  ASSUME IInv, QuitDone
  PROVE  IInv'
<1>1. TypeOK'
  BY DEF IInv, TypeOK, QuitDone, Ended, windowsVars
<1>2. GoneIsUnowned'
  BY DEF IInv, GoneIsUnowned, QuitDone, Ended
<1>3. RegistryIsCurrent'
  BY DEF IInv, RegistryIsCurrent, QuitDone, Ended, NoRecord
<1>4. Phases'
  BY DEF IInv, Phases, QuitDone, Ended
<1>5. CloaksAreListed'
  BY DEF IInv, CloaksAreListed, QuitDone, Ended
<1>6. CallIsSound'
  BY DEF IInv, CallIsSound, Idle, QuitDone, Ended
<1>7. ConcealedIsAccounted'
  BY DEF IInv, ConcealedIsAccounted, Concealed, Accounted, Recoverable, Book, InFlight,
     QuitDone, Ended, NoRecord, windowsVars, Phases
<1>8. Unowned'
  BY DEF IInv, Unowned, QuitDone, windowsVars
<1> QED
  BY <1>1, <1>2, <1>3, <1>4, <1>5, <1>6, <1>7, <1>8 DEF IInv

\* The process is killed.
LEMMA KillStep ==
  ASSUME IInv, Kill
  PROVE  IInv'
<1>1. TypeOK'
  <2>1. NoRecord \in Records /\ Idle' = Idle
    BY DEF NoRecord, Records, Idle
  <2>2. lost' \subseteq Handles /\ kills' \in Nat
    <3>1. kills \in Nat
      BY DEF IInv, TypeOK
    <3>2. kills' = kills + 1
      BY DEF Kill
    <3>3. lost' \subseteq Handles
      BY DEF IInv, TypeOK, Kill, Unrecorded
    <3> QED
      BY <3>1, <3>2, <3>3
  <2> QED
    BY <2>1, <2>2 DEF IInv, TypeOK, Kill, Ended, Idle, windowsVars
<1>2. GoneIsUnowned'
  BY DEF IInv, GoneIsUnowned, Kill, Ended
<1>3. RegistryIsCurrent'
  BY DEF IInv, RegistryIsCurrent, Kill, Ended, NoRecord
<1>4. Phases'
  BY DEF IInv, Phases, Kill, Ended
<1>5. CloaksAreListed'
  BY DEF IInv, CloaksAreListed, Kill, Ended
<1>6. CallIsSound'
  BY DEF IInv, CallIsSound, Idle, Kill, Ended
<1>7. ConcealedIsAccounted'
  BY DEF IInv, ConcealedIsAccounted, Concealed, Accounted, Recoverable, Book, InFlight, Kill,
     Unrecorded, Ended, windowsVars
<1>8. Unowned'
  BY DEF IInv, Unowned, Kill, windowsVars
<1> QED
  BY <1>1, <1>2, <1>3, <1>4, <1>5, <1>6, <1>7, <1>8 DEF IInv

\* The panic hook empties the record.
LEMMA PanicStep ==
  ASSUME IInv, Panic
  PROVE  IInv'
<1>1. TypeOK'
  <2>1. NoRecord \in Records
    BY DEF NoRecord, Records
  <2>2. kills' \in Nat
    <3>1. kills \in Nat
      BY DEF IInv, TypeOK
    <3>2. kills' = kills + 1
      BY DEF Panic
    <3> QED
      BY <3>1, <3>2
  <2> QED
    BY <2>1, <2>2 DEF IInv, TypeOK, Panic, Persist, windowsVars
<1>2. RegistryIsCurrent'
  BY DEF IInv, RegistryIsCurrent, Panic, Persist, NoRecord
<1>3. Phases'
  BY DEF IInv, Phases, Panic, Persist
<1>4. CloaksAreListed'
  BY DEF IInv, CloaksAreListed, Panic
<1>5. CallIsSound'
  BY DEF IInv, CallIsSound, Idle, Panic
<1>6. ConcealedIsAccounted'
  BY DEF IInv, ConcealedIsAccounted, Concealed, Accounted, Recoverable, Book, InFlight,
     Panic, Working, Idle, windowsVars, Phases
<1>7. Unowned' /\ GoneIsUnowned'
  BY DEF IInv, Unowned, GoneIsUnowned, Panic, windowsVars
<1> QED
  BY <1>1, <1>2, <1>3, <1>4, <1>5, <1>6, <1>7 DEF IInv

\* The panic hook shows a window.
LEMMA PanicShowStep ==
  ASSUME IInv, NEW h \in Handles, PanicShow(h)
  PROVE  IInv'
<1>1. ShownAgain(h)
  BY ShowAgainFacts DEF IInv, PanicShow
<1>2. TypeOK'
  BY <1>1 DEF IInv, TypeOK, PanicShow, ShownAgain, CloaksTyped
<1>3. Unowned'
  BY <1>1 DEF IInv, Unowned, PanicShow, ShownAgain
<1>4. Phases'
  BY <1>1 DEF IInv, Phases, PanicShow
<1>5. CloaksAreListed'
  BY <1>1 DEF IInv, CloaksAreListed, PanicShow
<1>6. CallIsSound'
  <2>1. op' = Idle
    BY DEF IInv, Phases, PanicShow
  <2> QED
    BY <2>1 DEF CallIsSound, Idle
<1>7. ConcealedIsAccounted'
  <2> SUFFICES ASSUME NEW g \in Handles, Concealed(g)'
               PROVE  Accounted(g)' \/ g \in lost'
    BY DEF ConcealedIsAccounted
  <2>1. CASE g = h
    BY <1>1, <2>1 DEF IInv, Unowned, ConcealedIsAccounted, PanicShow, ShowAgain, ShownAgain, CloaksTyped, Concealed,
       Accounted, Recoverable
  <2>2. CASE g # h
    BY <1>1, <2>2 DEF IInv, TypeOK, Records, ConcealedIsAccounted, PanicShow, ShownAgain, CloaksTyped, Concealed,
       Accounted, Recoverable
  <2> QED
    BY <2>1, <2>2
<1>8. GoneIsUnowned' /\ RegistryIsCurrent'
  BY DEF IInv, GoneIsUnowned, RegistryIsCurrent, PanicShow
<1> QED
  BY <1>2, <1>3, <1>4, <1>5, <1>6, <1>7, <1>8 DEF IInv

\* The process ends after a panic.
LEMMA PanicDoneStep ==
  ASSUME IInv, PanicDone
  PROVE  IInv'
<1>1. TypeOK'
  BY DEF IInv, TypeOK, PanicDone, Ended, Idle, windowsVars
<1>2. GoneIsUnowned'
  BY DEF IInv, GoneIsUnowned, PanicDone, Ended
<1>3. RegistryIsCurrent'
  BY DEF IInv, RegistryIsCurrent, PanicDone, Ended, NoRecord
<1>4. Phases'
  BY DEF IInv, Phases, PanicDone, Ended
<1>5. CloaksAreListed'
  BY DEF IInv, CloaksAreListed, PanicDone, Ended
<1>6. CallIsSound'
  BY DEF IInv, CallIsSound, Idle, PanicDone, Ended
<1>7. ConcealedIsAccounted'
  BY DEF IInv, ConcealedIsAccounted, Concealed, Accounted, PanicDone, NoRecord, windowsVars
<1>8. Unowned'
  BY DEF IInv, Unowned, PanicDone, windowsVars
<1> QED
  BY <1>1, <1>2, <1>3, <1>4, <1>5, <1>6, <1>7, <1>8 DEF IInv

\* The application handles the posted request.
LEMMA PumpStep ==
  ASSUME IInv, NEW h \in Handles, Pump(h)
  PROVE  IInv'
<1>1. TypeOK'
  BY DEF IInv, TypeOK, Pump, processVars
<1>2. Unowned'
  BY DEF IInv, Unowned, Pump
<1>3. ConcealedIsAccounted'
  <2> SUFFICES ASSUME NEW g \in Handles, Concealed(g)'
               PROVE  Accounted(g)' \/ g \in lost'
    BY DEF ConcealedIsAccounted
  <2>1. Concealed(g)
    BY DEF IInv, TypeOK, Pump, Concealed
  <2> QED
    BY <2>1 DEF IInv, ConcealedIsAccounted, Pump, Accounted, Book, Recoverable, InFlight, processVars
<1>4. GoneIsUnowned' /\ RegistryIsCurrent' /\ Phases' /\ CloaksAreListed' /\ CallIsSound'
  BY DEF IInv, GoneIsUnowned, RegistryIsCurrent, Phases, CloaksAreListed, CallIsSound, Pump,
     processVars
<1> QED
  BY <1>1, <1>2, <1>3, <1>4 DEF IInv

\* The window is destroyed.
LEMMA CloseStep ==
  ASSUME IInv, NEW h \in Handles, Close(h)
  PROVE  IInv'
<1>1. TypeOK'
  BY DEF IInv, TypeOK, Close
<1>2. Unowned'
  BY DEF IInv, Unowned, Close, TypeOK
<1>3. GoneIsUnowned'
  BY DEF IInv, GoneIsUnowned, Close, TypeOK
<1>4. RegistryIsCurrent'
  BY DEF IInv, RegistryIsCurrent, Close
<1>5. CloaksAreListed'
  BY DEF IInv, CloaksAreListed, Close, TypeOK
<1>6. CallIsSound'
  BY DEF IInv, CallIsSound, Close, TypeOK
<1>7. ConcealedIsAccounted'
  BY DEF IInv, ConcealedIsAccounted, Concealed, Accounted, Recoverable, Book, InFlight,
     Close, TypeOK
<1>8. Phases'
  BY DEF IInv, Phases, Close
<1> QED
  BY <1>1, <1>2, <1>3, <1>4, <1>5, <1>6, <1>7, <1>8 DEF IInv

\* The handle is given to another window.
LEMMA OpenStep ==
  ASSUME IInv, NEW h \in Handles, NEW o \in Owners, Open(h, o)
  PROVE  IInv'
<1>1. TypeOK'
  BY DEF IInv, TypeOK, Open, processVars
<1>2. Unowned'
  BY DEF IInv, Unowned, Open
<1>3. GoneIsUnowned'
  BY DEF IInv, GoneIsUnowned, Open, processVars
<1>4. RegistryIsCurrent'
  BY DEF IInv, RegistryIsCurrent, Open, processVars, GoneIsUnowned
<1>5. ConcealedIsAccounted'
  BY DEF IInv, ConcealedIsAccounted, Concealed, Accounted, Recoverable, Book, InFlight, Open,
     processVars, TypeOK, Unowned
<1>6. Phases' /\ CloaksAreListed' /\ CallIsSound'
  BY DEF IInv, Phases, CloaksAreListed, CallIsSound, Open, processVars
<1> QED
  BY <1>1, <1>2, <1>3, <1>4, <1>5, <1>6 DEF IInv

\* The layout hears of a destroyed window.
LEMMA DestroyedStep ==
  ASSUME IInv, NEW h \in Handles, Destroyed(h)
  PROVE  IInv'
<1>1. Forgotten(h)
  BY NoteShownFacts DEF IInv, Destroyed
<1>2. TypeOK'
  BY <1>1 DEF IInv, TypeOK, Destroyed, Forgotten, BooksTyped, windowsVars
<1>3. GoneIsUnowned'
  BY <1>1 DEF IInv, GoneIsUnowned, Destroyed, windowsVars
<1>4. RegistryIsCurrent'
  BY <1>1 DEF IInv, RegistryIsCurrent, Destroyed, Forgotten, BooksTyped, windowsVars, Records
<1>5. Phases'
  BY <1>1 DEF IInv, Phases, Destroyed, Working, Forgotten, FileFollows
<1>6. CloaksAreListed'
  BY <1>1 DEF IInv, CloaksAreListed, Destroyed, windowsVars, TypeOK, Unowned, GoneIsUnowned
<1>7. CallIsSound'
  BY <1>1 DEF IInv, CallIsSound, Idle, Destroyed
<1>8. ConcealedIsAccounted'
  BY <1>1 DEF IInv, ConcealedIsAccounted, Concealed, Accounted, Recoverable, Book, InFlight,
     Destroyed, Working, Idle, Forgotten, FileFollows, windowsVars, TypeOK, Records,
     GoneIsUnowned, Phases
<1>9. Unowned'
  BY DEF IInv, Unowned, Destroyed, windowsVars
<1> QED
  BY <1>2, <1>3, <1>4, <1>5, <1>6, <1>7, <1>8, <1>9 DEF IInv

\* A window enters the layout.
LEMMA ManageStep ==
  ASSUME IInv, NEW h \in Handles, Manage(h)
  PROVE  IInv'
<1>1. TypeOK'
  BY DEF IInv, TypeOK, Manage, windowsVars
<1>2. GoneIsUnowned'
  BY DEF IInv, GoneIsUnowned, Manage, windowsVars, TypeOK
<1>3. RegistryIsCurrent'
  BY DEF IInv, RegistryIsCurrent, Manage, windowsVars
<1>4. Unowned' /\ Phases' /\ CloaksAreListed' /\ CallIsSound' /\ ConcealedIsAccounted'
  BY DEF IInv, Unowned, Phases, CloaksAreListed, CallIsSound, ConcealedIsAccounted,
     Concealed, Accounted, Recoverable, Book, InFlight, Manage, windowsVars
<1> QED
  BY <1>1, <1>2, <1>3, <1>4 DEF IInv

\* The hide method changes.
LEMMA SetMethodStep ==
  ASSUME IInv, SetMethod
  PROVE  IInv'
<1>1. TypeOK'
  BY DEF IInv, TypeOK, SetMethod, windowsVars
<1>2. Unowned' /\ GoneIsUnowned' /\ RegistryIsCurrent' /\ Phases' /\ CloaksAreListed' /\ CallIsSound' /\ ConcealedIsAccounted'
  BY DEF IInv, Unowned, GoneIsUnowned, RegistryIsCurrent, Phases, CloaksAreListed,
     CallIsSound, ConcealedIsAccounted, Concealed, Accounted, Recoverable, Book, InFlight,
     SetMethod, windowsVars
<1> QED
  BY <1>1, <1>2 DEF IInv

\* A stuttering step changes nothing the invariant reads.
LEMMA StutterStep ==
  ASSUME IInv, UNCHANGED vars
  PROVE  IInv'
<1> USE DEF vars, windowsVars, processVars
<1>1. TypeOK'
  BY DEF IInv, TypeOK
<1>2. Unowned' /\ GoneIsUnowned' /\ RegistryIsCurrent'
  BY DEF IInv, Unowned, GoneIsUnowned, RegistryIsCurrent
<1>3. Phases' /\ CloaksAreListed' /\ CallIsSound'
  BY DEF IInv, Phases, CloaksAreListed, CallIsSound
<1>4. ConcealedIsAccounted'
  BY DEF IInv, ConcealedIsAccounted, Concealed, Accounted, Recoverable, Book, InFlight
<1> QED
  BY <1>1, <1>2, <1>3, <1>4 DEF IInv

----------------------------------------------------------------------------
(* The theorems. *)

\* wiri has never run, and every window is in view.
LEMMA InitInvariant == Init => IInv
<1> SUFFICES ASSUME Init
             PROVE  IInv
  OBVIOUS
<1> USE DEF Init, NoRecord, Idle
<1>1. TypeOK
  BY DEF TypeOK, Records
<1>2. Unowned /\ GoneIsUnowned /\ RegistryIsCurrent
  BY HiddenAssumption DEF Unowned, GoneIsUnowned, RegistryIsCurrent
<1>3. Phases /\ CloaksAreListed /\ CallIsSound
  BY DEF Phases, CloaksAreListed, CallIsSound
<1>4. ConcealedIsAccounted
  BY DEF ConcealedIsAccounted, Concealed
<1> QED
  BY <1>1, <1>2, <1>3, <1>4 DEF IInv

\* Whatever the process, the applications or Windows do next keeps the invariant.
LEMMA NextInvariant == IInv /\ [Next]_vars => IInv'
<1> SUFFICES ASSUME IInv, [Next]_vars
             PROVE  IInv'
  OBVIOUS
<1>1. CASE UNCHANGED vars
  BY <1>1, StutterStep
<1>2. ASSUME NEW h \in Handles, Showing(h)
      PROVE  IInv'
  BY <1>2, ShowRecordStep, ShowUncloakStep, ShowPostStep DEF Showing
<1>3. ASSUME NEW h \in Handles, Hiding(h)
      PROVE  IInv'
  BY <1>3, HideRecordStep, HideCloakStep, HideCloakFailsStep, HideUncloakStep, HidePostStep
     DEF Hiding
<1>4. ASSUME NEW h \in Handles, Recovering(h)
      PROVE  IInv'
  BY <1>4, StartStep, RecoverWindowStep, RecoverDoneStep, StartupDoneStep DEF Recovering
<1>5. ASSUME NEW h \in Handles, Ending(h)
      PROVE  IInv'
  BY <1>5, QuitStep, QuitShowStep, QuitDoneStep, KillStep, PanicStep, PanicShowStep, PanicDoneStep
     DEF Ending
<1>6. ASSUME NEW h \in Handles, Around(h)
      PROVE  IInv'
  BY <1>6, PumpStep, CloseStep, OpenStep, DestroyedStep, ManageStep, SetMethodStep DEF Around
<1> QED
  BY <1>1, <1>2, <1>3, <1>4, <1>5, <1>6 DEF Next

\* The record of the hidden windows, the process and the windows always satisfy
\* the inductive invariant, for any handles, applications and number of kills.
THEOREM Invariance == Spec => []IInv
<1>1. Init => IInv
  BY InitInvariant
<1>2. IInv /\ [Next]_vars => IInv'
  BY NextInvariant
<1> QED
  BY <1>1, <1>2, PTL DEF Spec

\* Every variable keeps its type (hidden.rs, cloak.rs, show_window).
THEOREM TypeCorrect == Spec => []TypeOK
<1>1. IInv => TypeOK
  BY DEF IInv
<1> QED
  BY <1>1, Invariance, PTL

\* hidden.rs:3-9: a window that nobody sees is in the record the next start reads,
\* unless it is being shown or hidden right now or is one of the windows counted lost.
THEOREM EveryHideIsRecorded == Spec => []ConcealedIsRecorded
<1>1. IInv => ConcealedIsRecorded
  BY DEF IInv, TypeOK, ConcealedIsAccounted, Accounted, ConcealedIsRecorded, Book
<1> QED
  BY <1>1, Invariance, PTL
=============================================================================
