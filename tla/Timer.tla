------------------------------- MODULE Timer -------------------------------
(***************************************************************************)
(* The learning timer (kollel-store.ts, timer-actions.ts).  A session is a *)
(* value of the data file; its clock is arithmetic over the times it was   *)
(* started and paused at, so it goes on while no window is open.  Stopping *)
(* writes the learning entry and the end of the session in one save.       *)
(*                                                                         *)
(* A session has no id.  Whether the one a poll brings is the one the      *)
(* window had is inferred from its times (sameTimerSession); when it is    *)
(* not, the window's generation moves on and whatever was decided about    *)
(* the old session - a limit seen, an automatic stop tried, a suggestion   *)
(* after a failed save, a save's right to put the session back - is void.  *)
(* Of the generation only that is kept here.  The ids below are history:   *)
(* the properties use them, the code's decisions do not.                   *)
(*                                                                         *)
(* Saves of one window are carried out in the order they were made.        *)
(***************************************************************************)
EXTENDS Integers, Sequences, FiniteSets

CONSTANTS
    Windows,
    LimitMinutes,       \* a limit a session may have
    MaxMinutes,         \* the longest entry validateLearning accepts
    MaxActs, MaxClock,  \* bounds: what users do, and minutes
    MaxInFlight         \* bound: saves of a window not answered

ASSUME TimerAssumption ==
    /\ LimitMinutes \in Nat \ {0} /\ MaxMinutes \in Nat \ {0}
    /\ MaxActs \in Nat /\ MaxClock \in Nat /\ MaxInFlight \in Nat \ {0}

VARIABLES
    clock,
    file,       \* the session and the entries in the data file
    win,        \* what each window has in memory
    saves,      \* its saves in flight, in order
    acts,       \* how many acts there were; the number of a new session
    crossed,    \* history: sessions acted on by a window that was behind,
                \* or that a poll took for another
    watched,    \* history: sessions each window saw under their limit
    stopped     \* history: sessions each window has stopped by itself

vars == <<clock, file, win, saves, acts, crossed, watched, stopped>>

Unset == -1
Ids == 0..MaxActs
None == [id |-> 0, start |-> 0, banked |-> Unset, paused |-> Unset, limit |-> FALSE]
Moments == Nat \cup {Unset}
Sessions == {s \in [id : Ids, start : Nat, banked : Moments, paused : Moments, limit : BOOLEAN] :
                s.paused # Unset => s.banked # Unset}
Entries == [session : Ids, no : Ids, minutes : Nat \ {0}]
Stores == [timer : Sessions, entries : SUBSET Entries]
Views == [timer : Sessions, base : Sessions, entries : SUBSET Entries,
          behind : BOOLEAN, saw : BOOLEAN, tried : BOOLEAN, error : 0..MaxMinutes]
Saves == [timer : Sessions, before : Sessions, entry : SUBSET Entries, sent : SUBSET Entries,
          minutes : Nat, written : BOOLEAN, mine : BOOLEAN]

Least(a, b) == IF a <= b THEN a ELSE b
Max0(n) == IF n < 0 THEN 0 ELSE n
Banked(s) == IF s.banked = Unset THEN 0 ELSE s.banked
Elapsed(s) == IF s.paused # Unset THEN Banked(s) ELSE Banked(s) + Max0(clock - s.start)

(* Mutant of SameSession: it does not ask whether anything was banked.     *)
SameIfLater(a, b) == (a = None) = (b = None) /\ b.start >= a.start

(* sameTimerSession.                                                       *)
SameSession(a, b) ==
    LET atResume == Banked(b) - (IF b.paused # Unset THEN Max0(b.paused - b.start) ELSE 0)
        aStopped == IF a.paused # Unset THEN a.paused ELSE a.start
        Times(s) == <<s.start, s.banked, s.paused>>
    IN  IF a = None \/ b = None THEN a = b
        ELSE \/ Times(a) = Times(b)
             \/ /\ a.banked = Unset /\ b.banked # Unset
                /\ b.start = a.start \/ (b.start >= a.start /\ atResume > 0)
             \/ /\ a.banked # Unset /\ b.banked # Unset
                /\ b.start >= aStopped /\ b.start >= a.start
                /\ atResume >= a.banked - 1

TypeOK ==
    /\ clock \in Nat
    /\ file \in Stores
    /\ win \in [Windows -> Views]
    /\ saves \in [Windows -> Seq(Saves)]
    /\ acts \in Ids
    /\ crossed \subseteq Ids
    /\ watched \in [Windows -> SUBSET Ids] /\ stopped \in [Windows -> SUBSET Ids]

Opened(store) ==
    [timer |-> store.timer, base |-> store.timer, entries |-> store.entries,
     behind |-> FALSE, saw |-> FALSE, tried |-> FALSE, error |-> 0]

Init ==
    /\ clock = 0
    /\ file = [timer |-> None, entries |-> {}]
    /\ win = [w \in Windows |-> Opened(file)]
    /\ saves = [w \in Windows |-> <<>>]
    /\ acts = 0 /\ crossed = {}
    /\ watched = [w \in Windows |-> {}] /\ stopped = [w \in Windows |-> {}]

-----------------------------------------------------------------------------
(* Mutant of NextGeneration: the limit once seen stays seen.               *)
NextGenerationSeen(v) == [v EXCEPT !.tried = FALSE, !.error = 0]

(* timerGeneration++: what was known about the session is void.            *)
NextGeneration(v) == [v EXCEPT !.saw = FALSE, !.tried = FALSE, !.error = 0]

(* In the saves in flight: `written` is the object in memory (it is what   *)
(* an undo looks for), `mine` the generation a stop was asked in.          *)
OtherObject(queue) == [i \in DOMAIN queue |-> [queue[i] EXCEPT !.written = FALSE]]
OtherGeneration(queue) == [i \in DOMAIN queue |-> [queue[i] EXCEPT !.mine = FALSE]]

(* A window acts before it has seen the last change, or while a save is    *)
(* under way: every session at hand then counts as crossed.                *)
Behind(w) == win[w].behind \/ \E v \in Windows : saves[v] # <<>>
AtHand == {file.timer} \cup {win[v].timer : v \in Windows}
    \cup UNION {{save.timer, save.before} :
                save \in UNION {{saves[v][i] : i \in DOMAIN saves[v]} : v \in Windows}}
Crossing(w, id) ==
    crossed' = crossed \cup (IF Behind(w) THEN {id} \cup {t.id : t \in AtHand} ELSE {})

May(w) == acts < MaxActs /\ Len(saves[w]) < MaxInFlight
Acts == acts' = acts + 1 /\ UNCHANGED <<clock, file>>

(* persistKey("timer", next).                                              *)
Put(w, next, v, queue) ==
    /\ win' = [win EXCEPT ![w] = [v EXCEPT !.timer = next]]
    /\ saves' = [saves EXCEPT ![w] = Append(OtherObject(queue),
          [timer |-> next, before |-> None, entry |-> {}, sent |-> {}, minutes |-> 0,
           written |-> TRUE, mine |-> TRUE])]

(* Times are milliseconds in the code: no two sessions start at once.      *)
Start(w) ==
    /\ May(w) /\ Acts /\ win[w].timer = None
    /\ \A t \in AtHand \ {None} : t.start # clock
    /\ \E limit \in BOOLEAN :
          Put(w, [id |-> acts + 1, start |-> clock, banked |-> Unset, paused |-> Unset,
                  limit |-> limit], NextGeneration(win[w]), OtherGeneration(saves[w]))
    /\ Crossing(w, acts + 1)
    /\ UNCHANGED <<watched, stopped>>

Change(w, next) ==
    /\ May(w) /\ Acts
    /\ Put(w, next, win[w], saves[w])
    /\ Crossing(w, win[w].timer.id)
    /\ UNCHANGED <<watched, stopped>>

Pause(w) == LET t == win[w].timer IN
    /\ t # None /\ t.paused = Unset
    /\ Change(w, [t EXCEPT !.banked = Elapsed(t), !.paused = clock])
Resume(w) == LET t == win[w].timer IN
    /\ t # None /\ t.paused # Unset
    /\ Change(w, [t EXCEPT !.start = clock, !.paused = Unset])
RemoveLimit(w) == LET t == win[w].timer IN
    /\ t # None /\ t.limit
    /\ Change(w, [t EXCEPT !.limit = FALSE])

Cancel(w) ==
    /\ May(w) /\ Acts /\ win[w].timer # None
    /\ Put(w, None, NextGeneration(win[w]), OtherGeneration(saves[w]))
    /\ Crossing(w, win[w].timer.id)
    /\ UNCHANGED <<watched, stopped>>

-----------------------------------------------------------------------------
(* previewStopTimer: at least a minute, and not beyond the limit.          *)
Minutes(t) ==
    LET run == IF Elapsed(t) = 0 THEN 1 ELSE Elapsed(t)
    IN  IF t.limit /\ run > LimitMinutes THEN LimitMinutes ELSE run

(* saveLearningAndEndTimer: memory changes at once, one save follows.      *)
SaveAndEnd(w, minutes, itself) ==
    LET t == win[w].timer
        entry == [session |-> t.id, no |-> acts + 1, minutes |-> minutes]
        list == win[w].entries \cup {entry} IN
    /\ May(w) /\ Acts
    /\ win' = [win EXCEPT ![w].timer = None, ![w].entries = list,
                          ![w].tried = @ \/ itself]
    /\ saves' = [saves EXCEPT ![w] = Append(OtherObject(@),
          [timer |-> None, before |-> t, entry |-> {entry}, sent |-> list, minutes |-> minutes,
           written |-> TRUE, mine |-> TRUE])]
    /\ Crossing(w, t.id)

(* saveTimerResultAtomic: a session too long for an entry is kept, and a   *)
(* duration is suggested instead.                                          *)
Stop(w) ==
    /\ win[w].timer # None
    /\ UNCHANGED <<watched, stopped>>
    /\ IF Minutes(win[w].timer) > MaxMinutes
       THEN /\ win' = [win EXCEPT ![w].error = MaxMinutes]
            /\ UNCHANGED <<clock, file, saves, acts, crossed>>
       ELSE SaveAndEnd(w, Minutes(win[w].timer), FALSE)

SaveWithMinutes(w) ==
    /\ win[w].error # 0 /\ win[w].timer # None
    /\ SaveAndEnd(w, win[w].error, FALSE)
    /\ UNCHANGED <<watched, stopped>>

Dismiss(w) ==
    /\ win[w].error # 0
    /\ win' = [win EXCEPT ![w].error = 0]
    /\ UNCHANGED <<clock, file, saves, acts, crossed, watched, stopped>>

(* The limit: only a window that saw the session under it stops by itself, *)
(* once; in any other case the person decides.                             *)
OverLimit(t) == t.limit /\ Elapsed(t) >= LimitMinutes
Watch(w) == LET t == win[w].timer IN
    /\ t # None /\ ~OverLimit(t) /\ (~win[w].saw \/ t.id \notin watched[w])
    /\ win' = [win EXCEPT ![w].saw = TRUE]
    /\ watched' = [watched EXCEPT ![w] = @ \cup {t.id}]
    /\ UNCHANGED <<clock, file, saves, acts, crossed, stopped>>
AutoStop(w) == LET t == win[w].timer IN
    /\ t # None /\ OverLimit(t)
    /\ win[w].saw /\ ~win[w].tried /\ win[w].error = 0
    /\ stopped' = [stopped EXCEPT ![w] = @ \cup {t.id}]
    /\ SaveAndEnd(w, Minutes(t), TRUE)
    /\ UNCHANGED watched

-----------------------------------------------------------------------------
(* The save of a window comes back.                                        *)
Others(w, windows) == [v \in Windows |->
    IF v = w THEN windows[w] ELSE [windows[v] EXCEPT !.behind = TRUE]]

(* Mutant of Merged: the entry is left to a save of its own.               *)
MergedLater(save) == file.entries
Merged(save) == file.entries \cup save.sent

(* Mutant of Restored: a failed stop does not bring the session back.      *)
NotRestored(v, save) == v.timer
Restored(v, save) == IF v.timer = None /\ save.mine THEN save.before ELSE v.timer

(* Mutant of Withdrawn: the entry that was not saved stays on the list.    *)
NotWithdrawn(v, save) == v.entries
Withdrawn(v, save) == v.entries \ save.entry

(* afterPersist; the end of a session moves the generation on.  The list   *)
(* is merged, so other windows' entries stay.                              *)
Saved(w) ==
    /\ saves[w] # <<>>
    /\ LET save == Head(saves[w])
           rest == Tail(saves[w])
           entries == Merged(save)
           v == [win[w] EXCEPT !.base = save.timer, !.behind = FALSE,
                     !.entries = IF save.entry # {} /\ @ = save.sent THEN entries ELSE @]
       IN  /\ file' = [timer |-> save.timer, entries |-> entries]
           /\ IF save.entry = {}
              THEN /\ win' = Others(w, [win EXCEPT ![w] = v])
                   /\ saves' = [saves EXCEPT ![w] = rest]
              ELSE /\ win' = Others(w, [win EXCEPT ![w] = NextGeneration(v)])
                   /\ saves' = [saves EXCEPT ![w] = OtherGeneration(rest)]
    /\ UNCHANGED <<clock, acts, crossed, watched, stopped>>

(* A change is undone to what the file had, unless something newer is      *)
(* there; an end puts the session back, unless it was replaced.            *)
SaveFails(w) ==
    /\ saves[w] # <<>>
    /\ LET save == Head(saves[w])
           rest == Tail(saves[w])
           v == win[w]
           undo == IF save.timer = None THEN v.timer = None ELSE save.written
       IN  IF save.entry = {}
           THEN IF undo
                THEN /\ win' = [win EXCEPT ![w] =
                            NextGeneration([v EXCEPT !.timer = v.base])]
                     /\ saves' = [saves EXCEPT ![w] = OtherGeneration(OtherObject(rest))]
                ELSE /\ saves' = [saves EXCEPT ![w] = rest]
                     /\ UNCHANGED win
           ELSE /\ win' = [win EXCEPT ![w] =
                      [v EXCEPT !.entries = Withdrawn(v, save), !.timer = Restored(v, save),
                                !.error = Least(MaxMinutes, save.minutes)]]
                /\ saves' = [saves EXCEPT ![w] = rest]
    /\ UNCHANGED <<clock, file, acts, crossed, watched, stopped>>

(* The poll: applyRemoteStore.                                             *)
Mistaken(w) == /\ win[w].timer.id # file.timer.id
               /\ SameSession(win[w].timer, file.timer)
Poll(w) ==
    /\ win[w].behind
    /\ LET v == [win[w] EXCEPT !.timer = file.timer, !.base = file.timer,
                               !.entries = file.entries, !.behind = FALSE]
       IN  IF SameSession(win[w].timer, file.timer)
           THEN /\ win' = [win EXCEPT ![w] = v]
                /\ saves' = [saves EXCEPT ![w] = OtherObject(@)]
           ELSE /\ win' = [win EXCEPT ![w] = NextGeneration(v)]
                /\ saves' = [saves EXCEPT ![w] = OtherGeneration(OtherObject(@))]
    /\ crossed' = crossed \cup (IF Mistaken(w) THEN {win[w].timer.id, file.timer.id} ELSE {})
    /\ UNCHANGED <<clock, file, acts, watched, stopped>>

(* A window closes, with what it had in flight, and opens again.           *)
Reopen(w) ==
    /\ win' = [win EXCEPT ![w] = Opened(file)]
    /\ saves' = [saves EXCEPT ![w] = <<>>]
    /\ watched' = [watched EXCEPT ![w] = {}]
    /\ stopped' = [stopped EXCEPT ![w] = {}]
    /\ win' # win
    /\ UNCHANGED <<clock, file, acts, crossed>>

Tick ==
    /\ clock < MaxClock
    /\ clock' = clock + 1
    /\ UNCHANGED <<file, win, saves, acts, crossed, watched, stopped>>

UserActs(w) ==
    \/ Start(w) \/ Pause(w) \/ Resume(w) \/ RemoveLimit(w) \/ Cancel(w)
    \/ Stop(w) \/ SaveWithMinutes(w) \/ Dismiss(w)
Next ==
    \/ \E w \in Windows :
          \/ UserActs(w) \/ Watch(w) \/ AutoStop(w)
          \/ Saved(w) \/ SaveFails(w) \/ Poll(w) \/ Reopen(w)
    \/ Tick

Spec == Init /\ [][Next]_vars

-----------------------------------------------------------------------------
(* A window at rest that is not behind shows the file's session, with its  *)
(* times, whatever was undone, retried or polled on the way, unless two    *)
(* windows acted across each other.                                        *)
SettledShowsTimer == \A w \in Windows :
    saves[w] = <<>> /\ ~win[w].behind =>
        win[w].timer = file.timer \/ {win[w].timer.id, file.timer.id} \cap crossed # {}

(* A session is entered once, whatever fails and is retried, unless a      *)
(* window acted on it before it had seen the last change or while a save   *)
(* was under way.                                                          *)
SavedOnce == \A id \in Ids \ crossed :
    Cardinality({e \in file.entries : e.session = id}) <= 1

(* A window stops a session by itself only if it saw that very session     *)
(* under its limit, and never twice, however often the save fails: what    *)
(* the window knows is tied to the session, though a session has no id.    *)
AutoStopIsWatched ==
    [][\A w \in Windows : LET id == win[w].timer.id IN
         AutoStop(w) /\ id \notin crossed => id \in watched[w] /\ id \notin stopped[w]]_vars

(* A session that replaced another is taken for it only if it was paused   *)
(* since: one that runs as it was started never inherits what a window     *)
(* knew of the one before (a limit seen, a stop tried, a save's right to   *)
(* put it back).                                                           *)
OnlyPausedIsMistaken ==
    [][\A w \in Windows : Poll(w) /\ Mistaken(w) /\ file.timer.id \notin crossed =>
          file.timer.banked # Unset]_vars

(* A session leaves the file with its entry, or because it was cancelled,  *)
(* or for a window that did not know of it; a failed stop loses nothing.   *)
SessionIsNotLost ==
    [][file'.timer.id # file.timer.id /\ file.timer # None =>
         \/ file.timer.id \in crossed
         \/ \E e \in file'.entries : e.session = file.timer.id
         \/ \E w \in Windows : saves[w] # <<>> /\ Head(saves[w]).entry = {}]_vars
=============================================================================
