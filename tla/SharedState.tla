---------------------------- MODULE SharedState ----------------------------
(***************************************************************************)
(* One value of the data file that every window keeps a copy of            *)
(* (shared-state.ts, sharedValue): settings, the marks of reminders that   *)
(* were given, the background plan, the months reported.                   *)
(*                                                                         *)
(* A window changes its copy at once and sends the whole value; a failed   *)
(* save puts the previous one back.  A poll compares the file's stamp with *)
(* the one last seen, reads the file and takes its value when it differs   *)
(* from the copy.  The first read after a start is the same with one       *)
(* addition: a file without the key gets what the window kept in           *)
(* localStorage before there was a file.                                   *)
(*                                                                         *)
(* A stamp is kept as what a window can learn from it: whether it is still *)
(* the file's.  The mirror in localStorage always equals the copy, so a    *)
(* window that opens again starts from the copy it had.  Lists of records  *)
(* are saved by merging and belong to WindowSync.                          *)
(***************************************************************************)
EXTENDS Naturals, FiniteSets

CONSTANTS
    Windows,
    Values,         \* what the value may be
    Nothing,        \* the file has no such key
    Legacies,       \* what old localStorage keys may hold: some Values or Nothing
    MaxInFlight     \* bound: saves of one window not yet carried out

VARIABLES
    file,       \* the value in the file, or Nothing
    mem,        \* each window's copy
    own,        \* the save in flight whose object the copy is, 0 if none
    ready,      \* windows that have read the file since they opened
    seen,       \* windows whose last seen stamp is still the file's
    saves,      \* the saves in flight of each window, by number
    poll        \* the read each window is in the middle of

sharedVars == <<file, mem, own, ready, seen, saves, poll>>

Numbers == 1..MaxInFlight
Saves == [value : Values, before : Values, beforeOwn : 0..MaxInFlight, undo : BOOLEAN]
NoSave == [value |-> Nothing]
Polls == [at : {"idle", "stamped", "loaded"}, fresh : BOOLEAN, got : Values \cup {Nothing}]
NoPoll == [at |-> "idle", fresh |-> FALSE, got |-> Nothing]

SharedType ==
    /\ file \in Values \cup {Nothing}
    /\ mem \in [Windows -> Values]
    /\ own \in [Windows -> 0..MaxInFlight]
    /\ ready \in SUBSET Windows
    /\ seen \in SUBSET Windows
    /\ saves \in [Windows -> [Numbers -> Saves \cup {NoSave}]]
    /\ poll \in [Windows -> Polls]

Idle == [n \in Numbers |-> NoSave]

(* Windows that have just been opened, with any mirror or fallback.        *)
Init ==
    /\ file \in Values \cup {Nothing}
    /\ mem \in [Windows -> Values]
    /\ own = [w \in Windows |-> 0]
    /\ ready = {}
    /\ seen = {}
    /\ saves = [w \in Windows |-> Idle]
    /\ poll = [w \in Windows |-> NoPoll]

InFlight(w) == {n \in Numbers : saves[w][n] # NoSave}
Free(w) == Numbers \ InFlight(w)

-----------------------------------------------------------------------------
(* The file.                                                               *)

(* A write of any key moves the stamp away from every stamp taken so far.  *)
StampMoves ==
    /\ seen' = {}
    /\ poll' = [w \in Windows |-> [poll[w] EXCEPT !.fresh = FALSE]]

(* Another key is written, by anybody.                                     *)
WriteOtherKey ==
    /\ StampMoves
    /\ UNCHANGED <<file, mem, own, ready, saves>>

(* A save in flight is forgotten: its object is from now on like any other.*)
Forget(w, n) == [m \in Numbers |->
    IF m = n \/ saves[w][m] = NoSave THEN (IF m = n THEN NoSave ELSE saves[w][m])
    ELSE [saves[w][m] EXCEPT !.beforeOwn = IF @ = n THEN 0 ELSE @]]

(* The command writes the whole value; its answer then changes nothing.    *)
Write(w, n) ==
    /\ n \in InFlight(w)
    /\ file' = saves[w][n].value
    /\ saves' = [saves EXCEPT ![w] = Forget(w, n)]
    /\ own' = [own EXCEPT ![w] = IF @ = n THEN 0 ELSE @]
    /\ StampMoves
    /\ UNCHANGED <<mem, ready>>

(* The command fails: the previous value comes back, unless something      *)
(* newer has replaced the one that was sent.                               *)
Fail(w, n) ==
    /\ n \in InFlight(w)
    /\ LET s == saves[w][n] IN
       IF s.undo /\ own[w] = n
       THEN /\ mem' = [mem EXCEPT ![w] = s.before]
            /\ own' = [own EXCEPT ![w] = s.beforeOwn]
       ELSE UNCHANGED <<mem, own>>
    /\ saves' = [saves EXCEPT ![w] = Forget(w, n)]
    /\ UNCHANGED <<file, ready, seen, poll>>

-----------------------------------------------------------------------------
(* A window.                                                               *)

(* slot.apply: nothing happens unless the value really differs.            *)
Apply(w, value) ==
    IF value \in {Nothing, mem[w]}
    THEN UNCHANGED <<mem, own>>
    ELSE /\ mem' = [mem EXCEPT ![w] = value]
         /\ own' = [own EXCEPT ![w] = 0]

(* set and setChecked.                                                     *)
Set(w, value) ==
    /\ w \in ready
    /\ \E n \in Free(w) :
          /\ saves' = [saves EXCEPT ![w][n] =
                [value |-> value, before |-> mem[w], beforeOwn |-> own[w], undo |-> TRUE]]
          /\ own' = [own EXCEPT ![w] = n]
    /\ mem' = [mem EXCEPT ![w] = value]
    /\ UNCHANGED <<file, ready, seen, poll>>

(* The stamp is read, before the file: by the start of a window and by the *)
(* interval, which stops here if it has seen that stamp.                   *)
ReadStamp(w) ==
    /\ poll[w].at = "idle"
    /\ w \in ready => w \notin seen
    /\ \E known \in IF w \in ready THEN {TRUE} ELSE BOOLEAN :   \* a start goes on without it
          poll' = [poll EXCEPT ![w] = [at |-> "stamped", fresh |-> known, got |-> Nothing]]
    /\ UNCHANGED <<file, mem, own, ready, seen, saves>>

ReadFile(w) ==
    /\ poll[w].at = "stamped"
    /\ poll' = [poll EXCEPT ![w].at = "loaded", ![w].got = file]
    /\ UNCHANGED <<file, mem, own, ready, seen, saves>>

(* A read that failed marks nothing as seen; the next tick tries again.    *)
ReadFails(w) ==
    /\ poll[w].at = "stamped"
    /\ poll' = [poll EXCEPT ![w] = NoPoll]
    /\ UNCHANGED <<file, mem, own, ready, seen, saves>>

(* Mutant of Seen: the stamp is read after the file.                        *)
SeenAfterwards(w) == seen' = seen \cup {w}
Seen(w) == seen' = IF poll[w].fresh THEN seen \cup {w} ELSE seen \ {w}

(* The poll takes the value it has read.                                   *)
Adopt(w) ==
    /\ poll[w].at = "loaded" /\ w \in ready
    /\ Apply(w, poll[w].got)
    /\ Seen(w)
    /\ poll' = [poll EXCEPT ![w] = NoPoll]
    /\ UNCHANGED <<file, ready, saves>>

(* The first read: the same, and a value of the time before the file is    *)
(* carried over into a file that has none.  Its save is not undone.        *)
Hydrate(w) ==
    /\ poll[w].at = "loaded" /\ w \notin ready
    /\ Seen(w)
    /\ ready' = ready \cup {w}
    /\ poll' = [poll EXCEPT ![w] = NoPoll]
    /\ \E legacy \in IF poll[w].got = Nothing THEN Legacies ELSE {Nothing} :
          IF legacy = Nothing
          THEN Apply(w, poll[w].got) /\ UNCHANGED saves
          ELSE /\ Apply(w, legacy)
               /\ saves' = [saves EXCEPT ![w][1] =
                     [value |-> legacy, before |-> mem[w], beforeOwn |-> 0, undo |-> FALSE]]
    /\ UNCHANGED file

(* The window closes, with whatever was in flight, and opens again.        *)
Reopen(w) ==
    /\ w \in ready
    /\ ready' = ready \ {w}
    /\ seen' = seen \ {w}
    /\ own' = [own EXCEPT ![w] = 0]
    /\ saves' = [saves EXCEPT ![w] = Idle]
    /\ poll' = [poll EXCEPT ![w] = NoPoll]
    /\ UNCHANGED <<file, mem>>

Sync(w) == ReadStamp(w) \/ ReadFile(w) \/ ReadFails(w) \/ Adopt(w) \/ Hydrate(w)

-----------------------------------------------------------------------------
(* A window at rest that has seen the file's stamp shows the file's value. *)
(* Polls, answers, failures and the user's own changes race for the copy;  *)
(* the stamp marked as seen must never be newer than what was taken.       *)
ShowsFile(w) == mem[w] = file \/ file = Nothing
AtRest(w) == w \in ready /\ w \in seen /\ InFlight(w) = {} /\ poll[w] = NoPoll
SettledShowsFile == \A w \in Windows : AtRest(w) => ShowsFile(w)
=============================================================================
