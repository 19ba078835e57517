----------------------------- MODULE WindowSync -----------------------------
(***************************************************************************)
(* The windows of the app and the data file they share (kollel-store.ts    *)
(* with store-bridge.ts and save-conflicts.ts; the merge is RecordMerge).  *)
(*                                                                         *)
(* Each window keeps a list in memory, edits it at once, and sends the     *)
(* whole list with the list it started from (its base).  The file merges   *)
(* the two under its lock: one step here.  The answer comes back later,    *)
(* and a poll, which reads the file's stamp and then the file, brings in   *)
(* what other windows wrote.                                               *)
(*                                                                         *)
(* One list of records stands for `seder` or `learning`; saves of another  *)
(* key (the timer, the other list) only move the file's stamp and time.    *)
(* Every edit makes a version of its own.  A write's updatedAt and its     *)
(* stamp are one number, one more than the last write's.                   *)
(***************************************************************************)
EXTENDS Naturals, FiniteSets, RecordMerge

CONSTANTS
    Windows,
    Ids,                \* the record ids
    NoList,             \* the file has no such key yet
    MaxActs,            \* bound: acts of the users of all windows together
    MaxInFlight,        \* bound: saves of one window whose answer is not back
    PollWhileSaving,    \* TRUE if a poll and a save of a window may overlap
    OtherKeySaves,      \* TRUE if windows also save other keys
    FirstListMissing    \* TRUE if the windows open before the key exists

ASSUME DistinctAssumption ==
    /\ Absent \notin Nat
    /\ NoList \notin [Ids -> Nat \cup {Absent}]
ASSUME BoundsAssumption == MaxActs \in Nat /\ MaxInFlight \in Nat \ {0}
ASSUME SwitchesAssumption ==
    /\ PollWhileSaving \in BOOLEAN
    /\ OtherKeySaves \in BOOLEAN
    /\ FirstListMissing \in BOOLEAN

VARIABLES
    file,           \* the list in the file, or NoList
    fileAt,         \* when it was written: its updatedAt and its stamp
    mem,            \* the list each window shows
    base,           \* the list as the window last loaded or wrote it, or NoList
    current,        \* the save whose array the window shows, 0 if none
    made,           \* ids whose object in memory was made here since the last load
    known,          \* lastKnownUpdatedAt
    seenStamp,      \* lastSeenStamp
    saves,          \* the saves in flight of each window
    poll,           \* the poll each window is in the middle of
    replacing,      \* the explicit overwrite it has read the file for
    pending,        \* its parked conflicts
    acts,           \* how many acts there were: an edit's version is its act's number
    seen            \* every version each window has had in hand

vars == <<file, fileAt, mem, base, current, made, known, seenStamp, saves, poll,
          replacing, pending, acts, seen>>

Versions == Nat \cup {Absent}
Lists    == [Ids -> Versions]
Empty    == [id \in Ids |-> Absent]
Initial  == [Ids -> {0, Absent}]       \* lists from an earlier session

AsList(value) == IF value = NoList THEN Empty ELSE value

(* The records of a list, by id and version.                               *)
RecordsOf(list) == {<<id, list[id]>> : id \in {i \in Ids : list[i] # Absent}}

Conflicts == [id : Ids, mine : Versions]

Saves == [no : 1..MaxInFlight,
          how : {"plain", "checked", "replace", "whole", "other"},
          ids : SUBSET Ids,             \* the records the user changed
          sent : Lists,
          base : Lists \cup {NoList},   \* NoList: the whole list is replaced
          before : Lists,               \* the memory before the edit
          state : {"asked", "written", "failed"},
          old : Lists \cup {NoList},    \* the file just before the write
          at : Nat]                     \* when it was written

Polls == [step : {"idle", "stamped", "loaded"},
          stamp : Nat,
          list : Lists \cup {NoList},
          at : Nat]

NoPoll == [step |-> "idle", stamp |-> 0, list |-> NoList, at |-> 0]

TypeOK ==
    /\ file \in Lists \cup {NoList}
    /\ fileAt \in Nat
    /\ mem \in [Windows -> Lists]
    /\ base \in [Windows -> Lists \cup {NoList}]
    /\ current \in [Windows -> 0..MaxInFlight]
    /\ made \in [Windows -> SUBSET Ids]
    /\ known \in [Windows -> Nat]
    /\ seenStamp \in [Windows -> Nat]
    /\ saves \in [Windows -> SUBSET Saves]
    /\ poll \in [Windows -> Polls]
    /\ replacing \in [Windows -> SUBSET [conflict : Conflicts, list : Lists]]
    /\ pending \in [Windows -> SUBSET Conflicts]
    /\ acts \in Nat
    /\ seen \in [Windows -> SUBSET (Ids \X Versions)]

(* Every window has hydrated from the file and has not polled yet.         *)
Init ==
    /\ file \in IF FirstListMissing THEN {NoList} ELSE Initial
    /\ fileAt = 1
    /\ mem = [w \in Windows |-> AsList(file)]
    /\ base = [w \in Windows |-> file]
    /\ current = [w \in Windows |-> 0]
    /\ made = [w \in Windows |-> {}]
    /\ known = [w \in Windows |-> 1]
    /\ seenStamp = [w \in Windows |-> 0]
    /\ saves = [w \in Windows |-> {}]
    /\ poll = [w \in Windows |-> NoPoll]
    /\ replacing = [w \in Windows |-> {}]
    /\ pending = [w \in Windows |-> {}]
    /\ acts = 0
    /\ seen = [w \in Windows |-> RecordsOf(AsList(file))]

-----------------------------------------------------------------------------
(* The write of the file, under its lock.                                  *)

Merges(s, list) == s.base # NoList /\ list # NoList

(* What the file holds after save s found `list` there.                    *)
Outcome(s, list) ==
    CASE s.how = "other"                         -> list
      [] s.how # "other" /\ Merges(s, list)      ->
            [id \in Ids |-> Merged(s.base[id], s.sent[id], list[id])]
      [] OTHER                                   -> s.sent

ConflictsOf(s, list) ==
    IF s.how # "other" /\ Merges(s, list)
    THEN {[id |-> id, mine |-> s.sent[id]] :
              id \in {i \in Ids : Conflict(s.base[i], s.sent[i], list[i])}}
    ELSE {}

Progress(w, s, t) == saves' = [saves EXCEPT ![w] = (@ \ {s}) \cup {t}]

WriteFile(w, s) ==
    /\ s.state = "asked"
    /\ file' = Outcome(s, file)
    /\ fileAt' = fileAt + 1
    /\ Progress(w, s, [s EXCEPT !.state = "written", !.old = file, !.at = fileAt + 1])
    /\ UNCHANGED <<mem, base, current, made, known, seenStamp, poll, replacing,
                   pending, acts, seen>>

(* The lock is not had, the disk is full, the file cannot be replaced.     *)
FailWrite(w, s) ==
    /\ s.state = "asked"
    /\ Progress(w, s, [s EXCEPT !.state = "failed"])
    /\ UNCHANGED <<file, fileAt, mem, base, current, made, known, seenStamp, poll,
                   replacing, pending, acts, seen>>

-----------------------------------------------------------------------------
(* The user's operations.                                                  *)

FreeNos(w) == 1..MaxInFlight \ {s.no : s \in saves[w]}

(* One save at a time, and no poll beside it, unless the switches say so.  *)
MayAct(w) ==
    /\ FreeNos(w) # {}
    /\ PollWhileSaving \/ poll[w].step = "idle"

(* The window shows `list` and sends it.                                   *)
Send(w, how, ids, list, from) ==
    \E no \in FreeNos(w) :
        /\ saves' = [saves EXCEPT ![w] = @ \cup
              {[no |-> no, how |-> how, ids |-> ids, sent |-> list, base |-> from,
                before |-> mem[w], state |-> "asked", old |-> NoList, at |-> 0]}]
        /\ mem' = [mem EXCEPT ![w] = list]
        /\ current' = [current EXCEPT ![w] = no]

Act == acts < MaxActs /\ acts' = acts + 1

(* upsert, add and replace put a version, remove takes the record away; in *)
(* their plain or their checked form.                                      *)
EditRecord(w, how, id, version) ==
    LET list == [mem[w] EXCEPT ![id] = version] IN
    /\ MayAct(w)
    /\ list # mem[w]
    /\ Act
    /\ Send(w, how, {id}, list, base[w])
    /\ made' = [made EXCEPT ![w] = @ \cup {id}]
    /\ seen' = [seen EXCEPT ![w] = @ \cup RecordsOf(list)]
    /\ UNCHANGED <<file, fileAt, base, known, seenStamp, poll, replacing, pending>>

Edit(w) ==
    \E how \in {"plain", "checked"}, id \in Ids, version \in {acts + 1, Absent} :
        EditRecord(w, how, id, version)

(* clearAll, and replaceAll with a list of records of its own: no base.    *)
ReplaceAll(w) ==
    \E list \in {Empty, [id \in Ids |-> acts + 1]} :
        /\ MayAct(w)
        /\ Act
        /\ Send(w, "whole", Ids, list, NoList)
        /\ made' = [made EXCEPT ![w] = Ids]
        /\ seen' = [seen EXCEPT ![w] = @ \cup RecordsOf(list)]
        /\ UNCHANGED <<file, fileAt, base, known, seenStamp, poll, replacing, pending>>

SaveOtherKey(w) ==
    /\ OtherKeySaves
    /\ MayAct(w)
    /\ Act
    /\ \E no \in FreeNos(w) :
          saves' = [saves EXCEPT ![w] = @ \cup
              {[no |-> no, how |-> "other", ids |-> {}, sent |-> mem[w], base |-> NoList,
                before |-> mem[w], state |-> "asked", old |-> NoList, at |-> 0]}]
    /\ UNCHANGED <<file, fileAt, mem, base, current, made, known, seenStamp, poll,
                   replacing, pending, seen>>

(* refreshConflict: the window already shows the file's version.           *)
Refresh(w) ==
    \E c \in pending[w] :
        /\ pending' = [pending EXCEPT ![w] = @ \ {c}]
        /\ UNCHANGED <<file, fileAt, mem, base, current, made, known, seenStamp, saves,
                       poll, replacing, acts, seen>>

(* replaceConflictingRecord reads the file, and goes on when it has it.    *)
ReplaceRead(w) ==
    \E c \in pending[w] :
        /\ MayAct(w)
        /\ replacing[w] = {}
        /\ file # NoList
        /\ Act
        /\ replacing' = [replacing EXCEPT ![w] = {[conflict |-> c, list |-> file]}]
        /\ UNCHANGED <<file, fileAt, mem, base, current, made, known, seenStamp, saves,
                       poll, pending, seen>>

ReplaceSave(w) ==
    \E r \in replacing[w] :
        LET c    == r.conflict
            list == [r.list EXCEPT ![c.id] = c.mine]
        IN  /\ MayAct(w)
            /\ Send(w, "replace", {c.id}, list, r.list)
            /\ made' = [made EXCEPT ![w] = {}]
            /\ replacing' = [replacing EXCEPT ![w] = {}]
            /\ seen' = [seen EXCEPT ![w] = @ \cup RecordsOf(r.list) \cup RecordsOf(list)]
            /\ UNCHANGED <<file, fileAt, base, known, seenStamp, poll, pending, acts>>

-----------------------------------------------------------------------------
(* The answer to a save.                                                   *)

Finish(w, s) == saves' = [saves EXCEPT ![w] = @ \ {s}]
Show(w, list, no) ==
    /\ mem' = [mem EXCEPT ![w] = list]
    /\ current' = [current EXCEPT ![w] = no]
Keep(w, s) == Show(w, mem[w], IF current[w] = s.no THEN 0 ELSE current[w])

(* reportConflicts parks the new ones over the old ones of their records;  *)
(* an overwrite that met no new conflict then takes its own one away.      *)
Park(w, s, found) ==
    LET ids == {c.id : c \in found}
        own == {c \in pending[w] : s.how = "replace" /\ c.id \in s.ids /\ c.mine = s.sent[c.id]}
    IN  pending' = [pending EXCEPT ![w] =
            {c \in @ \ own : c.id \notin ids} \cup found]

(* Mutant of Acknowledge: the merged list becomes the base, but the window *)
(* goes on showing what it sent.                                           *)
AcknowledgeUnseen(w, s) ==
    /\ s.state = "written"
    /\ Finish(w, s)
    /\ known' = [known EXCEPT ![w] = s.at]
    /\ Keep(w, s)
    /\ base' = [base EXCEPT ![w] = AsList(Outcome(s, s.old))]
    /\ Park(w, s, ConflictsOf(s, s.old))
    /\ UNCHANGED <<file, fileAt, made, seen, seenStamp, poll, replacing, acts>>

(* afterPersist: what was sent is the base now; what the file made of it   *)
(* is adopted unless the memory moved on meanwhile.                        *)
Acknowledge(w, s) ==
    LET got == Outcome(s, s.old) IN
    /\ s.state = "written"
    /\ Finish(w, s)
    /\ known' = [known EXCEPT ![w] = s.at]
    /\ CASE s.how = "other" ->
              UNCHANGED <<mem, base, current, made, seen>>
         [] s.how # "other" /\ got # s.sent /\ current[w] = s.no ->
              /\ Show(w, got, 0)
              /\ base' = [base EXCEPT ![w] = got]
              /\ made' = [made EXCEPT ![w] = {}]
              /\ seen' = [seen EXCEPT ![w] = @ \cup RecordsOf(got)]
         [] OTHER ->
              /\ Keep(w, s)
              /\ base' = [base EXCEPT ![w] = s.sent]
              /\ UNCHANGED <<made, seen>>
    /\ Park(w, s, ConflictsOf(s, s.old))
    /\ UNCHANGED <<file, fileAt, seenStamp, poll, replacing, acts>>

(* A failed save is undone in memory: the checked forms put their own      *)
(* record back, the others the whole list, each only if it is still theirs.*)
Undo(w, s) ==
    LET itsOwn == \A id \in s.ids :
            /\ mem[w][id] = s.sent[id]
            /\ s.sent[id] = Absent \/ id \in made[w]
    IN  CASE s.how \in {"plain", "whole"} /\ current[w] = s.no ->
               Show(w, AsList(base[w]), 0)
          [] s.how = "replace" /\ current[w] = s.no ->
               Show(w, s.before, 0)
          [] s.how = "checked" /\ itsOwn ->
               Show(w, [id \in Ids |-> IF id \in s.ids THEN s.before[id] ELSE mem[w][id]], 0)
          [] OTHER ->
               Keep(w, s)

Reject(w, s) ==
    /\ s.state = "failed"
    /\ Finish(w, s)
    /\ Undo(w, s)
    /\ UNCHANGED <<file, fileAt, base, made, known, seenStamp, poll, replacing,
                   pending, acts, seen>>

-----------------------------------------------------------------------------
(* The poll: a stat, a read of the file, and its adoption.                 *)

PollStamp(w) ==
    /\ poll[w].step = "idle"
    /\ PollWhileSaving \/ (saves[w] = {} /\ replacing[w] = {})
    /\ fileAt # seenStamp[w]
    /\ poll' = [poll EXCEPT ![w] = [NoPoll EXCEPT !.step = "stamped", !.stamp = fileAt]]
    /\ UNCHANGED <<file, fileAt, mem, base, current, made, known, seenStamp, saves,
                   replacing, pending, acts, seen>>

PollLoad(w) ==
    /\ poll[w].step = "stamped"
    /\ poll' = [poll EXCEPT ![w].step = "loaded", ![w].list = file, ![w].at = fileAt]
    /\ UNCHANGED <<file, fileAt, mem, base, current, made, known, seenStamp, saves,
                   replacing, pending, acts, seen>>

PollFail(w) ==
    /\ poll[w].step = "stamped"
    /\ poll' = [poll EXCEPT ![w] = NoPoll]
    /\ UNCHANGED <<file, fileAt, mem, base, current, made, known, seenStamp, saves,
                   replacing, pending, acts, seen>>

(* Mutant of PollAdopt: the stamp kept is the one after the read.          *)
PollAdoptLateStamp(w) ==
    LET p == poll[w] IN
    /\ p.step = "loaded"
    /\ poll' = [poll EXCEPT ![w] = NoPoll]
    /\ seenStamp' = [seenStamp EXCEPT ![w] = fileAt]
    /\ IF p.at > known[w]
       THEN /\ Show(w, AsList(p.list), 0)
            /\ base' = [base EXCEPT ![w] = p.list]
            /\ made' = [made EXCEPT ![w] = {}]
            /\ known' = [known EXCEPT ![w] = p.at]
            /\ seen' = [seen EXCEPT ![w] = @ \cup RecordsOf(AsList(p.list))]
       ELSE UNCHANGED <<mem, base, current, made, known, seen>>
    /\ UNCHANGED <<file, fileAt, saves, replacing, pending, acts>>

PollAdopt(w) ==
    LET p == poll[w] IN
    /\ p.step = "loaded"
    /\ poll' = [poll EXCEPT ![w] = NoPoll]
    /\ seenStamp' = [seenStamp EXCEPT ![w] = p.stamp]
    /\ IF p.at > known[w]
       THEN /\ Show(w, AsList(p.list), 0)
            /\ base' = [base EXCEPT ![w] = p.list]
            /\ made' = [made EXCEPT ![w] = {}]
            /\ known' = [known EXCEPT ![w] = p.at]
            /\ seen' = [seen EXCEPT ![w] = @ \cup RecordsOf(AsList(p.list))]
       ELSE UNCHANGED <<mem, base, current, made, known, seen>>
    /\ UNCHANGED <<file, fileAt, saves, replacing, pending, acts>>

-----------------------------------------------------------------------------
Write(w)  == \E s \in saves[w] : WriteFile(w, s) \/ FailWrite(w, s)
Answer(w) == \E s \in saves[w] : Acknowledge(w, s) \/ Reject(w, s)

Next ==
    \E w \in Windows :
        \/ Edit(w)
        \/ ReplaceAll(w)
        \/ SaveOtherKey(w)
        \/ Refresh(w)
        \/ ReplaceRead(w)
        \/ ReplaceSave(w)
        \/ Write(w)
        \/ Answer(w)
        \/ PollStamp(w)
        \/ PollLoad(w)
        \/ PollFail(w)
        \/ PollAdopt(w)

Spec == Init /\ [][Next]_vars

(* A save is written or fails, and is answered; the timer of the poll goes *)
(* on, and a file that can be read is read in the end.                     *)
Fairness ==
    \A w \in Windows :
        /\ WF_vars(Write(w))
        /\ WF_vars(Answer(w))
        /\ WF_vars(ReplaceSave(w))
        /\ WF_vars(PollStamp(w))
        /\ SF_vars(PollLoad(w))
        /\ WF_vars(PollAdopt(w))

FairSpec == Spec /\ Fairness

-----------------------------------------------------------------------------
WrittenSaves(w) == {s \in saves[w] : s.state = "written"}

(* A merging save takes away or replaces only a version of a record that   *)
(* its window has had in hand: what another window wrote meanwhile is safe.*)
NoBlindOverwrite ==
    \A w \in Windows : \A s \in WrittenSaves(w) :
        s.how # "whole" =>
            \A record \in RecordsOf(AsList(s.old)) \ RecordsOf(AsList(Outcome(s, s.old))) :
                record \in seen[w]

(* The change the user made is in the file, or is reported as a conflict.  *)
(* An explicit overwrite may find his version in the file already; it then *)
(* changes nothing, and what comes between its read and its save wins.     *)
EditAppliedOrReported ==
    \A w \in Windows : \A s \in WrittenSaves(w) : \A id \in s.ids :
        \/ Outcome(s, s.old)[id] = s.sent[id]
        \/ \E c \in ConflictsOf(s, s.old) : c.id = id
        \/ s.how = "replace" /\ s.sent[id] = s.base[id]

(* A save changes no record but those its user changed: none is deleted,   *)
(* brought back or reverted because the window's base was behind.          *)
OnlyTheEditedRecords ==
    \A w \in Windows : \A s \in WrittenSaves(w) : \A id \in Ids \ s.ids :
        AsList(Outcome(s, s.old))[id] = AsList(s.old)[id]

Quiet(w) == saves[w] = {} /\ replacing[w] = {} /\ poll[w].step = "idle"

(* A window at rest that has seen the file's stamp shows the file.         *)
SettledWindowShowsFile ==
    \A w \in Windows :
        Quiet(w) /\ seenStamp[w] = fileAt => mem[w] = AsList(file)

(* When the users stop, every window comes to show the file and stays so.  *)
WindowsConverge == <>[](\A w \in Windows : mem[w] = AsList(file))
=============================================================================
