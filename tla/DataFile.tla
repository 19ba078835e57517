------------------------------ MODULE DataFile ------------------------------
(***************************************************************************)
(* The data file of the folder and everything that writes it               *)
(* (shared/src/store.rs): modify_store_in behind every save, recover_store *)
(* and start_empty_store, the reader that keeps damaged bytes, and the     *)
(* rotating backups.  One step per file-system call whose place in the     *)
(* order matters.                                                          *)
(*                                                                         *)
(* The folder's lock is one variable here; DirLock says how it is taken.   *)
(* Whoever writes without it (an older build), damages or deletes the file *)
(* can do so between any two steps, but for the one gap the code leaves:   *)
(* between its last look at the file and its rename (GapMayBeHit).         *)
(*                                                                         *)
(* A store is the set of the changes in it; how a change is merged into    *)
(* the lists is RecordMerge.  A modification time is compared only for     *)
(* being the same, so it is kept as what became of the one last read.      *)
(***************************************************************************)
EXTENDS Naturals, FiniteSets

CONSTANTS
    Procs,          \* the processes that share the folder
    NoProc,         \* nobody
    Changes,        \* the changes saves make, one each
    NoChange,       \* none of them
    Damages,        \* the damaged contents the file can take
    MaxAttempts,    \* MAX_WRITE_ATTEMPTS
    MaxBackups,     \* MAX_BACKUPS
    MinInterval,    \* BACKUP_MIN_INTERVAL_MS, in ticks of the clock
    MaxClock,       \* bound: the latest time
    LockMayBeLost,  \* TRUE if a frozen holder can lose its lock and go on later
    GapMayBeHit     \* TRUE if the file can change inside the gap

ASSUME DistinctAssumption == NoProc \notin Procs /\ NoChange \notin Changes
ASSUME BoundsAssumption ==
    /\ MaxAttempts \in Nat \ {0}
    /\ MaxBackups \in Nat \ {0}
    /\ MinInterval \in Nat \ {0}
    /\ MaxClock \in Nat
ASSUME SwitchesAssumption == LockMayBeLost \in BOOLEAN /\ GapMayBeHit \in BOOLEAN

VARIABLES
    file,           \* the data file
    past,           \* history: what the stores that were in it held
    kept,           \* the contents of the sedorim-data.corrupt.*.json files
    backups,        \* the files of the backups folder
    lock,           \* whose lock file is in the folder, or NoProc
    pc,             \* where each process is
    job,            \* what it was asked to do
    change,         \* the change it saves
    view,           \* what its copy of the store holds, before the change
    before,         \* the modification time it read: "none" (no file), "same"
                    \* (still the file's), "old" (no longer)
    tries,          \* its attempts so far
    due,            \* the time in the name of the backup it is making
    stamps,         \* the times of the other backups, as it listed them
    clock,          \* the wall clock
    answer          \* what became of each change

Store == INSTANCE AtomicStore WITH file <- file, past <- past, kept <- kept

folder == <<file, past, kept>>
local  == <<pc, job, change, view, before, tries, due, stamps>>
vars == <<file, past, kept, backups, lock, pc, job, change, view, before, tries,
          due, stamps, clock, answer>>

Saving     == {"stat", "read", "check", "rename", "list", "copy", "prune"}
Restoring  == {"pick", "keep", "replace", "verify"}
Gap        == {"rename", "replace"}         \* looked for the last time, about to rename
Steps      == {"idle"} \cup Saving \cup Restoring
SaveJobs   == {"save", "update"}
Jobs       == SaveJobs \cup {"recover", "empty"}
Answers    == {"unasked", "open", "ok", "nothing", "error"}
Times      == 0..MaxClock

(* A backup: a rotating copy of a store, or what a crash left of one.      *)
Backups == [at : Times, good : BOOLEAN, holds : SUBSET Changes]

TypeOK ==
    /\ file \in Store!Files
    /\ past \subseteq SUBSET Changes
    /\ kept \subseteq Store!Files
    /\ backups \subseteq Backups
    /\ lock \in Procs \cup {NoProc}
    /\ pc \in [Procs -> Steps]
    /\ job \in [Procs -> Jobs]
    /\ change \in [Procs -> Changes \cup {NoChange}]
    /\ \A p \in Procs : pc[p] # "idle" /\ job[p] \in SaveJobs => change[p] \in Changes
    /\ view \in [Procs -> SUBSET Changes]
    /\ before \in [Procs -> {"none", "same", "old"}]
    /\ tries \in [Procs -> 0..MaxAttempts]
    /\ due \in [Procs -> Times]
    /\ stamps \in [Procs -> SUBSET Times]
    /\ clock \in Times
    /\ answer \in [Changes -> Answers]

(* What earlier sessions may have left in the backups folder.              *)
OldBackup == [at |-> 0, good |-> TRUE, holds |-> Store!Nothing]

Init ==
    /\ Store!Init
    /\ backups \in {{}} \cup {{OldBackup} : s \in past}
    /\ lock = NoProc
    /\ pc = [p \in Procs |-> "idle"]
    /\ job = [p \in Procs |-> "save"]
    /\ change = [p \in Procs |-> NoChange]
    /\ view = [p \in Procs |-> {}]
    /\ before = [p \in Procs |-> "none"]
    /\ tries = [p \in Procs |-> 0]
    /\ due = [p \in Procs |-> 0]
    /\ stamps = [p \in Procs |-> {}]
    /\ clock = 0
    /\ answer = [n \in Changes |-> "unasked"]

-----------------------------------------------------------------------------
(* Helpers.                                                                *)

Goto(p, step) == pc' = [pc EXCEPT ![p] = step]

Answered(p, what) ==
    answer' = IF job[p] \in SaveJobs THEN [answer EXCEPT ![change[p]] = what] ELSE answer

(* Nothing of a call outlives it in the process's memory.                  *)
Forget(p) ==
    /\ Goto(p, "idle")
    /\ job' = [job EXCEPT ![p] = "save"]
    /\ change' = [change EXCEPT ![p] = NoChange]
    /\ view' = [view EXCEPT ![p] = {}]
    /\ before' = [before EXCEPT ![p] = "none"]
    /\ tries' = [tries EXCEPT ![p] = 0]
    /\ due' = [due EXCEPT ![p] = 0]
    /\ stamps' = [stamps EXCEPT ![p] = {}]

(* The call is over.  Drop for DirLock removes the lock file if it is      *)
(* still its own.                                                          *)
Leave(p, what) ==
    /\ Forget(p)
    /\ Answered(p, what)
    /\ lock' = IF lock = p THEN NoProc ELSE lock

(* A new file, whoever writes it, has a time no one has read.              *)
SetFile(f) ==
    /\ file' = f
    /\ past' = Store!PastWith(f)
    /\ before' = [q \in Procs |-> IF before[q] = "same" THEN "old" ELSE before[q]]

Unmoved(p) == before[p] = "same" \/ (before[p] = "none" /\ file.kind = "missing")

GapIsEmpty == \A q \in Procs : pc[q] \notin Gap
MayTouch   == GapMayBeHit \/ GapIsEmpty

(* What a save of p puts in the file.                                      *)
Written(p) == view[p] \cup {change[p]}

(* A copy of the file's bytes, if there is a file; best effort.            *)
Preserve == kept' = kept \/ (file # Store!Missing /\ kept' = kept \cup {file})

-----------------------------------------------------------------------------
(* A call begins.  While it waits for the lock it has done nothing.        *)

(* A lock is free when nobody has it, or when its holder died.             *)
LockIsFree == lock = NoProc \/ (lock \in Procs /\ pc[lock] = "idle")

Begin(p, what, n, step) ==
    /\ pc[p] = "idle"
    /\ LockIsFree
    /\ lock' = p
    /\ Goto(p, step)
    /\ job' = [job EXCEPT ![p] = what]
    /\ change' = [change EXCEPT ![p] = n]
    /\ UNCHANGED <<folder, backups, view, before, tries, due, stamps, clock>>

(* save_keys_merging_in, or update_key_in                                  *)
BeginSave(p) ==
    \E n \in Changes, what \in SaveJobs :
        /\ answer[n] = "unasked"
        /\ Begin(p, what, n, "stat")
        /\ answer' = [answer EXCEPT ![n] = "open"]

BeginRecover(p) == Begin(p, "recover", NoChange, "pick") /\ UNCHANGED answer

BeginEmpty(p) == Begin(p, "empty", NoChange, "keep") /\ UNCHANGED answer

(* Fifteen seconds without the lock, or the folder refuses a new file.     *)
GiveUp ==
    /\ \E n \in Changes :
        /\ answer[n] = "unasked"
        /\ answer' = [answer EXCEPT ![n] = "error"]
    /\ UNCHANGED <<folder, backups, lock, local, clock>>

-----------------------------------------------------------------------------
(* The read-modify-write cycle, modify_store_in.                           *)

Stat(p) ==
    /\ pc[p] = "stat"
    /\ Goto(p, "read")
    /\ before' = [before EXCEPT ![p] = IF file.kind = "missing" THEN "none" ELSE "same"]
    /\ tries' = [tries EXCEPT ![p] = @ + 1]
    /\ UNCHANGED <<folder, backups, lock, job, change, view, due, stamps, clock, answer>>

(* A missing file reads as an empty store.  The change is made in the copy *)
(* and the result goes, synced, to a temporary file of this process's own  *)
(* name.                                                                   *)
Read(p) ==
    /\ pc[p] = "read"
    /\ file.kind # "bad"
    /\ Goto(p, "check")
    /\ view' = [view EXCEPT ![p] = file.holds]
    /\ UNCHANGED <<folder, backups, lock, job, change, before, tries, due, stamps, clock,
                   answer>>

(* A damaged file, or one that cannot be opened just now: never merged     *)
(* into, but kept.                                                         *)
ReadFails(p) ==
    /\ pc[p] = "read"
    /\ file.kind # "missing"
    /\ Leave(p, "error")
    /\ Preserve
    /\ UNCHANGED <<file, past, backups, clock>>

(* update_key found nothing to change.                                     *)
KeepAsIs(p) ==
    /\ pc[p] = "read"
    /\ job[p] = "update"
    /\ file.kind # "bad"
    /\ Leave(p, "nothing")
    /\ UNCHANGED <<folder, backups, clock>>

(* The temporary file could not be written.                                *)
WriteFails(p) ==
    /\ pc[p] = "check"
    /\ Leave(p, "error")
    /\ UNCHANGED <<folder, backups, clock>>

(* Mutant of FileStood: no last look.                                      *)
RenameUnchecked(p) ==
    /\ pc[p] = "check"
    /\ MayTouch
    /\ Goto(p, "rename")
    /\ UNCHANGED <<folder, backups, lock, job, change, view, before, tries, due, stamps,
                   clock, answer>>

(* The last look at the file before the rename.                            *)
FileStood(p) ==
    /\ pc[p] = "check"
    /\ Unmoved(p)
    /\ MayTouch
    /\ Goto(p, "rename")
    /\ UNCHANGED <<folder, backups, lock, job, change, view, before, tries, due, stamps,
                   clock, answer>>

FileMoved(p) ==
    /\ pc[p] = "check"
    /\ ~Unmoved(p)
    /\ \/ /\ tries[p] < MaxAttempts
          /\ Goto(p, "stat")
          /\ UNCHANGED <<lock, job, change, view, before, tries, due, stamps, answer>>
       \/ tries[p] = MaxAttempts /\ Leave(p, "error")
    /\ UNCHANGED <<folder, backups, clock>>

Rename(p) ==
    /\ pc[p] = "rename"
    /\ SetFile(Store!Good(Written(p)))
    /\ Goto(p, "list")
    /\ UNCHANGED <<kept, backups, lock, job, change, view, tries, due, stamps, clock,
                   answer>>

(* Something else keeps the file open, retry after retry.                  *)
RenameFails(p) ==
    /\ pc[p] = "rename"
    /\ Leave(p, "error")
    /\ UNCHANGED <<folder, backups, clock>>

-----------------------------------------------------------------------------
(* The rotating backups, maybe_backup: best effort, and inside the lock.   *)
(* (Two that lost and took the lock do not name theirs by the same         *)
(* millisecond here.)                                                      *)

(* Mutant of Recent: a backup dated after now counts as no backup.         *)
RecentPast == \E b \in backups : b.at <= clock /\ clock < b.at + MinInterval

Recent == \E b \in backups : clock < b.at + MinInterval

(* A recent one, or no folder to look into: there is nothing to do.        *)
SkipBackup(p) ==
    /\ pc[p] = "list"
    /\ Leave(p, "ok")
    /\ UNCHANGED <<folder, backups, clock>>

ListBackups(p) ==
    /\ pc[p] = "list"
    /\ ~Recent
    /\ \A q \in Procs : pc[q] = "copy" => due[q] # clock
    /\ Goto(p, "copy")
    /\ due' = [due EXCEPT ![p] = clock]
    /\ stamps' = [stamps EXCEPT ![p] = {b.at : b \in backups}]
    /\ UNCHANGED <<folder, backups, lock, job, change, view, before, tries, clock,
                   answer>>

BackupOf(p) == [at |-> due[p], good |-> TRUE, holds |-> Written(p)]
TornOf(p)   == [at |-> due[p], good |-> FALSE, holds |-> {}]

(* The file of that name, if there is one, is written over.                *)
WithBackup(b) == {c \in backups : c.at # b.at} \cup {b}

CopyBackup(p) ==
    /\ pc[p] = "copy"
    /\ backups' = WithBackup(BackupOf(p))
    /\ Goto(p, "prune")
    /\ UNCHANGED <<folder, lock, job, change, view, before, tries, due, stamps, clock,
                   answer>>

(* Mutant of CopyFails: a failed backup fails the save.                    *)
CopyFailsSave(p) ==
    /\ pc[p] = "copy"
    /\ Leave(p, "error")
    /\ UNCHANGED <<folder, backups, clock>>

(* A full disk: the part of the copy is removed, and the save stays good.  *)
CopyFails(p) ==
    /\ pc[p] = "copy"
    /\ Leave(p, "ok")
    /\ UNCHANGED <<folder, backups, clock>>

(* Mutant of Surplus: the oldest are kept.                                 *)
NewSurplus(p) ==
    {t \in stamps[p] \cup {due[p]} :
        Cardinality({u \in stamps[p] \cup {due[p]} : u < t}) >= MaxBackups}

(* All but the newest MaxBackups of those it listed and the new one; each  *)
(* removal may fail.                                                       *)
Surplus(p) ==
    {t \in stamps[p] :
        Cardinality({u \in stamps[p] \cup {due[p]} : u > t}) >= MaxBackups}

PruneBackups(p) ==
    /\ pc[p] = "prune"
    /\ \E gone \in SUBSET Surplus(p) : backups' = {b \in backups : b.at \notin gone}
    /\ Leave(p, "ok")
    /\ UNCHANGED <<folder, clock>>

-----------------------------------------------------------------------------
(* recover_store_in and start_empty_store_in.                              *)

(* The chosen backup is read under the lock.                               *)
PickBackup(p) ==
    /\ pc[p] = "pick"
    /\ \E b \in backups : b.good /\ view' = [view EXCEPT ![p] = b.holds]
    /\ Goto(p, "keep")
    /\ UNCHANGED <<folder, backups, lock, job, change, before, tries, due, stamps, clock,
                   answer>>

(* preserve_current_in: without a copy of what is there, nothing follows.  *)
KeepCurrent(p) ==
    /\ pc[p] = "keep"
    /\ MayTouch
    /\ kept' = kept \cup ({file} \ {Store!Missing})
    /\ Goto(p, "replace")
    /\ UNCHANGED <<file, past, backups, lock, job, change, view, before, tries, due, stamps,
                   clock, answer>>

ReplaceFile(p) ==
    /\ pc[p] = "replace"
    /\ SetFile(Store!Good(view[p]))
    /\ Goto(p, "verify")
    /\ UNCHANGED <<kept, backups, lock, job, change, view, tries, due, stamps, clock,
                   answer>>

(* The file was read back, or before that the backup was damaged or gone,  *)
(* the copy or the temporary file could not be made, the rename refused.   *)
RestoreEnds(p) ==
    /\ pc[p] \in Restoring
    /\ Leave(p, IF pc[p] = "verify" THEN "ok" ELSE "error")
    /\ UNCHANGED <<folder, backups, clock>>

-----------------------------------------------------------------------------
(* What happens beside the writers.                                        *)

(* read_store_checked finds damage and keeps it.                           *)
Load ==
    /\ file.kind = "bad"
    /\ Preserve
    /\ UNCHANGED <<file, past, backups, lock, local, clock, answer>>

(* A process dies.  What it leaves: its lock, its temporary file (never    *)
(* read), and, in the middle of a copy, part of a backup.                  *)
Crash(p) ==
    /\ pc[p] # "idle"
    /\ Forget(p)
    /\ \/ UNCHANGED backups
       \/ pc[p] = "copy" /\ backups' = WithBackup(TornOf(p))
    /\ UNCHANGED <<folder, lock, clock, answer>>

(* A holder frozen for minutes is taken for dead; it does not notice.      *)
LoseLock ==
    /\ LockMayBeLost
    /\ lock # NoProc
    /\ lock' = NoProc
    /\ UNCHANGED <<folder, backups, local, clock, answer>>

(* An older build saves without the lock.                                  *)
OldWrite ==
    /\ MayTouch
    /\ file.kind # "bad"
    /\ \E n \in Changes :
        /\ answer[n] = "unasked"
        /\ SetFile(Store!Good(file.holds \cup {n}))
        /\ answer' = [answer EXCEPT ![n] = "ok"]
    /\ UNCHANGED <<kept, backups, lock, pc, job, change, view, tries, due, stamps, clock>>

Damage ==
    /\ MayTouch
    /\ \E d \in Damages : SetFile(Store!Bad(d))
    /\ UNCHANGED <<kept, backups, lock, pc, job, change, view, tries, due, stamps, clock,
                   answer>>

Delete ==
    /\ MayTouch
    /\ file.kind # "missing"
    /\ SetFile(Store!Missing)
    /\ UNCHANGED <<kept, backups, lock, pc, job, change, view, tries, due, stamps, clock,
                   answer>>

(* The clock goes on, or is set back while no backup is being copied.      *)
Tick ==
    /\ \/ clock < MaxClock /\ clock' = clock + 1
       \/ /\ \A p \in Procs : pc[p] # "copy"
          /\ clock' \in {t \in Times : t < clock}
    /\ UNCHANGED <<folder, backups, lock, local, answer>>

-----------------------------------------------------------------------------
Save(p) ==
    \/ Stat(p) \/ Read(p) \/ ReadFails(p) \/ KeepAsIs(p) \/ WriteFails(p)
    \/ FileStood(p) \/ FileMoved(p) \/ Rename(p) \/ RenameFails(p)

Backup(p) ==
    SkipBackup(p) \/ ListBackups(p) \/ CopyBackup(p) \/ CopyFails(p) \/ PruneBackups(p)

Restore(p) == PickBackup(p) \/ KeepCurrent(p) \/ ReplaceFile(p) \/ RestoreEnds(p)

Outside == Load \/ LoseLock \/ OldWrite \/ Damage \/ Delete \/ Tick

Next ==
    \/ \E p \in Procs :
        \/ BeginSave(p) \/ BeginRecover(p) \/ BeginEmpty(p)
        \/ Save(p) \/ Backup(p) \/ Restore(p) \/ Crash(p)
    \/ GiveUp
    \/ Outside

Spec == Init /\ [][Next]_vars

-----------------------------------------------------------------------------
(* Properties.                                                             *)

(* The data file implements the atomic store: every save is based on what  *)
(* the file holds when it is renamed, no matter who wrote, damaged or      *)
(* deleted it since it was read, and nothing is replaced without a copy.   *)
Atomic == Store!Spec

(* A save that was answered with an error never reached the file, and one  *)
(* that was answered with success was in it: the window undoes the first   *)
(* and forgets about the second.                                           *)
AnswersAreTrue ==
    \A n \in Changes :
        /\ answer[n] = "ok" => n \in UNION past
        /\ answer[n] \in {"error", "nothing"} => n \notin UNION past

GoodBackups == {b \in backups : b.good}

(* Rotation, a crash while copying, a full disk or a clock that was set    *)
(* back never cost the last usable backup.                                 *)
GoodBackupStays == [][GoodBackups # {} => GoodBackups' # {}]_vars

(* At most one rotating backup per interval, over crashes, full disks and  *)
(* clocks set back, as long as no holder loses its lock.                   *)
BackupsSpaced ==
    ~LockMayBeLost =>
        \A b, c \in backups : b.at < c.at => b.at + MinInterval <= c.at
=============================================================================
