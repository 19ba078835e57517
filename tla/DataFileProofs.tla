--------------------------- MODULE DataFileProofs ---------------------------
(***************************************************************************)
(* The data file implements the atomic store, for any number of processes, *)
(* changes, damages and attempts, also when holders lose the lock, as long *)
(* as nobody changes the file inside the gap before a rename.              *)
(***************************************************************************)
EXTENDS DataFile, TLAPS

(* What a store is made of that a process is about to write.               *)
Stores == past \cup {Store!Nothing}

FileInPast == file.kind = "good" => file.holds \in past

GoodBackupsInPast == \A b \in backups : b.good => b.holds \in past

ViewsInPast ==
    \A p \in Procs :
        /\ pc[p] \in {"idle", "check", "rename", "keep", "replace"} => view[p] \in Stores
        /\ pc[p] \in {"list", "copy"} => Written(p) \in past

(* A time that is still the file's vouches for what was read.              *)
ReadIsCurrent ==
    \A p \in Procs : before[p] = "same" =>
        /\ file.kind # "missing"
        /\ pc[p] = "check" => file.kind = "good" /\ view[p] = file.holds

(* In the gap: the file may be replaced.                                   *)
MayBeReplaced ==
    \A p \in Procs :
        /\ pc[p] = "rename" =>
              \/ file.kind = "missing"
              \/ file.kind = "good" /\ view[p] = file.holds
        /\ pc[p] = "replace" => file.kind = "missing" \/ file \in kept

OneInGap == \A p, q \in Procs : pc[p] \in Gap /\ pc[q] \in Gap => p = q

(* A save has a change to make, and another attempt when it starts one.    *)
JobsOfSteps ==
    \A p \in Procs :
        /\ pc[p] \in Saving => job[p] \in SaveJobs
        /\ pc[p] \in Restoring => job[p] \notin SaveJobs
        /\ pc[p] = "idle" => tries[p] = 0
        /\ pc[p] = "stat" => tries[p] < MaxAttempts

TInv == TypeOK /\ JobsOfSteps

IInv ==
    /\ TInv
    /\ FileInPast
    /\ GoodBackupsInPast
    /\ ViewsInPast
    /\ ReadIsCurrent
    /\ MayBeReplaced
    /\ OneInGap

-----------------------------------------------------------------------------
(* Types.                                                                  *)

LEMMA FileTypes ==
    /\ Store!Missing \in Store!Files
    /\ \A s \in SUBSET Changes : Store!Good(s) \in Store!Files
    /\ \A d \in Damages : Store!Bad(d) \in Store!Files
    /\ \A f \in Store!Files : /\ f.kind \in {"missing", "good", "bad"}
                              /\ f.kind # "bad" => f.holds \in SUBSET Changes
                              /\ f.kind = "missing" => f = Store!Missing
                              /\ f.kind = "good" => f = Store!Good(f.holds)
<1>1. /\ Store!Missing \in Store!Files
      /\ \A s \in SUBSET Changes : Store!Good(s) \in Store!Files
      /\ \A d \in Damages : Store!Bad(d) \in Store!Files
  BY DEF Store!Files
<1>2. ASSUME NEW f \in Store!Files
      PROVE  /\ f.kind \in {"missing", "good", "bad"}
             /\ f.kind # "bad" => f.holds \in SUBSET Changes
             /\ f.kind = "missing" => f = Store!Missing
             /\ f.kind = "good" => f = Store!Good(f.holds)
  <2>1. CASE f = Store!Missing
    BY <2>1 DEF Store!Missing
  <2>2. CASE \E s \in SUBSET Changes : f = Store!Good(s)
    BY <2>2 DEF Store!Good
  <2>3. CASE \E d \in Damages : f = Store!Bad(d)
    BY <2>3 DEF Store!Bad
  <2>4. QED
    BY <2>1, <2>2, <2>3 DEF Store!Files
<1>3. QED
  BY <1>1, <1>2

LEMMA PastType ==
    ASSUME past \subseteq SUBSET Changes, NEW f \in Store!Files
    PROVE  /\ Store!PastWith(f) \subseteq SUBSET Changes
           /\ past \subseteq Store!PastWith(f)
           /\ f.kind = "good" => f.holds \in Store!PastWith(f)
  BY FileTypes DEF Store!PastWith

LEMMA TypeInit == Init => TypeOK
<1> SUFFICES ASSUME Init PROVE TypeOK
  OBVIOUS
<1>1. file \in Store!Files /\ past \subseteq SUBSET Changes /\ kept \subseteq Store!Files
  <2>1. Store!Nothing \in SUBSET Changes
    BY DEF Store!Nothing
  <2>2. QED
    BY <2>1, FileTypes DEF Init, Store!Init
<1>2. backups \subseteq Backups
  <2>1. OldBackup \in Backups
    BY BoundsAssumption DEF OldBackup, Store!Nothing, Backups, Times
  <2>2. QED
    BY <2>1 DEF Init
<1>3. QED
  BY <1>1, <1>2, BoundsAssumption DEF Init, TypeOK, Steps, Jobs, SaveJobs, Times, Answers

(* What a call leaves behind in its process.                               *)
LEMMA LeaveType ==
    ASSUME TypeOK, NEW p \in Procs, pc[p] # "idle", NEW what \in Answers, Leave(p, what)
    PROVE  /\ lock' \in Procs \cup {NoProc}
           /\ pc' \in [Procs -> Steps]
           /\ job' \in [Procs -> Jobs]
           /\ change' \in [Procs -> Changes \cup {NoChange}]
           /\ \A q \in Procs : pc'[q] # "idle" /\ job'[q] \in SaveJobs => change'[q] \in Changes
           /\ view' \in [Procs -> SUBSET Changes]
           /\ before' \in [Procs -> {"none", "same", "old"}]
           /\ tries' \in [Procs -> 0..MaxAttempts]
           /\ due' \in [Procs -> Times]
           /\ stamps' \in [Procs -> SUBSET Times]
           /\ answer' \in [Changes -> Answers]
<1>1. answer' \in [Changes -> Answers]
  BY DEF Leave, Answered, TypeOK
<1>2. QED
  BY <1>1, BoundsAssumption
     DEF Leave, Forget, Goto, TypeOK, Steps, Jobs, SaveJobs, Times

LEMMA SetFileType ==
    ASSUME TypeOK, NEW f \in Store!Files, SetFile(f)
    PROVE  /\ file' \in Store!Files
           /\ past' \subseteq SUBSET Changes
           /\ past \subseteq past'
           /\ FileInPast'
           /\ before' \in [Procs -> {"none", "same", "old"}]
  BY PastType DEF SetFile, TypeOK, FileInPast

LEMMA WrittenType ==
    ASSUME TInv, NEW p \in Procs, pc[p] \in Saving
    PROVE  Written(p) \in SUBSET Changes /\ change[p] \in Changes /\ pc[p] # "idle"
  BY DEF TInv, TypeOK, JobsOfSteps, Written, Saving

LEMMA LeaveInv ==
    ASSUME TInv, NEW p \in Procs, pc[p] # "idle", NEW what \in Answers, Leave(p, what),
           file' \in Store!Files, past' \subseteq SUBSET Changes, kept' \subseteq Store!Files,
           backups' \subseteq Backups, clock' \in Times
    PROVE  TInv'
<1>1. TypeOK'
  BY LeaveType DEF TInv, TypeOK
<1>2. JobsOfSteps'
  BY BoundsAssumption DEF Leave, Forget, Goto, TInv, TypeOK, JobsOfSteps, Saving, Restoring
<1>3. QED
  BY <1>1, <1>2 DEF TInv

LEMMA PreserveType ==
    ASSUME TypeOK, Preserve
    PROVE  kept' \subseteq Store!Files
  BY DEF Preserve, TypeOK

LEMMA BackupTypes ==
    ASSUME TInv, NEW p \in Procs, pc[p] \in Saving
    PROVE  /\ WithBackup(BackupOf(p)) \subseteq Backups
           /\ WithBackup(TornOf(p)) \subseteq Backups
<1>1. BackupOf(p) \in Backups
  BY WrittenType DEF TInv, TypeOK, BackupOf, Backups
<1>2. TornOf(p) \in Backups
  BY DEF TInv, TypeOK, TornOf, Backups
<1>3. QED
  BY <1>1, <1>2 DEF TInv, TypeOK, WithBackup

LEMMA TypeNext == TInv /\ [Next]_vars => TInv'
<1> SUFFICES ASSUME TInv, [Next]_vars PROVE TInv'
  OBVIOUS
<1> USE DEF TInv
<1>1. ASSUME NEW p \in Procs, BeginSave(p) PROVE TInv'
  BY <1>1, BoundsAssumption
     DEF BeginSave, Begin, Goto, TypeOK, JobsOfSteps, folder, Steps, Saving, Restoring, Jobs,
         SaveJobs, Answers
<1>2. ASSUME NEW p \in Procs, BeginRecover(p) \/ BeginEmpty(p) PROVE TInv'
  BY <1>2 DEF BeginRecover, BeginEmpty, Begin, Goto, TypeOK, JobsOfSteps, folder, Steps,
              Saving, Restoring, Jobs, SaveJobs
<1>3. ASSUME NEW p \in Procs, Stat(p) PROVE TInv'
  BY <1>3, BoundsAssumption
     DEF Stat, Goto, TypeOK, JobsOfSteps, folder, Steps, Saving, Restoring, SaveJobs
<1>4. ASSUME NEW p \in Procs, Read(p) PROVE TInv'
  BY <1>4, FileTypes DEF Read, Goto, TypeOK, JobsOfSteps, folder, Steps, Saving, Restoring
<1>5. ASSUME NEW p \in Procs, ReadFails(p) PROVE TInv'
  BY <1>5, LeaveInv, PreserveType DEF ReadFails, TypeOK, Answers
<1>6. ASSUME NEW p \in Procs, KeepAsIs(p) PROVE TInv'
  BY <1>6, LeaveInv DEF KeepAsIs, folder, TypeOK, Answers
<1>7. ASSUME NEW p \in Procs, WriteFails(p) PROVE TInv'
  BY <1>7, LeaveInv DEF WriteFails, folder, TypeOK, Answers
<1>8. ASSUME NEW p \in Procs, FileStood(p) PROVE TInv'
  BY <1>8 DEF FileStood, Goto, TypeOK, JobsOfSteps, folder, Steps, Saving, Restoring
<1>9. ASSUME NEW p \in Procs, FileMoved(p) PROVE TInv'
  <2>1. CASE Leave(p, "error")
    BY <1>9, <2>1, LeaveInv DEF FileMoved, folder, TypeOK, Answers
  <2>2. CASE Goto(p, "stat") /\ tries[p] < MaxAttempts
             /\ UNCHANGED <<lock, job, change, view, before, tries, due, stamps, answer>>
    BY <1>9, <2>2 DEF FileMoved, Goto, TypeOK, JobsOfSteps, folder, Steps, Saving, Restoring
  <2>3. QED
    BY <1>9, <2>1, <2>2 DEF FileMoved
<1>10. ASSUME NEW p \in Procs, Rename(p) PROVE TInv'
  <2>1. Store!Good(Written(p)) \in Store!Files
    BY <1>10, WrittenType, FileTypes DEF Rename, Saving, Restoring
  <2>2. QED
    BY <1>10, <2>1, SetFileType DEF Rename, Goto, TypeOK, JobsOfSteps, Steps, Saving, Restoring
<1>11. ASSUME NEW p \in Procs, RenameFails(p) PROVE TInv'
  BY <1>11, LeaveInv DEF RenameFails, folder, TypeOK, Answers
<1>12. ASSUME NEW p \in Procs, SkipBackup(p) PROVE TInv'
  BY <1>12, LeaveInv DEF SkipBackup, folder, TypeOK, Answers
<1>13. ASSUME NEW p \in Procs, ListBackups(p) PROVE TInv'
  <2>1. {b.at : b \in backups} \in SUBSET Times
    BY DEF TypeOK, Backups
  <2>2. QED
    BY <1>13, <2>1 DEF ListBackups, Goto, TypeOK, JobsOfSteps, folder, Steps, Saving, Restoring
<1>14. ASSUME NEW p \in Procs, CopyBackup(p) PROVE TInv'
  <2>1. WithBackup(BackupOf(p)) \subseteq Backups
    BY <1>14, BackupTypes DEF CopyBackup, Saving, Restoring
  <2>2. QED
    BY <1>14, <2>1 DEF CopyBackup, Goto, TypeOK, JobsOfSteps, folder, Steps, Saving, Restoring
<1>15. ASSUME NEW p \in Procs, CopyFails(p) PROVE TInv'
  BY <1>15, LeaveInv DEF CopyFails, folder, TypeOK, Answers
<1>16. ASSUME NEW p \in Procs, PruneBackups(p) PROVE TInv'
  <2>1. backups' \subseteq Backups
    BY <1>16 DEF PruneBackups, TypeOK
  <2>2. QED
    BY <1>16, <2>1, LeaveInv DEF PruneBackups, folder, TypeOK, Answers
<1>17. ASSUME NEW p \in Procs, PickBackup(p) PROVE TInv'
  BY <1>17 DEF PickBackup, Goto, TypeOK, JobsOfSteps, folder, Steps, Saving, Restoring, Backups
<1>18. ASSUME NEW p \in Procs, KeepCurrent(p) PROVE TInv'
  BY <1>18 DEF KeepCurrent, Goto, TypeOK, JobsOfSteps, Steps, Saving, Restoring
<1>19. ASSUME NEW p \in Procs, ReplaceFile(p) PROVE TInv'
  <2>1. Store!Good(view[p]) \in Store!Files
    BY FileTypes DEF TypeOK
  <2>2. QED
    BY <1>19, <2>1, SetFileType
       DEF ReplaceFile, Goto, TypeOK, JobsOfSteps, Steps, Saving, Restoring
<1>20. ASSUME NEW p \in Procs, RestoreEnds(p) PROVE TInv'
  BY <1>20, LeaveInv DEF RestoreEnds, Restoring, folder, TypeOK, Answers
<1>21. ASSUME NEW p \in Procs, Crash(p) PROVE TInv'
  <2>1. backups' \subseteq Backups
    BY <1>21, BackupTypes DEF Crash, TypeOK, Saving, Restoring
  <2>2. QED
    BY <1>21, <2>1, BoundsAssumption
       DEF Crash, Forget, Goto, TypeOK, JobsOfSteps, folder, Steps, Saving, Restoring, Jobs,
           SaveJobs, Times
<1>22. ASSUME GiveUp PROVE TInv'
  BY <1>22 DEF GiveUp, TypeOK, JobsOfSteps, folder, local, Answers
<1>23. ASSUME Load PROVE TInv'
  BY <1>23, PreserveType DEF Load, TypeOK, JobsOfSteps, local
<1>24. ASSUME LoseLock \/ Tick PROVE TInv'
  BY <1>24, BoundsAssumption DEF LoseLock, Tick, TypeOK, JobsOfSteps, folder, local, Times
<1>25. ASSUME OldWrite PROVE TInv'
  <2>1. PICK n \in Changes : /\ SetFile(Store!Good(file.holds \cup {n}))
                             /\ answer' = [answer EXCEPT ![n] = "ok"]
    BY <1>25 DEF OldWrite
  <2>2. Store!Good(file.holds \cup {n}) \in Store!Files
    BY <1>25, FileTypes DEF OldWrite, TypeOK
  <2>3. QED
    BY <1>25, <2>1, <2>2, SetFileType DEF OldWrite, TypeOK, JobsOfSteps, Answers
<1>26. ASSUME Damage PROVE TInv'
  BY <1>26, FileTypes, SetFileType DEF Damage, TypeOK, JobsOfSteps
<1>27. ASSUME Delete PROVE TInv'
  BY <1>27, FileTypes, SetFileType DEF Delete, TypeOK, JobsOfSteps
<1>28. CASE UNCHANGED vars
  BY <1>28 DEF vars, TypeOK, JobsOfSteps
<1>29. QED
  BY <1>1, <1>2, <1>3, <1>4, <1>5, <1>6, <1>7, <1>8, <1>9, <1>10, <1>11, <1>12, <1>13, <1>14,
     <1>15, <1>16, <1>17, <1>18, <1>19, <1>20, <1>21, <1>22, <1>23, <1>24, <1>25, <1>26,
     <1>27, <1>28 DEF Next, Save, Backup, Restore, Outside

LEMMA TInvCorrect == Spec => []TInv
<1>1. Init => TInv
  BY TypeInit, BoundsAssumption DEF TInv, Init, JobsOfSteps, Saving, Restoring
<1>2. QED
  BY <1>1, TypeNext, PTL DEF Spec

(* The state keeps its type, whatever the processes and the bounds; in     *)
(* particular no save makes more than MaxAttempts attempts.                *)
THEOREM TypeCorrect == Spec => []TypeOK
  BY TInvCorrect, PTL DEF TInv

-----------------------------------------------------------------------------
(* The invariant, and the step of the atomic store each step is.           *)

(* What the invariant adds to the types.                                   *)
FolderInv ==
    FileInPast /\ GoodBackupsInPast /\ ViewsInPast /\ ReadIsCurrent /\ MayBeReplaced /\ OneInGap

StoreStep == [Store!Next]_(Store!storeVars)

(* A process goes back to idle; at most copies have been added.            *)
LEMMA LeaveKeeps ==
    ASSUME IInv, NEW p \in Procs, Forget(p), UNCHANGED <<file, past>>, kept \subseteq kept',
           \A b \in backups' : b.good => b.holds \in past
    PROVE  FolderInv'
  BY DEF IInv, TInv, TypeOK, FolderInv, FileInPast, GoodBackupsInPast, ViewsInPast, Stores,
         Written, ReadIsCurrent, MayBeReplaced, OneInGap, Forget, Goto, Gap, Store!Nothing

LEMMA QuietStep ==
    ASSUME UNCHANGED folder
    PROVE  StoreStep
  BY DEF folder, StoreStep, Store!storeVars

LEMMA KeepStep ==
    ASSUME UNCHANGED <<file, past>>, kept' = kept \/ kept' = kept \cup {file}
    PROVE  StoreStep
  BY DEF StoreStep, Store!storeVars, Store!Next, Store!Keep

(* The file changes, and only p, if anyone, was in the gap.                *)
LEMMA SetFileKeeps ==
    ASSUME IInv, NEW f \in Store!Files, SetFile(f), UNCHANGED <<backups, change, view>>,
           \A q \in Procs : pc'[q] = pc[q] \/ pc'[q] \in {"list", "verify"},
           \A q \in Procs : pc'[q] \notin Gap,
           \A q \in Procs : pc'[q] = "list" /\ pc[q] # "list" => Written(q) \in past'
    PROVE  FolderInv'
<1>1. past \subseteq past' /\ FileInPast'
  BY SetFileType DEF IInv, TInv
<1>2. GoodBackupsInPast'
  BY <1>1 DEF IInv, GoodBackupsInPast
<1>3. ViewsInPast'
  BY <1>1 DEF IInv, ViewsInPast, Stores, Written
<1>4. ReadIsCurrent'
  BY DEF ReadIsCurrent, SetFile
<1>5. MayBeReplaced' /\ OneInGap'
  BY DEF MayBeReplaced, OneInGap, Gap
<1>6. QED
  BY <1>1, <1>2, <1>3, <1>4, <1>5 DEF FolderInv

LEMMA StepInv ==
    ASSUME ~GapMayBeHit, IInv, [Next]_vars
    PROVE  FolderInv' /\ StoreStep
<1>1. ASSUME NEW p \in Procs, BeginSave(p) \/ BeginRecover(p) \/ BeginEmpty(p)
      PROVE  FolderInv' /\ StoreStep
  <2>1. PICK step \in {"stat", "pick", "keep"} :
            /\ pc[p] = "idle"
            /\ pc' = [pc EXCEPT ![p] = step]
            /\ change' \in [Procs -> Changes \cup {NoChange}]
            /\ \A q \in Procs : q # p => change'[q] = change[q]
            /\ UNCHANGED <<file, past, kept, backups, view, before>>
    BY <1>1 DEF BeginSave, BeginRecover, BeginEmpty, Begin, Goto, folder, IInv, TInv, TypeOK
  <2>2. FileInPast' /\ GoodBackupsInPast' /\ OneInGap' /\ MayBeReplaced'
    BY <2>1 DEF IInv, TInv, TypeOK, FileInPast, GoodBackupsInPast, OneInGap, MayBeReplaced, Gap
  <2>3. ViewsInPast' /\ ReadIsCurrent'
    BY <2>1 DEF IInv, TInv, TypeOK, ViewsInPast, Stores, Written, ReadIsCurrent
  <2>4. QED
    BY <2>1, <2>2, <2>3, QuietStep DEF FolderInv, folder
<1>2. ASSUME NEW p \in Procs, Stat(p) PROVE FolderInv' /\ StoreStep
  BY <1>2, QuietStep
     DEF Stat, Goto, folder, IInv, TInv, TypeOK, FolderInv, FileInPast, GoodBackupsInPast,
         ViewsInPast, Stores, Written, ReadIsCurrent, MayBeReplaced, OneInGap, Gap
<1>3. ASSUME NEW p \in Procs, Read(p) PROVE FolderInv' /\ StoreStep
  <2>1. file.holds \in Stores
    BY <1>3, FileTypes
       DEF Read, IInv, TInv, TypeOK, FileInPast, Stores, Store!Missing, Store!Nothing
  <2>2. before[p] = "same" => file.kind = "good"
    BY <1>3, FileTypes DEF Read, IInv, TInv, TypeOK, ReadIsCurrent
  <2>3. QED
    BY <1>3, <2>1, <2>2, QuietStep
       DEF Read, Goto, folder, IInv, TInv, TypeOK, FolderInv, FileInPast, GoodBackupsInPast,
           ViewsInPast, Stores, Written, ReadIsCurrent, MayBeReplaced, OneInGap, Gap
<1>4. ASSUME NEW p \in Procs, WriteFails(p) \/ RenameFails(p) \/ KeepAsIs(p) \/ SkipBackup(p)
      PROVE  FolderInv' /\ StoreStep
  BY <1>4, QuietStep, LeaveKeeps
     DEF WriteFails, RenameFails, KeepAsIs, SkipBackup, Leave, folder, IInv,
         GoodBackupsInPast
<1>5. ASSUME NEW p \in Procs, CopyFails(p) \/ RestoreEnds(p) PROVE FolderInv' /\ StoreStep
  BY <1>5, QuietStep, LeaveKeeps
     DEF CopyFails, RestoreEnds, Leave, folder, IInv, GoodBackupsInPast
<1>6. ASSUME NEW p \in Procs, ReadFails(p) PROVE FolderInv' /\ StoreStep
  BY <1>6, KeepStep, LeaveKeeps DEF ReadFails, Preserve, Leave, IInv, GoodBackupsInPast
<1>7. ASSUME NEW p \in Procs, FileStood(p) PROVE FolderInv' /\ StoreStep
  <2>1. file.kind = "missing" \/ (file.kind = "good" /\ view[p] = file.holds)
    BY <1>7 DEF FileStood, Unmoved, IInv, ReadIsCurrent
  <2>2. OneInGap'
    BY <1>7 DEF FileStood, MayTouch, GapIsEmpty, Goto, OneInGap, IInv, TInv, TypeOK
  <2>3. QED
    BY <1>7, <2>1, <2>2, QuietStep
       DEF FileStood, Goto, folder, IInv, TInv, TypeOK, FolderInv, FileInPast,
           GoodBackupsInPast, ViewsInPast, Stores, Written, ReadIsCurrent, MayBeReplaced
<1>8. ASSUME NEW p \in Procs, FileMoved(p) PROVE FolderInv' /\ StoreStep
  <2>1. CASE Leave(p, "error")
    BY <1>8, <2>1, QuietStep, LeaveKeeps DEF FileMoved, Leave, folder, IInv, GoodBackupsInPast
  <2>2. CASE Goto(p, "stat") /\ UNCHANGED <<change, view, before>>
    BY <1>8, <2>2, QuietStep
       DEF FileMoved, Goto, folder, IInv, TInv, TypeOK, FolderInv, FileInPast,
           GoodBackupsInPast, ViewsInPast, Stores, Written, ReadIsCurrent, MayBeReplaced,
           OneInGap, Gap
  <2>3. QED
    BY <1>8, <2>1, <2>2 DEF FileMoved
<1>9. ASSUME NEW p \in Procs, Rename(p) PROVE FolderInv' /\ StoreStep
  <2>1. /\ Store!Good(Written(p)) \in Store!Files
        /\ change[p] \in Changes
        /\ file' = Store!Good(Written(p))
        /\ past' = Store!PastWith(file')
    BY <1>9, WrittenType, FileTypes DEF Rename, Saving, IInv, SetFile
  <2>2. \A q \in Procs : pc'[q] \notin Gap
    BY <1>9 DEF Rename, Goto, Gap, OneInGap, IInv, TInv, TypeOK
  <2>3. Written(p) \in past'
    BY <2>1 DEF Store!PastWith, Store!Good
  <2>4. \A q \in Procs : q # p => pc'[q] = pc[q]
    BY <1>9 DEF Rename, Goto, IInv, TInv, TypeOK
  <2>5. pc'[p] = "list" /\ pc[p] = "rename"
    BY <1>9 DEF Rename, Goto, IInv, TInv, TypeOK
  <2>6. FolderInv'
    BY <1>9, <2>1, <2>2, <2>3, <2>4, <2>5, SetFileKeeps DEF Rename
  <2>7. Store!Commit
    <3>1. CASE file.kind = "missing"
      <4>1. view[p] \in Store!Stores
        BY <2>5 DEF IInv, ViewsInPast, Stores, Store!Stores
      <4>2. QED
        BY <1>9, <2>1, <3>1, <4>1 DEF Store!Commit, Rename, Written
    <3>2. CASE file.kind = "good" /\ view[p] = file.holds
      BY <1>9, <2>1, <3>2 DEF Store!Commit, Rename, Written
    <3>3. QED
      BY <2>5, <3>1, <3>2 DEF IInv, MayBeReplaced
  <2>8. QED
    BY <2>6, <2>7 DEF StoreStep, Store!Next
<1>10. ASSUME NEW p \in Procs, ListBackups(p) PROVE FolderInv' /\ StoreStep
  BY <1>10, QuietStep
     DEF ListBackups, Goto, folder, IInv, TInv, TypeOK, FolderInv, FileInPast,
         GoodBackupsInPast, ViewsInPast, Stores, Written, ReadIsCurrent, MayBeReplaced,
         OneInGap, Gap
<1>11. ASSUME NEW p \in Procs, CopyBackup(p) PROVE FolderInv' /\ StoreStep
  <2>1. GoodBackupsInPast'
    BY <1>11 DEF CopyBackup, WithBackup, BackupOf, IInv, GoodBackupsInPast, ViewsInPast, folder
  <2>2. QED
    BY <1>11, <2>1, QuietStep
       DEF CopyBackup, Goto, folder, IInv, TInv, TypeOK, FolderInv, FileInPast, ViewsInPast,
           Stores, Written, ReadIsCurrent, MayBeReplaced, OneInGap, Gap
<1>12. ASSUME NEW p \in Procs, PruneBackups(p) PROVE FolderInv' /\ StoreStep
  <2>1. \A b \in backups' : b.good => b.holds \in past
    BY <1>12 DEF PruneBackups, IInv, GoodBackupsInPast
  <2>2. QED
    BY <1>12, <2>1, QuietStep, LeaveKeeps DEF PruneBackups, Leave, folder
<1>13. ASSUME NEW p \in Procs, PickBackup(p) PROVE FolderInv' /\ StoreStep
  BY <1>13, QuietStep
     DEF PickBackup, Goto, folder, IInv, TInv, TypeOK, FolderInv, FileInPast,
         GoodBackupsInPast, ViewsInPast, Stores, Written, ReadIsCurrent, MayBeReplaced,
         OneInGap, Gap
<1>14. ASSUME NEW p \in Procs, KeepCurrent(p) PROVE FolderInv' /\ StoreStep
  <2>1. file \in kept' \/ file.kind = "missing"
    BY <1>14 DEF KeepCurrent, Store!Missing
  <2>2. kept' = kept \/ kept' = kept \cup {file}
    BY <1>14 DEF KeepCurrent
  <2>3. OneInGap'
    BY <1>14 DEF KeepCurrent, MayTouch, GapIsEmpty, Goto, OneInGap, IInv, TInv, TypeOK
  <2>4. FolderInv'
    BY <1>14, <2>1, <2>2, <2>3
       DEF KeepCurrent, Goto, IInv, TInv, TypeOK, FolderInv, FileInPast, GoodBackupsInPast,
           ViewsInPast, Stores, Written, ReadIsCurrent, MayBeReplaced
  <2>5. QED
    BY <1>14, <2>2, <2>4, KeepStep DEF KeepCurrent
<1>15. ASSUME NEW p \in Procs, ReplaceFile(p) PROVE FolderInv' /\ StoreStep
  <2>1. /\ Store!Good(view[p]) \in Store!Files
        /\ file' = Store!Good(view[p])
        /\ past' = Store!PastWith(file')
    BY <1>15, FileTypes DEF ReplaceFile, IInv, TInv, TypeOK, SetFile
  <2>2. \A q \in Procs : pc'[q] \notin Gap
    BY <1>15 DEF ReplaceFile, Goto, Gap, OneInGap, IInv, TInv, TypeOK
  <2>3. \A q \in Procs : pc'[q] = pc[q] \/ pc'[q] = "verify"
    BY <1>15 DEF ReplaceFile, Goto, IInv, TInv, TypeOK
  <2>4. FolderInv'
    BY <1>15, <2>1, <2>2, <2>3, SetFileKeeps DEF ReplaceFile
  <2>5. view[p] \in Store!Stores
    BY <1>15 DEF ReplaceFile, IInv, ViewsInPast, Stores, Store!Stores
  <2>6. Store!Replace
    BY <1>15, <2>1, <2>5 DEF Store!Replace, ReplaceFile, IInv, MayBeReplaced
  <2>7. QED
    BY <2>4, <2>6 DEF StoreStep, Store!Next
<1>16. ASSUME NEW p \in Procs, Crash(p) PROVE FolderInv' /\ StoreStep
  <2>1. \A b \in backups' : b.good => b.holds \in past
    BY <1>16 DEF Crash, WithBackup, TornOf, IInv, GoodBackupsInPast
  <2>2. QED
    BY <1>16, <2>1, QuietStep, LeaveKeeps DEF Crash, folder
<1>17. ASSUME GiveUp \/ LoseLock \/ Tick \/ UNCHANGED vars PROVE FolderInv' /\ StoreStep
  BY <1>17, QuietStep
     DEF GiveUp, LoseLock, Tick, vars, local, folder, IInv, TInv, TypeOK, FolderInv,
         FileInPast, GoodBackupsInPast, ViewsInPast, Stores, Written, ReadIsCurrent,
         MayBeReplaced, OneInGap, Gap
<1>18. ASSUME Load PROVE FolderInv' /\ StoreStep
  <2>1. FolderInv'
    BY <1>18
       DEF Load, Preserve, local, IInv, TInv, TypeOK, FolderInv, FileInPast,
           GoodBackupsInPast, ViewsInPast, Stores, Written, ReadIsCurrent, MayBeReplaced,
           OneInGap, Gap
  <2>2. QED
    BY <1>18, <2>1, KeepStep DEF Load, Preserve
<1>19. ASSUME OldWrite PROVE FolderInv' /\ StoreStep
  <2>1. PICK n \in Changes : SetFile(Store!Good(file.holds \cup {n}))
    BY <1>19 DEF OldWrite
  <2>2. file.kind # "bad" /\ file \in Store!Files
    BY <1>19 DEF OldWrite, IInv, TInv, TypeOK
  <2>3. Store!Good(file.holds \cup {n}) \in Store!Files
    BY <2>2, FileTypes
  <2>4. FolderInv'
    BY <1>19, <2>1, <2>3, SetFileKeeps DEF OldWrite, MayTouch, GapIsEmpty
  <2>5. file.kind = "missing" => file.holds \in Store!Stores
    BY <2>2, FileTypes DEF Store!Stores, Store!Missing, Store!Nothing
  <2>6. Store!Commit
    BY <1>19, <2>1, <2>2, <2>5, FileTypes DEF OldWrite, SetFile, Store!Commit
  <2>7. QED
    BY <2>4, <2>6 DEF StoreStep, Store!Next
<1>20. ASSUME Damage \/ Delete PROVE FolderInv' /\ StoreStep
  <2>1. PICK f \in {Store!Missing} \cup {Store!Bad(d) : d \in Damages} : SetFile(f)
    BY <1>20 DEF Damage, Delete
  <2>2. f \in Store!Files /\ f.kind # "good"
    BY FileTypes DEF Store!Missing, Store!Bad
  <2>3. FolderInv'
    BY <1>20, <2>1, <2>2, SetFileKeeps DEF Damage, Delete, MayTouch, GapIsEmpty
  <2>4. Store!Harm
    BY <1>20, <2>1, <2>2 DEF Damage, Delete, SetFile, Store!Harm, Store!PastWith
  <2>5. QED
    BY <2>3, <2>4 DEF StoreStep, Store!Next
<1>21. QED
  BY <1>1, <1>2, <1>3, <1>4, <1>5, <1>6, <1>7, <1>8, <1>9, <1>10, <1>11, <1>12, <1>13,
     <1>14, <1>15, <1>16, <1>17, <1>18, <1>19, <1>20 DEF Next, Save, Backup, Restore, Outside

LEMMA InitInv == Init => IInv /\ Store!Init
<1> SUFFICES ASSUME Init PROVE IInv /\ Store!Init
  OBVIOUS
<1>1. TInv
  BY TypeInit, BoundsAssumption DEF TInv, Init, JobsOfSteps, Saving, Restoring
<1>2. FileInPast /\ GoodBackupsInPast
  BY DEF Init, Store!Init, FileInPast, GoodBackupsInPast, OldBackup, Store!Nothing
<1>3. ViewsInPast /\ ReadIsCurrent /\ MayBeReplaced /\ OneInGap
  BY DEF Init, ViewsInPast, Stores, Store!Nothing, ReadIsCurrent, MayBeReplaced, OneInGap, Gap
<1>4. QED
  BY <1>1, <1>2, <1>3 DEF IInv, Init

(* The data file is an atomic store, also when holders lose the lock and   *)
(* go on: every save adds to what the file holds at that moment, a restore *)
(* replaces it only by a store it has held and only with a copy kept.      *)
THEOREM Implements == ~GapMayBeHit /\ Spec => Atomic
<1> SUFFICES ASSUME ~GapMayBeHit PROVE Spec => Atomic
  OBVIOUS
<1>1. IInv /\ [Next]_vars => IInv' /\ StoreStep
  BY StepInv, TypeNext DEF IInv, FolderInv
<1>2. QED
  BY <1>1, InitInv, PTL DEF Spec, Atomic, Store!Spec, StoreStep

LEMMA IInvCorrect == ~GapMayBeHit /\ Spec => []IInv
<1> SUFFICES ASSUME ~GapMayBeHit PROVE Spec => []IInv
  OBVIOUS
<1>1. IInv /\ [Next]_vars => IInv'
  BY StepInv, TypeNext DEF IInv, FolderInv
<1>2. QED
  BY <1>1, InitInv, PTL DEF Spec

-----------------------------------------------------------------------------
(* What the answers say.                                                   *)

(* The changes that have been in the file.                                 *)
Known == UNION past

Before == {"stat", "read", "check", "rename"}       \* the rename
After  == {"list", "copy", "prune"}

AInv ==
    /\ \A n \in Changes : answer[n] = "unasked" => n \notin Known
    /\ \A p \in Procs : pc[p] \in Saving => answer[change[p]] = "open"
    /\ \A p \in Procs : pc[p] \in Before => change[p] \notin Known
    /\ \A p \in Procs : pc[p] \in After => change[p] \in Known
    /\ \A p, q \in Procs : pc[p] \in Saving /\ pc[q] \in Saving /\ p # q
                           => change[p] # change[q]
    /\ AnswersAreTrue

LEMMA KnownTypes ==
    ASSUME IInv
    PROVE  /\ \A st \in Stores : st \subseteq Known
           /\ file.kind # "bad" => file.holds \subseteq Known
<1>1. \A st \in Stores : st \subseteq Known
  BY DEF Stores, Known, Store!Nothing
<1>2. ASSUME file.kind # "bad" PROVE file.holds \in Stores
  BY <1>2, FileTypes DEF IInv, TInv, TypeOK, FileInPast, Stores, Store!Missing, Store!Nothing
<1>3. QED
  BY <1>1, <1>2

LEMMA KnownOfGood ==
    ASSUME NEW st, SetFile(Store!Good(st))
    PROVE  Known' = Known \cup st
  BY DEF SetFile, Store!PastWith, Store!Good, Known

LEMMA KnownOfHarm ==
    ASSUME NEW f, f.kind # "good", SetFile(f)
    PROVE  Known' = Known
  BY DEF SetFile, Store!PastWith, Known

(* A call that ends gives the answer its step has earned.                  *)
LEMMA LeaveAnswers ==
    ASSUME TInv, AInv, NEW p \in Procs, NEW what \in {"ok", "nothing", "error"},
           Leave(p, what), UNCHANGED past,
           \/ pc[p] \in Before /\ what # "ok"
           \/ pc[p] \in After /\ what = "ok"
           \/ pc[p] \in Restoring
    PROVE  AInv'
<1>1. Known' = Known
  BY DEF Known
<1>2. CASE job[p] \notin SaveJobs
  BY <1>1, <1>2 DEF TInv, TypeOK, AInv, AnswersAreTrue, Known, Leave, Forget, Goto, Answered,
                    Saving, Before, After
<1>3. CASE job[p] \in SaveJobs /\ pc[p] \in Saving
  <2>1. /\ change[p] \in Changes
        /\ answer' = [answer EXCEPT ![change[p]] = what]
        /\ pc' = [pc EXCEPT ![p] = "idle"]
        /\ change' = [change EXCEPT ![p] = NoChange]
    BY <1>3, WrittenType DEF Leave, Forget, Goto, Answered
  <2>2. AnswersAreTrue'
    <3>1. ASSUME NEW n \in Changes, n # change[p]
          PROVE  answer'[n] = answer[n]
      BY <2>1, <3>1 DEF TInv, TypeOK
    <3>2. answer'[change[p]] = what
      BY <2>1 DEF TInv, TypeOK
    <3>3. /\ what = "ok" => change[p] \in Known
          /\ what # "ok" => change[p] \notin Known
      BY <1>3 DEF AInv, Before, After, Saving, Restoring
    <3>4. QED
      BY <1>1, <2>1, <3>1, <3>2, <3>3 DEF AInv, AnswersAreTrue, Known
  <2>3. QED
    BY <1>1, <1>3, <2>1, <2>2
       DEF TInv, TypeOK, AInv, Saving, Before, After
<1>4. QED
  BY <1>2, <1>3 DEF TInv, JobsOfSteps, Before, After, Saving, Restoring

LEMMA AnswerStep ==
    ASSUME IInv, AInv, [Next]_vars
    PROVE  AInv'
<1> USE DEF IInv, TInv
<1>1. ASSUME NEW p \in Procs, BeginSave(p) PROVE AInv'
  <2>1. PICK n \in Changes :
            /\ answer[n] = "unasked"
            /\ pc' = [pc EXCEPT ![p] = "stat"]
            /\ change' = [change EXCEPT ![p] = n]
            /\ answer' = [answer EXCEPT ![n] = "open"]
            /\ past' = past
    BY <1>1 DEF BeginSave, Begin, Goto, folder
  <2>2. \A q \in Procs : pc[q] \in Saving => change[q] \in Changes /\ change[q] # n
    BY <2>1, WrittenType DEF AInv
  <2>3. AnswersAreTrue'
    BY <2>1 DEF TypeOK, AInv, AnswersAreTrue
  <2>4. QED
    BY <2>1, <2>2, <2>3 DEF TypeOK, AInv, Known, Saving, Before, After
<1>2. ASSUME NEW p \in Procs, BeginRecover(p) \/ BeginEmpty(p) PROVE AInv'
  BY <1>2 DEF BeginRecover, BeginEmpty, Begin, Goto, folder, TypeOK, AInv, AnswersAreTrue,
              Known, Saving, Before, After
<1>3. ASSUME NEW p \in Procs,
             Stat(p) \/ Read(p) \/ FileStood(p) \/ ListBackups(p) \/ CopyBackup(p)
      PROVE  AInv'
  BY <1>3 DEF Stat, Read, FileStood, ListBackups, CopyBackup, Goto, folder, TypeOK, AInv,
              AnswersAreTrue, Known, Saving, Before, After
<1>4. ASSUME NEW p \in Procs, PickBackup(p) \/ KeepCurrent(p) PROVE AInv'
  BY <1>4 DEF PickBackup, KeepCurrent, Goto, folder, TypeOK, AInv, AnswersAreTrue, Known,
              Saving, Before, After
<1>5. ASSUME NEW p \in Procs,
             ReadFails(p) \/ KeepAsIs(p) \/ WriteFails(p) \/ RenameFails(p)
      PROVE  AInv'
  BY <1>5, LeaveAnswers DEF ReadFails, KeepAsIs, WriteFails, RenameFails, folder, Before
<1>6. ASSUME NEW p \in Procs, SkipBackup(p) \/ CopyFails(p) \/ PruneBackups(p) PROVE AInv'
  BY <1>6, LeaveAnswers DEF SkipBackup, CopyFails, PruneBackups, folder, After
<1>7. ASSUME NEW p \in Procs, RestoreEnds(p) PROVE AInv'
  BY <1>7, LeaveAnswers DEF RestoreEnds, folder
<1>8. ASSUME NEW p \in Procs, FileMoved(p) PROVE AInv'
  <2>1. CASE Leave(p, "error")
    BY <1>8, <2>1, LeaveAnswers DEF FileMoved, folder, Before
  <2>2. CASE Goto(p, "stat") /\ UNCHANGED <<change, answer>>
    BY <1>8, <2>2 DEF FileMoved, Goto, folder, TypeOK, AInv, AnswersAreTrue, Known, Saving,
                      Before, After
  <2>3. QED
    BY <1>8, <2>1, <2>2 DEF FileMoved
<1>9. ASSUME NEW p \in Procs, Rename(p) PROVE AInv'
  <2>1. view[p] \subseteq Known
    BY <1>9, KnownTypes DEF Rename, ViewsInPast
  <2>2. Known' = Known \cup {change[p]}
    BY <1>9, <2>1, KnownOfGood DEF Rename, Written
  <2>3. answer[change[p]] = "open"
    BY <1>9 DEF Rename, AInv, Saving
  <2>4. AnswersAreTrue'
    BY <1>9, <2>2, <2>3 DEF Rename, AInv, AnswersAreTrue, Known
  <2>5. QED
    BY <1>9, <2>2, <2>3, <2>4 DEF Rename, Goto, TypeOK, AInv, Saving, Before, After
<1>10. ASSUME NEW p \in Procs, ReplaceFile(p) PROVE AInv'
  <2>1. Known' = Known
    BY <1>10, KnownTypes, KnownOfGood DEF ReplaceFile, ViewsInPast
  <2>2. AnswersAreTrue'
    BY <1>10, <2>1 DEF ReplaceFile, AInv, AnswersAreTrue, Known
  <2>3. QED
    BY <1>10, <2>1, <2>2 DEF ReplaceFile, Goto, TypeOK, AInv, Saving, Before, After
<1>11. ASSUME NEW p \in Procs, Crash(p) PROVE AInv'
  BY <1>11 DEF Crash, Forget, Goto, folder, TypeOK, AInv, AnswersAreTrue, Known, Saving, Before,
               After
<1>12. ASSUME GiveUp PROVE AInv'
  <2>1. PICK n \in Changes : answer[n] = "unasked" /\ answer' = [answer EXCEPT ![n] = "error"]
    BY <1>12 DEF GiveUp
  <2>2. UNCHANGED <<past, pc, change>>
    BY <1>12 DEF GiveUp, folder, local
  <2>3. \A q \in Procs : pc[q] \in Saving => change[q] \in Changes /\ change[q] # n
    BY <2>1, WrittenType DEF AInv
  <2>4. AnswersAreTrue'
    BY <2>1, <2>2 DEF TypeOK, AInv, AnswersAreTrue, Known
  <2>5. QED
    BY <2>1, <2>2, <2>3, <2>4 DEF TypeOK, AInv, Known
<1>13. ASSUME Load \/ LoseLock \/ Tick \/ UNCHANGED vars PROVE AInv'
  BY <1>13 DEF Load, LoseLock, Tick, vars, folder, local, AInv, AnswersAreTrue, Known
<1>14. ASSUME OldWrite PROVE AInv'
  <2>1. PICK n \in Changes : /\ answer[n] = "unasked"
                             /\ SetFile(Store!Good(file.holds \cup {n}))
                             /\ answer' = [answer EXCEPT ![n] = "ok"]
    BY <1>14 DEF OldWrite
  <2>2. Known' = Known \cup {n}
    BY <1>14, <2>1, KnownTypes, KnownOfGood DEF OldWrite
  <2>3. \A q \in Procs : pc[q] \in Saving => change[q] \in Changes /\ change[q] # n
    BY <2>1, WrittenType DEF AInv
  <2>4. UNCHANGED <<pc, change>>
    BY <1>14 DEF OldWrite
  <2>5. AnswersAreTrue'
    BY <2>1, <2>2 DEF TypeOK, AInv, AnswersAreTrue, Known
  <2>6. QED
    BY <2>1, <2>2, <2>3, <2>4, <2>5 DEF TypeOK, AInv, Saving, Before, After
<1>15. ASSUME Damage \/ Delete PROVE AInv'
  <2>1. PICK f \in {Store!Missing} \cup {Store!Bad(d) : d \in Damages} : SetFile(f)
    BY <1>15 DEF Damage, Delete
  <2>2. Known' = Known
    BY <2>1, KnownOfHarm DEF Store!Missing, Store!Bad
  <2>3. UNCHANGED <<pc, change, answer>>
    BY <1>15 DEF Damage, Delete
  <2>4. QED
    BY <2>2, <2>3 DEF AInv, AnswersAreTrue, Known
<1>16. QED
  BY <1>1, <1>2, <1>3, <1>4, <1>5, <1>6, <1>7, <1>8, <1>9, <1>10, <1>11, <1>12, <1>13, <1>14,
     <1>15 DEF Next, Save, Backup, Restore, Outside

(* A save that was answered with an error never reached the file, and one  *)
(* that was answered with success did, for any processes and interference  *)
(* outside the gap, and with holders that lose the lock.                   *)
THEOREM AnswersCorrect == ~GapMayBeHit /\ Spec => []AnswersAreTrue
<1> SUFFICES ASSUME ~GapMayBeHit PROVE Spec => []AnswersAreTrue
  OBVIOUS
<1>1. Init => AInv
  <2> SUFFICES ASSUME Init PROVE AInv
    OBVIOUS
  <2>1. Known = {}
    BY DEF Init, Store!Init, Known, Store!Nothing
  <2>2. QED
    BY <2>1 DEF Init, AInv, AnswersAreTrue, Known, Saving, Before, After
<1>2. IInv /\ AInv /\ [Next]_vars => AInv'
  BY AnswerStep
<1>3. AInv => AnswersAreTrue
  BY DEF AInv
<1>4. QED
  BY <1>1, <1>2, <1>3, IInvCorrect, PTL DEF Spec

-----------------------------------------------------------------------------
(* The rotating backups, when nobody loses the lock.                       *)

(* Whoever is at work has the lock.                                        *)
WorkersHaveLock == \A p \in Procs : pc[p] # "idle" => lock = p

Spaced == \A b, c \in backups : b.at < c.at => b.at + MinInterval <= c.at

(* The backup that is being made is an interval later than all others, and *)
(* until it is pruned it stands beside the ones that were listed.          *)
NewIsLatest ==
    \A p \in Procs :
        /\ pc[p] = "copy" => \A b \in backups : b.at + MinInterval <= due[p]
        /\ pc[p] \in {"copy", "prune"} => \A t \in stamps[p] : t < due[p]
        /\ pc[p] = "prune" => \E b \in backups : b.good /\ b.at = due[p]

BInv == WorkersHaveLock /\ Spaced /\ NewIsLatest

(* A step that neither touches the backups nor begins a copy.              *)
NoBackupStep ==
    /\ backups' = backups
    /\ \A p \in Procs : pc'[p] \in {"copy", "prune"} =>
            pc'[p] = pc[p] /\ due'[p] = due[p] /\ stamps'[p] = stamps[p]

LEMMA NoBackupKeeps == ASSUME BInv, NoBackupStep PROVE Spaced' /\ NewIsLatest'
  BY DEF BInv, NoBackupStep, Spaced, NewIsLatest

LEMMA OneWorker ==
    ASSUME TypeOK, BInv, NEW p \in Procs, NEW q \in Procs, pc[p] # "idle", pc[q] # "idle"
    PROVE  p = q
  BY DEF BInv, WorkersHaveLock

(* Who begins finds nobody at work.                                        *)
LEMMA NobodyWorks ==
    ASSUME TypeOK, BInv, NEW p \in Procs, LockIsFree
    PROVE  pc[p] = "idle"
  BY DistinctAssumption DEF BInv, WorkersHaveLock, LockIsFree

LEMMA LeaveIs ==
    ASSUME TypeOK, BInv, NEW p \in Procs, NEW what, pc[p] # "idle", Leave(p, what)
    PROVE  /\ WorkersHaveLock'
           /\ \A q \in Procs : pc'[q] = "idle"
  BY DEF Leave, Forget, Goto, TypeOK, BInv, WorkersHaveLock

LEMMA StayIs ==
    ASSUME TypeOK, BInv, NEW p \in Procs, NEW step, pc[p] # "idle", Goto(p, step), lock' = lock
    PROVE  WorkersHaveLock'
  BY DEF Goto, TypeOK, BInv, WorkersHaveLock

LEMMA BackupNumbers ==
    ASSUME TypeOK
    PROVE  /\ \A b \in backups : b.at \in Nat /\ b.good \in BOOLEAN
           /\ MinInterval \in Nat \ {0} /\ clock \in Nat
           /\ \A p \in Procs : due[p] \in Nat /\ \A t \in stamps[p] : t \in Nat
  BY BoundsAssumption DEF TypeOK, Backups, Times

LEMMA BackupStep ==
    ASSUME ~LockMayBeLost, TInv, BInv, [Next]_vars
    PROVE  BInv' /\ (GoodBackups # {} => GoodBackups' # {})
<1> TypeOK
  BY DEF TInv
<1>0. ASSUME WorkersHaveLock', NoBackupStep
      PROVE  BInv' /\ (GoodBackups # {} => GoodBackups' # {})
  BY <1>0, NoBackupKeeps DEF BInv, NoBackupStep, GoodBackups
<1>1. ASSUME NEW p \in Procs, NEW what, NEW n, NEW step \in {"stat", "pick", "keep"},
             Begin(p, what, n, step)
      PROVE  WorkersHaveLock' /\ NoBackupStep
  <2>1. \A q \in Procs : pc[q] = "idle"
    BY <1>1, NobodyWorks DEF Begin
  <2>2. QED
    BY <1>1, <2>1 DEF Begin, Goto, TypeOK, WorkersHaveLock, NoBackupStep
<1>2. ASSUME NEW p \in Procs, BeginSave(p) \/ BeginRecover(p) \/ BeginEmpty(p)
      PROVE  WorkersHaveLock' /\ NoBackupStep
  BY <1>1, <1>2 DEF BeginSave, BeginRecover, BeginEmpty
<1>3. ASSUME NEW p \in Procs, NEW what, pc[p] # "idle", Leave(p, what), backups' = backups
      PROVE  WorkersHaveLock' /\ NoBackupStep
  BY <1>3, LeaveIs DEF NoBackupStep
<1>4. ASSUME NEW p \in Procs, NEW step, pc[p] # "idle", Goto(p, step), lock' = lock,
             step \notin {"copy", "prune"}, UNCHANGED <<backups, due, stamps>>
      PROVE  WorkersHaveLock' /\ NoBackupStep
  <2>1. WorkersHaveLock'
    BY <1>4, StayIs
  <2>2. QED
    BY <1>4, <2>1 DEF Goto, TypeOK, NoBackupStep
<1>5. ASSUME NEW p \in Procs, Save(p)
      PROVE  WorkersHaveLock' /\ NoBackupStep
  <2>1. CASE ReadFails(p) \/ KeepAsIs(p) \/ WriteFails(p) \/ RenameFails(p)
    BY <2>1, <1>3 DEF ReadFails, KeepAsIs, WriteFails, RenameFails
  <2>2. CASE Stat(p) \/ Read(p) \/ FileStood(p) \/ Rename(p)
    BY <2>2, <1>4 DEF Stat, Read, FileStood, Rename
  <2>3. CASE FileMoved(p)
    BY <2>3, <1>3, <1>4 DEF FileMoved
  <2>4. QED
    BY <1>5, <2>1, <2>2, <2>3 DEF Save
<1>6. ASSUME NEW p \in Procs, Restore(p)
      PROVE  WorkersHaveLock' /\ NoBackupStep
  <2>1. CASE RestoreEnds(p)
    BY <2>1, <1>3 DEF RestoreEnds, Restoring
  <2>2. CASE PickBackup(p) \/ KeepCurrent(p) \/ ReplaceFile(p)
    BY <2>2, <1>4 DEF PickBackup, KeepCurrent, ReplaceFile
  <2>3. QED
    BY <1>6, <2>1, <2>2 DEF Restore
<1>7. ASSUME NEW p \in Procs, SkipBackup(p) \/ CopyFails(p)
      PROVE  WorkersHaveLock' /\ NoBackupStep
  BY <1>7, <1>3 DEF SkipBackup, CopyFails
<1>8. ASSUME NEW p \in Procs, ListBackups(p)
      PROVE  BInv' /\ (GoodBackups # {} => GoodBackups' # {})
  <2>1. WorkersHaveLock'
    BY <1>8, StayIs DEF ListBackups
  <2>2. backups' = backups /\ due' = [due EXCEPT ![p] = clock]
          /\ stamps' = [stamps EXCEPT ![p] = {b.at : b \in backups}]
          /\ pc' = [pc EXCEPT ![p] = "copy"]
    BY <1>8 DEF ListBackups, Goto
  <2>3. \A b \in backups : b.at + MinInterval <= clock /\ b.at < clock
    BY <1>8, BackupNumbers DEF ListBackups, Recent
  <2>4. due'[p] = clock /\ stamps'[p] = {b.at : b \in backups} /\ pc'[p] = "copy"
    BY <2>2 DEF TypeOK
  <2>5. \A q \in Procs \ {p} : pc'[q] = "idle"
    BY <1>8, <2>2, OneWorker DEF ListBackups, TypeOK
  <2>6. NewIsLatest'
    BY <2>2, <2>3, <2>4, <2>5 DEF NewIsLatest
  <2>7. QED
    BY <2>1, <2>2, <2>6 DEF BInv, Spaced, GoodBackups
<1>9. ASSUME NEW p \in Procs, pc[p] = "copy", NEW new \in Backups, new.at = due[p],
             backups' = WithBackup(new)
      PROVE  Spaced' /\ backups \subseteq backups' /\ new \in backups'
  <2>1. \A b \in backups : b.at + MinInterval <= new.at /\ b.at < new.at /\ b.at \in Nat
    BY <1>9, BackupNumbers DEF BInv, NewIsLatest
  <2>2. new.at \in Nat /\ MinInterval \in Nat
    BY <1>9, BackupNumbers
  <2>3. {b \in backups : b.at # new.at} = backups
    BY <2>1, <2>2
  <2>4. backups' = backups \cup {new}
    BY <1>9, <2>3 DEF WithBackup
  <2>5. QED
    BY <2>1, <2>2, <2>4 DEF BInv, Spaced
<1>10. ASSUME NEW p \in Procs, CopyBackup(p)
       PROVE  BInv' /\ (GoodBackups # {} => GoodBackups' # {})
  <2>1. BackupOf(p) \in Backups /\ BackupOf(p).at = due[p] /\ BackupOf(p).good
    BY <1>10, WrittenType DEF CopyBackup, BackupOf, Backups, TypeOK, Saving
  <2>2. Spaced' /\ backups \subseteq backups' /\ BackupOf(p) \in backups'
    BY <1>9, <1>10, <2>1 DEF CopyBackup
  <2>3. WorkersHaveLock'
    BY <1>10, StayIs DEF CopyBackup
  <2>4. pc' = [pc EXCEPT ![p] = "prune"] /\ UNCHANGED <<due, stamps>> /\ pc[p] = "copy"
    BY <1>10 DEF CopyBackup, Goto
  <2>5. \A q \in Procs \ {p} : pc'[q] = "idle"
    BY <2>4, OneWorker DEF TypeOK
  <2>6. pc'[p] = "prune"
    BY <2>4 DEF TypeOK
  <2>7. NewIsLatest'
    BY <2>1, <2>2, <2>4, <2>5, <2>6 DEF BInv, NewIsLatest
  <2>8. QED
    BY <2>2, <2>3, <2>7 DEF BInv, GoodBackups
<1>11. ASSUME NEW p \in Procs, PruneBackups(p)
       PROVE  BInv' /\ (GoodBackups # {} => GoodBackups' # {})
  <2>1. WorkersHaveLock' /\ \A q \in Procs : pc'[q] = "idle"
    BY <1>11, LeaveIs DEF PruneBackups
  <2>2. PICK gone \in SUBSET Surplus(p) : backups' = {b \in backups : b.at \notin gone}
    BY <1>11 DEF PruneBackups
  <2>3. PICK new \in backups : new.good /\ new.at = due[p]
    BY <1>11 DEF PruneBackups, BInv, NewIsLatest
  <2>4. due[p] \notin gone
    <3>1. \A t \in stamps[p] : t < due[p] /\ t \in Nat
      BY <1>11, BackupNumbers DEF PruneBackups, BInv, NewIsLatest
    <3>2. due[p] \in Nat
      BY BackupNumbers
    <3>3. due[p] \notin stamps[p]
      BY <3>1, <3>2
    <3>4. QED
      BY <2>2, <3>3 DEF Surplus
  <2>5. new \in GoodBackups'
    BY <2>2, <2>3, <2>4 DEF GoodBackups
  <2>6. QED
    BY <2>1, <2>2, <2>5 DEF BInv, Spaced, NewIsLatest
<1>12. ASSUME NEW p \in Procs, Crash(p)
       PROVE  BInv' /\ (GoodBackups # {} => GoodBackups' # {})
  <2>1. \A q \in Procs : pc'[q] = "idle"
    BY <1>12, OneWorker DEF Crash, Forget, Goto, TypeOK
  <2>2. CASE backups' = backups
    BY <2>1, <2>2 DEF BInv, WorkersHaveLock, Spaced, NewIsLatest, GoodBackups
  <2>3. CASE pc[p] = "copy" /\ backups' = WithBackup(TornOf(p))
    <3>1. TornOf(p) \in Backups /\ TornOf(p).at = due[p]
      BY DEF TornOf, Backups, TypeOK
    <3>2. Spaced' /\ backups \subseteq backups'
      BY <1>9, <2>3, <3>1
    <3>3. QED
      BY <2>1, <3>2 DEF BInv, WorkersHaveLock, NewIsLatest, GoodBackups
  <2>4. QED
    BY <1>12, <2>2, <2>3 DEF Crash
<1>13. CASE GiveUp \/ Outside \/ UNCHANGED vars
  <2>1. ASSUME UNCHANGED <<pc, lock, backups, due, stamps>>
        PROVE  WorkersHaveLock' /\ NoBackupStep
    BY <2>1 DEF BInv, WorkersHaveLock, NoBackupStep
  <2>2. QED
    BY <1>0, <1>13, <2>1
       DEF GiveUp, Outside, Load, LoseLock, OldWrite, Damage, Delete, Tick, vars, local
<1>14. QED
  BY <1>0, <1>2, <1>5, <1>6, <1>7, <1>8, <1>10, <1>11, <1>12, <1>13 DEF Next, Backup

LEMMA BackupInit == Init => BInv
  BY DEF Init, BInv, WorkersHaveLock, Spaced, NewIsLatest, OldBackup

(* There is at most one rotating backup per interval, whatever crashes in  *)
(* the middle of a copy and however the clock is set (maybe_backup), as    *)
(* long as no holder loses its lock.                                       *)
THEOREM BackupsStaySpaced == Spec => []BackupsSpaced
<1>1. CASE LockMayBeLost
  <2>1. BackupsSpaced
    BY <1>1 DEF BackupsSpaced
  <2>2. QED
    BY <1>1, PTL DEF BackupsSpaced
<1>2. CASE ~LockMayBeLost
  <2>1. TInv /\ BInv /\ [Next]_vars => BInv'
    BY <1>2, BackupStep
  <2>2. BInv => BackupsSpaced
    BY DEF BInv, Spaced, BackupsSpaced
  <2>3. QED
    BY <2>1, <2>2, BackupInit, TInvCorrect, PTL DEF Spec
<1>3. QED
  BY <1>1, <1>2

(* Rotation, a crash in the middle of a copy, a full disk and a clock set  *)
(* back never cost the last good backup, as long as no holder loses its    *)
(* lock.  The pruning keeps the new one: it is later than all it listed.   *)
THEOREM GoodBackupKept == ~LockMayBeLost /\ Spec => GoodBackupStays
<1> SUFFICES ASSUME ~LockMayBeLost PROVE Spec => GoodBackupStays
  OBVIOUS
<1>1. TInv /\ BInv /\ [Next]_vars => BInv' /\ (GoodBackups # {} => GoodBackups' # {})
  BY BackupStep
<1>2. QED
  BY <1>1, BackupInit, TInvCorrect, PTL DEF Spec, GoodBackupStays
=============================================================================
