------------------------------ MODULE DirLock ------------------------------
(***************************************************************************)
(* The cross-process lock of the data folder (shared/src/store.rs).        *)
(*                                                                         *)
(* Every write of the data file runs inside a lock file created with       *)
(* `create_new`.  A lock whose holder is gone is stolen: the thief enters  *)
(* through a second file, the guard, re-checks there, and deletes the      *)
(* lock.  Each file-system call is one step here, because the code's       *)
(* checks and the deletions they justify are separate calls.               *)
(*                                                                         *)
(* A process is one incarnation: a program started again is another one.   *)
(* A holder's nonce is its identity: the in-process mutex lets a process   *)
(* have one lock at a time, and releases it after the lock file.           *)
(***************************************************************************)
EXTENDS Naturals, FiniteSets

CONSTANTS
    Procs,          \* the processes that share the folder
    Ghost,          \* a process of an earlier session, now gone
    NoFile          \* no such file in the folder

ASSUME DistinctAssumption ==
    /\ Ghost \notin Procs
    /\ NoFile \notin Procs
    /\ NoFile # Ghost

VARIABLES
    pc,             \* where each process is in its write cycle
    alive,          \* the processes that are running
    lockMaker,      \* who created the lock file that is there, or NoFile
    lockText,       \* "owner" once its pid and nonce are in it, until then "empty"
    lockAge,        \* 0: fresh; 1: older than LOCK_STALE_MS;
                    \* 2: older than ALIVE_CAP_FACTOR times that
    guardMaker,     \* who created the guard file that is there, or NoFile
    guardAge,       \* 0: fresh; 1: older than STEAL_GUARD_STALE_MS
    seenAge,        \* the lock's age as each process last read it
    thiefDied       \* a process has died between making the guard and
                    \* removing it, now or in an earlier session

lockFile  == <<lockMaker, lockText, lockAge>>
guardFile == <<guardMaker, guardAge>>
life      == <<alive, thiefDied>>
vars == <<pc, alive, lockMaker, lockText, lockAge, guardMaker, guardAge, seenAge,
          thiefDied>>

Inside  == {"reage", "retext", "unlink", "unguard"}   \* between making and removing the guard
Holding == {"blank", "hold", "check", "drop"}         \* from create_new to the release
Trying  == {"first", "try"}                           \* about to call create_new
Waiting == Trying \cup {"exists", "age", "text", "guard", "guardage", "rmguard"}
           \cup Inside
Steps   == {"idle", "dead"} \cup Waiting \cup Holding

Ages == 0..2

TypeOK ==
    /\ pc \in [Procs -> Steps]
    /\ alive \subseteq Procs
    /\ lockMaker \in Procs \cup {Ghost, NoFile}
    /\ lockText \in {"empty", "owner"}
    /\ lockAge \in Ages
    /\ guardMaker \in Procs \cup {Ghost, NoFile}
    /\ guardAge \in 0..1
    /\ seenAge \in [Procs -> Ages]
    /\ thiefDied \in BOOLEAN

(***************************************************************************)
(* An earlier session may have left a lock behind, whole or still empty,   *)
(* and, when a thief of that session died in its turn, a guard.            *)
(***************************************************************************)
Init ==
    /\ pc = [p \in Procs |-> "idle"]
    /\ alive = Procs
    /\ lockMaker \in {Ghost, NoFile}
    /\ lockText \in {"empty"} \cup IF lockMaker = Ghost THEN {"owner"} ELSE {}
    /\ lockAge = 0
    /\ guardMaker \in {Ghost, NoFile}
    /\ thiefDied = (guardMaker = Ghost)
    /\ guardAge = 0
    /\ seenAge = [p \in Procs |-> 0]

Goto(p, step) == pc' = [pc EXCEPT ![p] = step]

-----------------------------------------------------------------------------
(* Taking the lock: acquire_dir_lock_with.                                 *)

BeginWrite(p) ==
    /\ pc[p] = "idle"
    /\ Goto(p, "first")
    /\ UNCHANGED <<life, lockFile, guardFile, seenAge>>

CreateLock(p) ==
    /\ pc[p] \in Trying
    /\ lockMaker = NoFile
    /\ lockMaker' = p
    /\ lockText' = "empty"
    /\ lockAge' = 0
    /\ Goto(p, "blank")
    /\ UNCHANGED <<life, guardFile, seenAge>>

(* LOCK_WAIT_MS cannot have passed the first time the lock is looked at.   *)
LockExists(p) ==
    /\ pc[p] \in Trying
    /\ lockMaker # NoFile
    /\ Goto(p, IF pc[p] = "first" THEN "age" ELSE "exists")
    /\ UNCHANGED <<life, lockFile, guardFile, seenAge>>

(* The handle stays open from create_new to here: what is written goes to  *)
(* the file this process made, which may have been deleted meanwhile.      *)
WriteOwner(p) ==
    /\ pc[p] = "blank"
    /\ lockText' = IF lockMaker = p THEN "owner" ELSE lockText
    /\ Goto(p, "hold")
    /\ UNCHANGED <<life, lockMaker, lockAge, guardFile, seenAge>>

(* Mutant of GiveUp: the wait has no limit.                                *)
NeverGiveUp(p) == FALSE /\ UNCHANGED vars

GiveUp(p) ==
    /\ pc[p] = "exists"
    /\ Goto(p, "idle")
    /\ UNCHANGED <<life, lockFile, guardFile, seenAge>>

CheckLock(p) ==
    /\ pc[p] = "exists"
    /\ Goto(p, "age")
    /\ UNCHANGED <<life, lockFile, guardFile, seenAge>>

-----------------------------------------------------------------------------
(* lock_is_stale: the age is read first, then the owner; `step` and `next` *)
(* tell the check made while waiting from the one repeated in the guard.   *)

ReadAge(p, step, next, gone) ==
    /\ pc[p] = step
    /\ IF lockMaker = NoFile
       THEN Goto(p, gone) /\ UNCHANGED seenAge
       ELSE Goto(p, next) /\ seenAge' = [seenAge EXCEPT ![p] = lockAge]
    /\ UNCHANGED <<life, lockFile, guardFile>>

(* process_alive: a process that is gone may look alive (its pid was given *)
(* to another) and any answer may be unavailable.                          *)
ProcessAlive(maker) ==
    IF maker \in alive
    THEN {"running", "unknown"}
    ELSE {"gone", "running", "unknown"}

(* No file any more, or no pid in it, leaves the age alone to decide.      *)
OwnerAnswers ==
    IF lockMaker # NoFile /\ lockText = "owner" THEN ProcessAlive(lockMaker) ELSE {"unknown"}

(* Mutant of Stale: a lock whose owner cannot be told is taken at any age. *)
StaleAtAnyAge(answer, age) == answer # "running" \/ age > 1

Stale(answer, age) ==
    \/ answer = "gone"
    \/ answer = "running" /\ age > 1
    \/ answer = "unknown" /\ age > 0

ReadOwner(p, step, stale, fresh) ==
    /\ pc[p] = step
    /\ \E answer \in OwnerAnswers :
          Goto(p, IF Stale(answer, seenAge[p]) THEN stale ELSE fresh)
    /\ seenAge' = [seenAge EXCEPT ![p] = 0]
    /\ UNCHANGED <<life, lockFile, guardFile>>

-----------------------------------------------------------------------------
(* try_steal: one turn in the guard, or the removal of an old guard.       *)

(* Mutant of EnterGuard: the lock is not looked at again inside the guard. *)
EnterGuardAndDelete(p) ==
    /\ pc[p] = "guard"
    /\ guardMaker = NoFile
    /\ guardMaker' = p
    /\ guardAge' = 0
    /\ Goto(p, "unlink")
    /\ UNCHANGED <<life, lockFile, seenAge>>

EnterGuard(p) ==
    /\ pc[p] = "guard"
    /\ guardMaker = NoFile
    /\ guardMaker' = p
    /\ guardAge' = 0
    /\ Goto(p, "reage")
    /\ UNCHANGED <<life, lockFile, seenAge>>

GuardBusy(p) ==
    /\ pc[p] = "guard"
    /\ guardMaker # NoFile
    /\ Goto(p, "guardage")
    /\ UNCHANGED <<life, lockFile, guardFile, seenAge>>

(* Mutant of CheckGuardAge: an old guard is left where it is.              *)
LeaveOldGuard(p) ==
    /\ pc[p] = "guardage"
    /\ Goto(p, "try")
    /\ UNCHANGED <<life, lockFile, guardFile, seenAge>>

CheckGuardAge(p) ==
    /\ pc[p] = "guardage"
    /\ Goto(p, IF guardMaker # NoFile /\ guardAge > 0 THEN "rmguard" ELSE "try")
    /\ UNCHANGED <<life, lockFile, guardFile, seenAge>>

NoGuard == guardMaker' = NoFile /\ guardAge' = 0
NoLock  == lockMaker' = NoFile /\ lockText' = "empty" /\ lockAge' = 0

RemoveOldGuard(p) ==
    /\ pc[p] = "rmguard"
    /\ NoGuard
    /\ Goto(p, "try")
    /\ UNCHANGED <<life, lockFile, seenAge>>

RemoveStaleLock(p) ==
    /\ pc[p] = "unlink"
    /\ NoLock
    /\ Goto(p, "unguard")
    /\ UNCHANGED <<life, guardFile, seenAge>>

LeaveGuard(p) ==
    /\ pc[p] = "unguard"
    /\ NoGuard
    /\ Goto(p, "try")
    /\ UNCHANGED <<life, lockFile, seenAge>>

-----------------------------------------------------------------------------
(* Releasing: Drop for DirLock removes the file only if it is still ours.  *)

EndWrite(p) ==
    /\ pc[p] = "hold"
    /\ Goto(p, "check")
    /\ UNCHANGED <<life, lockFile, guardFile, seenAge>>

CheckOwner(p) ==
    /\ pc[p] = "check"
    /\ Goto(p, IF lockMaker = p /\ lockText = "owner" THEN "drop" ELSE "idle")
    /\ UNCHANGED <<life, lockFile, guardFile, seenAge>>

RemoveOwnLock(p) ==
    /\ pc[p] = "drop"
    /\ NoLock
    /\ Goto(p, "idle")
    /\ UNCHANGED <<life, guardFile, seenAge>>

-----------------------------------------------------------------------------
(* The environment: a process dies, time passes.                           *)

Crash(p) ==
    /\ p \in alive
    /\ alive' = alive \ {p}
    /\ thiefDied' = (thiefDied \/ pc[p] \in Inside)
    /\ Goto(p, "dead")
    /\ UNCHANGED <<lockFile, guardFile, seenAge>>

(* A running holder's heartbeat keeps its lock fresh for as long as it is  *)
(* inside its cycle.  The steps before the heartbeat starts and after it   *)
(* stops take far less than LOCK_STALE_MS.                                 *)
Heartbeat == lockMaker \in alive

LockAges ==
    /\ lockMaker # NoFile
    /\ ~Heartbeat
    /\ lockAge < 2
    /\ lockAge' = lockAge + 1
    /\ UNCHANGED <<pc, life, lockMaker, lockText, guardFile, seenAge>>

(* A turn in the guard takes far less than STEAL_GUARD_STALE_MS.           *)
GuardAges ==
    /\ guardMaker # NoFile
    /\ ~(guardMaker \in Procs /\ pc[guardMaker] \in Inside)
    /\ guardAge = 0
    /\ guardAge' = 1
    /\ UNCHANGED <<pc, life, lockFile, guardMaker, seenAge>>

-----------------------------------------------------------------------------
Acquire(p) ==
    \/ CreateLock(p) \/ LockExists(p) \/ WriteOwner(p) \/ CheckLock(p)
    \/ ReadAge(p, "age", "text", "try")
    \/ ReadOwner(p, "text", "guard", "try")

Steal(p) ==
    \/ EnterGuard(p) \/ GuardBusy(p) \/ CheckGuardAge(p) \/ RemoveOldGuard(p)
    \/ ReadAge(p, "reage", "retext", "unguard")
    \/ ReadOwner(p, "retext", "unlink", "unguard")
    \/ RemoveStaleLock(p) \/ LeaveGuard(p)

Release(p) == EndWrite(p) \/ CheckOwner(p) \/ RemoveOwnLock(p)

Step(p) == Acquire(p) \/ Steal(p) \/ Release(p)

Next ==
    \/ \E p \in Procs : BeginWrite(p) \/ Step(p) \/ GiveUp(p) \/ Crash(p)
    \/ LockAges
    \/ GuardAges

Spec == Init /\ [][Next]_vars

(***************************************************************************)
(* Threads of a running process keep being scheduled and time keeps        *)
(* passing.  `timed_out` stays true once LOCK_WAIT_MS have passed, so a    *)
(* loop that reaches its test over and over takes the exit in the end:     *)
(* strong fairness.  Nothing makes a user save, or a process die.          *)
(***************************************************************************)
Fairness ==
    /\ \A p \in Procs : WF_vars(Step(p)) /\ SF_vars(GiveUp(p))
    /\ WF_vars(LockAges)
    /\ WF_vars(GuardAges)

FairSpec == Spec /\ Fairness

-----------------------------------------------------------------------------
(* Properties.                                                             *)

(* Two processes are never inside their read-merge-write cycles at the     *)
(* same time ("exactly one process wins"), unless a thief has died in its  *)
(* turn: a guard left behind is removed by its age alone, and two thieves  *)
(* may then find it old together.                                          *)
MutualExclusion ==
    thiefDied \/ \A p, q \in Procs : pc[p] \in Holding /\ pc[q] \in Holding => p = q

(* Thieves take turns: two of them are never past the guard together, so   *)
(* the check made in the guard still holds when the lock is deleted; again *)
(* unless a thief has died in its turn.                                    *)
ThievesTakeTurns ==
    thiefDied \/ \A p, q \in Procs : pc[p] \in Inside /\ pc[q] \in Inside => p = q

(* The lock of a running process only goes away when that process removes  *)
(* it: no thief and no late release by a former holder deletes it, with    *)
(* the same exception.                                                     *)
LiveLockStays ==
    [][~thiefDied =>
        \A p \in Procs :
            lockMaker = p /\ p \in alive' /\ lockMaker' # p => pc[p] = "drop"]_vars

(* Every attempt to write ends: the process gets the lock or gives up with *)
(* an error (or dies), whatever the others do and whatever was left behind.*)
AttemptEnds ==
    \A p \in Procs : pc[p] \in Waiting ~> pc[p] \in {"hold", "idle", "dead"}

(* A lock whose maker is gone does not stay for ever while somebody keeps  *)
(* trying to write, also when a dead thief's guard is in the way.          *)
Abandoned == lockMaker # NoFile /\ lockMaker \notin alive
AbandonedLockIsRecovered ==
    ~(<>[]Abandoned /\ []<>(\E p \in Procs : pc[p] \in Trying))
=============================================================================
