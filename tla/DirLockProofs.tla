--------------------------- MODULE DirLockProofs ---------------------------
(***************************************************************************)
(* The data-folder lock excludes, for any number of processes, until a     *)
(* thief dies between making the guard and removing it.                    *)
(*                                                                         *)
(* Mutual exclusion is not inductive: that a thief deletes only a dead     *)
(* process's lock rests on what it read earlier still being true, hence on *)
(* the guard keeping every other thief out, hence on the guard never being *)
(* taken for an old one.  IInv says all of this.                           *)
(***************************************************************************)
EXTENDS DirLock, TLAPS

(* Only the process that made the guard is inside, and it is never old.    *)
GuardKept ==
    /\ guardMaker # Ghost
    /\ guardAge = 0
    /\ \A p \in Procs :
          /\ pc[p] # "rmguard"
          /\ guardMaker = p <=> pc[p] \in Inside

(* The lock file is the holder's own.                                      *)
HolderOwnsLock == \A p \in Procs : pc[p] \in Holding => lockMaker = p

RunningUnlessDead == \A p \in Procs : pc[p] # "dead" => p \in alive

(* The heartbeat keeps a running process's lock from ever looking old.     *)
LiveLockFresh == Heartbeat => lockAge = 0

(* What a thief saw inside the guard is still so when it acts on it.       *)
VerdictHolds ==
    \A p \in Procs :
        /\ pc[p] = "unlink" => Abandoned
        /\ pc[p] = "retext" /\ seenAge[p] > 0 => Abandoned

Sound ==
    /\ GuardKept
    /\ HolderOwnsLock
    /\ RunningUnlessDead
    /\ LiveLockFresh
    /\ VerdictHolds

IInv == TypeOK /\ (thiefDied \/ Sound)

-----------------------------------------------------------------------------
(* The names of the steps, so that Steps need not be expanded below.       *)
LEMMA StepNames ==
    /\ {"idle", "dead", "first", "try", "exists", "age", "text"} \subseteq Steps
    /\ {"guard", "guardage", "rmguard", "reage", "retext"} \subseteq Steps
    /\ {"unlink", "unguard", "blank", "hold", "check", "drop"} \subseteq Steps
BY DEF Steps, Waiting, Trying, Holding, Inside

LEMMA GotoType ==
    ASSUME NEW p \in Procs, NEW s \in Steps, pc \in [Procs -> Steps], Goto(p, s)
    PROVE  pc' \in [Procs -> Steps]
BY DEF Goto

LEMMA InitType == Init => TypeOK
<1> SUFFICES ASSUME Init PROVE TypeOK
  OBVIOUS
<1>1. lockText \in {"empty", "owner"}
  BY DEF Init
<1>2. guardMaker \in Procs \cup {Ghost, NoFile}
  BY DEF Init
<1>3. pc \in [Procs -> Steps]
  BY StepNames DEF Init
<1>4. lockAge \in Ages /\ seenAge \in [Procs -> Ages]
  BY DEF Init, Ages
<1>5. QED
  BY <1>1, <1>2, <1>3, <1>4 DEF Init, TypeOK

LEMMA StepType == TypeOK /\ [Next]_vars => TypeOK'
<1> SUFFICES ASSUME TypeOK, [Next]_vars PROVE TypeOK'
  OBVIOUS
<1> USE StepNames, GotoType DEF TypeOK, lockFile, guardFile, life
<1>1. ASSUME NEW p \in Procs, BeginWrite(p) PROVE TypeOK'
  BY <1>1 DEF BeginWrite
<1>2. ASSUME NEW p \in Procs, CreateLock(p) PROVE TypeOK'
  BY <1>2 DEF CreateLock, Ages
<1>3. ASSUME NEW p \in Procs, LockExists(p) PROVE TypeOK'
  BY <1>3 DEF LockExists
<1>4. ASSUME NEW p \in Procs, WriteOwner(p) PROVE TypeOK'
  BY <1>4 DEF WriteOwner
<1>5. ASSUME NEW p \in Procs, CheckLock(p) \/ GiveUp(p) PROVE TypeOK'
  BY <1>5 DEF CheckLock, GiveUp
<1>6. ASSUME NEW p \in Procs, NEW step, NEW next \in Steps, NEW gone \in Steps,
             ReadAge(p, step, next, gone)
      PROVE TypeOK'
  BY <1>6 DEF ReadAge
<1>7. ASSUME NEW p \in Procs, NEW step, NEW stale \in Steps, NEW fresh \in Steps,
             ReadOwner(p, step, stale, fresh)
      PROVE TypeOK'
  BY <1>7 DEF ReadOwner, Ages
<1>8. ASSUME NEW p \in Procs, EnterGuard(p) PROVE TypeOK'
  BY <1>8 DEF EnterGuard
<1>9. ASSUME NEW p \in Procs, GuardBusy(p) \/ CheckGuardAge(p) PROVE TypeOK'
  BY <1>9 DEF GuardBusy, CheckGuardAge
<1>10. ASSUME NEW p \in Procs, RemoveOldGuard(p) \/ LeaveGuard(p) PROVE TypeOK'
  BY <1>10 DEF RemoveOldGuard, LeaveGuard, NoGuard
<1>11. ASSUME NEW p \in Procs, RemoveStaleLock(p) \/ RemoveOwnLock(p) PROVE TypeOK'
  BY <1>11 DEF RemoveStaleLock, RemoveOwnLock, NoLock, Ages
<1>12. ASSUME NEW p \in Procs, EndWrite(p) \/ CheckOwner(p) PROVE TypeOK'
  BY <1>12 DEF EndWrite, CheckOwner
<1>13. ASSUME NEW p \in Procs, Crash(p) PROVE TypeOK'
  BY <1>13 DEF Crash
<1>14. CASE LockAges \/ GuardAges
  BY <1>14 DEF LockAges, GuardAges, Ages
<1>15. CASE UNCHANGED vars
  BY <1>15 DEF vars
<1>16. QED
  BY <1>1, <1>2, <1>3, <1>4, <1>5, <1>6, <1>7, <1>8, <1>9, <1>10, <1>11, <1>12, <1>13,
     <1>14, <1>15
  DEF Next, Step, Acquire, Steal, Release

(* Every variable of the lock stays in its range: no step of the protocol  *)
(* takes a process, a file or an age anywhere else.                        *)
THEOREM TypeCorrect == Spec => []TypeOK
BY InitType, StepType, PTL DEF Spec

-----------------------------------------------------------------------------
LEMMA GotoStep ==
    ASSUME NEW p \in Procs, NEW s, pc \in [Procs -> Steps], Goto(p, s)
    PROVE  \A q \in Procs : pc'[q] = IF q = p THEN s ELSE pc[q]
BY DEF Goto

LEMMA InitInv == Init => IInv
<1> SUFFICES ASSUME Init, ~thiefDied PROVE TypeOK /\ Sound
  BY InitType DEF IInv
<1>1. TypeOK
  BY InitType
<1>2. GuardKept
  BY DistinctAssumption DEF Init, GuardKept, Inside
<1>3. QED
  BY <1>1, <1>2, DistinctAssumption
  DEF Init, Sound, HolderOwnsLock, Holding, RunningUnlessDead, LiveLockFresh, VerdictHolds

LEMMA StepInv ==
    ASSUME TypeOK, Sound, [Next]_vars, TypeOK', ~thiefDied'
    PROVE  Sound'
<1> USE GotoStep, DistinctAssumption
    DEF Sound, GuardKept, HolderOwnsLock, RunningUnlessDead, LiveLockFresh, VerdictHolds,
        TypeOK, Inside, Holding, Heartbeat, Abandoned, lockFile, guardFile, life, Ages
<1>1. ASSUME NEW p \in Procs, BeginWrite(p) PROVE Sound'
  BY <1>1 DEF BeginWrite
<1>2. ASSUME NEW p \in Procs, CreateLock(p) PROVE Sound'
  BY <1>2 DEF CreateLock, Trying
<1>3. ASSUME NEW p \in Procs, LockExists(p) PROVE Sound'
  BY <1>3 DEF LockExists, Trying
<1>4. ASSUME NEW p \in Procs, WriteOwner(p) PROVE Sound'
  BY <1>4 DEF WriteOwner
<1>5. ASSUME NEW p \in Procs, CheckLock(p) \/ GiveUp(p) PROVE Sound'
  BY <1>5 DEF CheckLock, GiveUp
<1>6. ASSUME NEW p \in Procs, ReadAge(p, "age", "text", "try") PROVE Sound'
  BY <1>6 DEF ReadAge
<1>7. ASSUME NEW p \in Procs, ReadAge(p, "reage", "retext", "unguard") PROVE Sound'
  BY <1>7 DEF ReadAge
<1>8. ASSUME NEW p \in Procs, ReadOwner(p, "text", "guard", "try") PROVE Sound'
  BY <1>8 DEF ReadOwner
<1>9. ASSUME NEW p \in Procs, ReadOwner(p, "retext", "unlink", "unguard") PROVE Sound'
  BY <1>9 DEF ReadOwner, OwnerAnswers, ProcessAlive, Stale
<1>10. ASSUME NEW p \in Procs, EnterGuard(p) PROVE Sound'
  BY <1>10 DEF EnterGuard
<1>11. ASSUME NEW p \in Procs, GuardBusy(p) \/ CheckGuardAge(p) PROVE Sound'
  BY <1>11 DEF GuardBusy, CheckGuardAge
<1>12. ASSUME NEW p \in Procs, RemoveOldGuard(p) PROVE Sound'
  BY <1>12 DEF RemoveOldGuard
<1>13. ASSUME NEW p \in Procs, LeaveGuard(p) PROVE Sound'
  BY <1>13 DEF LeaveGuard, NoGuard
<1>14. ASSUME NEW p \in Procs, RemoveStaleLock(p) PROVE Sound'
  BY <1>14 DEF RemoveStaleLock, NoLock
<1>15. ASSUME NEW p \in Procs, RemoveOwnLock(p) PROVE Sound'
  BY <1>15 DEF RemoveOwnLock, NoLock
<1>16. ASSUME NEW p \in Procs, EndWrite(p) \/ CheckOwner(p) PROVE Sound'
  BY <1>16 DEF EndWrite, CheckOwner
<1>17. ASSUME NEW p \in Procs, Crash(p) PROVE Sound'
  <2>1. pc[p] \notin Inside /\ guardMaker # p
    BY <1>17 DEF Crash
  <2>2. \A q \in Procs : pc'[q] = IF q = p THEN "dead" ELSE pc[q]
    BY <1>17 DEF Crash
  <2>3. GuardKept'
    BY <1>17, <2>1, <2>2 DEF Crash
  <2>4. HolderOwnsLock' /\ RunningUnlessDead' /\ LiveLockFresh' /\ VerdictHolds'
    BY <1>17, <2>1, <2>2 DEF Crash
  <2>5. QED
    BY <2>3, <2>4
<1>18. CASE LockAges
  BY <1>18 DEF LockAges
<1>19. CASE GuardAges
  BY <1>19 DEF GuardAges
<1>20. CASE UNCHANGED vars
  BY <1>20 DEF vars
<1>21. QED
  BY <1>1, <1>2, <1>3, <1>4, <1>5, <1>6, <1>7, <1>8, <1>9, <1>10, <1>11, <1>12, <1>13,
     <1>14, <1>15, <1>16, <1>17, <1>18, <1>19, <1>20
  DEF Next, Step, Acquire, Steal, Release

LEMMA InvAlways == Spec => []IInv
<1>1. Init => IInv
  BY InitInv
<1>2. thiefDied /\ [Next]_vars => thiefDied'
  BY DEF Next, Step, Acquire, Steal, Release, vars, life, BeginWrite, CreateLock,
     LockExists, WriteOwner, GiveUp, CheckLock, ReadAge, ReadOwner, EnterGuard, GuardBusy,
     CheckGuardAge, RemoveOldGuard, RemoveStaleLock, RemoveOwnLock, LeaveGuard, EndWrite,
     CheckOwner, Crash, LockAges, GuardAges
<1>3. IInv /\ [Next]_vars => IInv'
  BY <1>2, StepInv, StepType DEF IInv
<1>4. QED
  BY <1>1, <1>3, PTL DEF Spec

-----------------------------------------------------------------------------
(* Two processes are never inside their write cycles together, whatever    *)
(* process died wherever, until a thief has died in its turn.              *)
THEOREM Exclusion == Spec => []MutualExclusion
<1>1. IInv => MutualExclusion
  BY DEF IInv, Sound, HolderOwnsLock, MutualExclusion
<1>2. QED
  BY <1>1, InvAlways, PTL

(* Two thieves are never in the guard together, until one has died there.  *)
THEOREM OneThief == Spec => []ThievesTakeTurns
<1>1. IInv => ThievesTakeTurns
  BY DEF IInv, Sound, GuardKept, ThievesTakeTurns
<1>2. QED
  BY <1>1, InvAlways, PTL

(* A running process's lock is deleted by nobody else, until a thief has   *)
(* died in its turn.                                                       *)
THEOREM LiveLockKept == Spec => LiveLockStays
<1> DEFINE Stays == ~thiefDied => \A p \in Procs :
        lockMaker = p /\ p \in alive' /\ lockMaker' # p => pc[p] = "drop"
<1>1. IInv /\ [Next]_vars => [Stays]_vars
  <2> SUFFICES ASSUME IInv, ~thiefDied, [Next]_vars, NEW p \in Procs,
                      lockMaker = p, p \in alive', lockMaker' # p
               PROVE  pc[p] = "drop"
    OBVIOUS
  <2> USE DistinctAssumption DEF lockFile, guardFile, life, Sound, ReadAge, ReadOwner
  <2>1. CASE \E q \in Procs : CreateLock(q)
    BY <2>1 DEF CreateLock
  <2>2. CASE \E q \in Procs : RemoveStaleLock(q)
    BY <2>2 DEF RemoveStaleLock, IInv, VerdictHolds, Abandoned, Crash
  <2>3. CASE \E q \in Procs : RemoveOwnLock(q)
    BY <2>3 DEF RemoveOwnLock, IInv, HolderOwnsLock, Holding
  <2>4. CASE UNCHANGED lockMaker
    BY <2>4
  <2>5. QED
    BY <2>1, <2>2, <2>3, <2>4
    DEF Next, Step, Acquire, Steal, Release, vars, BeginWrite, LockExists, WriteOwner,
        GiveUp, CheckLock, EnterGuard, GuardBusy, CheckGuardAge, RemoveOldGuard,
        LeaveGuard, EndWrite, CheckOwner, Crash, LockAges, GuardAges
<1>2. QED
  BY <1>1, InvAlways, PTL DEF Spec, LiveLockStays
=============================================================================
