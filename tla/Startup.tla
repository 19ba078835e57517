------------------------------ MODULE Startup ------------------------------
(***************************************************************************)
(* How a program opens on the data file: the first read and the gate every *)
(* write passes (store-startup.ts, store-gate.ts), the data of the time    *)
(* before there was a file (legacy-migration.ts), and the screen shown     *)
(* when the file cannot be read (store-recovery.tsx).                      *)
(*                                                                         *)
(* Each program has a localStorage of its own, with what an old version    *)
(* left there and the flag that says it was carried over.  All share the   *)
(* file, of which one list of records and the timer's key are kept here.   *)
(* A program may be closed at any step.  What a window that is open saves  *)
(* is merged into the file record by record (WindowSync); how a file is    *)
(* replaced, kept and backed up is DataFile.                               *)
(***************************************************************************)
EXTENDS Naturals, FiniteSets

CONSTANTS
    Programs,
    Ids,            \* of records
    Absent,         \* no such key
    Legacies,       \* what a localStorage may hold
    MaxWrites,      \* bound: what users change in open windows
    MaxHarm         \* bound: how often the file is damaged or deleted

VARIABLES
    file,       \* the data file
    backup,     \* the newest backup that can be restored, or Absent
    legacy,     \* what each localStorage has of old
    done,       \* programs whose flag says that it was carried over
    prog,       \* each program's memory
    writes, harm,
    deleted,    \* history: records users deleted, or gave up with the file
    overtaken   \* history: programs whose read was overtaken by a write

vars == <<file, backup, legacy, done, prog, writes, harm, deleted, overtaken>>

(* A record as the old version left it, or changed since.                  *)
Records == [id : Ids, edited : BOOLEAN]
Lists == {Absent} \cup SUBSET Records
Timers == {Absent, "old", "new"}
Missing == [kind |-> "missing", list |-> Absent, timer |-> Absent]
Bad == [kind |-> "bad", list |-> Absent, timer |-> Absent]
Empty == [kind |-> "ok", list |-> Absent, timer |-> Absent]
Stores == [kind : {"ok"}, list : Lists, timer : Timers]
Old == {r \in Records : ~r.edited}

ASSUME StartupAssumption ==
    /\ Absent \notin {"old", "new"} /\ \A list \in SUBSET Records : list # Absent
    /\ Legacies \subseteq [list : SUBSET Old, timer : BOOLEAN, broken : BOOLEAN]
    /\ MaxWrites \in Nat /\ MaxHarm \in Nat

IdsOf(list) == IF list = Absent THEN {} ELSE {r.id : r \in list}
RecordsOf(list) == IF list = Absent THEN {} ELSE list

Plans == [list : Lists, timer : Timers, expected : SUBSET Records]
NoPlan == [list |-> Absent, timer |-> Absent, expected |-> {}]
Steps == {"idle", "read", "migrate", "copy", "write", "verify", "reread"}
Memories == [gate : {"closed", "loading", "ready", "corrupt"}, pc : Steps, job : {"start", "add"},
             target : Stores \cup {Missing}, plan : Plans, conflict : BOOLEAN]
Closed == [gate |-> "closed", pc |-> "idle", job |-> "start", target |-> Missing,
           plan |-> NoPlan, conflict |-> FALSE]

TypeOK ==
    /\ file \in Stores \cup {Missing, Bad}
    /\ backup \in Stores \cup {Absent}
    /\ legacy \in [Programs -> Legacies]
    /\ done \subseteq Programs /\ overtaken \subseteq Programs
    /\ prog \in [Programs -> Memories]
    /\ writes \in 0..MaxWrites /\ harm \in 0..MaxHarm
    /\ deleted \subseteq Ids

Init ==
    /\ file = Missing
    /\ backup = Absent
    /\ legacy \in [Programs -> Legacies]
    /\ done = {}
    /\ prog = [p \in Programs |-> Closed]
    /\ writes = 0 /\ harm = 0 /\ deleted = {} /\ overtaken = {}

-----------------------------------------------------------------------------
(* The file.                                                               *)

(* read_store_checked: no file is a fresh install only if it has no backup.*)
Unreadable == file.kind = "bad" \/ (file.kind = "missing" /\ backup # Absent)

(* A write; the first one is also the first backup.                        *)
Put(store) ==
    /\ file' = store
    /\ backup' = IF backup = Absent THEN store ELSE backup

(* Those in the middle of a migration have read what is now out of date.   *)
Overtake(p) ==
    overtaken' = overtaken \cup {q \in Programs \ {p} : prog[q].pc \in {"copy", "write", "verify"}}

Ready(p) == prog[p].gate = "ready"
Memory(p, m) == prog' = [prog EXCEPT ![p] = m]
Step(p, step) == Memory(p, [prog[p] EXCEPT !.pc = step])

-----------------------------------------------------------------------------
(* The first read, ensureStoreReady, and the same again from the recovery  *)
(* screen, retryStoreLoad, while whose gate stays shut.                    *)

Open(p) ==
    /\ prog[p].gate = "closed"
    /\ Memory(p, [Closed EXCEPT !.gate = "loading", !.pc = "read"])
    /\ overtaken' = overtaken \ {p}
    /\ UNCHANGED <<file, backup, legacy, done, writes, harm, deleted>>

Idle(m) == [m EXCEPT !.pc = "idle", !.job = "start", !.target = Missing, !.plan = NoPlan]
Shut(m) == [Idle(m) EXCEPT !.gate = "corrupt"]
OpenGate(m) == [Idle(m) EXCEPT !.gate = "ready"]

FirstRead(p) ==
    /\ prog[p].pc = "read"
    /\ \/ Memory(p, Shut(prog[p]))              \* also: the read itself failed
       \/ /\ ~Unreadable
          /\ Step(p, "migrate")
    /\ UNCHANGED <<file, backup, legacy, done, writes, harm, deleted, overtaken>>

(* Mutant of PlanFor: an empty list is taken for none.                     *)
PlanForEmpty(l, target) ==
    [list |-> IF RecordsOf(target.list) = {} /\ l.list # {} THEN l.list ELSE Absent,
     timer |-> IF target.timer = Absent /\ l.timer THEN "old" ELSE Absent,
     expected |-> IF target.list = Absent THEN l.list ELSE {}]

(* plan: only a key that is absent is written; the file's own timer stays. *)
(* Records the file lacks under a key it has are for the user to decide.   *)
PlanFor(l, target) ==
    [list |-> IF target.list = Absent /\ l.list # {} THEN l.list ELSE Absent,
     timer |-> IF target.timer = Absent /\ l.timer THEN "old" ELSE Absent,
     expected |-> IF target.list = Absent THEN l.list ELSE {}]
LackedBy(l, target) ==
    IF target.list = Absent THEN {} ELSE {r \in l.list : r.id \notin IdsOf(target.list)}
Writes(plan) == plan.list # Absent \/ plan.timer # Absent

(* applyLegacyMissingRecords: the list as it was read, and what it lacks.  *)
AdditionFor(l, target) ==
    IF LackedBy(l, target) = {} THEN PlanFor(l, target)
    ELSE [PlanFor(l, target) EXCEPT !.list = target.list \cup LackedBy(l, target),
                                    !.expected = LackedBy(l, target)]

(* Mutant of Failed: the error is not caught.                              *)
FailedUncaught(m) == Idle(m)

(* What is left of a migration: at start-up the file is read again if      *)
(* anything was touched, in an open window it is over.                     *)
Failed(m) == [Idle(m) EXCEPT !.pc = IF m.job = "start" THEN "reread" ELSE "idle"]
Over(m, wrote) ==
    IF m.job = "start"
    THEN IF wrote THEN [Idle(m) EXCEPT !.pc = "reread"] ELSE OpenGate(m)
    ELSE Idle(m)

(* Mutant of Complete: data that could not be read does not count.         *)
CompleteEnough(p, lacked) == lacked = {}

(* The flag is set only when nothing was left behind.                      *)
Complete(p, lacked) == lacked = {} /\ ~legacy[p].broken

(* The end of it: the conflict, the errors, the flag.                      *)
Conclude(p, m, wrote) ==
    LET lacked == IF m.job = "start" THEN LackedBy(legacy[p], m.target) ELSE {}
        told == [m EXCEPT !.conflict = lacked # {}] IN
    /\ done' = IF Complete(p, lacked) THEN done \cup {p} ELSE done
    /\ Memory(p, IF legacy[p].broken THEN Failed(told) ELSE Over(told, wrote))

(* runLegacyMigration, or the user's addition, up to its first effect.     *)
NothingOld(l) == l.list = {} /\ ~l.timer /\ ~l.broken
NoNeed(p) == prog[p].job = "start" /\ (p \in done \/ NothingOld(legacy[p]))
Refused(p) == Unreadable \/ (prog[p].job = "add" /\ legacy[p].broken)

SkipMigration(p) ==
    /\ prog[p].pc = "migrate" /\ NoNeed(p)
    /\ done' = done \cup {p}
    /\ Memory(p, OpenGate(prog[p]))
    /\ UNCHANGED <<file, backup, legacy, writes, harm, deleted, overtaken>>
RefuseMigration(p) ==
    /\ prog[p].pc = "migrate" /\ ~NoNeed(p) /\ Refused(p)
    /\ Memory(p, Failed(prog[p]))
    /\ UNCHANGED <<file, backup, legacy, done, writes, harm, deleted, overtaken>>
PlanMigration(p) ==
    /\ prog[p].pc = "migrate" /\ ~NoNeed(p) /\ ~Refused(p)
    /\ LET l == legacy[p]
           plan == IF prog[p].job = "start" THEN PlanFor(l, file) ELSE AdditionFor(l, file)
           known == [prog[p] EXCEPT !.target = file, !.plan = plan]
       IN  IF Writes(plan)
           THEN Memory(p, [known EXCEPT !.pc = "copy"]) /\ UNCHANGED done
           ELSE Conclude(p, known, FALSE)
    /\ overtaken' = overtaken \ {p}
    /\ UNCHANGED <<file, backup, legacy, writes, harm, deleted>>

(* Both sides are copied first: no copy, no write.                         *)
Copy(p) ==
    /\ prog[p].pc = "copy"
    /\ Step(p, "write") \/ Memory(p, Failed(prog[p]))
    /\ UNCHANGED <<file, backup, legacy, done, writes, harm, deleted, overtaken>>

(* One save, without a base: each key it has is replaced.                  *)
Carried(plan) ==
    [kind |-> "ok",
     list |-> IF plan.list = Absent THEN file.list ELSE plan.list,
     timer |-> IF plan.timer = Absent THEN file.timer ELSE plan.timer]
WriteOld(p) ==
    /\ prog[p].pc = "write"
    /\ file.kind # "bad" /\ (prog[p].job = "add" => Ready(p))
    /\ Put(Carried(prog[p].plan))
    /\ Step(p, "verify")
    /\ Overtake(p)
    /\ UNCHANGED <<legacy, done, writes, harm, deleted>>
WriteOldFails(p) ==
    /\ prog[p].pc = "write"
    /\ Memory(p, Failed(prog[p]))
    /\ UNCHANGED <<file, backup, legacy, done, writes, harm, deleted, overtaken>>

(* verify: every record is in the file, with its content.                  *)
Verified(plan) ==
    /\ plan.expected \subseteq RecordsOf(file.list)
    /\ plan.timer # Absent => file.timer = plan.timer
Verify(p) ==
    /\ prog[p].pc = "verify"
    /\ IF ~Unreadable /\ Verified(prog[p].plan)
       THEN Conclude(p, prog[p], TRUE)
       ELSE Memory(p, Failed(prog[p])) /\ UNCHANGED done
    /\ UNCHANGED <<file, backup, legacy, writes, harm, deleted, overtaken>>

(* The file as it now is, so the window opens on what is really in it.  If *)
(* this read fails it opens on the first one.                              *)
Reread(p) ==
    /\ prog[p].pc = "reread"
    /\ \/ Unreadable /\ Memory(p, Shut(prog[p]))
       \/ Memory(p, OpenGate(prog[p]))
    /\ UNCHANGED <<file, backup, legacy, done, writes, harm, deleted, overtaken>>

-----------------------------------------------------------------------------
(* An open window.                                                         *)

(* The user saves: a record new, changed or deleted, or a timer.           *)
Save(p) ==
    /\ Ready(p) /\ writes < MaxWrites /\ file.kind # "bad"
    /\ writes' = writes + 1
    /\ LET list == RecordsOf(file.list) IN
       \/ \E r \in Records :
             /\ r.edited
             /\ Put([file EXCEPT !.kind = "ok", !.list = {s \in list : s.id # r.id} \cup {r}])
             /\ UNCHANGED deleted
       \/ \E r \in list :
             /\ Put([file EXCEPT !.list = list \ {r}])
             /\ deleted' = deleted \cup {r.id}
       \/ Put([file EXCEPT !.kind = "ok", !.timer = "new"]) /\ UNCHANGED deleted
    /\ Overtake(p)
    /\ UNCHANGED <<legacy, done, prog, harm>>

(* A poll or a refused save meets a damaged file: the gate shuts at once.  *)
Detect(p) ==
    /\ Ready(p) /\ Unreadable
    /\ Memory(p, [prog[p] EXCEPT !.gate = "corrupt"])
    /\ UNCHANGED <<file, backup, legacy, done, writes, harm, deleted, overtaken>>

(* The conflict notice: the user asks for the missing records.             *)
AddMissing(p) ==
    /\ Ready(p) /\ prog[p].pc = "idle" /\ prog[p].conflict
    /\ Memory(p, [prog[p] EXCEPT !.pc = "migrate", !.job = "add"])
    /\ overtaken' = overtaken \ {p}
    /\ UNCHANGED <<file, backup, legacy, done, writes, harm, deleted>>

-----------------------------------------------------------------------------
(* The recovery screen.                                                    *)

AtScreen(p) == prog[p].gate = "corrupt" /\ prog[p].pc = "idle"
ReadAgain(p) == Memory(p, [prog[p] EXCEPT !.pc = "read", !.job = "start"])
Replace(p, store) ==
    /\ file' = store
    /\ deleted' = deleted \cup Ids      \* the user gave up what the file had
    /\ Overtake(p)
    /\ ReadAgain(p)

Retry(p) ==
    /\ AtScreen(p)
    /\ ReadAgain(p)
    /\ UNCHANGED <<file, backup, legacy, done, writes, harm, deleted, overtaken>>
Recover(p) ==
    /\ AtScreen(p) /\ backup # Absent
    /\ Replace(p, backup)
    /\ UNCHANGED <<backup, legacy, done, writes, harm>>
StartEmpty(p) ==
    /\ AtScreen(p)
    /\ Replace(p, Empty)
    /\ UNCHANGED <<backup, legacy, done, writes, harm>>

-----------------------------------------------------------------------------
(* The program is closed, or dies, at any step.                            *)
Close(p) ==
    /\ prog[p].gate # "closed"
    /\ Memory(p, Closed)
    /\ UNCHANGED <<file, backup, legacy, done, writes, harm, deleted, overtaken>>

(* Something else damages the file, or deletes it.                         *)
Harm ==
    /\ harm < MaxHarm /\ file.kind = "ok"
    /\ harm' = harm + 1
    /\ file' \in {Bad, Missing}
    /\ overtaken' = overtaken \cup {p \in Programs : prog[p].pc \in {"copy", "write", "verify"}}
    /\ UNCHANGED <<backup, legacy, done, prog, writes, deleted>>

Starting(p) ==
    \/ FirstRead(p) \/ SkipMigration(p) \/ RefuseMigration(p) \/ PlanMigration(p)
    \/ Copy(p) \/ WriteOld(p) \/ WriteOldFails(p)
    \/ Verify(p) \/ Reread(p)
Next ==
    \/ \E p \in Programs :
        \/ Open(p) \/ Starting(p) \/ Save(p) \/ Detect(p)
        \/ AddMissing(p) \/ Retry(p) \/ Recover(p) \/ StartEmpty(p) \/ Close(p)
    \/ Harm

(* What a program has begun it goes on with.                               *)
Spec == Init /\ [][Next]_vars /\ \A p \in Programs : WF_vars(Starting(p))

-----------------------------------------------------------------------------
(* The flag is set only once every old record has been in the file, for it *)
(* is never looked at again: not with data left that could not be read, or *)
(* a write that was answered and then found changed.                       *)
DoneIsComplete ==
    [][\A p \in done' \ done : p \notin overtaken =>
         /\ ~legacy[p].broken
         /\ \A r \in legacy[p].list : r.id \in IdsOf(file.list) \cup deleted]_vars

(* A start never brings back by itself what the user had deleted (an empty *)
(* list is a list), whatever failed at earlier starts.                     *)
DeletedStaysDeleted ==
    [][\A p \in Programs : WriteOld(p) /\ prog[p].job = "start" /\ p \notin overtaken =>
          \/ file.list = Absent
          \/ IdsOf(file'.list) \cap deleted \subseteq IdsOf(file.list)]_vars

(* Every start ends at an open gate or at the recovery screen, whatever    *)
(* fails on the way.                                                       *)
GateOpens == \A p \in Programs : prog[p].gate = "loading" ~> prog[p].gate # "loading"

(* legacy-migration.ts: "Nothing in localStorage or in the file is ever    *)
(* deleted"; the user's action "only ever adds".                           *)
MigrationOnlyAdds ==
    [][\A p \in Programs : WriteOld(p) =>
          /\ RecordsOf(file.list) \subseteq RecordsOf(file'.list)
          /\ file.timer \in {Absent, file'.timer}]_vars
=============================================================================
