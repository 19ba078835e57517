--------------------------- MODULE StartupProofs ---------------------------
(***************************************************************************)
(* What a migration has in hand is still so when it writes and when it     *)
(* sets the flag: the plan it made from the list it read, and a file that  *)
(* has the records it read there, but for those a user deleted since.      *)
(* Whoever writes in between is recorded in overtaken, which the two       *)
(* properties set aside: the code has no answer to him.                    *)
(***************************************************************************)
EXTENDS Startup, TLAPS

Midway == {"copy", "write", "verify"}
PlanOf(l, m) == IF m.job = "start" THEN PlanFor(l, m.target) ELSE AdditionFor(l, m.target)

(* The gate is shut while a start is under way, so a window does not write *)
(* into its own migration.                                                 *)
StartsShut(p) == prog[p].job = "start" /\ prog[p].pc # "idle" => prog[p].gate # "ready"

HasPlan(p) == prog[p].pc \in Midway => prog[p].plan = PlanOf(legacy[p], prog[p])

KeepsIds(p) == prog[p].pc \in Midway /\ p \notin overtaken =>
    IdsOf(prog[p].target.list) \subseteq IdsOf(file.list) \cup deleted

SeesFile(p) ==
    prog[p].pc \in {"copy", "write"} /\ prog[p].job = "start" /\ p \notin overtaken =>
        file = prog[p].target

Midst(p) == StartsShut(p) /\ HasPlan(p) /\ KeepsIds(p) /\ SeesFile(p)

IInv == TypeOK /\ \A p \in Programs : Midst(p)

(* A memory that is outside every migration.                               *)
Outside(m) ==
    /\ m \in Memories
    /\ m.pc \notin Midway
    /\ m.job = "start" /\ m.pc # "idle" => m.gate # "ready"

-----------------------------------------------------------------------------
(* The memories the actions leave.                                         *)
LEMMA PlanTypes ==
    ASSUME NEW l \in Legacies, NEW target \in Stores \cup {Missing}
    PROVE  /\ LackedBy(l, target) \in SUBSET Records
           /\ PlanFor(l, target) \in Plans
           /\ AdditionFor(l, target) \in Plans
           /\ target.list \in Lists
<1>1. l.list \in SUBSET Records /\ l.timer \in BOOLEAN
  BY StartupAssumption DEF Old
<1>2. target.list \in Lists /\ target.timer \in Timers
  BY DEF Stores, Missing, Lists, Timers
<1>3. LackedBy(l, target) \in SUBSET Records
  BY <1>1 DEF LackedBy
<1>4. PlanFor(l, target) \in Plans
  <2>1. (IF target.list = Absent /\ l.list # {} THEN l.list ELSE Absent) \in Lists
    BY <1>1 DEF Lists
  <2>2. (IF target.timer = Absent /\ l.timer THEN "old" ELSE Absent) \in Timers
    BY DEF Timers
  <2>3. (IF target.list = Absent THEN l.list ELSE {}) \in SUBSET Records
    BY <1>1
  <2>4. QED
    BY <2>1, <2>2, <2>3 DEF PlanFor, Plans
<1>5. CASE LackedBy(l, target) # {}
  <2>1. target.list # Absent
    BY <1>5 DEF LackedBy
  <2>2. target.list \cup LackedBy(l, target) \in Lists
    BY <1>2, <1>3, <2>1 DEF Lists
  <2>3. [PlanFor(l, target) EXCEPT !.list = target.list \cup LackedBy(l, target),
                                   !.expected = LackedBy(l, target)] \in Plans
    BY <1>3, <1>4, <2>2 DEF Plans
  <2>4. QED
    BY <1>2, <1>3, <1>4, <1>5, <2>3 DEF AdditionFor
<1>6. QED
  BY <1>2, <1>3, <1>4, <1>5 DEF AdditionFor

LEMMA NoPlanType == NoPlan \in Plans /\ Missing \in Stores \cup {Missing}
  BY DEF NoPlan, Plans, Lists, Timers

LEMMA IdleMemory ==
    ASSUME NEW m \in Memories
    PROVE  /\ Idle(m) \in Memories
           /\ Idle(m).gate = m.gate /\ Idle(m).pc = "idle" /\ Idle(m).job = "start"
  BY NoPlanType DEF Memories, Idle, Steps

LEMMA AfterwardsOutside ==
    ASSUME NEW m \in Memories, NEW wrote \in BOOLEAN,
           m.job = "start" => m.gate # "ready"
    PROVE  Outside(Shut(m)) /\ Outside(OpenGate(m)) /\ Outside(Failed(m))
           /\ Outside(Over(m, wrote))
<1> DEFINE i == Idle(m)
<1>1. i \in Memories /\ i.gate = m.gate /\ i.pc = "idle" /\ i.job = "start"
  BY IdleMemory
<1> HIDE DEF i
<1>2. ASSUME NEW n \in {[i EXCEPT !.gate = "corrupt"], [i EXCEPT !.gate = "ready"], i}
      PROVE  Outside(n)
  BY <1>1, <1>2 DEF Outside, Memories, Midway
<1>3. ASSUME m.job = "start"
      PROVE  Outside([i EXCEPT !.pc = "reread"])
  BY <1>1, <1>3 DEF Outside, Memories, Midway, Steps
<1>4. Outside([i EXCEPT !.pc = IF m.job = "start" THEN "reread" ELSE "idle"])
  <2>1. CASE m.job = "start"
    BY <1>3, <2>1
  <2>2. CASE m.job # "start"
    <3>1. [i EXCEPT !.pc = "idle"] = i
      BY <1>1 DEF Memories
    <3>2. QED
      BY <1>2, <2>2, <3>1
  <2>3. QED
    BY <2>1, <2>2
<1>5. Shut(m) = [i EXCEPT !.gate = "corrupt"] /\ OpenGate(m) = [i EXCEPT !.gate = "ready"]
  BY DEF Shut, OpenGate, i
<1>6. Failed(m) = [i EXCEPT !.pc = IF m.job = "start" THEN "reread" ELSE "idle"]
  BY DEF Failed, i
<1>7. \/ m.job = "start" /\ Over(m, wrote) = [i EXCEPT !.pc = "reread"]
      \/ Over(m, wrote) = [i EXCEPT !.gate = "ready"]
      \/ Over(m, wrote) = i
  BY DEF Over, OpenGate, i
<1>8. QED
  BY <1>2, <1>3, <1>4, <1>5, <1>6, <1>7

LEMMA StepMemory ==
    ASSUME NEW m \in Memories, NEW step \in Steps
    PROVE  LET n == [m EXCEPT !.pc = step] IN
           /\ n \in Memories /\ n.pc = step
           /\ n.gate = m.gate /\ n.job = m.job /\ n.target = m.target /\ n.plan = m.plan
  BY DEF Memories

LEMMA ClosedOutside ==
    Outside(Closed) /\ Outside([Closed EXCEPT !.gate = "loading", !.pc = "read"])
  BY NoPlanType DEF Outside, Closed, Memories, Steps, Midway

LEMMA MemoryIs ==
    ASSUME TypeOK, NEW p \in Programs, NEW m, Memory(p, m)
    PROVE  /\ prog'[p] = m
           /\ \A q \in Programs \ {p} : prog'[q] = prog[q]
           /\ m \in Memories => prog' \in [Programs -> Memories]
  BY DEF Memory, TypeOK

-----------------------------------------------------------------------------
(* What is so of a program in the middle stays so.                         *)
LEMMA OutsideIsMidst ==
    ASSUME NEW p, NEW m, Outside(m), prog'[p] = m
    PROVE  Midst(p)'
  BY DEF Outside, Midst, StartsShut, HasPlan, KeepsIds, SeesFile, Midway

LEMMA MidstStays ==
    ASSUME NEW p, Midst(p),
           prog'[p] = prog[p], legacy'[p] = legacy[p], deleted \subseteq deleted',
           p \in overtaken => p \in overtaken',
           file' = file \/ (prog[p].pc \in Midway => p \in overtaken')
    PROVE  Midst(p)'
<1>1. StartsShut(p)' /\ HasPlan(p)'
  BY DEF Midst, StartsShut, HasPlan
<1>2. KeepsIds(p)'
  BY DEF Midst, KeepsIds, Midway
<1>3. SeesFile(p)'
  BY DEF Midst, SeesFile, Midway
<1>4. QED
  BY <1>1, <1>2, <1>3 DEF Midst

(* An action of one program that leaves the file to the others, or marks   *)
(* them overtaken.                                                         *)
LEMMA OthersStay ==
    ASSUME IInv, NEW p \in Programs, NEW m, Memory(p, m), legacy' = legacy,
           deleted \subseteq deleted',
           \/ /\ file' = file
              /\ overtaken' = overtaken \/ overtaken' = overtaken \ {p}
           \/ Overtake(p)
    PROVE  \A q \in Programs \ {p} : Midst(q)'
<1>1. SUFFICES ASSUME NEW q \in Programs \ {p} PROVE Midst(q)'
  OBVIOUS
<1>2. prog'[q] = prog[q] /\ Midst(q)
  BY MemoryIs DEF IInv
<1>3. q \in overtaken => q \in overtaken'
  BY DEF Overtake
<1>4. file' = file \/ (prog[q].pc \in Midway => q \in overtaken')
  BY DEF Overtake, Midway
<1>5. QED
  BY <1>2, <1>3, <1>4, MidstStays

(* An action after which its program is in no migration, and the file is   *)
(* as it was.                                                              *)
LEMMA ToOutside ==
    ASSUME IInv, NEW p \in Programs, NEW m, Outside(m), Memory(p, m),
           UNCHANGED <<file, backup, legacy, writes, harm, deleted>>,
           done' \subseteq Programs,
           overtaken' = overtaken \/ overtaken' = overtaken \ {p}
    PROVE  IInv'
<1>1. prog' \in [Programs -> Memories] /\ prog'[p] = m
  BY MemoryIs DEF IInv, Outside
<1>2. TypeOK'
  BY <1>1 DEF IInv, TypeOK
<1>3. Midst(p)'
  BY <1>1, OutsideIsMidst
<1>4. \A q \in Programs \ {p} : Midst(q)'
  BY OthersStay
<1>5. QED
  BY <1>2, <1>3, <1>4 DEF IInv

LEMMA ConcludeKeeps ==
    ASSUME IInv, NEW p \in Programs, NEW m \in Memories, NEW wrote \in BOOLEAN,
           m.job = "start" => m.gate # "ready",
           Conclude(p, m, wrote),
           UNCHANGED <<file, backup, legacy, writes, harm, deleted>>,
           overtaken' = overtaken \/ overtaken' = overtaken \ {p}
    PROVE  IInv'
<1> DEFINE lacked == IF m.job = "start" THEN LackedBy(legacy[p], m.target) ELSE {}
           told == [m EXCEPT !.conflict = lacked # {}]
           end == IF legacy[p].broken THEN Failed(told) ELSE Over(told, wrote)
<1>1. (lacked # {}) \in BOOLEAN
  OBVIOUS
<1>2. Memory(p, end) /\ done' = IF Complete(p, lacked) THEN done \cup {p} ELSE done
  BY Zenon DEF Conclude
<1>3. told \in Memories /\ told.job = m.job /\ told.gate = m.gate
  <2> HIDE DEF lacked
  <2> QED
    BY <1>1 DEF Memories
<1> HIDE DEF told, lacked
<1>4. Outside(end)
  BY <1>3, AfterwardsOutside
<1> HIDE DEF end
<1>5. done' \subseteq Programs
  BY <1>2 DEF IInv, TypeOK
<1>6. QED
  BY <1>2, <1>4, <1>5, ToOutside

-----------------------------------------------------------------------------
(* One lemma for each action.                                              *)
LEMMA InMemory ==
    ASSUME IInv, NEW p \in Programs
    PROVE  /\ prog[p] \in Memories
           /\ prog[p].pc # "idle" /\ prog[p].job = "start" => prog[p].gate # "ready"
           /\ legacy[p] \in Legacies /\ done \subseteq Programs
  BY DEF IInv, TypeOK, Midst, StartsShut

LEMMA OpenKeeps == ASSUME IInv, NEW p \in Programs, Open(p) PROVE IInv'
  BY InMemory, ClosedOutside, ToOutside DEF Open

LEMMA CloseKeeps == ASSUME IInv, NEW p \in Programs, Close(p) PROVE IInv'
  BY InMemory, ClosedOutside, ToOutside DEF Close

LEMMA FirstReadKeeps == ASSUME IInv, NEW p \in Programs, FirstRead(p) PROVE IInv'
<1>1. /\ prog[p] \in Memories /\ prog[p].pc = "read" /\ done' \subseteq Programs
      /\ prog[p].job = "start" => prog[p].gate # "ready"
  BY InMemory DEF FirstRead
<1>2. Outside([prog[p] EXCEPT !.pc = "migrate"])
  BY <1>1, StepMemory DEF Outside, Midway, Steps
<1>3. Outside(Shut(prog[p]))
  BY <1>1, AfterwardsOutside
<1>4. QED
  BY <1>1, <1>2, <1>3, ToOutside DEF FirstRead, Step

LEMMA SkipKeeps == ASSUME IInv, NEW p \in Programs, SkipMigration(p) PROVE IInv'
<1>1. /\ prog[p] \in Memories /\ done' \subseteq Programs
      /\ prog[p].job = "start" => prog[p].gate # "ready"
  BY InMemory DEF SkipMigration
<1>2. Outside(OpenGate(prog[p]))
  BY <1>1, AfterwardsOutside
<1>3. QED
  BY <1>1, <1>2, ToOutside DEF SkipMigration

LEMMA FailedKeeps ==
    ASSUME IInv, NEW p \in Programs, prog[p].pc # "idle", Memory(p, Failed(prog[p])),
           UNCHANGED <<file, backup, legacy, done, writes, harm, deleted, overtaken>>
    PROVE  IInv'
<1>1. /\ prog[p] \in Memories /\ done' \subseteq Programs
      /\ prog[p].job = "start" => prog[p].gate # "ready"
  BY InMemory
<1>2. Outside(Failed(prog[p]))
  BY <1>1, AfterwardsOutside
<1>3. QED
  BY <1>1, <1>2, ToOutside

LEMMA RereadKeeps == ASSUME IInv, NEW p \in Programs, Reread(p) PROVE IInv'
<1>1. /\ prog[p] \in Memories /\ done' \subseteq Programs
      /\ prog[p].job = "start" => prog[p].gate # "ready"
  BY InMemory DEF Reread
<1>2. Outside(OpenGate(prog[p])) /\ Outside(Shut(prog[p]))
  BY <1>1, AfterwardsOutside
<1>3. QED
  BY <1>1, <1>2, ToOutside DEF Reread

LEMMA DetectKeeps == ASSUME IInv, NEW p \in Programs, Detect(p) PROVE IInv'
<1> DEFINE m == [prog[p] EXCEPT !.gate = "corrupt"]
<1>1. prog[p] \in Memories /\ legacy' = legacy /\ UNCHANGED <<file, deleted, overtaken>>
  BY InMemory DEF Detect
<1>2. /\ m \in Memories /\ m.gate = "corrupt" /\ m.pc = prog[p].pc /\ m.job = prog[p].job
      /\ m.target = prog[p].target /\ m.plan = prog[p].plan
  BY <1>1 DEF Memories
<1>3. Memory(p, m)
  BY DEF Detect
<1> HIDE DEF m
<1>4. prog' \in [Programs -> Memories] /\ prog'[p] = m
  BY <1>2, <1>3, MemoryIs DEF IInv
<1>5. TypeOK'
  BY <1>4 DEF Detect, IInv, TypeOK
<1>6. Midst(p)'
  BY <1>1, <1>2, <1>4 DEF IInv, Midst, StartsShut, HasPlan, KeepsIds, SeesFile, PlanOf
<1>7. \A q \in Programs \ {p} : Midst(q)'
  BY <1>1, <1>3, OthersStay
<1>8. QED
  BY <1>5, <1>6, <1>7 DEF IInv

LEMMA AddMissingKeeps == ASSUME IInv, NEW p \in Programs, AddMissing(p) PROVE IInv'
<1> DEFINE m == [prog[p] EXCEPT !.pc = "migrate", !.job = "add"]
<1>1. prog[p] \in Memories /\ done' \subseteq Programs
  BY InMemory DEF AddMissing
<1>2. Outside(m)
  BY <1>1 DEF Memories, Outside, Midway, Steps
<1>3. Memory(p, m)
  BY DEF AddMissing
<1> HIDE DEF m
<1>4. QED
  BY <1>1, <1>2, <1>3, ToOutside DEF AddMissing

LEMMA RetryKeeps == ASSUME IInv, NEW p \in Programs, Retry(p) PROVE IInv'
<1> DEFINE m == [prog[p] EXCEPT !.pc = "read", !.job = "start"]
<1>1. prog[p] \in Memories /\ done' \subseteq Programs /\ prog[p].gate = "corrupt"
  BY InMemory DEF Retry, AtScreen
<1>2. Outside(m)
  BY <1>1 DEF Memories, Outside, Midway, Steps
<1>3. Memory(p, m)
  BY DEF Retry, ReadAgain
<1> HIDE DEF m
<1>4. QED
  BY <1>1, <1>2, <1>3, ToOutside DEF Retry

LEMMA ReplaceKeeps ==
    ASSUME IInv, NEW p \in Programs, NEW store \in Stores, AtScreen(p), Replace(p, store),
           UNCHANGED <<backup, legacy, done, writes, harm>>
    PROVE  IInv'
<1> DEFINE m == [prog[p] EXCEPT !.pc = "read", !.job = "start"]
<1>1. prog[p] \in Memories /\ prog[p].gate = "corrupt"
  BY InMemory DEF AtScreen
<1>2. Outside(m)
  BY <1>1 DEF Memories, Outside, Midway, Steps
<1>3. Memory(p, m)
  BY DEF Replace, ReadAgain
<1> HIDE DEF m
<1>4. prog' \in [Programs -> Memories] /\ prog'[p] = m
  BY <1>2, <1>3, MemoryIs DEF IInv, Outside
<1>5. deleted' \subseteq Ids /\ deleted \subseteq deleted' /\ overtaken' \subseteq Programs
  BY DEF Replace, IInv, TypeOK, Overtake
<1>6. TypeOK'
  BY <1>4, <1>5 DEF Replace, IInv, TypeOK
<1>7. Midst(p)'
  BY <1>2, <1>4, OutsideIsMidst
<1>8. \A q \in Programs \ {p} : Midst(q)'
  BY <1>3, <1>5, OthersStay DEF Replace
<1>9. QED
  BY <1>6, <1>7, <1>8 DEF IInv

LEMMA ScreenKeeps ==
    ASSUME IInv, NEW p \in Programs, Recover(p) \/ StartEmpty(p)
    PROVE  IInv'
<1>1. Empty \in Stores
  BY DEF Empty, Stores, Lists, Timers
<1>2. CASE Recover(p)
  <2>1. backup \in Stores
    BY <1>2 DEF Recover, IInv, TypeOK
  <2>2. QED
    BY <1>2, <2>1, ReplaceKeeps DEF Recover
<1>3. CASE StartEmpty(p)
  BY <1>1, <1>3, ReplaceKeeps DEF StartEmpty
<1>4. QED
  BY <1>2, <1>3

LEMMA HarmKeeps == ASSUME IInv, Harm PROVE IInv'
<1>1. harm' \in 0..MaxHarm
  BY StartupAssumption DEF Harm, IInv, TypeOK
<1>2. TypeOK'
  BY <1>1 DEF Harm, IInv, TypeOK
<1>3. \A p \in Programs : Midst(p)'
  <2>1. SUFFICES ASSUME NEW p \in Programs PROVE Midst(p)'
    OBVIOUS
  <2>2. /\ Midst(p) /\ prog'[p] = prog[p] /\ legacy'[p] = legacy[p] /\ deleted \subseteq deleted'
        /\ p \in overtaken => p \in overtaken'
        /\ prog[p].pc \in Midway => p \in overtaken'
    BY DEF Harm, IInv, Midway
  <2>3. QED
    BY <2>2, MidstStays
<1>4. QED
  BY <1>2, <1>3 DEF IInv

-----------------------------------------------------------------------------
(* The plan, the writing of it, and the users' own writes.                 *)
LEMMA ListIsNotAbsent == ASSUME NEW list \in SUBSET Records PROVE list # Absent
  BY StartupAssumption

(* What a plan writes has every record id of the list it was made from.    *)
LEMMA PlanKeepsIds ==
    ASSUME NEW l \in Legacies, NEW m \in Memories, PlanOf(l, m).list # Absent
    PROVE  IdsOf(m.target.list) \subseteq IdsOf(PlanOf(l, m).list)
<1>1. m.target \in Stores \cup {Missing}
  BY DEF Memories
<1>2. m.target.list \in Lists /\ PlanFor(l, m.target) \in Plans
  BY <1>1, PlanTypes
<1>3. CASE m.target.list = Absent
  BY <1>3 DEF IdsOf
<1>4. CASE m.target.list # Absent
  <2>1. PlanFor(l, m.target).list = Absent
    BY <1>4 DEF PlanFor
  <2>2. /\ LackedBy(l, m.target) # {}
        /\ PlanOf(l, m) = [PlanFor(l, m.target) EXCEPT
               !.list = m.target.list \cup LackedBy(l, m.target),
               !.expected = LackedBy(l, m.target)]
    BY <2>1 DEF PlanOf, AdditionFor
  <2>3. PlanOf(l, m).list = m.target.list \cup LackedBy(l, m.target)
    BY <1>2, <2>2 DEF Plans
  <2>4. QED
    BY <1>4, <2>3 DEF IdsOf
<1>5. QED
  BY <1>3, <1>4

(* When nothing is left for the user to decide, every old record is one    *)
(* that the plan expects, or its id was in the file.                       *)
LEMMA PlanCovers ==
    ASSUME NEW l \in Legacies, NEW m \in Memories,
           m.job = "start" => LackedBy(l, m.target) = {}
    PROVE  \A r \in l.list : r \in PlanOf(l, m).expected \/ r.id \in IdsOf(m.target.list)
<1>1. m.target \in Stores \cup {Missing}
  BY DEF Memories
<1>2. PlanFor(l, m.target) \in Plans /\ l.list \in SUBSET Records
  BY <1>1, PlanTypes, StartupAssumption DEF Old
<1>3. SUFFICES ASSUME NEW r \in l.list, r.id \notin IdsOf(m.target.list)
               PROVE  r \in PlanOf(l, m).expected
  OBVIOUS
<1>4. CASE m.target.list = Absent
  <2>1. LackedBy(l, m.target) = {} /\ PlanFor(l, m.target).expected = l.list
    BY <1>4 DEF LackedBy, PlanFor
  <2>2. QED
    BY <2>1 DEF PlanOf, AdditionFor
<1>5. CASE m.target.list # Absent
  <2>1. r \in LackedBy(l, m.target)
    BY <1>3, <1>5 DEF LackedBy
  <2>2. PlanOf(l, m) = [PlanFor(l, m.target) EXCEPT
               !.list = m.target.list \cup LackedBy(l, m.target),
               !.expected = LackedBy(l, m.target)]
    BY <2>1 DEF PlanOf, AdditionFor
  <2>3. QED
    BY <1>2, <2>1, <2>2 DEF Plans
<1>6. QED
  BY <1>4, <1>5

LEMMA IdlePlanExpectsNothing ==
    ASSUME NEW l \in Legacies, NEW m \in Memories, ~Writes(PlanOf(l, m))
    PROVE  PlanOf(l, m).expected = {}
<1>1. m.target \in Stores \cup {Missing}
  BY DEF Memories
<1>2. /\ PlanFor(l, m.target) \in Plans /\ l.list \in SUBSET Records
      /\ m.target.list \in Lists /\ LackedBy(l, m.target) \in SUBSET Records
  BY <1>1, PlanTypes, StartupAssumption DEF Old
<1>3. PlanOf(l, m).list = Absent
  BY DEF Writes
<1>4. CASE PlanOf(l, m) = PlanFor(l, m.target)
  <2>1. m.target.list = Absent => l.list = {}
    BY <1>2, <1>3, <1>4, ListIsNotAbsent DEF PlanFor
  <2>2. QED
    BY <1>4, <2>1 DEF PlanFor
<1>5. CASE PlanOf(l, m) # PlanFor(l, m.target)
  <2>1. /\ LackedBy(l, m.target) # {}
        /\ PlanOf(l, m) = [PlanFor(l, m.target) EXCEPT
               !.list = m.target.list \cup LackedBy(l, m.target),
               !.expected = LackedBy(l, m.target)]
    BY <1>5 DEF PlanOf, AdditionFor
  <2>2. PlanOf(l, m).list = m.target.list \cup LackedBy(l, m.target)
    BY <1>2, <2>1 DEF Plans
  <2>3. m.target.list # Absent
    BY <2>1 DEF LackedBy
  <2>4. m.target.list \cup LackedBy(l, m.target) \in SUBSET Records
    BY <1>2, <2>3 DEF Lists
  <2>5. QED
    BY <1>3, <2>2, <2>4, ListIsNotAbsent
<1>6. QED
  BY <1>4, <1>5

(* What PlanMigration has in hand once it has read the file.               *)
PlanOfFile(p) ==
    IF prog[p].job = "start" THEN PlanFor(legacy[p], file) ELSE AdditionFor(legacy[p], file)
WithFile(p) == [prog[p] EXCEPT !.target = file, !.plan = PlanOfFile(p)]

LEMMA WithFileIs ==
    ASSUME IInv, NEW p \in Programs, PlanMigration(p)
    PROVE  LET known == WithFile(p) IN
           /\ known \in Memories
           /\ known.gate = prog[p].gate /\ known.job = prog[p].job
           /\ known.target = file /\ known.plan = PlanOfFile(p)
           /\ PlanOfFile(p) = PlanOf(legacy[p], known)
<1> DEFINE plan == PlanOfFile(p)
           known == WithFile(p)
<1>1. prog[p] \in Memories /\ legacy[p] \in Legacies
  BY InMemory
<1>2. file \in Stores \cup {Missing}
  BY DEF PlanMigration, Refused, Unreadable, IInv, TypeOK, Bad
<1>3. plan \in Plans
  BY <1>1, <1>2, PlanTypes DEF PlanOfFile
<1>4. /\ known \in Memories
      /\ known.gate = prog[p].gate /\ known.job = prog[p].job
      /\ known.target = file /\ known.plan = plan
  BY <1>1, <1>2, <1>3 DEF Memories, WithFile
<1>5. QED
  BY <1>4 DEF PlanOf, PlanOfFile

LEMMA PlanKeeps == ASSUME IInv, NEW p \in Programs, PlanMigration(p) PROVE IInv'
<1> DEFINE plan == PlanOfFile(p)
           known == WithFile(p)
           m == [known EXCEPT !.pc = "copy"]
<1>1. /\ known \in Memories
      /\ known.gate = prog[p].gate /\ known.job = prog[p].job
      /\ known.target = file /\ known.plan = plan
      /\ plan = PlanOf(legacy[p], known)
  BY WithFileIs
<1>2. /\ known.job = "start" => known.gate # "ready"
      /\ UNCHANGED <<file, backup, legacy, writes, harm, deleted>>
      /\ overtaken' = overtaken \ {p}
  BY <1>1, InMemory DEF PlanMigration
<1>3. \/ Memory(p, m) /\ UNCHANGED done
      \/ Conclude(p, known, FALSE)
  BY DEF PlanMigration, PlanOfFile, WithFile
<1> HIDE DEF plan, known
<1>4. CASE Memory(p, m) /\ UNCHANGED done
  <2>1. /\ m \in Memories /\ m.pc = "copy" /\ m.gate = known.gate /\ m.job = known.job
        /\ m.target = file /\ m.plan = plan
    BY <1>1, StepMemory DEF Steps
  <2> HIDE DEF m
  <2>2. prog' \in [Programs -> Memories] /\ prog'[p] = m
    BY <1>4, <2>1, MemoryIs DEF IInv
  <2>3. TypeOK'
    BY <1>2, <1>4, <2>2 DEF IInv, TypeOK
  <2>4. StartsShut(p)' /\ SeesFile(p)'
    BY <1>1, <1>2, <2>1, <2>2 DEF StartsShut, SeesFile
  <2>5. HasPlan(p)'
    BY <1>1, <1>2, <2>1, <2>2 DEF HasPlan, PlanOf
  <2>6. KeepsIds(p)'
    BY <1>2, <2>1, <2>2 DEF KeepsIds
  <2>7. \A q \in Programs \ {p} : Midst(q)'
    BY <1>2, <1>4, OthersStay
  <2>8. QED
    BY <2>3, <2>4, <2>5, <2>6, <2>7 DEF IInv, Midst
<1>5. CASE Conclude(p, known, FALSE)
  BY <1>1, <1>2, <1>5, ConcludeKeeps
<1>6. QED
  BY <1>3, <1>4, <1>5

LEMMA CopyKeeps == ASSUME IInv, NEW p \in Programs, Copy(p) PROVE IInv'
<1>1. prog[p] \in Memories /\ prog[p].pc = "copy" /\ legacy' = legacy
      /\ UNCHANGED <<file, deleted, overtaken>>
  BY InMemory DEF Copy
<1>2. CASE Step(p, "write")
  <2> DEFINE m == [prog[p] EXCEPT !.pc = "write"]
  <2>1. /\ m \in Memories /\ m.pc = "write" /\ m.gate = prog[p].gate /\ m.job = prog[p].job
        /\ m.target = prog[p].target /\ m.plan = prog[p].plan
    BY <1>1, StepMemory DEF Steps
  <2>2. Memory(p, m)
    BY <1>2 DEF Step
  <2> HIDE DEF m
  <2>3. prog' \in [Programs -> Memories] /\ prog'[p] = m
    BY <2>1, <2>2, MemoryIs DEF IInv
  <2>4. TypeOK'
    BY <2>3 DEF Copy, IInv, TypeOK
  <2>5. Midst(p)'
    BY <1>1, <2>1, <2>3
       DEF IInv, Midst, StartsShut, HasPlan, KeepsIds, SeesFile, PlanOf, Midway
  <2>6. \A q \in Programs \ {p} : Midst(q)'
    BY <1>1, <2>2, OthersStay
  <2>7. QED
    BY <2>4, <2>5, <2>6 DEF IInv
<1>3. CASE Memory(p, Failed(prog[p]))
  BY <1>1, <1>3, FailedKeeps DEF Copy
<1>4. QED
  BY <1>2, <1>3 DEF Copy

LEMMA PutTypes ==
    ASSUME TypeOK, NEW store \in Stores, Put(store)
    PROVE  file' \in Stores \cup {Missing, Bad} /\ backup' \in Stores \cup {Absent}
  BY DEF Put, TypeOK

(* The write has every id the migration had read.                          *)
LEMMA CarriedIs ==
    ASSUME IInv, NEW p \in Programs, WriteOld(p)
    PROVE  /\ Carried(prog[p].plan) \in Stores /\ file' = Carried(prog[p].plan)
           /\ file'.list = IF prog[p].plan.list = Absent THEN file.list ELSE prog[p].plan.list
           /\ prog[p].plan = PlanOf(legacy[p], prog[p])
<1>1. prog[p] \in Memories /\ legacy[p] \in Legacies /\ prog[p].pc = "write"
  BY InMemory DEF WriteOld
<1>2. file \in Stores \cup {Missing, Bad} /\ prog[p].plan \in Plans
  BY <1>1 DEF IInv, TypeOK, Memories
<1>3. file.list \in Lists /\ file.timer \in Timers
  BY <1>2 DEF Stores, Missing, Bad, Lists, Timers
<1>4. Carried(prog[p].plan) \in Stores
  BY <1>2, <1>3 DEF Carried, Plans, Stores
<1>5. file' = Carried(prog[p].plan)
  BY DEF WriteOld, Put
<1>6. file'.list = IF prog[p].plan.list = Absent THEN file.list ELSE prog[p].plan.list
  BY <1>5 DEF Carried
<1>7. QED
  BY <1>1, <1>4, <1>5, <1>6 DEF IInv, Midst, HasPlan, Midway

LEMMA WriteOldKeeps == ASSUME IInv, NEW p \in Programs, WriteOld(p) PROVE IInv'
<1> DEFINE m == [prog[p] EXCEPT !.pc = "verify"]
<1>1. /\ prog[p] \in Memories /\ prog[p].pc = "write" /\ legacy[p] \in Legacies
      /\ legacy' = legacy /\ deleted' = deleted /\ Overtake(p)
  BY InMemory DEF WriteOld
<1>2. /\ m \in Memories /\ m.pc = "verify" /\ m.gate = prog[p].gate /\ m.job = prog[p].job
      /\ m.target = prog[p].target /\ m.plan = prog[p].plan
  BY <1>1, StepMemory DEF Steps
<1>3. Memory(p, m)
  BY DEF WriteOld, Step
<1> HIDE DEF m
<1>4. prog' \in [Programs -> Memories] /\ prog'[p] = m
  BY <1>2, <1>3, MemoryIs DEF IInv
<1>5. /\ Carried(prog[p].plan) \in Stores
      /\ file'.list = IF prog[p].plan.list = Absent THEN file.list ELSE prog[p].plan.list
      /\ prog[p].plan = PlanOf(legacy[p], prog[p])
  BY CarriedIs
<1>6. TypeOK'
  <2>1. file' \in Stores \cup {Missing, Bad} /\ backup' \in Stores \cup {Absent}
    BY <1>5, PutTypes DEF WriteOld, IInv
  <2>2. overtaken' \subseteq Programs
    BY <1>1 DEF Overtake, IInv, TypeOK
  <2>3. QED
    BY <1>4, <2>1, <2>2 DEF WriteOld, IInv, TypeOK
<1>7. StartsShut(p)' /\ SeesFile(p)' /\ HasPlan(p)'
  BY <1>1, <1>2, <1>4, <1>5 DEF IInv, Midst, StartsShut, SeesFile, HasPlan, PlanOf
<1>8. KeepsIds(p)'
  <2>1. SUFFICES ASSUME p \notin overtaken
                 PROVE  IdsOf(prog[p].target.list) \subseteq IdsOf(file'.list) \cup deleted
    BY <1>1, <1>2, <1>4 DEF KeepsIds, Overtake
  <2>2. CASE prog[p].plan.list = Absent
    BY <1>1, <1>5, <2>1, <2>2 DEF IInv, Midst, KeepsIds, Midway
  <2>3. CASE prog[p].plan.list # Absent
    BY <1>1, <1>5, <2>3, PlanKeepsIds
  <2>4. QED
    BY <2>2, <2>3
<1>9. \A q \in Programs \ {p} : Midst(q)'
  BY <1>1, <1>3, OthersStay
<1>10. QED
  BY <1>6, <1>7, <1>8, <1>9 DEF IInv, Midst

LEMMA VerifyKeeps == ASSUME IInv, NEW p \in Programs, Verify(p) PROVE IInv'
<1>1. /\ prog[p] \in Memories /\ prog[p].pc = "verify"
      /\ prog[p].job = "start" => prog[p].gate # "ready"
      /\ UNCHANGED <<file, backup, legacy, writes, harm, deleted, overtaken>>
  BY InMemory DEF Verify
<1>2. CASE Conclude(p, prog[p], TRUE)
  BY <1>1, <1>2, ConcludeKeeps
<1>3. CASE Memory(p, Failed(prog[p])) /\ UNCHANGED done
  BY <1>1, <1>3, FailedKeeps
<1>4. QED
  BY <1>2, <1>3 DEF Verify

(* A user's save takes no id out of the list but one that he deletes.      *)
LEMMA SaveKeepsIds ==
    ASSUME IInv, NEW p \in Programs, Save(p)
    PROVE  /\ file' \in Stores /\ Put(file')
           /\ deleted \subseteq deleted' /\ deleted' \subseteq Ids
           /\ IdsOf(file.list) \subseteq IdsOf(file'.list) \cup deleted'
<1> DEFINE list == RecordsOf(file.list)
<1>1. file \in Stores \cup {Missing} /\ deleted \subseteq Ids
  <2>1. file.kind # "bad"
    BY DEF Save
  <2>2. QED
    BY <2>1 DEF IInv, TypeOK, Bad
<1>2. file.list \in Lists /\ file.timer \in Timers /\ list \in SUBSET Records
      /\ IdsOf(file.list) = {r.id : r \in list}
  BY <1>1 DEF Stores, Missing, Lists, Timers, RecordsOf, IdsOf
<1>3. \A store : Put(store) => file' = store /\ Put(file')
  BY DEF Put
<1>4. CASE \E r \in Records :
              /\ r.edited
              /\ Put([file EXCEPT !.kind = "ok", !.list = {s \in list : s.id # r.id} \cup {r}])
              /\ UNCHANGED deleted
  <2>1. PICK r \in Records :
              /\ Put([file EXCEPT !.kind = "ok", !.list = {s \in list : s.id # r.id} \cup {r}])
              /\ UNCHANGED deleted
    BY <1>4
  <2> DEFINE new == {s \in list : s.id # r.id} \cup {r}
  <2>2. new \in SUBSET Records /\ {s.id : s \in list} \subseteq {s.id : s \in new}
    BY <1>2
  <2>3. file' = [file EXCEPT !.kind = "ok", !.list = new]
    BY <1>3, <2>1
  <2> HIDE DEF new
  <2>4. file' \in Stores /\ file'.list = new
    BY <1>1, <1>2, <2>2, <2>3 DEF Stores, Missing, Lists
  <2>5. IdsOf(file'.list) = {s.id : s \in new}
    BY <2>2, <2>4, ListIsNotAbsent DEF IdsOf
  <2>6. QED
    BY <1>1, <1>2, <1>3, <2>1, <2>2, <2>4, <2>5
<1>5. CASE \E r \in list :
              /\ Put([file EXCEPT !.list = list \ {r}])
              /\ deleted' = deleted \cup {r.id}
  <2>1. PICK r \in list :
              /\ Put([file EXCEPT !.list = list \ {r}])
              /\ deleted' = deleted \cup {r.id}
    BY <1>5
  <2> DEFINE new == list \ {r}
  <2>2. new \in SUBSET Records /\ {s.id : s \in list} \subseteq {s.id : s \in new} \cup {r.id}
    BY <1>2
  <2>3. file' = [file EXCEPT !.list = new] /\ file.kind = "ok"
    BY <1>1, <1>3, <2>1 DEF RecordsOf, Missing, Stores
  <2>4. r.id \in Ids
    BY <1>2 DEF Records
  <2> HIDE DEF new
  <2>5. file \in Stores
    BY <1>1, <2>3 DEF Missing
  <2>6. file' \in Stores /\ file'.list = new
    BY <2>2, <2>3, <2>5 DEF Stores, Lists
  <2>7. IdsOf(file'.list) = {s.id : s \in new}
    BY <2>2, <2>6, ListIsNotAbsent DEF IdsOf
  <2>8. QED
    BY <1>1, <1>2, <1>3, <2>1, <2>2, <2>4, <2>6, <2>7
<1>6. CASE Put([file EXCEPT !.kind = "ok", !.timer = "new"]) /\ UNCHANGED deleted
  <2>1. file' = [file EXCEPT !.kind = "ok", !.timer = "new"]
    BY <1>3, <1>6
  <2>2. file' \in Stores /\ file'.list = file.list
    BY <1>1, <1>2, <2>1 DEF Stores, Missing, Timers
  <2>3. QED
    BY <1>1, <1>3, <1>6, <2>2
<1>7. QED
  BY <1>4, <1>5, <1>6 DEF Save

LEMMA SaveKeeps == ASSUME IInv, NEW p \in Programs, Save(p) PROVE IInv'
<1>1. /\ file' \in Stores /\ Put(file')
      /\ deleted \subseteq deleted' /\ deleted' \subseteq Ids
      /\ IdsOf(file.list) \subseteq IdsOf(file'.list) \cup deleted'
  BY SaveKeepsIds
<1>2. UNCHANGED <<legacy, done, prog, harm>> /\ Overtake(p) /\ Ready(p)
  BY DEF Save
<1>3. TypeOK'
  <2>1. writes' \in 0..MaxWrites
    <3>1. writes < MaxWrites /\ writes' = writes + 1
      BY DEF Save
    <3>2. writes \in 0..MaxWrites /\ MaxWrites \in Nat
      BY StartupAssumption DEF IInv, TypeOK
    <3>3. QED
      BY <3>1, <3>2
  <2>2. backup' \in Stores \cup {Absent}
    BY <1>1, PutTypes DEF IInv
  <2>3. overtaken' \subseteq Programs
    BY <1>2 DEF Overtake, IInv, TypeOK
  <2>4. QED
    BY <1>1, <1>2, <2>1, <2>2, <2>3 DEF IInv, TypeOK
<1>4. \A q \in Programs \ {p} : Midst(q)'
  <2>1. SUFFICES ASSUME NEW q \in Programs \ {p} PROVE Midst(q)'
    OBVIOUS
  <2>2. /\ Midst(q) /\ prog'[q] = prog[q] /\ legacy'[q] = legacy[q]
        /\ q \in overtaken => q \in overtaken'
        /\ prog[q].pc \in Midway => q \in overtaken'
    BY <1>2 DEF IInv, Overtake, Midway
  <2>3. QED
    BY <1>1, <2>2, MidstStays
<1>5. Midst(p)'
  <2>1. /\ Midst(p) /\ prog'[p] = prog[p] /\ legacy'[p] = legacy[p] /\ prog[p].gate = "ready"
        /\ p \in overtaken => p \in overtaken'
    BY <1>2 DEF IInv, Overtake, Ready
  <2>2. StartsShut(p)' /\ HasPlan(p)' /\ SeesFile(p)'
    BY <2>1 DEF Midst, StartsShut, HasPlan, SeesFile
  <2>3. KeepsIds(p)'
    BY <1>1, <2>1 DEF Midst, KeepsIds
  <2>4. QED
    BY <2>2, <2>3 DEF Midst
<1>6. QED
  BY <1>3, <1>4, <1>5 DEF IInv

-----------------------------------------------------------------------------
LEMMA InitInv == Init => IInv
<1> SUFFICES ASSUME Init PROVE IInv
  OBVIOUS
<1>1. Outside(Closed)
  BY ClosedOutside
<1>2. prog \in [Programs -> Memories]
  BY <1>1 DEF Init, Outside
<1>3. TypeOK
  BY <1>2, StartupAssumption DEF Init, TypeOK
<1>4. ASSUME NEW p \in Programs PROVE Midst(p)
  <2>1. prog[p] = Closed
    BY DEF Init
  <2>2. QED
    BY <1>1, <2>1 DEF Outside, Midst, StartsShut, HasPlan, KeepsIds, SeesFile, Midway
<1>5. QED
  BY <1>3, <1>4 DEF IInv

LEMMA StepInv == IInv /\ [Next]_vars => IInv'
<1> SUFFICES ASSUME IInv, [Next]_vars PROVE IInv'
  OBVIOUS
<1>1. CASE UNCHANGED vars
  <2>1. TypeOK'
    BY <1>1 DEF vars, IInv, TypeOK
  <2>2. \A p \in Programs : Midst(p)'
    BY <1>1, MidstStays DEF vars, IInv
  <2>3. QED
    BY <2>1, <2>2 DEF IInv
<1>2. ASSUME NEW p \in Programs, Starting(p) PROVE IInv'
  <2>1. ASSUME RefuseMigration(p) \/ WriteOldFails(p) PROVE IInv'
    BY <2>1, FailedKeeps DEF RefuseMigration, WriteOldFails
  <2>2. QED
    BY <1>2, <2>1, FirstReadKeeps, SkipKeeps, PlanKeeps, CopyKeeps, WriteOldKeeps,
       VerifyKeeps, RereadKeeps DEF Starting
<1>3. ASSUME NEW p \in Programs,
             \/ Open(p) \/ Save(p) \/ Detect(p) \/ AddMissing(p)
             \/ Retry(p) \/ Recover(p) \/ StartEmpty(p) \/ Close(p)
      PROVE  IInv'
  BY <1>3, OpenKeeps, SaveKeeps, DetectKeeps, AddMissingKeeps, RetryKeeps, ScreenKeeps,
     CloseKeeps
<1>4. CASE Harm
  BY <1>4, HarmKeeps
<1>5. QED
  BY <1>1, <1>2, <1>3, <1>4 DEF Next

(* Every variable has its type: a program's memory above all, whatever     *)
(* fails while it starts.                                                  *)
THEOREM TypeCorrect == Spec => []TypeOK
<1>1. IInv => TypeOK
  BY DEF IInv
<1>2. QED
  BY InitInv, StepInv, <1>1, PTL DEF Spec

-----------------------------------------------------------------------------
(* What the flag says when it is set.                                      *)
CarriedOver(p) ==
    /\ ~legacy[p].broken
    /\ \A r \in legacy[p].list : r.id \in IdsOf(file.list) \cup deleted

LEMMA ConcludeIsComplete ==
    ASSUME IInv, NEW p \in Programs, NEW m \in Memories, NEW wrote \in BOOLEAN,
           Conclude(p, m, wrote), done' # done,
           m.plan = PlanOf(legacy[p], m),
           \A r \in m.plan.expected : r.id \in IdsOf(file.list) \cup deleted,
           IdsOf(m.target.list) \subseteq IdsOf(file.list) \cup deleted
    PROVE  CarriedOver(p)
<1> DEFINE lacked == IF m.job = "start" THEN LackedBy(legacy[p], m.target) ELSE {}
<1>1. done' = IF Complete(p, lacked) THEN done \cup {p} ELSE done
  BY Zenon DEF Conclude
<1> HIDE DEF lacked
<1>2. Complete(p, lacked)
  BY <1>1
<1>3. ~legacy[p].broken /\ (m.job = "start" => LackedBy(legacy[p], m.target) = {})
  BY <1>2 DEF Complete, lacked
<1>4. \A r \in legacy[p].list : r \in m.plan.expected \/ r.id \in IdsOf(m.target.list)
  BY <1>3, InMemory, PlanCovers
<1>5. QED
  BY <1>3, <1>4 DEF CarriedOver

LEMMA ConcludeSetsOwnFlag ==
    ASSUME NEW p, NEW m, NEW wrote, Conclude(p, m, wrote)
    PROVE  done' \ done \subseteq {p}
<1> DEFINE lacked == IF m.job = "start" THEN LackedBy(legacy[p], m.target) ELSE {}
<1>1. done' = IF Complete(p, lacked) THEN done \cup {p} ELSE done
  BY Zenon DEF Conclude
<1> HIDE DEF lacked
<1>2. QED
  BY <1>1

LEMMA FlagIsHonest ==
    ASSUME IInv, [Next]_vars, NEW p \in done' \ done, p \notin overtaken
    PROVE  CarriedOver(p)
<1>1. PICK q \in Programs : SkipMigration(q) \/ PlanMigration(q) \/ Verify(q)
  BY DEF Next, vars, Open, Starting, FirstRead, RefuseMigration, Copy, WriteOld, WriteOldFails,
         Reread, Save, Detect, AddMissing, Retry, Recover, StartEmpty, Close, Harm
<1>2. CASE SkipMigration(q)
  <2>1. p = q /\ p \notin done
    BY <1>2 DEF SkipMigration
  <2>2. legacy[p].list = {} /\ ~legacy[p].broken
    BY <1>2, <2>1 DEF SkipMigration, NoNeed, NothingOld
  <2>3. QED
    BY <2>2 DEF CarriedOver
<1>3. CASE PlanMigration(q)
  <2> DEFINE known == WithFile(q)
  <2>1. /\ known \in Memories /\ known.target = file
        /\ known.plan = PlanOf(legacy[q], known) /\ legacy[q] \in Legacies
        /\ known.plan = PlanOfFile(q)
    BY <1>1, <1>3, WithFileIs, InMemory
  <2>2. ~Writes(PlanOfFile(q)) /\ Conclude(q, known, FALSE)
    BY <1>3 DEF PlanMigration, PlanOfFile, WithFile
  <2> HIDE DEF known
  <2>3. known.plan.expected = {}
    BY <2>1, <2>2, IdlePlanExpectsNothing
  <2>4. p = q
    BY <2>2, ConcludeSetsOwnFlag
  <2>5. CarriedOver(q)
    BY <1>1, <2>1, <2>2, <2>3, ConcludeIsComplete
  <2>6. QED
    BY <2>4, <2>5
<1>4. CASE Verify(q)
  <2>1. Verified(prog[q].plan) /\ Conclude(q, prog[q], TRUE) /\ prog[q].pc = "verify"
    BY <1>4 DEF Verify
  <2>2. p = q
    BY <2>1, ConcludeSetsOwnFlag
  <2>3. /\ prog[q].plan = PlanOf(legacy[q], prog[q])
        /\ IdsOf(prog[q].target.list) \subseteq IdsOf(file.list) \cup deleted
    BY <1>1, <2>1, <2>2 DEF IInv, Midst, HasPlan, KeepsIds, Midway
  <2>4. \A r \in prog[q].plan.expected : r.id \in IdsOf(file.list)
    BY <2>1 DEF Verified, RecordsOf, IdsOf
  <2>5. CarriedOver(q)
    BY <1>1, <2>1, <2>3, <2>4, InMemory, ConcludeIsComplete
  <2>6. QED
    BY <2>2, <2>5
<1>5. QED
  BY <1>1, <1>2, <1>3, <1>4

(* The flag is set only once every old record has been in the file:        *)
(* finishing a migration (legacy-migration.ts) never leaves one behind     *)
(* that nobody would look for again.                                       *)
THEOREM FlagMeansCarriedOver == Spec => DoneIsComplete
<1>1. IInv /\ [Next]_vars =>
        [\A p \in done' \ done : p \notin overtaken =>
            /\ ~legacy[p].broken
            /\ \A r \in legacy[p].list : r.id \in IdsOf(file.list) \cup deleted]_vars
  BY FlagIsHonest DEF CarriedOver
<1>2. QED
  BY InitInv, StepInv, <1>1, PTL DEF Spec, DoneIsComplete

(* A start writes a list only where the file has none (plan, in            *)
(* legacy-migration.ts), so it brings back nothing that a user deleted.    *)
THEOREM StartBringsNothingBack == Spec => DeletedStaysDeleted
<1>1. ASSUME IInv, NEW p \in Programs, WriteOld(p), prog[p].job = "start", p \notin overtaken
      PROVE  file.list = Absent \/ IdsOf(file'.list) \cap deleted \subseteq IdsOf(file.list)
  <2>1. file = prog[p].target
    BY <1>1 DEF IInv, Midst, SeesFile, WriteOld
  <2>2. /\ file'.list = IF prog[p].plan.list = Absent THEN file.list ELSE prog[p].plan.list
        /\ prog[p].plan = PlanFor(legacy[p], prog[p].target)
    BY <1>1, CarriedIs DEF PlanOf
  <2>3. file.list # Absent => file'.list = file.list
    BY <2>1, <2>2 DEF PlanFor
  <2>4. QED
    BY <2>3
<1>2. IInv /\ [Next]_vars =>
        [\A p \in Programs : WriteOld(p) /\ prog[p].job = "start" /\ p \notin overtaken =>
            \/ file.list = Absent
            \/ IdsOf(file'.list) \cap deleted \subseteq IdsOf(file.list)]_vars
  BY <1>1
<1>3. QED
  BY InitInv, StepInv, <1>2, PTL DEF Spec, DeletedStaysDeleted
=============================================================================
