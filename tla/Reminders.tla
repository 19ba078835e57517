----------------------------- MODULE Reminders -----------------------------
(***************************************************************************)
(* Reminders, told by the windows (runReminderCheck in notifications.ts)   *)
(* and by the agent (tick in agent/src/main.rs), who keep each other from  *)
(* repeating what was said through one value of the data file,             *)
(* notificationsSent: for each kind of reminder the day it was last given. *)
(*                                                                         *)
(* A window decides on its copy, speaks, and then sends its whole copy     *)
(* with what it has said marked in it.  The agent decides on a snapshot of *)
(* the file, speaks, and marks one kind in the file as it then is.         *)
(*                                                                         *)
(* The wait before a reminder adapts to the user's habit.  The silence     *)
(* after three ignored reminders does not come up in the days of one walk, *)
(* and of the kinds that only windows give, none depends on anybody else.  *)
(***************************************************************************)
EXTENDS ReminderRules, Sequences, FiniteSets

CONSTANTS
    Windows, Nothing, MaxInFlight,
    Calendar,       \* the kind of each day, the days in order
    Moments,        \* the times of day at which anything happens
    Starts,         \* the two sedarim's starts
    Habit,          \* how many minutes late the user usually comes
    WeakDays,       \* the days of the weekday that most often falls short
    PhoneAt,        \* when the report is asked for
    Popups          \* popups are on in the windows: they always carry

Days == DOMAIN Calendar
Kinds == {"daily-reminder", "bg-seder-1", "bg-seder-2", "phone-report"}
Marks == [Kinds -> 0..Len(Calendar)]
NoMarks == [k \in Kinds |-> 0]

ASSUME ReminderAssumption ==
    /\ Calendar \in Seq(DayKinds) /\ Calendar # <<>>
    /\ Moments \subseteq Nat /\ 0 \in Moments /\ IsFiniteSet(Moments)
    /\ Starts \in [1..2 -> Nat] /\ Habit \in Int /\ PhoneAt \in Nat
    /\ WeakDays \subseteq DOMAIN Calendar /\ Popups \in BOOLEAN
    /\ MaxInFlight \in Nat /\ Nothing \notin Marks

VARIABLES
    file, mem, own, ready, seen, saves, poll,   \* the marks: SharedState
    day, minute,    \* the clock
    recorded,       \* the sedarim that have an entry for this day
    reported,       \* last month was reported by phone
    check,          \* what each window is in the middle of saying
    agent,          \* the agent
    said,           \* history: the things said on this day
    excuse          \* history: why it may have been said again on this day

marks == <<file, mem, own, ready, seen, saves, poll>>
world == <<day, minute, recorded, reported>>
vars  == <<marks, world, check, agent, said, excuse>>

Shared == INSTANCE SharedState
    WITH Values <- Marks, Legacies <- {Nothing}

(* The daily reminder and the agent's about seder 1 are one thing to hear. *)
Topic(kind) == IF kind = "daily-reminder" THEN "bg-seder-1" ELSE kind
Topics == {Topic(k) : k \in Kinds}
Due(kind, due) == IF kind \in due THEN <<kind>> ELSE <<>>
InOrder(due) == Due("daily-reminder", due) \o Due("bg-seder-1", due)
                    \o Due("bg-seder-2", due) \o Due("phone-report", due)

NoCheck == [at |-> "idle", day |-> 0, left |-> <<>>, told |-> {}]
NoSnapshot == [day |-> 0, row |-> NoRow, recorded |-> {}, reported |-> FALSE, sent |-> NoMarks]
Stopped == [at |-> "stopped", known |-> FALSE, snapshot |-> NoSnapshot,
            day |-> 0, left |-> <<>>]

Grace(d) == GraceMinutes(Habit, d \in WeakDays)
Row(d) == PlanRow(Calendar[d], Starts, Grace(d))
MarksOf(value) == IF value = Nothing THEN NoMarks ELSE value

Checks == [at : {"idle", "telling"}, day : 0..Len(Calendar),
           left : Seq(Kinds), told : SUBSET Kinds]
Snapshots == [day : 0..Len(Calendar), row : {NoRow} \cup {Row(d) : d \in Days},
              recorded : SUBSET {1, 2}, reported : BOOLEAN, sent : Marks]
Agents == [at : {"stopped", "asleep", "telling", "marking"}, known : BOOLEAN,
           snapshot : Snapshots, day : 0..Len(Calendar), left : Seq(Kinds)]

TypeOK ==
    /\ Shared!SharedType
    /\ day \in Days /\ minute \in Moments
    /\ recorded \subseteq {1, 2} /\ reported \in BOOLEAN
    /\ check \in [Windows -> Checks]
    /\ agent \in Agents
    /\ said \subseteq Topics
    /\ excuse \in BOOLEAN

Init ==
    /\ file = Nothing /\ mem = [w \in Windows |-> NoMarks]
    /\ Shared!Init
    /\ day = 1 /\ minute = 0 /\ recorded = {} /\ reported = FALSE
    /\ check = [w \in Windows |-> NoCheck]
    /\ agent = Stopped
    /\ said = {}
    /\ excuse = FALSE

-----------------------------------------------------------------------------
(* The marks as one value of the file.  Every write moves the agent's      *)
(* stamp as well.                                                          *)
Unsettled(w) ==     \* what it decides on, or marks, may not be the file
    \/ check[w] # NoCheck \/ Shared!InFlight(w) # {}
AgentBusy == agent.at \in {"telling", "marking"}
StampMoves == agent' = [agent EXCEPT !.known = FALSE]

Carried(w) ==
    /\ \E n \in 1..MaxInFlight : Shared!Write(w, n)
    /\ StampMoves
    /\ UNCHANGED <<world, check, said, excuse>>

MarkIsLost(w) ==
    /\ \E n \in 1..MaxInFlight : Shared!Fail(w, n)
    /\ excuse' = TRUE
    /\ UNCHANGED <<world, check, agent, said>>

Polling(w) ==
    /\ Shared!Sync(w)
    /\ UNCHANGED <<world, check, agent, said, excuse>>

Close(w) ==
    /\ Shared!Reopen(w)
    /\ check' = [check EXCEPT ![w] = NoCheck]
    /\ excuse' = (excuse \/ Unsettled(w))
    /\ UNCHANGED <<world, agent, said>>

-----------------------------------------------------------------------------
(* A window.                                                               *)
WindowFacts(w) ==
    [popups |-> Popups, desktop |-> TRUE, daily |-> TRUE, phone |-> TRUE,
     dayKind |-> Calendar[day], recorded |-> recorded, reported |-> reported,
     sent |-> mem[w], today |-> day, dayOfMonth |-> day, minute |-> minute,
     start |-> Starts[1], grace |-> Grace(day), phoneAt |-> PhoneAt,
     pressing |-> {}, period |-> NoMarks]

Say(kind) == said' = said \cup {Topic(kind)}

Behind(w) ==        \* its copy is older than the file, or a read under way makes it so
    \/ mem[w] # MarksOf(file)
    \/ poll[w].at = "loaded" /\ poll[w].got \notin {Nothing, file}

(* collectFacts and decideNotifications.  If the copy is behind the file,  *)
(* or somebody else is speaking or marking, a word may come twice.         *)
StartCheck(w) ==
    /\ check[w] = NoCheck /\ w \in ready
    /\ \E facts \in {WindowFacts(w)} :
       LET due == InOrder(WindowDue(facts)) IN
          /\ due # <<>>
          /\ check' = [check EXCEPT ![w] =
                [at |-> "telling", day |-> day, left |-> due, told |-> {}]]
    /\ excuse' = (excuse \/ AgentBusy \/ Behind(w) \/ \E v \in Windows : Unsettled(v))
    /\ UNCHANGED <<marks, world, agent, said>>

(* announce: a popup always carries, the desktop alone may not.            *)
Told(w, kind) ==
    /\ check[w].left # <<>> /\ Head(check[w].left) = kind
    /\ \E carried \in IF Popups THEN {TRUE} ELSE BOOLEAN :
          /\ check' = [check EXCEPT ![w].left = Tail(@),
                                   ![w].told = IF carried THEN @ \cup {kind} ELSE @]
          /\ IF carried THEN Say(kind) ELSE UNCHANGED said
    /\ UNCHANGED <<marks, world, agent, excuse>>

(* What was said is marked in the copy as it is now, which is sent whole.  *)
Marked(w) == [k \in Kinds |-> IF k \in check[w].told THEN check[w].day ELSE mem[w][k]]
EndCheck(w) ==
    /\ check[w].at = "telling" /\ check[w].left = <<>>
    /\ IF check[w].told = {} THEN UNCHANGED marks ELSE Shared!Set(w, Marked(w))
    /\ check' = [check EXCEPT ![w] = NoCheck]
    /\ UNCHANGED <<world, agent, said, excuse>>

-----------------------------------------------------------------------------
(* The agent.                                                              *)
AgentStarts ==
    /\ agent.at = "stopped"
    /\ agent' = [Stopped EXCEPT !.at = "asleep"]
    /\ UNCHANGED <<marks, world, check, said, excuse>>

(* It stops, or the machine does, with something said and not marked.      *)
AgentDies ==
    /\ agent.at # "stopped"
    /\ agent' = Stopped
    /\ excuse' = (excuse \/ agent.at = "marking")
    /\ UNCHANGED <<marks, world, check, said>>

ReadSnapshot ==
    [day |-> day, row |-> Row(day), recorded |-> recorded, reported |-> reported,
     sent |-> MarksOf(file)]
(* Mutant of Current: a snapshot survives midnight.                        *)
CurrentAnyDay == agent.snapshot # NoSnapshot /\ agent.known

Current == agent.snapshot # NoSnapshot /\ agent.known /\ agent.snapshot.day = day

AgentFacts(s) ==
    [desktop |-> TRUE, daily |-> TRUE, phone |-> TRUE,
     row |-> s.row, recorded |-> s.recorded, reported |-> s.reported, sent |-> s.sent,
     today |-> day, dayOfMonth |-> day, minute |-> minute, phoneAt |-> PhoneAt]

(* The minute's tick.  The file is read again when its stamp has moved or  *)
(* the day has changed; the stamp is older than what is read, so a write   *)
(* in between is read again by the next tick.  A tick whose read fails     *)
(* changes nothing and says nothing.                                       *)
AgentTick ==
    /\ agent.at = "asleep"
    /\ \E known \in IF Current THEN {TRUE} ELSE BOOLEAN,
          snapshot \in {IF Current THEN agent.snapshot ELSE ReadSnapshot} :
       LET due == InOrder(AgentDue(AgentFacts(snapshot)))
       IN  /\ agent' = [at |-> IF due = <<>> THEN "asleep" ELSE "telling", known |-> known,
                        snapshot |-> snapshot, day |-> day, left |-> due]
           /\ excuse' = (excuse \/ (due # <<>> /\ \E w \in Windows : Unsettled(w)))
    /\ UNCHANGED <<marks, world, check, said>>

Rest(left) == IF left = <<>> THEN "asleep" ELSE "telling"

Shown(kind) ==
    /\ agent.at = "telling" /\ Head(agent.left) = kind
    /\ Say(kind)
    /\ agent' = [agent EXCEPT !.at = "marking", !.snapshot.sent[kind] = agent.day]
    /\ UNCHANGED <<marks, world, check, excuse>>

(* Mutant of ShowFails: a toast that failed is remembered as shown.        *)
ShowFailsSilently ==
    /\ agent.at = "telling"
    /\ agent' = [agent EXCEPT !.at = Rest(Tail(agent.left)), !.left = Tail(@),
                             !.snapshot.sent[Head(agent.left)] = agent.day]
    /\ UNCHANGED <<marks, world, check, said, excuse>>

(* A toast that cannot be shown is not marked: the next tick tries again.  *)
ShowFails ==
    /\ agent.at = "telling"
    /\ agent' = [agent EXCEPT !.at = Rest(Tail(agent.left)), !.left = Tail(@)]
    /\ UNCHANGED <<marks, world, check, said, excuse>>

(* update_key: the kind's mark alone, in the file as it is, under the lock.*)
Mark ==
    /\ agent.at = "marking"
    /\ LET kind == Head(agent.left)
           next == [MarksOf(file) EXCEPT ![kind] = agent.day]
           left == Tail(agent.left) IN
       \/ /\ next # file
          /\ file' = next
          /\ Shared!StampMoves
          /\ agent' = [agent EXCEPT !.at = Rest(left), !.left = left, !.known = FALSE]
          /\ UNCHANGED <<mem, own, ready, saves, excuse>>
       \/ /\ next = file
          /\ agent' = [agent EXCEPT !.at = Rest(left), !.left = left]
          /\ UNCHANGED <<marks, excuse>>
       \/ /\ agent' = [agent EXCEPT !.at = Rest(left), !.left = left]    \* it fails
          /\ excuse' = TRUE
          /\ UNCHANGED marks
    /\ UNCHANGED <<world, check, said>>

-----------------------------------------------------------------------------
(* The user and the clock.                                                 *)

Held == {s \in 1..2 : Row(day).at[s] # Never}     \* the sedarim there are today

(* An entry for today or the report, from any program: writes of other     *)
(* keys.                                                                   *)
Record ==
    /\ \/ /\ \E s \in Held \ recorded : recorded' = recorded \cup {s}
          /\ UNCHANGED reported
       \/ ~reported /\ reported' = TRUE /\ UNCHANGED recorded
    /\ Shared!WriteOtherKey
    /\ StampMoves
    /\ UNCHANGED <<day, minute, check, said, excuse>>

(* Between a tick and its last toast lie milliseconds: the clock waits.    *)
Clock ==
    /\ ~AgentBusy /\ \A w \in Windows : check[w] = NoCheck
    /\ \/ /\ \E m \in Moments : m > minute /\ minute' = m
          /\ UNCHANGED <<day, recorded, said, excuse>>
       \/ /\ day < Len(Calendar)
          /\ day' = day + 1 /\ minute' = 0 /\ recorded' = {}
          /\ said' = {}
          /\ excuse' = \E w \in Windows : Unsettled(w) \/ mem[w] # MarksOf(file)
    /\ UNCHANGED <<marks, reported, check, agent>>

WindowSteps(w) ==
    \/ Carried(w) \/ MarkIsLost(w) \/ Polling(w) \/ Close(w)
    \/ StartCheck(w) \/ (\E k \in Kinds : Told(w, k)) \/ EndCheck(w)
Next ==
    \/ \E w \in Windows : WindowSteps(w)
    \/ AgentStarts \/ AgentDies \/ AgentTick \/ (\E k \in Kinds : Shown(k)) \/ ShowFails \/ Mark
    \/ Record \/ Clock

(* The agent is started at every login, ticks every minute, and Windows    *)
(* shows toasts again some time.  Nothing forces a window to be open.      *)
Spec == /\ Init /\ [][Next]_vars
        /\ WF_vars(AgentStarts) /\ SF_vars(AgentTick) /\ WF_vars(Mark)
        /\ \A k \in Kinds : SF_vars(Shown(k))

-----------------------------------------------------------------------------
(* Nothing is said twice on one day, unless a mark failed, a program ended *)
(* before its mark, or two spoke so close together that one decided before *)
(* the other's mark had reached it (the header of notifications.ts has no  *)
(* "unless").  It relates three copies of the marks: the file's, a         *)
(* window's and the agent's.                                               *)
Repeated(kind) ==
    /\ Topic(kind) \in said
    /\ Shown(kind) \/ \E w \in Windows : Told(w, kind)
OncePerPeriod == [][\A k \in Kinds : Repeated(k) => excuse]_vars

(* Unless a mark failed, a window at rest has the file's marks: answers,   *)
(* polls and the agent's writes do not leave it with older ones.           *)
MarksAreCurrent == excuse \/ Shared!SettledShowsFile

(* What the agent makes up its mind to say is right at that minute: the    *)
(* seder is today's, has begun, and has no entry; the report is not made;  *)
(* on Shabbat and Yom Tov nothing is said, whatever it remembers from the  *)
(* day before.                                                             *)
AgentIsRight ==
    [][agent.at = "asleep" /\ agent'.at = "telling" =>
         /\ Calendar[day] # "quiet"
         /\ \A n \in 1..2 : BgKind[n] \in {agent'.left[i] : i \in DOMAIN agent'.left} =>
               n \notin recorded /\ minute >= Starts[n] + Grace(day)
         /\ "phone-report" \in {agent'.left[i] : i \in DOMAIN agent'.left} => ~reported]_vars

(* A learning morning without an entry is mentioned in the end, by the     *)
(* agent if by nobody else, unless an entry is made or the day is over.    *)
Owed ==
    /\ Row(day).at[1] # Never /\ minute >= Row(day).at[1]
    /\ 1 \notin recorded /\ "bg-seder-1" \notin said
MorningIsMentioned == Owed ~> ~Owed
=============================================================================
