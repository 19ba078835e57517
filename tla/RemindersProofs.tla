--------------------------- MODULE RemindersProofs ---------------------------
(***************************************************************************)
(* Reminders are not repeated, for any number of windows and saves in      *)
(* flight, any calendar, clock and habit, and polls, answers and deaths in *)
(* any order.                                                              *)
(*                                                                         *)
(* Who makes up its mind sees, unless excused, every mark of the day: so   *)
(* the invariant says where the marks are while one of the programs is     *)
(* speaking (nobody else is), and that what a program takes for current    *)
(* is what the file has.                                                   *)
(***************************************************************************)
EXTENDS Reminders, TLAPS

(* What holds whoever speaks: who is speaking has the file's marks, the    *)
(* day and the stamps right.                                               *)
AgentSane ==
    /\ AgentBusy => agent.left # <<>> /\ agent.day = day
    /\ agent.snapshot.day <= day
    /\ agent.snapshot.day # 0 => agent.snapshot.row = Row(agent.snapshot.day)

WindowSane(w) ==
    /\ check[w].at = "idle" => check[w] = NoCheck
    /\ check[w] # NoCheck => w \in ready /\ check[w].day = day
    /\ poll[w].at = "loaded" /\ poll[w].fresh => poll[w].got = file

(* What the agent still takes for current is: the entries, the report, and *)
(* of today's marks at least the file's.                                   *)
MarkedToday(value, kind) == value[kind] = day
AgentKnows ==
    agent.known /\ agent.snapshot.day = day =>
        /\ agent.snapshot.recorded = recorded
        /\ agent.snapshot.reported = reported
        /\ \A k \in Kinds : MarkedToday(MarksOf(file), k) => MarkedToday(agent.snapshot.sent, k)

SaneInv == AgentSane /\ AgentKnows /\ \A w \in Windows : WindowSane(w)

SeenIsShown ==
    \A w \in Windows : w \in seen /\ Shared!InFlight(w) = {} => Shared!ShowsFile(w)

(* At most one speaks at a time, and what was said is marked where the     *)
(* next one to speak will look, or in what is on its way there.            *)
HeardIn(value, topic) == \E k \in Kinds : Topic(k) = topic /\ MarkedToday(value, k)
Heard(value, topics) == \A t \in topics : HeardIn(value, t)
Unsaid(left, topics) ==
    /\ \A i \in 1..Len(left) : Topic(left[i]) \notin topics
    /\ \A i, j \in 1..Len(left) : Topic(left[i]) = Topic(left[j]) => i = j

Settled(W) == \A v \in W : ~Unsettled(v)
Silence == ~AgentBusy /\ Settled(Windows) /\ Heard(MarksOf(file), said)
AgentTells ==
    /\ agent.at = "telling" /\ Settled(Windows)
    /\ Heard(MarksOf(file), said) /\ Unsaid(agent.left, said)
AgentMarks ==
    /\ agent.at = "marking" /\ Settled(Windows)
    /\ Heard(MarksOf(file), said \ {Topic(Head(agent.left))})
    /\ Unsaid(Tail(agent.left), said)
ToldTopics(w) == {Topic(k) : k \in check[w].told}
WindowTells(w) ==
    /\ ~AgentBusy /\ Settled(Windows \ {w})
    /\ check[w] # NoCheck /\ Shared!InFlight(w) = {} /\ ~Behind(w)
    /\ Heard(MarksOf(file), said \ ToldTopics(w)) /\ Unsaid(check[w].left, said)
WindowMarks(w) ==
    /\ ~AgentBusy /\ Settled(Windows \ {w})
    /\ check[w] = NoCheck
    /\ \E n \in 1..MaxInFlight : Shared!InFlight(w) = {n} /\ Heard(saves[w][n].value, said)
OneSpeaks ==
    \/ Silence \/ AgentTells \/ AgentMarks
    \/ \E w \in Windows : WindowTells(w) \/ WindowMarks(w)

-----------------------------------------------------------------------------
(* Types.                                                                  *)

LEMMA CalendarIs == Len(Calendar) \in Nat \ {0} /\ Days = 1..Len(Calendar)
BY ReminderAssumption DEF Days

LEMMA MarksAre ==
    /\ NoMarks \in Marks
    /\ file \in Marks \cup {Nothing} => MarksOf(file) \in Marks
BY CalendarIs DEF NoMarks, Marks, MarksOf

(* Once each, and only what is due.                                        *)
Once(left, due) ==
    /\ left \in Seq(due)
    /\ \A i, j \in 1..Len(left) : left[i] = left[j] => i = j

LEMMA OnceEach ==
    ASSUME NEW s, NEW t, NEW S, NEW T, Once(s, S), Once(t, T), S \cap T = {}
    PROVE  Once(s \o t, S \cup T)
<1>1. s \in Seq(S \cup T) /\ t \in Seq(S \cup T) BY DEF Once
<1>2. /\ s \o t \in Seq(S \cup T) /\ Len(s \o t) = Len(s) + Len(t)
      /\ Len(s) \in Nat /\ Len(t) \in Nat
  BY <1>1
<1>3. \A i \in 1..Len(s) : (s \o t)[i] = s[i] /\ s[i] \in S BY <1>1 DEF Once
<1>4. \A i \in 1..Len(s) + Len(t) : i \notin 1..Len(s) =>
        /\ (s \o t)[i] = t[i - Len(s)] /\ i - Len(s) \in 1..Len(t)
        /\ t[i - Len(s)] \in T
  BY <1>1, <1>2 DEF Once
<1>5. ASSUME NEW i \in 1..Len(s \o t), NEW j \in 1..Len(s \o t), (s \o t)[i] = (s \o t)[j]
      PROVE  i = j
  <2>1. CASE i \in 1..Len(s) /\ j \in 1..Len(s) BY <1>3, <1>5, <2>1 DEF Once
  <2>2. CASE i \in 1..Len(s) /\ j \notin 1..Len(s) BY <1>2, <1>3, <1>4, <1>5, <2>2
  <2>3. CASE i \notin 1..Len(s) /\ j \in 1..Len(s) BY <1>2, <1>3, <1>4, <1>5, <2>3
  <2>4. CASE i \notin 1..Len(s) /\ j \notin 1..Len(s)
    <3>1. i - Len(s) = j - Len(s) BY <1>2, <1>4, <1>5, <2>4 DEF Once
    <3> QED BY <1>2, <3>1
  <2> QED BY <2>1, <2>2, <2>3, <2>4
<1> QED BY <1>2, <1>5 DEF Once

LEMMA InOrderIs ==
    ASSUME NEW due
    PROVE  InOrder(due) \in Seq(Kinds) /\ Once(InOrder(due), Kinds \cap due)
<1>1. ASSUME NEW k PROVE Once(Due(k, due), {k} \cap due)
  <2>1. CASE k \in due
    <3>1. Due(k, due) = <<k>> /\ k \in {k} \cap due BY <2>1 DEF Due
    <3> QED BY <3>1 DEF Once
  <2>2. CASE k \notin due
    <3>1. Due(k, due) = <<>> BY <2>2 DEF Due
    <3> QED BY <3>1 DEF Once
  <2> QED BY <2>1, <2>2
<1> DEFINE d == Due("daily-reminder", due)  b == Due("bg-seder-1", due)
           c == Due("bg-seder-2", due)      p == Due("phone-report", due)
<1>2. Once(d \o b, ({"daily-reminder"} \cap due) \cup ({"bg-seder-1"} \cap due))
  BY <1>1, OnceEach
<1>3. Once(d \o b \o c, ({"daily-reminder"} \cap due) \cup ({"bg-seder-1"} \cap due)
                            \cup ({"bg-seder-2"} \cap due))
  BY <1>1, <1>2, OnceEach
<1>4. Once(d \o b \o c \o p, ({"daily-reminder"} \cap due) \cup ({"bg-seder-1"} \cap due)
                            \cup ({"bg-seder-2"} \cap due) \cup ({"phone-report"} \cap due))
  <2>1. Once(p, {"phone-report"} \cap due) BY <1>1
  <2> HIDE DEF d, b, c, p
  <2> QED BY <2>1, <1>3, OnceEach
<1>5. Once(InOrder(due), Kinds \cap due)
  <2>1. ({"daily-reminder"} \cap due) \cup ({"bg-seder-1"} \cap due)
            \cup ({"bg-seder-2"} \cap due) \cup ({"phone-report"} \cap due) = Kinds \cap due
    BY DEF Kinds
  <2> QED BY <1>4, <2>1 DEF InOrder
<1>6. InOrder(due) \in Seq(Kinds) BY <1>5 DEF Once
<1> QED BY <1>5, <1>6

LEMMA NumberIs == /\ Shared!Numbers = 1..MaxInFlight /\ MaxInFlight \in Nat
                  /\ \A w : Shared!InFlight(w) = {n \in 1..MaxInFlight : saves[w][n] # Shared!NoSave}
BY ReminderAssumption DEF Shared!Numbers, Shared!InFlight

(* A save is told from no save by its fields.                              *)
LEMMA SaveIsOne == \A s \in Shared!Saves : s # Shared!NoSave
<1> SUFFICES ASSUME NEW s \in Shared!Saves, s = Shared!NoSave PROVE FALSE OBVIOUS
<1>1. "undo" \in DOMAIN s /\ "undo" \notin DOMAIN Shared!NoSave
  BY DEF Shared!Saves, Shared!NoSave
<1> QED BY <1>1

(* What is forgotten of a save is that it is there.                        *)
LEMMA ForgetIs ==
    ASSUME TypeOK, NEW w \in Windows, NEW n \in 1..MaxInFlight
    PROVE  /\ Shared!Forget(w, n) \in [1..MaxInFlight -> Shared!Saves \cup {Shared!NoSave}]
           /\ \A m \in 1..MaxInFlight :
                 Shared!Forget(w, n)[m] # Shared!NoSave <=> m # n /\ saves[w][m] # Shared!NoSave
<1>1. saves[w] \in [1..MaxInFlight -> Shared!Saves \cup {Shared!NoSave}]
  BY NumberIs DEF TypeOK, Shared!SharedType
<1> SUFFICES ASSUME NEW m \in 1..MaxInFlight
             PROVE  /\ Shared!Forget(w, n)[m] \in Shared!Saves \cup {Shared!NoSave}
                    /\ Shared!Forget(w, n)[m] # Shared!NoSave
                          <=> m # n /\ saves[w][m] # Shared!NoSave
  BY NumberIs DEF Shared!Forget
<1>2. CASE m = n \/ saves[w][m] = Shared!NoSave
  BY <1>2, NumberIs DEF Shared!Forget
<1>3. CASE ~(m = n \/ saves[w][m] = Shared!NoSave)
  <2> DEFINE next == [saves[w][m] EXCEPT !.beforeOwn = IF @ = n THEN 0 ELSE @]
  <2>1. saves[w][m] \in Shared!Saves BY <1>1, <1>3
  <2>2. next \in Shared!Saves BY <2>1, NumberIs DEF Shared!Saves
  <2>3. Shared!Forget(w, n)[m] = next BY <1>3, NumberIs DEF Shared!Forget
  <2> HIDE DEF next
  <2> QED BY <1>3, <2>2, <2>3, SaveIsOne
<1> QED BY <1>2, <1>3

(* The stamp moves.                                                        *)
LEMMA StampsAre ==
    ASSUME TypeOK, Shared!StampMoves
    PROVE  /\ seen' = {} /\ poll' \in [Windows -> Shared!Polls]
           /\ \A v \in Windows : /\ ~poll'[v].fresh
                                 /\ poll'[v].at = poll[v].at /\ poll'[v].got = poll[v].got
<1>1. poll \in [Windows -> Shared!Polls] BY DEF TypeOK, Shared!SharedType
<1>2. seen' = {} /\ poll' = [v \in Windows |-> [poll[v] EXCEPT !.fresh = FALSE]]
  BY DEF Shared!StampMoves
<1>3. ASSUME NEW p \in Shared!Polls
      PROVE  LET q == [p EXCEPT !.fresh = FALSE] IN
             q \in Shared!Polls /\ ~q.fresh /\ q.at = p.at /\ q.got = p.got
  BY DEF Shared!Polls
<1> QED BY <1>1, <1>2, <1>3

(* A save is carried out.                                                  *)
LEMMA WriteIs ==
    ASSUME TypeOK, NEW w \in Windows, NEW n \in 1..MaxInFlight, Shared!Write(w, n)
    PROVE  /\ n \in Shared!InFlight(w) /\ file' = saves[w][n].value /\ file' \in Marks
           /\ Shared!InFlight(w)' = Shared!InFlight(w) \ {n}
           /\ \A v \in Windows : v # w => saves'[v] = saves[v]
           /\ mem' = mem /\ ready' = ready /\ Shared!StampMoves
           /\ Shared!SharedType'
<1>1. /\ saves \in [Windows -> [1..MaxInFlight -> Shared!Saves \cup {Shared!NoSave}]]
      /\ n \in Shared!InFlight(w) /\ saves[w][n] \in Shared!Saves
      /\ saves' = [saves EXCEPT ![w] = Shared!Forget(w, n)]
  BY NumberIs DEF TypeOK, Shared!SharedType, Shared!Write
<1>2. file' = saves[w][n].value /\ file' \in Marks
  BY <1>1 DEF Shared!Write, Shared!Saves
<1>4. /\ saves' \in [Windows -> [1..MaxInFlight -> Shared!Saves \cup {Shared!NoSave}]]
      /\ saves'[w] = Shared!Forget(w, n) /\ \A v \in Windows : v # w => saves'[v] = saves[v]
  BY <1>1, ForgetIs
<1>5. Shared!InFlight(w)' = Shared!InFlight(w) \ {n}
  BY <1>4, ForgetIs, NumberIs DEF Shared!InFlight, Shared!Numbers
<1>6. Shared!SharedType'
  <2>1. own' \in [Windows -> 0..MaxInFlight]
    BY NumberIs DEF TypeOK, Shared!SharedType, Shared!Write
  <2>2. poll' \in [Windows -> Shared!Polls] /\ seen' = {} BY StampsAre DEF Shared!Write
  <2> QED BY <1>2, <1>4, <2>1, <2>2, NumberIs DEF TypeOK, Shared!SharedType, Shared!Write
<1> QED BY <1>1, <1>2, <1>4, <1>5, <1>6 DEF Shared!Write

(* A save fails: its number is free again.                                 *)
LEMMA FailIs ==
    ASSUME TypeOK, NEW w \in Windows, NEW n \in 1..MaxInFlight, Shared!Fail(w, n)
    PROVE  Shared!SharedType' /\ UNCHANGED <<file, ready, seen, poll>>
<1>1. /\ saves \in [Windows -> [1..MaxInFlight -> Shared!Saves \cup {Shared!NoSave}]]
      /\ saves[w][n] \in Shared!Saves
  BY NumberIs DEF TypeOK, Shared!SharedType, Shared!Fail
<1>2. saves' \in [Windows -> [1..MaxInFlight -> Shared!Saves \cup {Shared!NoSave}]]
  BY <1>1, ForgetIs DEF Shared!Fail
<1>3. saves[w][n].before \in Marks /\ saves[w][n].beforeOwn \in 0..MaxInFlight
  BY <1>1 DEF Shared!Saves
<1>4. mem' \in [Windows -> Marks] /\ own' \in [Windows -> 0..MaxInFlight]
  BY <1>3 DEF TypeOK, Shared!SharedType, Shared!Fail
<1> QED BY <1>2, <1>4, NumberIs DEF TypeOK, Shared!SharedType, Shared!Fail

(* A window sends a copy with its marks.                                   *)
LEMMA SetIs ==
    ASSUME TypeOK, NEW w \in Windows, NEW value \in Marks, Shared!Set(w, value)
    PROVE  /\ \E n \in 1..MaxInFlight :
                 /\ Shared!InFlight(w)' = Shared!InFlight(w) \cup {n}
                 /\ saves'[w][n].value = value
           /\ \A v \in Windows : v # w => saves'[v] = saves[v] /\ mem'[v] = mem[v]
           /\ UNCHANGED <<file, ready, seen, poll>>
           /\ Shared!SharedType'
<1>1. /\ saves \in [Windows -> [1..MaxInFlight -> Shared!Saves \cup {Shared!NoSave}]]
      /\ mem[w] \in Marks /\ own[w] \in 0..MaxInFlight
  BY NumberIs DEF TypeOK, Shared!SharedType
<1>2. PICK n \in Shared!Free(w) :
        /\ saves' = [saves EXCEPT ![w][n] =
              [value |-> value, before |-> mem[w], beforeOwn |-> own[w], undo |-> TRUE]]
        /\ own' = [own EXCEPT ![w] = n]
  BY DEF Shared!Set
<1>3. n \in 1..MaxInFlight BY <1>2, NumberIs DEF Shared!Free
<1> DEFINE s == [value |-> value, before |-> mem[w], beforeOwn |-> own[w], undo |-> TRUE]
<1>4. s \in Shared!Saves /\ s.value = value BY <1>1 DEF Shared!Saves
<1>5. saves' = [saves EXCEPT ![w][n] = s] BY <1>2
<1> HIDE DEF s
<1>6. /\ saves' \in [Windows -> [1..MaxInFlight -> Shared!Saves \cup {Shared!NoSave}]]
      /\ \A v \in Windows : v # w => saves'[v] = saves[v]
      /\ saves'[w] = [saves[w] EXCEPT ![n] = s]
  BY <1>1, <1>3, <1>4, <1>5
<1>7. saves'[w][n] = s /\ \A m \in 1..MaxInFlight : m # n => saves'[w][m] = saves[w][m]
  BY <1>1, <1>3, <1>6
<1>8. Shared!InFlight(w)' = Shared!InFlight(w) \cup {n}
  BY <1>3, <1>4, <1>7, SaveIsOne, NumberIs DEF Shared!InFlight, Shared!Numbers
<1>9. Shared!SharedType'
  BY <1>2, <1>3, <1>6, NumberIs DEF TypeOK, Shared!SharedType, Shared!Set
<1> QED BY <1>3, <1>4, <1>6, <1>7, <1>8, <1>9 DEF TypeOK, Shared!SharedType, Shared!Set

(* A window starts again, with nothing in hand but its copy.               *)
LEMMA ReopenIs ==
    ASSUME TypeOK, NEW w \in Windows, Shared!Reopen(w)
    PROVE  /\ Shared!InFlight(w)' = {} /\ poll'[w] = Shared!NoPoll /\ w \notin seen'
           /\ \A v \in Windows : v # w =>
                 saves'[v] = saves[v] /\ poll'[v] = poll[v] /\ (v \in seen' <=> v \in seen)
                 /\ (v \in ready' <=> v \in ready)
           /\ UNCHANGED <<file, mem>>
           /\ Shared!SharedType'
<1>1. saves' = [saves EXCEPT ![w] = Shared!Idle] /\ poll' = [poll EXCEPT ![w] = Shared!NoPoll]
  BY DEF Shared!Reopen
<1>2. /\ Shared!Idle \in [1..MaxInFlight -> Shared!Saves \cup {Shared!NoSave}]
      /\ \A n \in 1..MaxInFlight : Shared!Idle[n] = Shared!NoSave
  BY NumberIs DEF Shared!Idle
<1>3. Shared!NoPoll \in Shared!Polls BY DEF Shared!NoPoll, Shared!Polls
<1>4. saves'[w] = Shared!Idle BY <1>1 DEF TypeOK, Shared!SharedType
<1>5. Shared!InFlight(w)' = {}
  BY <1>2, <1>4, NumberIs DEF Shared!InFlight, Shared!Numbers
<1>6. Shared!SharedType'
  BY <1>1, <1>2, <1>3, NumberIs DEF TypeOK, Shared!SharedType, Shared!Reopen
<1> QED BY <1>1, <1>5, <1>6 DEF TypeOK, Shared!SharedType, Shared!Reopen

(* A step of a poll or of a start.  The copy takes what was read, and the  *)
(* stamp is seen only if it was read before and is still the file's.       *)
Takes(w) ==
    \/ mem'[w] = mem[w] /\ (w \in seen' => w \in seen) /\ poll[w].at # "loaded"
    \/ /\ poll[w].at = "loaded" /\ poll' = [poll EXCEPT ![w] = Shared!NoPoll]
       /\ mem'[w] = IF poll[w].got = Nothing THEN mem[w] ELSE poll[w].got
       /\ w \in seen' => poll[w].fresh

LEMMA SyncIs ==
    ASSUME TypeOK, NEW w \in Windows, Shared!Sync(w)
    PROVE  /\ Takes(w)
           /\ poll'[w].at = "loaded" => poll'[w].got = file
           /\ \A v \in Windows : v # w =>
                 mem'[v] = mem[v] /\ poll'[v] = poll[v] /\ (v \in seen' <=> v \in seen)
           /\ ready \subseteq ready'
           /\ UNCHANGED <<file, saves>>
           /\ Shared!SharedType'
<1>1. /\ poll \in [Windows -> Shared!Polls] /\ mem \in [Windows -> Marks]
      /\ own \in [Windows -> 0..MaxInFlight] /\ file \in Marks \cup {Nothing}
      /\ 0 \in 0..MaxInFlight
  BY NumberIs DEF TypeOK, Shared!SharedType
<1>2. Shared!NoPoll \in Shared!Polls BY DEF Shared!NoPoll, Shared!Polls
<1>3. ASSUME NEW value \in Marks \cup {Nothing}, Shared!Apply(w, value)
      PROVE  /\ mem' \in [Windows -> Marks] /\ own' \in [Windows -> 0..MaxInFlight]
             /\ mem'[w] = IF value = Nothing THEN mem[w] ELSE value
             /\ \A v \in Windows : v # w => mem'[v] = mem[v]
  BY <1>1, <1>3 DEF Shared!Apply
<1>4. CASE Shared!ReadStamp(w)
  <2>1. PICK known \in BOOLEAN :
          poll' = [poll EXCEPT ![w] = [at |-> "stamped", fresh |-> known, got |-> Nothing]]
    BY <1>4 DEF Shared!ReadStamp
  <2>2. [at |-> "stamped", fresh |-> known, got |-> Nothing] \in Shared!Polls
    BY DEF Shared!Polls
  <2>3. /\ poll' \in [Windows -> Shared!Polls] /\ poll'[w].at = "stamped"
        /\ \A v \in Windows : v # w => poll'[v] = poll[v]
    BY <1>1, <2>1, <2>2
  <2> QED BY <1>4, <2>3 DEF Shared!ReadStamp, Takes, TypeOK, Shared!SharedType
<1>5. CASE Shared!ReadFile(w)
  <2>1. poll' = [poll EXCEPT ![w] = [poll[w] EXCEPT !.at = "loaded", !.got = file]]
    BY <1>1, <1>5 DEF Shared!ReadFile
  <2>2. LET q == [poll[w] EXCEPT !.at = "loaded", !.got = file] IN
        q \in Shared!Polls /\ q.got = file
    BY <1>1 DEF Shared!Polls
  <2>3. /\ poll' \in [Windows -> Shared!Polls] /\ poll'[w].got = file
        /\ \A v \in Windows : v # w => poll'[v] = poll[v]
    BY <1>1, <2>1, <2>2
  <2> QED BY <1>5, <2>3 DEF Shared!ReadFile, Takes, TypeOK, Shared!SharedType
<1>6. CASE Shared!ReadFails(w)
  BY <1>1, <1>2, <1>6 DEF Shared!ReadFails, Takes, TypeOK, Shared!SharedType, Shared!NoPoll
<1>7. ASSUME poll[w].at = "loaded", Shared!Apply(w, poll[w].got), Shared!Seen(w),
             poll' = [poll EXCEPT ![w] = Shared!NoPoll],
             UNCHANGED <<file, saves>>, ready \subseteq ready', ready' \subseteq Windows
      PROVE  /\ Takes(w) /\ poll'[w].at = "idle"
             /\ \A v \in Windows : v # w =>
                   mem'[v] = mem[v] /\ poll'[v] = poll[v] /\ (v \in seen' <=> v \in seen)
             /\ Shared!SharedType'
  <2>1. poll[w].got \in Marks \cup {Nothing} BY <1>1 DEF Shared!Polls
  <2>2. /\ poll' \in [Windows -> Shared!Polls] /\ poll'[w].at = "idle"
        /\ \A v \in Windows : v # w => poll'[v] = poll[v]
    BY <1>1, <1>2, <1>7 DEF Shared!NoPoll
  <2>3. Takes(w) BY <1>3, <1>7, <2>1 DEF Takes, Shared!Seen
  <2>4. seen' \subseteq Windows /\ \A v \in Windows : v # w => (v \in seen' <=> v \in seen)
    BY <1>7 DEF TypeOK, Shared!SharedType, Shared!Seen
  <2> QED BY <1>3, <1>7, <2>1, <2>2, <2>3, <2>4 DEF TypeOK, Shared!SharedType
<1>8. CASE Shared!Adopt(w)
  BY <1>7, <1>8 DEF Shared!Adopt, TypeOK, Shared!SharedType
<1>9. CASE Shared!Hydrate(w)
  <2>1. Shared!Apply(w, poll[w].got) /\ UNCHANGED saves BY <1>9 DEF Shared!Hydrate
  <2> QED BY <1>7, <1>9, <2>1 DEF Shared!Hydrate, TypeOK, Shared!SharedType
<1> QED BY <1>4, <1>5, <1>6, <1>8, <1>9 DEF Shared!Sync

-----------------------------------------------------------------------------
(* What an act does to its window or to the agent.                         *)

LEMMA ConstantsAre ==
    /\ NoCheck \in Checks /\ NoSnapshot \in Snapshots /\ Stopped \in Agents
    /\ Stopped.at = "stopped" /\ ~Stopped.known /\ Stopped.snapshot = NoSnapshot
    /\ NoSnapshot.day = 0 /\ NoCheck.at = "idle" /\ NoCheck.told = {} /\ NoCheck.left = <<>>
<1>1. NoCheck \in Checks BY CalendarIs DEF NoCheck, Checks
<1>2. NoSnapshot \in Snapshots BY CalendarIs, MarksAre DEF NoSnapshot, Snapshots
<1>3. Stopped \in Agents BY <1>2, CalendarIs DEF Stopped, Agents
<1> QED BY <1>1, <1>2, <1>3 DEF Stopped, NoSnapshot, NoCheck

LEMMA StampMovesIs ==
    ASSUME TypeOK, StampMoves
    PROVE  /\ agent' \in Agents /\ ~agent'.known /\ agent'.at = agent.at
           /\ agent'.snapshot = agent.snapshot /\ agent'.day = agent.day
           /\ agent'.left = agent.left
BY DEF TypeOK, StampMoves, Agents

LEMMA StartCheckIs ==
    ASSUME TypeOK, NEW w \in Windows, StartCheck(w)
    PROVE  /\ check' \in [Windows -> Checks]
           /\ \A v \in Windows : v # w => check'[v] = check[v]
           /\ check'[w].at = "telling" /\ check'[w].day = day /\ check'[w].told = {}
           /\ check'[w].left = InOrder(WindowDue(WindowFacts(w)))
<1> DEFINE due == InOrder(WindowDue(WindowFacts(w)))
           c == [at |-> "telling", day |-> day, left |-> due, told |-> {}]
<1>1. due \in Seq(Kinds) BY InOrderIs
<1>2. check' = [check EXCEPT ![w] = c] BY DEF StartCheck
<1>3. day \in 0..Len(Calendar) BY CalendarIs DEF TypeOK
<1> HIDE DEF due
<1>4. c \in Checks BY <1>1, <1>3 DEF Checks
<1> QED BY <1>2, <1>4 DEF TypeOK, due

LEMMA ToldIs ==
    ASSUME TypeOK, NEW w \in Windows, NEW kind \in Kinds, Told(w, kind)
    PROVE  /\ check' \in [Windows -> Checks]
           /\ \A v \in Windows : v # w => check'[v] = check[v]
           /\ check[w].left # <<>> /\ Head(check[w].left) = kind
           /\ check'[w].at = check[w].at /\ check'[w].day = check[w].day
           /\ check'[w].left = Tail(check[w].left)
           /\ \/ check'[w].told = check[w].told /\ said' = said
              \/ check'[w].told = check[w].told \cup {kind} /\ said' = said \cup {Topic(kind)}
           /\ said' \subseteq Topics
<1>1. check \in [Windows -> Checks] /\ check[w].left # <<>> BY DEF TypeOK, Told
<1>2. PICK carried \in BOOLEAN :
        /\ check' = [check EXCEPT ![w].left = Tail(@),
                                  ![w].told = IF carried THEN @ \cup {kind} ELSE @]
        /\ IF carried THEN Say(kind) ELSE UNCHANGED said
  BY DEF Told
<1> DEFINE told == IF carried THEN check[w].told \cup {kind} ELSE check[w].told
           c == [check[w] EXCEPT !.left = Tail(check[w].left), !.told = told]
<1>a. /\ check[w] \in Checks /\ Tail(check[w].left) \in Seq(Kinds) /\ told \subseteq Kinds
  BY <1>1 DEF Checks
<1>3. /\ c \in Checks /\ c.at = check[w].at /\ c.day = check[w].day
      /\ c.left = Tail(check[w].left)
      /\ c.told = told
  <2> HIDE DEF told
  <2> QED BY <1>a DEF Checks
<1>4. check'[w] = c /\ \A v \in Windows : v # w => check'[v] = check[v]
  BY <1>1, <1>2
<1>5. check' \in [Windows -> Checks]
  <2>1. DOMAIN check' = Windows /\ check' = [v \in Windows |-> check'[v]] BY <1>1, <1>2
  <2> QED BY <1>1, <1>3, <1>4, <2>1
<1>6. said' \subseteq Topics BY <1>2 DEF TypeOK, Say, Topics
<1> HIDE DEF c
<1> QED BY <1>1, <1>2, <1>3, <1>4, <1>5, <1>6 DEF Say, Told

LEMMA NoCheckIs ==
    ASSUME TypeOK, NEW w \in Windows, check' = [check EXCEPT ![w] = NoCheck]
    PROVE  /\ check' \in [Windows -> Checks] /\ check'[w] = NoCheck
           /\ \A v \in Windows : v # w => check'[v] = check[v]
BY ConstantsAre DEF TypeOK

LEMMA MarkedIs ==
    ASSUME TypeOK, NEW w \in Windows
    PROVE  Marked(w) \in Marks
BY CalendarIs DEF TypeOK, Marked, Marks, Checks, Shared!SharedType

(* What the agent has in hand after a tick.                                *)
LEMMA TickIs ==
    ASSUME TypeOK, AgentTick
    PROVE  /\ agent' \in Agents /\ agent'.at \in {"asleep", "telling"} /\ agent'.day = day
           /\ agent'.snapshot = IF Current THEN agent.snapshot ELSE ReadSnapshot
           /\ agent'.left = InOrder(AgentDue(AgentFacts(agent'.snapshot)))
           /\ agent'.at = "telling" => agent'.left # <<>>
           /\ agent'.left # <<>> => /\ agent'.at = "telling"
                                    /\ excuse' \/ \A w \in Windows : ~Unsettled(w)
           /\ excuse => excuse'
           /\ excuse' \in BOOLEAN
           /\ Current => agent'.known
           /\ ReadSnapshot \in Snapshots
<1>1. ReadSnapshot \in Snapshots
  BY CalendarIs, MarksAre DEF ReadSnapshot, Snapshots, TypeOK, Shared!SharedType
<1> DEFINE snapshot == IF Current THEN agent.snapshot ELSE ReadSnapshot
           due == InOrder(AgentDue(AgentFacts(snapshot)))
<1>2. snapshot \in Snapshots BY <1>1 DEF TypeOK, Agents
<1>3. PICK known \in IF Current THEN {TRUE} ELSE BOOLEAN :
        /\ agent' = [at |-> IF due = <<>> THEN "asleep" ELSE "telling", known |-> known,
                     snapshot |-> snapshot, day |-> day, left |-> due]
        /\ excuse' = (excuse \/ (due # <<>> /\ \E w \in Windows : Unsettled(w)))
  <2> DEFINE D(s) == InOrder(AgentDue(AgentFacts(s)))
             After(known, s) ==
                /\ agent' = [at |-> IF D(s) = <<>> THEN "asleep" ELSE "telling", known |-> known,
                             snapshot |-> s, day |-> day, left |-> D(s)]
                /\ excuse' = (excuse \/ (D(s) # <<>> /\ \E w \in Windows : Unsettled(w)))
  <2>1. \E known \in IF Current THEN {TRUE} ELSE BOOLEAN :
           \E s \in {snapshot} : After(known, s)
    BY Zenon DEF AgentTick
  <2>2. PICK known \in IF Current THEN {TRUE} ELSE BOOLEAN : After(known, snapshot)
    <3> HIDE DEF After, snapshot
    <3> QED BY <2>1
  <2> QED BY <2>2
<1>4. due \in Seq(Kinds) BY InOrderIs
<1>5. day \in 0..Len(Calendar) /\ known \in BOOLEAN /\ (Current => known)
  <2>1. known \in BOOLEAN /\ (Current => known)
    <3>1. CASE Current BY <1>3, <3>1
    <3>2. CASE ~Current BY <1>3, <3>2
    <3> QED BY <3>1, <3>2
  <2> QED BY <2>1, CalendarIs DEF TypeOK
<1>6. /\ agent'.snapshot = snapshot /\ agent'.left = due /\ agent'.day = day
      /\ agent'.known = known /\ agent'.at = IF due = <<>> THEN "asleep" ELSE "telling"
  BY <1>3
<1>7. agent'.left = InOrder(AgentDue(AgentFacts(agent'.snapshot))) BY <1>6
<1> HIDE DEF due, snapshot
<1>8. agent' \in Agents BY <1>2, <1>3, <1>4, <1>5 DEF Agents
<1> QED BY <1>1, <1>3, <1>5, <1>6, <1>7, <1>8 DEF snapshot, TypeOK

LEMMA ShownIs ==
    ASSUME TypeOK, NEW kind \in Kinds, Shown(kind)
    PROVE  /\ agent' \in Agents /\ agent.at = "telling" /\ agent'.at = "marking"
           /\ agent'.known = agent.known /\ agent'.day = agent.day /\ agent'.left = agent.left
           /\ agent'.snapshot.day = agent.snapshot.day
           /\ agent'.snapshot.row = agent.snapshot.row
           /\ agent'.snapshot.recorded = agent.snapshot.recorded
           /\ agent'.snapshot.reported = agent.snapshot.reported
           /\ agent'.snapshot.sent = [agent.snapshot.sent EXCEPT ![kind] = agent.day]
           /\ said' = said \cup {Topic(kind)} /\ said' \subseteq Topics
<1>1. /\ agent \in Agents /\ agent.snapshot \in Snapshots
      /\ agent.snapshot.sent \in Marks /\ agent.day \in 0..Len(Calendar)
  BY DEF TypeOK, Agents, Snapshots
<1>2. agent' = [agent EXCEPT !.at = "marking", !.snapshot.sent[kind] = agent.day]
  BY DEF Shown
<1> DEFINE sent == [agent.snapshot.sent EXCEPT ![kind] = agent.day]
           snapshot == [agent.snapshot EXCEPT !.sent = sent]
<1>3. sent \in Marks BY <1>1 DEF Marks
<1>4. /\ snapshot \in Snapshots /\ snapshot.sent = sent
      /\ snapshot.day = agent.snapshot.day /\ snapshot.row = agent.snapshot.row
      /\ snapshot.recorded = agent.snapshot.recorded
      /\ snapshot.reported = agent.snapshot.reported
  BY <1>1, <1>3 DEF Snapshots
<1>5. agent' = [agent EXCEPT !.at = "marking", !.snapshot = snapshot]
  BY <1>1, <1>2 DEF Agents, Snapshots
<1> HIDE DEF snapshot
<1>6. /\ agent' \in Agents /\ agent'.at = "marking" /\ agent'.known = agent.known
      /\ agent'.day = agent.day /\ agent'.left = agent.left /\ agent'.snapshot = snapshot
  BY <1>1, <1>4, <1>5 DEF Agents
<1>7. said' = said \cup {Topic(kind)} /\ said' \subseteq Topics
  BY DEF Shown, Say, TypeOK, Topics
<1> QED BY <1>4, <1>6, <1>7 DEF Shown

(* After a toast, shown or not, the agent goes on to the next one.         *)
Goes(left) ==
    /\ agent' \in Agents /\ agent'.left = left /\ agent'.day = agent.day
    /\ agent'.snapshot = agent.snapshot
    /\ agent'.at = IF left = <<>> THEN "asleep" ELSE "telling"

LEMMA GoesIs ==
    ASSUME TypeOK, agent.left # <<>>, NEW known \in BOOLEAN,
           agent' = [agent EXCEPT !.at = Rest(Tail(agent.left)), !.left = Tail(agent.left),
                                  !.known = known]
    PROVE  Goes(Tail(agent.left)) /\ agent'.known = known
<1>1. /\ agent \in Agents /\ Tail(agent.left) \in Seq(Kinds)
      /\ Rest(Tail(agent.left)) \in {"asleep", "telling"}
  BY DEF TypeOK, Agents, Rest
<1> DEFINE left == Tail(agent.left)
<1>2. /\ left \in Seq(Kinds) /\ Rest(left) \in {"asleep", "telling"}
      /\ agent' = [agent EXCEPT !.at = Rest(left), !.left = left, !.known = known]
  BY <1>1
<1> HIDE DEF left
<1>3. /\ agent' \in Agents /\ agent'.left = left /\ agent'.day = agent.day
      /\ agent'.snapshot = agent.snapshot /\ agent'.at = Rest(left) /\ agent'.known = known
  BY <1>1, <1>2 DEF Agents
<1> QED BY <1>3 DEF left, Goes, Rest

LEMMA ShowFailsIs ==
    ASSUME TypeOK, agent.left # <<>>, ShowFails
    PROVE  Goes(Tail(agent.left)) /\ agent'.known = agent.known /\ agent.at = "telling"
<1>1. agent.known \in BOOLEAN BY DEF TypeOK, Agents
<1>2. agent' = [agent EXCEPT !.at = Rest(Tail(agent.left)), !.left = Tail(agent.left),
                             !.known = agent.known]
  BY DEF ShowFails, TypeOK, Agents
<1> QED BY <1>1, <1>2, GoesIs DEF ShowFails

NextMarks == [MarksOf(file) EXCEPT ![Head(agent.left)] = agent.day]
LEMMA MarkIs ==
    ASSUME TypeOK, agent.left # <<>>, Mark
    PROVE  /\ Goes(Tail(agent.left)) /\ agent.at = "marking"
           /\ NextMarks \in Marks /\ Head(agent.left) \in Kinds
           /\ \/ /\ file' = NextMarks /\ file' \in Marks /\ Shared!StampMoves /\ ~agent'.known
                 /\ UNCHANGED <<mem, own, ready, saves, excuse>>
              \/ NextMarks = file /\ UNCHANGED <<marks, excuse>> /\ agent'.known = agent.known
              \/ excuse' = TRUE /\ UNCHANGED marks /\ agent'.known = agent.known
<1>1. /\ agent \in Agents /\ agent.left \in Seq(Kinds) /\ agent.day \in 0..Len(Calendar)
      /\ Head(agent.left) \in Kinds
  BY DEF TypeOK, Agents
<1>2. MarksOf(file) \in Marks BY MarksAre DEF TypeOK, Shared!SharedType
<1>3. NextMarks \in Marks BY <1>1, <1>2 DEF NextMarks, Marks
<1> DEFINE To(known) == agent' = [agent EXCEPT !.at = Rest(Tail(agent.left)),
                                   !.left = Tail(agent.left), !.known = known]
<1>4. \/ /\ file' = NextMarks /\ Shared!StampMoves /\ To(FALSE)
         /\ UNCHANGED <<mem, own, ready, saves, excuse>>
      \/ NextMarks = file /\ UNCHANGED <<marks, excuse>> /\ To(agent.known)
      \/ excuse' = TRUE /\ UNCHANGED marks /\ To(agent.known)
  BY <1>1 DEF Mark, NextMarks, Agents
<1>5. \A known \in BOOLEAN : To(known) => Goes(Tail(agent.left)) /\ agent'.known = known
  BY GoesIs
<1>6. agent.known \in BOOLEAN BY <1>1 DEF Agents
<1> HIDE DEF To
<1> QED BY <1>1, <1>3, <1>4, <1>5, <1>6 DEF Mark

-----------------------------------------------------------------------------
(* Every act keeps the types, and what programs know right.                *)

Sane == TypeOK /\ SaneInv

(* The day, its entries and the report are as before, and so are the       *)
(* marks, or the agent does not take what it has for current any more.     *)
LEMMA AgentStaysSane ==
    ASSUME Sane, UNCHANGED day, agent'.snapshot = agent.snapshot, agent'.day = agent.day,
           agent'.at \in {"telling", "marking"} =>
               agent'.left # <<>> /\ AgentBusy,
           agent'.known => agent.known /\ UNCHANGED <<recorded, reported, file>>
    PROVE  (AgentSane /\ AgentKnows)'
BY DEF Sane, SaneInv, AgentSane, AgentBusy, AgentKnows, MarkedToday, MarksOf

LEMMA WindowStaysSane ==
    ASSUME Sane, NEW w \in Windows, UNCHANGED day, check'[w] = check[w],
           w \in ready => w \in ready',
           poll'[w].at = "loaded" /\ poll'[w].fresh =>
               /\ poll[w].at = "loaded" /\ poll[w].fresh /\ poll'[w].got = poll[w].got
               /\ file' = file
    PROVE  WindowSane(w)'
BY DEF Sane, SaneInv, WindowSane

LEMMA CarriedKeeps ==
    ASSUME Sane, NEW w \in Windows, Carried(w)
    PROVE  Sane'
<1>1. PICK n \in 1..MaxInFlight : Shared!Write(w, n) BY DEF Carried
<1>2. Shared!SharedType' /\ Shared!StampMoves /\ ready' = ready
  BY <1>1, WriteIs DEF Sane
<1>3. agent' \in Agents /\ (AgentSane /\ AgentKnows)'
  BY StampMovesIs, AgentStaysSane
  DEF Carried, Sane, SaneInv, AgentSane, AgentBusy, world
<1>4. \A v \in Windows : WindowSane(v)'
  BY <1>2, StampsAre, WindowStaysSane DEF Carried, Sane, world
<1> QED BY <1>2, <1>3, <1>4 DEF Sane, SaneInv, TypeOK, Carried, world

LEMMA LostKeeps ==
    ASSUME Sane, NEW w \in Windows, MarkIsLost(w)
    PROVE  Sane'
<1>1. PICK n \in 1..MaxInFlight : Shared!Fail(w, n) BY DEF MarkIsLost
<1>2. Shared!SharedType' /\ UNCHANGED <<file, ready, seen, poll>>
  BY <1>1, FailIs DEF Sane
<1>3. (AgentSane /\ AgentKnows)'
  BY <1>2, AgentStaysSane DEF MarkIsLost, Sane, SaneInv, AgentSane, AgentBusy, world
<1>4. \A v \in Windows : WindowSane(v)'
  BY <1>2, WindowStaysSane DEF MarkIsLost, world
<1> QED BY <1>2, <1>3, <1>4 DEF Sane, SaneInv, TypeOK, MarkIsLost, world

LEMMA PollingKeeps ==
    ASSUME Sane, NEW w \in Windows, Polling(w)
    PROVE  Sane'
<1>1. /\ poll'[w].at = "loaded" => poll'[w].got = file
      /\ \A v \in Windows : v # w => poll'[v] = poll[v]
      /\ ready \subseteq ready' /\ file' = file /\ Shared!SharedType'
  BY SyncIs DEF Sane, Polling
<1>2. (AgentSane /\ AgentKnows)'
  BY <1>1, AgentStaysSane DEF Polling, Sane, SaneInv, AgentSane, AgentBusy, world
<1>3. \A v \in Windows : v # w => WindowSane(v)'
  BY <1>1, WindowStaysSane DEF Polling, world
<1>4. WindowSane(w)' BY <1>1 DEF Sane, SaneInv, WindowSane, Polling, world
<1> QED BY <1>1, <1>2, <1>3, <1>4 DEF Sane, SaneInv, TypeOK, Polling, world

LEMMA CloseKeeps ==
    ASSUME Sane, NEW w \in Windows, Close(w)
    PROVE  Sane'
<1>1. /\ Shared!SharedType' /\ file' = file /\ poll'[w] = Shared!NoPoll
      /\ \A v \in Windows : v # w => poll'[v] = poll[v] /\ (v \in ready' <=> v \in ready)
  BY ReopenIs DEF Sane, Close
<1>2. /\ check' \in [Windows -> Checks] /\ check'[w] = NoCheck
      /\ \A v \in Windows : v # w => check'[v] = check[v]
  BY NoCheckIs DEF Sane, Close
<1>3. (AgentSane /\ AgentKnows)'
  BY <1>1, AgentStaysSane DEF Close, Sane, SaneInv, AgentSane, AgentBusy, world
<1>4. \A v \in Windows : v # w => WindowSane(v)'
  BY <1>1, <1>2, WindowStaysSane DEF Close, world
<1>5. WindowSane(w)' BY <1>1, <1>2 DEF WindowSane, Shared!NoPoll
<1>6. excuse' \in BOOLEAN BY DEF Close, Sane, TypeOK, Unsettled
<1> QED BY <1>1, <1>2, <1>3, <1>4, <1>5, <1>6 DEF Sane, SaneInv, TypeOK, Close, world

LEMMA StartCheckKeeps ==
    ASSUME Sane, NEW w \in Windows, StartCheck(w)
    PROVE  Sane'
<1>1. /\ check' \in [Windows -> Checks] /\ check'[w].at = "telling" /\ check'[w].day = day
      /\ \A v \in Windows : v # w => check'[v] = check[v]
  BY StartCheckIs DEF Sane
<1>2. UNCHANGED <<marks, world, agent, said>> /\ w \in ready BY DEF StartCheck
<1>3. (AgentSane /\ AgentKnows)'
  BY <1>2, AgentStaysSane DEF Sane, SaneInv, AgentSane, AgentBusy, world, marks
<1>4. \A v \in Windows : v # w => WindowSane(v)'
  BY <1>1, <1>2, WindowStaysSane DEF world, marks
<1>5. WindowSane(w)' BY <1>1, <1>2 DEF Sane, SaneInv, WindowSane, world, marks
<1>6. excuse' \in BOOLEAN BY DEF StartCheck, Sane, TypeOK
<1>7. Shared!SharedType' BY <1>2 DEF Sane, TypeOK, marks, Shared!SharedType
<1> QED BY <1>1, <1>2, <1>3, <1>4, <1>5, <1>6, <1>7 DEF Sane, SaneInv, TypeOK, world

(* There is something to tell only while telling.                          *)
LEMMA TellingIs ==
    ASSUME Sane, NEW w \in Windows, check[w].left # <<>> \/ check[w].at = "telling"
    PROVE  check[w] # NoCheck /\ check[w].at = "telling" /\ check[w].day = day /\ w \in ready
BY ConstantsAre DEF Sane, SaneInv, WindowSane, TypeOK, Checks

LEMMA ToldKeeps ==
    ASSUME Sane, NEW w \in Windows, NEW kind \in Kinds, Told(w, kind)
    PROVE  Sane'
<1>1. /\ check' \in [Windows -> Checks] /\ check[w].left # <<>>
      /\ check'[w].at = check[w].at /\ check'[w].day = check[w].day /\ said' \subseteq Topics
      /\ \A v \in Windows : v # w => check'[v] = check[v]
  BY ToldIs DEF Sane
<1>2. UNCHANGED <<marks, world, agent, excuse>> BY DEF Told
<1>3. (AgentSane /\ AgentKnows)'
  BY <1>2, AgentStaysSane DEF Sane, SaneInv, AgentSane, AgentBusy, world, marks
<1>4. \A v \in Windows : v # w => WindowSane(v)'
  BY <1>1, <1>2, WindowStaysSane DEF world, marks
<1>5. WindowSane(w)'
  BY <1>1, <1>2, TellingIs DEF Sane, SaneInv, WindowSane, world, marks
<1>6. Shared!SharedType' BY <1>2 DEF Sane, TypeOK, marks, Shared!SharedType
<1> QED BY <1>1, <1>2, <1>3, <1>4, <1>5, <1>6 DEF Sane, SaneInv, TypeOK, world

(* A check ends: with nothing told, or with the copy sent.                 *)
LEMMA EndCheckIs ==
    ASSUME Sane, NEW w \in Windows, EndCheck(w)
    PROVE  /\ check' \in [Windows -> Checks] /\ check'[w] = NoCheck
           /\ \A v \in Windows : v # w => check'[v] = check[v]
           /\ check[w].left = <<>> /\ check[w] # NoCheck
           /\ UNCHANGED <<file, ready, seen, poll, day>> /\ Shared!SharedType'
           /\ \A v \in Windows : v # w => saves'[v] = saves[v] /\ mem'[v] = mem[v]
           /\ \/ check[w].told = {} /\ UNCHANGED marks
              \/ \E n \in 1..MaxInFlight :
                    /\ Shared!InFlight(w)' = Shared!InFlight(w) \cup {n}
                    /\ saves'[w][n].value = Marked(w)
<1>1. /\ check' \in [Windows -> Checks] /\ check'[w] = NoCheck
      /\ \A v \in Windows : v # w => check'[v] = check[v]
  BY NoCheckIs DEF EndCheck, Sane
<1>2. CASE check[w].told = {}
  BY <1>1, <1>2, TellingIs DEF EndCheck, Sane, TypeOK, Shared!SharedType, marks, world
<1>3. CASE check[w].told # {}
  BY <1>1, <1>3, TellingIs, SetIs, MarkedIs DEF EndCheck, Sane, marks, world
<1> QED BY <1>2, <1>3

LEMMA EndCheckKeeps ==
    ASSUME Sane, NEW w \in Windows, EndCheck(w)
    PROVE  Sane'
<1>1. /\ check' \in [Windows -> Checks] /\ check'[w] = NoCheck
      /\ \A v \in Windows : v # w => check'[v] = check[v]
      /\ UNCHANGED <<file, ready, seen, poll, day>> /\ Shared!SharedType'
  BY EndCheckIs
<1>2. UNCHANGED <<world, agent, said, excuse>> BY DEF EndCheck
<1>3. (AgentSane /\ AgentKnows)'
  BY <1>1, <1>2, AgentStaysSane DEF Sane, SaneInv, AgentSane, AgentBusy, world
<1>4. \A v \in Windows : v # w => WindowSane(v)' BY <1>1, WindowStaysSane
<1>5. WindowSane(w)' BY <1>1 DEF Sane, SaneInv, WindowSane
<1> QED BY <1>1, <1>2, <1>3, <1>4, <1>5 DEF Sane, SaneInv, TypeOK, world

(* The agent's acts leave the windows' copies alone.                       *)
LEMMA AgentActs ==
    ASSUME Sane, UNCHANGED <<ready, poll, file, day, check>>
    PROVE  \A v \in Windows : WindowSane(v)'
BY WindowStaysSane

LEMMA StartsOrDies ==
    ASSUME Sane, AgentStarts \/ AgentDies
    PROVE  Sane'
<1>1. /\ UNCHANGED <<marks, world, check, said>> /\ excuse' \in BOOLEAN
      /\ agent' \in {Stopped, [Stopped EXCEPT !.at = "asleep"]}
  BY DEF AgentStarts, AgentDies, Sane, TypeOK
<1>2. /\ agent' \in Agents /\ ~agent'.known /\ agent'.snapshot = NoSnapshot
      /\ agent'.at \notin {"telling", "marking"}
  BY <1>1, ConstantsAre DEF Agents
<1>3. (AgentSane /\ AgentKnows)'
  BY <1>1, <1>2, ConstantsAre, CalendarIs
  DEF AgentSane, AgentBusy, AgentKnows, Sane, TypeOK, world
<1>4. \A v \in Windows : WindowSane(v)' BY <1>1, AgentActs DEF marks, world
<1>5. Shared!SharedType' BY <1>1 DEF Sane, TypeOK, marks, Shared!SharedType
<1> QED BY <1>1, <1>2, <1>3, <1>4, <1>5 DEF Sane, SaneInv, TypeOK, world

LEMMA AgentTickKeeps ==
    ASSUME Sane, AgentTick
    PROVE  Sane' /\ (agent'.snapshot.day = day /\ agent'.snapshot.row = Row(day)
                     /\ agent'.snapshot.recorded = recorded
                     /\ agent'.snapshot.reported = reported
                     /\ \A k \in Kinds : MarkedToday(MarksOf(file), k) =>
                            agent'.snapshot.sent[k] = day)
<1>1. /\ agent' \in Agents /\ agent'.at \in {"asleep", "telling"} /\ agent'.day = day
      /\ agent'.snapshot = IF Current THEN agent.snapshot ELSE ReadSnapshot
      /\ agent'.at = "telling" => agent'.left # <<>>
      /\ excuse' \in BOOLEAN
  BY TickIs DEF Sane
<1>2. UNCHANGED <<marks, world, check, said>> BY DEF AgentTick
<1>3. /\ agent'.snapshot.day = day /\ agent'.snapshot.row = Row(day)
      /\ agent'.snapshot.recorded = recorded /\ agent'.snapshot.reported = reported
      /\ \A k \in Kinds : MarkedToday(MarksOf(file), k) => agent'.snapshot.sent[k] = day
  <2>1. CASE Current
    <3>1. agent'.snapshot = agent.snapshot /\ agent.known /\ agent.snapshot.day = day
      BY <1>1, <2>1 DEF Current
    <3>2. day # 0 BY CalendarIs DEF Sane, TypeOK
    <3> QED BY <3>1, <3>2 DEF Sane, SaneInv, AgentSane, AgentKnows, MarkedToday
  <2>2. CASE ~Current
    BY <1>1, <2>2 DEF ReadSnapshot, MarkedToday
  <2> QED BY <2>1, <2>2
<1>4. AgentSane' /\ AgentKnows'
  <2>1. MarksOf(file)' = MarksOf(file) /\ UNCHANGED <<day, recorded, reported>>
    BY <1>2 DEF world, marks, MarksOf
  <2>2. day \in Nat BY CalendarIs DEF Sane, TypeOK
  <2> QED BY <1>1, <1>3, <2>1, <2>2 DEF AgentSane, AgentBusy, AgentKnows, MarkedToday
<1>5. \A v \in Windows : WindowSane(v)' BY <1>2, AgentActs DEF marks, world
<1>6. Shared!SharedType' BY <1>2 DEF Sane, TypeOK, marks, Shared!SharedType
<1> QED BY <1>1, <1>2, <1>3, <1>4, <1>5, <1>6 DEF Sane, SaneInv, TypeOK, world

LEMMA ShownKeeps ==
    ASSUME Sane, NEW kind \in Kinds, Shown(kind)
    PROVE  Sane'
<1>1. /\ agent' \in Agents /\ agent.at = "telling" /\ agent'.at = "marking"
      /\ agent'.known = agent.known /\ agent'.day = agent.day /\ agent'.left = agent.left
      /\ agent'.snapshot.day = agent.snapshot.day /\ agent'.snapshot.row = agent.snapshot.row
      /\ agent'.snapshot.recorded = agent.snapshot.recorded
      /\ agent'.snapshot.reported = agent.snapshot.reported
      /\ agent'.snapshot.sent = [agent.snapshot.sent EXCEPT ![kind] = agent.day]
      /\ said' \subseteq Topics
  BY ShownIs DEF Sane
<1>2. UNCHANGED <<marks, world, check, excuse>> BY DEF Shown
<1>3. AgentSane' /\ AgentKnows'
  <2>1. MarksOf(file)' = MarksOf(file) /\ UNCHANGED <<day, recorded, reported>>
    BY <1>2 DEF world, marks, MarksOf
  <2>2. agent.left # <<>> /\ agent.day = day /\ AgentSane /\ AgentKnows
    BY <1>1 DEF Sane, SaneInv, AgentSane, AgentBusy
  <2>3. DOMAIN agent.snapshot.sent = Kinds BY DEF Sane, TypeOK, Agents, Snapshots, Marks
  <2>4. \A k \in Kinds :
          agent'.snapshot.sent[k] = IF k = kind THEN day ELSE agent.snapshot.sent[k]
    BY <1>1, <2>2, <2>3
  <2>5. AgentSane' BY <1>1, <2>1, <2>2 DEF AgentSane, AgentBusy
  <2>6. AgentKnows' BY <1>1, <2>1, <2>2, <2>4 DEF AgentKnows, MarkedToday
  <2> QED BY <2>5, <2>6
<1>4. \A v \in Windows : WindowSane(v)' BY <1>2, AgentActs DEF marks, world
<1>5. Shared!SharedType' BY <1>2 DEF Sane, TypeOK, marks, Shared!SharedType
<1> QED BY <1>1, <1>2, <1>3, <1>4, <1>5 DEF Sane, SaneInv, TypeOK, world

LEMMA BusyHasLeft ==
    ASSUME Sane, AgentBusy
    PROVE  agent.left # <<>> /\ agent.day = day
BY DEF Sane, SaneInv, AgentSane

LEMMA ShowFailsKeeps ==
    ASSUME Sane, ShowFails
    PROVE  Sane'
<1>1. Goes(Tail(agent.left)) /\ agent'.known = agent.known /\ AgentBusy
  BY BusyHasLeft, ShowFailsIs DEF Sane, ShowFails, AgentBusy
<1>2. UNCHANGED <<marks, world, check, said, excuse>> BY DEF ShowFails
<1>3. (AgentSane /\ AgentKnows)'
  BY <1>1, <1>2, AgentStaysSane DEF Goes, marks, world
<1>4. \A v \in Windows : WindowSane(v)' BY <1>2, AgentActs DEF marks, world
<1>5. Shared!SharedType' BY <1>2 DEF Sane, TypeOK, marks, Shared!SharedType
<1> QED BY <1>1, <1>2, <1>3, <1>4, <1>5 DEF Sane, SaneInv, TypeOK, world, Goes

LEMMA MarkKeeps ==
    ASSUME Sane, Mark
    PROVE  Sane'
<1>1. UNCHANGED <<world, check, said>> /\ AgentBusy BY DEF Mark, AgentBusy
<1>2. /\ Goes(Tail(agent.left)) /\ agent.at = "marking"
      /\ \/ /\ file' \in Marks /\ Shared!StampMoves /\ ~agent'.known
            /\ UNCHANGED <<mem, own, ready, saves, excuse>>
         \/ UNCHANGED <<marks, excuse>> /\ agent'.known = agent.known
         \/ excuse' = TRUE /\ UNCHANGED marks /\ agent'.known = agent.known
  BY <1>1, BusyHasLeft, MarkIs DEF Sane
<1>3. (AgentSane /\ AgentKnows)'
  BY <1>1, <1>2, AgentStaysSane DEF Goes, marks, world
<1>4. CASE Shared!StampMoves /\ file' \in Marks /\ UNCHANGED <<mem, own, ready, saves, excuse>>
  <2>1. \A v \in Windows : WindowSane(v)'
    BY <1>1, <1>4, StampsAre, WindowStaysSane DEF Sane, world
  <2>2. Shared!SharedType' BY <1>4, StampsAre DEF Sane, TypeOK, Shared!SharedType
  <2> QED BY <1>1, <1>2, <1>3, <1>4, <2>1, <2>2 DEF Sane, SaneInv, TypeOK, world, Goes
<1>5. CASE UNCHANGED marks /\ excuse' \in BOOLEAN
  <2>1. \A v \in Windows : WindowSane(v)' BY <1>1, <1>5, AgentActs DEF marks, world
  <2>2. Shared!SharedType' BY <1>5 DEF Sane, TypeOK, marks, Shared!SharedType
  <2> QED BY <1>1, <1>2, <1>3, <1>5, <2>1, <2>2 DEF Sane, SaneInv, TypeOK, world, Goes
<1> QED BY <1>2, <1>4, <1>5 DEF Sane, TypeOK

LEMMA RecordKeeps ==
    ASSUME Sane, Record
    PROVE  Sane'
<1>1. /\ Shared!StampMoves /\ StampMoves /\ UNCHANGED <<file, mem, own, ready, saves>>
      /\ UNCHANGED <<day, minute, check, said, excuse>>
  BY DEF Record, Shared!WriteOtherKey
<1>2. recorded' \subseteq {1, 2} /\ reported' \in BOOLEAN
  <2>1. Held \subseteq {1, 2} BY DEF Held
  <2> QED BY <2>1 DEF Record, Sane, TypeOK
<1>3. agent' \in Agents /\ (AgentSane /\ AgentKnows)'
  BY <1>1, StampMovesIs, AgentStaysSane DEF Sane, SaneInv, AgentSane, AgentBusy
<1>4. \A v \in Windows : WindowSane(v)'
  BY <1>1, StampsAre, WindowStaysSane DEF Sane
<1>5. Shared!SharedType' BY <1>1, StampsAre DEF Sane, TypeOK, Shared!SharedType
<1> QED BY <1>1, <1>2, <1>3, <1>4, <1>5 DEF Sane, SaneInv, TypeOK

LEMMA ClockKeeps ==
    ASSUME Sane, Clock
    PROVE  Sane'
<1>1. /\ UNCHANGED <<marks, reported, check, agent>> /\ ~AgentBusy
      /\ \A w \in Windows : check[w] = NoCheck
  BY DEF Clock
<1>2. Shared!SharedType' BY <1>1 DEF Sane, TypeOK, marks, Shared!SharedType
<1>3. CASE UNCHANGED <<day, recorded, said, excuse>> /\ minute' \in Moments
  <2>1. (AgentSane /\ AgentKnows)'
    BY <1>1, <1>3, AgentStaysSane DEF Sane, SaneInv, AgentSane, AgentBusy, marks
  <2>2. \A v \in Windows : WindowSane(v)' BY <1>1, <1>3, AgentActs DEF marks
  <2> QED BY <1>1, <1>2, <1>3, <2>1, <2>2 DEF Sane, SaneInv, TypeOK
<1>4. CASE day < Len(Calendar) /\ day' = day + 1 /\ minute' = 0 /\ recorded' = {} /\ said' = {}
           /\ excuse' \in BOOLEAN
  <2>1. day' \in Days /\ agent.snapshot.day \in Nat /\ agent.snapshot.day < day'
    BY <1>4, CalendarIs DEF Sane, SaneInv, AgentSane, TypeOK, Agents, Snapshots
  <2>2. (AgentSane /\ AgentKnows)'
    BY <1>1, <1>4, <2>1, CalendarIs DEF Sane, SaneInv, AgentSane, AgentBusy, AgentKnows
  <2>3. \A v \in Windows : WindowSane(v)'
    BY <1>1, <1>4 DEF Sane, SaneInv, WindowSane, marks
  <2>4. minute' \in Moments BY <1>4, ReminderAssumption
  <2> QED BY <1>1, <1>2, <1>4, <2>1, <2>2, <2>3, <2>4 DEF Sane, SaneInv, TypeOK
<1> QED BY <1>3, <1>4 DEF Clock, Unsettled

LEMMA StartsSane == Init => Sane
<1> SUFFICES ASSUME Init PROVE Sane OBVIOUS
<1>1. Shared!SharedType
  <2>1. Shared!NoPoll \in Shared!Polls BY DEF Shared!NoPoll, Shared!Polls
  <2>2. Shared!Idle \in [Shared!Numbers -> Shared!Saves \cup {Shared!NoSave}] BY DEF Shared!Idle
  <2> QED BY <2>1, <2>2, MarksAre, NumberIs DEF Init, Shared!Init, Shared!SharedType
<1>2. TypeOK
  <2>1. 1 \in Days /\ 0 \in Moments BY CalendarIs, ReminderAssumption
  <2> QED BY <1>1, <2>1, ConstantsAre DEF Init, TypeOK
<1>3. SaneInv
  BY ConstantsAre, CalendarIs
  DEF Init, SaneInv, AgentSane, AgentBusy, AgentKnows, WindowSane, Shared!Init, Shared!NoPoll
<1> QED BY <1>2, <1>3 DEF Sane

LEMMA SaneIsKept == Sane /\ [Next]_vars => Sane'
<1> SUFFICES ASSUME Sane, [Next]_vars PROVE Sane' OBVIOUS
<1>1. CASE \E w \in Windows : WindowSteps(w)
  BY <1>1, CarriedKeeps, LostKeeps, PollingKeeps, CloseKeeps, StartCheckKeeps, ToldKeeps,
     EndCheckKeeps
  DEF WindowSteps
<1>2. CASE UNCHANGED vars
  BY <1>2 DEF vars, marks, world, Sane, SaneInv, TypeOK, Shared!SharedType, AgentSane, AgentBusy,
     AgentKnows, WindowSane, MarkedToday, MarksOf
<1> QED
  BY <1>1, <1>2, StartsOrDies, AgentTickKeeps, ShownKeeps, ShowFailsKeeps, MarkKeeps,
     RecordKeeps, ClockKeeps
  DEF Next

(* Every variable keeps its type, for every calendar and number of windows.*)
THEOREM TypeCorrect == Spec => []TypeOK
<1>1. Sane => TypeOK BY DEF Sane
<1> QED BY <1>1, StartsSane, SaneIsKept, PTL DEF Spec

-----------------------------------------------------------------------------
(* A window at rest has the file's marks.                                  *)

Shows(w) == w \in seen /\ Shared!InFlight(w) = {} => Shared!ShowsFile(w)

LEMMA ShowsOn ==
    ASSUME NEW w, Shows(w), w \in seen' => w \in seen,
           UNCHANGED <<mem[w], saves[w], file>>
    PROVE  Shows(w)'
BY DEF Shows, Shared!InFlight, Shared!ShowsFile

LEMMA CurrentIsKept ==
    Sane /\ (excuse \/ SeenIsShown) /\ [Next]_vars => (excuse \/ SeenIsShown)'
<1> SUFFICES ASSUME Sane, excuse \/ SeenIsShown, [Next]_vars, ~excuse'
             PROVE  \A v \in Windows : Shows(v)'
  BY DEF SeenIsShown, Shows
<1>0. excuse \in BOOLEAN /\ (~excuse => \A v \in Windows : Shows(v))
  BY DEF Sane, TypeOK, SeenIsShown, Shows
<1>1. ASSUME UNCHANGED marks, excuse => excuse' PROVE \A v \in Windows : Shows(v)'
  BY <1>0, <1>1, ShowsOn DEF marks
<1>2. ASSUME seen' = {} PROVE \A v \in Windows : Shows(v)' BY <1>2 DEF Shows
<1>3. ASSUME NEW w \in Windows, Carried(w) PROVE \A v \in Windows : Shows(v)'
  BY <1>2, <1>3 DEF Carried, Shared!Write, Shared!StampMoves
<1>4. ASSUME NEW w \in Windows, MarkIsLost(w) PROVE FALSE BY <1>4 DEF MarkIsLost
<1>5. ASSUME NEW w \in Windows, Polling(w) PROVE \A v \in Windows : Shows(v)'
  <2>1. /\ Takes(w) /\ UNCHANGED <<file, saves>>
        /\ \A v \in Windows : v # w => mem'[v] = mem[v] /\ (v \in seen' <=> v \in seen)
    BY <1>5, SyncIs DEF Polling, Sane
  <2>2. \A v \in Windows : v # w => Shows(v)' BY <1>0, <1>5, <2>1, ShowsOn DEF Polling
  <2>3. Shows(w)'
    <3>1. CASE mem'[w] = mem[w] /\ (w \in seen' => w \in seen)
      BY <1>0, <1>5, <2>1, <3>1, ShowsOn DEF Polling
    <3>2. CASE /\ poll[w].at = "loaded" /\ (w \in seen' => poll[w].fresh)
               /\ mem'[w] = IF poll[w].got = Nothing THEN mem[w] ELSE poll[w].got
      BY <2>1, <3>2 DEF Shows, Shared!ShowsFile, Sane, SaneInv, WindowSane
    <3> QED BY <2>1, <3>1, <3>2 DEF Takes
  <2> QED BY <2>2, <2>3
<1>6. ASSUME NEW w \in Windows, Close(w) PROVE \A v \in Windows : Shows(v)'
  <2>1. /\ w \notin seen' /\ UNCHANGED <<file, mem>>
        /\ \A v \in Windows : v # w => saves'[v] = saves[v] /\ (v \in seen' <=> v \in seen)
    BY <1>6, ReopenIs DEF Close, Sane
  <2>2. ~excuse BY <1>6 DEF Close
  <2>3. Shows(w)' BY <2>1 DEF Shows
  <2> QED BY <1>0, <2>1, <2>2, <2>3, ShowsOn
<1>7. ASSUME NEW w \in Windows, StartCheck(w) PROVE \A v \in Windows : Shows(v)'
  BY <1>1, <1>7 DEF StartCheck
<1>8. ASSUME NEW w \in Windows, NEW kind \in Kinds, Told(w, kind)
      PROVE  \A v \in Windows : Shows(v)'
  BY <1>1, <1>8 DEF Told
<1>9. ASSUME NEW w \in Windows, EndCheck(w) PROVE \A v \in Windows : Shows(v)'
  <2>1. /\ UNCHANGED <<file, seen, excuse>>
        /\ \A v \in Windows : v # w => saves'[v] = saves[v] /\ mem'[v] = mem[v]
        /\ UNCHANGED marks \/ Shared!InFlight(w)' # {}
    BY <1>9, EndCheckIs DEF EndCheck
  <2>2. Shows(w)' BY <1>1, <2>1 DEF Shows
  <2> QED BY <1>0, <2>1, <2>2, ShowsOn
<1>10. CASE \E w \in Windows : WindowSteps(w)
  BY <1>3, <1>4, <1>5, <1>6, <1>7, <1>8, <1>9, <1>10 DEF WindowSteps
<1>11. CASE Mark
  <2>1. \/ seen' = {} \/ UNCHANGED <<marks, excuse>> \/ excuse'
    BY <1>11, MarkIs, BusyHasLeft DEF Mark, AgentBusy, Sane, Shared!StampMoves
  <2> QED BY <1>1, <1>2, <2>1
<1>12. CASE Record BY <1>2, <1>12 DEF Record, Shared!WriteOtherKey, Shared!StampMoves
<1>13. CASE Clock
  <2>1. UNCHANGED marks BY <1>13 DEF Clock
  <2>2. CASE UNCHANGED excuse BY <1>1, <2>1, <2>2
  <2>3. CASE excuse' = \E w \in Windows : Unsettled(w) \/ mem[w] # MarksOf(file)
    <3>1. \A v \in Windows : mem[v] = MarksOf(file) BY <2>3
    <3> QED BY <2>1, <3>1 DEF Shows, Shared!ShowsFile, MarksOf, marks
  <2> QED BY <1>13, <2>2, <2>3 DEF Clock
<1>14. CASE AgentStarts \/ AgentDies \/ AgentTick \/ (\E k \in Kinds : Shown(k)) \/ ShowFails
  <2>1. UNCHANGED marks /\ (excuse => excuse')
    <3>1. CASE AgentTick BY <3>1, TickIs DEF AgentTick, Sane
    <3>2. CASE AgentDies BY <3>2 DEF AgentDies
    <3>3. CASE AgentStarts BY <3>3 DEF AgentStarts
    <3>4. ASSUME NEW k \in Kinds, Shown(k) PROVE UNCHANGED marks /\ (excuse => excuse')
      BY <3>4 DEF Shown
    <3>5. CASE ShowFails BY <3>5 DEF ShowFails
    <3> QED BY <1>14, <3>1, <3>2, <3>3, <3>4, <3>5
  <2> QED BY <1>1, <2>1
<1>15. CASE UNCHANGED vars BY <1>1, <1>15 DEF vars
<1> QED BY <1>10, <1>11, <1>12, <1>13, <1>14, <1>15 DEF Next

(* Unless a mark failed, a window at rest that has seen the file's stamp   *)
(* has the file's marks, whatever raced for its copy.                      *)
THEOREM RestingWindowHasMarks == Spec => []MarksAreCurrent
<1>1. Init => excuse \/ SeenIsShown BY DEF Init, Shared!Init, SeenIsShown
<1>2. excuse \/ SeenIsShown => MarksAreCurrent
  BY DEF MarksAreCurrent, SeenIsShown, Shared!SettledShowsFile, Shared!AtRest
<1> QED BY <1>1, <1>2, StartsSane, SaneIsKept, CurrentIsKept, PTL DEF Spec

-----------------------------------------------------------------------------
(* One at a time: who speaks does so alone, and nothing it is about to say *)
(* was said.                                                               *)

LEMMA Rests ==
    ASSUME NEW v, UNCHANGED <<check[v], saves[v]>>
    PROVE  Unsettled(v)' <=> Unsettled(v)
BY DEF Unsettled, Shared!InFlight

SameAgent ==
    /\ AgentBusy' <=> AgentBusy
    /\ AgentBusy => agent'.at = agent.at /\ agent'.left = agent.left

(* Nothing has changed that matters to who is speaking.                    *)
LEMMA SpeaksOn ==
    ASSUME OneSpeaks, SameAgent, UNCHANGED <<day, said, check, saves, file>>,
           \A w \in Windows : check[w] # NoCheck /\ ~Behind(w) => ~Behind(w)'
    PROVE  OneSpeaks'
<1>1. /\ \A v \in Windows : Unsettled(v)' <=> Unsettled(v)
      /\ \A v \in Windows : Shared!InFlight(v)' = Shared!InFlight(v)
  BY Rests DEF Shared!InFlight
<1>2. \A W \in SUBSET Windows : Settled(W)' <=> Settled(W) BY <1>1 DEF Settled
<1>3. /\ MarksOf(file)' = MarksOf(file)
      /\ \A V, T : Heard(V, T)' <=> Heard(V, T)
  BY DEF MarksOf, Heard, HeardIn, MarkedToday
<1>4. CASE Silence BY <1>2, <1>3, <1>4 DEF Silence, SameAgent, OneSpeaks
<1>5. CASE AgentTells
  BY <1>2, <1>3, <1>5 DEF AgentTells, SameAgent, OneSpeaks, AgentBusy
<1>6. CASE AgentMarks
  BY <1>2, <1>3, <1>6 DEF AgentMarks, SameAgent, OneSpeaks, AgentBusy
<1>7. ASSUME NEW w \in Windows, WindowTells(w) PROVE WindowTells(w)'
  <2>1. ToldTopics(w)' = ToldTopics(w) BY DEF ToldTopics
  <2> QED BY <1>1, <1>2, <1>3, <1>7, <2>1 DEF WindowTells, SameAgent
<1>8. ASSUME NEW w \in Windows, WindowMarks(w) PROVE WindowMarks(w)'
  BY <1>1, <1>2, <1>3, <1>8 DEF WindowMarks, SameAgent
<1> QED BY <1>4, <1>5, <1>6, <1>7, <1>8 DEF OneSpeaks

(* A window that speaks is the only one.                                   *)
LEMMA SpeakerIs ==
    ASSUME OneSpeaks, NEW w \in Windows, Unsettled(w)
    PROVE  WindowTells(w) \/ WindowMarks(w)
BY DEF OneSpeaks, Silence, AgentTells, AgentMarks, WindowTells, WindowMarks, Settled

LEMMA AgentSpeaks ==
    ASSUME OneSpeaks
    PROVE  /\ agent.at = "telling" => AgentTells
           /\ agent.at = "marking" => AgentMarks
           /\ ~AgentBusy /\ Settled(Windows) => Silence
BY DEF OneSpeaks, Silence, AgentTells, AgentMarks, WindowTells, WindowMarks, Settled, AgentBusy,
       Unsettled

(* What a window makes up its mind to say nobody has said, if its copy has *)
(* the marks of all that was said.                                         *)
LEMMA WindowDueIs ==
    ASSUME Sane, NEW w \in Windows, Heard(mem[w], said)
    PROVE  Unsaid(InOrder(WindowDue(WindowFacts(w))), said)
<1> DEFINE due == WindowDue(WindowFacts(w))
<1>1. /\ due \subseteq {"daily-reminder", "phone-report"}
      /\ "daily-reminder" \in due =>
            ~MarkedToday(mem[w], "daily-reminder") /\ ~MarkedToday(mem[w], "bg-seder-1")
      /\ "phone-report" \in due => ~MarkedToday(mem[w], "phone-report")
  BY DEF WindowDue, WindowFacts, When, MarkedToday
<1>2. \A k \in due : ~HeardIn(mem[w], Topic(k))
  BY <1>1 DEF HeardIn, Topic, Kinds
<1>3. \A k \in due : Topic(k) \notin said BY <1>2 DEF Heard
<1>4. \A j, k \in due : Topic(j) = Topic(k) => j = k BY <1>1 DEF Topic
<1> HIDE DEF due
<1>5. Once(InOrder(due), Kinds \cap due) BY InOrderIs
<1>6. \A i \in 1..Len(InOrder(due)) : InOrder(due)[i] \in due BY <1>5 DEF Once
<1>7. Unsaid(InOrder(due), said)
  BY <1>3, <1>4, <1>5, <1>6 DEF Unsaid, Once
<1> QED BY <1>7 DEF due

(* The same of the agent, whose snapshot may have more marks than the file.*)
LEMMA AgentDueIs ==
    ASSUME Sane, NEW s, Heard(MarksOf(file), said),
           \A k \in Kinds : MarkedToday(MarksOf(file), k) => s.sent[k] = day
    PROVE  Unsaid(InOrder(AgentDue(AgentFacts(s))), said)
<1> DEFINE due == AgentDue(AgentFacts(s))
<1>1. /\ due \subseteq {"bg-seder-1", "bg-seder-2", "phone-report"}
      /\ "bg-seder-1" \in due => s.sent["bg-seder-1"] # day /\ s.sent["daily-reminder"] # day
      /\ "bg-seder-2" \in due => s.sent["bg-seder-2"] # day
      /\ "phone-report" \in due => s.sent["phone-report"] # day
  BY DEF AgentDue, AgentFacts, When, BgKind
<1>2. \A k \in due : ~HeardIn(MarksOf(file), Topic(k))
  BY <1>1 DEF HeardIn, Topic, Kinds
<1>3. \A k \in due : Topic(k) \notin said BY <1>2 DEF Heard
<1>4. \A j, k \in due : Topic(j) = Topic(k) => j = k BY <1>1 DEF Topic
<1> HIDE DEF due
<1>5. Once(InOrder(due), Kinds \cap due) BY InOrderIs
<1>6. \A i \in 1..Len(InOrder(due)) : InOrder(due)[i] \in due BY <1>5 DEF Once
<1>7. Unsaid(InOrder(due), said)
  BY <1>3, <1>4, <1>5, <1>6 DEF Unsaid, Once
<1> QED BY <1>7 DEF due

(* One thing less to say.                                                  *)
LEMMA UnsaidTail ==
    ASSUME NEW left \in Seq(Kinds), left # <<>>, NEW topics, Unsaid(left, topics)
    PROVE  /\ Topic(Head(left)) \notin topics
           /\ Unsaid(Tail(left), topics \cup {Topic(Head(left))})
<1>1. /\ Len(left) \in Nat \ {0} /\ Len(Tail(left)) = Len(left) - 1 /\ Head(left) = left[1]
      /\ \A i \in 1..Len(Tail(left)) : Tail(left)[i] = left[i + 1] /\ i + 1 \in 1..Len(left)
  OBVIOUS
<1>2. Topic(Head(left)) \notin topics BY <1>1 DEF Unsaid
<1>3. \A i \in 1..Len(Tail(left)) :
        /\ Topic(Tail(left)[i]) \notin topics
        /\ Topic(Tail(left)[i]) # Topic(Head(left))
  BY <1>1 DEF Unsaid
<1>4. ASSUME NEW i \in 1..Len(Tail(left)), NEW j \in 1..Len(Tail(left)),
             Topic(Tail(left)[i]) = Topic(Tail(left)[j])
      PROVE  i = j
  BY <1>1, <1>4 DEF Unsaid
<1> QED BY <1>2, <1>3, <1>4 DEF Unsaid

(* A save lands: what was said is marked in the file.                      *)
LEMMA CarriedSpeaks ==
    ASSUME Sane, OneSpeaks, NEW w \in Windows, Carried(w)
    PROVE  OneSpeaks'
<1>1. PICK n \in 1..MaxInFlight : Shared!Write(w, n) BY DEF Carried
<1>2. /\ n \in Shared!InFlight(w) /\ file' = saves[w][n].value /\ file' \in Marks
      /\ Shared!InFlight(w)' = Shared!InFlight(w) \ {n}
      /\ \A v \in Windows : v # w => saves'[v] = saves[v]
  BY <1>1, WriteIs DEF Sane
<1>3. WindowMarks(w)
  BY <1>2, SpeakerIs DEF Unsettled, WindowTells
<1>4. UNCHANGED <<day, check, said>> /\ agent'.at = agent.at
  BY StampMovesIs DEF Carried, world, Sane
<1>5. Shared!InFlight(w)' = {} /\ Heard(saves[w][n].value, said)
  BY <1>2, <1>3 DEF WindowMarks
<1>6. \A v \in Windows : ~Unsettled(v)'
  BY <1>2, <1>3, <1>4, <1>5, Rests DEF WindowMarks, Settled, Unsettled
<1>7. Heard(MarksOf(file), said)'
  <2>1. MarksOf(file)' = saves[w][n].value BY <1>2, ReminderAssumption DEF MarksOf
  <2> QED BY <1>4, <1>5, <2>1 DEF Heard, HeardIn, MarkedToday
<1>8. ~AgentBusy' BY <1>3, <1>4 DEF WindowMarks, AgentBusy
<1> QED BY <1>6, <1>7, <1>8 DEF OneSpeaks, Silence, Settled

(* A poll that would bring back older marks is not one of a window that    *)
(* speaks.                                                                 *)
LEMMA PollingSpeaks ==
    ASSUME Sane, OneSpeaks, NEW w \in Windows, Polling(w)
    PROVE  OneSpeaks'
<1>1. /\ Takes(w) /\ UNCHANGED <<file, saves>>
      /\ poll'[w].at = "loaded" => poll'[w].got = file
      /\ \A v \in Windows : v # w => mem'[v] = mem[v] /\ poll'[v] = poll[v]
  BY SyncIs DEF Polling, Sane
<1>2. UNCHANGED <<world, check, agent, said, excuse>> BY DEF Polling
<1>3. ASSUME NEW v \in Windows, ~Behind(v) PROVE ~Behind(v)'
  <2>1. CASE v # w BY <1>1, <1>3, <2>1 DEF Behind, MarksOf
  <2>2. CASE v = w
    <3>1. mem'[w] = mem[w] \/ (file # Nothing /\ mem'[w] = file)
      BY <1>1, <1>3, <2>2 DEF Takes, Behind, MarksOf
    <3> QED BY <1>1, <1>3, <2>2, <3>1 DEF Behind, MarksOf
  <2> QED BY <2>1, <2>2
<1> QED BY <1>1, <1>2, <1>3, SpeaksOn DEF SameAgent, AgentBusy, world

(* The window that closes had nothing on its mind.                         *)
LEMMA CloseSpeaks ==
    ASSUME Sane, OneSpeaks, NEW w \in Windows, Close(w), ~excuse'
    PROVE  OneSpeaks'
<1>1. ~Unsettled(w) BY DEF Close
<1>2. /\ Shared!InFlight(w)' = {} /\ UNCHANGED <<file, mem>>
      /\ \A v \in Windows : v # w => saves'[v] = saves[v] /\ poll'[v] = poll[v]
  BY ReopenIs DEF Close, Sane
<1>3. /\ check'[w] = NoCheck /\ \A v \in Windows : v # w => check'[v] = check[v]
      /\ UNCHANGED <<world, agent, said>>
  BY NoCheckIs DEF Close, Sane
<1>4. \A v \in Windows : Unsettled(v)' <=> Unsettled(v)
  BY <1>1, <1>2, <1>3, Rests DEF Unsettled
<1>5. \A W \in SUBSET Windows : Settled(W)' <=> Settled(W) BY <1>4 DEF Settled
<1>6. /\ MarksOf(file)' = MarksOf(file) /\ (AgentBusy' <=> AgentBusy)
      /\ \A V, T : Heard(V, T)' <=> Heard(V, T)
  BY <1>2, <1>3 DEF MarksOf, Heard, HeardIn, MarkedToday, AgentBusy, world
<1>7. CASE Silence BY <1>3, <1>5, <1>6, <1>7 DEF Silence, OneSpeaks
<1>8. CASE AgentTells BY <1>3, <1>5, <1>6, <1>8 DEF AgentTells, OneSpeaks
<1>9. CASE AgentMarks BY <1>3, <1>5, <1>6, <1>9 DEF AgentMarks, OneSpeaks
<1>10. ASSUME NEW v \in Windows, WindowTells(v) PROVE WindowTells(v)'
  <2>1. v # w BY <1>1, <1>10 DEF WindowTells, Unsettled
  <2>2. /\ ToldTopics(v)' = ToldTopics(v) /\ Shared!InFlight(v)' = Shared!InFlight(v)
        /\ (Behind(v)' <=> Behind(v)) /\ UNCHANGED <<check[v], said>>
    BY <1>2, <1>3, <2>1 DEF ToldTopics, Shared!InFlight, Behind, MarksOf
  <2> QED BY <1>5, <1>6, <1>10, <2>2 DEF WindowTells
<1>11. ASSUME NEW v \in Windows, WindowMarks(v) PROVE WindowMarks(v)'
  <2>1. v # w BY <1>1, <1>11 DEF WindowMarks, Unsettled
  <2>2. /\ Shared!InFlight(v)' = Shared!InFlight(v)
        /\ UNCHANGED <<check[v], saves[v], said>>
    BY <1>2, <1>3, <2>1 DEF Shared!InFlight
  <2> QED BY <1>5, <1>6, <1>11, <2>2 DEF WindowMarks
<1> QED BY <1>7, <1>8, <1>9, <1>10, <1>11 DEF OneSpeaks

LEMMA StartCheckSpeaks ==
    ASSUME Sane, OneSpeaks, NEW w \in Windows, StartCheck(w), ~excuse'
    PROVE  OneSpeaks'
<1>1. ~AgentBusy /\ ~Behind(w) /\ Settled(Windows) BY DEF StartCheck, Settled
<1>2. Silence BY <1>1, AgentSpeaks
<1>3. /\ \A v \in Windows : v # w => check'[v] = check[v]
      /\ check'[w].at = "telling" /\ check'[w].told = {}
      /\ check'[w].left = InOrder(WindowDue(WindowFacts(w)))
  BY StartCheckIs DEF Sane
<1>4. UNCHANGED <<marks, world, agent, said>> BY DEF StartCheck
<1>5. mem[w] = MarksOf(file) BY <1>1 DEF Behind
<1>6. Unsaid(check'[w].left, said) BY <1>2, <1>3, <1>5, WindowDueIs DEF Silence
<1>7. check'[w] # NoCheck BY <1>3, ConstantsAre
<1>8. Settled(Windows \ {w})'
  BY <1>1, <1>3, <1>4, Rests DEF Settled, marks
<1>9. Shared!InFlight(w)' = {}
  BY <1>1, <1>4 DEF Settled, Unsettled, Shared!InFlight, marks
<1>10. ~Behind(w)' /\ ~AgentBusy'
  BY <1>1, <1>4 DEF Behind, AgentBusy, MarksOf, marks
<1>11. Heard(MarksOf(file), said \ ToldTopics(w))'
  <2>1. MarksOf(file)' = MarksOf(file) /\ UNCHANGED <<said, day>>
    BY <1>4 DEF MarksOf, marks, world
  <2> QED BY <1>2, <2>1 DEF Silence, Heard, HeardIn, MarkedToday
<1>12. WindowTells(w)' BY <1>4, <1>6, <1>7, <1>8, <1>9, <1>10, <1>11 DEF WindowTells
<1> QED BY <1>12 DEF OneSpeaks

LEMMA ToldSpeaks ==
    ASSUME Sane, OneSpeaks, NEW w \in Windows, NEW kind \in Kinds, Told(w, kind)
    PROVE  OneSpeaks' /\ Topic(kind) \notin said
<1>1. /\ check[w].left # <<>> /\ Head(check[w].left) = kind
      /\ \A v \in Windows : v # w => check'[v] = check[v]
      /\ check'[w].at = check[w].at /\ check'[w].left = Tail(check[w].left)
      /\ \/ check'[w].told = check[w].told /\ said' = said
         \/ check'[w].told = check[w].told \cup {kind} /\ said' = said \cup {Topic(kind)}
  BY ToldIs DEF Sane
<1>2. check[w] # NoCheck /\ check[w].at = "telling" BY <1>1, TellingIs
<1>3. WindowTells(w) BY <1>2, SpeakerIs DEF Unsettled, WindowMarks
<1>4. check[w].left \in Seq(Kinds) BY DEF Sane, TypeOK, Checks
<1>5. Topic(kind) \notin said /\ Unsaid(Tail(check[w].left), said \cup {Topic(kind)})
  BY <1>1, <1>3, <1>4, UnsaidTail DEF WindowTells
<1>6. UNCHANGED <<marks, world, agent, excuse>> BY DEF Told
<1>7. Unsaid(check'[w].left, said') BY <1>1, <1>5 DEF Unsaid
<1>8. Heard(MarksOf(file), said \ ToldTopics(w))'
  <2>1. MarksOf(file)' = MarksOf(file) /\ UNCHANGED day BY <1>6 DEF MarksOf, marks, world
  <2>2. (said \ ToldTopics(w))' \subseteq said \ ToldTopics(w)
    BY <1>1 DEF ToldTopics
  <2>3. Heard(MarksOf(file), said \ ToldTopics(w)) BY <1>3 DEF WindowTells
  <2> QED BY <2>1, <2>2, <2>3 DEF Heard, HeardIn, MarkedToday
<1>9. check'[w] # NoCheck BY <1>1, <1>2, ConstantsAre
<1>10. Settled(Windows \ {w})'
  BY <1>1, <1>3, <1>6, Rests DEF WindowTells, Settled, marks
<1>11. Shared!InFlight(w)' = {} /\ ~Behind(w)' /\ ~AgentBusy'
  BY <1>3, <1>6 DEF WindowTells, Shared!InFlight, Behind, MarksOf, AgentBusy, marks
<1>12. WindowTells(w)' BY <1>7, <1>8, <1>9, <1>10, <1>11 DEF WindowTells
<1> QED BY <1>5, <1>12 DEF OneSpeaks

(* What was said is in the copy that is sent, with all that the file had.  *)
LEMMA EndCheckSpeaks ==
    ASSUME Sane, OneSpeaks, NEW w \in Windows, EndCheck(w)
    PROVE  OneSpeaks'
<1>1. /\ check'[w] = NoCheck /\ \A v \in Windows : v # w => check'[v] = check[v]
      /\ check[w].left = <<>> /\ check[w] # NoCheck /\ UNCHANGED <<file, day>>
      /\ \A v \in Windows : v # w => saves'[v] = saves[v]
      /\ \/ check[w].told = {} /\ UNCHANGED marks
         \/ \E n \in 1..MaxInFlight :
               /\ Shared!InFlight(w)' = Shared!InFlight(w) \cup {n}
               /\ saves'[w][n].value = Marked(w)
  BY EndCheckIs
<1>2. WindowTells(w) BY <1>1, SpeakerIs DEF Unsettled, WindowMarks
<1>3. UNCHANGED <<agent, said>> BY DEF EndCheck
<1>4. ~AgentBusy' BY <1>2, <1>3 DEF WindowTells, AgentBusy
<1>5. Settled(Windows \ {w})' BY <1>1, <1>2, Rests DEF WindowTells, Settled
<1>6. CASE check[w].told = {} /\ UNCHANGED marks
  <2>1. Heard(MarksOf(file), said)'
    <3>1. MarksOf(file)' = MarksOf(file) BY <1>6 DEF MarksOf, marks
    <3>2. said \ ToldTopics(w) = said BY <1>6 DEF ToldTopics
    <3> QED BY <1>1, <1>2, <1>3, <3>1, <3>2 DEF WindowTells, Heard, HeardIn, MarkedToday
  <2>2. ~Unsettled(w)'
    BY <1>1, <1>2, <1>6 DEF WindowTells, Unsettled, Shared!InFlight, marks
  <2>3. Silence' BY <1>4, <1>5, <2>1, <2>2 DEF Silence, Settled
  <2> QED BY <2>3 DEF OneSpeaks
<1>7. ASSUME NEW n \in 1..MaxInFlight, Shared!InFlight(w)' = Shared!InFlight(w) \cup {n},
             saves'[w][n].value = Marked(w)
      PROVE  WindowMarks(w)'
  <2>1. Shared!InFlight(w)' = {n} BY <1>2, <1>7 DEF WindowTells
  <2>2. mem[w] = MarksOf(file) BY <1>2 DEF WindowTells, Behind
  <2>3. \A k \in Kinds : Marked(w)[k] = IF k \in check[w].told THEN day ELSE MarksOf(file)[k]
    BY <2>2, TellingIs DEF Marked, EndCheck
  <2>4. Heard(Marked(w), said)
    <3> SUFFICES ASSUME NEW t \in said PROVE HeardIn(Marked(w), t) BY DEF Heard
    <3>1. CASE t \in ToldTopics(w)
      <4>1. PICK k \in check[w].told : Topic(k) = t BY <3>1 DEF ToldTopics
      <4>2. k \in Kinds BY DEF Sane, TypeOK, Checks
      <4> QED BY <2>3, <4>1, <4>2 DEF HeardIn, MarkedToday
    <3>2. CASE t \notin ToldTopics(w)
      <4>1. PICK k \in Kinds : Topic(k) = t /\ MarksOf(file)[k] = day
        BY <1>2, <3>2 DEF WindowTells, Heard, HeardIn, MarkedToday
      <4> QED BY <2>3, <4>1 DEF HeardIn, MarkedToday
    <3> QED BY <3>1, <3>2
  <2>5. Heard(saves[w][n].value, said)'
    BY <1>1, <1>3, <1>7, <2>4 DEF Heard, HeardIn, MarkedToday
  <2> QED BY <1>1, <1>4, <1>5, <2>1, <2>5 DEF WindowMarks
<1> QED BY <1>1, <1>6, <1>7 DEF OneSpeaks

LEMMA AgentStartsSpeaks ==
    ASSUME Sane, OneSpeaks, AgentStarts \/ AgentDies, ~excuse'
    PROVE  OneSpeaks'
<1>1. UNCHANGED <<marks, world, check, said>> /\ agent.at # "marking"
  BY DEF AgentStarts, AgentDies
<1>2. ~AgentBusy' BY DEF AgentStarts, AgentDies, AgentBusy, Stopped
<1>3. CASE agent.at = "telling"
  <2>1. AgentTells BY <1>3, AgentSpeaks
  <2>2. Settled(Windows)' /\ MarksOf(file)' = MarksOf(file)
    BY <1>1, <2>1, Rests DEF AgentTells, Settled, MarksOf, marks
  <2>3. Heard(MarksOf(file), said)'
    BY <1>1, <2>1, <2>2 DEF AgentTells, Heard, HeardIn, MarkedToday, world
  <2>4. Silence' BY <1>2, <2>2, <2>3 DEF Silence
  <2> QED BY <2>4 DEF OneSpeaks
<1>4. CASE agent.at # "telling"
  BY <1>1, <1>2, <1>4, SpeaksOn DEF SameAgent, AgentBusy, Behind, MarksOf, marks, world
<1> QED BY <1>3, <1>4

LEMMA AgentTickSpeaks ==
    ASSUME Sane, OneSpeaks, AgentTick, ~excuse'
    PROVE  OneSpeaks'
<1>1. /\ agent'.at \in {"asleep", "telling"}
      /\ agent'.left = InOrder(AgentDue(AgentFacts(agent'.snapshot)))
      /\ agent'.at = "telling" => agent'.left # <<>>
      /\ agent'.left # <<>> => \A w \in Windows : ~Unsettled(w)
  BY TickIs DEF Sane
<1>2. UNCHANGED <<marks, world, check, said>> /\ agent.at = "asleep" BY DEF AgentTick
<1>3. CASE agent'.at = "asleep"
  BY <1>2, <1>3, SpeaksOn DEF SameAgent, AgentBusy, Behind, MarksOf, marks, world
<1>4. CASE agent'.at = "telling"
  <2>1. Settled(Windows) /\ Silence BY <1>1, <1>2, <1>4, AgentSpeaks DEF Settled, AgentBusy
  <2>2. Unsaid(agent'.left, said)
    BY <1>1, <2>1, AgentTickKeeps, AgentDueIs DEF Silence
  <2>3. Settled(Windows)' /\ MarksOf(file)' = MarksOf(file)
    BY <1>2, <2>1, Rests DEF Settled, MarksOf, marks
  <2>4. Heard(MarksOf(file), said)'
    BY <1>2, <2>1, <2>3 DEF Silence, Heard, HeardIn, MarkedToday, world
  <2>5. AgentTells' BY <1>2, <1>4, <2>2, <2>3, <2>4 DEF AgentTells
  <2> QED BY <2>5 DEF OneSpeaks
<1> QED BY <1>1, <1>3, <1>4

LEMMA ShownSpeaks ==
    ASSUME Sane, OneSpeaks, NEW kind \in Kinds, Shown(kind)
    PROVE  OneSpeaks' /\ Topic(kind) \notin said
<1>1. /\ agent.at = "telling" /\ agent'.at = "marking" /\ agent'.left = agent.left
      /\ said' = said \cup {Topic(kind)}
  BY ShownIs DEF Sane
<1>2. AgentTells BY <1>1, AgentSpeaks
<1>3. UNCHANGED <<marks, world, check, excuse>> /\ Head(agent.left) = kind BY DEF Shown
<1>4. agent.left \in Seq(Kinds) /\ agent.left # <<>>
  BY <1>1, BusyHasLeft DEF AgentBusy, Sane, TypeOK, Agents
<1>5. Topic(kind) \notin said /\ Unsaid(Tail(agent.left), said \cup {Topic(kind)})
  BY <1>2, <1>3, <1>4, UnsaidTail DEF AgentTells
<1>6. Settled(Windows)' /\ MarksOf(file)' = MarksOf(file)
  BY <1>2, <1>3, Rests DEF AgentTells, Settled, MarksOf, marks
<1>7. said' \ {Topic(Head(agent'.left))} \subseteq said BY <1>1, <1>3
<1>8. Heard(MarksOf(file), said \ {Topic(Head(agent.left))})'
  BY <1>2, <1>3, <1>6, <1>7 DEF AgentTells, Heard, HeardIn, MarkedToday, world
<1>9. Unsaid(Tail(agent.left), said)' BY <1>1, <1>5 DEF Unsaid
<1>10. AgentMarks' BY <1>1, <1>6, <1>8, <1>9 DEF AgentMarks
<1> QED BY <1>5, <1>10 DEF OneSpeaks

(* The agent goes on: whatever is left to say nobody has said.             *)
LEMMA GoesOn ==
    ASSUME Sane, NEW left, Goes(left), Unsaid(left, said), Settled(Windows)',
           Heard(MarksOf(file), said)', UNCHANGED said
    PROVE  OneSpeaks'
<1>1. CASE left = <<>>
  <2>1. Silence' BY <1>1 DEF Silence, Goes, AgentBusy
  <2> QED BY <2>1 DEF OneSpeaks
<1>2. CASE left # <<>>
  <2>1. AgentTells' BY <1>2 DEF AgentTells, Goes, Unsaid
  <2> QED BY <2>1 DEF OneSpeaks
<1> QED BY <1>1, <1>2

LEMMA ShowFailsSpeaks ==
    ASSUME Sane, OneSpeaks, ShowFails
    PROVE  OneSpeaks'
<1>1. agent.at = "telling" /\ UNCHANGED <<marks, world, check, said, excuse>> BY DEF ShowFails
<1>2. AgentTells BY <1>1, AgentSpeaks
<1>3. agent.left \in Seq(Kinds) /\ agent.left # <<>>
  BY <1>1, BusyHasLeft DEF AgentBusy, Sane, TypeOK, Agents
<1>4. Goes(Tail(agent.left)) BY <1>3, ShowFailsIs DEF Sane
<1>5. Unsaid(Tail(agent.left), said) BY <1>2, <1>3, UnsaidTail DEF AgentTells, Unsaid
<1>6. Settled(Windows)' /\ MarksOf(file)' = MarksOf(file)
  BY <1>1, <1>2, Rests DEF AgentTells, Settled, MarksOf, marks
<1>7. Heard(MarksOf(file), said)'
  BY <1>1, <1>2, <1>6 DEF AgentTells, Heard, HeardIn, MarkedToday, world
<1> QED BY <1>1, <1>4, <1>5, <1>6, <1>7, GoesOn

LEMMA MarkSpeaks ==
    ASSUME Sane, OneSpeaks, Mark, ~excuse'
    PROVE  OneSpeaks'
<1>1. agent.at = "marking" /\ UNCHANGED <<world, check, said>> BY DEF Mark
<1>2. AgentMarks BY <1>1, AgentSpeaks
<1>3. agent.left # <<>> /\ agent.day = day BY <1>1, BusyHasLeft DEF AgentBusy
<1>4. /\ Goes(Tail(agent.left)) /\ NextMarks \in Marks /\ Head(agent.left) \in Kinds
      /\ file' = NextMarks /\ UNCHANGED saves
  BY <1>3, MarkIs DEF Sane, marks
<1>5. MarksOf(file) \in Marks BY MarksAre DEF Sane, TypeOK, Shared!SharedType
<1>6. \A k \in Kinds :
        NextMarks[k] = IF k = Head(agent.left) THEN day ELSE MarksOf(file)[k]
  BY <1>3, <1>5 DEF NextMarks, Marks
<1>7. Heard(NextMarks, said)
  <2> SUFFICES ASSUME NEW t \in said PROVE HeardIn(NextMarks, t) BY DEF Heard
  <2>1. CASE t = Topic(Head(agent.left)) BY <1>4, <1>6, <2>1 DEF HeardIn, MarkedToday
  <2>2. CASE t # Topic(Head(agent.left))
    <3>1. PICK k \in Kinds : Topic(k) = t /\ MarksOf(file)[k] = day
      BY <1>2, <2>2 DEF AgentMarks, Heard, HeardIn, MarkedToday
    <3> QED BY <1>6, <3>1 DEF HeardIn, MarkedToday
  <2> QED BY <2>1, <2>2
<1>8. Heard(MarksOf(file), said)'
  <2>1. MarksOf(file)' = NextMarks BY <1>4, ReminderAssumption DEF MarksOf
  <2> QED BY <1>1, <1>7, <2>1 DEF Heard, HeardIn, MarkedToday, world
<1>9. Settled(Windows)' BY <1>1, <1>2, <1>4, Rests DEF AgentMarks, Settled
<1>10. Unsaid(Tail(agent.left), said) BY <1>2 DEF AgentMarks
<1> QED BY <1>1, <1>4, <1>8, <1>9, <1>10, GoesOn

LEMMA RecordSpeaks ==
    ASSUME Sane, OneSpeaks, Record
    PROVE  OneSpeaks'
<1>1. /\ Shared!StampMoves /\ StampMoves /\ UNCHANGED <<file, mem, saves, day, check, said>>
  BY DEF Record, Shared!WriteOtherKey
<1>2. SameAgent BY <1>1, StampMovesIs DEF Sane, SameAgent, AgentBusy
<1>3. \A w \in Windows : ~Behind(w) => ~Behind(w)'
  BY <1>1, StampsAre DEF Sane, Behind, MarksOf
<1> QED BY <1>1, <1>2, <1>3, SpeaksOn

LEMMA ClockSpeaks ==
    ASSUME Sane, excuse \/ OneSpeaks, Clock, ~excuse'
    PROVE  OneSpeaks'
<1>1. UNCHANGED <<marks, check, agent>> /\ ~AgentBusy BY DEF Clock
<1>2. CASE UNCHANGED <<day, recorded, said, excuse>>
  BY <1>1, <1>2, SpeaksOn DEF SameAgent, AgentBusy, Behind, MarksOf, marks
<1>3. CASE /\ said' = {}
           /\ excuse' = \E w \in Windows : Unsettled(w) \/ mem[w] # MarksOf(file)
  <2>1. \A w \in Windows : ~Unsettled(w)' BY <1>1, <1>3, Rests DEF marks
  <2>2. Heard(MarksOf(file), said)' BY <1>3 DEF Heard
  <2>3. Silence' BY <1>1, <2>1, <2>2 DEF Silence, Settled, AgentBusy
  <2> QED BY <2>3 DEF OneSpeaks
<1> QED BY <1>2, <1>3 DEF Clock

LEMMA OneSpeaksIsKept ==
    Sane /\ (excuse \/ OneSpeaks) /\ [Next]_vars => (excuse \/ OneSpeaks)'
<1> SUFFICES ASSUME Sane, excuse \/ OneSpeaks, [Next]_vars, ~excuse'
             PROVE  OneSpeaks'
  OBVIOUS
<1>1. CASE Clock BY <1>1, ClockSpeaks
<1>2. CASE UNCHANGED vars
  BY <1>2, SpeaksOn DEF vars, marks, world, SameAgent, AgentBusy, Behind, MarksOf
<1>3. ASSUME NEW w \in Windows, WindowSteps(w) PROVE OneSpeaks'
  <2>1. ~excuse
    BY <1>3 DEF WindowSteps, Carried, MarkIsLost, Polling, Close, StartCheck, Told, EndCheck
  <2>2. ~MarkIsLost(w) BY DEF MarkIsLost
  <2> QED
    BY <1>3, <2>1, <2>2, CarriedSpeaks, PollingSpeaks, CloseSpeaks, StartCheckSpeaks,
       ToldSpeaks, EndCheckSpeaks
    DEF WindowSteps
<1>4. CASE AgentStarts \/ AgentDies
  BY <1>4, AgentStartsSpeaks DEF AgentStarts, AgentDies
<1>5. CASE AgentTick BY <1>5, TickIs, AgentTickSpeaks DEF Sane
<1>6. ASSUME NEW k \in Kinds, Shown(k) PROVE OneSpeaks' BY <1>6, ShownSpeaks DEF Shown
<1>7. CASE ShowFails BY <1>7, ShowFailsSpeaks DEF ShowFails
<1>8. CASE Mark
  <2>1. ~excuse BY <1>8 DEF Mark
  <2> QED BY <1>8, <2>1, MarkSpeaks
<1>9. CASE Record BY <1>9, RecordSpeaks DEF Record
<1> QED BY <1>1, <1>2, <1>3, <1>4, <1>5, <1>6, <1>7, <1>8, <1>9 DEF Next

LEMMA StartsInSilence == Init => OneSpeaks
<1> SUFFICES ASSUME Init PROVE Silence BY DEF OneSpeaks
<1>1. \A w \in Windows : Shared!InFlight(w) = {}
  BY NumberIs DEF Init, Shared!Init, Shared!Idle, Shared!Numbers
<1> QED BY <1>1, ConstantsAre
        DEF Init, Silence, AgentBusy, Settled, Unsettled, Heard

SaidOnce == \A k \in Kinds : Repeated(k) => excuse

(* Nothing is said twice on a day, whoever says it, unless a mark failed,  *)
(* a program ended before its mark, or two spoke so close together that    *)
(* one had not the other's marks.                                          *)
THEOREM NothingIsSaidTwice == Spec => OncePerPeriod
<1>1. Sane /\ (excuse \/ OneSpeaks) /\ [Next]_vars => [SaidOnce]_vars
  BY ToldSpeaks, ShownSpeaks DEF SaidOnce, Repeated
<1>2. Init => excuse \/ OneSpeaks BY StartsInSilence
<1> QED
  BY <1>1, <1>2, StartsSane, SaneIsKept, OneSpeaksIsKept, PTL DEF Spec, OncePerPeriod, SaidOnce

-----------------------------------------------------------------------------
(* The agent decides on what is so.                                        *)

RightToSay ==
    agent.at = "asleep" /\ agent'.at = "telling" =>
        /\ Calendar[day] # "quiet"
        /\ \A n \in 1..2 : BgKind[n] \in {agent'.left[i] : i \in DOMAIN agent'.left} =>
              n \notin recorded /\ minute >= Starts[n] + Grace(day)
        /\ "phone-report" \in {agent'.left[i] : i \in DOMAIN agent'.left} => ~reported

(* Whatever the agent remembers and however late its ticks come: what it   *)
(* makes up its mind to say is so at that minute of that day.              *)
THEOREM AgentSpeaksTheTruth == Spec => AgentIsRight
<1>1. ASSUME Sane, AgentTick, agent'.at = "telling" PROVE RightToSay
  <2> DEFINE s == agent'.snapshot
             f == AgentFacts(s)
             due == AgentDue(f)
  <2>1. /\ agent'.left = InOrder(due) /\ agent'.left # <<>>
        /\ s.row = Row(day) /\ s.recorded = recorded /\ s.reported = reported
    BY <1>1, TickIs, AgentTickKeeps DEF Sane
  <2>2. Once(agent'.left, Kinds \cap due) BY <2>1, InOrderIs
  <2>3. \A i \in DOMAIN agent'.left : agent'.left[i] \in due BY <2>2 DEF Once
  <2>4. 1 \in DOMAIN agent'.left BY <2>1, <2>2 DEF Once
  <2>5. due # {} BY <2>3, <2>4
  <2>6. /\ f.row = Row(day) /\ f.recorded = recorded /\ f.reported = reported
        /\ f.minute = minute
    BY <2>1 DEF AgentFacts
  <2> HIDE DEF s, f
  <2>7. Calendar[day] # "quiet"
    <3>1. ~f.row.quiet BY <2>5 DEF AgentDue
    <3>2. Row(day).quiet = (Calendar[day] = "quiet") BY DEF Row, PlanRow
    <3> QED BY <2>6, <3>1, <3>2
  <2>8. ASSUME NEW n \in 1..2, BgKind[n] \in due
        PROVE  n \notin recorded /\ minute >= Starts[n] + Grace(day)
    <3>1. PICK x \in 1..2 : /\ BgKind[n] = BgKind[x] /\ x \notin f.recorded
                            /\ f.row.at[x] # Never /\ f.minute >= f.row.at[x]
      BY <2>5, <2>8 DEF AgentDue, When, BgKind
    <3>2. n = x BY <3>1 DEF BgKind
    <3>3. Row(day).at[n] # Never => Row(day).at[n] = Starts[n] + Grace(day)
      BY DEF Row, PlanRow
    <3> QED BY <2>6, <3>1, <3>2, <3>3
  <2>9. "phone-report" \in due => ~reported
    BY <2>5, <2>6 DEF AgentDue, When, BgKind
  <2> HIDE DEF due
  <2> QED BY <2>3, <2>7, <2>8, <2>9 DEF RightToSay
<1>2. Sane /\ [Next]_vars => [RightToSay]_vars
  <2> SUFFICES ASSUME Sane, [Next]_vars, agent.at = "asleep", agent'.at = "telling"
               PROVE  RightToSay
    BY DEF RightToSay
  <2>1. ASSUME NEW w \in Windows, WindowSteps(w) PROVE FALSE
    <3>1. agent'.at = agent.at
      BY <2>1, StampMovesIs
      DEF WindowSteps, Carried, MarkIsLost, Polling, Close, StartCheck, Told, EndCheck, Sane
    <3> QED BY <3>1
  <2>2. CASE AgentTick BY <1>1, <2>2
  <2>3. ~Record BY StampMovesIs DEF Record, Sane
  <2>4. ~AgentDies BY ConstantsAre DEF AgentDies
  <2>5. /\ ~AgentStarts /\ (\A k \in Kinds : ~Shown(k)) /\ ~ShowFails /\ ~Mark /\ ~Clock
    BY DEF AgentStarts, Shown, ShowFails, Mark, Clock
  <2>6. ~UNCHANGED vars BY DEF vars
  <2> QED BY <2>1, <2>2, <2>3, <2>4, <2>5, <2>6 DEF Next
<1> QED
  BY <1>2, StartsSane, SaneIsKept, PTL DEF Spec, AgentIsRight, RightToSay
=============================================================================
