--------------------------- MODULE ReminderRules ---------------------------
(***************************************************************************)
(* Which reminders are due: the rules of the windows (decideNotifications  *)
(* in notifications.ts), of the agent (decide in plan.rs), and the         *)
(* timetable the windows write for the agent (background-plan.ts).         *)
(* Times are minutes of the day; a period is a day, a week or a month, by  *)
(* number, 0 for none.                                                     *)
(***************************************************************************)
EXTENDS Integers

BASE_GRACE_MIN == 20
MAX_GRACE_MIN  == 90
REPORT_WINDOW_LAST_DAY == 5
Never == -1                     \* no such time today

Least(a, b) == IF a <= b THEN a ELSE b
Most(a, b)  == IF a >= b THEN a ELSE b
When(condition, kind) == IF condition THEN {kind} ELSE {}

(* How long after the start of a seder the reminder waits: the habit plus  *)
(* a margin, half of it on the weekday that most often falls short.        *)
GraceMinutes(habit, onWeakDay) ==
    LET grace == Least(MAX_GRACE_MIN, BASE_GRACE_MIN + Most(0, habit))
    IN  IF onWeakDay THEN (grace + 1) \div 2 ELSE grace

-----------------------------------------------------------------------------
(* The timetable.  A day of the calendar is "quiet" (Shabbat, Yom Tov and  *)
(* their eves), "between" (bein hazmanim), "fast" (no second seder) or     *)
(* "learning".                                                             *)
DayKinds == {"quiet", "between", "fast", "learning"}
NoRow == [quiet |-> FALSE, at |-> <<Never, Never>>, known |-> FALSE]

(* buildPlan, one day of it.  `starts` are the two sedarim's starts.       *)
PlanRow(dayKind, starts, grace) ==
    [known |-> TRUE,
     quiet |-> dayKind = "quiet",
     at |-> [s \in 1..2 |->
        IF \/ dayKind \in {"quiet", "between"}
           \/ dayKind = "fast" /\ s = 2
        THEN Never ELSE starts[s] + grace]]

BgKind == <<"bg-seder-1", "bg-seder-2">>

(* decide: what the agent says.  Its facts are a snapshot of the file with *)
(* the clock; a row it does not have, or a quiet day, silences everything. *)
AgentDue(f) ==
    IF ~f.desktop \/ ~f.row.known \/ f.row.quiet THEN {}
    ELSE {BgKind[s] : s \in {x \in 1..2 :
             /\ f.daily
             /\ f.row.at[x] # Never /\ f.minute >= f.row.at[x]
             /\ x \notin f.recorded
             /\ f.sent[BgKind[x]] # f.today
             /\ x = 1 => f.sent["daily-reminder"] # f.today}}
         \cup When(/\ f.phone /\ ~f.reported
                   /\ f.dayOfMonth <= REPORT_WINDOW_LAST_DAY
                   /\ f.minute >= f.phoneAt
                   /\ f.sent["phone-report"] # f.today, "phone-report")

(* Mutant of WindowDue: a window does not ask what the agent has said.     *)
WindowDueAlone(f) ==
    IF ~f.popups /\ ~f.desktop THEN {}
    ELSE When(/\ f.daily
              /\ f.dayKind \in {"learning", "fast"}
              /\ f.recorded = {}
              /\ f.sent["daily-reminder"] # f.today
              /\ f.minute >= f.start + f.grace, "daily-reminder")
         \cup {k \in f.pressing : f.sent[k] # f.period[k]}
         \cup When(/\ f.phone /\ ~f.reported
                   /\ f.dayOfMonth <= REPORT_WINDOW_LAST_DAY
                   /\ f.minute >= f.phoneAt
                   /\ f.sent["phone-report"] # f.today, "phone-report")

(* decideNotifications: what a window says.  Whether the quota, the week   *)
(* or the forecast call for a word is in `pressing`.                       *)
WindowDue(f) ==
    IF ~f.popups /\ ~f.desktop THEN {}
    ELSE When(/\ f.daily
              /\ f.dayKind \in {"learning", "fast"}
              /\ f.recorded = {}
              /\ f.sent["daily-reminder"] # f.today
              /\ f.sent["bg-seder-1"] # f.today
              /\ f.minute >= f.start + f.grace, "daily-reminder")
         \cup {k \in f.pressing : f.sent[k] # f.period[k]}
         \cup When(/\ f.phone /\ ~f.reported
                   /\ f.dayOfMonth <= REPORT_WINDOW_LAST_DAY
                   /\ f.minute >= f.phoneAt
                   /\ f.sent["phone-report"] # f.today, "phone-report")

=============================================================================
