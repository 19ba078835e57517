------------------------------ MODULE RulesMC ------------------------------
(***************************************************************************)
(* The rules that run inside one call, each walked on its own: `Walked`    *)
(* says which one moves, the others stay where they start.                 *)
(* Merged lists: the algorithm only compares versions of the same record,  *)
(* so up to renaming the base has the version First, the sent list First   *)
(* or another, and the file First, that other, or a third one.             *)
(***************************************************************************)
EXTENDS MergeLists, Calendar, Hours, Stipend

CONSTANTS First, Second, Third

VARIABLE walked

rulesVars == <<vars, calendarVars, hourVars, stipendVars, walked>>

ListsWith(versions) == {list \in Lists : \A r \in ToSet(list) : r.version \in versions}

MergeInit ==
    /\ step = "sent" /\ conflicts = {}
    /\ IF walked = "lists"
       THEN /\ base \in [Ids -> {First, Absent}] \cup {NotList}
            /\ sent \in ListsWith({First, Second}) \cup {NotList}
            /\ file \in Lists \cup {NotList}
       ELSE base = NotList /\ sent = NotList /\ file = NotList

Init ==
    /\ walked \in {"lists", "calendar", "hours", "stipend"}
    /\ MergeInit /\ CalendarInit
    /\ HoursInit /\ (walked = "hours" \/ settings.base = CHOOSE hours \in HourSets : TRUE)
    /\ StipendInit /\ (walked = "stipend" \/ (~shasChavura /\ month = CHOOSE m \in Months : TRUE))

WalkLists    == Next /\ UNCHANGED <<calendarVars, hourVars, stipendVars, walked>>
WalkCalendar == NextDay /\ UNCHANGED <<vars, hourVars, stipendVars, walked>>
WalkHours    == HoursNext /\ UNCHANGED <<vars, calendarVars, stipendVars, walked>>
WalkStipend  == StipendNext /\ UNCHANGED <<vars, calendarVars, hourVars, walked>>

Walk ==
    \/ walked = "lists" /\ WalkLists
    \/ walked = "calendar" /\ WalkCalendar
    \/ walked = "hours" /\ WalkHours
    \/ walked = "stipend" /\ WalkStipend

Spec == Init /\ [][Walk]_rulesVars

IdSymmetry == Permutations(Ids)
-----------------------------------------------------------------------------
TheFirstDay == [year |-> 2019, month |-> 9, day |-> 30]
TheMonths == {[session |-> 1, full |-> 1], [session |-> 3, full |-> 5]}
TheSeders == {<<1, 2>>, <<2, 1>>}
TheHours == <<[start |-> 2, end |-> 5], [start |-> 2, end |-> 5]>>

Record0 == [absent |-> FALSE, arrival |-> NoTime, departure |-> NoTime, excused |-> 0,
            excusedAll |-> FALSE, adjust |-> 0, ohevei |-> FALSE]
TheRecords ==
    <<1, 2>> :> {[Record0 EXCEPT !.arrival = a, !.departure = d, !.excused = e,
                                 !.adjust = j, !.ohevei = d # NoTime] :
                     a \in {NoTime, 1, 2, 3}, d \in {NoTime, 4, 6}, e \in {0, 2}, j \in {0, -1}}
                \cup {[Record0 EXCEPT !.arrival = 3, !.departure = d, !.excusedAll = TRUE] : d \in {4, 6}}
    @@ <<2, 1>> :> {[Record0 EXCEPT !.arrival = 2, !.departure = 5],
                    [Record0 EXCEPT !.arrival = 3, !.excused = 1],
                    [Record0 EXCEPT !.absent = TRUE, !.excused = 2]}
TheLessons ==
    {[framework |-> "kollel-erev", day |-> 1, minutes |-> 2, tanitDibur |-> TRUE],
     [framework |-> "torato-beyado", day |-> 2, minutes |-> 3, tanitDibur |-> FALSE]}
ThePolicy ==
    [base |-> 9, free |-> 2, shortfallBonus |-> 2, excusedFree |-> 2, ohevei |-> 1, shas |-> 1,
     block |-> 2, hour |-> 2,
     tiers |-> <<[from |-> 2, to |-> 5, nis |-> 1], [from |-> 5, to |-> NoTime, nis |-> 2]>>,
     erev |-> [nisPerHour |-> 1, minMonthly |-> 5, maxDaily |-> 6],
     torato |-> [nisPerHour |-> 3, maxMonthly |-> 5]]
=============================================================================
