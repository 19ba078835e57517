------------------------------- MODULE Hours -------------------------------
(***************************************************************************)
(* The hours of the seder by date (settings-store.ts) and the form that    *)
(* changes them from a date on (useSederDraft in settings.tsx, with the    *)
(* rules of settings-hours.ts): a draft that is compared with where it was *)
(* started from, saved in the background, and kept while midnight passes   *)
(* and while the other window changes the same settings.                   *)
(***************************************************************************)
EXTENDS Naturals, SequencesExt

CONSTANTS
    HourSets,      \* the hours a seder can have
    LastDay,       \* the days are 1 .. LastDay; 0 is the "0001-01-01" of the base entry
    NoDraft,       \* nothing typed that is not saved
    MaxHourActs    \* bound on changes

ASSUME HoursAssumption == LastDay \in Nat \ {0}

VARIABLES
    today,
    settings,   \* base hours, schedule (day -> hours, in force from that day), overrides
    draft, baseline,   \* [times, from]
    seen,       \* today and its hours as the form last followed them
    saving,     \* the saves under way: what was saved and the settings before it
    removed,    \* the schedule the "undo" of a deletion would bring back
    typed,      \* what the user typed since the last save or cancel, or NoDraft
    hourActs

hourVars == <<today, settings, draft, baseline, seen, saving, removed, typed, hourActs>>

Days == 1 .. LastDay
-----------------------------------------------------------------------------
(* getSederTimesFor: the override that starts last (the newest of those    *)
(* that start together), else the last schedule entry begun, else the base.*)
TimesFor(s, day) ==
    LET over  == {k \in DOMAIN s.overrides : day >= s.overrides[k].from /\ day <= s.overrides[k].to}
        begun == {from \in DOMAIN s.schedule : from <= day}
    IN  IF over # {}
        THEN s.overrides[CHOOSE k \in over : \A j \in over :
                            \/ s.overrides[j].from < s.overrides[k].from
                            \/ s.overrides[j].from = s.overrides[k].from /\ j <= k].times
        ELSE IF begun # {} THEN s.schedule[Max(begun)] ELSE s.base

Entered(schedule, times, from) ==
    [day \in {from} \cup DOMAIN schedule |-> IF day = from THEN times ELSE schedule[day]]

(* Mutant of HoursPatch: the hours until now are not put on record first.  *)
HoursPatchOnly(s, times, from) ==
    [s EXCEPT !.schedule = Entered(@, times, from), !.base = times]

(* sederHoursPatch: the first change records the hours before it.          *)
HoursPatch(s, times, from) ==
    LET before == IF s.schedule = <<>> THEN Entered(<<>>, s.base, 0) ELSE s.schedule
    IN  [s EXCEPT !.schedule = Entered(before, times, from), !.base = times]

(* hoursDraftState.                                                        *)
NeedsSave == draft.times # TimesFor(settings, draft.from)
Touched   == draft # baseline
IsDraft   == NeedsSave \/ Touched

TodayKey == <<TimesFor(settings, today), today>>
Rendered == seen = TodayKey
-----------------------------------------------------------------------------
HoursInit ==
    /\ today = 1
    /\ \E hours \in HourSets :
        /\ settings = [base |-> hours, schedule |-> <<>>, overrides |-> <<>>]
        /\ draft = [times |-> hours, from |-> 1]
        /\ baseline = draft
        /\ seen = <<hours, 1>>
    /\ saving = <<>> /\ removed = <<>> /\ typed = NoDraft /\ hourActs = 0

HourAct == hourActs < MaxHourActs /\ hourActs' = hourActs + 1

(* What is typed and would be lost with the form, under settings s.        *)
Unsaved(d, base, s) ==
    IF d # NoDraft /\ (d # base \/ d.times # TimesFor(s, d.from)) THEN d ELSE NoDraft

EditDraft(next) ==
    /\ HourAct /\ Rendered
    /\ next # draft /\ (next.times = draft.times \/ next.from = draft.from)
    /\ draft' = next /\ typed' = Unsaved(next, baseline, settings)
    /\ UNCHANGED <<today, settings, baseline, seen, saving, removed>>

(* save: the settings change at once and are put back if the file refuses. *)
SaveHours ==
    /\ HourAct /\ Rendered /\ saving = <<>> /\ NeedsSave
    /\ settings' = HoursPatch(settings, draft.times, draft.from)
    /\ saving' = [draft |-> draft, before |-> settings, after |-> settings']
    /\ typed' = Unsaved(typed, baseline, settings')
    /\ UNCHANGED <<today, draft, baseline, seen, removed>>

HoursSaved ==
    /\ saving # <<>>
    /\ baseline' = saving.draft
    /\ typed' = Unsaved(typed, baseline', settings)
    /\ saving' = <<>>
    /\ UNCHANGED <<today, settings, draft, seen, removed, hourActs>>

HoursNotSaved ==
    /\ saving # <<>>
    /\ settings' = IF settings = saving.after THEN saving.before ELSE settings
    /\ typed' = Unsaved(typed, baseline, settings')
    /\ saving' = <<>>
    /\ UNCHANGED <<today, draft, baseline, seen, removed, hourActs>>

CancelDraft ==
    /\ HourAct /\ Rendered /\ IsDraft
    /\ draft' = baseline /\ typed' = NoDraft
    /\ UNCHANGED <<today, settings, baseline, seen, saving, removed>>

(* Mutant of FollowToday: the form follows today whatever was typed in it. *)
FollowAlways ==
    /\ ~Rendered
    /\ seen' = TodayKey
    /\ draft' = [times |-> TimesFor(settings, today), from |-> today]
    /\ baseline' = draft'
    /\ UNCHANGED <<today, settings, saving, removed, typed, hourActs>>

(* The render after today or its hours changed.                            *)
FollowToday ==
    /\ ~Rendered
    /\ seen' = TodayKey
    /\ draft' = IF IsDraft THEN draft ELSE [times |-> TimesFor(settings, today), from |-> today]
    /\ baseline' = IF IsDraft THEN baseline ELSE draft'
    /\ UNCHANGED <<today, settings, saving, removed, typed, hourActs>>

(* What else changes the hours: the history and the temporary changes on   *)
(* the same page, the undo of a deletion, the other window.                *)
Changes(s) ==
    /\ HourAct /\ Rendered /\ s # settings
    /\ settings' = s /\ typed' = Unsaved(typed, baseline, s)
    /\ UNCHANGED <<today, draft, baseline, seen, saving>>

RemoveEntry(from) ==
    /\ from \in DOMAIN settings.schedule
    /\ Changes([settings EXCEPT !.schedule = Restrict(@, DOMAIN @ \ {from})])
    /\ removed' = settings.schedule

UndoRemove ==
    /\ removed # <<>>
    /\ Changes([settings EXCEPT !.schedule = removed])
    /\ removed' = <<>>

AddOverride(from, to, times) ==
    /\ from <= to /\ Len(settings.overrides) < 2
    /\ Changes([settings EXCEPT !.overrides =
                    Append(@, [from |-> from, to |-> to, times |-> times])])
    /\ UNCHANGED removed

RemoveOverride(k) ==
    /\ k \in DOMAIN settings.overrides
    /\ Changes([settings EXCEPT !.overrides = RemoveAt(@, k)])
    /\ UNCHANGED removed

OtherWindowSets(times, from) ==
    /\ Changes(HoursPatch(settings, times, from))
    /\ UNCHANGED removed

Midnight ==
    /\ today < LastDay /\ Rendered
    /\ today' = today + 1
    /\ UNCHANGED <<settings, draft, baseline, seen, saving, removed, typed, hourActs>>

HoursNext ==
    \/ \E times \in HourSets, from \in Days :
        \/ EditDraft([times |-> times, from |-> from])
        \/ \E to \in Days : AddOverride(from, to, times)
        \/ OtherWindowSets(times, from)
    \/ SaveHours \/ HoursSaved \/ HoursNotSaved \/ CancelDraft
    \/ FollowToday \/ Midnight
    \/ \E from \in 0 .. LastDay : RemoveEntry(from)
    \/ \E k \in 1 .. 2 : RemoveOverride(k)
    \/ UndoRemove
-----------------------------------------------------------------------------
(* New hours saved from a date on leave every day before it the hours it   *)
(* had, so no past record is scored anew, unless the user has deleted the  *)
(* entry with the hours before the first change.                           *)
PastKeepsItsHours ==
    [][\A times \in HourSets, from \in Days :
        settings' = HoursPatch(settings, times, from) /\ settings' # settings
            => \A day \in Days :
                \/ day >= from
                \/ settings.schedule # <<>> /\ 0 \notin DOMAIN settings.schedule
                \/ TimesFor(settings', day) = TimesFor(settings, day)]_hourVars

(* What the user typed stays in the form until it is saved or cancelled,   *)
(* across midnight, failed saves and changes of the hours elsewhere.       *)
TypedIsKept == typed # NoDraft => draft = typed
=============================================================================
