------------------------------ MODULE Journal ------------------------------
(***************************************************************************)
(* Looking at the records (history.tsx, search.tsx and calendar.tsx over   *)
(* journal.ts, journal-search.ts, journal-state.ts and period.ts).         *)
(*                                                                         *)
(* The journal's filters, the search's filter and the selected month live  *)
(* outside the screens and survive moving between them, while the drawer   *)
(* of one record goes with its screen.  A link carries what it wants shown *)
(* in the URL; it is applied when its record is there, also when a poll    *)
(* brings the record later.                                                *)
(*                                                                         *)
(* A record has a kind, a month and a day, its seder or framework, traits  *)
(* (late, absent, early, incomplete, ohevei, bonus, excused), the words a  *)
(* search can find in it and its tags.  A filter is a set: empty for all.  *)
(***************************************************************************)
EXTENDS Naturals, FiniteSets

CONSTANTS
    Rows,            \* the ids of records
    JournalRecords,  \* what a record may be
    Phrases,         \* what may be typed into a search box
    MaxJournalActs   \* bound on what the user does

ASSUME JournalAssumption == \A r \in JournalRecords : r.kind \in {"seder", "learning"}

VARIABLES
    rows,         \* id -> record: the lists this window shows
    link,         \* the URL's parameters: none, or one link
    view,         \* the journal's tab and filters
    month,        \* the selected month, of every screen
    drawer,       \* the record whose details are open: none or one
    screen,
    search,       \* the filter of the advanced search
    promise,      \* what the last link promised to show, until the user moves on
    journalActs

journalVars == <<rows, link, view, month, drawer, screen, search, promise, journalActs>>

RowMonths == {r.month : r \in JournalRecords}
AtMostOne(S) == {{}} \cup {{x} : x \in S}
Frameworks == {"kollel-erev", "torato-beyado", "bein-hazmanim"}
TypeFilters == {"exceptions", "late", "absent", "early", "incomplete", "ohevei", "bonus"}
DefaultView(tab) ==
    [tab |-> tab, q |-> {}, seder |-> {}, type |-> {}, excused |-> {}, framework |-> {}]
SearchFilter == [q : AtMostOne(Phrases), type : AtMostOne({"seder", "learning"}), tag : AtMostOne(Phrases)]
EMPTY_SEARCH == [q |-> {}, type |-> {}, tag |-> {}]
NoPromise == [rows |-> {}, months |-> {}]
-----------------------------------------------------------------------------
Exceptional(r) == r.kind = "seder" /\ r.traits \cap {"late", "absent", "early"} # {}

FilterSeder(r, v) ==
    /\ v.seder \subseteq {r.sort} /\ v.q \subseteq r.words
    /\ \A t \in v.type : IF t = "exceptions" THEN Exceptional(r) ELSE t \in r.traits
    /\ \A e \in v.excused : e = ("excused" \in r.traits)

FilterLearning(r, v) == v.framework \subseteq {r.sort} /\ v.q \subseteq r.words

Listed ==
    {i \in DOMAIN rows :
        /\ rows[i].kind = view.tab /\ rows[i].month = month
        /\ IF view.tab = "seder" THEN FilterSeder(rows[i], view) ELSE FilterLearning(rows[i], view)}

(* Tags are on seder records only: a search of lessons has none.           *)
NormalizeSearchFilter(f) == IF f.type = {"learning"} THEN [f EXCEPT !.tag = {}] ELSE f

RunSearch(f) ==
    {i \in DOMAIN rows :
        LET r == rows[i] IN
        /\ f.type \subseteq {r.kind} /\ f.q \subseteq r.words
        /\ IF r.kind = "seder" THEN f.tag \subseteq r.tags ELSE f.type = {"learning"} \/ f.tag = {}}

(* A day of the calendar: a click opens its record when it shows just one. *)
CalendarDay(shown, day) ==
    {i \in DOMAIN rows : rows[i].month = month /\ rows[i].day = day /\ rows[i].kind \in shown}
-----------------------------------------------------------------------------
(* The links of the search and of the month's summaries.                   *)
OpenParams(i) == [month |-> rows[i].month, id |-> {i}, kind |-> rows[i].kind,
                  filter |-> {}, applied |-> FALSE]
ExceptionsOf(m) == [month |-> m, id |-> {}, kind |-> "seder",
                    filter |-> {"exceptions"}, applied |-> FALSE]

ResolveOpenTarget(l) == {i \in l.id \cap DOMAIN rows : rows[i].kind = l.kind}
ViewPatchFromSearch(l) ==
    [DefaultView(l.kind) EXCEPT !.type = IF l.kind = "seder" THEN l.filter ELSE {}]

(* Mutant of ViewOf: the saved filters stay.                               *)
ViewOfTab(i) == [view EXCEPT !.tab = rows[i].kind]
ViewOf(i) == DefaultView(rows[i].kind)
-----------------------------------------------------------------------------
JournalInit ==
    /\ rows \in [Rows -> JournalRecords]
    /\ link = {} /\ view = DefaultView("seder") /\ month = CHOOSE m \in RowMonths : TRUE
    /\ drawer = {} /\ screen = "journal" /\ search = EMPTY_SEARCH
    /\ promise = NoPromise /\ journalActs = 0

LinkIsReady ==
    screen = "journal" /\ \E l \in link : l.id = {} \/ ResolveOpenTarget(l) # {} \/ ~l.applied

(* The effect of the journal on its URL: it runs when the screen opens and *)
(* whenever the lists change, before the user does anything else.          *)
ApplyLink ==
    /\ screen = "journal"
    /\ \E l \in link :
        \/ /\ l.id = {}
           /\ month' = l.month /\ view' = ViewPatchFromSearch(l) /\ link' = {}
           /\ promise' = [rows |-> {}, months |-> {l.month}] /\ UNCHANGED drawer
        \/ \E i \in ResolveOpenTarget(l) :
           /\ month' = rows[i].month /\ view' = ViewOf(i) /\ link' = {}
           /\ promise' = [rows |-> {i}, months |-> {}] /\ drawer' = {i}
        \/ /\ l.id # {} /\ ResolveOpenTarget(l) = {} /\ ~l.applied
           /\ month' = l.month /\ link' = {[l EXCEPT !.applied = TRUE]}
           /\ promise' = NoPromise /\ UNCHANGED <<view, drawer>>
    /\ UNCHANGED <<rows, screen, search, journalActs>>

JournalAct == journalActs < MaxJournalActs /\ journalActs' = journalActs + 1

(* A record is edited or deleted, here or elsewhere, or comes back: also   *)
(* between the click on a link and the journal's first effect.             *)
RowChanges(i, r) ==
    /\ rows' = [j \in DOMAIN rows \cup {i} |-> IF j = i THEN r ELSE rows[j]]
    /\ rows # rows' /\ JournalAct
    /\ promise' = [promise EXCEPT !.rows = @ \ {i}]
    /\ UNCHANGED <<link, view, month, drawer, screen, search>>

RowRemoved(i) ==
    /\ i \in DOMAIN rows /\ JournalAct
    /\ rows' = [j \in DOMAIN rows \ {i} |-> rows[j]]
    /\ promise' = [promise EXCEPT !.rows = @ \ {i}]
    /\ drawer' = drawer \ {i}
    /\ UNCHANGED <<link, view, month, screen, search>>

(* One control of the screen is changed, or all filters are cleared.       *)
NextViews ==
    {DefaultView(view.tab)} \cup {[view EXCEPT !.tab = tab] : tab \in {"seder", "learning"}}
    \cup {[view EXCEPT !.q = q] : q \in AtMostOne(Phrases)}
    \cup IF view.tab = "learning"
         THEN {[view EXCEPT !.framework = f] : f \in AtMostOne(Frameworks)}
         ELSE {[view EXCEPT !.seder = s] : s \in AtMostOne({1, 2})}
              \cup {[view EXCEPT !.type = t] : t \in AtMostOne(TypeFilters)}
              \cup {[view EXCEPT !.excused = e] : e \in AtMostOne(BOOLEAN)}

(* The tabs, the selects, the search box and the chips of Controls.        *)
SetView(v) ==
    /\ ~LinkIsReady /\ screen = "journal" /\ drawer = {} /\ v # view /\ JournalAct
    /\ view' = v /\ promise' = NoPromise
    /\ UNCHANGED <<rows, link, month, drawer, screen, search>>

PickMonth(m) ==
    /\ ~LinkIsReady /\ screen \in {"journal", "calendar"} /\ drawer = {} /\ m # month /\ JournalAct
    /\ month' = m /\ promise' = NoPromise
    /\ UNCHANGED <<rows, link, view, drawer, screen, search>>

OpenRow(i) ==
    /\ ~LinkIsReady /\ screen = "journal" /\ drawer = {} /\ i \in Listed /\ JournalAct
    /\ drawer' = {i}
    /\ UNCHANGED <<rows, link, view, month, screen, search, promise>>

PickDay(day, shown) ==
    /\ screen = "calendar" /\ drawer = {} /\ JournalAct
    /\ Cardinality(CalendarDay(shown, day)) = 1 /\ drawer' = CalendarDay(shown, day)
    /\ UNCHANGED <<rows, link, view, month, screen, search, promise>>

CloseDrawer ==
    /\ drawer # {} /\ drawer' = {} /\ JournalAct
    /\ UNCHANGED <<rows, link, view, month, screen, search, promise>>

(* Another screen: the URL is its own, the filters and the month stay.     *)
MoveTo(next) ==
    /\ next # screen /\ JournalAct
    /\ screen' = next /\ drawer' = {} /\ link' = {}
    /\ UNCHANGED <<rows, view, month, search, promise>>

SetSearch(f) ==
    /\ screen = "search" /\ JournalAct
    /\ search' = NormalizeSearchFilter(f) /\ search' # search
    /\ UNCHANGED <<rows, link, view, month, drawer, screen, promise>>

FollowLink(l) ==
    /\ screen # "journal" /\ JournalAct
    /\ screen' = "journal" /\ link' = {l} /\ drawer' = {} /\ promise' = NoPromise
    /\ UNCHANGED <<rows, view, month, search>>

OpenResult(i)    == screen = "search" /\ i \in RunSearch(search) /\ FollowLink(OpenParams(i))
ShowExceptions(m) == screen = "summary" /\ FollowLink(ExceptionsOf(m))

JournalNext ==
    \/ ApplyLink \/ CloseDrawer
    \/ \E i \in Rows :
        OpenRow(i) \/ OpenResult(i) \/ RowRemoved(i) \/ \E r \in JournalRecords : RowChanges(i, r)
    \/ \E v \in NextViews : SetView(v)
    \/ \E m \in RowMonths : PickMonth(m) \/ ShowExceptions(m)
    \/ \E r \in JournalRecords, shown \in SUBSET {"seder", "learning"} : PickDay(r.day, shown)
    \/ \E next \in {"journal", "search", "calendar", "summary"} : MoveTo(next)
    \/ \E f \in SearchFilter : SetSearch(f)
-----------------------------------------------------------------------------
(* What a link promises is on the screen: the record it opens is in the    *)
(* list behind its details, and a summary's link lists every lateness,     *)
(* absence and early departure of its month.  Whatever filters, tab and    *)
(* month were left there by earlier visits, and whatever records arrive,   *)
(* until the user moves on or the record itself changes.                   *)
LinkShowsWhatItMeant ==
    screen = "journal" =>
        /\ promise.rows \subseteq Listed
        /\ \A m \in promise.months :
            {i \in DOMAIN rows : Exceptional(rows[i]) /\ rows[i].month = m} \subseteq Listed
=============================================================================
