------------------------------ MODULE Entries ------------------------------
(***************************************************************************)
(* The screens that write records: in the main window the card of the      *)
(* attendance screen (attendance.tsx), the working column of the home      *)
(* screen (today-seder.tsx) and the drawer of one record (entry-drawer.tsx)*)
(* with the undo of a deletion; in the other window the quick entry        *)
(* (quick.tsx, quick-entry.ts).  Every save is the store's checked save:   *)
(* memory changes at once, the file merges by record, the answer or the    *)
(* failure comes later, and the form follows what is stored.               *)
(*                                                                         *)
(* A record is the seder of a day (or a lesson) with its arrival, NoTime   *)
(* for an absence, and whether it is excused.  Departure, marks, notes and *)
(* tags go the way of the arrival and are left out.                        *)
(***************************************************************************)
EXTENDS Naturals, FiniteSets, RecordMerge

CONSTANTS
    Ids, Days,
    Blocked,        \* days on which no attendance is recorded
    Times, NoTime,
    Hours,          \* Hours[1], Hours[2]: [start, end]
    Lesson,         \* the "seder" of a record of extra learning
    None,           \* no record shown, nothing offered, nothing typed
    MaxEntryActs    \* bound on what the users do, and on midnights

VARIABLES
    file,           \* id -> record or Absent
    memory,         \* window -> the list its store shows
    sent,           \* window -> the save under way
    today,
    shownToday,     \* window -> the day its screens take for today (useToday)
    page,           \* the main window's screen: "home", "card" or "drawer"
    card,           \* [day, form, base, newer, editing, seen, typed, told]
    undo,           \* what the toast offers to put back or take away
    quick,          \* [day: None for today or a date, editing: a seder or None,
                    \*  dialog: the one that is open or None, seder: its choice]
    crossed,        \* the day was changed while the card was saving, or a deletion
                    \* came back with another record of the same seder
    entryActs

entryVars == <<file, memory, sent, today, shownToday, page, card, undo, quick, crossed, entryActs>>

Views == {"main", "quick"}
Sederim == {1, 2}
Pages   == {"home", "card", "drawer"}
CardSeder == 1
Slot(r) == <<r.day, r.seder>>
Forms   == [time : Times \cup {NoTime}, excused : BOOLEAN]
FormOf(r) == [time |-> r.time, excused |-> r.excused]
DefaultForm == [time |-> Hours[CardSeder].start, excused |-> FALSE]

On(list, slot) == {i \in Ids : list[i] # Absent /\ Slot(list[i]) = slot}
Existing(list, slot) ==
    IF On(list, slot) = {} THEN None
    ELSE LET i == CHOOSE i \in On(list, slot) : TRUE IN [id |-> i, record |-> list[i]]

StoredRecords ==
    [day : Days, seder : Sederim \cup {Lesson}, time : Times \cup {NoTime}, excused : BOOLEAN]

MaybeRecord == StoredRecords \cup {Absent}
Lists   == [Ids -> MaybeRecord]
Screens == {"card", "card delete", "home", "drawer", "undo", "quick", "quick arrival", "gone"}
Saves   == [id : Ids, base : MaybeRecord, next : MaybeRecord, screen : Screens,
            list : Lists \cup {None}, complete : BOOLEAN]

ASSUME EntriesAssumption ==
    /\ 1 \in Days /\ Hours[CardSeder].start \in Times \cup {NoTime}
    /\ Absent \notin StoredRecords
    /\ None \notin Saves \cup [id : Ids, record : StoredRecords]

FirstId == CHOOSE i \in Ids : TRUE

(* newId: an id nobody has, in hand or on its way.                         *)
Unused ==
    {i \in Ids : /\ file[i] = Absent /\ (undo = None \/ undo.id # i)
                 /\ \A w \in Views : memory[w][i] = Absent /\ (sent[w] = None \/ sent[w].id # i)}
-----------------------------------------------------------------------------
(* detectSeder: in the gap between the sedarim, the nearer edge.           *)
DetectSeder(t) ==
    IF t <= Hours[1].end THEN 1
    ELSE IF t >= Hours[2].start THEN 2
    ELSE IF t - Hours[1].end <= Hours[2].start - t THEN 1 ELSE 2

(* arrivalEntry, withExcused and absenceEntry: an earlier justification    *)
(* survives a corrected arrival, not an absence.                           *)
ArrivalEntry(existing, slot, t) ==
    [day |-> slot[1], seder |-> slot[2], time |-> t,
     excused |-> existing # None /\ existing.record.excused]
AbsenceEntry(slot, excused) ==
    [day |-> slot[1], seder |-> slot[2], time |-> NoTime, excused |-> excused]

(* validateSeder and checkSederUpsert.                                     *)
UndoUnchecked(list, id, r, restore) ==
    /\ r.seder \in Sederim /\ r.time # NoTime => r.time <= Hours[r.seder].end
    /\ r.seder \in Sederim /\ ~restore /\ r.day \in Blocked
            => list[id] # Absent /\ list[id].day = r.day

Accepted(list, id, r, restore) ==
    /\ r.seder \in Sederim /\ r.time # NoTime => r.time <= Hours[r.seder].end
    /\ r.seder \in Sederim /\ ~restore /\ r.day \in Blocked
            => list[id] # Absent /\ list[id].day = r.day
    /\ r.seder \in Sederim /\ restore => On(list, Slot(r)) \subseteq {id}
-----------------------------------------------------------------------------
Fresh(day, list) ==
    LET stored == Existing(list, <<day, CardSeder>>)
        form   == IF stored = None THEN DefaultForm ELSE FormOf(stored.record)
    IN  [day |-> day, form |-> form, base |-> form, newer |-> None, editing |-> stored = None,
         seen |-> stored, typed |-> None, told |-> None]

(* Mutant of Follow: a save of its own does not hold the form.             *)
FollowInSave(c, list, saving) ==
    LET stored == Existing(list, <<c.day, CardSeder>>)
        form   == IF stored = None THEN DefaultForm ELSE FormOf(stored.record)
        next   == [c EXCEPT !.seen = stored,
                           !.typed = IF ~saving /\ (@ = form \/ stored = None) THEN None ELSE @]
    IN  CASE stored = c.seen -> c
          [] stored = None \/ c.form = c.base ->
                [next EXCEPT !.form = form, !.base = form, !.newer = None,
                             !.editing = stored = None \/ (@ /\ c.seen # None)]
          [] c.form = form -> [next EXCEPT !.base = form, !.newer = None, !.editing = @ /\ c.seen # None]
          [] OTHER -> [next EXCEPT !.newer = form, !.told = form]

(* Mutant of Follow: the newer version is noted, and the user is not told. *)
FollowSilently(c, list, saving) ==
    LET stored == Existing(list, <<c.day, CardSeder>>)
        form   == IF stored = None THEN DefaultForm ELSE FormOf(stored.record)
        next   == [c EXCEPT !.seen = stored]
    IN  CASE stored = c.seen -> c
          [] saving -> next
          [] stored = None -> Fresh(c.day, list)
          [] c.form \in {form, c.base} -> [Fresh(c.day, list) EXCEPT !.editing = c.editing]
          [] OTHER -> next

(* The render after the stored record changed under the card: reconcileForm*)
(* lets a clean form follow and keeps a draft.                             *)
Follow(c, list, saving) ==
    LET stored == Existing(list, <<c.day, CardSeder>>)
        form   == IF stored = None THEN DefaultForm ELSE FormOf(stored.record)
        next   == [c EXCEPT !.seen = stored]
        kept   == [next EXCEPT !.typed = IF @ = form THEN None ELSE @]
        opened == c.editing /\ c.seen # None
    IN  IF stored = c.seen THEN c
        ELSE CASE saving -> next
               [] ~saving /\ stored = None -> Fresh(c.day, list)
               [] ~saving /\ stored # None /\ c.form = form ->
                    [kept EXCEPT !.base = form, !.newer = None, !.editing = opened]
               [] ~saving /\ stored # None /\ c.form # form /\ c.form = c.base ->
                    [kept EXCEPT !.form = form, !.base = form, !.newer = None, !.editing = opened]
               [] OTHER -> [kept EXCEPT !.newer = form, !.told = form]

NoCard == Fresh(1, [i \in Ids |-> Absent])

CardSaving == sent["main"] # None /\ sent["main"].screen \in {"card", "card delete"}
-----------------------------------------------------------------------------
(* The store as it opens: empty, or with one record.                       *)
EntriesInit ==
    /\ \E r \in {Absent} \cup {ArrivalEntry(None, <<1, CardSeder>>, t) : t \in Times} :
            (r # Absent => Accepted([i \in Ids |-> Absent], FirstId, r, FALSE))
            /\ file = [[i \in Ids |-> Absent] EXCEPT ![FirstId] = r]
    /\ memory = [w \in Views |-> file]
    /\ sent = [w \in Views |-> None] /\ undo = None
    /\ today = 1 /\ shownToday = [w \in Views |-> 1]
    /\ page \in Pages /\ card = IF page = "card" THEN Fresh(1, file) ELSE NoCard
    /\ quick = [day |-> None, editing |-> None, dialog |-> None, seder |-> 1]
    /\ crossed = FALSE /\ entryActs = 0

EntryAct == entryActs < MaxEntryActs /\ entryActs' = entryActs + 1

(* The screens follow the list their window shows.                         *)
Shows(w, list) ==
    /\ memory' = [memory EXCEPT ![w] = list]
    /\ card' = IF w = "main" /\ page = "card" THEN Follow(card, list, CardSaving) ELSE card

(* upsertChecked, addChecked, replace (a record) and removeChecked         *)
(* (Absent): one save of a screen at a time.                               *)
Send(w, id, r, screen) ==
    /\ sent[w] = None /\ EntryAct
    /\ sent' = [sent EXCEPT ![w] = [id |-> id, base |-> memory[w][id], next |-> r,
                                    screen |-> screen, list |-> None, complete |-> TRUE]]
    /\ memory' = [memory EXCEPT ![w][id] = r]
    /\ card' = IF w = "main" /\ page = "card"
               THEN Follow(card, memory'[w], screen \in {"card", "card delete"}) ELSE card
    /\ UNCHANGED <<file, today, shownToday, page, crossed>>

Upsert(w, id, r, screen) ==
    Accepted(memory[w], id, r, screen = "undo") /\ Send(w, id, r, screen)

(* The save reaches the file, which takes or refuses the record.           *)
SaveLands(w) ==
    /\ sent[w] # None /\ sent[w].list = None
    /\ LET s == sent[w]
       IN  /\ file' = [file EXCEPT ![s.id] = Merged(s.base, s.next, @)]
           /\ sent' = [sent EXCEPT ![w].list = file',
                                   ![w].complete = ~Conflict(s.base, s.next, file[s.id])]
    /\ UNCHANGED <<memory, today, shownToday, page, card, undo, quick, crossed, entryActs>>

(* What the screen that saved does when its save is answered.              *)
CardAnswered(c, s, complete) ==
    CASE s.screen = "card" /\ complete ->
            [c EXCEPT !.base = FormOf(s.next), !.newer = None, !.editing = FALSE, !.typed = None]
      [] s.screen = "card delete" /\ complete ->
            [c EXCEPT !.form = DefaultForm, !.base = DefaultForm, !.newer = None,
                      !.editing = TRUE, !.typed = None]
      [] s.screen \in {"card", "card delete"} /\ ~complete ->
            [c EXCEPT !.told = IF c.seen = None THEN None ELSE FormOf(c.seen.record)]
      [] OTHER -> c

UndoOffer(s) ==
    CASE s.next = Absent -> [id |-> s.id, record |-> s.base]
      [] s.screen = "home" -> [id |-> s.id, record |-> Absent]
      [] OTHER -> undo

QuickSaved(screen) ==
    IF screen = "quick arrival" THEN [quick EXCEPT !.editing = None]
    ELSE [quick EXCEPT !.dialog = None, !.seder = 1]

SaveAnswered(w) ==
    /\ sent[w] # None /\ sent[w].list # None
    /\ LET s == sent[w]
       IN  /\ memory' = [memory EXCEPT ![w] = s.list]
           /\ card' = IF w = "main" /\ page = "card"
                      THEN CardAnswered(Follow(card, s.list, CardSaving), s, s.complete) ELSE card
           /\ undo' = IF w = "main" /\ s.complete THEN UndoOffer(s) ELSE undo
           /\ quick' = IF w = "quick" /\ s.complete THEN QuickSaved(s.screen) ELSE quick
           /\ crossed' = (crossed \/ (/\ w = "main" /\ s.screen = "card delete" /\ s.complete
                                     /\ card'.seen # None))
    /\ sent' = [sent EXCEPT ![w] = None]
    /\ UNCHANGED <<file, today, shownToday, page, entryActs>>

SaveFails(w) ==
    /\ sent[w] # None /\ sent[w].list = None
    /\ Shows(w, [memory[w] EXCEPT ![sent[w].id] = sent[w].base])
    /\ sent' = [sent EXCEPT ![w] = None]
    /\ UNCHANGED <<file, today, shownToday, page, undo, quick, crossed, entryActs>>

PollEntries(w) ==
    /\ sent[w] = None /\ memory[w] # file
    /\ Shows(w, file)
    /\ UNCHANGED <<file, sent, today, shownToday, page, undo, quick, crossed, entryActs>>
-----------------------------------------------------------------------------
(* The card.  Typing while it saves is not followed in `typed`.            *)
CardIsForm == page = "card" /\ (card.editing \/ card.seen = None)
                            /\ (card.seen # None \/ card.day \notin Blocked)

TypeCard(form) ==
    /\ CardIsForm /\ form # card.form /\ EntryAct
    /\ card' = [card EXCEPT !.form = form,
                            !.typed = IF CardSaving \/ form = card.base THEN None ELSE form]
    /\ UNCHANGED <<file, memory, sent, today, shownToday, page, undo, quick, crossed>>

(* "עריכה" and "ביטול": the stored record, in the form or as a summary.    *)
ReloadCard(editing) ==
    /\ page = "card" /\ card.seen # None /\ ~CardSaving /\ card.editing # editing /\ EntryAct
    /\ card' = [Fresh(card.day, memory["main"]) EXCEPT !.editing = editing]
    /\ UNCHANGED <<file, memory, sent, today, shownToday, page, undo, quick, crossed>>

LoadNewer ==
    /\ page = "card" /\ card.newer # None /\ EntryAct
    /\ card' = [card EXCEPT !.form = card.newer, !.base = card.newer, !.newer = None,
                            !.editing = TRUE, !.typed = None]
    /\ UNCHANGED <<file, memory, sent, today, shownToday, page, undo, quick, crossed>>

KeepMine ==
    /\ page = "card" /\ card.newer # None /\ EntryAct
    /\ card' = [card EXCEPT !.newer = None]
    /\ UNCHANGED <<file, memory, sent, today, shownToday, page, undo, quick, crossed>>

SubmitCard ==
    /\ CardIsForm
    /\ LET r == [day |-> card.day, seder |-> CardSeder,
                 time |-> card.form.time, excused |-> card.form.excused]
       IN  \E id \in IF card.seen = None THEN Unused ELSE {card.seen.id} : Upsert("main", id, r, "card")
    /\ UNCHANGED <<undo, quick>>

DeleteCard ==
    /\ CardIsForm /\ card.seen # None
    /\ Send("main", card.seen.id, Absent, "card delete")
    /\ UNCHANGED <<undo, quick>>

ChangeDay(day) ==
    /\ page = "card" /\ day # card.day /\ EntryAct
    /\ card' = Fresh(day, memory["main"]) /\ crossed' = (crossed \/ CardSaving)
    /\ UNCHANGED <<file, memory, sent, today, shownToday, page, undo, quick>>

(* Another screen: what was typed on this one goes with it, and the answer *)
(* to its save finds it gone.                                              *)
GoTo(next) ==
    /\ page # next /\ EntryAct
    /\ page' = next /\ crossed' = FALSE
    /\ card' = IF next = "card" THEN Fresh(today, memory["main"]) ELSE NoCard
    /\ sent' = IF sent["main"] = None THEN sent ELSE [sent EXCEPT !["main"].screen = "gone"]
    /\ UNCHANGED <<file, memory, today, shownToday, undo, quick>>
-----------------------------------------------------------------------------
(* record and quickRecord of the home screen: the day is read again at the *)
(* click, the list is not.                                                 *)
RecordHome(seder, t) ==
    /\ page = "home" /\ On(memory["main"], <<shownToday["main"], seder>>) = {}
    /\ \E id \in Unused :
            Upsert("main", id, ArrivalEntry(None, <<today, seder>>, t), "home")
    /\ UNCHANGED <<undo, quick>>

(* The drawer: the record may be moved to another day or seder, onto none  *)
(* that is taken.                                                          *)
SaveDrawer(id, slot, form) ==
    /\ memory["main"][id] # Absent
    /\ (slot[2] = Lesson) = (memory["main"][id].seder = Lesson)
    /\ slot[2] # Lesson => On(memory["main"], slot) \subseteq {id}
    /\ LET r == [day |-> slot[1], seder |-> slot[2], time |-> form.time, excused |-> form.excused]
       IN  r # memory["main"][id] /\ Upsert("main", id, r, "drawer")
    /\ UNCHANGED <<undo, quick>>

DeleteDrawer(id) ==
    /\ memory["main"][id] # Absent
    /\ Send("main", id, Absent, "drawer")
    /\ UNCHANGED <<undo, quick>>

DrawerSteps ==
    /\ page = "drawer"
    /\ \E id \in Ids :
        \/ DeleteDrawer(id)
        \/ \E slot \in Days \X (Sederim \cup {Lesson}), form \in Forms : SaveDrawer(id, slot, form)

(* toastUndo: the record goes back as it was, or the one just made goes.   *)
ClickUndo ==
    /\ undo # None /\ memory["main"][undo.id] # undo.record
    /\ IF undo.record = Absent THEN Send("main", undo.id, Absent, "undo")
       ELSE Upsert("main", undo.id, undo.record, "undo")
    /\ undo' = None /\ UNCHANGED quick
-----------------------------------------------------------------------------
QuickDate == IF quick.day = None THEN shownToday["quick"] ELSE quick.day
DateAtClick == IF quick.day = None THEN today ELSE quick.day
QuickSeder(t) == IF quick.editing # None THEN quick.editing ELSE DetectSeder(t)
QuickExisting(slot) == Existing(memory["quick"], slot)
SaveQuickRecord(old, r, screen) ==
    \E id \in IF old = None THEN Unused ELSE {old.id} : Upsert("quick", id, r, screen)

(* save: today is read again at the click, and the new day starts blank.   *)
SaveQuick(t) ==
    /\ quick.dialog = None /\ DateAtClick \notin Blocked
    /\ LET slot == <<DateAtClick, QuickSeder(t)>>
           old  == IF DateAtClick = QuickDate THEN QuickExisting(slot) ELSE None
       IN  SaveQuickRecord(old, ArrivalEntry(old, slot, t), "quick arrival")
    /\ UNCHANGED <<undo, quick>>

(* The buttons of the three dialogs; the absence starts on the seder that  *)
(* the typed time belongs to.                                              *)
OpenDialog(kind, t) ==
    /\ quick.dialog = None /\ sent["quick"] = None /\ entryActs < MaxEntryActs
    /\ kind # "learning" => QuickDate \notin Blocked
    /\ quick' = [quick EXCEPT !.dialog = kind, !.seder = IF kind = "absence" THEN QuickSeder(t) ELSE 1]
    /\ UNCHANGED <<file, memory, sent, today, shownToday, page, card, undo, crossed, entryActs>>

CloseDialog ==
    /\ quick.dialog # None
    /\ quick' = [quick EXCEPT !.dialog = None, !.seder = 1]
    /\ UNCHANGED <<file, memory, sent, today, shownToday, page, card, undo, crossed, entryActs>>

ChooseSeder(seder) ==
    /\ quick.dialog = "absence" /\ quick.seder # seder
    /\ quick' = [quick EXCEPT !.seder = seder]
    /\ UNCHANGED <<file, memory, sent, today, shownToday, page, card, undo, crossed, entryActs>>

(* applyExcused and applyAbsence ask whether today takes attendance, and   *)
(* write on the day the window shows.                                      *)
ExcuseQuick(t) ==
    /\ quick.dialog = "excused" /\ DateAtClick \notin Blocked
    /\ LET slot == <<QuickDate, QuickSeder(t)>>
           old  == QuickExisting(slot)
           r    == IF old = None THEN ArrivalEntry(None, slot, t) ELSE old.record
       IN  SaveQuickRecord(old, [r EXCEPT !.excused = TRUE], "quick")
    /\ UNCHANGED <<undo, quick>>

AbsentQuick(excused) ==
    /\ quick.dialog = "absence" /\ DateAtClick \notin Blocked
    /\ LET slot == <<QuickDate, quick.seder>>
       IN  SaveQuickRecord(QuickExisting(slot), AbsenceEntry(slot, excused), "quick")
    /\ UNCHANGED <<undo, quick>>

LearnQuick(t) ==
    /\ quick.dialog = "learning"
    /\ SaveQuickRecord(None, ArrivalEntry(None, <<QuickDate, Lesson>>, t), "quick")
    /\ UNCHANGED <<undo, quick>>

(* chooseDay, chooseOtherDate, editEntry and stopEditing.                  *)
ChooseQuick(day, editing) ==
    /\ EntryAct /\ quick.dialog = None
    /\ quick' = [quick EXCEPT !.day = day, !.editing = editing] /\ quick' # quick
    /\ day # None => day <= today
    /\ editing # None => /\ day = quick.day /\ QuickDate \notin Blocked
                         /\ On(memory["quick"], <<QuickDate, editing>>) # {}
    /\ UNCHANGED <<file, memory, sent, today, shownToday, page, card, undo, crossed>>
-----------------------------------------------------------------------------
Midnight ==
    /\ today + 1 \in Days /\ today' = today + 1 /\ EntryAct
    /\ UNCHANGED <<file, memory, sent, shownToday, page, card, undo, quick, crossed>>

(* useToday: the screens of a window learn of the new day.  The record in  *)
(* the quick window's field is dropped, and an open absence dialog then    *)
(* starts over on what the typed time suggests.                            *)
NoticeDay(w) ==
    /\ shownToday[w] # today
    /\ shownToday' = [shownToday EXCEPT ![w] = today]
    /\ \E suggested \in Sederim :
            quick' = IF w # "quick" \/ quick.day # None THEN quick
                     ELSE [quick EXCEPT !.editing = None,
                                        !.seder = IF quick.dialog = "absence" /\ quick.editing # None
                                                  THEN suggested ELSE @]
    /\ UNCHANGED <<file, memory, sent, today, page, card, undo, crossed, entryActs>>

EntriesNext ==
    \/ \E w \in Views :
        SaveLands(w) \/ SaveAnswered(w) \/ SaveFails(w) \/ PollEntries(w) \/ NoticeDay(w)
    \/ DrawerSteps \/ \E form \in Forms : TypeCard(form)
    \/ \E editing \in BOOLEAN : ReloadCard(editing)
    \/ LoadNewer \/ KeepMine \/ SubmitCard \/ DeleteCard \/ ClickUndo \/ Midnight
    \/ \E day \in Days : ChangeDay(day)
    \/ \E next \in Pages : GoTo(next)
    \/ \E t \in Times :
        \/ SaveQuick(t) \/ ExcuseQuick(t) \/ LearnQuick(t)
        \/ \E kind \in {"excused", "absence", "learning"} : OpenDialog(kind, t)
        \/ \E seder \in Sederim : RecordHome(seder, t)
    \/ CloseDialog \/ (\E seder \in Sederim : ChooseSeder(seder))
    \/ \E excused \in BOOLEAN : AbsentQuick(excused)
    \/ \E day \in Days \cup {None}, editing \in Sederim \cup {None} : ChooseQuick(day, editing)
-----------------------------------------------------------------------------
(* What the user typed into the card stays there until it is saved,        *)
(* reloaded or left, whatever the other window saves and however the own   *)
(* save ends, unless the record is deleted elsewhere or the day is changed *)
(* in the middle of a save.                                                *)
DraftIsKept == page = "card" /\ card.typed # None /\ ~crossed => card.form = card.typed

(* The card saves over the version its form was loaded from, or over one   *)
(* the user was told of: never silently over the other window's, unless    *)
(* the day was changed in the middle of a save, or a deletion came back    *)
(* with a second record of the same seder, over which the emptied form     *)
(* then stands.                                                            *)
NoSilentOverwrite ==
    [][(/\ sent["main"] = None /\ sent'["main"] # None /\ ~crossed
        /\ sent'["main"].screen = "card" /\ sent'["main"].base # Absent)
            => FormOf(sent'["main"].base) \in {card.base, card.told}]_entryVars

(* No screen brings a record to a seder for which its window shows another *)
(* one, except across a midnight that the window has not noticed yet.      *)
OneRecordPerSeder ==
    [][\A w \in Views :
        (/\ sent[w] = None /\ sent'[w] # None /\ sent'[w].next # Absent
         /\ sent'[w].next.seder # Lesson /\ shownToday[w] = today)
            => LET s == sent'[w]
               IN  \/ On(memory[w], Slot(s.next)) \subseteq {s.id}
                   \/ s.base # Absent /\ Slot(s.base) = Slot(s.next)]_entryVars
=============================================================================
