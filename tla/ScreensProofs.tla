--------------------------- MODULE ScreensProofs ---------------------------
(***************************************************************************)
(* What the screens may rely on: those that write records (Entries), the   *)
(* journal that links lead to (Journal), and those that replace all the    *)
(* records at once and keep snapshots (Snapshots).                         *)
(***************************************************************************)
EXTENDS Snapshots, Entries, Journal, WellFoundedInduction, FiniteSetTheorems,
        SequenceTheorems, TLAPS

-----------------------------------------------------------------------------
(***************************************************************************)
(* The screens that write records, for any number of ids, days, times and  *)
(* acts: a draft in the card is kept, no screen makes a second record of a *)
(* seder that its window shows, and the card never saves silently over a   *)
(* version its user has not seen.                                          *)
(***************************************************************************)

EntriesSpec == EntriesInit /\ [][EntriesNext]_entryVars

Shown  == {None} \cup [id : Ids, record : StoredRecords]
Cards  == [day : Days, form : Forms, base : Forms, newer : Forms \cup {None}, editing : BOOLEAN,
           seen : Shown, typed : Forms \cup {None}, told : Forms \cup {None}]
Quicks == [day : Days \cup {None}, editing : Sederim \cup {None},
           dialog : {"excused", "absence", "learning", None}, seder : Sederim]

TypeInv ==
    /\ file \in Lists /\ memory \in [Views -> Lists]
    /\ sent \in [Views -> {None} \cup Saves]
    /\ today \in Days /\ shownToday \in [Views -> Days]
    /\ page \in Pages /\ card \in Cards
    /\ undo \in {None} \cup [id : Ids, record : MaybeRecord]
    /\ quick \in Quicks /\ crossed \in BOOLEAN
-----------------------------------------------------------------------------
(* What the card is made of.                                               *)
LEMMA ExistingIs ==
    ASSUME NEW book \in Lists, NEW slot
    PROVE  /\ Existing(book, slot) \in Shown
           /\ Existing(book, slot) = None <=> On(book, slot) = {}
           /\ Existing(book, slot) # None =>
                /\ Existing(book, slot).id \in On(book, slot)
                /\ Existing(book, slot).record = book[Existing(book, slot).id]
<1>1. CASE On(book, slot) = {} BY <1>1 DEF Existing, Shown
<1>2. CASE On(book, slot) # {}
  <2> DEFINE i == CHOOSE i \in On(book, slot) : TRUE
  <2>1. i \in On(book, slot) BY <1>2
  <2> HIDE DEF i
  <2>2. i \in Ids /\ book[i] \in StoredRecords BY <2>1 DEF On, Lists, MaybeRecord
  <2>3. Existing(book, slot) = [id |-> i, record |-> book[i]] BY <1>2 DEF Existing, i
  <2>4. [id |-> i, record |-> book[i]] # None BY <2>2, EntriesAssumption
  <2>5. [id |-> i, record |-> book[i]] \in Shown BY <2>2 DEF Shown
  <2> QED BY <1>2, <2>1, <2>3, <2>4, <2>5
<1> QED BY <1>1, <1>2

LEMMA OnIs ==
    ASSUME NEW book \in Lists, NEW slot, NEW i \in On(book, slot)
    PROVE  i \in Ids /\ book[i] \in StoredRecords /\ Slot(book[i]) = slot
BY DEF On, Lists, MaybeRecord

(* The form of what is stored in a slot, or the one of an empty slot.      *)
StoredForm(stored) == IF stored = None THEN DefaultForm ELSE FormOf(stored.record)

LEMMA StoredFormType == \A stored \in Shown : StoredForm(stored) \in Forms
BY EntriesAssumption DEF StoredForm, Shown, StoredRecords, FormOf, Forms, DefaultForm

LEMMA FreshIs ==
    ASSUME NEW book \in Lists, NEW day \in Days
    PROVE  LET stored == Existing(book, <<day, CardSeder>>) IN
           /\ Fresh(day, book) \in Cards
           /\ Fresh(day, book)
                = [day |-> day, form |-> StoredForm(stored), base |-> StoredForm(stored),
                   newer |-> None, editing |-> stored = None, seen |-> stored,
                   typed |-> None, told |-> None]
<1> DEFINE stored == Existing(book, <<day, CardSeder>>)
<1>1. stored \in Shown BY ExistingIs
<1>2. StoredForm(stored) \in Forms BY <1>1, StoredFormType
<1>3. Fresh(day, book)
        = [day |-> day, form |-> StoredForm(stored), base |-> StoredForm(stored),
           newer |-> None, editing |-> stored = None, seen |-> stored,
           typed |-> None, told |-> None]
  BY DEF Fresh, StoredForm
<1> HIDE DEF stored
<1>4. Fresh(day, book) \in Cards BY <1>1, <1>2, <1>3 DEF Cards
<1> QED BY <1>3, <1>4 DEF stored

LEMMA FreshHas ==
    ASSUME NEW book \in Lists, NEW day \in Days
    PROVE  LET stored == Existing(book, <<day, CardSeder>>)
               f      == Fresh(day, book)
           IN  /\ f \in Cards /\ f.day = day /\ f.seen = stored
               /\ f.form = StoredForm(stored) /\ f.base = StoredForm(stored)
               /\ f.newer = None /\ f.typed = None
<1> DEFINE stored == Existing(book, <<day, CardSeder>>)
           f      == Fresh(day, book)
<1>1. /\ f \in Cards
      /\ f = [day |-> day, form |-> StoredForm(stored), base |-> StoredForm(stored),
              newer |-> None, editing |-> stored = None, seen |-> stored,
              typed |-> None, told |-> None]
  BY FreshIs
<1> HIDE DEF stored, f
<1>2. /\ f.day = day /\ f.seen = stored /\ f.form = StoredForm(stored)
      /\ f.base = StoredForm(stored) /\ f.newer = None /\ f.typed = None
  BY <1>1
<1> QED BY <1>1, <1>2 DEF stored, f

(* What may become of the card when the stored record changes under it.    *)
LEMMA FollowIs ==
    ASSUME NEW c \in Cards, NEW book \in Lists, NEW saving \in BOOLEAN
    PROVE  LET stored == Existing(book, <<c.day, CardSeder>>)
               form   == StoredForm(stored)
               f      == Follow(c, book, saving)
           IN  /\ f \in Cards /\ f.day = c.day /\ f.seen = stored
               /\ \/ stored = c.seen /\ f = c
                  \/ stored # c.seen /\ saving /\ f = [c EXCEPT !.seen = stored]
                  \/ ~saving /\ stored = None /\ f = Fresh(c.day, book)
                  \/ /\ ~saving /\ stored # None /\ c.form \in {form, c.base}
                     /\ f.form = form /\ f.base = form /\ f.newer = None /\ f.told = c.told
                     /\ f.typed = IF c.typed = form THEN None ELSE c.typed
                  \/ /\ ~saving /\ stored # None /\ c.form \notin {form, c.base}
                     /\ f.form = c.form /\ f.base = c.base /\ f.newer = form /\ f.told = form
                     /\ f.typed = IF c.typed = form THEN None ELSE c.typed
<1> DEFINE stored == Existing(book, <<c.day, CardSeder>>)
           form   == StoredForm(stored)
           next   == [c EXCEPT !.seen = stored]
           kept   == [next EXCEPT !.typed = IF @ = form THEN None ELSE @]
           opened == c.editing /\ c.seen # None
           f      == Follow(c, book, saving)
<1>1. stored \in Shown BY ExistingIs
<1>2. form \in Forms BY <1>1, StoredFormType
<1>3. Fresh(c.day, book) \in Cards /\ Fresh(c.day, book).day = c.day
        /\ Fresh(c.day, book).seen = stored
  BY FreshIs DEF Cards
<1>4. f = IF stored = c.seen THEN c
          ELSE CASE saving -> next
                 [] ~saving /\ stored = None -> Fresh(c.day, book)
                 [] ~saving /\ stored # None /\ c.form = form ->
                      [kept EXCEPT !.base = form, !.newer = None, !.editing = opened]
                 [] ~saving /\ stored # None /\ c.form # form /\ c.form = c.base ->
                      [kept EXCEPT !.form = form, !.base = form, !.newer = None,
                                   !.editing = opened]
                 [] OTHER -> [kept EXCEPT !.newer = form, !.told = form]
  BY DEF Follow, StoredForm
<1> HIDE DEF stored, form, f
<1>5. CASE stored = c.seen
  <2>1. f = c BY <1>4, <1>5
  <2> QED BY <1>5, <2>1 DEF f, stored
<1>6. CASE stored # c.seen /\ saving
  <2>1. f = next BY <1>4, <1>6
  <2>2. next \in Cards /\ next.day = c.day /\ next.seen = stored BY <1>1 DEF Cards
  <2> QED BY <1>6, <2>1, <2>2 DEF f, stored
<1>7. CASE stored # c.seen /\ stored = None /\ ~saving
  <2>1. f = Fresh(c.day, book) BY <1>4, <1>7
  <2> QED BY <1>3, <1>7, <2>1 DEF f, stored
<1>8. CASE stored \notin {c.seen, None} /\ ~saving /\ c.form = form
  <2>1. f = [kept EXCEPT !.base = form, !.newer = None, !.editing = opened]
    BY <1>4, <1>8
  <2>2. f \in Cards /\ f.day = c.day /\ f.seen = stored BY <1>1, <1>2, <2>1 DEF Cards
  <2>3. /\ f.form = form /\ f.base = form /\ f.newer = None /\ f.told = c.told
        /\ f.typed = IF c.typed = form THEN None ELSE c.typed
    BY <1>8, <2>1 DEF Cards
  <2> QED BY <1>8, <2>2, <2>3 DEF f, form, stored
<1>9. CASE stored \notin {c.seen, None} /\ ~saving /\ c.form # form /\ c.form = c.base
  <2>1. f = [kept EXCEPT !.form = form, !.base = form, !.newer = None,
                         !.editing = opened]
    BY <1>4, <1>9
  <2>2. f \in Cards /\ f.day = c.day /\ f.seen = stored BY <1>1, <1>2, <2>1 DEF Cards
  <2>3. /\ f.form = form /\ f.base = form /\ f.newer = None /\ f.told = c.told
        /\ f.typed = IF c.typed = form THEN None ELSE c.typed
    BY <2>1 DEF Cards
  <2> QED BY <1>9, <2>2, <2>3 DEF f, form, stored
<1>10. CASE stored \notin {c.seen, None} /\ ~saving /\ c.form \notin {form, c.base}
  <2>1. f = [kept EXCEPT !.newer = form, !.told = form] BY <1>4, <1>10
  <2>2. f \in Cards /\ f.day = c.day /\ f.seen = stored BY <1>1, <1>2, <2>1 DEF Cards
  <2>3. /\ f.form = c.form /\ f.base = c.base /\ f.newer = form /\ f.told = form
        /\ f.typed = IF c.typed = form THEN None ELSE c.typed
    BY <2>1 DEF Cards
  <2> QED BY <1>10, <2>2, <2>3 DEF f, form, stored
<1> QED BY <1>5, <1>6, <1>7, <1>8, <1>9, <1>10
-----------------------------------------------------------------------------
(* Types.  A save of the card always has a record to save.                 *)
CardSaves ==
    \A w \in Views : sent[w] # None /\ sent[w].screen = "card" => sent[w].next \in StoredRecords

Typed == TypeInv /\ CardSaves

LEMMA SentIs ==
    ASSUME Typed, NEW w \in Views, sent[w] # None
    PROVE  /\ sent[w] \in Saves
           /\ sent[w].id \in Ids /\ sent[w].base \in MaybeRecord /\ sent[w].next \in MaybeRecord
           /\ sent[w].screen \in Screens /\ sent[w].list \in Lists \cup {None}
           /\ sent[w].complete \in BOOLEAN
BY DEF Typed, TypeInv, Saves

LEMMA SavingType == CardSaving \in BOOLEAN
BY DEF CardSaving

LEMMA MergedIs == \A b, n, c : Merged(b, n, c) \in {n, c}
BY DEF Merged

LEMMA FormOfType == \A r \in StoredRecords : FormOf(r) \in Forms
BY DEF FormOf, Forms, StoredRecords

LEMMA ArrivalType ==
    ASSUME NEW old \in Shown, NEW day \in Days, NEW seder \in Sederim \cup {Lesson}, NEW t \in Times
    PROVE  /\ ArrivalEntry(old, <<day, seder>>, t) \in StoredRecords
           /\ Slot(ArrivalEntry(old, <<day, seder>>, t)) = <<day, seder>>
BY DEF ArrivalEntry, StoredRecords, Slot

LEMMA AbsenceType ==
    ASSUME NEW day \in Days, NEW seder \in Sederim, NEW excused \in BOOLEAN
    PROVE  /\ AbsenceEntry(<<day, seder>>, excused) \in StoredRecords
           /\ Slot(AbsenceEntry(<<day, seder>>, excused)) = <<day, seder>>
BY DEF AbsenceEntry, StoredRecords, Slot

(* A save is sent: the record is at once in its window's list.             *)
LEMMA SendIs ==
    ASSUME Typed, NEW w \in Views, NEW id \in Ids, NEW r \in MaybeRecord, NEW from \in Screens,
           Send(w, id, r, from)
    PROVE  /\ memory' = [memory EXCEPT ![w] = [memory[w] EXCEPT ![id] = r]]
           /\ memory' \in [Views -> Lists] /\ memory'[w] \in Lists
           /\ sent'[w] = [id |-> id, base |-> memory[w][id], next |-> r, screen |-> from,
                          list |-> None, complete |-> TRUE]
           /\ sent'[w] \in Saves
           /\ \A v \in Views \ {w} : sent'[v] = sent[v] /\ memory'[v] = memory[v]
           /\ sent' \in [Views -> {None} \cup Saves]
<1>1. memory[w] \in Lists /\ memory[w][id] \in MaybeRecord
  BY DEF Typed, TypeInv, Lists
<1>2. [memory[w] EXCEPT ![id] = r] \in Lists BY <1>1 DEF Lists
<1>3. memory' = [memory EXCEPT ![w] = [memory[w] EXCEPT ![id] = r]] BY DEF Send
<1>4. sent' = [sent EXCEPT ![w] = [id |-> id, base |-> memory[w][id], next |-> r,
                                   screen |-> from, list |-> None, complete |-> TRUE]]
  BY DEF Send
<1>5. [id |-> id, base |-> memory[w][id], next |-> r, screen |-> from,
       list |-> None, complete |-> TRUE] \in Saves
  BY <1>1 DEF Saves
<1> QED BY <1>2, <1>3, <1>4, <1>5 DEF Typed, TypeInv

LEMMA SendShows ==
    ASSUME Typed, NEW w \in Views, NEW id, NEW r, NEW from, Send(w, id, r, from)
    PROVE  memory'[w] = [memory[w] EXCEPT ![id] = r]
<1>1. memory \in [Views -> Lists] BY DEF Typed, TypeInv
<1>2. memory' = [memory EXCEPT ![w] = [memory[w] EXCEPT ![id] = r]] BY DEF Send
<1> QED BY <1>1, <1>2

LEMMA SendKeepsTypes ==
    ASSUME Typed, NEW w \in Views, NEW id \in Ids, NEW r \in MaybeRecord, NEW from \in Screens,
           Send(w, id, r, from), from = "card" => r \in StoredRecords,
           undo' \in {None} \cup [id : Ids, record : MaybeRecord], quick' \in Quicks
    PROVE  Typed'
<1>1. sent' \in [Views -> {None} \cup Saves] /\ memory' \in [Views -> Lists]
  BY SendIs
<1>2. CardSaves'
  <2>1. sent'[w] = [id |-> id, base |-> memory[w][id], next |-> r, screen |-> from,
                    list |-> None, complete |-> TRUE]
    BY SendIs
  <2>2. sent'[w].screen = from /\ sent'[w].next = r BY <2>1
  <2>3. \A v \in Views \ {w} : sent'[v] = sent[v] BY SendIs
  <2> QED BY <2>2, <2>3 DEF CardSaves, Typed
<1>3. card' \in Cards
  <2>1. CASE w = "main" /\ page = "card"
    <3>1. card' = Follow(card, memory'[w], from \in {"card", "card delete"})
      BY <2>1 DEF Send
    <3>2. memory'[w] \in Lists /\ card \in Cards BY SendIs DEF Typed, TypeInv
    <3>3. (from \in {"card", "card delete"}) \in BOOLEAN OBVIOUS
    <3> QED BY <3>1, <3>2, <3>3, FollowIs
  <2>2. CASE ~(w = "main" /\ page = "card") BY <2>2 DEF Send, Typed, TypeInv
  <2> QED BY <2>1, <2>2
<1> QED BY <1>1, <1>2, <1>3 DEF Send, Typed, TypeInv

LEMMA ShowsType ==
    ASSUME Typed, NEW w \in Views, NEW book \in Lists, Shows(w, book)
    PROVE  memory' \in [Views -> Lists] /\ card' \in Cards
<1>1. CASE w = "main" /\ page = "card"
  BY <1>1, FollowIs, SavingType DEF Shows, Typed, TypeInv
<1>2. CASE ~(w = "main" /\ page = "card") BY <1>2 DEF Shows, Typed, TypeInv
<1> QED BY <1>1, <1>2 DEF Shows, Typed, TypeInv

LEMMA AnsweredType ==
    ASSUME Typed, NEW w \in Views, sent[w] # None, NEW c \in Cards
    PROVE  CardAnswered(c, sent[w], sent[w].complete) \in Cards
<1> DEFINE s == sent[w]
           told == IF c.seen = None THEN None ELSE FormOf(c.seen.record)
<1>1. s.screen = "card" => FormOf(s.next) \in Forms BY FormOfType DEF Typed, CardSaves
<1>2. told \in Forms \cup {None} BY FormOfType DEF Cards, Shown
<1>3. DefaultForm \in Forms BY EntriesAssumption DEF DefaultForm, Forms
<1>4. s.complete \in BOOLEAN BY SentIs
<1> HIDE DEF s, told
<1>5. CASE s.screen = "card" /\ s.complete
  BY <1>1, <1>5 DEF CardAnswered, Cards, s
<1>6. CASE s.screen = "card delete" /\ s.complete
  BY <1>3, <1>6 DEF CardAnswered, Cards, s
<1>7. CASE s.screen \in {"card", "card delete"} /\ ~s.complete
  <2>1. CardAnswered(c, s, s.complete) = [c EXCEPT !.told = told]
    BY <1>7 DEF CardAnswered, told
  <2> QED BY <1>2, <2>1 DEF Cards, s
<1>8. CASE s.screen \notin {"card", "card delete"} BY <1>8 DEF CardAnswered, s
<1> QED BY <1>4, <1>5, <1>6, <1>7, <1>8
-----------------------------------------------------------------------------
(* Every save a screen sends.                                              *)

(* The card shows what its window has for its seder.                       *)
SeenIsShown ==
    page = "card" => card.seen = Existing(memory["main"], <<card.day, CardSeder>>)

(* What is saved over is the record the card shows, or nothing.            *)
SavesSeen(id) ==
    \/ card.seen = None /\ memory["main"][id] = Absent
    \/ card.seen # None /\ card.seen = [id |-> id, record |-> memory["main"][id]]

(* No other record of the window has the slot of the record it saves.      *)
SlotIsFree(w, id, r) ==
    \/ On(memory[w], Slot(r)) \subseteq {id}
    \/ memory[w][id] # Absent /\ Slot(memory[w][id]) = Slot(r)

GoodSave(w, id, r, from) ==
    /\ from \in {"card", "card delete"} => w = "main" /\ page = "card" /\ SavesSeen(id)
    /\ from = "card" => r \in StoredRecords /\ CardIsForm
    /\ from = "card delete" => CardIsForm /\ card.seen # None
    /\ r # Absent /\ r.seder # Lesson /\ shownToday[w] = today => SlotIsFree(w, id, r)

Saving(w) ==
    \E id \in Ids, r \in MaybeRecord, from \in Screens :
        /\ Send(w, id, r, from) /\ GoodSave(w, id, r, from)
        /\ undo' \in {None} \cup [id : Ids, record : MaybeRecord] /\ quick' \in Quicks

LEMMA SavingIs ==
    ASSUME NEW w, NEW id \in Ids, NEW r \in MaybeRecord, NEW from \in Screens,
           Send(w, id, r, from), GoodSave(w, id, r, from),
           undo' \in {None} \cup [id : Ids, record : MaybeRecord], quick' \in Quicks
    PROVE  Saving(w)
BY DEF Saving

LEMMA ExistingIsFree ==
    ASSUME Typed, NEW w \in Views, NEW slot, NEW id, NEW r, Slot(r) = slot,
           IF Existing(memory[w], slot) = None THEN TRUE ELSE id = Existing(memory[w], slot).id
    PROVE  SlotIsFree(w, id, r)
<1> DEFINE old == Existing(memory[w], slot)
<1>0. memory[w] \in Lists BY DEF Typed, TypeInv
<1>1. CASE old = None
  <2>1. On(memory[w], slot) = {} BY <1>0, <1>1, ExistingIs
  <2> QED BY <2>1 DEF SlotIsFree
<1>2. CASE old # None
  <2>1. id \in On(memory[w], slot) BY <1>0, <1>2, ExistingIs
  <2> QED BY <2>1 DEF SlotIsFree, On
<1> QED BY <1>1, <1>2

LEMMA ExistingId ==
    ASSUME Typed, NEW w \in Views, NEW slot,
           NEW id \in IF Existing(memory[w], slot) = None THEN Unused
                      ELSE {Existing(memory[w], slot).id}
    PROVE  id \in Ids
<1>1. memory[w] \in Lists BY DEF Typed, TypeInv
<1>2. CASE Existing(memory[w], slot) = None BY <1>2 DEF Unused
<1>3. CASE Existing(memory[w], slot) # None BY <1>1, <1>3, ExistingIs, OnIs
<1> QED BY <1>2, <1>3

LEMMA CardSends ==
    ASSUME Typed, SeenIsShown, SubmitCard \/ DeleteCard
    PROVE  Saving("main")
<1> USE DEF Views, Screens
<1>0. page = "card" BY DEF SubmitCard, DeleteCard, CardIsForm
<1>1. /\ card \in Cards /\ memory["main"] \in Lists
      /\ undo \in {None} \cup [id : Ids, record : MaybeRecord] /\ quick \in Quicks
  BY DEF Typed, TypeInv
<1>2. card.seen = Existing(memory["main"], <<card.day, CardSeder>>) BY <1>0 DEF SeenIsShown
<1>3. card.seen # None =>
        /\ card.seen = [id |-> card.seen.id, record |-> memory["main"][card.seen.id]]
        /\ card.seen.id \in Ids
  BY <1>1, <1>2, ExistingIs, OnIs DEF Cards, Shown
<1>4. CASE SubmitCard
  <2> DEFINE r == [day |-> card.day, seder |-> CardSeder,
                   time |-> card.form.time, excused |-> card.form.excused]
  <2>1. PICK id \in IF card.seen = None THEN Unused ELSE {card.seen.id} :
                Upsert("main", id, r, "card")
    BY <1>4 DEF SubmitCard
  <2>2. id \in Ids BY <1>2, ExistingId
  <2>3. SavesSeen(id) BY <1>3 DEF SavesSeen, Unused
  <2>4. r \in StoredRecords BY <1>1 DEF Cards, Forms, StoredRecords, CardSeder, Sederim
  <2>5. Slot(r) = <<card.day, CardSeder>> BY DEF Slot
  <2>6. SlotIsFree("main", id, r) BY <1>2, <2>5, ExistingIsFree
  <2>7. Send("main", id, r, "card") BY <2>1 DEF Upsert
  <2>8. CardIsForm /\ UNCHANGED <<undo, quick>> BY <1>4 DEF SubmitCard
  <2> HIDE DEF r
  <2>9. GoodSave("main", id, r, "card") BY <1>0, <2>3, <2>4, <2>6, <2>8 DEF GoodSave
  <2>10. r \in MaybeRecord BY <2>4 DEF MaybeRecord
  <2> QED BY <1>1, <2>2, <2>7, <2>8, <2>9, <2>10, SavingIs
<1>5. CASE DeleteCard
  <2>1. /\ Send("main", card.seen.id, Absent, "card delete") /\ card.seen # None
        /\ CardIsForm /\ UNCHANGED <<undo, quick>>
    BY <1>5 DEF DeleteCard
  <2>2. GoodSave("main", card.seen.id, Absent, "card delete")
    BY <1>0, <1>3, <2>1 DEF GoodSave, SavesSeen
  <2>3. card.seen.id \in Ids BY <1>3, <2>1
  <2>4. Absent \in MaybeRecord BY DEF MaybeRecord
  <2> QED BY <1>1, <2>1, <2>2, <2>3, <2>4, SavingIs
<1> QED BY <1>4, <1>5

LEMMA HomeSends ==
    ASSUME Typed, NEW seder \in Sederim, NEW t \in Times, RecordHome(seder, t)
    PROVE  Saving("main")
<1> USE DEF Views, Screens
<1> DEFINE r == ArrivalEntry(None, <<today, seder>>, t)
<1>1. PICK id \in Unused : Upsert("main", id, r, "home") BY DEF RecordHome
<1>2. r \in StoredRecords /\ Slot(r) = <<today, seder>>
  BY ArrivalType DEF Shown, Typed, TypeInv
<1>3. id \in Ids BY DEF Unused
<1>4. shownToday["main"] = today => SlotIsFree("main", id, r)
  BY <1>2 DEF RecordHome, SlotIsFree
<1>5. Send("main", id, r, "home") /\ UNCHANGED <<undo, quick>>
  BY <1>1 DEF Upsert, RecordHome
<1> HIDE DEF r
<1>6. GoodSave("main", id, r, "home") BY <1>4 DEF GoodSave
<1>7. r \in MaybeRecord BY <1>2 DEF MaybeRecord
<1>8. undo \in {None} \cup [id : Ids, record : MaybeRecord] /\ quick \in Quicks
  BY DEF Typed, TypeInv
<1> QED BY <1>3, <1>5, <1>6, <1>7, <1>8, SavingIs

LEMMA DrawerSends == ASSUME Typed, DrawerSteps PROVE Saving("main")
<1> USE DEF Views, Screens
<1>0. undo \in {None} \cup [id : Ids, record : MaybeRecord] /\ quick \in Quicks
  BY DEF Typed, TypeInv
<1>1. ASSUME NEW id \in Ids, DeleteDrawer(id) PROVE Saving("main")
  <2>1. Send("main", id, Absent, "drawer") /\ UNCHANGED <<undo, quick>>
    BY <1>1 DEF DeleteDrawer
  <2>2. GoodSave("main", id, Absent, "drawer") BY DEF GoodSave
  <2>3. Absent \in MaybeRecord BY DEF MaybeRecord
  <2> QED BY <1>0, <2>1, <2>2, <2>3, SavingIs
<1>2. ASSUME NEW id \in Ids, NEW slot \in Days \X (Sederim \cup {Lesson}), NEW form \in Forms,
             SaveDrawer(id, slot, form)
      PROVE  Saving("main")
  <2> DEFINE r == [day |-> slot[1], seder |-> slot[2], time |-> form.time,
                   excused |-> form.excused]
  <2>1. r \in StoredRecords BY DEF StoredRecords, Forms
  <2>2. Slot(r) = slot BY DEF Slot
  <2>3. r.seder # Lesson => On(memory["main"], slot) \subseteq {id} BY <1>2 DEF SaveDrawer
  <2>4. Send("main", id, r, "drawer") /\ UNCHANGED <<undo, quick>>
    BY <1>2 DEF SaveDrawer, Upsert
  <2> HIDE DEF r
  <2>5. GoodSave("main", id, r, "drawer") BY <2>2, <2>3 DEF GoodSave, SlotIsFree
  <2>6. r \in MaybeRecord BY <2>1 DEF MaybeRecord
  <2> QED BY <1>0, <2>4, <2>5, <2>6, SavingIs
<1> QED BY <1>1, <1>2 DEF DrawerSteps

LEMMA UndoSends == ASSUME Typed, ClickUndo PROVE Saving("main")
<1> USE DEF Views, Screens
<1>1. /\ undo.id \in Ids /\ undo.record \in MaybeRecord /\ quick \in Quicks
      /\ undo' = None /\ quick' = quick
  BY DEF ClickUndo, Typed, TypeInv
<1>2. Send("main", undo.id, undo.record, "undo") BY DEF ClickUndo, Upsert
<1>3. undo.record # Absent =>
        Accepted(memory["main"], undo.id, undo.record, TRUE) /\ undo.record \in StoredRecords
  BY <1>1 DEF ClickUndo, Upsert, MaybeRecord
<1>4. undo.record # Absent /\ undo.record.seder # Lesson =>
        SlotIsFree("main", undo.id, undo.record)
  BY <1>3 DEF Accepted, SlotIsFree, StoredRecords
<1>5. GoodSave("main", undo.id, undo.record, "undo") BY <1>4 DEF GoodSave
<1> QED BY <1>1, <1>2, <1>5, SavingIs

(* The quick window: it saves on the day and the seder that it shows.      *)
LEMMA QuickDays ==
    ASSUME Typed
    PROVE  /\ QuickDate \in Days /\ DateAtClick \in Days
           /\ shownToday["quick"] = today => DateAtClick = QuickDate
           /\ \A t : QuickSeder(t) \in Sederim
BY DEF Typed, TypeInv, Quicks, QuickDate, DateAtClick, QuickSeder, DetectSeder, Sederim, Views

LEMMA QuickExistingIs ==
    ASSUME Typed, NEW slot
    PROVE  /\ QuickExisting(slot) \in Shown
           /\ QuickExisting(slot) # None =>
                QuickExisting(slot).record \in StoredRecords
                /\ Slot(QuickExisting(slot).record) = slot
<1>1. memory["quick"] \in Lists BY DEF Typed, TypeInv, Views
<1>2. CASE QuickExisting(slot) = None BY <1>1, <1>2, ExistingIs DEF QuickExisting
<1>3. CASE QuickExisting(slot) # None BY <1>1, <1>3, ExistingIs, OnIs DEF QuickExisting
<1> QED BY <1>2, <1>3

LEMMA QuickSends ==
    ASSUME Typed, NEW slot, NEW r \in StoredRecords, Slot(r) = slot,
           NEW old \in {QuickExisting(slot), None},
           shownToday["quick"] = today => old = QuickExisting(slot),
           NEW from \in {"quick", "quick arrival"},
           SaveQuickRecord(old, r, from), UNCHANGED <<undo, quick>>
    PROVE  Saving("quick")
<1> USE DEF Views, Screens
<1>1. PICK id \in IF old = None THEN Unused ELSE {old.id} : Upsert("quick", id, r, from)
  BY DEF SaveQuickRecord
<1>2. id \in Ids
  <2>1. CASE old = None BY <2>1 DEF Unused
  <2>2. CASE old # None BY <2>2, ExistingId DEF QuickExisting
  <2> QED BY <2>1, <2>2
<1>3. shownToday["quick"] = today => SlotIsFree("quick", id, r)
  BY ExistingIsFree DEF QuickExisting
<1>4. Send("quick", id, r, from) BY <1>1 DEF Upsert
<1>5. GoodSave("quick", id, r, from) BY <1>3 DEF GoodSave
<1>6. undo \in {None} \cup [id : Ids, record : MaybeRecord] /\ quick \in Quicks
  BY DEF Typed, TypeInv
<1>7. r \in MaybeRecord BY DEF MaybeRecord
<1> QED BY <1>2, <1>4, <1>5, <1>6, <1>7, SavingIs

LEMMA LessonSends == ASSUME Typed, NEW t \in Times, LearnQuick(t) PROVE Saving("quick")
<1> USE DEF Views, Screens
<1> DEFINE r == ArrivalEntry(None, <<QuickDate, Lesson>>, t)
<1>1. r \in StoredRecords BY QuickDays, ArrivalType DEF Shown
<1>2. PICK id \in Unused : Upsert("quick", id, r, "quick")
  BY DEF LearnQuick, SaveQuickRecord
<1>3. id \in Ids BY DEF Unused
<1>4. Send("quick", id, r, "quick") /\ UNCHANGED <<undo, quick>>
  BY <1>2 DEF Upsert, LearnQuick
<1>5. r.seder = Lesson BY DEF ArrivalEntry
<1> HIDE DEF r
<1>6. GoodSave("quick", id, r, "quick") BY <1>5 DEF GoodSave
<1>7. undo \in {None} \cup [id : Ids, record : MaybeRecord] /\ quick \in Quicks
  BY DEF Typed, TypeInv
<1>8. r \in MaybeRecord BY <1>1 DEF MaybeRecord
<1> QED BY <1>3, <1>4, <1>6, <1>7, <1>8, SavingIs

LEMMA ArrivalSends == ASSUME Typed, NEW t \in Times, SaveQuick(t) PROVE Saving("quick")
<1> DEFINE slot == <<DateAtClick, QuickSeder(t)>>
           old  == IF DateAtClick = QuickDate THEN QuickExisting(slot) ELSE None
           r    == ArrivalEntry(old, slot, t)
<1>1. old \in Shown BY QuickExistingIs DEF Shown
<1>2. r \in StoredRecords /\ Slot(r) = slot BY <1>1, QuickDays, ArrivalType
<1>3. shownToday["quick"] = today => old = QuickExisting(slot) BY QuickDays
<1>4. SaveQuickRecord(old, r, "quick arrival") /\ UNCHANGED <<undo, quick>> BY DEF SaveQuick
<1>5. old \in {QuickExisting(slot), None} OBVIOUS
<1> HIDE DEF slot, old, r
<1> QED BY <1>2, <1>3, <1>4, <1>5, QuickSends

LEMMA ExcuseSends == ASSUME Typed, NEW t \in Times, ExcuseQuick(t) PROVE Saving("quick")
<1> DEFINE slot  == <<QuickDate, QuickSeder(t)>>
           old   == QuickExisting(slot)
           start == IF old = None THEN ArrivalEntry(None, slot, t) ELSE old.record
           r     == [start EXCEPT !.excused = TRUE]
<1>1. start \in StoredRecords /\ Slot(start) = slot
  BY QuickExistingIs, QuickDays, ArrivalType DEF Shown
<1>2. SaveQuickRecord(old, r, "quick") /\ UNCHANGED <<undo, quick>> BY DEF ExcuseQuick
<1> HIDE DEF start
<1>3. r \in StoredRecords /\ Slot(r) = slot BY <1>1 DEF StoredRecords, Slot
<1> HIDE DEF slot, r
<1> QED BY <1>2, <1>3, QuickSends

LEMMA AbsenceSends ==
    ASSUME Typed, NEW excused \in BOOLEAN, AbsentQuick(excused)
    PROVE  Saving("quick")
<1> DEFINE slot == <<QuickDate, quick.seder>>
           r    == AbsenceEntry(slot, excused)
<1>1. quick.seder \in Sederim BY DEF Typed, TypeInv, Quicks
<1>2. r \in StoredRecords /\ Slot(r) = slot BY <1>1, QuickDays, AbsenceType
<1>3. SaveQuickRecord(QuickExisting(slot), r, "quick") /\ UNCHANGED <<undo, quick>>
  BY DEF AbsentQuick
<1> HIDE DEF slot, r
<1> QED BY <1>2, <1>3, QuickSends
-----------------------------------------------------------------------------
(* Steps, by what they do to the card.                                     *)
Submitting ==
    \/ SubmitCard \/ DeleteCard \/ ClickUndo \/ DrawerSteps
    \/ \E seder \in Sederim, t \in Times : RecordHome(seder, t)
    \/ \E t \in Times : SaveQuick(t) \/ ExcuseQuick(t) \/ LearnQuick(t)
    \/ \E excused \in BOOLEAN : AbsentQuick(excused)

Elsewhere ==
    \/ \E w \in Views : NoticeDay(w)
    \/ \E t \in Times, kind \in {"excused", "absence", "learning"} : OpenDialog(kind, t)
    \/ CloseDialog \/ (\E seder \in Sederim : ChooseSeder(seder)) \/ Midnight
    \/ \E day \in Days \cup {None}, editing \in Sederim \cup {None} : ChooseQuick(day, editing)

OnCard ==
    \/ \E form \in Forms : TypeCard(form)
    \/ \E editing \in BOOLEAN : ReloadCard(editing)
    \/ LoadNewer \/ KeepMine

LEMMA NextIs ==
    EntriesNext =>
        \/ Submitting \/ Elsewhere \/ OnCard
        \/ \E w \in Views : SaveLands(w) \/ SaveAnswered(w) \/ SaveFails(w) \/ PollEntries(w)
        \/ \E day \in Days : ChangeDay(day)
        \/ \E next \in Pages : GoTo(next)
BY DEF EntriesNext, Submitting, Elsewhere, OnCard

LEMMA SubmittingSaves ==
    ASSUME Typed, SeenIsShown, Submitting
    PROVE  Saving("main") \/ Saving("quick")
<1>1. CASE SubmitCard \/ DeleteCard BY <1>1, CardSends
<1>2. CASE ClickUndo BY <1>2, UndoSends
<1>3. CASE DrawerSteps BY <1>3, DrawerSends
<1>4. ASSUME NEW seder \in Sederim, NEW t \in Times, RecordHome(seder, t)
      PROVE  Saving("main")
  BY <1>4, HomeSends
<1>5. ASSUME NEW t \in Times, SaveQuick(t) \/ ExcuseQuick(t) \/ LearnQuick(t)
      PROVE  Saving("quick")
  BY <1>5, ArrivalSends, ExcuseSends, LessonSends
<1>6. ASSUME NEW excused \in BOOLEAN, AbsentQuick(excused) PROVE Saving("quick")
  BY <1>6, AbsenceSends
<1> QED BY <1>1, <1>2, <1>3, <1>4, <1>5, <1>6 DEF Submitting

LEMMA ElsewhereIs ==
    ASSUME Typed, Elsewhere
    PROVE  Typed' /\ UNCHANGED <<file, memory, sent, page, card, undo, crossed>>
<1> USE DEF Typed, TypeInv, CardSaves
<1>1. ASSUME NEW w \in Views, NoticeDay(w)
      PROVE  Typed' /\ UNCHANGED <<file, memory, sent, page, card, undo, crossed>>
  BY <1>1 DEF NoticeDay, Quicks
<1>2. ASSUME NEW t, NEW kind \in {"excused", "absence", "learning"}, OpenDialog(kind, t)
      PROVE  Typed' /\ UNCHANGED <<file, memory, sent, page, card, undo, crossed>>
  <2>1. QuickSeder(t) \in Sederim /\ 1 \in Sederim BY QuickDays DEF Sederim
  <2> QED BY <1>2, <2>1 DEF OpenDialog, Quicks
<1>3. CASE CloseDialog BY <1>3 DEF CloseDialog, Quicks, Sederim
<1>4. ASSUME NEW seder \in Sederim, ChooseSeder(seder)
      PROVE  Typed' /\ UNCHANGED <<file, memory, sent, page, card, undo, crossed>>
  BY <1>4 DEF ChooseSeder, Quicks
<1>5. CASE Midnight BY <1>5 DEF Midnight
<1>6. ASSUME NEW day \in Days \cup {None}, NEW editing \in Sederim \cup {None},
             ChooseQuick(day, editing)
      PROVE  Typed' /\ UNCHANGED <<file, memory, sent, page, card, undo, crossed>>
  BY <1>6 DEF ChooseQuick, Quicks
<1> QED BY <1>1, <1>2, <1>3, <1>4, <1>5, <1>6 DEF Elsewhere

LEMMA SavingKeepsTypes == ASSUME Typed, NEW w \in Views, Saving(w) PROVE Typed'
<1> PICK id \in Ids, r \in MaybeRecord, from \in Screens :
        /\ Send(w, id, r, from) /\ GoodSave(w, id, r, from)
        /\ undo' \in {None} \cup [id : Ids, record : MaybeRecord] /\ quick' \in Quicks
  BY DEF Saving
<1>1. from = "card" => r \in StoredRecords BY DEF GoodSave
<1> QED BY <1>1, SendKeepsTypes

LEMMA OnCardKeepsTypes ==
    ASSUME Typed, SeenIsShown, OnCard
    PROVE  /\ Typed' /\ page = "card" /\ card'.day = card.day /\ card'.seen = card.seen
           /\ UNCHANGED <<file, memory, sent, page, undo, quick, crossed>>
<1> USE DEF Typed, TypeInv, CardSaves
<1>1. ASSUME NEW form \in Forms, TypeCard(form)
      PROVE  /\ Typed' /\ page = "card" /\ card'.day = card.day /\ card'.seen = card.seen
             /\ UNCHANGED <<file, memory, sent, page, undo, quick, crossed>>
  BY <1>1 DEF TypeCard, CardIsForm, Cards
<1>2. CASE LoadNewer BY <1>2 DEF LoadNewer, Cards
<1>3. CASE KeepMine BY <1>3 DEF KeepMine, Cards
<1>4. ASSUME NEW editing \in BOOLEAN, ReloadCard(editing)
      PROVE  /\ Typed' /\ page = "card" /\ card'.day = card.day /\ card'.seen = card.seen
             /\ UNCHANGED <<file, memory, sent, page, undo, quick, crossed>>
  <2> DEFINE fresh == Fresh(card.day, memory["main"])
  <2>1. memory["main"] \in Lists /\ card.day \in Days BY DEF Views, Cards
  <2>2. fresh \in Cards /\ fresh.day = card.day /\ fresh.seen = card.seen
    BY <1>4, <2>1, FreshIs DEF SeenIsShown, ReloadCard
  <2>3. card' = [fresh EXCEPT !.editing = editing] BY <1>4 DEF ReloadCard
  <2> HIDE DEF fresh
  <2>4. card' \in Cards /\ card'.day = card.day /\ card'.seen = card.seen
    BY <2>2, <2>3 DEF Cards
  <2> QED BY <1>4, <2>4 DEF ReloadCard
<1> QED BY <1>1, <1>2, <1>3, <1>4 DEF OnCard

LEMMA LandsIs ==
    ASSUME Typed, NEW w \in Views, SaveLands(w)
    PROVE  /\ Typed' /\ sent[w] # None
           /\ sent'[w].id = sent[w].id /\ sent'[w].base = sent[w].base
           /\ sent'[w].screen = sent[w].screen /\ sent'[w] \in Saves
           /\ \A v \in Views \ {w} : sent'[v] = sent[v]
           /\ UNCHANGED <<memory, page, card, undo, crossed>>
<1> DEFINE s == sent[w]
           merged == [file EXCEPT ![s.id] = Merged(s.base, s.next, @)]
           done == ~Conflict(s.base, s.next, file[s.id])
<1>1. /\ s \in Saves /\ s.id \in Ids /\ s.next \in MaybeRecord /\ sent[w] # None
  BY SentIs DEF SaveLands
<1>2. merged \in Lists BY <1>1, MergedIs DEF Lists, Typed, TypeInv
<1>3. file' = merged /\ sent' = [sent EXCEPT ![w].list = merged, ![w].complete = done]
  BY DEF SaveLands
<1>4. done \in BOOLEAN OBVIOUS
<1> HIDE DEF merged, done
<1>5. sent' = [sent EXCEPT ![w] = [s EXCEPT !.list = merged, !.complete = done]]
  BY <1>3
<1> DEFINE next == [s EXCEPT !.list = merged, !.complete = done]
<1>6. /\ next \in Saves /\ next.id = s.id /\ next.base = s.base /\ next.screen = s.screen
      /\ next.next = s.next
  BY <1>1, <1>2, <1>4 DEF Saves
<1> HIDE DEF next
<1>7. sent'[w] = next /\ \A v \in Views \ {w} : sent'[v] = sent[v]
  BY <1>5 DEF Typed, TypeInv, next
<1>8. sent' \in [Views -> {None} \cup Saves]
  BY <1>5, <1>6 DEF Typed, TypeInv, next
<1>9. CardSaves' BY <1>1, <1>6, <1>7 DEF CardSaves, Typed
<1>10. UNCHANGED <<memory, today, shownToday, page, card, undo, quick, crossed>>
  BY DEF SaveLands
<1> QED BY <1>1, <1>2, <1>3, <1>6, <1>7, <1>8, <1>9, <1>10 DEF Typed, TypeInv

LEMMA FailsKeepsTypes == ASSUME Typed, NEW w \in Views, SaveFails(w) PROVE Typed'
<1> DEFINE book == [memory[w] EXCEPT ![sent[w].id] = sent[w].base]
<1>1. book \in Lists BY SentIs DEF SaveFails, Lists, Typed, TypeInv
<1>2. Shows(w, book) BY DEF SaveFails
<1>3. memory' \in [Views -> Lists] /\ card' \in Cards BY <1>1, <1>2, ShowsType
<1>4. sent' = [sent EXCEPT ![w] = None] BY DEF SaveFails
<1>5. CardSaves' BY <1>4 DEF CardSaves, Typed, TypeInv
<1> QED BY <1>3, <1>4, <1>5 DEF SaveFails, Typed, TypeInv

LEMMA PollKeepsTypes == ASSUME Typed, NEW w \in Views, PollEntries(w) PROVE Typed'
<1>1. Shows(w, file) /\ file \in Lists BY DEF PollEntries, Typed, TypeInv
<1>2. memory' \in [Views -> Lists] /\ card' \in Cards BY <1>1, ShowsType
<1> QED BY <1>2 DEF PollEntries, Typed, TypeInv, CardSaves

(* The list an answer brings has come, and the card has followed it.       *)
LEMMA AnsweredIs ==
    ASSUME Typed, NEW w \in Views, SaveAnswered(w)
    PROVE  /\ sent[w].list \in Lists /\ sent' = [sent EXCEPT ![w] = None]
           /\ memory' = [memory EXCEPT ![w] = sent[w].list]
           /\ Follow(card, sent[w].list, CardSaving) \in Cards
           /\ card' \in Cards
<1>1. sent[w].list \in Lists /\ sent[w] # None BY SentIs DEF SaveAnswered
<1>2. Follow(card, sent[w].list, CardSaving) \in Cards
  BY <1>1, FollowIs, SavingType DEF Typed, TypeInv
<1>3. card' \in Cards
  <2>1. CASE w = "main" /\ page = "card"
    <3>1. card' = CardAnswered(Follow(card, sent[w].list, CardSaving), sent[w], sent[w].complete)
      BY <2>1 DEF SaveAnswered
    <3> QED BY <1>1, <1>2, <3>1, AnsweredType
  <2>2. CASE ~(w = "main" /\ page = "card") BY <2>2 DEF SaveAnswered, Typed, TypeInv
  <2> QED BY <2>1, <2>2
<1> QED BY <1>1, <1>2, <1>3 DEF SaveAnswered

LEMMA AnsweredKeepsTypes == ASSUME Typed, NEW w \in Views, SaveAnswered(w) PROVE Typed'
<1>1. /\ sent[w].list \in Lists /\ sent' = [sent EXCEPT ![w] = None] /\ card' \in Cards
      /\ memory' = [memory EXCEPT ![w] = sent[w].list]
  BY AnsweredIs
<1>2. undo' \in {None} \cup [id : Ids, record : MaybeRecord]
  <2>1. UndoOffer(sent[w]) \in {undo} \cup [id : Ids, record : MaybeRecord]
    BY SentIs DEF SaveAnswered, UndoOffer, MaybeRecord
  <2> QED BY <2>1 DEF SaveAnswered, Typed, TypeInv
<1>3. quick' \in Quicks
  <2>1. QuickSaved(sent[w].screen) \in Quicks
    BY DEF QuickSaved, Quicks, Sederim, Typed, TypeInv
  <2> QED BY <2>1 DEF SaveAnswered, Typed, TypeInv
<1>4. CardSaves' BY <1>1 DEF CardSaves, Typed, TypeInv
<1>5. crossed' \in BOOLEAN BY DEF SaveAnswered, Typed, TypeInv
<1> QED BY <1>1, <1>2, <1>3, <1>4, <1>5 DEF SaveAnswered, Typed, TypeInv

LEMMA FreshKeepsTypes ==
    ASSUME Typed, (\E day \in Days : ChangeDay(day)) \/ \E next \in Pages : GoTo(next)
    PROVE  Typed'
<1> USE DEF Typed, TypeInv
<1>0. memory["main"] \in Lists /\ "main" \in Views BY DEF Views
<1>1. ASSUME NEW day \in Days, ChangeDay(day) PROVE Typed'
  <2>1. card' \in Cards BY <1>0, <1>1, FreshIs DEF ChangeDay
  <2>2. crossed' \in BOOLEAN BY <1>1, SavingType DEF ChangeDay
  <2> QED BY <1>1, <2>1, <2>2 DEF ChangeDay, CardSaves
<1>2. ASSUME NEW next \in Pages, GoTo(next) PROVE Typed'
  <2>1. NoCard \in Cards
    <3>1. [i \in Ids |-> Absent] \in Lists BY DEF Lists, MaybeRecord
    <3> QED BY <3>1, FreshIs, EntriesAssumption DEF NoCard
  <2>2. card' \in Cards BY <1>0, <1>2, <2>1, FreshIs DEF GoTo
  <2>3. CASE sent["main"] = None BY <1>2, <2>2, <2>3 DEF GoTo, CardSaves
  <2>4. CASE sent["main"] # None
    <3> DEFINE gone == [sent["main"] EXCEPT !.screen = "gone"]
    <3>1. gone \in Saves /\ gone.screen = "gone"
      <4>1. sent["main"] \in Saves BY <1>0, <2>4
      <4> QED BY <4>1 DEF Saves, Screens
    <3>2. sent' = [sent EXCEPT !["main"] = gone] BY <1>2, <2>4 DEF GoTo
    <3> HIDE DEF gone
    <3>3. sent' \in [Views -> {None} \cup Saves] BY <3>1, <3>2
    <3>4. CardSaves' BY <1>0, <3>1, <3>2 DEF CardSaves
    <3> QED BY <1>2, <2>2, <3>3, <3>4 DEF GoTo
  <2> QED BY <2>3, <2>4
<1> QED BY <1>1, <1>2
-----------------------------------------------------------------------------
(* The card shows what its window has.                                     *)
LEMMA SeenIsKept ==
    ASSUME Typed, SeenIsShown, [EntriesNext]_entryVars
    PROVE  SeenIsShown'
<1> USE DEF Views
<1>0. card \in Cards /\ memory["main"] \in Lists /\ memory \in [Views -> Lists]
  BY DEF Typed, TypeInv
<1>1. CASE Submitting
  <2>1. ASSUME NEW w \in Views, Saving(w) PROVE SeenIsShown'
    <3> PICK id \in Ids, r \in MaybeRecord, from \in Screens : Send(w, id, r, from)
      BY <2>1 DEF Saving
    <3>1. CASE w = "main" /\ page = "card"
      <4>1. card' = Follow(card, memory'["main"], from \in {"card", "card delete"})
        BY <3>1 DEF Send
      <4>2. memory'["main"] \in Lists BY <3>1, SendIs
      <4>3. (from \in {"card", "card delete"}) \in BOOLEAN OBVIOUS
      <4>4. /\ card'.day = card.day
            /\ card'.seen = Existing(memory'["main"], <<card.day, CardSeder>>)
        BY <1>0, <4>1, <4>2, <4>3, FollowIs
      <4> QED BY <4>4 DEF SeenIsShown
    <3>2. CASE w # "main" \/ page # "card"
      <4>1. card' = card /\ page' = page BY <3>2 DEF Send
      <4>2. w # "main" => memory'["main"] = memory["main"] BY SendIs
      <4> QED BY <3>2, <4>1, <4>2 DEF SeenIsShown
    <3> QED BY <3>1, <3>2
  <2> QED BY <1>1, <2>1, SubmittingSaves
<1>2. CASE Elsewhere BY <1>2, ElsewhereIs DEF SeenIsShown
<1>3. CASE OnCard BY <1>3, OnCardKeepsTypes DEF SeenIsShown
<1>4. ASSUME NEW w \in Views, SaveLands(w) PROVE SeenIsShown'
  BY <1>4, LandsIs DEF SeenIsShown
<1>5. ASSUME NEW w \in Views, NEW book \in Lists, Shows(w, book), page' = page
      PROVE  SeenIsShown'
  <2>1. CASE w = "main" /\ page = "card"
    BY <1>0, <1>5, <2>1, FollowIs, SavingType DEF Shows, SeenIsShown
  <2>2. CASE w # "main" \/ page # "card" BY <1>0, <1>5, <2>2 DEF Shows, SeenIsShown
  <2> QED BY <2>1, <2>2
<1>6. ASSUME NEW w \in Views, SaveFails(w) PROVE SeenIsShown'
  <2>1. [memory[w] EXCEPT ![sent[w].id] = sent[w].base] \in Lists
    BY <1>6, SentIs DEF SaveFails, Lists, Typed, TypeInv
  <2> QED BY <1>5, <1>6, <2>1 DEF SaveFails
<1>7. ASSUME NEW w \in Views, PollEntries(w) PROVE SeenIsShown'
  BY <1>5, <1>7 DEF PollEntries, Typed, TypeInv
<1>8. ASSUME NEW w \in Views, SaveAnswered(w) PROVE SeenIsShown'
  <2> DEFINE f == Follow(card, sent[w].list, CardSaving)
  <2>1. sent[w].list \in Lists /\ memory' = [memory EXCEPT ![w] = sent[w].list]
    BY <1>8, AnsweredIs
  <2>2. CASE w = "main" /\ page = "card"
    <3>1. f \in Cards /\ f.day = card.day
            /\ f.seen = Existing(sent[w].list, <<card.day, CardSeder>>)
      BY <1>0, <2>1, FollowIs, SavingType
    <3>2. card' = CardAnswered(f, sent[w], sent[w].complete) BY <1>8, <2>2 DEF SaveAnswered
    <3> HIDE DEF f
    <3>3. card'.day = f.day /\ card'.seen = f.seen BY <3>1, <3>2 DEF CardAnswered, Cards
    <3>4. memory'["main"] = sent[w].list BY <1>0, <2>1, <2>2
    <3> QED BY <3>1, <3>3, <3>4 DEF SeenIsShown
  <2>3. CASE w # "main" \/ page # "card"
    <3>1. card' = card /\ page' = page BY <1>8, <2>3 DEF SaveAnswered
    <3> QED BY <1>0, <2>1, <2>3, <3>1 DEF SeenIsShown
  <2> QED BY <2>2, <2>3
<1>9. ASSUME NEW day \in Days, ChangeDay(day) PROVE SeenIsShown'
  <2>1. card' = Fresh(day, memory["main"]) /\ memory' = memory BY <1>9 DEF ChangeDay
  <2> QED BY <1>0, <2>1, FreshHas DEF SeenIsShown
<1>10. ASSUME NEW next \in Pages, GoTo(next) PROVE SeenIsShown'
  <2>1. today \in Days BY DEF Typed, TypeInv
  <2>2. page' = "card" => card' = Fresh(today, memory["main"]) BY <1>10 DEF GoTo
  <2>3. memory' = memory BY <1>10 DEF GoTo
  <2> DEFINE fresh == Fresh(today, memory["main"])
  <2>4. fresh.day = today /\ fresh.seen = Existing(memory["main"], <<today, CardSeder>>)
    BY <1>0, <2>1, FreshHas
  <2> HIDE DEF fresh
  <2>5. page' = "card" => card' = fresh BY <2>2 DEF fresh
  <2> QED BY <2>3, <2>4, <2>5 DEF SeenIsShown
<1>11. CASE UNCHANGED entryVars BY <1>11 DEF entryVars, SeenIsShown
<1> QED
  BY <1>1, <1>2, <1>3, <1>4, <1>6, <1>7, <1>8, <1>9, <1>10, <1>11, NextIs

(* A draft is what is typed and differs from where the form was started.   *)
DraftDiffers ==
    page = "card" /\ card.typed # None /\ ~crossed =>
        card.form = card.typed /\ card.form # card.base

LEMMA FollowKeepsDraft ==
    ASSUME NEW c \in Cards, NEW book \in Lists, NEW saving \in BOOLEAN,
           c.typed # None => c.form = c.typed /\ c.form # c.base
    PROVE  LET f == Follow(c, book, saving)
           IN  f.typed # None => f.form = f.typed /\ f.form # f.base
<1> DEFINE stored == Existing(book, <<c.day, CardSeder>>)
           form   == StoredForm(stored)
           f      == Follow(c, book, saving)
<1>1. CASE f = c BY <1>1
<1>2. CASE f = [c EXCEPT !.seen = stored]
  <2> HIDE DEF f, stored
  <2>1. f.typed = c.typed /\ f.form = c.form /\ f.base = c.base BY <1>2 DEF Cards
  <2> QED BY <2>1 DEF f
<1>3. CASE f = Fresh(c.day, book)
  <2>1. c.day \in Days BY DEF Cards
  <2>2. f.typed = None BY <1>3, <2>1, FreshHas
  <2> QED BY <2>2
<1>4. CASE /\ c.form \in {form, c.base} /\ f.form = form /\ f.base = form
           /\ f.typed = IF c.typed = form THEN None ELSE c.typed
  BY <1>4
<1>5. CASE /\ c.form \notin {form, c.base} /\ f.form = c.form /\ f.base = c.base
           /\ f.typed = IF c.typed = form THEN None ELSE c.typed
  BY <1>5
<1> HIDE DEF f, form
<1>6. \/ f = c
      \/ f = [c EXCEPT !.seen = stored]
      \/ f = Fresh(c.day, book)
      \/ /\ c.form \in {form, c.base} /\ f.form = form /\ f.base = form
         /\ f.typed = IF c.typed = form THEN None ELSE c.typed
      \/ /\ c.form \notin {form, c.base} /\ f.form = c.form /\ f.base = c.base
         /\ f.typed = IF c.typed = form THEN None ELSE c.typed
  BY FollowIs DEF f, form
<1> QED BY <1>1, <1>2, <1>3, <1>4, <1>5, <1>6 DEF f

LEMMA FollowedDraft ==
    ASSUME Typed, DraftDiffers, NEW w \in Views, NEW book \in Lists, Shows(w, book),
           page' = page, crossed' = crossed
    PROVE  DraftDiffers'
<1>1. CASE w = "main" /\ page = "card" /\ ~crossed
  <2>1. card' = Follow(card, book, CardSaving) BY <1>1 DEF Shows
  <2>2. card \in Cards BY DEF Typed, TypeInv
  <2>3. card.typed # None => card.form = card.typed /\ card.form # card.base
    BY <1>1 DEF DraftDiffers
  <2>4. card'.typed # None => card'.form = card'.typed /\ card'.form # card'.base
    BY <2>1, <2>2, <2>3, FollowKeepsDraft, SavingType
  <2> QED BY <2>4 DEF DraftDiffers
<1>2. CASE w # "main" \/ page # "card" \/ crossed BY <1>2 DEF Shows, DraftDiffers
<1> QED BY <1>1, <1>2

LEMMA DraftIsDifferent ==
    ASSUME Typed, SeenIsShown, DraftDiffers, [EntriesNext]_entryVars
    PROVE  DraftDiffers'
<1> USE DEF Views
<1>0. card \in Cards /\ memory["main"] \in Lists /\ memory \in [Views -> Lists] /\ today \in Days
  BY DEF Typed, TypeInv
<1>1. CASE Submitting
  <2>1. ASSUME NEW w \in Views, Saving(w) PROVE DraftDiffers'
    <3> PICK id \in Ids, r \in MaybeRecord, from \in Screens : Send(w, id, r, from)
      BY <2>1 DEF Saving
    <3>1. CASE w = "main" /\ page = "card" /\ ~crossed
      <4>1. card' = Follow(card, memory'["main"], from \in {"card", "card delete"})
        BY <3>1 DEF Send
      <4>2. memory'["main"] \in Lists BY <3>1, SendIs
      <4>3. (from \in {"card", "card delete"}) \in BOOLEAN OBVIOUS
      <4>4. card.typed # None => card.form = card.typed /\ card.form # card.base
        BY <3>1 DEF DraftDiffers
      <4>5. card'.typed # None => card'.form = card'.typed /\ card'.form # card'.base
        BY <1>0, <4>1, <4>2, <4>3, <4>4, FollowKeepsDraft
      <4> QED BY <4>5 DEF DraftDiffers
    <3>2. CASE w # "main" \/ page # "card" \/ crossed BY <3>2 DEF Send, DraftDiffers
    <3> QED BY <3>1, <3>2
  <2> QED BY <1>1, <2>1, SubmittingSaves
<1>2. CASE Elsewhere BY <1>2, ElsewhereIs DEF DraftDiffers
<1>3. CASE OnCard
  <2>1. ASSUME NEW form \in Forms, TypeCard(form) PROVE DraftDiffers'
    BY <1>0, <2>1 DEF TypeCard, Cards, DraftDiffers
  <2>2. ASSUME NEW editing \in BOOLEAN, ReloadCard(editing) PROVE DraftDiffers'
    <3> DEFINE fresh == Fresh(card.day, memory["main"])
    <3>1. card.day \in Days BY <1>0 DEF Cards
    <3>2. fresh \in Cards /\ fresh.typed = None BY <1>0, <3>1, FreshHas
    <3>3. card' = [fresh EXCEPT !.editing = editing] BY <2>2 DEF ReloadCard
    <3> HIDE DEF fresh
    <3>4. card'.typed = None BY <3>2, <3>3 DEF Cards
    <3> QED BY <3>4 DEF DraftDiffers
  <2>3. CASE LoadNewer BY <1>0, <2>3 DEF LoadNewer, Cards, DraftDiffers
  <2>4. CASE KeepMine BY <1>0, <2>4 DEF KeepMine, Cards, DraftDiffers
  <2> QED BY <1>3, <2>1, <2>2, <2>3, <2>4 DEF OnCard
<1>4. ASSUME NEW w \in Views, SaveLands(w) PROVE DraftDiffers'
  BY <1>4, LandsIs DEF DraftDiffers
<1>5. ASSUME NEW w \in Views, SaveFails(w) PROVE DraftDiffers'
  <2>1. [memory[w] EXCEPT ![sent[w].id] = sent[w].base] \in Lists
    BY <1>5, SentIs DEF SaveFails, Lists, Typed, TypeInv
  <2> QED BY <1>5, <2>1, FollowedDraft DEF SaveFails
<1>6. ASSUME NEW w \in Views, PollEntries(w) PROVE DraftDiffers'
  BY <1>6, FollowedDraft DEF PollEntries, Typed, TypeInv
<1>7. ASSUME NEW w \in Views, SaveAnswered(w) PROVE DraftDiffers'
  <2> DEFINE f == Follow(card, sent[w].list, CardSaving)
  <2>1. sent[w].list \in Lists /\ f \in Cards BY <1>7, AnsweredIs
  <2>2. CASE w = "main" /\ page = "card" /\ ~crossed
    <3>1. card.typed # None => card.form = card.typed /\ card.form # card.base
      BY <2>2 DEF DraftDiffers
    <3>2. f.typed # None => f.form = f.typed /\ f.form # f.base
      BY <1>0, <2>1, <3>1, FollowKeepsDraft, SavingType
    <3>3. card' = CardAnswered(f, sent[w], sent[w].complete) BY <1>7, <2>2 DEF SaveAnswered
    <3> HIDE DEF f
    <3>4. card'.typed # None => card'.form = card'.typed /\ card'.form # card'.base
      BY <2>1, <3>2, <3>3 DEF CardAnswered, Cards
    <3> QED BY <3>4 DEF DraftDiffers
  <2>3. CASE w # "main" \/ page # "card"
    BY <1>7, <2>3 DEF SaveAnswered, DraftDiffers
  <2>4. CASE crossed BY <1>7, <2>4 DEF SaveAnswered, DraftDiffers
  <2> QED BY <2>2, <2>3, <2>4 DEF Typed, TypeInv
<1>8. ASSUME NEW day \in Days, ChangeDay(day) PROVE DraftDiffers'
  <2>1. card' = Fresh(day, memory["main"]) BY <1>8 DEF ChangeDay
  <2>2. card'.typed = None BY <1>0, <2>1, FreshHas
  <2> QED BY <2>2 DEF DraftDiffers
<1>9. ASSUME NEW next \in Pages, GoTo(next) PROVE DraftDiffers'
  <2> DEFINE fresh == Fresh(today, memory["main"])
  <2>1. fresh.typed = None BY <1>0, FreshHas
  <2>2. page' = "card" => card' = fresh BY <1>9 DEF GoTo
  <2> HIDE DEF fresh
  <2> QED BY <2>1, <2>2 DEF DraftDiffers
<1>10. CASE UNCHANGED entryVars BY <1>10 DEF entryVars, DraftDiffers
<1> QED BY <1>1, <1>2, <1>3, <1>4, <1>5, <1>6, <1>7, <1>8, <1>9, <1>10, NextIs
-----------------------------------------------------------------------------
(* The invariant of the screens.                                           *)
EntriesInv == Typed /\ SeenIsShown /\ DraftDiffers

LEMMA StartsTyped == EntriesInit => EntriesInv
<1> SUFFICES ASSUME EntriesInit PROVE EntriesInv OBVIOUS
<1> DEFINE empty == [i \in Ids |-> Absent]
<1>1. 1 \in Days BY EntriesAssumption
<1>2. empty \in Lists BY DEF Lists, MaybeRecord
<1>3. file \in Lists
  <2>1. PICK r \in {Absent} \cup {ArrivalEntry(None, <<1, CardSeder>>, t) : t \in Times} :
            file = [empty EXCEPT ![FirstId] = r]
    BY DEF EntriesInit
  <2>2. r \in MaybeRecord
    <3>1. None \in Shown /\ CardSeder \in Sederim \cup {Lesson} BY DEF Shown, CardSeder, Sederim
    <3> QED BY <1>1, <2>1, <3>1, ArrivalType DEF MaybeRecord
  <2> HIDE DEF empty
  <2> QED BY <1>2, <2>1, <2>2 DEF Lists
<1>4. NoCard \in Cards BY <1>1, <1>2, FreshIs DEF NoCard
<1> DEFINE fresh == Fresh(1, file)
<1>5. /\ fresh \in Cards /\ fresh.day = 1 /\ fresh.typed = None
      /\ fresh.seen = Existing(file, <<1, CardSeder>>)
  BY <1>1, <1>3, FreshHas
<1>6. page \in Pages /\ card = IF page = "card" THEN fresh ELSE NoCard BY DEF EntriesInit
<1> HIDE DEF fresh
<1>7. /\ sent = [w \in Views |-> None] /\ memory = [w \in Views |-> file] /\ undo = None
      /\ today = 1 /\ shownToday = [w \in Views |-> 1] /\ crossed = FALSE
      /\ quick = [day |-> None, editing |-> None, dialog |-> None, seder |-> 1]
  BY DEF EntriesInit
<1>8. TypeInv
  <2>1. quick \in Quicks BY <1>7 DEF Quicks, Sederim
  <2> QED BY <1>1, <1>3, <1>4, <1>5, <1>6, <1>7, <2>1 DEF TypeInv
<1>9. CardSaves BY <1>7 DEF CardSaves
<1>10. SeenIsShown BY <1>5, <1>6, <1>7 DEF SeenIsShown, Views
<1>11. DraftDiffers BY <1>5, <1>6 DEF DraftDiffers
<1> QED BY <1>8, <1>9, <1>10, <1>11 DEF EntriesInv, Typed

LEMMA TypesAreKept ==
    ASSUME Typed, SeenIsShown, [EntriesNext]_entryVars
    PROVE  Typed'
<1>1. CASE Submitting
  BY <1>1, SubmittingSaves, SavingKeepsTypes DEF Views
<1>2. CASE Elsewhere BY <1>2, ElsewhereIs
<1>3. CASE OnCard BY <1>3, OnCardKeepsTypes
<1>4. ASSUME NEW w \in Views, SaveLands(w) \/ SaveAnswered(w) \/ SaveFails(w) \/ PollEntries(w)
      PROVE  Typed'
  BY <1>4, LandsIs, AnsweredKeepsTypes, FailsKeepsTypes, PollKeepsTypes
<1>5. CASE (\E day \in Days : ChangeDay(day)) \/ \E next \in Pages : GoTo(next)
  BY <1>5, FreshKeepsTypes
<1>6. CASE UNCHANGED entryVars BY <1>6 DEF entryVars, Typed, TypeInv, CardSaves
<1> QED BY <1>1, <1>2, <1>3, <1>4, <1>5, <1>6, NextIs

LEMMA InvIsKept == EntriesInv /\ [EntriesNext]_entryVars => EntriesInv'
BY TypesAreKept, SeenIsKept, DraftIsDifferent DEF EntriesInv

(* What is typed into the card stays in its form, whatever the other       *)
(* window saves and however the card's own save ends, until it is saved,   *)
(* reloaded or left (Follow and CardAnswered: reconcileForm and the answer *)
(* handlers of attendance.tsx).  The invariant adds why: a draft differs   *)
(* from the version its form was loaded from, so the form does not follow. *)
THEOREM DraftStays == EntriesSpec => []DraftIsKept
<1>1. EntriesInv => DraftIsKept BY DEF EntriesInv, DraftDiffers, DraftIsKept
<1> QED BY <1>1, StartsTyped, InvIsKept, PTL DEF EntriesSpec

LEMMA SavingIsFree ==
    ASSUME Typed, NEW v \in Views, Saving(v), NEW w \in Views, sent[w] = None, sent'[w] # None,
           sent'[w].next # Absent, sent'[w].next.seder # Lesson, shownToday[w] = today
    PROVE  SlotIsFree(w, sent'[w].id, sent'[w].next) /\ sent'[w].base = memory[w][sent'[w].id]
<1> PICK id \in Ids, r \in MaybeRecord, from \in Screens :
        Send(v, id, r, from) /\ GoodSave(v, id, r, from)
  BY DEF Saving
<1>1. w = v BY SendIs
<1>2. sent'[w] = [id |-> id, base |-> memory[w][id], next |-> r, screen |-> from,
                  list |-> None, complete |-> TRUE]
  BY <1>1, SendIs
<1>3. sent'[w].id = id /\ sent'[w].next = r /\ sent'[w].base = memory[w][id] BY <1>2
<1> QED BY <1>1, <1>3 DEF GoodSave

LEMMA OnlySubmittingSends ==
    ASSUME Typed, SeenIsShown, [EntriesNext]_entryVars, NEW w \in Views, sent[w] = None,
           sent'[w] # None
    PROVE  Submitting
<1> USE DEF Views
<1>1. sent \in [Views -> {None} \cup Saves] BY DEF Typed, TypeInv
<1>2. CASE Elsewhere BY <1>2, ElsewhereIs
<1>3. CASE OnCard BY <1>3, OnCardKeepsTypes
<1>4. ASSUME NEW v \in Views, SaveLands(v) PROVE FALSE BY <1>4, LandsIs
<1>5. ASSUME NEW v \in Views, SaveAnswered(v) \/ SaveFails(v) \/ PollEntries(v) PROVE FALSE
  BY <1>1, <1>5 DEF SaveAnswered, SaveFails, PollEntries
<1>6. ASSUME NEW day \in Days, ChangeDay(day) PROVE FALSE BY <1>6 DEF ChangeDay
<1>7. ASSUME NEW next \in Pages, GoTo(next) PROVE FALSE BY <1>1, <1>7 DEF GoTo
<1>8. CASE UNCHANGED entryVars BY <1>8 DEF entryVars
<1> QED BY <1>2, <1>3, <1>4, <1>5, <1>6, <1>7, <1>8, NextIs

(* No screen brings a record to a seder for which its window shows another *)
(* one, as long as the window knows what day it is: card, home, drawer,    *)
(* undo and quick entry each look for the record that is there, every one  *)
(* in its own way, before the store's checked save is called.              *)
THEOREM SederStaysFree == EntriesSpec => OneRecordPerSeder
<1> DEFINE Free ==
        \A w \in Views :
            (/\ sent[w] = None /\ sent'[w] # None /\ sent'[w].next # Absent
             /\ sent'[w].next.seder # Lesson /\ shownToday[w] = today)
                => LET s == sent'[w]
                   IN  \/ On(memory[w], Slot(s.next)) \subseteq {s.id}
                       \/ s.base # Absent /\ Slot(s.base) = Slot(s.next)
<1>1. ASSUME EntriesInv, [EntriesNext]_entryVars PROVE Free
  <2> SUFFICES ASSUME NEW w \in Views, sent[w] = None, sent'[w] # None,
                      sent'[w].next # Absent, sent'[w].next.seder # Lesson,
                      shownToday[w] = today
               PROVE  \/ On(memory[w], Slot(sent'[w].next)) \subseteq {sent'[w].id}
                      \/ sent'[w].base # Absent /\ Slot(sent'[w].base) = Slot(sent'[w].next)
    OBVIOUS
  <2>1. Typed /\ SeenIsShown BY <1>1 DEF EntriesInv
  <2>2. Submitting BY <1>1, <2>1, OnlySubmittingSends
  <2>3. PICK v \in Views : Saving(v) BY <2>1, <2>2, SubmittingSaves DEF Views
  <2>4. SlotIsFree(w, sent'[w].id, sent'[w].next) /\ sent'[w].base = memory[w][sent'[w].id]
    BY <2>1, <2>3, SavingIsFree
  <2> QED BY <2>4 DEF SlotIsFree
<1>2. EntriesInv /\ [EntriesNext]_entryVars => [Free]_entryVars BY <1>1
<1>3. EntriesSpec => [][Free]_entryVars
  BY <1>2, StartsTyped, InvIsKept, PTL DEF EntriesSpec
<1> QED BY <1>3 DEF OneRecordPerSeder
-----------------------------------------------------------------------------
(* What the user knows of: the version the form was loaded from, the one   *)
(* that is offered, and the one last told of.                              *)
Version(c, form) ==
    form \in {c.base, c.told} /\ (c.newer # None => form \in {c.newer, c.told})

Knows(c) ==
    c.seen # None =>
        /\ c.editing => FormOf(c.seen.record) \in {c.base, c.told}
        /\ c.newer # None => FormOf(c.seen.record) \in {c.newer, c.told}

NotSilent == page = "card" /\ ~crossed /\ ~CardSaving => Knows(card)

(* The list as it will be again when the save of the card fails.           *)
Restored == [memory["main"] EXCEPT ![sent["main"].id] = sent["main"].base]

PendingSave ==
    page = "card" /\ ~crossed /\ CardSaving =>
        LET old == Existing(Restored, <<card.day, CardSeder>>)
        IN  old # None => Version(card, FormOf(old.record))

LEMMA FreshKnows ==
    ASSUME NEW book \in Lists, NEW day \in Days
    PROVE  Knows(Fresh(day, book))
<1> DEFINE f == Fresh(day, book)
           stored == Existing(book, <<day, CardSeder>>)
<1>1. f.seen = stored /\ f.base = StoredForm(stored) /\ f.newer = None BY FreshHas
<1> HIDE DEF f, stored
<1>2. stored # None => StoredForm(stored) = FormOf(stored.record) BY DEF StoredForm
<1>3. Knows(f) BY <1>1, <1>2 DEF Knows
<1> QED BY <1>3 DEF f

LEMMA FollowKnows ==
    ASSUME NEW c \in Cards, NEW book \in Lists, NEW saving \in BOOLEAN, ~saving, Knows(c)
    PROVE  Knows(Follow(c, book, saving))
<1> DEFINE stored == Existing(book, <<c.day, CardSeder>>)
           form   == StoredForm(stored)
           f      == Follow(c, book, saving)
<1>1. f.seen = stored BY FollowIs
<1>2. stored # None => form = FormOf(stored.record) BY DEF StoredForm
<1>3. CASE f = c BY <1>3
<1>4. CASE f = Fresh(c.day, book)
  <2>1. c.day \in Days BY DEF Cards
  <2> QED BY <1>4, <2>1, FreshKnows
<1>5. CASE stored # None /\ f.base = form /\ f.newer = None
  <2> HIDE DEF f, form, stored
  <2>1. Knows(f) BY <1>1, <1>2, <1>5 DEF Knows
  <2> QED BY <2>1 DEF f
<1>6. CASE stored # None /\ f.told = form
  <2> HIDE DEF f, form, stored
  <2>1. Knows(f) BY <1>1, <1>2, <1>6 DEF Knows
  <2> QED BY <2>1 DEF f
<1>7. \/ f = c \/ f = Fresh(c.day, book)
      \/ stored # None /\ f.base = form /\ f.newer = None
      \/ stored # None /\ f.told = form
  BY FollowIs
<1> QED BY <1>3, <1>4, <1>5, <1>6, <1>7

(* While the card saves, its form, what it started from and what is        *)
(* offered stay; only the record it shows changes.                         *)
LEMMA FollowWaits ==
    ASSUME NEW c \in Cards, NEW book \in Lists, NEW saving \in BOOLEAN, saving
    PROVE  LET f == Follow(c, book, saving)
           IN  /\ f.seen = Existing(book, <<c.day, CardSeder>>) /\ f.day = c.day
               /\ f.base = c.base /\ f.newer = c.newer /\ f.told = c.told
               /\ f.editing = c.editing
<1> DEFINE stored == Existing(book, <<c.day, CardSeder>>)
           f      == Follow(c, book, saving)
<1>1. f.seen = stored /\ f.day = c.day /\ (f = c \/ f = [c EXCEPT !.seen = stored])
  BY FollowIs
<1> HIDE DEF f, stored
<1>2. f.base = c.base /\ f.newer = c.newer /\ f.told = c.told /\ f.editing = c.editing
  BY <1>1 DEF Cards
<1> QED BY <1>1, <1>2 DEF f, stored

(* What does not reach the main window's card keeps both.                  *)
LEMMA SameCard ==
    ASSUME NotSilent, PendingSave, UNCHANGED <<page, card, crossed>>,
           CardSaving' = CardSaving, CardSaving => Restored' = Restored
    PROVE  NotSilent' /\ PendingSave'
BY DEF NotSilent, PendingSave

LEMMA SameMain ==
    ASSUME NotSilent, PendingSave, UNCHANGED <<page, card, crossed>>,
           sent'["main"] = sent["main"], memory'["main"] = memory["main"]
    PROVE  NotSilent' /\ PendingSave'
<1>1. CardSaving' = CardSaving BY DEF CardSaving
<1>2. Restored' = Restored BY DEF Restored
<1> QED BY <1>1, <1>2, SameCard

LEMMA SavingKnows ==
    ASSUME Typed, SeenIsShown, NotSilent, PendingSave, NEW w \in Views, Saving(w)
    PROVE  NotSilent' /\ PendingSave'
<1> USE DEF Views
<1> PICK id \in Ids, r \in MaybeRecord, from \in Screens :
        Send(w, id, r, from) /\ GoodSave(w, id, r, from)
  BY DEF Saving
<1>0. /\ card \in Cards /\ memory["main"] \in Lists /\ UNCHANGED <<page, crossed>>
      /\ sent[w] = None
  BY DEF Typed, TypeInv, Send
<1>1. CASE w # "main"
  <2>1. /\ sent'["main"] = sent["main"] /\ memory'["main"] = memory["main"]
        /\ UNCHANGED <<page, card, crossed>>
    BY <1>1, SendIs DEF Send
  <2> QED BY <2>1, SameMain
<1>2. CASE w = "main" /\ (page # "card" \/ crossed)
  BY <1>0, <1>2 DEF NotSilent, PendingSave
<1>3. CASE w = "main" /\ page = "card" /\ ~crossed
  <2>1. sent'[w] = [id |-> id, base |-> memory[w][id], next |-> r, screen |-> from,
                    list |-> None, complete |-> TRUE]
    BY SendIs
  <2>2. /\ sent'[w].id = id /\ sent'[w].base = memory[w][id] /\ sent'[w].screen = from
        /\ sent'[w] \in Saves
    BY <2>1, SendIs
  <2>3. sent'[w] # None BY <2>2, EntriesAssumption
  <2>4. Knows(card) BY <1>0, <1>3 DEF NotSilent, CardSaving
  <2>5. memory'["main"] \in Lists BY <1>3, SendIs
  <2>6. CASE from \in {"card", "card delete"}
    <3>1. CardSaving' BY <1>3, <2>2, <2>3, <2>6 DEF CardSaving
    <3>2. Restored' = memory["main"]
      <4>1. memory'["main"] = [memory["main"] EXCEPT ![id] = r]
        BY <1>3, SendShows
      <4>2. Restored' = [[memory["main"] EXCEPT ![id] = r] EXCEPT ![id] = memory["main"][id]]
        BY <1>3, <2>2, <4>1 DEF Restored
      <4> QED BY <1>0, <4>2 DEF Lists
    <3>3. card' = Follow(card, memory'["main"], from \in {"card", "card delete"})
      BY <1>3 DEF Send
    <3>4. /\ card'.day = card.day /\ card'.base = card.base /\ card'.newer = card.newer
          /\ card'.told = card.told
      BY <1>0, <2>5, <2>6, <3>3, FollowWaits
    <3>5. card.seen # None => card.editing BY <2>6 DEF GoodSave, CardIsForm
    <3>6. card.seen # None => Version(card', FormOf(card.seen.record))
      BY <2>4, <3>4, <3>5 DEF Knows, Version
    <3>7. Existing(memory["main"], <<card.day, CardSeder>>) = card.seen
      BY <1>3 DEF SeenIsShown
    <3> QED BY <3>1, <3>2, <3>4, <3>6, <3>7 DEF NotSilent, PendingSave
  <2>7. CASE from \notin {"card", "card delete"}
    <3>1. ~CardSaving' BY <1>3, <2>2, <2>7 DEF CardSaving
    <3> DEFINE held == from \in {"card", "card delete"}
    <3>2. card' = Follow(card, memory'["main"], held) BY <1>3 DEF Send
    <3>3. held \in BOOLEAN OBVIOUS
    <3>4. ~held BY <2>7
    <3> HIDE DEF held
    <3>5. Knows(card') BY <1>0, <2>4, <2>5, <3>2, <3>3, <3>4, FollowKnows
    <3> QED BY <3>1, <3>5 DEF NotSilent, PendingSave
  <2> QED BY <2>6, <2>7
<1> QED BY <1>1, <1>2, <1>3

LEMMA ShownKnows ==
    ASSUME Typed, NotSilent, PendingSave, NEW book \in Lists, Shows("main", book), ~CardSaving,
           ~CardSaving', UNCHANGED <<page, crossed>>
    PROVE  NotSilent' /\ PendingSave'
<1>1. CASE page = "card" /\ ~crossed
  <2>1. card' = Follow(card, book, CardSaving) BY <1>1 DEF Shows
  <2>2. Knows(card) /\ card \in Cards BY <1>1 DEF NotSilent, Typed, TypeInv
  <2>3. Knows(card') BY <2>1, <2>2, FollowKnows, SavingType
  <2> QED BY <2>3 DEF NotSilent, PendingSave
<1>2. CASE page # "card" \/ crossed BY <1>2 DEF NotSilent, PendingSave
<1> QED BY <1>1, <1>2

LEMMA FailsKnows ==
    ASSUME Typed, NotSilent, PendingSave, NEW w \in Views, SaveFails(w)
    PROVE  NotSilent' /\ PendingSave'
<1> USE DEF Views
<1>0. memory \in [Views -> Lists] /\ sent \in [Views -> {None} \cup Saves]
        /\ card \in Cards /\ UNCHANGED <<page, crossed>>
  BY DEF Typed, TypeInv, SaveFails
<1>1. CASE w # "main"
  <2>1. /\ sent'["main"] = sent["main"] /\ memory'["main"] = memory["main"]
        /\ UNCHANGED <<page, card, crossed>>
    BY <1>0, <1>1 DEF SaveFails, Shows
  <2> QED BY <2>1, SameMain
<1>2. CASE w = "main"
  <2>1. ~CardSaving' BY <1>0, <1>2 DEF SaveFails, CardSaving
  <2>2. Shows("main", Restored) BY <1>2 DEF SaveFails, Restored
  <2>3. Restored \in Lists BY <1>0, <1>2, SentIs DEF SaveFails, Lists, Restored
  <2>4. CASE ~CardSaving BY <1>0, <2>1, <2>2, <2>3, <2>4, ShownKnows
  <2>5. CASE CardSaving /\ page = "card" /\ ~crossed
    <3> DEFINE old == Existing(Restored, <<card.day, CardSeder>>)
    <3>1. card' = Follow(card, Restored, CardSaving) BY <2>2, <2>5 DEF Shows
    <3>2. /\ card'.seen = old /\ card'.base = card.base /\ card'.newer = card.newer
          /\ card'.told = card.told
      BY <1>0, <2>3, <2>5, <3>1, FollowWaits, SavingType
    <3>3. old # None => Version(card, FormOf(old.record)) BY <2>5 DEF PendingSave
    <3> HIDE DEF old
    <3>4. Knows(card') BY <3>2, <3>3 DEF Knows, Version
    <3> QED BY <2>1, <3>4 DEF NotSilent, PendingSave
  <2>6. CASE page # "card" \/ crossed BY <1>0, <2>6 DEF NotSilent, PendingSave
  <2> QED BY <2>4, <2>5, <2>6 DEF Typed, TypeInv
<1> QED BY <1>1, <1>2

LEMMA AnsweredKnows ==
    ASSUME Typed, NotSilent, PendingSave, NEW w \in Views, SaveAnswered(w)
    PROVE  NotSilent' /\ PendingSave'
<1> USE DEF Views
<1>0. memory \in [Views -> Lists] /\ sent \in [Views -> {None} \cup Saves]
        /\ card \in Cards /\ page' = page /\ sent[w] # None
  BY DEF Typed, TypeInv, SaveAnswered
<1>1. /\ sent[w].list \in Lists /\ sent' = [sent EXCEPT ![w] = None]
      /\ memory' = [memory EXCEPT ![w] = sent[w].list]
  BY AnsweredIs
<1>2. CASE w # "main"
  <2>1. /\ sent'["main"] = sent["main"] /\ memory'["main"] = memory["main"]
        /\ card' = card
    BY <1>0, <1>1, <1>2 DEF SaveAnswered
  <2>2. crossed' = crossed BY <1>2 DEF SaveAnswered, Typed, TypeInv
  <2> QED BY <1>0, <2>1, <2>2, SameMain
<1>3. CASE w = "main" /\ page = "card" /\ ~crossed
  <2> DEFINE s == sent["main"]
             f == Follow(card, s.list, CardSaving)
  <2>1. ~CardSaving' BY <1>0, <1>1, <1>3 DEF CardSaving
  <2>2. card' = CardAnswered(f, s, s.complete) BY <1>3 DEF SaveAnswered
  <2>3. f \in Cards BY <1>3, AnsweredIs
  <2>4. s.complete \in BOOLEAN BY <1>0, <1>3, SentIs
  <2>5. CASE ~crossed'
    <3>1. CASE s.screen = "card" /\ s.complete
      <4> HIDE DEF f, s
      <4>1. card'.newer = None /\ card'.editing = FALSE
        BY <2>2, <2>3, <3>1 DEF CardAnswered, Cards
      <4> QED BY <2>1, <4>1 DEF NotSilent, PendingSave, Knows
    <3>2. CASE s.screen = "card delete" /\ s.complete
      <4>1. card'.seen = None BY <1>3, <2>5, <3>2 DEF SaveAnswered
      <4> QED BY <2>1, <4>1 DEF NotSilent, PendingSave, Knows
    <3>3. CASE s.screen \in {"card", "card delete"} /\ ~s.complete
      <4> HIDE DEF f, s
      <4>1. card' = [f EXCEPT !.told = IF f.seen = None THEN None ELSE FormOf(f.seen.record)]
        BY <2>2, <3>3 DEF CardAnswered
      <4>2. Knows(card') BY <2>3, <4>1 DEF Knows, Cards
      <4> QED BY <2>1, <4>2 DEF NotSilent, PendingSave
    <3>4. CASE s.screen \notin {"card", "card delete"}
      <4>1. card' = f BY <2>2, <3>4 DEF CardAnswered
      <4>2. ~CardSaving BY <3>4 DEF CardSaving
      <4>3. Knows(card) BY <1>3, <4>2 DEF NotSilent
      <4>4. Knows(card') BY <1>0, <1>1, <1>3, <4>1, <4>2, <4>3, FollowKnows, SavingType
      <4> QED BY <2>1, <4>4 DEF NotSilent, PendingSave
    <3> QED BY <2>4, <3>1, <3>2, <3>3, <3>4
  <2>6. CASE crossed' BY <2>6 DEF NotSilent, PendingSave
  <2> QED BY <2>5, <2>6
<1>4. CASE page # "card" \/ crossed
  <2>1. crossed => crossed' BY DEF SaveAnswered, Typed, TypeInv
  <2> QED BY <1>0, <1>4, <2>1 DEF NotSilent, PendingSave
<1> QED BY <1>2, <1>3, <1>4 DEF Typed, TypeInv

LEMMA OnCardKnows ==
    ASSUME Typed, SeenIsShown, NotSilent, PendingSave, OnCard
    PROVE  NotSilent' /\ PendingSave'
<1>0. /\ card \in Cards /\ memory["main"] \in Lists /\ page = "card"
      /\ UNCHANGED <<memory, sent, page, crossed>> /\ card'.day = card.day
      /\ card'.seen = card.seen
  BY OnCardKeepsTypes DEF Typed, TypeInv, Views
<1>1. CardSaving' = CardSaving /\ Restored' = Restored BY <1>0 DEF CardSaving, Restored
<1>2. ASSUME Knows(card) => Knows(card'),
             \A form : Version(card, form) => Version(card', form)
      PROVE  NotSilent' /\ PendingSave'
  BY <1>0, <1>1, <1>2 DEF NotSilent, PendingSave
<1>3. ASSUME NEW form \in Forms, TypeCard(form) PROVE NotSilent' /\ PendingSave'
  <2>1. /\ card'.base = card.base /\ card'.newer = card.newer /\ card'.told = card.told
        /\ card'.editing = card.editing
    BY <1>0, <1>3 DEF TypeCard, Cards
  <2> QED BY <1>0, <1>2, <2>1 DEF Knows, Version
<1>4. CASE LoadNewer
  <2>1. /\ card.newer # None /\ card'.base = card.newer /\ card'.newer = None
        /\ card'.told = card.told
    BY <1>0, <1>4 DEF LoadNewer, Cards
  <2> QED BY <1>0, <1>2, <2>1 DEF Knows, Version
<1>5. CASE KeepMine
  <2>1. /\ card'.base = card.base /\ card'.newer = None /\ card'.told = card.told
        /\ card'.editing = card.editing
    BY <1>0, <1>5 DEF KeepMine, Cards
  <2> QED BY <1>0, <1>2, <2>1 DEF Knows, Version
<1>6. ASSUME NEW editing \in BOOLEAN, ReloadCard(editing) PROVE NotSilent' /\ PendingSave'
  <2> DEFINE fresh  == Fresh(card.day, memory["main"])
             stored == Existing(memory["main"], <<card.day, CardSeder>>)
  <2>1. card.day \in Days BY <1>0 DEF Cards
  <2>2. /\ fresh \in Cards /\ fresh.seen = stored /\ fresh.base = StoredForm(stored)
        /\ fresh.newer = None
    BY <1>0, <2>1, FreshHas
  <2>3. card' = [fresh EXCEPT !.editing = editing] BY <1>6 DEF ReloadCard
  <2> HIDE DEF fresh, stored
  <2>4. stored # None => StoredForm(stored) = FormOf(stored.record) BY DEF StoredForm
  <2>5. Knows(card') BY <2>2, <2>3, <2>4 DEF Knows, Cards
  <2>6. ~CardSaving BY <1>6 DEF ReloadCard
  <2> QED BY <1>1, <2>5, <2>6 DEF NotSilent, PendingSave
<1> QED BY <1>3, <1>4, <1>5, <1>6 DEF OnCard

LEMMA KnowsIsKept ==
    ASSUME Typed, SeenIsShown, NotSilent, PendingSave, [EntriesNext]_entryVars
    PROVE  NotSilent' /\ PendingSave'
<1> USE DEF Views
<1>0. /\ memory \in [Views -> Lists] /\ sent \in [Views -> {None} \cup Saves]
      /\ memory["main"] \in Lists /\ today \in Days /\ card \in Cards
  BY DEF Typed, TypeInv
<1>1. CASE Submitting BY <1>1, SubmittingSaves, SavingKnows
<1>2. CASE Elsewhere
  <2>1. UNCHANGED <<memory, sent, page, card, crossed>> BY <1>2, ElsewhereIs
  <2> QED BY <2>1, SameMain
<1>3. CASE OnCard BY <1>3, OnCardKnows
<1>4. ASSUME NEW w \in Views, SaveLands(w) PROVE NotSilent' /\ PendingSave'
  <2>1. UNCHANGED <<memory, page, card, crossed>> BY <1>4, LandsIs
  <2>2. CASE w # "main"
    <3>1. sent'["main"] = sent["main"] BY <1>4, <2>2, LandsIs
    <3> QED BY <2>1, <3>1, SameMain
  <2>3. CASE w = "main"
    <3>1. /\ sent[w] # None /\ sent'[w] \in Saves /\ sent'[w].id = sent[w].id
          /\ sent'[w].base = sent[w].base /\ sent'[w].screen = sent[w].screen
      BY <1>4, LandsIs
    <3>2. sent'[w] # None BY <3>1, EntriesAssumption
    <3>3. CardSaving' = CardSaving BY <2>3, <3>1, <3>2 DEF CardSaving
    <3>4. Restored' = Restored BY <2>1, <2>3, <3>1 DEF Restored
    <3> QED BY <2>1, <3>3, <3>4, SameCard
  <2> QED BY <2>2, <2>3
<1>5. ASSUME NEW w \in Views, SaveFails(w) PROVE NotSilent' /\ PendingSave'
  BY <1>5, FailsKnows
<1>6. ASSUME NEW w \in Views, SaveAnswered(w) PROVE NotSilent' /\ PendingSave'
  BY <1>6, AnsweredKnows
<1>7. ASSUME NEW w \in Views, PollEntries(w) PROVE NotSilent' /\ PendingSave'
  <2>1. UNCHANGED <<sent, page, crossed>> /\ Shows(w, file) /\ file \in Lists /\ sent[w] = None
    BY <1>7 DEF PollEntries, Typed, TypeInv
  <2>2. CASE w = "main"
    <3>1. ~CardSaving /\ ~CardSaving' BY <2>1, <2>2 DEF CardSaving
    <3> QED BY <2>1, <2>2, <3>1, ShownKnows
  <2>3. CASE w # "main"
    <3>1. card' = card /\ memory'["main"] = memory["main"] BY <1>0, <2>1, <2>3 DEF Shows
    <3> QED BY <2>1, <3>1, SameMain
  <2> QED BY <2>2, <2>3
<1>8. ASSUME NEW day \in Days, ChangeDay(day) PROVE NotSilent' /\ PendingSave'
  <2>1. /\ card' = Fresh(day, memory["main"]) /\ crossed' = (crossed \/ CardSaving)
        /\ sent' = sent
    BY <1>8 DEF ChangeDay
  <2>2. CardSaving' = CardSaving BY <2>1 DEF CardSaving
  <2>3. Knows(card') BY <1>0, <2>1, FreshKnows
  <2>4. CardSaving => crossed' BY <2>1
  <2> QED BY <2>2, <2>3, <2>4 DEF NotSilent, PendingSave
<1>9. ASSUME NEW next \in Pages, GoTo(next) PROVE NotSilent' /\ PendingSave'
  <2>1. ~CardSaving'
    <3>1. CASE sent["main"] = None BY <1>9, <3>1 DEF GoTo, CardSaving
    <3>2. CASE sent["main"] # None
      <4>1. sent'["main"] = [sent["main"] EXCEPT !.screen = "gone"] /\ sent["main"] \in Saves
        BY <1>0, <1>9, <3>2 DEF GoTo
      <4>2. sent'["main"].screen = "gone" BY <4>1 DEF Saves
      <4> QED BY <4>2 DEF CardSaving
    <3> QED BY <3>1, <3>2
  <2> DEFINE fresh == Fresh(today, memory["main"])
  <2>2. page' = "card" => card' = fresh BY <1>9 DEF GoTo
  <2>3. Knows(fresh) BY <1>0, FreshKnows
  <2> HIDE DEF fresh
  <2> QED BY <2>1, <2>2, <2>3 DEF NotSilent, PendingSave
<1>10. CASE UNCHANGED entryVars
  <2>1. UNCHANGED <<memory, sent, page, card, crossed>> BY <1>10 DEF entryVars
  <2> QED BY <2>1, SameMain
<1> QED BY <1>1, <1>2, <1>3, <1>4, <1>5, <1>6, <1>7, <1>8, <1>9, <1>10, NextIs

LEMMA StartsKnowing == EntriesInit => NotSilent /\ PendingSave
<1> SUFFICES ASSUME EntriesInit PROVE NotSilent /\ PendingSave OBVIOUS
<1>1. file \in Lists /\ 1 \in Days
  BY StartsTyped, EntriesAssumption DEF EntriesInv, Typed, TypeInv
<1>2. page = "card" => card = Fresh(1, file) BY DEF EntriesInit
<1>3. page = "card" => Knows(card) BY <1>1, <1>2, FreshKnows
<1>4. ~CardSaving BY DEF EntriesInit, CardSaving, Views
<1> QED BY <1>3, <1>4 DEF NotSilent, PendingSave

(* The card saves over the version its form was loaded from, or over one   *)
(* the user was told of: never silently over what the other window wrote.  *)
(* Follow of attendance.tsx either lets a clean form follow or offers the  *)
(* newer version, a save under way holds the offer back, and the answer to *)
(* a save that was not complete tells of what stands there.                *)
THEOREM NeverSilent == EntriesSpec => NoSilentOverwrite
<1> DEFINE Overwrites ==
        (/\ sent["main"] = None /\ sent'["main"] # None /\ ~crossed
         /\ sent'["main"].screen = "card" /\ sent'["main"].base # Absent)
            => FormOf(sent'["main"].base) \in {card.base, card.told}
<1>1. ASSUME EntriesInv, NotSilent, [EntriesNext]_entryVars PROVE Overwrites
  <2> USE DEF Views
  <2> SUFFICES ASSUME sent["main"] = None, sent'["main"] # None, ~crossed,
                      sent'["main"].screen = "card", sent'["main"].base # Absent
               PROVE  FormOf(sent'["main"].base) \in {card.base, card.told}
    OBVIOUS
  <2>1. Typed /\ SeenIsShown BY <1>1 DEF EntriesInv
  <2>2. Submitting BY <1>1, <2>1, OnlySubmittingSends
  <2>3. PICK v \in Views : Saving(v) BY <2>1, <2>2, SubmittingSaves
  <2>4. PICK id \in Ids, r \in MaybeRecord, from \in Screens :
            Send(v, id, r, from) /\ GoodSave(v, id, r, from)
    BY <2>3 DEF Saving
  <2>5. v = "main" BY <2>1, <2>4, SendIs
  <2>6. sent'[v] = [id |-> id, base |-> memory[v][id], next |-> r, screen |-> from,
                    list |-> None, complete |-> TRUE]
    BY <2>1, <2>4, SendIs
  <2>7. sent'[v].base = memory[v][id] /\ sent'[v].screen = from BY <2>6
  <2>8. page = "card" /\ SavesSeen(id) /\ CardIsForm BY <2>4, <2>5, <2>7 DEF GoodSave
  <2>9. card.seen # None /\ card.seen.record = memory["main"][id] /\ card.editing
    BY <2>5, <2>7, <2>8 DEF SavesSeen, CardIsForm
  <2>10. ~CardSaving BY DEF CardSaving
  <2>11. Knows(card) BY <1>1, <2>8, <2>10 DEF NotSilent
  <2> QED BY <2>5, <2>7, <2>9, <2>11 DEF Knows
<1>2. EntriesInv /\ NotSilent /\ [EntriesNext]_entryVars => [Overwrites]_entryVars BY <1>1
<1>3. EntriesInv /\ NotSilent /\ PendingSave /\ [EntriesNext]_entryVars
        => (NotSilent /\ PendingSave)'
  BY KnowsIsKept DEF EntriesInv
<1>4. EntriesSpec => [][Overwrites]_entryVars
  BY <1>2, <1>3, StartsTyped, StartsKnowing, InvIsKept, PTL DEF EntriesSpec
<1> QED BY <1>4 DEF NoSilentOverwrite

-----------------------------------------------------------------------------
(***************************************************************************)
(* A link shows what it meant, for any records, phrases and walk.          *)
(*                                                                         *)
(* What is on the screen is a list made from the records, the view and the *)
(* month, and each of the three is changed by others than the link.  The   *)
(* invariant says what a promise that still stands has left in them: the   *)
(* view is the one its link set, whole, and the month is its own.          *)
(***************************************************************************)

JournalSpec == JournalInit /\ [][JournalNext]_journalVars

RowsAreRecords == \A i \in DOMAIN rows : rows[i] \in JournalRecords

(* A link to no record is the one of the month's summary.                  *)
LinksAreKnown ==
    \A l \in link : l.id = {} => l.kind = "seder" /\ l.filter = {"exceptions"}

PromisedRows ==
    \A i \in promise.rows :
        i \in DOMAIN rows /\ rows[i].month = month /\ view = DefaultView(rows[i].kind)

PromisedMonths ==
    \A m \in promise.months :
        m = month /\ view = [DefaultView("seder") EXCEPT !.type = {"exceptions"}]

PromiseHasBoth == promise = [rows |-> promise.rows, months |-> promise.months]

JournalInv ==
    RowsAreRecords /\ LinksAreKnown /\ PromiseHasBoth /\ PromisedRows /\ PromisedMonths

(* A view that nothing filters shows every record of its tab and month.    *)
LEMMA OpenedIsListed ==
    ASSUME NEW i \in DOMAIN rows, RowsAreRecords,
           rows[i].month = month, view = DefaultView(rows[i].kind)
    PROVE  i \in Listed
<1>1. rows[i].kind \in {"seder", "learning"} BY JournalAssumption DEF RowsAreRecords
<1>2. CASE rows[i].kind = "seder"
  BY <1>2 DEF Listed, FilterSeder, DefaultView
<1>3. CASE rows[i].kind = "learning"
  BY <1>3 DEF Listed, FilterLearning, DefaultView
<1> QED BY <1>1, <1>2, <1>3

(* The view of a summary's link shows every exception of its month.        *)
LEMMA ExceptionIsListed ==
    ASSUME NEW i \in DOMAIN rows, Exceptional(rows[i]), rows[i].month = month,
           view = [DefaultView("seder") EXCEPT !.type = {"exceptions"}]
    PROVE  i \in Listed
BY DEF Listed, FilterSeder, DefaultView, Exceptional

LEMMA PromiseIsListed == JournalInv => LinkShowsWhatItMeant
<1> SUFFICES ASSUME JournalInv PROVE LinkShowsWhatItMeant OBVIOUS
<1>1. promise.rows \subseteq Listed
  BY OpenedIsListed DEF JournalInv, PromisedRows
<1>2. ASSUME NEW m \in promise.months
      PROVE  {i \in DOMAIN rows : Exceptional(rows[i]) /\ rows[i].month = m} \subseteq Listed
  BY ExceptionIsListed DEF JournalInv, PromisedMonths
<1> QED BY <1>1, <1>2 DEF LinkShowsWhatItMeant

LEMMA JournalInvAtFirst == JournalInit => JournalInv
BY DEF JournalInit, JournalInv, RowsAreRecords, LinksAreKnown, PromiseHasBoth, PromisedRows,
       PromisedMonths, NoPromise

(* No promise stands while the rows and the links are in order.            *)
LEMMA NothingPromised ==
    ASSUME RowsAreRecords', LinksAreKnown', promise' = NoPromise
    PROVE  JournalInv'
BY DEF JournalInv, PromiseHasBoth, PromisedRows, PromisedMonths, NoPromise

(* A step that leaves rows, view and month alone leaves the promise true.  *)
LEMMA PromiseStands ==
    ASSUME JournalInv, LinksAreKnown', UNCHANGED <<rows, view, month, promise>>
    PROVE  JournalInv'
BY DEF JournalInv, RowsAreRecords, PromiseHasBoth, PromisedRows, PromisedMonths

LEMMA LinkApplied == ASSUME JournalInv, ApplyLink PROVE JournalInv'
<1> USE DEF JournalInv, RowsAreRecords, LinksAreKnown
<1>0. RowsAreRecords' BY DEF ApplyLink
<1> PICK l \in link :
        \/ /\ l.id = {}
           /\ month' = l.month /\ view' = ViewPatchFromSearch(l) /\ link' = {}
           /\ promise' = [rows |-> {}, months |-> {l.month}] /\ UNCHANGED drawer
        \/ \E i \in ResolveOpenTarget(l) :
           /\ month' = rows[i].month /\ view' = ViewOf(i) /\ link' = {}
           /\ promise' = [rows |-> {i}, months |-> {}] /\ drawer' = {i}
        \/ /\ l.id # {} /\ ResolveOpenTarget(l) = {} /\ ~l.applied
           /\ month' = l.month /\ link' = {[l EXCEPT !.applied = TRUE]}
           /\ promise' = NoPromise /\ UNCHANGED <<view, drawer>>
  BY DEF ApplyLink
<1>1. CASE /\ l.id = {}
           /\ month' = l.month /\ view' = ViewPatchFromSearch(l) /\ link' = {}
           /\ promise' = [rows |-> {}, months |-> {l.month}]
  BY <1>0, <1>1 DEF ViewPatchFromSearch, PromiseHasBoth, PromisedRows, PromisedMonths
<1>2. ASSUME NEW i \in ResolveOpenTarget(l),
             month' = rows[i].month, view' = ViewOf(i), link' = {},
             promise' = [rows |-> {i}, months |-> {}]
      PROVE  JournalInv'
  <2>1. i \in DOMAIN rows' /\ rows' = rows BY <1>2 DEF ResolveOpenTarget, ApplyLink
  <2> QED BY <1>0, <1>2, <2>1 DEF ViewOf, PromiseHasBoth, PromisedRows, PromisedMonths
<1>3. CASE l.id # {} /\ link' = {[l EXCEPT !.applied = TRUE]} /\ promise' = NoPromise
  <2>1. [l EXCEPT !.applied = TRUE].id # {} BY <1>3
  <2>2. LinksAreKnown' BY <1>3, <2>1
  <2> QED BY <1>0, <1>3, <2>2, NothingPromised
<1> QED BY <1>1, <1>2, <1>3

(* The record that changed is no longer promised; the others are as before.*)
LEMMA RowChanged ==
    ASSUME JournalInv, NEW i, NEW r \in JournalRecords, RowChanges(i, r)
    PROVE  JournalInv'
<1> USE DEF JournalInv, RowChanges
<1>1. RowsAreRecords' BY DEF RowsAreRecords
<1>2. promise'.rows = promise.rows \ {i} /\ promise'.months = promise.months /\ PromiseHasBoth'
  BY DEF PromiseHasBoth
<1>3. PromisedRows' BY <1>2 DEF PromisedRows
<1>4. PromisedMonths' BY <1>2 DEF PromisedMonths
<1> QED BY <1>1, <1>2, <1>3, <1>4 DEF LinksAreKnown

LEMMA RowGone == ASSUME JournalInv, NEW i, RowRemoved(i) PROVE JournalInv'
<1> USE DEF JournalInv, RowRemoved
<1>1. RowsAreRecords' BY DEF RowsAreRecords
<1>2. promise'.rows = promise.rows \ {i} /\ promise'.months = promise.months /\ PromiseHasBoth'
  BY DEF PromiseHasBoth
<1>3. PromisedRows' BY <1>2 DEF PromisedRows
<1>4. PromisedMonths' BY <1>2 DEF PromisedMonths
<1> QED BY <1>1, <1>2, <1>3, <1>4 DEF LinksAreKnown

LEMMA LinkFollowed ==
    ASSUME JournalInv, NEW i, OpenResult(i) \/ \E m \in RowMonths : ShowExceptions(m)
    PROVE  JournalInv'
<1>1. RowsAreRecords' /\ promise' = NoPromise
  BY DEF OpenResult, ShowExceptions, FollowLink, JournalInv, RowsAreRecords
<1>2. LinksAreKnown'
  BY DEF OpenResult, ShowExceptions, FollowLink, OpenParams, ExceptionsOf, LinksAreKnown
<1> QED BY <1>1, <1>2, NothingPromised

LEMMA JournalInvIsKept == JournalInv /\ [JournalNext]_journalVars => JournalInv'
<1> SUFFICES ASSUME JournalInv, [JournalNext]_journalVars PROVE JournalInv' OBVIOUS
<1>1. CASE ApplyLink BY <1>1, LinkApplied
<1>2. CASE CloseDrawer BY <1>2, PromiseStands DEF CloseDrawer, JournalInv, LinksAreKnown
<1>3. ASSUME NEW i \in Rows, OpenRow(i) PROVE JournalInv'
  BY <1>3, PromiseStands DEF OpenRow, JournalInv, LinksAreKnown
<1>4. ASSUME NEW i \in Rows, OpenResult(i) PROVE JournalInv' BY <1>4, LinkFollowed
<1>5. ASSUME NEW i \in Rows, RowRemoved(i) PROVE JournalInv' BY <1>5, RowGone
<1>6. ASSUME NEW i \in Rows, NEW r \in JournalRecords, RowChanges(i, r) PROVE JournalInv'
  BY <1>6, RowChanged
<1>7. ASSUME NEW v \in NextViews, SetView(v) PROVE JournalInv'
  BY <1>7, NothingPromised DEF SetView, JournalInv, RowsAreRecords, LinksAreKnown
<1>8. ASSUME NEW m \in RowMonths, PickMonth(m) PROVE JournalInv'
  BY <1>8, NothingPromised DEF PickMonth, JournalInv, RowsAreRecords, LinksAreKnown
<1>9. ASSUME NEW m \in RowMonths, ShowExceptions(m) PROVE JournalInv' BY <1>9, LinkFollowed
<1>10. ASSUME NEW day, NEW shown, PickDay(day, shown) PROVE JournalInv'
  BY <1>10, PromiseStands DEF PickDay, JournalInv, LinksAreKnown
<1>11. ASSUME NEW next, MoveTo(next) PROVE JournalInv'
  BY <1>11, PromiseStands DEF MoveTo, JournalInv, LinksAreKnown
<1>12. ASSUME NEW f, SetSearch(f) PROVE JournalInv'
  BY <1>12, PromiseStands DEF SetSearch, JournalInv, LinksAreKnown
<1>13. CASE UNCHANGED journalVars
  BY <1>13, PromiseStands DEF journalVars, JournalInv, LinksAreKnown
<1> QED
  BY <1>1, <1>2, <1>3, <1>4, <1>5, <1>6, <1>7, <1>8, <1>9, <1>10, <1>11, <1>12, <1>13
  DEF JournalNext

(* However the user has filtered, searched and moved, and whatever records *)
(* came, changed or went: what a link promises is in the list behind it    *)
(* (LinkShowsWhatItMeant), for every set of records, phrases and rows.     *)
THEOREM LinksKeepTheirPromise == JournalSpec => []LinkShowsWhatItMeant
<1>1. JournalInit => JournalInv BY JournalInvAtFirst
<1>2. JournalInv /\ [JournalNext]_journalVars => JournalInv' BY JournalInvIsKept
<1>3. JournalInv => LinkShowsWhatItMeant BY PromiseIsListed
<1> QED BY <1>1, <1>2, <1>3, PTL DEF JournalSpec

-----------------------------------------------------------------------------
(***************************************************************************)
(* The snapshots, for any windows, records, retention and number of acts:  *)
(* what a replacement takes away stays beside it in a safety copy, and a   *)
(* copy made before an operation leaves the file for named reasons only.   *)
(*                                                                         *)
(* listWith and the merging save walk a list element by element, so what   *)
(* they do is proved by induction on its length: UpTo says it of the set   *)
(* of the lengths it holds for, Recursion that the walk is defined.        *)
(***************************************************************************)

(* The natural numbers are well ordered.                                   *)
LEMMA LeastExists ==
    ASSUME NEW S \in SUBSET Nat, S # {}
    PROVE  \E n \in S : \A m \in S : n <= m
<1> DEFINE R == OpToRel(<, Nat)
<1>1. IsWellFoundedOn(R, Nat) BY NatLessThanWellFounded
<1>2. ASSUME NEW x \in Nat, NEW y \in Nat, ~(<<x, y>> \in R) PROVE ~(x < y)
  BY <1>2 DEF OpToRel
<1> HIDE DEF R
<1>3. PICK x \in S : \A y \in S : ~(<<y, x>> \in R) BY <1>1, WFMin
<1>4. ASSUME NEW y \in S PROVE x <= y
  <2>1. x \in Nat /\ y \in Nat OBVIOUS
  <2>2. ~(y < x) BY <1>2, <1>3, <2>1
  <2> QED BY <2>1, <2>2
<1> QED BY <1>4

(* Induction up to n, with the set of the numbers it holds for.            *)
LEMMA UpTo ==
    ASSUME NEW n \in Nat, NEW P \in SUBSET (0 .. n), 0 \in P,
           \A k \in 1 .. n : k - 1 \in P => k \in P
    PROVE  P = 0 .. n
<1> SUFFICES ASSUME (0 .. n) \ P # {} PROVE FALSE OBVIOUS
<1> PICK k \in (0 .. n) \ P : \A m \in (0 .. n) \ P : k <= m
  <2>1. (0 .. n) \ P \in SUBSET Nat OBVIOUS
  <2> QED BY <2>1, LeastExists
<1>1. k # 0 OBVIOUS
<1>2. k - 1 \in 0 .. n /\ ~(k <= k - 1) /\ k \in 1 .. n BY <1>1
<1>3. k - 1 \in P BY <1>2
<1> QED BY <1>2, <1>3

(* A recursion over 0 .. n that stays in a set defines a function.         *)
Defined(n, D, a, step) ==
    \E g \in [0 .. n -> D] : g[0] = a /\ \A k \in 1 .. n : g[k] = step[k][g[k - 1]]

LEMMA Recursion ==
    ASSUME NEW n \in Nat, NEW D, NEW a \in D, NEW step \in [1 .. n -> [D -> D]]
    PROVE  Defined(n, D, a, step)
<1> DEFINE Is(m, g) == g[0] = a /\ \A k \in 1 .. m : g[k] = step[k][g[k - 1]]
           P == {m \in 0 .. n : \E g \in [0 .. m -> D] : Is(m, g)}
<1>1. 0 \in P
  <2> [k \in 0 .. 0 |-> a] \in [0 .. 0 -> D] /\ Is(0, [k \in 0 .. 0 |-> a]) OBVIOUS
  <2> HIDE DEF Is
  <2> QED OBVIOUS
<1>2. ASSUME NEW m \in 1 .. n, m - 1 \in P PROVE m \in P
  <2> PICK g \in [0 .. m - 1 -> D] : Is(m - 1, g) BY <1>2
  <2> DEFINE e == step[m][g[m - 1]]
             h == [k \in 0 .. m |-> IF k = m THEN e ELSE g[k]]
  <2>1. m - 1 \in 0 .. m - 1 /\ m \in 1 .. n /\ g[m - 1] \in D BY <1>2
  <2>2. e \in D BY <2>1
  <2> HIDE DEF e
  <2>3. h \in [0 .. m -> D] BY <2>2
  <2>4. h[0] = a OBVIOUS
  <2>5. ASSUME NEW k \in 1 .. m PROVE h[k] = step[k][h[k - 1]]
    <3>1. CASE k = m
      <4> h[k] = e /\ h[k - 1] = g[m - 1] BY <3>1
      <4> QED BY <3>1 DEF e
    <3>2. CASE k # m
      <4>1. k \in 1 .. m - 1 /\ k - 1 \in 0 .. m - 1 /\ k - 1 # m BY <3>2
      <4>2. h[k] = g[k] /\ h[k - 1] = g[k - 1] BY <3>2, <4>1
      <4> QED BY <4>1, <4>2
    <3> QED BY <3>1, <3>2
  <2> HIDE DEF h
  <2>6. Is(m, h) BY <2>4, <2>5
  <2> QED BY <2>3, <2>6
<1> HIDE DEF P
<1>3. P \in SUBSET (0 .. n) BY DEF P
<1>4. n \in P
  <2>1. P = 0 .. n BY <1>1, <1>2, <1>3, UpTo
  <2> QED BY <2>1
<1> QED BY <1>4 DEF P, Defined
-----------------------------------------------------------------------------
(* Lists without repetition, and what the operations on lists do to them.  *)
NoRepeat(l) == \A i, j \in DOMAIN l : l[i] = l[j] => i = j

(* A new element at the end.                                               *)
LEMMA Appended ==
    ASSUME NEW l \in Seq(Snapshot), NEW s \in Snapshot
    PROVE  /\ Append(l, s) \in Seq(Snapshot)
           /\ ToSet(Append(l, s)) = ToSet(l) \cup {s}
           /\ NoRepeat(l) /\ s \notin ToSet(l) => NoRepeat(Append(l, s))
<1>1. /\ Len(l) \in Nat /\ DOMAIN l = 1 .. Len(l)
      /\ DOMAIN Append(l, s) = 1 .. Len(l) + 1
      /\ Append(l, s)[Len(l) + 1] = s
      /\ \A i \in 1 .. Len(l) : Append(l, s)[i] = l[i]
  OBVIOUS
<1>2. ToSet(Append(l, s)) = ToSet(l) \cup {s} 
  <2>1. ASSUME NEW x \in ToSet(Append(l, s)) PROVE x \in ToSet(l) \cup {s}
    BY <1>1 DEF ToSet
  <2>2. ASSUME NEW x \in ToSet(l) \cup {s} PROVE x \in ToSet(Append(l, s))
    <3>1. CASE x = s BY <1>1, <3>1 DEF ToSet
    <3>2. CASE x \in ToSet(l) 
      <4> PICK i \in 1 .. Len(l) : x = l[i] BY <1>1, <3>2 DEF ToSet
      <4> QED BY <1>1 DEF ToSet
    <3> QED BY <3>1, <3>2
  <2> QED BY <2>1, <2>2
<1>3. ASSUME NoRepeat(l), s \notin ToSet(l) PROVE NoRepeat(Append(l, s))
  BY <1>1, <1>3 DEF NoRepeat, ToSet
<1> QED BY <1>2, <1>3

(* One list behind another.                                                *)
LEMMA Joined ==
    ASSUME NEW l \in Seq(Snapshot), NEW t \in Seq(Snapshot)
    PROVE  /\ l \o t \in Seq(Snapshot) /\ Len(l \o t) = Len(l) + Len(t)
           /\ ToSet(l \o t) = ToSet(l) \cup ToSet(t)
           /\ NoRepeat(l) /\ NoRepeat(t) /\ ToSet(l) \cap ToSet(t) = {} => NoRepeat(l \o t)
<1>1. /\ Len(l) \in Nat /\ DOMAIN l = 1 .. Len(l) /\ Len(t) \in Nat /\ DOMAIN t = 1 .. Len(t)
      /\ Len(l \o t) = Len(l) + Len(t)
      /\ DOMAIN (l \o t) = 1 .. Len(l) + Len(t)
      /\ \A i \in 1 .. Len(l) + Len(t) : (l \o t)[i] = IF i <= Len(l) THEN l[i] ELSE t[i - Len(l)]
  OBVIOUS
<1>2. ToSet(l \o t) = ToSet(l) \cup ToSet(t)
  <2>1. ASSUME NEW x \in ToSet(l \o t) PROVE x \in ToSet(l) \cup ToSet(t)
    <3> PICK i \in 1 .. Len(l) + Len(t) : x = (l \o t)[i] BY <1>1 DEF ToSet
    <3>1. CASE i <= Len(l) BY <1>1, <3>1 DEF ToSet
    <3>2. CASE ~(i <= Len(l)) 
      <4> i - Len(l) \in 1 .. Len(t) /\ x = t[i - Len(l)] BY <1>1, <3>2
      <4> QED BY <1>1 DEF ToSet
    <3> QED BY <3>1, <3>2
  <2>2. ASSUME NEW x \in ToSet(l) PROVE x \in ToSet(l \o t)
    <3> PICK i \in 1 .. Len(l) : x = l[i] BY <1>1, <2>2 DEF ToSet
    <3> i \in 1 .. Len(l) + Len(t) /\ x = (l \o t)[i] BY <1>1
    <3> QED BY <1>1 DEF ToSet
  <2>3. ASSUME NEW x \in ToSet(t) PROVE x \in ToSet(l \o t)
    <3> PICK i \in 1 .. Len(t) : x = t[i] BY <1>1, <2>3 DEF ToSet
    <3> i + Len(l) \in 1 .. Len(l) + Len(t) /\ x = (l \o t)[i + Len(l)] BY <1>1
    <3> QED BY <1>1 DEF ToSet
  <2> QED BY <2>1, <2>2, <2>3
<1>3. ASSUME NoRepeat(l), NoRepeat(t), ToSet(l) \cap ToSet(t) = {} PROVE NoRepeat(l \o t)
  <2> SUFFICES ASSUME NEW i \in 1 .. Len(l) + Len(t), NEW j \in 1 .. Len(l) + Len(t),
                      (l \o t)[i] = (l \o t)[j]
               PROVE  i = j
    BY <1>1 DEF NoRepeat
  <2>1. ASSUME NEW a \in 1 .. Len(l), NEW b \in 1 .. Len(t) PROVE l[a] # t[b]
    <3> l[a] \in ToSet(l) /\ t[b] \in ToSet(t) BY <1>1 DEF ToSet
    <3> QED BY <1>3
  <2>2. CASE i <= Len(l) /\ j <= Len(l) BY <1>1, <1>3, <2>2 DEF NoRepeat
  <2>3. CASE ~(i <= Len(l)) /\ ~(j <= Len(l))
    <3> i - Len(l) \in 1 .. Len(t) /\ j - Len(l) \in 1 .. Len(t) BY <1>1, <2>3
    <3> t[i - Len(l)] = t[j - Len(l)] BY <1>1, <2>3
    <3> i - Len(l) = j - Len(l) BY <1>1, <1>3 DEF NoRepeat
    <3> QED BY <1>1
  <2>4. CASE i <= Len(l) /\ ~(j <= Len(l))
    <3> j - Len(l) \in 1 .. Len(t) BY <1>1, <2>4
    <3> QED BY <1>1, <2>1, <2>4
  <2>5. CASE ~(i <= Len(l)) /\ j <= Len(l)
    <3> i - Len(l) \in 1 .. Len(t) BY <1>1, <2>5
    <3> QED BY <1>1, <2>1, <2>5
  <2> QED BY <2>2, <2>3, <2>4, <2>5
<1> QED BY <1>1, <1>2, <1>3

(* What is left of a list behind its k-th element.                         *)
LEMMA TailLength ==
    ASSUME NEW len \in Nat, NEW k \in 1 .. len
    PROVE  (IF k + 1 <= len THEN len - (k + 1) + 1 ELSE 0) = len - k
  OBVIOUS

(* A list without its k-th element.                                        *)
LEMMA OneRemoved ==
    ASSUME NEW l \in Seq(Snapshot), NEW k \in 1 .. Len(l)
    PROVE  /\ RemoveAt(l, k) \in Seq(Snapshot) /\ Len(RemoveAt(l, k)) = Len(l) - 1
           /\ ToSet(RemoveAt(l, k)) \subseteq ToSet(l)
           /\ ToSet(l) \ {l[k]} \subseteq ToSet(RemoveAt(l, k))
           /\ k # 1 => RemoveAt(l, k)[1] = l[1]
           /\ NoRepeat(l) => NoRepeat(RemoveAt(l, k))
<1> DEFINE r == RemoveAt(l, k)
<1>1. Len(l) \in Nat /\ DOMAIN l = 1 .. Len(l) OBVIOUS
<1>2. /\ r \in Seq(Snapshot) /\ Len(r) = Len(l) - 1
      /\ \A i \in 1 .. Len(l) - 1 : r[i] = IF i < k THEN l[i] ELSE l[i + 1]
  <2> DEFINE a == SubSeq(l, 1, k - 1)
             b == SubSeq(l, k + 1, Len(l))
  <2>1. a \in Seq(Snapshot) /\ Len(a) = k - 1 /\ \A i \in 1 .. k - 1 : a[i] = l[i]
    <3>1. \A i \in 1 .. k - 1 : l[i] \in Snapshot OBVIOUS
    <3>2. /\ a \in Seq(Snapshot) /\ Len(a) = IF 1 <= k - 1 THEN k - 1 - 1 + 1 ELSE 0
          /\ \A i \in 1 .. k - 1 - 1 + 1 : a[i] = l[1 + i - 1]
      BY <3>1, SubSeqProperties
    <3> HIDE DEF a
    <3> QED BY <1>1, <3>2
  <2>2. b \in Seq(Snapshot) /\ Len(b) = Len(l) - k /\ \A i \in 1 .. Len(l) - k : b[i] = l[k + i]
    <3>1. \A i \in k + 1 .. Len(l) : l[i] \in Snapshot OBVIOUS
    <3>2. /\ b \in Seq(Snapshot) /\ Len(b) = IF k + 1 <= Len(l) THEN Len(l) - (k + 1) + 1 ELSE 0
          /\ \A i \in 1 .. Len(l) - (k + 1) + 1 : b[i] = l[k + 1 + i - 1]
      BY <3>1, SubSeqProperties
    <3> HIDE DEF b
    <3>3. Len(b) = Len(l) - k BY <1>1, <3>2, TailLength
    <3>4. ASSUME NEW i \in 1 .. Len(l) - k PROVE b[i] = l[k + i]
      <4> i \in 1 .. Len(l) - (k + 1) + 1 /\ k + 1 + i - 1 = k + i BY <1>1
      <4> QED BY <3>2
    <3> QED BY <3>2, <3>3, <3>4
  <2>3. r = a \o b BY DEF RemoveAt
  <2> HIDE DEF a, b, r
  <2>4. /\ a \o b \in Seq(Snapshot) /\ Len(a \o b) = Len(l) - 1
        /\ \A i \in 1 .. Len(l) - 1 : (a \o b)[i] = IF i < k THEN l[i] ELSE l[i + 1]
    <3>1. /\ a \o b \in Seq(Snapshot) /\ Len(a \o b) = Len(a) + Len(b)
          /\ \A i \in 1 .. Len(a) + Len(b) : (a \o b)[i] = IF i <= Len(a) THEN a[i] ELSE b[i - Len(a)]
      BY <2>1, <2>2, ConcatProperties
    <3>2. ASSUME NEW i \in 1 .. Len(l) - 1 PROVE (a \o b)[i] = IF i < k THEN l[i] ELSE l[i + 1]
      <4>1. (a \o b)[i] = IF i <= Len(a) THEN a[i] ELSE b[i - Len(a)]
        BY <1>1, <2>1, <2>2, <3>1
      <4>2. CASE i < k
        <5> i \in 1 .. k - 1 BY <1>1, <4>2
        <5> QED BY <1>1, <2>1, <4>1, <4>2
      <4>3. CASE ~(i < k)
        <5>1. i - (k - 1) \in 1 .. Len(l) - k /\ k + (i - (k - 1)) = i + 1 BY <1>1, <4>3
        <5>2. b[i - (k - 1)] = l[i + 1] BY <2>2, <5>1
        <5>3. Len(a) = k - 1 BY <2>1
        <5> QED BY <1>1, <4>1, <4>3, <5>2, <5>3
      <4> QED BY <4>2, <4>3
    <3> QED BY <1>1, <2>1, <2>2, <3>1, <3>2
  <2> QED BY <2>3, <2>4
<1> HIDE DEF r
<1>3. DOMAIN r = 1 .. Len(l) - 1 BY <1>1, <1>2
<1>4. ToSet(r) \subseteq ToSet(l)
  <2> SUFFICES ASSUME NEW i \in 1 .. Len(l) - 1 PROVE r[i] \in ToSet(l) BY <1>3 DEF ToSet
  <2> i \in 1 .. Len(l) /\ i + 1 \in 1 .. Len(l) BY <1>1
  <2> QED BY <1>1, <1>2 DEF ToSet
<1>5. ASSUME NEW x \in ToSet(l) \ {l[k]} PROVE x \in ToSet(r)
  <2> PICK i \in 1 .. Len(l) : x = l[i] BY <1>1, <1>5 DEF ToSet
  <2> i # k OBVIOUS
  <2>1. CASE i < k
    <3> i \in 1 .. Len(l) - 1 /\ r[i] = x BY <1>1, <1>2, <2>1
    <3> QED BY <1>3 DEF ToSet
  <2>2. CASE i > k
    <3> i - 1 \in 1 .. Len(l) - 1 /\ r[i - 1] = x BY <1>1, <1>2, <2>2
    <3> QED BY <1>3 DEF ToSet
  <2> QED BY <1>1, <2>1, <2>2
<1>6. k # 1 => r[1] = l[1] BY <1>1, <1>2
<1>7. ASSUME NoRepeat(l) PROVE NoRepeat(r)
  <2> SUFFICES ASSUME NEW i \in 1 .. Len(l) - 1, NEW j \in 1 .. Len(l) - 1, r[i] = r[j]
               PROVE  i = j
    BY <1>3 DEF NoRepeat
  <2> DEFINE at(m) == IF m < k THEN m ELSE m + 1
  <2>1. at(i) \in 1 .. Len(l) /\ at(j) \in 1 .. Len(l) /\ (at(i) = at(j) => i = j) BY <1>1
  <2>2. r[i] = l[at(i)] /\ r[j] = l[at(j)] BY <1>2
  <2> HIDE DEF at
  <2> QED BY <1>1, <1>7, <2>1, <2>2 DEF NoRepeat
<1> QED BY <1>2, <1>4, <1>5, <1>6, <1>7 DEF r

-----------------------------------------------------------------------------

(* g[k] is what Without has kept of the first k elements.                  *)
Walk(l, gone, g) ==
    /\ Without(l, gone) = g[Len(l)] /\ g[0] = <<>>
    /\ \A k \in 1 .. Len(l) :
          g[k] = IF l[k] \in gone THEN g[k - 1] ELSE Append(g[k - 1], l[k])

(* Without is defined: its recursion stays among the lists.                *)
LEMMA WithoutRuns ==
    ASSUME NEW l \in Seq(Snapshot), NEW gone
    PROVE  \E g : Walk(l, gone, g)
<1> DEFINE n == Len(l)
           D == Seq(Snapshot)
           then(k, out) == IF l[k] \in gone THEN out ELSE Append(out, l[k])
           step == [k \in 1 .. n |-> [out \in D |-> then(k, out)]]
           F == CHOOSE F : F = [k \in 0 .. n |->
                                  IF k = 0 THEN <<>>
                                  ELSE IF l[k] \in gone THEN F[k - 1]
                                  ELSE Append(F[k - 1], l[k])]
<1>1. n \in Nat /\ <<>> \in D OBVIOUS
<1>2. step \in [1 .. n -> [D -> D]]
  <2> SUFFICES ASSUME NEW k \in 1 .. n, NEW out \in D PROVE then(k, out) \in D OBVIOUS
  <2> l[k] \in Snapshot OBVIOUS
  <2> QED OBVIOUS
<1>3. PICK g \in [0 .. n -> D] : g[0] = <<>> /\ \A k \in 1 .. n : g[k] = step[k][g[k - 1]]
  <2> HIDE DEF n, D, step, then
  <2> DEFINE a == <<>>
  <2>1. a \in D BY <1>1
  <2> HIDE DEF a
  <2>2. Defined(n, D, a, step) BY <1>1, <1>2, <2>1, Recursion
  <2> QED BY <2>2 DEF Defined, a
<1>4. ASSUME NEW k \in 1 .. n PROVE g[k] = then(k, g[k - 1])
  <2> HIDE DEF n, D, then
  <2> k - 1 \in 0 .. n BY <1>1
  <2> g[k - 1] \in D BY <1>3
  <2> QED BY <1>3
<1>5. g = [k \in 0 .. n |-> IF k = 0 THEN <<>>
                            ELSE IF l[k] \in gone THEN g[k - 1]
                            ELSE Append(g[k - 1], l[k])]
  <2> HIDE DEF D
  <2>1. ASSUME NEW k \in 0 .. n
        PROVE  g[k] = IF k = 0 THEN <<>>
                      ELSE IF l[k] \in gone THEN g[k - 1] ELSE Append(g[k - 1], l[k])
    <3>1. CASE k = 0 BY <1>3, <3>1
    <3>2. CASE k # 0
      <4> k \in 1 .. n BY <1>1, <3>2
      <4> QED BY <1>4, <3>2
    <3> QED BY <3>1, <3>2
  <2> HIDE DEF n
  <2> QED BY <1>3, <2>1
<1>6. F = [k \in 0 .. n |-> IF k = 0 THEN <<>>
                            ELSE IF l[k] \in gone THEN F[k - 1]
                            ELSE Append(F[k - 1], l[k])]
  BY <1>5
<1>7. F[0] = <<>>
  <2> 0 \in 0 .. n OBVIOUS
  <2> HIDE DEF F
  <2> QED BY <1>6
<1>8. ASSUME NEW k \in 1 .. n
      PROVE  F[k] = IF l[k] \in gone THEN F[k - 1] ELSE Append(F[k - 1], l[k])
  <2> k \in 0 .. n /\ k # 0 OBVIOUS
  <2> HIDE DEF F
  <2> QED BY <1>6
<1>9. Without(l, gone) = F[n] BY DEF Without
<1> HIDE DEF F
<1>10. Walk(l, gone, F) BY <1>7, <1>8, <1>9 DEF Walk
<1> QED BY <1>10

(* Without takes out what is gone and nothing else.                        *)
LEMMA WithoutIs ==
    ASSUME NEW l \in Seq(Snapshot), NEW gone
    PROVE  /\ Without(l, gone) \in Seq(Snapshot)
           /\ ToSet(Without(l, gone)) = ToSet(l) \ gone
           /\ NoRepeat(l) => NoRepeat(Without(l, gone))
<1> DEFINE n == Len(l)
           first(k) == {l[j] : j \in 1 .. k}
<1>0. PICK g : Walk(l, gone, g) BY WithoutRuns
<1> /\ Without(l, gone) = g[Len(l)] /\ g[0] = <<>>
    /\ \A k \in 1 .. Len(l) :
          g[k] = IF l[k] \in gone THEN g[k - 1] ELSE Append(g[k - 1], l[k])
  BY <1>0 DEF Walk
<1> DEFINE Good(k) == /\ g[k] \in Seq(Snapshot) /\ ToSet(g[k]) = first(k) \ gone
                      /\ NoRepeat(l) => NoRepeat(g[k])
           P == {k \in 0 .. n : Good(k)}
<1>1. n \in Nat /\ DOMAIN l = 1 .. n OBVIOUS
<1>2. 0 \in P
  <2>1. first(0) = {} /\ ToSet(<<>>) = {} BY DEF ToSet
  <2>2. <<>> \in Seq(Snapshot) /\ NoRepeat(<<>>) BY DEF NoRepeat
  <2> HIDE DEF first
  <2>3. g[0] = <<>> OBVIOUS
  <2>4. /\ g[0] \in Seq(Snapshot) /\ ToSet(g[0]) = first(0) \ gone /\ NoRepeat(g[0])
    BY <2>1, <2>2, <2>3
  <2>5. 0 \in 0 .. n BY <1>1
  <2> QED BY <2>4, <2>5
<1>3. ASSUME NEW k \in 1 .. n, k - 1 \in P PROVE k \in P
  <2>1. Good(k - 1) BY <1>3
  <2>2. l[k] \in Snapshot BY <1>1
  <2>3. first(k) = first(k - 1) \cup {l[k]}
    <3>1. 1 .. k = 1 .. k - 1 \cup {k} BY <1>1
    <3> QED BY <3>1
  <2>4. NoRepeat(l) => l[k] \notin first(k - 1)
    <3> SUFFICES ASSUME NoRepeat(l), NEW j \in 1 .. k - 1, l[j] = l[k] PROVE FALSE OBVIOUS
    <3> j \in 1 .. n /\ j # k BY <1>1
    <3> QED BY <1>1 DEF NoRepeat
  <2> HIDE DEF first
  <2>5. CASE l[k] \in gone
    <3> g[k] = g[k - 1] BY <2>5
    <3> QED BY <1>1, <2>1, <2>3, <2>5
  <2>6. CASE l[k] \notin gone
    <3>1. g[k] = Append(g[k - 1], l[k]) BY <2>6
    <3>2. /\ Append(g[k - 1], l[k]) \in Seq(Snapshot)
          /\ ToSet(Append(g[k - 1], l[k])) = ToSet(g[k - 1]) \cup {l[k]}
          /\ NoRepeat(g[k - 1]) /\ l[k] \notin ToSet(g[k - 1]) => NoRepeat(Append(g[k - 1], l[k]))
      BY <2>1, <2>2, Appended
    <3>3. ToSet(g[k]) = first(k) \ gone BY <2>1, <2>3, <2>6, <3>1, <3>2
    <3>4. NoRepeat(l) => NoRepeat(g[k]) BY <2>1, <2>4, <3>1, <3>2
    <3>5. Good(k) BY <3>1, <3>2, <3>3, <3>4
    <3> QED BY <1>1, <3>5
  <2> QED BY <2>5, <2>6
<1>4. Good(n)
  <2>1. P \in SUBSET (0 .. n) OBVIOUS
  <2> HIDE DEF P
  <2>2. P = 0 .. n BY <1>1, <1>2, <1>3, <2>1, UpTo
  <2>3. n \in P
    <3> n \in 0 .. n BY <1>1
    <3> QED BY <2>2
  <2> HIDE DEF Good
  <2> QED BY <2>3 DEF P
<1>5. first(n) = ToSet(l) BY <1>1 DEF ToSet
<1> QED BY <1>4, <1>5

(* The merging save keeps the window's snapshots but those the file has    *)
(* lost, and adds those of the file the window never knew: nothing twice.  *)
LEMMA MergedListIs ==
    ASSUME NEW b \in Seq(Snapshot), NEW n \in Seq(Snapshot), NEW c \in Seq(Snapshot)
    PROVE  LET merged == MergedList(b, n, c)
           IN  /\ merged \in Seq(Snapshot)
               /\ ToSet(merged) = (ToSet(n) \ (ToSet(b) \ ToSet(c)))
                                  \cup (ToSet(c) \ (ToSet(b) \cup ToSet(n)))
               /\ NoRepeat(n) /\ NoRepeat(c) => NoRepeat(merged)
<1> DEFINE left == Without(n, ToSet(b) \ ToSet(c))
           right == Without(c, ToSet(b) \cup ToSet(n))
<1>1. /\ left \in Seq(Snapshot) /\ ToSet(left) = ToSet(n) \ (ToSet(b) \ ToSet(c))
      /\ NoRepeat(n) => NoRepeat(left)
  BY WithoutIs
<1>2. /\ right \in Seq(Snapshot) /\ ToSet(right) = ToSet(c) \ (ToSet(b) \cup ToSet(n))
      /\ NoRepeat(c) => NoRepeat(right)
  BY WithoutIs
<1>3. MergedList(b, n, c) = left \o right BY DEF MergedList
<1> HIDE DEF left, right
<1>4. ToSet(left) \cap ToSet(right) = {} BY <1>1, <1>2
<1> QED BY <1>1, <1>2, <1>3, <1>4, Joined
-----------------------------------------------------------------------------
(* The greatest of a finite set of numbers is in it.                       *)
LEMMA MaxIsIn ==
    ASSUME NEW n \in Nat, NEW S \in SUBSET (1 .. n), S # {}
    PROVE  Max(S) \in S
<1> DEFINE Back == {d \in 0 .. n : n - d \in S}
<1>1. Back \in SUBSET Nat OBVIOUS
<1>2. Back # {}
  <2> PICK d \in S : TRUE OBVIOUS
  <2>1. n - d \in 0 .. n /\ n - (n - d) = d OBVIOUS
  <2> QED BY <2>1
<1> HIDE DEF Back
<1> PICK m \in Back : \A x \in Back : m <= x BY <1>1, <1>2, LeastExists
<1>3. n - m \in S BY DEF Back
<1>4. ASSUME NEW y \in S PROVE n - m >= y
  <2>1. n - y \in 0 .. n /\ n - (n - y) = y OBVIOUS
  <2>2. n - y \in Back BY <2>1 DEF Back
  <2>3. m <= n - y BY <2>2
  <2>4. m \in 0 .. n BY DEF Back
  <2> QED BY <2>3, <2>4
<1> QED BY <1>3, <1>4 DEF Max

(* Which snapshot a list too long loses: one that was not made before an   *)
(* operation, while it has such a one.                                     *)
LosesOf(l) == CHOOSE k \in Droppable(l) : TRUE

LEMMA LosesOne ==
    ASSUME NEW l \in Seq(Snapshot), Len(l) > 0
    PROVE  /\ LosesOf(l) \in 1 .. Len(l)
           /\ l[LosesOf(l)].kind = "before-op" =>
                LosesOf(l) = Len(l) /\ \A k \in 1 .. Len(l) : l[k].kind = "before-op"
<1> DEFINE plain == {k \in DOMAIN l : l[k].kind # "before-op"}
<1>1. Len(l) \in Nat /\ DOMAIN l = 1 .. Len(l) OBVIOUS
<1>2. CASE plain = {}
  <2>1. LosesOf(l) = Len(l) BY <1>2 DEF LosesOf, Droppable
  <2>2. \A k \in 1 .. Len(l) : l[k].kind = "before-op" BY <1>1, <1>2
  <2> QED BY <1>1, <2>1, <2>2
<1>3. CASE plain # {}
  <2>1. LosesOf(l) = Max(plain) BY <1>3 DEF LosesOf, Droppable
  <2>2. plain \in SUBSET (1 .. Len(l)) BY <1>1
  <2> HIDE DEF plain
  <2>3. Max(plain) \in plain BY <1>1, <1>3, <2>2, MaxIsIn
  <2> QED BY <2>1, <2>3 DEF plain
<1> QED BY <1>2, <1>3

CutOnce(l) == IF Len(l) <= Retention THEN l ELSE RemoveAt(l, LosesOf(l))

(* listWith's loop is defined: it stays among the lists that are not empty.*)
LEMMA ListWithRuns ==
    ASSUME NEW l \in Seq(Snapshot), NEW snap \in Snapshot
    PROVE  \E g : /\ ListWith(l, snap) = g[Len(l) + 1] /\ g[0] = Cons(snap, l)
                  /\ \A k \in 1 .. Len(l) + 1 : g[k] = CutOnce(g[k - 1])
<1> DEFINE long == Cons(snap, l)
           n == Len(long)
           D == {t \in Seq(Snapshot) : Len(t) > 0}
           step == [k \in 1 .. n |-> [out \in D |-> CutOnce(out)]]
           F == CHOOSE F : F = [s \in 0 .. n |->
                                  IF s = 0 THEN long
                                  ELSE IF Len(F[s - 1]) <= Retention THEN F[s - 1]
                                  ELSE RemoveAt(F[s - 1], CHOOSE k \in Droppable(F[s - 1]) : TRUE)]
<1>1. n = Len(l) + 1 /\ n \in Nat /\ long \in D
  <2>1. <<snap>> \in Seq(Snapshot) /\ Len(<<snap>>) = 1 OBVIOUS
  <2>2. <<snap>> \o l \in Seq(Snapshot) /\ Len(<<snap>> \o l) = 1 + Len(l)
    BY <2>1, ConcatProperties
  <2> QED BY <2>2 DEF Cons
<1>2. step \in [1 .. n -> [D -> D]]
  <2> SUFFICES ASSUME NEW out \in D PROVE CutOnce(out) \in D OBVIOUS
  <2>1. out \in Seq(Snapshot) /\ Len(out) > 0 /\ Len(out) \in Nat OBVIOUS
  <2>2. CASE Len(out) <= Retention BY <2>2 DEF CutOnce
  <2>3. CASE ~(Len(out) <= Retention)
    <3>1. LosesOf(out) \in 1 .. Len(out) BY <2>1, LosesOne
    <3>2. RemoveAt(out, LosesOf(out)) \in Seq(Snapshot)
          /\ Len(RemoveAt(out, LosesOf(out))) = Len(out) - 1
      BY <2>1, <3>1, OneRemoved
    <3>3. Len(out) > 1 BY <2>1, <2>3, SnapshotAssumption
    <3> QED BY <2>1, <2>3, <3>2, <3>3 DEF CutOnce
  <2> QED BY <2>2, <2>3
<1>3. PICK g \in [0 .. n -> D] : g[0] = long /\ \A k \in 1 .. n : g[k] = step[k][g[k - 1]]
  <2> HIDE DEF n, D, step, long
  <2>1. Defined(n, D, long, step) BY <1>1, <1>2, Recursion
  <2> QED BY <2>1 DEF Defined
<1>4. ASSUME NEW k \in 1 .. n PROVE g[k] = CutOnce(g[k - 1])
  <2> HIDE DEF n, D
  <2> k - 1 \in 0 .. n BY <1>1
  <2> g[k - 1] \in D BY <1>3
  <2> QED BY <1>3
<1>5. g = [s \in 0 .. n |->
              IF s = 0 THEN long
              ELSE IF Len(g[s - 1]) <= Retention THEN g[s - 1]
              ELSE RemoveAt(g[s - 1], CHOOSE k \in Droppable(g[s - 1]) : TRUE)]
  <2> HIDE DEF D
  <2>1. ASSUME NEW s \in 0 .. n
        PROVE  g[s] = IF s = 0 THEN long
                      ELSE IF Len(g[s - 1]) <= Retention THEN g[s - 1]
                      ELSE RemoveAt(g[s - 1], CHOOSE k \in Droppable(g[s - 1]) : TRUE)
    <3>1. CASE s = 0 BY <1>3, <3>1
    <3>2. CASE s # 0
      <4> s \in 1 .. n BY <1>1, <3>2
      <4> QED BY <1>4, <3>2 DEF CutOnce, LosesOf
    <3> QED BY <3>1, <3>2
  <2> HIDE DEF n, long
  <2> QED BY <1>3, <2>1
<1>6. F = [s \in 0 .. n |->
              IF s = 0 THEN long
              ELSE IF Len(F[s - 1]) <= Retention THEN F[s - 1]
              ELSE RemoveAt(F[s - 1], CHOOSE k \in Droppable(F[s - 1]) : TRUE)]
  <2> HIDE DEF n, long
  <2> QED BY <1>5
<1>7. F[0] = long
  <2> 0 \in 0 .. n BY <1>1
  <2> HIDE DEF F, n, long
  <2> QED BY <1>6
<1>8. ASSUME NEW k \in 1 .. n PROVE F[k] = CutOnce(F[k - 1])
  <2> k \in 0 .. n /\ k # 0 BY <1>1
  <2> HIDE DEF F, n, long
  <2> QED BY <1>6 DEF CutOnce, LosesOf
<1>9. ListWith(l, snap) = F[n] BY DEF ListWith
<1> HIDE DEF F, n, long
<1> QED BY <1>1, <1>7, <1>8, <1>9 DEF long

(* Counting the members of a list without repetition.                      *)
LEMMA SetOfListIsFinite ==
    ASSUME NEW l \in Seq(Snapshot)
    PROVE  IsFiniteSet(ToSet(l))
<1>1. Len(l) \in Nat /\ DOMAIN l = 1 .. Len(l) /\ l \in [1 .. Len(l) -> Snapshot] OBVIOUS
<1>2. l \in Surjection(1 .. Len(l), ToSet(l))
  <2>1. l \in [1 .. Len(l) -> ToSet(l)] BY <1>1 DEF ToSet
  <2> QED BY <1>1, <2>1 DEF Surjection, ToSet
<1>3. IsFiniteSet(1 .. Len(l)) BY <1>1, FS_Interval
<1> QED BY <1>2, <1>3, FS_Surjection

LEMMA CountBounds ==
    ASSUME NEW l \in Seq(Snapshot), NoRepeat(l), NEW T, IsFiniteSet(T), ToSet(l) \subseteq T
    PROVE  Len(l) <= Cardinality(T)
<1>1. Len(l) \in Nat /\ DOMAIN l = 1 .. Len(l) /\ l \in [1 .. Len(l) -> Snapshot] OBVIOUS
<1>2. l \in Injection(1 .. Len(l), T)
  <2>1. l \in [1 .. Len(l) -> T] BY <1>1 DEF ToSet
  <2> QED BY <1>1, <2>1 DEF Injection, NoRepeat, IsInjective
<1>3. Cardinality(1 .. Len(l)) = Len(l) BY <1>1, FS_Interval
<1> QED BY <1>2, <1>3, FS_Injection

(* listWith: the new snapshot comes in, and a copy made before an operation*)
(* goes only when there are more of them than the retention.               *)
LEMMA ListWithIs ==
    ASSUME NEW l \in Seq(Snapshot), NoRepeat(l),
           NEW snap \in Snapshot, snap \notin ToSet(l)
    PROVE  LET out == ListWith(l, snap)
           IN  /\ out \in Seq(Snapshot) /\ NoRepeat(out) /\ Len(out) > 0
               /\ ToSet(out) \subseteq ToSet(l) \cup {snap}
               /\ snap.kind = "before-op" => snap \in ToSet(out)
               /\ BeforeOps(ToSet(l) \ ToSet(out)) # {} =>
                    Cardinality(BeforeOps(ToSet(l) \cup {snap})) > Retention
<1> DEFINE n == Len(l) + 1
           all == ToSet(l) \cup {snap}
           crowd == Cardinality(BeforeOps(all)) > Retention
<1> PICK g : /\ ListWith(l, snap) = g[n] /\ g[0] = Cons(snap, l)
             /\ \A k \in 1 .. n : g[k] = CutOnce(g[k - 1])
  BY ListWithRuns
<1> DEFINE Good(t) == /\ t \in Seq(Snapshot) /\ NoRepeat(t) /\ Len(t) > 0 /\ ToSet(t) \subseteq all
                      /\ snap.kind = "before-op" => t[1] = snap
                      /\ BeforeOps(all) \subseteq ToSet(t) \/ crowd
           P == {k \in 0 .. n : Good(g[k])}
<1>1. n \in Nat /\ Len(l) \in Nat OBVIOUS
<1>2. IsFiniteSet(BeforeOps(all))
  <2>1. IsFiniteSet(all) BY SetOfListIsFinite, FS_AddElement
  <2>2. BeforeOps(all) \in SUBSET all BY DEF BeforeOps
  <2> HIDE DEF all
  <2> QED BY <2>1, <2>2, FS_Subset
<1>3. Good(g[0])
  <2> DEFINE one == <<snap>>
  <2>1. one \in Seq(Snapshot) /\ Len(one) = 1 /\ ToSet(one) = {snap} /\ NoRepeat(one) /\ one[1] = snap
    BY DEF ToSet, NoRepeat
  <2>2. g[0] = one \o l BY DEF Cons
  <2> HIDE DEF one
  <2>3. ToSet(one) \cap ToSet(l) = {} BY <2>1
  <2>4. /\ one \o l \in Seq(Snapshot) /\ Len(one \o l) = Len(one) + Len(l)
        /\ ToSet(one \o l) = ToSet(one) \cup ToSet(l) /\ NoRepeat(one \o l)
    BY <2>1, <2>3, Joined
  <2>5. (one \o l)[1] = snap
    <3> \A i \in 1 .. Len(one) + Len(l) : (one \o l)[i] = IF i <= Len(one) THEN one[i] ELSE l[i - Len(one)]
      BY <2>1, ConcatProperties
    <3> QED BY <1>1, <2>1
  <2>6. BeforeOps(all) \subseteq all BY DEF BeforeOps
  <2>7. ToSet(g[0]) = all BY <2>1, <2>2, <2>4
  <2> HIDE DEF all, crowd
  <2> QED BY <1>1, <2>1, <2>2, <2>4, <2>5, <2>6, <2>7
<1>4. ASSUME NEW t, Good(t) PROVE Good(CutOnce(t))
  <2> HIDE DEF all
  <2>1. t \in Seq(Snapshot) /\ Len(t) > 0 /\ Len(t) \in Nat /\ DOMAIN t = 1 .. Len(t) BY <1>4
  <2>2. CASE Len(t) <= Retention BY <1>4, <2>2 DEF CutOnce
  <2>3. CASE ~(Len(t) <= Retention)
    <3> DEFINE k == LosesOf(t)
               r == RemoveAt(t, k)
    <3>1. k \in 1 .. Len(t)
          /\ (t[k].kind = "before-op" => k = Len(t) /\ \A i \in 1 .. Len(t) : t[i].kind = "before-op")
      BY <2>1, LosesOne
    <3>2. CutOnce(t) = r BY <2>3 DEF CutOnce
    <3> HIDE DEF k
    <3>3. /\ r \in Seq(Snapshot) /\ Len(r) = Len(t) - 1
          /\ ToSet(r) \subseteq ToSet(t) /\ ToSet(t) \ {t[k]} \subseteq ToSet(r)
          /\ (k # 1 => r[1] = t[1]) /\ NoRepeat(r)
      BY <1>4, <2>1, <3>1, OneRemoved
    <3>4. Len(t) > 1 BY <2>1, <2>3, SnapshotAssumption
    <3> HIDE DEF r
    <3>5. snap.kind = "before-op" => r[1] = snap
      <4> SUFFICES ASSUME snap.kind = "before-op" PROVE r[1] = snap OBVIOUS
      <4>1. t[1] = snap BY <1>4
      <4>2. k # 1 BY <3>1, <3>4, <4>1
      <4> QED BY <3>3, <4>1, <4>2
    <3>6. BeforeOps(all) \subseteq ToSet(r) \/ crowd
      <4>1. CASE crowd BY <4>1
      <4>2. CASE BeforeOps(all) \subseteq ToSet(t) /\ t[k].kind # "before-op"
        <5> t[k] \notin BeforeOps(all) BY <4>2 DEF BeforeOps
        <5> QED BY <3>3, <4>2
      <4>3. CASE t[k].kind = "before-op"
        <5>1. ToSet(t) \subseteq BeforeOps(all)
          <6> SUFFICES ASSUME NEW i \in 1 .. Len(t) PROVE t[i] \in BeforeOps(all) BY <2>1 DEF ToSet
          <6> t[i] \in all /\ t[i].kind = "before-op" BY <1>4, <2>1, <3>1, <4>3 DEF ToSet
          <6> QED BY DEF BeforeOps
        <5>2. Len(t) <= Cardinality(BeforeOps(all)) BY <1>2, <1>4, <2>1, <5>1, CountBounds
        <5>3. Cardinality(BeforeOps(all)) \in Nat BY <1>2, FS_CardinalityType
        <5> QED BY <2>1, <2>3, <5>2, <5>3, SnapshotAssumption
      <4> HIDE DEF crowd
      <4> QED BY <1>4, <4>1, <4>2, <4>3
    <3> HIDE DEF crowd
    <3> QED BY <1>4, <2>1, <3>2, <3>3, <3>4, <3>5, <3>6
  <2> QED BY <2>2, <2>3
<1>5. Good(g[n])
  <2> HIDE DEF Good
  <2>1. 0 \in P BY <1>1, <1>3
  <2>2. ASSUME NEW k \in 1 .. n, k - 1 \in P PROVE k \in P
    <3> Good(g[k - 1]) /\ g[k] = CutOnce(g[k - 1]) BY <2>2
    <3> QED BY <1>1, <1>4
  <2>3. P \in SUBSET (0 .. n) OBVIOUS
  <2> HIDE DEF P
  <2>4. P = 0 .. n BY <1>1, <2>1, <2>2, <2>3, UpTo
  <2>5. n \in P
    <3> n \in 0 .. n BY <1>1
    <3> QED BY <2>4
  <2> QED BY <2>5 DEF P
<1> DEFINE out == ListWith(l, snap)
<1>6. Good(out) BY <1>5
<1> HIDE DEF out
<1>7. snap.kind = "before-op" => snap \in ToSet(out)
  <2>1. 1 \in DOMAIN out BY <1>6
  <2> QED BY <1>6, <2>1 DEF ToSet
<1>8. BeforeOps(ToSet(l) \ ToSet(out)) # {} => crowd
  <2>1. BeforeOps(ToSet(l) \ ToSet(out)) \subseteq BeforeOps(all) \ ToSet(out) BY DEF BeforeOps
  <2> HIDE DEF crowd
  <2> QED BY <1>6, <2>1
<1> QED BY <1>6, <1>7, <1>8 DEF out

-----------------------------------------------------------------------------
(* What the windows, the saves under way and the replacements hold, when n *)
(* snapshots were made.                                                    *)
SnapLists(n) == {l \in Seq(Snapshot) : NoRepeat(l) /\ \A s \in ToSet(l) : s.id <= n}
WindowMem(n) == [data : SUBSET Records, list : SnapLists(n), base : SnapLists(n), astray : BOOLEAN]
ListSaves(n) == [by : Windows, list : SnapLists(n), base : SnapLists(n), before : SnapLists(n),
                 astray : BOOLEAN, crowded : BOOLEAN]
Reads        == [stage : {"read"}, next : SUBSET Records]
Replaces(n)  == [stage : {"sent", "saved", "verify"}, next : SUBSET Records, before : SUBSET Records,
                 plan : SnapLists(n), known : SnapLists(n), overtaken : BOOLEAN]

(* The types, for the number of snapshots made so far: no list repeats one.*)
SnapTypes ==
    /\ data \in SUBSET Records /\ made \in 0 .. MaxSnapshots
    /\ list \in SnapLists(made)
    /\ mem \in [Windows -> WindowMem(made)]
    /\ op \in [Windows -> {NoOp} \cup Reads \cup Replaces(made)]
    /\ saves \in SUBSET ListSaves(made)

(* From one list to another a copy made before an operation goes only by   *)
(* the user's deletion.                                                    *)
Explained(from, to, gone) == \A s \in BeforeOps(ToSet(from) \ ToSet(to)) : s.id \in gone

Crowd(from, to) == Cardinality(BeforeOps(ToSet(from) \cup ToSet(to))) > Retention

(* A replacement's plan: its copy is there, and what it drops it drops for *)
(* want of room.                                                           *)
Planned(o) ==
    o.stage \in {"sent", "saved"} =>
        /\ o.plan = <<>> <=> o.before = {}
        /\ o.plan # <<>> => \E s \in ToSet(o.plan) : s.kind = "before-op" /\ s.data = o.before
        /\ o.plan # <<>> /\ BeforeOps(ToSet(o.known) \ ToSet(o.plan)) # {} =>
              Crowd(o.known, o.plan) /\ Cardinality(BeforeOps(ToSet(o.known))) >= Retention

(* What the window read is still in the file, unless it was overtaken.     *)
ReadIsFile(w) == op[w].stage = "sent" /\ ~op[w].overtaken => data = op[w].before

(* A window lacks a copy its base has only for one of the known reasons.   *)
WindowExplained(w) ==
    \/ mem[w].astray
    \/ \E s \in saves : s.by = w /\ s.crowded
    \/ Explained(mem[w].base, mem[w].list, removed)

SaveExplained(s) == s.astray \/ s.crowded \/ Explained(s.base, s.list, removed)

(* The invariant behind both theorems.                                      *)
SnapInv ==
    /\ SnapTypes
    /\ \A w \in Windows : Planned(op[w]) /\ ReadIsFile(w) /\ WindowExplained(w)
    /\ \A s \in saves : SaveExplained(s)
-----------------------------------------------------------------------------
(* What was typed before a snapshot was made still is after it.            *)
LEMMA LaterTypes ==
    ASSUME NEW n \in Nat, NEW m \in Nat, n <= m
    PROVE  /\ SnapLists(n) \subseteq SnapLists(m) /\ WindowMem(n) \subseteq WindowMem(m)
           /\ ListSaves(n) \subseteq ListSaves(m) /\ Replaces(n) \subseteq Replaces(m)
<1>1. SnapLists(n) \subseteq SnapLists(m)
  <2> SUFFICES ASSUME NEW l \in SnapLists(n) PROVE l \in SnapLists(m) OBVIOUS
  <2>1. l \in Seq(Snapshot) /\ NoRepeat(l) /\ DOMAIN l = 1 .. Len(l) BY DEF SnapLists
  <2>2. ASSUME NEW s \in ToSet(l) PROVE s.id <= m
    <3> s.id <= n BY DEF SnapLists
    <3> PICK i \in 1 .. Len(l) : s = l[i] BY <2>1 DEF ToSet
    <3> s \in Snapshot BY <2>1
    <3> s.id \in Nat BY DEF Snapshot
    <3> QED OBVIOUS
  <2> QED BY <2>1, <2>2 DEF SnapLists
<1>2. WindowMem(n) \subseteq WindowMem(m) BY <1>1 DEF WindowMem
<1>3. ListSaves(n) \subseteq ListSaves(m) BY <1>1 DEF ListSaves
<1>4. Replaces(n) \subseteq Replaces(m) BY <1>1 DEF Replaces
<1> QED BY <1>1, <1>2, <1>3, <1>4

LEMMA InSnapLists ==
    ASSUME NEW n \in Nat, NEW l \in SnapLists(n)
    PROVE  /\ l \in Seq(Snapshot) /\ NoRepeat(l) /\ ToSet(l) \subseteq Snapshot
           /\ \A s \in ToSet(l) : s.id \in Nat /\ s.id <= n
<1>1. l \in Seq(Snapshot) /\ NoRepeat(l) /\ \A s \in ToSet(l) : s.id <= n BY DEF SnapLists
<1>2. ToSet(l) \subseteq Snapshot BY <1>1 DEF ToSet
<1>3. \A s \in ToSet(l) : s.id \in Nat BY <1>2 DEF Snapshot
<1> QED BY <1>1, <1>2, <1>3

(* listWith, said of the lists there are.                                  *)
LEMMA ListWithPlans ==
    ASSUME NEW n \in Nat, NEW l \in SnapLists(n), NEW snap \in Snapshot, snap.id = n + 1
    PROVE  LET out == ListWith(l, snap)
           IN  /\ out \in SnapLists(n + 1) /\ out # <<>>
               /\ snap.kind = "before-op" => snap \in ToSet(out)
               /\ BeforeOps(ToSet(l) \ ToSet(out)) # {} =>
                    Crowd(l, out) /\ Cardinality(BeforeOps(ToSet(l))) >= Retention
<1> DEFINE out == ListWith(l, snap)
           all == ToSet(l) \cup {snap}
<1>1. l \in Seq(Snapshot) /\ NoRepeat(l) /\ \A s \in ToSet(l) : s.id \in Nat /\ s.id <= n
  BY InSnapLists
<1>2. snap \notin ToSet(l) BY <1>1
<1>3. /\ out \in Seq(Snapshot) /\ NoRepeat(out) /\ Len(out) > 0 /\ ToSet(out) \subseteq all
      /\ snap.kind = "before-op" => snap \in ToSet(out)
      /\ BeforeOps(ToSet(l) \ ToSet(out)) # {} => Cardinality(BeforeOps(all)) > Retention
  BY <1>1, <1>2, ListWithIs
<1> HIDE DEF out
<1>4. out \in SnapLists(n + 1) BY <1>1, <1>3 DEF SnapLists
<1>5. out # <<>>
  <2> Len(<<>>) = 0 OBVIOUS
  <2> QED BY <1>3
<1>6. BeforeOps(ToSet(l) \cup ToSet(out)) = BeforeOps(all) BY <1>3 DEF BeforeOps
<1>7. Cardinality(BeforeOps(all)) > Retention => Cardinality(BeforeOps(ToSet(l))) >= Retention
  <2>1. IsFiniteSet(BeforeOps(ToSet(l)))
    <3>1. IsFiniteSet(ToSet(l)) BY <1>1, SetOfListIsFinite
    <3>2. BeforeOps(ToSet(l)) \in SUBSET ToSet(l) BY DEF BeforeOps
    <3> QED BY <3>1, <3>2, FS_Subset
  <2>2. Cardinality(BeforeOps(ToSet(l))) \in Nat BY <2>1, FS_CardinalityType
  <2>3. CASE snap.kind = "before-op"
    <3> DEFINE old == BeforeOps(ToSet(l))
    <3>1. BeforeOps(all) = old \cup {snap} BY <2>3 DEF BeforeOps
    <3> HIDE DEF old, all
    <3>2. Cardinality(BeforeOps(all)) <= Cardinality(old) + 1
      <4>1. IsFiniteSet(old) /\ Cardinality(old) \in Nat BY <2>1, <2>2 DEF old
      <4>2. Cardinality(old \cup {snap}) = IF snap \in old THEN Cardinality(old) ELSE Cardinality(old) + 1
        BY <4>1, FS_AddElement
      <4> QED BY <3>1, <4>1, <4>2
    <3>3. Cardinality(BeforeOps(all)) \in Nat
      BY <2>1, <3>1, FS_AddElement, FS_CardinalityType DEF old
    <3> QED BY <2>2, <3>2, <3>3, SnapshotAssumption DEF old
  <2>4. CASE snap.kind # "before-op"
    <3>1. BeforeOps(all) = BeforeOps(ToSet(l)) BY <2>4 DEF BeforeOps
    <3> QED BY <2>2, <3>1, SnapshotAssumption
  <2> QED BY <2>3, <2>4
<1> QED BY <1>3, <1>4, <1>5, <1>6, <1>7 DEF out, Crowd

(* A window goes over to another list and sends it, and drops no copy that *)
(* is not explained, or its save is marked as one that may.                *)
LEMMA SentIsExplained ==
    ASSUME NEW from, NEW to, NEW next, NEW gone, NEW later, gone \subseteq later,
           Explained(from, to, gone),
           \A s \in BeforeOps(ToSet(to) \ ToSet(next)) : s.id \in later
    PROVE  Explained(from, next, later)
BY DEF Explained, BeforeOps

-----------------------------------------------------------------------------
LEMMA SnapInitial == Init => SnapInv
<1> SUFFICES ASSUME Init PROVE SnapInv OBVIOUS
<1>1. <<>> \in SnapLists(0) BY DEF SnapLists, NoRepeat, ToSet
<1>2. made = 0 /\ 0 \in 0 .. MaxSnapshots BY SnapshotAssumption DEF Init
<1>3. SnapTypes BY <1>1, <1>2 DEF Init, SnapTypes, WindowMem
<1>4. ASSUME NEW w \in Windows PROVE Planned(op[w]) /\ ReadIsFile(w) /\ WindowExplained(w)
  <2>1. op[w].stage = "idle" BY DEF Init, NoOp
  <2>2. Explained(mem[w].base, mem[w].list, removed) BY DEF Init, Explained, BeforeOps
  <2> QED BY <2>1, <2>2 DEF Planned, ReadIsFile, WindowExplained
<1> QED BY <1>3, <1>4 DEF Init, SnapInv

(* A step of window w that leaves the list of the file: its records are d, *)
(* and it may send another list of snapshots.                              *)
Sends(w, d, next, n) ==
    /\ made' = n
    /\ mem' = [mem EXCEPT ![w].data = d, ![w].list = next]
    /\ saves' = saves \cup {Sending(w, next)}

(* The same, and the window and the save may be marked as astray.          *)
SendsMarked(w, d, next, n, a) ==
    /\ made' = n
    /\ mem' = [mem EXCEPT ![w].data = d, ![w].list = next, ![w].astray = a]
    /\ saves' = saves \cup {[Sending(w, next) EXCEPT !.astray = a]}

Quiet(w, d) == mem' = [mem EXCEPT ![w].data = d] /\ UNCHANGED <<saves, made>>

Copies(w, d) ==
    \/ Quiet(w, d)
    \/ \E snap \in Snapshot : /\ snap.id = made + 1 /\ made < MaxSnapshots
                              /\ Sends(w, d, ListWith(mem[w].list, snap), made + 1)

(* What a save on its way holds.                                           *)
LEMMA SendingIs ==
    ASSUME SnapTypes, NEW w \in Windows, NEW n \in Nat, made <= n, NEW next \in SnapLists(n)
    PROVE  Sending(w, next) \in ListSaves(n)
<1>1. made \in Nat BY SnapshotAssumption DEF SnapTypes
<1>2. mem[w].base \in SnapLists(n) /\ mem[w].list \in SnapLists(n) /\ mem[w].astray \in BOOLEAN
  <2>1. mem[w] \in WindowMem(made) BY DEF SnapTypes
  <2> QED BY <1>1, <2>1, LaterTypes DEF WindowMem
<1> DEFINE c == \/ Cardinality(BeforeOps(ToSet(mem[w].list) \cup ToSet(next))) > Retention
                \/ \E s \in saves : s.by = w /\ s.crowded
<1>3. c \in BOOLEAN OBVIOUS
<1>4. Sending(w, next) = [by |-> w, list |-> next, base |-> mem[w].base, before |-> mem[w].list,
                          astray |-> mem[w].astray, crowded |-> c]
  BY DEF Sending
<1> HIDE DEF c
<1> QED BY <1>2, <1>3, <1>4 DEF ListSaves

(* Sending a list: what it drops of the window's list is marked or is what *)
(* the user deleted, so both the window and the save stay explained.       *)
LEMMA MarkedSendKeeps ==
    ASSUME SnapInv, NEW w \in Windows, NEW d \in SUBSET Records,
           NEW n \in made .. MaxSnapshots, NEW next \in SnapLists(n), NEW a \in BOOLEAN, mem[w].astray => a,
           SendsMarked(w, d, next, n, a), removed \subseteq removed',
           \A s \in BeforeOps(ToSet(mem[w].list) \ ToSet(next)) :
              a \/ s.id \in removed' \/ Crowd(mem[w].list, next)
    PROVE  /\ made' \in 0 .. MaxSnapshots /\ made <= made'
           /\ mem' \in [Windows -> WindowMem(made')] /\ saves' \in SUBSET ListSaves(made')
           /\ \A v \in Windows : WindowExplained(v)'
           /\ \A s \in saves' : SaveExplained(s)'
<1> DEFINE new == [Sending(w, next) EXCEPT !.astray = a]
<1>1. /\ made \in Nat /\ n \in Nat /\ made' = n /\ made <= n
      /\ mem \in [Windows -> WindowMem(made)] /\ saves \in SUBSET ListSaves(made) /\ SnapTypes
  BY SnapshotAssumption DEF SnapInv, SnapTypes, SendsMarked
<1>2. new \in ListSaves(n)
  <2> Sending(w, next) \in ListSaves(n) BY <1>1, SendingIs
  <2> QED BY DEF ListSaves
<1>3. /\ new.by = w /\ new.list = next /\ new.base = mem[w].base /\ new.astray = a
      /\ new.crowded <=> Crowd(mem[w].list, next) \/ \E s \in saves : s.by = w /\ s.crowded
  BY DEF Sending, Crowd
<1> HIDE DEF new
<1>4. saves' = saves \cup {new} BY DEF SendsMarked, new
<1>5. saves' \in SUBSET ListSaves(made') BY <1>1, <1>2, <1>4, LaterTypes
<1>6. /\ mem' \in [Windows -> WindowMem(made')]
      /\ \A v \in Windows \ {w} : mem'[v] = mem[v]
      /\ mem'[w].list = next /\ mem'[w].base = mem[w].base /\ mem'[w].astray = a
  <2>1. WindowMem(made) \subseteq WindowMem(n) BY <1>1, LaterTypes
  <2>2. mem' = [mem EXCEPT ![w].data = d, ![w].list = next, ![w].astray = a] BY DEF SendsMarked
  <2>3. mem \in [Windows -> WindowMem(n)] BY <1>1, <2>1
  <2> HIDE <1>1
  <2>4. mem' \in [Windows -> WindowMem(n)] BY <2>2, <2>3 DEF WindowMem
  <2> QED BY <1>1, <2>2, <2>3, <2>4 DEF WindowMem
<1>7. WindowExplained(w) BY DEF SnapInv
<1>8. new.astray \/ new.crowded \/ Explained(new.base, next, removed')
  <2> SUFFICES ASSUME ~new.astray, ~new.crowded PROVE Explained(mem[w].base, next, removed') BY <1>3
  <2>1. Explained(mem[w].base, mem[w].list, removed) BY <1>3, <1>7 DEF WindowExplained
  <2>2. \A s \in BeforeOps(ToSet(mem[w].list) \ ToSet(next)) : s.id \in removed' BY <1>3
  <2> QED BY <2>1, <2>2, SentIsExplained
<1>9. \A v \in Windows : WindowExplained(v)'
  <2>1. ASSUME NEW v \in Windows \ {w} PROVE WindowExplained(v)'
    <3>1. WindowExplained(v) BY DEF SnapInv
    <3> QED BY <1>4, <1>6, <3>1 DEF WindowExplained, Explained
  <2>2. WindowExplained(w)'
    <3>1. CASE new.astray BY <1>3, <1>6, <3>1 DEF WindowExplained
    <3>2. CASE new.crowded BY <1>3, <1>4, <3>2 DEF WindowExplained
    <3>3. CASE Explained(new.base, next, removed') BY <1>3, <1>6, <3>3 DEF WindowExplained
    <3> QED BY <1>8, <3>1, <3>2, <3>3
  <2> QED BY <2>1, <2>2
<1>10. \A s \in saves' : SaveExplained(s)'
  <2> SUFFICES ASSUME NEW s \in saves'
               PROVE  s.astray \/ s.crowded \/ Explained(s.base, s.list, removed')
    BY DEF SaveExplained, Explained
  <2>1. CASE s \in saves
    <3>1. SaveExplained(s) BY <2>1 DEF SnapInv
    <3> QED BY <3>1 DEF SaveExplained, Explained
  <2>2. CASE s = new BY <1>3, <1>8, <2>2
  <2> QED BY <1>4, <2>1, <2>2
<1> QED BY <1>1, <1>5, <1>6, <1>9, <1>10

(* The same for a save that is not marked.                                 *)
LEMMA SendKeeps ==
    ASSUME SnapInv, NEW w \in Windows, NEW d \in SUBSET Records,
           NEW n \in made .. MaxSnapshots, NEW next \in SnapLists(n), Sends(w, d, next, n),
           removed \subseteq removed',
           \A s \in BeforeOps(ToSet(mem[w].list) \ ToSet(next)) :
              s.id \in removed' \/ Crowd(mem[w].list, next)
    PROVE  /\ made' \in 0 .. MaxSnapshots /\ made <= made'
           /\ mem' \in [Windows -> WindowMem(made')] /\ saves' \in SUBSET ListSaves(made')
           /\ \A v \in Windows : WindowExplained(v)'
           /\ \A s \in saves' : SaveExplained(s)'
<1> DEFINE a == mem[w].astray
<1>1. mem \in [Windows -> WindowMem(made)] /\ a \in BOOLEAN BY DEF SnapInv, SnapTypes, WindowMem
<1>2. SendsMarked(w, d, next, n, a)
  <2>1. [mem EXCEPT ![w].data = d, ![w].list = next]
        = [mem EXCEPT ![w].data = d, ![w].list = next, ![w].astray = a]
    BY <1>1 DEF WindowMem
  <2>2. [Sending(w, next) EXCEPT !.astray = a] = Sending(w, next) BY DEF Sending
  <2> QED BY <2>1, <2>2 DEF Sends, SendsMarked
<1>3. mem[w].astray => a OBVIOUS
<1> HIDE DEF a
<1> QED BY <1>1, <1>2, <1>3, MarkedSendKeeps

(* An automatic, a manual or a safety copy.                                *)
LEMMA CopiesKeep ==
    ASSUME SnapInv, NEW w \in Windows, NEW d \in SUBSET Records, Copies(w, d), UNCHANGED removed
    PROVE  /\ made' \in 0 .. MaxSnapshots /\ made <= made'
           /\ mem' \in [Windows -> WindowMem(made')] /\ saves' \in SUBSET ListSaves(made')
           /\ \A v \in Windows : WindowExplained(v)'
           /\ \A s \in saves' : SaveExplained(s)'
<1>1. made \in Nat /\ made \in 0 .. MaxSnapshots /\ mem \in [Windows -> WindowMem(made)]
      /\ saves \in SUBSET ListSaves(made)
  BY SnapshotAssumption DEF SnapInv, SnapTypes
<1>2. CASE Quiet(w, d)
  <2>1. mem' = [mem EXCEPT ![w].data = d] /\ saves' = saves /\ made' = made BY <1>2 DEF Quiet
  <2>2. /\ mem' \in [Windows -> WindowMem(made)]
        /\ \A v \in Windows : mem'[v].base = mem[v].base /\ mem'[v].list = mem[v].list
                              /\ mem'[v].astray = mem[v].astray
    BY <1>1, <2>1 DEF WindowMem
  <2>3. ASSUME NEW v \in Windows PROVE WindowExplained(v)'
    <3>1. WindowExplained(v) BY DEF SnapInv
    <3> QED BY <2>1, <2>2, <3>1 DEF WindowExplained, Explained
  <2>4. \A s \in saves' : SaveExplained(s)'
    BY <2>1 DEF SnapInv, SaveExplained, Explained
  <2> QED BY <1>1, <2>1, <2>2, <2>3, <2>4
<1>3. ASSUME NEW snap \in Snapshot, snap.id = made + 1, made < MaxSnapshots,
             Sends(w, d, ListWith(mem[w].list, snap), made + 1)
      PROVE  /\ made' \in 0 .. MaxSnapshots /\ made <= made'
             /\ mem' \in [Windows -> WindowMem(made')] /\ saves' \in SUBSET ListSaves(made')
             /\ \A v \in Windows : WindowExplained(v)'
             /\ \A s \in saves' : SaveExplained(s)'
  <2> DEFINE next == ListWith(mem[w].list, snap)
  <2>1. mem[w].list \in SnapLists(made) BY <1>1 DEF WindowMem
  <2>2. /\ next \in SnapLists(made + 1)
        /\ BeforeOps(ToSet(mem[w].list) \ ToSet(next)) # {} => Crowd(mem[w].list, next)
    BY <1>1, <1>3, <2>1, ListWithPlans
  <2>3. Sends(w, d, next, made + 1) BY <1>3
  <2> HIDE DEF next
  <2>4. made + 1 \in made .. MaxSnapshots BY <1>1, <1>3, SnapshotAssumption
  <2>5. \A s \in BeforeOps(ToSet(mem[w].list) \ ToSet(next)) :
           s.id \in removed' \/ Crowd(mem[w].list, next)
    BY <2>2
  <2> QED BY <2>2, <2>3, <2>4, <2>5, SendKeeps
<1> QED BY <1>2, <1>3 DEF Copies

LEMMA MakesSnapshotCopies ==
    ASSUME SnapTypes, NEW w \in Windows, NEW kind \in Kinds, NEW d, MakesSnapshot(w, kind, d)
    PROVE  Copies(w, d)
<1> DEFINE snap == NewSnapshot(kind, mem[w].data)
           wanted == mem[w].data # {} /\ made < MaxSnapshots
           next == ListWith(mem[w].list, snap)
<1>1. made \in Nat /\ mem[w].data \in SUBSET Records
      /\ mem \in [Windows -> WindowMem(made)]
  BY SnapshotAssumption DEF SnapTypes, WindowMem
<1>2. /\ made' = IF wanted THEN made + 1 ELSE made
      /\ mem' = [mem EXCEPT ![w].data = d, ![w].list = IF wanted THEN next ELSE @]
      /\ saves' = IF wanted THEN saves \cup {Sending(w, next)} ELSE saves
  BY DEF MakesSnapshot
<1>3. CASE wanted
  <2>1. snap \in Snapshot /\ snap.id = made + 1
    <3> made + 1 \in 1 .. MaxSnapshots BY <1>1, <1>3, SnapshotAssumption
    <3> QED BY <1>1 DEF NewSnapshot, Snapshot
  <2>2. Sends(w, d, next, made + 1) BY <1>2, <1>3 DEF Sends
  <2> HIDE DEF snap
  <2> QED BY <1>3, <2>1, <2>2 DEF Copies
<1>4. CASE ~wanted
  <2> HIDE DEF next, wanted
  <2>1. mem' = [mem EXCEPT ![w].data = d, ![w].list = mem[w].list] BY <1>1, <1>2, <1>4 DEF WindowMem
  <2>2. [mem EXCEPT ![w].data = d, ![w].list = mem[w].list] = [mem EXCEPT ![w].data = d]
    BY <1>1 DEF WindowMem
  <2> QED BY <1>2, <1>4, <2>1, <2>2 DEF Copies, Quiet
<1> QED BY <1>3, <1>4

-----------------------------------------------------------------------------
OpTypes(n) == {NoOp} \cup Reads \cup Replaces(n)

(* The other windows' replacements are marked, nothing else about them     *)
(* changes.                                                                *)
LEMMA OvertakenIs ==
    ASSUME SnapInv, NEW w \in Windows
    PROVE  /\ Overtaken(w) \in [Windows -> OpTypes(made)]
           /\ Overtaken(w)[w] = op[w]
           /\ \A v \in Windows : /\ Overtaken(w)[v].stage = op[v].stage
                                 /\ Planned(Overtaken(w)[v])
                                 /\ v # w /\ op[v].stage = "sent" => Overtaken(w)[v].overtaken
<1>1. op \in [Windows -> OpTypes(made)] /\ \A v \in Windows : Planned(op[v])
  BY DEF SnapInv, SnapTypes, OpTypes
<1>2. ASSUME NEW v \in Windows
      PROVE  /\ Overtaken(w)[v] \in OpTypes(made) /\ Overtaken(w)[v].stage = op[v].stage
             /\ Planned(Overtaken(w)[v])
             /\ v # w /\ op[v].stage = "sent" => Overtaken(w)[v].overtaken
  <2>1. CASE v # w /\ op[v].stage = "sent"
    <3>1. Overtaken(w)[v] = [op[v] EXCEPT !.overtaken = TRUE] BY <2>1 DEF Overtaken
    <3>2. op[v] \in Replaces(made) BY <1>1, <2>1 DEF OpTypes, NoOp, Reads
    <3>3. /\ Overtaken(w)[v] \in Replaces(made) /\ Overtaken(w)[v].stage = op[v].stage
          /\ Overtaken(w)[v].plan = op[v].plan /\ Overtaken(w)[v].before = op[v].before
          /\ Overtaken(w)[v].known = op[v].known /\ Overtaken(w)[v].overtaken
      BY <3>1, <3>2 DEF Replaces
    <3>4. Planned(op[v]) BY <1>1
    <3> QED BY <3>3, <3>4 DEF OpTypes, Planned
  <2>2. CASE ~(v # w /\ op[v].stage = "sent")
    <3> Overtaken(w)[v] = op[v] BY <2>2 DEF Overtaken
    <3> QED BY <1>1, <2>2
  <2> QED BY <2>1, <2>2
<1>3. Overtaken(w)[w] = op[w] BY DEF Overtaken
<1>4. Overtaken(w) = [v \in Windows |-> Overtaken(w)[v]] BY DEF Overtaken
<1> QED BY <1>2, <1>3, <1>4

(* A window without a replacement under way writes the records.            *)
LEMMA RecordsWritten ==
    ASSUME SnapInv, NEW w \in Windows, NEW d \in SUBSET Records, Copies(w, d),
           op[w].stage = "idle", op' = Overtaken(w), data' \in SUBSET Records,
           UNCHANGED <<list, removed>>
    PROVE  SnapInv'
<1>1. /\ made' \in 0 .. MaxSnapshots /\ made <= made' /\ made \in Nat /\ made' \in Nat
      /\ mem' \in [Windows -> WindowMem(made')] /\ saves' \in SUBSET ListSaves(made')
      /\ \A v \in Windows : WindowExplained(v)'
      /\ \A s \in saves' : SaveExplained(s)'
  BY CopiesKeep, SnapshotAssumption DEF SnapInv, SnapTypes
<1>2. /\ op' \in [Windows -> OpTypes(made)] /\ op'[w] = op[w]
      /\ \A v \in Windows : /\ op'[v].stage = op[v].stage /\ Planned(op'[v])
                            /\ v # w /\ op[v].stage = "sent" => op'[v].overtaken
  BY OvertakenIs
<1>3. OpTypes(made) \subseteq OpTypes(made') /\ SnapLists(made) \subseteq SnapLists(made')
  BY <1>1, LaterTypes DEF OpTypes
<1>4. SnapTypes'
  <2>1. list' \in SnapLists(made') BY <1>3 DEF SnapInv, SnapTypes
  <2>2. op' \in [Windows -> OpTypes(made')] BY <1>2, <1>3
  <2> QED BY <1>1, <2>1, <2>2 DEF SnapTypes, OpTypes
<1>5. ASSUME NEW v \in Windows PROVE Planned(op[v])' /\ ReadIsFile(v)'
  BY <1>2 DEF ReadIsFile, Planned
<1> QED BY <1>1, <1>4, <1>5 DEF SnapInv

LEMMA AddRecordKeeps ==
    ASSUME SnapInv, NEW w \in Windows, NEW r \in Records, AddRecord(w, r)
    PROVE  SnapInv'
<1> DEFINE d == mem[w].data \cup {r}
           auto == due[w] /\ made < MaxSnapshots
           snap == NewSnapshot("auto", d)
           next == ListWith(mem[w].list, snap)
<1>1. /\ SnapTypes /\ made \in Nat /\ mem \in [Windows -> WindowMem(made)]
      /\ data \in SUBSET Records /\ d \in SUBSET Records
  BY SnapshotAssumption DEF SnapInv, SnapTypes, WindowMem
<1>2. /\ mem' = [mem EXCEPT ![w].data = d, ![w].list = IF auto THEN next ELSE @]
      /\ saves' = IF auto THEN saves \cup {Sending(w, next)} ELSE saves
      /\ made' = IF auto THEN made + 1 ELSE made
  BY DEF AddRecord
<1>3. Copies(w, d)
  <2>1. CASE auto
    <3>1. snap \in Snapshot /\ snap.id = made + 1
      <4> made + 1 \in 1 .. MaxSnapshots BY <1>1, <2>1, SnapshotAssumption
      <4> QED BY <1>1 DEF NewSnapshot, Snapshot, Kinds
    <3>2. Sends(w, d, next, made + 1) BY <1>2, <2>1 DEF Sends
    <3> HIDE DEF snap, d
    <3> QED BY <2>1, <3>1, <3>2 DEF Copies
  <2>2. CASE ~auto
    <3> HIDE DEF next, auto, d
    <3>1. mem' = [mem EXCEPT ![w].data = d, ![w].list = mem[w].list] BY <1>1, <1>2, <2>2 DEF WindowMem
    <3>2. [mem EXCEPT ![w].data = d, ![w].list = mem[w].list] = [mem EXCEPT ![w].data = d]
      BY <1>1 DEF WindowMem
    <3> QED BY <1>2, <2>2, <3>1, <3>2 DEF Copies, Quiet
  <2> QED BY <2>1, <2>2
<1>4. /\ op[w].stage = "idle" /\ op' = Overtaken(w) /\ data' = data \cup {r}
      /\ UNCHANGED <<list, removed>>
  BY DEF AddRecord
<1>5. data' \in SUBSET Records BY <1>1, <1>4
<1> HIDE DEF d
<1> QED BY <1>1, <1>3, <1>4, <1>5, RecordsWritten

LEMMA RemoveRecordKeeps ==
    ASSUME SnapInv, NEW w \in Windows, NEW r \in Records, RemoveRecord(w, r)
    PROVE  SnapInv'
<1>1. SnapTypes /\ mem[w].data \in SUBSET Records /\ data \in SUBSET Records
  BY DEF SnapInv, SnapTypes, WindowMem
<1>2. MakesSnapshot(w, "before-op", mem[w].data \ {r}) BY DEF RemoveRecord
<1>3. Copies(w, mem[w].data \ {r}) BY <1>1, <1>2, MakesSnapshotCopies DEF Kinds
<1>4. /\ op[w].stage = "idle" /\ op' = Overtaken(w) /\ data' = data \ {r}
      /\ UNCHANGED <<list, removed>>
  BY DEF RemoveRecord
<1>5. data' \in SUBSET Records /\ mem[w].data \ {r} \in SUBSET Records BY <1>1, <1>4
<1> QED BY <1>3, <1>4, <1>5, RecordsWritten

(* A step that leaves the file and the replacements as they are.           *)
LEMMA FileUntouched ==
    ASSUME SnapInv, UNCHANGED <<data, list, op>>,
           made' \in 0 .. MaxSnapshots, made <= made',
           mem' \in [Windows -> WindowMem(made')], saves' \in SUBSET ListSaves(made'),
           \A v \in Windows : WindowExplained(v)',
           \A s \in saves' : SaveExplained(s)'
    PROVE  SnapInv'
<1>1. made \in Nat /\ made' \in Nat BY SnapshotAssumption DEF SnapInv, SnapTypes
<1>2. OpTypes(made) \subseteq OpTypes(made') /\ SnapLists(made) \subseteq SnapLists(made')
  BY <1>1, LaterTypes DEF OpTypes
<1>3. SnapTypes'
  <2>1. list' \in SnapLists(made') BY <1>2 DEF SnapInv, SnapTypes
  <2>2. op' \in [Windows -> OpTypes(made')] BY <1>2 DEF SnapInv, SnapTypes, OpTypes
  <2>3. data' \in SUBSET Records BY DEF SnapInv, SnapTypes
  <2> QED BY <2>1, <2>2, <2>3 DEF SnapTypes, OpTypes
<1>4. ASSUME NEW v \in Windows PROVE Planned(op[v])' /\ ReadIsFile(v)'
  BY DEF SnapInv, ReadIsFile, Planned
<1> QED BY <1>3, <1>4 DEF SnapInv

LEMMA TakeSnapshotKeeps ==
    ASSUME SnapInv, NEW w \in Windows, TakeSnapshot(w)
    PROVE  SnapInv'
<1>1. SnapTypes /\ mem[w].data \in SUBSET Records BY DEF SnapInv, SnapTypes, WindowMem
<1>2. Copies(w, mem[w].data) BY <1>1, MakesSnapshotCopies DEF TakeSnapshot, Kinds
<1>3. UNCHANGED <<data, list, op, removed>> BY DEF TakeSnapshot
<1> QED BY <1>1, <1>2, <1>3, CopiesKeep, FileUntouched

LEMMA DeleteSnapshotKeeps ==
    ASSUME SnapInv, NEW w \in Windows, NEW s \in ToSet(mem[w].list), DeleteSnapshot(w, s)
    PROVE  SnapInv'
<1> DEFINE next == Without(mem[w].list, {s})
<1>1. /\ SnapTypes /\ made \in Nat /\ made \in 0 .. MaxSnapshots
      /\ mem \in [Windows -> WindowMem(made)] /\ mem[w].data \in SUBSET Records
      /\ mem[w].list \in SnapLists(made)
  BY SnapshotAssumption DEF SnapInv, SnapTypes, WindowMem
<1>2. /\ mem[w].list \in Seq(Snapshot) /\ NoRepeat(mem[w].list)
      /\ \A t \in ToSet(mem[w].list) : t.id <= made
  BY <1>1 DEF SnapLists
<1>3. /\ next \in Seq(Snapshot) /\ ToSet(next) = ToSet(mem[w].list) \ {s} /\ NoRepeat(next)
  BY <1>2, WithoutIs
<1>4. /\ mem' = [mem EXCEPT ![w].list = next] /\ saves' = saves \cup {Sending(w, next)}
      /\ removed' = removed \cup {s.id} /\ UNCHANGED <<data, list, op, made>>
  BY DEF DeleteSnapshot
<1> HIDE DEF next
<1>5. next \in SnapLists(made) BY <1>2, <1>3 DEF SnapLists
<1>6. Sends(w, mem[w].data, next, made)
  <2> [mem EXCEPT ![w].list = next] = [mem EXCEPT ![w].data = mem[w].data, ![w].list = next]
    BY <1>1 DEF WindowMem
  <2> QED BY <1>4 DEF Sends
<1>7. \A t \in BeforeOps(ToSet(mem[w].list) \ ToSet(next)) :
         t.id \in removed' \/ Crowd(mem[w].list, next)
  BY <1>3, <1>4 DEF BeforeOps
<1>8. made \in made .. MaxSnapshots /\ removed \subseteq removed' BY <1>1, <1>4, SnapshotAssumption
<1> QED BY <1>1, <1>4, <1>5, <1>6, <1>7, <1>8, SendKeeps, FileUntouched

-----------------------------------------------------------------------------
(* The steps of a replacement.                                             *)
LEMMA ReplacementIs ==
    ASSUME SnapTypes, NEW w \in Windows, op[w].stage \in {"sent", "saved", "verify"}
    PROVE  op[w] \in Replaces(made)
BY DEF SnapTypes, NoOp, Reads

(* A step of w's replacement that leaves the lists of the windows alone.   *)
LEMMA ReplacementMoves ==
    ASSUME SnapInv, NEW w \in Windows, NEW d \in SUBSET Records, Quiet(w, d), UNCHANGED removed,
           data' \in SUBSET Records, list' \in SnapLists(made),
           op' \in [Windows -> OpTypes(made)],
           \A v \in Windows : Planned(op'[v]) /\ ReadIsFile(v)'
    PROVE  SnapInv'
<1>1. /\ SnapTypes /\ mem \in [Windows -> WindowMem(made)]
      /\ mem' = [mem EXCEPT ![w].data = d] /\ UNCHANGED <<saves, made>>
  BY DEF SnapInv, SnapTypes, Quiet
<1>2. /\ mem' \in [Windows -> WindowMem(made)]
      /\ \A v \in Windows : mem'[v].base = mem[v].base /\ mem'[v].list = mem[v].list
                            /\ mem'[v].astray = mem[v].astray
  BY <1>1 DEF WindowMem
<1>3. SnapTypes' BY <1>1, <1>2 DEF SnapTypes, OpTypes
<1>4. ASSUME NEW v \in Windows PROVE WindowExplained(v)'
  <2>1. WindowExplained(v) BY DEF SnapInv
  <2> QED BY <1>1, <1>2, <2>1 DEF WindowExplained, Explained
<1>5. \A s \in saves' : SaveExplained(s)' BY <1>1 DEF SnapInv, SaveExplained, Explained
<1>6. \A v \in Windows : Planned(op[v])' BY DEF Planned
<1> QED BY <1>3, <1>4, <1>5, <1>6 DEF SnapInv

LEMMA AskReplaceKeeps ==
    ASSUME SnapInv, NEW w \in Windows, NEW next \in SUBSET Records, AskReplace(w, next)
    PROVE  SnapInv'
<1>1. /\ mem \in [Windows -> WindowMem(made)] /\ op \in [Windows -> OpTypes(made)]
      /\ data \in SUBSET Records /\ list \in SnapLists(made)
  BY DEF SnapInv, SnapTypes, OpTypes
<1>2. /\ op' = [op EXCEPT ![w] = [stage |-> "read", next |-> next]]
      /\ UNCHANGED <<data, list, mem, saves, made, removed>>
  BY DEF AskReplace
<1>3. Quiet(w, mem[w].data) /\ mem[w].data \in SUBSET Records BY <1>1, <1>2 DEF Quiet, WindowMem
<1>4. op' \in [Windows -> OpTypes(made)] BY <1>1, <1>2 DEF OpTypes, Reads
<1>5. ASSUME NEW v \in Windows PROVE Planned(op'[v]) /\ ReadIsFile(v)'
  <2>1. Planned(op[v]) /\ ReadIsFile(v) BY DEF SnapInv
  <2>2. CASE v = w BY <1>1, <1>2, <2>2 DEF Planned, ReadIsFile
  <2>3. CASE v # w BY <1>1, <1>2, <2>1, <2>3 DEF Planned, ReadIsFile
  <2> QED BY <2>2, <2>3
<1> QED BY <1>1, <1>2, <1>3, <1>4, <1>5, ReplacementMoves

LEMMA SendReplaceKeeps ==
    ASSUME SnapInv, NEW w \in Windows, SendReplace(w)
    PROVE  SnapInv'
<1> DEFINE snap == NewSnapshot("before-op", data)
           plan == IF data = {} THEN <<>> ELSE ListWith(mem[w].list, snap)
           new == [stage |-> "sent", next |-> op[w].next, before |-> data,
                   plan |-> plan, known |-> mem[w].list, overtaken |-> FALSE]
<1>1. /\ SnapTypes /\ made \in Nat /\ made \in 0 .. MaxSnapshots /\ made < MaxSnapshots
      /\ mem \in [Windows -> WindowMem(made)] /\ op \in [Windows -> OpTypes(made)]
      /\ data \in SUBSET Records /\ list \in SnapLists(made) /\ saves \in SUBSET ListSaves(made)
      /\ op[w].stage = "read"
  BY SnapshotAssumption DEF SnapInv, SnapTypes, OpTypes, SendReplace
<1>2. /\ op' = [op EXCEPT ![w] = new] /\ mem' = [mem EXCEPT ![w].data = op[w].next]
      /\ made' = IF data = {} THEN made ELSE made + 1
      /\ UNCHANGED <<data, list, saves, removed>>
  BY DEF SendReplace, Refreshed
<1>3. op[w].next \in SUBSET Records BY <1>1 DEF OpTypes, NoOp, Reads, Replaces
<1>4. made' \in 0 .. MaxSnapshots /\ made <= made' /\ made' \in Nat
  BY <1>1, <1>2, SnapshotAssumption
<1>5. mem[w].list \in SnapLists(made) BY <1>1 DEF WindowMem
<1>6. /\ plan \in SnapLists(made')
      /\ plan = <<>> <=> data = {}
      /\ plan # <<>> => \E s \in ToSet(plan) : s.kind = "before-op" /\ s.data = data
      /\ plan # <<>> /\ BeforeOps(ToSet(mem[w].list) \ ToSet(plan)) # {} =>
            Crowd(mem[w].list, plan) /\ Cardinality(BeforeOps(ToSet(mem[w].list))) >= Retention
  <2>1. CASE data = {}
    <3> plan = <<>> /\ made' = made BY <1>2, <2>1
    <3> <<>> \in SnapLists(made) BY DEF SnapLists, NoRepeat, ToSet
    <3> QED BY <2>1
  <2>2. CASE data # {}
    <3>1. snap \in Snapshot /\ snap.id = made + 1 /\ snap.kind = "before-op" /\ snap.data = data
      <4> made + 1 \in 1 .. MaxSnapshots BY <1>1, SnapshotAssumption
      <4> QED BY <1>1 DEF NewSnapshot, Snapshot, Kinds
    <3>2. plan = ListWith(mem[w].list, snap) /\ made' = made + 1 BY <1>2, <2>2
    <3> HIDE DEF snap, plan
    <3> QED BY <1>1, <1>5, <2>2, <3>1, <3>2, ListWithPlans
  <2> QED BY <2>1, <2>2
<1> HIDE DEF plan
<1>7. /\ WindowMem(made) \subseteq WindowMem(made') /\ OpTypes(made) \subseteq OpTypes(made')
      /\ SnapLists(made) \subseteq SnapLists(made') /\ ListSaves(made) \subseteq ListSaves(made')
  BY <1>1, <1>4, LaterTypes DEF OpTypes
<1>8. new \in OpTypes(made')
  <2>1. mem[w].list \in SnapLists(made') BY <1>5, <1>7
  <2> QED BY <1>1, <1>3, <1>6, <2>1 DEF OpTypes, Replaces
<1>9. Planned(new) BY <1>6 DEF Planned
<1>10. new.stage = "sent" /\ new.before = data OBVIOUS
<1> HIDE DEF new
<1>11. SnapTypes'
  <2>1. op' \in [Windows -> OpTypes(made')] BY <1>1, <1>2, <1>7, <1>8
  <2>2. mem' \in [Windows -> WindowMem(made')]
    <3> mem' \in [Windows -> WindowMem(made)] BY <1>1, <1>2, <1>3 DEF WindowMem
    <3> QED BY <1>7
  <2> QED BY <1>1, <1>2, <1>4, <1>7, <2>1, <2>2 DEF SnapTypes, OpTypes
<1>12. ASSUME NEW v \in Windows PROVE Planned(op[v])' /\ ReadIsFile(v)' /\ WindowExplained(v)'
  <2>1. Planned(op[v]) /\ ReadIsFile(v) /\ WindowExplained(v) BY DEF SnapInv
  <2>2. /\ mem'[v].base = mem[v].base /\ mem'[v].list = mem[v].list /\ mem'[v].astray = mem[v].astray
    BY <1>1, <1>2 DEF WindowMem
  <2>3. WindowExplained(v)' BY <1>2, <2>1, <2>2 DEF WindowExplained, Explained
  <2>4. CASE v = w
    <3> op'[v] = new BY <1>1, <1>2, <2>4
    <3> QED BY <1>2, <1>9, <1>10, <2>3 DEF Planned, ReadIsFile
  <2>5. CASE v # w
    <3> op'[v] = op[v] BY <1>1, <1>2, <2>5
    <3> QED BY <1>2, <2>1, <2>3 DEF Planned, ReadIsFile
  <2> QED BY <2>4, <2>5
<1>13. \A s \in saves' : SaveExplained(s)' BY <1>2 DEF SnapInv, SaveExplained, Explained
<1> QED BY <1>11, <1>12, <1>13 DEF SnapInv

LEMMA ReplaceLandsKeeps ==
    ASSUME SnapInv, NEW w \in Windows, ReplaceLands(w)
    PROVE  SnapInv'
<1>1. /\ SnapTypes /\ mem \in [Windows -> WindowMem(made)] /\ op \in [Windows -> OpTypes(made)]
      /\ list \in SnapLists(made) /\ op[w].stage = "sent"
  BY DEF SnapInv, SnapTypes, OpTypes, ReplaceLands
<1>2. /\ data' = op[w].next /\ list' = IF op[w].plan = <<>> THEN list ELSE op[w].plan
      /\ op' = [Overtaken(w) EXCEPT ![w].stage = "saved"]
      /\ UNCHANGED <<mem, saves, made, removed>>
  BY DEF ReplaceLands
<1>3. op[w] \in Replaces(made) BY <1>1, ReplacementIs
<1>4. data' \in SUBSET Records /\ list' \in SnapLists(made) BY <1>1, <1>2, <1>3 DEF Replaces
<1>5. Quiet(w, mem[w].data) /\ mem[w].data \in SUBSET Records BY <1>1, <1>2 DEF Quiet, WindowMem
<1>6. /\ Overtaken(w) \in [Windows -> OpTypes(made)] /\ Overtaken(w)[w] = op[w]
      /\ \A v \in Windows : /\ Overtaken(w)[v].stage = op[v].stage
                            /\ Planned(Overtaken(w)[v])
                            /\ v # w /\ op[v].stage = "sent" => Overtaken(w)[v].overtaken
  BY OvertakenIs
<1>7. op'[w] = [op[w] EXCEPT !.stage = "saved"] /\ \A v \in Windows \ {w} : op'[v] = Overtaken(w)[v]
  BY <1>2, <1>6
<1>8. /\ op'[w] \in Replaces(made) /\ op'[w].stage = "saved" /\ op'[w].plan = op[w].plan
      /\ op'[w].before = op[w].before /\ op'[w].known = op[w].known
  BY <1>3, <1>7 DEF Replaces
<1>9. op' \in [Windows -> OpTypes(made)]
  <2>1. \A v \in Windows : op'[v] \in OpTypes(made) BY <1>6, <1>7, <1>8 DEF OpTypes
  <2>2. op' = [v \in Windows |-> op'[v]] BY <1>2, <1>6
  <2> QED BY <2>1, <2>2
<1>10. ASSUME NEW v \in Windows PROVE Planned(op'[v]) /\ ReadIsFile(v)'
  <2>1. CASE v = w
    <3> Planned(op[w]) BY DEF SnapInv
    <3> QED BY <1>1, <1>8, <2>1 DEF Planned, ReadIsFile
  <2>2. CASE v # w BY <1>6, <1>7, <2>2 DEF ReadIsFile
  <2> QED BY <2>1, <2>2
<1> QED BY <1>2, <1>4, <1>5, <1>9, <1>10, ReplacementMoves

LEMMA ReplaceFailsKeeps ==
    ASSUME SnapInv, NEW w \in Windows, ReplaceFails(w)
    PROVE  SnapInv'
<1> DEFINE d == IF mem[w].data = op[w].next THEN op[w].before ELSE mem[w].data
<1>1. /\ SnapTypes /\ mem \in [Windows -> WindowMem(made)] /\ op \in [Windows -> OpTypes(made)]
      /\ data \in SUBSET Records /\ list \in SnapLists(made) /\ op[w].stage = "sent"
  BY DEF SnapInv, SnapTypes, OpTypes, ReplaceFails
<1>2. /\ mem' = [mem EXCEPT ![w].data = d] /\ op' = [op EXCEPT ![w] = NoOp]
      /\ UNCHANGED <<data, list, saves, made, removed>>
  BY <1>1 DEF ReplaceFails, WindowMem
<1>3. d \in SUBSET Records
  <2> op[w] \in Replaces(made) BY <1>1, ReplacementIs
  <2> QED BY <1>1 DEF Replaces, WindowMem
<1> HIDE DEF d
<1>4. Quiet(w, d) BY <1>2 DEF Quiet
<1>5. op' \in [Windows -> OpTypes(made)] BY <1>1, <1>2 DEF OpTypes
<1>6. ASSUME NEW v \in Windows PROVE Planned(op'[v]) /\ ReadIsFile(v)'
  <2>1. Planned(op[v]) /\ ReadIsFile(v) BY DEF SnapInv
  <2>2. CASE v = w BY <1>1, <1>2, <2>2 DEF Planned, ReadIsFile, NoOp
  <2>3. CASE v # w BY <1>1, <1>2, <2>1, <2>3 DEF Planned, ReadIsFile
  <2> QED BY <2>2, <2>3
<1> QED BY <1>1, <1>2, <1>3, <1>4, <1>5, <1>6, ReplacementMoves

LEMMA ReplaceVerifiedKeeps ==
    ASSUME SnapInv, NEW w \in Windows, ReplaceVerified(w)
    PROVE  SnapInv'
<1>1. /\ mem \in [Windows -> WindowMem(made)] /\ op \in [Windows -> OpTypes(made)]
      /\ data \in SUBSET Records /\ list \in SnapLists(made)
  BY DEF SnapInv, SnapTypes, OpTypes
<1>2. op' = [op EXCEPT ![w] = NoOp] /\ UNCHANGED <<data, list, mem, saves, made, removed>>
  BY DEF ReplaceVerified
<1>3. Quiet(w, mem[w].data) /\ mem[w].data \in SUBSET Records BY <1>1, <1>2 DEF Quiet, WindowMem
<1>4. op' \in [Windows -> OpTypes(made)] BY <1>1, <1>2 DEF OpTypes
<1>5. ASSUME NEW v \in Windows PROVE Planned(op'[v]) /\ ReadIsFile(v)'
  <2>1. Planned(op[v]) /\ ReadIsFile(v) BY DEF SnapInv
  <2>2. CASE v = w BY <1>1, <1>2, <2>2 DEF Planned, ReadIsFile, NoOp
  <2>3. CASE v # w BY <1>1, <1>2, <2>1, <2>3 DEF Planned, ReadIsFile
  <2> QED BY <2>2, <2>3
<1> QED BY <1>1, <1>2, <1>3, <1>4, <1>5, ReplacementMoves

LEMMA ReplaceAnsweredKeeps ==
    ASSUME SnapInv, NEW w \in Windows, ReplaceAnswered(w)
    PROVE  SnapInv'
<1> DEFINE a == mem[w].astray \/ mem[w].list # op[w].known
           plan == op[w].plan
<1>1. /\ SnapTypes /\ made \in Nat /\ made \in 0 .. MaxSnapshots
      /\ mem \in [Windows -> WindowMem(made)] /\ op \in [Windows -> OpTypes(made)]
      /\ data \in SUBSET Records /\ list \in SnapLists(made) /\ op[w].stage = "saved"
  BY SnapshotAssumption DEF SnapInv, SnapTypes, OpTypes, ReplaceAnswered
<1>2. op[w] \in Replaces(made) BY <1>1, ReplacementIs
<1>3. op' = [op EXCEPT ![w].stage = "verify"] /\ UNCHANGED <<data, list, made, removed>>
  BY DEF ReplaceAnswered
<1>4. op' \in [Windows -> OpTypes(made)]
  <2> [op[w] EXCEPT !.stage = "verify"] \in OpTypes(made) BY <1>2 DEF Replaces, OpTypes
  <2> QED BY <1>1, <1>3
<1>5. ASSUME NEW v \in Windows PROVE Planned(op'[v]) /\ ReadIsFile(v)'
  <2>1. Planned(op[v]) /\ ReadIsFile(v) BY DEF SnapInv
  <2>2. CASE v = w
    <3> op'[w].stage = "verify" BY <1>1, <1>2, <1>3 DEF Replaces
    <3> QED BY <2>2 DEF Planned, ReadIsFile
  <2>3. CASE v # w BY <1>1, <1>3, <2>1, <2>3 DEF Planned, ReadIsFile
  <2> QED BY <2>2, <2>3
<1>6. CASE plan = <<>>
  <2>1. UNCHANGED <<mem, saves>> BY <1>6 DEF ReplaceAnswered
  <2>2. Quiet(w, mem[w].data) /\ mem[w].data \in SUBSET Records
    BY <1>1, <1>3, <2>1 DEF Quiet, WindowMem
  <2> QED BY <1>1, <1>3, <1>4, <1>5, <2>2, ReplacementMoves
<1>7. CASE plan # <<>>
  <2>1. /\ mem' = [mem EXCEPT ![w].list = plan, ![w].astray = a]
        /\ saves' = saves \cup {[Sending(w, plan) EXCEPT !.astray = a]}
    BY <1>7 DEF ReplaceAnswered
  <2>2. mem[w].data \in SUBSET Records /\ mem[w].astray \in BOOLEAN BY <1>1 DEF WindowMem
  <2>3. SendsMarked(w, mem[w].data, plan, made, a)
    <3> HIDE DEF a, plan
    <3> [mem EXCEPT ![w].list = plan, ![w].astray = a]
        = [mem EXCEPT ![w].data = mem[w].data, ![w].list = plan, ![w].astray = a]
      BY <1>1 DEF WindowMem
    <3> QED BY <1>3, <2>1 DEF SendsMarked
  <2>4. plan \in SnapLists(made) BY <1>2 DEF Replaces
  <2>5. \A s \in BeforeOps(ToSet(mem[w].list) \ ToSet(plan)) :
           a \/ s.id \in removed' \/ Crowd(mem[w].list, plan)
    <3> SUFFICES ASSUME NEW s \in BeforeOps(ToSet(mem[w].list) \ ToSet(plan)), ~a
                 PROVE  Crowd(mem[w].list, plan)
      OBVIOUS
    <3>1. mem[w].list = op[w].known OBVIOUS
    <3>2. Planned(op[w]) BY DEF SnapInv
    <3> QED BY <1>1, <1>7, <3>1, <3>2 DEF Planned
  <2>6. a \in BOOLEAN /\ (mem[w].astray => a) BY <2>2
  <2>7. made \in made .. MaxSnapshots /\ removed \subseteq removed'
    BY <1>1, <1>3, SnapshotAssumption
  <2> HIDE DEF a, plan
  <2>8. /\ made' \in 0 .. MaxSnapshots /\ made <= made'
        /\ mem' \in [Windows -> WindowMem(made')] /\ saves' \in SUBSET ListSaves(made')
        /\ \A v \in Windows : WindowExplained(v)'
        /\ \A s \in saves' : SaveExplained(s)'
    BY <2>2, <2>3, <2>4, <2>5, <2>6, <2>7, MarkedSendKeeps
  <2>9. SnapTypes' BY <1>1, <1>3, <1>4, <2>8 DEF SnapTypes, OpTypes
  <2>10. \A v \in Windows : Planned(op[v])' BY <1>5 DEF Planned
  <2> QED BY <1>5, <2>8, <2>9, <2>10 DEF SnapInv
<1> QED BY <1>6, <1>7
-----------------------------------------------------------------------------
(* The steps that answer a save or poll, for one window's list and base.   *)
LEMMA ListLandsKeeps ==
    ASSUME SnapInv, NEW s \in saves, ListLands(s)
    PROVE  SnapInv'
<1> DEFINE w == s.by
           merged == MergedList(s.base, s.list, list)
<1>1. /\ SnapTypes /\ made \in Nat /\ mem \in [Windows -> WindowMem(made)]
      /\ saves \in SUBSET ListSaves(made) /\ list \in SnapLists(made)
  BY SnapshotAssumption DEF SnapInv, SnapTypes
<1>2. s \in ListSaves(made) BY <1>1
<1>3. w \in Windows /\ s.list \in SnapLists(made) /\ s.base \in SnapLists(made)
  BY <1>2 DEF ListSaves
<1>4. /\ list' = merged
      /\ mem' = [mem EXCEPT ![w] = IF mem[w].list = s.list
                                   THEN [mem[w] EXCEPT !.list = merged, !.base = merged, !.astray = FALSE]
                                   ELSE [mem[w] EXCEPT !.base = s.list, !.astray = TRUE]]
      /\ saves' = saves \ {s} /\ UNCHANGED <<data, op, made, removed>>
  BY <1>1, <1>3 DEF ListLands
<1>5. merged \in SnapLists(made)
  <2>1. /\ s.base \in Seq(Snapshot) /\ s.list \in Seq(Snapshot) /\ list \in Seq(Snapshot)
        /\ NoRepeat(s.list) /\ NoRepeat(list)
        /\ \A t \in ToSet(s.list) \cup ToSet(list) : t.id <= made
    BY <1>1, <1>3 DEF SnapLists
  <2>2. /\ merged \in Seq(Snapshot) /\ NoRepeat(merged)
        /\ ToSet(merged) \subseteq ToSet(s.list) \cup ToSet(list)
    BY <2>1, MergedListIs
  <2> HIDE DEF merged
  <2> QED BY <2>1, <2>2 DEF SnapLists
<1> HIDE DEF merged
<1>6. /\ mem' \in [Windows -> WindowMem(made)]
      /\ \A v \in Windows \ {w} : mem'[v] = mem[v]
      /\ mem'[w].astray \/ mem'[w].base = mem'[w].list
  <2>1. /\ mem'[w] \in WindowMem(made)
        /\ mem'[w].astray \/ mem'[w].base = mem'[w].list
    <3>1. CASE mem[w].list = s.list
      <4> mem'[w] = [mem[w] EXCEPT !.list = merged, !.base = merged, !.astray = FALSE]
        BY <1>1, <1>3, <1>4, <3>1
      <4> QED BY <1>1, <1>3, <1>5 DEF WindowMem
    <3>2. CASE mem[w].list # s.list
      <4> mem'[w] = [mem[w] EXCEPT !.base = s.list, !.astray = TRUE] BY <1>1, <1>3, <1>4, <3>2
      <4> QED BY <1>1, <1>3 DEF WindowMem
    <3> QED BY <3>1, <3>2
  <2> HIDE DEF w
  <2> QED BY <1>1, <1>4, <2>1
<1> HIDE DEF w
<1>7. SnapTypes' BY <1>1, <1>4, <1>5, <1>6 DEF SnapTypes
<1>8. ASSUME NEW v \in Windows PROVE WindowExplained(v)'
  <2>1. CASE v = w BY <1>6, <2>1 DEF WindowExplained, Explained, BeforeOps
  <2>2. CASE v # w
    <3>1. WindowExplained(v) /\ mem'[v] = mem[v] BY <1>6, <2>2 DEF SnapInv
    <3>2. \A t \in saves : t.by = v => t \in saves' BY <1>4, <2>2 DEF w
    <3> QED BY <1>4, <3>1, <3>2 DEF WindowExplained, Explained
  <2> QED BY <2>1, <2>2
<1>9. \A t \in saves' : SaveExplained(t)' BY <1>4 DEF SnapInv, SaveExplained, Explained
<1>10. \A v \in Windows : Planned(op[v])' /\ ReadIsFile(v)'
  BY <1>4 DEF SnapInv, Planned, ReadIsFile
<1> QED BY <1>7, <1>8, <1>9, <1>10 DEF SnapInv

LEMMA ListFailsKeeps ==
    ASSUME SnapInv, NEW s \in saves, ListFails(s)
    PROVE  SnapInv'
<1> DEFINE w == s.by
           back == IF mem[w].list = s.list THEN s.before ELSE mem[w].list
<1>1. /\ SnapTypes /\ made \in 0 .. MaxSnapshots /\ made \in Nat
      /\ mem \in [Windows -> WindowMem(made)] /\ saves \in SUBSET ListSaves(made)
  BY SnapshotAssumption DEF SnapInv, SnapTypes
<1>2. w \in Windows /\ s.before \in SnapLists(made)
  <2> s \in ListSaves(made) BY <1>1
  <2> QED BY DEF ListSaves
<1>3. back \in SnapLists(made) BY <1>1, <1>2 DEF WindowMem
<1>4. /\ mem' = [mem EXCEPT ![w].list = back, ![w].astray = TRUE]
      /\ saves' = saves \ {s} /\ UNCHANGED <<data, list, op, made, removed>>
  BY <1>1, <1>2 DEF ListFails, WindowMem
<1> HIDE DEF back
<1>5. /\ mem' \in [Windows -> WindowMem(made)] /\ mem'[w].astray
      /\ \A v \in Windows \ {w} : mem'[v] = mem[v]
  <2> HIDE DEF w
  <2> QED BY <1>1, <1>2, <1>3, <1>4 DEF WindowMem
<1>6. ASSUME NEW v \in Windows PROVE WindowExplained(v)'
  <2>1. CASE v = w BY <1>5, <2>1 DEF WindowExplained
  <2>2. CASE v # w
    <3>1. WindowExplained(v) /\ mem'[v] = mem[v] BY <1>5, <2>2 DEF SnapInv
    <3>2. \A t \in saves : t.by = v => t \in saves' BY <1>4, <2>2
    <3> QED BY <1>4, <3>1, <3>2 DEF WindowExplained, Explained
  <2> QED BY <2>1, <2>2
<1>7. \A t \in saves' : SaveExplained(t)' BY <1>4 DEF SnapInv, SaveExplained, Explained
<1>8. saves' \in SUBSET ListSaves(made') /\ made' = made BY <1>1, <1>4
<1> QED BY <1>1, <1>4, <1>5, <1>6, <1>7, <1>8, FileUntouched

LEMMA PollRecordsKeeps ==
    ASSUME SnapInv, NEW w \in Windows, PollRecords(w)
    PROVE  SnapInv'
<1>1. Quiet(w, data) /\ UNCHANGED <<data, list, op, removed>> BY DEF PollRecords, Quiet
<1>2. data \in SUBSET Records BY DEF SnapInv, SnapTypes
<1> QED BY <1>1, <1>2, CopiesKeep, FileUntouched DEF Copies

LEMMA PollListKeeps ==
    ASSUME SnapInv, NEW w \in Windows, PollList(w)
    PROVE  SnapInv'
<1> DEFINE a == \E s \in saves : s.by = w
<1>1. /\ SnapTypes /\ made \in 0 .. MaxSnapshots /\ made \in Nat /\ list \in SnapLists(made)
      /\ mem \in [Windows -> WindowMem(made)] /\ saves \in SUBSET ListSaves(made)
  BY SnapshotAssumption DEF SnapInv, SnapTypes
<1>2. /\ mem' = [mem EXCEPT ![w].list = list, ![w].base = list, ![w].astray = a]
      /\ UNCHANGED <<data, list, op, saves, made, removed>>
  BY DEF PollList
<1>3. a \in BOOLEAN OBVIOUS
<1> HIDE DEF a
<1>4. /\ mem' \in [Windows -> WindowMem(made)] /\ mem'[w].list = list /\ mem'[w].base = list
      /\ \A v \in Windows \ {w} : mem'[v] = mem[v]
  BY <1>1, <1>2, <1>3 DEF WindowMem
<1>5. ASSUME NEW v \in Windows PROVE WindowExplained(v)'
  <2>1. CASE v = w BY <1>4, <2>1 DEF WindowExplained, Explained, BeforeOps
  <2>2. CASE v # w
    <3> WindowExplained(v) /\ mem'[v] = mem[v] BY <1>4, <2>2 DEF SnapInv
    <3> QED BY <1>2 DEF WindowExplained, Explained
  <2> QED BY <2>1, <2>2
<1>6. \A t \in saves' : SaveExplained(t)' BY <1>2 DEF SnapInv, SaveExplained, Explained
<1> QED BY <1>1, <1>2, <1>4, <1>5, <1>6, FileUntouched

(* Every step keeps the invariant: one lemma for each action.              *)
LEMMA SnapStep == SnapInv /\ [Next]_vars => SnapInv'
<1> SUFFICES ASSUME SnapInv, [Next]_vars PROVE SnapInv' OBVIOUS
<1>1. ASSUME UNCHANGED <<data, list, mem, op, saves, made, removed>> PROVE SnapInv'
  <2>1. SnapTypes' BY <1>1 DEF SnapInv, SnapTypes
  <2>2. ASSUME NEW w \in Windows PROVE Planned(op[w])' /\ ReadIsFile(w)' /\ WindowExplained(w)'
    BY <1>1 DEF SnapInv, Planned, ReadIsFile, WindowExplained, Explained
  <2>3. \A s \in saves' : SaveExplained(s)' BY <1>1 DEF SnapInv, SaveExplained, Explained
  <2> QED BY <2>1, <2>2, <2>3 DEF SnapInv
<1>2. ASSUME NEW w \in Windows, NEW r \in Records, AddRecord(w, r) \/ RemoveRecord(w, r) PROVE SnapInv'
  BY <1>2, AddRecordKeeps, RemoveRecordKeeps
<1>3. ASSUME NEW w \in Windows, TakeSnapshot(w) PROVE SnapInv' BY <1>3, TakeSnapshotKeeps
<1>4. ASSUME NEW w \in Windows, NEW s \in ToSet(mem[w].list), DeleteSnapshot(w, s) PROVE SnapInv'
  BY <1>4, DeleteSnapshotKeeps
<1>5. ASSUME NEW w \in Windows, NEW next \in SUBSET Records, AskReplace(w, next) PROVE SnapInv'
  BY <1>5, AskReplaceKeeps
<1>6. ASSUME NEW w \in Windows,
             \/ SendReplace(w) \/ ReplaceLands(w) \/ ReplaceFails(w)
             \/ ReplaceAnswered(w) \/ ReplaceVerified(w)
      PROVE  SnapInv'
  BY <1>6, SendReplaceKeeps, ReplaceLandsKeeps, ReplaceFailsKeeps, ReplaceAnsweredKeeps,
     ReplaceVerifiedKeeps
<1>7. ASSUME NEW w \in Windows, PollRecords(w) \/ PollList(w) PROVE SnapInv'
  BY <1>7, PollRecordsKeeps, PollListKeeps
<1>8. ASSUME NEW s \in saves, ListLands(s) \/ ListFails(s) PROVE SnapInv'
  BY <1>8, ListLandsKeeps, ListFailsKeeps
<1>9. CASE IntervalEnds BY <1>1, <1>9 DEF IntervalEnds
<1>10. CASE UNCHANGED vars BY <1>1, <1>10 DEF vars
<1> QED BY <1>2, <1>3, <1>4, <1>5, <1>6, <1>7, <1>8, <1>9, <1>10 DEF Next

LEMMA SnapAlways == Spec => []SnapInv
BY SnapInitial, SnapStep, PTL DEF Spec

(* Only a replacement that lands and a list save that lands write the list *)
(* of the file, and only the former saves a replacement.                   *)
LEMMA WhoWritesTheList ==
    ASSUME SnapInv, [Next]_vars
    PROVE  \/ \E w \in Windows : ReplaceLands(w)
           \/ \E s \in saves : ListLands(s)
           \/ list' = list
<1>1. CASE \E w \in Windows : \E r \in Records : AddRecord(w, r) \/ RemoveRecord(w, r)
  BY <1>1 DEF AddRecord, RemoveRecord
<1>2. CASE \E w \in Windows : TakeSnapshot(w) \/ PollRecords(w) \/ PollList(w)
  BY <1>2 DEF TakeSnapshot, PollRecords, PollList
<1>3. CASE \E w \in Windows : \E s \in ToSet(mem[w].list) : DeleteSnapshot(w, s)
  BY <1>3 DEF DeleteSnapshot
<1>4. CASE \E w \in Windows : \E next \in SUBSET Records : AskReplace(w, next)
  BY <1>4 DEF AskReplace
<1>5. CASE \E w \in Windows : SendReplace(w) \/ ReplaceFails(w) \/ ReplaceAnswered(w) \/ ReplaceVerified(w)
  BY <1>5 DEF SendReplace, ReplaceFails, ReplaceAnswered, ReplaceVerified
<1>6. CASE \E s \in saves : ListFails(s) BY <1>6 DEF ListFails
<1>7. CASE IntervalEnds \/ UNCHANGED vars BY <1>7 DEF IntervalEnds, vars
<1> QED BY <1>1, <1>2, <1>3, <1>4, <1>5, <1>6, <1>7 DEF Next

LEMMA WhoSavesReplacements ==
    ASSUME SnapInv, [Next]_vars, NEW w \in Windows, op[w].stage = "sent", op'[w].stage = "saved"
    PROVE  ReplaceLands(w)
<1>1. op \in [Windows -> OpTypes(made)] BY DEF SnapInv, SnapTypes, OpTypes
<1>2. ASSUME NEW v \in Windows, op' = Overtaken(v) PROVE FALSE
  BY <1>2, OvertakenIs
<1>3. CASE \E v \in Windows : \E r \in Records : AddRecord(v, r) \/ RemoveRecord(v, r)
  BY <1>2, <1>3 DEF AddRecord, RemoveRecord
<1>4. CASE UNCHANGED op BY <1>4
<1>5. ASSUME NEW v \in Windows, NEW o, op' = [op EXCEPT ![v] = o], o.stage # "saved" PROVE FALSE
  BY <1>1, <1>5
<1>6. CASE \E v \in Windows : \E next \in SUBSET Records : AskReplace(v, next)
  <2> PICK v \in Windows, next \in SUBSET Records : AskReplace(v, next) BY <1>6
  <2> DEFINE o == [stage |-> "read", next |-> next]
  <2> op' = [op EXCEPT ![v] = o] /\ o.stage # "saved" BY DEF AskReplace
  <2> HIDE DEF o
  <2> QED BY <1>5
<1>7. CASE \E v \in Windows : SendReplace(v)
  <2> PICK v \in Windows : SendReplace(v) BY <1>7
  <2> QED BY <1>1 DEF SendReplace
<1>8. CASE \E v \in Windows : ReplaceFails(v) \/ ReplaceVerified(v)
  BY <1>5, <1>8 DEF ReplaceFails, ReplaceVerified, NoOp
<1>9. CASE \E v \in Windows : ReplaceAnswered(v)
  <2> PICK v \in Windows : ReplaceAnswered(v) BY <1>9
  <2> op[v].stage = "saved" /\ op' = [op EXCEPT ![v].stage = "verify"] BY DEF ReplaceAnswered
  <2> QED BY <1>1
<1>10. ASSUME NEW v \in Windows, ReplaceLands(v) PROVE v = w
  <2> SUFFICES ASSUME v # w PROVE FALSE OBVIOUS
  <2>1. op' = [Overtaken(v) EXCEPT ![v].stage = "saved"] BY <1>10 DEF ReplaceLands
  <2>2. Overtaken(v) \in [Windows -> OpTypes(made)] /\ Overtaken(v)[w].stage = op[w].stage
    BY OvertakenIs
  <2>3. op'[w] = Overtaken(v)[w] BY <2>1, <2>2
  <2> QED BY <2>2, <2>3
<1>11. CASE \/ \E v \in Windows : TakeSnapshot(v) \/ PollRecords(v) \/ PollList(v)
                                  \/ \E s \in ToSet(mem[v].list) : DeleteSnapshot(v, s)
            \/ \E s \in saves : ListLands(s) \/ ListFails(s)
            \/ IntervalEnds \/ UNCHANGED vars
  BY <1>4, <1>11 DEF TakeSnapshot, PollRecords, PollList, DeleteSnapshot, ListLands, ListFails,
     IntervalEnds, vars
<1> QED BY <1>3, <1>6, <1>7, <1>8, <1>9, <1>10, <1>11 DEF Next

(* LossIsCovered: replacing or deleting everything (replaceAllDataChecked) *)
(* leaves beside the new records a safety copy of exactly the ones it took *)
(* away.                                                                   *)
THEOREM LossCovered == Spec => LossIsCovered
<1> DEFINE Covered ==
        \A w \in Windows :
            op[w].stage = "sent" /\ op'[w].stage = "saved" /\ data # {} /\ ~op[w].overtaken
                => \E s \in ToSet(list') : s.kind = "before-op" /\ s.data = data
<1>1. ASSUME SnapInv, [Next]_vars, NEW w \in Windows,
             op[w].stage = "sent", op'[w].stage = "saved", data # {}, ~op[w].overtaken
      PROVE  \E s \in ToSet(list') : s.kind = "before-op" /\ s.data = data
  <2>1. ReplaceLands(w) BY <1>1, WhoSavesReplacements
  <2>2. Planned(op[w]) /\ ReadIsFile(w) BY <1>1 DEF SnapInv
  <2>3. op[w].before = data BY <1>1, <2>2 DEF ReadIsFile
  <2>4. op[w].plan # <<>> /\ list' = op[w].plan BY <1>1, <2>1, <2>2, <2>3 DEF Planned, ReplaceLands
  <2> QED BY <1>1, <2>2, <2>3, <2>4 DEF Planned
<1>2. SnapInv /\ [Next]_vars => [Covered]_vars BY <1>1
<1>3. Spec => [][Covered]_vars BY <1>2, SnapAlways, PTL DEF Spec
<1> QED BY <1>3 DEF LossIsCovered

(* BeforeOpKept: a copy made before an operation leaves the file only for  *)
(* the reasons named, and never for an automatic or a manual one (listWith *)
(* and the merging save of the list).                                      *)
THEOREM BeforeOpsStay == Spec => BeforeOpKept
<1> DEFINE Kept ==
        \A s \in BeforeOps(ToSet(list) \ ToSet(list')) :
            \/ s.id \in removed
            \/ \E save \in saves \ saves' : save.crowded \/ save.astray
            \/ \E w \in Windows : /\ op[w].stage = "sent" /\ op'[w].stage = "saved"
                                  /\ \/ s \notin ToSet(op[w].known)
                                     \/ Cardinality(BeforeOps(ToSet(op[w].known))) >= Retention
<1>1. ASSUME SnapInv, [Next]_vars, NEW s \in BeforeOps(ToSet(list) \ ToSet(list'))
      PROVE  \/ s.id \in removed
             \/ \E save \in saves \ saves' : save.crowded \/ save.astray
             \/ \E w \in Windows : /\ op[w].stage = "sent" /\ op'[w].stage = "saved"
                                   /\ \/ s \notin ToSet(op[w].known)
                                      \/ Cardinality(BeforeOps(ToSet(op[w].known))) >= Retention
  <2>1. s \in ToSet(list) /\ s \notin ToSet(list') /\ s.kind = "before-op" BY DEF BeforeOps
  <2>2. CASE \E w \in Windows : ReplaceLands(w)
    <3> PICK w \in Windows : ReplaceLands(w) BY <2>2
    <3>1. op[w].stage = "sent" BY DEF ReplaceLands
    <3>2. op'[w].stage = "saved"
      <4>1. op' = [Overtaken(w) EXCEPT ![w].stage = "saved"] BY DEF ReplaceLands
      <4>2. Overtaken(w) \in [Windows -> OpTypes(made)] /\ Overtaken(w)[w] = op[w]
        BY <1>1, OvertakenIs
      <4>3. op[w] \in Replaces(made) BY <1>1, <3>1, ReplacementIs DEF SnapInv
      <4>4. op'[w] = [op[w] EXCEPT !.stage = "saved"] BY <4>1, <4>2
      <4> QED BY <4>3, <4>4 DEF Replaces
    <3>3. op[w].plan # <<>> /\ list' = op[w].plan BY <2>1 DEF ReplaceLands
    <3>4. Planned(op[w]) BY <1>1 DEF SnapInv
    <3>5. s \in ToSet(op[w].known) => Cardinality(BeforeOps(ToSet(op[w].known))) >= Retention
      <4> SUFFICES ASSUME s \in ToSet(op[w].known)
                   PROVE  Cardinality(BeforeOps(ToSet(op[w].known))) >= Retention
        OBVIOUS
      <4> s \in BeforeOps(ToSet(op[w].known) \ ToSet(op[w].plan)) BY <2>1, <3>3 DEF BeforeOps
      <4> QED BY <3>1, <3>3, <3>4 DEF Planned
    <3> QED BY <3>1, <3>2, <3>5
  <2>3. CASE \E save \in saves : ListLands(save)
    <3> PICK save \in saves : ListLands(save) BY <2>3
    <3>1. save \in ListSaves(made) /\ list \in SnapLists(made) BY <1>1 DEF SnapInv, SnapTypes
    <3>2. save.base \in Seq(Snapshot) /\ save.list \in Seq(Snapshot) /\ list \in Seq(Snapshot)
      BY <3>1 DEF ListSaves, SnapLists
    <3>3. list' = MergedList(save.base, save.list, list) /\ saves' = saves \ {save} BY DEF ListLands
    <3>4. ToSet(list') = (ToSet(save.list) \ (ToSet(save.base) \ ToSet(list)))
                         \cup (ToSet(list) \ (ToSet(save.base) \cup ToSet(save.list)))
      BY <3>2, <3>3, MergedListIs
    <3>5. s \in BeforeOps(ToSet(save.base) \ ToSet(save.list)) BY <2>1, <3>4 DEF BeforeOps
    <3>6. SaveExplained(save) BY <1>1 DEF SnapInv
    <3> QED BY <3>3, <3>5, <3>6 DEF SaveExplained, Explained
  <2>4. CASE list' = list BY <2>1, <2>4
  <2> QED BY <1>1, <2>2, <2>3, <2>4, WhoWritesTheList
<1>2. SnapInv /\ [Next]_vars => [Kept]_vars BY <1>1
<1>3. Spec => [][Kept]_vars BY <1>2, SnapAlways, PTL DEF Spec
<1> QED BY <1>3 DEF BeforeOpKept
=============================================================================
