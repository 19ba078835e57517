---------------------------- MODULE TimerProofs ----------------------------
(***************************************************************************)
(* The learning timer, for any number of windows, sessions, minutes and    *)
(* saves in flight: its five properties, and its type.                     *)
(*                                                                         *)
(* What carries them is that a window which is not behind has the file's   *)
(* session as the base of its undo, and that at most one save of a session *)
(* is under way.  An act that breaks the second (one of a window that has  *)
(* not seen the last change, or a second save) makes every session at hand *)
(* a crossed one, of which nothing is promised: `OneInFlight` says that    *)
(* one or the other is the case.                                           *)
(***************************************************************************)
EXTENDS Timer, TLAPS, FiniteSetTheorems

Flying(w) == {saves[w][i] : i \in 1..Len(saves[w])}

(* A save as it was, or with some of its flags dropped.                    *)
Like(a, b) ==
    /\ a.timer = b.timer /\ a.before = b.before
    /\ a.entry = b.entry /\ a.sent = b.sent
    /\ a.mine => b.mine

(* There is nothing left to promise of t.                                  *)
Lapsed(t) == t = None \/ t.id \in crossed

-----------------------------------------------------------------------------
(* The operators of the model.                                             *)

LEMMA NoneIsASession ==
    None \in Sessions /\ None.id = 0 /\ ~None.limit /\ None.banked = Unset /\ Unset \notin Nat
<1>1. 0 \in Ids
  BY TimerAssumption DEF Ids
<1>2. QED
  BY <1>1 DEF None, Sessions, Moments, Unset

LEMMA SessionIsTyped ==
    ASSUME NEW t \in Sessions
    PROVE  /\ t.id \in Ids /\ t.id \in Nat /\ t.start \in Nat /\ t.limit \in BOOLEAN
           /\ t.banked = Unset \/ t.banked \in Nat
           /\ t.paused = Unset \/ t.paused \in Nat
           /\ t.paused # Unset => t.banked # Unset
  BY TimerAssumption DEF Sessions, Moments, Ids

LEMMA ElapsedIsTime ==
    ASSUME clock \in Nat, NEW t \in Sessions
    PROVE  Elapsed(t) \in Nat /\ Banked(t) \in Nat
<1>1. t.start \in Nat /\ (t.banked = Unset \/ t.banked \in Nat)
  BY SessionIsTyped
<1>2. Banked(t) \in Nat
  BY <1>1 DEF Banked
<1>3. Max0(clock - t.start) \in Nat
  BY <1>1 DEF Max0
<1>4. QED
  BY <1>2, <1>3 DEF Elapsed

LEMMA MinutesAreTime ==
    ASSUME clock \in Nat, NEW t \in Sessions
    PROVE  Minutes(t) \in Nat \ {0}
  BY ElapsedIsTime, TimerAssumption DEF Minutes

LEMMA AtHandIs ==
    ASSUME TypeOK, NEW t
    PROVE  t \in AtHand <=>
              \/ t = file.timer
              \/ \E v \in Windows : t = win[v].timer
              \/ \E v \in Windows : \E s \in Flying(v) : t = s.timer \/ t = s.before
<1>1. ASSUME NEW v \in Windows PROVE {saves[v][i] : i \in DOMAIN saves[v]} = Flying(v)
  <2>1. saves[v] \in Seq(Saves)
    BY DEF TypeOK
  <2>2. DOMAIN saves[v] = 1..Len(saves[v])
    BY <2>1
  <2>3. QED
    BY <2>2 DEF Flying
<1>2. UNION {{saves[v][i] : i \in DOMAIN saves[v]} : v \in Windows} = UNION {Flying(v) : v \in Windows}
  BY <1>1
<1>3. QED
  BY <1>2 DEF AtHand

LEMMA TypeParts ==
    ASSUME TypeOK, NEW w \in Windows
    PROVE  /\ win[w] \in Views /\ saves[w] \in Seq(Saves)
           /\ file.timer \in Sessions /\ file.entries \subseteq Entries
           /\ win[w].timer \in Sessions /\ win[w].base \in Sessions
           /\ win[w].entries \subseteq Entries
           /\ Flying(w) \subseteq Saves
           /\ \A s \in Flying(w) : /\ s.timer \in Sessions /\ s.before \in Sessions
                                   /\ s.sent \subseteq Entries
<1>1. win[w] \in Views /\ saves[w] \in Seq(Saves) /\ file \in Stores
  BY DEF TypeOK
<1>2. Flying(w) \subseteq Saves
  BY <1>1 DEF Flying
<1>3. QED
  BY <1>1, <1>2 DEF Views, Saves, Stores

-----------------------------------------------------------------------------
(* What the acts of a window have in common, and the four kinds of them.   *)
(* `queue` is what was in flight, as the act leaves it.                    *)

Faded(queue, old) ==
    /\ queue \in Seq(Saves) /\ Len(queue) = Len(old)
    /\ \A i \in 1..Len(old) : Like(queue[i], old[i])

Crosses(w, s) ==
    /\ Behind(w) => /\ \A t \in AtHand : t.id \in crossed'
                    /\ s.timer = None \/ s.timer.id \in crossed'
    /\ ~Behind(w) => crossed' = crossed
    /\ crossed \subseteq crossed' /\ crossed' \subseteq Ids

Acted(w, v, s, queue) ==
    /\ win' = [win EXCEPT ![w] = v]
    /\ saves' = [saves EXCEPT ![w] = Append(queue, s)]
    /\ Faded(queue, saves[w])
    /\ v \in Views /\ s \in Saves
    /\ v.timer = s.timer /\ v.base = win[w].base /\ v.behind = win[w].behind
    /\ s.written /\ s.mine
    /\ acts < MaxActs /\ acts' = acts + 1 /\ UNCHANGED <<clock, file>>
    /\ Crosses(w, s)

PutOnly(w, v, s) ==
    /\ s.entry = {} /\ s.sent = {} /\ s.before = None
    /\ v.entries = win[w].entries
    /\ UNCHANGED <<watched, stopped>>

Begins(w, v, s) ==
    /\ PutOnly(w, v, s)
    /\ s.timer.id = acts + 1 /\ s.timer.banked = Unset
    /\ \A t \in AtHand \ {None} : t.start # s.timer.start
    /\ ~v.saw
Changes(w, v, s) == LET t == win[w].timer IN
    /\ PutOnly(w, v, s)
    /\ t # None /\ s.timer.id = t.id
    /\ s.timer.limit => t.limit
    /\ Elapsed(s.timer) = Elapsed(t)
    /\ s.timer.banked = Unset => t.banked = Unset /\ s.timer.start = t.start
    /\ v.saw = win[w].saw /\ v.tried = win[w].tried
Cancels(w, v, s) ==
    /\ PutOnly(w, v, s)
    /\ s.timer = None
    /\ ~v.saw
Ends(w, v, s) == LET t == win[w].timer IN
    /\ t # None /\ s.timer = None /\ s.before = t
    /\ \E e \in Entries : /\ e.session = t.id /\ s.entry = {e}
                          /\ s.sent = win[w].entries \cup {e} /\ v.entries = s.sent
    /\ v.saw = win[w].saw /\ (win[w].tried => v.tried)
    /\ UNCHANGED watched
    /\ \/ UNCHANGED stopped
       \/ stopped' = [stopped EXCEPT ![w] = @ \cup {t.id}] /\ v.tried /\ OverLimit(t)

Does(w, v, s) == Begins(w, v, s) \/ Changes(w, v, s) \/ Cancels(w, v, s) \/ Ends(w, v, s)

LEMMA OtherObjectFades ==
    ASSUME NEW q \in Seq(Saves)
    PROVE  Faded(OtherObject(q), q) /\ Faded(OtherObject(OtherGeneration(q)), q)
           /\ Faded(OtherGeneration(OtherObject(q)), q) /\ Faded(OtherGeneration(q), q)
           /\ Faded(q, q)
<1>1. ASSUME NEW r \in Seq(Saves)
      PROVE  Faded(OtherObject(r), r) /\ Faded(OtherGeneration(r), r) /\ Faded(r, r)
  <2>1. DOMAIN r = 1..Len(r) /\ \A i \in 1..Len(r) : r[i] \in Saves
    OBVIOUS
  <2>2. \A i \in 1..Len(r) : /\ [r[i] EXCEPT !.written = FALSE] \in Saves
                             /\ [r[i] EXCEPT !.mine = FALSE] \in Saves
                             /\ Like([r[i] EXCEPT !.written = FALSE], r[i])
                             /\ Like([r[i] EXCEPT !.mine = FALSE], r[i])
    BY <2>1 DEF Saves, Like
  <2>3. OtherObject(r) \in Seq(Saves) /\ Len(OtherObject(r)) = Len(r)
        /\ OtherGeneration(r) \in Seq(Saves) /\ Len(OtherGeneration(r)) = Len(r)
    <3>1. ASSUME NEW f \in [1..Len(r) -> Saves] PROVE f \in Seq(Saves) /\ Len(f) = Len(r)
      OBVIOUS
    <3>2. OtherObject(r) \in [1..Len(r) -> Saves] /\ OtherGeneration(r) \in [1..Len(r) -> Saves]
      BY <2>1, <2>2 DEF OtherObject, OtherGeneration
    <3>3. QED
      BY <3>1, <3>2
  <2>4. \A i \in 1..Len(r) : Like(r[i], r[i])
    BY DEF Like
  <2>5. QED
    BY <2>1, <2>2, <2>3, <2>4 DEF Faded, OtherObject, OtherGeneration
<1>2. ASSUME NEW r \in Seq(Saves), NEW p \in Seq(Saves), Faded(r, q), Faded(p, r)
      PROVE  Faded(p, q)
  BY <1>2 DEF Faded, Like
<1>3. OtherObject(q) \in Seq(Saves) /\ OtherGeneration(q) \in Seq(Saves)
  BY <1>1 DEF Faded
<1>4. OtherObject(OtherGeneration(q)) \in Seq(Saves) /\ OtherGeneration(OtherObject(q)) \in Seq(Saves)
  BY <1>1, <1>3 DEF Faded
<1>5. QED
  BY <1>1, <1>2, <1>3, <1>4

LEMMA AtHandTyped ==
    ASSUME TypeOK
    PROVE  \A t \in AtHand : t \in Sessions /\ t.id \in Ids
<1> SUFFICES ASSUME NEW t \in AtHand PROVE t \in Sessions
  BY SessionIsTyped
<1>1. CASE t = file.timer
  BY <1>1 DEF TypeOK, Stores
<1>2. CASE \E v \in Windows : t = win[v].timer
  BY <1>2, TypeParts
<1>3. CASE \E v \in Windows : \E s \in Flying(v) : t = s.timer \/ t = s.before
  BY <1>3, TypeParts
<1>4. QED
  BY <1>1, <1>2, <1>3, AtHandIs

LEMMA CrossingCrosses ==
    ASSUME TypeOK, NEW w \in Windows, NEW id \in Ids, Crossing(w, id),
           NEW s, s.timer = None \/ s.timer.id = id
    PROVE  Crosses(w, s)
<1>1. \A t \in AtHand : t.id \in Ids
  BY AtHandTyped
<1>2. crossed \subseteq Ids
  BY DEF TypeOK
<1>3. QED
  BY <1>1, <1>2 DEF Crossing, Crosses

PutSave(next) ==
    [timer |-> next, before |-> None, entry |-> {}, sent |-> {}, minutes |-> 0,
     written |-> TRUE, mine |-> TRUE]

LEMMA PutIsActed ==
    ASSUME TypeOK, NEW w \in Windows, NEW next \in Sessions, NEW v \in Views, NEW queue,
           v.base = win[w].base, v.behind = win[w].behind,
           Faded(OtherObject(queue), saves[w]), May(w), Acts, Put(w, next, v, queue),
           NEW id \in Ids, Crossing(w, id), next = None \/ next.id = id
    PROVE  LET u == [v EXCEPT !.timer = next] IN
           /\ Acted(w, u, PutSave(next), OtherObject(queue))
           /\ PutSave(next).timer = next
           /\ u.timer = next /\ u.entries = v.entries /\ u.saw = v.saw /\ u.tried = v.tried
<1> DEFINE u == [v EXCEPT !.timer = next]
<1>1. u \in Views /\ u.timer = next /\ u.base = v.base /\ u.behind = v.behind
      /\ u.entries = v.entries /\ u.saw = v.saw /\ u.tried = v.tried
  BY DEF Views
<1>2. PutSave(next) \in Saves /\ PutSave(next).timer = next
      /\ PutSave(next).written /\ PutSave(next).mine
  BY NoneIsASession DEF Saves, PutSave
<1>3. Crosses(w, PutSave(next))
  BY <1>2, CrossingCrosses
<1>4. /\ win' = [win EXCEPT ![w] = u]
      /\ saves' = [saves EXCEPT ![w] = Append(OtherObject(queue), PutSave(next))]
  BY DEF Put, PutSave
<1> HIDE DEF u
<1>5. Acted(w, u, PutSave(next), OtherObject(queue))
  BY <1>1, <1>2, <1>3, <1>4 DEF Acted, May, Acts
<1>6. QED
  BY <1>1, <1>2, <1>5 DEF u

LEMMA NextGenerationKeeps ==
    ASSUME NEW v \in Views
    PROVE  LET n == NextGeneration(v) IN
           /\ n \in Views /\ n.timer = v.timer /\ n.base = v.base /\ n.behind = v.behind
           /\ n.entries = v.entries /\ ~n.saw /\ ~n.tried
<1>1. 0 \in 0..MaxMinutes
  BY TimerAssumption
<1>2. QED
  BY <1>1 DEF NextGeneration, Views

LEMMA StartActs ==
    ASSUME TypeOK, NEW w \in Windows, Start(w)
    PROVE  \E v, s, queue : Acted(w, v, s, queue) /\ Begins(w, v, s)
<1>1. PICK limit \in BOOLEAN :
        Put(w, [id |-> acts + 1, start |-> clock, banked |-> Unset, paused |-> Unset,
                limit |-> limit], NextGeneration(win[w]), OtherGeneration(saves[w]))
  BY DEF Start
<1> DEFINE next == [id |-> acts + 1, start |-> clock, banked |-> Unset, paused |-> Unset,
                    limit |-> limit]
           n == NextGeneration(win[w])
<1>2. acts + 1 \in Ids /\ clock \in Nat
  BY TimerAssumption DEF Start, May, TypeOK, Ids
<1>3. next \in Sessions /\ next.id = acts + 1 /\ next.banked = Unset /\ next.start = clock
  BY <1>2 DEF Sessions, Moments
<1>4. win[w] \in Views /\ saves[w] \in Seq(Saves)
  BY TypeParts
<1>5. /\ n \in Views /\ n.base = win[w].base /\ n.behind = win[w].behind
      /\ n.entries = win[w].entries /\ ~n.saw
  BY <1>4, NextGenerationKeeps
<1>6. Faded(OtherObject(OtherGeneration(saves[w])), saves[w])
  BY <1>4, OtherObjectFades
<1>7. /\ May(w) /\ Acts /\ Crossing(w, acts + 1) /\ UNCHANGED <<watched, stopped>>
      /\ \A t \in AtHand \ {None} : t.start # clock
  BY DEF Start
<1> HIDE DEF next, n
<1>8. LET u == [n EXCEPT !.timer = next] IN
      /\ Acted(w, u, PutSave(next), OtherObject(OtherGeneration(saves[w])))
      /\ PutSave(next).timer = next
      /\ u.entries = n.entries /\ u.saw = n.saw
  <2>1. Put(w, next, n, OtherGeneration(saves[w]))
    BY <1>1 DEF next, n
  <2>2. QED
    BY <1>2, <1>3, <1>5, <1>6, <1>7, <2>1, PutIsActed
<1>9. Begins(w, [n EXCEPT !.timer = next], PutSave(next))
  <2>1. PutOnly(w, [n EXCEPT !.timer = next], PutSave(next))
    BY <1>5, <1>7, <1>8 DEF PutOnly, PutSave
  <2>2. QED
    BY <1>3, <1>5, <1>7, <1>8, <2>1 DEF Begins
<1>10. QED
  BY <1>8, <1>9

LEMMA ChangeActs ==
    ASSUME TypeOK, NEW w \in Windows, NEW next \in Sessions, Change(w, next),
           win[w].timer # None, next.id = win[w].timer.id,
           next.limit => win[w].timer.limit,
           Elapsed(next) = Elapsed(win[w].timer),
           next.banked = Unset => win[w].timer.banked = Unset /\ next.start = win[w].timer.start
    PROVE  \E v, s, queue : Acted(w, v, s, queue) /\ Changes(w, v, s)
<1> DEFINE n == win[w]
<1>1. n \in Views /\ saves[w] \in Seq(Saves) /\ n.timer \in Sessions
  BY TypeParts
<1>2. Faded(OtherObject(saves[w]), saves[w])
  BY <1>1, OtherObjectFades
<1>3. May(w) /\ Acts /\ Put(w, next, n, saves[w]) /\ Crossing(w, n.timer.id)
      /\ UNCHANGED <<watched, stopped>>
  BY DEF Change
<1>4. n.timer.id \in Ids
  BY <1>1, SessionIsTyped
<1>5. LET u == [n EXCEPT !.timer = next] IN
      /\ Acted(w, u, PutSave(next), OtherObject(saves[w]))
      /\ PutSave(next).timer = next
      /\ u.entries = n.entries /\ u.saw = n.saw /\ u.tried = n.tried
  BY <1>1, <1>2, <1>3, <1>4, PutIsActed
<1>6. PutOnly(w, [n EXCEPT !.timer = next], PutSave(next))
  BY <1>3, <1>5 DEF PutOnly, PutSave
<1>7. Changes(w, [n EXCEPT !.timer = next], PutSave(next))
  BY <1>5, <1>6 DEF Changes
<1>8. QED
  BY <1>5, <1>7

LEMMA PauseActs ==
    ASSUME TypeOK, NEW w \in Windows, Pause(w)
    PROVE  \E v, s, queue : Acted(w, v, s, queue) /\ Changes(w, v, s)
<1> DEFINE t == win[w].timer
           next == [t EXCEPT !.banked = Elapsed(t), !.paused = clock]
<1>1. t \in Sessions /\ clock \in Nat
  BY TypeParts DEF TypeOK
<1>2. Elapsed(t) \in Nat
  BY <1>1, ElapsedIsTime
<1>3. next \in Sessions /\ next.id = t.id /\ next.limit = t.limit
      /\ next.banked = Elapsed(t) /\ next.paused = clock
  BY <1>1, <1>2, NoneIsASession DEF Sessions, Moments
<1>4. t # None /\ Change(w, next)
  BY DEF Pause
<1> HIDE DEF next
<1>5. Elapsed(next) = Elapsed(t) /\ next.banked # Unset
  BY <1>1, <1>2, <1>3, NoneIsASession DEF Elapsed, Banked
<1>6. QED
  BY <1>3, <1>4, <1>5, ChangeActs

LEMMA ResumeActs ==
    ASSUME TypeOK, NEW w \in Windows, Resume(w)
    PROVE  \E v, s, queue : Acted(w, v, s, queue) /\ Changes(w, v, s)
<1> DEFINE t == win[w].timer
           next == [t EXCEPT !.start = clock, !.paused = Unset]
<1>1. t \in Sessions /\ clock \in Nat
  BY TypeParts DEF TypeOK
<1>2. t # None /\ t.paused # Unset /\ Change(w, next)
  BY DEF Resume
<1>3. t.banked \in Nat
  BY <1>1, <1>2, SessionIsTyped
<1>4. next \in Sessions /\ next.id = t.id /\ next.limit = t.limit
      /\ next.banked = t.banked /\ next.start = clock /\ next.paused = Unset
  BY <1>1, <1>3, NoneIsASession DEF Sessions, Moments
<1> HIDE DEF next
<1>5. Elapsed(next) = Elapsed(t) /\ next.banked # Unset
  <2>1. Banked(next) = Banked(t) /\ Banked(t) \in Nat
    BY <1>3, <1>4, NoneIsASession DEF Banked
  <2>2. Max0(clock - next.start) = 0
    BY <1>1, <1>4 DEF Max0
  <2>3. QED
    BY <1>2, <1>3, <1>4, <2>1, <2>2, NoneIsASession DEF Elapsed
<1>6. QED
  BY <1>2, <1>4, <1>5, ChangeActs

LEMMA RemoveLimitActs ==
    ASSUME TypeOK, NEW w \in Windows, RemoveLimit(w)
    PROVE  \E v, s, queue : Acted(w, v, s, queue) /\ Changes(w, v, s)
<1> DEFINE t == win[w].timer
           next == [t EXCEPT !.limit = FALSE]
<1>1. t \in Sessions
  BY TypeParts
<1>2. t # None /\ Change(w, next)
  BY NoneIsASession DEF RemoveLimit
<1>3. next \in Sessions /\ next.id = t.id /\ next.limit = FALSE
      /\ next.banked = t.banked /\ next.start = t.start /\ next.paused = t.paused
  BY <1>1 DEF Sessions
<1> HIDE DEF next
<1>4. Elapsed(next) = Elapsed(t)
  BY <1>3 DEF Elapsed, Banked
<1>5. QED
  BY <1>2, <1>3, <1>4, ChangeActs

LEMMA CancelActs ==
    ASSUME TypeOK, NEW w \in Windows, Cancel(w)
    PROVE  \E v, s, queue : Acted(w, v, s, queue) /\ Cancels(w, v, s)
<1> DEFINE n == NextGeneration(win[w])
           u == [n EXCEPT !.timer = None]
<1>1. win[w] \in Views /\ saves[w] \in Seq(Saves) /\ win[w].timer \in Sessions
  BY TypeParts
<1>2. /\ n \in Views /\ n.base = win[w].base /\ n.behind = win[w].behind
      /\ n.entries = win[w].entries /\ ~n.saw
  BY <1>1, NextGenerationKeeps
<1>3. Faded(OtherObject(OtherGeneration(saves[w])), saves[w])
  BY <1>1, OtherObjectFades
<1>4. May(w) /\ Acts /\ Crossing(w, win[w].timer.id) /\ UNCHANGED <<watched, stopped>>
      /\ Put(w, None, n, OtherGeneration(saves[w]))
  BY DEF Cancel
<1>5. win[w].timer.id \in Ids
  BY <1>1, SessionIsTyped
<1> HIDE DEF n
<1>6. /\ Acted(w, u, PutSave(None), OtherObject(OtherGeneration(saves[w])))
      /\ PutSave(None).timer = None
      /\ u.entries = n.entries /\ u.saw = n.saw
  BY <1>2, <1>3, <1>4, <1>5, PutIsActed, NoneIsASession
<1>7. PutOnly(w, u, PutSave(None))
  BY <1>2, <1>4, <1>6 DEF PutOnly, PutSave
<1>8. Cancels(w, u, PutSave(None))
  BY <1>2, <1>6, <1>7 DEF Cancels
<1>9. QED
  BY <1>6, <1>8

LEMMA EndActs ==
    ASSUME TypeOK, NEW w \in Windows, NEW minutes \in Nat \ {0}, NEW itself \in BOOLEAN,
           SaveAndEnd(w, minutes, itself), win[w].timer # None,
           UNCHANGED watched,
           \/ UNCHANGED stopped
           \/ /\ stopped' = [stopped EXCEPT ![w] = @ \cup {win[w].timer.id}]
              /\ itself /\ OverLimit(win[w].timer)
    PROVE  \E v, s, queue : Acted(w, v, s, queue) /\ Ends(w, v, s)
<1> DEFINE t == win[w].timer
           e == [session |-> t.id, no |-> acts + 1, minutes |-> minutes]
           list == win[w].entries \cup {e}
           s == [timer |-> None, before |-> t, entry |-> {e}, sent |-> list,
                 minutes |-> minutes, written |-> TRUE, mine |-> TRUE]
           u == [win[w] EXCEPT !.timer = None, !.entries = list, !.tried = @ \/ itself]
<1>1. /\ win[w] \in Views /\ saves[w] \in Seq(Saves)
      /\ t \in Sessions /\ win[w].entries \subseteq Entries
  BY TypeParts
<1>2. t.id \in Ids /\ acts + 1 \in Ids
  BY <1>1, SessionIsTyped, TimerAssumption DEF SaveAndEnd, May, TypeOK, Ids
<1>3. e \in Entries /\ e.session = t.id
  BY <1>2 DEF Entries
<1>4. /\ May(w) /\ Acts /\ Crossing(w, t.id)
      /\ saves' = [saves EXCEPT ![w] = Append(OtherObject(@), s)]
      /\ win' = [win EXCEPT ![w].timer = None, ![w].entries = list, ![w].tried = @ \/ itself]
  BY DEF SaveAndEnd
<1>5. win' = [win EXCEPT ![w] = u]
  BY <1>4 DEF TypeOK
<1> HIDE DEF e
<1>6. list \subseteq Entries
  BY <1>1, <1>3
<1> HIDE DEF list
<1>7. u \in Views /\ u.timer = None /\ u.entries = list /\ u.base = win[w].base
      /\ u.behind = win[w].behind /\ u.saw = win[w].saw
      /\ u.tried = (win[w].tried \/ itself)
  BY <1>1, <1>6, NoneIsASession DEF Views
<1>8. s \in Saves /\ s.timer = None /\ s.before = t /\ s.entry = {e} /\ s.sent = list
      /\ s.written /\ s.mine
  BY <1>1, <1>3, <1>6, NoneIsASession DEF Saves
<1>9. saves' = [saves EXCEPT ![w] = Append(OtherObject(saves[w]), s)]
  BY <1>4
<1> HIDE DEF s, u
<1>10. Crosses(w, s)
  BY <1>2, <1>4, <1>8, CrossingCrosses
<1>11. Faded(OtherObject(saves[w]), saves[w])
  BY <1>1, OtherObjectFades
<1>12. Acted(w, u, s, OtherObject(saves[w]))
  BY <1>4, <1>5, <1>7, <1>8, <1>9, <1>10, <1>11 DEF Acted, May, Acts
<1>13. Ends(w, u, s)
  BY <1>3, <1>7, <1>8 DEF Ends, list
<1>14. QED
  BY <1>12, <1>13

(* Everything a window's users, and its limit, do to the session.          *)
Act(w) ==
    \/ Start(w) \/ Pause(w) \/ Resume(w) \/ RemoveLimit(w) \/ Cancel(w)
    \/ Stop(w) \/ SaveWithMinutes(w) \/ AutoStop(w)

TooLong(w) ==
    \E error \in 0..MaxMinutes :
        /\ win' = [win EXCEPT ![w].error = error]
        /\ UNCHANGED <<clock, file, saves, acts, crossed, watched, stopped>>

LEMMA ActIsActed ==
    ASSUME TypeOK, NEW w \in Windows, Act(w)
    PROVE  \/ \E v, s, queue : Acted(w, v, s, queue) /\ Does(w, v, s)
           \/ TooLong(w)
<1>1. /\ win[w].timer \in Sessions /\ clock \in Nat
      /\ win[w].error \in 0..MaxMinutes /\ MaxMinutes \in Nat
  BY TypeParts, TimerAssumption DEF TypeOK, Views
<1>2. Minutes(win[w].timer) \in Nat \ {0}
  BY <1>1, MinutesAreTime
<1>3. CASE Start(w)
  BY <1>3, StartActs DEF Does
<1>4. CASE Pause(w) \/ Resume(w) \/ RemoveLimit(w)
  BY <1>4, PauseActs, ResumeActs, RemoveLimitActs DEF Does
<1>5. CASE Cancel(w)
  BY <1>5, CancelActs DEF Does
<1>6. CASE Stop(w)
  <2>1. CASE Minutes(win[w].timer) > MaxMinutes
    BY <1>1, <1>6, <2>1 DEF Stop, TooLong
  <2>2. CASE ~(Minutes(win[w].timer) > MaxMinutes)
    <3>1. /\ SaveAndEnd(w, Minutes(win[w].timer), FALSE) /\ win[w].timer # None
          /\ UNCHANGED watched /\ UNCHANGED stopped
      BY <1>6, <2>2 DEF Stop
    <3>2. \E v, s, queue : Acted(w, v, s, queue) /\ Ends(w, v, s)
      BY <1>2, <3>1, EndActs
    <3>3. QED
      BY <3>2 DEF Does
  <2>3. QED
    BY <2>1, <2>2
<1>7. CASE SaveWithMinutes(w)
  <2>1. /\ SaveAndEnd(w, win[w].error, FALSE) /\ win[w].timer # None
        /\ UNCHANGED watched /\ UNCHANGED stopped /\ win[w].error # 0
    BY <1>7 DEF SaveWithMinutes
  <2>2. \E v, s, queue : Acted(w, v, s, queue) /\ Ends(w, v, s)
    <3>1. win[w].error \in Nat \ {0}
      BY <1>1, <2>1
    <3>2. QED
      BY <2>1, <3>1, EndActs
  <2>3. QED
    BY <2>2 DEF Does
<1>8. CASE AutoStop(w)
  <2>1. /\ SaveAndEnd(w, Minutes(win[w].timer), TRUE) /\ win[w].timer # None
        /\ OverLimit(win[w].timer)
        /\ UNCHANGED watched
        /\ stopped' = [stopped EXCEPT ![w] = @ \cup {win[w].timer.id}]
    BY <1>8 DEF AutoStop
  <2>2. \E v, s, queue : Acted(w, v, s, queue) /\ Ends(w, v, s)
    BY <1>2, <2>1, EndActs
  <2>3. QED
    BY <2>2 DEF Does
<1>9. QED
  BY <1>3, <1>4, <1>5, <1>6, <1>7, <1>8 DEF Act

-----------------------------------------------------------------------------
(* What becomes of the saves in flight.                                    *)

(* Nothing is in flight that was not, but for the saves of `new`.          *)
Keeps(w, new) == \A a \in Flying(w)' : a \in new \/ \E b \in Flying(w) : Like(a, b)
(* Everything still is, but for the saves of `gone`.                       *)
Loses(w, gone) == \A b \in Flying(w) : b \in gone \/ \E a \in Flying(w)' : Like(a, b)

Elsewhere(w) == \A x \in Windows \ {w} :
    saves'[x] = saves[x] /\ Flying(x)' = Flying(x)

LEMMA QueueIsElsewhere ==
    ASSUME TypeOK, NEW w \in Windows, NEW queue, saves' = [saves EXCEPT ![w] = queue]
    PROVE  Elsewhere(w) /\ saves'[w] = queue
  BY DEF TypeOK, Elsewhere, Flying

LEMMA ActedFlying ==
    ASSUME TypeOK, NEW w \in Windows, NEW v, NEW s, NEW queue, Acted(w, v, s, queue)
    PROVE  /\ Elsewhere(w) /\ Keeps(w, {s}) /\ Loses(w, {}) /\ s \in Flying(w)'
           /\ saves' \in [Windows -> Seq(Saves)]
           /\ saves'[w] # <<>>
           /\ saves[w] = <<>> => saves'[w] = <<s>>
<1>1. /\ saves[w] \in Seq(Saves) /\ s \in Saves
      /\ queue \in Seq(Saves) /\ Len(queue) = Len(saves[w])
      /\ \A i \in 1..Len(saves[w]) : Like(queue[i], saves[w][i])
  BY TypeParts DEF Acted, Faded
<1>2. Elsewhere(w) /\ saves'[w] = Append(queue, s)
  BY QueueIsElsewhere DEF Acted
<1>3. /\ Append(queue, s) \in Seq(Saves) /\ Len(Append(queue, s)) = Len(queue) + 1
      /\ Append(queue, s)[Len(queue) + 1] = s
      /\ \A i \in 1..Len(queue) : Append(queue, s)[i] = queue[i]
  BY <1>1
<1>4. Flying(w)' = {Append(queue, s)[i] : i \in 1..Len(queue) + 1}
  BY <1>2, <1>3 DEF Flying
<1>5. Len(queue) \in Nat
  BY <1>1
<1>6. Keeps(w, {s})
  <2> SUFFICES ASSUME NEW i \in 1..Len(queue) + 1
               PROVE  \/ Append(queue, s)[i] = s
                      \/ \E b \in Flying(w) : Like(Append(queue, s)[i], b)
    BY <1>4 DEF Keeps
  <2>1. CASE i \in 1..Len(queue)
    BY <1>1, <1>3, <2>1 DEF Flying
  <2>2. CASE i = Len(queue) + 1
    BY <1>3, <2>2
  <2>3. QED
    BY <1>5, <2>1, <2>2
<1>7. Loses(w, {})
  <2> SUFFICES ASSUME NEW i \in 1..Len(saves[w])
               PROVE  \E a \in Flying(w)' : Like(a, saves[w][i])
    BY DEF Loses, Flying
  <2>1. i \in 1..Len(queue) + 1 /\ i \in 1..Len(queue)
    BY <1>1, <1>5
  <2>2. queue[i] \in Flying(w)'
    BY <1>3, <1>4, <2>1
  <2>3. QED
    BY <1>1, <2>2
<1>8. s \in Flying(w)'
  <2>1. Len(queue) + 1 \in 1..Len(queue) + 1
    BY <1>5
  <2>2. QED
    BY <1>3, <1>4, <2>1
<1>9. saves' \in [Windows -> Seq(Saves)]
  BY <1>3 DEF Acted, TypeOK
<1>10. saves'[w] # <<>>
  BY <1>2, <1>3, <1>5
<1>11. ASSUME saves[w] = <<>> PROVE saves'[w] = <<s>>
  <2>1. queue = <<>>
    BY <1>1, <1>11
  <2>2. QED
    BY <1>2, <2>1
<1>12. QED
  BY <1>2, <1>6, <1>7, <1>8, <1>9, <1>10, <1>11

LEMMA TailFlying ==
    ASSUME TypeOK, NEW w \in Windows, saves[w] # <<>>, NEW queue,
           Faded(queue, Tail(saves[w])), saves' = [saves EXCEPT ![w] = queue]
    PROVE  /\ Elsewhere(w) /\ Keeps(w, {}) /\ Loses(w, {Head(saves[w])})
           /\ Head(saves[w]) \in Flying(w) /\ Head(saves[w]) = saves[w][1]
           /\ saves' \in [Windows -> Seq(Saves)]
           /\ Len(saves[w]) = 1 => saves'[w] = <<>>
<1>1. /\ saves[w] \in Seq(Saves) /\ queue \in Seq(Saves)
      /\ Len(queue) = Len(Tail(saves[w]))
      /\ \A i \in 1..Len(Tail(saves[w])) : Like(queue[i], Tail(saves[w])[i])
  BY TypeParts DEF Faded
<1>2. Elsewhere(w) /\ saves'[w] = queue
  BY QueueIsElsewhere
<1>3. /\ Len(saves[w]) \in Nat \ {0} /\ Len(queue) = Len(saves[w]) - 1
      /\ \A i \in 1..Len(queue) : i + 1 \in 1..Len(saves[w]) /\ Like(queue[i], saves[w][i + 1])
  BY <1>1
<1>4. Keeps(w, {})
  BY <1>2, <1>3 DEF Keeps, Flying
<1>5. Loses(w, {Head(saves[w])})
  <2> SUFFICES ASSUME NEW i \in 1..Len(saves[w])
               PROVE  \/ saves[w][i] = Head(saves[w])
                      \/ \E a \in Flying(w)' : Like(a, saves[w][i])
    BY DEF Loses, Flying
  <2>1. CASE i = 1
    BY <1>1, <1>3, <2>1
  <2>2. CASE i # 1
    <3>1. i - 1 \in 1..Len(queue) /\ (i - 1) + 1 = i
      BY <1>3, <2>2
    <3>2. Like(queue[i - 1], saves[w][i]) /\ queue[i - 1] \in Flying(w)'
      BY <1>2, <1>3, <3>1 DEF Flying
    <3>3. QED
      BY <3>2
  <2>3. QED
    BY <2>1, <2>2
<1>6. Head(saves[w]) \in Flying(w) /\ Head(saves[w]) = saves[w][1]
  BY <1>1, <1>3 DEF Flying
<1>7. saves' \in [Windows -> Seq(Saves)]
  BY <1>1 DEF TypeOK
<1>8. ASSUME Len(saves[w]) = 1 PROVE saves'[w] = <<>>
  BY <1>1, <1>2, <1>3, <1>8
<1>9. QED
  BY <1>2, <1>4, <1>5, <1>6, <1>7, <1>8

LEMMA FadedFlying ==
    ASSUME TypeOK, NEW w \in Windows, NEW queue,
           Faded(queue, saves[w]), saves' = [saves EXCEPT ![w] = queue]
    PROVE  /\ Elsewhere(w) /\ Keeps(w, {}) /\ Loses(w, {})
           /\ saves' \in [Windows -> Seq(Saves)]
           /\ saves[w] = <<>> <=> saves'[w] = <<>>
<1>1. /\ saves[w] \in Seq(Saves) /\ queue \in Seq(Saves) /\ Len(queue) = Len(saves[w])
      /\ \A i \in 1..Len(saves[w]) : Like(queue[i], saves[w][i])
  BY TypeParts DEF Faded
<1>2. Elsewhere(w) /\ saves'[w] = queue
  BY QueueIsElsewhere
<1>3. Keeps(w, {}) /\ Loses(w, {})
  BY <1>1, <1>2 DEF Keeps, Loses, Flying
<1>4. saves' \in [Windows -> Seq(Saves)]
  BY <1>1 DEF TypeOK
<1>5. saves[w] = <<>> <=> saves'[w] = <<>>
  BY <1>1, <1>2
<1>6. QED
  BY <1>2, <1>3, <1>4, <1>5

-----------------------------------------------------------------------------
(* The other steps of a window, each as what it leaves in memory (v) and   *)
(* in flight (queue).                                                      *)

Becomes(w, v, queue) ==
    /\ saves' = [saves EXCEPT ![w] = queue]
    /\ v \in Views /\ win' \in [Windows -> Views] /\ win'[w] = v
    /\ UNCHANGED <<clock, acts>>

SavedTo(w, v, queue) == LET s == Head(saves[w]) IN
    /\ Becomes(w, v, queue) /\ saves[w] # <<>> /\ Faded(queue, Tail(saves[w]))
    /\ file' \in Stores /\ file'.timer = s.timer /\ file'.entries = file.entries \cup s.sent
    /\ \A x \in Windows \ {w} : win'[x] = [win[x] EXCEPT !.behind = TRUE]
    /\ v.timer = win[w].timer /\ v.base = s.timer /\ ~v.behind
    /\ v.entries = win[w].entries \/ v.entries = file'.entries
    /\ s.entry = {} => v.saw = win[w].saw /\ v.tried = win[w].tried
    /\ s.entry # {} => ~v.saw
    /\ UNCHANGED <<crossed, watched, stopped>>

Undoes(w, v, s) ==
    /\ s.entry = {}
    /\ v.timer = win[w].base /\ ~v.saw
LeavesIt(w, v, s) ==
    /\ s.entry = {}
    /\ IF s.timer = None THEN win[w].timer # None ELSE ~s.written
    /\ v.timer = win[w].timer /\ v.saw = win[w].saw /\ v.tried = win[w].tried
PutsBack(w, v, s) ==
    /\ s.entry # {}
    /\ v.timer = Restored(win[w], s) /\ v.saw = win[w].saw /\ v.tried = win[w].tried

FailedTo(w, v, queue) == LET s == Head(saves[w]) IN
    /\ Becomes(w, v, queue) /\ saves[w] # <<>> /\ Faded(queue, Tail(saves[w]))
    /\ \A x \in Windows \ {w} : win'[x] = win[x]
    /\ v.base = win[w].base /\ v.behind = win[w].behind
    /\ v.entries = win[w].entries \ s.entry
    /\ Undoes(w, v, s) \/ LeavesIt(w, v, s) \/ PutsBack(w, v, s)
    /\ UNCHANGED <<file, crossed, watched, stopped>>

PolledTo(w, v, queue) ==
    /\ Becomes(w, v, queue) /\ Faded(queue, saves[w])
    /\ win[w].behind
    /\ \A x \in Windows \ {w} : win'[x] = win[x]
    /\ v.timer = file.timer /\ v.base = file.timer /\ ~v.behind /\ v.entries = file.entries
    /\ \/ SameSession(win[w].timer, file.timer) /\ v.saw = win[w].saw /\ v.tried = win[w].tried
       \/ ~v.saw
    /\ crossed \subseteq crossed' /\ crossed' \subseteq Ids
    /\ Mistaken(w) => {win[w].timer.id, file.timer.id} \subseteq crossed'
    /\ UNCHANGED <<file, watched, stopped>>

ReopenedTo(w, v, queue) ==
    /\ Becomes(w, v, queue) /\ queue = <<>>
    /\ \A x \in Windows \ {w} : win'[x] = win[x]
    /\ v.timer = file.timer /\ v.base = file.timer /\ ~v.behind /\ v.entries = file.entries
    /\ ~v.saw
    /\ watched' = [watched EXCEPT ![w] = {}] /\ stopped' = [stopped EXCEPT ![w] = {}]
    /\ UNCHANGED <<file, crossed>>

LEMMA ViewStored ==
    ASSUME TypeOK, NEW w \in Windows, NEW v \in Views, win' = [win EXCEPT ![w] = v]
    PROVE  /\ win' \in [Windows -> Views] /\ win'[w] = v
           /\ \A x \in Windows \ {w} : win'[x] = win[x]
  BY DEF TypeOK

LEMMA SavedShape ==
    ASSUME TypeOK, NEW w \in Windows, Saved(w)
    PROVE  \E v, queue : SavedTo(w, v, queue)
<1> DEFINE s == Head(saves[w])
           rest == Tail(saves[w])
           entries == Merged(s)
           n == [win[w] EXCEPT !.base = s.timer, !.behind = FALSE,
                     !.entries = IF s.entry # {} /\ @ = s.sent THEN entries ELSE @]
           v == IF s.entry = {} THEN n ELSE NextGeneration(n)
           queue == IF s.entry = {} THEN rest ELSE OtherGeneration(rest)
<1>1. /\ saves[w] # <<>> /\ saves[w] \in Seq(Saves) /\ win[w] \in Views
      /\ file.timer \in Sessions /\ file.entries \subseteq Entries
      /\ win[w].entries \subseteq Entries
  BY TypeParts DEF Saved
<1>2. s \in Saves /\ rest \in Seq(Saves)
  BY <1>1
<1>3. entries \subseteq Entries /\ entries = file.entries \cup s.sent /\ s.timer \in Sessions
  BY <1>1, <1>2 DEF Merged, Saves
<1>4. /\ file' = [timer |-> s.timer, entries |-> entries]
      /\ win' = Others(w, [win EXCEPT ![w] = v])
      /\ saves' = [saves EXCEPT ![w] = queue]
      /\ UNCHANGED <<clock, acts, crossed, watched, stopped>>
  BY DEF Saved
<1>5. Faded(queue, rest)
  BY <1>2, OtherObjectFades
<1> HIDE DEF s, rest, entries, queue
<1>6. /\ n \in Views /\ n.timer = win[w].timer /\ n.base = s.timer /\ ~n.behind
      /\ n.entries = win[w].entries \/ n.entries = entries
      /\ n.saw = win[w].saw /\ n.tried = win[w].tried
  BY <1>1, <1>3 DEF Views
<1> HIDE DEF n
<1>7. /\ v \in Views /\ v.timer = win[w].timer /\ v.base = s.timer /\ ~v.behind
      /\ v.entries = win[w].entries \/ v.entries = entries
      /\ s.entry = {} => v.saw = win[w].saw /\ v.tried = win[w].tried
      /\ s.entry # {} => ~v.saw
  BY <1>6, NextGenerationKeeps
<1> HIDE DEF v
<1>8. /\ win' \in [Windows -> Views] /\ win'[w] = v
      /\ \A x \in Windows \ {w} : win'[x] = [win[x] EXCEPT !.behind = TRUE]
  <2>1. /\ win'[w] = v
        /\ \A x \in Windows \ {w} : win'[x] = [win[x] EXCEPT !.behind = TRUE]
        /\ DOMAIN win' = Windows /\ win' = [x \in Windows |-> win'[x]]
    BY <1>4 DEF Others, TypeOK
  <2>2. \A x \in Windows : [win[x] EXCEPT !.behind = TRUE] \in Views
    BY TypeParts DEF Views
  <2>3. QED
    BY <1>7, <2>1, <2>2
<1>9. file' \in Stores /\ file'.timer = s.timer /\ file'.entries = entries
  BY <1>3, <1>4 DEF Stores
<1>10. SavedTo(w, v, queue)
  BY <1>1, <1>3, <1>4, <1>5, <1>7, <1>8, <1>9 DEF SavedTo, Becomes, s, rest
<1>11. QED
  BY <1>10

LEMMA FailedShape ==
    ASSUME TypeOK, NEW w \in Windows, SaveFails(w)
    PROVE  \E v, queue : FailedTo(w, v, queue)
<1> DEFINE s == Head(saves[w])
           rest == Tail(saves[w])
           undo == IF s.timer = None THEN win[w].timer = None ELSE s.written
<1>1. /\ saves[w] # <<>> /\ saves[w] \in Seq(Saves) /\ win[w] \in Views
      /\ win[w].base \in Sessions /\ win[w].timer \in Sessions
      /\ win[w].entries \subseteq Entries
  BY TypeParts DEF SaveFails
<1>2. s \in Saves /\ rest \in Seq(Saves) /\ s.before \in Sessions
  <2>1. s \in Saves /\ rest \in Seq(Saves)
    BY <1>1
  <2>2. QED
    BY <2>1 DEF Saves
<1>3. UNCHANGED <<clock, file, acts, crossed, watched, stopped>>
  BY DEF SaveFails
<1>4. CASE s.entry = {} /\ undo
  <2> DEFINE n == [win[w] EXCEPT !.timer = win[w].base]
             v == NextGeneration(n)
             queue == OtherGeneration(OtherObject(rest))
  <2>1. win' = [win EXCEPT ![w] = v] /\ saves' = [saves EXCEPT ![w] = queue]
    BY <1>4 DEF SaveFails
  <2>2. /\ n \in Views /\ n.timer = win[w].base /\ n.base = win[w].base
        /\ n.behind = win[w].behind /\ n.entries = win[w].entries
    BY <1>1 DEF Views
  <2> HIDE DEF n
  <2>3. /\ v \in Views /\ v.timer = win[w].base /\ v.base = win[w].base
        /\ v.behind = win[w].behind /\ v.entries = win[w].entries /\ ~v.saw
    BY <2>2, NextGenerationKeeps
  <2>4. Faded(queue, rest)
    BY <1>2, OtherObjectFades
  <2> HIDE DEF v, queue
  <2>5. Undoes(w, v, s) /\ v.entries = win[w].entries \ s.entry
    BY <1>4, <2>3 DEF Undoes
  <2>6. /\ win' \in [Windows -> Views] /\ win'[w] = v
        /\ \A x \in Windows \ {w} : win'[x] = win[x]
    BY <2>1, <2>3, ViewStored
  <2>7. FailedTo(w, v, queue)
    BY <1>1, <1>3, <2>1, <2>3, <2>4, <2>5, <2>6 DEF FailedTo, Becomes
  <2>8. QED
    BY <2>7
<1>5. CASE s.entry = {} /\ ~undo
  <2>1. win' = win /\ saves' = [saves EXCEPT ![w] = rest]
    BY <1>5 DEF SaveFails
  <2>2. Faded(rest, rest)
    BY <1>2, OtherObjectFades
  <2>3. LeavesIt(w, win[w], s) /\ win[w].entries = win[w].entries \ s.entry
    BY <1>5 DEF LeavesIt
  <2>4. win' \in [Windows -> Views]
    BY <2>1 DEF TypeOK
  <2>5. FailedTo(w, win[w], rest)
    BY <1>1, <1>3, <2>1, <2>2, <2>3, <2>4 DEF FailedTo, Becomes
  <2>6. QED
    BY <2>5
<1>6. CASE s.entry # {}
  <2> DEFINE v == [win[w] EXCEPT !.entries = Withdrawn(win[w], s), !.timer = Restored(win[w], s),
                                 !.error = Least(MaxMinutes, s.minutes)]
  <2>1. win' = [win EXCEPT ![w] = v] /\ saves' = [saves EXCEPT ![w] = rest]
    BY <1>6 DEF SaveFails
  <2>2. Restored(win[w], s) \in Sessions
    BY <1>1, <1>2 DEF Restored
  <2>3. Withdrawn(win[w], s) \subseteq Entries /\ Withdrawn(win[w], s) = win[w].entries \ s.entry
    BY <1>1 DEF Withdrawn
  <2>4. Least(MaxMinutes, s.minutes) \in 0..MaxMinutes
    BY <1>2, TimerAssumption DEF Least, Saves
  <2>5. /\ v \in Views /\ v.timer = Restored(win[w], s) /\ v.base = win[w].base
        /\ v.behind = win[w].behind /\ v.entries = win[w].entries \ s.entry
        /\ v.saw = win[w].saw /\ v.tried = win[w].tried
    BY <1>1, <2>2, <2>3, <2>4 DEF Views
  <2>6. Faded(rest, rest)
    BY <1>2, OtherObjectFades
  <2> HIDE DEF v
  <2>7. PutsBack(w, v, s)
    BY <1>6, <2>5 DEF PutsBack
  <2>8. /\ win' \in [Windows -> Views] /\ win'[w] = v
        /\ \A x \in Windows \ {w} : win'[x] = win[x]
    BY <2>1, <2>5, ViewStored
  <2>9. FailedTo(w, v, rest)
    BY <1>1, <1>3, <2>1, <2>5, <2>6, <2>7, <2>8 DEF FailedTo, Becomes
  <2>10. QED
    BY <2>9
<1>7. QED
  BY <1>4, <1>5, <1>6

LEMMA PolledShape ==
    ASSUME TypeOK, NEW w \in Windows, Poll(w)
    PROVE  \E v, queue : PolledTo(w, v, queue)
<1> DEFINE n == [win[w] EXCEPT !.timer = file.timer, !.base = file.timer,
                               !.entries = file.entries, !.behind = FALSE]
           same == SameSession(win[w].timer, file.timer)
           v == IF same THEN n ELSE NextGeneration(n)
           queue == IF same THEN OtherObject(saves[w])
                            ELSE OtherGeneration(OtherObject(saves[w]))
<1>1. /\ saves[w] \in Seq(Saves) /\ win[w] \in Views
      /\ file.timer \in Sessions /\ file.entries \subseteq Entries
      /\ win[w].timer.id \in Ids /\ file.timer.id \in Ids /\ crossed \subseteq Ids
  BY TypeParts, SessionIsTyped DEF TypeOK
<1>2. /\ win' = [win EXCEPT ![w] = v] /\ saves' = [saves EXCEPT ![w] = queue]
      /\ UNCHANGED <<clock, file, acts, watched, stopped>> /\ win[w].behind
      /\ crossed' = crossed \cup (IF Mistaken(w) THEN {win[w].timer.id, file.timer.id} ELSE {})
  BY DEF Poll
<1>3. Faded(queue, saves[w])
  BY <1>1, OtherObjectFades
<1>4. /\ n \in Views /\ n.timer = file.timer /\ n.base = file.timer /\ ~n.behind
      /\ n.entries = file.entries /\ n.saw = win[w].saw /\ n.tried = win[w].tried
  BY <1>1 DEF Views
<1> HIDE DEF n, same, queue
<1>5. /\ v \in Views /\ v.timer = file.timer /\ v.base = file.timer /\ ~v.behind
      /\ v.entries = file.entries
      /\ (same /\ v.saw = win[w].saw /\ v.tried = win[w].tried) \/ ~v.saw
  BY <1>4, NextGenerationKeeps
<1> HIDE DEF v
<1>6. /\ win' \in [Windows -> Views] /\ win'[w] = v
      /\ \A x \in Windows \ {w} : win'[x] = win[x]
  BY <1>2, <1>5, ViewStored
<1>7. /\ crossed \subseteq crossed' /\ crossed' \subseteq Ids
      /\ Mistaken(w) => {win[w].timer.id, file.timer.id} \subseteq crossed'
  BY <1>1, <1>2
<1>8. PolledTo(w, v, queue)
  BY <1>2, <1>3, <1>5, <1>6, <1>7 DEF PolledTo, Becomes, same
<1>9. QED
  BY <1>8

LEMMA ReopenedShape ==
    ASSUME TypeOK, NEW w \in Windows, Reopen(w)
    PROVE  \E v, queue : ReopenedTo(w, v, queue)
<1> DEFINE v == Opened(file)
<1>1. file.timer \in Sessions /\ file.entries \subseteq Entries /\ 0 \in 0..MaxMinutes
  BY TypeParts, TimerAssumption
<1>2. /\ v \in Views /\ v.timer = file.timer /\ v.base = file.timer /\ ~v.behind
      /\ v.entries = file.entries /\ ~v.saw
  BY <1>1 DEF Views, Opened
<1>3. /\ win' = [win EXCEPT ![w] = v] /\ saves' = [saves EXCEPT ![w] = <<>>]
      /\ watched' = [watched EXCEPT ![w] = {}] /\ stopped' = [stopped EXCEPT ![w] = {}]
      /\ UNCHANGED <<clock, file, acts, crossed>>
  BY DEF Reopen
<1> HIDE DEF v
<1>4. /\ win' \in [Windows -> Views] /\ win'[w] = v
      /\ \A x \in Windows \ {w} : win'[x] = win[x]
  BY <1>2, <1>3, ViewStored
<1>5. ReopenedTo(w, v, <<>>)
  BY <1>2, <1>3, <1>4 DEF ReopenedTo, Becomes
<1>6. QED
  BY <1>5

QuietTo(w, v) == LET t == win[w].timer IN
    /\ v \in Views /\ win' \in [Windows -> Views] /\ win'[w] = v
    /\ \A x \in Windows \ {w} : win'[x] = win[x]
    /\ v.timer = t /\ v.base = win[w].base /\ v.behind = win[w].behind
    /\ v.entries = win[w].entries /\ v.tried = win[w].tried
    /\ UNCHANGED <<clock, file, saves, acts, crossed, stopped>>
    /\ \/ v.saw = win[w].saw /\ UNCHANGED watched
       \/ /\ t # None /\ ~OverLimit(t)
          /\ watched' = [watched EXCEPT ![w] = @ \cup {t.id}]

LEMMA QuietShape ==
    ASSUME TypeOK, NEW w \in Windows, Dismiss(w) \/ Watch(w) \/ TooLong(w)
    PROVE  \E v : QuietTo(w, v)
<1>1. win[w] \in Views /\ 0 \in 0..MaxMinutes
  BY TypeParts, TimerAssumption
<1>2. CASE Watch(w)
  <2> DEFINE v == [win[w] EXCEPT !.saw = TRUE]
  <2>1. v \in Views /\ v.timer = win[w].timer /\ v.base = win[w].base
        /\ v.behind = win[w].behind /\ v.entries = win[w].entries /\ v.tried = win[w].tried
    BY <1>1 DEF Views
  <2>2. win' = [win EXCEPT ![w] = v]
    BY <1>2 DEF Watch, TypeOK
  <2> HIDE DEF v
  <2>3. QED
    BY <1>2, <2>1, <2>2, ViewStored DEF Watch, QuietTo
<1>3. CASE Dismiss(w) \/ TooLong(w)
  <2>1. PICK error \in 0..MaxMinutes : win' = [win EXCEPT ![w].error = error]
    BY <1>1, <1>3 DEF Dismiss, TooLong
  <2> DEFINE v == [win[w] EXCEPT !.error = error]
  <2>2. v \in Views /\ v.timer = win[w].timer /\ v.base = win[w].base
        /\ v.behind = win[w].behind /\ v.entries = win[w].entries /\ v.tried = win[w].tried
        /\ v.saw = win[w].saw
    BY <1>1 DEF Views
  <2>3. win' = [win EXCEPT ![w] = v]
    BY <2>1 DEF TypeOK
  <2>4. UNCHANGED <<clock, file, saves, acts, crossed, stopped, watched>>
    BY <1>3 DEF Dismiss, TooLong
  <2> HIDE DEF v
  <2>5. QED
    BY <2>2, <2>3, <2>4, ViewStored DEF QuietTo
<1>4. QED
  BY <1>2, <1>3

Ticks ==
    /\ clock' \in Nat /\ clock <= clock'
    /\ UNCHANGED <<file, win, saves, acts, crossed, watched, stopped>>

(* Every step is one of seven kinds.                                       *)
Step(w) ==
    \/ \E v, s, queue : Acted(w, v, s, queue) /\ Does(w, v, s)
    \/ \E v, queue : SavedTo(w, v, queue)
    \/ \E v, queue : FailedTo(w, v, queue)
    \/ \E v, queue : PolledTo(w, v, queue)
    \/ \E v, queue : ReopenedTo(w, v, queue)
    \/ \E v : QuietTo(w, v)

LEMMA StepShape ==
    ASSUME TypeOK, [Next]_vars
    PROVE  (\E w \in Windows : Step(w)) \/ Ticks
<1>1. ASSUME NEW w \in Windows,
             \/ UserActs(w) \/ Watch(w) \/ AutoStop(w)
             \/ Saved(w) \/ SaveFails(w) \/ Poll(w) \/ Reopen(w)
      PROVE  Step(w)
  <2>1. CASE Act(w) \/ Dismiss(w) \/ Watch(w)
    BY <2>1, ActIsActed, QuietShape DEF Step
  <2>2. CASE Saved(w)
    BY <2>2, SavedShape DEF Step
  <2>3. CASE SaveFails(w)
    BY <2>3, FailedShape DEF Step
  <2>4. CASE Poll(w)
    BY <2>4, PolledShape DEF Step
  <2>5. CASE Reopen(w)
    BY <2>5, ReopenedShape DEF Step
  <2>6. QED
    BY <1>1, <2>1, <2>2, <2>3, <2>4, <2>5 DEF UserActs, Act
<1>2. CASE Tick \/ UNCHANGED vars
  BY <1>2 DEF Tick, vars, Ticks, TypeOK
<1>3. QED
  BY <1>1, <1>2 DEF Next

-----------------------------------------------------------------------------
(* Types.                                                                  *)

LEMMA TypeStep ==
    ASSUME TypeOK, [Next]_vars
    PROVE  TypeOK'
<1>1. ASSUME NEW w \in Windows, NEW v, NEW s, NEW queue, Acted(w, v, s, queue), Does(w, v, s)
      PROVE  TypeOK'
  <2>1. saves' \in [Windows -> Seq(Saves)]
    BY <1>1, ActedFlying
  <2>2. win' \in [Windows -> Views]
    BY <1>1, ViewStored DEF Acted
  <2>3. acts' \in Ids /\ crossed' \subseteq Ids /\ clock' \in Nat /\ file' \in Stores
    BY <1>1, TimerAssumption DEF Acted, Crosses, TypeOK, Ids
  <2>4. watched' = watched
    BY <1>1 DEF Does, Begins, Changes, Cancels, Ends, PutOnly
  <2>5. win[w].timer.id \in Ids
    BY TypeParts, SessionIsTyped
  <2>6. \/ stopped' = stopped
        \/ stopped' = [stopped EXCEPT ![w] = @ \cup {win[w].timer.id}]
    BY <1>1 DEF Does, Begins, Changes, Cancels, Ends, PutOnly
  <2>7. watched' \in [Windows -> SUBSET Ids] /\ stopped' \in [Windows -> SUBSET Ids]
    BY <2>4, <2>5, <2>6 DEF TypeOK
  <2>8. QED
    BY <2>1, <2>2, <2>3, <2>7 DEF TypeOK
<1>2. ASSUME NEW w \in Windows, NEW v, NEW queue, SavedTo(w, v, queue) \/ FailedTo(w, v, queue)
      PROVE  TypeOK'
  <2>1. saves' \in [Windows -> Seq(Saves)]
    BY <1>2, TailFlying DEF SavedTo, FailedTo, Becomes
  <2>2. QED
    BY <1>2, <2>1 DEF SavedTo, FailedTo, Becomes, TypeOK
<1>3. ASSUME NEW w \in Windows, NEW v, NEW queue, PolledTo(w, v, queue)
      PROVE  TypeOK'
  <2>1. saves' \in [Windows -> Seq(Saves)]
    BY <1>3, FadedFlying DEF PolledTo, Becomes
  <2>2. QED
    BY <1>3, <2>1 DEF PolledTo, Becomes, TypeOK
<1>4. ASSUME NEW w \in Windows, NEW v, NEW queue, ReopenedTo(w, v, queue)
      PROVE  TypeOK'
  <2>1. saves' \in [Windows -> Seq(Saves)]
    BY <1>4 DEF ReopenedTo, Becomes, TypeOK
  <2>2. QED
    BY <1>4, <2>1 DEF ReopenedTo, Becomes, TypeOK
<1>5. ASSUME NEW w \in Windows, NEW v, QuietTo(w, v)
      PROVE  TypeOK'
  <2>1. win[w].timer.id \in Ids
    BY TypeParts, SessionIsTyped
  <2>2. watched' \in [Windows -> SUBSET Ids]
    BY <1>5, <2>1 DEF QuietTo, TypeOK
  <2>3. QED
    BY <1>5, <2>2 DEF QuietTo, TypeOK
<1>6. CASE Ticks
  BY <1>6 DEF Ticks, TypeOK
<1>7. QED
  BY <1>1, <1>2, <1>3, <1>4, <1>5, <1>6, StepShape DEF Step

LEMMA TypeInit ==
    ASSUME Init
    PROVE  TypeOK
<1>1. None \in Sessions /\ 0 \in Ids /\ 0 \in 0..MaxMinutes
  BY NoneIsASession, TimerAssumption DEF Ids
<1>2. file \in Stores /\ file.timer = None /\ file.entries = {}
  BY <1>1 DEF Init, Stores
<1>3. Opened(file) \in Views
  BY <1>1, <1>2 DEF Opened, Views
<1>4. <<>> \in Seq(Saves)
  OBVIOUS
<1>5. QED
  BY <1>1, <1>2, <1>3, <1>4 DEF Init, TypeOK

(* Sessions, views and saves keep their types, whatever is undone.         *)
THEOREM TypeCorrect == Spec => []TypeOK
<1>1. Init => TypeOK
  BY TypeInit
<1>2. TypeOK /\ [Next]_vars => TypeOK'
  BY TypeStep
<1>3. QED
  BY <1>1, <1>2, PTL DEF Spec

-----------------------------------------------------------------------------
(* The heart of the invariant: what is at hand, and the one save of it.    *)

With(w) ==
    {win[w].timer, win[w].base} \cup {s.timer : s \in Flying(w)} \cup {s.before : s \in Flying(w)}
Here == {file.timer} \cup UNION {With(v) : v \in Windows}

Issued(t) == t = None \/ t.id \in 1..acts
Numbered == \A t \in Here : Issued(t)

Agree(t, b) == t = b \/ (Lapsed(t) /\ Lapsed(b))

(* A save is a new session, or an end with its one entry.                  *)
Sound(s) ==
    /\ s.entry # {} => /\ s.timer = None /\ s.before # None
                       /\ \E e \in Entries : /\ e.session = s.before.id
                                             /\ s.entry = {e} /\ e \in s.sent
    /\ s.entry = {} => s.before = None /\ s.sent = {}

AtRest(w) ==
    /\ ~win[w].behind => win[w].base = file.timer
    /\ saves[w] = <<>> => Agree(win[w].timer, win[w].base)
    /\ \A s \in Flying(w) : Sound(s)

(* The one save under way, of a window that shows what it sent and can     *)
(* undo it to what the file has.                                           *)
Alone(w) == saves[w] # <<>> =>
    /\ Len(saves[w]) = 1 /\ ~win[w].behind
    /\ \A x \in Windows \ {w} : saves[x] = <<>>
    /\ \A s \in Flying(w) :
          /\ win[w].timer = s.timer
          /\ s.entry = {} => s.written
          /\ s.entry # {} => s.mine /\ Agree(s.before, win[w].base)

Messy == \A t \in Here : Lapsed(t)
OneInFlight == (\A w \in Windows : Alone(w)) \/ Messy

CoreInv == Numbered /\ (\A w \in Windows : AtRest(w)) /\ OneInFlight

LEMMA HereMembers ==
    /\ \A t : t \in Here <=>
          \/ t = file.timer
          \/ \E v \in Windows : t = win[v].timer \/ t = win[v].base
          \/ \E v \in Windows : \E s \in Flying(v) : t = s.timer \/ t = s.before
    /\ \A t : t \in Here' <=>
          \/ t = file'.timer
          \/ \E v \in Windows : t = win'[v].timer \/ t = win'[v].base
          \/ \E v \in Windows : \E s \in Flying(v)' : t = s.timer \/ t = s.before
<1>1. /\ \A t : t \in Here <=> t = file.timer \/ \E v \in Windows : t \in With(v)
      /\ \A t : t \in Here' <=> t = file'.timer \/ \E v \in Windows : t \in With(v)'
  BY DEF Here
<1>2. \A v \in Windows : \A t :
        /\ t \in With(v) <=> \/ t = win[v].timer \/ t = win[v].base
                              \/ \E s \in Flying(v) : t = s.timer \/ t = s.before
        /\ t \in With(v)' <=> \/ t = win'[v].timer \/ t = win'[v].base
                               \/ \E s \in Flying(v)' : t = s.timer \/ t = s.before
  BY DEF With
<1>3. QED
  BY <1>1, <1>2

LEMMA HereIs ==
    ASSUME TypeOK
    PROVE  /\ AtHand \subseteq Here
           /\ \A t \in Here : t \in AtHand \/ \E v \in Windows : t = win[v].base
           /\ Here \subseteq Sessions
<1>1. ASSUME NEW t \in AtHand PROVE t \in Here
  BY AtHandIs, HereMembers
<1>2. ASSUME NEW t \in Here PROVE t \in AtHand \/ \E v \in Windows : t = win[v].base
  BY AtHandIs, HereMembers
<1>3. Here \subseteq Sessions
  BY <1>2, AtHandTyped, TypeParts
<1>4. QED
  BY <1>1, <1>2, <1>3

LEMMA LikeIsSound ==
    ASSUME NEW a, NEW b, Like(a, b), Sound(b)
    PROVE  Sound(a)
  BY DEF Like, Sound

(* What a save or an undo leaves was there before; an act adds one session.*)
LEMMA NothingNew ==
    ASSUME TypeOK, NEW w \in Windows, NEW v, NEW queue,
           \/ SavedTo(w, v, queue) \/ FailedTo(w, v, queue)
           \/ PolledTo(w, v, queue) \/ ReopenedTo(w, v, queue)
    PROVE  Here' \subseteq Here
<1>1. /\ {file.timer, win[w].timer, win[w].base} \subseteq Here
      /\ \A x \in Windows : win[x].timer \in Here /\ win[x].base \in Here
      /\ \A x \in Windows : \A s \in Flying(x) : s.timer \in Here /\ s.before \in Here
  BY HereMembers
<1>2. Elsewhere(w) /\ Keeps(w, {})
  <2>1. CASE SavedTo(w, v, queue) \/ FailedTo(w, v, queue)
    BY <2>1, TailFlying DEF SavedTo, FailedTo, Becomes
  <2>2. CASE PolledTo(w, v, queue)
    BY <2>2, FadedFlying DEF PolledTo, Becomes
  <2>3. CASE ReopenedTo(w, v, queue)
    <3>1. Elsewhere(w) /\ saves'[w] = <<>>
      BY <2>3, QueueIsElsewhere DEF ReopenedTo, Becomes
    <3>2. Flying(w)' = {}
      BY <3>1 DEF Flying
    <3>3. QED
      BY <3>1, <3>2 DEF Keeps
  <2>4. QED
    BY <2>1, <2>2, <2>3
<1>3. \A x \in Windows : \A s \in Flying(x)' : s.timer \in Here /\ s.before \in Here
  BY <1>1, <1>2 DEF Elsewhere, Keeps, Like
<1>4. SavedTo(w, v, queue) \/ FailedTo(w, v, queue) => Head(saves[w]) \in Flying(w)
  BY TailFlying DEF SavedTo, FailedTo, Becomes
<1>5. file'.timer \in Here
  BY <1>1, <1>4 DEF SavedTo, FailedTo, PolledTo, ReopenedTo
<1>6. \A x \in Windows : win'[x].timer \in Here /\ win'[x].base \in Here
  <2>1. \A x \in Windows \ {w} : win'[x].timer = win[x].timer /\ win'[x].base = win[x].base
    <3>1. \A x \in Windows : win[x] \in Views
      BY TypeParts
    <3>2. QED
      BY <3>1 DEF SavedTo, FailedTo, PolledTo, ReopenedTo, Views
  <2>2. win'[w] = v
    BY DEF SavedTo, FailedTo, PolledTo, ReopenedTo, Becomes
  <2>3. v.timer \in Here
    BY <1>1, <1>4 DEF SavedTo, FailedTo, PolledTo, ReopenedTo,
                      Undoes, LeavesIt, PutsBack, Restored
  <2>4. v.base \in Here
    BY <1>1, <1>4 DEF SavedTo, FailedTo, PolledTo, ReopenedTo
  <2>5. QED
    BY <1>1, <2>1, <2>2, <2>3, <2>4
<1>7. QED
  BY <1>3, <1>5, <1>6, HereMembers

LEMMA OneNew ==
    ASSUME TypeOK, NEW w \in Windows, NEW v, NEW s, NEW queue,
           Acted(w, v, s, queue), Does(w, v, s)
    PROVE  /\ Here' \subseteq Here \cup {s.timer, None}
           /\ s.before = None \/ s.before = win[w].timer
<1>1. /\ \A x \in Windows : win[x].timer \in Here /\ win[x].base \in Here
      /\ \A x \in Windows : \A a \in Flying(x) : a.timer \in Here /\ a.before \in Here
      /\ file.timer \in Here
  BY HereMembers
<1>2. Elsewhere(w) /\ Keeps(w, {s})
  BY ActedFlying
<1>3. s.before = None \/ s.before = win[w].timer
  BY DEF Does, Begins, Changes, Cancels, Ends, PutOnly
<1>4. \A x \in Windows : \A a \in Flying(x)' :
        a.timer \in Here \cup {s.timer, None} /\ a.before \in Here \cup {s.timer, None}
  BY <1>1, <1>2, <1>3 DEF Elsewhere, Keeps, Like
<1>5. \A x \in Windows : /\ win'[x].timer \in Here \cup {s.timer, None}
                        /\ win'[x].base \in Here
  <2>1. win'[w] = v /\ \A x \in Windows \ {w} : win'[x] = win[x]
    BY ViewStored DEF Acted
  <2>2. QED
    BY <1>1, <2>1 DEF Acted
<1>6. file' = file
  BY DEF Acted
<1>7. QED
  BY <1>1, <1>3, <1>4, <1>5, <1>6, HereMembers

LEMMA SubjectIsKnown ==
    ASSUME TypeOK, NEW w \in Windows, NEW v, NEW s, NEW queue,
           Acted(w, v, s, queue), Does(w, v, s)
    PROVE  \/ s.timer = None
           \/ s.timer.id = acts + 1
           \/ s.timer.id = win[w].timer.id /\ win[w].timer # None
  BY DEF Does, Begins, Changes, Cancels, Ends

LEMMA NumberedStep ==
    ASSUME TypeOK, CoreInv, [Next]_vars
    PROVE  Numbered'
<1>1. acts \in Nat /\ \A t \in Here : Issued(t)
  BY TimerAssumption DEF TypeOK, Ids, CoreInv, Numbered
<1>2. ASSUME NEW w \in Windows, NEW v, NEW s, NEW queue, Acted(w, v, s, queue), Does(w, v, s)
      PROVE  Numbered'
  <2>1. acts' = acts + 1
    BY <1>2 DEF Acted
  <2>2. win[w].timer \in Here
    BY HereMembers
  <2>3. s.timer = None \/ s.timer.id \in 1..acts + 1
    BY <1>1, <1>2, <2>2, SubjectIsKnown DEF Issued
  <2>4. \A t \in Here : t = None \/ t.id \in 1..acts + 1
    BY <1>1 DEF Issued
  <2>5. QED
    BY <1>2, <2>1, <2>3, <2>4, OneNew DEF Numbered, Issued
<1>3. ASSUME NEW w \in Windows, NEW v, NEW queue,
             \/ SavedTo(w, v, queue) \/ FailedTo(w, v, queue)
             \/ PolledTo(w, v, queue) \/ ReopenedTo(w, v, queue)
      PROVE  Numbered'
  <2>1. acts' = acts
    BY <1>3 DEF SavedTo, FailedTo, PolledTo, ReopenedTo, Becomes
  <2>2. QED
    BY <1>1, <1>3, <2>1, NothingNew DEF Numbered, Issued
<1>4. ASSUME NEW w \in Windows, NEW v, QuietTo(w, v)
      PROVE  Numbered'
  <2>1. Here' = Here
    <3>1. /\ \A x \in Windows : win'[x].timer = win[x].timer /\ win'[x].base = win[x].base
          /\ \A x \in Windows : Flying(x)' = Flying(x)
          /\ file' = file /\ acts' = acts
      BY <1>4 DEF QuietTo, Flying
    <3>2. \A t : t \in Here' <=> t \in Here
      BY <3>1, HereMembers
    <3>3. QED
      BY <3>2
  <2>2. QED
    BY <1>1, <1>4, <2>1 DEF Numbered, Issued, QuietTo
<1>5. CASE Ticks
  BY <1>1, <1>5 DEF Numbered, Issued, Here, With, Ticks, Flying
<1>6. QED
  BY <1>2, <1>3, <1>4, <1>5, StepShape DEF Step

(* After the step.                                                         *)
Lapses(t) == t = None \/ t.id \in crossed'
Agrees(t, b) == t = b \/ (Lapses(t) /\ Lapses(b))

LEMMA LapsesForGood ==
    ASSUME crossed \subseteq crossed'
    PROVE  /\ \A t : Lapsed(t) => Lapses(t)
           /\ \A t, b : Agree(t, b) => Agrees(t, b)
  BY DEF Lapsed, Agree, Lapses, Agrees

LEMMA MessyStays ==
    ASSUME Messy, crossed \subseteq crossed', Here' \subseteq Here
    PROVE  Messy'
<1>1. \A t \in Here' : Lapses(t)
  BY LapsesForGood DEF Messy
<1>2. QED
  BY <1>1 DEF Messy, Lapsed, Lapses

LEMMA MessyHas ==
    ASSUME Messy
    PROVE  /\ Lapsed(file.timer)
           /\ \A x \in Windows : Lapsed(win[x].timer) /\ Lapsed(win[x].base)
           /\ \A x \in Windows : \A s \in Flying(x) : Lapsed(s.timer) /\ Lapsed(s.before)
  BY HereMembers DEF Messy

(* An act of a window that is behind, or beside another save, leaves       *)
(* nothing to promise.                                                     *)
LEMMA ActsAcross ==
    ASSUME TypeOK, CoreInv, NEW w \in Windows, NEW v, NEW s, NEW queue,
           Acted(w, v, s, queue), Does(w, v, s), Behind(w)
    PROVE  Messy' /\ \A t \in Here : Lapses(t)
<1>1. /\ \A t \in AtHand : Lapses(t)
      /\ Lapses(s.timer)
      /\ crossed \subseteq crossed'
  BY DEF Acted, Crosses, Lapses
<1>2. ASSUME NEW x \in Windows PROVE Lapses(win[x].base)
  <2>1. win[x].timer \in AtHand /\ file.timer \in AtHand
    BY AtHandIs
  <2>2. AtRest(x) /\ OneInFlight
    BY DEF CoreInv
  <2>3. CASE ~win[x].behind
    BY <1>1, <2>1, <2>2, <2>3 DEF AtRest
  <2>4. CASE saves[x] = <<>>
    <3>1. Agree(win[x].timer, win[x].base)
      BY <2>2, <2>4 DEF AtRest
    <3>2. QED
      BY <1>1, <2>1, <3>1, LapsesForGood DEF Agree
  <2>5. CASE win[x].behind /\ saves[x] # <<>>
    <3>1. Messy
      BY <2>2, <2>5 DEF OneInFlight, Alone
    <3>2. Lapsed(win[x].base)
      BY <3>1, MessyHas
    <3>3. QED
      BY <1>1, <3>2, LapsesForGood
  <2>6. QED
    BY <2>3, <2>4, <2>5
<1>3. ASSUME NEW t \in Here PROVE Lapses(t)
  <2>1. t \in AtHand \/ \E x \in Windows : t = win[x].base
    BY HereIs
  <2>2. QED
    BY <1>1, <1>2, <2>1
<1>4. ASSUME NEW t \in Here' PROVE Lapses(t)
  <2>1. t \in Here \/ t = s.timer \/ t = None
    BY OneNew
  <2>2. QED
    BY <1>1, <1>3, <2>1 DEF Lapses
<1>5. QED
  BY <1>3, <1>4 DEF Messy, Lapsed, Lapses

(* One of a window that knows the last change, when nothing is under way.  *)
LEMMA ActsAlone ==
    ASSUME TypeOK, CoreInv, NEW w \in Windows, NEW v, NEW s, NEW queue,
           Acted(w, v, s, queue), Does(w, v, s), ~Behind(w)
    PROVE  /\ crossed' = crossed /\ ~win[w].behind
           /\ \A x \in Windows : saves[x] = <<>> /\ Flying(x) = {}
           /\ win[w].base = file.timer /\ Agree(win[w].timer, file.timer)
           /\ saves'[w] = <<s>> /\ Flying(w)' = {s}
           /\ \A x \in Windows \ {w} : saves'[x] = <<>> /\ Flying(x)' = {}
<1>1. ~win[w].behind /\ \A x \in Windows : saves[x] = <<>>
  BY DEF Behind
<1>2. \A x \in Windows : Flying(x) = {}
  BY <1>1 DEF Flying
<1>3. saves'[w] = <<s>> /\ Elsewhere(w)
  BY <1>1, ActedFlying
<1>4. Flying(w)' = {s}
  BY <1>3 DEF Flying
<1>5. crossed' = crossed
  BY DEF Acted, Crosses
<1>6. win[w].base = file.timer /\ Agree(win[w].timer, file.timer)
  BY <1>1 DEF CoreInv, AtRest
<1>7. QED
  BY <1>1, <1>2, <1>3, <1>4, <1>5, <1>6 DEF Elsewhere

LEMMA ActsAreSound ==
    ASSUME NEW w \in Windows, NEW v, NEW s, Does(w, v, s)
    PROVE  Sound(s)
  BY DEF Does, Begins, Changes, Cancels, Ends, PutOnly, Sound

LEMMA CoreActed ==
    ASSUME TypeOK, CoreInv, NEW w \in Windows, NEW v, NEW s, NEW queue,
           Acted(w, v, s, queue), Does(w, v, s)
    PROVE  (\A x \in Windows : AtRest(x)') /\ OneInFlight'
<1>1. /\ Elsewhere(w) /\ Keeps(w, {s}) /\ saves'[w] # <<>>
      /\ win'[w] = v /\ (\A x \in Windows \ {w} : win'[x] = win[x])
      /\ file' = file /\ crossed \subseteq crossed'
      /\ v.base = win[w].base /\ v.behind = win[w].behind /\ v.timer = s.timer
      /\ s.written /\ s.mine
  BY ActedFlying, ViewStored DEF Acted, Crosses
<1>2. \A x \in Windows : AtRest(x)
  BY DEF CoreInv
<1>3. ASSUME NEW x \in Windows \ {w} PROVE AtRest(x)'
  <2>1. Agree(win[x].timer, win[x].base) => Agrees(win[x].timer, win[x].base)
    BY <1>1, LapsesForGood
  <2>2. QED
    BY <1>1, <1>2, <2>1 DEF AtRest, Elsewhere, Sound, Agree, Lapsed, Agrees, Lapses
<1>4. AtRest(w)'
  <2>1. \A a \in Flying(w)' : Sound(a)
    BY <1>1, <1>2, LikeIsSound, ActsAreSound DEF Keeps, AtRest
  <2>2. QED
    BY <1>1, <1>2, <2>1 DEF AtRest, Sound
<1>5. CASE Behind(w)
  BY <1>3, <1>4, <1>5, ActsAcross DEF OneInFlight
<1>6. CASE ~Behind(w)
  <2>1. /\ crossed' = crossed /\ ~win[w].behind
        /\ win[w].base = file.timer /\ Agree(win[w].timer, file.timer)
        /\ saves'[w] = <<s>> /\ Flying(w)' = {s}
        /\ \A x \in Windows \ {w} : saves'[x] = <<>>
    BY <1>6, ActsAlone
  <2>2. s.entry # {} => s.before = win[w].timer
    BY DEF Does, Begins, Changes, Cancels, Ends, PutOnly
  <2>3. Alone(w)'
    <3>1. Len(saves'[w]) = 1
      BY <2>1
    <3>2. s.entry # {} => Agrees(s.before, v.base)
      BY <1>1, <2>1, <2>2, LapsesForGood
    <3>3. QED
      BY <1>1, <2>1, <3>1, <3>2 DEF Alone, Agree, Lapsed, Agrees, Lapses
  <2>4. \A x \in Windows \ {w} : Alone(x)'
    BY <2>1 DEF Alone
  <2>5. QED
    BY <1>3, <1>4, <2>3, <2>4 DEF OneInFlight
<1>7. QED
  BY <1>5, <1>6

(* The save that comes back was the only one, or nothing is promised.      *)
LEMMA HeadOf ==
    ASSUME TypeOK, CoreInv, NEW w \in Windows, saves[w] # <<>>
    PROVE  LET s == Head(saves[w]) IN
           /\ s \in Flying(w) /\ s \in Saves /\ Sound(s)
           /\ s.timer \in Sessions /\ s.before \in Sessions
           /\ ~Messy => /\ Alone(w) /\ Len(saves[w]) = 1 /\ Flying(w) = {s}
                        /\ ~win[w].behind /\ win[w].base = file.timer
                        /\ win[w].timer = s.timer
                        /\ \A x \in Windows \ {w} : saves[x] = <<>> /\ Flying(x) = {}
<1>1. saves[w] \in Seq(Saves)
  BY TypeParts
<1>2. Len(saves[w]) \in Nat \ {0} /\ Head(saves[w]) = saves[w][1]
  BY <1>1
<1>3. Head(saves[w]) \in Flying(w)
  BY <1>2 DEF Flying
<1>4. Head(saves[w]) \in Saves /\ Sound(Head(saves[w]))
      /\ Head(saves[w]).timer \in Sessions /\ Head(saves[w]).before \in Sessions
  BY <1>3, TypeParts DEF CoreInv, AtRest
<1>5. ASSUME ~Messy
      PROVE  /\ Alone(w) /\ Len(saves[w]) = 1 /\ Flying(w) = {Head(saves[w])}
             /\ ~win[w].behind /\ win[w].base = file.timer
             /\ win[w].timer = Head(saves[w]).timer
             /\ \A x \in Windows \ {w} : saves[x] = <<>> /\ Flying(x) = {}
  <2>1. Alone(w)
    BY <1>5 DEF CoreInv, OneInFlight
  <2>2. /\ Len(saves[w]) = 1 /\ ~win[w].behind
        /\ \A x \in Windows \ {w} : saves[x] = <<>>
        /\ \A s \in Flying(w) : win[w].timer = s.timer
    BY <2>1 DEF Alone
  <2>3. Flying(w) = {Head(saves[w])}
    BY <1>2, <2>2 DEF Flying
  <2>4. \A x \in Windows \ {w} : Flying(x) = {}
    BY <2>2 DEF Flying
  <2>5. win[w].base = file.timer
    BY <2>2 DEF CoreInv, AtRest
  <2>6. QED
    BY <1>3, <2>1, <2>2, <2>3, <2>4, <2>5
<1>6. QED
  BY <1>3, <1>4, <1>5

LEMMA CoreSaved ==
    ASSUME TypeOK, CoreInv, NEW w \in Windows, NEW v, NEW queue, SavedTo(w, v, queue)
    PROVE  (\A x \in Windows : AtRest(x)') /\ OneInFlight'
<1> DEFINE s == Head(saves[w])
<1>1. /\ Elsewhere(w) /\ Keeps(w, {}) /\ s \in Flying(w)
      /\ Len(saves[w]) = 1 => saves'[w] = <<>>
  BY TailFlying DEF SavedTo, Becomes
<1>2. /\ win'[w] = v /\ crossed' = crossed /\ file'.timer = s.timer
      /\ v.timer = win[w].timer /\ v.base = s.timer /\ ~v.behind
      /\ saves[w] # <<>>
  BY DEF SavedTo, Becomes
<1>3. \A x \in Windows \ {w} : /\ win'[x].behind /\ win'[x].timer = win[x].timer
                               /\ win'[x].base = win[x].base
  <2>1. \A x \in Windows : win[x] \in Views
    BY TypeParts
  <2>2. QED
    BY <2>1 DEF SavedTo, Views
<1> HIDE DEF s
<1>4. \A x \in Windows : AtRest(x)
  BY DEF CoreInv
<1>5. \A x \in Windows \ {w} : AtRest(x)'
  BY <1>1, <1>2, <1>3, <1>4 DEF AtRest, Elsewhere, Agree, Lapsed, Sound
<1>6. \A a \in Flying(w)' : Sound(a)
  BY <1>1, <1>4, LikeIsSound DEF Keeps, AtRest
<1>7. CASE Messy
  <2>1. Lapsed(win[w].timer) /\ Lapsed(s.timer)
    BY <1>1, <1>7, MessyHas
  <2>2. AtRest(w)'
    BY <1>2, <1>6, <2>1 DEF AtRest, Agree, Lapsed, Sound
  <2>3. Messy'
    BY <1>2, <1>7, MessyStays, NothingNew
  <2>4. QED
    BY <1>5, <2>2, <2>3 DEF OneInFlight
<1>8. CASE ~Messy
  <2>1. /\ Len(saves[w]) = 1 /\ win[w].timer = s.timer
        /\ \A x \in Windows \ {w} : saves[x] = <<>>
    BY <1>2, <1>8, HeadOf DEF s
  <2>2. AtRest(w)'
    BY <1>2, <1>6, <2>1 DEF AtRest, Agree, Sound
  <2>3. \A x \in Windows : Alone(x)'
    BY <1>1, <2>1 DEF Alone, Elsewhere
  <2>4. QED
    BY <1>5, <2>2, <2>3 DEF OneInFlight
<1>9. QED
  BY <1>7, <1>8

LEMMA CoreFailed ==
    ASSUME TypeOK, CoreInv, NEW w \in Windows, NEW v, NEW queue, FailedTo(w, v, queue)
    PROVE  (\A x \in Windows : AtRest(x)') /\ OneInFlight'
<1> DEFINE s == Head(saves[w])
<1>1. /\ Elsewhere(w) /\ Keeps(w, {}) /\ s \in Flying(w)
      /\ Len(saves[w]) = 1 => saves'[w] = <<>>
  BY TailFlying DEF FailedTo, Becomes
<1>2. /\ win'[w] = v /\ crossed' = crossed /\ file' = file
      /\ v.base = win[w].base /\ v.behind = win[w].behind
      /\ saves[w] # <<>>
      /\ \A x \in Windows \ {w} : win'[x] = win[x]
      /\ Undoes(w, v, s) \/ LeavesIt(w, v, s) \/ PutsBack(w, v, s)
  BY DEF FailedTo, Becomes
<1> HIDE DEF s
<1>4. \A x \in Windows : AtRest(x)
  BY DEF CoreInv
<1>5. \A x \in Windows \ {w} : AtRest(x)'
  BY <1>1, <1>2, <1>4 DEF AtRest, Elsewhere, Agree, Lapsed, Sound
<1>6. \A a \in Flying(w)' : Sound(a)
  BY <1>1, <1>4, LikeIsSound DEF Keeps, AtRest
<1>7. CASE Messy
  <2>1. Lapsed(win[w].timer) /\ Lapsed(win[w].base) /\ Lapsed(s.before)
    BY <1>1, <1>7, MessyHas
  <2>2. Lapsed(v.timer)
    BY <1>2, <2>1 DEF Undoes, LeavesIt, PutsBack, Restored
  <2>3. AtRest(w)'
    BY <1>2, <1>4, <1>6, <2>1, <2>2 DEF AtRest, Agree, Lapsed, Sound
  <2>4. Messy'
    BY <1>2, <1>7, MessyStays, NothingNew
  <2>5. QED
    BY <1>5, <2>3, <2>4 DEF OneInFlight
<1>8. CASE ~Messy
  <2>1. /\ Len(saves[w]) = 1 /\ win[w].timer = s.timer /\ Alone(w) /\ Sound(s)
        /\ \A x \in Windows \ {w} : saves[x] = <<>>
    BY <1>2, <1>8, HeadOf DEF s
  <2>2. Agree(v.timer, win[w].base)
    <3>1. CASE s.entry = {}
      <4>1. s.written
        BY <1>1, <1>2, <2>1, <3>1 DEF Alone
      <4>2. QED
        BY <1>2, <2>1, <3>1, <4>1 DEF Undoes, LeavesIt, PutsBack, Agree
    <3>2. CASE s.entry # {}
      <4>1. s.mine /\ Agree(s.before, win[w].base) /\ s.timer = None
        BY <1>1, <1>2, <2>1, <3>2 DEF Alone, Sound
      <4>2. QED
        BY <1>2, <2>1, <3>2, <4>1 DEF Undoes, LeavesIt, PutsBack, Restored
    <3>3. QED
      BY <3>1, <3>2
  <2>3. AtRest(w)'
    BY <1>2, <1>4, <1>6, <2>2 DEF AtRest, Agree, Lapsed, Sound
  <2>4. \A x \in Windows : Alone(x)'
    BY <1>1, <2>1 DEF Alone, Elsewhere
  <2>5. QED
    BY <1>5, <2>3, <2>4 DEF OneInFlight
<1>9. QED
  BY <1>7, <1>8

LEMMA CorePolled ==
    ASSUME TypeOK, CoreInv, NEW w \in Windows, NEW v, NEW queue,
           PolledTo(w, v, queue) \/ ReopenedTo(w, v, queue)
    PROVE  (\A x \in Windows : AtRest(x)') /\ OneInFlight'
<1>1. Elsewhere(w) /\ Keeps(w, {}) /\ (~Messy => saves'[w] = <<>>)
  <2>1. CASE PolledTo(w, v, queue)
    <3>1. Elsewhere(w) /\ Keeps(w, {}) /\ (saves[w] = <<>> <=> saves'[w] = <<>>)
      BY <2>1, FadedFlying DEF PolledTo, Becomes
    <3>2. win[w].behind
      BY <2>1 DEF PolledTo
    <3>3. ~Messy => saves[w] = <<>>
      BY <3>2 DEF CoreInv, OneInFlight, Alone
    <3>4. QED
      BY <3>1, <3>3
  <2>2. CASE ReopenedTo(w, v, queue)
    <3>1. Elsewhere(w) /\ saves'[w] = <<>>
      BY <2>2, QueueIsElsewhere DEF ReopenedTo, Becomes
    <3>2. Flying(w)' = {}
      BY <3>1 DEF Flying
    <3>3. QED
      BY <3>1, <3>2 DEF Keeps
  <2>3. QED
    BY <2>1, <2>2
<1>2. /\ win'[w] = v /\ file' = file /\ crossed \subseteq crossed'
      /\ v.timer = file.timer /\ v.base = file.timer
      /\ \A x \in Windows \ {w} : win'[x] = win[x]
  BY DEF PolledTo, ReopenedTo, Becomes
<1>3. \A x \in Windows : AtRest(x)
  BY DEF CoreInv
<1>4. \A t, b : Agree(t, b) => Agrees(t, b)
  BY <1>2, LapsesForGood
<1>5. \A x \in Windows \ {w} : AtRest(x)'
  BY <1>1, <1>2, <1>3, <1>4 DEF AtRest, Elsewhere, Agree, Lapsed, Agrees, Lapses, Sound
<1>6. \A a \in Flying(w)' : Sound(a)
  BY <1>1, <1>3, LikeIsSound DEF Keeps, AtRest
<1>7. AtRest(w)'
  BY <1>2, <1>6 DEF AtRest, Agree, Sound
<1>8. OneInFlight'
  <2>1. CASE Messy
    BY <1>2, <2>1, MessyStays, NothingNew DEF OneInFlight
  <2>2. CASE ~Messy
    <3>1. \A x \in Windows : Alone(x)
      BY <2>2 DEF CoreInv, OneInFlight
    <3>2. Alone(w)'
      BY <1>1, <2>2 DEF Alone
    <3>3. ASSUME NEW x \in Windows \ {w} PROVE Alone(x)'
      <4>1. \A y \in Windows \ {x} : saves[x] # <<>> => saves'[y] = <<>>
        BY <1>1, <2>2, <3>1 DEF Alone, Elsewhere
      <4>2. QED
        BY <1>1, <1>2, <1>4, <3>1, <4>1 DEF Alone, Elsewhere, Agree, Lapsed, Agrees, Lapses
    <3>4. QED
      BY <3>2, <3>3 DEF OneInFlight
  <2>3. QED
    BY <2>1, <2>2
<1>9. QED
  BY <1>5, <1>7, <1>8

LEMMA CoreQuiet ==
    ASSUME TypeOK, CoreInv, \/ \E w \in Windows : \E v : QuietTo(w, v)
                            \/ Ticks
    PROVE  (\A x \in Windows : AtRest(x)') /\ OneInFlight'
<1>1. /\ \A x \in Windows : /\ win'[x].timer = win[x].timer /\ win'[x].base = win[x].base
                            /\ win'[x].behind = win[x].behind
      /\ file' = file /\ saves' = saves /\ crossed' = crossed
  BY DEF QuietTo, Ticks
<1>2. \A x \in Windows : Flying(x)' = Flying(x)
  BY <1>1 DEF Flying
<1>3. \A x \in Windows : AtRest(x)'
  BY <1>1, <1>2 DEF CoreInv, AtRest, Agree, Lapsed, Sound
<1>4. \A x \in Windows : Alone(x) => Alone(x)'
  BY <1>1, <1>2 DEF Alone, Agree, Lapsed
<1>5. \A t : t \in Here' <=> t \in Here
  BY <1>1, <1>2, HereMembers
<1>6. Messy => Messy'
  BY <1>1, <1>5 DEF Messy, Lapsed
<1>7. QED
  BY <1>3, <1>4, <1>6 DEF CoreInv, OneInFlight

LEMMA CoreStep ==
    ASSUME TypeOK, CoreInv, [Next]_vars
    PROVE  CoreInv'
<1>1. (\A x \in Windows : AtRest(x)') /\ OneInFlight'
  BY StepShape, CoreActed, CoreSaved, CoreFailed, CorePolled, CoreQuiet DEF Step
<1>2. QED
  BY <1>1, NumberedStep DEF CoreInv

LEMMA CoreInit ==
    ASSUME Init
    PROVE  CoreInv
<1>1. \A w \in Windows : win[w].timer = None /\ win[w].base = None /\ saves[w] = <<>>
  BY DEF Init, Opened
<1>2. file.timer = None /\ \A w \in Windows : Flying(w) = {}
  BY <1>1 DEF Init, Flying
<1>3. \A t \in Here : t = None
  BY <1>1, <1>2, HereMembers
<1>4. Messy /\ Numbered
  BY <1>3 DEF Messy, Lapsed, Numbered, Issued
<1>5. QED
  BY <1>1, <1>2, <1>4 DEF CoreInv, AtRest, OneInFlight, Agree

(* A window at rest shows the file's session.                              *)
LEMMA CoreSettles ==
    ASSUME TypeOK, CoreInv
    PROVE  SettledShowsTimer
<1> SUFFICES ASSUME NEW w \in Windows, saves[w] = <<>>, ~win[w].behind
             PROVE  \/ win[w].timer = file.timer
                    \/ {win[w].timer.id, file.timer.id} \cap crossed # {}
  BY DEF SettledShowsTimer
<1>1. Agree(win[w].timer, file.timer)
  BY DEF CoreInv, AtRest
<1>2. QED
  BY <1>1 DEF Agree, Lapsed

CoreIndInv == TypeOK /\ CoreInv

LEMMA CoreCorrect == Spec => []CoreIndInv
<1>1. Init => CoreIndInv
  BY TypeInit, CoreInit DEF CoreIndInv
<1>2. CoreIndInv /\ [Next]_vars => CoreIndInv'
  BY TypeStep, CoreStep DEF CoreIndInv
<1>3. QED
  BY <1>1, <1>2, PTL DEF Spec

(* A window at rest that is not behind shows the file's session, with its  *)
(* times, whatever was undone, retried or polled on the way.               *)
THEOREM SettledWindowShowsTimer == Spec => []SettledShowsTimer
<1>1. CoreIndInv => SettledShowsTimer
  BY CoreSettles DEF CoreIndInv
<1>2. QED
  BY <1>1, CoreCorrect, PTL

-----------------------------------------------------------------------------
(* The entries.                                                            *)

Listed ==
    /\ \A e \in file.entries : e.session \in 1..acts
    /\ \A w \in Windows : \A e \in win[w].entries : e.session \in 1..acts
    /\ \A w \in Windows : \A s \in Flying(w) : \A e \in s.sent : e.session \in 1..acts

(* A session that has its entry is not at hand to be entered again.        *)
EnteredIsOver == \A e \in file.entries : e.session \notin crossed =>
    /\ file.timer.id # e.session
    /\ \A w \in Windows : \A s \in Flying(w) :
          s.timer.id # e.session /\ s.before.id # e.session

OncePer == \A e, f \in file.entries :
    e.session = f.session /\ e.session \notin crossed => e = f

(* An entry on a list is in the file, or the save under way carries it.    *)
Backed(w) ==
    /\ \A e \in win[w].entries :
          \/ e.session \in crossed \/ e \in file.entries
          \/ \E s \in Flying(w) : e \in s.entry
    /\ \A s \in Flying(w) : \A e \in s.sent :
          e.session \in crossed \/ e \in file.entries \/ e \in s.entry

EntriesInv == Listed /\ EnteredIsOver /\ OncePer /\ \A w \in Windows : Backed(w)

LEMMA EntriesActed ==
    ASSUME TypeOK, CoreInv, EntriesInv,
           NEW w \in Windows, NEW v, NEW s, NEW queue,
           Acted(w, v, s, queue), Does(w, v, s)
    PROVE  EntriesInv'
<1>1. /\ Elsewhere(w) /\ Keeps(w, {s}) /\ Loses(w, {}) /\ s \in Flying(w)'
      /\ win'[w] = v /\ (\A x \in Windows \ {w} : win'[x] = win[x])
      /\ file' = file /\ crossed \subseteq crossed' /\ acts' = acts + 1
  BY ActedFlying, ViewStored DEF Acted, Crosses
<1>2. acts \in Nat
  BY TimerAssumption DEF TypeOK, Ids
<1>3. win[w].timer \in Here /\ Issued(win[w].timer)
  BY HereMembers DEF CoreInv, Numbered
<1>4. \/ s.entry = {} /\ s.sent = {} /\ v.entries = win[w].entries
      \/ \E e \in Entries : /\ e.session = win[w].timer.id /\ win[w].timer # None
                            /\ s.entry = {e}
                            /\ s.sent = win[w].entries \cup {e} /\ v.entries = s.sent
  BY DEF Does, Begins, Changes, Cancels, Ends, PutOnly
<1>5. Listed'
  <2>1. \A e : e.session \in 1..acts => e.session \in 1..acts'
    BY <1>1, <1>2
  <2>2. \A e \in s.sent \cup v.entries : e.session \in 1..acts
    BY <1>3, <1>4 DEF EntriesInv, Listed, Issued
  <2>3. \A e \in file'.entries : e.session \in 1..acts'
    BY <1>1, <2>1 DEF EntriesInv, Listed
  <2>4. \A x \in Windows : \A e \in win'[x].entries : e.session \in 1..acts'
    BY <1>1, <2>1, <2>2 DEF EntriesInv, Listed
  <2>5. \A x \in Windows : \A a \in Flying(x)' : \A e \in a.sent : e.session \in 1..acts'
    BY <1>1, <2>1, <2>2 DEF EntriesInv, Listed, Elsewhere, Keeps, Like
  <2>6. QED
    BY <2>3, <2>4, <2>5 DEF Listed
<1>6. EnteredIsOver'
  <2> SUFFICES ASSUME NEW e \in file.entries, e.session \notin crossed'
               PROVE  /\ file.timer.id # e.session
                      /\ \A x \in Windows : \A a \in Flying(x)' :
                            a.timer.id # e.session /\ a.before.id # e.session
    BY <1>1 DEF EnteredIsOver
  <2>1. e.session \in 1..acts /\ e.session \notin crossed
    BY <1>1 DEF EntriesInv, Listed
  <2>2. e.session # 0
    BY <2>1, <1>2
  <2>3. file.timer.id # e.session
    BY <2>1 DEF EntriesInv, EnteredIsOver
  <2>4. CASE Behind(w)
    <3>1. \A t \in Here' : Lapses(t)
      BY <2>4, ActsAcross DEF Messy, Lapsed, Lapses
    <3>2. \A t \in Here' : t.id # e.session
      BY <2>2, <3>1, NoneIsASession DEF Lapses
    <3>3. QED
      BY <2>3, <3>2, HereMembers
  <2>5. CASE ~Behind(w)
    <3>1. /\ Agree(win[w].timer, file.timer) /\ Flying(w)' = {s}
          /\ \A x \in Windows \ {w} : Flying(x)' = {}
      BY <2>5, ActsAlone
    <3>2. win[w].timer.id # e.session
      BY <2>1, <2>2, <2>3, <3>1, NoneIsASession DEF Agree, Lapsed
    <3>3. e.session # acts + 1
      BY <1>2, <2>1
    <3>4. s.timer.id # e.session /\ s.before.id # e.session
      BY <2>2, <3>2, <3>3, SubjectIsKnown, OneNew, NoneIsASession
    <3>5. QED
      BY <2>3, <3>1, <3>4
  <2>6. QED
    BY <2>4, <2>5
<1>7. OncePer'
  BY <1>1 DEF EntriesInv, OncePer
<1>8. \A x \in Windows \ {w} : Backed(x)'
  BY <1>1 DEF EntriesInv, Backed, Elsewhere
<1>9. Backed(w)'
  <2>1. Backed(w)
    BY DEF EntriesInv
  <2>2. \A e \in win[w].entries :
          \/ e.session \in crossed' \/ e \in file.entries
          \/ \E a \in Flying(w)' : e \in a.entry
    BY <1>1, <2>1 DEF Backed, Loses, Like
  <2>3. \A e \in v.entries :
          \/ e.session \in crossed' \/ e \in file.entries
          \/ \E a \in Flying(w)' : e \in a.entry
    BY <1>1, <1>4, <2>2
  <2>4. \A e \in win[w].entries : e.session \in crossed' \/ e \in file.entries
    <3> SUFFICES ASSUME NEW e \in win[w].entries, NEW b \in Flying(w), e \in b.entry
                 PROVE  e.session \in crossed'
      BY <1>1, <2>1 DEF Backed
    <3>1. Sound(b) /\ b.before \in Here
      BY HereMembers DEF CoreInv, AtRest
    <3>2. b.before # None /\ e.session = b.before.id
      BY <3>1 DEF Sound
    <3>3. Behind(w)
      BY ActsAlone
    <3>4. Lapses(b.before)
      BY <3>1, <3>3, ActsAcross
    <3>5. QED
      BY <3>2, <3>4 DEF Lapses
  <2>5. \A e \in s.sent : e.session \in crossed' \/ e \in file.entries \/ e \in s.entry
    BY <1>4, <2>4
  <2>6. \A a \in Flying(w)' : \A e \in a.sent :
          e.session \in crossed' \/ e \in file.entries \/ e \in a.entry
    BY <1>1, <2>1, <2>5 DEF Backed, Keeps, Like
  <2>7. QED
    BY <1>1, <2>3, <2>6 DEF Backed
<1>10. QED
  BY <1>5, <1>6, <1>7, <1>8, <1>9 DEF EntriesInv

LEMMA EntriesSaved ==
    ASSUME TypeOK, CoreInv, EntriesInv, NEW w \in Windows, NEW v, NEW queue,
           SavedTo(w, v, queue)
    PROVE  EntriesInv'
<1> DEFINE s == Head(saves[w])
<1>1. /\ Elsewhere(w) /\ Keeps(w, {}) /\ Loses(w, {s}) /\ s \in Flying(w)
      /\ Len(saves[w]) = 1 => saves'[w] = <<>>
  BY TailFlying DEF SavedTo, Becomes
<1>2. /\ win'[w] = v /\ crossed' = crossed /\ acts' = acts
      /\ file'.timer = s.timer /\ file'.entries = file.entries \cup s.sent
      /\ v.entries = win[w].entries \/ v.entries = file'.entries
      /\ saves[w] # <<>>
  BY DEF SavedTo, Becomes
<1>3. \A x \in Windows \ {w} : win'[x].entries = win[x].entries
  <2>1. \A x \in Windows : win[x] \in Views
    BY TypeParts
  <2>2. QED
    BY <2>1 DEF SavedTo, Views
<1>4. /\ Sound(s)
      /\ ~Messy => /\ Len(saves[w]) = 1
                   /\ \A x \in Windows \ {w} : Flying(x) = {}
  BY <1>2, HeadOf
<1> HIDE DEF s
<1>5. acts \in Nat /\ s.before \in Here /\ Issued(s.before)
  BY <1>1, TimerAssumption, HereMembers DEF TypeOK, Ids, CoreInv, Numbered
<1>6. s.entry # {} => \E e \in Entries : s.entry = {e} /\ e.session = s.before.id /\ e \in s.sent
  BY <1>4 DEF Sound
<1>7. \A e \in s.sent : e.session \in crossed \/ e \in file.entries \/ e \in s.entry
  BY <1>1 DEF EntriesInv, Backed
<1>8. Listed'
  <2>1. \A e \in file'.entries : e.session \in 1..acts
    BY <1>1, <1>2 DEF EntriesInv, Listed
  <2>2. \A x \in Windows : \A e \in win'[x].entries : e.session \in 1..acts
    BY <1>2, <1>3, <2>1 DEF EntriesInv, Listed
  <2>3. \A x \in Windows : \A a \in Flying(x)' : \A e \in a.sent : e.session \in 1..acts
    BY <1>1 DEF EntriesInv, Listed, Elsewhere, Keeps, Like
  <2>4. QED
    BY <1>2, <2>1, <2>2, <2>3 DEF Listed
<1>9. EnteredIsOver'
  <2>1. ASSUME NEW e \in file.entries, e.session \notin crossed
        PROVE  /\ s.timer.id # e.session
               /\ \A x \in Windows : \A a \in Flying(x)' :
                     a.timer.id # e.session /\ a.before.id # e.session
    BY <1>1, <2>1 DEF EntriesInv, EnteredIsOver, Elsewhere, Keeps, Like
  <2>2. ASSUME NEW e \in s.entry, e.session \notin crossed
        PROVE  /\ s.timer.id # e.session
               /\ \A x \in Windows : \A a \in Flying(x)' :
                     a.timer.id # e.session /\ a.before.id # e.session
    <3>1. e.session = s.before.id /\ s.timer = None /\ s.before # None
      BY <1>4, <2>2 DEF Sound
    <3>2. e.session # 0
      BY <1>5, <3>1 DEF Issued
    <3>3. ~Messy
      BY <1>1, <2>2, <3>1, MessyHas DEF Lapsed
    <3>4. \A x \in Windows : Flying(x)' = {}
      <4>1. saves'[w] = <<>> /\ \A x \in Windows \ {w} : Flying(x)' = {}
        BY <1>1, <1>4, <3>3 DEF Elsewhere
      <4>2. Flying(w)' = {}
        BY <4>1 DEF Flying
      <4>3. QED
        BY <4>1, <4>2
    <3>5. QED
      BY <3>1, <3>2, <3>4, NoneIsASession
  <2>3. QED
    BY <1>2, <1>7, <2>1, <2>2 DEF EnteredIsOver
<1>10. OncePer'
  <2>1. \A e \in s.entry : \A f \in file.entries :
          e.session = f.session => e.session \in crossed
    BY <1>1, <1>6 DEF EntriesInv, EnteredIsOver
  <2>2. \A e, f \in s.entry : e = f
    BY <1>6
  <2>3. QED
    BY <1>2, <1>7, <2>1, <2>2 DEF EntriesInv, OncePer
<1>11. \A x \in Windows \ {w} : Backed(x)'
  BY <1>1, <1>2, <1>3 DEF EntriesInv, Backed, Elsewhere
<1>12. Backed(w)'
  <2>1. Backed(w)
    BY DEF EntriesInv
  <2>2. s.entry \subseteq file'.entries
    BY <1>2, <1>6
  <2>3. \A e \in win[w].entries :
          \/ e.session \in crossed \/ e \in file'.entries
          \/ \E a \in Flying(w)' : e \in a.entry
    BY <1>1, <1>2, <2>1, <2>2 DEF Backed, Loses, Like
  <2>4. \A a \in Flying(w)' : \A e \in a.sent :
          e.session \in crossed \/ e \in file'.entries \/ e \in a.entry
    BY <1>1, <1>2, <2>1 DEF Backed, Keeps, Like
  <2>5. QED
    BY <1>2, <2>3, <2>4 DEF Backed
<1>13. QED
  BY <1>8, <1>9, <1>10, <1>11, <1>12 DEF EntriesInv

LEMMA EntriesElse ==
    ASSUME TypeOK, CoreInv, EntriesInv, NEW w \in Windows, NEW v, NEW queue,
           \/ FailedTo(w, v, queue) \/ PolledTo(w, v, queue) \/ ReopenedTo(w, v, queue)
    PROVE  EntriesInv'
<1>1. /\ win'[w] = v /\ file' = file /\ acts' = acts /\ crossed \subseteq crossed'
      /\ \A x \in Windows \ {w} : win'[x] = win[x]
  BY DEF FailedTo, PolledTo, ReopenedTo, Becomes
<1>2. /\ Elsewhere(w) /\ Keeps(w, {})
      /\ \A e \in v.entries : \/ e \in file.entries
                             \/ /\ e \in win[w].entries
                                /\ \A b \in Flying(w) : e \in b.entry =>
                                      \E a \in Flying(w)' : e \in a.entry
  <2>1. CASE FailedTo(w, v, queue)
    <3>1. /\ Elsewhere(w) /\ Keeps(w, {}) /\ Loses(w, {Head(saves[w])})
      BY <2>1, TailFlying DEF FailedTo, Becomes
    <3>2. v.entries = win[w].entries \ Head(saves[w]).entry
      BY <2>1 DEF FailedTo
    <3>3. QED
      BY <3>1, <3>2 DEF Loses, Like
  <2>2. CASE PolledTo(w, v, queue)
    <3>1. Elsewhere(w) /\ Keeps(w, {})
      BY <2>2, FadedFlying DEF PolledTo, Becomes
    <3>2. v.entries = file.entries
      BY <2>2 DEF PolledTo
    <3>3. QED
      BY <3>1, <3>2
  <2>3. CASE ReopenedTo(w, v, queue)
    <3>1. Elsewhere(w) /\ saves'[w] = <<>>
      BY <2>3, QueueIsElsewhere DEF ReopenedTo, Becomes
    <3>2. Flying(w)' = {}
      BY <3>1 DEF Flying
    <3>3. v.entries = file.entries
      BY <2>3 DEF ReopenedTo
    <3>4. QED
      BY <3>1, <3>2, <3>3 DEF Keeps
  <2>4. QED
    BY <2>1, <2>2, <2>3
<1>3. \A x \in Windows : \A a \in Flying(x)' : \E b \in Flying(x) : Like(a, b)
  BY <1>2 DEF Elsewhere, Keeps, Like
<1>4. Listed'
  BY <1>1, <1>2, <1>3 DEF EntriesInv, Listed, Like
<1>5. EnteredIsOver'
  BY <1>1, <1>3 DEF EntriesInv, EnteredIsOver, Like
<1>6. OncePer'
  BY <1>1 DEF EntriesInv, OncePer
<1>7. \A x \in Windows \ {w} : Backed(x)'
  BY <1>1, <1>2 DEF EntriesInv, Backed, Elsewhere
<1>8. Backed(w)'
  BY <1>1, <1>2, <1>3 DEF EntriesInv, Backed, Like
<1>9. QED
  BY <1>4, <1>5, <1>6, <1>7, <1>8 DEF EntriesInv

LEMMA EntriesQuiet ==
    ASSUME EntriesInv, (\E w \in Windows : \E v : QuietTo(w, v)) \/ Ticks
    PROVE  EntriesInv'
<1>1. /\ \A x \in Windows : win'[x].entries = win[x].entries
      /\ file' = file /\ saves' = saves /\ crossed' = crossed /\ acts' = acts
  BY DEF QuietTo, Ticks
<1>2. \A x \in Windows : Flying(x)' = Flying(x)
  BY <1>1 DEF Flying
<1>3. Listed' /\ EnteredIsOver' /\ OncePer'
  BY <1>1, <1>2 DEF EntriesInv, Listed, EnteredIsOver, OncePer
<1>4. \A x \in Windows : Backed(x)'
  BY <1>1, <1>2 DEF EntriesInv, Backed
<1>5. QED
  BY <1>3, <1>4 DEF EntriesInv

EntriesIndInv == CoreIndInv /\ EntriesInv

LEMMA EntriesCorrect == Spec => []EntriesIndInv
<1>1. Init => EntriesIndInv
  <2> SUFFICES ASSUME Init PROVE EntriesIndInv
    OBVIOUS
  <2>1. CoreIndInv
    BY TypeInit, CoreInit DEF CoreIndInv
  <2>2. /\ file.entries = {} /\ \A w \in Windows : win[w].entries = {} /\ saves[w] = <<>>
    BY DEF Init, Opened
  <2>3. \A w \in Windows : Flying(w) = {}
    BY <2>2 DEF Flying
  <2>4. QED
    BY <2>1, <2>2, <2>3 DEF EntriesIndInv, EntriesInv, Listed, EnteredIsOver, OncePer, Backed
<1>2. EntriesIndInv /\ [Next]_vars => EntriesIndInv'
  <2> SUFFICES ASSUME EntriesIndInv, [Next]_vars PROVE EntriesIndInv'
    OBVIOUS
  <2>1. TypeOK /\ CoreInv /\ EntriesInv
    BY DEF EntriesIndInv, CoreIndInv
  <2>2. TypeOK' /\ CoreInv'
    BY <2>1, TypeStep, CoreStep
  <2>3. EntriesInv'
    BY <2>1, StepShape, EntriesActed, EntriesSaved, EntriesElse, EntriesQuiet DEF Step
  <2>4. QED
    BY <2>2, <2>3 DEF EntriesIndInv, CoreIndInv
<1>3. QED
  BY <1>1, <1>2, PTL DEF Spec

(* A session is entered once, whatever fails and is retried, unless a      *)
(* window acted on it before it had seen the last change.                  *)
THEOREM SessionIsSavedOnce == Spec => []SavedOnce
<1>1. EntriesIndInv => SavedOnce
  <2> SUFFICES ASSUME OncePer, NEW id \in Ids \ crossed
               PROVE  Cardinality({e \in file.entries : e.session = id}) <= 1
    BY DEF EntriesIndInv, EntriesInv, SavedOnce
  <2> DEFINE E == {e \in file.entries : e.session = id}
  <2>1. \A e, f \in E : e = f
    BY DEF OncePer
  <2> HIDE DEF E
  <2>2. Cardinality(E) <= 1
    <3>1. CASE E = {}
      BY <3>1, FS_EmptySet
    <3>2. CASE E # {}
      <4>1. PICK e : E = {e}
        BY <2>1, <3>2
      <4>2. Cardinality({e}) = 1
        BY FS_Singleton
      <4>3. QED
        BY <4>1, <4>2
    <3>3. QED
      BY <3>1, <3>2
  <2>3. QED
    BY <2>2 DEF E
<1>2. QED
  BY <1>1, EntriesCorrect, PTL

(* A session leaves the file with its entry, or because it was cancelled,  *)
(* or for a window that did not know of it; a failed stop loses nothing.   *)
THEOREM SessionNotLost == Spec => SessionIsNotLost
<1> DEFINE Lost == file'.timer.id # file.timer.id /\ file.timer # None =>
                     \/ file.timer.id \in crossed
                     \/ \E e \in file'.entries : e.session = file.timer.id
                     \/ \E w \in Windows : saves[w] # <<>> /\ Head(saves[w]).entry = {}
<1>1. CoreIndInv /\ [Next]_vars => [Lost]_vars
  <2> SUFFICES ASSUME TypeOK, CoreInv, [Next]_vars, file'.timer.id # file.timer.id,
                      file.timer # None,
                      \A w \in Windows : saves[w] # <<>> => Head(saves[w]).entry # {}
               PROVE  \/ file.timer.id \in crossed
                      \/ \E e \in file'.entries : e.session = file.timer.id
    BY DEF CoreIndInv
  <2>w. PICK w \in Windows : \E v, queue : SavedTo(w, v, queue)
    BY StepShape DEF Step, Acted, FailedTo, PolledTo, ReopenedTo, QuietTo, Ticks
  <2>1. PICK v, queue : SavedTo(w, v, queue)
    BY <2>w
  <2> DEFINE s == Head(saves[w])
  <2>2. saves[w] # <<>> /\ file'.entries = file.entries \cup s.sent
    BY <2>1 DEF SavedTo
  <2>3. /\ s \in Flying(w) /\ Sound(s) /\ s.entry # {}
        /\ ~Messy => Alone(w) /\ win[w].base = file.timer
    BY <2>2, HeadOf
  <2> HIDE DEF s
  <2>4. \E e \in file'.entries : e.session = s.before.id
    BY <2>2, <2>3 DEF Sound
  <2>5. CASE Messy
    BY <2>5, MessyHas DEF Lapsed
  <2>6. CASE ~Messy
    <3>1. Agree(s.before, file.timer)
      BY <2>2, <2>3, <2>6 DEF Alone
    <3>2. QED
      BY <2>4, <3>1 DEF Agree, Lapsed
  <2>7. QED
    BY <2>5, <2>6
<1>2. QED
  BY <1>1, CoreCorrect, PTL DEF Spec, SessionIsNotLost

-----------------------------------------------------------------------------
(* What a window knows of a session's limit.                               *)

Seen(w, t) == t = None \/ t.id \in crossed \cup watched[w]
Spent(w, t) == t # None /\ t.limit /\ t.id \in stopped[w] /\ t.id \notin crossed

SeesOnly(w) == win[w].saw =>
    /\ Seen(w, win[w].timer)
    /\ \A s \in Flying(w) : s.mine => Seen(w, s.before)

(* What a window can come to show.                                         *)
Near(w, t) ==
    \/ t = file.timer \/ t = win[w].timer \/ t = win[w].base
    \/ \E x \in Windows : \E s \in Flying(x) : t = s.timer \/ t = s.before

(* A session stopped by its limit stays over it ...                        *)
StoppedOver(w) == \A t : Near(w, t) /\ Spent(w, t) => Elapsed(t) >= LimitMinutes
(* ... so a window that would stop it knows that it tried.                 *)
StoppedTried(w) == win[w].saw /\ ~win[w].tried =>
    /\ ~Spent(w, win[w].timer)
    /\ \A s \in Flying(w) : s.mine => ~Spent(w, s.before)

(* A limit that was removed does not come back.                            *)
Newer(u) == u = file.timer \/ \E x \in Windows : \E s \in Flying(x) : u = s.timer
Known(t) == t = file.timer \/ \E x \in Windows : saves[x] = <<>> /\ t = win[x].timer
LimitGone == \A t, u : Known(t) /\ Newer(u) /\ t.id = u.id /\ u.id \notin crossed /\ u.limit
                           => t.limit

StoppedKnown == \A w \in Windows : stopped[w] \subseteq 1..acts

Watching == LimitGone /\ \A w \in Windows : SeesOnly(w) /\ StoppedOver(w) /\ StoppedTried(w)
WatchInv == StoppedKnown /\ Watching

LEMMA NearIsHere ==
    /\ \A w \in Windows : \A t : Near(w, t) => t \in Here
    /\ \A u : Newer(u) => u \in Here
  BY HereMembers DEF Near, Newer

LEMMA MessyWatches == Messy => Watching
<1> SUFFICES ASSUME Messy PROVE Watching
  OBVIOUS
<1>1. \A t \in Here : Lapsed(t)
  BY DEF Messy
<1>2. LimitGone
  BY <1>1, NearIsHere, NoneIsASession DEF LimitGone, Lapsed
<1>3. ASSUME NEW w \in Windows PROVE SeesOnly(w) /\ StoppedOver(w) /\ StoppedTried(w)
  <2>1. Lapsed(win[w].timer) /\ \A s \in Flying(w) : Lapsed(s.before)
    BY MessyHas
  <2>2. SeesOnly(w)
    BY <2>1 DEF SeesOnly, Seen, Lapsed
  <2>3. StoppedTried(w)
    BY <2>1 DEF StoppedTried, Spent, Lapsed
  <2>4. StoppedOver(w)
    BY <1>1, NearIsHere DEF StoppedOver, Spent, Lapsed
  <2>5. QED
    BY <2>2, <2>3, <2>4
<1>4. QED
  BY <1>2, <1>3 DEF Watching

LEMMA MessyWatchesNext == Messy' => Watching'
  BY MessyWatches, PTL

LEMMA StaysMessy ==
    ASSUME TypeOK, CoreInv, Messy, NEW w \in Windows, NEW v, NEW queue,
           \/ SavedTo(w, v, queue) \/ FailedTo(w, v, queue)
           \/ PolledTo(w, v, queue) \/ ReopenedTo(w, v, queue)
    PROVE  Messy'
<1>1. crossed \subseteq crossed'
  BY DEF SavedTo, FailedTo, PolledTo, ReopenedTo
<1>2. QED
  BY <1>1, NothingNew, MessyStays

LEMMA StoppedKnownStep ==
    ASSUME TypeOK, CoreInv, WatchInv, [Next]_vars
    PROVE  StoppedKnown'
<1>1. acts \in Nat /\ StoppedKnown /\ stopped \in [Windows -> SUBSET Ids]
  BY TimerAssumption DEF TypeOK, Ids, WatchInv
<1>2. ASSUME NEW w \in Windows, NEW v, NEW s, NEW queue, Acted(w, v, s, queue), Does(w, v, s)
      PROVE  StoppedKnown'
  <2>1. acts' = acts + 1
    BY <1>2 DEF Acted
  <2>2. Issued(win[w].timer)
    BY HereMembers DEF CoreInv, Numbered
  <2>3. \/ stopped' = stopped
        \/ win[w].timer # None /\ stopped' = [stopped EXCEPT ![w] = @ \cup {win[w].timer.id}]
    BY <1>2 DEF Does, Begins, Changes, Cancels, Ends, PutOnly
  <2>4. 1..acts \subseteq 1..acts + 1
    BY <1>1
  <2>5. QED
    BY <1>1, <2>1, <2>2, <2>3, <2>4 DEF StoppedKnown, Issued
<1>3. ASSUME NEW w \in Windows, NEW v, NEW queue,
             \/ SavedTo(w, v, queue) \/ FailedTo(w, v, queue)
             \/ PolledTo(w, v, queue)
      PROVE  StoppedKnown'
  BY <1>1, <1>3 DEF StoppedKnown, SavedTo, FailedTo, PolledTo, Becomes
<1>4. ASSUME NEW w \in Windows, NEW v, NEW queue, ReopenedTo(w, v, queue)
      PROVE  StoppedKnown'
  BY <1>1, <1>4 DEF StoppedKnown, ReopenedTo, Becomes
<1>5. CASE (\E w \in Windows : \E v : QuietTo(w, v)) \/ Ticks
  BY <1>1, <1>5 DEF StoppedKnown, QuietTo, Ticks
<1>6. QED
  BY <1>2, <1>3, <1>4, <1>5, StepShape DEF Step

LEMMA ElapsedNext ==
    ASSUME clock' = clock, NEW t
    PROVE  Elapsed(t)' = Elapsed(t)
  BY DEF Elapsed, Banked, Max0

LEMMA WatchActed ==
    ASSUME TypeOK, CoreInv, WatchInv,
           NEW w \in Windows, NEW v, NEW s, NEW queue,
           Acted(w, v, s, queue), Does(w, v, s)
    PROVE  Watching'
<1>1. CASE Behind(w)
  BY <1>1, ActsAcross, MessyWatchesNext
<1>2. CASE ~Behind(w)
  <2> DEFINE T == win[w].timer
             F == file.timer
  <2>1. /\ crossed' = crossed
        /\ \A x \in Windows : saves[x] = <<>> /\ Flying(x) = {}
        /\ win[w].base = F /\ Agree(T, F)
        /\ saves'[w] = <<s>> /\ Flying(w)' = {s}
        /\ \A x \in Windows \ {w} : saves'[x] = <<>> /\ Flying(x)' = {}
    BY <1>2, ActsAlone
  <2>2. /\ win'[w] = v /\ (\A x \in Windows \ {w} : win'[x] = win[x])
        /\ file' = file /\ clock' = clock
        /\ v.timer = s.timer /\ v.base = F
    BY <2>1, ViewStored DEF Acted
  <2>3. acts \in Nat /\ acts + 1 \notin 1..acts /\ acts + 1 # 0
    BY TimerAssumption DEF TypeOK, Ids
  <2>4. Issued(F) /\ \A x \in Windows : Issued(win[x].timer) /\ Issued(win[x].base)
    BY HereMembers DEF CoreInv, Numbered
  <2>5. T # None /\ T.id \notin crossed => T = F
    BY <2>1 DEF Agree, Lapsed
  <2>6. LimitGone /\ \A x \in Windows : SeesOnly(x) /\ StoppedOver(x) /\ StoppedTried(x)
    BY DEF WatchInv, Watching
  <2>7. \A x \in Windows : stopped[x] \subseteq 1..acts
    BY DEF WatchInv, StoppedKnown
  <2>8. \A t : Elapsed(t)' = Elapsed(t)
    BY <2>2, ElapsedNext
  <2>9. watched' = watched
    BY DEF Does, Begins, Changes, Cancels, Ends, PutOnly
  <2>10. \/ s.timer = None
         \/ s.timer.id = acts + 1 /\ s.before = None /\ stopped' = stopped /\ ~v.saw
         \/ Changes(w, v, s)
    BY DEF Does, Begins, Cancels, Ends, PutOnly
  <2> HIDE DEF T, F
  <2>11. LimitGone'
    <3> SUFFICES ASSUME NEW t, NEW u, Known(t)', Newer(u)', t.id = u.id, u.id \notin crossed, u.limit
                 PROVE  t.limit
      BY <2>1 DEF LimitGone
    <3>1. Known(t)
      BY <2>1, <2>2 DEF Known
    <3>2. Newer(u) \/ u = s.timer
      BY <2>1, <2>2 DEF Newer
    <3>3. CASE Newer(u)
      BY <2>6, <3>1, <3>3 DEF LimitGone
    <3>4. CASE u = s.timer
      <4>1. u # None
        BY NoneIsASession
      <4>2. u.id # acts + 1
        BY <2>3, <2>4, <3>1, NoneIsASession DEF Known, Issued, F
      <4>3. Changes(w, v, s)
        BY <2>10, <3>4, <4>1, <4>2
      <4>4. T # None /\ u.id = T.id /\ T.limit
        BY <3>4, <4>3 DEF Changes, T
      <4>5. T = F /\ Newer(F)
        BY <2>5, <4>4 DEF Newer, F
      <4>6. QED
        BY <2>6, <3>1, <4>4, <4>5 DEF LimitGone
    <3>5. QED
      BY <3>2, <3>3, <3>4
  <2>12. \A x \in Windows \ {w} : SeesOnly(x)' /\ StoppedTried(x)'
    <3>1. \A x \in Windows \ {w} : stopped'[x] = stopped[x]
      BY DEF Does, Begins, Changes, Cancels, Ends, PutOnly, TypeOK
    <3>2. QED
      BY <2>1, <2>2, <2>6, <2>9, <3>1 DEF SeesOnly, StoppedTried, Seen, Spent
  <2>13. SeesOnly(w)'
    <3>1. CASE Changes(w, v, s)
      <4>1. s.before = None /\ v.saw = win[w].saw /\ T # None /\ s.timer.id = T.id
        BY <3>1 DEF Changes, PutOnly, T
      <4>2. win[w].saw => Seen(w, T)
        BY <2>6 DEF SeesOnly, T
      <4>3. QED
        BY <2>1, <2>2, <2>9, <4>1, <4>2 DEF SeesOnly, Seen
    <3>2. CASE Ends(w, v, s)
      <4>1. s.timer = None /\ s.before = T /\ v.saw = win[w].saw
        BY <3>2 DEF Ends, T
      <4>2. win[w].saw => Seen(w, T)
        BY <2>6 DEF SeesOnly, T
      <4>3. QED
        BY <2>1, <2>2, <2>9, <4>1, <4>2 DEF SeesOnly, Seen
    <3>3. CASE Begins(w, v, s) \/ Cancels(w, v, s)
      BY <2>2, <3>3 DEF Begins, Cancels, SeesOnly
    <3>4. QED
      BY <3>1, <3>2, <3>3 DEF Does
  <2>14. StoppedTried(w)'
    <3>1. CASE Changes(w, v, s)
      <4>1. /\ s.before = None /\ v.saw = win[w].saw /\ v.tried = win[w].tried
            /\ T # None /\ s.timer.id = T.id /\ (s.timer.limit => T.limit) /\ stopped' = stopped
        BY <3>1 DEF Changes, PutOnly, T
      <4>2. win[w].saw /\ ~win[w].tried => ~Spent(w, T)
        BY <2>6 DEF StoppedTried, T
      <4>3. QED
        BY <2>1, <2>2, <4>1, <4>2 DEF StoppedTried, Spent
    <3>2. CASE Ends(w, v, s)
      <4>1. /\ s.timer = None /\ s.before = T /\ v.saw = win[w].saw /\ (win[w].tried => v.tried)
            /\ stopped' = stopped \/ v.tried
        BY <3>2 DEF Ends, T
      <4>2. win[w].saw /\ ~win[w].tried => ~Spent(w, T)
        BY <2>6 DEF StoppedTried, T
      <4>3. QED
        BY <2>1, <2>2, <4>1, <4>2 DEF StoppedTried, Spent
    <3>3. CASE Begins(w, v, s) \/ Cancels(w, v, s)
      BY <2>2, <3>3 DEF Begins, Cancels, StoppedTried
    <3>4. QED
      BY <3>1, <3>2, <3>3 DEF Does
  <2>15. ASSUME NEW x \in Windows PROVE StoppedOver(x)'
    <3>1. \/ stopped'[x] = stopped[x]
          \/ /\ x = w /\ stopped'[x] = stopped[x] \cup {T.id} /\ OverLimit(T) /\ T # None
             /\ Ends(w, v, s)
      BY DEF Does, Begins, Changes, Cancels, Ends, PutOnly, TypeOK, T
    <3>2. stopped'[x] \subseteq 1..acts
      BY <2>4, <2>7, <3>1 DEF Issued, T
    <3>3. Spent(x, F)' => Elapsed(F) >= LimitMinutes
      <4>1. CASE Spent(x, F)
        BY <2>6, <4>1 DEF StoppedOver, Near, F
      <4>2. CASE Spent(x, F)' /\ ~Spent(x, F)
        <5>1. F.id = T.id /\ OverLimit(T) /\ T # None /\ F.id \notin crossed
          BY <2>1, <2>2, <3>1, <4>2 DEF Spent, F
        <5>2. T = F
          BY <2>5, <5>1
        <5>3. QED
          BY <5>1, <5>2 DEF OverLimit
      <4>3. QED
        BY <4>1, <4>2
    <3>4. ASSUME Spent(x, s.timer)' PROVE Elapsed(s.timer) >= LimitMinutes
      <4>1. /\ s.timer # None /\ s.timer.id # acts + 1 /\ s.timer.limit
            /\ s.timer.id \notin crossed /\ s.timer.id \in stopped'[x]
        BY <2>1, <2>3, <3>2, <3>4 DEF Spent
      <4>2. Changes(w, v, s)
        BY <2>10, <4>1
      <4>3. T # None /\ s.timer.id = T.id /\ T.limit /\ Elapsed(s.timer) = Elapsed(T)
        BY <4>1, <4>2 DEF Changes, T
      <4>4. T = F
        BY <2>5, <4>1, <4>3
      <4>5. Spent(x, F)'
        BY <2>1, <2>2, <4>1, <4>3, <4>4 DEF Spent, F
      <4>6. QED
        BY <3>3, <4>3, <4>4, <4>5
    <3>5. ASSUME Spent(x, s.before)' PROVE Elapsed(s.before) >= LimitMinutes
      <4>1. s.before = T /\ T # None /\ T.id \notin crossed
        BY <2>1, <3>5, OneNew DEF Spent, T
      <4>2. T = F
        BY <2>5, <4>1
      <4>3. QED
        BY <2>2, <3>3, <3>5, <4>1, <4>2 DEF F
    <3>6. ASSUME NEW t, x # w, t = win[x].timer \/ t = win[x].base, Spent(x, t)'
          PROVE  Elapsed(t) >= LimitMinutes
      <4>1. Spent(x, t)
        BY <2>1, <3>1, <3>6 DEF Spent
      <4>2. QED
        BY <2>6, <3>6, <4>1 DEF StoppedOver, Near
    <3> SUFFICES ASSUME NEW t, Near(x, t)', Spent(x, t)' PROVE Elapsed(t) >= LimitMinutes
      BY <2>8 DEF StoppedOver
    <3>7. \/ t = F \/ t = s.timer \/ t = s.before
          \/ x # w /\ (t = win[x].timer \/ t = win[x].base)
      BY <2>1, <2>2 DEF Near, F
    <3>8. CASE t = F
      BY <2>2, <3>3, <3>8 DEF Spent, F
    <3>9. CASE t = s.timer
      BY <3>4, <3>9 DEF Spent
    <3>10. CASE t = s.before
      BY <3>5, <3>10 DEF Spent
    <3>11. QED
      BY <3>6, <3>7, <3>8, <3>9, <3>10
  <2>16. QED
    BY <2>11, <2>12, <2>13, <2>14, <2>15 DEF Watching
<1>3. QED
  BY <1>1, <1>2

(* The answer of a save, when there is something to promise.               *)
LEMMA WatchAnswered ==
    ASSUME TypeOK, CoreInv, WatchInv, NEW w \in Windows, NEW v, NEW queue,
           SavedTo(w, v, queue) \/ FailedTo(w, v, queue)
    PROVE  Watching'
<1>1. CASE Messy
  BY <1>1, StaysMessy, MessyWatchesNext
<1>2. CASE ~Messy
  <2> DEFINE s == Head(saves[w])
             F == file.timer
  <2>1. /\ Elsewhere(w) /\ (Len(saves[w]) = 1 => saves'[w] = <<>>)
        /\ win'[w] = v /\ crossed' = crossed /\ clock' = clock
        /\ UNCHANGED <<watched, stopped>> /\ saves[w] # <<>>
    BY TailFlying DEF SavedTo, FailedTo, Becomes
  <2>2. /\ Len(saves[w]) = 1 /\ s \in Flying(w) /\ Flying(w) = {s} /\ win[w].timer = s.timer
        /\ win[w].base = F /\ Alone(w) /\ Sound(s)
        /\ \A x \in Windows \ {w} : saves[x] = <<>> /\ Flying(x) = {}
    BY <1>2, <2>1, HeadOf
  <2>3. \A x \in Windows : saves'[x] = <<>> /\ Flying(x)' = {}
    <3>1. saves'[w] = <<>> /\ \A x \in Windows \ {w} : saves'[x] = <<>> /\ Flying(x)' = {}
      BY <2>1, <2>2 DEF Elsewhere
    <3>2. Flying(w)' = {}
      BY <3>1 DEF Flying
    <3>3. QED
      BY <3>1, <3>2
  <2>4. \A x \in Windows \ {w} : /\ win'[x].timer = win[x].timer /\ win'[x].base = win[x].base
                                 /\ win'[x].saw = win[x].saw /\ win'[x].tried = win[x].tried
    <3>1. \A x \in Windows : win[x] \in Views
      BY TypeParts
    <3>2. QED
      BY <3>1 DEF SavedTo, FailedTo, Views
  <2>5. LimitGone /\ \A x \in Windows : SeesOnly(x) /\ StoppedOver(x) /\ StoppedTried(x)
    BY DEF WatchInv, Watching
  <2>6. \A t : Elapsed(t)' = Elapsed(t)
    BY <2>1, ElapsedNext
  <2>7. /\ file'.timer = F \/ file'.timer = s.timer
        /\ v.base = F \/ v.base = s.timer
        /\ v.timer = win[w].timer \/ v.timer = F \/ v.timer = s.before
    BY <2>2 DEF SavedTo, FailedTo, Undoes, LeavesIt, PutsBack, Restored
  <2>8. Agree(v.timer, file'.timer)
    <3>1. CASE SavedTo(w, v, queue)
      BY <2>2, <3>1 DEF SavedTo, Agree
    <3>2. CASE FailedTo(w, v, queue)
      <4>1. AtRest(w)'
        BY <3>2, CoreFailed
      <4>2. v.base = F /\ ~v.behind /\ file' = file
        BY <2>2, <3>2 DEF FailedTo, Alone
      <4>3. Agree(v.timer, v.base)
        BY <2>1, <2>3, <4>1 DEF AtRest, Agree, Lapsed
      <4>4. QED
        BY <4>2, <4>3
    <3>3. QED
      BY <3>1, <3>2
  <2>9. /\ s.mine \/ v.timer # s.before \/ v.timer = win[w].timer \/ v.timer = F
        /\ v.saw => /\ v.saw = win[w].saw /\ v.tried = win[w].tried
                    /\ v.timer = win[w].timer \/ (s.mine /\ v.timer = s.before)
    BY <2>2 DEF SavedTo, FailedTo, Undoes, LeavesIt, PutsBack, Restored, Sound
  <2> HIDE DEF s, F
  <2>10. LimitGone'
    <3> SUFFICES ASSUME NEW t, NEW u, Known(t)', Newer(u)', t.id = u.id, u.id \notin crossed, u.limit
                 PROVE  t.limit
      BY <2>1 DEF LimitGone
    <3>1. u = file'.timer /\ Newer(u) /\ u # None
      BY <2>2, <2>3, <2>7, NoneIsASession DEF Newer, F
    <3>2. t = file'.timer \/ t = v.timer \/ Known(t)
      BY <2>1, <2>2, <2>3, <2>4 DEF Known
    <3>3. CASE t = file'.timer
      BY <3>1, <3>3
    <3>4. CASE t = v.timer
      BY <2>8, <3>1, <3>4 DEF Agree, Lapsed
    <3>5. CASE Known(t)
      BY <2>5, <3>1, <3>5 DEF LimitGone
    <3>6. QED
      BY <3>2, <3>3, <3>4, <3>5
  <2>11. ASSUME NEW x \in Windows PROVE SeesOnly(x)' /\ StoppedTried(x)'
    <3>1. CASE x # w
      BY <2>1, <2>3, <2>4, <2>5, <3>1 DEF SeesOnly, StoppedTried, Seen, Spent
    <3>2. CASE x = w
      BY <2>1, <2>2, <2>3, <2>5, <2>9, <3>2 DEF SeesOnly, StoppedTried, Seen, Spent
    <3>3. QED
      BY <3>1, <3>2
  <2>12. ASSUME NEW x \in Windows PROVE StoppedOver(x)'
    <3> SUFFICES ASSUME NEW t, Near(x, t)', Spent(x, t)' PROVE Elapsed(t) >= LimitMinutes
      BY <2>6 DEF StoppedOver
    <3>1. Near(x, t)
      BY <2>1, <2>2, <2>3, <2>4, <2>7 DEF Near, F
    <3>2. Spent(x, t)
      BY <2>1 DEF Spent
    <3>3. QED
      BY <2>5, <3>1, <3>2 DEF StoppedOver
  <2>13. QED
    BY <2>10, <2>11, <2>12 DEF Watching
<1>3. QED
  BY <1>1, <1>2

LEMMA SameAsNone ==
    ASSUME NEW a, NEW b, SameSession(a, b), a = None
    PROVE  b = None
  BY DEF SameSession

LEMMA WatchPolled ==
    ASSUME TypeOK, CoreInv, WatchInv, NEW w \in Windows, NEW v, NEW queue,
           PolledTo(w, v, queue) \/ ReopenedTo(w, v, queue)
    PROVE  Watching'
<1>1. CASE Messy
  BY <1>1, StaysMessy, MessyWatchesNext
<1>2. CASE ~Messy
  <2> DEFINE F == file.timer
             T == win[w].timer
  <2>1. /\ win'[w] = v /\ file' = file /\ crossed \subseteq crossed' /\ clock' = clock
        /\ v.timer = F /\ v.base = F
        /\ \A x \in Windows \ {w} : win'[x] = win[x]
    BY DEF PolledTo, ReopenedTo, Becomes
  <2>2. Elsewhere(w) /\ saves'[w] = <<>> /\ (PolledTo(w, v, queue) => saves[w] = <<>>)
    <3>1. CASE PolledTo(w, v, queue)
      <4>1. Elsewhere(w) /\ (saves[w] = <<>> <=> saves'[w] = <<>>)
        BY <3>1, FadedFlying DEF PolledTo, Becomes
      <4>2. win[w].behind
        BY <3>1 DEF PolledTo
      <4>3. saves[w] = <<>>
        BY <1>2, <4>2 DEF CoreInv, OneInFlight, Alone
      <4>4. QED
        BY <4>1, <4>3
    <3>2. CASE ReopenedTo(w, v, queue) /\ ~PolledTo(w, v, queue)
      BY <3>2, QueueIsElsewhere DEF ReopenedTo, Becomes
    <3>3. QED
      BY <3>1, <3>2
  <2>3. Flying(w)' = {} /\ \A x \in Windows \ {w} : Flying(x)' = Flying(x) /\ saves'[x] = saves[x]
    <3>1. Flying(w)' = {}
      BY <2>2 DEF Flying
    <3>2. QED
      BY <2>2, <3>1 DEF Elsewhere
  <2>4. LimitGone /\ \A x \in Windows : SeesOnly(x) /\ StoppedOver(x) /\ StoppedTried(x)
    BY DEF WatchInv, Watching
  <2>5. \A t : Elapsed(t)' = Elapsed(t)
    BY <2>1, ElapsedNext
  <2>6. /\ \A x \in Windows \ {w} : watched'[x] = watched[x] /\ stopped'[x] = stopped[x]
        /\ PolledTo(w, v, queue) => UNCHANGED <<watched, stopped>>
        /\ ~PolledTo(w, v, queue) => stopped'[w] = {} /\ ~v.saw
    BY DEF PolledTo, ReopenedTo, TypeOK
  <2>7. Issued(F) /\ Issued(T) /\ acts \in Nat
    BY TimerAssumption, HereMembers DEF CoreInv, Numbered, TypeOK, Ids
  <2> HIDE DEF F, T
  <2>8. LimitGone'
    <3> SUFFICES ASSUME NEW t, NEW u, Known(t)', Newer(u)', t.id = u.id, u.id \notin crossed', u.limit
                 PROVE  t.limit
      BY DEF LimitGone
    <3>1. Known(t)
      BY <2>1, <2>3 DEF Known, F
    <3>2. Newer(u)
      BY <2>1, <2>3 DEF Newer
    <3>3. QED
      BY <2>1, <2>4, <3>1, <3>2 DEF LimitGone
  <2>9. \A x \in Windows \ {w} : SeesOnly(x)' /\ StoppedTried(x)'
    BY <2>1, <2>3, <2>4, <2>6 DEF SeesOnly, StoppedTried, Seen, Spent
  <2>10. ASSUME v.saw
         PROVE  /\ PolledTo(w, v, queue) /\ saves[w] = <<>> /\ SameSession(T, F)
                /\ v.saw = win[w].saw /\ v.tried = win[w].tried
                /\ UNCHANGED <<watched, stopped>>
                /\ F = None \/ F.id \in crossed' \/ (T # None /\ T.id = F.id)
    <3>1. PolledTo(w, v, queue) /\ saves[w] = <<>> /\ UNCHANGED <<watched, stopped>>
      BY <2>2, <2>6, <2>10
    <3>2. SameSession(T, F) /\ v.saw = win[w].saw /\ v.tried = win[w].tried
      BY <2>10, <3>1 DEF PolledTo, F, T
    <3>3. T.id # F.id => F.id \in crossed'
      BY <3>1, <3>2 DEF PolledTo, Mistaken, F, T
    <3>4. QED
      BY <3>1, <3>2, <3>3, SameAsNone
  <2>11. SeesOnly(w)'
    BY <2>1, <2>3, <2>4, <2>10 DEF SeesOnly, Seen, T
  <2>12. StoppedTried(w)'
    <3> SUFFICES ASSUME v.saw, ~v.tried, Spent(w, F)' PROVE FALSE
      BY <2>1, <2>3 DEF StoppedTried, Spent, F
    <3>1. F # None /\ F.limit /\ F.id \in stopped[w] /\ F.id \notin crossed'
      BY <2>1, <2>10 DEF Spent, F
    <3>2. T # None /\ T.id = F.id /\ T.id \notin crossed
      BY <2>1, <2>10, <3>1
    <3>3. Known(T) /\ Newer(F)
      BY <2>10 DEF Known, Newer, T, F
    <3>4. T.limit
      BY <2>4, <3>1, <3>2, <3>3 DEF LimitGone
    <3>5. Spent(w, T)
      BY <3>1, <3>2, <3>4 DEF Spent
    <3>6. QED
      BY <2>4, <2>10, <3>5 DEF StoppedTried, T
  <2>13. ASSUME NEW x \in Windows PROVE StoppedOver(x)'
    <3> SUFFICES ASSUME NEW t, Near(x, t)', Spent(x, t)' PROVE Elapsed(t) >= LimitMinutes
      BY <2>5 DEF StoppedOver
    <3>1. Near(x, t)
      BY <2>1, <2>3 DEF Near, F
    <3>2. Spent(x, t)
      BY <2>1, <2>6 DEF Spent
    <3>3. QED
      BY <2>4, <3>1, <3>2 DEF StoppedOver
  <2>14. QED
    BY <2>8, <2>9, <2>11, <2>12, <2>13 DEF Watching
<1>3. QED
  BY <1>1, <1>2

LEMMA QuietHere ==
    ASSUME (\E w \in Windows : \E v : QuietTo(w, v)) \/ Ticks
    PROVE  /\ \A x \in Windows : Flying(x)' = Flying(x)
           /\ Here' = Here /\ (Messy => Messy')
<1>1. /\ \A x \in Windows : win'[x].timer = win[x].timer /\ win'[x].base = win[x].base
      /\ file' = file /\ saves' = saves /\ crossed' = crossed
  BY DEF QuietTo, Ticks
<1>2. \A x \in Windows : Flying(x)' = Flying(x)
  BY <1>1 DEF Flying
<1>3. \A t : t \in Here' <=> t \in Here
  BY <1>1, <1>2, HereMembers
<1>4. Here' = Here
  BY <1>3
<1>5. QED
  BY <1>1, <1>2, <1>4 DEF Messy, Lapsed

LEMMA WatchQuiet ==
    ASSUME TypeOK, CoreInv, WatchInv, NEW w \in Windows, NEW v, QuietTo(w, v)
    PROVE  Watching'
<1>1. CASE Messy
  BY <1>1, QuietHere, MessyWatchesNext
<1>2. CASE ~Messy
  <2> DEFINE T == win[w].timer
  <2>1. /\ win'[w] = v /\ (\A x \in Windows \ {w} : win'[x] = win[x])
        /\ UNCHANGED <<clock, file, saves, crossed, stopped>>
        /\ v.timer = T /\ v.base = win[w].base /\ v.tried = win[w].tried
    BY DEF QuietTo
  <2>2. \A x \in Windows : Flying(x)' = Flying(x)
    BY QuietHere
  <2>3. LimitGone /\ \A x \in Windows : SeesOnly(x) /\ StoppedOver(x) /\ StoppedTried(x)
    BY DEF WatchInv, Watching
  <2>4. \A t : Elapsed(t)' = Elapsed(t)
    BY <2>1, ElapsedNext
  <2>5. /\ \A x \in Windows \ {w} : watched'[x] = watched[x]
        /\ \/ v.saw = win[w].saw /\ watched'[w] = watched[w]
           \/ /\ T # None /\ ~OverLimit(T) /\ watched'[w] = watched[w] \cup {T.id}
    BY DEF QuietTo, TypeOK
  <2>6. T # None => \A s \in Flying(w) : s.before = None
    <3> SUFFICES ASSUME T # None, NEW s \in Flying(w) PROVE s.before = None
      OBVIOUS
    <3>1. saves[w] # <<>>
      BY DEF Flying
    <3>2. s.timer = T /\ Sound(s)
      BY <1>2, <3>1 DEF CoreInv, OneInFlight, Alone, AtRest
    <3>3. QED
      BY <3>2 DEF Sound
  <2> HIDE DEF T
  <2>7. LimitGone'
    <3> SUFFICES ASSUME NEW t, NEW u, Known(t)', Newer(u)', t.id = u.id, u.id \notin crossed, u.limit
                 PROVE  t.limit
      BY <2>1 DEF LimitGone
    <3>1. Known(t) /\ Newer(u)
      BY <2>1, <2>2 DEF Known, Newer, T
    <3>2. QED
      BY <2>3, <3>1 DEF LimitGone
  <2>8. \A x \in Windows \ {w} : SeesOnly(x)' /\ StoppedTried(x)'
    BY <2>1, <2>2, <2>3, <2>5 DEF SeesOnly, StoppedTried, Seen, Spent
  <2>9. SeesOnly(w)'
    BY <2>1, <2>2, <2>3, <2>5, <2>6 DEF SeesOnly, Seen, T
  <2>10. StoppedTried(w)'
    <3>1. CASE v.saw = win[w].saw
      BY <2>1, <2>2, <2>3, <3>1 DEF StoppedTried, Spent, T
    <3>2. CASE T # None /\ ~OverLimit(T)
      <4>1. ~Spent(w, T)
        <5> SUFFICES ASSUME Spent(w, T) PROVE FALSE
          OBVIOUS
        <5>1. Elapsed(T) >= LimitMinutes
          BY <2>3 DEF StoppedOver, Near, T
        <5>2. QED
          BY <3>2, <5>1 DEF Spent, OverLimit
      <4>2. QED
        BY <2>1, <2>2, <2>6, <3>2, <4>1 DEF StoppedTried, Spent
    <3>3. QED
      BY <2>5, <3>1, <3>2
  <2>11. ASSUME NEW x \in Windows PROVE StoppedOver(x)'
    <3> SUFFICES ASSUME NEW t, Near(x, t)', Spent(x, t)' PROVE Elapsed(t) >= LimitMinutes
      BY <2>4 DEF StoppedOver
    <3>1. Near(x, t)
      BY <2>1, <2>2 DEF Near, T
    <3>2. Spent(x, t)
      BY <2>1 DEF Spent
    <3>3. QED
      BY <2>3, <3>1, <3>2 DEF StoppedOver
  <2>12. QED
    BY <2>7, <2>8, <2>9, <2>10, <2>11 DEF Watching
<1>3. QED
  BY <1>1, <1>2

LEMMA WatchTicks ==
    ASSUME TypeOK, CoreInv, WatchInv, Ticks
    PROVE  Watching'
<1>1. /\ UNCHANGED <<file, win, saves, crossed, watched, stopped>>
      /\ clock \in Nat /\ clock' \in Nat /\ clock <= clock'
  BY DEF Ticks, TypeOK
<1>2. \A x \in Windows : Flying(x)' = Flying(x)
  BY <1>1 DEF Flying
<1>3. LimitGone /\ \A x \in Windows : SeesOnly(x) /\ StoppedOver(x) /\ StoppedTried(x)
  BY DEF WatchInv, Watching
<1>4. LimitGone'
  <2>1. \A t : (Known(t)' => Known(t)) /\ (Newer(t)' => Newer(t))
    BY <1>1, <1>2 DEF Known, Newer
  <2>2. QED
    BY <1>1, <1>3, <2>1 DEF LimitGone
<1>5. \A x \in Windows : SeesOnly(x)' /\ StoppedTried(x)'
  BY <1>1, <1>2, <1>3 DEF SeesOnly, StoppedTried, Seen, Spent
<1>6. ASSUME NEW x \in Windows PROVE StoppedOver(x)'
  <2> SUFFICES ASSUME NEW t, Near(x, t)', Spent(x, t)' PROVE Elapsed(t)' >= LimitMinutes
    BY DEF StoppedOver
  <2>1. Near(x, t) /\ Spent(x, t)
    BY <1>1, <1>2 DEF Near, Spent
  <2>2. Elapsed(t) >= LimitMinutes
    BY <1>3, <2>1 DEF StoppedOver
  <2>3. t \in Sessions
    BY <2>1, NearIsHere, HereIs
  <2>4. t.start \in Nat /\ Banked(t) \in Nat /\ Elapsed(t) \in Nat
    BY <1>1, <2>3, ElapsedIsTime, SessionIsTyped
  <2>5. Elapsed(t)' >= Elapsed(t)
    <3>1. Max0(clock' - t.start) >= Max0(clock - t.start)
      BY <1>1, <2>4 DEF Max0
    <3>2. Max0(clock' - t.start) \in Nat /\ Max0(clock - t.start) \in Nat
      BY <1>1, <2>4 DEF Max0
    <3>3. Elapsed(t)' = IF t.paused # Unset THEN Banked(t) ELSE Banked(t) + Max0(clock' - t.start)
      BY DEF Elapsed, Banked
    <3>4. QED
      BY <2>4, <3>1, <3>2, <3>3 DEF Elapsed
  <2>6. Elapsed(t)' \in Nat /\ LimitMinutes \in Nat
    <3>1. Max0(clock' - t.start) \in Nat
      BY <1>1, <2>4 DEF Max0
    <3>2. Elapsed(t)' = IF t.paused # Unset THEN Banked(t) ELSE Banked(t) + Max0(clock' - t.start)
      BY DEF Elapsed, Banked
    <3>3. QED
      BY <2>4, <3>1, <3>2, TimerAssumption
  <2>7. QED
    BY <2>2, <2>4, <2>5, <2>6
<1>7. QED
  BY <1>4, <1>5, <1>6 DEF Watching

LEMMA WatchStep ==
    ASSUME TypeOK, CoreInv, WatchInv, [Next]_vars
    PROVE  WatchInv'
<1>1. StoppedKnown'
  BY StoppedKnownStep
<1>2. Watching'
  BY StepShape, WatchActed, WatchAnswered, WatchPolled, WatchQuiet, WatchTicks DEF Step
<1>3. QED
  BY <1>1, <1>2 DEF WatchInv

WatchIndInv == CoreIndInv /\ WatchInv

LEMMA WatchCorrect == Spec => []WatchIndInv
<1>1. Init => WatchIndInv
  <2> SUFFICES ASSUME Init PROVE WatchIndInv
    OBVIOUS
  <2>1. CoreIndInv
    BY TypeInit, CoreInit DEF CoreIndInv
  <2>2. /\ file.timer = None
        /\ \A w \in Windows : /\ win[w].timer = None /\ win[w].base = None /\ ~win[w].saw
                              /\ saves[w] = <<>> /\ stopped[w] = {}
    BY DEF Init, Opened
  <2>3. \A w \in Windows : Flying(w) = {}
    BY <2>2 DEF Flying
  <2>4. \A t \in Here : Lapsed(t)
    BY <2>2, <2>3, HereMembers DEF Lapsed
  <2>5. Watching
    BY <2>4, MessyWatches DEF Messy
  <2>6. QED
    BY <2>1, <2>2, <2>5 DEF WatchIndInv, WatchInv, StoppedKnown
<1>2. WatchIndInv /\ [Next]_vars => WatchIndInv'
  BY TypeStep, CoreStep, WatchStep DEF WatchIndInv, CoreIndInv
<1>3. QED
  BY <1>1, <1>2, PTL DEF Spec

(* A window stops a session by itself only if it saw that very session     *)
(* under its limit, and never twice, however often the save fails.         *)
THEOREM AutoStopWatched == Spec => AutoStopIsWatched
<1> DEFINE Watched(w) == LET id == win[w].timer.id IN
             AutoStop(w) /\ id \notin crossed => id \in watched[w] /\ id \notin stopped[w]
<1>1. WatchIndInv => \A w \in Windows : Watched(w)
  <2> SUFFICES ASSUME WatchIndInv, NEW w \in Windows, AutoStop(w), win[w].timer.id \notin crossed
               PROVE  win[w].timer.id \in watched[w] /\ win[w].timer.id \notin stopped[w]
    OBVIOUS
  <2>1. SeesOnly(w) /\ StoppedTried(w)
    BY DEF WatchIndInv, WatchInv, Watching
  <2>2. win[w].timer # None /\ win[w].timer.limit /\ win[w].saw /\ ~win[w].tried
    BY DEF AutoStop, OverLimit
  <2>3. QED
    BY <2>1, <2>2 DEF SeesOnly, Seen, StoppedTried, Spent
<1>2. WatchIndInv /\ [Next]_vars => [\A w \in Windows : Watched(w)]_vars
  BY <1>1
<1>3. QED
  BY <1>2, WatchCorrect, PTL DEF Spec, AutoStopIsWatched

-----------------------------------------------------------------------------
(* Sessions that were never paused are told apart by their start.          *)

InHand(t) ==
    \/ t = file.timer
    \/ \E x \in Windows : t = win[x].timer
    \/ \E x \in Windows : \E s \in Flying(x) : t = s.timer \/ t = s.before

Distinct == \A a, b :
    /\ InHand(a) /\ InHand(b) /\ a # None /\ b # None
    /\ a.id # b.id /\ a.id \notin crossed /\ a.banked = Unset /\ b.banked = Unset
    => a.start # b.start

LEMMA InHandIsHere == \A t : InHand(t) => t \in Here
  BY HereMembers DEF InHand

LEMMA MessyDistinct == Messy => Distinct
  BY InHandIsHere DEF Messy, Distinct, Lapsed

LEMMA MessyDistinctNext == Messy' => Distinct'
  BY MessyDistinct, PTL

LEMMA FewerDistinct ==
    ASSUME Distinct, crossed \subseteq crossed', \A t : InHand(t)' => InHand(t)
    PROVE  Distinct'
  BY DEF Distinct

LEMMA DistinctActed ==
    ASSUME TypeOK, CoreInv, Distinct,
           NEW w \in Windows, NEW v, NEW s, NEW queue,
           Acted(w, v, s, queue), Does(w, v, s)
    PROVE  Distinct'
<1>1. CASE Behind(w)
  BY <1>1, ActsAcross, MessyDistinctNext
<1>2. CASE ~Behind(w)
  <2> DEFINE T == win[w].timer
  <2>1. /\ crossed' = crossed
        /\ Flying(w)' = {s} /\ \A x \in Windows \ {w} : Flying(x)' = {}
    BY <1>2, ActsAlone
  <2>2. /\ win'[w] = v /\ (\A x \in Windows \ {w} : win'[x] = win[x])
        /\ file' = file /\ v.timer = s.timer
    BY ViewStored DEF Acted
  <2>3. InHand(T) /\ \A t : InHand(t) => t \in AtHand
    BY AtHandIs DEF InHand
  <2>4. s.before = None \/ s.before = T
    BY OneNew
  <2>5. \/ s.timer = None
        \/ \A t \in AtHand \ {None} : t.start # s.timer.start
        \/ /\ T # None /\ s.timer.id = T.id
           /\ s.timer.banked = Unset => T.banked = Unset /\ s.timer.start = T.start
    BY DEF Does, Begins, Changes, Cancels, Ends
  <2> HIDE DEF T
  <2>6. \A t : InHand(t)' => InHand(t) \/ t = s.timer \/ t = None
    BY <2>1, <2>2, <2>3, <2>4 DEF InHand
  <2> SUFFICES ASSUME NEW a, NEW b, InHand(a)', InHand(b)', a # None, b # None,
                      a.id # b.id, a.id \notin crossed, a.banked = Unset, b.banked = Unset
               PROVE  a.start # b.start
    BY <2>1 DEF Distinct
  <2>7. CASE InHand(a) /\ InHand(b)
    BY <2>7 DEF Distinct
  <2>8. CASE a = s.timer /\ InHand(b)
    BY <2>3, <2>5, <2>8 DEF Distinct
  <2>9. CASE InHand(a) /\ b = s.timer
    BY <2>3, <2>5, <2>9 DEF Distinct
  <2>10. QED
    BY <2>6, <2>7, <2>8, <2>9
<1>3. QED
  BY <1>1, <1>2

LEMMA DistinctElse ==
    ASSUME TypeOK, CoreInv, Distinct, NEW w \in Windows, NEW v, NEW queue,
           \/ SavedTo(w, v, queue) \/ FailedTo(w, v, queue)
           \/ PolledTo(w, v, queue) \/ ReopenedTo(w, v, queue)
    PROVE  Distinct'
<1>1. CASE Messy
  BY <1>1, StaysMessy, MessyDistinctNext
<1>2. CASE ~Messy
  <2>1. SavedTo(w, v, queue) \/ FailedTo(w, v, queue) =>
          /\ Head(saves[w]) \in Flying(w) /\ win[w].base = file.timer
    BY <1>2, HeadOf DEF SavedTo, FailedTo
  <2>2. /\ crossed \subseteq crossed' /\ win'[w] = v
        /\ file'.timer = file.timer
           \/ (SavedTo(w, v, queue) /\ file'.timer = Head(saves[w]).timer)
    BY DEF SavedTo, FailedTo, PolledTo, ReopenedTo, Becomes
  <2>3. \A x \in Windows \ {w} : win'[x].timer = win[x].timer
    <3>1. \A x \in Windows : win[x] \in Views
      BY TypeParts
    <3>2. QED
      BY <3>1 DEF SavedTo, FailedTo, PolledTo, ReopenedTo, Views
  <2>4. InHand(v.timer) /\ InHand(file'.timer)
    BY <2>1, <2>2 DEF InHand, SavedTo, FailedTo, PolledTo, ReopenedTo,
                      Undoes, LeavesIt, PutsBack, Restored
  <2>5. \A x \in Windows : \A a \in Flying(x)' : \E b \in Flying(x) : Like(a, b)
    <3>1. Elsewhere(w) /\ Keeps(w, {})
      <4>1. CASE SavedTo(w, v, queue) \/ FailedTo(w, v, queue)
        BY <4>1, TailFlying DEF SavedTo, FailedTo, Becomes
      <4>2. CASE PolledTo(w, v, queue)
        BY <4>2, FadedFlying DEF PolledTo, Becomes
      <4>3. CASE ReopenedTo(w, v, queue)
        <5>1. Elsewhere(w) /\ saves'[w] = <<>>
          BY <4>3, QueueIsElsewhere DEF ReopenedTo, Becomes
        <5>2. Flying(w)' = {}
          BY <5>1 DEF Flying
        <5>3. QED
          BY <5>1, <5>2 DEF Keeps
      <4>4. QED
        BY <4>1, <4>2, <4>3
    <3>2. QED
      BY <3>1 DEF Elsewhere, Keeps, Like
  <2>6. \A t : InHand(t)' => InHand(t)
    <3> SUFFICES ASSUME NEW t, InHand(t)' PROVE InHand(t)
      OBVIOUS
    <3>1. CASE t = file'.timer
      BY <2>4, <3>1
    <3>2. CASE \E x \in Windows : t = win'[x].timer
      BY <2>2, <2>3, <2>4, <3>2 DEF InHand
    <3>3. CASE \E x \in Windows : \E a \in Flying(x)' : t = a.timer \/ t = a.before
      BY <2>5, <3>3 DEF InHand, Like
    <3>4. QED
      BY <3>1, <3>2, <3>3 DEF InHand
  <2>7. QED
    BY <2>2, <2>6, FewerDistinct
<1>3. QED
  BY <1>1, <1>2

LEMMA DistinctQuiet ==
    ASSUME Distinct, (\E w \in Windows : \E v : QuietTo(w, v)) \/ Ticks
    PROVE  Distinct'
<1>1. /\ \A x \in Windows : win'[x].timer = win[x].timer
      /\ file' = file /\ crossed' = crossed
  BY DEF QuietTo, Ticks
<1>2. \A x \in Windows : Flying(x)' = Flying(x)
  BY QuietHere
<1>3. \A t : InHand(t)' => InHand(t)
  BY <1>1, <1>2 DEF InHand
<1>4. QED
  BY <1>1, <1>3, FewerDistinct

DistinctIndInv == CoreIndInv /\ Distinct

LEMMA DistinctCorrect == Spec => []DistinctIndInv
<1>1. Init => DistinctIndInv
  <2> SUFFICES ASSUME Init PROVE DistinctIndInv
    OBVIOUS
  <2>1. CoreIndInv
    BY TypeInit, CoreInit DEF CoreIndInv
  <2>2. file.timer = None /\ \A w \in Windows : win[w].timer = None /\ saves[w] = <<>>
    BY DEF Init, Opened
  <2>3. \A t : InHand(t) => t = None
    BY <2>2 DEF InHand, Flying
  <2>4. QED
    BY <2>1, <2>3 DEF DistinctIndInv, Distinct
<1>2. DistinctIndInv /\ [Next]_vars => DistinctIndInv'
  <2> SUFFICES ASSUME DistinctIndInv, [Next]_vars PROVE DistinctIndInv'
    OBVIOUS
  <2>1. TypeOK /\ CoreInv /\ Distinct
    BY DEF DistinctIndInv, CoreIndInv
  <2>2. Distinct'
    BY <2>1, StepShape, DistinctActed, DistinctElse, DistinctQuiet DEF Step
  <2>3. QED
    BY <2>1, <2>2, TypeStep, CoreStep DEF DistinctIndInv, CoreIndInv
<1>3. QED
  BY <1>1, <1>2, PTL DEF Spec

(* A session that replaced another is taken for it only if it was paused   *)
(* since.                                                                  *)
THEOREM OnlyPausedMistaken == Spec => OnlyPausedIsMistaken
<1> DEFINE Paused(w) == Poll(w) /\ Mistaken(w) /\ file.timer.id \notin crossed =>
                          file.timer.banked # Unset
<1>1. DistinctIndInv => \A w \in Windows : Paused(w)
  <2> SUFFICES ASSUME Distinct, NEW w \in Windows, Mistaken(w),
                      file.timer.id \notin crossed, file.timer.banked = Unset
               PROVE  FALSE
    BY DEF DistinctIndInv
  <2> DEFINE a == win[w].timer
             b == file.timer
  <2>1. InHand(a) /\ InHand(b) /\ a.id # b.id /\ SameSession(a, b)
    BY DEF InHand, Mistaken
  <2>2. a # None /\ b # None /\ a.start = b.start /\ a.banked = b.banked
    BY <2>1 DEF SameSession
  <2>3. QED
    BY <2>1, <2>2 DEF Distinct
<1>2. DistinctIndInv /\ [Next]_vars => [\A w \in Windows : Paused(w)]_vars
  BY <1>1
<1>3. QED
  BY <1>2, DistinctCorrect, PTL DEF Spec, OnlyPausedIsMistaken
=============================================================================
