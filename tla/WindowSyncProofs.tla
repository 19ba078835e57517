-------------------------- MODULE WindowSyncProofs --------------------------
(***************************************************************************)
(* What the store's windows may rely on.  First, what the record merge     *)
(* guarantees for every version of a record.  Then, for any number of      *)
(* windows, records and saves in flight: what another window wrote is      *)
(* never overwritten unseen.  Then, for a window that does one thing at a  *)
(* time: its save applies or reports the change its user made, touches no  *)
(* other record, and at rest the window shows the file.                    *)
(***************************************************************************)
EXTENDS WindowSync, TLAPS

-----------------------------------------------------------------------------
(***************************************************************************)
(* What the record merge guarantees for every version of a record; every   *)
(* statement is about b, n, c as in RecordMerge.                           *)
(***************************************************************************)

(* A save changes a record only when the file still has the version its    *)
(* window started from, and then to what the window sends.                 *)
THEOREM OnlyTheBaseIsReplaced ==
    ASSUME NEW b, NEW n, NEW c, Merged(b, n, c) # c
    PROVE  c = b /\ Merged(b, n, c) = n
  BY DEF Merged, Applied

(* No change of a window is dropped in silence: it is in the file after    *)
(* the save, or it is reported as a conflict.                              *)
THEOREM EveryChangeIsAppliedOrReported ==
    ASSUME NEW b, NEW n, NEW c, n # b
    PROVE  Merged(b, n, c) = n \/ Conflict(b, n, c)
  BY DEF Merged, Applied, Conflict, EditEdit, EditDeleted, AddAdd, DeletedEdited

(* A conflict is a real one, and the file keeps its version of the record. *)
THEOREM AConflictKeepsTheFile ==
    ASSUME NEW b, NEW n, NEW c, Conflict(b, n, c)
    PROVE  Merged(b, n, c) = c /\ n # b /\ c # b /\ c # n
  BY DEF Merged, Applied, Conflict, EditEdit, EditDeleted, AddAdd, DeletedEdited

(* The short form of the merge: the window's version over its own base,    *)
(* the file's version over anything else.                                  *)
THEOREM MergedIsSwapOfTheBase ==
    ASSUME NEW b, NEW n, NEW c
    PROVE  /\ Merged(b, n, c) = IF c = b THEN n ELSE c
           /\ Conflict(b, n, c) <=> n # b /\ c # b /\ c # n
  BY DEF Merged, Applied, Conflict, EditEdit, EditDeleted, AddAdd, DeletedEdited

(* A save repeated after it already reached the file changes nothing more, *)
(* and reports no conflict it did not report the first time.               *)
THEOREM ARepeatedSaveIsHarmless ==
    ASSUME NEW b, NEW n, NEW c
    PROVE  LET d == Merged(b, n, c) IN
           /\ Merged(b, n, d) = d
           /\ Conflict(b, n, d) => Conflict(b, n, c)
  BY MergedIsSwapOfTheBase

(* Two windows that started from the file's version leave one of the two   *)
(* versions there, whichever is first; the loser of two different changes  *)
(* is told, and when neither is told the order made no difference.         *)
THEOREM TwoWindowsNeverLoseAChange ==
    ASSUME NEW b, NEW m, NEW n
    PROVE  LET after1 == Merged(b, m, b)
               after2 == Merged(b, n, after1)
           IN  /\ after2 \in {m, n}
               /\ m # b /\ n # b /\ m # n => Conflict(b, n, after1)
               /\ ~Conflict(b, n, after1) => after2 = Merged(b, m, Merged(b, n, b))
  BY MergedIsSwapOfTheBase

(* "Replace": a version written against the file's own as base always wins.*)
THEOREM ReplaceWins ==
    ASSUME NEW n, NEW c
    PROVE  Merged(c, n, c) = n /\ ~Conflict(c, n, c)
  BY MergedIsSwapOfTheBase

-----------------------------------------------------------------------------
(***************************************************************************)
(* What another window wrote meanwhile is never overwritten unseen, for    *)
(* any number of windows, records and saves in flight, with polls and      *)
(* answers in any order, as long as the list is in the file when the       *)
(* windows open.                                                           *)
(*                                                                         *)
(* A save removes from the file only versions of its base                  *)
(* (OnlyTheBaseIsReplaced).  So the invariant follows the bases: each      *)
(* window's, each save's, and what they are made from, the sent lists and  *)
(* the lists a poll or an explicit overwrite has just read.                *)
(***************************************************************************)

(* A list is in the file from the start, and every read finds one.         *)
ListInFile ==
    /\ file # NoList
    /\ \A w \in Windows : poll[w].step = "loaded" => poll[w].list # NoList

(* A window's base is a list whose every record it has had in hand.        *)
InHand(w, list) == list # NoList /\ RecordsOf(list) \subseteq seen[w]

BasesInHand == \A w \in Windows : InHand(w, base[w])

SavesInHand ==
    \A w \in Windows : \A s \in saves[w] :
        /\ s.how # "other" => RecordsOf(s.sent) \subseteq seen[w]
        /\ s.how \in {"plain", "checked", "replace"} => InHand(w, s.base)

IInv ==
    /\ TypeOK
    /\ ListInFile
    /\ BasesInHand
    /\ SavesInHand

-----------------------------------------------------------------------------
(* Types of the operators.                                                 *)

LEMMA ListTypes ==
    /\ Empty \in Lists
    /\ Initial \subseteq Lists
    /\ NoList \notin Lists
    /\ \A value \in Lists \cup {NoList} : AsList(value) \in Lists
    /\ \A list \in Lists : RecordsOf(list) \subseteq Ids \X Versions
  BY DistinctAssumption DEF Empty, Initial, Lists, Versions, AsList, RecordsOf

LEMMA OutcomeType ==
    ASSUME NEW s \in Saves, NEW list \in Lists \cup {NoList}
    PROVE  /\ Outcome(s, list) \in Lists \cup {NoList}
           /\ s.how # "other" => Outcome(s, list) \in Lists
           /\ list # NoList => Outcome(s, list) # NoList
<1>1. CASE s.how = "other"
  BY <1>1 DEF Outcome
<1>2. CASE s.how # "other" /\ Merges(s, list)
  <2>1. s.base \in Lists /\ s.sent \in Lists /\ list \in Lists
    BY <1>2 DEF Merges, Saves
  <2>2. \A id \in Ids : Merged(s.base[id], s.sent[id], list[id]) \in Versions
    BY <2>1 DEF Merged, Lists
  <2>3. Outcome(s, list) = [id \in Ids |-> Merged(s.base[id], s.sent[id], list[id])]
    BY <1>2 DEF Outcome
  <2>4. Outcome(s, list) \in Lists
    BY <2>2, <2>3 DEF Lists
  <2>5. QED
    BY <2>4, ListTypes, <1>2
<1>3. CASE s.how # "other" /\ ~Merges(s, list)
  <2>1. Outcome(s, list) = s.sent
    BY <1>3 DEF Outcome
  <2>2. s.sent \in Lists
    BY DEF Saves
  <2>3. QED
    BY <2>1, <2>2, ListTypes, <1>3
<1>4. QED
  BY <1>1, <1>2, <1>3

LEMMA ConflictsType ==
    ASSUME NEW s \in Saves, NEW list
    PROVE  ConflictsOf(s, list) \subseteq Conflicts
  BY DEF ConflictsOf, Conflicts, Saves, Lists

LEMMA ProgressType ==
    ASSUME TypeOK, NEW w \in Windows, NEW s, NEW t \in Saves, Progress(w, s, t)
    PROVE  saves' \in [Windows -> SUBSET Saves]
  BY DEF Progress, TypeOK

LEMMA FinishType ==
    ASSUME TypeOK, NEW w \in Windows, NEW s, Finish(w, s)
    PROVE  saves' \in [Windows -> SUBSET Saves]
  BY DEF Finish, TypeOK

LEMMA ShowType ==
    ASSUME TypeOK, NEW w \in Windows, NEW list \in Lists, NEW no \in 0..MaxInFlight,
           Show(w, list, no)
    PROVE  mem' \in [Windows -> Lists] /\ current' \in [Windows -> 0..MaxInFlight]
  BY DEF Show, TypeOK

LEMMA SendType ==
    ASSUME TypeOK, NEW w \in Windows,
           NEW how \in {"plain", "checked", "replace", "whole"},
           NEW ids \in SUBSET Ids, NEW list \in Lists, NEW from \in Lists \cup {NoList},
           Send(w, how, ids, list, from)
    PROVE  /\ saves' \in [Windows -> SUBSET Saves]
           /\ mem' \in [Windows -> Lists]
           /\ current' \in [Windows -> 0..MaxInFlight]
<1>1. PICK no \in FreeNos(w) :
        /\ saves' = [saves EXCEPT ![w] = @ \cup
              {[no |-> no, how |-> how, ids |-> ids, sent |-> list, base |-> from,
                before |-> mem[w], state |-> "asked", old |-> NoList, at |-> 0]}]
        /\ mem' = [mem EXCEPT ![w] = list]
        /\ current' = [current EXCEPT ![w] = no]
  BY DEF Send
<1>2. no \in 1..MaxInFlight /\ no \in 0..MaxInFlight
  BY BoundsAssumption DEF FreeNos
<1>3. [no |-> no, how |-> how, ids |-> ids, sent |-> list, base |-> from,
       before |-> mem[w], state |-> "asked", old |-> NoList, at |-> 0] \in Saves
  BY <1>2 DEF Saves, TypeOK
<1>4. QED
  BY <1>1, <1>2, <1>3 DEF TypeOK

-----------------------------------------------------------------------------
(* Type correctness.                                                       *)

LEMMA InitType == Init => TypeOK
<1> SUFFICES ASSUME Init PROVE TypeOK
  OBVIOUS
<1>1. file \in Lists \cup {NoList}
  BY ListTypes DEF Init
<1>2. NoPoll \in Polls
  BY DEF NoPoll, Polls
<1>3. AsList(file) \in Lists
  BY <1>1, ListTypes
<1>4. RecordsOf(AsList(file)) \subseteq Ids \X Versions
  BY <1>3, ListTypes
<1>5. 0 \in 0..MaxInFlight
  BY BoundsAssumption
<1>6. QED
  BY <1>1, <1>2, <1>3, <1>4, <1>5 DEF Init, TypeOK

LEMMA EditType ==
    ASSUME TypeOK, NEW w \in Windows, Edit(w)
    PROVE  TypeOK'
<1>1. PICK how \in {"plain", "checked"}, id \in Ids, version \in {acts + 1, Absent} :
        EditRecord(w, how, id, version)
  BY DEF Edit
<1> DEFINE list == [mem[w] EXCEPT ![id] = version]
<1>2. version \in Versions
  BY DEF TypeOK, Versions
<1>3. list \in Lists
  BY <1>2 DEF TypeOK, Lists
<1>4. RecordsOf(list) \subseteq Ids \X Versions
  BY <1>3, ListTypes
<1>5. base[w] \in Lists \cup {NoList} /\ {id} \in SUBSET Ids
  BY DEF TypeOK
<1>6. Send(w, how, {id}, list, base[w])
  BY <1>1 DEF EditRecord
<1>7. /\ saves' \in [Windows -> SUBSET Saves]
      /\ mem' \in [Windows -> Lists]
      /\ current' \in [Windows -> 0..MaxInFlight]
  <2> HIDE DEF list
  <2>1. QED
    BY <1>3, <1>5, <1>6, SendType
<1>8. acts' \in Nat
  BY <1>1 DEF EditRecord, Act, TypeOK
<1>9. made' \in [Windows -> SUBSET Ids]
  BY <1>1 DEF EditRecord, TypeOK
<1>10. seen' \in [Windows -> SUBSET (Ids \X Versions)]
  BY <1>1, <1>4 DEF EditRecord, TypeOK
<1>11. UNCHANGED <<file, fileAt, base, known, seenStamp, poll, replacing, pending>>
  BY <1>1 DEF EditRecord
<1>12. QED
  BY <1>7, <1>8, <1>9, <1>10, <1>11 DEF TypeOK

LEMMA ReplaceAllType ==
    ASSUME TypeOK, NEW w \in Windows, ReplaceAll(w)
    PROVE  TypeOK'
<1>1. PICK list \in {Empty, [id \in Ids |-> acts + 1]} :
        /\ Act
        /\ Send(w, "whole", Ids, list, NoList)
        /\ made' = [made EXCEPT ![w] = Ids]
        /\ seen' = [seen EXCEPT ![w] = @ \cup RecordsOf(list)]
        /\ UNCHANGED <<file, fileAt, base, known, seenStamp, poll, replacing, pending>>
  BY DEF ReplaceAll
<1>2. list \in Lists
  BY ListTypes DEF TypeOK, Lists, Versions
<1>3. RecordsOf(list) \subseteq Ids \X Versions
  BY <1>2, ListTypes
<1>4. /\ saves' \in [Windows -> SUBSET Saves]
      /\ mem' \in [Windows -> Lists]
      /\ current' \in [Windows -> 0..MaxInFlight]
  BY <1>1, <1>2, SendType
<1>5. acts' \in Nat
  BY <1>1 DEF Act, TypeOK
<1>6. QED
  BY <1>1, <1>3, <1>4, <1>5 DEF TypeOK

LEMMA ReplaceSaveType ==
    ASSUME TypeOK, NEW w \in Windows, ReplaceSave(w)
    PROVE  TypeOK'
<1>1. PICK r \in replacing[w] :
        /\ Send(w, "replace", {r.conflict.id},
                [r.list EXCEPT ![r.conflict.id] = r.conflict.mine], r.list)
        /\ made' = [made EXCEPT ![w] = {}]
        /\ replacing' = [replacing EXCEPT ![w] = {}]
        /\ seen' = [seen EXCEPT ![w] = @ \cup RecordsOf(r.list)
                       \cup RecordsOf([r.list EXCEPT ![r.conflict.id] = r.conflict.mine])]
        /\ UNCHANGED <<file, fileAt, base, known, seenStamp, poll, pending, acts>>
  BY DEF ReplaceSave
<1> DEFINE list == [r.list EXCEPT ![r.conflict.id] = r.conflict.mine]
<1>2. r \in [conflict : Conflicts, list : Lists]
  BY DEF TypeOK
<1>3. r.conflict.id \in Ids /\ r.conflict.mine \in Versions /\ r.list \in Lists
  BY <1>2 DEF Conflicts
<1>4. list \in Lists
  BY <1>3 DEF Lists
<1>5. RecordsOf(list) \subseteq Ids \X Versions /\ RecordsOf(r.list) \subseteq Ids \X Versions
  BY <1>3, <1>4, ListTypes
<1>6. /\ saves' \in [Windows -> SUBSET Saves]
      /\ mem' \in [Windows -> Lists]
      /\ current' \in [Windows -> 0..MaxInFlight]
  <2>1. Send(w, "replace", {r.conflict.id}, list, r.list)
    BY <1>1
  <2> HIDE DEF list
  <2>2. QED
    BY <2>1, <1>3, <1>4, SendType
<1>7. seen' \in [Windows -> SUBSET (Ids \X Versions)]
  BY <1>1, <1>5 DEF TypeOK
<1>8. QED
  BY <1>1, <1>6, <1>7 DEF TypeOK

LEMMA WriteType ==
    ASSUME TypeOK, NEW w \in Windows, Write(w)
    PROVE  TypeOK'
<1>1. PICK s \in saves[w] : WriteFile(w, s) \/ FailWrite(w, s)
  BY DEF Write
<1>2. s \in Saves
  BY DEF TypeOK
<1>3. CASE WriteFile(w, s)
  <2>1. file' \in Lists \cup {NoList}
    BY <1>2, <1>3, OutcomeType DEF WriteFile, TypeOK
  <2>2. [s EXCEPT !.state = "written", !.old = file, !.at = fileAt + 1] \in Saves
    <3>1. file \in Lists \cup {NoList} /\ fileAt + 1 \in Nat
      BY DEF TypeOK
    <3>2. QED
      BY <1>2, <3>1 DEF Saves
  <2>3. saves' \in [Windows -> SUBSET Saves]
    BY <2>2, <1>3, ProgressType DEF WriteFile
  <2>4. fileAt' \in Nat
    BY <1>3 DEF WriteFile, TypeOK
  <2>5. QED
    BY <2>1, <2>3, <2>4, <1>3 DEF WriteFile, TypeOK
<1>4. CASE FailWrite(w, s)
  <2>1. [s EXCEPT !.state = "failed"] \in Saves
    BY <1>2 DEF Saves
  <2>2. saves' \in [Windows -> SUBSET Saves]
    BY <2>1, <1>4, ProgressType DEF FailWrite
  <2>3. QED
    BY <2>2, <1>4 DEF FailWrite, TypeOK
<1>5. QED
  BY <1>1, <1>3, <1>4

LEMMA KeepType ==
    ASSUME TypeOK, NEW w \in Windows, NEW s, Keep(w, s)
    PROVE  mem' \in [Windows -> Lists] /\ current' \in [Windows -> 0..MaxInFlight]
<1>1. 0 \in 0..MaxInFlight
  BY BoundsAssumption
<1>2. mem[w] \in Lists /\ (IF current[w] = s.no THEN 0 ELSE current[w]) \in 0..MaxInFlight
  BY <1>1 DEF TypeOK
<1>3. QED
  BY <1>2, ShowType DEF Keep

LEMMA AcknowledgeType ==
    ASSUME TypeOK, NEW w \in Windows, NEW s \in saves[w], Acknowledge(w, s)
    PROVE  TypeOK'
<1> DEFINE got == Outcome(s, s.old)
<1>1. s \in Saves /\ s.old \in Lists \cup {NoList} /\ s.sent \in Lists /\ s.at \in Nat
  BY DEF TypeOK, Saves
<1>2. saves' \in [Windows -> SUBSET Saves]
  BY FinishType DEF Acknowledge
<1>3. known' \in [Windows -> Nat]
  BY <1>1 DEF Acknowledge, TypeOK
<1>4. pending' \in [Windows -> SUBSET Conflicts]
  BY <1>1, ConflictsType DEF Acknowledge, Park, TypeOK
<1>5. /\ mem' \in [Windows -> Lists]
      /\ current' \in [Windows -> 0..MaxInFlight]
      /\ base' \in [Windows -> Lists \cup {NoList}]
      /\ made' \in [Windows -> SUBSET Ids]
      /\ seen' \in [Windows -> SUBSET (Ids \X Versions)]
  <2>1. CASE s.how = "other"
    BY <2>1 DEF Acknowledge, TypeOK
  <2>2. CASE s.how # "other" /\ got # s.sent /\ current[w] = s.no
    <3>1. /\ Show(w, got, 0)
          /\ base' = [base EXCEPT ![w] = got]
          /\ made' = [made EXCEPT ![w] = {}]
          /\ seen' = [seen EXCEPT ![w] = @ \cup RecordsOf(got)]
      BY <2>2 DEF Acknowledge
    <3>2. got \in Lists
      BY <1>1, <2>2, OutcomeType
    <3>3. RecordsOf(got) \subseteq Ids \X Versions
      BY <3>2, ListTypes
    <3> HIDE DEF got
    <3>4. 0 \in 0..MaxInFlight
      BY BoundsAssumption
    <3>5. mem' \in [Windows -> Lists] /\ current' \in [Windows -> 0..MaxInFlight]
      BY <3>1, <3>2, <3>4, ShowType
    <3>6. QED
      BY <3>1, <3>2, <3>3, <3>5 DEF TypeOK
  <2>3. CASE s.how # "other" /\ ~(got # s.sent /\ current[w] = s.no)
    <3>1. /\ Keep(w, s)
          /\ base' = [base EXCEPT ![w] = s.sent]
          /\ UNCHANGED <<made, seen>>
      BY <2>3 DEF Acknowledge
    <3>2. QED
      BY <3>1, <1>1, KeepType DEF TypeOK
  <2>4. QED
    BY <2>1, <2>2, <2>3
<1>6. UNCHANGED <<file, fileAt, seenStamp, poll, replacing, acts>>
  BY DEF Acknowledge
<1>7. QED
  BY <1>2, <1>3, <1>4, <1>5, <1>6 DEF TypeOK

LEMMA RejectType ==
    ASSUME TypeOK, NEW w \in Windows, NEW s \in saves[w], Reject(w, s)
    PROVE  TypeOK'
<1>1. s \in Saves
  BY DEF TypeOK
<1>2. saves' \in [Windows -> SUBSET Saves]
  BY FinishType DEF Reject
<1>3. 0 \in 0..MaxInFlight
  BY BoundsAssumption
<1>4. mem' \in [Windows -> Lists] /\ current' \in [Windows -> 0..MaxInFlight]
  <2> DEFINE putBack == [id \in Ids |-> IF id \in s.ids THEN s.before[id] ELSE mem[w][id]]
  <2>1. AsList(base[w]) \in Lists
    BY ListTypes DEF TypeOK
  <2>2. s.before \in Lists
    BY <1>1 DEF Saves
  <2>3. putBack \in Lists
    BY <2>2 DEF Lists, TypeOK
  <2>4. \/ Show(w, AsList(base[w]), 0)
        \/ Show(w, s.before, 0)
        \/ Show(w, putBack, 0)
        \/ Keep(w, s)
    BY DEF Reject, Undo
  <2> HIDE DEF putBack
  <2>5. QED
    BY <2>1, <2>2, <2>3, <2>4, <1>3, ShowType, KeepType
<1>5. QED
  BY <1>2, <1>4 DEF Reject, TypeOK

LEMMA PollType ==
    ASSUME TypeOK, NEW w \in Windows,
           PollStamp(w) \/ PollLoad(w) \/ PollFail(w) \/ PollAdopt(w)
    PROVE  TypeOK'
<1>1. CASE PollStamp(w)
  BY <1>1 DEF PollStamp, TypeOK, NoPoll, Polls
<1>2. CASE PollLoad(w)
  <2> DEFINE next == [poll[w] EXCEPT !.step = "loaded", !.list = file, !.at = fileAt]
  <2>1. next \in Polls BY DEF TypeOK, Polls
  <2>2. poll' = [poll EXCEPT ![w] = next] BY <1>2 DEF PollLoad
  <2> HIDE DEF next
  <2>3. poll' \in [Windows -> Polls] BY <2>1, <2>2 DEF TypeOK
  <2> QED BY <1>2, <2>3 DEF PollLoad, TypeOK
<1>3. CASE PollFail(w)
  BY <1>3 DEF PollFail, TypeOK, NoPoll, Polls
<1>4. CASE PollAdopt(w)
  <2> DEFINE list == AsList(poll[w].list)
  <2>1. poll[w] \in Polls
    BY DEF TypeOK
  <2>2. poll[w].stamp \in Nat /\ poll[w].at \in Nat /\ poll[w].list \in Lists \cup {NoList}
    BY <2>1 DEF Polls
  <2>3. list \in Lists /\ RecordsOf(list) \subseteq Ids \X Versions
    BY <2>2, ListTypes
  <2>4. poll' \in [Windows -> Polls]
    BY <1>4 DEF PollAdopt, TypeOK, NoPoll, Polls
  <2>5. seenStamp' \in [Windows -> Nat]
    BY <1>4, <2>2 DEF PollAdopt, TypeOK
  <2>6. UNCHANGED <<file, fileAt, saves, replacing, pending, acts>>
    BY <1>4 DEF PollAdopt
  <2>7. CASE poll[w].at > known[w]
    <3>1. /\ Show(w, list, 0)
          /\ base' = [base EXCEPT ![w] = poll[w].list]
          /\ made' = [made EXCEPT ![w] = {}]
          /\ known' = [known EXCEPT ![w] = poll[w].at]
          /\ seen' = [seen EXCEPT ![w] = @ \cup RecordsOf(list)]
      BY <1>4, <2>7 DEF PollAdopt
    <3> HIDE DEF list
    <3>2. 0 \in 0..MaxInFlight
      BY BoundsAssumption
    <3>3. mem' \in [Windows -> Lists] /\ current' \in [Windows -> 0..MaxInFlight]
      BY <3>1, <3>2, <2>3, ShowType
    <3>4. QED
      BY <3>1, <3>3, <2>2, <2>3, <2>4, <2>5, <2>6 DEF TypeOK
  <2>8. CASE ~(poll[w].at > known[w])
    BY <1>4, <2>8, <2>4, <2>5, <2>6 DEF PollAdopt, TypeOK
  <2>9. QED
    BY <2>7, <2>8
<1>5. QED
  BY <1>1, <1>2, <1>3, <1>4

LEMMA StepType == TypeOK /\ [Next]_vars => TypeOK'
<1> SUFFICES ASSUME TypeOK, [Next]_vars PROVE TypeOK'
  OBVIOUS
<1>1. ASSUME NEW w \in Windows, SaveOtherKey(w) PROVE TypeOK'
  <2>1. PICK no \in FreeNos(w) : saves' = [saves EXCEPT ![w] = @ \cup
              {[no |-> no, how |-> "other", ids |-> {}, sent |-> mem[w], base |-> NoList,
                before |-> mem[w], state |-> "asked", old |-> NoList, at |-> 0]}]
    BY <1>1 DEF SaveOtherKey
  <2>2. [no |-> no, how |-> "other", ids |-> {}, sent |-> mem[w], base |-> NoList,
         before |-> mem[w], state |-> "asked", old |-> NoList, at |-> 0] \in Saves
    BY DEF FreeNos, Saves, TypeOK
  <2>3. saves' \in [Windows -> SUBSET Saves]
    BY <2>1, <2>2 DEF TypeOK
  <2>4. acts' \in Nat
    BY <1>1 DEF SaveOtherKey, Act, TypeOK
  <2>5. QED
    BY <1>1, <2>3, <2>4 DEF SaveOtherKey, TypeOK
<1>2. ASSUME NEW w \in Windows, Refresh(w) PROVE TypeOK'
  BY <1>2 DEF Refresh, TypeOK
<1>3. ASSUME NEW w \in Windows, ReplaceRead(w) PROVE TypeOK'
  <2>1. PICK c \in pending[w] :
          replacing' = [replacing EXCEPT ![w] = {[conflict |-> c, list |-> file]}]
    BY <1>3 DEF ReplaceRead
  <2>2. [conflict |-> c, list |-> file] \in [conflict : Conflicts, list : Lists]
    BY <1>3 DEF ReplaceRead, TypeOK
  <2>3. replacing' \in [Windows -> SUBSET [conflict : Conflicts, list : Lists]]
    BY <2>1, <2>2 DEF TypeOK
  <2>4. acts' \in Nat
    BY <1>3 DEF ReplaceRead, Act, TypeOK
  <2>5. QED
    BY <1>3, <2>3, <2>4 DEF ReplaceRead, TypeOK
<1>4. CASE UNCHANGED vars
  BY <1>4 DEF vars, TypeOK
<1>5. QED
  BY <1>1, <1>2, <1>3, <1>4, EditType, ReplaceAllType, ReplaceSaveType, WriteType,
     AcknowledgeType, RejectType, PollType DEF Next, Answer

(* Every variable keeps its type, whatever the windows do.                 *)
THEOREM TypeCorrect == Spec => []TypeOK
<1>1. QED
  BY InitType, StepType, PTL DEF Spec

-----------------------------------------------------------------------------
(* The inductive invariant.                                                *)

SeenGrows == \A w \in Windows : seen[w] \subseteq seen'[w]

LEMMA SeenGrowsBy ==
    ASSUME TypeOK, NEW w \in Windows, NEW X, seen' = [seen EXCEPT ![w] = @ \cup X]
    PROVE  SeenGrows /\ X \subseteq seen'[w]
  BY DEF SeenGrows, TypeOK

(* A window's base is the one it had, or one that is in hand now.          *)
LEMMA BasesStep ==
    ASSUME TypeOK, BasesInHand, SeenGrows, NEW w \in Windows, NEW list,
           base' = [base EXCEPT ![w] = list],
           list # NoList, RecordsOf(list) \subseteq seen'[w]
    PROVE  BasesInHand'
  BY DEF BasesInHand, InHand, SeenGrows, TypeOK

LEMMA BasesStay ==
    ASSUME BasesInHand, SeenGrows, UNCHANGED base
    PROVE  BasesInHand'
  BY DEF BasesInHand, InHand, SeenGrows

(* So it is with the saves.                                                *)
LEMMA SavesStep ==
    ASSUME SavesInHand, SeenGrows,
           \A v \in Windows : \A t \in saves'[v] :
               \/ t \in saves[v]
               \/ /\ t.how # "other" => RecordsOf(t.sent) \subseteq seen'[v]
                  /\ t.how \in {"plain", "checked", "replace"} =>
                        t.base # NoList /\ RecordsOf(t.base) \subseteq seen'[v]
    PROVE  SavesInHand'
  BY DEF SavesInHand, InHand, SeenGrows

LEMMA SendStep ==
    ASSUME TypeOK, SavesInHand, SeenGrows, NEW w \in Windows,
           NEW how, NEW ids, NEW list, NEW from,
           Send(w, how, ids, list, from),
           RecordsOf(list) \subseteq seen'[w],
           how \in {"plain", "checked", "replace"} =>
               from # NoList /\ RecordsOf(from) \subseteq seen'[w]
    PROVE  SavesInHand'
<1>1. PICK no \in FreeNos(w) :
        saves' = [saves EXCEPT ![w] = @ \cup
              {[no |-> no, how |-> how, ids |-> ids, sent |-> list, base |-> from,
                before |-> mem[w], state |-> "asked", old |-> NoList, at |-> 0]}]
  BY DEF Send
<1>2. \A v \in Windows : \A t \in saves'[v] :
        \/ t \in saves[v]
        \/ v = w /\ t.sent = list /\ t.how = how /\ t.base = from
  BY <1>1 DEF TypeOK
<1>3. QED
  BY <1>2, SavesStep

LEMMA InitInv == ~FirstListMissing /\ Init => IInv
<1> SUFFICES ASSUME ~FirstListMissing, Init PROVE IInv
  OBVIOUS
<1>1. TypeOK
  BY InitType
<1>2. file \in Lists /\ file # NoList
  BY ListTypes DEF Init
<1>3. AsList(file) = file
  BY <1>2 DEF AsList
<1>4. ListInFile
  BY <1>2 DEF ListInFile, Init, NoPoll
<1>5. BasesInHand
  BY <1>2, <1>3 DEF BasesInHand, InHand, Init
<1>6. SavesInHand
  BY DEF SavesInHand, Init
<1>7. QED
  BY <1>1, <1>4, <1>5, <1>6 DEF IInv

(* Edits and overwrites start from a base in hand and show what they send. *)
LEMMA ActInv ==
    ASSUME IInv, NEW w \in Windows,
           Edit(w) \/ ReplaceAll(w) \/ ReplaceSave(w)
    PROVE  ListInFile' /\ BasesInHand' /\ SavesInHand'
<1> USE DEF IInv
<1>1. UNCHANGED <<file, poll, base>>
  BY DEF Edit, EditRecord, ReplaceAll, ReplaceSave
<1>2. ListInFile'
  BY <1>1 DEF ListInFile
<1>3. CASE Edit(w)
  <2>1. PICK how \in {"plain", "checked"}, id \in Ids, version \in {acts + 1, Absent} :
          EditRecord(w, how, id, version)
    BY <1>3 DEF Edit
  <2> DEFINE list == [mem[w] EXCEPT ![id] = version]
  <2>2. /\ Send(w, how, {id}, list, base[w])
        /\ seen' = [seen EXCEPT ![w] = @ \cup RecordsOf(list)]
    BY <2>1 DEF EditRecord
  <2>3. base[w] # NoList /\ RecordsOf(base[w]) \subseteq seen[w]
    BY DEF BasesInHand, InHand
  <2> HIDE DEF list
  <2>4. SeenGrows /\ RecordsOf(list) \subseteq seen'[w]
    BY <2>2, SeenGrowsBy
  <2>5. RecordsOf(base[w]) \subseteq seen'[w]
    BY <2>3, <2>4 DEF SeenGrows
  <2>6. SavesInHand'
    BY <2>2, <2>3, <2>4, <2>5, SendStep
  <2>7. QED
    BY <1>1, <1>2, <2>4, <2>6, BasesStay
<1>4. CASE ReplaceAll(w)
  <2>1. PICK list \in {Empty, [id \in Ids |-> acts + 1]} :
          /\ Send(w, "whole", Ids, list, NoList)
          /\ seen' = [seen EXCEPT ![w] = @ \cup RecordsOf(list)]
    BY <1>4 DEF ReplaceAll
  <2>2. SeenGrows /\ RecordsOf(list) \subseteq seen'[w]
    BY <2>1, SeenGrowsBy
  <2>3. SavesInHand'
    BY <2>1, <2>2, SendStep
  <2>4. QED
    BY <1>1, <1>2, <2>2, <2>3, BasesStay
<1>5. CASE ReplaceSave(w)
  <2>1. PICK r \in replacing[w] :
          /\ Send(w, "replace", {r.conflict.id},
                  [r.list EXCEPT ![r.conflict.id] = r.conflict.mine], r.list)
          /\ seen' = [seen EXCEPT ![w] = @ \cup RecordsOf(r.list)
                         \cup RecordsOf([r.list EXCEPT ![r.conflict.id] = r.conflict.mine])]
    BY <1>5 DEF ReplaceSave
  <2> DEFINE list == [r.list EXCEPT ![r.conflict.id] = r.conflict.mine]
             both == RecordsOf(r.list) \cup RecordsOf(list)
  <2>2. r.list \in Lists /\ r.list # NoList
    BY ListTypes DEF TypeOK
  <2>3. seen' = [seen EXCEPT ![w] = @ \cup both]
    BY <2>1
  <2>4. SeenGrows /\ both \subseteq seen'[w]
    <3> HIDE DEF both
    <3>1. QED
      BY <2>3, SeenGrowsBy
  <2>5. RecordsOf(list) \subseteq seen'[w] /\ RecordsOf(r.list) \subseteq seen'[w]
    BY <2>4
  <2>6. Send(w, "replace", {r.conflict.id}, list, r.list)
    BY <2>1
  <2> HIDE DEF list
  <2>7. SavesInHand'
    BY <2>2, <2>4, <2>5, <2>6, SendStep
  <2>8. QED
    BY <1>1, <1>2, <2>4, <2>7, BasesStay
<1>6. QED
  BY <1>3, <1>4, <1>5

LEMMA WriteInv ==
    ASSUME IInv, NEW w \in Windows, Write(w)
    PROVE  ListInFile' /\ BasesInHand' /\ SavesInHand'
<1> USE DEF IInv
<1>1. PICK s \in saves[w] : WriteFile(w, s) \/ FailWrite(w, s)
  BY DEF Write
<1>2. s \in Saves
  BY DEF TypeOK
<1>3. UNCHANGED <<base, poll, seen>>
  BY <1>1 DEF WriteFile, FailWrite
<1>4. SeenGrows
  BY <1>3 DEF SeenGrows
<1>5. file' # NoList
  <2>1. CASE WriteFile(w, s)
    BY <2>1, <1>2, OutcomeType DEF WriteFile, ListInFile, TypeOK
  <2>2. CASE FailWrite(w, s)
    BY <2>2 DEF FailWrite, ListInFile
  <2>3. QED
    BY <1>1, <2>1, <2>2
<1>6. PICK t : /\ Progress(w, s, t)
               /\ t.sent = s.sent
               /\ t.how = s.how
               /\ t.base = s.base
  <2>1. CASE WriteFile(w, s)
    <3> DEFINE t == [s EXCEPT !.state = "written", !.old = file, !.at = fileAt + 1]
    <3>1. Progress(w, s, t)
      BY <2>1 DEF WriteFile
    <3>2. t.sent = s.sent /\ t.how = s.how /\ t.base = s.base
      BY <1>2 DEF Saves
    <3>3. QED
      BY <3>1, <3>2
  <2>2. CASE FailWrite(w, s)
    <3> DEFINE t == [s EXCEPT !.state = "failed"]
    <3>1. Progress(w, s, t)
      BY <2>2 DEF FailWrite
    <3>2. t.sent = s.sent /\ t.how = s.how /\ t.base = s.base
      BY <1>2 DEF Saves
    <3>3. QED
      BY <3>1, <3>2
  <2>3. QED
    BY <1>1, <2>1, <2>2
<1>7. \A v \in Windows : \A u \in saves'[v] : u \in saves[v] \/ (v = w /\ u = t)
  BY <1>6 DEF Progress, TypeOK
<1>8. /\ t.how # "other" => RecordsOf(t.sent) \subseteq seen'[w]
      /\ t.how \in {"plain", "checked", "replace"} =>
            t.base # NoList /\ RecordsOf(t.base) \subseteq seen'[w]
  BY <1>3, <1>6 DEF SavesInHand, InHand
<1>9. SavesInHand'
  BY <1>4, <1>7, <1>8, SavesStep
<1>10. QED
  BY <1>3, <1>4, <1>5, <1>9, BasesStay DEF ListInFile

LEMMA AnswerInv ==
    ASSUME IInv, NEW w \in Windows, Answer(w)
    PROVE  ListInFile' /\ BasesInHand' /\ SavesInHand'
<1> USE DEF IInv
<1>1. PICK s \in saves[w] : Acknowledge(w, s) \/ Reject(w, s)
  BY DEF Answer
<1>2. s \in Saves /\ s.sent \in Lists /\ s.old \in Lists \cup {NoList}
  BY DEF TypeOK, Saves
<1>3. UNCHANGED <<file, poll>> /\ Finish(w, s)
  BY <1>1 DEF Acknowledge, Reject
<1>4. ListInFile'
  BY <1>3 DEF ListInFile
<1>5. \A v \in Windows : saves'[v] \subseteq saves[v]
  BY <1>3 DEF Finish, TypeOK
<1>6. SeenGrows /\ BasesInHand'
  <2> DEFINE got == Outcome(s, s.old)
  <2>1. CASE UNCHANGED <<base, seen>>
    BY <2>1, BasesStay DEF SeenGrows
  <2>2. CASE Acknowledge(w, s) /\ s.how # "other" /\ got # s.sent /\ current[w] = s.no
    <3>1. /\ base' = [base EXCEPT ![w] = got]
          /\ seen' = [seen EXCEPT ![w] = @ \cup RecordsOf(got)]
      BY <2>2 DEF Acknowledge
    <3>2. got # NoList
      BY <1>2, <2>2, OutcomeType, ListTypes
    <3> HIDE DEF got
    <3>3. SeenGrows /\ RecordsOf(got) \subseteq seen'[w]
      BY <3>1, SeenGrowsBy
    <3>4. QED
      BY <3>1, <3>2, <3>3, BasesStep
  <2>3. CASE Acknowledge(w, s) /\ s.how # "other" /\ ~(got # s.sent /\ current[w] = s.no)
    <3>1. base' = [base EXCEPT ![w] = s.sent] /\ UNCHANGED seen
      BY <2>3 DEF Acknowledge
    <3>2. SeenGrows /\ RecordsOf(s.sent) \subseteq seen'[w]
      BY <2>3, <3>1 DEF SeenGrows, SavesInHand
    <3>3. QED
      BY <1>2, <3>1, <3>2, ListTypes, BasesStep
  <2>4. CASE Acknowledge(w, s) /\ s.how = "other"
    BY <2>1, <2>4 DEF Acknowledge
  <2>5. CASE Reject(w, s)
    BY <2>1, <2>5 DEF Reject
  <2>6. QED
    BY <1>1, <2>2, <2>3, <2>4, <2>5
<1>7. SavesInHand'
  BY <1>5, <1>6, SavesStep
<1>8. QED
  BY <1>4, <1>6, <1>7

LEMMA PollInv ==
    ASSUME IInv, NEW w \in Windows,
           PollStamp(w) \/ PollLoad(w) \/ PollFail(w) \/ PollAdopt(w)
    PROVE  ListInFile' /\ BasesInHand' /\ SavesInHand'
<1> USE DEF IInv
<1>1. UNCHANGED <<file, saves>>
  BY DEF PollStamp, PollLoad, PollFail, PollAdopt
<1>2. ListInFile'
  <2>1. poll \in [Windows -> Polls] /\ file # NoList
    BY DEF TypeOK, ListInFile
  <2>2. CASE PollLoad(w)
    BY <1>1, <2>1, <2>2 DEF PollLoad, ListInFile, Polls
  <2>3. CASE PollStamp(w) \/ PollFail(w) \/ PollAdopt(w)
    <3> DEFINE stamped == [NoPoll EXCEPT !.step = "stamped", !.stamp = fileAt]
    <3>1. NoPoll.step # "loaded" /\ stamped.step # "loaded"
      BY DEF NoPoll
    <3>2. poll' = [poll EXCEPT ![w] = NoPoll] \/ poll' = [poll EXCEPT ![w] = stamped]
      BY <2>3 DEF PollStamp, PollFail, PollAdopt
    <3> HIDE DEF stamped
    <3>3. \A v \in Windows : poll'[v] = poll[v] \/ poll'[v].step # "loaded"
      BY <2>1, <3>1, <3>2
    <3>4. QED
      BY <1>1, <2>1, <3>3 DEF ListInFile
  <2>4. QED
    BY <2>2, <2>3
<1>3. SeenGrows /\ BasesInHand'
  <2>1. CASE UNCHANGED <<base, seen>>
    BY <2>1, BasesStay DEF SeenGrows
  <2>2. CASE PollAdopt(w) /\ poll[w].at > known[w]
    <3> DEFINE list == poll[w].list
    <3>1. list # NoList
      BY <2>2 DEF PollAdopt, ListInFile
    <3>2. AsList(list) = list
      BY <3>1 DEF AsList
    <3>3. /\ base' = [base EXCEPT ![w] = list]
          /\ seen' = [seen EXCEPT ![w] = @ \cup RecordsOf(list)]
      BY <2>2, <3>2 DEF PollAdopt
    <3> HIDE DEF list
    <3>4. SeenGrows /\ RecordsOf(list) \subseteq seen'[w]
      BY <3>3, SeenGrowsBy
    <3>5. QED
      BY <3>1, <3>3, <3>4, BasesStep
  <2>3. QED
    BY <2>1, <2>2 DEF PollStamp, PollLoad, PollFail, PollAdopt
<1>4. SavesInHand'
  BY <1>1, <1>3, SavesStep
<1>5. QED
  BY <1>2, <1>3, <1>4

LEMMA StepInv == IInv /\ [Next]_vars => IInv'
<1> SUFFICES ASSUME IInv, [Next]_vars PROVE IInv'
  OBVIOUS
<1>1. TypeOK'
  BY StepType DEF IInv
<1>2. ASSUME NEW w \in Windows, SaveOtherKey(w)
      PROVE  ListInFile' /\ BasesInHand' /\ SavesInHand'
  <2>1. UNCHANGED <<file, poll, base, seen>>
    BY <1>2 DEF SaveOtherKey
  <2>2. SeenGrows
    BY <2>1 DEF SeenGrows
  <2>3. \A v \in Windows : \A t \in saves'[v] :
          t \in saves[v] \/ t.how = "other"
    BY <1>2 DEF SaveOtherKey, IInv, TypeOK
  <2>4. SavesInHand'
    BY <2>2, <2>3, SavesStep DEF IInv
  <2>5. QED
    BY <2>1, <2>2, <2>4, BasesStay DEF IInv, ListInFile
<1>3. ASSUME NEW w \in Windows, Refresh(w) \/ ReplaceRead(w)
      PROVE  ListInFile' /\ BasesInHand' /\ SavesInHand'
  BY <1>3 DEF Refresh, ReplaceRead, IInv, ListInFile, BasesInHand, SavesInHand, InHand
<1>4. ASSUME UNCHANGED vars
      PROVE  ListInFile' /\ BasesInHand' /\ SavesInHand'
  BY <1>4 DEF vars, IInv, ListInFile, BasesInHand, SavesInHand, InHand
<1>5. ListInFile' /\ BasesInHand' /\ SavesInHand'
  BY <1>2, <1>3, <1>4, ActInv, WriteInv, AnswerInv, PollInv DEF Next
<1>6. QED
  BY <1>1, <1>5 DEF IInv

(* What a save takes out of the file is part of its base.                  *)
LEMMA InvSuffices == IInv => NoBlindOverwrite
<1> SUFFICES ASSUME IInv,
                    NEW w \in Windows, NEW s \in WrittenSaves(w), s.how # "whole",
                    NEW record \in RecordsOf(AsList(s.old))
                                       \ RecordsOf(AsList(Outcome(s, s.old)))
             PROVE  record \in seen[w]
  BY DEF NoBlindOverwrite
<1> DEFINE old == s.old
           got == Outcome(s, s.old)
<1>1. s \in saves[w] /\ s \in Saves
  BY DEF WrittenSaves, IInv, TypeOK
<1>2. old \in Lists \cup {NoList} /\ s.sent \in Lists
  BY <1>1 DEF Saves
<1>3. s.how # "other"
  BY DEF Outcome
<1>4. s.base # NoList /\ RecordsOf(s.base) \subseteq seen[w]
  BY <1>1, <1>3 DEF Saves, IInv, SavesInHand, InHand
<1>5. old # NoList
  BY DEF AsList, Empty, RecordsOf
<1>6. got = [id \in Ids |-> Merged(s.base[id], s.sent[id], old[id])]
  BY <1>3, <1>4, <1>5 DEF Outcome, Merges
<1>7. got # NoList
  BY <1>2, <1>5, <1>1, OutcomeType
<1>8. record \in RecordsOf(old) /\ record \notin RecordsOf(got)
  BY <1>5, <1>7 DEF AsList
<1>9. PICK id \in Ids : record = <<id, old[id]>> /\ old[id] # Absent
  BY <1>8 DEF RecordsOf
<1>10. Merged(s.base[id], s.sent[id], old[id]) # old[id]
  BY <1>6, <1>8, <1>9 DEF RecordsOf
<1>11. old[id] = s.base[id]
  <2> HIDE DEF old
  <2>1. QED
    BY <1>10, OnlyTheBaseIsReplaced
<1>12. record \in RecordsOf(s.base)
  BY <1>9, <1>11 DEF RecordsOf
<1>13. QED
  BY <1>4, <1>12

(* No save of a window takes out of the file, or replaces, a version of a  *)
(* record that the window has not had in hand.                             *)
THEOREM BlindOverwriteNever ==
    ASSUME ~FirstListMissing
    PROVE  Spec => []NoBlindOverwrite
<1>1. Init => IInv
  BY InitInv
<1>2. QED
  BY <1>1, StepInv, InvSuffices, PTL DEF Spec

-----------------------------------------------------------------------------
(***************************************************************************)
(* What a window that does one thing at a time may rely on, for any number *)
(* of windows, records and acts: its save applies or reports the change    *)
(* its user made, touches no other record, and at rest the window shows    *)
(* the file.  The list is in the file when the windows open.               *)
(*                                                                         *)
(* All three rest on one fact: a window with nothing in flight shows its   *)
(* base, so what it sends differs from the base in the edited records      *)
(* alone.  That it shows the FILE when it has seen the last stamp needs    *)
(* the order of the times as well: a stamp is never later than what was    *)
(* read after it, nor that than what the window knows.                     *)
(***************************************************************************)

OneThingAtATime ==
    /\ MaxInFlight = 1
    /\ ~PollWhileSaving
    /\ ~OtherKeySaves
    /\ ~FirstListMissing

OneAtATime(w) ==
    /\ saves[w] # {} => poll[w].step = "idle"
    /\ \A s \in saves[w] : saves[w] = {s} /\ s.how # "other"

(* The window shows its base, or what it has just sent.                    *)
MemoryIsBase(w) ==
    /\ saves[w] = {} => mem[w] = base[w]
    /\ \A s \in saves[w] :
          /\ mem[w] = s.sent
          /\ current[w] = s.no
          /\ s.before = base[w]
          /\ s.how = "checked" =>
                /\ s.base = base[w]
                /\ \A id \in s.ids : s.sent[id] = Absent \/ id \in made[w]

(* A save differs from its base in the records its user changed.           *)
SavesAreEdits(w) ==
    \A s \in saves[w] :
        /\ s.how = "whole" => s.base = NoList /\ s.ids = Ids
        /\ s.how # "whole" =>
              s.base \in Lists /\ \A id \in Ids \ s.ids : s.sent[id] = s.base[id]
        /\ s.how \in {"plain", "checked"} => \A id \in s.ids : s.sent[id] # s.base[id]
        /\ s.state = "written" => s.old \in Lists

TimesGrow(w) ==
    /\ seenStamp[w] <= known[w]
    /\ known[w] <= fileAt
    /\ \A s \in WrittenSaves(w) : known[w] < s.at /\ s.at <= fileAt
    /\ poll[w].step # "idle" => poll[w].stamp <= fileAt
    /\ poll[w].step = "loaded" => poll[w].stamp <= poll[w].at /\ poll[w].at <= fileAt

(* Whatever carries the file's time carries the file's list.               *)
LatestIsTheFile(w) ==
    /\ known[w] = fileAt => base[w] = file
    /\ poll[w].step = "loaded" /\ poll[w].at = fileAt => poll[w].list = file
    /\ \A s \in WrittenSaves(w) : s.at = fileAt => Outcome(s, s.old) = file

Orderly(w) ==
    /\ OneAtATime(w)
    /\ MemoryIsBase(w)
    /\ SavesAreEdits(w)
    /\ TimesGrow(w)
    /\ LatestIsTheFile(w)

SettleInv == IInv /\ \A w \in Windows : Orderly(w)

-----------------------------------------------------------------------------
(* The steps of one window, seen from another.                             *)

Untouched(v) ==
    /\ mem'[v] = mem[v] /\ base'[v] = base[v] /\ current'[v] = current[v]
    /\ made'[v] = made[v] /\ known'[v] = known[v] /\ seenStamp'[v] = seenStamp[v]
    /\ saves'[v] = saves[v] /\ poll'[v] = poll[v]

LEMMA TimesAreNumbers ==
    ASSUME TypeOK, NEW v \in Windows
    PROVE  /\ known[v] \in Nat /\ seenStamp[v] \in Nat /\ fileAt \in Nat
           /\ poll[v].stamp \in Nat /\ poll[v].at \in Nat
           /\ \A s \in saves[v] : s.at \in Nat
<1>1. poll[v] \in Polls /\ saves[v] \subseteq Saves
  BY DEF TypeOK
<1>2. known[v] \in Nat /\ seenStamp[v] \in Nat /\ fileAt \in Nat
  BY DEF TypeOK
<1>3. QED
  BY <1>1, <1>2 DEF Polls, Saves

(* A window that a step leaves alone stays orderly, for the step leaves    *)
(* the file as it is or gives it a later time.                             *)
LEMMA ElsewhereStays ==
    ASSUME TypeOK, NEW v \in Windows, Orderly(v), Untouched(v),
           (file' = file /\ fileAt' = fileAt) \/ fileAt' = fileAt + 1
    PROVE  Orderly(v)'
<1>1. /\ known[v] \in Nat /\ seenStamp[v] \in Nat /\ fileAt \in Nat
      /\ poll[v].stamp \in Nat /\ poll[v].at \in Nat
      /\ \A s \in saves[v] : s.at \in Nat
  BY TimesAreNumbers
<1>2. OneAtATime(v)'
  BY DEF Orderly, OneAtATime, Untouched
<1>3. MemoryIsBase(v)'
  BY DEF Orderly, MemoryIsBase, Untouched
<1>4. SavesAreEdits(v)'
  BY DEF Orderly, SavesAreEdits, Untouched
<1>5. WrittenSaves(v)' = WrittenSaves(v) /\ WrittenSaves(v) \subseteq saves[v]
  BY DEF WrittenSaves, Untouched
<1>6. TimesGrow(v)'
  BY <1>1, <1>5 DEF Orderly, TimesGrow, Untouched
<1>7. LatestIsTheFile(v)'
  <2>1. CASE file' = file /\ fileAt' = fileAt
    BY <1>5, <2>1 DEF Orderly, LatestIsTheFile, Untouched, Outcome, Merges
  <2>2. CASE fileAt' = fileAt + 1
    <3>1. /\ known'[v] # fileAt'
          /\ poll'[v].step = "loaded" => poll'[v].at # fileAt'
          /\ \A s \in WrittenSaves(v)' : s.at # fileAt'
      BY <1>1, <1>5, <2>2 DEF Orderly, TimesGrow, Untouched
    <3>2. QED
      BY <3>1 DEF LatestIsTheFile
  <2>3. QED
    BY <2>1, <2>2
<1>8. QED
  BY <1>2, <1>3, <1>4, <1>6, <1>7 DEF Orderly

-----------------------------------------------------------------------------
LEMMA InitSettle == OneThingAtATime /\ Init => SettleInv
<1> SUFFICES ASSUME OneThingAtATime, Init PROVE SettleInv
  OBVIOUS
<1>1. IInv
  BY InitInv DEF OneThingAtATime
<1>2. file \in Lists /\ AsList(file) = file
  BY ListTypes DEF Init, OneThingAtATime, AsList
<1>3. SUFFICES ASSUME NEW w \in Windows PROVE Orderly(w)
  BY <1>1 DEF SettleInv
<1>4. /\ mem[w] = file /\ base[w] = file /\ saves[w] = {} /\ poll[w].step = "idle"
      /\ known[w] = 1 /\ seenStamp[w] = 0 /\ fileAt = 1
  BY <1>2 DEF Init, NoPoll
<1>5. QED
  BY <1>4 DEF Orderly, OneAtATime, MemoryIsBase, SavesAreEdits, TimesGrow,
              LatestIsTheFile, WrittenSaves

(* An act begins when nothing of the window is under way.                  *)
LEMMA ActsWhenFree ==
    ASSUME OneThingAtATime, SettleInv, NEW w \in Windows, MayAct(w)
    PROVE  /\ FreeNos(w) = {1} /\ saves[w] = {} /\ poll[w].step = "idle"
           /\ mem[w] = base[w] /\ base[w] \in Lists
<1>1. poll[w].step = "idle" /\ FreeNos(w) # {}
  BY DEF MayAct, OneThingAtATime
<1>2. MaxInFlight = 1 /\ \A s \in saves[w] : s.no \in 1..1
  BY DEF OneThingAtATime, SettleInv, IInv, TypeOK, Saves
<1>3. \A s \in saves[w] : s.no = 1
  BY <1>2
<1>4. saves[w] = {}
  <2>1. SUFFICES ASSUME NEW s \in saves[w] PROVE FreeNos(w) = {}
    BY <1>1
  <2>2. FreeNos(w) \subseteq 1..1 /\ 1 \notin FreeNos(w)
    BY <1>2, <1>3, <2>1 DEF FreeNos
  <2>3. QED
    BY <2>2
<1>5. FreeNos(w) = {1}
  BY <1>2, <1>4 DEF FreeNos
<1>6. mem[w] = base[w]
  BY <1>4 DEF SettleInv, Orderly, MemoryIsBase
<1>7. base[w] \in Lists
  BY DEF SettleInv, IInv, TypeOK, BasesInHand, InHand
<1>8. QED
  BY <1>1, <1>4, <1>5, <1>6, <1>7

(* What an act sends, and what it must say of it.                          *)
LEMMA SendSettles ==
    ASSUME OneThingAtATime, SettleInv, NEW w \in Windows, MayAct(w),
           NEW how \in {"plain", "checked", "replace", "whole"},
           NEW ids \in SUBSET Ids, NEW list \in Lists, NEW from \in Lists \cup {NoList},
           Send(w, how, ids, list, from),
           how = "whole" => from = NoList /\ ids = Ids,
           how # "whole" => from \in Lists /\ \A id \in Ids \ ids : list[id] = from[id],
           how \in {"plain", "checked"} => \A id \in ids : list[id] # from[id],
           how = "checked" => from = base[w] /\ \A id \in ids : id \in made'[w],
           \A v \in Windows \ {w} : made'[v] = made[v],
           UNCHANGED <<file, fileAt, base, known, seenStamp, poll>>
    PROVE  \A v \in Windows : Orderly(v)'
<1> DEFINE s == [no |-> 1, how |-> how, ids |-> ids, sent |-> list, base |-> from,
                 before |-> mem[w], state |-> "asked", old |-> NoList, at |-> 0]
<1>1. /\ FreeNos(w) = {1} /\ saves[w] = {} /\ poll[w].step = "idle"
      /\ mem[w] = base[w] /\ base[w] \in Lists
  BY ActsWhenFree
<1>2. /\ saves' = [saves EXCEPT ![w] = @ \cup {s}]
      /\ mem' = [mem EXCEPT ![w] = list]
      /\ current' = [current EXCEPT ![w] = 1]
  BY <1>1 DEF Send
<1>3. TypeOK
  BY DEF SettleInv, IInv
<1>4. saves'[w] = {s} /\ mem'[w] = list /\ current'[w] = 1
  BY <1>1, <1>2, <1>3 DEF TypeOK
<1>5. ASSUME NEW v \in Windows, v # w PROVE Orderly(v)'
  <2>1. Untouched(v)
    BY <1>2, <1>3, <1>5 DEF Untouched, TypeOK
  <2>2. QED
    BY <1>3, <2>1, ElsewhereStays DEF SettleInv
<1>6. WrittenSaves(w)' = {}
  BY <1>4 DEF WrittenSaves
<1>7. OneAtATime(w)'
  BY <1>1, <1>4 DEF OneAtATime
<1>8. MemoryIsBase(w)'
  <2>1. /\ s.sent = list /\ s.no = 1 /\ s.before = base'[w]
        /\ s.how = "checked" => s.base = base'[w] /\ \A id \in s.ids : id \in made'[w]
    BY <1>1
  <2> HIDE DEF s
  <2>2. QED
    BY <1>4, <2>1 DEF MemoryIsBase
<1>9. SavesAreEdits(w)'
  BY <1>4 DEF SavesAreEdits
<1>10. TimesGrow(w)' /\ LatestIsTheFile(w)'
  BY <1>6 DEF SettleInv, Orderly, TimesGrow, LatestIsTheFile
<1>11. QED
  BY <1>5, <1>7, <1>8, <1>9, <1>10 DEF Orderly

LEMMA ActSettles ==
    ASSUME OneThingAtATime, SettleInv, NEW w \in Windows,
           Edit(w) \/ ReplaceAll(w) \/ ReplaceSave(w)
    PROVE  \A v \in Windows : Orderly(v)'
<1> USE DEF SettleInv, IInv
<1>1. CASE Edit(w)
  <2>1. PICK how \in {"plain", "checked"}, id \in Ids, version \in {acts + 1, Absent} :
          EditRecord(w, how, id, version)
    BY <1>1 DEF Edit
  <2> DEFINE list == [mem[w] EXCEPT ![id] = version]
  <2>2. /\ MayAct(w) /\ list # mem[w]
        /\ Send(w, how, {id}, list, base[w])
        /\ made' = [made EXCEPT ![w] = @ \cup {id}]
        /\ UNCHANGED <<file, fileAt, base, known, seenStamp, poll>>
    BY <2>1 DEF EditRecord
  <2>3. mem[w] = base[w] /\ base[w] \in Lists
    BY <2>2, ActsWhenFree
  <2>4. version \in Versions
    BY DEF Versions, TypeOK
  <2>5. /\ list \in Lists /\ list[id] # base[w][id]
        /\ \A i \in Ids \ {id} : list[i] = base[w][i]
    BY <2>2, <2>3, <2>4 DEF Lists
  <2>6. id \in made'[w] /\ \A v \in Windows \ {w} : made'[v] = made[v]
    BY <2>2 DEF TypeOK
  <2>7. /\ {id} \in SUBSET Ids
        /\ how \in {"plain", "checked"} => \A i \in {id} : list[i] # base[w][i]
        /\ how = "checked" => base[w] = base[w] /\ \A i \in {id} : i \in made'[w]
    BY <2>5, <2>6
  <2>8. how \in {"plain", "checked", "replace", "whole"} /\ how # "whole"
    OBVIOUS
  <2> HIDE DEF list
  <2>9. QED
    BY <2>2, <2>3, <2>5, <2>6, <2>7, <2>8, SendSettles
<1>2. CASE ReplaceAll(w)
  <2>1. PICK list \in {Empty, [id \in Ids |-> acts + 1]} :
          /\ MayAct(w)
          /\ Send(w, "whole", Ids, list, NoList)
          /\ made' = [made EXCEPT ![w] = Ids]
          /\ UNCHANGED <<file, fileAt, base, known, seenStamp, poll>>
    BY <1>2 DEF ReplaceAll
  <2>2. list \in Lists
    BY ListTypes DEF Lists, Versions, TypeOK
  <2>3. \A v \in Windows \ {w} : made'[v] = made[v]
    BY <2>1 DEF TypeOK
  <2>4. QED
    BY <2>1, <2>2, <2>3, SendSettles
<1>3. CASE ReplaceSave(w)
  <2>1. PICK r \in replacing[w] :
          /\ MayAct(w)
          /\ Send(w, "replace", {r.conflict.id},
                  [r.list EXCEPT ![r.conflict.id] = r.conflict.mine], r.list)
          /\ made' = [made EXCEPT ![w] = {}]
          /\ UNCHANGED <<file, fileAt, base, known, seenStamp, poll>>
    BY <1>3 DEF ReplaceSave
  <2> DEFINE id == r.conflict.id
             list == [r.list EXCEPT ![id] = r.conflict.mine]
  <2>2. r.list \in Lists /\ id \in Ids /\ r.conflict.mine \in Versions
    BY DEF TypeOK, Conflicts
  <2>3. list \in Lists /\ \A i \in Ids \ {id} : list[i] = r.list[i]
    BY <2>2 DEF Lists
  <2>4. \A v \in Windows \ {w} : made'[v] = made[v]
    BY <2>1 DEF TypeOK
  <2>5. Send(w, "replace", {id}, list, r.list)
    BY <2>1
  <2> HIDE DEF list, id
  <2>6. QED
    BY <2>1, <2>2, <2>3, <2>4, <2>5, SendSettles
<1>4. QED
  BY <1>1, <1>2, <1>3

-----------------------------------------------------------------------------
(* A write puts into the file what its save makes of the list there, and   *)
(* is the latest.                                                          *)
LEMMA WriteSettles ==
    ASSUME OneThingAtATime, SettleInv, NEW w \in Windows, Write(w)
    PROVE  \A v \in Windows : Orderly(v)'
<1> USE DEF SettleInv, IInv
<1>1. PICK s \in saves[w] : WriteFile(w, s) \/ FailWrite(w, s)
  BY DEF Write
<1>2. s \in Saves /\ saves[w] = {s} /\ s.how # "other" /\ poll[w].step = "idle"
  BY DEF TypeOK, Orderly, OneAtATime
<1>3. /\ UNCHANGED <<mem, base, current, made, known, seenStamp, poll>>
      /\ (file' = file /\ fileAt' = fileAt) \/ fileAt' = fileAt + 1
  BY <1>1 DEF WriteFile, FailWrite
<1>4. ASSUME NEW v \in Windows, v # w PROVE Orderly(v)'
  <2>1. saves'[v] = saves[v]
    BY <1>1, <1>4 DEF WriteFile, FailWrite, Progress, TypeOK
  <2>2. Untouched(v)
    BY <1>3, <2>1 DEF Untouched
  <2>3. QED
    BY <1>3, <2>2, ElsewhereStays
<1>5. PICK t \in Saves :
        /\ saves'[w] = {t}
        /\ t.no = s.no /\ t.how = s.how /\ t.ids = s.ids /\ t.sent = s.sent
        /\ t.base = s.base /\ t.before = s.before
        /\ \/ /\ t.state = "failed" /\ file' = file /\ fileAt' = fileAt
           \/ /\ t.old = file /\ t.at = fileAt + 1 /\ t.state = "written"
              /\ file' = Outcome(s, file) /\ fileAt' = fileAt + 1
  <2>1. CASE WriteFile(w, s)
    <3> DEFINE t == [s EXCEPT !.state = "written", !.old = file, !.at = fileAt + 1]
    <3>1. t \in Saves
      <4>1. file \in Lists \cup {NoList} /\ fileAt + 1 \in Nat
        BY DEF TypeOK
      <4>2. QED
        BY <1>2, <4>1 DEF Saves
    <3>2. saves'[w] = {t}
      BY <1>2, <2>1 DEF WriteFile, Progress, TypeOK
    <3>3. /\ t.no = s.no /\ t.how = s.how /\ t.ids = s.ids /\ t.sent = s.sent
          /\ t.base = s.base /\ t.before = s.before
          /\ t.old = file /\ t.at = fileAt + 1 /\ t.state = "written"
      BY <1>2 DEF Saves
    <3>4. file' = Outcome(s, file) /\ fileAt' = fileAt + 1
      BY <2>1 DEF WriteFile
    <3> HIDE DEF t
    <3>5. QED
      BY <3>1, <3>2, <3>3, <3>4
  <2>2. CASE FailWrite(w, s)
    <3> DEFINE t == [s EXCEPT !.state = "failed"]
    <3>1. t \in Saves
      BY <1>2 DEF Saves
    <3>2. saves'[w] = {t}
      BY <1>2, <2>2 DEF FailWrite, Progress, TypeOK
    <3>3. /\ t.no = s.no /\ t.how = s.how /\ t.ids = s.ids /\ t.sent = s.sent
          /\ t.base = s.base /\ t.before = s.before /\ t.state = "failed"
      BY <1>2 DEF Saves
    <3>4. file' = file /\ fileAt' = fileAt
      BY <2>2 DEF FailWrite
    <3> HIDE DEF t
    <3>5. QED
      BY <3>1, <3>2, <3>3, <3>4
  <2>3. QED
    BY <1>1, <2>1, <2>2
<1>6. OneAtATime(w)' /\ MemoryIsBase(w)'
  BY <1>2, <1>3, <1>5 DEF Orderly, OneAtATime, MemoryIsBase
<1>7. file \in Lists
  BY DEF ListInFile, TypeOK
<1>8. SavesAreEdits(w)'
  BY <1>5, <1>7 DEF Orderly, SavesAreEdits
<1>9. known[w] \in Nat /\ fileAt \in Nat /\ known[w] <= fileAt
  BY TimesAreNumbers DEF Orderly, TimesGrow
<1>10. WrittenSaves(w)' = {u \in {t} : u.state = "written"}
  BY <1>5 DEF WrittenSaves
<1>11. TimesGrow(w)'
  BY <1>2, <1>3, <1>5, <1>9, <1>10 DEF Orderly, TimesGrow
<1>12. Outcome(t, file) = Outcome(s, file)
  BY <1>5 DEF Outcome, Merges
<1>13. LatestIsTheFile(w)'
  <2>1. CASE t.state = "written"
    <3>1. known'[w] # fileAt' /\ t.old = file /\ file' = Outcome(s, file)
      BY <1>3, <1>5, <1>9, <2>1
    <3>2. \A u \in WrittenSaves(w)' : Outcome(u, u.old) = file'
      BY <1>10, <1>12, <3>1 DEF Outcome, Merges
    <3>3. QED
      BY <1>2, <1>3, <3>1, <3>2 DEF LatestIsTheFile
  <2>2. CASE t.state = "failed"
    <3>1. WrittenSaves(w)' = {} /\ file' = file /\ fileAt' = fileAt
      BY <1>5, <1>10, <2>2
    <3>2. QED
      BY <1>2, <1>3, <3>1 DEF Orderly, LatestIsTheFile
  <2>3. QED
    BY <1>5, <2>1, <2>2
<1>14. QED
  BY <1>4, <1>6, <1>8, <1>11, <1>13 DEF Orderly

(* Its answer leaves the window with a base again, which it shows: what    *)
(* the file made of the save, or what there was before it.                 *)
LEMMA AcknowledgeSettles ==
    ASSUME OneThingAtATime, SettleInv, NEW w \in Windows, NEW s \in saves[w],
           Acknowledge(w, s)
    PROVE  /\ mem'[w] = base'[w]
           /\ known'[w] = s.at
           /\ s.at = fileAt => base'[w] = file
           /\ known[w] < s.at /\ s.at <= fileAt
<1> USE DEF SettleInv, IInv
<1> DEFINE got == Outcome(s, s.old)
<1>1. s.how # "other" /\ mem[w] = s.sent /\ current[w] = s.no
  BY DEF Orderly, OneAtATime, MemoryIsBase
<1>2. s \in WrittenSaves(w)
  BY DEF WrittenSaves, Acknowledge
<1>3. known[w] < s.at /\ s.at <= fileAt /\ (s.at = fileAt => got = file)
  BY <1>2 DEF Orderly, TimesGrow, LatestIsTheFile
<1>4. known'[w] = s.at
  BY DEF Acknowledge, TypeOK
<1>5. mem'[w] = got /\ base'[w] = got
  <2>1. CASE got # s.sent
    <3>1. Show(w, got, 0) /\ base' = [base EXCEPT ![w] = got]
      BY <1>1, <2>1 DEF Acknowledge
    <3> HIDE DEF got
    <3>2. QED
      BY <3>1 DEF Show, TypeOK
  <2>2. CASE got = s.sent
    <3>1. Keep(w, s) /\ base' = [base EXCEPT ![w] = s.sent]
      BY <1>1, <2>2 DEF Acknowledge
    <3> HIDE DEF got
    <3>2. QED
      BY <1>1, <2>2, <3>1 DEF Keep, Show, TypeOK
  <2>3. QED
    BY <2>1, <2>2
<1>6. QED
  BY <1>3, <1>4, <1>5

LEMMA RejectSettles ==
    ASSUME OneThingAtATime, SettleInv, NEW w \in Windows, NEW s \in saves[w],
           Reject(w, s)
    PROVE  mem'[w] = base'[w] /\ base'[w] = base[w] /\ known'[w] = known[w]
<1> USE DEF SettleInv, IInv
<1>1. /\ s.how # "other" /\ mem[w] = s.sent /\ current[w] = s.no /\ s.before = base[w]
      /\ s.how = "checked" =>
            /\ s.base = base[w]
            /\ \A id \in s.ids : s.sent[id] = Absent \/ id \in made[w]
  BY DEF Orderly, OneAtATime, MemoryIsBase
<1>2. s \in Saves /\ base[w] \in Lists /\ AsList(base[w]) = base[w]
  BY DEF TypeOK, BasesInHand, InHand, AsList
<1>3. UNCHANGED <<base, known>> /\ Undo(w, s)
  BY DEF Reject
<1>4. PICK list : Show(w, list, 0) /\ list = base[w]
  <2>1. CASE s.how \in {"plain", "whole"}
    BY <1>1, <1>2, <1>3, <2>1 DEF Undo
  <2>2. CASE s.how = "replace"
    BY <1>1, <1>3, <2>2 DEF Undo
  <2>3. CASE s.how = "checked"
    <3> DEFINE list == [id \in Ids |-> IF id \in s.ids THEN s.before[id] ELSE mem[w][id]]
    <3>1. Show(w, list, 0)
      BY <1>1, <1>3, <2>3 DEF Undo
    <3>2. \A id \in Ids \ s.ids : s.sent[id] = base[w][id]
      BY <1>1, <2>3 DEF Orderly, SavesAreEdits
    <3>3. list = base[w]
      BY <1>1, <1>2, <3>2 DEF Lists
    <3> HIDE DEF list
    <3>4. QED
      BY <3>1, <3>3
  <2>4. QED
    BY <1>1, <1>2, <2>1, <2>2, <2>3 DEF Saves
<1>5. QED
  BY <1>3, <1>4 DEF Show, TypeOK

LEMMA AnswerSettles ==
    ASSUME OneThingAtATime, SettleInv, NEW w \in Windows, Answer(w)
    PROVE  \A v \in Windows : Orderly(v)'
<1> USE DEF SettleInv, IInv
<1>1. PICK s \in saves[w] : Acknowledge(w, s) \/ Reject(w, s)
  BY DEF Answer
<1>2. /\ UNCHANGED <<file, fileAt, seenStamp, poll>>
      /\ saves' = [saves EXCEPT ![w] = @ \ {s}]
  BY <1>1 DEF Acknowledge, Reject, Finish
<1>3. saves[w] = {s} /\ poll[w].step = "idle"
  BY DEF Orderly, OneAtATime
<1>4. saves'[w] = {}
  BY <1>2, <1>3 DEF TypeOK
<1>5. ASSUME NEW v \in Windows, v # w PROVE Orderly(v)'
  <2>1. CASE Acknowledge(w, s)
    <3>1. known'[v] = known[v]
      BY <1>5, <2>1 DEF Acknowledge, TypeOK
    <3>2. base'[v] = base[v] /\ mem'[v] = mem[v] /\ current'[v] = current[v]
          /\ made'[v] = made[v]
      BY <1>5, <2>1 DEF Acknowledge, Keep, Show, TypeOK
    <3>3. Untouched(v)
      BY <1>2, <1>5, <3>1, <3>2 DEF Untouched, TypeOK
    <3>4. QED
      BY <1>2, <3>3, ElsewhereStays
  <2>2. CASE Reject(w, s)
    <3>1. UNCHANGED <<base, made, known>>
      BY <2>2 DEF Reject
    <3>2. mem'[v] = mem[v] /\ current'[v] = current[v]
      BY <1>5, <2>2 DEF Reject, Undo, Keep, Show, TypeOK
    <3>3. Untouched(v)
      BY <1>2, <1>5, <3>1, <3>2 DEF Untouched, TypeOK
    <3>4. QED
      BY <1>2, <3>3, ElsewhereStays
  <2>3. QED
    BY <1>1, <2>1, <2>2
<1>6. /\ mem'[w] = base'[w]
      /\ known[w] <= known'[w] /\ known'[w] <= fileAt
      /\ known'[w] = fileAt => base'[w] = file
  <2>1. known[w] \in Nat /\ fileAt \in Nat /\ s.at \in Nat /\ known[w] <= fileAt
    BY TimesAreNumbers DEF Orderly, TimesGrow
  <2>2. CASE Acknowledge(w, s)
    BY <2>1, <2>2, AcknowledgeSettles
  <2>3. CASE Reject(w, s)
    BY <2>1, <2>3, RejectSettles DEF Orderly, LatestIsTheFile
  <2>4. QED
    BY <1>1, <2>2, <2>3
<1>7. WrittenSaves(w)' = {}
  BY <1>4 DEF WrittenSaves
<1>8. OneAtATime(w)' /\ MemoryIsBase(w)' /\ SavesAreEdits(w)'
  BY <1>4, <1>6 DEF OneAtATime, MemoryIsBase, SavesAreEdits
<1>9. known'[w] \in Nat
  BY StepType, <1>1 DEF Next, Answer, TypeOK
<1>10. TimesGrow(w)'
  BY <1>2, <1>3, <1>6, <1>7, <1>9, TimesAreNumbers DEF Orderly, TimesGrow
<1>11. LatestIsTheFile(w)'
  BY <1>2, <1>3, <1>6, <1>7 DEF LatestIsTheFile
<1>12. QED
  BY <1>5, <1>8, <1>10, <1>11 DEF Orderly

-----------------------------------------------------------------------------
(* A poll: its stamp is read before the file, so it is never the later.    *)
LEMMA PollSettles ==
    ASSUME OneThingAtATime, SettleInv, NEW w \in Windows,
           PollStamp(w) \/ PollLoad(w) \/ PollFail(w) \/ PollAdopt(w)
    PROVE  \A v \in Windows : Orderly(v)'
<1> USE DEF SettleInv, IInv
<1>1. UNCHANGED <<file, fileAt, saves>>
  BY DEF PollStamp, PollLoad, PollFail, PollAdopt
<1>2. saves[w] = {}
  BY DEF PollStamp, PollLoad, PollFail, PollAdopt, OneThingAtATime, Orderly, OneAtATime
<1>3. /\ known[w] \in Nat /\ seenStamp[w] \in Nat /\ fileAt \in Nat
      /\ poll[w].stamp \in Nat /\ poll[w].at \in Nat
  BY TimesAreNumbers
<1>4. ASSUME NEW v \in Windows, v # w PROVE Orderly(v)'
  <2>1. poll'[v] = poll[v] /\ seenStamp'[v] = seenStamp[v]
    BY <1>4 DEF PollStamp, PollLoad, PollFail, PollAdopt, TypeOK
  <2>2. /\ known'[v] = known[v] /\ base'[v] = base[v] /\ mem'[v] = mem[v]
        /\ current'[v] = current[v] /\ made'[v] = made[v]
    BY <1>4 DEF PollStamp, PollLoad, PollFail, PollAdopt, Show, TypeOK
  <2>3. Untouched(v)
    BY <1>1, <2>1, <2>2 DEF Untouched
  <2>4. QED
    BY <1>1, <2>3, ElsewhereStays
<1>5. WrittenSaves(w)' = {} /\ saves'[w] = {}
  BY <1>1, <1>2 DEF WrittenSaves
<1>6. OneAtATime(w)' /\ SavesAreEdits(w)'
  BY <1>5 DEF OneAtATime, SavesAreEdits
<1>7. MemoryIsBase(w)' /\ TimesGrow(w)' /\ LatestIsTheFile(w)'
  <2>1. /\ mem[w] = base[w] /\ seenStamp[w] <= known[w] /\ known[w] <= fileAt
        /\ known[w] = fileAt => base[w] = file
    BY <1>2 DEF Orderly, MemoryIsBase, TimesGrow, LatestIsTheFile
  <2>2. CASE PollStamp(w)
    <3> DEFINE p == [NoPoll EXCEPT !.step = "stamped", !.stamp = fileAt]
    <3>1. p.step = "stamped" /\ p.stamp = fileAt
      BY DEF NoPoll
    <3>2. poll'[w] = p /\ UNCHANGED <<mem, base, known, seenStamp>>
      BY <2>2 DEF PollStamp, TypeOK
    <3> HIDE DEF p
    <3>3. QED
      BY <1>1, <1>3, <1>5, <2>1, <3>1, <3>2 DEF MemoryIsBase, TimesGrow, LatestIsTheFile
  <2>3. CASE PollLoad(w)
    <3>1. /\ poll'[w].step = "loaded" /\ poll'[w].stamp = poll[w].stamp
          /\ poll'[w].list = file /\ poll'[w].at = fileAt
          /\ poll[w].stamp <= fileAt
      <4>1. poll[w] \in Polls /\ poll[w].step = "stamped" /\ poll[w].stamp <= fileAt
        BY <2>3 DEF PollLoad, TypeOK, Orderly, TimesGrow
      <4>2. poll'[w] = [poll[w] EXCEPT !.step = "loaded", !.list = file, !.at = fileAt]
        BY <2>3 DEF PollLoad, TypeOK
      <4>3. QED
        BY <4>1, <4>2 DEF Polls
    <3>2. UNCHANGED <<mem, base, known, seenStamp>>
      BY <2>3 DEF PollLoad
    <3>3. QED
      BY <1>1, <1>3, <1>5, <2>1, <3>1, <3>2 DEF MemoryIsBase, TimesGrow, LatestIsTheFile
  <2>4. CASE PollFail(w)
    <3>1. poll'[w].step = "idle" /\ UNCHANGED <<mem, base, known, seenStamp>>
      BY <2>4 DEF PollFail, NoPoll, TypeOK
    <3>2. QED
      BY <1>1, <1>3, <1>5, <2>1, <3>1 DEF MemoryIsBase, TimesGrow, LatestIsTheFile
  <2>5. CASE PollAdopt(w)
    <3>1. poll'[w].step = "idle" /\ seenStamp'[w] = poll[w].stamp
      BY <2>5 DEF PollAdopt, NoPoll, TypeOK
    <3>2. /\ poll[w].stamp <= poll[w].at /\ poll[w].at <= fileAt
          /\ poll[w].at = fileAt => poll[w].list = file
          /\ poll[w].list # NoList
      BY <2>5 DEF PollAdopt, Orderly, TimesGrow, LatestIsTheFile, ListInFile
    <3>3. CASE poll[w].at > known[w]
      <4>1. AsList(poll[w].list) = poll[w].list
        BY <3>2 DEF AsList
      <4>2. /\ mem' = [mem EXCEPT ![w] = poll[w].list]
            /\ base' = [base EXCEPT ![w] = poll[w].list]
            /\ known' = [known EXCEPT ![w] = poll[w].at]
        BY <2>5, <3>3, <4>1 DEF PollAdopt, Show
      <4>3. mem'[w] = poll[w].list /\ base'[w] = poll[w].list /\ known'[w] = poll[w].at
        BY <4>2 DEF TypeOK
      <4>4. QED
        BY <1>1, <1>3, <1>5, <3>1, <3>2, <4>3 DEF MemoryIsBase, TimesGrow, LatestIsTheFile
    <3>4. CASE ~(poll[w].at > known[w])
      <4>1. UNCHANGED <<mem, base, known>>
        BY <2>5, <3>4 DEF PollAdopt
      <4>2. QED
        BY <1>1, <1>3, <1>5, <2>1, <3>1, <3>2, <3>4, <4>1
           DEF MemoryIsBase, TimesGrow, LatestIsTheFile
    <3>5. QED
      BY <3>3, <3>4
  <2>6. QED
    BY <2>2, <2>3, <2>4, <2>5
<1>8. QED
  BY <1>4, <1>6, <1>7 DEF Orderly

LEMMA StepSettles == OneThingAtATime /\ SettleInv /\ [Next]_vars => SettleInv'
<1> SUFFICES ASSUME OneThingAtATime, SettleInv, [Next]_vars PROVE SettleInv'
  OBVIOUS
<1>1. IInv'
  BY StepInv DEF SettleInv
<1>2. ASSUME NEW w \in Windows, Refresh(w) \/ ReplaceRead(w)
      PROVE  \A v \in Windows : Orderly(v)'
  <2>1. UNCHANGED <<file, fileAt, mem, base, current, made, known, seenStamp, saves, poll>>
    BY <1>2 DEF Refresh, ReplaceRead
  <2>2. QED
    BY <2>1, ElsewhereStays DEF SettleInv, IInv, Untouched
<1>3. ASSUME UNCHANGED vars PROVE \A v \in Windows : Orderly(v)'
  <2>1. UNCHANGED <<file, fileAt, mem, base, current, made, known, seenStamp, saves, poll>>
    BY <1>3 DEF vars
  <2>2. QED
    BY <2>1, ElsewhereStays DEF SettleInv, IInv, Untouched
<1>4. \A w \in Windows : ~SaveOtherKey(w)
  BY DEF SaveOtherKey, OneThingAtATime
<1>5. \A v \in Windows : Orderly(v)'
  BY <1>2, <1>3, <1>4, ActSettles, WriteSettles, AnswerSettles, PollSettles DEF Next
<1>6. QED
  BY <1>1, <1>5 DEF SettleInv

-----------------------------------------------------------------------------
(* What a written save found in the file was a list; what it left there is *)
(* the merge of the two, or the whole list it sent.                        *)
LEMMA WhatASaveLeaves ==
    ASSUME SettleInv, NEW w \in Windows, NEW s \in WrittenSaves(w)
    PROVE  /\ s \in saves[w] /\ s \in Saves /\ s.old \in Lists
           /\ Outcome(s, s.old) \in Lists
           /\ s.how = "whole" => Outcome(s, s.old) = s.sent
           /\ s.how # "whole" =>
                 /\ s.base \in Lists
                 /\ Outcome(s, s.old) =
                       [id \in Ids |-> Merged(s.base[id], s.sent[id], s.old[id])]
                 /\ ConflictsOf(s, s.old) = {[id |-> id, mine |-> s.sent[id]] :
                       id \in {i \in Ids : Conflict(s.base[i], s.sent[i], s.old[i])}}
<1>1. s \in saves[w] /\ s \in Saves /\ s.state = "written"
  BY DEF WrittenSaves, SettleInv, IInv, TypeOK
<1>2. s.old \in Lists /\ s.old # NoList /\ s.how # "other"
  BY <1>1, ListTypes DEF SettleInv, Orderly, SavesAreEdits, OneAtATime
<1>3. /\ s.how = "whole" => s.base = NoList
      /\ s.how # "whole" => s.base \in Lists /\ s.base # NoList
  BY <1>1, ListTypes DEF SettleInv, Orderly, SavesAreEdits
<1>4. Outcome(s, s.old) \in Lists
  BY <1>1, <1>2, OutcomeType
<1>5. s.how = "whole" => Outcome(s, s.old) = s.sent
  BY <1>2, <1>3 DEF Outcome, Merges
<1>6. s.how # "whole" =>
        /\ Outcome(s, s.old) = [id \in Ids |-> Merged(s.base[id], s.sent[id], s.old[id])]
        /\ ConflictsOf(s, s.old) = {[id |-> id, mine |-> s.sent[id]] :
              id \in {i \in Ids : Conflict(s.base[i], s.sent[i], s.old[i])}}
  BY <1>2, <1>3 DEF Outcome, Merges, ConflictsOf
<1>7. QED
  BY <1>1, <1>2, <1>3, <1>4, <1>5, <1>6

(* What the user changed is in the file after his save, or is reported.    *)
THEOREM EditsAreAppliedOrReported ==
    ASSUME OneThingAtATime
    PROVE  Spec => []EditAppliedOrReported
<1>1. Init => SettleInv
  BY InitSettle
<1>2. SettleInv /\ [Next]_vars => SettleInv'
  BY StepSettles
<1>3. SettleInv => EditAppliedOrReported
  <2>1. SUFFICES ASSUME SettleInv, NEW w \in Windows, NEW s \in WrittenSaves(w),
                        NEW id \in s.ids, Outcome(s, s.old)[id] # s.sent[id],
                        s.how # "replace" \/ s.sent[id] # s.base[id]
                 PROVE  \E c \in ConflictsOf(s, s.old) : c.id = id
    BY DEF EditAppliedOrReported
  <2>2. id \in Ids /\ s.how # "whole" /\ s \in saves[w] /\ s \in Saves
    BY <2>1, WhatASaveLeaves DEF Saves
  <2>3. s.sent[id] # s.base[id]
    BY <2>1, <2>2 DEF SettleInv, Orderly, SavesAreEdits, OneAtATime, Saves
  <2>4. Merged(s.base[id], s.sent[id], s.old[id]) # s.sent[id]
    BY <2>1, <2>2, WhatASaveLeaves
  <2>5. Conflict(s.base[id], s.sent[id], s.old[id])
    BY <2>3, <2>4, EveryChangeIsAppliedOrReported
  <2>6. [id |-> id, mine |-> s.sent[id]] \in ConflictsOf(s, s.old)
    BY <2>1, <2>2, <2>5, WhatASaveLeaves
  <2>7. QED
    BY <2>6
<1>4. QED
  BY <1>1, <1>2, <1>3, PTL DEF Spec

(* A save changes no record but those its user changed.                    *)
THEOREM OthersAreLeftAlone ==
    ASSUME OneThingAtATime
    PROVE  Spec => []OnlyTheEditedRecords
<1>1. Init => SettleInv
  BY InitSettle
<1>2. SettleInv /\ [Next]_vars => SettleInv'
  BY StepSettles
<1>3. SettleInv => OnlyTheEditedRecords
  <2>1. SUFFICES ASSUME SettleInv, NEW w \in Windows, NEW s \in WrittenSaves(w),
                        NEW id \in Ids \ s.ids
                 PROVE  AsList(Outcome(s, s.old))[id] = AsList(s.old)[id]
    BY DEF OnlyTheEditedRecords
  <2>2. /\ s \in saves[w] /\ s.old \in Lists /\ Outcome(s, s.old) \in Lists
        /\ AsList(Outcome(s, s.old)) = Outcome(s, s.old) /\ AsList(s.old) = s.old
    BY <2>1, WhatASaveLeaves, ListTypes DEF AsList
  <2>3. s.how # "whole" /\ s.sent[id] = s.base[id]
    BY <2>1, <2>2 DEF SettleInv, Orderly, SavesAreEdits
  <2>4. Outcome(s, s.old)[id] = Merged(s.base[id], s.sent[id], s.old[id])
    BY <2>1, <2>3, WhatASaveLeaves
  <2>5. Merged(s.base[id], s.sent[id], s.old[id]) = s.old[id]
    BY <2>3, MergedIsSwapOfTheBase
  <2>6. QED
    BY <2>2, <2>4, <2>5
<1>4. QED
  BY <1>1, <1>2, <1>3, PTL DEF Spec

(* A window at rest that has seen the file's stamp shows the file.         *)
THEOREM RestingWindowShowsFile ==
    ASSUME OneThingAtATime
    PROVE  Spec => []SettledWindowShowsFile
<1>1. Init => SettleInv
  BY InitSettle
<1>2. SettleInv /\ [Next]_vars => SettleInv'
  BY StepSettles
<1>3. SettleInv => SettledWindowShowsFile
  <2>1. SUFFICES ASSUME SettleInv, NEW w \in Windows, Quiet(w), seenStamp[w] = fileAt
                 PROVE  mem[w] = AsList(file)
    BY DEF SettledWindowShowsFile
  <2>2. known[w] = fileAt
    BY <2>1, TimesAreNumbers DEF SettleInv, IInv, Orderly, TimesGrow
  <2>3. mem[w] = file
    BY <2>1, <2>2 DEF SettleInv, Orderly, MemoryIsBase, LatestIsTheFile, Quiet
  <2>4. QED
    BY <2>1, <2>3 DEF SettleInv, IInv, ListInFile, AsList
<1>4. QED
  BY <1>1, <1>2, <1>3, PTL DEF Spec
=============================================================================
