----------------------------- MODULE MergeLists -----------------------------
(***************************************************************************)
(* The merging save of a list of records (merge_records and                *)
(* save_keys_merging_in in store.rs; its twin mergeRecordsDetailed and     *)
(* applyMineToList in record-merge.ts), as one call made on any base, sent *)
(* list and file, then either made once more (a save that reached the file *)
(* but was answered with an error) or followed by the user's "replace" for *)
(* one of the conflicts it reported.                                       *)
(*                                                                         *)
(* Only the order and the versions of the records matter to the algorithm, *)
(* so a record is its id and its version.                                  *)
(***************************************************************************)
EXTENDS RecordMerge, SequencesExt

CONSTANTS
    Ids,        \* the record ids
    Versions,   \* the contents a record can have
    NotList     \* no value, or one that is not a list of records with ids

(* A value of the store is finite, and null is no record.                  *)
ASSUME MergeAssumption == IsFiniteSet(Ids) /\ Absent \notin Versions

Record == [id : Ids, version : Versions]

IdsOf(list) == {record.id : record \in ToSet(list)}

(* A list looked up by id, as the code's maps are.                         *)
VersionIn(list, id) ==
    IF id \in IdsOf(list)
    THEN list[CHOOSE k \in DOMAIN list : list[k].id = id].version
    ELSE Absent
ById(list) == [id \in Ids |-> VersionIn(list, id)]

(* records_by_id: no id twice.                                             *)
IsRecordList(list) == Cardinality(IdsOf(list)) = Len(list)

VARIABLES
    step,       \* "sent", "saved", "repeated" or "replaced"
    base,       \* id -> version of the list the window started from, or NotList
    sent,       \* the list it sends
    file,       \* the list in the file
    conflicts   \* the conflicts the save reported

vars == <<step, base, sent, file, conflicts>>
-----------------------------------------------------------------------------

(* Mutant of KeptFromSent: an untouched record keeps the window's version. *)
UntouchedKeptAsSent(b, n, c) ==
    CASE n = b                -> n
      [] n # b /\ b # Absent  -> IF c = b THEN n ELSE c
      [] OTHER                -> IF c = Absent THEN n ELSE c

(* The first loop: what the sent list contributes, in its own order.       *)
KeptFromSent(b, n, c) ==
    CASE n = b                -> c
      [] n # b /\ b # Absent  -> IF c = b THEN n ELSE c
      [] OTHER                -> IF c = Absent THEN n ELSE c

SentLoop(b, n, c) ==
    LET Push(out, record) ==
            LET version == KeptFromSent(b[record.id], record.version, c[record.id])
            IN  IF version = Absent
                THEN out
                ELSE Append(out, [id |-> record.id, version |-> version])
    IN  FoldLeft(Push, <<>>, n)

(* Mutant of FileLoop: every record that stays goes to the front.          *)
FileLoopToFront(b, n, c, own) ==
    FoldLeft(LAMBDA out, record :
                 IF record.id \in IdsOf(n) \/ b[record.id] = record.version
                 THEN out
                 ELSE Cons(record, out),
             own, c)

(* The second loop: a record of the file that was not sent stays, unless   *)
(* the window deleted the version it saw.  It goes after its nearest       *)
(* earlier neighbour in the file that is in the result, else to the front. *)
FileLoop(b, n, c, own) ==
    LET Insert(out, k) ==
            LET record == c[k]
                anchor == SelectLastInSubSeq(c, 1, k - 1,
                                             LAMBDA r : r.id \in IdsOf(out))
                at == IF anchor = 0
                      THEN 1
                      ELSE SelectInSeq(out, LAMBDA r : r.id = c[anchor].id) + 1
            IN  IF record.id \in IdsOf(n) \/ b[record.id] = record.version
                THEN out
                ELSE InsertAt(out, at, record)
    IN  FoldLeftDomain(Insert, own, c)

MergeRecords(b, n, c) == FileLoop(b, n, c, SentLoop(b, n, ById(c)))

RecordConflicts(b, n, c) ==
    UNION {{[id |-> id, kind |-> kind, mine |-> n[id], theirs |-> c[id]] :
                kind \in ConflictKinds(b[id], n[id], c[id])} : id \in Ids}

(* A list the merge cannot take record by record is replaced as a whole.   *)
Mergeable == NotList \notin {base, sent, file}

(* Mutant of ApplyMine: a record the file has lost is not put back.        *)
ApplyMineToPresent(list, conflict) ==
    [k \in DOMAIN list |->
        IF list[k].id = conflict.id
        THEN [id |-> conflict.id, version |-> conflict.mine]
        ELSE list[k]]

(* The list without the record (its filter).                               *)
Without(list, id) ==
    FoldLeft(LAMBDA out, r : IF r.id = id THEN out ELSE Append(out, r), <<>>, list)

(* "Replace": this window's version put on top of the file's list.         *)
ApplyMine(list, conflict) ==
    LET mine == [id |-> conflict.id, version |-> conflict.mine]
    IN  IF conflict.mine = Absent
        THEN Without(list, conflict.id)
        ELSE IF conflict.id \notin IdsOf(list)
        THEN Cons(mine, list)
        ELSE ReplaceAt(list, SelectInSeq(list, LAMBDA r : r.id = conflict.id), mine)
-----------------------------------------------------------------------------
Lists == {list \in BoundedSeq(Record, Cardinality(Ids)) : IsRecordList(list)}

Conflicts ==
    [id : Ids, kind : {"edit-edit", "edit-deleted", "add-add", "deleted-edited"},
     mine : Versions \cup {Absent}, theirs : Versions \cup {Absent}]

TypeOK ==
    /\ step \in {"sent", "saved", "repeated", "replaced"}
    /\ base \in [Ids -> Versions \cup {Absent}] \cup {NotList}
    /\ sent \in Lists \cup {NotList}
    /\ file \in Lists \cup {NotList}
    /\ conflicts \subseteq Conflicts

Save(from, to) ==
    /\ step = from
    /\ step' = to
    /\ IF Mergeable
       THEN /\ file' = MergeRecords(base, sent, file)
            /\ conflicts' = RecordConflicts(base, ById(sent), ById(file))
       ELSE /\ file' = sent
            /\ conflicts' = {}
    /\ UNCHANGED <<base, sent>>

FirstSave  == Save("sent", "saved")
RepeatSave == Save("saved", "repeated")

Replace ==
    /\ step = "saved"
    /\ step' = "replaced"
    /\ \E conflict \in conflicts :
          LET mine == ApplyMine(file, conflict)
          IN  /\ base' = ById(file)
              /\ sent' = mine
              /\ file' = MergeRecords(ById(file), mine, file)
              /\ conflicts' = RecordConflicts(ById(file), ById(mine), ById(file))

Next == FirstSave \/ RepeatSave \/ Replace
-----------------------------------------------------------------------------
(* The two loops leave, under every id, the version the record merge says: *)
(* what the window changed on top of what the file has, nothing else.      *)
EveryRecordIsMerged ==
    [][step = "sent" /\ Mergeable =>
          \A id \in Ids :
             ById(file')[id] = Merged(base[id], ById(sent)[id], ById(file)[id])]_vars

(* A and B put the records they share in the same order.                   *)
SameOrder(A, B) ==
    \A i, j \in DOMAIN A : \A k, l \in DOMAIN B :
        A[i].id = B[k].id /\ A[j].id = B[l].id /\ i < j => k < l

(* The window's order always stays; when the file's order does not differ  *)
(* from it, a record another window added or kept stays in its place too.  *)
OrderIsKept ==
    [][step = "sent" /\ Mergeable =>
          /\ SameOrder(sent, file')
          /\ SameOrder(sent, file) => SameOrder(file, file')]_vars

(* "Replace" puts the user's version of that record into the file, touches *)
(* no other record, and settles the conflict.                              *)
ReplaceTouchesOneRecord ==
    [][step = "saved" /\ step' = "replaced" =>
          /\ conflicts' = {}
          /\ \E conflict \in conflicts :
                ById(file') = [ById(file) EXCEPT ![conflict.id] = conflict.mine]]_vars
=============================================================================
