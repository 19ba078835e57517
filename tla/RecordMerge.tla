---------------------------- MODULE RecordMerge ----------------------------
(***************************************************************************)
(* What a merging save does with ONE record id (merge_records in store.rs, *)
(* mergeRecordsDetailed in record-merge.ts).                               *)
(*                                                                         *)
(* b is the version the window started from, n the version it sends and c  *)
(* the one the file has when the save runs; each may be Absent.  The       *)
(* conditions below are the code's cases, one for one; MergeLists shows    *)
(* that the list algorithm has these outcomes.                             *)
(***************************************************************************)
CONSTANT Absent         \* no record with this id in the list

(* The window's change that the file takes: an edit or a deletion of the   *)
(* version the file still has, an addition of an id the file does not have.*)
Applied(b, n, c) ==
    \/ b # Absent /\ n # Absent /\ n # b /\ c = b
    \/ b # Absent /\ n = Absent /\ c = b
    \/ b = Absent /\ n # Absent /\ c = Absent

(* An edit of a version the file no longer has, to something it has not.   *)
EditEdit(b, n, c) ==
    b # Absent /\ n # Absent /\ n # b /\ c # Absent /\ c # b /\ c # n
EditDeleted(b, n, c) ==
    b # Absent /\ n # Absent /\ n # b /\ c = Absent
AddAdd(b, n, c) ==
    b = Absent /\ n # Absent /\ c # Absent /\ c # n
DeletedEdited(b, n, c) ==
    b # Absent /\ n = Absent /\ c # Absent /\ c # b

ConflictKinds(b, n, c) ==
    {kind \in {"edit-edit", "edit-deleted", "add-add", "deleted-edited"} :
        CASE kind = "edit-edit"    -> EditEdit(b, n, c)
          [] kind = "edit-deleted" -> EditDeleted(b, n, c)
          [] kind = "add-add"      -> AddAdd(b, n, c)
          [] OTHER                 -> DeletedEdited(b, n, c)}

(* Mutant of Conflict: an edit of a record deleted meanwhile is not told.  *)
ConflictOfPresent(b, n, c) ==
    EditEdit(b, n, c) \/ AddAdd(b, n, c) \/ DeletedEdited(b, n, c)

Conflict(b, n, c) ==
    \/ EditEdit(b, n, c)
    \/ EditDeleted(b, n, c)
    \/ AddAdd(b, n, c)
    \/ DeletedEdited(b, n, c)

(* Mutant of Merged: whatever the window changed wins over the file.       *)
LaterWriterWins(b, n, c) == IF n # b THEN n ELSE c

(* The version the file has after the save.                                *)
Merged(b, n, c) == IF Applied(b, n, c) THEN n ELSE c
=============================================================================
