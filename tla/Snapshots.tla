----------------------------- MODULE Snapshots -----------------------------
(***************************************************************************)
(* The snapshots kept inside the program (auto-backup.ts) and the          *)
(* operations they protect: replacing or deleting everything               *)
(* (replaceAllDataChecked in kollel-store.ts, backup-actions.ts and        *)
(* backup-verify.ts, called by the backup page), a manual snapshot, the    *)
(* automatic one and the one made before a single record is deleted.       *)
(*                                                                         *)
(* Each window has its own copy of the records and of the list of          *)
(* snapshots; its list changes at once and is saved in the background,     *)
(* merged record by record with the list it started from, while a full     *)
(* replacement writes records and list whole, in one save.                 *)
(***************************************************************************)
EXTENDS Naturals, SequencesExt

CONSTANTS
    Windows,
    Records,      \* the attendance and learning records
    Retention,    \* backupRetention
    MaxSnapshots, \* bound on the snapshots ever made
    MaxActs       \* bound on what the user does

ASSUME SnapshotAssumption == Retention \in Nat \ {0} /\ MaxSnapshots \in Nat

Kinds == {"auto", "manual", "before-op"}
Snapshot == [id : 1 .. MaxSnapshots, kind : Kinds, data : SUBSET Records]

VARIABLES
    data,     \* the records in the file
    list,     \* the snapshots in the file, newest first
    mem,      \* window -> its records, its list, the list it merges from, and
              \* whether a poll, a failure or an overlapping save may have
              \* left it showing another list than the one it merges from
    op,       \* window -> its replacement or checked snapshot under way
    saves,    \* list saves in flight
    due,      \* window -> the interval since the last automatic snapshot is over
    made,     \* how many snapshots were made
    acts,     \* what the user did so far
    removed   \* the ids the user deleted from the list

vars == <<data, list, mem, op, saves, due, made, acts, removed>>

NoOp == [stage |-> "idle"]
-----------------------------------------------------------------------------
(* Mutant of Droppable: the oldest copy goes, whatever it was made for.    *)
DroppableOldest(l) == {Len(l)}

(* The oldest that was not made before an operation; else the oldest.      *)
Droppable(l) ==
    LET plain == {k \in DOMAIN l : l[k].kind # "before-op"}
    IN  IF plain = {} THEN {Len(l)} ELSE {Max(plain)}

(* listWith: the new snapshot first, cut down to the retention.            *)
ListWith(l, snap) ==
    LET long == Cons(snap, l)
        Cut[s \in 0 .. Len(long)] ==
            IF s = 0 THEN long
            ELSE IF Len(Cut[s - 1]) <= Retention THEN Cut[s - 1]
            ELSE RemoveAt(Cut[s - 1], CHOOSE k \in Droppable(Cut[s - 1]) : TRUE)
    IN  Cut[Len(long)]

(* The list without the snapshots that are gone.                           *)
Without(l, gone) ==
    LET Left[k \in 0 .. Len(l)] ==
            IF k = 0 THEN <<>>
            ELSE IF l[k] \in gone THEN Left[k - 1]
            ELSE Append(Left[k - 1], l[k])
    IN  Left[Len(l)]

(* The merging save of a list whose records never change.                  *)
MergedList(base, sent, file) ==
    Without(sent, ToSet(base) \ ToSet(file))
        \o Without(file, ToSet(base) \cup ToSet(sent))

NewSnapshot(kind, records) == [id |-> made + 1, kind |-> kind, data |-> records]

BeforeOps(snaps) == {s \in snaps : s.kind = "before-op"}

(* store.set: shown at once, sent with the list it started from.  crowded: *)
(* there were more copies made before operations than the list may keep.   *)
Sending(w, next) ==
    [by |-> w, list |-> next, base |-> mem[w].base, before |-> mem[w].list,
     astray |-> mem[w].astray,
     crowded |-> \/ Cardinality(BeforeOps(ToSet(mem[w].list) \cup ToSet(next))) > Retention
                 \/ \E s \in saves : s.by = w /\ s.crowded]

(* createSnapshot of the window's records, if it has any and wants one.    *)
MakesSnapshot(w, kind, records) ==
    LET wanted == mem[w].data # {} /\ made < MaxSnapshots
        next   == ListWith(mem[w].list, NewSnapshot(kind, mem[w].data))
    IN  /\ made' = IF wanted THEN made + 1 ELSE made
        /\ mem' = [mem EXCEPT ![w].data = records,
                              ![w].list = IF wanted THEN next ELSE @]
        /\ saves' = IF wanted THEN saves \cup {Sending(w, next)} ELSE saves

(* Every part has its type, and no save lengthens a list past the retention*)
(* (listWith).                                                             *)
TypeOK ==
    /\ data \subseteq Records /\ list \in Seq(Snapshot)
    /\ \A w \in Windows :
        /\ mem[w].data \subseteq Records
        /\ {mem[w].list, mem[w].base} \subseteq Seq(Snapshot)
        /\ op[w].stage \in {"idle", "read", "sent", "saved", "verify"}
    /\ \A s \in saves : Len(s.list) <= Max({Retention, Len(s.before)})
    /\ made \in 0 .. MaxSnapshots

Init ==
    /\ data \in SUBSET Records
    /\ list = <<>> /\ saves = {} /\ made = 0 /\ acts = 0 /\ removed = {}
    /\ mem = [w \in Windows |-> [data |-> data, list |-> <<>>, base |-> <<>>, astray |-> FALSE]]
    /\ op = [w \in Windows |-> NoOp]
    /\ due = [w \in Windows |-> FALSE]

Acts == acts < MaxActs /\ acts' = acts + 1

(* Another write of the records reaches the file before w's replacement.   *)
Overtaken(w) ==
    [v \in Windows |->
        IF v # w /\ op[v].stage = "sent" THEN [op[v] EXCEPT !.overtaken = TRUE]
                                         ELSE op[v]]

(* upsert: the record is saved, then an automatic snapshot if one is due.  *)
AddRecord(w, r) ==
    /\ Acts /\ op[w].stage = "idle" /\ r \notin data
    /\ data' = data \cup {r} /\ op' = Overtaken(w)
    /\ LET records == mem[w].data \cup {r}
           auto    == due[w] /\ made < MaxSnapshots
           next    == ListWith(mem[w].list, NewSnapshot("auto", records))
       IN /\ mem' = [mem EXCEPT ![w].data = records,
                                ![w].list = IF auto THEN next ELSE @]
          /\ saves' = IF auto THEN saves \cup {Sending(w, next)} ELSE saves
          /\ made' = IF auto THEN made + 1 ELSE made
          /\ due' = [due EXCEPT ![w] = @ /\ ~auto]
    /\ UNCHANGED <<list, removed>>

(* remove: snapshotIfConfigured first, of the records as they still are.   *)
RemoveRecord(w, r) ==
    /\ Acts /\ op[w].stage = "idle" /\ r \in mem[w].data \cap data
    /\ MakesSnapshot(w, "before-op", mem[w].data \ {r})
    /\ data' = data \ {r} /\ op' = Overtaken(w)
    /\ UNCHANGED <<list, due, removed>>

(* takeSnapshot: a manual one, read back when it was saved.                *)
TakeSnapshot(w) ==
    /\ Acts /\ op[w].stage = "idle" /\ mem[w].data # {} /\ made < MaxSnapshots
    /\ MakesSnapshot(w, "manual", mem[w].data)
    /\ UNCHANGED <<data, list, op, due, removed>>

DeleteSnapshot(w, s) ==
    /\ Acts /\ op[w].stage = "idle" /\ s \in ToSet(mem[w].list)
    /\ LET next == Without(mem[w].list, {s})
       IN  /\ mem' = [mem EXCEPT ![w].list = next]
           /\ saves' = saves \cup {Sending(w, next)}
    /\ removed' = removed \cup {s.id}
    /\ UNCHANGED <<data, list, op, due, made>>

(* replaceEverything or deleteEverything: the file is read first.          *)
AskReplace(w, next) ==
    /\ Acts /\ op[w].stage = "idle" /\ made < MaxSnapshots
    /\ op' = [op EXCEPT ![w] = [stage |-> "read", next |-> next]]
    /\ UNCHANGED <<data, list, mem, saves, due, made, removed>>

(* Mutant of Refreshed: the safety copy is of what the window has shown.   *)
AsShown(w) == mem[w].data

(* refreshFromStore.                                                       *)
Refreshed(w) == data

(* replaceAllDataNow: the safety copy is planned and sent with the change. *)
SendReplace(w) ==
    LET before == Refreshed(w)
        snap   == NewSnapshot("before-op", before)
        plan   == IF before = {} THEN <<>> ELSE ListWith(mem[w].list, snap)
    IN  /\ op[w].stage = "read" /\ made < MaxSnapshots
        /\ op' = [op EXCEPT ![w] =
                    [stage |-> "sent", next |-> @.next, before |-> before,
                     plan |-> plan, known |-> mem[w].list, overtaken |-> FALSE]]
        /\ mem' = [mem EXCEPT ![w].data = op[w].next]
        /\ made' = IF before = {} THEN made ELSE made + 1
        /\ UNCHANGED <<data, list, saves, due, acts, removed>>

ReplaceLands(w) ==
    /\ op[w].stage = "sent"
    /\ data' = op[w].next
    /\ list' = IF op[w].plan = <<>> THEN list ELSE op[w].plan
    /\ op' = [Overtaken(w) EXCEPT ![w].stage = "saved"]
    /\ UNCHANGED <<mem, saves, due, made, acts, removed>>

ReplaceFails(w) ==
    /\ op[w].stage = "sent"
    /\ mem' = [mem EXCEPT ![w].data = IF @ = op[w].next THEN op[w].before ELSE @]
    /\ op' = [op EXCEPT ![w] = NoOp]
    /\ UNCHANGED <<data, list, saves, due, made, acts, removed>>

(* commitSnapshotPlan, then verifyPersisted.                               *)
ReplaceAnswered(w) ==
    /\ op[w].stage = "saved"
    /\ op' = [op EXCEPT ![w].stage = "verify"]
    /\ IF op[w].plan = <<>> THEN UNCHANGED <<mem, saves>>
       ELSE LET astray == mem[w].astray \/ mem[w].list # op[w].known
            IN  /\ mem' = [mem EXCEPT ![w].list = op[w].plan, ![w].astray = astray]
                /\ saves' = saves \cup {[Sending(w, op[w].plan) EXCEPT !.astray = astray]}
    /\ UNCHANGED <<data, list, due, made, acts, removed>>

ReplaceVerified(w) ==
    /\ op[w].stage = "verify"
    /\ op' = [op EXCEPT ![w] = NoOp]
    /\ UNCHANGED <<data, list, mem, saves, due, made, acts, removed>>

(* A list save: the merged list is adopted if the window still shows what  *)
(* it sent; after a failure the list before it comes back likewise.        *)
ListLands(s) ==
    LET merged == MergedList(s.base, s.list, list)
    IN  /\ list' = merged
        /\ mem' = [mem EXCEPT ![s.by] =
                    IF @.list = s.list
                    THEN [@ EXCEPT !.list = merged, !.base = merged, !.astray = FALSE]
                    ELSE [@ EXCEPT !.base = s.list, !.astray = TRUE]]
        /\ saves' = saves \ {s}
        /\ UNCHANGED <<data, op, due, made, acts, removed>>

ListFails(s) ==
    /\ mem' = [mem EXCEPT ![s.by].list = IF @ = s.list THEN s.before ELSE @,
                          ![s.by].astray = TRUE]
    /\ saves' = saves \ {s}
    /\ UNCHANGED <<data, list, op, due, made, acts, removed>>

(* The two polls of a window.                                              *)
PollRecords(w) ==
    /\ mem[w].data # data
    /\ mem' = [mem EXCEPT ![w].data = data]
    /\ UNCHANGED <<data, list, op, saves, due, made, acts, removed>>

PollList(w) ==
    /\ mem[w].list # list \/ mem[w].astray
    /\ mem' = [mem EXCEPT ![w].list = list, ![w].base = list,
                          ![w].astray = \E s \in saves : s.by = w]
    /\ UNCHANGED <<data, list, op, saves, due, made, acts, removed>>

IntervalEnds ==
    /\ acts < MaxActs
    /\ due # [w \in Windows |-> TRUE]
    /\ due' = [w \in Windows |-> TRUE]
    /\ UNCHANGED <<data, list, mem, op, saves, made, acts, removed>>

Next ==
    \/ \E w \in Windows :
        \/ \E r \in Records : AddRecord(w, r) \/ RemoveRecord(w, r)
        \/ TakeSnapshot(w)
        \/ \E s \in ToSet(mem[w].list) : DeleteSnapshot(w, s)
        \/ \E next \in SUBSET Records : AskReplace(w, next)
        \/ SendReplace(w) \/ ReplaceLands(w) \/ ReplaceFails(w)
        \/ ReplaceAnswered(w) \/ ReplaceVerified(w)
        \/ PollRecords(w) \/ PollList(w)
    \/ \E s \in saves : ListLands(s) \/ ListFails(s)
    \/ IntervalEnds

Spec == Init /\ [][Next]_vars
-----------------------------------------------------------------------------
(* A replacement that reaches the file leaves beside it a safety copy of   *)
(* exactly the records it took away, unless another window's write of the  *)
(* records came between the read and the save.                             *)
LossIsCovered ==
    [][\A w \in Windows :
        op[w].stage = "sent" /\ op'[w].stage = "saved" /\ data # {} /\ ~op[w].overtaken
            => \E s \in ToSet(list') : s.kind = "before-op" /\ s.data = data]_vars

(* A copy made before an operation leaves the file only by the user's own  *)
(* deletion, in the save of a window that knew of more such copies than    *)
(* the retention keeps, or in one of the two races the code does not rule  *)
(* out: a replacement planned from a list that did not have the copy yet,  *)
(* and a save from a window whose list and merge base have parted.  An     *)
(* automatic or manual snapshot never takes its place, in either window.   *)
BeforeOpKept ==
    [][\A s \in BeforeOps(ToSet(list) \ ToSet(list')) :
        \/ s.id \in removed
        \/ \E save \in saves \ saves' : save.crowded \/ save.astray
        \/ \E w \in Windows : /\ op[w].stage = "sent" /\ op'[w].stage = "saved"
                              /\ \/ s \notin ToSet(op[w].known)
                                 \/ Cardinality(BeforeOps(ToSet(op[w].known))) >= Retention]_vars
=============================================================================
