---------------------------- MODULE AtomicStore ----------------------------
(***************************************************************************)
(* What the data file promises whoever saves into it.                      *)
(*                                                                         *)
(* The file changes only by whole stores.  A save adds its change to the   *)
(* store that is there at that moment; only a restore, or starting empty,  *)
(* puts another store in its place, a store the file has held before, and  *)
(* only once a copy of what is replaced was kept.  Damage from outside is  *)
(* never written over without a copy.                                      *)
(***************************************************************************)
CONSTANTS Changes,      \* what saves add
          Damages       \* contents no one can read

VARIABLES file,         \* the data file
          past,         \* what the stores that were in it held
          kept          \* the contents copied to sedorim-data.corrupt.*.json

storeVars == <<file, past, kept>>

Missing == [kind |-> "missing", holds |-> {}]
Good(s) == [kind |-> "good", holds |-> s]
Bad(d)  == [kind |-> "bad", holds |-> {d}]

Files == {Missing} \cup {Good(s) : s \in SUBSET Changes} \cup {Bad(d) : d \in Damages}

Nothing == {}                       \* what an empty store holds
Stores  == past \cup {Nothing}      \* what a restore may bring back

PastWith(f) == IF f.kind = "good" THEN past \cup {f.holds} ELSE past

Init ==
    /\ file \in {Missing, Good(Nothing)}
    /\ past \in {{}, {Nothing}}
    /\ file.kind = "good" => file.holds \in past
    /\ kept = {}

(* A save: its change joins the store in the file.  A deleted file is      *)
(* started over, from nothing or from a store read just before.            *)
Commit ==
    \E n \in Changes :
        /\ \/ /\ file.kind = "good"
              /\ file' = Good(file.holds \cup {n})
           \/ /\ file.kind = "missing"
              /\ \E s \in Stores : file' = Good(s \cup {n})
        /\ past' = PastWith(file')
        /\ UNCHANGED kept

(* A copy of what is in the file, damaged or not.                          *)
Keep ==
    /\ kept' = kept \cup {file}
    /\ UNCHANGED <<file, past>>

(* A restore or an empty start.                                            *)
Replace ==
    /\ file.kind = "missing" \/ file \in kept
    /\ \E s \in Stores : file' = Good(s)
    /\ past' = PastWith(file')
    /\ UNCHANGED kept

(* The disk, a sync client or the user damages or deletes the file.        *)
Harm ==
    /\ file' \in {Missing} \cup {Bad(d) : d \in Damages}
    /\ UNCHANGED <<past, kept>>

Next == Commit \/ Keep \/ Replace \/ Harm

Spec == Init /\ [][Next]_storeVars
=============================================================================
