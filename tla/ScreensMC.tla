----------------------------- MODULE ScreensMC -----------------------------
(***************************************************************************)
(* The screens that write records, the ones that replace them and the ones *)
(* that show them, each walked on its own: `used` says which, the others   *)
(* stay as they opened.                                                    *)
(***************************************************************************)
EXTENDS Snapshots, Entries, Journal

VARIABLE used

ScreensInit ==
    /\ used \in {"records", "snapshots", "journal"} /\ Init /\ EntriesInit /\ JournalInit
    /\ used # "records" => page = "card" /\ file[FirstId] = Absent
    /\ used # "journal" => \A i \in Rows : rows[i] = CHOOSE r \in JournalRecords : TRUE

UseRecords   == used = "records" /\ EntriesNext /\ UNCHANGED <<vars, journalVars, used>>
UseSnapshots == used = "snapshots" /\ Next /\ UNCHANGED <<entryVars, journalVars, used>>
UseJournal   == used = "journal" /\ JournalNext /\ UNCHANGED <<vars, entryVars, used>>

ScreensSpec ==
    ScreensInit /\ [][UseRecords \/ UseSnapshots \/ UseJournal]_<<vars, entryVars, journalVars, used>>

Symmetric == Permutations(Windows)
-----------------------------------------------------------------------------
TheHours == <<[start |-> 1, end |-> 2], [start |-> 5, end |-> 6]>>
TheRows ==
    {[kind |-> "seder", month |-> 1, day |-> 1, sort |-> 1,
      traits |-> {"late"}, words |-> {"a"}, tags |-> {"a"}],
     [kind |-> "seder", month |-> 2, day |-> 1, sort |-> 2,
      traits |-> {"excused", "incomplete"}, words |-> {}, tags |-> {}],
     [kind |-> "learning", month |-> 2, day |-> 1, sort |-> "kollel-erev",
      traits |-> {}, words |-> {"a"}, tags |-> {}]}
=============================================================================
