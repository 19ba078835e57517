----------------------------- MODULE StartupMC -----------------------------
(* A localStorage with nothing, with a record and a timer, and with a      *)
(* record next to something that cannot be read.                           *)
EXTENDS Startup
A == [id |-> "a", edited |-> FALSE]
SomeLegacies ==
    {[list |-> {}, timer |-> FALSE, broken |-> FALSE],
     [list |-> {A}, timer |-> TRUE, broken |-> FALSE],
     [list |-> {A}, timer |-> FALSE, broken |-> TRUE]}
=============================================================================
