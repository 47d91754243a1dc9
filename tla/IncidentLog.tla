----------------------------- MODULE IncidentLog -----------------------------
(***************************************************************************)
(* What the incidents bucket promises whoever reads it after the fact      *)
(* (ListIncidents): the history of each check.  An incident enters after   *)
(* all earlier ones of its check, keeps its check, never counts fewer      *)
(* failures than before, is changed only while it is the newest one not    *)
(* resolved, never after it is resolved, and never disappears.             *)
(*                                                                         *)
(* The bucket is a map from identifiers to records.  IncidentManager says  *)
(* which of its operations write it, and when.                             *)
(***************************************************************************)
EXTENDS Integers

CONSTANTS
    Ids,      \* identifiers, which are ordered
    Records   \* what is stored: records with a check, a status and failures

VARIABLE log

Of(c) == {i \in DOMAIN log : log[i].check = c}

Write(i, r) == log' = [j \in DOMAIN log \cup {i} |-> IF j = i THEN r ELSE log[j]]

Enter(i, r) ==
    /\ i \notin DOMAIN log
    /\ \A j \in Of(r.check) : j < i
    /\ Write(i, r)

Amend(i, r) ==
    /\ i \in Of(r.check)
    /\ log[i].status # "resolved"
    /\ \A j \in Of(r.check) : log[j].status # "resolved" => j <= i
    /\ log[i].failures <= r.failures
    /\ Write(i, r)

Init == DOMAIN log = {}

Next == \E i \in Ids \cap DOMAIN log' :
            LET r == log'[i] IN r \in Records /\ (Enter(i, r) \/ Amend(i, r))

Spec == Init /\ [][Next]_log
=============================================================================
