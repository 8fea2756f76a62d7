---------------------------- MODULE AtomicRecord ----------------------------
(***************************************************************************)
(* What update_json promises those who keep a record with it: the record   *)
(* is a value that changes in one piece, an answered update is part of it, *)
(* a refused one is not and never will be, and a power failure takes back  *)
(* nothing but updates that were not yet firm.                             *)
(***************************************************************************)
CONSTANT Updates    \* the updates, each asked for once

VARIABLES
    value,          \* the updates the record holds
    firm,           \* those of them that no power failure takes back
    answer          \* what the caller of each update has been told

recordVars == <<value, firm, answer>>

RecordInit ==
    /\ value = {}
    /\ firm = {}
    /\ answer = [u \in Updates |-> "none"]

Commit(u) ==
    /\ answer[u] = "none"
    /\ value' = value \cup {u}
    /\ UNCHANGED <<firm, answer>>

\* An update is answered when the record holds it, which may make the whole
\* record firm.
Answer(u) ==
    /\ answer[u] = "none" /\ u \in value
    /\ answer' = [answer EXCEPT ![u] = "done"]
    /\ firm' \in {firm, value}
    /\ UNCHANGED value

Refuse(u) ==
    /\ answer[u] = "none" /\ u \notin value
    /\ answer' = [answer EXCEPT ![u] = "failed"]
    /\ UNCHANGED <<value, firm>>

\* A power failure; what is left of the record is on the disk.
Lose ==
    /\ firm \subseteq value' /\ value' \subseteq value
    /\ firm' = value'
    /\ UNCHANGED answer

RecordNext == Lose \/ \E u \in Updates : Commit(u) \/ Answer(u) \/ Refuse(u)

RecordSpec == RecordInit /\ [][RecordNext]_recordVars
=============================================================================
