--------------------------- MODULE WatchContract ---------------------------
(***************************************************************************)
(* What watched runs of one repository promise, without panes, locks,      *)
(* monitors or exit files: a watch is asked for, admitted only while no    *)
(* other admitted one is running, works at most once, and its outcome is   *)
(* decided once.  The one exception is a watch whose start has given up,   *)
(* which a runner that rewrites the record may set running again, before   *)
(* Agy starts or while it works.                                           *)
(***************************************************************************)
CONSTANTS
    Watches,    \* the watches of the repository
    MayReopen   \* TRUE: a start may give up under a runner that lives

VARIABLES
    status,     \* the public status of each watch
    place,      \* "asked", "admitted" or "given up"
    work        \* Agy: "unborn", "live", "ok" or "fail"

contractVars == <<status, place, work>>

Outcomes == {"completed", "failed", "cancelled"}

Init ==
    /\ status = [w \in Watches |-> "absent"]
    /\ place = [w \in Watches |-> "asked"]
    /\ work = [w \in Watches |-> "unborn"]

Ask(w) ==
    /\ status[w] = "absent" /\ place[w] = "asked"
    /\ status' = [status EXCEPT ![w] = "running"]
    /\ UNCHANGED <<place, work>>

Admit(w) ==
    /\ status[w] = "running" /\ place[w] = "asked"
    /\ \A v \in Watches \ {w} : ~(place[v] = "admitted" /\ status[v] = "running")
    /\ place' = [place EXCEPT ![w] = "admitted"]
    /\ UNCHANGED <<status, work>>

GiveUp(w) ==
    /\ status[w] = "running" /\ place[w] # "given up"
    /\ place' = [place EXCEPT ![w] = "given up"]
    /\ UNCHANGED <<status, work>>

StartWork(w) ==
    /\ place[w] # "asked" /\ work[w] = "unborn"
    /\ work' = [work EXCEPT ![w] = "live"]
    /\ UNCHANGED <<status, place>>

EndWork(w, code) ==
    /\ work[w] = "live"
    /\ work' = [work EXCEPT ![w] = code]
    /\ UNCHANGED <<status, place>>

\* Only work that succeeded completes a watch, and a watch whose start gave up
\* can only fail.
Decide(w, outcome) ==
    /\ status[w] = "running" /\ place[w] # "asked"
    /\ outcome = "completed" => work[w] = "ok"
    /\ place[w] = "given up" => outcome = "failed"
    /\ status' = [status EXCEPT ![w] = outcome]
    /\ UNCHANGED <<place, work>>

Reopen(w) ==
    /\ MayReopen
    /\ status[w] = "failed" /\ place[w] = "given up"
    /\ status' = [status EXCEPT ![w] = "running"]
    /\ UNCHANGED <<place, work>>

Next ==
    \E w \in Watches :
        \/ Ask(w) \/ Admit(w) \/ GiveUp(w) \/ StartWork(w) \/ Reopen(w)
        \/ \E code \in {"ok", "fail"} : EndWork(w, code)
        \/ \E outcome \in Outcomes : Decide(w, outcome)

Spec == Init /\ [][Next]_contractVars
=============================================================================
