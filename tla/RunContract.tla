---------------------------- MODULE RunContract ----------------------------
(***************************************************************************)
(* What a detached run promises its callers, without processes, locks or   *)
(* cleanups: one record, one piece of work.  The work is started at most   *)
(* once and only while the record says running; an outcome is final; and   *)
(* an outcome without cleanup_pending means that the work is not going on. *)
(***************************************************************************)
VARIABLES
    status,           \* the public status of the run
    cleanup_pending,  \* the outcome is known, the end of the work is not
    work              \* "none", "live" or "over"

contractVars == <<status, cleanup_pending, work>>

Outcomes == {"completed", "failed", "timed_out", "cancelled"}
Undecided == {"queued", "running"}

Init == status = "absent" /\ ~cleanup_pending /\ work = "none"

Submit ==
    /\ status = "absent"
    /\ status' = "queued"
    /\ UNCHANGED <<cleanup_pending, work>>

Claim ==
    /\ status = "queued"
    /\ status' = "running"
    /\ UNCHANGED <<cleanup_pending, work>>

StartWork ==
    /\ status = "running" /\ work = "none"
    /\ work' = "live"
    /\ UNCHANGED <<status, cleanup_pending>>

EndWork ==
    /\ work = "live"
    /\ work' = "over"
    /\ UNCHANGED <<status, cleanup_pending>>

AskCancel ==
    /\ status \in Undecided
    /\ status' = "cancelling"
    /\ UNCHANGED <<cleanup_pending, work>>

\* An outcome may stop the work in the same step; unless it leaves the cleanup
\* pending, the work is not live afterwards.  Success needs finished work.
Decide(outcome, pending) ==
    /\ IF outcome = "cancelled" THEN status = "cancelling" ELSE status \in Undecided
    /\ work' \in {work} \cup (IF work = "live" THEN {"over"} ELSE {})
    /\ pending \/ work' # "live"
    /\ outcome = "completed" => work = "over" /\ ~pending
    /\ status' = outcome
    /\ cleanup_pending' = pending

PayDebt ==
    /\ cleanup_pending
    /\ work # "live"
    /\ cleanup_pending' = FALSE
    /\ UNCHANGED <<status, work>>

Next ==
    \/ Submit \/ Claim \/ StartWork \/ EndWork \/ AskCancel \/ PayDebt
    \/ \E outcome \in Outcomes, pending \in BOOLEAN : Decide(outcome, pending)

Spec == Init /\ [][Next]_contractVars
=============================================================================
