---------------------------- MODULE DetachedRun ----------------------------
(***************************************************************************)
(* One detached run of magy: the state.json record of a run, the starter   *)
(* (start_run), the detached worker (run_worker), the Agy process tree it  *)
(* launches, and any number of callers of get_run_status and cancel_run.   *)
(*                                                                         *)
(* Each section of code that holds the run's FileLock is one action.       *)
(* Reads outside the lock, process spawns and the steps of a process-tree  *)
(* cleanup are actions of their own, so every interleaving of them with    *)
(* the lock sections is a behaviour.                                       *)
(***************************************************************************)
CONSTANTS
    Clients,      \* callers of get_run_status / cancel_run
    Agy,          \* the Agy process
    Helpers,      \* processes Agy may fork, all carrying the MAGY_RUN_ID marker
    PromptSpawn   \* TRUE: the 5 s start-up grace never ends before Popen returns

ASSUME HelpersAssumption == Agy \notin Helpers
ASSUME PromptSpawnAssumption == PromptSpawn \in BOOLEAN

VARIABLES
    state,        \* state.json: status, cleanup_pending, worker_pid published
    starter,      \* start_run: program counter and cleanup_ok
    worker,       \* run_worker: program counter, cleanup_ok, timed_out
    client,       \* per caller: program counter and cleanup_ok
    proc,         \* Agy and its helpers: unborn, live or dead
    agyExit,      \* exit code of Agy once it has one
    graceOver     \* created_at lies more than WORKER_STARTUP_GRACE_SECONDS back

vars == <<state, starter, worker, client, proc, agyExit, graceOver>>

Terminal == {"completed", "failed", "timed_out", "cancelled"}
Active   == {"queued", "running"}      \* not in TERMINAL_STATUSES | {"cancelling"}
Statuses == {"absent", "cancelling"} \cup Active \cup Terminal
Procs    == Helpers \cup {Agy}

\* Where a caller is inside _terminate_pid_tree, with no lock held.
KillPCs == {"killCancelling", "killPending", "killStale", "killCancel"}
ClientPCs == KillPCs \cup {"idle", "poll", "probe", "settleCancelling",
                           "clearPending", "failStale", "settleCancel"}
StarterPCs == {"create", "spawn", "publish", "abort", "fail", "done"}
WorkerPCs == {"none", "boot", "setup", "wait", "reap", "finalize",
              "unwind", "giveup", "gone"}

Live        == {p \in Procs : proc[p] = "live"}
Quiet       == \A p \in Procs : proc[p] # "live"
WorkerAlive == worker.pc \notin {"none", "gone"}

Init ==
    /\ state = [status |-> "absent", cleanup_pending |-> FALSE, worker_pid |-> FALSE]
    /\ starter = [pc |-> "create", ok |-> TRUE]
    /\ worker = [pc |-> "none", ok |-> TRUE, timed_out |-> FALSE]
    /\ client = [c \in Clients |-> [pc |-> "idle", ok |-> FALSE]]
    /\ proc = [p \in Procs |-> "unborn"]
    /\ agyExit = "none"
    /\ graceOver = FALSE

(***************************************************************************)
(* Writes to the record.                                                   *)
(***************************************************************************)
Settle(outcome, pending) ==
    state' = [state EXCEPT !.status = outcome, !.cleanup_pending = pending]

\* Mutant of FailIfActive: the terminal check is missing.
FailAlways(pending) == Settle("failed", pending)

\* fail_run_if_active: an outcome already decided, or a cancellation, wins.
FailIfActive(pending) ==
    IF state.status \in Active THEN Settle("failed", pending) ELSE UNCHANGED state

(***************************************************************************)
(* The process tree.  A cleanup reports TRUE only at an instant where the  *)
(* marker scan finds no live process but the caller; it may report FALSE   *)
(* at any time (identity not verifiable, recycled PID, zombie root, error).*)
(***************************************************************************)
CleanupReport(ok) == ok => Quiet /\ ~WorkerAlive     \* called by a client or the starter
WorkerReport(ok)  == ok => Quiet                     \* called by the worker itself

ForeignCleanup == starter.pc = "abort" \/ \E c \in Clients : client[c].pc \in KillPCs
CleanupRunning == ForeignCleanup \/ worker.pc \in {"reap", "unwind"}

\* A signal of a cleanup in progress ends one process of the tree.
Strike(p) ==
    /\ CleanupRunning
    /\ p \in Live
    /\ proc' = [proc EXCEPT ![p] = "dead"]
    /\ agyExit' = IF p = Agy THEN "fail" ELSE agyExit
    /\ UNCHANGED <<state, starter, worker, client, graceOver>>

AgyExits(code) ==
    /\ Agy \in Live
    /\ proc' = [proc EXCEPT ![Agy] = "dead"]
    /\ agyExit' = code
    /\ UNCHANGED <<state, starter, worker, client, graceOver>>

HelperForks(h) ==
    /\ ~Quiet
    /\ proc[h] = "unborn"
    /\ proc' = [proc EXCEPT ![h] = "live"]
    /\ UNCHANGED <<state, starter, worker, client, agyExit, graceOver>>

HelperExits(h) ==
    /\ h \in Live
    /\ proc' = [proc EXCEPT ![h] = "dead"]
    /\ UNCHANGED <<state, starter, worker, client, agyExit, graceOver>>

(***************************************************************************)
(* start_run.                                                              *)
(***************************************************************************)
CreateRun ==
    /\ starter.pc = "create"
    /\ state' = [state EXCEPT !.status = "queued"]
    /\ starter' = [starter EXCEPT !.pc = "spawn"]
    /\ UNCHANGED <<worker, client, proc, agyExit, graceOver>>

SpawnWorker ==
    /\ starter.pc = "spawn"
    /\ worker' = [worker EXCEPT !.pc = "boot"]
    /\ starter' = [starter EXCEPT !.pc = "publish"]
    /\ UNCHANGED <<state, client, proc, agyExit, graceOver>>

\* Popen raised: proc is None and cleanup_ok keeps its initial TRUE.
SpawnFails ==
    /\ starter.pc = "spawn"
    /\ starter' = [pc |-> "fail", ok |-> TRUE]
    /\ UNCHANGED <<state, worker, client, proc, agyExit, graceOver>>

PublishWorker ==
    /\ starter.pc = "publish"
    /\ state' = [state EXCEPT !.worker_pid = @ \/ state.status \notin Terminal]
    /\ starter' = [starter EXCEPT !.pc = "done"]
    /\ UNCHANGED <<worker, client, proc, agyExit, graceOver>>

\* publish_worker_process raised, or the reaper thread could not be started.
PublishFails(written) ==
    /\ starter.pc = "publish"
    /\ state' = [state EXCEPT !.worker_pid = @ \/ (written /\ state.status \notin Terminal)]
    /\ starter' = [starter EXCEPT !.pc = "abort"]
    /\ UNCHANGED <<worker, client, proc, agyExit, graceOver>>

AbortCleanup(ok) ==
    /\ starter.pc = "abort"
    /\ CleanupReport(ok)
    /\ starter' = [pc |-> "fail", ok |-> ok]
    /\ UNCHANGED <<state, worker, client, proc, agyExit, graceOver>>

StarterFailsRun ==
    /\ starter.pc = "fail"
    /\ FailIfActive(~starter.ok)
    /\ starter' = [starter EXCEPT !.pc = "done"]
    /\ UNCHANGED <<worker, client, proc, agyExit, graceOver>>

StarterCrashes ==
    /\ starter.pc \notin {"create", "done"}
    /\ starter' = [starter EXCEPT !.pc = "done"]
    /\ UNCHANGED <<state, worker, client, proc, agyExit, graceOver>>

GraceExpires ==
    /\ ~graceOver
    /\ state.status # "absent"
    /\ PromptSpawn => starter.pc # "spawn"
    /\ graceOver' = TRUE
    /\ UNCHANGED <<state, starter, worker, client, proc, agyExit>>

StarterStep ==
    \/ CreateRun \/ SpawnWorker \/ SpawnFails \/ PublishWorker
    \/ \E written \in BOOLEAN : PublishFails(written)
    \/ \E ok \in BOOLEAN : AbortCleanup(ok)
    \/ StarterFailsRun

(***************************************************************************)
(* run_worker.                                                             *)
(***************************************************************************)
WorkerGoes(pc) == worker' = [worker EXCEPT !.pc = pc]

\* Mutant of ClaimRun: any run that is not terminal may be claimed.
ClaimNonterminal ==
    /\ worker.pc = "boot"
    /\ state.status \notin Terminal
    /\ state' = [state EXCEPT !.status = "running", !.worker_pid = TRUE]
    /\ WorkerGoes("setup")
    /\ UNCHANGED <<starter, client, proc, agyExit, graceOver>>

ClaimRun ==
    /\ worker.pc = "boot"
    /\ IF state.status = "queued"
       THEN /\ state' = [state EXCEPT !.status = "running", !.worker_pid = TRUE]
            /\ WorkerGoes("setup")
       ELSE /\ UNCHANGED state
            /\ WorkerGoes("gone")
    /\ UNCHANGED <<starter, client, proc, agyExit, graceOver>>

\* load_config_result reports an error: the run fails before anything else.
ConfigInvalid ==
    /\ worker.pc = "setup"
    /\ FailIfActive(FALSE)
    /\ WorkerGoes("gone")
    /\ UNCHANGED <<starter, client, proc, agyExit, graceOver>>

\* Profile selection, lease, settings, executable, capabilities or Popen raised.
SetupFails ==
    /\ worker.pc = "setup"
    /\ worker' = [worker EXCEPT !.pc = "giveup", !.ok = TRUE]
    /\ UNCHANGED <<state, starter, client, proc, agyExit, graceOver>>

\* Mutant of LaunchAgy: the status is not read again before Popen.
LaunchUnchecked ==
    /\ worker.pc = "setup"
    /\ proc' = [proc EXCEPT ![Agy] = "live"]
    /\ WorkerGoes("wait")
    /\ UNCHANGED <<state, starter, client, agyExit, graceOver>>

\* The launch section re-reads the status under the lock.
LaunchAgy ==
    /\ worker.pc = "setup"
    /\ state.status = "running"
    /\ proc' = [proc EXCEPT ![Agy] = "live"]
    /\ \/ WorkerGoes("wait")
       \/ WorkerGoes("unwind")     \* Popen worked, recording the child raised
    /\ UNCHANGED <<state, starter, client, agyExit, graceOver>>

LaunchRefused ==
    /\ worker.pc = "setup"
    /\ state.status # "running"
    /\ WorkerGoes("gone")
    /\ UNCHANGED <<state, starter, client, proc, agyExit, graceOver>>

WaitReturns ==
    /\ worker.pc = "wait"
    /\ proc[Agy] = "dead"
    /\ WorkerGoes("reap")
    /\ UNCHANGED <<state, starter, client, proc, agyExit, graceOver>>

WaitTimesOut ==
    /\ worker.pc = "wait"
    /\ worker' = [worker EXCEPT !.pc = "reap", !.timed_out = TRUE]
    /\ UNCHANGED <<state, starter, client, proc, agyExit, graceOver>>

ReapTree(ok) ==
    /\ worker.pc = "reap"
    /\ WorkerReport(ok)
    /\ worker' = [worker EXCEPT !.pc = "finalize", !.ok = ok]
    /\ UNCHANGED <<state, starter, client, proc, agyExit, graceOver>>

\* Mutant of Outcome: the exit code is looked at before the result of the cleanup.
OutcomeIgnoresCleanup ==
    IF worker.timed_out THEN "timed_out" ELSE IF agyExit = "ok" THEN "completed" ELSE "failed"

Outcome ==
    CASE worker.timed_out                    -> "timed_out"
      [] ~worker.timed_out /\ ~worker.ok     -> "failed"
      [] ~worker.timed_out /\ worker.ok      ->
            IF agyExit = "ok" THEN "completed" ELSE "failed"

\* Mutant of Finalize: only terminal statuses stop the worker's verdict.
FinalizeOverCancelling ==
    /\ worker.pc = "finalize"
    /\ IF state.status \notin Terminal THEN Settle(Outcome, ~worker.ok) ELSE UNCHANGED state
    /\ WorkerGoes("gone")
    /\ UNCHANGED <<starter, client, proc, agyExit, graceOver>>

Finalize ==
    /\ worker.pc = "finalize"
    /\ IF state.status \in Active THEN Settle(Outcome, ~worker.ok) ELSE UNCHANGED state
    /\ WorkerGoes("gone")
    /\ UNCHANGED <<starter, client, proc, agyExit, graceOver>>

\* Reading the logs, update_profile_health or the final write raised.
FinalizeRaises ==
    /\ worker.pc = "finalize"
    /\ WorkerGoes("unwind")
    /\ UNCHANGED <<state, starter, client, proc, agyExit, graceOver>>

UnwindTree(ok) ==
    /\ worker.pc = "unwind"
    /\ WorkerReport(ok)
    /\ worker' = [worker EXCEPT !.pc = "giveup", !.ok = ok]
    /\ UNCHANGED <<state, starter, client, proc, agyExit, graceOver>>

\* Mutant: the verdict of the cleanup is not written down.
GiveUpBlind ==
    /\ worker.pc = "giveup"
    /\ FailIfActive(FALSE)
    /\ WorkerGoes("gone")
    /\ UNCHANGED <<starter, client, proc, agyExit, graceOver>>

GiveUp ==
    /\ worker.pc = "giveup"
    /\ FailIfActive(~worker.ok)
    /\ WorkerGoes("gone")
    /\ UNCHANGED <<starter, client, proc, agyExit, graceOver>>

\* SIGTERM or SIGINT with _interrupt_worker installed: the exception it raises
\* unwinds, or is swallowed by the except clause around the step it hit.
WorkerInterrupted ==
    /\ \/ worker.pc \in {"wait", "finalize"} /\ WorkerGoes("unwind")
       \/ worker.pc = "reap"   /\ worker' = [worker EXCEPT !.pc = "finalize", !.ok = FALSE]
       \/ worker.pc = "unwind" /\ worker' = [worker EXCEPT !.pc = "giveup", !.ok = FALSE]
    /\ UNCHANGED <<state, starter, client, proc, agyExit, graceOver>>

\* SIGKILL, a signal without a handler, an escaping exception, a power cut.
WorkerDies ==
    /\ WorkerAlive
    /\ WorkerGoes("gone")
    /\ UNCHANGED <<state, starter, client, proc, agyExit, graceOver>>

WorkerStep ==
    \/ ClaimRun \/ ConfigInvalid \/ SetupFails \/ LaunchAgy \/ LaunchRefused
    \/ WaitReturns \/ WaitTimesOut
    \/ \E ok \in BOOLEAN : ReapTree(ok) \/ UnwindTree(ok)
    \/ Finalize \/ FinalizeRaises \/ GiveUp

(***************************************************************************)
(* get_run_status and cancel_run.                                          *)
(***************************************************************************)
ClientGoes(c, pc) == client' = [client EXCEPT ![c].pc = pc]

\* Mutants of PollTarget: no start-up grace check; no retry of a failed cleanup.
PollIgnoresStale ==
    CASE state.status = "cancelling"                    -> "killCancelling"
      [] state.cleanup_pending                          -> "killPending"
      [] state.status \in Active /\ state.worker_pid    -> "probe"
      [] OTHER                                          -> "idle"
PollIgnoresPending ==
    CASE state.status = "cancelling"                    -> "killCancelling"
      [] state.status = "queued" /\ graceOver           -> "killStale"
      [] state.status \in Active /\ state.worker_pid
            /\ ~(state.status = "queued" /\ graceOver)  -> "probe"
      [] OTHER                                          -> "idle"

\* The unlocked read at the head of get_run_status, and the branch taken on it.
PollTarget ==
    CASE state.status = "cancelling"                                   -> "killCancelling"
      [] state.cleanup_pending                                         -> "killPending"
      [] ~state.cleanup_pending /\ state.status = "queued" /\ graceOver -> "killStale"
      [] state.status \in Active /\ state.worker_pid
            /\ ~(state.status = "queued" /\ graceOver)                 -> "probe"
      [] OTHER                                                         -> "idle"

Poll(c) ==
    /\ client[c].pc \in {"idle", "poll"}
    /\ state.status # "absent"
    /\ ClientGoes(c, PollTarget)
    /\ UNCHANGED <<state, starter, worker, proc, agyExit, graceOver>>

\* The first lock section of cancel_run; a terminal run is only polled.
RequestCancel(c) ==
    /\ client[c].pc = "idle"
    /\ state.status \notin Terminal \cup {"absent"}
    /\ state' = [state EXCEPT !.status = "cancelling"]
    /\ ClientGoes(c, "killCancel")
    /\ UNCHANGED <<starter, worker, proc, agyExit, graceOver>>

\* Mutant of Cleanup: its result is not looked at before a debt is cleared.
CleanupUnread(c, ok) ==
    /\ client[c].pc = "killPending"
    /\ CleanupReport(ok)
    /\ client' = [client EXCEPT ![c] = [ok |-> ok, pc |-> "clearPending"]]
    /\ UNCHANGED <<state, starter, worker, proc, agyExit, graceOver>>

\* _cleanup_persisted_run_processes returns; no lock is held.
Cleanup(c, ok) ==
    /\ client[c].pc \in KillPCs
    /\ CleanupReport(ok)
    /\ client' = [client EXCEPT ![c] = [ok |-> ok, pc |->
          CASE client[c].pc = "killCancelling" -> "settleCancelling"
            [] client[c].pc = "killCancel"     -> "settleCancel"
            [] client[c].pc = "killStale"      -> "failStale"
            [] client[c].pc = "killPending"    -> IF ok THEN "clearPending" ELSE "idle"]]
    /\ UNCHANGED <<state, starter, worker, proc, agyExit, graceOver>>

\* Mutant of SettleCancel: the result of the cleanup is dropped.
SettleCancelBlind(c) ==
    /\ client[c].pc \in {"settleCancelling", "settleCancel"}
    /\ IF state.status = "cancelling" THEN Settle("cancelled", FALSE) ELSE UNCHANGED state
    /\ ClientGoes(c, IF client[c].pc = "settleCancel" THEN "poll" ELSE "idle")
    /\ UNCHANGED <<starter, worker, proc, agyExit, graceOver>>

\* The lock section that turns cancelling into cancelled, in both callers;
\* cancel_run goes on to get_run_status, which retries a pending cleanup.
SettleCancel(c) ==
    /\ client[c].pc \in {"settleCancelling", "settleCancel"}
    /\ IF state.status = "cancelling"
       THEN Settle("cancelled", ~client[c].ok)
       ELSE UNCHANGED state
    /\ ClientGoes(c, IF client[c].pc = "settleCancel" THEN "poll"
                     ELSE IF state.status = "cancelling" /\ ~client[c].ok
                          THEN "killPending" ELSE "idle")
    /\ UNCHANGED <<starter, worker, proc, agyExit, graceOver>>

ClearPending(c) ==
    /\ client[c].pc = "clearPending"
    /\ state' = [state EXCEPT !.cleanup_pending = FALSE]
    /\ ClientGoes(c, "idle")
    /\ UNCHANGED <<starter, worker, proc, agyExit, graceOver>>

FailStale(c) ==
    /\ client[c].pc = "failStale"
    /\ FailIfActive(~client[c].ok)
    /\ ClientGoes(c, "idle")
    /\ UNCHANGED <<starter, worker, proc, agyExit, graceOver>>

\* Mutant of ProbeWorker: the worker's identity is not verified.
ProbeUnverified(c, killed) ==
    /\ client[c].pc = "probe"
    /\ killed = Live
    /\ IF state.status \in Active
       THEN /\ proc' = [p \in Procs |-> IF p \in killed THEN "dead" ELSE proc[p]]
            /\ Settle("failed", FALSE)
       ELSE UNCHANGED <<state, proc>>
    /\ ClientGoes(c, "idle")
    /\ UNCHANGED <<starter, worker, agyExit, graceOver>>

\* The worker is dead before and, still for an active record, inside the lock;
\* the tree it left is killed with the lock held.  A live worker is left alone.
ProbeWorker(c, killed) ==
    /\ client[c].pc = "probe"
    /\ killed \subseteq Live
    /\ IF state.status \in Active /\ state.worker_pid /\ ~WorkerAlive
       THEN /\ proc' = [p \in Procs |-> IF p \in killed THEN "dead" ELSE proc[p]]
            /\ agyExit' = IF Agy \in killed THEN "fail" ELSE agyExit
            /\ \/ Settle("failed", killed # Live)
               \/ Settle("failed", TRUE)
       ELSE /\ killed = {}
            /\ UNCHANGED <<state, proc, agyExit>>
    /\ ClientGoes(c, "idle")
    /\ UNCHANGED <<starter, worker, graceOver>>

\* The calling process ends inside the call; a later caller starts afresh.
ClientCrashes(c) ==
    /\ client[c].pc # "idle"
    /\ ClientGoes(c, "idle")
    /\ UNCHANGED <<state, starter, worker, proc, agyExit, graceOver>>

ClientStep(c) ==
    \/ Poll(c)
    \/ RequestCancel(c)
    \/ \E ok \in BOOLEAN : Cleanup(c, ok)
    \/ SettleCancel(c) \/ ClearPending(c) \/ FailStale(c)
    \/ \E killed \in SUBSET Procs : ProbeWorker(c, killed)

Environment ==
    \/ StarterCrashes \/ WorkerDies \/ WorkerInterrupted \/ GraceExpires
    \/ \E c \in Clients : ClientCrashes(c)
    \/ \E p \in Procs : Strike(p)
    \/ \E code \in {"ok", "fail"} : AgyExits(code)
    \/ \E h \in Helpers : HelperForks(h) \/ HelperExits(h)

Next ==
    \/ StarterStep
    \/ WorkerStep
    \/ \E c \in Clients : ClientStep(c)
    \/ Environment

Spec == Init /\ [][Next]_vars

(***************************************************************************)
(* Fairness.  The starter, the worker and the callers are processes the    *)
(* operating system schedules; Agy ends by itself (or by the run timeout). *)
(* Callers poll again and again.  Strong fairness says that a cleanup      *)
(* retried for ever does not fail for ever and that a caller does not      *)
(* crash at the same point for ever.                                       *)
(***************************************************************************)
Fairness ==
    /\ WF_vars(StarterStep)
    /\ WF_vars(WorkerStep)
    /\ WF_vars(GraceExpires)
    /\ WF_vars(\E code \in {"ok", "fail"} : AgyExits(code))
    /\ SF_vars(ForeignCleanup /\ WorkerDies)
    /\ \A p \in Procs : SF_vars(Strike(p))
    /\ \A c \in Clients :
         /\ WF_vars(Poll(c))
         /\ SF_vars(\E ok \in BOOLEAN : Cleanup(c, ok))
         /\ SF_vars(Cleanup(c, TRUE))
         /\ SF_vars(SettleCancel(c) \/ ClearPending(c) \/ FailStale(c))
         /\ SF_vars(\E killed \in SUBSET Procs : ProbeWorker(c, killed))

FairSpec == Spec /\ Fairness

(***************************************************************************)
(* Properties.                                                             *)
(***************************************************************************)

\* Every variable stays in its domain: the record's statuses, the program
\* counters of start_run, run_worker, get_run_status and cancel_run.
TypeOK ==
    /\ state \in [status : Statuses, cleanup_pending : BOOLEAN, worker_pid : BOOLEAN]
    /\ starter \in [pc : StarterPCs, ok : BOOLEAN]
    /\ worker \in [pc : WorkerPCs, ok : BOOLEAN, timed_out : BOOLEAN]
    /\ client \in [Clients -> [pc : ClientPCs, ok : BOOLEAN]]
    /\ proc \in [Procs -> {"unborn", "live", "dead"}]
    /\ agyExit \in {"none", "ok", "fail"}
    /\ graceOver \in BOOLEAN

\* A run whose record is terminal and does not say cleanup_pending has no live
\* Agy process: neither a late launch by the worker nor a cleanup verified
\* before the record was settled may leave one behind.
QuietWhenSettled ==
    state.status \in Terminal /\ ~state.cleanup_pending => Quiet

\* The same for cancelled runs alone, whatever the starter's timing: cancel_run
\* marks the record before it scans, so no worker can launch behind its back.
CancelledIsQuiet ==
    state.status = "cancelled" /\ ~state.cleanup_pending => Quiet

\* A run reported completed is one whose Agy exited with code 0 by itself, with
\* its tree gone and no time-out, however signals and cancellations interleave.
CompletedMeansSuccess ==
    state.status = "completed" => agyExit = "ok" /\ Quiet /\ ~worker.timed_out

\* The first terminal status is the last: late workers, starters and callers
\* that act on an older read never replace one outcome by another.
TerminalIsFinal ==
    [][state.status \in Terminal => state'.status = state.status]_vars

\* Once a caller of cancel_run has marked the record, no other actor can turn
\* the run into a success or a failure: it can only become cancelled.
CancelWins ==
    [][state.status = "cancelling" => state'.status \in {"cancelling", "cancelled"}]_vars

\* "Worker process exited before finalizing the run" is only ever written, with
\* the cleanup verified, about a worker that is not alive: a slow worker or a
\* slow starter must not be mistaken for a dead one.
StaleMeansExited ==
    [][/\ \E c \in Clients : client[c].pc \in {"failStale", "probe"} /\ client' # client
       /\ state.status \in Active
       /\ state'.status = "failed" /\ ~state'.cleanup_pending
       => ~WorkerAlive]_vars

\* The same message about a run in progress: the worker that claimed the run is
\* alive and has not finished, yet a caller declares that it exited.
RunningWorkerNotDeclaredExited ==
    [][/\ \E c \in Clients : client[c].pc \in {"failStale", "probe"} /\ client' # client
       /\ state.status = "running"
       /\ state'.status = "failed" /\ ~state'.cleanup_pending
       => worker.pc \notin {"setup", "wait", "reap", "finalize", "unwind", "giveup"}]_vars

\* A cleanup debt is paid exactly once: cleanup_pending is set only by the step
\* that settles the run, and cleared only when no process of the run is alive.
PendingIsHonest ==
    [][/\ state'.cleanup_pending /\ ~state.cleanup_pending => state.status \notin Terminal
       /\ state.cleanup_pending /\ ~state'.cleanup_pending => Quiet']_vars

\* Whatever crashes, every run that was created reaches a terminal status as
\* long as some caller keeps polling it.
EveryRunSettles ==
    (state.status # "absent") ~> (state.status \in Terminal)

\* Whatever crashes, an unverified cleanup is retried by the callers until no
\* process of the run is left.
PendingClears ==
    state.cleanup_pending ~> (~state.cleanup_pending /\ Quiet)

(***************************************************************************)
(* The inductive invariant behind the safety properties.                   *)
(***************************************************************************)
Decided == state.status \in Terminal \cup {"cancelling"}
Unborn  == \A p \in Procs : proc[p] = "unborn"
NoMoreLaunches == worker.pc \in {"none", "gone"} /\ starter.pc \notin {"create", "spawn"}

StarterInv ==
    /\ state.status = "absent" <=> starter.pc = "create"
    /\ starter.pc \in {"create", "spawn"} => worker.pc = "none"
    /\ starter.pc = "fail" /\ starter.ok => NoMoreLaunches /\ Quiet
    /\ PromptSpawn /\ graceOver => starter.pc # "spawn"
    /\ graceOver => starter.pc # "create"

WorkerInv ==
    /\ worker.pc \in {"none", "boot", "setup"} => Unborn
    /\ worker.pc \in {"finalize", "giveup"} /\ worker.ok => Quiet
    /\ state.status = "queued" => worker.pc \in {"none", "boot", "gone"}

ClientInv ==
    \A c \in Clients :
      /\ client[c].pc \in {"killCancel", "settleCancel", "killCancelling", "settleCancelling"}
            => Decided
      /\ client[c].pc \in {"settleCancel", "settleCancelling"} /\ client[c].ok => Quiet
      /\ client[c].pc \in {"killPending", "clearPending"} => state.status \in Terminal
      /\ client[c].pc = "clearPending" => Quiet
      /\ client[c].pc \in {"killStale", "failStale"} => graceOver
      /\ PromptSpawn /\ client[c].pc = "failStale" /\ client[c].ok => NoMoreLaunches /\ Quiet

TreeInv ==
    /\ proc[Agy] = "unborn" => Unborn
    /\ agyExit # "none" => proc[Agy] = "dead"
    /\ ~Unborn => state.status \notin {"absent", "queued"}

RecordInv ==
    /\ state.cleanup_pending => state.status \in Terminal
    /\ CancelledIsQuiet
    /\ PromptSpawn => QuietWhenSettled
    /\ CompletedMeansSuccess
    /\ state.status = "completed" => worker.pc = "gone" /\ ~state.cleanup_pending

\* What makes the cleanup verdicts safe to act on later: a verdict TRUE held by
\* an actor still holds when the actor settles the record, because nobody can
\* launch Agy any more.
IInv == TypeOK /\ StarterInv /\ WorkerInv /\ ClientInv /\ TreeInv /\ RecordInv
=============================================================================
