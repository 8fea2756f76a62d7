------------------------------ MODULE WatchRun ------------------------------
(***************************************************************************)
(* Watched runs of magy on one repository: start_watch_run, the runner in  *)
(* its terminal pane, the detached monitor, the callers of                 *)
(* get_watch_status and cancel_watch_run, and the repository lease.        *)
(*                                                                         *)
(* A section of code that holds the watch lock is one action, except where *)
(* an unlocked writer can run inside it (the runner rewriting the record)  *)
(* or where other files change inside it (the lease, released after the    *)
(* record was written).  A caller learns a watch id from start_watch_run,  *)
(* so it polls and cancels only watches whose start has returned.          *)
(***************************************************************************)
CONSTANTS
    Watches,          \* calls of start_watch_run, each with its own watch id
    Clients,          \* callers of get_watch_status and cancel_watch_run
    None,             \* no watch
    Native,           \* TRUE: zellij or tmux; FALSE: a custom mux_cmd
    MuxErrs,          \* TRUE: zellij or tmux may be unreachable when it is asked for a pane
    LateLaunchErrors, \* TRUE: start_watch_run may raise after the pane was created
    Crashes           \* TRUE: starting processes, callers and monitors may die anywhere

ASSUME WatchAssumption ==
    /\ None \notin Watches \cup Clients
    /\ Watches \cap Clients = {}
    /\ {Native, MuxErrs, LateLaunchErrors, Crashes} \subseteq BOOLEAN

VARIABLES
    status,       \* state.json: the status of each watch
    runnerPid,    \* state.json: runner_pid has been recorded
    lease,        \* the watch id in the repository's lease file
    starter,      \* start_watch_run: program counter
    pane,         \* the terminal pane: "none", "open" or "closed"
    runner,       \* runner.sh and watch_runner: program counter, status it read
    agy,          \* magy.cli and its Agy: "unborn", "live", "ok" or "fail"
    exitFile,     \* the .exit signal file: "none", "ok" or "fail"
    observer      \* callers and monitors: program counter, watch, what they saw

vars == <<status, runnerPid, lease, starter, pane, runner, agy, exitFile, observer>>

Terminal == {"completed", "failed", "cancelled"}
Observers == Clients \cup Watches        \* the monitor of watch w is observer w
StarterPCs == {"idle", "lease", "baseline", "launch", "record", "monitor",
               "release", "mark", "started", "raised", "crashed"}
RunnerPCs == {"none", "boot", "recording", "ready", "stream", "noting", "noted", "gone"}
ObserverPCs == {"idle", "watch", "probe", "finalize", "release", "close",
                "cancelRelease", "cancelKill", "cancelClose", "off"}

\* A caller between two calls, and a monitor that was not started or has ended.
AtRest(o) ==
    IF o \in Clients THEN [pc |-> "idle", watch |-> None, saw |-> "none"]
                     ELSE [pc |-> "off", watch |-> o, saw |-> "none"]

Init ==
    /\ status = [w \in Watches |-> "absent"]
    /\ runnerPid = [w \in Watches |-> FALSE]
    /\ lease = None
    /\ starter = [w \in Watches |-> "idle"]
    /\ pane = [w \in Watches |-> "none"]
    /\ runner = [w \in Watches |-> [pc |-> "none", seen |-> "absent"]]
    /\ agy = [w \in Watches |-> "unborn"]
    /\ exitFile = [w \in Watches |-> "none"]
    /\ observer = [o \in Observers |-> AtRest(o)]

\* The runner holds the watch lock between reading and writing the record.
LockFree(w) == runner[w].pc \notin {"recording", "noting"}
RunnerAlive(w) == runner[w].pc \notin {"none", "gone"}

\* Mutant: the launcher is taken for the pane of every multiplexer.
PaneAssumedAlive(w) == TRUE

\* What is_pane_alive returns: a custom multiplexer is always taken to be alive,
\* and a native one that cannot be asked for either, depending on the error.
PaneAlive(w) == ~Native \/ (pane[w] = "open" /\ RunnerAlive(w))
PaneVerdicts(w) == {PaneAlive(w)} \cup (IF Native /\ MuxErrs THEN BOOLEAN ELSE {})

\* Mutant: the lease file is removed whoever it names.
ReleaseUnowned(w) == lease' = None

\* release_repo_lease: only the owner named in the file is removed.
ReleaseLease(w) == lease' = IF lease = w THEN None ELSE lease

(***************************************************************************)
(* start_watch_run.                                                        *)
(***************************************************************************)
StarterGoes(w, pc) == starter' = [starter EXCEPT ![w] = pc]

WriteStub(w) ==
    /\ starter[w] = "idle"
    /\ status' = [status EXCEPT ![w] = "running"]
    /\ StarterGoes(w, "lease")
    /\ UNCHANGED <<runnerPid, lease, pane, runner, agy, exitFile, observer>>

\* The lease is refused only to protect a watch that is still running; the
\* refused stub is left behind with status running.
AcquireLease(w) ==
    /\ starter[w] = "lease"
    /\ IF lease \notin {None, w} /\ status[lease] = "running"
       THEN /\ StarterGoes(w, "raised")
            /\ UNCHANGED lease
       ELSE /\ StarterGoes(w, "baseline")
            /\ lease' = w
    /\ UNCHANGED <<status, runnerPid, pane, runner, agy, exitFile, observer>>

\* Baseline snapshot, log files, request.json, state.json and runner.sh.
PrepareWatch(w) ==
    /\ starter[w] = "baseline"
    /\ \/ StarterGoes(w, "launch") \/ StarterGoes(w, "release")
    /\ UNCHANGED <<status, runnerPid, lease, pane, runner, agy, exitFile, observer>>

\* The pane is created; a time-out or an unreadable pane id may follow.
LaunchPane(w) ==
    /\ starter[w] = "launch"
    /\ pane' = [pane EXCEPT ![w] = "open"]
    /\ runner' = [runner EXCEPT ![w].pc = "boot"]
    /\ \/ StarterGoes(w, "record")
       \/ LateLaunchErrors /\ StarterGoes(w, "release")
    /\ UNCHANGED <<status, runnerPid, lease, agy, exitFile, observer>>

LaunchFails(w) ==
    /\ starter[w] = "launch"
    /\ StarterGoes(w, "release")
    /\ UNCHANGED <<status, runnerPid, lease, pane, runner, agy, exitFile, observer>>

RecordPane(w) ==
    /\ starter[w] = "record"
    /\ LockFree(w)
    /\ \/ StarterGoes(w, "monitor")
       \/ LateLaunchErrors /\ StarterGoes(w, "release")
    /\ UNCHANGED <<status, runnerPid, lease, pane, runner, agy, exitFile, observer>>

SpawnMonitor(w) ==
    /\ starter[w] = "monitor"
    /\ \/ /\ StarterGoes(w, "started")
          /\ observer' = [observer EXCEPT ![w].pc = "watch"]
       \/ /\ LateLaunchErrors
          /\ StarterGoes(w, "release")
          /\ UNCHANGED observer
    /\ UNCHANGED <<status, runnerPid, lease, pane, runner, agy, exitFile>>

\* The except clause of start_watch_run: first the lease, then the record,
\* which it reads and writes without the watch lock.
ReleaseAfterError(w) ==
    /\ starter[w] = "release"
    /\ ReleaseLease(w)
    /\ StarterGoes(w, "mark")
    /\ UNCHANGED <<status, runnerPid, pane, runner, agy, exitFile, observer>>

MarkStartFailed(w) ==
    /\ starter[w] = "mark"
    /\ status' = [status EXCEPT ![w] = IF @ \in Terminal THEN @ ELSE "failed"]
    /\ StarterGoes(w, "raised")
    /\ UNCHANGED <<runnerPid, lease, pane, runner, agy, exitFile, observer>>

StarterDies(w) ==
    /\ Crashes
    /\ starter[w] \notin {"idle", "started", "raised", "crashed"}
    /\ StarterGoes(w, "crashed")
    /\ UNCHANGED <<status, runnerPid, lease, pane, runner, agy, exitFile, observer>>

StarterStep(w) ==
    \/ AcquireLease(w) \/ PrepareWatch(w) \/ LaunchPane(w) \/ LaunchFails(w)
    \/ RecordPane(w) \/ SpawnMonitor(w) \/ ReleaseAfterError(w) \/ MarkStartFailed(w)

(***************************************************************************)
(* runner.sh and watch_runner.                                             *)
(***************************************************************************)
RunnerReads(w) ==
    /\ runner[w].pc = "boot"
    /\ runner' = [runner EXCEPT ![w] = [pc |-> "recording", seen |-> status[w]]]
    /\ UNCHANGED <<status, runnerPid, lease, starter, pane, agy, exitFile, observer>>

\* The whole record is written back as it was read, with the runner's PID.
RunnerRecords(w) ==
    /\ runner[w].pc = "recording"
    /\ status' = [status EXCEPT ![w] = runner[w].seen]
    /\ runnerPid' = [runnerPid EXCEPT ![w] = TRUE]
    /\ runner' = [runner EXCEPT ![w] = [pc |-> "ready", seen |-> "absent"]]
    /\ UNCHANGED <<lease, starter, pane, agy, exitFile, observer>>

\* Popen of magy.cli; the status is not looked at again.
RunnerLaunchesAgy(w) ==
    /\ runner[w].pc = "ready"
    /\ agy' = [agy EXCEPT ![w] = "live"]
    /\ runner' = [runner EXCEPT ![w].pc = "stream"]
    /\ UNCHANGED <<status, runnerPid, lease, starter, pane, exitFile, observer>>

\* Once, on the first line of the stream that names a conversation, the runner
\* reads the record again; Agy is at work, or has ended with lines left to read.
RunnerRereads(w) ==
    /\ runner[w].pc = "stream"
    /\ runner' = [runner EXCEPT ![w] = [pc |-> "noting", seen |-> status[w]]]
    /\ UNCHANGED <<status, runnerPid, lease, starter, pane, agy, exitFile, observer>>

\* The whole record again goes back as it was read, with the conversation id; an
\* error on the way is swallowed.
RunnerNotes(w) ==
    /\ runner[w].pc = "noting"
    /\ status' \in {status, [status EXCEPT ![w] = runner[w].seen]}
    /\ runner' = [runner EXCEPT ![w] = [pc |-> "noted", seen |-> "absent"]]
    /\ UNCHANGED <<runnerPid, lease, starter, pane, agy, exitFile, observer>>

\* Mutant: runner.sh publishes its own success instead of the runner's code.
RunnerFinishesBlind(w) ==
    /\ runner[w].pc \in {"stream", "noted"}
    /\ agy[w] \in {"ok", "fail"}
    /\ exitFile' = [exitFile EXCEPT ![w] = "ok"]
    /\ runner' = [runner EXCEPT ![w] = [pc |-> "gone", seen |-> "absent"]]
    /\ UNCHANGED <<status, runnerPid, lease, starter, pane, agy, observer>>

\* The stream ends with Agy; runner.sh publishes .exit with mv and exits.
RunnerFinishes(w) ==
    /\ runner[w].pc \in {"stream", "noted"}
    /\ agy[w] \in {"ok", "fail"}
    /\ exitFile' = [exitFile EXCEPT ![w] = agy[w]]
    /\ runner' = [runner EXCEPT ![w] = [pc |-> "gone", seen |-> "absent"]]
    /\ UNCHANGED <<status, runnerPid, lease, starter, pane, agy, observer>>

\* watch_runner fails or is killed; runner.sh still publishes .exit.
RunnerFails(w) ==
    /\ runner[w].pc \in {"boot", "recording", "ready", "stream", "noting", "noted"}
    /\ exitFile' = [exitFile EXCEPT ![w] = "fail"]
    /\ runner' = [runner EXCEPT ![w] = [pc |-> "gone", seen |-> "absent"]]
    /\ UNCHANGED <<status, runnerPid, lease, starter, pane, agy, observer>>

\* The hang-up of a closed pane reaches the runner before it can publish .exit.
RunnerHangsUp(w) ==
    /\ pane[w] = "closed"
    /\ RunnerAlive(w)
    /\ runner' = [runner EXCEPT ![w] = [pc |-> "gone", seen |-> "absent"]]
    /\ UNCHANGED <<status, runnerPid, lease, starter, pane, agy, exitFile, observer>>

AgyEnds(w, code) ==
    /\ agy[w] = "live"
    /\ agy' = [agy EXCEPT ![w] = code]
    /\ UNCHANGED <<status, runnerPid, lease, starter, pane, runner, exitFile, observer>>

\* A person closes the pane.
UserClosesPane(w) ==
    /\ pane[w] = "open"
    /\ pane' = [pane EXCEPT ![w] = "closed"]
    /\ UNCHANGED <<status, runnerPid, lease, starter, runner, agy, exitFile, observer>>

RunnerStep(w) ==
    \/ RunnerReads(w) \/ RunnerRecords(w) \/ RunnerLaunchesAgy(w)
    \/ RunnerNotes(w) \/ RunnerFinishes(w) \/ RunnerHangsUp(w)

(***************************************************************************)
(* get_watch_status and run_watch_monitor.                                 *)
(***************************************************************************)
ObserverGoes(o, pc) == observer' = [observer EXCEPT ![o].pc = pc]
Returns(o) == observer' = [observer EXCEPT ![o] = AtRest(o)]

\* Nothing to settle: a call returns, and a monitor looks again a little later.
LooksLater(o) == IF o \in Clients THEN Returns(o) ELSE ObserverGoes(o, "watch")

\* A caller picks a watch it was given the id of.
CallerPolls(o, w) ==
    /\ o \in Clients /\ observer[o].pc = "idle"
    /\ starter[w] = "started"
    /\ status[w] = "running"
    /\ observer' = [observer EXCEPT ![o] = [pc |-> "watch", watch |-> w, saw |-> "none"]]
    /\ UNCHANGED <<status, runnerPid, lease, starter, pane, runner, agy, exitFile>>

\* The unlocked look for .exit; a finished watch ends the monitor.
LooksForExit(o) ==
    LET w == observer[o].watch IN
    /\ observer[o].pc = "watch"
    /\ IF o \notin Clients /\ status[w] \in Terminal
       THEN Returns(o)
       ELSE observer' = [observer EXCEPT ![o] =
               [pc |-> IF exitFile[w] # "none" THEN "finalize" ELSE "probe",
                watch |-> w, saw |-> exitFile[w]]]
    /\ UNCHANGED <<status, runnerPid, lease, starter, pane, runner, agy, exitFile>>

\* Mutant: nobody looks for .exit again.
TakesVerdictOnce(o, alive) ==
    LET w == observer[o].watch IN
    /\ observer[o].pc = "probe"
    /\ alive \in PaneVerdicts(w)
    /\ IF alive
       THEN LooksLater(o)
       ELSE observer' = [observer EXCEPT ![o] =
               [pc |-> "finalize", watch |-> w, saw |-> "closed"]]
    /\ UNCHANGED <<status, runnerPid, lease, starter, pane, runner, agy, exitFile>>

\* The pane is looked at next.  When it is dead, the monitor looks for .exit
\* once more; get_watch_status does not.
TakesVerdict(o, alive) ==
    LET w == observer[o].watch IN
    /\ observer[o].pc = "probe"
    /\ alive \in PaneVerdicts(w)
    /\ IF alive
       THEN LooksLater(o)
       ELSE observer' = [observer EXCEPT ![o] =
               [pc |-> "finalize", watch |-> w,
                saw |-> IF o \notin Clients /\ exitFile[w] # "none"
                        THEN exitFile[w] ELSE "closed"]]
    /\ UNCHANGED <<status, runnerPid, lease, starter, pane, runner, agy, exitFile>>

LooksAtPane(o) == \E alive \in BOOLEAN : TakesVerdict(o, alive)

\* Mutant: the record is not looked at again under the lock.
FinalizeAlways(o) ==
    LET w == observer[o].watch IN
    /\ observer[o].pc = "finalize"
    /\ LockFree(w)
    /\ status' = [status EXCEPT ![w] = IF observer[o].saw = "ok" THEN "completed"
                                       ELSE "failed"]
    /\ ObserverGoes(o, "release")
    /\ UNCHANGED <<runnerPid, lease, starter, pane, runner, agy, exitFile>>

\* finalize_watch writes the outcome unless there is one; a snapshot that
\* fails turns a success into a failure.
Finalize(o) ==
    LET w == observer[o].watch IN
    /\ observer[o].pc = "finalize"
    /\ LockFree(w)
    /\ IF status[w] \in Terminal
       THEN Returns(o) /\ UNCHANGED status
       ELSE /\ \/ /\ observer[o].saw = "ok"
                  /\ status' = [status EXCEPT ![w] = "completed"]
               \/ status' = [status EXCEPT ![w] = "failed"]
            /\ ObserverGoes(o, "release")
    /\ UNCHANGED <<runnerPid, lease, starter, pane, runner, agy, exitFile>>

FinalizeReleases(o) ==
    /\ observer[o].pc = "release"
    /\ ReleaseLease(observer[o].watch)
    /\ ObserverGoes(o, "close")
    /\ UNCHANGED <<status, runnerPid, starter, pane, runner, agy, exitFile>>

\* close_pane after the lock was released; a custom pane is left alone.
ClosesPane(o) ==
    /\ observer[o].pc \in {"close", "cancelClose"}
    /\ pane' = [pane EXCEPT ![observer[o].watch] = IF Native THEN "closed" ELSE @]
    /\ Returns(o)
    /\ UNCHANGED <<status, runnerPid, lease, starter, runner, agy, exitFile>>

(***************************************************************************)
(* cancel_watch_run.                                                       *)
(***************************************************************************)
\* Mutant: the record is marked without the watch lock.
CancelMarksUnlocked(o, w) ==
    /\ o \in Clients /\ observer[o].pc = "idle"
    /\ starter[w] = "started"
    /\ status[w] \notin Terminal
    /\ status' = [status EXCEPT ![w] = "cancelled"]
    /\ observer' = [observer EXCEPT ![o] =
          [pc |-> "cancelRelease", watch |-> w,
           saw |-> IF runnerPid[w] THEN "runner" ELSE "none"]]
    /\ UNCHANGED <<runnerPid, lease, starter, pane, runner, agy, exitFile>>

CancelMarks(o, w) ==
    /\ o \in Clients /\ observer[o].pc = "idle"
    /\ starter[w] = "started"
    /\ LockFree(w)
    /\ status[w] \notin Terminal
    /\ status' = [status EXCEPT ![w] = "cancelled"]
    /\ observer' = [observer EXCEPT ![o] =
          [pc |-> "cancelRelease", watch |-> w,
           saw |-> IF runnerPid[w] THEN "runner" ELSE "none"]]
    /\ UNCHANGED <<runnerPid, lease, starter, pane, runner, agy, exitFile>>

CancelReleases(o) ==
    /\ observer[o].pc = "cancelRelease"
    /\ ReleaseLease(observer[o].watch)
    /\ ObserverGoes(o, IF observer[o].saw = "runner" THEN "cancelKill" ELSE "cancelClose")
    /\ UNCHANGED <<status, runnerPid, starter, pane, runner, agy, exitFile>>

\* _terminate_pid_tree finds magy.cli, which passes the signal on to Agy; the
\* runner above it carries no marker the kernel would show.  The result is not
\* looked at.
CancelKills(o) ==
    LET w == observer[o].watch IN
    /\ observer[o].pc = "cancelKill"
    /\ \/ agy' = [agy EXCEPT ![w] = IF @ = "live" THEN "fail" ELSE @]
       \/ UNCHANGED agy
    /\ ObserverGoes(o, "cancelClose")
    /\ UNCHANGED <<status, runnerPid, lease, starter, pane, runner, exitFile>>

ObserverStep(o) ==
    \/ LooksForExit(o) \/ LooksAtPane(o) \/ Finalize(o) \/ FinalizeReleases(o)
    \/ ClosesPane(o) \/ CancelReleases(o) \/ CancelKills(o)

\* The monitor, or a calling process, ends at any point.
ObserverDies(o) ==
    /\ Crashes
    /\ observer[o].pc \notin {"idle", "off"}
    /\ Returns(o)
    /\ UNCHANGED <<status, runnerPid, lease, starter, pane, runner, agy, exitFile>>

Next ==
    \/ \E w \in Watches :
         \/ WriteStub(w) \/ StarterStep(w) \/ StarterDies(w)
         \/ RunnerStep(w) \/ RunnerRereads(w) \/ RunnerFails(w) \/ UserClosesPane(w)
         \/ \E code \in {"ok", "fail"} : AgyEnds(w, code)
         \/ \E o \in Clients : CallerPolls(o, w) \/ CancelMarks(o, w)
    \/ \E o \in Observers : ObserverStep(o) \/ ObserverDies(o)

Spec == Init /\ [][Next]_vars

(***************************************************************************)
(* Fairness.  The processes of a watch run; Agy ends by itself; a caller   *)
(* polls again and again, and strong fairness says that it does not die at *)
(* the same point of its poll, nor is told wrongly of a pane, for ever.    *)
(* Nobody has to close a pane or cancel, and monitors may die.             *)
(***************************************************************************)
Fairness ==
    /\ \A w \in Watches :
         /\ WF_vars(StarterStep(w))
         /\ WF_vars(RunnerStep(w))
         /\ WF_vars(\E code \in {"ok", "fail"} : AgyEnds(w, code))
    /\ \A o \in Clients :
         /\ \A w \in Watches : SF_vars(CallerPolls(o, w))
         /\ SF_vars(LooksForExit(o))
         /\ SF_vars(TakesVerdict(o, PaneAlive(observer[o].watch)))
         /\ SF_vars(Finalize(o))

FairSpec == Spec /\ Fairness

(***************************************************************************)
(* Properties.                                                             *)
(***************************************************************************)
\* Every variable stays in its domain; in particular the record holds one of
\* the statuses that get_watch_status and the lease distinguish.
TypeOK ==
    /\ status \in [Watches -> {"absent", "running"} \cup Terminal]
    /\ runnerPid \in [Watches -> BOOLEAN]
    /\ lease \in Watches \cup {None}
    /\ starter \in [Watches -> StarterPCs]
    /\ pane \in [Watches -> {"none", "open", "closed"}]
    /\ runner \in [Watches -> [pc : RunnerPCs,
                               seen : {"absent", "running"} \cup Terminal]]
    /\ agy \in [Watches -> {"unborn", "live", "ok", "fail"}]
    /\ exitFile \in [Watches -> {"none", "ok", "fail"}]
    /\ observer \in [Observers -> [pc : ObserverPCs, watch : Watches \cup {None},
                                   saw : {"none", "ok", "fail", "closed", "runner"}]]

\* The watches whose start got the lease and did not give up.
Admitted(w) == starter[w] \in {"baseline", "launch", "record", "monitor", "started"}

\* Every running watch that was admitted owns the lease of the repository, so
\* two of them never run at once: neither a late release by a settled watch nor
\* a look at the other watch's record may give the repository away.
LeaseIsExclusive ==
    \A w \in Watches : Admitted(w) /\ status[w] = "running" => lease = w

\* The first terminal status of a watch is the last, whichever of monitor,
\* caller, cancellation and runner writes the record next.
TerminalIsFinal ==
    [][\A w \in Watches : status[w] \in Terminal => status'[w] = status[w]]_vars

\* A watch reported completed is one whose Agy succeeded and whose runner
\* published that, however panes close and cancellations interleave.
CompletedMeansSuccess ==
    \A w \in Watches : status[w] = "completed" => agy[w] = "ok" /\ exitFile[w] = "ok"

\* A watch of which nobody closed the pane and whose runner published success.
PublishedSuccess(w) == exitFile[w] = "ok" /\ pane[w] = "open"

DeclaredClosed(o) ==
    LET w == observer[o].watch IN
    /\ observer[o].pc = "finalize" /\ observer[o].saw = "closed"
    /\ status[w] = "running" /\ status'[w] = "failed"

\* The monitor never fails a watch with "Pane closed before execution
\* completed" when the execution did complete and the pane ended with it.
MonitorHonorsExit ==
    [][\A o \in Watches : DeclaredClosed(o) => ~PublishedSuccess(o)]_vars

\* The same of the callers of get_watch_status.
CallerHonorsExit ==
    [][\A o \in Clients : DeclaredClosed(o) => ~PublishedSuccess(observer[o].watch)]_vars

\* Agy processes of two watches never work on the repository at once.
NoInterleavedAgy ==
    \A v, w \in Watches : agy[v] = "live" /\ agy[w] = "live" => v = w

\* In a native multiplexer a watch that was started reaches an outcome, even
\* when its monitor dies, as long as some caller keeps asking for its status.
WatchSettles ==
    \A w \in Watches : (starter[w] = "started") ~> (status[w] \in Terminal)

(***************************************************************************)
(* Why the safety properties hold, as an inductive invariant.              *)
(***************************************************************************)
\* Callers and monitors are busy only with watches whose start has returned; who
\* gives a lease back has seen the watch settled, who believes in a success has
\* seen it published, and a monitor that believes in a closed pane is right.
ObserverFits(o) ==
    LET w == observer[o].watch IN
    /\ o \in Watches => w = o
    /\ observer[o].pc \notin {"idle", "off"} => w \in Watches /\ starter[w] = "started"
    /\ observer[o].pc \in {"release", "cancelRelease"} => status[w] \in Terminal
    /\ observer[o].saw = "ok" => w \in Watches /\ exitFile[w] = "ok"
    /\ ~MuxErrs /\ o \in Watches /\ observer[o].pc = "finalize" /\ observer[o].saw = "closed"
          => pane[w] = "closed"

ObserversFit == \A o \in Observers : ObserverFits(o)

\* There is no runner before the launch, it publishes one exit as it ends, and
\* it publishes none only in a pane that was closed.
RunnersFit ==
    \A w \in Watches :
        /\ starter[w] \in {"idle", "lease", "baseline", "launch"} => runner[w].pc = "none"
        /\ starter[w] \in {"record", "monitor", "started"} =>
              runner[w].pc # "none" /\ pane[w] # "none"
        /\ runner[w].pc \in {"none", "boot", "recording", "ready"} => agy[w] = "unborn"
        /\ runner[w].pc # "gone" => exitFile[w] = "none"
        /\ runner[w].pc = "gone" => exitFile[w] # "none" \/ pane[w] = "closed"
        /\ exitFile[w] = "ok" => agy[w] = "ok"

\* A watch whose start is at work or has died is running.  What a runner that holds
\* the lock writes back is what the record says, unless the start failed meanwhile.
RecordsFit ==
    \A w \in Watches :
        /\ status[w] = "absent" <=> starter[w] = "idle"
        /\ starter[w] \notin {"idle", "started", "raised"} => status[w] = "running"
        /\ starter[w] = "raised" => status[w] \in {"running", "failed"}
        /\ runner[w].pc \in {"recording", "noting"} =>
              \/ runner[w].seen = status[w]
              \/ /\ LateLaunchErrors /\ starter[w] = "raised"
                 /\ runner[w].seen = "running" /\ status[w] = "failed"
        /\ ~LateLaunchErrors /\ starter[w] \in {"release", "mark", "raised"} =>
              runner[w].pc = "none"

WatchInv ==
    /\ TypeOK /\ ObserversFit /\ RunnersFit /\ RecordsFit
    /\ LeaseIsExclusive /\ CompletedMeansSuccess
=============================================================================
