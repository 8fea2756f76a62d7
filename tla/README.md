# Verification of magy

Magy runs the Agy command-line agent inside managed *profiles*. It is a set of
short-lived processes that share a state directory: a CLI and an MCP server that
start, poll and cancel runs, detached workers and monitors, runners inside
terminal panes, and the Agy processes themselves. There is no daemon. What holds
the system together are JSON records, file locks, leases and signals, and what can
go wrong is what happens between two of these steps. This directory holds TLA+
models of those protocols, the TLC configurations that check them, and proofs
checked by TLAPS.

## The system

| Component | Source (`src/src/magy/`) | State | Operations | Correct when |
|---|---|---|---|---|
| Detached runs | `runs.py` | `runs/<id>/request.json`, `state.json`, `.run.lock` | `create_run`, `start_run`, `claim_run`, `fail_run_if_active`, `get_run_status`, `cancel_run`, `wait_run` | outcomes are final and honest; a settled run leaves no Agy behind unannounced; every run settles |
| Idempotent starts | `runs.py` 184-384 | `idempotency.json`, `.idempotency.lock` | `create_run`, `start_run` with a key | callers with one key get one run, and it settles |
| Output | `runs.py` 640-699, `watches.py` 595-646, 1188-1337 | log and diff files, `next_offset` | `get_run_result`, `get_watch_log`, `get_watch_result` | joined pages are the text; `eof` only when nothing follows |
| Worker | `worker.py` | its own process, the Agy tree | claim, launch, wait, reap, finalize, interrupt | launches only while the record says running |
| Process trees | `runs.py` 743-897, `profiles.py` 1324-1600 | live processes, marker `MAGY_RUN_ID` | `_terminate_pid_tree`, `_kill_process_tree` | a cleanup reported as verified is one |
| Watched runs | `watches.py`, `watch_runner.py`, `watch_monitor.py` | `watches/<id>/state.json`, `.exit`, repository leases, panes | `start_watch_run`, the runner, `run_watch_monitor`, `get_watch_status`, `cancel_watch_run`, `finalize_watch` | one watch per repository, final and honest outcomes, a published exit is not overlooked |
| Profiles | `profiles.py` | `profiles.json`, homes, staged directories, lease files | add, remove, enable, disable, reset, `update_profile_health`, `run_in_profile` | a run keeps the profile it verified; failed removals lose nothing |
| Routing | `routing.py` | `routing.json` (cursor) | `select_profile` | available profiles are used in turn; a profile that is out comes back |
| Settings synchronisation | `profiles.py` 724-1232 | profile homes, `.sync.lock` | `sync_profile_settings` | a call that is done did its work, settings never go back |
| Storage | `storage.py` | records, temporary and lock files | `atomic_write_json`, `read_json`, `update_json` | a reader sees the old or the new record; answered updates stay |
| Discovery, health, configuration | `agy.py`, `config.py` | none | resolver, `classify_run_health`, `load_config_result` | pure |
| Front ends | `cli.py`, `mcp_server.py`, `headful.py` | none | translate commands and tool calls | pure translation |

Interactions: front ends call the functions of `runs.py`, `watches.py` and
`profiles.py` in their own process. A worker holds a shared lifecycle lease of its
profile while it runs Agy and writes the profile's health when it finalizes the
run. A watch's runner starts `magy.cli` in the pane, which runs Agy through
`run_in_profile` under the same lease; the monitor learns the result from `.exit`
and writes health again. Everything else goes through the records.

The hard behaviours are listed, each at its line, under `hazards` in
`PROJECT.json`: decisions on records and processes that were read before a lock
was taken, cleanups that run outside every lock, processes killed between two
steps, panes closed by people, retries, and clocks that decide who is dead.

## Modules

| Module | What it is |
|---|---|
| `DetachedRun` | one detached run: record, starter, worker, Agy and its helpers, callers |
| `RunContract` | the abstract specification: what a run promises a caller |
| `DetachedRunRefinement` | the refinement mapping from the first to the second |
| `DetachedRunProofs` | proofs: invariants and action properties, refinement |
| `IdempotentStart`, `IdempotentStartProofs` | the key table, the files of a new run, the spawn, starters that crash |
| `OutputPaging`, `OutputPagingProofs` | pages of a log or diff that is still being written |
| `ProcessTreeKill` | how the processes of a run are found and killed while they fork |
| `WatchRun` | the watches of one repository: starters, runners, monitors, callers, lease |
| `WatchContract` | the abstract specification: what the watches of a repository promise |
| `WatchRunRefinement`, `WatchRunProofs` | the refinement mapping; proofs: invariants, action properties, refinement |
| `ProfileLifecycle`, `ProfileLifecycleProofs` | registry, leases, homes, selection, runs in a profile, health |
| `RoundRobin` | the rotation over a registry that changes |
| `ProfileRotation` | the history variables that watch the rotation in `ProfileLifecycle` |
| `SettingsSync`, `SettingsSyncProofs` | the synchronisation of a profile with the user's settings |
| `AtomicRecord` | the abstract specification: what `update_json` promises |
| `AtomicStore`, `AtomicStoreProofs` | the write protocol that implements it, under kills and power failures |
| `MCParts`, `PartsProofs` | one run for the parts that share no state in the models; proofs about it, `RoundRobin` and `ProcessTreeKill` |
| `MCDetachedRun`, `MCWatchRun`, `MCProfileLifecycle` | symmetry sets for the `.cfg` files |

Definitions whose comment begins with "Mutant" are not part of a specification.
Each is a plausible defect of the definition that follows it, and stands for the
claim that the properties would notice it: putting it in place of the original
makes the property named in `PROJECT.json` fail.

### DetachedRun

`state` is `state.json` (`status`, `cleanup_pending`, whether `worker_pid` is
published); `starter`, `worker` and `client[c]` are the program counters of
`start_run`, `run_worker` and a caller of `get_run_status` or `cancel_run`, with
the local `cleanup_ok`; `proc` and `agyExit` are the process tree that carries the
run's marker; `graceOver` says that `created_at` is more than
`WORKER_STARTUP_GRACE_SECONDS` old.

A section of code under the run's `FileLock` is one action: `ClaimRun`,
`LaunchAgy`, `Finalize`, `GiveUp`, `RequestCancel`, `SettleCancel`, `ClearPending`,
`FailStale` (through `FailIfActive`), `ProbeWorker`. Unlocked reads
(`Poll`), spawns and cleanups are actions of their own. A cleanup
(`_terminate_pid_tree` without the lock) is a caller in one of `KillPCs`: while it
lasts, `Strike` may end any process of the tree, and it ends with a verdict that
may be TRUE only if, at that moment, nothing of the run is alive. Inside
`ProbeWorker` the tree is killed with the lock held, so the whole kill is one step.
Crashes are `StarterCrashes`, `WorkerDies`, `ClientCrashes`; the signal handler is
`WorkerInterrupted`.

Abstractions. One worker per run: nothing but `start_run` starts one. A scan for
the marker sees one state of the process table. A published pid that is recycled
or a zombie makes no difference beyond `WorkerAlive`, because the code compares
creation times. Descendants that drop the marker from their environment are not
processes of the run. Profile selection, settings, executable discovery and
`Popen` errors are the one failure `SetupFails`.

### RunContract

Status, `cleanup_pending` and a single piece of work. Work starts at most once and
only while the status is running; `Decide` gives the one outcome and, unless the
cleanup stays pending, leaves no live work; a debt is paid only when the work is
not live. `DetachedRunRefinement` maps the process tree to `work`.

### WatchRun

`status` and `runnerPid` are the record; `lease` the repository's lease file;
`starter`, `runner` and `observer` the program counters of `start_watch_run`, of
`runner.sh` with `watch_runner`, and of callers and monitors; `pane`, `agy` and
`exitFile` the world outside. The runner rewrites the whole record twice, from a copy it
has read under the lock: when it boots (`RunnerReads`, `RunnerRecords`) and once more when
Agy's stream names its conversation (`RunnerRereads`, `RunnerNotes`). Read and write are
two steps each, since the except clause of `start_watch_run` writes without the lock.
`AcquireLease` looks at the record of the watch named in the lease, as the code
does. `Finalize` writes the record, `FinalizeReleases` gives the lease back,
`ClosesPane` follows. `CancelMarks`, `CancelReleases`, `CancelKills` and
`ClosesPane` keep the order of `cancel_watch_run`.

Constants select the world: `Native` (zellij or tmux, whose panes magy can see, or
a custom launcher), `MuxErrs` (zellij or tmux may be unreachable when asked for a
pane, which `is_zellij_pane_alive` and `is_tmux_pane_alive` take for alive or for dead
depending on the error), `LateLaunchErrors` (the start may raise after the pane exists,
for instance on a multiplexer time-out) and `Crashes`.

Abstractions. Snapshots and diffs are the choice in `Finalize` between the outcome
and a failure. The value of the conversation id is left out, since no decision of this
protocol looks at it; the write that brings it is there. Callers know only the ids that
`start_watch_run` returned.

### WatchContract

Per watch a status, its place (asked for, admitted, given up) and one piece of work.
A watch is admitted only while no other admitted one is running; work starts at most
once, and not before its start was admitted or gave up; the
outcome of an admitted watch is decided once, a success only of work that succeeded.
What the contract does not promise is what the code does not: work may start after the
outcome (`watch_interleaved`), and where a start may give up under a living runner
(`MayReopen`), the failed record may become running again (`watch_revived`), but only of
a watch that gave up: before its work or, through the second write, amid it.
`WatchRunRefinement` maps the program counter
of the start to the place and `agy` to the work.

### ProfileLifecycle

`registry` is `profiles.json`, with the incarnation, the switch, health, cooldown
and the health remembered by `disable_profile`; `home`, `leftover` and `stateDirs`
are directories, by whose data they hold; `cursor` is `routing.json`. `op` are
processes that select a profile and run Agy in it, `admin` processes that add and
remove. A lease is a lock on a file that the kernel drops with its holder, so who
holds it follows from the program counters (`Sharing`, `Excluding`); it is never
waited for. Each `update_json` on the registry is one action. An automatic selection is
`ReadsClock`, then `SelectsNext` under the lock of the cursor, in each try by the clock
read first: `missed` are the profiles whose cooldown has ended since, which it takes for
unavailable (`SeenAvailable`). `record_profile_selection`
is two actions, because it reads the profile again after the lock (`RereadsProfile`).
Removal is `StartsRemove`, `StagesHome`, `Unregisters`, `Purges`, `PurgesState`,
each of which can fail, with `Sweeps` for the retry; `AdminDies` and
`LauncherDies` can come at any point.

A lease does not last as long as the Agy it was taken for. The worker leaves it before
its except clause kills the tree (`worker.py:72`, 291-302), it leaves it after a cleanup
that could not be verified (212-220), and it loses it when it is killed. Whenever a lease
ends under a launched Agy (`LeavesLease`), that Agy may join `strays`, the Agys of a name
that are at work without a lease; they write to the home they were given for as long as
they like, and make it again when it was removed (`StrayWorks`).

Abstractions. Time is whether a cooldown runs or is over; failures differ in
nothing else. Names are numbers in sorting order, and `Nested` says that each later
name begins with the earlier ones and an underscore, which matters to the glob
pattern that finds staged directories. External profiles are left out.

`RunKeepsProfile` is stated of launchers that hold the lease, `HomeIsOwn` excepts the
data of strays, which nothing keeps out, and `OutHasCooldown` is stated for instances
without watches; `LifecycleInv` names what each needs.

### IdempotentStart

`keyTable` and `keyLock` are `idempotency.json` and its lock, `files` what the
directory of a run holds (nothing, the request alone, or a record with its status),
`crew` its worker, `call` the program counters of `start_run`. `TakesKeyLock`,
`FindsRun` or `FindsNoRun`, `WritesRequest`, `WritesState`, `WritesKey` and
`SpawnsWorker` are the order of the code; every write may fail (`WriteFails`), the
caller may be killed anywhere (`CallDies`), and the directory of a settled run may be
deleted, which is when a key is given a new run. A call creates at most one run, so
the run has the name of its call. What happens to a run after the spawn is
`DetachedRun`; here it is claimed, ends, or is settled by whoever has its id. A poll of a
queued run finds no worker without a lock (`PollFindsNoWorker`, `doomed`) and fails the
run later, when one may have claimed it (`PollFails`); that a worker is dead it finds
under the lock of the run (`PollSettles`).

### OutputPaging

The text has `Total` bytes, of which `Boundaries` lie between two characters, and
`written` of them are in the file, so a page can end inside a character.
`PagingAssumption` is UTF-8: the text begins and ends at a boundary and no character is
longer than four bytes. `reader` is a caller that follows
`next_offset`: `ReadsStatus`, `MeasuresFile`, `ReadsPage` are separate steps in the
code's order, with appends and settling between them. `PageEnds` is the search for
a character boundary at the end of a page. A log is appended to by the worker
(`AppendsBytes`, which may stop in the middle of a character), a diff is opened,
written and closed by `finalize_watch` before it settles the watch, and begun again
by the next finalizer when one dies (`OpensDiff`). The guarantees are not stated for
a diff that was read before the watch had settled: such a caller may join pages of
two diffs.

### ProcessTreeKill

`born`, `ended` and `group` are the processes of the run and the members of the
root's process group; `Forks`, `LeavesGroup` and `Exits` come at any time. A round is
`ListsPids`, one `Visits` per pid, whose environment may be gone by then, `EndsVisits`
and `FindsDead` or `FindsAlive`. SIGTERM has no effect of its own, since processes may
ignore it or end by themselves; `KillsKnown` (every round of the second half of
`_terminate_pid_tree`) and `KillsOnce` (`_kill_process_tree`) are SIGKILL. `late` is a
history variable: who was born since the last listing whose result counts.

What `DetachedRun` assumes of a verdict TRUE is more than what is shown here: that
nothing of the run is alive, not only nothing that was born before the listing.

### RoundRobin

The names in sorting order are `1 .. RotationSize`, `routed` is the cursor, `caller` the
calls of `select_profile`. A call reads the clock once (`Arrives`), before it waits for the
lock of the cursor, and may select `Retries` times by it (`SelectsTurn`); `unseen` are the
names whose cooldown has ended since, which it passes as if they were out. `IsNext` is the
search. `ProfileLifecycle` has the same selection with what follows it; here nothing but
its fairness is at stake, so profiles come, go, fail and recover at any time.

`passed[m][n]` counts how often `n` was selected while `m` was available and waiting, in
the present *round* of its wait. A new round begins when a caller with an old clock
overlooks `m`, and when the profile that the cursor names has been removed, after which the
code begins with the first name. `overlooked[m][c]` counts the first kind. So the code's
promise has two halves: in a round nobody is passed twice by the same profile
(`PassedAtMostOnce`), and a caller ends no more rounds than its call has tries
(`OverlookedFewTimes`), since a call that begins later reads a later clock.

`ProfileRotation` adds the variables of `RoundRobin` to `ProfileLifecycle` as history
variables: `profiles`, `ready`, `routed` and `caller` copy what is registered, what is
available, the cursor and the calls, `passed` and `overlooked` count. `CountedSpec` is
`Spec` with this bookkeeping, and every behaviour of it is one of `RotationSpec`
(`ProfilesTakeTurns`, below).

### SettingsSync

`gemini`, `original` and `skillsAt` are the user's directory, `copy` and `skillsLink` the
profile's, `syncLock` and `sync` the calls. Without `.gemini` a call ends at once and
without an error ("skipped", `StartsSync`): it touches nothing, and links to skills that
are gone stay. When the directory goes between this look and the lock, the call raises.
`ClearsPlace`, `MakesLink` and `LinkFails` are done for `skills`, then `config/skills`;
`TakesFile`, `ReadsOriginal`, `WritesCopy`, `RenamesCopy` and `CopyFails` for each file.
Errors of links and copies are kept to the call (`disturbed`), as in the code, some are
raised (`RaisesSync`), and the process may be killed. The user edits and moves originals,
removes or makes `.gemini` (`UserReplacesGemini`), and Agy saves its own settings without a
lock. The listing leaves out what matches a denied pattern (`Listed`).

Abstractions. A file is its name and the edit it comes from. That the code opens originals
without following links, and what that keeps out, is one step here, so no property is
stated about it.

### AtomicStore and AtomicRecord

A file is the set of updates it holds and how much of it is on the disk. A writer
goes through `LocksRecord`, `ReadsRecord`, `WritesTemp`, `SyncsTemp`,
`ReplacesRecord` and `SyncsDirectory`. `afterLoss` are the files the record's name may
refer to when the power fails: everything renamed since the directory was last
forced to the disk; a file that was not forced to the disk itself is torn then.
`StoreFails` is an exception in any step before the rename, after which the temporary
file is removed. Failing to force the directory to the disk is not an error in the
code, and the end "soft" here. `AtomicRecord` says what callers rely on: a value that
changes in one piece, answers that agree with it, and power failures that take back
nothing firm. All other modules take a section under a record's lock for one action,
which `ImplementsRecord` justifies.

## Runs

| Run | Instance | Checks |
|---|---|---|
| `run_safety` | two callers, two helpers, prompt starter | quiet when settled, honest success, final outcomes, cancellation wins, honest debts, true stale verdicts, the inductive invariant (which contains the types), and that every step implements `RunContract` |
| `run_live` | one caller, one helper, any starter | cancelled runs are quiet; every run settles; debts are paid |
| `run_slow_starter` | one caller, slow starter | fails: a running worker is declared exited |
| `watch_safety` | two watches, one caller, crashes, late errors | the inductive invariant (which contains honest success), exclusive lease, the monitor honours a published exit, every step implements `WatchContract` |
| `watch_live` | one watch, one caller, crashes, a multiplexer that errs | outcomes are final; a started watch settles |
| `watch_interleaved` | two watches | fails: two Agys in one repository |
| `watch_caller_exit` | one watch, one caller | fails: a completed watch is recorded as closed |
| `watch_revived` | one watch, late errors | fails: a failed record becomes running again |
| `profile_safety` | one name, two runs, one of them a watch, launchers that leave or lose their lease under Agy, two administrators, two incarnations | the inductive invariant, runs keep their profile while they hold the lease, Agy finds only the data of its own profile and of strays, data of registered profiles stays |
| `profile_watched` | one watch | fails: out of the rotation without a cooldown |
| `profile_nested` | names x and x_y | fails: removing x deletes the home of x_y |
| `parts` | see below | everything about the parts that share no state in the models |

`parts` is a disjoint union: its initial state chooses a part, which takes steps
while the others stay in their initial states. None of the actions with a fairness
condition is enabled in those, so the fairness of one part asks nothing of the
others. The parts are:

* profiles: one name, one incarnation, one run, one administrator, no watches: no order of
  outcomes and switches loses a cooldown;
* starts: two calls, one key and none; callers agree, a key has one worker, and a
  run somebody was answered with settles, polls that are late included;
* paging: a text of four characters of 1, 4, 3 and 2 bytes (`Boundaries`), pages of 3, 4 and 6
  bytes, a diff written at most twice; pages join, `eof` is final, readers finish;
* store: three writers, one power failure; records are whole, answered updates
  stay, updates that raised are not there, and every step implements `AtomicRecord`;
* rotation: three names, two callers with two tries each; nobody is passed over twice in
  a round by the same profile, and a caller ends no more rounds than it has tries;
* settings: two files, one of them denied, two calls, one edit, with and without `.gemini`, and
  every kind of thing in the place of a link or a copy (`PartsInit` leaves out some
  combinations of them);
  a call that is done has done it, settings do not go back, calls end;
* trees: three processes; what verdicts and returns can overlook.

Bounds. A run has one record, one starter and one worker in the code too; two
callers are enough for every pair of conflicting readers, and the safety
properties are proved for any number. Two watches are what exclusion is about, and
a third could only meet a lease the second one meets. Two incarnations of one name
are one removal and one recreation under a run; no action compares two names
except selection and the glob pattern, and the latter has a run with two names.
Helpers fork at most once each, which bounds the tree, not the order in which its
members die. A page of 3 bytes is below the code's minimum of 4, one of 4 is the
longest character, and 6 spans two characters in every position. Three writers are
one that holds the lock, one that waits and one that was answered. With three
names the cursor, a waiting name and one that comes before it are distinct, and two callers
are one with an old clock and one with a new one; two tries are a first one and a retry. Three
processes are a root, a child and a grandchild born while the child is looked at.
`CHECK_DEADLOCK FALSE` stands where everything may be over.

Fairness. `DetachedRun`: starter and worker are processes the system schedules
(weak), Agy ends by itself, a caller polls again and again. Strong fairness says
that a cleanup which is retried for ever does not fail for ever and that a
caller's process does not die at the same point of its poll for ever; nobody has to
cancel, and nothing says that a worker survives. `WatchRun`: the same for starters,
runners and one caller, and a multiplexer that is asked for ever does not answer
wrongly for ever; monitors may all die. `IdempotentStart` (`StartFairness`): a
worker runs, and whoever was given an id asks for its status again; no starter has to
go on. `OutputPaging`: the caller asks for the next page, while nobody has to write.
`SettingsSync`: a call that began is scheduled; it may be killed all the same.

## What is proved

For every set of callers and of helpers (`DetachedRunProofs`):

* `TypeCorrect`, `Invariance`: `IInv` is inductive.
* `SettledRunsAreQuiet`: with a prompt starter, an outcome without
  `cleanup_pending` means that no process of the run is alive.
  `CancelledRunsAreQuiet`: for cancelled runs that holds whatever the timing.
* `CompletedRunsSucceeded`, `OutcomesAreFinal`, `CancellationWins`,
  `DebtsAreHonest`, `StaleVerdictsAreTrue`.
* `RunsKeepTheContract`: every step of a run with a prompt starter is a step of
  `RunContract` or leaves its variables alone.

The argument. No property above is inductive, because a cleanup verdict is
obtained without the lock and acted upon later. `IInv` adds what makes that safe:
an actor that holds a verdict TRUE has it about a run for which nobody can launch
Agy any more: the scan looks for the marker, which the worker itself carries, so
TRUE also means that no worker is alive. For a canceller no later worker matters,
because it marked the record before it scanned and `ClaimRun` claims queued runs
only (`ClientInv`: while a caller is in a cancelling branch the run is decided;
`WorkerInv`: before the launch no process was born). For the starter that gives up,
and for a poller that gives up on a queued run, it is so because no worker is alive
and none will be spawned (`NoMoreLaunches`). For the poller this needs the
assumption `PromptSpawn`, that the five seconds of grace are not over before `Popen`
returns: without it a worker that is running can be declared exited, as
`run_slow_starter` shows. The remaining parts say
that helpers are born after Agy (`TreeInv`) and that the record owes a cleanup only
when it is settled (`RecordInv`).

For any number of watches of a repository, callers and monitors, every multiplexer and
every crash (`WatchRunProofs`):

* `WatchInvariance`: `WatchInv` is inductive. Callers and monitors are busy only with
  watches whose start returned, and who is about to give a lease back has seen the watch
  settled (`ObserversFit`); no runner exists before the launch, and it publishes one
  exit as it ends (`RunnersFit`); a runner that holds the watch lock writes back the
  status the record has, unless the start has failed meanwhile (`RecordsFit`).
* `LeasesAreExclusive`: a lease is taken over only from a watch that is not running, and
  given back only by somebody who knows that the watch it names is settled or not
  admitted; a settled record cannot become running again while its start is admitted,
  because everybody but the failing start writes it under the lock.
* `CompletedWatchesSucceeded`; `WatchOutcomesAreFinal`, assuming that starts do not raise
  after the pane exists (`watch_revived` shows that it must); `MonitorsHonorExits`,
  assuming that the multiplexer answers rightly.
* `WatchesKeepTheContract`: every step is a step of `WatchContract` or leaves its
  variables alone. One lemma per process (`StarterImplements`, `RunnerImplements`,
  `ObserverImplements`) maps each action to an action of the contract. Admission uses
  `LeaseIsExclusive`; a decision uses that a settled record is not settled again; and
  `RecordsFit` says exactly when a runner writes back something else than the record
  holds, in either of its writes: when it read running and its start has raised since and
  written failed.

For any number of profiles, runs and administrators (`ProfileLifecycleProofs`):

* `LifecycleInvariance`: `LifecycleInv` is inductive. Its core, `CoreInv`, says that
  leases exclude additions and removals from runs (`Leases`), that a run whose
  launcher holds the lease has verified an incarnation under it, which is still the
  registered one (`RunsVerified`), and how far a removal is when its home is staged or
  its name gone (`RemovalsInOrder`). The lease is what makes the second part
  inductive: whoever changes an incarnation excludes the run.
* `RunsKeepProfiles` follows from it, for as long as the launcher holds the lease.
  `HomesAreOwn` follows from `HomesFit`: a home and a staged home hold nothing but the
  registered incarnation's data and what strays of the name have written. It assumes
  nothing of launchers: which of them left an Agy behind is what `strays` records.
  `CooldownsStay` needs `CooldownsFit` (what failed has a cooldown, also while it is
  disabled) and assumes that no run is a watch; `profile_watched` shows that it must.
* `RegisteredProfilesKeepData`: the action property, assuming that no name continues
  another one; `profile_nested` shows that it must. Nothing is assumed of launchers.

For any number of calls and keys (`IdempotentStartProofs`): `CallersAgree` and
`KeysHaveOneWorker`, from `StartInv`: whoever is between the lookup and the write of a
key holds its lock and has found no run for it; a run that was handed out or started
is the run of its key until its directory is deleted. A late poll may settle a run under its
worker; it never makes a run claimable again, which is what a second worker would need.

For any number of writers and power failures (`AtomicStoreProofs`): `RecordsAreWhole`,
`AnsweredUpdatesStay`, `RaisedUpdatesAreNot` and `StoreIsAtomic`, the refinement of
`AtomicRecord`. `StoreInv` says that who writes holds the lock, that a temporary file
is the record and the writer's own update, that it is on the disk when it is renamed,
and that every file the name may refer to after a power failure is complete and
older than the record.

For any text, any set of page sizes and any speed of the writer (`OutputPagingProofs`):
`LogPagesJoin`, `EndsAreFinal` and `PagesBringOn`, from `PagingInv`: the reader stands at
a boundary; what it measured of a log is still there, since logs only grow; a terminal
status it has seen means that the writer is done, unless the output is among those the
code leaves unfinished; and it asks for pages of at least four bytes. That a page brings
the reader on follows from the last point and `PagingAssumption`: between the reader and
four bytes further lies a boundary. `PagesBringOn` is the descent behind
`ReaderFinishes`, whose liveness is left to TLC.

For any set of files, calls, edits, errors and kills (`SettingsSyncProofs`):
`SyncsBringAgreement` (of calls that found the user's directory) and `SettingsGoForward`,
from `SyncInv`. It says that whoever is between the first link and the last copy holds `.sync.lock`
(`LockHeld`), that a copy is never newer than its original (`CopiesFollow`), that what a
call has read is not older than the copy it will replace (`InHand`), and
how far each undisturbed call is: what it has dealt with agrees with the originals
(`Progress`). The last part is the hard one, since a second call may hold an older
original in its hands when the first is done: `ReadsCurrent` says that it cannot, unless
the user has edited in between, and then the first call counts as disturbed.

For any number of names, callers and tries (`PartsProofs`): `RotationIsFair`, because what
lies between the cursor and a waiting profile in the cyclic order has not passed it in this
round, and `RotationOverlooksFew`, because a call that may overlook a profile once more has a
try left for every time it has not done so (`RotationInvariance`). `ProfilesTakeTurns` brings
both to `ProfileLifecycle`, whose names need to be among the places of the rotation, whose
runs are its callers and whose `MaxRetries` are its tries. A step that selects is a
`SelectsTurn` (`SelectingMoves`). A step of `select_profile` that selects nothing lets the
caller arrive, depart or try again (`CallFollows`). Any other step leaves the cursor and the
calls alone and changes the record of one name at most (`AdminMovesOne`, `SwitchMovesOne`,
`BookingMoves`), which thereby becomes ready, is seen, becomes unready, is unregistered, or
stays what it was for the rotation (`MoveFollows`).

For any number of processes (`PartsProofs`): `VerdictsMissLateOnly` and
`LaunchersLeaveLateOnly`, because what is alive is known, still to be visited, or late
(`TreeInvariance`).

`PartsBehave` says that the composition that the run `parts` checks behaves as each of
its parts may, so that what the run finds is about them; `PartsInvariance` that all
inductive invariants hold beside each other.

The assumptions on constants are those of the modules (`WatchAssumption`,
`PagingAssumption` and their like): that names stand for different things, that flags are
Booleans, that bounds are numbers, that text is UTF-8. TLC evaluates each of them.

Only model-checked: liveness (`EveryRunSettles`, `PendingClears`, `WatchSettles`,
`AnsweredRunSettles`, `ReaderFinishes`, `SyncEnds`), which is out of the prover's reach.
Every invariant and every action property of a passing run is stated by a theorem; some
theorems have a hypothesis on the constants, which the runs that violate the same or a
kindred property justify.

## Disagreements found while modelling

Each has a run that shows the behaviour; the quotations are in `PROJECT.json`.

1. `run_slow_starter`: `get_run_status` judges a queued run by its age alone; a
   worker spawned after the cleanup's scan and claimed before the failing write is
   declared exited while it runs (`runs.py:560`).
2. `watch_interleaved`: `cancel_watch_run` gives the lease back before it stops
   Agy (`watches.py:1170`).
3. `watch_caller_exit`: `get_watch_status` does not look for `.exit` again after
   it found the pane closed, as the monitor does (`watches.py:1116`).
4. `watch_revived`: `start_watch_run` writes the failed record without the lock
   (`watches.py:1085`), and a runner that has read it before writes running over it, when it
   boots (`watch_runner.py:170`) or, with Agy at work, when it adds the conversation id
   (`watch_runner.py:122`).
5. `profile_watched`: `finalize_watch` books a failure without a cooldown
   (`watches.py:641`), after which `is_available` is false for good.
6. `profile_nested`: the pattern `.deleting_<name>_*` also finds the staged homes
   of profiles whose name continues with an underscore (`profiles.py:505`).

Behaviour of the models, stated here and not by a run:

* A runner that has not launched Agy when its watch is cancelled has no marked
  process to kill; in a custom multiplexer, whose pane is not closed, it launches
  Agy afterwards (`watch_runner.py:222` does not look at the status).
* `record_profile_selection` verifies the incarnation under the lock and returns a
  record read after it (`profiles.py:719`): a profile recreated in between is run
  in place of the one that was selected.
* The lease of a run does not cover its Agy to the end: the except clause of `run_worker`
  kills the tree outside the block that holds the lease (`worker.py:72`, 291-302), a cleanup
  that is not verified ends the block with Agy alive (`worker.py:212`), and a killed launcher
  loses the lease at once (`profiles.py:372`). The profile can then be removed, and another
  one made in its place, with that Agy writing to the home.
* `select_profile` reads the clock once, before it waits up to five seconds for the lock of
  the cursor, and uses it in every retry (`routing.py:48`): a profile whose cooldown ended
  meanwhile is overlooked and may be passed twice by the same other one, in two rounds.
* `sync_profile_settings` returns at once when the user has no `.gemini`
  (`profiles.py:762`); links to skills that are gone stay in the profile until there is one.
* An authentication failure is a cooldown of a day (`config.py:67`), after which
  the profile is selected again; `docs/architecture/overview.md:126` says that it
  stays out until `magy profile auth`.
* `docs/architecture/overview.md:138` describes marker files the code does not
  write; the models follow the code.
* `_kill_process_tree` looks for the processes of the run once more after SIGKILL and
  does not signal what it finds: a process that was born late and has left the group
  outlives the call (`LauncherLeavesLateOnly` says that only such do), while its docstring
  (`profiles.py:1468`) says that it "ensures all descendants are dead".
* A marked process that forks and exits between the listing of the pids and the read of
  its environment hides its child from that listing; a verdict TRUE may be about a tree
  whose newest process is alive (`VerdictMissesLateOnly`). `DetachedRun` takes a scan
  for one step.
* A synchronisation keeps errors of single files and links to itself: it returns as if
  it were done although one was skipped (`DoneMeansSynced` excepts such calls). Files
  deleted from the user's directory stay in the profile.
* Pages of a diff that were read before the watch settled may come from a diff that a
  second finalizer wrote again (`Known` in `OutputPaging`).
* When Agy is stopped, and when it goes on, the launcher asks which group owns the
  terminal and hands it over in a second call (`profiles.py:1636-1640`); in between the
  shell may have given it to another job.

## Not modelled

* `agy.py` (executable discovery, diagnostics, classification of outputs) and
  `config.py`: pure functions of the file system and of text. `ProfileLifecycle` takes
  the classification as an arbitrary outcome.
* `cli.py`, `mcp_server.py`, `headful.py`: translation of arguments; they keep no state,
  and what they call is modelled.
* Terminal job control in `run_in_profile`, environment building, file permissions and
  the Windows branches.
* Of watches: `continue_watch_id` (it copies a conversation id into a new watch), the
  rendering of the stream, the value of the conversation id, and git snapshots beyond their
  success.
* What links, replaced directories and odd file types could bring into a profile during a
  synchronisation: the code refuses them in single steps, which its tests exercise.
* External profiles, which magy neither stages nor deletes.

## Plan

What is left, in this order:

1. An abstract specification of keyed starts (one run per key and epoch of its
   directory, callers that learn it), and the proof that `IdempotentStart` implements it.
2. The descents behind `SyncEnds` and `EveryRunSettles`, as action properties: every
   step of a call or a worker brings it nearer to its end.
3. The hand-over of the terminal in `run_in_profile` (`profiles.py:1601-1650`), where Agy,
   the launcher and the shell change the foreground group between two looks.
