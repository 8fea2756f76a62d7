------------------------- MODULE DetachedRunProofs -------------------------
(***************************************************************************)
(* Proofs about DetachedRun for every set of callers and every set of      *)
(* helper processes.  IInv is inductive: one lemma per actor, one step per *)
(* action of that actor, one step per part of IInv where a single call of  *)
(* the prover does not do.  The action properties, and that DetachedRun    *)
(* implements RunContract, follow from it at the end of the module.        *)
(***************************************************************************)
EXTENDS DetachedRunRefinement, TLAPS

USE HelpersAssumption, PromptSpawnAssumption
  DEF Terminal, Active, Statuses, Procs, KillPCs, ClientPCs, StarterPCs, WorkerPCs

\* The initial state satisfies every part of the inductive invariant.
LEMMA InitInv == Init => IInv
<1> SUFFICES ASSUME Init PROVE IInv
  OBVIOUS
<1>1. TypeOK
  BY DEF Init, TypeOK
<1>2. Unborn /\ Quiet
  BY DEF Init, Unborn, Quiet
<1>3. StarterInv
  BY <1>2, Zenon DEF Init, StarterInv
<1>4. WorkerInv
  BY <1>2 DEF Init, WorkerInv
<1>5. ClientInv
  BY DEF Init, ClientInv
<1>6. TreeInv
  BY <1>2 DEF Init, TreeInv
<1>7. RecordInv
  BY DEF Init, RecordInv, CancelledIsQuiet, QuietWhenSettled, CompletedMeansSuccess
<1> QED
  BY <1>1, <1>3, <1>4, <1>5, <1>6, <1>7 DEF IInv

\* Writing a status and a cleanup verdict keeps the record well formed.
LEMMA SettleType ==
  ASSUME TypeOK, NEW outcome \in Statuses, NEW pending \in BOOLEAN, Settle(outcome, pending)
  PROVE  state' \in [status : Statuses, cleanup_pending : BOOLEAN, worker_pid : BOOLEAN]
BY DEF TypeOK, Settle

\* No step of start_run breaks the invariant.
LEMMA StarterInvariance ==
  ASSUME IInv, StarterStep
  PROVE  IInv'
<1> USE DEF IInv
<1>1. CASE CreateRun
  BY <1>1 DEF CreateRun,
         TypeOK, StarterInv, WorkerInv, ClientInv, TreeInv, RecordInv,
         Decided, Unborn, NoMoreLaunches, Quiet, CancelledIsQuiet, QuietWhenSettled, CompletedMeansSuccess
<1>2. CASE SpawnWorker
  BY <1>2 DEF SpawnWorker,
         TypeOK, StarterInv, WorkerInv, ClientInv, TreeInv, RecordInv,
         Decided, Unborn, NoMoreLaunches, Quiet, CancelledIsQuiet, QuietWhenSettled, CompletedMeansSuccess
<1>3. CASE SpawnFails
  BY <1>3 DEF SpawnFails,
         TypeOK, StarterInv, WorkerInv, ClientInv, TreeInv, RecordInv,
         Decided, Unborn, NoMoreLaunches, Quiet, CancelledIsQuiet, QuietWhenSettled, CompletedMeansSuccess
<1>4. CASE PublishWorker
  <2> USE <1>4 DEF PublishWorker
  <2>1. TypeOK'
    BY DEF TypeOK
  <2>2. Quiet' = Quiet /\ Unborn' = Unborn
    BY DEF Quiet, Unborn
  <2>4. StarterInv'
    BY <2>2 DEF TypeOK, StarterInv, NoMoreLaunches
  <2>5. WorkerInv'
    BY <2>2 DEF TypeOK, WorkerInv
  <2>6. ClientInv'
    BY <2>2 DEF TypeOK, ClientInv, Decided, NoMoreLaunches
  <2>7. TreeInv'
    BY <2>2 DEF TypeOK, TreeInv
  <2>8. RecordInv'
    BY <2>2 DEF TypeOK, StarterInv, WorkerInv, ClientInv, RecordInv,
       CancelledIsQuiet, QuietWhenSettled, CompletedMeansSuccess
  <2> QED
    BY <2>1, <2>4, <2>5, <2>6, <2>7, <2>8
<1>5. ASSUME NEW written \in BOOLEAN, PublishFails(written) PROVE IInv'
  BY <1>5 DEF PublishFails,
         TypeOK, StarterInv, WorkerInv, ClientInv, TreeInv, RecordInv,
         Decided, Unborn, NoMoreLaunches, Quiet, CancelledIsQuiet, QuietWhenSettled, CompletedMeansSuccess
<1>6. ASSUME NEW ok \in BOOLEAN, AbortCleanup(ok) PROVE IInv'
  BY <1>6 DEF AbortCleanup, CleanupReport, WorkerAlive,
         TypeOK, StarterInv, WorkerInv, ClientInv, TreeInv, RecordInv,
         Decided, Unborn, NoMoreLaunches, Quiet, CancelledIsQuiet, QuietWhenSettled, CompletedMeansSuccess
<1>7. CASE StarterFailsRun
  <2> USE <1>7 DEF StarterFailsRun, FailIfActive, Settle
  <2>1. TypeOK'
    BY DEF TypeOK
  <2>2. Quiet' = Quiet /\ Unborn' = Unborn
    BY DEF Quiet, Unborn
  <2>4. StarterInv'
    BY <2>2 DEF TypeOK, StarterInv, NoMoreLaunches
  <2>5. WorkerInv'
    BY <2>2 DEF TypeOK, WorkerInv
  <2>6. ClientInv'
    BY <2>2 DEF TypeOK, ClientInv, Decided, NoMoreLaunches
  <2>7. TreeInv'
    BY <2>2 DEF TypeOK, TreeInv
  <2>8. RecordInv'
    BY <2>2 DEF TypeOK, StarterInv, WorkerInv, ClientInv, RecordInv,
       CancelledIsQuiet, QuietWhenSettled, CompletedMeansSuccess
  <2> QED
    BY <2>1, <2>4, <2>5, <2>6, <2>7, <2>8
<1> QED
  BY <1>1, <1>2, <1>3, <1>4, <1>5, <1>6, <1>7 DEF StarterStep

\* No step of run_worker breaks the invariant.
LEMMA WorkerInvariance ==
  ASSUME IInv, WorkerStep
  PROVE  IInv'
<1> USE DEF IInv
<1>1. CASE ClaimRun
  <2> USE <1>1 DEF ClaimRun, WorkerGoes
  <2>1. TypeOK'
    BY DEF TypeOK
  <2>2. Quiet' = Quiet /\ Unborn' = Unborn
    BY DEF Quiet, Unborn
  <2>4. StarterInv'
    BY <2>2 DEF TypeOK, StarterInv, NoMoreLaunches
  <2>5. WorkerInv'
    BY <2>2 DEF TypeOK, WorkerInv
  <2>6. ClientInv'
    BY <2>2 DEF TypeOK, ClientInv, Decided, NoMoreLaunches
  <2>7. TreeInv'
    BY <2>2 DEF TypeOK, TreeInv
  <2>8. RecordInv'
    BY <2>2 DEF TypeOK, StarterInv, WorkerInv, ClientInv, RecordInv,
       CancelledIsQuiet, QuietWhenSettled, CompletedMeansSuccess
  <2> QED
    BY <2>1, <2>4, <2>5, <2>6, <2>7, <2>8
<1>2. CASE ConfigInvalid
  BY <1>2 DEF ConfigInvalid, WorkerGoes, FailIfActive, Settle,
         TypeOK, StarterInv, WorkerInv, ClientInv, TreeInv, RecordInv,
         Decided, Unborn, NoMoreLaunches, Quiet, CancelledIsQuiet, QuietWhenSettled, CompletedMeansSuccess
<1>3. CASE SetupFails
  BY <1>3 DEF SetupFails,
         TypeOK, StarterInv, WorkerInv, ClientInv, TreeInv, RecordInv,
         Decided, Unborn, NoMoreLaunches, Quiet, CancelledIsQuiet, QuietWhenSettled, CompletedMeansSuccess
<1>4. CASE LaunchAgy
  BY <1>4 DEF LaunchAgy, WorkerGoes,
         TypeOK, StarterInv, WorkerInv, ClientInv, TreeInv, RecordInv,
         Decided, Unborn, NoMoreLaunches, Quiet, CancelledIsQuiet, QuietWhenSettled, CompletedMeansSuccess
<1>5. CASE LaunchRefused
  BY <1>5 DEF LaunchRefused, WorkerGoes,
         TypeOK, StarterInv, WorkerInv, ClientInv, TreeInv, RecordInv,
         Decided, Unborn, NoMoreLaunches, Quiet, CancelledIsQuiet, QuietWhenSettled, CompletedMeansSuccess
<1>6. CASE WaitReturns
  BY <1>6 DEF WaitReturns, WorkerGoes,
         TypeOK, StarterInv, WorkerInv, ClientInv, TreeInv, RecordInv,
         Decided, Unborn, NoMoreLaunches, Quiet, CancelledIsQuiet, QuietWhenSettled, CompletedMeansSuccess
<1>7. CASE WaitTimesOut
  <2> USE <1>7 DEF WaitTimesOut
  <2>1. TypeOK'
    BY DEF TypeOK
  <2>2. Quiet' = Quiet /\ Unborn' = Unborn
    BY DEF Quiet, Unborn
  <2>4. StarterInv'
    BY <2>2 DEF TypeOK, StarterInv, NoMoreLaunches
  <2>5. WorkerInv'
    BY <2>2 DEF TypeOK, WorkerInv
  <2>6. ClientInv'
    BY <2>2 DEF TypeOK, ClientInv, Decided, NoMoreLaunches
  <2>7. TreeInv'
    BY <2>2 DEF TypeOK, TreeInv
  <2>8. RecordInv'
    BY <2>2 DEF TypeOK, StarterInv, WorkerInv, ClientInv, RecordInv,
       CancelledIsQuiet, QuietWhenSettled, CompletedMeansSuccess
  <2> QED
    BY <2>1, <2>4, <2>5, <2>6, <2>7, <2>8
<1>8. ASSUME NEW ok \in BOOLEAN, ReapTree(ok) PROVE IInv'
  <2> USE <1>8 DEF ReapTree, WorkerReport
  <2>1. TypeOK'
    BY DEF TypeOK
  <2>2. Quiet' = Quiet /\ Unborn' = Unborn
    BY DEF Quiet, Unborn
  <2>4. StarterInv'
    BY <2>2 DEF TypeOK, StarterInv, NoMoreLaunches
  <2>5. WorkerInv'
    BY <2>2 DEF TypeOK, WorkerInv
  <2>6. ClientInv'
    BY <2>2 DEF TypeOK, ClientInv, Decided, NoMoreLaunches
  <2>7. TreeInv'
    BY <2>2 DEF TypeOK, TreeInv
  <2>8. RecordInv'
    BY <2>2 DEF TypeOK, StarterInv, WorkerInv, ClientInv, RecordInv,
       CancelledIsQuiet, QuietWhenSettled, CompletedMeansSuccess
  <2> QED
    BY <2>1, <2>4, <2>5, <2>6, <2>7, <2>8
<1>9. ASSUME NEW ok \in BOOLEAN, UnwindTree(ok) PROVE IInv'
  <2> USE <1>9 DEF UnwindTree, WorkerReport
  <2>1. TypeOK'
    BY DEF TypeOK
  <2>2. Quiet' = Quiet /\ Unborn' = Unborn
    BY DEF Quiet, Unborn
  <2>4. StarterInv'
    BY <2>2 DEF TypeOK, StarterInv, NoMoreLaunches
  <2>5. WorkerInv'
    BY <2>2 DEF TypeOK, WorkerInv
  <2>6. ClientInv'
    BY <2>2 DEF TypeOK, ClientInv, Decided, NoMoreLaunches
  <2>7. TreeInv'
    BY <2>2 DEF TypeOK, TreeInv
  <2>8. RecordInv'
    BY <2>2 DEF TypeOK, StarterInv, WorkerInv, ClientInv, RecordInv,
       CancelledIsQuiet, QuietWhenSettled, CompletedMeansSuccess
  <2> QED
    BY <2>1, <2>4, <2>5, <2>6, <2>7, <2>8
<1>10. CASE Finalize
  <2> USE <1>10 DEF Finalize, WorkerGoes, Settle, Outcome
  <2>1. TypeOK'
    <3>1. Outcome \in Statuses
      BY DEF TypeOK, Outcome
    <3> QED
      BY <3>1 DEF TypeOK, Settle
  <2>2. Quiet' = Quiet /\ Unborn' = Unborn
    BY DEF Quiet, Unborn
  <2>4. StarterInv'
    BY <2>2 DEF TypeOK, StarterInv, NoMoreLaunches
  <2>5. WorkerInv'
    BY <2>2 DEF TypeOK, WorkerInv
  <2>6. ClientInv'
    BY <2>2 DEF TypeOK, ClientInv, Decided, NoMoreLaunches
  <2>7. TreeInv'
    BY <2>2 DEF TypeOK, TreeInv
  <2>8. RecordInv'
    <3>1. CASE state.status \notin Active
      BY <2>2, <3>1 DEF TypeOK, RecordInv, CancelledIsQuiet, QuietWhenSettled, CompletedMeansSuccess
    <3>2. CASE state.status \in Active /\ worker.ok
      BY <2>2, <3>2 DEF TypeOK, Settle, Outcome, WorkerInv, RecordInv,
         CancelledIsQuiet, QuietWhenSettled, CompletedMeansSuccess
    <3>3. CASE state.status \in Active /\ ~worker.ok
      BY <2>2, <3>3 DEF TypeOK, Settle, Outcome, WorkerInv, RecordInv,
         CancelledIsQuiet, QuietWhenSettled, CompletedMeansSuccess
    <3> QED
      BY <3>1, <3>2, <3>3 DEF TypeOK
  <2> QED
    BY <2>1, <2>4, <2>5, <2>6, <2>7, <2>8
<1>11. CASE FinalizeRaises
  BY <1>11 DEF FinalizeRaises, WorkerGoes,
         TypeOK, StarterInv, WorkerInv, ClientInv, TreeInv, RecordInv,
         Decided, Unborn, NoMoreLaunches, Quiet, CancelledIsQuiet, QuietWhenSettled, CompletedMeansSuccess
<1>12. CASE GiveUp
  <2> USE <1>12 DEF GiveUp, WorkerGoes, FailIfActive, Settle
  <2>1. TypeOK'
    BY DEF TypeOK
  <2>2. Quiet' = Quiet /\ Unborn' = Unborn
    BY DEF Quiet, Unborn
  <2>4. StarterInv'
    BY <2>2 DEF TypeOK, StarterInv, NoMoreLaunches
  <2>5. WorkerInv'
    BY <2>2 DEF TypeOK, WorkerInv
  <2>6. ClientInv'
    BY <2>2 DEF TypeOK, ClientInv, Decided, NoMoreLaunches
  <2>7. TreeInv'
    BY <2>2 DEF TypeOK, TreeInv
  <2>8. RecordInv'
    BY <2>2 DEF TypeOK, StarterInv, WorkerInv, ClientInv, RecordInv,
       CancelledIsQuiet, QuietWhenSettled, CompletedMeansSuccess
  <2> QED
    BY <2>1, <2>4, <2>5, <2>6, <2>7, <2>8
<1> QED
  BY <1>1, <1>2, <1>3, <1>4, <1>5, <1>6, <1>7, <1>8, <1>9, <1>10, <1>11, <1>12 DEF WorkerStep

\* No step of get_run_status or cancel_run breaks the invariant.
LEMMA ClientInvariance ==
  ASSUME IInv, NEW c \in Clients, ClientStep(c)
  PROVE  IInv'
<1> USE DEF IInv
<1>1. CASE Poll(c)
  BY <1>1 DEF Poll, ClientGoes, PollTarget,
         TypeOK, StarterInv, WorkerInv, ClientInv, TreeInv, RecordInv,
         Decided, Unborn, NoMoreLaunches, Quiet, CancelledIsQuiet, QuietWhenSettled, CompletedMeansSuccess
<1>2. CASE RequestCancel(c)
  BY <1>2 DEF RequestCancel, ClientGoes,
         TypeOK, StarterInv, WorkerInv, ClientInv, TreeInv, RecordInv,
         Decided, Unborn, NoMoreLaunches, Quiet, CancelledIsQuiet, QuietWhenSettled, CompletedMeansSuccess
<1>3. ASSUME NEW ok \in BOOLEAN, Cleanup(c, ok) PROVE IInv'
  BY <1>3 DEF Cleanup, CleanupReport, WorkerAlive,
         TypeOK, StarterInv, WorkerInv, ClientInv, TreeInv, RecordInv,
         Decided, Unborn, NoMoreLaunches, Quiet, CancelledIsQuiet, QuietWhenSettled, CompletedMeansSuccess
<1>4. CASE SettleCancel(c)
  <2> USE <1>4 DEF SettleCancel, ClientGoes, Settle
  <2>1. TypeOK'
    <3>1. client' \in [Clients -> [pc : ClientPCs, ok : BOOLEAN]]
      BY DEF TypeOK
    <3>2. state' \in [status : Statuses, cleanup_pending : BOOLEAN, worker_pid : BOOLEAN]
      BY SettleType DEF TypeOK
    <3> QED
      BY <3>1, <3>2 DEF TypeOK
  <2>2. Quiet' = Quiet /\ Unborn' = Unborn
    BY DEF Quiet, Unborn
  <2>4. StarterInv'
    BY <2>2 DEF TypeOK, StarterInv, NoMoreLaunches
  <2>5. WorkerInv'
    BY <2>2 DEF TypeOK, WorkerInv
  <2>6. ClientInv'
    BY <2>2 DEF TypeOK, ClientInv, Decided, NoMoreLaunches
  <2>7. TreeInv'
    BY <2>2 DEF TypeOK, TreeInv
  <2>8. RecordInv'
    BY <2>2 DEF TypeOK, StarterInv, WorkerInv, ClientInv, RecordInv,
       CancelledIsQuiet, QuietWhenSettled, CompletedMeansSuccess
  <2> QED
    BY <2>1, <2>4, <2>5, <2>6, <2>7, <2>8
<1>5. CASE ClearPending(c)
  <2> USE <1>5 DEF ClearPending, ClientGoes
  <2>1. TypeOK'
    BY DEF TypeOK
  <2>2. Quiet' = Quiet /\ Unborn' = Unborn
    BY DEF Quiet, Unborn
  <2>4. StarterInv'
    BY <2>2 DEF TypeOK, StarterInv, NoMoreLaunches
  <2>5. WorkerInv'
    BY <2>2 DEF TypeOK, WorkerInv
  <2>6. ClientInv'
    BY <2>2 DEF TypeOK, ClientInv, Decided, NoMoreLaunches
  <2>7. TreeInv'
    BY <2>2 DEF TypeOK, TreeInv
  <2>8. RecordInv'
    BY <2>2 DEF TypeOK, StarterInv, WorkerInv, ClientInv, RecordInv,
       CancelledIsQuiet, QuietWhenSettled, CompletedMeansSuccess
  <2> QED
    BY <2>1, <2>4, <2>5, <2>6, <2>7, <2>8
<1>6. CASE FailStale(c)
  <2> USE <1>6 DEF FailStale, ClientGoes, FailIfActive, Settle
  <2>1. TypeOK'
    BY DEF TypeOK
  <2>2. Quiet' = Quiet /\ Unborn' = Unborn
    BY DEF Quiet, Unborn
  <2>4. StarterInv'
    BY <2>2 DEF TypeOK, StarterInv, NoMoreLaunches
  <2>5. WorkerInv'
    BY <2>2 DEF TypeOK, WorkerInv
  <2>6. ClientInv'
    BY <2>2 DEF TypeOK, ClientInv, Decided, NoMoreLaunches
  <2>7. TreeInv'
    BY <2>2 DEF TypeOK, TreeInv
  <2>8. RecordInv'
    BY <2>2 DEF TypeOK, StarterInv, WorkerInv, ClientInv, RecordInv,
       CancelledIsQuiet, QuietWhenSettled, CompletedMeansSuccess
  <2> QED
    BY <2>1, <2>4, <2>5, <2>6, <2>7, <2>8
<1>7. ASSUME NEW killed \in SUBSET Procs, ProbeWorker(c, killed) PROVE IInv'
  <2> USE <1>7 DEF ProbeWorker, ClientGoes, Settle, WorkerAlive
  <2>1. TypeOK'
    <3>1. client' \in [Clients -> [pc : ClientPCs, ok : BOOLEAN]]
      BY DEF TypeOK
    <3>2. state' \in [status : Statuses, cleanup_pending : BOOLEAN, worker_pid : BOOLEAN]
      BY SettleType DEF TypeOK
    <3>3. proc' \in [Procs -> {"unborn", "live", "dead"}] /\ agyExit' \in {"none", "ok", "fail"}
      BY DEF TypeOK
    <3> QED
      BY <3>1, <3>2, <3>3 DEF TypeOK
  <2>2. Quiet => Quiet'
    BY DEF Quiet, TypeOK
  <2>3. Unborn => Unborn'
    BY DEF Live, Unborn, TypeOK
  <2>4. StarterInv'
    BY <2>2, <2>3 DEF TypeOK, StarterInv, NoMoreLaunches
  <2>5. WorkerInv'
    BY <2>2, <2>3 DEF TypeOK, WorkerInv
  <2>6. ClientInv'
    BY <2>2, <2>3 DEF TypeOK, ClientInv, Decided, NoMoreLaunches
  <2>7. TreeInv'
    BY <2>2, <2>3 DEF TypeOK, TreeInv, Unborn, Live
  <2>8. RecordInv'
    <3>1. CASE state' = state /\ Quiet' = Quiet
      BY <3>1 DEF TypeOK, RecordInv, CancelledIsQuiet, QuietWhenSettled, CompletedMeansSuccess
    <3>2. CASE state.status \in Active /\ Settle("failed", TRUE)
      BY <3>2 DEF TypeOK, RecordInv, CancelledIsQuiet, QuietWhenSettled, CompletedMeansSuccess
    <3>3. CASE state.status \in Active /\ Settle("failed", killed # Live)
      <4>1. killed = Live /\ state.status \in Active /\ state.worker_pid /\ ~WorkerAlive => Quiet'
        BY DEF TypeOK, Quiet, Live
      <4> QED
        BY <3>3, <4>1 DEF TypeOK, RecordInv, CancelledIsQuiet, QuietWhenSettled, CompletedMeansSuccess
    <3> QED
      BY <3>1, <3>2, <3>3 DEF Quiet
  <2> QED
    BY <2>1, <2>4, <2>5, <2>6, <2>7, <2>8
<1> QED
  BY <1>1, <1>2, <1>3, <1>4, <1>5, <1>6, <1>7 DEF ClientStep

\* No crash, signal, exit or passing of time breaks the invariant.
LEMMA EnvironmentInvariance ==
  ASSUME IInv, Environment
  PROVE  IInv'
<1> USE DEF IInv
<1>1. CASE StarterCrashes
  BY <1>1 DEF StarterCrashes,
         TypeOK, StarterInv, WorkerInv, ClientInv, TreeInv, RecordInv,
         Decided, Unborn, NoMoreLaunches, Quiet, CancelledIsQuiet, QuietWhenSettled, CompletedMeansSuccess
<1>2. CASE WorkerDies
  BY <1>2 DEF WorkerDies, WorkerGoes, WorkerAlive,
         TypeOK, StarterInv, WorkerInv, ClientInv, TreeInv, RecordInv,
         Decided, Unborn, NoMoreLaunches, Quiet, CancelledIsQuiet, QuietWhenSettled, CompletedMeansSuccess
<1>3. CASE WorkerInterrupted
  <2> USE <1>3 DEF WorkerInterrupted, WorkerGoes
  <2>1. TypeOK'
    <3>1. worker' \in [pc : WorkerPCs, ok : BOOLEAN, timed_out : BOOLEAN]
      BY DEF TypeOK
    <3> QED
      BY <3>1 DEF TypeOK
  <2>2. Quiet' = Quiet /\ Unborn' = Unborn
    BY DEF Quiet, Unborn
  <2>4. StarterInv'
    BY <2>2 DEF TypeOK, StarterInv, NoMoreLaunches
  <2>5. WorkerInv'
    BY <2>2 DEF TypeOK, WorkerInv
  <2>6. ClientInv'
    BY <2>2 DEF TypeOK, ClientInv, Decided, NoMoreLaunches
  <2>7. TreeInv'
    BY <2>2 DEF TypeOK, TreeInv
  <2>8. RecordInv'
    BY <2>2 DEF TypeOK, StarterInv, WorkerInv, ClientInv, RecordInv,
       CancelledIsQuiet, QuietWhenSettled, CompletedMeansSuccess
  <2> QED
    BY <2>1, <2>4, <2>5, <2>6, <2>7, <2>8
<1>4. CASE GraceExpires
  BY <1>4 DEF GraceExpires,
         TypeOK, StarterInv, WorkerInv, ClientInv, TreeInv, RecordInv,
         Decided, Unborn, NoMoreLaunches, Quiet, CancelledIsQuiet, QuietWhenSettled, CompletedMeansSuccess
<1>5. ASSUME NEW c \in Clients, ClientCrashes(c) PROVE IInv'
  BY <1>5 DEF ClientCrashes, ClientGoes,
         TypeOK, StarterInv, WorkerInv, ClientInv, TreeInv, RecordInv,
         Decided, Unborn, NoMoreLaunches, Quiet, CancelledIsQuiet, QuietWhenSettled, CompletedMeansSuccess
<1>6. ASSUME NEW p \in Procs, Strike(p) PROVE IInv'
  BY <1>6 DEF Strike, CleanupRunning, Live,
         TypeOK, StarterInv, WorkerInv, ClientInv, TreeInv, RecordInv,
         Decided, Unborn, NoMoreLaunches, Quiet, CancelledIsQuiet, QuietWhenSettled, CompletedMeansSuccess
<1>7. ASSUME NEW code \in {"ok", "fail"}, AgyExits(code) PROVE IInv'
  BY <1>7 DEF AgyExits, Live,
         TypeOK, StarterInv, WorkerInv, ClientInv, TreeInv, RecordInv,
         Decided, Unborn, NoMoreLaunches, Quiet, CancelledIsQuiet, QuietWhenSettled, CompletedMeansSuccess
<1>8. ASSUME NEW h \in Helpers, HelperForks(h) PROVE IInv'
  BY <1>8 DEF HelperForks, Live,
         TypeOK, StarterInv, WorkerInv, ClientInv, TreeInv, RecordInv,
         Decided, Unborn, NoMoreLaunches, Quiet, CancelledIsQuiet, QuietWhenSettled, CompletedMeansSuccess
<1>9. ASSUME NEW h \in Helpers, HelperExits(h) PROVE IInv'
  BY <1>9 DEF HelperExits, Live,
         TypeOK, StarterInv, WorkerInv, ClientInv, TreeInv, RecordInv,
         Decided, Unborn, NoMoreLaunches, Quiet, CancelledIsQuiet, QuietWhenSettled, CompletedMeansSuccess
<1> QED
  BY <1>1, <1>2, <1>3, <1>4, <1>5, <1>6, <1>7, <1>8, <1>9 DEF Environment


\* IInv holds in every reachable state.
THEOREM Invariance == Spec => []IInv
<1>1. Init => IInv
  BY InitInv
<1>2. IInv /\ [Next]_vars => IInv'
  <2> SUFFICES ASSUME IInv, [Next]_vars PROVE IInv'
    OBVIOUS
  <2>1. CASE StarterStep
    BY <2>1, StarterInvariance
  <2>2. CASE WorkerStep
    BY <2>2, WorkerInvariance
  <2>3. ASSUME NEW c \in Clients, ClientStep(c) PROVE IInv'
    BY <2>3, ClientInvariance
  <2>4. CASE Environment
    BY <2>4, EnvironmentInvariance
  <2>5. CASE UNCHANGED vars
    BY <2>5 DEF vars, IInv, TypeOK, StarterInv, WorkerInv, ClientInv, TreeInv, RecordInv,
       Decided, Unborn, NoMoreLaunches, Quiet, CancelledIsQuiet, QuietWhenSettled,
       CompletedMeansSuccess
  <2> QED
    BY <2>1, <2>2, <2>3, <2>4, <2>5 DEF Next
<1> QED
  BY <1>1, <1>2, PTL DEF Spec

\* Every variable of a run keeps its type.
THEOREM TypeCorrect == Spec => []TypeOK
<1>1. IInv => TypeOK
  BY DEF IInv
<1> QED
  BY <1>1, Invariance, PTL

\* With a prompt starter no settled run without a pending cleanup has a live
\* Agy process, for any number of pollers and cancellers.
THEOREM SettledRunsAreQuiet ==
  ASSUME PromptSpawn PROVE Spec => []QuietWhenSettled
<1>1. IInv => QuietWhenSettled
  BY DEF IInv, RecordInv
<1> QED
  BY <1>1, Invariance, PTL

\* A run cancelled without a pending cleanup has no live Agy process; the
\* starter's timing does not matter.
THEOREM CancelledRunsAreQuiet == Spec => []CancelledIsQuiet
<1>1. IInv => CancelledIsQuiet
  BY DEF IInv, RecordInv
<1> QED
  BY <1>1, Invariance, PTL

\* A completed run is one whose Agy exited with 0, in time and with its tree gone.
THEOREM CompletedRunsSucceeded == Spec => []CompletedMeansSuccess
<1>1. IInv => CompletedMeansSuccess
  BY DEF IInv, RecordInv
<1> QED
  BY <1>1, Invariance, PTL

(***************************************************************************)
(* What a step of a detached run may do, proved from the invariant.        *)
(***************************************************************************)
\* How a single step may change the status and the cleanup debt of a run.
RecordMoves ==
    /\ state.status \in Terminal => state'.status = state.status
    /\ state.status = "cancelling" => state'.status \in {"cancelling", "cancelled"}
    /\ state'.cleanup_pending /\ ~state.cleanup_pending => state.status \notin Terminal
    /\ state.cleanup_pending /\ ~state'.cleanup_pending => Quiet'

\* start_run moves the record only forward.
LEMMA StarterMoves == ASSUME IInv, StarterStep PROVE RecordMoves
BY DEF RecordMoves, IInv, TypeOK, StarterInv, RecordInv, StarterStep, CreateRun, SpawnWorker,
   SpawnFails, PublishWorker, PublishFails, AbortCleanup, StarterFailsRun, FailIfActive, Settle

\* run_worker moves the record only forward.
LEMMA WorkerMoves == ASSUME IInv, WorkerStep PROVE RecordMoves
BY DEF RecordMoves, IInv, TypeOK, StarterInv, RecordInv, WorkerStep, ClaimRun, ConfigInvalid,
   SetupFails, LaunchAgy, LaunchRefused, WaitReturns, WaitTimesOut, ReapTree, UnwindTree,
   Finalize, FinalizeRaises, GiveUp, FailIfActive, Settle

\* get_run_status and cancel_run move the record only forward.
LEMMA ClientMoves == ASSUME IInv, NEW c \in Clients, ClientStep(c) PROVE RecordMoves
BY DEF RecordMoves, IInv, TypeOK, StarterInv, RecordInv, ClientInv, ClientStep, Poll,
   RequestCancel, Cleanup, SettleCancel, ClearPending, FailStale, ProbeWorker, FailIfActive,
   Settle, Quiet

\* Crashes, signals and exits do not touch the record.
LEMMA EnvironmentMoves == ASSUME IInv, Environment PROVE RecordMoves
<1>1. state' = state
  BY DEF Environment, StarterCrashes, WorkerDies, WorkerInterrupted, GraceExpires,
     ClientCrashes, Strike, AgyExits, HelperForks, HelperExits
<1> QED
  BY <1>1 DEF RecordMoves, IInv, TypeOK

\* Every step of the specification is such a move.
LEMMA StepsMoveForward == IInv /\ [Next]_vars => RecordMoves
<1> SUFFICES ASSUME IInv, [Next]_vars PROVE RecordMoves
  OBVIOUS
<1>1. CASE StarterStep
  BY <1>1, StarterMoves
<1>2. CASE WorkerStep
  BY <1>2, WorkerMoves
<1>3. ASSUME NEW c \in Clients, ClientStep(c) PROVE RecordMoves
  BY <1>3, ClientMoves
<1>4. CASE Environment
  BY <1>4, EnvironmentMoves
<1>5. CASE UNCHANGED vars
  BY <1>5 DEF vars, RecordMoves, IInv, TypeOK
<1> QED
  BY <1>1, <1>2, <1>3, <1>4, <1>5 DEF Next

\* The first terminal status of a run is its last, whoever acts on an old read.
THEOREM OutcomesAreFinal == Spec => TerminalIsFinal
<1>1. IInv /\ [Next]_vars => [state.status \in Terminal => state'.status = state.status]_vars
  BY StepsMoveForward DEF RecordMoves
<1> QED
  BY <1>1, Invariance, PTL DEF Spec, TerminalIsFinal

\* A run marked cancelling can only become cancelled.
THEOREM CancellationWins == Spec => CancelWins
<1>1. IInv /\ [Next]_vars
        => [state.status = "cancelling" => state'.status \in {"cancelling", "cancelled"}]_vars
  BY StepsMoveForward DEF RecordMoves
<1> QED
  BY <1>1, Invariance, PTL DEF Spec, CancelWins

\* cleanup_pending is raised only with the outcome and dropped only when no
\* process of the run is alive.
THEOREM DebtsAreHonest == Spec => PendingIsHonest
<1>1. IInv /\ [Next]_vars
        => [/\ state'.cleanup_pending /\ ~state.cleanup_pending => state.status \notin Terminal
            /\ state.cleanup_pending /\ ~state'.cleanup_pending => Quiet']_vars
  BY StepsMoveForward DEF RecordMoves
<1> QED
  BY <1>1, Invariance, PTL DEF Spec, PendingIsHonest

\* A poller only fails a run, with its cleanup verified, when the worker is gone.
LEMMA PollersFailDeadWorkers ==
  ASSUME PromptSpawn, IInv, NEW c \in Clients, ClientStep(c),
         state.status \in Active, state'.status = "failed", ~state'.cleanup_pending
  PROVE  ~WorkerAlive
<1>1. CASE FailStale(c)
  BY <1>1 DEF FailStale, FailIfActive, Settle, WorkerAlive, IInv, TypeOK, ClientInv, NoMoreLaunches
<1>2. CASE \E killed \in SUBSET Procs : ProbeWorker(c, killed)
  BY <1>2 DEF ProbeWorker
<1>3. CASE Poll(c) \/ \E ok \in BOOLEAN : Cleanup(c, ok)
  BY <1>3 DEF Poll, Cleanup
<1>4. CASE RequestCancel(c) \/ SettleCancel(c) \/ ClearPending(c)
  BY <1>4 DEF RequestCancel, SettleCancel, ClearPending, Settle, IInv, TypeOK
<1> QED
  BY <1>1, <1>2, <1>3, <1>4 DEF ClientStep

\* With a prompt starter a slow worker is never taken for a dead one.
THEOREM StaleVerdictsAreTrue == ASSUME PromptSpawn PROVE Spec => StaleMeansExited
<1> DEFINE Verdict == /\ \E c \in Clients : client[c].pc \in {"failStale", "probe"} /\ client' # client
                      /\ state.status \in Active
                      /\ state'.status = "failed" /\ ~state'.cleanup_pending
<1>1. IInv /\ [Next]_vars => [Verdict => ~WorkerAlive]_vars
  <2> SUFFICES ASSUME IInv, Next, Verdict PROVE ~WorkerAlive
    BY DEF vars
  <2>1. CASE StarterStep \/ WorkerStep
    BY <2>1 DEF StarterStep, CreateRun, SpawnWorker, SpawnFails, PublishWorker, PublishFails,
       AbortCleanup, StarterFailsRun, WorkerStep, ClaimRun, ConfigInvalid, SetupFails, LaunchAgy,
       LaunchRefused, WaitReturns, WaitTimesOut, ReapTree, UnwindTree, Finalize, FinalizeRaises, GiveUp
  <2>2. CASE \E c \in Clients : ClientStep(c)
    BY <2>2, PollersFailDeadWorkers
  <2>3. CASE Environment
    <3>1. state' = state
      BY <2>3 DEF Environment, StarterCrashes, WorkerDies, WorkerInterrupted, GraceExpires,
         ClientCrashes, Strike, AgyExits, HelperForks, HelperExits
    <3> QED
      BY <3>1
  <2> QED
    BY <2>1, <2>2, <2>3 DEF Next
<1> QED
  BY <1>1, Invariance, PTL DEF Spec, StaleMeansExited

(***************************************************************************)
(* DetachedRun implements RunContract when the starter is prompt: every    *)
(* step maps to a step of the contract or to a stutter.                    *)
(***************************************************************************)
\* What the contract sees of a state.
Seen == <<state.status, state.cleanup_pending, Work>>
Allowed == Contract!Next \/ UNCHANGED Seen

\* Work is a function of the process table alone.
LEMMA WorkOfProcs == ASSUME proc' = proc PROVE Work' = Work
BY DEF Work, Quiet

\* Quiet means that no work goes on; a live process means that it does.
LEMMA WorkMeaning == ASSUME IInv PROVE /\ Quiet <=> Work # "live"
                                       /\ Unborn <=> Work = "none"
BY DEF Work, Quiet, Unborn, IInv, TypeOK, TreeInv

\* A step that settles the record is a decision of the contract.  That nothing
\* is left running comes from the invariant after the step.
LEMMA SettlingIsDeciding ==
  ASSUME PromptSpawn, IInv, IInv',
         NEW outcome \in Terminal, NEW pending \in BOOLEAN, Settle(outcome, pending),
         IF outcome = "cancelled" THEN state.status = "cancelling" ELSE state.status \in Active,
         \/ Work' = Work
         \/ Work = "live" /\ Work' = "over" /\ outcome # "completed"
  PROVE  Contract!Next
<1>1. state'.status = outcome /\ state'.cleanup_pending = pending
  BY DEF Settle, IInv, TypeOK
<1>2. pending \/ Work' # "live"
  <2>1. ~pending => Quiet'
    BY <1>1 DEF IInv, RecordInv, QuietWhenSettled
  <2> QED
    BY <2>1 DEF Work
<1>3. outcome = "completed" => Work = "over" /\ ~pending
  <2> SUFFICES ASSUME outcome = "completed" PROVE Work = "over" /\ ~pending
    OBVIOUS
  <2>1. ~pending /\ Quiet' /\ agyExit' = "ok"
    BY <1>1 DEF IInv, RecordInv, CompletedMeansSuccess
  <2>2. proc'[Agy] = "dead"
    BY <2>1 DEF IInv, TreeInv
  <2> QED
    BY <2>1, <2>2 DEF Work
<1>4. Contract!Decide(outcome, pending)
  BY <1>1, <1>2, <1>3 DEF Contract!Decide, Contract!Undecided
<1> QED
  BY <1>4 DEF Contract!Next, Contract!Outcomes

\* fail_run_if_active either decides the run or changes nothing.
LEMMA FailingIsAllowed ==
  ASSUME PromptSpawn, IInv, IInv', NEW pending \in BOOLEAN, FailIfActive(pending), proc' = proc
  PROVE  Allowed
<1>1. Work' = Work
  BY WorkOfProcs
<1>2. CASE state.status \in Active
  BY <1>1, <1>2, SettlingIsDeciding DEF FailIfActive, Allowed
<1>3. CASE state.status \notin Active
  BY <1>1, <1>3 DEF FailIfActive, Allowed, Seen
<1> QED
  BY <1>2, <1>3

\* The steps of start_run are allowed by the contract.
LEMMA StarterAllowed == ASSUME PromptSpawn, IInv, IInv', StarterStep PROVE Allowed
<1>1. CASE CreateRun
  BY <1>1, WorkOfProcs DEF CreateRun, Contract!Submit, Contract!Next, Allowed, IInv, TypeOK, StarterInv
<1>2. CASE StarterFailsRun
  BY <1>2, FailingIsAllowed DEF StarterFailsRun, IInv, TypeOK
<1>3. CASE PublishWorker \/ \E written \in BOOLEAN : PublishFails(written)
  BY <1>3, WorkOfProcs DEF PublishWorker, PublishFails, Allowed, Seen, IInv, TypeOK
<1>4. CASE SpawnWorker \/ SpawnFails \/ \E ok \in BOOLEAN : AbortCleanup(ok)
  BY <1>4, WorkOfProcs DEF SpawnWorker, SpawnFails, AbortCleanup, Allowed, Seen
<1> QED
  BY <1>1, <1>2, <1>3, <1>4 DEF StarterStep

\* The steps of run_worker are allowed by the contract.
LEMMA WorkerAllowed == ASSUME PromptSpawn, IInv, IInv', WorkerStep PROVE Allowed
<1>1. CASE ClaimRun
  BY <1>1, WorkOfProcs DEF ClaimRun, Contract!Claim, Contract!Next, Allowed, Seen, IInv, TypeOK
<1>2. CASE ConfigInvalid \/ GiveUp
  BY <1>2, FailingIsAllowed DEF ConfigInvalid, GiveUp, IInv, TypeOK
<1>3. CASE LaunchAgy
  <2>1. Work = "none"
    BY <1>3, WorkMeaning DEF LaunchAgy, IInv, WorkerInv
  <2>2. Work' = "live"
    BY <1>3 DEF LaunchAgy, Work, Quiet, IInv, TypeOK
  <2> QED
    BY <1>3, <2>1, <2>2 DEF LaunchAgy, Contract!StartWork, Contract!Next, Allowed
<1>4. CASE Finalize
  <2>1. Outcome \in Terminal \ {"cancelled"}
    BY DEF Outcome, IInv, TypeOK
  <2>2. Work' = Work
    BY <1>4, WorkOfProcs DEF Finalize
  <2>3. CASE state.status \in Active
    BY <1>4, <2>1, <2>2, <2>3, SettlingIsDeciding DEF Finalize, Allowed, IInv, TypeOK
  <2>4. CASE state.status \notin Active
    BY <1>4, <2>2, <2>4 DEF Finalize, Allowed, Seen
  <2> QED
    BY <2>3, <2>4
<1>5. CASE \/ SetupFails \/ LaunchRefused \/ WaitReturns \/ WaitTimesOut \/ FinalizeRaises
           \/ \E ok \in BOOLEAN : ReapTree(ok) \/ UnwindTree(ok)
  BY <1>5, WorkOfProcs DEF SetupFails, LaunchRefused, WaitReturns, WaitTimesOut, FinalizeRaises,
     ReapTree, UnwindTree, Allowed, Seen
<1> QED
  BY <1>1, <1>2, <1>3, <1>4, <1>5 DEF WorkerStep

\* The steps of get_run_status and cancel_run are allowed by the contract.
LEMMA ClientAllowed ==
  ASSUME PromptSpawn, IInv, IInv', NEW c \in Clients, ClientStep(c) PROVE Allowed
<1>1. CASE Poll(c) \/ \E ok \in BOOLEAN : Cleanup(c, ok)
  BY <1>1, WorkOfProcs DEF Poll, Cleanup, Allowed, Seen
<1>2. CASE RequestCancel(c)
  BY <1>2, WorkOfProcs DEF RequestCancel, Contract!AskCancel, Contract!Undecided, Contract!Next,
     Allowed, Seen, IInv, TypeOK
<1>3. CASE SettleCancel(c)
  <2>1. Work' = Work
    BY <1>3, WorkOfProcs DEF SettleCancel
  <2>2. CASE state.status = "cancelling"
    BY <1>3, <2>1, <2>2, SettlingIsDeciding DEF SettleCancel, Allowed, IInv, TypeOK
  <2>3. CASE state.status # "cancelling"
    BY <1>3, <2>1, <2>3 DEF SettleCancel, Allowed, Seen
  <2> QED
    BY <2>2, <2>3
<1>4. CASE ClearPending(c)
  <2>1. Work' = Work /\ Work # "live"
    BY <1>4, WorkOfProcs, WorkMeaning DEF ClearPending, IInv, ClientInv
  <2>2. state'.status = state.status /\ state'.cleanup_pending = FALSE
    BY <1>4 DEF ClearPending, IInv, TypeOK
  <2>3. CASE state.cleanup_pending
    BY <2>1, <2>2, <2>3 DEF Contract!PayDebt, Contract!Next, Allowed
  <2>4. CASE ~state.cleanup_pending
    BY <2>1, <2>2, <2>4 DEF Allowed, Seen, IInv, TypeOK
  <2> QED
    BY <2>3, <2>4
<1>5. CASE FailStale(c)
  BY <1>5, FailingIsAllowed DEF FailStale, IInv, TypeOK
<1>6. ASSUME NEW killed \in SUBSET Procs, ProbeWorker(c, killed) PROVE Allowed
  <2>1. CASE ~(state.status \in Active /\ state.worker_pid /\ ~WorkerAlive)
    BY <1>6, <2>1, WorkOfProcs DEF ProbeWorker, Allowed, Seen
  <2>2. CASE state.status \in Active /\ state.worker_pid /\ ~WorkerAlive
    <3>1. proc' = [p \in Procs |-> IF p \in killed THEN "dead" ELSE proc[p]] /\ killed \subseteq Live
      BY <1>6, <2>2 DEF ProbeWorker
    <3>2. Work' = Work \/ (Work = "live" /\ Work' = "over")
      BY <3>1 DEF Work, Quiet, Live, IInv, TypeOK
    <3>3. \E pending \in BOOLEAN : Settle("failed", pending)
      BY <1>6, <2>2 DEF ProbeWorker
    <3> QED
      BY <2>2, <3>2, <3>3, SettlingIsDeciding DEF Allowed
  <2> QED
    BY <2>1, <2>2
<1> QED
  BY <1>1, <1>2, <1>3, <1>4, <1>5, <1>6 DEF ClientStep

\* Processes that fork and end are allowed by the contract.
LEMMA EnvironmentAllowed == ASSUME IInv, Environment PROVE Allowed
<1>1. state' = state
  BY DEF Environment, StarterCrashes, WorkerDies, WorkerInterrupted, GraceExpires,
     ClientCrashes, Strike, AgyExits, HelperForks, HelperExits
<1>2. proc' = proc \/ \E p \in Procs : \/ proc[p] = "live" /\ proc' = [proc EXCEPT ![p] = "dead"]
                                     \/ /\ p # Agy /\ ~Quiet /\ proc[p] = "unborn"
                                        /\ proc' = [proc EXCEPT ![p] = "live"]
  BY DEF Environment, StarterCrashes, WorkerDies, WorkerInterrupted, GraceExpires,
     ClientCrashes, Strike, AgyExits, HelperForks, HelperExits, Live
<1>3. Work' = Work \/ (Work = "live" /\ Work' = "over")
  BY <1>2, WorkOfProcs DEF Work, Quiet, Unborn, IInv, TypeOK, TreeInv
<1> QED
  BY <1>1, <1>3 DEF Contract!EndWork, Contract!Next, Allowed, Seen

\* A run of magy with a prompt starter keeps the contract of a run.
THEOREM RunsKeepTheContract == ASSUME PromptSpawn PROVE Spec => ImplementsContract
<1>1. Init => Contract!Init
  BY DEF Init, Contract!Init, Work
<1>2. IInv /\ IInv' /\ [Next]_vars => [Contract!Next]_(Contract!contractVars)
  <2> SUFFICES ASSUME IInv, IInv', [Next]_vars PROVE Allowed
    BY DEF Allowed, Seen, Contract!contractVars
  <2>1. CASE UNCHANGED vars
    BY <2>1, WorkOfProcs DEF vars, Allowed, Seen
  <2> QED
    BY <2>1, StarterAllowed, WorkerAllowed, ClientAllowed, EnvironmentAllowed DEF Next
<1> QED
  BY <1>1, <1>2, Invariance, PTL DEF Spec, ImplementsContract, Contract!Spec
=============================================================================
