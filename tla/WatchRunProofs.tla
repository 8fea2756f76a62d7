--------------------------- MODULE WatchRunProofs ---------------------------
(***************************************************************************)
(* The watches of a repository, for any number of watches and callers:     *)
(* WatchInv is inductive, and exclusion, honest outcomes and the action    *)
(* properties follow from it.                                              *)
(***************************************************************************)
EXTENDS WatchRunRefinement, TLAPS

ObserverRecords == [pc : ObserverPCs, watch : Watches \cup {None},
                    saw : {"none", "ok", "fail", "closed", "runner"}]

\* An observer that goes on keeps its type.
LEMMA ObserverMoves ==
    ASSUME observer \in [Observers -> ObserverRecords], NEW o \in Observers, NEW pc \in ObserverPCs
    PROVE  [observer EXCEPT ![o].pc = pc] \in [Observers -> ObserverRecords]
BY DEF ObserverRecords

\* So does one whose call returns or whose monitor ends.
LEMMA ObserverReturns ==
    ASSUME observer \in [Observers -> ObserverRecords], NEW o \in Observers, Returns(o)
    PROVE  observer' \in [Observers -> ObserverRecords]
<1>1. AtRest(o) \in ObserverRecords
  BY DEF AtRest, ObserverRecords, ObserverPCs, Observers
<1> QED
  BY <1>1 DEF Returns

\* start_watch_run keeps the types.
LEMMA StarterTypes ==
    ASSUME TypeOK, NEW w \in Watches, WriteStub(w) \/ StarterStep(w) \/ StarterDies(w)
    PROVE  TypeOK'
<1> USE DEF TypeOK, StarterGoes, StarterPCs
<1>1. CASE WriteStub(w)
  BY <1>1 DEF WriteStub
<1>2. CASE AcquireLease(w)
  BY <1>2 DEF AcquireLease
<1>3. CASE PrepareWatch(w)
  BY <1>3 DEF PrepareWatch
<1>4. CASE LaunchPane(w)
  BY <1>4 DEF LaunchPane, RunnerPCs
<1>5. CASE LaunchFails(w)
  BY <1>5 DEF LaunchFails
<1>6. CASE RecordPane(w)
  BY <1>6 DEF RecordPane
<1>7. CASE SpawnMonitor(w)
  <2>1. /\ w \in Observers
        /\ \/ observer' = [observer EXCEPT ![w].pc = "watch"]
           \/ observer' = observer
    BY <1>7 DEF SpawnMonitor, Observers
  <2>2. observer \in [Observers -> ObserverRecords]
    BY DEF ObserverRecords
  <2>3. "watch" \in ObserverPCs
    BY DEF ObserverPCs
  <2>4. observer' \in [Observers -> ObserverRecords]
    BY <2>1, <2>2, <2>3, ObserverMoves
  <2> QED
    BY <1>7, <2>4 DEF SpawnMonitor, ObserverRecords
<1>8. CASE ReleaseAfterError(w)
  BY <1>8 DEF ReleaseAfterError, ReleaseLease
<1>9. CASE MarkStartFailed(w)
  BY <1>9 DEF MarkStartFailed, Terminal
<1>10. CASE StarterDies(w)
  BY <1>10 DEF StarterDies
<1> HIDE DEF TypeOK
<1> QED
  BY <1>1, <1>2, <1>3, <1>4, <1>5, <1>6, <1>7, <1>8, <1>9, <1>10 DEF StarterStep

\* The runner, Agy and a person at the pane keep the types.
LEMMA RunnerTypes ==
    ASSUME TypeOK, NEW w \in Watches,
           \/ RunnerStep(w) \/ RunnerRereads(w) \/ RunnerFails(w) \/ UserClosesPane(w)
           \/ \E code \in {"ok", "fail"} : AgyEnds(w, code)
    PROVE  TypeOK'
<1> USE DEF TypeOK, RunnerPCs
<1>1. CASE RunnerReads(w)
  BY <1>1 DEF RunnerReads
<1>2. CASE RunnerRecords(w)
  BY <1>2 DEF RunnerRecords
<1>3. CASE RunnerLaunchesAgy(w)
  BY <1>3 DEF RunnerLaunchesAgy
<1>4. CASE RunnerFinishes(w)
  BY <1>4 DEF RunnerFinishes
<1>5. CASE RunnerFails(w)
  BY <1>5 DEF RunnerFails
<1>6. CASE RunnerHangsUp(w)
  BY <1>6 DEF RunnerHangsUp
<1>7. CASE UserClosesPane(w)
  BY <1>7 DEF UserClosesPane
<1>8. ASSUME NEW code \in {"ok", "fail"}, AgyEnds(w, code) PROVE TypeOK'
  BY <1>8 DEF AgyEnds
<1>9. CASE RunnerRereads(w)
  BY <1>9 DEF RunnerRereads
<1>10. CASE RunnerNotes(w)
  BY <1>10 DEF RunnerNotes
<1> HIDE DEF TypeOK
<1> QED
  BY <1>1, <1>2, <1>3, <1>4, <1>5, <1>6, <1>7, <1>8, <1>9, <1>10 DEF RunnerStep

\* Callers and monitors keep the types.
LEMMA ObserverTypes ==
    ASSUME TypeOK, ObserversFit, NEW o \in Observers,
           \/ ObserverStep(o) \/ ObserverDies(o)
           \/ \E w \in Watches : CallerPolls(o, w) \/ CancelMarks(o, w)
    PROVE  TypeOK'
<1> USE DEF TypeOK, ObserverGoes, ObserverPCs
<1>0. observer[o].pc \notin {"idle", "off"} => observer[o].watch \in Watches
  BY DEF ObserversFit, ObserverFits
<1>11. Returns(o) => observer' \in [Observers -> ObserverRecords]
  BY ObserverReturns DEF ObserverRecords
<1>1. ASSUME NEW w \in Watches, CallerPolls(o, w) PROVE TypeOK'
  BY <1>1 DEF CallerPolls
<1>2. ASSUME NEW w \in Watches, CancelMarks(o, w) PROVE TypeOK'
  BY <1>2 DEF CancelMarks, Terminal
<1>3. CASE LooksForExit(o)
  <2>1. observer[o].watch \in Watches
    BY <1>0, <1>3 DEF LooksForExit
  <2>2. CASE Returns(o)
    BY <1>3, <1>11, <2>2 DEF LooksForExit, ObserverRecords
  <2>3. CASE ~Returns(o)
    <3>1. PICK pc \in {"finalize", "probe"} : observer' = [observer EXCEPT ![o] =
             [pc |-> pc, watch |-> observer[o].watch, saw |-> exitFile[observer[o].watch]]]
      BY <1>3, <2>3 DEF LooksForExit
    <3>2. [pc |-> pc, watch |-> observer[o].watch, saw |-> exitFile[observer[o].watch]]
             \in ObserverRecords
      BY <2>1 DEF ObserverRecords
    <3>3. observer' \in [Observers -> ObserverRecords]
      BY <3>1, <3>2 DEF ObserverRecords
    <3> QED
      BY <1>3, <3>3 DEF LooksForExit, ObserverRecords
  <2> QED
    BY <2>2, <2>3
<1>4. ASSUME NEW alive \in BOOLEAN, TakesVerdict(o, alive) PROVE TypeOK'
  <2>1. observer[o].watch \in Watches
    BY <1>0, <1>4 DEF TakesVerdict
  <2>2. CASE alive
    <3>1. observer \in [Observers -> ObserverRecords]
      BY DEF ObserverRecords
    <3>2. Returns(o) \/ observer' = [observer EXCEPT ![o].pc = "watch"]
      BY <1>4, <2>2 DEF TakesVerdict, LooksLater
    <3>3. [observer EXCEPT ![o].pc = "watch"] \in [Observers -> ObserverRecords]
      BY <3>1, ObserverMoves
    <3>4. observer' \in [Observers -> ObserverRecords]
      BY <1>11, <3>2, <3>3
    <3> QED
      BY <1>4, <3>4 DEF TakesVerdict, ObserverRecords
  <2>3. CASE ~alive
    <3>1. PICK saw \in {"ok", "fail", "closed"} : observer' = [observer EXCEPT ![o] =
             [pc |-> "finalize", watch |-> observer[o].watch, saw |-> saw]]
      BY <1>4, <2>1, <2>3 DEF TakesVerdict
    <3>2. [pc |-> "finalize", watch |-> observer[o].watch, saw |-> saw] \in ObserverRecords
      BY <2>1 DEF ObserverRecords
    <3>3. observer' \in [Observers -> ObserverRecords]
      BY <3>1, <3>2 DEF ObserverRecords
    <3> QED
      BY <1>4, <3>3 DEF TakesVerdict, ObserverRecords
  <2> QED
    BY <2>2, <2>3
<1>5. CASE Finalize(o)
  <2>1. CASE Returns(o) /\ UNCHANGED status
    BY <1>5, <1>11, <2>1 DEF Finalize, ObserverRecords
  <2>2. CASE /\ observer' = [observer EXCEPT ![o].pc = "release"]
             /\ \E outcome \in {"completed", "failed"} :
                   status' = [status EXCEPT ![observer[o].watch] = outcome]
    <3>1. status' \in [Watches -> {"absent", "running"} \cup Terminal]
      BY <2>2 DEF Terminal
    <3>2. [observer EXCEPT ![o].pc = "release"] \in [Observers -> ObserverRecords]
      BY ObserverMoves DEF ObserverRecords
    <3> QED
      BY <1>5, <2>2, <3>1, <3>2 DEF Finalize, ObserverRecords
  <2> QED
    BY <1>5, <2>1, <2>2 DEF Finalize
<1>6. CASE FinalizeReleases(o)
  BY <1>0, <1>6 DEF FinalizeReleases, ReleaseLease
<1>7. CASE ClosesPane(o)
  BY <1>0, <1>7, <1>11 DEF ClosesPane, ObserverRecords
<1>8. CASE CancelReleases(o)
  BY <1>0, <1>8 DEF CancelReleases, ReleaseLease
<1>9. CASE CancelKills(o)
  BY <1>0, <1>9 DEF CancelKills
<1>10. CASE ObserverDies(o)
  BY <1>10, <1>11 DEF ObserverDies, ObserverRecords
<1> HIDE DEF TypeOK
<1> QED
  BY <1>1, <1>2, <1>3, <1>4, <1>5, <1>6, <1>7, <1>8, <1>9, <1>10 DEF ObserverStep, LooksAtPane

\* The invariant without the types.
FitInv == ObserversFit /\ RunnersFit /\ RecordsFit /\ LeaseIsExclusive /\ CompletedMeansSuccess

\* start_watch_run keeps the invariant.
LEMMA StarterKeeps ==
    ASSUME WatchInv, NEW w \in Watches,
           WriteStub(w) \/ StarterStep(w) \/ StarterDies(w)
    PROVE  WatchInv'
<1> USE DEF TypeOK, ObserversFit, ObserverFits, RunnersFit, RecordsFit, LeaseIsExclusive,
          CompletedMeansSuccess, Admitted, Terminal, Observers, StarterGoes, ReleaseLease, LockFree
<1>0. TypeOK /\ FitInv
  BY DEF WatchInv, FitInv
<1>1. ASSUME WriteStub(w) PROVE FitInv'
  BY <1>0, <1>1, WatchAssumption DEF FitInv, WriteStub
<1>2. ASSUME AcquireLease(w) PROVE FitInv'
  BY <1>0, <1>2, WatchAssumption DEF FitInv, AcquireLease
<1>3. ASSUME PrepareWatch(w) PROVE FitInv'
  BY <1>0, <1>3, WatchAssumption DEF FitInv, PrepareWatch
<1>4. ASSUME LaunchPane(w) PROVE FitInv'
  <2>1. ObserversFit'
    BY <1>0, <1>4, WatchAssumption DEF FitInv, LaunchPane
  <2>2. RunnersFit'
    BY <1>0, <1>4, WatchAssumption DEF FitInv, LaunchPane
  <2>3. RecordsFit'
    BY <1>0, <1>4, WatchAssumption DEF FitInv, LaunchPane
  <2>4. LeaseIsExclusive'
    BY <1>0, <1>4, WatchAssumption DEF FitInv, LaunchPane
  <2>5. CompletedMeansSuccess'
    BY <1>0, <1>4, WatchAssumption DEF FitInv, LaunchPane
  <2> QED
    BY <2>1, <2>2, <2>3, <2>4, <2>5 DEF FitInv
<1>5. ASSUME LaunchFails(w) PROVE FitInv'
  BY <1>0, <1>5, WatchAssumption DEF FitInv, LaunchFails
<1>6. ASSUME RecordPane(w) PROVE FitInv'
  BY <1>0, <1>6, WatchAssumption DEF FitInv, RecordPane
<1>7. ASSUME SpawnMonitor(w) PROVE FitInv'
  <2>1. ObserversFit'
    <3> SUFFICES ASSUME NEW p \in Observers PROVE ObserverFits(p)'
      OBVIOUS
    <3>1. CASE p = w
      BY <1>0, <1>7, <3>1, WatchAssumption DEF FitInv, SpawnMonitor
    <3>2. CASE p # w
      BY <1>0, <1>7, <3>2, WatchAssumption DEF FitInv, SpawnMonitor
    <3> QED
      BY <3>1, <3>2
  <2>2. RunnersFit'
    BY <1>0, <1>7, WatchAssumption DEF FitInv, SpawnMonitor
  <2>3. RecordsFit'
    BY <1>0, <1>7, WatchAssumption DEF FitInv, SpawnMonitor
  <2>4. LeaseIsExclusive'
    BY <1>0, <1>7, WatchAssumption DEF FitInv, SpawnMonitor
  <2>5. CompletedMeansSuccess'
    BY <1>0, <1>7, WatchAssumption DEF FitInv, SpawnMonitor
  <2> QED
    BY <2>1, <2>2, <2>3, <2>4, <2>5 DEF FitInv
<1>8. ASSUME ReleaseAfterError(w) PROVE FitInv'
  BY <1>0, <1>8, WatchAssumption DEF FitInv, ReleaseAfterError
<1>9. ASSUME MarkStartFailed(w) PROVE FitInv'
  BY <1>0, <1>9, WatchAssumption DEF FitInv, MarkStartFailed
<1>10. ASSUME StarterDies(w) PROVE FitInv'
  BY <1>0, <1>10, WatchAssumption DEF FitInv, StarterDies
<1> HIDE DEF TypeOK, ObserversFit, RunnersFit, RecordsFit, LeaseIsExclusive, CompletedMeansSuccess
<1>11. TypeOK'
  BY <1>0, StarterTypes DEF FitInv
<1>12. FitInv'
  BY <1>1, <1>2, <1>3, <1>4, <1>5, <1>6, <1>7, <1>8, <1>9, <1>10 DEF StarterStep
<1> QED
  BY <1>11, <1>12 DEF FitInv, WatchInv

\* The runner keeps the invariant: it writes back what it has read under the lock.
LEMMA RunnerKeeps ==
    ASSUME WatchInv, NEW w \in Watches,
           \/ RunnerStep(w) \/ RunnerRereads(w) \/ RunnerFails(w) \/ UserClosesPane(w)
           \/ \E code \in {"ok", "fail"} : AgyEnds(w, code)
    PROVE  WatchInv'
<1> USE DEF TypeOK, ObserversFit, ObserverFits, RunnersFit, RecordsFit, LeaseIsExclusive,
          CompletedMeansSuccess, Admitted, Terminal, Observers, RunnerAlive
<1>0. TypeOK /\ FitInv
  BY DEF WatchInv, FitInv
<1>1. ASSUME RunnerReads(w) PROVE FitInv'
  BY <1>0, <1>1, WatchAssumption DEF FitInv, RunnerReads
<1>2. ASSUME RunnerRecords(w) PROVE FitInv'
  BY <1>0, <1>2, WatchAssumption DEF FitInv, RunnerRecords
<1>3. ASSUME RunnerLaunchesAgy(w) PROVE FitInv'
  BY <1>0, <1>3, WatchAssumption DEF FitInv, RunnerLaunchesAgy
<1>4. ASSUME RunnerFinishes(w) PROVE FitInv'
  BY <1>0, <1>4, WatchAssumption DEF FitInv, RunnerFinishes
<1>5. ASSUME RunnerFails(w) PROVE FitInv'
  BY <1>0, <1>5, WatchAssumption DEF FitInv, RunnerFails
<1>6. ASSUME RunnerHangsUp(w) PROVE FitInv'
  <2>1. ObserversFit'
    BY <1>0, <1>6, WatchAssumption DEF FitInv, RunnerHangsUp
  <2>2. RunnersFit'
    BY <1>0, <1>6, WatchAssumption DEF FitInv, RunnerHangsUp
  <2>3. RecordsFit'
    BY <1>0, <1>6, WatchAssumption DEF FitInv, RunnerHangsUp
  <2>4. LeaseIsExclusive'
    BY <1>0, <1>6, WatchAssumption DEF FitInv, RunnerHangsUp
  <2>5. CompletedMeansSuccess'
    BY <1>0, <1>6, WatchAssumption DEF FitInv, RunnerHangsUp
  <2> QED
    BY <2>1, <2>2, <2>3, <2>4, <2>5 DEF FitInv
<1>7. ASSUME UserClosesPane(w) PROVE FitInv'
  BY <1>0, <1>7, WatchAssumption DEF FitInv, UserClosesPane
<1>8. ASSUME NEW code \in {"ok", "fail"}, AgyEnds(w, code) PROVE FitInv'
  BY <1>0, <1>8, WatchAssumption DEF FitInv, AgyEnds
<1>11. ASSUME RunnerRereads(w) PROVE FitInv'
  BY <1>0, <1>11, WatchAssumption DEF FitInv, RunnerRereads
<1>12. ASSUME RunnerNotes(w) PROVE FitInv'
  BY <1>0, <1>12, WatchAssumption DEF FitInv, RunnerNotes
<1> HIDE DEF TypeOK, ObserversFit, RunnersFit, RecordsFit, LeaseIsExclusive, CompletedMeansSuccess
<1>9. TypeOK'
  BY <1>0, RunnerTypes DEF FitInv
<1>10. FitInv'
  BY <1>1, <1>2, <1>3, <1>4, <1>5, <1>6, <1>7, <1>8, <1>11, <1>12 DEF RunnerStep
<1> QED
  BY <1>9, <1>10 DEF FitInv, WatchInv

\* Callers and monitors keep the invariant.
LEMMA ObserverKeeps ==
    ASSUME WatchInv, NEW o \in Observers,
           \/ ObserverStep(o) \/ ObserverDies(o)
           \/ \E w \in Watches : CallerPolls(o, w) \/ CancelMarks(o, w)
    PROVE  WatchInv'
<1> USE DEF TypeOK, ObserversFit, ObserverFits, RunnersFit, RecordsFit, LeaseIsExclusive,
          CompletedMeansSuccess, Admitted, Terminal, Observers, ObserverGoes, Returns, AtRest, LockFree, ReleaseLease
<1>0. TypeOK /\ FitInv
  BY DEF WatchInv, FitInv
<1>1. ASSUME NEW w \in Watches, CallerPolls(o, w) PROVE FitInv'
  BY <1>0, <1>1, WatchAssumption DEF FitInv, CallerPolls
<1>2. ASSUME NEW w \in Watches, CancelMarks(o, w) PROVE FitInv'
  BY <1>0, <1>2, WatchAssumption DEF FitInv, CancelMarks
<1>3. ASSUME LooksForExit(o) PROVE FitInv'
  <2>1. ObserversFit'
    <3> SUFFICES ASSUME NEW p \in Observers PROVE ObserverFits(p)'
      OBVIOUS
    <3>1. CASE p = o
      <4>1. CASE Returns(o)
        BY <1>0, <3>1, <4>1, WatchAssumption DEF FitInv
      <4>2. CASE ~Returns(o)
        <5>1. PICK pc \in {"finalize", "probe"} : observer' = [observer EXCEPT ![o] =
                 [pc |-> pc, watch |-> observer[o].watch, saw |-> exitFile[observer[o].watch]]]
          BY <1>3, <4>2 DEF LooksForExit
        <5>2. observer[o].pc = "watch" /\ UNCHANGED <<status, starter, exitFile, pane>>
          BY <1>3 DEF LooksForExit
        <5> QED
          BY <1>0, <3>1, <5>1, <5>2 DEF FitInv
      <4> QED
        BY <4>1, <4>2
    <3>2. CASE p # o
      BY <1>0, <1>3, <3>2, WatchAssumption DEF FitInv, LooksForExit
    <3> QED
      BY <3>1, <3>2
  <2>2. UNCHANGED <<status, starter, runner, agy, exitFile, lease, pane>>
    BY <1>3 DEF LooksForExit
  <2>3. RunnersFit' /\ RecordsFit' /\ LeaseIsExclusive' /\ CompletedMeansSuccess'
    BY <1>0, <2>2 DEF FitInv
  <2> QED
    BY <2>1, <2>3 DEF FitInv
<1>4. ASSUME NEW alive \in BOOLEAN, TakesVerdict(o, alive) PROVE FitInv'
  <2>1. ObserversFit'
    <3> SUFFICES ASSUME NEW p \in Observers PROVE ObserverFits(p)'
      OBVIOUS
    <3>1. CASE p = o
      BY <1>0, <1>4, <3>1, WatchAssumption DEF FitInv, TakesVerdict, PaneVerdicts, PaneAlive, RunnerAlive, LooksLater
    <3>2. CASE p # o
      BY <1>0, <1>4, <3>2, WatchAssumption DEF FitInv, TakesVerdict, PaneVerdicts, PaneAlive, RunnerAlive, LooksLater
    <3> QED
      BY <3>1, <3>2
  <2>2. RunnersFit'
    BY <1>0, <1>4, WatchAssumption DEF FitInv, TakesVerdict, PaneVerdicts, PaneAlive, RunnerAlive, LooksLater
  <2>3. RecordsFit'
    BY <1>0, <1>4, WatchAssumption DEF FitInv, TakesVerdict, PaneVerdicts, PaneAlive, RunnerAlive, LooksLater
  <2>4. LeaseIsExclusive'
    BY <1>0, <1>4, WatchAssumption DEF FitInv, TakesVerdict, PaneVerdicts, PaneAlive, RunnerAlive, LooksLater
  <2>5. CompletedMeansSuccess'
    BY <1>0, <1>4, WatchAssumption DEF FitInv, TakesVerdict, PaneVerdicts, PaneAlive, RunnerAlive, LooksLater
  <2> QED
    BY <2>1, <2>2, <2>3, <2>4, <2>5 DEF FitInv
<1>5. ASSUME Finalize(o) PROVE FitInv'
  <2>1. ObserversFit'
    <3> SUFFICES ASSUME NEW p \in Observers PROVE ObserverFits(p)'
      OBVIOUS
    <3>1. CASE p = o
      BY <1>0, <1>5, <3>1, WatchAssumption DEF FitInv, Finalize
    <3>2. CASE p # o
      BY <1>0, <1>5, <3>2, WatchAssumption DEF FitInv, Finalize
    <3> QED
      BY <3>1, <3>2
  <2>2. RunnersFit'
    BY <1>0, <1>5, WatchAssumption DEF FitInv, Finalize
  <2>3. RecordsFit'
    <3>1. /\ runner[observer[o].watch].pc \notin {"recording", "noting"}
          /\ starter[observer[o].watch] # "idle"
          /\ \A v \in Watches : v # observer[o].watch => status'[v] = status[v]
      BY <1>0, <1>5 DEF FitInv, Finalize
    <3> QED
      BY <1>0, <1>5, <3>1 DEF FitInv, Finalize
  <2>4. LeaseIsExclusive'
    BY <1>0, <1>5, WatchAssumption DEF FitInv, Finalize
  <2>5. CompletedMeansSuccess'
    BY <1>0, <1>5, WatchAssumption DEF FitInv, Finalize
  <2> QED
    BY <2>1, <2>2, <2>3, <2>4, <2>5 DEF FitInv
<1>6. ASSUME FinalizeReleases(o) PROVE FitInv'
  BY <1>0, <1>6, WatchAssumption DEF FitInv, FinalizeReleases
<1>7. ASSUME ClosesPane(o) PROVE FitInv'
  BY <1>0, <1>7, WatchAssumption DEF FitInv, ClosesPane
<1>8. ASSUME CancelReleases(o) PROVE FitInv'
  BY <1>0, <1>8, WatchAssumption DEF FitInv, CancelReleases
<1>9. ASSUME CancelKills(o) PROVE FitInv'
  <2>1. ObserversFit'
    BY <1>0, <1>9, WatchAssumption DEF FitInv, CancelKills
  <2>2. RunnersFit'
    BY <1>0, <1>9, WatchAssumption DEF FitInv, CancelKills
  <2>3. RecordsFit'
    BY <1>0, <1>9, WatchAssumption DEF FitInv, CancelKills
  <2>4. LeaseIsExclusive'
    BY <1>0, <1>9, WatchAssumption DEF FitInv, CancelKills
  <2>5. CompletedMeansSuccess'
    BY <1>0, <1>9, WatchAssumption DEF FitInv, CancelKills
  <2> QED
    BY <2>1, <2>2, <2>3, <2>4, <2>5 DEF FitInv
<1>10. ASSUME ObserverDies(o) PROVE FitInv'
  BY <1>0, <1>10, WatchAssumption DEF FitInv, ObserverDies
<1> HIDE DEF TypeOK, ObserversFit, RunnersFit, RecordsFit, LeaseIsExclusive, CompletedMeansSuccess
<1>11. TypeOK'
  BY <1>0, ObserverTypes DEF FitInv
<1>12. FitInv'
  BY <1>1, <1>2, <1>3, <1>4, <1>5, <1>6, <1>7, <1>8, <1>9, <1>10 DEF ObserverStep, LooksAtPane
<1> QED
  BY <1>11, <1>12 DEF FitInv, WatchInv

\* Every step keeps the invariant.
LEMMA WatchStep == WatchInv /\ [Next]_vars => WatchInv'
<1> SUFFICES ASSUME WatchInv, [Next]_vars PROVE WatchInv'
  OBVIOUS
<1>1. ASSUME NEW w \in Watches, WriteStub(w) \/ StarterStep(w) \/ StarterDies(w) PROVE WatchInv'
  BY <1>1, StarterKeeps
<1>2. ASSUME NEW w \in Watches,
             \/ RunnerStep(w) \/ RunnerRereads(w) \/ RunnerFails(w) \/ UserClosesPane(w)
             \/ \E code \in {"ok", "fail"} : AgyEnds(w, code)
      PROVE  WatchInv'
  BY <1>2, RunnerKeeps
<1>3. ASSUME NEW o \in Observers,
             \/ ObserverStep(o) \/ ObserverDies(o)
             \/ \E w \in Watches : CallerPolls(o, w) \/ CancelMarks(o, w)
      PROVE  WatchInv'
  BY <1>3, ObserverKeeps
<1>4. CASE UNCHANGED vars
  BY <1>4 DEF vars, WatchInv, TypeOK, ObserversFit, ObserverFits, RunnersFit, RecordsFit,
     LeaseIsExclusive, CompletedMeansSuccess, Admitted
<1>5. Clients \subseteq Observers
  BY DEF Observers
<1> QED
  BY <1>1, <1>2, <1>3, <1>4, <1>5 DEF Next

\* The invariant holds before anything was started.
LEMMA WatchStarts == Init => WatchInv
<1> SUFFICES ASSUME Init PROVE WatchInv
  OBVIOUS
<1> USE WatchAssumption DEF Init, Observers, AtRest
<1>1. TypeOK
  BY DEF TypeOK, StarterPCs, RunnerPCs, ObserverPCs
<1>2. ObserversFit
  BY DEF ObserversFit, ObserverFits
<1>3. RunnersFit /\ RecordsFit
  BY DEF RunnersFit, RecordsFit
<1>4. LeaseIsExclusive /\ CompletedMeansSuccess
  BY DEF LeaseIsExclusive, CompletedMeansSuccess, Admitted
<1> QED
  BY <1>1, <1>2, <1>3, <1>4 DEF WatchInv

\* The invariant holds in every state, for any number of watches and callers, any
\* multiplexer, and with every crash.
THEOREM WatchInvariance == Spec => []WatchInv
BY WatchStarts, WatchStep, PTL DEF Spec

\* Two watches whose start was admitted never run on the repository at once: the
\* running one is named by the lease, which no other one's end takes away.
THEOREM LeasesAreExclusive == Spec => []LeaseIsExclusive
<1>1. WatchInv => LeaseIsExclusive
  BY DEF WatchInv
<1> QED
  BY <1>1, WatchInvariance, PTL

\* A watch reported completed is one whose Agy succeeded and whose runner published
\* that, however panes close and cancellations interleave.
THEOREM CompletedWatchesSucceeded == Spec => []CompletedMeansSuccess
<1>1. WatchInv => CompletedMeansSuccess
  BY DEF WatchInv
<1> QED
  BY <1>1, WatchInvariance, PTL

\* Without starts that raise late no step changes a terminal status.
LEMMA StatusStays ==
    ASSUME WatchInv, [Next]_vars, ~LateLaunchErrors, NEW v \in Watches, status[v] \in Terminal
    PROVE  status'[v] = status[v]
<1> USE DEF WatchInv, TypeOK, RecordsFit
<1>1. ASSUME NEW w \in Watches, WriteStub(w) PROVE status'[v] = status[v]
  BY <1>1 DEF WriteStub, Terminal
<1>2. ASSUME NEW w \in Watches, MarkStartFailed(w) PROVE status'[v] = status[v]
  BY <1>2 DEF MarkStartFailed
<1>3. ASSUME NEW w \in Watches, StarterStep(w) \/ StarterDies(w), ~MarkStartFailed(w)
      PROVE  status'[v] = status[v]
  BY <1>3 DEF StarterStep, AcquireLease, PrepareWatch, LaunchPane, LaunchFails, RecordPane,
     SpawnMonitor, ReleaseAfterError, StarterDies
<1>4. ASSUME NEW w \in Watches, RunnerRecords(w) \/ RunnerNotes(w) PROVE status'[v] = status[v]
  BY <1>4 DEF RunnerRecords, RunnerNotes
<1>5. ASSUME NEW w \in Watches,
             \/ RunnerStep(w) \/ RunnerRereads(w) \/ RunnerFails(w) \/ UserClosesPane(w)
             \/ \E code \in {"ok", "fail"} : AgyEnds(w, code),
             ~RunnerRecords(w), ~RunnerNotes(w)
      PROVE  status'[v] = status[v]
  BY <1>5 DEF RunnerStep, RunnerReads, RunnerRereads, RunnerLaunchesAgy, RunnerFinishes, RunnerFails,
     RunnerHangsUp, UserClosesPane, AgyEnds
<1>6. ASSUME NEW w \in Watches, NEW o \in Clients, CallerPolls(o, w) \/ CancelMarks(o, w)
      PROVE  status'[v] = status[v]
  BY <1>6 DEF CallerPolls, CancelMarks
<1>7. ASSUME NEW o \in Observers, ObserverStep(o) \/ ObserverDies(o) PROVE status'[v] = status[v]
  BY <1>7 DEF ObserverStep, LooksForExit, LooksAtPane, TakesVerdict, Finalize, FinalizeReleases,
     ClosesPane, CancelReleases, CancelKills, ObserverDies
<1>8. CASE UNCHANGED vars
  BY <1>8 DEF vars
<1> QED
  BY <1>1, <1>2, <1>3, <1>4, <1>5, <1>6, <1>7, <1>8 DEF Next

\* Where starts do not raise after the pane exists, the first terminal status of a
\* watch is its last, for any number of watches, monitors and callers.
THEOREM WatchOutcomesAreFinal ==
    ASSUME ~LateLaunchErrors
    PROVE  Spec => TerminalIsFinal
<1>1. WatchInv /\ [Next]_vars =>
         [\A w \in Watches : status[w] \in Terminal => status'[w] = status[w]]_vars
  BY StatusStays
<1> QED
  BY <1>1, WatchInvariance, PTL DEF Spec, TerminalIsFinal

\* Where the multiplexer answers rightly, no monitor fails a watch as closed that
\* published its success in a pane nobody closed.
THEOREM MonitorsHonorExits ==
    ASSUME ~MuxErrs
    PROVE  Spec => MonitorHonorsExit
<1>1. WatchInv /\ [Next]_vars =>
         [\A o \in Watches : DeclaredClosed(o) => ~PublishedSuccess(o)]_vars
  BY DEF WatchInv, ObserversFit, ObserverFits, Observers, DeclaredClosed, PublishedSuccess
<1> QED
  BY <1>1, WatchInvariance, PTL DEF Spec, MonitorHonorsExit

(***************************************************************************)
(* WatchRun implements WatchContract, step by step.                        *)
(***************************************************************************)
WatchedStep == WatchedContract!Next \/ UNCHANGED WatchedContract!contractVars

\* A step that changes neither outcomes, nor Agy, nor a start, stutters.
LEMMA ContractRests ==
    ASSUME UNCHANGED <<status, starter, agy>>
    PROVE  WatchedStep
BY DEF WatchedStep, WatchedContract!contractVars, Place, Admitted

\* A start moves only its own place, and only to where the mapping says.
LEMMA PlaceMoves ==
    ASSUME TypeOK, NEW w \in Watches, NEW pc \in StarterPCs, StarterGoes(w, pc)
    PROVE  [v \in Watches |-> Place(v)]' =
              [[v \in Watches |-> Place(v)] EXCEPT ![w] =
                  IF pc \in {"idle", "lease"} THEN "asked"
                  ELSE IF pc \in {"baseline", "launch", "record", "monitor", "started"}
                       THEN "admitted" ELSE "given up"]
BY DEF TypeOK, StarterGoes, Place, Admitted

\* A start that keeps its place and writes no record stutters.
LEMMA StarterRests ==
    ASSUME TypeOK, NEW w \in Watches, NEW pc \in StarterPCs, StarterGoes(w, pc),
           UNCHANGED <<status, agy>>,
           \/ Admitted(w) /\ pc \in {"launch", "record", "monitor", "started"}
           \/ starter[w] = "release" /\ pc \in {"mark", "crashed"}
           \/ starter[w] = "mark" /\ pc = "crashed"
    PROVE  WatchedStep
<1>1. [v \in Watches |-> Place(v)]' = [v \in Watches |-> Place(v)]
  BY DEF TypeOK, StarterGoes, Place, Admitted
<1> QED
  BY <1>1 DEF WatchedStep, WatchedContract!contractVars

\* A start that gives up without having written an outcome leaves its watch running.
LEMMA StarterGivesUp ==
    ASSUME WatchInv, NEW w \in Watches, NEW pc \in {"release", "raised", "crashed"},
           StarterGoes(w, pc), UNCHANGED <<status, agy>>,
           starter[w] \in {"lease", "baseline", "launch", "record", "monitor"}
    PROVE  WatchedStep
<1>1. status[w] = "running"
  BY DEF WatchInv, RecordsFit
<1>2. Place(w) # "given up"
  BY DEF Place, Admitted
<1>3. pc \in StarterPCs
  BY DEF StarterPCs
<1>4. WatchedContract!GiveUp(w)
  BY <1>1, <1>2, <1>3, PlaceMoves DEF WatchInv, WatchedContract!GiveUp
<1> QED
  BY <1>4 DEF WatchedStep, WatchedContract!Next

\* The steps of start_watch_run.
LEMMA StarterImplements ==
    ASSUME WatchInv, NEW w \in Watches, WriteStub(w) \/ StarterStep(w) \/ StarterDies(w)
    PROVE  WatchedStep
<1>0. TypeOK /\ RecordsFit /\ LeaseIsExclusive
  BY DEF WatchInv
<1> USE DEF StarterPCs
<1>1. CASE WriteStub(w)
  <2>1. status[w] = "absent" /\ Place(w) = "asked"
    BY <1>0, <1>1 DEF WriteStub, RecordsFit, Place
  <2>2. [v \in Watches |-> Place(v)]' = [v \in Watches |-> Place(v)]
    BY <1>0, <1>1 DEF WriteStub, TypeOK, StarterGoes, Place, Admitted
  <2>3. WatchedContract!Ask(w)
    BY <1>1, <2>1, <2>2 DEF WriteStub, WatchedContract!Ask
  <2> QED
    BY <2>3 DEF WatchedStep, WatchedContract!Next
<1>2. CASE AcquireLease(w)
  <2>1. CASE lease \notin {None, w} /\ status[lease] = "running"
    BY <1>2, <2>1, StarterGivesUp DEF AcquireLease
  <2>2. CASE ~(lease \notin {None, w} /\ status[lease] = "running")
    <3>1. status[w] = "running" /\ Place(w) = "asked"
      BY <1>0, <1>2 DEF AcquireLease, RecordsFit, Place
    <3>2. \A v \in Watches \ {w} : ~(Place(v) = "admitted" /\ status[v] = "running")
      <4> SUFFICES ASSUME NEW v \in Watches, v # w, Place(v) = "admitted", status[v] = "running"
                   PROVE  FALSE
        OBVIOUS
      <4>1. lease = v
        BY <1>0 DEF Place, LeaseIsExclusive
      <4> QED
        BY <2>2, <4>1, WatchAssumption
    <3>3. StarterGoes(w, "baseline") /\ UNCHANGED <<status, agy>>
      BY <1>2, <2>2 DEF AcquireLease
    <3>4. WatchedContract!Admit(w)
      BY <1>0, <3>1, <3>2, <3>3, PlaceMoves DEF WatchedContract!Admit
    <3> QED
      BY <3>4 DEF WatchedStep, WatchedContract!Next
  <2> QED
    BY <2>1, <2>2
<1>3. CASE PrepareWatch(w)
  BY <1>0, <1>3, StarterRests, StarterGivesUp DEF PrepareWatch, Admitted
<1>4. CASE LaunchPane(w) \/ LaunchFails(w)
  BY <1>0, <1>4, StarterRests, StarterGivesUp DEF LaunchPane, LaunchFails, Admitted
<1>5. CASE RecordPane(w) \/ SpawnMonitor(w)
  BY <1>0, <1>5, StarterRests, StarterGivesUp DEF RecordPane, SpawnMonitor, Admitted
<1>6. CASE ReleaseAfterError(w)
  BY <1>0, <1>6, StarterRests DEF ReleaseAfterError
<1>7. CASE MarkStartFailed(w)
  <2>1. status[w] = "running" /\ Place(w) = "given up"
    BY <1>0, <1>7 DEF MarkStartFailed, RecordsFit, Place, Admitted
  <2>2. status' = [status EXCEPT ![w] = "failed"]
    BY <1>7, <2>1 DEF MarkStartFailed, Terminal
  <2>3. [v \in Watches |-> Place(v)]' = [v \in Watches |-> Place(v)] /\ agy' = agy
    BY <1>0, <1>7 DEF MarkStartFailed, TypeOK, StarterGoes, Place, Admitted
  <2>4. WatchedContract!Decide(w, "failed")
    BY <2>1, <2>2, <2>3 DEF WatchedContract!Decide
  <2> QED
    BY <2>4 DEF WatchedStep, WatchedContract!Next, WatchedContract!Outcomes
<1>8. CASE StarterDies(w)
  <2>1. StarterGoes(w, "crashed") /\ UNCHANGED <<status, agy>>
    BY <1>8 DEF StarterDies
  <2>2. CASE starter[w] \in {"release", "mark"}
    BY <1>0, <2>1, <2>2, StarterRests
  <2>3. CASE starter[w] \notin {"release", "mark"}
    <3>1. starter[w] \in {"lease", "baseline", "launch", "record", "monitor"}
      BY <1>0, <1>8, <2>3 DEF StarterDies, TypeOK
    <3> QED
      BY <2>1, <3>1, StarterGivesUp
  <2> QED
    BY <2>2, <2>3
<1> QED
  BY <1>1, <1>2, <1>3, <1>4, <1>5, <1>6, <1>7, <1>8 DEF StarterStep

\* The steps of the runner, of Agy and of a person at the pane.
LEMMA RunnerImplements ==
    ASSUME WatchInv, NEW w \in Watches,
           \/ RunnerStep(w) \/ RunnerRereads(w) \/ RunnerFails(w) \/ UserClosesPane(w)
           \/ \E code \in {"ok", "fail"} : AgyEnds(w, code)
    PROVE  WatchedStep
<1>0. TypeOK /\ RecordsFit /\ RunnersFit
  BY DEF WatchInv
<1>1. CASE \/ RunnerReads(w) \/ RunnerRereads(w) \/ RunnerFinishes(w) \/ RunnerFails(w)
           \/ RunnerHangsUp(w) \/ UserClosesPane(w)
  BY <1>1, ContractRests DEF RunnerReads, RunnerRereads, RunnerFinishes, RunnerFails, RunnerHangsUp, UserClosesPane
<1>2. ASSUME runner[w].pc \in {"recording", "noting"}, UNCHANGED <<starter, agy>>,
             status' = [status EXCEPT ![w] = runner[w].seen]
      PROVE  WatchedStep
  <2>1. CASE runner[w].seen = status[w]
    BY <1>0, <1>2, <2>1, ContractRests DEF TypeOK
  <2>2. CASE runner[w].seen # status[w]
    <3>1. /\ LateLaunchErrors /\ Place(w) = "given up"
          /\ runner[w].seen = "running" /\ status[w] = "failed"
      BY <1>0, <1>2, <2>2 DEF RecordsFit, Place, Admitted
    <3>2. [v \in Watches |-> Place(v)]' = [v \in Watches |-> Place(v)]
      BY <1>2 DEF Place, Admitted
    <3>3. WatchedContract!Reopen(w)
      BY <1>2, <3>1, <3>2 DEF WatchedContract!Reopen
    <3> QED
      BY <3>3 DEF WatchedStep, WatchedContract!Next
  <2> QED
    BY <2>1, <2>2
<1>5. CASE RunnerRecords(w) \/ RunnerNotes(w)
  BY <1>2, <1>5, ContractRests DEF RunnerRecords, RunnerNotes
<1>3. CASE RunnerLaunchesAgy(w)
  <2>1. agy[w] = "unborn" /\ Place(w) # "asked"
    BY <1>0, <1>3 DEF RunnerLaunchesAgy, RunnersFit, Place, Admitted
  <2>2. [v \in Watches |-> Place(v)]' = [v \in Watches |-> Place(v)]
    BY <1>3 DEF RunnerLaunchesAgy, Place, Admitted
  <2>3. WatchedContract!StartWork(w)
    BY <1>3, <2>1, <2>2 DEF RunnerLaunchesAgy, WatchedContract!StartWork
  <2> QED
    BY <2>3 DEF WatchedStep, WatchedContract!Next
<1>4. ASSUME NEW code \in {"ok", "fail"}, AgyEnds(w, code) PROVE WatchedStep
  <2>1. [v \in Watches |-> Place(v)]' = [v \in Watches |-> Place(v)]
    BY <1>4 DEF AgyEnds, Place, Admitted
  <2>2. WatchedContract!EndWork(w, code)
    BY <1>4, <2>1 DEF AgyEnds, WatchedContract!EndWork
  <2> QED
    BY <2>2 DEF WatchedStep, WatchedContract!Next
<1> QED
  BY <1>1, <1>3, <1>4, <1>5 DEF RunnerStep

\* The steps of callers and monitors.
LEMMA ObserverImplements ==
    ASSUME WatchInv, NEW o \in Observers,
           \/ ObserverStep(o) \/ ObserverDies(o)
           \/ \E w \in Watches : CallerPolls(o, w) \/ CancelMarks(o, w)
    PROVE  WatchedStep
<1>0. TypeOK /\ RecordsFit /\ RunnersFit /\ ObserverFits(o)
  BY DEF WatchInv, ObserversFit
<1>1. CASE \/ LooksForExit(o) \/ LooksAtPane(o) \/ FinalizeReleases(o) \/ ClosesPane(o)
           \/ CancelReleases(o) \/ ObserverDies(o) \/ \E w \in Watches : CallerPolls(o, w)
  BY <1>1, ContractRests DEF LooksForExit, LooksAtPane, TakesVerdict, FinalizeReleases, ClosesPane,
     CancelReleases, ObserverDies, CallerPolls
<1>2. ASSUME NEW w \in Watches, NEW outcome \in WatchedContract!Outcomes,
             starter[w] = "started", status[w] \notin Terminal,
             status' = [status EXCEPT ![w] = outcome], UNCHANGED <<starter, agy>>,
             outcome = "completed" => agy[w] = "ok"
      PROVE  WatchedStep
  <2>1. status[w] = "running" /\ Place(w) = "admitted"
    BY <1>0, <1>2 DEF TypeOK, RecordsFit, Place, Admitted
  <2>2. [v \in Watches |-> Place(v)]' = [v \in Watches |-> Place(v)]
    BY <1>2 DEF Place, Admitted
  <2>3. WatchedContract!Decide(w, outcome)
    BY <1>2, <2>1, <2>2 DEF WatchedContract!Decide
  <2> QED
    BY <2>3 DEF WatchedStep, WatchedContract!Next
<1>3. CASE Finalize(o)
  <2>1. /\ observer[o].watch \in Watches /\ starter[observer[o].watch] = "started"
        /\ observer[o].saw = "ok" => agy[observer[o].watch] = "ok"
    BY <1>0, <1>3 DEF Finalize, ObserverFits, RunnersFit
  <2>2. CASE status[observer[o].watch] \in Terminal
    BY <1>3, <2>2, ContractRests DEF Finalize
  <2>3. CASE status[observer[o].watch] \notin Terminal
    BY <1>2, <1>3, <2>1, <2>3 DEF Finalize, WatchedContract!Outcomes
  <2> QED
    BY <2>2, <2>3
<1>4. ASSUME NEW w \in Watches, CancelMarks(o, w) PROVE WatchedStep
  BY <1>2, <1>4 DEF CancelMarks, WatchedContract!Outcomes
<1>5. CASE CancelKills(o)
  <2> DEFINE w == observer[o].watch
  <2>1. w \in Watches /\ UNCHANGED <<status, starter>>
    BY <1>0, <1>5 DEF CancelKills, ObserverFits
  <2>2. CASE agy' = agy
    BY <2>1, <2>2, ContractRests
  <2>3. CASE agy' # agy
    <3>1. agy[w] = "live" /\ agy' = [agy EXCEPT ![w] = "fail"]
      BY <1>0, <1>5, <2>3 DEF CancelKills, TypeOK
    <3>2. [v \in Watches |-> Place(v)]' = [v \in Watches |-> Place(v)]
      BY <2>1 DEF Place, Admitted
    <3>3. WatchedContract!EndWork(w, "fail")
      BY <2>1, <3>1, <3>2 DEF WatchedContract!EndWork
    <3> QED
      BY <2>1, <3>3 DEF WatchedStep, WatchedContract!Next
  <2> QED
    BY <2>2, <2>3
<1> QED
  BY <1>1, <1>3, <1>4, <1>5 DEF ObserverStep

\* For any number of watches and callers, any multiplexer and with every crash,
\* every step is a step of the contract of a repository's watches or a stutter:
\* admission excludes, work starts once, outcomes are decided once and honestly.
THEOREM WatchesKeepTheContract == Spec => ImplementsWatchContract
<1>1. Init => WatchedContract!Init
  BY DEF Init, WatchedContract!Init, Place
<1>2. WatchInv /\ [Next]_vars => [WatchedContract!Next]_(WatchedContract!contractVars)
  <2> SUFFICES ASSUME WatchInv, [Next]_vars PROVE WatchedStep
    BY DEF WatchedStep
  <2>1. CASE UNCHANGED vars
    BY <2>1, ContractRests DEF vars
  <2>2. ASSUME NEW w \in Watches, WriteStub(w) \/ StarterStep(w) \/ StarterDies(w) PROVE WatchedStep
    BY <2>2, StarterImplements
  <2>3. ASSUME NEW w \in Watches,
               \/ RunnerStep(w) \/ RunnerRereads(w) \/ RunnerFails(w) \/ UserClosesPane(w)
               \/ \E code \in {"ok", "fail"} : AgyEnds(w, code)
        PROVE  WatchedStep
    BY <2>3, RunnerImplements
  <2>4. ASSUME NEW o \in Observers,
               \/ ObserverStep(o) \/ ObserverDies(o)
               \/ \E w \in Watches : CallerPolls(o, w) \/ CancelMarks(o, w)
        PROVE  WatchedStep
    BY <2>4, ObserverImplements
  <2>5. Clients \subseteq Observers
    BY DEF Observers
  <2> QED
    BY <2>1, <2>2, <2>3, <2>4, <2>5 DEF Next
<1> QED
  BY <1>1, <1>2, WatchInvariance, PTL DEF Spec, ImplementsWatchContract, WatchedContract!Spec
=============================================================================
