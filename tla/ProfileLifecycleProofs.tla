----------------------- MODULE ProfileLifecycleProofs -----------------------
(***************************************************************************)
(* The profile registry for any number of profiles, runs and removals:     *)
(* the lifecycle invariant is inductive (CoreStep, HomesStep and           *)
(* CooldownsStep, one lemma per group of its conjuncts), and the safety    *)
(* properties of ProfileLifecycle follow from it.                          *)
(***************************************************************************)
EXTENDS ProfileLifecycle, TLAPS

\* What a process may become: it has a name, its lease excludes removals, and it
\* has verified what it runs in.
Fits(r) ==
    /\ r.pc \notin {"idle", "choose"} => r.name \in Names
    /\ r.pc \in SharingPCs => ~Excluding(r.name)
    /\ r.pc = "choose" => r.auto
    /\ r.pc \in {"launch", "run", "health"} => r.inc # 0
    /\ r.pc \in {"launch", "run", "health"} => registry[r.name].inc = r.inc
    /\ r.pc = "health" => r.outcome # "none"

LEMMA Records ==
    ASSUME CoreInv, NEW o \in Ops
    PROVE  /\ op[o] \in OpRecords
           /\ op[o].pc \notin {"idle", "choose"} => op[o].name \in Names
           /\ \A n \in Names : registry[n] \in Profiles
           /\ Fits(op[o])
BY DEF CoreInv, TypeOK, Leases, RunsVerified, Fits, Excluding

LEMMA IdleFits == IdleOp \in OpRecords /\ Fits(IdleOp)
BY LifecycleAssumption DEF IdleOp, OpRecords, Fits, SharingPCs, MaxRetries

LEMMA StopFits ==
    ASSUME CoreInv, NEW o \in Ops, op[o].pc # "idle", OpStops(o)
    PROVE  \E r \in OpRecords :
              /\ OpBecomes(o, r) /\ Fits(r)
              /\ r.pc = "idle" \/ (r.pc = "finalize" /\ o \in Watched)
              /\ r.missed = {}
<1>1. CASE OpBecomes(o, IdleOp)
  BY <1>1, IdleFits DEF IdleOp
<1>2. CASE /\ o \in Watched /\ op[o].pc \notin {"choose", "finalize"}
           /\ OpBecomes(o, [op[o] EXCEPT !.pc = "finalize", !.missed = {}])
  <2> DEFINE r == [op[o] EXCEPT !.pc = "finalize", !.missed = {}]
  <2>1. r \in OpRecords /\ r.pc = "finalize" /\ r.name = op[o].name /\ r.missed = {}
    BY Records DEF OpRecords
  <2>2. Fits(r)
    BY <1>2, <2>1, Records DEF Fits, SharingPCs
  <2>3. OpBecomes(o, r)
    BY <1>2
  <2> QED
    BY <1>2, <2>1, <2>2, <2>3
<1>3. QED
  BY <1>1, <1>2 DEF OpStops

\* Writing a profile's health leaves its incarnation alone.
LEMMA HealthShape ==
    ASSUME CoreInv, NEW n \in Names, NEW h \in Healths,
           NEW cooldown \in {"none", "running", "over"}, UpdateHealth(n, h, cooldown)
    PROVE  registry' \in [Names -> Profiles] /\ \A m \in Names : registry'[m].inc = registry[m].inc
<1> DEFINE r == [registry[n] EXCEPT !.health = h, !.cooldown = cooldown]
<1>1. registry \in [Names -> Profiles]
  BY DEF CoreInv, TypeOK
<1>2. r \in Profiles /\ r.inc = registry[n].inc
  BY <1>1 DEF Profiles
<1>3. CASE registry' = [registry EXCEPT ![n] = r]
  BY <1>1, <1>2, <1>3
<1>4. QED
  BY <1>1, <1>3 DEF UpdateHealth, ProfileBecomes

\* What a step of a run may change: it becomes something that fits, and leaves
\* alone which profiles are registered and what is being removed.
RunMoves(o) ==
    \E r \in OpRecords : OpBecomes(o, r) /\ Fits(r) /\ (r.pc = "finalize" => o \in Watched)

LEMMA RunShape ==
    ASSUME CoreInv, NEW o \in Ops, OpStep(o)
    PROVE  /\ RunMoves(o)
           /\ UNCHANGED <<leftover, created, admin>>
           /\ registry' \in [Names -> Profiles]
           /\ \A n \in Names : registry'[n].inc = registry[n].inc
           /\ home' \in [Names -> {NoHome} \cup SUBSET Incarnations]
           /\ \A n \in Names : home[n] \ NoHome \subseteq home'[n] \ NoHome
           /\ stateDirs' \in [Names -> BOOLEAN]
           /\ strays' \in [Names -> SUBSET Incarnations]
           /\ \A n \in Names : strays[n] \subseteq strays'[n]
           /\ cursor' \in Names \cup {0}
<1> USE DEF RunMoves
<1>0. /\ registry \in [Names -> Profiles]
      /\ home \in [Names -> {NoHome} \cup SUBSET Incarnations]
      /\ stateDirs \in [Names -> BOOLEAN]
      /\ strays \in [Names -> SUBSET Incarnations]
      /\ cursor \in Names \cup {0}
  BY DEF CoreInv, TypeOK
<1>20. ASSUME LeavesLease(o), op[o].pc \in {"run", "health"}
       PROVE  /\ RunMoves(o)
              /\ strays' \in [Names -> SUBSET Incarnations]
              /\ \A n \in Names : strays[n] \subseteq strays'[n]
  <2>1. op[o].name \in Names /\ op[o].inc \in Incarnations
    BY <1>20, Records DEF Fits, OpRecords, Incarnations
  <2> QED
    BY <1>0, <1>20, <2>1, StopFits DEF LeavesLease
<1>1. ASSUME SelectsNext(o) PROVE RunMoves(o) /\ cursor' \in Names \cup {0}
  <2>1. CASE op[o].pc = "choose" /\ OpStops(o) /\ UNCHANGED cursor
    BY <2>1, <1>0, StopFits
  <2>2. ASSUME NEW n \in Available, cursor' = n,
               OpBecomes(o, [op[o] EXCEPT !.pc = "record", !.name = n, !.inc = registry[n].inc])
        PROVE  RunMoves(o) /\ cursor' \in Names \cup {0}
    <3> DEFINE r == [op[o] EXCEPT !.pc = "record", !.name = n, !.inc = registry[n].inc]
    <3>1. n \in Names
      BY DEF Available
    <3>2. r \in OpRecords /\ r.pc = "record" /\ r.name = n
      BY <3>1, Records DEF OpRecords, Profiles
    <3>3. Fits(r)
      BY <3>1, <3>2 DEF Fits, SharingPCs
    <3> QED
      BY <2>2, <3>1, <3>2, <3>3
  <2>3. SeenAvailable(o) \subseteq Available
    BY DEF SeenAvailable
  <2> QED
    BY <1>1, <2>1, <2>2, <2>3 DEF SelectsNext
<1>2. ASSUME RecordsSelection(o) PROVE RunMoves(o)
  <2>1. CASE OpBecomes(o, [op[o] EXCEPT !.pc = "reread", !.missed = {}])
    <3> DEFINE r == [op[o] EXCEPT !.pc = "reread", !.missed = {}]
    <3>1. r \in OpRecords /\ r.pc = "reread" /\ r.name = op[o].name
      BY Records DEF OpRecords
    <3> QED
      BY <1>2, <2>1, <3>1, Records DEF Fits, SharingPCs, RecordsSelection
  <2>2. CASE /\ op[o].auto /\ op[o].tries < MaxRetries - 1
             /\ OpBecomes(o, [op[o] EXCEPT !.pc = "choose", !.tries = @ + 1])
    <3> DEFINE r == [op[o] EXCEPT !.pc = "choose", !.tries = @ + 1]
    <3>0. op[o] \in OpRecords /\ op[o].tries + 1 \in 0 .. MaxRetries - 1
      BY <2>2, Records DEF OpRecords, MaxRetries
    <3>1. r \in OpRecords /\ r.pc = "choose" /\ r.name = op[o].name /\ r.auto = op[o].auto
      BY <3>0 DEF OpRecords
    <3> QED
      BY <1>2, <2>2, <3>1, Records DEF Fits, SharingPCs, RecordsSelection
  <2>3. CASE OpStops(o)
    BY <1>2, <2>3, StopFits DEF RecordsSelection
  <2> QED
    BY <1>2, <2>1, <2>2, <2>3 DEF RecordsSelection
<1>3. ASSUME RereadsProfile(o) PROVE RunMoves(o)
  <2>1. CASE OpBecomes(o, [op[o] EXCEPT !.pc = "lease", !.inc = registry[op[o].name].inc])
    <3> DEFINE r == [op[o] EXCEPT !.pc = "lease", !.inc = registry[op[o].name].inc]
    <3>1. r \in OpRecords /\ r.pc = "lease" /\ r.name = op[o].name
      BY <1>3, Records DEF OpRecords, Profiles, RereadsProfile
    <3> QED
      BY <1>3, <2>1, <3>1, Records DEF Fits, SharingPCs, RereadsProfile
  <2> QED
    BY <1>3, <2>1, StopFits DEF RereadsProfile
<1>4. ASSUME TakesLease(o) PROVE RunMoves(o)
  <2>1. CASE ~Excluding(op[o].name) /\ OpGoes(o, "check")
    <3> DEFINE r == [op[o] EXCEPT !.pc = "check"]
    <3>1. r \in OpRecords /\ r.pc = "check" /\ r.name = op[o].name
      BY Records DEF OpRecords
    <3> QED
      BY <1>4, <2>1, <3>1, Records DEF Fits, SharingPCs, OpGoes, TakesLease
  <2> QED
    BY <1>4, <2>1, StopFits DEF TakesLease
<1>5. ASSUME ChecksProfile(o) PROVE RunMoves(o)
  <2>1. CASE /\ registry[op[o].name].inc # 0
             /\ OpBecomes(o, [op[o] EXCEPT !.pc = "launch", !.inc = registry[op[o].name].inc])
    <3> DEFINE r == [op[o] EXCEPT !.pc = "launch", !.inc = registry[op[o].name].inc]
    <3>1. /\ r \in OpRecords /\ r.pc = "launch" /\ r.name = op[o].name
          /\ r.inc = registry[op[o].name].inc
      BY <1>5, Records DEF OpRecords, Profiles, ChecksProfile
    <3> QED
      BY <1>5, <2>1, <3>1, Records DEF Fits, SharingPCs, ChecksProfile
  <2> QED
    BY <1>5, <2>1, StopFits DEF ChecksProfile
<1>6. ASSUME Launches(o)
      PROVE  /\ RunMoves(o)
             /\ home' \in [Names -> {NoHome} \cup SUBSET Incarnations]
             /\ \A n \in Names : home[n] \ NoHome \subseteq home'[n] \ NoHome
             /\ stateDirs' \in [Names -> BOOLEAN]
  <2>1. CASE /\ OpGoes(o, "run")
             /\ home' = [home EXCEPT ![op[o].name] = (@ \ NoHome) \cup {op[o].inc}]
             /\ stateDirs' = [stateDirs EXCEPT ![op[o].name] = TRUE]
    <3> DEFINE r == [op[o] EXCEPT !.pc = "run"]
    <3>1. r \in OpRecords /\ r.pc = "run" /\ r.name = op[o].name /\ r.inc = op[o].inc
      BY Records DEF OpRecords
    <3>2. RunMoves(o)
      BY <1>6, <2>1, <3>1, Records DEF Fits, SharingPCs, OpGoes, Launches
    <3>3. op[o].name \in Names /\ op[o].inc \in Incarnations
      BY <1>6, Records DEF Fits, Launches, OpRecords, Incarnations
    <3> QED
      BY <1>0, <2>1, <3>2, <3>3 DEF NoHome
  <2> QED
    BY <1>0, <1>6, <2>1, StopFits DEF Launches
<1>7. ASSUME AgyEnds(o)
      PROVE  /\ RunMoves(o)
             /\ strays' \in [Names -> SUBSET Incarnations]
             /\ \A n \in Names : strays[n] \subseteq strays'[n]
  <2>1. ASSUME NEW h \in {"healthy", "limited"},
               OpBecomes(o, [op[o] EXCEPT !.pc = "health", !.outcome = h])
        PROVE  RunMoves(o)
    <3> DEFINE r == [op[o] EXCEPT !.pc = "health", !.outcome = h]
    <3>1. r \in OpRecords /\ r.pc = "health" /\ r.name = op[o].name /\ r.inc = op[o].inc
          /\ r.outcome # "none"
      BY <2>1, Records DEF OpRecords
    <3> QED
      BY <1>7, <2>1, <3>1, Records DEF Fits, SharingPCs, AgyEnds
  <2> QED
    BY <1>0, <1>7, <1>20, <2>1 DEF AgyEnds
<1>8. ASSUME RecordsHealth(o) \/ FinalizesWatch(o)
      PROVE  /\ RunMoves(o)
             /\ strays' \in [Names -> SUBSET Incarnations]
             /\ \A n \in Names : strays[n] \subseteq strays'[n]
             /\ registry' \in [Names -> Profiles]
             /\ \A n \in Names : registry'[n].inc = registry[n].inc
  <2>1. op[o].name \in Names /\ op[o].pc # "idle" /\ op[o] \in OpRecords
    BY <1>8, Records DEF RecordsHealth, FinalizesWatch
  <2>2. /\ RunMoves(o)
        /\ strays' \in [Names -> SUBSET Incarnations]
        /\ \A n \in Names : strays[n] \subseteq strays'[n]
    BY <1>0, <1>8, <1>20, <2>1, StopFits DEF RecordsHealth, FinalizesWatch
  <2>3. CASE UNCHANGED registry
    BY <1>0, <2>2, <2>3
  <2>4. CASE RecordsHealth(o)
    <3>1. \/ UpdateHealth(op[o].name, op[o].outcome, "none") /\ op[o].outcome = "healthy"
          \/ UpdateHealth(op[o].name, op[o].outcome, "running")
      BY <2>4 DEF RecordsHealth
    <3>2. op[o].outcome \in Healths
      BY <2>1, <2>4, Records DEF OpRecords, Healths, Fits, RecordsHealth
    <3> QED
      BY <2>1, <2>2, <3>1, <3>2, HealthShape
  <2>5. CASE FinalizesWatch(o) /\ ~UNCHANGED registry
    <3>1. \/ UpdateHealth(op[o].name, "limited", "none")
          \/ UpdateHealth(op[o].name, "healthy", "none")
      BY <2>5 DEF FinalizesWatch
    <3>2. "limited" \in Healths /\ "healthy" \in Healths
      BY DEF Healths
    <3> QED
      BY <2>1, <2>2, <3>1, <3>2, HealthShape
  <2> QED
    BY <1>8, <2>3, <2>4, <2>5
<1>9. ASSUME LauncherDies(o)
      PROVE  /\ RunMoves(o)
             /\ strays' \in [Names -> SUBSET Incarnations]
             /\ \A n \in Names : strays[n] \subseteq strays'[n]
  BY <1>0, <1>9, <1>20, StopFits DEF LauncherDies
<1>10. ASSUME ReadsClock(o) PROVE RunMoves(o)
  <2> DEFINE r == [IdleOp EXCEPT !.pc = "choose", !.auto = TRUE]
  <2>1. r \in OpRecords /\ r.pc = "choose" /\ r.auto
    BY IdleFits DEF OpRecords, IdleOp
  <2> QED
    BY <1>10, <2>1 DEF Fits, SharingPCs, ReadsClock
<1>11. ASSUME NEW n \in Names, SelectsExplicitly(o, n) PROVE RunMoves(o)
  <2> DEFINE r == [IdleOp EXCEPT !.pc = "record", !.name = n, !.inc = registry[n].inc]
  <2>1. r \in OpRecords /\ r.pc = "record" /\ r.name = n
    BY IdleFits, Records DEF OpRecords, Profiles
  <2> QED
    BY <1>11, <2>1 DEF Fits, SharingPCs, SelectsExplicitly
<1>12. ASSUME NEW n \in Names, RunsDirectly(o, n) PROVE RunMoves(o)
  <2> DEFINE r == [IdleOp EXCEPT !.pc = "lease", !.name = n]
  <2>1. r \in OpRecords /\ r.pc = "lease" /\ r.name = n
    BY IdleFits DEF OpRecords
  <2> QED
    BY <1>12, <2>1 DEF Fits, SharingPCs, RunsDirectly
<1>13. QED
  BY <1>0, <1>1, <1>2, <1>3, <1>4, <1>5, <1>6, <1>7, <1>8, <1>9, <1>10, <1>11, <1>12
  DEF OpStep, ReadsClock, SelectsNext, RecordsSelection, RereadsProfile, TakesLease, ChecksProfile,
      Launches, AgyEnds, RecordsHealth, FinalizesWatch, LauncherDies, SelectsExplicitly, RunsDirectly

\* What an adding or removing process a may become.
AdminFits(a, r) ==
    /\ r.pc # "idle" =>
          /\ r.name \in Names
          /\ ~Sharing(r.name)
          /\ \A b \in Admins \ {a} : admin[b].pc # "idle" => admin[b].name # r.name
    /\ r.moved # NoHome => r.pc \in {"pop", "purge", "purgeState"}

Homes == {NoHome} \cup SUBSET Incarnations

LEMMA AdminRecord ==
    ASSUME CoreInv, NEW a \in Admins
    PROVE  /\ admin[a] \in AdminRecords
           /\ admin[a].pc # "idle" => admin[a].name \in Names
           /\ admin[a].pc \in {"purge", "purgeState", "sweep"} => registry[admin[a].name].inc = 0
           /\ AdminFits(a, admin[a])
BY DEF CoreInv, TypeOK, Leases, RemovalsInOrder, AdminFits, Sharing

LEMMA AdminRests ==
    ASSUME NEW a \in Admins
    PROVE  IdleAdmin \in AdminRecords /\ AdminFits(a, IdleAdmin)
BY DEF IdleAdmin, AdminRecords, AdminFits

LEMMA BesideIsHome ==
    ASSUME NEW others \in Homes, NEW c \in Homes
    PROVE  Beside(others, c) \in Homes
BY DEF Homes, Beside, NoHome

AdminMoves(a) ==
    \E r \in AdminRecords :
        /\ AdminBecomes(a, r) /\ AdminFits(a, r)
        /\ r.pc \in {"purge", "purgeState", "sweep"} => registry'[r.name].inc = 0

\* What a step of an adding or removing process may change: the registration of
\* the name it holds the lease of, and data.
LEMMA AdminShape ==
    ASSUME CoreInv, NEW a \in Admins, AdminStep(a)
    PROVE  /\ UNCHANGED <<op, strays, cursor>>
           /\ AdminMoves(a) \/ (Sweeps(a) /\ UNCHANGED registry)
           /\ registry' \in [Names -> Profiles]
           /\ \A n \in Names : n # admin[a].name \/ admin[a].pc \notin {"register", "pop"}
                               => registry'[n].inc = registry[n].inc
           /\ home' \in [Names -> Homes]
           /\ leftover' \in [Names -> Homes]
           /\ stateDirs' \in [Names -> BOOLEAN]
           /\ created' \in 0 .. MaxIncarnations
<1> USE DEF AdminMoves
<1>0. /\ registry \in [Names -> Profiles]
      /\ home \in [Names -> Homes]
      /\ leftover \in [Names -> Homes]
      /\ stateDirs \in [Names -> BOOLEAN]
      /\ created \in 0 .. MaxIncarnations
      /\ admin[a] \in AdminRecords
      /\ admin[a].pc # "idle" => admin[a].name \in Names
  BY AdminRecord DEF CoreInv, TypeOK, Homes
<1>1. ASSUME MakesLayout(a) PROVE AdminMoves(a) /\ home' \in [Names -> Homes]
  <2> DEFINE r == [admin[a] EXCEPT !.pc = "register"]
  <2>1. r \in AdminRecords /\ r.pc = "register" /\ r.name = admin[a].name /\ r.moved = admin[a].moved
    BY <1>0 DEF AdminRecords
  <2>2. AdminMoves(a)
    BY <1>1, <2>1, AdminRecord DEF AdminFits, MakesLayout, AdminGoes
  <2>3. home[admin[a].name] \ NoHome \in Homes
    BY <1>0, <1>1 DEF MakesLayout, Homes, NoHome
  <2> QED
    BY <1>0, <1>1, <2>2, <2>3 DEF MakesLayout
<1>2. ASSUME Registers(a)
      PROVE  /\ AdminMoves(a)
             /\ registry' \in [Names -> Profiles]
             /\ \A n \in Names : n # admin[a].name => registry'[n] = registry[n]
             /\ created' \in 0 .. MaxIncarnations
  <2>1. AdminMoves(a)
    BY <1>2, AdminRests DEF Registers, AdminStops, IdleAdmin
  <2>2. CASE /\ created < MaxIncarnations
             /\ created' = created + 1
             /\ ProfileBecomes(admin[a].name, NewProfile(created + 1))
    <3>1. created + 1 \in 0 .. MaxIncarnations
      BY <1>0, <2>2, LifecycleAssumption
    <3>2. NewProfile(created + 1) \in Profiles
      BY <3>1 DEF NewProfile, Profiles, Healths
    <3> QED
      BY <1>0, <2>1, <2>2, <3>1, <3>2 DEF ProfileBecomes
  <2> QED
    BY <1>0, <1>2, <2>1, <2>2 DEF Registers
<1>3. ASSUME StagesHome(a) PROVE AdminMoves(a) /\ home' \in [Names -> Homes]
  <2>1. CASE /\ AdminBecomes(a, [admin[a] EXCEPT !.pc = "pop", !.moved = home[admin[a].name]])
             /\ home' = [home EXCEPT ![admin[a].name] = NoHome]
    <3> DEFINE r == [admin[a] EXCEPT !.pc = "pop", !.moved = home[admin[a].name]]
    <3>1. r \in AdminRecords /\ r.pc = "pop" /\ r.name = admin[a].name
      BY <1>0, <1>3 DEF AdminRecords, Homes, StagesHome
    <3>2. AdminMoves(a)
      BY <1>3, <2>1, <3>1, AdminRecord DEF AdminFits, StagesHome
    <3> QED
      BY <1>0, <2>1, <3>2 DEF Homes
  <2> QED
    BY <1>0, <1>3, <2>1, AdminRests DEF StagesHome, AdminStops, IdleAdmin
<1>4. ASSUME Unregisters(a)
      PROVE  /\ AdminMoves(a)
             /\ registry' \in [Names -> Profiles]
             /\ \A n \in Names : n # admin[a].name => registry'[n] = registry[n]
             /\ home' \in [Names -> Homes]
             /\ leftover' \in [Names -> Homes]
  <2>0. admin[a].moved \in Homes /\ admin[a].name \in Names /\ admin[a].pc = "pop"
    BY <1>0, <1>4 DEF AdminRecords, Homes, Unregisters
  <2>1. CASE ProfileBecomes(admin[a].name, NoProfile) /\ AdminGoes(a, "purge")
    <3> DEFINE r == [admin[a] EXCEPT !.pc = "purge"]
    <3>1. r \in AdminRecords /\ r.pc = "purge" /\ r.name = admin[a].name
      BY <1>0 DEF AdminRecords
    <3>2. NoProfile \in Profiles /\ NoProfile.inc = 0
      BY LifecycleAssumption DEF NoProfile, Profiles, Healths
    <3>3. /\ registry' \in [Names -> Profiles]
          /\ \A n \in Names : n # admin[a].name => registry'[n] = registry[n]
          /\ registry'[admin[a].name].inc = 0
      BY <1>0, <2>0, <2>1, <3>2 DEF ProfileBecomes
    <3>4. AdminMoves(a)
      <4>1. AdminFits(a, r)
        BY <2>0, <3>1, AdminRecord DEF AdminFits
      <4>2. AdminBecomes(a, r)
        BY <2>1 DEF AdminGoes
      <4>3. registry'[r.name].inc = 0
        BY <3>1, <3>3
      <4> QED
        BY <3>1, <4>1, <4>2, <4>3
    <3>5. UNCHANGED <<home, leftover>>
      BY <1>4, <2>1, <3>1, AdminRests DEF Unregisters, AdminStops, AdminGoes, AdminBecomes, IdleAdmin, CoreInv, TypeOK
    <3> QED
      BY <1>0, <3>3, <3>4, <3>5
  <2>2. CASE AdminStops(a) /\ UNCHANGED registry
    <3>1. AdminMoves(a)
      BY <2>2, AdminRests DEF AdminStops, IdleAdmin
    <3>2. Beside(leftover[admin[a].name], admin[a].moved) \in Homes
      BY <1>0, <2>0, BesideIsHome
    <3> QED
      BY <1>0, <1>4, <2>0, <2>2, <3>1, <3>2 DEF Unregisters
  <2> QED
    BY <1>4, <2>1, <2>2 DEF Unregisters
<1>5. ASSUME Purges(a) PROVE AdminMoves(a) /\ leftover' \in [Names -> Homes]
  <2>0. admin[a].moved \in Homes /\ admin[a].name \in Names /\ admin[a].pc = "purge"
    BY <1>0, <1>5 DEF AdminRecords, Homes, Purges
  <2>1. CASE AdminGoes(a, "purgeState") /\ UNCHANGED leftover
    <3> DEFINE r == [admin[a] EXCEPT !.pc = "purgeState"]
    <3>1. r \in AdminRecords /\ r.pc = "purgeState" /\ r.name = admin[a].name
      BY <1>0 DEF AdminRecords
    <3>2. registry'[r.name].inc = 0
      BY <1>5, <2>0, <3>1, AdminRecord DEF Purges
    <3> QED
      BY <1>0, <2>0, <2>1, <3>1, <3>2, AdminRecord DEF AdminFits, AdminGoes
  <2>2. CASE /\ leftover' = [leftover EXCEPT ![admin[a].name] = Beside(@, admin[a].moved)]
             /\ AdminStops(a)
    <3>1. Beside(leftover[admin[a].name], admin[a].moved) \in Homes
      BY <1>0, <2>0, BesideIsHome
    <3> QED
      BY <1>0, <2>0, <2>2, <3>1, AdminRests DEF AdminStops, IdleAdmin
  <2> QED
    BY <1>5, <2>1, <2>2 DEF Purges
<1>6. ASSUME PurgesState(a) PROVE AdminMoves(a) /\ stateDirs' \in [Names -> BOOLEAN]
  BY <1>0, <1>6, AdminRests DEF PurgesState, AdminStops, IdleAdmin
<1>7. ASSUME Sweeps(a)
      PROVE leftover' \in [Names -> Homes] /\ stateDirs' \in [Names -> BOOLEAN]
  BY <1>0, <1>7 DEF Sweeps, Homes
<1>8. ASSUME AdminDies(a) PROVE AdminMoves(a) /\ leftover' \in [Names -> Homes]
  <2>1. admin[a].moved \in Homes /\ admin[a].name \in Names
    BY <1>0, <1>8 DEF AdminRecords, Homes, AdminDies
  <2>2. Beside(leftover[admin[a].name], admin[a].moved) \in Homes
    BY <1>0, <2>1, BesideIsHome
  <2> QED
    BY <1>0, <1>8, <2>1, <2>2, AdminRests DEF AdminDies, AdminStops, IdleAdmin
<1>9. ASSUME NEW n \in Names, StartsAdd(a, n) PROVE AdminMoves(a)
  <2> DEFINE r == [IdleAdmin EXCEPT !.pc = "layout", !.name = n]
  <2>1. r \in AdminRecords /\ r.pc = "layout" /\ r.name = n /\ r.moved = NoHome
    BY DEF AdminRecords, IdleAdmin
  <2> QED
    BY <1>9, <2>1 DEF StartsAdd, AdminFits, CanExclude, Excluding
<1>10. ASSUME NEW n \in Names, StartsRemove(a, n) PROVE AdminMoves(a)
  <2> DEFINE r == [IdleAdmin EXCEPT !.name = n,
                     !.pc = IF registry[n].inc # 0 THEN "stage" ELSE "sweep"]
  <2>1. /\ r \in AdminRecords /\ r.pc \in {"stage", "sweep"} /\ r.name = n /\ r.moved = NoHome
        /\ r.pc = "sweep" => registry[n].inc = 0
    BY DEF AdminRecords, IdleAdmin
  <2>2. AdminBecomes(a, r) /\ UNCHANGED registry
    BY <1>10 DEF StartsRemove
  <2>3. AdminFits(a, r)
    BY <1>10, <2>1 DEF StartsRemove, AdminFits, CanExclude, Excluding
  <2> QED
    BY <2>1, <2>2, <2>3
<1>11. QED
  BY <1>0, <1>1, <1>2, <1>3, <1>4, <1>5, <1>6, <1>7, <1>8, <1>9, <1>10
  DEF AdminStep, MakesLayout, Registers, StagesHome, Unregisters, Purges, PurgesState, Sweeps,
      AdminDies, StartsAdd, StartsRemove

\* Of a process, only the clock it has read grows old.
LEMMA SwitchedOps ==
    ASSUME CoreInv, NEW n \in Names, Enable(n) \/ Disable(n) \/ ResetHealth(n) \/ CooldownEnds(n)
    PROVE  /\ op' \in [Ops -> OpRecords]
           /\ \A o \in Ops : /\ op'[o].pc = op[o].pc /\ op'[o].name = op[o].name
                             /\ op'[o].inc = op[o].inc /\ op'[o].outcome = op[o].outcome
                             /\ op'[o].auto = op[o].auto /\ op'[o].tries = op[o].tries
<1>0. op \in [Ops -> OpRecords]
  BY DEF CoreInv, TypeOK
<1>1. CASE UNCHANGED op
  BY <1>0, <1>1
<1>2. CASE CooldownEnds(n)
  <2>1. ASSUME NEW o \in Ops
        PROVE  LET r == [op[o] EXCEPT !.missed = @ \cup {n}]
               IN  /\ r \in OpRecords /\ r.pc = op[o].pc /\ r.name = op[o].name /\ r.inc = op[o].inc
                   /\ r.outcome = op[o].outcome /\ r.auto = op[o].auto /\ r.tries = op[o].tries
    BY <1>0 DEF OpRecords
  <2> QED
    BY <1>0, <1>2, <2>1 DEF CooldownEnds
<1> QED
  BY <1>1, <1>2 DEF Enable, Disable, ResetHealth

\* Enabling, disabling, resetting and the clock change a profile, not which one it is.
LEMMA SwitchShape ==
    ASSUME CoreInv, NEW n \in Names, Enable(n) \/ Disable(n) \/ ResetHealth(n) \/ CooldownEnds(n)
    PROVE  /\ UNCHANGED <<home, leftover, stateDirs, strays, cursor, created, admin>>
           /\ registry' \in [Names -> Profiles]
           /\ \A m \in Names : registry'[m].inc = registry[m].inc
<1>0. registry \in [Names -> Profiles] /\ registry[n] \in Profiles
  BY DEF CoreInv, TypeOK
<1>1. ASSUME NEW r \in Profiles, r.inc = registry[n].inc, ProfileBecomes(n, r)
      PROVE  registry' \in [Names -> Profiles] /\ \A m \in Names : registry'[m].inc = registry[m].inc
  BY <1>0, <1>1 DEF ProfileBecomes
<1>2. CASE Enable(n)
  <2> DEFINE h == IF registry[n].health # "disabled" THEN registry[n].health
                  ELSE IF registry[n].prior = "none" THEN "untested" ELSE registry[n].prior
             r == [registry[n] EXCEPT !.enabled = TRUE, !.health = h, !.prior = "none"]
  <2>1. h \in Healths
    BY <1>0 DEF Profiles, Healths
  <2>2. r \in Profiles /\ r.inc = registry[n].inc
    BY <1>0, <2>1 DEF Profiles
  <2>3. ProfileBecomes(n, r)
    BY <1>2 DEF Enable
  <2> QED
    BY <1>1, <1>2, <2>2, <2>3 DEF Enable
<1>3. CASE Disable(n)
  <2> DEFINE p == IF registry[n].health # "disabled" THEN registry[n].health ELSE registry[n].prior
             r == [registry[n] EXCEPT !.enabled = FALSE, !.prior = p, !.health = "disabled"]
  <2>1. p \in (Healths \ {"disabled"}) \cup {"none"}
    BY <1>0 DEF Profiles
  <2>2. r \in Profiles /\ r.inc = registry[n].inc
    BY <1>0, <2>1 DEF Profiles, Healths
  <2>3. ProfileBecomes(n, r)
    BY <1>3 DEF Disable
  <2> QED
    BY <1>1, <1>3, <2>2, <2>3 DEF Disable
<1>4. CASE ResetHealth(n)
  <2> DEFINE r == [registry[n] EXCEPT !.health = "healthy", !.cooldown = "none", !.prior = "none"]
  <2>1. r \in Profiles /\ r.inc = registry[n].inc
    BY <1>0 DEF Profiles, Healths
  <2> QED
    BY <1>1, <1>4, <2>1 DEF ResetHealth
<1>5. CASE CooldownEnds(n)
  <2> DEFINE r == [registry[n] EXCEPT !.cooldown = "over"]
  <2>1. r \in Profiles /\ r.inc = registry[n].inc
    BY <1>0 DEF Profiles
  <2> QED
    BY <1>1, <1>5, <2>1 DEF CooldownEnds
<1>6. QED
  BY <1>2, <1>3, <1>4, <1>5

\* A stray adds to homes only.
LEMMA StrayShape ==
    ASSUME CoreInv, NEW n \in Names, StrayWorks(n)
    PROVE  /\ home' \in [Names -> {NoHome} \cup SUBSET Incarnations]
           /\ \A m \in Names : /\ home[m] \ NoHome \subseteq home'[m] \ NoHome
                             /\ home'[m] \ NoHome \subseteq home[m] \cup strays[m]
<1>1. /\ home \in [Names -> {NoHome} \cup SUBSET Incarnations]
      /\ strays \in [Names -> SUBSET Incarnations]
  BY DEF CoreInv, TypeOK
<1> QED
  BY <1>1 DEF StrayWorks, NoHome, Incarnations

LEMMA CoreStep == CoreInv /\ [Next]_vars => CoreInv'
<1> SUFFICES ASSUME CoreInv, [Next]_vars PROVE CoreInv'
  OBVIOUS
<1>0. /\ op \in [Ops -> OpRecords] /\ admin \in [Admins -> AdminRecords]
      /\ \A o \in Ops : Fits(op[o])
      /\ \A a \in Admins :
            /\ AdminFits(a, admin[a])
            /\ admin[a].pc \in {"purge", "purgeState", "sweep"} => registry[admin[a].name].inc = 0
  BY Records, AdminRecord DEF CoreInv, TypeOK
<1>1. ASSUME NEW o \in Ops, OpStep(o) PROVE CoreInv'
  <2>1. PICK r \in OpRecords : OpBecomes(o, r) /\ Fits(r)
    BY <1>1, RunShape DEF RunMoves
  <2>2. op' \in [Ops -> OpRecords] /\ op'[o] = r /\ \A p \in Ops \ {o} : op'[p] = op[p]
    BY <1>0, <2>1 DEF OpBecomes
  <2>3. UNCHANGED <<leftover, created, admin>> /\ \A n \in Names : registry'[n].inc = registry[n].inc
    BY <1>1, RunShape
  <2>4. TypeOK'
    BY <1>1, <2>2, <2>3, RunShape DEF CoreInv, TypeOK
  <2>5. \A p \in Ops : Fits(op'[p])
    BY <1>0, <2>1, <2>2
  <2>6. Leases'
    BY <2>2, <2>3, <2>5 DEF CoreInv, Leases, Fits, Excluding
  <2>7. RunsVerified'
    BY <2>3, <2>5 DEF RunsVerified, Fits
  <2>8. RemovalsInOrder'
    BY <1>0, <2>3 DEF RemovalsInOrder, AdminFits
  <2> QED
    BY <2>4, <2>6, <2>7, <2>8 DEF CoreInv
<1>2. ASSUME NEW a \in Admins, AdminMoves(a), AdminStep(a) PROVE CoreInv'
  <2>1. PICK r \in AdminRecords :
            /\ AdminBecomes(a, r) /\ AdminFits(a, r)
            /\ r.pc \in {"purge", "purgeState", "sweep"} => registry'[r.name].inc = 0
    BY <1>2 DEF AdminMoves
  <2>2. admin' \in [Admins -> AdminRecords] /\ admin'[a] = r
        /\ \A b \in Admins \ {a} : admin'[b] = admin[b]
    BY <1>0, <2>1 DEF AdminBecomes
  <2>3. /\ UNCHANGED <<op, strays, cursor>>
        /\ \A n \in Names : n # admin[a].name \/ admin[a].pc \notin {"register", "pop"}
                            => registry'[n].inc = registry[n].inc
    BY <1>2, AdminShape
  <2>4. TypeOK'
    BY <1>2, <2>2, <2>3, AdminShape DEF CoreInv, TypeOK, Homes
  <2>5. Leases'
    BY <1>0, <2>1, <2>2, <2>3 DEF CoreInv, Leases, AdminFits, Sharing
  <2>6. RunsVerified'
    <3>1. ASSUME NEW o \in Ops, op[o].pc \in {"launch", "run", "health"}
          PROVE  registry'[op[o].name].inc = registry[op[o].name].inc
      BY <2>3, <3>1, <1>0 DEF CoreInv, Leases, SharingPCs
    <3> QED
      BY <2>3, <3>1 DEF CoreInv, RunsVerified
  <2>7. RemovalsInOrder'
    <3>1. ASSUME NEW b \in Admins \ {a}, admin[b].pc \in {"purge", "purgeState", "sweep"}
          PROVE  registry'[admin[b].name].inc = registry[admin[b].name].inc
      BY <2>3, <3>1, <1>0 DEF CoreInv, Leases
    <3> QED
      BY <1>0, <2>1, <2>2, <3>1 DEF CoreInv, RemovalsInOrder, AdminFits
  <2> QED
    BY <2>4, <2>5, <2>6, <2>7 DEF CoreInv
<1>3. ASSUME NEW a \in Admins, Sweeps(a), AdminStep(a) PROVE CoreInv'
  <2>1. UNCHANGED <<op, strays, cursor, registry>>
    BY <1>3, AdminShape DEF Sweeps
  <2>2. \A b \in Admins : /\ admin'[b] \in AdminRecords
                          /\ admin'[b] = IdleAdmin \/ (admin'[b].pc = admin[b].pc
                                /\ admin'[b].name = admin[b].name /\ admin'[b].moved \in {admin[b].moved, NoHome})
    <3>1. IdleAdmin \in AdminRecords
      BY DEF IdleAdmin, AdminRecords
    <3>2. \A b \in Admins : [admin[b] EXCEPT !.moved = NoHome] \in AdminRecords
      BY <1>0 DEF AdminRecords
    <3> QED
      BY <1>0, <1>3, <3>1, <3>2 DEF Sweeps, AdminRecords
  <2>3. TypeOK'
    <3>1. admin' \in [Admins -> AdminRecords]
      BY <1>3, <2>2 DEF Sweeps
    <3> QED
      BY <1>3, <2>1, <3>1, AdminShape DEF CoreInv, TypeOK, Homes
  <2>4. Leases'
    BY <2>1, <2>2 DEF CoreInv, Leases, IdleAdmin
  <2>5. RunsVerified'
    BY <2>1 DEF CoreInv, RunsVerified
  <2>6. RemovalsInOrder'
    BY <2>1, <2>2 DEF CoreInv, RemovalsInOrder, IdleAdmin
  <2> QED
    BY <2>3, <2>4, <2>5, <2>6 DEF CoreInv
<1>4. ASSUME NEW n \in Names, Enable(n) \/ Disable(n) \/ ResetHealth(n) \/ CooldownEnds(n)
      PROVE  CoreInv'
  <2>1. /\ UNCHANGED <<home, leftover, stateDirs, strays, cursor, created, admin>>
        /\ registry' \in [Names -> Profiles]
        /\ \A m \in Names : registry'[m].inc = registry[m].inc
    BY <1>4, SwitchShape
  <2>2. /\ op' \in [Ops -> OpRecords]
        /\ \A o \in Ops : op'[o].pc = op[o].pc /\ op'[o].name = op[o].name
                        /\ op'[o].inc = op[o].inc /\ op'[o].outcome = op[o].outcome
                        /\ op'[o].auto = op[o].auto
    BY <1>4, SwitchedOps
  <2> QED
    BY <2>1, <2>2 DEF CoreInv, TypeOK, Leases, RunsVerified, RemovalsInOrder, SharingPCs
<1>7. ASSUME NEW n \in Names, StrayWorks(n) PROVE CoreInv'
  BY <1>7, StrayShape DEF CoreInv, TypeOK, Leases, RunsVerified, RemovalsInOrder, StrayWorks
<1>5. CASE UNCHANGED vars
  BY <1>5 DEF vars, CoreInv, TypeOK, Leases, RunsVerified, RemovalsInOrder
<1>6. QED
  BY <1>1, <1>2, <1>3, <1>4, <1>5, <1>7, AdminShape DEF Next

\* Of the steps of a run only a launch touches its home; nothing else starts to run.
LEMMA HomesUntouched ==
    ASSUME CoreInv, NEW o \in Ops, OpStep(o), ~Launches(o)
    PROVE  UNCHANGED home /\ op'[o].pc # "run"
<1>0. op \in [Ops -> OpRecords]
  BY DEF CoreInv, TypeOK
<1>1. ASSUME NEW r, OpBecomes(o, r), r.pc # "run"
      PROVE  op'[o].pc # "run"
  BY <1>0, <1>1 DEF OpBecomes
<1>2. ASSUME OpStops(o) PROVE op'[o].pc # "run"
  <2>1. [op[o] EXCEPT !.pc = "finalize", !.missed = {}].pc = "finalize" /\ IdleOp.pc = "idle"
    BY <1>0 DEF IdleOp, OpRecords
  <2> QED
    BY <1>1, <1>2, <2>1 DEF OpStops, OpGoes
<1>3. CASE SelectsNext(o)
  <2>1. ASSUME NEW n \in SeenAvailable(o),
               OpBecomes(o, [op[o] EXCEPT !.pc = "record", !.name = n, !.inc = registry[n].inc])
        PROVE  op'[o].pc = "record"
    <3> DEFINE r == [op[o] EXCEPT !.pc = "record", !.name = n, !.inc = registry[n].inc]
    <3>1. r.pc = "record"
      BY <1>0 DEF OpRecords
    <3>2. OpBecomes(o, r)
      BY <2>1
    <3> HIDE DEF r
    <3> QED
      BY <1>0, <3>1, <3>2 DEF OpBecomes
  <2> QED
    BY <1>2, <1>3, <2>1 DEF SelectsNext
<1>4. CASE RecordsSelection(o)
  <2>1. [op[o] EXCEPT !.pc = "reread", !.missed = {}].pc = "reread"
        /\ [op[o] EXCEPT !.pc = "choose", !.tries = @ + 1].pc = "choose"
    BY <1>0 DEF OpRecords
  <2> QED
    BY <1>1, <1>2, <1>4, <2>1 DEF RecordsSelection, OpGoes
<1>5. CASE RereadsProfile(o) \/ TakesLease(o) \/ ChecksProfile(o)
  <2>1. /\ [op[o] EXCEPT !.pc = "lease", !.inc = registry[op[o].name].inc].pc = "lease"
        /\ [op[o] EXCEPT !.pc = "check"].pc = "check"
        /\ [op[o] EXCEPT !.pc = "launch", !.inc = registry[op[o].name].inc].pc = "launch"
    BY <1>0 DEF OpRecords
  <2> QED
    BY <1>1, <1>2, <1>5, <2>1 DEF RereadsProfile, TakesLease, ChecksProfile, OpGoes
<1>6. CASE AgyEnds(o)
  <2>1. ASSUME NEW h \in {"healthy", "limited"}
        PROVE  [op[o] EXCEPT !.pc = "health", !.outcome = h].pc = "health"
    BY <1>0 DEF OpRecords
  <2> QED
    BY <1>1, <1>2, <1>6, <2>1 DEF AgyEnds, LeavesLease
<1>7. CASE RecordsHealth(o) \/ FinalizesWatch(o) \/ LauncherDies(o)
  BY <1>2, <1>7 DEF RecordsHealth, FinalizesWatch, LauncherDies, LeavesLease
<1>10. CASE ReadsClock(o)
  <2>1. [IdleOp EXCEPT !.pc = "choose", !.auto = TRUE].pc = "choose"
    BY DEF IdleOp
  <2> QED
    BY <1>1, <1>10, <2>1 DEF ReadsClock
<1>8. ASSUME NEW n \in Names, SelectsExplicitly(o, n) \/ RunsDirectly(o, n)
      PROVE  UNCHANGED home /\ op'[o].pc # "run"
  <2>1. /\ [IdleOp EXCEPT !.pc = "record", !.name = n, !.inc = registry[n].inc].pc = "record"
        /\ [IdleOp EXCEPT !.pc = "lease", !.name = n].pc = "lease"
    BY DEF IdleOp
  <2> QED
    BY <1>1, <1>8, <2>1 DEF SelectsExplicitly, RunsDirectly
<1>9. QED
  BY <1>3, <1>4, <1>5, <1>6, <1>7, <1>8, <1>10 DEF OpStep

\* Homes stay the homes of their incarnations and of the strays.
LEMMA HomesStep ==
    ASSUME CoreInv, HomesFit, [Next]_vars
    PROVE  HomesFit'
<1>0. /\ op \in [Ops -> OpRecords] /\ admin \in [Admins -> AdminRecords]
      /\ home \in [Names -> Homes] /\ registry \in [Names -> Profiles]
      /\ strays \in [Names -> SUBSET Incarnations]
  BY DEF CoreInv, TypeOK, Homes
<1>1. ASSUME NEW o \in Ops, OpStep(o) PROVE HomesFit'
  <2>1. PICK r \in OpRecords : OpBecomes(o, r) /\ Fits(r)
    BY <1>1, RunShape DEF RunMoves
  <2>2. op'[o] = r /\ \A p \in Ops \ {o} : op'[p] = op[p]
    BY <1>0, <2>1 DEF OpBecomes
  <2>3. /\ UNCHANGED admin /\ \A n \in Names : registry'[n].inc = registry[n].inc
        /\ \A n \in Names : strays[n] \subseteq strays'[n]
    BY <1>1, RunShape
  <2>4. /\ \A a \in Admins : admin[a].pc = "pop" => admin[a].name \in Names
        /\ \A p \in Ops : op[p].pc = "run" => op[p].name \in Names
    BY AdminRecord, Records
  <2>5. ASSUME UNCHANGED home, op'[o].pc # "run" PROVE HomesFit'
    BY <2>2, <2>3, <2>4, <2>5 DEF HomesFit
  <2>6. ASSUME Launches(o), OpStops(o), UNCHANGED home PROVE HomesFit'
    <3>1. PICK q \in OpRecords : OpBecomes(o, q) /\ q.pc \in {"idle", "finalize"}
      BY <2>6, StopFits DEF Launches
    <3>2. op'[o] = q
      BY <1>0, <3>1 DEF OpBecomes
    <3> QED
      BY <2>5, <2>6, <3>1, <3>2
  <2>7. ASSUME Launches(o), OpGoes(o, "run"),
               home' = [home EXCEPT ![op[o].name] = (@ \ NoHome) \cup {op[o].inc}]
        PROVE  HomesFit'
    <3> DEFINE n == op[o].name
    <3>1. /\ n \in Names /\ op[o].inc # 0 /\ registry[n].inc = op[o].inc
          /\ op[o].pc \in SharingPCs
      BY <2>7, Records DEF Launches, Fits, SharingPCs
    <3>2. op'[o].pc = "run" /\ op'[o].name = n /\ op'[o].inc = op[o].inc
      BY <1>0, <2>7 DEF OpGoes, OpBecomes, OpRecords
    <3>3. /\ home'[n] = (home[n] \ NoHome) \cup {op[o].inc}
          /\ \A m \in Names \ {n} : home'[m] = home[m]
      BY <1>0, <2>7, <3>1
    <3>4. \A m \in Names : home'[m] \ NoHome \subseteq {registry'[m].inc} \cup strays'[m]
      BY <2>3, <3>1, <3>3 DEF HomesFit
    <3>5. \A p \in Ops : op'[p].pc = "run" => op'[p].inc \in home'[op'[p].name]
      <4>1. ASSUME NEW p \in Ops \ {o}, op[p].pc = "run"
            PROVE  op[p].inc \in home'[op[p].name]
        BY <2>4, <3>3, <4>1, Records DEF HomesFit, Fits, NoHome
      <4> QED
        BY <2>2, <3>2, <3>3, <4>1
    <3>6. \A a \in Admins : admin[a].pc = "pop" => admin[a].name # n
      BY <3>1 DEF CoreInv, Leases
    <3> QED
      BY <2>3, <2>4, <3>3, <3>4, <3>5, <3>6 DEF HomesFit
  <2> QED
    BY <1>1, <2>5, <2>6, <2>7, HomesUntouched DEF Launches
<1>2. ASSUME NEW a \in Admins, AdminStep(a) PROVE HomesFit'
  <2> DEFINE n == admin[a].name
  <2>1. UNCHANGED <<op, strays>>
    BY <1>2, AdminShape
  <2>2. \A m \in Names : m # n \/ admin[a].pc \notin {"register", "pop"}
                           => registry'[m].inc = registry[m].inc
    BY <1>2, AdminShape
  <2>3. /\ \A o \in Ops : op[o].pc = "run" => op[o].name \in Names
                         /\ (admin[a].pc # "idle" => op[o].name # n)
        /\ \A b \in Admins : admin[b].pc # "idle" => admin[b].name \in Names
                         /\ (b # a /\ admin[a].pc # "idle" => admin[b].name # n)
    BY <1>2 DEF CoreInv, Leases, SharingPCs
  \* What is left to show of a step: the home of the name, and what may go back to it.
  <2>4. ASSUME admin[a].pc # "idle",
               \A b \in Admins \ {a} : admin'[b] = admin[b],
               \A m \in Names \ {n} : home'[m] = home[m],
               home'[n] \ NoHome \subseteq {registry'[n].inc} \cup strays[n],
               admin'[a].pc = "pop" =>
                  /\ admin'[a].name = n /\ home'[n] \ NoHome \subseteq strays[n]
                  /\ admin'[a].moved \ NoHome \subseteq {registry'[n].inc} \cup strays[n]
        PROVE  HomesFit'
    BY <2>1, <2>2, <2>3, <2>4 DEF HomesFit
  <2>5. ASSUME NEW r, AdminBecomes(a, r)
        PROVE  admin'[a] = r /\ \A b \in Admins \ {a} : admin'[b] = admin[b]
    BY <1>0, <2>5 DEF AdminBecomes
  <2>6. IdleAdmin.pc = "idle"
    BY DEF IdleAdmin
  <2>7. \A pc \in {"register", "purge", "purgeState"} : [admin[a] EXCEPT !.pc = pc].pc = pc
    BY <1>0 DEF AdminRecords
  <2>8. CASE MakesLayout(a)
    BY <1>0, <2>2, <2>3, <2>4, <2>5, <2>7, <2>8 DEF MakesLayout, AdminGoes, HomesFit
  <2>9. CASE Registers(a)
    <3>1. n \in Names /\ admin[a].pc = "register" /\ UNCHANGED home
      BY <2>3, <2>9 DEF Registers
    <3>2. home[n] \ NoHome \subseteq {registry'[n].inc} \cup strays[n]
      <4>1. CASE registry[n].inc = 0
        BY <1>0, <3>1, <4>1 DEF HomesFit, NoHome, Homes, Incarnations
      <4>2. CASE registry' = registry
        BY <3>1, <4>2 DEF HomesFit
      <4> QED
        BY <2>9, <4>1, <4>2 DEF Registers
    <3>3. AdminBecomes(a, IdleAdmin)
      BY <2>9 DEF Registers, AdminStops
    <3> QED
      BY <2>4, <2>5, <2>6, <3>1, <3>2, <3>3
  <2>10. CASE StagesHome(a)
    <3>1. n \in Names /\ admin[a].pc = "stage" /\ UNCHANGED registry
      BY <2>3, <2>10 DEF StagesHome
    <3>2. CASE /\ AdminBecomes(a, [admin[a] EXCEPT !.pc = "pop", !.moved = home[n]])
               /\ home' = [home EXCEPT ![n] = NoHome]
      <4> DEFINE r == [admin[a] EXCEPT !.pc = "pop", !.moved = home[n]]
      <4>1. r.pc = "pop" /\ r.name = n /\ r.moved = home[n]
        BY <1>0 DEF AdminRecords
      <4>2. home'[n] = NoHome /\ \A m \in Names \ {n} : home'[m] = home[m]
        BY <1>0, <3>1, <3>2
      <4>3. home[n] \ NoHome \subseteq {registry[n].inc} \cup strays[n]
        BY <3>1 DEF HomesFit
      <4> QED
        BY <2>4, <2>5, <3>1, <3>2, <4>1, <4>2, <4>3
    <3>3. CASE AdminStops(a) /\ UNCHANGED home
      BY <2>4, <2>5, <2>6, <3>1, <3>3 DEF AdminStops, HomesFit
    <3> QED
      BY <2>10, <3>2, <3>3 DEF StagesHome
  <2>11. CASE Unregisters(a)
    <3>1. /\ n \in Names /\ admin[a].pc = "pop" /\ home[n] \ NoHome \subseteq strays[n]
          /\ admin[a].moved \ NoHome \subseteq {registry[n].inc} \cup strays[n]
      BY <2>3, <2>11 DEF Unregisters, HomesFit
    <3>2. CASE AdminGoes(a, "purge") /\ UNCHANGED home
      BY <2>4, <2>5, <2>7, <3>1, <3>2 DEF AdminGoes
    <3>3. CASE /\ home' = [home EXCEPT ![n] = admin[a].moved]
               /\ AdminStops(a) /\ UNCHANGED registry
      BY <1>0, <2>4, <2>5, <2>6, <3>1, <3>3 DEF AdminStops
    <3>4. CASE AdminStops(a) /\ UNCHANGED home
      BY <2>4, <2>5, <2>6, <3>1, <3>4 DEF AdminStops
    <3> QED
      BY <2>11, <3>2, <3>3, <3>4 DEF Unregisters
  <2>12. CASE Purges(a)
    BY <2>3, <2>4, <2>5, <2>6, <2>7, <2>12 DEF Purges, AdminGoes, AdminStops, HomesFit
  <2>13. CASE PurgesState(a)
    BY <2>3, <2>4, <2>5, <2>6, <2>13 DEF PurgesState, AdminStops, HomesFit
  <2>14. CASE Sweeps(a)
    <3>1. UNCHANGED <<home, registry, op, strays>>
      BY <2>1, <2>14 DEF Sweeps
    <3>2. \A b \in Admins : admin'[b].pc = "pop" =>
              /\ admin[b].pc = "pop" /\ admin'[b].name = admin[b].name
              /\ admin'[b].moved \in {admin[b].moved, NoHome}
      BY <1>0, <2>14 DEF Sweeps, IdleAdmin, AdminRecords
    <3> QED
      BY <3>1, <3>2 DEF HomesFit
  <2>15. CASE AdminDies(a)
    BY <2>3, <2>4, <2>5, <2>6, <2>15 DEF AdminDies, AdminStops, HomesFit
  <2>16. ASSUME NEW m \in Names, StartsAdd(a, m) \/ StartsRemove(a, m) PROVE HomesFit'
    <3>1. /\ [IdleAdmin EXCEPT !.pc = "layout", !.name = m].pc = "layout"
          /\ [IdleAdmin EXCEPT !.name = m,
                 !.pc = IF registry[m].inc # 0 THEN "stage" ELSE "sweep"].pc \in {"stage", "sweep"}
      BY DEF IdleAdmin
    <3>2. admin'[a].pc # "pop" /\ \A b \in Admins \ {a} : admin'[b] = admin[b]
      BY <2>5, <2>16, <3>1 DEF StartsAdd, StartsRemove
    <3>3. UNCHANGED <<home, registry>>
      BY <2>16 DEF StartsAdd, StartsRemove
    <3> QED
      BY <2>1, <3>2, <3>3 DEF HomesFit
  <2>17. QED
    BY <1>2, <2>8, <2>9, <2>10, <2>11, <2>12, <2>13, <2>14, <2>15, <2>16 DEF AdminStep
<1>3. ASSUME NEW n \in Names, Enable(n) \/ Disable(n) \/ ResetHealth(n) \/ CooldownEnds(n)
      PROVE  HomesFit'
  <2>1. \A a \in Admins : admin[a].pc = "pop" => admin[a].name \in Names
    BY AdminRecord
  <2> QED
    BY <1>3, <2>1, SwitchShape, SwitchedOps DEF HomesFit
<1>4. ASSUME NEW n \in Names, StrayWorks(n) PROVE HomesFit'
  <2>1. /\ \A a \in Admins : admin[a].pc = "pop" => admin[a].name \in Names
        /\ \A o \in Ops : op[o].pc = "run" => op[o].name \in Names /\ op[o].inc # 0
    BY AdminRecord, Records DEF Fits
  <2>2. UNCHANGED <<op, admin, registry, strays>>
    BY <1>4 DEF StrayWorks
  <2> QED
    BY <1>4, <2>1, <2>2, StrayShape DEF HomesFit, NoHome
<1>5. CASE UNCHANGED vars
  BY <1>5 DEF vars, HomesFit
<1>6. QED
  BY <1>1, <1>2, <1>3, <1>4, <1>5 DEF Next

\* Without watches no order of outcomes and switches loses a cooldown.
LEMMA CooldownsStep ==
    ASSUME Watched = {}, CoreInv, CooldownsFit, [Next]_vars
    PROVE  CooldownsFit'
<1> DEFINE Kept(r) == /\ r.enabled => r.health # "disabled"
                      /\ r.health = "limited" \/ (r.health = "disabled" /\ r.prior = "limited")
                         => r.cooldown # "none"
<1>0. /\ op \in [Ops -> OpRecords] /\ registry \in [Names -> Profiles]
      /\ \A n \in Names : Kept(registry[n])
      /\ \A o \in Ops : op[o].pc # "finalize"
  BY DEF CoreInv, TypeOK, CooldownsFit
<1>1. ASSUME NEW n \in Names, NEW r, ProfileBecomes(n, r), Kept(r)
      PROVE  \A m \in Names : Kept(registry'[m])
  BY <1>0, <1>1 DEF ProfileBecomes
<1> HIDE DEF Kept
<1>2. ASSUME \A n \in Names : Kept(registry'[n]), \A o \in Ops : op'[o].pc # "finalize"
      PROVE  CooldownsFit'
  BY <1>2 DEF CooldownsFit, Kept
<1>3. ASSUME NEW o \in Ops, OpStep(o) PROVE CooldownsFit'
  <2>1. PICK r \in OpRecords : OpBecomes(o, r) /\ (r.pc = "finalize" => o \in Watched)
    BY <1>3, RunShape DEF RunMoves
  <2>2. \A p \in Ops : op'[p].pc # "finalize"
    BY <1>0, <2>1 DEF OpBecomes
  <2>3. CASE UNCHANGED registry
    BY <1>0, <1>2, <2>2, <2>3
  <2>4. CASE RecordsHealth(o)
    <3>1. op[o].name \in Names /\ op[o].outcome \in {"healthy", "limited"}
      BY <2>4, Records DEF RecordsHealth, Fits, OpRecords
    <3>2. PICK cooldown \in {"none", "running"} :
              /\ UpdateHealth(op[o].name, op[o].outcome, cooldown)
              /\ op[o].outcome = "limited" => cooldown = "running"
      BY <2>4, <3>1 DEF RecordsHealth
    <3> DEFINE q == [registry[op[o].name] EXCEPT !.health = op[o].outcome, !.cooldown = cooldown]
    <3>3. q.health = op[o].outcome /\ q.cooldown = cooldown
      BY <1>0, <3>1 DEF Profiles
    <3>4. Kept(q)
      BY <3>1, <3>2, <3>3 DEF Kept
    <3>5. ProfileBecomes(op[o].name, q) \/ UNCHANGED registry
      BY <3>2 DEF UpdateHealth
    <3> HIDE DEF q
    <3> QED
      BY <1>1, <1>2, <2>2, <2>3, <3>1, <3>4, <3>5
  <2>5. ~FinalizesWatch(o)
    BY <1>0 DEF FinalizesWatch
  <2> QED
    BY <1>3, <2>3, <2>4, <2>5
    DEF OpStep, ReadsClock, SelectsNext, RecordsSelection, RereadsProfile, TakesLease,
        ChecksProfile, Launches, AgyEnds, LauncherDies, SelectsExplicitly, RunsDirectly
<1>4. ASSUME NEW a \in Admins, AdminStep(a) PROVE CooldownsFit'
  <2>1. UNCHANGED op /\ (admin[a].pc # "idle" => admin[a].name \in Names)
    BY <1>4, AdminShape, AdminRecord
  <2>2. CASE UNCHANGED registry
    BY <1>0, <1>2, <2>1, <2>2
  <2>3. CASE Registers(a)
    <3>1. Kept(NewProfile(created + 1))
      BY DEF Kept, NewProfile
    <3> QED
      BY <1>0, <1>1, <1>2, <2>1, <2>2, <2>3, <3>1 DEF Registers
  <2>4. CASE Unregisters(a)
    <3>1. Kept(NoProfile)
      BY DEF Kept, NoProfile
    <3> QED
      BY <1>0, <1>1, <1>2, <2>1, <2>2, <2>4, <3>1 DEF Unregisters
  <2> QED
    BY <1>4, <2>2, <2>3, <2>4
    DEF AdminStep, MakesLayout, StagesHome, Purges, PurgesState, Sweeps, AdminDies, StartsAdd,
        StartsRemove
<1>5. ASSUME NEW n \in Names, Enable(n) \/ Disable(n) \/ ResetHealth(n) \/ CooldownEnds(n)
      PROVE  CooldownsFit'
  <2>0. /\ registry[n] \in Profiles /\ Kept(registry[n])
        /\ \A o \in Ops : op'[o].pc # "finalize"
    BY <1>0, <1>5, SwitchedOps
  <2>1. CASE Enable(n)
    <3> DEFINE h == IF registry[n].health # "disabled" THEN registry[n].health
                    ELSE IF registry[n].prior = "none" THEN "untested" ELSE registry[n].prior
               q == [registry[n] EXCEPT !.enabled = TRUE, !.health = h, !.prior = "none"]
    <3>1. q.health = h /\ q.cooldown = registry[n].cooldown
      BY <2>0 DEF Profiles
    <3>2. Kept(q)
      BY <2>0, <3>1 DEF Kept, Profiles
    <3>3. ProfileBecomes(n, q)
      BY <2>1 DEF Enable
    <3> HIDE DEF q
    <3> QED
      BY <1>0, <1>1, <1>2, <2>0, <3>2, <3>3
  <2>2. CASE Disable(n)
    <3> DEFINE p == IF registry[n].health # "disabled" THEN registry[n].health
                    ELSE registry[n].prior
               q == [registry[n] EXCEPT !.enabled = FALSE, !.prior = p, !.health = "disabled"]
    <3>1. ~q.enabled /\ q.health = "disabled" /\ q.prior = p /\ q.cooldown = registry[n].cooldown
      BY <2>0 DEF Profiles
    <3>2. Kept(q)
      BY <2>0, <3>1 DEF Kept
    <3>3. ProfileBecomes(n, q)
      BY <2>2 DEF Disable
    <3> HIDE DEF q
    <3> QED
      BY <1>0, <1>1, <1>2, <2>0, <3>2, <3>3
  <2>3. CASE ResetHealth(n)
    <3> DEFINE q == [registry[n] EXCEPT !.health = "healthy", !.cooldown = "none", !.prior = "none"]
    <3>1. q.health = "healthy"
      BY <2>0 DEF Profiles
    <3>2. Kept(q)
      BY <3>1 DEF Kept
    <3>3. ProfileBecomes(n, q)
      BY <2>3 DEF ResetHealth
    <3> HIDE DEF q
    <3> QED
      BY <1>0, <1>1, <1>2, <2>0, <3>2, <3>3
  <2>4. CASE CooldownEnds(n)
    <3> DEFINE q == [registry[n] EXCEPT !.cooldown = "over"]
    <3>1. q.cooldown = "over" /\ q.enabled = registry[n].enabled /\ q.health = registry[n].health
      BY <2>0 DEF Profiles
    <3>2. Kept(q)
      BY <2>0, <3>1 DEF Kept
    <3>3. ProfileBecomes(n, q)
      BY <2>4 DEF CooldownEnds
    <3> HIDE DEF q
    <3> QED
      BY <1>0, <1>1, <1>2, <2>0, <3>2, <3>3
  <2> QED
    BY <1>5, <2>1, <2>2, <2>3, <2>4
<1>6. CASE UNCHANGED vars \/ \E n \in Names : StrayWorks(n)
  BY <1>0, <1>2, <1>6 DEF vars, StrayWorks
<1>7. QED
  BY <1>3, <1>4, <1>5, <1>6 DEF Next

\* No step takes the data of a profile that stays registered.
LEMMA DataStep ==
    ASSUME ~Nested, CoreInv, [Next]_vars, NEW n \in Names,
           registry[n].inc # 0, registry'[n].inc = registry[n].inc, HasData(n)
    PROVE  HasData(n)'
<1>0. /\ admin \in [Admins -> AdminRecords]
      /\ home \in [Names -> Homes] /\ leftover \in [Names -> Homes]
  BY DEF CoreInv, TypeOK, Homes
<1>1. ASSUME NEW o \in Ops, OpStep(o) PROVE HasData(n)'
  BY <1>1, RunShape DEF HasData
<1>2. ASSUME NEW a \in Admins, AdminStep(a) PROVE HasData(n)'
  <2>1. ASSUME NEW r, AdminBecomes(a, r)
        PROVE  admin'[a] = r /\ \A b \in Admins \ {a} : admin'[b] = admin[b]
    BY <1>0, <2>1 DEF AdminBecomes
  \* A step that takes no data of the name, or whose process holds none of it.
  <2>2. ASSUME home[n] \ NoHome \subseteq home'[n], leftover[n] \ NoHome \subseteq leftover'[n],
               \A b \in Admins \ {a} : admin'[b] = admin[b],
               \/ admin[a].moved \ NoHome = {} \/ admin[a].name # n
               \/ admin'[a].moved = admin[a].moved /\ admin'[a].name = n
        PROVE  HasData(n)'
    BY <2>2 DEF HasData
  <2>3. admin[a].pc \in {"purge", "purgeState", "sweep"} => admin[a].name # n
    BY AdminRecord
  <2>4. admin[a].pc \in {"idle", "layout", "register", "stage", "sweep"}
            => admin[a].moved \ NoHome = {}
    BY <1>0 DEF CoreInv, RemovalsInOrder
  <2>5. admin[a].pc # "idle" => admin[a].name \in Names
    BY AdminRecord
  <2>6. CASE MakesLayout(a)
    BY <1>0, <2>1, <2>2, <2>4, <2>5, <2>6 DEF MakesLayout, AdminGoes
  <2>7. CASE Registers(a)
    BY <2>1, <2>2, <2>4, <2>7 DEF Registers, AdminStops
  <2>8. CASE StagesHome(a)
    <3>1. CASE /\ AdminBecomes(a, [admin[a] EXCEPT !.pc = "pop", !.moved = home[admin[a].name]])
               /\ home' = [home EXCEPT ![admin[a].name] = NoHome]
      <4>1. [admin[a] EXCEPT !.pc = "pop", !.moved = home[admin[a].name]].moved = home[admin[a].name]
            /\ [admin[a] EXCEPT !.pc = "pop", !.moved = home[admin[a].name]].name = admin[a].name
        BY <1>0 DEF AdminRecords
      <4>2. CASE admin[a].name = n
        <5>1. admin'[a].name = n /\ admin'[a].moved = home[n]
          BY <2>1, <3>1, <4>1, <4>2
        <5>2. UNCHANGED leftover /\ \A b \in Admins \ {a} : admin'[b] = admin[b]
          BY <2>1, <2>8, <3>1 DEF StagesHome
        <5> QED
          BY <2>4, <2>8, <5>1, <5>2 DEF HasData, StagesHome
      <4>3. CASE admin[a].name # n
        BY <1>0, <2>1, <2>2, <2>5, <2>8, <3>1, <4>3 DEF StagesHome
      <4> QED
        BY <4>2, <4>3
    <3>2. CASE AdminStops(a) /\ UNCHANGED home
      BY <2>1, <2>2, <2>4, <2>8, <3>2 DEF StagesHome, AdminStops
    <3> QED
      BY <2>8, <3>1, <3>2 DEF StagesHome
  <2>9. CASE Unregisters(a)
    <3>0. admin[a].name \in Names /\ admin[a].pc = "pop"
      BY <2>5, <2>9 DEF Unregisters
    <3>1. CASE ProfileBecomes(admin[a].name, NoProfile) /\ AdminGoes(a, "purge")
                /\ UNCHANGED <<home, leftover>>
      <4>1. registry'[admin[a].name].inc = 0
        BY <3>0, <3>1 DEF ProfileBecomes, NoProfile, CoreInv, TypeOK
      <4> QED
        BY <2>1, <2>2, <3>1, <4>1 DEF AdminGoes
    <3>2. CASE /\ home[admin[a].name] = NoHome
               /\ home' = [home EXCEPT ![admin[a].name] = admin[a].moved]
               /\ AdminStops(a) /\ UNCHANGED leftover
      <4>1. CASE admin[a].name = n
        <5>1. home'[n] = admin[a].moved /\ \A b \in Admins \ {a} : admin'[b] = admin[b]
          BY <1>0, <2>1, <3>0, <3>2, <4>1 DEF AdminStops
        <5> QED
          BY <3>2, <4>1, <5>1 DEF HasData
      <4>2. CASE admin[a].name # n
        BY <1>0, <2>1, <2>2, <3>0, <3>2, <4>2 DEF AdminStops
      <4> QED
        BY <4>1, <4>2
    <3>3. CASE /\ leftover' = [leftover EXCEPT ![admin[a].name] = Beside(@, admin[a].moved)]
               /\ AdminStops(a) /\ UNCHANGED home
      <4>1. CASE admin[a].name = n
        <5>1. (leftover[n] \cup admin[a].moved) \ NoHome \subseteq leftover'[n]
          BY <1>0, <3>0, <3>3, <4>1 DEF Beside
        <5>2. \A b \in Admins \ {a} : admin'[b] = admin[b]
          BY <2>1, <3>3 DEF AdminStops
        <5> QED
          BY <3>3, <4>1, <5>1, <5>2 DEF HasData
      <4>2. CASE admin[a].name # n
        BY <1>0, <2>1, <2>2, <3>0, <3>3, <4>2 DEF AdminStops
      <4> QED
        BY <4>1, <4>2
    <3> QED
      BY <2>9, <3>1, <3>2, <3>3 DEF Unregisters
  <2>10. CASE Purges(a)
    BY <1>0, <2>1, <2>2, <2>3, <2>5, <2>10 DEF Purges, AdminGoes, AdminStops
  <2>11. CASE PurgesState(a)
    BY <2>1, <2>2, <2>3, <2>11 DEF PurgesState, AdminStops
  <2>12. CASE Sweeps(a)
    <3>1. admin[a].name # n /\ UNCHANGED home
      BY <2>3, <2>12 DEF Sweeps
    <3>2. PICK gone \in SUBSET {admin[a].name} :
              /\ leftover' = [m \in Names |-> IF m \in gone THEN NoHome ELSE leftover[m]]
              /\ admin' = [b \in Admins |->
                    IF b = a THEN IdleAdmin
                    ELSE IF admin[b].name \in gone THEN [admin[b] EXCEPT !.moved = NoHome]
                    ELSE admin[b]]
      BY <2>12 DEF Sweeps, Matching
    <3>3. leftover'[n] = leftover[n] /\ \A b \in Admins \ {a} : admin[b].name = n => admin'[b] = admin[b]
      BY <3>1, <3>2
    <3> QED
      BY <3>1, <3>3 DEF HasData
  <2>13. CASE AdminDies(a)
    <3>1. CASE admin[a].pc = "pop" /\ admin[a].name = n
      <4>1. (leftover[n] \cup admin[a].moved) \ NoHome \subseteq leftover'[n]
        BY <1>0, <2>5, <2>13, <3>1 DEF Beside, AdminDies
      <4>2. UNCHANGED home /\ \A b \in Admins \ {a} : admin'[b] = admin[b]
        BY <2>1, <2>13 DEF AdminStops, AdminDies
      <4> QED
        BY <3>1, <4>1, <4>2 DEF HasData
    <3>2. CASE admin[a].pc # "pop" \/ admin[a].name # n
      <4>1. leftover[n] \ NoHome \subseteq leftover'[n]
        BY <1>0, <2>3, <2>5, <2>13, <3>2 DEF AdminDies
      <4>2. admin[a].moved \ NoHome = {} \/ admin[a].name # n
        BY <1>0, <2>3, <2>4, <3>2 DEF AdminRecords
      <4> QED
        BY <2>1, <2>2, <2>13, <4>1, <4>2 DEF AdminStops, AdminDies
    <3> QED
      BY <3>1, <3>2
  <2>14. ASSUME NEW m \in Names, StartsAdd(a, m) \/ StartsRemove(a, m) PROVE HasData(n)'
    BY <2>1, <2>2, <2>4, <2>14 DEF StartsAdd, StartsRemove
  <2>15. QED
    BY <1>2, <2>6, <2>7, <2>8, <2>9, <2>10, <2>11, <2>12, <2>13, <2>14 DEF AdminStep
<1>3. ASSUME NEW m \in Names, Enable(m) \/ Disable(m) \/ ResetHealth(m) \/ CooldownEnds(m)
      PROVE  HasData(n)'
  BY <1>3, SwitchShape DEF HasData
<1>4. CASE UNCHANGED vars
  BY <1>4 DEF vars, HasData
<1>5. ASSUME NEW m \in Names, StrayWorks(m) PROVE HasData(n)'
  BY <1>5, StrayShape DEF HasData, StrayWorks
<1>6. QED
  BY <1>1, <1>2, <1>3, <1>4, <1>5 DEF Next

\* The invariant holds in every state: types, leases that exclude removals from
\* runs, verified incarnations, and what homes and cooldowns owe them.
THEOREM LifecycleInvariance == Spec => []LifecycleInv
<1>1. Init => LifecycleInv
  <2>1. NoProfile \in Profiles /\ IdleAdmin \in AdminRecords
    BY LifecycleAssumption DEF NoProfile, Profiles, Healths, IdleAdmin, AdminRecords
  <2>2. Init => CoreInv
    BY <2>1, IdleFits, LifecycleAssumption
    DEF Init, CoreInv, TypeOK, Leases, RunsVerified, RemovalsInOrder, IdleOp, IdleAdmin, SharingPCs
  <2>3. Init => HomesFit
    BY DEF Init, HomesFit, IdleOp, IdleAdmin
  <2>4. Init => CooldownsFit
    BY DEF Init, CooldownsFit, NoProfile, IdleOp
  <2> QED
    BY <2>2, <2>3, <2>4 DEF LifecycleInv
<1>2. LifecycleInv /\ [Next]_vars => LifecycleInv'
  BY CoreStep, HomesStep, CooldownsStep DEF LifecycleInv
<1>3. QED
  BY <1>1, <1>2, PTL DEF Spec

\* A run keeps the profile it verified as long as its launcher holds the lease: the
\* name is neither removed nor recreated under it, whoever else adds, removes, runs,
\* leaves an Agy behind or dies.
THEOREM RunsKeepProfiles == Spec => []RunKeepsProfile
<1>1. LifecycleInv => RunKeepsProfile
  BY DEF LifecycleInv, CoreInv, RunsVerified, RunKeepsProfile
<1>2. QED
  BY <1>1, LifecycleInvariance, PTL

\* Agy finds nothing in its home but the data of its own profile and of Agys that
\* outlived a lease of the same name, whatever removals and creations failed or were
\* killed half way.
THEOREM HomesAreOwn == Spec => []HomeIsOwn
<1>1. LifecycleInv => HomeIsOwn
  <2> SUFFICES ASSUME LifecycleInv, NEW o \in Ops, op[o].pc = "run"
               PROVE  /\ op[o].inc \in home[op[o].name]
                      /\ home[op[o].name] \subseteq {op[o].inc} \cup strays[op[o].name]
    BY DEF HomeIsOwn
  <2>1. op[o].name \in Names /\ op[o].inc # 0 /\ registry[op[o].name].inc = op[o].inc
    BY Records DEF LifecycleInv, Fits
  <2>2. home[op[o].name] \in Homes
    BY <2>1 DEF LifecycleInv, CoreInv, TypeOK, Homes
  <2> QED
    BY <2>1, <2>2 DEF LifecycleInv, HomesFit, Homes, NoHome, Incarnations
<1>2. QED
  BY <1>1, LifecycleInvariance, PTL

\* Without watches a profile that is enabled and out of the rotation comes back:
\* it has a cooldown that is still running.
THEOREM CooldownsStay ==
    ASSUME Watched = {}
    PROVE  Spec => []OutHasCooldown
<1>1. LifecycleInv => OutHasCooldown
  <2> SUFFICES ASSUME LifecycleInv, NEW n \in Registered,
                      registry[n].enabled, ~IsAvailable(registry[n])
               PROVE  registry[n].cooldown = "running"
    BY DEF OutHasCooldown
  <2>1. registry[n] \in Profiles /\ registry[n].inc # 0
    BY DEF LifecycleInv, CoreInv, TypeOK, Registered
  <2>2. registry[n].health # "disabled"
        /\ (registry[n].health = "limited" => registry[n].cooldown # "none")
    BY DEF LifecycleInv, CooldownsFit, Registered
  <2> QED
    BY <2>1, <2>2 DEF IsAvailable, Profiles, Healths
<1>2. QED
  BY <1>1, LifecycleInvariance, PTL

\* Where no name continues another one, a profile that stays registered keeps its
\* data through failed and killed removals, and with Agys left behind.
THEOREM RegisteredProfilesKeepData ==
    ASSUME ~Nested
    PROVE  Spec => RegisteredDataStays
<1>1. LifecycleInv /\ [Next]_vars =>
          \A n \in Names :
              registry[n].inc # 0 /\ registry'[n].inc = registry[n].inc /\ HasData(n)
                  => HasData(n)'
  BY DataStep DEF LifecycleInv
<1>2. QED
  BY <1>1, LifecycleInvariance, PTL DEF Spec, RegisteredDataStays
=============================================================================
