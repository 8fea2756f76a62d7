-------------------------- MODULE ProfileLifecycle --------------------------
(***************************************************************************)
(* The managed profiles of magy: the registry, the lifecycle leases, the   *)
(* profile homes, round-robin selection, runs inside a profile and the     *)
(* health they report.                                                     *)
(*                                                                         *)
(* Every access to the registry file and to the routing cursor is a locked *)
(* section of its own and one action here.  The lifecycle lease is a lock  *)
(* on a file that is never waited for and that the kernel drops when its   *)
(* holder dies; who holds it follows from the program counters.  Time is   *)
(* the state of a cooldown: running, or over.  Rate limits, exhausted      *)
(* quotas, failed authentications, time-outs and unknown failures are all  *)
(* "limited": they differ in the length of the cooldown only.  External    *)
(* profiles, whose home magy does not manage, are left out.                *)
(***************************************************************************)
EXTENDS Naturals, FiniteSets

CONSTANTS
    Names,            \* profile names, numbered in their sorting order
    Ops,              \* processes that run Agy in a profile, each again and again
    Watched,          \* those of them whose end is reported to finalize_watch
    Admins,           \* processes that add and remove profiles
    Nested,           \* TRUE: each later name begins with the earlier ones and a _
    MaxIncarnations   \* bound on the number of profiles ever created

ASSUME LifecycleAssumption ==
    /\ Names \subseteq Nat \ {0}
    /\ IsFiniteSet(Names)
    /\ Watched \subseteq Ops
    /\ MaxIncarnations \in Nat
    /\ Nested \in BOOLEAN

VARIABLES
    registry,     \* profiles.json: the record of each name
    home,         \* the managed home of each name: whose data it holds
    leftover,     \* .deleting_<name>_* directories left behind: whose data they hold
    stateDirs,    \* runs/<name> or logs/<name> exists
    strays,       \* incarnations some Agy of which was left without a lease: an Agy
                  \* that may still be at work in the home of the name
    cursor,       \* routing.json: the name selected last, 0 for none
    created,      \* how many incarnations there have been
    op,           \* per process: program counter, name, incarnations, outcome
    admin         \* per process: program counter, name, what it staged

vars == <<registry, home, leftover, stateDirs, strays, cursor, created, op, admin>>

Incarnations == 1 .. MaxIncarnations
Healths == {"untested", "healthy", "limited", "disabled"}
MaxRetries == 3

NoProfile == [inc |-> 0, enabled |-> FALSE, health |-> "untested",
              cooldown |-> "none", prior |-> "none"]
NewProfile(i) == [inc |-> i, enabled |-> TRUE, health |-> "untested",
                  cooldown |-> "none", prior |-> "none"]
NoHome == {0}
IdleOp == [pc |-> "idle", name |-> 0, inc |-> 0, auto |-> FALSE,
           tries |-> 0, missed |-> {}, outcome |-> "none"]
IdleAdmin == [pc |-> "idle", name |-> 0, moved |-> NoHome]

\* A staged directory with content c is left beside others.
Beside(others, c) == IF c = NoHome THEN others ELSE (others \ NoHome) \cup c

ProfileBecomes(n, r) == registry' = [registry EXCEPT ![n] = r]

Registered == {n \in Names : registry[n].inc # 0}

\* ProfileMetadata.is_available
IsAvailable(r) ==
    /\ r.inc # 0
    /\ r.enabled
    /\ r.health # "disabled"
    /\ r.health \in {"healthy", "untested"} \/ r.cooldown = "over"

Available == {n \in Names : IsAvailable(registry[n])}

Init ==
    /\ registry = [n \in Names |-> NoProfile]
    /\ home = [n \in Names |-> NoHome]
    /\ leftover = [n \in Names |-> NoHome]
    /\ stateDirs = [n \in Names |-> FALSE]
    /\ strays = [n \in Names |-> {}]
    /\ cursor = 0
    /\ created = 0
    /\ op = [o \in Ops |-> IdleOp]
    /\ admin = [a \in Admins |-> IdleAdmin]

(***************************************************************************)
(* Lifecycle leases.                                                       *)
(***************************************************************************)
SharingPCs == {"check", "launch", "run", "health"}
Sharing(n) == \E o \in Ops : op[o].name = n /\ op[o].pc \in SharingPCs
Excluding(n) == \E a \in Admins : admin[a].name = n /\ admin[a].pc # "idle"

\* Mutant: an exclusive lease looks for other exclusive leases only.
CanExcludeBlind(n) == ~Excluding(n)

CanExclude(n) == ~Sharing(n) /\ ~Excluding(n)

(***************************************************************************)
(* Selection: select_profile and record_profile_selection.                 *)
(***************************************************************************)
OpBecomes(o, r) == op' = [op EXCEPT ![o] = r]
OpGoes(o, pc) == OpBecomes(o, [op[o] EXCEPT !.pc = pc])

\* A watch that has its profile is finalized; where the selection of
\* start_watch_run finds none there is no watch.
OpStops(o) ==
    IF o \in Watched /\ op[o].pc \notin {"choose", "finalize"}
    THEN OpBecomes(o, [op[o] EXCEPT !.pc = "finalize", !.missed = {}])
    ELSE OpBecomes(o, IdleOp)

\* The first available name after the cursor, cyclically; the first one when
\* the cursor names no profile.
IsAfter(n, c, names) ==
    LET later == {m \in names : m > c}
        ahead == IF c \in Registered /\ later # {} THEN later ELSE names
    IN  n \in ahead /\ \A m \in ahead : n <= m

SelectsExplicitly(o, n) ==
    /\ op[o].pc = "idle"
    /\ registry[n].inc # 0 /\ registry[n].enabled
    /\ OpBecomes(o, [IdleOp EXCEPT !.pc = "record", !.name = n, !.inc = registry[n].inc])
    /\ UNCHANGED <<registry, home, leftover, stateDirs, strays, cursor, created, admin>>

\* An automatic selection reads the clock first, and goes by it in every try.
ReadsClock(o) ==
    /\ op[o].pc = "idle"
    /\ OpBecomes(o, [IdleOp EXCEPT !.pc = "choose", !.auto = TRUE])
    /\ UNCHANGED <<registry, home, leftover, stateDirs, strays, cursor, created, admin>>

Choosing(o) == op[o].pc = "choose" \/ (op[o].auto /\ op[o].pc = "record")

\* What is available by the clock that o has read: not what was in a cooldown then.
SeenAvailable(o) ==
    {n \in Available : registry[n].health \in {"healthy", "untested"} \/ n \notin op[o].missed}

SelectsNext(o) ==
    /\ op[o].pc = "choose"
    /\ \/ /\ SeenAvailable(o) = {}
          /\ OpStops(o)
          /\ UNCHANGED cursor
       \/ \E n \in SeenAvailable(o) :
            /\ IsAfter(n, cursor, SeenAvailable(o))
            /\ cursor' = n
            /\ OpBecomes(o, [op[o] EXCEPT !.pc = "record", !.name = n, !.inc = registry[n].inc])
    /\ UNCHANGED <<registry, home, leftover, stateDirs, strays, created, admin>>

\* The selection is recorded if the incarnation is still the one selected;
\* otherwise an automatic selection is made again, up to MaxRetries times.
RecordsSelection(o) ==
    /\ op[o].pc = "record"
    /\ \/ /\ registry[op[o].name].inc = op[o].inc
          /\ OpBecomes(o, [op[o] EXCEPT !.pc = "reread", !.missed = {}])
       \/ /\ registry[op[o].name].inc # op[o].inc
          /\ IF op[o].auto /\ op[o].tries < MaxRetries - 1
             THEN OpBecomes(o, [op[o] EXCEPT !.pc = "choose", !.tries = @ + 1])
             ELSE OpStops(o)
    /\ UNCHANGED <<registry, home, leftover, stateDirs, strays, cursor, created, admin>>

\* What is returned is read from the registry once more, outside the lock.
RereadsProfile(o) ==
    /\ op[o].pc = "reread"
    /\ IF registry[op[o].name].inc # 0
       THEN OpBecomes(o, [op[o] EXCEPT !.pc = "lease", !.inc = registry[op[o].name].inc])
       ELSE OpStops(o)
    /\ UNCHANGED <<registry, home, leftover, stateDirs, strays, cursor, created, admin>>

\* profile run and profile auth: no selection, any incarnation will do.
RunsDirectly(o, n) ==
    /\ o \notin Watched
    /\ op[o].pc = "idle"
    /\ OpBecomes(o, [IdleOp EXCEPT !.pc = "lease", !.name = n])
    /\ UNCHANGED <<registry, home, leftover, stateDirs, strays, cursor, created, admin>>

(***************************************************************************)
(* Running: run_in_profile, and run_worker inside its lease.               *)
(***************************************************************************)
TakesLease(o) ==
    /\ op[o].pc = "lease"
    /\ IF Excluding(op[o].name) THEN OpStops(o) ELSE OpGoes(o, "check")
    /\ UNCHANGED <<registry, home, leftover, stateDirs, strays, cursor, created, admin>>

\* Mutant: the profile is not looked up again under the lease.
TrustsSelection(o) ==
    /\ op[o].pc = "check"
    /\ OpGoes(o, "launch")
    /\ UNCHANGED <<registry, home, leftover, stateDirs, strays, cursor, created, admin>>

ChecksProfile(o) ==
    LET r == registry[op[o].name] IN
    /\ op[o].pc = "check"
    /\ IF r.inc # 0 /\ r.enabled /\ op[o].inc \in {0, r.inc}
       THEN OpBecomes(o, [op[o] EXCEPT !.pc = "launch", !.inc = r.inc])
       ELSE OpStops(o)
    /\ UNCHANGED <<registry, home, leftover, stateDirs, strays, cursor, created, admin>>

\* Logs go below the state directories; Agy keeps its data in the home, which
\* it makes when it is missing.
Launches(o) ==
    LET n == op[o].name IN
    /\ op[o].pc = "launch"
    /\ \/ /\ OpGoes(o, "run")
          /\ home' = [home EXCEPT ![n] = (@ \ NoHome) \cup {op[o].inc}]
          /\ stateDirs' = [stateDirs EXCEPT ![n] = TRUE]
       \/ /\ OpStops(o)
          /\ UNCHANGED <<home, stateDirs>>
    /\ UNCHANGED <<registry, leftover, strays, cursor, created, admin>>

\* The lease is given back with the end of Agy, or before: when the launcher raises
\* and kills the tree only outside of the lease, or cannot verify that it is dead.
LeavesLease(o) ==
    /\ OpStops(o)
    /\ strays' \in {strays, [strays EXCEPT ![op[o].name] = @ \cup {op[o].inc}]}

\* The launcher waits for Agy no more; a subcommand or an interrupted or failed
\* worker reports no health.
AgyEnds(o) ==
    /\ op[o].pc = "run"
    /\ \/ /\ \E h \in {"healthy", "limited"} :
                OpBecomes(o, [op[o] EXCEPT !.pc = "health", !.outcome = h])
          /\ UNCHANGED strays
       \/ LeavesLease(o)
    /\ UNCHANGED <<registry, home, leftover, stateDirs, cursor, created, admin>>

\* update_profile_health: nothing for a name that is not registered.
UpdateHealth(n, h, cooldown) ==
    IF registry[n].inc = 0 THEN UNCHANGED registry
    ELSE ProfileBecomes(n, [registry[n] EXCEPT !.health = h, !.cooldown = cooldown])

\* Mutant: a run that failed is not given a cooldown.
RecordsHealthOnly(o) ==
    /\ op[o].pc = "health"
    /\ UpdateHealth(op[o].name, op[o].outcome, "none")
    /\ LeavesLease(o)
    /\ UNCHANGED <<home, leftover, stateDirs, cursor, created, admin>>

RecordsHealth(o) ==
    /\ op[o].pc = "health"
    /\ UpdateHealth(op[o].name, op[o].outcome,
                    IF op[o].outcome = "healthy" THEN "none" ELSE "running")
    /\ LeavesLease(o)
    /\ UNCHANGED <<home, leftover, stateDirs, cursor, created, admin>>

\* finalize_watch, in the monitor: without a lease, without a cooldown, and as
\* a failure when the final snapshot failed; a watch that was cancelled or whose
\* pane was closed reports nothing.
FinalizesWatch(o) ==
    /\ op[o].pc = "finalize"
    /\ \/ UNCHANGED registry
       \/ UpdateHealth(op[o].name, "limited", "none")
       \/ op[o].outcome = "healthy" /\ UpdateHealth(op[o].name, "healthy", "none")
    /\ OpStops(o)
    /\ UNCHANGED <<home, leftover, stateDirs, strays, cursor, created, admin>>

\* The launcher is killed; its lease goes with it, its Agy need not.
LauncherDies(o) ==
    /\ op[o].pc # "idle"
    /\ IF op[o].pc \in {"run", "health"} THEN LeavesLease(o) ELSE OpStops(o) /\ UNCHANGED strays
    /\ UNCHANGED <<registry, home, leftover, stateDirs, cursor, created, admin>>

OpStep(o) ==
    \/ ReadsClock(o) \/ SelectsNext(o) \/ RecordsSelection(o) \/ RereadsProfile(o)
    \/ TakesLease(o) \/ ChecksProfile(o) \/ Launches(o) \/ AgyEnds(o) \/ RecordsHealth(o)
    \/ FinalizesWatch(o) \/ LauncherDies(o)
    \/ \E n \in Names : SelectsExplicitly(o, n) \/ RunsDirectly(o, n)

\* An Agy without a lease goes on writing to the home it was given, which it makes
\* again when it is gone; one that has ended is one that does nothing any more.
StrayWorks(n) ==
    /\ \E i \in strays[n] : home' = [home EXCEPT ![n] = (@ \ NoHome) \cup {i}]
    /\ UNCHANGED <<registry, leftover, stateDirs, strays, cursor, created, op, admin>>

(***************************************************************************)
(* add_profile.                                                            *)
(***************************************************************************)
AdminBecomes(a, r) == admin' = [admin EXCEPT ![a] = r]
AdminGoes(a, pc) == AdminBecomes(a, [admin[a] EXCEPT !.pc = pc])
AdminStops(a) == AdminBecomes(a, IdleAdmin)

\* A staged directory of the name, or of a name that its glob pattern
\* .deleting_<name>_* matches as well, exists.
Matching(n) == IF Nested THEN {m \in Names : m >= n} ELSE {n}
Staged(n) ==
    \E m \in Matching(n) :
        \/ leftover[m] # NoHome
        \/ \E a \in Admins : admin[a].name = m /\ admin[a].moved # NoHome

\* What an unfinished removal left behind has to be removed first.
StartsAdd(a, n) ==
    /\ admin[a].pc = "idle"
    /\ CanExclude(n)
    /\ ~Staged(n)
    /\ registry[n].inc = 0 => ~stateDirs[n]
    /\ AdminBecomes(a, [IdleAdmin EXCEPT !.pc = "layout", !.name = n])
    /\ UNCHANGED <<registry, home, leftover, stateDirs, strays, cursor, created, op>>

\* The directories are made before the name is looked up.
MakesLayout(a) ==
    /\ admin[a].pc = "layout"
    /\ home' = [home EXCEPT ![admin[a].name] = @ \ NoHome]
    /\ AdminGoes(a, "register")
    /\ UNCHANGED <<registry, leftover, stateDirs, strays, cursor, created, op>>

Registers(a) ==
    LET n == admin[a].name IN
    /\ admin[a].pc = "register"
    /\ \/ /\ registry[n].inc = 0
          /\ created < MaxIncarnations
          /\ created' = created + 1
          /\ ProfileBecomes(n, NewProfile(created + 1))
       \/ /\ registry[n].inc # 0 \/ created = MaxIncarnations
          /\ UNCHANGED <<registry, created>>
    /\ AdminStops(a)
    /\ UNCHANGED <<home, leftover, stateDirs, strays, cursor, op>>

(***************************************************************************)
(* remove_profile.                                                         *)
(***************************************************************************)
StartsRemove(a, n) ==
    /\ admin[a].pc = "idle"
    /\ CanExclude(n)
    /\ registry[n].inc # 0 \/ Staged(n) \/ stateDirs[n]
    /\ AdminBecomes(a, [IdleAdmin EXCEPT !.name = n,
                           !.pc = IF registry[n].inc # 0 THEN "stage" ELSE "sweep"])
    /\ UNCHANGED <<registry, home, leftover, stateDirs, strays, cursor, created, op>>

\* Mutant: the home is left where it is.
StagesNothing(a) ==
    /\ admin[a].pc = "stage"
    /\ AdminGoes(a, "pop")
    /\ UNCHANGED <<registry, home, leftover, stateDirs, strays, cursor, created, op>>

\* The home is renamed to .deleting_<name>_*, which can fail.
StagesHome(a) ==
    LET n == admin[a].name IN
    /\ admin[a].pc = "stage"
    /\ \/ /\ AdminBecomes(a, [admin[a] EXCEPT !.pc = "pop", !.moved = home[n]])
          /\ home' = [home EXCEPT ![n] = NoHome]
       \/ /\ home[n] # NoHome
          /\ AdminStops(a)
          /\ UNCHANGED home
    /\ UNCHANGED <<registry, leftover, stateDirs, strays, cursor, created, op>>

\* Mutant: when the registry cannot be written the home is not moved back.
UnregistersForGood(a) ==
    LET n == admin[a].name IN
    /\ admin[a].pc = "pop"
    /\ \/ /\ ProfileBecomes(n, NoProfile)
          /\ AdminGoes(a, "purge")
       \/ /\ AdminStops(a)
          /\ UNCHANGED registry
    /\ UNCHANGED <<home, leftover, stateDirs, strays, cursor, created, op>>

\* The name leaves the registry; when that fails the home is moved back,
\* unless that fails too or a stray Agy has made a new one.
Unregisters(a) ==
    LET n == admin[a].name IN
    /\ admin[a].pc = "pop"
    /\ \/ /\ ProfileBecomes(n, NoProfile)
          /\ AdminGoes(a, "purge")
          /\ UNCHANGED <<home, leftover>>
       \/ /\ home[n] = NoHome
          /\ home' = [home EXCEPT ![n] = admin[a].moved]
          /\ AdminStops(a)
          /\ UNCHANGED <<registry, leftover>>
       \/ /\ leftover' = [leftover EXCEPT ![n] = Beside(@, admin[a].moved)]
          /\ AdminStops(a)
          /\ UNCHANGED <<registry, home>>
    /\ UNCHANGED <<stateDirs, strays, cursor, created, op>>

\* The staged directory is deleted first, then the state directories.
Purges(a) ==
    LET n == admin[a].name IN
    /\ admin[a].pc = "purge"
    /\ \/ AdminGoes(a, "purgeState") /\ UNCHANGED leftover
       \/ /\ admin[a].moved # NoHome
          /\ leftover' = [leftover EXCEPT ![n] = Beside(@, admin[a].moved)]
          /\ AdminStops(a)
    /\ UNCHANGED <<registry, home, stateDirs, strays, cursor, created, op>>

PurgesState(a) ==
    /\ admin[a].pc = "purgeState"
    /\ \/ stateDirs' = [stateDirs EXCEPT ![admin[a].name] = FALSE]
       \/ UNCHANGED stateDirs
    /\ AdminStops(a)
    /\ UNCHANGED <<registry, home, leftover, strays, cursor, created, op>>

\* The retry of a removal deletes what is staged, then the state; it stops at
\* the first failure.
Sweeps(a) ==
    LET n == admin[a].name IN
    /\ admin[a].pc = "sweep"
    /\ \E gone \in SUBSET Matching(n) :
          /\ leftover' = [m \in Names |-> IF m \in gone THEN NoHome ELSE leftover[m]]
          /\ admin' = [b \in Admins |->
                IF b = a THEN IdleAdmin
                ELSE IF admin[b].name \in gone THEN [admin[b] EXCEPT !.moved = NoHome]
                ELSE admin[b]]
          /\ \/ gone = Matching(n) /\ stateDirs' = [stateDirs EXCEPT ![n] = FALSE]
             \/ UNCHANGED stateDirs
    /\ UNCHANGED <<registry, home, strays, cursor, created, op>>

\* An adding or removing process is killed.
AdminDies(a) ==
    /\ admin[a].pc # "idle"
    /\ leftover' = [leftover EXCEPT ![admin[a].name] =
          IF admin[a].pc \in {"pop", "purge"} THEN Beside(@, admin[a].moved) ELSE @]
    /\ AdminStops(a)
    /\ UNCHANGED <<registry, home, stateDirs, strays, cursor, created, op>>

AdminStep(a) ==
    \/ MakesLayout(a) \/ Registers(a) \/ StagesHome(a) \/ Unregisters(a)
    \/ Purges(a) \/ PurgesState(a) \/ Sweeps(a) \/ AdminDies(a)
    \/ \E n \in Names : StartsAdd(a, n) \/ StartsRemove(a, n)

(***************************************************************************)
(* enable_profile, disable_profile, reset_profile_health, and the clock.   *)
(***************************************************************************)
Enable(n) ==
    /\ registry[n].inc # 0
    /\ ProfileBecomes(n, [registry[n] EXCEPT
          !.enabled = TRUE,
          !.health = IF @ # "disabled" THEN @
                     ELSE IF registry[n].prior = "none" THEN "untested"
                     ELSE registry[n].prior,
          !.prior = "none"])
    /\ UNCHANGED <<home, leftover, stateDirs, strays, cursor, created, op, admin>>

Disable(n) ==
    /\ registry[n].inc # 0
    /\ ProfileBecomes(n, [registry[n] EXCEPT
          !.enabled = FALSE,
          !.prior = IF registry[n].health # "disabled" THEN registry[n].health ELSE @,
          !.health = "disabled"])
    /\ UNCHANGED <<home, leftover, stateDirs, strays, cursor, created, op, admin>>

ResetHealth(n) ==
    /\ registry[n].inc # 0
    /\ ProfileBecomes(n, [registry[n] EXCEPT !.health = "healthy", !.cooldown = "none",
                                              !.prior = "none"])
    /\ UNCHANGED <<home, leftover, stateDirs, strays, cursor, created, op, admin>>

\* Who has read the clock before does not notice.
CooldownEnds(n) ==
    /\ registry[n].cooldown = "running"
    /\ ProfileBecomes(n, [registry[n] EXCEPT !.cooldown = "over"])
    /\ op' = [o \in Ops |-> IF Choosing(o) THEN [op[o] EXCEPT !.missed = @ \cup {n}] ELSE op[o]]
    /\ UNCHANGED <<home, leftover, stateDirs, strays, cursor, created, admin>>

Next ==
    \/ \E o \in Ops : OpStep(o)
    \/ \E a \in Admins : AdminStep(a)
    \/ \E n \in Names :
         StrayWorks(n) \/ Enable(n) \/ Disable(n) \/ ResetHealth(n) \/ CooldownEnds(n)

Spec == Init /\ [][Next]_vars

(***************************************************************************)
(* Properties.                                                             *)
(***************************************************************************)
Profiles == [inc : 0 .. MaxIncarnations, enabled : BOOLEAN, health : Healths,
             cooldown : {"none", "running", "over"},
             prior : (Healths \ {"disabled"}) \cup {"none"}]
OpRecords == [pc : {"idle", "choose", "record", "reread", "lease", "check", "launch", "run",
                    "health", "finalize"},
              name : Names \cup {0}, inc : 0 .. MaxIncarnations, auto : BOOLEAN,
              tries : 0 .. MaxRetries - 1, missed : SUBSET Names,
              outcome : {"none", "healthy", "limited"}]
AdminRecords == [pc : {"idle", "layout", "register", "stage", "pop", "purge", "purgeState",
                       "sweep"},
                 name : Names \cup {0}, moved : {NoHome} \cup SUBSET Incarnations]

\* Every variable stays in its domain.
TypeOK ==
    /\ registry \in [Names -> Profiles]
    /\ home \in [Names -> {NoHome} \cup SUBSET Incarnations]
    /\ leftover \in [Names -> {NoHome} \cup SUBSET Incarnations]
    /\ stateDirs \in [Names -> BOOLEAN]
    /\ strays \in [Names -> SUBSET Incarnations]
    /\ cursor \in Names \cup {0}
    /\ created \in 0 .. MaxIncarnations
    /\ op \in [Ops -> OpRecords]
    /\ admin \in [Admins -> AdminRecords]

\* Whoever holds a lease has a name, and the lease excludes adding and removing.
Leases ==
    /\ \A o \in Ops : op[o].pc \notin {"idle", "choose"} => op[o].name \in Names
    /\ \A a \in Admins : admin[a].pc # "idle" => admin[a].name \in Names
    /\ \A o \in Ops, a \in Admins : op[o].pc \in SharingPCs /\ admin[a].pc # "idle"
            => op[o].name # admin[a].name
    /\ \A a, b \in Admins : a # b /\ admin[a].pc # "idle" /\ admin[b].pc # "idle"
            => admin[a].name # admin[b].name

\* An automatic selection stays one; a run knows the incarnation it runs in, and
\* while its launcher holds the lease that is the registered one.
RunsVerified ==
    \A o \in Ops :
        /\ op[o].pc = "choose" => op[o].auto
        /\ op[o].pc \in {"launch", "run", "health"} => op[o].inc # 0
        /\ op[o].pc \in {"launch", "run", "health"} => registry[op[o].name].inc = op[o].inc
        /\ op[o].pc = "health" => op[o].outcome # "none"

\* Only a removal has a staged home, and past the registry it works on a name
\* that is not registered.
RemovalsInOrder ==
    \A a \in Admins :
        /\ admin[a].moved # NoHome => admin[a].pc \in {"pop", "purge", "purgeState"}
        /\ admin[a].pc \in {"purge", "purgeState", "sweep"} => registry[admin[a].name].inc = 0

\* A home holds the data of the registered incarnation and of strays only, and so
\* does what a removal may still move back.
HomesFit ==
    /\ \A n \in Names : home[n] \ NoHome \subseteq {registry[n].inc} \cup strays[n]
    /\ \A o \in Ops : op[o].pc = "run" => op[o].inc \in home[op[o].name]
    /\ \A a \in Admins : admin[a].pc = "pop" =>
            /\ home[admin[a].name] \ NoHome \subseteq strays[admin[a].name]
            /\ admin[a].moved \ NoHome
                  \subseteq {registry[admin[a].name].inc} \cup strays[admin[a].name]

\* Without watches, a profile that failed has a cooldown, also while it is disabled.
CooldownsFit ==
    /\ \A n \in Names :
            LET r == registry[n] IN
            /\ r.enabled => r.health # "disabled"
            /\ r.health = "limited" \/ (r.health = "disabled" /\ r.prior = "limited")
                => r.cooldown # "none"
    /\ \A o \in Ops : op[o].pc # "finalize"

CoreInv == TypeOK /\ Leases /\ RunsVerified /\ RemovalsInOrder

\* The inductive invariant: leases exclude removals from runs, so that what a run
\* verified stays true.
LifecycleInv ==
    /\ CoreInv
    /\ HomesFit
    /\ Watched = {} => CooldownsFit

\* Whatever removals, creations and crashes of either run beside it, a run whose
\* launcher holds its lease goes on in the incarnation of the profile it verified:
\* the name is neither removed nor recreated under it, and its outcome is booked to
\* that incarnation.  An Agy that outlives the lease is a stray: nothing keeps its
\* profile.
RunKeepsProfile ==
    \A o \in Ops : op[o].pc \in {"launch", "run", "health"}
        => registry[op[o].name].inc = op[o].inc

\* Agy finds nothing in its home but what earlier runs of the same incarnation
\* left there, even after removals that failed or crashed half way: the data of an
\* older incarnation come from an Agy of it that outlived the lease, and from
\* nowhere else.
HomeIsOwn ==
    \A o \in Ops : op[o].pc = "run" =>
        /\ op[o].inc \in home[op[o].name]
        /\ home[op[o].name] \subseteq {op[o].inc} \cup strays[op[o].name]

\* A profile that stays registered keeps its data, in its home or staged: it
\* survives removals that fail or crash before the registry was written.
HasData(n) ==
    \/ (home[n] \cup leftover[n]) \ NoHome # {}
    \/ \E a \in Admins : admin[a].name = n /\ admin[a].moved \ NoHome # {}

RegisteredDataStays ==
    [][\A n \in Names :
        registry[n].inc # 0 /\ registry'[n].inc = registry[n].inc /\ HasData(n)
            => HasData(n)']_vars

\* An enabled profile that is out of the rotation has a cooldown that brings it
\* back: no order of outcomes, disabling and enabling loses the cooldown.
OutHasCooldown ==
    \A n \in Registered :
        registry[n].enabled /\ ~IsAvailable(registry[n]) => registry[n].cooldown = "running"
=============================================================================
