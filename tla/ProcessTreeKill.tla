-------------------------- MODULE ProcessTreeKill --------------------------
(***************************************************************************)
(* How the processes of one run are found and killed while they fork:      *)
(* _terminate_pid_tree, which ends with a verdict, and _kill_process_tree, *)
(* with which a launcher ends its Agy.                                     *)
(*                                                                         *)
(* Both find processes by the marker in their environment: the pids are    *)
(* listed, then the environment of each one is read.  SIGTERM may be       *)
(* ignored and processes end by themselves as well, so it has no effect of *)
(* its own here; SIGKILL has.  Children inherit the marker; what drops it  *)
(* is no process of the run.                                               *)
(***************************************************************************)
EXTENDS Naturals, FiniteSets

CONSTANTS
    Tree,           \* the processes the run may ever have
    TreeRoot        \* the first of them, the leader of a process group

ASSUME TreeAssumption == TreeRoot \in Tree

VARIABLES
    mode,           \* "verdict" for _terminate_pid_tree, "launcher" for the other
    born, ended,    \* the processes that have begun, and that are over
    group,          \* those in the process group of the root
    killer,         \* program counter
    force,          \* the time for SIGTERM is over
    listed,         \* the pids whose environment is still to be read
    known,          \* the processes found so far
    late            \* the processes born since the last listing whose result counts

treeVars == <<mode, born, ended, group, killer, force, listed, known, late>>

Living == born \ ended

TreeInit ==
    /\ mode \in {"verdict", "launcher"}
    /\ born = {TreeRoot}
    /\ ended = {}
    /\ group = {TreeRoot}
    /\ killer = "list"
    /\ force = FALSE
    /\ listed = {}
    /\ known = {}
    /\ late = {}

(***************************************************************************)
(* The processes.                                                          *)
(***************************************************************************)
Forks(p, q) ==
    /\ p \in Living /\ q \notin born
    /\ born' = born \cup {q}
    /\ group' = IF p \in group THEN group \cup {q} ELSE group
    /\ late' = late \cup {q}
    /\ UNCHANGED <<mode, ended, killer, force, listed, known>>

LeavesGroup(p) ==
    /\ p \in Living \cap group /\ p # TreeRoot
    /\ group' = group \ {p}
    /\ UNCHANGED <<mode, born, ended, killer, force, listed, known, late>>

Exits(p) ==
    /\ p \in Living
    /\ ended' = ended \cup {p}
    /\ UNCHANGED <<mode, born, group, killer, force, listed, known, late>>

(***************************************************************************)
(* The killer.  A listing in the last loop of _kill_process_tree, after    *)
(* SIGKILL was sent, finds processes but none is signalled any more.       *)
(***************************************************************************)
Counts == mode = "verdict" \/ ~force

ListsPids ==
    /\ killer = "list"
    /\ listed' = Living
    /\ late' = IF Counts THEN {} ELSE late
    /\ killer' = "visit"
    /\ UNCHANGED <<mode, born, ended, group, force, known>>

\* A process that is over by the time its environment is read is not found.
Visits(p) ==
    /\ killer = "visit"
    /\ p \in listed
    /\ listed' = listed \ {p}
    /\ known' = IF p \in Living THEN known \cup {p} ELSE known
    /\ UNCHANGED <<mode, born, ended, group, killer, force, late>>

\* Mutant: the first process that is found will do.
EndsVisitsEarly ==
    /\ killer = "visit" /\ (listed = {} \/ known # {})
    /\ listed' = {}
    /\ killer' = "look"
    /\ UNCHANGED <<mode, born, ended, group, force, known, late>>

EndsVisits ==
    /\ killer = "visit" /\ listed = {}
    /\ killer' = "look"
    /\ UNCHANGED <<mode, born, ended, group, force, listed, known, late>>

\* Nothing known is alive: the verdict is TRUE; the launcher wants its group to
\* be empty as well.
FindsDead ==
    /\ killer = "look"
    /\ known \cap Living = {}
    /\ mode = "launcher" => group \cap Living = {}
    /\ killer' = IF mode = "verdict" THEN "true" ELSE "returned"
    /\ UNCHANGED <<mode, born, ended, group, force, listed, known, late>>

\* Something is: it is signalled, which SIGTERM may or may not end.
FindsAlive ==
    /\ killer = "look"
    /\ known \cap Living # {} \/ (mode = "launcher" /\ group \cap Living # {})
    /\ killer' = "signal"
    /\ UNCHANGED <<mode, born, ended, group, force, listed, known, late>>

AsksToEnd ==
    /\ killer = "signal" /\ ~force
    /\ killer' = "list"
    /\ UNCHANGED <<mode, born, ended, group, force, listed, known, late>>

\* In _terminate_pid_tree every round of the second second kills what is known.
KillsKnown ==
    /\ killer = "signal" /\ force /\ mode = "verdict"
    /\ ended' = ended \cup (known \cap Living)
    /\ killer' = "list"
    /\ UNCHANGED <<mode, born, group, force, listed, known, late>>

\* Mutant: _kill_process_tree does not kill what it learnt while it waited.
KillsGroupOnly ==
    /\ killer = "signal" /\ ~force /\ mode = "launcher"
    /\ ended' = ended \cup (group \cap Living)
    /\ force' = TRUE
    /\ killer' = "list"
    /\ UNCHANGED <<mode, born, group, listed, known, late>>

\* _kill_process_tree kills once, when the grace period is over: the group and
\* what is known.
KillsOnce ==
    /\ killer = "signal" /\ ~force /\ mode = "launcher"
    /\ ended' = ended \cup ((group \cup known) \cap Living)
    /\ force' = TRUE
    /\ killer' = "list"
    /\ UNCHANGED <<mode, born, group, listed, known, late>>

GraceEnds ==
    /\ killer = "signal" /\ ~force /\ mode = "verdict"
    /\ force' = TRUE
    /\ UNCHANGED <<mode, born, ended, group, killer, listed, known, late>>

\* The second deadline: FALSE, or a return all the same.
GivesUp ==
    /\ killer = "signal" /\ force
    /\ killer' = IF mode = "verdict" THEN "false" ELSE "returned"
    /\ UNCHANGED <<mode, born, ended, group, force, listed, known, late>>

KillerStep ==
    \/ ListsPids \/ EndsVisits \/ FindsDead \/ FindsAlive \/ AsksToEnd
    \/ KillsKnown \/ KillsOnce \/ GraceEnds \/ GivesUp
    \/ \E p \in Tree : Visits(p)

TreeNext ==
    \/ KillerStep
    \/ \E p \in Tree : Exits(p) \/ LeavesGroup(p) \/ \E q \in Tree : Forks(p, q)

TreeSpec == TreeInit /\ [][TreeNext]_treeVars

(***************************************************************************)
(* Properties.                                                             *)
(***************************************************************************)
KillerPCs == {"list", "visit", "look", "signal", "true", "false", "returned"}

TreeTypeOK ==
    /\ mode \in {"verdict", "launcher"}
    /\ born \subseteq Tree /\ ended \subseteq born /\ group \subseteq born
    /\ killer \in KillerPCs
    /\ force \in BOOLEAN
    /\ listed \subseteq born /\ known \subseteq born /\ late \subseteq born

\* However the processes of a run fork and end while they are looked for, a
\* verdict TRUE overlooks none but those born after the last listing began.
VerdictMissesLateOnly == killer = "true" => Living \subseteq late

\* A launcher that returns leaves none of its Agy alive but what was born after
\* the last round of SIGTERM had listed the processes.
LauncherLeavesLateOnly == killer = "returned" => Living \subseteq late

\* What is alive is known, or still to be visited, or late; after SIGKILL, late.
TreeInv ==
    /\ TreeTypeOK
    /\ killer # "visit" => listed = {}
    /\ killer \in {"visit", "look", "signal", "true"} /\ Counts =>
          Living \subseteq known \cup listed \cup late
    /\ killer = "true" => mode = "verdict" /\ known \cap Living = {}
    /\ killer = "returned" => mode = "launcher"
    /\ (mode = "launcher" /\ force) \/ killer = "returned" => Living \subseteq late
=============================================================================
