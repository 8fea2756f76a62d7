------------------------------ MODULE MCParts ------------------------------
(***************************************************************************)
(* One run for the parts of magy that do not interact in the models: the   *)
(* disjoint union of their state spaces.  The initial state chooses a part;*)
(* that part takes steps and the others stay in their initial states, in   *)
(* which none of the actions with a fairness condition is enabled.         *)
(***************************************************************************)
EXTENDS ProfileLifecycle, IdempotentStart, OutputPaging, AtomicStore, RoundRobin, SettingsSync,
        ProcessTreeKill

VARIABLE part

Parts == {"profiles", "start", "paging", "store", "rotation", "settings", "tree"}

\* A part that is not chosen begins in one state only.  The synchronisation begins
\* with links in the place of copies only where nothing is in the place of the skills
\* links, and with the user's skills in one place at most; an edit may change that.
PartsInit ==
    /\ part \in Parts
    /\ Init /\ StartInit /\ PagingInit /\ StoreInit /\ RotationInit /\ SyncInit /\ TreeInit
    /\ part # "paging" => kind = "log"
    /\ part # "settings" => gemini /\ skillsAt = {} /\ skillsLink["skills"] = "none"
    /\ \/ \A f \in Settings : copy[f] = NoFile
       \/ part = "settings" /\ skillsLink["skills"] = "none"
    /\ skillsAt # {"top", "config"}
    /\ part # "tree" => mode = "verdict"

PartsNext ==
    /\ UNCHANGED part
    /\ \/ part = "profiles" /\ Next /\
            UNCHANGED <<startVars, pagingVars, storeVars, rotationVars, syncVars, treeVars>>
       \/ part = "start" /\ StartNext /\
            UNCHANGED <<vars, pagingVars, storeVars, rotationVars, syncVars, treeVars>>
       \/ part = "paging" /\ PagingNext /\
            UNCHANGED <<vars, startVars, storeVars, rotationVars, syncVars, treeVars>>
       \/ part = "store" /\ StoreNext /\
            UNCHANGED <<vars, startVars, pagingVars, rotationVars, syncVars, treeVars>>
       \/ part = "rotation" /\ RotationNext /\
            UNCHANGED <<vars, startVars, pagingVars, storeVars, syncVars, treeVars>>
       \/ part = "settings" /\ SyncNext /\
            UNCHANGED <<vars, startVars, pagingVars, storeVars, rotationVars, treeVars>>
       \/ part = "tree" /\ TreeNext /\
            UNCHANGED <<vars, startVars, pagingVars, storeVars, rotationVars, syncVars>>

allVars == <<part, vars, startVars, pagingVars, storeVars, rotationVars, syncVars, treeVars>>

PartsSpec ==
    /\ PartsInit /\ [][PartsNext]_allVars
    /\ StartFairness /\ PagingFairness /\ SyncFairness

\* The inductive invariants and the types of the parts: a call of start_run that
\* fails keeps no lock and leaves no key to a run that is not there, temporary files
\* are complete before they are renamed, no half copy is seen, and so on.
PartsInv ==
    /\ LifecycleInv
    /\ StartInv /\ StoreInv /\ RotationInv /\ TreeInv /\ PagingInv /\ SyncInv
=============================================================================
