-------------------------- MODULE IdempotentStart --------------------------
(***************************************************************************)
(* start_run with and without an idempotency key: the key table, the two   *)
(* files of a new run, the spawn of its worker, and what callers with the  *)
(* same key are answered when starters crash anywhere, writes fail and run *)
(* directories are deleted by hand.                                        *)
(*                                                                         *)
(* A call creates at most one run, so the run bears the name of its call.  *)
(* What happens to a run after its worker was spawned is DetachedRun; here *)
(* it is claimed by its worker while it is queued, and settled by the      *)
(* worker or by whoever has its id and finds no worker alive, on a scan    *)
(* that may be older than the worker.                                      *)
(***************************************************************************)
CONSTANTS
    Calls,      \* calls of start_run, each with the name of the run it may create
    Keys,       \* idempotency keys
    Keyless,    \* stands for the absence of a key
    NoRun       \* stands for the absence of a run

ASSUME StartAssumption ==
    /\ Keyless \notin Keys
    /\ NoRun \notin Calls

VARIABLES
    keyTable,   \* idempotency.json: the run of each key
    keyLock,    \* the holder of .idempotency.lock
    files,      \* per run: what its directory holds, with the status in state.json
    crew,       \* per run: its worker, "none", "spawned", "working" or "gone"
    doomed,     \* runs that a poll has found without a worker and not yet settled
    call        \* per call: program counter, key, run to return, whether it is new

startVars == <<keyTable, keyLock, files, crew, doomed, call>>

CallPCs == {"idle", "lock", "lookup", "request", "state", "key", "spawn", "giveup",
            "status", "answered", "raised", "crashed"}
LockedPCs == {"lookup", "request", "state", "key"}
CallRecords == [pc : CallPCs, key : Keys \cup {Keyless}, run : Calls \cup {NoRun}]
RunFiles == {"none", "request", "queued", "running", "settled"}

\* A directory without state.json is one that no reader takes for a run.
Readable == {r \in Calls : files[r] \in {"queued", "running", "settled"}}

StartInit ==
    /\ keyTable = [k \in Keys |-> NoRun]
    /\ keyLock = NoRun
    /\ files = [r \in Calls |-> "none"]
    /\ crew = [r \in Calls |-> "none"]
    /\ doomed = {}
    /\ call = [c \in Calls |-> [pc |-> "idle", key |-> Keyless, run |-> NoRun]]

Keyed(c) == call[c].key # Keyless
CallGoes(c, pc) == call' = [call EXCEPT ![c].pc = pc]
Alive(r) == crew[r] \in {"spawned", "working"}

\* A process that ends in any way gives up its file lock.
Unlocked(c) == IF keyLock = c THEN NoRun ELSE keyLock

(***************************************************************************)
(* create_run.                                                             *)
(***************************************************************************)
CallsStart(c, k) ==
    /\ call[c].pc = "idle"
    /\ call' = [call EXCEPT ![c] = [pc |-> IF k = Keyless THEN "request" ELSE "lock",
                                    key |-> k, run |-> NoRun]]
    /\ UNCHANGED <<keyTable, keyLock, files, crew, doomed>>

\* Mutant: nobody waits for the lock of the key table.
TakesKeyLockAnyway(c) ==
    /\ call[c].pc = "lock"
    /\ CallGoes(c, "lookup")
    /\ UNCHANGED <<keyTable, keyLock, files, crew, doomed>>

TakesKeyLock(c) ==
    /\ call[c].pc = "lock"
    /\ keyLock = NoRun
    /\ keyLock' = c
    /\ CallGoes(c, "lookup")
    /\ UNCHANGED <<keyTable, files, crew, doomed>>

\* Ten seconds are over before the lock is free.
KeyLockTimesOut(c) ==
    /\ call[c].pc = "lock"
    /\ keyLock # NoRun
    /\ CallGoes(c, "raised")
    /\ UNCHANGED <<keyTable, keyLock, files, crew, doomed>>

\* The run of the key is returned if request and state can be read.
FindsRun(c) ==
    /\ call[c].pc = "lookup"
    /\ keyTable[call[c].key] \in Readable
    /\ keyLock' = Unlocked(c)
    /\ call' = [call EXCEPT ![c] = [pc |-> "status", key |-> @.key, run |-> keyTable[@.key]]]
    /\ UNCHANGED <<keyTable, files, crew, doomed>>

FindsNoRun(c) ==
    /\ call[c].pc = "lookup"
    /\ keyTable[call[c].key] \notin Readable
    /\ CallGoes(c, "request")
    /\ UNCHANGED <<keyTable, keyLock, files, crew, doomed>>

WritesRequest(c) ==
    /\ call[c].pc = "request"
    /\ files' = [files EXCEPT ![c] = "request"]
    /\ CallGoes(c, "state")
    /\ UNCHANGED <<keyTable, keyLock, crew, doomed>>

WritesState(c) ==
    /\ call[c].pc = "state"
    /\ files' = [files EXCEPT ![c] = "queued"]
    /\ call' = [call EXCEPT ![c] = [pc |-> IF Keyed(c) THEN "key" ELSE "spawn",
                                    key |-> @.key, run |-> c]]
    /\ UNCHANGED <<keyTable, keyLock, crew, doomed>>

\* The key is written last, before the lock is given back and before any
\* worker exists.
WritesKey(c) ==
    /\ call[c].pc = "key"
    /\ keyTable' = [keyTable EXCEPT ![call[c].key] = c]
    /\ keyLock' = Unlocked(c)
    /\ CallGoes(c, "spawn")
    /\ UNCHANGED <<files, crew, doomed>>

\* Mutant: the lock is not given back when a file cannot be written.
WriteFailsLocked(c) ==
    /\ call[c].pc \in {"request", "state", "key"}
    /\ CallGoes(c, "raised")
    /\ UNCHANGED <<keyTable, keyLock, files, crew, doomed>>

\* A file cannot be written.
WriteFails(c) ==
    /\ call[c].pc \in {"request", "state", "key"}
    /\ keyLock' = Unlocked(c)
    /\ CallGoes(c, "raised")
    /\ UNCHANGED <<keyTable, files, crew, doomed>>

(***************************************************************************)
(* The rest of start_run, for a run that is new.                           *)
(***************************************************************************)
SpawnsWorker(c) ==
    /\ call[c].pc = "spawn"
    /\ crew' = [crew EXCEPT ![c] = "spawned"]
    /\ CallGoes(c, "status")
    /\ UNCHANGED <<keyTable, keyLock, files, doomed>>

SpawnFails(c) ==
    /\ call[c].pc = "spawn"
    /\ CallGoes(c, "giveup")
    /\ UNCHANGED <<keyTable, keyLock, files, crew, doomed>>

\* fail_run_if_active, which raises when there is no record.
GivesUpRun(c) ==
    /\ call[c].pc = "giveup"
    /\ files' = [files EXCEPT ![c] = IF c \in Readable THEN "settled" ELSE @]
    /\ CallGoes(c, IF c \in Readable THEN "status" ELSE "raised")
    /\ UNCHANGED <<keyTable, keyLock, crew, doomed>>

\* The get_run_status that ends start_run.
AnswersStart(c) ==
    /\ call[c].pc = "status"
    /\ CallGoes(c, IF call[c].run \in Readable THEN "answered" ELSE "raised")
    /\ UNCHANGED <<keyTable, keyLock, files, crew, doomed>>

CallDies(c) ==
    /\ call[c].pc \notin {"idle", "answered", "raised", "crashed"}
    /\ keyLock' = Unlocked(c)
    /\ CallGoes(c, "crashed")
    /\ UNCHANGED <<keyTable, files, crew, doomed>>

CallStep(c) ==
    \/ TakesKeyLock(c) \/ KeyLockTimesOut(c) \/ FindsRun(c) \/ FindsNoRun(c)
    \/ WritesRequest(c) \/ WritesState(c) \/ WritesKey(c) \/ WriteFails(c)
    \/ SpawnsWorker(c) \/ SpawnFails(c) \/ GivesUpRun(c) \/ AnswersStart(c)

(***************************************************************************)
(* The run afterwards.                                                     *)
(***************************************************************************)
\* claim_run: only a queued run is claimed; any other worker just ends.
WorkerClaims(r) ==
    /\ crew[r] = "spawned"
    /\ IF files[r] = "queued"
       THEN /\ files' = [files EXCEPT ![r] = "running"]
            /\ crew' = [crew EXCEPT ![r] = "working"]
       ELSE /\ crew' = [crew EXCEPT ![r] = "gone"]
            /\ UNCHANGED files
    /\ UNCHANGED <<keyTable, keyLock, doomed, call>>

\* The worker finalizes the run, or dies without a word.
WorkerEnds(r) ==
    /\ Alive(r)
    /\ crew' = [crew EXCEPT ![r] = "gone"]
    /\ \/ /\ crew[r] = "working"
          /\ files' = [files EXCEPT ![r] = IF @ = "running" THEN "settled" ELSE @]
       \/ UNCHANGED files
    /\ UNCHANGED <<keyTable, keyLock, doomed, call>>

Polled(r) == \E c \in Calls : call[c].pc = "answered" /\ call[c].run = r
Unsettled(r) == files[r] \in {"queued", "running"}

\* Mutant: only a worker that was seen alive is taken for dead.
PollFindsDeadWorker(r) ==
    /\ Polled(r)
    /\ files[r] = "queued"
    /\ crew[r] = "gone"
    /\ doomed' = doomed \cup {r}
    /\ UNCHANGED <<keyTable, keyLock, files, crew, call>>

\* Whoever was answered with the run polls it; without a lock it finds the run queued
\* after its grace period, and no process of it.
PollFindsNoWorker(r) ==
    /\ Polled(r)
    /\ files[r] = "queued"
    /\ ~Alive(r)
    /\ doomed' = doomed \cup {r}
    /\ UNCHANGED <<keyTable, keyLock, files, crew, call>>

\* fail_run_if_active, also when a worker was spawned and has claimed the run since.
PollFails(r) ==
    /\ r \in doomed
    /\ doomed' = doomed \ {r}
    /\ files' = [files EXCEPT ![r] = IF Unsettled(r) THEN "settled" ELSE @]
    /\ UNCHANGED <<keyTable, keyLock, crew, call>>

\* Under the lock of the run a poll finds that its worker is dead.
PollSettles(r) ==
    /\ Polled(r)
    /\ Unsettled(r)
    /\ crew[r] = "gone"
    /\ files' = [files EXCEPT ![r] = "settled"]
    /\ UNCHANGED <<keyTable, keyLock, crew, doomed, call>>

\* Somebody deletes the directory of a run that is over.
DirectoryDeleted(r) ==
    /\ files[r] = "settled"
    /\ crew[r] \in {"none", "gone"}
    /\ files' = [files EXCEPT ![r] = "none"]
    /\ UNCHANGED <<keyTable, keyLock, crew, doomed, call>>

StartNext ==
    \/ \E c \in Calls : CallStep(c) \/ CallDies(c) \/ \E k \in Keys \cup {Keyless} : CallsStart(c, k)
    \/ \E r \in Calls : WorkerClaims(r) \/ WorkerEnds(r) \/ DirectoryDeleted(r)
                        \/ PollFindsNoWorker(r) \/ PollFails(r) \/ PollSettles(r)

StartSpec == StartInit /\ [][StartNext]_startVars

\* Workers run, and a caller that was given an id asks for its status again
\* and again; starters may die or take for ever.
StartFairness ==
    \A r \in Calls :
        /\ WF_startVars(WorkerClaims(r) \/ WorkerEnds(r))
        /\ WF_startVars(PollFindsNoWorker(r)) /\ WF_startVars(PollFails(r))
        /\ WF_startVars(PollSettles(r))

(***************************************************************************)
(* Properties.                                                             *)
(***************************************************************************)
\* Every variable stays in its domain, and nobody keeps the lock of the key
\* table who has left it.
StartTypeOK ==
    /\ keyTable \in [Keys -> Calls \cup {NoRun}]
    /\ keyLock \in {c \in Calls : call[c].pc \in LockedPCs} \cup {NoRun}
    /\ files \in [Calls -> RunFiles]
    /\ crew \in [Calls -> {"none", "spawned", "working", "gone"}]
    /\ doomed \subseteq Calls
    /\ call \in [Calls -> CallRecords]

Answered(c) == call[c].pc = "answered" /\ files[call[c].run] # "none"

\* Callers with the same key are answered with the same run, whatever starters
\* crash between the record, the key and the spawn; only a run that was deleted
\* is replaced.
AnswersAgree ==
    \A c, d \in Calls :
        Answered(c) /\ Answered(d) /\ call[c].key = call[d].key /\ call[c].key # Keyless
            => call[c].run = call[d].run

\* A key never has two workers at work at once: a run that was created for it and lost
\* in a crash is never started beside the one that replaces it.
OneWorkerPerKey ==
    \A r, s \in Calls :
        crew[r] = "working" /\ crew[s] = "working" /\ call[r].key = call[s].key /\ call[r].key # Keyless => r = s

\* A run that somebody was answered with settles, even when the starter that
\* created it died between writing the key and spawning the worker.
AnsweredRunSettles ==
    \A r \in Calls :
        (\E c \in Calls : Answered(c) /\ call[c].run = r) ~> (files[r] \in {"settled", "none"})

(***************************************************************************)
(* Why callers agree, as an inductive invariant.                           *)
(***************************************************************************)
EarlyPCs == {"idle", "lock", "lookup", "request", "state", "key"}

\* The run a key is written for, and any run that was handed out or started, is
\* the run of the key until it is deleted.
Owns(k, r) == call[r].key = k /\ call[r].pc \notin EarlyPCs /\ (keyTable[k] = r \/ files[r] = "none")

StartInv ==
    /\ StartTypeOK
    /\ \A c \in Calls : keyLock = c <=> Keyed(c) /\ call[c].pc \in LockedPCs
    /\ \A c \in Calls : call[c].pc \in {"lock", "lookup", "key"} => Keyed(c)
    /\ \A c \in Calls : Keyed(c) /\ call[c].pc \in {"request", "state", "key"} =>
          keyTable[call[c].key] \notin Readable
    /\ \A c \in Calls : call[c].pc \in EarlyPCs \cup {"spawn", "giveup"} => crew[c] = "none"
    /\ \A k \in Keys : keyTable[k] # NoRun =>
          Owns(k, keyTable[k]) /\ files[keyTable[k]] # "request"
    /\ \A c \in Calls : Keyed(c) /\ call[c].pc \in {"spawn", "giveup", "status", "answered"} =>
          call[c].run \in Calls /\ Owns(call[c].key, call[c].run)
    /\ \A c \in Calls : call[c].pc \in {"key", "spawn"} => call[c].run = c
    /\ \A c \in Calls : call[c].pc = "key" => files[c] # "request"
    /\ \A r \in Calls : Keyed(r) /\ crew[r] # "none" => Owns(call[r].key, r)
    /\ \A r \in Calls : crew[r] = "working" => files[r] \in {"running", "settled"}
=============================================================================
