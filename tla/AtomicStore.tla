---------------------------- MODULE AtomicStore ----------------------------
(***************************************************************************)
(* update_json and atomic_write_json: how the processes of magy change one *)
(* JSON record.  A writer locks the record, reads it, writes a temporary   *)
(* file next to it, forces it to the disk, renames it over the record and  *)
(* forces the directory to the disk.  Any of these steps may fail, the     *)
(* process may be killed between two of them, and the power may fail.      *)
(*                                                                         *)
(* A file is the set of updates it holds and how much of it is on the disk.*)
(* The data of a file that was not forced to the disk and the renames since*)
(* the directory was are lost in a power failure, or not.  The names of    *)
(* temporary files are unique, so one that is left behind is never met     *)
(* again and is forgotten here.                                            *)
(***************************************************************************)
EXTENDS Naturals

CONSTANTS
    Writers,        \* calls of update_json on the record, each with its update
    NoWriter,       \* stands for the absence of a writer
    MaxLosses       \* bound on the number of power failures

ASSUME StoreAssumption ==
    /\ NoWriter \notin Writers
    /\ MaxLosses \in Nat

VARIABLES
    record,         \* the file the record's name refers to
    afterLoss,      \* the files the name may refer to after a power failure
    recordLock,     \* the holder of the lock of the record
    writer,         \* per call: program counter and temporary file
    losses          \* how often the power has failed

storeVars == <<record, afterLoss, recordLock, writer, losses>>

Contents == [updates : SUBSET Writers, on : {"partial", "cached", "disk", "torn"}]
Empty == [updates |-> {}, on |-> "disk"]

WritingPCs == {"read", "write", "fsync", "replace", "dirsync"}
\* "done" is an answer after the directory was forced to the disk, "soft" one
\* where that failed.
EndPCs == {"done", "soft", "raised", "killed"}

StoreInit ==
    /\ record = Empty
    /\ afterLoss = {Empty}
    /\ recordLock = NoWriter
    /\ writer = [w \in Writers |-> [pc |-> "idle", temp |-> Empty]]
    /\ losses = 0

WriterGoes(w, pc) == writer' = [writer EXCEPT ![w].pc = pc]

\* A call that ends in whatever way gives up the lock.
WriterEnds(w, pc) ==
    /\ recordLock' = IF recordLock = w THEN NoWriter ELSE recordLock
    /\ WriterGoes(w, pc)

\* Mutant: the lock is not waited for.
LocksRecordAnyway(w) ==
    /\ writer[w].pc = "idle"
    /\ recordLock' = w
    /\ WriterGoes(w, "read")
    /\ UNCHANGED <<record, afterLoss, losses>>

LocksRecord(w) ==
    /\ writer[w].pc = "idle"
    /\ recordLock = NoWriter
    /\ recordLock' = w
    /\ WriterGoes(w, "read")
    /\ UNCHANGED <<record, afterLoss, losses>>

RecordLockTimesOut(w) ==
    /\ writer[w].pc = "idle"
    /\ recordLock # NoWriter
    /\ WriterGoes(w, "raised")
    /\ UNCHANGED <<record, afterLoss, recordLock, losses>>

\* Mutant: the record itself is opened for writing.
WritesInPlace(w) ==
    /\ writer[w].pc = "read"
    /\ record' = [updates |-> record.updates \cup {w}, on |-> "partial"]
    /\ writer' = [writer EXCEPT ![w] = [pc |-> "write", temp |-> record']]
    /\ UNCHANGED <<afterLoss, recordLock, losses>>

\* The record is read and updated in memory, and the temporary file created.
ReadsRecord(w) ==
    /\ writer[w].pc = "read"
    /\ writer' = [writer EXCEPT ![w] =
          [pc |-> "write", temp |-> [updates |-> record.updates \cup {w}, on |-> "partial"]]]
    /\ UNCHANGED <<record, afterLoss, recordLock, losses>>

WritesTemp(w) ==
    /\ writer[w].pc = "write"
    /\ writer' = [writer EXCEPT ![w] = [pc |-> "fsync", temp |-> [@.temp EXCEPT !.on = "cached"]]]
    /\ UNCHANGED <<record, afterLoss, recordLock, losses>>

\* Mutant: the temporary file is not forced to the disk.
SkipsSync(w) ==
    /\ writer[w].pc = "fsync"
    /\ WriterGoes(w, "replace")
    /\ UNCHANGED <<record, afterLoss, recordLock, losses>>

SyncsTemp(w) ==
    /\ writer[w].pc = "fsync"
    /\ writer' = [writer EXCEPT ![w] = [pc |-> "replace", temp |-> [@.temp EXCEPT !.on = "disk"]]]
    /\ UNCHANGED <<record, afterLoss, recordLock, losses>>

ReplacesRecord(w) ==
    /\ writer[w].pc = "replace"
    /\ record' = writer[w].temp
    /\ afterLoss' = afterLoss \cup {writer[w].temp}
    /\ WriterGoes(w, "dirsync")
    /\ UNCHANGED <<recordLock, losses>>

\* Mutant: a directory that cannot be forced to the disk is an error.
SyncsDirectoryOrRaises(w) ==
    /\ writer[w].pc = "dirsync"
    /\ \/ afterLoss' = {record} /\ WriterEnds(w, "done")
       \/ UNCHANGED afterLoss /\ WriterEnds(w, "raised")
    /\ UNCHANGED <<record, losses>>

\* A directory that cannot be forced to the disk is no error.
SyncsDirectory(w) ==
    /\ writer[w].pc = "dirsync"
    /\ \/ afterLoss' = {record} /\ WriterEnds(w, "done")
       \/ UNCHANGED afterLoss /\ WriterEnds(w, "soft")
    /\ UNCHANGED <<record, losses>>

\* Reading, writing, forcing or renaming raises; the temporary file is removed.
StoreFails(w) ==
    /\ writer[w].pc \in WritingPCs \ {"dirsync"}
    /\ WriterEnds(w, "raised")
    /\ UNCHANGED <<record, afterLoss, losses>>

WriterKilled(w) ==
    /\ writer[w].pc \in WritingPCs
    /\ WriterEnds(w, "killed")
    /\ UNCHANGED <<record, afterLoss, losses>>

\* The machine is started again with one of the files the name may refer to.
PowerFails ==
    /\ losses < MaxLosses
    /\ losses' = losses + 1
    /\ \E f \in afterLoss :
          /\ record' = IF f.on = "disk" THEN f ELSE [f EXCEPT !.on = "torn"]
          /\ afterLoss' = {record'}
    /\ recordLock' = NoWriter
    /\ writer' = [w \in Writers |->
          IF writer[w].pc \in WritingPCs THEN [writer[w] EXCEPT !.pc = "killed"]
          ELSE writer[w]]

WriterStep(w) ==
    \/ LocksRecord(w) \/ RecordLockTimesOut(w) \/ ReadsRecord(w) \/ WritesTemp(w)
    \/ SyncsTemp(w) \/ ReplacesRecord(w) \/ SyncsDirectory(w) \/ StoreFails(w)
    \/ WriterKilled(w)

StoreNext == PowerFails \/ \E w \in Writers : WriterStep(w)

StoreSpec == StoreInit /\ [][StoreNext]_storeVars

(***************************************************************************)
(* Properties.                                                             *)
(***************************************************************************)
\* Every variable stays in its domain, and nobody keeps the lock who is not
\* writing.
StoreTypeOK ==
    /\ record \in Contents
    /\ afterLoss \in SUBSET Contents
    /\ recordLock \in {w \in Writers : writer[w].pc \in WritingPCs} \cup {NoWriter}
    /\ writer \in [Writers -> [pc : {"idle"} \cup WritingPCs \cup EndPCs, temp : Contents]]
    /\ losses \in 0 .. MaxLosses

\* Whoever opens the record without its lock, also after a power failure in the
\* middle of a write, finds a complete one.
RecordIsWhole == record.on = "disk"

\* An answered update is not overwritten by writers that began before it ended,
\* and where the directory could be forced to the disk no power failure takes it.
AnsweredIsKept ==
    \A w \in Writers :
        /\ writer[w].pc = "done" => \A f \in afterLoss \cup {record} : w \in f.updates
        /\ writer[w].pc = "soft" /\ losses = 0 => w \in record.updates

\* What a caller was told to have failed has not happened, so a retry does not
\* repeat it.
RaisedIsUnapplied ==
    \A w \in Writers : writer[w].pc = "raised" => w \notin record.updates

(***************************************************************************)
(* Refinement: the updates that every file the name may refer to holds are *)
(* firm, and the end of a call is its answer.                              *)
(***************************************************************************)
FirmUpdates == {w \in Writers : \A f \in afterLoss : w \in f.updates}
Told == [w \in Writers |-> IF writer[w].pc \in {"done", "soft"} THEN "done"
                          ELSE IF writer[w].pc = "raised" THEN "failed" ELSE "none"]

Record == INSTANCE AtomicRecord
    WITH Updates <- Writers, value <- record.updates, firm <- FirmUpdates, answer <- Told

\* Every step of the writers, their crashes and power failures are a step of an
\* atomic record.
ImplementsRecord == Record!RecordSpec

(***************************************************************************)
(* What makes them true together, and inductive.                           *)
(***************************************************************************)
\* Who writes holds the lock, and only who renamed or was answered is recorded.
WriterInv ==
    \A w \in Writers :
        /\ writer[w].pc \in WritingPCs => recordLock = w
        /\ writer[w].pc \in {"write", "fsync", "replace"} =>
              writer[w].temp.updates = record.updates \cup {w}
        /\ writer[w].pc = "replace" => writer[w].temp.on = "disk"
        /\ writer[w].pc \in {"idle", "read", "write", "fsync", "replace", "raised"} =>
              w \notin record.updates
        /\ writer[w].pc = "dirsync" => w \in record.updates

\* The name refers to a complete file whatever happens, and to the newest one
\* as long as the power does not fail.
FilesInv ==
    /\ record \in afterLoss
    /\ \A f \in afterLoss : f.on = "disk" /\ f.updates \subseteq record.updates

StoreInv == StoreTypeOK /\ WriterInv /\ FilesInv /\ AnsweredIsKept
=============================================================================
