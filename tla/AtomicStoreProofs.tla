------------------------- MODULE AtomicStoreProofs -------------------------
(***************************************************************************)
(* For any number of writers: the record is always complete, answered      *)
(* updates stay, and the store implements an atomic record.                *)
(***************************************************************************)
EXTENDS AtomicStore, TLAPS

\* In its initial state the record is the empty one and nobody writes.
LEMMA StoreInitially == StoreInit => StoreInv
BY StoreAssumption
   DEF StoreInit, StoreInv, StoreTypeOK, WriterInv, FilesInv, AnsweredIsKept, Contents, Empty,
       WritingPCs, EndPCs

\* A step of one writer leaves the invariant true.
LEMMA StoreWriterStep ==
    ASSUME StoreInv, NEW w \in Writers, WriterStep(w)
    PROVE  StoreInv'
<1> USE StoreAssumption DEF StoreInv, StoreTypeOK, WriterInv, FilesInv, AnsweredIsKept, Contents,
        WritingPCs, EndPCs, WriterGoes, WriterEnds
<1>1. CASE LocksRecord(w)
  BY <1>1 DEF LocksRecord
<1>2. CASE RecordLockTimesOut(w)
  BY <1>2 DEF RecordLockTimesOut
<1>3. CASE ReadsRecord(w)
  <2>1. writer'[w].pc = "write" /\ writer[w].pc = "read"
        /\ writer'[w].temp = [updates |-> record.updates \cup {w}, on |-> "partial"]
    BY <1>3 DEF ReadsRecord
  <2>2. UNCHANGED <<record, afterLoss, recordLock, losses>>
        /\ \A v \in Writers \ {w} : writer'[v] = writer[v]
    BY <1>3 DEF ReadsRecord
  <2>3. StoreTypeOK'
    BY <1>3 DEF ReadsRecord
  <2>4. (WriterInv /\ FilesInv /\ AnsweredIsKept)'
    BY <2>1, <2>2
  <2> QED
    BY <2>3, <2>4
<1>4. CASE WritesTemp(w)
  BY <1>4 DEF WritesTemp
<1>5. CASE SyncsTemp(w)
  <2>1. writer'[w].pc = "replace"
    BY <1>5 DEF SyncsTemp
  <2>2. writer'[w].temp = [writer[w].temp EXCEPT !.on = "disk"]
    BY <1>5 DEF SyncsTemp
  <2>3. \A v \in Writers \ {w} : writer'[v] = writer[v]
    BY <1>5 DEF SyncsTemp
  <2>4. StoreTypeOK'
    BY <1>5 DEF SyncsTemp
  <2>5. WriterInv'
    <3>1. record' = record /\ recordLock' = recordLock
      BY <1>5 DEF SyncsTemp
    <3>2. writer[w].pc = "fsync" /\ writer[w].temp \in Contents
      BY <1>5 DEF SyncsTemp
    <3>3. writer'[w].temp.on = "disk" /\ writer'[w].temp.updates = writer[w].temp.updates
      BY <2>2, <3>2
    <3> QED
      BY <2>1, <2>3, <3>1, <3>2, <3>3
  <2>6. (FilesInv /\ AnsweredIsKept)'
    BY <1>5, <2>1, <2>3 DEF SyncsTemp
  <2> QED
    BY <2>4, <2>5, <2>6
<1>6. CASE ReplacesRecord(w)
  <2>1. writer' = [writer EXCEPT ![w].pc = "dirsync"] /\ writer[w].pc = "replace"
    BY <1>6 DEF ReplacesRecord
  <2>2. record'.updates = record.updates \cup {w} /\ record'.on = "disk"
    BY <1>6 DEF ReplacesRecord
  <2>3. StoreTypeOK'
    BY <1>6 DEF ReplacesRecord
  <2>4. WriterInv'
    BY <1>6, <2>1, <2>2 DEF ReplacesRecord
  <2>5. FilesInv'
    BY <1>6, <2>2 DEF ReplacesRecord
  <2>6. AnsweredIsKept'
    BY <1>6, <2>1, <2>2 DEF ReplacesRecord
  <2> QED
    BY <2>3, <2>4, <2>5, <2>6
<1>7. CASE SyncsDirectory(w)
  BY <1>7 DEF SyncsDirectory
<1>8. CASE StoreFails(w)
  BY <1>8 DEF StoreFails
<1>9. CASE WriterKilled(w)
  BY <1>9 DEF WriterKilled
<1>10. QED
  BY <1>1, <1>2, <1>3, <1>4, <1>5, <1>6, <1>7, <1>8, <1>9 DEF WriterStep

\* A power failure leaves the invariant true.
LEMMA StorePowerFails ==
    ASSUME StoreInv, PowerFails
    PROVE  StoreInv'
<1> USE StoreAssumption DEF StoreInv, StoreTypeOK, WriterInv, FilesInv, AnsweredIsKept, Contents,
        WritingPCs, EndPCs
<1>1. PICK f \in afterLoss :
          /\ record' = IF f.on = "disk" THEN f ELSE [f EXCEPT !.on = "torn"]
          /\ afterLoss' = {record'}
  BY DEF PowerFails
<1>2. record' = f
  BY <1>1
<1>3. losses' \in 1 .. MaxLosses /\ recordLock' = NoWriter
  BY DEF PowerFails
<1>4. \A w \in Writers : /\ writer[w].pc \in WritingPCs => writer'[w].pc = "killed"
                         /\ writer[w].pc \notin WritingPCs => writer'[w] = writer[w]
  BY DEF PowerFails
<1>5. StoreTypeOK'
  BY <1>1, <1>2, <1>3 DEF PowerFails
<1>6. (WriterInv /\ FilesInv)'
  BY <1>1, <1>2, <1>3, <1>4
<1>7. AnsweredIsKept'
  BY <1>1, <1>2, <1>3, <1>4
<1>8. QED
  BY <1>5, <1>6, <1>7

\* StoreInv holds in every state.
THEOREM StoreInvariance == StoreSpec => []StoreInv
<1>1. StoreInv /\ UNCHANGED storeVars => StoreInv'
  BY DEF StoreInv, StoreTypeOK, WriterInv, FilesInv, AnsweredIsKept, storeVars, WritingPCs, EndPCs
<1>2. StoreInv /\ [StoreNext]_storeVars => StoreInv'
  BY <1>1, StoreWriterStep, StorePowerFails DEF StoreNext
<1>3. QED
  BY <1>2, StoreInitially, PTL DEF StoreSpec

\* The record is complete in every state, also after a power failure.
THEOREM RecordsAreWhole == StoreSpec => []RecordIsWhole
<1>1. StoreInv => RecordIsWhole
  BY DEF StoreInv, FilesInv, RecordIsWhole
<1>2. QED
  BY <1>1, StoreInvariance, PTL

\* No answered update is ever lost, but for power failures after the directory
\* could not be forced to the disk.
THEOREM AnsweredUpdatesStay == StoreSpec => []AnsweredIsKept
<1>1. StoreInv => AnsweredIsKept
  BY DEF StoreInv
<1>2. QED
  BY <1>1, StoreInvariance, PTL

\* An update that raised has not been applied.
THEOREM RaisedUpdatesAreNot == StoreSpec => []RaisedIsUnapplied
<1>1. StoreInv => RaisedIsUnapplied
  BY DEF StoreInv, WriterInv, RaisedIsUnapplied
<1>2. QED
  BY <1>1, StoreInvariance, PTL

(***************************************************************************)
(* The refinement.                                                         *)
(***************************************************************************)
\* Answers that differ at one writer only.
LEMMA ToldChanges ==
    ASSUME NEW w \in Writers, NEW a, Told'[w] = a,
           \A v \in Writers \ {w} : Told'[v] = Told[v]
    PROVE  Told' = [Told EXCEPT ![w] = a]
<1>1. Told = [v \in Writers |-> Told[v]] /\ Told' = [v \in Writers |-> Told'[v]]
  BY DEF Told
<1>2. QED
  BY <1>1

\* Every step of one writer is a step of the atomic record or leaves it alone.
LEMMA WriterRefines ==
    ASSUME StoreInv, NEW w \in Writers, WriterStep(w)
    PROVE  [Record!RecordNext]_(Record!recordVars)
<1> USE StoreAssumption DEF StoreInv, StoreTypeOK, WriterInv, FilesInv, Contents, WritingPCs,
        EndPCs, WriterGoes, WriterEnds
<1>1. CASE LocksRecord(w) \/ ReadsRecord(w) \/ WritesTemp(w) \/ SyncsTemp(w) \/ WriterKilled(w)
  <2>1. record' = record /\ FirmUpdates' = FirmUpdates
    BY <1>1 DEF LocksRecord, ReadsRecord, WritesTemp, SyncsTemp, WriterKilled, FirmUpdates
  <2>2. Told' = Told
    BY <1>1 DEF LocksRecord, ReadsRecord, WritesTemp, SyncsTemp, WriterKilled, Told
  <2> QED
    BY <2>1, <2>2 DEF Record!recordVars
<1>2. CASE RecordLockTimesOut(w) \/ StoreFails(w)
  <2>1. record' = record /\ FirmUpdates' = FirmUpdates /\ w \notin record.updates
    BY <1>2 DEF RecordLockTimesOut, StoreFails, FirmUpdates
  <2>2. writer[w].pc \in {"idle", "read", "write", "fsync", "replace"}
        /\ writer'[w].pc = "raised" /\ \A v \in Writers \ {w} : writer'[v] = writer[v]
    BY <1>2 DEF RecordLockTimesOut, StoreFails
  <2>3. Told[w] = "none" /\ Told' = [Told EXCEPT ![w] = "failed"]
    <3>1. Told[w] = "none" /\ Told'[w] = "failed"
      BY <2>2 DEF Told
    <3>2. \A v \in Writers \ {w} : Told'[v] = Told[v]
      BY <2>2 DEF Told
    <3> QED
      BY <3>1, <3>2, ToldChanges
  <2> QED
    BY <2>1, <2>3 DEF Record!RecordNext, Record!Refuse
<1>3. CASE ReplacesRecord(w)
  <2>1. record'.updates = record.updates \cup {w}
    BY <1>3 DEF ReplacesRecord
  <2>2. FirmUpdates' = FirmUpdates
    BY <1>3, <2>1 DEF ReplacesRecord, FirmUpdates
  <2>3. Told[w] = "none" /\ Told' = Told
    BY <1>3 DEF ReplacesRecord, Told
  <2> QED
    BY <2>1, <2>2, <2>3 DEF Record!RecordNext, Record!Commit
<1>4. CASE SyncsDirectory(w)
  <2>1. record' = record /\ w \in record.updates
    BY <1>4 DEF SyncsDirectory
  <2>2. FirmUpdates' \in {FirmUpdates, record.updates}
    BY <1>4 DEF SyncsDirectory, FirmUpdates
  <2>3. writer[w].pc = "dirsync" /\ writer'[w].pc \in {"done", "soft"}
        /\ \A v \in Writers \ {w} : writer'[v] = writer[v]
    BY <1>4 DEF SyncsDirectory
  <2>4. Told[w] = "none" /\ Told' = [Told EXCEPT ![w] = "done"]
    <3>1. Told[w] = "none" /\ Told'[w] = "done"
      BY <2>3 DEF Told
    <3>2. \A v \in Writers \ {w} : Told'[v] = Told[v]
      BY <2>3 DEF Told
    <3> QED
      BY <3>1, <3>2, ToldChanges
  <2> QED
    BY <2>1, <2>2, <2>4 DEF Record!RecordNext, Record!Answer
<1>5. QED
  BY <1>1, <1>2, <1>3, <1>4 DEF WriterStep

\* A power failure is a loss of updates that were not firm.
LEMMA LossRefines ==
    ASSUME StoreInv, PowerFails
    PROVE  Record!Lose
<1> USE StoreAssumption DEF StoreInv, StoreTypeOK, FilesInv, Contents, WritingPCs, EndPCs
<1>1. PICK f \in afterLoss :
          /\ record' = IF f.on = "disk" THEN f ELSE [f EXCEPT !.on = "torn"]
          /\ afterLoss' = {record'}
  BY DEF PowerFails
<1>2. record' = f /\ f.updates \subseteq Writers
  BY <1>1
<1>3. FirmUpdates \subseteq record'.updates /\ record'.updates \subseteq record.updates
  BY <1>2 DEF FirmUpdates
<1>4. FirmUpdates' = record'.updates
  BY <1>1, <1>2 DEF FirmUpdates
<1>5. Told' = Told
  BY DEF PowerFails, Told
<1>6. QED
  BY <1>3, <1>4, <1>5 DEF Record!Lose

\* The store implements an atomic record.
THEOREM StoreIsAtomic == StoreSpec => ImplementsRecord
<1>1. StoreInit => Record!RecordInit
  BY DEF StoreInit, Record!RecordInit, Empty, FirmUpdates, Told
<1>2. StoreInv /\ UNCHANGED storeVars => UNCHANGED Record!recordVars
  BY DEF storeVars, Record!recordVars, FirmUpdates, Told
<1>3. StoreInv /\ [StoreNext]_storeVars => [Record!RecordNext]_(Record!recordVars)
  BY <1>2, WriterRefines, LossRefines DEF StoreNext, Record!RecordNext
<1>4. QED
  BY <1>1, <1>3, StoreInvariance, PTL DEF StoreSpec, ImplementsRecord, Record!RecordSpec
=============================================================================
