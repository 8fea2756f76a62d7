----------------------- MODULE IdempotentStartProofs -----------------------
(***************************************************************************)
(* Callers of start_run with the same key agree, and no key has two        *)
(* workers, for any number of calls and keys.                              *)
(***************************************************************************)
EXTENDS IdempotentStart, TLAPS

\* StartInv is inductive. The hard steps are those that write the state, the key
\* and the answer of a call: no run loses its key unless it was deleted.
LEMMA StartStep == StartInv /\ [StartNext]_startVars => StartInv'
<1> SUFFICES ASSUME StartInv, [StartNext]_startVars
             PROVE  StartInv'
  OBVIOUS
<1> USE StartAssumption DEF StartInv, StartTypeOK, Owns, Keyed, EarlyPCs, LockedPCs, CallPCs, CallRecords,
        RunFiles, Readable, CallGoes, Unlocked, Alive
<1>1. ASSUME NEW c \in Calls, NEW k \in Keys \cup {Keyless}, CallsStart(c, k) PROVE StartInv'
  BY <1>1 DEF CallsStart
<1>2. ASSUME NEW c \in Calls, TakesKeyLock(c) PROVE StartInv'
  BY <1>2 DEF TakesKeyLock
<1>3. ASSUME NEW c \in Calls, KeyLockTimesOut(c) PROVE StartInv'
  BY <1>3 DEF KeyLockTimesOut
<1>4. ASSUME NEW c \in Calls, FindsRun(c) PROVE StartInv'
  <2> DEFINE r == keyTable[call[c].key]
  <2>1. /\ r \in Calls
        /\ files[r] # "none"
        /\ call[c].key \in Keys
        /\ Owns(call[c].key, r)
        /\ keyLock = c
        /\ c # r
    BY <1>4 DEF FindsRun
  <2>2. /\ call'[c].pc = "status" /\ call'[c].key = call[c].key /\ call'[c].run = r
        /\ \A d \in Calls \ {c} : call'[d] = call[d]
        /\ call' \in [Calls -> CallRecords]
        /\ call[c].pc = "lookup"
    BY <1>4, <2>1 DEF FindsRun
  <2>3. keyLock' = NoRun /\ UNCHANGED <<keyTable, files, crew, doomed>>
    BY <1>4, <2>1 DEF FindsRun
  <2> HIDE DEF r
  <2>4. \A k \in Keys, d \in Calls : Owns(k, d) => Owns(k, d)'
    BY <2>1, <2>2, <2>3
  <2>5. call'[c].run \in Calls /\ Owns(call[c].key, call[c].run)'
    BY <2>1, <2>2, <2>4
  <2>6. StartTypeOK'
    BY <2>1, <2>2, <2>3
  <2>7. /\ \A d \in Calls : keyLock' = d <=> Keyed(d)' /\ call'[d].pc \in LockedPCs
        /\ \A d \in Calls : call'[d].pc \in {"lock", "lookup", "key"} => Keyed(d)'
    BY <2>1, <2>2, <2>3
  <2>8. \A d \in Calls : Keyed(d)' /\ call'[d].pc \in {"request", "state", "key"} =>
            keyTable'[call'[d].key] \notin Readable'
    BY <2>1, <2>2, <2>3
  <2>9. /\ \A d \in Calls : call'[d].pc \in EarlyPCs \cup {"spawn", "giveup"} => crew'[d] = "none"
        /\ \A d \in Calls : call'[d].pc \in {"key", "spawn"} => call'[d].run = d
        /\ \A d \in Calls : call'[d].pc = "key" => files'[d] # "request"
        /\ \A d \in Calls : crew'[d] = "working" => files'[d] \in {"running", "settled"}
    BY <2>1, <2>2, <2>3
  <2>10. \A j \in Keys : keyTable'[j] # NoRun =>
            Owns(j, keyTable[j])' /\ files'[keyTable'[j]] # "request"
    BY <2>1, <2>2, <2>3, <2>4, <2>5
  <2>11. \A d \in Calls : Keyed(d)' /\ call'[d].pc \in {"spawn", "giveup", "status", "answered"} =>
            call'[d].run \in Calls /\ Owns(call[d].key, call[d].run)'
    BY <2>1, <2>2, <2>3, <2>4, <2>5
  <2>12. \A d \in Calls : Keyed(d)' /\ crew'[d] # "none" => Owns(call[d].key, d)'
    BY <2>1, <2>2, <2>3, <2>4, <2>5
  <2> QED
    BY <2>6, <2>7, <2>8, <2>9, <2>10, <2>11, <2>12
<1>5. ASSUME NEW c \in Calls, FindsNoRun(c) PROVE StartInv'
  BY <1>5 DEF FindsNoRun
<1>6. ASSUME NEW c \in Calls, WritesRequest(c) PROVE StartInv'
  BY <1>6 DEF WritesRequest
<1>7. ASSUME NEW c \in Calls, WritesState(c) PROVE StartInv'
  <2>1. \A k \in Keys : keyTable[k] # c
    BY <1>7 DEF WritesState
  <2>2. /\ call'[c].pc = IF Keyed(c) THEN "key" ELSE "spawn"
        /\ call'[c].key = call[c].key
        /\ call'[c].run = c
        /\ \A d \in Calls \ {c} : call'[d] = call[d]
        /\ call' \in [Calls -> CallRecords]
    BY <1>7 DEF WritesState
  <2>3. /\ files'[c] = "queued"
        /\ \A d \in Calls \ {c} : files'[d] = files[d]
        /\ files' \in [Calls -> RunFiles]
        /\ UNCHANGED <<keyTable, keyLock, crew, doomed>>
        /\ crew[c] = "none"
        /\ call[c].pc = "state"
    BY <1>7 DEF WritesState
  <2>4. \A k \in Keys, d \in Calls : Owns(k, d) => Owns(k, d)'
    BY <2>1, <2>2, <2>3
  <2>5. StartTypeOK'
    BY <2>1, <2>2, <2>3
  <2>6. /\ \A d \in Calls : keyLock' = d <=> Keyed(d)' /\ call'[d].pc \in LockedPCs
        /\ \A d \in Calls : call'[d].pc \in {"lock", "lookup", "key"} => Keyed(d)'
    BY <2>1, <2>2, <2>3
  <2>7. \A d \in Calls : Keyed(d)' /\ call'[d].pc \in {"request", "state", "key"} =>
            keyTable'[call'[d].key] \notin Readable'
    BY <2>1, <2>2, <2>3
  <2>8. /\ \A d \in Calls : call'[d].pc \in EarlyPCs \cup {"spawn", "giveup"} => crew'[d] = "none"
        /\ \A d \in Calls : call'[d].pc \in {"key", "spawn"} => call'[d].run = d
        /\ \A d \in Calls : call'[d].pc = "key" => files'[d] # "request"
        /\ \A d \in Calls : crew'[d] = "working" => files'[d] \in {"running", "settled"}
    BY <2>1, <2>2, <2>3
  <2>9. \A j \in Keys : keyTable'[j] # NoRun =>
            Owns(j, keyTable[j])' /\ files'[keyTable'[j]] # "request"
    BY <2>1, <2>2, <2>3, <2>4
  <2>10. \A d \in Calls : Keyed(d)' /\ call'[d].pc \in {"spawn", "giveup", "status", "answered"} =>
            call'[d].run \in Calls /\ Owns(call[d].key, call[d].run)'
    BY <2>1, <2>2, <2>3, <2>4
  <2>11. \A d \in Calls : Keyed(d)' /\ crew'[d] # "none" => Owns(call[d].key, d)'
    BY <2>1, <2>2, <2>3, <2>4
  <2> QED
    BY <2>5, <2>6, <2>7, <2>8, <2>9, <2>10, <2>11
<1>8. ASSUME NEW c \in Calls, WritesKey(c) PROVE StartInv'
  <2> DEFINE kc == call[c].key
  <2>1. /\ kc \in Keys
        /\ keyLock = c
        /\ keyTable[kc] \notin Readable
        /\ crew[c] = "none"
        /\ call[c].run = c
    BY <1>8 DEF WritesKey
  <2>2. /\ call'[c].pc = "spawn" /\ call'[c].key = call[c].key /\ call'[c].run = c
        /\ \A d \in Calls \ {c} : call'[d] = call[d]
        /\ call' \in [Calls -> CallRecords]
        /\ call[c].pc = "key" /\ files[c] # "request"
    BY <1>8 DEF WritesKey
  <2>3. /\ keyTable'[kc] = c
        /\ \A j \in Keys \ {kc} : keyTable'[j] = keyTable[j]
        /\ keyTable' \in [Keys -> Calls \cup {NoRun}]
        /\ keyLock' = NoRun
        /\ UNCHANGED <<files, crew, doomed>>
    BY <1>8, <2>1 DEF WritesKey
  <2> HIDE DEF kc
  \* A run that loses the key was deleted.
  <2>4. \A d \in Calls : Owns(kc, d) => files[d] = "none"
    BY <2>1
  <2>5. \A j \in Keys, d \in Calls : Owns(j, d) => Owns(j, d)'
    BY <2>1, <2>2, <2>3, <2>4
  <2>6. \A j \in Keys : j = kc => Owns(j, c)'
    BY <2>1, <2>2, <2>3 DEF kc
  <2>7. StartTypeOK'
    BY <2>1, <2>2, <2>3
  <2>8. /\ \A d \in Calls : keyLock' = d <=> Keyed(d)' /\ call'[d].pc \in LockedPCs
        /\ \A d \in Calls : call'[d].pc \in {"lock", "lookup", "key"} => Keyed(d)'
    BY <2>1, <2>2, <2>3
  <2>9. \A d \in Calls : Keyed(d)' /\ call'[d].pc \in {"request", "state", "key"} =>
            keyTable'[call'[d].key] \notin Readable'
    BY <2>1, <2>2, <2>3
  <2>10. /\ \A d \in Calls : call'[d].pc \in EarlyPCs \cup {"spawn", "giveup"} => crew'[d] = "none"
         /\ \A d \in Calls : call'[d].pc \in {"key", "spawn"} => call'[d].run = d
         /\ \A d \in Calls : call'[d].pc = "key" => files'[d] # "request"
         /\ \A d \in Calls : crew'[d] = "working" => files'[d] \in {"running", "settled"}
    BY <2>1, <2>2, <2>3
  <2>11. \A j \in Keys : keyTable'[j] # NoRun =>
            Owns(j, keyTable[j])' /\ files'[keyTable'[j]] # "request"
    <3> TAKE j \in Keys
    <3>1. CASE j = kc
      BY <2>1, <2>2, <2>3, <2>6, <3>1
    <3>2. CASE j # kc
      <4>1. keyTable'[j] = keyTable[j]
        BY <2>3, <3>2
      <4>2. keyTable[j] # NoRun => keyTable[j] \in Calls /\ Owns(j, keyTable[j]) /\ files[keyTable[j]] # "request"
        OBVIOUS
      <4>3. keyTable[j] \in Calls /\ Owns(j, keyTable[j]) => Owns(j, keyTable[j])'
        BY <2>5, <4>1
      <4>4. QED
        BY <2>3, <4>1, <4>2, <4>3
    <3>3. QED
      BY <3>1, <3>2
  <2>12. \A d \in Calls : Keyed(d)' /\ call'[d].pc \in {"spawn", "giveup", "status", "answered"} =>
            call'[d].run \in Calls /\ Owns(call[d].key, call[d].run)'
    BY <2>1, <2>2, <2>3, <2>5, <2>6
  <2>13. \A d \in Calls : Keyed(d)' /\ crew'[d] # "none" => Owns(call[d].key, d)'
    BY <2>1, <2>2, <2>3, <2>5, <2>6
  <2> QED
    BY <2>7, <2>8, <2>9, <2>10, <2>11, <2>12, <2>13
<1>9. ASSUME NEW c \in Calls, WriteFails(c) PROVE StartInv'
  BY <1>9 DEF WriteFails
<1>10. ASSUME NEW c \in Calls, SpawnsWorker(c) PROVE StartInv'
  BY <1>10 DEF SpawnsWorker
<1>11. ASSUME NEW c \in Calls, SpawnFails(c) PROVE StartInv'
  BY <1>11 DEF SpawnFails
<1>12. ASSUME NEW c \in Calls, GivesUpRun(c) PROVE StartInv'
  BY <1>12 DEF GivesUpRun
<1>13. ASSUME NEW c \in Calls, AnswersStart(c) PROVE StartInv'
  BY <1>13 DEF AnswersStart
<1>14. ASSUME NEW c \in Calls, CallDies(c) PROVE StartInv'
  BY <1>14 DEF CallDies
<1>15. ASSUME NEW r \in Calls, WorkerClaims(r) PROVE StartInv'
  BY <1>15 DEF WorkerClaims
<1>16. ASSUME NEW r \in Calls, WorkerEnds(r) PROVE StartInv'
  BY <1>16 DEF WorkerEnds
<1>17. ASSUME NEW r \in Calls, PollSettles(r) PROVE StartInv'
  BY <1>17 DEF PollSettles, Unsettled
<1>18. ASSUME NEW r \in Calls, DirectoryDeleted(r) PROVE StartInv'
  BY <1>18 DEF DirectoryDeleted
<1>19. ASSUME NEW r \in Calls, PollFindsNoWorker(r) PROVE StartInv'
  BY <1>19 DEF PollFindsNoWorker
<1>20. ASSUME NEW r \in Calls, PollFails(r) PROVE StartInv'
  BY <1>20 DEF PollFails, Unsettled
<1>21. CASE UNCHANGED startVars
  BY <1>21 DEF startVars
<1>22. QED
  BY <1>1, <1>2, <1>3, <1>4, <1>5, <1>6, <1>7, <1>8, <1>9, <1>10, <1>11, <1>12, <1>13, <1>14,
     <1>15, <1>16, <1>17, <1>18, <1>21, <1>19, <1>20 DEF StartNext, CallStep
\* StartInv holds in every state.
THEOREM StartInvariance == StartSpec => []StartInv
<1>1. StartInit => StartInv
  BY StartAssumption DEF StartInit, StartInv, StartTypeOK, Owns, Keyed, EarlyPCs, LockedPCs,
     CallPCs, CallRecords, RunFiles, Readable
<1>2. QED
  BY <1>1, StartStep, PTL DEF StartSpec

\* Callers that were answered with the same key have the same run, unless one
\* of the two runs was deleted.
THEOREM CallersAgree == StartSpec => []AnswersAgree
<1>1. StartInv => AnswersAgree
  BY StartAssumption DEF StartInv, AnswersAgree, Answered, Owns, Keyed, StartTypeOK, CallRecords
<1>2. QED
  BY <1>1, StartInvariance, PTL

\* A key never has two workers at work.
THEOREM KeysHaveOneWorker == StartSpec => []OneWorkerPerKey
<1>1. StartInv => OneWorkerPerKey
  BY StartAssumption DEF StartInv, OneWorkerPerKey, Owns, Keyed, StartTypeOK, CallRecords
<1>2. QED
  BY <1>1, StartInvariance, PTL
=============================================================================
