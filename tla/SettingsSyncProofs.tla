-------------------------- MODULE SettingsSyncProofs --------------------------
(***************************************************************************)
(* Settings synchronisation, for any number of files and of calls.         *)
(***************************************************************************)
EXTENDS SettingsSync, TLAPS

USE SettingsAssumption

\* A call gets the record it becomes, the others keep theirs.
LEMMA OneCallMoves ==
    ASSUME SyncTypeOK, NEW s \in Syncs, NEW r \in SyncRecords, SyncBecomes(s, r)
    PROVE  /\ sync' \in [Syncs -> SyncRecords]
           /\ sync'[s] = r
           /\ \A t \in Syncs \ {s} : sync'[t] = sync[t]
BY DEF SyncTypeOK, SyncBecomes

\* The records that the helpers build are records of calls.
LEMMA RecordsOfCalls ==
    ASSUME SyncTypeOK, NEW s \in Syncs
    PROVE  /\ \A pc \in SyncPCs : [sync[s] EXCEPT !.pc = pc] \in SyncRecords
           /\ \A pc \in SyncPCs : [IdleSync EXCEPT !.pc = pc, !.disturbed = sync[s].disturbed] \in SyncRecords
           /\ \A missed \in BOOLEAN :
                 [sync[s] EXCEPT !.pc = "copy", !.file = NoSync, !.content = NoFile,
                                 !.disturbed = @ \/ missed] \in SyncRecords
           /\ \A p \in SkillsPlaces, missed \in BOOLEAN :
                 [sync[s] EXCEPT !.pc = AfterPlace(p), !.disturbed = @ \/ missed,
                                 !.todo = IF p = "skills" THEN @ ELSE Settings,
                                 !.wanted = IF p = "skills" THEN @ ELSE "none"] \in SyncRecords
<1>1. sync[s] \in SyncRecords
  BY DEF SyncTypeOK
<1>0. NoFile \in Originals
  BY DEF NoFile, Originals
<1> USE <1>0, <1>1 DEF SyncRecords, SyncPCs, LockingPCs
<1>2. \A pc \in SyncPCs : [sync[s] EXCEPT !.pc = pc] \in SyncRecords
  OBVIOUS
<1>3. \A pc \in SyncPCs : [IdleSync EXCEPT !.pc = pc, !.disturbed = sync[s].disturbed] \in SyncRecords
  BY DEF IdleSync
<1>4. \A missed \in BOOLEAN :
         [sync[s] EXCEPT !.pc = "copy", !.file = NoSync, !.content = NoFile,
                         !.disturbed = @ \/ missed] \in SyncRecords
  OBVIOUS
<1>5. ASSUME NEW p \in SkillsPlaces, NEW missed \in BOOLEAN
      PROVE  [sync[s] EXCEPT !.pc = AfterPlace(p), !.disturbed = @ \/ missed,
                             !.todo = IF p = "skills" THEN @ ELSE Settings,
                             !.wanted = IF p = "skills" THEN @ ELSE "none"] \in SyncRecords
  <2>1. CASE p = "skills"
    BY <2>1 DEF AfterPlace
  <2>2. CASE p # "skills"
    BY <2>2 DEF AfterPlace
  <2> QED
    BY <2>1, <2>2
<1> QED
  BY <1>2, <1>3, <1>4, <1>5
\* The user and Agy disturb every call, and change nothing else of it.
LEMMA DisturbedCalls ==
    ASSUME SyncTypeOK, sync' = Disturbed
    PROVE  /\ sync' \in [Syncs -> SyncRecords]
           /\ \A s \in Syncs : sync'[s] = [sync[s] EXCEPT !.disturbed = TRUE]
           /\ \A s \in Syncs : sync'[s].disturbed
BY DEF SyncTypeOK, Disturbed, SyncRecords

\* What a call wants is where skills are, if any.
LEMMA WantedTypes == Wanted \in {"none", "top", "config"}
BY DEF Wanted

\* The actions of a call leave every variable in its domain.
LEMMA CallTypes ==
    ASSUME SyncInv, NEW s \in Syncs, StartsSync(s) \/ SyncStep(s) \/ SyncKilled(s)
    PROVE  SyncTypeOK'
<1> USE DEF SyncInv
<1>1. sync[s] \in SyncRecords
  BY DEF SyncTypeOK
<1>2. ASSUME NEW pc \in SyncPCs, SyncStops(s, pc),
             UNCHANGED <<gemini, original, skillsAt, edits, copy, skillsLink>>
      PROVE  SyncTypeOK'
  BY <1>2, OneCallMoves, RecordsOfCalls DEF SyncStops, SyncTypeOK
<1>3. ASSUME NEW missed \in BOOLEAN, NextFile(s, missed)
      PROVE  sync' \in [Syncs -> SyncRecords]
  BY <1>3, OneCallMoves, RecordsOfCalls DEF NextFile
<1>4. ASSUME NEW missed \in BOOLEAN, NEW p \in SkillsPlaces, NextPlace(s, p, missed)
      PROVE  sync' \in [Syncs -> SyncRecords]
  BY <1>4, OneCallMoves, RecordsOfCalls DEF NextPlace
<1>5. ASSUME NEW pc \in SyncPCs, SyncGoes(s, pc)
      PROVE  sync' \in [Syncs -> SyncRecords]
  BY <1>5, OneCallMoves, RecordsOfCalls DEF SyncGoes
<1> USE DEF SyncPCs, LockingPCs
<1>6. CASE StartsSync(s)
  BY <1>6, <1>5 DEF StartsSync, SyncTypeOK
<1>7. CASE LocksSync(s)
  <2>1. [sync[s] EXCEPT !.pc = "skills", !.wanted = Wanted, !.disturbed = FALSE] \in SyncRecords
    BY <1>1, WantedTypes DEF SyncRecords
  <2> QED
    BY <1>7, <2>1, OneCallMoves DEF LocksSync, SyncTypeOK
<1>8. ASSUME NEW p \in SkillsPlaces, ClearsPlace(s, p) PROVE SyncTypeOK'
  BY <1>8, <1>4, <1>5 DEF ClearsPlace, SyncTypeOK, MakingAt
<1>9. ASSUME NEW p \in SkillsPlaces, MakesLink(s, p) PROVE SyncTypeOK'
  <2>1. sync[s].wanted \in Links \cup {"none"}
    BY <1>1 DEF SyncRecords, Links
  <2> QED
    BY <1>9, <1>4, <2>1 DEF MakesLink, SyncTypeOK
<1>10. ASSUME NEW p \in SkillsPlaces, LinkFails(s, p) PROVE SyncTypeOK'
  BY <1>10, <1>4 DEF LinkFails, SyncTypeOK
<1>11. ASSUME NEW f \in Settings, TakesFile(s, f) PROVE SyncTypeOK'
  <2>1. [sync[s] EXCEPT !.todo = @ \ {f}, !.pc = IF Listed(f) THEN "read" ELSE "copy",
                        !.file = IF Listed(f) THEN f ELSE NoSync] \in SyncRecords
    BY <1>1 DEF SyncRecords
  <2> QED
    BY <1>11, <2>1, OneCallMoves DEF TakesFile, SyncTypeOK
<1>12. CASE ReadsOriginal(s)
  <2>1. original[sync[s].file] \in Originals
    BY <1>12 DEF ReadsOriginal, InHand, SyncTypeOK
  <2>2. [sync[s] EXCEPT !.pc = "write", !.content = original[sync[s].file]] \in SyncRecords
    BY <1>1, <2>1 DEF SyncRecords
  <2>3. sync' \in [Syncs -> SyncRecords]
    BY <1>12, <1>3, <2>2, OneCallMoves DEF ReadsOriginal
  <2> QED
    BY <1>12, <2>3 DEF ReadsOriginal, SyncTypeOK
<1>13. CASE WritesCopy(s)
  BY <1>13, <1>5 DEF WritesCopy, SyncTypeOK
<1>14. CASE RenamesCopy(s)
  <2>1. sync[s].content \in [is : {"none", "file", "own", "link"}, edit : 0 .. MaxEdits]
    BY <1>1, <1>14 DEF RenamesCopy, InHand, SyncRecords, Originals
  <2> QED
    BY <1>14, <1>3, <2>1 DEF RenamesCopy, SyncTypeOK
<1>15. CASE CopyFails(s)
  BY <1>15, <1>3 DEF CopyFails, SyncTypeOK
<1>16. CASE RaisesSync(s)
  BY <1>16, <1>2 DEF RaisesSync
<1>17. CASE EndsSync(s)
  BY <1>17, <1>2 DEF EndsSync
<1>18. CASE SyncKilled(s)
  BY <1>18, <1>2 DEF SyncKilled
<1> QED
  BY <1>6, <1>7, <1>8, <1>9, <1>10, <1>11, <1>12, <1>13, <1>14, <1>15, <1>16, <1>17, <1>18
     DEF SyncStep

\* So do the user and Agy.
LEMMA OutsideTypes ==
    ASSUME SyncTypeOK, UserMovesSkills \/ UserReplacesGemini \/ \E f \in Settings : UserEdits(f) \/ AgySaves(f)
    PROVE  SyncTypeOK'
<1>1. sync' = Disturbed /\ edits' \in 0 .. MaxEdits
  BY DEF UserMovesSkills, UserReplacesGemini, UserEdits, AgySaves, SyncTypeOK
<1>2. sync' \in [Syncs -> SyncRecords]
  BY <1>1, DisturbedCalls
<1> USE <1>1, <1>2 DEF SyncTypeOK
<1>3. CASE UserMovesSkills
  BY <1>3 DEF UserMovesSkills
<1>4. ASSUME NEW f \in Settings, UserEdits(f) PROVE SyncTypeOK'
  BY <1>4 DEF UserEdits, Originals
<1>5. ASSUME NEW f \in Settings, AgySaves(f) PROVE SyncTypeOK'
  BY <1>5 DEF AgySaves
<1>6. CASE UserReplacesGemini
  BY <1>6 DEF UserReplacesGemini, Originals
<1> QED
  BY <1>3, <1>4, <1>5, <1>6

\* A step takes one call to a program counter and leaves the others where they are.
Lands(s, pcs) == sync'[s].pc \in pcs /\ \A t \in Syncs \ {s} : sync'[t] = sync[t]

\* What the helpers make of a call, field by field.
LEMMA Fields ==
    ASSUME SyncInv, NEW s \in Syncs
    PROVE  /\ \A pc : SyncGoes(s, pc) =>
                 /\ Lands(s, {pc})
                 /\ sync'[s].wanted = sync[s].wanted /\ sync'[s].todo = sync[s].todo
                 /\ sync'[s].file = sync[s].file /\ sync'[s].content = sync[s].content
                 /\ sync'[s].disturbed = sync[s].disturbed
           /\ \A pc : SyncStops(s, pc) =>
                 Lands(s, {pc}) /\ sync'[s].disturbed = sync[s].disturbed
           /\ \A missed \in BOOLEAN : NextFile(s, missed) =>
                 /\ Lands(s, {"copy"})
                 /\ sync'[s].todo = sync[s].todo
                 /\ sync'[s].disturbed = (sync[s].disturbed \/ missed)
           /\ \A p \in SkillsPlaces, missed \in BOOLEAN : NextPlace(s, p, missed) =>
                 /\ Lands(s, {AfterPlace(p)})
                 /\ p = "skills" => sync'[s].wanted = sync[s].wanted
                 /\ p # "skills" => sync'[s].todo = Settings
                 /\ sync'[s].disturbed = (sync[s].disturbed \/ missed)
<1>1. sync \in [Syncs -> SyncRecords] /\ sync[s] \in SyncRecords
  BY DEF SyncInv, SyncTypeOK
<1> USE <1>1 DEF SyncBecomes, SyncRecords, Lands
<1>2. ASSUME NEW pc, SyncGoes(s, pc)
      PROVE  /\ Lands(s, {pc})
             /\ sync'[s].wanted = sync[s].wanted /\ sync'[s].todo = sync[s].todo
             /\ sync'[s].file = sync[s].file /\ sync'[s].content = sync[s].content
             /\ sync'[s].disturbed = sync[s].disturbed
  BY <1>2 DEF SyncGoes
<1>3. ASSUME NEW pc, SyncStops(s, pc)
      PROVE  Lands(s, {pc}) /\ sync'[s].disturbed = sync[s].disturbed
  BY <1>3 DEF SyncStops, IdleSync
<1>4. ASSUME NEW missed \in BOOLEAN, NextFile(s, missed)
      PROVE  /\ Lands(s, {"copy"})
             /\ sync'[s].todo = sync[s].todo
             /\ sync'[s].disturbed = (sync[s].disturbed \/ missed)
  BY <1>4 DEF NextFile
<1>5. ASSUME NEW p \in SkillsPlaces, NEW missed \in BOOLEAN, NextPlace(s, p, missed)
      PROVE  /\ Lands(s, {AfterPlace(p)})
             /\ p = "skills" => sync'[s].wanted = sync[s].wanted
             /\ p # "skills" => sync'[s].todo = Settings
             /\ sync'[s].disturbed = (sync[s].disturbed \/ missed)
  BY <1>5 DEF NextPlace
<1> HIDE DEF Lands
<1> QED
  BY <1>2, <1>3, <1>4, <1>5

\* Where the actions of a call take it.
LEMMA CallLands ==
    ASSUME SyncInv, NEW s \in Syncs
    PROVE  /\ StartsSync(s) => Lands(s, {"lock", "skipped", "raised"})
           /\ LocksSync(s) => Lands(s, {"skills"})
           /\ \A p \in SkillsPlaces :
                 /\ ClearsPlace(s, p) => Lands(s, {AfterPlace(p), MakingAt[p]})
                 /\ MakesLink(s, p) \/ LinkFails(s, p) => Lands(s, {AfterPlace(p)})
           /\ \A f \in Settings : TakesFile(s, f) => Lands(s, IF Listed(f) THEN {"read"} ELSE {"copy"})
           /\ ReadsOriginal(s) =>
                 Lands(s, IF original[sync[s].file].is = "file" THEN {"write"} ELSE {"copy"})
           /\ WritesCopy(s) => Lands(s, {"rename"})
           /\ RenamesCopy(s) \/ CopyFails(s) => Lands(s, {"copy"})
           /\ RaisesSync(s) => Lands(s, {"raised"})
           /\ EndsSync(s) => Lands(s, {"done"})
           /\ SyncKilled(s) => Lands(s, {"killed"})
<1>1. sync \in [Syncs -> SyncRecords] /\ sync[s] \in SyncRecords
  BY DEF SyncInv, SyncTypeOK
<1> USE <1>1 DEF SyncBecomes, SyncRecords, Lands
<1>2. StartsSync(s) => Lands(s, {"lock", "skipped", "raised"})
  BY Fields DEF StartsSync
<1>3. LocksSync(s) => Lands(s, {"skills"})
  BY DEF LocksSync
<1>4. ASSUME NEW p \in SkillsPlaces
      PROVE  /\ ClearsPlace(s, p) => Lands(s, {AfterPlace(p), MakingAt[p]})
             /\ MakesLink(s, p) \/ LinkFails(s, p) => Lands(s, {AfterPlace(p)})
  BY Fields DEF ClearsPlace, MakesLink, LinkFails
<1>5. ASSUME NEW f \in Settings, TakesFile(s, f)
      PROVE  Lands(s, IF Listed(f) THEN {"read"} ELSE {"copy"})
  BY <1>5 DEF TakesFile
<1>6. ReadsOriginal(s) =>
         Lands(s, IF original[sync[s].file].is = "file" THEN {"write"} ELSE {"copy"})
  <2>1. CASE original[sync[s].file].is = "file"
    BY <2>1 DEF ReadsOriginal
  <2>2. CASE original[sync[s].file].is # "file"
    BY <2>2, Fields DEF ReadsOriginal
  <2> QED
    BY <2>1, <2>2
<1>7. WritesCopy(s) => Lands(s, {"rename"})
  BY Fields DEF WritesCopy
<1>8. RenamesCopy(s) \/ CopyFails(s) => Lands(s, {"copy"})
  BY Fields DEF RenamesCopy, CopyFails
<1>9. /\ RaisesSync(s) => Lands(s, {"raised"})
      /\ EndsSync(s) => Lands(s, {"done"})
      /\ SyncKilled(s) => Lands(s, {"killed"})
  BY Fields DEF RaisesSync, EndsSync, SyncKilled
<1> QED
  BY ONLY <1>2, <1>3, <1>4, <1>5, <1>6, <1>7, <1>8, <1>9

\* Only the holder of the lock changes the profile; a call takes the lock when it is
\* free, keeps it until it ends, and gives it back however it ends.
LEMMA CallShape ==
    ASSUME SyncInv, NEW s \in Syncs, StartsSync(s) \/ SyncStep(s) \/ SyncKilled(s)
    PROVE  /\ UNCHANGED <<gemini, original, skillsAt, edits>>
           /\ \A t \in Syncs \ {s} : sync'[t] = sync[t]
           /\ \/ /\ sync[s].pc \in {"idle", "lock"} /\ sync'[s].pc \in {"lock", "skipped", "raised", "killed"}
                 /\ UNCHANGED <<copy, skillsLink, syncLock>>
              \/ /\ sync[s].pc = "lock" /\ sync'[s].pc = "skills"
                 /\ syncLock = NoSync /\ syncLock' = s
                 /\ UNCHANGED <<copy, skillsLink>>
              \/ /\ sync[s].pc \in LockingPCs /\ syncLock = s
                 /\ \/ sync'[s].pc \in LockingPCs /\ syncLock' = s
                    \/ /\ sync'[s].pc \in {"done", "raised", "killed"} /\ syncLock' = NoSync
                       /\ UNCHANGED <<copy, skillsLink>>
<1>1. sync[s].pc \in LockingPCs <=> syncLock = s
  BY DEF SyncInv, LockHeld
<1>2. sync[s].pc \in SyncPCs
  BY DEF SyncInv, SyncTypeOK, SyncRecords
<1>3. \A p \in SkillsPlaces : {p, AfterPlace(p), MakingAt[p]} \subseteq LockingPCs
  BY DEF SkillsPlaces, AfterPlace, MakingAt, LockingPCs
<1> USE <1>1, CallLands DEF SyncPCs, LockingPCs, Lands
<1>4. CASE StartsSync(s) \/ LocksSync(s)
  BY <1>4 DEF StartsSync, LocksSync
<1>5. ASSUME NEW p \in SkillsPlaces, ClearsPlace(s, p) \/ MakesLink(s, p) \/ LinkFails(s, p)
      PROVE  /\ sync[s].pc \in {p, MakingAt[p]} /\ sync'[s].pc \in {AfterPlace(p), MakingAt[p]}
             /\ UNCHANGED <<gemini, original, skillsAt, edits, syncLock>>
             /\ \A t \in Syncs \ {s} : sync'[t] = sync[t]
  BY <1>5 DEF ClearsPlace, MakesLink, LinkFails
<1>6. CASE \E f \in Settings : TakesFile(s, f)
  BY <1>6 DEF TakesFile
<1>7. CASE ReadsOriginal(s) \/ WritesCopy(s)
  BY <1>7 DEF ReadsOriginal, WritesCopy
<1>8. CASE RenamesCopy(s) \/ CopyFails(s)
  BY <1>8 DEF RenamesCopy, CopyFails
<1>9. CASE RaisesSync(s) \/ EndsSync(s)
  BY <1>9 DEF RaisesSync, EndsSync, SyncStops
<1>10. CASE SyncKilled(s)
  BY <1>2, <1>10 DEF SyncKilled, SyncStops
<1> QED
  BY <1>3, <1>4, <1>5, <1>6, <1>7, <1>8, <1>9, <1>10 DEF SyncStep

\* The holder of the lock is the call that is at work.
LEMMA LockStep ==
    ASSUME SyncInv, NEW s \in Syncs, StartsSync(s) \/ SyncStep(s) \/ SyncKilled(s)
    PROVE  LockHeld'
<1>1. \A t \in Syncs : sync[t].pc \in LockingPCs <=> syncLock = t
  BY DEF SyncInv, LockHeld
<1> QED
  BY <1>1, CallShape DEF LockHeld, LockingPCs

\* Only the last step of a copy changes what the profile holds of a file.
LEMMA CopiesChange ==
    ASSUME NEW s \in Syncs, StartsSync(s) \/ SyncStep(s) \/ SyncKilled(s)
    PROVE  RenamesCopy(s) \/ UNCHANGED copy
BY DEF StartsSync, SyncStep, SyncKilled, LocksSync, ReadsOriginal, WritesCopy, CopyFails, RaisesSync,
       EndsSync, ClearsPlace, MakesLink, LinkFails, TakesFile

\* Copies of files that are not denied come from the user, and go forward only.
LEMMA CopiesStep ==
    ASSUME SyncInv, SyncTypeOK', NEW s \in Syncs, StartsSync(s) \/ SyncStep(s) \/ SyncKilled(s)
    PROVE  /\ CopiesFollow'
           /\ \A f \in Settings :
                 copy[f].is = "file" /\ copy'[f].is = "file" => copy[f].edit <= copy'[f].edit
<1>1. UNCHANGED <<original, edits>>
  BY CallShape
<1> USE DEF SyncInv, SyncTypeOK, CopiesFollow, Originals
<1>2. CASE RenamesCopy(s)
  <2>1. InHand(s) /\ sync[s].pc = "rename"
    BY <1>2 DEF RenamesCopy
  <2>2. /\ sync[s].file \in Settings \ Denied
        /\ copy' = [copy EXCEPT ![sync[s].file] = sync[s].content]
    BY <1>2, <2>1 DEF RenamesCopy, InHand
  <2>3. /\ sync[s].content.edit <= original[sync[s].file].edit
        /\ copy[sync[s].file].is = "file" => copy[sync[s].file].edit <= sync[s].content.edit
    BY <2>1 DEF InHand
  <2>4. ASSUME NEW f \in Settings
        PROVE  copy'[f] = IF f = sync[s].file THEN sync[s].content ELSE copy[f]
    BY <2>2
  <2> QED
    BY <1>1, <2>2, <2>3, <2>4
<1>3. CASE UNCHANGED copy
  BY <1>1, <1>3
<1> QED
  BY <1>2, <1>3, CopiesChange

\* The actions of a call see to what it has in hand.
LEMMA HandStep ==
    ASSUME SyncInv, SyncTypeOK', NEW s \in Syncs, StartsSync(s) \/ SyncStep(s) \/ SyncKilled(s)
    PROVE  InHand(s)'
<1>1. UNCHANGED original
  BY CallShape
<1>2. sync \in [Syncs -> SyncRecords] /\ sync[s] \in SyncRecords
  BY DEF SyncInv, SyncTypeOK
<1>3. CASE sync'[s].pc \notin {"read", "write", "rename"}
  BY <1>3 DEF InHand
<1>4. CASE sync'[s].pc = "read"
  <2>1. PICK f \in Settings : TakesFile(s, f)
    BY <1>4, CallLands DEF SyncStep, Lands, SkillsPlaces, AfterPlace, MakingAt
  <2>2. Listed(f) /\ sync'[s].file = f
    BY <1>2, <1>4, <2>1 DEF TakesFile, SyncBecomes, SyncRecords
  <2> QED
    BY <1>4, <2>2 DEF InHand, Listed
<1>5. CASE sync'[s].pc = "write"
  <2>1. ReadsOriginal(s) /\ original[sync[s].file].is = "file"
    BY <1>5, CallLands DEF SyncStep, Lands, SkillsPlaces, AfterPlace, MakingAt
  <2>2. UNCHANGED copy /\ sync'[s].file = sync[s].file /\ sync'[s].content = original[sync[s].file]
    BY <1>2, <2>1 DEF ReadsOriginal, SyncBecomes, SyncRecords
  <2>3. sync[s].file \in Settings \ Denied
    BY <2>1 DEF ReadsOriginal, InHand, SyncInv
  <2> QED
    BY <1>1, <1>5, <2>1, <2>2, <2>3 DEF InHand, SyncInv, CopiesFollow, SyncTypeOK, Originals
<1>6. CASE sync'[s].pc = "rename"
  <2>1. WritesCopy(s)
    BY <1>6, CallLands DEF SyncStep, Lands, SkillsPlaces, AfterPlace, MakingAt
  <2>2. UNCHANGED copy /\ sync'[s].file = sync[s].file /\ sync'[s].content = sync[s].content
    BY <1>2, <2>1 DEF WritesCopy, SyncGoes, SyncBecomes, SyncRecords
  <2> QED
    BY <1>1, <1>6, <2>1, <2>2 DEF InHand, SyncInv, WritesCopy
<1> QED
  BY <1>3, <1>4, <1>5, <1>6

\* A call that is about to make a link has found, or made, the place empty.
LEMMA MakingStep ==
    ASSUME SyncInv, SyncTypeOK', NEW s \in Syncs, StartsSync(s) \/ SyncStep(s) \/ SyncKilled(s)
    PROVE  Making(s)'
<1>1. CASE sync'[s].pc \notin {"makeSkills", "makeConfig"}
  BY <1>1 DEF Making
<1>2. CASE sync'[s].pc \in {"makeSkills", "makeConfig"}
  <2>1. PICK p \in SkillsPlaces : ClearsPlace(s, p) /\ sync'[s].pc = MakingAt[p]
    BY <1>2, CallLands DEF SyncStep, Lands, SkillsPlaces, AfterPlace, MakingAt
  <2>2. sync \in [Syncs -> SyncRecords] /\ sync[s] \in SyncRecords
    BY DEF SyncInv, SyncTypeOK
  <2>3. AfterPlace(p) # MakingAt[p]
    BY DEF SkillsPlaces, AfterPlace, MakingAt
  <2>4. SyncGoes(s, MakingAt[p]) /\ skillsLink'[p] = "none" /\ sync[s].wanted # "none"
    BY <2>1, <2>2, <2>3, Fields DEF ClearsPlace, Lands
  <2>5. sync'[s].wanted = sync[s].wanted
    BY <2>4, Fields
  <2> QED
    BY <2>1, <2>4, <2>5 DEF Making, SkillsPlaces, MakingAt
<1> QED
  BY <1>1, <1>2

\* What a call has read stays current while nobody changes the originals.
LEMMA CurrentStep ==
    ASSUME SyncInv, NEW s \in Syncs, StartsSync(s) \/ SyncStep(s) \/ SyncKilled(s), ReadsCurrent(s)
    PROVE  ReadsCurrent(s)'
<1>1. UNCHANGED original /\ Wanted' = Wanted
  BY CallShape DEF Wanted
<1>2. sync \in [Syncs -> SyncRecords] /\ sync[s] \in SyncRecords
  BY DEF SyncInv, SyncTypeOK
<1>3. CASE LocksSync(s)
  <2>1. sync'[s].pc = "skills" /\ sync'[s].wanted = Wanted
    BY <1>2, <1>3 DEF LocksSync, SyncBecomes, SyncRecords
  <2> QED
    BY <1>1, <2>1 DEF ReadsCurrent
<1>4. ASSUME NEW p \in SkillsPlaces, ClearsPlace(s, p) \/ MakesLink(s, p) \/ LinkFails(s, p)
      PROVE  ReadsCurrent(s)'
  <2>1. Lands(s, {AfterPlace(p), MakingAt[p]})
    BY <1>4, CallLands DEF Lands
  <2>2. sync'[s].pc \in {"config/skills", "makeSkills", "makeConfig", "copy"}
    BY <2>1 DEF Lands, SkillsPlaces, AfterPlace, MakingAt
  <2>3. sync'[s].pc # "copy" => sync'[s].wanted = sync[s].wanted
    BY <1>4, Fields DEF ClearsPlace, MakesLink, LinkFails, Lands, AfterPlace, SkillsPlaces
  <2>4. sync[s].pc \in {"skills", "makeSkills", "config/skills", "makeConfig"}
    BY <1>4 DEF ClearsPlace, MakesLink, LinkFails, SkillsPlaces, MakingAt
  <2> QED
    BY <1>1, <2>2, <2>3, <2>4 DEF ReadsCurrent
<1>5. CASE ReadsOriginal(s)
  <2>1. /\ sync'[s].pc \in {"write", "copy"}
        /\ sync'[s].pc = "write" =>
              sync'[s].file = sync[s].file /\ sync'[s].content = original[sync[s].file]
    <3>1. CASE original[sync[s].file].is = "file"
      BY <1>2, <1>5, <3>1 DEF ReadsOriginal, SyncBecomes, SyncRecords
    <3>2. CASE original[sync[s].file].is # "file"
      BY <1>5, <3>2, Fields DEF ReadsOriginal, Lands
    <3> QED
      BY <3>1, <3>2
  <2> QED
    BY <1>1, <2>1 DEF ReadsCurrent
<1>6. CASE WritesCopy(s)
  <2>1. sync'[s].pc = "rename" /\ sync'[s].file = sync[s].file /\ sync'[s].content = sync[s].content
    BY <1>2, <1>6 DEF WritesCopy, SyncGoes, SyncBecomes, SyncRecords
  <2> QED
    BY <1>1, <1>6, <2>1 DEF ReadsCurrent, WritesCopy
<1>7. CASE StartsSync(s) \/ RenamesCopy(s) \/ CopyFails(s) \/ RaisesSync(s) \/ EndsSync(s) \/ SyncKilled(s)
  <2>1. sync'[s].pc \in {"lock", "skipped", "copy", "raised", "done", "killed"}
    BY <1>7, CallLands DEF Lands
  <2> QED
    BY <2>1 DEF ReadsCurrent
<1>8. CASE \E f \in Settings : TakesFile(s, f)
  <2>1. sync'[s].pc \in {"read", "copy"}
    BY <1>8, CallLands DEF Lands
  <2> QED
    BY <2>1 DEF ReadsCurrent
<1> QED
  BY <1>3, <1>4, <1>5, <1>6, <1>7, <1>8 DEF SyncStep

\* Only LocksSync makes a call undisturbed, when it has not come anywhere yet.
LEMMA StaysUndisturbed ==
    ASSUME SyncInv, NEW s \in Syncs, StartsSync(s) \/ SyncStep(s) \/ SyncKilled(s),
           ~sync'[s].disturbed, ~LocksSync(s)
    PROVE  /\ ReadsCurrent(s) /\ Progress(s)
           /\ ~CopyFails(s)
           /\ \A p \in SkillsPlaces : ~LinkFails(s, p)
<1>1. sync \in [Syncs -> SyncRecords] /\ sync[s] \in SyncRecords
  BY DEF SyncInv, SyncTypeOK
<1>2. ~CopyFails(s) /\ \A p \in SkillsPlaces : ~LinkFails(s, p)
  BY Fields DEF CopyFails, LinkFails
<1>3. CASE StartsSync(s) \/ WritesCopy(s) \/ RaisesSync(s) \/ EndsSync(s) \/ SyncKilled(s) \/ RenamesCopy(s)
  <2>1. ~sync[s].disturbed
    BY <1>3, Fields DEF StartsSync, WritesCopy, RaisesSync, EndsSync, SyncKilled, RenamesCopy
  <2> QED
    BY <1>2, <2>1 DEF SyncInv
<1>4. CASE ReadsOriginal(s)
  <2>1. CASE original[sync[s].file].is = "file"
    BY <1>1, <1>2, <1>4, <2>1 DEF ReadsOriginal, SyncBecomes, SyncRecords, SyncInv
  <2>2. CASE original[sync[s].file].is # "file"
    BY <1>2, <1>4, <2>2, Fields DEF ReadsOriginal, SyncInv
  <2> QED
    BY <2>1, <2>2
<1>5. ASSUME NEW f \in Settings, TakesFile(s, f) PROVE ~sync[s].disturbed
  BY <1>1, <1>5 DEF TakesFile, SyncBecomes, SyncRecords
<1>6. ASSUME NEW p \in SkillsPlaces, ClearsPlace(s, p) \/ MakesLink(s, p) PROVE ~sync[s].disturbed
  BY <1>6, Fields DEF ClearsPlace, MakesLink
<1> QED
  BY <1>2, <1>3, <1>4, <1>5, <1>6 DEF SyncStep, SyncInv

\* A place that an undisturbed call is through with agrees with the user's directory.
LEMMA PlacesStep ==
    ASSUME SyncInv, NEW s \in Syncs, StartsSync(s) \/ SyncStep(s) \/ SyncKilled(s),
           ~sync'[s].disturbed, NEW p \in SkillsPlaces, PlaceDone(s, p)'
    PROVE  PlaceAgrees(p)'
<1>1. Wanted' = Wanted
  BY CallShape DEF Wanted
<1>2. skillsLink \in [SkillsPlaces -> Links \cup {"none", "dir", "file"}]
  BY DEF SyncInv, SyncTypeOK
<1>3. ~LocksSync(s)
  BY CallLands DEF Lands, PlaceDone
<1>4. ReadsCurrent(s) /\ Progress(s) /\ Making(s)
  BY <1>3, StaysUndisturbed DEF SyncInv
<1>5. ASSUME NEW q \in SkillsPlaces, ClearsPlace(s, q)
      PROVE  PlaceAgrees(p)'
  <2>1. sync[s].pc = q /\ sync[s].wanted = Wanted
    BY <1>4, <1>5 DEF ClearsPlace, ReadsCurrent, SkillsPlaces
  <2>2. CASE q = p
    <3>1. sync'[s].pc # MakingAt[p]
      BY DEF PlaceDone, MakingAt, SkillsPlaces
    <3>2. ~(skillsLink'[p] = "none" /\ sync[s].wanted # "none")
      BY <1>5, <2>2, <3>1, Fields DEF ClearsPlace, Lands
    <3>3. skillsLink'[p] = IF InTheWay(s, p) THEN "none" ELSE skillsLink[p]
      BY <1>2, <1>5, <2>2 DEF ClearsPlace
    <3>4. skillsLink[p] \in Links \cup {"none", "dir", "file"}
      BY <1>2
    <3> QED
      BY <1>1, <2>1, <3>2, <3>3, <3>4, WantedTypes DEF PlaceAgrees, InTheWay, Links
  <2>3. CASE q # p
    <3>1. skillsLink'[p] = skillsLink[p]
      BY <1>2, <1>5, <2>3 DEF ClearsPlace
    <3>2. sync'[s].pc \in {AfterPlace(q), MakingAt[q]}
      BY <1>5, CallLands DEF Lands
    <3>3. p = "skills" /\ q = "config/skills"
      BY <2>3, <3>2 DEF PlaceDone, SkillsPlaces, AfterPlace, MakingAt
    <3>4. PlaceAgrees(p)
      BY <1>4, <2>1, <3>3 DEF Progress, PlaceDone
    <3> QED
      BY <1>1, <3>1, <3>4 DEF PlaceAgrees
  <2> QED
    BY <2>2, <2>3
<1>6. ASSUME NEW q \in SkillsPlaces, MakesLink(s, q)
      PROVE  PlaceAgrees(p)'
  <2>1. sync[s].pc = MakingAt[q] /\ sync[s].wanted = Wanted /\ Wanted # "none" /\ skillsLink[q] = "none"
    BY <1>4, <1>6 DEF MakesLink, ReadsCurrent, Making, SkillsPlaces, MakingAt
  <2>2. CASE q = p
    BY <1>1, <1>2, <1>6, <2>1, <2>2 DEF MakesLink, PlaceAgrees
  <2>3. CASE q # p
    <3>1. skillsLink'[p] = skillsLink[p]
      BY <1>2, <1>6, <2>3 DEF MakesLink
    <3>2. sync'[s].pc = AfterPlace(q)
      BY <1>6, CallLands DEF Lands
    <3>3. p = "skills" /\ q = "config/skills"
      BY <2>3, <3>2 DEF PlaceDone, SkillsPlaces, AfterPlace
    <3>4. PlaceAgrees(p)
      BY <1>4, <2>1, <3>3 DEF Progress, PlaceDone, MakingAt, SkillsPlaces
    <3> QED
      BY <1>1, <3>1, <3>4 DEF PlaceAgrees
  <2> QED
    BY <2>2, <2>3
<1>7. CASE \/ ReadsOriginal(s) \/ WritesCopy(s) \/ RenamesCopy(s) \/ EndsSync(s)
           \/ \E f \in Settings : TakesFile(s, f)
  <2>1. UNCHANGED skillsLink /\ sync[s].pc \in {"copy", "read", "write", "rename"}
    BY <1>7 DEF ReadsOriginal, WritesCopy, RenamesCopy, EndsSync, TakesFile
  <2> QED
    BY <1>1, <1>4, <2>1 DEF Progress, PlaceDone, PlaceAgrees
<1>8. ~StartsSync(s) /\ ~RaisesSync(s) /\ ~SyncKilled(s)
  BY CallLands DEF Lands, PlaceDone
<1> QED
  BY <1>3, <1>5, <1>6, <1>7, <1>8, StaysUndisturbed DEF SyncStep

\* So does a file.
LEMMA FilesStep ==
    ASSUME SyncInv, NEW s \in Syncs, StartsSync(s) \/ SyncStep(s) \/ SyncKilled(s),
           ~sync'[s].disturbed, NEW f \in Settings \ Denied, FileDone(s, f)'
    PROVE  FileAgrees(f)'
<1>1. UNCHANGED original
  BY CallShape
<1>2. sync \in [Syncs -> SyncRecords] /\ sync[s] \in SyncRecords
  BY DEF SyncInv, SyncTypeOK
<1>3. ~LocksSync(s) /\ ~StartsSync(s) /\ ~RaisesSync(s) /\ ~SyncKilled(s)
  BY CallLands DEF Lands, FileDone
<1>4. ReadsCurrent(s) /\ Progress(s) /\ ~CopyFails(s) /\ \A p \in SkillsPlaces : ~LinkFails(s, p)
  BY <1>3, StaysUndisturbed
<1>5. FileDone(s, f) => FileAgrees(f)
  BY <1>4 DEF Progress
<1>6. ASSUME NEW p \in SkillsPlaces, ClearsPlace(s, p) \/ MakesLink(s, p)
      PROVE  FALSE
  <2>1. sync'[s].pc \in {AfterPlace(p), MakingAt[p]}
    BY <1>6, CallLands DEF Lands
  <2>2. p = "config/skills" /\ sync'[s].pc = "copy"
    BY <2>1 DEF FileDone, SkillsPlaces, AfterPlace, MakingAt
  <2>3. sync'[s].todo = Settings
    <3>1. ~SyncGoes(s, MakingAt[p])
      BY <2>2, Fields DEF Lands, MakingAt, SkillsPlaces
    <3>2. NextPlace(s, p, FALSE)
      BY <1>6, <3>1 DEF ClearsPlace, MakesLink
    <3> QED
      BY <2>2, <3>2, Fields
  <2> QED
    BY <2>2, <2>3 DEF FileDone
<1>7. ASSUME NEW g \in Settings, TakesFile(s, g)
      PROVE  FileAgrees(f)'
  <2>1. /\ UNCHANGED copy /\ sync[s].pc = "copy"
        /\ sync'[s].todo = sync[s].todo \ {g}
        /\ sync'[s].pc = IF Listed(g) THEN "read" ELSE "copy"
        /\ Listed(g) => sync'[s].file = g
    BY <1>2, <1>7 DEF TakesFile, SyncBecomes, SyncRecords
  <2>2. CASE f = g
    BY <1>1, <2>1, <2>2 DEF FileDone, FileAgrees, Listed
  <2>3. CASE f # g
    BY <1>1, <1>5, <2>1, <2>3 DEF FileDone, FileAgrees
  <2> QED
    BY <2>2, <2>3
<1>8. CASE ReadsOriginal(s)
  <2>1. CASE original[sync[s].file].is = "file"
    <3>1. /\ UNCHANGED copy /\ sync[s].pc = "read" /\ sync'[s].pc = "write"
          /\ sync'[s].todo = sync[s].todo /\ sync'[s].file = sync[s].file
      BY <1>2, <1>8, <2>1 DEF ReadsOriginal, SyncBecomes, SyncRecords
    <3> QED
      BY <1>1, <1>5, <3>1 DEF FileDone, FileAgrees
  <2>2. CASE original[sync[s].file].is # "file"
    <3>1. /\ UNCHANGED copy /\ sync[s].pc = "read" /\ sync'[s].pc = "copy"
          /\ sync'[s].todo = sync[s].todo
      BY <1>8, <2>2, Fields DEF ReadsOriginal, Lands
    <3> QED
      BY <1>1, <1>5, <2>2, <3>1 DEF FileDone, FileAgrees
  <2> QED
    BY <2>1, <2>2
<1>9. CASE WritesCopy(s)
  <2>1. /\ UNCHANGED copy /\ sync[s].pc = "write" /\ sync'[s].pc = "rename"
        /\ sync'[s].todo = sync[s].todo /\ sync'[s].file = sync[s].file
    BY <1>9, Fields DEF WritesCopy, Lands
  <2> QED
    BY <1>1, <1>5, <2>1 DEF FileDone, FileAgrees
<1>10. CASE RenamesCopy(s)
  <2>1. /\ sync[s].pc = "rename" /\ sync'[s].pc = "copy"
        /\ sync'[s].todo = sync[s].todo
        /\ copy' = [copy EXCEPT ![sync[s].file] = sync[s].content]
    BY <1>10, Fields DEF RenamesCopy, Lands
  <2>2. sync[s].content = original[sync[s].file]
    BY <1>4, <2>1 DEF ReadsCurrent
  <2>3. copy'[f] = IF f = sync[s].file THEN sync[s].content ELSE copy[f]
    BY <2>1 DEF SyncInv, SyncTypeOK
  <2> QED
    BY <1>1, <1>5, <2>1, <2>2, <2>3 DEF FileDone, FileAgrees
<1>11. CASE EndsSync(s)
  <2>1. UNCHANGED copy /\ FileDone(s, f)
    BY <1>11 DEF EndsSync, FileDone
  <2> QED
    BY <1>1, <1>5, <2>1 DEF FileAgrees
<1> QED
  BY <1>3, <1>4, <1>6, <1>7, <1>8, <1>9, <1>10, <1>11 DEF SyncStep

\* What an undisturbed call has brought about, and found still so when it ended, is
\* not changed by the calls that come after it.
LEMMA DoneStays ==
    ASSUME SyncInv, NEW s \in Syncs, StartsSync(s) \/ SyncStep(s) \/ SyncKilled(s),
           NEW t \in Syncs \ {s}, sync[t].pc = "done", ~sync[t].disturbed
    PROVE  Progress(t)'
<1>1. UNCHANGED original /\ Wanted' = Wanted /\ sync'[t] = sync[t]
  BY CallShape DEF Wanted
<1>2. ReadsCurrent(s) /\ Making(s)
  BY DEF SyncInv
<1>3. /\ \A p \in SkillsPlaces : PlaceAgrees(p)
      /\ \A f \in Settings \ Denied : FileAgrees(f)
  BY DEF SyncInv, Progress, PlaceDone, FileDone
<1>4. ASSUME NEW p \in SkillsPlaces PROVE PlaceAgrees(p)'
  <2>1. skillsLink \in [SkillsPlaces -> Links \cup {"none", "dir", "file"}]
    BY DEF SyncInv, SyncTypeOK
  <2>2. CASE ClearsPlace(s, p)
    <3>1. sync[s].wanted = Wanted
      BY <1>2, <2>2 DEF ClearsPlace, ReadsCurrent, SkillsPlaces
    <3>2. ~InTheWay(s, p)
      BY <1>3, <3>1 DEF InTheWay, PlaceAgrees, Links
    <3>3. skillsLink'[p] = skillsLink[p]
      BY <2>1, <2>2, <3>2 DEF ClearsPlace
    <3> QED
      BY <1>1, <1>3, <3>3 DEF PlaceAgrees
  <2>3. CASE MakesLink(s, p)
    <3>1. /\ sync[s].wanted = Wanted /\ sync[s].wanted # "none" /\ skillsLink[p] = "none"
      BY <1>2, <2>3 DEF MakesLink, ReadsCurrent, Making, SkillsPlaces, MakingAt
    <3>2. PlaceAgrees(p)
      BY <1>3
    <3>3. FALSE
      BY <3>1, <3>2 DEF PlaceAgrees
    <3> QED
      BY <3>3
  <2>4. CASE ~ClearsPlace(s, p) /\ ~MakesLink(s, p)
    <3>1. skillsLink'[p] = skillsLink[p]
      BY <2>1, <2>4 DEF StartsSync, SyncStep, SyncKilled, LocksSync, ReadsOriginal, WritesCopy, RenamesCopy,
            CopyFails, RaisesSync, EndsSync, ClearsPlace, MakesLink, LinkFails, TakesFile
    <3> QED
      BY <1>1, <1>3, <3>1 DEF PlaceAgrees
  <2> QED
    BY <2>2, <2>3, <2>4
<1>5. ASSUME NEW f \in Settings \ Denied PROVE FileAgrees(f)'
  <2>1. CASE RenamesCopy(s)
    <3>1. sync[s].content = original[sync[s].file]
      BY <1>2, <2>1 DEF RenamesCopy, ReadsCurrent
    <3>2. copy'[f] = IF f = sync[s].file THEN sync[s].content ELSE copy[f]
      BY <2>1 DEF RenamesCopy, SyncInv, SyncTypeOK
    <3> QED
      BY <1>1, <1>3, <3>1, <3>2 DEF FileAgrees
  <2>2. CASE UNCHANGED copy
    BY <1>1, <1>3, <2>2 DEF FileAgrees
  <2> QED
    BY <2>1, <2>2, CopiesChange
<1> QED
  BY <1>4, <1>5 DEF Progress

\* The calls that do not move keep what the invariant says of them.
LEMMA OthersStep ==
    ASSUME SyncInv, NEW s \in Syncs, StartsSync(s) \/ SyncStep(s) \/ SyncKilled(s),
           NEW t \in Syncs \ {s}
    PROVE  /\ InHand(t)' /\ Making(t)'
           /\ ReadsCurrent(t) => ReadsCurrent(t)'
           /\ ~sync'[t].disturbed => Progress(t)'
<1>1. sync'[t] = sync[t] /\ UNCHANGED original /\ Wanted' = Wanted
  BY CallShape DEF Wanted
<1>2. InHand(t) /\ Making(t) /\ (~sync[t].disturbed => Progress(t))
  BY DEF SyncInv
<1>3. ReadsCurrent(t) => ReadsCurrent(t)'
  BY <1>1 DEF ReadsCurrent
<1>4. CASE UNCHANGED <<copy, skillsLink>>
  BY <1>1, <1>2, <1>3, <1>4 DEF InHand, Making, Progress, PlaceDone, FileDone, PlaceAgrees, FileAgrees
<1>5. CASE ~UNCHANGED <<copy, skillsLink>>
  <2>1. sync[t].pc \notin LockingPCs
    BY <1>5, CallShape DEF SyncInv, LockHeld, LockingPCs
  <2>2. InHand(t)' /\ Making(t)'
    BY <1>1, <2>1 DEF InHand, Making, LockingPCs
  <2>3. CASE sync[t].pc = "done"
    BY <1>1, <1>3, <2>2, <2>3, DoneStays
  <2>4. CASE sync[t].pc # "done"
    BY <1>1, <1>3, <2>1, <2>2, <2>4 DEF Progress, PlaceDone, FileDone, LockingPCs
  <2> QED
    BY <2>3, <2>4
<1> QED
  BY <1>4, <1>5

\* The actions of a call keep the invariant.
LEMMA SyncCallStep ==
    ASSUME SyncInv, NEW s \in Syncs, StartsSync(s) \/ SyncStep(s) \/ SyncKilled(s)
    PROVE  SyncInv'
<1>1. SyncTypeOK' /\ LockHeld' /\ CopiesFollow'
  BY CallTypes, LockStep, CopiesStep
<1>2. ASSUME NEW t \in Syncs PROVE InHand(t)' /\ Making(t)'
  BY <1>1, HandStep, MakingStep, OthersStep
<1>3. ASSUME NEW t \in Syncs, ReadsCurrent(t) PROVE ReadsCurrent(t)'
  BY <1>3, CurrentStep, OthersStep
<1>4. ASSUME NEW t \in Syncs, ~sync'[t].disturbed PROVE ReadsCurrent(t)' /\ Progress(t)'
  <2>1. CASE t = s
    <3>1. Progress(s)'
      BY <1>4, <2>1, PlacesStep, FilesStep DEF Progress
    <3>2. CASE LocksSync(s)
      <4>1. sync[s].pc = "lock"
        BY <3>2 DEF LocksSync
      <4>2. ReadsCurrent(s)
        BY <4>1 DEF ReadsCurrent
      <4> QED
        BY <1>3, <2>1, <3>1, <4>2
    <3>3. CASE ~LocksSync(s)
      BY <1>3, <1>4, <2>1, <3>1, <3>3, StaysUndisturbed
    <3> QED
      BY <3>2, <3>3
  <2>2. CASE t # s
    <3>1. sync'[t] = sync[t]
      BY <2>2, CallShape
    <3>2. ReadsCurrent(t)
      BY <1>4, <3>1 DEF SyncInv
    <3> QED
      BY <1>4, <2>2, <3>2, OthersStep
  <2> QED
    BY <2>1, <2>2
<1>5. ASSUME NEW r \in Syncs, NEW t \in Syncs, sync'[r].pc = "done", ~sync'[r].disturbed
      PROVE  ReadsCurrent(t)'
  <2>1. CASE r = s
    <3>1. CASE t = s
      BY <1>5, <2>1, <3>1 DEF ReadsCurrent
    <3>2. CASE t # s
      <4>1. sync[t].pc \notin LockingPCs /\ sync'[t] = sync[t]
        BY <1>5, <2>1, <3>2, CallShape DEF SyncInv, LockHeld, LockingPCs
      <4> QED
        BY <4>1 DEF ReadsCurrent, LockingPCs
    <3> QED
      BY <3>1, <3>2
  <2>2. CASE r # s
    <3>1. sync'[r] = sync[r]
      BY <2>2, CallShape
    <3> QED
      BY <1>3, <1>5, <3>1 DEF SyncInv
  <2> QED
    BY <2>1, <2>2
<1> QED
  BY <1>1, <1>2, <1>4, <1>5 DEF SyncInv

\* The user and Agy disturb every call, so that nothing is said of agreement any more.
LEMMA OutsideStep ==
    ASSUME SyncInv, UserMovesSkills \/ UserReplacesGemini \/ \E f \in Settings : UserEdits(f) \/ AgySaves(f)
    PROVE  /\ SyncInv'
           /\ \A f \in Settings :
                 copy[f].is = "file" /\ copy'[f].is = "file" => copy[f].edit <= copy'[f].edit
<1>1. SyncTypeOK /\ SyncTypeOK'
  BY OutsideTypes DEF SyncInv
<1>2. sync' = Disturbed /\ UNCHANGED <<skillsLink, syncLock>>
  BY DEF UserMovesSkills, UserReplacesGemini, UserEdits, AgySaves
<1>3. ASSUME NEW t \in Syncs
      PROVE  /\ sync'[t].pc = sync[t].pc /\ sync'[t].wanted = sync[t].wanted
             /\ sync'[t].file = sync[t].file /\ sync'[t].content = sync[t].content
             /\ sync'[t].disturbed
  BY <1>1, <1>2, DisturbedCalls DEF SyncTypeOK, SyncRecords
<1>4. LockHeld'
  BY <1>2, <1>3 DEF LockHeld, SyncInv
<1>5. ASSUME NEW t \in Syncs PROVE Making(t)'
  BY <1>2, <1>3 DEF Making, SyncInv
<1>6. ASSUME NEW f \in Settings
      PROVE  /\ original[f].edit <= edits
             /\ original'[f].edit \in Nat /\ original[f].edit \in Nat
             /\ original[f].edit <= original'[f].edit /\ original'[f].edit <= edits'
             /\ copy'[f] = copy[f] \/ copy'[f].is # "file"
  BY <1>1 DEF UserMovesSkills, UserReplacesGemini, UserEdits, AgySaves, SyncInv, CopiesFollow, SyncTypeOK, Originals
<1>7. CopiesFollow'
  BY <1>1, <1>6 DEF CopiesFollow, SyncInv, SyncTypeOK
<1>8. ASSUME NEW t \in Syncs PROVE InHand(t)'
  BY <1>1, <1>3, <1>6 DEF InHand, SyncInv, SyncTypeOK, SyncRecords, Originals
<1> QED
  BY <1>1, <1>3, <1>4, <1>5, <1>6, <1>7, <1>8 DEF SyncInv, SyncTypeOK

\* No step changes the invariant, and none replaces a copy by an older one.
LEMMA SyncStepKeeps ==
    ASSUME SyncInv, [SyncNext]_syncVars
    PROVE  /\ SyncInv'
           /\ \A f \in Settings :
                 copy[f].is = "file" /\ copy'[f].is = "file" => copy[f].edit <= copy'[f].edit
<1>1. CASE \E s \in Syncs : StartsSync(s) \/ SyncStep(s) \/ SyncKilled(s)
  BY <1>1, SyncCallStep, CopiesStep DEF SyncInv
<1>2. CASE UserMovesSkills \/ UserReplacesGemini \/ \E f \in Settings : UserEdits(f) \/ AgySaves(f)
  BY <1>2, OutsideStep
<1>3. CASE UNCHANGED syncVars
  <2>1. SyncInv'
    BY <1>3 DEF syncVars, SyncInv, SyncTypeOK, LockHeld, CopiesFollow, InHand, Making, ReadsCurrent, Progress,
          PlaceDone, FileDone, PlaceAgrees, FileAgrees, Wanted
  <2>2. \A f \in Settings : copy'[f] = copy[f] /\ copy[f].edit \in Nat
    BY <1>3 DEF syncVars, SyncInv, SyncTypeOK
  <2> QED
    BY <2>1, <2>2
<1> QED
  BY <1>1, <1>2, <1>3 DEF SyncNext

\* SyncInv holds in every state.
THEOREM SyncInvariance == SyncSpec => []SyncInv
<1>1. SyncInit => SyncInv
  <2> SUFFICES ASSUME SyncInit PROVE SyncInv
    OBVIOUS
  <2>1. \A s \in Syncs : sync[s] = IdleSync
    BY DEF SyncInit
  <2>2. IdleSync \in SyncRecords
    BY DEF IdleSync, NoFile, Originals, SyncRecords, SyncPCs
  <2>3. SyncTypeOK
    BY <2>2 DEF SyncInit, SyncTypeOK, Originals, Links
  <2>4. LockHeld
    BY <2>1 DEF SyncInit, LockHeld, LockingPCs, IdleSync
  <2>5. CopiesFollow
    BY DEF SyncInit, CopiesFollow
  <2>6. \A s \in Syncs : InHand(s) /\ Making(s) /\ ReadsCurrent(s) /\ Progress(s)
    BY <2>1 DEF IdleSync, InHand, Making, ReadsCurrent, Progress, PlaceDone, FileDone
  <2> QED
    BY <2>3, <2>4, <2>5, <2>6 DEF SyncInv
<1>2. QED
  BY <1>1, SyncStepKeeps, PTL DEF SyncSpec

\* A call that ended without an error and without having been disturbed left the
\* profile in agreement with the user's directory, and later calls leave it so.
THEOREM SyncsBringAgreement == SyncSpec => []DoneMeansSynced
<1>1. SyncInv => DoneMeansSynced
  BY DEF SyncInv, Progress, PlaceDone, FileDone, DoneMeansSynced
<1>2. QED
  BY <1>1, SyncInvariance, PTL

\* No copy is replaced by an older one.
THEOREM SettingsGoForward == SyncSpec => SettingsAdvance
<1>1. SyncInv /\ [SyncNext]_syncVars =>
         \A f \in Settings :
            copy[f].is = "file" /\ copy'[f].is = "file" => copy[f].edit <= copy'[f].edit
  BY SyncStepKeeps
<1>2. QED
  BY <1>1, SyncInvariance, PTL DEF SyncSpec, SettingsAdvance

===============================================================================
