---------------------------- MODULE SettingsSync ----------------------------
(***************************************************************************)
(* sync_profile_settings: before Agy is started in a managed profile, its  *)
(* settings are brought up to date with the user's own .gemini directory.  *)
(* Two links to the skills directory are put in place, then the allowed    *)
(* files are copied one by one.  Runs of the same profile do this beside   *)
(* each other and beside an Agy that works in the profile, while the user  *)
(* edits the originals.                                                    *)
(*                                                                         *)
(* An original is a file with the number of the edit it comes from, or     *)
(* "odd": a symbolic link, something that is not a regular file, or more   *)
(* than ten megabytes.  Denied are the files whose path matches a denied   *)
(* pattern.  The user's skills are at skills or at config/skills, or both. *)
(***************************************************************************)
EXTENDS Naturals, FiniteSets

CONSTANTS
    Settings,       \* the files below the allowed names
    Denied,         \* those of them with a denied component
    Syncs,          \* calls of sync_profile_settings for the profile
    NoSync,         \* stands for the absence of a call
    MaxEdits        \* bound on the edits of the user

ASSUME SettingsAssumption ==
    /\ Denied \subseteq Settings
    /\ NoSync \notin Syncs
    /\ MaxEdits \in Nat

VARIABLES
    gemini,         \* whether the user's .gemini directory exists
    original,       \* per file: what the user's directory holds
    skillsAt,       \* where the user keeps skills: "top", "config" or both
    edits,          \* how often the user has changed something
    copy,           \* per file: what the profile holds
    skillsLink,     \* per place: what the profile holds there
    syncLock,       \* the holder of .sync.lock
    sync            \* per call: program counter, and what it has read

syncVars == <<gemini, original, skillsAt, edits, copy, skillsLink, syncLock, sync>>

\* The two places of the link, in the order they are looked at.
SkillsPlaces == {"skills", "config/skills"}
Links == {"top", "config", "elsewhere"}
NoFile == [is |-> "none", edit |-> 0]
IdleSync == [pc |-> "idle", wanted |-> "none", todo |-> {}, file |-> NoSync,
             content |-> NoFile, disturbed |-> FALSE]

SyncInit ==
    /\ gemini \in BOOLEAN
    /\ original = [f \in Settings |-> [is |-> IF gemini THEN "file" ELSE "none", edit |-> 0]]
    /\ skillsAt \in IF gemini THEN SUBSET {"top", "config"} ELSE {{}}
    /\ edits = 0
    /\ \E is \in {"none", "link"} : copy = [f \in Settings |-> [is |-> is, edit |-> 0]]
    /\ \E found \in {"none", "elsewhere", "dir", "file"} : skillsLink = [p \in SkillsPlaces |-> found]
    /\ syncLock = NoSync
    /\ sync = [s \in Syncs |-> IdleSync]

SyncBecomes(s, r) == sync' = [sync EXCEPT ![s] = r]
SyncGoes(s, pc) == SyncBecomes(s, [sync[s] EXCEPT !.pc = pc])

\* However the call ends, the lock is released.
SyncStops(s, pc) ==
    /\ SyncBecomes(s, [IdleSync EXCEPT !.pc = pc, !.disturbed = sync[s].disturbed])
    /\ syncLock' = IF syncLock = s THEN NoSync ELSE syncLock

\* The call goes on with the next file.
NextFile(s, missed) ==
    SyncBecomes(s, [sync[s] EXCEPT !.pc = "copy", !.file = NoSync, !.content = NoFile,
                                   !.disturbed = @ \/ missed])

\* Something happened that a call may have missed.
Disturbed == [s \in Syncs |-> [sync[s] EXCEPT !.disturbed = TRUE]]

(***************************************************************************)
(* The call: the lock, then where the skills are.                          *)
(***************************************************************************)
\* Without a source directory there is nothing to do: the call ends at once and
\* without an error, and what the profile holds, old links too, stays.  It raises
\* if the directory, or one of the profile, is a link.
StartsSync(s) ==
    /\ sync[s].pc = "idle"
    /\ \E pc \in {IF gemini THEN "lock" ELSE "skipped", "raised"} : SyncGoes(s, pc)
    /\ UNCHANGED <<gemini, original, skillsAt, edits, copy, skillsLink, syncLock>>

Wanted == IF "top" \in skillsAt THEN "top" ELSE IF "config" \in skillsAt THEN "config" ELSE "none"

\* Mutant: runs of the same profile do not wait for each other.
LocksSyncAnyway(s) ==
    /\ sync[s].pc = "lock"
    /\ gemini
    /\ syncLock' = s
    /\ SyncBecomes(s, [sync[s] EXCEPT !.pc = "skills", !.wanted = Wanted, !.disturbed = FALSE])
    /\ UNCHANGED <<gemini, original, skillsAt, edits, copy, skillsLink>>

\* The lock is waited for as long as it takes; the source directory is opened under it.
LocksSync(s) ==
    /\ sync[s].pc = "lock"
    /\ syncLock = NoSync
    /\ gemini
    /\ syncLock' = s
    /\ SyncBecomes(s, [sync[s] EXCEPT !.pc = "skills", !.wanted = Wanted, !.disturbed = FALSE])
    /\ UNCHANGED <<gemini, original, skillsAt, edits, copy, skillsLink>>

(***************************************************************************)
(* The two links.  The program counter is the place, or "make" and the     *)
(* place between the removal of what was there and the new link.           *)
(***************************************************************************)
AfterPlace(p) == IF p = "skills" THEN "config/skills" ELSE "copy"
MakingAt == [p \in SkillsPlaces |-> IF p = "skills" THEN "makeSkills" ELSE "makeConfig"]

NextPlace(s, p, missed) ==
    SyncBecomes(s, [sync[s] EXCEPT !.pc = AfterPlace(p), !.disturbed = @ \/ missed,
                                   !.todo = IF p = "skills" THEN @ ELSE Settings,
                                   !.wanted = IF p = "skills" THEN @ ELSE "none"])

\* A link that leads elsewhere, and a directory with all it holds, are removed;
\* without skills every link is.
InTheWay(s, p) ==
    IF sync[s].wanted = "none" THEN skillsLink[p] \in Links
    ELSE skillsLink[p] \in (Links \cup {"dir"}) \ {sync[s].wanted}

\* Mutant: a link that is there is taken for the right one.
TrustsLink(s, p) ==
    /\ sync[s].pc = p
    /\ IF skillsLink[p] \in {"none", "dir"} /\ sync[s].wanted # "none"
       THEN SyncGoes(s, MakingAt[p]) /\ skillsLink' = [skillsLink EXCEPT ![p] = "none"]
       ELSE NextPlace(s, p, FALSE) /\ UNCHANGED skillsLink
    /\ UNCHANGED <<gemini, original, skillsAt, edits, copy, syncLock>>

ClearsPlace(s, p) ==
    /\ sync[s].pc = p
    /\ skillsLink' = [skillsLink EXCEPT ![p] = IF InTheWay(s, p) THEN "none" ELSE @]
    /\ IF skillsLink'[p] = "none" /\ sync[s].wanted # "none"
       THEN SyncGoes(s, MakingAt[p])
       ELSE NextPlace(s, p, FALSE)
    /\ UNCHANGED <<gemini, original, skillsAt, edits, copy, syncLock>>

\* What came to be there in between is left, without an error.
MakesLink(s, p) ==
    /\ sync[s].pc = MakingAt[p]
    /\ skillsLink' = [skillsLink EXCEPT ![p] = IF @ = "none" THEN sync[s].wanted ELSE @]
    /\ NextPlace(s, p, FALSE)
    /\ UNCHANGED <<gemini, original, skillsAt, edits, copy, syncLock>>

\* An old link that cannot be removed, or a new one that cannot be made, is left
\* at that, without an error.
LinkFails(s, p) ==
    /\ \/ sync[s].pc = p /\ skillsLink[p] \in Links
       \/ sync[s].pc = MakingAt[p]
    /\ NextPlace(s, p, TRUE)
    /\ UNCHANGED <<gemini, original, skillsAt, edits, copy, skillsLink, syncLock>>

(***************************************************************************)
(* The files.                                                              *)
(***************************************************************************)
\* The listing passes over denied files, and over what is no file yet.
Listed(f) == f \notin Denied /\ original[f].is # "none"

TakesFile(s, f) ==
    /\ sync[s].pc = "copy"
    /\ f \in sync[s].todo
    /\ SyncBecomes(s, [sync[s] EXCEPT !.todo = @ \ {f},
                                      !.pc = IF Listed(f) THEN "read" ELSE "copy",
                                      !.file = IF Listed(f) THEN f ELSE NoSync])
    /\ UNCHANGED <<gemini, original, skillsAt, edits, copy, skillsLink, syncLock>>

\* Opened without following links; an original that is gone or odd by now is
\* passed over.
ReadsOriginal(s) ==
    LET o == original[sync[s].file] IN
    /\ sync[s].pc = "read"
    /\ IF o.is = "file"
       THEN SyncBecomes(s, [sync[s] EXCEPT !.pc = "write", !.content = o])
       ELSE NextFile(s, FALSE)
    /\ UNCHANGED <<gemini, original, skillsAt, edits, copy, skillsLink, syncLock>>

\* The copy is written under a temporary name.
WritesCopy(s) ==
    /\ sync[s].pc = "write"
    /\ copy[sync[s].file].is # "link"
    /\ SyncGoes(s, "rename")
    /\ UNCHANGED <<gemini, original, skillsAt, edits, copy, skillsLink, syncLock>>

RenamesCopy(s) ==
    /\ sync[s].pc = "rename"
    /\ copy' = [copy EXCEPT ![sync[s].file] = sync[s].content]
    /\ NextFile(s, FALSE)
    /\ UNCHANGED <<gemini, original, skillsAt, edits, skillsLink, syncLock>>

\* An error while copying ends this copy only, and is not told to anyone.
CopyFails(s) ==
    /\ sync[s].pc \in {"read", "write", "rename"}
    /\ NextFile(s, TRUE)
    /\ UNCHANGED <<gemini, original, skillsAt, edits, copy, skillsLink, syncLock>>

\* Mutant: the lock is kept when the call raises.
RaisesLocked(s) ==
    /\ \/ sync[s].pc = "lock" /\ syncLock = NoSync
       \/ sync[s].pc \in {"skills", "config/skills", "write"}
    /\ SyncGoes(s, "raised")
    /\ UNCHANGED <<gemini, original, skillsAt, edits, copy, skillsLink, syncLock>>

\* The source directory is gone by now, or another directory cannot be opened, made or
\* cleared, or there is a link in the place of a copy or of a directory above it.
RaisesSync(s) ==
    /\ \/ sync[s].pc = "lock" /\ syncLock = NoSync
       \/ sync[s].pc \in {"skills", "config/skills", "write"}
    /\ SyncStops(s, "raised")
    /\ UNCHANGED <<gemini, original, skillsAt, edits, copy, skillsLink>>

EndsSync(s) ==
    /\ sync[s].pc = "copy" /\ sync[s].todo = {}
    /\ SyncStops(s, "done")
    /\ UNCHANGED <<gemini, original, skillsAt, edits, copy, skillsLink>>

SyncStep(s) ==
    \/ LocksSync(s) \/ ReadsOriginal(s) \/ WritesCopy(s) \/ RenamesCopy(s) \/ CopyFails(s)
    \/ RaisesSync(s) \/ EndsSync(s)
    \/ \E p \in SkillsPlaces : ClearsPlace(s, p) \/ MakesLink(s, p) \/ LinkFails(s, p)
    \/ \E f \in Settings : TakesFile(s, f)

\* The process is killed; the kernel releases its lock.
SyncKilled(s) ==
    /\ sync[s].pc \notin {"idle", "done", "skipped", "raised", "killed"}
    /\ SyncStops(s, "killed")
    /\ UNCHANGED <<gemini, original, skillsAt, edits, copy, skillsLink>>

(***************************************************************************)
(* The user, and Agy in the profile.                                       *)
(***************************************************************************)
UserEdits(f) ==
    /\ gemini
    /\ edits < MaxEdits
    /\ edits' = edits + 1
    /\ \E is \in {"file", "odd", "none"} :
          original' = [original EXCEPT ![f] = [is |-> is, edit |-> edits']]
    /\ sync' = Disturbed
    /\ UNCHANGED <<gemini, skillsAt, copy, skillsLink, syncLock>>

UserMovesSkills ==
    /\ gemini
    /\ edits < MaxEdits
    /\ edits' = edits + 1
    /\ \E places \in SUBSET {"top", "config"} : skillsAt' = places
    /\ sync' = Disturbed
    /\ UNCHANGED <<gemini, original, copy, skillsLink, syncLock>>

\* The directory is removed with all that it holds, or made anew and empty.
UserReplacesGemini ==
    /\ edits < MaxEdits
    /\ edits' = edits + 1
    /\ gemini' = ~gemini
    /\ original' = [f \in Settings |-> [is |-> "none", edit |-> edits']]
    /\ skillsAt' = {}
    /\ sync' = Disturbed
    /\ UNCHANGED <<copy, skillsLink, syncLock>>

\* Agy keeps settings of its own in the profile, also under denied names.
AgySaves(f) ==
    /\ edits < MaxEdits
    /\ edits' = edits + 1
    /\ copy' = [copy EXCEPT ![f] = [is |-> "own", edit |-> 0]]
    /\ sync' = Disturbed
    /\ UNCHANGED <<gemini, original, skillsAt, skillsLink, syncLock>>

SyncNext ==
    \/ \E s \in Syncs : StartsSync(s) \/ SyncStep(s) \/ SyncKilled(s)
    \/ \E f \in Settings : UserEdits(f) \/ AgySaves(f)
    \/ UserMovesSkills \/ UserReplacesGemini

SyncSpec == SyncInit /\ [][SyncNext]_syncVars

\* Calls are processes the system schedules.
SyncFairness == \A s \in Syncs : WF_syncVars(SyncStep(s))

(***************************************************************************)
(* Properties.                                                             *)
(***************************************************************************)
LockingPCs == {"skills", "makeSkills", "config/skills", "makeConfig", "copy", "read", "write", "rename"}
SyncPCs == LockingPCs \cup {"idle", "lock", "done", "skipped", "raised", "killed"}
Originals == [is : {"none", "file", "odd"}, edit : 0 .. MaxEdits]
SyncRecords == [pc : SyncPCs, wanted : {"none", "top", "config"}, todo : SUBSET Settings,
                file : Settings \cup {NoSync}, content : Originals, disturbed : BOOLEAN]

\* Every variable stays in its domain.
SyncTypeOK ==
    /\ gemini \in BOOLEAN
    /\ original \in [Settings -> Originals]
    /\ skillsAt \subseteq {"top", "config"}
    /\ edits \in 0 .. MaxEdits
    /\ copy \in [Settings -> [is : {"none", "file", "own", "link"}, edit : 0 .. MaxEdits]]
    /\ skillsLink \in [SkillsPlaces -> Links \cup {"none", "dir", "file"}]
    /\ syncLock \in Syncs \cup {NoSync}
    /\ sync \in [Syncs -> SyncRecords]

\* The profile agrees with the user's directory in a place and in a file.
PlaceAgrees(p) == IF Wanted = "none" THEN skillsLink[p] \notin Links
                                     ELSE skillsLink[p] \in {Wanted, "file"}
FileAgrees(f) == original[f].is = "file" => copy[f] = original[f]

\* The calls between their first and their last step hold the lock.
LockHeld == \A s \in Syncs : sync[s].pc \in LockingPCs <=> syncLock = s

\* A copy is never newer than the original.
CopiesFollow ==
    \A f \in Settings : /\ original[f].edit <= edits
                        /\ copy[f].is = "file" => /\ f \notin Denied
                                                  /\ copy[f].edit <= original[f].edit

\* What a call has in hand is a file it may copy, no newer than the original, and
\* no older than the copy.
InHand(s) ==
    /\ sync[s].pc \in {"read", "write", "rename"} => sync[s].file \in Settings \ Denied
    /\ sync[s].pc \in {"write", "rename"} =>
          /\ sync[s].content.is = "file"
          /\ sync[s].content.edit <= original[sync[s].file].edit
          /\ copy[sync[s].file].is = "file" => copy[sync[s].file].edit <= sync[s].content.edit

\* What the call has read of the user's directory is what is there.
ReadsCurrent(s) ==
    /\ sync[s].pc \in {"skills", "makeSkills", "config/skills", "makeConfig"} => sync[s].wanted = Wanted
    /\ sync[s].pc \in {"write", "rename"} => sync[s].content = original[sync[s].file]

Making(s) ==
    /\ sync[s].pc \in {"makeSkills", "makeConfig"} => sync[s].wanted # "none"
    /\ sync[s].pc = "makeSkills" => skillsLink["skills"] = "none"
    /\ sync[s].pc = "makeConfig" => skillsLink["config/skills"] = "none"

\* How far a call has come.
PlaceDone(s, p) ==
    sync[s].pc \in {"copy", "read", "write", "rename", "done"}
                     \cup (IF p = "skills" THEN {"config/skills", "makeConfig"} ELSE {})
FileDone(s, f) ==
    \/ sync[s].pc = "done"
    \/ sync[s].pc = "copy" /\ f \notin sync[s].todo
    \/ sync[s].pc \in {"read", "write", "rename"} /\ f \notin sync[s].todo \cup {sync[s].file}

\* An undisturbed call has brought what it is through with into agreement.
Progress(s) ==
    /\ \A p \in SkillsPlaces : PlaceDone(s, p) => PlaceAgrees(p)
    /\ \A f \in Settings \ Denied : FileDone(s, f) => FileAgrees(f)

\* Why DoneMeansSynced holds, and the other calls do not spoil what it says: as long
\* as a call that is done is undisturbed, they have read the same as it has.
SyncInv ==
    /\ SyncTypeOK
    /\ LockHeld
    /\ CopiesFollow
    /\ \A s \in Syncs : InHand(s) /\ Making(s)
    /\ \A s \in Syncs : ~sync[s].disturbed => ReadsCurrent(s) /\ Progress(s)
    /\ \A s, t \in Syncs : sync[s].pc = "done" /\ ~sync[s].disturbed => ReadsCurrent(t)

\* A call that found the user's directory and ended without an error, and that neither
\* met an error it kept to itself nor was disturbed since it took the lock, left the
\* profile in agreement with the user's directory, whatever killed calls had left half
\* done and other calls do meanwhile.
DoneMeansSynced ==
    \A s \in Syncs : sync[s].pc = "done" /\ ~sync[s].disturbed =>
        /\ \A f \in Settings \ Denied : FileAgrees(f)
        /\ \A p \in SkillsPlaces : PlaceAgrees(p)

\* Settings never go back: a call that has read an older original does not write
\* it over a newer copy.
SettingsAdvance ==
    [][\A f \in Settings :
          copy[f].is = "file" /\ copy'[f].is = "file" => copy[f].edit <= copy'[f].edit]_syncVars

\* Every call that begins ends, also those that wait for one that raised or was
\* killed in the middle.
SyncEnds ==
    \A s \in Syncs : (sync[s].pc = "lock") ~> (sync[s].pc \in {"done", "raised", "killed"})
=============================================================================
