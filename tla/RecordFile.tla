----------------------------- MODULE RecordFile -----------------------------
(***************************************************************************)
(* The commit protocol of a private record file.  Three places of the code *)
(* write one: state.Save (the account state), inbox.save (a consumer       *)
(* cursor) and provider.saveAcquisitionJSON (a resume file, an external    *)
(* checkpoint).  Each writes and syncs a temporary file, moves the current *)
(* file to <path>.old, renames the temporary file over <path> and removes  *)
(* <path>.old; a load falls back to <path>.old when <path> is missing.     *)
(* Writers hold the account lock, so there is one at a time; loads of the  *)
(* query commands hold no lock and read the two files one after the other. *)
(* A file is the version it holds, 0 when it does not exist.               *)
(***************************************************************************)
EXTENDS Naturals

CONSTANTS
  Kinds,        \* the writers considered: "state", "cursor", "acquisition"
  Readers,      \* processes that load the record without the lock
  MaxVersion,   \* bound on the number of saves
  MaxCrashes    \* bound on the number of writer crashes

ASSUME KindsAssumption == Kinds \subseteq {"state", "cursor", "acquisition"}
ASSUME BoundAssumption == MaxVersion \in Nat /\ MaxCrashes \in Nat

VARIABLES
  kind,        \* which of the writers the record belongs to
  primary,     \* the file <path>
  backup,      \* the file <path>.old
  pc,          \* the writer's next step
  moved,       \* this save moved <path> to <path>.old
  version,     \* the version of the last save that started
  committed,   \* the version of the last save that published, 0 after a deletion
  crashes,     \* writer crashes so far
  reader       \* what each lock-free load is doing and has seen

writerVars == <<kind, primary, backup, pc, moved, version, committed, crashes>>
vars == <<kind, primary, backup, pc, moved, version, committed, crashes, reader>>

Steps == {"idle", "restore", "remove", "move", "publish", "drop", "delete"}
Files == 0..MaxVersion

\* Load: the file itself, and its backup only when the file is missing.
Load == IF primary # 0 THEN primary ELSE backup

\* A load that is not running.
Resting == [at |-> "idle", got |-> 0, floor |-> 0]

Init ==
  /\ kind \in Kinds
  /\ primary = 0 /\ backup = 0
  /\ pc = "idle" /\ moved = FALSE
  /\ version = 0 /\ committed = 0 /\ crashes = 0
  /\ reader = [r \in Readers |-> Resting]

\* What the steps of a writer do to the loads under way: a deletion lifts what
\* they must at least return.
Observe ==
  reader' = [r \in Readers |-> [reader[r] EXCEPT !.floor = IF Load' < @ THEN Load' ELSE @]]
-----------------------------------------------------------------------------
(* Saving. *)

\* The temporary file is written and synced; only inbox.save then looks for a
\* record that survives in its backup alone.
StartSave ==
  /\ pc = "idle"
  /\ version < MaxVersion
  /\ version' = version + 1
  /\ pc' = IF kind = "cursor" THEN "restore" ELSE "remove"
  /\ UNCHANGED <<kind, primary, backup, moved, committed, crashes>>
  /\ Observe

\* Fault: the save goes on without looking for a record in the backup alone.
RestoreSkipped ==
  /\ pc = "restore" /\ pc' = "remove"
  /\ UNCHANGED <<kind, primary, backup, moved, version, committed, crashes>>
  /\ Observe

\* if the file is missing and the backup exists, the backup is renamed back
RestoreBackup ==
  /\ pc = "restore"
  /\ IF primary = 0 THEN primary' = backup /\ backup' = 0
                    ELSE UNCHANGED <<primary, backup>>
  /\ pc' = "remove"
  /\ UNCHANGED <<kind, moved, version, committed, crashes>>
  /\ Observe

\* os.Remove(backup), its error ignored
RemoveBackup ==
  /\ pc = "remove"
  /\ backup' \in {0, backup}
  /\ pc' = "move"
  /\ UNCHANGED <<kind, primary, moved, version, committed, crashes>>
  /\ Observe

\* os.Rename(path, backup) when the file exists
MovePrimary ==
  /\ pc = "move"
  /\ IF primary # 0 THEN backup' = primary /\ primary' = 0
                    ELSE UNCHANGED <<primary, backup>>
  /\ moved' = (primary # 0)
  /\ pc' = "publish"
  /\ UNCHANGED <<kind, version, committed, crashes>>
  /\ Observe

\* Fault: the version is counted up again when it is published.
PublishCountedTwice ==
  /\ pc = "publish" /\ pc' = IF moved THEN "drop" ELSE "idle"
  /\ primary' = version + 1 /\ committed' = version
  /\ UNCHANGED <<kind, backup, moved, version, crashes>>
  /\ Observe

\* os.Rename(temporary, path)
Publish ==
  /\ pc = "publish"
  /\ primary' = version
  /\ committed' = version
  /\ pc' = IF moved THEN "drop" ELSE "idle"
  /\ UNCHANGED <<kind, backup, moved, version, crashes>>
  /\ Observe

\* os.Rename(temporary, path) fails: the save renames the backup back, which
\* may fail too, and returns the error
PublishFails ==
  /\ pc = "publish"
  /\ \/ moved /\ primary' = backup /\ backup' = 0
     \/ UNCHANGED <<primary, backup>>
  /\ pc' = "idle"
  /\ UNCHANGED <<kind, moved, version, committed, crashes>>
  /\ Observe

\* an earlier rename fails: the save returns before it changed what a load finds
SaveFails ==
  /\ \/ pc = "restore" /\ primary = 0 /\ backup # 0
     \/ pc = "move" /\ primary # 0
  /\ pc' = "idle"
  /\ UNCHANGED <<kind, primary, backup, moved, version, committed, crashes>>
  /\ Observe

\* the last os.Remove(backup), its error ignored
DropBackup ==
  /\ pc = "drop"
  /\ backup' \in {0, backup}
  /\ pc' = "idle"
  /\ UNCHANGED <<kind, primary, moved, version, committed, crashes>>
  /\ Observe
-----------------------------------------------------------------------------
(* Deleting. *)

\* DeleteAccountData renames the whole account directory away before it removes
\* the renamed directory.
DeleteDirectory ==
  /\ kind = "state"
  /\ pc = "idle"
  /\ Load # 0
  /\ primary' = 0 /\ backup' = 0
  /\ committed' = 0
  /\ pc' = "delete"
  /\ UNCHANGED <<kind, moved, version, crashes>>
  /\ Observe

\* inbox.Delete and removeAcquisitionResume: <path> first ...
DeletePrimary ==
  /\ kind # "state"
  /\ pc = "idle"
  /\ Load # 0
  /\ primary' \in {0, primary}
  /\ committed' = 0
  /\ pc' = "delete"
  /\ UNCHANGED <<kind, backup, moved, version, crashes>>
  /\ Observe

\* ... then <path>.old
DeleteBackup ==
  /\ pc = "delete"
  /\ backup' \in {0, backup}
  /\ pc' = "idle"
  /\ UNCHANGED <<kind, primary, moved, version, committed, crashes>>
  /\ Observe

\* The writer's process ends between two steps; the operating system releases
\* the lock.  A temporary file it leaves has a random name no load looks at.
Crash ==
  /\ pc # "idle"
  /\ crashes < MaxCrashes
  /\ crashes' = crashes + 1
  /\ pc' = "idle"
  /\ UNCHANGED <<kind, primary, backup, moved, version, committed>>
  /\ Observe
-----------------------------------------------------------------------------
(* Loading without the lock. *)

\* Fault: a load prefers the backup.
ReadBackupFirst(r) ==
  /\ reader[r].at = "idle"
  /\ reader' = [reader EXCEPT ![r] = [at |-> "done", floor |-> Load,
                  got |-> IF backup # 0 THEN backup ELSE primary]]
  /\ UNCHANGED writerVars

ReadPrimary(r) ==
  /\ reader[r].at = "idle"
  /\ reader' = [reader EXCEPT ![r] =
       IF primary # 0
         THEN [at |-> "done", got |-> primary, floor |-> Load]
         ELSE [at |-> "backup", got |-> 0, floor |-> Load]]
  /\ UNCHANGED writerVars

ReadBackup(r) ==
  /\ reader[r].at = "backup"
  /\ reader' = [reader EXCEPT ![r].at = "done", ![r].got = backup]
  /\ UNCHANGED writerVars

Return(r) ==
  /\ reader[r].at = "done"
  /\ reader' = [reader EXCEPT ![r] = Resting]
  /\ UNCHANGED writerVars

Write ==
  \/ StartSave \/ RestoreBackup \/ RemoveBackup \/ MovePrimary
  \/ Publish \/ PublishFails \/ SaveFails \/ DropBackup
  \/ DeleteDirectory \/ DeletePrimary \/ DeleteBackup
  \/ Crash

Next ==
  \/ Write
  \/ \E r \in Readers : ReadPrimary(r) \/ ReadBackup(r) \/ Return(r)

Spec == Init /\ [][Next]_vars
-----------------------------------------------------------------------------
TypeOK ==
  /\ kind \in Kinds
  /\ primary \in Files /\ backup \in Files
  /\ pc \in Steps /\ moved \in BOOLEAN
  /\ version \in Files /\ committed \in Files
  /\ crashes \in 0..MaxCrashes
  /\ reader \in [Readers -> [at : {"idle", "backup", "done"}, got : Files,
                             floor : Files]]

\* A cursor whose save returned, or published before it crashed, is never lost:
\* whatever crashes and failed renames follow, a load returns that version or a
\* newer one until the consumer is deleted (inbox.load after inbox.save).
CursorSurvives == kind = "cursor" => Load >= committed

\* The same for the account state (state.Load after state.Save).
StateSurvives == kind = "state" => Load >= committed

\* A lock-free load that finds a record returns no version older than all those
\* that were current while it ran, although it reads <path> and <path>.old at
\* two moments and a save may move the one to the other in between.
LoadNeverStale ==
  \A r \in Readers :
    reader[r].at = "done" /\ reader[r].got # 0 => reader[r].got >= reader[r].floor

\* The record the two files of a cursor implement for a load.
Record == INSTANCE AtomicRecord
  WITH value <- IF kind = "cursor" THEN Load ELSE 0,
       deleting <- kind = "cursor" /\ pc = "delete"

\* The two files of a cursor implement one record that a save replaces in a
\* single step and that only a deletion takes back: no crash, failed rename or
\* failed removal of the backup makes an older version, or none, visible
\* (inbox.save, inbox.load).
ImplementsRecord == Record!Spec
=============================================================================
