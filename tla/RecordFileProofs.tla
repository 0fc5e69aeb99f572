-------------------------- MODULE RecordFileProofs --------------------------
(***************************************************************************)
(* Proofs about the commit protocol of RecordFile: for any set of readers  *)
(* and any number of saves, crashes and failed renames.                    *)
(***************************************************************************)
EXTENDS RecordFile, TLAPS

\* The states of a load.
Loads == [at : {"idle", "backup", "done"}, got : Files, floor : Files]

\* What a load under way may still return: the floor never exceeds the current
\* version, and a load that goes on to the backup finds it no older.
LoadInv ==
  \A r \in Readers :
    /\ reader[r].floor <= Load
    /\ reader[r].at = "backup" /\ backup # 0 => backup >= reader[r].floor
    /\ reader[r].at = "done" /\ reader[r].got # 0 => reader[r].got >= reader[r].floor

\* The files around each step of inbox.save and inbox.Delete: the version being
\* saved is newer than both files, the backup is older than the file, a save
\* that passed the restoring step has no record in the backup alone, and no
\* version is owed to a loader while a deletion runs.
FilesInv ==
  /\ primary <= version /\ backup <= version
  /\ primary # 0 /\ backup # 0 => backup < primary
  /\ pc \in {"restore", "remove", "move", "publish"} => primary < version /\ backup < version
  /\ pc \in {"remove", "move"} /\ primary = 0 => backup = 0
  /\ pc = "publish" => primary = 0
  /\ pc = "drop" => primary # 0
  /\ pc = "delete" => committed = 0
  /\ committed <= version
  /\ Load >= committed

CursorInv == kind = "cursor" => FilesInv
-----------------------------------------------------------------------------
LEMMA ZeroIsFile == 0 \in Files
  BY BoundAssumption DEF Files

LEMMA RestingIsLoad == Resting \in Loads
  BY ZeroIsFile DEF Resting, Loads

LEMMA WritersObserve == ASSUME Write PROVE Observe
  BY DEF Write, StartSave, RestoreBackup, RemoveBackup, MovePrimary, Publish,
     PublishFails, SaveFails, DropBackup, DeleteDirectory, DeletePrimary, DeleteBackup, Crash

LEMMA KindStays == ASSUME [Next]_vars PROVE kind' = kind
  BY DEF Next, vars, Write, StartSave, RestoreBackup, RemoveBackup, MovePrimary, Publish,
     PublishFails, SaveFails, DropBackup, DeleteDirectory, DeletePrimary, DeleteBackup, Crash,
     ReadPrimary, ReadBackup, Return, writerVars

\* Every step keeps the types.
LEMMA TypeCorrectStep == ASSUME TypeOK, [Next]_vars PROVE TypeOK'
<1>0. reader \in [Readers -> Loads]
  BY DEF TypeOK, Loads
<1>1. ASSUME Write PROVE TypeOK'
  <2>1. primary' \in Files /\ backup' \in Files /\ version' \in Files
        /\ committed' \in Files /\ crashes' \in 0..MaxCrashes
    BY <1>1, BoundAssumption, ZeroIsFile DEF TypeOK, Files, Write, StartSave,
       RestoreBackup, RemoveBackup, MovePrimary, Publish, PublishFails, SaveFails,
       DropBackup, DeleteDirectory, DeletePrimary, DeleteBackup, Crash
  <2>2. pc' \in Steps /\ moved' \in BOOLEAN
    BY <1>1 DEF TypeOK, Steps, Write, StartSave, RestoreBackup, RemoveBackup, MovePrimary,
       Publish, PublishFails, SaveFails, DropBackup, DeleteDirectory, DeletePrimary,
       DeleteBackup, Crash
  <2>3. Load' \in Files
    BY <2>1 DEF Load
  <2>4. ASSUME NEW r \in Readers PROVE reader'[r] \in Loads
    <3> DEFINE low == IF Load' < reader[r].floor THEN Load' ELSE reader[r].floor
    <3>1. reader[r] \in Loads
      BY <1>0
    <3>2. reader'[r] = [reader[r] EXCEPT !.floor = low]
      BY <1>1, WritersObserve DEF Observe
    <3>3. low \in Files
      BY <2>3, <3>1 DEF Loads
    <3> HIDE DEF low
    <3> QED
      BY <3>1, <3>2, <3>3 DEF Loads
  <2>5. reader' = [r \in Readers |-> reader'[r]]
    BY <1>1, WritersObserve DEF Observe
  <2>6. reader' \in [Readers -> Loads]
    BY <2>4, <2>5
  <2> QED
    BY <2>1, <2>2, <2>6, KindStays DEF TypeOK, Loads
<1>2. ASSUME NEW r \in Readers, ReadPrimary(r) \/ ReadBackup(r) \/ Return(r)
      PROVE TypeOK'
  <2>1. Load \in Files /\ primary \in Files /\ backup \in Files
    BY DEF TypeOK, Load
  <2>2. ASSUME NEW q \in Readers PROVE reader'[q] \in Loads
    <3>1. CASE ReadPrimary(r)
      BY <1>0, <2>1, <3>1, ZeroIsFile DEF ReadPrimary, Loads
    <3>2. CASE ReadBackup(r)
      BY <1>0, <2>1, <3>2 DEF ReadBackup, Loads
    <3>3. CASE Return(r)
      BY <1>0, <3>3, RestingIsLoad DEF Return
    <3> QED
      BY <1>2, <3>1, <3>2, <3>3
  <2>3. reader' \in [Readers -> Loads]
    BY <1>0, <1>2, <2>2 DEF ReadPrimary, ReadBackup, Return
  <2> QED
    BY <1>2, <2>3 DEF TypeOK, Loads, ReadPrimary, ReadBackup, Return, writerVars
<1>3. CASE UNCHANGED vars
  BY <1>3 DEF vars, TypeOK
<1> QED
  BY <1>1, <1>2, <1>3 DEF Next

\* The variables of RecordFile keep their types.
LEMMA TypeCorrect == Spec => []TypeOK
<1>1. Init => TypeOK
  <2> SUFFICES ASSUME Init PROVE TypeOK
    OBVIOUS
  <2>1. reader \in [Readers -> Loads]
    BY RestingIsLoad DEF Init
  <2>2. 0 \in 0..MaxCrashes
    BY BoundAssumption
  <2> QED
    BY <2>1, <2>2, ZeroIsFile DEF Init, TypeOK, Steps, Loads
<1>2. TypeOK /\ [Next]_vars => TypeOK'
  BY TypeCorrectStep
<1> QED
  BY <1>1, <1>2, PTL DEF Spec
-----------------------------------------------------------------------------
\* What the two files hold and what the loads have seen.  The n-th save writes
\* version n, so a version up to the counter is one some save has written.
Seen == {primary, backup, committed} \union {reader[r].got : r \in Readers}

\* Whatever is in a file or returned by a load is a version that a save wrote, and
\* what a save has not published yet is seen by nobody.
OnlyPublished ==
  /\ \A v \in Seen : v <= version
  /\ pc \in {"restore", "remove", "move", "publish"} => version # 0 /\ version \notin Seen

\* A version comes to be seen when the save that wrote it publishes it, and so never
\* once a later save has begun.
SeenByPublish == \A v \in Seen' \ Seen : v = 0 \/ (Publish /\ v = version)

\* Every step keeps the first and is as the second says.
LEMMA OnlyPublishedStep ==
  TypeOK /\ OnlyPublished /\ [Next]_vars => OnlyPublished' /\ (SeenByPublish \/ UNCHANGED vars)
<1> SUFFICES ASSUME TypeOK, OnlyPublished, [Next]_vars
             PROVE  OnlyPublished' /\ (SeenByPublish \/ UNCHANGED vars)
  OBVIOUS
<1>0. /\ version \in Nat /\ Seen \subseteq Nat /\ 0 <= version
      /\ \A v \in Seen : v <= version
      /\ pc \in {"restore", "remove", "move", "publish"} => version # 0 /\ version \notin Seen
      /\ primary \in Seen /\ backup \in Seen /\ committed \in Seen
      /\ \A r \in Readers : reader[r].got \in Seen
  BY DEF TypeOK, Files, Seen, OnlyPublished
<1>1. CASE Write
  <2>1. \A r \in Readers : reader'[r].got = reader[r].got
    <3> SUFFICES ASSUME NEW r \in Readers PROVE reader'[r].got = reader[r].got
      OBVIOUS
    <3>1. reader'[r] = [reader[r] EXCEPT !.floor = IF Load' < @ THEN Load' ELSE @]
      BY <1>1, WritersObserve DEF Observe
    <3> QED
      BY <3>1 DEF TypeOK
  <2>2. CASE StartSave
    <3>1. Seen' = Seen /\ version' = version + 1
      BY <2>1, <2>2 DEF StartSave, Seen
    <3> QED
      BY <1>0, <3>1 DEF OnlyPublished, SeenByPublish
  <2>3. CASE Publish
    <3>1. \A v \in Seen' : v \in Seen \/ v = version
      BY <2>1, <2>3 DEF Publish, Seen
    <3>2. version' = version /\ pc' \in {"drop", "idle"}
      BY <2>3 DEF Publish
    <3> QED
      <4>1. OnlyPublished'
        <5>1. \A v \in Seen' : v <= version'
          <6> SUFFICES ASSUME NEW v \in Seen' PROVE v <= version
            BY <3>2
          <6>1. version <= version
            BY <1>0
          <6> QED
            BY <1>0, <3>1, <6>1
        <5> QED
          BY <3>2, <5>1 DEF OnlyPublished
      <4>2. SeenByPublish
        BY <2>3, <3>1 DEF SeenByPublish
      <4> QED
        BY <4>1, <4>2
  <2>4. CASE ~StartSave /\ ~Publish
    <3>1. /\ primary' \in {0, primary, backup} /\ backup' \in {0, primary, backup}
          /\ committed' \in {0, committed} /\ version' = version
      BY <1>1, <2>4 DEF Write, RestoreBackup, RemoveBackup, MovePrimary, PublishFails,
         SaveFails, DropBackup, DeleteDirectory, DeletePrimary, DeleteBackup, Crash
    <3>2. \A v \in Seen' : v \in Seen \/ v = 0
      BY <2>1, <3>1 DEF Seen
    <3>3. pc' \in {"restore", "remove", "move", "publish"} =>
            pc \in {"restore", "remove", "move"}
      BY <1>1, <2>4 DEF Write, RestoreBackup, RemoveBackup, MovePrimary, PublishFails,
         SaveFails, DropBackup, DeleteDirectory, DeletePrimary, DeleteBackup, Crash
    <3> QED
      <4>1. OnlyPublished'
        BY <1>0, <3>1, <3>2, <3>3 DEF OnlyPublished
      <4>2. SeenByPublish
        BY <3>2 DEF SeenByPublish
      <4> QED
        BY <4>1, <4>2
  <2> QED
    BY <2>2, <2>3, <2>4
<1>2. ASSUME NEW r \in Readers, ReadPrimary(r) \/ ReadBackup(r) \/ Return(r)
      PROVE  OnlyPublished' /\ SeenByPublish
  <2>1. /\ UNCHANGED writerVars
        /\ \A q \in Readers : reader'[q].got \in Seen \/ reader'[q].got = 0
    BY <1>0, <1>2 DEF ReadPrimary, ReadBackup, Return, Resting, TypeOK
  <2>2. \A v \in Seen' : v \in Seen \/ v = 0
    BY <1>0, <2>1 DEF Seen, writerVars
  <2> QED
    <3>1. OnlyPublished'
      BY <1>0, <2>1, <2>2 DEF OnlyPublished, writerVars
    <3>2. SeenByPublish
      BY <2>2 DEF SeenByPublish
    <3> QED
      BY <3>1, <3>2
<1>3. CASE UNCHANGED vars
  BY <1>3 DEF vars, OnlyPublished, Seen
<1> QED
  BY <1>1, <1>2, <1>3 DEF Next

\* A record file never holds, and a load never returns, a version of a save that did
\* not publish it, nor one nobody wrote: for each of the three writers and whatever
\* renames and removals fail (state.Save, inbox.save, saveAcquisitionJSON).
THEOREM NothingUnpublished == Spec => []OnlyPublished /\ [][SeenByPublish]_vars
<1>1. Init => OnlyPublished
  BY BoundAssumption DEF Init, OnlyPublished, Seen, Resting
<1> QED
  BY <1>1, OnlyPublishedStep, TypeCorrect, PTL DEF Spec
-----------------------------------------------------------------------------
\* A step of a writer keeps LoadInv: whatever it does to the two files, the
\* backup afterwards is gone, unchanged, or the file a load would have returned.
LEMMA WriteKeepsLoadInv == ASSUME TypeOK, LoadInv, Write PROVE LoadInv'
<1>1. backup' = 0 \/ backup' = backup \/ (primary # 0 /\ backup' = primary)
  BY DEF Write, StartSave, RestoreBackup, RemoveBackup, MovePrimary, Publish,
     PublishFails, SaveFails, DropBackup, DeleteDirectory, DeletePrimary, DeleteBackup, Crash
<1>2. Load' \in Nat /\ backup' \in Nat /\ Load \in Nat /\ primary \in Nat /\ backup \in Nat
  BY TypeCorrectStep DEF TypeOK, Files, Load, Next
<1> SUFFICES ASSUME NEW r \in Readers
             PROVE /\ reader'[r].floor <= Load'
                   /\ reader'[r].at = "backup" /\ backup' # 0 => backup' >= reader'[r].floor
                   /\ reader'[r].at = "done" /\ reader'[r].got # 0
                        => reader'[r].got >= reader'[r].floor
  BY DEF LoadInv
<1>3. reader[r] \in Loads
  BY DEF TypeOK, Loads
<1> DEFINE low == IF Load' < reader[r].floor THEN Load' ELSE reader[r].floor
<1>4. reader'[r] = [reader[r] EXCEPT !.floor = low]
  BY WritersObserve DEF Observe
<1>5. /\ reader'[r].at = reader[r].at /\ reader'[r].got = reader[r].got
      /\ reader'[r].floor = low
  BY <1>3, <1>4 DEF Loads
<1>6. /\ reader[r].floor \in Nat /\ reader[r].got \in Nat
      /\ reader[r].floor <= Load
      /\ reader[r].at = "backup" /\ backup # 0 => backup >= reader[r].floor
      /\ reader[r].at = "done" /\ reader[r].got # 0 => reader[r].got >= reader[r].floor
  BY <1>3 DEF LoadInv, Loads, Files
<1>7. primary # 0 => primary = Load
  BY DEF Load
<1> QED
  BY <1>1, <1>2, <1>5, <1>6, <1>7

\* A step of a load keeps LoadInv.
LEMMA ReadKeepsLoadInv ==
  ASSUME TypeOK, LoadInv, NEW r \in Readers, ReadPrimary(r) \/ ReadBackup(r) \/ Return(r)
  PROVE  LoadInv'
<1>1. Load' = Load /\ backup' = backup
  BY DEF ReadPrimary, ReadBackup, Return, writerVars, Load
<1>2. Load \in Nat /\ backup \in Nat /\ primary \in Nat
  BY DEF TypeOK, Files, Load
<1>3. reader \in [Readers -> Loads]
  BY DEF TypeOK, Loads
<1> SUFFICES ASSUME NEW q \in Readers
             PROVE /\ reader'[q].floor <= Load
                   /\ reader'[q].at = "backup" /\ backup # 0 => backup >= reader'[q].floor
                   /\ reader'[q].at = "done" /\ reader'[q].got # 0
                        => reader'[q].got >= reader'[q].floor
  BY <1>1 DEF LoadInv
<1>4. CASE q # r
  BY <1>3, <1>4 DEF LoadInv, ReadPrimary, ReadBackup, Return
<1>5. CASE q = r /\ ReadPrimary(r)
  BY <1>2, <1>3, <1>5 DEF ReadPrimary, Load
<1>6. CASE q = r /\ ReadBackup(r)
  <2>1. /\ reader'[r].at = "done" /\ reader'[r].got = backup
        /\ reader'[r].floor = reader[r].floor
    BY <1>3, <1>6 DEF ReadBackup, Loads
  <2> QED
    BY <1>6, <2>1 DEF LoadInv, ReadBackup
<1>7. CASE q = r /\ Return(r)
  BY <1>2, <1>3, <1>7 DEF Return, Resting
<1> QED
  BY <1>4, <1>5, <1>6, <1>7

\* A load returns no version older than all those that were current while it
\* ran (Load of state.go and inbox.go), for each of the three writers.
THEOREM NeverStale == Spec => []LoadNeverStale
<1>1. Init => LoadInv
  BY DEF Init, LoadInv, Resting, Load
<1>2. TypeOK /\ LoadInv /\ [Next]_vars => LoadInv'
  <2> SUFFICES ASSUME TypeOK, LoadInv, [Next]_vars PROVE LoadInv'
    OBVIOUS
  <2>1. CASE UNCHANGED vars
    BY <2>1 DEF vars, LoadInv, Load
  <2> QED
    BY <2>1, WriteKeepsLoadInv, ReadKeepsLoadInv DEF Next
<1>3. LoadInv => LoadNeverStale
  BY DEF LoadInv, LoadNeverStale
<1> QED
  BY <1>1, <1>2, <1>3, TypeCorrect, PTL DEF Spec
-----------------------------------------------------------------------------
\* Every step of inbox.save and inbox.Delete keeps FilesInv.
LEMMA WriteKeepsFilesInv ==
  ASSUME kind = "cursor", TypeOK, FilesInv, Write PROVE FilesInv'
<1>1. /\ primary \in Nat /\ backup \in Nat /\ version \in Nat /\ committed \in Nat
  BY DEF TypeOK, Files
<1>2. CASE StartSave
  BY <1>1, <1>2 DEF StartSave, FilesInv, Load
<1>3. CASE RestoreBackup
  BY <1>1, <1>3 DEF RestoreBackup, FilesInv, Load
<1>4. CASE RemoveBackup
  BY <1>1, <1>4 DEF RemoveBackup, FilesInv, Load
<1>5. CASE MovePrimary
  BY <1>1, <1>5 DEF MovePrimary, FilesInv, Load
<1>6. CASE Publish
  BY <1>1, <1>6 DEF Publish, FilesInv, Load
<1>7. CASE PublishFails
  BY <1>1, <1>7 DEF PublishFails, FilesInv, Load
<1>8. CASE SaveFails
  BY <1>1, <1>8 DEF SaveFails, FilesInv, Load
<1>9. CASE DropBackup
  BY <1>1, <1>9 DEF DropBackup, FilesInv, Load
<1>10. CASE DeletePrimary
  BY <1>1, <1>10 DEF DeletePrimary, FilesInv, Load
<1>11. CASE DeleteBackup
  BY <1>1, <1>11 DEF DeleteBackup, FilesInv, Load
<1>12. CASE Crash
  BY <1>1, <1>12 DEF Crash, FilesInv, Load
<1>13. ~DeleteDirectory
  BY DEF DeleteDirectory
<1> QED
  BY <1>2, <1>3, <1>4, <1>5, <1>6, <1>7, <1>8, <1>9, <1>10, <1>11, <1>12, <1>13 DEF Write

\* The same of any step, and CursorInv is an invariant.
LEMMA CursorInvariant == Spec => []CursorInv
<1>1. Init => CursorInv
  BY DEF Init, CursorInv, FilesInv, Load
<1>2. TypeOK /\ CursorInv /\ [Next]_vars => CursorInv'
  <2> SUFFICES ASSUME TypeOK, CursorInv, [Next]_vars, kind = "cursor" PROVE FilesInv'
    BY KindStays DEF CursorInv
  <2>1. FilesInv
    BY DEF CursorInv
  <2>2. CASE UNCHANGED writerVars
    BY <2>1, <2>2 DEF writerVars, FilesInv, Load
  <2>3. Write \/ UNCHANGED writerVars
    BY DEF Next, ReadPrimary, ReadBackup, Return, vars, writerVars
  <2> QED
    BY <2>1, <2>2, <2>3, WriteKeepsFilesInv
<1> QED
  BY <1>1, <1>2, TypeCorrect, PTL DEF Spec

\* A consumer cursor that was saved survives every crash and failed rename until
\* it is deleted (inbox.save, inbox.load).
THEOREM CursorNeverLost == Spec => []CursorSurvives
<1>1. CursorInv => CursorSurvives
  BY DEF CursorInv, FilesInv, CursorSurvives
<1> QED
  BY <1>1, CursorInvariant, PTL
-----------------------------------------------------------------------------
\* A step of a cursor's writer is a save, a deletion or a stutter of the
\* abstract record.
LEMMA WriteRefines ==
  ASSUME kind = "cursor", TypeOK, FilesInv, Write
  PROVE  [Record!Next]_(Record!vars)
<1>0. kind' = "cursor"
  BY KindStays DEF Next
<1>1. /\ primary \in Nat /\ backup \in Nat /\ version \in Nat /\ committed \in Nat
      /\ Load \in Nat
  BY DEF TypeOK, Files, Load
<1>2. CASE Publish
  <2>1. Load' > Load /\ Load' \in Nat
    BY <1>1, <1>2 DEF Publish, FilesInv, Load
  <2>2. pc # "delete" /\ pc' # "delete"
    BY <1>2 DEF Publish
  <2> QED
    BY <1>0, <2>1, <2>2 DEF Record!Next, Record!Save
<1>3. CASE DeletePrimary \/ DeleteBackup \/ (Crash /\ pc = "delete")
  <2>1. Load' <= Load /\ Load' \in Nat
    BY <1>1, <1>3 DEF DeletePrimary, DeleteBackup, Crash, FilesInv, Load
  <2>2. pc = "delete" \/ pc' = "delete"
    BY <1>3 DEF DeletePrimary, DeleteBackup
  <2>3. (pc = "delete")' \in BOOLEAN
    OBVIOUS
  <2> QED
    BY <1>0, <2>1, <2>2, <2>3 DEF Record!Next, Record!Forget
<1>4. CASE ~Publish /\ ~(DeletePrimary \/ DeleteBackup \/ (Crash /\ pc = "delete"))
  <2>1. Load' = Load
    BY <1>1, <1>4 DEF Write, StartSave, RestoreBackup, RemoveBackup, MovePrimary,
       PublishFails, SaveFails, DropBackup, DeleteDirectory, Crash, FilesInv, Load
  <2>2. (pc = "delete") = (pc' = "delete")
    BY <1>4 DEF Write, StartSave, RestoreBackup, RemoveBackup, MovePrimary,
       PublishFails, SaveFails, DropBackup, DeleteDirectory, Crash
  <2> QED
    BY <1>0, <2>1, <2>2 DEF Record!vars
<1> QED
  BY <1>2, <1>3, <1>4

\* The two files of a consumer cursor implement one record that a save replaces
\* in a single step and only a deletion takes back (inbox.save, inbox.load).
THEOREM CursorImplementsRecord == Spec => ImplementsRecord
<1>1. Init => Record!Init
  BY DEF Init, Record!Init, Load
<1>2. TypeOK /\ CursorInv /\ [Next]_vars => [Record!Next]_(Record!vars)
  <2> SUFFICES ASSUME TypeOK, CursorInv, [Next]_vars
               PROVE  [Record!Next]_(Record!vars)
    OBVIOUS
  <2>1. CASE UNCHANGED writerVars
    BY <2>1 DEF writerVars, Record!vars, Load
  <2>2. CASE kind # "cursor"
    BY <2>2, KindStays DEF Record!vars
  <2>3. CASE kind = "cursor" /\ Write
    BY <2>3, WriteRefines DEF CursorInv
  <2>4. Write \/ UNCHANGED writerVars
    BY DEF Next, ReadPrimary, ReadBackup, Return, vars, writerVars
  <2> QED
    BY <2>1, <2>2, <2>3, <2>4
<1> QED
  BY <1>1, <1>2, TypeCorrect, CursorInvariant, PTL DEF Spec, ImplementsRecord, Record!Spec
=============================================================================
