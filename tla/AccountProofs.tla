---------------------------- MODULE AccountProofs ----------------------------
(***************************************************************************)
(* Proofs for Account: the credentials in the keychain, for any number of  *)
(* chunks, saves, failing calls and crashes, and what is saved of them,    *)
(* for any databases and epochs, and the copies of WeChat's files, for any *)
(* pages, writes and checkpoints.  v1 to v5 are the manifest, the chunks,  *)
(* the writer, the version and the result in the first part.               *)
(***************************************************************************)
EXTENDS Account, FiniteSetTheorems, SequenceTheorems, WellFoundedInduction, TLAPS

\* Chunks are at places of their slot, and the slots have none in common.
LEMMA PlacesOfSlots ==
  /\ Secrets!Places = Secrets!In("a") \union Secrets!In("b")
  /\ \A s, t \in Secrets!Slots : s # t => Secrets!In(s) \intersect Secrets!In(t) = {}
  /\ \A s \in Secrets!Slots : Secrets!In(s) \subseteq Secrets!Places
  /\ \A s \in Secrets!Slots, n \in 0..MaxChunks : Secrets!First(s, n) \subseteq Secrets!In(s)
BY ChunksAssumption DEF Secrets!Places, Secrets!Slots, Secrets!In, Secrets!First,
   Secrets!Indexes

\* That there is no manifest is a value of its variable.
LEMMA NoManifestType == Secrets!NoManifest \in Secrets!Manifests
BY BoundsAssumption, ChunksAssumption
   DEF Secrets!NoManifest, Secrets!Manifests, Secrets!Versions, Secrets!Slots

\* The invariant holds at first.
LEMMA SecretsInit == Secrets!Init => Secrets!Inv
<1> SUFFICES ASSUME Secrets!Init PROVE Secrets!Inv
  OBVIOUS
<1> USE DEF Secrets!Init
<1>1. v3.at = "idle" /\ v5 = "none"
  BY DEF Secrets!NoWriter
<1>2. Secrets!TypeOK
  <2>1. v1 \in Secrets!Manifests
    <3>1. 1 \in Secrets!Versions /\ 0 \in 0..MaxChunks
      BY BoundsAssumption, ChunksAssumption DEF Secrets!Versions
    <3>2. Secrets!Single(1) \in Secrets!Manifests
      BY <3>1 DEF Secrets!Single, Secrets!Manifests
    <3> QED
      BY <3>2, NoManifestType
  <2>2. v2 \in [Secrets!Places -> Secrets!Versions]
    BY BoundsAssumption DEF Secrets!Versions
  <2>3. v3 \in [at : {"idle", "clean", "write", "undo", "tidy", "erase"},
                slot : Secrets!Slots \union {"none"}, old : Secrets!Slots \union {"none"},
                count : 0..MaxChunks, todo : SUBSET Secrets!Places, failed : BOOLEAN]
    <3>1. 0 \in 0..MaxChunks /\ FALSE \in BOOLEAN /\ {} \in SUBSET Secrets!Places
      BY ChunksAssumption
    <3> QED
      BY <3>1 DEF Secrets!NoWriter
  <2>4. v4 \in Secrets!Versions
    BY <2>1 DEF Secrets!Manifests
  <2>5. v6 \in [Readers -> [at : {"idle", "chunks", "done"}, manifest : Secrets!Manifests,
                            next : Secrets!Indexes, got : Secrets!Versions]]
    BY NoManifestType, BoundsAssumption, ChunksAssumption
       DEF Secrets!Resting, Secrets!Indexes, Secrets!Versions
  <2>6. v7 \in 0..MaxFailures /\ v8 \in 0..MaxCrashes
    BY BoundsAssumption
  <2> QED
    BY <2>1, <2>2, <2>3, <2>4, <2>5, <2>6 DEF Secrets!TypeOK
<1>3. Secrets!ManifestInv
  <2>1. CASE v1 = Secrets!NoManifest
    BY <2>1 DEF Secrets!ManifestInv, Secrets!NoManifest
  <2>2. CASE v1 = Secrets!Single(1)
    <3>1. v1.kind = "single" /\ v1.slot = "none" /\ v1.bundle = 1
      BY <2>2 DEF Secrets!Single
    <3>2. v4 = 1
      BY <3>1
    <3> QED
      BY <3>1, <3>2 DEF Secrets!ManifestInv
  <2> QED
    BY <2>1, <2>2
<1> QED
  BY <1>1, <1>2, <1>3
     DEF Secrets!Inv, Secrets!SaveInv, Secrets!TidyInv, Secrets!EraseInv, Secrets!NoForeignChunk

\* Every step keeps the types.
LEMMA SecretsTypes == ASSUME Secrets!Inv, Secrets!Next PROVE Secrets!TypeOK'
<1> DEFINE Writers == [at : {"idle", "clean", "write", "undo", "tidy", "erase"},
                       slot : Secrets!Slots \union {"none"}, old : Secrets!Slots \union {"none"},
                       count : 0..MaxChunks, todo : SUBSET Secrets!Places, failed : BOOLEAN]
           Loads == [at : {"idle", "chunks", "done"}, manifest : Secrets!Manifests,
                     next : Secrets!Indexes, got : Secrets!Versions]
<1>0. /\ v1 \in Secrets!Manifests /\ v2 \in [Secrets!Places -> Secrets!Versions]
      /\ v3 \in Writers /\ v4 \in Secrets!Versions /\ v5 \in {"none", "ok", "residue", "failed"}
      /\ v6 \in [Readers -> Loads] /\ v7 \in 0..MaxFailures /\ v8 \in 0..MaxCrashes
  BY DEF Secrets!Inv, Secrets!TypeOK
<1>1. Secrets!NoWriter \in Writers
  <2>1. 0 \in 0..MaxChunks /\ FALSE \in BOOLEAN /\ {} \in SUBSET Secrets!Places
    BY ChunksAssumption
  <2> QED
    BY <2>1 DEF Secrets!NoWriter
<1>2. v7' \in 0..MaxFailures /\ v8' \in 0..MaxCrashes
  <2>1. v7' \in {v7, v7 + 1} /\ (v7' # v7 => v7 < MaxFailures)
    BY DEF Secrets!Next, Secrets!Fails, Secrets!StartSave,
       Secrets!DeleteChunk, Secrets!StartWrite, Secrets!WriteChunk, Secrets!SetManifest,
       Secrets!EndSave, Secrets!DeleteManifest, Secrets!EndDelete, Secrets!Crash,
       Secrets!ReadManifest, Secrets!ReadChunk, Secrets!Return
  <2>2. v8' \in {v8, v8 + 1} /\ (v8' # v8 => v8 < MaxCrashes)
    BY DEF Secrets!Next, Secrets!StartSave,
       Secrets!DeleteChunk, Secrets!StartWrite, Secrets!WriteChunk, Secrets!SetManifest,
       Secrets!EndSave, Secrets!DeleteManifest, Secrets!EndDelete, Secrets!Crash,
       Secrets!ReadManifest, Secrets!ReadChunk, Secrets!Return
  <2> QED
    BY <1>0, <2>1, <2>2, BoundsAssumption
<1>3. v4' \in Secrets!Versions
  <2>1. v4' \in {v4, v4 + 1} /\ (v4' # v4 => v4 < MaxVersion)
    BY DEF Secrets!Next, Secrets!StartSave,
       Secrets!DeleteChunk, Secrets!StartWrite, Secrets!WriteChunk, Secrets!SetManifest,
       Secrets!EndSave, Secrets!DeleteManifest, Secrets!EndDelete, Secrets!Crash,
       Secrets!ReadManifest, Secrets!ReadChunk, Secrets!Return
  <2> QED
    BY <1>0, <2>1, BoundsAssumption DEF Secrets!Versions
<1>4. v5' \in {"none", "ok", "residue", "failed"}
  BY <1>0 DEF Secrets!Next, Secrets!StartSave, Secrets!Finish,
     Secrets!DeleteChunk, Secrets!StartWrite, Secrets!WriteChunk, Secrets!SetManifest,
     Secrets!EndSave, Secrets!DeleteManifest, Secrets!EndDelete, Secrets!Crash,
     Secrets!ReadManifest, Secrets!ReadChunk, Secrets!Return
<1>5. v2' \in [Secrets!Places -> Secrets!Versions]
  <2>1. 0 \in Secrets!Versions
    BY BoundsAssumption DEF Secrets!Versions
  <2> QED
    BY <1>0, <2>1 DEF Secrets!Next, Secrets!StartSave,
       Secrets!DeleteChunk, Secrets!StartWrite, Secrets!WriteChunk, Secrets!SetManifest,
       Secrets!EndSave, Secrets!DeleteManifest, Secrets!EndDelete, Secrets!Crash,
       Secrets!ReadManifest, Secrets!ReadChunk, Secrets!Return
<1>6. v1' \in Secrets!Manifests
  <2>1. CASE Secrets!SetManifest
    <3>1. Secrets!Switched(v3.slot, v3.count, v4) \in Secrets!Manifests
      BY <1>0 DEF Secrets!Switched, Secrets!Manifests
    <3> QED
      BY <1>0, <2>1, <3>1 DEF Secrets!SetManifest
  <2>2. CASE v1' = Secrets!NoManifest \/ UNCHANGED v1
    BY <1>0, <2>2, NoManifestType
  <2> QED
    BY <2>1, <2>2 DEF Secrets!Next, Secrets!StartSave,
       Secrets!DeleteChunk, Secrets!StartWrite, Secrets!WriteChunk,
       Secrets!EndSave, Secrets!DeleteManifest, Secrets!EndDelete, Secrets!Crash,
       Secrets!ReadManifest, Secrets!ReadChunk, Secrets!Return
<1>7. v3' \in Writers
  <2>1. CASE Secrets!StartSave
    <3>1. PICK n \in 1..MaxChunks, s \in Secrets!Slots, o \in Secrets!Slots \union {"none"},
               todo \in SUBSET Secrets!Places :
            v3' = [Secrets!NoWriter EXCEPT !.at = "clean", !.slot = s, !.old = o, !.count = n,
                                           !.todo = todo]
      <4>1. Secrets!In("a") \subseteq Secrets!Places /\ Secrets!In("b") \subseteq Secrets!Places
        BY PlacesOfSlots
      <4> QED
        <5>1. PICK n \in 1..MaxChunks :
                v3' = [Secrets!NoWriter EXCEPT
                  !.at = "clean", !.slot = IF v1.slot = "a" THEN "b" ELSE "a", !.old = v1.slot,
                  !.count = n,
                  !.todo = IF v1.slot = "none" THEN Secrets!Places
                           ELSE Secrets!In(IF v1.slot = "a" THEN "b" ELSE "a")]
          BY <2>1 DEF Secrets!StartSave
        <5>2. PICK o \in Secrets!Slots \union {"none"} : o = v1.slot
          BY <1>0 DEF Secrets!Manifests
        <5>3. PICK s \in Secrets!Slots : s = IF o = "a" THEN "b" ELSE "a"
          BY DEF Secrets!Slots
        <5>4. PICK todo \in SUBSET Secrets!Places :
                todo = IF o = "none" THEN Secrets!Places ELSE Secrets!In(s)
          BY <4>1, <5>3
        <5> QED
          BY <5>1, <5>2, <5>3, <5>4
    <3>2. n \in 0..MaxChunks
      BY ChunksAssumption
    <3> QED
      BY <1>1, <3>1, <3>2
  <2>2. CASE Secrets!DeleteChunk
    <3>1. PICK place : \/ v3' = [v3 EXCEPT !.todo = @ \ {place}]
                       \/ v3' = [v3 EXCEPT !.todo = @ \ {place}, !.failed = TRUE]
      BY <2>2 DEF Secrets!DeleteChunk
    <3>2. v3.todo \ {place} \in SUBSET Secrets!Places /\ TRUE \in BOOLEAN
      BY <1>0
    <3> QED
      BY <1>0, <3>1, <3>2
  <2>3. CASE Secrets!StartWrite \/ Secrets!WriteChunk \/ Secrets!SetManifest
    <3>1. v3.slot \in Secrets!Slots /\ v3.count \in 0..MaxChunks
      BY <1>0, <2>3 DEF Secrets!Inv, Secrets!SaveInv, Secrets!StartWrite, Secrets!WriteChunk,
         Secrets!SetManifest
    <3>2. PICK at \in {"write", "undo", "tidy"} :
            \/ v3' = Secrets!NoWriter
            \/ v3' = [v3 EXCEPT !.todo = v3'.todo]
            \/ v3' = [v3 EXCEPT !.at = at, !.todo = v3'.todo]
      BY <1>0, <2>3 DEF Secrets!StartWrite, Secrets!WriteChunk, Secrets!SetManifest,
         Secrets!Finish
    <3>3. v3'.todo \in SUBSET Secrets!Places
      <4>1. Secrets!First(v3.slot, v3.count) \subseteq Secrets!Places
        BY <3>1, PlacesOfSlots
      <4>2. ASSUME NEW place \in Secrets!Places
            PROVE  Secrets!First(v3.slot, place[2]) \subseteq Secrets!Places
        BY <3>1, ChunksAssumption
           DEF Secrets!Places, Secrets!First, Secrets!Indexes
      <4>3. v3.old \in Secrets!Slots => Secrets!In(v3.old) \subseteq Secrets!Places
        BY PlacesOfSlots
      <4>4. CASE Secrets!StartWrite
        <5>1. \/ v3' = Secrets!NoWriter
              \/ v3' = [v3 EXCEPT !.at = "write", !.todo = Secrets!First(v3.slot, v3.count)]
          BY <4>4 DEF Secrets!StartWrite, Secrets!Finish
        <5>2. Secrets!NoWriter.todo = {}
          BY DEF Secrets!NoWriter
        <5> QED
          BY <1>0, <4>1, <5>1, <5>2
      <4>5. CASE Secrets!WriteChunk
        <5>1. PICK place \in v3.todo :
                \/ v3' = [v3 EXCEPT !.todo = @ \ {place}]
                \/ v3' = [v3 EXCEPT !.at = "undo", !.todo = Secrets!First(v3.slot, place[2])]
          BY <4>5 DEF Secrets!WriteChunk
        <5>2. place \in Secrets!Places
          BY <1>0
        <5> QED
          BY <1>0, <4>2, <5>1, <5>2
      <4>6. CASE Secrets!SetManifest
        BY <1>0, <4>1, <4>3, <4>6 DEF Secrets!SetManifest
      <4> QED
        BY <2>3, <4>4, <4>5, <4>6
    <3> QED
      BY <1>0, <1>1, <3>2, <3>3
  <2>4. CASE Secrets!DeleteManifest
    BY <1>1, <2>4 DEF Secrets!DeleteManifest
  <2>5. CASE v3' = Secrets!NoWriter \/ UNCHANGED v3
    BY <1>0, <1>1, <2>5
  <2> QED
    BY <2>1, <2>2, <2>3, <2>4, <2>5 DEF Secrets!Next, Secrets!Finish,
       Secrets!EndSave, Secrets!EndDelete, Secrets!Crash,
       Secrets!ReadManifest, Secrets!ReadChunk, Secrets!Return
<1>8. v6' \in [Readers -> Loads]
  <2>1. Secrets!Resting \in Loads
    BY NoManifestType, ChunksAssumption, BoundsAssumption
       DEF Secrets!Resting, Secrets!Indexes, Secrets!Versions
  <2>2. ASSUME NEW r \in Readers, Secrets!ReadManifest(r) PROVE v6' \in [Readers -> Loads]
    <3>1. v1.bundle \in Secrets!Versions /\ 0 \in Secrets!Versions /\ 0 \in Secrets!Indexes
      BY <1>0, BoundsAssumption, ChunksAssumption
         DEF Secrets!Manifests, Secrets!Indexes, Secrets!Versions
    <3>2. PICK at \in {"chunks", "done"}, got \in Secrets!Versions :
            v6' = [v6 EXCEPT ![r] = [at |-> at, manifest |-> v1, next |-> 0, got |-> got]]
      BY <2>2, <3>1 DEF Secrets!ReadManifest
    <3> QED
      BY <1>0, <3>1, <3>2
  <2>3. ASSUME NEW r \in Readers, Secrets!ReadChunk(r) PROVE v6' \in [Readers -> Loads]
    <3> DEFINE m == v6[r].manifest
    <3>1. v6[r] \in Loads /\ m \in Secrets!Manifests /\ v6[r].next \in Secrets!Indexes
      BY <1>0
    <3>2. ASSUME NEW bundle \in Secrets!Versions, Secrets!Answer(r, bundle)
          PROVE  v6' \in [Readers -> Loads]
      <4>1. [v6[r] EXCEPT !.at = "done", !.got = bundle] \in Loads
        BY <3>1
      <4> QED
        BY <1>0, <3>2, <4>1 DEF Secrets!Answer
    <3>3. ASSUME v6[r].next + 1 < m.count, v6' = [v6 EXCEPT ![r].next = @ + 1]
          PROVE  v6' \in [Readers -> Loads]
      <4>1. v6[r].next + 1 \in Secrets!Indexes
        BY <3>1, <3>3, ChunksAssumption DEF Secrets!Manifests, Secrets!Indexes
      <4>2. [v6[r] EXCEPT !.next = v6[r].next + 1] \in Loads
        BY <3>1, <4>1
      <4> QED
        BY <1>0, <3>3, <4>2
    <3>4. m.bundle \in Secrets!Versions /\ 0 \in Secrets!Versions
      BY <3>1, BoundsAssumption DEF Secrets!Manifests, Secrets!Versions
    <3> QED
      BY <2>3, <3>2, <3>3, <3>4 DEF Secrets!ReadChunk
  <2>4. ASSUME NEW r \in Readers, Secrets!Return(r) PROVE v6' \in [Readers -> Loads]
    BY <1>0, <2>1, <2>4 DEF Secrets!Return
  <2> QED
    BY <1>0, <2>2, <2>3, <2>4 DEF Secrets!Next, Secrets!StartSave,
       Secrets!DeleteChunk, Secrets!StartWrite, Secrets!WriteChunk, Secrets!SetManifest,
       Secrets!EndSave, Secrets!DeleteManifest, Secrets!EndDelete, Secrets!Crash
<1> QED
  BY <1>2, <1>3, <1>4, <1>5, <1>6, <1>7, <1>8 DEF Secrets!TypeOK

\* The bundle the manifest names was saved, and the chunks it names are in its slot.
LEMMA NamedPlaces ==
  ASSUME Secrets!TypeOK, Secrets!ManifestInv
  PROVE  /\ v1.bundle \in 0..v4
         /\ Secrets!Named(v1) \subseteq Secrets!Places
         /\ v1.kind = "slots" <=> v1.slot \in Secrets!Slots
<1>1. v1 \in Secrets!Manifests /\ v4 \in Nat
  BY DEF Secrets!TypeOK, Secrets!Versions
<1>2. CASE v1.kind = "none"
  BY <1>1, <1>2 DEF Secrets!ManifestInv, Secrets!NoManifest, Secrets!Named, Secrets!Slots
<1>3. CASE v1.kind = "single"
  BY <1>1, <1>3 DEF Secrets!ManifestInv, Secrets!Named, Secrets!Slots
<1>4. CASE v1.kind = "slots"
  <2>1. v1.slot \in Secrets!Slots /\ v1.count \in 0..MaxChunks
    BY <1>1, <1>4 DEF Secrets!ManifestInv, Secrets!Manifests
  <2> QED
    BY <1>1, <1>4, <2>1, PlacesOfSlots DEF Secrets!ManifestInv, Secrets!Named
<1> QED
  BY <1>1, <1>2, <1>3, <1>4 DEF Secrets!Manifests

\* A save that begins works in the slot the manifest does not name.
LEMMA StartSaveStep == ASSUME Secrets!Inv, Secrets!StartSave PROVE Secrets!Inv'
<1> DEFINE other == IF v1.slot = "a" THEN "b" ELSE "a"
<1>1. Secrets!TypeOK'
  BY SecretsTypes DEF Secrets!Next
<1>2. PICK n \in 1..MaxChunks :
        v3' = [Secrets!NoWriter EXCEPT !.at = "clean", !.slot = other, !.old = v1.slot, !.count = n,
                 !.todo = IF v1.slot = "none" THEN Secrets!Places ELSE Secrets!In(other)]
  BY DEF Secrets!StartSave
<1>3. /\ v3'.at = "clean" /\ v3'.slot = other /\ v3'.old = v1.slot /\ v3'.count = n
      /\ v3'.todo = IF v1.slot = "none" THEN Secrets!Places ELSE Secrets!In(other)
  BY <1>2 DEF Secrets!NoWriter
<1>4. v4' = v4 + 1 /\ UNCHANGED <<v1, v2>> /\ v4 \in Nat
  BY DEF Secrets!StartSave, Secrets!Inv, Secrets!TypeOK, Secrets!Versions
<1>5. v1.bundle \in 0..v4
  BY NamedPlaces DEF Secrets!Inv
<1>6. Secrets!ManifestInv'
  BY <1>4 DEF Secrets!Inv, Secrets!ManifestInv
<1>7. Secrets!SaveInv'
  <2>1. other \in Secrets!Slots \ {v1.slot}
    BY DEF Secrets!Slots
  <2>2. Secrets!Cleaned' = v3'.todo
    BY <1>3 DEF Secrets!Cleaned
  <2>3. v1.bundle < v4'
    BY <1>4, <1>5
  <2> QED
    BY <1>3, <1>4, <2>1, <2>2, <2>3 DEF Secrets!SaveInv
<1> QED
  BY <1>1, <1>3, <1>6, <1>7 DEF Secrets!Inv, Secrets!TidyInv, Secrets!EraseInv,
     Secrets!NoForeignChunk

\* What a save or a deletion takes away is not named by the manifest, unless that is gone.
LEMMA DeleteChunkStep == ASSUME Secrets!Inv, Secrets!DeleteChunk PROVE Secrets!Inv'
<1>1. Secrets!TypeOK' /\ Secrets!TypeOK
  BY SecretsTypes DEF Secrets!Next, Secrets!Inv
<1>2. PICK place \in v3.todo :
        /\ v2' \in {v2, [v2 EXCEPT ![place] = 0]}
        /\ \/ v3' = [v3 EXCEPT !.todo = @ \ {place}] /\ v2' = [v2 EXCEPT ![place] = 0]
           \/ v3' = [v3 EXCEPT !.todo = @ \ {place}, !.failed = TRUE]
  BY DEF Secrets!DeleteChunk
<1>3. /\ v3'.at = v3.at /\ v3'.slot = v3.slot /\ v3'.old = v3.old /\ v3'.count = v3.count
      /\ v3'.todo = v3.todo \ {place}
      /\ ~v3'.failed => ~v3.failed /\ v2' = [v2 EXCEPT ![place] = 0]
  BY <1>1, <1>2 DEF Secrets!TypeOK
<1>4. /\ v3.at \in {"clean", "undo", "tidy", "erase"} /\ UNCHANGED <<v1, v4>>
      /\ place \in Secrets!Places /\ v2 \in [Secrets!Places -> Secrets!Versions]
  BY <1>1 DEF Secrets!DeleteChunk, Secrets!TypeOK
<1>5. \A p \in Secrets!Places : p # place => v2'[p] = v2[p]
  BY <1>2, <1>4
<1>6. ~v3'.failed => v2'[place] = 0
  BY <1>3, <1>4
<1>7. Secrets!ManifestInv' /\ v3'.at # "idle"
  BY <1>3, <1>4 DEF Secrets!Inv, Secrets!ManifestInv
<1>8. Secrets!SaveInv'
  <2>1. Secrets!Cleaned' = Secrets!Cleaned
    BY <1>3 DEF Secrets!Cleaned
  <2>2. Secrets!Cleaned \subseteq Secrets!Places \/ v3.at \notin {"clean", "undo"}
    BY PlacesOfSlots DEF Secrets!Cleaned, Secrets!Inv, Secrets!SaveInv
  <2> QED
    BY <1>3, <1>4, <1>5, <1>6, <2>1, <2>2 DEF Secrets!Inv, Secrets!SaveInv
<1>9. Secrets!TidyInv'
  <2> SUFFICES ASSUME v3.at = "tidy" PROVE Secrets!TidyInv'
    BY <1>3 DEF Secrets!TidyInv
  <2>1. /\ v3.slot \in Secrets!Slots /\ v3.count \in 1..MaxChunks
        /\ v1 = Secrets!Switched(v3.slot, v3.count, v4) /\ Secrets!Whole
        /\ v3.todo \intersect Secrets!In(v3.slot) = {}
    BY DEF Secrets!Inv, Secrets!TidyInv
  <2>2. Secrets!Named(v1) \subseteq Secrets!In(v3.slot) /\ Secrets!Named(v1) \subseteq Secrets!Places
    BY <2>1, PlacesOfSlots DEF Secrets!Named, Secrets!Switched
  <2>3. Secrets!Whole'
    BY <1>4, <1>5, <2>1, <2>2 DEF Secrets!Whole
  <2> QED
    BY <1>3, <1>4, <1>5, <1>6, <2>1, <2>2, <2>3 DEF Secrets!Inv, Secrets!TidyInv
<1>10. Secrets!EraseInv'
  BY <1>3, <1>4, <1>5, <1>6 DEF Secrets!Inv, Secrets!EraseInv
<1> QED
  BY <1>1, <1>7, <1>8, <1>9, <1>10 DEF Secrets!Inv, Secrets!NoForeignChunk

\* Chunks are written over what was cleaned.
LEMMA WriteStep ==
  ASSUME Secrets!Inv, Secrets!StartWrite \/ Secrets!WriteChunk
  PROVE  Secrets!Inv'
<1> DEFINE own == Secrets!First(v3.slot, v3.count)
<1>1. Secrets!TypeOK' /\ Secrets!TypeOK
  BY SecretsTypes DEF Secrets!Next, Secrets!Inv
<1>2. /\ v3.at \in {"clean", "write"} /\ UNCHANGED <<v1, v4>>
      /\ v2 \in [Secrets!Places -> Secrets!Versions]
  BY <1>1 DEF Secrets!StartWrite, Secrets!WriteChunk, Secrets!TypeOK
<1>3. /\ v3.old = v1.slot /\ v3.slot \in Secrets!Slots \ {v1.slot}
      /\ v3.count \in 1..MaxChunks /\ v1.bundle < v4
  BY <1>2 DEF Secrets!Inv, Secrets!SaveInv
<1>4. Secrets!ManifestInv'
  BY <1>2 DEF Secrets!Inv, Secrets!ManifestInv
<1>5. own \subseteq Secrets!In(v3.slot) /\ own \subseteq Secrets!Places
  BY <1>3, PlacesOfSlots
<1>6. CASE Secrets!StartWrite
  <2>1. CASE v3.failed
    <3>1. v3'.at = "idle" /\ v5' = "failed"
      BY <1>6, <2>1 DEF Secrets!StartWrite, Secrets!Finish, Secrets!NoWriter
    <3> QED
      BY <1>1, <1>4, <3>1
         DEF Secrets!Inv, Secrets!SaveInv, Secrets!TidyInv, Secrets!EraseInv, Secrets!NoForeignChunk
  <2>2. CASE ~v3.failed
    <3>1. /\ v3'.at = "write" /\ v3'.slot = v3.slot /\ v3'.old = v3.old /\ v3'.count = v3.count
          /\ v3'.todo = own /\ v3'.failed = v3.failed /\ v2' = v2 /\ v3.todo = {}
      BY <1>1, <1>6, <2>2 DEF Secrets!StartWrite, Secrets!TypeOK
    <3>2. Secrets!Cleaned' = Secrets!Cleaned
      BY <3>1 DEF Secrets!Cleaned
    <3>3. \A place \in Secrets!Cleaned : v2[place] = 0
      BY <1>6, <2>2, <3>1 DEF Secrets!Inv, Secrets!SaveInv, Secrets!StartWrite
    <3>4. Secrets!SaveInv'
      BY <1>2, <1>3, <2>2, <3>1, <3>2, <3>3 DEF Secrets!SaveInv
    <3> QED
      BY <1>1, <1>4, <3>1, <3>4
         DEF Secrets!Inv, Secrets!TidyInv, Secrets!EraseInv, Secrets!NoForeignChunk
  <2> QED
    BY <2>1, <2>2
<1>7. CASE Secrets!WriteChunk
  <2>1. /\ ~v3.failed /\ v3.todo \subseteq own
        /\ \A place \in Secrets!Cleaned \ own : v2[place] = 0
        /\ \A place \in own \ v3.todo : v2[place] = v4
    BY <1>7 DEF Secrets!Inv, Secrets!SaveInv, Secrets!WriteChunk
  <2>2. PICK place \in v3.todo :
          \/ /\ v2' = [v2 EXCEPT ![place] = v4]
             /\ v3' = [v3 EXCEPT !.todo = @ \ {place}]
          \/ v3' = [v3 EXCEPT !.at = "undo", !.todo = Secrets!First(v3.slot, place[2])]
    BY <1>7 DEF Secrets!WriteChunk
  <2>3. CASE /\ v2' = [v2 EXCEPT ![place] = v4]
             /\ v3' = [v3 EXCEPT !.todo = @ \ {place}]
    <3>1. /\ v3'.at = "write" /\ v3'.slot = v3.slot /\ v3'.old = v3.old /\ v3'.count = v3.count
          /\ v3'.todo = v3.todo \ {place} /\ v3'.failed = v3.failed
      BY <1>1, <1>7, <2>3 DEF Secrets!WriteChunk, Secrets!TypeOK
    <3>2. Secrets!Cleaned' = Secrets!Cleaned /\ Secrets!Cleaned \subseteq Secrets!Places
      BY <1>3, <3>1, PlacesOfSlots DEF Secrets!Cleaned
    <3>3. place \in own /\ v2'[place] = v4 /\ \A p \in Secrets!Places : p # place => v2'[p] = v2[p]
      BY <1>2, <1>5, <2>1, <2>3
    <3>4. /\ \A p \in Secrets!Cleaned \ own : v2'[p] = 0
          /\ \A p \in own \ v3'.todo : v2'[p] = v4
      BY <1>5, <2>1, <3>1, <3>2, <3>3
    <3>5. Secrets!SaveInv'
      BY <1>2, <1>3, <2>1, <3>1, <3>2, <3>4 DEF Secrets!SaveInv
    <3> QED
      BY <1>1, <1>4, <3>1, <3>5
         DEF Secrets!Inv, Secrets!TidyInv, Secrets!EraseInv, Secrets!NoForeignChunk
  <2>4. CASE v3' = [v3 EXCEPT !.at = "undo", !.todo = Secrets!First(v3.slot, place[2])]
    <3>1. /\ v3'.at = "undo" /\ v3'.slot = v3.slot /\ v3'.old = v3.old /\ v3'.count = v3.count
          /\ v3'.todo = Secrets!First(v3.slot, place[2])
      BY <1>1, <2>4 DEF Secrets!TypeOK
    <3>2. place[2] \in 0..MaxChunks
      BY <1>5, <2>1, ChunksAssumption DEF Secrets!Places, Secrets!Indexes
    <3>3. v3'.todo \subseteq Secrets!In(v3.slot)
      BY <1>3, <3>1, <3>2, PlacesOfSlots
    <3>4. Secrets!SaveInv'
      BY <1>2, <1>3, <3>1, <3>3 DEF Secrets!SaveInv
    <3> QED
      BY <1>1, <1>4, <3>1, <3>4
         DEF Secrets!Inv, Secrets!TidyInv, Secrets!EraseInv, Secrets!NoForeignChunk
  <2> QED
    BY <2>2, <2>3, <2>4
<1> QED
  BY <1>6, <1>7

\* The manifest is switched to chunks that are all there, or nothing is.
LEMMA SetManifestStep == ASSUME Secrets!Inv, Secrets!SetManifest PROVE Secrets!Inv'
<1> DEFINE own == Secrets!First(v3.slot, v3.count)
<1>1. Secrets!TypeOK' /\ Secrets!TypeOK
  BY SecretsTypes DEF Secrets!Next, Secrets!Inv
<1>2. v3.at = "write" /\ v3.todo = {} /\ UNCHANGED <<v2, v4>>
  BY DEF Secrets!SetManifest
<1>3. /\ v3.old = v1.slot /\ v3.slot \in Secrets!Slots \ {v1.slot}
      /\ v3.count \in 1..MaxChunks /\ v1.bundle < v4 /\ ~v3.failed
      /\ \A place \in Secrets!Cleaned \ own : v2[place] = 0
      /\ \A place \in own : v2[place] = v4
  BY <1>2 DEF Secrets!Inv, Secrets!SaveInv
<1>4. own \subseteq Secrets!In(v3.slot)
  BY <1>3, PlacesOfSlots
<1>5. v4 \in Nat /\ v1.bundle \in 0..v4
  BY <1>1, NamedPlaces DEF Secrets!TypeOK, Secrets!Versions, Secrets!Inv
<1>6. CASE /\ v1' = Secrets!Switched(v3.slot, v3.count, v4)
           /\ v3' = [v3 EXCEPT !.at = "tidy",
                               !.todo = IF v3.old = "none" THEN {} ELSE Secrets!In(v3.old)]
  <2>1. /\ v3'.at = "tidy" /\ v3'.slot = v3.slot /\ v3'.count = v3.count
        /\ v3'.todo = IF v3.old = "none" THEN {} ELSE Secrets!In(v3.old)
    BY <1>1, <1>6 DEF Secrets!TypeOK
  <2>2. v1'.kind = "slots" /\ v1'.slot = v3.slot /\ v1'.count = v3.count /\ v1'.bundle = v4
    BY <1>6 DEF Secrets!Switched
  <2>3. Secrets!Named(v1') = own
    BY <2>2 DEF Secrets!Named
  <2>4. Secrets!ManifestInv'
    <3>1. v4 \in 1..v4
      BY <1>3, <1>5
    <3> QED
      BY <1>2, <1>3, <2>2, <3>1 DEF Secrets!ManifestInv
  <2>5. Secrets!Whole'
    BY <1>2, <1>3, <2>2, <2>3 DEF Secrets!Whole, Secrets!Named
  <2>6. v3.old \in (Secrets!Slots \union {"none"}) \ {v3.slot}
    BY <1>1, <1>3 DEF Secrets!TypeOK
  <2>7. v3'.todo \intersect Secrets!In(v3.slot) = {}
    BY <1>3, <2>1, <2>6, PlacesOfSlots
  <2>8. ASSUME NEW place \in Secrets!Places \ (own \union v3'.todo) PROVE v2[place] = 0
    <3>1. CASE v3.old = "none"
      BY <1>3, <2>8, <3>1 DEF Secrets!Cleaned
    <3>2. CASE v3.old \in Secrets!Slots
      <4>1. place \in Secrets!In(v3.slot)
        BY <1>3, <2>1, <2>6, <2>8, <3>2, PlacesOfSlots DEF Secrets!Slots
      <4>2. v3.old # "none"
        BY <3>2 DEF Secrets!Slots
      <4> QED
        BY <1>3, <2>8, <4>1, <4>2 DEF Secrets!Cleaned
    <3> QED
      BY <2>6, <3>1, <3>2
  <2>9. Secrets!TidyInv'
    BY <1>2, <1>3, <1>6, <2>1, <2>3, <2>5, <2>7, <2>8 DEF Secrets!TidyInv, Secrets!Named
  <2> QED
    BY <1>1, <2>1, <2>4, <2>9
       DEF Secrets!Inv, Secrets!SaveInv, Secrets!EraseInv, Secrets!NoForeignChunk
<1>7. CASE v1' = v1 /\ v3' = [v3 EXCEPT !.at = "undo", !.todo = own]
  <2>1. /\ v3'.at = "undo" /\ v3'.slot = v3.slot /\ v3'.old = v3.old /\ v3'.count = v3.count
        /\ v3'.todo = own
    BY <1>1, <1>7 DEF Secrets!TypeOK
  <2>2. Secrets!SaveInv'
    BY <1>2, <1>3, <1>4, <1>7, <2>1 DEF Secrets!SaveInv
  <2>3. Secrets!ManifestInv'
    BY <1>2, <1>7 DEF Secrets!Inv, Secrets!ManifestInv
  <2> QED
    BY <1>1, <2>1, <2>2, <2>3
       DEF Secrets!Inv, Secrets!TidyInv, Secrets!EraseInv, Secrets!NoForeignChunk
<1> QED
  BY <1>6, <1>7 DEF Secrets!SetManifest

\* A save or deletion that ends reports success only when the rest is gone.
LEMMA EndStep ==
  ASSUME Secrets!Inv, Secrets!EndSave \/ Secrets!EndDelete \/ Secrets!Crash
  PROVE  Secrets!Inv'
<1>1. Secrets!TypeOK' /\ Secrets!TypeOK
  BY SecretsTypes DEF Secrets!Next, Secrets!Inv
<1>2. v3'.at = "idle" /\ UNCHANGED <<v1, v2, v4>>
  BY DEF Secrets!EndSave, Secrets!EndDelete, Secrets!Crash, Secrets!Finish, Secrets!NoWriter
<1>3. Secrets!ManifestInv'
  BY <1>2 DEF Secrets!Inv, Secrets!ManifestInv
<1>4. v5' = "ok" => v3.at \in {"tidy", "erase"} /\ v3.todo = {} /\ ~v3.failed
  BY DEF Secrets!EndSave, Secrets!EndDelete, Secrets!Crash, Secrets!Finish
<1>5. Secrets!NoForeignChunk'
  <2> SUFFICES ASSUME v5' = "ok", NEW place \in Secrets!Places, v2[place] # 0
               PROVE  place \in Secrets!Named(v1) /\ v2[place] = v1.bundle
    BY <1>2 DEF Secrets!NoForeignChunk, Secrets!Named
  <2>1. v3.at = "tidy" /\ place \in Secrets!Named(v1)
    BY <1>4 DEF Secrets!Inv, Secrets!TidyInv, Secrets!EraseInv
  <2>2. Secrets!Whole
    BY <2>1 DEF Secrets!Inv, Secrets!TidyInv
  <2> QED
    BY <2>1, <2>2 DEF Secrets!Whole
<1> QED
  BY <1>1, <1>2, <1>3, <1>5 DEF Secrets!Inv, Secrets!SaveInv, Secrets!TidyInv, Secrets!EraseInv

\* A deletion takes the manifest first.
LEMMA DeleteManifestStep == ASSUME Secrets!Inv, Secrets!DeleteManifest PROVE Secrets!Inv'
<1>1. Secrets!TypeOK' /\ Secrets!TypeOK
  BY SecretsTypes DEF Secrets!Next, Secrets!Inv
<1>2. /\ UNCHANGED <<v2, v4>> /\ v3'.at = "erase" /\ v3'.todo = Secrets!Places
      /\ v1' \in {v1, Secrets!NoManifest} /\ (~v3'.failed => v1' = Secrets!NoManifest)
  BY DEF Secrets!DeleteManifest, Secrets!NoWriter
<1>3. Secrets!ManifestInv'
  BY <1>2 DEF Secrets!Inv, Secrets!ManifestInv, Secrets!NoManifest
<1> QED
  BY <1>1, <1>2, <1>3
     DEF Secrets!Inv, Secrets!SaveInv, Secrets!TidyInv, Secrets!EraseInv, Secrets!NoForeignChunk

\* The invariant of the keychain is inductive.
LEMMA SecretsStep == ASSUME Secrets!Inv, [Secrets!Next]_(Secrets!vars) PROVE Secrets!Inv'
<1>1. ASSUME UNCHANGED <<v1, v2, v3, v4, v5>>, Secrets!TypeOK' PROVE Secrets!Inv'
  BY <1>1 DEF Secrets!Inv, Secrets!ManifestInv, Secrets!SaveInv, Secrets!TidyInv,
     Secrets!EraseInv,
     Secrets!NoForeignChunk, Secrets!Whole, Secrets!Cleaned, Secrets!Named
<1>2. CASE UNCHANGED Secrets!vars
  <2>1. Secrets!TypeOK'
    BY <1>2 DEF Secrets!vars, Secrets!Inv, Secrets!TypeOK
  <2> QED
    BY <1>1, <1>2, <2>1 DEF Secrets!vars
<1>3. ASSUME NEW r \in Readers,
             Secrets!ReadManifest(r) \/ Secrets!ReadChunk(r) \/ Secrets!Return(r)
      PROVE  Secrets!Inv'
  <2>1. Secrets!TypeOK'
    BY <1>3, SecretsTypes DEF Secrets!Next
  <2> QED
    BY <1>1, <1>3, <2>1 DEF Secrets!ReadManifest, Secrets!ReadChunk, Secrets!Return
<1> QED
  BY <1>2, <1>3, StartSaveStep, DeleteChunkStep, WriteStep, SetManifestStep, EndStep,
     DeleteManifestStep DEF Secrets!Next

SecretsInv == which = "secrets" => Secrets!Inv

\* The same in the composition: a behaviour of another module is none of the keychain's.
LEMMA SecretsInvariance == Spec => []SecretsInv
<1>1. Init => SecretsInv
  BY SecretsInit DEF Init, SecretsInv
<1>2. SecretsInv /\ [Next]_vars => SecretsInv'
  <2> SUFFICES ASSUME SecretsInv, [Next]_vars, which' = "secrets" PROVE Secrets!Inv'
    BY DEF SecretsInv
  <2>1. which = "secrets" /\ [Secrets!Next]_(Secrets!vars)
    BY DEF Next, vars, Secrets!vars
  <2> QED
    BY <2>1, SecretsStep DEF SecretsInv
<1> QED
  BY <1>1, <1>2, PTL DEF Spec

\* A save or deletion that reports success leaves nothing of another bundle behind
\* (cleanupSavedSecretChunks), and every variable holds what it may hold.
THEOREM NothingForeign == Spec => []NoResidue
<1>1. SecretsInv => NoResidue
  BY DEF SecretsInv, NoResidue, Secrets!Inv
<1> QED
  BY <1>1, SecretsInvariance, PTL

-----------------------------------------------------------------------------
(* The keychain implements one record. *)

\* A load finds the bundle of the manifest or none.
LEMMA StoredBundle ==
  ASSUME Secrets!TypeOK, Secrets!ManifestInv
  PROVE  /\ Secrets!Stored \in {0, v1.bundle} /\ Secrets!Stored \in Nat /\ Secrets!Stored <= v4
         /\ v1.kind # "slots" => Secrets!Stored = v1.bundle
<1>1. v1.bundle \in 0..v4 /\ v4 \in Nat
  BY NamedPlaces DEF Secrets!TypeOK, Secrets!Versions
<1>2. Secrets!Stored \in {0, v1.bundle}
  BY DEF Secrets!Stored
<1>3. v1.kind # "slots" => Secrets!Stored = v1.bundle
  BY DEF Secrets!Stored, Secrets!Named
<1> QED
  BY <1>1, <1>2, <1>3

\* Every step of a writer is a save, a part of a deletion, or changes nothing that a
\* load returns.
LEMMA SecretsRefine ==
  ASSUME Secrets!Inv, Secrets!Inv', [Secrets!Next]_(Secrets!vars)
  PROVE  \/ ~Secrets!Erasing /\ ~Secrets!Erasing' /\ Secrets!Stored' > Secrets!Stored
         \/ (Secrets!Erasing \/ Secrets!Erasing') /\ Secrets!Stored' <= Secrets!Stored
         \/ Secrets!Stored' = Secrets!Stored /\ Secrets!Erasing' = Secrets!Erasing
<1>0. /\ Secrets!Stored \in {0, v1.bundle} /\ Secrets!Stored \in Nat /\ Secrets!Stored <= v4
      /\ v1.bundle \in 0..v4 /\ v4 \in Nat /\ Secrets!Named(v1) \subseteq Secrets!Places
      /\ v2 \in [Secrets!Places -> Secrets!Versions]
  BY StoredBundle, NamedPlaces DEF Secrets!Inv, Secrets!TypeOK, Secrets!Versions
<1>1. ASSUME UNCHANGED <<v1, v2>> PROVE Secrets!Stored' = Secrets!Stored
  BY <1>1 DEF Secrets!Stored, Secrets!Named
<1>2. CASE Secrets!StartSave \/ Secrets!StartWrite \/ Secrets!EndSave
  <2>1. UNCHANGED <<v1, v2>> /\ v3.at # "erase"
    BY <1>2 DEF Secrets!StartSave, Secrets!StartWrite, Secrets!EndSave
  <2>2. v3'.at # "erase"
    <3>1. CASE Secrets!StartSave
      <4>1. v3'.at = "clean"
        BY <3>1 DEF Secrets!StartSave, Secrets!NoWriter
      <4> QED
        BY <4>1
    <3>2. CASE Secrets!StartWrite
      <4>1. v3 \in [at : {"idle", "clean", "write", "undo", "tidy", "erase"},
                    slot : Secrets!Slots \union {"none"}, old : Secrets!Slots \union {"none"},
                    count : 0..MaxChunks, todo : SUBSET Secrets!Places, failed : BOOLEAN]
        BY DEF Secrets!Inv, Secrets!TypeOK
      <4>2. v3'.at \in {"write", "idle"}
        <5>1. CASE v3.failed
          <6>1. v3' = Secrets!NoWriter
            BY <3>2, <5>1 DEF Secrets!StartWrite, Secrets!Finish
          <6> QED
            BY <6>1 DEF Secrets!NoWriter
        <5>2. CASE ~v3.failed
          <6>1. v3' = [v3 EXCEPT !.at = "write", !.todo = Secrets!First(v3.slot, v3.count)]
            BY <3>2, <5>2 DEF Secrets!StartWrite
          <6> QED
            BY <4>1, <6>1
        <5> QED
          BY <5>1, <5>2
      <4> QED
        BY <4>2
    <3>3. CASE Secrets!EndSave
      BY <3>3 DEF Secrets!EndSave, Secrets!Finish, Secrets!NoWriter
    <3> QED
      BY <1>2, <3>1, <3>2, <3>3
  <2> QED
    BY <1>1, <2>1, <2>2 DEF Secrets!Erasing
<1>3. CASE Secrets!DeleteChunk
  <2>1. PICK place \in v3.todo : v2' \in {v2, [v2 EXCEPT ![place] = 0]}
    BY <1>3 DEF Secrets!DeleteChunk
  <2>2. v3'.at = v3.at /\ UNCHANGED <<v1, v4>> /\ place \in Secrets!Places
    BY <1>3 DEF Secrets!DeleteChunk, Secrets!Inv, Secrets!TypeOK
  <2>3. CASE v3.at = "erase"
    <3>1. Secrets!Stored' \in {0, v1.bundle}
      BY <2>2 DEF Secrets!Stored
    <3>2. Secrets!Stored' # 0 => \A p \in Secrets!Named(v1) : v2'[p] = v1.bundle
      BY <2>2 DEF Secrets!Stored, Secrets!Named
    <3>3. Secrets!Stored' # 0 => \A p \in Secrets!Named(v1) : v2[p] = v1.bundle
      BY <1>0, <2>1, <2>2, <3>1, <3>2
    <3>4. Secrets!Stored' <= Secrets!Stored
      BY <1>0, <3>1, <3>3 DEF Secrets!Stored
    <3> QED
      BY <2>3, <3>4 DEF Secrets!Erasing
  <2>4. CASE v3.at # "erase"
    <3>1. place \notin Secrets!Named(v1)
      <4>1. CASE v3.at \in {"clean", "undo"}
        <5>1. /\ v3.old = v1.slot /\ v3.slot \in Secrets!Slots \ {v1.slot}
              /\ place \in Secrets!In(v3.slot) \/ v1.slot = "none"
          BY <4>1 DEF Secrets!Inv, Secrets!SaveInv, Secrets!Cleaned
        <5>2. CASE v1.kind = "slots"
          <6>1. v1.slot \in Secrets!Slots /\ v1.count \in 0..MaxChunks
            BY <5>2 DEF Secrets!Inv, Secrets!TypeOK, Secrets!ManifestInv, Secrets!Manifests
          <6>2. Secrets!Named(v1) \subseteq Secrets!In(v1.slot) /\ v1.slot # "none"
            BY <5>2, <6>1, PlacesOfSlots DEF Secrets!Named, Secrets!Slots
          <6> QED
            BY <5>1, <6>1, <6>2, PlacesOfSlots
        <5>3. CASE v1.kind # "slots"
          BY <5>3 DEF Secrets!Named
        <5> QED
          BY <5>2, <5>3
      <4>2. CASE v3.at = "tidy"
        <5>1. /\ v3.slot \in Secrets!Slots /\ v3.count \in 1..MaxChunks
              /\ v1 = Secrets!Switched(v3.slot, v3.count, v4)
              /\ v3.todo \intersect Secrets!In(v3.slot) = {}
          BY <4>2 DEF Secrets!Inv, Secrets!TidyInv
        <5>2. Secrets!Named(v1) \subseteq Secrets!In(v3.slot)
          BY <5>1, PlacesOfSlots DEF Secrets!Named, Secrets!Switched
        <5> QED
          BY <5>1, <5>2
      <4> QED
        BY <1>3, <2>4, <4>1, <4>2 DEF Secrets!DeleteChunk
    <3>2. \A p \in Secrets!Named(v1) : v2'[p] = v2[p]
      BY <1>0, <2>1, <3>1
    <3>3. Secrets!Stored' = Secrets!Stored
      BY <2>2, <3>2 DEF Secrets!Stored, Secrets!Named
    <3> QED
      BY <2>2, <3>3 DEF Secrets!Erasing
  <2> QED
    BY <2>3, <2>4
<1>4. CASE Secrets!WriteChunk
  <2>1. PICK place \in v3.todo : v2' \in {v2, [v2 EXCEPT ![place] = v4]}
    BY <1>4 DEF Secrets!WriteChunk
  <2>2. v3.at = "write" /\ v3'.at # "erase" /\ UNCHANGED v1
    BY <1>4 DEF Secrets!WriteChunk, Secrets!Inv, Secrets!TypeOK
  <2>3. /\ v3.slot \in Secrets!Slots \ {v1.slot} /\ v3.count \in 0..MaxChunks
        /\ place \in Secrets!First(v3.slot, v3.count)
    BY <2>2 DEF Secrets!Inv, Secrets!SaveInv
  <2>4. place \notin Secrets!Named(v1)
    <3>1. CASE v1.kind = "slots"
      <4>1. v1.slot \in Secrets!Slots /\ v1.count \in 0..MaxChunks
        BY <3>1 DEF Secrets!Inv, Secrets!TypeOK, Secrets!ManifestInv, Secrets!Manifests
      <4>2. Secrets!Named(v1) \subseteq Secrets!In(v1.slot) /\ place \in Secrets!In(v3.slot)
        BY <2>3, <3>1, <4>1, PlacesOfSlots DEF Secrets!Named
      <4> QED
        BY <2>3, <4>1, <4>2, PlacesOfSlots
    <3>2. CASE v1.kind # "slots"
      BY <3>2 DEF Secrets!Named
    <3> QED
      BY <3>1, <3>2
  <2>5. \A p \in Secrets!Named(v1) : v2'[p] = v2[p]
    BY <1>0, <2>1, <2>4
  <2>6. Secrets!Stored' = Secrets!Stored
    BY <2>2, <2>5 DEF Secrets!Stored, Secrets!Named
  <2> QED
    BY <2>2, <2>6 DEF Secrets!Erasing
<1>5. CASE Secrets!SetManifest
  <2>1. v3.at = "write" /\ v3'.at \in {"tidy", "undo"} /\ UNCHANGED <<v2, v4>>
    BY <1>5 DEF Secrets!SetManifest, Secrets!Inv, Secrets!TypeOK
  <2>2. CASE v3'.at = "undo"
    <3>1. UNCHANGED v1
      BY <1>5, <2>2 DEF Secrets!SetManifest, Secrets!Inv, Secrets!TypeOK
    <3> QED
      BY <1>1, <2>1, <2>2, <3>1 DEF Secrets!Erasing
  <2>3. CASE v3'.at = "tidy"
    <3>1. Secrets!Whole' /\ v1' = Secrets!Switched(v3'.slot, v3'.count, v4')
      BY <2>3 DEF Secrets!Inv, Secrets!TidyInv, Secrets!Switched
    <3>2. Secrets!Stored' = v4
      BY <2>1, <3>1 DEF Secrets!Whole, Secrets!Stored, Secrets!Named, Secrets!Switched
    <3>3. v1.bundle < v4
      BY <2>1 DEF Secrets!Inv, Secrets!SaveInv
    <3>4. Secrets!Stored' > Secrets!Stored
      BY <1>0, <3>2, <3>3
    <3> QED
      BY <2>1, <2>3, <3>4 DEF Secrets!Erasing
  <2> QED
    BY <2>1, <2>2, <2>3
<1>6. CASE Secrets!DeleteManifest
  <2>1. v3'.at = "erase" /\ v1' \in {v1, Secrets!NoManifest} /\ UNCHANGED v2
    BY <1>6 DEF Secrets!DeleteManifest, Secrets!NoWriter
  <2>2. Secrets!Stored' \in {Secrets!Stored, 0}
    BY <2>1 DEF Secrets!Stored, Secrets!Named, Secrets!NoManifest
  <2>3. Secrets!Stored' <= Secrets!Stored
    BY <1>0, <2>2
  <2> QED
    BY <2>1, <2>3 DEF Secrets!Erasing
<1>7. CASE Secrets!EndDelete \/ Secrets!Crash
  <2>1. UNCHANGED <<v1, v2>> /\ v3'.at = "idle"
    BY <1>7 DEF Secrets!EndDelete, Secrets!Crash, Secrets!Finish, Secrets!NoWriter
  <2>2. Secrets!Stored' = Secrets!Stored /\ Secrets!Stored' <= Secrets!Stored
    BY <1>0, <1>1, <2>1
  <2> QED
    BY <2>1, <2>2 DEF Secrets!Erasing
<1>8. CASE UNCHANGED <<v1, v2, v3>>
  BY <1>1, <1>8 DEF Secrets!Erasing
<1> QED
  BY <1>2, <1>3, <1>4, <1>5, <1>6, <1>7, <1>8 DEF Secrets!Next, Secrets!vars,
     Secrets!ReadManifest, Secrets!ReadChunk, Secrets!Return

\* The items of the keychain implement one record for a load under the lock: a save
\* that fails or ends anywhere leaves the old bundle or the new one, whole, and only a
\* deletion takes it away (SaveSecrets, DeleteSecrets).
THEOREM SecretsImplementRecord == Spec => ImplementsRecord
<1>1. Init => Record!Init
  <2> SUFFICES ASSUME Init PROVE Record!Init
    OBVIOUS
  <2>1. CASE which = "secrets"
    <3>1. Secrets!Init /\ Secrets!Inv
      BY <2>1, SecretsInit DEF Init
    <3>2. Secrets!Stored \in Nat
      BY <3>1, StoredBundle DEF Secrets!Inv
    <3>3. ~Secrets!Erasing
      BY <3>1 DEF Secrets!Init, Secrets!NoWriter, Secrets!Erasing
    <3> QED
      BY <2>1, <3>2, <3>3 DEF Record!Init
  <2>2. CASE which # "secrets"
    BY <2>2 DEF Record!Init
  <2> QED
    BY <2>1, <2>2
<1>2. SecretsInv /\ SecretsInv' /\ [Next]_vars => [Record!Next]_(Record!vars)
  <2> SUFFICES ASSUME SecretsInv, SecretsInv', [Next]_vars PROVE [Record!Next]_(Record!vars)
    OBVIOUS
  <2>1. CASE which = "secrets"
    <3>1. which' = which /\ [Secrets!Next]_(Secrets!vars) /\ Secrets!Inv /\ Secrets!Inv'
      BY <2>1 DEF SecretsInv, Next, vars, Secrets!vars
    <3>2. Secrets!Stored \in Nat
      BY <3>1, StoredBundle DEF Secrets!Inv
    <3>5. Secrets!Stored' \in Nat
      <4>1. v1' \in Secrets!Manifests
        BY <3>1 DEF Secrets!Inv, Secrets!TypeOK
      <4>2. v1'.bundle \in Nat
        BY <4>1, BoundsAssumption DEF Secrets!Manifests, Secrets!Versions
      <4>3. Secrets!Stored' \in {0, v1'.bundle}
        BY DEF Secrets!Stored
      <4> QED
        BY <4>2, <4>3
    <3>3. CASE ~Secrets!Erasing /\ ~Secrets!Erasing' /\ Secrets!Stored' > Secrets!Stored
      BY <2>1, <3>1, <3>2, <3>5, <3>3 DEF Record!Next, Record!Save
    <3>4. CASE (Secrets!Erasing \/ Secrets!Erasing') /\ Secrets!Stored' <= Secrets!Stored
      BY <2>1, <3>1, <3>2, <3>5, <3>4 DEF Record!Next, Record!Forget
    <3>6. CASE Secrets!Stored' = Secrets!Stored /\ Secrets!Erasing' = Secrets!Erasing
      BY <2>1, <3>1, <3>6 DEF Record!vars
    <3> QED
      BY <3>1, <3>3, <3>4, <3>6, SecretsRefine
  <2>2. CASE which # "secrets"
    <3>1. which' = which
      BY DEF Next, vars
    <3> QED
      BY <2>2, <3>1 DEF Record!vars
  <2> QED
    BY <2>1, <2>2
<1> QED
  BY <1>1, <1>2, SecretsInvariance, PTL DEF Spec, ImplementsRecord, Record!Spec

-----------------------------------------------------------------------------
(* What is saved opens what was published. *)

KeysInv ==
  /\ v1 \in [Databases -> Keys!States] /\ v3 \subseteq Databases
  /\ Keys!KeptLoads

\* A database that is encrypted is opened with the key it is encrypted under.
LEMMA OwnKeyOpens ==
  ASSUME v1 \in [Databases -> Keys!States], NEW d \in Databases, v1[d].kind = "encrypted"
  PROVE  Keys!Opens(d, v1[d].epoch)
<1>1. v1[d] \in [kind : {"encrypted"}, epoch : Epochs]
  BY DEF Keys!States, Keys!Kinds
<1> QED
  BY <1>1 DEF Keys!Opens

\* An encrypted database a bundle builds is one it opens.
LEMMA BuiltIsMatched ==
  ASSUME v1 \in [Databases -> Keys!States], NEW b, NEW D \in SUBSET Databases, Keys!Builds(b, D),
         NEW d \in D, v1[d].kind = "encrypted"
  PROVE  d \in Keys!Matched(b)
BY DEF Keys!Builds, Keys!OfKind

\* What setup keeps of a bundle opens every encrypted database it was used for: single
\* keys, a root, or an override, verified for all the databases or for some, but for
\* those whose override does not open them and whose root is not kept
\* (BindVerifiedCredential, BindPartialVerifiedCredential).
LEMMA MinimalOpens ==
  ASSUME v1 \in [Databases -> Keys!States], NEW b \in Keys!Bundles, NEW complete, NEW all,
         Keys!Answer(b, complete), NEW D \in SUBSET Keys!Matched(b),
         NEW d \in D, d \in Databases, v1[d].kind = "encrypted", d \notin Keys!Misled(b, D, all)
  PROVE  Keys!Loads(Keys!Minimal(b, D, all)) /\ d \in Keys!Matched(Keys!Minimal(b, D, all))
<1> DEFINE kept == Keys!Minimal(b, D, all)
<1>1. Keys!Opens(d, v1[d].epoch)
  BY OwnKeyOpens
<1>2. CASE b.credential = {}
  <2>1. kept.credential = {} /\ kept.keys = Keys!Effective(D)
    BY <1>2 DEF Keys!Minimal
  <2>2. d \in DOMAIN kept.keys /\ kept.keys[d] = v1[d].epoch
    BY <2>1 DEF Keys!Effective
  <2>3. Keys!Loads(kept)
    BY <2>1, <2>2 DEF Keys!Loads
  <2>4. d \in Keys!Matched(kept)
    BY <1>1, <2>1, <2>2 DEF Keys!Matched
  <2> QED
    BY <2>3, <2>4
<1>3. CASE b.credential # {}
  <2>1. PICK c \in Keys!DatabaseCredentials : b.credential = {c}
    BY <1>3 DEF Keys!Bundles
  <2>2. Keys!ValidCredential(c)
    BY <2>1 DEF Keys!Answer
  <2>3. /\ d \in Databases
        /\ \/ d \in DOMAIN c.overrides /\ Keys!Opens(d, c.overrides[d])
           \/ \E e \in c.roots : Keys!Opens(d, e)
    BY <2>1 DEF Keys!Matched, Keys!ByOverride
  <2>4. CASE all
    <3> DEFINE bound == Keys!BindVerified(c, D)
    <3>1. kept.credential = {bound}
      BY <2>1, <2>4 DEF Keys!Minimal
    <3>2. bound.roots = c.roots /\ DOMAIN bound.overrides = D \intersect DOMAIN c.overrides
      BY DEF Keys!BindVerified, Keys!Restrict
    <3>3. \A e \in DOMAIN bound.overrides : bound.overrides[e] = c.overrides[e]
      BY DEF Keys!BindVerified, Keys!Restrict
    <3>4. Keys!ValidCredential(bound)
      BY <2>3, <3>2 DEF Keys!ValidCredential
    <3>5. Keys!Loads(kept)
      BY <3>1, <3>4 DEF Keys!Loads
    <3>6. d \in Keys!Matched(kept)
      <4>1. CASE d \in DOMAIN c.overrides /\ Keys!Opens(d, c.overrides[d])
        <5>1. d \in DOMAIN bound.overrides /\ Keys!Opens(d, bound.overrides[d])
          BY <3>2, <3>3, <4>1
        <5> QED
          BY <3>1, <5>1 DEF Keys!Matched, Keys!ByOverride
      <4>2. CASE \E e \in c.roots : Keys!Opens(d, e)
        BY <3>1, <3>2, <4>2 DEF Keys!Matched
      <4> QED
        BY <2>3, <4>1, <4>2
    <3> QED
      BY <3>5, <3>6
  <2>5. CASE ~all
    <3> DEFINE overrides == [x \in D |-> IF x \in DOMAIN c.overrides THEN c.overrides[x]
                                          ELSE Keys!Effective(D)[x]]
               bound == [roots |-> {}, overrides |-> overrides]
    <3>1. kept.credential = {bound}
      <4>1. Keys!BindPartial(c, D) = {bound}
        BY DEF Keys!BindPartial
      <4>2. kept.credential = UNION {Keys!BindPartial(x, D) : x \in {c}}
        BY <2>1, <2>5 DEF Keys!Minimal
      <4>3. UNION {Keys!BindPartial(x, D) : x \in {c}} = Keys!BindPartial(c, D)
        OBVIOUS
      <4> QED
        BY <4>1, <4>2, <4>3
    <3>2. d \in DOMAIN bound.overrides
      OBVIOUS
    <3>3. Keys!Opens(d, bound.overrides[d])
      <4>1. CASE d \in DOMAIN c.overrides
        <5>1. bound.overrides[d] = c.overrides[d]
          BY <4>1
        <5>2. Keys!Opens(d, c.overrides[d])
          BY <2>1, <2>5, <4>1 DEF Keys!Misled
        <5> QED
          BY <5>1, <5>2
      <4>2. CASE d \notin DOMAIN c.overrides
        <5>1. bound.overrides[d] = v1[d].epoch
          BY <4>2 DEF Keys!Effective
        <5> QED
          BY <1>1, <5>1
      <4> QED
        BY <4>1, <4>2
    <3> HIDE DEF bound
    <3>4. Keys!Loads(kept)
      BY <3>1, <3>2 DEF Keys!Loads, Keys!ValidCredential
    <3>5. d \in Keys!Matched(kept)
      BY <2>3, <3>1, <3>2, <3>3 DEF Keys!Matched, Keys!ByOverride
    <3> QED
      BY <3>4, <3>5
  <2> QED
    BY <2>4, <2>5
<1> QED
  BY <1>2, <1>3

\* A change of one database leaves what opens the others.
LEMMA OthersStayMatched ==
  ASSUME NEW s, NEW d \in Databases, v1'[d] = v1[d], d \in Keys!Matched(s)
  PROVE  (d \in Keys!Matched(s))'
BY DEF Keys!Matched, Keys!ByOverride, Keys!Opens

\* Every step of setup, refresh and WeChat keeps it.
LEMMA KeysStep == KeysInv /\ [Keys!Next]_(Keys!vars) => KeysInv'
<1> SUFFICES ASSUME KeysInv, [Keys!Next]_(Keys!vars) PROVE KeysInv'
  OBVIOUS
<1>0. v1 \in [Databases -> Keys!States] /\ v3 \subseteq Databases /\ Keys!KeptLoads
  BY DEF KeysInv
<1>1. ASSUME NEW b \in Keys!Bundles, NEW complete \in BOOLEAN, Keys!Answer(b, complete),
             NEW D \in SUBSET Databases, Keys!Builds(b, D),
             NEW policy \in {"keychain", "unwritten", "snapshot-only"},
             Keys!Setup(b, complete, D, policy)
      PROVE  KeysInv'
  <2>1. v1' = v1 /\ v3' = D /\ Keys!Builds(b, D)
    BY <1>1 DEF Keys!Setup
  <2>2. ASSUME v2' = "keychain", NEW d \in Databases, d \in D, v1[d].kind = "encrypted", d \notin v6'
        PROVE  \E s \in v4' : (Keys!Loads(s) /\ d \in Keys!Matched(s))'
    <3> DEFINE kept == Keys!Minimal(b, D \intersect Keys!Matched(b), D = Keys!Present)
    <3>1. v4' = {kept} /\ v6' = Keys!Misled(b, D, D = Keys!Present)
      BY <1>1, <2>2 DEF Keys!Setup
    <3>2. d \in Keys!Matched(b)
      BY <1>0, <2>1, <2>2, BuiltIsMatched
    <3>3. d \notin Keys!Misled(b, D \intersect Keys!Matched(b), D = Keys!Present)
      BY <2>2, <3>1 DEF Keys!Misled
    <3>4. Keys!Loads(kept) /\ d \in Keys!Matched(kept)
      BY <1>0, <1>1, <2>2, <3>2, <3>3, MinimalOpens
    <3> HIDE DEF kept
    <3> QED
      BY <2>1, <3>1, <3>4 DEF Keys!Loads, Keys!Matched, Keys!ByOverride, Keys!Opens
  <2> QED
    BY <1>0, <2>1, <2>2 DEF KeysInv, Keys!KeptLoads, Keys!Kept
<1>2. ASSUME NEW D \in SUBSET Databases, Keys!Refresh(D) PROVE KeysInv'
  <2>1. v1' = v1 /\ v3' = D /\ v4' = v4 /\ v6' = v6
    BY <1>2 DEF Keys!Refresh
  <2>2. PICK s \in v4 : Keys!Loads(s) /\ Keys!Builds(s, D)
    BY <1>2 DEF Keys!Refresh
  <2>3. \A d \in D : v1[d].kind = "encrypted" => d \in Keys!Matched(s)
    BY <1>0, <2>2, BuiltIsMatched
  <2>4. \A d \in D : v1'[d].kind = "encrypted" => (Keys!Loads(s) /\ d \in Keys!Matched(s))'
    BY <2>1, <2>2, <2>3 DEF Keys!Loads, Keys!Matched, Keys!ByOverride, Keys!Opens
  <2> QED
    BY <1>0, <2>1, <2>2, <2>4 DEF KeysInv, Keys!KeptLoads, Keys!Kept
<1>3. ASSUME NEW x \in Databases, Keys!Change(x) PROVE KeysInv'
  <2>1. v2' = v2 /\ v3' = v3 /\ v4' = v4 /\ v5' = v5 \union {x} /\ v6' = v6 \ {x}
    BY <1>3 DEF Keys!Change
  <2>2. v1' \in [Databases -> Keys!States] /\ \A d \in Databases \ {x} : v1'[d] = v1[d]
    BY <1>0, <1>3 DEF Keys!Change
  <2>3. ASSUME v2' = "keychain", NEW d \in v3 \ (v5 \union {x}), d \notin v6, v1'[d].kind = "encrypted"
        PROVE  \E s \in v4 : (Keys!Loads(s) /\ d \in Keys!Matched(s))'
    <3>1. d \in Databases /\ v1'[d] = v1[d] /\ d \in Keys!Kept
      BY <1>0, <2>2, <2>3 DEF Keys!Kept
    <3>2. PICK s \in v4 : Keys!Loads(s) /\ d \in Keys!Matched(s)
      BY <1>0, <2>1, <2>3, <3>1 DEF Keys!KeptLoads
    <3>3. (d \in Keys!Matched(s))'
      BY <3>1, <3>2, OthersStayMatched
    <3> QED
      BY <3>2, <3>3 DEF Keys!Loads
  <2> QED
    BY <1>0, <2>1, <2>2, <2>3 DEF KeysInv, Keys!KeptLoads, Keys!Kept
<1>4. CASE UNCHANGED Keys!vars
  <2>1. v1' = v1 /\ v2' = v2 /\ v3' = v3 /\ v4' = v4 /\ v5' = v5 /\ v6' = v6
    BY <1>4 DEF Keys!vars
  <2>2. Keys!Kept' = Keys!Kept
    BY <2>1 DEF Keys!Kept
  <2>3. \A s \in v4 : Keys!Loads(s)' = Keys!Loads(s) /\ Keys!Matched(s)' = Keys!Matched(s)
    BY <2>1 DEF Keys!Loads, Keys!Matched, Keys!ByOverride, Keys!Opens
  <2>4. Keys!KeptLoads'
    BY <1>0, <2>1, <2>2, <2>3 DEF Keys!KeptLoads
  <2> QED
    BY <1>0, <2>1, <2>4 DEF KeysInv
<1> QED
  BY <1>1, <1>2, <1>3, <1>4 DEF Keys!Next

\* What was published and WeChat left as it was can be published again from the keychain
\* alone (BindVerifiedCredential, BindPartialVerifiedCredential, runRefresh), for all
\* databases, bundles and answers of the provider, but for the databases a partial setup
\* opened with the root in spite of an override.
THEOREM RefreshIsCovered == Spec => []RefreshCovers
<1> DEFINE inv == which = "keys" => KeysInv
<1>1. Init => inv
  BY DEF Init, KeysInv, Keys!Init, Keys!KeptLoads
<1>2. inv /\ [Next]_vars => inv'
  <2> SUFFICES ASSUME inv, [Next]_vars, which' = "keys" PROVE KeysInv'
    OBVIOUS
  <2>1. which = "keys" /\ [Keys!Next]_(Keys!vars)
    BY DEF Next, vars, Keys!vars
  <2> QED
    BY <2>1, KeysStep
<1>3. inv => RefreshCovers
  BY DEF KeysInv, RefreshCovers
<1> QED
  BY <1>1, <1>2, <1>3, PTL DEF Spec

-----------------------------------------------------------------------------
(* The copies of WeChat's files.  v1 to v9 are the main file, the log, its    *)
(* live frames, the frames written, the checkpoint, what it has moved, the    *)
(* commits, what there was when the copy began, and the copy.                 *)

\* A set of naturals up to n that is not empty has a largest element: the smallest
\* of the sets of those that are at least one of them.
LEMMA Largest ==
  ASSUME NEW n \in Nat, NEW S \in SUBSET (0..n), S # {}
  PROVE  \E m \in S : \A k \in S : k <= m
<1> DEFINE Above(m) == {k \in S : m <= k}
           T == {Above(m) : m \in S}
<1>1. IsFiniteSet(S)
  <2>1. IsFiniteSet(0..n)
    BY FS_Interval
  <2> QED
    BY <2>1, FS_Subset
<1>2. T \subseteq FiniteSubsetsOf(S) /\ T # {}
  <2>1. T \subseteq SUBSET S /\ T # {}
    OBVIOUS
  <2>2. FiniteSubsetsOf(S) = SUBSET S
    BY <1>1, FS_FiniteSubsetsOfFinite
  <2> QED
    BY <2>1, <2>2
<1>3. PICK x \in T : \A y \in T : ~ (<<y, x>> \in StrictSubsetOrdering(S))
  BY <1>2, FS_StrictSubsetOrderingWellFounded, WFMin
<1>4. PICK m \in S : x = Above(m)
  OBVIOUS
<1>5. ASSUME NEW k \in S, m < k PROVE FALSE
  <2>1. Above(k) \subseteq Above(m) /\ m \in Above(m) /\ m \notin Above(k)
    <3>1. k \in Nat /\ m \in Nat /\ \A l \in S : l \in Nat
      OBVIOUS
    <3>2. \A l \in Above(k) : l \in Above(m)
      BY <1>5, <3>1
    <3>3. m \in Above(m)
      BY <3>1
    <3>4. m \notin Above(k)
      BY <1>5, <3>1
    <3> QED
      BY <3>2, <3>3, <3>4
  <2>2. <<Above(k), Above(m)>> \in StrictSubsetOrdering(S)
    BY <2>1 DEF StrictSubsetOrdering
  <2> QED
    BY <1>3, <1>4, <2>2
<1> QED
  BY <1>5

\* What Max and Min choose.
LEMMA MaxIs ==
  ASSUME NEW n \in Nat, NEW S \in SUBSET (0..n), S # {}
  PROVE  Copy!Max(S) \in S /\ \A k \in S : k <= Copy!Max(S)
<1>1. PICK m \in S : \A k \in S : k <= m
  BY Largest
<1>2. \A k \in S : m >= k
  BY <1>1
<1>3. Copy!Max(S) \in S /\ \A k \in S : Copy!Max(S) >= k
  BY <1>2 DEF Copy!Max
<1> QED
  BY <1>3

\* An element no other exceeds is the one Max chooses.
LEMMA MaxAt ==
  ASSUME NEW S \in SUBSET Nat, NEW m \in S, \A k \in S : k <= m
  PROVE  Copy!Max(S) = m
<1>1. \A k \in S : m >= k
  OBVIOUS
<1>2. Copy!Max(S) \in S /\ \A k \in S : Copy!Max(S) >= k
  BY <1>1 DEF Copy!Max
<1>3. m \in Nat /\ Copy!Max(S) \in Nat /\ m >= Copy!Max(S) /\ Copy!Max(S) >= m
  BY <1>1, <1>2
<1> QED
  BY <1>3

\* And one that exceeds no other is the one Min chooses.
LEMMA MinAt ==
  ASSUME NEW S \in SUBSET Nat, NEW m \in S, \A k \in S : m <= k
  PROVE  Copy!Min(S) = m
<1>1. Copy!Min(S) \in S /\ \A k \in S : Copy!Min(S) <= k
  BY DEF Copy!Min
<1>2. m \in Nat /\ Copy!Min(S) \in Nat /\ m <= Copy!Min(S) /\ Copy!Min(S) <= m
  BY <1>1
<1> QED
  BY <1>2

\* A set of naturals up to n has a smallest, too.
LEMMA MinIs ==
  ASSUME NEW n \in Nat, NEW S \in SUBSET (0..n), S # {}
  PROVE  Copy!Min(S) \in S /\ \A k \in S : Copy!Min(S) <= k
<1> DEFINE T == {n - k : k \in S}
<1>1. T \in SUBSET (0..n) /\ T # {}
  <2>1. \A k \in S : n - k \in 0..n
    OBVIOUS
  <2> QED
    BY <2>1
<1>2. PICK t \in T : \A u \in T : u <= t
  BY <1>1, Largest
<1>3. PICK m \in S : t = n - m
  BY <1>2
<1>4. \A k \in S : m <= k
  BY <1>2, <1>3
<1> QED
  BY <1>4 DEF Copy!Min

\* The frames up to a commit that no other follows are the committed ones.
LEMMA CommittedAt ==
  ASSUME NEW f \in Seq(Copy!Frames), NEW l \in 0..Len(f), l = 0 \/ f[l].size > 0,
         \A n \in l + 1 .. Len(f) : f[n].size = 0
  PROVE  Copy!Committed(f) = SubSeq(f, 1, l) /\ Len(Copy!Committed(f)) = l
<1> DEFINE S == {n \in DOMAIN f : f[n].size > 0} \union {0}
<1>1. S \in SUBSET Nat /\ l \in S
  OBVIOUS
<1>2. \A k \in S : k <= l
  <2> SUFFICES ASSUME NEW k \in S, k > l PROVE FALSE
    BY <1>1
  <2>1. k \in l + 1 .. Len(f) /\ f[k].size > 0
    OBVIOUS
  <2> QED
    BY <2>1
<1>3. Copy!Max(S) = l
  BY <1>1, <1>2, MaxAt
<1>4. Copy!Committed(f) = SubSeq(f, 1, l)
  BY <1>3 DEF Copy!Committed
<1> QED
  BY <1>4

\* There is such a last commit, or none.
LEMMA CommittedIs ==
  ASSUME NEW f \in Seq(Copy!Frames)
  PROVE  \E l \in 0..Len(f) :
           /\ l = 0 \/ f[l].size > 0
           /\ \A n \in l + 1 .. Len(f) : f[n].size = 0
           /\ Copy!Committed(f) = SubSeq(f, 1, l) /\ Len(Copy!Committed(f)) = l
<1> DEFINE S == {n \in DOMAIN f : f[n].size > 0} \union {0}
<1>1. S \in SUBSET (0..Len(f)) /\ S # {} /\ Len(f) \in Nat
  OBVIOUS
<1>2. PICK l \in S : \A k \in S : k <= l
  BY <1>1, Largest
<1>3. l \in 0..Len(f) /\ (l = 0 \/ f[l].size > 0)
  BY <1>1
<1>4. \A n \in l + 1 .. Len(f) : f[n].size = 0
  <2> SUFFICES ASSUME NEW n \in l + 1 .. Len(f), f[n].size # 0 PROVE FALSE
    OBVIOUS
  <2>1. n \in 1 .. Len(f) /\ n > l
    BY <1>3
  <2>2. f[n] \in Copy!Frames
    BY <2>1
  <2>3. f[n].size > 0
    BY <2>2 DEF Copy!Frames
  <2> QED
    BY <1>2, <1>3, <2>1, <2>3
<1> QED
  BY <1>3, <1>4, CommittedAt

\* What pages are with frames over them.
LEMMA OverIs ==
  ASSUME NEW pages \in Seq(Nat), NEW f \in Seq(Copy!Frames), f # <<>>
  PROVE  /\ Copy!Over(pages, f) \in Seq(Nat)
         /\ Len(Copy!Over(pages, f)) = f[Len(f)].size
         /\ \A q \in 1 .. f[Len(f)].size :
              (\A n \in 1 .. Len(f) : f[n].page # q) =>
                Copy!Over(pages, f)[q] = IF q \in DOMAIN pages THEN pages[q] ELSE 0
<1> DEFINE at(q) == {n \in DOMAIN f : f[n].page = q}
           e(q) == IF at(q) # {} THEN f[Copy!Max(at(q))].value
                   ELSE IF q \in DOMAIN pages THEN pages[q] ELSE 0
           s == f[Len(f)].size
<1>1. s \in Nat
  <2>1. Len(f) \in 1 .. Len(f)
    OBVIOUS
  <2>2. f[Len(f)] \in Copy!Frames
    BY <2>1
  <2> QED
    BY <2>2 DEF Copy!Frames
<1>2. Copy!Over(pages, f) = [q \in 1 .. s |-> e(q)]
  BY DEF Copy!Over, Copy!Last
<1>3. ASSUME NEW q \in 1 .. s PROVE e(q) \in Nat
  <2>1. CASE at(q) # {}
    <3>1. at(q) \in SUBSET (0..Len(f)) /\ Len(f) \in Nat
      OBVIOUS
    <3> HIDE DEF at
    <3>2. Copy!Max(at(q)) \in at(q)
      BY <2>1, <3>1, MaxIs
    <3> USE DEF at
    <3>3. f[Copy!Max(at(q))] \in Copy!Frames
      BY <3>2
    <3> QED
      BY <2>1, <3>3 DEF Copy!Frames
  <2>2. CASE at(q) = {}
    BY <2>2
  <2> QED
    BY <2>1, <2>2
<1>4. \A q \in 1 .. s : (\A n \in 1 .. Len(f) : f[n].page # q) =>
        e(q) = IF q \in DOMAIN pages THEN pages[q] ELSE 0
  OBVIOUS
<1> HIDE DEF e, s
<1>5. [q \in 1 .. s |-> e(q)] \in Seq(Nat)
  BY <1>1, <1>3, IsASeq
<1>6. Len([q \in 1 .. s |-> e(q)]) = s
  BY <1>1, <1>5
<1>7. \A q \in 1 .. s : [r \in 1 .. s |-> e(r)][q] = e(q)
  OBVIOUS
<1> QED
  BY <1>2, <1>4, <1>5, <1>6, <1>7 DEF s

\* No frames change nothing.
LEMMA OverNothing ==
  ASSUME NEW pages
  PROVE  Copy!Over(pages, <<>>) = pages
BY DEF Copy!Over

\* Only the pages that are in no frame matter.
LEMMA OverSame ==
  ASSUME NEW pages \in Seq(Nat), NEW others \in Seq(Nat), NEW f \in Seq(Copy!Frames), f # <<>>,
         \A q \in 1 .. f[Len(f)].size :
           \/ \E n \in 1 .. Len(f) : f[n].page = q
           \/ (IF q \in DOMAIN pages THEN pages[q] ELSE 0)
                = (IF q \in DOMAIN others THEN others[q] ELSE 0)
  PROVE  Copy!Over(others, f) = Copy!Over(pages, f)
<1> DEFINE at(q) == {n \in DOMAIN f : f[n].page = q}
           e(q) == IF at(q) # {} THEN f[Copy!Max(at(q))].value
                   ELSE IF q \in DOMAIN pages THEN pages[q] ELSE 0
           o(q) == IF at(q) # {} THEN f[Copy!Max(at(q))].value
                   ELSE IF q \in DOMAIN others THEN others[q] ELSE 0
           s == f[Len(f)].size
<1>1. Copy!Over(pages, f) = [q \in 1 .. s |-> e(q)]
      /\ Copy!Over(others, f) = [q \in 1 .. s |-> o(q)]
  BY DEF Copy!Over, Copy!Last
<1>2. \A q \in 1 .. s : o(q) = e(q)
  <2> TAKE q \in 1 .. s
  <2>1. CASE at(q) # {}
    BY <2>1
  <2>2. CASE at(q) = {}
    BY <2>2
  <2> QED
    BY <2>1, <2>2
<1> HIDE DEF e, o, s
<1> QED
  BY <1>1, <1>2

\* Frames that are written over the pages already change nothing: a log that is read
\* once more after a checkpoint.
LEMMA OverTwice ==
  ASSUME NEW pages \in Seq(Nat), NEW f \in Seq(Copy!Frames), f # <<>>
  PROVE  Copy!Over(Copy!Over(pages, f), f) = Copy!Over(pages, f)
<1> DEFINE o == Copy!Over(pages, f)
           s == f[Len(f)].size
<1>1. /\ o \in Seq(Nat) /\ Len(o) = s
      /\ \A q \in 1 .. s : (\A n \in 1 .. Len(f) : f[n].page # q) =>
           o[q] = IF q \in DOMAIN pages THEN pages[q] ELSE 0
  BY OverIs
<1> HIDE DEF o
<1>2. \A q \in 1 .. s : \/ \E n \in 1 .. Len(f) : f[n].page = q
                        \/ (IF q \in DOMAIN pages THEN pages[q] ELSE 0)
                             = (IF q \in DOMAIN o THEN o[q] ELSE 0)
  <2> TAKE q \in 1 .. s
  <2>1. CASE \E n \in 1 .. Len(f) : f[n].page = q
    BY <2>1
  <2>2. CASE \A n \in 1 .. Len(f) : f[n].page # q
    <3>1. o[q] = IF q \in DOMAIN pages THEN pages[q] ELSE 0
      BY <1>1, <2>2
    <3>2. q \in DOMAIN o
      BY <1>1
    <3> QED
      BY <3>1, <3>2
  <2> QED
    BY <2>1, <2>2
<1>3. Copy!Over(o, f) = Copy!Over(pages, f)
  BY <1>1, <1>2, OverSame
<1> QED
  BY <1>3 DEF o

\* Pages that are all in frames are not more than these.
LEMMA Counted ==
  ASSUME NEW f \in Seq(Copy!Frames), NEW i \in Nat, NEW j \in Nat, i <= j, NEW a \in Nat,
         NEW b \in Nat,
         \A q \in a + 1 .. b : \E n \in i + 1 .. j : f[n].page = q
  PROVE  b <= a + (j - i)
<1>1. CASE b <= a
  BY <1>1
<1>2. CASE b > a
  <2> DEFINE T == {n \in i + 1 .. j : f[n].page \in a + 1 .. b}
             g == [n \in T |-> f[n].page]
  <2>1. IsFiniteSet(i + 1 .. j) /\ Cardinality(i + 1 .. j) = j - i
    <3>1. i + 1 \in Int /\ j \in Int
      OBVIOUS
    <3>2. IsFiniteSet(i + 1 .. j)
          /\ Cardinality(i + 1 .. j) = IF i + 1 > j THEN 0 ELSE j - (i + 1) + 1
      BY <3>1, FS_Interval
    <3> QED
      BY <3>2
  <2>2. IsFiniteSet(T) /\ Cardinality(T) <= j - i
    <3>1. T \in SUBSET (i + 1 .. j)
      OBVIOUS
    <3> HIDE DEF T
    <3> QED
      BY <2>1, <3>1, FS_Subset
  <2>3. g \in Surjection(T, a + 1 .. b)
    BY DEF Surjection
  <2>4. Cardinality(a + 1 .. b) <= Cardinality(T)
    <3> HIDE DEF T, g
    <3> QED
      BY <2>2, <2>3, FS_Surjection
  <2>5. Cardinality(a + 1 .. b) = b - a
    <3>1. a + 1 \in Int /\ b \in Int
      OBVIOUS
    <3>2. Cardinality(a + 1 .. b) = IF a + 1 > b THEN 0 ELSE b - (a + 1) + 1
      BY <3>1, FS_Interval
    <3> QED
      BY <1>2, <3>2
  <2>6. Cardinality(T) \in Nat
    BY <2>2, FS_CardinalityType
  <2> HIDE DEF T
  <2> QED
    BY <2>2, <2>4, <2>5, <2>6
<1> QED
  BY <1>1, <1>2

\* The frames of the log and their fields.
LEMMA FramesAre ==
  Copy!FilesOK =>
    /\ v2.frames \in Seq(Copy!Frames) /\ Len(v2.frames) \in Nat /\ v3 \in Nat
       /\ v3 <= Len(v2.frames)
    /\ \A n \in 1 .. Len(v2.frames) :
         /\ v2.frames[n] \in Copy!Frames
         /\ v2.frames[n].salt \in Nat /\ v2.frames[n].after \in Nat /\ v2.frames[n].page \in Nat
         /\ v2.frames[n].value \in Nat /\ v2.frames[n].size \in Nat
<1> SUFFICES ASSUME Copy!FilesOK
             PROVE  /\ v2.frames \in Seq(Copy!Frames) /\ Len(v2.frames) \in Nat /\ v3 \in Nat
                    /\ v3 <= Len(v2.frames)
                    /\ \A n \in 1 .. Len(v2.frames) :
                         /\ v2.frames[n] \in Copy!Frames
                         /\ v2.frames[n].salt \in Nat /\ v2.frames[n].after \in Nat
                         /\ v2.frames[n].page \in Nat
                         /\ v2.frames[n].value \in Nat /\ v2.frames[n].size \in Nat
  OBVIOUS
<1>1. v2.frames \in Seq(Copy!Frames) /\ v3 \in 0 .. Len(v2.frames)
  BY DEF Copy!FilesOK
<1>2. \A n \in 1 .. Len(v2.frames) : v2.frames[n] \in Copy!Frames
  BY <1>1
<1>3. \A n \in 1 .. Len(v2.frames) :
        /\ v2.frames[n].salt \in Nat /\ v2.frames[n].after \in Nat
        /\ v2.frames[n].page \in Nat
        /\ v2.frames[n].value \in Nat /\ v2.frames[n].size \in Nat
  BY <1>2 DEF Copy!Frames
<1> QED
  BY <1>1, <1>2, <1>3

\* The first frames of a log.
LEMMA Prefix ==
  ASSUME NEW S, NEW f \in Seq(S), NEW l \in 0 .. Len(f)
  PROVE  /\ SubSeq(f, 1, l) \in Seq(S) /\ Len(SubSeq(f, 1, l)) = l
         /\ \A n \in 1 .. l : SubSeq(f, 1, l)[n] = f[n]
         /\ \A k \in 0 .. l : SubSeq(SubSeq(f, 1, l), 1, k) = SubSeq(f, 1, k)
<1>1. /\ SubSeq(f, 1, l) \in Seq(S) /\ Len(SubSeq(f, 1, l)) = l
      /\ \A n \in 1 .. l : SubSeq(f, 1, l)[n] = f[n]
  OBVIOUS
<1>2. ASSUME NEW k \in 0 .. l PROVE SubSeq(SubSeq(f, 1, l), 1, k) = SubSeq(f, 1, k)
  OBVIOUS
<1> QED
  BY <1>1, <1>2

\* Two logs that agree on their first frames.
LEMMA SamePrefix ==
  ASSUME NEW S, NEW f \in Seq(S), NEW g \in Seq(S), NEW l \in Nat, l <= Len(f), l <= Len(g),
         \A n \in 1 .. l : f[n] = g[n]
  PROVE  SubSeq(f, 1, l) = SubSeq(g, 1, l)
OBVIOUS

\* The log is committed up to its last frame that commits.
LogUpTo ==
  \A l \in 0 .. v3 :
    (l = 0 \/ v2.frames[l].size > 0) /\ (\A n \in l + 1 .. v3 : v2.frames[n].size = 0) =>
      Copy!Log = SubSeq(v2.frames, 1, l) /\ Len(Copy!Log) = l

\* What the committed frames of the log are.
LEMMA LogAt == Copy!FilesOK => LogUpTo
<1> SUFFICES ASSUME Copy!FilesOK, NEW l \in 0 .. v3, l = 0 \/ v2.frames[l].size > 0,
                    \A n \in l + 1 .. v3 : v2.frames[n].size = 0
             PROVE  Copy!Log = SubSeq(v2.frames, 1, l) /\ Len(Copy!Log) = l
  BY DEF LogUpTo
<1>1. v2.frames \in Seq(Copy!Frames) /\ v3 \in 0 .. Len(v2.frames)
  BY DEF Copy!FilesOK
<1> DEFINE f == SubSeq(v2.frames, 1, v3)
<1>2. /\ f \in Seq(Copy!Frames) /\ Len(f) = v3 /\ \A n \in 1 .. v3 : f[n] = v2.frames[n]
      /\ SubSeq(f, 1, l) = SubSeq(v2.frames, 1, l)
  BY <1>1, Prefix
<1>3. Copy!Log = Copy!Committed(f)
  BY DEF Copy!Log
<1> HIDE DEF f
<1>4. l \in 0..Len(f) /\ (l = 0 \/ f[l].size > 0) /\ \A n \in l + 1 .. Len(f) : f[n].size = 0
  BY <1>1, <1>2
<1> QED
  BY <1>2, <1>3, <1>4, CommittedAt

\* The log is the live frames up to a commit, and no commit is behind it.
LEMMA LogIs ==
  Copy!FilesOK =>
    /\ Len(Copy!Log) \in 0 .. v3 /\ Copy!Log \in Seq(Copy!Frames)
       /\ Copy!Log = SubSeq(v2.frames, 1, Len(Copy!Log))
    /\ \A n \in 1 .. Len(Copy!Log) : Copy!Log[n] = v2.frames[n]
    /\ Copy!Ends \subseteq 1 .. Len(Copy!Log)
    /\ Len(Copy!Log) # 0 => Len(Copy!Log) \in Copy!Ends
<1> SUFFICES ASSUME Copy!FilesOK
             PROVE  /\ Len(Copy!Log) \in 0 .. v3 /\ Copy!Log \in Seq(Copy!Frames)
                    /\ Copy!Log = SubSeq(v2.frames, 1, Len(Copy!Log))
                    /\ \A n \in 1 .. Len(Copy!Log) : Copy!Log[n] = v2.frames[n]
                    /\ Copy!Ends \subseteq 1 .. Len(Copy!Log)
                    /\ Len(Copy!Log) # 0 => Len(Copy!Log) \in Copy!Ends
  OBVIOUS
<1>1. v2.frames \in Seq(Copy!Frames) /\ v3 \in 0 .. Len(v2.frames)
  BY DEF Copy!FilesOK
<1> DEFINE f == SubSeq(v2.frames, 1, v3)
<1>2. /\ f \in Seq(Copy!Frames) /\ Len(f) = v3 /\ \A n \in 1 .. v3 : f[n] = v2.frames[n]
      /\ \A k \in 0 .. v3 : SubSeq(f, 1, k) = SubSeq(v2.frames, 1, k)
  BY <1>1, Prefix
<1>3. Copy!Log = Copy!Committed(f)
  BY DEF Copy!Log
<1> HIDE DEF f
<1>4. PICK l \in 0..Len(f) :
        /\ l = 0 \/ f[l].size > 0
        /\ \A n \in l + 1 .. Len(f) : f[n].size = 0
        /\ Copy!Committed(f) = SubSeq(f, 1, l) /\ Len(Copy!Committed(f)) = l
  BY <1>2, CommittedIs
<1>5. l \in 0..v3 /\ l \in 0..Len(v2.frames) /\ l \in Nat
  BY <1>1, <1>2
<1>6. Copy!Log = SubSeq(v2.frames, 1, l) /\ Len(Copy!Log) = l
  BY <1>2, <1>3, <1>4, <1>5
<1>7. Copy!Log \in Seq(Copy!Frames) /\ \A n \in 1 .. l : Copy!Log[n] = v2.frames[n]
  BY <1>1, <1>5, <1>6, Prefix
<1>8. Copy!Ends \subseteq 1 .. l
  <2> SUFFICES ASSUME NEW n \in Copy!Ends, n > l PROVE FALSE
    BY <1>1, <1>5 DEF Copy!Ends
  <2>1. n \in l + 1 .. Len(f) /\ f[n].size > 0
    BY <1>1, <1>2, <1>5 DEF Copy!Ends
  <2> QED
    BY <1>4, <2>1
<1>9. l # 0 => l \in Copy!Ends
  BY <1>1, <1>2, <1>4, <1>5 DEF Copy!Ends
<1> QED
  BY <1>5, <1>6, <1>7, <1>8, <1>9

\* A later commit of the log has no more new pages than there are frames between.
LEMMA GrowsByFrames ==
  ASSUME Copy!FilesOK, Copy!Grown, NEW i \in Copy!Ends, NEW j \in Copy!Ends, i < j
  PROVE  v2.frames[j].size <= v2.frames[i].size + (j - i)
<1>1. v2.frames \in Seq(Copy!Frames) /\ v3 \in 0 .. Len(v2.frames)
  BY DEF Copy!FilesOK
<1>2. i \in Nat /\ j \in Nat /\ i <= j /\ i \in 1 .. Len(v2.frames) /\ j \in 1 .. Len(v2.frames)
  BY <1>1 DEF Copy!Ends
<1>3. v2.frames[i].size \in Nat /\ v2.frames[j].size \in Nat
  BY <1>2, FramesAre
<1>4. \A q \in v2.frames[i].size + 1 .. v2.frames[j].size :
        \E n \in i + 1 .. j : v2.frames[n].page = q
  BY DEF Copy!Grown
<1> QED
  BY <1>1, <1>2, <1>3, <1>4, Counted

\* A frame is written.
LEMMA WriteFacts ==
  ASSUME Copy!FilesOK, NEW p \in 1 .. MaxPages, NEW size \in 0 .. MaxPages,
         Copy!WriteFrame(p, size)
  PROVE  /\ v2'.frames \in Seq(Copy!Frames)
            /\ v2' \in [salt : Nat, frames : Seq(Copy!Frames), stamp : Nat]
         /\ v2'.salt = v2.salt /\ v2'.stamp = v2.stamp + 1
         /\ v3' = v3 + 1 /\ v3' <= Len(v2'.frames) /\ v4' = v4 + 1
         /\ \A n \in 1 .. v3 : v2'.frames[n] = v2.frames[n]
         /\ v2'.frames[v3 + 1] =
              [salt |-> v2.salt, after |-> IF v3 = 0 THEN 0 ELSE v2.frames[v3].value,
               page |-> p, value |-> v4 + 1, size |-> size]
         /\ \A n \in v3 + 2 .. Len(v2'.frames) :
              n <= Len(v2.frames) /\ v2'.frames[n] = v2.frames[n]
         /\ size = 0 => v7' = v7
         /\ size # 0 =>
              /\ \A q \in Len(Copy!Last(v7)) + 1 .. size :
                   \E n \in Len(Copy!Log) + 1 .. v3 + 1 : v2'.frames[n].page = q
              /\ v7' = v7 \o <<Copy!Over(v1.pages, SubSeq(v2'.frames, 1, v3 + 1))>>
<1> DEFINE F == v2.frames
           f == [salt |-> v2.salt, after |-> IF v3 = 0 THEN 0 ELSE F[v3].value,
                 page |-> p, value |-> v4 + 1, size |-> size]
           a == SubSeq(F, 1, v3)
           b == a \o <<f>>
           c == SubSeq(F, v3 + 2, Len(F))
<1>1. F \in Seq(Copy!Frames) /\ v3 \in 0 .. Len(F) /\ v2.salt \in Nat /\ v2.stamp \in Nat
      /\ v2 \in [salt : Nat, frames : Seq(Copy!Frames), stamp : Nat] /\ v4 \in Nat
         /\ Len(F) \in Nat
  BY DEF Copy!FilesOK
<1>2. f \in Copy!Frames
  <2>1. v3 # 0 => F[v3].value \in Nat
    BY <1>1, FramesAre
  <2> QED
    BY <1>1, <2>1, PagesAssumption DEF Copy!Frames
<1>3. a \in Seq(Copy!Frames) /\ Len(a) = v3 /\ \A n \in 1 .. v3 : a[n] = F[n]
  BY <1>1, Prefix
<1>4. c \in Seq(Copy!Frames) /\ Len(c) = (IF v3 + 2 <= Len(F) THEN Len(F) - v3 - 1 ELSE 0)
      /\ \A n \in 1 .. Len(F) - v3 - 1 : c[n] = F[n + v3 + 1]
  <2>1. \A n \in v3 + 2 .. Len(F) : F[n] \in Copy!Frames
    BY <1>1
  <2>2. v3 + 2 \in Int /\ Len(F) \in Int
    BY <1>1
  <2>3. /\ SubSeq(F, v3 + 2, Len(F)) \in Seq(Copy!Frames)
        /\ Len(SubSeq(F, v3 + 2, Len(F))) = IF v3 + 2 <= Len(F) THEN Len(F) - (v3 + 2) + 1 ELSE 0
        /\ \A n \in 1 .. Len(F) - (v3 + 2) + 1 :
             SubSeq(F, v3 + 2, Len(F))[n] = F[(v3 + 2) + n - 1]
    BY <2>1, <2>2, SubSeqProperties
  <2> QED
    BY <1>1, <2>3
<1>5. v2' = [v2 EXCEPT !.frames = b \o c, !.stamp = v2.stamp + 1]
  BY DEF Copy!WriteFrame
<1>6. v3' = v3 + 1 /\ v4' = v4 + 1 /\ (size = 0 => v7' = v7)
      /\ (size # 0 =>
            /\ \A q \in Len(Copy!Last(v7)) + 1 .. size :
                 \E n \in Len(Copy!Log) + 1 .. v3 + 1 : b[n].page = q
            /\ v7' = v7 \o <<Copy!Over(v1.pages, b)>>)
  BY DEF Copy!WriteFrame
<1> HIDE DEF f, a, c
<1>7. b \in Seq(Copy!Frames) /\ Len(b) = v3 + 1 /\ b[v3 + 1] = f /\ \A n \in 1 .. v3 : b[n] = F[n]
  <2>1. <<f>> \in Seq(Copy!Frames) /\ Len(<<f>>) = 1 /\ <<f>>[1] = f
    BY <1>2
  <2> HIDE DEF F
  <2>2. /\ a \o <<f>> \in Seq(Copy!Frames) /\ Len(a \o <<f>>) = Len(a) + Len(<<f>>)
        /\ \A n \in 1 .. Len(a) + Len(<<f>>) :
             (a \o <<f>>)[n] = IF n <= Len(a) THEN a[n] ELSE <<f>>[n - Len(a)]
    BY <1>3, <2>1, ConcatProperties
  <2> DEFINE d == <<f>>
  <2>3. /\ b \in Seq(Copy!Frames) /\ Len(b) = v3 + 1 /\ v3 \in Nat
        /\ \A n \in 1 .. v3 + 1 : b[n] = IF n <= v3 THEN a[n] ELSE d[n - v3]
    BY <1>1, <1>3, <2>1, <2>2
  <2>4. d[1] = f
    OBVIOUS
  <2> HIDE DEF d, b
  <2>5. b[v3 + 1] = f
    BY <2>3, <2>4
  <2> QED
    BY <1>3, <2>3, <2>5
<1> HIDE DEF b
<1>8. /\ b \o c \in Seq(Copy!Frames) /\ Len(b \o c) = Len(b) + Len(c)
      /\ \A n \in 1 .. Len(b) + Len(c) : (b \o c)[n] = IF n <= Len(b) THEN b[n] ELSE c[n - Len(b)]
  BY <1>4, <1>7, ConcatProperties
<1> DEFINE g == b \o c
<1>9. v2'.frames = g /\ v2'.salt = v2.salt /\ v2'.stamp = v2.stamp + 1
      /\ v2' \in [salt : Nat, frames : Seq(Copy!Frames), stamp : Nat]
  <2>1. g \in Seq(Copy!Frames)
    BY <1>8
  <2>2. v2' = [v2 EXCEPT !.frames = g, !.stamp = v2.stamp + 1]
    BY <1>5
  <2> HIDE DEF g, F
  <2>3. v2'.frames = g /\ v2'.salt = v2.salt /\ v2'.stamp = v2.stamp + 1
    BY <1>1, <2>2
  <2>4. v2' = [salt |-> v2.salt, frames |-> g, stamp |-> v2.stamp + 1]
    BY <1>1, <2>2
  <2>5. v2' \in [salt : Nat, frames : Seq(Copy!Frames), stamp : Nat]
    BY <1>1, <2>1, <2>4
  <2> QED
    BY <2>3, <2>5
<1> HIDE DEF g
<1>10. g \in Seq(Copy!Frames) /\ v3 + 1 <= Len(g) /\ Len(g) \in Nat
       /\ (\A n \in 1 .. v3 + 1 : g[n] = b[n])
       /\ \A n \in v3 + 2 .. Len(g) : n <= Len(F) /\ g[n] = F[n]
  <2>1. g \in Seq(Copy!Frames) /\ Len(g) = v3 + 1 + Len(c) /\ Len(c) \in Nat
    BY <1>1, <1>4, <1>7, <1>8 DEF g
  <2>2. \A n \in 1 .. Len(g) : g[n] = IF n <= v3 + 1 THEN b[n] ELSE c[n - (v3 + 1)]
    BY <1>7, <1>8, <2>1 DEF g
  <2>3. ASSUME NEW n \in v3 + 2 .. Len(g) PROVE n <= Len(F) /\ g[n] = F[n]
    <3>1. n - (v3 + 1) \in 1 .. Len(F) - v3 - 1
      <4>1. v3 + 2 <= Len(F) /\ Len(c) = Len(F) - v3 - 1
        <5>1. Len(c) # 0 /\ Len(F) \in Nat /\ v3 \in Nat
          BY <1>1, <2>1
        <5>2. Len(c) = IF v3 + 2 <= Len(F) THEN Len(F) - v3 - 1 ELSE 0
          BY <1>4
        <5> HIDE DEF F
        <5> QED
          BY <5>1, <5>2
      <4> QED
        BY <1>1, <2>1, <4>1
    <3>2. c[n - (v3 + 1)] = F[(n - (v3 + 1)) + v3 + 1]
      BY <1>4, <3>1
    <3>3. (n - (v3 + 1)) + v3 + 1 = n /\ n <= Len(F) /\ n \in 1 .. Len(g) /\ ~ (n <= v3 + 1)
      BY <1>1, <2>1, <3>1
    <3> QED
      BY <2>2, <3>2, <3>3
  <2> QED
    BY <1>1, <2>1, <2>2, <2>3
<1>11. SubSeq(g, 1, v3 + 1) = b
  <2>1. SubSeq(b, 1, v3 + 1) = b
    BY <1>7, SubSeqFull
  <2>2. v3 + 1 \in Nat
    BY <1>1
  <2>3. SubSeq(g, 1, v3 + 1) = SubSeq(b, 1, v3 + 1)
    BY <1>7, <1>10, <2>2, SamePrefix
  <2> QED
    BY <2>1, <2>3
<1>12. \A n \in 1 .. v3 : g[n] = F[n]
  BY <1>1, <1>7, <1>10
<1>13. g[v3 + 1] = f
  BY <1>1, <1>7, <1>10
<1>14. size # 0 => \A q \in Len(Copy!Last(v7)) + 1 .. size :
                     \E n \in Len(Copy!Log) + 1 .. v3 + 1 : g[n].page = q
  <2>1. \A n \in Len(Copy!Log) + 1 .. v3 + 1 : g[n] = b[n]
    BY <1>1, <1>10, LogIs
  <2> QED
    BY <1>6, <2>1
<1> QED
  BY <1>6, <1>9, <1>10, <1>11, <1>12, <1>13, <1>14 DEF f

\* A database that has shrunk once has done so for ever.
LEMMA ShrunkStays ==
  ASSUME Copy!FilesOK, Copy!FilesOK', Len(v7) <= Len(v7'),
         \A n \in DOMAIN v7 : v7'[n] = v7[n]
  PROVE  Copy!Shrunk => Copy!Shrunk'
<1>1. v7 \in Seq(Seq(Nat)) /\ v7' \in Seq(Seq(Nat))
  BY DEF Copy!FilesOK
<1>2. DOMAIN v7 \subseteq DOMAIN v7'
  BY <1>1
<1>3. \A n \in DOMAIN v7 : Len(v7'[n]) = Len(v7[n])
  OBVIOUS
<1> QED
  BY <1>2, <1>3 DEF Copy!Shrunk

\* A commit adds what the database is to the history.
LEMMA HistoryGrows ==
  ASSUME Copy!FilesOK, NEW image \in Seq(Nat), v7' = v7 \o <<image>>
  PROVE  /\ v7' \in Seq(Seq(Nat)) /\ v7' # <<>> /\ Len(v7') = Len(v7) + 1
         /\ v7'[Len(v7) + 1] = image
         /\ \A n \in 1 .. Len(v7) : v7'[n] = v7[n]
<1> DEFINE h == v7
           e == <<image>>
<1>1. h \in Seq(Seq(Nat)) /\ Len(h) \in Nat
  BY DEF Copy!FilesOK
<1>2. e \in Seq(Seq(Nat)) /\ Len(e) = 1 /\ e[1] = image
  OBVIOUS
<1>3. v7' = h \o e
  OBVIOUS
<1> HIDE DEF h, e
<1>4. /\ h \o e \in Seq(Seq(Nat)) /\ Len(h \o e) = Len(h) + Len(e)
      /\ \A n \in 1 .. Len(h) + Len(e) : (h \o e)[n] = IF n <= Len(h) THEN h[n] ELSE e[n - Len(h)]
  BY <1>1, <1>2, ConcatProperties
<1>5. v7' \in Seq(Seq(Nat)) /\ Len(v7') = Len(h) + 1
  BY <1>2, <1>3, <1>4
<1>6. v7'[Len(h) + 1] = e[1]
  BY <1>1, <1>2, <1>3, <1>4
<1>7. \A n \in 1 .. Len(h) : v7'[n] = h[n]
  BY <1>1, <1>2, <1>3, <1>4
<1>8. v7' # <<>>
  BY <1>1, <1>5
<1> QED
  BY <1>2, <1>5, <1>6, <1>7, <1>8 DEF h

\* The last commit has as many pages as its last frame says, or as the main file.
LEMMA LastLength ==
  ASSUME Copy!FilesOK, Copy!Over(v1.pages, Copy!Log) = Copy!Last(v7)
  PROVE  /\ Len(Copy!Log) # 0 => Len(Copy!Last(v7)) = v2.frames[Len(Copy!Log)].size
         /\ Len(Copy!Log) = 0 => Copy!Last(v7) = v1.pages
<1>1. v1.pages \in Seq(Nat)
  BY DEF Copy!FilesOK
<1>2. CASE Len(Copy!Log) # 0
  <2>1. Copy!Log \in Seq(Copy!Frames) /\ Copy!Log # <<>>
    BY <1>2, LogIs
  <2>2. Copy!Log[Len(Copy!Log)] = v2.frames[Len(Copy!Log)]
    BY <1>2, LogIs
  <2>3. Len(Copy!Over(v1.pages, Copy!Log)) = Copy!Log[Len(Copy!Log)].size
    BY <1>1, <2>1, OverIs
  <2> QED
    BY <1>2, <2>2, <2>3
<1>3. CASE Len(Copy!Log) = 0
  <2>1. Copy!Log = <<>>
    BY <1>3, LogIs
  <2> QED
    BY <1>3, <2>1, OverNothing
<1> QED
  BY <1>2, <1>3

\* A frame written behind the live ones continues their chain, and no commit of an
\* older log continues it.
LEMMA WriteFiles ==
  ASSUME Copy!SourceInv, NEW p \in 1 .. MaxPages, NEW size \in 0 .. MaxPages,
         Copy!WriteFrame(p, size)
  PROVE  Copy!FilesOK' /\ Copy!ChainOK'
<1>1. Copy!FilesOK /\ Copy!ChainOK
  BY DEF Copy!SourceInv
<1> DEFINE f == [salt |-> v2.salt, after |-> IF v3 = 0 THEN 0 ELSE v2.frames[v3].value,
                 page |-> p, value |-> v4 + 1, size |-> size]
<1>2. /\ v2'.frames \in Seq(Copy!Frames)
         /\ v2' \in [salt : Nat, frames : Seq(Copy!Frames), stamp : Nat]
      /\ v2'.salt = v2.salt /\ v2'.stamp = v2.stamp + 1
      /\ v3' = v3 + 1 /\ v3' <= Len(v2'.frames) /\ v4' = v4 + 1
      /\ \A n \in 1 .. v3 : v2'.frames[n] = v2.frames[n]
      /\ v2'.frames[v3 + 1] = f
      /\ \A n \in v3 + 2 .. Len(v2'.frames) :
           n <= Len(v2.frames) /\ v2'.frames[n] = v2.frames[n]
      /\ size = 0 => v7' = v7
      /\ size # 0 => v7' = v7 \o <<Copy!Over(v1.pages, SubSeq(v2'.frames, 1, v3 + 1))>>
  BY <1>1, WriteFacts
<1>3. v1' = v1 /\ v5' = v5 /\ v6' = v6
  BY DEF Copy!WriteFrame
<1>4. /\ v1 \in [pages : Seq(Nat), stamp : Nat] /\ v1.pages \in Seq(Nat) /\ v4 \in Nat
      /\ v6 \in Nat
      /\ v5 \in [of : Nat, todo : SUBSET Nat, rounds : Nat]
      /\ v7 \in Seq(Seq(Nat)) /\ v7 # <<>>
      /\ v3 \in Nat /\ v3 <= Len(v2.frames) /\ Len(v2.frames) \in Nat /\ v2.salt \in Nat
  BY <1>1 DEF Copy!FilesOK
<1>5. v7' \in Seq(Seq(Nat)) /\ v7' # <<>>
  <2>1. CASE size = 0
    BY <1>2, <1>4, <2>1
  <2>2. CASE size # 0
    <3> DEFINE g == SubSeq(v2'.frames, 1, v3 + 1)
    <3>1. v3 + 1 \in 0 .. Len(v2'.frames) /\ v3 + 1 \in Nat \ {0}
      BY <1>2, <1>4
    <3>2. g \in Seq(Copy!Frames) /\ Len(g) = v3 + 1
      BY <1>2, <3>1, Prefix
    <3> HIDE DEF g
    <3>3. g # <<>>
      BY <3>1, <3>2
    <3>4. Copy!Over(v1.pages, g) \in Seq(Nat)
      BY <1>4, <3>2, <3>3, OverIs
    <3>5. v7' = v7 \o <<Copy!Over(v1.pages, g)>>
      BY <1>2, <2>2 DEF g
    <3> QED
      BY <1>1, <3>4, <3>5, HistoryGrows
  <2> QED
    BY <2>1, <2>2
<1>6. v3' \in 0 .. Len(v2'.frames)
  BY <1>2, <1>4
<1>7. Copy!FilesOK'
  BY <1>2, <1>3, <1>4, <1>5, <1>6 DEF Copy!FilesOK
<1>8. \A n \in DOMAIN v2.frames :
        /\ v2.frames[n].salt <= v2.salt
        /\ v2.frames[n].after <= v4 /\ v2.frames[n].value <= v4
        /\ v2.frames[n].after \in Nat /\ v2.frames[n].value \in Nat
  BY <1>1, FramesAre DEF Copy!ChainOK
<1>9. v3 # 0 => v2.frames[v3].value <= v4 /\ v2.frames[v3].value \in Nat
  BY <1>4, <1>8
<1> HIDE DEF f
<1>10. f.salt = v2.salt /\ f.after <= v4 + 1 /\ f.value = v4 + 1
       /\ f.after = IF v3 = 0 THEN 0 ELSE v2.frames[v3].value
  <2>1. f.salt = v2.salt /\ f.value = v4 + 1 /\ f.after = IF v3 = 0 THEN 0 ELSE v2.frames[v3].value
    BY DEF f
  <2>2. v4 \in Nat
    BY <1>4
  <2>3. CASE v3 = 0
    BY <2>1, <2>2, <2>3
  <2>4. CASE v3 # 0
    <3>1. PICK n \in Nat : n = v2.frames[v3].value
      BY <1>9, <2>4
    <3>2. n <= v4 /\ f.after = n
      BY <1>9, <2>1, <2>4, <3>1
    <3> QED
      BY <2>1, <2>2, <3>1, <3>2
  <2> QED
    BY <2>3, <2>4
<1> DEFINE F == v2.frames
           G == v2'.frames
<1>15. /\ Len(G) \in Nat /\ DOMAIN G = 1 .. Len(G) /\ DOMAIN F = 1 .. Len(F) /\ Len(F) \in Nat
       /\ v3 \in Nat /\ v3 + 1 <= Len(G) /\ v3 <= Len(F) /\ v4 \in Nat
  BY <1>1, <1>2, <1>4, FramesAre
<1>16. /\ \A n \in 1 .. v3 : G[n] = F[n]
       /\ \A n \in v3 + 2 .. Len(G) : n <= Len(F) /\ G[n] = F[n]
       /\ G[v3 + 1] = f
  BY <1>2
<1> HIDE DEF F, G
<1>11. ASSUME NEW n \in DOMAIN v2'.frames
       PROVE  /\ v2'.frames[n].salt <= v2.salt
              /\ v2'.frames[n].after <= v4 + 1 /\ v2'.frames[n].value <= v4 + 1
  <2>1. n \in 1 .. Len(G)
    BY <1>15 DEF G
  <2>2. CASE n = v3 + 1
    BY <1>2, <1>4, <1>10, <2>2
  <2>3. CASE n # v3 + 1
    <3>1. n \in DOMAIN F /\ G[n] = F[n]
      <4>1. CASE n <= v3
        BY <1>15, <1>16, <2>1, <4>1
      <4>2. CASE n > v3
        <5>1. n \in v3 + 2 .. Len(G)
          BY <1>15, <2>1, <2>3, <4>2
        <5> QED
          BY <1>15, <1>16, <2>1, <5>1
      <4> QED
        BY <1>15, <2>1, <4>1, <4>2
    <3>2. F[n].salt <= v2.salt /\ F[n].after <= v4 /\ F[n].value <= v4
          /\ F[n].after \in Nat /\ F[n].value \in Nat
      BY <1>8, <3>1 DEF F
    <3>3. F[n].after <= v4 + 1 /\ F[n].value <= v4 + 1
      <4> DEFINE x == F[n].after
                 y == F[n].value
      <4>1. x <= v4 /\ x \in Nat /\ y <= v4 /\ y \in Nat
        BY <3>2
      <4> HIDE DEF x, y
      <4>2. x <= v4 + 1 /\ y <= v4 + 1
        BY <1>15, <4>1
      <4> QED
        BY <4>2 DEF x, y
    <3> QED
      BY <3>1, <3>2, <3>3 DEF F, G
  <2> QED
    BY <2>2, <2>3
<1>12. ASSUME NEW n \in 1 .. v3 + 1 PROVE Copy!Chained(v2'.frames, v2.salt, n)
  <2>1. CASE n = v3 + 1
    <3>1. n - 1 = v3 /\ (n = 1 <=> v3 = 0)
      BY <1>4, <2>1
    <3>2. v3 # 0 => v2'.frames[v3] = v2.frames[v3]
      BY <1>15, <1>16 DEF F, G
    <3> QED
      BY <1>2, <1>10, <2>1, <3>1, <3>2 DEF Copy!Chained
  <2>2. CASE n # v3 + 1
    <3>1. n \in 1 .. v3 /\ v2'.frames[n] = v2.frames[n] /\ Copy!Chained(v2.frames, v2.salt, n)
      <4>1. n \in 1 .. v3
        BY <1>15, <2>2
      <4> QED
        BY <1>1, <1>16, <4>1 DEF Copy!ChainOK, F, G
    <3>2. n # 1 => v2'.frames[n - 1] = v2.frames[n - 1]
      <4>1. n # 1 => n - 1 \in 1 .. v3
        BY <1>15, <3>1
      <4> QED
        BY <1>16, <4>1 DEF F, G
    <3> QED
      BY <3>1, <3>2 DEF Copy!Chained
  <2> QED
    BY <2>1, <2>2
<1>13. ASSUME NEW n \in v3 + 2 .. Len(v2'.frames),
              \A k \in v3 + 2 .. n : Copy!Chained(v2'.frames, v2.salt, k)
       PROVE  FALSE
  <2>1. v3 + 2 \in v3 + 2 .. n /\ v3 + 2 \in v3 + 2 .. Len(v2'.frames)
        /\ v3 + 2 \in DOMAIN v2.frames /\ v3 + 2 # 1 /\ (v3 + 2) - 1 = v3 + 1
    <3>1. n \in v3 + 2 .. Len(G)
      BY <1>13 DEF G
    <3>2. v3 + 2 \in v3 + 2 .. n /\ v3 + 2 \in v3 + 2 .. Len(G)
      BY <1>15, <3>1
    <3>3. v3 + 2 \in DOMAIN F
      BY <1>15, <1>16, <3>2
    <3> QED
      BY <1>15, <3>2, <3>3 DEF F, G
  <2>2. v2'.frames[v3 + 2].after = v2'.frames[v3 + 1].value
    <3>1. Copy!Chained(v2'.frames, v2.salt, v3 + 2)
      BY <1>13, <2>1
    <3> QED
      BY <2>1, <3>1 DEF Copy!Chained
  <2>3. v2.frames[v3 + 2].after = v4 + 1
    BY <1>2, <1>10, <2>1, <2>2
  <2> QED
    BY <1>4, <1>8, <2>1, <2>3
<1>14. Copy!ChainOK'
  <2>1. v3' + 1 = v3 + 2
    BY <1>2, <1>4
  <2>2. \A n \in v3' + 1 .. Len(v2'.frames) :
          (\A k \in v3' + 1 .. n : Copy!Chained(v2'.frames, v2'.salt, k)) => v2'.frames[n].size = 0
    BY <1>2, <1>13, <2>1
  <2>3. \A n \in 1 .. v3' : Copy!Chained(v2'.frames, v2'.salt, n)
    BY <1>2, <1>12
  <2>4. \A n \in DOMAIN v2'.frames :
          /\ v2'.frames[n].salt <= v2'.salt
          /\ v2'.frames[n].after <= v4' /\ v2'.frames[n].value <= v4'
    BY <1>2, <1>11
  <2> QED
    BY <2>2, <2>3, <2>4 DEF Copy!ChainOK, Copy!Chained
<1> QED
  BY <1>7, <1>14

\* What is said of the log stays true while its commits do.
LEMMA LogStays ==
  ASSUME Copy!FilesOK, Copy!FilesOK', Copy!LogOK, v1' = v1, v7' = v7, Copy!Ends' = Copy!Ends,
         Copy!Log' = Copy!Log,
         \A n \in 1 .. Len(Copy!Log) : v2'.frames[n] = v2.frames[n]
  PROVE  Copy!LogOK'
<1>1. /\ Copy!Over(v1.pages, Copy!Log) = Copy!Last(v7) /\ Copy!Grown /\ Copy!Recorded
      /\ \A i \in Copy!Ends : v2.frames[i].size <= Len(v1.pages) + i \/ Copy!Shrunk
  BY DEF Copy!LogOK
<1>2. Copy!Ends \subseteq 1 .. Len(Copy!Log) /\ Len(Copy!Log) \in Nat
  BY LogIs
<1>3. \A i \in Copy!Ends : i \in Nat /\ v2'.frames[i] = v2.frames[i]
  BY <1>2
<1>4. Copy!Grown'
  <2> SUFFICES ASSUME NEW i \in Copy!Ends, NEW j \in Copy!Ends, i < j,
                      NEW q \in v2.frames[i].size + 1 .. v2.frames[j].size
               PROVE  \E n \in i + 1 .. j : v2'.frames[n].page = q
    BY <1>3 DEF Copy!Grown
  <2>1. PICK n \in i + 1 .. j : v2.frames[n].page = q
    BY <1>1 DEF Copy!Grown
  <2>2. n \in 1 .. Len(Copy!Log)
    BY <1>2, <1>3
  <2> QED
    BY <2>1, <2>2
<1>5. Copy!Recorded'
  BY <1>1, <1>3 DEF Copy!Recorded
<1>6. Copy!Shrunk' = Copy!Shrunk
  BY DEF Copy!Shrunk
<1>7. \A i \in Copy!Ends' : v2'.frames[i].size <= Len(v1'.pages) + i \/ Copy!Shrunk'
  BY <1>1, <1>3, <1>6
<1>8. Copy!Over(v1'.pages, Copy!Log') = Copy!Last(v7')
  BY <1>1
<1> QED
  BY <1>4, <1>5, <1>7, <1>8 DEF Copy!LogOK

\* A frame that does not commit leaves the log as it was.
LEMMA WritePart ==
  ASSUME Copy!SourceInv, NEW p \in 1 .. MaxPages, Copy!WriteFrame(p, 0)
  PROVE  Copy!SourceInv'
<1>1. Copy!FilesOK /\ Copy!ChainOK /\ Copy!LogOK /\ Copy!CheckpointOK
  BY DEF Copy!SourceInv
<1>2. 0 \in 0 .. MaxPages
  BY PagesAssumption
<1>3. Copy!FilesOK' /\ Copy!ChainOK'
  BY <1>2, WriteFiles
<1>4. /\ v3' = v3 + 1
      /\ \A n \in 1 .. v3 : v2'.frames[n] = v2.frames[n]
      /\ v2'.frames[v3 + 1].size = 0
      /\ v7' = v7
  <2>1. /\ v3' = v3 + 1
        /\ \A n \in 1 .. v3 : v2'.frames[n] = v2.frames[n]
        /\ v2'.frames[v3 + 1] =
              [salt |-> v2.salt, after |-> IF v3 = 0 THEN 0 ELSE v2.frames[v3].value,
               page |-> p, value |-> v4 + 1, size |-> 0]
        /\ v7' = v7
    BY <1>1, <1>2, WriteFacts
  <2> QED
    BY <2>1
<1>5. v1' = v1 /\ v5' = v5 /\ v6' = v6
  BY DEF Copy!WriteFrame
<1>6. /\ Len(Copy!Log) \in 0 .. v3 /\ Copy!Log = SubSeq(v2.frames, 1, Len(Copy!Log))
      /\ Copy!Ends \subseteq 1 .. Len(Copy!Log)
         /\ (Len(Copy!Log) # 0 => Len(Copy!Log) \in Copy!Ends)
  BY <1>1, LogIs
<1>7. v3 \in Nat /\ v3 <= Len(v2.frames) /\ v2.frames \in Seq(Copy!Frames)
      /\ v3' <= Len(v2'.frames) /\ v2'.frames \in Seq(Copy!Frames)
      /\ (\A n \in 1 .. v3 : v2.frames[n].size \in Nat)
  <2>1. v3' <= Len(v2'.frames) /\ v2'.frames \in Seq(Copy!Frames)
    BY <1>3 DEF Copy!FilesOK
  <2> QED
    BY <1>1, <1>3, <2>1, FramesAre
<1>8. Copy!Ends' = Copy!Ends
  <2>1. Copy!Ends' = {n \in 1 .. v3 + 1 : v2'.frames[n].size > 0}
    BY <1>4 DEF Copy!Ends
  <2>2. ASSUME NEW n \in 1 .. v3 + 1 PROVE n \in Copy!Ends <=> v2'.frames[n].size > 0
    <3>1. CASE n = v3 + 1
      BY <1>4, <1>6, <1>7, <3>1
    <3>2. CASE n # v3 + 1
      <4>1. n \in 1 .. v3
        BY <1>7, <3>2
      <4> QED
        BY <1>4, <4>1 DEF Copy!Ends
    <3> QED
      BY <3>1, <3>2
  <2>3. Copy!Ends \subseteq 1 .. v3 + 1
    BY <1>7 DEF Copy!Ends
  <2> QED
    BY <2>1, <2>2, <2>3
<1>9. Copy!Log' = Copy!Log /\ Len(Copy!Log') = Len(Copy!Log)
  <2> DEFINE l == Len(Copy!Log)
  <2>1. l \in 0 .. v3' /\ l \in Nat /\ l <= Len(v2.frames) /\ l <= Len(v2'.frames)
    BY <1>4, <1>6, <1>7
  <2>2. l = 0 \/ v2'.frames[l].size > 0
    BY <1>4, <1>6 DEF Copy!Ends
  <2>3. \A n \in l + 1 .. v3' : v2'.frames[n].size = 0
    <3> TAKE n \in l + 1 .. v3'
    <3>1. CASE n = v3 + 1
      BY <1>4, <3>1
    <3>2. CASE n # v3 + 1
      <4>1. n \in 1 .. v3 /\ n \notin Copy!Ends
        BY <1>4, <1>6, <1>7, <3>2
      <4>2. v2.frames[n].size = 0
        BY <1>7, <4>1 DEF Copy!Ends
      <4> QED
        BY <1>4, <4>1, <4>2
    <3> QED
      BY <3>1, <3>2
  <2>4. LogUpTo'
    BY <1>3, LogAt, PTL
  <2>5. SubSeq(v2'.frames, 1, l) = SubSeq(v2.frames, 1, l)
    <3>1. \A n \in 1 .. l : v2'.frames[n] = v2.frames[n]
      BY <1>4, <1>6, <1>7
    <3> HIDE DEF l
    <3> QED
      BY <1>7, <2>1, <3>1, SamePrefix
  <2> HIDE DEF l
  <2>6. Copy!Log' = SubSeq(v2'.frames, 1, l) /\ Len(Copy!Log') = l
    BY <2>1, <2>2, <2>3, <2>4 DEF LogUpTo
  <2> QED
    BY <1>6, <2>5, <2>6 DEF l
<1>10. \A n \in 1 .. Len(Copy!Log) : v2'.frames[n] = v2.frames[n]
  BY <1>4, <1>6, <1>7
<1>11. Copy!LogOK'
  BY <1>1, <1>3, <1>4, <1>5, <1>8, <1>9, <1>10, LogStays
<1>12. Copy!CheckpointOK'
  <2>1. \A n \in Copy!Ends : v2'.frames[n] = v2.frames[n]
    BY <1>6, <1>10
  <2> QED
    BY <1>1, <1>4, <1>5, <1>8, <1>9, <2>1 DEF Copy!CheckpointOK
<1> QED
  BY <1>3, <1>11, <1>12 DEF Copy!SourceInv

\* Where the pages of a commit fit, a later one with as many more fits.
LEMMA Room ==
  ASSUME NEW s \in Nat, NEW b \in Nat, NEW m \in Nat, NEW k \in Nat, NEW l \in Nat,
         s <= b + (k - l), b <= m + l
  PROVE  s <= m + k
OBVIOUS

\* A frame that commits makes the log one commit longer.
LEMMA WriteCommit ==
  ASSUME Copy!SourceInv, NEW p \in 1 .. MaxPages, NEW size \in 1 .. MaxPages,
         Copy!WriteFrame(p, size)
  PROVE  Copy!SourceInv'
<1>1. Copy!FilesOK /\ Copy!ChainOK /\ Copy!LogOK /\ Copy!CheckpointOK
  BY DEF Copy!SourceInv
<1>2. size \in 0 .. MaxPages /\ size # 0 /\ size \in Nat
  BY PagesAssumption
<1>3. Copy!FilesOK' /\ Copy!ChainOK'
  BY <1>2, WriteFiles
<1> DEFINE g == SubSeq(v2'.frames, 1, v3 + 1)
<1>4. /\ v3' = v3 + 1
      /\ \A n \in 1 .. v3 : v2'.frames[n] = v2.frames[n]
      /\ v2'.frames[v3 + 1].size = size
      /\ \A q \in Len(Copy!Last(v7)) + 1 .. size :
           \E n \in Len(Copy!Log) + 1 .. v3 + 1 : v2'.frames[n].page = q
      /\ v7' = v7 \o <<Copy!Over(v1.pages, g)>>
  <2>1. /\ v3' = v3 + 1
        /\ \A n \in 1 .. v3 : v2'.frames[n] = v2.frames[n]
        /\ v2'.frames[v3 + 1] =
              [salt |-> v2.salt, after |-> IF v3 = 0 THEN 0 ELSE v2.frames[v3].value,
               page |-> p, value |-> v4 + 1, size |-> size]
        /\ \A q \in Len(Copy!Last(v7)) + 1 .. size :
             \E n \in Len(Copy!Log) + 1 .. v3 + 1 : v2'.frames[n].page = q
        /\ v7' = v7 \o <<Copy!Over(v1.pages, SubSeq(v2'.frames, 1, v3 + 1))>>
    BY <1>1, <1>2, WriteFacts
  <2> QED
    BY <2>1
<1>5. v1' = v1 /\ v5' = v5 /\ v6' = v6
  BY DEF Copy!WriteFrame
<1>6. /\ Len(Copy!Log) \in 0 .. v3 /\ Copy!Log = SubSeq(v2.frames, 1, Len(Copy!Log))
      /\ Copy!Ends \subseteq 1 .. Len(Copy!Log)
         /\ (Len(Copy!Log) # 0 => Len(Copy!Log) \in Copy!Ends)
  BY <1>1, LogIs
<1>7. v3 \in Nat /\ v3 <= Len(v2.frames) /\ v2.frames \in Seq(Copy!Frames)
      /\ v3' <= Len(v2'.frames) /\ v2'.frames \in Seq(Copy!Frames)
      /\ (\A n \in 1 .. v3 : v2.frames[n].size \in Nat)
      /\ v1.pages \in Seq(Nat) /\ Len(v1.pages) \in Nat /\ Len(v7) \in Nat \ {0}
      /\ v7 \in Seq(Seq(Nat))
  <2>1. v3' <= Len(v2'.frames) /\ v2'.frames \in Seq(Copy!Frames)
    BY <1>3 DEF Copy!FilesOK
  <2>2. v1.pages \in Seq(Nat) /\ v7 \in Seq(Seq(Nat)) /\ v7 # <<>>
    BY <1>1 DEF Copy!FilesOK
  <2>3. Len(v1.pages) \in Nat /\ Len(v7) \in Nat \ {0}
    BY <2>2
  <2>4. \A n \in 1 .. v3 : v2.frames[n].size \in Nat
    BY <1>1, FramesAre
  <2> QED
    BY <1>1, <1>3, <2>1, <2>2, <2>3, <2>4, FramesAre
<1>8. Copy!Ends' = Copy!Ends \union {v3 + 1}
  <2>1. Copy!Ends' = {n \in 1 .. v3 + 1 : v2'.frames[n].size > 0}
    BY <1>4 DEF Copy!Ends
  <2>2. ASSUME NEW n \in 1 .. v3 + 1 PROVE n \in Copy!Ends \union {v3 + 1} <=> v2'.frames[n].size > 0
    <3>1. CASE n = v3 + 1
      BY <1>2, <1>4, <3>1
    <3>2. CASE n # v3 + 1
      <4>1. n \in 1 .. v3
        BY <1>7, <3>2
      <4> QED
        BY <1>4, <3>2, <4>1 DEF Copy!Ends
    <3> QED
      BY <3>1, <3>2
  <2>3. Copy!Ends \union {v3 + 1} \subseteq 1 .. v3 + 1
    BY <1>7 DEF Copy!Ends
  <2> QED
    BY <2>1, <2>2, <2>3
<1>9. Copy!Log' = g /\ Len(Copy!Log') = v3 + 1
  <2> DEFINE l == v3 + 1
  <2>1. l \in 0 .. v3' /\ l # 0 /\ \A n \in l + 1 .. v3' : FALSE
    BY <1>4, <1>7
  <2>2. v2'.frames[l].size > 0
    BY <1>2, <1>4
  <2>4. LogUpTo'
    BY <1>3, LogAt, PTL
  <2> HIDE DEF l
  <2>5. Copy!Log' = SubSeq(v2'.frames, 1, l) /\ Len(Copy!Log') = l
    BY <2>1, <2>2, <2>4 DEF LogUpTo
  <2> QED
    BY <2>5 DEF l
<1>10. g \in Seq(Copy!Frames) /\ g # <<>> /\ Len(g) = v3 + 1 /\ g[v3 + 1].size = size
  <2>1. v3 + 1 \in 0 .. Len(v2'.frames) /\ v3 + 1 \in 1 .. v3 + 1 /\ v3 + 1 # 0
    BY <1>4, <1>7
  <2>2. /\ g \in Seq(Copy!Frames) /\ Len(g) = v3 + 1
        /\ \A n \in 1 .. v3 + 1 : g[n] = v2'.frames[n]
    BY <1>7, <2>1, Prefix
  <2> HIDE DEF g
  <2> QED
    BY <1>4, <2>1, <2>2
<1> HIDE DEF g
<1> DEFINE image == Copy!Over(v1.pages, g)
<1>11. image \in Seq(Nat) /\ Len(image) = size
  BY <1>7, <1>10, OverIs
<1>12. v7' = v7 \o <<image>>
  BY <1>4
<1> HIDE DEF image
<1>13. /\ v7' \in Seq(Seq(Nat)) /\ Len(v7') = Len(v7) + 1
       /\ v7'[Len(v7) + 1] = image
       /\ \A n \in 1 .. Len(v7) : v7'[n] = v7[n]
  BY <1>1, <1>11, <1>12, HistoryGrows
<1>14. Copy!Over(v1'.pages, Copy!Log') = Copy!Last(v7')
  <2>1. Copy!Last(v7') = image
    BY <1>13 DEF Copy!Last
  <2> QED
    BY <1>5, <1>9, <2>1 DEF image
<1>15. \A i \in Copy!Ends : i \in Nat /\ i \in 1 .. v3 /\ i < v3 + 1 /\ i <= Len(Copy!Log)
         /\ v2'.frames[i] = v2.frames[i] /\ v2.frames[i].size \in Nat
  BY <1>4, <1>6, <1>7
<1>16. /\ Copy!Over(v1.pages, Copy!Log) = Copy!Last(v7) /\ Copy!Grown /\ Copy!Recorded
       /\ \A i \in Copy!Ends : v2.frames[i].size <= Len(v1.pages) + i \/ Copy!Shrunk
  BY <1>1 DEF Copy!LogOK
<1>17. /\ Len(Copy!Log) # 0 => Len(Copy!Last(v7)) = v2.frames[Len(Copy!Log)].size
       /\ Len(Copy!Log) = 0 => Copy!Last(v7) = v1.pages
  BY <1>1, <1>16, LastLength
<1>18. ASSUME NEW i \in Copy!Ends, NEW q \in v2.frames[i].size + 1 .. size
       PROVE  \E n \in i + 1 .. v3 + 1 : v2'.frames[n].page = q
  <2> DEFINE l == Len(Copy!Log)
  <2>1. l \in Copy!Ends /\ l \in Nat /\ i <= l /\ l <= v3
    BY <1>6, <1>15
  <2>2. Len(Copy!Last(v7)) = v2.frames[l].size /\ v2.frames[l].size \in Nat
    BY <1>15, <1>17, <2>1
  <2>3. CASE q <= v2.frames[l].size
    <3>1. i < l
      <4>1. i # l
        BY <1>15, <2>2, <2>3
      <4> QED
        BY <1>15, <2>1, <4>1
    <3>2. q \in v2.frames[i].size + 1 .. v2.frames[l].size
      BY <1>15, <2>2, <2>3
    <3>3. PICK n \in i + 1 .. l : v2.frames[n].page = q
      BY <1>16, <2>1, <3>1, <3>2 DEF Copy!Grown
    <3>4. n \in 1 .. v3 /\ n \in i + 1 .. v3 + 1
      BY <1>7, <1>15, <2>1
    <3> QED
      BY <1>4, <3>3, <3>4
  <2>4. CASE ~ (q <= v2.frames[l].size)
    <3>1. q \in Len(Copy!Last(v7)) + 1 .. size
      BY <1>15, <2>2, <2>4
    <3>2. PICK n \in l + 1 .. v3 + 1 : v2'.frames[n].page = q
      BY <1>4, <3>1
    <3>3. n \in i + 1 .. v3 + 1
      BY <1>7, <1>15, <2>1
    <3> QED
      BY <3>2, <3>3
  <2> QED
    BY <2>3, <2>4
<1>19. Copy!Grown'
  <2> SUFFICES ASSUME NEW i \in Copy!Ends', NEW j \in Copy!Ends', i < j,
                      NEW q \in v2'.frames[i].size + 1 .. v2'.frames[j].size
               PROVE  \E n \in i + 1 .. j : v2'.frames[n].page = q
    BY DEF Copy!Grown
  <2>1. i \in Copy!Ends
    BY <1>7, <1>8, <1>15
  <2>2. CASE j \in Copy!Ends
    <3>1. PICK n \in i + 1 .. j : v2.frames[n].page = q
      BY <1>15, <1>16, <2>1, <2>2 DEF Copy!Grown
    <3>2. n \in 1 .. v3
      BY <1>7, <1>15, <2>1, <2>2
    <3> QED
      BY <1>4, <3>1, <3>2
  <2>3. CASE j = v3 + 1
    BY <1>4, <1>15, <1>18, <2>1, <2>3
  <2> QED
    BY <1>8, <2>2, <2>3
<1>20. Len(Copy!Over(v1.pages, g)) = size /\ DOMAIN v7' = 1 .. Len(v7) + 1
       /\ DOMAIN v7 = 1 .. Len(v7) /\ Len(v7'[Len(v7) + 1]) = size
  BY <1>7, <1>11, <1>13 DEF image
<1>21. \A m \in DOMAIN v7 : m \in DOMAIN v7' /\ m < Len(v7) + 1 /\ v7'[m] = v7[m]
  BY <1>7, <1>13, <1>20
<1>22. Copy!Recorded'
  <2>1. \A i \in Copy!Ends' : \E m \in DOMAIN v7' : Len(v7'[m]) = v2'.frames[i].size
    <3> TAKE i \in Copy!Ends'
    <3>1. CASE i \in Copy!Ends
      <4>1. PICK m \in DOMAIN v7 : Len(v7[m]) = v2.frames[i].size
        BY <1>16, <3>1 DEF Copy!Recorded
      <4> QED
        BY <1>15, <1>21, <3>1, <4>1
    <3>2. CASE i = v3 + 1
      <4>1. Len(v7) + 1 \in DOMAIN v7'
        BY <1>7, <1>20
      <4> QED
        BY <1>4, <1>20, <3>2, <4>1
    <3> QED
      BY <1>8, <3>1, <3>2
  <2>2. ASSUME NEW i \in Copy!Ends', NEW j \in Copy!Ends', i < j
        PROVE  \E m, n \in DOMAIN v7' :
                 m < n /\ Len(v7'[m]) = v2'.frames[i].size /\ Len(v7'[n]) = v2'.frames[j].size
    <3>1. i \in Copy!Ends
      BY <1>7, <1>8, <1>15, <2>2
    <3>2. CASE j \in Copy!Ends
      <4>1. PICK m \in DOMAIN v7, n \in DOMAIN v7 :
              m < n /\ Len(v7[m]) = v2.frames[i].size /\ Len(v7[n]) = v2.frames[j].size
        BY <1>16, <2>2, <3>1, <3>2 DEF Copy!Recorded
      <4> QED
        BY <1>15, <1>21, <3>1, <3>2, <4>1
    <3>3. CASE j = v3 + 1
      <4>1. PICK m \in DOMAIN v7 : Len(v7[m]) = v2.frames[i].size
        BY <1>16, <3>1 DEF Copy!Recorded
      <4>2. Len(v7) + 1 \in DOMAIN v7'
        BY <1>7, <1>20
      <4>3. m \in DOMAIN v7' /\ m < Len(v7) + 1 /\ Len(v7'[m]) = v2'.frames[i].size
            /\ Len(v7'[Len(v7) + 1]) = v2'.frames[j].size
        BY <1>4, <1>15, <1>20, <1>21, <3>1, <3>3, <4>1
      <4> QED
        BY <4>2, <4>3
    <3> QED
      BY <1>8, <3>2, <3>3
  <2> QED
    BY <2>1, <2>2 DEF Copy!Recorded
<1>23. Copy!Shrunk => Copy!Shrunk'
  BY <1>1, <1>3, <1>7, <1>13, <1>21, ShrunkStays
<1>24. size <= Len(v1.pages) + (v3 + 1) \/ Copy!Shrunk
  <2>1. Len(Copy!Log) \in Nat /\ Len(Copy!Log) <= v3 /\ Len(Copy!Log) <= v3 + 1 /\ v3 + 1 \in Nat
    BY <1>6, <1>7
  <2>2. Len(Copy!Last(v7)) \in Nat
    <3>1. CASE Len(Copy!Log) = 0
      BY <1>7, <1>17, <3>1
    <3>2. CASE Len(Copy!Log) # 0
      BY <1>6, <1>15, <1>17, <3>2
    <3> QED
      BY <3>1, <3>2
  <2>3. size <= Len(Copy!Last(v7)) + ((v3 + 1) - Len(Copy!Log))
    <3>1. \A q \in Len(Copy!Last(v7)) + 1 .. size :
            \E n \in Len(Copy!Log) + 1 .. v3 + 1 : v2'.frames[n].page = q
      BY <1>4
    <3>2. v2'.frames \in Seq(Copy!Frames) /\ v3 + 1 <= Len(v2'.frames)
      BY <1>4, <1>7
    <3> QED
      BY <1>2, <2>1, <2>2, <3>1, <3>2, Counted
  <2>4. CASE Len(Copy!Log) = 0
    <3>1. Len(Copy!Last(v7)) = Len(v1.pages)
      BY <1>17, <2>4
    <3>2. size \in Nat /\ v3 \in Nat /\ Len(v1.pages) \in Nat
      BY <1>2, <1>7
    <3>3. size <= Len(v1.pages) + (v3 + 1)
      <4>1. Len(Copy!Last(v7)) <= Len(v1.pages) + Len(Copy!Log)
        BY <2>4, <3>1, <3>2
      <4> QED
        BY <2>1, <2>2, <2>3, <3>2, <4>1, Room
    <3> QED
      BY <3>3
  <2>5. CASE Len(Copy!Log) # 0
    <3>1. Len(Copy!Log) \in Copy!Ends /\ Len(Copy!Last(v7)) = v2.frames[Len(Copy!Log)].size
      BY <1>6, <1>17, <2>5
    <3>2. Len(Copy!Last(v7)) <= Len(v1.pages) + Len(Copy!Log) \/ Copy!Shrunk
      BY <1>16, <3>1
    <3>3. size \in Nat /\ v3 \in Nat /\ Len(v1.pages) \in Nat
      BY <1>2, <1>7
    <3>4. ASSUME Len(Copy!Last(v7)) <= Len(v1.pages) + Len(Copy!Log)
          PROVE  size <= Len(v1.pages) + (v3 + 1)
      BY <2>1, <2>2, <2>3, <3>3, <3>4, Room
    <3> QED
      BY <3>2, <3>4
  <2> QED
    BY <2>4, <2>5
<1>25. \A i \in Copy!Ends' : v2'.frames[i].size <= Len(v1'.pages) + i \/ Copy!Shrunk'
  <2> TAKE i \in Copy!Ends'
  <2>1. CASE i \in Copy!Ends
    BY <1>5, <1>15, <1>16, <1>23, <2>1
  <2>2. CASE i = v3 + 1
    BY <1>4, <1>5, <1>23, <1>24, <2>2
  <2> QED
    BY <1>8, <2>1, <2>2
<1>26. Copy!LogOK'
  BY <1>14, <1>19, <1>22, <1>25 DEF Copy!LogOK
<1>27. Copy!CheckpointOK'
  <2>1. v6' <= Len(Copy!Log') /\ v6' # Len(Copy!Log')
    <3>1. v6 <= Len(Copy!Log) /\ v6 \in Nat
      BY <1>1 DEF Copy!CheckpointOK, Copy!FilesOK
    <3> QED
      BY <1>5, <1>6, <1>7, <1>9, <3>1
  <2>2. v5'.todo # {} =>
          /\ v5'.of \in Copy!Ends'
          /\ \E q \in 1 .. v2'.frames[v5'.of].size :
               q <= Len(v1'.pages) + 1 /\ v5'.todo = q .. v2'.frames[v5'.of].size
    <3>1. SUFFICES ASSUME v5.todo # {}
                   PROVE  /\ v5.of \in Copy!Ends'
                          /\ \E q \in 1 .. v2'.frames[v5.of].size :
                               q <= Len(v1.pages) + 1 /\ v5.todo = q .. v2'.frames[v5.of].size
      BY <1>5
    <3>2. v5.of \in Copy!Ends /\ \E q \in 1 .. v2.frames[v5.of].size :
            q <= Len(v1.pages) + 1 /\ v5.todo = q .. v2.frames[v5.of].size
      BY <1>1, <3>1 DEF Copy!CheckpointOK
    <3> QED
      BY <1>8, <1>15, <3>2
  <2> QED
    BY <2>1, <2>2 DEF Copy!CheckpointOK
<1> QED
  BY <1>3, <1>26, <1>27 DEF Copy!SourceInv

\* What is said of the files is said of nothing else.
LEMMA SourceStays ==
  ASSUME Copy!SourceInv, UNCHANGED Copy!source
  PROVE  Copy!SourceInv'
<1>1. /\ v1' = v1 /\ v2' = v2 /\ v3' = v3 /\ v4' = v4 /\ v5' = v5
      /\ v6' = v6 /\ v7' = v7
  BY DEF Copy!source
<1>2. Copy!FilesOK' /\ Copy!ChainOK'
  BY <1>1 DEF Copy!SourceInv, Copy!FilesOK, Copy!ChainOK, Copy!Chained
<1>3. Copy!Ends' = Copy!Ends /\ Copy!Log' = Copy!Log /\ Copy!Shrunk' = Copy!Shrunk
  BY <1>1 DEF Copy!Ends, Copy!Log, Copy!Shrunk
<1>4. Copy!LogOK'
  BY <1>1, <1>3 DEF Copy!SourceInv, Copy!LogOK, Copy!Grown, Copy!Recorded
<1>5. Copy!CheckpointOK'
  BY <1>1, <1>3 DEF Copy!SourceInv, Copy!CheckpointOK
<1> QED
  BY <1>2, <1>4, <1>5 DEF Copy!SourceInv

\* It holds at first.
LEMMA SourceBegins == Copy!Init => Copy!SourceInv
<1> SUFFICES ASSUME Copy!Init PROVE Copy!SourceInv
  OBVIOUS
<1>1. PICK k \in 1 .. MaxPages : v1 = [pages |-> [p \in 1 .. k |-> 0], stamp |-> 0]
  BY DEF Copy!Init
<1> DEFINE zeros == [p \in 1 .. k |-> 0]
<1>2. k \in Nat /\ zeros \in Seq(Nat)
  <2>1. k \in Nat
    BY PagesAssumption
  <2> QED
    BY <2>1, IsASeq
<1>3. v1.pages = zeros /\ v1 = [pages |-> zeros, stamp |-> 0]
  BY <1>1
<1> HIDE DEF zeros
<1>4. /\ v2 = [salt |-> 0, frames |-> <<>>, stamp |-> 0] /\ v2.frames = <<>>
      /\ v3 = 0 /\ v4 = 0 /\ v6 = 0
      /\ v5 = [of |-> 0, todo |-> {}, rounds |-> 0] /\ v5.todo = {}
      /\ v7 = <<zeros>>
  BY <1>3 DEF Copy!Init
<1>5. Copy!FilesOK
  <2>1. v1 \in [pages : Seq(Nat), stamp : Nat]
    BY <1>2, <1>3
  <2>2. <<>> \in Seq(Copy!Frames) /\ Len(<<>>) = 0
    OBVIOUS
  <2>3. v2 \in [salt : Nat, frames : Seq(Copy!Frames), stamp : Nat]
    BY <1>4, <2>2
  <2>4. v3 \in 0 .. Len(v2.frames) /\ v4 \in Nat /\ v6 \in Nat
    BY <1>4
  <2>5. v5 \in [of : Nat, todo : SUBSET Nat, rounds : Nat]
    BY <1>4
  <2>6. v7 \in Seq(Seq(Nat)) /\ v7 # <<>>
    BY <1>2, <1>4
  <2> QED
    BY <2>1, <2>3, <2>4, <2>5, <2>6 DEF Copy!FilesOK
<1>6. Copy!ChainOK
  <2>1. DOMAIN v2.frames = {} /\ Len(v2.frames) = 0
    BY <1>4
  <2>2. \A n \in DOMAIN v2.frames : FALSE
    BY <2>1
  <2>3. (\A n \in 1 .. v3 : FALSE) /\ \A n \in v3 + 1 .. Len(v2.frames) : FALSE
    BY <1>4, <2>1
  <2> QED
    BY <2>2, <2>3 DEF Copy!ChainOK
<1>7. Copy!Ends = {}
  BY <1>4 DEF Copy!Ends
<1>8. Copy!Log = <<>> /\ Len(Copy!Log) = 0
  <2>1. Len(Copy!Log) \in 0 .. v3
    BY <1>5, LogIs
  <2>2. Copy!Log \in Seq(Copy!Frames)
    BY <1>5, LogIs
  <2> QED
    BY <1>4, <2>1, <2>2
<1>9. Copy!LogOK
  <2>1. Copy!Over(v1.pages, Copy!Log) = v1.pages
    BY <1>8, OverNothing
  <2>2. Copy!Last(v7) = zeros
    BY <1>4 DEF Copy!Last
  <2> QED
    BY <1>3, <1>7, <2>1, <2>2 DEF Copy!LogOK, Copy!Grown, Copy!Recorded
<1>10. Copy!CheckpointOK
  BY <1>4, <1>8 DEF Copy!CheckpointOK
<1> QED
  BY <1>5, <1>6, <1>9, <1>10 DEF Copy!SourceInv

\* A transaction that is rolled back leaves no frame.
LEMMA RollsBack ==
  ASSUME Copy!SourceInv, Copy!Rollback
  PROVE  Copy!SourceInv'
<1>1. Copy!FilesOK /\ Copy!ChainOK /\ Copy!LogOK /\ Copy!CheckpointOK
  BY DEF Copy!SourceInv
<1>2. /\ v3' = Len(Copy!Log) /\ v1' = v1 /\ v2' = v2 /\ v4' = v4 /\ v5' = v5
      /\ v6' = v6 /\ v7' = v7
  BY DEF Copy!Rollback
<1>3. /\ Len(Copy!Log) \in 0 .. v3 /\ Copy!Log = SubSeq(v2.frames, 1, Len(Copy!Log))
      /\ Copy!Ends \subseteq 1 .. Len(Copy!Log)
         /\ (Len(Copy!Log) # 0 => Len(Copy!Log) \in Copy!Ends)
      /\ v3 \in Nat /\ v3 <= Len(v2.frames) /\ Len(v2.frames) \in Nat
      /\ \A n \in 1 .. Len(v2.frames) : v2.frames[n].size \in Nat
  BY <1>1, LogIs, FramesAre
<1>4. Copy!FilesOK'
  <2>1. v3' \in 0 .. Len(v2'.frames)
    BY <1>2, <1>3
  <2> QED
    BY <1>1, <1>2, <2>1 DEF Copy!FilesOK
<1>5. Copy!ChainOK'
  <2>1. \A n \in 1 .. v3' : Copy!Chained(v2'.frames, v2'.salt, n)
    BY <1>1, <1>2, <1>3 DEF Copy!ChainOK
  <2>2. ASSUME NEW n \in v3' + 1 .. Len(v2.frames),
               \A k \in v3' + 1 .. n : Copy!Chained(v2.frames, v2.salt, k)
        PROVE  v2.frames[n].size = 0
    <3>1. CASE n <= v3
      <4>1. n \in 1 .. v3 /\ n \notin Copy!Ends /\ v2.frames[n].size \in Nat
        BY <1>2, <1>3, <3>1
      <4> QED
        BY <4>1 DEF Copy!Ends
    <3>2. CASE ~ (n <= v3)
      <4>1. n \in v3 + 1 .. Len(v2.frames)
        BY <1>2, <1>3, <3>2
      <4>2. \A k \in v3 + 1 .. n : k \in v3' + 1 .. n
        BY <1>2, <1>3
      <4> QED
        BY <1>1, <2>2, <4>1, <4>2 DEF Copy!ChainOK
    <3> QED
      BY <3>1, <3>2
  <2>3. \A n \in DOMAIN v2.frames :
          /\ v2.frames[n].salt <= v2.salt
          /\ v2.frames[n].after <= v4 /\ v2.frames[n].value <= v4
    BY <1>1 DEF Copy!ChainOK
  <2> QED
    BY <1>2, <2>1, <2>2, <2>3 DEF Copy!ChainOK, Copy!Chained
<1>6. Copy!Ends' = Copy!Ends
  <2>1. Copy!Ends' = {n \in 1 .. Len(Copy!Log) : v2.frames[n].size > 0}
    BY <1>2 DEF Copy!Ends
  <2> QED
    BY <1>3, <2>1 DEF Copy!Ends
<1>7. Copy!Log' = Copy!Log /\ Len(Copy!Log') = Len(Copy!Log)
  <2>1. LogUpTo'
    BY <1>4, LogAt, PTL
  <2>2. Len(Copy!Log) \in 0 .. v3' /\ (Len(Copy!Log) = 0 \/ v2'.frames[Len(Copy!Log)].size > 0)
        /\ \A n \in Len(Copy!Log) + 1 .. v3' : FALSE
    BY <1>2, <1>3 DEF Copy!Ends
  <2> DEFINE l == Len(Copy!Log)
  <2>3. l \in 0 .. v3' /\ (l = 0 \/ v2'.frames[l].size > 0) /\ \A n \in l + 1 .. v3' : FALSE
    BY <2>2
  <2> HIDE DEF l
  <2>4. Copy!Log' = SubSeq(v2'.frames, 1, l) /\ Len(Copy!Log') = l
    BY <2>1, <2>3 DEF LogUpTo
  <2> QED
    BY <1>2, <1>3, <2>4 DEF l
<1>8. Copy!LogOK'
  BY <1>1, <1>2, <1>4, <1>6, <1>7, LogStays
<1>9. Copy!CheckpointOK'
  BY <1>1, <1>2, <1>6, <1>7 DEF Copy!CheckpointOK
<1> QED
  BY <1>4, <1>5, <1>8, <1>9 DEF Copy!SourceInv

\* A checkpoint begins with the first page of the commit it moves.
LEMMA CheckpointBegins ==
  ASSUME Copy!SourceInv, Copy!StartCheckpoint
  PROVE  Copy!SourceInv'
<1>1. Copy!FilesOK /\ Copy!ChainOK /\ Copy!LogOK /\ Copy!CheckpointOK
  BY DEF Copy!SourceInv
<1> DEFINE todo == DOMAIN Copy!Over(v1.pages, Copy!Log)
<1>2. /\ v1' = v1 /\ v2' = v2 /\ v3' = v3 /\ v4' = v4
      /\ v6' = v6 /\ v7' = v7
      /\ v5' = [of |-> Len(Copy!Log), todo |-> todo, rounds |-> v5.rounds + 1]
      /\ Len(Copy!Log) > v6 /\ v6 \in Nat /\ v5.rounds \in Nat
  BY <1>1 DEF Copy!StartCheckpoint, Copy!FilesOK
<1>3. /\ Len(Copy!Log) \in 0 .. v3 /\ Copy!Log = SubSeq(v2.frames, 1, Len(Copy!Log))
         /\ Copy!Log \in Seq(Copy!Frames)
      /\ Copy!Ends \subseteq 1 .. Len(Copy!Log)
         /\ (Len(Copy!Log) # 0 => Len(Copy!Log) \in Copy!Ends)
      /\ (\A n \in 1 .. Len(Copy!Log) : Copy!Log[n] = v2.frames[n])
      /\ \A n \in 1 .. Len(v2.frames) : v2.frames[n].size \in Nat
      /\ v3 \in Nat /\ v3 <= Len(v2.frames)
  BY <1>1, LogIs, FramesAre
<1>4. Len(Copy!Log) \in Nat /\ Len(Copy!Log) # 0 /\ Copy!Log # <<>>
      /\ Len(Copy!Log) \in Copy!Ends /\ Len(Copy!Log) \in 1 .. Len(Copy!Log)
  BY <1>2, <1>3
<1>5. todo = 1 .. v2.frames[Len(Copy!Log)].size
  <2>1. v1.pages \in Seq(Nat)
    BY <1>1 DEF Copy!FilesOK
  <2>2. Copy!Over(v1.pages, Copy!Log) \in Seq(Nat)
        /\ Len(Copy!Over(v1.pages, Copy!Log)) = Copy!Log[Len(Copy!Log)].size
    BY <1>3, <1>4, <2>1, OverIs
  <2>3. Copy!Log[Len(Copy!Log)] = v2.frames[Len(Copy!Log)]
    BY <1>3, <1>4
  <2> QED
    BY <2>2, <2>3
<1> HIDE DEF todo
<1>6. v5'.of = Len(Copy!Log) /\ v5'.todo = todo
  BY <1>2
<1>7. Copy!FilesOK'
  <2>1. todo \in SUBSET Nat
    BY <1>5
  <2>2. v5' \in [of : Nat, todo : SUBSET Nat, rounds : Nat]
    BY <1>2, <1>4, <2>1
  <2> QED
    BY <1>1, <1>2, <2>2 DEF Copy!FilesOK
<1>8. Copy!ChainOK' /\ Copy!Ends' = Copy!Ends /\ Copy!Log' = Copy!Log
  BY <1>1, <1>2 DEF Copy!ChainOK, Copy!Chained, Copy!Ends, Copy!Log
<1>9. Copy!LogOK'
  BY <1>1, <1>2, <1>7, <1>8, LogStays
<1>10. v2.frames[Len(Copy!Log)].size > 0 /\ v2.frames[Len(Copy!Log)].size \in Nat
  BY <1>3, <1>4 DEF Copy!Ends
<1>11. Copy!CheckpointOK'
  <2>1. v6' <= Len(Copy!Log')
    BY <1>2, <1>4, <1>8
  <2>2. 1 \in 1 .. v2'.frames[v5'.of].size /\ 1 <= Len(v1'.pages) + 1
        /\ v5'.todo = 1 .. v2'.frames[v5'.of].size
    <3>1. Len(v1.pages) \in Nat
      BY <1>1 DEF Copy!FilesOK
    <3> QED
      BY <1>2, <1>5, <1>6, <1>10, <3>1
  <2>3. v5'.todo # {} /\ v5'.of \in Copy!Ends'
    BY <1>4, <1>5, <1>6, <1>8, <1>10
  <2> QED
    BY <2>1, <2>2, <2>3 DEF Copy!CheckpointOK
<1> QED
  BY <1>7, <1>8, <1>9, <1>11 DEF Copy!SourceInv

\* A log starts again when the main file is the last commit.
LEMMA LogRestarts ==
  ASSUME Copy!SourceInv, Copy!RestartLog
  PROVE  Copy!SourceInv'
<1>1. Copy!FilesOK /\ Copy!ChainOK /\ Copy!LogOK /\ Copy!CheckpointOK
  BY DEF Copy!SourceInv
<1>2. /\ v2' = [v2 EXCEPT !.salt = @ + 1, !.stamp = @ + 1]
      /\ v3' = 0 /\ v6' = 0 /\ v1' = v1 /\ v4' = v4 /\ v5' = v5
      /\ v7' = v7 /\ v3 # 0 /\ v5.todo = {} /\ v3 = v6
  BY DEF Copy!RestartLog
<1>3. v2 \in [salt : Nat, frames : Seq(Copy!Frames), stamp : Nat] /\ v2.salt \in Nat
      /\ v2.frames \in Seq(Copy!Frames)
      /\ v2.stamp \in Nat
  BY <1>1 DEF Copy!FilesOK
<1>4. v2'.frames = v2.frames /\ v2'.salt = v2.salt + 1
      /\ v2' \in [salt : Nat, frames : Seq(Copy!Frames), stamp : Nat]
  <2>1. v2' = [v2 EXCEPT !.salt = v2.salt + 1, !.stamp = v2.stamp + 1]
    BY <1>2
  <2>2. v2'.frames = v2.frames /\ v2'.salt = v2.salt + 1
    BY <1>3, <2>1
  <2> DEFINE F == v2.frames
             s == v2.salt + 1
             t == v2.stamp + 1
  <2>3. v2' = [salt |-> s, frames |-> F, stamp |-> t]
    BY <1>3, <2>1
  <2>4. F \in Seq(Copy!Frames) /\ s \in Nat /\ t \in Nat
    BY <1>3
  <2> HIDE DEF F, s, t
  <2>5. v2' \in [salt : Nat, frames : Seq(Copy!Frames), stamp : Nat]
    BY <2>3, <2>4
  <2> QED
    BY <2>2, <2>5
<1>5. Copy!FilesOK'
  <2>1. v3' \in 0 .. Len(v2'.frames) /\ v6' \in Nat
    BY <1>2, <1>3, <1>4
  <2> QED
    BY <1>1, <1>2, <1>4, <2>1 DEF Copy!FilesOK
<1>6. \A n \in DOMAIN v2.frames :
        /\ v2.frames[n].salt <= v2.salt /\ v2.frames[n].salt \in Nat
        /\ v2.frames[n].after <= v4 /\ v2.frames[n].value <= v4
  <2>1. \A n \in DOMAIN v2.frames : n \in 1 .. Len(v2.frames)
    BY <1>3
  <2> QED
    BY <1>1, <2>1, FramesAre DEF Copy!ChainOK
<1>7. Copy!ChainOK'
  <2>1. \A n \in DOMAIN v2.frames : v2.frames[n].salt <= v2.salt + 1
        /\ v2.frames[n].salt # v2.salt + 1
    BY <1>3, <1>6
  <2>2. \A n \in 1 .. v3' : FALSE
    BY <1>2
  <2>3. ASSUME NEW n \in v3' + 1 .. Len(v2.frames)
        PROVE  ~ \A k \in v3' + 1 .. n : Copy!Chained(v2'.frames, v2'.salt, k)
    <3>1. n \in v3' + 1 .. n /\ n \in DOMAIN v2.frames
      BY <1>2, <1>3
    <3>2. ~ Copy!Chained(v2'.frames, v2'.salt, n)
      BY <1>4, <2>1, <3>1 DEF Copy!Chained
    <3> QED
      BY <3>1, <3>2
  <2> QED
    BY <1>2, <1>4, <1>6, <2>1, <2>2, <2>3 DEF Copy!ChainOK
<1>8. Copy!Ends' = {}
  BY <1>2 DEF Copy!Ends
<1>9. Copy!Log' = <<>> /\ Len(Copy!Log') = 0
  <2>1. LogUpTo'
    BY <1>5, LogAt, PTL
  <2>2. 0 \in 0 .. v3' /\ \A n \in 0 + 1 .. v3' : FALSE
    BY <1>2
  <2>3. Copy!Log' = SubSeq(v2'.frames, 1, 0) /\ Len(Copy!Log') = 0
    BY <2>1, <2>2 DEF LogUpTo
  <2>4. SubSeq(v2'.frames, 1, 0) = <<>>
    <3>1. 0 \in 0 .. Len(v2.frames)
      BY <1>3
    <3>2. SubSeq(v2.frames, 1, 0) \in Seq(Copy!Frames) /\ Len(SubSeq(v2.frames, 1, 0)) = 0
      BY <1>3, <3>1, Prefix
    <3> QED
      BY <1>4, <3>2
  <2> QED
    BY <2>3, <2>4
<1>10. v1.pages = Copy!Last(v7)
  <2>1. v6 <= Len(Copy!Log) /\ Len(Copy!Log) \in 0 .. v3 /\ v3 \in Nat
    BY <1>1, LogIs, FramesAre DEF Copy!CheckpointOK
  <2>2. v6 = Len(Copy!Log) /\ v6 # 0
    BY <1>2, <2>1
  <2> QED
    BY <1>1, <1>2, <2>2 DEF Copy!CheckpointOK
<1>11. Copy!LogOK'
  <2>1. Copy!Over(v1'.pages, Copy!Log') = Copy!Last(v7')
    BY <1>2, <1>9, <1>10, OverNothing
  <2> QED
    BY <1>8, <2>1 DEF Copy!LogOK, Copy!Grown, Copy!Recorded
<1>12. Copy!CheckpointOK'
  BY <1>2, <1>9 DEF Copy!CheckpointOK
<1> QED
  BY <1>5, <1>7, <1>11, <1>12 DEF Copy!SourceInv
\* What a checkpoint writes: the pages the commit has it moves.
LEMMA ImageIs ==
  ASSUME Copy!FilesOK, NEW i \in Copy!Ends
  PROVE  /\ SubSeq(v2.frames, 1, i) \in Seq(Copy!Frames) /\ Len(SubSeq(v2.frames, 1, i)) = i
         /\ SubSeq(v2.frames, 1, i) # <<>>
         /\ SubSeq(v2.frames, 1, i)[i] = v2.frames[i]
         /\ Copy!Over(v1.pages, SubSeq(v2.frames, 1, i)) \in Seq(Nat)
         /\ Len(Copy!Over(v1.pages, SubSeq(v2.frames, 1, i))) = v2.frames[i].size
         /\ \A q \in 1 .. v2.frames[i].size :
              (\A n \in 1 .. i : v2.frames[n].page # q) =>
                Copy!Over(v1.pages, SubSeq(v2.frames, 1, i))[q]
                  = IF q \in DOMAIN v1.pages THEN v1.pages[q] ELSE 0
<1> DEFINE f == SubSeq(v2.frames, 1, i)
<1>1. v2.frames \in Seq(Copy!Frames) /\ v3 \in 0 .. Len(v2.frames) /\ Len(v2.frames) \in Nat
      /\ v1.pages \in Seq(Nat)
  BY DEF Copy!FilesOK
<1>2. i \in 1 .. v3 /\ i \in 0 .. Len(v2.frames) /\ i \in 1 .. i
  BY <1>1 DEF Copy!Ends
<1>3. f \in Seq(Copy!Frames) /\ Len(f) = i /\ \A n \in 1 .. i : f[n] = v2.frames[n]
  BY <1>1, <1>2, Prefix
<1> HIDE DEF f
<1>4. f # <<>> /\ f[i] = v2.frames[i]
  BY <1>2, <1>3
<1>5. /\ Copy!Over(v1.pages, f) \in Seq(Nat)
      /\ Len(Copy!Over(v1.pages, f)) = f[Len(f)].size
      /\ \A q \in 1 .. f[Len(f)].size :
           (\A n \in 1 .. Len(f) : f[n].page # q) =>
             Copy!Over(v1.pages, f)[q] = IF q \in DOMAIN v1.pages THEN v1.pages[q] ELSE 0
  BY <1>1, <1>3, <1>4, OverIs
<1>6. \A q \in 1 .. v2.frames[i].size :
        (\A n \in 1 .. i : v2.frames[n].page # q) =>
          Copy!Over(v1.pages, f)[q] = IF q \in DOMAIN v1.pages THEN v1.pages[q] ELSE 0
  BY <1>3, <1>4, <1>5
<1> QED
  BY <1>3, <1>4, <1>5, <1>6 DEF f

\* With one page written or added the pages are a sequence still.
LEMMA OnePage ==
  ASSUME NEW pages \in Seq(Nat), NEW p \in 1 .. Len(pages) + 1, NEW v \in Nat
  PROVE  /\ [q \in DOMAIN pages \union {p} |-> IF q = p THEN v ELSE pages[q]] \in Seq(Nat)
         /\ Len(pages) <= Len([q \in DOMAIN pages \union {p} |-> IF q = p THEN v ELSE pages[q]])
         /\ p <= Len([q \in DOMAIN pages \union {p} |-> IF q = p THEN v ELSE pages[q]])
<1> DEFINE k == IF p <= Len(pages) THEN Len(pages) ELSE p
           e(q) == IF q = p THEN v ELSE pages[q]
<1>1. k \in Nat /\ Len(pages) <= k /\ p <= k /\ DOMAIN pages \union {p} = 1 .. k
  OBVIOUS
<1>2. ASSUME NEW q \in 1 .. k PROVE e(q) \in Nat
  <2>1. CASE q = p
    BY <2>1
  <2>2. CASE q # p
    <3>1. q \in DOMAIN pages
      BY <1>1, <2>2
    <3> QED
      BY <2>2, <3>1
  <2> QED
    BY <2>1, <2>2
<1>3. [q \in DOMAIN pages \union {p} |-> e(q)] = [q \in 1 .. k |-> e(q)]
  BY <1>1
<1> HIDE DEF e, k
<1>4. [q \in 1 .. k |-> e(q)] \in Seq(Nat)
  BY <1>1, <1>2, IsASeq
<1>5. Len([q \in 1 .. k |-> e(q)]) = k
  BY <1>1, <1>4
<1> QED
  BY <1>1, <1>3, <1>4, <1>5 DEF e

\* A page that is moved is in the log still, so the two files say what they said; with
\* the last one the main file gets the size of the commit, and only a database that has
\* shrunk has commits in its log that are larger.
LEMMA CheckpointGoesOn ==
  ASSUME Copy!SourceInv, Copy!CheckpointPage
  PROVE  Copy!SourceInv'
<1>1. Copy!FilesOK /\ Copy!ChainOK /\ Copy!LogOK /\ Copy!CheckpointOK
  BY DEF Copy!SourceInv
<1>2. v5.todo # {} /\ v2' = v2 /\ v3' = v3 /\ v4' = v4 /\ v7' = v7
  BY DEF Copy!CheckpointPage
<1>3. PICK q \in 1 .. v2.frames[v5.of].size :
        q <= Len(v1.pages) + 1 /\ v5.todo = q .. v2.frames[v5.of].size
  BY <1>1, <1>2 DEF Copy!CheckpointOK
<1>4. v5.of \in Copy!Ends /\ v6 <= Len(Copy!Log)
  BY <1>1, <1>2 DEF Copy!CheckpointOK
<1> DEFINE of == v5.of
           s == v2.frames[of].size
           image == Copy!Over(v1.pages, SubSeq(v2.frames, 1, of))
           written == [r \in DOMAIN v1.pages \union {q} |-> IF r = q THEN image[q] ELSE v1.pages[r]]
           last == v5.todo = {q} /\ of = Len(Copy!Log)
<1>5. /\ v2.frames \in Seq(Copy!Frames) /\ v3 \in Nat /\ v3 <= Len(v2.frames)
         /\ Len(v2.frames) \in Nat
      /\ \A n \in 1 .. Len(v2.frames) : v2.frames[n].size \in Nat
  BY <1>1, FramesAre
<1>6. /\ Len(Copy!Log) \in 0 .. v3 /\ Len(Copy!Log) \in Nat
         /\ Copy!Log = SubSeq(v2.frames, 1, Len(Copy!Log)) /\ Copy!Log \in Seq(Copy!Frames)
      /\ Copy!Ends \subseteq 1 .. Len(Copy!Log)
         /\ (Len(Copy!Log) # 0 => Len(Copy!Log) \in Copy!Ends)
      /\ (\A n \in 1 .. Len(Copy!Log) : Copy!Log[n] = v2.frames[n])
  BY <1>1, <1>5, LogIs
<1>7. /\ v1 \in [pages : Seq(Nat), stamp : Nat] /\ v1.pages \in Seq(Nat) /\ Len(v1.pages) \in Nat
      /\ v1.stamp \in Nat /\ v6 \in Nat /\ v5 \in [of : Nat, todo : SUBSET Nat, rounds : Nat]
  BY <1>1 DEF Copy!FilesOK
<1>8. of \in 1 .. Len(Copy!Log) /\ of \in Nat /\ s \in Nat /\ q \in Nat /\ q <= s /\ q \in 1 .. s
  <2>1. of \in 1 .. Len(Copy!Log)
    BY <1>4, <1>6
  <2>2. of \in 1 .. Len(v2.frames)
    BY <1>5, <1>6, <2>1
  <2> QED
    BY <1>3, <1>5, <2>1, <2>2
<1>9. Copy!Min(v5.todo) = q
  <2>1. q \in v5.todo /\ v5.todo \in SUBSET Nat /\ \A k \in v5.todo : q <= k
    BY <1>3, <1>8
  <2> QED
    BY <2>1, MinAt
<1>10. /\ image \in Seq(Nat) /\ Len(image) = s
       /\ \A r \in 1 .. s : (\A n \in 1 .. of : v2.frames[n].page # r) =>
            image[r] = IF r \in DOMAIN v1.pages THEN v1.pages[r] ELSE 0
  BY <1>1, <1>4, ImageIs
<1>11. /\ v1' = [pages |-> IF last THEN image ELSE written, stamp |-> v1.stamp + 1]
       /\ v5' = [v5 EXCEPT !.todo = v5.todo \ {q}]
       /\ v6' = IF v5.todo = {q} THEN of ELSE v6
  BY <1>9 DEF Copy!CheckpointPage
<1>12. v5'.of = of /\ v5'.todo = v5.todo \ {q}
       /\ v5' \in [of : Nat, todo : SUBSET Nat, rounds : Nat]
  <2>1. v5'.of = of /\ v5'.todo = v5.todo \ {q}
    BY <1>7, <1>11
  <2>2. v5' = [of |-> of, todo |-> v5.todo \ {q}, rounds |-> v5.rounds]
    BY <1>7, <1>11
  <2>3. of \in Nat /\ v5.todo \ {q} \in SUBSET Nat /\ v5.rounds \in Nat
    BY <1>7
  <2> QED
    BY <2>1, <2>2, <2>3
<1> HIDE DEF image, s, of
<1>13. written \in Seq(Nat) /\ Len(v1.pages) <= Len(written) /\ q <= Len(written)
       /\ Len(written) \in Nat
  <2>1. image[q] \in Nat
    BY <1>8, <1>10
  <2>2. q \in 1 .. Len(v1.pages) + 1
    BY <1>3, <1>7, <1>8
  <2>3. written \in Seq(Nat) /\ Len(v1.pages) <= Len(written) /\ q <= Len(written)
    BY <1>7, <2>1, <2>2, OnePage, Zenon
  <2> HIDE DEF written
  <2> QED
    BY <2>3
<1>14. v1'.pages = (IF last THEN image ELSE written) /\ v1'.stamp = v1.stamp + 1
  BY <1>11
<1>15. Copy!FilesOK'
  <2> DEFINE pages == IF last THEN image ELSE written
  <2>1. pages \in Seq(Nat)
    BY <1>10, <1>13
  <2>2. v1' = [pages |-> pages, stamp |-> v1.stamp + 1]
    BY <1>11
  <2> HIDE DEF pages
  <2>3. v1' \in [pages : Seq(Nat), stamp : Nat]
    BY <1>7, <2>1, <2>2
  <2>4. v6' \in Nat
    BY <1>7, <1>8, <1>11
  <2> QED
    BY <1>1, <1>2, <1>12, <2>3, <2>4 DEF Copy!FilesOK
<1>16. Copy!ChainOK' /\ Copy!Ends' = Copy!Ends /\ Copy!Log' = Copy!Log
       /\ Copy!Shrunk' = Copy!Shrunk
  BY <1>1, <1>2 DEF Copy!ChainOK, Copy!Chained, Copy!Ends, Copy!Log, Copy!Shrunk
<1>17. /\ Copy!Over(v1.pages, Copy!Log) = Copy!Last(v7) /\ Copy!Grown /\ Copy!Recorded
       /\ \A i \in Copy!Ends : v2.frames[i].size <= Len(v1.pages) + i \/ Copy!Shrunk
  BY <1>1 DEF Copy!LogOK
<1>18. Copy!Grown' /\ Copy!Recorded'
  BY <1>2, <1>16, <1>17 DEF Copy!Grown, Copy!Recorded
<1>19. ASSUME last PROVE image = Copy!Last(v7) /\ Copy!Over(image, Copy!Log) = Copy!Last(v7)
              /\ s = v2.frames[Len(Copy!Log)].size
  <2>1. image = Copy!Over(v1.pages, Copy!Log)
    BY <1>6, <1>19 DEF image
  <2>2. Copy!Log # <<>>
    BY <1>6, <1>8
  <2>3. Copy!Over(Copy!Over(v1.pages, Copy!Log), Copy!Log) = Copy!Over(v1.pages, Copy!Log)
    BY <1>6, <1>7, <2>2, OverTwice
  <2>4. s = v2.frames[Len(Copy!Log)].size
    BY <1>19 DEF s
  <2> QED
    BY <1>17, <2>1, <2>3, <2>4
<1>20. ASSUME ~ last PROVE Copy!Over(written, Copy!Log) = Copy!Last(v7)
  <2>1. Copy!Log # <<>>
    BY <1>6, <1>8
  <2>2. ASSUME NEW r \in 1 .. Copy!Log[Len(Copy!Log)].size
        PROVE  \/ \E n \in 1 .. Len(Copy!Log) : Copy!Log[n].page = r
               \/ (IF r \in DOMAIN v1.pages THEN v1.pages[r] ELSE 0)
                    = (IF r \in DOMAIN written THEN written[r] ELSE 0)
    <3>1. CASE r # q
      <4>1. DOMAIN written = DOMAIN v1.pages \union {q}
        OBVIOUS
      <4>2. r \in DOMAIN written <=> r \in DOMAIN v1.pages
        BY <3>1, <4>1
      <4>3. r \in DOMAIN v1.pages => written[r] = v1.pages[r]
        BY <3>1
      <4> QED
        BY <4>2, <4>3
    <3>2. CASE r = q /\ \A n \in 1 .. Len(Copy!Log) : Copy!Log[n].page # r
      <4>1. \A n \in 1 .. of : v2.frames[n].page # q
        BY <1>6, <1>8, <3>2
      <4>2. image[q] = IF q \in DOMAIN v1.pages THEN v1.pages[q] ELSE 0
        BY <1>8, <1>10, <4>1
      <4>3. q \in DOMAIN written /\ written[q] = image[q]
        OBVIOUS
      <4> QED
        BY <3>2, <4>2, <4>3
    <3> QED
      BY <3>1, <3>2
  <2> HIDE DEF written
  <2>3. Copy!Over(written, Copy!Log) = Copy!Over(v1.pages, Copy!Log)
    BY <1>6, <1>7, <1>13, <2>1, <2>2, OverSame
  <2> QED
    BY <1>17, <2>3
<1>21. Copy!Over(v1'.pages, Copy!Log') = Copy!Last(v7')
  <2>1. CASE last
    BY <1>2, <1>14, <1>16, <1>19, <2>1
  <2>2. CASE ~ last
    BY <1>2, <1>14, <1>16, <1>20, <2>2
  <2> QED
    BY <2>1, <2>2
<1>22. \A i \in Copy!Ends : i \in Nat /\ i >= 1 /\ i <= Len(Copy!Log) /\ v2.frames[i].size \in Nat
  BY <1>5, <1>6
<1>23. ASSUME NEW i \in Copy!Ends, ~ Copy!Shrunk PROVE v2.frames[i].size <= Len(v1'.pages) + i
  <2>1. CASE ~ last
    <3>1. v2.frames[i].size <= Len(v1.pages) + i /\ Len(v1'.pages) = Len(written)
      BY <1>14, <1>17, <1>23, <2>1
    <3>2. i \in Nat /\ v2.frames[i].size \in Nat
      BY <1>22
    <3> HIDE DEF written
    <3> QED
      BY <1>7, <1>13, <3>1, <3>2
  <2>2. CASE last
    <3>1. Len(v1'.pages) = s /\ s = v2.frames[Len(Copy!Log)].size /\ Len(Copy!Log) \in Copy!Ends
      <4>1. Len(v1'.pages) = s
        BY <1>10, <1>14, <2>2
      <4> QED
        BY <1>4, <1>19, <2>2, <4>1 DEF of
    <3>2. CASE i = Len(Copy!Log)
      <4>1. v2.frames[i].size = s
        BY <3>1, <3>2
      <4>2. i \in Nat
        BY <1>22
      <4> QED
        BY <1>8, <3>1, <4>1, <4>2
    <3>3. CASE i # Len(Copy!Log)
      <4>1. i < Len(Copy!Log)
        <5>1. i \in Nat /\ i <= Len(Copy!Log) /\ Len(Copy!Log) \in Nat
          BY <1>6, <1>22
        <5> QED
          BY <3>3, <5>1
      <4>2. PICK m \in DOMAIN v7, n \in DOMAIN v7 :
              m < n /\ Len(v7[m]) = v2.frames[i].size
              /\ Len(v7[n]) = v2.frames[Len(Copy!Log)].size
        BY <1>17, <3>1, <4>1 DEF Copy!Recorded
      <4>3. ~ (v2.frames[i].size > s + 1)
        BY <1>23, <3>1, <4>2 DEF Copy!Shrunk
      <4>4. i \in Nat /\ i >= 1 /\ v2.frames[i].size \in Nat
        BY <1>22
      <4>5. v2.frames[i].size <= s + i
        BY <1>8, <4>3, <4>4
      <4> QED
        BY <3>1, <4>5
    <3> QED
      BY <3>2, <3>3
  <2> QED
    BY <2>1, <2>2
<1>24. Copy!LogOK'
  <2>1. \A i \in Copy!Ends' : v2'.frames[i].size <= Len(v1'.pages) + i \/ Copy!Shrunk'
    BY <1>2, <1>16, <1>23
  <2> QED
    BY <1>18, <1>21, <2>1 DEF Copy!LogOK
<1>25. Copy!CheckpointOK'
  <2>1. v6' <= Len(Copy!Log')
    BY <1>4, <1>8, <1>11, <1>16
  <2>2. ASSUME v5'.todo # {}
        PROVE  \E r \in 1 .. s : r <= Len(v1'.pages) + 1 /\ v5'.todo = r .. s
    <3>1. v5.todo = q .. s
      BY <1>3 DEF s, of
    <3>2. v5'.todo = q + 1 .. s
      BY <1>8, <1>12, <3>1
    <3>3. q + 1 \in 1 .. s
      BY <1>8, <2>2, <3>2
    <3>4. ~ last
      BY <1>12, <2>2
    <3>5. v1'.pages = written
      BY <1>14, <3>4
    <3> HIDE DEF written
    <3>6. q + 1 <= Len(v1'.pages) + 1
      BY <1>8, <1>13, <3>5
    <3> QED
      BY <3>2, <3>3, <3>6
  <2>3. v5'.todo # {} => v5'.of \in Copy!Ends' /\
          \E r \in 1 .. v2'.frames[v5'.of].size :
            r <= Len(v1'.pages) + 1 /\ v5'.todo = r .. v2'.frames[v5'.of].size
    <3>1. v5'.of \in Copy!Ends' /\ v2'.frames[v5'.of].size = s
      BY <1>2, <1>4, <1>12, <1>16 DEF s, of
    <3> QED
      BY <2>2, <3>1
  <2>4. ASSUME v5'.todo = {}, v6' = Len(Copy!Log') PROVE v1'.pages = Copy!Last(v7')
    <3>1. v5.todo = {q}
      <4>1. q \in v5.todo
        BY <1>3, <1>8 DEF s, of
      <4> QED
        BY <1>12, <2>4, <4>1
    <3>2. last
      BY <1>11, <1>16, <2>4, <3>1
    <3> QED
      BY <1>2, <1>14, <1>19, <3>2
  <2> QED
    BY <2>1, <2>3, <2>4 DEF Copy!CheckpointOK
<1> QED
  BY <1>15, <1>16, <1>24, <1>25 DEF Copy!SourceInv
\* What WeChat does only goes on: a file with the stamp it had is as it was, and a
\* commit stays what it was.
Onward ==
  /\ v1.stamp <= v1'.stamp /\ (v1'.stamp = v1.stamp => v1' = v1)
  /\ v2.stamp <= v2'.stamp /\ (v2'.stamp = v2.stamp => v2' = v2)
  /\ Len(v7) <= Len(v7') /\ \A n \in 1 .. Len(v7) : v7'[n] = v7[n]

\* Every step of WeChat.
LEMMA SourceGoesOn ==
  ASSUME Copy!SourceInv,
         \/ \E p \in 1 .. MaxPages, size \in 0 .. MaxPages : Copy!WriteFrame(p, size)
         \/ Copy!Rollback \/ Copy!StartCheckpoint \/ Copy!CheckpointPage \/ Copy!RestartLog
  PROVE  Copy!SourceInv' /\ Onward /\ v8' = v8 /\ v9' = v9
<1>1. /\ v1.stamp \in Nat /\ v2.stamp \in Nat /\ Len(v7) \in Nat /\ Copy!FilesOK
      /\ v1 \in [pages : Seq(Nat), stamp : Nat]
         /\ v2 \in [salt : Nat, frames : Seq(Copy!Frames), stamp : Nat]
  BY DEF Copy!SourceInv, Copy!FilesOK
<1>2. ASSUME NEW p \in 1 .. MaxPages, NEW size \in 0 .. MaxPages, Copy!WriteFrame(p, size)
      PROVE  Copy!SourceInv' /\ Onward /\ v8' = v8 /\ v9' = v9
  <2>1. Copy!SourceInv'
    <3>1. CASE size = 0
      BY <1>2, <3>1, WritePart
    <3>2. CASE size # 0
      <4>1. size \in 1 .. MaxPages
        BY <3>2, PagesAssumption
      <4> QED
        BY <1>2, <4>1, WriteCommit
    <3> QED
      BY <3>1, <3>2
  <2>2. v1' = v1 /\ v8' = v8 /\ v9' = v9
    BY <1>2 DEF Copy!WriteFrame
  <2>3. v2'.stamp = v2.stamp + 1
    BY <1>1, <1>2, WriteFacts
  <2>4. Len(v7) <= Len(v7') /\ \A n \in 1 .. Len(v7) : v7'[n] = v7[n]
    <3>1. CASE size = 0
      <4>1. v7' = v7
        BY <1>2, <3>1 DEF Copy!WriteFrame
      <4> QED
        BY <1>1, <4>1
    <3>2. CASE size # 0
      <4> DEFINE frames == SubSeq(v2'.frames, 1, v3 + 1)
                 image == Copy!Over(v1.pages, frames)
      <4>1. v7' = v7 \o <<image>>
        <5>1. size # 0 => v7' = v7 \o <<Copy!Over(v1.pages, SubSeq(v2'.frames, 1, v3 + 1))>>
          BY <1>1, <1>2, WriteFacts
        <5> QED
          BY <3>2, <5>1
      <4>2. image \in Seq(Nat)
        <5>1. v2'.frames \in Seq(Copy!Frames) /\ v3' = v3 + 1 /\ v3' <= Len(v2'.frames)
              /\ v3 \in Nat
          BY <1>1, <1>2, WriteFacts, FramesAre
        <5>2. v3 + 1 \in 0 .. Len(v2'.frames)
          BY <5>1
        <5>3. frames \in Seq(Copy!Frames) /\ Len(frames) = v3 + 1
          BY <5>1, <5>2, Prefix
        <5> HIDE DEF frames
        <5>4. frames # <<>>
          BY <5>1, <5>3
        <5>5. v1.pages \in Seq(Nat)
          BY <1>1
        <5> QED
          BY <5>3, <5>4, <5>5, OverIs
      <4> HIDE DEF image
      <4>3. Len(v7') = Len(v7) + 1 /\ \A n \in 1 .. Len(v7) : v7'[n] = v7[n]
        BY <1>1, <4>1, <4>2, HistoryGrows
      <4> QED
        BY <1>1, <4>3
    <3> QED
      BY <3>1, <3>2
  <2>5. v1.stamp <= v1'.stamp /\ v2.stamp <= v2'.stamp /\ v2'.stamp # v2.stamp
    BY <1>1, <2>2, <2>3
  <2> QED
    BY <2>1, <2>2, <2>4, <2>5 DEF Onward
<1>3. ASSUME Copy!Rollback \/ Copy!StartCheckpoint
      PROVE  Copy!SourceInv' /\ Onward /\ v8' = v8 /\ v9' = v9
  <2>1. v1' = v1 /\ v2' = v2 /\ v7' = v7 /\ v8' = v8 /\ v9' = v9
    BY <1>3 DEF Copy!Rollback, Copy!StartCheckpoint
  <2>2. Copy!SourceInv'
    BY <1>3, RollsBack, CheckpointBegins
  <2> QED
    BY <1>1, <2>1, <2>2 DEF Onward
<1>4. ASSUME Copy!CheckpointPage
      PROVE  Copy!SourceInv' /\ Onward /\ v8' = v8 /\ v9' = v9
  <2>1. v2' = v2 /\ v7' = v7 /\ v8' = v8 /\ v9' = v9 /\ v1'.stamp = v1.stamp + 1
    BY <1>4 DEF Copy!CheckpointPage
  <2>2. Copy!SourceInv'
    BY <1>4, CheckpointGoesOn
  <2>3. v1.stamp <= v1'.stamp /\ v1'.stamp # v1.stamp
    BY <1>1, <2>1
  <2> QED
    BY <1>1, <2>1, <2>2, <2>3 DEF Onward
<1>5. ASSUME Copy!RestartLog
      PROVE  Copy!SourceInv' /\ Onward /\ v8' = v8 /\ v9' = v9
  <2>1. v1' = v1 /\ v7' = v7 /\ v8' = v8 /\ v9' = v9
        /\ v2' = [v2 EXCEPT !.salt = v2.salt + 1, !.stamp = v2.stamp + 1]
    BY <1>5 DEF Copy!RestartLog
  <2>2. v2'.stamp = v2.stamp + 1
    BY <1>1, <2>1
  <2>3. Copy!SourceInv'
    BY <1>5, LogRestarts
  <2>4. v2.stamp <= v2'.stamp /\ v2'.stamp # v2.stamp
    BY <1>1, <2>2
  <2> QED
    BY <1>1, <2>1, <2>3, <2>4 DEF Onward
<1> QED
  BY <1>2, <1>3, <1>4, <1>5
\* The copy has the two files as they are.
AtRest == v9.pages = v1.pages /\ v9.frames = v2.frames /\ v9.salt = v2.salt

\* The frames that count are those of the log, and maybe some that do not commit.
LEMMA RestIsLog ==
  ASSUME Copy!FilesOK, Copy!ChainOK, AtRest
  PROVE  \E v \in v3 .. Len(v2.frames) :
           Copy!ValidFrames = SubSeq(v2.frames, 1, v)
           /\ \A n \in v3 + 1 .. v : v2.frames[n].size = 0
<1> DEFINE F == v2.frames
           broken == {n \in DOMAIN F : ~ Copy!Chained(F, v2.salt, n)}
           S == broken \union {Len(F) + 1}
           m == Copy!Min(S)
<1>1. F \in Seq(Copy!Frames) /\ Len(F) \in Nat /\ v3 \in Nat /\ v3 <= Len(F)
  BY FramesAre
<1>2. Copy!ValidFrames = SubSeq(F, 1, m - 1)
  BY DEF Copy!ValidFrames, AtRest
<1>3. m \in S /\ \A k \in S : m <= k
  <2>1. S \in SUBSET (0 .. Len(F) + 1) /\ S # {} /\ Len(F) + 1 \in Nat
    BY <1>1
  <2> HIDE DEF S
  <2> QED
    BY <2>1, MinIs
<1>4. S \in SUBSET (1 .. Len(F) + 1)
  BY <1>1
<1>5. \A n \in 1 .. v3 : n \notin S
  BY <1>1 DEF Copy!ChainOK
<1>6. \A n \in 1 .. Len(F) : n \notin S => Copy!Chained(F, v2.salt, n)
  BY <1>1
<1> HIDE DEF S, m
<1>7. m \in Nat /\ m >= v3 + 1 /\ m <= Len(F) + 1
  BY <1>1, <1>3, <1>4, <1>5
<1>8. \A n \in 1 .. m - 1 : Copy!Chained(F, v2.salt, n)
  <2> TAKE n \in 1 .. m - 1
  <2>1. n \in 1 .. Len(F) /\ n < m
    BY <1>1, <1>7
  <2>2. n \notin S
    BY <1>3, <1>7, <2>1
  <2> QED
    BY <1>6, <2>1, <2>2
<1>9. ASSUME NEW n \in v3 + 1 .. m - 1 PROVE F[n].size = 0
  <2>1. n \in v3 + 1 .. Len(F) /\ \A k \in v3 + 1 .. n : k \in 1 .. m - 1
    BY <1>1, <1>7
  <2>2. \A k \in v3 + 1 .. n : Copy!Chained(F, v2.salt, k)
    BY <1>8, <2>1
  <2> QED
    BY <2>1, <2>2 DEF Copy!ChainOK
<1>10. m - 1 \in v3 .. Len(F)
  BY <1>1, <1>7
<1> QED
  BY <1>2, <1>9, <1>10

\* Of two files as they are, the last commit is taken, or it is refused for a
\* database that has shrunk.
LEMMA RestIsCopied == Copy!SourceInv /\ Copy!Begun /\ AtRest => Copy!Copied
<1> SUFFICES ASSUME Copy!SourceInv, Copy!Begun, AtRest PROVE Copy!Copied
  OBVIOUS
<1>1. Copy!FilesOK /\ Copy!ChainOK /\ Copy!LogOK
  BY DEF Copy!SourceInv
<1>2. PICK v \in v3 .. Len(v2.frames) :
        Copy!ValidFrames = SubSeq(v2.frames, 1, v) /\ \A n \in v3 + 1 .. v : v2.frames[n].size = 0
  BY <1>1, RestIsLog
<1> DEFINE F == v2.frames
           V == Copy!ValidFrames
           P == v1.pages
<1>3. /\ F \in Seq(Copy!Frames) /\ Len(F) \in Nat /\ v3 \in Nat /\ v3 <= Len(F) /\ v \in Nat
         /\ v <= Len(F)
      /\ v3 <= v /\ v \in 0 .. Len(F)
      /\ \A n \in 1 .. Len(F) : F[n].size \in Nat
  BY <1>1, FramesAre
<1>4. V \in Seq(Copy!Frames) /\ Len(V) = v /\ (\A n \in 1 .. v : V[n] = F[n])
      /\ \A k \in 0 .. v : SubSeq(V, 1, k) = SubSeq(F, 1, k)
  BY <1>2, <1>3, Prefix
<1>5. P \in Seq(Nat) /\ Len(P) \in Nat /\ v9.pages = P
  BY <1>1 DEF Copy!FilesOK, AtRest
<1>6. /\ Len(Copy!Log) \in 0 .. v3 /\ Copy!Log \in Seq(Copy!Frames)
         /\ Copy!Log = SubSeq(F, 1, Len(Copy!Log))
      /\ Copy!Ends \subseteq 1 .. Len(Copy!Log)
         /\ (Len(Copy!Log) # 0 => Len(Copy!Log) \in Copy!Ends)
  BY <1>1, LogIs
<1>7. \A n \in 1 .. v : V[n].size > 0 => n \in Copy!Ends
  <2> SUFFICES ASSUME NEW n \in 1 .. v, V[n].size > 0 PROVE n \in Copy!Ends
    OBVIOUS
  <2>1. F[n].size > 0
    BY <1>4
  <2>2. n <= v3
    <3> SUFFICES ASSUME ~ (n <= v3) PROVE FALSE
      OBVIOUS
    <3>1. n \in v3 + 1 .. v
      BY <1>3
    <3>2. F[n].size = 0
      BY <1>2, <3>1
    <3> QED
      BY <2>1, <3>2
  <2> QED
    BY <1>3, <2>1, <2>2 DEF Copy!Ends
<1> HIDE DEF V
<1>8. Copy!Committed(V) = Copy!Log
  <2> DEFINE l == Len(Copy!Log)
  <2>1. l \in 0 .. Len(V) /\ l \in 0 .. v
    BY <1>3, <1>4, <1>6
  <2>2. l = 0 \/ V[l].size > 0
    <3>1. l # 0 => l \in 1 .. v /\ F[l].size > 0
      BY <1>3, <1>6 DEF Copy!Ends
    <3> QED
      BY <1>4, <3>1
  <2>3. \A n \in l + 1 .. Len(V) : V[n].size = 0
    <3> TAKE n \in l + 1 .. Len(V)
    <3>1. n \in 1 .. v /\ n \notin Copy!Ends /\ V[n] = F[n] /\ F[n].size \in Nat
      BY <1>3, <1>4, <1>6
    <3> QED
      BY <1>7, <3>1
  <2> HIDE DEF l
  <2>4. Copy!Committed(V) = SubSeq(V, 1, l)
    BY <1>4, <2>1, <2>2, <2>3, CommittedAt
  <2> QED
    BY <1>4, <1>6, <2>1, <2>4 DEF l
<1> DEFINE T == {n \in DOMAIN V : ~ Copy!Fits(V, n)} \union {Len(V) + 1}
           m == Copy!Min(T)
           C == Copy!Supported(V)
<1>9. C = SubSeq(V, 1, m - 1)
  BY DEF Copy!Supported
<1>10. m \in T /\ \A k \in T : m <= k
  <2>1. T \in SUBSET (0 .. Len(V) + 1) /\ T # {} /\ Len(V) + 1 \in Nat
    BY <1>3, <1>4
  <2> HIDE DEF T
  <2> QED
    BY <2>1, MinIs
<1>11. T \in SUBSET (1 .. v + 1) /\ (m # v + 1 => m \in 1 .. v /\ ~ Copy!Fits(V, m))
       /\ \A n \in 1 .. v : n \notin T => Copy!Fits(V, n)
  BY <1>3, <1>4, <1>10
<1> HIDE DEF T, m, C
<1>12. m \in 1 .. v + 1 /\ m - 1 \in 0 .. v /\ m \in Nat
  BY <1>3, <1>10, <1>11
<1>13. C \in Seq(Copy!Frames) /\ Len(C) = m - 1 /\ \A n \in 1 .. m - 1 : C[n] = V[n]
  BY <1>4, <1>9, <1>12, Prefix
<1>14. CASE m = v + 1
  <2>1. C = V
    BY <1>3, <1>4, <1>9, <1>14, SubSeqFull
  <2>2. Copy!Over(v9.pages, Copy!Applied(C)) = v7[Len(v7)]
    <3>1. Copy!Applied(C) = Copy!Log
      BY <1>8, <2>1 DEF Copy!Applied
    <3>2. Copy!Over(P, Copy!Log) = Copy!Last(v7)
      BY <1>1 DEF Copy!LogOK
    <3> QED
      BY <1>5, <3>1, <3>2 DEF Copy!Last
  <2>3. Len(v7) \in v8.commits .. Len(v7)
    <3>1. Len(v7) \in Nat
      BY <1>1 DEF Copy!FilesOK
    <3> QED
      BY <3>1 DEF Copy!Begun
  <2> QED
    BY <2>1, <2>2, <2>3 DEF Copy!Copied, C, V
<1>15. CASE m # v + 1
  <2>1. m \in 1 .. v /\ ~ (V[m].size <= Len(P) + m) /\ V[m] = F[m] /\ F[m].size \in Nat
    BY <1>3, <1>4, <1>5, <1>11, <1>15 DEF Copy!Fits
  <2>2. m \in Copy!Ends
    <3>1. V[m].size > 0
      BY <1>5, <2>1
    <3> QED
      BY <1>7, <2>1, <3>1
  <2>3. Copy!Shrunk
    BY <1>1, <2>1, <2>2 DEF Copy!LogOK
  <2>4. C # V
    BY <1>4, <1>12, <1>13, <2>1
  <2>5. Copy!Committed(C) = <<>>
    <3>1. PICK l \in 0 .. Len(C) : /\ l = 0 \/ C[l].size > 0
                                   /\ Copy!Committed(C) = SubSeq(C, 1, l)
                                      /\ Len(Copy!Committed(C)) = l
      BY <1>13, CommittedIs
    <3>2. CASE l = 0
      <4>1. Copy!Committed(C) \in Seq(Copy!Frames)
        BY <1>13, <3>1, Prefix
      <4> QED
        BY <3>1, <3>2, <4>1
    <3>3. CASE l # 0
      <4>1. l \in 1 .. m - 1 /\ l \in Nat /\ l \in 1 .. v /\ l < m /\ l \in 1 .. Len(F)
        BY <1>3, <1>12, <1>13, <3>1, <3>3
      <4>2. V[l].size > 0 /\ V[l] = F[l] /\ F[l].size \in Nat
        BY <1>3, <1>4, <1>13, <3>1, <3>3, <4>1
      <4>3. l \in Copy!Ends
        BY <1>7, <4>1, <4>2
      <4>4. l \notin T
        BY <1>10, <1>12, <4>1
      <4>5. F[l].size <= Len(P) + l
        BY <1>5, <1>11, <4>1, <4>2, <4>4 DEF Copy!Fits
      <4>6. F[m].size <= F[l].size + (m - l)
        BY <1>1, <2>2, <4>1, <4>3, GrowsByFrames DEF Copy!LogOK
      <4>7. F[m].size <= Len(P) + m
        <5> DEFINE a == F[m].size
                   b == F[l].size
                   c == Len(P)
        <5>1. a \in Nat /\ b \in Nat /\ c \in Nat /\ m \in Nat /\ l \in Nat
          BY <1>5, <1>12, <2>1, <4>1, <4>2
        <5>2. a <= b + (m - l) /\ b <= c + l
          BY <4>5, <4>6
        <5> HIDE DEF a, b, c
        <5>3. a <= c + m
          BY <5>1, <5>2, Room
        <5> QED
          BY <5>3 DEF a, c
      <4> QED
        BY <2>1, <4>7
    <3> QED
      BY <3>2, <3>3
  <2> QED
    BY <2>3, <2>4, <2>5 DEF Copy!Copied, C, V
<1> QED
  BY <1>14, <1>15
\* A record of the copy and its fields.
LEMMA CopyFields ==
  /\ v9 \in Copy!AfterProve => v9.at = "stat_main" /\ v9.proof \in Nat /\ v9.attempt \in Nat
  /\ v9 \in Copy!OfMain =>
       /\ v9.at \in {"copy_main", "check_main", "stat_wal"} /\ v9.proof \in Nat
          /\ v9.attempt \in Nat
       /\ v9.before \in Nat /\ v9.pages \in Seq(Nat)
  /\ v9 \in Copy!OfLog =>
       /\ v9.at \in {"copy_wal", "check_again", "decrypt"} /\ v9.proof \in Nat
          /\ v9.attempt \in Nat
       /\ v9.before \in Nat /\ v9.pages \in Seq(Nat) /\ v9.walBefore \in Nat /\ v9.salt \in Nat
       /\ v9.frames \in Seq(Copy!Frames)
BY DEF Copy!AfterProve, Copy!OfMain, Copy!OfLog

\* What was copied once stays copied.
LEMMA CopiedStays ==
  ASSUME Copy!FilesOK, Copy!FilesOK', Copy!Begun, Onward, v8' = v8, v9'.pages = v9.pages,
         v9'.frames = v9.frames, v9'.salt = v9.salt, Copy!Copied
  PROVE  Copy!Copied'
<1>1. Copy!ValidFrames' = Copy!ValidFrames
  BY DEF Copy!ValidFrames, Copy!Chained
<1> DEFINE C == Copy!Supported(Copy!ValidFrames)
<1>2. C' = C
  BY <1>1 DEF Copy!Supported, Copy!Fits
<1>3. Copy!Applied(C)' = Copy!Applied(C) /\ Copy!Committed(C)' = Copy!Committed(C)
  BY <1>2 DEF Copy!Applied, Copy!Committed
<1>4. Copy!Shrunk => Copy!Shrunk'
  <2>1. DOMAIN v7 = 1 .. Len(v7)
    BY DEF Copy!FilesOK
  <2>2. Len(v7) <= Len(v7') /\ \A n \in DOMAIN v7 : v7'[n] = v7[n]
    BY <2>1 DEF Onward
  <2> QED
    BY <2>2, ShrunkStays
<1>5. Copy!Copied = IF C # Copy!ValidFrames /\ Copy!Committed(C) = <<>> THEN Copy!Shrunk
               ELSE \E n \in v8.commits .. Len(v7) : Copy!Over(v9.pages, Copy!Applied(C)) = v7[n]
  BY DEF Copy!Copied
<1>6. Copy!Copied' = IF C' # Copy!ValidFrames' /\ Copy!Committed(C)' = <<>> THEN Copy!Shrunk'
                ELSE \E n \in v8'.commits .. Len(v7') : Copy!Over(v9'.pages, Copy!Applied(C)') = v7'[n]
  BY DEF Copy!Copied
<1>7. \A n \in v8.commits .. Len(v7) :
        n \in v8'.commits .. Len(v7') /\ v7'[n] = v7[n]
  <2>1. v7 \in Seq(Seq(Nat)) /\ v7' \in Seq(Seq(Nat))
    BY DEF Copy!FilesOK
  <2>2. Len(v7) \in Nat /\ Len(v7') \in Nat
    BY <2>1
  <2>3. v8.commits \in 1 .. Len(v7)
    BY DEF Copy!Begun
  <2> QED
    BY <2>2, <2>3 DEF Onward
<1> HIDE DEF C
<1> QED
  BY <1>1, <1>2, <1>3, <1>4, <1>5, <1>6, <1>7
\* What the copy has stays true while WeChat goes on.
LEMMA TracksOn ==
  ASSUME Copy!FilesOK, Copy!FilesOK', Copy!Begun, Copy!Tracks, Copy!PublishedIsCommit,
         Copy!RefusedOnlyIfWritten, Onward,
         v8' = v8, v9' = v9
  PROVE  Copy!Begun' /\ Copy!Tracks' /\ Copy!PublishedIsCommit' /\ Copy!RefusedOnlyIfWritten'
<1>1. /\ v1.stamp \in Nat /\ v1'.stamp \in Nat /\ v2.stamp \in Nat /\ v2'.stamp \in Nat
      /\ v7 \in Seq(Seq(Nat)) /\ v7' \in Seq(Seq(Nat))
  BY DEF Copy!FilesOK
<1>2. Len(v7) \in Nat /\ Len(v7') \in Nat /\ DOMAIN v7 = 1 .. Len(v7)
  BY <1>1
<1>3. /\ v1.stamp <= v1'.stamp /\ (v1'.stamp = v1.stamp => v1' = v1)
      /\ v2.stamp <= v2'.stamp /\ (v2'.stamp = v2.stamp => v2' = v2)
      /\ Len(v7) <= Len(v7') /\ \A n \in 1 .. Len(v7) : v7'[n] = v7[n]
  BY DEF Onward
<1>4. /\ v8 \in [commits : Nat, main : Nat, wal : Nat] /\ v8.commits \in 1 .. Len(v7)
      /\ v8.main <= v1.stamp /\ v8.wal <= v2.stamp /\ v8.main \in Nat /\ v8.wal \in Nat
  BY DEF Copy!Begun
<1>5. Copy!Begun'
  <2>1. v8.commits \in 1 .. Len(v7') /\ v8.main <= v1'.stamp /\ v8.wal <= v2'.stamp
    <3>1. Len(v7) <= Len(v7') /\ v8.commits \in 1 .. Len(v7)
      BY <1>3, <1>4
    <3>2. v8.commits \in 1 .. Len(v7')
      BY <1>2, <3>1
    <3>3. v8.main <= v1'.stamp
      BY <1>1, <1>3, <1>4
    <3>4. v8.wal <= v2'.stamp
      BY <1>1, <1>3, <1>4
    <3> QED
      BY <3>2, <3>3, <3>4
  <2> QED
    BY <1>4, <2>1 DEF Copy!Begun
<1>6. Copy!PublishedIsCommit'
  <2> SUFFICES ASSUME v9.at = "published"
               PROVE  \E n \in v8.commits .. Len(v7') : v9.pages = v7'[n]
    BY DEF Copy!PublishedIsCommit
  <2>1. PICK n \in v8.commits .. Len(v7) : v9.pages = v7[n]
    BY DEF Copy!PublishedIsCommit
  <2>2. n \in 1 .. Len(v7) /\ n \in v8.commits .. Len(v7')
    BY <1>2, <1>3, <1>4
  <2> QED
    BY <1>3, <2>1, <2>2
<1>7. Copy!Shrunk => Copy!Shrunk'
  BY <1>2, <1>3, ShrunkStays
<1>8. Copy!RefusedOnlyIfWritten'
  <2> SUFFICES ASSUME v9.at = "failed"
               PROVE  v1'.stamp # v8.main \/ v2'.stamp # v8.wal \/ Copy!Shrunk'
    BY DEF Copy!RefusedOnlyIfWritten
  <2>1. v1.stamp # v8.main \/ v2.stamp # v8.wal \/ Copy!Shrunk
    BY DEF Copy!RefusedOnlyIfWritten
  <2>2. v1.stamp # v8.main => v1'.stamp # v8.main
    BY <1>1, <1>3, <1>4
  <2>3. v2.stamp # v8.wal => v2'.stamp # v8.wal
    BY <1>1, <1>3, <1>4
  <2> QED
    BY <1>7, <2>1, <2>2, <2>3
<1>9. Copy!Copied => Copy!Copied'
  BY CopiedStays
<1>10. \/ v9.at \in {"prove", "published", "failed"}
       \/ v9 \in Copy!AfterProve \union Copy!OfMain \union Copy!OfLog
  BY DEF Copy!Tracks
<1>11. ASSUME v9.at \notin {"prove", "stat_main", "published", "failed"}
       PROVE  /\ v9.before \in Nat /\ v9.proof \in Nat
              /\ v9.proof <= v9.before /\ v9.before <= v1.stamp
              /\ (v1'.stamp = v9.before => v1' = v1 /\ v1.stamp = v9.before)
  <2>1. v9.before \in Nat /\ v9.proof \in Nat
    BY <1>10, <1>11, CopyFields
  <2>2. v9.proof <= v9.before /\ v9.before <= v1.stamp
    BY <1>11 DEF Copy!Tracks
  <2>3. v1'.stamp = v9.before => v1'.stamp = v1.stamp
    BY <1>1, <1>3, <2>1, <2>2
  <2> QED
    BY <1>3, <2>1, <2>2, <2>3
<1>12. v9.at \notin {"prove", "stat_main", "published", "failed"} =>
         v9.proof <= v9.before /\ v9.before <= v1'.stamp
  <2> SUFFICES ASSUME v9.at \notin {"prove", "stat_main", "published", "failed"}
               PROVE  v9.proof <= v9.before /\ v9.before <= v1'.stamp
    OBVIOUS
  <2>1. v9.before \in Nat /\ v9.proof <= v9.before /\ v9.before <= v1.stamp
    BY <1>11
  <2> QED
    BY <1>1, <1>3, <2>1
<1>13. v9.at = "copy_main" /\ v1'.stamp = v9.before =>
         Len(v9.pages) <= Len(v1'.pages) /\ v9.pages = SubSeq(v1'.pages, 1, Len(v9.pages))
  BY <1>11 DEF Copy!Tracks
<1>14. v9.at \in {"check_main", "stat_wal", "copy_wal"} /\ v1'.stamp = v9.before =>
         v9.pages = v1'.pages
  BY <1>11 DEF Copy!Tracks
<1>15. ASSUME v9.at = "copy_wal"
       PROVE  /\ v8.wal <= v9.walBefore /\ v9.walBefore <= v2'.stamp
              /\ v2'.stamp = v9.walBefore =>
                   /\ v9.salt = v2'.salt /\ Len(v9.frames) <= Len(v2'.frames)
                   /\ v9.frames = SubSeq(v2'.frames, 1, Len(v9.frames))
  <2>1. v9.walBefore \in Nat
    BY <1>10, <1>15, CopyFields
  <2>2. v8.wal <= v9.walBefore /\ v9.walBefore <= v2.stamp
    BY <1>15 DEF Copy!Tracks
  <2>3. v2'.stamp = v9.walBefore => v2' = v2 /\ v2.stamp = v9.walBefore
    BY <1>1, <1>3, <2>1, <2>2
  <2>4. v9.walBefore <= v2'.stamp
    BY <1>1, <1>3, <2>1, <2>2
  <2>5. v2.stamp = v9.walBefore =>
          /\ v9.salt = v2.salt /\ Len(v9.frames) <= Len(v2.frames)
          /\ v9.frames = SubSeq(v2.frames, 1, Len(v9.frames))
    BY <1>15 DEF Copy!Tracks
  <2> QED
    BY <2>2, <2>3, <2>4, <2>5
<1>16. v9.at = "check_again" /\ v1'.stamp = v9.proof => Copy!Copied'
  <2> SUFFICES ASSUME v9.at = "check_again", v1'.stamp = v9.proof PROVE Copy!Copied'
    OBVIOUS
  <2>1. v9.before = v9.proof
    BY DEF Copy!Tracks
  <2>2. v1.stamp = v9.proof
    BY <1>11, <2>1
  <2> QED
    BY <1>9, <2>2 DEF Copy!Tracks
<1>17. v9.at = "decrypt" => Copy!Copied'
  BY <1>9 DEF Copy!Tracks
<1>18. Copy!Tracks'
  <2>1. v9' \in Copy!AfterProve' \union Copy!OfMain' \union Copy!OfLog'
          <=> v9 \in Copy!AfterProve \union Copy!OfMain \union Copy!OfLog
    BY DEF Copy!AfterProve, Copy!OfMain, Copy!OfLog
  <2>2. /\ v9.at \notin {"prove", "published", "failed"} => v9.proof = v8.main
        /\ v9.at \in {"stat_wal", "copy_wal", "check_again", "decrypt"} => v9.before = v9.proof
    BY DEF Copy!Tracks
  <2> QED
    BY <1>10, <1>12, <1>13, <1>14, <1>15, <1>16, <1>17, <2>1, <2>2 DEF Copy!Tracks
<1> QED
  BY <1>5, <1>6, <1>8, <1>18

\* The beginning of the frames and the rest are the frames.
LEMMA Rejoined ==
  ASSUME NEW S, NEW F \in Seq(S), NEW k \in Nat, k <= Len(F)
  PROVE  SubSeq(F, 1, k) \o SubSeq(F, k + 1, Len(F)) = F
<1> DEFINE a == SubSeq(F, 1, k)
           b == SubSeq(F, k + 1, Len(F))
<1>1. a \in Seq(S) /\ Len(a) = k /\ \A n \in 1 .. k : a[n] = F[n]
  <2>1. k \in 0 .. Len(F)
    OBVIOUS
  <2> QED
    BY <2>1, Prefix
<1>2. /\ b \in Seq(S) /\ Len(b) = Len(F) - k
      /\ \A n \in 1 .. Len(F) - k : b[n] = F[n + k]
  <2>1. \A n \in k + 1 .. Len(F) : F[n] \in S
    OBVIOUS
  <2>2. k + 1 \in Int /\ Len(F) \in Int
    OBVIOUS
  <2>3. /\ SubSeq(F, k + 1, Len(F)) \in Seq(S)
        /\ Len(SubSeq(F, k + 1, Len(F))) = IF k + 1 <= Len(F) THEN Len(F) - (k + 1) + 1 ELSE 0
        /\ \A n \in 1 .. Len(F) - (k + 1) + 1 : SubSeq(F, k + 1, Len(F))[n] = F[(k + 1) + n - 1]
    BY <2>1, <2>2, SubSeqProperties
  <2> QED
    BY <2>3
<1> HIDE DEF a, b
<1>3. /\ a \o b \in Seq(S) /\ Len(a \o b) = Len(a) + Len(b)
      /\ \A n \in 1 .. Len(a) + Len(b) : (a \o b)[n] = IF n <= Len(a) THEN a[n] ELSE b[n - Len(a)]
  <2>1. a \in Seq(S) /\ b \in Seq(S)
    BY <1>1, <1>2
  <2> QED
    BY <2>1, ConcatProperties
<1> DEFINE c == a \o b
<1>4. c \in Seq(S) /\ Len(c) = Len(F)
  BY <1>1, <1>2, <1>3
<1>5. ASSUME NEW n \in 1 .. Len(F) PROVE c[n] = F[n]
  <2>1. c[n] = IF n <= k THEN a[n] ELSE b[n - k]
    BY <1>1, <1>2, <1>3
  <2>2. CASE n <= k
    BY <1>1, <2>1, <2>2
  <2>3. CASE ~ (n <= k)
    <3>1. n - k \in 1 .. Len(F) - k /\ (n - k) + k = n
      BY <2>3
    <3> QED
      BY <1>2, <2>1, <2>3, <3>1
  <2> QED
    BY <2>2, <2>3
<1> HIDE DEF c
<1>6. c = F
  BY <1>4, <1>5
<1> QED
  BY <1>6 DEF a, b, c
\* Every step of the copy.
LEMMA CopySteps ==
  ASSUME Copy!CopyInv,
         \/ Copy!Prove \/ Copy!StatMain \/ Copy!CopyMainPage
         \/ Copy!EndMain \/ Copy!CheckMain \/ Copy!StatWal \/ Copy!EndWal \/ Copy!Decrypt
  PROVE  Copy!CopyInv'
<1>1. Copy!FilesOK /\ Copy!SourceInv /\ Copy!Begun /\ Copy!Tracks /\ Copy!PublishedIsCommit
      /\ Copy!RefusedOnlyIfWritten
  BY DEF Copy!CopyInv, Copy!SourceInv
<1>2. v1' = v1 /\ v2' = v2 /\ v7' = v7 /\ UNCHANGED Copy!source
  BY DEF Copy!Prove, Copy!StatMain, Copy!CopyMainPage, Copy!EndMain, Copy!CheckMain,
     Copy!StatWal, Copy!EndWal, Copy!Decrypt, Copy!source
<1>3. Copy!SourceInv' /\ Copy!FilesOK'
  BY <1>1, <1>2, SourceStays DEF Copy!SourceInv
<1>4. /\ v1.stamp \in Nat /\ v2.stamp \in Nat /\ v1.pages \in Seq(Nat)
         /\ v2.frames \in Seq(Copy!Frames)
      /\ Len(v7) \in Nat /\ v2.salt \in Nat /\ v7 \in Seq(Seq(Nat)) /\ v7 # <<>>
  BY <1>1 DEF Copy!FilesOK
<1>5. Onward
  BY <1>2, <1>4 DEF Onward
<1>6. /\ v8 \in [commits : Nat, main : Nat, wal : Nat] /\ v8.commits \in 1 .. Len(v7)
      /\ v8.main <= v1.stamp /\ v8.wal <= v2.stamp /\ v8.main \in Nat /\ v8.wal \in Nat
  BY <1>1 DEF Copy!Begun
<1>7. \/ v9.at \in {"prove", "published", "failed"}
      \/ v9 \in Copy!AfterProve \union Copy!OfMain \union Copy!OfLog
  BY <1>1 DEF Copy!Tracks
<1>8. ASSUME v8' = v8 PROVE Copy!Begun'
  BY <1>1, <1>2, <1>8 DEF Copy!Begun
<1>9. ASSUME v9.at \notin {"prove", "stat_main", "published", "failed"}
      PROVE  /\ v9.attempt \in Nat /\ v9.before \in Nat /\ v9.proof \in Nat
                /\ v9.pages \in Seq(Nat)
             /\ v9.proof = v8.main /\ v9.proof <= v9.before /\ v9.before <= v1.stamp
  <2>1. /\ v9.attempt \in Nat /\ v9.before \in Nat /\ v9.proof \in Nat /\ v9.pages \in Seq(Nat)
    BY <1>7, <1>9, CopyFields
  <2> QED
    BY <1>1, <1>9, <2>1 DEF Copy!Tracks
<1>10. ASSUME Copy!Prove PROVE Copy!CopyInv'
  <2>1. /\ v9' = [at |-> "stat_main", attempt |-> 1, proof |-> v1.stamp] /\ v9'.at = "stat_main"
        /\ v8' = [commits |-> Len(v7), main |-> v1.stamp, wal |-> v2.stamp]
    BY <1>10 DEF Copy!Prove
  <2>2. Copy!Begun'
    <3>1. Len(v7) \in 1 .. Len(v7)
      BY <1>4
    <3>2. v8' \in [commits : Nat, main : Nat, wal : Nat]
      BY <1>4, <2>1
    <3>3. v8'.commits = Len(v7) /\ v8'.main = v1.stamp /\ v8'.wal = v2.stamp
      BY <2>1
    <3> QED
      BY <1>2, <1>4, <3>1, <3>2, <3>3 DEF Copy!Begun
  <2>3. v9' \in Copy!AfterProve /\ v9'.proof = v8'.main
    BY <1>4, <2>1 DEF Copy!AfterProve
  <2>4. Copy!Tracks'
    BY <2>1, <2>3 DEF Copy!Tracks, Copy!AfterProve
  <2> QED
    BY <1>3, <2>1, <2>2, <2>4 DEF Copy!CopyInv, Copy!PublishedIsCommit,
       Copy!RefusedOnlyIfWritten
<1>11. ASSUME Copy!StatMain PROVE Copy!CopyInv'
  <2>1. /\ v9.at = "stat_main" /\ v8' = v8 /\ v9'.at = "copy_main"
        /\ v9' = [at |-> "copy_main", attempt |-> v9.attempt, proof |-> v9.proof,
                    before |-> v1.stamp, pages |-> <<>>]
    BY <1>11 DEF Copy!StatMain
  <2>2. v9.attempt \in Nat /\ v9.proof \in Nat /\ v9.proof = v8.main
    BY <1>1, <1>7, <2>1, CopyFields DEF Copy!Tracks
  <2>3. v9' \in Copy!OfMain /\ v9'.proof = v8.main /\ v9'.before = v1.stamp /\ v9'.pages = <<>>
    BY <1>4, <2>1, <2>2 DEF Copy!OfMain
  <2>4. Len(v9'.pages) <= Len(v1.pages) /\ v9'.pages = SubSeq(v1.pages, 1, Len(v9'.pages))
    <3>1. Len(v9'.pages) = 0
      BY <2>3
    <3>2. 0 \in 0 .. Len(v1.pages)
      BY <1>4
    <3>3. SubSeq(v1.pages, 1, 0) \in Seq(Nat) /\ Len(SubSeq(v1.pages, 1, 0)) = 0
      BY <1>4, <3>2, Prefix
    <3>4. SubSeq(v1.pages, 1, 0) = <<>>
      BY <3>3
    <3> QED
      BY <1>4, <2>3, <3>1, <3>4
  <2>5. v8.main <= v1.stamp /\ v1.stamp <= v1.stamp
    BY <1>4, <1>6
  <2>6. Copy!Tracks'
    BY <1>2, <2>1, <2>2, <2>3, <2>4, <2>5 DEF Copy!Tracks, Copy!OfMain
  <2>7. Copy!Begun'
    BY <1>8, <2>1
  <2> QED
    BY <1>3, <2>1, <2>6, <2>7 DEF Copy!CopyInv, Copy!PublishedIsCommit,
       Copy!RefusedOnlyIfWritten
<1>12. ASSUME Copy!CopyMainPage PROVE Copy!CopyInv'
  <2> DEFINE P == v1.pages
             k == Len(v9.pages)
             next == v9.pages \o <<P[k + 1]>>
  <2>1. /\ v9.at = "copy_main" /\ k < Len(P) /\ v8' = v8
        /\ v9' = [v9 EXCEPT !.pages = next]
    BY <1>12 DEF Copy!CopyMainPage
  <2>2. v9 \in Copy!OfMain
    BY <1>7, <2>1 DEF Copy!AfterProve, Copy!OfMain, Copy!OfLog
  <2>3. v9.pages \in Seq(Nat) /\ k \in Nat /\ P[k + 1] \in Nat
    <3>1. v9.pages \in Seq(Nat)
      BY <1>9, <2>1
    <3>2. k \in Nat /\ P \in Seq(Nat) /\ Len(P) \in Nat /\ k < Len(P)
      <4>1. P \in Seq(Nat)
        BY <1>4
      <4>2. Len(P) \in Nat /\ k \in Nat
        BY <3>1, <4>1
      <4> QED
        BY <2>1, <4>1, <4>2
    <3> HIDE DEF k, P
    <3>3. k + 1 \in 1 .. Len(P)
      BY <3>2
    <3> QED
      BY <3>1, <3>2, <3>3
  <2>4. next \in Seq(Nat) /\ Len(next) = k + 1
        /\ \A n \in 1 .. k + 1 : next[n] = IF n <= k THEN v9.pages[n] ELSE P[k + 1]
    <3> DEFINE a == v9.pages
               v == P[k + 1]
    <3>1. a \in Seq(Nat) /\ <<v>> \in Seq(Nat) /\ Len(<<v>>) = 1 /\ <<v>>[1] = v /\ Len(a) = k
      BY <2>3
    <3> HIDE DEF a, v, k
    <3>2. /\ a \o <<v>> \in Seq(Nat) /\ Len(a \o <<v>>) = Len(a) + Len(<<v>>)
          /\ \A n \in 1 .. Len(a) + Len(<<v>>) :
               (a \o <<v>>)[n] = IF n <= Len(a) THEN a[n] ELSE <<v>>[n - Len(a)]
      BY <3>1, ConcatProperties
    <3>3. \A n \in 1 .. k + 1 : (a \o <<v>>)[n] = IF n <= k THEN a[n] ELSE v
      BY <2>3, <3>1, <3>2
    <3>4. a \o <<v>> \in Seq(Nat) /\ Len(a \o <<v>>) = k + 1
      BY <3>1, <3>2
    <3> QED
      BY <3>3, <3>4 DEF a, v
  <2> HIDE DEF next
  <2>5. v9' \in Copy!OfMain /\ v9'.at = v9.at /\ v9'.proof = v9.proof /\ v9'.before = v9.before
        /\ v9'.pages = next
    BY <2>1, <2>2, <2>4 DEF Copy!OfMain
  <2>6. ASSUME v1.stamp = v9.before
        PROVE  Len(next) <= Len(P) /\ next = SubSeq(P, 1, Len(next))
    <3>1. v9.pages = SubSeq(P, 1, k)
      BY <1>1, <2>1, <2>6 DEF Copy!Tracks
    <3>2. k \in 0 .. Len(P) /\ k + 1 \in 0 .. Len(P) /\ k + 1 \in Nat
      <4>1. k \in Nat /\ Len(P) \in Nat /\ k < Len(P)
        BY <1>4, <2>1, <2>3
      <4> HIDE DEF k, P
      <4> QED
        BY <4>1
    <3>3. \A n \in 1 .. k : v9.pages[n] = P[n]
      BY <1>4, <3>1, <3>2, Prefix
    <3>4. \A n \in 1 .. k + 1 : next[n] = P[n]
      <4> TAKE n \in 1 .. k + 1
      <4>1. CASE n <= k
        BY <2>3, <2>4, <3>3, <4>1
      <4>2. CASE ~ (n <= k)
        <5>1. n = k + 1
          BY <2>3, <4>2
        <5> QED
          BY <2>4, <4>2, <5>1
      <4> QED
        BY <4>1, <4>2
    <3>5. SubSeq(next, 1, k + 1) = SubSeq(P, 1, k + 1)
      BY <1>4, <2>4, <3>2, <3>4, SamePrefix
    <3>6. SubSeq(next, 1, k + 1) = next
      BY <2>4, SubSeqFull
    <3> QED
      BY <1>4, <2>4, <3>2, <3>5, <3>6
  <2>7. /\ v9.proof = v8.main /\ v9.proof <= v9.before /\ v9.before <= v1.stamp
    BY <1>9, <2>1
  <2>8. Copy!Tracks'
    BY <1>2, <2>1, <2>5, <2>6, <2>7 DEF Copy!Tracks, Copy!OfMain
  <2>9. Copy!Begun'
    BY <1>8, <2>1
  <2> QED
    BY <1>3, <2>1, <2>5, <2>8, <2>9 DEF Copy!CopyInv, Copy!PublishedIsCommit,
       Copy!RefusedOnlyIfWritten
<1>13. ASSUME v8' = v8, v9' = [at |-> "failed"],
              v1.stamp # v8.main \/ v2.stamp # v8.wal \/ Copy!Shrunk
       PROVE  Copy!CopyInv'
  <2>1. v9'.at = "failed"
    BY <1>13
  <2>2. Copy!Begun'
    BY <1>8, <1>13
  <2>3. Copy!Tracks' /\ Copy!PublishedIsCommit'
    BY <2>1 DEF Copy!Tracks, Copy!PublishedIsCommit, Copy!AfterProve, Copy!OfMain, Copy!OfLog
  <2>4. Copy!RefusedOnlyIfWritten'
    BY <1>2, <1>13 DEF Copy!RefusedOnlyIfWritten, Copy!Shrunk
  <2> QED
    BY <1>3, <2>2, <2>3, <2>4 DEF Copy!CopyInv
<1>14. ASSUME Copy!EndMain PROVE Copy!CopyInv'
  <2>1. v9.at = "copy_main" /\ Len(v9.pages) >= Len(v1.pages) /\ v8' = v8
    BY <1>14 DEF Copy!EndMain
  <2>2. v9 \in Copy!OfMain
    BY <1>7, <2>1 DEF Copy!AfterProve, Copy!OfMain, Copy!OfLog
  <2>3. /\ v9.attempt \in Nat /\ v9.before \in Nat /\ v9.proof \in Nat /\ v9.pages \in Seq(Nat)
        /\ v9.proof = v8.main /\ v9.proof <= v9.before /\ v9.before <= v1.stamp
    BY <1>9, <2>1
  <2>4. Copy!Begun'
    BY <1>8, <2>1
  <2>5. CASE v1.stamp = v9.before
    <3>1. v9' = [v9 EXCEPT !.at = "check_main"]
      BY <1>14, <2>5 DEF Copy!EndMain
    <3>2. /\ v9' \in Copy!OfMain /\ v9'.at = "check_main" /\ v9'.proof = v9.proof
          /\ v9'.before = v9.before /\ v9'.pages = v9.pages
      BY <2>2, <3>1 DEF Copy!OfMain
    <3>3. v9.pages = v1.pages
      <4>1. Len(v9.pages) <= Len(v1.pages) /\ v9.pages = SubSeq(v1.pages, 1, Len(v9.pages))
        BY <1>1, <2>1, <2>5 DEF Copy!Tracks
      <4>2. Len(v9.pages) = Len(v1.pages)
        BY <1>4, <2>1, <2>3, <4>1
      <4> QED
        BY <1>4, <4>1, <4>2, SubSeqFull
    <3>4. Copy!Tracks'
      BY <1>2, <2>1, <2>3, <3>2, <3>3 DEF Copy!Tracks, Copy!OfMain
    <3> QED
      BY <1>3, <2>4, <3>2, <3>4 DEF Copy!CopyInv, Copy!PublishedIsCommit,
         Copy!RefusedOnlyIfWritten
  <2>6. CASE v1.stamp # v9.before
    <3>1. CASE v9.attempt < MaxAttempts
      <4>1. v9' = [at |-> "stat_main", attempt |-> v9.attempt + 1, proof |-> v9.proof]
        BY <1>14, <2>6, <3>1 DEF Copy!EndMain
      <4>2. v9' \in Copy!AfterProve /\ v9'.at = "stat_main" /\ v9'.proof = v9.proof
        BY <2>3, <4>1 DEF Copy!AfterProve
      <4>3. Copy!Tracks'
        BY <2>1, <2>3, <4>2 DEF Copy!Tracks, Copy!AfterProve
      <4> QED
        BY <1>3, <2>4, <4>2, <4>3 DEF Copy!CopyInv, Copy!PublishedIsCommit,
           Copy!RefusedOnlyIfWritten
    <3>2. CASE ~ (v9.attempt < MaxAttempts)
      <4>1. v9' = [at |-> "failed"]
        BY <1>14, <2>6, <3>2 DEF Copy!EndMain, Copy!Fails
      <4>2. v1.stamp # v8.main
        BY <1>4, <2>3, <2>6
      <4> QED
        BY <1>13, <2>1, <4>1, <4>2
    <3> QED
      BY <3>1, <3>2
  <2> QED
    BY <2>5, <2>6
<1>15. ASSUME Copy!CheckMain PROVE Copy!CopyInv'
  <2>1. v9.at \in {"check_main", "check_again"} /\ v8' = v8
    BY <1>15 DEF Copy!CheckMain
  <2>2. /\ v9.attempt \in Nat /\ v9.before \in Nat /\ v9.proof \in Nat /\ v9.pages \in Seq(Nat)
        /\ v9.proof = v8.main /\ v9.proof <= v9.before /\ v9.before <= v1.stamp
    BY <1>9, <2>1
  <2>3. Copy!Begun'
    BY <1>8, <2>1
  <2>4. CASE ~ Copy!UnchangedSince(v9.before, v9.proof)
    <3>1. v9' = [at |-> "failed"]
      BY <1>15, <2>4 DEF Copy!CheckMain, Copy!Fails
    <3>2. v1.stamp # v8.main
      BY <1>4, <2>2, <2>4 DEF Copy!UnchangedSince
    <3> QED
      BY <1>13, <2>1, <3>1, <3>2
  <2>5. CASE Copy!UnchangedSince(v9.before, v9.proof) /\ v9.at = "check_again"
    <3>1. v9' = [v9 EXCEPT !.at = "decrypt"] /\ v9.before = v9.proof /\ v1.stamp = v9.proof
      BY <1>15, <2>5 DEF Copy!CheckMain, Copy!UnchangedSince
    <3>2. v9 \in Copy!OfLog
      BY <1>7, <2>5 DEF Copy!AfterProve, Copy!OfMain, Copy!OfLog
    <3>3. /\ v9' \in Copy!OfLog /\ v9'.at = "decrypt" /\ v9'.proof = v9.proof
          /\ v9'.before = v9.before /\ v9'.pages = v9.pages
          /\ v9'.frames = v9.frames /\ v9'.salt = v9.salt
      BY <3>1, <3>2 DEF Copy!OfLog
    <3>4. Copy!Copied
      BY <1>1, <2>5, <3>1 DEF Copy!Tracks
    <3>5. Copy!Copied'
      BY <1>1, <1>3, <1>5, <2>1, <3>3, <3>4, CopiedStays
    <3>6. Copy!Tracks'
      BY <1>2, <2>1, <2>2, <3>1, <3>3, <3>5 DEF Copy!Tracks, Copy!OfLog
    <3> QED
      BY <1>3, <2>3, <3>3, <3>6 DEF Copy!CopyInv, Copy!PublishedIsCommit,
         Copy!RefusedOnlyIfWritten
  <2>6. CASE Copy!UnchangedSince(v9.before, v9.proof) /\ v9.at = "check_main"
    <3>1. /\ v9' = [at |-> "stat_wal", attempt |-> 1, proof |-> v9.proof,
                      before |-> v9.before, pages |-> v9.pages]
          /\ v9.before = v9.proof /\ v1.stamp = v9.proof
      BY <1>15, <2>6 DEF Copy!CheckMain, Copy!UnchangedSince
    <3>2. /\ v9' \in Copy!OfMain /\ v9'.at = "stat_wal" /\ v9'.proof = v9.proof
          /\ v9'.before = v9.before /\ v9'.pages = v9.pages
      BY <2>2, <3>1 DEF Copy!OfMain
    <3>3. v9.pages = v1.pages
      BY <1>1, <2>6, <3>1 DEF Copy!Tracks
    <3>4. Copy!Tracks'
      BY <1>2, <2>1, <2>2, <3>1, <3>2, <3>3 DEF Copy!Tracks, Copy!OfMain
    <3> QED
      BY <1>3, <2>3, <3>2, <3>4 DEF Copy!CopyInv, Copy!PublishedIsCommit,
         Copy!RefusedOnlyIfWritten
  <2> QED
    BY <2>1, <2>4, <2>5, <2>6
<1>16. ASSUME Copy!StatWal PROVE Copy!CopyInv'
  <2>1. v9.at = "stat_wal" /\ v8' = v8
    BY <1>16 DEF Copy!StatWal
  <2>2. PICK k \in 0 .. Len(v2.frames) :
          v9' = [at |-> "copy_wal", attempt |-> v9.attempt, proof |-> v9.proof,
                   before |-> v9.before, pages |-> v9.pages, walBefore |-> v2.stamp,
                   salt |-> v2.salt, frames |-> SubSeq(v2.frames, 1, k)]
    BY <1>16 DEF Copy!StatWal
  <2>3. /\ v9.attempt \in Nat /\ v9.before \in Nat /\ v9.proof \in Nat /\ v9.pages \in Seq(Nat)
        /\ v9.proof = v8.main /\ v9.proof <= v9.before /\ v9.before <= v1.stamp
    BY <1>9, <2>1
  <2>4. Copy!Begun'
    BY <1>8, <2>1
  <2> DEFINE f == SubSeq(v2.frames, 1, k)
  <2>5. f \in Seq(Copy!Frames) /\ Len(f) = k /\ k \in Nat /\ k <= Len(v2.frames)
    BY <1>4, Prefix
  <2>6. v9' = [at |-> "copy_wal", attempt |-> v9.attempt, proof |-> v9.proof,
                 before |-> v9.before, pages |-> v9.pages, walBefore |-> v2.stamp,
                 salt |-> v2.salt, frames |-> f]
    BY <2>2
  <2>7. f = SubSeq(v2.frames, 1, Len(f))
    BY <2>5
  <2> HIDE DEF f
  <2>8. /\ v9'.at = "copy_wal" /\ v9'.proof = v9.proof /\ v9'.before = v9.before
        /\ v9'.pages = v9.pages /\ v9'.walBefore = v2.stamp /\ v9'.salt = v2.salt
           /\ v9'.frames = f
    BY <2>6
  <2>9. v9' \in Copy!OfLog
    BY <1>4, <2>3, <2>5, <2>6 DEF Copy!OfLog
  <2>10. v9.before = v9.proof /\ (v1.stamp = v9.before => v9.pages = v1.pages)
    BY <1>1, <2>1 DEF Copy!Tracks
  <2>11. v2.stamp <= v2.stamp /\ v8.wal <= v2.stamp
    BY <1>4, <1>6
  <2>12. Len(v9'.frames) <= Len(v2.frames) /\ v9'.frames = SubSeq(v2.frames, 1, Len(v9'.frames))
    BY <2>5, <2>7, <2>8
  <2>13. Copy!Tracks'
    BY <1>2, <2>1, <2>3, <2>8, <2>9, <2>10, <2>11, <2>12 DEF Copy!Tracks, Copy!OfLog
  <2> QED
    BY <1>3, <2>4, <2>8, <2>13 DEF Copy!CopyInv, Copy!PublishedIsCommit,
       Copy!RefusedOnlyIfWritten
<1>17. ASSUME Copy!EndWal PROVE Copy!CopyInv'
  <2>1. v9.at = "copy_wal" /\ v8' = v8
    BY <1>17 DEF Copy!EndWal
  <2>2. /\ v9.attempt \in Nat /\ v9.before \in Nat /\ v9.proof \in Nat /\ v9.pages \in Seq(Nat)
        /\ v9.proof = v8.main /\ v9.proof <= v9.before /\ v9.before <= v1.stamp
    BY <1>9, <2>1
  <2>3. v9 \in Copy!OfLog
    BY <1>7, <2>1 DEF Copy!AfterProve, Copy!OfMain, Copy!OfLog
  <2>4. v9.walBefore \in Nat /\ v9.frames \in Seq(Copy!Frames) /\ Len(v9.frames) \in Nat
    BY <2>3, CopyFields
  <2>5. Copy!Begun'
    BY <1>8, <2>1
  <2>6. /\ v9.before = v9.proof /\ (v1.stamp = v9.before => v9.pages = v1.pages)
        /\ v8.wal <= v9.walBefore /\ v9.walBefore <= v2.stamp
        /\ v2.stamp = v9.walBefore =>
             /\ v9.salt = v2.salt /\ Len(v9.frames) <= Len(v2.frames)
             /\ v9.frames = SubSeq(v2.frames, 1, Len(v9.frames))
    BY <1>1, <2>1 DEF Copy!Tracks
  <2>7. CASE v2.stamp = v9.walBefore
    <3> DEFINE F == v2.frames
               k == Len(v9.frames)
               f == v9.frames \o SubSeq(F, k + 1, Len(F))
    <3>1. v9' = [v9 EXCEPT !.at = "check_again", !.frames = f]
      BY <1>17, <2>7 DEF Copy!EndWal
    <3>2. k \in Nat /\ k <= Len(F) /\ v9.frames = SubSeq(F, 1, k) /\ F \in Seq(Copy!Frames)
      BY <1>4, <2>4, <2>6, <2>7
    <3>3. f = F
      BY <3>2, Rejoined
    <3> HIDE DEF f, F, k
    <3>4. /\ v9' \in Copy!OfLog /\ v9'.at = "check_again" /\ v9'.proof = v9.proof
          /\ v9'.before = v9.before /\ v9'.pages = v9.pages
          /\ v9'.frames = f /\ v9'.salt = v9.salt
      BY <2>3, <3>1, <3>2, <3>3 DEF Copy!OfLog
    <3>5. ASSUME v1.stamp = v9.proof PROVE Copy!Copied'
      <4>1. AtRest'
        BY <1>2, <2>6, <2>7, <3>3, <3>4, <3>5 DEF AtRest, F
      <4>2. Copy!SourceInv' /\ Copy!Begun' /\ AtRest' => Copy!Copied'
        BY RestIsCopied, PTL
      <4> QED
        BY <1>3, <2>5, <4>1, <4>2
    <3>6. Copy!Tracks'
      BY <1>2, <2>1, <2>2, <2>6, <3>4, <3>5 DEF Copy!Tracks, Copy!OfLog
    <3> QED
      BY <1>3, <2>5, <3>4, <3>6 DEF Copy!CopyInv, Copy!PublishedIsCommit,
         Copy!RefusedOnlyIfWritten
  <2>8. CASE v2.stamp # v9.walBefore
    <3>1. CASE v9.attempt < MaxAttempts
      <4>1. v9' = [at |-> "stat_wal", attempt |-> v9.attempt + 1, proof |-> v9.proof,
                     before |-> v9.before, pages |-> v9.pages]
        BY <1>17, <2>8, <3>1 DEF Copy!EndWal
      <4>2. /\ v9' \in Copy!OfMain /\ v9'.at = "stat_wal" /\ v9'.proof = v9.proof
            /\ v9'.before = v9.before /\ v9'.pages = v9.pages
        BY <2>2, <4>1 DEF Copy!OfMain
      <4>3. Copy!Tracks'
        BY <1>2, <2>1, <2>2, <2>6, <4>2 DEF Copy!Tracks, Copy!OfMain
      <4> QED
        BY <1>3, <2>5, <4>2, <4>3 DEF Copy!CopyInv, Copy!PublishedIsCommit,
           Copy!RefusedOnlyIfWritten
    <3>2. CASE ~ (v9.attempt < MaxAttempts)
      <4>1. v9' = [at |-> "failed"]
        BY <1>17, <2>8, <3>2 DEF Copy!EndWal, Copy!Fails
      <4>2. v2.stamp # v8.wal
        BY <1>4, <1>6, <2>4, <2>6, <2>8
      <4> QED
        BY <1>13, <2>1, <4>1, <4>2
    <3> QED
      BY <3>1, <3>2
  <2> QED
    BY <2>7, <2>8
<1>18. ASSUME Copy!Decrypt PROVE Copy!CopyInv'
  <2> DEFINE C == Copy!Supported(Copy!ValidFrames)
             image == Copy!Over(v9.pages, Copy!Applied(C))
  <2>1. v9.at = "decrypt" /\ v8' = v8
    BY <1>18 DEF Copy!Decrypt
  <2>2. Copy!Copied
    BY <1>1, <2>1 DEF Copy!Tracks
  <2>3. Copy!Begun'
    BY <1>8, <2>1
  <2>4. CASE C # Copy!ValidFrames /\ Copy!Committed(C) = <<>>
    <3>1. v9' = [at |-> "failed"]
      BY <1>18, <2>4 DEF Copy!Decrypt, Copy!Fails
    <3>2. Copy!Shrunk
      BY <2>2, <2>4 DEF Copy!Copied
    <3> QED
      BY <1>13, <2>1, <3>1, <3>2
  <2>5. CASE ~ (C # Copy!ValidFrames /\ Copy!Committed(C) = <<>>)
    <3>1. v9' = [at |-> "published", pages |-> image]
      BY <1>18, <2>5 DEF Copy!Decrypt
    <3>2. \E n \in v8.commits .. Len(v7) : image = v7[n]
      BY <2>2, <2>5 DEF Copy!Copied
    <3> HIDE DEF image
    <3>3. v9'.at = "published" /\ v9'.pages = image
      BY <3>1
    <3>4. Copy!Tracks'
      BY <3>3 DEF Copy!Tracks, Copy!AfterProve, Copy!OfMain, Copy!OfLog
    <3>5. Copy!PublishedIsCommit' /\ Copy!RefusedOnlyIfWritten'
      BY <1>2, <2>1, <3>2, <3>3 DEF Copy!PublishedIsCommit, Copy!RefusedOnlyIfWritten
    <3> QED
      BY <1>3, <2>3, <3>4, <3>5 DEF Copy!CopyInv
  <2> QED
    BY <2>4, <2>5
<1> QED
  BY <1>10, <1>11, <1>12, <1>14, <1>15, <1>16, <1>17, <1>18

\* The invariant holds at first.
LEMMA CopyBegins == Copy!Init => Copy!CopyInv
<1> SUFFICES ASSUME Copy!Init PROVE Copy!CopyInv
  OBVIOUS
<1>1. Copy!SourceInv
  BY SourceBegins
<1>2. v9.at = "prove" /\ v8 = [commits |-> 1, main |-> 0, wal |-> 0] /\ v2.stamp = 0
      /\ v1.stamp = 0 /\ Len(v7) = 1
  BY DEF Copy!Init
<1>3. Copy!Begun
  BY <1>2 DEF Copy!Begun
<1>4. Copy!Tracks /\ Copy!PublishedIsCommit /\ Copy!RefusedOnlyIfWritten
  BY <1>2 DEF Copy!Tracks, Copy!PublishedIsCommit, Copy!RefusedOnlyIfWritten,
     Copy!AfterProve, Copy!OfMain, Copy!OfLog
<1> QED
  BY <1>1, <1>3, <1>4 DEF Copy!CopyInv

\* Every step of either keeps it.
LEMMA CopyGoesOn == Copy!CopyInv /\ [Copy!Next]_(Copy!vars) => Copy!CopyInv'
<1> SUFFICES ASSUME Copy!CopyInv, [Copy!Next]_(Copy!vars) PROVE Copy!CopyInv'
  OBVIOUS
<1>1. CASE \/ \E p \in 1 .. MaxPages, size \in 0 .. MaxPages : Copy!WriteFrame(p, size)
           \/ Copy!Rollback \/ Copy!StartCheckpoint \/ Copy!CheckpointPage \/ Copy!RestartLog
  <2>1. Copy!SourceInv' /\ Onward /\ v8' = v8 /\ v9' = v9
    BY <1>1, SourceGoesOn DEF Copy!CopyInv
  <2>2. Copy!FilesOK /\ Copy!FilesOK' /\ Copy!Begun /\ Copy!Tracks /\ Copy!PublishedIsCommit
        /\ Copy!RefusedOnlyIfWritten
    BY <2>1 DEF Copy!CopyInv, Copy!SourceInv
  <2> QED
    BY <2>1, <2>2, TracksOn DEF Copy!CopyInv
<1>2. CASE \/ Copy!Prove \/ Copy!StatMain \/ Copy!CopyMainPage
           \/ Copy!EndMain \/ Copy!CheckMain \/ Copy!StatWal \/ Copy!EndWal \/ Copy!Decrypt
  BY <1>2, CopySteps
<1>3. CASE UNCHANGED Copy!vars
  <2>1. UNCHANGED Copy!source /\ v8' = v8 /\ v9' = v9 /\ v1' = v1 /\ v2' = v2 /\ v7' = v7
    BY <1>3 DEF Copy!vars, Copy!source
  <2>2. Copy!SourceInv' /\ Copy!SourceInv /\ Copy!FilesOK
    BY <2>1, SourceStays DEF Copy!CopyInv, Copy!SourceInv
  <2>3. Onward
    <3>1. v1.stamp \in Nat /\ v2.stamp \in Nat /\ Len(v7) \in Nat
      BY <2>2 DEF Copy!FilesOK
    <3> QED
      BY <2>1, <3>1 DEF Onward
  <2> QED
    BY <2>1, <2>2, <2>3, TracksOn DEF Copy!CopyInv, Copy!SourceInv
<1> QED
  BY <1>1, <1>2, <1>3 DEF Copy!Next

\* A database that is published is what one commit made of it, no older than the
\* copy, and only one that was written to meanwhile or has shrunk is refused
\* (buildStage, scanWALFile), for any number of pages, writes, checkpoints and attempts.
THEOREM CopiesAreCommits == Spec => []CopyIsCommit
<1> DEFINE inv == which = "copy" => Copy!CopyInv
<1>1. Init => inv
  BY CopyBegins DEF Init
<1>2. inv /\ [Next]_vars => inv'
  <2> SUFFICES ASSUME inv, [Next]_vars, which' = "copy" PROVE Copy!CopyInv'
    OBVIOUS
  <2>1. which = "copy" /\ [Copy!Next]_(Copy!vars)
    BY DEF Next, vars, Copy!vars
  <2> QED
    BY <2>1, CopyGoesOn
<1>3. inv => CopyIsCommit
  BY DEF Copy!CopyInv, CopyIsCommit
<1> QED
  BY <1>1, <1>2, <1>3, PTL DEF Spec
=============================================================================
