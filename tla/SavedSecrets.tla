---------------------------- MODULE SavedSecrets ----------------------------
(***************************************************************************)
(* The credentials an account keeps in the system keychain.  One keychain  *)
(* item is too small for them, so a bundle is split into chunks that are   *)
(* written to the slot (a or b) the manifest does not name; setting the    *)
(* manifest switches the slots, and the old slot is deleted.  An item      *)
(* written before there were slots is still read.  Every keychain call is  *)
(* one step and may fail; an item is set or deleted as a whole or not at   *)
(* all.  Writers hold the account lock; the media, OCR and export commands *)
(* load the credentials without it.                                        *)
(*                                                                         *)
(* A bundle is the number of the save that wrote it, and so is each of its *)
(* chunks, 0 for an item that does not exist.                              *)
(***************************************************************************)
EXTENDS Naturals

CONSTANTS
  Readers,      \* processes that load the credentials without the lock
  MaxChunks,    \* chunks of the largest bundle
  MaxVersion,   \* bound on the number of saves
  MaxFailures,  \* bound on failing keychain calls
  MaxCrashes    \* bound on writers that end within a save or a deletion

VARIABLES
  manifest,   \* the item under the account's own name
  chunks,     \* the items of the two slots
  writer,     \* the save or deletion under way
  version,    \* the last save that started
  result,     \* how the last save or deletion ended
  reader,     \* the lock-free loads
  failures, crashes

vars == <<manifest, chunks, writer, version, result, reader, failures, crashes>>

Slots == {"a", "b"}
Indexes == 0..(MaxChunks - 1)
Places == Slots \X Indexes
In(slot) == {slot} \X Indexes
First(slot, n) == {slot} \X (0..(n - 1))

NoManifest == [kind |-> "none", slot |-> "none", count |-> 0, bundle |-> 0]
Single(v) == [kind |-> "single", slot |-> "none", count |-> 0, bundle |-> v]
Switched(slot, n, v) == [kind |-> "slots", slot |-> slot, count |-> n, bundle |-> v]

Named(m) == IF m.kind = "slots" THEN First(m.slot, m.count) ELSE {}

\* What a load under the lock returns: 0 when there is no manifest, or when a
\* chunk is missing or does not have the manifest's digest.
Stored == IF \A place \in Named(manifest) : chunks[place] = manifest.bundle
            THEN manifest.bundle ELSE 0

NoWriter == [at |-> "idle", slot |-> "none", old |-> "none", count |-> 0, todo |-> {}, failed |-> FALSE]
Resting == [at |-> "idle", manifest |-> NoManifest, next |-> 0, got |-> 0]

Init ==
  /\ manifest \in {NoManifest, Single(1)}
  /\ chunks = [place \in Places |-> 0]
  /\ writer = NoWriter
  /\ version = manifest.bundle
  /\ result = "none"
  /\ reader = [r \in Readers |-> Resting]
  /\ failures = 0 /\ crashes = 0

Fails == failures < MaxFailures /\ failures' = failures + 1
Finish(how) == writer' = NoWriter /\ result' = how
-----------------------------------------------------------------------------
(* SaveSecrets. *)

\* Fault: the slot written is always the first one.
StartSaveInA ==
  /\ writer.at = "idle" /\ version < MaxVersion
  /\ version' = version + 1
  /\ \E n \in 1..MaxChunks :
       writer' = [NoWriter EXCEPT !.at = "clean", !.slot = "a", !.count = n, !.todo = In("a")]
  /\ UNCHANGED <<manifest, chunks, result, failures, crashes, reader>>

\* Fault: only the slot that will be written is cleaned.
StartSaveOneSlot ==
  LET new == IF manifest.slot = "a" THEN "b" ELSE "a" IN
  /\ writer.at = "idle" /\ version < MaxVersion
  /\ version' = version + 1
  /\ \E n \in 1..MaxChunks :
       writer' = [NoWriter EXCEPT !.at = "clean", !.slot = new, !.old = manifest.slot,
                                  !.count = n, !.todo = In(new)]
  /\ UNCHANGED <<manifest, chunks, result, failures, crashes, reader>>

\* The slot to write is the one the manifest does not name.  Whatever an earlier
\* save left there goes first, and without a named slot the other one as well.
StartSave ==
  LET old == manifest.slot
      new == IF old = "a" THEN "b" ELSE "a" IN
  /\ writer.at = "idle" /\ version < MaxVersion
  /\ version' = version + 1
  /\ \E n \in 1..MaxChunks :
       writer' = [NoWriter EXCEPT !.at = "clean", !.slot = new, !.old = old, !.count = n,
                                  !.todo = IF old = "none" THEN Places ELSE In(new)]
  /\ UNCHANGED <<manifest, chunks, result, failures, crashes, reader>>

\* Deleting the items of todo one by one.  A failure is remembered and the
\* deletion goes on; the code goes by index, no property depends on the order.
DeleteChunk ==
  /\ writer.at \in {"clean", "undo", "tidy", "erase"}
  /\ \E place \in writer.todo :
       \/ /\ chunks' = [chunks EXCEPT ![place] = 0]
          /\ writer' = [writer EXCEPT !.todo = @ \ {place}]
          /\ UNCHANGED failures
       \/ /\ Fails
          /\ writer' = [writer EXCEPT !.todo = @ \ {place}, !.failed = TRUE]
          /\ UNCHANGED chunks
  /\ UNCHANGED <<manifest, version, result, crashes, reader>>

\* The save stops if the slot could not be cleaned.
StartWrite ==
  /\ writer.at = "clean" /\ writer.todo = {}
  /\ IF writer.failed
       THEN Finish("failed")
       ELSE /\ writer' = [writer EXCEPT !.at = "write", !.todo = First(writer.slot, writer.count)]
            /\ UNCHANGED result
  /\ UNCHANGED <<manifest, chunks, version, failures, crashes, reader>>

\* Chunks are written by index; a failure deletes those written so far.
WriteChunk ==
  /\ writer.at = "write"
  /\ \E place \in writer.todo :
       /\ \A other \in writer.todo : place[2] <= other[2]
       /\ \/ /\ chunks' = [chunks EXCEPT ![place] = version]
             /\ writer' = [writer EXCEPT !.todo = @ \ {place}]
             /\ UNCHANGED failures
          \/ /\ Fails
             /\ writer' = [writer EXCEPT !.at = "undo", !.todo = First(writer.slot, place[2])]
             /\ UNCHANGED chunks
  /\ UNCHANGED <<manifest, version, result, crashes, reader>>

\* The commit.  The chunks of the old slot go afterwards.
SetManifest ==
  /\ writer.at = "write" /\ writer.todo = {}
  /\ \/ /\ manifest' = Switched(writer.slot, writer.count, version)
        /\ writer' = [writer EXCEPT !.at = "tidy",
                                    !.todo = IF writer.old = "none" THEN {} ELSE In(writer.old)]
        /\ UNCHANGED failures
     \/ /\ Fails
        /\ writer' = [writer EXCEPT !.at = "undo", !.todo = First(writer.slot, writer.count)]
        /\ UNCHANGED manifest
  /\ UNCHANGED <<chunks, version, result, crashes, reader>>

\* A save whose last deletions failed is committed all the same.
EndSave ==
  /\ writer.at \in {"undo", "tidy"} /\ writer.todo = {}
  /\ Finish(IF writer.at = "undo" THEN "failed" ELSE IF writer.failed THEN "residue" ELSE "ok")
  /\ UNCHANGED <<manifest, chunks, version, failures, crashes, reader>>
-----------------------------------------------------------------------------
(* DeleteSecrets, crashes and lock-free loads. *)

\* The manifest first; the chunks of both slots even if that failed.
DeleteManifest ==
  /\ writer.at = "idle"
  /\ manifest # NoManifest \/ \E place \in Places : chunks[place] # 0
  /\ \/ manifest' = NoManifest /\ UNCHANGED failures
        /\ writer' = [NoWriter EXCEPT !.at = "erase", !.todo = Places]
     \/ Fails /\ UNCHANGED manifest
        /\ writer' = [NoWriter EXCEPT !.at = "erase", !.todo = Places, !.failed = TRUE]
  /\ UNCHANGED <<chunks, version, result, crashes, reader>>

EndDelete ==
  /\ writer.at = "erase" /\ writer.todo = {}
  /\ Finish(IF writer.failed THEN "failed" ELSE "ok")
  /\ UNCHANGED <<manifest, chunks, version, failures, crashes, reader>>

Crash ==
  /\ writer.at # "idle"
  /\ crashes < MaxCrashes /\ crashes' = crashes + 1
  /\ Finish("failed")
  /\ UNCHANGED <<manifest, chunks, version, failures, reader>>

Answer(r, bundle) == reader' = [reader EXCEPT ![r].at = "done", ![r].got = bundle]

ReadManifest(r) ==
  /\ reader[r].at = "idle"
  /\ reader' = [reader EXCEPT ![r] =
       [at |-> IF manifest.kind = "slots" THEN "chunks" ELSE "done", manifest |-> manifest,
        next |-> 0, got |-> IF manifest.kind = "single" THEN manifest.bundle ELSE 0]]
  /\ UNCHANGED <<manifest, chunks, writer, version, result, failures, crashes>>

\* Fault: a load reads one chunk more than the manifest counts.
ReadChunkPastEnd(r) ==
  LET m == reader[r].manifest IN
  /\ reader[r].at = "chunks"
  /\ IF chunks[<<m.slot, reader[r].next>>] # m.bundle \/ reader[r].next = m.count
       THEN Answer(r, 0)
       ELSE reader' = [reader EXCEPT ![r].next = @ + 1]
  /\ UNCHANGED <<manifest, chunks, writer, version, result, failures, crashes>>

\* A missing or foreign chunk makes the load fail with ErrSavedSecretsInvalid.
ReadChunk(r) ==
  LET m == reader[r].manifest
      found == chunks[<<m.slot, reader[r].next>>] IN
  /\ reader[r].at = "chunks"
  /\ \/ found # m.bundle /\ Answer(r, 0)
     \/ found = m.bundle /\ reader[r].next + 1 = m.count /\ Answer(r, m.bundle)
     \/ /\ found = m.bundle /\ reader[r].next + 1 < m.count
        /\ reader' = [reader EXCEPT ![r].next = @ + 1]
  /\ UNCHANGED <<manifest, chunks, writer, version, result, failures, crashes>>

Return(r) ==
  /\ reader[r].at = "done"
  /\ reader' = [reader EXCEPT ![r] = Resting]
  /\ UNCHANGED <<manifest, chunks, writer, version, result, failures, crashes>>

Next ==
  \/ StartSave \/ DeleteChunk \/ StartWrite \/ WriteChunk \/ SetManifest \/ EndSave
  \/ DeleteManifest \/ EndDelete \/ Crash
  \/ \E r \in Readers : ReadManifest(r) \/ ReadChunk(r) \/ Return(r)

Spec == Init /\ [][Next]_vars
-----------------------------------------------------------------------------
Versions == 0..MaxVersion
Manifests == [kind : {"none", "single", "slots"}, slot : Slots \cup {"none"},
              count : 0..MaxChunks, bundle : Versions]

TypeOK ==
  /\ manifest \in Manifests
  /\ chunks \in [Places -> Versions]
  /\ writer \in [at : {"idle", "clean", "write", "undo", "tidy", "erase"}, slot : Slots \cup {"none"},
                 old : Slots \cup {"none"}, count : 0..MaxChunks, todo : SUBSET Places,
                 failed : BOOLEAN]
  /\ version \in Versions
  /\ result \in {"none", "ok", "residue", "failed"}
  /\ reader \in [Readers -> [at : {"idle", "chunks", "done"}, manifest : Manifests,
                             next : Indexes, got : Versions]]
  /\ failures \in 0..MaxFailures /\ crashes \in 0..MaxCrashes

\* A deletion is under way; until it ends, an older bundle may be seen.
Erasing == writer.at = "erase"

\* A save or a deletion that reports success leaves no chunk of any other bundle
\* in the keychain, whatever earlier failures and crashes left there.
NoForeignChunk ==
  writer.at = "idle" /\ result = "ok" =>
    \A place \in Places : chunks[place] # 0 =>
      place \in Named(manifest) /\ chunks[place] = manifest.bundle
-----------------------------------------------------------------------------
(* Why they hold: the inductive invariant of AccountProofs. *)

Whole == \A place \in Named(manifest) : chunks[place] = manifest.bundle

\* What a save cleans before it writes.
Cleaned == IF writer.old = "none" THEN Places ELSE In(writer.slot)

ManifestInv ==
  /\ manifest.kind = "none" => manifest = NoManifest
  /\ manifest.kind = "single" => manifest.slot = "none" /\ manifest.bundle \in 1..version
  /\ manifest.kind = "slots" =>
       manifest.slot \in Slots /\ manifest.count \in 1..MaxChunks /\ manifest.bundle \in 1..version

\* A save works beside the chunks the manifest names, and knows what is in its slot.
SaveInv ==
  writer.at \in {"clean", "write", "undo"} =>
    LET own == First(writer.slot, writer.count) IN
    /\ writer.old = manifest.slot /\ writer.slot \in Slots \ {manifest.slot}
    /\ writer.count \in 1..MaxChunks /\ manifest.bundle < version
    /\ writer.at = "clean" =>
         /\ writer.todo \subseteq Cleaned
         /\ ~writer.failed => \A place \in Cleaned \ writer.todo : chunks[place] = 0
    /\ writer.at = "write" =>
         /\ ~writer.failed /\ writer.todo \subseteq own
         /\ \A place \in Cleaned \ own : chunks[place] = 0
         /\ \A place \in own \ writer.todo : chunks[place] = version
    /\ writer.at = "undo" => writer.todo \subseteq In(writer.slot)

\* After the commit only the old slot is touched.
TidyInv ==
  writer.at = "tidy" =>
    /\ writer.slot \in Slots /\ writer.count \in 1..MaxChunks
    /\ manifest = Switched(writer.slot, writer.count, version) /\ Whole
    /\ writer.todo \intersect In(writer.slot) = {}
    /\ ~writer.failed =>
         \A place \in Places \ (Named(manifest) \union writer.todo) : chunks[place] = 0

EraseInv ==
  writer.at = "erase" /\ ~writer.failed =>
    manifest = NoManifest /\ \A place \in Places \ writer.todo : chunks[place] = 0

Inv == TypeOK /\ ManifestInv /\ SaveInv /\ TidyInv /\ EraseInv /\ NoForeignChunk
=============================================================================
