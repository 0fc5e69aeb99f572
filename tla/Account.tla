------------------------------ MODULE Account ------------------------------
(* What a setup or refresh makes an account's snapshot from: the credentials  *)
(* in the keychain, what they open, and the copies of WeChat's files.  The    *)
(* modules share no state; a behaviour is of one of them.                     *)
EXTENDS Naturals

CONSTANTS
  Readers, MaxChunks, MaxVersion, MaxFailures, MaxCrashes,  \* of SavedSecrets
  Databases, Epochs,                                        \* of Credentials
  MaxPages, MaxWrites, MaxRounds, MaxAttempts               \* of SourceCopy

ASSUME ChunksAssumption == MaxChunks \in Nat \ {0}
ASSUME BoundsAssumption ==
  /\ MaxVersion \in Nat \ {0}
  /\ {MaxFailures, MaxCrashes} \subseteq Nat
ASSUME PagesAssumption == MaxPages \in Nat

VARIABLES
  which,   \* the module this behaviour is of
  v1, v2, v3, v4, v5, v6, v7, v8, v9  \* its variables, in the order of its vars

vars == <<which, v1, v2, v3, v4, v5, v6, v7, v8, v9>>

-----------------------------------------------------------------------------
Secrets == INSTANCE SavedSecrets WITH
  manifest <- v1, chunks <- v2, writer <- v3, version <- v4, result <- v5,
  reader <- v6, failures <- v7, crashes <- v8

Keys == INSTANCE Credentials WITH
  world <- v1, storage <- v2, published <- v3, saved <- v4, changed <- v5, misled <- v6

Copy == INSTANCE SourceCopy WITH
  main <- v1, wal <- v2, live <- v3, writes <- v4, ckpt <- v5, backfill <- v6,
  history <- v7, begun <- v8, copy <- v9

\* What the variables hold that a module has no use for.
None == "none"

Init ==
  \/ which = "secrets" /\ Secrets!Init /\ v9 = None
  \/ which = "keys" /\ Keys!Init /\ v7 = None /\ v8 = None /\ v9 = None
  \/ which = "copy" /\ Copy!Init

Next ==
  /\ UNCHANGED which
  /\ \/ which = "secrets" /\ Secrets!Next /\ UNCHANGED v9
     \/ which = "keys" /\ Keys!Next /\ UNCHANGED <<v7, v8, v9>>
     \/ which = "copy" /\ Copy!Next

Spec == Init /\ [][Next]_vars

-----------------------------------------------------------------------------
\* The keychain items implement one record for a load under the lock: a save that
\* fails or ends anywhere leaves the old bundle or the new one, whole, and only a
\* deletion takes it away (SaveSecrets, DeleteSecrets).
Record == INSTANCE AtomicRecord WITH
  value <- IF which = "secrets" THEN Secrets!Stored ELSE 0,
  deleting <- which = "secrets" /\ Secrets!Erasing

ImplementsRecord == Record!Spec

\* A save or a deletion that reports success leaves no chunk of another bundle in
\* the keychain, whatever earlier failures and crashes left (cleanupSavedSecretChunks).
NoResidue == which = "secrets" => Secrets!TypeOK /\ Secrets!NoForeignChunk

\* What was published and WeChat left as it was can be published again from the
\* keychain alone, but for the databases a partial setup opened with the root in
\* spite of an override (BindVerifiedCredential, BindPartialVerifiedCredential, runRefresh).
RefreshCovers == which = "keys" => Keys!KeptLoads

\* A database that is published is what one commit made of it, no older than the
\* copy, and only one that was written to meanwhile or has shrunk is refused
\* (buildStage, scanWALFile).
CopyIsCommit == which = "copy" => Copy!PublishedIsCommit /\ Copy!RefusedOnlyIfWritten
=============================================================================
