------------------------------ MODULE Credentials ------------------------------
(***************************************************************************)
(* What setup keeps in the system keychain so that refresh can publish     *)
(* again without the provider: the keys of single databases, or a          *)
(* structured credential with a root passphrase that derives the key of    *)
(* every database of its epoch and with overrides for single databases.    *)
(* A key or root is the epoch it belongs to; what it opens is told from    *)
(* the first page, so it opens a database that is encrypted under that     *)
(* epoch.  How the answer of a provider is checked is in ProviderContract, *)
(* how files are copied in SourceCopy, how state and keychain are committed*)
(* together in Generations; the databases themselves are WeChat's.         *)
(***************************************************************************)
EXTENDS Naturals, FiniteSets, Functions

CONSTANTS
  Databases,       \* the database files there may be
  Epochs           \* the epochs of keys

VARIABLES
  world,     \* what each database is, and the epoch it is encrypted under
  storage,   \* the storage the account's state names
  published, \* the databases in the current snapshot
  saved,     \* the keychain entry: none or one
  changed,   \* the databases WeChat changed since the last setup
  misled     \* those whose override did not open them when a partial setup bound it

vars == <<world, storage, published, saved, changed, misled>>

Kinds == {"absent", "plaintext", "truncated"}
States == [kind : Kinds, epoch : {0}] \union [kind : {"encrypted"}, epoch : Epochs]

Init ==
  /\ world \in [Databases -> States]
  /\ storage = "none" /\ published = {} /\ saved = {} /\ changed = {} /\ misled = {}

OfKind(kind) == {d \in Databases : world[d].kind = kind}
Present == Databases \ OfKind("absent")

\* ResolveCredentialFile: the first page proves the key.
Opens(d, epoch) == world[d] = [kind |-> "encrypted", epoch |-> epoch]

----------------------------------------------------------------------------
(* Bundles: provider.CandidateBundle.  The image keys count when ValidateMedia *)
(* verified both on pictures of the account.                                 *)

Tables == UNION {[D -> Epochs] : D \in SUBSET Databases}
Empty == [d \in {} |-> 0]
DatabaseCredentials == [roots : {R \in SUBSET Epochs : Cardinality(R) <= 1}, overrides : Tables]

\* validateDatabaseCredential: the mode names what there is, so there is something.
ValidCredential(c) == c.roots # {} \/ DOMAIN c.overrides # {}

\* ValidateBundle of what is read back: it carries no diagnostics and no catalog.
Loads(b) ==
  /\ DOMAIN b.keys # {} \/ b.credential # {} \/ b.image
  /\ \A c \in b.credential : ValidCredential(c)

\* expandCredential: an override that does not open falls back on the roots.
ByOverride(b) ==
  {d \in Databases : \E c \in b.credential : d \in DOMAIN c.overrides /\ Opens(d, c.overrides[d])}
Matched(b) ==
  IF b.credential = {}
  THEN {d \in DOMAIN b.keys : Opens(d, b.keys[d])}
  ELSE ByOverride(b) \union {d \in Databases : \E c \in b.credential : \E e \in c.roots : Opens(d, e)}

\* A matched database has been opened with the key it is encrypted under.
Effective(D) == [d \in D |-> world[d].epoch]

----------------------------------------------------------------------------
(* What is saved of what was verified *)

\* BindVerifiedCredential: everything opened, so the roots are kept.
BindVerified(c, D) == [roots |-> c.roots, overrides |-> Restrict(c.overrides, D \intersect DOMAIN c.overrides)]

\* Fault: only the overrides there were are kept, the roots' databases are not added.
BindPartialExisting(c, D) ==
  IF D = {} THEN {}
  ELSE {[roots |-> {}, overrides |-> Restrict(c.overrides, D \intersect DOMAIN c.overrides)]}

\* BindPartialVerifiedCredential: no root; an override there was stays, also one that
\* did not open its database when the root did; the others are added.
BindPartial(c, D) ==
  IF D = {} THEN {}
  ELSE {[roots |-> {},
         overrides |-> [d \in D |-> IF d \in DOMAIN c.overrides THEN c.overrides[d] ELSE Effective(D)[d]]]}

\* persistedSecretFlags, SaveSecrets: the keys only where no credential is.
Minimal(b, D, all) ==
  LET credential == IF all THEN {BindVerified(c, D) : c \in b.credential}
                    ELSE UNION {BindPartial(c, D) : c \in b.credential}
  IN  [keys |-> IF credential = {} THEN Effective(D) ELSE Empty,
       credential |-> credential, image |-> b.image]

\* The databases a partial setup binds to an override that does not open them.
Misled(b, D, all) ==
  IF all THEN {} ELSE {d \in D : \E c \in b.credential : d \in DOMAIN c.overrides /\ ~Opens(d, c.overrides[d])}

----------------------------------------------------------------------------
(* Setup and refresh: publishAccountSnapshot *)

\* The databases a build publishes: what is readable, less what fails to be copied.
Builds(b, D) ==
  /\ D # {}
  /\ D \subseteq OfKind("plaintext") \union (Matched(b) \intersect Present)

\* An answer of the provider that has passed its checks; that an override opens its
\* database is not one of them.  A candidate file (loadCandidateFile) is an answer
\* that has no credential and is not complete.
Answer(b, complete) ==
  /\ \A c \in b.credential : ValidCredential(c)
  /\ complete => Present \ OfKind("plaintext") \subseteq Matched(b)

\* An entry that does not read is only replaced when everything is verified anew.
SecretsKnown(complete, all) == (\A s \in saved : Loads(s)) \/ (complete /\ all)

\* Fewer databases than before are published when that is allowed explicitly, and
\* no image keys are saved when media are not required.  "unwritten": the keychain
\* was asked for and could not be written.
Setup(b, complete, D, policy) ==
  LET all == D = Present
      known == SecretsKnown(complete, all)
      keep == policy = "keychain" /\ known
  IN  /\ published' = D
      /\ storage' = IF keep THEN "keychain" ELSE "snapshot-only"
      /\ saved' = IF keep THEN {Minimal(b, D \intersect Matched(b), all)}
                  ELSE IF policy = "snapshot-only" /\ known THEN {}
                  ELSE saved
      /\ changed' = {}
      /\ misled' = IF keep THEN Misled(b, D, all) ELSE {}
      /\ UNCHANGED world

\* runRefreshWithSecrets: the keychain is read and not written, nothing is dropped.
Refresh(D) ==
  /\ storage = "keychain"
  /\ \E s \in saved : Loads(s) /\ Builds(s, D)
  /\ published \subseteq D
  /\ published' = D
  /\ UNCHANGED <<world, storage, saved, changed, misled>>

\* WeChat makes, removes, re-encrypts or truncates a database.
Change(d) ==
  /\ \E s \in States : s # world[d] /\ world' = [world EXCEPT ![d] = s]
  /\ changed' = changed \union {d} /\ misled' = misled \ {d}
  /\ UNCHANGED <<storage, published, saved>>

Bundles ==
  [keys : Tables, credential : {{}}, image : BOOLEAN] \union
  [keys : {Empty}, credential : {{c} : c \in DatabaseCredentials}, image : BOOLEAN]

Next ==
  \/ \E b \in Bundles, complete \in BOOLEAN :
       /\ Answer(b, complete)
       /\ \E D \in SUBSET Databases :
            /\ Builds(b, D)
            /\ \E policy \in {"keychain", "unwritten", "snapshot-only"} : Setup(b, complete, D, policy)
  \/ \E D \in SUBSET Databases : Refresh(D)
  \/ \E d \in Databases : Change(d)

Spec == Init /\ [][Next]_vars

----------------------------------------------------------------------------
(* Properties. *)

\* The encrypted databases of the snapshot that are what they were at setup.
Kept == {d \in published \ changed : world[d].kind = "encrypted"}

\* What was published and WeChat left as it was can be published again from the
\* keychain alone, so that refresh is never held up by databases it would lose:
\* whether setup opened all databases or some, by a root, by overrides or by
\* single keys, and whatever was in the keychain before.  The exception are those
\* that a setup of only some databases opened with the root in spite of an override:
\* the override is kept, the root is not (BindPartialVerifiedCredential).
KeptLoads ==
  storage = "keychain" => \A d \in Kept \ misled : \E s \in saved : Loads(s) /\ d \in Matched(s)
=============================================================================
