----------------------------- MODULE LocalFiles -----------------------------
(* What publishes files where others may write as well: the installers of the *)
(* binary and the skill, the exports of images and media, and the consent to  *)
(* one request for a remote image.  A behaviour is of one module.             *)
EXTENDS Naturals, Sequences, FiniteSets

CONSTANTS
  Installers, Copiers, Dirs, InstallFaults,      \* of Install
  Exporters, OutputFaults, MaxUses,              \* of OutputFile
  CacheFiles, Variants, MaxWrites,               \* of MomentMedia
  ImageFiles, Stems,                             \* of ChatImage
  Calls, Evidence, Outputs, Descriptors,         \* of RecoveryConsent
  TTL, MaxGenerations, MaxChallenges, MaxTime

\* What no process, file or directory is called.
ASSUME NamesAssumption ==
  /\ "binary" \notin Dirs /\ Installers \intersect Copiers = {}
  /\ {"none", "old", "user", "link", "part"} \intersect Exporters = {}
  /\ {"none", "download"} \intersect CacheFiles = {}

ASSUME BoundsAssumption ==
  /\ {InstallFaults, OutputFaults, MaxUses, MaxWrites} \subseteq Nat
  /\ MaxGenerations \in Nat \ {0} /\ {TTL, MaxChallenges, MaxTime} \subseteq Nat

\* A descriptor of a remote copy has an address or none.
ASSUME VariantsAssumption ==
  Variants \subseteq [url : {"cdn", "foreign", "none"}, token : BOOLEAN, key : BOOLEAN]

VARIABLES
  which,   \* the module this behaviour is of
  v1, v2, v3, v4, v5, v6, v7, v8, v9, v10, v11, v12, v13  \* its variables, in the order of its vars

vars == <<which, v1, v2, v3, v4, v5, v6, v7, v8, v9, v10, v11, v12, v13>>

-----------------------------------------------------------------------------
Setup == INSTANCE Install WITH
  MaxFaults <- InstallFaults,
  bundle <- v1, place <- v2, had <- v3, proc <- v4, faults <- v5, aside <- v6

Output == INSTANCE OutputFile WITH
  MaxFaults <- OutputFaults,
  pc <- v1, force <- v2, temp <- v3, backup <- v4, target <- v5, told <- v6,
  faults <- v7, uses <- v8

Moment == INSTANCE MomentMedia WITH
  Files <- CacheFiles,
  job <- v1, cache <- v2, pc <- v3, seen <- v4, chosen <- v5, variant <- v6,
  artifact <- v7, download <- v8, requests <- v9, near <- v10, target <- v11,
  told <- v12, writes <- v13

Picture == INSTANCE ChatImage WITH
  Files <- ImageFiles,
  tier <- v1, keys <- v2, stems <- v3, linked <- v4, looked <- v5, found <- v6,
  told <- v7

Consent == INSTANCE RecoveryConsent WITH
  remote <- v1, generation <- v2, clock <- v3, lock <- v4, call <- v5,
  challenges <- v6, attempts <- v7, files <- v8

-----------------------------------------------------------------------------
\* What the variables hold that a module has no use for.
None == "none"

Init ==
  \/ /\ which = "install" /\ Setup!Init
     /\ v7 = None /\ v8 = None /\ v9 = None /\ v10 = None /\ v11 = None /\ v12 = None /\ v13 = None
  \/ /\ which = "output" /\ Output!Init
     /\ v9 = None /\ v10 = None /\ v11 = None /\ v12 = None /\ v13 = None
  \/ which = "moment" /\ Moment!Init
  \/ /\ which = "picture" /\ Picture!Init
     /\ v8 = None /\ v9 = None /\ v10 = None /\ v11 = None /\ v12 = None /\ v13 = None
  \/ /\ which = "consent" /\ Consent!Init
     /\ v9 = None /\ v10 = None /\ v11 = None /\ v12 = None /\ v13 = None

Next ==
  /\ UNCHANGED which
  /\ \/ which = "install" /\ Setup!Next /\ UNCHANGED <<v7, v8, v9, v10, v11, v12, v13>>
     \/ which = "output" /\ Output!Next /\ UNCHANGED <<v9, v10, v11, v12, v13>>
     \/ which = "moment" /\ Moment!Next
     \/ which = "picture" /\ Picture!Next /\ UNCHANGED <<v8, v9, v10, v11, v12, v13>>
     \/ which = "consent" /\ Consent!Next /\ UNCHANGED <<v9, v10, v11, v12, v13>>

Spec == Init /\ [][Next]_vars

-----------------------------------------------------------------------------
\* Whoever installs beside others or is stopped by a failing rename, a binary that
\* runs is the one the package names, nothing half-written is ever in place, and
\* what was installed stays installed, or beside its place in a backup when its
\* process was killed or could not put it back either (install.js, run.js,
\* installBundledSkill).
InstallSafe == which = "install" => Setup!RanVerified /\ Setup!NothingHalf /\ Setup!Kept

\* An export without --force and a recovered image never replace a file that came to
\* their path since it was checked, and a forced export that fails or is killed
\* leaves what it moved away at the path or beside it, unless a second one that
\* fails puts another file over it (publishNewFile, publishFile,
\* publishChatImageRecoveryPayload).
OutputsKept ==
  [][/\ which = "output" => Output!KeepsOthers /\ Output!KeepsOld
     /\ which = "consent" => Consent!OverwritesNothing]_vars

\* The media of a moment that is written is what was verified and bound without a
\* guess (a video of the cache, up to its last check), its token is sent only when
\* nothing local will do and the user allows it, and no copy is left behind (runExportMomentMedia, ResolveMomentMedia).
MediaTrue ==
  which = "moment" =>
    /\ Moment!WrittenIsVerified /\ Moment!BindingUnique
    /\ Moment!TokenOnlyWithConsent /\ Moment!NothingLeft

\* An image of a chat is exported in the best quality that verified, and called
\* missing only when nothing better was on the disk (ResolveChatImage).
PictureTrue == which = "picture" => Picture!BestPicture /\ Picture!MissingIsAbsent

\* A consent is good for one request, for the candidate, the message, the file and
\* the snapshot the user saw (consumeChatImageRecoveryConsent, runRecoverChatImage).
ConsentBound == which = "consent" => Consent!OneAttempt /\ Consent!AttemptAgreed
=============================================================================
