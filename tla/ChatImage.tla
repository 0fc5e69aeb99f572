----------------------------- MODULE ChatImage -----------------------------
(***************************************************************************)
(* export-chat-image: the picture of one message, found through the stem   *)
(* the snapshot's message resources record for it and the hard link table  *)
(* that names its files (store/chat_image.go ResolveChatImage, app/app.go  *)
(* runExportChatImage).  WeChat keeps a picture in several qualities, of   *)
(* which any may be on disk, and goes on writing while they are read: each *)
(* candidate is read once, and may hold anything by then.                  *)
(*                                                                         *)
(* Contents: "a" and "b" are different pictures, "dat" is "a" encrypted,   *)
(* "wxgf" a container this build cannot decode, "broken" anything else,    *)
(* "none" a missing file.                                                  *)
(***************************************************************************)
EXTENDS Naturals, FiniteSets

CONSTANTS
    Files,          \* the candidate files of the picture
    Stems           \* identifiers a resource record can carry

VARIABLES
    tier,           \* Files -> quality by the name of the file
    keys,           \* are the image keys saved?
    stems,          \* stems the resource records of the message carry
    linked,         \* candidates the hard link table gave
    looked,         \* files the command has read
    found,          \* Files -> what it found there
    told            \* the answer

vars == <<tier, keys, stems, linked, looked, found, told>>

Contents == {"a", "b", "dat", "wxgf", "broken", "none"}
Tiers == {"high", "medium", "thumbnail", "unknown"}
Waiting == [kind |-> "waiting", file |-> "none", digest |-> "none", higher |-> "none"]

\* chatImageQualityRank
Rank(t) == CASE t = "high" -> 4 [] t = "medium" -> 3 [] t = "thumbnail" -> 2 [] OTHER -> 1

Init ==
    /\ tier \in [Files -> Tiers]
    /\ keys \in BOOLEAN
    /\ stems = {} /\ linked = {} /\ looked = {}
    /\ found = [f \in Files |-> "none"]
    /\ told = Waiting

Answer(kind) == told' = [Waiting EXCEPT !.kind = kind]

\* imageResourceStemFromFiles: all records of the message must agree.
OneStem == Cardinality(stems') = 1

\* The records of the message, then the rows of the hard link table for the
\* stem; a table that cannot be read or is too long fails as well.
Locate ==
    /\ told = Waiting /\ linked = {}
    /\ stems' \in SUBSET Stems
    /\ IF ~OneStem THEN Answer("resource_descriptor_unavailable") /\ UNCHANGED linked
       ELSE \/ Answer("local_mapping_unavailable") /\ UNCHANGED linked
            \/ linked' \in SUBSET Files \ {{}} /\ UNCHANGED told
    /\ UNCHANGED <<tier, keys, looked, found>>

\* What one candidate gives: its picture, or why there is none.
Read(contents) ==
    CASE contents \in {"a", "b", "wxgf"} -> contents
      [] contents = "none" -> "none"
      [] contents = "dat" /\ keys -> "a"
      [] OTHER -> "broken"

Look(f) ==
    /\ told = Waiting /\ f \in linked \ looked
    /\ looked' = looked \cup {f}
    /\ \E contents \in Contents : found' = [found EXCEPT ![f] = Read(contents)]
    /\ UNCHANGED <<tier, keys, stems, linked, told>>

Verified == {f \in linked : found[f] \in {"a", "b"}}

\* Fault: the picture that verified is taken as the best one.
AnyTier == Verified

\* The verified candidates of the best quality.
BestTier == {f \in Verified : \A g \in Verified : Rank(tier[g]) <= Rank(tier[f])}

Above(f) == {g \in linked : Rank(tier[g]) > Rank(tier[f])}

\* Fault: a better file that did not verify counts as not there.
HigherUnread(f) ==
    CASE tier[f] = "unknown" -> "unknown"
      [] tier[f] = "high" -> "not_applicable"
      [] \E g \in Above(f) : found[g] = "wxgf" -> "decoder_unavailable"
      [] \E g \in linked : tier[g] = "unknown" -> "unknown"
      [] OTHER -> "missing"

\* higherQualityStatus: why nothing better was exported.
Higher(f) ==
    CASE tier[f] = "unknown" -> "unknown"
      [] tier[f] = "high" -> "not_applicable"
      [] \E g \in Above(f) : found[g] = "wxgf" -> "decoder_unavailable"
      [] \E g \in Above(f) : found[g] = "broken" -> "validation_failed"
      [] \E g \in linked : tier[g] = "unknown" -> "unknown"
      [] OTHER -> "missing"

\* Qualities may differ from one another, pictures of one quality may not.
OnePicture == \A f, g \in BestTier : found[f] = found[g]

Decide ==
    /\ told = Waiting /\ linked # {} /\ looked = linked
    /\ IF Verified = {}
         THEN Answer(CASE \A f \in linked : found[f] = "none" -> "local_file_missing"
                       [] \E f \in linked : found[f] = "wxgf" -> "decoder_unavailable"
                       [] OTHER -> "local_validation_failed")
       ELSE IF ~OnePicture THEN Answer("content_conflict")
       ELSE \E f \in BestTier :
              told' = [kind |-> "exported", file |-> f, digest |-> found[f], higher |-> Higher(f)]
    /\ UNCHANGED <<tier, keys, stems, linked, looked, found>>

Next == Locate \/ Decide \/ \E f \in Files : Look(f)

Spec == Init /\ [][Next]_vars

----------------------------------------------------------------------------
Exported == told.kind = "exported"

\* The picture exported is of the best quality that could be verified, and no
\* other candidate of that quality holds a different one.
BestPicture ==
    Exported => \A f \in Verified :
        /\ Rank(tier[f]) <= Rank(tier[told.file])
        /\ tier[f] = tier[told.file] => found[f] = told.digest

\* "missing" sends the user to WeChat to open the original: nothing better
\* may have been on disk when it was looked for, decodable or not.
MissingIsAbsent ==
    /\ Exported /\ told.higher = "missing" => \A f \in Above(told.file) : found[f] = "none"
    /\ told.kind = "local_file_missing" => \A f \in linked : found[f] = "none"
=============================================================================
