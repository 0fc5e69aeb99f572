---------------------------- MODULE MomentMedia ----------------------------
(***************************************************************************)
(* export-moment-media: one picture or video of a Moments post, looked up  *)
(* by its evidence id in the snapshot, taken from WeChat's own cache when  *)
(* a file there can be proved to be it, and otherwise, if this call allows *)
(* the network, from the CDN (store/moments_export.go,                     *)
(* store/moments_media.go, app/app.go runExportMomentMedia).               *)
(*                                                                         *)
(* WeChat goes on writing its cache while the command runs.  The contents  *)
(* of a file are abstracted to what the checks tell apart: "a" and "b" are *)
(* two valid containers of one length, "dat" is "a" inside WeChat's image  *)
(* cipher, "broken" has that length too but is no container, "short" is of *)
(* another length, "none" is a missing file.                               *)
(***************************************************************************)
EXTENDS Naturals, FiniteSets

CONSTANTS
    Files,          \* files of the cache whose name or hard link points here
    Variants,       \* descriptors of a remote copy, [url, token, key]
    MaxWrites       \* bound: writes of WeChat to its cache during the command

VARIABLES
    job,            \* the call, and what the descriptor says of the contents
    cache,          \* Files -> contents now
    pc,             \* the step of the command
    seen,           \* Files -> what its verification found, or Unseen
    chosen,         \* the file the media was bound to, or "none"
    variant,        \* the remote copy the command settled for
    artifact,       \* what is to be written: where from, what is told, and how often
                    \* the cache had been written when it was read (for WrittenIsVerified)
    download,       \* contents of the private temporary file, or "none"
    requests,       \* requests sent to the CDN
    near,           \* contents of the temporary file beside the target
    target,         \* contents of the output path
    told,           \* the answer of the command
    writes

vars == <<job, cache, pc, seen, chosen, variant, artifact, download, requests,
          near, target, told, writes>>

Contents == {"a", "b", "dat", "broken", "short", "none"}
Payloads == {"plain", "cipher", "broken"}
Unseen == [digest |-> "none", source |-> "none", rank |-> 9]
Rejected == [digest |-> "none", source |-> "none", rank |-> 8]
NoVariant == [url |-> "none", token |-> FALSE, key |-> FALSE]
NoArtifact == [source |-> "none", file |-> "none", data |-> "none", digest |-> "none",
               writes |-> 0]

Jobs ==
    [kind : {"image", "video"}, allow : BOOLEAN, force : BOOLEAN, keys : BOOLEAN,
     md5s : SUBSET {"a"}]

Init ==
    /\ job \in Jobs
    /\ cache \in [Files -> Contents]
    /\ pc = "find"
    /\ seen = [f \in Files |-> Unseen]
    /\ chosen = "none" /\ variant = NoVariant
    /\ artifact = NoArtifact
    /\ download = "none" /\ requests = 0 /\ near = "none"
    /\ target \in {"none", "other"}
    /\ told = "none"
    /\ writes = 0

Fail(kind) == pc' = "end" /\ told' = kind

\* prepareOutputTarget and findMomentMedia: an existing target needs --force,
\* and every record with the evidence id must describe the same media.
Find ==
    /\ pc = "find"
    /\ \E records \in SUBSET {"d", "other", "conflict"} :
         IF target # "none" /\ ~job.force THEN Fail("output_exists")
         ELSE IF records = {} THEN Fail("not_found")
         ELSE IF "conflict" \in records \/ Cardinality(records) > 1 THEN Fail("ambiguous")
         ELSE pc' = "scan" /\ UNCHANGED told
    /\ UNCHANGED <<job, cache, seen, chosen, variant, artifact, download, requests, near, target, writes>>

\* What a file decodes to: DAT images only with the saved image keys.
Decoded(contents) ==
    CASE contents \in {"a", "b"} -> contents
      [] contents = "dat" /\ job.kind = "image" /\ job.keys -> "a"
      [] OTHER -> "none"

\* An image that matches only before decryption ranks below one that matches
\* after it; for a video there is one digest.
Rank(contents, proof) ==
    CASE Decoded(contents) \in job.md5s -> 0
      [] contents \in job.md5s -> 1
      [] proof = "hardlink" -> 2
      [] OTHER -> 3

\* How a file came to be a candidate: the snapshot's hard link table names
\* it, or its own name is a key derived from the address of the media.
Verify(f) ==
    /\ pc = "scan" /\ seen[f] = Unseen
    /\ \E proof \in {"hardlink", "url"} :
         seen' = [seen EXCEPT ![f] =
            IF Decoded(cache[f]) = "none" THEN Rejected
            ELSE [digest |-> Decoded(cache[f]), source |-> cache[f], rank |-> Rank(cache[f], proof)]]
    /\ UNCHANGED <<job, cache, pc, chosen, variant, artifact, download, requests, near, target, told, writes>>

Best == {f \in Files : /\ seen[f] \notin {Unseen, Rejected}
                       /\ \A g \in Files : seen[f].rank <= seen[g].rank}

\* Fault: the first of the best candidates is taken, whatever the others hold.
AgreeAlways == TRUE

\* chooseMomentCandidate: candidates of the best rank must not differ.
Agree == \A f, g \in Best : seen[f].digest = seen[g].digest

\* The scan may miss a file: it is bounded, and skips what it cannot open.
Choose ==
    /\ pc = "scan"
    /\ \/ /\ Best # {} /\ Agree
          /\ chosen' \in Best
          /\ pc' = "read"
       \/ /\ Best = {} \/ ~Agree
          /\ pc' = "remote"
          /\ UNCHANGED chosen
    /\ UNCHANGED <<job, cache, seen, variant, artifact, download, requests, near, target, told, writes>>

\* Fault: a file that was verified once is not verified when it is read.
UnchangedAlways(f) == Decoded(cache[f]) # "none"

\* readLocalMomentMedia checks container and digests once more.
Unchanged(f) == cache[f] = seen[f].source /\ Decoded(cache[f]) = seen[f].digest

\* Fault: an image is read again from its path as well.
ByPathAlways == TRUE

\* The bytes of an image are kept, those of a video are read again later.
ByPath == job.kind = "video"

ReadLocal ==
    /\ pc = "read"
    /\ IF ~Unchanged(chosen) THEN Fail("verify_failed") /\ UNCHANGED artifact
       ELSE /\ artifact' = [source |-> "cache", file |-> IF ByPath THEN chosen ELSE "none",
                            data |-> IF ByPath THEN "none" ELSE Decoded(cache[chosen]),
                            digest |-> Decoded(cache[chosen]), writes |-> writes]
            /\ pc' = "copy" /\ UNCHANGED told
    /\ UNCHANGED <<job, cache, seen, chosen, variant, download, requests, near, target, writes>>

----------------------------------------------------------------------------
(* The CDN.                                                                *)

Full(v) == v.url # "none" /\ v.token /\ v.key

Half(v) == v.url # "none" /\ v.token

\* chooseRemoteMediaVariant: a video needs its key, an image may borrow the
\* key of the original, and is asked for without any key as well.
RemoteVariant(original, thumbnail) ==
    CASE Full(original) -> original
      [] job.kind = "video" -> NoVariant
      [] Full(thumbnail) -> thumbnail
      [] Half(original) -> original
      [] Half(thumbnail) -> [thumbnail EXCEPT !.key = original.key]
      [] OTHER -> NoVariant

\* Fault: the consent of this call is not asked for.
AllowedAlways == TRUE

Allowed == job.allow

\* buildMomentMediaURL, then the authorization of this call, then one GET.
\* A video is streamed to a private temporary file that a failed download
\* removes again.
Request ==
    /\ pc = "remote"
    /\ \E original, thumbnail \in Variants : variant' = RemoteVariant(original, thumbnail)
    /\ \/ /\ CASE variant' = NoVariant -> Fail("descriptor_missing")
               [] variant'.url = "foreign" -> Fail("url_rejected")
               [] OTHER -> ~Allowed /\ Fail("authorization_required")
          /\ UNCHANGED <<requests, artifact, download>>
       \/ /\ variant'.url = "cdn" /\ Allowed
          /\ requests' = requests + 1
          /\ Fail("download_failed") /\ UNCHANGED <<artifact, download>>
       \/ /\ variant'.url = "cdn" /\ Allowed
          /\ requests' = requests + 1
          /\ \E payload \in Payloads :
               /\ artifact' = [NoArtifact EXCEPT !.source = "cdn", !.data = payload]
               /\ download' = IF job.kind = "video" THEN payload ELSE "none"
          /\ pc' = "decode" /\ UNCHANGED told
    /\ UNCHANGED <<job, cache, seen, chosen, near, target, writes>>

\* The response is decrypted when the server says it is encrypted or it is no
\* container as it stands; decrypting plaintext destroys it.
Deciphered(payload, encrypted) ==
    CASE payload = "plain" -> IF encrypted THEN "broken" ELSE "a"
      [] payload = "cipher" -> "a"
      [] OTHER -> "broken"

\* Fault: a response that does not decode leaves its file.
KeepBroken == download

\* The deferred removal of decodeRemoteMomentVideo.
DropBroken == "none"

Decode ==
    /\ pc = "decode"
    /\ \E encrypted \in BOOLEAN :
         LET plain == Deciphered(artifact.data, encrypted)
             keyed == encrypted \/ artifact.data # "plain"
         IN IF keyed /\ ~variant.key
              THEN Fail("descriptor_missing") /\ download' = DropBroken /\ UNCHANGED artifact
            ELSE IF plain = "broken"
              THEN Fail("verify_failed") /\ download' = DropBroken /\ UNCHANGED artifact
            ELSE /\ artifact' = [source |-> "cdn", digest |-> plain, writes |-> 0,
                                 file |-> IF job.kind = "video" THEN "download" ELSE "none",
                                 data |-> IF job.kind = "image" THEN plain ELSE "none"]
                 /\ download' = IF job.kind = "video" THEN plain ELSE "none"
                 /\ pc' = "copy" /\ UNCHANGED told
    /\ UNCHANGED <<job, cache, seen, chosen, variant, requests, near, target, writes>>

----------------------------------------------------------------------------
(* Writing the output.                                                     *)

\* The bytes that are copied: what the path holds now, or the bytes kept.
Bytes ==
    CASE artifact.file = "none" -> artifact.data
      [] artifact.file = "download" -> download
      [] OTHER -> cache[artifact.file]

\* Only the length of what was copied is compared.
Copy ==
    /\ pc = "copy"
    /\ IF Bytes \in {"none", "short"} THEN Fail("write_failed") /\ UNCHANGED near
       ELSE near' = Bytes /\ pc' = "publish" /\ UNCHANGED told
    /\ download' = IF pc' = "end" THEN "none" ELSE download
    /\ UNCHANGED <<job, cache, seen, chosen, variant, artifact, requests, target, writes>>

\* publishNewFile is a link that fails on an existing target; publishFile (the
\* two renames of --force, modelled step by step in OutputFile) replaces
\* it.  The download is removed by a deferred call after either.
Publish ==
    /\ pc = "publish"
    /\ IF job.force \/ target = "none"
         THEN target' = near /\ told' = "published"
         ELSE told' = "output_exists" /\ UNCHANGED target
    /\ pc' = "end"
    /\ near' = "none" /\ download' = "none"
    /\ UNCHANGED <<job, cache, seen, chosen, variant, artifact, requests, writes>>

\* WeChat replaces, rewrites or removes a file of its cache.
CacheChanges(f) ==
    /\ writes < MaxWrites /\ pc # "end"
    /\ writes' = writes + 1
    /\ \E c \in Contents \ {cache[f]} : cache' = [cache EXCEPT ![f] = c]
    /\ UNCHANGED <<job, pc, seen, chosen, variant, artifact, download, requests, near, target, told>>

Next ==
    \/ Find \/ Choose \/ ReadLocal \/ Request \/ Decode \/ Copy \/ Publish
    \/ \E f \in Files : Verify(f) \/ CacheChanges(f)

Spec == Init /\ [][Next]_vars

----------------------------------------------------------------------------
Published == told = "published"

\* What is written is a whole container, and the one whose digest is told, whatever
\* WeChat wrote to its cache since the candidates were verified.  Only a video of the
\* cache is opened by its path once more, after its last check, and only a write after
\* that check can replace it (readLocalMomentMedia, runExportMomentMedia).
WrittenIsVerified ==
    Published /\ (job.kind = "video" /\ artifact.source = "cache" => writes = artifact.writes) =>
        target = artifact.digest

\* A binding to the cache was never a guess: no other verified file of equal
\* standing held something else (chooseMomentCandidate).
BindingUnique ==
    Published /\ artifact.source = "cache" =>
        \A f \in Files : seen[f].rank = seen[chosen].rank => seen[f].digest = artifact.digest

\* The token of the descriptor leaves the machine at most once, and only for
\* a call that allows it and that found nothing local to use.
TokenOnlyWithConsent ==
    requests > 0 => job.allow /\ chosen = "none" /\ requests = 1

\* A call that came to its end leaves no decrypted copy behind.
NothingLeft == pc = "end" => download = "none" /\ near = "none"
=============================================================================
