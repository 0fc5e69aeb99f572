---- MODULE DerivedText ----
\* Text that is made from images and voice messages on this machine: the
\* commands ocr-read, ocr-recognize, ocr-search, voice-transcribe and
\* voice-search over the two private caches, while refreshes publish new
\* snapshots and WeChat replaces or removes image files.
\*
\* A message is named by its evidence identifier. A snapshot says which messages
\* there are, with which metadata, and for which of them WeChat's own index has a
\* text. An image is read from WeChat's files, which go on changing (source; 0
\* when it cannot be resolved); the audio of a voice message is in the snapshot
\* and never changes. The text of a record is known by the version it was made from.
EXTENDS Naturals, FiniteSets, Sequences

CONSTANTS Procs,        \* processes, each of which runs one command
          Images,       \* image messages
          Voices,       \* voice messages
          MaxSnaps,     \* bound on published snapshots
          MaxVersions   \* bound on the versions of an image

VARIABLES snaps,    \* the published snapshots; the last is the account's
          source,   \* the version of each image in WeChat's files, 0 for none
          cache,    \* the record of each message, as a set of at most one
          proc      \* the processes

vars == <<snaps, source, cache, proc>>
world == <<snaps, source>>

Messages == Images \cup Voices

\* What a snapshot says of a message: the metadata a cached record must agree
\* with, and whether WeChat has indexed a text for it.
Snapshots == {s \in [Messages -> SUBSET [meta : 1 .. 2, indexed : BOOLEAN]] :
                 /\ \A m \in Messages : Cardinality(s[m]) <= 1
                 /\ \A v \in Voices : \A x \in s[v] : x.meta = 1}

Idle == [at |-> "idle"]

\* There may be records of earlier commands.
Init == /\ snaps \in {<<s>> : s \in {x \in Snapshots : \A m \in Messages : \A y \in x[m] : y.meta = 1}}
        /\ source = [i \in Images |-> 1]
        /\ cache \in [Messages -> {{}, {[meta |-> 1, digest |-> 1, from |-> 1]}}]
        /\ proc = [p \in Procs |-> Idle]

Current == snaps[Len(snaps)]

Content(m) == IF m \in Images THEN source[m] ELSE 1
Known(c, m) == \E x \in c.snap[m] : x.indexed

Found(m, src, r) == [m |-> m, src |-> src, meta |-> r.meta, from |-> r.from]

\* A command resolves the account and works on that snapshot to its end.
Begin(p, cmd, M, makes, force) ==
    /\ proc[p] = Idle
    /\ proc' = [proc EXCEPT ![p] =
          [at |-> "load", cmd |-> cmd, makes |-> makes, snap |-> Current,
           todo |-> IF force THEN {} ELSE M, missing |-> IF force THEN M ELSE {},
           cur |-> M, rec |-> {}, plain |-> FALSE, out |-> {}, failed |-> FALSE,
           held |-> {<<i, source[i]>> : i \in Images}]]
    /\ UNCHANGED <<snaps, source, cache>>

\* ocr-read, ocr-recognize and voice-transcribe work on one message, which must be
\* in the snapshot; with --force the texts there are do not count.
StartOne(p, m, force) ==
    /\ Current[m] # {}
    /\ \/ m \in Images /\ ~force /\ Begin(p, "read", {m}, FALSE, FALSE)
       \/ m \in Images /\ Begin(p, "recognize", {m}, TRUE, force)
       \/ m \in Voices /\ Begin(p, "transcribe", {m}, TRUE, force)

\* SearchOCRTexts: the records there are, of whatever snapshot.
Recorded == {i \in Images : cache[i] # {}}

StartSearch(p) == Begin(p, "search", Recorded, FALSE, FALSE)

\* VoiceMessages: those of the snapshot.
VoicesOf(s) == {v \in Voices : s[v] # {}}

\* voice-search, with --cached-only or without.
StartVoices(p, makes) == Begin(p, "voices", VoicesOf(Current), makes, FALSE)

\* The command leaves the message it works on, with what it found.
To(p, c) == proc' = [proc EXCEPT ![p] = c]

Leave(p, m, out) ==
    To(p, [proc[p] EXCEPT !.at = "load", !.todo = @ \ {m}, !.cur = {}, !.rec = {}, !.out = @ \cup out])

Miss(p, m) ==
    To(p, [proc[p] EXCEPT !.at = "load", !.todo = @ \ {m}, !.cur = {}, !.rec = {}, !.missing = @ \cup {m}])

\* WeChat's index comes first, except in a search of images, which asks it last.
ReadIndex(p, m) ==
    LET c == proc[p] IN
    /\ c.at = "load" /\ m \in c.todo /\ c.cmd # "search" /\ Known(c, m)
    /\ \E x \in c.snap[m] : Leave(p, m, {Found(m, "index", [meta |-> x.meta, from |-> 0])})
    /\ UNCHANGED <<world, cache>>

\* A search of images finds a record of a message its snapshot does not have.
Vanished(p, m) ==
    LET c == proc[p] IN
    /\ c.at = "load" /\ m \in c.todo /\ c.snap[m] = {}
    /\ To(p, [c EXCEPT !.at = "delete", !.cur = {m}])
    /\ UNCHANGED <<world, cache>>

\* Fault: the metadata of a cached text are not compared with the message.
AgreesAlways(c, m, r) == TRUE

\* A record of an image must have the metadata of the message; a record of a
\* voice message is taken as it is.
Agrees(c, m, r) == m \in Images => \E x \in c.snap[m] : x.meta = r.meta

\* The record is loaded: none, one of another message, or one that a single
\* command goes on to compare with the image.
LoadRecord(p, m) ==
    LET c == proc[p] IN
    /\ c.at = "load" /\ m \in c.todo /\ c.snap[m] # {}
    /\ c.cmd # "search" /\ ~Known(c, m)
    /\ \/ cache[m] = {} /\ Miss(p, m)
       \/ \E r \in cache[m] :
            IF ~Agrees(c, m, r) THEN To(p, [c EXCEPT !.at = "delete", !.cur = {m}])
            ELSE IF c.cmd \in {"read", "recognize"}
                 THEN To(p, [c EXCEPT !.at = "verify", !.cur = {m}, !.rec = {r}])
            ELSE Leave(p, m, {Found(m, "cache", r)})
    /\ UNCHANGED <<world, cache>>

\* A search loads the record again and does not look at the image.
SearchRecord(p, m) ==
    LET c == proc[p] IN
    /\ c.at = "load" /\ m \in c.todo /\ c.snap[m] # {} /\ c.cmd = "search"
    /\ \/ cache[m] = {} /\ Leave(p, m, {})
       \/ \E r \in cache[m] :
            IF Agrees(c, m, r) THEN Leave(p, m, {Found(m, "cache", r)})
            ELSE To(p, [c EXCEPT !.at = "delete", !.cur = {m}])
    /\ UNCHANGED <<world, cache>>

\* The image is resolved again and its digest compared; an image that cannot be
\* resolved leaves the record as it is.
Verify(p) ==
    LET c == proc[p] IN
    /\ c.at = "verify"
    /\ \E m \in c.cur, r \in c.rec :
          \/ source[m] = 0 /\ Leave(p, m, {Found(m, "unverified", r)})
          \/ source[m] = r.digest /\ Leave(p, m, {Found(m, "verified", r)})
          \/ source[m] \notin {0, r.digest} /\ To(p, [c EXCEPT !.at = "delete"])
    /\ UNCHANGED <<world, cache>>

\* DELETE by evidence identifier, whatever record is there by now.
DeleteRecord(p) ==
    LET c == proc[p] IN
    /\ c.at = "delete"
    /\ \E m \in c.cur : /\ cache' = [cache EXCEPT ![m] = {}]
                        /\ IF c.cmd = "search" THEN Leave(p, m, {}) ELSE Miss(p, m)
    /\ UNCHANGED world

\* The texts WeChat has indexed complete a search of images.
Indexed(c) ==
    IF c.cmd # "search" THEN {}
    ELSE LET known == {y \in Images \X [meta : 1 .. 2, indexed : {TRUE}] :
                          y[2] \in c.snap[y[1]] /\ \A o \in c.out : o.m # y[1]}
         IN  {Found(y[1], "index", [meta |-> y[2].meta, from |-> 0]) : y \in known}

\* Nothing is left to do: the command prints what it found. Only some commands
\* may run an engine, and they end with an error when there is none or the user
\* has not allowed it.
Show(p) ==
    LET c == proc[p] IN
    /\ c.at = "load" /\ c.todo = {}
    /\ c.missing = {} \/ ~c.makes
    /\ To(p, [c EXCEPT !.at = "done", !.out = @ \cup Indexed(c), !.held = {}, !.cur = {}, !.rec = {},
                       !.failed = @ \/ (c.missing # {} /\ c.cmd = "read")])
    /\ UNCHANGED <<world, cache>>

NoEngine(p) ==
    LET c == proc[p] IN
    /\ c.at = "load" /\ c.todo = {} /\ c.missing # {} /\ c.makes
    /\ To(p, [c EXCEPT !.at = "done", !.failed = TRUE, !.out = {}, !.held = {}])
    /\ UNCHANGED <<world, cache>>

\* The image or the audio is read and written, in the clear, to a temporary file.
WriteTemporary(p, m) ==
    LET c == proc[p] IN
    /\ c.at = "load" /\ c.todo = {} /\ c.makes /\ m \in c.missing /\ Content(m) # 0
    /\ To(p, [c EXCEPT !.at = "engine", !.cur = {m}, !.plain = TRUE,
                       !.rec = {[meta |-> (CHOOSE x \in c.snap[m] : TRUE).meta,
                                 digest |-> Content(m), from |-> Content(m)]}])
    /\ UNCHANGED <<world, cache>>

\* A search of voices goes on to the next message, another command ends.
\* Fault: a failure is not counted.
FailsSilently(c, m) == [c EXCEPT !.missing = @ \ {m}, !.at = IF c.cmd = "voices" THEN "load" ELSE "done"]

Fails(c, m) == [c EXCEPT !.missing = @ \ {m}, !.failed = TRUE, !.rec = {},
                         !.held = IF c.cmd = "voices" THEN @ ELSE {},
                         !.at = IF c.cmd = "voices" THEN "load" ELSE "done"]

NoPayload(p, m) ==
    LET c == proc[p] IN
    /\ c.at = "load" /\ c.todo = {} /\ c.makes /\ m \in c.missing
    /\ m \in Images => source[m] = 0
    /\ To(p, Fails(c, m))
    /\ UNCHANGED <<world, cache>>

\* The engine ends, with a text or without. Either way the temporary file is
\* removed next.
Engine(p) ==
    LET c == proc[p] IN
    /\ c.at = "engine"
    /\ \/ To(p, [c EXCEPT !.at = "clean"])
       \/ To(p, [c EXCEPT !.at = "clean", !.rec = {}])
    /\ UNCHANGED <<world, cache>>

\* Fault: the temporary file is removed after a success only.
RemoveOnSuccess(p) ==
    LET c == proc[p] IN
    /\ c.at = "clean"
    /\ \E m \in c.cur : IF c.rec = {} THEN To(p, [Fails(c, m) EXCEPT !.failed = c.failed])
                        ELSE To(p, [c EXCEPT !.at = "save", !.plain = FALSE])
    /\ UNCHANGED <<world, cache>>

\* A text whose temporary file could not be removed is thrown away.
RemoveTemporary(p) ==
    LET c == proc[p] IN
    /\ c.at = "clean"
    /\ \E m \in c.cur :
          \/ c.rec # {} /\ To(p, [c EXCEPT !.at = "save", !.plain = FALSE])
          \/ c.rec = {} /\ To(p, [Fails(c, m) EXCEPT !.plain = FALSE])
          \/ To(p, Fails(c, m))
    /\ UNCHANGED <<world, cache>>

\* Fault: the digest of the record is taken from the image as it is by now.
SaveNow(p) ==
    LET c == proc[p] IN
    /\ c.at = "save"
    /\ \E m \in c.cur, r \in c.rec :
          /\ cache' = [cache EXCEPT ![m] = {[r EXCEPT !.digest = Content(m)]}]
          /\ To(p, [c EXCEPT !.at = "load", !.missing = @ \ {m}, !.rec = {},
                             !.out = @ \cup {Found(m, "made", r)}])
    /\ UNCHANGED world

\* The record replaces the one of that message, or cannot be written.
Save(p) ==
    LET c == proc[p] IN
    /\ c.at = "save"
    /\ \E m \in c.cur, r \in c.rec :
          \/ /\ cache' = [cache EXCEPT ![m] = {r}]
             /\ To(p, [c EXCEPT !.at = "load", !.missing = @ \ {m}, !.rec = {},
                                !.out = @ \cup {Found(m, "made", r)}])
          \/ To(p, Fails(c, m)) /\ UNCHANGED cache
    /\ UNCHANGED world

\* A process that is killed leaves its temporary file, which nothing removes.
Crash(p) == /\ proc[p].at \notin {"idle", "done", "killed"}
            /\ To(p, [at |-> "killed"])
            /\ UNCHANGED <<world, cache>>

\* The world: a refresh publishes a snapshot, WeChat replaces or drops an image.
NewSnapshot == /\ Len(snaps) < MaxSnaps
               /\ \E s \in Snapshots : snaps' = Append(snaps, s)
               /\ UNCHANGED <<source, cache, proc>>

ImageChanges(i) ==
    /\ \E v \in 0 .. MaxVersions : v # source[i] /\ source' = [source EXCEPT ![i] = v]
    /\ proc' = [p \in Procs |-> IF proc[p].at \in {"idle", "done", "killed"} THEN proc[p]
                                ELSE [proc[p] EXCEPT !.held = @ \cup {<<i, source'[i]>>}]]
    /\ UNCHANGED <<snaps, cache>>

Next == \/ \E p \in Procs :
             \/ StartSearch(p)
             \/ \E makes \in BOOLEAN : StartVoices(p, makes)
             \/ \E m \in Messages : \/ \E force \in BOOLEAN : StartOne(p, m, force)
                                    \/ ReadIndex(p, m)
                                    \/ Vanished(p, m)
                                    \/ LoadRecord(p, m)
                                    \/ SearchRecord(p, m)
                                    \/ WriteTemporary(p, m)
                                    \/ NoPayload(p, m)
             \/ Verify(p)
             \/ DeleteRecord(p)
             \/ Show(p)
             \/ NoEngine(p)
             \/ Engine(p)
             \/ RemoveTemporary(p)
             \/ Save(p)
             \/ Crash(p)
        \/ NewSnapshot
        \/ \E i \in Images : ImageChanges(i)

Spec == Init /\ [][Next]_vars

Ended(p) == proc[p].at = "done"

----------------------------------------------------------------------------
\* Properties

\* A text that a command printed as verified, or made itself, is the text of an
\* image the account had while the command ran: neither a replaced file nor
\* another process that saves at the same time makes it an older one
\* (loadValidatedOCRCache, runOCRRecognize).
VerifiedIsCurrent ==
    \A p \in Procs : proc[p].at = "load" =>
        \A o \in proc[p].out :
            (o.m \in Images /\ o.src \in {"verified", "made"}) => <<o.m, o.from>> \in proc[p].held

\* A search of images prints only messages of the snapshot it resolved, with the
\* metadata they have there, although records are made for other snapshots and
\* deleted while it runs (runOCRSearch).
SearchedInSnapshot ==
    \A p \in Procs : (Ended(p) /\ proc[p].cmd = "search") =>
        \A o \in proc[p].out : \E x \in proc[p].snap[o.m] : x.meta = o.meta

\* A command that leaves an image or a voice in the clear behind never reports
\* that all went well (recognizeTemporaryChatImage, runLocalWhisper).
PlaintextTold == \A p \in Procs : (Ended(p) /\ proc[p].plain) => proc[p].failed

\* A search of voices that reports itself complete has the text of every voice
\* message of its snapshot (complete_within_local_candidate_scope, runVoiceSearch).
VoicesComplete ==
    \A p \in Procs : (Ended(p) /\ proc[p].cmd = "voices" /\ proc[p].makes /\ ~proc[p].failed) =>
        \A v \in Voices : proc[p].snap[v] # {} => \E o \in proc[p].out : o.m = v

----------------------------------------------------------------------------
\* The invariant these follow from: the types, and what a command knows in each
\* of its phases.

Metas == [meta : 1 .. 2, indexed : BOOLEAN]
Shots == [Messages -> SUBSET Metas]
Records == [meta : 1 .. 2, digest : Nat, from : Nat]
Outs == [m : Messages, src : {"index", "cache", "unverified", "verified", "made"}, meta : 1 .. 2, from : Nat]
Commands == [at : {"load", "delete", "verify", "engine", "clean", "save", "done"},
             cmd : {"read", "recognize", "transcribe", "search", "voices"}, makes : BOOLEAN,
             snap : Shots, todo : SUBSET Messages, missing : SUBSET Messages, cur : SUBSET Messages,
             rec : SUBSET Records, plain : BOOLEAN, out : SUBSET Outs, failed : BOOLEAN,
             held : SUBSET (Images \X Nat)]

\* A search makes nothing and has found what its snapshot has.
Searches(c) ==
  c.cmd = "search" =>
    /\ c.at \in {"load", "delete", "done"} /\ ~c.makes
    /\ c.todo \subseteq Images /\ c.cur \subseteq Images
    /\ \A o \in c.out : \E x \in c.snap[o.m] : x.meta = o.meta

\* It has seen the images there were while it ran, and what it says of one is of
\* those.
Holds(c, now) ==
  c.at # "done" =>
    /\ \A i \in Images : <<i, now[i]>> \in c.held
    /\ \A o \in c.out : o.m \in Images /\ o.src \in {"verified", "made"} => <<o.m, o.from>> \in c.held

\* A text that is made is that of an image it saw.
Makes(c) ==
  c.at \in {"engine", "clean", "save"} =>
    c.makes /\ \A m \in c.cur, r \in c.rec : m \in Images => <<m, r.from>> \in c.held

\* A file in the clear is either about to be removed or told of.
Told(c) == c.plain => c.failed \/ c.at \in {"engine", "clean"}

\* Every voice is yet to do, without a text, or found.
Left(c) ==
  c.cmd = "voices" /\ c.makes /\ ~c.failed =>
    /\ c.at = "done" => c.todo = {} /\ c.missing = {}
    /\ \A v \in Voices : c.snap[v] # {} => v \in c.todo \/ v \in c.missing \/ \E o \in c.out : o.m = v

\* What a command works on is in its snapshot, but for a search.
Shown(c) ==
  c.cmd # "search" => \A m \in Messages : m \in c.todo \/ m \in c.missing \/ m \in c.cur => c.snap[m] # {}

\* The digest of a record is that of what its text was made from.
Sound(r) == r.digest = r.from

Runs(c, now) ==
  /\ c \in Commands
  /\ \A r \in c.rec : Sound(r)
  /\ Searches(c) /\ Holds(c, now) /\ Makes(c) /\ Told(c) /\ Left(c) /\ Shown(c)

Killed == [at |-> "killed"]
Good(c, now) == c \in {Idle, Killed} \/ Runs(c, now)

WorldInv ==
  /\ snaps \in Seq(Shots) /\ snaps # <<>>
  /\ source \in [Images -> Nat]
  /\ cache \in [Messages -> SUBSET Records] /\ \A m \in Messages : \A r \in cache[m] : Sound(r)

TextInv ==
  /\ WorldInv
  /\ proc = [p \in Procs |-> proc[p]] /\ \A p \in Procs : Good(proc[p], source)

====
