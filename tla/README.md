# A formal model of v-local-cli

`v-local-cli` copies the encrypted local databases of a chat client into private,
immutable snapshots, queries them, exports from them, and hands new messages to other
programs in acknowledged batches. This directory holds TLA+ models of the parts of the
program whose correctness depends on order, failure and concurrency, TLC configurations
that check them on small instances, and proofs checked by TLAPS. Paths below are relative
to the repository (`src/` in `PROJECT.json`).

## 1. Inventory

Every command is a process of its own. Processes share a private directory, the
keychain of the operating system and, optionally, two background daemons. The account
lock (`internal/state/lock.go`) is a file lock that is never waited for: a command that
finds it taken ends with `snapshot_busy`. Query commands take no lock at all, so every
file a locked command replaces is read by others while it does so. The chat client itself
(WeChat) goes on writing its databases and caches all the time, and honours no lock either.

| component | state | operations | what is hard | what makes it correct |
|---|---|---|---|---|
| private record files (`state.go`, `inbox.go`, `provider/daemon.go`) | `<path>`, `<path>.old`, temporary files | save, load, delete | crashes and failed renames between the steps of a save; loads without the lock | a saved record is never lost; a load never goes back |
| snapshot generations (`app.go`, `snapshot.go`) | state.json, generation and staging directories, derived indexes | `setup`, `refresh`, `gc`, `forget`, `index build` | state resolved before the lock; rollback of three stores when the commit fails; crashes | the state points to an existing snapshot; one rollback version; coverage does not shrink; `forget` is final |
| source copying (`snapshot.go`, `cryptoutil/`) | a copy of a database and its log | stable copy, selection of the commit, proof against the catalog | the source is written, checkpointed and restarted meanwhile | a copy is of one commit; a database at rest is taken |
| saved credentials (`state.go`, `provider/credential.go`) | a manifest and chunks in two slots of the keychain; keys, roots, overrides | save, load, delete, bind | each keychain call may fail; a bundle is many items; partial coverage | the items are one atomic record; what is kept opens what was published |
| message index (`messageindex/index.go`) | a derived database for each generation | build, inspect, search, diff, collect | collection races the consumers | indexes a consumer needs are kept |
| incremental inbox (`inbox.go`, `query_extensions.go`) | a cursor for each consumer | create, poll, replay, ack, delete | clients sharing a consumer, dying, retrying; generations that move on | at-least-once delivery, nothing skipped, identical replay, progress |
| account lock | one lock file | acquire, release | released by the end of its process | mutual exclusion |
| query daemon (`app/daemon.go`) | control lock, endpoint file, connections, an LRU cache keyed by generation | serve, query, status, stop | concurrent queries against a changing state; daemons one after another; stop | no answer is older than its request; clients talk to the daemon they named; a stop ends |
| acquisition daemon (`provider/daemon.go`, `catalog_key.go`) | a daemon process shared by all accounts, its endpoint, startup lock, catalog key, a resume file for each account | find or start, prepare, observe, finalize, cancel, resume | setups of several accounts at once; daemons that end and are replaced; lost replies | one key and one daemon; a request reaches the session it names |
| external workflow (`provider/daemon.go`, `client.go`) | a checkpoint file | inspect, reconcile, cancel, clear | restarts of the machine, expiry, cancel commands without the lock | a change of the machine that is asked for is asked to be undone |
| provider protocol (`client.go`) | none | validate, judge | answers of a foreign program, rules that are far apart | an accepted answer means what setup makes of it |
| remote image recovery (`app/chat_image_recovery.go`) | one-time challenges | inspect, agree, recover | use twice, expiry, changed snapshot, a taken output | one request for each consent, for what was shown |
| query store (`store/store.go`, `chat_image.go`) | none | history, search, export; choice of a picture | several databases, missing sort keys, files that are still written | the newest messages, a true `has_more`, the best verified picture |
| moments (`store/moments_*.go`) | none | list, export a picture or video | cache files that change, several candidates, the network | what is written was verified; no request without permission |
| voice, OCR (`app/voice.go`, `app/ocr.go`, `store/ocr_cache.go`) | two caches of texts, temporary plaintext | transcribe, recognise, search | cache against a changing source, cleaning up | a text belongs to its content; no plaintext is left silently |
| output files (`app.go`) | a file, its backup, a temporary file | publish, replace | several exports and other programs at one path | nobody's file is lost |
| npm installer, skill files (`npm/scripts/`, `skill_install.go`) | the binary, the skill directories | download, verify, replace, run | installers at once, failed renames, broken downloads | what runs was verified; nothing half-written |
| official accounts, red packets; message identity; qualification of remote image candidates; native OCR bridge; WXGF qualification; platform discovery, runtime trust | - | - | - | not modelled (section 5) |

`PROJECT.json` lists, under "hazards", what can go wrong in this code that a test would
hardly reach, each at its line. Where no property of a run covers one, or only a part of
it, its note says what is known.

## 2. What is modelled

### Storage

**`AtomicRecord`** is the abstract specification of a private record: it has one value;
a save makes it newer in one step; only a deletion makes it older or absent.

**`RecordFile`** is the commit protocol. `StartSave`, `RestoreBackup`, `RemoveBackup`,
`MovePrimary`, `Publish` and `DropBackup` are the system calls of `commitStateFile`,
`inbox.save` and `saveAcquisitionJSON` in their order; the variable `kind` says whose record it is, since
only `inbox.save` restores a record that survives in the backup alone, and since the state
is deleted with its directory. A file is the version it holds. `PublishFails` and
`SaveFails` are the error paths, and a removal whose error the code ignores may do
nothing. `ReadPrimary` and `ReadBackup` are the two reads of a load without the lock. The
ghosts `committed` and, in a reader, `floor` record what is owed.

**`Generations`** has one process for each command. `Resolve` is the read of the state
before the lock (`resolveInitializedAccount`), `Busy` the refused lock; `Stage` to
`CleanIndexes` are the parts of `publishAccountSnapshot` in their order, with the
rejections of `BuildGeneration` (`Reject`), a keychain that fails, and the rollback of a
failed `state.Save` (`CommitFails`). `GcSnapshots` and `GcIndexes` are `runGC`, which
collects with the state it resolved before the lock; `ForgetSecrets` and `ForgetData` are
`runForget`. Any removal may stop half-way where the code reports it. A save of the state is one
step here; `RecordFile` has its inside. The removals of a rollback ignore their errors, as in the
code, so `Reject` and `CommitFails` may leave a directory: the ghost `left` names the generations a
failed or interrupted publication left behind, `outlived` says that credentials stayed in the keychain
although the state does not rely on them (a deletion failed or never ran, or new ones could not replace them). Generation names are taken to
sort in the order of their creation.

**`SourceCopy`** is the inside of `buildStage` for one database. WeChat commits transactions of
any number of pages to the log (`Log` is what is committed of it), moves the log into the main file page
by page, cuts the file to the size of the last commit unless more was committed meanwhile, breaks that
off, and starts the log again with a new salt; a commit that makes the database larger has written the
pages it adds. The copy of the main file (`stableCopy`), the check of
the catalog, the copy of the log, the second check and `scanWALFile` happen between any of these.
A file has one stamp that every write changes, standing for size, time, identity and first page.
A frame names the frame before it, as the chain of checksums does.

**`Credentials`** is what `setup` and `refresh` keep: single keys, or roots with overrides. A key
is the epoch it belongs to; `Matched` is what a bundle opens, `Builds` what a publication takes of it,
`BindVerified`, `BindPartial` and `Minimal` what is kept in the keychain. An override of the provider may
not open its database; the root is tried then (`Matched`). `misled` has the databases a partial
setup opened that way. WeChat may make, remove, re-encrypt or truncate a database between.

**`SavedSecrets`** is the two-slot keychain layout: one action for each keychain call of
`SaveSecrets`, `DeleteSecrets` and `LoadSecrets`. It also implements `AtomicRecord`.

### Readers

**`Inbox`** has clients that poll and acknowledge, and the refreshes and collections around
them. All operations run under the account lock, so each is one action; only `new-messages`
takes the lock twice (`Ensure`, then `Create` or a poll). `PollNothing`, `PollUnavailable`,
`PollAdvance`, `PollBatch` and `PollReplay` are the exits of `pollUnlocked`. `Remaining` is
the query of `messageindex.Diff`: changes of the target against the base after a position,
in order. A save of the cursor that fails or is interrupted leaves one of the file states
`RecordFile` derives (`StoreStops`), and a deletion may leave either of its two files.
`view` is what the consumer has acknowledged. `exposed` has the consumers whose cursor began on a
generation without an index, or was in its backup alone when a collection ran, until a poll finds the index.

**`QueryCache`** is how the daemon answers a query. A handler takes no account lock, so
`Accept` (resolving the account for the key), `BindIndex` (inspecting its index and the date),
`Hit` or `Miss`, `Resolve` (the command resolving its own account), `Execute` and `Store` are
separate steps, between which other commands `Refresh`, `BuildIndex` or `Forget` and the clock
ticks. The LRU is a sequence, most recently used first; `Put` replaces in place or pushes and
evicts as `daemonCache.put` does, and `bytes` is its own running sum. A response is what it was
computed from and its length. A request has the account inferred for the key and the one the
command reads, which may differ. `reply` shows the response just written, with what held when
its key was begun.

**`QueryDaemon`** is the server around it: `TakeLock` to `Publish` is the start of
`serveDaemon`, `AcceptConnection` and `AcceptTimesOut` its loop, `Drain` the wait for the
connections, `RemoveEndpoint`, `CloseListener` and `ReleaseLock` the deferred calls in the order
they run; a removal of the endpoint may fail, which both places ignore (`CheckRemovesNothing`, `RemoveFails`;
`littered` has the servers that could not remove theirs). `Respond` and `Finish` are `serveDaemonConnection`,
`LoadEndpoint`, `Connect` and `GiveUp` a client, and `Takes` what its command makes of a reply: only a query looks at
the exit code that tells a refusal. Each server is a process with a token of its own; ports are used again.

**`MessageQueries`** is `history`, `search` and `export` over the databases of a snapshot. Each of
them may be unreadable or fail in the middle of a scan (`BreakOff`). `Leading` is the SQL limit of
one database, whose order is that of the sort sequence alone; `Insert` is the bounded heap of
`searchWindowEach`; `Cut` sorts and cuts the merged history; `Probe` asks for one message more than
is shown, from which `has_more` follows. Export has no limit.

**`ChatImage`** is `ResolveChatImage`: the files a message resource and the hard-link table name are
looked at once each (`Look`), and hold whatever WeChat has written by then; `Decide` chooses the best
that verified and says what is known of better ones (`Higher`).

**`DerivedText`** has the commands of OCR and voice over the two caches. `LoadRecord` and
`SearchRecord` compare a record with the message, `Verify` with the image; `WriteTemporary`,
`Engine`, `RemoveTemporary` and `Save` are a recognition or transcription, each step of which may
fail. Snapshots appear and images are replaced or removed meanwhile.

### The exchange with the key provider

The provider is another program; the models know what this program does with its answers.

**`ExternalWorkflow`** is the handoff of an acquisition over a restart of the machine. The user is
asked to change something (disable SIP, approve a shadow copy), which ends every process, and only
a checkpoint file is left. A setup holds the account lock from `Begin` to what it tells:
`InspectRestoration` and `InspectChange` read the checkpoint (`acquireScopes`), `Acquire` and
`FollowUp` are the acquisition and the question `reconcileNormalAcquisition` asks after a failed
one, `Revalidate` is the path of a pending restoration, and `DraftCheckpoint` to `DropBackup`, or
`Reconcile`, `RemovePrimary` and `RemoveLast`, are `reconcileExternalCheckpoint` with each change
of a file a step of its own. The cancel commands take no lock: `CancelLook` to `CancelBackup`, and
`ClearList` to `ClearBackup`, run beside a setup. What the provider answers is a choice that
depends on the machine; SIP changes only by a restart (`DisableSip`, `EnableSip`); a file that
expired counts as absent, and a save may not write an expired one. `CancelLook` looks for the file only, so
a cancel misses a checkpoint that is left in its backup alone. One account is modelled;
removals are assumed to succeed and files to be well-formed.

**`AcquisitionDaemon`** is the part of `Acquire` setups of all accounts share: the catalog key
file (`ReadKey` to `WriteKeyFails`) and the search for a daemon, which is `ensureAcquisitionDaemon`
with each of its file and process operations a step. Daemons become ready and end when they like. Setups run
from one of two executables (`Others` is the second); an endpoint that names another one does not load (`Loaded`), so that
setups of the two remove each other's endpoints and start a daemon each (`displaced`).

**`AcquisitionSession`** is what one account does with that daemon: `LoadResume`, `Prepare`, `SaveResume`,
`Decide`, `Observe`, `Finalize` and `CancelSession` are `acquireViaDaemon`, `CancelLoad` to
`CancelSend` the cancel command. A daemon may be replaced by one that gives out the same session ids.

**`ProviderContract`** and **`ProviderEvidence`** are the validation of an answer (`ValidateBundle`,
`validateScopeDiagnostics`, `validateCoverageDiagnostics`, `validateDarwinEvidence`,
`validateWindowsEvidence`) and what becomes of it (`acquisitionStateError`). An answer is read part by
part: each `Read...` action chooses the next part among all that its rules accept, so the states are
exactly the accepted answers. `Reason` leaves out what `process_access_status` overrides
(`client.go` 1599 to 1608).

### What leaves the private directory

**`OutputFile`** is the publication of an exported file (`publishFile`, `publishNewFile`) by several
exports, with another program at the same path. **`MomentMedia`** is the export of a post's picture or
video: choosing a cache file (`Agree`), reading it again, the request to the CDN (`Request`), decoding
and writing. **`RecoveryConsent`** is `recover-chat-image`: choosing a candidate among the raw
descriptors, issuing a challenge, consuming it with a rename, one request, publication with a hard
link. **`Install`** has the npm installers, the launcher and the copiers of the skill files; each rename may fail,
the one that puts the earlier version back too (`PutBackFails`), and `aside` has the places whose earlier version is
left in a backup beside them.

### Modules for TLC and proofs

`MCGenerations` adds a symmetry set, `MCInbox` what the messages may hold and a symmetry set. Four modules take several of the above in one run:
**`Provider`** (`ExternalWorkflow`, `AcquisitionSession`, `ProviderContract`, `ProviderEvidence`;
`MCProvider` adds the requests and the values the rules tell apart),
**`Account`** (`SavedSecrets`, `Credentials`, `SourceCopy`; `MCAccount` adds a symmetry set),
**`Queries`** (`QueryCache`, `MessageQueries`, `DerivedText`, the first and the last over a set of scenes, each with its own
accounts and queries, or commands, images and voices; `MCQueries` adds two scenes each and the messages), and **`LocalFiles`** (`Install`, `OutputFile`, `MomentMedia`,
`ChatImage`, `RecoveryConsent`; `MCFiles` adds descriptors and a symmetry set). These components share no file and no lock, so a
behaviour of such a module is a behaviour of one of them, chosen in `Init` (`which`); its variables are
`v1`, `v2`, ... of the module, and those a component has no use for rest. Nothing is claimed of
components beside each other there. Their properties are conjunctions of those of the components.

`RecordFileProofs`, `GenerationsProofs`, `InboxProofs`, `AccountProofs`, `ProviderProofs`,
`LocalFilesProofs`, `QueryProofs` and `AcquisitionDaemonProofs` have the proofs. Operators under a comment "Fault:" are wrong forms of a definition used to see that a property notices them; nothing else
uses them.

## 3. What the runs check

| run | instance | shows |
|---|---|---|
| `record` | three kinds of record, 4 saves, 3 crashes, 1 reader | cursors survive and are atomic; no load goes back |
| `gen_life` | 2 processes, 5 commands, 2 databases, 3 generations, 1 interruption or failed removal of a rollback | snapshots, rollback, credentials, coverage, indexes, `forget` |
| `inbox_delivery` | 2 clients of 1 consumer, 2 messages, one of which may change, batches of 1 or 2, 3 generations, 2 batches, indexes that fail, 1 interrupted save or deletion | nothing skipped, identical replay, pinned indexes exist |
| `inbox_live` | 2 clients, 2 messages, 3 generations, 4 batches, no failing index and no fault | every round ends |
| `query_daemon` | 2 daemons of 2 builds, 2 clients, 2 ports, 1 slot, 2 crashes or failing calls | one listener, a true endpoint, answers from the daemon named, stop drains and ends |
| `acquisition_daemon` | 3 setups of 2 executables, 2 daemons, 1 crash, failing write, sync or ping | one key, one daemon for an executable, no lock left, no live endpoint of the own executable removed, every search ends |
| `provider` | 3 requests of 2 providers, 1 cancel command, 3 ticks with a lifetime of 2, SIP disabled once; 2 daemons one after another, 2 sessions, 2 scopes; 2 databases, 6 reasons, 6 results, 6 actions; 7 kinds of evidence, counts up to 2; 1 fault | a restoration is not dropped, reports are true, requests reach their session, accepted answers mean what setup makes of them |
| `account` | 3 saves, 2 chunks, 2 failing calls, 1 crash, 1 reader; 2 databases of 2 epochs, overrides that do not open; 2 pages, 3 writes in 2 rounds of the log, 2 attempts | atomic bundles, no residue; refresh covers; copies are of one commit |
| `queries` | 2 connections, 2 accounts with 2 and 1 generations, or 1 account and 2 days, 2 entries; 7 messages in 2 databases, limits up to 2; 2 commands over 1 image, 1 over 2 voices, 2 snapshots | cached answers, lists and texts are true |
| `files` | 2 installers, 2 copiers, 2 failing renames; 3 exports, 1 other use, 2 faults; 2 cache files and 5 kinds of descriptor, 1 write; 3 files of 2 stems; 2 calls, 2 messages, 2 outputs, 2 generations, 1 challenge | verified binaries, true media and pictures, one request a consent, nobody's file lost |

**Bounds.** Four saves and three crashes are two more than the longest dependence between steps of two
saves (a crash leaves the record in the backup, the next save meets it, a third one meets what
that left). Three generations are the current one, its rollback version and one that is being
published; two processes give every pair of commands. Two messages and batches of one and two
give a batch that is full, one that is not, and one that ends exactly at the last change; two
contents of the second give a changed message. Two chunks and three saves use a slot again.

Three setups are one that starts a daemon, one that waits for it and one that comes when it has
just become ready; two daemons are one that is found and one too many. A second daemon with the
session ids of the first is enough to take one's session for the other's. Two requests of one
provider differ in their scopes and the third is of another provider, so every mismatch is met.
Three ticks let a checkpoint expire and another one be made after it. One fault leaves a checkpoint in its
backup alone, which the next setup meets; a second fault in the next save loses it, as in
`record_state_lost`, and `RestorationKept` excepts that step alone. Two failing renames of an installer are a
publication and its put-back; two of the exports are two that both have to take back what they moved away. Every reason,
result, action and piece of evidence that a rule tells from the others is there once.

Two connections are used again and again, so a result kept by one query is hit by a later one
while another runs; the second generation makes the first an old one, and
an index appears or not before the first account's key, between key and execution, or after. A
cache of two entries evicts by number and by bytes. Two databases of three and four messages have
sequences in and out of step with the time, one equal in both, and one message without any; limits
below that cut. Two rounds of the log make frames of an old round follow those of the new one.
A database of two pages grows and shrinks by one, so this run meets no `Shrunk` one: an instance of
three pages (24 million states, no error) is too long for a run kept here, and the theorem
`CopiesAreCommits` is for any number.

The four composed runs and the two of daemons do not check deadlock: commands and clients end there,
and nobody has to start another.

Each run is broken by a plausible bug for each of its properties ("mutants" in `PROJECT.json`). The
properties of the four composed runs have several parts; for each the wrong definition that breaks it
is kept in its module:

| property | part | broken by |
|---|---|---|
| `ReportsTrue` | `ToldTrue`; `DisabledNoticed`; `CancelledIsGone`, `MissedOnlyTorn` | `RemoveOne`; `FollowNothing`; `CancelOne` |
| `HandoffBound` | scopes; expiry | `InspectAnyScope`; `DraftRenewed` |
| `SessionsRight` | `SessionsBound`; `ReceiptAsked` | `ResumableOfAny`, `CancelToAny`; `DecideLoosely` |
| `AnswersJudged` | `CompleteMeansDone`; `PublishedIsOurs`; `SipOnlyAsLastResort`; `ObservedIsFinal` | `FlowRulesLoose`; `PublishesUsable`; `SipRulesLoose`; `ProjectedAll` |
| `EvidenceSupports` | `RegisteredIsPromoted`; `ScannedOwnProcess` | `RegisteredEarly`; `CollectorRulesLoose` |
| `CopyIsCommit` | `PublishedIsCommit`; `RefusedOnlyIfWritten` | `UnchangedSinceCopy`, `AppliedAll`; `FitsMain` |
| `CacheTrue` | `AnswersFresh`; `CacheConsistent` | `MatchesAlways`, `KeyWithoutIndex`; `PutCountsTwice` |
| `QueriesTrue` | `SearchShowsNewest`; `HistoryShowsLatest`; `MoreIsTrue` | `Newest`, `InsertByKey`; `Earliest`; `ProbeExact` |
| `TextsTrue` | `VerifiedIsCurrent`; `SearchedInSnapshot`; `PlaintextTold`; `VoicesComplete` | `SaveNow`; `AgreesAlways`; `RemoveOnSuccess`; `FailsSilently` |
| `InstallSafe` | `RanVerified`; `NothingHalf`; `Kept` | `CheckNothing`; `VerifyExists`, `LookUnverified`; `RestoreNothing` |
| `MediaTrue` | `WrittenIsVerified`; `BindingUnique`; `TokenOnlyWithConsent`; `NothingLeft` | `ByPathAlways`, `UnchangedAlways`; `AgreeAlways`; `AllowedAlways`; `KeepBroken` |
| `PictureTrue` | `BestPicture`; `MissingIsAbsent` | `AnyTier`; `HigherUnread` |
| `ConsentBound` | `OneAttempt`; `AttemptAgreed` | `ConsumeLater`; `ReloadNothing`, `CoversAnySnapshot` |
| `OutputsKept` | `KeepsOthers`; `KeepsOld`; `OverwritesNothing` | `LinkOver`; `DropOld`; `PublishOver` |

**Fairness** is assumed in `inbox_live`, `query_daemon` and `acquisition_daemon`. In `query_daemon` a
running server and the handlers of its connections go on (weak fairness); nobody has to start a server
or ask it, and the clients are finitely many: the stop channel is read only after a second without a
connection, so a stream without a pause would keep a stopped daemon running. In `acquisition_daemon` a
setup that is not killed goes on (weak fairness of its own steps, its time-outs among them), and
nothing is assumed of the daemons. In `Inbox`, nothing acts by itself, so it is a
statement about clients: a client keeps polling, and infinitely often gets through with its
poll and with its acknowledgement although others may take the lock or the batch first
(strong fairness). Refreshes, collections and clients that stop are not assumed to happen.

### Where the code does not do what is said of it

| run | what happens |
|---|---|
| `record_state_lost` | `commitStateFile` removes `state.json.old` before it looks for `state.json`. After a crash between two renames the backup is the only copy; a second interrupted save loses the account state. `inbox.save` restores the backup first. |
| `gc_current_lost` | `gc` collects with the state it resolved before the lock: a publication in between, and the directory of an interrupted one, make it delete the snapshot the state points to. |

Others were met with TLC and have no run; the hazards name them at their lines: a query that
reads `state.json` during its rename and `state.json.old` after it was dropped finds neither; a
load of credentials that read the manifest before a save may miss chunks of the slot it replaced; a
refresh between the two locks of `new-messages` lets a cursor start on a generation without an
index; a cancel looks for the checkpoint file only, and misses one a save left in its backup alone; a
refresh that resolved the account before a setup changed its policy to snapshot-only publishes under the old one, if
the credentials outlived that setup; a
directory that a failed publication could not remove (`app.go:1213`, `snapshot.go:617`) sorts last, so that `gc` keeps it and
deletes the rollback version; `daemon status` and `daemon stop` do not look at the exit code of the reply
(`app/daemon.go:585`) and report success, without a status, when they were refused; an endpoint that
names another client executable counts as none (`provider/daemon.go:259`) and is removed (`provider/daemon.go:406`), so that
setups of two executables hide each other's live daemon; `references/key-provider.md:60` says that a
setup of some databases drops the root and keeps each verified effective key as an override that refresh can use, while
`BindPartialVerifiedCredential` (`provider/credential.go:510`) keeps an override that was there although it does not open
its database and only the root did, so the next refresh loses that database; an installer or copier whose publication and put-back both fail leaves
nothing in place, only a backup (`install.js:208` throws, `skill_install.go:217` ignores it); a provider's answer
without any count of databases passes the coverage rules; a database at rest that has shrunk by more
than a page since its log began may be refused. The last was found by the proof of `CopyIsCommit`.
The comment at `sqlcipher_file.go:96` says that every page of a commit is in the main file or in a frame,
and the bound after it relies on that; but a checkpoint cuts the main file to the size of the last
commit, and until the log starts again the earlier commits are still in it. A log whose first commit
has four pages in two frames and whose last has one is refused (`invalid_commit_size`) once
it is checkpointed. With three pages and two frames, TLC violates `RefusedOnlyIfWritten`
without `Shrunk` after 13 steps. Two forced exports that both fail may
replace what the other took back.

The properties say under which condition the claim holds all the same: those of `gen_life` by
`stale` (a collection went by an outdated state) together with `left`, and the rollback part of `RetainedKept` by either, since
a directory that was left behind sorts last; `PolicyHeeded` by `outlived`; `PinnedIndexed` by `exposed`; `RoundEnds` is claimed where indexes and saves do not fail (`inbox_live`), as a poll refuses
for ever without an index that is gone;
`RefreshCovers` by `misled`; those of `AcquisitionDaemon` exclude a killed starter and a ping that fails, and one daemon
at a time is claimed until setups of two executables took turns (`displaced`); `meddled` marks a cancel command beside
a setup, and `MissedOnlyTorn` says that a cancel misses a checkpoint only where a save was interrupted or failed;
`OutputsKept` excepts `Collides`, the put-back of a second failed export; `InstallSafe` excepts `aside`; `MediaTrue`
claims a video of the cache verified up to its last check; and `Shrunk` excepts a database that has lost more
than one page.

## 4. What is proved

`RecordFileProofs` proves, for every set of readers, number of saves and number of crashes:

* `NothingUnpublished`: `Spec => []OnlyPublished /\ [][SeenByPublish]_vars`. A file holds, and a load
  returns, only a version whose save published it, whatever crashes or fails before and after; what comes to be
  seen is seen by that rename.
* `NeverStale`: `Spec => []LoadNeverStale`, for all three kinds of record. The inductive
  invariant `LoadInv` says that what a load has still to return (`floor`) is never above the
  current version, and that a load that goes on to the backup finds a version no older: every
  step of a writer leaves the backup gone, unchanged, or equal to the file moved.
* `CursorNeverLost`: `Spec => []CursorSurvives`, and `CursorImplementsRecord`: `Spec =>
  ImplementsRecord`. `CursorSurvives` alone is not inductive, as `RemoveBackup` may delete the
  only copy; `FilesInv` adds that past the restoring step a missing file means a missing backup,
  that the backup is older than the file, and that the version being saved is newer than both.

The assumptions are `KindsAssumption` and `BoundAssumption`.

`QueryProofs` proves, for every set of servers, builds, clients and ports and any number of
crashes and connections, from the invariant `Inv`:

* `OneDaemonListens`: `Spec => []OneListener`. `LockInv` says that a server between taking the
  lock and releasing it is the only holder, `PortInv` that only such a server listens; the order of
  the deferred calls (listener closed before the lock is released) makes the second inductive.
* `EndpointIsTrue`: `Spec => []EndpointTrue`. `EndpointInv` adds the steps after `serving`: the file
  names nobody who removed it, because nobody else could write it meanwhile.
* `AnswersAreNamed`: `Spec => []AnsweredByNamed`. `ClientInv` says that the token a connection carries is
  that of the endpoint its client read, also when the port belongs to another server by now, that a server
  which does not know the token refuses, and that a client that read an endpoint of another build only asks it to
  stop. What status and stop report of a refusal carries no status (`Takes`), so it names nobody.
* `StopDrains`: `Spec => []DrainedOnStop`. `WaitedInv` keeps a server that has waited from accepting.

The assumption is `DaemonAssumption`.

`QueryProofs` also proves, of the specification `QuerySpec` of `Queries`, for any scenes, connections, databases,
messages, sizes and limits, and from `QueryInv`, which is the invariant of whichever module the behaviour is of:

* `CacheIsTrue`: `QuerySpec => []CacheTrue`, from `CacheInv`. A reply is compared with what held when the request was
  read; by then anything may have been published, forgotten or cached by others. So the invariant says in each
  phase what is still known of that moment: that an account has lost an index since only with a newer
  `lost` (`SinceOK`), that the version a key was bound to is that of the request unless the request names
  another account than it reads (`BoundOK`, `KeyOK`), and that a key is never better than what is kept under it
  (`Suits`), which is what `Matches` guarantees and `MatchesAlways` breaks. `Grows` says how the world goes on under a
  request: versions and the clock only grow, and a valid index stays valid unless it is forgotten. `BookOK` is
  the bookkeeping: keys in the list are distinct and the counted bytes are the sum of the sizes.
* `LimitedQueriesAreTrue`: `QuerySpec => []QueriesTrue`, from `ListInv`: whatever was read and dropped is outranked
  by as many kept messages as the probe asks for (one more than the limit). Because the order is total and
  the kept ones are among what was read, cutting at the limit loses nothing that belongs to the answer, and one more than
  the limit is left exactly when there are more. No bound on databases or messages is used.
* `TextsAreTrue`: `QuerySpec => []TextsTrue`, from `TextInv`: a command has seen every version an image had while it
  ran (`Holds`), it makes texts of those only (`Makes`), a record's digest is that of what its text was made from (`Sound`),
  a file in the clear is about to be removed or told of (`Told`), and every voice is to do, without a text or
  found (`Left`), whatever else runs, changes an image, publishes or crashes.

The assumptions are `CacheAssumption` (a query names accounts there are, lengths and limits are numbers),
`TextsAssumption` (a bound), and `MessagesAssumption`: a snapshot has finitely many messages, and two with the same identity
that sort alike are one. The last is what `store.go` makes the identity from (`EvidenceID`: the chat with the identifier
the server gave the message, or its place in its database).

`AcquisitionDaemonProofs` proves, for every set of setups and daemons and any number of faults, from
the invariant `Inv`:

* `LockIsHeld`: `Spec => []LockHeld`. Whoever is in the startup lock is one of the setups between
  looking for the daemon and its answer, and no two setups are; no fault of the model takes
  the lock from a process that is alive.
* `OneKeyOneDaemon`: `Spec => []OneOfEach`. `KeyInv` says that only the creator of the key file writes
  it, and that a key in use is the one in the file unless a sync failed, which removes a file others
  may have read. `DaemonInv` holds as long as no setup was killed while it held the lock and no daemon failed to
  answer a ping (`Quiet`): the starter of a daemon that starts still polls for it; until setups of two
  executables took turns (`displaced`) a daemon that is ready is named by
  the endpoint, and none lives while a setup is about to remove the endpoint or to launch.
* `EndpointIsKept`: `Spec => EndpointKept`, the action property, from the same invariant: the removal
  comes after a look under the lock, and nobody launches between the look and the removal. It is about daemons the
  setup's own executable started, and holds whatever setups of another one do.

`Types` and `Singles` say what `TypeOK` says with cardinalities, in a form an inductive step can use;
`AtMostOne` leads back. The assumption is `MaxFaultsAssumption`; no bound is used.

`GenerationsProofs` proves, for every set of processes and databases and any number of generations and
crashes, from the invariant `Inv` (`BoundsAssumption`, `CommandsAssumption`):

* `RetainedStay`: `Spec => []RetainedKept`, for rollbacks that leave directories too. Its induction needs all of what a publication has under way:
  `LockInv` (whoever is in a locked section is the one process in `lock`), `OrderInv` (no committed
  generation lies between the rollback version and the current one), `WriterInv` (the base a publication
  staged on is still current, its new generation is the newest of all, and a collection that resolved
  another generation than the current one has set `stale`), and `DiskInv` (every directory is of a
  committed generation, of one in `left`, or of the publication under way). From these the two newest directories, which
  `retireSnapshots` and `gc` keep, are the current snapshot and its rollback version.
* `StateIsTrue`: `Spec => []StateAgrees`. `KeysInv` follows the credentials through a publication: a
  refresh that got past its check has them, a commit that will record the keychain has them, and a
  rollback that would delete them did not find them before, so that the state does not rely on them; and unless
  they outlived it, a state without keychain has none, so that no refresh resolved before a change of
  policy gets past its check (`PolicyHeeded`). A directory is of a committed generation or in `left`, and nothing in `left` is ever
  committed.
* `ForgetIsFinal`: `Spec => []ForgottenStays`. `ForgetInv` adds that no publication is past its lock when
  a forget is done; what a command resolved before does not let it go on.
* `CoverageStays`: `Spec => CoverageNeverShrinks`, from `CoverInv`: what was compared when the publication
  was staged still holds at its commit, because both generations and their coverage stay as they are.
  The proof found that the property was too strong as first stated. A guarded publication compares
  itself with the databases of the snapshot it replaces, and there is nothing to compare with where the
  directory of the current generation is missing, as after `gc_current_lost`; the instance of
  the run has too few generations to get there. The property now says so.
* `IndexStays`: `Spec => CurrentIndexKept`.

`InboxProofs` proves, for any consumers, clients, messages, batch limits, generations and faults, from
`LimitsAssumption`, `VersionsAssumption` (what a generation holds are versions) and `NumbersAssumption`:

* `NothingIsSkipped`: `Spec => []NothingSkipped`. `SkippedInv` says of a consumer that keeps its promise that
  it has seen what its cursor lies behind (`Seen`). Acknowledging moves the cursor over the batch that was printed,
  so the proof needs that what a client holds is what either file of the cursor would make of its
  identifier (`HeldInv`), that a batch is the first part of what remains, and that the two files never
  have different batches of one identifier (`CursorInv`), since a save that stops may leave either.
  `Largest` and the lemmas on batches say that the last message of a batch exists and that what remains
  after it is what remained before, less the batch.
* `ReplayIsIdentical`: `Spec => []ReplayIdentical`, from `HeldInv`.
* `PinnedStay`: `Spec => []PinnedIndexed`, whatever saves, deletions and index builds fail. The index
  is checked under one lock and the cursor created under another, so that with a refresh whose index failed
  a cursor begins without one; and the collection pins what the consumers' primary files name, not what a backup names
  that is alone. These are the consumers in `exposed`, until a poll finds the index. For all others the property is inductive
  beside `Inv`: a save that stops leaves the old cursor or the new one, both with their indexes (`IndexSaved`), and a
  collection keeps what a readable cursor names (`Collected`).

`AccountProofs` proves, from `ChunksAssumption`, `BoundsAssumption` and `PagesAssumption`, for every behaviour of the
composition:

* `NothingForeign`: `Spec => []NoResidue`. The invariant is at the end of `SavedSecrets`: a save works in the
  slot the manifest does not name, whose chunks it has deleted or, by index, written (`SaveInv`); from the commit on it
  touches the other slot only (`TidyInv`); a deletion that did not fail has left nothing outside what
  it has still to delete (`EraseInv`).
* `SecretsImplementRecord`: `Spec => ImplementsRecord`, the refinement, step by step: only `SetManifest` and a
  deletion change what a load under the lock returns, as the chunks a save writes or deletes are
  none the manifest names. At the commit they are all there.
* `RefreshIsCovered`: `Spec => []RefreshCovers`, for all databases, epochs and answers of the provider. It is
  inductive with the type of the world. `MinimalOpens` is the lemma about what setup keeps: single keys,
  a root or an override each still open every encrypted database they were used for, whether all the
  databases were verified (`BindVerified`) or some (`BindPartial`), except those in `misled`, whose override was kept
  although only the root opened them.

* `CopiesAreCommits`: `Spec => []CopyIsCommit`, for any number of pages, writes, checkpoints and attempts, from
  `CopyInv` at the end of `SourceCopy`. The copy has one moment at which both files were at rest: their
  stamps only grow, so what was read between two equal stamps is what the files have (`Tracks`). For
  that moment `SourceInv` says what the files are. The valid frames of the log are its live ones and
  maybe some behind them that commit nothing (`ChainOK`: a frame written over an older one breaks
  the chain of those behind it, and a new salt that of all); the main file with the committed ones
  over it is the last commit, before, while and after a checkpoint moves them
  (`LogOK`, `CheckpointOK`; `OverSame` and `OverTwice` say that pages that are moved already do not
  matter). No commit of the log is refused before one that fits: the frames between two commits
  have the pages that the second adds (`Grown`, counted in `GrowsByFrames`), and a commit that claims more
  than there is was of a database that has shrunk since (`Recorded`). `RestIsCopied` puts this together.

`LocalFilesProofs` proves, from `NamesAssumption`, `BoundsAssumption` and `VariantsAssumption`, for every
number of processes, places, files, calls, writes and clock ticks:

* `FilesStay`: `Spec => OutputsKept`, the action property, for any number of exports and of failing operations. `OutputInv`
  says that only a forced export has moved something away. With at most one failing operation, `RestoreInv` says that at
  most one export restores, and that nobody else has put the old file back at the path by then; with two, the only step
  that loses the old file is the put-back that `Collides` describes.
* `ConsentIsBound`: `Spec => []ConsentBound`. `HoldsLock` says that a call past its lock is alone there and
  goes by the generation that is published (until it writes its output), `HasChallenge` that a call at its
  request has a challenge which is consumed, agrees with it in candidate, message, output and generation, and led to no request. Challenges age, are
  pruned and are added; none is pending again, so consuming one is final (`OthersRely`).
* `PicturesAreTrue`: `Spec => []PictureTrue`. All is decided in one step, from what was found by then; the lemma
  `DecideExports` relates the choice of the best, the agreement of its rivals and what is said of better ones.
* `MediaAreTrue`: `Spec => []MediaTrue`. `MomentInv` follows the bytes: a file that was bound is among the
  best, which agree; what is to be written has the digest that is told up to the target, a video of the
  cache, which is opened once more, as long as the cache was not written to since its last check (`artifact.writes`); the network is used in one step, which a bound file never reaches.
* `InstallsAreSafe`: `Spec => []InstallSafe`. `SetupInv` says that what was installed is in its place or with a process
  that is about to publish or to give it back (`Holds`), unless it is `aside`, that such a process has something whole and
  verified (`Shape`), and that no old binary comes back unless a rename failed (`Checked`).

`ProviderProofs` proves, from `BoundsAssumption`, for any requests, cancel commands, lifetime, clock, daemons,
sessions, faults and restarts, and for any databases, reasons, actions and evidence:

* `ReportsAreTrue`: `Spec => []ReportsTrue`, `RestorationStays`: `Spec => RestorationKept`, and `HandoffStays`:
  `Spec => HandoffBound`, from the invariant `WorkflowInv` of the checkpoint. `FilesInv` says that the two files are
  of one workflow, that the backup expires no later than the file, and that a restoration in the backup is
  one in the file too; so what a load finds speaks for both (`LoadSpeaks`). `InspectInv` is what a setup
  found out before its acquisition and still relies on after it: nobody adds a checkpoint meanwhile, they are
  only removed and expire. `SaveInv` says that a draft continues all that is left of the pending workflow,
  with its expiry; `ReportInv` what a setup may report; `CancelInv` what a cancel command that no
  setup ran beside has removed already, and `TornInv` that without a fault and a restart there is a backup only within a save.
* `SessionsAreRight`: `Spec => []SessionsRight`, and `ResumeIsLeftSettled`: `Spec => ResumeSettled`, from
  `SessionInv`. `SessionLinks` says that a resume file names a daemon that was started and, as long as it runs,
  one of its sessions with the same scopes (`Bound`); sessions end, expire and ask for other things, but stay what
  they were opened for (`Continued`). `SessionAsked` adds that, without a fault, a record carries what its
  session asked last, outside the steps between an observation and the next save. `SessionEnds` says that nobody else ends
  the session of a setup that no cancel command disturbs.
* `AnswersAreJudged`: `Spec => []AnswersJudged`, and `EvidenceIsSupport`: `Spec => []EvidenceSupports`. The rules an
  answer has passed hold of the parts that were read (`ContractInv`, `EvidenceInv`); that the rules, which are far apart in
  the code, together imply what setup makes of an answer is the content of `CompleteIsDone`, `PublishedAreOurs`,
  `SipComesLast`, `ObservedAreFinal`, `RegisteredArePromoted` and `ScannedAreOwn`.

Liveness under fairness, ENABLED, recursion and induction over data are out of the prover's
reach: `RoundEnds`, `StopEnds` and `SetupEnds` are model-checked only.

## 5. Not modelled

* **Parsing**: message contents, statistics, sessions and contacts (`store/message_content.go`,
  `stats.go`), the identity of a message (`store/message_identity.go`), the listing of moments, official accounts and red packets are functions of an
  immutable snapshot without state, order or failure; a model of them would repeat their text. The
  same is true of the formats of descriptors, requests and endpoint files, of which the models keep
  what later steps depend on.
* **Cryptography**: a key opens a database or does not, a chain of checksums is intact or not.
* **The native OCR bridge**, the key provider and its daemon, WeChat, the CDN and the user are external.
* **Qualification of remote image candidates** (`store/chat_image_remote_qualification.go`) is a harness against a loopback
  server that no command calls, and a cipher, of which `RecoveryConsent` keeps whether an answer verifies.
* **WXGF qualification** is an offline tool beside the program; **platform discovery** and **runtime
  trust** are questions to the operating system.
* The build of an index inside its transaction, and the search query over it; the whitelist of commands
  of the query daemon; `ocr-file` and the transcripts `history` attaches; the installer's path for an
  unverified development binary.
* Errors that are told by wording only. An error in the middle of a history is the failure of that
  database, which is what its caller makes of it.
