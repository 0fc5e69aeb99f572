------------------------------ MODULE SourceCopy ------------------------------
(***************************************************************************)
(* How one database is taken from under a running WeChat.  The main file   *)
(* and its write-ahead log are copied one after the other, without a lock  *)
(* SQLite would honour, while WeChat commits, moves the log into the main  *)
(* file and starts the log again.  The copies are accepted when the files  *)
(* did not change meanwhile, by size and time, and what is published is    *)
(* the main file with the last commit of the log written over it.  WeChat  *)
(* and SQLite are external.  The identity, size, time and first page of a  *)
(* file are one stamp here, which every write changes; the page numbers    *)
(* start at 1, and a page is the number of the write that made it.  A      *)
(* frame names the frame before it, as the chain of checksums does.        *)
(***************************************************************************)
EXTENDS Naturals, Sequences, FiniteSetsExt, SequencesExt

CONSTANTS
  MaxPages,     \* bound on the size of the database
  MaxWrites,    \* bound on the frames written
  MaxRounds,    \* bound on the checkpoints
  MaxAttempts   \* how often stableCopy tries

VARIABLES
  main,     \* the main file: its pages and its stamp
  wal,      \* the log: its salt, its frames and its stamp
  live,     \* the frames of the log SQLite goes on from
  writes,   \* the frames written so far
  ckpt,     \* the checkpoint: the frames it moves and the pages it still has to write
  backfill, \* the frames of the log that are in the main file
  history,  \* what each commit made of the database
  begun,    \* the commits and the stamps there were when the copy began
  copy      \* the copy

source == <<main, wal, live, writes, ckpt, backfill, history>>
vars == <<main, wal, live, writes, ckpt, backfill, history, begun, copy>>

Init ==
  /\ \E n \in 1 .. MaxPages : main = [pages |-> [p \in 1 .. n |-> 0], stamp |-> 0]
  /\ wal = [salt |-> 0, frames |-> <<>>, stamp |-> 0]
  /\ live = 0 /\ writes = 0 /\ backfill = 0
  /\ ckpt = [of |-> 0, todo |-> {}, rounds |-> 0]
  /\ history = <<main.pages>>
  /\ begun = [commits |-> 1, main |-> 0, wal |-> 0]
  /\ copy = [at |-> "prove", attempt |-> 1]

----------------------------------------------------------------------------
(* Frames over pages, as SQLite and the program both read them. *)

\* The frames up to the last that commits.
Committed(frames) ==
  LET ends == {n \in DOMAIN frames : frames[n].size > 0}
  IN  SubSeq(frames, 1, Max(ends \union {0}))

\* The pages with the frames written over them and cut to the last commit's size.
Over(pages, frames) ==
  IF frames = <<>> THEN pages
  ELSE [p \in 1 .. Last(frames).size |->
          LET at == {n \in DOMAIN frames : frames[n].page = p}
          IN  IF at # {} THEN frames[Max(at)].value
              ELSE IF p \in DOMAIN pages THEN pages[p] ELSE 0]

----------------------------------------------------------------------------
(* WeChat: external. *)

\* The frames of the log that are committed.
Log == Committed(SubSeq(wal.frames, 1, live))

\* A frame goes behind the live ones, over what was there; what is behind it stays.
\* A commit that makes the database larger has written the pages it adds.
WriteFrame(p, size) ==
  /\ writes < MaxWrites
  /\ LET before == IF live = 0 THEN 0 ELSE wal.frames[live].value
         f == [salt |-> wal.salt, after |-> before, page |-> p, value |-> writes + 1, size |-> size]
         frames == SubSeq(wal.frames, 1, live) \o <<f>>
     IN  /\ wal' = [wal EXCEPT !.frames = frames \o SubSeq(@, live + 2, Len(@)), !.stamp = @ + 1]
         /\ live' = live + 1
         /\ IF size = 0 THEN UNCHANGED history
            ELSE /\ \A q \in Len(Last(history)) + 1 .. size :
                      \E n \in Len(Log) + 1 .. live + 1 : frames[n].page = q
                 /\ history' = history \o <<Over(main.pages, frames)>>
  /\ writes' = writes + 1
  /\ UNCHANGED <<main, ckpt, backfill, begun, copy>>

Rollback ==
  /\ live # Len(Log)
  /\ live' = Len(Log)
  /\ UNCHANGED <<main, wal, writes, ckpt, backfill, history, begun, copy>>

\* The frames committed so far are to be moved into the main file.
StartCheckpoint ==
  /\ ckpt.todo = {} /\ ckpt.rounds < MaxRounds
  /\ Len(Log) > backfill
  /\ ckpt' = [of |-> Len(Log), todo |-> DOMAIN Over(main.pages, Log), rounds |-> ckpt.rounds + 1]
  /\ UNCHANGED <<main, wal, live, writes, backfill, history, begun, copy>>

\* Pages are written in order; with the last one the file gets its size, unless
\* more was committed meanwhile.
CheckpointPage ==
  /\ ckpt.todo # {}
  /\ LET p == Min(ckpt.todo)
         image == Over(main.pages, SubSeq(wal.frames, 1, ckpt.of))
         written == [q \in DOMAIN main.pages \union {p} |-> IF q = p THEN image[p] ELSE main.pages[q]]
         last == ckpt.todo = {p} /\ ckpt.of = Len(Log)
     IN  /\ main' = [pages |-> IF last THEN image ELSE written, stamp |-> main.stamp + 1]
         /\ ckpt' = [ckpt EXCEPT !.todo = @ \ {p}]
         /\ backfill' = IF ckpt.todo = {p} THEN ckpt.of ELSE backfill
  /\ UNCHANGED <<wal, live, writes, history, begun, copy>>

\* Once all is moved, the log starts again with another salt; the old frames stay.
RestartLog ==
  /\ live # 0 /\ ckpt.todo = {} /\ live = backfill
  /\ wal' = [wal EXCEPT !.salt = @ + 1, !.stamp = @ + 1]
  /\ live' = 0 /\ backfill' = 0
  /\ UNCHANGED <<main, writes, ckpt, history, begun, copy>>

----------------------------------------------------------------------------
(* The copy: credentialDatabases, stableCopy and buildStage. *)

Fails == copy' = [at |-> "failed"]

\* The file goes into the catalog; validateCatalogProofNow finds it unchanged.
Prove ==
  /\ copy.at = "prove"
  /\ copy' = [at |-> "stat_main", attempt |-> 1, proof |-> main.stamp]
  /\ begun' = [commits |-> Len(history), main |-> main.stamp, wal |-> wal.stamp]
  /\ UNCHANGED source

StatMain ==
  /\ copy.at = "stat_main"
  /\ copy' = [at |-> "copy_main", attempt |-> copy.attempt, proof |-> copy.proof,
              before |-> main.stamp, pages |-> <<>>]
  /\ UNCHANGED <<source, begun>>

CopyMainPage ==
  /\ copy.at = "copy_main" /\ Len(copy.pages) < Len(main.pages)
  /\ copy' = [copy EXCEPT !.pages = @ \o <<main.pages[Len(copy.pages) + 1]>>]
  /\ UNCHANGED <<source, begun>>

\* A file that changed meanwhile is copied again.
EndMain ==
  /\ copy.at = "copy_main" /\ Len(copy.pages) >= Len(main.pages)
  /\ IF main.stamp = copy.before
     THEN copy' = [copy EXCEPT !.at = "check_main"]
     ELSE IF copy.attempt < MaxAttempts
          THEN copy' = [at |-> "stat_main", attempt |-> copy.attempt + 1, proof |-> copy.proof]
          ELSE Fails
  /\ UNCHANGED <<source, begun>>

\* Fault: that the file was copied whole is taken for enough.
UnchangedSinceCopy(before, proof) == TRUE

\* validateCatalogSource: the copy and the file are what the catalog proves.
UnchangedSince(before, proof) == before = proof /\ main.stamp = proof

CheckMain ==
  /\ copy.at \in {"check_main", "check_again"}
  /\ IF UnchangedSince(copy.before, copy.proof)
     THEN copy' = IF copy.at = "check_again"
                  THEN [copy EXCEPT !.at = "decrypt"]
                  ELSE [at |-> "stat_wal", attempt |-> 1, proof |-> copy.proof,
                        before |-> copy.before, pages |-> copy.pages]
     ELSE Fails
  /\ UNCHANGED <<source, begun>>

\* The header and some frames are read at one moment, the rest at another.
StatWal ==
  /\ copy.at = "stat_wal"
  /\ \E n \in 0 .. Len(wal.frames) :
       copy' = [at |-> "copy_wal", attempt |-> copy.attempt, proof |-> copy.proof,
                before |-> copy.before, pages |-> copy.pages, walBefore |-> wal.stamp,
                salt |-> wal.salt, frames |-> SubSeq(wal.frames, 1, n)]
  /\ UNCHANGED <<source, begun>>

EndWal ==
  /\ copy.at = "copy_wal"
  /\ IF wal.stamp = copy.walBefore
     THEN copy' = [copy EXCEPT !.at = "check_again",
                     !.frames = @ \o SubSeq(wal.frames, Len(@) + 1, Len(wal.frames))]
     ELSE IF copy.attempt < MaxAttempts
          THEN copy' = [at |-> "stat_wal", attempt |-> copy.attempt + 1, proof |-> copy.proof,
                        before |-> copy.before, pages |-> copy.pages]
          ELSE Fails
  /\ UNCHANGED <<source, begun>>

\* A frame is of the log with that salt and continues the frames before it.
Chained(frames, salt, n) ==
  /\ frames[n].salt = salt
  /\ frames[n].after = IF n = 1 THEN 0 ELSE frames[n - 1].value

\* scanWALFile: frames count as long as they have the header's salt and the chain holds.
ValidFrames ==
  LET frames == copy.frames
      broken == {n \in DOMAIN frames : ~Chained(frames, copy.salt, n)}
  IN  SubSeq(frames, 1, Min(broken \union {Len(frames) + 1}) - 1)

\* Fault: a commit may not claim more pages than the main file has.
FitsMain(frames, n) == frames[n].size <= Len(copy.pages)

\* A commit of more pages than the main file and the frames have is damage.
Fits(frames, n) == frames[n].size <= Len(copy.pages) + n

\* What is read before the first commit that cannot be.
Supported(frames) ==
  SubSeq(frames, 1, Min({n \in DOMAIN frames : ~Fits(frames, n)} \union {Len(frames) + 1}) - 1)

\* Fault: every frame is applied, committed or not.
AppliedAll(frames) == frames

\* Only the frames of the last commit and before are applied.
Applied(frames) == Committed(frames)

\* A damaged commit is an error only when no commit came before it.
Decrypt ==
  /\ copy.at = "decrypt"
  /\ LET frames == Supported(ValidFrames)
     IN  IF frames # ValidFrames /\ Committed(frames) = <<>>
         THEN Fails
         ELSE copy' = [at |-> "published", pages |-> Over(copy.pages, Applied(frames))]
  /\ UNCHANGED <<source, begun>>

Next ==
  \/ \E p \in 1 .. MaxPages, size \in 0 .. MaxPages : WriteFrame(p, size)
  \/ Rollback \/ StartCheckpoint \/ CheckpointPage \/ RestartLog
  \/ Prove \/ StatMain \/ CopyMainPage \/ EndMain \/ CheckMain \/ StatWal \/ EndWal \/ Decrypt

Spec == Init /\ [][Next]_vars

----------------------------------------------------------------------------
(* Properties. *)

\* A published database is what it was after one commit, never a mixture of two,
\* and that commit is not older than the copy: whatever WeChat writes, moves or
\* starts again while the two files are copied one after the other (the two calls
\* of validateCatalogSource in buildStage, scanWALFile).
PublishedIsCommit ==
  copy.at = "published" => \E n \in begun.commits .. Len(history) : copy.pages = history[n]

\* The database was once larger than it was after a later commit, by more pages
\* than one.
Shrunk == \E m, n \in DOMAIN history : m < n /\ Len(history[m]) > Len(history[n]) + 1

\* A database is only refused because it was written to while it was copied, or
\* because it has shrunk; any other at rest, after whatever WeChat last did to it,
\* is always taken, a log that makes the database larger and a checkpoint broken
\* off included (invalid_commit_size of scanWALFile, validateCatalogSource).
RefusedOnlyIfWritten ==
  copy.at = "failed" => main.stamp # begun.main \/ wal.stamp # begun.wal \/ Shrunk

----------------------------------------------------------------------------
(* The invariant these follow from: what the files and the log have of the *)
(* last commit, and what the copy has of them.                             *)

Frames == [salt : Nat, after : Nat, page : Nat, value : Nat, size : Nat]

FilesOK ==
  /\ main \in [pages : Seq(Nat), stamp : Nat]
  /\ wal \in [salt : Nat, frames : Seq(Frames), stamp : Nat]
  /\ live \in 0 .. Len(wal.frames) /\ writes \in Nat /\ backfill \in Nat
  /\ ckpt \in [of : Nat, todo : SUBSET Nat, rounds : Nat]
  /\ history \in Seq(Seq(Nat)) /\ history # <<>>

\* The live frames are a chain, and no commit behind them continues it.
ChainOK ==
  /\ \A n \in DOMAIN wal.frames :
       /\ wal.frames[n].salt <= wal.salt
       /\ wal.frames[n].after <= writes /\ wal.frames[n].value <= writes
  /\ \A n \in 1 .. live : Chained(wal.frames, wal.salt, n)
  /\ \A n \in live + 1 .. Len(wal.frames) :
       (\A k \in live + 1 .. n : Chained(wal.frames, wal.salt, k)) => wal.frames[n].size = 0

\* The live frames that commit.
Ends == {n \in 1 .. live : wal.frames[n].size > 0}

\* The pages a commit adds are in the frames since the commit before.
Grown ==
  \A i, j \in Ends : i < j =>
    \A q \in wal.frames[i].size + 1 .. wal.frames[j].size :
      \E n \in i + 1 .. j : wal.frames[n].page = q

\* The commits of the log are commits there were, in their order.
Recorded ==
  /\ \A i \in Ends : \E m \in DOMAIN history : Len(history[m]) = wal.frames[i].size
  /\ \A i, j \in Ends : i < j =>
       \E m, n \in DOMAIN history :
         m < n /\ Len(history[m]) = wal.frames[i].size /\ Len(history[n]) = wal.frames[j].size

\* The main file with the log is the last commit, and unless the database has
\* shrunk the log does not say more pages than there are.
LogOK ==
  /\ Over(main.pages, Log) = Last(history)
  /\ Grown /\ Recorded
  /\ \A i \in Ends : wal.frames[i].size <= Len(main.pages) + i \/ Shrunk

\* A checkpoint goes on through the pages of a commit; once it has moved all, the
\* main file is the last commit.
CheckpointOK ==
  /\ backfill <= Len(Log)
  /\ ckpt.todo # {} =>
       /\ ckpt.of \in Ends
       /\ \E q \in 1 .. wal.frames[ckpt.of].size :
            q <= Len(main.pages) + 1 /\ ckpt.todo = q .. wal.frames[ckpt.of].size
  /\ ckpt.todo = {} /\ backfill # 0 /\ backfill = Len(Log) => main.pages = Last(history)

\* What will be published is one commit since the copy began, or it is refused for
\* a database that has shrunk.
Copied ==
  LET frames == Supported(ValidFrames)
  IN  IF frames # ValidFrames /\ Committed(frames) = <<>> THEN Shrunk
      ELSE \E n \in begun.commits .. Len(history) : Over(copy.pages, Applied(frames)) = history[n]

Begun ==
  /\ begun \in [commits : Nat, main : Nat, wal : Nat]
  /\ begun.commits \in 1 .. Len(history)
  /\ begun.main <= main.stamp /\ begun.wal <= wal.stamp

AfterProve == [at : {"stat_main"}, attempt : Nat, proof : Nat]
OfMain == [at : {"copy_main", "check_main", "stat_wal"}, attempt : Nat, proof : Nat,
           before : Nat, pages : Seq(Nat)]
OfLog == [at : {"copy_wal", "check_again", "decrypt"}, attempt : Nat, proof : Nat, before : Nat,
          pages : Seq(Nat), walBefore : Nat, salt : Nat, frames : Seq(Frames)]

\* While the main file has the stamp it had at first, the copy has its pages; while
\* the log has, its frames.
Tracks ==
  /\ copy.at \in {"prove", "published", "failed"} \/ copy \in AfterProve \union OfMain \union OfLog
  /\ copy.at \notin {"prove", "published", "failed"} => copy.proof = begun.main
  /\ copy.at \notin {"prove", "stat_main", "published", "failed"} =>
       copy.proof <= copy.before /\ copy.before <= main.stamp
  /\ copy.at \in {"stat_wal", "copy_wal", "check_again", "decrypt"} => copy.before = copy.proof
  /\ copy.at = "copy_main" /\ main.stamp = copy.before =>
       Len(copy.pages) <= Len(main.pages) /\ copy.pages = SubSeq(main.pages, 1, Len(copy.pages))
  /\ copy.at \in {"check_main", "stat_wal", "copy_wal"} /\ main.stamp = copy.before =>
       copy.pages = main.pages
  /\ copy.at = "copy_wal" =>
       /\ begun.wal <= copy.walBefore /\ copy.walBefore <= wal.stamp
       /\ wal.stamp = copy.walBefore =>
            /\ copy.salt = wal.salt /\ Len(copy.frames) <= Len(wal.frames)
            /\ copy.frames = SubSeq(wal.frames, 1, Len(copy.frames))
  /\ copy.at = "check_again" /\ main.stamp = copy.proof => Copied
  /\ copy.at = "decrypt" => Copied

SourceInv == FilesOK /\ ChainOK /\ LogOK /\ CheckpointOK
CopyInv == SourceInv /\ Begun /\ Tracks /\ PublishedIsCommit /\ RefusedOnlyIfWritten
=============================================================================
