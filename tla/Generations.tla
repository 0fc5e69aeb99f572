---------------------------- MODULE Generations ----------------------------
(***************************************************************************)
(* The life of an account's snapshot generations.  setup and refresh build *)
(* a generation in a staging directory, publish it by a rename, store the  *)
(* credentials, index the messages, commit the account state that points   *)
(* to it and then clean up; gc removes what the retention policy does not  *)
(* keep; forget deletes everything.  Every command is a process of its     *)
(* own.  The account lock is not waited for: a command that finds it taken *)
(* ends with snapshot_busy.  refresh, gc and forget resolve the account    *)
(* before they take the lock; only what a command reads after that is      *)
(* sure to be current.                                                     *)
(*                                                                         *)
(* Generation identifiers start with a time stamp, so they are numbers     *)
(* here, in the order of their creation; 0 is no generation.  No consumer  *)
(* pins an index in this module (see Inbox).                               *)
(***************************************************************************)
EXTENDS Naturals, FiniteSets

CONSTANTS
  Procs,        \* processes that run commands
  Commands,     \* the commands they run
  Databases,    \* the account's source databases
  MaxGen,       \* bound on the number of generations started
  MaxFaults     \* bound on the number of commands that are interrupted, or that
                \* cannot remove what they wrote

ASSUME CommandsAssumption ==
  Commands \subseteq {"setup", "refresh", "gc", "forget", "index"}
ASSUME BoundsAssumption == MaxGen \in Nat /\ MaxFaults \in Nat

VARIABLES
  state,      \* the account state: the current generation and the storage policy
  previous,   \* the generation that was current before, 0 when there is none
  snaps,      \* generations whose snapshot directory exists
  stage,      \* generations whose staging directory exists
  indexes,    \* generations whose derived message index exists
  coverage,   \* the databases each generation holds
  secrets,    \* the system keychain holds credentials of the account
  lock,       \* the process that holds the account lock, or {} for none
  proc,       \* what each process is doing
  started,    \* the last generation started
  committed,  \* generations that have been current since the account was set up
  stale,      \* a collection went by a state that was no longer the current one
  forgetting, \* "no"; "started" once a forget has deleted the credentials; "done"
  faults,
  left,       \* generations a publication left behind: it was interrupted, or
              \* could not remove what it had written
  outlived    \* credentials stayed although the state does not rely on them: a
              \* deletion failed or never ran, or new ones could not replace them

fileVars == <<snaps, stage, indexes, coverage>>
ghosts == <<left, outlived>>
vars == <<state, previous, snaps, stage, indexes, coverage, secrets, lock, proc,
          started, committed, stale, forgetting, faults, ghosts>>

Gens == 1..MaxGen
NoState == [gen |-> 0, storage |-> "none"]
Idle == [at |-> "idle", cmd |-> "none", value |-> 0, base |-> 0, new |-> 0,
         storage |-> "none", guard |-> FALSE, had |-> FALSE]

Init ==
  /\ state = NoState /\ previous = 0
  /\ snaps = {} /\ stage = {} /\ indexes = {}
  /\ coverage = [g \in Gens |-> {}]
  /\ secrets = FALSE
  /\ lock = {}
  /\ proc = [p \in Procs |-> Idle]
  /\ started = 0 /\ committed = {}
  /\ stale = FALSE /\ forgetting = "no"
  /\ faults = 0
  /\ left = {} /\ outlived = FALSE

At(p, step) == proc[p].at = step
Goto(p, step) == proc' = [proc EXCEPT ![p].at = step]
Finish(p) == proc' = [proc EXCEPT ![p] = Idle] /\ lock' = lock \ {p}

\* Fault: the names are sorted the other way.
RetainOldest(gens, g) == {h \in gens : h = g \/ \A k \in gens \ {g} : h <= k}

\* The generations a collection with current generation g keeps: g itself and
\* the one of the others whose name sorts last.
Retain(gens, g) ==
  {h \in gens : h = g \/ \A k \in gens \ {g} : k <= h}

\* A publication that fails leaves these generations behind.
Leaves(gens) ==
  /\ left' = left \cup gens
  /\ IF gens = {} THEN UNCHANGED faults ELSE faults < MaxFaults /\ faults' = faults + 1

\* What is left of gens when all but keep are removed one by one, until one
\* removal fails.
Removals(gens, keep) == {rest \in SUBSET gens : gens \cap keep \subseteq rest}
-----------------------------------------------------------------------------
(* Resolving the account and taking its lock. *)

\* refresh, gc and forget read the state without the lock; refresh goes on only
\* with credentials in the keychain.
Resolve(p, cmd) ==
  /\ cmd \in Commands \cap {"refresh", "gc", "forget"}
  /\ At(p, "idle")
  /\ state # NoState
  /\ cmd = "refresh" => state.storage = "keychain"
  /\ proc' = [proc EXCEPT ![p].at = "resolved", ![p].cmd = cmd, ![p].value = state.gen]
  /\ UNCHANGED <<state, previous, fileVars, secrets, lock, started, committed, stale, forgetting, faults, ghosts>>

\* snapshot_busy
Busy(p) ==
  /\ At(p, "resolved")
  /\ lock # {}
  /\ Finish(p)
  /\ UNCHANGED <<state, previous, fileVars, secrets, started, committed, stale, forgetting, faults, ghosts>>

StartSetup(p) ==
  /\ "setup" \in Commands
  /\ At(p, "idle")
  /\ lock = {}
  /\ lock' = {p}
  /\ \E storage \in {"keychain", "snapshot-only"}, guard \in BOOLEAN :
       proc' = [proc EXCEPT ![p] = [Idle EXCEPT !.at = "build", !.cmd = "setup",
                                                !.storage = storage, !.guard = guard]]
  /\ forgetting' = IF forgetting = "done" THEN "no" ELSE forgetting
  /\ UNCHANGED <<state, previous, fileVars, secrets, started, committed, stale, faults, ghosts>>

\* Fault: refresh does not look for the saved credentials under the lock.
LockRefreshBlindly(p) ==
  /\ At(p, "resolved") /\ proc[p].cmd = "refresh"
  /\ lock = {} /\ lock' = {p}
  /\ proc' = [proc EXCEPT ![p].at = "build", ![p].storage = "keychain", ![p].guard = TRUE]
  /\ UNCHANGED <<state, previous, fileVars, secrets, started, committed, stale, forgetting, faults, ghosts>>

\* The saved credentials are loaded under the lock; without them refresh stops.
LockRefresh(p) ==
  /\ At(p, "resolved") /\ proc[p].cmd = "refresh"
  /\ lock = {}
  /\ IF secrets
       THEN /\ lock' = {p}
            /\ proc' = [proc EXCEPT ![p].at = "build", ![p].storage = "keychain",
                                    ![p].guard = TRUE]
       ELSE Finish(p)
  /\ UNCHANGED <<state, previous, fileVars, secrets, started, committed, stale, forgetting, faults, ghosts>>
-----------------------------------------------------------------------------
(* publishAccountSnapshot, under the lock. *)

\* Fault: a refresh takes the state it resolved before the lock as its baseline.
StageOnResolved(p) ==
  /\ At(p, "build") /\ started < MaxGen
  /\ started' = started + 1 /\ stage' = {started + 1}
  /\ proc' = [proc EXCEPT ![p].at = "staged", ![p].new = started + 1,
                ![p].base = IF proc[p].cmd = "refresh" THEN proc[p].value ELSE state.gen]
  /\ UNCHANGED <<state, previous, snaps, indexes, coverage, secrets, lock, committed,
                 stale, forgetting, faults, ghosts>>

\* The baseline is the state as it is now; leftover staging directories go.
Stage(p) ==
  /\ At(p, "build")
  /\ started < MaxGen
  /\ started' = started + 1
  /\ stage' = {started + 1}
  /\ proc' = [proc EXCEPT ![p].at = "staged", ![p].base = state.gen, ![p].new = started + 1]
  /\ UNCHANGED <<state, previous, snaps, indexes, coverage, secrets, lock, committed,
                 stale, forgetting, faults, ghosts>>

\* comparePublishedCoverage: a baseline whose directory is missing has no databases.
Covers(dbs, base) == base \in snaps => coverage[base] \subseteq dbs

\* Some databases were decrypted, enough of them, and the rename publishes them.
Publish(p) ==
  /\ At(p, "staged")
  /\ \E dbs \in SUBSET Databases \ {{}} :
       /\ proc[p].guard => Covers(dbs, proc[p].base)
       /\ coverage' = [coverage EXCEPT ![proc[p].new] = dbs]
  /\ snaps' = snaps \cup {proc[p].new}
  /\ stage' = {}
  /\ Goto(p, "secrets")
  /\ UNCHANGED <<state, previous, indexes, secrets, lock, started, committed, stale, forgetting, faults, ghosts>>

\* A publication that fails before it published: no baseline can be read, old
\* staging cannot be removed, no database decrypted, catalog drift, coverage
\* regression, a failed rename.  The staging directory goes, if it can be removed.
Reject(p) ==
  /\ At(p, "build") \/ At(p, "staged")
  /\ stage' \in SUBSET stage
  /\ Leaves(stage' \cap {proc[p].new})
  /\ Finish(p)
  /\ UNCHANGED <<state, previous, snaps, indexes, coverage, secrets, started, committed,
                 stale, forgetting, outlived>>

\* Only setup stores credentials; a keychain that cannot be read or written
\* turns the policy into snapshot-only.
SaveSecrets(p) ==
  /\ At(p, "secrets")
  /\ \E ok \in BOOLEAN :
       LET save == proc[p].cmd = "setup" /\ proc[p].storage = "keychain" IN
       /\ secrets' = (secrets \/ (save /\ ok))
       /\ proc' = [proc EXCEPT ![p].at = "index", ![p].had = secrets,
                    ![p].storage = IF save /\ ~ok THEN "unsaved" ELSE @]
  /\ UNCHANGED <<state, previous, fileVars, lock, started, committed, stale, forgetting, faults, ghosts>>

\* messageindex.Build, whose failure is a warning
BuildIndex(p) ==
  /\ At(p, "index")
  /\ indexes' \in {indexes, indexes \cup {proc[p].new}}
  /\ Goto(p, "commit")
  /\ UNCHANGED <<state, previous, snaps, stage, coverage, secrets, lock, started, committed,
                 stale, forgetting, faults, ghosts>>

\* Fault: a failed keychain write is not turned into a policy of the state.
PolicyUnsaved(p) == proc[p].storage

\* The policy the state records: "unsaved" is snapshot-only as well.
Policy(p) == IF proc[p].storage = "keychain" THEN "keychain" ELSE "snapshot-only"

\* state.Save
Commit(p) ==
  /\ At(p, "commit")
  /\ state' = [gen |-> proc[p].new, storage |-> Policy(p)]
  /\ previous' = proc[p].base
  /\ committed' = committed \cup {proc[p].new}
  /\ forgetting' = "no"
  /\ outlived' = (outlived \/ (proc[p].storage = "unsaved" /\ secrets))
  /\ Goto(p, "retire")
  /\ UNCHANGED <<fileVars, secrets, lock, started, stale, faults, left>>

\* Fault: the rollback deletes the credentials although there were some before.
RollbackDeletes(p) ==
  /\ At(p, "commit")
  /\ secrets' = (secrets /\ proc[p].cmd # "setup")
  /\ indexes' = indexes \ {proc[p].new} /\ snaps' = snaps \ {proc[p].new}
  /\ UNCHANGED ghosts
  /\ Finish(p)
  /\ UNCHANGED <<state, previous, stage, coverage, started, committed, stale, forgetting, faults>>

\* Fault: the rollback leaves the derived index.
RollbackLeavesIndex(p) ==
  /\ At(p, "commit")
  /\ snaps' = snaps \ {proc[p].new}
  /\ UNCHANGED ghosts
  /\ Finish(p)
  /\ UNCHANGED <<state, previous, stage, indexes, coverage, secrets, started, committed,
                 stale, forgetting, faults>>

\* state.Save fails: the credentials this setup stored are rolled back, then the
\* derived index and the snapshot are removed; any of the three may fail.
CommitFails(p) ==
  /\ At(p, "commit")
  /\ IF proc[p].cmd = "setup" /\ proc[p].storage = "keychain" /\ ~proc[p].had
       THEN secrets' \in BOOLEAN /\ outlived' = (outlived \/ secrets')
       ELSE UNCHANGED <<secrets, outlived>>
  /\ indexes' \in {indexes, indexes \ {proc[p].new}}
  /\ snaps' \in {snaps, snaps \ {proc[p].new}}
  /\ Leaves({proc[p].new} \cap (indexes' \cup snaps'))
  /\ Finish(p)
  /\ UNCHANGED <<state, previous, stage, coverage, started, committed, stale, forgetting>>

\* setup --storage snapshot-only deletes credentials stored earlier; it may fail.
RetireSecrets(p) ==
  /\ At(p, "retire")
  /\ IF proc[p].cmd = "setup" /\ proc[p].storage = "snapshot-only"
       THEN secrets' \in {FALSE, secrets} /\ outlived' = (outlived \/ secrets')
       ELSE UNCHANGED <<secrets, outlived>>
  /\ Goto(p, "clean")
  /\ UNCHANGED <<state, previous, fileVars, lock, started, committed, stale, forgetting, faults, left>>

\* Fault: the new generation alone is kept.
CleanKeepsNew(p) ==
  /\ At(p, "clean")
  /\ snaps' = snaps \cap {proc[p].new}
  /\ Goto(p, "derived")
  /\ UNCHANGED <<state, previous, stage, indexes, coverage, secrets, lock, started, committed,
                 stale, forgetting, faults, ghosts>>

\* CleanupGenerations keeps the new generation and its baseline; a failure is a warning.
CleanSnapshots(p) ==
  /\ At(p, "clean")
  /\ snaps' \in Removals(snaps, {proc[p].new, proc[p].base})
  /\ Goto(p, "derived")
  /\ UNCHANGED <<state, previous, stage, indexes, coverage, secrets, lock, started, committed,
                 stale, forgetting, faults, ghosts>>

\* Its failure is a warning as well.
CleanIndexes(p) ==
  /\ At(p, "derived")
  /\ indexes' \in Removals(indexes, Retain(indexes, proc[p].new))
  /\ Finish(p)
  /\ UNCHANGED <<state, previous, snaps, stage, coverage, secrets, started, committed,
                 stale, forgetting, faults, ghosts>>
-----------------------------------------------------------------------------
(* gc, forget, index build and interruptions. *)

\* gc goes by the state it resolved before it took the lock; it stops at the
\* first directory it cannot remove.
GcSnapshots(p) ==
  /\ At(p, "resolved") /\ proc[p].cmd = "gc"
  /\ lock = {}
  /\ \/ /\ stage' = {} /\ snaps' = Retain(snaps, proc[p].value)
        /\ lock' = {p} /\ Goto(p, "collect")
     \/ /\ stage' \in SUBSET stage
        /\ snaps' \in Removals(snaps, Retain(snaps, proc[p].value))
        /\ Finish(p)
  /\ stale' = (stale \/ proc[p].value # state.gen)
  /\ UNCHANGED <<state, previous, indexes, coverage, secrets, started, committed, forgetting, faults, ghosts>>

\* Fault: gc retains no index but that of the generation it resolved.
GcRetainsNone(p) ==
  /\ At(p, "collect")
  /\ indexes' = indexes \cap {proc[p].value}
  /\ Finish(p)
  /\ UNCHANGED <<state, previous, snaps, stage, coverage, secrets, started, committed,
                 stale, forgetting, faults, ghosts>>

GcIndexes(p) ==
  /\ At(p, "collect")
  /\ indexes' \in Removals(indexes, Retain(indexes, proc[p].value))
  /\ Finish(p)
  /\ UNCHANGED <<state, previous, snaps, stage, coverage, secrets, started, committed,
                 stale, forgetting, faults, ghosts>>

\* The credentials go first; if that fails, and it may fail with the manifest
\* gone, no snapshot is deleted.
ForgetSecrets(p) ==
  /\ At(p, "resolved") /\ proc[p].cmd = "forget"
  /\ lock = {}
  /\ \/ /\ secrets' = FALSE
        /\ forgetting' = IF forgetting = "done" THEN "done" ELSE "started"
        /\ lock' = {p} /\ Goto(p, "forget")
     \/ /\ secrets' \in {FALSE, secrets}
        /\ forgetting' = IF secrets' = secrets THEN forgetting ELSE "started"
        /\ Finish(p)
  /\ UNCHANGED <<state, previous, fileVars, started, committed, stale, faults, ghosts>>

\* The account directory is renamed away as a whole; the rename may fail.
ForgetData(p) ==
  /\ At(p, "forget")
  /\ \/ /\ state' = NoState /\ previous' = 0
        /\ snaps' = {} /\ stage' = {} /\ indexes' = {} /\ committed' = {}
        /\ coverage' = [g \in Gens |-> {}]
        /\ forgetting' = "done"
     \/ UNCHANGED <<state, previous, fileVars, committed, forgetting>>
  /\ Finish(p)
  /\ UNCHANGED <<secrets, started, stale, faults, ghosts>>

\* index build, and new-messages before it polls: the account is resolved again
\* under the lock, which is released before anything else happens.
IndexCurrent(p) ==
  /\ "index" \in Commands
  /\ At(p, "idle") /\ lock = {}
  /\ state.gen \in snaps
  /\ indexes' = indexes \cup {state.gen}
  /\ UNCHANGED <<state, previous, snaps, stage, coverage, secrets, lock, proc, started,
                 committed, stale, forgetting, faults, ghosts>>

\* A process ends in the middle of a command and the system releases its lock.
Crash(p) ==
  /\ p \in lock
  /\ faults < MaxFaults
  /\ faults' = faults + 1
  /\ left' = left \cup (({proc[p].new} \cap (snaps \cup stage \cup indexes)) \ committed)
  /\ outlived' = (outlived \/ (secrets /\ proc[p].at \in {"index", "commit", "retire"}))
  /\ Finish(p)
  /\ UNCHANGED <<state, previous, fileVars, secrets, started, committed, stale, forgetting>>

Next ==
  \E p \in Procs :
    \/ \E cmd \in Commands : Resolve(p, cmd)
    \/ Busy(p) \/ StartSetup(p) \/ LockRefresh(p)
    \/ Stage(p) \/ Publish(p) \/ Reject(p) \/ SaveSecrets(p) \/ BuildIndex(p)
    \/ Commit(p) \/ CommitFails(p) \/ RetireSecrets(p)
    \/ CleanSnapshots(p) \/ CleanIndexes(p)
    \/ GcSnapshots(p) \/ GcIndexes(p)
    \/ ForgetSecrets(p) \/ ForgetData(p)
    \/ IndexCurrent(p) \/ Crash(p)

Spec == Init /\ [][Next]_vars
-----------------------------------------------------------------------------
Locals ==
  [at : {"idle", "resolved", "build", "staged", "secrets", "index", "commit", "retire",
         "clean", "derived", "collect", "forget"},
   cmd : {"none", "setup", "refresh", "gc", "forget"},
   value : 0..MaxGen, base : 0..MaxGen, new : 0..MaxGen,
   storage : {"none", "keychain", "snapshot-only", "unsaved"},
   guard : BOOLEAN, had : BOOLEAN]

TypeOK ==
  /\ state \in [gen : 0..MaxGen, storage : {"none", "keychain", "snapshot-only"}]
  /\ previous \in 0..MaxGen
  /\ snaps \subseteq Gens /\ stage \subseteq Gens /\ indexes \subseteq Gens
  /\ coverage \in [Gens -> SUBSET Databases]
  /\ secrets \in BOOLEAN
  /\ lock \subseteq Procs
  /\ proc \in [Procs -> Locals]
  /\ started \in 0..MaxGen /\ committed \subseteq Gens
  /\ stale \in BOOLEAN
  /\ forgetting \in {"no", "started", "done"}
  /\ faults \in 0..MaxFaults
  /\ left \subseteq Gens /\ outlived \in BOOLEAN

\* The snapshot the account state points to exists: no publication, failed
\* commit, cleanup or crash leaves the state pointing to a missing directory,
\* and neither does a gc that resolved another generation than the current one,
\* unless a publication has left a directory behind as well.
CurrentKept ==
  (~stale \/ left = {}) /\ state.gen # 0 => state.gen \in snaps

\* The same whatever gc resolved: "gc keeps the current generation".
GcKeepsCurrent == state.gen # 0 => state.gen \in snaps

\* The snapshot that was current before the last publication is kept as the
\* rollback version, which queries that resolved it without the lock still read,
\* as long as no gc goes by an outdated state or finds the directory that a
\* publication has left behind.
RollbackKept == ~stale /\ left = {} /\ previous # 0 => previous \in snaps

\* A state that says the credentials are in the keychain is right: setup, its
\* failures and rollbacks, and snapshot-only setups never leave it without them.
KeychainStateHasSecrets ==
  state.storage = "keychain" /\ forgetting = "no" => secrets

\* After forget has deleted the account, nothing of it exists until a new setup
\* starts, whatever commands had resolved the account before.
ForgottenStays ==
  forgetting = "done" =>
    /\ state = NoState /\ ~secrets
    /\ snaps = {} /\ stage = {} /\ indexes = {}

\* When no command runs, every snapshot and index belongs to a generation that was
\* committed, or to a publication that was interrupted or could not remove it: a
\* rejected or failed one leaves nothing else behind, and what is left behind is
\* never current.
OnlyCommitted ==
  /\ lock = {} => snaps \cup indexes \subseteq committed \cup left /\ stage \subseteq left
  /\ left \cap (committed \cup {state.gen}) = {}

\* A refresh that resolved the account before a setup turned its policy into
\* snapshot-only does not publish over it and turn it back: the keychain has
\* nothing for it, unless the credentials outlived that setup.
PolicyHeeded ==
  \A p \in Procs :
    proc[p].cmd = "refresh" /\ proc[p].at \in {"build", "staged", "secrets", "index", "commit"}
      => state.storage = "keychain" \/ outlived

\* What queries may read is there: the current snapshot, and the one before it.
RetainedKept == CurrentKept /\ RollbackKept

\* Whatever failed, the state, the credentials and the directories agree: the state
\* names its storage rightly, no refresh undoes it, and what is on the disk was
\* committed or is known to have been left behind.
StateAgrees == TypeOK /\ KeychainStateHasSecrets /\ OnlyCommitted /\ PolicyHeeded

\* A publication that guards the coverage never replaces the current generation
\* by one that lacks one of its databases, although another command may have
\* published between its resolving the account and its locking it.  A current
\* generation without its directory (see GcKeepsCurrent) has none to lack.
CoverageNeverShrinks ==
  [][\A p \in Procs :
       proc[p].guard /\ Commit(p) /\ state.gen \in snaps
         => coverage[state.gen] \subseteq coverage[state'.gen]]_vars

\* The message index of the current generation is not removed while that
\* generation stays current, under the condition of CurrentKept.
CurrentIndexKept ==
  [][(~stale' \/ left = {}) /\ state.gen \in indexes /\ state' = state
       => state.gen \in indexes']_vars
=============================================================================
