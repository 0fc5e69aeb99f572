--------------------------- MODULE GenerationsProofs ---------------------------
(***************************************************************************)
(* Proofs for Generations: for any processes, databases and bounds, what   *)
(* queries may read is kept, the state agrees with the credentials and the *)
(* directories, forget is final, and a guarded publication covers what it  *)
(* replaces.  Inv says who is in a command (LockInv), in which order       *)
(* generations are (OrderInv), what a command under the lock knows         *)
(* (WriterInv) and, part by part, what it has done to the directories      *)
(* (DiskInv, KeptInv, CoverInv) and to the keychain (KeysInv, PolicyInv,    *)
(* ForgetInv).                                                             *)
(***************************************************************************)
EXTENDS Generations, TLAPS

\* The steps of a command that has the lock.
Publishing == {"build", "staged", "secrets", "index", "commit"}
Cleaning == {"retire", "clean", "derived"}
Locked == Publishing \union Cleaning \union {"collect", "forget"}

\* The steps at which the new generation has a directory and is not current.
Unsettled == {"secrets", "index", "commit"}

\* Who is in a locked section has the lock, and nobody else does.
LockInv ==
  /\ lock = {p \in Procs : proc[p].at \in Locked}
  /\ \A p, q \in lock : p = q

\* No generation that was current is newer than the current one, and no other one
\* is newer than the rollback version.
OrderInv ==
  /\ \A g \in committed : g <= state.gen /\ (g = state.gen \/ g <= previous)
  /\ previous <= state.gen /\ state.gen <= started

\* Under the lock the current generation is the one a command found when it staged
\* or published, and the new one is the newest of all.
WriterInv ==
  \A p \in Procs :
    /\ proc[p].at \in Publishing \union Cleaning => proc[p].cmd \in {"setup", "refresh"}
    /\ proc[p].at \in {"staged"} \union Unsettled =>
         proc[p].base = state.gen /\ proc[p].new = started /\ state.gen < proc[p].new
    /\ proc[p].at \in Unsettled => proc[p].new \in snaps
    /\ proc[p].at \in Cleaning =>
         /\ state = [gen |-> proc[p].new, storage |-> Policy(p)]
         /\ previous = proc[p].base
    /\ proc[p].at = "collect" /\ ~stale => proc[p].value = state.gen

\* What is on the disk was current, belongs to the publication that is going on, or
\* was left behind by one that ended, which was never current.
DiskInv ==
  /\ \A g \in snaps \union indexes :
       \/ g \in committed \union left
       \/ \E p \in Procs : proc[p].at \in Unsettled /\ g = proc[p].new
  /\ \A g \in stage :
       g \in left \/ \E p \in Procs : proc[p].at = "staged" /\ g = proc[p].new
  /\ state.gen \in committed \union {0}
  /\ \A g \in left : g <= started /\ g \notin committed
  /\ \A p \in Procs : proc[p].at \in {"staged"} \union Unsettled => proc[p].new \notin left

KeptInv == CurrentKept /\ RollbackKept

\* What a publication that guards the coverage has compared still holds.
CoverInv ==
  \A p \in Procs :
    proc[p].at \in Unsettled /\ proc[p].guard /\ state.gen \in snaps
      => coverage[state.gen] \subseteq coverage[proc[p].new]

\* A refresh goes on only with credentials, a commit records the keychain only with
\* them, and a rollback deletes none that the state relies on.
KeysInv ==
  /\ KeychainStateHasSecrets
  /\ \A p \in Procs :
       /\ proc[p].at \in {"build", "staged", "secrets"} /\ proc[p].cmd = "refresh" => secrets
       /\ proc[p].at \in {"index", "commit"} /\ proc[p].storage = "keychain" => secrets
       /\ proc[p].at \in {"index", "commit"} /\ ~proc[p].had =>
            ~(state.storage = "keychain" /\ forgetting = "no")
       /\ proc[p].at = "forget" => ~secrets

\* Credentials the state does not rely on are those of a setup that is about to commit
\* or to retire them; a refresh publishes over the policy it relies on.
PolicyInv ==
  /\ PolicyHeeded
  /\ \A p \in Procs :
       proc[p].at \in Publishing =>
         /\ proc[p].storage \in {"keychain", "snapshot-only", "unsaved"}
         /\ proc[p].cmd = "refresh" => proc[p].storage = "keychain"
  /\ secrets /\ ~outlived =>
       \/ state.storage = "keychain"
       \/ \E p \in Procs :
            /\ proc[p].cmd = "setup"
            /\ \/ proc[p].at \in {"index", "commit"} /\ proc[p].storage = "keychain" /\ ~proc[p].had
               \/ proc[p].at = "retire" /\ proc[p].storage = "snapshot-only"

\* After a forget nobody publishes or cleans up.
ForgetInv ==
  /\ ForgottenStays
  /\ forgetting = "done" => \A p \in Procs : proc[p].at \notin Publishing \union Cleaning

Inv ==
  /\ TypeOK /\ LockInv /\ OrderInv /\ WriterInv /\ DiskInv /\ KeptInv /\ CoverInv
  /\ KeysInv /\ PolicyInv /\ ForgetInv

-----------------------------------------------------------------------------
(* The invariant is inductive. *)

\* No process keeps anything when it ends.
LEMMA IdleType == Idle \in Locals
BY BoundsAssumption DEF Idle, Locals

\* Nothing is there yet.
LEMMA InvInit == Init => Inv
<1> SUFFICES ASSUME Init PROVE Inv
  OBVIOUS
<1> USE DEF Init, NoState
<1>1. TypeOK
  <2>1. proc \in [Procs -> Locals]
    BY IdleType
  <2>2. state \in [gen : 0..MaxGen, storage : {"none", "keychain", "snapshot-only"}]
    BY BoundsAssumption
  <2>3. coverage \in [Gens -> SUBSET Databases]
    OBVIOUS
  <2>4. /\ previous \in 0..MaxGen /\ started \in 0..MaxGen /\ faults \in 0..MaxFaults
        /\ snaps \subseteq Gens /\ stage \subseteq Gens /\ indexes \subseteq Gens
        /\ committed \subseteq Gens /\ lock \subseteq Procs
    BY BoundsAssumption
  <2>5. secrets \in BOOLEAN /\ stale \in BOOLEAN /\ outlived \in BOOLEAN /\ left \subseteq Gens
    OBVIOUS
  <2>6. forgetting \in {"no", "started", "done"}
    OBVIOUS
  <2> QED
    BY <2>1, <2>2, <2>3, <2>4, <2>5, <2>6 DEF TypeOK
<1>2. LockInv /\ OrderInv /\ WriterInv /\ DiskInv /\ CoverInv
  BY BoundsAssumption DEF Idle, LockInv, OrderInv, WriterInv, DiskInv, CoverInv, Publishing,
     Cleaning, Locked, Unsettled
<1>3. KeptInv /\ KeysInv /\ PolicyInv /\ ForgetInv
  BY DEF Idle, PolicyInv, PolicyHeeded, KeptInv, CurrentKept, RollbackKept, KeysInv, KeychainStateHasSecrets,
         ForgetInv, ForgottenStays, Publishing, Cleaning
<1> QED
  BY <1>1, <1>2, <1>3 DEF Inv

\* The values a process takes along when it resolves, starts, stages or stores.
LEMMA LocalsClosed ==
  ASSUME NEW r \in Locals
  PROVE  /\ \A cmd \in {"refresh", "gc", "forget"}, g \in 0..MaxGen :
              [r EXCEPT !.at = "resolved", !.cmd = cmd, !.value = g] \in Locals
         /\ \A storage \in {"keychain", "snapshot-only"}, guard \in BOOLEAN :
              [r EXCEPT !.at = "build", !.cmd = "setup", !.storage = storage, !.guard = guard] \in Locals
         /\ [r EXCEPT !.at = "build", !.storage = "keychain", !.guard = TRUE] \in Locals
         /\ \A g, h \in 0..MaxGen : [r EXCEPT !.at = "staged", !.base = g, !.new = h] \in Locals
         /\ \A had \in BOOLEAN, storage \in {"unsaved", r.storage} :
              [r EXCEPT !.at = "index", !.had = had, !.storage = storage] \in Locals
<1>1. ASSUME NEW cmd \in {"refresh", "gc", "forget"}, NEW g \in 0..MaxGen
      PROVE  [r EXCEPT !.at = "resolved", !.cmd = cmd, !.value = g] \in Locals
  BY DEF Locals
<1>2. ASSUME NEW storage \in {"keychain", "snapshot-only"}, NEW guard \in BOOLEAN
      PROVE  [r EXCEPT !.at = "build", !.cmd = "setup", !.storage = storage, !.guard = guard] \in Locals
  BY DEF Locals
<1>3. [r EXCEPT !.at = "build", !.storage = "keychain", !.guard = TRUE] \in Locals
  BY DEF Locals
<1>4. ASSUME NEW g \in 0..MaxGen, NEW h \in 0..MaxGen
      PROVE  [r EXCEPT !.at = "staged", !.base = g, !.new = h] \in Locals
  BY DEF Locals
<1>5. ASSUME NEW had \in BOOLEAN, NEW storage \in {"unsaved", r.storage}
      PROVE  [r EXCEPT !.at = "index", !.had = had, !.storage = storage] \in Locals
  BY DEF Locals
<1> QED
  BY <1>1, <1>2, <1>3, <1>4, <1>5

\* What a process becomes when it ends, goes on, or goes on with other values.
LEMMA ProcTypes ==
  ASSUME TypeOK, NEW p \in Procs
  PROVE  /\ \A r \in Locals : proc' = [proc EXCEPT ![p] = r] => proc' \in [Procs -> Locals]
         /\ Finish(p) => proc' \in [Procs -> Locals]
         /\ \A step \in Locked \union {"resolved"} : Goto(p, step) => proc' \in [Procs -> Locals]
<1>1. proc \in [Procs -> Locals]
  BY DEF TypeOK
<1>2. Idle \in Locals
  BY IdleType
<1>3. ASSUME NEW step \in Locked, Goto(p, step) PROVE proc' \in [Procs -> Locals]
  BY <1>1, <1>3 DEF Goto, Locals, Locked, Publishing, Cleaning
<1> QED
  BY <1>1, <1>2, <1>3 DEF Finish, Goto, Locals

\* What a publication leaves behind is counted, and is a set of generations.
LEMMA LeavesType ==
  ASSUME TypeOK, NEW gens \in SUBSET Gens, Leaves(gens)
  PROVE  left' \subseteq Gens /\ faults' \in 0..MaxFaults
BY BoundsAssumption DEF TypeOK, Leaves

\* Every step keeps the variables in their sets; the new generation is one.
LEMMA TypeStep == ASSUME TypeOK, WriterInv, Next PROVE TypeOK'
<1> USE BoundsAssumption DEF TypeOK, Gens, NoState, At, fileVars, ghosts
<1> DEFINE ProcOK == proc' \in [Procs -> Locals]
<1>1. ASSUME NEW p \in Procs, NEW cmd \in Commands, Resolve(p, cmd) PROVE TypeOK'
  <2> DEFINE r == [proc[p] EXCEPT !.at = "resolved", !.cmd = cmd, !.value = state.gen]
  <2>1. r \in Locals
    BY <1>1, LocalsClosed DEF Resolve
  <2>2. proc' = [proc EXCEPT ![p] = r]
    BY <1>1 DEF Resolve
  <2> QED
    BY <1>1, <2>1, <2>2 DEF Resolve
<1>2. ASSUME NEW p \in Procs, Busy(p) PROVE TypeOK'
  BY <1>2, ProcTypes DEF Busy, Finish
<1>3. ASSUME NEW p \in Procs, StartSetup(p) PROVE TypeOK'
  <2>1. PICK storage \in {"keychain", "snapshot-only"}, guard \in BOOLEAN :
          proc' = [proc EXCEPT ![p] = [Idle EXCEPT !.at = "build", !.cmd = "setup",
                                                   !.storage = storage, !.guard = guard]]
    BY <1>3 DEF StartSetup
  <2>2. [Idle EXCEPT !.at = "build", !.cmd = "setup", !.storage = storage, !.guard = guard] \in Locals
    BY IdleType, LocalsClosed
  <2> QED
    BY <1>3, <2>1, <2>2 DEF StartSetup
<1>4. ASSUME NEW p \in Procs, LockRefresh(p) PROVE TypeOK'
  <2> DEFINE r == [proc[p] EXCEPT !.at = "build", !.storage = "keychain", !.guard = TRUE]
  <2>1. r \in Locals
    BY LocalsClosed
  <2>2. CASE secrets
    <3>1. proc' = [proc EXCEPT ![p] = r]
      BY <1>4, <2>2 DEF LockRefresh
    <3> QED
      BY <1>4, <2>1, <2>2, <3>1 DEF LockRefresh
  <2>3. CASE ~secrets
    BY <1>4, <2>3, ProcTypes DEF LockRefresh, Finish
  <2> QED
    BY <2>2, <2>3
<1>5. ASSUME NEW p \in Procs, Stage(p) PROVE TypeOK'
  <2> DEFINE r == [proc[p] EXCEPT !.at = "staged", !.base = state.gen, !.new = started + 1]
  <2>1. r \in Locals
    <3>1. started + 1 \in 0..MaxGen
      BY <1>5 DEF Stage
    <3> QED
      BY <3>1, LocalsClosed
  <2>2. proc' = [proc EXCEPT ![p] = r]
    BY <1>5 DEF Stage
  <2> QED
    BY <1>5, <2>1, <2>2 DEF Stage
<1>6. ASSUME NEW p \in Procs, Publish(p) PROVE TypeOK'
  <2>1. ProcOK
    BY <1>6, ProcTypes DEF Publish, Locked, Publishing
  <2>2. proc[p].new \in Gens
    BY <1>6 DEF Publish, WriterInv, Unsettled, Locals
  <2>3. PICK dbs \in SUBSET Databases : coverage' = [coverage EXCEPT ![proc[p].new] = dbs]
    BY <1>6 DEF Publish
  <2>4. coverage' \in [Gens -> SUBSET Databases]
    BY <2>3
  <2> QED
    BY <1>6, <2>1, <2>2, <2>4 DEF Publish
<1>7. ASSUME NEW p \in Procs, Reject(p) PROVE TypeOK'
  <2>1. ProcOK /\ lock' \subseteq Procs
    BY <1>7, ProcTypes DEF Reject, Finish
  <2>2. stage' \subseteq Gens /\ Leaves(stage' \cap {proc[p].new})
    BY <1>7 DEF Reject
  <2>3. left' \subseteq Gens /\ faults' \in 0..MaxFaults
    BY <2>2, LeavesType
  <2> QED
    BY <1>7, <2>1, <2>2, <2>3 DEF Reject
<1>8. ASSUME NEW p \in Procs, SaveSecrets(p) PROVE TypeOK'
  <2>1. PICK storage \in {"unsaved", proc[p].storage} :
          proc' = [proc EXCEPT ![p] = [proc[p] EXCEPT !.at = "index", !.had = secrets,
                                                      !.storage = storage]]
    BY <1>8 DEF SaveSecrets
  <2>2. [proc[p] EXCEPT !.at = "index", !.had = secrets, !.storage = storage] \in Locals
    BY LocalsClosed
  <2> QED
    BY <1>8, <2>1, <2>2 DEF SaveSecrets
<1>9. ASSUME NEW p \in Procs, BuildIndex(p) PROVE TypeOK'
  <2>1. ProcOK
    BY <1>9, ProcTypes DEF BuildIndex, Locked, Publishing
  <2>2. proc[p].new \in Gens
    BY <1>9 DEF BuildIndex, WriterInv, Unsettled, Locals
  <2> QED
    BY <1>9, <2>1, <2>2 DEF BuildIndex
<1>10. ASSUME NEW p \in Procs, Commit(p) PROVE TypeOK'
  <2>1. ProcOK
    BY <1>10, ProcTypes DEF Commit, Locked, Cleaning
  <2>2. proc[p].new \in Gens /\ proc[p].new \in 0..MaxGen /\ proc[p].base \in 0..MaxGen
    BY <1>10 DEF Commit, WriterInv, Unsettled, Locals
  <2> QED
    BY <1>10, <2>1, <2>2 DEF Commit, Policy
<1>11. ASSUME NEW p \in Procs, CommitFails(p) PROVE TypeOK'
  <2>1. ProcOK /\ lock' \subseteq Procs
    BY <1>11, ProcTypes DEF CommitFails, Finish
  <2>2. /\ snaps' \subseteq Gens /\ indexes' \subseteq Gens
        /\ Leaves({proc[p].new} \cap (indexes' \cup snaps'))
    BY <1>11 DEF CommitFails
  <2>3. left' \subseteq Gens /\ faults' \in 0..MaxFaults
    BY <2>2, LeavesType
  <2>4. secrets' \in BOOLEAN /\ outlived' \in BOOLEAN
    BY <1>11 DEF CommitFails
  <2> QED
    BY <1>11, <2>1, <2>2, <2>3, <2>4 DEF CommitFails
<1>12. ASSUME NEW p \in Procs, RetireSecrets(p) PROVE TypeOK'
  BY <1>12, ProcTypes DEF RetireSecrets, Locked, Cleaning
<1>13. ASSUME NEW p \in Procs, CleanSnapshots(p) PROVE TypeOK'
  BY <1>13, ProcTypes DEF CleanSnapshots, Removals, Locked, Cleaning
<1>14. ASSUME NEW p \in Procs, CleanIndexes(p) PROVE TypeOK'
  BY <1>14, ProcTypes DEF CleanIndexes, Finish, Removals
<1>15. ASSUME NEW p \in Procs, GcSnapshots(p) PROVE TypeOK'
  <2>1. ProcOK /\ lock' \subseteq Procs
    BY <1>15, ProcTypes DEF GcSnapshots, Finish, Locked
  <2>2. stage' \subseteq Gens /\ snaps' \subseteq Gens
    BY <1>15 DEF GcSnapshots, Retain, Removals
  <2> QED
    BY <1>15, <2>1, <2>2 DEF GcSnapshots
<1>16. ASSUME NEW p \in Procs, GcIndexes(p) PROVE TypeOK'
  BY <1>16, ProcTypes DEF GcIndexes, Finish, Removals
<1>17. ASSUME NEW p \in Procs, ForgetSecrets(p) PROVE TypeOK'
  <2>1. ProcOK /\ lock' \subseteq Procs
    BY <1>17, ProcTypes DEF ForgetSecrets, Finish, Locked
  <2>2. secrets' \in BOOLEAN /\ forgetting' \in {"no", "started", "done"}
    BY <1>17 DEF ForgetSecrets
  <2> QED
    BY <1>17, <2>1, <2>2 DEF ForgetSecrets
<1>18. ASSUME NEW p \in Procs, ForgetData(p) PROVE TypeOK'
  <2>1. ProcOK /\ lock' \subseteq Procs
    BY <1>18, ProcTypes DEF ForgetData, Finish
  <2>2. CASE UNCHANGED <<state, previous, fileVars, committed, forgetting>>
    BY <1>18, <2>1, <2>2 DEF ForgetData
  <2>3. CASE /\ state' = NoState /\ previous' = 0 /\ snaps' = {} /\ stage' = {} /\ indexes' = {}
             /\ committed' = {} /\ coverage' = [g \in Gens |-> {}] /\ forgetting' = "done"
    BY <1>18, <2>1, <2>3 DEF ForgetData
  <2> QED
    BY <1>18, <2>2, <2>3 DEF ForgetData
<1>19. ASSUME NEW p \in Procs, IndexCurrent(p) PROVE TypeOK'
  BY <1>19 DEF IndexCurrent
<1>20. ASSUME NEW p \in Procs, Crash(p) PROVE TypeOK'
  <2>1. ProcOK /\ lock' \subseteq Procs
    BY <1>20, ProcTypes DEF Crash, Finish
  <2>2. faults' \in 0..MaxFaults
    BY <1>20 DEF Crash
  <2> QED
    BY <1>20, <2>1, <2>2 DEF Crash
<1> QED
  BY <1>1, <1>2, <1>3, <1>4, <1>5, <1>6, <1>7, <1>8, <1>9, <1>10, <1>11, <1>12, <1>13, <1>14,
     <1>15, <1>16, <1>17, <1>18, <1>19, <1>20 DEF Next

\* When nobody has the lock, no process is in a locked section.
LEMMA NobodyLocked ==
  ASSUME LockInv, lock = {}
  PROVE  \A p \in Procs : proc[p].at \notin Publishing \union Cleaning \union {"collect", "forget"}
BY DEF LockInv, Locked

\* A process that goes on, ends or locks leaves the others as they are.
LEMMA Moves ==
  ASSUME TypeOK, NEW p \in Procs
  PROVE  /\ Finish(p) => proc'[p] = Idle /\ \A q \in Procs \ {p} : proc'[q] = proc[q]
         /\ \A step : Goto(p, step) => /\ proc'[p] = [proc[p] EXCEPT !.at = step]
                                      /\ \A q \in Procs \ {p} : proc'[q] = proc[q]
         /\ \A r : proc' = [proc EXCEPT ![p] = r]
                 => proc'[p] = r /\ \A q \in Procs \ {p} : proc'[q] = proc[q]
BY DEF TypeOK, Finish, Goto

\* A forget ends or goes on with the lock; it gives nobody credentials.
LEMMA ForgetMoves ==
  ASSUME TypeOK, NEW p \in Procs, ForgetSecrets(p)
  PROVE  /\ proc[p].at = "resolved" /\ proc'[p].at \in {"idle", "forget"}
         /\ \A q \in Procs \ {p} : proc'[q] = proc[q]
         /\ (secrets' => secrets) /\ UNCHANGED <<state, outlived>>
<1>1. proc[p].at = "resolved" /\ UNCHANGED <<state, outlived>>
  BY DEF ForgetSecrets, At, ghosts
<1>2. CASE secrets' = FALSE /\ lock' = {p} /\ Goto(p, "forget")
  <2>1. proc' = [proc EXCEPT ![p].at = "forget"] /\ proc[p] \in Locals
    BY <1>2 DEF Goto, TypeOK
  <2>2. proc'[p].at = "forget" /\ \A q \in Procs \ {p} : proc'[q] = proc[q]
    BY <2>1 DEF TypeOK, Locals
  <2> QED
    BY <1>1, <1>2, <2>2
<1>3. CASE secrets' \in {FALSE, secrets} /\ Finish(p)
  <2>1. proc'[p].at = "idle" /\ \A q \in Procs \ {p} : proc'[q] = proc[q]
    BY <1>3 DEF Finish, Idle, TypeOK
  <2>2. secrets' => secrets
    BY <1>3 DEF TypeOK
  <2> QED
    BY <1>1, <2>1, <2>2
<1> QED
  BY <1>2, <1>3 DEF ForgetSecrets

\* A command takes the lock when nobody has it, and gives it up when it ends.
LEMMA LockStep == ASSUME TypeOK, LockInv, Next PROVE LockInv'
<1> USE CommandsAssumption DEF LockInv, TypeOK, Locals, Locked, Publishing, Cleaning, At, Idle
<1>1. ASSUME NEW p \in Procs, NEW cmd \in Commands, Resolve(p, cmd) PROVE LockInv'
  BY <1>1 DEF Resolve
<1>2. ASSUME NEW p \in Procs, Busy(p) PROVE LockInv'
  BY <1>2 DEF Busy, Finish
<1>3. ASSUME NEW p \in Procs, StartSetup(p) PROVE LockInv'
  BY <1>3 DEF StartSetup
<1>4. ASSUME NEW p \in Procs, LockRefresh(p) PROVE LockInv'
  BY <1>4 DEF LockRefresh, Finish
<1>5. ASSUME NEW p \in Procs, Stage(p) PROVE LockInv'
  BY <1>5 DEF Stage
<1>6. ASSUME NEW p \in Procs, Publish(p) PROVE LockInv'
  BY <1>6 DEF Publish, Goto, Covers
<1>7. ASSUME NEW p \in Procs, Reject(p) PROVE LockInv'
  BY <1>7 DEF Reject, Finish, Leaves
<1>8. ASSUME NEW p \in Procs, SaveSecrets(p) PROVE LockInv'
  BY <1>8 DEF SaveSecrets
<1>9. ASSUME NEW p \in Procs, BuildIndex(p) PROVE LockInv'
  BY <1>9 DEF BuildIndex, Goto
<1>10. ASSUME NEW p \in Procs, Commit(p) PROVE LockInv'
  BY <1>10 DEF Commit, Goto, Policy
<1>11. ASSUME NEW p \in Procs, CommitFails(p) PROVE LockInv'
  BY <1>11 DEF CommitFails, Finish, Leaves
<1>12. ASSUME NEW p \in Procs, RetireSecrets(p) PROVE LockInv'
  BY <1>12 DEF RetireSecrets, Goto, Policy
<1>13. ASSUME NEW p \in Procs, CleanSnapshots(p) PROVE LockInv'
  BY <1>13 DEF CleanSnapshots, Goto, Removals
<1>14. ASSUME NEW p \in Procs, CleanIndexes(p) PROVE LockInv'
  BY <1>14 DEF CleanIndexes, Finish, Removals, Retain
<1>15. ASSUME NEW p \in Procs, GcSnapshots(p) PROVE LockInv'
  BY <1>15 DEF GcSnapshots, Goto, Finish, Removals, Retain
<1>16. ASSUME NEW p \in Procs, GcIndexes(p) PROVE LockInv'
  BY <1>16 DEF GcIndexes, Finish, Removals, Retain
<1>17. ASSUME NEW p \in Procs, ForgetSecrets(p) PROVE LockInv'
  <2>1. CASE secrets' = FALSE /\ lock' = {p} /\ Goto(p, "forget")
             /\ forgetting' = IF forgetting = "done" THEN "done" ELSE "started"
    BY <1>17, <2>1 DEF ForgetSecrets, Goto, Finish
  <2>2. CASE secrets' \in {FALSE, secrets} /\ Finish(p)
             /\ forgetting' = IF secrets' = secrets THEN forgetting ELSE "started"
    BY <1>17, <2>2 DEF ForgetSecrets, Goto, Finish
  <2> QED
    BY <1>17, <2>1, <2>2 DEF ForgetSecrets
<1>18. ASSUME NEW p \in Procs, ForgetData(p) PROVE LockInv'
  BY <1>18 DEF ForgetData, Finish
<1>19. ASSUME NEW p \in Procs, IndexCurrent(p) PROVE LockInv'
  BY <1>19 DEF IndexCurrent
<1>20. ASSUME NEW p \in Procs, Crash(p) PROVE LockInv'
  BY <1>20 DEF Crash, Finish
<1> QED
  BY <1>1, <1>2, <1>3, <1>4, <1>5, <1>6, <1>7, <1>8, <1>9, <1>10, <1>11, <1>12, <1>13,
     <1>14, <1>15, <1>16, <1>17, <1>18, <1>19, <1>20 DEF Next

\* A publication commits the newest generation over the one it staged on.
LEMMA OrderStep == ASSUME TypeOK, LockInv, OrderInv, WriterInv, Next PROVE OrderInv'
<1> USE BoundsAssumption DEF OrderInv, WriterInv, TypeOK, Locals, Publishing, Cleaning,
        Unsettled, Gens, At, Idle, NoState, fileVars, ghosts
<1>1. ASSUME NEW p \in Procs, NEW cmd \in Commands, Resolve(p, cmd) PROVE OrderInv'
  BY <1>1 DEF Resolve
<1>2. ASSUME NEW p \in Procs, Busy(p) PROVE OrderInv'
  BY <1>2 DEF Busy, Finish
<1>3. ASSUME NEW p \in Procs, StartSetup(p) PROVE OrderInv'
  BY <1>3 DEF StartSetup
<1>4. ASSUME NEW p \in Procs, LockRefresh(p) PROVE OrderInv'
  BY <1>4 DEF LockRefresh, Finish
<1>5. ASSUME NEW p \in Procs, Stage(p) PROVE OrderInv'
  BY <1>5 DEF Stage
<1>6. ASSUME NEW p \in Procs, Publish(p) PROVE OrderInv'
  BY <1>6 DEF Publish, Goto, Covers
<1>7. ASSUME NEW p \in Procs, Reject(p) PROVE OrderInv'
  BY <1>7 DEF Reject, Finish, Leaves
<1>8. ASSUME NEW p \in Procs, SaveSecrets(p) PROVE OrderInv'
  BY <1>8 DEF SaveSecrets
<1>9. ASSUME NEW p \in Procs, BuildIndex(p) PROVE OrderInv'
  BY <1>9 DEF BuildIndex, Goto
<1>10. ASSUME NEW p \in Procs, Commit(p) PROVE OrderInv'
  BY <1>10 DEF Commit, Goto, Policy
<1>11. ASSUME NEW p \in Procs, CommitFails(p) PROVE OrderInv'
  BY <1>11 DEF CommitFails, Finish, Leaves
<1>12. ASSUME NEW p \in Procs, RetireSecrets(p) PROVE OrderInv'
  BY <1>12 DEF RetireSecrets, Goto, Policy
<1>13. ASSUME NEW p \in Procs, CleanSnapshots(p) PROVE OrderInv'
  BY <1>13 DEF CleanSnapshots, Goto, Removals
<1>14. ASSUME NEW p \in Procs, CleanIndexes(p) PROVE OrderInv'
  BY <1>14 DEF CleanIndexes, Finish, Removals, Retain
<1>15. ASSUME NEW p \in Procs, GcSnapshots(p) PROVE OrderInv'
  BY <1>15 DEF GcSnapshots, Goto, Finish, Removals, Retain
<1>16. ASSUME NEW p \in Procs, GcIndexes(p) PROVE OrderInv'
  BY <1>16 DEF GcIndexes, Finish, Removals, Retain
<1>17. ASSUME NEW p \in Procs, ForgetSecrets(p) PROVE OrderInv'
  BY <1>17 DEF ForgetSecrets, Goto, Finish
<1>18. ASSUME NEW p \in Procs, ForgetData(p) PROVE OrderInv'
  <2>1. CASE state' = NoState /\ previous' = 0 /\ snaps' = {} /\ stage' = {} /\ indexes' = {}
             /\ committed' = {} /\ coverage' = [g \in Gens |-> {}] /\ forgetting' = "done"
    BY <1>18, <2>1 DEF ForgetData, Finish
  <2>2. CASE UNCHANGED <<state, previous, fileVars, committed, forgetting>>
    BY <1>18, <2>2 DEF ForgetData, Finish
  <2> QED
    BY <1>18, <2>1, <2>2 DEF ForgetData
<1>19. ASSUME NEW p \in Procs, IndexCurrent(p) PROVE OrderInv'
  BY <1>19 DEF IndexCurrent
<1>20. ASSUME NEW p \in Procs, Crash(p) PROVE OrderInv'
  BY <1>20 DEF Crash, Finish
<1> QED
  BY <1>1, <1>2, <1>3, <1>4, <1>5, <1>6, <1>7, <1>8, <1>9, <1>10, <1>11, <1>12, <1>13,
     <1>14, <1>15, <1>16, <1>17, <1>18, <1>19, <1>20 DEF Next

\* Nobody else commits, stages or removes the new directory while a command has the lock.
LEMMA WriterStep == ASSUME TypeOK, LockInv, OrderInv, WriterInv, DiskInv, Next PROVE WriterInv'
<1> USE BoundsAssumption, CommandsAssumption DEF LockInv, Locked, OrderInv, WriterInv,
        TypeOK, Locals, Publishing, Cleaning, Unsettled, Gens, At, Idle, NoState, Policy,
        fileVars, ghosts
<1>1. ASSUME NEW p \in Procs, NEW cmd \in Commands, Resolve(p, cmd) PROVE WriterInv'
  BY <1>1 DEF Resolve
<1>2. ASSUME NEW p \in Procs, Busy(p) PROVE WriterInv'
  BY <1>2 DEF Busy, Finish
<1>3. ASSUME NEW p \in Procs, StartSetup(p) PROVE WriterInv'
  BY <1>3 DEF StartSetup
<1>4. ASSUME NEW p \in Procs, LockRefresh(p) PROVE WriterInv'
  <2>1. \A q \in Procs : proc[q].at \notin Locked
    BY <1>4, NobodyLocked DEF LockRefresh
  <2>2. \A q \in Procs \ {p} : proc'[q] = proc[q]
    BY <1>4 DEF LockRefresh, Finish
  <2>3. proc'[p].at \in {"idle", "build"} /\ proc'[p].cmd \in {"none", "refresh"}
    BY <1>4, Moves DEF LockRefresh
  <2>4. proc'[p].at = "build" => proc'[p].cmd = "refresh"
    BY <1>4, Moves DEF LockRefresh
  <2>5. ASSUME NEW q \in Procs, q # p PROVE proc'[q].at \notin Locked
    BY <2>1, <2>2, <2>5
  <2> QED
    BY <2>3, <2>4, <2>5
<1>5. ASSUME NEW p \in Procs, Stage(p) PROVE WriterInv'
  BY <1>5 DEF Stage
<1>6. ASSUME NEW p \in Procs, Publish(p) PROVE WriterInv'
  BY <1>6 DEF Publish, Goto, Covers
<1>7. ASSUME NEW p \in Procs, Reject(p) PROVE WriterInv'
  BY <1>7 DEF Reject, Finish, Leaves
<1>8. ASSUME NEW p \in Procs, SaveSecrets(p) PROVE WriterInv'
  BY <1>8 DEF SaveSecrets
<1>9. ASSUME NEW p \in Procs, BuildIndex(p) PROVE WriterInv'
  BY <1>9 DEF BuildIndex, Goto
<1>10. ASSUME NEW p \in Procs, Commit(p) PROVE WriterInv'
  BY <1>10 DEF Commit, Goto, Policy
<1>11. ASSUME NEW p \in Procs, CommitFails(p) PROVE WriterInv'
  BY <1>11 DEF CommitFails, Finish, Leaves
<1>12. ASSUME NEW p \in Procs, RetireSecrets(p) PROVE WriterInv'
  BY <1>12 DEF RetireSecrets, Goto, Policy
<1>13. ASSUME NEW p \in Procs, CleanSnapshots(p) PROVE WriterInv'
  BY <1>13 DEF CleanSnapshots, Goto, Removals
<1>14. ASSUME NEW p \in Procs, CleanIndexes(p) PROVE WriterInv'
  BY <1>14 DEF CleanIndexes, Finish, Removals, Retain
<1>15. ASSUME NEW p \in Procs, GcSnapshots(p) PROVE WriterInv'
  <2>1. \A q \in Procs : proc[q].at \notin Locked
    BY <1>15, NobodyLocked DEF GcSnapshots
  <2>2. \A q \in Procs \ {p} : proc'[q] = proc[q]
    BY <1>15 DEF GcSnapshots, Goto, Finish
  <2>3. proc'[p].at \in {"idle", "collect"}
    BY <1>15 DEF GcSnapshots, Goto, Finish, Idle
  <2>4. proc'[p].at = "collect" /\ ~stale' => proc'[p].value = state'.gen
    <3>1. proc'[p].at = "collect" => proc'[p].value = proc[p].value
      BY <1>15 DEF GcSnapshots, Goto, Finish, Idle
    <3>2. ~stale' => proc[p].value = state.gen
      BY <1>15 DEF GcSnapshots
    <3>3. state' = state
      BY <1>15 DEF GcSnapshots
    <3> QED
      BY <3>1, <3>2, <3>3
  <2>5. UNCHANGED <<state, previous>>
    BY <1>15 DEF GcSnapshots
  <2>6. ASSUME NEW q \in Procs PROVE proc'[q].at \notin Publishing \union Cleaning
    BY <2>1, <2>2, <2>3
  <2> QED
    BY <2>1, <2>2, <2>3, <2>4, <2>5, <2>6
<1>16. ASSUME NEW p \in Procs, GcIndexes(p) PROVE WriterInv'
  BY <1>16 DEF GcIndexes, Finish, Removals, Retain
<1>17. ASSUME NEW p \in Procs, ForgetSecrets(p) PROVE WriterInv'
  <2>1. CASE secrets' = FALSE /\ lock' = {p} /\ Goto(p, "forget")
             /\ forgetting' = IF forgetting = "done" THEN "done" ELSE "started"
    BY <1>17, <2>1 DEF ForgetSecrets, Goto, Finish
  <2>2. CASE secrets' \in {FALSE, secrets} /\ Finish(p)
             /\ forgetting' = IF secrets' = secrets THEN forgetting ELSE "started"
    BY <1>17, <2>2 DEF ForgetSecrets, Goto, Finish
  <2> QED
    BY <1>17, <2>1, <2>2 DEF ForgetSecrets
<1>18. ASSUME NEW p \in Procs, ForgetData(p) PROVE WriterInv'
  BY <1>18 DEF ForgetData, Finish
<1>19. ASSUME NEW p \in Procs, IndexCurrent(p) PROVE WriterInv'
  BY <1>19 DEF IndexCurrent
<1>20. ASSUME NEW p \in Procs, Crash(p) PROVE WriterInv'
  BY <1>20 DEF Crash, Finish
<1> QED
  BY <1>1, <1>2, <1>3, <1>4, <1>5, <1>6, <1>7, <1>8, <1>9, <1>10, <1>11, <1>12, <1>13,
     <1>14, <1>15, <1>16, <1>17, <1>18, <1>19, <1>20 DEF Next

\* A step that adds nothing to the disk, of a process that is in no publication.
LEMMA DiskSame ==
  ASSUME DiskInv, NEW p \in Procs, \A q \in Procs \ {p} : proc'[q] = proc[q],
         proc[p].at \notin {"staged"} \union Unsettled, proc'[p].at \notin {"staged"} \union Unsettled,
         snaps' \subseteq snaps, indexes' \subseteq indexes, stage' \subseteq stage,
         UNCHANGED <<state, committed, left, started>>
  PROVE  DiskInv'
BY DEF DiskInv

\* A publication that fails takes its directories away, and one that ends has committed.
LEMMA DiskStep == ASSUME TypeOK, LockInv, OrderInv, WriterInv, DiskInv, Next PROVE DiskInv'
<1> USE BoundsAssumption DEF LockInv, Locked, OrderInv, DiskInv, WriterInv, TypeOK, Locals,
        Publishing, Cleaning, Unsettled, Gens, At, Idle, NoState, fileVars, ghosts
<1>1. ASSUME NEW p \in Procs, NEW cmd \in Commands, Resolve(p, cmd) PROVE DiskInv'
  <2>1. proc[p].at = "idle" /\ proc'[p].at = "resolved" /\ \A q \in Procs \ {p} : proc'[q] = proc[q]
    BY <1>1 DEF Resolve
  <2> QED
    BY <1>1, <2>1, DiskSame DEF Resolve
<1>2. ASSUME NEW p \in Procs, Busy(p) PROVE DiskInv'
  BY <1>2 DEF Busy, Finish
<1>3. ASSUME NEW p \in Procs, StartSetup(p) PROVE DiskInv'
  BY <1>3 DEF StartSetup
<1>4. ASSUME NEW p \in Procs, LockRefresh(p) PROVE DiskInv'
  <2>1. proc'[p].at \in {"idle", "build"} /\ \A q \in Procs \ {p} : proc'[q] = proc[q]
    BY <1>4, Moves DEF LockRefresh
  <2> QED
    BY <1>4, <2>1, DiskSame DEF LockRefresh
<1>5. ASSUME NEW p \in Procs, Stage(p) PROVE DiskInv'
  <2>1. \A q \in Procs \ {p} : proc'[q] = proc[q] /\ proc[q].at \notin {"staged"} \union Unsettled
    BY <1>5 DEF Stage
  <2>2. proc'[p].at = "staged" /\ proc'[p].new = started + 1 /\ proc[p].at = "build"
    BY <1>5 DEF Stage
  <2>3. /\ stage' = {started + 1} /\ started' = started + 1
        /\ UNCHANGED <<snaps, indexes, state, committed, left>>
    BY <1>5 DEF Stage
  <2>4. \A g \in snaps \union indexes : g \in committed \union left
    BY <2>1, <2>2
  <2>5. ASSUME NEW g \in left PROVE g <= started + 1 /\ g # started + 1
    <3>1. g \in 1..MaxGen /\ started \in 0..MaxGen
      BY <2>5 DEF TypeOK, Gens
    <3>2. g <= started
      BY <2>5
    <3> QED
      BY <3>1, <3>2, BoundsAssumption
  <2> QED
    BY <2>1, <2>2, <2>3, <2>4, <2>5
<1>6. ASSUME NEW p \in Procs, Publish(p) PROVE DiskInv'
  BY <1>6 DEF Publish, Goto, Covers
<1>7. ASSUME NEW p \in Procs, Reject(p) PROVE DiskInv'
  <2>1. CASE At(p, "build")
    BY <1>7, <2>1 DEF Reject, Finish, Leaves
  <2>2. CASE At(p, "staged")
    BY <1>7, <2>2 DEF Reject, Finish, Leaves
  <2> QED
    BY <1>7, <2>1, <2>2 DEF Reject
<1>8. ASSUME NEW p \in Procs, SaveSecrets(p) PROVE DiskInv'
  BY <1>8 DEF SaveSecrets
<1>9. ASSUME NEW p \in Procs, BuildIndex(p) PROVE DiskInv'
  BY <1>9 DEF BuildIndex, Goto
<1>10. ASSUME NEW p \in Procs, Commit(p) PROVE DiskInv'
  BY <1>10 DEF Commit, Goto, Policy
<1>11. ASSUME NEW p \in Procs, CommitFails(p) PROVE DiskInv'
  BY <1>11 DEF CommitFails, Finish, Leaves
<1>12. ASSUME NEW p \in Procs, RetireSecrets(p) PROVE DiskInv'
  BY <1>12 DEF RetireSecrets, Goto, Policy
<1>13. ASSUME NEW p \in Procs, CleanSnapshots(p) PROVE DiskInv'
  BY <1>13 DEF CleanSnapshots, Goto, Removals
<1>14. ASSUME NEW p \in Procs, CleanIndexes(p) PROVE DiskInv'
  BY <1>14 DEF CleanIndexes, Finish, Removals, Retain
<1>15. ASSUME NEW p \in Procs, GcSnapshots(p) PROVE DiskInv'
  <2>1. proc[p].at = "resolved" /\ proc'[p].at \in {"idle", "collect"}
    BY <1>15 DEF GcSnapshots, Goto, Finish
  <2>2. \A q \in Procs \ {p} : proc'[q] = proc[q]
    BY <1>15 DEF GcSnapshots, Goto, Finish
  <2>3. stage' \subseteq stage /\ snaps' \subseteq snaps
    BY <1>15 DEF GcSnapshots, Removals, Retain
  <2> QED
    BY <1>15, <2>1, <2>2, <2>3, DiskSame DEF GcSnapshots
<1>16. ASSUME NEW p \in Procs, GcIndexes(p) PROVE DiskInv'
  BY <1>16 DEF GcIndexes, Finish, Removals, Retain
<1>17. ASSUME NEW p \in Procs, ForgetSecrets(p) PROVE DiskInv'
  BY <1>17, ForgetMoves, DiskSame DEF ForgetSecrets
<1>18. ASSUME NEW p \in Procs, ForgetData(p) PROVE DiskInv'
  <2>1. CASE state' = NoState /\ previous' = 0 /\ snaps' = {} /\ stage' = {} /\ indexes' = {}
             /\ committed' = {} /\ coverage' = [g \in Gens |-> {}] /\ forgetting' = "done"
    BY <1>18, <2>1 DEF ForgetData, Finish
  <2>2. CASE UNCHANGED <<state, previous, fileVars, committed, forgetting>>
    BY <1>18, <2>2 DEF ForgetData, Finish
  <2> QED
    BY <1>18, <2>1, <2>2 DEF ForgetData
<1>19. ASSUME NEW p \in Procs, IndexCurrent(p) PROVE DiskInv'
  BY <1>19 DEF IndexCurrent
<1>20. ASSUME NEW p \in Procs, Crash(p) PROVE DiskInv'
  BY <1>20 DEF Crash, Finish
<1> QED
  BY <1>1, <1>2, <1>3, <1>4, <1>5, <1>6, <1>7, <1>8, <1>9, <1>10, <1>11, <1>12, <1>13,
     <1>14, <1>15, <1>16, <1>17, <1>18, <1>19, <1>20 DEF Next

\* No cleanup or collection removes the current generation or its rollback version.
LEMMA KeptStep == ASSUME TypeOK, LockInv, OrderInv, WriterInv, DiskInv, KeptInv, Next PROVE KeptInv'
<1> USE BoundsAssumption DEF LockInv, Locked, OrderInv, DiskInv, WriterInv, KeptInv,
        CurrentKept, RollbackKept, TypeOK, Locals, Publishing, Cleaning, Unsettled, Gens,
        At, Idle, NoState, fileVars, ghosts
<1>1. ASSUME NEW p \in Procs, NEW cmd \in Commands, Resolve(p, cmd) PROVE KeptInv'
  BY <1>1 DEF Resolve
<1>2. ASSUME NEW p \in Procs, Busy(p) PROVE KeptInv'
  BY <1>2 DEF Busy, Finish
<1>3. ASSUME NEW p \in Procs, StartSetup(p) PROVE KeptInv'
  BY <1>3 DEF StartSetup
<1>4. ASSUME NEW p \in Procs, LockRefresh(p) PROVE KeptInv'
  BY <1>4 DEF LockRefresh, Finish
<1>5. ASSUME NEW p \in Procs, Stage(p) PROVE KeptInv'
  BY <1>5 DEF Stage
<1>6. ASSUME NEW p \in Procs, Publish(p) PROVE KeptInv'
  BY <1>6 DEF Publish, Goto, Covers
<1>7. ASSUME NEW p \in Procs, Reject(p) PROVE KeptInv'
  BY <1>7 DEF Reject, Finish, Leaves
<1>8. ASSUME NEW p \in Procs, SaveSecrets(p) PROVE KeptInv'
  BY <1>8 DEF SaveSecrets
<1>9. ASSUME NEW p \in Procs, BuildIndex(p) PROVE KeptInv'
  BY <1>9 DEF BuildIndex, Goto
<1>10. ASSUME NEW p \in Procs, Commit(p) PROVE KeptInv'
  BY <1>10 DEF Commit, Goto, Policy
<1>11. ASSUME NEW p \in Procs, CommitFails(p) PROVE KeptInv'
  BY <1>11 DEF CommitFails, Finish, Leaves
<1>12. ASSUME NEW p \in Procs, RetireSecrets(p) PROVE KeptInv'
  BY <1>12 DEF RetireSecrets, Goto, Policy
<1>13. ASSUME NEW p \in Procs, CleanSnapshots(p) PROVE KeptInv'
  BY <1>13 DEF CleanSnapshots, Goto, Removals
<1>14. ASSUME NEW p \in Procs, CleanIndexes(p) PROVE KeptInv'
  BY <1>14 DEF CleanIndexes, Finish, Removals, Retain
<1>15. ASSUME NEW p \in Procs, GcSnapshots(p) PROVE KeptInv'
  <2> DEFINE g == proc[p].value
  <2>1. left = {} => snaps \subseteq committed
    BY <1>15, NobodyLocked DEF GcSnapshots
  <2>2. snaps \cap Retain(snaps, g) \subseteq snaps' /\ UNCHANGED <<state, previous, left>>
    BY <1>15 DEF GcSnapshots, Removals
  <2>3. ~stale' => ~stale /\ g = state.gen
    BY <1>15 DEF GcSnapshots
  <2>4. CurrentKept'
    <3>1. CASE left = {}
      <4>1. \A k \in snaps : k <= state.gen
        BY <2>1, <3>1
      <4>2. state.gen \in snaps => state.gen \in Retain(snaps, g)
        BY <4>1 DEF Retain
      <4> QED
        BY <2>2, <3>1, <4>2
    <3>2. CASE left # {}
      BY <2>2, <2>3, <3>2 DEF Retain
    <3> QED
      BY <3>1, <3>2
  <2>5. RollbackKept'
    <3>1. SUFFICES ASSUME ~stale', left = {}, previous # 0, previous \in snaps, g = state.gen
                   PROVE  previous \in snaps'
      BY <2>2, <2>3
    <3>2. \A k \in snaps \ {g} : k <= previous
      BY <2>1, <3>1
    <3>3. previous \in Retain(snaps, g)
      BY <3>1, <3>2 DEF Retain
    <3> QED
      BY <2>2, <3>1, <3>3
  <2> QED
    BY <2>4, <2>5
<1>16. ASSUME NEW p \in Procs, GcIndexes(p) PROVE KeptInv'
  BY <1>16 DEF GcIndexes, Finish, Removals, Retain
<1>17. ASSUME NEW p \in Procs, ForgetSecrets(p) PROVE KeptInv'
  BY <1>17 DEF ForgetSecrets, Goto, Finish
<1>18. ASSUME NEW p \in Procs, ForgetData(p) PROVE KeptInv'
  BY <1>18 DEF ForgetData, Finish
<1>19. ASSUME NEW p \in Procs, IndexCurrent(p) PROVE KeptInv'
  BY <1>19 DEF IndexCurrent
<1>20. ASSUME NEW p \in Procs, Crash(p) PROVE KeptInv'
  BY <1>20 DEF Crash, Finish
<1> QED
  BY <1>1, <1>2, <1>3, <1>4, <1>5, <1>6, <1>7, <1>8, <1>9, <1>10, <1>11, <1>12, <1>13,
     <1>14, <1>15, <1>16, <1>17, <1>18, <1>19, <1>20 DEF Next

\* What a publication compared stays so until it commits.
LEMMA CoverStep == ASSUME TypeOK, LockInv, OrderInv, WriterInv, CoverInv, Next PROVE CoverInv'
<1> USE BoundsAssumption DEF LockInv, Locked, OrderInv, WriterInv, CoverInv, TypeOK, Locals,
        Publishing, Cleaning, Unsettled, Gens, At, Idle, NoState, fileVars, ghosts
<1>1. ASSUME NEW p \in Procs, NEW cmd \in Commands, Resolve(p, cmd) PROVE CoverInv'
  BY <1>1 DEF Resolve
<1>2. ASSUME NEW p \in Procs, Busy(p) PROVE CoverInv'
  BY <1>2 DEF Busy, Finish
<1>3. ASSUME NEW p \in Procs, StartSetup(p) PROVE CoverInv'
  BY <1>3 DEF StartSetup
<1>4. ASSUME NEW p \in Procs, LockRefresh(p) PROVE CoverInv'
  <2>1. \A q \in Procs : proc[q].at \notin Locked
    BY <1>4, NobodyLocked DEF LockRefresh
  <2>2. \A q \in Procs \ {p} : proc'[q] = proc[q]
    BY <1>4 DEF LockRefresh, Finish
  <2>3. proc'[p].at \notin Unsettled
    BY <1>4, Moves DEF LockRefresh
  <2>4. UNCHANGED <<state, snaps, coverage>>
    BY <1>4 DEF LockRefresh
  <2> QED
    BY <2>1, <2>2, <2>3, <2>4
<1>5. ASSUME NEW p \in Procs, Stage(p) PROVE CoverInv'
  BY <1>5 DEF Stage
<1>6. ASSUME NEW p \in Procs, Publish(p) PROVE CoverInv'
  BY <1>6 DEF Publish, Goto, Covers
<1>7. ASSUME NEW p \in Procs, Reject(p) PROVE CoverInv'
  BY <1>7 DEF Reject, Finish, Leaves
<1>8. ASSUME NEW p \in Procs, SaveSecrets(p) PROVE CoverInv'
  BY <1>8 DEF SaveSecrets
<1>9. ASSUME NEW p \in Procs, BuildIndex(p) PROVE CoverInv'
  BY <1>9 DEF BuildIndex, Goto
<1>10. ASSUME NEW p \in Procs, Commit(p) PROVE CoverInv'
  BY <1>10 DEF Commit, Goto, Policy
<1>11. ASSUME NEW p \in Procs, CommitFails(p) PROVE CoverInv'
  BY <1>11 DEF CommitFails, Finish, Leaves
<1>12. ASSUME NEW p \in Procs, RetireSecrets(p) PROVE CoverInv'
  BY <1>12 DEF RetireSecrets, Goto, Policy
<1>13. ASSUME NEW p \in Procs, CleanSnapshots(p) PROVE CoverInv'
  BY <1>13 DEF CleanSnapshots, Goto, Removals
<1>14. ASSUME NEW p \in Procs, CleanIndexes(p) PROVE CoverInv'
  BY <1>14 DEF CleanIndexes, Finish, Removals, Retain
<1>15. ASSUME NEW p \in Procs, GcSnapshots(p) PROVE CoverInv'
  <2>1. CASE stage' = {} /\ snaps' = Retain(snaps, proc[p].value) /\ lock' = {p} /\ Goto(p, "collect")
    BY <1>15, <2>1, NobodyLocked DEF GcSnapshots, Goto, Finish, Removals
  <2>2. CASE stage' \in SUBSET stage /\ snaps' \in Removals(snaps, Retain(snaps, proc[p].value)) /\ Finish(p)
    BY <1>15, <2>2, NobodyLocked DEF GcSnapshots, Goto, Finish, Removals
  <2> QED
    BY <1>15, <2>1, <2>2 DEF GcSnapshots
<1>16. ASSUME NEW p \in Procs, GcIndexes(p) PROVE CoverInv'
  BY <1>16 DEF GcIndexes, Finish, Removals, Retain
<1>17. ASSUME NEW p \in Procs, ForgetSecrets(p) PROVE CoverInv'
  <2>1. CASE secrets' = FALSE /\ lock' = {p} /\ Goto(p, "forget")
             /\ forgetting' = IF forgetting = "done" THEN "done" ELSE "started"
    BY <1>17, <2>1 DEF ForgetSecrets, Goto, Finish
  <2>2. CASE secrets' \in {FALSE, secrets} /\ Finish(p)
             /\ forgetting' = IF secrets' = secrets THEN forgetting ELSE "started"
    BY <1>17, <2>2 DEF ForgetSecrets, Goto, Finish
  <2> QED
    BY <1>17, <2>1, <2>2 DEF ForgetSecrets
<1>18. ASSUME NEW p \in Procs, ForgetData(p) PROVE CoverInv'
  BY <1>18 DEF ForgetData, Finish
<1>19. ASSUME NEW p \in Procs, IndexCurrent(p) PROVE CoverInv'
  BY <1>19 DEF IndexCurrent
<1>20. ASSUME NEW p \in Procs, Crash(p) PROVE CoverInv'
  BY <1>20 DEF Crash, Finish
<1> QED
  BY <1>1, <1>2, <1>3, <1>4, <1>5, <1>6, <1>7, <1>8, <1>9, <1>10, <1>11, <1>12, <1>13,
     <1>14, <1>15, <1>16, <1>17, <1>18, <1>19, <1>20 DEF Next

\* Credentials are deleted only where the state does not say they are there.
LEMMA KeysStep == ASSUME TypeOK, LockInv, WriterInv, KeysInv, ForgetInv, Next PROVE KeysInv'
<1> USE CommandsAssumption DEF LockInv, Locked, WriterInv, KeysInv, KeychainStateHasSecrets,
        ForgetInv, ForgottenStays, TypeOK, Locals, Publishing, Cleaning, Unsettled, At,
        Idle, NoState, fileVars, ghosts
<1>1. ASSUME NEW p \in Procs, NEW cmd \in Commands, Resolve(p, cmd) PROVE KeysInv'
  BY <1>1 DEF Resolve
<1>2. ASSUME NEW p \in Procs, Busy(p) PROVE KeysInv'
  BY <1>2 DEF Busy, Finish
<1>3. ASSUME NEW p \in Procs, StartSetup(p) PROVE KeysInv'
  BY <1>3 DEF StartSetup
<1>4. ASSUME NEW p \in Procs, LockRefresh(p) PROVE KeysInv'
  BY <1>4 DEF LockRefresh, Finish
<1>5. ASSUME NEW p \in Procs, Stage(p) PROVE KeysInv'
  BY <1>5 DEF Stage
<1>6. ASSUME NEW p \in Procs, Publish(p) PROVE KeysInv'
  BY <1>6 DEF Publish, Goto, Covers
<1>7. ASSUME NEW p \in Procs, Reject(p) PROVE KeysInv'
  BY <1>7 DEF Reject, Finish, Leaves
<1>8. ASSUME NEW p \in Procs, SaveSecrets(p) PROVE KeysInv'
  BY <1>8 DEF SaveSecrets
<1>9. ASSUME NEW p \in Procs, BuildIndex(p) PROVE KeysInv'
  BY <1>9 DEF BuildIndex, Goto
<1>10. ASSUME NEW p \in Procs, Commit(p) PROVE KeysInv'
  BY <1>10 DEF Commit, Goto, Policy
<1>11. ASSUME NEW p \in Procs, CommitFails(p) PROVE KeysInv'
  BY <1>11 DEF CommitFails, Finish, Leaves
<1>12. ASSUME NEW p \in Procs, RetireSecrets(p) PROVE KeysInv'
  <2> DEFINE retires == proc[p].cmd = "setup" /\ proc[p].storage = "snapshot-only"
  <2>1. state.storage = Policy(p) /\ UNCHANGED <<state, forgetting>>
    BY <1>12 DEF RetireSecrets
  <2>2. KeychainStateHasSecrets'
    <3>1. CASE retires
      BY <2>1, <3>1 DEF Policy
    <3>2. CASE ~retires
      <4>1. secrets' = secrets
        BY <1>12, <3>2 DEF RetireSecrets
      <4> QED
        BY <2>1, <4>1
    <3> QED
      BY <3>1, <3>2
  <2>3. \A q \in Procs \ {p} : proc'[q] = proc[q] /\ proc[q].at \notin Locked
    BY <1>12 DEF RetireSecrets, Goto
  <2>4. proc'[p].at = "clean"
    BY <1>12 DEF RetireSecrets, Goto
  <2> QED
    BY <2>2, <2>3, <2>4
<1>13. ASSUME NEW p \in Procs, CleanSnapshots(p) PROVE KeysInv'
  BY <1>13 DEF CleanSnapshots, Goto, Removals
<1>14. ASSUME NEW p \in Procs, CleanIndexes(p) PROVE KeysInv'
  BY <1>14 DEF CleanIndexes, Finish, Removals, Retain
<1>15. ASSUME NEW p \in Procs, GcSnapshots(p) PROVE KeysInv'
  BY <1>15 DEF GcSnapshots, Goto, Finish, Removals, Retain
<1>16. ASSUME NEW p \in Procs, GcIndexes(p) PROVE KeysInv'
  BY <1>16 DEF GcIndexes, Finish, Removals, Retain
<1>17. ASSUME NEW p \in Procs, ForgetSecrets(p) PROVE KeysInv'
  <2>1. CASE secrets' = FALSE /\ lock' = {p} /\ Goto(p, "forget")
             /\ forgetting' = IF forgetting = "done" THEN "done" ELSE "started"
    BY <1>17, <2>1 DEF ForgetSecrets, Goto, Finish
  <2>2. CASE secrets' \in {FALSE, secrets} /\ Finish(p)
             /\ forgetting' = IF secrets' = secrets THEN forgetting ELSE "started"
    BY <1>17, <2>2 DEF ForgetSecrets, Goto, Finish
  <2> QED
    BY <1>17, <2>1, <2>2 DEF ForgetSecrets
<1>18. ASSUME NEW p \in Procs, ForgetData(p) PROVE KeysInv'
  BY <1>18 DEF ForgetData, Finish
<1>19. ASSUME NEW p \in Procs, IndexCurrent(p) PROVE KeysInv'
  BY <1>19 DEF IndexCurrent
<1>20. ASSUME NEW p \in Procs, Crash(p) PROVE KeysInv'
  BY <1>20 DEF Crash, Finish
<1> QED
  BY <1>1, <1>2, <1>3, <1>4, <1>5, <1>6, <1>7, <1>8, <1>9, <1>10, <1>11, <1>12, <1>13,
     <1>14, <1>15, <1>16, <1>17, <1>18, <1>19, <1>20 DEF Next

\* Credentials that the state does not rely on are noted when they outlive a command.
LEMMA PolicyStep ==
  ASSUME TypeOK, LockInv, WriterInv, KeysInv, PolicyInv, Next PROVE PolicyInv'
<1> USE CommandsAssumption DEF LockInv, Locked, WriterInv, PolicyInv, PolicyHeeded, TypeOK,
        Locals, Publishing, Cleaning, Unsettled, At, Idle, NoState, fileVars, ghosts
<1>1. ASSUME NEW p \in Procs, NEW cmd \in Commands, Resolve(p, cmd) PROVE PolicyInv'
  BY <1>1 DEF Resolve
<1>2. ASSUME NEW p \in Procs, Busy(p) PROVE PolicyInv'
  BY <1>2 DEF Busy, Finish
<1>3. ASSUME NEW p \in Procs, StartSetup(p) PROVE PolicyInv'
  BY <1>3 DEF StartSetup
<1>4. ASSUME NEW p \in Procs, LockRefresh(p) PROVE PolicyInv'
  BY <1>4 DEF LockRefresh, Finish
<1>5. ASSUME NEW p \in Procs, Stage(p) PROVE PolicyInv'
  BY <1>5 DEF Stage
<1>6. ASSUME NEW p \in Procs, Publish(p) PROVE PolicyInv'
  BY <1>6 DEF Publish, Goto, Covers
<1>7. ASSUME NEW p \in Procs, Reject(p) PROVE PolicyInv'
  BY <1>7 DEF Reject, Finish, Leaves
<1>8. ASSUME NEW p \in Procs, SaveSecrets(p) PROVE PolicyInv'
  BY <1>8 DEF SaveSecrets
<1>9. ASSUME NEW p \in Procs, BuildIndex(p) PROVE PolicyInv'
  BY <1>9 DEF BuildIndex, Goto
<1>10. ASSUME NEW p \in Procs, Commit(p) PROVE PolicyInv'
  BY <1>10 DEF Commit, Goto, Policy
<1>11. ASSUME NEW p \in Procs, CommitFails(p) PROVE PolicyInv'
  BY <1>11 DEF CommitFails, Finish, Leaves
<1>12. ASSUME NEW p \in Procs, RetireSecrets(p) PROVE PolicyInv'
  <2> DEFINE retires == proc[p].cmd = "setup" /\ proc[p].storage = "snapshot-only"
  <2>1. \A q \in Procs \ {p} : proc'[q] = proc[q] /\ proc[q].at \notin Locked
    BY <1>12 DEF RetireSecrets, Goto
  <2>2. proc[p].at = "retire" /\ proc'[p].at = "clean" /\ state' = state
    BY <1>12 DEF RetireSecrets, Goto
  <2>3. secrets' /\ ~outlived' => state.storage = "keychain"
    <3>1. CASE retires
      BY <1>12, <3>1 DEF RetireSecrets
    <3>2. CASE ~retires
      <4>1. UNCHANGED <<secrets, outlived>>
        BY <1>12, <3>2 DEF RetireSecrets
      <4>2. secrets /\ ~outlived /\ state.storage # "keychain" => retires
        BY <2>1, <2>2
      <4> QED
        BY <3>2, <4>1, <4>2
    <3> QED
      BY <3>1, <3>2
  <2> QED
    BY <2>1, <2>2, <2>3
<1>13. ASSUME NEW p \in Procs, CleanSnapshots(p) PROVE PolicyInv'
  BY <1>13 DEF CleanSnapshots, Goto, Removals
<1>14. ASSUME NEW p \in Procs, CleanIndexes(p) PROVE PolicyInv'
  BY <1>14 DEF CleanIndexes, Finish, Removals, Retain
<1>15. ASSUME NEW p \in Procs, GcSnapshots(p) PROVE PolicyInv'
  BY <1>15 DEF GcSnapshots, Goto, Finish, Removals, Retain
<1>16. ASSUME NEW p \in Procs, GcIndexes(p) PROVE PolicyInv'
  BY <1>16 DEF GcIndexes, Finish, Removals, Retain
<1>17. ASSUME NEW p \in Procs, ForgetSecrets(p) PROVE PolicyInv'
  <2>1. \A q \in Procs : proc[q].at \notin Locked
    BY <1>17, NobodyLocked DEF ForgetSecrets
  <2>2. proc'[p].at \in {"idle", "forget"} /\ \A q \in Procs \ {p} : proc'[q] = proc[q]
    BY <1>17, ForgetMoves
  <2>3. (secrets' => secrets) /\ UNCHANGED <<state, outlived>>
    BY <1>17, ForgetMoves
  <2>4. secrets /\ ~outlived => state.storage = "keychain"
    BY <2>1
  <2>5. \A q \in Procs : proc'[q].at \notin Publishing
    BY <2>1, <2>2
  <2> QED
    BY <2>3, <2>4, <2>5
<1>18. ASSUME NEW p \in Procs, ForgetData(p) PROVE PolicyInv'
  <2>1. \A q \in Procs \ {p} : proc'[q] = proc[q] /\ proc[q].at \notin Locked
    BY <1>18 DEF ForgetData, Finish
  <2>2. proc'[p] = Idle /\ ~secrets /\ secrets' = secrets
    BY <1>18, Moves DEF ForgetData, KeysInv
  <2> QED
    BY <2>1, <2>2
<1>19. ASSUME NEW p \in Procs, IndexCurrent(p) PROVE PolicyInv'
  BY <1>19 DEF IndexCurrent
<1>20. ASSUME NEW p \in Procs, Crash(p) PROVE PolicyInv'
  BY <1>20 DEF Crash, Finish
<1> QED
  BY <1>1, <1>2, <1>3, <1>4, <1>5, <1>6, <1>7, <1>8, <1>9, <1>10, <1>11, <1>12, <1>13,
     <1>14, <1>15, <1>16, <1>17, <1>18, <1>19, <1>20 DEF Next

\* What was forgotten comes back with a new setup only.
LEMMA ForgetStep == ASSUME TypeOK, LockInv, KeysInv, ForgetInv, Next PROVE ForgetInv'
<1> USE CommandsAssumption DEF LockInv, Locked, KeysInv, ForgetInv, ForgottenStays, TypeOK,
        Locals, Gens, Publishing, Cleaning, At, Idle, NoState, fileVars, ghosts
<1>1. ASSUME NEW p \in Procs, NEW cmd \in Commands, Resolve(p, cmd) PROVE ForgetInv'
  BY <1>1 DEF Resolve
<1>2. ASSUME NEW p \in Procs, Busy(p) PROVE ForgetInv'
  BY <1>2 DEF Busy, Finish
<1>3. ASSUME NEW p \in Procs, StartSetup(p) PROVE ForgetInv'
  BY <1>3 DEF StartSetup
<1>4. ASSUME NEW p \in Procs, LockRefresh(p) PROVE ForgetInv'
  <2>1. CASE secrets
    BY <1>4, <2>1 DEF LockRefresh
  <2>2. CASE ~secrets
    <3>1. proc'[p] = Idle /\ \A q \in Procs \ {p} : proc'[q] = proc[q]
      BY <1>4, <2>2, Moves DEF LockRefresh
    <3>2. UNCHANGED <<state, snaps, stage, indexes, secrets, forgetting>>
      BY <1>4 DEF LockRefresh
    <3>3. forgetting = "done" => \A q \in Procs : proc'[q].at \notin Publishing \union Cleaning
      BY <3>1
    <3> QED
      BY <3>2, <3>3
  <2> QED
    BY <2>1, <2>2
<1>5. ASSUME NEW p \in Procs, Stage(p) PROVE ForgetInv'
  BY <1>5 DEF Stage
<1>6. ASSUME NEW p \in Procs, Publish(p) PROVE ForgetInv'
  BY <1>6 DEF Publish, Goto, Covers
<1>7. ASSUME NEW p \in Procs, Reject(p) PROVE ForgetInv'
  BY <1>7 DEF Reject, Finish, Leaves
<1>8. ASSUME NEW p \in Procs, SaveSecrets(p) PROVE ForgetInv'
  BY <1>8 DEF SaveSecrets
<1>9. ASSUME NEW p \in Procs, BuildIndex(p) PROVE ForgetInv'
  BY <1>9 DEF BuildIndex, Goto
<1>10. ASSUME NEW p \in Procs, Commit(p) PROVE ForgetInv'
  BY <1>10 DEF Commit, Goto, Policy
<1>11. ASSUME NEW p \in Procs, CommitFails(p) PROVE ForgetInv'
  BY <1>11 DEF CommitFails, Finish, Leaves
<1>12. ASSUME NEW p \in Procs, RetireSecrets(p) PROVE ForgetInv'
  BY <1>12 DEF RetireSecrets, Goto, Policy
<1>13. ASSUME NEW p \in Procs, CleanSnapshots(p) PROVE ForgetInv'
  BY <1>13 DEF CleanSnapshots, Goto, Removals
<1>14. ASSUME NEW p \in Procs, CleanIndexes(p) PROVE ForgetInv'
  BY <1>14 DEF CleanIndexes, Finish, Removals, Retain
<1>15. ASSUME NEW p \in Procs, GcSnapshots(p) PROVE ForgetInv'
  <2>1. CASE stage' = {} /\ snaps' = Retain(snaps, proc[p].value) /\ lock' = {p} /\ Goto(p, "collect")
    BY <1>15, <2>1 DEF GcSnapshots, Goto, Finish, Removals, Retain
  <2>2. CASE stage' \in SUBSET stage /\ snaps' \in Removals(snaps, Retain(snaps, proc[p].value)) /\ Finish(p)
    BY <1>15, <2>2 DEF GcSnapshots, Goto, Finish, Removals, Retain
  <2> QED
    BY <1>15, <2>1, <2>2 DEF GcSnapshots
<1>16. ASSUME NEW p \in Procs, GcIndexes(p) PROVE ForgetInv'
  BY <1>16 DEF GcIndexes, Finish, Removals, Retain
<1>17. ASSUME NEW p \in Procs, ForgetSecrets(p) PROVE ForgetInv'
  <2>1. CASE secrets' = FALSE /\ lock' = {p} /\ Goto(p, "forget")
             /\ forgetting' = IF forgetting = "done" THEN "done" ELSE "started"
    BY <1>17, <2>1 DEF ForgetSecrets, Goto, Finish
  <2>2. CASE secrets' \in {FALSE, secrets} /\ Finish(p)
             /\ forgetting' = IF secrets' = secrets THEN forgetting ELSE "started"
    BY <1>17, <2>2 DEF ForgetSecrets, Goto, Finish
  <2> QED
    BY <1>17, <2>1, <2>2 DEF ForgetSecrets
<1>18. ASSUME NEW p \in Procs, ForgetData(p) PROVE ForgetInv'
  <2>1. CASE state' = NoState /\ previous' = 0 /\ snaps' = {} /\ stage' = {} /\ indexes' = {}
             /\ committed' = {} /\ coverage' = [g \in Gens |-> {}] /\ forgetting' = "done"
    BY <1>18, <2>1 DEF ForgetData, Finish
  <2>2. CASE UNCHANGED <<state, previous, fileVars, committed, forgetting>>
    BY <1>18, <2>2 DEF ForgetData, Finish
  <2> QED
    BY <1>18, <2>1, <2>2 DEF ForgetData
<1>19. ASSUME NEW p \in Procs, IndexCurrent(p) PROVE ForgetInv'
  BY <1>19 DEF IndexCurrent
<1>20. ASSUME NEW p \in Procs, Crash(p) PROVE ForgetInv'
  BY <1>20 DEF Crash, Finish
<1> QED
  BY <1>1, <1>2, <1>3, <1>4, <1>5, <1>6, <1>7, <1>8, <1>9, <1>10, <1>11, <1>12, <1>13,
     <1>14, <1>15, <1>16, <1>17, <1>18, <1>19, <1>20 DEF Next

\* Nothing changes in a step that stutters.
LEMMA InvStutter == ASSUME Inv, UNCHANGED vars PROVE Inv'
<1> USE DEF vars, fileVars, ghosts
<1>1. TypeOK' /\ LockInv' /\ OrderInv' /\ WriterInv'
  BY DEF Inv, TypeOK, LockInv, OrderInv, WriterInv, Policy
<1>2. DiskInv' /\ KeptInv' /\ CoverInv'
  BY DEF Inv, DiskInv, KeptInv, CurrentKept, RollbackKept, CoverInv
<1>3. KeysInv' /\ PolicyInv' /\ ForgetInv'
  BY DEF Inv, PolicyInv, PolicyHeeded, KeysInv, KeychainStateHasSecrets, ForgetInv, ForgottenStays
<1> QED
  BY <1>1, <1>2, <1>3 DEF Inv

\* The invariant holds in every state.
THEOREM Invariance == Spec => []Inv
<1>1. Inv /\ Next => Inv'
  BY TypeStep, LockStep, OrderStep, WriterStep, DiskStep, KeptStep, CoverStep, KeysStep,
     PolicyStep, ForgetStep DEF Inv
<1>2. Inv /\ [Next]_vars => Inv'
  BY <1>1, InvStutter
<1> QED
  BY InvInit, <1>2, PTL DEF Spec

-----------------------------------------------------------------------------
(* What the runs check. *)

\* The snapshot the account state points to, and the one before it, are there,
\* whatever publications fail, are cleaned up after, collected or interrupted.
THEOREM RetainedStay == Spec => []RetainedKept
<1>1. Inv => RetainedKept
  BY DEF Inv, KeptInv, RetainedKept
<1> QED
  BY Invariance, <1>1, PTL

\* A state that says the credentials are in the keychain is right, no refresh undoes a
\* policy that left it nothing, and when no command runs only generations are on the
\* disk that were committed or that a publication is known to have left behind.
THEOREM StateIsTrue == Spec => []StateAgrees
<1>1. Inv => StateAgrees
  <2> SUFFICES ASSUME Inv PROVE StateAgrees
    OBVIOUS
  <2>1. TypeOK /\ KeychainStateHasSecrets
    BY DEF Inv, KeysInv
  <2>2. ASSUME lock = {}
        PROVE  snaps \union indexes \subseteq committed \union left /\ stage \subseteq left
    <3>1. \A p \in Procs : proc[p].at \notin Unsettled \union {"staged"}
      BY <2>2, NobodyLocked DEF Inv, Publishing, Unsettled
    <3> QED
      BY <2>2, <3>1 DEF Inv, DiskInv
  <2>3. left \cap (committed \cup {state.gen}) = {}
    <3>1. 0 \notin left
      BY BoundsAssumption DEF Inv, TypeOK, Gens
    <3>2. \A g \in left : g \notin committed
      BY DEF Inv, DiskInv
    <3>3. state.gen \notin left
      BY <3>1, <3>2 DEF Inv, DiskInv
    <3> QED
      BY <3>2, <3>3
  <2>4. PolicyHeeded
    BY DEF Inv, PolicyInv
  <2> QED
    BY <2>1, <2>2, <2>3, <2>4 DEF StateAgrees, OnlyCommitted
<1> QED
  BY Invariance, <1>1, PTL

\* Commands that resolved the account before a forget bring nothing of it back.
THEOREM ForgetIsFinal == Spec => []ForgottenStays
<1>1. Inv => ForgottenStays
  BY DEF Inv, ForgetInv
<1> QED
  BY Invariance, <1>1, PTL

\* The comparison with the baseline still holds when the new generation is committed,
\* as nobody else publishes or collects in between.
THEOREM CoverageStays == Spec => CoverageNeverShrinks
<1>1. ASSUME Inv, NEW p \in Procs, proc[p].guard /\ Commit(p) /\ state.gen \in snaps
      PROVE  coverage[state.gen] \subseteq coverage[state'.gen]
  BY <1>1 DEF Inv, CoverInv, Commit, At, Unsettled
<1>2. Inv /\ [Next]_vars
        => [\A p \in Procs : proc[p].guard /\ Commit(p) /\ state.gen \in snaps
              => coverage[state.gen] \subseteq coverage[state'.gen]]_vars
  BY <1>1
<1> QED
  BY Invariance, <1>2, PTL DEF Spec, CoverageNeverShrinks

\* Neither the rollback of a publication nor a cleanup or collection takes the index
\* of the generation that stays current.
THEOREM IndexStays == Spec => CurrentIndexKept
<1> DEFINE Kept == (~stale' \/ left = {}) /\ state.gen \in indexes /\ state' = state
                     => state.gen \in indexes'
<1>1. ASSUME Inv, Next PROVE Kept
  <2> SUFFICES ASSUME ~stale' \/ left = {}, state.gen \in indexes, state' = state
               PROVE  state.gen \in indexes'
    OBVIOUS
  <2>1. \A g \in indexes : left = {} /\ (\A p \in Procs : proc[p].at \notin Unsettled)
                              => g <= state.gen
    BY <1>1 DEF Inv, DiskInv, OrderInv
  <2>2. ASSUME NEW p \in Procs, CommitFails(p) PROVE state.gen \in indexes'
    BY <1>1, <2>2 DEF Inv, CommitFails, WriterInv, Unsettled, At, TypeOK, Locals
  <2>3. ASSUME NEW p \in Procs, CleanIndexes(p) PROVE state.gen \in indexes'
    BY <1>1, <2>3 DEF Inv, CleanIndexes, WriterInv, Cleaning, At, Removals, Retain
  <2>4. ASSUME NEW p \in Procs, GcIndexes(p) PROVE state.gen \in indexes'
    <3> DEFINE g == proc[p].value
    <3>1. p \in lock /\ proc[p].at = "collect" /\ UNCHANGED <<stale, left>>
      BY <1>1, <2>4 DEF Inv, LockInv, Locked, GcIndexes, At, ghosts
    <3>2. \A q \in Procs : proc[q].at \notin Unsettled
      BY <1>1, <3>1 DEF Inv, LockInv, Locked, Publishing, Unsettled
    <3>3. state.gen = g \/ \A k \in indexes : k <= state.gen
      BY <1>1, <2>1, <3>1, <3>2 DEF Inv, WriterInv
    <3>4. state.gen \in Retain(indexes, g)
      BY <3>3 DEF Retain
    <3> QED
      BY <2>4, <3>4 DEF GcIndexes, Removals
  <2>5. ASSUME NEW p \in Procs, ForgetData(p) PROVE state.gen \in indexes'
    BY <1>1, <2>5 DEF Inv, ForgetData, TypeOK, Gens, NoState, fileVars, ghosts
  <2>6. ASSUME NEW p \in Procs, BuildIndex(p) \/ IndexCurrent(p) PROVE state.gen \in indexes'
    BY <2>6 DEF BuildIndex, IndexCurrent
  <2>7. ASSUME NEW p \in Procs,
               \/ \E cmd \in Commands : Resolve(p, cmd)
               \/ Busy(p) \/ StartSetup(p) \/ LockRefresh(p)
               \/ Stage(p) \/ Publish(p) \/ Reject(p) \/ SaveSecrets(p)
               \/ Commit(p) \/ RetireSecrets(p)
               \/ CleanSnapshots(p) \/ GcSnapshots(p) \/ ForgetSecrets(p) \/ Crash(p)
        PROVE  indexes' = indexes
    BY <2>7 DEF Resolve, Busy, StartSetup, LockRefresh, Stage, Publish, Reject, SaveSecrets,
       Commit,
                RetireSecrets, CleanSnapshots, GcSnapshots, ForgetSecrets, Crash, fileVars, ghosts
  <2> QED
    BY <1>1, <2>2, <2>3, <2>4, <2>5, <2>6, <2>7 DEF Next
<1>2. Inv /\ [Next]_vars => [Kept]_vars
  BY <1>1
<1> QED
  BY Invariance, <1>2, PTL DEF Spec, CurrentIndexKept

==============================================================================
