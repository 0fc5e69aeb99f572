----------------------- MODULE AcquisitionDaemonProofs -----------------------
(***************************************************************************)
(* Proofs for AcquisitionDaemon: for any number of setups and daemons, and *)
(* any bound on faults, the setups agree on one catalog key and one daemon *)
(* and leave no lock behind.  Inv has four parts: who holds the startup    *)
(* lock (LockInv), whose key is in the file (KeyInv), and, as long as no   *)
(* setup was killed and no ping failed, where a daemon is that starts      *)
(* (StartInv) and, as long as no setup displaced the daemon of another     *)
(* executable, one that serves (DaemonInv).                                *)
(***************************************************************************)
EXTENDS AcquisitionDaemon, FiniteSetTheorems, TLAPS

Places ==
  {"key", "reread", "create", "write", "sync", "find", "lock", "wait", "daemon", "oneshot",
   "failed"} \union Locking

\* TypeOK, with what it says of cardinalities put without them.
Types ==
  /\ keyFile \subseteq [by : Setups, whole : BOOLEAN]
  /\ endpoint \subseteq Daemons
  /\ daemon \in [Daemons -> {"none", "starting", "ready", "dead"}]
  /\ starter \in [Daemons -> SUBSET Setups]
  /\ startLock \subseteq Setups
  /\ setup \in [Setups -> Places]
  /\ key \in [Setups -> SUBSET Setups]
  /\ given \in [Setups -> SUBSET Daemons]
  /\ displaced \in BOOLEAN

Singles ==
  /\ \A f, g \in keyFile : f = g
  /\ \A d, e \in endpoint : d = e

LockInv == LockHeld /\ \A s, t \in startLock : s = t

\* Who writes the file is the one who created it, and a key that is used is in the
\* file: only a failing write or sync takes a file away, of which the first comes
\* before the key can be read.
KeyInv ==
  /\ \A s \in Setups : setup[s] = "write" => keyFile = {[by |-> s, whole |-> FALSE]}
  /\ \A s \in Setups : setup[s] = "sync" => keyFile = {WrittenBy(s)}
  /\ "sync" \notin faults =>
       \A s \in Setups : \A w \in key[s] : keyFile = {WrittenBy(w)}

Live == {d \in Daemons : daemon[d] \in {"starting", "ready"}}

Quiet == faults \subseteq {"write", "sync"}

\* A daemon that starts is waited for by the holder of the lock, who found none of
\* its own executable under the lock, and it is the only one that starts.
StartInv ==
  Quiet =>
    /\ \A d \in Daemons : daemon[d] = "starting" =>
         \E s \in Setups : starter[d] = {s} /\ setup[s] = "poll" /\ Answering(s) = {}
    /\ \A s \in Setups : setup[s] \in {"remove", "launch"} => Answering(s) = {}
    /\ \A d, e \in Daemons : daemon[d] = "starting" /\ daemon[e] = "starting" => d = e

\* One that serves is named by the endpoint, and there is none while a new one is
\* launched, unless it was displaced.
DaemonInv ==
  Quiet /\ ~displaced =>
    /\ \A d \in Daemons : daemon[d] = "ready" => endpoint = {d}
    /\ \A s \in Setups : setup[s] = "launch" => Live = {}
    /\ \A d, e \in Live : d = e

Inv == Types /\ Singles /\ LockInv /\ KeyInv /\ StartInv /\ DaemonInv

-----------------------------------------------------------------------------
(* Sets of at most one element. *)

\* A set whose elements are equal has at most one.
LEMMA AtMostOne ==
  ASSUME NEW S, \A x, y \in S : x = y
  PROVE  Cardinality(S) <= 1
<1>1. CASE S = {}
  BY <1>1, FS_EmptySet
<1>2. CASE S # {}
  <2>1. PICK x : S = {x}
    BY <1>2
  <2> QED
    BY <2>1, FS_Singleton
<1> QED
  BY <1>1, <1>2

-----------------------------------------------------------------------------
(* The invariant holds. *)

\* Nobody has begun: no key, no endpoint, no lock, no daemon.
LEMMA InvInit == Init => Inv
<1> SUFFICES ASSUME Init PROVE Inv
  OBVIOUS
<1> USE DEF Init
<1>1. Types
  BY DEF Types, Places
<1>2. Singles /\ LockInv /\ KeyInv
  BY DEF Singles, LockInv, LockHeld, KeyInv, Locking
<1>3. StartInv /\ DaemonInv
  BY DEF StartInv, DaemonInv, Live
<1> QED
  BY <1>1, <1>2, <1>3 DEF Inv

\* Every step keeps the variables in their sets.
LEMMA TypesStep == ASSUME Types, Next PROVE Types'
<1> USE DEF Types, Places, Locking, keyVars, daemonVars
<1>1. ASSUME NEW s \in Setups, ReadKey(s) PROVE Types'
  BY <1>1 DEF ReadKey, Readable
<1>2. ASSUME NEW s \in Setups, KeyAbsent(s) PROVE Types'
  BY <1>2 DEF KeyAbsent, Goto
<1>3. ASSUME NEW s \in Setups, ReadKeyFails(s) PROVE Types'
  BY <1>3 DEF ReadKeyFails, Readable
<1>4. ASSUME NEW s \in Setups, CreateKey(s) PROVE Types'
  <2>1. CASE keyFile = {}
    <3>1. keyFile' = {[by |-> s, whole |-> FALSE]} /\ Goto(s, "create", "write")
      BY <1>4, <2>1 DEF CreateKey
    <3>2. keyFile' \subseteq [by : Setups, whole : BOOLEAN]
      BY <3>1
    <3> QED
      BY <1>4, <3>1, <3>2 DEF CreateKey, Goto
  <2>2. CASE keyFile # {}
    BY <1>4, <2>2 DEF CreateKey, Goto
  <2> QED
    BY <2>1, <2>2
<1>5. ASSUME NEW s \in Setups, WriteKey(s) PROVE Types'
  BY <1>5 DEF WriteKey, Goto, WrittenBy
<1>6. ASSUME NEW s \in Setups, SyncKey(s) PROVE Types'
  BY <1>6 DEF SyncKey, Goto
<1>7. ASSUME NEW s \in Setups, Find(s) PROVE Types'
  BY <1>7 DEF Find, GoOn, Goto, Answering, Loaded
<1>8. ASSUME NEW s \in Setups, Lock(s) PROVE Types'
  BY <1>8 DEF Lock, Goto
<1>9. ASSUME NEW s \in Setups, LockFails(s) PROVE Types'
  BY <1>9 DEF LockFails, GoOn, Goto
<1>10. ASSUME NEW s \in Setups, WaitFinds(s) PROVE Types'
  BY <1>10 DEF WaitFinds, GoOn, Goto, Answering, Loaded
<1>11. ASSUME NEW s \in Setups, WaitTimesOut(s) PROVE Types'
  BY <1>11 DEF WaitTimesOut, GoOn, Goto
<1>12. ASSUME NEW s \in Setups, Recheck(s) PROVE Types'
  BY <1>12 DEF Recheck, GoOn, Goto, Answering, Loaded
<1>13. ASSUME NEW s \in Setups, RemoveEndpoint(s) PROVE Types'
  BY <1>13 DEF RemoveEndpoint, Goto
<1>14. ASSUME NEW s \in Setups, Launch(s) PROVE Types'
  BY <1>14 DEF Launch, Goto
<1>15. ASSUME NEW s \in Setups, LaunchFails(s) PROVE Types'
  BY <1>15 DEF LaunchFails, GoOn, Goto
<1>16. ASSUME NEW s \in Setups, PollFinds(s) PROVE Types'
  BY <1>16 DEF PollFinds, GoOn, Goto, Answering, Loaded
<1>17. ASSUME NEW s \in Setups, PollSeesEnd(s) PROVE Types'
  BY <1>17 DEF PollSeesEnd, GoOn, Goto, Children
<1>18. ASSUME NEW s \in Setups, PollTimesOut(s) PROVE Types'
  BY <1>18 DEF PollTimesOut, GoOn, Goto, Children
<1>19. ASSUME NEW s \in Setups, WriteKeyFails(s) PROVE Types'
  BY <1>19 DEF WriteKeyFails, Fault
<1>20. ASSUME NEW s \in Setups, PingFails(s) PROVE Types'
  BY <1>20 DEF PingFails, Goto, Fault, Answering, Loaded
<1>21. ASSUME NEW s \in Setups, Crash(s) PROVE Types'
  BY <1>21 DEF Crash, Fault
<1>22. ASSUME NEW d \in Daemons, DaemonReady(d) PROVE Types'
  BY <1>22 DEF DaemonReady
<1>23. ASSUME NEW d \in Daemons, DaemonEnds(d) PROVE Types'
  BY <1>23 DEF DaemonEnds
<1> QED
  BY <1>1, <1>2, <1>3, <1>4, <1>5, <1>6, <1>7, <1>8, <1>9, <1>10, <1>11, <1>12, <1>13,
     <1>14, <1>15, <1>16, <1>17, <1>18, <1>19, <1>20, <1>21, <1>22, <1>23 DEF Next, Steps

\* There is one key file and one endpoint.
LEMMA SinglesStep == ASSUME Singles, Next PROVE Singles'
<1> USE DEF Singles, keyVars, daemonVars
<1>1. ASSUME NEW s \in Setups, ReadKey(s) PROVE Singles'
  BY <1>1 DEF ReadKey, Readable
<1>2. ASSUME NEW s \in Setups, KeyAbsent(s) PROVE Singles'
  BY <1>2 DEF KeyAbsent, Goto
<1>3. ASSUME NEW s \in Setups, ReadKeyFails(s) PROVE Singles'
  BY <1>3 DEF ReadKeyFails, Readable
<1>4. ASSUME NEW s \in Setups, CreateKey(s) PROVE Singles'
  BY <1>4 DEF CreateKey, Goto
<1>5. ASSUME NEW s \in Setups, WriteKey(s) PROVE Singles'
  BY <1>5 DEF WriteKey, Goto, WrittenBy
<1>6. ASSUME NEW s \in Setups, SyncKey(s) PROVE Singles'
  BY <1>6 DEF SyncKey, Goto
<1>7. ASSUME NEW s \in Setups, Find(s) PROVE Singles'
  BY <1>7 DEF Find, GoOn, Goto, Answering, Loaded
<1>8. ASSUME NEW s \in Setups, Lock(s) PROVE Singles'
  BY <1>8 DEF Lock, Goto
<1>9. ASSUME NEW s \in Setups, LockFails(s) PROVE Singles'
  BY <1>9 DEF LockFails, GoOn, Goto
<1>10. ASSUME NEW s \in Setups, WaitFinds(s) PROVE Singles'
  BY <1>10 DEF WaitFinds, GoOn, Goto, Answering, Loaded
<1>11. ASSUME NEW s \in Setups, WaitTimesOut(s) PROVE Singles'
  BY <1>11 DEF WaitTimesOut, GoOn, Goto
<1>12. ASSUME NEW s \in Setups, Recheck(s) PROVE Singles'
  BY <1>12 DEF Recheck, GoOn, Goto, Answering, Loaded
<1>13. ASSUME NEW s \in Setups, RemoveEndpoint(s) PROVE Singles'
  BY <1>13 DEF RemoveEndpoint, Goto
<1>14. ASSUME NEW s \in Setups, Launch(s) PROVE Singles'
  BY <1>14 DEF Launch, Goto
<1>15. ASSUME NEW s \in Setups, LaunchFails(s) PROVE Singles'
  BY <1>15 DEF LaunchFails, GoOn, Goto
<1>16. ASSUME NEW s \in Setups, PollFinds(s) PROVE Singles'
  BY <1>16 DEF PollFinds, GoOn, Goto, Answering, Loaded
<1>17. ASSUME NEW s \in Setups, PollSeesEnd(s) PROVE Singles'
  BY <1>17 DEF PollSeesEnd, GoOn, Goto, Children
<1>18. ASSUME NEW s \in Setups, PollTimesOut(s) PROVE Singles'
  BY <1>18 DEF PollTimesOut, GoOn, Goto, Children
<1>19. ASSUME NEW s \in Setups, WriteKeyFails(s) PROVE Singles'
  BY <1>19 DEF WriteKeyFails, Fault
<1>20. ASSUME NEW s \in Setups, PingFails(s) PROVE Singles'
  BY <1>20 DEF PingFails, Goto, Fault, Answering, Loaded
<1>21. ASSUME NEW s \in Setups, Crash(s) PROVE Singles'
  BY <1>21 DEF Crash, Fault
<1>22. ASSUME NEW d \in Daemons, DaemonReady(d) PROVE Singles'
  BY <1>22 DEF DaemonReady
<1>23. ASSUME NEW d \in Daemons, DaemonEnds(d) PROVE Singles'
  BY <1>23 DEF DaemonEnds
<1> QED
  BY <1>1, <1>2, <1>3, <1>4, <1>5, <1>6, <1>7, <1>8, <1>9, <1>10, <1>11, <1>12, <1>13,
     <1>14, <1>15, <1>16, <1>17, <1>18, <1>19, <1>20, <1>21, <1>22, <1>23 DEF Next, Steps

\* The lock is taken when it is free, and let go of with the last step under it.
LEMMA LockStep == ASSUME Types, LockInv, Next PROVE LockInv'
<1> USE DEF LockInv, LockHeld, Locking, Types, Places, keyVars, daemonVars
<1>1. ASSUME NEW s \in Setups, ReadKey(s) PROVE LockInv'
  BY <1>1 DEF ReadKey, Readable
<1>2. ASSUME NEW s \in Setups, KeyAbsent(s) PROVE LockInv'
  BY <1>2 DEF KeyAbsent, Goto
<1>3. ASSUME NEW s \in Setups, ReadKeyFails(s) PROVE LockInv'
  BY <1>3 DEF ReadKeyFails, Readable
<1>4. ASSUME NEW s \in Setups, CreateKey(s) PROVE LockInv'
  BY <1>4 DEF CreateKey, Goto
<1>5. ASSUME NEW s \in Setups, WriteKey(s) PROVE LockInv'
  BY <1>5 DEF WriteKey, Goto, WrittenBy
<1>6. ASSUME NEW s \in Setups, SyncKey(s) PROVE LockInv'
  BY <1>6 DEF SyncKey, Goto
<1>7. ASSUME NEW s \in Setups, Find(s) PROVE LockInv'
  BY <1>7 DEF Find, GoOn, Goto, Answering, Loaded
<1>8. ASSUME NEW s \in Setups, Lock(s) PROVE LockInv'
  BY <1>8 DEF Lock, Goto
<1>9. ASSUME NEW s \in Setups, LockFails(s) PROVE LockInv'
  BY <1>9 DEF LockFails, GoOn, Goto
<1>10. ASSUME NEW s \in Setups, WaitFinds(s) PROVE LockInv'
  BY <1>10 DEF WaitFinds, GoOn, Goto, Answering, Loaded
<1>11. ASSUME NEW s \in Setups, WaitTimesOut(s) PROVE LockInv'
  BY <1>11 DEF WaitTimesOut, GoOn, Goto
<1>12. ASSUME NEW s \in Setups, Recheck(s) PROVE LockInv'
  BY <1>12 DEF Recheck, GoOn, Goto, Answering, Loaded
<1>13. ASSUME NEW s \in Setups, RemoveEndpoint(s) PROVE LockInv'
  BY <1>13 DEF RemoveEndpoint, Goto
<1>14. ASSUME NEW s \in Setups, Launch(s) PROVE LockInv'
  BY <1>14 DEF Launch, Goto
<1>15. ASSUME NEW s \in Setups, LaunchFails(s) PROVE LockInv'
  BY <1>15 DEF LaunchFails, GoOn, Goto
<1>16. ASSUME NEW s \in Setups, PollFinds(s) PROVE LockInv'
  BY <1>16 DEF PollFinds, GoOn, Goto, Answering, Loaded
<1>17. ASSUME NEW s \in Setups, PollSeesEnd(s) PROVE LockInv'
  BY <1>17 DEF PollSeesEnd, GoOn, Goto, Children
<1>18. ASSUME NEW s \in Setups, PollTimesOut(s) PROVE LockInv'
  BY <1>18 DEF PollTimesOut, GoOn, Goto, Children
<1>19. ASSUME NEW s \in Setups, WriteKeyFails(s) PROVE LockInv'
  BY <1>19 DEF WriteKeyFails, Fault
<1>20. ASSUME NEW s \in Setups, PingFails(s) PROVE LockInv'
  BY <1>20 DEF PingFails, Goto, Fault, Answering, Loaded
<1>21. ASSUME NEW s \in Setups, Crash(s) PROVE LockInv'
  BY <1>21 DEF Crash, Fault
<1>22. ASSUME NEW d \in Daemons, DaemonReady(d) PROVE LockInv'
  BY <1>22 DEF DaemonReady
<1>23. ASSUME NEW d \in Daemons, DaemonEnds(d) PROVE LockInv'
  BY <1>23 DEF DaemonEnds
<1> QED
  BY <1>1, <1>2, <1>3, <1>4, <1>5, <1>6, <1>7, <1>8, <1>9, <1>10, <1>11, <1>12, <1>13,
     <1>14, <1>15, <1>16, <1>17, <1>18, <1>19, <1>20, <1>21, <1>22, <1>23 DEF Next, Steps

\* Nobody but the creator of the file writes or removes it.
LEMMA KeyStep == ASSUME Types, Singles, KeyInv, Next PROVE KeyInv'
<1> USE DEF KeyInv, WrittenBy, Types, Places, Locking, keyVars, daemonVars
<1>1. ASSUME NEW s \in Setups, ReadKey(s) PROVE KeyInv'
  <2>1. PICK f \in keyFile : f.whole
    BY <1>1 DEF ReadKey, Readable
  <2>2. f \in [by : Setups, whole : BOOLEAN]
    BY <2>1
  <2>3. f = WrittenBy(f.by)
    BY <2>1, <2>2
  <2>4. keyFile = {f}
    BY <2>1 DEF Singles
  <2>5. {g.by : g \in Readable} = {f.by}
    BY <2>1, <2>4 DEF Readable
  <2>6. key' = [key EXCEPT ![s] = {f.by}] /\ keyFile' = {WrittenBy(f.by)}
    BY <1>1, <2>3, <2>4, <2>5 DEF ReadKey
  <2>7. ASSUME NEW t \in Setups, NEW w \in key'[t], "sync" \notin faults'
        PROVE  keyFile' = {WrittenBy(w)}
    <3>1. CASE t = s
      BY <2>6, <2>7, <3>1
    <3>2. CASE t # s
      <4>1. w \in key[t] /\ "sync" \notin faults /\ keyFile' = keyFile
        BY <1>1, <2>7, <3>2 DEF ReadKey
      <4> QED
        BY <4>1
    <3> QED
      BY <3>1, <3>2
  <2>8. \A t \in Setups : setup'[t] \in {"write", "sync"} => setup'[t] = setup[t]
    BY <1>1 DEF ReadKey
  <2> QED
    BY <1>1, <2>7, <2>8 DEF ReadKey
<1>2. ASSUME NEW s \in Setups, KeyAbsent(s) PROVE KeyInv'
  BY <1>2 DEF KeyAbsent, Goto
<1>3. ASSUME NEW s \in Setups, ReadKeyFails(s) PROVE KeyInv'
  BY <1>3 DEF ReadKeyFails, Readable
<1>4. ASSUME NEW s \in Setups, CreateKey(s) PROVE KeyInv'
  BY <1>4 DEF CreateKey, Goto
<1>5. ASSUME NEW s \in Setups, WriteKey(s) PROVE KeyInv'
  <2>1. keyFile = {[by |-> s, whole |-> FALSE]} /\ keyFile' = {WrittenBy(s)}
    BY <1>5 DEF WriteKey, Goto
  <2>2. ASSUME NEW t \in Setups, setup[t] \in {"write", "sync"} PROVE t = s
    <3>1. \E b \in BOOLEAN : keyFile = {[by |-> t, whole |-> b]}
      BY <2>2
    <3>2. PICK b \in BOOLEAN : {[by |-> t, whole |-> b]} = {[by |-> s, whole |-> FALSE]}
      BY <2>1, <3>1
    <3>3. [by |-> t, whole |-> b].by = [by |-> s, whole |-> FALSE].by
      BY <3>2
    <3> QED
      BY <3>3
  <2>3. ASSUME "sync" \notin faults, NEW t \in Setups, NEW w \in key[t] PROVE FALSE
    <3>1. {[by |-> w, whole |-> TRUE]} = {[by |-> s, whole |-> FALSE]}
      BY <2>1, <2>3
    <3>2. [by |-> w, whole |-> TRUE].whole = [by |-> s, whole |-> FALSE].whole
      BY <3>1
    <3> QED
      BY <3>2
  <2>4. /\ setup' = [setup EXCEPT ![s] = "sync"] /\ UNCHANGED <<key, faults>>
    BY <1>5 DEF WriteKey, Goto
  <2> QED
    BY <2>1, <2>2, <2>3, <2>4
<1>6. ASSUME NEW s \in Setups, SyncKey(s) PROVE KeyInv'
  BY <1>6 DEF SyncKey, Goto
<1>7. ASSUME NEW s \in Setups, Find(s) PROVE KeyInv'
  BY <1>7 DEF Find, GoOn, Goto, Answering, Loaded
<1>8. ASSUME NEW s \in Setups, Lock(s) PROVE KeyInv'
  BY <1>8 DEF Lock, Goto
<1>9. ASSUME NEW s \in Setups, LockFails(s) PROVE KeyInv'
  BY <1>9 DEF LockFails, GoOn, Goto
<1>10. ASSUME NEW s \in Setups, WaitFinds(s) PROVE KeyInv'
  BY <1>10 DEF WaitFinds, GoOn, Goto, Answering, Loaded
<1>11. ASSUME NEW s \in Setups, WaitTimesOut(s) PROVE KeyInv'
  BY <1>11 DEF WaitTimesOut, GoOn, Goto
<1>12. ASSUME NEW s \in Setups, Recheck(s) PROVE KeyInv'
  BY <1>12 DEF Recheck, GoOn, Goto, Answering, Loaded
<1>13. ASSUME NEW s \in Setups, RemoveEndpoint(s) PROVE KeyInv'
  BY <1>13 DEF RemoveEndpoint, Goto
<1>14. ASSUME NEW s \in Setups, Launch(s) PROVE KeyInv'
  BY <1>14 DEF Launch, Goto
<1>15. ASSUME NEW s \in Setups, LaunchFails(s) PROVE KeyInv'
  BY <1>15 DEF LaunchFails, GoOn, Goto
<1>16. ASSUME NEW s \in Setups, PollFinds(s) PROVE KeyInv'
  BY <1>16 DEF PollFinds, GoOn, Goto, Answering, Loaded
<1>17. ASSUME NEW s \in Setups, PollSeesEnd(s) PROVE KeyInv'
  BY <1>17 DEF PollSeesEnd, GoOn, Goto, Children
<1>18. ASSUME NEW s \in Setups, PollTimesOut(s) PROVE KeyInv'
  BY <1>18 DEF PollTimesOut, GoOn, Goto, Children
<1>19. ASSUME NEW s \in Setups, WriteKeyFails(s) PROVE KeyInv'
  BY <1>19 DEF WriteKeyFails, Fault
<1>20. ASSUME NEW s \in Setups, PingFails(s) PROVE KeyInv'
  BY <1>20 DEF PingFails, Goto, Fault, Answering, Loaded
<1>21. ASSUME NEW s \in Setups, Crash(s) PROVE KeyInv'
  BY <1>21 DEF Crash, Fault
<1>22. ASSUME NEW d \in Daemons, DaemonReady(d) PROVE KeyInv'
  BY <1>22 DEF DaemonReady
<1>23. ASSUME NEW d \in Daemons, DaemonEnds(d) PROVE KeyInv'
  BY <1>23 DEF DaemonEnds
<1> QED
  BY <1>1, <1>2, <1>3, <1>4, <1>5, <1>6, <1>7, <1>8, <1>9, <1>10, <1>11, <1>12, <1>13,
     <1>14, <1>15, <1>16, <1>17, <1>18, <1>19, <1>20, <1>21, <1>22, <1>23 DEF Next, Steps

\* Launching is under the lock, after a look that no daemon of this executable answers.
LEMMA StartStep == ASSUME Types, Singles, LockInv, StartInv, Next PROVE StartInv'
<1> USE DEF StartInv, Quiet, Answering, Loaded, LockInv, LockHeld, Types, Places, Locking, keyVars, daemonVars
<1>1. ASSUME NEW s \in Setups, ReadKey(s) PROVE StartInv'
  BY <1>1 DEF ReadKey, Readable
<1>2. ASSUME NEW s \in Setups, KeyAbsent(s) PROVE StartInv'
  BY <1>2 DEF KeyAbsent, Goto
<1>3. ASSUME NEW s \in Setups, ReadKeyFails(s) PROVE StartInv'
  BY <1>3 DEF ReadKeyFails, Readable
<1>4. ASSUME NEW s \in Setups, CreateKey(s) PROVE StartInv'
  BY <1>4 DEF CreateKey, Goto
<1>5. ASSUME NEW s \in Setups, WriteKey(s) PROVE StartInv'
  BY <1>5 DEF WriteKey, Goto, WrittenBy
<1>6. ASSUME NEW s \in Setups, SyncKey(s) PROVE StartInv'
  BY <1>6 DEF SyncKey, Goto
<1>7. ASSUME NEW s \in Setups, Find(s) PROVE StartInv'
  BY <1>7 DEF Find, GoOn, Goto
<1>8. ASSUME NEW s \in Setups, Lock(s) PROVE StartInv'
  BY <1>8 DEF Lock, Goto
<1>9. ASSUME NEW s \in Setups, LockFails(s) PROVE StartInv'
  BY <1>9 DEF LockFails, GoOn, Goto
<1>10. ASSUME NEW s \in Setups, WaitFinds(s) PROVE StartInv'
  BY <1>10 DEF WaitFinds, GoOn, Goto
<1>11. ASSUME NEW s \in Setups, WaitTimesOut(s) PROVE StartInv'
  BY <1>11 DEF WaitTimesOut, GoOn, Goto
<1>12. ASSUME NEW s \in Setups, Recheck(s) PROVE StartInv'
  BY <1>12 DEF Recheck, GoOn, Goto
<1>13. ASSUME NEW s \in Setups, RemoveEndpoint(s) PROVE StartInv'
  BY <1>13 DEF RemoveEndpoint, Goto
<1>14. ASSUME NEW s \in Setups, Launch(s) PROVE StartInv'
  BY <1>14 DEF Launch, Goto
<1>15. ASSUME NEW s \in Setups, LaunchFails(s) PROVE StartInv'
  BY <1>15 DEF LaunchFails, GoOn, Goto
<1>16. ASSUME NEW s \in Setups, PollFinds(s) PROVE StartInv'
  BY <1>16 DEF PollFinds, GoOn, Goto
<1>17. ASSUME NEW s \in Setups, PollSeesEnd(s) PROVE StartInv'
  BY <1>17 DEF PollSeesEnd, GoOn, Goto, Children
<1>18. ASSUME NEW s \in Setups, PollTimesOut(s) PROVE StartInv'
  BY <1>18 DEF PollTimesOut, GoOn, Goto, Children
<1>19. ASSUME NEW s \in Setups, WriteKeyFails(s) PROVE StartInv'
  BY <1>19 DEF WriteKeyFails, Fault
<1>20. ASSUME NEW s \in Setups, PingFails(s) PROVE StartInv'
  BY <1>20 DEF PingFails, Goto, Fault
<1>21. ASSUME NEW s \in Setups, Crash(s) PROVE StartInv'
  BY <1>21 DEF Crash, Fault
<1>22. ASSUME NEW d \in Daemons, DaemonReady(d) PROVE StartInv'
  BY <1>22 DEF DaemonReady
<1>23. ASSUME NEW d \in Daemons, DaemonEnds(d) PROVE StartInv'
  BY <1>23 DEF DaemonEnds
<1> QED
  BY <1>1, <1>2, <1>3, <1>4, <1>5, <1>6, <1>7, <1>8, <1>9, <1>10, <1>11, <1>12, <1>13,
     <1>14, <1>15, <1>16, <1>17, <1>18, <1>19, <1>20, <1>21, <1>22, <1>23 DEF Next, Steps

\* What the endpoint named and did not answer was another executable's.
LEMMA DaemonStep == ASSUME Types, Singles, LockInv, StartInv, DaemonInv, Next PROVE DaemonInv'
<1> USE DEF DaemonInv, Quiet, Live, LockInv, LockHeld, Types, Places, Locking, keyVars, daemonVars
<1>1. ASSUME NEW s \in Setups, ReadKey(s) PROVE DaemonInv'
  BY <1>1 DEF ReadKey, Readable
<1>2. ASSUME NEW s \in Setups, KeyAbsent(s) PROVE DaemonInv'
  BY <1>2 DEF KeyAbsent, Goto
<1>3. ASSUME NEW s \in Setups, ReadKeyFails(s) PROVE DaemonInv'
  BY <1>3 DEF ReadKeyFails, Readable
<1>4. ASSUME NEW s \in Setups, CreateKey(s) PROVE DaemonInv'
  BY <1>4 DEF CreateKey, Goto
<1>5. ASSUME NEW s \in Setups, WriteKey(s) PROVE DaemonInv'
  BY <1>5 DEF WriteKey, Goto, WrittenBy
<1>6. ASSUME NEW s \in Setups, SyncKey(s) PROVE DaemonInv'
  BY <1>6 DEF SyncKey, Goto
<1>7. ASSUME NEW s \in Setups, Find(s) PROVE DaemonInv'
  BY <1>7 DEF Find, GoOn, Goto, Answering, Loaded
<1>8. ASSUME NEW s \in Setups, Lock(s) PROVE DaemonInv'
  BY <1>8 DEF Lock, Goto
<1>9. ASSUME NEW s \in Setups, LockFails(s) PROVE DaemonInv'
  BY <1>9 DEF LockFails, GoOn, Goto
<1>10. ASSUME NEW s \in Setups, WaitFinds(s) PROVE DaemonInv'
  BY <1>10 DEF WaitFinds, GoOn, Goto, Answering, Loaded
<1>11. ASSUME NEW s \in Setups, WaitTimesOut(s) PROVE DaemonInv'
  BY <1>11 DEF WaitTimesOut, GoOn, Goto
<1>12. ASSUME NEW s \in Setups, Recheck(s) PROVE DaemonInv'
  BY <1>12 DEF Recheck, GoOn, Goto, Answering, Loaded
<1>13. ASSUME NEW s \in Setups, RemoveEndpoint(s) PROVE DaemonInv'
  <2> SUFFICES ASSUME Quiet, ~displaced' PROVE
        /\ \A d \in Daemons : daemon'[d] = "ready" => endpoint' = {d}
        /\ \A t \in Setups : setup'[t] = "launch" => Live' = {}
        /\ \A d, e \in Live' : d = e
    BY <1>13 DEF RemoveEndpoint
  <2>1. /\ setup[s] = "remove" /\ ~displaced /\ daemon' = daemon
        /\ ~ \E d \in endpoint \ Loaded(s) : daemon[d] = "ready"
    BY <1>13 DEF RemoveEndpoint, Goto
  <2>2. Answering(s) = {}
    BY <2>1 DEF StartInv
  <2>3. \A d \in Daemons : daemon[d] # "ready"
    BY <2>1, <2>2 DEF Answering
  <2>4. \A d \in Daemons : daemon[d] # "starting"
    <3>1. SUFFICES ASSUME NEW d \in Daemons, daemon[d] = "starting" PROVE FALSE
      OBVIOUS
    <3>2. PICK t \in Setups : setup[t] = "poll"
      BY <3>1 DEF StartInv
    <3> QED
      BY <2>1, <3>2
  <2> QED
    BY <2>1, <2>3, <2>4
<1>14. ASSUME NEW s \in Setups, Launch(s) PROVE DaemonInv'
  BY <1>14 DEF Launch, Goto
<1>15. ASSUME NEW s \in Setups, LaunchFails(s) PROVE DaemonInv'
  BY <1>15 DEF LaunchFails, GoOn, Goto
<1>16. ASSUME NEW s \in Setups, PollFinds(s) PROVE DaemonInv'
  BY <1>16 DEF PollFinds, GoOn, Goto, Answering, Loaded
<1>17. ASSUME NEW s \in Setups, PollSeesEnd(s) PROVE DaemonInv'
  BY <1>17 DEF PollSeesEnd, GoOn, Goto, Children
<1>18. ASSUME NEW s \in Setups, PollTimesOut(s) PROVE DaemonInv'
  BY <1>18 DEF PollTimesOut, GoOn, Goto, Children
<1>19. ASSUME NEW s \in Setups, WriteKeyFails(s) PROVE DaemonInv'
  BY <1>19 DEF WriteKeyFails, Fault
<1>20. ASSUME NEW s \in Setups, PingFails(s) PROVE DaemonInv'
  BY <1>20 DEF PingFails, Goto, Fault, Answering, Loaded
<1>21. ASSUME NEW s \in Setups, Crash(s) PROVE DaemonInv'
  BY <1>21 DEF Crash, Fault
<1>22. ASSUME NEW d \in Daemons, DaemonReady(d) PROVE DaemonInv'
  BY <1>22 DEF DaemonReady
<1>23. ASSUME NEW d \in Daemons, DaemonEnds(d) PROVE DaemonInv'
  BY <1>23 DEF DaemonEnds
<1> QED
  BY <1>1, <1>2, <1>3, <1>4, <1>5, <1>6, <1>7, <1>8, <1>9, <1>10, <1>11, <1>12, <1>13,
     <1>14, <1>15, <1>16, <1>17, <1>18, <1>19, <1>20, <1>21, <1>22, <1>23 DEF Next, Steps

\* A step that changes nothing changes no part of it.
LEMMA InvStutter == Inv /\ UNCHANGED vars => Inv'
  BY DEF vars, Inv, Types, Singles, LockInv, LockHeld, KeyInv, StartInv, DaemonInv, Live, Quiet, Answering, Loaded

\* Whatever setups and daemons do, in any order and with any faults, the lock, the key
\* file and the endpoint stay as catalogKeyForPrivateRoot and ensureAcquisitionDaemon
\* mean them.
THEOREM Invariance == Spec => []Inv
<1>1. Inv /\ [Next]_vars => Inv'
  BY TypesStep, SinglesStep, LockStep, KeyStep, StartStep, DaemonStep, InvStutter DEF Inv
<1> QED
  BY InvInit, <1>1, PTL DEF Spec

-----------------------------------------------------------------------------
(* What follows from it. *)

\* The startup lock is with the setup that checks, removes, launches and polls, and
\* with nobody once all have gone on (the deferred releaseStartupLock).
THEOREM LockIsHeld == Spec => []LockHeld
<1>1. Inv => LockHeld
  BY DEF Inv, LockInv
<1> QED
  BY Invariance, <1>1, PTL

\* What Types and Singles say is what TypeOK says with cardinalities.
LEMMA InvTypeOK == Inv => TypeOK
<1> SUFFICES ASSUME Inv PROVE TypeOK
  OBVIOUS
<1>1. Cardinality(keyFile) <= 1 /\ Cardinality(endpoint) <= 1 /\ Cardinality(startLock) <= 1
  BY AtMostOne DEF Inv, Singles, LockInv
<1> QED
  BY <1>1 DEF Inv, Types, TypeOK, Places

\* The keys in use are all the key in the file.
LEMMA InvKeysAgree == Inv => KeysAgree
<1> SUFFICES ASSUME Inv, "sync" \notin faults PROVE Cardinality(UNION {key[s] : s \in Setups}) <= 1
  BY DEF KeysAgree
<1> DEFINE K == UNION {key[s] : s \in Setups}
<1>1. ASSUME NEW v \in K, NEW w \in K PROVE v = w
  <2>1. keyFile = {WrittenBy(v)} /\ keyFile = {WrittenBy(w)}
    BY <1>1 DEF Inv, KeyInv
  <2>2. WrittenBy(v) = WrittenBy(w)
    BY <2>1
  <2> QED
    BY <2>2 DEF WrittenBy
<1> QED
  BY <1>1, AtMostOne

\* At most one daemon lives.
LEMMA InvOneDaemon == Inv => OneDaemon
<1> SUFFICES ASSUME Inv, Quiet, ~displaced PROVE Cardinality(Live) <= 1
  BY DEF OneDaemon, Quiet, Live
<1>1. \A d, e \in Live : d = e
  BY DEF Inv, DaemonInv
<1> QED
  BY <1>1, AtMostOne

\* However many setups run at once, they use one catalog key, and one daemon at most
\* starts or serves, until setups of two executables have taken turns (catalogKeyForPrivateRoot, ensureAcquisitionDaemon).
THEOREM OneKeyOneDaemon == Spec => []OneOfEach
<1>1. Inv => OneOfEach
  BY InvTypeOK, InvKeysAgree, InvOneDaemon DEF OneOfEach
<1> QED
  BY Invariance, <1>1, PTL

\* No setup takes the endpoint away of a daemon of its own executable that answers
\* (the os.Remove of ensureAcquisitionDaemon).
THEOREM EndpointIsKept == Spec => EndpointKept
<1>1. ASSUME Inv, NEW s \in Setups, RemoveEndpoint(s), faults \subseteq {"write", "sync"}
      PROVE  Answering(s) = {}
  BY <1>1 DEF Inv, StartInv, Quiet, RemoveEndpoint, Goto
<1>2. Inv => [\A s \in Setups :
                RemoveEndpoint(s) /\ faults \subseteq {"write", "sync"} => Answering(s) = {}]_vars
  BY <1>1 DEF vars
<1> QED
  BY Invariance, <1>2, PTL DEF EndpointKept
=============================================================================
