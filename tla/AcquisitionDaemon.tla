-------------------------- MODULE AcquisitionDaemon --------------------------
(***************************************************************************)
(* How setups of several accounts come to share one acquisition daemon,    *)
(* and one catalog key: the key file is created by whoever comes first,    *)
(* the daemon started by whoever takes the startup lock, and found by the  *)
(* others in the endpoint file it writes once it is ready.  The account    *)
(* lock of a setup does not protect any of these: they belong to the       *)
(* private root.  The daemon is a process of the key provider (external);  *)
(* it survives the setup that started it, and ends when it likes.  The     *)
(* search is never cancelled: its context is context.Background().  An     *)
(* endpoint counts for setups of the CLI executable that started its       *)
(* daemon only: to those of another one it is as good as absent.           *)
(***************************************************************************)
EXTENDS Naturals, FiniteSets

CONSTANTS
  Setups,     \* runs of "setup", each of an account of its own
  Others,     \* those of another CLI executable, with the same private root
  Daemons,    \* runs of "daemon serve"
  MaxFaults   \* bound on the kinds of faults that happen

ASSUME MaxFaultsAssumption == MaxFaults \in Nat
ASSUME OthersAssumption == Others \subseteq Setups

VARIABLES
  keyFile,    \* the catalog key file: absent ({}), or who wrote it and whether wholly
  endpoint,   \* the daemon the endpoint file names, as a set of at most one
  daemon,     \* where each daemon is
  starter,    \* who started each daemon
  startLock,  \* the setup that holds the startup lock, as a set of at most one
  setup,      \* where each setup is
  key,        \* the catalog key each setup goes on with, as a set of at most one
  given,      \* the daemon each setup was given, as a set of at most one
  displaced,  \* a setup took the endpoint of another executable's daemon away
  faults      \* the faults that happened

keyVars == <<keyFile, key>>
daemonVars == <<endpoint, daemon, starter, startLock, given, displaced>>
vars == <<keyFile, endpoint, daemon, starter, startLock, setup, key, given, displaced, faults>>

Init ==
  /\ keyFile = {} /\ endpoint = {} /\ startLock = {} /\ displaced = FALSE /\ faults = {}
  /\ daemon = [d \in Daemons |-> "none"]
  /\ starter = [d \in Daemons |-> {}]
  /\ setup = [s \in Setups |-> "key"]
  /\ key = [s \in Setups |-> {}]
  /\ given = [s \in Setups |-> {}]

Goto(s, from, to) == setup[s] = from /\ setup' = [setup EXCEPT ![s] = to]

Fault(kind) ==
  /\ kind \notin faults /\ Cardinality(faults) < MaxFaults
  /\ faults' = faults \union {kind}

Locking == {"recheck", "remove", "launch", "poll"}

----------------------------------------------------------------------------
(* The catalog key: catalogKeyForPrivateRoot. *)

WrittenBy(s) == [by |-> s, whole |-> TRUE]
Readable == {f \in keyFile : f.whole}

\* The key in the file is taken when it is whole.
ReadKey(s) ==
  /\ Readable # {}
  /\ setup[s] \in {"key", "reread"}
  /\ setup' = [setup EXCEPT ![s] = "find"]
  /\ key' = [key EXCEPT ![s] = {f.by : f \in Readable}]
  /\ UNCHANGED <<keyFile, daemonVars, faults>>

KeyAbsent(s) ==
  /\ keyFile = {}
  /\ Goto(s, "key", "create")
  /\ UNCHANGED <<keyVars, daemonVars, faults>>

\* After eight attempts a file that is not whole, or gone, is an error.
ReadKeyFails(s) ==
  /\ \/ keyFile # Readable /\ setup[s] \in {"key", "reread"}
     \/ keyFile = {} /\ setup[s] = "reread"
  /\ setup' = [setup EXCEPT ![s] = "failed"]
  /\ UNCHANGED <<keyVars, daemonVars, faults>>

\* Fault: the file is created whether it exists or not.
CreateAnyKey(s) ==
  /\ Goto(s, "create", "write")
  /\ keyFile' = {[by |-> s, whole |-> FALSE]}
  /\ UNCHANGED <<key, daemonVars, faults>>

\* O_CREATE with O_EXCL: one creates it, the others read it again.
CreateKey(s) ==
  /\ IF keyFile = {}
     THEN Goto(s, "create", "write") /\ keyFile' = {[by |-> s, whole |-> FALSE]}
     ELSE Goto(s, "create", "reread") /\ UNCHANGED keyFile
  /\ UNCHANGED <<key, daemonVars, faults>>

WriteKey(s) ==
  /\ Goto(s, "write", "sync")
  /\ keyFile' = {WrittenBy(s)}
  /\ UNCHANGED <<key, daemonVars, faults>>

\* Synced and closed, the key is used.
SyncKey(s) ==
  /\ Goto(s, "sync", "find")
  /\ key' = [key EXCEPT ![s] = {s}]
  /\ UNCHANGED <<keyFile, daemonVars, faults>>

\* A failing write or sync takes the file away again.
WriteKeyFails(s) ==
  /\ Fault(setup[s])
  /\ setup[s] \in {"write", "sync"}
  /\ setup' = [setup EXCEPT ![s] = "failed"]
  /\ keyFile' = {}
  /\ UNCHANGED <<key, daemonVars>>

----------------------------------------------------------------------------
(* The daemon: ensureAcquisitionDaemon. *)

\* The endpoint as setup s loads it: it must name the executable s runs from as its
\* client, which is that of the setup that started the daemon.
Loaded(s) == {d \in endpoint : \A t \in starter[d] : t \in Others <=> s \in Others}

\* A daemon that is ready answers the ping of who loads its endpoint.
Answering(s) == {d \in Loaded(s) : daemon[d] = "ready"}

\* The setup goes on with a daemon, or without: to the one-shot provider.
GoOn(s, from, D) ==
  /\ Goto(s, from, IF D = {} THEN "oneshot" ELSE "daemon")
  /\ given' = [given EXCEPT ![s] = D]
  /\ startLock' = startLock \ {s}

Find(s) ==
  /\ IF Answering(s) # {}
     THEN GoOn(s, "find", Answering(s))
     ELSE Goto(s, "find", "lock") /\ UNCHANGED <<given, startLock>>
  /\ UNCHANGED <<keyVars, endpoint, daemon, starter, displaced, faults>>

\* A ping of the daemon is not answered in time.
PingFails(s) ==
  /\ Fault("ping")
  /\ Answering(s) # {}
  /\ Goto(s, "find", "lock") \/ Goto(s, "recheck", "remove")
  /\ UNCHANGED <<keyVars, daemonVars>>

\* Fault: who does not get the lock goes on as if it had.
LockAnyway(s) ==
  /\ Goto(s, "lock", "recheck")
  /\ startLock' = {s}
  /\ UNCHANGED <<keyVars, endpoint, daemon, starter, given, displaced, faults>>

\* The startup lock is not waited for: who does not get it waits for the endpoint.
Lock(s) ==
  /\ IF startLock = {}
     THEN Goto(s, "lock", "recheck") /\ startLock' = {s}
     ELSE Goto(s, "lock", "wait") /\ UNCHANGED startLock
  /\ UNCHANGED <<keyVars, endpoint, daemon, starter, given, displaced, faults>>

\* The lock file cannot be opened, or is not a file of its own.
LockFails(s) ==
  /\ GoOn(s, "lock", {})
  /\ UNCHANGED <<keyVars, endpoint, daemon, starter, displaced, faults>>

WaitFinds(s) ==
  /\ Answering(s) # {}
  /\ GoOn(s, "wait", Answering(s))
  /\ UNCHANGED <<keyVars, endpoint, daemon, starter, displaced, faults>>

\* Fault: who waits for a daemon waits as long as it takes.
WaitForever(s) == FALSE /\ UNCHANGED vars

\* acquisitionDaemonStartTimeout.
WaitTimesOut(s) ==
  /\ GoOn(s, "wait", {})
  /\ UNCHANGED <<keyVars, endpoint, daemon, starter, displaced, faults>>

\* Fault: the daemon is not looked for again once the lock is held.
RecheckNothing(s) ==
  /\ Goto(s, "recheck", "remove")
  /\ UNCHANGED <<keyVars, daemonVars, faults>>

\* A daemon may have come between the first look and the lock.
Recheck(s) ==
  /\ IF Answering(s) # {}
     THEN GoOn(s, "recheck", Answering(s))
     ELSE Goto(s, "recheck", "remove") /\ UNCHANGED <<given, startLock>>
  /\ UNCHANGED <<keyVars, endpoint, daemon, starter, displaced, faults>>

\* Whatever the file names; that it cannot be removed is ignored.
RemoveEndpoint(s) ==
  /\ Goto(s, "remove", "launch")
  /\ endpoint' \in {{}, endpoint}
  /\ displaced' = (displaced \/ \E d \in endpoint \ Loaded(s) : daemon[d] = "ready")
  /\ UNCHANGED <<keyVars, daemon, starter, startLock, given, faults>>

Launch(s) ==
  /\ Goto(s, "launch", "poll")
  /\ \E d \in Daemons :
       /\ daemon[d] = "none"
       /\ daemon' = [daemon EXCEPT ![d] = "starting"]
       /\ starter' = [starter EXCEPT ![d] = {s}]
  /\ UNCHANGED <<keyVars, endpoint, startLock, given, displaced, faults>>

\* The process cannot be started, or the bound on daemons is reached.
LaunchFails(s) ==
  /\ GoOn(s, "launch", {})
  /\ UNCHANGED <<keyVars, endpoint, daemon, starter, displaced, faults>>

PollFinds(s) ==
  /\ Answering(s) # {}
  /\ GoOn(s, "poll", Answering(s))
  /\ UNCHANGED <<keyVars, endpoint, daemon, starter, displaced, faults>>

Children(s) == {d \in Daemons : starter[d] = {s} /\ daemon[d] # "dead"}

\* The child ended before it was found.
PollSeesEnd(s) ==
  /\ Children(s) = {}
  /\ GoOn(s, "poll", {})
  /\ UNCHANGED <<keyVars, endpoint, daemon, starter, displaced, faults>>

\* Fault: a child that does not come up in time is left alone.
PollGivesUp(s) ==
  /\ GoOn(s, "poll", {})
  /\ UNCHANGED <<keyVars, endpoint, daemon, starter, displaced, faults>>

\* The time is up: stopChild kills the daemon, which may be ready by now.
PollTimesOut(s) ==
  /\ GoOn(s, "poll", {})
  /\ daemon' = [d \in Daemons |-> IF d \in Children(s) THEN "dead" ELSE daemon[d]]
  /\ UNCHANGED <<keyVars, endpoint, starter, displaced, faults>>

----------------------------------------------------------------------------
(* The daemon process, and the machine. *)

DaemonReady(d) ==
  /\ daemon[d] = "starting"
  /\ daemon' = [daemon EXCEPT ![d] = "ready"]
  /\ endpoint' = {d}
  /\ UNCHANGED <<keyVars, starter, startLock, setup, given, displaced, faults>>

\* A daemon ends by itself and may or may not take its endpoint with it.
DaemonEnds(d) ==
  /\ daemon[d] \in {"starting", "ready"}
  /\ daemon' = [daemon EXCEPT ![d] = "dead"]
  /\ \/ UNCHANGED endpoint
     \/ endpoint = {d} /\ endpoint' = {}
  /\ UNCHANGED <<keyVars, starter, startLock, setup, given, displaced, faults>>

\* A killed setup lets go of the lock; the daemon it started lives on.
Crash(s) ==
  /\ Fault("crash")
  /\ setup[s] \notin {"daemon", "oneshot", "failed"}
  /\ setup' = [setup EXCEPT ![s] = "failed"]
  /\ startLock' = startLock \ {s}
  /\ UNCHANGED <<keyVars, endpoint, daemon, starter, given, displaced>>

Steps(s) ==
  \/ ReadKey(s) \/ KeyAbsent(s) \/ ReadKeyFails(s) \/ CreateKey(s) \/ WriteKey(s) \/ SyncKey(s)
  \/ Find(s) \/ Lock(s) \/ LockFails(s) \/ WaitFinds(s) \/ WaitTimesOut(s) \/ Recheck(s) \/ RemoveEndpoint(s)
  \/ Launch(s) \/ LaunchFails(s) \/ PollFinds(s) \/ PollSeesEnd(s) \/ PollTimesOut(s)

Next ==
  \/ \E s \in Setups : Steps(s) \/ WriteKeyFails(s) \/ PingFails(s) \/ Crash(s)
  \/ \E d \in Daemons : DaemonReady(d) \/ DaemonEnds(d)

\* A setup that is not killed goes on; nothing is assumed of the daemons.
Fairness == \A s \in Setups : WF_vars(Steps(s))

Spec == Init /\ [][Next]_vars /\ Fairness

----------------------------------------------------------------------------
(* Properties. *)

\* Every variable holds what it may hold.
TypeOK ==
  /\ keyFile \subseteq [by : Setups, whole : BOOLEAN] /\ Cardinality(keyFile) <= 1
  /\ endpoint \subseteq Daemons /\ Cardinality(endpoint) <= 1
  /\ daemon \in [Daemons -> {"none", "starting", "ready", "dead"}]
  /\ starter \in [Daemons -> SUBSET Setups]
  /\ startLock \subseteq Setups /\ Cardinality(startLock) <= 1
  /\ setup \in [Setups -> {"key", "reread", "create", "write", "sync", "find", "lock", "wait",
                           "daemon", "oneshot", "failed"} \union Locking]
  /\ key \in [Setups -> SUBSET Setups]
  /\ given \in [Setups -> SUBSET Daemons]
  /\ displaced \in BOOLEAN

\* Setups that start at once hash the databases with one catalog key: whoever
\* creates the key file, the others read what it wrote, or fail
\* (catalogKeyForPrivateRoot).  A sync that fails after the key could be read
\* is the one exception.
KeysAgree == "sync" \notin faults => Cardinality(UNION {key[s] : s \in Setups}) <= 1

\* However many setups look for a daemon at once, one daemon at most is starting
\* or ready, unless a setup was killed while it started one, a ping of a live
\* daemon failed, or setups of two executables took turns (ensureAcquisitionDaemon).
OneDaemon ==
  faults \subseteq {"write", "sync"} /\ ~displaced =>
    Cardinality({d \in Daemons : daemon[d] \in {"starting", "ready"}}) <= 1

\* Setups that run at once share one catalog key and one daemon.
OneOfEach == TypeOK /\ KeysAgree /\ OneDaemon

\* A setup never takes the endpoint of a ready daemon of its own executable away,
\* which would leave a process with the keys that nobody can find (the os.Remove of
\* ensureAcquisitionDaemon), unless that daemon did not answer or was left by a
\* killed setup.  Setups of another executable may have taken turns in between.
EndpointKept ==
  [][\A s \in Setups :
       RemoveEndpoint(s) /\ faults \subseteq {"write", "sync"} => Answering(s) = {}]_vars

\* The startup lock is with the setup that checks, removes, launches and polls,
\* and with nobody once all have gone on or were killed: it is never left behind
\* for the next setup to find busy (the deferred releaseStartupLock).
LockHeld == startLock = {s \in Setups : setup[s] \in Locking}

\* Every setup ends its search, with a daemon, without one or with an error,
\* whatever the daemons do and whoever holds the lock.
SetupEnds == \A s \in Setups : <>(setup[s] \in {"daemon", "oneshot", "failed"})
=============================================================================
