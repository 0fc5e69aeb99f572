---------------------------- MODULE QueryDaemon ----------------------------
(***************************************************************************)
(* The life of the query daemon: one server process after another that     *)
(* takes the control lock, publishes its endpoint, serves connections and  *)
(* is stopped, and the clients that find it through the endpoint file.     *)
(* What a query computes is QueryCache; here it is an answer.              *)
(*                                                                         *)
(* A server is one run of "daemon serve" and stands for its token and its  *)
(* build, a client one run of a command.  A port is given to a server by   *)
(* the system and may be given again once its holder is gone.              *)
(***************************************************************************)
EXTENDS Naturals, FiniteSets

CONSTANTS
  Servers,         \* runs of "daemon serve"
  OldServers,      \* those of another build than the clients
  Clients,         \* runs of a client command
  Ports,           \* loopback ports
  MaxConnections,  \* maxDaemonConnections
  MaxFaults        \* bound on crashes and failing calls

ASSUME DaemonAssumption ==
  /\ OldServers \subseteq Servers
  /\ MaxConnections \in Nat \ {0} /\ MaxFaults \in Nat

VARIABLES
  lock,      \* the server that holds the control lock, or none: {}
  endpoint,  \* what endpoint.json holds: a server and its port, or nothing: {}
  server,    \* where each server is
  port,      \* the port each server listens on, as a set of at most one
  stop,      \* servers whose stop channel holds a request
  waited,    \* servers that left after they waited for their connections
  littered,  \* servers that could not remove the endpoint file when they left
  client,    \* what each client is doing and what it was told
  handler,   \* the connection of each client as its server sees it
  faults

lifeVars == <<lock, endpoint, server, port, waited, littered>>
vars == <<lock, endpoint, server, port, stop, waited, littered, client, handler, faults>>

Commands == {"query", "ping", "stop"}
Closed == [at |-> "none"]
Idle == [at |-> "idle"]
Done(cmd, told) == [at |-> "done", cmd |-> cmd, told |-> told]

\* The status of a reply to an authenticated request; a refusal has none ("").
Status == [query |-> "result", ping |-> "ready", stop |-> "stopping"]

Init ==
  /\ lock = {} /\ endpoint = {}
  /\ server = [s \in Servers |-> "off"]
  /\ port = [s \in Servers |-> {}]
  /\ stop = {} /\ waited = {} /\ littered = {}
  /\ client = [c \in Clients |-> Idle]
  /\ handler = [c \in Clients |-> Closed]
  /\ faults = 0

Goto(s, from, to) == server[s] = from /\ server' = [server EXCEPT ![s] = to]

Fault == faults < MaxFaults /\ faults' = faults + 1

At(s, phase) == {c \in Clients : handler[c].at = phase /\ handler[c].server = s}

\* What a client makes of a reply of server s.  Only a query looks at the exit code
\* that tells a refusal; "daemon status" and "daemon stop" report success with
\* whatever status the reply has.
Takes(c, s, status) ==
  IF client[c].at # "waiting" THEN client[c]
  ELSE IF client[c].cmd = "query" /\ status = "none" THEN Done("query", "refused")
  ELSE [at |-> "done", cmd |-> client[c].cmd, told |-> "answered", status |-> status,
        named |-> client[c].named, by |-> s]

\* The clients in D lose their connection: one that still waits sees an error.
Cut(D) ==
  /\ handler' = [c \in Clients |-> IF c \in D THEN Closed ELSE handler[c]]
  /\ client' = [c \in Clients |->
       IF c \in D /\ client[c].at = "waiting" THEN Done(client[c].cmd, "error") ELSE client[c]]

----------------------------------------------------------------------------
(* A server: serveDaemon. *)

\* Fault: each directory the command runs in has a control lock of its own.
TakeAnyLock(s) ==
  /\ Goto(s, "off", "locked")
  /\ lock' = {s}
  /\ UNCHANGED <<endpoint, port, stop, waited, littered, client, handler, faults>>

TakeLock(s) ==
  /\ lock = {}
  /\ Goto(s, "off", "locked")
  /\ lock' = {s}
  /\ UNCHANGED <<endpoint, port, stop, waited, littered, client, handler, faults>>

\* The lock is not waited for.
Refused(s) ==
  /\ lock # {}
  /\ Goto(s, "off", "ended")
  /\ UNCHANGED <<lock, endpoint, port, stop, waited, littered, client, handler, faults>>

\* A server the endpoint names would answer a ping if it listened.
Answers(e, s) ==
  /\ port[e.server] = {e.port}
  /\ e.server \in OldServers <=> s \in OldServers

\* An endpoint that does not answer is removed; one that does ends this server.
CheckExisting(s) ==
  /\ LET live == \E e \in endpoint : Answers(e, s)
     IN  /\ Goto(s, "locked", IF live THEN "closed" ELSE "checked")
         /\ endpoint' = IF live THEN endpoint ELSE {}
  /\ UNCHANGED <<lock, port, stop, waited, littered, client, handler, faults>>

\* The endpoint cannot be removed, which is ignored: publishing overwrites it.
CheckRemovesNothing(s) ==
  /\ endpoint # {} /\ ~\E e \in endpoint : Answers(e, s)
  /\ Fault
  /\ Goto(s, "locked", "checked")
  /\ UNCHANGED <<lock, endpoint, port, stop, waited, littered, client, handler>>

Listen(s) ==
  /\ Goto(s, "checked", "listening")
  /\ \E p \in Ports \ UNION {port[t] : t \in Servers} : port' = [port EXCEPT ![s] = {p}]
  /\ UNCHANGED <<lock, endpoint, stop, waited, littered, client, handler, faults>>

Publish(s) ==
  /\ Goto(s, "listening", "serving")
  /\ endpoint' = {[server |-> s, port |-> p] : p \in port[s]}
  /\ UNCHANGED <<lock, port, stop, waited, littered, client, handler, faults>>

\* The endpoint cannot be written: nothing is served.
PublishFails(s) ==
  /\ Fault
  /\ Goto(s, "listening", "unpublished")
  /\ UNCHANGED <<lock, endpoint, port, stop, waited, littered, client, handler>>

\* Fault: a connection is accepted whether a slot is free or not.
AcceptUnlimited(s, c) ==
  /\ server[s] = "serving"
  /\ c \in At(s, "queued")
  /\ handler' = [handler EXCEPT ![c].at = "active"]
  /\ UNCHANGED <<lifeVars, stop, client, faults>>

\* A connection is accepted; when all slots are taken it is answered at once.
AcceptConnection(s, c) ==
  /\ server[s] = "serving"
  /\ c \in At(s, "queued")
  /\ IF Cardinality(At(s, "active") \union At(s, "answered")) < MaxConnections
     THEN /\ handler' = [handler EXCEPT ![c].at = "active"]
          /\ UNCHANGED client
     ELSE /\ handler' = [handler EXCEPT ![c] = Closed]
          /\ client' = [client EXCEPT ![c] = Takes(c, s, "none")]
  /\ UNCHANGED <<lifeVars, stop, faults>>

\* No connection for a second: only then is the stop channel looked at.
AcceptTimesOut(s) ==
  /\ At(s, "queued") = {}
  /\ s \in stop
  /\ Goto(s, "serving", "draining")
  /\ stop' = stop \ {s}
  /\ UNCHANGED <<lock, endpoint, port, waited, littered, client, handler, faults>>

AcceptFails(s) ==
  /\ Fault
  /\ Goto(s, "serving", "leaving")
  /\ UNCHANGED <<lock, endpoint, port, stop, waited, littered, client, handler>>

\* Fault: the server leaves without waiting for its connections.
DrainAtOnce(s) ==
  /\ Goto(s, "draining", "leaving")
  /\ waited' = waited \union {s}
  /\ UNCHANGED <<lock, endpoint, port, stop, littered, client, handler, faults>>

Drain(s) ==
  /\ At(s, "active") \union At(s, "answered") = {}
  /\ Goto(s, "draining", "leaving")
  /\ waited' = waited \union {s}
  /\ UNCHANGED <<lock, endpoint, port, stop, littered, client, handler, faults>>

\* Fault: the lock is released before the listener is closed.
ReleaseFirst(s) ==
  /\ Goto(s, "leaving", "unpublished")
  /\ lock' = lock \ {s}
  /\ UNCHANGED <<endpoint, port, stop, waited, littered, client, handler, faults>>

\* The deferred calls, the last registered first: the endpoint file is removed,
\* whatever it holds, the listener is closed and the lock is released.
RemoveEndpoint(s) ==
  /\ Goto(s, "leaving", "unpublished")
  /\ endpoint' = {}
  /\ UNCHANGED <<lock, port, stop, waited, littered, client, handler, faults>>

\* The removal fails, and its error is ignored.
RemoveFails(s) ==
  /\ Fault
  /\ Goto(s, "leaving", "unpublished")
  /\ littered' = littered \union {s}
  /\ UNCHANGED <<lock, endpoint, port, stop, waited, client, handler>>

CloseListener(s) ==
  /\ Goto(s, "unpublished", "closed")
  /\ port' = [port EXCEPT ![s] = {}]
  /\ Cut(At(s, "queued"))
  /\ UNCHANGED <<lock, endpoint, stop, waited, littered, faults>>

ReleaseLock(s) ==
  /\ Goto(s, "closed", "exiting")
  /\ lock' = lock \ {s}
  /\ UNCHANGED <<endpoint, port, stop, waited, littered, client, handler, faults>>

\* Fault: the endpoint file is removed when the lock has already been released.
ExitRemoves(s) ==
  /\ Goto(s, "exiting", "ended")
  /\ endpoint' = {}
  /\ stop' = stop \ {s}
  /\ Cut({c \in Clients : handler[c] # Closed /\ handler[c].server = s})
  /\ UNCHANGED <<lock, port, waited, littered, faults>>

\* The process exits, with the connections it did not wait for.
Exit(s) ==
  /\ Goto(s, "exiting", "ended")
  /\ stop' = stop \ {s}
  /\ Cut({c \in Clients : handler[c] # Closed /\ handler[c].server = s})
  /\ UNCHANGED <<lock, endpoint, port, waited, littered, faults>>

\* The process is killed; the system frees its lock and its port.
Crash(s) ==
  /\ Fault
  /\ server[s] \notin {"off", "ended", "crashed"}
  /\ server' = [server EXCEPT ![s] = "crashed"]
  /\ lock' = lock \ {s}
  /\ port' = [port EXCEPT ![s] = {}]
  /\ stop' = stop \ {s}
  /\ Cut({c \in Clients : handler[c] # Closed /\ handler[c].server = s})
  /\ UNCHANGED <<endpoint, waited, littered>>

----------------------------------------------------------------------------
(* A client: runDaemonClient, runDaemon. *)

\* The endpoint is loaded; only a stop may go to a server of another build.
LoadEndpoint(c, cmd) ==
  /\ client[c] = Idle
  /\ client' = [client EXCEPT ![c] =
       IF endpoint = {} THEN Done(cmd, "unavailable")
       ELSE LET e == CHOOSE e \in endpoint : TRUE
            IN  IF cmd # "stop" /\ e.server \in OldServers
                THEN Done(cmd, "mismatch")
                ELSE [at |-> "loaded", cmd |-> cmd, named |-> e.server, port |-> e.port]]
  /\ UNCHANGED <<lifeVars, stop, handler, faults>>

\* Whoever listens on the port by now gets the connection.
Connect(c) ==
  /\ client[c].at = "loaded"
  /\ LET listening == {s \in Servers : client[c].port \in port[s]}
     IN  IF listening = {}
         THEN /\ client' = [client EXCEPT ![c] = Done(@.cmd, "error")]
              /\ UNCHANGED handler
         ELSE /\ client' = [client EXCEPT ![c].at = "waiting"]
              /\ \E s \in listening :
                   handler' = [handler EXCEPT ![c] =
                     [at |-> "queued", server |-> s, cmd |-> client[c].cmd,
                      token |-> client[c].named]]
  /\ UNCHANGED <<lifeVars, stop, faults>>

\* The deadline of the exchange passes; the request has been sent.
GiveUp(c) ==
  /\ client[c].at = "waiting"
  /\ client' = [client EXCEPT ![c] = Done(@.cmd, "timeout")]
  /\ UNCHANGED <<lifeVars, stop, handler, faults>>

----------------------------------------------------------------------------
(* A connection: serveDaemonConnection. *)

\* Fault: the token of a request is not looked at.
AuthenticatedAlways(h) == TRUE

Authenticated(h) == h.token = h.server

Respond(c) ==
  LET h == handler[c]
  IN  /\ h.at = "active"
      /\ handler' = [handler EXCEPT ![c].at = "answered"]
      /\ client' = [client EXCEPT ![c] =
           Takes(c, h.server, IF Authenticated(h) THEN Status[h.cmd] ELSE "none")]
      /\ UNCHANGED <<lifeVars, stop, faults>>

\* Fault: a stop channel without a buffer drops the stop, as nobody waits for it.
FinishUnbuffered(c) ==
  /\ handler[c].at = "answered"
  /\ handler' = [handler EXCEPT ![c] = Closed]
  /\ UNCHANGED <<lifeVars, stop, client, faults>>

\* After the response a stop is sent, unless one is already in the channel.
Finish(c) ==
  LET h == handler[c]
  IN  /\ h.at = "answered"
      /\ handler' = [handler EXCEPT ![c] = Closed]
      /\ stop' = IF h.cmd = "stop" /\ Authenticated(h) THEN stop \union {h.server} ELSE stop
      /\ UNCHANGED <<lifeVars, client, faults>>

----------------------------------------------------------------------------
Serve(s) ==
  \/ CheckExisting(s) \/ Listen(s) \/ Publish(s)
  \/ \E c \in Clients : AcceptConnection(s, c)
  \/ AcceptTimesOut(s) \/ Drain(s)
  \/ RemoveEndpoint(s) \/ CloseListener(s) \/ ReleaseLock(s) \/ Exit(s)

ServerFails(s) ==
  PublishFails(s) \/ AcceptFails(s) \/ CheckRemovesNothing(s) \/ RemoveFails(s) \/ Crash(s)

Handle(c) == Respond(c) \/ Finish(c)

Ask(c) == (\E cmd \in Commands : LoadEndpoint(c, cmd)) \/ Connect(c) \/ GiveUp(c)

Next ==
  \/ \E s \in Servers : TakeLock(s) \/ Refused(s) \/ Serve(s) \/ ServerFails(s)
  \/ \E c \in Clients : Ask(c) \/ Handle(c)

\* A server that runs goes on, its accept loop and its connections included.
\* Nobody has to start one, and a client need not ask.
Fairness ==
  /\ \A s \in Servers : WF_vars(Serve(s))
  /\ \A c \in Clients : WF_vars(Handle(c))

Spec == Init /\ [][Next]_vars /\ Fairness

----------------------------------------------------------------------------
\* Every variable has its type, and a server never serves more connections at
\* once than it has slots.
TypeOK ==
  /\ lock \subseteq Servers /\ Cardinality(lock) <= 1
  /\ endpoint \subseteq [server: Servers, port: Ports] /\ Cardinality(endpoint) <= 1
  /\ server \in [Servers -> {"off", "locked", "checked", "listening", "serving", "draining",
                            "leaving", "unpublished", "closed", "exiting", "ended", "crashed"}]
  /\ port \in [Servers -> SUBSET Ports]
  /\ stop \subseteq Servers /\ waited \subseteq Servers /\ littered \subseteq Servers
  /\ \A c \in Clients :
       /\ client[c].at \in {"idle", "loaded", "waiting", "done"}
       /\ handler[c].at \in {"none", "queued", "active", "answered"}
  /\ \A s \in Servers : Cardinality(At(s, "active") \union At(s, "answered")) <= MaxConnections
  /\ faults \in 0..MaxFaults

\* Two daemons never listen at the same time, wherever they were started
\* (the lock identifier must not depend on the directory, state.go:149).
OneListener ==
  \A s, t \in Servers : (port[s] # {} /\ port[t] # {}) => s = t

\* While a daemon serves, the endpoint file names it: neither the start of
\* another nor a predecessor that is still leaving removes or replaces it; and a
\* daemon that left in order leaves no endpoint that names it, unless it could not
\* remove the file.
EndpointTrue ==
  \A s \in Servers :
    /\ server[s] = "serving" => endpoint = {[server |-> s, port |-> p] : p \in port[s]}
    /\ (server[s] = "ended" /\ s \in waited \ littered) => \A e \in endpoint : e.server # s

\* A client that shows a result or a status has it from the daemon whose endpoint
\* it read, also when that has gone and another listens on its port; and only a stop
\* is ever answered by a daemon of another build.  A success of "daemon status" or
\* "daemon stop" without a status says nothing: a refusal is reported like that.
AnsweredByNamed ==
  \A c \in Clients :
    (client[c].at = "done" /\ client[c].told = "answered" /\ client[c].status # "none") =>
      /\ client[c].by = client[c].named
      /\ client[c].by \in OldServers => client[c].cmd = "stop"

\* A daemon that was stopped leaves only when every connection it accepted has
\* been answered.
DrainedOnStop ==
  \A s \in waited : At(s, "active") \union At(s, "answered") = {}

\* A daemon that told a client it is stopping does end, as long as connections
\* do not arrive without a pause.
StopEnds ==
  \A s \in Servers, c \in Clients :
    (client[c].at = "done" /\ client[c].told = "answered" /\ client[c].status = "stopping"
       /\ client[c].by = s) ~> server[s] \in {"ended", "crashed"}
=============================================================================
