---------------------------- MODULE QueryProofs ----------------------------
(***************************************************************************)
(* Proofs about QueryDaemon, for every set of servers, clients and ports:  *)
(* the control lock and the order of the deferred calls are enough for one *)
(* listener and a true endpoint, and the wait for the connections for a    *)
(* stop that cuts nobody off.  And about Queries, for every scene: what    *)
(* the daemon's cache, a limited query and the commands over images and    *)
(* voices answer is true.                                                  *)
(***************************************************************************)
EXTENDS QueryDaemon, Queries, FiniteSetTheorems, SequenceTheorems, WellFoundedInduction, TLAPS

-----------------------------------------------------------------------------
(* The life of the daemon. *)

Phases == {"off", "locked", "checked", "listening", "serving", "draining", "leaving",
           "unpublished", "closed", "exiting", "ended", "crashed"}

\* The phases in which a server holds the lock, and those in which it may listen.
Holding == {"locked", "checked", "listening", "serving", "draining", "leaving",
            "unpublished", "closed"}
Listening == {"listening", "serving", "draining", "leaving", "unpublished"}
\* The phases of a server that has waited for its connections.
Leaving == {"leaving", "unpublished", "closed", "exiting", "ended", "crashed"}

Handlers == {Closed} \union
  [at: {"queued", "active", "answered"}, server: Servers, cmd: Commands, token: Servers]

Asking == [at: {"loaded", "waiting"}, cmd: Commands, named: Servers, port: Ports]
Told == [at: {"done"}, cmd: Commands,
         told: {"unavailable", "mismatch", "error", "refused", "timeout"}]
Answered == [at: {"done"}, cmd: Commands, told: {"answered"},
             status: {"none", "result", "ready", "stopping"}, named: Servers, by: Servers]

Types ==
  /\ endpoint \subseteq [server: Servers, port: Ports]
  /\ server \in [Servers -> Phases]
  /\ port \in [Servers -> SUBSET Ports]
  /\ waited \subseteq Servers
  /\ client \in [Clients -> {Idle} \union Asking \union Told \union Answered]
  /\ handler \in [Clients -> Handlers]

\* Who is within its locked section holds the lock, so nobody else is.
LockInv == \A s \in Servers : server[s] \in Holding => lock = {s}

PortInv == \A s \in Servers : port[s] # {} => server[s] \in Listening

WaitedInv == \A s \in waited : server[s] \in Leaving

\* From the moment it is written until its server removes it, the endpoint names
\* that server; one that left in order and removed it is not named again.
EndpointInv ==
  \A s \in Servers :
    /\ server[s] = "serving" => endpoint = {[server |-> s, port |-> p] : p \in port[s]}
    /\ s \in waited \ littered /\ server[s] \in {"unpublished", "closed", "exiting", "ended"}
         => \A e \in endpoint : e.server # s

\* A client that waits is known to its server by the token of the endpoint it
\* read, and has not been answered.
ClientInv ==
  \A c \in Clients :
    /\ client[c] \in Asking /\ client[c].named \in OldServers => client[c].cmd = "stop"
    /\ client[c].at = "waiting" =>
         handler[c].at \in {"queued", "active"} /\ handler[c].token = client[c].named

Inv ==
  /\ Types
  /\ LockInv /\ PortInv /\ WaitedInv /\ EndpointInv
  /\ ClientInv /\ AnsweredByNamed /\ DrainedOnStop

\* The initial states satisfy the invariant.
LEMMA InitInv == Init => Inv
BY DEF Init, Inv, Types, Phases, Handlers, Closed, LockInv, Holding, PortInv, WaitedInv,
       EndpointInv, DrainedOnStop, ClientInv, AnsweredByNamed, Asking, Idle

\* No step of a client or of a connection moves a server or its files, and all of
\* them keep what clients are told.
LEMMA ClientSteps ==
  ASSUME Inv, NEW c \in Clients, Ask(c) \/ Handle(c)
  PROVE  Inv'
<1> USE DEF Types, ClientInv, AnsweredByNamed, DrainedOnStop, At, Asking, Told, Answered,
            Idle, Done, Handlers, Closed, lifeVars, Inv
<1>1. UNCHANGED lifeVars
  BY DEF Ask, LoadEndpoint, Connect, GiveUp, Handle, Respond, Finish
<1>2. Types' /\ ClientInv' /\ AnsweredByNamed' /\ DrainedOnStop'
  <2>1. ASSUME NEW cmd \in Commands, LoadEndpoint(c, cmd)
        PROVE  Types' /\ ClientInv' /\ AnsweredByNamed' /\ DrainedOnStop'
    BY <2>1 DEF LoadEndpoint
  <2>2. CASE Connect(c)
    <3> DEFINE listening == {s \in Servers : client[c].port \in port[s]}
    <3>1. client[c] \in Asking /\ client[c].at = "loaded"
      BY <2>2 DEF Connect
    <3>2. CASE listening = {}
      BY <2>2, <3>1, <3>2 DEF Connect
    <3>3. CASE listening # {}
      <4> DEFINE queued(s) == [at |-> "queued", server |-> s, cmd |-> client[c].cmd,
                               token |-> client[c].named]
      <4>1. /\ client' = [client EXCEPT ![c].at = "waiting"]
            /\ \E s \in listening : handler' = [handler EXCEPT ![c] = queued(s)]
        BY <2>2, <3>3 DEF Connect
      <4>2. PICK s \in Servers : handler' = [handler EXCEPT ![c] = queued(s)]
        BY <4>1
      <4>3. queued(s) \in Handlers
        BY <3>1
      <4>4. /\ client'[c] \in Asking /\ client'[c].at = "waiting"
            /\ client'[c].cmd = client[c].cmd /\ client'[c].named = client[c].named
        BY <3>1, <4>1
      <4>5. Types'
        BY <1>1, <4>1, <4>2, <4>3, <4>4
      <4>6. ClientInv' /\ AnsweredByNamed'
        BY <3>1, <4>1, <4>2, <4>4
      <4>7. DrainedOnStop'
        BY <1>1, <4>2
      <4> QED BY <4>5, <4>6, <4>7
    <3> QED BY <3>2, <3>3
  <2>3. CASE GiveUp(c)
    BY <2>3 DEF GiveUp
  <2>4. CASE Respond(c)
    <3> DEFINE status == IF Authenticated(handler[c]) THEN Status[handler[c].cmd] ELSE "none"
    <3>1. handler[c] \in Handlers /\ handler[c].at = "active"
      BY <2>4 DEF Respond
    <3>2. status \in {"none", "result", "ready", "stopping"}
      BY <3>1 DEF Status, Commands
    <3>3. client' = [client EXCEPT ![c] = Takes(c, handler[c].server, status)]
      BY <2>4 DEF Respond
    <3>4. handler' = [handler EXCEPT ![c].at = "answered"] /\ UNCHANGED lifeVars
      BY <2>4 DEF Respond
    <3>5. client'[c] \in {Idle} \union Asking \union Told \union Answered
      BY <3>1, <3>2, <3>3 DEF Takes
    <3>6. client'[c].at # "waiting"
      BY <3>1, <3>3 DEF Takes
    <3>7. Types'
      BY <3>1, <3>3, <3>4, <3>5
    <3>8. ClientInv'
      BY <3>1, <3>3, <3>4, <3>5, <3>6 DEF Takes
    <3>9. client[c].at = "waiting" /\ status # "none" => handler[c].server = client[c].named
      BY <3>1 DEF Authenticated
    <3>10. AnsweredByNamed'
      <4>1. ASSUME client'[c].at = "done", client'[c].told = "answered", client'[c].status # "none"
            PROVE  /\ client'[c].by = client'[c].named
                   /\ client'[c].by \in OldServers => client'[c].cmd = "stop"
        BY <3>1, <3>3, <3>9, <4>1 DEF Takes
      <4> QED
        BY <3>3, <4>1
    <3>11. DrainedOnStop'
      BY <3>1, <3>4
    <3> QED
      BY <3>7, <3>8, <3>10, <3>11
  <2>5. CASE Finish(c)
    BY <2>5 DEF Finish
  <2> QED BY <2>1, <2>2, <2>3, <2>4, <2>5 DEF Ask, Handle
<1> QED
  BY <1>1, <1>2 DEF Inv, lifeVars, LockInv, PortInv, WaitedInv, EndpointInv

\* Connections that are cut leave the others, and what was told, as they were.
LEMMA CutKeeps ==
  ASSUME Inv, NEW D \in SUBSET Clients, Cut(D), waited' = waited
  PROVE  /\ client' \in [Clients -> {Idle} \union Asking \union Told \union Answered]
         /\ handler' \in [Clients -> Handlers]
         /\ ClientInv' /\ AnsweredByNamed' /\ DrainedOnStop'
<1> USE DEF Inv, Types, Cut, Asking, Told, Answered, Idle, Done, Handlers, Closed
<1>1. client' \in [Clients -> {Idle} \union Asking \union Told \union Answered]
  OBVIOUS
<1>2. handler' \in [Clients -> Handlers]
  OBVIOUS
<1>3. ClientInv'
  BY DEF ClientInv
<1>4. AnsweredByNamed'
  BY DEF AnsweredByNamed
<1>5. DrainedOnStop'
  BY DEF DrainedOnStop, At
<1> QED BY <1>1, <1>2, <1>3, <1>4, <1>5

\* A step in which one server goes from one phase to another, and the lock, the
\* ports and the endpoint change accordingly.
LEMMA ServerSteps ==
  ASSUME Inv, NEW s \in Servers,
         TakeLock(s) \/ Refused(s) \/ Serve(s) \/ ServerFails(s)
  PROVE  Inv'
<1> USE DEF Inv, Types, LockInv, PortInv, WaitedInv, EndpointInv, Goto, Phases, Holding,
            Listening, Leaving
<1> DEFINE Same == UNCHANGED <<waited, client, handler>>
<1>0. ASSUME Same
      PROVE  ClientInv' /\ AnsweredByNamed' /\ DrainedOnStop'
  BY <1>0 DEF ClientInv, AnsweredByNamed, DrainedOnStop, At
<1>1. CASE TakeLock(s)
  BY <1>0, <1>1 DEF TakeLock
<1>2. CASE Refused(s)
  BY <1>0, <1>2 DEF Refused
<1>3. CASE CheckExisting(s)
  BY <1>0, <1>3 DEF CheckExisting
<1>4. CASE Listen(s)
  BY <1>0, <1>4 DEF Listen
<1>5. CASE Publish(s)
  BY <1>0, <1>5 DEF Publish
<1>6. CASE PublishFails(s)
  BY <1>0, <1>6 DEF PublishFails
<1>7. CASE \E c \in Clients : AcceptConnection(s, c)
  <2> PICK c \in Clients : AcceptConnection(s, c) BY <1>7
  <2>1. UNCHANGED lifeVars /\ server[s] = "serving" /\ c \in At(s, "queued")
    BY DEF AcceptConnection
  <2>2. s \notin waited
    BY <2>1
  <2>3. Types' /\ ClientInv' /\ AnsweredByNamed'
    <3>1. handler' = handler \/ handler' = [handler EXCEPT ![c].at = "active"]
            \/ handler' = [handler EXCEPT ![c] = Closed]
      BY DEF AcceptConnection
    <3>2. handler[c] \in Handlers /\ handler[c].at = "queued"
      BY <2>1 DEF At
    <3>3. handler' \in [Clients -> Handlers]
      BY <3>1, <3>2 DEF Handlers, Closed
    <3>4. CASE client' = client
      <4>1. handler' = [handler EXCEPT ![c].at = "active"] \/ client[c].at # "waiting"
        BY <3>4, <3>2 DEF AcceptConnection, Takes, Asking, Done
      <4>2. ClientInv'
        BY <3>1, <3>2, <3>4, <4>1 DEF ClientInv, Handlers, Closed
      <4> QED
        BY <2>1, <3>3, <3>4, <4>2 DEF lifeVars, AnsweredByNamed
    <3>5. CASE client' = [client EXCEPT ![c] = Takes(c, s, "none")]
      <4>1. /\ client'[c] \in {Idle} \union Asking \union Told \union Answered
            /\ client'[c].at # "waiting"
        BY <3>5 DEF Takes, Asking, Told, Answered, Idle, Done
      <4>2. client'[c].at = "done" /\ client'[c].told = "answered" /\ client'[c].status # "none"
              => client'[c] = client[c]
        BY <3>5 DEF Takes, Done
      <4>3. \A d \in Clients \ {c} : client'[d] = client[d] /\ handler'[d] = handler[d]
        BY <3>1, <3>5
      <4>4. ClientInv'
        BY <3>5, <4>1, <4>3 DEF ClientInv, Takes, Asking, Done
      <4>5. AnsweredByNamed'
        BY <4>2, <4>3 DEF AnsweredByNamed
      <4> QED
        BY <2>1, <3>3, <3>5, <4>1, <4>4, <4>5 DEF lifeVars
    <3> QED
      BY <3>4, <3>5 DEF AcceptConnection
  <2>4. DrainedOnStop'
    BY <2>1, <2>2 DEF AcceptConnection, lifeVars, DrainedOnStop, At, Handlers, Closed
  <2> QED BY <2>1, <2>3, <2>4 DEF lifeVars
<1>8. CASE AcceptTimesOut(s)
  BY <1>0, <1>8 DEF AcceptTimesOut
<1>9. CASE AcceptFails(s)
  BY <1>0, <1>9 DEF AcceptFails
<1>10. CASE Drain(s)
  <2>1. ClientInv' /\ AnsweredByNamed'
    BY <1>10 DEF Drain, ClientInv, AnsweredByNamed
  <2>2. DrainedOnStop'
    BY <1>10 DEF Drain, DrainedOnStop, At
  <2> QED BY <1>10, <2>1, <2>2 DEF Drain
<1>11. CASE RemoveEndpoint(s)
  <2>1. server[s] = "leaving" /\ server' = [server EXCEPT ![s] = "unpublished"] /\ endpoint' = {}
    BY <1>11 DEF RemoveEndpoint
  <2>2. UNCHANGED <<lock, port, waited, littered, client, handler>>
    BY <1>11 DEF RemoveEndpoint
  <2>3. \A t \in Servers : server'[t] # "serving"
    BY <2>1, <2>2
  <2> QED
    BY <1>0, <2>1, <2>2, <2>3
<1>16. CASE CheckRemovesNothing(s)
  BY <1>0, <1>16 DEF CheckRemovesNothing
<1>17. CASE RemoveFails(s)
  BY <1>0, <1>17 DEF RemoveFails
<1>12. CASE CloseListener(s)
  BY <1>12, CutKeeps DEF CloseListener, At
<1>13. CASE ReleaseLock(s)
  BY <1>0, <1>13 DEF ReleaseLock
<1>14. CASE Exit(s)
  BY <1>14, CutKeeps DEF Exit
<1>15. CASE Crash(s)
  BY <1>15, CutKeeps DEF Crash
<1> QED
  BY <1>1, <1>2, <1>3, <1>4, <1>5, <1>6, <1>7, <1>8, <1>9, <1>10, <1>11, <1>12, <1>13,
     <1>14, <1>15, <1>16, <1>17 DEF Serve, ServerFails

\* Every step of a server, a client or a connection keeps the invariant.
LEMMA NextKeeps == Inv /\ [Next]_vars => Inv'
<1> SUFFICES ASSUME Inv, [Next]_vars PROVE Inv'
  OBVIOUS
<1>1. ASSUME NEW s \in Servers, TakeLock(s) \/ Refused(s) \/ Serve(s) \/ ServerFails(s)
      PROVE  Inv'
  BY <1>1, ServerSteps
<1>2. ASSUME NEW c \in Clients, Ask(c) \/ Handle(c)
      PROVE  Inv'
  BY <1>2, ClientSteps
<1>3. CASE UNCHANGED vars
  BY <1>3 DEF vars, Inv, Types, LockInv, PortInv, WaitedInv, EndpointInv, ClientInv,
              AnsweredByNamed, DrainedOnStop, At
<1> QED BY <1>1, <1>2, <1>3 DEF Next

\* The invariant holds in every reachable state.
LEMMA InvHolds == Spec => []Inv
<1>1. Init => Inv BY InitInv
<1>2. Inv /\ [Next]_vars => Inv' BY NextKeeps
<1> QED BY <1>1, <1>2, PTL DEF Spec

\* Two daemons never listen at the same time: the control lock and the order of
\* the deferred calls of serveDaemon are enough, however often daemons start, end
\* or are killed.
THEOREM OneDaemonListens == Spec => []OneListener
<1>1. Inv => OneListener
  BY DEF Inv, Types, PortInv, LockInv, Listening, Holding, OneListener
<1> QED BY <1>1, InvHolds, PTL

\* While a daemon serves, the endpoint file names it, and none that left in order
\* is named by it (serveDaemon, saveDaemonInfo).
THEOREM EndpointIsTrue == Spec => []EndpointTrue
<1>1. Inv => EndpointTrue
  BY DEF Inv, EndpointInv, EndpointTrue
<1> QED BY <1>1, InvHolds, PTL

\* A client that shows a result or a status has it from the daemon whose endpoint it
\* read, and from one of another build only to a stop; a refusal, which status and stop
\* take for a success, carries none (serveDaemonConnection,
\* daemonExchangeWithBuildPolicy, runDaemon).
THEOREM AnswersAreNamed == Spec => []AnsweredByNamed
<1>1. Inv => AnsweredByNamed
  BY DEF Inv
<1> QED BY <1>1, InvHolds, PTL

\* A daemon that was stopped has answered every connection it accepted.
THEOREM StopDrains == Spec => []DrainedOnStop
<1>1. Inv => DrainedOnStop
  BY DEF Inv
<1> QED BY <1>1, InvHolds, PTL

-----------------------------------------------------------------------------
(* Its cache: the list, the sum of its sizes, and what a request knows. *)

\* An instance counts as we do.
LEMMA TotalIs ==
  ASSUME NEW g \in CacheScenes
  PROVE  \A E : Cache(g)!TotalSize(E) = Cardinality(Cache(g)!Bytes(E))
BY DEF Cache!TotalSize, Cardinality, Cache!Cardinality

\* The bytes of a list can be counted.
LEMMA BytesFinite ==
  ASSUME NEW g \in CacheScenes, NEW E \in Seq(Cache(g)!Entries)
  PROVE  IsFiniteSet(Cache(g)!Bytes(E)) /\ Cache(g)!TotalSize(E) \in Nat
<1> DEFINE K == {E[i].key : i \in 1 .. Len(E)}
           f == [i \in 1 .. Len(E) |-> E[i].key]
<1>1. IsFiniteSet(1 .. Len(E))
  BY FS_Interval
<1>2. f \in Surjection(1 .. Len(E), K)
  <2>1. f \in [1 .. Len(E) -> K]
    OBVIOUS
  <2>2. \A k \in K : \E i \in 1 .. Len(E) : f[i] = k
    OBVIOUS
  <2> HIDE DEF f, K
  <2> QED
    BY <2>1, <2>2 DEF Surjection
<1>3. IsFiniteSet(K)
  BY <1>1, <1>2, FS_Surjection
<1>4. IsFiniteSet(K \X (1 .. MaxResponse))
  <2>1. IsFiniteSet(1 .. MaxResponse)
    BY CacheAssumption, FS_Interval
  <2> QED
    BY <1>3, <2>1, FS_Product
<1>5. Cache(g)!Bytes(E) \in SUBSET (K \X (1 .. MaxResponse))
  <2> SUFFICES ASSUME NEW b \in Cache(g)!Bytes(E) PROVE b \in K \X (1 .. MaxResponse)
    OBVIOUS
  <2>1. PICK i \in 1 .. Len(E) : b \in {E[i].key} \X (1 .. E[i].size)
    BY DEF Cache!Bytes
  <2>3. E[i] \in Cache(g)!Entries
    BY ElementOfSeq
  <2>2. E[i].size \in 0 .. MaxResponse /\ E[i].key \in K
    BY <2>3 DEF Cache!Entries
  <2> HIDE DEF K
  <2> QED
    BY <2>1, <2>2, CacheAssumption
<1> QED
  BY <1>4, <1>5, FS_Subset, FS_CardinalityType, TotalIs

\* The bytes of one entry are as many as its size.
LEMMA BytesOfOne ==
  ASSUME NEW k, NEW n \in Nat
  PROVE  IsFiniteSet({k} \X (1 .. n)) /\ Cardinality({k} \X (1 .. n)) = n
<1>1. IsFiniteSet({k}) /\ Cardinality({k}) = 1
  BY FS_Singleton
<1>2. IsFiniteSet(1 .. n) /\ Cardinality(1 .. n) = n
  BY FS_Interval
<1>3. Cardinality({k} \X (1 .. n)) = 1 * n
  BY <1>1, <1>2, FS_Product
<1>4. IsFiniteSet({k} \X (1 .. n))
  BY <1>1, <1>2, FS_Product
<1> QED
  BY <1>3, <1>4

\* What has no key in common adds up.
LEMMA SizesAdd ==
  ASSUME NEW S, NEW T, IsFiniteSet(S), IsFiniteSet(T), S \intersect T = {}
  PROVE  Cardinality(S \cup T) = Cardinality(S) + Cardinality(T)
<1>1. Cardinality(S \cap T) = 0 /\ Cardinality(S) \in Nat /\ Cardinality(T) \in Nat
  BY FS_EmptySet, FS_CardinalityType
<1>2. Cardinality(S \cup T) = Cardinality(S) + Cardinality(T) - Cardinality(S \cap T)
  BY FS_Union
<1> QED
  BY <1>1, <1>2

\* An entry in front of others of other keys.
LEMMA PutInFront ==
  ASSUME NEW g \in CacheScenes, NEW e \in Cache(g)!Entries, NEW R \in Seq(Cache(g)!Entries),
         Cache(g)!Distinct(R), \A i \in 1 .. Len(R) : R[i].key # e.key
  PROVE  /\ <<e>> \o R \in Seq(Cache(g)!Entries) /\ Len(<<e>> \o R) = Len(R) + 1
            /\ Cache(g)!Distinct(<<e>> \o R)
         /\ Cache(g)!TotalSize(<<e>> \o R) = e.size + Cache(g)!TotalSize(R)
<1> DEFINE F == <<e>> \o R
<1>1. F \in Seq(Cache(g)!Entries) /\ Len(F) = Len(R) + 1 /\ F[1] = e
      /\ \A i \in 1 .. Len(R) : F[i + 1] = R[i]
  OBVIOUS
<1>2. \A i \in 1 .. Len(F) : i = 1 \/ (i - 1 \in 1 .. Len(R) /\ F[i] = R[i - 1])
  BY <1>1
<1> HIDE DEF F
<1>3. Cache(g)!Distinct(F)
  <2> SUFFICES ASSUME NEW i \in 1 .. Len(F), NEW j \in 1 .. Len(F), F[i].key = F[j].key PROVE i = j
    BY <1>1 DEF Cache!Distinct
  <2>1. CASE i = 1 \/ j = 1
    BY <1>1, <1>2, <2>1
  <2>2. CASE i # 1 /\ j # 1
    <3>1. i - 1 \in DOMAIN R /\ j - 1 \in DOMAIN R /\ R[i - 1].key = R[j - 1].key
      BY <1>2, <2>2
    <3>2. i - 1 = j - 1
      BY <3>1 DEF Cache!Distinct
    <3> QED
      BY <3>2
  <2> QED
    BY <2>1, <2>2
<1>4. Cache(g)!Bytes(F) = ({e.key} \X (1 .. e.size)) \cup Cache(g)!Bytes(R)
  <2>1. ASSUME NEW b \in Cache(g)!Bytes(F) PROVE b \in ({e.key} \X (1 .. e.size)) \cup Cache(g)!Bytes(R)
    <3>1. PICK i \in 1 .. Len(F) : b \in {F[i].key} \X (1 .. F[i].size)
      BY <1>1 DEF Cache!Bytes
    <3> QED
      BY <1>1, <1>2, <3>1 DEF Cache!Bytes
  <2>2. ASSUME NEW b \in {e.key} \X (1 .. e.size) PROVE b \in Cache(g)!Bytes(F)
    <3>1. 1 \in DOMAIN F /\ F[1] = e
      BY <1>1
    <3> QED
      BY <2>2, <3>1 DEF Cache!Bytes
  <2>3. ASSUME NEW b \in Cache(g)!Bytes(R) PROVE b \in Cache(g)!Bytes(F)
    <3>1. PICK i \in 1 .. Len(R) : b \in {R[i].key} \X (1 .. R[i].size)
      BY DEF Cache!Bytes
    <3>2. i + 1 \in DOMAIN F /\ F[i + 1] = R[i]
      BY <1>1
    <3> QED
      BY <3>1, <3>2 DEF Cache!Bytes
  <2> QED
    BY <2>1, <2>2, <2>3
<1>5. ({e.key} \X (1 .. e.size)) \intersect Cache(g)!Bytes(R) = {}
  BY DEF Cache!Bytes
<1>6. e.size \in Nat
  BY CacheAssumption DEF Cache!Entries
<1>7. Cache(g)!TotalSize(F) = e.size + Cache(g)!TotalSize(R)
  <2>1. IsFiniteSet({e.key} \X (1 .. e.size)) /\ Cardinality({e.key} \X (1 .. e.size)) = e.size
    BY <1>6, BytesOfOne
  <2>2. IsFiniteSet(Cache(g)!Bytes(R))
    BY BytesFinite
  <2> QED
    BY <1>4, <1>5, <2>1, <2>2, SizesAdd, TotalIs
<1> QED
  BY <1>1, <1>3, <1>7 DEF F

\* A list cut in two.
LEMMA CutInTwo ==
  ASSUME NEW g \in CacheScenes, NEW E \in Seq(Cache(g)!Entries), Cache(g)!Distinct(E),
         NEW k \in 0 .. Len(E)
  PROVE  /\ SubSeq(E, 1, k) \in Seq(Cache(g)!Entries) /\ Len(SubSeq(E, 1, k)) = k
            /\ Cache(g)!Distinct(SubSeq(E, 1, k))
         /\ Cache(g)!TotalSize(E) = Cache(g)!TotalSize(SubSeq(E, 1, k)) + Cache(g)!TotalSize(SubSeq(E, k + 1, Len(E)))
<1> DEFINE F == SubSeq(E, 1, k)
           G == SubSeq(E, k + 1, Len(E))
<1>1. F \in Seq(Cache(g)!Entries) /\ Len(F) = k /\ \A i \in 1 .. k : F[i] = E[i]
  OBVIOUS
<1>2. G \in Seq(Cache(g)!Entries) /\ Len(G) = Len(E) - k
      /\ \A i \in 1 .. Len(E) - k : G[i] = E[i + k]
  OBVIOUS
<1> HIDE DEF F, G
<1>3. Cache(g)!Distinct(F)
  BY <1>1 DEF Cache!Distinct
<1>4. Cache(g)!Bytes(E) = Cache(g)!Bytes(F) \cup Cache(g)!Bytes(G)
  <2>1. ASSUME NEW b \in Cache(g)!Bytes(E) PROVE b \in Cache(g)!Bytes(F) \cup Cache(g)!Bytes(G)
    <3>1. PICK i \in 1 .. Len(E) : b \in {E[i].key} \X (1 .. E[i].size)
      BY DEF Cache!Bytes
    <3>2. CASE i <= k
      BY <1>1, <3>1, <3>2 DEF Cache!Bytes
    <3>3. CASE i > k
      <4>1. i - k \in DOMAIN G /\ G[i - k] = E[i]
        BY <1>2, <3>3
      <4> QED
        BY <3>1, <4>1 DEF Cache!Bytes
    <3> QED
      BY <3>2, <3>3
  <2>2. ASSUME NEW b \in Cache(g)!Bytes(F) PROVE b \in Cache(g)!Bytes(E)
    <3>1. PICK i \in 1 .. k : b \in {F[i].key} \X (1 .. F[i].size)
      BY <1>1 DEF Cache!Bytes
    <3> QED
      BY <1>1, <3>1 DEF Cache!Bytes
  <2>3. ASSUME NEW b \in Cache(g)!Bytes(G) PROVE b \in Cache(g)!Bytes(E)
    <3>1. PICK i \in 1 .. Len(E) - k : b \in {G[i].key} \X (1 .. G[i].size)
      BY <1>2 DEF Cache!Bytes
    <3>2. i + k \in DOMAIN E /\ G[i] = E[i + k]
      BY <1>2
    <3> QED
      BY <3>1, <3>2 DEF Cache!Bytes
  <2> QED
    BY <2>1, <2>2, <2>3
<1>5. Cache(g)!Bytes(F) \intersect Cache(g)!Bytes(G) = {}
  <2> SUFFICES ASSUME NEW b \in Cache(g)!Bytes(F), b \in Cache(g)!Bytes(G) PROVE FALSE
    OBVIOUS
  <2>1. PICK i \in 1 .. k : b[1] = F[i].key
    BY <1>1 DEF Cache!Bytes
  <2>2. PICK j \in 1 .. Len(E) - k : b[1] = G[j].key
    BY <1>2 DEF Cache!Bytes
  <2>3. E[i].key = E[j + k].key
    BY <1>1, <1>2, <2>1, <2>2
  <2>4. i # j + k /\ i \in DOMAIN E /\ j + k \in DOMAIN E
    OBVIOUS
  <2> QED
    BY <2>3, <2>4 DEF Cache!Distinct
<1>6. Cache(g)!TotalSize(E) = Cache(g)!TotalSize(F) + Cache(g)!TotalSize(G)
  BY <1>1, <1>2, <1>4, <1>5, BytesFinite, SizesAdd, TotalIs
<1> QED
  BY <1>1, <1>3, <1>6 DEF F, G

\* The date goes with the time.
LEMMA DayGoes ==
  ASSUME NEW g \in CacheScenes, NEW t \in Nat, NEW u \in Nat, t <= u
  PROVE  Cache(g)!DayOf(t) \in Nat /\ Cache(g)!DayOf(t) <= t
         /\ Cache(g)!DayOf(t) <= Cache(g)!DayOf(u)
<1> DEFINE q == t \div Day
           r == u \div Day
<1>1. Day \in Nat /\ Day >= 1
  BY CacheAssumption
<1>2. q \in Nat /\ r \in Nat
  BY <1>1
<1>3. Day * q <= t /\ u < Day * r + Day
  BY <1>1
<1>4. q <= t
  <2>1. q <= Day * q
    BY <1>1, <1>2
  <2>2. Day * q \in Nat
    BY <1>1, <1>2
  <2> QED
    BY <1>2, <1>3, <2>1, <2>2
<1>5. q <= r
  <2> SUFFICES ASSUME r + 1 <= q PROVE FALSE
    BY <1>2
  <2>1. Day * (r + 1) <= Day * q
    BY <1>1, <1>2
  <2>2. Day * (r + 1) = Day * r + Day
    BY <1>1, <1>2
  <2>3. Day * q \in Nat /\ Day * r \in Nat
    BY <1>1, <1>2
  <2> QED
    BY <1>1, <1>3, <2>1, <2>2, <2>3
<1> QED
  BY <1>2, <1>4, <1>5 DEF Cache!DayOf

\* A set of naturals up to n that is not empty has a largest element: the smallest
\* of the sets of those that are at least one of them.
LEMMA Largest ==
  ASSUME NEW n \in Nat, NEW S \in SUBSET (0..n), S # {}
  PROVE  \E m \in S : \A k \in S : k <= m
<1> DEFINE Above(m) == {k \in S : m <= k}
           T == {Above(m) : m \in S}
<1>1. IsFiniteSet(S)
  <2>1. IsFiniteSet(0..n)
    BY FS_Interval
  <2> QED
    BY <2>1, FS_Subset
<1>2. T \subseteq FiniteSubsetsOf(S) /\ T # {}
  <2>1. T \subseteq SUBSET S /\ T # {}
    OBVIOUS
  <2>2. FiniteSubsetsOf(S) = SUBSET S
    BY <1>1, FS_FiniteSubsetsOfFinite
  <2> QED
    BY <2>1, <2>2
<1>3. PICK x \in T : \A y \in T : ~ (<<y, x>> \in StrictSubsetOrdering(S))
  BY <1>2, FS_StrictSubsetOrderingWellFounded, WFMin
<1>4. PICK m \in S : x = Above(m)
  OBVIOUS
<1>5. ASSUME NEW k \in S, m < k PROVE FALSE
  <2>1. Above(k) \subseteq Above(m) /\ m \in Above(m) /\ m \notin Above(k)
    <3>1. k \in Nat /\ m \in Nat /\ \A l \in S : l \in Nat
      OBVIOUS
    <3>2. \A l \in Above(k) : l \in Above(m)
      BY <1>5, <3>1
    <3>3. m \in Above(m)
      BY <3>1
    <3>4. m \notin Above(k)
      BY <1>5, <3>1
    <3> QED
      BY <3>2, <3>3, <3>4
  <2>2. <<Above(k), Above(m)>> \in StrictSubsetOrdering(S)
    BY <2>1 DEF StrictSubsetOrdering
  <2> QED
    BY <1>3, <1>4, <2>2
<1> QED
  BY <1>5

\* So Max finds it.
LEMMA LargestNatural ==
  ASSUME NEW g \in CacheScenes, NEW n \in Nat, NEW S \in SUBSET (0..n), S # {}
  PROVE  Cache(g)!Max(S) \in S
BY Largest DEF Cache!Max


\* A list without one of its elements.
LEMMA WithoutOne ==
  ASSUME NEW S, NEW E \in Seq(S), NEW n \in 1 .. Len(E)
  PROVE  LET R == SubSeq(E, 1, n - 1) \o SubSeq(E, n + 1, Len(E)) IN
         /\ R \in Seq(S) /\ Len(R) = Len(E) - 1
         /\ \A i \in 1 .. Len(R) : R[i] = IF i < n THEN E[i] ELSE E[i + 1]
<1> DEFINE F == SubSeq(E, 1, n - 1)
           G == SubSeq(E, n + 1, Len(E))
           R == F \o G
<1>1. F \in Seq(S) /\ Len(F) = n - 1 /\ \A i \in 1 .. n - 1 : F[i] = E[i]
  OBVIOUS
<1>2. G \in Seq(S) /\ Len(G) = Len(E) - n /\ \A i \in 1 .. Len(E) - n : G[i] = E[i + n]
  OBVIOUS
<1> HIDE DEF F, G
<1>3. R = F \o G
  OBVIOUS
<1> HIDE DEF R
<1>4. R \in Seq(S) /\ Len(R) = Len(E) - 1
  <2>1. R \in Seq(S) /\ Len(R) = Len(F) + Len(G)
    BY <1>1, <1>2, <1>3, ConcatProperties
  <2>2. n \in Int /\ Len(E) \in Int
    OBVIOUS
  <2> QED
    BY <1>1, <1>2, <2>1, <2>2
<1>5. ASSUME NEW i \in 1 .. Len(R) PROVE R[i] = IF i < n THEN E[i] ELSE E[i + 1]
  <2>1. CASE i < n
    <3>1. R[i] = F[i]
      BY <1>1, <1>2, <1>3, <1>4, <2>1
    <3> QED
      BY <1>1, <2>1, <3>1
  <2>2. CASE i >= n
    <3>0. i \in Int /\ n \in Int /\ Len(E) \in Int
      BY <1>4
    <3>4. R[i] = G[i - Len(F)]
      BY <1>1, <1>2, <1>3, <1>4, <2>2
    <3>1. R[i] = G[i - (n - 1)] /\ i - (n - 1) \in 1 .. Len(E) - n
      BY <1>1, <1>4, <2>2, <3>0, <3>4
    <3>2. G[i - (n - 1)] = E[(i - (n - 1)) + n]
      BY <1>2, <3>1
    <3>3. (i - (n - 1)) + n = i + 1 /\ ~(i < n)
      BY <2>2
    <3> QED
      BY <3>1, <3>2, <3>3
  <2>3. i \in Int /\ n \in Int
    BY <1>4
  <2> QED
    BY <2>1, <2>2, <2>3
<1> QED
  BY <1>4, <1>5 DEF R, F, G

\* The list without the entry of a key: it has no entry of that key, and what is
\* missing is that entry and its bytes.
LEMMA OthersAre ==
  ASSUME NEW g \in CacheScenes, Cache(g)!ListOK, NEW key
  PROVE  /\ Cache(g)!Others(key) \in Seq(Cache(g)!Entries)
            /\ Cache(g)!Distinct(Cache(g)!Others(key)) /\ Len(Cache(g)!Others(key)) <= Len(v5)
         /\ \A i \in 1 .. Len(Cache(g)!Others(key)) : Cache(g)!Others(key)[i].key # key
         /\ ~Cache(g)!Found(key) => Cache(g)!Others(key) = v5
         /\ Cache(g)!Found(key) => /\ Cache(g)!Entry(key) \in Cache(g)!Entries
                                      /\ Cache(g)!Entry(key).key = key
                                   /\ \E i \in 1 .. Len(v5) : Cache(g)!Entry(key) = v5[i]
                                   /\ Len(Cache(g)!Others(key)) + 1 = Len(v5)
                                   /\ Cache(g)!TotalSize(v5) = Cache(g)!Entry(key).size + Cache(g)!TotalSize(Cache(g)!Others(key))
         /\ \A i \in 1 .. Len(Cache(g)!Others(key)) : \E j \in 1 .. Len(v5) : Cache(g)!Others(key)[i] = v5[j]
<1>1. CASE ~Cache(g)!Found(key)
  <2>1. Cache(g)!Others(key) = v5
    BY <1>1 DEF Cache!Others
  <2>2. \A i \in 1 .. Len(v5) : v5[i].key # key
    BY <1>1 DEF Cache!Found, Cache!Positions, Cache!ListOK
  <2>3. v5 \in Seq(Cache(g)!Entries) /\ Cache(g)!Distinct(v5) /\ Len(v5) <= Len(v5)
    BY DEF Cache!ListOK
  <2> QED
    BY <1>1, <2>1, <2>2, <2>3
<1>2. CASE Cache(g)!Found(key)
  <2> DEFINE n == Cache(g)!Position(key)
             R == Cache(g)!Others(key)
             e == Cache(g)!Entry(key)
  <2>0. v5 \in Seq(Cache(g)!Entries) /\ Len(v5) \in Nat /\ DOMAIN v5 = 1 .. Len(v5)
    BY DEF Cache!ListOK
  <2>1. n \in 1 .. Len(v5) /\ v5[n].key = key /\ e = v5[n]
    BY <1>2, <2>0 DEF Cache!Found, Cache!Positions, Cache!Position, Cache!Entry
  <2>2. R = SubSeq(v5, 1, n - 1) \o SubSeq(v5, n + 1, Len(v5))
    BY <1>2 DEF Cache!Others
  <2> HIDE DEF n, R, e
  <2>3. /\ R \in Seq(Cache(g)!Entries) /\ Len(R) = Len(v5) - 1
        /\ \A i \in 1 .. Len(R) : R[i] = IF i < n THEN v5[i] ELSE v5[i + 1]
    BY <2>0, <2>1, <2>2, WithoutOne
  <2>4. \A i \in 1 .. Len(R) : \E j \in 1 .. Len(v5) : R[i] = v5[j] /\ j # n
        /\ j = IF i < n THEN i ELSE i + 1
    <3> SUFFICES ASSUME NEW i \in 1 .. Len(R)
                 PROVE  \E j \in 1 .. Len(v5) : R[i] = v5[j] /\ j # n
                        /\ j = IF i < n THEN i ELSE i + 1
      OBVIOUS
    <3>1. CASE i < n
      <4>1. R[i] = v5[i] /\ i \in 1 .. Len(v5)
        BY <2>0, <2>1, <2>3, <3>1
      <4> QED
        BY <3>1, <4>1
    <3>2. CASE ~(i < n)
      <4>1. R[i] = v5[i + 1] /\ i + 1 \in 1 .. Len(v5) /\ i + 1 # n
        BY <2>0, <2>1, <2>3, <3>2
      <4> QED
        BY <3>2, <4>1
    <3> QED
      BY <3>1, <3>2
  <2>5. \A j \in 1 .. Len(v5) : j = n \/ \E i \in 1 .. Len(R) : R[i] = v5[j]
    <3> SUFFICES ASSUME NEW j \in 1 .. Len(v5), j # n PROVE \E i \in 1 .. Len(R) : R[i] = v5[j]
      OBVIOUS
    <3>1. CASE j < n
      BY <2>0, <2>1, <2>3, <3>1
    <3>2. CASE j > n
      <4>1. j - 1 \in 1 .. Len(R) /\ ~(j - 1 < n) /\ (j - 1) + 1 = j
        BY <2>0, <2>1, <2>3, <3>2
      <4> QED
        BY <2>3, <4>1
    <3> QED
      BY <2>1, <3>1, <3>2
  <2>6. \A i \in 1 .. Len(R) : R[i].key # key
    <3> SUFFICES ASSUME NEW i \in 1 .. Len(R), R[i].key = key PROVE FALSE
      OBVIOUS
    <3>1. PICK j \in 1 .. Len(v5) : R[i] = v5[j] /\ j # n
      BY <2>4
    <3> QED
      BY <2>0, <2>1, <3>1 DEF Cache!ListOK, Cache!Distinct
  <2>7. Cache(g)!Distinct(R)
    <3> SUFFICES ASSUME NEW i \in 1 .. Len(R), NEW j \in 1 .. Len(R), R[i].key = R[j].key PROVE i = j
      BY <2>3 DEF Cache!Distinct
    <3>1. PICK k \in 1 .. Len(v5) : R[i] = v5[k] /\ k = IF i < n THEN i ELSE i + 1
      BY <2>4
    <3>2. PICK l \in 1 .. Len(v5) : R[j] = v5[l] /\ l = IF j < n THEN j ELSE j + 1
      BY <2>4
    <3>3. k = l
      BY <2>0, <3>1, <3>2 DEF Cache!ListOK, Cache!Distinct
    <3> QED
      BY <2>1, <3>1, <3>2, <3>3
  <2>8. e \in Cache(g)!Entries /\ e.key = key
    BY <2>0, <2>1, ElementOfSeq
  <2>9. Cache(g)!Bytes(v5) = Cache(g)!Bytes(<<e>> \o R)
    <3> DEFINE F == <<e>> \o R
    <3>1. F \in Seq(Cache(g)!Entries) /\ Len(F) = Len(R) + 1 /\ F[1] = e
          /\ \A i \in 1 .. Len(R) : F[i + 1] = R[i]
      BY <2>3, <2>8
    <3> HIDE DEF F
    <3>2. \A i \in 1 .. Len(F) : \E j \in 1 .. Len(v5) : F[i] = v5[j]
      <4> SUFFICES ASSUME NEW i \in 1 .. Len(F) PROVE \E j \in 1 .. Len(v5) : F[i] = v5[j]
        OBVIOUS
      <4>1. CASE i = 1
        BY <2>1, <3>1, <4>1
      <4>2. CASE i # 1
        <5>1. i - 1 \in 1 .. Len(R) /\ (i - 1) + 1 = i
          BY <3>1, <4>2
        <5> QED
          BY <2>4, <3>1, <5>1
      <4> QED
        BY <4>1, <4>2
    <3>3. \A j \in 1 .. Len(v5) : \E i \in 1 .. Len(F) : F[i] = v5[j]
      <4> SUFFICES ASSUME NEW j \in 1 .. Len(v5) PROVE \E i \in 1 .. Len(F) : F[i] = v5[j]
        OBVIOUS
      <4>1. CASE j = n
        BY <2>1, <2>3, <3>1, <4>1
      <4>2. CASE j # n
        <5>1. PICK i \in 1 .. Len(R) : R[i] = v5[j]
          BY <2>5, <4>2
        <5>2. i + 1 \in 1 .. Len(F) /\ F[i + 1] = v5[j]
          BY <3>1, <5>1
        <5> QED
          BY <5>2
      <4> QED
        BY <4>1, <4>2
    <3>4. DOMAIN F = 1 .. Len(F)
      BY <3>1
    <3>5. Cache(g)!Bytes(F) \subseteq Cache(g)!Bytes(v5)
      BY <2>0, <3>2, <3>4 DEF Cache!Bytes
    <3>6. Cache(g)!Bytes(v5) \subseteq Cache(g)!Bytes(F)
      BY <2>0, <3>3, <3>4 DEF Cache!Bytes
    <3> QED
      BY <3>5, <3>6 DEF F
  <2>10. Cache(g)!TotalSize(v5) = e.size + Cache(g)!TotalSize(R)
    BY <2>3, <2>6, <2>7, <2>8, <2>9, PutInFront, TotalIs
  <2>11. Len(R) <= Len(v5) /\ Len(R) + 1 = Len(v5)
    BY <2>0, <2>3
  <2> QED
    BY <1>2, <2>1, <2>3, <2>4, <2>6, <2>7, <2>8, <2>10, <2>11 DEF R, e
<1> QED
  BY <1>1, <1>2
\* The bookkeeping of the cache.

\* What the eviction loop leaves is a part of the list, and the sum of its sizes.
LEMMA EvictKeeps ==
  ASSUME NEW g \in CacheScenes, NEW E \in Seq(Cache(g)!Entries), Cache(g)!Distinct(E)
  PROVE  LET left == Cache(g)!Evict(E, Cache(g)!TotalSize(E))
         IN  /\ left.entries \in Seq(Cache(g)!Entries) /\ Cache(g)!Distinct(left.entries)
             /\ left.bytes = Cache(g)!TotalSize(left.entries) /\ Len(left.entries) <= MaxEntries
<1> DEFINE Sum(n) == Cache(g)!TotalSize(E) - Cache(g)!TotalSize(SubSeq(E, n + 1, Len(E)))
           S == {0} \union {n \in 1 .. Len(E) : n <= MaxEntries /\ Sum(n) <= MaxBytes}
           kept == Cache(g)!Max(S)
           left == Cache(g)!Evict(E, Cache(g)!TotalSize(E))
<1>1. Len(E) \in Nat /\ MaxEntries \in Nat
  BY CacheAssumption
<1>2. left.entries = SubSeq(E, 1, kept) /\ left.bytes = Sum(kept)
  BY DEF Cache!Evict
<1> HIDE DEF Sum
<1>3. S \in SUBSET (0 .. Len(E)) /\ S # {}
  BY <1>1
<1>4. kept \in S
  BY <1>1, <1>3, LargestNatural
<1>5. kept \in 0 .. Len(E) /\ kept <= MaxEntries
  BY <1>1, <1>4
<1> HIDE DEF S, kept, left
<1>6. /\ SubSeq(E, 1, kept) \in Seq(Cache(g)!Entries) /\ Len(SubSeq(E, 1, kept)) = kept
         /\ Cache(g)!Distinct(SubSeq(E, 1, kept))
      /\ Cache(g)!TotalSize(E) = Cache(g)!TotalSize(SubSeq(E, 1, kept)) + Cache(g)!TotalSize(SubSeq(E, kept + 1, Len(E)))
  BY <1>5, CutInTwo
<1>7. Cache(g)!TotalSize(SubSeq(E, 1, kept)) \in Nat
  BY <1>6, BytesFinite
<1>8. SubSeq(E, kept + 1, Len(E)) \in Seq(Cache(g)!Entries)
  BY <1>1, <1>5
<1>9. Cache(g)!TotalSize(SubSeq(E, kept + 1, Len(E))) \in Nat
  BY <1>8, BytesFinite
<1>10. Sum(kept) = Cache(g)!TotalSize(SubSeq(E, 1, kept))
  BY <1>6, <1>7, <1>9 DEF Sum
<1> QED
  BY <1>2, <1>5, <1>6, <1>10 DEF left

\* An entry that moves to the front stays the only one of its key.
LEMMA HitKeeps ==
  ASSUME NEW g \in CacheScenes, Cache(g)!BookOK, NEW key, Cache(g)!Found(key),
         v5' = <<Cache(g)!Entry(key)>> \o Cache(g)!Others(Cache(g)!Entry(key).key), v6' = v6
  PROVE  Cache(g)!BookOK' /\ Cache(g)!Entry(key) \in Cache(g)!Entries
         /\ Cache(g)!Entry(key).key = key
<1>1. Cache(g)!ListOK
  BY DEF Cache!BookOK
<1> DEFINE e == Cache(g)!Entry(key)
           R == Cache(g)!Others(key)
<1>2. e \in Cache(g)!Entries /\ e.key = key /\ R \in Seq(Cache(g)!Entries)
      /\ Cache(g)!Distinct(R) /\ Len(R) + 1 = Len(v5)
      /\ (\A i \in 1 .. Len(R) : R[i].key # e.key)
         /\ Cache(g)!TotalSize(v5) = e.size + Cache(g)!TotalSize(R)
  BY <1>1, OthersAre
<1>3. v5' = <<e>> \o R
  BY <1>2
<1> HIDE DEF e, R
<1>4. /\ <<e>> \o R \in Seq(Cache(g)!Entries) /\ Len(<<e>> \o R) = Len(R) + 1
         /\ Cache(g)!Distinct(<<e>> \o R)
      /\ Cache(g)!TotalSize(<<e>> \o R) = e.size + Cache(g)!TotalSize(R)
  BY <1>2, PutInFront
<1>5. v5' \in Seq(Cache(g)!Entries) /\ Len(v5') = Len(v5) /\ Cache(g)!Distinct(v5')
      /\ Cache(g)!TotalSize(v5') = Cache(g)!TotalSize(v5)
  BY <1>2, <1>3, <1>4
<1>6. Cache(g)!BookOK'
  BY <1>5 DEF Cache!BookOK, Cache!ListOK
<1> QED
  BY <1>2, <1>6 DEF e

\* A put keeps the list, its keys and its sum, with and without the eviction loop.
LEMMA PutKeeps ==
  ASSUME NEW g \in CacheScenes, Cache(g)!BookOK, NEW key \in Cache(g)!Keys,
         NEW answer \in Cache(g)!Answers, Cache(g)!Suits(key, answer),
         answer.size <= MaxResponse,
         Cache(g)!Put(key, answer)
  PROVE  Cache(g)!BookOK'
<1> DEFINE e == [key |-> key, answer |-> answer, size |-> answer.size]
           R == Cache(g)!Others(key)
           F == <<e>> \o R
<1>1. Cache(g)!ListOK /\ v6 = Cache(g)!TotalSize(v5) /\ Len(v5) <= MaxEntries /\ Len(v5) \in Nat
  BY DEF Cache!BookOK, Cache!ListOK
<1>2. /\ R \in Seq(Cache(g)!Entries) /\ Cache(g)!Distinct(R) /\ Len(R) <= Len(v5)
         /\ \A i \in 1 .. Len(R) : R[i].key # key
      /\ ~Cache(g)!Found(key) => R = v5
      /\ Cache(g)!Found(key) => /\ Cache(g)!Entry(key) \in Cache(g)!Entries
                                   /\ Len(R) + 1 = Len(v5)
                                /\ Cache(g)!TotalSize(v5) = Cache(g)!Entry(key).size + Cache(g)!TotalSize(R)
  BY <1>1, OthersAre
<1>3. e \in Cache(g)!Entries /\ e.key = key /\ e.size = answer.size /\ answer.size \in Nat
  BY CacheAssumption DEF Cache!Entries, Cache!Answers
<1>4. /\ Cache(g)!Found(key) => v5' = F /\ v6' = v6 - Cache(g)!Entry(key).size + answer.size
      /\ ~Cache(g)!Found(key) => LET left == Cache(g)!Evict(F, v6 + answer.size) IN v5' = left.entries /\ v6' = left.bytes
  BY DEF Cache!Put
<1> HIDE DEF e, R
<1>5. F \in Seq(Cache(g)!Entries) /\ Len(F) = Len(R) + 1 /\ Cache(g)!Distinct(F)
      /\ Cache(g)!TotalSize(F) = e.size + Cache(g)!TotalSize(R)
  BY <1>2, <1>3, PutInFront
<1>6. Cache(g)!TotalSize(R) \in Nat /\ Cache(g)!TotalSize(F) \in Nat
  BY <1>2, <1>5, BytesFinite
<1> HIDE DEF F
<1>7. CASE Cache(g)!Found(key)
  <2>1. Cache(g)!Entry(key).size \in Nat
    BY <1>2, <1>7, CacheAssumption DEF Cache!Entries
  <2>2. v6' = Cache(g)!TotalSize(v5') /\ v5' \in Seq(Cache(g)!Entries) /\ Cache(g)!Distinct(v5')
        /\ Len(v5') <= MaxEntries
    BY <1>1, <1>2, <1>3, <1>4, <1>5, <1>6, <1>7, <2>1
  <2> QED
    BY <2>2 DEF Cache!BookOK, Cache!ListOK
<1>8. CASE ~Cache(g)!Found(key)
  <2>1. v6 + answer.size = Cache(g)!TotalSize(F)
    BY <1>1, <1>2, <1>3, <1>5, <1>6, <1>8
  <2>2. LET left == Cache(g)!Evict(F, Cache(g)!TotalSize(F))
        IN  left.entries \in Seq(Cache(g)!Entries) /\ Cache(g)!Distinct(left.entries)
            /\ left.bytes = Cache(g)!TotalSize(left.entries) /\ Len(left.entries) <= MaxEntries
    BY <1>5, EvictKeeps
  <2>3. v6' = Cache(g)!TotalSize(v5') /\ v5' \in Seq(Cache(g)!Entries) /\ Cache(g)!Distinct(v5')
        /\ Len(v5') <= MaxEntries
    BY <1>4, <1>8, <2>1, <2>2
  <2> QED
    BY <2>3 DEF Cache!BookOK, Cache!ListOK
<1> QED
  BY <1>7, <1>8

\* What a request is.
LEMMA RequestIs ==
  ASSUME NEW g \in CacheScenes, NEW r \in g.requests
  PROVE  r.inferred \in g.accounts /\ r.actual \in g.accounts /\ r.window \in {"dated", "moving"}
BY CacheAssumption

\* Neither the time nor the date goes back.
LEMMA MomentGrows ==
  ASSUME NEW g \in CacheScenes, NEW r \in g.requests, v1 \in Nat, v1' \in Nat, v1 <= v1'
  PROVE  /\ Cache(g)!Moment(r) \in Nat /\ Cache(g)!Moment(r) <= Cache(g)!Moment(r)'
            /\ Cache(g)!DayOf(v1) \in Nat /\ Cache(g)!DayOf(v1) <= Cache(g)!DayOf(v1')
         /\ Cache(g)!DayOf(v1) <= v1 /\ Cache(g)!Moment(r)' \in Nat /\ Cache(g)!DayOf(v1') \in Nat
<1>1. /\ Cache(g)!DayOf(v1) \in Nat /\ Cache(g)!DayOf(v1) <= v1
         /\ Cache(g)!DayOf(v1) <= Cache(g)!DayOf(v1')
      /\ Cache(g)!DayOf(v1') \in Nat
  BY DayGoes
<1> QED
  BY <1>1 DEF Cache!Moment

\* What a request knows stays true while others refresh, index and forget.
LEMMA StaysTrue ==
  ASSUME NEW g \in CacheScenes, Cache(g)!WorldOK, Cache(g)!WorldOK', Cache(g)!Grows, NEW d,
         Cache(g)!ConnOK(d)
  PROVE  Cache(g)!ConnOK(d)'
<1>0. v1 \in Nat /\ v1' \in Nat /\ v1 <= v1'
  BY CacheAssumption DEF Cache!WorldOK, Cache!Grows
<1>1. CASE d.at = "free"
  BY <1>1 DEF Cache!ConnOK
<1>2. CASE d.at # "free"
  <2> DEFINE s == d.since
             r == d.req
             k == d.key
  <2>0. r \in g.requests /\ s \in Cache(g)!Sinces /\ Cache(g)!SinceOK(s, r)
    BY <1>2 DEF Cache!ConnOK
  <2>1. r.inferred \in g.accounts /\ r.actual \in g.accounts /\ s.version \in Nat
        /\ s.time \in Nat /\ s.indexed \in BOOLEAN
    BY <2>0, RequestIs DEF Cache!Sinces
  <2>2. /\ Cache(g)!Moment(r) \in Nat /\ Cache(g)!Moment(r) <= Cache(g)!Moment(r)'
           /\ Cache(g)!DayOf(v1) \in Nat /\ Cache(g)!DayOf(v1) <= Cache(g)!DayOf(v1')
        /\ Cache(g)!Moment(r)' \in Nat /\ Cache(g)!DayOf(v1') \in Nat
    BY <1>0, <2>0, MomentGrows
  <2>3. \A a \in g.accounts : v2[a] \in Nat /\ v2'[a] \in Nat /\ v3[a] \in Nat /\ v3'[a] \in Nat
    BY DEF Cache!WorldOK
  <2> HIDE DEF s, r, k
  <2>4. Cache(g)!SinceOK(s, r)'
    <3>1. s.version > v2'[r.actual] => s.version = v2'[r.actual] + 1
          /\ v3'[r.actual] = v2'[r.actual]
      BY <2>0, <2>1, <2>3 DEF Cache!SinceOK, Cache!Grows
    <3>2. s.indexed => s.version <= v2'[r.actual]
      BY <2>0, <2>1, <2>3 DEF Cache!SinceOK, Cache!Grows
    <3>3. s.indexed /\ s.version > v3'[r.actual] => <<r.actual, s.version>> \in v4'
      BY <2>0, <2>1, <2>3 DEF Cache!SinceOK, Cache!Grows
    <3>4. s.time <= Cache(g)!Moment(r)'
      BY <2>0, <2>1, <2>2 DEF Cache!SinceOK
    <3> QED
      BY <3>1, <3>2, <3>3, <3>4 DEF Cache!SinceOK
  <2>5. ASSUME NEW v, Cache(g)!BoundOK(s, r, v) PROVE Cache(g)!BoundOK(s, r, v)'
    BY <2>1, <2>3, <2>5 DEF Cache!BoundOK, Cache!Grows
  <2>6. ASSUME Cache(g)!KeyOK(s, r, k) PROVE Cache(g)!KeyOK(s, r, k)'
    <3>1. k.version \in Nat /\ k.day \in Nat /\ k.indexed \in BOOLEAN
      BY <2>6 DEF Cache!KeyOK, Cache!Keys
    <3>2. k.version <= v2'[r.inferred]
      BY <2>1, <2>3, <2>6, <3>1 DEF Cache!KeyOK, Cache!Grows
    <3>3. k.indexed /\ k.version > v3'[r.inferred] => <<r.inferred, k.version>> \in v4'
      BY <2>1, <2>3, <2>6, <3>1 DEF Cache!KeyOK, Cache!Grows
    <3>4. k.day <= Cache(g)!DayOf(v1')
      BY <2>2, <2>6, <3>1 DEF Cache!KeyOK
    <3>5. r.inferred = r.actual => /\ k.version = s.version
                                   /\ s.indexed /\ s.version > v3'[r.actual] => k.indexed
      BY <2>1, <2>3, <2>6, <3>1 DEF Cache!KeyOK, Cache!Grows
    <3> QED
      BY <2>6, <3>2, <3>3, <3>4, <3>5 DEF Cache!KeyOK
  <2>7. ASSUME NEW t \in Cache(g)!Answers, Cache(g)!Fresh(s, r, t) PROVE Cache(g)!Fresh(s, r, t)'
    <3>1. t.version \in Nat
      BY DEF Cache!Answers
    <3> QED
      BY <2>1, <2>3, <2>7, <3>1 DEF Cache!Fresh, Cache!Grows
  <2>8. ASSUME d.at = "executed" PROVE d.answer \in Cache(g)!Answers
               /\ Cache(g)!Fresh(s, r, d.answer) /\ Cache(g)!Fresh(s, r, d.answer)'
    <3>1. d.answer \in Cache(g)!Answers /\ Cache(g)!Fresh(s, r, d.answer)
      BY <2>8 DEF Cache!ConnOK, s, r
    <3> QED
      BY <3>1, <2>7
  <2> QED
    BY <1>2, <2>0, <2>4, <2>5, <2>6, <2>8 DEF Cache!ConnOK, s, r, k
<1> QED
  BY <1>1, <1>2

\* Nothing is kept at first.
LEMMA CacheInit ==
  ASSUME NEW g \in CacheScenes, Cache(g)!Init
  PROVE  Cache(g)!CacheInv
<1>1. Cache(g)!WorldOK
  BY CacheAssumption DEF Cache!Init, Cache!WorldOK
<1>2. Cache(g)!BookOK
  <2>1. v5 = <<>> /\ v6 = 0
    BY DEF Cache!Init
  <2>2. Cache(g)!Bytes(<<>>) = {}
    BY DEF Cache!Bytes
  <2>3. Cache(g)!TotalSize(<<>>) = 0
    BY <2>2, FS_EmptySet, TotalIs
  <2> QED
    BY <2>1, <2>3, CacheAssumption DEF Cache!BookOK, Cache!ListOK, Cache!Distinct
<1>3. DOMAIN v7 = Conns /\ \A c \in Conns : Cache(g)!ConnOK(v7[c])
  BY DEF Cache!Init, Cache!ConnOK, Cache!Free
<1>4. Cache(g)!ReplyOK
  BY DEF Cache!Init, Cache!ReplyOK, Cache!NoReply
<1> QED
  BY <1>1, <1>2, <1>3, <1>4 DEF Cache!CacheInv

\* What the other commands and the clock do.
LEMMA WorldGoesOn ==
  ASSUME NEW g \in CacheScenes, Cache(g)!WorldOK,
         Cache(g)!Tick \/ \E a \in g.accounts : Cache(g)!World(a)
  PROVE  Cache(g)!WorldOK' /\ Cache(g)!Grows /\ UNCHANGED <<v5, v6, v7>> /\ v8' = Cache(g)!NoReply
<1>0. v1 \in 0 .. g.maxclock /\ v1 \in Nat /\ g.maxclock \in Nat
  BY CacheAssumption DEF Cache!WorldOK
<1>1. CASE Cache(g)!Tick
  <2>1. v1' \in 0 .. g.maxclock /\ v1 <= v1' /\ UNCHANGED <<v2, v3, v4, v5, v6, v7>>
        /\ v8' = Cache(g)!NoReply
    BY <1>0, <1>1 DEF Cache!Tick
  <2> QED
    BY <2>1 DEF Cache!WorldOK, Cache!Grows
<1>2. ASSUME NEW a \in g.accounts, Cache(g)!Refresh(a)
      PROVE  Cache(g)!WorldOK' /\ Cache(g)!Grows /\ UNCHANGED <<v5, v6, v7>>
             /\ v8' = Cache(g)!NoReply
  <2>1. v2' = [v2 EXCEPT ![a] = @ + 1] /\ UNCHANGED <<v1, v3, v5, v6, v7>>
        /\ v8' = Cache(g)!NoReply
    BY <1>2 DEF Cache!Refresh
  <2>2. v4 \subseteq v4' /\ v4' \subseteq v4 \union {<<a, v2[a] + 1>>}
    BY <1>2 DEF Cache!Refresh
  <2>3. v2' \in [g.accounts -> Nat] /\ v2'[a] = v2[a] + 1
        /\ (\A b \in g.accounts : b # a => v2'[b] = v2[b])
        /\ v2[a] \in Nat /\ v3[a] \in Nat /\ v3[a] <= v2[a]
    BY <2>1 DEF Cache!WorldOK
  <2>4. ASSUME NEW b \in g.accounts, NEW v \in Nat, <<b, v>> \in v4' PROVE v3'[b] < v
               /\ v <= v2'[b]
    <3>1. CASE <<b, v>> \in v4
      BY <2>1, <2>3, <3>1 DEF Cache!WorldOK
    <3>2. CASE b = a /\ v = v2[a] + 1
      BY <2>1, <2>3, <3>2
    <3> QED
      BY <2>2, <2>4, <3>1, <3>2
  <2>5. Cache(g)!WorldOK'
    <3>1. v4' \in SUBSET (g.accounts \X Nat)
      BY <2>2, <2>3 DEF Cache!WorldOK
    <3>2. \A b \in g.accounts : v3'[b] <= v2'[b]
      BY <2>1, <2>3 DEF Cache!WorldOK
    <3> QED
      BY <2>1, <2>3, <2>4, <3>1, <3>2 DEF Cache!WorldOK
  <2>6. Cache(g)!Grows
    BY <1>0, <2>1, <2>2, <2>3 DEF Cache!Grows
  <2> QED
    BY <2>1, <2>5, <2>6
<1>3. ASSUME NEW a \in g.accounts, Cache(g)!BuildIndex(a)
      PROVE  Cache(g)!WorldOK' /\ Cache(g)!Grows /\ UNCHANGED <<v5, v6, v7>>
             /\ v8' = Cache(g)!NoReply
  <2>1. /\ v4' = v4 \union {<<a, v2[a]>>} /\ UNCHANGED <<v1, v2, v3, v5, v6, v7>>
           /\ v8' = Cache(g)!NoReply
        /\ Cache(g)!Current(a) # 0
    BY <1>3 DEF Cache!BuildIndex
  <2>2. v2[a] \in Nat /\ v3[a] \in Nat /\ v3[a] < v2[a]
    BY <2>1 DEF Cache!WorldOK, Cache!Current
  <2>3. Cache(g)!WorldOK'
    BY <2>1, <2>2 DEF Cache!WorldOK
  <2>4. Cache(g)!Grows
    BY <1>0, <2>1 DEF Cache!Grows
  <2> QED
    BY <2>1, <2>3, <2>4
<1>4. ASSUME NEW a \in g.accounts, Cache(g)!Forget(a)
      PROVE  Cache(g)!WorldOK' /\ Cache(g)!Grows /\ UNCHANGED <<v5, v6, v7>>
             /\ v8' = Cache(g)!NoReply
  <2>1. /\ v3' = [v3 EXCEPT ![a] = v2[a]] /\ v4' = {i \in v4 : i[1] # a}
        /\ UNCHANGED <<v1, v2, v5, v6, v7>> /\ v8' = Cache(g)!NoReply /\ Cache(g)!Current(a) # 0
    BY <1>4 DEF Cache!Forget
  <2>2. v2[a] \in Nat /\ v3[a] \in Nat /\ v3[a] < v2[a]
    BY <2>1 DEF Cache!WorldOK, Cache!Current
  <2>3. v3' \in [g.accounts -> Nat] /\ v3'[a] = v2[a]
        /\ \A b \in g.accounts : b # a => v3'[b] = v3[b]
    BY <2>1, <2>2 DEF Cache!WorldOK
  <2>4. ASSUME NEW b \in g.accounts, NEW v \in Nat
        PROVE  <<b, v>> \in v4' <=> <<b, v>> \in v4 /\ b # a
    BY <2>1
  <2>5. Cache(g)!WorldOK'
    <3>1. v4' \in SUBSET (g.accounts \X Nat)
      BY <2>1 DEF Cache!WorldOK
    <3>2. \A b \in g.accounts : v3'[b] <= v2'[b]
      BY <2>1, <2>2, <2>3 DEF Cache!WorldOK
    <3>3. \A b \in g.accounts, v \in Nat : <<b, v>> \in v4' => v3'[b] < v /\ v <= v2'[b]
      BY <2>1, <2>3, <2>4 DEF Cache!WorldOK
    <3> QED
      BY <2>1, <2>3, <3>1, <3>2, <3>3 DEF Cache!WorldOK
  <2>6. Cache(g)!Grows
    <3>1. ASSUME NEW b \in g.accounts, NEW v \in Nat, <<b, v>> \in v4, v > v3'[b] PROVE <<b, v>> \in v4'
      BY <2>2, <2>3, <2>4, <3>1 DEF Cache!WorldOK
    <3> QED
      BY <1>0, <2>1, <2>2, <2>3, <3>1 DEF Cache!Grows
  <2> QED
    BY <2>1, <2>5, <2>6
<1> QED
  BY <1>1, <1>2, <1>3, <1>4 DEF Cache!World

\* A handler that goes on, while the rest of the world and the cache stay.
LEMMA HandlerGoesOn ==
  ASSUME NEW g \in CacheScenes, Cache(g)!CacheInv, UNCHANGED <<v1, v2, v3, v4, v5, v6>>,
         NEW c \in Conns, NEW from, NEW to,
         Cache(g)!Goto(c, from, to), Cache(g)!ConnOK(to)
  PROVE  Cache(g)!CacheInv'
<1>1. Cache(g)!WorldOK' /\ Cache(g)!BookOK'
  BY DEF Cache!CacheInv, Cache!WorldOK, Cache!BookOK, Cache!ListOK, Cache!Distinct,
     Cache!TotalSize, Cache!Bytes
<1>2. ASSUME NEW d PROVE Cache(g)!ConnOK(d)' <=> Cache(g)!ConnOK(d)
  BY DEF Cache!ConnOK, Cache!SinceOK, Cache!BoundOK, Cache!KeyOK, Cache!Fresh, Cache!Moment
<1>3. DOMAIN v7' = Conns /\ \A x \in Conns : v7'[x] = IF x = c THEN to ELSE v7[x]
  BY DEF Cache!Goto, Cache!CacheInv
<1>4. \A x \in Conns : Cache(g)!ConnOK(v7'[x])
  BY <1>3 DEF Cache!CacheInv
<1>5. ASSUME NEW x \in Conns PROVE Cache(g)!ConnOK(v7[x])'
  <2>1. PICK d : d = v7'[x]
    OBVIOUS
  <2>2. Cache(g)!ConnOK(d)'
    BY <1>2, <1>4, <2>1
  <2> QED
    BY <2>1, <2>2
<1>6. Cache(g)!ReplyOK'
  BY DEF Cache!Goto, Cache!ReplyOK, Cache!NoReply
<1> QED
  BY <1>1, <1>3, <1>5, <1>6 DEF Cache!CacheInv

\* A response that is written is fresh, or none.
LEMMA HandlerReplies ==
  ASSUME NEW g \in CacheScenes, Cache(g)!CacheInv, UNCHANGED <<v1, v2, v3, v4>>,
         Cache(g)!BookOK', NEW c \in Conns, NEW from, NEW answer,
         Cache(g)!Reply(c, from, answer),
         answer = Cache(g)!NoAnswer \/ (answer \in Cache(g)!Answers /\ Cache(g)!Fresh(v7[c].since, v7[c].req, answer))
  PROVE  Cache(g)!CacheInv'
<1>1. Cache(g)!WorldOK'
  BY DEF Cache!CacheInv, Cache!WorldOK
<1>2. ASSUME NEW d PROVE Cache(g)!ConnOK(d)' <=> Cache(g)!ConnOK(d)
  BY DEF Cache!ConnOK, Cache!SinceOK, Cache!BoundOK, Cache!KeyOK, Cache!Fresh, Cache!Moment
<1>3. DOMAIN v7' = Conns /\ \A x \in Conns : v7'[x] = IF x = c THEN Cache(g)!Free ELSE v7[x]
  BY DEF Cache!Reply, Cache!CacheInv
<1>4. \A x \in Conns : Cache(g)!ConnOK(v7'[x])
  <2>1. Cache(g)!ConnOK(Cache(g)!Free)
    BY DEF Cache!ConnOK, Cache!Free
  <2> QED
    BY <1>3, <2>1 DEF Cache!CacheInv
<1>5. ASSUME NEW x \in Conns PROVE Cache(g)!ConnOK(v7[x])'
  <2>1. PICK d : d = v7'[x]
    OBVIOUS
  <2>2. Cache(g)!ConnOK(d)'
    BY <1>2, <1>4, <2>1
  <2> QED
    BY <2>1, <2>2
<1>6. Cache(g)!ReplyOK'
  <2>1. v8' = [req |-> v7[c].req, since |-> v7[c].since, answer |-> answer]
    BY DEF Cache!Reply
  <2> QED
    BY <2>1 DEF Cache!ReplyOK, Cache!Fresh
<1> QED
  BY <1>1, <1>3, <1>5, <1>6 DEF Cache!CacheInv

\* What is noted of an account when a request is read is what holds then.
LEMMA AcceptKeeps ==
  ASSUME NEW g \in CacheScenes, Cache(g)!CacheInv, NEW c \in Conns, NEW r \in g.requests,
         Cache(g)!Accept(c, r)
  PROVE  Cache(g)!CacheInv'
<1> DEFINE s == Cache(g)!Since(r)
           v == Cache(g)!Current(r.inferred)
           to == IF r.window = "moving" \/ v = 0
                 THEN [at |-> "missed", req |-> r, since |-> s, key |-> Cache(g)!NoKey]
                 ELSE [at |-> "bound", req |-> r, since |-> s, version |-> v]
<1>1. Cache(g)!Goto(c, "free", to) /\ UNCHANGED <<v1, v2, v3, v4, v5, v6>>
  BY DEF Cache!Accept
<1>2. r.inferred \in g.accounts /\ r.actual \in g.accounts /\ r.window \in {"dated", "moving"}
  BY RequestIs
<1>3. v1 \in Nat
  BY CacheAssumption DEF Cache!CacheInv, Cache!WorldOK
<1>4. Cache(g)!Moment(r) \in Nat
  BY <1>3, DayGoes DEF Cache!Moment
<1>5. \A a \in g.accounts : v2[a] \in Nat /\ v3[a] \in Nat /\ v3[a] <= v2[a]
  BY DEF Cache!CacheInv, Cache!WorldOK
<1>6. \A a \in g.accounts, n \in Nat : <<a, n>> \in v4 => v3[a] < n /\ n <= v2[a]
  BY DEF Cache!CacheInv, Cache!WorldOK
<1>7. s \in Cache(g)!Sinces /\ Cache(g)!SinceOK(s, r)
  <2>1. s = [version |-> IF Cache(g)!Current(r.actual) = 0 THEN v2[r.actual] + 1 ELSE v2[r.actual],
             indexed |-> <<r.actual, Cache(g)!Current(r.actual)>> \in v4, time |-> Cache(g)!Moment(r)]
    BY DEF Cache!Since
  <2> HIDE DEF s
  <2>2. s.version \in Nat /\ s.time = Cache(g)!Moment(r) /\ s.indexed \in BOOLEAN
    BY <1>2, <1>5, <2>1
  <2>3. s \in Cache(g)!Sinces
    BY <1>4, <2>1, <2>2 DEF Cache!Sinces
  <2>4. CASE v2[r.actual] > v3[r.actual]
    <3>1. Cache(g)!Current(r.actual) = v2[r.actual] /\ s.version = v2[r.actual]
      BY <1>2, <1>5, <2>1, <2>4 DEF Cache!Current
    <3>2. s.indexed <=> <<r.actual, s.version>> \in v4
      BY <2>1, <3>1
    <3> QED
      BY <1>2, <1>4, <1>5, <2>2, <2>3, <3>1, <3>2 DEF Cache!SinceOK
  <2>5. CASE v2[r.actual] = v3[r.actual]
    <3>1. Cache(g)!Current(r.actual) = 0 /\ s.version = v2[r.actual] + 1
      BY <1>2, <1>5, <2>1, <2>5 DEF Cache!Current
    <3>2. <<r.actual, 0>> \notin v4
      BY <1>2, <1>5, <1>6
    <3>3. ~s.indexed
      BY <2>1, <3>1, <3>2
    <3> QED
      BY <1>2, <1>4, <1>5, <2>2, <2>3, <2>5, <3>1, <3>3 DEF Cache!SinceOK
  <2> QED
    BY <1>2, <1>5, <2>4, <2>5
<1>8. ~(r.window = "moving" \/ v = 0) => Cache(g)!BoundOK(s, r, v)
  BY <1>2, <1>5 DEF Cache!BoundOK, Cache!Current, Cache!Since
<1> HIDE DEF s, v
<1>9. Cache(g)!ConnOK(to)
  BY <1>7, <1>8 DEF Cache!ConnOK
<1> QED
  BY <1>1, <1>9, HandlerGoesOn

\* A key is bound to the generation resolved before, and to the index and the date
\* of now.
LEMMA BindIndexKeeps ==
  ASSUME NEW g \in CacheScenes, Cache(g)!CacheInv, NEW c \in Conns, Cache(g)!BindIndex(c)
  PROVE  Cache(g)!CacheInv'
<1>1. PICK d : d = v7[c]
  OBVIOUS
<1>2. d.at = "bound" /\ Cache(g)!ConnOK(d)
  BY <1>1 DEF Cache!BindIndex, Cache!CacheInv
<1> DEFINE s == d.since
           r == d.req
           k == Cache(g)!KeyOf(c)
           to == [at |-> "keyed", req |-> r, since |-> s, key |-> k]
<1>3. Cache(g)!Goto(c, "bound", to) /\ UNCHANGED <<v1, v2, v3, v4, v5, v6>>
  BY <1>1 DEF Cache!BindIndex
<1>4. r \in g.requests /\ s \in Cache(g)!Sinces /\ Cache(g)!SinceOK(s, r)
      /\ Cache(g)!BoundOK(s, r, d.version)
  BY <1>2 DEF Cache!ConnOK
<1>5. k = [version |-> d.version, req |-> r, indexed |-> <<r.inferred, d.version>> \in v4, day |-> Cache(g)!DayOf(v1)]
  BY <1>1 DEF Cache!KeyOf
<1>6. v1 \in Nat /\ g.maxclock \in Nat /\ v1 <= g.maxclock
  BY CacheAssumption DEF Cache!CacheInv, Cache!WorldOK
<1>7. Cache(g)!DayOf(v1) \in Nat /\ Cache(g)!DayOf(v1) \in 0 .. Cache(g)!DayOf(g.maxclock)
  BY <1>6, DayGoes
<1> HIDE DEF s, r, k
<1>8. Cache(g)!KeyOK(s, r, k)
  <2>1. k \in Cache(g)!Keys
    BY <1>4, <1>5, <1>7 DEF Cache!Keys, Cache!BoundOK
  <2>2. k.version = d.version /\ k.req = r /\ k.day = Cache(g)!DayOf(v1)
        /\ (k.indexed <=> <<r.inferred, d.version>> \in v4)
    BY <1>5
  <2>3. s.time <= k.day
    BY <1>4, <2>2 DEF Cache!SinceOK, Cache!BoundOK, Cache!Moment
  <2>4. r.inferred = r.actual => /\ k.version = s.version
                                 /\ s.indexed /\ s.version > v3[r.actual] => k.indexed
    BY <1>4, <2>2 DEF Cache!BoundOK, Cache!SinceOK
  <2> QED
    BY <1>4, <1>7, <2>1, <2>2, <2>3, <2>4 DEF Cache!KeyOK, Cache!BoundOK
<1>9. Cache(g)!ConnOK(to)
  BY <1>4, <1>8 DEF Cache!ConnOK
<1> QED
  BY <1>3, <1>9, HandlerGoesOn

\* A response that was kept is as good as one made now.
LEMMA HitAnswers ==
  ASSUME NEW g \in CacheScenes, Cache(g)!CacheInv, NEW c \in Conns, Cache(g)!Hit(c)
  PROVE  Cache(g)!CacheInv'
<1>1. PICK d : d = v7[c]
  OBVIOUS
<1>2. d.at = "keyed" /\ Cache(g)!ConnOK(d) /\ Cache(g)!Found(d.key)
  BY <1>1 DEF Cache!Hit, Cache!CacheInv
<1>3. PICK e : e = Cache(g)!Entry(d.key)
  OBVIOUS
<1>4. /\ Cache(g)!Reply(c, "keyed", Cache(g)!Delivered(e.answer))
         /\ v5' = <<e>> \o Cache(g)!Others(e.key)
      /\ UNCHANGED <<v1, v2, v3, v4, v6>>
  BY <1>1, <1>3 DEF Cache!Hit
<1>5. Cache(g)!BookOK' /\ e \in Cache(g)!Entries /\ e.key = d.key
  <2>1. Cache(g)!BookOK
    BY DEF Cache!CacheInv
  <2> QED
    BY <1>2, <1>3, <1>4, <2>1, HitKeeps
<1> DEFINE s == d.since
           r == d.req
           k == d.key
           t == e.answer
<1>6. r \in g.requests /\ s \in Cache(g)!Sinces /\ Cache(g)!KeyOK(s, r, k)
  BY <1>2 DEF Cache!ConnOK
<1>7. t \in Cache(g)!Answers /\ Cache(g)!Suits(k, t)
  BY <1>5 DEF Cache!Entries
<1>8. /\ s.version \in Nat /\ s.time \in Nat /\ k.version \in Nat /\ t.version \in Nat
         /\ t.time \in Nat
      /\ k.day \in Nat /\ r.actual \in g.accounts
  BY <1>6, <1>7, CacheAssumption DEF Cache!Sinces, Cache!KeyOK, Cache!Keys, Cache!Answers
<1> HIDE DEF s, r, k, t
<1>9. Cache(g)!Fresh(s, r, t)
  <2>1. r.inferred = t.account /\ r.actual = t.account /\ t.version = k.version /\ t.time >= k.day
        /\ (k.indexed => t.indexed) /\ s.time <= k.day
    BY <1>6, <1>7 DEF Cache!KeyOK, Cache!Suits
  <2>2. k.version = s.version /\ (s.indexed /\ s.version > v3[r.actual] => k.indexed)
    BY <1>6, <2>1 DEF Cache!KeyOK
  <2> QED
    BY <1>8, <2>1, <2>2 DEF Cache!Fresh
<1>10. Cache(g)!Delivered(t) = Cache(g)!NoAnswer \/ Cache(g)!Delivered(t) = t
  BY DEF Cache!Delivered
<1> QED
  BY <1>1, <1>4, <1>5, <1>7, <1>9, <1>10, HandlerReplies DEF s, r, t

\* A miss forgets nothing.
LEMMA MissKeeps ==
  ASSUME NEW g \in CacheScenes, Cache(g)!CacheInv, NEW c \in Conns, Cache(g)!Miss(c)
  PROVE  Cache(g)!CacheInv'
<1>1. PICK d : d = v7[c]
  OBVIOUS
<1>2. d.at = "keyed" /\ Cache(g)!ConnOK(d)
  BY <1>1 DEF Cache!Miss, Cache!CacheInv
<1> DEFINE to == [at |-> "missed", req |-> d.req, since |-> d.since, key |-> d.key]
<1>3. Cache(g)!Goto(c, "keyed", to) /\ UNCHANGED <<v1, v2, v3, v4, v5, v6>>
  BY <1>1 DEF Cache!Miss
<1>4. Cache(g)!ConnOK(to)
  BY <1>2 DEF Cache!ConnOK
<1> QED
  BY <1>3, <1>4, HandlerGoesOn

\* The command resolves its account no earlier than the key did.
LEMMA ResolveKeeps ==
  ASSUME NEW g \in CacheScenes, Cache(g)!CacheInv, NEW c \in Conns, Cache(g)!Resolve(c)
  PROVE  Cache(g)!CacheInv'
<1>1. PICK d : d = v7[c]
  OBVIOUS
<1>2. d.at = "missed" /\ Cache(g)!ConnOK(d)
  BY <1>1 DEF Cache!Resolve, Cache!CacheInv
<1>3. PICK v : v = Cache(g)!Current(d.req.actual)
  OBVIOUS
<1> DEFINE to == [at |-> "resolved", req |-> d.req, since |-> d.since, key |-> d.key, version |-> v]
<1>4. /\ IF v = 0 THEN Cache(g)!Reply(c, "missed", Cache(g)!NoAnswer) ELSE Cache(g)!Goto(c, "missed", to)
      /\ UNCHANGED <<v1, v2, v3, v4, v5, v6>>
  BY <1>1, <1>3 DEF Cache!Resolve
<1>5. CASE v = 0
  <2>1. Cache(g)!BookOK'
    BY <1>4 DEF Cache!CacheInv, Cache!BookOK, Cache!ListOK, Cache!Distinct, Cache!TotalSize,
       Cache!Bytes
  <2> QED
    BY <1>4, <1>5, <2>1, HandlerReplies
<1>6. CASE v # 0
  <2>1. d.req \in g.requests /\ d.since \in Cache(g)!Sinces /\ Cache(g)!SinceOK(d.since, d.req)
    BY <1>2 DEF Cache!ConnOK
  <2>2. d.req.actual \in g.accounts /\ d.since.version \in Nat
    BY <2>1, CacheAssumption DEF Cache!Sinces
  <2>3. v2[d.req.actual] \in Nat /\ v3[d.req.actual] \in Nat
    BY <2>2 DEF Cache!CacheInv, Cache!WorldOK
  <2>4. v = v2[d.req.actual] /\ v3[d.req.actual] < v
    BY <1>3, <1>6 DEF Cache!Current
  <2>5. v \in Nat /\ d.since.version <= v
    BY <2>1, <2>2, <2>3, <2>4 DEF Cache!SinceOK
  <2>6. Cache(g)!ConnOK(to)
    BY <1>2, <2>5 DEF Cache!ConnOK
  <2> QED
    BY <1>4, <1>6, <2>6, HandlerGoesOn
<1> QED
  BY <1>5, <1>6

\* An answer follows the key it may be kept under.
LEMMA ExecuteKeeps ==
  ASSUME NEW g \in CacheScenes, Cache(g)!CacheInv, NEW c \in Conns, Cache(g)!Execute(c)
  PROVE  Cache(g)!CacheInv'
<1>1. PICK d : d = v7[c]
  OBVIOUS
<1>2. d.at = "resolved" /\ Cache(g)!ConnOK(d) /\ d.version > v3[d.req.actual]
      /\ UNCHANGED <<v1, v2, v3, v4, v5, v6>>
  BY <1>1 DEF Cache!Execute, Cache!CacheInv
<1> DEFINE s == d.since
           r == d.req
           k == d.key
<1>3. PICK i : i \in BOOLEAN /\ (i <=> <<r.actual, d.version>> \in v4)
           /\ i = (<<r.actual, d.version>> \in v4)
  <2>1. (<<r.actual, d.version>> \in v4) \in BOOLEAN
    OBVIOUS
  <2>2. PICK i : i = (<<r.actual, d.version>> \in v4)
    OBVIOUS
  <2> QED
    BY <2>1, <2>2
<1>4. PICK size \in Sizes[i] :
        Cache(g)!Goto(c, "resolved",
             [at |-> "executed", req |-> r, since |-> s, key |-> k,
              answer |-> [account |-> r.actual, version |-> d.version, indexed |-> i, size |-> size,
                          time |-> Cache(g)!Moment(r)]])
  BY <1>1, <1>3 DEF Cache!Execute
<1>5. PICK t : t = [account |-> r.actual, version |-> d.version, indexed |-> i, size |-> size, time |-> Cache(g)!Moment(r)]
  OBVIOUS
<1> DEFINE to == [at |-> "executed", req |-> r, since |-> s, key |-> k, answer |-> t]
<1>6. r \in g.requests /\ s \in Cache(g)!Sinces /\ Cache(g)!SinceOK(s, r) /\ d.version \in Nat
      /\ s.version <= d.version
      /\ (k = Cache(g)!NoKey \/ Cache(g)!KeyOK(s, r, k))
  BY <1>2 DEF Cache!ConnOK
<1> HIDE DEF s, r, k
<1>7. r.inferred \in g.accounts /\ r.actual \in g.accounts
  BY <1>6, CacheAssumption
<1>8. v1 \in Nat /\ g.maxclock \in Nat /\ v1 <= g.maxclock
  BY CacheAssumption DEF Cache!CacheInv, Cache!WorldOK
<1>9. Cache(g)!Moment(r) \in 0 .. g.maxclock /\ Cache(g)!DayOf(v1) \in Nat
      /\ Cache(g)!DayOf(v1) <= Cache(g)!Moment(r)
  BY <1>8, DayGoes DEF Cache!Moment
<1>10. size \in Nat
  BY <1>3, <1>4, CacheAssumption
<1>11. t \in Cache(g)!Answers
  BY <1>3, <1>5, <1>6, <1>7, <1>9, <1>10 DEF Cache!Answers
<1>12. /\ t.account = r.actual /\ t.version = d.version /\ t.time = Cache(g)!Moment(r)
       /\ (t.indexed <=> <<r.actual, d.version>> \in v4)
  BY <1>3, <1>5
<1>13. Cache(g)!Fresh(s, r, t)
  <2>1. (t.version = s.version /\ s.indexed /\ t.version > v3[r.actual]) => t.indexed
    BY <1>6, <1>12 DEF Cache!SinceOK
  <2> QED
    BY <1>6, <1>12, <2>1 DEF Cache!Fresh, Cache!SinceOK
<1>14. ASSUME Cache(g)!KeyOK(s, r, k) PROVE Cache(g)!Follows(k, t)
  <2>1. k.day \in Nat /\ k.day <= Cache(g)!DayOf(v1) /\ k.req = r
    BY <1>14 DEF Cache!KeyOK, Cache!Keys
  <2>2. t.time >= k.day
    BY <1>9, <1>12, <2>1
  <2>3. ASSUME Cache(g)!Matches(k, t), k.indexed PROVE t.indexed
    <3>1. k.version = d.version /\ r.inferred = r.actual
      BY <1>12, <2>1, <2>3 DEF Cache!Matches
    <3>2. d.version > v3[r.actual]
      BY <1>2 DEF r
    <3>3. <<r.actual, d.version>> \in v4
      BY <1>14, <2>3, <3>1, <3>2 DEF Cache!KeyOK
    <3> QED
      BY <1>12, <3>3
  <2> QED
    BY <2>2, <2>3 DEF Cache!Follows
<1>15. Cache(g)!ConnOK(to)
  <2>1. k = Cache(g)!NoKey \/ (Cache(g)!KeyOK(s, r, k) /\ Cache(g)!Follows(k, t))
    BY <1>6, <1>14
  <2> QED
    BY <1>6, <1>11, <1>13, <2>1 DEF Cache!ConnOK
<1> QED
  BY <1>2, <1>4, <1>5, <1>15, HandlerGoesOn

\* An error is told, and nothing is kept.
LEMMA FailKeeps ==
  ASSUME NEW g \in CacheScenes, Cache(g)!CacheInv, NEW c \in Conns, Cache(g)!Fail(c)
  PROVE  Cache(g)!CacheInv'
<1>1. Cache(g)!Reply(c, "resolved", Cache(g)!NoAnswer) /\ UNCHANGED <<v1, v2, v3, v4, v5, v6>>
  BY DEF Cache!Fail
<1>2. Cache(g)!BookOK'
  BY <1>1 DEF Cache!CacheInv, Cache!BookOK, Cache!ListOK, Cache!Distinct, Cache!TotalSize,
     Cache!Bytes
<1> QED
  BY <1>1, <1>2, HandlerReplies

\* What is kept suits its key, and what is told is fresh.
LEMMA StoreKeeps ==
  ASSUME NEW g \in CacheScenes, Cache(g)!CacheInv, NEW c \in Conns, Cache(g)!Store(c)
  PROVE  Cache(g)!CacheInv'
<1>1. PICK d : d = v7[c]
  OBVIOUS
<1>2. d.at = "executed" /\ Cache(g)!ConnOK(d) /\ UNCHANGED <<v1, v2, v3, v4>>
  BY <1>1 DEF Cache!Store, Cache!CacheInv
<1> DEFINE s == d.since
           r == d.req
           k == d.key
           t == d.answer
<1>3. /\ Cache(g)!Reply(c, "executed", Cache(g)!Delivered(t))
      /\ IF Cache(g)!Cacheable(k, t) THEN Cache(g)!Put(k, t) ELSE UNCHANGED <<v5, v6>>
  BY <1>1 DEF Cache!Store
<1>4. t \in Cache(g)!Answers /\ Cache(g)!Fresh(s, r, t)
      /\ (k = Cache(g)!NoKey \/ Cache(g)!KeyOK(s, r, k))
         /\ (k = Cache(g)!NoKey \/ Cache(g)!Follows(k, t))
  BY <1>2 DEF Cache!ConnOK
<1> HIDE DEF s, r, k, t
<1>5. Cache(g)!BookOK
  BY DEF Cache!CacheInv
<1>6. Cache(g)!BookOK'
  <2>1. CASE ~Cache(g)!Cacheable(k, t)
    BY <1>3, <2>1, <1>5, TotalIs DEF Cache!BookOK, Cache!ListOK, Cache!Distinct, Cache!Bytes
  <2>2. CASE Cache(g)!Cacheable(k, t)
    <3>1. k # Cache(g)!NoKey /\ t.size <= MaxResponse /\ Cache(g)!Matches(k, t)
      BY <2>2 DEF Cache!Cacheable
    <3>2. Cache(g)!KeyOK(s, r, k) /\ Cache(g)!Follows(k, t)
      BY <1>4, <3>1
    <3>3. k \in Cache(g)!Keys /\ k.req = r /\ r.window = "dated"
      BY <3>2 DEF Cache!KeyOK
    <3>4. Cache(g)!Suits(k, t)
      BY <1>4, <3>1, <3>2, <3>3 DEF Cache!Suits, Cache!Matches, Cache!Follows, Cache!Fresh
    <3> QED
      BY <1>3, <1>4, <1>5, <2>2, <3>1, <3>3, <3>4, PutKeeps
  <2> QED
    BY <2>1, <2>2
<1>7. Cache(g)!Delivered(t) = Cache(g)!NoAnswer \/ Cache(g)!Delivered(t) = t
  BY DEF Cache!Delivered
<1> QED
  BY <1>1, <1>2, <1>3, <1>4, <1>6, <1>7, HandlerReplies DEF s, r, t

\* Every step.
LEMMA CacheStep ==
  ASSUME NEW g \in CacheScenes, Cache(g)!CacheInv, Cache(g)!Next
  PROVE  Cache(g)!CacheInv'
<1>1. CASE Cache(g)!Tick \/ \E a \in g.accounts : Cache(g)!World(a)
  <2>1. Cache(g)!WorldOK' /\ Cache(g)!Grows /\ UNCHANGED <<v5, v6, v7>> /\ v8' = Cache(g)!NoReply
    BY <1>1, WorldGoesOn DEF Cache!CacheInv
  <2>2. Cache(g)!BookOK'
    BY <2>1 DEF Cache!CacheInv, Cache!BookOK, Cache!ListOK, Cache!Distinct, Cache!TotalSize,
       Cache!Bytes
  <2>3. ASSUME NEW x \in Conns PROVE Cache(g)!ConnOK(v7[x])'
    <3>1. PICK d : d = v7[x]
      OBVIOUS
    <3>2. Cache(g)!ConnOK(d)'
      BY <2>1, <3>1, StaysTrue DEF Cache!CacheInv
    <3> QED
      BY <2>1, <3>1, <3>2
  <2>4. Cache(g)!ReplyOK'
    BY <2>1 DEF Cache!ReplyOK, Cache!NoReply
  <2> QED
    BY <2>1, <2>2, <2>3, <2>4 DEF Cache!CacheInv
<1>2. ASSUME NEW c \in Conns, Cache(g)!Serve(c) PROVE Cache(g)!CacheInv'
  BY <1>2, AcceptKeeps, BindIndexKeeps, HitAnswers, MissKeeps, ResolveKeeps, ExecuteKeeps,
     FailKeeps, StoreKeeps
     DEF Cache!Serve
<1> QED
  BY <1>1, <1>2 DEF Cache!Next

\* What the invariant says of the answers and of the cache.
LEMMA CacheSafe ==
  ASSUME NEW g \in CacheScenes, Cache(g)!CacheInv
  PROVE  Cache(g)!TypeOK /\ Cache(g)!AnswersFresh /\ Cache(g)!CacheConsistent
<1>1. Cache(g)!AnswersFresh
  BY DEF Cache!CacheInv, Cache!ReplyOK, Cache!Fresh, Cache!AnswersFresh
<1>2. Cache(g)!CacheConsistent
  BY DEF Cache!CacheInv, Cache!BookOK, Cache!ListOK, Cache!Distinct, Cache!CacheConsistent
<1>3. Cache(g)!TypeOK
  <2>1. v5 \in Seq(Cache(g)!Entries) /\ v6 = Cache(g)!TotalSize(v5)
    BY DEF Cache!CacheInv, Cache!BookOK, Cache!ListOK
  <2>2. v6 \in Nat
    BY <2>1, BytesFinite
  <2>3. \A i \in DOMAIN v5 :
          /\ v5[i].key \in Cache(g)!Keys /\ v5[i].answer \in Cache(g)!Answers
          /\ v5[i].size = v5[i].answer.size /\ v5[i].size <= MaxResponse
    BY <2>1, ElementOfSeq, CacheAssumption DEF Cache!Entries
  <2>4. \A c \in Conns :
          /\ v7[c].at \in {"free", "bound", "keyed", "missed", "resolved", "executed"}
          /\ v7[c].at # "free" => v7[c].req \in g.requests
          /\ v7[c].at = "keyed" => v7[c].key \in Cache(g)!Keys
          /\ v7[c].at \in {"missed", "resolved", "executed"} => v7[c].key \in Cache(g)!Keys \union {Cache(g)!NoKey}
          /\ v7[c].at = "executed" => v7[c].answer \in Cache(g)!Answers
    BY DEF Cache!CacheInv, Cache!ConnOK, Cache!KeyOK
  <2> QED
    BY <2>2, <2>3, <2>4 DEF Cache!TypeOK, Cache!CacheInv, Cache!WorldOK, Cache!ReplyOK
<1> QED
  BY <1>1, <1>2, <1>3
\* Nothing changes when nobody moves.
LEMMA CacheRests ==
  ASSUME NEW g \in CacheScenes, Cache(g)!CacheInv, UNCHANGED <<v1, v2, v3, v4, v5, v6, v7, v8>>
  PROVE  Cache(g)!CacheInv'
BY DEF Cache!CacheInv, Cache!WorldOK, Cache!BookOK, Cache!ListOK, Cache!Distinct,
   Cache!TotalSize, Cache!Bytes, Cache!ConnOK, Cache!SinceOK, Cache!BoundOK, Cache!KeyOK,
   Cache!Fresh, Cache!Moment, Cache!ReplyOK

-----------------------------------------------------------------------------
(* Queries over several databases. *)

\* An instance counts as we do.
LEMMA ListCounts ==
  \A S : Lists!Cardinality(S) = Cardinality(S) /\ (Lists!IsFiniteSet(S) <=> IsFiniteSet(S))
BY DEF Cardinality, Lists!Cardinality, IsFiniteSet, Lists!IsFiniteSet

\* What a message is.
LEMMA MessageFields ==
  \A m \in AllMessages : m.id \in Nat /\ m.time \in Nat /\ m.seq \in Nat /\ Lists!SortKey(m) \in Nat
BY MessagesAssumption DEF Lists!SortKey

\* Either order ranks any two messages, one before the other.
LEMMA BeforeOrders ==
  \A m, n, o \in AllMessages :
    /\ ~Lists!Before(m, m)
    /\ Lists!Before(m, n) /\ Lists!Before(n, o) => Lists!Before(m, o)
    /\ m # n => Lists!Before(m, n) \/ Lists!Before(n, m)
<1> SUFFICES ASSUME NEW m \in AllMessages, NEW n \in AllMessages, NEW o \in AllMessages
    PROVE  /\ ~Lists!Before(m, m)
           /\ Lists!Before(m, n) /\ Lists!Before(n, o) => Lists!Before(m, o)
           /\ m # n => Lists!Before(m, n) \/ Lists!Before(n, m)
  OBVIOUS
<1>1. /\ m.id \in Nat /\ m.time \in Nat /\ Lists!SortKey(m) \in Nat
      /\ n.id \in Nat /\ n.time \in Nat /\ Lists!SortKey(n) \in Nat
      /\ o.id \in Nat /\ o.time \in Nat /\ Lists!SortKey(o) \in Nat
  BY MessageFields
<1>2. m.id = n.id /\ Lists!SortKey(m) = Lists!SortKey(n) => m = n
  BY MessagesAssumption
<1>3. CASE v1 = "history"
  BY <1>1, <1>2, <1>3 DEF Lists!Before, Lists!Later
<1>4. CASE v1 # "history"
  BY <1>1, <1>2, <1>4 DEF Lists!Before, Lists!Newer
<1> QED
  BY <1>3, <1>4

\* What is kept can be counted.
LEMMA KeptFinite ==
  ASSUME v4 \subseteq AllMessages
  PROVE  /\ IsFiniteSet(v4) /\ Cardinality(v4) \in Nat
         /\ \A m \in AllMessages : IsFiniteSet(Lists!Ahead(m)) /\ Cardinality(Lists!Ahead(m)) \in Nat
<1>1. IsFiniteSet(v4) /\ Cardinality(v4) \in Nat
  BY MessagesAssumption, FS_Subset, FS_CardinalityType
<1>2. ASSUME NEW m \in AllMessages PROVE IsFiniteSet(Lists!Ahead(m))
             /\ Cardinality(Lists!Ahead(m)) \in Nat
  <2>1. Lists!Ahead(m) \in SUBSET v4
    BY DEF Lists!Ahead
  <2> QED
    BY <1>1, <2>1, FS_Subset, FS_CardinalityType
<1> QED
  BY <1>1, <1>2

\* Fewer messages are ahead of the one that is ahead.
LEMMA RankOrders ==
  ASSUME v4 \subseteq AllMessages, NEW m \in AllMessages, NEW n \in v4, Lists!Before(n, m)
  PROVE  Cardinality(Lists!Ahead(n)) < Cardinality(Lists!Ahead(m))
<1>1. Lists!Ahead(n) \in SUBSET Lists!Ahead(m) /\ n \in Lists!Ahead(m) /\ n \notin Lists!Ahead(n)
  BY BeforeOrders DEF Lists!Ahead
<1>2. IsFiniteSet(Lists!Ahead(m)) /\ Cardinality(Lists!Ahead(m)) \in Nat
      /\ Cardinality(Lists!Ahead(n)) \in Nat
  BY KeptFinite
<1>3. Cardinality(Lists!Ahead(n)) <= Cardinality(Lists!Ahead(m))
      /\ Cardinality(Lists!Ahead(n)) # Cardinality(Lists!Ahead(m))
  BY <1>1, <1>2, FS_Subset
<1> QED
  BY <1>2, <1>3

\* Ranks count the messages from 0.
LEMMA RankBijects ==
  ASSUME v4 \subseteq AllMessages
  PROVE  \A i \in 0 .. Cardinality(v4) - 1 : \E m \in v4 : Cardinality(Lists!Ahead(m)) = i
<1> DEFINE N == Cardinality(v4)
           r == [m \in v4 |-> Cardinality(Lists!Ahead(m))]
<1>1. IsFiniteSet(v4) /\ N \in Nat /\ \A m \in v4 : Cardinality(Lists!Ahead(m)) \in Nat
  BY KeptFinite
<1>2. ASSUME NEW m \in v4 PROVE Cardinality(Lists!Ahead(m)) \in 0 .. N - 1
  <2>1. Lists!Ahead(m) \in SUBSET v4 /\ m \notin Lists!Ahead(m)
    BY BeforeOrders DEF Lists!Ahead
  <2>2. Cardinality(Lists!Ahead(m)) <= N /\ Cardinality(Lists!Ahead(m)) # N
    BY <1>1, <2>1, FS_Subset
  <2> QED
    BY <1>1, <2>2
<1>3. ASSUME NEW m \in v4, NEW n \in v4, m # n PROVE r[m] # r[n]
  <2>1. Lists!Before(m, n) \/ Lists!Before(n, m)
    BY <1>3, BeforeOrders
  <2> QED
    BY <1>1, <2>1, RankOrders
<1>4. r \in Injection(v4, 0 .. N - 1)
  <2>1. r \in [v4 -> 0 .. N - 1]
    BY <1>2
  <2>2. \A m, n \in v4 : m # n => r[m] # r[n]
    BY <1>3
  <2> HIDE DEF r, N
  <2> QED
    BY <2>1, <2>2 DEF Injection, IsInjective
<1>5. IsFiniteSet(0 .. N - 1) /\ Cardinality(0 .. N - 1) = N
  BY <1>1, FS_Interval
<1>6. r \in Surjection(v4, 0 .. N - 1)
  BY <1>4, <1>5, FS_Injection
<1> QED
  BY <1>6 DEF Surjection

\* The n first are n, or all there are.
LEMMA CutCounts ==
  ASSUME v4 \subseteq AllMessages, NEW n \in Nat
  PROVE  /\ Lists!Cut(n) \subseteq v4
         /\ Cardinality(v4) <= n => Lists!Cut(n) = v4
         /\ Cardinality(v4) >= n => Cardinality(Lists!Cut(n)) = n
<1> DEFINE N == Cardinality(v4)
<1>0. Lists!Cut(n) = {m \in v4 : Cardinality(Lists!Ahead(m)) < n}
  BY ListCounts DEF Lists!Cut, Lists!Ahead
<1>1. IsFiniteSet(v4) /\ N \in Nat /\ \A m \in v4 : Cardinality(Lists!Ahead(m)) \in Nat
  BY KeptFinite
<1>2. ASSUME NEW m \in v4 PROVE Cardinality(Lists!Ahead(m)) < N
  <2>1. Lists!Ahead(m) \in SUBSET v4 /\ m \notin Lists!Ahead(m)
    BY BeforeOrders DEF Lists!Ahead
  <2>2. Cardinality(Lists!Ahead(m)) <= N /\ Cardinality(Lists!Ahead(m)) # N
    BY <1>1, <2>1, FS_Subset
  <2> QED
    BY <1>1, <2>2
<1>3. N <= n => Lists!Cut(n) = v4
  BY <1>0, <1>1, <1>2
<1>4. ASSUME N >= n PROVE Cardinality(Lists!Cut(n)) = n
  <2> DEFINE r == [m \in Lists!Cut(n) |-> Cardinality(Lists!Ahead(m))]
  <2>1. \A m \in Lists!Cut(n) : r[m] \in 0 .. n - 1
    BY <1>0, <1>1
  <2>2. ASSUME NEW m \in Lists!Cut(n), NEW o \in Lists!Cut(n), m # o PROVE r[m] # r[o]
    <3>1. m \in v4 /\ o \in v4
      BY <1>0
    <3>2. Lists!Before(m, o) \/ Lists!Before(o, m)
      BY <2>2, <3>1, BeforeOrders
    <3> QED
      BY <1>1, <3>1, <3>2, RankOrders
  <2>3. r \in Injection(Lists!Cut(n), 0 .. n - 1)
    <3>1. r \in [Lists!Cut(n) -> 0 .. n - 1]
      BY <2>1
    <3>2. \A m, o \in Lists!Cut(n) : m # o => r[m] # r[o]
      BY <2>2
    <3> HIDE DEF r
    <3> QED
      BY <3>1, <3>2 DEF Injection, IsInjective
  <2>4. \A i \in 0 .. n - 1 : \E m \in Lists!Cut(n) : r[m] = i
    <3> SUFFICES ASSUME NEW i \in 0 .. n - 1 PROVE \E m \in Lists!Cut(n) : r[m] = i
      OBVIOUS
    <3>1. PICK m \in v4 : Cardinality(Lists!Ahead(m)) = i
      BY <1>1, <1>4, RankBijects
    <3> QED
      BY <1>0, <3>1
  <2>5. r \in Surjection(Lists!Cut(n), 0 .. n - 1)
    BY <2>1, <2>4 DEF Surjection
  <2>6. IsFiniteSet(0 .. n - 1) /\ Cardinality(0 .. n - 1) = n
    BY FS_Interval
  <2> QED
    BY <2>3, <2>5, <2>6, FS_Injection
<1> QED
  BY <1>0, <1>3, <1>4

\* One more is asked for than is to be shown.
LEMMA ProbeIs ==
  Lists!ListInv => v2 \in Nat /\ Lists!Probe \in Nat /\ (v2 = 0 => Lists!Probe = 0)
  /\ (v2 # 0 => Lists!Probe = v2 + 1 /\ Lists!Probe > 0)
BY MessagesAssumption, ListCounts DEF Lists!ListInv, Lists!Probe

\* Nothing is read at first.
LEMMA ListInit == Lists!Init => Lists!ListInv
<1> SUFFICES ASSUME Lists!Init PROVE Lists!ListInv
  OBVIOUS
<1>1. v2 \in 0 .. MaxLimit /\ (v1 = "export" => v2 = 0)
  BY MessagesAssumption DEF Lists!Init
<1>2. Cardinality(v4) = 0 /\ Lists!Probe \in Nat
  BY <1>1, FS_EmptySet, MessagesAssumption DEF Lists!Init, Lists!Probe
<1>3. v7 = Lists!Waiting /\ ~Lists!Answered
  BY DEF Lists!Init, Lists!Answered, Lists!Waiting
<1> QED
  BY <1>1, <1>2, <1>3, ListCounts DEF Lists!Init, Lists!ListInv

\* A database that is passed over has no hits.
LEMMA PassStep ==
  ASSUME Lists!ListInv, NEW s \in Shards, Lists!Pass(s)
  PROVE  Lists!ListInv'
<1>1. UNCHANGED <<v1, v2, v3, v4, v6, v7>> /\ v7 = Lists!Waiting
  BY DEF Lists!Pass, Lists!Idle
<1>2. v5' \in [Shards -> {"unread", "read", "skipped", "failed"}]
      /\ \A m \in v3 : v5'[m.shard] # "unread"
  BY MessagesAssumption, ListCounts DEF Lists!Pass, Lists!ListInv
<1> QED
  BY <1>1, <1>2, ListCounts DEF Lists!ListInv, Lists!Probe, Lists!Outranks, Lists!Answered,
     Lists!Waiting

\* What the limit of one database cuts off is outranked by what it leaves.
LEMMA HistoryStep ==
  ASSUME Lists!ListInv, NEW s \in Shards, Lists!ReadHistory(s)
  PROVE  Lists!ListInv'
<1>0. v2 \in Nat /\ Lists!Probe \in Nat /\ (v2 = 0 => Lists!Probe = 0)
      /\ (v2 # 0 => Lists!Probe = v2 + 1 /\ Lists!Probe > 0)
  BY ProbeIs
<1>1. /\ v7 = Lists!Waiting /\ v6 = {} /\ v1 = "history" /\ v5[s] = "unread"
      /\ v5' = [v5 EXCEPT ![s] = "read"]
      /\ UNCHANGED <<v1, v2, v6, v7>>
  BY ListCounts DEF Lists!ReadHistory, Lists!Idle
<1>2. PICK rows \in SUBSET {m \in AllMessages : m.shard = s} :
         /\ v3' = v3 \cup rows
         /\ IF Lists!Probe = 0 \/ Cardinality(rows) <= Lists!Probe THEN v4' = v4 \cup rows
            ELSE \E top \in Lists!Leading(rows, Lists!Probe) : v4' = v4 \cup top
  BY ListCounts DEF Lists!ReadHistory
<1>3. PICK top \in SUBSET rows :
         /\ v4' = v4 \cup top
         /\ v2 = 0 => top = rows
         /\ v2 # 0 => \A o \in rows \ top : Cardinality(top) = Lists!Probe
            /\ \A x \in top : x.seq >= o.seq
  <2>1. CASE Lists!Probe = 0 \/ Cardinality(rows) <= Lists!Probe
    BY <1>2, <2>1
  <2>2. CASE ~(Lists!Probe = 0 \/ Cardinality(rows) <= Lists!Probe)
    BY <1>0, <1>2, <2>2, ListCounts DEF Lists!Leading
  <2> QED
    BY <2>1, <2>2
<1>4. rows \subseteq AllMessages /\ \A m \in rows : m.shard = s
  BY <1>2
<1>5. v5' \in [Shards -> {"unread", "read", "skipped", "failed"}]
      /\ \A m \in v3' : v5'[m.shard] # "unread"
  BY <1>1, <1>2, <1>4, MessagesAssumption, ListCounts DEF Lists!ListInv
<1>6. /\ v3' \subseteq AllMessages /\ v6' \subseteq v3' /\ v4' \subseteq v3' \ v6'
      /\ v2 = 0 => v4' = v3' \ v6'
  BY <1>1, <1>2, <1>3, <1>4, ListCounts DEF Lists!ListInv
<1>7. ASSUME v2 # 0, NEW o \in v3' \ v4'
      PROVE  \E T \in SUBSET v4' : Cardinality(T) = Lists!Probe
             /\ \A x \in T : Lists!Outranks(x, o)
  <2>1. CASE o \in v3
    <3>1. o \in (v3 \ v6) \ v4
      BY <1>1, <1>3, <1>7, <2>1
    <3>2. PICK T \in SUBSET v4 : Cardinality(T) = Lists!Probe /\ \A x \in T : Lists!Outranks(x, o)
      BY <1>7, <3>1, ListCounts DEF Lists!ListInv
    <3>3. T \in SUBSET v4'
      BY <1>3
    <3> QED
      BY <3>2, <3>3
  <2>2. CASE o \in rows
    <3>1. Cardinality(top) = Lists!Probe /\ \A x \in top : Lists!Outranks(x, o)
      BY <1>1, <1>3, <1>7, <2>2 DEF Lists!Outranks
    <3>2. top \in SUBSET v4'
      BY <1>3
    <3> QED
      BY <3>1, <3>2
  <2> QED
    BY <1>2, <1>7, <2>1, <2>2
<1> QED
  BY <1>1, <1>5, <1>6, <1>7, ListCounts DEF Lists!ListInv, Lists!Probe, Lists!Outranks,
     Lists!Answered, Lists!Waiting

\* The rows of a database are pending when it is opened.
LEMMA OpenStep ==
  ASSUME Lists!ListInv, NEW s \in Shards, Lists!OpenStream(s)
  PROVE  Lists!ListInv'
<1>1. /\ v7 = Lists!Waiting /\ v6 = {} /\ v5[s] = "unread"
      /\ v5' = [v5 EXCEPT ![s] = "read"]
      /\ UNCHANGED <<v1, v2, v4, v7>>
  BY ListCounts DEF Lists!OpenStream, Lists!Idle
<1>2. PICK rows \in SUBSET {m \in AllMessages : m.shard = s} : v3' = v3 \cup rows /\ v6' = rows
  BY ListCounts DEF Lists!OpenStream
<1>3. rows \intersect v3 = {}
  BY <1>1, <1>2, ListCounts DEF Lists!ListInv
<1>4. v3' \ v6' = v3 \ v6 /\ v6' \subseteq v3' /\ v3' \subseteq AllMessages
  BY <1>1, <1>2, <1>3, ListCounts DEF Lists!ListInv
<1>5. v5' \in [Shards -> {"unread", "read", "skipped", "failed"}]
      /\ \A m \in v3' : v5'[m.shard] # "unread"
  BY <1>1, <1>2, MessagesAssumption, ListCounts DEF Lists!ListInv
<1> QED
  BY <1>1, <1>4, <1>5, ListCounts DEF Lists!ListInv, Lists!Probe, Lists!Outranks,
     Lists!Answered, Lists!Waiting

\* A scan that breaks off leaves what it has read.
LEMMA BreakStep ==
  ASSUME Lists!ListInv, NEW s \in Shards, Lists!BreakOff(s)
  PROVE  Lists!ListInv'
<1>1. /\ v6 # {} /\ v5' = [v5 EXCEPT ![s] = "failed"]
      /\ v3' = v3 \ v6 /\ v6' = {}
      /\ UNCHANGED <<v1, v2, v4, v7>>
  BY DEF Lists!BreakOff
<1>2. v3' \ v6' = v3 \ v6 /\ v6' \subseteq v3' /\ v3' \subseteq AllMessages
  BY <1>1, ListCounts DEF Lists!ListInv
<1>3. v5' \in [Shards -> {"unread", "read", "skipped", "failed"}]
      /\ \A m \in v3' : v5'[m.shard] # "unread"
  BY <1>1, MessagesAssumption, ListCounts DEF Lists!ListInv
<1>4. v7 = Lists!Waiting
  BY <1>1, ListCounts DEF Lists!ListInv
<1> QED
  BY <1>1, <1>2, <1>3, <1>4, ListCounts DEF Lists!ListInv, Lists!Probe, Lists!Outranks,
     Lists!Answered, Lists!Waiting

\* An export keeps every row.
LEMMA InsertStep ==
  ASSUME Lists!ListInv, NEW m \in AllMessages, Lists!Insert(m)
  PROVE  Lists!ListInv'
<1>1. /\ m \in v6 /\ v2 = 0 /\ v6' = v6 \ {m} /\ v4' = v4 \cup {m}
      /\ v7 = Lists!Waiting /\ UNCHANGED <<v1, v2, v3, v5, v7>>
  BY ListCounts DEF Lists!Insert, Lists!ListInv
<1>2. v4' = v3' \ v6' /\ v6' \subseteq v3'
  BY <1>1, ListCounts DEF Lists!ListInv
<1> QED
  BY <1>1, <1>2, ListCounts DEF Lists!ListInv, Lists!Probe, Lists!Outranks, Lists!Answered,
     Lists!Waiting

\* A row that comes to a full list takes the place of the oldest, or is left out.
LEMMA EmitStep ==
  ASSUME Lists!ListInv, NEW m \in AllMessages, Lists!Emit(m)
  PROVE  Lists!ListInv'
<1>0. v2 \in Nat /\ Lists!Probe \in Nat /\ (v2 = 0 => Lists!Probe = 0)
      /\ (v2 # 0 => Lists!Probe = v2 + 1 /\ Lists!Probe > 0)
  BY ProbeIs
<1>1. /\ v1 = "search" /\ m \in v6 /\ v6' = v6 \ {m}
      /\ v7 = Lists!Waiting /\ UNCHANGED <<v1, v2, v3, v5, v7>>
  BY ListCounts DEF Lists!Emit, Lists!ListInv
<1>2. v4 \subseteq AllMessages /\ m \notin v4 /\ v3' \ v6' = (v3 \ v6) \cup {m}
  BY <1>1, ListCounts DEF Lists!ListInv
<1>3. IsFiniteSet(v4) /\ Cardinality(v4) \in Nat
  BY <1>2, KeptFinite
<1>4. CASE Lists!Probe = 0 \/ Cardinality(v4) < Lists!Probe
  <2>1. v4' = v4 \cup {m}
    BY <1>4, ListCounts DEF Lists!Emit
  <2>2. Cardinality(v4') = Cardinality(v4) + 1
    BY <1>2, <1>3, <2>1, FS_AddElement
  <2>3. v4' \subseteq v3' \ v6' /\ (v2 = 0 => v4' = v3' \ v6')
    BY <1>2, <2>1, ListCounts DEF Lists!ListInv
  <2>4. v2 # 0 => Cardinality(v4') <= Lists!Probe
    BY <1>0, <1>3, <1>4, <2>2
  <2>5. ASSUME v2 # 0, NEW o \in (v3' \ v6') \ v4'
        PROVE  \E T \in SUBSET v4' : Cardinality(T) = Lists!Probe
               /\ \A x \in T : Lists!Outranks(x, o)
    <3>1. o \in (v3 \ v6) \ v4
      BY <1>2, <2>1, <2>5
    <3>2. PICK T \in SUBSET v4 : Cardinality(T) = Lists!Probe /\ \A x \in T : Lists!Outranks(x, o)
      BY <2>5, <3>1, ListCounts DEF Lists!ListInv
    <3>3. T \in SUBSET v4'
      BY <2>1
    <3> QED
      BY <3>2, <3>3
  <2> QED
    BY <1>1, <2>3, <2>4, <2>5, ListCounts DEF Lists!ListInv, Lists!Probe, Lists!Outranks,
       Lists!Answered, Lists!Waiting
<1>5. CASE ~(Lists!Probe = 0 \/ Cardinality(v4) < Lists!Probe)
  <2>0. v2 # 0 /\ Cardinality(v4) = Lists!Probe
    BY <1>0, <1>1, <1>3, <1>5, ListCounts DEF Lists!ListInv
  <2>1. PICK old \in v4 : Lists!Oldest(old)
             /\ v4' = IF Lists!Newer(m, old) THEN (v4 \ {old}) \cup {m} ELSE v4
    BY <1>5, ListCounts DEF Lists!Emit
  <2>2. \A x \in v4 : x = old \/ Lists!Newer(x, old)
    BY <2>1 DEF Lists!Oldest
  <2>3. PICK lost \in AllMessages : /\ v4' = (v4 \cup {m}) \ {lost} /\ lost \in v4 \cup {m}
                                /\ \A x \in v4' : Lists!Newer(x, lost)
    <3>1. CASE Lists!Newer(m, old)
      <4>1. v4' = (v4 \cup {m}) \ {old}
        BY <1>2, <2>1, <3>1
      <4> QED
        BY <1>2, <2>2, <3>1, <4>1
    <3>2. CASE ~Lists!Newer(m, old)
      <4>1. v4' = (v4 \cup {m}) \ {m}
        BY <1>2, <2>1, <3>2
      <4>2. Lists!Newer(old, m)
        BY <1>1, <1>2, <3>2, BeforeOrders DEF Lists!Before
      <4>3. \A x \in v4 : Lists!Newer(x, m)
        BY <1>1, <1>2, <2>2, <4>2, BeforeOrders DEF Lists!Before
      <4> QED
        BY <4>1, <4>3
    <3> QED
      BY <3>1, <3>2
  <2>4. Cardinality(v4') = Lists!Probe
    <3>1. IsFiniteSet(v4 \cup {m}) /\ Cardinality(v4 \cup {m}) = Lists!Probe + 1
      BY <1>2, <1>3, <2>0, FS_AddElement
    <3>2. PICK x \in v4 \cup {m} : v4' = (v4 \cup {m}) \ {x}
      BY <2>3
    <3>3. Cardinality((v4 \cup {m}) \ {x}) = Cardinality(v4 \cup {m}) - 1
      BY <3>1, FS_RemoveElement
    <3> QED
      BY <1>0, <3>1, <3>2, <3>3
  <2>5. v4' \subseteq v3' \ v6'
    BY <1>2, <2>3, ListCounts DEF Lists!ListInv
  <2>6. ASSUME NEW o \in (v3' \ v6') \ v4'
        PROVE  \E T \in SUBSET v4' : Cardinality(T) = Lists!Probe
               /\ \A x \in T : Lists!Outranks(x, o)
    <3>1. \A x \in v4' : Lists!Newer(x, o)
      <4>1. CASE o = lost
        BY <2>3, <4>1
      <4>2. CASE o # lost
        <5>1. o \in (v3 \ v6) \ v4
          BY <1>2, <2>3, <2>6, <4>2
        <5>2. PICK T \in SUBSET v4 : Cardinality(T) = Lists!Probe
                   /\ \A x \in T : Lists!Outranks(x, o)
          BY <2>0, <5>1, ListCounts DEF Lists!ListInv
        <5>3. T = v4
          BY <1>3, <2>0, <5>2, FS_Subset
        <5>4. \A x \in v4 : Lists!Newer(x, o)
          BY <1>1, <5>2, <5>3 DEF Lists!Outranks
        <5>5. \A x \in v4' : x \in v4 \/ x = m
          BY <2>3
        <5>6. CASE lost = m
          BY <2>3, <5>4, <5>5, <5>6
        <5>7. CASE lost # m
          <6>1. Lists!Newer(m, lost) /\ Lists!Newer(lost, o)
            BY <2>3, <5>4, <5>7
          <6>2. o \in AllMessages
            BY <5>1, ListCounts DEF Lists!ListInv
          <6>3. Lists!Newer(m, o)
            BY <1>1, <6>1, <6>2, BeforeOrders DEF Lists!Before
          <6> QED
            BY <5>4, <5>5, <6>3
        <5> QED
          BY <5>6, <5>7
      <4> QED
        BY <4>1, <4>2
    <3> QED
      BY <1>1, <2>4, <3>1 DEF Lists!Outranks
  <2> QED
    BY <1>0, <1>1, <2>0, <2>4, <2>5, <2>6, ListCounts DEF Lists!ListInv, Lists!Probe,
       Lists!Outranks, Lists!Answered, Lists!Waiting
<1> QED
  BY <1>4, <1>5

\* What is told is cut from what is kept.
LEMMA FinishStep ==
  ASSUME Lists!ListInv, Lists!Finish
  PROVE  Lists!ListInv'
<1>1. v6 = {} /\ UNCHANGED <<v1, v2, v3, v4, v5, v6>>
  BY ListCounts DEF Lists!Finish, Lists!Idle
<1>2. Lists!Cut(v2)' = Lists!Cut(v2) /\ Lists!Cut(Lists!Probe)' = Lists!Cut(Lists!Probe)
      /\ Lists!Probe' = Lists!Probe
  BY <1>1, ListCounts DEF Lists!Cut, Lists!Ahead, Lists!Before, Lists!Later, Lists!Newer,
     Lists!SortKey, Lists!Probe
<1>3. \/ v7'.kind = "failed"
      \/ v2 = 0 /\ v7' = [kind |-> "items", items |-> v4, more |-> FALSE]
      \/ v2 # 0 /\ v7' = [kind |-> "items", items |-> Lists!Cut(v2), more |-> Cardinality(Lists!Cut(Lists!Probe)) > v2]
  BY ListCounts DEF Lists!Finish, Lists!Waiting
<1>4. Lists!Answered' => IF v2 = 0 THEN v7'.items = v4 /\ v7'.more = FALSE
                 ELSE v7'.items = Lists!Cut(v2)
                 /\ v7'.more = (Cardinality(Lists!Cut(Lists!Probe)) > v2)
  BY <1>3 DEF Lists!Answered
<1> QED
  BY <1>1, <1>2, <1>4, ListCounts DEF Lists!ListInv, Lists!Outranks, Lists!Probe

\* Every step.
LEMMA ListStep == Lists!ListInv /\ [Lists!Next]_(Lists!vars) => Lists!ListInv'
<1> SUFFICES ASSUME Lists!ListInv, [Lists!Next]_(Lists!vars) PROVE Lists!ListInv'
  OBVIOUS
<1>1. CASE UNCHANGED Lists!vars
  BY <1>1, ListCounts DEF Lists!vars, Lists!ListInv, Lists!Probe, Lists!Outranks,
     Lists!Answered, Lists!Waiting, Lists!Cut, Lists!Ahead, Lists!Before, Lists!Later,
     Lists!Newer, Lists!SortKey
<1> QED
  BY <1>1, PassStep, HistoryStep, OpenStep, BreakStep, InsertStep, EmitStep, FinishStep DEF
     Lists!Next

\* What is cut off or was not kept is not before what is shown.
LEMMA CutFirst ==
  ASSUME Lists!ListInv, Lists!Answered, v2 # 0, NEW m \in v7.items, NEW o \in v3 \ v7.items
  PROVE  /\ m \in v4 /\ o \in AllMessages /\ v6 = {}
         /\ o \in v4 => Lists!Before(m, o)
         /\ o \notin v4 => \A T \in SUBSET v4 : Cardinality(T) = Lists!Probe => \E x \in T : ~Lists!Before(x, m)
<1>0. v2 \in Nat /\ Lists!Probe = v2 + 1
  BY ProbeIs
<1>1. v7.items = Lists!Cut(v2) /\ v6 = {} /\ v4 \subseteq AllMessages /\ v3 \subseteq AllMessages
  BY ListCounts DEF Lists!ListInv, Lists!Answered, Lists!Waiting
<1>2. m \in v4 /\ Cardinality(Lists!Ahead(m)) < v2
  BY <1>1, ListCounts DEF Lists!Cut, Lists!Ahead
<1>3. \A x \in v4 : Cardinality(Lists!Ahead(x)) \in Nat /\ IsFiniteSet(Lists!Ahead(x))
  BY <1>1, KeptFinite
<1>4. ASSUME o \in v4 PROVE Lists!Before(m, o)
  <2>1. ~(Cardinality(Lists!Ahead(o)) < v2)
    BY <1>1, <1>4, ListCounts DEF Lists!Cut, Lists!Ahead
  <2>2. ~Lists!Before(o, m)
    <3>1. Lists!Before(o, m) => Cardinality(Lists!Ahead(o)) < Cardinality(Lists!Ahead(m))
      BY <1>1, <1>2, <1>4, RankOrders
    <3> QED
      BY <1>0, <1>2, <1>3, <1>4, <2>1, <3>1
  <2> QED
    BY <1>1, <1>2, <1>4, <2>2, BeforeOrders
<1>5. ASSUME NEW T \in SUBSET v4, Cardinality(T) = Lists!Probe, \A x \in T : Lists!Before(x, m) PROVE FALSE
  <2>1. T \in SUBSET Lists!Ahead(m)
    BY <1>5 DEF Lists!Ahead
  <2>2. Cardinality(T) <= Cardinality(Lists!Ahead(m))
    BY <1>2, <1>3, <2>1, FS_Subset
  <2> QED
    BY <1>0, <1>2, <1>3, <1>5, <2>2
<1> QED
  BY <1>1, <1>2, <1>4, <1>5

\* A search shows the newest of what it read.
LEMMA SearchSafe == Lists!ListInv => Lists!SearchShowsNewest
<1> SUFFICES ASSUME Lists!ListInv, Lists!Answered, v1 # "history" PROVE
        /\ v7.items \subseteq v3
        /\ \A m \in v7.items, o \in v3 \ v7.items : Lists!Newer(m, o)
        /\ v2 = 0 => v7.items = v3
  BY DEF Lists!SearchShowsNewest
<1>1. v6 = {} /\ v4 \subseteq v3
  BY ListCounts DEF Lists!ListInv, Lists!Answered, Lists!Waiting
<1>2. CASE v2 = 0
  BY <1>1, <1>2, ListCounts DEF Lists!ListInv
<1>3. CASE v2 # 0
  <2>1. v7.items \subseteq v3
    BY <1>1, <1>3, ListCounts DEF Lists!ListInv, Lists!Cut
  <2>2. ASSUME NEW m \in v7.items, NEW o \in v3 \ v7.items PROVE Lists!Newer(m, o)
    <3>1. CASE o \in v4
      BY <1>3, <2>2, <3>1, CutFirst DEF Lists!Before
    <3>2. CASE o \notin v4
      <4>1. v1 = "search"
        BY <1>3, ListCounts DEF Lists!ListInv
      <4>2. PICK T \in SUBSET v4 : Cardinality(T) = Lists!Probe /\ \A x \in T : Lists!Newer(x, o)
        BY <1>1, <1>3, <2>2, <3>2, <4>1, ListCounts DEF Lists!ListInv, Lists!Outranks
      <4>3. m \in v4 /\ o \in AllMessages
        BY <1>3, <2>2, CutFirst
      <4>4. PICK x \in T : ~Lists!Before(x, m)
        BY <1>3, <2>2, <3>2, <4>2, CutFirst
      <4>5. m \in AllMessages /\ x \in AllMessages
        BY <4>2, <4>3, ListCounts DEF Lists!ListInv
      <4> QED
        BY <4>1, <4>2, <4>3, <4>4, <4>5, BeforeOrders DEF Lists!Before
    <3> QED
      BY <3>1, <3>2
  <2> QED
    BY <1>3, <2>1, <2>2
<1> QED
  BY <1>2, <1>3

\* A history shows the latest of what it read.
LEMMA HistorySafe == Lists!ListInv => Lists!HistoryShowsLatest
<1> SUFFICES ASSUME Lists!ListInv, Lists!Answered, v1 = "history", \A m \in v3 : m.seq > 0,
                    NEW m \in v7.items, NEW o \in v3 \ v7.items
             PROVE  Lists!SortKey(m) >= Lists!SortKey(o)
  BY DEF Lists!HistoryShowsLatest
<1>1. v6 = {} /\ v4 \subseteq v3 /\ v3 \subseteq AllMessages
  BY ListCounts DEF Lists!ListInv, Lists!Answered, Lists!Waiting
<1>2. v2 # 0
  BY <1>1, ListCounts DEF Lists!ListInv
<1>3. m \in v4 /\ o \in AllMessages
  BY <1>2, CutFirst
<1>4. \A x \in v3 : Lists!SortKey(x) = x.seq /\ Lists!SortKey(x) \in Nat
  BY <1>1, MessageFields DEF Lists!SortKey
<1>5. CASE o \in v4
  <2>1. Lists!Before(m, o)
    BY <1>2, <1>5, CutFirst
  <2> QED
    BY <1>1, <1>3, <1>4, <2>1 DEF Lists!Before, Lists!Later
<1>6. CASE o \notin v4
  <2>1. PICK T \in SUBSET v4 : Cardinality(T) = Lists!Probe /\ \A x \in T : x.seq >= o.seq
    BY <1>1, <1>2, <1>6, ListCounts DEF Lists!ListInv, Lists!Outranks
  <2>2. PICK x \in T : ~Lists!Before(x, m)
    BY <1>2, <1>6, <2>1, CutFirst
  <2>3. x \in v3 /\ m \in v3
    BY <1>1, <1>3, <2>1
  <2>4. ~(Lists!SortKey(x) > Lists!SortKey(m))
    BY <2>2 DEF Lists!Before, Lists!Later
  <2> QED
    BY <1>4, <2>1, <2>3, <2>4
<1> QED
  BY <1>5, <1>6

\* Messages are said to be left out when they are.
LEMMA MoreSafe == Lists!ListInv => Lists!MoreIsTrue
<1> SUFFICES ASSUME Lists!ListInv, Lists!Answered
             PROVE  /\ v7.more <=> v7.items # v3
                    /\ v7.more => Cardinality(v7.items) = v2
  BY ListCounts DEF Lists!MoreIsTrue
<1>1. v6 = {} /\ v4 \subseteq v3 /\ v3 \subseteq AllMessages /\ v4 \subseteq AllMessages
  BY ListCounts DEF Lists!ListInv, Lists!Answered, Lists!Waiting
<1>2. CASE v2 = 0
  BY <1>1, <1>2, ListCounts DEF Lists!ListInv
<1>3. CASE v2 # 0
  <2>0. v2 \in Nat /\ Lists!Probe = v2 + 1 /\ Lists!Probe \in Nat
    BY <1>3, ProbeIs
  <2>1. v7.items = Lists!Cut(v2) /\ v7.more = (Cardinality(Lists!Cut(Lists!Probe)) > v2)
    BY <1>3, ListCounts DEF Lists!ListInv
  <2>2. IsFiniteSet(v4) /\ Cardinality(v4) \in Nat
    BY <1>1, KeptFinite
  <2>3. CASE Cardinality(v4) <= v2
    <3>1. Lists!Cut(v2) = v4 /\ Lists!Cut(Lists!Probe) = v4
      BY <1>1, <2>0, <2>2, <2>3, CutCounts
    <3>2. v4 = v3
      <4> SUFFICES ASSUME NEW o \in v3, o \notin v4 PROVE FALSE
        BY <1>1
      <4>1. PICK T \in SUBSET v4 : Cardinality(T) = Lists!Probe
        BY <1>1, <1>3, ListCounts DEF Lists!ListInv
      <4>2. Cardinality(T) <= Cardinality(v4)
        BY <2>2, <4>1, FS_Subset
      <4> QED
        BY <2>0, <2>2, <2>3, <4>1, <4>2
    <3>3. ~(Cardinality(Lists!Cut(Lists!Probe)) > v2)
      BY <2>0, <2>2, <2>3, <3>1
    <3> QED
      BY <2>1, <3>1, <3>2, <3>3
  <2>4. CASE ~(Cardinality(v4) <= v2)
    <3>1. Cardinality(v4) >= Lists!Probe /\ Cardinality(v4) >= v2
      BY <2>0, <2>2, <2>4
    <3>2. Cardinality(Lists!Cut(Lists!Probe)) = Lists!Probe /\ Cardinality(Lists!Cut(v2)) = v2
      BY <1>1, <2>0, <3>1, CutCounts
    <3>3. Cardinality(Lists!Cut(Lists!Probe)) > v2
      BY <2>0, <3>2
    <3>4. Lists!Cut(v2) # v3
      <4>1. Lists!Cut(v2) # v4
        BY <2>0, <2>2, <2>4, <3>2
      <4>2. Lists!Cut(v2) \subseteq v4
        BY <1>1, <2>0, CutCounts
      <4> QED
        BY <1>1, <4>1, <4>2
    <3> QED
      BY <2>1, <3>2, <3>3, <3>4
  <2> QED
    BY <2>3, <2>4
<1> QED
  BY <1>2, <1>3

-----------------------------------------------------------------------------
(* Texts of images and voices. *)

\* Records of earlier commands are sound.
LEMMA TextInit ==
  ASSUME NEW g \in TextScenes
  PROVE  Texts(g)!Init => Texts(g)!TextInv
<1> SUFFICES ASSUME Texts(g)!Init PROVE Texts(g)!TextInv
  OBVIOUS
<1>1. PICK s \in Texts(g)!Shots : v1 = <<s>>
  BY DEF Texts!Init, Texts!Snapshots, Texts!Shots, Texts!Metas
<1>2. v1 \in Seq(Texts(g)!Shots) /\ v1 # <<>>
  BY <1>1
<1>3. {[meta |-> 1, digest |-> 1, from |-> 1]} \subseteq Texts(g)!Records
  BY DEF Texts!Records
<1>4. Texts(g)!WorldInv
  BY <1>2, <1>3 DEF Texts!Init, Texts!WorldInv, Texts!Sound
<1> QED
  BY <1>4 DEF Texts!Init, Texts!TextInv, Texts!Good

\* One process goes on.
LEMMA CommandGoes ==
  ASSUME NEW g \in TextScenes, Texts(g)!TextInv, NEW p \in g.procs, NEW d, Texts(g)!To(p, d),
         Texts(g)!Good(d, v2), UNCHANGED Texts(g)!world, Texts(g)!WorldInv'
  PROVE  Texts(g)!TextInv'
BY DEF Texts!TextInv, Texts!To, Texts!world

\* There is a snapshot.
LEMMA CurrentShot ==
  ASSUME NEW g \in TextScenes
  PROVE  Texts(g)!WorldInv => Texts(g)!Current \in Texts(g)!Shots
BY DEF Texts!WorldInv, Texts!Current

\* A command that begins works on what its snapshot has, or on the records there
\* are.
LEMMA BeginStep ==
  ASSUME NEW g \in TextScenes, Texts(g)!TextInv, NEW p \in g.procs,
         NEW M \in SUBSET Texts(g)!Messages, NEW cmd, NEW makes \in BOOLEAN,
         NEW force \in BOOLEAN,
         cmd \in {"read", "recognize", "transcribe", "voices"} \/ (cmd = "search" /\ ~makes /\ M \subseteq g.images),
         cmd = "search" => ~force,
         cmd # "search" => \A m \in M : Texts(g)!Current[m] # {},
         cmd = "voices" => Texts(g)!VoicesOf(Texts(g)!Current) \subseteq M,
         Texts(g)!Begin(p, cmd, M, makes, force)
  PROVE  Texts(g)!TextInv'
<1> DEFINE h == {<<i, v2[i]>> : i \in g.images}
           d == [at |-> "load", cmd |-> cmd, makes |-> makes, snap |-> Texts(g)!Current,
           todo |-> IF force THEN {} ELSE M, missing |-> IF force THEN M ELSE {},
           cur |-> M, rec |-> {}, plain |-> FALSE, out |-> {}, failed |-> FALSE,
           held |-> h]
<1>1. Texts(g)!Current \in Texts(g)!Shots /\ h \subseteq g.images \X Nat
  BY CurrentShot DEF Texts!TextInv, Texts!WorldInv
<1> HIDE DEF h
<1>2. d \in Texts(g)!Commands
  BY <1>1 DEF Texts!Commands
<1>3. \A i \in g.images : <<i, v2[i]>> \in h
  BY DEF h
<1>4. Texts(g)!Searches(d) /\ Texts(g)!Holds(d, v2) /\ Texts(g)!Makes(d) /\ Texts(g)!Told(d)
  BY <1>3 DEF Texts!Searches, Texts!Holds, Texts!Makes, Texts!Told
<1>5. Texts(g)!Left(d) /\ Texts(g)!Shown(d)
  BY DEF Texts!Left, Texts!Shown, Texts!VoicesOf
<1>6. Texts(g)!Good(d, v2)
  BY <1>2, <1>4, <1>5 DEF Texts!Good, Texts!Runs
<1>7. Texts(g)!To(p, d) /\ UNCHANGED Texts(g)!world /\ Texts(g)!WorldInv'
  BY DEF Texts!Begin, Texts!To, Texts!world, Texts!TextInv, Texts!WorldInv, h
<1> QED
  BY <1>6, <1>7, CommandGoes

\* However a command begins.
LEMMA CommandStarts ==
  ASSUME NEW g \in TextScenes, Texts(g)!TextInv, NEW p \in g.procs,
         \/ Texts(g)!StartSearch(p)
         \/ \E makes \in BOOLEAN : Texts(g)!StartVoices(p, makes)
         \/ \E m \in Texts(g)!Messages, force \in BOOLEAN : Texts(g)!StartOne(p, m, force)
  PROVE  Texts(g)!TextInv'
<1>1. CASE Texts(g)!StartSearch(p)
  BY <1>1, BeginStep DEF Texts!StartSearch, Texts!Recorded, Texts!Messages
<1>2. ASSUME NEW makes \in BOOLEAN, Texts(g)!StartVoices(p, makes) PROVE Texts(g)!TextInv'
  BY <1>2, BeginStep DEF Texts!StartVoices, Texts!VoicesOf, Texts!Messages
<1>3. ASSUME NEW m \in Texts(g)!Messages, NEW force \in BOOLEAN, Texts(g)!StartOne(p, m, force) PROVE Texts(g)!TextInv'
  BY <1>3, BeginStep DEF Texts!StartOne
<1> QED
  BY <1>1, <1>2, <1>3

\* A command that runs is as it should be.
LEMMA CommandGood ==
  ASSUME NEW g \in TextScenes, Texts(g)!TextInv, NEW p \in g.procs,
         v4[p].at \notin {"idle", "killed"}
  PROVE  Texts(g)!Runs(v4[p], v2)
BY DEF Texts!TextInv, Texts!Good, Texts!Idle, Texts!Killed

\* It leaves a message with what it found.
LEMMA LeaveStep ==
  ASSUME NEW g \in TextScenes, Texts(g)!TextInv, NEW p \in g.procs,
         NEW m \in Texts(g)!Messages, NEW out \in SUBSET Texts(g)!Outs,
         Texts(g)!Leave(p, m, out),
         v4[p].at \in {"load", "delete", "verify"},
         v4[p].cmd = "search" => \A o \in out : \E x \in v4[p].snap[o.m] : x.meta = o.meta,
         \A o \in out : o.m \in g.images
         /\ o.src \in {"verified", "made"} => <<o.m, o.from>> \in v4[p].held,
         v4[p].cmd = "voices" /\ v4[p].makes => (v4[p].snap[m] # {} => \E o \in out : o.m = m),
         UNCHANGED Texts(g)!world, Texts(g)!WorldInv'
  PROVE  Texts(g)!TextInv'
<1>0. PICK c : c = v4[p]
  OBVIOUS
<1>1. Texts(g)!Runs(c, v2)
  BY <1>0, CommandGood
<1>2. c \in Texts(g)!Commands
  BY <1>1 DEF Texts!Runs
<1>3. PICK d : d = [c EXCEPT !.at = "load", !.todo = @ \ {m}, !.cur = {}, !.rec = {}, !.out = @ \cup out]
  OBVIOUS
<1>4. d \in Texts(g)!Commands
  BY <1>2, <1>3 DEF Texts!Commands
<1>5. /\ d.at = "load" /\ d.cmd = c.cmd /\ d.makes = c.makes /\ d.snap = c.snap
         /\ d.todo = c.todo \ {m}
      /\ d.missing = c.missing /\ d.cur = {} /\ d.rec = {} /\ d.plain = c.plain
         /\ d.out = c.out \cup out
      /\ d.failed = c.failed /\ d.held = c.held
  BY <1>2, <1>3 DEF Texts!Commands
<1>6. Texts(g)!Searches(d)
  BY <1>0, <1>1, <1>5 DEF Texts!Searches, Texts!Runs
<1>7. Texts(g)!Holds(d, v2)
  BY <1>0, <1>1, <1>5 DEF Texts!Holds, Texts!Runs
<1>8. Texts(g)!Makes(d) /\ Texts(g)!Told(d)
  BY <1>0, <1>1, <1>5 DEF Texts!Makes, Texts!Told, Texts!Runs
<1>9. Texts(g)!Left(d) /\ Texts(g)!Shown(d)
  BY <1>0, <1>1, <1>5 DEF Texts!Left, Texts!Shown, Texts!Runs
<1>10. Texts(g)!Good(d, v2)
  BY <1>4, <1>5, <1>6, <1>7, <1>8, <1>9 DEF Texts!Good, Texts!Runs
<1> QED
  BY <1>0, <1>3, <1>10, CommandGoes DEF Texts!Leave

\* It leaves a message without a text.
LEMMA MissStep ==
  ASSUME NEW g \in TextScenes, Texts(g)!TextInv, NEW p \in g.procs,
         NEW m \in Texts(g)!Messages, Texts(g)!Miss(p, m),
         v4[p].at \in {"load", "delete"}, v4[p].cmd # "search", v4[p].snap[m] # {},
         UNCHANGED Texts(g)!world, Texts(g)!WorldInv'
  PROVE  Texts(g)!TextInv'
<1>0. PICK c : c = v4[p]
  OBVIOUS
<1>1. Texts(g)!Runs(c, v2)
  BY <1>0, CommandGood
<1>2. c \in Texts(g)!Commands
  BY <1>1 DEF Texts!Runs
<1>3. PICK d : d = [c EXCEPT !.at = "load", !.todo = @ \ {m}, !.cur = {}, !.rec = {}, !.missing = @ \cup {m}]
  OBVIOUS
<1>4. d \in Texts(g)!Commands
  BY <1>2, <1>3 DEF Texts!Commands
<1>5. /\ d.at = "load" /\ d.cmd = c.cmd /\ d.makes = c.makes /\ d.snap = c.snap
         /\ d.todo = c.todo \ {m}
      /\ d.missing = c.missing \cup {m} /\ d.cur = {} /\ d.rec = {} /\ d.plain = c.plain
         /\ d.out = c.out
      /\ d.failed = c.failed /\ d.held = c.held
  BY <1>2, <1>3 DEF Texts!Commands
<1>6. Texts(g)!Searches(d) /\ Texts(g)!Holds(d, v2) /\ Texts(g)!Makes(d) /\ Texts(g)!Told(d)
      /\ Texts(g)!Left(d) /\ Texts(g)!Shown(d)
  BY <1>0, <1>1, <1>5 DEF Texts!Searches, Texts!Holds, Texts!Makes, Texts!Told, Texts!Left,
     Texts!Shown, Texts!Runs
<1>10. Texts(g)!Good(d, v2)
  BY <1>4, <1>5, <1>6 DEF Texts!Good, Texts!Runs
<1> QED
  BY <1>0, <1>3, <1>10, CommandGoes DEF Texts!Miss

\* A record is to be deleted.
LEMMA DeleteNext ==
  ASSUME NEW g \in TextScenes, Texts(g)!TextInv, NEW p \in g.procs, NEW c, c = v4[p],
         NEW m \in c.todo, c.at \in {"load", "verify"},
         NEW d, d = [c EXCEPT !.at = "delete", !.cur = {m}],
         Texts(g)!To(p, d), UNCHANGED Texts(g)!world, Texts(g)!WorldInv'
  PROVE  Texts(g)!TextInv'
<1>1. Texts(g)!Runs(c, v2)
  BY CommandGood
<1>2. c \in Texts(g)!Commands
  BY <1>1 DEF Texts!Runs
<1>4. d \in Texts(g)!Commands
  BY <1>2 DEF Texts!Commands
<1>5. /\ d.at = "delete" /\ d.cmd = c.cmd /\ d.makes = c.makes /\ d.snap = c.snap
      /\ d.todo = c.todo /\ d.missing = c.missing /\ d.cur = {m} /\ d.rec = c.rec
      /\ d.plain = c.plain /\ d.out = c.out /\ d.failed = c.failed /\ d.held = c.held
  BY <1>2 DEF Texts!Commands
<1>6. Texts(g)!Searches(d) /\ Texts(g)!Holds(d, v2) /\ Texts(g)!Makes(d) /\ Texts(g)!Told(d)
      /\ Texts(g)!Left(d) /\ Texts(g)!Shown(d)
  BY <1>1, <1>5 DEF Texts!Searches, Texts!Holds, Texts!Makes, Texts!Told, Texts!Left,
     Texts!Shown, Texts!Runs
<1>7. Texts(g)!Good(d, v2)
  BY <1>1, <1>4, <1>5, <1>6 DEF Texts!Good, Texts!Runs
<1> QED
  BY <1>7, CommandGoes

\* So it is after a comparison.
LEMMA DeleteAfter ==
  ASSUME NEW g \in TextScenes, Texts(g)!TextInv, NEW p \in g.procs, NEW c, c = v4[p],
         c.at = "verify",
         NEW d, d = [c EXCEPT !.at = "delete"],
         Texts(g)!To(p, d), UNCHANGED Texts(g)!world, Texts(g)!WorldInv'
  PROVE  Texts(g)!TextInv'
<1>1. Texts(g)!Runs(c, v2)
  BY CommandGood
<1>2. c \in Texts(g)!Commands
  BY <1>1 DEF Texts!Runs
<1>4. d \in Texts(g)!Commands
  BY <1>2 DEF Texts!Commands
<1>5. /\ d.at = "delete" /\ d.cmd = c.cmd /\ d.makes = c.makes /\ d.snap = c.snap
      /\ d.todo = c.todo /\ d.missing = c.missing /\ d.cur = c.cur /\ d.rec = c.rec
      /\ d.plain = c.plain /\ d.out = c.out /\ d.failed = c.failed /\ d.held = c.held
  BY <1>2 DEF Texts!Commands
<1>6. Texts(g)!Searches(d) /\ Texts(g)!Holds(d, v2) /\ Texts(g)!Makes(d) /\ Texts(g)!Told(d)
      /\ Texts(g)!Left(d) /\ Texts(g)!Shown(d)
  BY <1>1, <1>5 DEF Texts!Searches, Texts!Holds, Texts!Makes, Texts!Told, Texts!Left,
     Texts!Shown, Texts!Runs
<1>7. Texts(g)!Good(d, v2)
  BY <1>1, <1>4, <1>5, <1>6 DEF Texts!Good, Texts!Runs
<1> QED
  BY <1>7, CommandGoes

\* A record is to be compared with the image.
LEMMA VerifyNext ==
  ASSUME NEW g \in TextScenes, Texts(g)!TextInv, NEW p \in g.procs, NEW c, c = v4[p],
         NEW m \in c.todo, NEW r \in Texts(g)!Records, Texts(g)!Sound(r), c.at = "load",
         c.cmd # "search",
         NEW d, d = [c EXCEPT !.at = "verify", !.cur = {m}, !.rec = {r}],
         Texts(g)!To(p, d), UNCHANGED Texts(g)!world, Texts(g)!WorldInv'
  PROVE  Texts(g)!TextInv'
<1>1. Texts(g)!Runs(c, v2)
  BY CommandGood
<1>2. c \in Texts(g)!Commands
  BY <1>1 DEF Texts!Runs
<1>4. d \in Texts(g)!Commands
  BY <1>2 DEF Texts!Commands
<1>5. /\ d.at = "verify" /\ d.cmd = c.cmd /\ d.makes = c.makes /\ d.snap = c.snap
      /\ d.todo = c.todo /\ d.missing = c.missing /\ d.cur = {m} /\ d.rec = {r}
      /\ d.plain = c.plain /\ d.out = c.out /\ d.failed = c.failed /\ d.held = c.held
  BY <1>2 DEF Texts!Commands
<1>6. Texts(g)!Searches(d) /\ Texts(g)!Holds(d, v2) /\ Texts(g)!Makes(d) /\ Texts(g)!Told(d)
      /\ Texts(g)!Left(d) /\ Texts(g)!Shown(d)
  BY <1>1, <1>5 DEF Texts!Searches, Texts!Holds, Texts!Makes, Texts!Told, Texts!Left,
     Texts!Shown, Texts!Runs
<1>7. Texts(g)!Good(d, v2)
  BY <1>1, <1>4, <1>5, <1>6 DEF Texts!Good, Texts!Runs
<1> QED
  BY <1>7, CommandGoes

\* A command prints what it found.
LEMMA ShowNext ==
  ASSUME NEW g \in TextScenes, Texts(g)!TextInv, NEW p \in g.procs, NEW c, c = v4[p],
         NEW more \in SUBSET Texts(g)!Outs,
         \A o \in more : \E x \in c.snap[o.m] : x.meta = o.meta, c.at = "load", c.todo = {},
         c.missing = {} \/ ~c.makes,
         NEW fails \in BOOLEAN,
         NEW d, d = [c EXCEPT !.at = "done", !.out = @ \cup more, !.held = {}, !.cur = {}, !.rec = {}, !.failed = @ \/ fails],
         Texts(g)!To(p, d), UNCHANGED Texts(g)!world, Texts(g)!WorldInv'
  PROVE  Texts(g)!TextInv'
<1>1. Texts(g)!Runs(c, v2)
  BY CommandGood
<1>2. c \in Texts(g)!Commands
  BY <1>1 DEF Texts!Runs
<1>4. d \in Texts(g)!Commands
  BY <1>2 DEF Texts!Commands
<1>5. /\ d.at = "done" /\ d.cmd = c.cmd /\ d.makes = c.makes /\ d.snap = c.snap
      /\ d.todo = c.todo /\ d.missing = c.missing /\ d.cur = {} /\ d.rec = {}
      /\ d.plain = c.plain /\ d.out = c.out \cup more /\ d.failed = (c.failed \/ fails)
         /\ d.held = {}
  BY <1>2 DEF Texts!Commands
<1>6. Texts(g)!Searches(d) /\ Texts(g)!Holds(d, v2) /\ Texts(g)!Makes(d)
  BY <1>1, <1>5 DEF Texts!Searches, Texts!Holds, Texts!Makes, Texts!Runs
<1>7. c.failed => d.failed
  BY <1>5, <1>2 DEF Texts!Commands
<1>8. Texts(g)!Told(d) /\ Texts(g)!Left(d) /\ Texts(g)!Shown(d)
  BY <1>1, <1>5, <1>7 DEF Texts!Told, Texts!Left, Texts!Shown, Texts!Runs
<1>9. Texts(g)!Good(d, v2)
  BY <1>1, <1>4, <1>5, <1>6, <1>8 DEF Texts!Good, Texts!Runs
<1> QED
  BY <1>9, CommandGoes

\* One that cannot make a text ends with an error.
LEMMA NoEngineNext ==
  ASSUME NEW g \in TextScenes, Texts(g)!TextInv, NEW p \in g.procs, NEW c, c = v4[p],
         c.at = "load", c.makes,
         NEW d, d = [c EXCEPT !.at = "done", !.failed = TRUE, !.out = {}, !.held = {}],
         Texts(g)!To(p, d), UNCHANGED Texts(g)!world, Texts(g)!WorldInv'
  PROVE  Texts(g)!TextInv'
<1>1. Texts(g)!Runs(c, v2)
  BY CommandGood
<1>2. c \in Texts(g)!Commands
  BY <1>1 DEF Texts!Runs
<1>4. d \in Texts(g)!Commands
  BY <1>2 DEF Texts!Commands
<1>5. /\ d.at = "done" /\ d.cmd = c.cmd /\ d.makes = c.makes /\ d.snap = c.snap
      /\ d.todo = c.todo /\ d.missing = c.missing /\ d.cur = c.cur /\ d.rec = c.rec
      /\ d.plain = c.plain /\ d.out = {} /\ d.failed = TRUE /\ d.held = {}
  BY <1>2 DEF Texts!Commands
<1>6. Texts(g)!Searches(d) /\ Texts(g)!Holds(d, v2) /\ Texts(g)!Makes(d) /\ Texts(g)!Told(d)
      /\ Texts(g)!Left(d) /\ Texts(g)!Shown(d)
  BY <1>1, <1>5 DEF Texts!Searches, Texts!Holds, Texts!Makes, Texts!Told, Texts!Left,
     Texts!Shown, Texts!Runs
<1>7. Texts(g)!Good(d, v2)
  BY <1>1, <1>4, <1>5, <1>6 DEF Texts!Good, Texts!Runs
<1> QED
  BY <1>7, CommandGoes

\* The image or the audio is in the clear.
LEMMA WriteNext ==
  ASSUME NEW g \in TextScenes, Texts(g)!TextInv, NEW p \in g.procs, NEW c, c = v4[p],
         NEW m \in c.missing, c.at = "load", c.makes, NEW r \in Texts(g)!Records,
         Texts(g)!Sound(r), m \in g.images => <<m, r.from>> \in c.held,
         NEW d, d = [c EXCEPT !.at = "engine", !.cur = {m}, !.plain = TRUE, !.rec = {r}],
         Texts(g)!To(p, d), UNCHANGED Texts(g)!world, Texts(g)!WorldInv'
  PROVE  Texts(g)!TextInv'
<1>1. Texts(g)!Runs(c, v2)
  BY CommandGood
<1>2. c \in Texts(g)!Commands
  BY <1>1 DEF Texts!Runs
<1>4. d \in Texts(g)!Commands
  BY <1>2 DEF Texts!Commands
<1>5. /\ d.at = "engine" /\ d.cmd = c.cmd /\ d.makes = c.makes /\ d.snap = c.snap
      /\ d.todo = c.todo /\ d.missing = c.missing /\ d.cur = {m} /\ d.rec = {r}
      /\ d.plain = TRUE /\ d.out = c.out /\ d.failed = c.failed /\ d.held = c.held
  BY <1>2 DEF Texts!Commands
<1>6. Texts(g)!Searches(d) /\ Texts(g)!Holds(d, v2) /\ Texts(g)!Makes(d) /\ Texts(g)!Told(d)
      /\ Texts(g)!Left(d) /\ Texts(g)!Shown(d)
  BY <1>1, <1>5 DEF Texts!Searches, Texts!Holds, Texts!Makes, Texts!Told, Texts!Left,
     Texts!Shown, Texts!Runs
<1>7. Texts(g)!Good(d, v2)
  BY <1>1, <1>4, <1>5, <1>6 DEF Texts!Good, Texts!Runs
<1> QED
  BY <1>7, CommandGoes

\* The engine ends.
LEMMA EngineNext ==
  ASSUME NEW g \in TextScenes, Texts(g)!TextInv, NEW p \in g.procs, NEW c, c = v4[p],
         c.at = "engine", NEW rec \in SUBSET c.rec,
         NEW d, d = [c EXCEPT !.at = "clean", !.rec = rec],
         Texts(g)!To(p, d), UNCHANGED Texts(g)!world, Texts(g)!WorldInv'
  PROVE  Texts(g)!TextInv'
<1>1. Texts(g)!Runs(c, v2)
  BY CommandGood
<1>2. c \in Texts(g)!Commands
  BY <1>1 DEF Texts!Runs
<1>4. d \in Texts(g)!Commands
  BY <1>2 DEF Texts!Commands
<1>5. /\ d.at = "clean" /\ d.cmd = c.cmd /\ d.makes = c.makes /\ d.snap = c.snap
      /\ d.todo = c.todo /\ d.missing = c.missing /\ d.cur = c.cur /\ d.rec = rec
      /\ d.plain = c.plain /\ d.out = c.out /\ d.failed = c.failed /\ d.held = c.held
  BY <1>2 DEF Texts!Commands
<1>6. Texts(g)!Searches(d) /\ Texts(g)!Holds(d, v2) /\ Texts(g)!Makes(d) /\ Texts(g)!Told(d)
      /\ Texts(g)!Left(d) /\ Texts(g)!Shown(d)
  BY <1>1, <1>5 DEF Texts!Searches, Texts!Holds, Texts!Makes, Texts!Told, Texts!Left,
     Texts!Shown, Texts!Runs
<1>7. Texts(g)!Good(d, v2)
  BY <1>1, <1>4, <1>5, <1>6 DEF Texts!Good, Texts!Runs
<1> QED
  BY <1>7, CommandGoes

\* The temporary file is gone.
LEMMA CleanNext ==
  ASSUME NEW g \in TextScenes, Texts(g)!TextInv, NEW p \in g.procs, NEW c, c = v4[p],
         c.at = "clean",
         NEW d, d = [c EXCEPT !.at = "save", !.plain = FALSE],
         Texts(g)!To(p, d), UNCHANGED Texts(g)!world, Texts(g)!WorldInv'
  PROVE  Texts(g)!TextInv'
<1>1. Texts(g)!Runs(c, v2)
  BY CommandGood
<1>2. c \in Texts(g)!Commands
  BY <1>1 DEF Texts!Runs
<1>4. d \in Texts(g)!Commands
  BY <1>2 DEF Texts!Commands
<1>5. /\ d.at = "save" /\ d.cmd = c.cmd /\ d.makes = c.makes /\ d.snap = c.snap
      /\ d.todo = c.todo /\ d.missing = c.missing /\ d.cur = c.cur /\ d.rec = c.rec
      /\ d.plain = FALSE /\ d.out = c.out /\ d.failed = c.failed /\ d.held = c.held
  BY <1>2 DEF Texts!Commands
<1>6. Texts(g)!Searches(d) /\ Texts(g)!Holds(d, v2) /\ Texts(g)!Makes(d) /\ Texts(g)!Told(d)
      /\ Texts(g)!Left(d) /\ Texts(g)!Shown(d)
  BY <1>1, <1>5 DEF Texts!Searches, Texts!Holds, Texts!Makes, Texts!Told, Texts!Left,
     Texts!Shown, Texts!Runs
<1>7. Texts(g)!Good(d, v2)
  BY <1>1, <1>4, <1>5, <1>6 DEF Texts!Good, Texts!Runs
<1> QED
  BY <1>7, CommandGoes

\* The text is in the cache.
LEMMA SaveNext ==
  ASSUME NEW g \in TextScenes, Texts(g)!TextInv, NEW p \in g.procs, NEW c, c = v4[p],
         c.at = "save", NEW m \in c.cur, NEW r \in c.rec,
         NEW d, d = [c EXCEPT !.at = "load", !.missing = @ \ {m}, !.rec = {}, !.out = @ \cup {Texts(g)!Found(m, "made", r)}],
         Texts(g)!To(p, d), UNCHANGED Texts(g)!world, Texts(g)!WorldInv'
  PROVE  Texts(g)!TextInv'
<1>1. Texts(g)!Runs(c, v2)
  BY CommandGood
<1>2. c \in Texts(g)!Commands
  BY <1>1 DEF Texts!Runs
<1>3. Texts(g)!Found(m, "made", r) \in Texts(g)!Outs
  BY <1>2 DEF Texts!Found, Texts!Outs, Texts!Commands, Texts!Records
<1>4. d \in Texts(g)!Commands
  BY <1>2, <1>3 DEF Texts!Commands
<1>5. /\ d.at = "load" /\ d.cmd = c.cmd /\ d.makes = c.makes /\ d.snap = c.snap
      /\ d.todo = c.todo /\ d.missing = c.missing \ {m} /\ d.cur = c.cur /\ d.rec = {}
      /\ d.plain = c.plain /\ d.out = c.out \cup {Texts(g)!Found(m, "made", r)}
         /\ d.failed = c.failed /\ d.held = c.held
  BY <1>2 DEF Texts!Commands
<1>6. Texts(g)!Searches(d)
  BY <1>1, <1>5 DEF Texts!Searches, Texts!Runs, Texts!Makes
<1>7. Texts(g)!Holds(d, v2)
  BY <1>1, <1>5 DEF Texts!Holds, Texts!Runs, Texts!Makes, Texts!Found
<1>8. Texts(g)!Makes(d) /\ Texts(g)!Told(d)
  BY <1>1, <1>5 DEF Texts!Makes, Texts!Told, Texts!Runs
<1>11. c.out \subseteq d.out /\ \E o \in d.out : o.m = m
  <2>1. Texts(g)!Found(m, "made", r) \in d.out /\ Texts(g)!Found(m, "made", r).m = m
    BY <1>5 DEF Texts!Found
  <2> QED
    BY <1>5, <2>1
<1>9. Texts(g)!Left(d) /\ Texts(g)!Shown(d)
  BY <1>1, <1>5, <1>11 DEF Texts!Left, Texts!Shown, Texts!Runs
<1>10. Texts(g)!Good(d, v2)
  BY <1>1, <1>4, <1>5, <1>6, <1>7, <1>8, <1>9 DEF Texts!Good, Texts!Runs
<1> QED
  BY <1>10, CommandGoes

\* A message fails, with or without a temporary file left.
LEMMA FailNext ==
  ASSUME NEW g \in TextScenes, Texts(g)!TextInv, NEW p \in g.procs, NEW c, c = v4[p],
         c.at \in {"load", "clean", "save"}, c.cmd # "search", NEW m \in Texts(g)!Messages,
         NEW plain \in BOOLEAN,
         NEW d, d = [Texts(g)!Fails(c, m) EXCEPT !.plain = plain],
         Texts(g)!To(p, d), UNCHANGED Texts(g)!world, Texts(g)!WorldInv'
  PROVE  Texts(g)!TextInv'
<1>1. Texts(g)!Runs(c, v2)
  BY CommandGood
<1>2. c \in Texts(g)!Commands
  BY <1>1 DEF Texts!Runs
<1>3. PICK e : e = Texts(g)!Fails(c, m)
  OBVIOUS
<1>4. e \in Texts(g)!Commands
  <2>1. CASE c.cmd = "voices"
    BY <1>2, <1>3, <2>1 DEF Texts!Commands, Texts!Fails
  <2>2. CASE c.cmd # "voices"
    BY <1>2, <1>3, <2>2 DEF Texts!Commands, Texts!Fails
  <2> QED
    BY <2>1, <2>2
<1>5. d \in Texts(g)!Commands
  BY <1>3, <1>4 DEF Texts!Commands
<1>6. /\ e.cmd = c.cmd /\ e.makes = c.makes /\ e.snap = c.snap /\ e.todo = c.todo
         /\ e.missing = c.missing \ {m} /\ e.cur = c.cur
      /\ e.rec = {} /\ e.out = c.out /\ e.failed = TRUE
         /\ e.at = (IF c.cmd = "voices" THEN "load" ELSE "done")
      /\ e.held = (IF c.cmd = "voices" THEN c.held ELSE {})
  BY <1>2, <1>3 DEF Texts!Commands, Texts!Fails
<1>7. /\ d.cmd = c.cmd /\ d.makes = c.makes /\ d.snap = c.snap /\ d.todo = c.todo
         /\ d.missing = c.missing \ {m} /\ d.cur = c.cur
      /\ d.rec = {} /\ d.out = c.out /\ d.failed = TRUE
         /\ d.at = (IF c.cmd = "voices" THEN "load" ELSE "done")
      /\ d.held = (IF c.cmd = "voices" THEN c.held ELSE {}) /\ d.plain = plain
  BY <1>3, <1>4, <1>6 DEF Texts!Commands
<1>8. Texts(g)!Searches(d) /\ Texts(g)!Holds(d, v2) /\ Texts(g)!Makes(d) /\ Texts(g)!Told(d)
      /\ Texts(g)!Left(d) /\ Texts(g)!Shown(d)
  BY <1>1, <1>7 DEF Texts!Searches, Texts!Holds, Texts!Makes, Texts!Told, Texts!Left,
     Texts!Shown, Texts!Runs
<1>9. Texts(g)!Good(d, v2)
  BY <1>1, <1>5, <1>7, <1>8 DEF Texts!Good, Texts!Runs
<1> QED
  BY <1>3, <1>9, CommandGoes


\* The steps of a command keep the invariant.
LEMMA RecordStep ==
  ASSUME NEW g \in TextScenes, Texts(g)!TextInv, NEW p \in g.procs, NEW m \in Texts(g)!Messages,
         Texts(g)!ReadIndex(p, m) \/ Texts(g)!LoadRecord(p, m) \/ Texts(g)!SearchRecord(p, m) \/ Texts(g)!Vanished(p, m)
  PROVE  Texts(g)!TextInv'
<1>0. PICK c : c = v4[p]
  OBVIOUS
<1>1. c.at = "load" /\ m \in c.todo /\ UNCHANGED <<Texts(g)!world, v3>>
  BY <1>0 DEF Texts!ReadIndex, Texts!LoadRecord, Texts!SearchRecord, Texts!Vanished
<1>2. Texts(g)!Runs(c, v2) /\ c \in Texts(g)!Commands
  BY <1>0, <1>1, CommandGood DEF Texts!Runs
<1>3. Texts(g)!WorldInv /\ Texts(g)!WorldInv' /\ UNCHANGED Texts(g)!world
  BY <1>1 DEF Texts!TextInv, Texts!WorldInv, Texts!world
<1>4. ASSUME NEW r \in Texts(g)!Records, NEW src \in {"index", "cache"} PROVE Texts(g)!Found(m, src, r) \in Texts(g)!Outs
  BY DEF Texts!Found, Texts!Outs, Texts!Records
<1>5. CASE Texts(g)!ReadIndex(p, m)
  <2>1. PICK x \in c.snap[m] : Texts(g)!Leave(p, m, {Texts(g)!Found(m, "index", [meta |-> x.meta, from |-> 0])})
    BY <1>0, <1>5 DEF Texts!ReadIndex
  <2>2. PICK o : o = Texts(g)!Found(m, "index", [meta |-> x.meta, from |-> 0])
    OBVIOUS
  <2>3. x \in Texts(g)!Metas
    BY <1>2 DEF Texts!Commands, Texts!Shots
  <2>4. o \in Texts(g)!Outs /\ o.m = m /\ o.src = "index" /\ o.meta = x.meta
    BY <2>2, <2>3 DEF Texts!Found, Texts!Outs, Texts!Metas
  <2>5. {o} \in SUBSET Texts(g)!Outs /\ Texts(g)!Leave(p, m, {o})
    BY <2>1, <2>2, <2>4
  <2> QED
    BY <1>0, <1>1, <1>3, <2>4, <2>5, LeaveStep
<1>6. CASE Texts(g)!LoadRecord(p, m) /\ v3[m] = {} /\ Texts(g)!Miss(p, m)
  BY <1>0, <1>1, <1>3, <1>6, MissStep DEF Texts!LoadRecord
<1>7. CASE Texts(g)!SearchRecord(p, m) /\ Texts(g)!Leave(p, m, {})
  <2>1. {} \in SUBSET Texts(g)!Outs /\ c.cmd = "search"
    BY <1>0, <1>7 DEF Texts!SearchRecord
  <2> QED
    BY <1>0, <1>1, <1>3, <1>7, <2>1, LeaveStep
<1>8. CASE Texts(g)!Vanished(p, m)
  BY <1>0, <1>1, <1>3, <1>8, DeleteNext DEF Texts!Vanished
<1>9. ASSUME NEW r \in v3[m], Texts(g)!LoadRecord(p, m) \/ Texts(g)!SearchRecord(p, m),
             ~Texts(g)!Agrees(c, m, r),
             Texts(g)!To(p, [c EXCEPT !.at = "delete", !.cur = {m}])
      PROVE  Texts(g)!TextInv'
  BY <1>0, <1>1, <1>3, <1>9, DeleteNext
<1>10. ASSUME NEW r \in v3[m], c.cmd # "search", Texts(g)!To(p, [c EXCEPT !.at = "verify", !.cur = {m}, !.rec = {r}]) PROVE Texts(g)!TextInv'
  <2>1. r \in Texts(g)!Records /\ Texts(g)!Sound(r)
    BY <1>3 DEF Texts!WorldInv
  <2> QED
    BY <1>0, <1>1, <1>3, <1>10, <2>1, VerifyNext
<1>11. ASSUME NEW r \in v3[m], c.cmd = "search" => Texts(g)!Agrees(c, m, r), Texts(g)!Leave(p, m, {Texts(g)!Found(m, "cache", r)}) PROVE Texts(g)!TextInv'
  <2>1. r \in Texts(g)!Records
    BY <1>3 DEF Texts!WorldInv
  <2>2. PICK o : o = Texts(g)!Found(m, "cache", r)
    OBVIOUS
  <2>3. o \in Texts(g)!Outs /\ o.m = m /\ o.src = "cache" /\ o.meta = r.meta
    BY <2>1, <2>2 DEF Texts!Found, Texts!Outs, Texts!Records
  <2>4. {o} \in SUBSET Texts(g)!Outs /\ Texts(g)!Leave(p, m, {o})
    BY <1>11, <2>2, <2>3
  <2>5. c.cmd = "search" => \E x \in c.snap[o.m] : x.meta = o.meta
    BY <1>1, <1>2, <1>11, <2>3 DEF Texts!Agrees, Texts!Runs, Texts!Searches
  <2> QED
    BY <1>0, <1>1, <1>3, <2>3, <2>4, <2>5, LeaveStep
<1>12. CASE Texts(g)!LoadRecord(p, m)
  <2>1. CASE v3[m] = {} /\ Texts(g)!Miss(p, m)
    BY <1>6, <1>12, <2>1
  <2>2. CASE \E r \in v3[m] :
            IF ~Texts(g)!Agrees(c, m, r) THEN Texts(g)!To(p, [c EXCEPT !.at = "delete", !.cur = {m}])
            ELSE IF c.cmd \in {"read", "recognize"}
                 THEN Texts(g)!To(p, [c EXCEPT !.at = "verify", !.cur = {m}, !.rec = {r}])
            ELSE Texts(g)!Leave(p, m, {Texts(g)!Found(m, "cache", r)})
    <3>1. c.cmd # "search"
      BY <1>0, <1>12 DEF Texts!LoadRecord
    <3> QED
      BY <1>9, <1>10, <1>11, <1>12, <2>2, <3>1
  <2> QED
    BY <1>0, <1>12, <2>1, <2>2 DEF Texts!LoadRecord
<1>13. CASE Texts(g)!SearchRecord(p, m)
  <2>2. CASE \E r \in v3[m] :
            IF Texts(g)!Agrees(c, m, r) THEN Texts(g)!Leave(p, m, {Texts(g)!Found(m, "cache", r)})
            ELSE Texts(g)!To(p, [c EXCEPT !.at = "delete", !.cur = {m}])
    BY <1>9, <1>11, <1>13, <2>2
  <2> QED
    BY <1>0, <1>7, <1>13, <2>2 DEF Texts!SearchRecord
<1> QED
  BY <1>5, <1>8, <1>12, <1>13

\* A record is compared with the image there is.
LEMMA VerifyStep ==
  ASSUME NEW g \in TextScenes, Texts(g)!TextInv, NEW p \in g.procs, Texts(g)!Verify(p)
  PROVE  Texts(g)!TextInv'
<1>0. PICK c : c = v4[p]
  OBVIOUS
<1>1. c.at = "verify" /\ UNCHANGED <<Texts(g)!world, v3>>
  BY <1>0 DEF Texts!Verify
<1>2. Texts(g)!Runs(c, v2) /\ c \in Texts(g)!Commands
  BY <1>0, <1>1, CommandGood DEF Texts!Runs
<1>3. Texts(g)!WorldInv /\ Texts(g)!WorldInv' /\ UNCHANGED Texts(g)!world
  BY <1>1 DEF Texts!TextInv, Texts!WorldInv, Texts!world
<1>4. PICK m \in c.cur, r \in c.rec :
          \/ v2[m] = 0 /\ Texts(g)!Leave(p, m, {Texts(g)!Found(m, "unverified", r)})
          \/ v2[m] = r.digest /\ Texts(g)!Leave(p, m, {Texts(g)!Found(m, "verified", r)})
          \/ v2[m] \notin {0, r.digest} /\ Texts(g)!To(p, [c EXCEPT !.at = "delete"])
  BY <1>0 DEF Texts!Verify
<1>5. m \in Texts(g)!Messages /\ r \in Texts(g)!Records /\ Texts(g)!Sound(r)
  BY <1>2 DEF Texts!Commands, Texts!Runs
<1>6. ASSUME NEW src \in {"verified", "unverified"},
             Texts(g)!Leave(p, m, {Texts(g)!Found(m, src, r)}),
             src = "verified" => v2[m] = r.digest
      PROVE  Texts(g)!TextInv'
  <2>1. PICK o : o = Texts(g)!Found(m, src, r)
    OBVIOUS
  <2>2. o \in Texts(g)!Outs /\ o.m = m /\ o.src = src /\ o.meta = r.meta /\ o.from = r.from
    BY <1>5, <2>1 DEF Texts!Found, Texts!Outs, Texts!Records
  <2>3. {o} \in SUBSET Texts(g)!Outs /\ Texts(g)!Leave(p, m, {o})
    BY <1>6, <2>1, <2>2
  <2>4. o.m \in g.images /\ o.src \in {"verified", "made"} => <<o.m, o.from>> \in c.held
    BY <1>1, <1>2, <1>5, <1>6, <2>2 DEF Texts!Runs, Texts!Holds, Texts!Sound
  <2>5. c.cmd # "search"
    BY <1>1, <1>2 DEF Texts!Runs, Texts!Searches
  <2> QED
    BY <1>0, <1>1, <1>3, <1>5, <2>2, <2>3, <2>4, <2>5, LeaveStep
<1> QED
  BY <1>0, <1>1, <1>3, <1>4, <1>6, DeleteAfter

\* A record that does not agree is deleted.
LEMMA DeleteStep ==
  ASSUME NEW g \in TextScenes, Texts(g)!TextInv, NEW p \in g.procs, Texts(g)!DeleteRecord(p)
  PROVE  Texts(g)!TextInv'
<1>0. PICK c : c = v4[p]
  OBVIOUS
<1>1. c.at = "delete" /\ UNCHANGED Texts(g)!world
  BY <1>0 DEF Texts!DeleteRecord
<1>2. Texts(g)!Runs(c, v2) /\ c \in Texts(g)!Commands
  BY <1>0, <1>1, CommandGood DEF Texts!Runs
<1>4. PICK m \in c.cur : /\ v3' = [v3 EXCEPT ![m] = {}]
                         /\ IF c.cmd = "search" THEN Texts(g)!Leave(p, m, {}) ELSE Texts(g)!Miss(p, m)
  BY <1>0 DEF Texts!DeleteRecord
<1>5. m \in Texts(g)!Messages
  BY <1>2 DEF Texts!Commands
<1>3. Texts(g)!WorldInv'
  BY <1>1, <1>4 DEF Texts!TextInv, Texts!WorldInv, Texts!world
<1>6. {} \in SUBSET Texts(g)!Outs
  OBVIOUS
<1>7. CASE c.cmd = "search"
  BY <1>0, <1>1, <1>3, <1>4, <1>5, <1>6, <1>7, LeaveStep
<1>8. CASE c.cmd # "search"
  <2>1. c.snap[m] # {}
    BY <1>2, <1>5, <1>8 DEF Texts!Runs, Texts!Shown
  <2> QED
    BY <1>0, <1>1, <1>3, <1>4, <1>5, <1>8, <2>1, MissStep
<1> QED
  BY <1>7, <1>8


\* The ends of a command.
LEMMA EndStep ==
  ASSUME NEW g \in TextScenes, Texts(g)!TextInv, NEW p \in g.procs,
         Texts(g)!Show(p) \/ Texts(g)!NoEngine(p)
  PROVE  Texts(g)!TextInv'
<1>0. PICK c : c = v4[p]
  OBVIOUS
<1>1. c.at = "load" /\ c.todo = {} /\ UNCHANGED <<Texts(g)!world, v3>>
  BY <1>0 DEF Texts!Show, Texts!NoEngine
<1>2. Texts(g)!Runs(c, v2) /\ c \in Texts(g)!Commands
  BY <1>0, <1>1, CommandGood DEF Texts!Runs
<1>3. Texts(g)!WorldInv' /\ UNCHANGED Texts(g)!world
  BY <1>1 DEF Texts!TextInv, Texts!WorldInv, Texts!world
<1>4. CASE Texts(g)!Show(p)
  <2>1. PICK more : more = Texts(g)!Indexed(c)
    OBVIOUS
  <2>2. ASSUME NEW o \in more PROVE o \in Texts(g)!Outs /\ \E x \in c.snap[o.m] : x.meta = o.meta
    <3>1. PICK y \in g.images \X [meta : 1 .. 2, indexed : {TRUE}] :
            y[2] \in c.snap[y[1]]
            /\ o = Texts(g)!Found(y[1], "index", [meta |-> y[2].meta, from |-> 0])
      BY <2>1, <2>2 DEF Texts!Indexed
    <3>2. y[1] \in Texts(g)!Messages /\ y[2].meta \in 1 .. 2
      BY <3>1 DEF Texts!Messages
    <3>3. o.m = y[1] /\ o.meta = y[2].meta /\ o \in Texts(g)!Outs
      BY <3>1, <3>2 DEF Texts!Found, Texts!Outs
    <3> QED
      BY <3>1, <3>3
  <2>3. PICK fails \in BOOLEAN : fails = (c.missing # {} /\ c.cmd = "read")
    OBVIOUS
  <2>4. Texts(g)!To(p, [c EXCEPT !.at = "done", !.out = @ \cup more, !.held = {}, !.cur = {}, !.rec = {}, !.failed = @ \/ fails])
    BY <1>0, <1>4, <2>1, <2>3 DEF Texts!Show
  <2>5. c.missing = {} \/ ~c.makes
    BY <1>0, <1>4 DEF Texts!Show
  <2>6. more \in SUBSET Texts(g)!Outs /\ \A o \in more : \E x \in c.snap[o.m] : x.meta = o.meta
    BY <2>2
  <2> QED
    BY <1>0, <1>1, <1>3, <2>4, <2>5, <2>6, ShowNext
<1>5. CASE Texts(g)!NoEngine(p)
  <2>1. c.makes /\ Texts(g)!To(p, [c EXCEPT !.at = "done", !.failed = TRUE, !.out = {}, !.held = {}])
    BY <1>0, <1>5 DEF Texts!NoEngine
  <2> QED
    BY <1>0, <1>1, <1>3, <2>1, NoEngineNext
<1> QED
  BY <1>4, <1>5

\* Making one text.
LEMMA MakeStep ==
  ASSUME NEW g \in TextScenes, Texts(g)!TextInv, NEW p \in g.procs,
         \/ \E m \in Texts(g)!Messages : Texts(g)!WriteTemporary(p, m) \/ Texts(g)!NoPayload(p, m)
         \/ Texts(g)!Engine(p) \/ Texts(g)!RemoveTemporary(p)
  PROVE  Texts(g)!TextInv'
<1>0. PICK c : c = v4[p]
  OBVIOUS
<1>1. c.at \in {"load", "engine", "clean"} /\ UNCHANGED <<Texts(g)!world, v3>>
  BY <1>0 DEF Texts!WriteTemporary, Texts!NoPayload, Texts!Engine, Texts!RemoveTemporary
<1>2. Texts(g)!Runs(c, v2) /\ c \in Texts(g)!Commands
  BY <1>0, <1>1, CommandGood DEF Texts!Runs
<1>3. Texts(g)!WorldInv /\ Texts(g)!WorldInv' /\ UNCHANGED Texts(g)!world
  BY <1>1 DEF Texts!TextInv, Texts!WorldInv, Texts!world
<1>4. ASSUME NEW m \in Texts(g)!Messages, Texts(g)!WriteTemporary(p, m) PROVE Texts(g)!TextInv'
  <2>1. PICK r : /\ r = [meta |-> (CHOOSE x \in c.snap[m] : TRUE).meta, digest |-> Texts(g)!Content(m), from |-> Texts(g)!Content(m)]
                 /\ Texts(g)!To(p, [c EXCEPT !.at = "engine", !.cur = {m}, !.plain = TRUE, !.rec = {r}])
    BY <1>0, <1>4 DEF Texts!WriteTemporary
  <2>2. c.at = "load" /\ c.makes /\ m \in c.missing
    BY <1>0, <1>4 DEF Texts!WriteTemporary
  <2>3. Texts(g)!Content(m) \in Nat /\ (m \in g.images => Texts(g)!Content(m) = v2[m])
    BY <1>3 DEF Texts!Content, Texts!WorldInv
  <2>7. c.snap[m] # {}
    BY <1>2, <2>2 DEF Texts!Runs, Texts!Shown, Texts!Searches
  <2>4. (CHOOSE x \in c.snap[m] : TRUE) \in Texts(g)!Metas
    BY <1>2, <2>7 DEF Texts!Commands, Texts!Shots
  <2>5. r \in Texts(g)!Records /\ Texts(g)!Sound(r) /\ r.from = Texts(g)!Content(m)
    BY <2>1, <2>3, <2>4 DEF Texts!Records, Texts!Sound, Texts!Metas
  <2>6. m \in g.images => <<m, r.from>> \in c.held
    BY <1>2, <2>2, <2>3, <2>5 DEF Texts!Runs, Texts!Holds
  <2> QED
    BY <1>0, <1>3, <2>1, <2>2, <2>5, <2>6, WriteNext
<1>5. ASSUME NEW m \in Texts(g)!Messages, NEW plain \in BOOLEAN,
             Texts(g)!To(p, [Texts(g)!Fails(c, m) EXCEPT !.plain = plain]),
             c.at \in {"load", "clean"}, c.cmd # "search"
      PROVE  Texts(g)!TextInv'
  BY <1>0, <1>3, <1>5, FailNext
<1>6. ASSUME NEW m \in Texts(g)!Messages, Texts(g)!To(p, Texts(g)!Fails(c, m)), c.at \in {"load", "clean"}, c.cmd # "search" PROVE Texts(g)!TextInv'
  <2>1. PICK plain \in BOOLEAN : plain = c.plain
    BY <1>2 DEF Texts!Commands
  <2>2. Texts(g)!Fails(c, m) = [Texts(g)!Fails(c, m) EXCEPT !.plain = plain]
    BY <1>2, <2>1 DEF Texts!Fails, Texts!Commands
  <2> QED
    BY <1>5, <1>6, <2>2
<1>7. ASSUME NEW m \in Texts(g)!Messages, Texts(g)!NoPayload(p, m) PROVE Texts(g)!TextInv'
  <2>1. c.at = "load" /\ c.cmd # "search" /\ Texts(g)!To(p, Texts(g)!Fails(c, m))
    BY <1>0, <1>2, <1>7 DEF Texts!NoPayload, Texts!Runs, Texts!Searches
  <2> QED
    BY <1>6, <1>7, <2>1
<1>8. CASE Texts(g)!Engine(p)
  <2>1. c = [c EXCEPT !.rec = c.rec]
    BY <1>2 DEF Texts!Commands
  <2>2. PICK rec \in SUBSET c.rec : Texts(g)!To(p, [c EXCEPT !.at = "clean", !.rec = rec])
    <3>1. CASE Texts(g)!To(p, [c EXCEPT !.at = "clean"])
      <4>1. [c EXCEPT !.at = "clean"] = [c EXCEPT !.at = "clean", !.rec = c.rec]
        BY <1>2 DEF Texts!Commands
      <4> QED
        BY <3>1, <4>1
    <3> QED
      BY <1>0, <1>8, <3>1 DEF Texts!Engine
  <2>3. c.at = "engine"
    BY <1>0, <1>8 DEF Texts!Engine
  <2> QED
    BY <1>0, <1>3, <2>2, <2>3, EngineNext
<1>9. CASE Texts(g)!RemoveTemporary(p)
  <2>1. c.at = "clean" /\ c.cmd # "search"
    BY <1>0, <1>2, <1>9 DEF Texts!RemoveTemporary, Texts!Runs, Texts!Searches
  <2>2. PICK m \in c.cur :
          \/ c.rec # {} /\ Texts(g)!To(p, [c EXCEPT !.at = "save", !.plain = FALSE])
          \/ c.rec = {} /\ Texts(g)!To(p, [Texts(g)!Fails(c, m) EXCEPT !.plain = FALSE])
          \/ Texts(g)!To(p, Texts(g)!Fails(c, m))
    BY <1>0, <1>9 DEF Texts!RemoveTemporary
  <2>3. m \in Texts(g)!Messages
    BY <1>2 DEF Texts!Commands
  <2>4. CASE Texts(g)!To(p, [c EXCEPT !.at = "save", !.plain = FALSE])
    BY <1>0, <1>3, <2>1, <2>4, CleanNext
  <2> QED
    BY <1>5, <1>6, <2>1, <2>2, <2>3, <2>4
<1> QED
  BY <1>4, <1>7, <1>8, <1>9

\* A text is kept with the digest of what it was made from.
LEMMA SaveStep ==
  ASSUME NEW g \in TextScenes, Texts(g)!TextInv, NEW p \in g.procs, Texts(g)!Save(p)
  PROVE  Texts(g)!TextInv'
<1>0. PICK c : c = v4[p]
  OBVIOUS
<1>1. c.at = "save" /\ UNCHANGED Texts(g)!world
  BY <1>0 DEF Texts!Save
<1>2. Texts(g)!Runs(c, v2) /\ c \in Texts(g)!Commands
  BY <1>0, <1>1, CommandGood DEF Texts!Runs
<1>4. PICK m \in c.cur, r \in c.rec :
          \/ /\ v3' = [v3 EXCEPT ![m] = {r}]
             /\ Texts(g)!To(p, [c EXCEPT !.at = "load", !.missing = @ \ {m}, !.rec = {},
                                !.out = @ \cup {Texts(g)!Found(m, "made", r)}])
          \/ Texts(g)!To(p, Texts(g)!Fails(c, m)) /\ UNCHANGED v3
  BY <1>0 DEF Texts!Save
<1>5. m \in Texts(g)!Messages /\ r \in Texts(g)!Records /\ Texts(g)!Sound(r) /\ c.cmd # "search"
  BY <1>1, <1>2 DEF Texts!Commands, Texts!Runs, Texts!Searches
<1>3. Texts(g)!WorldInv'
  BY <1>1, <1>4, <1>5 DEF Texts!TextInv, Texts!WorldInv, Texts!world
<1>6. CASE Texts(g)!To(p, [c EXCEPT !.at = "load", !.missing = @ \ {m}, !.rec = {},
                                !.out = @ \cup {Texts(g)!Found(m, "made", r)}])
  BY <1>0, <1>1, <1>3, <1>6, SaveNext
<1>7. CASE Texts(g)!To(p, Texts(g)!Fails(c, m))
  <2>1. PICK plain \in BOOLEAN : plain = c.plain
    BY <1>2 DEF Texts!Commands
  <2>2. Texts(g)!Fails(c, m) = [Texts(g)!Fails(c, m) EXCEPT !.plain = plain]
    BY <1>2, <2>1 DEF Texts!Fails, Texts!Commands
  <2> QED
    BY <1>0, <1>1, <1>3, <1>5, <1>7, <2>2, FailNext
<1> QED
  BY <1>4, <1>6, <1>7

\* A command that is killed tells nothing.
LEMMA CrashStep ==
  ASSUME NEW g \in TextScenes, Texts(g)!TextInv, NEW p \in g.procs, Texts(g)!Crash(p)
  PROVE  Texts(g)!TextInv'
<1>1. Texts(g)!Good(Texts(g)!Killed, v2) /\ Texts(g)!To(p, Texts(g)!Killed)
      /\ UNCHANGED Texts(g)!world /\ Texts(g)!WorldInv'
  BY DEF Texts!Crash, Texts!Good, Texts!Killed, Texts!TextInv, Texts!WorldInv, Texts!world
<1> QED
  BY <1>1, CommandGoes

\* The world moves on: what the commands saw stays seen.
LEMMA TextWorldStep ==
  ASSUME NEW g \in TextScenes, Texts(g)!TextInv,
         Texts(g)!NewSnapshot \/ \E i \in g.images : Texts(g)!ImageChanges(i)
  PROVE  Texts(g)!TextInv'
<1>1. CASE Texts(g)!NewSnapshot
  <2>1. PICK s \in Texts(g)!Shots : v1' = Append(v1, s)
    BY <1>1 DEF Texts!NewSnapshot, Texts!Snapshots, Texts!Shots, Texts!Metas
  <2>2. Texts(g)!WorldInv'
    BY <1>1, <2>1 DEF Texts!NewSnapshot, Texts!TextInv, Texts!WorldInv
  <2> QED
    BY <1>1, <2>2 DEF Texts!NewSnapshot, Texts!TextInv
<1>2. ASSUME NEW i \in g.images, Texts(g)!ImageChanges(i) PROVE Texts(g)!TextInv'
  <2>1. PICK v \in 0 .. MaxVersions : v2' = [v2 EXCEPT ![i] = v]
    BY <1>2 DEF Texts!ImageChanges
  <2>6. v \in Nat
    BY TextsAssumption
  <2>2. Texts(g)!WorldInv'
    BY <1>2, <2>1, <2>6 DEF Texts!ImageChanges, Texts!TextInv, Texts!WorldInv
  <2>3. v4' = [p \in g.procs |-> IF v4[p].at \in {"idle", "done", "killed"} THEN v4[p]
                                 ELSE [v4[p] EXCEPT !.held = @ \cup {<<i, v>>}]]
    BY <1>2, <2>1, <2>6 DEF Texts!ImageChanges, Texts!TextInv, Texts!WorldInv
  <2>4. ASSUME NEW p \in g.procs PROVE Texts(g)!Good(v4'[p], v2')
    <3>1. PICK c : c = v4[p]
      OBVIOUS
    <3>2. CASE c.at \in {"idle", "killed"}
      <4>1. c \in {Texts(g)!Idle, Texts(g)!Killed} \/ Texts(g)!Runs(c, v2)
        BY <3>1 DEF Texts!TextInv, Texts!Good
      <4>2. ~Texts(g)!Runs(c, v2)
        BY <3>2 DEF Texts!Runs, Texts!Commands
      <4>3. v4'[p] = c
        BY <2>3, <3>1, <3>2
      <4> QED
        BY <4>1, <4>2, <4>3 DEF Texts!Good
    <3>3. CASE c.at = "done"
      <4>1. Texts(g)!Runs(c, v2) /\ v4'[p] = c
        BY <2>3, <3>1, <3>3, CommandGood
      <4> QED
        BY <3>3, <4>1 DEF Texts!Good, Texts!Runs, Texts!Holds
    <3>4. CASE c.at \notin {"idle", "killed", "done"}
      <4>1. Texts(g)!Runs(c, v2) /\ c \in Texts(g)!Commands
        BY <3>1, <3>4, CommandGood DEF Texts!Runs
      <4>2. PICK d : d = [c EXCEPT !.held = @ \cup {<<i, v>>}]
        OBVIOUS
      <4>3. d \in Texts(g)!Commands
        BY <4>1, <4>2, <2>1, <2>6 DEF Texts!Commands
      <4>4. /\ d.at = c.at /\ d.cmd = c.cmd /\ d.makes = c.makes /\ d.snap = c.snap
               /\ d.todo = c.todo
            /\ d.missing = c.missing /\ d.cur = c.cur /\ d.rec = c.rec /\ d.plain = c.plain
               /\ d.out = c.out
            /\ d.failed = c.failed /\ d.held = c.held \cup {<<i, v>>}
        BY <4>1, <4>2 DEF Texts!Commands
      <4>5. Texts(g)!Searches(d) /\ Texts(g)!Makes(d) /\ Texts(g)!Told(d) /\ Texts(g)!Left(d)
            /\ Texts(g)!Shown(d)
        BY <4>1, <4>4 DEF Texts!Searches, Texts!Makes, Texts!Told, Texts!Left, Texts!Shown,
           Texts!Runs
      <4>6. \A j \in g.images : <<j, v2'[j]>> \in d.held
        BY <2>1, <2>6, <3>4, <4>1, <4>4 DEF Texts!TextInv, Texts!WorldInv, Texts!Runs,
           Texts!Holds
      <4>7. Texts(g)!Holds(d, v2')
        BY <3>4, <4>1, <4>4, <4>6 DEF Texts!Runs, Texts!Holds
      <4>8. v4'[p] = d
        BY <2>3, <3>1, <3>4, <4>2
      <4> QED
        BY <4>1, <4>3, <4>4, <4>5, <4>7, <4>8 DEF Texts!Good, Texts!Runs
    <3> QED
      BY <3>2, <3>3, <3>4
  <2>5. v4' = [p \in g.procs |-> v4'[p]]
    BY <2>3
  <2> QED
    BY <2>2, <2>4, <2>5 DEF Texts!TextInv
<1> QED
  BY <1>1, <1>2

\* Every step.
LEMMA TextStep ==
  ASSUME NEW g \in TextScenes
  PROVE  Texts(g)!TextInv /\ [Texts(g)!Next]_(Texts(g)!vars) => Texts(g)!TextInv'
<1> SUFFICES ASSUME Texts(g)!TextInv, [Texts(g)!Next]_(Texts(g)!vars) PROVE Texts(g)!TextInv'
  OBVIOUS
<1>1. CASE UNCHANGED Texts(g)!vars
  BY <1>1 DEF Texts!vars, Texts!TextInv, Texts!WorldInv
<1>2. ASSUME NEW p \in g.procs, NEW m \in Texts(g)!Messages,
             \/ Texts(g)!ReadIndex(p, m) \/ Texts(g)!Vanished(p, m) \/ Texts(g)!LoadRecord(p, m) \/ Texts(g)!SearchRecord(p, m)
             \/ Texts(g)!WriteTemporary(p, m) \/ Texts(g)!NoPayload(p, m)
      PROVE  Texts(g)!TextInv'
  BY <1>2, RecordStep, MakeStep
<1>3. ASSUME NEW p \in g.procs,
             \/ Texts(g)!StartSearch(p) \/ \E makes \in BOOLEAN : Texts(g)!StartVoices(p, makes)
             \/ \E m \in Texts(g)!Messages, force \in BOOLEAN : Texts(g)!StartOne(p, m, force)
      PROVE  Texts(g)!TextInv'
  BY <1>3, CommandStarts
<1>4. ASSUME NEW p \in g.procs,
             Texts(g)!Verify(p) \/ Texts(g)!DeleteRecord(p) \/ Texts(g)!Show(p) \/ Texts(g)!NoEngine(p) \/ Texts(g)!Engine(p)
                               \/ Texts(g)!RemoveTemporary(p) \/ Texts(g)!Save(p) \/ Texts(g)!Crash(p)
      PROVE  Texts(g)!TextInv'
  BY <1>4, VerifyStep, DeleteStep, EndStep, MakeStep, SaveStep, CrashStep
<1> QED
  BY <1>1, <1>2, <1>3, <1>4, TextWorldStep DEF Texts!Next

\* What the invariant says of what is printed.
LEMMA TextSafe ==
  ASSUME NEW g \in TextScenes
  PROVE  Texts(g)!TextInv => Texts(g)!VerifiedIsCurrent /\ Texts(g)!SearchedInSnapshot
         /\ Texts(g)!PlaintextTold /\ Texts(g)!VoicesComplete
<1> SUFFICES ASSUME Texts(g)!TextInv, NEW p \in g.procs, v4[p].at \in {"load", "done"}
    PROVE /\ v4[p].at = "load" =>
               \A o \in v4[p].out : (o.m \in g.images /\ o.src \in {"verified", "made"}) => <<o.m, o.from>> \in v4[p].held
          /\ v4[p].cmd = "search" => \A o \in v4[p].out : \E x \in v4[p].snap[o.m] : x.meta = o.meta
          /\ (v4[p].at = "done" /\ v4[p].plain) => v4[p].failed
          /\ (v4[p].at = "done" /\ v4[p].cmd = "voices" /\ v4[p].makes /\ ~v4[p].failed) =>
                \A v \in g.voices : v4[p].snap[v] # {} => \E o \in v4[p].out : o.m = v
  BY DEF Texts!VerifiedIsCurrent, Texts!SearchedInSnapshot, Texts!PlaintextTold,
     Texts!VoicesComplete, Texts!Ended
<1>1. Texts(g)!Runs(v4[p], v2)
  BY CommandGood
<1>2. v4[p].at = "load" =>
        \A o \in v4[p].out : (o.m \in g.images /\ o.src \in {"verified", "made"}) => <<o.m, o.from>> \in v4[p].held
  BY <1>1 DEF Texts!Runs, Texts!Holds
<1>3. v4[p].cmd = "search" => \A o \in v4[p].out : \E x \in v4[p].snap[o.m] : x.meta = o.meta
  BY <1>1 DEF Texts!Runs, Texts!Searches
<1>4. (v4[p].at = "done" /\ v4[p].plain) => v4[p].failed
  BY <1>1 DEF Texts!Runs, Texts!Told
<1>5. (v4[p].at = "done" /\ v4[p].cmd = "voices" /\ v4[p].makes /\ ~v4[p].failed) =>
        \A v \in g.voices : v4[p].snap[v] # {} => \E o \in v4[p].out : o.m = v
  BY <1>1 DEF Texts!Runs, Texts!Left
<1> QED
  BY <1>2, <1>3, <1>4, <1>5

-----------------------------------------------------------------------------
(* The three together. *)

QueryInv ==
  /\ which = "cache" => \A g \in CacheScenes : scene = g => Cache(g)!CacheInv
  /\ which = "messages" => Lists!ListInv
  /\ which = "texts" => \A g \in TextScenes : scene = g => Texts(g)!TextInv

\* A scene stays what it is.
LEMMA QueryStarts == QueryInit => QueryInv
BY CacheInit, ListInit, TextInit DEF QueryInit, QueryInv

\* No step of any of the three modules leaves its invariant.
LEMMA QueryGoesOn == QueryInv /\ [QueryNext]_queryVars => QueryInv'
<1> SUFFICES ASSUME QueryInv, [QueryNext]_queryVars PROVE QueryInv'
  OBVIOUS
<1>1. which' = which /\ scene' = scene
  BY DEF QueryNext, queryVars
<1>2. ASSUME which = "cache", NEW g \in CacheScenes, scene = g PROVE Cache(g)!CacheInv'
  <2>1. Cache(g)!CacheInv
    BY <1>2 DEF QueryInv
  <2>2. CASE Cache(g)!Next
    BY <2>1, <2>2, CacheStep
  <2>3. CASE UNCHANGED queryVars
    BY <2>1, <2>3, CacheRests DEF queryVars
  <2> QED
    BY <1>2, <2>2, <2>3 DEF QueryNext
<1>3. ASSUME which = "messages" PROVE Lists!ListInv'
  <2>1. Lists!ListInv
    BY <1>3 DEF QueryInv
  <2>2. Lists!Next \/ UNCHANGED Lists!vars
    BY <1>3 DEF QueryNext, queryVars, Lists!vars
  <2> QED
    BY <2>1, <2>2, ListStep
<1>4. ASSUME which = "texts", NEW g \in TextScenes, scene = g PROVE Texts(g)!TextInv'
  <2>1. Texts(g)!TextInv
    BY <1>4 DEF QueryInv
  <2>2. Texts(g)!Next \/ UNCHANGED Texts(g)!vars
    BY <1>4 DEF QueryNext, queryVars, Texts!vars
  <2> QED
    BY <2>1, <2>2, TextStep
<1> QED
  BY <1>1, <1>2, <1>3, <1>4 DEF QueryInv

\* So it holds in every state.
LEMMA QueryInvHolds == QuerySpec => []QueryInv
BY QueryStarts, QueryGoesOn, PTL DEF QuerySpec

\* Whatever connections compute at once, and whatever is refreshed, indexed or
\* forgotten while they do: a client is never told anything older than its request,
\* and the cache agrees with itself (executeDaemonQuery, daemonCache).
THEOREM CacheIsTrue == QuerySpec => []CacheTrue
<1>1. QueryInv => CacheTrue
  BY CacheSafe DEF QueryInv, CacheTrue
<1> QED
  BY <1>1, QueryInvHolds, PTL

\* However the messages are spread over databases, and in whatever order these are
\* read or fail: a limited query shows what one over all of them would
\* (searchWindowEach, historyWindowWithIdentity, resultProbeLimit).
THEOREM LimitedQueriesAreTrue == QuerySpec => []QueriesTrue
<1>1. QueryInv => QueriesTrue
  BY SearchSafe, HistorySafe, MoreSafe DEF QueryInv, QueriesTrue
<1> QED
  BY <1>1, QueryInvHolds, PTL

\* However many commands work on however many images and voices, and are killed:
\* what is printed as verified is, a search that calls itself complete is, and no
\* file in the clear is left silently (runOCRRecognize, runVoiceSearch).
THEOREM TextsAreTrue == QuerySpec => []TextsTrue
<1>1. QueryInv => TextsTrue
  BY TextSafe DEF QueryInv, TextsTrue
<1> QED
  BY <1>1, QueryInvHolds, PTL

=============================================================================
