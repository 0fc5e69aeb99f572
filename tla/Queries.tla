------------------------------ MODULE Queries ------------------------------
(***************************************************************************)
(* What reads a published snapshot and keeps something of it: the cache of *)
(* the query daemon, the messages a query takes from several databases,    *)
(* and the texts made of images and voices.  A behaviour is of one module, *)
(* and of one scene of it: the accounts and queries the cache serves, or   *)
(* the commands, images and voices there are.                              *)
(***************************************************************************)
EXTENDS Naturals, FiniteSets

CONSTANTS
  CacheScenes,  \* [accounts, requests, forgettable, maxversion, maxclock]
  Conns,        \* connections served at the same time
  Sizes,        \* lengths of a response, without the index and through it
  MaxResponse,  \* maxDaemonResponseBytes
  MaxEntries,   \* maxDaemonCacheEntries
  MaxBytes,     \* maxDaemonCacheBytes
  Day,          \* ticks of the clock in a day
  Shards,       \* message databases of a snapshot
  AllMessages,  \* its messages, [shard, id, time, seq]
  MaxLimit,     \* bound: the largest --limit asked for
  TextScenes,   \* [procs, images, voices]
  MaxSnaps,     \* bound on published snapshots
  MaxVersions   \* bound on the versions of an image

VARIABLES
  which,   \* the module this behaviour is of
  scene,   \* its scene
  v1, v2, v3, v4, v5, v6, v7, v8  \* its variables, in the order of its vars

queryVars == <<which, scene, v1, v2, v3, v4, v5, v6, v7, v8>>

Cache(g) == INSTANCE QueryCache WITH
  Accounts <- g.accounts, Requests <- g.requests, Forgettable <- g.forgettable,
  MaxVersion <- g.maxversion, MaxClock <- g.maxclock,
  clock <- v1, last <- v2, lost <- v3, built <- v4, cache <- v5, bytes <- v6,
  conn <- v7, reply <- v8

Lists == INSTANCE MessageQueries WITH
  Messages <- AllMessages,
  mode <- v1, limit <- v2, hits <- v3, kept <- v4, state <- v5, pending <- v6,
  told <- v7

Texts(g) == INSTANCE DerivedText WITH
  Procs <- g.procs, Images <- g.images, Voices <- g.voices,
  snaps <- v1, source <- v2, cache <- v3, proc <- v4

-----------------------------------------------------------------------------
\* A request names the account its key is inferred for and the one the command
\* reads (daemonCacheKey); a response has a length.
ASSUME CacheAssumption ==
  /\ \A g \in CacheScenes :
       /\ g.requests \subseteq [inferred : g.accounts, actual : g.accounts, window : {"dated", "moving"}]
       /\ g.maxclock \in Nat
  /\ Sizes \in [BOOLEAN -> SUBSET Nat]
  /\ {MaxResponse, MaxEntries, MaxBytes} \subseteq Nat
  /\ Day \in Nat \ {0}

\* A snapshot has finitely many messages.  Two of one identity that sort alike are
\* one message: EvidenceID is the chat and the identifier WeChat's server or this
\* database gave it (store.go).
ASSUME MessagesAssumption ==
  /\ AllMessages \subseteq [shard : Shards, id : Nat, time : Nat, seq : Nat]
  /\ IsFiniteSet(AllMessages)
  /\ \A m, n \in AllMessages : m.id = n.id /\ Lists!SortKey(m) = Lists!SortKey(n) => m = n
  /\ MaxLimit \in Nat

ASSUME TextsAssumption == MaxVersions \in Nat

-----------------------------------------------------------------------------
\* What the variables hold that a module has no use for.
None == "none"

QueryInit ==
  \/ which = "cache" /\ \E g \in CacheScenes : scene = g /\ Cache(g)!Init
  \/ which = "messages" /\ scene = None /\ Lists!Init /\ v8 = None
  \/ which = "texts" /\ (\E g \in TextScenes : scene = g /\ Texts(g)!Init)
     /\ v5 = None /\ v6 = None /\ v7 = None /\ v8 = None

QueryNext ==
  /\ UNCHANGED <<which, scene>>
  /\ \/ which = "cache" /\ \E g \in CacheScenes : scene = g /\ Cache(g)!Next
     \/ which = "messages" /\ Lists!Next /\ UNCHANGED v8
     \/ which = "texts" /\ (\E g \in TextScenes : scene = g /\ Texts(g)!Next)
        /\ UNCHANGED <<v5, v6, v7, v8>>

QuerySpec == QueryInit /\ [][QueryNext]_queryVars

-----------------------------------------------------------------------------
\* What the daemon tells a client is never older than its request and is of the
\* account the command reads, and the map, the list and the byte count of its cache
\* agree, whatever connections compute at once (executeDaemonQuery, daemonCache).
CacheTrue ==
  which = "cache" => \A g \in CacheScenes : scene = g =>
    Cache(g)!TypeOK /\ Cache(g)!AnswersFresh /\ Cache(g)!CacheConsistent

\* A limited query over several databases shows what one over all of them would:
\* the newest hits of a search, the latest of a history, and whether there are more
\* (searchWindowEach, historyWindowWithIdentity, resultProbeLimit).
QueriesTrue ==
  which = "messages" =>
    Lists!SearchShowsNewest /\ Lists!HistoryShowsLatest /\ Lists!MoreIsTrue

\* A text that is printed belongs to a message of the snapshot and, when it is said
\* to be verified, to the image there was; a search of voices that calls itself
\* complete is; and no file in the clear is left behind silently (runOCRRecognize,
\* runOCRSearch, runVoiceSearch, recognizeTemporaryChatImage).
TextsTrue ==
  which = "texts" => \A g \in TextScenes : scene = g =>
    /\ Texts(g)!VerifiedIsCurrent /\ Texts(g)!SearchedInSnapshot
    /\ Texts(g)!PlaintextTold /\ Texts(g)!VoicesComplete
=============================================================================
