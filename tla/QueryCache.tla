---------------------------- MODULE QueryCache -----------------------------
(***************************************************************************)
(* How the query daemon answers: executeDaemonQuery, the cache key and its *)
(* binding, and the bounded LRU the connections share.  A connection       *)
(* handler takes no account lock, so between any two of its steps other    *)
(* commands may refresh, index or forget the account and the day may end.  *)
(*                                                                         *)
(* The generations of an account are numbered as they are committed.  The  *)
(* commands that make them are those of Generations, here reduced to what  *)
(* a query sees: generations above lost[a] exist, the last is current.     *)
(* A connection is used again once it is answered: the model bounds how    *)
(* many requests are served at once, not how many there are.               *)
(***************************************************************************)
EXTENDS Integers, Sequences, FiniteSetsExt

CONSTANTS
  Accounts,     \* accounts that may be initialised
  Conns,        \* connections served at the same time
  Requests,     \* what clients ask
  Sizes,        \* lengths of a response, without the index and through it
  MaxResponse,  \* maxDaemonResponseBytes
  MaxEntries,   \* maxDaemonCacheEntries
  MaxBytes,     \* maxDaemonCacheBytes
  Forgettable,  \* the accounts a forget may delete (a bound)
  MaxVersion,   \* bound on the generations of each account
  Day,          \* ticks of the clock in a day
  MaxClock      \* bound on the clock

\* A request is [inferred, actual, window]: its account is inferred from its
\* arguments for the key and parsed from them again by the command, and the two
\* may differ.

VARIABLES
  clock,   \* the time; DayOf(clock) is the local date
  last,    \* the last generation committed for each account
  lost,    \* the last one a forget deleted
  built,   \* the generations that have a valid index
  cache,   \* the entries, the most recently used first
  bytes,   \* the sum the cache keeps of their sizes
  conn,    \* what each connection is doing
  reply    \* the response the last step wrote, and its request; else NoReply

vars == <<clock, last, lost, built, cache, bytes, conn, reply>>

DayOf(t) == t \div Day
Current(a) == IF last[a] > lost[a] THEN last[a] ELSE 0

NoKey == [version |-> 0]
NoAnswer == [version |-> 0]
NoReply == [answer |-> NoAnswer]
Free == [at |-> "free"]

Init ==
  /\ clock = 0
  /\ last = [a \in Accounts |-> 1] /\ lost = [a \in Accounts |-> 0]
  /\ built = {}
  /\ cache = <<>> /\ bytes = 0
  /\ conn = [c \in Conns |-> Free]
  /\ reply = NoReply

----------------------------------------------------------------------------
(* The other commands and the clock. *)

\* A setup or refresh commits a generation, after it tried to index it.
Refresh(a) ==
  /\ last[a] < MaxVersion[a]
  /\ last' = [last EXCEPT ![a] = @ + 1]
  /\ \E indexed \in SUBSET {<<a, last[a] + 1>>} : built' = built \union indexed
  /\ UNCHANGED <<clock, lost, cache, bytes, conn>> /\ reply' = NoReply

\* An index is built once for a generation; a valid one is never built anew.
BuildIndex(a) ==
  /\ Current(a) # 0
  /\ <<a, last[a]>> \notin built
  /\ built' = built \union {<<a, last[a]>>}
  /\ UNCHANGED <<clock, last, lost, cache, bytes, conn>> /\ reply' = NoReply

Forget(a) ==
  /\ a \in Forgettable
  /\ Current(a) # 0
  /\ lost' = [lost EXCEPT ![a] = last[a]]
  /\ built' = {i \in built : i[1] # a}
  /\ UNCHANGED <<clock, last, cache, bytes, conn>> /\ reply' = NoReply

Tick ==
  /\ clock < MaxClock
  /\ clock' = clock + 1
  /\ UNCHANGED <<last, lost, built, cache, bytes, conn>> /\ reply' = NoReply

----------------------------------------------------------------------------
(* The cache.  Each operation is one critical section of its mutex. *)

Positions(key) == {i \in DOMAIN cache : cache[i].key = key}
Found(key) == Positions(key) # {}
Position(key) == CHOOSE i \in Positions(key) : TRUE
Entry(key) == cache[Position(key)]

\* The list without the element of that key, if there is one.
Others(key) ==
  IF ~Found(key) THEN cache
  ELSE SubSeq(cache, 1, Position(key) - 1) \o SubSeq(cache, Position(key) + 1, Len(cache))

\* The sum of the sizes.  No two entries have one key, and their bytes are told
\* apart by it.
Bytes(entries) == UNION {{entries[i].key} \X (1 .. entries[i].size) : i \in DOMAIN entries}
TotalSize(entries) == Cardinality(Bytes(entries))

\* The entries the eviction loop leaves, and the sum it leaves with them.
Evict(entries, sum) ==
  LET Sum(n) == sum - TotalSize(SubSeq(entries, n + 1, Len(entries)))
      kept == Max({0} \union {n \in 1..Len(entries) : n <= MaxEntries /\ Sum(n) <= MaxBytes})
  IN  [entries |-> SubSeq(entries, 1, kept), bytes |-> Sum(kept)]

\* Fault: a put that does not subtract the size of the entry it replaces.
PutCountsTwice(key, answer) ==
  LET entry == [key |-> key, answer |-> answer, size |-> answer.size]
      front == <<entry>> \o Others(key)
      after == IF Found(key)
               THEN [entries |-> front, bytes |-> bytes + answer.size]
               ELSE Evict(front, bytes + answer.size)
  IN  cache' = after.entries /\ bytes' = after.bytes

\* put: an entry that exists is replaced in place, without the eviction loop.
Put(key, answer) ==
  LET entry == [key |-> key, answer |-> answer, size |-> answer.size]
      front == <<entry>> \o Others(key)
      after == IF Found(key)
               THEN [entries |-> front, bytes |-> bytes - Entry(key).size + answer.size]
               ELSE Evict(front, bytes + answer.size)
  IN  cache' = after.entries /\ bytes' = after.bytes

----------------------------------------------------------------------------
(* The handler of a connection. *)

\* A handler goes on, or it writes its response and the connection is closed.
Goto(c, from, to) ==
  /\ conn[c].at = from
  /\ conn' = [conn EXCEPT ![c] = to]
  /\ reply' = NoReply

\* writeDaemonResponse: what does not fit the limit once encoded is an error.
Delivered(answer) == IF answer.size < MaxResponse THEN answer ELSE NoAnswer

Reply(c, from, answer) ==
  /\ conn[c].at = from
  /\ conn' = [conn EXCEPT ![c] = Free]
  /\ reply' = [req |-> conn[c].req, since |-> conn[c].since, answer |-> answer]

\* A dated window depends on the date, a moving one on the time.
Moment(r) == IF r.window = "moving" THEN clock ELSE DayOf(clock)

\* What holds when the request's account is resolved for the key.
Since(r) ==
  [version |-> IF Current(r.actual) = 0 THEN last[r.actual] + 1 ELSE last[r.actual],
   indexed |-> <<r.actual, Current(r.actual)>> \in built,
   time |-> Moment(r)]

\* A request is read, and daemonCacheKey resolves the account it infers: a
\* window that moves with the clock and an account that is not initialised have
\* no key.
Accept(c, r) ==
  /\ LET v == Current(r.inferred)
     IN  Goto(c, "free",
              IF r.window = "moving" \/ v = 0
              THEN [at |-> "missed", req |-> r, since |-> Since(r), key |-> NoKey]
              ELSE [at |-> "bound", req |-> r, since |-> Since(r), version |-> v])
  /\ UNCHANGED <<clock, last, lost, built, cache, bytes>>

\* Fault: a key that leaves the index out.
KeyWithoutIndex(c) ==
  [version |-> conn[c].version, req |-> conn[c].req, day |-> DayOf(clock)]

\* The rest of daemonCacheKey: what the index is now, and the date.
KeyOf(c) ==
  [version |-> conn[c].version, req |-> conn[c].req,
   indexed |-> <<conn[c].req.inferred, conn[c].version>> \in built,
   day |-> DayOf(clock)]

BindIndex(c) ==
  /\ conn[c].at = "bound"
  /\ Goto(c, "bound", [at |-> "keyed", req |-> conn[c].req, since |-> conn[c].since, key |-> KeyOf(c)])
  /\ UNCHANGED <<clock, last, lost, built, cache, bytes>>

Hit(c) ==
  /\ conn[c].at = "keyed" /\ Found(conn[c].key)
  /\ LET entry == Entry(conn[c].key)
     IN  /\ Reply(c, "keyed", Delivered(entry.answer))
         /\ cache' = <<entry>> \o Others(entry.key)
  /\ UNCHANGED <<clock, last, lost, built, bytes>>

Miss(c) ==
  /\ conn[c].at = "keyed" /\ ~Found(conn[c].key)
  /\ Goto(c, "keyed", [at |-> "missed", req |-> conn[c].req, since |-> conn[c].since, key |-> conn[c].key])
  /\ UNCHANGED <<clock, last, lost, built, cache, bytes>>

\* The command itself: it resolves its account, and then fixes its window and
\* reads the snapshot, through the index when that is valid.
Resolve(c) ==
  /\ conn[c].at = "missed"
  /\ LET v == Current(conn[c].req.actual)
     IN  IF v = 0
         THEN Reply(c, "missed", NoAnswer)
         ELSE Goto(c, "missed", [at |-> "resolved", req |-> conn[c].req, since |-> conn[c].since, key |-> conn[c].key, version |-> v])
  /\ UNCHANGED <<clock, last, lost, built, cache, bytes>>

Execute(c) ==
  /\ conn[c].at = "resolved"
  /\ conn[c].version > lost[conn[c].req.actual]
  /\ LET r == conn[c].req
         indexed == <<r.actual, conn[c].version>> \in built
     IN  \E size \in Sizes[indexed] :
           Goto(c, "resolved",
                [at |-> "executed", req |-> r, since |-> conn[c].since, key |-> conn[c].key,
                 answer |-> [account |-> r.actual, version |-> conn[c].version,
                             indexed |-> indexed, size |-> size,
                             time |-> Moment(r)]])
  /\ UNCHANGED <<clock, last, lost, built, cache, bytes>>

\* The command fails: the snapshot was deleted, or any other error.
Fail(c) ==
  /\ Reply(c, "resolved", NoAnswer)
  /\ UNCHANGED <<clock, last, lost, built, cache, bytes>>

\* Fault: the generation a response tells of is not compared with the key's.
MatchesAlways(key, answer) == TRUE

\* daemonResponseMatchesBinding: the generation the response tells of is the
\* one the key is bound to.  Identifiers of two accounts never coincide.
Matches(key, answer) ==
  /\ key.version = answer.version
  /\ key.req.inferred = answer.account

Cacheable(key, answer) ==
  /\ key # NoKey
  /\ answer.size <= MaxResponse
  /\ Matches(key, answer)

Store(c) ==
  /\ conn[c].at = "executed"
  /\ LET key == conn[c].key
         answer == conn[c].answer
     IN  /\ Reply(c, "executed", Delivered(answer))
         /\ IF Cacheable(key, answer) THEN Put(key, answer) ELSE UNCHANGED <<cache, bytes>>
  /\ UNCHANGED <<clock, last, lost, built>>

----------------------------------------------------------------------------
World(a) == Refresh(a) \/ BuildIndex(a) \/ Forget(a)

Serve(c) ==
  \/ \E r \in Requests : Accept(c, r)
  \/ BindIndex(c) \/ Hit(c) \/ Miss(c)
  \/ Resolve(c) \/ Execute(c) \/ Fail(c) \/ Store(c)

Next ==
  \/ Tick
  \/ \E a \in Accounts : World(a)
  \/ \E c \in Conns : Serve(c)

Spec == Init /\ [][Next]_vars

----------------------------------------------------------------------------
Keys == [version: Nat, req: Requests, indexed: BOOLEAN, day: 0..DayOf(MaxClock)]
Answers == [account: Accounts, version: Nat, indexed: BOOLEAN,
            time: 0..MaxClock, size: Nat]

\* Every variable has its type; a response that is kept fits the limit.
TypeOK ==
  /\ clock \in 0..MaxClock
  /\ last \in [Accounts -> Nat] /\ lost \in [Accounts -> Nat]
  /\ built \subseteq Accounts \X Nat
  /\ bytes \in Nat
  /\ \A i \in DOMAIN cache :
       /\ cache[i].key \in Keys /\ cache[i].answer \in Answers
       /\ cache[i].size = cache[i].answer.size /\ cache[i].size <= MaxResponse
  /\ \A c \in Conns :
       /\ conn[c].at \in {"free", "bound", "keyed", "missed", "resolved", "executed"}
       /\ conn[c].at # "free" => conn[c].req \in Requests
       /\ conn[c].at = "keyed" => conn[c].key \in Keys
       /\ conn[c].at \in {"missed", "resolved", "executed"} => conn[c].key \in Keys \union {NoKey}
       /\ conn[c].at = "executed" => conn[c].answer \in Answers
  /\ reply.answer \in Answers \union {NoAnswer}

\* What a client is told is never older than its request: a cached response is
\* of the account the command would read, of a generation that was current when
\* the account was resolved for the key or later, through the index if that was
\* valid then (and no forget removed it since), and of that day
\* (references/inbox-index-daemon.md:40: a result is not hit once the generation,
\* the digest or the availability of the index has changed).
AnswersFresh ==
  reply.answer # NoAnswer =>
    LET r == reply.req
        told == reply.answer
        since == reply.since
    IN  /\ told.account = r.actual
        /\ told.version >= since.version
        /\ (told.version = since.version /\ since.indexed /\ told.version > lost[r.actual])
             => told.indexed
        /\ told.time >= since.time

\* The map, the list and the byte count of the cache agree after any order of
\* concurrent puts: a key has one entry, the count is the sum of the sizes, and
\* there are no more entries than maxDaemonCacheEntries.  (The count may pass
\* maxDaemonCacheBytes: the second of two connections that compute one key at once
\* may replace a response by a longer one, and that put does not evict.)
CacheConsistent ==
  /\ \A i, j \in DOMAIN cache : cache[i].key = cache[j].key => i = j
  /\ bytes = TotalSize(cache)
  /\ Len(cache) <= MaxEntries

----------------------------------------------------------------------------
(* The invariant these follow from: what each phase of a request knows, so *)
(* that a response kept under a key is as good as one that is made anew.   *)

Sinces == [version: Nat, indexed: BOOLEAN, time: Nat]

\* What is kept under a key.
Suits(key, answer) ==
  /\ answer.version = key.version
  /\ key.req.inferred = answer.account /\ key.req.actual = answer.account
  /\ key.req.window = "dated" /\ answer.time >= key.day
  /\ key.indexed => answer.indexed

Entries ==
  {e \in [key: Keys, answer: Answers, size: 0..MaxResponse] :
     e.size = e.answer.size /\ Suits(e.key, e.answer)}

Distinct(entries) == \A i, j \in DOMAIN entries : entries[i].key = entries[j].key => i = j

ListOK == cache \in Seq(Entries) /\ Distinct(cache)
BookOK == ListOK /\ bytes = TotalSize(cache) /\ Len(cache) <= MaxEntries

WorldOK ==
  /\ clock \in 0..MaxClock
  /\ last \in [Accounts -> Nat] /\ lost \in [Accounts -> Nat]
  /\ built \in SUBSET (Accounts \X Nat)
  /\ \A a \in Accounts : lost[a] <= last[a]
  /\ \A i \in built : lost[i[1]] < i[2] /\ i[2] <= last[i[1]]

\* What held when the request was read: an account that was not there has not got
\* more than its next generation since.
SinceOK(s, r) ==
  /\ s.version > last[r.actual] => s.version = last[r.actual] + 1 /\ lost[r.actual] = last[r.actual]
  /\ s.indexed => s.version <= last[r.actual]
  /\ s.indexed /\ s.version > lost[r.actual] => <<r.actual, s.version>> \in built
  /\ s.time <= Moment(r)

BoundOK(s, r, v) ==
  /\ v \in Nat /\ 1 <= v /\ v <= last[r.inferred]
  /\ r.window = "dated"
  /\ r.inferred = r.actual => v = s.version

\* A key tells of an index that was valid, and still is unless it was forgotten.
KeyOK(s, r, k) ==
  /\ k \in Keys /\ k.req = r /\ 1 <= k.version /\ r.window = "dated"
  /\ k.version <= last[r.inferred]
  /\ k.indexed /\ k.version > lost[r.inferred] => <<r.inferred, k.version>> \in built
  /\ s.time <= k.day /\ k.day <= DayOf(clock)
  /\ r.inferred = r.actual => /\ k.version = s.version
                              /\ s.indexed /\ s.version > lost[r.actual] => k.indexed

Fresh(s, r, t) ==
  /\ t.account = r.actual
  /\ t.version >= s.version
  /\ (t.version = s.version /\ s.indexed /\ t.version > lost[r.actual]) => t.indexed
  /\ t.time >= s.time

\* An answer that matches the key was made after it.
Follows(k, t) == t.time >= k.day /\ (Matches(k, t) /\ k.indexed => t.indexed)

ConnOK(d) ==
  /\ d.at \in {"free", "bound", "keyed", "missed", "resolved", "executed"}
  /\ d.at # "free" => d.req \in Requests /\ d.since \in Sinces /\ SinceOK(d.since, d.req)
  /\ d.at = "bound" => BoundOK(d.since, d.req, d.version)
  /\ d.at = "keyed" => KeyOK(d.since, d.req, d.key)
  /\ d.at \in {"missed", "resolved", "executed"} => d.key = NoKey \/ KeyOK(d.since, d.req, d.key)
  /\ d.at = "resolved" => d.version \in Nat /\ d.since.version <= d.version
  /\ d.at = "executed" => /\ d.answer \in Answers /\ Fresh(d.since, d.req, d.answer)
                          /\ d.key = NoKey \/ Follows(d.key, d.answer)

ReplyOK ==
  /\ reply.answer \in Answers \union {NoAnswer}
  /\ reply.answer # NoAnswer => Fresh(reply.since, reply.req, reply.answer)

CacheInv == WorldOK /\ BookOK /\ (DOMAIN conn = Conns /\ \A c \in Conns : ConnOK(conn[c])) /\ ReplyOK

\* How the accounts, their indexes and the time go on while a request is served.
Grows ==
  /\ clock <= clock'
  /\ \A a \in Accounts : \/ last'[a] = last[a] /\ lost'[a] = lost[a]
                         \/ last'[a] = last[a] + 1 /\ lost'[a] = lost[a]
                         \/ last'[a] = last[a] /\ lost[a] < last[a] /\ lost'[a] = last[a]
  /\ \A a \in Accounts, v \in Nat : <<a, v>> \in built /\ v > lost'[a] => <<a, v>> \in built'
=============================================================================
