--------------------------- MODULE MessageQueries ---------------------------
(***************************************************************************)
(* history, search and export over the message databases of one snapshot   *)
(* (store/store.go HistoryWindow, SearchWindow, StreamExportWindow, and    *)
(* app/app.go runHistory, runSearch, runExport).  The messages of a chat   *)
(* are spread over several databases, which are read one after another;    *)
(* each may be unreadable or lack the columns the query needs.             *)
(*                                                                         *)
(* A message is a record of its database, its identity, the time it was    *)
(* sent and the sort sequence WeChat gave it, 0 when it gave none.  One    *)
(* unit of time stands for one step of the sort sequence.                  *)
(***************************************************************************)
EXTENDS Naturals, FiniteSets

CONSTANTS
    Shards,         \* message databases of the snapshot
    Messages,       \* messages, [shard, id, time, seq]
    MaxLimit        \* bound: the largest --limit asked for

VARIABLES
    mode,           \* "history", "search", or "export" for one without a limit
    limit,          \* --limit of the call, 0 for no limit
    hits,           \* messages of the shards that answered
    kept,           \* messages the query holds
    state,          \* Shards -> "unread", "read", "skipped" or "failed"
    pending,        \* messages of the open shard not yet looked at
    told            \* the answer, or Waiting

vars == <<mode, limit, hits, kept, state, pending, told>>

Waiting == [kind |-> "waiting", items |-> {}, more |-> FALSE]

SortKey(m) == IF m.seq = 0 THEN m.time ELSE m.seq

\* messageNewer, the order of a search
Newer(m, n) ==
    \/ m.time > n.time
    \/ m.time = n.time /\ SortKey(m) > SortKey(n)
    \/ m.time = n.time /\ SortKey(m) = SortKey(n) /\ m.id > n.id

\* the order of a history, and of what an export writes
Later(m, n) ==
    \/ SortKey(m) > SortKey(n)
    \/ SortKey(m) = SortKey(n) /\ m.id > n.id

Init ==
    /\ mode \in {"history", "search", "export"}
    /\ limit \in IF mode = "export" THEN {0} ELSE 0..MaxLimit
    /\ hits = {} /\ kept = {} /\ pending = {}
    /\ state = [s \in Shards |-> "unread"]
    /\ told = Waiting

\* Fault: exactly as many messages are asked for as are to be shown.
ProbeExact == limit

\* resultProbeLimit: one more than is shown tells whether there are more.
Probe == IF limit = 0 THEN 0 ELSE limit + 1

Idle == told = Waiting /\ pending = {}

\* A database that does not open is passed over; one whose table lacks a
\* column fails the query of that database.
Pass(s) ==
    /\ Idle /\ state[s] = "unread"
    /\ \E end \in {"skipped", "failed"} : state' = [state EXCEPT ![s] = end]
    /\ UNCHANGED <<mode, limit, hits, kept, pending, told>>

\* Fault: the rows of a database come oldest first.
Earliest(rows, n) ==
    {top \in SUBSET rows : /\ Cardinality(top) = n
                           /\ \A m \in top, o \in rows \ top : m.seq <= o.seq}

\* The rows of one database by its own order: the sort sequence alone, equal
\* ones as the database pleases.
Leading(rows, n) ==
    {top \in SUBSET rows : /\ Cardinality(top) = n
                           /\ \A m \in top, o \in rows \ top : m.seq >= o.seq}

\* messageQuery for a history: the limit is part of the SQL of each database.
ReadHistory(s) ==
    /\ Idle /\ mode = "history" /\ state[s] = "unread"
    /\ state' = [state EXCEPT ![s] = "read"]
    /\ \E rows \in SUBSET {m \in Messages : m.shard = s} :
         /\ hits' = hits \cup rows
         /\ IF Probe = 0 \/ Cardinality(rows) <= Probe THEN kept' = kept \cup rows
            ELSE \E top \in Leading(rows, Probe) : kept' = kept \cup top
    /\ UNCHANGED <<mode, limit, pending, told>>

\* messageQueryEach for a search or an export: every row that matches is handed
\* on, in no order that matters to the result.
OpenStream(s) ==
    /\ Idle /\ mode # "history" /\ state[s] = "unread"
    /\ state' = [state EXCEPT ![s] = "read"]
    /\ \E rows \in SUBSET {m \in Messages : m.shard = s} :
         /\ hits' = hits \cup rows
         /\ pending' = rows
    /\ UNCHANGED <<mode, limit, kept, told>>

\* The scan of a database breaks off: what it has handed on stays.
BreakOff(s) ==
    /\ \E m \in pending : m.shard = s
    /\ state' = [state EXCEPT ![s] = "failed"]
    /\ hits' = hits \ pending /\ pending' = {}
    /\ UNCHANGED <<mode, limit, kept, told>>

\* Fault: the newest of the retained hits is the one that is given up.
Newest(m) == \A n \in kept : n = m \/ Newer(m, n)

\* The root of oldestMessageHeap.
Oldest(m) == \A n \in kept : n = m \/ Newer(n, m)

\* boundedSearchResults.emit: the heap keeps Probe messages.
Emit(m) ==
    /\ mode = "search" /\ m \in pending
    /\ pending' = pending \ {m}
    /\ IF Probe = 0 \/ Cardinality(kept) < Probe THEN kept' = kept \cup {m}
       ELSE \E o \in kept : /\ Oldest(o)
                            /\ kept' = IF Newer(m, o) THEN (kept \ {o}) \cup {m} ELSE kept
    /\ UNCHANGED <<mode, limit, hits, state, told>>

\* Fault: a row whose sort key is there already is taken for the same one.
InsertByKey(m) ==
    /\ mode = "export" /\ m \in pending
    /\ pending' = pending \ {m}
    /\ kept' = IF \E n \in kept : SortKey(n) = SortKey(m) THEN kept ELSE kept \cup {m}
    /\ UNCHANGED <<mode, limit, hits, state, told>>

\* StreamExportWindow puts every row into a table of its own, from which the
\* output is written in the order Later.
Insert(m) ==
    /\ mode = "export" /\ m \in pending
    /\ pending' = pending \ {m} /\ kept' = kept \cup {m}
    /\ UNCHANGED <<mode, limit, hits, state, told>>

Before(m, n) == IF mode = "history" THEN Later(m, n) ELSE Newer(m, n)

Ahead(m) == {o \in kept : Before(o, m)}

\* The n first messages of what is kept.
Cut(n) == {m \in kept : Cardinality(Ahead(m)) < n}

\* The merged messages are ordered and cut, to Probe by the store and to the
\* limit by truncateMessages.  The query fails only if every database that
\* has the chat failed, and a search of all chats passes over those chats.
AllFailed ==
    /\ \E s \in Shards : state[s] = "failed"
    /\ \A s \in Shards : state[s] # "read"

Finish ==
    /\ Idle /\ \A s \in Shards : state[s] # "unread"
    /\ \E allChats \in BOOLEAN : told' =
         IF AllFailed /\ ~(mode # "history" /\ allChats)
           THEN [Waiting EXCEPT !.kind = "failed"]
         ELSE IF limit = 0 THEN [kind |-> "items", items |-> kept, more |-> FALSE]
         ELSE [kind |-> "items", items |-> Cut(limit), more |-> Cardinality(Cut(Probe)) > limit]
    /\ UNCHANGED <<mode, limit, hits, kept, state, pending>>

Next ==
    \/ Finish
    \/ \E s \in Shards : Pass(s) \/ ReadHistory(s) \/ OpenStream(s) \/ BreakOff(s)
    \/ \E m \in Messages : Emit(m) \/ Insert(m)

Spec == Init /\ [][Next]_vars

----------------------------------------------------------------------------
Answered == told.kind = "items"

\* A search shows the newest of all messages it has read, in whatever order the
\* databases and their rows came and wherever a scan broke off, and an export
\* without a limit writes them all (boundedSearchResults, StreamExportWindow).
SearchShowsNewest ==
    Answered /\ mode # "history" =>
        /\ told.items \subseteq hits
        /\ \A m \in told.items, o \in hits \ told.items : Newer(m, o)
        /\ limit = 0 => told.items = hits

\* A history cut database by database shows the same messages as one that is
\* cut once, up to the order of equal sort keys.  This needs WeChat to have
\* given every message a sort sequence: one without sorts by its time here
\* and last in its database (messageQueryEach, ORDER BY sort_seq).
HistoryShowsLatest ==
    Answered /\ mode = "history" /\ (\A m \in hits : m.seq > 0) =>
        \A m \in told.items, o \in hits \ told.items : SortKey(m) >= SortKey(o)

\* has_more and truncated say whether messages were left out, and nothing is
\* left out below the limit.
MoreIsTrue ==
    Answered => /\ told.more <=> told.items # hits
                /\ told.more => Cardinality(told.items) = limit

----------------------------------------------------------------------------
\* The invariant these follow from: what was read and is not kept is outranked by
\* as many messages as are asked for.

Outranks(x, o) == IF mode = "search" THEN Newer(x, o) ELSE x.seq >= o.seq

ListInv ==
    /\ mode \in {"history", "search", "export"}
    /\ limit \in 0 .. MaxLimit /\ (mode = "export" => limit = 0)
    /\ state \in [Shards -> {"unread", "read", "skipped", "failed"}]
    /\ hits \subseteq Messages /\ pending \subseteq hits /\ kept \subseteq hits \ pending
    /\ \A m \in hits : state[m.shard] # "unread"
    /\ limit = 0 => kept = hits \ pending
    /\ limit # 0 => \A o \in (hits \ pending) \ kept :
         \E T \in SUBSET kept : Cardinality(T) = Probe /\ \A x \in T : Outranks(x, o)
    /\ limit # 0 /\ mode = "search" => Cardinality(kept) <= Probe
    /\ told # Waiting => pending = {}
    /\ Answered => IF limit = 0 THEN told.items = kept /\ told.more = FALSE
                   ELSE told.items = Cut(limit) /\ told.more = (Cardinality(Cut(Probe)) > limit)
=============================================================================
