------------------------------- MODULE Inbox -------------------------------
(***************************************************************************)
(* The incremental consumers of new-messages.  A consumer's cursor names   *)
(* the generation it has read completely (base), the one it is reading     *)
(* (target), the last confirmed position in it and the batch delivered but *)
(* not acknowledged.  A poll stores the batch before it prints it, prints  *)
(* a stored one again, and only the acknowledgement of that very batch     *)
(* moves the position.  Batches are read from the derived indexes of the   *)
(* two generations, which collections keep while a cursor names them.      *)
(*                                                                         *)
(* Every operation runs under the account lock, so each is one step here   *)
(* except for the two parts of PollOrCreate; refresh is the whole          *)
(* publication of module Generations.  A save of the cursor leaves the two *)
(* files in one of the outcomes module RecordFile derives.  A message is   *)
(* its rank in the order (timestamp, sort key, evidence id), its content a *)
(* version, Absent when a generation does not hold it.                     *)
(***************************************************************************)
EXTENDS Naturals, FiniteSets

CONSTANTS
  Consumers,     \* names of consumers
  Workers,       \* client processes; several may share a consumer
  NumMessages,   \* messages there may be
  Versions,      \* contents a message may have
  Absent,        \* the content of a message a generation does not hold
  Documents,     \* what a generation may hold: each message in a version, or Absent
  Limits,        \* batch sizes the clients ask for
  IndexMayFail,  \* a refresh may commit a generation without a complete index
  MaxGen,        \* bound on refreshes
  MaxBatches,    \* bound on batch identifiers
  MaxFaults      \* bound on deletions, interrupted commands and failed file operations

ASSUME LimitsAssumption == Limits \subseteq Nat \ {0}
ASSUME VersionsAssumption ==
  Absent \notin Versions /\ Documents \subseteq [1 .. NumMessages -> Versions \cup {Absent}]
ASSUME NumbersAssumption ==
  /\ {NumMessages, MaxGen, MaxBatches, MaxFaults} \subseteq Nat
  /\ IndexMayFail \in BOOLEAN

VARIABLES
  current,   \* the generation the account state points to, 0 before the first
  docs,      \* the messages of each generation
  indexes,   \* generations with a complete derived index
  file,      \* the two files of each cursor
  view,      \* the versions each consumer has from acknowledged batches
  promised,  \* no deletion of this cursor was left unfinished
  exposed,   \* consumers whose cursor began on a generation without an index, or was in
             \* its backup alone where no collection sees it (for PinnedIndexed)
  worker,    \* what each client does and the batch it was last given
  lock,      \* the client between the two parts of PollOrCreate, {} for none
  batches, faults

vars == <<current, docs, indexes, file, view, promised, exposed, worker, lock, batches, faults>>

Messages == 1..NumMessages
Gens == 1..MaxGen
Contents == [Messages -> Versions \cup {Absent}]
Nothing == [m \in Messages |-> Absent]
Content(g) == IF g = 0 THEN Nothing ELSE docs[g]

NoBatch == [id |-> 0, limit |-> 0, next |-> 0, more |-> FALSE]
NoCursor == [live |-> FALSE, base |-> 0, target |-> 0, position |-> 0, pending |-> NoBatch]
Free == [at |-> "idle", consumer |-> "none", id |-> 0, items |-> <<>>]

Init ==
  /\ current = 0
  /\ docs = [g \in Gens |-> Nothing]
  /\ indexes = {}
  /\ file = [c \in Consumers |-> [primary |-> NoCursor, backup |-> NoCursor]]
  /\ view = [c \in Consumers |-> Nothing]
  /\ promised = [c \in Consumers |-> TRUE]
  /\ exposed = {}
  /\ worker = [w \in Workers |-> Free]
  /\ lock = {}
  /\ batches = 0 /\ faults = 0
-----------------------------------------------------------------------------
(* Cursors and batches. *)

Load(c) == IF file[c].primary.live THEN file[c].primary ELSE file[c].backup

\* Fault: a message whose content changed is not reported.
RemainingNew(k) ==
  {m \in Messages : m > k.position /\ Content(k.target)[m] # Absent /\ Content(k.base)[m] = Absent}

\* messageindex.Diff: what the target holds that the base lacks or has otherwise,
\* after the position and in order; deletions are no news.
Remaining(k) ==
  {m \in Messages : /\ m > k.position
                    /\ Content(k.target)[m] # Absent
                    /\ Content(k.target)[m] # Content(k.base)[m]}
Batch(k, limit) ==
  LET rest == Remaining(k) IN {m \in rest : Cardinality({n \in rest : n < m}) < limit}
Items(k, limit) == [m \in Batch(k, limit) |-> Content(k.target)[m]]
\* Fault: the position is put one past the batch.
PastLast(ms) == 1 + CHOOSE m \in ms : \A n \in ms : n <= m

Last(ms) == CHOOSE m \in ms : \A n \in ms : n <= m

\* A poll of a cursor without a target takes the current generation as target.
Aimed(k) == IF k.target = 0 THEN [k EXCEPT !.target = current, !.position = 0] ELSE k
\* A cursor that has read its target completely.
Advanced(k) == [k EXCEPT !.base = k.target, !.target = 0, !.position = 0, !.pending = NoBatch]
Available(k) == {k.base, k.target} \ {0} \subseteq indexes

\* A save that succeeds; the old file may stay behind as the backup.
Store(c, k) ==
  \/ /\ file' = [file EXCEPT ![c] = [primary |-> k, backup |-> NoCursor]]
     /\ UNCHANGED faults
  \/ /\ faults < MaxFaults /\ faults' = faults + 1
     /\ file' = [file EXCEPT ![c] = [primary |-> k, backup |-> Load(c)]]

\* A save that fails, or a process that ends within it: published or not.
StoreStops(c, k) ==
  /\ faults < MaxFaults /\ faults' = faults + 1
  /\ \E f \in {file[c],
               [primary |-> Load(c), backup |-> NoCursor],
               [primary |-> NoCursor, backup |-> Load(c)],
               [primary |-> k, backup |-> Load(c)],
               [primary |-> k, backup |-> NoCursor]} :
       file' = [file EXCEPT ![c] = f]

At(w, step) == worker[w].at = step
Release(w) == worker' = [worker EXCEPT ![w] = Free] /\ lock' = lock \ {w}
Give(w, k, limit) ==
  /\ worker' = [worker EXCEPT ![w].at = "holding", ![w].id = k.pending.id,
                              ![w].items = Items(k, limit)]
  /\ lock' = lock \ {w}
-----------------------------------------------------------------------------
(* Generations. *)

\* Fault: only the base of a cursor is pinned.
PinnedBase == {Load(c).base : c \in {d \in Consumers : file[d].primary.live}}

\* inbox.PinnedGenerations goes by the *.json files, so it does not see a cursor
\* that exists as .json.old only.
Pinned ==
  UNION {{Load(c).base, Load(c).target} : c \in {d \in Consumers : file[d].primary.live}}

\* messageindex.GarbageCollect for generation g, with one more unpinned index kept.
Collect(gens, g) ==
  {h \in gens : \/ h = g \/ h \in Pinned
                \/ \A k \in gens \ (Pinned \cup {g}) : k <= h}

\* The cursors no collection sees.
InBackupAlone == {c \in Consumers : ~file[c].primary.live /\ file[c].backup.live}

Refresh ==
  /\ lock = {} /\ current < MaxGen
  /\ current' = current + 1
  /\ \E content \in Documents : docs' = [docs EXCEPT ![current + 1] = content]
  /\ \E built \in {{current + 1}} \cup (IF IndexMayFail THEN {{}} ELSE {}) :
       indexes' = Collect(indexes \cup built, current + 1)
  /\ exposed' = exposed \cup InBackupAlone
  /\ UNCHANGED <<file, view, promised, worker, lock, batches, faults>>

\* gc, with any state it may have resolved before it took the lock
Gc ==
  /\ lock = {}
  /\ \E g \in 1..current : indexes' = Collect(indexes, g)
  /\ exposed' = exposed \cup InBackupAlone
  /\ UNCHANGED <<current, docs, file, view, promised, worker, lock, batches, faults>>

\* ensureCurrentIndex; the lock is free again before PollOrCreate takes it.
Ensure(w, c) ==
  /\ At(w, "idle") /\ lock = {} /\ current # 0
  /\ indexes' = indexes \cup {current}
  /\ worker' = [worker EXCEPT ![w].at = "ensured", ![w].consumer = c]
  /\ UNCHANGED <<current, docs, file, view, promised, exposed, lock, batches, faults>>
-----------------------------------------------------------------------------
(* PollOrCreate. *)

\* createUnlocked, for --start now and --start beginning
Create(w) ==
  LET c == worker[w].consumer IN
  /\ At(w, "ensured") /\ lock = {}
  /\ ~Load(c).live
  /\ \E base \in {0, current} :
       LET k == [NoCursor EXCEPT !.live = TRUE, !.base = base] IN
       /\ \/ Store(c, k) /\ lock' = {w} /\ worker' = [worker EXCEPT ![w].at = "created"]
          \/ StoreStops(c, k) /\ Release(w)
       /\ view' = [view EXCEPT ![c] = Content(base)]
       /\ exposed' = IF Available(k) THEN exposed \ {c} ELSE exposed \cup {c}
  /\ promised' = [promised EXCEPT ![c] = TRUE]
  /\ UNCHANGED <<current, docs, indexes, batches>>

\* The client polls: its cursor exists, or it has just created it.
Polls(w) ==
  \/ At(w, "ensured") /\ lock = {} /\ Load(worker[w].consumer).live
  \/ At(w, "created")

\* The consumer has read the current generation.
PollNothing(w) ==
  LET k == Load(worker[w].consumer) IN
  /\ Polls(w)
  /\ k.target = 0 /\ k.base = current
  /\ Release(w)
  /\ UNCHANGED <<current, docs, indexes, file, view, promised, exposed, batches, faults>>

\* index_required
PollUnavailable(w) ==
  LET k == Load(worker[w].consumer) IN
  /\ Polls(w)
  /\ k.target # 0 \/ k.base # current
  /\ ~Available(Aimed(k))
  /\ Release(w)
  /\ UNCHANGED <<current, docs, indexes, file, view, promised, exposed, batches, faults>>

\* Nothing differs: the base moves to the target.
PollAdvance(w) ==
  LET c == worker[w].consumer
      k == Aimed(Load(c)) IN
  /\ Polls(w)
  /\ Load(c).target # 0 \/ Load(c).base # current
  /\ Available(k) /\ Remaining(k) = {} /\ k.pending = NoBatch
  /\ Store(c, Advanced(k)) \/ StoreStops(c, Advanced(k))
  /\ Release(w)
  /\ exposed' = exposed \ {c}
  /\ UNCHANGED <<current, docs, indexes, view, promised, batches>>

\* A new batch is stored, then printed.
PollBatch(w) ==
  LET c == worker[w].consumer
      k == Aimed(Load(c)) IN
  /\ Polls(w)
  /\ Load(c).target # 0 \/ Load(c).base # current
  /\ Available(k) /\ Remaining(k) # {} /\ k.pending = NoBatch
  /\ batches < MaxBatches /\ batches' = batches + 1
  /\ \E limit \in Limits :
       LET ms == Batch(k, limit)
           pending == [k EXCEPT !.pending = [id |-> batches + 1, limit |-> limit,
                         next |-> Last(ms), more |-> ms # Remaining(k)]] IN
       \/ Store(c, pending) /\ Give(w, pending, limit)
       \/ StoreStops(c, pending) /\ Release(w)
  /\ exposed' = exposed \ {c}
  /\ UNCHANGED <<current, docs, indexes, view, promised>>

\* Fault: the stored batch is printed again with the limit of the new command.
ReplayOtherLimit(w) ==
  LET k == Load(worker[w].consumer) IN
  /\ Polls(w)
  /\ k.pending # NoBatch
  /\ Available(k)
  /\ \E limit \in Limits : Give(w, k, limit)
  /\ exposed' = exposed \ {worker[w].consumer}
  /\ UNCHANGED <<current, docs, indexes, file, view, promised, batches, faults>>

\* The stored batch is printed again, with the limit it was made with.
PollReplay(w) ==
  LET k == Load(worker[w].consumer)
      ms == Batch(k, k.pending.limit) IN
  /\ Polls(w)
  /\ k.pending # NoBatch
  /\ Available(k) /\ ms # {}
  /\ k.pending.next = Last(ms) /\ k.pending.more = (ms # Remaining(k))
  /\ Give(w, k, k.pending.limit)
  /\ exposed' = exposed \ {worker[w].consumer}
  /\ UNCHANGED <<current, docs, indexes, file, view, promised, batches, faults>>
-----------------------------------------------------------------------------
(* Ack, Delete and clients that stop. *)

\* The batch a cursor would move past is the one acknowledged.
Acknowledges(k, id) == k.pending # NoBatch /\ k.pending.id = id

Ack(w) ==
  LET c == worker[w].consumer
      k == Load(c)
      moved == [k EXCEPT !.position = k.pending.next, !.pending = NoBatch]
      new == IF k.pending.more THEN moved ELSE Advanced(k) IN
  /\ At(w, "holding") /\ lock = {}
  /\ k.live /\ Acknowledges(k, worker[w].id)
  /\ Store(c, new) \/ StoreStops(c, new)
  /\ view' = [view EXCEPT ![c] =
       [m \in Messages |-> IF m \in DOMAIN worker[w].items THEN worker[w].items[m] ELSE @[m]]]
  /\ Release(w)
  /\ UNCHANGED <<current, docs, indexes, promised, exposed, batches>>

\* Every removal that fails, or is not reached, leaves its file.
Delete(c) ==
  /\ lock = {} /\ Load(c).live
  /\ faults < MaxFaults /\ faults' = faults + 1
  /\ \E p \in {NoCursor, file[c].primary}, b \in {NoCursor, file[c].backup} :
       /\ file' = [file EXCEPT ![c] = [primary |-> p, backup |-> b]]
       /\ promised' = [promised EXCEPT ![c] = ~p.live /\ ~b.live]
       /\ exposed' = IF ~p.live /\ b.live THEN exposed \cup {c} ELSE exposed
  /\ UNCHANGED <<current, docs, indexes, view, worker, lock, batches>>

\* A client ends: with a batch it will never acknowledge, or an acknowledgement
\* that is refused, before it polls, or between the two parts of PollOrCreate.
Leave(w) ==
  /\ worker[w] # Free
  /\ Release(w)
  /\ UNCHANGED <<current, docs, indexes, file, view, promised, exposed, batches, faults>>

Poll(w) ==
  PollNothing(w) \/ PollUnavailable(w) \/ PollAdvance(w) \/ PollBatch(w) \/ PollReplay(w)

Next ==
  \/ Refresh \/ Gc
  \/ \E w \in Workers :
       \/ \E c \in Consumers : Ensure(w, c)
       \/ Create(w) \/ Poll(w) \/ Ack(w) \/ Leave(w)
  \/ \E c \in Consumers : Delete(c)

Spec == Init /\ [][Next]_vars

\* A client goes on polling, and keeps acknowledging what it was given although
\* it may be interrupted in between; nothing in the program acts by itself.
Fairness ==
  \A w \in Workers :
    /\ \A c \in Consumers : WF_vars(Ensure(w, c))
    /\ SF_vars(Create(w)) /\ SF_vars(Poll(w)) /\ SF_vars(Ack(w))

LiveSpec == Spec /\ Fairness
-----------------------------------------------------------------------------
Batches == [id : 0..MaxBatches, limit : Limits \cup {0}, next : 0..NumMessages, more : BOOLEAN]
Cursors == [live : BOOLEAN, base : 0..MaxGen, target : 0..MaxGen,
            position : 0..NumMessages, pending : Batches]

TypeOK ==
  /\ current \in 0..MaxGen /\ indexes \subseteq Gens
  /\ docs \in [Gens -> Contents]
  /\ file \in [Consumers -> [primary : Cursors, backup : Cursors]]
  /\ view \in [Consumers -> Contents]
  /\ promised \in [Consumers -> BOOLEAN] /\ exposed \subseteq Consumers
  /\ \A w \in Workers :
       /\ worker[w].at \in {"idle", "ensured", "created", "holding"}
       /\ worker[w].consumer \in Consumers \cup {"none"}
       /\ worker[w].id \in 0..MaxBatches
       /\ DOMAIN worker[w].items \subseteq Messages
  /\ lock \subseteq Workers
  /\ batches \in 0..MaxBatches /\ faults \in 0..MaxFaults

\* No message is skipped: what a cursor has put behind it, the consumer has
\* acknowledged in the version its generation holds, whatever clients share the
\* consumer, end, or acknowledge late (pollUnlocked, Ack).
NothingSkipped ==
  \A c \in Consumers :
    LET k == Load(c)
        reading == IF k.target = 0 THEN k.base ELSE k.target
        rest == IF k.target = 0 THEN {} ELSE Remaining(k) IN
    k.live /\ promised[c] =>
      \A m \in Messages :
        Content(reading)[m] # Absent /\ m \notin rest => view[c][m] = Content(reading)[m]

\* A stored batch is the same whenever it is printed: a client that holds its
\* identifier holds what a poll would print now (at-least-once delivery).
ReplayIdentical ==
  \A w \in Workers :
    LET k == Load(worker[w].consumer) IN
    At(w, "holding") /\ k.live /\ Acknowledges(k, worker[w].id) =>
      worker[w].items = Items(k, k.pending.limit)

\* The indexes a cursor needs exist, so that an unacknowledged batch can be printed
\* again and the consumer can go on after the next refresh, whatever saves, deletions
\* and index builds fail.  Two cursors are excepted, until a poll finds their indexes:
\* one created when a refresh without an index got between the check and its creation
\* (runNewMessages), and one that was left in its backup alone, which a collection does
\* not see and a deletion that stops half-way brings back (PinnedGenerations, Delete).
PinnedIndexed ==
  \A c \in Consumers : Load(c).live /\ c \notin exposed => Available(Load(c))

\* A consumer that is being polled and acknowledged ends the generation it reads.
RoundEnds ==
  \A c \in Consumers : (Load(c).live /\ Load(c).target # 0) ~> (Load(c).target = 0)
=============================================================================
