----------------------------- MODULE InboxProofs -----------------------------
(***************************************************************************)
(* Proofs for Inbox: for any consumers, clients, messages, batch sizes and *)
(* bounds, a consumer that polls and acknowledges skips no message and is  *)
(* given the same batch again until it acknowledges it, whatever clients   *)
(* share it, leave, or are interrupted in a save.                          *)
(***************************************************************************)
EXTENDS Inbox, FiniteSetTheorems, TLAPS

ItemSets == {Free.items} \union UNION {[ms -> Versions \union {Absent}] : ms \in SUBSET Messages}

Held == [at : {"ensured", "created", "holding"}, consumer : Consumers, id : 0..MaxBatches,
         items : ItemSets]

Types ==
  /\ current \in 0..MaxGen /\ indexes \subseteq 1..current
  /\ docs \in [Gens -> Contents]
  /\ file \in [Consumers -> [primary : Cursors, backup : Cursors]]
  /\ view \in [Consumers -> Contents]
  /\ promised \in [Consumers -> BOOLEAN]
  /\ worker \in [Workers -> {Free} \union Held]
  /\ lock \subseteq Workers
  /\ batches \in 0..MaxBatches /\ faults \in 0..MaxFaults
  /\ \A w \in Workers : worker[w] # Free => current # 0

Stored(c) == {file[c].primary, file[c].backup}

\* A cursor names generations there are, and its batch is what it was made of.
Sound(k) ==
  /\ k.base <= current /\ k.target <= current
  /\ k.pending # NoBatch =>
       LET ms == Batch(k, k.pending.limit) IN
       /\ k.pending.id \in 1..batches /\ k.pending.limit \in Limits
       /\ ms # {} /\ k.pending.next = Last(ms) /\ k.pending.more = (ms # Remaining(k))

SameBatch(k, l) ==
  k.pending # NoBatch /\ l.pending # NoBatch /\ k.pending.id = l.pending.id

\* The two files of a cursor are sound, and do not have two batches of one identifier.
CursorInv ==
  \A c \in Consumers : \A k, l \in Stored(c) : Sound(k) /\ (SameBatch(k, l) => k = l)

\* What a client holds is what either file would make of its identifier, and no
\* batch to come has that identifier.
HeldBy(w) ==
  /\ worker[w].id <= batches
  /\ At(w, "holding") =>
       \A k \in Stored(worker[w].consumer) :
         Acknowledges(k, worker[w].id) => worker[w].items = Items(k, k.pending.limit)

HeldInv == \A w \in Workers : HeldBy(w)

\* What a consumer with cursor k has seen when its acknowledged messages are v.
Seen(k, v) ==
  LET reading == IF k.target = 0 THEN k.base ELSE k.target
      rest == IF k.target = 0 THEN {} ELSE Remaining(k) IN
  \A m \in Messages :
    Content(reading)[m] # Absent /\ m \notin rest => v[m] = Content(reading)[m]

SkippedInv == \A c \in Consumers : Load(c).live /\ promised[c] => Seen(Load(c), view[c])

Inv == Types /\ CursorInv /\ HeldInv /\ SkippedInv

-----------------------------------------------------------------------------
(* Batches. *)

\* A set of naturals up to n that is not empty has a largest element: the smallest
\* of the sets of those that are at least one of them.
LEMMA Largest ==
  ASSUME NEW n \in Nat, NEW S \in SUBSET (1..n), S # {}
  PROVE  \E m \in S : \A k \in S : k <= m
<1> DEFINE Above(m) == {k \in S : m <= k}
           T == {Above(m) : m \in S}
<1>1. IsFiniteSet(S)
  <2>1. IsFiniteSet(1..n)
    BY FS_Interval
  <2> QED
    BY <2>1, FS_Subset
<1>2. T \subseteq FiniteSubsetsOf(S) /\ T # {}
  <2>1. T \subseteq SUBSET S /\ T # {}
    OBVIOUS
  <2>2. FiniteSubsetsOf(S) = SUBSET S
    BY <1>1, FS_FiniteSubsetsOfFinite
  <2> QED
    BY <2>1, <2>2
<1>3. PICK x \in T : \A y \in T : ~ (<<y, x>> \in StrictSubsetOrdering(S))
  BY <1>2, FS_StrictSubsetOrderingWellFounded, WFMin
<1>4. PICK m \in S : x = Above(m)
  OBVIOUS
<1>5. ASSUME NEW k \in S, m < k PROVE FALSE
  <2>1. Above(k) \subseteq Above(m) /\ m \in Above(m) /\ m \notin Above(k)
    <3>1. k \in Nat /\ m \in Nat /\ \A l \in S : l \in Nat
      OBVIOUS
    <3>2. \A l \in Above(k) : l \in Above(m)
      BY <1>5, <3>1
    <3>3. m \in Above(m)
      BY <3>1
    <3>4. m \notin Above(k)
      BY <1>5, <3>1
    <3> QED
      BY <3>2, <3>3, <3>4
  <2>2. <<Above(k), Above(m)>> \in StrictSubsetOrdering(S)
    BY <2>1 DEF StrictSubsetOrdering
  <2> QED
    BY <1>3, <1>4, <2>2
<1> QED
  BY <1>5

\* It has a smallest one for the same reason.
LEMMA Smallest ==
  ASSUME NEW n \in Nat, NEW S \in SUBSET (1..n), S # {}
  PROVE  \E m \in S : \A k \in S : m <= k
<1> DEFINE Mirror == {k \in 1..n : n + 1 - k \in S}
<1>1. Mirror # {} /\ Mirror \subseteq 1..n
  <2>1. PICK s \in S : TRUE
    OBVIOUS
  <2>2. n + 1 - s \in 1..n /\ n + 1 - (n + 1 - s) = s
    OBVIOUS
  <2> QED
    BY <2>2
<1>2. PICK m \in Mirror : \A k \in Mirror : k <= m
  BY <1>1, Largest
<1>3. ASSUME NEW k \in S PROVE n + 1 - m <= k
  <2>1. n + 1 - k \in Mirror
    OBVIOUS
  <2> QED
    BY <1>2, <2>1
<1> QED
  BY <1>2, <1>3

\* The position put in a stored batch is that of its last message.
LEMMA LastIsLargest ==
  ASSUME NEW n \in Nat, NEW ms \in SUBSET (1..n), ms # {}
  PROVE  Last(ms) \in ms /\ \A k \in ms : k <= Last(ms)
BY Largest DEF Last

\* A batch takes messages of the rest in order, without a gap, and at least one.
LEMMA BatchInOrder ==
  ASSUME NumMessages \in Nat, NEW k, NEW limit \in Nat \ {0}
  PROVE  /\ Batch(k, limit) \subseteq Remaining(k) /\ Remaining(k) \subseteq Messages
         /\ \A m \in Batch(k, limit), l \in Remaining(k) : l < m => l \in Batch(k, limit)
         /\ Remaining(k) # {} => Batch(k, limit) # {}
<1> DEFINE rest == Remaining(k)
           Before(m) == {l \in rest : l < m}
<1>1. /\ rest \subseteq 1..NumMessages
      /\ Batch(k, limit) = {m \in rest : Cardinality(Before(m)) < limit}
  BY DEF Remaining, Batch, Messages
<1>2. \A m \in rest : IsFiniteSet(Before(m)) /\ Cardinality(Before(m)) \in Nat
  <2> SUFFICES ASSUME NEW m \in rest
               PROVE  IsFiniteSet(Before(m)) /\ Cardinality(Before(m)) \in Nat
    OBVIOUS
  <2>1. IsFiniteSet(1..NumMessages)
    BY FS_Interval
  <2>2. IsFiniteSet(Before(m))
    BY <1>1, <2>1, FS_Subset
  <2> QED
    BY <2>2, FS_CardinalityType
<1>3. ASSUME NEW m \in Batch(k, limit), NEW l \in rest, l < m PROVE l \in Batch(k, limit)
  <2>1. m \in rest /\ Cardinality(Before(m)) < limit
    BY <1>1
  <2>2. Before(l) \subseteq Before(m)
    BY <1>1, <1>3, <2>1
  <2>3. Cardinality(Before(l)) <= Cardinality(Before(m))
    BY <1>2, <2>1, <2>2, FS_Subset
  <2>4. Cardinality(Before(l)) \in Nat /\ Cardinality(Before(m)) \in Nat
    BY <1>2, <2>1
  <2>5. Cardinality(Before(l)) < limit
    <3> HIDE DEF Before
    <3> QED
      BY <2>1, <2>3, <2>4
  <2> QED
    BY <1>1, <2>5
<1>4. ASSUME rest # {} PROVE Batch(k, limit) # {}
  <2>1. PICK m \in rest : \A l \in rest : m <= l
    BY <1>1, <1>4, Smallest
  <2>2. Before(m) = {}
    BY <1>1, <2>1
  <2>3. Cardinality(Before(m)) = 0
    BY <2>2, FS_EmptySet
  <2>4. Cardinality(Before(m)) < limit
    BY <2>3
  <2> QED
    BY <1>1, <2>4
<1> QED
  BY <1>1, <1>3, <1>4 DEF Messages

-----------------------------------------------------------------------------
(* Cursors and their files. *)

\* Cursors are made of cursors.
LEMMA CursorTypes ==
  ASSUME Types, NEW k \in Cursors
  PROVE  /\ NoCursor \in Cursors /\ Aimed(k) \in Cursors /\ Advanced(k) \in Cursors
         /\ \A base \in {0, current} :
              [NoCursor EXCEPT !.live = TRUE, !.base = base] \in Cursors
         /\ [k EXCEPT !.position = k.pending.next, !.pending = NoBatch] \in Cursors
         /\ \A b \in Batches : [Aimed(k) EXCEPT !.pending = b] \in Cursors
<1>0. 0 \in 0..NumMessages /\ 0 \in 0..MaxGen /\ current \in 0..MaxGen
  BY NumbersAssumption DEF Types
<1>1. NoBatch \in Batches
  BY NumbersAssumption DEF NoBatch, Batches
<1>2. NoCursor \in Cursors
  BY <1>1, NumbersAssumption DEF NoCursor, Cursors
<1>3. Aimed(k) \in Cursors
  <2>1. [k EXCEPT !.target = current, !.position = 0] \in Cursors
    BY <1>0 DEF Cursors
  <2> QED
    BY <2>1 DEF Aimed
<1>4. Advanced(k) \in Cursors
  BY <1>0, <1>1 DEF Advanced, Cursors
<1>5. ASSUME NEW base \in {0, current}
      PROVE  [NoCursor EXCEPT !.live = TRUE, !.base = base] \in Cursors
  <2>1. base \in 0..MaxGen
    BY <1>0
  <2> QED
    BY <1>2, <2>1 DEF Cursors
<1>6. [k EXCEPT !.position = k.pending.next, !.pending = NoBatch] \in Cursors
  BY <1>1 DEF Cursors, Batches
<1>7. ASSUME NEW b \in Batches PROVE [Aimed(k) EXCEPT !.pending = b] \in Cursors
  BY <1>3 DEF Cursors
<1> QED
  BY <1>2, <1>3, <1>4, <1>5, <1>6, <1>7

\* The content of the generations there are does not change.
LEMMA ContentKept ==
  ASSUME Types, UNCHANGED <<current, docs>> \/ Refresh
  PROVE  current <= current' /\ \A g \in 0..current : Content(g)' = Content(g)
BY NumbersAssumption DEF Types, Refresh, Content, Gens

\* A sound cursor stays one, and its rest and batches the same.
LEMMA SoundKept ==
  ASSUME Types, UNCHANGED <<current, docs>> \/ Refresh, batches' \in Nat, batches <= batches',
         NEW k \in Cursors, Sound(k)
  PROVE  /\ Sound(k)'
         /\ Remaining(k)' = Remaining(k) /\ Content(k.target)' = Content(k.target)
         /\ Content(k.base)' = Content(k.base)
         /\ \A limit : Items(k, limit)' = Items(k, limit)
<1>1. k.base \in 0..current /\ k.target \in 0..current /\ current <= current' /\ current' \in Nat
  BY ContentKept DEF Types, Sound, Cursors, Refresh
<1>2. Content(k.target)' = Content(k.target) /\ Content(k.base)' = Content(k.base)
  BY <1>1, ContentKept
<1>3. Remaining(k)' = Remaining(k)
  BY <1>2 DEF Remaining
<1>4. \A limit : Batch(k, limit)' = Batch(k, limit)
  BY <1>3 DEF Batch
<1>5. \A limit : Items(k, limit)' = Items(k, limit)
  BY <1>2, <1>4 DEF Items
<1>6. Sound(k)'
  BY <1>1, <1>3, <1>4 DEF Sound, Types
<1> QED
  BY <1>2, <1>3, <1>5, <1>6

\* A save leaves either cursor to be loaded, or none, and nothing else in the files.
LEMMA Saves ==
  ASSUME Types, NEW c \in Consumers, NEW k \in Cursors, Store(c, k) \/ StoreStops(c, k)
  PROVE  /\ file' \in [Consumers -> [primary : Cursors, backup : Cursors]]
         /\ faults' \in 0..MaxFaults
         /\ \A d \in Consumers \ {c} : file'[d] = file[d]
         /\ Stored(c)' \subseteq Stored(c) \union {k, NoCursor}
         /\ Load(c)' \in {k, Load(c), NoCursor}
<1> USE DEF Types, Stored, Load
<1>1. NoCursor \in Cursors
  BY CursorTypes
<1>2. PICK f \in [primary : Cursors, backup : Cursors] :
         /\ file' = [file EXCEPT ![c] = f]
         /\ f \in {file[c],
                   [primary |-> Load(c), backup |-> NoCursor],
                   [primary |-> NoCursor, backup |-> Load(c)],
                   [primary |-> k, backup |-> Load(c)],
                   [primary |-> k, backup |-> NoCursor]}
  BY <1>1 DEF Store, StoreStops
<1>3. faults' \in 0..MaxFaults
  BY NumbersAssumption DEF Store, StoreStops
<1>4. Load(c) \in Stored(c)
  OBVIOUS
<1>5. file'[c] = f
  BY <1>2
<1>6. Stored(c)' \subseteq Stored(c) \union {k, NoCursor}
  BY <1>2, <1>5
<1>7. Load(c)' \in {k, Load(c), NoCursor}
  BY <1>2, <1>5
<1> QED
  BY <1>2, <1>3, <1>6, <1>7

\* After a save of a new cursor the files are sound, and clients that hold a batch,
\* or none any more, hold what they would be given again.
LEMMA SavedSound ==
  ASSUME Types, CursorInv, NEW c \in Consumers, NEW k \in Cursors,
         Store(c, k) \/ StoreStops(c, k),
         UNCHANGED <<current, docs>>, batches' \in Nat, batches <= batches',
         Sound(k)', k.pending = NoBatch \/ batches < k.pending.id
  PROVE  /\ CursorInv'
         /\ \A w \in Workers :
              /\ HeldBy(w)
              /\ \/ worker'[w] = Free \/ worker'[w] = worker[w]
                 \/ At(w, "ensured") /\ worker'[w] = [worker[w] EXCEPT !.at = "created"]
              => HeldBy(w)'
<1>1. /\ Stored(c)' \subseteq Stored(c) \union {k, NoCursor}
      /\ \A d \in Consumers \ {c} : Stored(d)' = Stored(d)
  BY Saves DEF Stored
<1>2. \A d \in Consumers : Stored(d) \subseteq Cursors
  BY DEF Types, Stored
<1>3. \A d \in Consumers : \A l \in Stored(d) :
        Sound(l) /\ Sound(l)' /\ (l.pending # NoBatch => l.pending.id <= batches)
  <2> SUFFICES ASSUME NEW d \in Consumers, NEW l \in Stored(d)
               PROVE  Sound(l) /\ Sound(l)' /\ (l.pending # NoBatch => l.pending.id <= batches)
    OBVIOUS
  <2>1. Sound(l) /\ l \in Cursors
    BY <1>2 DEF CursorInv
  <2>2. Sound(l)'
    BY <2>1, SoundKept
  <2>3. l.pending # NoBatch => l.pending.id <= batches
    BY <2>1 DEF Sound
  <2> QED
    BY <2>1, <2>2, <2>3
<1>0. /\ batches \in Nat /\ \A l \in Cursors : l.pending.id \in Nat
      /\ \A w \in Workers : worker[w].id \in Nat
  <2>1. batches \in Nat
    BY DEF Types
  <2>2. \A l \in Cursors : l.pending.id \in Nat
    BY DEF Cursors, Batches
  <2>3. \A w \in Workers : worker[w].id \in Nat
    BY DEF Types, Held, Free
  <2> QED
    BY <2>1, <2>2, <2>3
<1>4. Sound(NoCursor)' /\ NoCursor.pending = NoBatch
  BY NumbersAssumption DEF Sound, NoCursor, NoBatch, Types
<1>5. CursorInv'
  <2>1. ASSUME NEW l \in Stored(c)' PROVE Sound(l)'
    BY <1>1, <1>3, <1>4, <2>1
  <2>2. ASSUME NEW l \in Stored(c)', NEW m \in Stored(c)', SameBatch(l, m) PROVE l = m
    <3>1. l \in Stored(c) \union {k} /\ m \in Stored(c) \union {k}
      BY <1>1, <1>4, <2>2 DEF SameBatch
    <3>2. CASE l \in Stored(c) /\ m \in Stored(c)
      BY <2>2, <3>2 DEF CursorInv
    <3>3. ASSUME NEW o \in Stored(c), o.pending # NoBatch, k.pending # NoBatch
          PROVE  k.pending.id # o.pending.id
      BY <1>0, <1>2, <1>3, <3>3
    <3> QED
      BY <2>2, <3>1, <3>2, <3>3 DEF SameBatch
  <2> QED
    BY <1>1, <1>3, <2>1, <2>2 DEF CursorInv, SameBatch
<1>6. ASSUME NEW w \in Workers, HeldBy(w),
             \/ worker'[w] = Free \/ worker'[w] = worker[w]
             \/ At(w, "ensured") /\ worker'[w] = [worker[w] EXCEPT !.at = "created"]
      PROVE  HeldBy(w)'
  <2>1. CASE worker'[w] = Free
    BY <2>1 DEF HeldBy, Free, At
  <2>2. CASE At(w, "ensured") /\ worker'[w] = [worker[w] EXCEPT !.at = "created"]
    BY <1>6, <2>2 DEF HeldBy, At, Types, Held, Free
  <2>3. CASE worker'[w] = worker[w] /\ At(w, "holding")
    <3>1. PICK d \in Consumers : d = worker[w].consumer
      BY <2>3 DEF Types, Held, Free, At
    <3>2. ASSUME NEW l \in Stored(d)', Acknowledges(l, worker[w].id)
          PROVE  worker[w].items = Items(l, l.pending.limit)
      <4>1. l.pending # NoBatch /\ l.pending.id <= batches
        BY <1>6, <3>2 DEF Acknowledges, HeldBy
      <4>2. l \in Stored(d)
        <5>1. l \in Stored(d) \/ l = k
          BY <1>1, <1>4, <3>1, <3>2, <4>1
        <5>2. ~ batches < l.pending.id
          BY <1>0, <3>2, <4>1 DEF Acknowledges
        <5> QED
          BY <4>1, <5>1, <5>2
      <4> QED
        BY <1>6, <2>3, <3>1, <3>2, <4>2 DEF HeldBy
    <3>3. \A l, limit : Items(l, limit)' = Items(l, limit)
      BY DEF Items, Batch, Remaining, Content
    <3>4. worker'[w].id <= batches'
      BY <1>0, <1>6, <2>3 DEF HeldBy
    <3> QED
      BY <2>3, <3>1, <3>2, <3>3, <3>4 DEF HeldBy, At, Acknowledges
  <2>4. CASE worker'[w] = worker[w] /\ ~At(w, "holding")
    <3>1. worker'[w].id <= batches'
      BY <1>0, <1>6, <2>4 DEF HeldBy
    <3> QED
      BY <2>4, <3>1 DEF HeldBy, At
  <2> QED
    BY <1>6, <2>1, <2>2, <2>3, <2>4
<1> QED
  BY <1>5, <1>6

\* After a save a consumer has seen what it should if it has for both cursors.
LEMMA SavedSeen ==
  ASSUME Types, SkippedInv, NEW c \in Consumers, NEW k \in Cursors,
         Store(c, k) \/ StoreStops(c, k), UNCHANGED docs,
         \A d \in Consumers \ {c} : view'[d] = view[d] /\ promised'[d] = promised[d],
         k.live /\ promised'[c] => Seen(k, view'[c]),
         Load(c).live /\ promised'[c] => Seen(Load(c), view'[c])
  PROVE  SkippedInv'
<1>1. ASSUME NEW d \in Consumers, Seen(Load(d)', view'[d]) PROVE Seen(Load(d), view[d])'
  BY <1>1 DEF Seen, Remaining, Content
<1>2. Load(c)' \in {k, Load(c), NoCursor} /\ \A d \in Consumers \ {c} : Load(d)' = Load(d)
  BY Saves DEF Load
<1>3. ~NoCursor.live
  BY DEF NoCursor
<1>4. ASSUME Load(c)'.live, promised'[c] PROVE Seen(Load(c)', view'[c])
  BY <1>2, <1>3, <1>4
<1>5. ASSUME NEW d \in Consumers, Load(d)'.live, promised'[d] PROVE Seen(Load(d)', view'[d])
  BY <1>2, <1>4, <1>5 DEF SkippedInv
<1> QED
  BY <1>1, <1>5 DEF SkippedInv

\* What a consumer has seen of its base it has seen of the target it turns to, up to
\* the rest; without a rest it has seen the target.
LEMMA AimedSeen ==
  ASSUME Types, current # 0, NEW k \in Cursors, NEW v, Seen(k, v)
  PROVE  /\ \A b \in Batches : Seen([Aimed(k) EXCEPT !.pending = b], v)
         /\ Remaining(Aimed(k)) = {} => Seen(Advanced(Aimed(k)), v)
<1> DEFINE a == Aimed(k)
<1>1. /\ a.base = k.base /\ a.target # 0
      /\ k.target # 0 => a = k
      /\ k.target = 0 => a.target = current /\ a.position = 0
  BY DEF Aimed, Cursors
<1>2. ASSUME NEW m \in Messages, Content(a.target)[m] # Absent, m \notin Remaining(a)
      PROVE  v[m] = Content(a.target)[m]
  <2>1. CASE k.target # 0
    BY <1>1, <1>2, <2>1 DEF Seen
  <2>2. CASE k.target = 0
    <3>1. m > a.position
      BY <1>1, <2>2 DEF Messages
    <3>2. Content(a.target)[m] = Content(k.base)[m]
      BY <1>1, <1>2, <3>1 DEF Remaining
    <3> QED
      BY <1>2, <2>2, <3>2 DEF Seen
  <2> QED
    BY <2>1, <2>2
<1>3. ASSUME NEW b \in Batches PROVE Seen([a EXCEPT !.pending = b], v)
  <2> DEFINE p == [a EXCEPT !.pending = b]
  <2>1. p.base = a.base /\ p.target = a.target /\ p.position = a.position
    BY DEF Aimed, Cursors
  <2>2. Remaining(p) = Remaining(a)
    BY <2>1 DEF Remaining
  <2> QED
    BY <1>1, <1>2, <2>1, <2>2 DEF Seen
<1>4. ASSUME Remaining(a) = {} PROVE Seen(Advanced(a), v)
  <2>1. Advanced(a).base = a.target /\ Advanced(a).target = 0
    BY DEF Advanced, Aimed, Cursors
  <2> QED
    BY <1>2, <1>4, <2>1 DEF Seen
<1> QED
  BY <1>3, <1>4

-----------------------------------------------------------------------------
(* The invariant is inductive. *)

\* There is no cursor yet.
LEMMA InvInit == Init => Inv
<1> SUFFICES ASSUME Init PROVE Inv
  OBVIOUS
<1> USE DEF Init
<1>1. NoBatch \in Batches /\ NoCursor \in Cursors /\ Nothing \in Contents
  <2>1. NoBatch \in Batches
    BY NumbersAssumption DEF NoBatch, Batches
  <2> QED
    BY <2>1, NumbersAssumption DEF NoCursor, Cursors, Nothing, Contents
<1>2. Types
  <2>1. file \in [Consumers -> [primary : Cursors, backup : Cursors]]
    BY <1>1
  <2>2. docs \in [Gens -> Contents] /\ view \in [Consumers -> Contents]
    BY <1>1
  <2>3. current \in 0..MaxGen /\ batches \in 0..MaxBatches /\ faults \in 0..MaxFaults
    BY NumbersAssumption
  <2>4. promised \in [Consumers -> BOOLEAN] /\ worker \in [Workers -> {Free} \union Held]
    OBVIOUS
  <2> QED
    BY <2>1, <2>2, <2>3, <2>4 DEF Types
<1>3. CursorInv
  <2>1. \A c \in Consumers : Stored(c) = {NoCursor}
    BY DEF Stored
  <2>2. Sound(NoCursor)
    BY DEF Sound, NoCursor, NoBatch
  <2> QED
    BY <2>1, <2>2 DEF CursorInv
<1>4. HeldInv
  BY DEF HeldInv, HeldBy, Free, At
<1>5. SkippedInv
  BY DEF SkippedInv, Load, NoCursor
<1> QED
  BY <1>2, <1>3, <1>4, <1>5 DEF Inv

\* Who polls has named a consumer, after the first generation.
LEMMA Polling ==
  ASSUME Types, NEW w \in Workers, Polls(w) \/ At(w, "ensured") \/ At(w, "holding")
  PROVE  worker[w] \in Held /\ worker[w].consumer \in Consumers /\ current # 0
BY DEF Types, Polls, At, Held, Free

\* A step that leaves the files alone keeps what is said of them, a new generation
\* among these: the generations cursors name stay what they are.
LEMMA FilesKept ==
  ASSUME Inv, UNCHANGED <<current, docs>> \/ Refresh,
         UNCHANGED <<file, view, promised, batches>>
  PROVE  /\ CursorInv' /\ SkippedInv'
         /\ \A w \in Workers :
              \/ worker'[w] = worker[w]
              \/ (worker'[w].at # "holding" /\ worker'[w].id <= batches)
              => HeldBy(w)'
<1>1. \A c \in Consumers : Stored(c) \subseteq Cursors /\ Load(c) \in Stored(c)
  BY DEF Inv, Types, Stored, Load
<1>2. ASSUME NEW c \in Consumers, NEW k \in Stored(c)
      PROVE  /\ Sound(k)'
             /\ Remaining(k)' = Remaining(k) /\ Content(k.target)' = Content(k.target)
             /\ Content(k.base)' = Content(k.base)
             /\ \A limit : Items(k, limit)' = Items(k, limit)
  <2>1. Sound(k) /\ k \in Cursors /\ batches' \in Nat /\ batches <= batches'
    BY <1>1 DEF Inv, CursorInv, Types
  <2> QED
    BY <2>1, SoundKept DEF Inv
<1>3. CursorInv'
  BY <1>2 DEF Inv, CursorInv, Stored, SameBatch
<1>4. SkippedInv'
  <2> SUFFICES ASSUME NEW c \in Consumers, Load(c)'.live, promised'[c]
               PROVE  Seen(Load(c), view[c])'
    BY DEF SkippedInv
  <2>1. PICK k \in Stored(c) : k = Load(c)
    BY <1>1
  <2>2. Load(c)' = k /\ view'[c] = view[c]
    BY <2>1 DEF Load
  <2>3. Seen(k, view[c])
    BY <2>1, <2>2 DEF Inv, SkippedInv
  <2> QED
    BY <1>2, <2>2, <2>3 DEF Seen
<1>5. ASSUME NEW w \in Workers, worker'[w] = worker[w] PROVE HeldBy(w)'
  <2>1. CASE At(w, "holding")
    <3>1. PICK c \in Consumers : c = worker[w].consumer
      BY <2>1, Polling DEF Inv
    <3> QED
      BY <1>2, <1>5, <3>1 DEF Inv, HeldInv, HeldBy, Stored, Acknowledges, At
  <2>2. CASE ~At(w, "holding")
    BY <1>5, <2>2 DEF Inv, HeldInv, HeldBy, At
  <2> QED
    BY <2>1, <2>2
<1>6. ASSUME NEW w \in Workers, worker'[w].at # "holding", worker'[w].id <= batches
      PROVE  HeldBy(w)'
  BY <1>6 DEF HeldBy, At
<1> QED
  BY <1>3, <1>4, <1>5, <1>6

\* A client that does nothing to the cursor it polls ends.
LEMMA EndStep ==
  ASSUME Inv, NEW w \in Workers, PollNothing(w) \/ PollUnavailable(w) \/ Leave(w)
  PROVE  Inv'
<1>1. /\ worker' = [worker EXCEPT ![w] = Free] /\ lock' \subseteq lock
      /\ UNCHANGED <<current, docs, indexes, file, view, promised, batches, faults>>
  BY DEF PollNothing, PollUnavailable, Leave, Release
<1>2. Types'
  BY <1>1 DEF Inv, Types
<1>3. \A v \in Workers :
        worker'[v] = worker[v] \/ (worker'[v].at # "holding" /\ worker'[v].id <= batches)
  BY <1>1 DEF Inv, Types, Free
<1> QED
  BY <1>1, <1>2, <1>3, FilesKept DEF Inv, HeldInv

\* Ensuring an index only moves the client.
LEMMA EnsureStep ==
  ASSUME Inv, NEW w \in Workers, NEW c \in Consumers, Ensure(w, c)
  PROVE  Inv'
<1> DEFINE r == [worker[w] EXCEPT !.at = "ensured", !.consumer = c]
<1>1. /\ current # 0 /\ indexes' = indexes \union {current} /\ worker[w].at = "idle"
      /\ worker' = [worker EXCEPT ![w] = r]
      /\ UNCHANGED <<current, docs, file, view, promised, lock, batches, faults>>
  BY DEF Ensure, At
<1>2. worker[w] = Free
  BY <1>1 DEF Inv, Types, Held
<1>3. r \in Held /\ r.id = 0 /\ r.at = "ensured"
  <2>1. Free.items \in ItemSets
    BY DEF ItemSets
  <2>2. worker[w] \in [at : {"idle"}, consumer : {"none"}, id : 0..MaxBatches, items : ItemSets]
    BY <1>2, <2>1, NumbersAssumption DEF Free
  <2>3. r \in Held
    BY <2>2 DEF Held
  <2> QED
    BY <1>2, <2>2, <2>3 DEF Free
<1>4. Types'
  BY <1>1, <1>3 DEF Inv, Types
<1>5. \A v \in Workers :
        worker'[v] = worker[v] \/ (worker'[v].at # "holding" /\ worker'[v].id <= batches)
  BY <1>1, <1>3 DEF Inv, Types
<1> QED
  BY <1>1, <1>4, <1>5, FilesKept DEF Inv, HeldInv

\* Neither a new generation nor a collection touches a cursor or a client.
LEMMA GenerationStep ==
  ASSUME Inv, Refresh \/ Gc
  PROVE  Inv'
<1>1. /\ UNCHANGED <<current, docs>> \/ Refresh
      /\ UNCHANGED <<file, view, promised, worker, lock, batches, faults>>
  BY DEF Refresh, Gc
<1>2. Types'
  <2>1. CASE Refresh
    <3>1. PICK content \in Documents : docs' = [docs EXCEPT ![current + 1] = content]
      BY <2>1 DEF Refresh
    <3>2. current' = current + 1 /\ current + 1 \in Gens /\ current + 1 # 0
      BY <2>1, NumbersAssumption DEF Refresh, Inv, Types, Gens
    <3>3. indexes' \subseteq indexes \union {current + 1}
      BY <2>1 DEF Refresh, Collect
    <3>4. indexes' \subseteq 1..(current + 1)
      BY <3>3 DEF Inv, Types
    <3>5. content \in Contents
      BY VersionsAssumption DEF Contents, Messages
    <3> QED
      BY <1>1, <3>1, <3>2, <3>4, <3>5, NumbersAssumption DEF Inv, Types, Gens
  <2>2. CASE Gc
    BY <1>1, <2>2 DEF Gc, Collect, Inv, Types
  <2> QED
    BY <2>1, <2>2
<1> QED
  BY <1>1, <1>2, FilesKept DEF Inv, HeldInv

\* A deletion that leaves a file promises nothing any more.
LEMMA DeleteStep ==
  ASSUME Inv, NEW c \in Consumers, Delete(c)
  PROVE  Inv'
<1>1. PICK p \in {NoCursor, file[c].primary}, b \in {NoCursor, file[c].backup} :
        /\ file' = [file EXCEPT ![c] = [primary |-> p, backup |-> b]]
        /\ promised' = [promised EXCEPT ![c] = ~p.live /\ ~b.live]
  BY DEF Delete
<1>2. /\ UNCHANGED <<current, docs, indexes, view, worker, lock, batches>>
      /\ faults' \in 0..MaxFaults
  BY NumbersAssumption DEF Delete, Inv, Types
<1>3. NoCursor \in Cursors
  BY NumbersAssumption DEF NoCursor, NoBatch, Batches, Cursors
<1>4. p \in Cursors /\ b \in Cursors
  BY <1>3 DEF Inv, Types
<1>5. Types'
  <2>1. file' \in [Consumers -> [primary : Cursors, backup : Cursors]]
    BY <1>1, <1>4 DEF Inv, Types
  <2>2. promised' \in [Consumers -> BOOLEAN]
    BY <1>1 DEF Inv, Types
  <2> QED
    BY <1>2, <2>1, <2>2 DEF Inv, Types
<1>6. /\ Stored(c)' \subseteq Stored(c) \union {NoCursor}
      /\ \A d \in Consumers \ {c} : Stored(d)' = Stored(d)
  BY <1>1 DEF Inv, Types, Stored
<1>7. \A k : Sound(k)' <=> Sound(k)
  BY <1>2 DEF Sound, Remaining, Batch, Content
<1>8. Sound(NoCursor) /\ NoCursor.pending = NoBatch
  BY DEF Sound, NoCursor, NoBatch, Inv, Types
<1>9. CursorInv'
  BY <1>6, <1>7, <1>8 DEF Inv, CursorInv, SameBatch
<1>10. HeldInv'
  <2> SUFFICES ASSUME NEW w \in Workers PROVE HeldBy(w)'
    BY DEF HeldInv
  <2>1. CASE At(w, "holding")
    <3>1. PICK d \in Consumers : d = worker[w].consumer
      BY <2>1, Polling DEF Inv
    <3>2. \A k \in Stored(d)' : Acknowledges(k, worker[w].id) => k \in Stored(d)
      BY <1>6, <1>8 DEF Acknowledges
    <3>3. \A k, limit : Items(k, limit)' = Items(k, limit)
      BY <1>2 DEF Items, Batch, Remaining, Content
    <3> QED
      BY <1>2, <2>1, <3>1, <3>2, <3>3 DEF Inv, HeldInv, HeldBy, Acknowledges, At
  <2>2. CASE ~At(w, "holding")
    BY <1>2, <2>2 DEF Inv, HeldInv, HeldBy, At
  <2> QED
    BY <2>1, <2>2
<1>11. SkippedInv'
  <2> SUFFICES ASSUME NEW d \in Consumers, Load(d)'.live, promised'[d]
               PROVE  Seen(Load(d), view[d])'
    BY DEF SkippedInv
  <2>1. d # c
    BY <1>1, <1>4 DEF Inv, Types, Load, NoCursor
  <2>2. Load(d)' = Load(d) /\ promised'[d] = promised[d]
    BY <1>1, <2>1 DEF Inv, Types, Load
  <2> QED
    BY <1>2, <2>2 DEF Inv, SkippedInv, Seen, Remaining, Content
<1> QED
  BY <1>5, <1>9, <1>10, <1>11 DEF Inv

\* Items are contents of messages.
LEMMA ItemsType ==
  ASSUME Types, NEW k \in Cursors, NEW limit \in Nat \ {0}
  PROVE  Items(k, limit) \in ItemSets
<1>1. Content(k.target) \in Contents
  BY NumbersAssumption DEF Types, Content, Nothing, Contents, Cursors, Gens
<1>2. Batch(k, limit) \in SUBSET Messages
  BY BatchInOrder, NumbersAssumption
<1>3. Items(k, limit) \in [Batch(k, limit) -> Versions \union {Absent}]
  BY <1>1, <1>2 DEF Items, Contents
<1> QED
  BY <1>2, <1>3 DEF ItemSets

\* A new cursor starts with what its base holds.
LEMMA CreateStep ==
  ASSUME Inv, NEW w \in Workers, Create(w)
  PROVE  Inv'
<1>1. PICK c \in Consumers : c = worker[w].consumer
  BY Polling DEF Inv, Create
<1>2. PICK k \in Cursors :
        /\ k.live /\ k.target = 0 /\ k.base \in {0, current} /\ k.pending = NoBatch
        /\ Store(c, k) \/ StoreStops(c, k)
        /\ view' = [view EXCEPT ![c] = Content(k.base)]
        /\ \/ worker' = [worker EXCEPT ![w].at = "created"] /\ lock' = {w}
           \/ worker' = [worker EXCEPT ![w] = Free] /\ lock' = lock \ {w}
  <2>1. PICK base \in {0, current} :
          LET k == [NoCursor EXCEPT !.live = TRUE, !.base = base] IN
          /\ \/ Store(c, k) /\ lock' = {w} /\ worker' = [worker EXCEPT ![w].at = "created"]
             \/ StoreStops(c, k) /\ Release(w)
          /\ view' = [view EXCEPT ![c] = Content(base)]
    BY <1>1 DEF Create
  <2> DEFINE n == [NoCursor EXCEPT !.live = TRUE, !.base = base]
  <2>2. NoCursor \in Cursors
    BY NumbersAssumption DEF NoCursor, NoBatch, Batches, Cursors
  <2>3. n \in Cursors
    BY <2>2, CursorTypes DEF Inv
  <2>4. n.live /\ n.target = 0 /\ n.base = base /\ n.pending = NoBatch
    BY DEF NoCursor
  <2> QED
    BY <2>1, <2>3, <2>4 DEF Release
<1>3. /\ At(w, "ensured") /\ ~Load(c).live /\ promised' = [promised EXCEPT ![c] = TRUE]
      /\ UNCHANGED <<current, docs, indexes, batches>>
  BY <1>1 DEF Create
<1>4. worker[w] \in Held
  BY <1>3, Polling DEF Inv
<1>5. Types'
  <2>1. worker' \in [Workers -> {Free} \union Held]
    <3>1. [worker[w] EXCEPT !.at = "created"] \in Held
      BY <1>4 DEF Held
    <3> QED
      BY <1>2, <3>1 DEF Inv, Types
  <2>2. view' \in [Consumers -> Contents]
    <3>1. Content(k.base) \in Contents
      BY NumbersAssumption DEF Inv, Types, Content, Nothing, Contents, Cursors, Gens
    <3> QED
      BY <1>2, <3>1 DEF Inv, Types
  <2>3. file' \in [Consumers -> [primary : Cursors, backup : Cursors]] /\ faults' \in 0..MaxFaults
    BY <1>2, Saves DEF Inv
  <2>4. current # 0
    BY <1>3, Polling DEF Inv
  <2> QED
    BY <1>2, <1>3, <2>1, <2>2, <2>3, <2>4 DEF Inv, Types
<1>6. Sound(k)' /\ batches' \in Nat /\ batches <= batches'
  BY <1>2, <1>3 DEF Sound, Inv, Types
<1>7. CursorInv' /\ HeldInv'
  <2>1. /\ worker'[w] = Free \/ worker'[w] = [worker[w] EXCEPT !.at = "created"]
        /\ \A v \in Workers \ {w} : worker'[v] = worker[v]
    BY <1>2 DEF Inv, Types
  <2> QED
    BY <1>2, <1>3, <1>6, <2>1, SavedSound DEF Inv, HeldInv
<1>8. SkippedInv'
  <2>1. Seen(k, Content(k.base))
    BY <1>2 DEF Seen
  <2>2. /\ view'[c] = Content(k.base)
        /\ \A d \in Consumers \ {c} : view'[d] = view[d] /\ promised'[d] = promised[d]
    BY <1>2, <1>3 DEF Inv, Types
  <2> QED
    BY <1>2, <1>3, <2>1, <2>2, SavedSeen DEF Inv
<1> QED
  BY <1>5, <1>7, <1>8 DEF Inv

\* A cursor is moved to its target when nothing differs, so nothing is skipped.
LEMMA AdvanceStep ==
  ASSUME Inv, NEW w \in Workers, PollAdvance(w)
  PROVE  Inv'
<1>1. PICK c \in Consumers : c = worker[w].consumer
  BY Polling DEF Inv, PollAdvance
<1>2. PICK l \in Cursors : l = Load(c)
  BY DEF Inv, Types, Load
<1>3. PICK k \in Cursors : k = Advanced(Aimed(l))
  BY <1>2, CursorTypes DEF Inv
<1>4. /\ Store(c, k) \/ StoreStops(c, k)
      /\ Remaining(Aimed(l)) = {} /\ current # 0
      /\ worker' = [worker EXCEPT ![w] = Free] /\ lock' = lock \ {w}
      /\ UNCHANGED <<current, docs, indexes, view, promised, batches>>
  BY <1>1, <1>2, <1>3, Polling DEF Inv, PollAdvance, Release
<1>5. k.pending = NoBatch /\ k.live = l.live /\ k.target = 0 /\ k.base = Aimed(l).target
  BY <1>3 DEF Advanced, Aimed, Cursors
<1>6. Sound(l) /\ Sound(k)' /\ batches' \in Nat /\ batches <= batches'
  <2>1. Sound(l)
    BY <1>2 DEF Inv, CursorInv, Stored, Load
  <2>2. k.base <= current
    BY <1>4, <1>5, <2>1 DEF Sound, Aimed, Cursors, Inv, Types
  <2> QED
    BY <1>4, <1>5, <2>1, <2>2 DEF Sound, Inv, Types
<1>7. Types'
  <2>1. worker' \in [Workers -> {Free} \union Held]
    BY <1>4 DEF Inv, Types
  <2>2. file' \in [Consumers -> [primary : Cursors, backup : Cursors]] /\ faults' \in 0..MaxFaults
    BY <1>4, Saves DEF Inv
  <2> QED
    BY <1>4, <2>1, <2>2 DEF Inv, Types
<1>8. CursorInv' /\ HeldInv'
  <2>1. worker'[w] = Free /\ \A v \in Workers \ {w} : worker'[v] = worker[v]
    BY <1>4 DEF Inv, Types
  <2> QED
    BY <1>4, <1>5, <1>6, <2>1, SavedSound DEF Inv, HeldInv
<1>9. SkippedInv'
  <2>1. ASSUME l.live, promised[c] PROVE Seen(l, view[c]) /\ Seen(k, view[c])
    BY <1>2, <1>3, <1>4, <2>1, AimedSeen DEF Inv, SkippedInv
  <2> QED
    BY <1>2, <1>4, <1>5, <2>1, SavedSeen DEF Inv
<1> QED
  BY <1>7, <1>8, <1>9 DEF Inv

\* Who prints a batch holds it.
LEMMA GivenType ==
  ASSUME Types, NEW w \in Workers, Polls(w), NEW k \in Cursors, NEW limit \in Limits,
         Give(w, k, limit)
  PROVE  /\ worker' \in [Workers -> {Free} \union Held] /\ lock' \subseteq lock
         /\ \A v \in Workers \ {w} : worker'[v] = worker[v]
         /\ worker'[w].at = "holding" /\ worker'[w].consumer = worker[w].consumer
         /\ worker'[w].id = k.pending.id /\ worker'[w].items = Items(k, limit)
<1> DEFINE r == [worker[w] EXCEPT !.at = "holding", !.id = k.pending.id, !.items = Items(k, limit)]
<1>1. worker[w] \in Held
  BY Polling
<1>2. k.pending.id \in 0..MaxBatches /\ Items(k, limit) \in ItemSets
  BY ItemsType, LimitsAssumption DEF Cursors, Batches
<1>3. r \in Held
  BY <1>1, <1>2 DEF Held
<1>4. worker' = [worker EXCEPT ![w] = r] /\ lock' \subseteq lock
  BY DEF Give
<1> QED
  BY <1>1, <1>3, <1>4 DEF Types, Held

\* A batch is stored as it is printed, with an identifier nobody holds.
LEMMA BatchStep ==
  ASSUME Inv, NEW w \in Workers, PollBatch(w)
  PROVE  Inv'
<1>1. PICK c \in Consumers : c = worker[w].consumer
  BY Polling DEF Inv, PollBatch
<1>2. PICK l \in Cursors : l = Load(c)
  BY DEF Inv, Types, Load
<1> DEFINE a == Aimed(l)
           New(limit) == [id |-> batches + 1, limit |-> limit, next |-> Last(Batch(a, limit)),
                          more |-> Batch(a, limit) # Remaining(a)]
           Pending(limit) == [a EXCEPT !.pending = New(limit)]
<1>3. PICK limit \in Limits :
        \/ Store(c, Pending(limit)) /\ Give(w, Pending(limit), limit)
        \/ StoreStops(c, Pending(limit)) /\ Release(w)
  BY <1>1, <1>2 DEF PollBatch
<1>4. /\ Remaining(a) # {} /\ current # 0 /\ batches < MaxBatches /\ batches' = batches + 1
      /\ UNCHANGED <<current, docs, indexes, view, promised>>
  BY <1>1, <1>2, Polling DEF Inv, PollBatch
<1>5. a \in Cursors /\ limit \in Nat \ {0}
  BY <1>2, CursorTypes, LimitsAssumption DEF Inv
<1>6. Batch(a, limit) # {} /\ Batch(a, limit) \subseteq 1..NumMessages
  BY <1>4, <1>5, BatchInOrder, NumbersAssumption DEF Messages
<1>7. Last(Batch(a, limit)) \in 1..NumMessages
  BY <1>6, LastIsLargest, NumbersAssumption
<1>8. New(limit) \in Batches
  BY <1>4, <1>7, NumbersAssumption DEF Inv, Types, Batches
<1>9. PICK k \in Cursors : k = Pending(limit)
  BY <1>2, <1>8, CursorTypes DEF Inv
<1>10. /\ k.base = a.base /\ k.target = a.target /\ k.position = a.position /\ k.live = l.live
       /\ k.pending = New(limit)
  BY <1>5, <1>9 DEF Aimed, Cursors
<1>11. Remaining(k) = Remaining(a) /\ Batch(k, limit) = Batch(a, limit)
  BY <1>10 DEF Remaining, Batch
<1>12. Sound(l) /\ Sound(k)' /\ batches' \in Nat /\ batches <= batches' /\ batches < k.pending.id
  <2>1. Sound(l)
    BY <1>2 DEF Inv, CursorInv, Stored, Load
  <2>2. k.base <= current /\ k.target <= current
    BY <1>10, <2>1 DEF Sound, Aimed, Cursors, Inv, Types
  <2>3. /\ batches' \in Nat /\ batches <= batches'
        /\ batches < k.pending.id /\ k.pending.id \in 1..batches'
    BY <1>4, <1>10 DEF Inv, Types
  <2>4. Batch(k, limit)' = Batch(k, limit) /\ Remaining(k)' = Remaining(k)
    BY <1>4 DEF Batch, Remaining, Content
  <2>5. k.pending.limit = limit /\ k.pending.next = Last(Batch(k, limit))
        /\ k.pending.more = (Batch(k, limit) # Remaining(k)) /\ Batch(k, limit) # {}
    BY <1>6, <1>10, <1>11
  <2>6. Sound(k)'
    BY <1>4, <2>2, <2>3, <2>4, <2>5 DEF Sound
  <2> QED
    BY <2>1, <2>3, <2>6
<1>13. Types'
  <2>1. worker' \in [Workers -> {Free} \union Held] /\ lock' \subseteq lock
    <3>1. CASE Give(w, k, limit)
      BY <3>1, GivenType DEF Inv, PollBatch
    <3>2. CASE Release(w)
      BY <3>2 DEF Release, Inv, Types
    <3> QED
      BY <1>3, <1>9, <3>1, <3>2
  <2>2. file' \in [Consumers -> [primary : Cursors, backup : Cursors]] /\ faults' \in 0..MaxFaults
    BY <1>3, <1>9, Saves DEF Inv
  <2>3. batches' \in 0..MaxBatches
    BY <1>4, NumbersAssumption DEF Inv, Types
  <2> QED
    BY <1>4, <2>1, <2>2, <2>3 DEF Inv, Types
<1>14. CursorInv' /\ \A v \in Workers : worker'[v] \in {Free, worker[v]} => HeldBy(v)'
  BY <1>3, <1>4, <1>9, <1>12, SavedSound DEF Inv, HeldInv
<1>15. HeldInv'
  <2>1. CASE Release(w)
    <3>1. \A v \in Workers : worker'[v] \in {Free, worker[v]}
      BY <2>1 DEF Release, Inv, Types
    <3> QED
      BY <1>14, <3>1 DEF HeldInv
  <2>2. CASE Store(c, k) /\ Give(w, k, limit)
    <3>1. /\ \A v \in Workers \ {w} : worker'[v] = worker[v]
          /\ worker'[w].at = "holding" /\ worker'[w].consumer = c
          /\ worker'[w].id = k.pending.id /\ worker'[w].items = Items(k, limit)
      BY <1>1, <2>2, GivenType DEF Inv, PollBatch
    <3>2. Stored(c)' \subseteq Stored(c) \union {k, NoCursor}
      BY <2>2, Saves DEF Inv
    <3>3. \A m \in Stored(c) : m.pending # NoBatch => m.pending.id # k.pending.id
      BY <1>4, <1>10, <1>12 DEF Inv, CursorInv, Sound, Types
    <3>4. NoCursor.pending = NoBatch
      BY DEF NoCursor
    <3>5. \A m \in Stored(c)' : Acknowledges(m, k.pending.id) => m = k
      BY <3>2, <3>3, <3>4 DEF Acknowledges
    <3>6. Items(k, limit)' = Items(k, limit) /\ k.pending.limit = limit
      BY <1>4, <1>10 DEF Items, Batch, Remaining, Content
    <3>7. HeldBy(w)'
      <4>1. worker'[w].id <= batches'
        BY <1>4, <1>10, <3>1 DEF Inv, Types
      <4> QED
        BY <3>1, <3>5, <3>6, <4>1 DEF HeldBy, Acknowledges
    <3> QED
      BY <1>14, <3>1, <3>7 DEF HeldInv
  <2> QED
    BY <1>3, <1>9, <2>1, <2>2
<1>16. SkippedInv'
  <2>1. ASSUME l.live, promised[c] PROVE Seen(l, view[c]) /\ Seen(k, view[c])
    BY <1>2, <1>4, <1>8, <1>9, <2>1, AimedSeen DEF Inv, SkippedInv
  <2> QED
    BY <1>2, <1>3, <1>4, <1>9, <1>10, <2>1, SavedSeen DEF Inv
<1> QED
  BY <1>13, <1>14, <1>15, <1>16 DEF Inv

\* A stored batch is printed again as it was made, the generations being what they were.
LEMMA ReplayStep ==
  ASSUME Inv, NEW w \in Workers, PollReplay(w)
  PROVE  Inv'
<1>1. PICK c \in Consumers : c = worker[w].consumer
  BY Polling DEF Inv, PollReplay
<1>2. PICK k \in Cursors : k = Load(c) /\ k \in Stored(c)
  BY DEF Inv, Types, Load, Stored
<1>3. /\ Polls(w) /\ k.pending # NoBatch /\ Give(w, k, k.pending.limit)
      /\ UNCHANGED <<current, docs, indexes, file, view, promised, batches, faults>>
  BY <1>1, <1>2 DEF PollReplay
<1>4. k.pending.limit \in Limits /\ k.pending.id \in 1..batches
  BY <1>2, <1>3 DEF Inv, CursorInv, Sound
<1>5. /\ worker' \in [Workers -> {Free} \union Held] /\ lock' \subseteq lock
      /\ \A v \in Workers \ {w} : worker'[v] = worker[v]
      /\ worker'[w].at = "holding" /\ worker'[w].consumer = c
      /\ worker'[w].id = k.pending.id /\ worker'[w].items = Items(k, k.pending.limit)
  BY <1>1, <1>3, <1>4, GivenType DEF Inv
<1>6. Types'
  <2>1. current # 0
    BY <1>3, Polling DEF Inv
  <2> QED
    BY <1>3, <1>5, <2>1 DEF Inv, Types
<1>7. CursorInv' /\ SkippedInv' /\ \A v \in Workers \ {w} : HeldBy(v)'
  BY <1>3, <1>5, FilesKept
<1>8. HeldBy(w)'
  <2>1. \A l \in Stored(c) : Acknowledges(l, k.pending.id) => l = k
    BY <1>2, <1>3 DEF Inv, CursorInv, SameBatch, Acknowledges
  <2>2. Stored(c)' = Stored(c) /\ Items(k, k.pending.limit)' = Items(k, k.pending.limit)
    BY <1>3 DEF Stored, Items, Batch, Remaining, Content
  <2>3. worker'[w].id <= batches'
    BY <1>3, <1>4, <1>5 DEF Inv, Types
  <2> QED
    BY <1>5, <2>1, <2>2, <2>3 DEF HeldBy, Acknowledges
<1> QED
  BY <1>6, <1>7, <1>8 DEF Inv, HeldInv

\* The consumer has the batch when the position moves behind it, and what is moved
\* over is the batch: it has no gap and ends at its last message.
LEMMA AckStep ==
  ASSUME Inv, NEW w \in Workers, Ack(w)
  PROVE  Inv'
<1>1. PICK c \in Consumers : c = worker[w].consumer
  BY Polling DEF Inv, Ack
<1>2. PICK k \in Cursors : k = Load(c) /\ k \in Stored(c)
  BY DEF Inv, Types, Load, Stored
<1> DEFINE moved == [k EXCEPT !.position = k.pending.next, !.pending = NoBatch]
           ms == Batch(k, k.pending.limit)
<1>3. PICK new \in Cursors : new = IF k.pending.more THEN moved ELSE Advanced(k)
  BY <1>2, CursorTypes DEF Inv
<1>4. /\ At(w, "holding") /\ k.live /\ Acknowledges(k, worker[w].id)
      /\ Store(c, new) \/ StoreStops(c, new)
      /\ view' = [view EXCEPT ![c] =
           [m \in Messages |-> IF m \in DOMAIN worker[w].items THEN worker[w].items[m] ELSE @[m]]]
      /\ worker' = [worker EXCEPT ![w] = Free] /\ lock' \subseteq lock
      /\ UNCHANGED <<current, docs, indexes, promised, batches>>
  BY <1>1, <1>2, <1>3 DEF Ack, Release
<1>5. worker[w].items = Items(k, k.pending.limit)
  BY <1>1, <1>2, <1>4 DEF Inv, HeldInv, HeldBy
<1>6. /\ k.pending.limit \in Limits /\ ms # {} /\ k.pending.next = Last(ms)
      /\ k.pending.more = (ms # Remaining(k)) /\ k.base <= current /\ k.target <= current
  BY <1>2, <1>4 DEF Inv, CursorInv, Sound, Acknowledges
<1>7. /\ ms \subseteq Remaining(k) /\ Remaining(k) \subseteq 1..NumMessages
      /\ \A m \in ms, l \in Remaining(k) : l < m => l \in ms
      /\ Last(ms) \in ms
  <2>1. k.pending.limit \in Nat \ {0}
    BY <1>6, LimitsAssumption
  <2>2. /\ ms \subseteq Remaining(k) /\ Remaining(k) \subseteq 1..NumMessages
        /\ \A m \in ms, l \in Remaining(k) : l < m => l \in ms
    BY <2>1, BatchInOrder, NumbersAssumption DEF Messages
  <2> QED
    BY <1>6, <2>2, LastIsLargest, NumbersAssumption
<1>8. k.target # 0 /\ Content(k.target) \in Contents
  <2>1. \A m \in Remaining(k) : m \in Messages /\ Content(k.target)[m] # Absent
    BY DEF Remaining
  <2>2. k.target # 0
    BY <1>6, <1>7, <2>1 DEF Content, Nothing
  <2> QED
    BY <2>2 DEF Inv, Types, Content, Cursors, Gens
<1>9. \A m \in Messages : view'[c][m] = IF m \in ms THEN Content(k.target)[m] ELSE view[c][m]
  BY <1>4, <1>5 DEF Items, Inv, Types
<1>10. Types'
  <2>1. worker' \in [Workers -> {Free} \union Held]
    BY <1>4 DEF Inv, Types
  <2>2. file' \in [Consumers -> [primary : Cursors, backup : Cursors]] /\ faults' \in 0..MaxFaults
    BY <1>4, Saves DEF Inv
  <2>3. view' \in [Consumers -> Contents]
    <3> DEFINE seen == [m \in Messages |-> IF m \in DOMAIN worker[w].items
                                             THEN worker[w].items[m] ELSE view[c][m]]
    <3>1. view' = [view EXCEPT ![c] = seen]
      BY <1>4
    <3>2. seen \in Contents
      BY <1>5, <1>8 DEF Items, Contents, Inv, Types
    <3> QED
      BY <3>1, <3>2 DEF Inv, Types
  <2>4. \A v \in Workers : worker'[v] # Free => worker[v] # Free
    BY <1>4 DEF Inv, Types
  <2> QED
    BY <1>4, <2>1, <2>2, <2>3, <2>4 DEF Inv, Types
<1>11. /\ new.pending = NoBatch /\ new.live
       /\ k.pending.more => new.base = k.base /\ new.target = k.target /\ new.position = Last(ms)
       /\ ~k.pending.more => new.base = k.target /\ new.target = 0
  BY <1>3, <1>4, <1>6 DEF Advanced, Cursors
<1>12. Sound(new)' /\ batches' \in Nat /\ batches <= batches'
  BY <1>4, <1>6, <1>11 DEF Sound, Inv, Types
<1>13. CursorInv' /\ HeldInv'
  <2>1. worker'[w] = Free /\ \A v \in Workers \ {w} : worker'[v] = worker[v]
    BY <1>4 DEF Inv, Types
  <2> QED
    BY <1>4, <1>11, <1>12, <2>1, SavedSound DEF Inv, HeldInv
<1>14. SkippedInv'
  <2>1. ASSUME promised[c], NEW m \in Messages, Content(k.target)[m] # Absent,
               m \notin Remaining(k) \/ m \in ms
        PROVE  view'[c][m] = Content(k.target)[m]
    <3>1. CASE m \in ms
      BY <1>9, <3>1
    <3>2. CASE m \notin ms
      <4>1. Seen(k, view[c])
        BY <1>2, <1>4, <2>1 DEF Inv, SkippedInv
      <4>2. view[c][m] = Content(k.target)[m]
        BY <1>8, <2>1, <3>2, <4>1 DEF Seen
      <4> QED
        BY <1>9, <3>2, <4>2
    <3> QED
      BY <3>1, <3>2
  <2>2. ASSUME promised[c] PROVE Seen(k, view'[c])
    BY <1>8, <2>1, <2>2 DEF Seen
  <2>3. ASSUME promised[c] PROVE Seen(new, view'[c])
    <3>1. CASE ~k.pending.more
      BY <1>6, <1>8, <1>11, <2>1, <2>3, <3>1 DEF Seen
    <3>2. CASE k.pending.more
      <4>1. ASSUME NEW m \in Messages, m \in Remaining(k), m \notin Remaining(new) PROVE m \in ms
        <5>1. ~ m > Last(ms)
          BY <1>11, <3>2, <4>1 DEF Remaining
        <5>2. m \in Nat /\ Last(ms) \in Nat
          BY <1>7, <4>1
        <5>3. m = Last(ms) \/ m < Last(ms)
          BY <5>1, <5>2
        <5> QED
          BY <1>7, <4>1, <5>3
      <4> QED
        BY <1>8, <1>11, <2>1, <2>3, <3>2, <4>1 DEF Seen
    <3> QED
      BY <3>1, <3>2
  <2>4. \A d \in Consumers \ {c} : view'[d] = view[d] /\ promised'[d] = promised[d]
    BY <1>4 DEF Inv, Types
  <2> QED
    BY <1>2, <1>4, <2>2, <2>3, <2>4, SavedSeen DEF Inv
<1> QED
  BY <1>10, <1>13, <1>14 DEF Inv

\* Nothing the invariant speaks of changes while nothing happens.
LEMMA InvStutter ==
  ASSUME Inv, UNCHANGED vars
  PROVE  Inv'
<1>1. UNCHANGED <<current, docs, indexes, file, view, promised, worker, lock, batches, faults>>
  BY DEF vars
<1>2. Types'
  BY <1>1 DEF Inv, Types
<1> QED
  BY <1>1, <1>2, FilesKept DEF Inv, HeldInv

\* The invariant holds in every state of the inbox.
THEOREM Invariance == Spec => []Inv
<1>1. ASSUME Inv, [Next]_vars PROVE Inv'
  <2>1. CASE Refresh \/ Gc
    BY <1>1, <2>1, GenerationStep
  <2>2. ASSUME NEW w \in Workers, NEW c \in Consumers, Ensure(w, c) PROVE Inv'
    BY <1>1, <2>2, EnsureStep
  <2>3. ASSUME NEW w \in Workers, Create(w) PROVE Inv'
    BY <1>1, <2>3, CreateStep
  <2>4. ASSUME NEW w \in Workers, Poll(w) PROVE Inv'
    BY <1>1, <2>4, EndStep, AdvanceStep, BatchStep, ReplayStep DEF Poll
  <2>5. ASSUME NEW w \in Workers, Ack(w) PROVE Inv'
    BY <1>1, <2>5, AckStep
  <2>6. ASSUME NEW w \in Workers, Leave(w) PROVE Inv'
    BY <1>1, <2>6, EndStep
  <2>7. ASSUME NEW c \in Consumers, Delete(c) PROVE Inv'
    BY <1>1, <2>7, DeleteStep
  <2>8. CASE UNCHANGED vars
    BY <1>1, <2>8, InvStutter
  <2> QED
    BY <1>1, <2>1, <2>2, <2>3, <2>4, <2>5, <2>6, <2>7, <2>8 DEF Next
<1> QED
  BY <1>1, InvInit, PTL DEF Spec

\* No consumer skips a message: what its cursor has put behind it, it acknowledged in
\* the version its generation holds (pollUnlocked, Ack).
THEOREM NothingIsSkipped == Spec => []NothingSkipped
<1>1. Inv => NothingSkipped
  BY DEF Inv, SkippedInv, Seen, NothingSkipped
<1> QED
  BY <1>1, Invariance, PTL

\* A client that holds a batch its cursor still has pending holds what a poll would
\* print now, whoever it was that made the batch.
THEOREM ReplayIsIdentical == Spec => []ReplayIdentical
<1>1. ASSUME Inv, NEW w \in Workers, At(w, "holding"), Load(worker[w].consumer).live,
             Acknowledges(Load(worker[w].consumer), worker[w].id)
      PROVE  worker[w].items
               = Items(Load(worker[w].consumer), Load(worker[w].consumer).pending.limit)
  <2>1. Load(worker[w].consumer) \in Stored(worker[w].consumer)
    BY DEF Load, Stored
  <2> QED
    BY <1>1, <2>1 DEF Inv, HeldInv, HeldBy
<1>2. Inv => ReplayIdentical
  BY <1>1 DEF ReplayIdentical
<1> QED
  BY <1>2, Invariance, PTL

-----------------------------------------------------------------------------
(* The indexes cursors need.  A collection keeps those the readable cursors *)
(* name; one that is not readable, or had none to begin with, is exposed.   *)

\* A save of a cursor whose indexes there are, by a consumer whose cursor named indexes
\* there were, leaves such cursors only.
LEMMA IndexSaved ==
  ASSUME Types, PinnedIndexed, NEW c \in Consumers, NEW k \in Cursors,
         Store(c, k) \/ StoreStops(c, k), indexes' = indexes,
         exposed' = exposed \/ exposed' = exposed \ {c},
         c \notin exposed' => (k.live => Available(k)) /\ (Load(c).live => Available(Load(c)))
  PROVE  PinnedIndexed'
<1> SUFFICES ASSUME NEW d \in Consumers, Load(d)'.live, d \notin exposed' PROVE Available(Load(d))'
  BY DEF PinnedIndexed
<1>1. PICK l : l = Load(d)'
  OBVIOUS
<1>2. Available(l)
  <2>1. CASE d # c
    <3>1. l = Load(d) /\ d \notin exposed
      BY <1>1, <2>1, Saves DEF Load
    <3> QED
      BY <1>1, <3>1 DEF PinnedIndexed
  <2>2. CASE d = c
    <3>1. l \in {k, Load(c), NoCursor}
      BY <1>1, <2>2, Saves
    <3>2. ~NoCursor.live
      BY DEF NoCursor
    <3> QED
      BY <1>1, <2>2, <3>1, <3>2
  <2> QED
    BY <2>1, <2>2
<1> QED
  BY <1>1, <1>2 DEF Available

\* A collection keeps the indexes of a cursor that is not in its backup alone.
LEMMA Collected ==
  ASSUME Types, PinnedIndexed, NEW gens, indexes \subseteq gens, NEW g,
         NEW c \in Consumers, Load(c).live, c \notin exposed \union InBackupAlone
  PROVE  {Load(c).base, Load(c).target} \ {0} \subseteq Collect(gens, g)
<1>1. file[c].primary.live
  BY DEF InBackupAlone, Load
<1>2. {Load(c).base, Load(c).target} \subseteq Pinned
  BY <1>1 DEF Pinned
<1>3. {Load(c).base, Load(c).target} \ {0} \subseteq gens
  BY DEF PinnedIndexed, Available
<1> QED
  BY <1>2, <1>3 DEF Collect

\* A poll that makes a batch saves the cursor it aimed, with that batch.
LEMMA StoredBatch ==
  ASSUME Inv, NEW w \in Workers, PollBatch(w), NEW c \in Consumers, c = worker[w].consumer,
         NEW l \in Cursors, l = Load(c)
  PROVE  /\ Available(Aimed(l))
         /\ \E b \in Batches : LET k == [Aimed(l) EXCEPT !.pending = b] IN
              Store(c, k) \/ StoreStops(c, k)
<1> DEFINE a == Aimed(l)
           New(limit) == [id |-> batches + 1, limit |-> limit, next |-> Last(Batch(a, limit)),
                          more |-> Batch(a, limit) # Remaining(a)]
<1>1. PICK limit \in Limits : LET k == [a EXCEPT !.pending = New(limit)] IN
        Store(c, k) \/ StoreStops(c, k)
  BY DEF PollBatch
<1>2. Available(a) /\ Remaining(a) # {} /\ batches < MaxBatches
  BY DEF PollBatch
<1>3. a \in Cursors /\ limit \in Nat \ {0}
  BY CursorTypes, LimitsAssumption DEF Inv
<1>4. Batch(a, limit) # {} /\ Batch(a, limit) \subseteq 1..NumMessages
  BY <1>2, <1>3, BatchInOrder, NumbersAssumption DEF Messages
<1>5. Last(Batch(a, limit)) \in 1..NumMessages
  BY <1>4, LastIsLargest, NumbersAssumption
<1>6. New(limit) \in Batches
  BY <1>2, <1>5, NumbersAssumption DEF Inv, Types, Batches
<1> QED
  BY <1>1, <1>2, <1>6

\* Whatever fails, the indexes stay that the cursors name that are not exposed.
LEMMA IndexStep ==
  ASSUME Inv, PinnedIndexed, [Next]_vars
  PROVE  PinnedIndexed'
<1>1. CASE Refresh \/ Gc
  <2>1. PICK gens, g : indexes' = Collect(gens, g) /\ indexes \subseteq gens
    <3>1. CASE Refresh
      <4>1. PICK built : indexes' = Collect(indexes \union built, current + 1)
        BY <3>1 DEF Refresh
      <4> QED
        BY <4>1
    <3>2. CASE Gc
      BY <3>2 DEF Gc
    <3> QED
      BY <1>1, <3>1, <3>2
  <2>2. file' = file /\ exposed' = exposed \union InBackupAlone
    BY <1>1 DEF Refresh, Gc
  <2>3. ASSUME NEW c \in Consumers, Load(c)'.live, c \notin exposed' PROVE Available(Load(c))'
    <3>1. PICK k : k = Load(c)
      OBVIOUS
    <3>2. Load(c)' = k
      BY <2>2, <3>1 DEF Load
    <3>3. {k.base, k.target} \ {0} \subseteq Collect(gens, g)
      BY <2>1, <2>2, <2>3, <3>1, <3>2, Collected DEF Inv
    <3> QED
      BY <2>1, <3>2, <3>3 DEF Available
  <2> QED
    BY <2>3 DEF PinnedIndexed
<1>2. ASSUME file' = file, indexes \subseteq indexes', exposed' = exposed PROVE PinnedIndexed'
  BY <1>2 DEF PinnedIndexed, Load, Available
<1>3. ASSUME NEW w \in Workers, NEW c \in Consumers, Ensure(w, c) PROVE PinnedIndexed'
  BY <1>2, <1>3 DEF Ensure
<1>4. ASSUME NEW w \in Workers, PollNothing(w) \/ PollUnavailable(w) \/ Leave(w)
      PROVE  PinnedIndexed'
  BY <1>2, <1>4 DEF PollNothing, PollUnavailable, Leave
<1>5. ASSUME NEW w \in Workers, PollReplay(w) PROVE PinnedIndexed'
  <2>1. /\ Available(Load(worker[w].consumer)) /\ file' = file /\ indexes' = indexes
        /\ exposed' = exposed \ {worker[w].consumer}
    BY <1>5 DEF PollReplay
  <2> QED
    BY <2>1 DEF PinnedIndexed, Load, Available
<1>6. ASSUME NEW w \in Workers, Create(w) PROVE PinnedIndexed'
  <2>1. PICK c \in Consumers : c = worker[w].consumer
    BY <1>6, Polling DEF Inv, Create
  <2>2. PICK base \in {0, current} :
          LET k == [NoCursor EXCEPT !.live = TRUE, !.base = base] IN
          /\ Store(c, k) \/ StoreStops(c, k)
          /\ exposed' = IF Available(k) THEN exposed \ {c} ELSE exposed \union {c}
    BY <1>6, <2>1 DEF Create
  <2> DEFINE n == [NoCursor EXCEPT !.live = TRUE, !.base = base]
  <2>3. n \in Cursors
    BY <2>2, CursorTypes DEF Inv, Types
  <2>4. indexes' = indexes /\ ~Load(c).live
    BY <1>6, <2>1 DEF Create
  <2> HIDE DEF n
  <2>5. CASE Available(n)
    BY <2>2, <2>3, <2>4, <2>5, IndexSaved DEF Inv, n
  <2>6. CASE ~Available(n)
    <3>1. exposed' = exposed \union {c} /\ (Store(c, n) \/ StoreStops(c, n))
      BY <2>2, <2>6 DEF n
    <3>2. \A d \in Consumers \ {c} : Load(d)' = Load(d)
      BY <2>3, <3>1, Saves DEF Inv, Load
    <3> QED
      BY <2>4, <3>1, <3>2 DEF PinnedIndexed, Available
  <2> QED
    BY <2>5, <2>6
<1>7. ASSUME NEW w \in Workers, PollAdvance(w) \/ PollBatch(w) \/ Ack(w) PROVE PinnedIndexed'
  <2>1. PICK c \in Consumers : c = worker[w].consumer
    BY <1>7, Polling DEF Inv, PollAdvance, PollBatch, Ack
  <2>2. PICK l \in Cursors : l = Load(c)
    BY DEF Inv, Types, Load
  <2>3. indexes' = indexes /\ (exposed' = exposed \/ exposed' = exposed \ {c})
    BY <1>7, <2>1 DEF PollAdvance, PollBatch, Ack
  <2>4. Aimed(l) \in Cursors
    BY <2>2, CursorTypes DEF Inv
  <2>5. Available(Aimed(l)) => Available(l)
    BY DEF Available, Aimed, Cursors
  <2>6. CASE PollAdvance(w)
    <3>1. Available(Aimed(l)) /\ (Store(c, Advanced(Aimed(l))) \/ StoreStops(c, Advanced(Aimed(l))))
      BY <2>1, <2>2, <2>6 DEF PollAdvance
    <3>2. Advanced(Aimed(l)).base = Aimed(l).target /\ Advanced(Aimed(l)).target = 0
      BY <2>4 DEF Advanced, Cursors
    <3>3. Available(Advanced(Aimed(l))) /\ Advanced(Aimed(l)) \in Cursors
      BY <2>4, <3>1, <3>2, CursorTypes DEF Available, Inv
    <3> QED
      BY <2>2, <2>3, <2>5, <3>1, <3>3, IndexSaved DEF Inv
  <2>7. CASE PollBatch(w)
    <3>1. /\ Available(Aimed(l))
          /\ \E b \in Batches : LET k == [Aimed(l) EXCEPT !.pending = b] IN
               Store(c, k) \/ StoreStops(c, k)
      BY <2>1, <2>2, <2>7, StoredBatch
    <3>3. PICK b \in Batches : LET k == [Aimed(l) EXCEPT !.pending = b] IN
               Store(c, k) \/ StoreStops(c, k)
      BY <3>1
    <3>2. Available([Aimed(l) EXCEPT !.pending = b]) /\ [Aimed(l) EXCEPT !.pending = b] \in Cursors
      BY <2>4, <3>1 DEF Available, Cursors
    <3> QED
      BY <2>2, <2>3, <2>5, <3>1, <3>2, <3>3, IndexSaved DEF Inv
  <2>8. CASE Ack(w)
    <3>1. PICK k \in Cursors :
                   /\ k \in {[l EXCEPT !.position = l.pending.next, !.pending = NoBatch],
                             Advanced(l)}
                   /\ l.live /\ (Store(c, k) \/ StoreStops(c, k))
      BY <2>1, <2>2, <2>8, CursorTypes DEF Inv, Ack
    <3>2. exposed' = exposed
      BY <2>8 DEF Ack
    <3>3. (k.base = l.base /\ k.target = l.target) \/ (k.base = l.target /\ k.target = 0)
      <4>1. CASE k = [l EXCEPT !.position = l.pending.next, !.pending = NoBatch]
        BY <4>1 DEF Cursors
      <4>2. CASE k = Advanced(l)
        BY <4>2 DEF Advanced, Cursors
      <4> QED
        BY <3>1, <4>1, <4>2
    <3>4. c \notin exposed => Available(l) /\ Available(k)
      BY <2>2, <3>1, <3>3 DEF PinnedIndexed, Available
    <3> QED
      BY <2>2, <2>3, <3>1, <3>2, <3>4, IndexSaved DEF Inv
  <2> QED
    BY <1>7, <2>6, <2>7, <2>8
<1>8. ASSUME NEW c \in Consumers, Delete(c) PROVE PinnedIndexed'
  <2>1. PICK p \in {NoCursor, file[c].primary}, b \in {NoCursor, file[c].backup} :
          /\ file' = [file EXCEPT ![c] = [primary |-> p, backup |-> b]]
          /\ exposed' = IF ~p.live /\ b.live THEN exposed \union {c} ELSE exposed
          /\ indexes' = indexes
    BY <1>8 DEF Delete
  <2>2. ASSUME NEW d \in Consumers \ {c} PROVE Load(d)' = Load(d)
    BY <2>1 DEF Load, Inv, Types
  <2>3. Load(c)' = IF p.live THEN p ELSE b
    BY <2>1 DEF Load, Inv, Types
  <2>4. p.live => p = Load(c)
    BY DEF NoCursor, Load
  <2> QED
    BY <2>1, <2>2, <2>3, <2>4 DEF PinnedIndexed, Available
<1>9. CASE UNCHANGED vars
  BY <1>2, <1>9 DEF vars
<1> QED
  BY <1>1, <1>3, <1>4, <1>5, <1>6, <1>7, <1>8, <1>9 DEF Next, Poll

\* No collection removes an index a cursor needs to print its batch again, or to go on
\* (inbox.PinnedGenerations, messageindex.GarbageCollect), whatever index builds, saves
\* and deletions fail, for every cursor but those that PinnedIndexed names.
THEOREM PinnedStay == Spec => []PinnedIndexed
<1>1. Init => PinnedIndexed
  BY DEF Init, Load, NoCursor, PinnedIndexed
<1>2. Inv /\ PinnedIndexed /\ [Next]_vars => PinnedIndexed'
  BY IndexStep
<1> QED
  BY <1>1, <1>2, Invariance, PTL DEF Spec

==============================================================================
