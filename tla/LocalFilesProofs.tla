-------------------------- MODULE LocalFilesProofs --------------------------
(* Proofs about LocalFiles: exports keep what they do not replace, a consent  *)
(* is good for one request, pictures and media are what they are told to be,  *)
(* and an installation never leaves less than it found; for every number of   *)
(* processes, files, calls and faults.                                        *)
EXTENDS LocalFiles, SequenceTheorems, TLAPS

-----------------------------------------------------------------------------
(* Exports to one path. *)

Steps == {"prepare", "write", "link", "look", "save", "move", "restore", "drop", "end"}

\* Only a forced export moves a file away, and it has none before that.
OutputInv ==
  /\ v1 \in [Exporters -> Steps] /\ v2 \in [Exporters -> BOOLEAN]
  /\ v3 \in [Exporters -> Output!Files] /\ v4 \in [Exporters -> Output!Files]
  /\ v5 \in Output!Files /\ v7 \in 0..OutputFaults
  /\ v6 \in [Exporters -> {"none", "refused", "failed", "published", "killed"}]
  /\ \A e \in Exporters :
       /\ v3[e] \in {"none", "part", e}
       /\ v1[e] \in {"look", "save", "move", "restore", "drop"} => v2[e]
       /\ v1[e] \in {"prepare", "write", "link", "look", "save"} => v4[e] = "none"

\* While one operation at most has failed, one export at most has failed to publish,
\* and what is at the path while it puts another file back, or could still fail, is
\* not the old one.
Replaces(e) == v1[e] = "restore" \/ (v1[e] = "move" /\ v7 = 0)
RestoreInv ==
  v7 <= 1 =>
    /\ \A e, f \in Exporters : v1[e] = "restore" => v7 = 1 /\ (v1[f] = "restore" => e = f)
    /\ \A e \in Exporters : Replaces(e) /\ v4[e] \notin {"none", "old"} => v5 # "old"

\* No export is called like what else may be at the path.
LEMMA ExporterNames ==
  \A e \in Exporters : e \notin {"none", "old", "user", "link", "part"} /\ e \in Output!Files
BY NamesAssumption DEF Output!Files

\* The invariant of the exports holds at first.
LEMMA OutputInit == Output!Init => OutputInv /\ RestoreInv
<1> SUFFICES ASSUME Output!Init PROVE OutputInv /\ RestoreInv
  OBVIOUS
<1> USE DEF Output!Init
<1>1. v7 = 0 /\ 0 \in 0..OutputFaults
  BY BoundsAssumption
<1>2. OutputInv
  BY <1>1 DEF OutputInv, Output!Files, Steps
<1>3. RestoreInv
  BY DEF RestoreInv, Replaces
<1> QED
  BY <1>2, <1>3

\* Every step of an export and of other programs keeps it.
LEMMA OutputStep == OutputInv /\ [Output!Next]_(Output!vars) => OutputInv'
<1> SUFFICES ASSUME OutputInv, [Output!Next]_(Output!vars) PROVE OutputInv'
  OBVIOUS
<1> USE DEF OutputInv
<1>1. ASSUME NEW e \in Exporters, Output!Prepare(e) PROVE OutputInv'
  BY <1>1 DEF Output!Prepare, Output!Go, Output!End, Output!Files, Steps
<1>2. ASSUME NEW e \in Exporters, Output!Write(e) PROVE OutputInv'
  <2>1. v7' \in 0..OutputFaults
    BY <1>2, BoundsAssumption DEF Output!Write, Output!Fault
  <2> QED
    BY <1>2, <2>1, ExporterNames DEF Output!Write, Output!Go, Output!End, Output!Files, Steps
<1>3. ASSUME NEW e \in Exporters, Output!Link(e) PROVE OutputInv'
  <2>1. v7' \in 0..OutputFaults
    BY <1>3, BoundsAssumption DEF Output!Link, Output!Fault
  <2> QED
    BY <1>3, <2>1 DEF Output!Link, Output!Go, Output!End, Output!Files, Steps
<1>4. ASSUME NEW e \in Exporters, Output!Look(e) PROVE OutputInv'
  BY <1>4 DEF Output!Look, Output!Go, Steps, Output!Files
<1>5. ASSUME NEW e \in Exporters, Output!Save(e) PROVE OutputInv'
  <2>1. v7' \in 0..OutputFaults
    BY <1>5, BoundsAssumption DEF Output!Save, Output!Fault
  <2> QED
    BY <1>5, <2>1 DEF Output!Save, Output!Go, Output!End, Output!Files, Steps
<1>6. ASSUME NEW e \in Exporters, Output!Move(e) PROVE OutputInv'
  <2>1. v7' \in 0..OutputFaults
    BY <1>6, BoundsAssumption DEF Output!Move, Output!Fault
  <2> QED
    BY <1>6, <2>1 DEF Output!Move, Output!Go, Output!Files, Steps
<1>7. ASSUME NEW e \in Exporters, Output!Restore(e) PROVE OutputInv'
  <2>1. v7' \in 0..OutputFaults
    BY <1>7, BoundsAssumption DEF Output!Restore, Output!PutBack, Output!Fault
  <2> QED
    BY <1>7, <2>1 DEF Output!Restore, Output!PutBack, Output!Go, Output!End, Output!Files, Steps
<1>8. ASSUME NEW e \in Exporters, Output!Drop(e) \/ Output!Crash(e) PROVE OutputInv'
  BY <1>8 DEF Output!Drop, Output!Crash, Output!Go, Output!End, Output!Files, Steps
<1>9. CASE Output!OtherUse \/ UNCHANGED Output!vars
  BY <1>9 DEF Output!OtherUse, Output!vars, Output!Files
<1> QED
  BY <1>1, <1>2, <1>3, <1>4, <1>5, <1>6, <1>7, <1>8, <1>9 DEF Output!Next, Output!Step

\* So does RestoreInv: the failures are only counted up.
LEMMA RestoreStep == OutputInv /\ RestoreInv /\ [Output!Next]_(Output!vars) => RestoreInv'
<1> SUFFICES ASSUME OutputInv, RestoreInv, [Output!Next]_(Output!vars), v7' <= 1 PROVE RestoreInv'
  BY DEF RestoreInv
<1>0. v7 \in {0, 1} /\ (v7' = v7 + 1 => v7 = 0) /\ v7' \in {v7, v7 + 1}
  <2>1. v7' \in {v7, v7 + 1}
    BY DEF Output!Next, Output!Step, Output!vars, Output!Prepare, Output!Write, Output!Link,
       Output!Look, Output!Save, Output!Move, Output!Restore, Output!Drop, Output!Crash,
       Output!OtherUse, Output!Fault
  <2> QED
    BY <2>1, BoundsAssumption DEF OutputInv
<1> USE DEF RestoreInv, Replaces, OutputInv
<1>1. ASSUME NEW e \in Exporters, Output!Prepare(e) \/ Output!Look(e) \/ Output!Drop(e)
                                  \/ Output!Crash(e)
      PROVE  RestoreInv'
  BY <1>1 DEF Output!Prepare, Output!Look, Output!Drop, Output!Crash, Output!Go, Output!End
<1>2. ASSUME NEW e \in Exporters, Output!Write(e) PROVE RestoreInv'
  BY <1>0, <1>2 DEF Output!Write, Output!Fault, Output!Go, Output!End
<1>3. ASSUME NEW e \in Exporters, Output!Link(e) PROVE RestoreInv'
  BY <1>0, <1>3, ExporterNames DEF Output!Link, Output!Fault, Output!Go, Output!End
<1>5. ASSUME NEW e \in Exporters, Output!Save(e) PROVE RestoreInv'
  BY <1>0, <1>5 DEF Output!Save, Output!Fault, Output!Go, Output!End
<1>6. ASSUME NEW e \in Exporters, Output!Move(e) PROVE RestoreInv'
  BY <1>0, <1>6, ExporterNames DEF Output!Move, Output!Fault, Output!Go
<1>7. ASSUME NEW e \in Exporters, Output!Restore(e) PROVE RestoreInv'
  BY <1>0, <1>7 DEF Output!Restore, Output!PutBack, Output!Fault, Output!Go, Output!End
<1>9. CASE Output!OtherUse \/ UNCHANGED Output!vars
  BY <1>9 DEF Output!OtherUse, Output!vars
<1> QED
  BY <1>1, <1>2, <1>3, <1>5, <1>6, <1>7, <1>9 DEF Output!Next, Output!Step

\* An export without --force takes only a free path.
LEMMA OthersAreKept == OutputInv => Output!KeepsOthers
<1> SUFFICES ASSUME OutputInv, NEW e \in Exporters, ~v2[e], Output!Step(e)
             PROVE  v5' = v5 \/ v5 = "none"
  BY DEF Output!KeepsOthers
<1>1. v1[e] \notin {"save", "move", "restore"}
  BY DEF OutputInv
<1> QED
  BY <1>1 DEF Output!Step, Output!Prepare, Output!Write, Output!Link, Output!LinkFree,
     Output!Look,
     Output!Save, Output!Move, Output!Restore, Output!Drop

\* What was moved away is beside the path until an export has published.
LEMMA OldIsKept == OutputInv /\ RestoreInv => Output!KeepsOld
<1> DEFINE There == {v5} \union {v4[f] : f \in Exporters}
<1> SUFFICES ASSUME OutputInv, RestoreInv, NEW e \in Exporters, Output!Step(e) \/ Output!Crash(e),
                    "old" \in There, "old" \notin There'
             PROVE  v6'[e] = "published" \/ v1'[e] = "drop" \/ Output!Collides(e)
  BY DEF Output!KeepsOld
<1>1. ASSUME v5' = v5, v4' = v4 PROVE FALSE
  BY <1>1
<1>2. CASE Output!Prepare(e) \/ Output!Write(e) \/ Output!Look(e) \/ Output!Crash(e)
  BY <1>1, <1>2 DEF Output!Prepare, Output!Write, Output!Look, Output!Crash
<1>3. CASE Output!Link(e)
  <2>1. v4' = v4 /\ (v5' = v5 \/ v5 = "none")
    BY <1>3 DEF Output!Link, Output!LinkFree
  <2> QED
    BY <1>1, <2>1
<1>4. CASE Output!Save(e)
  <2>1. v4[e] = "none"
    BY <1>4 DEF Output!Save, OutputInv
  <2>2. v4' = [v4 EXCEPT ![e] = v5] \/ (v4' = v4 /\ v5' = v5)
    BY <1>4 DEF Output!Save
  <2>3. \A f \in Exporters \ {e} : v4'[f] = v4[f]
    BY <2>2 DEF OutputInv
  <2>4. CASE v4' = [v4 EXCEPT ![e] = v5]
    <3>1. v4'[e] = v5
      BY <2>4 DEF OutputInv
    <3> QED
      BY <2>1, <2>3, <3>1
  <2> QED
    BY <1>1, <2>2, <2>4
<1>5. CASE Output!Move(e)
  BY <1>1, <1>5 DEF Output!Move, Output!Go, OutputInv
<1>6. CASE Output!Restore(e)
  <2>1. CASE v4' = v4 /\ v5' = v5
    BY <1>1, <2>1
  <2>2. CASE v4[e] # "none" /\ v5' = v4[e] /\ v4' = [v4 EXCEPT ![e] = "none"]
    <3>1. v4[e] # "old"
      BY <2>2
    <3>2. CASE v5 = "old"
      <4>1. v1[e] = "restore" /\ v7 \in Nat /\ v7 > 1
        BY <1>6, <2>2, <3>1, <3>2, BoundsAssumption
        DEF OutputInv, RestoreInv, Replaces, Output!Restore
      <4> QED
        BY <2>2, <3>1, <3>2, <4>1 DEF Output!Collides
    <3>3. CASE v5 # "old"
      <4>1. PICK f \in Exporters : v4[f] = "old"
        BY <3>3
      <4>2. v4'[f] = v4[f]
        BY <2>2, <3>1, <4>1 DEF OutputInv
      <4> QED
        BY <4>1, <4>2
    <3> QED
      BY <3>2, <3>3
  <2> QED
    BY <1>6, <2>1, <2>2 DEF Output!Restore, Output!PutBack
<1>7. CASE Output!Drop(e)
  BY <1>7 DEF Output!Drop, Output!Go, Output!End, OutputInv
<1> QED
  BY <1>2, <1>3, <1>4, <1>5, <1>6, <1>7 DEF Output!Step

-----------------------------------------------------------------------------
(* The consent to one request. *)

Candidates == UNION {Consent!Candidates(d) : d \in Descriptors}

Challenges ==
  [file : {"pending", "used", "removed"}, evidence : Evidence, output : Outputs,
   generation : 1..MaxGenerations, candidate : Candidates, local : Consent!LocalTiers,
   issued : Nat, expires : Nat]

Requests ==
  [id : SUBSET Nat, evidence : Evidence, output : Outputs, generation : 1..MaxGenerations,
   candidate : Candidates, current : BOOLEAN]

Asking ==
  [at : {"lock", "reload", "issue", "consume", "check", "request"}, id : SUBSET Nat,
   evidence : Evidence, output : Outputs, generation : 1..MaxGenerations]
Writing == [at : {"publish"}, output : Outputs, payload : Consent!Answers]

ConsentTypes ==
  /\ v1 \in [1..MaxGenerations -> SUBSET Candidates]
  /\ v2 \in 1..MaxGenerations /\ v3 \in Nat /\ v4 \subseteq Calls
  /\ v5 \in [Calls -> {Consent!Idle} \union Asking \union Writing]
  /\ v6 \in Seq(Challenges) /\ v7 \in Seq(Requests)
  /\ v8 \in [Outputs -> {"none", "theirs"} \union Consent!Answers]

\* Whoever is past its lock has it; what it read of the account is then current.
HoldsLock(p) ==
  /\ v5[p].at \notin {"idle", "lock"} => v4 = {p}
  /\ v5[p].at \in {"issue", "consume", "check", "request"} => v5[p].generation = v2

\* A call has a challenge there is, or none; the one it consumed led to no request yet.
HasChallenge(p) ==
  /\ v5[p].at \in {"lock", "reload"} => v5[p].id = {} \/ \E n \in DOMAIN v6 : v5[p].id = {n}
  /\ v5[p].at \in {"consume", "check", "request"} => \E n \in DOMAIN v6 : v5[p].id = {n}
  /\ v5[p].at \in {"check", "request"} =>
       /\ \A n \in v5[p].id : v6[n].file # "pending"
       /\ \A i \in DOMAIN v7 : v7[i].id # v5[p].id
  /\ v5[p].at = "request" =>
       \A n \in v5[p].id :
         /\ v6[n].evidence = v5[p].evidence /\ v6[n].output = v5[p].output
         /\ v6[n].generation = v5[p].generation

\* A request was made with a challenge that was consumed and is for it.
Agreed(i) ==
  /\ v7[i].current
  /\ \E n \in DOMAIN v6 :
       /\ v7[i].id = {n} /\ v6[n].file # "pending"
       /\ v6[n].evidence = v7[i].evidence /\ v6[n].output = v7[i].output
       /\ v6[n].generation = v7[i].generation /\ v6[n].candidate = v7[i].candidate

ConsentInv ==
  /\ ConsentTypes
  /\ \A p \in Calls : HoldsLock(p) /\ HasChallenge(p)
  /\ \A i \in DOMAIN v7 : Agreed(i)
  /\ Consent!OneAttempt

\* The invariant of the consent holds at first.
LEMMA ConsentInit == Consent!Init => ConsentInv
<1> SUFFICES ASSUME Consent!Init PROVE ConsentInv
  OBVIOUS
<1> USE DEF Consent!Init
<1>1. v7 = <<>> /\ DOMAIN v7 = {}
  OBVIOUS
<1>2. v1 \in [1..MaxGenerations -> SUBSET Candidates]
  BY DEF Candidates
<1>3. v2 \in 1..MaxGenerations /\ v3 \in Nat /\ v4 \subseteq Calls
  BY BoundsAssumption
<1>4. v6 \in Seq(Challenges) /\ v7 \in Seq(Requests)
  OBVIOUS
<1>5. ConsentTypes
  BY <1>2, <1>3, <1>4 DEF ConsentTypes
<1>6. \A p \in Calls : HoldsLock(p) /\ HasChallenge(p)
  BY DEF HoldsLock, HasChallenge, Consent!Idle
<1> QED
  BY <1>1, <1>5, <1>6 DEF ConsentInv, Consent!OneAttempt

\* What a call does is one of three kinds of record.
LEMMA CallKinds ==
  ASSUME ConsentTypes, NEW p \in Calls
  PROVE  /\ v5[p].at = "idle" => v5[p] = Consent!Idle
         /\ v5[p].at \in {"lock", "reload", "issue", "consume", "check", "request"} => v5[p] \in Asking
         /\ v5[p].at = "publish" => v5[p] \in Writing
         /\ v5[p].at \in {"idle", "lock", "reload", "issue", "consume", "check", "request", "publish"}
BY DEF ConsentTypes, Asking, Writing, Consent!Idle

\* Expired challenges keep what they are for, and none is pending again.
LEMMA PrunedChallenges ==
  ASSUME ConsentTypes
  PROVE  /\ Consent!Pruned \in Seq(Challenges) /\ DOMAIN Consent!Pruned = DOMAIN v6
         /\ Len(Consent!Pruned) = Len(v6)
         /\ \A n \in DOMAIN v6 :
              /\ Consent!Pruned[n].evidence = v6[n].evidence
              /\ Consent!Pruned[n].output = v6[n].output
              /\ Consent!Pruned[n].generation = v6[n].generation
              /\ Consent!Pruned[n].candidate = v6[n].candidate
              /\ v6[n].file # "pending" => Consent!Pruned[n].file # "pending"
<1>1. \A n \in DOMAIN v6 : v6[n] \in Challenges
  BY DEF ConsentTypes
<1>2. ASSUME NEW c \in Challenges PROVE [c EXCEPT !.file = "removed"] \in Challenges
  BY DEF Challenges
<1>3. \A n \in DOMAIN v6 : Consent!Pruned[n] \in Challenges
  BY <1>1, <1>2 DEF Consent!Pruned
<1>4. DOMAIN v6 = 1..Len(v6) /\ Len(v6) \in Nat
  BY DEF ConsentTypes
<1>5. DOMAIN Consent!Pruned = 1..Len(v6)
  BY <1>4 DEF Consent!Pruned
<1>6. Consent!Pruned \in [1..Len(v6) -> Challenges]
  BY <1>3, <1>4, <1>5 DEF Consent!Pruned
<1>7. Consent!Pruned \in Seq(Challenges) /\ Len(Consent!Pruned) = Len(v6)
  BY <1>4, <1>6
<1>8. ASSUME NEW n \in DOMAIN v6
      PROVE  /\ Consent!Pruned[n].evidence = v6[n].evidence
             /\ Consent!Pruned[n].output = v6[n].output
             /\ Consent!Pruned[n].generation = v6[n].generation
             /\ Consent!Pruned[n].candidate = v6[n].candidate
             /\ v6[n].file # "pending" => Consent!Pruned[n].file # "pending"
  <2>1. Consent!Pruned[n] \in {v6[n], [v6[n] EXCEPT !.file = "removed"]}
    BY DEF Consent!Pruned
  <2> QED
    BY <1>1, <2>1 DEF Challenges
<1> QED
  BY <1>4, <1>5, <1>7, <1>8

\* What others rely on stays when one call changes and challenges only age or are added.
LEMMA OthersRely ==
  ASSUME ConsentInv, v7' = v7, NEW p \in Calls,
         \A q \in Calls \ {p} : v5'[q] = v5[q],
         DOMAIN v6 \subseteq DOMAIN v6',
         \A n \in DOMAIN v6 :
           /\ v6'[n].evidence = v6[n].evidence /\ v6'[n].output = v6[n].output
           /\ v6'[n].generation = v6[n].generation /\ v6'[n].candidate = v6[n].candidate
           /\ v6[n].file # "pending" => v6'[n].file # "pending"
  PROVE  /\ \A i \in DOMAIN v7 : Agreed(i)'
         /\ Consent!OneAttempt'
         /\ \A q \in Calls \ {p} : HasChallenge(q)'
<1>1. \A i \in DOMAIN v7 : Agreed(i)'
  BY DEF ConsentInv, Agreed
<1>2. Consent!OneAttempt'
  BY DEF ConsentInv, Consent!OneAttempt
<1>3. \A q \in Calls \ {p} : HasChallenge(q)'
  BY DEF ConsentInv, HasChallenge
<1> QED
  BY <1>1, <1>2, <1>3

\* A call that ends lets go of its lock and of nobody else's.
LEMMA Ended ==
  ASSUME ConsentInv, NEW p \in Calls, Consent!End(p), v2' = v2
  PROVE  /\ v4' \subseteq Calls /\ v5' \in [Calls -> {Consent!Idle} \union Asking \union Writing]
         /\ \A q \in Calls \ {p} : v5'[q] = v5[q]
         /\ \A q \in Calls : HoldsLock(q)'
         /\ HasChallenge(p)'
<1>1. v5'[p] = Consent!Idle /\ v4' \subseteq Calls /\ \A q \in Calls \ {p} : v5'[q] = v5[q]
  BY DEF Consent!End, ConsentInv, ConsentTypes
<1>2. v5' \in [Calls -> {Consent!Idle} \union Asking \union Writing]
  BY DEF Consent!End, ConsentInv, ConsentTypes
<1>3. HoldsLock(p)' /\ HasChallenge(p)'
  BY <1>1 DEF HoldsLock, HasChallenge, Consent!Idle
<1>4. ASSUME NEW q \in Calls \ {p} PROVE HoldsLock(q)'
  <2>1. HoldsLock(q) /\ v4' = v4 \ {p} /\ v5'[q] = v5[q]
    BY <1>1 DEF ConsentInv, Consent!End
  <2>2. v5[q].at \notin {"idle", "lock"} => v4' = {q}
    BY <2>1 DEF HoldsLock
  <2> QED
    BY <2>1, <2>2 DEF HoldsLock
<1> QED
  BY <1>1, <1>2, <1>3, <1>4

\* What of a call changes when it goes on.
LEMMA AskingStep ==
  ASSUME NEW c \in Asking, NEW step \in {"reload", "issue", "consume", "check", "request"},
         NEW d, d = [c EXCEPT !.at = step]
  PROVE  /\ d \in Asking /\ d.at = step /\ d.generation = c.generation
         /\ d.id = c.id /\ d.evidence = c.evidence /\ d.output = c.output
BY DEF Asking

\* The others are where they were.
LEMMA GoesOn ==
  ASSUME ConsentTypes, NEW p \in Calls, NEW d \in Asking, v5' = [v5 EXCEPT ![p] = d]
  PROVE  /\ v5'[p] = d /\ \A q \in Calls \ {p} : v5'[q] = v5[q]
         /\ v5' \in [Calls -> {Consent!Idle} \union Asking \union Writing]
BY DEF ConsentTypes

\* The lock is taken by a call when nobody has it.
LEMMA ConsentLocks ==
  ASSUME ConsentInv, NEW p \in Calls, Consent!Lock(p) \/ Consent!Reload(p)
  PROVE  ConsentInv'
<1>1. /\ v1' = v1 /\ v2' = v2 /\ v3' = v3 /\ v6' = v6 /\ v7' = v7 /\ v8' = v8
      /\ ConsentTypes /\ v5[p].at \in {"lock", "reload"}
  BY DEF Consent!Lock, Consent!Reload, ConsentInv
<1>2. CASE Consent!End(p)
  <2>1. ConsentTypes'
    BY <1>1, <1>2, Ended DEF ConsentTypes
  <2>2. \A q \in Calls : HoldsLock(q)' /\ (q # p => v5'[q] = v5[q])
    BY <1>1, <1>2, Ended
  <2>3. HasChallenge(p)'
    BY <1>1, <1>2, Ended
  <2>4. /\ \A i \in DOMAIN v7 : Agreed(i)'
        /\ Consent!OneAttempt' /\ \A q \in Calls \ {p} : HasChallenge(q)'
    BY <1>1, <2>2, OthersRely
  <2> QED
    BY <1>1, <2>1, <2>2, <2>3, <2>4 DEF ConsentInv
<1>3. CASE ~Consent!End(p)
  <2>0. v5[p] \in Asking /\ v5[p].generation \in 1..MaxGenerations /\ HasChallenge(p)
    BY <1>1, CallKinds DEF Asking, ConsentInv
  <2>1. PICK d \in Asking :
             /\ v5' = [v5 EXCEPT ![p] = d] /\ d.id = v5[p].id
             /\ v4' = {p} /\ \A q \in Calls \ {p} : v5[q].at \in {"idle", "lock"}
             /\ d.at \in {"reload", "issue", "consume"}
             /\ d.at \in {"issue", "consume"} => d.generation = v2
             /\ d.at = "consume" => v5[p].id # {}
    <3>1. CASE Consent!Lock(p)
      <4> DEFINE d == [v5[p] EXCEPT !.at = "reload"]
      <4>1. v4 = {} /\ v4' = {p} /\ v5' = [v5 EXCEPT ![p] = d]
        BY <1>3, <3>1 DEF Consent!Lock, Consent!To
      <4>a. d = [v5[p] EXCEPT !.at = "reload"]
        OBVIOUS
      <4> HIDE DEF d
      <4>2. d \in Asking /\ d.at = "reload" /\ d.id = v5[p].id
        BY <2>0, <4>a, AskingStep
      <4>3. \A q \in Calls \ {p} : v5[q].at \in {"idle", "lock"}
        BY <4>1 DEF ConsentInv, HoldsLock
      <4> QED
        BY <4>1, <4>2, <4>3
    <3>2. CASE Consent!Reload(p)
      <4> DEFINE step == IF v5[p].id = {} THEN "issue" ELSE "consume"
                 d == [v5[p] EXCEPT !.at = step, !.generation = v2]
      <4>1. v4' = v4 /\ v5' = [v5 EXCEPT ![p] = d] /\ v5[p].at = "reload"
        BY <1>3, <3>2 DEF Consent!Reload, Consent!To
      <4>2. step \in {"reload", "issue", "consume", "check", "request"} /\ v2 \in 1..MaxGenerations
        BY <1>1 DEF ConsentTypes
      <4>a. d = [v5[p] EXCEPT !.at = step, !.generation = v2]
        OBVIOUS
      <4>b. step = "consume" => v5[p].id # {}
        OBVIOUS
      <4> HIDE DEF d, step
      <4>3. d \in Asking /\ d.at = step /\ d.id = v5[p].id /\ d.generation = v2
        BY <2>0, <4>2, <4>a DEF Asking
      <4>4. v4 = {p} /\ \A q \in Calls \ {p} : v5[q].at \in {"idle", "lock"}
        BY <4>1 DEF ConsentInv, HoldsLock
      <4>5. step \in {"issue", "consume"}
        BY DEF step
      <4> QED
        BY <4>1, <4>b, <4>3, <4>4, <4>5
    <3> QED
      BY <3>1, <3>2
  <2>2. /\ v5'[p] = d /\ \A q \in Calls \ {p} : v5'[q] = v5[q]
        /\ v5' \in [Calls -> {Consent!Idle} \union Asking \union Writing]
    BY <1>1, <2>1, GoesOn
  <2>4. HasChallenge(p)'
    BY <1>1, <2>0, <2>1, <2>2 DEF HasChallenge
  <2>5. \A q \in Calls : HoldsLock(q)'
    BY <1>1, <2>1, <2>2 DEF HoldsLock
  <2>6. ConsentTypes'
    BY <1>1, <2>1, <2>2 DEF ConsentTypes
  <2>7. /\ \A i \in DOMAIN v7 : Agreed(i)'
        /\ Consent!OneAttempt' /\ \A q \in Calls \ {p} : HasChallenge(q)'
    BY <1>1, <2>2, OthersRely
  <2> QED
    BY <1>1, <2>4, <2>5, <2>6, <2>7 DEF ConsentInv
<1> QED
  BY <1>2, <1>3

\* A call starts with a challenge there is, or none.
LEMMA ConsentStarts ==
  ASSUME ConsentInv, NEW p \in Calls, NEW id \in {{}} \union {{n} : n \in DOMAIN v6},
         NEW e \in Evidence, NEW o \in Outputs, Consent!Start(p, id, e, o)
  PROVE  ConsentInv'
<1> DEFINE c == [at |-> "lock", id |-> id, evidence |-> e, output |-> o, generation |-> v2]
<1>1. /\ v5' = [v5 EXCEPT ![p] = c] /\ v1' = v1 /\ v2' = v2 /\ v3' = v3 /\ v4' = v4
      /\ v6' = v6 /\ v7' = v7 /\ v8' = v8
  BY DEF Consent!Start, Consent!To
<1>2. id \in SUBSET Nat
  <2>1. DOMAIN v6 \subseteq Nat
    BY DEF ConsentInv, ConsentTypes
  <2> QED
    BY <2>1
<1>3. c \in Asking
  BY <1>2 DEF Asking, ConsentInv, ConsentTypes
<1>4. v5'[p] = c /\ \A q \in Calls \ {p} : v5'[q] = v5[q]
  BY <1>1 DEF ConsentInv, ConsentTypes
<1>5. ConsentTypes'
  BY <1>1, <1>3 DEF ConsentInv, ConsentTypes
<1>6. \A q \in Calls : HoldsLock(q)'
  BY <1>1, <1>4 DEF ConsentInv, HoldsLock
<1>7. HasChallenge(p)'
  BY <1>1, <1>4 DEF HasChallenge
<1>8. /\ \A i \in DOMAIN v7 : Agreed(i)'
      /\ Consent!OneAttempt' /\ \A q \in Calls \ {p} : HasChallenge(q)'
  BY <1>1, <1>4, OthersRely
<1> QED
  BY <1>1, <1>5, <1>6, <1>7, <1>8 DEF ConsentInv

\* A call that ends with the challenges older or more keeps the invariant.
LEMMA ConsentEnds ==
  ASSUME ConsentInv, NEW p \in Calls, Consent!End(p), v7' = v7, v1' = v1, v2' = v2, v3' = v3,
         v8' \in [Outputs -> {"none", "theirs"} \union Consent!Answers],
         v6' \in Seq(Challenges), DOMAIN v6 \subseteq DOMAIN v6',
         \A n \in DOMAIN v6 :
           /\ v6'[n].evidence = v6[n].evidence /\ v6'[n].output = v6[n].output
           /\ v6'[n].generation = v6[n].generation /\ v6'[n].candidate = v6[n].candidate
           /\ v6[n].file # "pending" => v6'[n].file # "pending"
  PROVE  ConsentInv'
<1>1. ConsentTypes'
  BY Ended DEF ConsentInv, ConsentTypes
<1>2. \A q \in Calls : HoldsLock(q)' /\ (q # p => v5'[q] = v5[q])
  BY Ended
<1>3. HasChallenge(p)'
  BY Ended
<1>4. /\ \A i \in DOMAIN v7 : Agreed(i)'
      /\ Consent!OneAttempt' /\ \A q \in Calls \ {p} : HasChallenge(q)'
  BY <1>2, OthersRely
<1> QED
  BY <1>1, <1>2, <1>3, <1>4 DEF ConsentInv

\* A challenge is issued for what the call is for.
LEMMA ConsentIssues == ASSUME ConsentInv, NEW p \in Calls, Consent!Issue(p) PROVE ConsentInv'
<1>0. /\ Consent!End(p) /\ v1' = v1 /\ v2' = v2 /\ v3' = v3 /\ v7' = v7 /\ v8' = v8
      /\ ConsentTypes /\ v5[p].at = "issue"
  BY DEF Consent!Issue, ConsentInv
<1>1. v5[p] \in Asking
  BY <1>0, CallKinds
<1>2. PICK local \in Consent!LocalTiers :
        \/ v6' = v6 \/ v6' = Consent!Pruned
        \/ \E c \in Consent!Selected(v5[p].generation, local) :
             v6' = Append(Consent!Pruned, Consent!Record(p, c, local))
  BY DEF Consent!Issue
<1>3. /\ v6' \in Seq(Challenges) /\ DOMAIN v6 \subseteq DOMAIN v6'
      /\ \A n \in DOMAIN v6 :
           /\ v6'[n].evidence = v6[n].evidence /\ v6'[n].output = v6[n].output
           /\ v6'[n].generation = v6[n].generation /\ v6'[n].candidate = v6[n].candidate
           /\ v6[n].file # "pending" => v6'[n].file # "pending"
  <2>1. CASE v6' = v6
    BY <1>0, <2>1 DEF ConsentTypes
  <2>2. CASE v6' = Consent!Pruned
    BY <1>0, <2>2, PrunedChallenges
  <2>3. ASSUME NEW c \in Consent!Selected(v5[p].generation, local),
               v6' = Append(Consent!Pruned, Consent!Record(p, c, local))
        PROVE  /\ v6' \in Seq(Challenges) /\ DOMAIN v6 \subseteq DOMAIN v6'
               /\ \A n \in DOMAIN v6 :
                    /\ v6'[n].evidence = v6[n].evidence /\ v6'[n].output = v6[n].output
                    /\ v6'[n].generation = v6[n].generation /\ v6'[n].candidate = v6[n].candidate
                    /\ v6[n].file # "pending" => v6'[n].file # "pending"
    <3>1. c \in Candidates
      BY <1>0, <1>1 DEF Consent!Selected, Consent!Usable, ConsentTypes, Asking
    <3>2. v3 + TTL \in Nat
      BY <1>0, BoundsAssumption DEF ConsentTypes
    <3>3. Consent!Record(p, c, local) \in Challenges
      BY <1>0, <1>1, <3>1, <3>2 DEF Consent!Record, Challenges, Asking, ConsentTypes
    <3>4. v6' \in Seq(Challenges) /\ DOMAIN Consent!Pruned \subseteq DOMAIN v6'
          /\ \A n \in DOMAIN Consent!Pruned : v6'[n] = Consent!Pruned[n]
      BY <1>0, <2>3, <3>3, PrunedChallenges
    <3> QED
      BY <1>0, <3>4, PrunedChallenges
  <2> QED
    BY <1>2, <2>1, <2>2, <2>3
<1>4. v8' \in [Outputs -> {"none", "theirs"} \union Consent!Answers]
  BY <1>0 DEF ConsentTypes
<1> QED
  BY <1>0, <1>3, <1>4, ConsentEnds

\* What a call goes on to when its lock, and what it read of the account, stay.
LEMMA KeepsGoing ==
  ASSUME ConsentInv, NEW p \in Calls, v5[p] \in Asking,
         v5[p].at \in {"consume", "check"}, NEW at \in {"check", "request"},
         v2' = v2, Consent!Go(p, at)
  PROVE  /\ v4' = v4 /\ v5' \in [Calls -> {Consent!Idle} \union Asking \union Writing]
         /\ \A q \in Calls : HoldsLock(q)' /\ (q # p => v5'[q] = v5[q])
         /\ v5'[p].at = at /\ v5'[p].id = v5[p].id
         /\ v5'[p].evidence = v5[p].evidence /\ v5'[p].output = v5[p].output
         /\ v5'[p].generation = v5[p].generation
<1> DEFINE d == [v5[p] EXCEPT !.at = at]
<1>1. v4' = v4 /\ v5' = [v5 EXCEPT ![p] = d]
  BY DEF Consent!Go
<1>2. v5[p].generation \in 1..MaxGenerations
  BY DEF Asking
<1>a. d = [v5[p] EXCEPT !.at = at]
  OBVIOUS
<1> HIDE DEF d
<1>3. /\ d \in Asking /\ d.at = at /\ d.generation = v5[p].generation
      /\ d.id = v5[p].id /\ d.evidence = v5[p].evidence /\ d.output = v5[p].output
  BY <1>a, AskingStep
<1>4. /\ v5'[p] = d /\ \A q \in Calls \ {p} : v5'[q] = v5[q]
      /\ v5' \in [Calls -> {Consent!Idle} \union Asking \union Writing]
  BY <1>1, <1>3, GoesOn DEF ConsentInv
<1>5. \A q \in Calls : HoldsLock(q)'
  BY <1>1, <1>3, <1>4 DEF ConsentInv, HoldsLock
<1> QED
  BY <1>1, <1>3, <1>4, <1>5

\* A challenge is consumed once, and no request was made with one that is pending.
LEMMA ConsentConsumes == ASSUME ConsentInv, NEW p \in Calls, Consent!Consume(p) PROVE ConsentInv'
<1>0. /\ v1' = v1 /\ v2' = v2 /\ v3' = v3 /\ v7' = v7 /\ v8' = v8
      /\ ConsentTypes /\ v5[p].at = "consume" /\ HasChallenge(p)
  BY DEF Consent!Consume, ConsentInv
<1>1. v5[p] \in Asking
  BY <1>0, CallKinds
<1>2. PICK n \in DOMAIN v6 : v5[p].id = {n}
  BY <1>0 DEF HasChallenge
<1>3. Consent!Challenge(p) = v6[n]
  BY <1>2 DEF Consent!Challenge
<1>4. CASE v6[n].file # "pending"
  <2>1. Consent!End(p) /\ v6' = v6
    BY <1>3, <1>4 DEF Consent!Consume
  <2> QED
    BY <1>0, <2>1, ConsentEnds DEF ConsentTypes
<1>5. CASE v6[n].file = "pending"
  <2>1. v6' = [v6 EXCEPT ![n].file = "used"] /\ Consent!Go(p, "check")
    BY <1>2, <1>3, <1>5 DEF Consent!Consume
  <2>2. v6[n] \in Challenges
    BY <1>0, <1>2 DEF ConsentTypes
  <2>3. /\ v6'[n] \in Challenges /\ v6'[n].file = "used"
        /\ v6'[n].evidence = v6[n].evidence /\ v6'[n].output = v6[n].output
        /\ v6'[n].generation = v6[n].generation /\ v6'[n].candidate = v6[n].candidate
    BY <2>1, <2>2 DEF Challenges
  <2>4. DOMAIN v6' = DOMAIN v6 /\ \A m \in DOMAIN v6 \ {n} : v6'[m] = v6[m]
    BY <2>1
  <2>5. v6' \in Seq(Challenges)
    BY <1>0, <2>1, <2>3 DEF ConsentTypes
  <2>6. \A m \in DOMAIN v6 :
           /\ v6'[m].evidence = v6[m].evidence /\ v6'[m].output = v6[m].output
           /\ v6'[m].generation = v6[m].generation /\ v6'[m].candidate = v6[m].candidate
           /\ v6[m].file # "pending" => v6'[m].file # "pending"
    BY <2>3, <2>4
  <2>7. /\ v4' = v4 /\ v5' \in [Calls -> {Consent!Idle} \union Asking \union Writing]
        /\ \A q \in Calls : HoldsLock(q)' /\ (q # p => v5'[q] = v5[q])
        /\ v5'[p].at = "check" /\ v5'[p].id = {n}
    BY <1>0, <1>1, <1>2, <2>1, KeepsGoing
  <2>8. \A i \in DOMAIN v7 : v7[i].id # {n}
    BY <1>5 DEF ConsentInv, Agreed
  <2>9. HasChallenge(p)'
    BY <1>0, <1>2, <2>3, <2>4, <2>7, <2>8 DEF HasChallenge
  <2>10. /\ \A i \in DOMAIN v7 : Agreed(i)'
         /\ Consent!OneAttempt' /\ \A q \in Calls \ {p} : HasChallenge(q)'
    BY <1>0, <2>4, <2>6, <2>7, OthersRely
  <2>11. ConsentTypes'
    BY <1>0, <2>5, <2>7 DEF ConsentTypes
  <2> QED
    BY <1>0, <2>7, <2>9, <2>10, <2>11 DEF ConsentInv
<1> QED
  BY <1>4, <1>5

\* A request follows only for the message, the file and the snapshot of the challenge.
LEMMA ConsentChecks == ASSUME ConsentInv, NEW p \in Calls, Consent!Check(p) PROVE ConsentInv'
<1>0. /\ v1' = v1 /\ v2' = v2 /\ v3' = v3 /\ v6' = v6 /\ v7' = v7 /\ v8' = v8
      /\ ConsentTypes /\ v5[p].at = "check" /\ HasChallenge(p)
  BY DEF Consent!Check, ConsentInv
<1>1. v5[p] \in Asking
  BY <1>0, CallKinds
<1>2. PICK n \in DOMAIN v6 : v5[p].id = {n}
  BY <1>0 DEF HasChallenge
<1>3. Consent!Challenge(p) = v6[n]
  BY <1>2 DEF Consent!Challenge
<1>4. CASE Consent!End(p)
  BY <1>0, <1>4, ConsentEnds DEF ConsentTypes
<1>5. CASE ~Consent!End(p)
  <2>1. /\ Consent!Go(p, "request") /\ v6[n].evidence = v5[p].evidence /\ v6[n].output = v5[p].output
        /\ v6[n].generation = v5[p].generation
    BY <1>3, <1>5 DEF Consent!Check, Consent!Covers
  <2>2. /\ v4' = v4 /\ v5' \in [Calls -> {Consent!Idle} \union Asking \union Writing]
        /\ \A q \in Calls : HoldsLock(q)' /\ (q # p => v5'[q] = v5[q])
        /\ v5'[p].at = "request" /\ v5'[p].id = {n}
        /\ v5'[p].evidence = v5[p].evidence /\ v5'[p].output = v5[p].output
        /\ v5'[p].generation = v5[p].generation
    BY <1>0, <1>1, <1>2, <2>1, KeepsGoing
  <2>3. HasChallenge(p)'
    BY <1>0, <1>2, <2>1, <2>2 DEF HasChallenge
  <2>4. /\ \A i \in DOMAIN v7 : Agreed(i)'
        /\ Consent!OneAttempt' /\ \A q \in Calls \ {p} : HasChallenge(q)'
    BY <1>0, <2>2, OthersRely
  <2>5. ConsentTypes'
    BY <1>0, <2>2 DEF ConsentTypes
  <2> QED
    BY <1>0, <2>2, <2>3, <2>4, <2>5 DEF ConsentInv
<1> QED
  BY <1>4, <1>5

\* The request is the first with its challenge, and of the current snapshot.
LEMMA ConsentRequests == ASSUME ConsentInv, NEW p \in Calls, Consent!Request(p) PROVE ConsentInv'
<1>0. /\ v1' = v1 /\ v2' = v2 /\ v3' = v3 /\ v6' = v6 /\ v8' = v8
      /\ ConsentTypes /\ v5[p].at = "request" /\ HasChallenge(p) /\ HoldsLock(p)
  BY DEF Consent!Request, ConsentInv
<1>1. v5[p] \in Asking
  BY <1>0, CallKinds
<1>2. PICK n \in DOMAIN v6 : v5[p].id = {n}
  BY <1>0 DEF HasChallenge
<1> DEFINE r == [id |-> v5[p].id, evidence |-> v5[p].evidence, output |-> v5[p].output,
                 generation |-> v5[p].generation, candidate |-> v6[n].candidate,
                 current |-> v2 = v5[p].generation]
<1>8. Consent!Challenge(p) = v6[n]
  BY <1>2 DEF Consent!Challenge
<1>9. v6[n] \in Challenges
  BY <1>0 DEF ConsentTypes
<1>3. CASE v7' = v7 /\ Consent!End(p)
  BY <1>0, <1>3, ConsentEnds DEF ConsentTypes
<1>4. CASE v7' = Append(v7, r) /\ v4' \subseteq v4
               /\ (v5'[p] = Consent!Idle \/ (v5'[p] \in Writing /\ v4' = v4))
               /\ v5' = [v5 EXCEPT ![p] = v5'[p]]
  <2>1. r.current = TRUE /\ v4 = {p}
    BY <1>0 DEF HoldsLock
  <2>2. r \in Requests
    BY <1>1, <1>9, <2>1 DEF Requests, Asking, Challenges
  <2> DEFINE last == Len(v7) + 1
  <2>3. /\ v7' \in Seq(Requests) /\ DOMAIN v7' = DOMAIN v7 \union {last} /\ last \notin DOMAIN v7
        /\ v7'[last] = r /\ \A i \in DOMAIN v7 : v7'[i] = v7[i]
    BY <1>0, <1>4, <2>2 DEF ConsentTypes
  <2> HIDE DEF last
  <2>4. \A i \in DOMAIN v7 : Agreed(i)'
    BY <1>0, <2>3 DEF ConsentInv, Agreed
  <2>5. v7'[last].current /\ v7'[last].id = {n} /\ v7'[last].evidence = v5[p].evidence
        /\ v7'[last].output = v5[p].output
        /\ v7'[last].generation = v5[p].generation /\ v7'[last].candidate = v6[n].candidate
    BY <1>2, <2>1, <2>3
  <2>6. /\ v6[n].file # "pending" /\ v6[n].evidence = v5[p].evidence /\ v6[n].output = v5[p].output
        /\ v6[n].generation = v5[p].generation
    BY <1>0, <1>2 DEF HasChallenge
  <2>7. \E m \in DOMAIN v6' : /\ v7'[last].id = {m} /\ v6'[m].file # "pending"
                               /\ v6'[m].evidence = v7'[last].evidence /\ v6'[m].output = v7'[last].output
                               /\ v6'[m].generation = v7'[last].generation
                               /\ v6'[m].candidate = v7'[last].candidate
    BY <1>0, <2>5, <2>6
  <2>8. \A i \in DOMAIN v7' : Agreed(i)'
    BY <2>3, <2>4, <2>5, <2>7 DEF Agreed
  <2>9. \A i \in DOMAIN v7 : v7[i].id # {n}
    BY <1>0, <1>2 DEF HasChallenge
  <2>10. Consent!OneAttempt'
    BY <2>3, <2>5, <2>9 DEF ConsentInv, Consent!OneAttempt
  <2>11. \A q \in Calls \ {p} : v5'[q] = v5[q] /\ v5[q].at \in {"idle", "lock"}
    BY <1>0, <1>4, <2>1 DEF ConsentInv, ConsentTypes, HoldsLock
  <2>12. v5'[p].at \in {"idle", "publish"} /\ (v5'[p].at = "publish" => v4' = {p})
    BY <1>4, <2>1 DEF Consent!Idle, Writing
  <2>13. \A q \in Calls : HoldsLock(q)' /\ HasChallenge(q)'
    BY <1>0, <2>11, <2>12 DEF ConsentInv, HoldsLock, HasChallenge
  <2>14. ConsentTypes'
    BY <1>0, <1>4, <2>3 DEF ConsentTypes
  <2> QED
    BY <2>8, <2>10, <2>13, <2>14 DEF ConsentInv
<1>5. (v7' = v7 /\ Consent!End(p)) \/ v7' = Append(v7, r)
  BY <1>8 DEF Consent!Request
<1>6. CASE Consent!End(p)
  <2>1. v5'[p] = Consent!Idle /\ v5' = [v5 EXCEPT ![p] = v5'[p]] /\ v4' \subseteq v4
    BY <1>0, <1>6 DEF Consent!End, ConsentTypes
  <2> QED
    BY <1>3, <1>4, <1>5, <1>6, <2>1
<1>7. CASE ~Consent!End(p)
  <2>1. PICK answer \in Consent!Answers :
          v4' = v4 /\ v5' = [v5 EXCEPT ![p] =
                         [at |-> "publish", output |-> v5[p].output, payload |-> answer]]
    BY <1>7 DEF Consent!Request, Consent!To
  <2>2. [at |-> "publish", output |-> v5[p].output, payload |-> answer] \in Writing
    BY <1>1 DEF Asking, Writing
  <2>3. v5'[p] \in Writing /\ v5' = [v5 EXCEPT ![p] = v5'[p]]
    BY <1>0, <2>1, <2>2 DEF ConsentTypes
  <2> QED
    BY <1>4, <1>5, <1>7, <2>1, <2>3
<1> QED
  BY <1>6, <1>7

\* What is recovered is linked under a free name.
LEMMA ConsentPublishes == ASSUME ConsentInv, NEW p \in Calls, Consent!Publish(p) PROVE ConsentInv'
<1>1. /\ v1' = v1 /\ v2' = v2 /\ v3' = v3 /\ v6' = v6 /\ v7' = v7
      /\ ConsentTypes /\ v5[p].at = "publish" /\ Consent!End(p)
  BY DEF Consent!Publish, ConsentInv
<1>2. v5[p] \in Writing
  BY <1>1, CallKinds
<1>3. v8' \in [Outputs -> {"none", "theirs"} \union Consent!Answers]
  BY <1>1, <1>2 DEF Consent!Publish, ConsentTypes, Writing
<1> QED
  BY <1>1, <1>3, ConsentEnds DEF ConsentTypes

\* Every step of a call and of its surroundings keeps the invariant.
LEMMA ConsentStep == ConsentInv /\ [Consent!Next]_(Consent!vars) => ConsentInv'
<1> SUFFICES ASSUME ConsentInv, [Consent!Next]_(Consent!vars) PROVE ConsentInv'
  OBVIOUS
<1>1. ASSUME NEW p \in Calls, Consent!Crash(p) PROVE ConsentInv'
  BY <1>1, ConsentEnds DEF Consent!Crash, ConsentInv, ConsentTypes
<1>2. CASE Consent!NewGeneration
  <2>1. /\ v1' = v1 /\ v3' = v3 /\ v4' = v4 /\ v5' = v5 /\ v6' = v6 /\ v7' = v7 /\ v8' = v8
        /\ v4 = {} /\ v2' \in 1..MaxGenerations
    <3>1. v2 + 1 \in 1..MaxGenerations
      BY <1>2, BoundsAssumption DEF Consent!NewGeneration, ConsentInv, ConsentTypes
    <3> QED
      BY <1>2, <3>1 DEF Consent!NewGeneration
  <2>2. \A q \in Calls : v5[q].at \in {"idle", "lock"}
    BY <2>1 DEF ConsentInv, HoldsLock
  <2>3. \A q \in Calls : HoldsLock(q)' /\ HasChallenge(q)'
    BY <2>1, <2>2 DEF ConsentInv, HoldsLock, HasChallenge
  <2>4. (\A i \in DOMAIN v7' : Agreed(i)') /\ Consent!OneAttempt'
    BY <2>1 DEF ConsentInv, Agreed, Consent!OneAttempt
  <2>5. ConsentTypes'
    BY <2>1 DEF ConsentInv, ConsentTypes
  <2> QED
    BY <2>3, <2>4, <2>5 DEF ConsentInv
<1>3. CASE Consent!Tick \/ (\E o \in Outputs : Consent!SomebodyWrites(o)) \/ UNCHANGED Consent!vars
  <2>1. v1' = v1 /\ v2' = v2 /\ v4' = v4 /\ v5' = v5 /\ v6' = v6 /\ v7' = v7
    BY <1>3 DEF Consent!Tick, Consent!SomebodyWrites, Consent!vars
  <2>2. v3' \in Nat
    BY <1>3 DEF Consent!Tick, Consent!SomebodyWrites, Consent!vars, ConsentInv, ConsentTypes
  <2>3. v8' \in [Outputs -> {"none", "theirs"} \union Consent!Answers]
    BY <1>3 DEF Consent!Tick, Consent!SomebodyWrites, Consent!vars, ConsentInv, ConsentTypes
  <2>4. ConsentTypes'
    BY <2>1, <2>2, <2>3 DEF ConsentInv, ConsentTypes
  <2>5. \A q \in Calls : HoldsLock(q)' /\ HasChallenge(q)'
    BY <2>1 DEF ConsentInv, HoldsLock, HasChallenge
  <2>6. (\A i \in DOMAIN v7' : Agreed(i)') /\ Consent!OneAttempt'
    BY <2>1 DEF ConsentInv, Agreed, Consent!OneAttempt
  <2> QED
    BY <2>4, <2>5, <2>6 DEF ConsentInv
<1> QED
  BY <1>1, <1>2, <1>3, ConsentStarts, ConsentLocks, ConsentIssues, ConsentConsumes,
     ConsentChecks,
     ConsentRequests, ConsentPublishes DEF Consent!Next

\* A consent is good for one request, and for what the user saw.
LEMMA ConsentIsKept == ConsentInv => Consent!OneAttempt /\ Consent!AttemptAgreed
BY DEF ConsentInv, Agreed, Consent!AttemptAgreed

\* No step replaces a file.
LEMMA NothingOverwritten == ConsentInv /\ [Consent!Next]_(Consent!vars) => Consent!OverwritesNothing
BY DEF ConsentInv, ConsentTypes, Consent!Next, Consent!vars, Consent!OverwritesNothing,
   Consent!Start,
   Consent!Lock, Consent!Reload, Consent!Issue, Consent!Consume, Consent!Check, Consent!Request,
   Consent!Publish, Consent!Crash, Consent!NewGeneration, Consent!Tick, Consent!SomebodyWrites

-----------------------------------------------------------------------------
(* Pictures of a chat. *)

Found == {"a", "b", "wxgf", "broken", "none"}

\* What was answered was true of what was found, and nothing is looked at after it.
PictureInv ==
  /\ v1 \in [ImageFiles -> Picture!Tiers] /\ v4 \subseteq ImageFiles /\ v6 \in [ImageFiles -> Found]
  /\ Picture!BestPicture /\ Picture!MissingIsAbsent

\* The invariant of the pictures holds at first.
LEMMA PictureInit == Picture!Init => PictureInv
BY DEF Picture!Init, PictureInv, Found, Picture!Waiting, Picture!BestPicture,
   Picture!MissingIsAbsent,
   Picture!Exported

\* As long as the command looks, nothing is claimed.
LEMMA WaitingClaims ==
  ASSUME NEW kind \in {"resource_descriptor_unavailable", "local_mapping_unavailable",
                       "decoder_unavailable", "local_validation_failed", "content_conflict", "waiting"},
         v7' = [Picture!Waiting EXCEPT !.kind = kind]
  PROVE  (Picture!BestPicture /\ Picture!MissingIsAbsent)'
<1>1. v7'.kind = kind
  BY DEF Picture!Waiting
<1> QED
  BY <1>1 DEF Picture!BestPicture, Picture!MissingIsAbsent, Picture!Exported

\* What is told of an exported picture.
LEMMA DecideExports ==
  ASSUME PictureInv, NEW f \in Picture!BestTier,
         Picture!OnePicture,
         v1' = v1, v4' = v4, v6' = v6,
         v7' = [kind |-> "exported", file |-> f, digest |-> v6[f], higher |-> Picture!Higher(f)]
  PROVE  (Picture!BestPicture /\ Picture!MissingIsAbsent)'
<1>1. /\ v7'.kind = "exported" /\ v7'.file = f /\ v7'.digest = v6[f] /\ v7'.higher = Picture!Higher(f)
  OBVIOUS
<1>2. f \in ImageFiles /\ f \in Picture!Verified
  BY DEF PictureInv, Picture!BestTier, Picture!Verified
<1>3. ASSUME NEW g \in Picture!Verified
      PROVE  /\ Picture!Rank(v1[g]) <= Picture!Rank(v1[f])
             /\ v1[g] = v1[f] => v6[g] = v6[f]
  <2>1. Picture!Rank(v1[g]) <= Picture!Rank(v1[f])
    BY DEF Picture!BestTier
  <2>2. ASSUME v1[g] = v1[f] PROVE v6[g] = v6[f]
    <3>1. g \in Picture!BestTier
      BY <2>2 DEF Picture!BestTier
    <3> QED
      BY <2>2, <3>1 DEF Picture!OnePicture
  <2> QED
    BY <2>1, <2>2
<1>4. ASSUME Picture!Higher(f) = "missing", NEW g \in Picture!Above(f) PROVE v6[g] = "none"
  <2>1. v6[g] \in Found /\ g \in v4 /\ g \in ImageFiles
    BY DEF PictureInv, Picture!Above
  <2>2. v6[g] \notin {"a", "b"}
    <3>1. Picture!Rank(v1[g]) \in Nat /\ Picture!Rank(v1[f]) \in Nat
      BY DEF Picture!Rank
    <3>2. Picture!Rank(v1[g]) > Picture!Rank(v1[f])
      BY DEF Picture!Above
    <3>3. g \notin Picture!Verified
      BY <1>3, <3>1, <3>2
    <3> QED
      BY <2>1, <3>3 DEF Picture!Verified
  <2>3. v6[g] \notin {"wxgf", "broken"}
    BY <1>4 DEF Picture!Higher
  <2> QED
    BY <2>1, <2>2, <2>3 DEF Found
<1>5. Picture!BestPicture'
  BY <1>1, <1>3 DEF Picture!BestPicture, Picture!Verified, Picture!Rank
<1>6. Picture!MissingIsAbsent'
  BY <1>1, <1>4 DEF Picture!MissingIsAbsent, Picture!Above, Picture!Rank
<1> QED
  BY <1>5, <1>6

\* Every step of the command keeps it.
LEMMA PictureStep == PictureInv /\ [Picture!Next]_(Picture!vars) => PictureInv'
<1> SUFFICES ASSUME PictureInv, [Picture!Next]_(Picture!vars) PROVE PictureInv'
  OBVIOUS
<1>0. v7 = Picture!Waiting => v7 = [Picture!Waiting EXCEPT !.kind = "waiting"]
  BY DEF Picture!Waiting
<1>1. CASE Picture!Locate
  <2>1. v1' = v1 /\ v6' = v6 /\ v4' \subseteq ImageFiles
    BY <1>1 DEF Picture!Locate, PictureInv
  <2>2. PICK kind \in {"resource_descriptor_unavailable", "local_mapping_unavailable", "waiting"} :
          v7' = [Picture!Waiting EXCEPT !.kind = kind]
    BY <1>0, <1>1 DEF Picture!Locate, Picture!Answer
  <2> QED
    BY <2>1, <2>2, WaitingClaims DEF PictureInv
<1>2. ASSUME NEW f \in ImageFiles, Picture!Look(f) PROVE PictureInv'
  <2>1. v1' = v1 /\ v4' = v4 /\ v7' = [Picture!Waiting EXCEPT !.kind = "waiting"]
    BY <1>0, <1>2 DEF Picture!Look
  <2>2. v6' \in [ImageFiles -> Found]
    BY <1>2 DEF Picture!Look, Picture!Read, Picture!Contents, PictureInv, Found
  <2> QED
    BY <2>1, <2>2, WaitingClaims DEF PictureInv
<1>3. CASE Picture!Decide
  <2>1. v1' = v1 /\ v4' = v4 /\ v6' = v6
    BY <1>3 DEF Picture!Decide
  <2>2. CASE Picture!Verified = {}
    <3>1. CASE \A f \in v4 : v6[f] = "none"
      <4>1. v7' = [Picture!Waiting EXCEPT !.kind = "local_file_missing"]
        BY <1>3, <2>2, <3>1 DEF Picture!Decide, Picture!Answer
      <4>2. v7'.kind = "local_file_missing"
        BY <4>1 DEF Picture!Waiting
      <4> QED
        BY <2>1, <3>1, <4>2 DEF PictureInv, Picture!BestPicture, Picture!MissingIsAbsent,
           Picture!Exported
    <3>2. CASE ~\A f \in v4 : v6[f] = "none"
      <4>1. PICK kind \in {"decoder_unavailable", "local_validation_failed"} :
              v7' = [Picture!Waiting EXCEPT !.kind = kind]
        BY <1>3, <2>2, <3>2 DEF Picture!Decide, Picture!Answer
      <4> QED
        BY <2>1, <4>1, WaitingClaims DEF PictureInv
    <3> QED
      BY <3>1, <3>2
  <2>3. CASE Picture!Verified # {} /\ ~Picture!OnePicture
    <3>1. v7' = [Picture!Waiting EXCEPT !.kind = "content_conflict"]
      BY <1>3, <2>3 DEF Picture!Decide, Picture!Answer
    <3> QED
      BY <2>1, <3>1, WaitingClaims DEF PictureInv
  <2>4. CASE Picture!Verified # {} /\ Picture!OnePicture
    <3>1. PICK f \in Picture!BestTier :
            v7' = [kind |-> "exported", file |-> f, digest |-> v6[f], higher |-> Picture!Higher(f)]
      BY <1>3, <2>4 DEF Picture!Decide
    <3>2. (Picture!BestPicture /\ Picture!MissingIsAbsent)'
      BY <2>1, <2>4, <3>1, DecideExports
    <3> QED
      BY <2>1, <3>2 DEF PictureInv
  <2> QED
    BY <2>2, <2>3, <2>4
<1>4. CASE UNCHANGED Picture!vars
  BY <1>4 DEF Picture!vars, PictureInv, Picture!BestPicture, Picture!MissingIsAbsent,
     Picture!Exported, Picture!Verified, Picture!Above, Picture!Rank
<1> QED
  BY <1>1, <1>2, <1>3, <1>4 DEF Picture!Next

-----------------------------------------------------------------------------
(* Media of a moment. *)

Plain == {"a", "b", "none"}
Verdicts == {Moment!Unseen, Moment!Rejected} \union
            [digest : {"a", "b"}, source : Moment!Contents, rank : 0..3]
Artifacts == [source : {"none", "cache", "cdn"}, file : {"none", "download"} \union CacheFiles,
              data : Plain \union Moment!Payloads, digest : Plain, writes : Nat]

MomentTypes ==
  /\ v1 \in Moment!Jobs /\ v2 \in [CacheFiles -> Moment!Contents]
  /\ v3 \in {"find", "scan", "read", "remote", "decode", "copy", "publish", "end"}
  /\ v4 \in [CacheFiles -> Verdicts] /\ v5 \in {"none"} \union CacheFiles
  /\ v7 \in Artifacts /\ v9 \in Nat /\ v13 \in Nat

\* Whether the bytes to be written are those that were verified.
Kept == v1.kind = "video" /\ v7.source = "cache" => v13 = v7.writes

\* A file that was bound is one of the best, all of which agree; what is kept of the
\* media agrees with what is told of it up to the target; and the network is used
\* once, by who may, if at all.
MomentInv ==
  /\ MomentTypes
  /\ v3 \in {"find", "scan"} => v5 = "none" /\ v9 = 0
  /\ v3 = "remote" => v5 = "none" /\ v9 = 0
  /\ v3 \in {"find", "scan", "read", "remote"} => v8 = "none" /\ v10 = "none"
  /\ v5 # "none" => v5 \in Moment!Best /\ Moment!Agree
  /\ v3 = "read" => v5 # "none"
  /\ v7.source = "cache" => v5 # "none" /\ v7.digest = v4[v5].digest
  /\ v3 \in {"find", "scan", "read", "remote"} => v7 = Moment!NoArtifact
  /\ v3 \in {"decode", "copy"} => v10 = "none"
  /\ v3 = "copy" /\ Kept => \/ v7.file = "none" /\ v7.data = v7.digest
                            \/ v7.file = "download" /\ v8 = v7.digest
                            \/ v7.file \in CacheFiles /\ v2[v7.file] = v7.digest
  /\ v7.file \in CacheFiles => v1.kind = "video" /\ v7.source = "cache"
  /\ v7.writes <= v13
  /\ v3 = "publish" /\ Kept => v10 = v7.digest
  /\ v12 = "published" => v3 = "end"
  /\ Moment!WrittenIsVerified /\ Moment!TokenOnlyWithConsent /\ Moment!NothingLeft

\* The rank of what was rejected or not seen is none a verified file has.
LEMMA Ranks ==
  ASSUME v4 \in [CacheFiles -> Verdicts], NEW f \in CacheFiles,
         v4[f] \notin {Moment!Unseen, Moment!Rejected},
         NEW g \in CacheFiles, v4[g].rank = v4[f].rank
  PROVE  v4[g] \notin {Moment!Unseen, Moment!Rejected}
BY DEF Verdicts, Moment!Unseen, Moment!Rejected

\* The invariant of the media holds at first.
LEMMA MomentInit == Moment!Init => MomentInv
<1> SUFFICES ASSUME Moment!Init PROVE MomentInv
  OBVIOUS
<1> USE DEF Moment!Init
<1>1. /\ v7 = Moment!NoArtifact /\ v7 \in Artifacts /\ v7.source = "none" /\ v7.file = "none"
      /\ v7.writes = 0 /\ v13 = 0
  BY DEF Moment!NoArtifact, Artifacts, Plain
<1>2. MomentTypes
  BY <1>1 DEF MomentTypes, Verdicts
<1> QED
  BY <1>1, <1>2, NamesAssumption DEF MomentInv, Moment!WrittenIsVerified, Moment!TokenOnlyWithConsent,
     Moment!NothingLeft, Moment!Published

\* Up to the decision for a file or the network, only what was seen changes.
LEMMA MomentLooks ==
  ASSUME MomentInv, Moment!Find \/ (\E f \in CacheFiles : Moment!Verify(f)) PROVE MomentInv'
<1>1. /\ v1' = v1 /\ v2' = v2 /\ v5' = v5 /\ v7' = v7 /\ v8' = v8 /\ v9' = v9 /\ v10' = v10 /\ v11' = v11
      /\ v13' = v13
      /\ v3 \in {"find", "scan"} /\ v3' \in {"scan", "end"}
      /\ v12' = v12 \/ v12' \in {"output_exists", "not_found", "ambiguous"}
  BY DEF Moment!Find, Moment!Verify, Moment!Fail
<1>2. v4' \in [CacheFiles -> Verdicts]
  <2>1. CASE Moment!Find
    BY <2>1 DEF Moment!Find, MomentInv, MomentTypes
  <2>2. ASSUME NEW f \in CacheFiles, Moment!Verify(f) PROVE v4' \in [CacheFiles -> Verdicts]
    <3>1. PICK proof \in {"hardlink", "url"} :
            v4' = [v4 EXCEPT ![f] =
              IF Moment!Decoded(v2[f]) = "none" THEN Moment!Rejected
              ELSE [digest |-> Moment!Decoded(v2[f]), source |-> v2[f],
                    rank |-> Moment!Rank(v2[f], proof)]]
      BY <2>2 DEF Moment!Verify
    <3>2. Moment!Decoded(v2[f]) \in {"a", "b", "none"}
      BY DEF Moment!Decoded
    <3>3. Moment!Rank(v2[f], proof) \in 0..3
      BY DEF Moment!Rank
    <3>4. v2[f] \in Moment!Contents
      BY DEF MomentInv, MomentTypes
    <3>5. [digest |-> Moment!Decoded(v2[f]), source |-> v2[f], rank |-> Moment!Rank(v2[f], proof)]
            \in Verdicts \/ Moment!Decoded(v2[f]) = "none"
      BY <3>2, <3>3, <3>4 DEF Verdicts
    <3> QED
      BY <3>1, <3>5 DEF MomentInv, MomentTypes, Verdicts
  <2> QED
    BY <2>1, <2>2
<1>3. v5 = "none" /\ v9 = 0 /\ v8 = "none" /\ v10 = "none" /\ v7 = Moment!NoArtifact
  BY <1>1 DEF MomentInv
<1>4. MomentTypes'
  BY <1>1, <1>2 DEF MomentInv, MomentTypes
<1>5. v12' # "published"
  BY <1>1 DEF MomentInv
<1> QED
  BY <1>1, <1>3, <1>4, <1>5 DEF MomentInv, Moment!WrittenIsVerified,
     Moment!TokenOnlyWithConsent,
     Moment!NothingLeft, Moment!Published, Moment!NoArtifact

\* After the scan a step that leaves the call, the scan and the choice alone keeps
\* what the invariant says of them.
LEMMA ChoiceStays ==
  ASSUME MomentInv, v1' = v1, v4' = v4, v5' = v5
  PROVE  v5' # "none" => (v5 \in Moment!Best /\ Moment!Agree)'
BY DEF MomentInv, Moment!Best, Moment!Agree

\* The choice of a file, or for the network.
LEMMA MomentChooses ==
  ASSUME MomentInv, Moment!Choose PROVE MomentInv'
<1>1. /\ v1' = v1 /\ v2' = v2 /\ v4' = v4 /\ v7' = v7 /\ v8' = v8 /\ v9' = v9 /\ v10' = v10 /\ v12' = v12
      /\ v13' = v13 /\ v3 = "scan" /\ v3' \in {"read", "remote"}
  BY DEF Moment!Choose
<1>2. /\ v5 = "none" /\ v9 = 0 /\ v8 = "none" /\ v10 = "none" /\ v7 = Moment!NoArtifact
      /\ v12 # "published"
  BY <1>1 DEF MomentInv
<1>3. \/ v3' = "read" /\ v5' \in Moment!Best /\ Moment!Agree
      \/ v3' = "remote" /\ v5' = "none"
  BY <1>1, <1>2 DEF Moment!Choose
<1>4. v5' # "none" => (v5 \in Moment!Best /\ Moment!Agree)'
  BY <1>1, <1>3 DEF Moment!Best, Moment!Agree
<1>5. /\ v5' \in {"none"} \union CacheFiles
      /\ v3' = "remote" => v5' = "none"
      /\ v3' = "read" => v5' # "none"
  BY <1>3, NamesAssumption DEF Moment!Best
<1>6. MomentTypes'
  BY <1>1, <1>5 DEF MomentInv, MomentTypes
<1> QED
  BY <1>1, <1>2, <1>4, <1>5, <1>6 DEF MomentInv, Moment!WrittenIsVerified,
     Moment!TokenOnlyWithConsent, Moment!NothingLeft, Moment!Published, Moment!NoArtifact

\* A file that is bound is read as it was verified, or not used.
LEMMA MomentReads ==
  ASSUME MomentInv, Moment!ReadLocal PROVE MomentInv'
<1>1. /\ v1' = v1 /\ v2' = v2 /\ v4' = v4 /\ v5' = v5 /\ v8' = v8 /\ v9' = v9 /\ v10' = v10 /\ v11' = v11
      /\ v13' = v13 /\ v3 = "read"
  BY DEF Moment!ReadLocal
<1>2. /\ v8 = "none" /\ v10 = "none" /\ v7 = Moment!NoArtifact /\ v12 # "published"
  BY <1>1 DEF MomentInv
<1>3. v5' # "none" => (v5 \in Moment!Best /\ Moment!Agree)'
  BY <1>1, ChoiceStays
<1>4. CASE ~Moment!Unchanged(v5)
  <2>1. v3' = "end" /\ v12' = "verify_failed" /\ v7' = v7
    BY <1>4 DEF Moment!ReadLocal, Moment!Fail
  <2>2. MomentTypes'
    BY <1>1, <2>1 DEF MomentInv, MomentTypes
  <2> QED
    BY <1>1, <1>2, <1>3, <2>1, <2>2 DEF MomentInv, Moment!WrittenIsVerified,
       Moment!TokenOnlyWithConsent, Moment!NothingLeft, Moment!Published, Moment!NoArtifact
<1>5. CASE Moment!Unchanged(v5)
  <2>1. /\ v7' = [source |-> "cache", file |-> IF Moment!ByPath THEN v5 ELSE "none",
                  data |-> IF Moment!ByPath THEN "none" ELSE Moment!Decoded(v2[v5]),
                  digest |-> Moment!Decoded(v2[v5]), writes |-> v13]
        /\ v3' = "copy" /\ v12' = v12
    BY <1>5 DEF Moment!ReadLocal
  <2>2. Moment!Decoded(v2[v5]) = v4[v5].digest
    BY <1>5 DEF Moment!Unchanged
  <2>3. Moment!Decoded(v2[v5]) \in Plain
    BY DEF Moment!Decoded, Plain
  <2>8. v5 # "none"
    BY <1>1 DEF MomentInv
  <2>9. Moment!ByPath => v1.kind = "video" /\ v2[v5] = Moment!Decoded(v2[v5])
    <3>1. Moment!Decoded(v2[v5]) # "none"
      <4>1. v4[v5] \notin {Moment!Unseen, Moment!Rejected} /\ v4[v5] \in Verdicts
        BY <2>8 DEF MomentInv, MomentTypes, Moment!Best
      <4> QED
        BY <2>2, <4>1 DEF Verdicts
    <3> QED
      BY <3>1 DEF Moment!ByPath, Moment!Decoded
  <2>4. v7' \in Artifacts
    BY <2>1, <2>3 DEF Artifacts, MomentInv, MomentTypes, Plain
  <2>5. v7'.source = "cache" /\ v7'.digest = v4[v5].digest
    BY <2>1, <2>2
  <2>6. IF Moment!ByPath THEN v7'.file = v5 /\ v2[v5] = v7'.digest /\ v1.kind = "video"
        ELSE v7'.file = "none" /\ v7'.data = v7'.digest
    BY <2>1, <2>9 DEF Moment!ByPath
  <2>7. MomentTypes'
    BY <1>1, <2>1, <2>4 DEF MomentInv, MomentTypes
  <2>10. v7'.writes = v13 /\ v7'.writes <= v13' /\ "none" \notin CacheFiles /\ v5 \in CacheFiles
    BY <1>1, <2>1, <2>8, NamesAssumption DEF MomentInv, MomentTypes
  <2> QED
    BY <1>1, <1>2, <1>3, <2>1, <2>5, <2>6, <2>7, <2>8, <2>10 DEF MomentInv, Moment!WrittenIsVerified,
       Moment!TokenOnlyWithConsent, Moment!NothingLeft, Moment!Published
<1> QED
  BY <1>4, <1>5

\* The one request.
LEMMA MomentRequests ==
  ASSUME MomentInv, Moment!Request PROVE MomentInv'
<1>1. /\ v1' = v1 /\ v2' = v2 /\ v4' = v4 /\ v5' = v5 /\ v10' = v10 /\ v11' = v11 /\ v13' = v13 /\ v3 = "remote"
  BY DEF Moment!Request
<1>2. /\ v5 = "none" /\ v9 = 0 /\ v8 = "none" /\ v10 = "none" /\ v7 = Moment!NoArtifact
      /\ v12 # "published"
  BY <1>1 DEF MomentInv
<1>3. v9' = 0 \/ (v9' = 1 /\ v1.allow)
  <2>1. v9' = v9 \/ (v9' = v9 + 1 /\ v1.allow)
    BY DEF Moment!Request, Moment!Allowed
  <2> QED
    BY <1>2, <2>1
<1>4. \/ v7' = v7 /\ v8' = v8 /\ v3' = "end"
        /\ v12' \in {"descriptor_missing", "url_rejected", "authorization_required", "download_failed"}
      \/ /\ v3' = "decode" /\ v12' = v12
         /\ \E payload \in Moment!Payloads :
              v7' = [source |-> "cdn", file |-> "none", data |-> payload, digest |-> "none",
                      writes |-> 0]
  BY DEF Moment!Request, Moment!Fail, Moment!NoArtifact
<1>5. /\ v7' \in Artifacts /\ v7'.source # "cache" /\ v7'.file = "none" /\ v7'.writes = 0
      /\ "none" \notin CacheFiles /\ v13 \in Nat
  <2>1. /\ Moment!NoArtifact \in Artifacts /\ Moment!NoArtifact.source # "cache"
        /\ Moment!NoArtifact.file = "none" /\ Moment!NoArtifact.writes = 0
    BY DEF Artifacts, Moment!NoArtifact, Plain
  <2>2. ASSUME NEW payload \in Moment!Payloads,
               v7' = [source |-> "cdn", file |-> "none", data |-> payload, digest |-> "none",
                      writes |-> 0]
        PROVE  v7' \in Artifacts /\ v7'.source # "cache" /\ v7'.file = "none" /\ v7'.writes = 0
    BY <2>2 DEF Artifacts, Plain
  <2> QED
    BY <1>2, <1>4, <2>1, <2>2, NamesAssumption DEF MomentInv, MomentTypes
<1>6. MomentTypes'
  BY <1>1, <1>3, <1>4, <1>5 DEF MomentInv, MomentTypes
<1>7. Moment!TokenOnlyWithConsent'
  BY <1>1, <1>2, <1>3 DEF Moment!TokenOnlyWithConsent
<1> QED
  BY <1>1, <1>2, <1>4, <1>5, <1>6, <1>7 DEF MomentInv, Moment!WrittenIsVerified,
     Moment!NothingLeft, Moment!Published

\* The bytes of the network are what is told of them, or leave nothing.
LEMMA MomentDecodes ==
  ASSUME MomentInv, Moment!Decode PROVE MomentInv'
<1>1. /\ v1' = v1 /\ v2' = v2 /\ v4' = v4 /\ v5' = v5 /\ v9' = v9 /\ v10' = v10 /\ v11' = v11 /\ v13' = v13 /\ v3 = "decode"
  BY DEF Moment!Decode
<1>2. v10 = "none" /\ v12 # "published"
  BY <1>1 DEF MomentInv
<1>3. v5' # "none" => (v5 \in Moment!Best /\ Moment!Agree)'
  BY <1>1, ChoiceStays
<1>4. \/ v7' = v7 /\ v8' = "none" /\ v3' = "end" /\ v12' \in {"descriptor_missing", "verify_failed"}
      \/ /\ v3' = "copy" /\ v12' = v12
         /\ \E plain \in {"a"} :
              /\ v7' = [source |-> "cdn", digest |-> plain, writes |-> 0,
                        file |-> IF v1.kind = "video" THEN "download" ELSE "none",
                        data |-> IF v1.kind = "image" THEN plain ELSE "none"]
              /\ v8' = IF v1.kind = "video" THEN plain ELSE "none"
  BY DEF Moment!Decode, Moment!Fail, Moment!DropBroken, Moment!Deciphered
<1>5. v1.kind \in {"image", "video"}
  BY DEF MomentInv, MomentTypes, Moment!Jobs
<1>6. v7' \in Artifacts
  BY <1>4 DEF MomentInv, MomentTypes, Artifacts, Plain
<1>7. MomentTypes'
  BY <1>1, <1>4, <1>6 DEF MomentInv, MomentTypes
<1>8. Moment!TokenOnlyWithConsent'
  BY <1>1 DEF MomentInv, Moment!TokenOnlyWithConsent
<1>9. /\ v7'.source = "cache" => v5' # "none" /\ v7'.digest = v4'[v5'].digest
      /\ v7'.file \in CacheFiles => v1.kind = "video" /\ v7'.source = "cache"
      /\ v7'.writes <= v13
  BY <1>1, <1>4, NamesAssumption DEF MomentInv, MomentTypes
<1>10. v3' = "copy" => \/ v7'.file = "none" /\ v7'.data = v7'.digest
                       \/ v7'.file = "download" /\ v8' = v7'.digest
  BY <1>4, <1>5
<1> QED
  BY <1>1, <1>2, <1>3, <1>4, <1>7, <1>8, <1>9, <1>10 DEF MomentInv, Moment!WrittenIsVerified,
     Moment!NothingLeft, Moment!Published

\* The copy beside the target.
LEMMA MomentCopies ==
  ASSUME MomentInv, Moment!Copy PROVE MomentInv'
<1>1. /\ v1' = v1 /\ v2' = v2 /\ v4' = v4 /\ v5' = v5 /\ v7' = v7 /\ v9' = v9 /\ v11' = v11 /\ v13' = v13 /\ v3 = "copy"
  BY DEF Moment!Copy
<1>2. v10 = "none" /\ v12 # "published"
  BY <1>1 DEF MomentInv
<1>3. v5' # "none" => (v5 \in Moment!Best /\ Moment!Agree)'
  BY <1>1, ChoiceStays
<1>4. \/ v3' = "end" /\ v12' = "write_failed" /\ v10' = v10 /\ v8' = "none"
      \/ v3' = "publish" /\ v12' = v12 /\ v10' = Moment!Bytes
  BY DEF Moment!Copy, Moment!Fail
<1>5. v3' = "publish" /\ Kept => v10' = v7.digest
  <2>1. Kept => Moment!Bytes = v7.digest
    BY <1>1, NamesAssumption DEF MomentInv, Moment!Bytes
  <2> QED
    BY <1>4, <2>1
<1>6. MomentTypes'
  BY <1>1, <1>4 DEF MomentInv, MomentTypes
<1>7. Kept' <=> Kept
  BY <1>1 DEF Kept
<1> QED
  BY <1>1, <1>2, <1>3, <1>4, <1>5, <1>6, <1>7 DEF MomentInv, Moment!WrittenIsVerified,
     Moment!TokenOnlyWithConsent, Moment!NothingLeft, Moment!Published

\* What is published is what was copied.
LEMMA MomentPublishes ==
  ASSUME MomentInv, Moment!Publish PROVE MomentInv'
<1>1. /\ v1' = v1 /\ v2' = v2 /\ v4' = v4 /\ v5' = v5 /\ v7' = v7 /\ v9' = v9 /\ v13' = v13 /\ v3 = "publish"
      /\ v3' = "end" /\ v10' = "none" /\ v8' = "none"
      /\ (v11' = v10 /\ v12' = "published") \/ (v12' = "output_exists")
  BY DEF Moment!Publish
<1>2. v5' # "none" => (v5 \in Moment!Best /\ Moment!Agree)'
  BY <1>1, ChoiceStays
<1>3. Kept => v10 = v7.digest
  BY <1>1 DEF MomentInv
<1>4. MomentTypes'
  BY <1>1 DEF MomentInv, MomentTypes
<1>5. Moment!WrittenIsVerified'
  BY <1>1, <1>3 DEF Moment!WrittenIsVerified, Moment!Published, Kept
<1> QED
  BY <1>1, <1>2, <1>4, <1>5 DEF MomentInv, Moment!TokenOnlyWithConsent, Moment!NothingLeft,
     Moment!Published

\* WeChat's writes to its cache, and steps that change nothing.
LEMMA MomentIdles ==
  ASSUME MomentInv, (\E f \in CacheFiles : Moment!CacheChanges(f)) \/ UNCHANGED Moment!vars
  PROVE  MomentInv'
<1>1. /\ v1' = v1 /\ v3' = v3 /\ v4' = v4 /\ v5' = v5 /\ v7' = v7 /\ v8' = v8 /\ v9' = v9 /\ v10' = v10
      /\ v11' = v11 /\ v12' = v12
  BY DEF Moment!CacheChanges, Moment!vars
<1>2. /\ v2' \in [CacheFiles -> Moment!Contents] /\ v13' \in Nat /\ v13 <= v13'
      /\ (v2' = v2 /\ v13' = v13) \/ v13' = v13 + 1
  BY DEF Moment!CacheChanges, Moment!vars, MomentInv, MomentTypes
<1>3. v5' # "none" => (v5 \in Moment!Best /\ Moment!Agree)'
  BY <1>1, ChoiceStays
<1>4. MomentTypes'
  BY <1>1, <1>2 DEF MomentInv, MomentTypes
<1>5. v7.writes \in Nat /\ v13 \in Nat /\ v7.writes <= v13
  BY DEF MomentInv, MomentTypes, Artifacts
<1>6. Kept' => Kept
  BY <1>1, <1>2, <1>5 DEF Kept
<1>7. v3' = "copy" /\ Kept' =>
        \/ v7'.file = "none" /\ v7'.data = v7'.digest
        \/ v7'.file = "download" /\ v8' = v7'.digest
        \/ v7'.file \in CacheFiles /\ v2'[v7'.file] = v7'.digest
  <2>0. v3 = "copy" /\ Kept =>
          \/ v7.file = "none" /\ v7.data = v7.digest
          \/ v7.file = "download" /\ v8 = v7.digest
          \/ v7.file \in CacheFiles /\ v2[v7.file] = v7.digest
    BY DEF MomentInv
  <2>1. CASE v2' = v2
    BY <1>1, <1>6, <2>0, <2>1
  <2>2. CASE v13' = v13 + 1
    <3>1. v7'.writes # v13'
      BY <1>1, <1>5, <2>2
    <3>2. Kept' => v7.file \notin CacheFiles
      BY <1>1, <3>1 DEF Kept, MomentInv
    <3> QED
      BY <1>1, <1>6, <2>0, <3>2
  <2> QED
    BY <1>2, <2>1, <2>2
<1>8. Moment!WrittenIsVerified'
  BY <1>1, <1>6 DEF MomentInv, Moment!WrittenIsVerified, Moment!Published, Kept
<1>9. v3' = "publish" /\ Kept' => v10' = v7'.digest
  BY <1>1, <1>6 DEF MomentInv
<1>10. v7'.writes <= v13'
  BY <1>1, <1>2, <1>5
<1> QED
  BY <1>1, <1>3, <1>4, <1>7, <1>8, <1>9, <1>10 DEF MomentInv, Moment!TokenOnlyWithConsent,
     Moment!NothingLeft

\* Every step of the command, and every write of WeChat, keeps it.
LEMMA MomentStep == MomentInv /\ [Moment!Next]_(Moment!vars) => MomentInv'
BY MomentLooks, MomentChooses, MomentReads, MomentRequests, MomentDecodes, MomentCopies,
   MomentPublishes, MomentIdles DEF Moment!Next

\* A file that was bound has no rival of its rank that differs.
LEMMA NoRival == MomentInv => Moment!BindingUnique
<1> SUFFICES ASSUME MomentInv, v7.source = "cache", NEW f \in CacheFiles, v4[f].rank = v4[v5].rank
             PROVE  v4[f].digest = v7.digest
  BY DEF Moment!BindingUnique
<1>1. v5 \in Moment!Best /\ Moment!Agree /\ v7.digest = v4[v5].digest
  BY DEF MomentInv
<1>2. v5 \in CacheFiles /\ v4[v5] \notin {Moment!Unseen, Moment!Rejected}
  BY <1>1 DEF Moment!Best
<1>3. v4[f] \notin {Moment!Unseen, Moment!Rejected}
  BY <1>2, Ranks DEF MomentInv, MomentTypes
<1>4. f \in Moment!Best
  BY <1>1, <1>2, <1>3 DEF Moment!Best
<1> QED
  BY <1>1, <1>4 DEF Moment!Agree

-----------------------------------------------------------------------------
(* Installations. *)

Whole == {"none", "old", "new"}

\* The steps at which a process has a target, and those at which it holds what it
\* moved away.
Placing == {"download", "copy", "look", "move", "publish", "restore", "back"}
Holding == {"publish", "restore", "back"}

Process == [at : Placing \union {"start", "check", "next", "clean", "run", "done"},
            todo : SUBSET Setup!Places, target : SUBSET Setup!Places,
            own : {"none", "part", "other", "new"}, backup : Whole, ok : BOOLEAN, ran : SUBSET Whole]

\* The places a process is about.
Owned(p) == IF p \in Copiers THEN Dirs ELSE {"binary"}

\* What a process is at: on one of its places; with something whole and verified from
\* the move on; with an old one to give back when it restores.
Shape(p, c, bundle) ==
  /\ c.todo \subseteq Owned(p)
  /\ c.at \in Placing => \E t \in Owned(p) : c.target = {t}
  /\ p \in Copiers => c.at \notin {"check", "run", "download"}
  /\ p \notin Copiers => c.at \notin {"next", "copy"}
  /\ p \in Copiers /\ c.at \notin {"start", "done"} => bundle = "new"
  /\ c.at = "look" => c.own \in {"new", "other"} /\ (p \in Copiers => c.own = "new")
  /\ c.at \in {"move", "publish"} => c.own = "new"
  /\ c.at \in {"restore", "back"} => c.backup # "none"

\* Without a failed rename no old binary comes back, and none is started.
Checked(p, c, place, faults) ==
  /\ p \notin Copiers /\ c.at \in {"restore", "back"} => faults # 0
  /\ faults = 0 /\ c.at = "run" => place["binary"] # "old"
  /\ faults = 0 => "old" \notin c.ran

\* Whether a process has what was at a place, to put something there.
Holds(c, t) == c.at \in Holding /\ c.target = {t} /\ c.backup # "none"

\* The inductive invariant of the installations: what was installed is in its place or
\* in the hands of a process that is about to publish or to give it back, or beside its place.
SetupInv ==
  /\ v1 \in {"new", "other"} /\ v2 \in [Setup!Places -> Whole] /\ v3 \subseteq Setup!Places
  /\ v4 \in [Setup!Procs -> Process] /\ v5 \in Nat
  /\ \A p \in Setup!Procs : Shape(p, v4[p], v1) /\ Checked(p, v4[p], v2, v5)
  /\ \A t \in v3 \ v6 : v2[t] # "none" \/ \E p \in Setup!Procs : Holds(v4[p], t)

\* A process that stands on one place has it as its target.
LEMMA OneTarget ==
  ASSUME NEW p \in Setup!Procs, NEW t, v4[p].target = {t} PROVE Setup!Target(p) = t
<1>1. \E x \in {t} : TRUE
  OBVIOUS
<1>2. (CHOOSE x \in {t} : TRUE) \in {t}
  BY <1>1
<1> QED
  BY <1>2 DEF Setup!Target

\* The invariant of the installations holds at first.
LEMMA SetupInit == Setup!Init => SetupInv
<1> SUFFICES ASSUME Setup!Init PROVE SetupInv
  OBVIOUS
<1> USE DEF Setup!Init
<1>1. ASSUME NEW p \in Setup!Procs
      PROVE  v4[p] \in Process /\ Shape(p, v4[p], v1) /\ Checked(p, v4[p], v2, v5)
  <2>1. v4[p] = [at |-> "start", todo |-> IF p \in Copiers THEN Dirs ELSE {"binary"},
                 target |-> {}, own |-> "none", backup |-> "none", ok |-> TRUE, ran |-> {}]
    OBVIOUS
  <2>2. Dirs \subseteq Setup!Places /\ "binary" \in Setup!Places
    BY DEF Setup!Places
  <2> QED
    BY <2>1, <2>2 DEF Process, Shape, Checked, Owned, Placing, Whole
<1>2. v4 \in [Setup!Procs -> Process]
  BY <1>1
<1> QED
  BY <1>1, <1>2 DEF SetupInv, Whole

\* A process goes on and leaves every place as it is.
LEMMA SetupGoes ==
  ASSUME SetupInv, NEW p \in Setup!Procs, NEW r \in Process, v4' = [v4 EXCEPT ![p] = r],
         v1' = v1, v2' = v2, v3' = v3, v5' \in {v5, v5 + 1}, v6 \subseteq v6',
         Shape(p, r, v1), Checked(p, r, v2, v5'),
         \A t \in v3 \ v6' : Holds(v4[p], t) => Holds(r, t) \/ v2[t] # "none"
  PROVE  SetupInv'
<1>1. v4' \in [Setup!Procs -> Process] /\ v5 \in Nat /\ v5' \in Nat /\ (v5' = 0 => v5 = 0)
  BY DEF SetupInv
<1>2. ASSUME NEW q \in Setup!Procs PROVE Shape(q, v4'[q], v1') /\ Checked(q, v4'[q], v2', v5')
  <2>1. CASE q = p
    <3>1. v4'[q] = r
      BY <2>1 DEF SetupInv
    <3> QED
      BY <2>1, <3>1
  <2>2. CASE q # p
    <3>1. v4'[q] = v4[q]
      BY <2>2 DEF SetupInv
    <3>2. Shape(q, v4[q], v1) /\ Checked(q, v4[q], v2, v5)
      BY DEF SetupInv
    <3>3. Checked(q, v4[q], v2, v5')
      BY <1>1, <3>2 DEF Checked
    <3> QED
      BY <3>1, <3>2, <3>3
  <2> QED
    BY <2>1, <2>2
<1>3. ASSUME NEW t \in v3 \ v6' PROVE v2'[t] # "none" \/ \E q \in Setup!Procs : Holds(v4'[q], t)
  <2>1. CASE v2[t] # "none"
    BY <2>1
  <2>2. ASSUME NEW q \in Setup!Procs, Holds(v4[q], t), q # p PROVE Holds(v4'[q], t)
    <3>1. v4'[q] = v4[q]
      BY <2>2 DEF SetupInv
    <3> QED
      BY <2>2, <3>1
  <2>3. CASE Holds(v4[p], t) /\ v2[t] = "none"
    <3>1. v4'[p] = r
      BY DEF SetupInv
    <3> QED
      BY <1>3, <2>3, <3>1
  <2>4. v2[t] # "none" \/ \E q \in Setup!Procs : Holds(v4[q], t)
    BY <1>3 DEF SetupInv
  <2> QED
    BY <2>1, <2>2, <2>3, <2>4
<1> QED
  BY <1>1, <1>2, <1>3 DEF SetupInv

\* A process goes on and puts something in the place it is at, or takes it away.
LEMMA SetupPuts ==
  ASSUME SetupInv, NEW p \in Setup!Procs, NEW r \in Process, v4' = [v4 EXCEPT ![p] = r],
         NEW t \in Owned(p), v4[p].target = {t}, NEW w \in Whole, v2' = [v2 EXCEPT ![t] = w],
         v1' = v1, v3' = v3, v5' = v5, v6' = v6,
         Shape(p, r, v1), Checked(p, r, v2', v5),
         t = "binary" /\ v5 = 0 => w # "old",
         w = "none" => Holds(r, t)
  PROVE  SetupInv'
<1>1. t \in Setup!Places
  BY DEF Owned, Setup!Places
<1>2. v4' \in [Setup!Procs -> Process] /\ v2' \in [Setup!Places -> Whole] /\ v2'[t] = w
  BY <1>1 DEF SetupInv
<1>3. ASSUME NEW u \in Setup!Places, u # t PROVE v2'[u] = v2[u]
  BY <1>3 DEF SetupInv
<1>4. ASSUME NEW q \in Setup!Procs PROVE Shape(q, v4'[q], v1') /\ Checked(q, v4'[q], v2', v5')
  <2>1. CASE q = p
    <3>1. v4'[q] = r
      BY <2>1 DEF SetupInv
    <3> QED
      BY <2>1, <3>1
  <2>2. CASE q # p
    <3>1. v4'[q] = v4[q]
      BY <2>2 DEF SetupInv
    <3>2. Shape(q, v4[q], v1) /\ Checked(q, v4[q], v2, v5)
      BY DEF SetupInv
    <3>3. v5 = 0 /\ v2["binary"] # "old" => v2'["binary"] # "old"
      <4>1. "binary" \in Setup!Places
        BY DEF Setup!Places
      <4> QED
        BY <1>2, <1>3, <4>1
    <3>4. Checked(q, v4[q], v2', v5)
      BY <3>2, <3>3 DEF Checked
    <3> QED
      BY <3>1, <3>2, <3>4
  <2> QED
    BY <2>1, <2>2
<1>5. ASSUME NEW u \in v3 \ v6' PROVE v2'[u] # "none" \/ \E q \in Setup!Procs : Holds(v4'[q], u)
  <2>1. CASE u = t
    <3>1. v4'[p] = r
      BY DEF SetupInv
    <3> QED
      BY <1>2, <2>1, <3>1
  <2>2. CASE u # t
    <3>1. v2'[u] = v2[u]
      BY <1>3, <2>2 DEF SetupInv
    <3>2. ASSUME NEW q \in Setup!Procs, Holds(v4[q], u) PROVE Holds(v4'[q], u)
      <4>1. q # p
        BY <2>2, <3>2 DEF Holds
      <4>2. v4'[q] = v4[q]
        BY <4>1 DEF SetupInv
      <4> QED
        BY <3>2, <4>2
    <3>3. v2[u] # "none" \/ \E q \in Setup!Procs : Holds(v4[q], u)
      BY <1>5 DEF SetupInv
    <3> QED
      BY <3>1, <3>2, <3>3
  <2> QED
    BY <2>1, <2>2
<1> QED
  BY <1>2, <1>4, <1>5 DEF SetupInv

\* What the invariant says of one process.
LEMMA SetupOf ==
  ASSUME SetupInv, NEW p \in Setup!Procs
  PROVE  /\ v4[p] \in Process /\ Shape(p, v4[p], v1) /\ Checked(p, v4[p], v2, v5)
         /\ v1 \in {"new", "other"} /\ v5 \in Nat /\ v2 \in [Setup!Places -> Whole]
         /\ (p \in Installers <=> p \notin Copiers)
BY NamesAssumption DEF SetupInv, Setup!Procs

\* A process that is not at a step that holds something has nothing to give up.
LEMMA NothingHeld ==
  ASSUME NEW c, c.at \notin Holding PROVE \A t : ~Holds(c, t)
BY DEF Holds

\* Steps that only set where a process is, and what it has.
LEMMA SetupRuns ==
  ASSUME SetupInv, NEW p \in Setup!Procs,
         \/ Setup!Begin(p) \/ Setup!Verify(p) \/ Setup!NextDir(p) \/ Setup!Finished(p)
         \/ Setup!Download(p) \/ Setup!Copy(p) \/ Setup!Look(p) \/ Setup!Clean(p)
         \/ Setup!Check(p) \/ Setup!Run(p)
  PROVE  SetupInv'
<1> DEFINE c == v4[p]
<1>0. /\ c \in Process /\ Shape(p, c, v1) /\ Checked(p, c, v2, v5)
      /\ v1 \in {"new", "other"} /\ v5 \in Nat /\ v2 \in [Setup!Places -> Whole]
      /\ (p \in Installers <=> p \notin Copiers)
  BY SetupOf
<1>u. v1' = v1 /\ v2' = v2 /\ v3' = v3 /\ v5' = v5 /\ v6' = v6
  BY DEF Setup!Begin, Setup!Verify, Setup!NextDir, Setup!Finished, Setup!Download, Setup!Copy,
     Setup!Look, Setup!Clean, Setup!Check, Setup!Run
<1>h. c.at \notin Holding
  BY DEF Setup!Begin, Setup!Verify, Setup!NextDir, Setup!Finished, Setup!Download, Setup!Copy,
     Setup!Look, Setup!Clean, Setup!Check, Setup!Run, Holding
<1>b. "binary" \in Setup!Places /\ Dirs \subseteq Setup!Places
  BY DEF Setup!Places
<1> USE DEF Setup!To, Setup!Goto, Setup!Target
<1>1. CASE Setup!Begin(p)
  <2>1. PICK r : /\ v4' = [v4 EXCEPT ![p] = r]
                 /\ \/ r = [c EXCEPT !.at = "check"]
                    \/ r = [c EXCEPT !.at = "download", !.target = {"binary"}, !.own = "part"]
    BY <1>1 DEF Setup!Begin
  <2>2. /\ r \in Process /\ r.at \in {"check", "download"} /\ r.todo = c.todo /\ r.ran = c.ran
        /\ r.at = "download" => r.target = {"binary"}
    <3>1. {"binary"} \in SUBSET Setup!Places
      BY <1>b
    <3>2. CASE r = [c EXCEPT !.at = "check"]
      BY <1>0, <3>2 DEF Process, Placing
    <3>3. CASE r = [c EXCEPT !.at = "download", !.target = {"binary"}, !.own = "part"]
      BY <1>0, <3>1, <3>3 DEF Process, Placing
    <3> QED
      BY <2>1, <3>2, <3>3
  <2>3. p \notin Copiers
    BY <1>0, <1>1 DEF Setup!Begin
  <2>4. Shape(p, r, v1) /\ Checked(p, r, v2, v5)
    BY <1>0, <2>2, <2>3 DEF Shape, Checked, Owned, Placing
  <2> QED
    BY <1>0, <1>u, <1>h, <2>1, <2>2, <2>4, NothingHeld, SetupGoes
<1>2. CASE Setup!Verify(p)
  <2>1. PICK r : /\ v4' = [v4 EXCEPT ![p] = r]
                 /\ \/ r = [c EXCEPT !.at = "next"] /\ v1 = "new"
                    \/ r = [c EXCEPT !.at = "done", !.ok = FALSE]
    BY <1>2 DEF Setup!Verify
  <2>2. /\ r \in Process /\ r.todo = c.todo /\ r.ran = c.ran
        /\ r.at = "done" \/ (r.at = "next" /\ v1 = "new")
    BY <1>0, <2>1 DEF Process, Placing
  <2>3. p \in Copiers
    BY <1>2 DEF Setup!Verify
  <2>4. Shape(p, r, v1) /\ Checked(p, r, v2, v5)
    BY <1>0, <2>2, <2>3 DEF Shape, Checked, Placing
  <2> QED
    BY <1>0, <1>u, <1>h, <2>1, <2>2, <2>4, NothingHeld, SetupGoes
<1>3. CASE Setup!NextDir(p)
  <2>1. PICK d \in c.todo :
          v4' = [v4 EXCEPT ![p] =
                   [c EXCEPT !.at = "copy", !.todo = @ \ {d}, !.target = {d}, !.own = "part"]]
    BY <1>3 DEF Setup!NextDir
  <2>2. PICK r : r = [c EXCEPT !.at = "copy", !.todo = @ \ {d}, !.target = {d}, !.own = "part"]
    OBVIOUS
  <2>3. r \in Process /\ r.at = "copy" /\ r.target = {d} /\ r.todo = c.todo \ {d} /\ r.ran = c.ran
    BY <1>0, <2>2 DEF Process, Placing
  <2>4. p \in Copiers /\ v1 = "new" /\ d \in Owned(p)
    BY <1>0, <1>3 DEF Setup!NextDir, Shape
  <2>5. Shape(p, r, v1) /\ Checked(p, r, v2, v5)
    BY <1>0, <2>3, <2>4 DEF Shape, Checked
  <2> QED
    BY <1>0, <1>u, <1>h, <2>1, <2>2, <2>3, <2>5, NothingHeld, SetupGoes
<1>4. CASE Setup!Finished(p)
  <2>1. PICK r : v4' = [v4 EXCEPT ![p] = r] /\ r = [c EXCEPT !.at = "done"]
    BY <1>4 DEF Setup!Finished
  <2>2. r \in Process /\ r.at = "done" /\ r.todo = c.todo /\ r.ran = c.ran
    BY <1>0, <2>1 DEF Process
  <2>3. Shape(p, r, v1) /\ Checked(p, r, v2, v5)
    BY <1>0, <2>2 DEF Shape, Checked, Placing
  <2> QED
    BY <1>0, <1>u, <1>h, <2>1, <2>2, <2>3, NothingHeld, SetupGoes
<1>5. CASE Setup!Download(p)
  <2>1. PICK r : /\ v4' = [v4 EXCEPT ![p] = r]
                 /\ \/ \E whole \in {"new", "other"} : r = [c EXCEPT !.at = "look", !.own = whole]
                    \/ r = [c EXCEPT !.at = "clean", !.ok = FALSE]
    BY <1>5 DEF Setup!Download
  <2>2. /\ r \in Process /\ r.at \in {"look", "clean"}
        /\ r.target = c.target /\ r.todo = c.todo /\ r.ran = c.ran
        /\ r.at = "look" => r.own \in {"new", "other"}
    BY <1>0, <2>1 DEF Process, Placing
  <2>3. p \notin Copiers /\ c.at = "download"
    BY <1>0, <1>5 DEF Setup!Download, Shape
  <2>4. Shape(p, r, v1) /\ Checked(p, r, v2, v5)
    BY <1>0, <2>2, <2>3 DEF Shape, Checked, Placing
  <2> QED
    BY <1>0, <1>u, <1>h, <2>1, <2>2, <2>4, NothingHeld, SetupGoes
<1>6. CASE Setup!Copy(p)
  <2>1. PICK r : /\ v4' = [v4 EXCEPT ![p] = r]
                 /\ \/ r = [c EXCEPT !.at = "look", !.own = v1]
                    \/ r = [c EXCEPT !.at = "clean", !.ok = FALSE]
    BY <1>6 DEF Setup!Copy
  <2>2. /\ r \in Process /\ r.at \in {"look", "clean"}
        /\ r.target = c.target /\ r.todo = c.todo /\ r.ran = c.ran
        /\ r.at = "look" => r.own = v1
    BY <1>0, <2>1 DEF Process, Placing
  <2>3. p \in Copiers /\ c.at = "copy" /\ v1 = "new"
    BY <1>0, <1>6 DEF Setup!Copy, Shape
  <2>4. Shape(p, r, v1) /\ Checked(p, r, v2, v5)
    BY <1>0, <2>2, <2>3 DEF Shape, Checked, Placing
  <2> QED
    BY <1>0, <1>u, <1>h, <2>1, <2>2, <2>4, NothingHeld, SetupGoes
<1>7. CASE Setup!Look(p)
  <2>1. PICK r : /\ v4' = [v4 EXCEPT ![p] = r]
                 /\ \/ r = [c EXCEPT !.at = "clean", !.ok = FALSE]
                    \/ /\ ~(p \in Installers /\ c.own = "other")
                       /\ \E at \in {"publish", "move"} : r = [c EXCEPT !.at = at]
    BY <1>7 DEF Setup!Look
  <2>2. /\ r \in Process /\ r.at \in {"publish", "move", "clean"} /\ r.target = c.target /\ r.todo = c.todo
        /\ r.ran = c.ran /\ r.own = c.own
        /\ r.at # "clean" => ~(p \in Installers /\ c.own = "other")
    BY <1>0, <2>1 DEF Process, Placing
  <2>3. c.at = "look"
    BY <1>7 DEF Setup!Look
  <2>4. Shape(p, r, v1) /\ Checked(p, r, v2, v5)
    BY <1>0, <2>2, <2>3 DEF Shape, Checked, Placing
  <2> QED
    BY <1>0, <1>u, <1>h, <2>1, <2>2, <2>4, NothingHeld, SetupGoes
<1>8. CASE Setup!Clean(p)
  <2>1. PICK at \in {"done", "next", "check"} :
          /\ v4' = [v4 EXCEPT ![p] = [c EXCEPT !.own = "none", !.backup = "none", !.target = {}, !.at = at]]
          /\ at = "next" => p \in Copiers
          /\ at = "check" => p \notin Copiers
    BY <1>8 DEF Setup!Clean
  <2>2. PICK r : r = [c EXCEPT !.own = "none", !.backup = "none", !.target = {}, !.at = at]
    OBVIOUS
  <2>3. r \in Process /\ r.at = at /\ r.todo = c.todo /\ r.ran = c.ran
    BY <1>0, <2>2 DEF Process, Placing, Whole
  <2>4. c.at = "clean"
    BY <1>8 DEF Setup!Clean
  <2>5. Shape(p, r, v1) /\ Checked(p, r, v2, v5)
    BY <1>0, <2>1, <2>3, <2>4 DEF Shape, Checked, Placing
  <2> QED
    BY <1>0, <1>u, <1>h, <2>1, <2>2, <2>3, <2>5, NothingHeld, SetupGoes
<1>9. CASE Setup!Check(p)
  <2>1. PICK r : /\ v4' = [v4 EXCEPT ![p] = r]
                 /\ \/ r = [c EXCEPT !.at = "run"] /\ v2["binary"] = "new"
                    \/ r = [c EXCEPT !.at = "done", !.ok = FALSE]
    BY <1>9 DEF Setup!Check
  <2>2. /\ r \in Process /\ r.todo = c.todo /\ r.ran = c.ran
        /\ r.at = "done" \/ (r.at = "run" /\ v2["binary"] = "new")
    BY <1>0, <2>1 DEF Process, Placing
  <2>3. p \notin Copiers
    BY <1>0, <1>9 DEF Setup!Check
  <2>4. Shape(p, r, v1) /\ Checked(p, r, v2, v5)
    BY <1>0, <2>2, <2>3 DEF Shape, Checked, Placing
  <2> QED
    BY <1>0, <1>u, <1>h, <2>1, <2>2, <2>4, NothingHeld, SetupGoes
<1>10. CASE Setup!Run(p)
  <2>1. PICK r : v4' = [v4 EXCEPT ![p] = r] /\ r = [c EXCEPT !.at = "done", !.ran = {v2["binary"]}]
    BY <1>10 DEF Setup!Run
  <2>2. v2["binary"] \in Whole
    BY <1>0, <1>b
  <2>3. r \in Process /\ r.at = "done" /\ r.todo = c.todo /\ r.ran = {v2["binary"]}
    BY <1>0, <2>1, <2>2 DEF Process, Placing
  <2>4. c.at = "run"
    BY <1>10 DEF Setup!Run
  <2>5. Shape(p, r, v1) /\ Checked(p, r, v2, v5)
    BY <1>0, <2>3, <2>4 DEF Shape, Checked, Placing
  <2> QED
    BY <1>0, <1>u, <1>h, <2>1, <2>3, <2>5, NothingHeld, SetupGoes
<1> QED
  BY <1>1, <1>2, <1>3, <1>4, <1>5, <1>6, <1>7, <1>8, <1>9, <1>10

\* Steps that move something away, put it in place or give it back.
LEMMA SetupPlaces ==
  ASSUME SetupInv, NEW p \in Setup!Procs,
         \/ Setup!MoveAway(p) \/ Setup!MoveFails(p) \/ Setup!Publish(p) \/ Setup!PublishFails(p)
         \/ Setup!Restore(p) \/ Setup!PutBack(p) \/ Setup!PutBackFails(p) \/ Setup!Crash(p)
  PROVE  SetupInv'
<1> DEFINE c == v4[p]
<1>0. /\ c \in Process /\ Shape(p, c, v1) /\ Checked(p, c, v2, v5)
      /\ v1 \in {"new", "other"} /\ v5 \in Nat /\ v2 \in [Setup!Places -> Whole]
      /\ (p \in Installers <=> p \notin Copiers)
  BY SetupOf
<1>u. v1' = v1 /\ v3' = v3 /\ v5' \in {v5, v5 + 1} /\ v6 \subseteq v6'
  BY <1>0 DEF Setup!MoveAway, Setup!MoveFails, Setup!Publish, Setup!PublishFails, Setup!Restore,
     Setup!PutBack, Setup!PutBackFails, Setup!Crash, Setup!Fault
<1> USE DEF Setup!To, Setup!Goto
<1>1. CASE Setup!Crash(p)
  <2>1. PICK r : v4' = [v4 EXCEPT ![p] = r] /\ r = [c EXCEPT !.at = "done", !.ok = FALSE]
    BY <1>1 DEF Setup!Crash
  <2>2. r \in Process /\ r.at = "done" /\ r.todo = c.todo /\ r.ran = c.ran
    BY <1>0, <2>1 DEF Process
  <2>3. Shape(p, r, v1) /\ Checked(p, r, v2, v5)
    BY <1>0, <2>2 DEF Shape, Checked, Placing
  <2>4. v2' = v2 /\ v5' = v5
    BY <1>1 DEF Setup!Crash
  <2>5. \A t : Holds(c, t) => t \in v6'
    BY <1>1 DEF Setup!Crash, Holds, Holding
  <2> QED
    BY <1>0, <1>u, <2>1, <2>2, <2>3, <2>4, <2>5, SetupGoes
<1>3. CASE Setup!PutBackFails(p)
  <2>1. PICK r : v4' = [v4 EXCEPT ![p] = r] /\ r = [c EXCEPT !.at = "clean"]
    BY <1>3 DEF Setup!PutBackFails
  <2>2. r \in Process /\ r.at = "clean" /\ r.todo = c.todo /\ r.ran = c.ran
    BY <1>0, <2>1 DEF Process
  <2>3. v2' = v2 /\ v5' \in Nat /\ (v5' = 0 => v5 = 0)
    BY <1>0, <1>u, <1>3 DEF Setup!PutBackFails
  <2>4. c.at = "back"
    BY <1>3 DEF Setup!PutBackFails
  <2>5. Shape(p, r, v1) /\ Checked(p, r, v2, v5')
    BY <1>0, <2>2, <2>3, <2>4 DEF Shape, Checked, Placing
  <2>6. \A t : Holds(c, t) => t \in v6'
    BY <1>3 DEF Setup!PutBackFails, Holds
  <2> QED
    BY <1>0, <1>u, <2>1, <2>2, <2>3, <2>5, <2>6, SetupGoes
<1>2. CASE ~Setup!Crash(p) /\ ~Setup!PutBackFails(p)
  <2>0. c.at \in {"move", "publish", "restore", "back"} /\ v6' = v6
    BY <1>2 DEF Setup!MoveAway, Setup!MoveFails, Setup!Publish, Setup!PublishFails,
       Setup!Restore,
       Setup!PutBack
  <2>t. PICK t \in Owned(p) : c.target = {t}
    BY <1>0, <2>0 DEF Shape, Placing
  <2>s. Setup!Target(p) = t /\ t \in Setup!Places
    BY <2>t, OneTarget DEF Owned, Setup!Places
  <2>v. v2[t] \in Whole
    BY <1>0, <2>s
  <2>1. CASE Setup!MoveAway(p)
    <3>1. /\ v4' = [v4 EXCEPT ![p] = [c EXCEPT !.at = "publish", !.backup = v2[t]]]
          /\ v2' = [v2 EXCEPT ![t] = "none"] /\ v5' = v5 /\ c.at = "move" /\ v2[t] # "none"
      BY <2>1, <2>s DEF Setup!MoveAway
    <3>2. PICK r : r = [c EXCEPT !.at = "publish", !.backup = v2[t]]
      OBVIOUS
    <3>3. /\ r \in Process /\ r.at = "publish" /\ r.backup = v2[t] /\ r.target = {t} /\ r.own = c.own
          /\ r.todo = c.todo /\ r.ran = c.ran
      BY <1>0, <2>t, <2>v, <3>2 DEF Process, Placing
    <3>4. Shape(p, r, v1) /\ Checked(p, r, v2', v5)
      BY <1>0, <3>1, <3>3 DEF Shape, Checked, Placing
    <3>5. Holds(r, t) /\ "none" \in Whole
      BY <3>1, <3>3 DEF Holds, Holding, Whole
    <3> QED
      BY <1>u, <2>0, <2>t, <3>1, <3>2, <3>3, <3>4, <3>5, SetupPuts
  <2>2. CASE Setup!MoveFails(p)
    <3>1. PICK r : v4' = [v4 EXCEPT ![p] = r] /\ r = [c EXCEPT !.at = "clean", !.ok = FALSE]
      BY <2>2 DEF Setup!MoveFails
    <3>2. r \in Process /\ r.at = "clean" /\ r.todo = c.todo /\ r.ran = c.ran
      BY <1>0, <3>1 DEF Process
    <3>3. c.at = "move" /\ v2' = v2
      BY <2>2 DEF Setup!MoveFails
    <3>4. v5' \in Nat /\ (v5' = 0 => v5 = 0)
      BY <1>0, <1>u
    <3>5. Shape(p, r, v1) /\ Checked(p, r, v2, v5')
      BY <1>0, <3>2, <3>3, <3>4 DEF Shape, Checked, Placing
    <3>6. c.at \notin Holding
      BY <3>3 DEF Holding
    <3> QED
      BY <1>0, <1>u, <3>1, <3>2, <3>3, <3>5, <3>6, NothingHeld, SetupGoes
  <2>3. CASE Setup!Publish(p)
    <3>1. /\ v4' = [v4 EXCEPT ![p] = [c EXCEPT !.at = "clean", !.own = "none", !.backup = "none"]]
          /\ v2' = [v2 EXCEPT ![t] = c.own] /\ v5' = v5 /\ c.at = "publish"
      BY <2>3, <2>s DEF Setup!Publish
    <3>2. PICK r : r = [c EXCEPT !.at = "clean", !.own = "none", !.backup = "none"]
      OBVIOUS
    <3>3. r \in Process /\ r.at = "clean" /\ r.todo = c.todo /\ r.ran = c.ran
      BY <1>0, <3>2 DEF Process, Whole
    <3>4. c.own = "new" /\ "new" \in Whole
      BY <1>0, <3>1 DEF Shape, Whole
    <3>5. Shape(p, r, v1) /\ Checked(p, r, v2', v5)
      BY <1>0, <3>1, <3>3 DEF Shape, Checked, Placing
    <3> QED
      BY <1>u, <2>0, <2>t, <3>1, <3>2, <3>3, <3>4, <3>5, SetupPuts
  <2>4. CASE Setup!PublishFails(p)
    <3>1. PICK at \in {"clean", "restore"} :
            /\ v4' = [v4 EXCEPT ![p] = [c EXCEPT !.ok = FALSE, !.at = at]]
            /\ at = "clean" <=> c.backup = "none"
      BY <2>4 DEF Setup!PublishFails
    <3>2. PICK r : r = [c EXCEPT !.ok = FALSE, !.at = at]
      OBVIOUS
    <3>3. /\ r \in Process /\ r.at = at /\ r.todo = c.todo /\ r.ran = c.ran /\ r.target = c.target
          /\ r.backup = c.backup
      BY <1>0, <3>2 DEF Process, Placing
    <3>4. c.at = "publish" /\ v2' = v2
      BY <2>4 DEF Setup!PublishFails
    <3>5. v5' \in Nat /\ (v5' = 0 => v5 = 0) /\ (p \notin Copiers => v5' # 0)
      BY <1>0, <1>u, <2>4 DEF Setup!PublishFails, Setup!Fault
    <3>6. Shape(p, r, v1)
      BY <1>0, <3>1, <3>3, <3>4 DEF Shape, Placing
    <3>7. Checked(p, r, v2, v5')
      BY <1>0, <3>1, <3>3, <3>5 DEF Checked
    <3>8. \A u : Holds(c, u) => Holds(r, u)
      BY <3>1, <3>3 DEF Holds, Holding
    <3> QED
      BY <1>0, <1>u, <3>1, <3>2, <3>3, <3>4, <3>6, <3>7, <3>8, SetupGoes
  <2>5. CASE Setup!Restore(p)
    <3>1. PICK r : /\ v4' = [v4 EXCEPT ![p] = r]
                   /\ \/ r = [c EXCEPT !.at = "back"]
                      \/ r = [c EXCEPT !.at = "clean"] /\ v2[t] # "none"
      BY <2>5, <2>s DEF Setup!Restore
    <3>2. /\ r \in Process /\ r.todo = c.todo /\ r.ran = c.ran /\ r.target = c.target
          /\ r.backup = c.backup
          /\ r.at = "back" \/ (r.at = "clean" /\ v2[t] # "none")
      BY <1>0, <3>1 DEF Process, Placing
    <3>3. c.at = "restore" /\ v2' = v2 /\ v5' = v5
      BY <2>5 DEF Setup!Restore
    <3>4. Shape(p, r, v1) /\ Checked(p, r, v2, v5)
      BY <1>0, <3>2, <3>3 DEF Shape, Checked, Placing
    <3>5. \A u : Holds(c, u) => Holds(r, u) \/ v2[u] # "none"
      BY <2>t, <3>2 DEF Holds, Holding
    <3> QED
      BY <1>0, <1>u, <3>1, <3>2, <3>3, <3>4, <3>5, SetupGoes
  <2>6. CASE Setup!PutBack(p)
    <3>1. PICK r : v4' = [v4 EXCEPT ![p] = r] /\ r = [c EXCEPT !.at = "clean"]
      BY <2>6 DEF Setup!PutBack
    <3>2. r \in Process /\ r.at = "clean" /\ r.todo = c.todo /\ r.ran = c.ran
      BY <1>0, <3>1 DEF Process
    <3>3. c.at = "back" /\ v5' = v5
      BY <2>6 DEF Setup!PutBack
    <3>4. Shape(p, r, v1)
      BY <1>0, <3>2, <3>3 DEF Shape, Placing
    <3>5. \A place : Checked(p, r, place, v5)
      BY <1>0, <3>2 DEF Checked
    <3>6. CASE p \in Copiers /\ v2[t] # "none"
      <4>1. v2' = v2
        BY <2>6, <2>s, <3>6 DEF Setup!PutBack
      <4>2. \A u : Holds(c, u) => v2[u] # "none"
        BY <2>t, <3>6 DEF Holds
      <4> QED
        BY <1>0, <1>u, <3>1, <3>2, <3>3, <3>4, <3>5, <4>1, <4>2, SetupGoes
    <3>7. CASE ~(p \in Copiers /\ v2[t] # "none")
      <4>1. v2' = [v2 EXCEPT ![t] = c.backup]
        BY <2>6, <2>s, <3>7 DEF Setup!PutBack
      <4>2. c.backup \in Whole /\ c.backup # "none"
        BY <1>0, <3>3 DEF Shape, Process
      <4>3. t = "binary" => v5 # 0
        <5>1. t = "binary" => p \notin Copiers
          BY NamesAssumption DEF Owned
        <5> QED
          BY <1>0, <3>3, <5>1 DEF Checked
      <4> QED
        BY <1>u, <2>0, <2>t, <3>1, <3>2, <3>3, <3>4, <3>5, <4>1, <4>2, <4>3, SetupPuts
    <3> QED
      BY <3>6, <3>7
  <2> QED
    BY <1>2, <2>1, <2>2, <2>3, <2>4, <2>5, <2>6
<1> QED
  BY <1>1, <1>2, <1>3

\* Every step of an installation keeps it.
LEMMA SetupStep == SetupInv /\ [Setup!Next]_(Setup!vars) => SetupInv'
<1> SUFFICES ASSUME SetupInv, [Setup!Next]_(Setup!vars) PROVE SetupInv'
  OBVIOUS
<1>2. CASE Setup!Next
  BY <1>2, SetupRuns, SetupPlaces DEF Setup!Next
<1>3. CASE UNCHANGED Setup!vars
  BY <1>3 DEF Setup!vars, SetupInv
<1> QED
  BY <1>2, <1>3

\* What the invariant says of a finished installation, and of a start.
LEMMA SetupSafe == SetupInv => Setup!RanVerified /\ Setup!NothingHalf /\ Setup!Kept
<1> SUFFICES ASSUME SetupInv PROVE Setup!RanVerified /\ Setup!NothingHalf /\ Setup!Kept
  OBVIOUS
<1>1. Setup!RanVerified
  <2>1. ASSUME v5 = 0, NEW p \in Setup!Procs PROVE v4[p].ran \subseteq {"new", "none"}
    BY <2>1 DEF SetupInv, Checked, Process, Whole
  <2> QED
    BY <2>1 DEF Setup!RanVerified
<1>2. Setup!NothingHalf
  BY DEF SetupInv, Setup!NothingHalf, Whole
<1>3. Setup!Kept
  BY DEF SetupInv, Setup!Kept, Holds, Holding
<1> QED
  BY <1>1, <1>2, <1>3

-----------------------------------------------------------------------------
(* The theorems. *)

\* No export without --force and no recovered image replaces what came to its path, and
\* a forced export that fails leaves what it moved away at the path or beside it, for any
\* number of exports and of operations that fail; only when two have failed may the
\* put-back of one replace the file of the other (Collides) (publishNewFile, publishFile,
\* publishChatImageRecoveryPayload).
THEOREM FilesStay == Spec => OutputsKept
<1> DEFINE inv == /\ which = "output" => OutputInv /\ RestoreInv
                  /\ which = "consent" => ConsentInv
<1>1. Init => inv
  BY OutputInit, ConsentInit DEF Init
<1>2. ASSUME inv, [Next]_vars
      PROVE  /\ inv'
             /\ which = "output" => Output!KeepsOthers /\ Output!KeepsOld
             /\ which = "consent" => Consent!OverwritesNothing
  <2>1. which' = which
    BY <1>2 DEF Next, vars
  <2>2. CASE which = "output"
    <3>1. [Output!Next]_(Output!vars) /\ OutputInv /\ RestoreInv
      BY <1>2, <2>2 DEF Next, vars, Output!vars
    <3>2. OutputInv' /\ RestoreInv'
      BY <3>1, OutputStep, RestoreStep
    <3>3. Output!KeepsOthers /\ Output!KeepsOld
      BY <3>1, OthersAreKept, OldIsKept
    <3> QED
      BY <2>1, <2>2, <3>2, <3>3
  <2>3. CASE which = "consent"
    <3>1. [Consent!Next]_(Consent!vars) /\ ConsentInv
      BY <1>2, <2>3 DEF Next, vars, Consent!vars
    <3>2. ConsentInv' /\ Consent!OverwritesNothing
      BY <3>1, ConsentStep, NothingOverwritten
    <3> QED
      BY <2>1, <2>3, <3>2
  <2> QED
    BY <2>1, <2>2, <2>3
<1> QED
  BY <1>1, <1>2, PTL DEF Spec, OutputsKept

\* A consent leads to one request at most, and to one for the candidate, the message, the
\* file and the snapshot it was given for, whatever other calls, clocks and refreshes do
\* (consumeChatImageRecoveryConsent, runRecoverChatImage).
THEOREM ConsentIsBound == Spec => []ConsentBound
<1> DEFINE inv == which = "consent" => ConsentInv
<1>1. Init => inv
  BY ConsentInit DEF Init
<1>2. inv /\ [Next]_vars => inv'
  <2> SUFFICES ASSUME inv, [Next]_vars, which' = "consent" PROVE ConsentInv'
    OBVIOUS
  <2>1. which = "consent" /\ [Consent!Next]_(Consent!vars)
    BY DEF Next, vars, Consent!vars
  <2> QED
    BY <2>1, ConsentStep
<1>3. inv => ConsentBound
  BY ConsentIsKept DEF ConsentBound
<1> QED
  BY <1>1, <1>2, <1>3, PTL DEF Spec

\* The picture exported is of the best quality that verified and rivals agree with it,
\* and "missing" is told only of what was not there (ResolveChatImage,
\* higherQualityStatus).
THEOREM PicturesAreTrue == Spec => []PictureTrue
<1> DEFINE inv == which = "picture" => PictureInv
<1>1. Init => inv
  BY PictureInit DEF Init
<1>2. inv /\ [Next]_vars => inv'
  <2> SUFFICES ASSUME inv, [Next]_vars, which' = "picture" PROVE PictureInv'
    OBVIOUS
  <2>1. which = "picture" /\ [Picture!Next]_(Picture!vars)
    BY DEF Next, vars, Picture!vars
  <2> QED
    BY <2>1, PictureStep
<1>3. inv => PictureTrue
  BY DEF PictureInv, PictureTrue
<1> QED
  BY <1>1, <1>2, <1>3, PTL DEF Spec

\* Media of a moment are written as they were verified (a video of the cache, unless WeChat
\* writes to the cache after its last check), bound without a guess, asked of the network only with consent and when nothing local would do, and leave no copy
\* (runExportMomentMedia, ResolveMomentMedia, chooseMomentCandidate).
THEOREM MediaAreTrue == Spec => []MediaTrue
<1> DEFINE inv == which = "moment" => MomentInv
<1>1. Init => inv
  BY MomentInit DEF Init
<1>2. inv /\ [Next]_vars => inv'
  <2> SUFFICES ASSUME inv, [Next]_vars, which' = "moment" PROVE MomentInv'
    OBVIOUS
  <2>1. which = "moment" /\ [Moment!Next]_(Moment!vars)
    BY DEF Next, vars, Moment!vars
  <2> QED
    BY <2>1, MomentStep
<1>3. inv => MediaTrue
  BY NoRival DEF MomentInv, MediaTrue
<1> QED
  BY <1>1, <1>2, <1>3, PTL DEF Spec

\* However many processes install at once, die or have their renames fail: nothing
\* half-written is ever in place; what was there stays, but where a process was killed
\* or could not put it back either, which leaves it in a backup beside its place; and the
\* binary that is started is the promised one unless a rename failed (install.js, run.js,
\* installBundledSkill).
THEOREM InstallsAreSafe == Spec => []InstallSafe
<1> DEFINE inv == which = "install" => SetupInv
<1>1. Init => inv
  BY SetupInit DEF Init
<1>2. inv /\ [Next]_vars => inv'
  <2> SUFFICES ASSUME inv, [Next]_vars, which' = "install" PROVE SetupInv'
    OBVIOUS
  <2>1. which = "install" /\ [Setup!Next]_(Setup!vars)
    BY DEF Next, vars, Setup!vars
  <2> QED
    BY <2>1, SetupStep
<1>3. inv => InstallSafe
  BY SetupSafe DEF InstallSafe
<1> QED
  BY <1>1, <1>2, <1>3, PTL DEF Spec
=============================================================================
