---------------------------- MODULE RecoveryConsent ----------------------------
(***************************************************************************)
(* recover-chat-image: the one command that goes to the network for a chat *)
(* image.  A first call inspects the current snapshot offline and writes a *)
(* challenge bound to generation, message, candidate and output; the user  *)
(* agrees to that challenge; a second call consumes it by renaming its     *)
(* file and makes one request.  Calls of an account exclude each other and *)
(* refresh by the account's lock.  The user, the CDN and whoever else      *)
(* writes into the output directory are external.                          *)
(***************************************************************************)
EXTENDS Naturals, Sequences

CONSTANTS
  Calls,          \* the commands that may run at once
  Evidence,       \* image messages
  Outputs,        \* output files
  Descriptors,    \* what a message may say of remote images: for each tier the
                  \* encoding of the address, whether there is a key, and the proof
  TTL,            \* how long a challenge is good for
  MaxGenerations, MaxChallenges, MaxTime  \* bounds

VARIABLES
  remote,      \* the candidates each generation knows of
  generation,  \* the current snapshot
  clock,       \* the clock the program reads; it may be set back
  lock,        \* the call that holds the account's lock, as a set
  call,        \* what each call does
  challenges,  \* the challenge of each number and the state of its file; the user may agree to each
  attempts,    \* the requests made
  files        \* what each output file holds

vars == <<remote, generation, clock, lock, call, challenges, attempts, files>>

Idle == [at |-> "idle"]

\* parseChatImageRemoteDescriptor: a variant is a candidate only with an address and
\* a key that read and with something an answer can be held against.
Candidates(d) ==
  {[tier |-> t, encoding |-> d[t].encoding, proof |-> d[t].proof] :
     t \in {u \in DOMAIN d : d[u].encoding # "invalid" /\ d[u].key /\ d[u].proof # "none"}}

Init ==
  /\ remote \in [1 .. MaxGenerations -> {Candidates(d) : d \in Descriptors}]
  /\ generation = 1 /\ clock = 0 /\ lock = {}
  /\ call = [p \in Calls |-> Idle]
  /\ challenges = <<>> /\ attempts = <<>>
  /\ files = [o \in Outputs |-> "none"]

To(p, c) == call' = [call EXCEPT ![p] = c]
End(p) == call' = [call EXCEPT ![p] = Idle] /\ lock' = lock \ {p}
Go(p, at) == call' = [call EXCEPT ![p].at = at] /\ UNCHANGED lock

----------------------------------------------------------------------------
(* inspectChatImageRemoteRecovery: candidates have a tier and an encoding. *)

Rank == [none |-> 0, unknown |-> 0, thumbnail |-> 1, medium |-> 2, high |-> 3]

\* The candidates that are better than the local image and have a direct URL.
Usable(g, local) ==
  {c \in remote[g] : local # "unknown" /\ Rank[c.tier] > Rank[local] /\ c.encoding = "direct"}

\* The best of them, as a set.
Selected(g, local) ==
  {c \in Usable(g, local) : \A d \in Usable(g, local) : Rank[d.tier] <= Rank[c.tier]}

\* The requests and the answers of the CDN: an answer proves itself by the digest of
\* the message, or, without one, by its size and dimensions.
Answers == {"error", "image", "other_of_its_size", "other"}
Verified(c, answer) ==
  \/ answer = "image" /\ c.proof # "none"
  \/ answer = "other_of_its_size" /\ c.proof = "size"

----------------------------------------------------------------------------
(* One call: runRecoverChatImage *)

\* The account is resolved; the call has a challenge, or none for the preflight.
Start(p, id, e, o) ==
  /\ call[p] = Idle
  /\ To(p, [at |-> "lock", id |-> id, evidence |-> e, output |-> o, generation |-> generation])
  /\ UNCHANGED <<remote, generation, clock, lock, challenges, attempts, files>>

\* snapshot_busy
Lock(p) ==
  /\ call[p].at = "lock"
  /\ IF lock = {} THEN lock' = {p} /\ To(p, [call[p] EXCEPT !.at = "reload"]) ELSE End(p)
  /\ UNCHANGED <<remote, generation, clock, challenges, attempts, files>>

\* Fault: the account is what it was before the lock was taken.
ReloadNothing(p) ==
  /\ call[p].at = "reload"
  /\ IF files[call[p].output] # "none" THEN End(p)
     ELSE Go(p, IF call[p].id = {} THEN "issue" ELSE "consume")
  /\ UNCHANGED <<remote, generation, clock, challenges, attempts, files>>

\* The account is resolved again under the lock; an output that exists is refused.
Reload(p) ==
  /\ call[p].at = "reload"
  /\ IF files[call[p].output] # "none" THEN End(p)
     ELSE /\ To(p, [call[p] EXCEPT !.at = IF call[p].id = {} THEN "issue" ELSE "consume",
                                   !.generation = generation])
          /\ UNCHANGED lock
  /\ UNCHANGED <<remote, generation, clock, challenges, attempts, files>>

\* pruneExpiredChatImageRecoveryConsents, by the time in the record.
Pruned ==
  [n \in DOMAIN challenges |->
     IF challenges[n].expires <= clock THEN [challenges[n] EXCEPT !.file = "removed"] ELSE challenges[n]]

\* The tier of the local image ResolveChatImage finds: of one that does not decode it
\* may be known or not, and there may be none.  Other failures end the call.
LocalTiers == {"none", "medium", "unknown"}

\* issueChatImageRecoveryConsent: the file is written whole before the challenge is shown.
Record(p, c, local) ==
  [file |-> "pending", evidence |-> call[p].evidence, output |-> call[p].output,
   generation |-> call[p].generation, candidate |-> c, local |-> local,
   issued |-> clock, expires |-> clock + TTL]

\* The preflight; at the bound only its pruning is left.
Issue(p) ==
  /\ call[p].at = "issue"
  /\ \E local \in LocalTiers :
       IF Selected(call[p].generation, local) = {} THEN UNCHANGED challenges
       ELSE IF Len(challenges) = MaxChallenges THEN challenges' = Pruned
       ELSE \E c \in Selected(call[p].generation, local) :
              challenges' = Append(Pruned, Record(p, c, local))
  /\ End(p)
  /\ UNCHANGED <<remote, generation, clock, attempts, files>>

Challenge(p) == challenges[CHOOSE n \in call[p].id : TRUE]

\* Fault: the file is only looked at, and removed by a later pruning.
ConsumeLater(p) ==
  /\ call[p].at = "consume"
  /\ IF Challenge(p).file = "pending" THEN Go(p, "check") ELSE End(p)
  /\ UNCHANGED <<remote, generation, clock, challenges, attempts, files>>

\* consumeChatImageRecoveryConsent: pending becomes used, whatever the checks then say.
Consume(p) ==
  /\ call[p].at = "consume"
  /\ IF Challenge(p).file = "pending"
     THEN /\ \E n \in call[p].id : challenges' = [challenges EXCEPT ![n].file = "used"]
          /\ Go(p, "check")
     ELSE End(p) /\ UNCHANGED challenges
  /\ UNCHANGED <<remote, generation, clock, attempts, files>>

\* Fault: the snapshot the challenge was issued on is not compared.
CoversAnySnapshot(c, p) ==
  c.evidence = call[p].evidence /\ c.output = call[p].output

\* The challenge is of this message, this output and this snapshot.
Covers(c, p) ==
  /\ c.evidence = call[p].evidence /\ c.output = call[p].output
  /\ c.generation = call[p].generation

\* It is in time, and the snapshot still leads to the same candidate.
Check(p) ==
  /\ call[p].at = "check"
  /\ LET c == Challenge(p)
     IN  IF /\ c.issued <= clock /\ clock < c.expires
            /\ Covers(c, p)
            /\ c.candidate \in Selected(call[p].generation, c.local)
         THEN Go(p, "request") ELSE End(p)
  /\ UNCHANGED <<remote, generation, clock, challenges, attempts, files>>

\* recoverChatImageRemote: the candidate is selected once more from the snapshot and
\* compared; one request for it, no redirect followed.
Request(p) ==
  /\ call[p].at = "request"
  /\ \E c \in Selected(call[p].generation, Challenge(p).local), answer \in Answers :
       IF c # Challenge(p).candidate \/ c.proof = "none" THEN End(p) /\ UNCHANGED attempts
       ELSE /\ attempts' = Append(attempts,
                 [id |-> call[p].id, evidence |-> call[p].evidence, output |-> call[p].output,
                  generation |-> call[p].generation, candidate |-> c,
                  current |-> generation = call[p].generation])
            /\ IF Verified(c, answer)
               THEN To(p, [at |-> "publish", output |-> call[p].output, payload |-> answer]) /\ UNCHANGED lock
               ELSE End(p)
  /\ UNCHANGED <<remote, generation, clock, challenges, files>>

\* Fault: the temporary file is renamed over whatever has the output's name.
PublishOver(p) ==
  /\ call[p].at = "publish"
  /\ files' = [files EXCEPT ![call[p].output] = call[p].payload]
  /\ End(p)
  /\ UNCHANGED <<remote, generation, clock, challenges, attempts>>

\* publishChatImageRecoveryPayload: linked under its name, which fails where one is.
Publish(p) ==
  /\ call[p].at = "publish"
  /\ files' = [files EXCEPT ![call[p].output] = IF @ = "none" THEN call[p].payload ELSE @]
  /\ End(p)
  /\ UNCHANGED <<remote, generation, clock, challenges, attempts>>

\* The lock goes with the process.
Crash(p) ==
  /\ call[p] # Idle
  /\ End(p)
  /\ UNCHANGED <<remote, generation, clock, challenges, attempts, files>>

----------------------------------------------------------------------------
(* The surroundings. *)

\* A refresh or setup, under the lock.
NewGeneration ==
  /\ lock = {} /\ generation < MaxGenerations
  /\ generation' = generation + 1
  /\ UNCHANGED <<remote, clock, lock, call, challenges, attempts, files>>

Tick ==
  /\ \E t \in {clock + 1} \union (IF clock = 0 THEN {} ELSE {clock - 1}) : t <= MaxTime /\ clock' = t
  /\ UNCHANGED <<remote, generation, lock, call, challenges, attempts, files>>

SomebodyWrites(o) ==
  /\ files[o] = "none"
  /\ files' = [files EXCEPT ![o] = "theirs"]
  /\ UNCHANGED <<remote, generation, clock, lock, call, challenges, attempts>>

Next ==
  \/ \E p \in Calls :
       \/ \E id \in {{}} \union {{n} : n \in DOMAIN challenges}, e \in Evidence, o \in Outputs : Start(p, id, e, o)
       \/ Lock(p) \/ Reload(p) \/ Issue(p) \/ Consume(p) \/ Check(p) \/ Request(p) \/ Publish(p) \/ Crash(p)
  \/ NewGeneration \/ Tick
  \/ \E o \in Outputs : SomebodyWrites(o)

Spec == Init /\ [][Next]_vars

----------------------------------------------------------------------------
(* Properties. *)

\* A challenge leads to one request at most: neither two calls with it, nor one
\* that died after its request and one after it, nor a clock that was set back
\* (consumeChatImageRecoveryConsent).
OneAttempt ==
  \A i, j \in DOMAIN attempts : attempts[i].id = attempts[j].id => i = j

\* A request is made for what the user agreed to and nothing else: that candidate of
\* that message, into that file, of the snapshot the challenge was issued on, which is
\* still the current one while the request is made, refresh running beside it or not
\* (runRecoverChatImage resolves the account a second time under the lock).
AttemptAgreed ==
  \A i \in DOMAIN attempts :
    /\ attempts[i].current
    /\ \E n \in attempts[i].id :
         /\ challenges[n].evidence = attempts[i].evidence
         /\ challenges[n].output = attempts[i].output
         /\ challenges[n].generation = attempts[i].generation
         /\ challenges[n].candidate = attempts[i].candidate

\* A file somebody else has put where the output was to go, after the path was
\* checked, is never overwritten, nor is an earlier output
\* (LinkTemporary in publishChatImageRecoveryPayload).
OverwritesNothing == \A o \in Outputs : files[o] # "none" => files'[o] = files[o]
=============================================================================
