------------------------------ MODULE Provider ------------------------------
(* What is exchanged with the key provider: the checkpoint that outlives a    *)
(* restart, the sessions of the daemon, and the two halves of the validation  *)
(* of an answer.  The modules share no variable: a behaviour is of one of     *)
(* them, and the variables of the others rest.                                *)
EXTENDS Naturals

CONSTANTS
  Requests, Removers, Lifetime, MaxTime, MaxDisables, WorkflowFaults,        \* of ExternalWorkflow
  Scopes, Resumable, Others, MaxDaemons, MaxSessions, SessionFaults,         \* of AcquisitionSession
  Databases, Reasons, Results, NextActions,                                  \* of ProviderContract
  Evidence, MaxCount                                                         \* of ProviderEvidence

ASSUME BoundsAssumption ==
  /\ {Lifetime, MaxTime, MaxDisables, WorkflowFaults} \subseteq Nat
  /\ {MaxDaemons, MaxSessions, SessionFaults, MaxCount} \subseteq Nat

VARIABLES
  which,   \* the module this behaviour is of
  v1, v2, v3, v4, v5, v6, v7, v8, v9  \* its variables, in the order of its vars

vars == <<which, v1, v2, v3, v4, v5, v6, v7, v8, v9>>

-----------------------------------------------------------------------------
Workflow == INSTANCE ExternalWorkflow WITH
  MaxFaults <- WorkflowFaults,
  primary <- v1, backup <- v2, setup <- v3, remover <- v4, sip <- v5, now <- v6,
  disables <- v7, faults <- v8, meddled <- v9

Session == INSTANCE AcquisitionSession WITH
  MaxFaults <- SessionFaults,
  endpoint <- v1, alive <- v2, sessions <- v3, resume <- v4, setup <- v5, cancel <- v6,
  meddled <- v7, faults <- v8

Contract == INSTANCE ProviderContract WITH
  at <- v1, requested <- v2, scope <- v3, flow <- v4, route <- v5, proof <- v6

Proof == INSTANCE ProviderEvidence WITH
  at <- v1, release <- v2, route <- v3, identity <- v4, registry <- v5,
  processes <- v6, scan <- v7

-----------------------------------------------------------------------------
\* What the variables hold that a module has no use for.
None == "none"

Init ==
  \/ which = "workflow" /\ Workflow!Init
  \/ which = "session" /\ Session!Init /\ v9 = None
  \/ which = "contract" /\ Contract!Init /\ v7 = None /\ v8 = None /\ v9 = None
  \/ which = "evidence" /\ Proof!Init /\ v8 = None /\ v9 = None

Next ==
  /\ UNCHANGED which
  /\ \/ which = "workflow" /\ Workflow!Next
     \/ which = "session" /\ Session!Next /\ UNCHANGED v9
     \/ which = "contract" /\ Contract!Next /\ UNCHANGED <<v7, v8, v9>>
     \/ which = "evidence" /\ Proof!Next /\ UNCHANGED <<v8, v9>>

Spec == Init /\ [][Next]_vars

-----------------------------------------------------------------------------
\* What a setup or a cancel command reports of the checkpoint is so until somebody
\* else touches it, a cancel misses only what an interrupted save left in the backup,
\* and SIP that was disabled on request is asked for again
\* (reconcileExternalCheckpoint, CancelAcquisition, reconcileNormalAcquisition).
ReportsTrue ==
  which = "workflow" =>
    /\ Workflow!TypeOK /\ Workflow!ToldTrue /\ Workflow!DisabledNoticed /\ Workflow!CancelledIsGone
    /\ Workflow!MissedOnlyTorn

\* No step of a setup that is interrupted or fails where it likes drops a pending
\* restoration of SIP (saveAcquisitionJSON).
RestorationKept == [][which = "workflow" => Workflow!KeepsRestoration]_vars

\* A pending workflow keeps its provider, its scopes and its expiry over all its
\* stages (acquireScopes, reconcileExternalCheckpoint).
HandoffBound == [][which = "workflow" => Workflow!KeepsHandoff]_vars

\* Requests reach the daemon that opened the session they name, with its scopes,
\* and a receipt is for what that session asked for (sameResumeScope,
\* acquireViaDaemon).
SessionsRight ==
  which = "session" => Session!TypeOK /\ Session!SessionsBound /\ Session!ReceiptAsked

\* A setup leaves no resume file of an ended session behind, even one it found
\* (acquireViaDaemon).
ResumeSettled == [][which = "session" => Session!SettlesResume]_vars

\* An answer that passes the rules means what the setup makes of it: complete is
\* done, keys that are published are the account's own, SIP comes last, and what
\* was observed is what is finalized (parseAndValidateResponse, acquisitionError,
\* validateDaemonObservationResponse).
AnswersJudged ==
  which = "contract" =>
    /\ Contract!TypeOK /\ Contract!CompleteMeansDone /\ Contract!PublishedIsOurs
    /\ Contract!SipOnlyAsLastResort /\ Contract!ObservedIsFinal

\* Evidence that passes the rules supports the route it is given for: a registered
\* build is verified and promoted, and only the account's own process was scanned
\* (validateMacOSEvidence, validateWindowsEvidence).
EvidenceSupports ==
  which = "evidence" => Proof!RegisteredIsPromoted /\ Proof!ScannedOwnProcess
=============================================================================
