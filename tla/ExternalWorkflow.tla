-------------------------- MODULE ExternalWorkflow --------------------------
(***************************************************************************)
(* The handoff of a key acquisition that needs a change of the machine     *)
(* outside the program: SIP disabled, or a shadow copy approved.  The user *)
(* makes the change and restarts the machine, so nothing but a checkpoint  *)
(* file (<path> and its backup <path>.old) survives; it carries no         *)
(* authority, only what to check again, and expires.  "setup" holds the    *)
(* account lock from its beginning to its end.  "setup                     *)
(* --cancel-acquisition" (of this account) and "setup                      *)
(* --cancel-all-external-workflows" take no lock.  What the provider       *)
(* answers is external: a nondeterministic choice that depends on the      *)
(* machine.                                                                *)
(***************************************************************************)
EXTENDS Naturals

CONSTANTS
  Requests,      \* what a setup may ask: records of a provider and its scopes
  Removers,      \* processes that run one of the two cancel commands
  Lifetime,      \* externalCheckpointLifetime, in ticks of the clock
  MaxTime,       \* bound on the clock
  MaxDisables,   \* bound on how often the user disables SIP
  MaxFaults      \* bound on crashes and failing renames

VARIABLES
  primary,    \* the checkpoint in <path>
  backup,     \* the checkpoint in <path>.old
  setup,      \* the setup that holds the account lock, or what the last one told
  remover,    \* what each cancel command is doing
  sip,        \* the state of the machine
  now,        \* the clock
  disables,   \* how often SIP was disabled
  faults,     \* crashes and failing renames so far
  meddled     \* a cancel command removed a file since the last setup began

vars == <<primary, backup, setup, remover, sip, now, disables, faults, meddled>>
files == <<primary, backup>>
machine == <<sip, now, disables, faults>>

\* externalActionStage: the actions that end the session and are handed over.
Stage(action) ==
  CASE action \in {"approve_shadow_mode", "disable_sip"} -> "external_change"
    [] action = "reenable_sip" -> "security_restoration"
    [] OTHER -> "none"

Absent == {}

\* Files are sets of at most one checkpoint.
Checkpoints ==
  [request: Requests, expires: 0..(MaxTime + Lifetime),
   action: {"approve_shadow_mode", "disable_sip", "reenable_sip"}]

\* validateExternalCheckpoint: what is left of a file once expired records count
\* as absent.
Valid(file) == {c \in file : now < c.expires}

\* loadExternalCheckpoint, with absentExternalCheckpoint: the file, or else its
\* backup, whichever error the file had.
Load == IF Valid(primary) # Absent THEN Valid(primary) ELSE Valid(backup)

\* An answer of the provider: the action it asks for, whether it counts as an
\* error, and whether it is the complete, terminal evidence that SIP is enabled.
Answer(next, err, verified) == [next |-> next, err |-> err, verified |-> verified]
NoAnswer == Answer("none", TRUE, FALSE)

\* The answers of acquireViaDaemon and acquireOneShot: once SIP is found disabled,
\* they ask to enable it again, with a complete result or without.
Acquired ==
  IF sip = "enabled"
  THEN {Answer("none", FALSE, TRUE), Answer("none", FALSE, FALSE), NoAnswer,
        Answer("disable_sip", TRUE, FALSE), Answer("approve_shadow_mode", TRUE, FALSE)}
  ELSE {Answer("reenable_sip", TRUE, FALSE), Answer("reenable_sip", FALSE, FALSE), NoAnswer}

\* The answer of revalidateSecurityPostureOneShot when it has a verdict; when it has
\* none, or fails, it is NoAnswer.
Posture ==
  IF sip = "enabled" THEN Answer("none", FALSE, TRUE) ELSE Answer("reenable_sip", TRUE, FALSE)

Idle == [at |-> "idle"]
\* A cancel command that is not running, or has ended.
Ready == {"idle", "nothing", "cancelled", "cleared"}

Running == setup.at \notin {"idle", "told"}

\* The setup goes to another of its steps; it ends with what it reports.
Goto(step) == setup' = [setup EXCEPT !.at = step]
Tell(told) ==
  setup' = [at |-> "told", told |-> told, asked |-> setup.answer.next,
            ignorant |-> setup.disabling => setup.unsure,
            draft |-> IF told = "persisted" THEN setup.draft ELSE Absent]

Init ==
  /\ primary = Absent /\ backup = Absent
  /\ setup = Idle
  /\ remover = [m \in Removers |-> Idle]
  /\ sip = "enabled" /\ now = 0
  /\ disables = 0 /\ faults = 0 /\ meddled = FALSE

-----------------------------------------------------------------------------
(* setup *)

\* runSetup takes the account lock.
Begin(r) ==
  /\ ~Running
  /\ setup' = [at |-> "inspect", request |-> r, disabling |-> FALSE, unsure |-> FALSE,
               answer |-> NoAnswer, draft |-> Absent]
  /\ remover' = [m \in Removers |->
                  IF remover[m].at \in Ready THEN Idle ELSE [remover[m] EXCEPT !.alone = FALSE]]
  /\ meddled' = FALSE
  /\ UNCHANGED <<files, machine>>

\* pendingSecurityRestorationCheckpoint: a pending restoration takes precedence over
\* what was asked, with the scopes of the checkpoint, and accepts no confirmation
\* of an action.
InspectRestoration ==
  /\ setup.at = "inspect"
  /\ \/ /\ \E c \in Load : c.request.provider # setup.request.provider
        /\ Tell("provider_mismatch")
     \/ /\ \A c \in Load : c.action # "reenable_sip"
                           /\ c.request.provider = setup.request.provider
        /\ Goto("inspect_change")
     \/ \E c \in Load :
          /\ c.action = "reenable_sip" /\ c.request.provider = setup.request.provider
          /\ \/ setup' = [setup EXCEPT !.at = "revalidate", !.request = c.request]
             \/ Tell("confirmation_mismatch")
  /\ UNCHANGED <<files, remover, machine, meddled>>

\* Fault: the scopes of the checkpoint are not compared.
InspectAnyScope ==
  /\ setup.at = "inspect_change"
  /\ setup' = [setup EXCEPT !.at = "acquire",
                           !.disabling = \E c \in Load : c.action = "disable_sip"]
  /\ UNCHANGED <<files, remover, machine, meddled>>

\* pendingExternalChangeCheckpoint: other scopes than those of the checkpoint are
\* refused.
InspectChange ==
  /\ setup.at = "inspect_change"
  /\ LET change == {c \in Load : Stage(c.action) = "external_change"} IN
     IF \E c \in change : c.request # setup.request
     THEN Tell("scope_mismatch")
     ELSE setup' = [setup EXCEPT !.at = "acquire",
                                 !.disabling = \E c \in change : c.action = "disable_sip"]
  /\ UNCHANGED <<files, remover, machine, meddled>>

\* The acquisition itself.
Acquire ==
  /\ setup.at = "acquire"
  /\ \E a \in Acquired :
       setup' = [setup EXCEPT !.answer = a,
                   !.at = IF setup.disabling /\ a.err THEN "follow_up" ELSE "reconcile"]
  /\ UNCHANGED <<files, remover, machine, meddled>>

\* Fault: the error of the acquisition is reported as it is.
FollowNothing ==
  /\ setup.at = "follow_up"
  /\ Goto("reconcile")
  /\ UNCHANGED <<files, remover, machine, meddled>>

\* reconcileNormalAcquisition: an acquisition that failed after the user was asked
\* to disable SIP may have failed before it looked; the posture is asked for on its
\* own, and only a disabled SIP replaces the error.
FollowUp ==
  /\ setup.at = "follow_up"
  /\ \/ setup' = [setup EXCEPT !.at = "reconcile",
                    !.answer = IF Posture.next = "reenable_sip" THEN Posture ELSE @]
     \/ setup' = [setup EXCEPT !.at = "reconcile", !.unsure = TRUE]
  /\ UNCHANGED <<files, remover, machine, meddled>>

\* revalidateSecurityPostureOneShot for a pending restoration, with a verdict.
Revalidate ==
  /\ setup.at = "revalidate"
  /\ setup' = [setup EXCEPT !.at = "reconcile", !.answer = Posture]
  /\ UNCHANGED <<files, remover, machine, meddled>>

RevalidateFails ==
  /\ setup.at = "revalidate"
  /\ Goto("reconcile")
  /\ UNCHANGED <<files, remover, machine, meddled>>

\* Fault: each stage adds a lifetime to that of the workflow.
DraftRenewed ==
  /\ setup.at = "reconcile" /\ Stage(setup.answer.next) # "none"
  /\ LET previous == {c.expires : c \in {d \in Load : d.request = setup.request}} IN
     setup' = [setup EXCEPT !.at = "save",
       !.draft = {[request |-> setup.request, action |-> setup.answer.next, expires |-> e + Lifetime] :
                    e \in IF previous = Absent THEN {now} ELSE previous}]
  /\ UNCHANGED <<files, remover, machine, meddled>>

\* reconcileExternalCheckpoint when an external action is asked for: the workflow
\* that is pending for the same request goes on, with its expiry.
DraftCheckpoint ==
  /\ setup.at = "reconcile" /\ Stage(setup.answer.next) # "none"
  /\ LET previous == {c \in Load : c.request = setup.request}
         expires  == {c.expires : c \in previous} IN
     setup' = [setup EXCEPT !.at = "save",
       !.draft = {[request |-> setup.request, action |-> setup.answer.next, expires |-> e] :
                    e \in IF previous = Absent THEN {now + Lifetime} ELSE expires}]
  /\ UNCHANGED <<files, remover, machine, meddled>>

\* What a successful answer settles: a disabling that was asked for and not done,
\* or a restoration.
Settles(c) ==
  /\ c.request = setup.request /\ setup.answer.verified
  /\ c.action \in {"disable_sip", "reenable_sip"}

\* reconcileExternalCheckpoint when none is asked for.
Reconcile ==
  /\ setup.at = "reconcile" /\ Stage(setup.answer.next) = "none"
  /\ CASE setup.answer.err -> Tell("failed")
       [] ~setup.answer.err /\ (\E c \in Load : Settles(c)) -> Goto("remove")
       [] OTHER -> Tell("done")
  /\ UNCHANGED <<files, remover, machine, meddled>>

\* saveExternalCheckpoint and saveAcquisitionJSON, one step for each change of a
\* file.  A workflow that expired meanwhile is not saved.
RemoveBackup ==
  /\ setup.at = "save"
  /\ IF Valid(setup.draft) = Absent
     THEN Tell("unavailable") /\ UNCHANGED backup
     ELSE backup' = Absent /\ Goto("move")
  /\ UNCHANGED <<primary, remover, machine, meddled>>

\* Fault: the file is removed before the new one is there.
MoveAway ==
  /\ setup.at = "move"
  /\ primary' = Absent
  /\ Goto(IF primary = Absent THEN "create" ELSE "replace")
  /\ UNCHANGED <<backup, remover, machine, meddled>>

MovePrimary ==
  /\ setup.at = "move"
  /\ primary' = Absent
  /\ backup' = IF primary = Absent THEN backup ELSE primary
  /\ Goto(IF primary = Absent THEN "create" ELSE "replace")
  /\ UNCHANGED <<remover, machine, meddled>>

PublishCheckpoint ==
  /\ setup.at \in {"create", "replace"}
  /\ primary' = setup.draft
  /\ IF setup.at = "replace" THEN Goto("drop") ELSE Tell("persisted")
  /\ UNCHANGED <<backup, remover, machine, meddled>>

\* A rename fails, or finds its file removed meanwhile; what was moved is put back.
RenameFails ==
  /\ setup.at \in {"move", "create", "replace"} /\ faults < MaxFaults
  /\ faults' = faults + 1
  /\ IF setup.at = "replace" /\ backup # Absent
     THEN primary' = backup /\ backup' = Absent
     ELSE UNCHANGED files
  /\ Tell("unavailable")
  /\ UNCHANGED <<remover, sip, now, disables, meddled>>

DropBackup ==
  /\ setup.at = "drop"
  /\ backup' = Absent
  /\ Tell("persisted")
  /\ UNCHANGED <<primary, remover, machine, meddled>>

\* removeExternalCheckpoint
RemovePrimary ==
  /\ setup.at = "remove"
  /\ primary' = Absent
  /\ Goto("remove_backup")
  /\ UNCHANGED <<backup, remover, machine, meddled>>

\* Fault: only the file is removed.
RemoveOne ==
  /\ setup.at = "remove_backup"
  /\ Tell("cleared")
  /\ UNCHANGED <<files, remover, machine, meddled>>

RemoveLast ==
  /\ setup.at = "remove_backup"
  /\ backup' = Absent
  /\ Tell("cleared")
  /\ UNCHANGED <<primary, remover, machine, meddled>>

-----------------------------------------------------------------------------
(* the two cancel commands *)

\* CancelAcquisition looks for the file and, when there is one, removes it and its
\* backup.
CancelLook(m) ==
  /\ remover[m].at \in Ready
  /\ remover' = [remover EXCEPT ![m] =
       [at |-> IF primary = Absent THEN "nothing" ELSE "cancel", alone |-> ~Running]]
  /\ UNCHANGED <<files, setup, machine, meddled>>

CancelPrimary(m) ==
  /\ remover[m].at = "cancel"
  /\ primary' = Absent /\ meddled' = TRUE
  /\ remover' = [remover EXCEPT ![m].at = "cancel_backup"]
  /\ UNCHANGED <<backup, setup, machine>>

\* Fault: a cancel removes only the file.
CancelOne(m) ==
  /\ remover[m].at = "cancel_backup" /\ meddled' = TRUE
  /\ remover' = [remover EXCEPT ![m].at = "cancelled"]
  /\ UNCHANGED <<files, setup, machine>>

CancelBackup(m) ==
  /\ remover[m].at = "cancel_backup"
  /\ backup' = Absent /\ meddled' = TRUE
  /\ remover' = [remover EXCEPT ![m].at = "cancelled"]
  /\ UNCHANGED <<primary, setup, machine>>

\* ClearExternalCheckpoints lists the files of both names and removes what it
\* listed; a file that is gone by then ends it with an error.
Clearing(todo, alone) ==
  IF todo = {} THEN [at |-> "cleared", alone |-> alone]
  ELSE [at |-> "clear", todo |-> todo, alone |-> alone]

ClearList(m) ==
  /\ remover[m].at \in Ready
  /\ LET todo == {name \in {"primary", "backup"} :
                   IF name = "primary" THEN primary # Absent ELSE backup # Absent} IN
     remover' = [remover EXCEPT ![m] = Clearing(todo, ~Running)]
  /\ UNCHANGED <<files, setup, machine, meddled>>

ClearPrimary(m) ==
  /\ remover[m].at = "clear" /\ "primary" \in remover[m].todo
  /\ primary' = Absent /\ meddled' = TRUE
  /\ remover' = [remover EXCEPT ![m] =
       IF primary = Absent THEN Idle ELSE Clearing(@.todo \ {"primary"}, @.alone)]
  /\ UNCHANGED <<backup, setup, machine>>

ClearBackup(m) ==
  /\ remover[m].at = "clear" /\ remover[m].todo = {"backup"}
  /\ backup' = Absent /\ meddled' = TRUE
  /\ remover' = [remover EXCEPT ![m] = IF backup = Absent THEN Idle ELSE Clearing({}, @.alone)]
  /\ UNCHANGED <<primary, setup, machine>>

-----------------------------------------------------------------------------
(* the machine and its user *)

Tick ==
  /\ now < MaxTime
  /\ now' = now + 1
  /\ UNCHANGED <<files, setup, remover, sip, disables, faults, meddled>>

\* SIP changes only in a restart of the machine, which ends every process.
Restart(state) ==
  /\ sip' = state
  /\ setup' = Idle /\ remover' = [m \in Removers |-> Idle]
  /\ UNCHANGED <<files, now, faults, meddled>>

DisableSip ==
  /\ sip = "enabled" /\ disables < MaxDisables
  /\ disables' = disables + 1
  /\ Restart("disabled")

EnableSip ==
  /\ sip = "disabled"
  /\ UNCHANGED disables
  /\ Restart("enabled")

CrashSetup ==
  /\ Running /\ faults < MaxFaults
  /\ faults' = faults + 1
  /\ setup' = Idle
  /\ UNCHANGED <<files, remover, sip, now, disables, meddled>>

CrashRemover(m) ==
  /\ remover[m].at \in {"cancel", "cancel_backup", "clear"} /\ faults < MaxFaults
  /\ faults' = faults + 1
  /\ remover' = [remover EXCEPT ![m] = Idle]
  /\ UNCHANGED <<files, setup, sip, now, disables, meddled>>

-----------------------------------------------------------------------------
SetupStep ==
  \/ InspectRestoration \/ InspectChange \/ Acquire \/ FollowUp \/ Revalidate \/ RevalidateFails
  \/ DraftCheckpoint \/ Reconcile
  \/ RemoveBackup \/ MovePrimary \/ PublishCheckpoint \/ RenameFails \/ DropBackup
  \/ RemovePrimary \/ RemoveLast

RemoverStep(m) ==
  \/ CancelLook(m) \/ CancelPrimary(m) \/ CancelBackup(m)
  \/ ClearList(m) \/ ClearPrimary(m) \/ ClearBackup(m)

Next ==
  \/ \E r \in Requests : Begin(r)
  \/ SetupStep
  \/ \E m \in Removers : RemoverStep(m) \/ CrashRemover(m)
  \/ Tick \/ DisableSip \/ EnableSip \/ CrashSetup

Spec == Init /\ [][Next]_vars

\* A restoration is pending.
Restoring == \E c \in Load : c.action = "reenable_sip"

-----------------------------------------------------------------------------
(* properties *)

Told == {"provider_mismatch", "confirmation_mismatch", "scope_mismatch", "failed",
         "done", "unavailable", "persisted", "cleared"}

\* The values the variables take: at most one checkpoint in a file, and a cancel
\* command has a list only while it clears.
TypeOK ==
  /\ \A file \in {primary, backup} : file \subseteq Checkpoints /\ \A c, d \in file : c = d
  /\ \/ setup.at = "idle"
     \/ setup.at = "told" /\ setup.told \in Told /\ setup.draft \subseteq Checkpoints
     \/ /\ setup.at \in {"inspect", "inspect_change", "acquire", "follow_up", "revalidate",
                        "reconcile", "save", "move", "create", "replace", "drop", "remove",
                        "remove_backup"}
        /\ setup.request \in Requests /\ setup.draft \subseteq Checkpoints
  /\ \A m \in Removers :
       /\ remover[m].at \in {"idle", "nothing", "cancel", "cancel_backup", "cancelled", "clear",
                             "cleared"}
       /\ remover[m].at = "clear" => remover[m].todo \subseteq {"primary", "backup"}
  /\ sip \in {"enabled", "disabled"} /\ now \in 0..MaxTime
  /\ disables \in 0..MaxDisables /\ faults \in 0..MaxFaults /\ meddled \in BOOLEAN

\* No step of a setup that is interrupted or fails where it likes drops a pending
\* restoration while SIP is disabled; only a cancel command or the expiry does
\* (reconcileExternalCheckpoint, saveAcquisitionJSON), but for a save after an
\* interrupted one, which deletes the only copy first (see RecordFile).
KeepsRestoration ==
  Restoring /\ ~Restoring' /\ ~meddled' /\ now' = now =>
    sip = "enabled" \/ (setup.at = "save" /\ primary = Absent)

\* A pending workflow is never replaced by one with other scopes or of another
\* provider, and no stage of it extends its life (acquireScopes,
\* reconcileExternalCheckpoint).
KeepsHandoff ==
  \A c \in Load, d \in Load' : d.request = c.request /\ d.expires = c.expires

\* What a setup reports of the checkpoint holds until somebody removes it, it
\* expires, or the next setup begins: "persisted" that it is what a load finds, and
\* "cleared" that a load finds none.
ToldTrue ==
  setup.at = "told" /\ ~meddled =>
    /\ setup.told = "persisted" => Load = Valid(setup.draft)
    /\ setup.told = "cleared" => Load = Absent

\* A setup that was begun after the user was asked to disable SIP does not end
\* without asking to enable it again when it is disabled, unless the provider has
\* no verdict (reconcileNormalAcquisition).
DisabledNoticed ==
  setup.at = "told" /\ sip = "disabled" /\ ~setup.ignorant => setup.asked = "reenable_sip"

\* A cancel command that reports success, with no setup beside it, has left
\* nothing that a load could find (CancelAcquisition, ClearExternalCheckpoints).
CancelledIsGone ==
  \A m \in Removers : remover[m].at \in {"cancelled", "cleared"} /\ remover[m].alone
    => primary = Absent /\ backup = Absent

\* A cancel command that found no file, and no setup beside it, has missed only what
\* an interrupted save left in its backup alone: it does not look there, where a
\* load does (CancelAcquisition, loadExternalCheckpoint).
MissedOnlyTorn ==
  \A m \in Removers : remover[m].at = "nothing" /\ remover[m].alone /\ Load # Absent
    => primary = Absent /\ (faults > 0 \/ disables > 0)
=============================================================================
