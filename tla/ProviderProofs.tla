--------------------------- MODULE ProviderProofs ---------------------------
(* Proofs about Provider: what is reported of the checkpoint is so, and no    *)
(* setup drops or takes over a pending one; requests reach the session they   *)
(* name; and what the rules accept means what the setup makes of it; for any  *)
(* number of requests, cancel commands, daemons, sessions, crashes, failing   *)
(* calls and restarts of the machine.                                         *)
EXTENDS Provider, TLAPS

-----------------------------------------------------------------------------
(* ExternalWorkflow. *)

Nexts == {"none", "approve_shadow_mode", "disable_sip", "reenable_sip"}
Answers == [next : Nexts, err : BOOLEAN, verified : BOOLEAN]

SavingSteps == {"save", "move", "create", "replace", "drop"}
RemovingSteps == {"remove", "remove_backup"}
WorkSteps == {"inspect", "inspect_change", "acquire", "follow_up", "revalidate", "reconcile"}
               \union SavingSteps \union RemovingSteps

\* A setup that runs, and what one has told.
Works ==
  [at : WorkSteps, request : Requests, disabling : BOOLEAN, unsure : BOOLEAN, answer : Answers,
   draft : SUBSET Workflow!Checkpoints]
Reports ==
  [at : {"told"}, told : Workflow!Told, asked : Nexts, ignorant : BOOLEAN,
   draft : SUBSET Workflow!Checkpoints]

\* A cancel command.
Removals ==
  [at : {"nothing", "cancel", "cancel_backup", "cancelled", "cleared"}, alone : BOOLEAN]
    \union [at : {"clear"}, todo : SUBSET {"primary", "backup"}, alone : BOOLEAN]

IsFile(file) == file \subseteq Workflow!Checkpoints /\ \A c, d \in file : c = d

WorkflowTypes ==
  /\ IsFile(v1) /\ IsFile(v2)
  /\ v3 \in {Workflow!Idle} \union Works \union Reports
  /\ v4 \in [Removers -> {Workflow!Idle} \union Removals]
  /\ v5 \in {"enabled", "disabled"} /\ v6 \in 0..MaxTime
  /\ v7 \in 0..MaxDisables /\ v8 \in 0..WorkflowFaults
  /\ v9 \in BOOLEAN

\* What is left of the files p and b at the time t.
Live(p, b, t) == {c \in p \union b : t < c.expires}

\* The two files are of one workflow, the backup is no newer than the file, and a
\* pending restoration is not hidden by something else.
FilesInv(p, b, t) ==
  /\ \A c, d \in Live(p, b, t) : c.request = d.request /\ c.expires = d.expires
  /\ \A c \in p, d \in b :
       /\ d.expires <= c.expires
       /\ t < d.expires /\ d.action = "reenable_sip" => c.action = "reenable_sip"

\* No restoration is pending.
Plain(p, b, t) == \A c \in Live(p, b, t) : c.action # "reenable_sip"

\* What a setup has found out of the files, and still holds.
InspectInv(s, p, b, t) ==
  /\ s.at \in {"inspect", "inspect_change", "revalidate"} => s.answer.next = "none" /\ ~s.disabling
  /\ s.at \in {"inspect_change", "acquire", "follow_up"} => Plain(p, b, t)
  /\ s.at \in {"acquire", "follow_up", "revalidate", "reconcile"} =>
       \A c \in Live(p, b, t) : c.request = s.request
  /\ s.at = "reconcile" => Plain(p, b, t) \/ s.answer.next \in {"none", "reenable_sip"}

\* A checkpoint that is saved continues the workflow that is pending.
SaveInv(s, p, b, t) ==
  /\ s.at \in SavingSteps =>
       /\ s.draft # {} /\ \A d, e \in s.draft : d = e
       /\ \A d \in s.draft :
            /\ \A c \in p \union b : c.expires <= d.expires
            /\ \A c \in Live(p, b, t) :
                 /\ c.request = d.request /\ c.expires = d.expires
                 /\ c.action = "reenable_sip" => d.action = "reenable_sip"
  /\ s.at \in {"move", "create"} => b = {}
  /\ s.at \in {"create", "replace"} => p = {}

\* What a setup reports in the end.
ReportInv(s, p, b, state, touched) ==
  /\ s.at = "drop" /\ ~touched => p = s.draft
  /\ s.at = "remove_backup" => p = {}
  /\ s.at \in RemovingSteps => s.answer.verified
  /\ s.at \notin {"idle", "told"} /\ s.answer.verified => state = "enabled"
  /\ s.at \in SavingSteps \union RemovingSteps \union {"reconcile"} =>
       (s.disabling /\ ~s.unsure /\ state = "disabled" => s.answer.next = "reenable_sip")
  /\ s.at = "told" =>
       /\ ~touched /\ s.told = "persisted" => p = s.draft /\ b = {}
       /\ ~touched /\ s.told = "cleared" => p = {} /\ b = {}
       /\ ~s.ignorant /\ state = "disabled" => s.asked = "reenable_sip"

\* What a cancel command that no setup ran beside has removed.
CancelInv(r, s, p, b) ==
  r.at # "idle" /\ r.alone =>
    /\ s.at \in {"idle", "told"}
    /\ r.at = "cancel_backup" => p = {}
    /\ r.at = "clear" => (p # {} => "primary" \in r.todo) /\ (b # {} => "backup" \in r.todo)
    /\ r.at = "nothing" => p = {}
    /\ r.at \in {"cancelled", "cleared"} => p = {} /\ b = {}

WorkflowInv ==
  /\ WorkflowTypes
  /\ FilesInv(v1, v2, v6)
  /\ InspectInv(v3, v1, v2, v6) /\ SaveInv(v3, v1, v2, v6) /\ ReportInv(v3, v1, v2, v5, v9)
  /\ \A m \in Removers : CancelInv(v4[m], v3, v1, v2)

\* Files that go or expire hide nothing and claim no more.
LEMMA FilesShrink ==
  ASSUME NEW p, NEW b, NEW q, NEW a, NEW t \in Nat, NEW u \in Nat,
         IsFile(p), IsFile(b), q \subseteq p, a \subseteq b, t <= u, FilesInv(p, b, t)
  PROVE  FilesInv(q, a, u) /\ Live(q, a, u) \subseteq Live(p, b, t)
<1>1. \A c \in p \union b : c.expires \in Nat
  BY BoundsAssumption DEF IsFile, Workflow!Checkpoints
<1>2. Live(q, a, u) \subseteq Live(p, b, t)
  BY <1>1 DEF Live
<1>3. \A d \in a : u < d.expires => t < d.expires
  BY <1>1
<1> QED
  BY <1>2, <1>3 DEF FilesInv

LEMMA SetupShrink ==
  ASSUME NEW s, NEW p, NEW b, NEW q, NEW a, NEW t, NEW u,
         q \subseteq p, a \subseteq b, Live(q, a, u) \subseteq Live(p, b, t)
  PROVE  /\ InspectInv(s, p, b, t) => InspectInv(s, q, a, u)
         /\ SaveInv(s, p, b, t) => SaveInv(s, q, a, u)
<1>1. InspectInv(s, p, b, t) => InspectInv(s, q, a, u)
  BY DEF InspectInv, Plain
<1>2. SaveInv(s, p, b, t) => SaveInv(s, q, a, u)
  BY DEF SaveInv
<1> QED
  BY <1>1, <1>2

LEMMA ReportShrinks ==
  ASSUME NEW s, NEW p, NEW b, NEW q, NEW a, NEW state, NEW touched, NEW later,
         q \subseteq p, touched => later, later \/ (q = p /\ a = b),
         ReportInv(s, p, b, state, touched)
  PROVE  ReportInv(s, q, a, state, later)
BY DEF ReportInv

\* A step of a setup that runs: no cancel command has run alone.
LEMMA NoneAlone ==
  ASSUME WorkflowInv, v3 \in Works, v4' = v4
  PROVE  \A m \in Removers : CancelInv(v4[m], v3, v1, v2)'
<1>1. v3.at \notin {"idle", "told"}
  BY DEF Works, WorkSteps, SavingSteps, RemovingSteps
<1>2. \A m \in Removers : ~(v4[m].at # "idle" /\ v4[m].alone)
  BY <1>1 DEF WorkflowInv, CancelInv
<1> QED
  BY <1>2 DEF CancelInv

LEMMA SetupKinds ==
  /\ \A s \in Works : s.at \in WorkSteps /\ s.at \notin {"idle", "told"}
  /\ \A s \in Reports : s.at = "told"
  /\ Workflow!Idle.at = "idle"
BY DEF Works, Reports, WorkSteps, SavingSteps, RemovingSteps, Workflow!Idle

LEMMA WorkGoes ==
  ASSUME v3 \in Works, NEW step \in WorkSteps, v3' = [v3 EXCEPT !.at = step]
  PROVE  /\ v3' \in Works /\ v3'.at = step /\ v3'.request = v3.request
         /\ v3'.disabling = v3.disabling /\ v3'.unsure = v3.unsure
         /\ v3'.answer = v3.answer /\ v3'.draft = v3.draft
BY DEF Works

\* What a setup tells, it tells of what it did.
LEMMA WorkTells ==
  ASSUME v3 \in Works, NEW told \in Workflow!Told, Workflow!Tell(told)
  PROVE  /\ v3' \in Reports /\ v3'.at = "told" /\ v3'.told = told
         /\ v3'.asked = v3.answer.next
         /\ ~v3'.ignorant => v3.disabling /\ ~v3.unsure
         /\ told = "persisted" => v3'.draft = v3.draft
<1>1. v3' = [at |-> "told", told |-> told, asked |-> v3.answer.next,
             ignorant |-> v3.disabling => v3.unsure,
             draft |-> IF told = "persisted" THEN v3.draft ELSE {}]
  BY DEF Workflow!Tell, Workflow!Absent
<1>2. /\ v3.answer.next \in Nexts /\ v3.draft \in SUBSET Workflow!Checkpoints
      /\ (v3.disabling => v3.unsure) \in BOOLEAN
  BY DEF Works, Answers
<1>3. v3' \in Reports
  BY <1>1, <1>2 DEF Reports
<1>4. v3'.ignorant = (v3.disabling => v3.unsure)
  BY <1>1
<1> QED
  BY <1>1, <1>3, <1>4

\* A setup that has told leaves nothing to be kept but its report.
LEMMA ToldKeeps ==
  ASSUME WorkflowInv, v3 \in Works, NEW told \in Workflow!Told, Workflow!Tell(told),
         v4' = v4, v5' = v5, v9' = v9,
         v3.at \in {"inspect", "inspect_change", "reconcile"} \union SavingSteps \union RemovingSteps,
         told = "persisted" /\ ~v9 => v1' = v3.draft /\ v2' = {},
         told = "cleared" /\ ~v9 => v1' = {} /\ v2' = {}
  PROVE  /\ InspectInv(v3, v1, v2, v6)' /\ SaveInv(v3, v1, v2, v6)' /\ ReportInv(v3, v1, v2, v5, v9)'
         /\ v3' \in Reports
         /\ \A m \in Removers : CancelInv(v4[m], v3, v1, v2)'
<1>1. /\ v3' \in Reports /\ v3'.at = "told" /\ v3'.told = told /\ v3'.asked = v3.answer.next
      /\ ~v3'.ignorant => v3.disabling /\ ~v3.unsure
      /\ told = "persisted" => v3'.draft = v3.draft
  BY WorkTells
<1>2. InspectInv(v3, v1, v2, v6)' /\ SaveInv(v3, v1, v2, v6)'
  BY <1>1 DEF InspectInv, SaveInv, SavingSteps
<1>3. ~v3'.ignorant /\ v5' = "disabled" => v3'.asked = "reenable_sip"
  BY <1>1 DEF WorkflowInv, InspectInv, ReportInv
<1>4. ReportInv(v3, v1, v2, v5, v9)'
  BY <1>1, <1>3 DEF ReportInv, SavingSteps, RemovingSteps
<1> QED
  BY <1>1, <1>2, <1>4, NoneAlone

\* The steps of a setup that change nothing but the setup.
Quiet == v1' = v1 /\ v2' = v2 /\ v4' = v4 /\ v5' = v5 /\ v6' = v6 /\ v7' = v7 /\ v8' = v8
           /\ v9' = v9

\* What a load finds stands for all that is left of the files.
LEMMA LoadSpeaks ==
  ASSUME WorkflowInv
  PROVE  /\ Workflow!Load \subseteq Live(v1, v2, v6)
         /\ Workflow!Load = {} => Live(v1, v2, v6) = {}
         /\ \A c \in Workflow!Load : \A d \in Live(v1, v2, v6) :
               c.request = d.request /\ c.expires = d.expires
         /\ (\A c \in Workflow!Load : c.action # "reenable_sip") => Plain(v1, v2, v6)
         /\ \A c \in Workflow!Load : \A d \in v1 \union v2 : d.expires <= c.expires
<1>1. \A c \in v1 \union v2 : c.expires \in Nat /\ v6 \in Nat
  BY BoundsAssumption DEF WorkflowInv, WorkflowTypes, IsFile, Workflow!Checkpoints
<1>2. Workflow!Load \subseteq Live(v1, v2, v6) /\ (Workflow!Load = {} => Live(v1, v2, v6) = {})
  BY DEF Workflow!Load, Workflow!Valid, Workflow!Absent, Live
<1>3. ASSUME NEW c \in Workflow!Load, NEW d \in v1 \union v2
      PROVE  d.expires <= c.expires
  <2>1. CASE c \in v1
    BY <1>1, <1>3, <2>1 DEF WorkflowInv, WorkflowTypes, IsFile, FilesInv
  <2>2. CASE c \notin v1
    <3>1. c \in v2 /\ v6 < c.expires /\ Workflow!Valid(v1) = {}
      BY <1>3, <2>2 DEF Workflow!Load, Workflow!Valid, Workflow!Absent
    <3>2. v1 = {}
      BY <1>1, <3>1 DEF WorkflowInv, FilesInv, Workflow!Valid
    <3> QED
      BY <1>1, <1>3, <3>1, <3>2 DEF WorkflowInv, WorkflowTypes, IsFile
  <2> QED
    BY <2>1, <2>2
<1>4. (\A c \in Workflow!Load : c.action # "reenable_sip") => Plain(v1, v2, v6)
  <2> SUFFICES ASSUME \A c \in Workflow!Load : c.action # "reenable_sip", NEW d \in Live(v1, v2, v6)
               PROVE  d.action # "reenable_sip"
    BY DEF Plain
  <2>1. CASE Workflow!Valid(v1) = {}
    BY <2>1 DEF Workflow!Load, Workflow!Valid, Workflow!Absent, Live
  <2>2. CASE Workflow!Valid(v1) # {}
    BY <2>2 DEF Workflow!Load, Workflow!Valid, Workflow!Absent, Live, WorkflowInv, FilesInv
  <2> QED
    BY <2>1, <2>2
<1> QED
  BY <1>2, <1>3, <1>4 DEF WorkflowInv, FilesInv

LEMMA QuietKeeps ==
  ASSUME WorkflowInv, Quiet, v3' \in Works \union Reports,
         InspectInv(v3, v1, v2, v6)', SaveInv(v3, v1, v2, v6)', ReportInv(v3, v1, v2, v5, v9)',
         \A m \in Removers : CancelInv(v4[m], v3, v1, v2)'
  PROVE  WorkflowInv'
<1>1. WorkflowTypes'
  BY DEF WorkflowInv, WorkflowTypes, Quiet, IsFile
<1>2. FilesInv(v1, v2, v6)'
  BY DEF WorkflowInv, Quiet, FilesInv, Live
<1> QED
  BY <1>1, <1>2 DEF WorkflowInv

LEMMA RunningWorks ==
  ASSUME WorkflowTypes, v3.at \in WorkSteps
  PROVE  v3 \in Works
BY SetupKinds DEF WorkflowTypes, WorkSteps, SavingSteps, RemovingSteps

LEMMA InspectKeeps ==
  ASSUME WorkflowInv, Workflow!InspectRestoration \/ Workflow!InspectChange
  PROVE  WorkflowInv'
<1>1. Quiet /\ v3.at \in {"inspect", "inspect_change"}
  BY DEF Workflow!InspectRestoration, Workflow!InspectChange, Workflow!files,
     Workflow!machine, Quiet
<1>2. v3 \in Works /\ v3.answer.next = "none" /\ ~v3.disabling
  BY <1>1, RunningWorks DEF WorkflowInv, InspectInv, WorkSteps
<1>3. CASE \E told \in Workflow!Told : Workflow!Tell(told) /\ told \notin {"persisted", "cleared"}
  BY <1>1, <1>2, <1>3, ToldKeeps, QuietKeeps DEF Quiet
<1>4. CASE /\ v3.at = "inspect" /\ v3' = [v3 EXCEPT !.at = "inspect_change"]
           /\ \A c \in Workflow!Load : c.action # "reenable_sip"
  <2>1. /\ v3' \in Works /\ v3'.at = "inspect_change" /\ v3'.answer = v3.answer
        /\ v3'.disabling = v3.disabling
    BY <1>2, <1>4, WorkGoes DEF WorkSteps
  <2>2. Plain(v1, v2, v6)'
    BY <1>1, <1>4, LoadSpeaks DEF Quiet, Plain, Live
  <2>3. InspectInv(v3, v1, v2, v6)'
    BY <1>2, <2>1, <2>2 DEF InspectInv
  <2>4. SaveInv(v3, v1, v2, v6)' /\ ReportInv(v3, v1, v2, v5, v9)'
    BY <1>1, <2>1 DEF WorkflowInv, SaveInv, ReportInv, SavingSteps, RemovingSteps, Quiet
  <2> QED
    BY <1>1, <1>2, <2>1, <2>3, <2>4, QuietKeeps, NoneAlone DEF Quiet
<1>5. CASE \E c \in Workflow!Load : v3' = [v3 EXCEPT !.at = "revalidate", !.request = c.request]
  <2>1. PICK c \in Workflow!Load : v3' = [v3 EXCEPT !.at = "revalidate", !.request = c.request]
    BY <1>5
  <2>2. c.request \in Requests
    BY LoadSpeaks DEF WorkflowInv, WorkflowTypes, IsFile, Workflow!Checkpoints, Live
  <2>3. /\ v3' \in Works /\ v3'.at = "revalidate" /\ v3'.answer = v3.answer
        /\ v3'.disabling = v3.disabling /\ v3'.request = c.request
    BY <1>2, <2>1, <2>2 DEF Works, WorkSteps
  <2>4. \A d \in Live(v1, v2, v6) : d.request = c.request
    BY LoadSpeaks
  <2>5. InspectInv(v3, v1, v2, v6)'
    BY <1>1, <1>2, <2>3, <2>4 DEF InspectInv, Quiet, Live
  <2>6. SaveInv(v3, v1, v2, v6)' /\ ReportInv(v3, v1, v2, v5, v9)'
    BY <1>1, <2>3 DEF WorkflowInv, SaveInv, ReportInv, SavingSteps, RemovingSteps, Quiet
  <2> QED
    BY <1>1, <1>2, <2>3, <2>5, <2>6, QuietKeeps, NoneAlone DEF Quiet
<1>6. CASE Workflow!InspectChange
  <2> DEFINE change == {c \in Workflow!Load : Workflow!Stage(c.action) = "external_change"}
  <2>1. CASE \E c \in change : c.request # v3.request
    BY <1>3, <1>6, <2>1 DEF Workflow!InspectChange, Workflow!Told
  <2>2. CASE \A c \in change : c.request = v3.request
    <3>1. v3.at = "inspect_change"
          /\ v3' = [v3 EXCEPT !.at = "acquire", !.disabling = \E c \in change : c.action = "disable_sip"]
      BY <1>6, <2>2 DEF Workflow!InspectChange
    <3>2. /\ v3' \in Works /\ v3'.at = "acquire" /\ v3'.request = v3.request
          /\ v3'.answer = v3.answer
      BY <1>2, <3>1 DEF Works, WorkSteps
    <3>3. Plain(v1, v2, v6)
      BY <3>1 DEF WorkflowInv, InspectInv
    <3>4. Workflow!Load \subseteq change
      <4>1. \A c \in Workflow!Load : c.action \in {"approve_shadow_mode", "disable_sip"}
        BY <3>3, LoadSpeaks DEF Plain, WorkflowInv, WorkflowTypes, IsFile,
           Workflow!Checkpoints, Live
      <4> QED
        BY <4>1 DEF Workflow!Stage
    <3>5. \A d \in Live(v1, v2, v6) : d.request = v3.request
      BY <2>2, <3>4, LoadSpeaks
    <3>6. InspectInv(v3, v1, v2, v6)'
      BY <1>1, <3>2, <3>3, <3>5 DEF InspectInv, Quiet, Live, Plain
    <3>7. SaveInv(v3, v1, v2, v6)' /\ ReportInv(v3, v1, v2, v5, v9)'
      BY <1>1, <3>2 DEF WorkflowInv, SaveInv, ReportInv, SavingSteps, RemovingSteps, Quiet
    <3> QED
      BY <1>1, <1>2, <3>2, <3>6, <3>7, QuietKeeps, NoneAlone DEF Quiet
  <2> QED
    BY <2>1, <2>2
<1>7. CASE Workflow!InspectRestoration
  BY <1>3, <1>4, <1>5, <1>7 DEF Workflow!InspectRestoration, Workflow!Goto, Workflow!Told
<1> QED
  BY <1>6, <1>7

LEMMA AcquireKeeps ==
  ASSUME WorkflowInv, Workflow!Acquire
  PROVE  WorkflowInv'
<1>1. Quiet /\ v3.at = "acquire"
  BY DEF Workflow!Acquire, Workflow!files, Workflow!machine, Quiet
<1>2. v3 \in Works
  BY <1>1, RunningWorks DEF WorkflowInv, WorkSteps
<1>3. PICK a \in Workflow!Acquired :
        v3' = [v3 EXCEPT !.answer = a,
                 !.at = IF v3.disabling /\ a.err THEN "follow_up" ELSE "reconcile"]
  BY DEF Workflow!Acquire
<1>4. /\ a \in Answers
      /\ a.verified => v5 = "enabled"
      /\ v5 = "disabled" => a.err \/ a.next = "reenable_sip"
  <2>1. PICK n \in Nexts, e \in BOOLEAN, w \in BOOLEAN : a = [next |-> n, err |-> e, verified |-> w]
    <3>1. \A n \in Nexts, e \in BOOLEAN, w \in BOOLEAN :
            Workflow!Answer(n, e, w) = [next |-> n, err |-> e, verified |-> w]
      BY DEF Workflow!Answer
    <3>2. \E n \in Nexts, e \in BOOLEAN, w \in BOOLEAN : a = Workflow!Answer(n, e, w)
      BY <1>3 DEF Workflow!Acquired, Workflow!NoAnswer, Nexts
    <3> QED
      BY <3>1, <3>2
  <2>2. v5 # "enabled" => a.verified = FALSE /\ (a.err = TRUE \/ a.next = "reenable_sip")
    BY <1>3 DEF Workflow!Acquired, Workflow!Answer, Workflow!NoAnswer
  <2>3. a \in Answers
    BY <2>1 DEF Answers
  <2> QED
    BY <2>2, <2>3
<1>5. /\ v3' \in Works /\ v3'.answer = a /\ v3'.request = v3.request /\ v3'.disabling = v3.disabling
      /\ v3'.at = IF v3.disabling /\ a.err THEN "follow_up" ELSE "reconcile"
  BY <1>2, <1>3, <1>4 DEF Works, WorkSteps
<1>6. Plain(v1, v2, v6) /\ \A c \in Live(v1, v2, v6) : c.request = v3.request
  BY <1>1 DEF WorkflowInv, InspectInv
<1>7. InspectInv(v3, v1, v2, v6)'
  BY <1>1, <1>5, <1>6 DEF InspectInv, Quiet, Live, Plain
<1>8. SaveInv(v3, v1, v2, v6)'
  BY <1>5 DEF SaveInv, SavingSteps
<1>9. ReportInv(v3, v1, v2, v5, v9)'
  BY <1>1, <1>4, <1>5 DEF ReportInv, SavingSteps, RemovingSteps, Quiet
<1> QED
  BY <1>1, <1>2, <1>5, <1>7, <1>8, <1>9, QuietKeeps, NoneAlone DEF Quiet

LEMMA FollowUpKeeps ==
  ASSUME WorkflowInv, Workflow!FollowUp
  PROVE  WorkflowInv'
<1>1. Quiet /\ v3.at = "follow_up"
  BY DEF Workflow!FollowUp, Workflow!files, Workflow!machine, Quiet
<1>2. v3 \in Works
  BY <1>1, RunningWorks DEF WorkflowInv, WorkSteps
<1>3. /\ Workflow!Posture \in Answers
      /\ Workflow!Posture.next = "reenable_sip" => ~Workflow!Posture.verified
      /\ v5 = "disabled" => Workflow!Posture.next = "reenable_sip"
  BY DEF Workflow!Posture, Workflow!Answer, Answers, Nexts
<1>4. Plain(v1, v2, v6) /\ \A c \in Live(v1, v2, v6) : c.request = v3.request
  BY <1>1 DEF WorkflowInv, InspectInv
<1>5. \/ v3' = [v3 EXCEPT !.at = "reconcile",
                  !.answer = IF Workflow!Posture.next = "reenable_sip" THEN Workflow!Posture ELSE @]
      \/ v3' = [v3 EXCEPT !.at = "reconcile", !.unsure = TRUE]
  BY DEF Workflow!FollowUp
<1>6. /\ v3' \in Works /\ v3'.at = "reconcile" /\ v3'.request = v3.request
      /\ \/ v3'.answer = Workflow!Posture /\ Workflow!Posture.next = "reenable_sip"
         \/ v3'.answer = v3.answer /\ (v3'.unsure \/ v5 # "disabled")
  BY <1>2, <1>3, <1>5 DEF Works, WorkSteps
<1>7. InspectInv(v3, v1, v2, v6)'
  BY <1>1, <1>4, <1>6 DEF InspectInv, Quiet, Live, Plain
<1>8. SaveInv(v3, v1, v2, v6)'
  BY <1>6 DEF SaveInv, SavingSteps
<1>9. ReportInv(v3, v1, v2, v5, v9)'
  <2>1. v3'.answer.verified => v5 = "enabled"
    BY <1>1, <1>3, <1>6 DEF WorkflowInv, ReportInv
  <2>2. ~v3'.unsure /\ v5 = "disabled" => v3'.answer.next = "reenable_sip"
    BY <1>6
  <2> QED
    BY <1>1, <1>6, <2>1, <2>2 DEF ReportInv, SavingSteps, RemovingSteps, Quiet
<1> QED
  BY <1>1, <1>2, <1>6, <1>7, <1>8, <1>9, QuietKeeps, NoneAlone DEF Quiet

LEMMA RevalidateKeeps ==
  ASSUME WorkflowInv, Workflow!Revalidate \/ Workflow!RevalidateFails
  PROVE  WorkflowInv'
<1>1. Quiet /\ v3.at = "revalidate"
  BY DEF Workflow!Revalidate, Workflow!RevalidateFails, Workflow!Goto, Workflow!files,
     Workflow!machine, Quiet
<1>2. v3 \in Works
  BY <1>1, RunningWorks DEF WorkflowInv, WorkSteps
<1>3. /\ Workflow!Posture \in Answers
      /\ Workflow!Posture.next \in {"none", "reenable_sip"}
      /\ Workflow!Posture.verified => v5 = "enabled"
  BY DEF Workflow!Posture, Workflow!Answer, Answers, Nexts
<1>4. v3.answer.next = "none" /\ ~v3.disabling /\ \A c \in Live(v1, v2, v6) : c.request = v3.request
  BY <1>1 DEF WorkflowInv, InspectInv
<1>5. \/ v3' = [v3 EXCEPT !.at = "reconcile", !.answer = Workflow!Posture]
      \/ v3' = [v3 EXCEPT !.at = "reconcile"]
  BY DEF Workflow!Revalidate, Workflow!RevalidateFails, Workflow!Goto
<1>6. /\ v3' \in Works /\ v3'.at = "reconcile" /\ v3'.request = v3.request
      /\ v3'.disabling = v3.disabling /\ v3'.answer \in {Workflow!Posture, v3.answer}
  BY <1>2, <1>3, <1>5 DEF Works, WorkSteps
<1>7. InspectInv(v3, v1, v2, v6)'
  BY <1>1, <1>3, <1>4, <1>6 DEF InspectInv, Quiet, Live
<1>8. SaveInv(v3, v1, v2, v6)'
  BY <1>6 DEF SaveInv, SavingSteps
<1>9. ReportInv(v3, v1, v2, v5, v9)'
  <2>1. v3'.answer.verified => v5 = "enabled"
    BY <1>1, <1>3, <1>6 DEF WorkflowInv, ReportInv
  <2> QED
    BY <1>1, <1>4, <1>6, <2>1 DEF ReportInv, SavingSteps, RemovingSteps, Quiet
<1> QED
  BY <1>1, <1>2, <1>6, <1>7, <1>8, <1>9, QuietKeeps, NoneAlone DEF Quiet

LEMMA DraftKeeps ==
  ASSUME WorkflowInv, Workflow!DraftCheckpoint
  PROVE  WorkflowInv'
<1> DEFINE previous == {c \in Workflow!Load : c.request = v3.request}
           lives == IF previous = {} THEN {v6 + Lifetime} ELSE {c.expires : c \in previous}
<1>1. /\ Quiet /\ v3.at = "reconcile" /\ Workflow!Stage(v3.answer.next) # "none"
      /\ v3' = [v3 EXCEPT !.at = "save",
           !.draft = {[request |-> v3.request, action |-> v3.answer.next, expires |-> e] : e \in lives}]
  BY DEF Workflow!DraftCheckpoint, Workflow!files, Workflow!machine, Quiet, Workflow!Absent
<1>2. v3 \in Works
  BY <1>1, RunningWorks DEF WorkflowInv, WorkSteps
<1>3. previous = Workflow!Load
  BY <1>1, LoadSpeaks DEF WorkflowInv, InspectInv
<1>4. /\ v6 \in 0..MaxTime /\ v6 + Lifetime \in 0..(MaxTime + Lifetime)
      /\ \A c \in v1 \union v2 : c.expires \in 0..(MaxTime + Lifetime)
  BY BoundsAssumption DEF WorkflowInv, WorkflowTypes, IsFile, Workflow!Checkpoints
<1>5. PICK e \in 0..(MaxTime + Lifetime) :
        /\ lives = {e}
        /\ \A c \in Live(v1, v2, v6) : c.expires = e
        /\ \A c \in v1 \union v2 : c.expires <= e
  <2>1. CASE previous = {}
    <3>1. Live(v1, v2, v6) = {}
      BY <1>3, <2>1, LoadSpeaks
    <3>2. \A c \in v1 \union v2 : c.expires <= v6
      BY <1>4, <3>1 DEF Live
    <3>3. \A c \in v1 \union v2 : c.expires <= v6 + Lifetime
      BY <1>4, <3>2, BoundsAssumption
    <3> QED
      BY <1>4, <2>1, <3>1, <3>3
  <2>2. CASE previous # {}
    <3>1. PICK c \in Workflow!Load : TRUE
      BY <1>3, <2>2
    <3>2. \A d \in Workflow!Load : d.expires = c.expires
      BY LoadSpeaks
    <3>3. c \in v1 \union v2
      BY LoadSpeaks DEF Live
    <3>4. lives = {c.expires}
      BY <1>3, <2>2, <3>1, <3>2
    <3>5. /\ \A d \in Live(v1, v2, v6) : d.expires = c.expires
          /\ \A d \in v1 \union v2 : d.expires <= c.expires
      BY LoadSpeaks
    <3> QED
      BY <1>4, <3>3, <3>4, <3>5
  <2> QED
    BY <2>1, <2>2
<1> HIDE DEF lives, previous
<1>6. PICK d \in Workflow!Checkpoints :
        d.request = v3.request /\ d.action = v3.answer.next /\ d.expires = e /\ v3'.draft = {d}
  <2>1. v3.answer.next \in {"approve_shadow_mode", "disable_sip", "reenable_sip"} /\ v3.request \in Requests
    BY <1>1, <1>2 DEF Workflow!Stage, Works, Answers
  <2>2. [request |-> v3.request, action |-> v3.answer.next, expires |-> e] \in Workflow!Checkpoints
    BY <2>1 DEF Workflow!Checkpoints
  <2>3. v3'.draft = {[request |-> v3.request, action |-> v3.answer.next, expires |-> e]}
    BY <1>1, <1>2, <1>5 DEF Works
  <2> QED
    BY <2>2, <2>3
<1>7. /\ v3' \in Works /\ v3'.at = "save" /\ v3'.answer = v3.answer /\ v3'.disabling = v3.disabling
      /\ v3'.unsure = v3.unsure
  <2>1. /\ v3' = [v3 EXCEPT !.at = "save", !.draft = {d}]
        /\ {d} \in SUBSET Workflow!Checkpoints
    BY <1>1, <1>2, <1>6 DEF Works
  <2> QED
    BY <1>2, <2>1 DEF Works, WorkSteps, SavingSteps
<1>8. \A c \in Live(v1, v2, v6) : c.request = v3.request
  BY <1>1 DEF WorkflowInv, InspectInv
<1>9. (\E c \in Live(v1, v2, v6) : c.action = "reenable_sip") => v3.answer.next = "reenable_sip"
  <2>1. v3.answer.next # "none"
    BY <1>1 DEF Workflow!Stage
  <2> QED
    BY <1>1, <2>1 DEF WorkflowInv, InspectInv, Plain
<1>10. InspectInv(v3, v1, v2, v6)'
  BY <1>7 DEF InspectInv
<1>11. SaveInv(v3, v1, v2, v6)'
  BY <1>1, <1>5, <1>6, <1>7, <1>8, <1>9 DEF SaveInv, Quiet, Live
<1>12. ReportInv(v3, v1, v2, v5, v9)'
  BY <1>1, <1>7 DEF WorkflowInv, ReportInv, SavingSteps, RemovingSteps, Quiet
<1> QED
  BY <1>1, <1>2, <1>7, <1>10, <1>11, <1>12, QuietKeeps, NoneAlone DEF Quiet

LEMMA ReconcileKeeps ==
  ASSUME WorkflowInv, Workflow!Reconcile
  PROVE  WorkflowInv'
<1>1. Quiet /\ v3.at = "reconcile"
  BY DEF Workflow!Reconcile, Workflow!files, Workflow!machine, Quiet
<1>2. v3 \in Works
  BY <1>1, RunningWorks DEF WorkflowInv, WorkSteps
<1>3. CASE Workflow!Tell("failed") \/ Workflow!Tell("done")
  <2>1. {"failed", "done"} \subseteq Workflow!Told
    BY DEF Workflow!Told
  <2>2. PICK told \in {"failed", "done"} : Workflow!Tell(told)
    BY <1>3
  <2> QED
    BY <1>1, <1>2, <2>1, <2>2, ToldKeeps, QuietKeeps DEF Quiet
<1>4. CASE Workflow!Goto("remove") /\ v3.answer.verified
  <2>1. v3' = [v3 EXCEPT !.at = "remove"]
    BY <1>4 DEF Workflow!Goto
  <2>2. /\ v3' \in Works /\ v3'.at = "remove" /\ v3'.answer = v3.answer
        /\ v3'.disabling = v3.disabling /\ v3'.unsure = v3.unsure
    BY <1>2, <2>1, WorkGoes DEF WorkSteps, RemovingSteps
  <2>3. InspectInv(v3, v1, v2, v6)' /\ SaveInv(v3, v1, v2, v6)'
    BY <2>2 DEF InspectInv, SaveInv, SavingSteps
  <2>4. ReportInv(v3, v1, v2, v5, v9)'
    BY <1>1, <1>4, <2>2 DEF WorkflowInv, ReportInv, SavingSteps, RemovingSteps, Quiet
  <2> QED
    BY <1>1, <1>2, <2>2, <2>3, <2>4, QuietKeeps, NoneAlone DEF Quiet
<1> QED
  BY <1>3, <1>4 DEF Workflow!Reconcile, Workflow!Settles

\* A step of a setup that changes the files.
LEMMA FileStepKeeps ==
  ASSUME WorkflowInv, v3 \in Works, v4' = v4, v5' = v5, v6' = v6, v7' = v7, v9' = v9,
         v8' \in 0..WorkflowFaults,
         IsFile(v1'), IsFile(v2'), FilesInv(v1', v2', v6), v3' \in Works \union Reports,
         InspectInv(v3, v1, v2, v6)', SaveInv(v3, v1, v2, v6)', ReportInv(v3, v1, v2, v5, v9)'
  PROVE  WorkflowInv'
<1>1. WorkflowTypes'
  BY DEF WorkflowInv, WorkflowTypes, IsFile
<1>2. FilesInv(v1, v2, v6)'
  OBVIOUS
<1> QED
  BY <1>1, <1>2, NoneAlone DEF WorkflowInv

LEMMA EmptyFile == IsFile({})
BY DEF IsFile

LEMMA RemoveBackupKeeps ==
  ASSUME WorkflowInv, Workflow!RemoveBackup
  PROVE  WorkflowInv'
<1>1. /\ v3.at = "save" /\ v1' = v1 /\ v4' = v4 /\ v5' = v5 /\ v6' = v6 /\ v7' = v7 /\ v8' = v8
      /\ v9' = v9
      /\ \/ Workflow!Tell("unavailable") /\ v2' = v2
         \/ /\ v2' = {} /\ v3' = [v3 EXCEPT !.at = "move"]
  BY DEF Workflow!RemoveBackup, Workflow!machine, Workflow!Goto, Workflow!Absent
<1>2. v3 \in Works
  BY <1>1, RunningWorks DEF WorkflowInv, WorkSteps, SavingSteps
<1>3. CASE Workflow!Tell("unavailable") /\ v2' = v2
  <2>1. "unavailable" \in Workflow!Told
    BY DEF Workflow!Told
  <2> QED
    BY <1>1, <1>2, <1>3, <2>1, ToldKeeps, QuietKeeps DEF Quiet, SavingSteps
<1>4. CASE v2' = {} /\ v3' = [v3 EXCEPT !.at = "move"]
  <2>1. /\ v3' \in Works /\ v3'.at = "move" /\ v3'.answer = v3.answer /\ v3'.draft = v3.draft
        /\ v3'.disabling = v3.disabling /\ v3'.unsure = v3.unsure
    BY <1>2, <1>4, WorkGoes DEF WorkSteps, SavingSteps
  <2>2. /\ FilesInv(v1, {}, v6) /\ Live(v1, {}, v6) \subseteq Live(v1, v2, v6)
        /\ IsFile(v1)
    <3>1. IsFile(v1) /\ IsFile(v2) /\ v6 \in Nat /\ v6 <= v6 /\ FilesInv(v1, v2, v6)
      BY BoundsAssumption DEF WorkflowInv, WorkflowTypes
    <3>2. v1 \subseteq v1 /\ {} \subseteq v2
      OBVIOUS
    <3> QED
      BY <3>1, <3>2, FilesShrink
  <2>3. SaveInv(v3, v1, {}, v6)
    BY <2>2, SetupShrink DEF WorkflowInv
  <2>4. InspectInv(v3, v1, v2, v6)'
    BY <2>1 DEF InspectInv
  <2>5. SaveInv(v3, v1, v2, v6)'
    BY <1>1, <1>4, <2>1, <2>3 DEF SaveInv, SavingSteps
  <2>6. ReportInv(v3, v1, v2, v5, v9)'
    BY <1>1, <2>1 DEF WorkflowInv, ReportInv, SavingSteps, RemovingSteps
  <2>7. v8' \in 0..WorkflowFaults
    BY <1>1, <1>4 DEF WorkflowInv, WorkflowTypes
  <2>8. FilesInv(v1', v2', v6) /\ IsFile(v1') /\ IsFile(v2')
    BY <1>1, <1>4, <2>2, EmptyFile
  <2> QED
    BY <1>1, <1>2, <2>1, <2>4, <2>5, <2>6, <2>7, <2>8, FileStepKeeps
<1> QED
  BY <1>1, <1>3, <1>4

LEMMA MoveKeeps ==
  ASSUME WorkflowInv, Workflow!MovePrimary
  PROVE  WorkflowInv'
<1>1. /\ v3.at = "move" /\ v1' = {} /\ v2' = (IF v1 = {} THEN v2 ELSE v1)
      /\ v3' = [v3 EXCEPT !.at = IF v1 = {} THEN "create" ELSE "replace"]
      /\ v4' = v4 /\ v5' = v5 /\ v6' = v6 /\ v7' = v7 /\ v8' = v8 /\ v9' = v9
  BY DEF Workflow!MovePrimary, Workflow!machine, Workflow!Goto, Workflow!Absent
<1>2. v3 \in Works
  BY <1>1, RunningWorks DEF WorkflowInv, WorkSteps, SavingSteps
<1>3. v2 = {} /\ v2' = v1
  BY <1>1 DEF WorkflowInv, SaveInv
<1>4. /\ v3' \in Works /\ v3'.at = (IF v1 = {} THEN "create" ELSE "replace") /\ v3'.answer = v3.answer
      /\ v3'.draft = v3.draft /\ v3'.disabling = v3.disabling /\ v3'.unsure = v3.unsure
  BY <1>1, <1>2, WorkGoes DEF WorkSteps, SavingSteps
<1>5. Live(v1', v2', v6) = Live(v1, v2, v6) /\ v1' \union v2' = v1 \union v2
  BY <1>1, <1>3 DEF Live
<1>6. FilesInv(v1', v2', v6) /\ IsFile(v1') /\ IsFile(v2')
  BY <1>1, <1>3, <1>5, EmptyFile DEF WorkflowInv, WorkflowTypes, FilesInv
<1>7. InspectInv(v3, v1, v2, v6)'
  BY <1>4 DEF InspectInv
<1>8. SaveInv(v3, v1, v2, v6)'
  <2>1. SaveInv(v3, v1, v2, v6) /\ v3.at \in SavingSteps
    BY <1>1 DEF WorkflowInv, SavingSteps
  <2>2. /\ v3.draft # {} /\ \A d, e \in v3.draft : d = e
        /\ \A d \in v3.draft :
             /\ \A c \in v1' \union v2' : c.expires <= d.expires
             /\ \A c \in Live(v1', v2', v6) :
                  /\ c.request = d.request /\ c.expires = d.expires
                  /\ c.action = "reenable_sip" => d.action = "reenable_sip"
    BY <1>5, <2>1 DEF SaveInv
  <2> QED
    BY <1>1, <1>3, <1>4, <2>2 DEF SaveInv
<1>9. ReportInv(v3, v1, v2, v5, v9)'
  BY <1>1, <1>4 DEF WorkflowInv, ReportInv, SavingSteps, RemovingSteps
<1>10. v8' \in 0..WorkflowFaults
  BY <1>1 DEF WorkflowInv, WorkflowTypes
<1> QED
  BY <1>1, <1>2, <1>4, <1>6, <1>7, <1>8, <1>9, <1>10, FileStepKeeps

LEMMA PublishKeeps ==
  ASSUME WorkflowInv, Workflow!PublishCheckpoint
  PROVE  WorkflowInv'
<1>1. /\ v3.at \in {"create", "replace"} /\ v1' = v3.draft /\ v2' = v2
      /\ \/ v3.at = "replace" /\ v3' = [v3 EXCEPT !.at = "drop"]
         \/ v3.at = "create" /\ Workflow!Tell("persisted")
      /\ v4' = v4 /\ v5' = v5 /\ v6' = v6 /\ v7' = v7 /\ v8' = v8 /\ v9' = v9
  BY DEF Workflow!PublishCheckpoint, Workflow!machine, Workflow!Goto
<1>2. v3 \in Works
  BY <1>1, RunningWorks DEF WorkflowInv, WorkSteps, SavingSteps
<1>3. /\ v1 = {}
      /\ v3.draft # {} /\ \A d, e \in v3.draft : d = e
      /\ \A d \in v3.draft :
           /\ \A c \in v2 : c.expires <= d.expires
           /\ \A c \in Live(v1, v2, v6) :
                /\ c.request = d.request /\ c.expires = d.expires
                /\ c.action = "reenable_sip" => d.action = "reenable_sip"
  BY <1>1 DEF WorkflowInv, SaveInv, SavingSteps
<1>4. IsFile(v3.draft) /\ IsFile(v2)
  BY <1>2, <1>3 DEF IsFile, Works, WorkflowInv, WorkflowTypes
<1>5. Live(v3.draft, v2, v6) \subseteq v3.draft \union Live(v1, v2, v6)
  BY <1>3 DEF Live
<1>6. FilesInv(v3.draft, v2, v6)
  <2>1. \A c, d \in Live(v3.draft, v2, v6) : c.request = d.request /\ c.expires = d.expires
    BY <1>3, <1>5 DEF WorkflowInv, FilesInv
  <2>2. \A c \in v3.draft, d \in v2 :
          d.expires <= c.expires /\ (v6 < d.expires /\ d.action = "reenable_sip" => c.action = "reenable_sip")
    BY <1>3 DEF Live
  <2> QED
    BY <2>1, <2>2 DEF FilesInv
<1>7. v8' \in 0..WorkflowFaults
  BY <1>1 DEF WorkflowInv, WorkflowTypes
<1>8. CASE v3.at = "replace" /\ v3' = [v3 EXCEPT !.at = "drop"]
  <2>1. /\ v3' \in Works /\ v3'.at = "drop" /\ v3'.answer = v3.answer /\ v3'.draft = v3.draft
        /\ v3'.disabling = v3.disabling /\ v3'.unsure = v3.unsure
    BY <1>2, <1>8, WorkGoes DEF WorkSteps, SavingSteps
  <2>2. InspectInv(v3, v1, v2, v6)'
    BY <2>1 DEF InspectInv
  <2>3. \A d \in v3.draft : \A c \in v3.draft \union v2 : c.expires <= d.expires
    <3>1. \A d \in v3.draft : d.expires \in Nat
      BY <1>4, BoundsAssumption DEF IsFile, Workflow!Checkpoints
    <3> QED
      BY <1>3, <3>1
  <2>4. SaveInv(v3, v1, v2, v6)'
    BY <1>1, <1>3, <1>5, <2>1, <2>3 DEF SaveInv
  <2>5. ReportInv(v3, v1, v2, v5, v9)'
    BY <1>1, <1>8, <2>1 DEF WorkflowInv, ReportInv, SavingSteps, RemovingSteps
  <2> QED
    BY <1>1, <1>2, <1>4, <1>6, <1>7, <2>1, <2>2, <2>4, <2>5, FileStepKeeps
<1>9. CASE v3.at = "create" /\ Workflow!Tell("persisted")
  <2>1. v2 = {}
    BY <1>9 DEF WorkflowInv, SaveInv
  <2>2. "persisted" \in Workflow!Told
    BY DEF Workflow!Told
  <2>3. /\ InspectInv(v3, v1, v2, v6)' /\ SaveInv(v3, v1, v2, v6)' /\ ReportInv(v3, v1, v2, v5, v9)'
        /\ v3' \in Reports
    BY <1>1, <1>2, <1>9, <2>1, <2>2, ToldKeeps DEF SavingSteps
  <2> QED
    BY <1>1, <1>2, <1>4, <1>6, <1>7, <2>3, FileStepKeeps
<1> QED
  BY <1>1, <1>8, <1>9

LEMMA RenameFailsKeeps ==
  ASSUME WorkflowInv, Workflow!RenameFails
  PROVE  WorkflowInv'
<1>1. /\ v3.at \in {"move", "create", "replace"} /\ v8 < WorkflowFaults /\ v8' = v8 + 1
      /\ Workflow!Tell("unavailable")
      /\ \/ v3.at = "replace" /\ v1' = v2 /\ v2' = {}
         \/ v1' = v1 /\ v2' = v2
      /\ v4' = v4 /\ v5' = v5 /\ v6' = v6 /\ v7' = v7 /\ v9' = v9
  BY DEF Workflow!RenameFails, Workflow!files, Workflow!Absent
<1>2. v3 \in Works
  BY <1>1, RunningWorks DEF WorkflowInv, WorkSteps, SavingSteps
<1>3. "unavailable" \in Workflow!Told
  BY DEF Workflow!Told
<1>4. v8' \in 0..WorkflowFaults
  BY <1>1, BoundsAssumption DEF WorkflowInv, WorkflowTypes
<1>5. /\ InspectInv(v3, v1, v2, v6)' /\ SaveInv(v3, v1, v2, v6)' /\ ReportInv(v3, v1, v2, v5, v9)'
      /\ v3' \in Reports
  BY <1>1, <1>2, <1>3, ToldKeeps DEF SavingSteps
<1>6. FilesInv(v1', v2', v6) /\ IsFile(v1') /\ IsFile(v2')
  <2>1. CASE v3.at = "replace" /\ v1' = v2 /\ v2' = {}
    <3>1. v1 = {} /\ FilesInv(v1, v2, v6)
      BY <2>1 DEF WorkflowInv, SaveInv
    <3>2. FilesInv(v2, {}, v6)
      BY <3>1 DEF FilesInv, Live
    <3> QED
      BY <2>1, <3>2, EmptyFile DEF WorkflowInv, WorkflowTypes
  <2>2. CASE v1' = v1 /\ v2' = v2
    BY <2>2 DEF WorkflowInv, WorkflowTypes
  <2> QED
    BY <1>1, <2>1, <2>2
<1> QED
  BY <1>1, <1>2, <1>4, <1>5, <1>6, FileStepKeeps

LEMMA RemovalKeeps ==
  ASSUME WorkflowInv, Workflow!DropBackup \/ Workflow!RemovePrimary \/ Workflow!RemoveLast
  PROVE  WorkflowInv'
<1>1. /\ v4' = v4 /\ v5' = v5 /\ v6' = v6 /\ v7' = v7 /\ v8' = v8 /\ v9' = v9
      /\ v1' \in {v1, {}} /\ v2' \in {v2, {}} /\ v3.at \in {"drop", "remove", "remove_backup"}
      /\ \/ v3.at = "drop" /\ v1' = v1 /\ v2' = {} /\ Workflow!Tell("persisted")
         \/ v3.at = "remove" /\ v1' = {} /\ v2' = v2 /\ v3' = [v3 EXCEPT !.at = "remove_backup"]
         \/ v3.at = "remove_backup" /\ v1' = v1 /\ v2' = {} /\ Workflow!Tell("cleared")
  BY DEF Workflow!DropBackup, Workflow!RemovePrimary, Workflow!RemoveLast, Workflow!machine,
     Workflow!Goto, Workflow!Absent
<1>2. v3 \in Works
  BY <1>1, RunningWorks DEF WorkflowInv, WorkSteps, SavingSteps, RemovingSteps
<1>3. IsFile(v1) /\ IsFile(v2) /\ IsFile(v1') /\ IsFile(v2') /\ v6 \in Nat /\ v6 <= v6
  BY <1>1, EmptyFile, BoundsAssumption DEF WorkflowInv, WorkflowTypes
<1>4. FilesInv(v1', v2', v6)
  <2>1. FilesInv(v1, v2, v6) /\ v1' \subseteq v1 /\ v2' \subseteq v2
    BY <1>1 DEF WorkflowInv
  <2> QED
    BY <1>3, <2>1, FilesShrink
<1>5. v8' \in 0..WorkflowFaults
  BY <1>1 DEF WorkflowInv, WorkflowTypes
<1>6. {"persisted", "cleared"} \subseteq Workflow!Told
  BY DEF Workflow!Told
<1>7. CASE v3.at = "drop" /\ v1' = v1 /\ v2' = {} /\ Workflow!Tell("persisted")
  <2>1. ~v9 => v1 = v3.draft
    BY <1>7 DEF WorkflowInv, ReportInv
  <2>2. /\ InspectInv(v3, v1, v2, v6)' /\ SaveInv(v3, v1, v2, v6)' /\ ReportInv(v3, v1, v2, v5, v9)'
        /\ v3' \in Reports
    BY <1>1, <1>2, <1>6, <1>7, <2>1, ToldKeeps DEF SavingSteps
  <2> QED
    BY <1>1, <1>2, <1>3, <1>4, <1>5, <2>2, FileStepKeeps
<1>8. CASE v3.at = "remove" /\ v1' = {} /\ v2' = v2 /\ v3' = [v3 EXCEPT !.at = "remove_backup"]
  <2>1. /\ v3' \in Works /\ v3'.at = "remove_backup" /\ v3'.answer = v3.answer
        /\ v3'.disabling = v3.disabling /\ v3'.unsure = v3.unsure
    BY <1>2, <1>8, WorkGoes DEF WorkSteps, RemovingSteps
  <2>2. InspectInv(v3, v1, v2, v6)' /\ SaveInv(v3, v1, v2, v6)'
    BY <2>1 DEF InspectInv, SaveInv, SavingSteps
  <2>3. ReportInv(v3, v1, v2, v5, v9)'
    BY <1>1, <1>8, <2>1 DEF WorkflowInv, ReportInv, SavingSteps, RemovingSteps
  <2> QED
    BY <1>1, <1>2, <1>3, <1>4, <1>5, <2>1, <2>2, <2>3, FileStepKeeps
<1>9. CASE v3.at = "remove_backup" /\ v1' = v1 /\ v2' = {} /\ Workflow!Tell("cleared")
  <2>1. v1 = {}
    BY <1>9 DEF WorkflowInv, ReportInv
  <2>2. /\ InspectInv(v3, v1, v2, v6)' /\ SaveInv(v3, v1, v2, v6)' /\ ReportInv(v3, v1, v2, v5, v9)'
        /\ v3' \in Reports
    BY <1>1, <1>2, <1>6, <1>9, <2>1, ToldKeeps DEF RemovingSteps
  <2> QED
    BY <1>1, <1>2, <1>3, <1>4, <1>5, <2>2, FileStepKeeps
<1> QED
  BY <1>1, <1>7, <1>8, <1>9

\* Files go or the clock advances, beside the setup.
LEMMA ShrinkKeeps ==
  ASSUME WorkflowInv, v3' = v3, v5' = v5, v7' = v7,
         v6' \in 0..MaxTime, v6 <= v6', v8' \in 0..WorkflowFaults, v9' \in BOOLEAN,
         v1' \in {v1, {}}, v2' \in {v2, {}}, v9 => v9', v9' \/ (v1' = v1 /\ v2' = v2),
         v4' \in [Removers -> {Workflow!Idle} \union Removals],
         \A m \in Removers : CancelInv(v4'[m], v3, v1', v2')
  PROVE  WorkflowInv'
<1>1. v6 \in Nat /\ v6' \in Nat /\ IsFile(v1) /\ IsFile(v2) /\ v1' \subseteq v1 /\ v2' \subseteq v2
  BY BoundsAssumption DEF WorkflowInv, WorkflowTypes
<1>2. FilesInv(v1', v2', v6') /\ Live(v1', v2', v6') \subseteq Live(v1, v2, v6)
  <2>1. FilesInv(v1, v2, v6) /\ v6 <= v6'
    BY DEF WorkflowInv
  <2>2. PICK q, a, u : q = v1' /\ a = v2' /\ u = v6'
    OBVIOUS
  <2>3. /\ v6 \in Nat /\ u \in Nat /\ v6 <= u /\ IsFile(v1) /\ IsFile(v2) /\ q \subseteq v1 /\ a \subseteq v2
        /\ FilesInv(v1, v2, v6)
    BY <1>1, <2>1, <2>2
  <2>4. \A c \in v1 \union v2 : c.expires \in Nat
    BY <1>1, BoundsAssumption DEF IsFile, Workflow!Checkpoints
  <2>5. Live(q, a, u) \subseteq Live(v1, v2, v6)
    BY <2>3, <2>4 DEF Live
  <2>6. \A d \in a : u < d.expires => v6 < d.expires
    BY <2>3, <2>4
  <2>7. FilesInv(q, a, u)
    BY <2>3, <2>5, <2>6 DEF FilesInv
  <2> QED
    BY <2>2, <2>5, <2>7
<1>3. InspectInv(v3, v1', v2', v6') /\ SaveInv(v3, v1', v2', v6')
  BY <1>1, <1>2, SetupShrink DEF WorkflowInv
<1>4. ReportInv(v3, v1', v2', v5, v9')
  <2>1. ReportInv(v3, v1, v2, v5, v9)
    BY DEF WorkflowInv
  <2>2. (v9' /\ v9' = TRUE) \/ (v1' = v1 /\ v2' = v2 /\ (v9 => v9'))
    OBVIOUS
  <2> QED
    BY <2>1, <2>2 DEF ReportInv
<1>5. WorkflowTypes'
  BY EmptyFile, <1>1 DEF WorkflowInv, WorkflowTypes, IsFile
<1> QED
  BY <1>2, <1>3, <1>4, <1>5 DEF WorkflowInv

LEMMA CancelShrinks ==
  ASSUME NEW r, NEW s, NEW p, NEW b, NEW q, NEW a, q \in {p, {}}, a \in {b, {}}, CancelInv(r, s, p, b)
  PROVE  CancelInv(r, s, q, a)
BY DEF CancelInv

\* One cancel command goes on.
LEMMA CommandKeeps ==
  ASSUME WorkflowInv, NEW m \in Removers, NEW r \in {Workflow!Idle} \union Removals,
         v4' = [v4 EXCEPT ![m] = r], CancelInv(r, v3, v1', v2'),
         v3' = v3, v5' = v5, v6' = v6, v7' = v7, v8' \in 0..WorkflowFaults,
         v1' \in {v1, {}}, v2' \in {v2, {}},
         \/ v9' = TRUE
         \/ v9' = v9 /\ v1' = v1 /\ v2' = v2
  PROVE  WorkflowInv'
<1>1. v4' \in [Removers -> {Workflow!Idle} \union Removals]
      /\ \A k \in Removers : v4'[k] = IF k = m THEN r ELSE v4[k]
  BY DEF WorkflowInv, WorkflowTypes
<1>2. ASSUME NEW k \in Removers
      PROVE  CancelInv(v4'[k], v3, v1', v2')
  <2>1. CASE k = m
    BY <1>1, <2>1
  <2>2. CASE k # m
    <3>1. CancelInv(v4[k], v3, v1, v2)
      BY DEF WorkflowInv
    <3>2. CancelInv(v4[k], v3, v1', v2')
      BY <3>1, CancelShrinks
    <3> QED
      BY <1>1, <2>2, <3>2
  <2> QED
    BY <2>1, <2>2
<1>3. v6' \in 0..MaxTime /\ v6 <= v6' /\ v9' \in BOOLEAN
  <2>1. v6 \in 0..MaxTime /\ v9 \in BOOLEAN
    BY DEF WorkflowInv, WorkflowTypes
  <2>2. v6 <= v6'
    BY <2>1, BoundsAssumption
  <2>3. v9' \in BOOLEAN
    BY <2>1
  <2> QED
    BY <2>1, <2>2, <2>3
<1>4. (v9 => v9') /\ (v9' \/ (v1' = v1 /\ v2' = v2))
  OBVIOUS
<1> QED
  BY <1>1, <1>2, <1>3, <1>4, ShrinkKeeps

LEMMA CommandKinds ==
  /\ \A at \in {"nothing", "cancel", "cancel_backup", "cancelled", "cleared"}, alone \in BOOLEAN :
       [at |-> at, alone |-> alone] \in Removals
  /\ \A todo \in SUBSET {"primary", "backup"}, alone \in BOOLEAN :
       /\ Workflow!Clearing(todo, alone) \in Removals
       /\ Workflow!Clearing(todo, alone).alone = alone
       /\ Workflow!Clearing(todo, alone).at = IF todo = {} THEN "cleared" ELSE "clear"
       /\ todo # {} => Workflow!Clearing(todo, alone).todo = todo
  /\ \A r \in Removals : r.alone \in BOOLEAN
  /\ \A r \in Removals : r.at = "clear" => r.todo \subseteq {"primary", "backup"}
BY DEF Removals, Workflow!Clearing

LEMMA LookKeeps ==
  ASSUME WorkflowInv, NEW m \in Removers, Workflow!CancelLook(m) \/ Workflow!ClearList(m)
  PROVE  WorkflowInv'
<1> DEFINE todo == {name \in {"primary", "backup"} : IF name = "primary" THEN v1 # {} ELSE v2 # {}}
<1>1. /\ UNCHANGED <<v1, v2>> /\ v3' = v3 /\ v5' = v5 /\ v6' = v6 /\ v7' = v7 /\ v8' = v8
      /\ v9' = v9
      /\ \/ v4' = [v4 EXCEPT ![m] = [at |-> IF v1 = {} THEN "nothing" ELSE "cancel",
                                     alone |-> ~Workflow!Running]]
         \/ v4' = [v4 EXCEPT ![m] = Workflow!Clearing(todo, ~Workflow!Running)]
  BY DEF Workflow!CancelLook, Workflow!ClearList, Workflow!files, Workflow!machine,
     Workflow!Absent
<1>2. ~Workflow!Running => v3.at \in {"idle", "told"}
  BY DEF Workflow!Running
<1>3. v8' \in 0..WorkflowFaults
  BY <1>1 DEF WorkflowInv, WorkflowTypes
<1>4. CASE v4' = [v4 EXCEPT ![m] = [at |-> IF v1 = {} THEN "nothing" ELSE "cancel",
                                    alone |-> ~Workflow!Running]]
  <2>0. PICK found \in {"nothing", "cancel"} :
          /\ found = IF v1 = {} THEN "nothing" ELSE "cancel"
          /\ found = "nothing" => v1 = {}
    OBVIOUS
  <2>1. PICK r \in Removals :
          /\ r = [at |-> IF v1 = {} THEN "nothing" ELSE "cancel", alone |-> ~Workflow!Running]
          /\ r.at = found /\ (r.alone => ~Workflow!Running)
    <3>1. (~Workflow!Running) \in BOOLEAN
      BY DEF Workflow!Running
    <3>2. [at |-> found, alone |-> ~Workflow!Running] \in Removals
      BY <3>1, CommandKinds
    <3> QED
      BY <2>0, <3>2
  <2>2. CancelInv(r, v3, v1', v2')
    BY <1>1, <1>2, <2>0, <2>1 DEF CancelInv
  <2> QED
    BY <1>1, <1>3, <1>4, <2>1, <2>2, CommandKeeps
<1>5. CASE v4' = [v4 EXCEPT ![m] = Workflow!Clearing(todo, ~Workflow!Running)]
  <2>1. PICK r \in Removals :
          /\ r = Workflow!Clearing(todo, ~Workflow!Running)
          /\ r.alone => ~Workflow!Running
          /\ r.at = IF todo = {} THEN "cleared" ELSE "clear"
          /\ todo # {} => r.todo = todo
    BY CommandKinds
  <2>2. CancelInv(r, v3, v1', v2')
    BY <1>1, <1>2, <2>1 DEF CancelInv
  <2> QED
    BY <1>1, <1>3, <1>5, <2>1, <2>2, CommandKeeps
<1> QED
  BY <1>1, <1>4, <1>5

LEMMA CancelKeepsFiles ==
  ASSUME WorkflowInv, NEW m \in Removers, Workflow!CancelPrimary(m) \/ Workflow!CancelBackup(m)
  PROVE  WorkflowInv'
<1>1. /\ v3' = v3 /\ v5' = v5 /\ v6' = v6 /\ v7' = v7 /\ v8' = v8 /\ v9' = TRUE
      /\ \/ /\ v4[m].at = "cancel" /\ v1' = {} /\ v2' = v2
            /\ v4' = [v4 EXCEPT ![m].at = "cancel_backup"]
         \/ /\ v4[m].at = "cancel_backup" /\ v1' = v1 /\ v2' = {}
            /\ v4' = [v4 EXCEPT ![m].at = "cancelled"]
  BY DEF Workflow!CancelPrimary, Workflow!CancelBackup, Workflow!machine, Workflow!Absent
<1>2. /\ v4 \in [Removers -> {Workflow!Idle} \union Removals] /\ v8' \in 0..WorkflowFaults
      /\ CancelInv(v4[m], v3, v1, v2)
  BY <1>1 DEF WorkflowInv, WorkflowTypes
<1>3. v4[m] \in [at : {"nothing", "cancel", "cancel_backup", "cancelled", "cleared"}, alone : BOOLEAN]
  BY <1>1, <1>2 DEF Removals, Workflow!Idle
<1>4. CASE /\ v4[m].at = "cancel" /\ v1' = {} /\ v2' = v2
           /\ v4' = [v4 EXCEPT ![m].at = "cancel_backup"]
  <2>1. PICK r : /\ v4' = [v4 EXCEPT ![m] = r] /\ r = [v4[m] EXCEPT !.at = "cancel_backup"]
    BY <1>2, <1>4
  <2>2. r \in Removals /\ r.at = "cancel_backup" /\ r.alone = v4[m].alone
    BY <1>3, <2>1 DEF Removals
  <2>3. CancelInv(r, v3, v1', v2')
    BY <1>2, <1>4, <2>2 DEF CancelInv
  <2> QED
    BY <1>1, <1>2, <1>4, <2>1, <2>2, <2>3, CommandKeeps
<1>5. CASE /\ v4[m].at = "cancel_backup" /\ v1' = v1 /\ v2' = {}
           /\ v4' = [v4 EXCEPT ![m].at = "cancelled"]
  <2>1. PICK r : /\ v4' = [v4 EXCEPT ![m] = r] /\ r = [v4[m] EXCEPT !.at = "cancelled"]
    BY <1>2, <1>5
  <2>2. r \in Removals /\ r.at = "cancelled" /\ r.alone = v4[m].alone
    BY <1>3, <2>1 DEF Removals
  <2>3. CancelInv(r, v3, v1', v2')
    BY <1>2, <1>5, <2>2 DEF CancelInv
  <2> QED
    BY <1>1, <1>2, <1>5, <2>1, <2>2, <2>3, CommandKeeps
<1> QED
  BY <1>1, <1>4, <1>5

LEMMA ClearKeepsFiles ==
  ASSUME WorkflowInv, NEW m \in Removers, Workflow!ClearPrimary(m) \/ Workflow!ClearBackup(m)
  PROVE  WorkflowInv'
<1>1. /\ v3' = v3 /\ v5' = v5 /\ v6' = v6 /\ v7' = v7 /\ v8' = v8 /\ v9' = TRUE
      /\ v4[m].at = "clear"
      /\ \/ /\ v1' = {} /\ v2' = v2
            /\ v4' = [v4 EXCEPT ![m] = IF v1 = {} THEN Workflow!Idle
                                      ELSE Workflow!Clearing(@.todo \ {"primary"}, @.alone)]
         \/ /\ v4[m].todo = {"backup"} /\ v1' = v1 /\ v2' = {}
            /\ v4' = [v4 EXCEPT ![m] = IF v2 = {} THEN Workflow!Idle
                                      ELSE Workflow!Clearing({}, @.alone)]
  BY DEF Workflow!ClearPrimary, Workflow!ClearBackup, Workflow!machine, Workflow!Absent
<1>2. /\ v4 \in [Removers -> {Workflow!Idle} \union Removals] /\ v8' \in 0..WorkflowFaults
      /\ CancelInv(v4[m], v3, v1, v2)
  BY <1>1 DEF WorkflowInv, WorkflowTypes
<1>3. v4[m] \in Removals /\ v4[m].at = "clear" /\ v4[m].alone \in BOOLEAN
      /\ v4[m].todo \in SUBSET {"primary", "backup"}
  BY <1>1, <1>2, CommandKinds DEF Workflow!Idle
<1>4. CancelInv(Workflow!Idle, v3, v1', v2')
  BY DEF CancelInv, Workflow!Idle
<1>5. CASE /\ v1' = {} /\ v2' = v2
           /\ v4' = [v4 EXCEPT ![m] = IF v1 = {} THEN Workflow!Idle
                                     ELSE Workflow!Clearing(@.todo \ {"primary"}, @.alone)]
  <2> DEFINE todo == v4[m].todo \ {"primary"}
             r == IF v1 = {} THEN Workflow!Idle ELSE Workflow!Clearing(todo, v4[m].alone)
  <2>1. v4' = [v4 EXCEPT ![m] = r]
    BY <1>2, <1>5
  <2>2. todo \in SUBSET {"primary", "backup"}
    BY <1>3
  <2>3. r \in {Workflow!Idle} \union Removals
    BY <1>3, <2>2, CommandKinds
  <2>4. CancelInv(r, v3, v1', v2')
    <3>1. CASE v1 = {}
      BY <1>4, <3>1
    <3>2. CASE v1 # {}
      <4>1. /\ r.alone = v4[m].alone /\ r.at = IF todo = {} THEN "cleared" ELSE "clear"
            /\ todo # {} => r.todo = todo
        BY <1>3, <2>2, <3>2, CommandKinds
      <4>2. v4[m].alone => v3.at \in {"idle", "told"} /\ (v2 # {} => "backup" \in todo)
        BY <1>2, <1>3 DEF CancelInv
      <4> HIDE DEF r, todo
      <4> QED
        BY <1>5, <4>1, <4>2 DEF CancelInv
    <3> QED
      BY <3>1, <3>2
  <2> HIDE DEF r
  <2> QED
    BY <1>1, <1>2, <1>5, <2>1, <2>3, <2>4, CommandKeeps
<1>6. CASE /\ v4[m].todo = {"backup"} /\ v1' = v1 /\ v2' = {}
           /\ v4' = [v4 EXCEPT ![m] = IF v2 = {} THEN Workflow!Idle
                                     ELSE Workflow!Clearing({}, @.alone)]
  <2> DEFINE r == IF v2 = {} THEN Workflow!Idle ELSE Workflow!Clearing({}, v4[m].alone)
  <2>1. v4' = [v4 EXCEPT ![m] = r]
    BY <1>2, <1>6
  <2>2. r \in {Workflow!Idle} \union Removals
    BY <1>3, CommandKinds
  <2>3. CancelInv(r, v3, v1', v2')
    <3>1. CASE v2 = {}
      BY <1>4, <3>1
    <3>2. CASE v2 # {}
      <4>1. r.alone = v4[m].alone /\ r.at = "cleared"
        BY <1>3, <3>2, CommandKinds
      <4>2. v4[m].alone => v3.at \in {"idle", "told"} /\ v1 = {}
        BY <1>2, <1>3, <1>6 DEF CancelInv
      <4> HIDE DEF r
      <4> QED
        BY <1>6, <4>1, <4>2 DEF CancelInv
    <3> QED
      BY <3>1, <3>2
  <2> HIDE DEF r
  <2> QED
    BY <1>1, <1>2, <1>6, <2>1, <2>2, <2>3, CommandKeeps
<1> QED
  BY <1>1, <1>5, <1>6

LEMMA TickKeeps ==
  ASSUME WorkflowInv, Workflow!Tick
  PROVE  WorkflowInv'
<1>1. /\ v1' = v1 /\ v2' = v2 /\ v3' = v3 /\ v4' = v4 /\ v5' = v5 /\ v7' = v7 /\ v8' = v8
      /\ v9' = v9 /\ v6 < MaxTime /\ v6' = v6 + 1
  BY DEF Workflow!Tick, Workflow!files
<1>2. /\ v6 \in 0..MaxTime /\ v4 \in [Removers -> {Workflow!Idle} \union Removals]
      /\ v8 \in 0..WorkflowFaults /\ v9 \in BOOLEAN
      /\ \A m \in Removers : CancelInv(v4[m], v3, v1, v2)
  BY DEF WorkflowInv, WorkflowTypes
<1>3. v6' \in 0..MaxTime /\ v6 <= v6'
  BY <1>1, <1>2, BoundsAssumption
<1>4. /\ v4' \in [Removers -> {Workflow!Idle} \union Removals] /\ v8' \in 0..WorkflowFaults
      /\ v9' \in BOOLEAN /\ (v9 => v9')
      /\ \A m \in Removers : CancelInv(v4'[m], v3, v1', v2')
  BY <1>1, <1>2
<1> QED
  BY <1>1, <1>3, <1>4, ShrinkKeeps

\* The setup is gone, with the cancel commands or without.
LEMMA IdleKeeps ==
  ASSUME WorkflowInv, v1' = v1 /\ v2' = v2 /\ v6' = v6, v3' = Workflow!Idle,
         v5' \in {"enabled", "disabled"}, v7' \in 0..MaxDisables, v8' \in 0..WorkflowFaults,
         v9' = v9,
         v4' = v4 \/ v4' = [m \in Removers |-> Workflow!Idle]
  PROVE  WorkflowInv'
<1>1. WorkflowTypes'
  BY DEF WorkflowInv, WorkflowTypes, IsFile
<1>2. FilesInv(v1', v2', v6')
  BY DEF WorkflowInv
<1>3. v3'.at = "idle"
  BY DEF Workflow!Idle
<1>4. InspectInv(v3', v1', v2', v6') /\ SaveInv(v3', v1', v2', v6') /\ ReportInv(v3', v1', v2', v5', v9')
  BY <1>3 DEF InspectInv, SaveInv, ReportInv, SavingSteps, RemovingSteps
<1>5. ASSUME NEW m \in Removers
      PROVE  CancelInv(v4'[m], v3', v1', v2')
  <2>1. CASE v4' = v4
    BY <1>3, <2>1 DEF WorkflowInv, CancelInv
  <2>2. CASE v4' = [k \in Removers |-> Workflow!Idle]
    BY <2>2 DEF CancelInv, Workflow!Idle
  <2> QED
    BY <2>1, <2>2
<1> QED
  BY <1>1, <1>2, <1>4, <1>5 DEF WorkflowInv

LEMMA BeginKeeps ==
  ASSUME WorkflowInv, NEW r \in Requests, Workflow!Begin(r)
  PROVE  WorkflowInv'
<1>1. /\ v1' = v1 /\ v2' = v2 /\ v5' = v5 /\ v6' = v6 /\ v7' = v7 /\ v8' = v8
      /\ v9' = FALSE
      /\ v3' = [at |-> "inspect", request |-> r, disabling |-> FALSE, unsure |-> FALSE,
               answer |-> Workflow!NoAnswer, draft |-> {}]
      /\ v4' = [m \in Removers |-> IF v4[m].at \in Workflow!Ready THEN Workflow!Idle
                                  ELSE [v4[m] EXCEPT !.alone = FALSE]]
  BY DEF Workflow!Begin, Workflow!files, Workflow!machine, Workflow!Absent
<1>2. Workflow!NoAnswer \in Answers /\ Workflow!NoAnswer.next = "none" /\ ~Workflow!NoAnswer.verified
  BY DEF Workflow!NoAnswer, Workflow!Answer, Answers, Nexts
<1>3. /\ v3' \in Works /\ v3'.at = "inspect" /\ ~v3'.disabling /\ v3'.answer = Workflow!NoAnswer
  BY <1>1, <1>2 DEF Works, WorkSteps
<1>4. ASSUME NEW m \in Removers
      PROVE  /\ v4'[m] \in {Workflow!Idle} \union Removals
             /\ v4'[m] = Workflow!Idle \/ ~v4'[m].alone
  <2>1. v4[m] = Workflow!Idle \/ v4[m] \in Removals
    BY DEF WorkflowInv, WorkflowTypes
  <2>2. v4[m] = Workflow!Idle => v4[m].at \in Workflow!Ready
    BY DEF Workflow!Idle, Workflow!Ready
  <2>3. \A c \in Removals : [c EXCEPT !.alone = FALSE] \in Removals /\ ~[c EXCEPT !.alone = FALSE].alone
    BY DEF Removals
  <2> QED
    BY <1>1, <2>1, <2>2, <2>3
<1>5. WorkflowTypes'
  <2>1. v4' \in [Removers -> {Workflow!Idle} \union Removals]
    BY <1>1, <1>4
  <2> QED
    BY <1>1, <1>3, <2>1 DEF WorkflowInv, WorkflowTypes, IsFile
<1>6. FilesInv(v1', v2', v6')
  BY <1>1 DEF WorkflowInv
<1>7. InspectInv(v3', v1', v2', v6') /\ SaveInv(v3', v1', v2', v6') /\ ReportInv(v3', v1', v2', v5', v9')
  BY <1>2, <1>3 DEF InspectInv, SaveInv, ReportInv, SavingSteps, RemovingSteps
<1>8. \A m \in Removers : CancelInv(v4'[m], v3', v1', v2')
  BY <1>4 DEF CancelInv, Workflow!Idle
<1> QED
  BY <1>5, <1>6, <1>7, <1>8 DEF WorkflowInv

LEMMA WorkflowInit ==
  ASSUME Init, which = "workflow"
  PROVE  WorkflowInv
<1>1. Workflow!Init
  BY DEF Init
<1>2. /\ v1 = {} /\ v2 = {} /\ v3 = Workflow!Idle /\ v4 = [m \in Removers |-> Workflow!Idle]
      /\ v5 = "enabled" /\ v6 = 0 /\ v7 = 0 /\ v8 = 0 /\ v9 = FALSE
  BY <1>1 DEF Workflow!Init, Workflow!Absent
<1>3. WorkflowTypes
  <2>1. {v6} \subseteq 0..MaxTime /\ {v7} \subseteq 0..MaxDisables /\ {v8} \subseteq 0..WorkflowFaults
    BY <1>2, BoundsAssumption
  <2>2. v4 \in [Removers -> {Workflow!Idle} \union Removals]
    BY <1>2
  <2>3. v9 \in BOOLEAN
    BY <1>2
  <2> QED
    BY <1>2, <2>1, <2>2, <2>3, EmptyFile DEF WorkflowTypes
<1>4. FilesInv(v1, v2, v6)
  BY <1>2 DEF FilesInv, Live
<1>5. v3.at = "idle"
  BY <1>2, SetupKinds
<1>6. InspectInv(v3, v1, v2, v6) /\ SaveInv(v3, v1, v2, v6) /\ ReportInv(v3, v1, v2, v5, v9)
  BY <1>5 DEF InspectInv, SaveInv, ReportInv, SavingSteps, RemovingSteps
<1>7. \A m \in Removers : CancelInv(v4[m], v3, v1, v2)
  BY <1>2 DEF CancelInv, Workflow!Idle
<1> QED
  BY <1>3, <1>4, <1>6, <1>7 DEF WorkflowInv

\* Crashes, and restarts of the machine.
LEMMA CrashKeeps ==
  ASSUME WorkflowInv,
         \/ Workflow!CrashSetup \/ Workflow!DisableSip \/ Workflow!EnableSip
         \/ \E m \in Removers : Workflow!CrashRemover(m)
  PROVE  WorkflowInv'
<1>1. /\ v5 \in {"enabled", "disabled"} /\ v7 \in 0..MaxDisables /\ v8 \in 0..WorkflowFaults
  BY DEF WorkflowInv, WorkflowTypes
<1>2. v8 < WorkflowFaults => v8 + 1 \in 0..WorkflowFaults
  BY <1>1, BoundsAssumption
<1>3. v7 < MaxDisables => v7 + 1 \in 0..MaxDisables
  BY <1>1, BoundsAssumption
<1>4. CASE Workflow!CrashSetup
  <2>1. /\ v1' = v1 /\ v2' = v2 /\ v6' = v6 /\ v3' = Workflow!Idle /\ v5' = v5 /\ v7' = v7
        /\ v8 < WorkflowFaults /\ v8' = v8 + 1 /\ v9' = v9 /\ v4' = v4
    BY <1>4 DEF Workflow!CrashSetup, Workflow!files
  <2> QED
    BY <1>1, <1>2, <2>1, IdleKeeps
<1>5. CASE Workflow!DisableSip
  <2>1. /\ v1' = v1 /\ v2' = v2 /\ v6' = v6 /\ v3' = Workflow!Idle /\ v5' = "disabled"
        /\ v7 < MaxDisables /\ v7' = v7 + 1 /\ v8' = v8 /\ v9' = v9
        /\ v4' = [m \in Removers |-> Workflow!Idle]
    BY <1>5 DEF Workflow!DisableSip, Workflow!Restart, Workflow!files
  <2> QED
    BY <1>1, <1>3, <2>1, IdleKeeps
<1>6. CASE Workflow!EnableSip
  <2>1. /\ v1' = v1 /\ v2' = v2 /\ v6' = v6 /\ v3' = Workflow!Idle /\ v5' = "enabled"
        /\ v7' = v7 /\ v8' = v8 /\ v9' = v9
        /\ v4' = [m \in Removers |-> Workflow!Idle]
    BY <1>6 DEF Workflow!EnableSip, Workflow!Restart, Workflow!files
  <2> QED
    BY <1>1, <2>1, IdleKeeps
<1>7. CASE \E m \in Removers : Workflow!CrashRemover(m)
  <2>1. PICK m \in Removers : Workflow!CrashRemover(m)
    BY <1>7
  <2>2. /\ v1' = v1 /\ v2' = v2 /\ v3' = v3 /\ v5' = v5 /\ v6' = v6 /\ v7' = v7
        /\ v8 < WorkflowFaults /\ v8' = v8 + 1 /\ v9' = v9
        /\ v4' = [v4 EXCEPT ![m] = Workflow!Idle]
    BY <2>1 DEF Workflow!CrashRemover, Workflow!files
  <2>3. CancelInv(Workflow!Idle, v3, v1', v2')
    BY DEF CancelInv, Workflow!Idle
  <2>4. Workflow!Idle \in {Workflow!Idle} \union Removals
    OBVIOUS
  <2> QED
    BY <1>2, <2>2, <2>3, <2>4, CommandKeeps
<1> QED
  BY <1>4, <1>5, <1>6, <1>7

LEMMA RestKeeps ==
  ASSUME WorkflowInv, UNCHANGED Workflow!vars
  PROVE  WorkflowInv'
<1>1. /\ v1' = v1 /\ v2' = v2 /\ v3' = v3 /\ v4' = v4 /\ v5' = v5 /\ v6' = v6 /\ v7' = v7
      /\ v8' = v8 /\ v9' = v9
  BY DEF Workflow!vars
<1> QED
  BY <1>1 DEF WorkflowInv, WorkflowTypes, IsFile, FilesInv, Live, InspectInv, SaveInv,
     ReportInv,
              CancelInv, Plain

LEMMA WorkflowStep ==
  ASSUME WorkflowInv, [Workflow!Next]_(Workflow!vars)
  PROVE  WorkflowInv'
<1>1. CASE \E r \in Requests : Workflow!Begin(r)
  BY <1>1, BeginKeeps
<1>2. CASE Workflow!SetupStep
  BY <1>2, InspectKeeps, AcquireKeeps, FollowUpKeeps, RevalidateKeeps, DraftKeeps,
     ReconcileKeeps,
     RemoveBackupKeeps, MoveKeeps, PublishKeeps, RenameFailsKeeps, RemovalKeeps DEF Workflow!SetupStep
<1>3. CASE \E m \in Removers : Workflow!RemoverStep(m)
  BY <1>3, LookKeeps, CancelKeepsFiles, ClearKeepsFiles DEF Workflow!RemoverStep
<1>4. CASE \/ Workflow!CrashSetup \/ Workflow!DisableSip \/ Workflow!EnableSip
           \/ \E m \in Removers : Workflow!CrashRemover(m)
  BY <1>4, CrashKeeps
<1>5. CASE Workflow!Tick
  BY <1>5, TickKeeps
<1>6. CASE UNCHANGED Workflow!vars
  BY <1>6, RestKeeps
<1> QED
  BY <1>1, <1>2, <1>3, <1>4, <1>5, <1>6 DEF Workflow!Next

\* Only a save that is under way, or was ended before its end, has a backup.
TornInv ==
  /\ v7 = 0 /\ v8 = 0 /\ v2 # {} => v3.at \in {"replace", "drop"}
  /\ v7 = 0 => v5 = "enabled"

LEMMA TornStep ==
  ASSUME WorkflowInv, TornInv, [Workflow!Next]_(Workflow!vars)
  PROVE  TornInv'
<1>1. v7 \in Nat /\ v8 \in Nat
  BY BoundsAssumption DEF WorkflowInv, WorkflowTypes
<1>9. v7' = 0 => v5' = "enabled"
  <2>1. \/ v5' = v5 /\ v7' = v7
        \/ Workflow!DisableSip \/ Workflow!EnableSip
    BY DEF Workflow!Next, Workflow!SetupStep, Workflow!RemoverStep, Workflow!vars,
       Workflow!InspectRestoration, Workflow!InspectChange, Workflow!Acquire, Workflow!FollowUp,
       Workflow!Revalidate, Workflow!RevalidateFails, Workflow!DraftCheckpoint,
       Workflow!Reconcile, Workflow!RemoveBackup, Workflow!MovePrimary,
       Workflow!PublishCheckpoint, Workflow!RenameFails, Workflow!DropBackup,
       Workflow!RemovePrimary, Workflow!RemoveLast, Workflow!CancelLook, Workflow!CancelPrimary,
       Workflow!CancelBackup, Workflow!ClearList, Workflow!ClearPrimary, Workflow!ClearBackup,
       Workflow!CrashRemover, Workflow!CrashSetup, Workflow!Begin, Workflow!Tick,
       Workflow!machine
  <2>2. Workflow!DisableSip => v7' = v7 + 1
    BY DEF Workflow!DisableSip
  <2>3. Workflow!EnableSip => v5' = "enabled"
    BY DEF Workflow!EnableSip, Workflow!Restart
  <2> QED
    BY <1>1, <2>1, <2>2, <2>3 DEF TornInv
<1> SUFFICES ASSUME v7' = 0, v8' = 0, v2' # {}
             PROVE  v3'.at \in {"replace", "drop"}
  BY <1>9 DEF TornInv
<1>2. CASE Workflow!MovePrimary
  <2>1. /\ v3.at = "move" /\ v2' = (IF v1 = {} THEN v2 ELSE v1) /\ v7' = v7 /\ v8' = v8
        /\ v3' = [v3 EXCEPT !.at = IF v1 = {} THEN "create" ELSE "replace"]
    BY <1>2 DEF Workflow!MovePrimary, Workflow!machine, Workflow!Goto, Workflow!Absent
  <2>2. v2 = {}
    BY <2>1 DEF TornInv
  <2>3. v3 \in Works
    BY <2>1, RunningWorks DEF WorkflowInv, WorkSteps, SavingSteps
  <2> QED
    BY <2>1, <2>2, <2>3 DEF Works
<1>3. CASE Workflow!PublishCheckpoint
  <2>1. /\ v3.at \in {"create", "replace"} /\ v2' = v2 /\ v7' = v7 /\ v8' = v8
        /\ v3.at = "replace" => v3' = [v3 EXCEPT !.at = "drop"]
    BY <1>3 DEF Workflow!PublishCheckpoint, Workflow!machine, Workflow!Goto
  <2>2. v3.at = "replace"
    BY <2>1 DEF TornInv
  <2>3. v3 \in Works
    BY <2>1, RunningWorks DEF WorkflowInv, WorkSteps, SavingSteps
  <2> QED
    BY <2>1, <2>2, <2>3 DEF Works
<1>4. CASE Workflow!RenameFails \/ Workflow!CrashSetup \/ Workflow!DisableSip
           \/ \E m \in Removers : Workflow!CrashRemover(m)
  <2>1. v8' = v8 + 1 \/ v7' = v7 + 1
    BY <1>4 DEF Workflow!RenameFails, Workflow!CrashSetup, Workflow!DisableSip,
       Workflow!CrashRemover
  <2> QED
    BY <1>1, <2>1
<1>5. CASE Workflow!RemoveBackup \/ Workflow!DropBackup \/ Workflow!RemoveLast
  <2>1. v2' = {} \/ (v3.at = "save" /\ v2' = v2 /\ v7' = v7 /\ v8' = v8)
    BY <1>5 DEF Workflow!RemoveBackup, Workflow!DropBackup, Workflow!RemoveLast,
       Workflow!machine, Workflow!Absent
  <2> QED
    BY <2>1 DEF TornInv
<1>6. CASE \/ Workflow!InspectRestoration \/ Workflow!InspectChange \/ Workflow!Acquire
           \/ Workflow!FollowUp \/ Workflow!Revalidate \/ Workflow!RevalidateFails
           \/ Workflow!DraftCheckpoint \/ Workflow!Reconcile \/ Workflow!RemovePrimary
           \/ \E r \in Requests : Workflow!Begin(r)
  <2>1. v2' = v2 /\ v7' = v7 /\ v8' = v8 /\ v3.at \notin {"replace", "drop"}
    BY <1>6 DEF Workflow!InspectRestoration, Workflow!InspectChange, Workflow!Acquire,
       Workflow!FollowUp, Workflow!Revalidate, Workflow!RevalidateFails,
       Workflow!DraftCheckpoint, Workflow!Reconcile, Workflow!RemovePrimary, Workflow!Begin,
       Workflow!Running, Workflow!files, Workflow!machine
  <2> QED
    BY <2>1 DEF TornInv
<1>7. CASE Workflow!EnableSip
  <2>1. v5 = "disabled" /\ v7' = v7 /\ v8' = v8 /\ v2' = v2
    BY <1>7 DEF Workflow!EnableSip, Workflow!Restart, Workflow!files
  <2> QED
    BY <2>1 DEF TornInv
<1>8. CASE Workflow!Tick \/ UNCHANGED Workflow!vars \/ \E m \in Removers : Workflow!RemoverStep(m)
  <2>1. v3' = v3 /\ v7' = v7 /\ v8' = v8 /\ v2' \in {v2, {}}
    BY <1>8 DEF Workflow!Tick, Workflow!vars, Workflow!RemoverStep, Workflow!CancelLook,
       Workflow!CancelPrimary, Workflow!CancelBackup, Workflow!ClearList,
       Workflow!ClearPrimary, Workflow!ClearBackup, Workflow!files, Workflow!machine,
       Workflow!Absent
  <2> QED
    BY <2>1 DEF TornInv
<1> QED
  BY <1>2, <1>3, <1>4, <1>5, <1>6, <1>7, <1>8 DEF Workflow!Next, Workflow!SetupStep

\* What the setup and the cancel commands report is so.
LEMMA TrueReports ==
  ASSUME WorkflowInv, TornInv
  PROVE  /\ Workflow!TypeOK /\ Workflow!ToldTrue /\ Workflow!DisabledNoticed
         /\ Workflow!CancelledIsGone /\ Workflow!MissedOnlyTorn
<1>1. Workflow!TypeOK
  <2>1. \A file \in {v1, v2} : file \subseteq Workflow!Checkpoints /\ \A c, d \in file : c = d
    BY DEF WorkflowInv, WorkflowTypes, IsFile
  <2>2. \/ v3.at = "idle"
        \/ v3.at = "told" /\ v3.told \in Workflow!Told /\ v3.draft \subseteq Workflow!Checkpoints
        \/ v3.at \in WorkSteps /\ v3.request \in Requests /\ v3.draft \subseteq Workflow!Checkpoints
    BY SetupKinds DEF WorkflowInv, WorkflowTypes, Works, Reports
  <2>3. ASSUME NEW m \in Removers
        PROVE  /\ v4[m].at \in {"idle", "nothing", "cancel", "cancel_backup", "cancelled", "clear",
                                "cleared"}
               /\ v4[m].at = "clear" => v4[m].todo \subseteq {"primary", "backup"}
    <3>1. v4[m] = Workflow!Idle \/ v4[m] \in Removals
      BY DEF WorkflowInv, WorkflowTypes
    <3> QED
      BY <3>1 DEF Removals, Workflow!Idle
  <2>4. /\ v5 \in {"enabled", "disabled"} /\ v6 \in 0..MaxTime /\ v7 \in 0..MaxDisables
        /\ v8 \in 0..WorkflowFaults /\ v9 \in BOOLEAN
    BY DEF WorkflowInv, WorkflowTypes
  <2> QED
    BY <2>1, <2>2, <2>3, <2>4 DEF Workflow!TypeOK, WorkSteps, SavingSteps, RemovingSteps
<1>2. Workflow!ToldTrue
  <2>1. ASSUME v3.at = "told", ~v9
        PROVE  /\ v3.told = "persisted" => Workflow!Load = Workflow!Valid(v3.draft)
               /\ v3.told = "cleared" => Workflow!Load = Workflow!Absent
    BY <2>1 DEF WorkflowInv, ReportInv, Workflow!Load, Workflow!Valid, Workflow!Absent
  <2> QED
    BY <2>1 DEF Workflow!ToldTrue
<1>3. Workflow!DisabledNoticed
  BY DEF WorkflowInv, ReportInv, Workflow!DisabledNoticed
<1>4. Workflow!CancelledIsGone
  BY DEF WorkflowInv, CancelInv, Workflow!CancelledIsGone, Workflow!Absent
<1>5. Workflow!MissedOnlyTorn
  <2> SUFFICES ASSUME NEW m \in Removers, v4[m].at = "nothing", v4[m].alone, Workflow!Load # {}
               PROVE  v1 = {} /\ (v8 > 0 \/ v7 > 0)
    BY DEF Workflow!MissedOnlyTorn, Workflow!Absent
  <2>1. v1 = {} /\ v3.at \in {"idle", "told"}
    BY DEF WorkflowInv, CancelInv
  <2>2. v2 # {}
    BY <2>1 DEF Workflow!Load, Workflow!Valid, Workflow!Absent
  <2>3. v7 \in Nat /\ v8 \in Nat
    BY BoundsAssumption DEF WorkflowInv, WorkflowTypes
  <2> QED
    BY <2>1, <2>2, <2>3 DEF TornInv
<1> QED
  BY <1>1, <1>2, <1>3, <1>4, <1>5

\* A pending workflow is continued, and never replaced.
LEMMA HandoffKept ==
  ASSUME WorkflowInv, [Workflow!Next]_(Workflow!vars)
  PROVE  Workflow!KeepsHandoff
<1>1. WorkflowInv'
  BY WorkflowStep
<1>2. CASE v1' \union v2' \subseteq v1 \union v2 /\ v6' >= v6
  <2>1. Live(v1, v2, v6)' \subseteq Live(v1, v2, v6)
    <3>1. \A c \in v1 \union v2 : c.expires \in Nat /\ v6 \in Nat
      BY BoundsAssumption DEF WorkflowInv, WorkflowTypes, IsFile, Workflow!Checkpoints
    <3>2. v6' \in Nat
      BY <1>1, BoundsAssumption DEF WorkflowInv, WorkflowTypes
    <3> QED
      BY <1>2, <3>1, <3>2 DEF Live
  <2>2. Workflow!Load' \subseteq Live(v1, v2, v6)'
    BY DEF Workflow!Load, Workflow!Valid, Workflow!Absent, Live
  <2> QED
    BY <2>1, <2>2, LoadSpeaks DEF Workflow!KeepsHandoff
<1>3. CASE Workflow!PublishCheckpoint
  <2>1. v3.at \in {"create", "replace"} /\ v1' = v3.draft /\ v2' = v2 /\ v6' = v6
    BY <1>3 DEF Workflow!PublishCheckpoint, Workflow!machine
  <2>2. \A d \in v3.draft : \A c \in Live(v1, v2, v6) : c.request = d.request /\ c.expires = d.expires
    BY <2>1 DEF WorkflowInv, SaveInv, SavingSteps
  <2>3. Workflow!Load' \subseteq v3.draft \union Live(v1, v2, v6)
    BY <2>1 DEF Workflow!Load, Workflow!Valid, Workflow!Absent, Live
  <2> QED
    BY <2>2, <2>3, LoadSpeaks DEF Workflow!KeepsHandoff
<1>4. v6 >= v6
  BY BoundsAssumption DEF WorkflowInv, WorkflowTypes
<1>5. CASE UNCHANGED Workflow!vars
  BY <1>2, <1>4, <1>5 DEF Workflow!vars
<1>6. CASE Workflow!SetupStep /\ ~Workflow!PublishCheckpoint
  <2>1. v1' \union v2' \subseteq v1 \union v2 /\ v6' = v6
    BY <1>6 DEF Workflow!SetupStep, Workflow!InspectRestoration, Workflow!InspectChange,
       Workflow!Acquire, Workflow!FollowUp, Workflow!Revalidate, Workflow!RevalidateFails,
       Workflow!DraftCheckpoint, Workflow!Reconcile, Workflow!RemoveBackup, Workflow!MovePrimary,
       Workflow!RenameFails, Workflow!DropBackup, Workflow!RemovePrimary, Workflow!RemoveLast,
       Workflow!files, Workflow!machine, Workflow!Absent
  <2> QED
    BY <1>2, <1>4, <2>1
<1>7. CASE \E m \in Removers : Workflow!RemoverStep(m) \/ Workflow!CrashRemover(m)
  <2>1. PICK m \in Removers : Workflow!RemoverStep(m) \/ Workflow!CrashRemover(m)
    BY <1>7
  <2>2. v1' \union v2' \subseteq v1 \union v2 /\ v6' = v6
    BY <2>1 DEF Workflow!RemoverStep, Workflow!CancelLook, Workflow!CancelPrimary,
       Workflow!CancelBackup, Workflow!ClearList, Workflow!ClearPrimary, Workflow!ClearBackup,
       Workflow!CrashRemover, Workflow!files, Workflow!machine, Workflow!Absent
  <2> QED
    BY <1>2, <1>4, <2>2
<1>8. CASE \/ Workflow!Tick \/ Workflow!DisableSip \/ Workflow!EnableSip \/ Workflow!CrashSetup
           \/ \E r \in Requests : Workflow!Begin(r)
  <2>1. v1' = v1 /\ v2' = v2 /\ v6' \in {v6, v6 + 1}
    BY <1>8 DEF Workflow!Tick, Workflow!DisableSip, Workflow!EnableSip, Workflow!Restart,
       Workflow!CrashSetup, Workflow!Begin, Workflow!files, Workflow!machine
  <2>2. v6' >= v6
    BY <2>1, BoundsAssumption DEF WorkflowInv, WorkflowTypes
  <2> QED
    BY <1>2, <2>1, <2>2
<1> QED
  BY <1>3, <1>5, <1>6, <1>7, <1>8 DEF Workflow!Next

\* What a load finds, it finds in the file when there is one.
LEMMA LoadIsFirst ==
  WorkflowInv => Workflow!Load = IF v1 # {} THEN Workflow!Valid(v1) ELSE Workflow!Valid(v2)
<1> SUFFICES ASSUME WorkflowInv
             PROVE  Workflow!Load = IF v1 # {} THEN Workflow!Valid(v1) ELSE Workflow!Valid(v2)
  OBVIOUS
<1>1. CASE v1 = {}
  BY <1>1 DEF Workflow!Load, Workflow!Valid, Workflow!Absent
<1>2. CASE v1 # {}
  <2>1. \A c \in v1, d \in v2 : v6 < d.expires => v6 < c.expires
    <3>1. \A c \in v1 \union v2 : c.expires \in Nat /\ v6 \in Nat
      BY BoundsAssumption DEF WorkflowInv, WorkflowTypes, IsFile, Workflow!Checkpoints
    <3> QED
      BY <3>1 DEF WorkflowInv, FilesInv
  <2>2. Workflow!Valid(v1) = {} => Workflow!Valid(v2) = {}
    BY <1>2, <2>1 DEF Workflow!Valid
  <2> QED
    BY <1>2, <2>2 DEF Workflow!Load, Workflow!Absent
<1> QED
  BY <1>1, <1>2

\* A pending restoration is not dropped by a setup.
LEMMA RestorationStep ==
  ASSUME WorkflowInv, [Workflow!Next]_(Workflow!vars)
  PROVE  Workflow!KeepsRestoration
<1> SUFFICES ASSUME Workflow!Restoring, ~v9', v6' = v6, v5 # "enabled",
                    ~(v3.at = "save" /\ v1 = {})
             PROVE  Workflow!Restoring'
  BY DEF Workflow!KeepsRestoration, Workflow!Absent
<1>1. PICK c \in Workflow!Load : c.action = "reenable_sip"
  BY DEF Workflow!Restoring
<1>2. c \in Live(v1, v2, v6) /\ c.expires \in Nat /\ v6 \in Nat /\ v6 < c.expires
  BY LoadSpeaks, BoundsAssumption DEF WorkflowInv, WorkflowTypes, IsFile,
     Workflow!Checkpoints, Live
<1>3. WorkflowInv'
  BY WorkflowStep
<1>4. Workflow!Load' = IF v1' # {} THEN {d \in v1' : v6 < d.expires} ELSE {d \in v2' : v6 < d.expires}
  <2>1. (Workflow!Load = IF v1 # {} THEN Workflow!Valid(v1) ELSE Workflow!Valid(v2))'
    BY <1>3, LoadIsFirst, PTL
  <2> QED
    BY <2>1 DEF Workflow!Valid
<1>5. Workflow!Load = IF v1 # {} THEN {d \in v1 : v6 < d.expires} ELSE {d \in v2 : v6 < d.expires}
  BY LoadIsFirst DEF Workflow!Valid
<1>6. CASE v1' = v1 /\ v2' = v2
  <2>1. c \in Workflow!Load'
    BY <1>1, <1>4, <1>5, <1>6
  <2> QED
    BY <1>1, <2>1 DEF Workflow!Restoring
<1>7. CASE Workflow!RemoveBackup
  <2>1. v1' = v1 /\ v3.at = "save"
    BY <1>7 DEF Workflow!RemoveBackup, Workflow!Absent
  <2>2. c \in Workflow!Load'
    BY <1>1, <1>4, <1>5, <2>1
  <2> QED
    BY <1>1, <2>2 DEF Workflow!Restoring
<1>8. CASE Workflow!MovePrimary
  <2>1. v3.at = "move" /\ v1' = {} /\ v2' = IF v1 = {} THEN v2 ELSE v1
    BY <1>8 DEF Workflow!MovePrimary, Workflow!Absent
  <2>2. c \in Workflow!Load'
    BY <1>1, <1>4, <1>5, <2>1
  <2> QED
    BY <1>1, <2>2 DEF Workflow!Restoring
<1>9. CASE Workflow!PublishCheckpoint
  <2>1. v3.at \in {"create", "replace"} /\ v1' = v3.draft
    BY <1>9 DEF Workflow!PublishCheckpoint
  <2>2. PICK d \in v3.draft : d.expires = c.expires /\ d.action = "reenable_sip"
    BY <1>1, <1>2, <2>1 DEF WorkflowInv, SaveInv, SavingSteps
  <2>3. d \in Workflow!Load'
    BY <1>2, <1>4, <2>1, <2>2
  <2> QED
    BY <2>2, <2>3 DEF Workflow!Restoring
<1>10. CASE Workflow!RenameFails
  <2>1. (v1' = v1 /\ v2' = v2) \/ (v3.at = "replace" /\ v2 # {} /\ v1' = v2)
    BY <1>10 DEF Workflow!RenameFails, Workflow!files, Workflow!Absent
  <2>2. CASE v3.at = "replace" /\ v2 # {} /\ v1' = v2
    <3>1. v1 = {}
      BY <2>2 DEF WorkflowInv, SaveInv
    <3>2. c \in Workflow!Load'
      BY <1>1, <1>4, <1>5, <2>2, <3>1
    <3> QED
      BY <1>1, <3>2 DEF Workflow!Restoring
  <2> QED
    BY <1>6, <2>1, <2>2
<1>11. CASE Workflow!DropBackup
  <2>1. v3.at = "drop" /\ v1' = v1 /\ ~v9
    BY <1>11 DEF Workflow!DropBackup
  <2>2. v1 # {}
    BY <2>1 DEF WorkflowInv, SaveInv, ReportInv, SavingSteps
  <2>3. c \in Workflow!Load'
    BY <1>1, <1>4, <1>5, <2>1, <2>2
  <2> QED
    BY <1>1, <2>3 DEF Workflow!Restoring
<1>12. ~Workflow!RemovePrimary /\ ~Workflow!RemoveLast
  <2>1. v3.at \in RemovingSteps => v5 = "enabled"
    BY DEF WorkflowInv, ReportInv, RemovingSteps
  <2> QED
    BY <2>1 DEF Workflow!RemovePrimary, Workflow!RemoveLast, RemovingSteps
<1>13. CASE UNCHANGED Workflow!vars
  BY <1>6, <1>13 DEF Workflow!vars
<1>14. CASE \/ Workflow!InspectRestoration \/ Workflow!InspectChange \/ Workflow!Acquire
            \/ Workflow!FollowUp \/ Workflow!Revalidate \/ Workflow!RevalidateFails
            \/ Workflow!DraftCheckpoint \/ Workflow!Reconcile
  BY <1>6, <1>14 DEF Workflow!InspectRestoration, Workflow!InspectChange,
     Workflow!Acquire, Workflow!FollowUp, Workflow!Revalidate, Workflow!RevalidateFails,
     Workflow!DraftCheckpoint, Workflow!Reconcile, Workflow!files
<1>15. CASE \E m \in Removers : Workflow!RemoverStep(m) \/ Workflow!CrashRemover(m)
  <2>1. v1' = v1 /\ v2' = v2
    BY <1>15 DEF Workflow!RemoverStep, Workflow!CancelLook, Workflow!CancelPrimary,
       Workflow!CancelBackup, Workflow!ClearList, Workflow!ClearPrimary, Workflow!ClearBackup,
       Workflow!CrashRemover, Workflow!files
  <2> QED
    BY <1>6, <2>1
<1>16. CASE \/ Workflow!Tick \/ Workflow!DisableSip \/ Workflow!EnableSip \/ Workflow!CrashSetup
            \/ \E r \in Requests : Workflow!Begin(r)
  BY <1>6, <1>16 DEF Workflow!Tick, Workflow!DisableSip, Workflow!EnableSip, Workflow!Restart,
     Workflow!CrashSetup, Workflow!Begin, Workflow!files
<1> QED
  BY <1>7, <1>8, <1>9, <1>10, <1>11, <1>12, <1>13, <1>14, <1>15, <1>16
     DEF Workflow!Next, Workflow!SetupStep

-----------------------------------------------------------------------------
(* AcquisitionSession. *)

Confirmations == Session!Actions \union {"unconfirmed", "stop_and_report"}

\* A setup that runs, and a cancel command that does.
SetupSteps == {"load", "prepare", "save", "decide", "observe", "observed", "keep", "finalize",
               "cancel_remove", "cancel", "remove"}
Setups ==
  [at : SetupSteps, scopes : Scopes, confirm : Confirmations, daemon : 1..MaxDaemons,
   r : SUBSET Session!Resumes]
Cancels == [at : {"remove", "send"}, r : SUBSET Session!Resumes]

OneRecord(R) == \A r, q \in R : r = q

\* Every variable holds what it may hold, and a daemon gives an id once.
SessionTypes ==
  /\ v1 \in 0..MaxDaemons /\ v2 \in BOOLEAN /\ (v2 => v1 # 0)
  /\ v3 \subseteq Session!Sessions /\ \A x, y \in v3 : x.id = y.id => x = y
  /\ v4 \subseteq Session!Resumes /\ OneRecord(v4)
  /\ v5 = Session!Idle \/ (v5 \in Setups /\ OneRecord(v5.r))
  /\ v6 = Session!Idle \/ v6 \in Cancels
  /\ v7 \in BOOLEAN /\ v8 \in 0..SessionFaults

\* A record of a session names a daemon that was started, and, as long as that one
\* runs, a session it has, with the scopes it was opened for.
Bound(r) ==
  /\ r.daemon <= v1
  /\ v2 /\ r.daemon = v1 => \E x \in v3 : x.id = r.id /\ x.scopes = r.scopes

\* The session it names asked last for the action it carries.
Asked(r) == v2 /\ r.daemon = v1 => \A x \in v3 : x.id = r.id => x.asked = r.next

\* The session it names has not ended.
Unended(r) == v2 /\ r.daemon = v1 => \A x \in v3 : x.id = r.id => x.state # "ended"

SessionLinks ==
  /\ \A r \in v4 : Bound(r)
  /\ v6 \in Cancels => \A r \in v6.r : Bound(r)
  /\ v5 \in Setups => v5.daemon <= v1 /\ \A r \in v5.r : Bound(r) /\ r.daemon = v5.daemon

\* An observation changes what the session asks for, and the resume file is
\* written again, or removed, before the setup ends.
SessionAsked ==
  /\ v5.at = "cancel" => v8 # 0
  /\ v8 = 0 =>
       /\ v5.at \notin {"observed", "keep", "cancel_remove", "finalize", "remove"} =>
            \A r \in v4 : Asked(r)
       /\ v5 \in Setups => \A r \in v5.r : Asked(r)
  /\ v5.at = "observe" /\ v5.confirm # "unconfirmed" => \A r \in v5.r : r.next = v5.confirm

\* Nobody ends the session of a setup that no cancel command and no fault disturbs.
SessionEnds ==
  /\ v5.at = "cancel" => v7
  /\ v5 \in Setups /\ ~v7 => v6 = Session!Idle
  /\ v5.at \in {"observed", "keep"} /\ ~v7 => \A r \in v5.r : Unended(r)

SessionInv == SessionTypes /\ SessionLinks /\ SessionAsked /\ SessionEnds

\* The same sessions, whatever became of them.
Continued ==
  /\ v1' = v1 /\ v2' = v2
  /\ v3' \subseteq Session!Sessions
  /\ \A x \in v3 : \E y \in v3' : y.id = x.id /\ y.scopes = x.scopes
  /\ \A y \in v3' : \E x \in v3 : y.id = x.id /\ y.scopes = x.scopes /\ y.asked = x.asked
  /\ \A x, y \in v3' : x.id = y.id => x = y

LEMMA ContinuedKeeps ==
  ASSUME SessionTypes, Continued, NEW r \in Session!Resumes
  PROVE  (Bound(r) => Bound(r)') /\ (Asked(r) => Asked(r)')
<1>1. Bound(r) => Bound(r)'
  BY DEF Continued, Bound, SessionTypes
<1>2. Asked(r) => Asked(r)'
  BY DEF Continued, Asked, SessionTypes
<1> QED
  BY <1>1, <1>2

LEMMA SameContinues ==
  ASSUME SessionTypes, UNCHANGED <<v1, v2, v3>>
  PROVE  Continued
BY DEF SessionTypes, Continued

LEMMA EndedContinues ==
  ASSUME SessionTypes, UNCHANGED <<v1, v2>>, NEW X \in SUBSET v3, Session!EndSessions(X)
  PROVE  Continued
<1> DEFINE E(x) == [x EXCEPT !.state = "ended"]
<1>1. v3' = (v3 \ X) \union {E(x) : x \in X}
  BY DEF Session!EndSessions
<1>2. \A x \in v3 : /\ E(x) \in Session!Sessions
                    /\ E(x).id = x.id /\ E(x).scopes = x.scopes /\ E(x).asked = x.asked
  BY DEF SessionTypes, Session!Sessions
<1> HIDE DEF E
<1>3. \A y \in v3' : \E x \in v3 : (y = x /\ x \notin X) \/ (y = E(x) /\ x \in X)
  BY <1>1
<1>4. v3' \subseteq Session!Sessions
  BY <1>2, <1>3 DEF SessionTypes
<1>5. \A y \in v3' : \E x \in v3 : y.id = x.id /\ y.scopes = x.scopes /\ y.asked = x.asked
  BY <1>2, <1>3
<1>6. \A x \in v3 : \E y \in v3' : y.id = x.id /\ y.scopes = x.scopes
  BY <1>1, <1>2
<1>7. ASSUME NEW y \in v3', NEW z \in v3', y.id = z.id
      PROVE  y = z
  <2>1. \A p, q \in v3 : p.id = q.id => p = q
    BY DEF SessionTypes
  <2>2. PICK p \in v3 : (y = p /\ p \notin X) \/ (y = E(p) /\ p \in X)
    BY <1>3
  <2>3. PICK q \in v3 : (z = q /\ q \notin X) \/ (z = E(q) /\ q \in X)
    BY <1>3
  <2>4. p.id = q.id
    BY <1>2, <1>7, <2>2, <2>3
  <2> QED
    BY <2>1, <2>2, <2>3, <2>4
<1> QED
  BY <1>4, <1>5, <1>6, <1>7 DEF Continued

LEMMA ExpiredContinues ==
  ASSUME SessionTypes, NEW x \in v3, Session!Expire(x)
  PROVE  Continued
<1> DEFINE e == [x EXCEPT !.state = "expired"]
<1>1. v3' = (v3 \ {x}) \union {e} /\ v1' = v1 /\ v2' = v2
  BY DEF Session!Expire, Session!Becomes, Session!world
<1>2. e \in Session!Sessions /\ e.id = x.id /\ e.scopes = x.scopes /\ e.asked = x.asked
  BY DEF SessionTypes, Session!Sessions
<1> HIDE DEF e
<1> QED
  BY <1>1, <1>2 DEF SessionTypes, Continued

LEMMA IdleIsNoSetup == Session!Idle \notin Setups /\ Session!Idle \notin Cancels
BY DEF Session!Idle, Setups, SetupSteps, Cancels

LEMMA SetupGoes ==
  ASSUME v5 \in Setups, NEW step \in SetupSteps, v5' = [v5 EXCEPT !.at = step]
  PROVE  /\ v5' \in Setups /\ v5'.at = step /\ v5'.confirm = v5.confirm
         /\ v5'.daemon = v5.daemon /\ v5'.r = v5.r
BY DEF Setups

\* A step that leaves the sessions and the daemon alone but for their state, and
\* takes the records of the setup, the command and the file from those there are.
LEMMA LinksContinue ==
  ASSUME SessionTypes, SessionLinks, Continued,
         \A r \in v4' : r \in v4 \/ (v5 \in Setups /\ r \in v5.r),
         v6' \in Cancels => \A r \in v6'.r : r \in v4 \/ (v6 \in Cancels /\ r \in v6.r),
         v5' \in Setups =>
           /\ v5 \in Setups /\ v5'.daemon = v5.daemon
           /\ \A r \in v5'.r : r \in v5.r \/ (r \in v4 /\ r.daemon = v5.daemon)
  PROVE  SessionLinks'
<1>1. \A r \in Session!Resumes : Bound(r) => Bound(r)'
  BY ContinuedKeeps
<1>2. /\ v4 \subseteq Session!Resumes
      /\ v5 \in Setups => v5.r \subseteq Session!Resumes
      /\ v6 \in Cancels => v6.r \subseteq Session!Resumes
  BY DEF SessionTypes, Setups, Cancels
<1>3. v1' = v1
  BY DEF Continued
<1> QED
  BY <1>1, <1>2, <1>3 DEF SessionLinks

LEMMA AskedContinues ==
  ASSUME SessionTypes, SessionAsked, Continued, v8' = v8,
         v5'.at \notin {"observed", "keep", "cancel_remove", "finalize", "remove"} =>
           \A r \in v4' : \/ /\ r \in v4
                             /\ v5.at \notin {"observed", "keep", "cancel_remove", "finalize", "remove"}
                          \/ v5 \in Setups /\ r \in v5.r,
         v5' \in Setups =>
           \A r \in v5'.r : \/ v5 \in Setups /\ r \in v5.r
                            \/ r \in v4 /\ v5.at = "load",
         v5'.at = "cancel" => v5.at = "cancel",
         v5'.at = "observe" /\ v5'.confirm # "unconfirmed" => \A r \in v5'.r : r.next = v5'.confirm
  PROVE  SessionAsked'
<1>1. \A r \in Session!Resumes : Asked(r) => Asked(r)'
  BY ContinuedKeeps
<1>2. /\ v4 \subseteq Session!Resumes
      /\ v5 \in Setups => v5.r \subseteq Session!Resumes
  BY DEF SessionTypes, Setups
<1>3. v8 = 0 /\ v5' \in Setups => \A r \in v5'.r : Asked(r)'
  BY <1>1, <1>2 DEF SessionAsked
<1>4. v8 = 0 /\ v5'.at \notin {"observed", "keep", "cancel_remove", "finalize", "remove"} =>
        \A r \in v4' : Asked(r)'
  BY <1>1, <1>2 DEF SessionAsked
<1> QED
  BY <1>3, <1>4 DEF SessionAsked

\* After a fault nothing is claimed of what was asked for.
LEMMA FaultyAsked ==
  ASSUME SessionTypes, Session!Fault, v5'.at # "observe"
  PROVE  SessionAsked'
<1>1. v8' # 0
  BY DEF Session!Fault, SessionTypes
<1> QED
  BY <1>1 DEF SessionAsked

\* The steps in which a setup only goes on, or ends.
LEMMA SetupOnly ==
  ASSUME SessionInv, UNCHANGED <<v1, v2, v3, v4, v6>>, v8' = v8, v7' = v7,
         \/ v5' = Session!Idle
         \/ /\ v5' \in Setups /\ v5 \in Setups /\ v5'.r = v5.r /\ v5'.daemon = v5.daemon
            /\ v5'.confirm = v5.confirm /\ v5'.at # "cancel"
            /\ v5'.at = "observe" /\ v5.confirm # "unconfirmed" => \A r \in v5.r : r.next = v5.confirm
            /\ v5'.at = "observed" => v5.at = "observed"
            /\ v5'.at = "keep" => v5.at = "observed",
         v5.at \notin {"keep", "remove", "finalize", "cancel_remove"},
         v5.at = "observed" => v5'.at \in {"observed", "keep", "finalize", "cancel_remove", "remove"}
  PROVE  SessionInv'
<1> USE DEF SessionInv
<1>1. Continued
  BY SameContinues
<1>2. SessionTypes'
  BY IdleIsNoSetup DEF SessionTypes, OneRecord
<1>3. SessionLinks'
  BY <1>1, LinksContinue DEF Session!Idle, Setups
<1>4. SessionAsked'
  <2>1. v5'.at \notin {"observed", "keep", "cancel_remove", "finalize", "remove"} =>
          v5.at \notin {"observed", "keep", "cancel_remove", "finalize", "remove"}
    BY DEF Session!Idle
  <2>2. v5' \in Setups => v5 \in Setups /\ v5'.r = v5.r
    BY IdleIsNoSetup
  <2>3. v5'.at # "cancel"
    BY DEF Session!Idle
  <2>4. v5'.at = "observe" /\ v5'.confirm # "unconfirmed" => \A r \in v5'.r : r.next = v5'.confirm
    BY DEF Session!Idle
  <2>5. v5'.at \notin {"observed", "keep", "cancel_remove", "finalize", "remove"} =>
        \A r \in v4' : \/ /\ r \in v4
                          /\ v5.at \notin {"observed", "keep", "cancel_remove", "finalize", "remove"}
                       \/ v5 \in Setups /\ r \in v5.r
    BY <2>1
  <2>6. v5' \in Setups =>
        \A r \in v5'.r : \/ v5 \in Setups /\ r \in v5.r
                         \/ r \in v4 /\ v5.at = "load"
    BY <2>2
  <2> QED
    BY <1>1, <2>3, <2>4, <2>5, <2>6, AskedContinues
<1>5. SessionEnds'
  BY DEF SessionEnds, Session!Idle, Setups, Unended
<1> QED
  BY <1>2, <1>3, <1>4, <1>5

\* The same after a fault, which counts as one beside the setup or ends it.
LEMMA SetupFaults ==
  ASSUME SessionInv, UNCHANGED <<v1, v2, v3, v6>>, Session!Fault, v4' \in {v4, {}},
         \/ v5' = Session!Idle /\ v7' = v7
         \/ /\ v5' \in Setups /\ v5 \in Setups /\ v5'.r = v5.r /\ v5'.daemon = v5.daemon
            /\ v5'.at \in {"cancel", "remove", "cancel_remove"}
            /\ v7' = TRUE
         \/ v5' = Session!Idle /\ v7' = TRUE
  PROVE  SessionInv'
<1> USE DEF SessionInv
<1>1. Continued
  BY SameContinues
<1>2. SessionTypes'
  <2>1. v8' \in 0..SessionFaults
    BY BoundsAssumption DEF SessionTypes, Session!Fault
  <2>2. v7' \in BOOLEAN
    BY DEF SessionTypes
  <2>3. v5' = Session!Idle \/ (v5' \in Setups /\ OneRecord(v5'.r))
    BY IdleIsNoSetup DEF SessionTypes
  <2>4. v4' \subseteq Session!Resumes /\ OneRecord(v4')
    BY DEF SessionTypes, OneRecord
  <2> QED
    BY <2>1, <2>2, <2>3, <2>4 DEF SessionTypes, OneRecord
<1>3. SessionLinks'
  BY <1>1, LinksContinue DEF Session!Idle, Setups
<1>4. SessionAsked'
  BY FaultyAsked DEF Session!Idle
<1>5. SessionEnds'
  BY DEF SessionEnds, Session!Idle, Setups
<1> QED
  BY <1>2, <1>3, <1>4, <1>5

\* The sessions end or expire: nothing else changes but the setup, which ends or goes
\* on to remove the file, or the command, which ends.
LEMMA SessionsEnd ==
  ASSUME SessionInv, Continued, v4' = v4, v7' = v7, v8' = v8,
         \/ v5' = v5 /\ v6' = v6 /\ \A y \in v3' : y \in v3 \/ y.state # "ended"
         \/ v5' = v5 /\ v6' = Session!Idle /\ v6 # Session!Idle
         \/ v6' = v6 /\ v5' = Session!Idle /\ v5.at = "cancel"
         \/ v6' = v6 /\ v5 \in Setups /\ v5' = [v5 EXCEPT !.at = "remove"]
  PROVE  SessionInv'
<1> USE DEF SessionInv
<1>1. /\ v5' = v5 \/ v5' = Session!Idle \/ (v5' \in Setups /\ v5'.at = "remove")
      /\ v5' \in Setups => v5 \in Setups /\ v5'.daemon = v5.daemon /\ v5'.r = v5.r
      /\ v6' = v6 \/ v6' = Session!Idle
  BY SetupGoes DEF SetupSteps, Session!Idle, Setups
<1>2. SessionTypes'
  BY <1>1, IdleIsNoSetup DEF SessionTypes, OneRecord, Continued
<1>3. SessionLinks'
  BY <1>1, LinksContinue DEF Session!Idle, Cancels
<1>4. SessionAsked'
  <2>1. CASE v5.at = "cancel"
    <3>1. v8' # 0 /\ v5'.at # "observe"
      BY <2>1, <1>1 DEF SessionAsked, Session!Idle
    <3> QED
      BY <3>1 DEF SessionAsked
  <2>2. CASE v5.at # "cancel"
    <3>1. v5'.at \notin {"observed", "keep", "cancel_remove", "finalize", "remove"} =>
            v5.at \notin {"observed", "keep", "cancel_remove", "finalize", "remove"}
      BY <2>2, SetupGoes DEF Session!Idle, SetupSteps
    <3>2. v5' \in Setups => v5 \in Setups /\ v5'.r = v5.r
      BY <1>1
    <3>3. v5'.at # "cancel"
      BY <2>2, <1>1 DEF Session!Idle
    <3>4. v5'.at = "observe" /\ v5'.confirm # "unconfirmed" => \A r \in v5'.r : r.next = v5'.confirm
      BY <1>1 DEF SessionAsked, Session!Idle
    <3>5. v5'.at \notin {"observed", "keep", "cancel_remove", "finalize", "remove"} =>
          \A r \in v4' : \/ /\ r \in v4
                            /\ v5.at \notin {"observed", "keep", "cancel_remove", "finalize", "remove"}
                         \/ v5 \in Setups /\ r \in v5.r
      BY <3>1
    <3>6. v5' \in Setups =>
          \A r \in v5'.r : \/ v5 \in Setups /\ r \in v5.r
                           \/ r \in v4 /\ v5.at = "load"
      BY <3>2
    <3> QED
      BY <3>3, <3>4, <3>5, <3>6, AskedContinues
  <2> QED
    BY <2>1, <2>2
<1>5. SessionEnds'
  <2>1. CASE v5' = v5 /\ v6' = v6 /\ \A y \in v3' : y \in v3 \/ y.state # "ended"
    BY <2>1 DEF SessionEnds, Unended, Continued
  <2>2. CASE v5' = v5 /\ v6' = Session!Idle /\ v6 # Session!Idle
    BY <2>2 DEF SessionEnds, SessionTypes, Session!Idle
  <2>3. CASE v6' = v6 /\ v5'.at \in {"idle", "remove"} /\ (v5' \in Setups => v5 \in Setups)
    BY <2>3 DEF SessionEnds
  <2> QED
    BY <2>1, <2>2, <2>3, <1>1, SetupGoes DEF Session!Idle, SetupSteps
<1> QED
  BY <1>2, <1>3, <1>4, <1>5

\* A new daemon has opened no session, and no record names it.
LEMMA ConnectKeeps ==
  ASSUME SessionInv, NEW scopes \in Scopes, NEW confirm \in Confirmations,
         Session!Connect(scopes, confirm)
  PROVE  SessionInv'
<1> USE DEF SessionInv
<1>1. /\ v5 = Session!Idle /\ v4' = v4 /\ v6' = v6 /\ v8' = v8
      /\ v5' = [at |-> "load", scopes |-> scopes, confirm |-> confirm, daemon |-> v1', r |-> {}]
      /\ v7' = (v6.at # "idle")
  BY DEF Session!Connect
<1>2. \/ v2 /\ v1' = v1 /\ v2' = v2 /\ v3' = v3
      \/ ~v2 /\ v1 < MaxDaemons /\ v1' = v1 + 1 /\ v2' = TRUE /\ v3' = {}
  BY DEF Session!Connect, Session!world
<1>3. v1' \in 1..MaxDaemons /\ v1' >= v1 /\ v1 \in Nat
  <2>1. v2 => v1 # 0
    BY DEF SessionTypes
  <2> QED
    BY <1>2, <2>1, BoundsAssumption DEF SessionTypes
<1>4. v5' \in Setups /\ OneRecord(v5'.r)
  BY <1>1, <1>3 DEF Setups, SetupSteps, OneRecord
<1>5. SessionTypes'
  <2>1. v1' \in 0..MaxDaemons /\ v1' # 0
    BY <1>3, BoundsAssumption
  <2>2. v3' \subseteq Session!Sessions /\ \A x, y \in v3' : x.id = y.id => x = y
    BY <1>2 DEF SessionTypes
  <2>3. v2' \in BOOLEAN /\ v7' \in BOOLEAN
    BY <1>1, <1>2 DEF SessionTypes
  <2> QED
    BY <1>1, <1>4, <2>1, <2>2, <2>3 DEF SessionTypes, OneRecord
<1>6. \A r \in Session!Resumes : (Bound(r) => Bound(r)') /\ (Asked(r) \/ ~v2 => Asked(r)')
  <2>1. CASE v1' = v1 /\ v2' = v2 /\ v3' = v3
    BY <1>2, <2>1 DEF Bound, Asked
  <2>2. CASE v1' = v1 + 1 /\ v3' = {}
    BY <1>3, <2>2, BoundsAssumption DEF Bound, Asked, Session!Resumes
  <2> QED
    BY <1>2, <2>1, <2>2
<1>7. SessionLinks'
  BY <1>1, <1>3, <1>6 DEF SessionLinks, SessionTypes, Cancels
<1>8. SessionAsked'
  BY <1>1, <1>6 DEF SessionAsked, SessionTypes, Session!Idle
<1>9. SessionEnds'
  BY <1>1 DEF SessionEnds, SessionTypes, Session!Idle, Cancels
<1> QED
  BY <1>5, <1>7, <1>8, <1>9

LEMMA DaemonEndsKeeps ==
  ASSUME SessionInv, Session!DaemonEnds
  PROVE  SessionInv'
<1>1. v1' = v1 /\ v2' = FALSE /\ v3' = {} /\ v4' = v4 /\ v5' = v5 /\ v6' = v6 /\ v7' = v7 /\ v8' = v8
  BY DEF Session!DaemonEnds
<1>2. \A r : Asked(r)' /\ Unended(r)' /\ (Bound(r) => Bound(r)')
  BY <1>1 DEF Asked, Unended, Bound
<1>3. SessionTypes'
  BY <1>1 DEF SessionInv, SessionTypes, OneRecord
<1>4. SessionLinks'
  BY <1>1, <1>2 DEF SessionInv, SessionLinks
<1>5. SessionAsked'
  BY <1>1, <1>2 DEF SessionInv, SessionAsked
<1>6. SessionEnds'
  BY <1>1, <1>2 DEF SessionInv, SessionEnds
<1> QED
  BY <1>3, <1>4, <1>5, <1>6 DEF SessionInv

\* The steps that write the resume file, or empty it.
LEMMA LoadKeeps ==
  ASSUME SessionInv, Session!LoadResume
  PROVE  SessionInv'
<1> USE DEF SessionInv
<1> DEFINE fitting == {r \in v4 : Session!SameResume(r)}
<1>1. /\ v5.at = "load" /\ UNCHANGED <<v1, v2, v3, v6>> /\ v7' = v7 /\ v8' = v8
      /\ v5' = [v5 EXCEPT !.at = IF fitting = {} THEN "prepare" ELSE "decide", !.r = fitting]
      /\ v4' = fitting
  BY DEF Session!LoadResume, Session!world
<1>2. v5 \in Setups
  BY <1>1 DEF SessionTypes, Session!Idle
<1>3. fitting \subseteq v4 /\ \A r \in fitting : r.daemon = v5.daemon
  BY DEF Session!SameResume
<1> HIDE DEF fitting
<1>4. /\ v5' \in Setups /\ v5'.at \in {"prepare", "decide"} /\ v5'.r = fitting
      /\ v5'.daemon = v5.daemon /\ v5'.confirm = v5.confirm
  BY <1>1, <1>2, <1>3 DEF Setups, SetupSteps, SessionTypes
<1>5. SessionTypes'
  BY <1>1, <1>3, <1>4 DEF SessionTypes, OneRecord
<1>6. Continued
  BY <1>1, SameContinues
<1>7. SessionLinks'
  BY <1>1, <1>2, <1>3, <1>4, <1>6, LinksContinue
<1>8. SessionAsked'
  <2>1. \A r \in v4' : r \in v4 /\ v5.at \notin {"observed", "keep", "cancel_remove", "finalize", "remove"}
    BY <1>1, <1>3
  <2>2. \A r \in v5'.r : r \in v4 /\ v5.at = "load"
    BY <1>1, <1>3, <1>4
  <2> QED
    BY <1>1, <1>4, <1>6, <2>1, <2>2, AskedContinues
<1>9. SessionEnds'
  BY <1>1, <1>2, <1>4 DEF SessionEnds
<1> QED
  BY <1>5, <1>7, <1>8, <1>9

LEMMA WritesKeep ==
  ASSUME SessionInv, UNCHANGED <<v1, v2, v3, v6>>, v7' = v7, v8' = v8, v5 \in Setups,
         \/ v4' = v5.r /\ v5.at = "save" /\ v5' = [v5 EXCEPT !.at = "decide"]
         \/ v4' = v5.r /\ v5.at = "keep" /\ v5' = Session!Idle
         \/ v4' = {} /\ v5' = Session!Idle
  PROVE  SessionInv'
<1> USE DEF SessionInv
<1>1. /\ v5' = Session!Idle \/ (v5' \in Setups /\ v5'.at = "decide")
      /\ v5' \in Setups => v5'.r = v5.r /\ v5'.daemon = v5.daemon
  BY SetupGoes, IdleIsNoSetup DEF SetupSteps
<1>2. SessionTypes'
  <2>1. v4' \subseteq Session!Resumes /\ OneRecord(v4')
    BY IdleIsNoSetup DEF SessionTypes, OneRecord, Setups
  <2>2. v5' = Session!Idle \/ (v5' \in Setups /\ OneRecord(v5'.r))
    BY <1>1, IdleIsNoSetup DEF SessionTypes
  <2> QED
    BY <2>1, <2>2 DEF SessionTypes, OneRecord
<1>3. Continued
  BY SameContinues
<1>4. SessionLinks'
  BY <1>1, <1>3, LinksContinue
<1>5. SessionAsked'
  <2>1. \A r \in v4' : v5 \in Setups /\ r \in v5.r
    OBVIOUS
  <2>2. v5'.at \in {"decide", "idle"}
    BY <1>1 DEF Session!Idle
  <2>3. v5' \in Setups => \A r \in v5'.r : v5 \in Setups /\ r \in v5.r
    BY <1>1
  <2> QED
    BY <1>3, <2>1, <2>2, <2>3, AskedContinues
<1>6. SessionEnds'
  BY <1>1 DEF SessionEnds, Session!Idle
<1> QED
  BY <1>2, <1>4, <1>5, <1>6

LEMMA PrepareKeeps ==
  ASSUME SessionInv, Session!Prepare
  PROVE  SessionInv'
<1> USE DEF SessionInv
<1>1. PICK id \in 1..MaxSessions \ {x.id : x \in v3}, a \in Session!Actions :
        /\ v3' = v3 \union {[id |-> id, scopes |-> v5.scopes, asked |-> a, state |-> "open"]}
        /\ v5' = [v5 EXCEPT !.at = "save",
             !.r = {[daemon |-> v1, id |-> id, scopes |-> v5.scopes, next |-> a]}]
  BY DEF Session!Prepare
<1>2. /\ v5.at = "prepare" /\ v2 /\ v5.daemon = v1
      /\ v1' = v1 /\ v2' = v2 /\ v4' = v4 /\ v6' = v6 /\ v7' = v7 /\ v8' = v8
  BY DEF Session!Prepare, Session!world
<1>3. v5 \in Setups
  BY <1>2 DEF SessionTypes, Session!Idle
<1>4. PICK x \in Session!Sessions :
        /\ x.id = id /\ x.scopes = v5.scopes /\ x.asked = a
        /\ x = [id |-> id, scopes |-> v5.scopes, asked |-> a, state |-> "open"]
  BY <1>3 DEF Session!Sessions, Setups
<1>5. PICK r \in Session!Resumes :
        /\ r.id = id /\ r.scopes = v5.scopes /\ r.next = a /\ r.daemon = v1
        /\ r = [daemon |-> v1, id |-> id, scopes |-> v5.scopes, next |-> a]
  BY <1>2, <1>3 DEF Session!Resumes, Setups
<1>6. /\ v3' = v3 \union {x} /\ v5' = [v5 EXCEPT !.at = "save", !.r = {r}]
      /\ \A y \in v3 : y.id # id
  BY <1>1, <1>4, <1>5
<1>7. v5' \in Setups /\ v5'.at = "save" /\ v5'.r = {r} /\ v5'.daemon = v5.daemon /\ v5'.confirm = v5.confirm
  BY <1>3, <1>5, <1>6 DEF Setups, SetupSteps
<1>8. SessionTypes'
  <2>1. v3' \subseteq Session!Sessions /\ \A y, z \in v3' : y.id = z.id => y = z
    BY <1>4, <1>6 DEF SessionTypes
  <2>2. OneRecord(v5'.r)
    BY <1>7 DEF OneRecord
  <2> QED
    BY <1>2, <1>7, <2>1, <2>2 DEF SessionTypes, OneRecord
<1>9. \A q : Bound(q) => Bound(q)'
  BY <1>2, <1>6 DEF Bound
<1>10. \A q \in Session!Resumes : Bound(q) /\ Asked(q) => Asked(q)'
  <2> SUFFICES ASSUME NEW q \in Session!Resumes, Bound(q), Asked(q), v2, q.daemon = v1,
                      NEW y \in v3', y.id = q.id
               PROVE  y.asked = q.next
    BY <1>2 DEF Asked
  <2>1. y # x
    BY <1>4, <1>6 DEF Bound
  <2> QED
    BY <2>1, <1>6 DEF Asked
<1>11. Bound(r)' /\ Asked(r)'
  BY <1>2, <1>4, <1>5, <1>6 DEF Bound, Asked, SessionTypes
<1>12. SessionLinks'
  BY <1>2, <1>5, <1>7, <1>9, <1>11, <1>3 DEF SessionLinks
<1>13. SessionAsked'
  BY <1>2, <1>7, <1>10, <1>11 DEF SessionAsked, SessionLinks, SessionTypes
<1>14. SessionEnds'
  BY <1>2, <1>3, <1>7 DEF SessionEnds
<1> QED
  BY <1>8, <1>12, <1>13, <1>14

\* An observation changes what one open session asks for.
LEMMA ObserveKeeps ==
  ASSUME SessionInv, v5 \in Setups, NEW r \in v5.r, Session!Observe(r)
  PROVE  SessionInv'
<1> USE DEF SessionInv
<1>1. PICK x \in Session!Open(Session!Reached(v5.daemon, r.id)) : x.scopes = r.scopes
        /\ \E a \in Session!Actions :
             /\ Session!Becomes(x, [x EXCEPT !.asked = a])
             /\ v5' = [v5 EXCEPT !.at = "observed", !.r = {[r EXCEPT !.next = a]}]
  BY DEF Session!Observe
<1>2. PICK a \in Session!Actions :
        /\ v3' = (v3 \ {x}) \union {[x EXCEPT !.asked = a]}
        /\ v5' = [v5 EXCEPT !.at = "observed", !.r = {[r EXCEPT !.next = a]}]
  BY <1>1 DEF Session!Becomes
<1>3. x \in v3 /\ x.state = "open" /\ v2 /\ v5.daemon = v1 /\ x.id = r.id
  BY <1>1 DEF Session!Open, Session!Reached
<1>4. v1' = v1 /\ v2' = v2 /\ v4' = v4 /\ v6' = v6 /\ v7' = v7 /\ v8' = v8
  BY DEF Session!Observe, Session!world
<1> DEFINE y == [x EXCEPT !.asked = a]
           q == [r EXCEPT !.next = a]
<1>5. /\ y \in Session!Sessions /\ y.id = x.id /\ y.scopes = x.scopes /\ y.asked = a
      /\ y.state = "open"
  BY <1>3 DEF Session!Sessions, SessionTypes
<1>6. r \in Session!Resumes /\ r.daemon = v5.daemon
  BY DEF SessionTypes, SessionLinks, Setups
<1>7. /\ q \in Session!Resumes /\ q.id = r.id /\ q.scopes = r.scopes /\ q.next = a
      /\ q.daemon = r.daemon
  BY <1>6 DEF Session!Resumes
<1>8. v3' = (v3 \ {x}) \union {y} /\ v5' = [v5 EXCEPT !.at = "observed", !.r = {q}]
  BY <1>2
<1> HIDE DEF y, q
<1>9. v5' \in Setups /\ v5'.at = "observed" /\ v5'.r = {q} /\ v5'.daemon = v5.daemon
  BY <1>7, <1>8 DEF Setups, SetupSteps
<1>10. SessionTypes'
  <2>1. v3' \subseteq Session!Sessions /\ \A p, z \in v3' : p.id = z.id => p = z
    BY <1>3, <1>5, <1>8 DEF SessionTypes
  <2>2. OneRecord(v5'.r)
    BY <1>9 DEF OneRecord
  <2> QED
    BY <1>4, <1>9, <2>1, <2>2 DEF SessionTypes, OneRecord
<1>11. \A p : Bound(p) => Bound(p)'
  BY <1>3, <1>4, <1>5, <1>8 DEF Bound
<1>12. Bound(q)' /\ Asked(q)' /\ Unended(q)'
  <2>1. \A z \in v3' : z.id = q.id => z = y
    BY <1>3, <1>5, <1>7, <1>8 DEF SessionTypes
  <2>2. y \in v3' /\ y.id = q.id /\ y.scopes = q.scopes
    BY <1>1, <1>3, <1>5, <1>7, <1>8
  <2>3. q.daemon <= v1'
    BY <1>3, <1>4, <1>6, <1>7 DEF SessionLinks
  <2> QED
    BY <1>5, <1>7, <2>1, <2>2, <2>3 DEF Bound, Asked, Unended
<1>13. SessionLinks'
  BY <1>4, <1>6, <1>7, <1>9, <1>11, <1>12 DEF SessionLinks
<1>14. SessionAsked'
  BY <1>4, <1>9, <1>12 DEF SessionAsked
<1>15. SessionEnds'
  BY <1>4, <1>9, <1>12 DEF SessionEnds
<1> QED
  BY <1>10, <1>13, <1>14, <1>15

LEMMA CancelKeeps ==
  ASSUME SessionInv, Session!CancelLoad \/ Session!CancelRemove
  PROVE  SessionInv'
<1> USE DEF SessionInv
<1>1. /\ UNCHANGED <<v1, v2, v3>> /\ v5' = v5 /\ v8' = v8
      /\ v4' \in {v4, {}}
      /\ \/ v6' = [at |-> "remove", r |-> v4] /\ v7' = TRUE
         \/ v6' = [v6 EXCEPT !.at = "send"] /\ v7' = v7 /\ v6.at = "remove"
  BY DEF Session!CancelLoad, Session!CancelRemove, Session!world
<1>2. /\ v6' \in Cancels
      /\ \/ v6'.r = v4 /\ v7' = TRUE
         \/ v6 \in Cancels /\ v6'.r = v6.r /\ v7' = v7
  <2>1. CASE v6' = [at |-> "remove", r |-> v4] /\ v7' = TRUE
    BY <2>1 DEF Cancels, SessionTypes
  <2>2. CASE v6' = [v6 EXCEPT !.at = "send"] /\ v7' = v7 /\ v6.at = "remove"
    <3>1. v6 \in Cancels
      BY <2>2 DEF SessionTypes, Session!Idle
    <3> QED
      BY <2>2, <3>1 DEF Cancels
  <2> QED
    BY <1>1, <2>1, <2>2
<1>3. Continued
  BY <1>1, SameContinues
<1>4. SessionTypes'
  BY <1>1, <1>2 DEF SessionTypes, OneRecord
<1>5. SessionLinks'
  BY <1>1, <1>2, <1>3, LinksContinue
<1>6. SessionAsked'
  <2>1. CASE v5.at = "cancel"
    BY <2>1, <1>1 DEF SessionAsked
  <2>2. CASE v5.at # "cancel"
    <3>1. \A r \in v4' : r \in v4
      BY <1>1
    <3>2. \A r \in v5'.r : r \in v5.r
      BY <1>1
    <3>3. v5'.at = "observe" /\ v5'.confirm # "unconfirmed" => \A r \in v5'.r : r.next = v5'.confirm
      BY <1>1 DEF SessionAsked
    <3> QED
      BY <1>1, <1>3, <2>2, <3>1, <3>2, <3>3, AskedContinues
  <2> QED
    BY <2>1, <2>2
<1>7. SessionEnds'
  <2>1. v5 \in Setups => v7'
    BY <1>2, IdleIsNoSetup DEF SessionEnds
  <2>2. v5.at = "cancel" => v7'
    BY <2>1 DEF SessionTypes, Session!Idle
  <2>3. v5.at \in {"observed", "keep"} => v5 \in Setups
    BY DEF SessionTypes, Session!Idle
  <2> QED
    BY <1>1, <2>1, <2>2, <2>3 DEF SessionEnds
<1> QED
  BY <1>4, <1>5, <1>6, <1>7

LEMMA SessionInit == Init /\ which = "session" => SessionInv
<1> SUFFICES ASSUME Session!Init PROVE SessionInv
  BY DEF Init
<1>1. SessionTypes
  <2>1. 0 \in 0..MaxDaemons /\ 0 \in 0..SessionFaults
    BY BoundsAssumption
  <2> QED
    BY <2>1 DEF Session!Init, SessionTypes, OneRecord
<1>2. SessionLinks
  BY IdleIsNoSetup DEF Session!Init, SessionLinks
<1>3. SessionAsked /\ SessionEnds
  BY IdleIsNoSetup DEF Session!Init, Session!Idle, SessionAsked, SessionEnds
<1> QED
  BY <1>1, <1>2, <1>3 DEF SessionInv

\* What a setup does with the session it prepared, resumed or observed.
LEMMA WithSessionKeeps ==
  ASSUME SessionInv, v5 # Session!Idle, NEW r \in v5.r, Session!WithSession(r)
  PROVE  SessionInv'
<1>1. v5 \in Setups /\ SessionTypes
  BY DEF SessionInv, SessionTypes
<1>2. CASE Session!Decide(r)
  <2>1. /\ UNCHANGED <<v1, v2, v3, v4, v6>> /\ v8' = v8 /\ v7' = v7 /\ v5.at = "decide"
        /\ \/ v5' = Session!Idle
           \/ \E step \in {"cancel_remove", "finalize"} : v5' = [v5 EXCEPT !.at = step]
           \/ /\ v5' = [v5 EXCEPT !.at = "observe"]
              /\ v5.confirm \in {"unconfirmed", r.next}
    BY <1>2 DEF Session!Decide, Session!End, Session!world
  <2>2. \A q \in v5.r : q = r
    BY <1>1, IdleIsNoSetup DEF SessionTypes, OneRecord
  <2>3. \/ v5' = Session!Idle
        \/ /\ v5' \in Setups /\ v5'.r = v5.r /\ v5'.daemon = v5.daemon /\ v5'.confirm = v5.confirm
           /\ v5'.at \in {"cancel_remove", "finalize"} \/ (v5'.at = "observe" /\ v5.confirm \in {"unconfirmed", r.next})
    BY <1>1, <2>1, SetupGoes DEF SetupSteps
  <2> QED
    BY <1>1, <2>1, <2>2, <2>3, SetupOnly
<1>3. CASE Session!Observe(r)
  BY <1>1, <1>3, ObserveKeeps
<1>4. CASE Session!ObserveRefused(r) \/ Session!Observed(r)
  <2>1. /\ UNCHANGED <<v1, v2, v3, v4, v6>> /\ v8' = v8 /\ v7' = v7
        /\ \/ v5.at = "observe" /\ v5' = [v5 EXCEPT !.at = "remove"]
           \/ /\ v5.at = "observed"
              /\ \E step \in {"keep", "cancel_remove", "finalize"} : v5' = [v5 EXCEPT !.at = step]
    BY <1>4 DEF Session!ObserveRefused, Session!Observed, Session!Goto, Session!world
  <2>2. /\ v5' \in Setups /\ v5'.r = v5.r /\ v5'.daemon = v5.daemon /\ v5'.confirm = v5.confirm
        /\ \/ v5.at = "observe" /\ v5'.at = "remove"
           \/ v5.at = "observed" /\ v5'.at \in {"keep", "cancel_remove", "finalize"}
    BY <1>1, <2>1, SetupGoes DEF SetupSteps
  <2> QED
    BY <1>1, <2>1, <2>2, SetupOnly
<1>5. CASE Session!ObserveReplyBad(r) \/ Session!FinalizeLost(r)
  <2>1. /\ UNCHANGED <<v1, v2, v3, v6>> /\ Session!Fault /\ v4' \in {v4, {}} /\ v7' = TRUE
        /\ \/ v5' = Session!Idle
           \/ \E step \in {"cancel", "remove", "cancel_remove"} : v5' = [v5 EXCEPT !.at = step]
    BY <1>5 DEF Session!ObserveReplyBad, Session!FinalizeLost, Session!End, Session!world
  <2>2. \/ v5' = Session!Idle
        \/ /\ v5' \in Setups /\ v5'.r = v5.r /\ v5'.daemon = v5.daemon
           /\ v5'.at \in {"cancel", "remove", "cancel_remove"}
    BY <1>1, <2>1, SetupGoes DEF SetupSteps
  <2> QED
    BY <1>1, <2>1, <2>2, SetupFaults
<1>6. CASE Session!KeepResume(r)
  <2>1. v5.r = {r}
    BY <1>1, IdleIsNoSetup DEF SessionTypes, OneRecord
  <2> QED
    BY <1>1, <1>6, <2>1, WritesKeep DEF Session!KeepResume, Session!End, Session!world
<1>7. CASE Session!Finalize(r) \/ Session!CancelSession(r)
  <2> DEFINE X == Session!Open(Session!Reached(v5.daemon, r.id))
  <2>1. /\ X \in SUBSET v3 /\ Session!EndSessions(X)
        /\ UNCHANGED <<v1, v2>> /\ v4' = v4 /\ v6' = v6 /\ v7' = v7 /\ v8' = v8
        /\ v5' = [v5 EXCEPT !.at = "remove"] \/ (v5' = Session!Idle /\ v5.at = "cancel")
    BY <1>7 DEF Session!Finalize, Session!CancelSession, Session!Goto, Session!End,
       Session!world,
       Session!Open, Session!Reached
  <2> HIDE DEF X
  <2>2. Continued
    BY <1>1, <2>1, EndedContinues
  <2> QED
    BY <1>1, <2>1, <2>2, SessionsEnd
<1> QED
  BY <1>2, <1>3, <1>4, <1>5, <1>6, <1>7 DEF Session!WithSession

LEMMA SessionStep ==
  ASSUME SessionInv, [Session!Next]_(Session!vars)
  PROVE  SessionInv'
<1>1. SessionTypes
  BY DEF SessionInv
<1>2. CASE UNCHANGED Session!vars
  <2>1. /\ v1' = v1 /\ v2' = v2 /\ v3' = v3 /\ v4' = v4 /\ v5' = v5 /\ v6' = v6
        /\ v7' = v7 /\ v8' = v8
    BY <1>2 DEF Session!vars
  <2>2. Continued
    BY <1>1, <2>1, SameContinues
  <2> QED
    BY <2>1, <2>2, SessionsEnd
<1>3. ASSUME NEW scopes \in Scopes, NEW confirm \in Confirmations, Session!Connect(scopes, confirm)
      PROVE  SessionInv'
  BY <1>3, ConnectKeeps
<1>4. CASE Session!LoadResume
  BY <1>4, LoadKeeps
<1>5. CASE Session!Prepare
  BY <1>5, PrepareKeeps
<1>6. CASE Session!PrepareFails
  BY <1>6, SetupOnly DEF Session!PrepareFails, Session!End, Session!world
<1>7. CASE Session!SaveResume \/ Session!RemoveResume
  <2>1. v5 \in Setups
    BY <1>1, <1>7 DEF SessionTypes, Session!Idle, Session!SaveResume, Session!RemoveResume,
       Session!Goto
  <2> QED
    BY <1>7, <2>1, WritesKeep DEF Session!SaveResume, Session!RemoveResume, Session!Goto,
       Session!End,
       Session!world
<1>8. CASE Session!SaveFails \/ Session!Crash
  <2>1. CASE v5' = Session!Idle
    BY <1>8, <2>1, SetupFaults DEF Session!SaveFails, Session!Crash, Session!End, Session!world
  <2>2. CASE v5' # Session!Idle
    <3>1. /\ v5 \in Setups /\ v5' = [v5 EXCEPT !.at = "cancel"] /\ v7' = TRUE
          /\ UNCHANGED <<v1, v2, v3, v6>> /\ Session!Fault /\ v4' = v4
      BY <1>1, <1>8, <2>2 DEF SessionTypes, Session!Idle, Session!SaveFails, Session!Crash,
         Session!End,
         Session!world
    <3>2. v5' \in Setups /\ v5'.at = "cancel" /\ v5'.r = v5.r /\ v5'.daemon = v5.daemon
      BY <3>1, SetupGoes DEF SetupSteps
    <3> QED
      BY <3>1, <3>2, SetupFaults
  <2> QED
    BY <2>1, <2>2
<1>9. ASSUME v5 # Session!Idle, NEW r \in v5.r, Session!WithSession(r)
      PROVE  SessionInv'
  BY <1>9, WithSessionKeeps
<1>10. CASE Session!CancelLoad \/ Session!CancelRemove
  BY <1>10, CancelKeeps
<1>11. CASE Session!CancelSend
  <2> DEFINE X == UNION {Session!Open(Session!Reached(v1, r.id)) :
                          r \in {q \in v6.r : Session!CancelTo(q)}}
  <2>1. /\ Session!EndSessions(X) /\ v6.at = "send" /\ v6' = Session!Idle
        /\ UNCHANGED <<v1, v2>> /\ v4' = v4 /\ v5' = v5 /\ v7' = v7 /\ v8' = v8
    BY <1>11 DEF Session!CancelSend, Session!world
  <2>2. X \in SUBSET v3
    BY DEF Session!Open, Session!Reached
  <2> HIDE DEF X
  <2>3. Continued
    BY <1>1, <2>1, <2>2, EndedContinues
  <2>4. v6 # Session!Idle
    BY <2>1 DEF Session!Idle
  <2> QED
    BY <2>1, <2>3, <2>4, SessionsEnd
<1>12. CASE Session!DaemonEnds
  BY <1>12, DaemonEndsKeeps
<1>13. ASSUME NEW x \in v3, Session!Expire(x)
       PROVE  SessionInv'
  <2>1. Continued
    BY <1>1, <1>13, ExpiredContinues
  <2>2. [x EXCEPT !.state = "expired"].state = "expired"
    BY <1>1 DEF SessionTypes, Session!Sessions
  <2>3. \A y \in v3' : y \in v3 \/ y.state # "ended"
    BY <1>13, <2>2 DEF Session!Expire, Session!Becomes
  <2> QED
    BY <1>13, <2>1, <2>3, SessionsEnd DEF Session!Expire, Session!world
<1> QED
  BY <1>2, <1>3, <1>4, <1>5, <1>6, <1>7, <1>8, <1>9, <1>10, <1>11, <1>12, <1>13
     DEF Session!Next, Confirmations

LEMMA RightSessions ==
  ASSUME SessionInv
  PROVE  Session!TypeOK /\ Session!SessionsBound /\ Session!ReceiptAsked
<1> USE DEF SessionInv
<1>1. Session!TypeOK
  BY DEF SessionTypes, Setups, OneRecord, Session!TypeOK
<1>2. Session!SessionsBound
  <2> SUFFICES ASSUME NEW q \in Session!Named
               PROVE  /\ q.r.daemon = q.to
                      /\ v2 /\ q.to = v1 => \E x \in v3 : x.id = q.r.id /\ x.scopes = q.r.scopes
    BY DEF Session!SessionsBound
  <2>1. CASE \E r \in v5.r : q = [to |-> v5.daemon, r |-> r] /\ v5.at \in SetupSteps
    <3>1. v5 \in Setups
      BY <2>1 DEF SessionTypes, SetupSteps, Session!Idle
    <3> QED
      BY <2>1, <3>1 DEF SessionLinks, Bound
  <2>2. CASE \E r \in v6.r : q = [to |-> v1, r |-> r] /\ Session!CancelTo(r) /\ v6.at = "send"
    <3>1. v6 \in Cancels
      BY <2>2 DEF SessionTypes, Session!Idle
    <3> QED
      BY <2>2, <3>1 DEF SessionLinks, Bound, Session!CancelTo
  <2> QED
    BY <2>1, <2>2 DEF Session!Named, SetupSteps
<1>3. Session!ReceiptAsked
  <2> SUFFICES ASSUME v5.at = "observe", v5.confirm # "unconfirmed", v8 = 0, NEW r \in v5.r,
                      NEW x \in Session!Reached(v5.daemon, r.id)
               PROVE  x.asked = v5.confirm
    BY DEF Session!ReceiptAsked
  <2>1. v5 \in Setups
    BY DEF SessionTypes, Session!Idle
  <2>2. r.next = v5.confirm /\ Asked(r) /\ r.daemon = v5.daemon
    BY <2>1 DEF SessionAsked, SessionLinks
  <2> QED
    BY <2>2 DEF Asked, Session!Reached
<1> QED
  BY <1>1, <1>2, <1>3

\* A setup ends where it is refused, killed, done with the file or with the session.
LEMMA SetupEnds ==
  ASSUME SessionTypes, Session!Next, v5 # Session!Idle, v5' = Session!Idle
  PROVE  \/ v5.at \in {"prepare", "decide", "cancel"} \/ Session!Fault
         \/ Session!RemoveResume
         \/ \E r \in v5.r : Session!KeepResume(r)
<1>1. v5 \in Setups
  BY DEF SessionTypes
<1>2. \A step \in SetupSteps : [v5 EXCEPT !.at = step] # Session!Idle
  BY <1>1 DEF Setups, SetupSteps, Session!Idle
<1>3. ~Session!LoadResume
  BY <1>1 DEF Session!LoadResume, Setups, Session!Idle
<1>4. ~Session!Prepare
  BY <1>1 DEF Session!Prepare, Setups, Session!Idle
<1>5. \A r \in v5.r : ~Session!Observe(r)
  BY <1>1 DEF Session!Observe, Setups, Session!Idle
<1>6. \A r \in v5.r : Session!WithSession(r) =>
        v5.at \in {"decide", "cancel"} \/ Session!Fault \/ Session!KeepResume(r)
  <2> SUFFICES ASSUME NEW r \in v5.r, Session!WithSession(r)
               PROVE  v5.at \in {"decide", "cancel"} \/ Session!Fault \/ Session!KeepResume(r)
    OBVIOUS
  <2> QED
    BY <1>2, <1>5 DEF SetupSteps, Session!WithSession, Session!Decide, Session!ObserveRefused,
       Session!ObserveReplyBad, Session!Observed, Session!Finalize, Session!FinalizeLost,
       Session!CancelSession, Session!Goto
<1>7. ~Session!SaveResume
  BY <1>2 DEF SetupSteps, Session!SaveResume, Session!Goto
<1>8. ~ \E scopes \in Scopes, confirm \in Confirmations : Session!Connect(scopes, confirm)
  BY DEF Session!Connect
<1>9. ~(Session!CancelLoad \/ Session!CancelRemove \/ Session!CancelSend \/ Session!DaemonEnds)
  BY DEF Session!CancelLoad, Session!CancelRemove, Session!CancelSend, Session!DaemonEnds
<1>10. ~ \E x \in v3 : Session!Expire(x)
  BY DEF Session!Expire
<1>11. Session!SaveFails \/ Session!Crash => Session!Fault
  BY DEF Session!SaveFails, Session!Crash
<1>12. Session!PrepareFails => v5.at = "prepare"
  BY DEF Session!PrepareFails
<1> QED
  BY <1>3, <1>4, <1>6, <1>7, <1>8, <1>9, <1>10, <1>11, <1>12 DEF Session!Next, Confirmations

\* A setup that ends has kept a session that has not ended, or removed the file.
LEMMA ResumeIsSettled ==
  ASSUME SessionInv, [Session!Next]_(Session!vars)
  PROVE  Session!SettlesResume
<1> SUFFICES ASSUME v5 # Session!Idle, v5' = Session!Idle, v5.at \in {"keep", "remove", "cancel"},
                    ~v7, v8' = v8
             PROVE  ~Session!NamesEnded(v4')
  BY DEF Session!SettlesResume
<1>1. v5 \in Setups /\ v5.at # "cancel" /\ v8 \in Nat
  BY BoundsAssumption DEF SessionInv, SessionTypes, SessionEnds
<1>2. ~Session!Fault
  BY <1>1 DEF Session!Fault
<1>3. Session!RemoveResume \/ \E r \in v5.r : Session!KeepResume(r)
  <2>1. SessionTypes /\ Session!Next
    BY DEF SessionInv, Session!vars
  <2> QED
    BY <1>1, <1>2, <2>1, SetupEnds
<1>4. CASE v5.at = "remove"
  <2>1. v4' = {}
    BY <1>2, <1>4, <1>3 DEF Session!RemoveResume, Session!KeepResume
  <2> QED
    BY <2>1 DEF Session!NamesEnded
<1>5. CASE v5.at = "keep"
  <2>1. PICK r \in v5.r : v4' = {r}
    BY <1>2, <1>5, <1>3 DEF Session!RemoveResume, Session!KeepResume
  <2>2. Unended(r) /\ r \in v5.r
    BY <1>5 DEF SessionInv, SessionEnds
  <2> QED
    BY <2>1, <2>2 DEF Session!NamesEnded, Session!Reached, Unended
<1> QED
  BY <1>1, <1>4, <1>5

-----------------------------------------------------------------------------
(* ProviderContract. *)

\* The rules hold of every part of an answer that was read and not refused.
ContractInv ==
  /\ v1 \in {"scope", "flow", "machine", "reasons", "outcome", "proof", "proved", "refused"}
  /\ v2 \subseteq {"database", "media"}
  /\ v1 \in {"machine", "reasons", "outcome"} => Contract!FlowRules(v4)
  /\ v1 = "outcome" => Contract!ReasonRules(v5) /\ Contract!SipRules(v5)
  /\ v1 = "proved" =>
       /\ v6 = [catalog |-> v6.catalog, keys |-> v6.keys, missing |-> v6.missing,
                counted |-> v6.counted, image |-> v6.image]
       /\ v6.keys \subseteq Databases
       /\ Contract!ProofRules(v6)

LEMMA ContractInit == Init /\ which = "contract" => ContractInv
BY DEF Init, Contract!Init, ContractInv

LEMMA ContractStep ==
  ASSUME ContractInv, [Contract!Next]_(Contract!vars)
  PROVE  ContractInv'
<1>1. CASE UNCHANGED Contract!vars
  <2>1. v1' = v1 /\ v2' = v2 /\ v3' = v3 /\ v4' = v4 /\ v5' = v5 /\ v6' = v6
    BY <1>1 DEF Contract!vars
  <2>2. Contract!FlowRules(v4) => Contract!FlowRules(v4)'
    BY <2>1 DEF Contract!FlowRules, Contract!Complete, Contract!Covers
  <2>3. Contract!SipRules(v5) => Contract!SipRules(v5)'
    BY <2>1 DEF Contract!SipRules, Contract!Waiting, Contract!Complete, Contract!Covers
  <2>4. Contract!ProofRules(v6) => Contract!ProofRules(v6)'
    BY <2>1 DEF Contract!ProofRules, Contract!CoverageRules
  <2>5. Contract!ReasonRules(v5) => Contract!ReasonRules(v5)'
    BY <2>1 DEF Contract!ReasonRules
  <2> QED
    BY <2>1, <2>2, <2>3, <2>4, <2>5 DEF ContractInv
<1>2. CASE Contract!ReadScope
  BY <1>2 DEF ContractInv, Contract!ReadScope, Contract!Judge
<1>3. CASE Contract!ReadFlow
  <2>1. v1 = "flow" /\ v2' = v2
    BY <1>3 DEF Contract!ReadFlow
  <2>2. CASE v1' = "refused"
    BY <2>1, <2>2 DEF ContractInv
  <2>3. CASE v1' # "refused"
    <3>1. v1' = "machine" /\ v3' = v3 /\ Contract!FlowRules(v4')
      BY <1>3, <2>3 DEF Contract!ReadFlow, Contract!Judge
    <3>2. Contract!FlowRules(v4)'
      BY <3>1, <2>1 DEF Contract!FlowRules, Contract!Complete, Contract!Covers
    <3> QED
      BY <2>1, <3>1, <3>2 DEF ContractInv
  <2> QED
    BY <2>2, <2>3
<1>4. CASE Contract!ReadMachine \/ Contract!ReadReasons
  <2>1. v1 \in {"machine", "reasons"} /\ v2' = v2
    BY <1>4 DEF Contract!ReadMachine, Contract!ReadReasons
  <2>2. CASE v1' = "refused"
    BY <2>1, <2>2 DEF ContractInv
  <2>3. CASE v1' # "refused"
    <3>1. v1' \in {"reasons", "outcome"} /\ v3' = v3 /\ v4' = v4
      BY <1>4, <2>3 DEF Contract!ReadMachine, Contract!ReadReasons, Contract!Judge
    <3>2. Contract!FlowRules(v4)'
      BY <3>1, <2>1 DEF ContractInv, Contract!FlowRules, Contract!Complete, Contract!Covers
    <3>3. ASSUME v1' = "outcome"
          PROVE  Contract!ReasonRules(v5') /\ Contract!SipRules(v5')
      BY <1>4, <3>3 DEF Contract!ReadMachine, Contract!ReadReasons, Contract!Judge
    <3>4. ASSUME v1' = "outcome"
          PROVE  Contract!ReasonRules(v5)'
      BY <3>3, <3>4 DEF Contract!ReasonRules
    <3>5. ASSUME v1' = "outcome"
          PROVE  Contract!SipRules(v5)'
      BY <3>1, <2>1, <3>3, <3>5 DEF Contract!SipRules, Contract!Waiting, Contract!Complete,
         Contract!Covers
    <3> QED
      BY <2>1, <3>1, <3>2, <3>4, <3>5 DEF ContractInv
  <2> QED
    BY <2>2, <2>3
<1>5. CASE Contract!ReadProof
  <2>1. v1 = "proof" /\ v2' = v2
    BY <1>5 DEF Contract!ReadProof
  <2>2. CASE v1' = "refused"
    BY <2>1, <2>2 DEF ContractInv
  <2>3. CASE v1' # "refused"
    <3>1. PICK L \in SUBSET Databases : \E c \in [L -> Contract!Classes] : \E K, M \in SUBSET L :
            \E n \in BOOLEAN, i \in BOOLEAN :
              /\ v6' = [catalog |-> c, keys |-> K, missing |-> M, counted |-> n, image |-> i]
              /\ Contract!ProofRules(v6') /\ v1' = "proved" /\ v3' = v3
      BY <1>5, <2>3 DEF Contract!ReadProof, Contract!Judge
    <3>2. Contract!ProofRules(v6)'
      BY <3>1, <2>1 DEF Contract!ProofRules, Contract!CoverageRules
    <3> QED
      BY <2>1, <3>1, <3>2 DEF ContractInv
  <2> QED
    BY <2>2, <2>3
<1> QED
  BY <1>1, <1>2, <1>3, <1>4, <1>5 DEF Contract!Next

LEMMA CompleteIsDone == ContractInv => Contract!CompleteMeansDone
BY DEF ContractInv, Contract!CompleteMeansDone, Contract!FlowRules, Contract!SipRules,
   Contract!Waiting

LEMMA PublishedAreOurs == ContractInv => Contract!PublishedIsOurs
BY DEF ContractInv, Contract!PublishedIsOurs, Contract!Publishes, Contract!Mismatch,
   Contract!FlowRules, Contract!SipRules, Contract!Waiting

LEMMA SipComesLast ==
  ASSUME ContractInv
  PROVE  Contract!SipOnlyAsLastResort
<1> SUFFICES ASSUME v1 = "outcome", Contract!Reason = "sip_required"
             PROVE  /\ "standard_route_unavailable" \in v5.reasons
                    /\ v5.shadow \in {"unavailable_in_build", "attempted_failed"}
                    /\ v5.posture = "sip_enabled_verified" /\ v4.account # "known_other"
  BY DEF Contract!SipOnlyAsLastResort
<1>1. v4.next = "disable_sip"
  BY DEF Contract!Reason
<1>2. Contract!ShadowReason(v5.shadow) # {} => v5.shadow \in {"unavailable_in_build", "attempted_failed"}
  BY DEF Contract!ShadowReason
<1> QED
  BY <1>1, <1>2 DEF ContractInv, Contract!FlowRules, Contract!SipRules, Contract!Waiting

LEMMA ObservedAreFinal ==
  ASSUME ContractInv
  PROVE  Contract!ObservedIsFinal
<1> SUFFICES ASSUME v1 = "proved", v6.counted, Contract!Listed(v6) # {}
             PROVE  /\ [v6 EXCEPT !.keys = Contract!Projected(v6)].keys = v6.keys
                    /\ Contract!CoverageRules([v6 EXCEPT !.keys = Contract!Projected(v6)])
  BY DEF Contract!ObservedIsFinal
<1>1. Contract!CoverageRules(v6) /\ v6.keys \subseteq Contract!Eligible(v6)
  BY DEF ContractInv, Contract!ProofRules
<1>2. Contract!Eligible(v6) \subseteq Contract!Required(v6)
  BY DEF Contract!Eligible, Contract!Required
<1>3. v6.missing = Contract!Required(v6) \ v6.keys
  BY <1>1 DEF Contract!CoverageRules, Contract!Missing
<1>4. Contract!Projected(v6) = v6.keys
  BY <1>1, <1>2, <1>3 DEF Contract!Projected
<1>5. [v6 EXCEPT !.keys = v6.keys] = v6
  BY DEF ContractInv
<1> QED
  BY <1>1, <1>4, <1>5

-----------------------------------------------------------------------------
(* ProviderEvidence. *)

\* What a provider may say of the processes it found, and of what it found in them.
Processes ==
  [target : Proof!Counts, other : Proof!Counts, unknown : Proof!Counts, opened : Proof!Counts,
   denied : Proof!Counts, binding : {"unknown", "path_verified", "mismatch"},
   session : {"unknown", "known_target", "known_other"}]

Scans ==
  [order : {<<>>, <<"config">>, <<"fallback">>, <<"config", "fallback">>, <<"fallback", "config">>},
   structures : Proof!Counts, candidates : Proof!Counts, verified : Proof!Counts,
   stages : Proof!Counts, collectors : 0 .. MaxCount + 1]

\* The rules hold of every part that was read, and each system has its own routes.
EvidenceInv ==
  /\ v1 \in {"windows", "darwin", "any"} \X
            {"identity", "registry", "identified", "processes", "scan", "scanned", "refused"}
  /\ v1[1] = "windows" => v3 \in Proof!ConfigRoute
  /\ v1[1] = "darwin" => v3 \in Proof!StandardRoute
  /\ v1[2] = "identified" =>
       \/ v1[1] = "darwin" /\ Proof!DarwinRules(v4, v5)
       \/ v1[1] = "windows" /\ Proof!RegistryRules(v4, v5) /\ Proof!ConfigRules(v5)
  /\ v1[2] \in {"scan", "scanned"} => v6 \in Processes /\ Proof!ProcessRules(v6)
  /\ v1[2] = "scanned" => v7 \in Scans /\ Proof!FoundRules(v7) /\ Proof!CollectorRules(v7)

LEMMA EvidenceInit == Init /\ which = "evidence" => EvidenceInv
BY DEF Init, Proof!Init, EvidenceInv

LEMMA EvidenceStep ==
  ASSUME EvidenceInv, [Proof!Next]_(Proof!vars)
  PROVE  EvidenceInv'
<1>1. CASE UNCHANGED Proof!vars
  <2>1. v1' = v1 /\ v2' = v2 /\ v3' = v3 /\ v4' = v4 /\ v5' = v5 /\ v6' = v6 /\ v7' = v7
    BY <1>1 DEF Proof!vars
  <2>2. /\ Proof!DarwinRules(v4, v5) => Proof!DarwinRules(v4, v5)'
        /\ Proof!RegistryRules(v4, v5) /\ Proof!ConfigRules(v5)
             => (Proof!RegistryRules(v4, v5) /\ Proof!ConfigRules(v5))'
    BY <2>1 DEF Proof!DarwinRules, Proof!RegistryRules, Proof!ConfigRules, Proof!FullyVerified,
       Proof!Registered
  <2>3. /\ Proof!ProcessRules(v6) => Proof!ProcessRules(v6)'
        /\ Proof!FoundRules(v7) => Proof!FoundRules(v7)'
        /\ Proof!CollectorRules(v7) => Proof!CollectorRules(v7)'
    BY <2>1 DEF Proof!ProcessRules, Proof!Selected, Proof!FoundRules, Proof!CollectorRules,
       Proof!Configured, Proof!FellBack
  <2> QED
    BY <2>1, <2>2, <2>3 DEF EvidenceInv
<1>2. ASSUME NEW platform \in {"darwin", "windows"}, Proof!ReadIdentity(platform)
      PROVE  EvidenceInv'
  BY <1>2 DEF EvidenceInv, Proof!ReadIdentity, Proof!Judge
<1>3. ASSUME NEW platform \in {"darwin", "windows"}, Proof!ReadRegistry(platform)
      PROVE  EvidenceInv'
  <2>1. v1 = <<platform, "registry">> /\ v2' = v2 /\ v3' = v3
    BY <1>3 DEF Proof!ReadRegistry
  <2>2. CASE v1' = <<"any", "refused">>
    BY <2>1, <2>2 DEF EvidenceInv
  <2>3. CASE v1' # <<"any", "refused">>
    <3>1. /\ v1' = <<platform, "identified">> /\ v4' = v4
          /\ IF platform = "darwin" THEN Proof!DarwinRules(v4, v5')
             ELSE Proof!RegistryRules(v4, v5') /\ Proof!ConfigRules(v5')
      BY <1>3, <2>3 DEF Proof!ReadRegistry, Proof!Judge
    <3>2. CASE platform = "darwin"
      <4>1. Proof!DarwinRules(v4, v5)'
        BY <3>1, <3>2, <2>1 DEF Proof!DarwinRules, Proof!Registered
      <4> QED
        BY <4>1, <3>1, <3>2, <2>1 DEF EvidenceInv
    <3>3. CASE platform = "windows"
      <4>1. Proof!RegistryRules(v4, v5)' /\ Proof!ConfigRules(v5)'
        BY <3>1, <3>3, <2>1 DEF Proof!RegistryRules, Proof!ConfigRules, Proof!Registered
      <4> QED
        BY <4>1, <3>1, <3>3, <2>1 DEF EvidenceInv
    <3> QED
      BY <3>2, <3>3
  <2> QED
    BY <2>2, <2>3
<1>4. CASE Proof!ReadProcesses
  BY <1>4 DEF EvidenceInv, Proof!ReadProcesses, Proof!Judge, Processes, Proof!ProcessRules
<1>5. CASE Proof!ReadScan
  BY <1>5 DEF EvidenceInv, Proof!ReadScan, Proof!Judge, Scans, Proof!FoundRules,
     Proof!CollectorRules
<1> QED
  BY <1>1, <1>2, <1>3, <1>4, <1>5 DEF Proof!Next

LEMMA RegisteredArePromoted == EvidenceInv => Proof!RegisteredIsPromoted
BY DEF EvidenceInv, Proof!RegisteredIsPromoted, Proof!DarwinRules, Proof!RegistryRules,
   Proof!ConfigRules,
   Proof!Registered, Proof!StandardRoute, Proof!ConfigRoute, Proof!Attempted

\* From the collectors of an answer back to the accounts of the processes.
LEMMA ScannedAreOwn ==
  ASSUME EvidenceInv
  PROVE  Proof!ScannedOwnProcess
<1> SUFFICES ASSUME v1 = <<"windows", "scanned">>
             PROVE  /\ v7.verified > 0 => v6.opened > 0 /\ Proof!Configured(v7)
                    /\ v6.binding = "mismatch" => v7.order = <<>> /\ v7.candidates = 0
  BY DEF Proof!ScannedOwnProcess
<1>1. v6 \in Processes /\ v7 \in Scans /\ Proof!ProcessRules(v6)
      /\ Proof!FoundRules(v7) /\ Proof!CollectorRules(v7)
  BY DEF EvidenceInv
<1>2. /\ {v6.opened, v6.denied, v7.structures, v7.candidates, v7.verified, v7.stages, v7.collectors}
           \subseteq Nat
  BY <1>1, BoundsAssumption DEF Processes, Scans, Proof!Counts
<1>3. Proof!Configured(v7) \/ Proof!FellBack(v7) => v6.opened > 0
  BY <1>1, <1>2 DEF Proof!CollectorRules
<1>4. v7.candidates > 0 => Proof!Configured(v7)
  BY <1>1, <1>2 DEF Proof!FoundRules
<1>5. v7.verified > 0 => v7.candidates > 0
  BY <1>1, <1>2 DEF Proof!FoundRules
<1>6. v6.binding = "mismatch" => ~ (v6.opened > 0)
  BY <1>1, <1>2 DEF Proof!ProcessRules, Proof!Selected
<1>7. ~Proof!Configured(v7) /\ ~Proof!FellBack(v7) => v7.order = <<>>
  <2>1. \/ v7.order = <<>>
        \/ v7.order # <<>> /\ v7.order[1] \in {"config", "fallback"} /\ 1 \in DOMAIN v7.order
    BY <1>1 DEF Scans
  <2> QED
    BY <2>1 DEF Proof!Configured, Proof!FellBack
<1> QED
  BY <1>2, <1>3, <1>4, <1>5, <1>6, <1>7

-----------------------------------------------------------------------------
(* The theorems. *)

\* However setups, cancel commands, crashes, failing renames, restarts of the machine
\* and the clock follow each other: "persisted" and "cleared" are so until somebody else
\* touches the files, SIP that was disabled on request is asked for again, and a cancel
\* command that no setup ran beside leaves nothing, or has missed only what a save that
\* failed or was ended left in the backup (reconcileExternalCheckpoint,
\* CancelAcquisition, reconcileNormalAcquisition).
THEOREM ReportsAreTrue == Spec => []ReportsTrue
<1> DEFINE inv == which = "workflow" => WorkflowInv /\ TornInv
<1>1. Init => inv
  BY WorkflowInit DEF Init, Workflow!Init, Workflow!Absent, TornInv
<1>2. inv /\ [Next]_vars => inv'
  <2> SUFFICES ASSUME inv, [Next]_vars, which' = "workflow" PROVE WorkflowInv' /\ TornInv'
    OBVIOUS
  <2>1. which = "workflow" /\ [Workflow!Next]_(Workflow!vars)
    BY DEF Next, vars, Workflow!vars
  <2> QED
    BY <2>1, WorkflowStep, TornStep
<1>3. inv => ReportsTrue
  BY TrueReports DEF ReportsTrue
<1> QED
  BY <1>1, <1>2, <1>3, PTL DEF Spec

\* Whatever a setup does, and wherever it ends, it drops no pending restoration of SIP
\* while SIP is disabled, but in the step of a save that removes the only copy, after a
\* save that ended between its renames (saveAcquisitionJSON).
THEOREM RestorationStays == Spec => RestorationKept
<1> DEFINE inv == which = "workflow" => WorkflowInv
<1>1. Init => inv
  BY WorkflowInit DEF Init
<1>2. ASSUME inv, [Next]_vars
      PROVE  inv' /\ (which = "workflow" => Workflow!KeepsRestoration)
  <2>1. which' = which
    BY <1>2 DEF Next, vars
  <2>2. CASE which = "workflow"
    <3>1. [Workflow!Next]_(Workflow!vars) /\ WorkflowInv
      BY <1>2, <2>2 DEF Next, vars, Workflow!vars
    <3>2. WorkflowInv' /\ Workflow!KeepsRestoration
      BY <3>1, WorkflowStep, RestorationStep
    <3> QED
      BY <2>1, <3>2
  <2> QED
    BY <2>1, <2>2
<1> QED
  BY <1>1, <1>2, PTL DEF Spec, RestorationKept

\* A pending workflow keeps its provider, its scopes and its expiry over all its stages,
\* for any requests, lifetime and order of steps (acquireScopes,
\* reconcileExternalCheckpoint).
THEOREM HandoffStays == Spec => HandoffBound
<1> DEFINE inv == which = "workflow" => WorkflowInv
<1>1. Init => inv
  BY WorkflowInit DEF Init
<1>2. ASSUME inv, [Next]_vars
      PROVE  inv' /\ (which = "workflow" => Workflow!KeepsHandoff)
  <2>1. which' = which
    BY <1>2 DEF Next, vars
  <2>2. CASE which = "workflow"
    <3>1. [Workflow!Next]_(Workflow!vars) /\ WorkflowInv
      BY <1>2, <2>2 DEF Next, vars, Workflow!vars
    <3>2. WorkflowInv' /\ Workflow!KeepsHandoff
      BY <3>1, WorkflowStep, HandoffKept
    <3> QED
      BY <2>1, <3>2
  <2> QED
    BY <2>1, <2>2
<1> QED
  BY <1>1, <1>2, PTL DEF Spec, HandoffBound

\* For any number of daemons and sessions that end or expire when they like, and calls
\* that fail: a request goes to the daemon that opened the session it names, with its
\* scopes, and a receipt is for what that session asked (sameResumeScope,
\* acquireViaDaemon).
THEOREM SessionsAreRight == Spec => []SessionsRight
<1> DEFINE inv == which = "session" => SessionInv
<1>1. Init => inv
  BY SessionInit DEF Init
<1>2. inv /\ [Next]_vars => inv'
  <2> SUFFICES ASSUME inv, [Next]_vars, which' = "session" PROVE SessionInv'
    OBVIOUS
  <2>1. which = "session" /\ [Session!Next]_(Session!vars)
    BY DEF Next, vars, Session!vars
  <2> QED
    BY <2>1, SessionStep
<1>3. inv => SessionsRight
  BY RightSessions DEF SessionsRight
<1> QED
  BY <1>1, <1>2, <1>3, PTL DEF Spec

\* A setup that ends as it should, with a session or without, leaves no resume file of a
\* session that has ended, even one it found (acquireViaDaemon).
THEOREM ResumeIsLeftSettled == Spec => ResumeSettled
<1> DEFINE inv == which = "session" => SessionInv
<1>1. Init => inv
  BY SessionInit DEF Init
<1>2. ASSUME inv, [Next]_vars
      PROVE  inv' /\ (which = "session" => Session!SettlesResume)
  <2>1. which' = which
    BY <1>2 DEF Next, vars
  <2>2. CASE which = "session"
    <3>1. [Session!Next]_(Session!vars) /\ SessionInv
      BY <1>2, <2>2 DEF Next, vars, Session!vars
    <3>2. SessionInv' /\ Session!SettlesResume
      BY <3>1, SessionStep, ResumeIsSettled
    <3> QED
      BY <2>1, <3>2
  <2> QED
    BY <2>1, <2>2
<1> QED
  BY <1>1, <1>2, PTL DEF Spec, ResumeSettled

\* For any databases, reasons, results and actions: an answer that every rule lets through
\* means what the setup makes of it (parseAndValidateResponse, acquisitionError,
\* validateDaemonObservationResponse).
THEOREM AnswersAreJudged == Spec => []AnswersJudged
<1> DEFINE inv == which = "contract" => ContractInv
<1>1. Init => inv
  BY ContractInit DEF Init
<1>2. inv /\ [Next]_vars => inv'
  <2> SUFFICES ASSUME inv, [Next]_vars, which' = "contract" PROVE ContractInv'
    OBVIOUS
  <2>1. which = "contract" /\ [Contract!Next]_(Contract!vars)
    BY DEF Next, vars, Contract!vars
  <2> QED
    BY <2>1, ContractStep
<1>3. inv => AnswersJudged
  <2> SUFFICES ASSUME ContractInv
               PROVE  /\ Contract!TypeOK /\ Contract!CompleteMeansDone /\ Contract!PublishedIsOurs
                      /\ Contract!SipOnlyAsLastResort /\ Contract!ObservedIsFinal
    BY DEF AnswersJudged
  <2>1. Contract!TypeOK
    BY DEF ContractInv, Contract!TypeOK
  <2>2. Contract!CompleteMeansDone
    BY CompleteIsDone
  <2>3. Contract!PublishedIsOurs
    BY PublishedAreOurs
  <2> QED
    BY <2>1, <2>2, <2>3, SipComesLast, ObservedAreFinal
<1> QED
  BY <1>1, <1>2, <1>3, PTL DEF Spec

\* For any evidence and any counts: evidence that every rule lets through supports the
\* route it is given for, a registered build is verified and promoted, and only the
\* account's own process was scanned (validateMacOSEvidence, validateWindowsEvidence).
THEOREM EvidenceIsSupport == Spec => []EvidenceSupports
<1> DEFINE inv == which = "evidence" => EvidenceInv
<1>1. Init => inv
  BY EvidenceInit DEF Init
<1>2. inv /\ [Next]_vars => inv'
  <2> SUFFICES ASSUME inv, [Next]_vars, which' = "evidence" PROVE EvidenceInv'
    OBVIOUS
  <2>1. which = "evidence" /\ [Proof!Next]_(Proof!vars)
    BY DEF Next, vars, Proof!vars
  <2> QED
    BY <2>1, EvidenceStep
<1>3. inv => EvidenceSupports
  BY RegisteredArePromoted, ScannedAreOwn DEF EvidenceSupports
<1> QED
  BY <1>1, <1>2, <1>3, PTL DEF Spec
=============================================================================
