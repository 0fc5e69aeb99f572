-------------------------- MODULE ProviderContract --------------------------
(***************************************************************************)
(* What the program takes from a key provider's answer.  The provider is   *)
(* external and may answer anything; ValidateBundle refuses an answer      *)
(* whose parts contradict each other or the keys it carries, and           *)
(* acquisitionStateError turns what is left into keys or an error for the  *)
(* user.  The answer is read part by part, and each part is chosen when it *)
(* is read: the status of the scopes first, then the outcome with the      *)
(* machine and the reasons, or the catalog with the keys; no rule relates  *)
(* these two, so they are read apart, and an answer is accepted when both  *)
(* are.  A session is observed first, without keys, and finalized after;   *)
(* the observation is validated with placeholders for the keys it          *)
(* withholds.                                                              *)
(***************************************************************************)
EXTENDS Naturals

CONSTANTS
  Databases,   \* the databases a catalog may list
  Reasons,     \* blocking reasons
  Results,     \* result codes
  NextActions  \* next actions

VARIABLES
  at,        \* how far the answer was read
  requested, \* the scopes of the request
  scope,     \* the status of the scopes
  flow,      \* the outcome of the acquisition
  route,     \* the platform, its security posture and the routes tried
  proof      \* the catalog and what is known of its databases

vars == <<at, requested, scope, flow, route, proof>>

Unread == [read |-> FALSE]

Init ==
  /\ at = "scope"
  /\ requested \in {{"database"}, {"media"}, {"database", "media"}}
  /\ scope = Unread /\ flow = Unread /\ route = Unread /\ proof = Unread

\* Reading goes on when the rules hold; otherwise the answer is refused, and
\* nothing of it is kept.
Judge(s, f, r, p, rules, next) ==
  IF rules
  THEN /\ at' \in next
       /\ scope' = s /\ flow' = f /\ route' = r /\ proof' = p
  ELSE /\ at' = "refused"
       /\ scope' = Unread /\ flow' = Unread /\ route' = Unread /\ proof' = Unread

----------------------------------------------------------------------------
(* The rules of validateScopeDiagnostics. *)

Covers(s, status) == /\ "database" \in requested => s.database = status
                     /\ "media" \in requested => s.media = status

\* hasCompleteRequestedCoverage
Complete(s) == Covers(s, "complete")

\* hasUsableRequestedCoverage
Usable(s) == s.database \in {"partial", "complete"} \/ s.media = "complete"

\* The status of a scope is "not_requested" exactly when it was not requested.
ScopeRules(s) ==
  /\ "database" \in requested <=> s.database # "not_requested"
  /\ "media" \in requested <=> s.media # "not_requested"
  /\ "database" \in requested <=> s.target # "not_requested"
  /\ s.target = "none" => s.database = "none"

ReadScope ==
  /\ at = "scope"
  /\ \E d \in {"not_requested", "none", "partial", "complete"},
        m \in {"not_requested", "pending", "none", "complete"},
        t \in {"not_requested", "none", "present"} :
       LET s == [database |-> d, media |-> m, target |-> t]
       IN  Judge(s, flow, route, proof, ScopeRules(s), {"flow", "proof"})
  /\ UNCHANGED requested

\* Fault: the action that is still to be done is not looked at.
FlowRulesLoose(f) ==
  /\ f.result = "complete" => f.workflow = "terminal" /\ Complete(scope)
  /\ f.binding = "mismatch" \/ f.account = "known_other" =>
       f.result = "action_required" /\ f.workflow = "waiting_action" /\ f.next = "switch_to_target_account"
  /\ scope.media = "pending" => f.workflow # "terminal"

FlowRules(f) ==
  /\ f.result = "complete" => f.workflow = "terminal" /\ Complete(scope) /\ f.next = "none"
  /\ f.binding = "mismatch" \/ f.account = "known_other" =>
       f.result = "action_required" /\ f.workflow = "waiting_action" /\ f.next = "switch_to_target_account"
  /\ f.next \notin {"none", "stop_and_report"} => f.workflow \in {"waiting_action", "blocked"}
  /\ scope.media = "pending" => f.workflow # "terminal"

ReadFlow ==
  /\ at = "flow"
  /\ \E r \in Results, w \in {"running", "waiting_action", "blocked", "terminal"}, n \in NextActions,
        b \in {"path_verified", "mismatch"}, a \in {"known_target", "known_other"} :
       LET f == [result |-> r, workflow |-> w, next |-> n, binding |-> b, account |-> a]
       IN  Judge(scope, f, route, proof, FlowRules(f), {"machine"})
  /\ UNCHANGED requested

Shadows == {"not_applicable", "unavailable_in_build", "awaiting_approval", "attempted_failed", "succeeded"}

\* The reason that goes with each way in which the shadow route came to nothing.
ShadowReason(shadow) ==
  CASE shadow = "unavailable_in_build" -> {"shadow_route_unavailable_in_build"}
    [] shadow = "attempted_failed" -> {"shadow_route_failed"}
    [] OTHER -> {}

MachineRules(r) ==
  /\ r.platform = "darwin" <=> r.shadow # "not_applicable"
  /\ r.platform = "windows" => r.tried = {}
  /\ "shadow" \in r.tried <=> r.shadow \in {"attempted_failed", "succeeded"}

ReasonRules(r) == \A s \in Shadows : ShadowReason(s) \intersect r.reasons # {} => r.shadow = s

Waiting(posture, r) ==
  /\ r.platform = "darwin" /\ r.posture = posture
  /\ flow.result = "action_required" /\ flow.workflow = "waiting_action"

\* Fault: the state of the machine is taken for the failure of the other routes.
SipRulesLoose(r) ==
  /\ flow.next = "disable_sip" => Waiting("sip_enabled_verified", r) /\ r.access = "sip_enabled"
  /\ flow.next = "reenable_sip" => Waiting("restoration_required", r)
  /\ r.posture = "restoration_required" => Waiting("restoration_required", r) /\ flow.next = "reenable_sip"

\* The changes of the machine that may be asked for, and the evidence they need.
SipRules(r) ==
  /\ flow.next = "approve_shadow_mode" =>
       /\ Waiting("sip_enabled_verified", r) /\ r.shadow = "awaiting_approval"
       /\ "standard_route_unavailable" \in r.reasons
  /\ flow.next = "disable_sip" =>
       /\ Waiting("sip_enabled_verified", r) /\ r.access = "sip_enabled"
       /\ ShadowReason(r.shadow) # {}
       /\ ShadowReason(r.shadow) \union {"standard_route_unavailable"} \subseteq r.reasons
  /\ r.posture = "restoration_required" => Waiting("restoration_required", r) /\ flow.next = "reenable_sip"
  /\ flow.next = "reenable_sip" =>
       /\ Waiting("restoration_required", r)
       /\ IF Complete(scope)
          THEN r.reasons \intersect {"sip_route_failed", "sip_disabled_route_not_attempted"} = {}
          ELSE /\ "sip_route_failed" \in r.reasons <=> "sip_disabled_route_not_attempted" \notin r.reasons
               /\ "sip_route_failed" \in r.reasons <=> "sip_disabled" \in r.tried

ReadMachine ==
  /\ at = "machine"
  /\ \E p \in {"darwin", "windows"}, s \in Shadows,
        q \in {"not_evaluated", "sip_enabled_verified", "restoration_required"},
        a \in {"other", "sip_enabled"}, T \in SUBSET {"shadow", "sip_disabled"} :
       LET r == [platform |-> p, shadow |-> s, posture |-> q, access |-> a, tried |-> T, reasons |-> {}]
       IN  Judge(scope, flow, r, proof, MachineRules(r), {"reasons"})
  /\ UNCHANGED requested

ReadReasons ==
  /\ at = "reasons"
  /\ \E R \in SUBSET Reasons :
       LET r == [route EXCEPT !.reasons = R]
       IN  Judge(scope, flow, r, proof, ReasonRules(r) /\ SipRules(r), {"outcome"})
  /\ UNCHANGED requested

----------------------------------------------------------------------------
(* The catalog and the keys: ValidateBundle, validateCoverageDiagnostics. *)

Classes == {"encrypted_eligible", "plaintext", "unreadable"}   \* and the other unpublishable ones

Listed(p) == DOMAIN p.catalog

\* Every database that is not plain is required: keys for the eligible ones.
Required(p) == {d \in Listed(p) : p.catalog[d] # "plaintext"}
Eligible(p) == {d \in Listed(p) : p.catalog[d] = "encrypted_eligible"}

\* Fault: a database that cannot be read is not missed.
MissingEligible(p) == Eligible(p) \ p.keys

Missing(p) == Required(p) \ p.keys

\* What the keys and the catalog show of the coverage.
Shown(p) ==
  IF Listed(p) # {} /\ Missing(p) = {} THEN "complete" ELSE IF p.keys # {} THEN "partial" ELSE "none"

\* The counts are compared with the catalog when the answer has any.
CoverageRules(p) ==
  p.counted => p.missing = Missing(p) /\ ("database" \in requested => scope.database = Shown(p))

ProofRules(p) ==
  /\ "database" \in requested => (Listed(p) = {} <=> scope.target = "none")
  /\ p.image <=> scope.media = "complete"
  /\ p.keys \subseteq Eligible(p)
  /\ Listed(p) # {} => CoverageRules(p)

\* A finished answer carries the keys, an observation only what is missing.
ReadProof ==
  /\ at = "proof"
  /\ \E L \in SUBSET Databases : \E c \in [L -> Classes] : \E K, M \in SUBSET L :
       \E n \in BOOLEAN, i \in BOOLEAN :
         LET p == [catalog |-> c, keys |-> K, missing |-> M, counted |-> n, image |-> i]
         IN  Judge(scope, flow, route, p, ProofRules(p), {"proved"})
  /\ UNCHANGED requested

Next == ReadScope \/ ReadFlow \/ ReadMachine \/ ReadReasons \/ ReadProof

Spec == Init /\ [][Next]_vars

----------------------------------------------------------------------------
(* What an accepted answer leads to. *)

Mismatch == flow.binding = "mismatch" \/ flow.next = "switch_to_target_account"

\* acquisitionError: the reason given to the user; a later rule overrides an
\* earlier one.
Reason ==
  CASE flow.result \in {"ambiguous", "unsupported"} -> flow.result
    [] Mismatch -> "account_mismatch"
    [] flow.next = "relogin_wechat" -> "relogin_required"
    [] flow.next = "reenable_sip" -> "sip_restoration_required"
    [] flow.next = "disable_sip" /\ route.access = "sip_enabled" -> "sip_required"
    [] "validator_conflict" \in route.reasons -> "validator_conflict"
    [] flow.result = "deadline_exhausted" -> "deadline_exhausted"
    [] flow.next = "approve_shadow_mode" -> "shadow_approval_required"
    [] flow.next = "trigger_database" -> "hook_trigger_required"
    [] OTHER -> "no_candidates"

\* Fault: an error only stops the setup when nothing at all was found.
PublishesUsable ==
  \/ flow.next = "reenable_sip" /\ route.posture = "restoration_required" /\ Complete(scope)
  \/ flow.workflow \notin {"waiting_action", "blocked"} /\ Usable(scope)

\* acquisitionStateError: whether the keys of an accepted answer are used.
Publishes ==
  \/ flow.next = "reenable_sip" /\ route.posture = "restoration_required" /\ Complete(scope)
  \/ /\ flow.binding # "mismatch" /\ flow.workflow \notin {"waiting_action", "blocked"}
     /\ \/ flow.result \in {"complete", "partial"}
        \/ flow.result = "deadline_exhausted" /\ flow.workflow = "terminal" /\ Usable(scope)

\* Fault: a database whose key is withheld counts as covered.
ProjectedAll(p) == Eligible(p)

\* validateDaemonObservationResponse: the keys an observation stands for are
\* those of the eligible databases it does not list as missing.
Projected(p) == Eligible(p) \ p.missing

----------------------------------------------------------------------------
(* Properties. *)

\* Every variable holds what it may hold.
TypeOK ==
  /\ at \in {"scope", "flow", "machine", "reasons", "outcome", "proof", "proved", "refused"}
  /\ requested \subseteq {"database", "media"}
  /\ at = "proved" => proof.keys \subseteq Databases

\* references/key-provider.md: an answer is complete only when every requested
\* scope is, the workflow is over, no change of the machine is to be undone and
\* nothing is left to do.  The four are checked by rules that are far apart
\* (validateScopeDiagnostics).
CompleteMeansDone ==
  at = "outcome" /\ flow.result = "complete" =>
    /\ Complete(scope) /\ flow.workflow = "terminal" /\ flow.next = "none"
    /\ route.posture # "restoration_required" /\ flow.binding # "mismatch"

\* Keys are used only of the account asked for, and never while the user has
\* something to do, but for the one case where the keys are all there and the
\* user has to enable SIP again (acquisitionStateError).
PublishedIsOurs ==
  at = "outcome" /\ Publishes =>
    /\ ~Mismatch /\ flow.account # "known_other"
    /\ flow.workflow = "waiting_action" => flow.next = "reenable_sip" /\ Complete(scope)
    /\ flow.result \notin {"unsupported", "ambiguous", "failed"}

\* The user is asked to disable SIP only after the standard route and the shadow
\* route are known not to work, whatever the provider says of SIP itself
\* (the rules of disable_sip, and the reason acquisitionError gives).
SipOnlyAsLastResort ==
  at = "outcome" /\ Reason = "sip_required" =>
    /\ "standard_route_unavailable" \in route.reasons
    /\ route.shadow \in {"unavailable_in_build", "attempted_failed"}
    /\ route.posture = "sip_enabled_verified" /\ flow.account # "known_other"

\* What an observation stands for is what the finalized answer proves: the keys
\* its missing databases leave are those the validation of the final answer
\* asks for, so a session that was observed as covered is finalized as covered
\* (validateDaemonObservationResponse, validateCoverageDiagnostics).
ObservedIsFinal ==
  at = "proved" /\ proof.counted /\ Listed(proof) # {} =>
    LET observed == [proof EXCEPT !.keys = Projected(proof)]
    IN  observed.keys = proof.keys /\ CoverageRules(observed)
=============================================================================
