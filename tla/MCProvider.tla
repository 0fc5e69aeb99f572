----------------------------- MODULE MCProvider -----------------------------
(* Provider for TLC: the requests of two providers, and every value a rule    *)
(* tells from the others.                                                     *)
EXTENDS Provider

\* Two requests of one provider that differ in their scopes, and one of another.
MCRequests ==
  {[provider |-> "p", scopes |-> "all"], [provider |-> "p", scopes |-> "database"],
   [provider |-> "q", scopes |-> "all"]}

\* Every reason, result, action and piece of evidence a rule tells from the others.
MCReasons ==
  {"standard_route_unavailable", "shadow_route_unavailable_in_build", "shadow_route_failed",
   "sip_route_failed", "sip_disabled_route_not_attempted", "validator_conflict"}

MCResults == {"complete", "partial", "action_required", "deadline_exhausted", "unsupported", "failed"}

MCNextActions ==
  {"none", "trigger_database", "switch_to_target_account", "approve_shadow_mode", "disable_sip",
   "reenable_sip"}

MCEvidence ==
  {"exact_match", "real_device", "promoted", "candidate", "not_supported", "no_exact_match",
   "signing_invalid"}
=============================================================================
