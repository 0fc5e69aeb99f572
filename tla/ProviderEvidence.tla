-------------------------- MODULE ProviderEvidence --------------------------
(***************************************************************************)
(* The evidence a provider's answer gives for the program it read the keys *)
(* from: which binary, signed by whom, known to the registry how, which    *)
(* processes were opened and what was found in them.  validateDarwinEvidence*)
(* and validateWindowsEvidence refuse an answer whose evidence contradicts *)
(* itself.  No single rule says that keys come only from a registered      *)
(* binary or only from the account's own process; the chain of the rules   *)
(* does.  On Windows the rules fall into two groups that share the status  *)
(* of the config route alone, so it is chosen first and the groups are     *)
(* read apart.  A hash, a version or a team is present or not.             *)
(***************************************************************************)
EXTENDS Naturals

CONSTANTS
  Evidence,  \* what may be said for a registry entry or against it
  MaxCount   \* bound on every count

VARIABLES
  at,        \* the part of the evidence that is read next
  release,   \* releaseBuild
  route,     \* the config route (Windows) or the standard route (macOS)
  identity,  \* the binary and the process it was found in
  registry,  \* what the compatibility registry says of it
  processes, \* the processes of WeChat, by account and access
  scan       \* what was found in them, and by which routes

vars == <<at, release, route, identity, registry, processes, scan>>

Counts == 0..MaxCount
Unread == [read |-> FALSE]

Attempted == {"attempted_no_structure", "attempted_invalid_structure",
              "attempted_no_verified_candidate", "partial", "succeeded"}
ConfigRoute == {"not_evaluated", "unavailable_unregistered", "unavailable_untrusted_binary",
                "eligible_registered", "registered_reviewed_no_structure"} \union Attempted
StandardRoute == {"not_evaluated", "eligible_registered", "eligible_generic_dynamic",
                  "unsupported_for_target"}

Init ==
  /\ release \in BOOLEAN
  /\ \/ at \in {<<"windows", "identity">>, <<"windows", "processes">>} /\ route \in ConfigRoute
     \/ at = <<"darwin", "identity">> /\ route \in StandardRoute
  /\ identity = Unread /\ registry = Unread /\ processes = Unread /\ scan = Unread

\* The next part is read when the rules hold; a refused answer keeps nothing.
Judge(rules, next, i, r, p, s) ==
  IF rules
  THEN at' = next /\ identity' = i /\ registry' = r /\ processes' = p /\ scan' = s
  ELSE at' = <<"any", "refused">> /\ identity' = Unread /\ registry' = Unread /\ processes' = Unread /\ scan' = Unread

----------------------------------------------------------------------------
(* The binary and the registry, on both systems. *)

\* A hash or a signer is given exactly when its status is "verified".
IdentityRules(i) ==
  /\ i.fingerprint = "verified" <=> i.hash
  /\ i.signing = "verified" <=> i.signer

ReadIdentity(platform) ==
  /\ at = <<platform, "identity">>
  /\ \E a \in {"unknown", "amd64", "arm64", "x86"}, f \in {"verified", "unavailable"},
        s \in {"verified", "invalid", "unavailable"}, h \in BOOLEAN, k \in BOOLEAN, n \in BOOLEAN :
       LET i == [architecture |-> a, fingerprint |-> f, signing |-> s, hash |-> h, signer |-> k,
                 named |-> n]
       IN  Judge(IdentityRules(i) /\ (a = "x86" => platform = "windows"), <<platform, "registry">>,
                 i, registry, processes, scan)
  /\ UNCHANGED <<release, route>>

\* The process was verified to run, and its binary, signer and version are known.
FullyVerified(i) ==
  /\ i.architecture \in {"amd64", "arm64"} /\ i.fingerprint = "verified"
  /\ i.signing = "verified" /\ i.named

\* Fault: a candidate entry is enough in a release too.
RegisteredEarly(r) ==
  /\ "exact_match" \in r.evidence
  /\ \/ {"real_device", "promoted"} \subseteq r.evidence
     \/ "candidate" \in r.evidence

\* An entry counts when it was promoted after tests on a device; a build that is
\* not a release takes a candidate too.
Registered(r) ==
  /\ "exact_match" \in r.evidence
  /\ \/ {"real_device", "promoted"} \subseteq r.evidence
     \/ ~release /\ "candidate" \in r.evidence

DarwinRules(i, r) ==
  CASE route = "eligible_registered" ->
         r.status = "registered_supported" /\ FullyVerified(i) /\ Registered(r)
    [] route = "eligible_generic_dynamic" ->
         r.status = "unregistered" /\ FullyVerified(i) /\ r.evidence # {}
    [] route = "unsupported_for_target" ->
         r.status \in {"registered_unsupported", "rejected_untrusted_binary"} /\ r.evidence # {}
    [] route = "not_evaluated" -> r.status = "not_evaluated"

RegistryRules(i, r) ==
  CASE r.status = "registered_supported" -> FullyVerified(i) /\ Registered(r)
    [] r.status = "registered_unsupported" -> FullyVerified(i) /\ "not_supported" \in r.evidence
    [] r.status = "unregistered" -> FullyVerified(i) /\ "no_exact_match" \in r.evidence
    [] r.status = "rejected_untrusted_binary" ->
         i.signing = "invalid" /\ "signing_invalid" \in r.evidence
    [] r.status = "not_evaluated" -> route = "not_evaluated"

\* What the status of the config route needs of the registry.
ConfigRules(r) ==
  CASE route = "not_evaluated" -> TRUE
    [] route = "unavailable_unregistered" -> r.status \in {"unregistered", "registered_unsupported"}
    [] route = "unavailable_untrusted_binary" -> r.status = "rejected_untrusted_binary"
    [] OTHER -> r.status = "registered_supported"

ReadRegistry(platform) ==
  /\ at = <<platform, "registry">>
  /\ \E s \in {"not_evaluated", "registered_supported", "registered_unsupported", "unregistered",
               "rejected_untrusted_binary"}, E \in SUBSET Evidence :
       LET r == [status |-> s, evidence |-> E]
       IN  Judge(IF platform = "darwin" THEN DarwinRules(identity, r)
                                        ELSE RegistryRules(identity, r) /\ ConfigRules(r),
                 <<platform, "identified">>, identity, r, processes, scan)
  /\ UNCHANGED <<release, route>>

----------------------------------------------------------------------------
(* The processes and what was found in them, on Windows. *)

\* Only processes of the account asked for, or of none known, are opened.
Selected(p) == p.target + p.unknown

ProcessRules(p) ==
  /\ p.opened + p.denied = Selected(p)
  /\ p.target > 0 <=> p.binding = "path_verified"
  /\ p.binding = "path_verified" <=> p.session = "known_target"
  /\ p.binding = "mismatch" <=> p.session = "known_other"
  /\ p.binding = "mismatch" => p.other > 0 /\ p.target = 0 /\ p.unknown = 0

ReadProcesses ==
  /\ at = <<"windows", "processes">>
  /\ \E t \in Counts, o \in Counts, u \in Counts, x \in Counts, d \in Counts,
        b \in {"unknown", "path_verified", "mismatch"},
        s \in {"unknown", "known_target", "known_other"} :
       LET p == [target |-> t, other |-> o, unknown |-> u, opened |-> x, denied |-> d,
                 binding |-> b, session |-> s]
       IN  Judge(ProcessRules(p), <<"windows", "scan">>, identity, registry, p, scan)
  /\ UNCHANGED <<release, route>>

Configured(s) == "config" \in {s.order[n] : n \in DOMAIN s.order}
FellBack(s) == "fallback" \in {s.order[n] : n \in DOMAIN s.order}

\* What was found by the config route agrees with its status.
FoundRules(s) ==
  /\ route \in Attempted <=> Configured(s)
  /\ s.structures >= s.candidates /\ s.candidates >= s.verified
  /\ route \notin Attempted \/ route = "attempted_no_structure" => s.structures = 0
  /\ route = "attempted_invalid_structure" => s.structures > 0 /\ s.candidates = 0
  /\ route = "attempted_no_verified_candidate" => s.structures > 0 /\ s.verified = 0
  /\ route \in {"partial", "succeeded"} => s.verified > 0

\* Fault: a collector needs no process.
CollectorRulesLoose(s) ==
  /\ FellBack(s) <=> s.stages > 0
  /\ s.order # <<"fallback", "config">>
  /\ s.collectors >= s.stages + (IF Configured(s) THEN 1 ELSE 0)

\* The fallback comes after the config route, and each attempt, of a process that
\* was opened, is one collector at least.
CollectorRules(s) ==
  /\ FellBack(s) <=> s.stages > 0
  /\ s.order # <<"fallback", "config">>
  /\ s.collectors >= s.stages + (IF Configured(s) THEN 1 ELSE 0)
  /\ s.collectors > 0 => processes.opened > 0

ReadScan ==
  /\ at = <<"windows", "scan">>
  /\ \E o \in {<<>>, <<"config">>, <<"fallback">>, <<"config", "fallback">>, <<"fallback", "config">>},
        n \in Counts, c \in Counts, v \in Counts, g \in Counts, k \in 0 .. MaxCount + 1 :
       LET s == [order |-> o, structures |-> n, candidates |-> c, verified |-> v, stages |-> g,
                 collectors |-> k]
       IN  Judge(FoundRules(s) /\ CollectorRules(s), <<"windows", "scanned">>, identity, registry, processes, s)
  /\ UNCHANGED <<release, route>>

Next ==
  \/ \E platform \in {"darwin", "windows"} : ReadIdentity(platform) \/ ReadRegistry(platform)
  \/ ReadProcesses \/ ReadScan

Spec == Init /\ [][Next]_vars

----------------------------------------------------------------------------
(* Properties. *)

\* An answer that calls a build registered, or ran the config route on it, shows
\* for it a running process whose binary, signer and version are verified, an
\* exact entry of the registry and, in a release, its promotion after a test on
\* a device (the switch over the registry's status and, far from it, the one over
\* the route's).
RegisteredIsPromoted ==
  at[2] = "identified" /\ route \in Attempted \union {"eligible_registered", "registered_reviewed_no_structure"} =>
    /\ FullyVerified(identity) /\ "exact_match" \in registry.evidence
    /\ release => {"real_device", "promoted"} \subseteq registry.evidence

\* Candidates come from a process that was opened, and a scan of any kind is of
\* no process of another account: an answer that says another account is logged in
\* has scanned nothing (the counts of validateWindowsEvidence, from the collectors
\* back to the accounts).
ScannedOwnProcess ==
  at = <<"windows", "scanned">> =>
    /\ scan.verified > 0 => processes.opened > 0 /\ Configured(scan)
    /\ processes.binding = "mismatch" => scan.order = <<>> /\ scan.candidates = 0
=============================================================================
