------------------------------ MODULE MCFiles ------------------------------
(* Descriptors for TLC to check LocalFiles with. *)
EXTENDS LocalFiles, TLC

\* A complete descriptor of a remote copy, one without a key, one without a token,
\* one whose address is not the CDN's, and none.
MCVariants ==
  {[url |-> "cdn", token |-> TRUE, key |-> TRUE], [url |-> "cdn", token |-> TRUE, key |-> FALSE],
   [url |-> "cdn", token |-> FALSE, key |-> TRUE], [url |-> "foreign", token |-> TRUE, key |-> TRUE],
   [url |-> "none", token |-> FALSE, key |-> FALSE]}

\* What a message may say of a remote image: a high variant that is usable beside a
\* medium one without a proof, or a usable medium one beside a high one that is
\* opaque and a thumbnail without a key.
Variant(encoding, key, proof) == [encoding |-> encoding, key |-> key, proof |-> proof]

MCDescriptors ==
  { [high |-> Variant("direct", TRUE, "md5"), medium |-> Variant("direct", TRUE, "none")],
    [high |-> Variant("opaque", TRUE, "md5"), medium |-> Variant("direct", TRUE, "size"),
     thumbnail |-> Variant("direct", FALSE, "size")] }

\* The installers are called like the calls, and the copiers like the messages.
Symmetry == Permutations(Calls) \union Permutations(Evidence) \union Permutations(Outputs)
=============================================================================
