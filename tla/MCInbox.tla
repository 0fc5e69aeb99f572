------------------------------ MODULE MCInbox ------------------------------
(* Inbox for TLC: the first message has one version and the second may change, *)
(* so that a batch meets old, new and changed messages; clients and the        *)
(* versions of the second message are interchangeable in the safety runs.      *)
EXTENDS Inbox, TLC

CONSTANTS v1, v2, v3

MCDocuments ==
  {d \in Contents : d[1] \in {v1, Absent} /\ d[2] \in {v2, v3, Absent}}

LiveDocuments == [Messages -> {v1, Absent}]

Symmetry == Permutations(Workers) \cup Permutations({v2, v3})
=============================================================================
