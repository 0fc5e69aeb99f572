---------------------------- MODULE AtomicRecord ----------------------------
(***************************************************************************)
(* What a private record promises to the code that loads it: the account   *)
(* state, a consumer cursor, an acquisition resume file.  A record has one *)
(* value at a time, 0 when there is none.  A save replaces the value by a  *)
(* newer version in one step; nothing but a deletion makes the value older *)
(* or absent.                                                              *)
(***************************************************************************)
EXTENDS Naturals

VARIABLES
  value,      \* the version a load returns, 0 when the record is absent
  deleting    \* a deletion has started and has not ended

vars == <<value, deleting>>

\* The record may exist already.
Init ==
  /\ value \in Nat
  /\ deleting = FALSE

Save ==
  /\ ~deleting
  /\ value' \in Nat
  /\ value' > value
  /\ UNCHANGED deleting

\* A deletion may expose an older version before it ends: the two files of a
\* record are removed one after the other, and either removal may fail.
Forget ==
  /\ deleting' \in BOOLEAN
  /\ deleting \/ deleting'
  /\ value' \in Nat
  /\ value' <= value

Next == Save \/ Forget

Spec == Init /\ [][Next]_vars
=============================================================================
