----------------------------- MODULE MCAccount -----------------------------
(* Account for TLC: databases are interchangeable, and so are epochs.         *)
EXTENDS Account, TLC

Symmetry == Permutations(Databases) \union Permutations(Epochs)
=============================================================================
