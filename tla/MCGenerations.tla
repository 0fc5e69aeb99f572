--------------------------- MODULE MCGenerations ---------------------------
(* Generations for TLC: processes are interchangeable, and so are databases. *)
EXTENDS Generations, TLC

ProcessSymmetry == Permutations(Procs) \cup Permutations(Databases)
=============================================================================
