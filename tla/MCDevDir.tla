------------------------------ MODULE MCDevDir ------------------------------
(* Small instances of DevDir. *)
EXTENDS DevDir, TLC

Symmetry == Permutations(Paths) \cup Permutations(Configs)
=============================================================================
