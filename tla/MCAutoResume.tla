---------------------------- MODULE MCAutoResume ----------------------------
(* AutoResume on small instances. *)
EXTENDS AutoResume, TLC

Symmetry == Permutations(Path)
=============================================================================
