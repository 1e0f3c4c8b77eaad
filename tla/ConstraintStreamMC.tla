------------------------- MODULE ConstraintStreamMC -------------------------
(* ConstraintStream for TLC.  Resources, names and values differ in nothing. *)
EXTENDS ConstraintStream, TLC

Symmetry == Permutations(Resource) \cup Permutations(Name) \cup Permutations(Value)
=============================================================================
