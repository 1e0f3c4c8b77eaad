--------------------------- MODULE EditorStoreMC ---------------------------
(* EditorStore for TLC.  A job is a slot for a running function and nothing   *)
(* orders the slots, so they may be permuted where no liveness is checked.    *)
EXTENDS EditorStore, TLC

Symmetry == Permutations(Job)
=============================================================================
