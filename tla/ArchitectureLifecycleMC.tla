---------------------- MODULE ArchitectureLifecycleMC ----------------------
(* ArchitectureLifecycle for TLC.  Users, architectures and slots differ in   *)
(* what they do only.                                                         *)
EXTENDS ArchitectureLifecycle, TLC

Symmetry == Permutations(User) \cup Permutations(Arch) \cup Permutations(Slot)
=============================================================================
