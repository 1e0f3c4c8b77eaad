------------------------------ MODULE TeamsMC ------------------------------
(* Teams for TLC.  Nothing tells users, organizations, teams, names or call   *)
(* slots apart but what they do.                                              *)
EXTENDS Teams, TLC

Symmetry ==
    Permutations(User) \cup Permutations(Org) \cup Permutations(Team)
    \cup Permutations(Name) \cup Permutations(Call)
=============================================================================
