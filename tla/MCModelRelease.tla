---------------------------- MODULE MCModelRelease ----------------------------
(* Model values and symmetry for the runs of ModelRelease.                 *)
EXTENDS ModelRelease, TLC

Symmetry == Permutations(Models \ {Base}) \union Permutations(Requests)
=============================================================================
