-------------------------- MODULE MCProjectSearch --------------------------
(* The actors for the runs of ProjectSearch.                               *)
EXTENDS ProjectSearch

CONSTANTS v1, v2, d1, d2, r1, r2, like, dislike
=============================================================================
