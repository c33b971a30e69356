-------------------------- MODULE MCLegacyReindex --------------------------
(* Projects and sizes of the videos for the runs of LegacyReindex.         *)
EXTENDS LegacyReindex

CONSTANTS v1, v2, p1, p2
Owners == (v1 :> p1) @@ (v2 :> p2)
Sizes == (v1 :> 2) @@ (v2 :> 1)
Owner == v1 :> p1
Size == v1 :> 1
=============================================================================
