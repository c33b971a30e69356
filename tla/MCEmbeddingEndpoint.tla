------------------------ MODULE MCEmbeddingEndpoint ------------------------
(* Limits for the run of EmbeddingEndpoint.                                *)
EXTENDS EmbeddingEndpoint

Limits == [l \in {"search", "video_preprocess"} |-> IF l = "search" THEN 2 ELSE 1]
Retries == [l \in {"search", "video_preprocess"} |-> IF l = "search" THEN 1 ELSE 0]
=============================================================================
