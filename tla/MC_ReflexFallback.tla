------------------------- MODULE MC_ReflexFallback -------------------------
(* ReflexFallback with a request of four chunks, two of them peeked, and *)
(* a response of three chunks.                                               *)
EXTENDS ReflexFallbackRefinement
=============================================================================
