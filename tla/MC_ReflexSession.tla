------------------------- MODULE MC_ReflexSession -------------------------
(* Model-checking instance of ReflexSession: the two ends of one           *)
(* connection, and the writer goroutines of one Session.                  *)
EXTENDS ReflexSessionRefinement

\* handleSession is the only goroutine that writes on the server's Session.
MC_OneWriter == {"w1"}

=============================================================================
