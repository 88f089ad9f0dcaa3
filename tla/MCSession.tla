------------------------------ MODULE MCSession ------------------------------
(* The session and its Realtime Plane on small instances. *)
EXTENDS SessionExchange, TLC

Same == Permutations(Settings) \cup Permutations(Values)

\* Answers no Realtime Plane should give: one without the frame that was due, but
\* with one about another session.
Never == {}
Incomplete == {<<[kind |-> "OTHER", through |-> 0]>>}

SameTiles == Permutations(Tiles)
=============================================================================
