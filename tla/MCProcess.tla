------------------------------ MODULE MCProcess ------------------------------
(* The Realtime Plane process and its hosts on small instances. *)
EXTENDS Process, TLC

Same == Permutations(Hosts) \cup Permutations(Pids)
=============================================================================
