---------------------------- MODULE MCCandidate ----------------------------
(* Two sessions that compete for the collector, the route and the socket.   *)
EXTENDS Candidate, TLC

Symmetric == Permutations(Sessions) \cup Permutations(Routes)
=============================================================================
