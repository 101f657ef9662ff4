---------------------------- MODULE MCTurnProtocol ----------------------------
(* Model-checking definitions for TurnProtocol. *)
EXTENDS TurnProtocol, TLC

\* Threads and uuids are interchangeable.  (Not used with liveness.)
Symmetry == Permutations(Thread) \cup Permutations(Uuid)
=============================================================================
