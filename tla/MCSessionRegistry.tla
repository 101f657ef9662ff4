-------------------------- MODULE MCSessionRegistry --------------------------
(* Model-checking definitions for SessionRegistry. *)
EXTENDS SessionRegistry, TLC

\* Threads and sids are interchangeable.  (Objects are, too, but allocation takes
\* a certain one, which leaves little to reduce.  Not used with liveness.)
ActorSymmetry == Permutations(Thread) \cup Permutations(Sid)
=============================================================================
