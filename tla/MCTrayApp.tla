------------------------------ MODULE MCTrayApp ------------------------------
(* Model-checking definitions for TrayApp. *)
EXTENDS TrayApp

CONSTANTS t1, p2

\* An empty environment, and one that has both settings.
MCEnv == {[token |-> None, port |-> None], [token |-> t1, port |-> p2]}
=============================================================================
