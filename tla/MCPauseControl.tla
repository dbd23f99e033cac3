-------------------------- MODULE MCPauseControl --------------------------
(* TLC instance of PauseControl.                                           *)
EXTENDS PauseControl, TLC

Symm == Permutations(Procs \ {Root}) \cup Permutations(Requests)
=============================================================================
