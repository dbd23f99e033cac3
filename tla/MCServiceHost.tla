--------------------------- MODULE MCServiceHost ---------------------------
(* TLC instance of ServiceHost.                                            *)
EXTENDS ServiceHost
=============================================================================
