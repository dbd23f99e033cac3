--------------------------- MODULE MCSupervisor ---------------------------
(* TLC instance of Supervisor.                                             *)
EXTENDS Supervisor
=============================================================================
