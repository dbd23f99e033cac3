-------------------------- MODULE MCControlChannel --------------------------
(* TLC instance of ControlChannel.                                         *)
EXTENDS ControlChannel
=============================================================================
