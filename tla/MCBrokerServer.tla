--------------------------- MODULE MCBrokerServer ---------------------------
(* Instance of BrokerServer: one worker and one busy response at a time. *)
EXTENDS BrokerServer, TLC
=============================================================================
