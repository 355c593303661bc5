----------------------------- MODULE MCMqttSession -----------------------------
(***************************************************************************)
(* TLC instances of MqttSession.                                           *)
(***************************************************************************)
EXTENDS MqttSession
=============================================================================
