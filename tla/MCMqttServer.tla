----------------------------- MODULE MCMqttServer -----------------------------
(***************************************************************************)
(* TLC instances of MqttServer. Connections are interchangeable.           *)
(***************************************************************************)
EXTENDS MqttServer, TLC

ConnSymmetry == Permutations(Conns)
=============================================================================
