------------------------------ MODULE MCMqttLink ------------------------------
(* An instance of MqttLink for TLC. *)
EXTENDS MqttLink
=============================================================================
