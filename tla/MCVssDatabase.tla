----------------------------- MODULE MCVssDatabase -----------------------------
(* Instances of VssDatabase with the MQTT publisher, for TLC. *)
EXTENDS MQTTPublisher
=============================================================================
