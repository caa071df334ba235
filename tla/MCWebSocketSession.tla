-------------------------- MODULE MCWebSocketSession --------------------------
(* Instances of WebSocketSession for TLC. *)
EXTENDS WebSocketSession
=============================================================================
