-------------------------------- MODULE MCServer --------------------------------
(* An instance of Server for TLC: the keys of one or more leaves. *)
EXTENDS Server

LeafKeys   == Signals \X {"value", "targetValue"}
TargetKeys == Signals \X {"targetValue"}
=============================================================================
