------------------------------ MODULE MCBridge -------------------------------
(* Values for TLC: events to pass on, whose order can be told, with one  *)
(* of a kind the bridge drops between them.                              *)
EXTENDS Bridge

MCScript == <<"motion", "device", "button">>
=============================================================================
