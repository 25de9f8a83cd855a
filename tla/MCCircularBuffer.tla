-------------------------- MODULE MCCircularBuffer --------------------------
(* Instance of CircularBuffer for TLC: the bounds are in the configuration. *)
EXTENDS CircularBuffer
=============================================================================
