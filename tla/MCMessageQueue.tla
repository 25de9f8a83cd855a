-------------------------- MODULE MCMessageQueue --------------------------
(* Two hosts that call once each, and two calls from the audio thread.     *)
EXTENDS MessageQueue, TLC
CONSTANTS h1, h2
MCMaxRequests == (h1 :> 1) @@ (h2 :> 1) @@ (Audio :> 2)
=============================================================================
