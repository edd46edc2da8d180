---------------------------- MODULE MCShutdown ------------------------------
(* Shutdown for TLC: clients that are not mute are interchangeable. *)
EXTENDS Shutdown, TLC

=============================================================================
