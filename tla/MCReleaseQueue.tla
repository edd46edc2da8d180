-------------------------- MODULE MCReleaseQueue ----------------------------
(* ReleaseQueue for TLC. *)
EXTENDS ReleaseQueue, TLC

=============================================================================
