---------------------------- MODULE MCDispatch ------------------------------
(* Dispatch for TLC. *)
EXTENDS Dispatch, TLC

=============================================================================
