----------------------------- MODULE MCFraming -----------------------------
(* Framing for TLC: the sizes of the messages, and the operating systems. *)
EXTENDS Framing

ThreeSizes == <<4, 0, 2>>

AllSystems ==
    [shortSends : BOOLEAN, shortHeaders : BOOLEAN, breaks : BOOLEAN]
=============================================================================
