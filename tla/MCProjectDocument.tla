------------------------- MODULE MCProjectDocument -------------------------
(* Two meta elements of one manager, one of which takes the other, and one *)
(* of another manager.                                                     *)
EXTENDS ProjectDocument

CONSTANTS m, n, i, j, k

MCManagerOf == [x \in Ids |-> IF x = k THEN n ELSE m]

MCTakes == [x \in Ids |-> IF x = j THEN {i} ELSE {}]

=============================================================================
