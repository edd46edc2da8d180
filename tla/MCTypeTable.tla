---------------------------- MODULE MCTypeTable ----------------------------
(* TypeTable for TLC: the UML models to start from. *)
EXTENDS TypeTable, TLC

CONSTANTS c1, c2, c3, p1, p2, o1, n1, n2

AtMostOne(S) == {{}} \cup {{s} : s \in S}

\* A package with a package in it and some of the classifiers, the others
\* owned elsewhere.
Trees ==
    {p1 :> {p2} \cup s @@ p2 :> t :
        s \in {{c1}, {c1, o1}}, t \in {{}, {c2}, {c2, c3}}}

\* Attributes and generals may go from any classifier to any, itself included.
AllModels ==
    [root : {p1, c1},
     contents : Trees,
     types : [{c1, c2, c3} -> AtMostOne({c1, c2, c3})],
     generals : [{c1, c2, c3} -> AtMostOne({c1, c2, c3})],
     name : {c1 :> n1 @@ c2 :> n2 @@ c3 :> n1}]

\* One class with attributes of two types and two generals.
FanModels ==
    [root : {p1, c1},
     contents : {p1 :> {p2, c3, o1} @@ p2 :> {c1}},
     types : {[c \in {c1, c2, c3} |-> IF c = c1 THEN {c2, c3} ELSE {c1}]},
     generals : {[c \in {c1, c2, c3} |-> IF c = c1 THEN {c1, c2} ELSE s] :
                    s \in SUBSET {c2, c3}},
     name : {c1 :> n1 @@ c2 :> n2 @@ c3 :> n1}]

SmallModels == AllModels \cup FanModels

=============================================================================
