------------------------ MODULE MCMetaElementStore ------------------------
(***************************************************************************)
(* A Node has a name and a set of next nodes, with a subset that by        *)
(* default holds an instance somebody drew, as the root of a Tree does.  A *)
(* Leaf inherits from Tree and so cannot be created to the end, nor can a  *)
(* Counter, for its unlimited natural.  That somebody drew a Leaf is no    *)
(* obstacle.                                                               *)
(***************************************************************************)
EXTENDS MetaElementStore, TLC

MCDrawn == "x" :> "Leaf"

MCAttributes ==
    ("Node" :> {"next", "first", "name"}) @@ ("Tree" :> {"root"}) @@
    ("Leaf" :> {}) @@ ("Counter" :> {"count"})

MCGenerals ==
    ("Node" :> {}) @@ ("Tree" :> {}) @@ ("Leaf" :> {"Tree"}) @@
    ("Counter" :> {})

MCSubsetted == ("next" :> {}) @@ ("first" :> {"next"}) @@ ("root" :> {})

MCDefaultOf ==
    [p \in {"next", "first", "root", "name", "count"} |->
        IF p \in {"first", "root"} THEN "x" ELSE "None"]

=============================================================================
