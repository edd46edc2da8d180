\* Every model with one attribute and one general per classifier, and a fan.
SPECIFICATION FairSpec
CONSTANTS
    c1 = c1
    c2 = c2
    c3 = c3
    p1 = p1
    p2 = p2
    o1 = o1
    n1 = n1
    n2 = n2
    Classifiers = {c1, c2, c3}
    Packages = {p1, p2}
    Others = {o1}
    BuiltIn = {c3}
    Names = {n1, n2}
    Models <- SmallModels
INVARIANTS
    TypeOK
    OneToOne
    TracksReachable
PROPERTY WalkEnds
\* The constructor ends.
CHECK_DEADLOCK FALSE
