CONSTANTS
    Ids = {"a", "b", "x"}
    Drawn <- MCDrawn
    Elements = {"e"}
    Types = {"Node", "Tree", "Leaf", "Counter"}
    SetProps = {"next", "first", "root"}
    DataProps = {"name", "count"}
    Unnatural = {"count"}
    Attributes <- MCAttributes
    Generals <- MCGenerals
    Subsetted <- MCSubsetted
    Singletons = {"root"}
    DefaultOf <- MCDefaultOf
    Members = {"b"}
    Values = {""}
    Zero = ""
    None = "None"
SPECIFICATION Spec
INVARIANTS
    TypeOK
    TwinsAgree
    SlotsFollowSets
    SaveIsComplete
    SaveFindsElements
    NoHangingReferences
