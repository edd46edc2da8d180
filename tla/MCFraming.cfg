\* Texts arrive in any pieces, and the connection may do anything.
SPECIFICATION FairSpec
CONSTANTS
    Sizes <- ThreeSizes
    HeaderLen = 2
    Capacity = 3
    Systems <- AllSystems
    MaxGarbage = 1
    Wrap = 6
INVARIANTS
    TypeOK
    ReceivedIsSent
    NeverOverruns
    SpinsOnlyOnCutMessage
PROPERTY AllArrive
\* The sender has a last message, and a connection may break.
CHECK_DEADLOCK FALSE
