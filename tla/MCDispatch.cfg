\* Two clients that write up to two requests before they read; one may close or
\* lose its connection at any moment.
SPECIFICATION Spec
CONSTANTS
    c1 = c1
    c2 = c2
    None = None
    Clients = {c1, c2}
    Kinds = {"reply", "throws", "kill"}
    Leavers = {c2}
    MaxRequests = 2
    Window = 2
    WireCap = 1
    ReplyCap = 2
INVARIANTS
    TypeOK
    Lossless
    NoLostWakeup
    NoLostUpdate
    RepliesInOrder
    SendNeverBlocks
PROPERTIES
    ImplementsRequestReply
\* Clients may stop writing, and the process may die.
CHECK_DEADLOCK FALSE
