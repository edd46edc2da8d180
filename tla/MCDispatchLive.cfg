\* More requests outstanding than the reply buffer holds: the clients have
\* to go on reading.
SPECIFICATION ReadingSpec
CONSTANTS
    c1 = c1
    c2 = c2
    None = None
    Clients = {c1, c2}
    Kinds = {"reply", "silent", "empty"}
    Leavers = {}
    MaxRequests = 2
    Window = 2
    WireCap = 1
    ReplyCap = 1
PROPERTIES
    EveryMessageServed
\* Clients may stop writing, and the process may die.
CHECK_DEADLOCK FALSE
