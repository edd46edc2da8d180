\* Two clients of the library and one that may never send its id.
SPECIFICATION FairSpec
CONSTANTS
    c1 = c1
    c2 = c2
    c3 = c3
    Main = Main
    Self = Self
    None = None
    Clients = {c1, c2, c3}
    Mute = {c3}
INVARIANTS
    TypeOK
    RunsForever
    SaveOnlyOnTimeout
    ReadyIsRegistered
PROPERTIES
    ShutdownEnds
    HandshakeEnds
\* The process may die, or wait for a mute client for ever.
CHECK_DEADLOCK FALSE
