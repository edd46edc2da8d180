\* The terminate message against the acceptor.
SPECIFICATION FairSpec
CONSTANTS
    c1 = c1
    Main = Main
    Self = Self
    None = None
    Clients = {c1}
    Mute = {}
PROPERTIES
    AcceptorStops
\* The process may die, or wait for a mute client for ever.
CHECK_DEADLOCK FALSE
