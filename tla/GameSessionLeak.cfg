SPECIFICATION Spec
CONSTANTS
    Protocols = {p1, p2}
    None = None
    Chatty = {p1, p2}
INVARIANT PlayerNotLeaked
CHECK_DEADLOCK FALSE
