SPECIFICATION Spec
CONSTANTS
    Protocols = {p1, p2}
    Chatty = {p1, p2}
    None = None
INVARIANTS OneClient NoUseAfterFree AutosendIsServed
PROPERTY EveryLoginAnswered
CHECK_DEADLOCK FALSE
