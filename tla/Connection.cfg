SPECIFICATION Spec
CONSTANTS
    Messages = {m1, m2}
INVARIANTS WriteMatchesQueue SentInOrder NeverUntimed
PROPERTIES ClosedIsFreed ImplementsLife
CHECK_DEADLOCK FALSE
