\* Three timers, two calling threads; ids wrap after two, the clock stops after one tick.
SPECIFICATION Spec
CONSTANTS
    Tasks = {t1, t2, t3}
    Callers = {dispatcher, network}
    MaxEventId = 2
    MaxTime = 1
INVARIANTS
    NoOversleep
PROPERTIES
    EveryEventResolved
    ImplementsTimers
\* The clock is bounded and the thread may end.
CHECK_DEADLOCK FALSE
