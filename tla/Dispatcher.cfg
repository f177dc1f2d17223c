\* Three tasks (one delivered by the scheduler), two posting threads besides the worker.
SPECIFICATION Spec
CONSTANTS
    Tasks = {t1, t2, t3}
    TimerTasks = {t3}
    Posters = {p1, p2}
    Worker = worker
    Halt = halt
INVARIANTS
    DrainedAtExit
PROPERTIES
    EveryTaskServed
\* The worker ends for good once it has been shut down.
CHECK_DEADLOCK FALSE
