\* Three queries from two threads, one of them also flushing and shutting down.
SPECIFICATION Spec
CONSTANTS
    Queries = {q1, q2, q3}
    Callbacks = {q1}
    Callers = {dispatcher, network}
    Dispatcher = dispatcher
INVARIANTS
    ExecutedInOrder
    DrainedAtJoin
PROPERTIES
    FlushIsComplete
    EveryQueryExecuted
\* The thread ends once it has been shut down.
CHECK_DEADLOCK FALSE
