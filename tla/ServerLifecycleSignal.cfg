\* SIGINT shuts the server down: violated, a join can hang.
SPECIFICATION ServerSpec
CONSTANTS
    SignalTask = sigint
    GameShutdown = gameShutdown
    Halt = halt
    NetTasks = {n1}
    TimerTasks = {t1}
    Queries = {q1}
    CallbackTask = callback
    Callbacks = {q1}
    Worker = worker
    Network = network
    SchedThread = schedThread
    DbThread = dbThread
    MaxTime = 1
\* The process exits.
CHECK_DEADLOCK FALSE
PROPERTIES SignalShutsDown
