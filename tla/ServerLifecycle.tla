-------------------------- MODULE ServerLifecycle ---------------------------
(***************************************************************************)
(* The running server and its shutdown: the dispatcher, the scheduler and  *)
(* the query queue put together, with the network thread that receives the *)
(* signal and the main thread that joins them (engine/src/otserv.cpp,      *)
(* signals.cpp, game.cpp).                                                 *)
(*                                                                         *)
(* What the three components leave open is closed here: the scheduler      *)
(* thread delivers into the dispatcher's list, callbacks of queries do so  *)
(* too, and the dispatcher thread calls into the other two only from the   *)
(* task it is running.  Two tasks have a script: the handler of the signal *)
(* (Game::setGameState(GAME_STATE_SHUTDOWN)) and Game::shutdown.           *)
(***************************************************************************)
EXTENDS Naturals, Sequences, FiniteSets

CONSTANTS SignalTask,    \* sigintHandler or sigtermHandler
          GameShutdown,  \* the task that runs Game::shutdown
          Halt,          \* the task of Dispatcher::shutdown
          NetTasks,      \* requests posted by the network thread
          TimerTasks,    \* SchedulerTasks
          Queries,       \* asynchronous queries
          CallbackTask,  \* the task made of the callback of a query
          Callbacks,     \* the queries posted with a callback, at most one
          Worker, Network, SchedThread, DbThread,
          MaxTime

\* The tasks with a script and the timers are objects of their own, and the
\* dispatcher is not one of the other threads.
ASSUME LifecycleAssumption ==
    /\ TimerTasks \cap ({SignalTask, GameShutdown, CallbackTask, Halt} \cup NetTasks) = {}
    /\ GameShutdown \notin {SignalTask, CallbackTask, Halt} \cup NetTasks
    /\ Halt \notin {SignalTask, CallbackTask} \cup NetTasks
    /\ SignalTask \notin {CallbackTask} \cup NetTasks
    /\ IsFiniteSet(TimerTasks) /\ TimerTasks # {} /\ Callbacks \subseteq Queries
    /\ Worker \notin {Network, SchedThread, DbThread} /\ MaxTime \in Nat

VARIABLES dState, taskList, dPc, current, dSignalled, posting, dAccepted, dDeleted,
          schedState, eventList, eventIds, lastEventId, eventId, cycle, now,
          sPc, deadline, sSignalled, sOwing, sHand, posted, sDeleted, stopped, sClosing,
          dbState, queries, qPc, qHand, qSignalled, qOwing, qClosing, qAccepted,
          executed, calledBack,
          saving,   \* progress of saveGameState in the scripted task that is running
          mainPc    \* the main thread: in io_service.run(), then in its three joins

dvars == <<dState, taskList, dPc, current, dSignalled, posting, dAccepted, dDeleted>>
svars == <<schedState, eventList, eventIds, lastEventId, eventId, cycle, now, sPc, deadline,
           sSignalled, sOwing, sHand, posted, sDeleted, stopped, sClosing>>
qvars == <<dbState, queries, qPc, qHand, qSignalled, qOwing, qClosing, qAccepted,
           executed, calledBack>>
serverVars == <<dvars, svars, qvars, saving, mainPc>>

Disp == INSTANCE Dispatcher WITH
        Tasks <- {SignalTask, GameShutdown, CallbackTask} \cup NetTasks \cup TimerTasks,
        Posters <- {Network, SchedThread, DbThread},
        threadState <- dState, pc <- dPc, signalled <- dSignalled,
        accepted <- dAccepted, deleted <- dDeleted
Sched == INSTANCE Scheduler WITH
        Tasks <- TimerTasks, Callers <- {Worker},
        MaxEventId <- Cardinality(TimerTasks),
        pc <- sPc, signalled <- sSignalled, owing <- sOwing, hand <- sHand,
        deleted <- sDeleted, closing <- sClosing
Dbase == INSTANCE DatabaseTasks WITH
        Callers <- {Worker}, Dispatcher <- Worker,
        tasks <- queries, pc <- qPc, hand <- qHand, signalled <- qSignalled,
        owing <- qOwing, closing <- qClosing, accepted <- qAccepted

Threads == {Worker, Network, SchedThread, DbThread}

ServerInit == Disp!Init /\ Sched!Init /\ Dbase!Init /\ saving = "no" /\ mainPc = "running"
-----------------------------------------------------------------------------
\* Every thread runs on its own unless it is inside a call into another component.
DispatcherThread ==
    /\ Disp!CheckState \/ Disp!BeginWait \/ Disp!TakeTask \/ Disp!Wake
    /\ UNCHANGED <<svars, qvars, saving, mainPc>>

SchedulerThread ==
    /\ SchedThread \notin posting
    /\ Sched!CheckState \/ Sched!Block \/ Sched!WakeUntimed \/ Sched!WakeTimed
    /\ UNCHANGED <<dvars, qvars, saving, mainPc>>

DatabaseThread ==
    /\ DbThread \notin posting
    /\ Dbase!CheckState \/ Dbase!BeginWait \/ Dbase!TakeTask \/ Dbase!Wake \/ Dbase!Execute("thread")
    /\ UNCHANGED <<dvars, svars, saving, mainPc>>

\* The notify_one at the end of the three functions that post work.
NotifyDispatcher(p) == Disp!NotifyWorker(p) /\ UNCHANGED <<svars, qvars, saving, mainPc>>
NotifyScheduler == Sched!NotifyScheduler(Worker) /\ UNCHANGED <<dvars, qvars, saving, mainPc>>
NotifyDatabase == Dbase!NotifyThread(Worker) /\ UNCHANGED <<dvars, svars, saving, mainPc>>

Clock == Sched!Tick /\ UNCHANGED <<dvars, qvars, saving, mainPc>>

\* threadMain of the scheduler hands a due event to the dispatcher.
DeliverTimer ==
    /\ Sched!Deliver
    /\ \E t \in sHand : Disp!AddTask(SchedThread, t)
    /\ UNCHANGED <<qvars, saving, mainPc>>

\* runTask hands the callback of a query to the dispatcher, if it has one.
DeliverCallback(r, p) ==
    /\ Dbase!PostCallback(r)
    /\ IF qHand[r] \subseteq Callbacks THEN Disp!AddTask(p, CallbackTask) ELSE UNCHANGED dvars
    /\ UNCHANGED <<svars, saving, mainPc>>

\* The network thread posts a request, or the handler of SIGINT and SIGTERM.
Receive(t) ==
    /\ mainPc = "running"
    /\ Disp!AddTask(Network, t)
    /\ UNCHANGED <<svars, qvars, saving, mainPc>>
-----------------------------------------------------------------------------
\* The dispatcher thread is inside task t and has returned from its last call.
Running(t) ==
    /\ dPc = "run" /\ current = {t}
    /\ Worker \notin posting \cup sOwing \cup qOwing
    /\ qPc["flusher"] = "idle"

\* An ordinary task may set a timer and post queries.
SetTimer(t, due) ==
    /\ \E x \in NetTasks \cup TimerTasks \cup {CallbackTask} : Running(x)
    /\ Sched!AddEvent(Worker, t, due)
    /\ UNCHANGED <<dvars, qvars, saving, mainPc>>

PostQuery(q) ==
    /\ \E x \in NetTasks \cup TimerTasks \cup {CallbackTask} : Running(x)
    /\ Dbase!AddTask(Worker, q)
    /\ UNCHANGED <<dvars, svars, saving, mainPc>>

\* saveGameState: the synchronous saves, then flush().
SaveBegin ==
    /\ Running(SignalTask) \/ Running(GameShutdown)
    /\ saving = "no" /\ saving' = "flushing"
    /\ Dbase!FlushBegin
    /\ UNCHANGED <<dvars, svars, mainPc>>

FlushStep ==
    /\ Worker \notin posting
    /\ Dbase!FlushTake \/ Dbase!Execute("flusher")
    /\ UNCHANGED <<dvars, svars, saving, mainPc>>

FlushEnds ==
    /\ Worker \notin posting
    /\ Dbase!FlushReturn
    /\ saving' = "done"
    /\ UNCHANGED <<dvars, svars, mainPc>>

\* setGameState(GAME_STATE_SHUTDOWN) once the world is saved, line by line.
PostShutdown ==
    /\ Running(SignalTask) /\ saving = "done"
    /\ Disp!AddTask(Worker, GameShutdown)
    /\ UNCHANGED <<svars, qvars, saving, mainPc>>

StopScheduler ==
    /\ Running(SignalTask) /\ GameShutdown \in Disp!Created
    /\ Sched!Stop
    /\ UNCHANGED <<dvars, qvars, saving, mainPc>>

StopDatabase ==
    /\ Running(SignalTask) /\ schedState = "CLOSING"
    /\ Dbase!Stop
    /\ UNCHANGED <<dvars, svars, saving, mainPc>>

StopDispatcher ==
    /\ Running(SignalTask) /\ dbState = "CLOSING"
    /\ Disp!Stop
    /\ UNCHANGED <<svars, qvars, saving, mainPc>>

\* Game::shutdown once the world is saved, call by call.
ShutdownScheduler ==
    /\ Running(GameShutdown) /\ saving = "done"
    /\ Sched!ShutdownState \/ Sched!ShutdownClear \/ Sched!ShutdownNotify
    /\ UNCHANGED <<dvars, qvars, saving, mainPc>>

ShutdownDatabase ==
    /\ Running(GameShutdown) /\ sClosing = "notified"
    /\ Dbase!ShutdownState \/ Dbase!ShutdownNotify
    /\ UNCHANGED <<dvars, svars, saving, mainPc>>

ShutdownDispatcher ==
    /\ Running(GameShutdown) /\ qClosing = "done"
    /\ Disp!Shutdown(Worker)
    /\ UNCHANGED <<svars, qvars, saving, mainPc>>

\* A scripted task returns at its end, an ordinary one at any time.
ScriptDone ==
    /\ current = {SignalTask} => dState = "CLOSING"
    /\ current = {GameShutdown} => Halt \in Disp!Created

EndTask ==
    /\ \E x \in current : Running(x)
    /\ ScriptDone
    /\ Disp!FinishTask
    /\ saving' = "no"
    /\ UNCHANGED <<svars, qvars, mainPc>>
-----------------------------------------------------------------------------
\* ServiceManager::stop, called by Game::shutdown, ends run() three seconds later.
MainLeavesRun ==
    /\ mainPc = "running"
    /\ GameShutdown \in dDeleted
    /\ mainPc' = "joinScheduler"
    /\ UNCHANGED <<dvars, svars, qvars, saving>>

MainJoins ==
    /\ \/ mainPc = "joinScheduler" /\ sPc = "done" /\ mainPc' = "joinDatabase"
       \/ mainPc = "joinDatabase" /\ qPc["thread"] = "done" /\ mainPc' = "joinDispatcher"
       \/ mainPc = "joinDispatcher" /\ dPc = "done" /\ mainPc' = "exited"
    /\ UNCHANGED <<dvars, svars, qvars, saving>>
-----------------------------------------------------------------------------
Script ==
    \/ SaveBegin \/ FlushStep \/ FlushEnds \/ DeliverCallback("flusher", Worker)
    \/ PostShutdown \/ StopScheduler \/ StopDatabase \/ StopDispatcher
    \/ ShutdownScheduler \/ ShutdownDatabase \/ ShutdownDispatcher

ServerNext ==
    \/ DispatcherThread \/ SchedulerThread \/ DatabaseThread
    \/ \E p \in Threads : NotifyDispatcher(p)
    \/ NotifyScheduler \/ NotifyDatabase
    \/ Clock
    \/ DeliverTimer \/ DeliverCallback("thread", DbThread)
    \/ \E t \in NetTasks \cup {SignalTask} : Receive(t)
    \/ \E t \in TimerTasks, due \in 0 .. MaxTime : SetTimer(t, due)
    \/ \E q \in Queries : PostQuery(q)
    \/ Script
    \/ EndTask
    \/ MainLeavesRun \/ MainJoins

(* Every thread is scheduled and every task returns; a wake-up counts only *)
(* if it was caused by a notify or by the deadline.                        *)
ServerFairness ==
    /\ WF_serverVars(DispatcherThread /\ (dPc = "waiting" => dSignalled))
    /\ WF_serverVars(SchedulerThread /\ (Sched!Blocked => sSignalled \/ (sPc = "timed" /\ Sched!TimedOut)))
    /\ WF_serverVars(DatabaseThread /\ (qPc["thread"] = "waiting" => qSignalled))
    /\ \A p \in Threads : WF_serverVars(NotifyDispatcher(p))
    /\ WF_serverVars(NotifyScheduler) /\ WF_serverVars(NotifyDatabase)
    /\ WF_serverVars(DeliverTimer) /\ WF_serverVars(DeliverCallback("thread", DbThread))
    /\ WF_serverVars(Script) /\ WF_serverVars(EndTask)
    /\ WF_serverVars(MainLeavesRun) /\ WF_serverVars(MainJoins)
    /\ WF_serverVars(Clock)

ServerSpec == ServerInit /\ [][ServerNext]_serverVars /\ ServerFairness
-----------------------------------------------------------------------------
ServerTypeOK ==
    /\ Disp!TypeOK /\ Sched!TypeOK /\ Dbase!TypeOK
    /\ saving \in {"no", "flushing", "done"}
    /\ mainPc \in {"running", "joinScheduler", "joinDatabase", "joinDispatcher", "exited"}

(* The components hand over to each other and end in order.                *)
(*  - The dispatcher has a SchedulerTask, queued, running or deleted,       *)
(*    exactly if the scheduler gave it away.                                *)
(*  - No timer runs after Game::shutdown has torn the world down (spawns,   *)
(*    raids, cleanup): those still queued jump in front of it, later ones   *)
(*    are refused.                                                          *)
(*  - When the process exits nothing is left behind: every accepted query   *)
(*    has been executed, every accepted task has run, no timer is queued.   *)
OrderlyEnd ==
    /\ ServerTypeOK
    /\ \A t \in TimerTasks : t \in Disp!Created <=> t \in posted
    /\ GameShutdown \in dDeleted => TimerTasks \cap (current \cup Disp!Elems(taskList)) = {}
    /\ mainPc = "exited" =>
          /\ Disp!Elems(qAccepted) \subseteq Disp!Elems(executed)
          /\ Disp!Elems(dAccepted) \subseteq dDeleted
          /\ taskList = <<>> /\ eventList = {}

(* The dispatcher thread ends after a signal it accepted, whatever timers,  *)
(* queries and requests are under way.                                      *)
GameThreadEnds == SignalTask \in Disp!Elems(dAccepted) ~> dPc = "done"

(* SIGINT shuts the server down (the comment at signals.cpp:88): once its   *)
(* handler has been accepted the process exits.                             *)
SignalShutsDown == SignalTask \in Disp!Elems(dAccepted) ~> mainPc = "exited"
=============================================================================
