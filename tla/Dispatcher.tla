----------------------------- MODULE Dispatcher -----------------------------
(***************************************************************************)
(* The dispatcher: one thread that runs every game action in the order of  *)
(* a shared task list (engine/src/tasks.cpp, thread_holder_base.h).        *)
(*                                                                         *)
(* Any thread posts with addTask: the list changes under taskLock, and the *)
(* condition variable is notified after the lock is released, by the       *)
(* posting thread, only when it found the list empty.  The two halves are  *)
(* two actions here (AddTask, NotifyWorker), so every interleaving of the  *)
(* gap is explored.  A section under taskLock is one action; the thread    *)
(* state is an atomic read outside the lock and is a step of its own.      *)
(***************************************************************************)
EXTENDS Naturals, Sequences, FiniteSets

CONSTANTS Tasks,       \* the Task objects the program creates, Halt apart
          TimerTasks,  \* those delivered by the scheduler: pushed in front
          Posters,     \* the threads that post, the worker apart
          Worker,      \* the dispatcher thread, which posts while it runs a task
          Halt         \* the task that Dispatcher::shutdown() creates

ASSUME ConstantsDistinct ==
    /\ TimerTasks \subseteq Tasks
    /\ Halt \notin Tasks
    /\ Worker \notin Posters

VARIABLES threadState,  \* ThreadHolder::threadState
          taskList,     \* the list, front first
          pc,           \* where the worker is in threadMain
          current,      \* {task} between pop_front and delete, {} otherwise
          signalled,    \* a notify has reached the waiting worker
          posting,      \* threads past unlock that still owe a notify_one
          accepted,     \* history: back-pushed tasks, in order of acceptance
          deleted       \* Task objects destroyed

vars == <<threadState, taskList, pc, current, signalled, posting,
          accepted, deleted>>

AllTasks == Tasks \cup {Halt}
Threads  == Posters \cup {Worker}
Elems(s) == {s[i] : i \in DOMAIN s}
Created  == Elems(taskList) \cup current \cup deleted

Init ==
    /\ threadState = "RUNNING"
    /\ taskList = <<>>
    /\ pc = "check"
    /\ current = {}
    /\ signalled = FALSE
    /\ posting = {}
    /\ accepted = <<>>
    /\ deleted = {}
-----------------------------------------------------------------------------
(* A thread is able to call into the dispatcher: the worker only from      *)
(* inside the task it is running, any thread only after its last notify.   *)
CanCall(p) == p \notin posting /\ (p = Worker => pc = "run")

\* do_signal: only the thread that finds the list empty notifies.
MustSignal_Never == FALSE
MustSignal == taskList = <<>>

\* push_front for the scheduler's tasks, push_back for all others.
Placed(t) ==
    IF t \in TimerTasks THEN <<t>> \o taskList ELSE Append(taskList, t)

Discard(t) == deleted' = deleted \cup {t}

\* addTask: a task that finds the dispatcher not RUNNING is deleted unrun.
AddTask(p, t) ==
    /\ CanCall(p)
    /\ t \notin Created
    /\ IF threadState = "RUNNING"
         THEN /\ taskList' = Placed(t)
              /\ accepted' = IF t \in TimerTasks THEN accepted
                                                 ELSE Append(accepted, t)
              /\ posting' = IF MustSignal THEN posting \cup {p} ELSE posting
              /\ UNCHANGED deleted
         ELSE /\ Discard(t)
              /\ UNCHANGED <<taskList, accepted, posting>>
    /\ UNCHANGED <<threadState, pc, current, signalled>>

\* notify_one: lost unless the worker is blocked in wait.
NotifyWorker(p) ==
    /\ p \in posting
    /\ posting' = posting \ {p}
    /\ signalled' = (signalled \/ pc = "waiting")
    /\ UNCHANGED <<threadState, taskList, pc, current, accepted, deleted>>

\* ThreadHolder::stop, called by the worker inside setGameState(SHUTDOWN).
Stop ==
    /\ CanCall(Worker)
    /\ threadState = "RUNNING" /\ Halt \notin Created
    /\ threadState' = "CLOSING"
    /\ UNCHANGED <<taskList, pc, current, signalled, posting, accepted, deleted>>

\* The halting task goes behind everything accepted so far.
WithHalt_Front == <<Halt>> \o taskList
WithHalt == Append(taskList, Halt)

\* shutdown(): by the worker inside Game::shutdown after Stop, or by the main
\* thread when the server did not start.  Push and notify are both under the lock.
Shutdown(p) ==
    /\ CanCall(p)
    /\ Halt \notin Created
    /\ threadState = IF p = Worker THEN "CLOSING" ELSE "RUNNING"
    /\ taskList' = WithHalt
    /\ accepted' = Append(accepted, Halt)
    /\ signalled' = (signalled \/ pc = "waiting")
    /\ UNCHANGED <<threadState, pc, current, posting, deleted>>
-----------------------------------------------------------------------------
\* The loop condition, read without the lock.
CheckState ==
    /\ pc = "check"
    /\ pc' = IF threadState = "TERMINATED" THEN "done" ELSE "lock"
    /\ UNCHANGED <<threadState, taskList, current, signalled, posting,
                   accepted, deleted>>

PopFront ==
    /\ current' = {Head(taskList)}
    /\ taskList' = Tail(taskList)
    /\ pc' = "run"
    /\ UNCHANGED <<threadState, posting, accepted, deleted>>

\* The list is empty: unlock and block, atomically.
BeginWait ==
    /\ pc = "lock" /\ taskList = <<>>
    /\ pc' = "waiting"
    /\ signalled' = FALSE
    /\ UNCHANGED <<threadState, taskList, current, posting, accepted, deleted>>

TakeTask ==
    /\ pc = "lock" /\ taskList # <<>>
    /\ PopFront
    /\ UNCHANGED signalled

\* wait returns, by a notify or spuriously, and the list is examined once.
Wake ==
    /\ pc = "waiting"
    /\ signalled' = FALSE
    /\ \/ taskList # <<>> /\ PopFront
       \/ /\ taskList = <<>>
          /\ pc' = "check"
          /\ UNCHANGED <<threadState, taskList, current, posting, accepted,
                         deleted>>

StateAfterRun_Closing == IF current = {Halt} THEN "CLOSING" ELSE threadState

\* The body of the halting task is setState(THREAD_STATE_TERMINATED).
StateAfterRun == IF current = {Halt} THEN "TERMINATED" ELSE threadState

\* The task returns (or had expired and was not called) and is deleted.  The
\* worker notifies for the tasks it posted itself before it can return.
FinishTask ==
    /\ pc = "run"
    /\ Worker \notin posting
    /\ threadState' = StateAfterRun
    /\ deleted' = deleted \cup current
    /\ current' = {}
    /\ pc' = "check"
    /\ UNCHANGED <<taskList, signalled, posting, accepted>>

WorkerStep == CheckState \/ BeginWait \/ TakeTask \/ FinishTask

Next ==
    \/ \E p \in Threads, t \in Tasks : AddTask(p, t)
    \/ \E p \in Threads : NotifyWorker(p) \/ Shutdown(p)
    \/ Stop
    \/ Wake
    \/ WorkerStep

\* Threads are scheduled; a spurious wake-up is never relied upon.
Fairness ==
    /\ WF_vars(WorkerStep)
    /\ WF_vars(signalled /\ Wake)
    /\ \A p \in Threads : WF_vars(NotifyWorker(p))

Spec == Init /\ [][Next]_vars /\ Fairness
-----------------------------------------------------------------------------
TypeOK ==
    /\ threadState \in {"RUNNING", "CLOSING", "TERMINATED"}
    /\ taskList \in Seq(AllTasks)
    /\ pc \in {"check", "lock", "waiting", "run", "done"}
    /\ current \in SUBSET AllTasks
    /\ signalled \in BOOLEAN
    /\ posting \in SUBSET Threads
    /\ accepted \in Seq(AllTasks)
    /\ deleted \in SUBSET AllTasks
    /\ pc = "run" <=> current # {}

(* A worker blocked with work to do is about to be woken: a notify has     *)
(* reached it, or a thread that found the list empty still owes one.  This *)
(* is what lets addTask notify outside the lock and only on empty.         *)
NoLostWakeup ==
    pc = "waiting" /\ taskList # <<>> => signalled \/ posting # {}

(* Ownership of the raw Task pointers: a task is in the list once, or in   *)
(* the worker's hands, or deleted, never two of these.                     *)
OneOwner ==
    /\ \A i, j \in DOMAIN taskList : taskList[i] = taskList[j] => i = j
    /\ Elems(taskList) \cap (current \cup deleted) = {}
    /\ current \cap deleted = {}

(* Tasks posted by addTask(task) are run in the order they were accepted,  *)
(* whatever the scheduler pushes in front: as long as one is in the list,  *)
(* none accepted after it has been taken, or stands before it.             *)
FifoOrder ==
    \A i, j \in DOMAIN accepted : i <= j =>
        /\ accepted[i] \in current => accepted[j] \notin deleted
        /\ \A m \in DOMAIN taskList : taskList[m] = accepted[i] =>
              /\ accepted[j] \notin current \cup deleted
              /\ \A n \in DOMAIN taskList : taskList[n] = accepted[j] => m <= n

(* shutdown() lets every task accepted before it run: the worker leaves    *)
(* its loop only after they are done.                                      *)
DrainedAtExit ==
    pc = "done" =>
        \A i, j \in DOMAIN accepted :
            i <= j /\ accepted[j] = Halt => accepted[i] \in deleted

(* Every accepted task is eventually finished, unless the worker has been  *)
(* shut down; in particular a task is never forgotten while the worker     *)
(* sleeps.                                                                 *)
EveryTaskServed ==
    \A t \in Tasks : t \in Elems(taskList) ~> (t \in deleted \/ pc = "done")

=============================================================================
