--------------------------- MODULE DatabaseTasks ----------------------------
(***************************************************************************)
(* The asynchronous query queue (engine/src/databasetasks.cpp): any thread *)
(* posts queries, a database thread runs them in the background, and the   *)
(* dispatcher thread runs what is queued itself when it saves the world    *)
(* (flush) or shuts down.  Both runners take from the same list under      *)
(* taskLock and run what they took without it, so a query can be overtaken *)
(* while it is in the other runner's hand.                                 *)
(***************************************************************************)
EXTENDS Naturals, Sequences, FiniteSets

CONSTANTS Queries,      \* the queries the program posts
          Callbacks,    \* those posted with a callback
          Callers,      \* threads that call addTask
          Dispatcher    \* the caller that also flushes and shuts down

ASSUME QueryAssumption == Callbacks \subseteq Queries /\ Dispatcher \in Callers

VARIABLES dbState,     \* ThreadHolder::threadState
          tasks,       \* the list
          pc,          \* where each runner is
          hand,        \* the query each runner has taken
          signalled,   \* a notify has reached the waiting thread
          owing,       \* callers past unlock that still owe a notify_one
          closing,     \* progress of shutdown()
          accepted,    \* history: queries accepted, in order
          executed,    \* history: queries executed, in order
          calledBack   \* callbacks handed to the dispatcher

vars == <<dbState, tasks, pc, hand, signalled, owing, closing, accepted,
          executed, calledBack>>

Runners == {"thread", "flusher"}
Elems(s) == {s[i] : i \in DOMAIN s}

Init ==
    /\ dbState = "RUNNING"
    /\ tasks = <<>>
    /\ pc = [r \in Runners |-> IF r = "thread" THEN "check" ELSE "idle"]
    /\ hand = [r \in Runners |-> {}]
    /\ signalled = FALSE /\ owing = {}
    /\ closing = "no"
    /\ accepted = <<>> /\ executed = <<>> /\ calledBack = {}
-----------------------------------------------------------------------------
\* The dispatcher posts only when it is not flushing or shutting down.
CanCall(c) ==
    /\ c \notin owing
    /\ c = Dispatcher => pc["flusher"] = "idle" /\ closing \in {"no", "done"}

MustSignal_Never == FALSE
MustSignal == tasks = <<>>

Enqueued_Front(q) == <<q>> \o tasks
Enqueued(q) == Append(tasks, q)

\* addTask under the lock: silently dropped unless RUNNING.
AddTask(c, q) ==
    /\ CanCall(c)
    /\ q \notin Elems(accepted)
    /\ dbState = "RUNNING"
    /\ tasks' = Enqueued(q)
    /\ accepted' = Append(accepted, q)
    /\ owing' = IF MustSignal THEN owing \cup {c} ELSE owing
    /\ UNCHANGED <<dbState, pc, hand, signalled, closing, executed, calledBack>>

NotifyThread(c) ==
    /\ c \in owing
    /\ owing' = owing \ {c}
    /\ signalled' = (signalled \/ pc["thread"] = "waiting")
    /\ UNCHANGED <<dbState, tasks, pc, hand, closing, accepted, executed, calledBack>>
-----------------------------------------------------------------------------
\* What both runners do with the front query: pop under the lock, then runTask.
PopFront(r) ==
    /\ hand' = [hand EXCEPT ![r] = {Head(tasks)}]
    /\ tasks' = Tail(tasks)
    /\ pc' = [pc EXCEPT ![r] = "run"]
    /\ UNCHANGED <<dbState, owing, closing, accepted, executed, calledBack>>

\* storeQuery or executeQuery, one at a time under the connection's own lock.
Execute(r) ==
    /\ pc[r] = "run"
    /\ \E q \in hand[r] : executed' = Append(executed, q)
    /\ pc' = [pc EXCEPT ![r] = "callback"]
    /\ UNCHANGED <<dbState, tasks, hand, signalled, owing, closing, accepted, calledBack>>

RunEnds(r) == hand' = [hand EXCEPT ![r] = {}]

\* The callback, if any, is posted to the dispatcher with the result.
PostCallback(r) ==
    /\ pc[r] = "callback"
    /\ calledBack' = calledBack \cup (hand[r] \cap Callbacks)
    /\ RunEnds(r)
    /\ pc' = [pc EXCEPT ![r] = IF r = "thread" THEN "check" ELSE "lock"]
    /\ UNCHANGED <<dbState, tasks, signalled, owing, closing, accepted, executed>>
-----------------------------------------------------------------------------
\* threadMain, its loop condition read without the lock.
CheckState ==
    /\ pc["thread"] = "check"
    /\ pc' = [pc EXCEPT !["thread"] = IF dbState = "TERMINATED" THEN "done" ELSE "lock"]
    /\ UNCHANGED <<dbState, tasks, hand, signalled, owing, closing, accepted, executed, calledBack>>

BeginWait ==
    /\ pc["thread"] = "lock" /\ tasks = <<>>
    /\ pc' = [pc EXCEPT !["thread"] = "waiting"]
    /\ signalled' = FALSE
    /\ UNCHANGED <<dbState, tasks, hand, owing, closing, accepted, executed, calledBack>>

TakeTask ==
    /\ pc["thread"] = "lock" /\ tasks # <<>>
    /\ PopFront("thread")
    /\ UNCHANGED signalled

\* wait returns, by a notify or spuriously, and the list is examined once.
Wake ==
    /\ pc["thread"] = "waiting"
    /\ signalled' = FALSE
    /\ \/ tasks # <<>> /\ PopFront("thread")
       \/ /\ tasks = <<>>
          /\ pc' = [pc EXCEPT !["thread"] = "check"]
          /\ UNCHANGED <<dbState, tasks, hand, owing, closing, accepted, executed, calledBack>>
-----------------------------------------------------------------------------
\* flush(), called by saveGameState on the dispatcher thread.
FlushBegin ==
    /\ CanCall(Dispatcher)
    /\ pc' = [pc EXCEPT !["flusher"] = "lock"]
    /\ UNCHANGED <<dbState, tasks, hand, signalled, owing, closing, accepted, executed, calledBack>>

\* The loop condition of flush(); the mutant runs its body only once.
FlushGoesOn_Once == tasks # <<>> /\ Elems(executed) = {}
FlushGoesOn == tasks # <<>>

FlushTake ==
    /\ pc["flusher"] = "lock" /\ FlushGoesOn
    /\ PopFront("flusher")
    /\ UNCHANGED signalled

\* flush() returns to its caller, saveGameState or shutdown().
FlushReturn ==
    /\ pc["flusher"] = "lock" /\ ~FlushGoesOn
    /\ pc' = [pc EXCEPT !["flusher"] = "idle"]
    /\ closing' = IF closing = "flushing" THEN "notifying" ELSE closing
    /\ UNCHANGED <<dbState, tasks, hand, signalled, owing, accepted, executed, calledBack>>

\* ThreadHolder::stop, in setGameState(SHUTDOWN).
Stop ==
    /\ CanCall(Dispatcher)
    /\ dbState = "RUNNING"
    /\ dbState' = "CLOSING"
    /\ UNCHANGED <<tasks, pc, hand, signalled, owing, closing, accepted, executed, calledBack>>

\* shutdown(): TERMINATED is stored under the lock, then flush() is called ...
ShutdownState_NoFlush ==
    /\ CanCall(Dispatcher)
    /\ closing = "no"
    /\ dbState' = "TERMINATED"
    /\ closing' = "notifying"
    /\ UNCHANGED <<tasks, pc, hand, signalled, owing, accepted, executed, calledBack>>

ShutdownState ==
    /\ CanCall(Dispatcher)
    /\ closing = "no"
    /\ dbState' = "TERMINATED"
    /\ pc' = [pc EXCEPT !["flusher"] = "lock"]
    /\ closing' = "flushing"
    /\ UNCHANGED <<tasks, hand, signalled, owing, accepted, executed, calledBack>>

\* ... and the thread is notified last.
ShutdownNotify ==
    /\ closing = "notifying"
    /\ closing' = "done"
    /\ signalled' = (signalled \/ pc["thread"] = "waiting")
    /\ UNCHANGED <<dbState, tasks, pc, hand, owing, accepted, executed, calledBack>>
-----------------------------------------------------------------------------
ThreadStep == CheckState \/ BeginWait \/ TakeTask \/ Execute("thread") \/ PostCallback("thread")
FlushStep  == FlushTake \/ FlushReturn \/ Execute("flusher") \/ PostCallback("flusher")

Next ==
    \/ \E c \in Callers, q \in Queries : AddTask(c, q)
    \/ \E c \in Callers : NotifyThread(c)
    \/ ThreadStep
    \/ Wake
    \/ FlushBegin
    \/ FlushStep
    \/ Stop \/ ShutdownState \/ ShutdownNotify

\* Threads are scheduled; nobody is obliged to flush, stop or shut down.
Fairness ==
    /\ WF_vars(ThreadStep) /\ WF_vars(FlushStep)
    /\ WF_vars(signalled /\ Wake)
    /\ WF_vars(ShutdownNotify)
    /\ \A c \in Callers : WF_vars(NotifyThread(c))

Spec == Init /\ [][Next]_vars /\ Fairness
-----------------------------------------------------------------------------
TypeOK ==
    /\ dbState \in {"RUNNING", "CLOSING", "TERMINATED"}
    /\ tasks \in Seq(Queries)
    /\ pc \in [Runners -> {"check", "idle", "lock", "waiting", "run", "callback", "done"}]
    /\ hand \in [Runners -> SUBSET Queries]
    /\ signalled \in BOOLEAN
    /\ owing \in SUBSET Callers
    /\ closing \in {"no", "flushing", "notifying", "done"}
    /\ accepted \in Seq(Queries)
    /\ executed \in Seq(Queries)
    /\ calledBack \in SUBSET Callbacks
    /\ \A r \in Runners : hand[r] # {} <=> pc[r] \in {"run", "callback"}

(* The thread is never asleep over a query unless a notify is on its way,  *)
(* although a flush can empty the list between the push and the notify.    *)
NoLostWakeup ==
    pc["thread"] = "waiting" /\ tasks # <<>> => signalled \/ owing # {}

(* Whoever runs it, a query is executed once: it is queued, in one hand, or *)
(* executed and never back in the list.  And queries are executed in the   *)
(* order they were posted, but for one that a runner holds in its hand     *)
(* while the other goes on: that is all a flush may overtake.              *)
ExecutedInOrder ==
    /\ TypeOK
    /\ \A i, j \in DOMAIN executed : executed[i] = executed[j] => i = j
    /\ Elems(tasks) \cap (hand["thread"] \cup hand["flusher"] \cup Elems(executed)) = {}
    /\ hand["thread"] \cap hand["flusher"] = {}
    /\ \A i, j \in DOMAIN accepted :
          i < j /\ accepted[j] \in Elems(executed) /\ accepted[i] \notin Elems(executed)
              => accepted[i] \in hand["thread"] \cup hand["flusher"]

(* When flush() returns, all that was posted is in the database, except    *)
(* the one query the database thread may still hold: what saveGameState    *)
(* relies on.                                                              *)
FlushIsComplete ==
    [][FlushReturn => Elems(accepted) \subseteq Elems(executed) \cup hand["thread"]]_vars

(* Once shutdown() has returned and the thread has been joined, no query   *)
(* that was accepted is missing from the database.                         *)
DrainedAtJoin ==
    pc["thread"] = "done" /\ closing = "done" =>
        Elems(accepted) \subseteq Elems(executed)

\* Every accepted query reaches the database, whatever is stopped in between.
EveryQueryExecuted ==
    \A q \in Queries : q \in Elems(tasks) ~> q \in Elems(executed)
=============================================================================
