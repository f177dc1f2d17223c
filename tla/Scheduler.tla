----------------------------- MODULE Scheduler ------------------------------
(***************************************************************************)
(* The scheduler thread (engine/src/scheduler.cpp): timers in a priority   *)
(* queue, delivered to the dispatcher when they are due.                   *)
(*                                                                         *)
(* As in Dispatcher.tla a section under eventLock is one action, and what  *)
(* the code does after unlocking, the notify_one of addEvent and the       *)
(* hand-over to the dispatcher, is an action of its own.  stopEvent only   *)
(* withdraws the id: the task stays queued and is deleted when it is due.  *)
(***************************************************************************)
EXTENDS Naturals, FiniteSets

CONSTANTS Tasks,       \* the SchedulerTask objects
          Callers,     \* threads that call addEvent
          MaxEventId,  \* the largest uint32_t, after which ids start again at 1
          MaxTime      \* bound: the clock stops here, and every event is due by then

ASSUME IdsExist == MaxEventId \in Nat \ {0}
ASSUME TimeBound == MaxTime \in Nat

VARIABLES schedState,   \* ThreadHolder::threadState
          eventList,    \* the queue, as a set: the order is that of cycle
          eventIds,     \* ids neither fired nor stopped
          lastEventId,
          eventId,      \* SchedulerTask::eventId, 0 before addEvent
          cycle,        \* SchedulerTask::getCycle(), the time the event is due
          now,
          pc,           \* where the thread is in threadMain
          deadline,     \* argument of the wait_until it is blocked in
          signalled,    \* a notify has reached the blocked thread
          owing,        \* callers past unlock that still owe a notify_one
          hand,         \* {task} taken from the queue, not yet delivered
          posted,       \* tasks delivered to the dispatcher
          deleted,      \* SchedulerTask objects destroyed by the scheduler
          stopped,      \* history: tasks for which stopEvent returned true
          closing       \* progress of the shutdown() call

queueVars == <<eventList, eventIds, lastEventId, eventId, cycle>>
threadVars == <<pc, deadline, hand>>
vars == <<schedState, queueVars, now, threadVars, signalled, owing, posted,
          deleted, stopped, closing>>

Created == eventList \cup hand \cup posted \cup deleted
Blocked == pc \in {"waiting", "timed"}
Times   == 0 .. MaxTime

Init ==
    /\ schedState = "RUNNING"
    /\ eventList = {} /\ eventIds = {} /\ lastEventId = 0
    /\ eventId = [t \in Tasks |-> 0]
    /\ cycle = [t \in Tasks |-> 0]
    /\ now = 0
    /\ pc = "check" /\ deadline = 0 /\ hand = {}
    /\ signalled = FALSE /\ owing = {}
    /\ posted = {} /\ deleted = {} /\ stopped = {}
    /\ closing = "no"

Tick ==
    /\ now < MaxTime
    /\ now' = now + 1
    /\ UNCHANGED <<schedState, queueVars, threadVars, signalled, owing, posted,
                   deleted, stopped, closing>>
-----------------------------------------------------------------------------
\* ++lastEventId, skipping 0 when it wraps.
NextId == IF lastEventId = MaxEventId THEN 1 ELSE lastEventId + 1

(* Assumed of the callers: an id is not issued again while an event that   *)
(* had it is still queued, that is, no event outlives 2^32 later ones.     *)
IdIsFree(id) == \A t \in eventList : eventId[t] # id

\* do_signal: the new event is the top of the queue (a tie leaves the old top).
BecomesTop_Never(due) == FALSE
BecomesTop_IfEmpty(due) == eventList = {}
BecomesTop(due) == \A t \in eventList : due < cycle[t]

\* addEvent(t), the part under the lock; due may be in the past (a stored walk task).
AddEvent(c, t, due) ==
    /\ c \notin owing
    /\ t \notin Created
    /\ IF schedState = "RUNNING"
         THEN /\ IdIsFree(NextId)
              /\ lastEventId' = NextId
              /\ eventId' = [eventId EXCEPT ![t] = NextId]
              /\ cycle' = [cycle EXCEPT ![t] = due]
              /\ eventIds' = eventIds \cup {NextId}
              /\ eventList' = eventList \cup {t}
              /\ owing' = IF BecomesTop(due) THEN owing \cup {c} ELSE owing
              /\ UNCHANGED deleted
         ELSE /\ deleted' = deleted \cup {t}
              /\ UNCHANGED <<queueVars, owing>>
    /\ UNCHANGED <<schedState, now, threadVars, signalled, posted, stopped, closing>>

NotifyScheduler(c) ==
    /\ c \in owing
    /\ owing' = owing \ {c}
    /\ signalled' = (signalled \/ Blocked)
    /\ UNCHANGED <<schedState, queueVars, now, threadVars, posted, deleted, stopped, closing>>

WithoutId(t) == eventIds \ {eventId[t]}

(* stopEvent with the id of a queued event: true if the id is active.  With *)
(* the id of an event already taken from the queue it changes nothing.      *)
StopEvent(t) ==
    /\ t \in eventList
    /\ eventId[t] \in eventIds
    /\ eventIds' = WithoutId(t)
    /\ stopped' = stopped \cup {t}
    /\ UNCHANGED <<schedState, eventList, lastEventId, eventId, cycle, now,
                   threadVars, signalled, owing, posted, deleted, closing>>
-----------------------------------------------------------------------------
(* ThreadHolder::stop, in setGameState(SHUTDOWN). *)
Stop ==
    /\ schedState = "RUNNING"
    /\ schedState' = "CLOSING"
    /\ UNCHANGED <<queueVars, now, threadVars, signalled, owing, posted,
                   deleted, stopped, closing>>

\* shutdown() stores the state before it takes the lock ...
ShutdownState ==
    /\ closing = "no"
    /\ schedState' = "TERMINATED"
    /\ closing' = "terminated"
    /\ UNCHANGED <<queueVars, now, threadVars, signalled, owing, posted, deleted, stopped>>

\* ... empties the queue under it ...
ShutdownClear ==
    /\ closing = "terminated"
    /\ deleted' = deleted \cup eventList
    /\ eventList' = {} /\ eventIds' = {}
    /\ closing' = "cleared"
    /\ UNCHANGED <<schedState, lastEventId, eventId, cycle, now, threadVars,
                   signalled, owing, posted, stopped>>

\* ... and notifies after releasing it.
ShutdownNotify ==
    /\ closing = "cleared"
    /\ closing' = "notified"
    /\ signalled' = (signalled \/ Blocked)
    /\ UNCHANGED <<schedState, queueVars, now, threadVars, owing, posted, deleted, stopped>>
-----------------------------------------------------------------------------
\* The loop condition, read without the lock.
CheckState ==
    /\ pc = "check"
    /\ pc' = IF schedState = "TERMINATED" THEN "done" ELSE "lock"
    /\ UNCHANGED <<schedState, queueVars, now, deadline, hand, signalled, owing,
                   posted, deleted, stopped, closing>>

IsTop(t) == t \in eventList /\ \A u \in eventList : cycle[t] <= cycle[u]

\* wait, or wait_until the top event is due.
Block ==
    /\ pc = "lock"
    /\ \/ eventList = {} /\ pc' = "waiting" /\ UNCHANGED deadline
       \/ \E t \in eventList : IsTop(t) /\ pc' = "timed" /\ deadline' = cycle[t]
    /\ signalled' = FALSE
    /\ UNCHANGED <<schedState, queueVars, now, hand, owing, posted, deleted, stopped, closing>>

\* wait returns, notified or spuriously; nothing is taken.
WakeUntimed ==
    /\ pc = "waiting"
    /\ pc' = "check"
    /\ signalled' = FALSE
    /\ UNCHANGED <<schedState, queueVars, now, deadline, hand, owing, posted,
                   deleted, stopped, closing>>

\* cv_status::timeout: the clock has reached the deadline when wait_until returns.
TimedOut == now >= deadline

\* The id is gone: stopEvent was called after the event was queued.
IsStopped_Never(t) == FALSE
IsStopped(t) == eventId[t] \notin eventIds

\* The top event leaves the queue, to be delivered or, if stopped, deleted.
TakeTop ==
    \E t \in eventList :
        /\ IsTop(t)
        /\ eventList' = eventList \ {t}
        /\ IF IsStopped(t)
             THEN /\ deleted' = deleted \cup {t}
                  /\ pc' = "check"
                  /\ UNCHANGED <<eventIds, hand>>
             ELSE /\ eventIds' = eventIds \ {eventId[t]}
                  /\ hand' = {t}
                  /\ pc' = "post"
                  /\ UNCHANGED deleted
        /\ UNCHANGED <<lastEventId, eventId, cycle>>

\* wait_until returns: by timeout, by a notify or spuriously.
WakeTimed ==
    /\ pc = "timed"
    /\ signalled' = FALSE
    /\ IF TimedOut /\ eventList # {}
         THEN TakeTop
         ELSE pc' = "check" /\ UNCHANGED <<queueVars, hand, deleted>>
    /\ UNCHANGED <<schedState, now, deadline, owing, posted, stopped, closing>>

\* g_dispatcher.addTask(task, true): the task is the dispatcher's from here.
Deliver ==
    /\ pc = "post"
    /\ posted' = posted \cup hand
    /\ hand' = {}
    /\ pc' = "check"
    /\ UNCHANGED <<schedState, queueVars, now, deadline, signalled, owing,
                   deleted, stopped, closing>>
-----------------------------------------------------------------------------
Next ==
    \/ \E c \in Callers, t \in Tasks, due \in Times : AddEvent(c, t, due)
    \/ \E c \in Callers : NotifyScheduler(c)
    \/ \E t \in Tasks : StopEvent(t)
    \/ Stop \/ ShutdownState \/ ShutdownClear \/ ShutdownNotify
    \/ CheckState \/ Block \/ WakeUntimed \/ WakeTimed \/ Deliver
    \/ Tick

(* Threads are scheduled and time passes; a blocked thread returns when it *)
(* has been notified or its deadline has come, never counted on otherwise. *)
Fairness ==
    /\ WF_vars(CheckState \/ Block \/ Deliver)
    /\ WF_vars(signalled /\ (WakeUntimed \/ WakeTimed))
    /\ WF_vars(TimedOut /\ WakeTimed)
    /\ WF_vars(ShutdownClear) /\ WF_vars(ShutdownNotify)
    /\ \A c \in Callers : WF_vars(NotifyScheduler(c))
    /\ WF_vars(Tick)

Spec == Init /\ [][Next]_vars /\ Fairness
-----------------------------------------------------------------------------
TypeOK ==
    /\ schedState \in {"RUNNING", "CLOSING", "TERMINATED"}
    /\ eventList \in SUBSET Tasks
    /\ eventIds \in SUBSET (1 .. MaxEventId)
    /\ lastEventId \in 0 .. MaxEventId
    /\ eventId \in [Tasks -> 0 .. MaxEventId]
    /\ cycle \in [Tasks -> Times]
    /\ now \in Times
    /\ pc \in {"check", "lock", "waiting", "timed", "post", "done"}
    /\ deadline \in Times
    /\ signalled \in BOOLEAN
    /\ owing \in SUBSET Callers
    /\ hand \in SUBSET Tasks
    /\ posted \in SUBSET Tasks
    /\ deleted \in SUBSET Tasks
    /\ stopped \in SUBSET Tasks
    /\ closing \in {"no", "terminated", "cleared", "notified"}
    /\ pc = "post" <=> hand # {}

(* The blocked thread never sleeps past an event: it wakes by the time the *)
(* earliest one is due, or a notify has reached it or is still owed.       *)
NoOversleep ==
    Blocked => \A t \in eventList :
        \/ pc = "timed" /\ deadline <= cycle[t]
        \/ signalled
        \/ owing # {}

(* eventIds speaks for exactly the queued events that were not stopped, and *)
(* no two queued events share an id, across the wrap of the counter.        *)
IdsMatchQueue ==
    /\ \A t \in eventList : eventId[t] \in eventIds <=> t \notin stopped
    /\ \A t, u \in eventList : eventId[t] = eventId[u] => t = u

(* A SchedulerTask has one owner: the queue, the thread, the dispatcher or *)
(* nobody.  shutdown() deletes the queue while the thread may hold a task.  *)
OneOwner ==
    /\ eventList \cap (hand \cup posted \cup deleted) = {}
    /\ hand \cap (posted \cup deleted) = {}
    /\ posted \cap deleted = {}

\* Every queued event is taken off the queue in the end: nothing is slept through.
EveryEventResolved == \A t \in Tasks : t \in eventList ~> t \notin eventList

\* The timers as the rest of the engine sees them.
StatusOf(t) ==
    IF t \in hand \cup posted THEN "fired"
    ELSE IF t \in stopped THEN "cancelled"
    ELSE IF t \in deleted THEN "dropped"
    ELSE IF t \in eventList THEN "armed"
    ELSE "new"

Timers == INSTANCE TimerService WITH
              status <- [t \in Tasks |-> StatusOf(t)], due <- cycle

(* The scheduler implements the timer service: it fires an event once, not *)
(* before its time, and never after a stopEvent that returned true.        *)
ImplementsTimers == Timers!TSpec
=============================================================================
