-------------------------- MODULE SchedulerProofs ---------------------------
(***************************************************************************)
(* Proofs about the scheduler, for any set of timers, any number of        *)
(* calling threads, any width of the event id and any length of time.      *)
(***************************************************************************)
EXTENDS Scheduler, TLAPS

(* Every reachable state of the scheduler is well typed; the id counter    *)
(* stays within its width and never yields 0 (scheduler.cpp:70-72).        *)
THEOREM TypeCorrect == Spec => []TypeOK
<1> USE IdsExist, TimeBound
<1>1. Init => TypeOK
  <2>1. 0 \in 0 .. MaxEventId /\ 0 \in Times
    BY DEF Times
  <2>2. QED BY <2>1 DEF Init, TypeOK
<1>2. TypeOK /\ [Next]_vars => TypeOK'
  <2> SUFFICES ASSUME TypeOK, [Next]_vars PROVE TypeOK'
    OBVIOUS
  <2> USE DEF TypeOK, queueVars, threadVars
  <2>1. ASSUME NEW c \in Callers, NEW t \in Tasks, NEW due \in Times, AddEvent(c, t, due)
        PROVE  TypeOK'
    <3>1. NextId \in 1 .. MaxEventId
      BY DEF NextId
    <3>2. NextId \in 0 .. MaxEventId
      BY <3>1
    <3>3. CASE schedState = "RUNNING"
      <4>1. eventId' \in [Tasks -> 0 .. MaxEventId] /\ lastEventId' \in 0 .. MaxEventId
        BY <2>1, <3>2, <3>3 DEF AddEvent
      <4>2. cycle' \in [Tasks -> Times] /\ eventList' \in SUBSET Tasks /\ owing' \in SUBSET Callers
        BY <2>1, <3>3 DEF AddEvent
      <4>3. eventIds' \in SUBSET (1 .. MaxEventId)
        <5>1. eventIds' = eventIds \cup {NextId}
          BY <2>1, <3>3 DEF AddEvent
        <5>2. QED BY <3>1, <5>1
      <4>4. QED BY <2>1, <3>3, <4>1, <4>2, <4>3 DEF AddEvent
    <3>4. CASE schedState # "RUNNING"
      BY <2>1, <3>4 DEF AddEvent
    <3>5. QED BY <3>3, <3>4
  <2>2. ASSUME NEW c \in Callers, NotifyScheduler(c) PROVE TypeOK'
    BY <2>2 DEF NotifyScheduler, Blocked
  <2>3. ASSUME NEW t \in Tasks, StopEvent(t) PROVE TypeOK'
    BY <2>3 DEF StopEvent, WithoutId
  <2>4. CASE Stop
    BY <2>4 DEF Stop
  <2>5. CASE ShutdownState
    BY <2>5 DEF ShutdownState
  <2>6. CASE ShutdownClear
    BY <2>6 DEF ShutdownClear
  <2>7. CASE ShutdownNotify
    BY <2>7 DEF ShutdownNotify, Blocked
  <2>8. CASE CheckState
    BY <2>8 DEF CheckState
  <2>9. CASE Block
    BY <2>9 DEF Block
  <2>10. CASE WakeUntimed
    BY <2>10 DEF WakeUntimed
  <2>11. CASE WakeTimed
    <3>1. CASE TimedOut /\ eventList # {}
      <4>1. PICK t \in eventList :
               \/ deleted' = deleted \cup {t} /\ pc' = "check" /\ UNCHANGED <<eventIds, hand>>
               \/ /\ eventIds' = eventIds \ {eventId[t]} /\ UNCHANGED deleted
                  /\ hand' = {t} /\ hand' # {} /\ pc' = "post"
        BY <2>11, <3>1 DEF WakeTimed, TakeTop
      <4>2. eventList' \in SUBSET Tasks /\ UNCHANGED <<lastEventId, eventId, cycle>>
        BY <2>11, <3>1 DEF WakeTimed, TakeTop
      <4>3. hand = {}
        BY <2>11 DEF WakeTimed
      <4>4. QED BY <2>11, <4>1, <4>2, <4>3 DEF WakeTimed
    <3>2. CASE ~(TimedOut /\ eventList # {})
      BY <2>11, <3>2 DEF WakeTimed
    <3>3. QED BY <3>1, <3>2
  <2>12. CASE Deliver
    BY <2>12 DEF Deliver
  <2>13. CASE Tick
    BY <2>13 DEF Tick, Times
  <2>14. CASE UNCHANGED vars
    BY <2>14 DEF vars
  <2>15. QED
    BY <2>1, <2>2, <2>3, <2>4, <2>5, <2>6, <2>7, <2>8, <2>9, <2>10, <2>11, <2>12,
       <2>13, <2>14 DEF Next
<1>3. QED
  BY <1>1, <1>2, PTL DEF Spec
-----------------------------------------------------------------------------
(* The thread never oversleeps, although addEvent notifies after unlocking *)
(* and only for a new top of the queue (scheduler.cpp:85, 94-96).          *)
THEOREM NoOversleepHolds == Spec => []NoOversleep
<1>1. Init => NoOversleep
  BY DEF Init, NoOversleep, Blocked
<1>2. TypeOK /\ NoOversleep /\ [Next]_vars => NoOversleep'
  <2> SUFFICES ASSUME TypeOK, NoOversleep, [Next]_vars, Blocked', NEW u \in eventList'
               PROVE  (pc' = "timed" /\ deadline' <= cycle'[u]) \/ signalled' \/ owing' # {}
    BY DEF NoOversleep
  <2> DEFINE Goal == (pc' = "timed" /\ deadline' <= cycle'[u]) \/ signalled' \/ owing' # {}
  <2> USE DEF NoOversleep, Blocked, queueVars, threadVars
  <2>1. ASSUME NEW c \in Callers, NEW t \in Tasks, NEW due \in Times, AddEvent(c, t, due)
        PROVE  Goal
    <3>1. CASE schedState = "RUNNING" /\ BecomesTop(due)
      BY <2>1, <3>1 DEF AddEvent
    <3>2. CASE schedState = "RUNNING" /\ ~BecomesTop(due)
      <4>1. PICK w \in eventList : ~(due < cycle[w])
        BY <3>2 DEF BecomesTop
      <4>2. /\ eventList' = eventList \cup {t} /\ cycle' = [cycle EXCEPT ![t] = due]
            /\ UNCHANGED <<pc, deadline, signalled, owing>>
        BY <2>1, <3>2 DEF AddEvent
      <4>3. t \notin eventList
        BY <2>1 DEF AddEvent, Created
      <4>4. cycle'[t] = due /\ \A v \in eventList : cycle'[v] = cycle[v]
        BY <4>2, <4>3 DEF TypeOK
      <4>5. CASE u \in eventList
        BY <4>2, <4>4, <4>5
      <4>6. CASE u = t
        <5>1. (pc = "timed" /\ deadline <= cycle[w]) \/ signalled \/ owing # {}
          BY <4>1, <4>2
        <5>2. cycle[w] <= due /\ cycle[w] \in Nat /\ due \in Nat /\ deadline \in Nat
          BY <4>1, TimeBound DEF TypeOK, Times
        <5>3. deadline <= cycle[w] => deadline <= due
          BY <5>2
        <5>4. QED BY <4>2, <4>4, <4>6, <5>1, <5>3
      <4>7. QED BY <4>2, <4>5, <4>6
    <3>3. CASE schedState # "RUNNING"
      BY <2>1, <3>3 DEF AddEvent
    <3>4. QED BY <3>1, <3>2, <3>3
  <2>2. ASSUME NEW c \in Callers, NotifyScheduler(c) PROVE Goal
    BY <2>2 DEF NotifyScheduler, TypeOK
  <2>3. ASSUME NEW t \in Tasks, StopEvent(t) PROVE Goal
    BY <2>3 DEF StopEvent
  <2>4. CASE Stop
    BY <2>4 DEF Stop
  <2>5. CASE ShutdownState
    BY <2>5 DEF ShutdownState
  <2>6. CASE ShutdownClear
    BY <2>6 DEF ShutdownClear
  <2>7. CASE ShutdownNotify
    BY <2>7 DEF ShutdownNotify, TypeOK
  <2>8. CASE CheckState
    BY <2>8 DEF CheckState
  <2>9. CASE Block
    BY <2>9 DEF Block, IsTop
  <2>10. CASE WakeUntimed
    BY <2>10 DEF WakeUntimed
  <2>11. CASE WakeTimed
    BY <2>11 DEF WakeTimed, TakeTop
  <2>12. CASE Deliver
    BY <2>12 DEF Deliver
  <2>13. CASE Tick
    BY <2>13 DEF Tick
  <2>14. CASE UNCHANGED vars
    BY <2>14 DEF vars
  <2>15. QED
    BY <2>1, <2>2, <2>3, <2>4, <2>5, <2>6, <2>7, <2>8, <2>9, <2>10, <2>11, <2>12,
       <2>13, <2>14 DEF Next
<1>3. QED
  BY <1>1, <1>2, TypeCorrect, PTL DEF Spec
-----------------------------------------------------------------------------
(* What the refinement rests on besides the types: ids, owners, and that a *)
(* thread in wait_until has an event due by its deadline, so that on a     *)
(* timeout the top of the queue is due, whatever was queued meanwhile.     *)
RefInv ==
    /\ IdsMatchQueue
    /\ OneOwner
    /\ stopped \subseteq eventList \cup deleted
    /\ closing # "no" => schedState = "TERMINATED"
    /\ pc = "timed" /\ schedState # "TERMINATED" => eventList # {}
    /\ pc = "timed" /\ eventList # {} => \E t \in eventList : cycle[t] <= deadline

LEMMA RefInvHolds == Spec => []RefInv
<1> USE IdsExist, TimeBound
<1>1. Init => RefInv
  BY DEF Init, RefInv, IdsMatchQueue, OneOwner
<1>2. TypeOK /\ RefInv /\ [Next]_vars => RefInv'
  <2> SUFFICES ASSUME TypeOK, RefInv, [Next]_vars PROVE RefInv'
    OBVIOUS
  <2> USE DEF queueVars, threadVars
  <2>0. ASSUME UNCHANGED <<schedState, eventList, eventIds, eventId, cycle, pc, deadline,
                           hand, posted, deleted, stopped, closing>>
        PROVE  RefInv'
    BY <2>0 DEF RefInv, IdsMatchQueue, OneOwner
  <2>1. ASSUME NEW c \in Callers, NEW t \in Tasks, NEW due \in Times, AddEvent(c, t, due)
        PROVE  RefInv'
    <3>1. CASE schedState = "RUNNING"
      <4>1. /\ eventList' = eventList \cup {t} /\ eventIds' = eventIds \cup {NextId}
            /\ eventId' = [eventId EXCEPT ![t] = NextId] /\ cycle' = [cycle EXCEPT ![t] = due]
            /\ t \notin Created /\ IdIsFree(NextId)
            /\ UNCHANGED <<schedState, pc, deadline, hand, posted, deleted, stopped, closing>>
        BY <2>1, <3>1 DEF AddEvent
      <4>2. /\ t \notin eventList \cup stopped
            /\ eventId'[t] = NextId /\ cycle'[t] = due
            /\ \A u \in eventList : /\ eventId'[u] = eventId[u] /\ eventId[u] # NextId
                                     /\ cycle'[u] = cycle[u]
        BY <4>1 DEF TypeOK, RefInv, Created, IdIsFree
      <4>3. IdsMatchQueue'
        BY <4>1, <4>2 DEF RefInv, IdsMatchQueue
      <4>4. OneOwner'
        BY <4>1 DEF RefInv, OneOwner, Created
      <4>5. (pc = "timed" /\ eventList # {} => \E u \in eventList : cycle[u] <= deadline)'
        BY <3>1, <4>1, <4>2 DEF RefInv
      <4>6. QED BY <3>1, <4>1, <4>3, <4>4, <4>5 DEF RefInv
    <3>2. CASE schedState # "RUNNING"
      BY <2>1, <3>2 DEF AddEvent, RefInv, IdsMatchQueue, OneOwner, Created
    <3>3. QED BY <3>1, <3>2
  <2>2. ASSUME NEW c \in Callers, NotifyScheduler(c) PROVE RefInv'
    BY <2>0, <2>2 DEF NotifyScheduler
  <2>3. ASSUME NEW t \in Tasks, StopEvent(t) PROVE RefInv'
    <3>1. /\ t \in eventList /\ eventIds' = eventIds \ {eventId[t]} /\ stopped' = stopped \cup {t}
          /\ UNCHANGED <<schedState, eventList, eventId, cycle, pc, deadline, hand, posted,
                         deleted, closing>>
      BY <2>3 DEF StopEvent, WithoutId
    <3>2. IdsMatchQueue'
      BY <3>1 DEF RefInv, IdsMatchQueue
    <3>3. QED BY <3>1, <3>2 DEF RefInv, OneOwner
  <2>4. CASE Stop
    BY <2>4 DEF Stop, RefInv, IdsMatchQueue, OneOwner
  <2>5. CASE ShutdownState
    BY <2>5 DEF ShutdownState, RefInv, IdsMatchQueue, OneOwner
  <2>6. CASE ShutdownClear
    BY <2>6 DEF ShutdownClear, RefInv, IdsMatchQueue, OneOwner
  <2>7. CASE ShutdownNotify
    BY <2>7 DEF ShutdownNotify, RefInv, IdsMatchQueue, OneOwner
  <2>8. CASE CheckState
    BY <2>8 DEF CheckState, RefInv, IdsMatchQueue, OneOwner
  <2>9. CASE Block
    <3>1. CASE pc' = "waiting"
      BY <2>9, <3>1 DEF Block, RefInv, IdsMatchQueue, OneOwner
    <3>2. CASE pc' # "waiting"
      <4>1. PICK t \in eventList : deadline' = cycle[t]
        BY <2>9, <3>2 DEF Block
      <4>2. cycle[t] <= deadline'
        BY <4>1 DEF TypeOK, Times
      <4>3. QED BY <2>9, <4>1, <4>2 DEF Block, RefInv, IdsMatchQueue, OneOwner
    <3>3. QED BY <3>1, <3>2
  <2>10. CASE WakeUntimed
    BY <2>10 DEF WakeUntimed, RefInv, IdsMatchQueue, OneOwner
  <2>11. CASE WakeTimed
    <3>1. CASE ~(TimedOut /\ eventList # {})
      BY <2>11, <3>1 DEF WakeTimed, RefInv, IdsMatchQueue, OneOwner
    <3>2. CASE TimedOut /\ eventList # {}
      <4>1. PICK t \in eventList :
               /\ eventList' = eventList \ {t}
               /\ \/ /\ IsStopped(t) /\ deleted' = deleted \cup {t}
                     /\ UNCHANGED <<eventIds, hand>>
                  \/ /\ ~IsStopped(t) /\ eventIds' = eventIds \ {eventId[t]}
                     /\ hand' = {t} /\ UNCHANGED deleted
               /\ UNCHANGED <<eventId, cycle>>
        BY <2>11, <3>2 DEF WakeTimed, TakeTop
      <4>2. /\ hand = {} /\ pc' # "timed"
            /\ UNCHANGED <<schedState, posted, stopped, closing>>
        BY <2>11, <3>2 DEF WakeTimed, TakeTop, TypeOK
      <4>3. ~IsStopped(t) => t \notin stopped
        BY DEF IsStopped, RefInv, IdsMatchQueue
      <4>4. IdsMatchQueue'
        BY <4>1, <4>2 DEF RefInv, IdsMatchQueue
      <4>5. OneOwner'
        BY <4>1, <4>2 DEF RefInv, OneOwner
      <4>6. (stopped \subseteq eventList \cup deleted)'
        BY <4>1, <4>2, <4>3 DEF RefInv
      <4>7. QED BY <4>2, <4>4, <4>5, <4>6 DEF RefInv
    <3>3. QED BY <3>1, <3>2
  <2>12. CASE Deliver
    BY <2>12 DEF Deliver, RefInv, IdsMatchQueue, OneOwner
  <2>13. CASE Tick
    BY <2>0, <2>13 DEF Tick
  <2>14. CASE UNCHANGED vars
    BY <2>0, <2>14 DEF vars
  <2>15. QED
    BY <2>1, <2>2, <2>3, <2>4, <2>5, <2>6, <2>7, <2>8, <2>9, <2>10, <2>11, <2>12,
       <2>13, <2>14 DEF Next
<1>3. QED
  BY <1>1, <1>2, TypeCorrect, PTL DEF Spec
-----------------------------------------------------------------------------
(* An id in eventIds means one queued event that was not stopped, however  *)
(* often the ids have wrapped (scheduler.cpp:67-75, 101-117).              *)
THEOREM IdsMatchQueueHolds == Spec => []IdsMatchQueue
<1>1. RefInv => IdsMatchQueue
  BY DEF RefInv
<1>2. QED
  BY <1>1, RefInvHolds, PTL

(* The raw SchedulerTask pointers have one owner at a time, although the   *)
(* hand-over to the dispatcher happens outside the lock and shutdown() may *)
(* come in between (scheduler.cpp:38-56, 119-133).                         *)
THEOREM OneOwnerHolds == Spec => []OneOwner
<1>1. RefInv => OneOwner
  BY DEF RefInv
<1>2. QED
  BY <1>1, RefInvHolds, PTL
-----------------------------------------------------------------------------
(* The scheduler implements the timer service: an event is fired at most   *)
(* once, never before it is due and never after a stopEvent that returned  *)
(* true, whatever the interleaving of callers, shutdown and the thread.    *)
THEOREM ImplementsTimersHolds == Spec => ImplementsTimers
<1> USE IdsExist, TimeBound
<1> DEFINE st == [t \in Tasks |-> StatusOf(t)]
<1>1. Init => Timers!TInit
  BY DEF Init, Timers!TInit, StatusOf, Times
<1>2. TypeOK /\ RefInv /\ [Next]_vars => [Timers!TNext]_<<st, cycle, now>>
  <2> SUFFICES ASSUME TypeOK, RefInv, [Next]_vars PROVE [Timers!TNext]_<<st, cycle, now>>
    OBVIOUS
  <2> USE DEF queueVars, threadVars
  <2>0. ASSUME UNCHANGED <<hand, posted, stopped, deleted, eventList>> PROVE st' = st
    BY <2>0 DEF StatusOf
  <2>1. ASSUME NEW c \in Callers, NEW t \in Tasks, NEW due \in Times, AddEvent(c, t, due)
        PROVE  Timers!TNext
    <3>1. st[t] = "new"
      BY <2>1 DEF AddEvent, Created, StatusOf, RefInv
    <3>2. CASE schedState = "RUNNING"
      <4>1. st' = [st EXCEPT ![t] = "armed"]
        BY <2>1, <3>2 DEF AddEvent, Created, StatusOf, RefInv
      <4>2. cycle' = [cycle EXCEPT ![t] = due] /\ UNCHANGED now
        BY <2>1, <3>2 DEF AddEvent
      <4>3. Timers!Arm(t, due)
        BY <3>1, <4>1, <4>2 DEF Timers!Arm
      <4>4. QED BY <4>3 DEF Timers!TNext
    <3>3. CASE schedState # "RUNNING"
      <4>1. st' = [st EXCEPT ![t] = "dropped"]
        BY <2>1, <3>3 DEF AddEvent, Created, StatusOf, RefInv
      <4>2. UNCHANGED <<cycle, now>>
        BY <2>1, <3>3 DEF AddEvent
      <4>3. Timers!Refuse(t)
        BY <3>1, <4>1, <4>2 DEF Timers!Refuse
      <4>4. QED BY <4>3 DEF Timers!TNext
    <3>4. QED BY <3>2, <3>3
  <2>2. ASSUME NEW c \in Callers, NotifyScheduler(c) PROVE UNCHANGED <<st, cycle, now>>
    BY <2>0, <2>2 DEF NotifyScheduler
  <2>3. ASSUME NEW t \in Tasks, StopEvent(t) PROVE Timers!TNext
    <3>1. st[t] = "armed" /\ st' = [st EXCEPT ![t] = "cancelled"]
      BY <2>3 DEF StopEvent, StatusOf, RefInv, OneOwner, IdsMatchQueue
    <3>2. Timers!Cancel(t)
      BY <2>3, <3>1 DEF StopEvent, Timers!Cancel
    <3>3. QED BY <3>2 DEF Timers!TNext
  <2>4. CASE ShutdownClear
    <3>1. st' = [t \in Tasks |-> IF st[t] = "armed" THEN "dropped" ELSE st[t]]
      BY <2>4 DEF ShutdownClear, StatusOf, RefInv, OneOwner
    <3>2. Timers!DropAll
      BY <2>4, <3>1 DEF ShutdownClear, Timers!DropAll
    <3>3. QED BY <3>2 DEF Timers!TNext
  <2>5. CASE Stop \/ ShutdownState \/ ShutdownNotify \/ CheckState \/ Block \/ WakeUntimed
    BY <2>0, <2>5 DEF Stop, ShutdownState, ShutdownNotify, CheckState, Block, WakeUntimed
  <2>6. CASE WakeTimed
    <3>1. CASE ~(TimedOut /\ eventList # {})
      BY <2>0, <2>6, <3>1 DEF WakeTimed
    <3>2. CASE TimedOut /\ eventList # {}
      <4>1. PICK t \in eventList :
               /\ IsTop(t)
               /\ eventList' = eventList \ {t}
               /\ \/ /\ IsStopped(t) /\ deleted' = deleted \cup {t}
                     /\ UNCHANGED <<eventIds, hand>>
                  \/ /\ ~IsStopped(t) /\ eventIds' = eventIds \ {eventId[t]}
                     /\ hand' = {t} /\ UNCHANGED deleted
               /\ UNCHANGED <<eventId, cycle>>
        BY <2>6, <3>2 DEF WakeTimed, TakeTop
      <4>2. hand = {} /\ UNCHANGED <<posted, stopped, now>> /\ pc = "timed" /\ t \in Tasks
        BY <2>6, <3>2 DEF WakeTimed, TypeOK
      <4>3. CASE IsStopped(t)
        <5>1. t \in stopped
          BY <4>3 DEF IsStopped, RefInv, IdsMatchQueue
        <5>2. st' = st
          BY <4>1, <4>2, <4>3, <5>1 DEF StatusOf
        <5>3. QED BY <4>1, <4>2, <5>2
      <4>4. CASE ~IsStopped(t)
        <5>1. t \notin stopped
          BY <4>4 DEF IsStopped, RefInv, IdsMatchQueue
        <5>2. st[t] = "armed"
          BY <4>1, <4>2, <5>1 DEF StatusOf, RefInv, OneOwner
        <5>3. st' = [st EXCEPT ![t] = "fired"]
          BY <4>1, <4>2, <4>4, <5>1 DEF StatusOf, RefInv, OneOwner
        <5>4. cycle[t] <= now
          <6>1. PICK u \in eventList : cycle[u] <= deadline
            BY <3>2, <4>2 DEF RefInv
          <6>2. cycle[t] <= cycle[u] /\ now >= deadline
            BY <3>2, <4>1 DEF IsTop, TimedOut
          <6>3. cycle[t] \in Nat /\ cycle[u] \in Nat /\ now \in Nat /\ deadline \in Nat
            BY <4>2 DEF TypeOK, Times
          <6>4. QED BY <6>1, <6>2, <6>3
        <5>5. Timers!Fire(t)
          BY <4>1, <4>2, <5>2, <5>3, <5>4 DEF Timers!Fire
        <5>6. QED BY <4>2, <5>5 DEF Timers!TNext
      <4>5. QED BY <4>3, <4>4
    <3>3. QED BY <3>1, <3>2
  <2>7. CASE Deliver
    BY <2>7 DEF Deliver, StatusOf
  <2>8. CASE Tick
    <3>1. Timers!Advance
      BY <2>0, <2>8 DEF Tick, Timers!Advance
    <3>2. QED BY <3>1 DEF Timers!TNext
  <2>9. CASE UNCHANGED vars
    BY <2>0, <2>9 DEF vars
  <2>10. QED
    BY <2>1, <2>2, <2>3, <2>4, <2>5, <2>6, <2>7, <2>8, <2>9 DEF Next
<1>3. QED
  BY <1>1, <1>2, TypeCorrect, RefInvHolds, PTL
     DEF Spec, ImplementsTimers, Timers!TSpec, Timers!tvars
=============================================================================
