------------------------ MODULE DatabaseTasksProofs -------------------------
(***************************************************************************)
(* Proofs about the query queue, for any queries and any posting threads.  *)
(***************************************************************************)
EXTENDS DatabaseTasks, TLAPS, SequenceTheorems

(* What taking the front query of the list leaves (databasetasks.cpp:44,90). *)
LEMMA FrontQuery ==
    ASSUME NEW s \in Seq(Queries), s # <<>>
    PROVE  /\ Head(s) \in Queries /\ Tail(s) \in Seq(Queries)
           /\ Elems(s) = {Head(s)} \cup Elems(Tail(s))
<1>1. /\ Head(s) \in Queries /\ Tail(s) \in Seq(Queries)
      /\ Len(Tail(s)) = Len(s) - 1
      /\ \A i \in 1 .. Len(Tail(s)) : Tail(s)[i] = s[i + 1]
  BY HeadTailProperties
<1>2. /\ Len(s) \in Nat \ {0} /\ DOMAIN s = 1 .. Len(s)
      /\ DOMAIN Tail(s) = 1 .. Len(Tail(s))
  BY <1>1, EmptySeq, LenProperties
<1>3. Head(s) = s[1] /\ 1 \in DOMAIN s
  BY <1>2
<1>4. \A i \in DOMAIN s : i # 1 => i - 1 \in DOMAIN Tail(s) /\ Tail(s)[i - 1] = s[i]
  BY <1>1, <1>2
<1>5. \A i \in DOMAIN Tail(s) : i + 1 \in DOMAIN s /\ Tail(s)[i] = s[i + 1]
  BY <1>1, <1>2
<1>6. Elems(s) \subseteq {Head(s)} \cup Elems(Tail(s))
  <2>1. ASSUME NEW i \in DOMAIN s PROVE s[i] \in {Head(s)} \cup Elems(Tail(s))
    <3>1. CASE i = 1
      BY <1>3, <3>1
    <3>2. CASE i # 1
      BY <1>4, <3>2 DEF Elems
    <3>3. QED BY <3>1, <3>2
  <2>2. QED BY <2>1 DEF Elems
<1>7. {Head(s)} \cup Elems(Tail(s)) \subseteq Elems(s)
  BY <1>3, <1>5 DEF Elems
<1>8. QED BY <1>1, <1>6, <1>7

LEMMA ElemsAppend ==
    ASSUME NEW s \in Seq(Queries), NEW q \in Queries
    PROVE  /\ Append(s, q) \in Seq(Queries)
           /\ Elems(Append(s, q)) = Elems(s) \cup {q}
<1>1. /\ Append(s, q) \in Seq(Queries)
      /\ Len(Append(s, q)) = Len(s) + 1 /\ Append(s, q)[Len(s) + 1] = q
      /\ \A i \in 1 .. Len(s) : Append(s, q)[i] = s[i]
  BY AppendProperties
<1>2. /\ Len(s) \in Nat /\ DOMAIN s = 1 .. Len(s)
      /\ DOMAIN Append(s, q) = 1 .. Len(s) + 1
  BY <1>1, LenProperties
<1>3. QED BY <1>1, <1>2 DEF Elems

(* Every reachable state of the query queue is well typed; a runner holds  *)
(* a query exactly between taking it and handing on its callback.          *)
THEOREM TypeCorrect == Spec => []TypeOK
<1> USE QueryAssumption DEF Runners
<1>1. Init => TypeOK
  BY EmptySeq DEF Init, TypeOK
<1>2. TypeOK /\ [Next]_vars => TypeOK'
  <2> SUFFICES ASSUME TypeOK, [Next]_vars PROVE TypeOK'
    OBVIOUS
  <2> USE DEF TypeOK
  <2>0. ASSUME NEW r \in Runners, tasks # <<>>, PopFront(r), signalled' \in BOOLEAN
        PROVE  TypeOK'
    BY <2>0, FrontQuery DEF PopFront
  <2>1. ASSUME NEW c \in Callers, NEW q \in Queries, AddTask(c, q) PROVE TypeOK'
    <3>1. Append(tasks, q) \in Seq(Queries) /\ Append(accepted, q) \in Seq(Queries)
      BY AppendProperties
    <3>2. QED BY <2>1, <3>1 DEF AddTask, Enqueued
  <2>2. ASSUME NEW c \in Callers, NotifyThread(c) PROVE TypeOK'
    BY <2>2 DEF NotifyThread
  <2>3. ASSUME NEW r \in Runners, Execute(r) PROVE TypeOK'
    <3>1. PICK q \in hand[r] : executed' = Append(executed, q)
      BY <2>3 DEF Execute
    <3>2. executed' \in Seq(Queries)
      BY <3>1, AppendProperties
    <3>3. QED BY <2>3, <3>2 DEF Execute
  <2>4. ASSUME NEW r \in Runners, PostCallback(r) PROVE TypeOK'
    <3>1. CASE r = "thread"
      BY <2>4, <3>1 DEF PostCallback, RunEnds
    <3>2. CASE r = "flusher"
      BY <2>4, <3>2 DEF PostCallback, RunEnds
    <3>3. QED BY <3>1, <3>2
  <2>5. CASE CheckState \/ BeginWait
    BY <2>5 DEF CheckState, BeginWait
  <2>6. CASE TakeTask
    BY <2>0, <2>6 DEF TakeTask
  <2>7. CASE Wake
    <3>1. CASE tasks = <<>>
      BY <2>7, <3>1 DEF Wake
    <3>2. CASE tasks # <<>>
      BY <2>0, <2>7, <3>2 DEF Wake
    <3>3. QED BY <3>1, <3>2
  <2>8. CASE FlushBegin \/ ShutdownState
    BY <2>8 DEF FlushBegin, ShutdownState, CanCall
  <2>9. CASE FlushTake
    BY <2>0, <2>9 DEF FlushTake, FlushGoesOn
  <2>10. CASE FlushReturn
    BY <2>10 DEF FlushReturn
  <2>11. CASE Stop \/ ShutdownNotify
    BY <2>11 DEF Stop, ShutdownNotify
  <2>12. CASE UNCHANGED vars
    BY <2>12 DEF vars
  <2>13. QED
    BY <2>1, <2>2, <2>3, <2>4, <2>5, <2>6, <2>7, <2>8, <2>9, <2>10, <2>11, <2>12
       DEF Next, ThreadStep, FlushStep
<1>3. QED
  BY <1>1, <1>2, PTL DEF Spec
-----------------------------------------------------------------------------
(* The database thread never sleeps over a query: addTask notifies outside *)
(* the lock and only on an empty list, and flush() may empty it meanwhile. *)
THEOREM NoLostWakeupHolds == Spec => []NoLostWakeup
<1>1. Init => NoLostWakeup
  BY DEF Init, NoLostWakeup
<1>2. TypeOK /\ NoLostWakeup /\ [Next]_vars => NoLostWakeup'
  <2> SUFFICES ASSUME TypeOK, NoLostWakeup, [Next]_vars,
                      pc'["thread"] = "waiting", tasks' # <<>>
               PROVE  signalled' \/ owing' # {}
    BY DEF NoLostWakeup
  <2> USE DEF NoLostWakeup, TypeOK, Runners
  <2>1. ASSUME NEW c \in Callers, NEW q \in Queries, AddTask(c, q)
        PROVE  signalled' \/ owing' # {}
    <3>1. CASE tasks = <<>>
      BY <2>1, <3>1 DEF AddTask, MustSignal
    <3>2. CASE tasks # <<>>
      BY <2>1, <3>2 DEF AddTask, MustSignal
    <3>3. QED BY <3>1, <3>2
  <2>2. ASSUME NEW c \in Callers, NotifyThread(c) PROVE signalled'
    BY <2>2 DEF NotifyThread
  <2>3. CASE ThreadStep
    BY <2>3 DEF ThreadStep, CheckState, BeginWait, TakeTask, PopFront, Execute,
                PostCallback, RunEnds
  <2>4. CASE Wake
    BY <2>4 DEF Wake, PopFront
  <2>5. CASE FlushStep
    BY <2>5 DEF FlushStep, FlushTake, FlushReturn, FlushGoesOn, PopFront, Execute,
                PostCallback, RunEnds
  <2>6. CASE FlushBegin \/ Stop \/ ShutdownState \/ ShutdownNotify
    BY <2>6 DEF FlushBegin, Stop, ShutdownState, ShutdownNotify
  <2>7. CASE UNCHANGED vars
    BY <2>7 DEF vars
  <2>8. QED BY <2>1, <2>2, <2>3, <2>4, <2>5, <2>6, <2>7 DEF Next
<1>3. QED
  BY <1>1, <1>2, TypeCorrect, PTL DEF Spec
-----------------------------------------------------------------------------
(* Where an accepted query can be, and what shutdown() has achieved once   *)
(* its flush has returned.                                                 *)
Accounted ==
    /\ Elems(accepted) \subseteq Elems(tasks) \cup hand["thread"] \cup hand["flusher"]
                                              \cup Elems(executed)
    /\ closing # "no" => dbState = "TERMINATED"
    /\ closing \in {"notifying", "done"} => tasks = <<>> /\ hand["flusher"] = {}
    /\ \A r \in Runners : pc[r] = "callback" => hand[r] \subseteq Elems(executed)
    /\ \A r \in Runners : \A p, q \in hand[r] : p = q

LEMMA AccountedHolds == Spec => []Accounted
<1> USE DEF Runners
<1>1. Init => Accounted
  BY DEF Init, Accounted, Elems
<1>2. TypeOK /\ Accounted /\ [Next]_vars => Accounted'
  <2> SUFFICES ASSUME TypeOK, Accounted, [Next]_vars PROVE Accounted'
    OBVIOUS
  <2>0. ASSUME NEW r \in Runners, tasks # <<>>, hand[r] = {}, PopFront(r)
        PROVE  Accounted'
    <3>1. /\ Elems(tasks) = {Head(tasks)} \cup Elems(Tail(tasks))
          /\ tasks' = Tail(tasks) /\ hand' = [hand EXCEPT ![r] = {Head(tasks)}]
          /\ pc' = [pc EXCEPT ![r] = "run"]
          /\ UNCHANGED <<dbState, closing, accepted, executed>>
      BY <2>0, FrontQuery DEF PopFront, TypeOK
    <3>2. Elems(tasks) \cup hand["thread"] \cup hand["flusher"]
            = Elems(tasks') \cup hand'["thread"] \cup hand'["flusher"]
      <4>1. CASE r = "thread"
        BY <2>0, <3>1, <4>1 DEF TypeOK
      <4>2. CASE r = "flusher"
        BY <2>0, <3>1, <4>2 DEF TypeOK
      <4>3. QED BY <4>1, <4>2
    <3>3. closing \notin {"notifying", "done"}
      BY <2>0 DEF Accounted
    <3>4. QED BY <3>1, <3>2, <3>3 DEF Accounted, TypeOK
  <2>1. ASSUME NEW c \in Callers, NEW q \in Queries, AddTask(c, q) PROVE Accounted'
    <3>1. /\ Elems(tasks') = Elems(tasks) \cup {q}
          /\ Elems(accepted') = Elems(accepted) \cup {q}
      BY <2>1, ElemsAppend DEF AddTask, Enqueued, TypeOK
    <3>2. closing = "no"
      BY <2>1 DEF AddTask, Accounted
    <3>3. QED BY <2>1, <3>1, <3>2 DEF AddTask, Accounted
  <2>2. ASSUME NEW c \in Callers, NotifyThread(c) PROVE Accounted'
    BY <2>2 DEF NotifyThread, Accounted
  <2>3. ASSUME NEW r \in Runners, Execute(r) PROVE Accounted'
    <3>1. PICK q \in hand[r] : executed' = Append(executed, q)
      BY <2>3 DEF Execute
    <3>2. Elems(executed') = Elems(executed) \cup {q}
      BY <3>1, ElemsAppend DEF TypeOK
    <3>3. /\ pc' = [pc EXCEPT ![r] = "callback"]
          /\ UNCHANGED <<dbState, tasks, hand, closing, accepted>>
      BY <2>3 DEF Execute
    <3>4. hand[r] \subseteq Elems(executed')
      BY <3>1, <3>2 DEF Accounted
    <3>5. QED BY <3>2, <3>3, <3>4 DEF Accounted, TypeOK
  <2>4. ASSUME NEW r \in Runners, PostCallback(r) PROVE Accounted'
    <3>1. /\ hand[r] \subseteq Elems(executed)
          /\ hand' = [hand EXCEPT ![r] = {}]
          /\ pc'[r] # "callback" /\ \A s \in Runners \ {r} : pc'[s] = pc[s]
          /\ UNCHANGED <<dbState, tasks, closing, accepted, executed>>
      BY <2>4 DEF PostCallback, RunEnds, Accounted, TypeOK
    <3>2. CASE r = "thread"
      BY <3>1, <3>2 DEF Accounted, TypeOK
    <3>3. CASE r = "flusher"
      BY <3>1, <3>3 DEF Accounted, TypeOK
    <3>4. QED BY <3>2, <3>3
  <2>5. CASE CheckState \/ BeginWait
    BY <2>5 DEF CheckState, BeginWait, Accounted, TypeOK
  <2>6. CASE TakeTask
    BY <2>0, <2>6 DEF TakeTask, TypeOK
  <2>7. CASE Wake
    <3>1. CASE tasks = <<>>
      BY <2>7, <3>1 DEF Wake, Accounted, TypeOK
    <3>2. CASE tasks # <<>>
      BY <2>0, <2>7, <3>2 DEF Wake, TypeOK
    <3>3. QED BY <3>1, <3>2
  <2>8. CASE FlushBegin \/ ShutdownState
    BY <2>8 DEF FlushBegin, ShutdownState, CanCall, Accounted, TypeOK
  <2>9. CASE FlushTake
    BY <2>0, <2>9 DEF FlushTake, FlushGoesOn, TypeOK
  <2>10. CASE FlushReturn
    BY <2>10 DEF FlushReturn, FlushGoesOn, Accounted, TypeOK
  <2>11. CASE Stop \/ ShutdownNotify
    BY <2>11 DEF Stop, ShutdownNotify, Accounted
  <2>12. CASE UNCHANGED vars
    BY <2>12 DEF vars, Accounted
  <2>13. QED
    BY <2>1, <2>2, <2>3, <2>4, <2>5, <2>6, <2>7, <2>8, <2>9, <2>10, <2>11, <2>12
       DEF Next, ThreadStep, FlushStep
<1>3. QED
  BY <1>1, <1>2, TypeCorrect, PTL DEF Spec

(* flush() leaves nothing behind but what the database thread has in hand. *)
THEOREM FlushIsCompleteHolds == Spec => FlushIsComplete
<1>1. TypeOK /\ Accounted /\ [Next]_vars =>
        [FlushReturn => Elems(accepted) \subseteq Elems(executed) \cup hand["thread"]]_vars
  <2> SUFFICES ASSUME TypeOK, Accounted, FlushReturn
               PROVE  Elems(accepted) \subseteq Elems(executed) \cup hand["thread"]
    OBVIOUS
  <2>1. tasks = <<>> /\ hand["flusher"] = {}
    BY DEF FlushReturn, FlushGoesOn, TypeOK, Runners
  <2>2. QED BY <2>1 DEF Accounted, Elems
<1>2. QED
  BY <1>1, TypeCorrect, AccountedHolds, PTL DEF Spec, FlushIsComplete

(* When the database thread has been joined after shutdown(), every query  *)
(* that was ever accepted has been executed.                               *)
THEOREM DrainedAtJoinHolds == Spec => []DrainedAtJoin
<1>1. TypeOK /\ Accounted => DrainedAtJoin
  <2> SUFFICES ASSUME TypeOK, Accounted, pc["thread"] = "done", closing = "done"
               PROVE  Elems(accepted) \subseteq Elems(executed)
    BY DEF DrainedAtJoin
  <2>1. tasks = <<>> /\ hand["flusher"] = {} /\ hand["thread"] = {}
    BY DEF TypeOK, Accounted, Runners
  <2>2. Elems(tasks) = {}
    BY <2>1 DEF Elems
  <2>3. QED BY <2>1, <2>2 DEF Accounted
<1>2. QED
  BY <1>1, TypeCorrect, AccountedHolds, PTL
-----------------------------------------------------------------------------
(* The list is the tail of what was accepted, each query once; the other   *)
(* accepted queries are in a hand or executed, and a query in a hand that  *)
(* has not run is not executed yet.                                        *)
Queued ==
    /\ \A i, j \in DOMAIN accepted : accepted[i] = accepted[j] => i = j
    /\ Len(tasks) <= Len(accepted)
    /\ \A i \in DOMAIN tasks : tasks[i] = accepted[Len(accepted) - Len(tasks) + i]

TakenOnce ==
    /\ \A i, j \in DOMAIN executed : executed[i] = executed[j] => i = j
    /\ Elems(tasks) \cap (hand["thread"] \cup hand["flusher"] \cup Elems(executed)) = {}
    /\ hand["thread"] \cap hand["flusher"] = {}
    /\ hand["thread"] \cup hand["flusher"] \cup Elems(executed) \subseteq Elems(accepted)
    /\ \A r \in Runners : pc[r] = "run" => hand[r] \cap Elems(executed) = {}

(* A query that is appended has a place of its own, and leaves the others  *)
(* where they were.                                                        *)
LEMMA AppendFresh ==
    ASSUME NEW s \in Seq(Queries), NEW q \in Queries, q \notin Elems(s),
           \A i, j \in DOMAIN s : s[i] = s[j] => i = j
    PROVE  \A i, j \in DOMAIN Append(s, q) : Append(s, q)[i] = Append(s, q)[j] => i = j
<1>1. /\ Len(s) \in Nat /\ DOMAIN s = 1 .. Len(s)
      /\ DOMAIN Append(s, q) = 1 .. Len(s) + 1
      /\ Append(s, q)[Len(s) + 1] = q
      /\ \A i \in 1 .. Len(s) : Append(s, q)[i] = s[i]
  BY AppendProperties, LenProperties
<1>2. \A i \in 1 .. Len(s) : s[i] # q
  BY <1>1 DEF Elems
<1>3. QED BY <1>1, <1>2

LEMMA QueuedAppend ==
    ASSUME TypeOK, Queued, NEW q \in Queries, q \notin Elems(accepted),
           tasks' = Append(tasks, q), accepted' = Append(accepted, q)
    PROVE  Queued'
<1>1. tasks \in Seq(Queries) /\ accepted \in Seq(Queries)
  BY DEF TypeOK
<1>2. \A i, j \in DOMAIN accepted' : accepted'[i] = accepted'[j] => i = j
  BY <1>1, AppendFresh DEF Queued
<1>3. /\ Len(tasks) \in Nat /\ Len(accepted) \in Nat
      /\ DOMAIN tasks = 1 .. Len(tasks)
      /\ Len(tasks') = Len(tasks) + 1 /\ Len(accepted') = Len(accepted) + 1
      /\ DOMAIN tasks' = 1 .. Len(tasks) + 1
      /\ tasks'[Len(tasks) + 1] = q /\ accepted'[Len(accepted) + 1] = q
      /\ \A i \in 1 .. Len(tasks) : tasks'[i] = tasks[i]
      /\ \A i \in 1 .. Len(accepted) : accepted'[i] = accepted[i]
  BY <1>1, AppendProperties, LenProperties
<1>4. ASSUME NEW i \in DOMAIN tasks'
      PROVE  tasks'[i] = accepted'[Len(accepted') - Len(tasks') + i]
  <2>1. CASE i = Len(tasks) + 1
    BY <1>3, <2>1
  <2>2. CASE i # Len(tasks) + 1
    <3>1. i \in 1 .. Len(tasks) /\ Len(accepted) - Len(tasks) + i \in 1 .. Len(accepted)
      BY <1>3, <2>2 DEF Queued
    <3>2. Len(accepted') - Len(tasks') + i = Len(accepted) - Len(tasks) + i
      BY <1>3, <3>1
    <3>3. QED BY <1>3, <3>1, <3>2 DEF Queued
  <2>3. QED BY <2>1, <2>2
<1>5. QED BY <1>2, <1>3, <1>4 DEF Queued

LEMMA QueuedPop ==
    ASSUME TypeOK, Queued, tasks # <<>>, tasks' = Tail(tasks), accepted' = accepted
    PROVE  /\ Queued'
           /\ Head(tasks) \in Elems(accepted)
           /\ Head(tasks) \notin Elems(Tail(tasks))
<1>1. tasks \in Seq(Queries) /\ accepted \in Seq(Queries)
  BY DEF TypeOK
<1>2. /\ Len(tasks) \in Nat \ {0} /\ Len(accepted) \in Nat
      /\ DOMAIN tasks = 1 .. Len(tasks) /\ DOMAIN accepted = 1 .. Len(accepted)
      /\ Head(tasks) = tasks[1]
      /\ Len(Tail(tasks)) = Len(tasks) - 1
      /\ DOMAIN Tail(tasks) = 1 .. Len(tasks) - 1
      /\ \A i \in 1 .. Len(tasks) - 1 : Tail(tasks)[i] = tasks[i + 1]
  <2>1. /\ Tail(tasks) \in Seq(Queries) /\ Len(Tail(tasks)) = Len(tasks) - 1
        /\ \A i \in 1 .. Len(Tail(tasks)) : Tail(tasks)[i] = tasks[i + 1]
    BY <1>1, HeadTailProperties
  <2>2. /\ Len(tasks) \in Nat \ {0} /\ Len(accepted) \in Nat
        /\ DOMAIN tasks = 1 .. Len(tasks) /\ DOMAIN accepted = 1 .. Len(accepted)
    BY <1>1, EmptySeq, LenProperties
  <2>3. QED BY <1>1, <2>1, <2>2
<1> DEFINE n == Len(accepted) - Len(tasks)
<1>3. n \in Nat /\ n + 1 \in DOMAIN accepted /\ tasks[1] = accepted[n + 1]
  BY <1>2 DEF Queued
<1>4. ASSUME NEW i \in DOMAIN Tail(tasks)
      PROVE  /\ n + 1 + i \in DOMAIN accepted
             /\ Tail(tasks)[i] = accepted[n + 1 + i]
  <2>1. i + 1 \in DOMAIN tasks /\ n + (i + 1) = n + 1 + i /\ Tail(tasks)[i] = tasks[i + 1]
    BY <1>2
  <2>2. tasks[i + 1] = accepted[n + (i + 1)]
    BY <2>1 DEF Queued
  <2>3. QED BY <1>2, <1>3, <2>1, <2>2
<1>5. Len(accepted') - Len(tasks') = n + 1
  BY <1>2
<1> HIDE DEF n
<1>6. Queued'
  BY <1>2, <1>3, <1>4, <1>5 DEF Queued
<1>7. Head(tasks) \in Elems(accepted)
  BY <1>2, <1>3 DEF Elems
<1>8. Head(tasks) \notin Elems(Tail(tasks))
  <2>1. ASSUME NEW i \in DOMAIN Tail(tasks) PROVE Tail(tasks)[i] # Head(tasks)
    <3>1. n + 1 + i # n + 1
      BY <1>2, <1>3
    <3>2. QED BY <1>2, <1>3, <1>4, <3>1 DEF Queued
  <2>2. QED BY <2>1 DEF Elems
<1>9. QED BY <1>6, <1>7, <1>8

LEMMA QueuedHolds == Spec => [](Queued /\ TakenOnce)
<1> USE DEF Runners
<1>1. Init => Queued /\ TakenOnce
  BY DEF Init, Queued, TakenOnce, Elems
<1>2. TypeOK /\ Accounted /\ Queued /\ TakenOnce /\ [Next]_vars => (Queued /\ TakenOnce)'
  <2> SUFFICES ASSUME TypeOK, Accounted, Queued, TakenOnce, [Next]_vars
               PROVE  Queued' /\ TakenOnce'
    OBVIOUS
  <2>0. ASSUME NEW r \in Runners, tasks # <<>>, hand[r] = {}, PopFront(r)
        PROVE  Queued' /\ TakenOnce'
    <3>1. /\ tasks' = Tail(tasks) /\ hand' = [hand EXCEPT ![r] = {Head(tasks)}]
          /\ pc' = [pc EXCEPT ![r] = "run"]
          /\ UNCHANGED <<accepted, executed>>
      BY <2>0 DEF PopFront
    <3>2. Elems(tasks) = {Head(tasks)} \cup Elems(Tail(tasks))
      BY <2>0, FrontQuery DEF TypeOK
    <3>3. /\ Queued' /\ Head(tasks) \in Elems(accepted)
          /\ Head(tasks) \notin Elems(Tail(tasks))
      BY <2>0, <3>1, QueuedPop
    <3>4. CASE r = "thread"
      BY <3>1, <3>2, <3>3, <3>4 DEF TakenOnce, TypeOK
    <3>5. CASE r = "flusher"
      BY <3>1, <3>2, <3>3, <3>5 DEF TakenOnce, TypeOK
    <3>6. QED BY <3>3, <3>4, <3>5
  <2>1. ASSUME NEW c \in Callers, NEW q \in Queries, AddTask(c, q)
        PROVE  Queued' /\ TakenOnce'
    <3>1. /\ q \notin Elems(accepted)
          /\ tasks' = Append(tasks, q) /\ accepted' = Append(accepted, q)
          /\ UNCHANGED <<pc, hand, executed>>
      BY <2>1 DEF AddTask, Enqueued
    <3>2. /\ Elems(tasks') = Elems(tasks) \cup {q}
          /\ Elems(accepted') = Elems(accepted) \cup {q}
      BY <3>1, ElemsAppend DEF TypeOK
    <3>3. Queued'
      BY <3>1, QueuedAppend
    <3>4. QED BY <3>1, <3>2, <3>3 DEF TakenOnce
  <2>2. ASSUME NEW c \in Callers, NotifyThread(c) PROVE Queued' /\ TakenOnce'
    BY <2>2 DEF NotifyThread, Queued, TakenOnce
  <2>3. ASSUME NEW r \in Runners, Execute(r) PROVE Queued' /\ TakenOnce'
    <3>1. PICK q \in hand[r] : executed' = Append(executed, q)
      BY <2>3 DEF Execute
    <3>2. /\ pc[r] = "run" /\ pc' = [pc EXCEPT ![r] = "callback"]
          /\ UNCHANGED <<tasks, hand, accepted>>
      BY <2>3 DEF Execute
    <3>3. q \in Queries /\ q \notin Elems(executed) /\ executed \in Seq(Queries)
      BY <3>1, <3>2 DEF TakenOnce, TypeOK
    <3>4. Elems(executed') = Elems(executed) \cup {q}
      BY <3>1, <3>3, ElemsAppend
    <3>5. \A i, j \in DOMAIN executed' : executed'[i] = executed'[j] => i = j
      BY <3>1, <3>3, AppendFresh DEF TakenOnce
    <3>6. q \in Elems(accepted) /\ q \notin Elems(tasks)
      BY <3>1 DEF TakenOnce
    <3>7. \A s \in Runners : pc'[s] = "run" => hand'[s] \cap Elems(executed') = {}
      <4>1. ASSUME NEW s \in Runners, pc'[s] = "run"
            PROVE  hand[s] \cap (Elems(executed) \cup {q}) = {}
        <5>1. s # r /\ pc[s] = "run"
          BY <3>2, <4>1 DEF TypeOK
        <5>2. q \notin hand[s]
          BY <3>1, <5>1 DEF TakenOnce
        <5>3. QED BY <5>1, <5>2 DEF TakenOnce
      <4>2. QED BY <3>2, <3>4, <4>1
    <3>8. Queued'
      BY <3>2 DEF Queued
    <3>9. TakenOnce'
      BY <3>2, <3>4, <3>5, <3>6, <3>7 DEF TakenOnce
    <3>10. QED BY <3>8, <3>9
  <2>4. ASSUME NEW r \in Runners, PostCallback(r) PROVE Queued' /\ TakenOnce'
    <3>1. /\ hand' = [hand EXCEPT ![r] = {}]
          /\ pc'[r] # "run" /\ \A s \in Runners \ {r} : pc'[s] = pc[s]
          /\ UNCHANGED <<tasks, accepted, executed>>
      BY <2>4 DEF PostCallback, RunEnds, TypeOK
    <3>2. CASE r = "thread"
      BY <3>1, <3>2 DEF Queued, TakenOnce, TypeOK
    <3>3. CASE r = "flusher"
      BY <3>1, <3>3 DEF Queued, TakenOnce, TypeOK
    <3>4. QED BY <3>2, <3>3
  <2>5. CASE CheckState \/ BeginWait
    BY <2>5 DEF CheckState, BeginWait, Queued, TakenOnce, TypeOK
  <2>6. CASE TakeTask
    BY <2>0, <2>6 DEF TakeTask, TypeOK
  <2>7. CASE Wake
    <3>1. CASE tasks = <<>>
      BY <2>7, <3>1 DEF Wake, Queued, TakenOnce, TypeOK
    <3>2. CASE tasks # <<>>
      BY <2>0, <2>7, <3>2 DEF Wake, TypeOK
    <3>3. QED BY <3>1, <3>2
  <2>8. CASE FlushBegin \/ ShutdownState
    BY <2>8 DEF FlushBegin, ShutdownState, Queued, TakenOnce, TypeOK
  <2>9. CASE FlushTake
    BY <2>0, <2>9 DEF FlushTake, FlushGoesOn, TypeOK
  <2>10. CASE FlushReturn
    BY <2>10 DEF FlushReturn, Queued, TakenOnce, TypeOK
  <2>11. CASE Stop \/ ShutdownNotify
    BY <2>11 DEF Stop, ShutdownNotify, Queued, TakenOnce
  <2>12. CASE UNCHANGED vars
    BY <2>12 DEF vars, Queued, TakenOnce
  <2>13. QED
    BY <2>1, <2>2, <2>3, <2>4, <2>5, <2>6, <2>7, <2>8, <2>9, <2>10, <2>11, <2>12
       DEF Next, ThreadStep, FlushStep
<1>3. QED
  BY <1>1, <1>2, TypeCorrect, AccountedHolds, PTL DEF Spec

(* With two runners on one list, every query is executed at most once, and *)
(* in the order of posting but for the one in the other runner's hand.     *)
THEOREM ExecutedInOrderHolds == Spec => []ExecutedInOrder
<1>1. TypeOK /\ Accounted /\ Queued /\ TakenOnce => ExecutedInOrder
  <2> SUFFICES ASSUME TypeOK, Accounted, Queued, TakenOnce,
                      NEW i \in DOMAIN accepted, NEW j \in DOMAIN accepted, i < j,
                      accepted[j] \in Elems(executed), accepted[i] \notin Elems(executed)
               PROVE  accepted[i] \in hand["thread"] \cup hand["flusher"]
    BY DEF ExecutedInOrder, TakenOnce
  <2>1. /\ Len(tasks) \in Nat /\ Len(accepted) \in Nat
        /\ DOMAIN tasks = 1 .. Len(tasks) /\ DOMAIN accepted = 1 .. Len(accepted)
    BY LenProperties DEF TypeOK
  <2> DEFINE n == Len(accepted) - Len(tasks)
  <2>2. n \in Nat /\ \A k \in DOMAIN tasks : n + k \in DOMAIN accepted /\ tasks[k] = accepted[n + k]
    BY <2>1 DEF Queued
  <2>3. ASSUME j > n PROVE FALSE
    <3>1. j - n \in DOMAIN tasks /\ n + (j - n) = j
      BY <2>1, <2>3
    <3>2. accepted[j] \in Elems(tasks)
      BY <2>2, <3>1 DEF Elems
    <3>3. QED BY <3>2 DEF TakenOnce
  <2>4. ASSUME accepted[i] \in Elems(tasks) PROVE FALSE
    <3>1. PICK k \in DOMAIN tasks : tasks[k] = accepted[i]
      BY <2>4 DEF Elems
    <3>2. n + k \in DOMAIN accepted /\ accepted[n + k] = accepted[i]
      BY <2>2, <3>1
    <3>3. i = n + k
      BY <3>2 DEF Queued
    <3>4. QED BY <2>1, <2>2, <2>3, <3>1, <3>3
  <2>5. accepted[i] \in Elems(accepted)
    BY DEF Elems
  <2>6. QED BY <2>4, <2>5 DEF Accounted
<1>2. QED
  BY <1>1, TypeCorrect, AccountedHolds, QueuedHolds, PTL
=============================================================================
