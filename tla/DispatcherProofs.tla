-------------------------- MODULE DispatcherProofs --------------------------
(***************************************************************************)
(* Proofs about the dispatcher, for any sets of tasks and posting threads. *)
(***************************************************************************)
EXTENDS Dispatcher, TLAPS, SequenceTheorems

(* Taking the front task of a list of tasks leaves a list of tasks and     *)
(* yields a task (the pop_front of threadMain, tasks.cpp:53).              *)
LEMMA FrontIsTask ==
    ASSUME NEW S, NEW s \in Seq(S), s # <<>>
    PROVE  /\ Head(s) \in S /\ Tail(s) \in Seq(S)
           /\ \A x \in Elems(Tail(s)) : \E i \in DOMAIN s : i > 1 /\ s[i] = x
           /\ Elems(Tail(s)) \subseteq Elems(s)
           /\ Head(s) \in Elems(s)
           /\ \A x \in Elems(s) : x = Head(s) \/ x \in Elems(Tail(s))
<1>1. /\ Head(s) \in S /\ Tail(s) \in Seq(S)
      /\ Len(Tail(s)) = Len(s) - 1
      /\ \A i \in 1 .. Len(Tail(s)) : Tail(s)[i] = s[i+1]
  BY HeadTailProperties
<1>2. Len(s) \in Nat \ {0} /\ DOMAIN s = 1 .. Len(s) /\ DOMAIN Tail(s) = 1 .. Len(Tail(s))
  BY <1>1, EmptySeq, LenProperties
<1>3. Head(s) = s[1]
  BY <1>2
<1>4. \A x \in Elems(Tail(s)) : \E i \in DOMAIN s : i > 1 /\ s[i] = x
  <2>1. SUFFICES ASSUME NEW k \in 1 .. Len(Tail(s))
                 PROVE  \E i \in DOMAIN s : i > 1 /\ s[i] = Tail(s)[k]
    BY <1>2 DEF Elems
  <2>2. k + 1 \in DOMAIN s /\ k + 1 > 1 /\ s[k+1] = Tail(s)[k]
    BY <1>1, <1>2
  <2>3. QED BY <2>2
<1>5. ASSUME NEW i \in DOMAIN s, i # 1 PROVE s[i] \in Elems(Tail(s))
  <2>1. i - 1 \in DOMAIN Tail(s) /\ Tail(s)[i - 1] = s[i]
    BY <1>1, <1>2, <1>5
  <2>2. QED BY <2>1 DEF Elems
<1>6. QED BY <1>1, <1>2, <1>3, <1>4, <1>5 DEF Elems

(* Every reachable state of the dispatcher is well typed; in particular    *)
(* the worker holds a task exactly while it runs one.                      *)
THEOREM TypeCorrect == Spec => []TypeOK
<1>1. Init => TypeOK
  BY EmptySeq DEF Init, TypeOK
<1>2. TypeOK /\ [Next]_vars => TypeOK'
  <2> SUFFICES ASSUME TypeOK, [Next]_vars PROVE TypeOK'
    OBVIOUS
  <2> USE DEF TypeOK
  <2>0. ASSUME taskList # <<>>, PopFront, UNCHANGED signalled \/ signalled' = FALSE
        PROVE  TypeOK'
    <3>1. Head(taskList) \in AllTasks /\ Tail(taskList) \in Seq(AllTasks)
      BY <2>0, FrontIsTask
    <3>2. QED BY <2>0, <3>1 DEF PopFront
  <2>1. ASSUME NEW p \in Threads, NEW t \in Tasks, AddTask(p, t) PROVE TypeOK'
    <3>1. t \in AllTasks
      BY DEF AllTasks
    <3>2. Append(accepted, t) \in Seq(AllTasks) /\ Append(taskList, t) \in Seq(AllTasks)
      BY <3>1, AppendProperties
    <3>3. <<t>> \o taskList \in Seq(AllTasks)
      BY <3>1, ConcatProperties
    <3>4. QED BY <2>1, <3>1, <3>2, <3>3 DEF AddTask, Discard, Placed
  <2>2. ASSUME NEW p \in Threads, NotifyWorker(p) PROVE TypeOK'
    BY <2>2 DEF NotifyWorker
  <2>3. ASSUME NEW p \in Threads, Shutdown(p) PROVE TypeOK'
    <3>1. Append(accepted, Halt) \in Seq(AllTasks) /\ Append(taskList, Halt) \in Seq(AllTasks)
      BY AppendProperties DEF AllTasks
    <3>2. QED BY <2>3, <3>1 DEF Shutdown, WithHalt
  <2>4. CASE Stop
    BY <2>4 DEF Stop
  <2>5. CASE Wake
    BY <2>5, <2>0 DEF Wake
  <2>6. CASE CheckState
    BY <2>6 DEF CheckState
  <2>7. CASE BeginWait
    BY <2>7 DEF BeginWait
  <2>8. CASE TakeTask
    BY <2>8, <2>0 DEF TakeTask
  <2>9. CASE FinishTask
    BY <2>9 DEF FinishTask, StateAfterRun
  <2>10. CASE UNCHANGED vars
    BY <2>10 DEF vars
  <2>11. QED
    BY <2>1, <2>2, <2>3, <2>4, <2>5, <2>6, <2>7, <2>8, <2>9, <2>10 DEF Next, WorkerStep
<1>3. QED
  BY <1>1, <1>2, PTL DEF Spec
-----------------------------------------------------------------------------
(* No wake-up is lost, although addTask notifies after releasing the lock  *)
(* and only when it found the list empty: the property is inductive.       *)
THEOREM NoLostWakeupHolds == Spec => []NoLostWakeup
<1>1. Init => NoLostWakeup
  BY DEF Init, NoLostWakeup
<1>2. TypeOK /\ NoLostWakeup /\ [Next]_vars => NoLostWakeup'
  <2> SUFFICES ASSUME TypeOK, NoLostWakeup, [Next]_vars,
                      pc' = "waiting", taskList' # <<>>
               PROVE  signalled' \/ posting' # {}
    BY DEF NoLostWakeup
  <2> USE DEF NoLostWakeup
  <2>1. ASSUME NEW p \in Threads, NEW t \in Tasks, AddTask(p, t)
        PROVE  signalled' \/ posting' # {}
    <3>1. CASE taskList = <<>> /\ threadState = "RUNNING"
      BY <2>1, <3>1 DEF AddTask, MustSignal
    <3>2. CASE taskList # <<>>
      BY <2>1, <3>2 DEF AddTask, MustSignal
    <3>3. CASE taskList = <<>> /\ threadState # "RUNNING"
      BY <2>1, <3>3 DEF AddTask
    <3>4. QED BY <3>1, <3>2, <3>3
  <2>2. ASSUME NEW p \in Threads, NotifyWorker(p) PROVE signalled'
    BY <2>2 DEF NotifyWorker, TypeOK
  <2>3. ASSUME NEW p \in Threads, Shutdown(p) PROVE signalled'
    BY <2>3 DEF Shutdown, TypeOK
  <2>4. CASE Stop
    BY <2>4 DEF Stop
  <2>5. CASE Wake
    BY <2>5 DEF Wake, PopFront
  <2>6. CASE WorkerStep
    BY <2>6 DEF WorkerStep, CheckState, BeginWait, TakeTask, PopFront, FinishTask
  <2>7. CASE UNCHANGED vars
    BY <2>7 DEF vars
  <2>8. QED
    BY <2>1, <2>2, <2>3, <2>4, <2>5, <2>6, <2>7 DEF Next
<1>3. QED
  BY <1>1, <1>2, TypeCorrect, PTL DEF Spec
-----------------------------------------------------------------------------
(* The raw Task pointers have one owner at a time: no task is run twice or *)
(* deleted while it is still queued (tasks.cpp:44-65, 69-93).              *)
THEOREM OneOwnerHolds == Spec => []OneOwner
<1>1. Init => OneOwner
  BY DEF Init, OneOwner, Elems
<1>2. TypeOK /\ OneOwner /\ [Next]_vars => OneOwner'
  <2> SUFFICES ASSUME TypeOK, OneOwner, [Next]_vars PROVE OneOwner'
    OBVIOUS
  <2>a. ASSUME NEW t, t \notin Created, taskList' = Append(taskList, t) \/ taskList' = <<t>> \o taskList,
               UNCHANGED <<current, deleted>>, t \in AllTasks
        PROVE  OneOwner'
    <3>1. CASE taskList' = Append(taskList, t)
      <4>1. /\ DOMAIN taskList = 1 .. Len(taskList) /\ Len(taskList) \in Nat
            /\ DOMAIN taskList' = 1 .. Len(taskList) + 1
            /\ \A i \in 1 .. Len(taskList) : taskList'[i] = taskList[i]
            /\ taskList'[Len(taskList) + 1] = t
        BY <2>a, <3>1, AppendProperties, LenProperties DEF TypeOK
      <4>2. \A i \in DOMAIN taskList : taskList[i] # t
        BY <2>a DEF Created, Elems
      <4>3. \A i, j \in DOMAIN taskList' : taskList'[i] = taskList'[j] => i = j
        BY <4>1, <4>2 DEF OneOwner
      <4>4. Elems(taskList') \subseteq Elems(taskList) \cup {t}
        BY <4>1 DEF Elems
      <4>5. QED BY <2>a, <4>3, <4>4 DEF OneOwner, Created
    <3>2. CASE taskList' = <<t>> \o taskList
      <4>1. /\ DOMAIN taskList = 1 .. Len(taskList) /\ Len(taskList) \in Nat
            /\ DOMAIN taskList' = 1 .. Len(taskList) + 1
            /\ \A i \in 2 .. Len(taskList) + 1 : taskList'[i] = taskList[i - 1]
            /\ taskList'[1] = t
        <5>1. <<t>> \in Seq(AllTasks) /\ Len(<<t>>) = 1
          BY <2>a
        <5>2. /\ taskList' \in Seq(AllTasks)
              /\ Len(taskList') = 1 + Len(taskList)
              /\ \A i \in 1 .. 1 + Len(taskList) :
                   taskList'[i] = IF i <= 1 THEN <<t>>[i] ELSE taskList[i - 1]
          BY <3>2, <5>1, ConcatProperties DEF TypeOK
        <5>3. Len(taskList) \in Nat /\ DOMAIN taskList = 1 .. Len(taskList)
              /\ DOMAIN taskList' = 1 .. Len(taskList')
          BY <5>2, LenProperties DEF TypeOK
        <5>4. QED BY <5>2, <5>3
      <4>2. \A i \in DOMAIN taskList : taskList[i] # t
        BY <2>a DEF Created, Elems
      <4>3. \A i \in DOMAIN taskList' : i = 1 \/ (i - 1 \in DOMAIN taskList /\ taskList'[i] = taskList[i - 1])
        BY <4>1
      <4>4. \A i, j \in DOMAIN taskList' : taskList'[i] = taskList'[j] => i = j
        <5>1. SUFFICES ASSUME NEW i \in DOMAIN taskList', NEW j \in DOMAIN taskList',
                              taskList'[i] = taskList'[j]
                       PROVE  i = j
          OBVIOUS
        <5>2. CASE i = 1 \/ j = 1
          BY <4>1, <4>2, <4>3, <5>1, <5>2
        <5>3. CASE i # 1 /\ j # 1
          <6>1. i - 1 = j - 1
            BY <4>3, <5>1, <5>3 DEF OneOwner
          <6>2. QED BY <4>1, <6>1
        <5>4. QED BY <5>2, <5>3
      <4>5. Elems(taskList') \subseteq Elems(taskList) \cup {t}
        BY <4>1, <4>3 DEF Elems
      <4>6. QED BY <2>a, <4>4, <4>5 DEF OneOwner, Created
    <3>3. QED BY <2>a, <3>1, <3>2
  <2>b. ASSUME pc # "run", taskList # <<>>, PopFront PROVE OneOwner'
    <3>1. taskList \in Seq(AllTasks) /\ current = {}
      BY <2>b DEF TypeOK
    <3>2. /\ DOMAIN taskList = 1 .. Len(taskList) /\ Len(taskList) \in Nat
          /\ DOMAIN Tail(taskList) = 1 .. Len(taskList) - 1
          /\ Head(taskList) = taskList[1]
          /\ 1 \in DOMAIN taskList
          /\ \A i \in 1 .. Len(taskList) - 1 : Tail(taskList)[i] = taskList[i + 1]
      BY <2>b, <3>1, HeadTailProperties, LenProperties, EmptySeq
    <3>3. \A i, j \in DOMAIN Tail(taskList) : Tail(taskList)[i] = Tail(taskList)[j] => i = j
      BY <3>2 DEF OneOwner
    <3>4. Head(taskList) \notin Elems(Tail(taskList))
      BY <3>2 DEF OneOwner, Elems
    <3>5. Elems(Tail(taskList)) \subseteq Elems(taskList) /\ Head(taskList) \in Elems(taskList)
      BY <2>b, <3>1, FrontIsTask
    <3>6. QED BY <2>b, <3>3, <3>4, <3>5 DEF OneOwner, PopFront
  <2>1. ASSUME NEW p \in Threads, NEW t \in Tasks, AddTask(p, t) PROVE OneOwner'
    <3>1. CASE threadState = "RUNNING"
      BY <2>1, <2>a, <3>1 DEF AddTask, Discard, Placed, AllTasks
    <3>2. CASE threadState # "RUNNING"
      BY <2>1, <3>2 DEF AddTask, Discard, OneOwner, Created, Elems
    <3>3. QED BY <3>1, <3>2
  <2>2. ASSUME NEW p \in Threads, NotifyWorker(p) PROVE OneOwner'
    BY <2>2 DEF NotifyWorker, OneOwner
  <2>3. ASSUME NEW p \in Threads, Shutdown(p) PROVE OneOwner'
    BY <2>3, <2>a DEF Shutdown, WithHalt, AllTasks
  <2>4. CASE Stop
    BY <2>4 DEF Stop, OneOwner
  <2>5. CASE Wake
    <3>1. CASE taskList = <<>>
      BY <2>5, <3>1 DEF Wake, OneOwner
    <3>2. CASE taskList # <<>>
      BY <2>5, <2>b, <3>2 DEF Wake
    <3>3. QED BY <3>1, <3>2
  <2>6. CASE CheckState
    BY <2>6 DEF CheckState, OneOwner
  <2>7. CASE BeginWait
    BY <2>7 DEF BeginWait, OneOwner
  <2>8. CASE TakeTask
    BY <2>8, <2>b DEF TakeTask
  <2>9. CASE FinishTask
    BY <2>9 DEF FinishTask, OneOwner
  <2>10. CASE UNCHANGED vars
    BY <2>10 DEF vars, OneOwner
  <2>11. QED
    BY <2>1, <2>2, <2>3, <2>4, <2>5, <2>6, <2>7, <2>8, <2>9, <2>10 DEF Next, WorkerStep
<1>3. QED
  BY <1>1, <1>2, TypeCorrect, PTL DEF Spec
-----------------------------------------------------------------------------
(* FifoOrder together with who sets the TERMINATED state is inductive, and *)
(* gives DrainedAtExit.                                                    *)
ExitInv ==
    /\ Elems(accepted) \subseteq Created
    /\ pc = "done" => threadState = "TERMINATED"
    /\ threadState = "TERMINATED" => Halt \in deleted
    /\ FifoOrder

(* A new task at the back of the list keeps the order of acceptance.       *)
LEMMA AcceptKeepsOrder ==
    ASSUME TypeOK, ExitInv, NEW t \in AllTasks, t \notin Created,
           taskList' = Append(taskList, t), accepted' = Append(accepted, t),
           UNCHANGED <<current, deleted>>
    PROVE  FifoOrder' /\ (Elems(accepted) \subseteq Created)'
<1>1. /\ DOMAIN taskList = 1 .. Len(taskList) /\ Len(taskList) \in Nat
      /\ DOMAIN taskList' = 1 .. Len(taskList) + 1
      /\ \A m \in DOMAIN taskList : taskList'[m] = taskList[m]
      /\ taskList'[Len(taskList) + 1] = t
  BY AppendProperties, LenProperties DEF TypeOK
<1>2. /\ DOMAIN accepted = 1 .. Len(accepted) /\ Len(accepted) \in Nat
      /\ DOMAIN accepted' = 1 .. Len(accepted) + 1
      /\ \A i \in DOMAIN accepted : accepted'[i] = accepted[i]
      /\ accepted'[Len(accepted) + 1] = t
  BY AppendProperties, LenProperties DEF TypeOK
<1>3. /\ \A m \in DOMAIN taskList : taskList[m] # t
      /\ \A i \in DOMAIN accepted : accepted[i] # t
      /\ t \notin current \cup deleted
  BY DEF ExitInv, Created, Elems
<1>4. (Elems(accepted) \subseteq Created)'
  <2>1. Elems(accepted') \subseteq Elems(accepted) \cup {t}
    BY <1>2 DEF Elems
  <2>2. Elems(taskList) \cup {t} \subseteq Elems(taskList')
    BY <1>1 DEF Elems
  <2>3. QED BY <2>1, <2>2 DEF ExitInv, Created
<1>5. ASSUME NEW i \in DOMAIN accepted', NEW j \in DOMAIN accepted', i <= j
      PROVE  /\ accepted'[i] \in current' => accepted'[j] \notin deleted'
             /\ \A m \in DOMAIN taskList' : taskList'[m] = accepted'[i] =>
                  /\ accepted'[j] \notin current' \cup deleted'
                  /\ \A n \in DOMAIN taskList' : taskList'[n] = accepted'[j] => m <= n
  <2>1. CASE j = Len(accepted) + 1
    BY <1>1, <1>2, <1>3, <1>5, <2>1
  <2>2. CASE j # Len(accepted) + 1
    <3>1. i \in DOMAIN accepted /\ j \in DOMAIN accepted
      BY <1>2, <1>5, <2>2
    <3>2. accepted'[i] = accepted[i] /\ accepted'[j] = accepted[j]
      BY <1>2, <3>1
    <3>3. \A m \in DOMAIN taskList' : taskList'[m] \in {accepted[i], accepted[j]} =>
             m \in DOMAIN taskList /\ taskList'[m] = taskList[m]
      BY <1>1, <1>3, <3>1
    <3>4. QED BY <1>5, <3>1, <3>2, <3>3 DEF ExitInv, FifoOrder
  <2>3. QED BY <2>1, <2>2
<1>6. QED BY <1>4, <1>5 DEF FifoOrder

(* So does a scheduler's task pushed in front: it was never accepted at    *)
(* the back.                                                               *)
LEMMA PushFrontKeepsOrder ==
    ASSUME TypeOK, ExitInv, NEW t \in AllTasks, t \notin Created,
           taskList' = <<t>> \o taskList,
           UNCHANGED <<current, deleted, accepted>>
    PROVE  FifoOrder' /\ (Elems(accepted) \subseteq Created)'
<1>1. <<t>> \in Seq(AllTasks) /\ Len(<<t>>) = 1
  OBVIOUS
<1>2. /\ taskList' \in Seq(AllTasks)
      /\ Len(taskList') = 1 + Len(taskList)
      /\ \A m \in 1 .. 1 + Len(taskList) :
            taskList'[m] = IF m <= 1 THEN <<t>>[m] ELSE taskList[m - 1]
  BY <1>1, ConcatProperties DEF TypeOK
<1>3. /\ Len(taskList) \in Nat /\ DOMAIN taskList = 1 .. Len(taskList)
      /\ DOMAIN taskList' = 1 .. Len(taskList) + 1
      /\ \A m \in DOMAIN taskList' :
            m # 1 => m - 1 \in DOMAIN taskList /\ taskList'[m] = taskList[m - 1]
      /\ taskList'[1] = t
  BY <1>2, LenProperties DEF TypeOK
<1>4. \A i \in DOMAIN accepted : accepted[i] # t
  BY DEF ExitInv, Created, Elems
<1>5. Elems(taskList) \subseteq Elems(taskList')
  <2>1. ASSUME NEW m \in DOMAIN taskList
        PROVE  m + 1 \in DOMAIN taskList' /\ taskList'[m + 1] = taskList[m]
    BY <1>2, <1>3
  <2>2. QED BY <2>1 DEF Elems
<1>6. ASSUME NEW i \in DOMAIN accepted, NEW j \in DOMAIN accepted, i <= j,
             NEW m \in DOMAIN taskList', taskList'[m] = accepted[i]
      PROVE  /\ accepted[j] \notin current \cup deleted
             /\ \A n \in DOMAIN taskList' : taskList'[n] = accepted[j] => m <= n
  <2>1. m - 1 \in DOMAIN taskList /\ taskList[m - 1] = accepted[i]
    BY <1>3, <1>4, <1>6
  <2>2. \A n \in DOMAIN taskList' : taskList'[n] = accepted[j] =>
           n - 1 \in DOMAIN taskList /\ taskList[n - 1] = accepted[j]
    BY <1>3, <1>4
  <2>3. \A n \in DOMAIN taskList' : taskList'[n] = accepted[j] => m - 1 <= n - 1
    BY <1>6, <2>1, <2>2 DEF ExitInv, FifoOrder
  <2>4. QED BY <1>3, <1>6, <2>1, <2>3 DEF ExitInv, FifoOrder
<1>7. QED BY <1>5, <1>6 DEF ExitInv, FifoOrder, Created

(* The front task of the list has every task accepted before it finished.  *)
LEMMA PopKeepsOrder ==
    ASSUME TypeOK, ExitInv, OneOwner, pc # "run", taskList # <<>>, PopFront
    PROVE  FifoOrder' /\ (Elems(accepted) \subseteq Created)'
<1>1. taskList \in Seq(AllTasks) /\ current = {}
  BY DEF TypeOK
<1>2. /\ DOMAIN taskList = 1 .. Len(taskList) /\ Len(taskList) \in Nat
      /\ 1 \in DOMAIN taskList
      /\ Head(taskList) = taskList[1]
      /\ DOMAIN Tail(taskList) = 1 .. Len(taskList) - 1
      /\ \A m \in DOMAIN Tail(taskList) :
            m + 1 \in DOMAIN taskList /\ Tail(taskList)[m] = taskList[m + 1]
  BY <1>1, HeadTailProperties, LenProperties, EmptySeq
<1>3. /\ taskList' = Tail(taskList) /\ current' = {taskList[1]}
      /\ UNCHANGED <<accepted, deleted>>
  BY <1>2 DEF PopFront
<1>4. (Elems(accepted) \subseteq Created)'
  BY <1>1, <1>3, FrontIsTask DEF ExitInv, Created, PopFront
<1>5. ASSUME NEW i \in DOMAIN accepted, NEW j \in DOMAIN accepted, i <= j
      PROVE  accepted[i] = taskList[1] => accepted[j] \notin deleted
  BY <1>2, <1>5 DEF ExitInv, FifoOrder
<1>6. ASSUME NEW i \in DOMAIN accepted, NEW j \in DOMAIN accepted, i <= j,
             NEW m \in DOMAIN Tail(taskList), Tail(taskList)[m] = accepted[i]
      PROVE  /\ accepted[j] \notin {taskList[1]} \cup deleted
             /\ \A n \in DOMAIN Tail(taskList) : Tail(taskList)[n] = accepted[j] => m <= n
  <2>1. m + 1 \in DOMAIN taskList /\ taskList[m + 1] = accepted[i]
    BY <1>2, <1>6
  <2>2. accepted[j] \notin deleted
    BY <1>6, <2>1 DEF ExitInv, FifoOrder
  <2>3. accepted[j] # taskList[1]
    BY <1>2, <1>6, <2>1 DEF ExitInv, FifoOrder
  <2>4. \A n \in DOMAIN Tail(taskList) : Tail(taskList)[n] = accepted[j] => m + 1 <= n + 1
    BY <1>2, <1>6, <2>1 DEF ExitInv, FifoOrder
  <2>5. QED BY <1>2, <2>2, <2>3, <2>4
<1>7. QED BY <1>3, <1>4, <1>5, <1>6 DEF FifoOrder

(* Order and state of the thread, in every reachable state.                *)
THEOREM ExitInvHolds == Spec => []ExitInv
<1>1. Init => ExitInv
  BY DEF Init, ExitInv, FifoOrder, Elems
<1>2. TypeOK /\ OneOwner /\ ExitInv /\ [Next]_vars => ExitInv'
  <2> SUFFICES ASSUME TypeOK, OneOwner, ExitInv, [Next]_vars PROVE ExitInv'
    OBVIOUS
  <2>1. ASSUME NEW p \in Threads, NEW t \in Tasks, AddTask(p, t) PROVE ExitInv'
    <3>1. CASE threadState # "RUNNING"
      BY <2>1, <3>1 DEF AddTask, Discard, ExitInv, FifoOrder, Created, Elems
    <3>2. CASE threadState = "RUNNING" /\ t \in TimerTasks
      BY <2>1, <3>2, PushFrontKeepsOrder DEF AddTask, Discard, Placed, ExitInv, AllTasks
    <3>3. CASE threadState = "RUNNING" /\ t \notin TimerTasks
      BY <2>1, <3>3, AcceptKeepsOrder DEF AddTask, Discard, Placed, ExitInv, AllTasks
    <3>4. QED BY <3>1, <3>2, <3>3
  <2>2. ASSUME NEW p \in Threads, NotifyWorker(p) PROVE ExitInv'
    BY <2>2 DEF NotifyWorker, ExitInv, FifoOrder, Created
  <2>3. ASSUME NEW p \in Threads, Shutdown(p) PROVE ExitInv'
    BY <2>3, AcceptKeepsOrder DEF Shutdown, WithHalt, ExitInv, AllTasks
  <2>4. CASE Stop
    BY <2>4 DEF Stop, ExitInv, FifoOrder, Created
  <2>5. CASE Wake
    <3>1. CASE taskList = <<>>
      BY <2>5, <3>1 DEF Wake, ExitInv, FifoOrder, Created
    <3>2. CASE taskList # <<>>
      BY <2>5, <3>2, PopKeepsOrder DEF Wake, PopFront, ExitInv
    <3>3. QED BY <3>1, <3>2
  <2>6. CASE CheckState
    BY <2>6 DEF CheckState, ExitInv, FifoOrder, Created
  <2>7. CASE BeginWait
    BY <2>7 DEF BeginWait, ExitInv, FifoOrder, Created
  <2>8. CASE TakeTask
    BY <2>8, PopKeepsOrder DEF TakeTask, PopFront, ExitInv
  <2>9. CASE FinishTask
    <3>1. (Elems(accepted) \subseteq Created)'
      BY <2>9 DEF FinishTask, ExitInv, Created
    <3>2. FifoOrder'
      BY <2>9 DEF FinishTask, ExitInv, FifoOrder
    <3>3. QED BY <2>9, <3>1, <3>2 DEF FinishTask, StateAfterRun, ExitInv
  <2>10. CASE UNCHANGED vars
    BY <2>10 DEF vars, ExitInv, FifoOrder, Created
  <2>11. QED
    BY <2>1, <2>2, <2>3, <2>4, <2>5, <2>6, <2>7, <2>8, <2>9, <2>10 DEF Next, WorkerStep
<1>3. QED
  BY <1>1, <1>2, TypeCorrect, OneOwnerHolds, PTL DEF Spec

(* Tasks posted by addTask(task) are run in the order of acceptance.       *)
THEOREM FifoOrderHolds == Spec => []FifoOrder
<1>1. ExitInv => FifoOrder
  BY DEF ExitInv
<1>2. QED
  BY <1>1, ExitInvHolds, PTL

(* Dispatcher::shutdown() drains: when the worker has left its loop, every *)
(* task accepted before the halting one has been finished.                 *)
THEOREM DrainedAtExitHolds == Spec => []DrainedAtExit
<1>1. TypeOK /\ ExitInv => DrainedAtExit
  <2> SUFFICES ASSUME TypeOK, ExitInv, pc = "done",
                      NEW i \in DOMAIN accepted, NEW j \in DOMAIN accepted,
                      i <= j, accepted[j] = Halt
               PROVE  accepted[i] \in deleted
    BY DEF DrainedAtExit
  <2>1. accepted[j] \in deleted
    BY DEF ExitInv
  <2>2. accepted[i] \in Elems(taskList) \cup current \cup deleted
    BY DEF ExitInv, Created, Elems
  <2>3. current = {}
    BY DEF TypeOK
  <2>4. accepted[i] \notin Elems(taskList)
    BY <2>1 DEF ExitInv, FifoOrder, Elems
  <2>5. QED BY <2>2, <2>3, <2>4
<1>2. QED
  BY <1>1, TypeCorrect, ExitInvHolds, PTL
=============================================================================
