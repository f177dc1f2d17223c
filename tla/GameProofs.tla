----------------------------- MODULE GameProofs -----------------------------
(***************************************************************************)
(* Proofs about what a player does next (Walking), about the monsters of a *)
(* spawn (Spawns), about items that change by themselves (Decay) and about *)
(* how fast a player is (Speed).                                           *)
(***************************************************************************)
EXTENDS Walking, Spawns, Decay, Speed, TLAPS, FiniteSetTheorems, WellFoundedInduction, NaturalsInduction,
        SequenceTheorems

(* Numbers and finite sets *)

\* A set of numbers with something in it has a least one: what the arguments by
\* induction on the size of a set, and along a loop, rest on.
LEMMA LeastNumber ==
  ASSUME NEW T \in SUBSET Nat, T # {}
  PROVE  \E n \in T : \A m \in T : n <= m
<1>1. PICK n \in T : \A m \in T : ~(<<m, n>> \in OpToRel(<, Nat))
  BY WFMin, NatLessThanWellFounded
<1>2. \A m \in T : <<m, n>> \in OpToRel(<, Nat) <=> m < n
  BY DEF OpToRel
<1>3. \A m \in T : ~(m < n)
  BY <1>1, <1>2, Zenon
<1>4. QED BY <1>3

\* 1..n has n elements.
LEMMA UpTo ==
  ASSUME NEW n \in Nat
  PROVE  IsFiniteSet(1..n) /\ Cardinality(1..n) = n
<1>1. \A p, q \in Int : IsFiniteSet(p..q) /\ Cardinality(p..q) = IF p > q THEN 0 ELSE q - p + 1
  BY FS_Interval
<1>2. 1 \in Int /\ n \in Int
  OBVIOUS
<1>3. IsFiniteSet(1..n) /\ Cardinality(1..n) = IF 1 > n THEN 0 ELSE n - 1 + 1
  BY <1>1, <1>2, Zenon
<1> QED BY <1>3

\* The image of a finite set is finite.
LEMMA FiniteImage ==
  ASSUME NEW S, IsFiniteSet(S), NEW f, DOMAIN f = S
  PROVE  IsFiniteSet({f[x] : x \in S})
<1> DEFINE T == {f[x] : x \in S}
           g == [x \in S |-> f[x]]
<1>1. g \in Surjection(S, T)
  BY DEF Surjection
<1> QED BY <1>1, FS_Surjection

-----------------------------------------------------------------------------
(* Walking *)

\* Timers, what waits in the dispatcher's list, and all that is kept of a player.
Timers == [id : Nat \ {0}, do : Commands \union {"step"}]
Waiting == Timers \union [id : {0}, do : {"go"}, steps : Int]
Plans == [steps : Int, moves : BOOLEAN, cancel : BOOLEAN, stranded : BOOLEAN,
          slot : [Slots -> Nat], walkTask : Commands \union {NoTask}, inPush : BOOLEAN,
          timers : SUBSET Timers, queue : Seq(Waiting)]

\* A new event id is that of no timer, of nothing that waits, and in no slot.
LEMMA Fresh ==
  ASSUME NEW u \in Plans, IsFiniteSet(u.timers)
  PROVE  /\ NewId(u) \in Nat \ {0}
         /\ \A t \in u.timers : t.id # NewId(u)
         /\ \A j \in DOMAIN u.queue : u.queue[j].id # NewId(u)
         /\ \A s \in Slots : u.slot[s] # NewId(u)
<1>1. IsFiniteSet({t.id : t \in u.timers})
  <2> DEFINE f == [t \in u.timers |-> t.id]
  <2>1. IsFiniteSet({f[t] : t \in u.timers})
    <3>1. DOMAIN f = u.timers
      OBVIOUS
    <3> HIDE DEF f
    <3> QED BY <3>1, FiniteImage
  <2> QED BY <2>1
<1>2. IsFiniteSet({u.queue[j].id : j \in DOMAIN u.queue})
  <2>1. Len(u.queue) \in Nat /\ DOMAIN u.queue = 1..Len(u.queue)
    BY DEF Plans
  <2>2. IsFiniteSet(DOMAIN u.queue)
    BY <2>1, UpTo
  <2> DEFINE f == [j \in DOMAIN u.queue |-> u.queue[j].id]
  <2>3. IsFiniteSet({f[j] : j \in DOMAIN u.queue})
    <3>1. DOMAIN f = DOMAIN u.queue
      OBVIOUS
    <3> HIDE DEF f
    <3> QED BY <2>2, <3>1, FiniteImage
  <2> QED BY <2>3
<1>3. IsFiniteSet({u.slot[s] : s \in Slots})
  <2>1. IsFiniteSet(Slots)
    <3>1. IsFiniteSet({}) /\ \A S, x : IsFiniteSet(S) => IsFiniteSet(S \union {x})
      BY FS_EmptySet, FS_AddElement
    <3>2. Slots = (((({} \union {"step"}) \union {"walk"}) \union {"action"}) \union {"potion"}) \union {"push"}
      BY DEF Slots
    <3> QED BY <3>1, <3>2
  <2>2. DOMAIN u.slot = Slots
    BY DEF Plans
  <2> QED BY <2>1, <2>2, FiniteImage
<1>4. PICK I : I = Taken(u)
  OBVIOUS
<1>5. IsFiniteSet(I)
  BY <1>1, <1>2, <1>3, <1>4, FS_Union DEF Taken
<1>6. PICK n \in Nat : n = Cardinality(I)
  BY <1>5, FS_CardinalityType
<1> DEFINE T == 1..(n + 1) \ I
<1>7. T # {}
  <2> SUFFICES ASSUME 1..(n + 1) \subseteq I PROVE FALSE
    OBVIOUS
  <2>1. n + 1 \in Nat
    OBVIOUS
  <2>2. Cardinality(1..(n + 1)) = n + 1
    BY <2>1, UpTo
  <2>3. Cardinality(1..(n + 1)) <= Cardinality(I)
    BY <1>5, FS_Subset
  <2> QED BY <1>6, <2>2, <2>3
<1>8. T \in SUBSET Nat
  OBVIOUS
<1> HIDE DEF T
<1>9. \E k \in T : \A m \in T : k <= m
  BY <1>7, <1>8, LeastNumber
<1>10. Min(T) \in T
  BY <1>9 DEF Min
<1>11. NewId(u) = Min(T)
  BY <1>4, <1>6 DEF NewId, T
<1>12. NewId(u) \in Nat \ {0} /\ NewId(u) \notin Taken(u)
  BY <1>4, <1>10, <1>11 DEF T
<1> QED BY <1>12 DEF Taken

-----------------------------------------------------------------------------

\* A timer of an action is in the slot of some kind; while something waits for
\* the end of the walk no timer does; no two slots have the same timer; what is
\* in the slot of the next step is a step.
Filed(u) == \A t \in u.timers : t.do # "step" => \E s \in Slots \ {"step"} : u.slot[s] = t.id
Alone(u) == u.walkTask # NoTask => \A t \in u.timers : t.id # u.slot["walk"]
Apart(u) == \A s, r \in Slots : s # r /\ u.slot[s] # 0 => u.slot[s] # u.slot[r]
IsStep(u, t) == t.id = u.slot["step"] /\ u.slot["step"] # 0 => t.do = "step"
Stepping(u) == /\ \A t \in u.timers : IsStep(u, t)
               /\ \A j \in DOMAIN u.queue : IsStep(u, u.queue[j])
Shaped(u) == u \in Plans /\ IsFiniteSet(u.timers) /\ Filed(u) /\ Apart(u) /\ Stepping(u)
Sound(u) == Shaped(u) /\ Alone(u)

\* The slot of the next step has the id of a timer that is there or expired.
Timed(u) == u.slot["step"] # 0 => Exists(u, u.slot["step"])

\* What has nothing to do with the walk.
SameWalk(u, v) ==
  /\ v.steps = u.steps /\ v.moves = u.moves /\ v.cancel = u.cancel /\ v.stranded = u.stranded
  /\ v.queue = u.queue /\ v.walkTask = u.walkTask

\* A slot is emptied and its timer stopped.
LEMMA StoppedIs ==
  ASSUME NEW u \in Plans, NEW s \in Slots
  PROVE  LET v == Stopped(u, s) IN
         /\ v \in Plans /\ SameWalk(u, v) /\ v.inPush = u.inPush
         /\ v.slot = [u.slot EXCEPT ![s] = 0]
         /\ v.timers = {t \in u.timers : u.slot[s] = 0 \/ t.id # u.slot[s]}
  BY DEF Plans, Stopped, SameWalk

\* Stopping a timer and taking it out of its slot (Scheduler::stopEvent and the setters) leaves a sound player.
LEMMA StoppedSound ==
  ASSUME NEW u, Sound(u), NEW s \in Slots
  PROVE  LET v == Stopped(u, s) IN
         /\ Sound(v) /\ SameWalk(u, v) /\ v.inPush = u.inPush /\ v.slot[s] = 0
         /\ \A r \in Slots \ {s} : v.slot[r] = u.slot[r]
         /\ \A t \in v.timers : t \in u.timers
         /\ \A t \in u.timers : t \in v.timers \/ (t.id = u.slot[s] /\ u.slot[s] # 0)
<1> DEFINE v == Stopped(u, s)
<1>1. u \in Plans /\ IsFiniteSet(u.timers) /\ Filed(u) /\ Alone(u) /\ Apart(u) /\ Stepping(u)
  BY DEF Sound, Shaped
<1>2. /\ v \in Plans /\ SameWalk(u, v) /\ v.inPush = u.inPush
      /\ v.slot = [u.slot EXCEPT ![s] = 0]
      /\ v.timers = {t \in u.timers : u.slot[s] = 0 \/ t.id # u.slot[s]}
  BY <1>1, StoppedIs
<1> HIDE DEF v
<1>3. /\ v.slot[s] = 0 /\ \A r \in Slots \ {s} : v.slot[r] = u.slot[r]
      /\ v.timers \subseteq u.timers
      /\ \A t \in u.timers : t \in v.timers \/ (t.id = u.slot[s] /\ u.slot[s] # 0)
      /\ \A t \in v.timers : t.id # 0 /\ (u.slot[s] # 0 => t.id # u.slot[s])
      /\ v.queue = u.queue /\ v.walkTask = u.walkTask
  BY <1>1, <1>2 DEF Plans, Timers, SameWalk
<1>4. IsFiniteSet(v.timers)
  BY <1>1, <1>3, FS_Subset
<1>5. Filed(v)
  <2> SUFFICES ASSUME NEW t \in v.timers, t.do # "step" PROVE \E r \in Slots \ {"step"} : v.slot[r] = t.id
    BY DEF Filed
  <2>1. PICK r \in Slots \ {"step"} : u.slot[r] = t.id
    BY <1>1, <1>3 DEF Filed
  <2>2. r # s
    BY <1>3, <2>1
  <2> QED BY <1>3, <2>1, <2>2
<1>6. Alone(v)
  BY <1>1, <1>3 DEF Alone, Slots
<1>7. Apart(v)
  <2> SUFFICES ASSUME NEW q \in Slots, NEW r \in Slots, q # r, v.slot[q] # 0 PROVE v.slot[q] # v.slot[r]
    BY DEF Apart
  <2> QED BY <1>1, <1>3 DEF Apart
<1>8. Stepping(v)
  BY <1>1, <1>3 DEF Stepping, IsStep, Slots
<1> QED BY <1>2, <1>3, <1>4, <1>5, <1>6, <1>7, <1>8 DEF Sound, Shaped, v

\* A new timer is made and filed in an empty slot, or one whose timer has expired.
LEMMA ArmedSound ==
  ASSUME NEW u, Sound(u), NEW s \in Slots, NEW do \in Commands \union {"step"},
         do = "step" <=> s = "step",
         s # "step" => \A t \in u.timers : t.id # u.slot[s]
  PROVE  LET v == Armed(u, s, do) IN
         /\ Shaped(v) /\ (s # "walk" => Alone(v)) /\ SameWalk(u, v) /\ v.inPush = u.inPush /\ v.slot[s] # 0
         /\ \A r \in Slots \ {s} : v.slot[r] = u.slot[r]
         /\ \A t \in u.timers : t \in v.timers
         /\ \E t \in v.timers : t.id = v.slot[s]
<1> DEFINE v == Armed(u, s, do)
<1>1. u \in Plans /\ IsFiniteSet(u.timers) /\ Filed(u) /\ Alone(u) /\ Apart(u) /\ Stepping(u)
  BY DEF Sound, Shaped
<1>2. PICK id : id = NewId(u)
  OBVIOUS
<1>3. /\ id \in Nat \ {0}
      /\ \A t \in u.timers : t.id # id
      /\ \A j \in DOMAIN u.queue : u.queue[j].id # id
      /\ \A r \in Slots : u.slot[r] # id
  BY <1>1, <1>2, Fresh
<1>4. PICK new : new = [id |-> id, do |-> do]
  OBVIOUS
<1>5. new \in Timers /\ new.id = id /\ new.do = do
  BY <1>3, <1>4 DEF Timers
<1>6. v = [u EXCEPT !.slot[s] = id, !.timers = u.timers \union {new}]
  BY <1>2, <1>4 DEF Armed
<1>7. /\ v \in Plans /\ SameWalk(u, v) /\ v.inPush = u.inPush
      /\ v.slot = [u.slot EXCEPT ![s] = id] /\ v.timers = u.timers \union {new}
  <2>1. [u.slot EXCEPT ![s] = id] \in [Slots -> Nat] /\ u.timers \union {new} \in SUBSET Timers
    BY <1>1, <1>3, <1>5 DEF Plans
  <2> QED BY <1>1, <1>6, <2>1 DEF Plans, SameWalk
<1> HIDE DEF v
<1>8. /\ v.slot[s] = id /\ \A r \in Slots \ {s} : v.slot[r] = u.slot[r]
      /\ \A t \in u.timers : t.id # 0
      /\ v.queue = u.queue /\ v.walkTask = u.walkTask
  BY <1>1, <1>7 DEF Plans, Timers, SameWalk
<1>9. IsFiniteSet(v.timers)
  BY <1>1, <1>7, FS_AddElement
<1>10. Filed(v)
  <2> SUFFICES ASSUME NEW t \in v.timers, t.do # "step" PROVE \E r \in Slots \ {"step"} : v.slot[r] = t.id
    BY DEF Filed
  <2>1. CASE t = new
    BY <1>5, <1>8, <2>1
  <2>2. CASE t # new
    <3>1. t \in u.timers
      BY <1>7, <2>2
    <3>2. PICK r \in Slots \ {"step"} : u.slot[r] = t.id
      BY <1>1, <3>1 DEF Filed
    <3>3. r # s
      BY <3>1, <3>2
    <3> QED BY <1>8, <3>2, <3>3
  <2> QED BY <2>1, <2>2
<1>11. Apart(v)
  <2> SUFFICES ASSUME NEW q \in Slots, NEW r \in Slots, q # r, v.slot[q] # 0 PROVE v.slot[q] # v.slot[r]
    BY DEF Apart
  <2> QED BY <1>1, <1>3, <1>8 DEF Apart
<1>12. Stepping(v)
  <2>1. CASE s = "step"
    BY <1>1, <1>3, <1>5, <1>7, <1>8, <2>1 DEF Stepping, IsStep
  <2>2. CASE s # "step"
    <3>1. v.slot["step"] = u.slot["step"] /\ u.slot["step"] # id
      BY <1>3, <1>8, <2>2 DEF Slots
    <3> QED BY <1>1, <1>5, <1>7, <1>8, <3>1 DEF Stepping, IsStep
  <2> QED BY <2>1, <2>2
<1>13. s # "walk" => Alone(v)
  <2> SUFFICES ASSUME s # "walk", v.walkTask # NoTask, NEW t \in v.timers PROVE t.id # v.slot["walk"]
    BY DEF Alone
  <2>1. v.slot["walk"] = u.slot["walk"] /\ u.slot["walk"] # id
    BY <1>3, <1>8 DEF Slots
  <2> QED BY <1>1, <1>5, <1>7, <1>8, <2>1 DEF Alone
<1> QED BY <1>3, <1>5, <1>7, <1>8, <1>9, <1>10, <1>11, <1>12, <1>13 DEF Shaped, v

-----------------------------------------------------------------------------

\* He has steps to go or something to do at the end; the next step is timed; he
\* has a way to go in the dispatcher's list.
Owed(u) == u.moves /\ ~u.stranded /\ (u.steps > 0 \/ u.walkTask # NoTask)
UnderWay(u) == u.slot["step"] # 0 /\ Exists(u, u.slot["step"])
Sent(u) == \E j \in DOMAIN u.queue : u.queue[j].do = "go"
OnTheWay(u) == Owed(u) => UnderWay(u) \/ Sent(u)
Headed(u) == Sound(u) /\ Timed(u) /\ OnTheWay(u)

\* Nothing new is owed, and the timer of the next step is what it was, unless
\* nothing is owed any more.
On(u, v) ==
  /\ v.queue = u.queue
  /\ Owed(v) => Owed(u) /\ v.slot["step"] = u.slot["step"]
  /\ v.slot["step"] # 0 => /\ v.slot["step"] = u.slot["step"]
                           /\ Exists(u, u.slot["step"]) => Exists(v, u.slot["step"])

\* The walk itself is not touched.
Aside(u, v) ==
  /\ SameWalk(u, v) /\ v.slot["step"] = u.slot["step"]
  /\ v.slot["step"] # 0 /\ Exists(u, u.slot["step"]) => Exists(v, u.slot["step"])

\* What leaves the walk alone leaves it at least as far on.
LEMMA AsideIsOn ==
  ASSUME NEW u, NEW v, Aside(u, v)
  PROVE  On(u, v)
  BY DEF Aside, On, SameWalk, Owed

\* So do two such steps in a row.
LEMMA AsideTwice ==
  ASSUME NEW u, NEW v, NEW w, Aside(u, v), Aside(v, w)
  PROVE  Aside(u, w)
  BY DEF Aside, SameWalk

\* Two steps that each leave the walk as far on do so together.
LEMMA OnTwice ==
  ASSUME NEW u, NEW v, NEW w, On(u, v), On(v, w)
  PROVE  On(u, w)
  BY DEF On

\* A sound and timed player whose walk is as far on is still on his way.
LEMMA StillHeaded ==
  ASSUME NEW u, NEW v, Headed(u), Sound(v), On(u, v)
  PROVE  Headed(v)
  BY DEF Headed, On, Timed, OnTheWay, UnderWay, Sent

\* A timer that is not lost is still there.
LEMMA StillThere ==
  ASSUME NEW u, NEW v, NEW id, v.queue = u.queue,
         \A t \in u.timers : t \in v.timers \/ t.id # id, Exists(u, id)
  PROVE  Exists(v, id)
  BY DEF Exists

\* Stopping the timer of another kind.
LEMMA StoppedAside ==
  ASSUME NEW u, Sound(u), NEW s \in Slots \ {"step"}
  PROVE  LET v == Stopped(u, s) IN
         /\ Sound(v) /\ Aside(u, v) /\ v.slot[s] = 0
         /\ \A r \in Slots \ {s} : v.slot[r] = u.slot[r]
<1> DEFINE v == Stopped(u, s)
<1>1. /\ Sound(v) /\ SameWalk(u, v) /\ v.slot[s] = 0
      /\ \A r \in Slots \ {s} : v.slot[r] = u.slot[r]
      /\ \A t \in u.timers : t \in v.timers \/ (t.id = u.slot[s] /\ u.slot[s] # 0)
  BY StoppedSound
<1> HIDE DEF v
<1>2. v.slot["step"] = u.slot["step"] /\ v.queue = u.queue
  BY <1>1 DEF Slots, SameWalk
<1>3. u.slot["step"] # 0 => \A t \in u.timers : t \in v.timers \/ t.id # u.slot["step"]
  <2>1. Apart(u) /\ "step" \in Slots /\ s \in Slots
    BY DEF Sound, Shaped, Slots
  <2> QED BY <1>1, <2>1 DEF Apart
<1>4. u.slot["step"] # 0 /\ Exists(u, u.slot["step"]) => Exists(v, u.slot["step"])
  BY <1>2, <1>3, StillThere
<1>5. Aside(u, v)
  BY <1>1, <1>2, <1>4 DEF Aside
<1> QED BY <1>1, <1>5 DEF v

\* A timer in an empty slot of another kind.
LEMMA ArmedAside ==
  ASSUME NEW u, Sound(u), NEW s \in {"action", "potion", "push"}, u.slot[s] = 0,
         NEW do \in Commands
  PROVE  LET v == Armed(u, s, do) IN
         Sound(v) /\ Aside(u, v) /\ \A r \in Slots \ {s} : v.slot[r] = u.slot[r]
<1> DEFINE v == Armed(u, s, do)
<1>1. do \in Commands \union {"step"} /\ (do = "step" <=> s = "step") /\ s \in Slots
  BY DEF Commands, Slots
<1>2. \A t \in u.timers : t.id # u.slot[s]
  BY DEF Sound, Shaped, Plans, Timers
<1>3. /\ Shaped(v) /\ Alone(v) /\ SameWalk(u, v)
      /\ \A r \in Slots \ {s} : v.slot[r] = u.slot[r]
      /\ \A t \in u.timers : t \in v.timers
  BY <1>1, <1>2, ArmedSound
<1> HIDE DEF v
<1>4. v.slot["step"] = u.slot["step"] /\ v.queue = u.queue
  BY <1>3 DEF Slots, SameWalk
<1>5. Exists(u, u.slot["step"]) => Exists(v, u.slot["step"])
  BY <1>3, <1>4, StillThere
<1>6. Sound(v) /\ Aside(u, v)
  BY <1>3, <1>4, <1>5 DEF Aside, Sound
<1> QED BY <1>3, <1>6 DEF v

\* A timer that is set only when a command has to wait.
LEMMA ArmedIfAside ==
  ASSUME NEW u, Sound(u), NEW s \in {"action", "potion", "push"}, u.slot[s] = 0,
         NEW do \in Commands \union {NoTask}
  PROVE  LET v == ArmedIf(u, s, do) IN Sound(v) /\ Aside(u, v)
<1>1. CASE do = NoTask
  BY <1>1 DEF ArmedIf, Aside, SameWalk
<1>2. CASE do # NoTask
  BY <1>2, ArmedAside DEF ArmedIf
<1> QED BY <1>1, <1>2

\* inPush has nothing to do with it.
LEMMA InPushAside ==
  ASSUME NEW u, Sound(u), NEW v, v \in Plans, v.slot = u.slot, v.timers = u.timers, SameWalk(u, v)
  PROVE  Sound(v) /\ Aside(u, v)
<1>1. v.queue = u.queue /\ v.walkTask = u.walkTask
  BY DEF SameWalk
<1>2. Sound(v)
  BY <1>1 DEF Sound, Shaped, Filed, Alone, Apart, Stepping, IsStep
<1>3. \A id : Exists(u, id) => Exists(v, id)
  BY <1>1 DEF Exists
<1> QED BY <1>2, <1>3 DEF Aside

\* Player::cancelPush: the timer of a push is stopped, and nothing of the walk.
LEMMA PushCancelledAside ==
  ASSUME NEW u, Sound(u)
  PROVE  LET v == PushCancelled(u) IN
         Sound(v) /\ Aside(u, v) /\ \A r \in Slots \ {"push"} : v.slot[r] = u.slot[r]
<1>1. CASE u.slot["push"] = 0
  BY <1>1 DEF PushCancelled, Aside, SameWalk
<1>2. CASE u.slot["push"] # 0
  <2> DEFINE w == Stopped(u, "push")
             v == PushCancelled(u)
  <2>1. Sound(w) /\ Aside(u, w) /\ \A r \in Slots \ {"push"} : w.slot[r] = u.slot[r]
    <3>1. "push" \in Slots \ {"step"}
      BY DEF Slots
    <3> QED BY <3>1, StoppedAside
  <2>2. v = [w EXCEPT !.inPush = FALSE]
    BY <1>2 DEF PushCancelled
  <2> HIDE DEF w, v
  <2>3. v \in Plans /\ v.slot = w.slot /\ v.timers = w.timers /\ SameWalk(w, v)
    BY <2>1, <2>2 DEF Sound, Shaped, Plans, SameWalk
  <2>4. Sound(v) /\ Aside(w, v)
    BY <2>1, <2>3, InPushAside
  <2>5. Aside(u, v)
    BY <2>1, <2>4, AsideTwice
  <2> QED BY <2>1, <2>3, <2>4, <2>5 DEF v
<1> QED BY <1>1, <1>2

\* The handlers' three ways to put something off.
LEMMA NextActionAside ==
  ASSUME NEW u, Sound(u), NEW do \in Commands \union {NoTask}
  PROVE  LET v == NextAction(u, do) IN Sound(v) /\ Aside(u, v)
<1> DEFINE w == Stopped(u, "action")
           x == IF w.inPush THEN w ELSE PushCancelled(w)
           v == ArmedIf(x, "action", do)
<1>1. Sound(w) /\ Aside(u, w) /\ w.slot["action"] = 0
  <2>1. "action" \in Slots \ {"step"}
    BY DEF Slots
  <2> QED BY <2>1, StoppedAside
<1> HIDE DEF w
<1>2. Sound(x) /\ Aside(u, x) /\ x.slot["action"] = 0
  <2>1. Sound(PushCancelled(w)) /\ Aside(w, PushCancelled(w)) /\ PushCancelled(w).slot["action"] = 0
    BY <1>1, PushCancelledAside DEF Slots
  <2>2. Aside(u, PushCancelled(w))
    BY <1>1, <2>1, AsideTwice
  <2>3. CASE w.inPush
    BY <1>1, <2>3
  <2>4. CASE ~w.inPush
    BY <2>1, <2>2, <2>4
  <2> QED BY <2>3, <2>4
<1> HIDE DEF x
<1>3. Sound(v) /\ Aside(x, v)
  BY <1>2, ArmedIfAside
<1> HIDE DEF v
<1>4. Aside(u, v)
  BY <1>2, <1>3, AsideTwice
<1> QED BY <1>3, <1>4 DEF NextAction, v, x, w

\* Player::setNextActionPushTask, beside the walk.
LEMMA NextPushAside ==
  ASSUME NEW u, Sound(u), NEW do \in Commands \union {NoTask}
  PROVE  LET v == NextPush(u, do) IN Sound(v) /\ Aside(u, v)
<1> DEFINE w == Stopped(u, "push")
           v == ArmedIf(w, "push", do)
<1>1. Sound(w) /\ Aside(u, w) /\ w.slot["push"] = 0
  <2>1. "push" \in Slots \ {"step"}
    BY DEF Slots
  <2> QED BY <2>1, StoppedAside
<1> HIDE DEF w
<1>2. Sound(v) /\ Aside(w, v)
  BY <1>1, ArmedIfAside
<1> HIDE DEF v
<1>3. Aside(u, v)
  BY <1>1, <1>2, AsideTwice
<1> QED BY <1>2, <1>3 DEF NextPush, v, w

\* Player::setNextPotionActionTask, beside the walk.
LEMMA NextPotionAside ==
  ASSUME NEW u, Sound(u), NEW do \in Commands \union {NoTask}
  PROVE  LET v == NextPotion(u, do) IN Sound(v) /\ Aside(u, v)
<1> DEFINE w == Stopped(u, "potion")
           x == PushCancelled(w)
           v == ArmedIf(x, "potion", do)
<1>1. Sound(w) /\ Aside(u, w) /\ w.slot["potion"] = 0
  <2>1. "potion" \in Slots \ {"step"}
    BY DEF Slots
  <2> QED BY <2>1, StoppedAside
<1> HIDE DEF w
<1>2. Sound(x) /\ Aside(w, x) /\ x.slot["potion"] = 0
  BY <1>1, PushCancelledAside DEF Slots
<1> HIDE DEF x
<1>3. Sound(v) /\ Aside(x, v)
  BY <1>2, ArmedIfAside
<1> HIDE DEF v
<1>4. Aside(u, v)
  BY <1>1, <1>2, <1>3, AsideTwice
<1> QED BY <1>3, <1>4 DEF NextPotion, v, x, w

-----------------------------------------------------------------------------

\* What changes neither the timers nor the slots.
LEMMA SameTimers ==
  ASSUME NEW u, Shaped(u), NEW v, v \in Plans,
         v.slot = u.slot, v.timers = u.timers, v.queue = u.queue,
         \/ v.walkTask = NoTask
         \/ v.walkTask = u.walkTask /\ Alone(u)
         \/ u.slot["walk"] = 0
  PROVE  Sound(v) /\ \A id : Exists(v, id) <=> Exists(u, id)
<1>1. Shaped(v)
  BY DEF Shaped, Filed, Apart, Stepping, IsStep
<1>2. Alone(v)
  <2>1. \A t \in v.timers : t.id # 0
    BY DEF Plans, Timers
  <2> QED BY <2>1 DEF Alone
<1> QED BY <1>1, <1>2 DEF Sound, Exists

\* A player whose timers and walk are the same is as far on his way.
LEMMA SameTimersOn ==
  ASSUME NEW u, Sound(u), NEW v, v \in Plans,
         v.slot = u.slot, v.timers = u.timers, v.queue = u.queue,
         v.walkTask = u.walkTask \/ v.walkTask = NoTask, Owed(v) => Owed(u)
  PROVE  Sound(v) /\ On(u, v)
<1>1. Sound(v) /\ \A id : Exists(v, id) <=> Exists(u, id)
  BY SameTimers DEF Sound
<1> QED BY <1>1 DEF On

\* Something, or nothing, is to be done at the end of the walk.
LEMMA NextWalkActionSound ==
  ASSUME NEW u, Sound(u), NEW do \in Commands \union {NoTask}
  PROVE  LET v == NextWalkAction(u, do) IN
         /\ Sound(v) /\ v.queue = u.queue /\ v.steps = u.steps /\ v.walkTask = do
         /\ do = NoTask => On(u, v)
         /\ Timed(u) => Timed(v)
<1> DEFINE w == Stopped(u, "walk")
           v == [w EXCEPT !.walkTask = do]
<1>1. Sound(w) /\ Aside(u, w) /\ w.slot["walk"] = 0
  <2>1. "walk" \in Slots \ {"step"}
    BY DEF Slots
  <2> QED BY <2>1, StoppedAside
<1> HIDE DEF w
<1>2. /\ v \in Plans /\ v.slot = w.slot /\ v.timers = w.timers /\ v.queue = w.queue
      /\ v.walkTask = do /\ v.steps = w.steps
      /\ v.moves = w.moves /\ v.stranded = w.stranded
  BY <1>1 DEF Sound, Shaped, Plans
<1> HIDE DEF v
<1>3. Sound(v) /\ \A id : Exists(v, id) <=> Exists(w, id)
  BY <1>1, <1>2, SameTimers DEF Sound
<1>4. v.queue = u.queue /\ v.steps = u.steps
  BY <1>1, <1>2 DEF Aside, SameWalk
<1>5. ASSUME do = NoTask PROVE On(u, v)
  <2>1. On(u, w)
    BY <1>1, AsideIsOn
  <2>2. Owed(v) => Owed(w)
    BY <1>2, <1>5 DEF Owed
  <2>3. On(w, v)
    BY <1>1, <1>2, <1>5, <2>2, SameTimersOn
  <2> QED BY <2>1, <2>3, OnTwice
<1>6. Timed(u) => Timed(v)
  BY <1>1, <1>2, <1>3 DEF Timed, Aside
<1> QED BY <1>2, <1>3, <1>4, <1>5, <1>6 DEF NextWalkAction, v, w

\* Player::onWalkComplete: what waited for the walk is set as a timer.
LEMMA WalkCompleteSound ==
  ASSUME NEW u, Sound(u)
  PROVE  LET v == WalkComplete(u) IN
         Sound(v) /\ On(u, v) /\ v.walkTask = NoTask /\ v.steps = u.steps
<1>1. CASE u.walkTask = NoTask
  BY <1>1 DEF WalkComplete, On
<1>2. CASE u.walkTask # NoTask
  <2> DEFINE w == Armed(u, "walk", u.walkTask)
             v == [w EXCEPT !.walkTask = NoTask]
  <2>1. /\ Shaped(w) /\ SameWalk(u, w)
        /\ \A r \in Slots \ {"walk"} : w.slot[r] = u.slot[r]
        /\ \A t \in u.timers : t \in w.timers
    <3>1. PICK do : do = u.walkTask
      OBVIOUS
    <3>2. /\ do \in Commands \union {"step"} /\ "walk" \in Slots
          /\ (do = "step" <=> "walk" = "step")
          /\ \A t \in u.timers : t.id # u.slot["walk"]
      BY <1>2, <3>1 DEF Sound, Shaped, Plans, Alone, Commands, Slots
    <3>3. w = Armed(u, "walk", do)
      BY <3>1
    <3> HIDE DEF w
    <3> QED BY <3>2, <3>3, ArmedSound
  <2> HIDE DEF w
  <2>2. /\ v \in Plans /\ v.slot = w.slot /\ v.timers = w.timers /\ v.queue = w.queue
        /\ v.walkTask = NoTask /\ v.steps = w.steps
        /\ v.moves = w.moves /\ v.stranded = w.stranded
    BY <2>1 DEF Shaped, Plans
  <2>3. v = WalkComplete(u)
    BY <1>2 DEF WalkComplete, w
  <2> HIDE DEF v
  <2>4. Sound(v) /\ \A id : Exists(v, id) <=> Exists(w, id)
    BY <2>1, <2>2, SameTimers
  <2>5. v.slot["step"] = u.slot["step"] /\ w.queue = u.queue /\ v.steps = u.steps
    BY <2>1, <2>2 DEF SameWalk, Slots
  <2>6. Exists(u, u.slot["step"]) => Exists(w, u.slot["step"])
    BY <2>1, <2>5, StillThere
  <2>7. Owed(v) => Owed(u)
    BY <1>2, <2>1, <2>2 DEF Owed, SameWalk
  <2>8. On(u, v)
    BY <2>2, <2>4, <2>5, <2>6, <2>7 DEF On
  <2> QED BY <2>2, <2>3, <2>4, <2>5, <2>8
<1> QED BY <1>1, <1>2

\* Player::onWalkAborted gives up what waited for the walk.
LEMMA WalkAbortedSound ==
  ASSUME NEW u, Sound(u)
  PROVE  LET v == WalkAborted(u) IN Sound(v) /\ On(u, v)
<1>1. PICK n \in Int : n = 0
  OBVIOUS
<1> DEFINE w == [u EXCEPT !.steps = n, !.cancel = FALSE]
           v == NextWalkAction(w, NoTask)
<1>2. /\ w \in Plans /\ w.slot = u.slot /\ w.timers = u.timers /\ w.queue = u.queue
      /\ w.walkTask = u.walkTask /\ w.steps = n
      /\ w.moves = u.moves /\ w.stranded = u.stranded
  BY DEF Sound, Shaped, Plans
<1>3. WalkAborted(u) = v
  BY <1>1, Zenon DEF WalkAborted
<1> HIDE DEF w
<1>4. Sound(w) /\ On(u, w)
  <2>1. Owed(w) => Owed(u)
    BY <1>1, <1>2 DEF Owed
  <2> QED BY <1>2, <2>1, SameTimersOn
<1>5. Sound(v) /\ On(w, v)
  BY <1>4, NextWalkActionSound
<1> HIDE DEF v
<1>6. On(u, v)
  BY <1>4, <1>5, OnTwice
<1> QED BY <1>3, <1>5, <1>6

\* The next step is stopped, and nothing is owed then.
LEMMA StepStopped ==
  ASSUME NEW u, Sound(u), NEW v, v \in Plans,
         v.slot = Stopped(u, "step").slot, v.timers = Stopped(u, "step").timers,
         v.queue = u.queue, v.walkTask = u.walkTask, ~Owed(v)
  PROVE  Sound(v) /\ On(u, v) /\ v.slot["step"] = 0
<1> DEFINE w == Stopped(u, "step")
<1>1. Sound(w) /\ SameWalk(u, w) /\ w.slot["step"] = 0
  BY StoppedSound DEF Slots
<1> HIDE DEF w
<1>2. w.queue = u.queue /\ w.walkTask = u.walkTask /\ v.slot = w.slot /\ v.timers = w.timers
  BY <1>1 DEF SameWalk, w
<1>3. Sound(v)
  BY <1>1, <1>2, SameTimers DEF Sound
<1> QED BY <1>1, <1>2, <1>3 DEF On

\* A player whose speed is gone is still sound.
LEMMA ParalysedSound ==
  ASSUME NEW u, Sound(u)
  PROVE  LET v == Paralysed(u) IN Sound(v) /\ On(u, v)
<1> DEFINE w == Stopped(u, "step")
           v == [w EXCEPT !.moves = FALSE, !.cancel = TRUE]
<1>1. w \in Plans /\ SameWalk(u, w)
  BY StoppedSound DEF Sound, Shaped, Slots
<1> HIDE DEF w
<1>2. /\ v \in Plans /\ v.slot = w.slot /\ v.timers = w.timers
      /\ v.queue = w.queue /\ v.walkTask = w.walkTask /\ ~v.moves
  BY <1>1 DEF Plans
<1> HIDE DEF v
<1>3. v.queue = u.queue /\ v.walkTask = u.walkTask /\ ~Owed(v)
  BY <1>1, <1>2 DEF SameWalk, Owed
<1>4. Sound(v) /\ On(u, v)
  BY <1>2, <1>3, StepStopped DEF w
<1> QED BY <1>4 DEF Paralysed, v, w

\* A player who is put somewhere else is still sound.
LEMMA TeleportedSound ==
  ASSUME NEW u, Sound(u)
  PROVE  LET v == Teleported(u) IN Sound(v) /\ On(u, v)
<1> DEFINE w == Stopped(u, "step")
           v == [w EXCEPT !.stranded = w.stranded \/ u.steps > 0 \/ u.walkTask # NoTask]
<1>1. w \in Plans /\ SameWalk(u, w)
  BY StoppedSound DEF Sound, Shaped, Slots
<1>2. Teleported(u) = v
  BY DEF Teleported
<1> HIDE DEF w
<1>3. /\ v \in Plans /\ v.slot = w.slot /\ v.timers = w.timers
      /\ v.queue = w.queue /\ v.walkTask = w.walkTask /\ v.steps = w.steps
      /\ (u.steps > 0 \/ u.walkTask # NoTask) => v.stranded
  BY <1>1 DEF Plans
<1> HIDE DEF v
<1>4. v.queue = u.queue /\ v.walkTask = u.walkTask /\ ~Owed(v)
  BY <1>1, <1>3 DEF SameWalk, Owed
<1>5. Sound(v) /\ On(u, v)
  BY <1>3, <1>4, StepStopped DEF w
<1> QED BY <1>2, <1>5

\* A step that was made, or could not be, leaves a sound player.
LEMMA SteppedSound ==
  ASSUME NEW u, Sound(u), u.steps > 0, NEW what
  PROVE  LET v == Stepped(u, what) IN Sound(v) /\ On(u, v)
<1> DEFINE w == [u EXCEPT !.steps = u.steps - 1]
           x == NextAction(w, NoTask)
<1>1. /\ w \in Plans /\ w.slot = u.slot /\ w.timers = u.timers /\ w.queue = u.queue
      /\ w.walkTask = u.walkTask /\ (Owed(w) => Owed(u))
  BY DEF Sound, Shaped, Plans, Owed
<1>2. Stepped(u, what) = IF what = "teleport" THEN Teleported(x)
                         ELSE IF what = "paralysed" THEN Paralysed(x) ELSE x
  BY DEF Stepped
<1> HIDE DEF w
<1>3. Sound(w) /\ On(u, w)
  BY <1>1, SameTimersOn
<1>4. Sound(x) /\ On(w, x)
  BY <1>3, NextActionAside, AsideIsOn
<1> HIDE DEF x
<1>5. On(u, x)
  BY <1>3, <1>4, OnTwice
<1>6. Sound(Teleported(x)) /\ On(u, Teleported(x))
  BY <1>4, <1>5, TeleportedSound, OnTwice
<1>7. Sound(Paralysed(x)) /\ On(u, Paralysed(x))
  BY <1>4, <1>5, ParalysedSound, OnTwice
<1> QED BY <1>2, <1>4, <1>5, <1>6, <1>7

\* A step, or the end of the walk.
LEMMA WalkedSound ==
  ASSUME NEW u, Sound(u), NEW what
  PROVE  LET v == Walked(u, what) IN Sound(v) /\ On(u, v)
<1> DEFINE w == WalkComplete(u)
           x == IF what = "early" THEN u
                ELSE IF u.steps > 0 THEN Stepped(u, what) ELSE Stopped(w, "step")
<1>1. Walked(u, what) = IF x.cancel THEN WalkAborted(x) ELSE x
  BY DEF Walked
<1>2. Sound(x) /\ On(u, x)
  <2>1. CASE what = "early"
    BY <2>1 DEF On
  <2>2. CASE what # "early" /\ u.steps > 0
    BY <2>2, SteppedSound
  <2>3. CASE what # "early" /\ ~(u.steps > 0)
    <3>1. Sound(w) /\ On(u, w) /\ w.walkTask = NoTask /\ w.steps = u.steps
      BY WalkCompleteSound
    <3> HIDE DEF w
    <3> DEFINE z == Stopped(w, "step")
    <3>2. Sound(z) /\ SameWalk(w, z)
      BY <3>1, StoppedSound DEF Slots
    <3>3. z \in Plans /\ z.queue = w.queue /\ z.walkTask = w.walkTask /\ ~Owed(z)
      BY <2>3, <3>1, <3>2 DEF Sound, Shaped, SameWalk, Owed
    <3>4. Sound(z) /\ On(w, z)
      BY <3>1, <3>3, StepStopped
    <3>5. Sound(z) /\ On(u, z)
      BY <3>1, <3>4, OnTwice
    <3>6. x = z
      BY <2>3
    <3> QED BY <3>5, <3>6
  <2> QED BY <2>1, <2>2, <2>3
<1> HIDE DEF x
<1>3. Sound(WalkAborted(x)) /\ On(u, WalkAborted(x))
  BY <1>2, WalkAbortedSound, OnTwice
<1>4. CASE x.cancel
  BY <1>1, <1>3, <1>4
<1>5. CASE ~x.cancel
  BY <1>1, <1>2, <1>5
<1> QED BY <1>4, <1>5

-----------------------------------------------------------------------------

\* What addEventWalk does: nothing, when he cannot move or has a timer.
LEMMA EventWalkAddedIs ==
  ASSUME NEW u, NEW first, NEW what
  PROVE  LET v == [u EXCEPT !.cancel = FALSE]
             w == EventWalkAdded(u, first, what)
         IN \/ (~v.moves \/ v.slot["step"] # 0) /\ w = v
            \/ w = Armed(v, "step", "step")
            \/ w = Armed(Walked(v, what), "step", "step")
  BY Zenon DEF EventWalkAdded

\* A timer for the next step: he is on his way.
LEMMA StepArmed ==
  ASSUME NEW u, Sound(u)
  PROVE  Headed(Armed(u, "step", "step"))
<1> DEFINE v == Armed(u, "step", "step")
<1>1. Shaped(v) /\ Alone(v) /\ v.slot["step"] # 0 /\ \E t \in v.timers : t.id = v.slot["step"]
  <2>1. "step" \in Slots /\ "step" \in Commands \union {"step"} /\ "step" # "walk"
    BY DEF Slots
  <2> QED BY <2>1, ArmedSound
<1> HIDE DEF v
<1>2. UnderWay(v)
  BY <1>1 DEF UnderWay, Exists
<1> QED BY <1>1, <1>2 DEF Headed, Sound, Timed, OnTheWay, UnderWay, v

\* After addEventWalk he is on his way, whatever he owed before.
LEMMA EventWalkAddedHeaded ==
  ASSUME NEW u, Sound(u), Timed(u), NEW first, NEW what
  PROVE  Headed(EventWalkAdded(u, first, what))
<1> DEFINE v == [u EXCEPT !.cancel = FALSE]
<1>1. PICK w : w = EventWalkAdded(u, first, what)
  OBVIOUS
<1>2. \/ (~v.moves \/ v.slot["step"] # 0) /\ w = v
      \/ w = Armed(v, "step", "step")
      \/ w = Armed(Walked(v, what), "step", "step")
  BY <1>1, EventWalkAddedIs, Zenon
<1>3. /\ v \in Plans /\ v.slot = u.slot /\ v.timers = u.timers /\ v.queue = u.queue
      /\ v.walkTask = u.walkTask
  BY DEF Sound, Shaped, Plans
<1> HIDE DEF v
<1>4. Sound(v) /\ \A id : Exists(v, id) <=> Exists(u, id)
  BY <1>3, SameTimers DEF Sound
<1>5. Timed(v)
  BY <1>3, <1>4 DEF Timed
<1>6. Headed(w)
  <2>1. CASE (~v.moves \/ v.slot["step"] # 0) /\ w = v
    BY <1>4, <1>5, <2>1 DEF Headed, OnTheWay, Owed, UnderWay, Timed
  <2>2. CASE w = Armed(v, "step", "step")
    BY <1>4, <2>2, StepArmed
  <2>3. CASE w = Armed(Walked(v, what), "step", "step")
    BY <1>4, <2>3, WalkedSound, StepArmed
  <2> QED BY <1>2, <2>1, <2>2, <2>3
<1> QED BY <1>1, <1>6, Zenon

\* Creature::startAutoWalk: a new walk is under way.
LEMMA AutoWalkHeaded ==
  ASSUME NEW u, Sound(u), Timed(u), NEW n \in Int, NEW what
  PROVE  Headed(AutoWalk(u, n, what))
<1> DEFINE w == [u EXCEPT !.steps = n, !.stranded = FALSE]
<1>1. /\ w \in Plans /\ w.slot = u.slot /\ w.timers = u.timers /\ w.queue = u.queue
      /\ w.walkTask = u.walkTask
  BY DEF Sound, Shaped, Plans
<1>2. AutoWalk(u, n, what) = EventWalkAdded(w, n = 1, what)
  BY Zenon DEF AutoWalk
<1> HIDE DEF w
<1>3. Sound(w) /\ \A id : Exists(w, id) <=> Exists(u, id)
  BY <1>1, SameTimers DEF Sound
<1>4. Timed(w)
  BY <1>1, <1>3 DEF Timed
<1>5. \A first : Headed(EventWalkAdded(w, first, what))
  BY <1>3, <1>4, EventWalkAddedHeaded
<1> QED BY <1>2, <1>5, Zenon

\* The timer of a step has expired: the next is timed, unless it was stopped.
LEMMA WalkCheckedHeaded ==
  ASSUME NEW u, Sound(u), NEW what, u.slot["step"] = 0 => OnTheWay(u)
  PROVE  Headed(WalkChecked(u, what))
<1> DEFINE v == Walked(u, what)
           w == [v EXCEPT !.slot["step"] = 0]
<1>1. Sound(v) /\ On(u, v)
  BY WalkedSound
<1>2. \/ v.slot["step"] = 0 /\ WalkChecked(u, what) = v
      \/ WalkChecked(u, what) = EventWalkAdded(w, FALSE, what)
  BY Zenon DEF WalkChecked
<1> HIDE DEF v
<1>3. CASE v.slot["step"] = 0 /\ WalkChecked(u, what) = v
  <2>1. Owed(v) => Sent(u)
    BY <1>1, <1>3 DEF On, OnTheWay, UnderWay
  <2>2. OnTheWay(v)
    BY <1>1, <2>1 DEF On, OnTheWay, Sent
  <2> QED BY <1>1, <1>3, <2>2 DEF Headed, Timed
<1>4. Sound(w) /\ Timed(w)
  <2>1. v \in Plans /\ "step" \in Slots
    BY <1>1 DEF Sound, Shaped, Slots
  <2>2. /\ w \in Plans /\ w.slot["step"] = 0 /\ \A s \in Slots \ {"step"} : w.slot[s] = v.slot[s]
        /\ w.timers = v.timers /\ w.queue = v.queue /\ w.walkTask = v.walkTask
    BY <2>1 DEF Plans
  <2> HIDE DEF w
  <2>3. IsFiniteSet(w.timers) /\ Stepping(w)
    BY <1>1, <2>2 DEF Sound, Shaped, Stepping, IsStep
  <2>4. Filed(w)
    BY <1>1, <2>2 DEF Sound, Shaped, Filed
  <2>5. Alone(w)
    BY <1>1, <2>2 DEF Sound, Alone, Slots
  <2>6. Apart(w)
    <3> SUFFICES ASSUME NEW q \in Slots, NEW r \in Slots, q # r, w.slot[q] # 0 PROVE w.slot[q] # w.slot[r]
      BY DEF Apart
    <3>1. q # "step" /\ w.slot[q] = v.slot[q]
      BY <2>2
    <3>2. CASE r = "step"
      BY <2>2, <3>2
    <3>3. CASE r # "step"
      BY <1>1, <2>2, <3>1, <3>3 DEF Sound, Shaped, Apart
    <3> QED BY <3>2, <3>3
  <2> QED BY <2>2, <2>3, <2>4, <2>5, <2>6 DEF Sound, Shaped, Timed
<1> HIDE DEF w
<1>5. \A first : Headed(EventWalkAdded(w, first, what))
  BY <1>4, EventWalkAddedHeaded
<1>6. Headed(EventWalkAdded(w, FALSE, what))
  BY <1>5, Zenon
<1>7. CASE WalkChecked(u, what) = EventWalkAdded(w, FALSE, what)
  BY <1>6, <1>7, Zenon
<1> QED BY <1>2, <1>3, <1>7, Zenon

\* He can move again.
LEMMA SpeedRegainedHeaded ==
  ASSUME NEW u, Headed(u), ~u.moves
  PROVE  Headed(SpeedRegained(u))
<1>1. Sound(u) /\ Timed(u) /\ u \in Plans
  BY DEF Headed, Sound, Shaped
<1>2. CASE u.steps > 0
  <2> DEFINE w == [u EXCEPT !.moves = TRUE]
  <2>1. /\ w \in Plans /\ w.slot = u.slot /\ w.timers = u.timers /\ w.queue = u.queue
        /\ w.walkTask = u.walkTask
    BY <1>1 DEF Plans
  <2>2. SpeedRegained(u) = EventWalkAdded(w, FALSE, "nothing")
    BY <1>2, Zenon DEF SpeedRegained
  <2> HIDE DEF w
  <2>3. Sound(w) /\ \A id : Exists(w, id) <=> Exists(u, id)
    BY <1>1, <2>1, SameTimers DEF Sound
  <2>4. Timed(w)
    BY <1>1, <2>1, <2>3 DEF Timed
  <2>5. \A first : Headed(EventWalkAdded(w, first, "nothing"))
    BY <2>3, <2>4, EventWalkAddedHeaded
  <2> QED BY <2>2, <2>5, Zenon
<1>3. CASE ~(u.steps > 0)
  <2> DEFINE w == [u EXCEPT !.moves = TRUE,
                            !.stranded = u.stranded \/ (u.slot["step"] = 0 /\ u.walkTask # NoTask)]
  <2>1. /\ w \in Plans /\ w.slot = u.slot /\ w.timers = u.timers /\ w.queue = u.queue
        /\ w.walkTask = u.walkTask /\ w.steps = u.steps
        /\ (u.slot["step"] = 0 /\ u.walkTask # NoTask => w.stranded)
    BY <1>1 DEF Plans
  <2>2. SpeedRegained(u) = w
    BY <1>3, Zenon DEF SpeedRegained
  <2> HIDE DEF w
  <2>3. Sound(w) /\ \A id : Exists(w, id) <=> Exists(u, id)
    BY <1>1, <2>1, SameTimers DEF Sound
  <2>4. Timed(w)
    BY <1>1, <2>1, <2>3 DEF Timed
  <2>5. Owed(w) => UnderWay(w)
    BY <1>3, <2>1, <2>4 DEF Owed, UnderWay, Timed
  <2>6. Headed(w)
    BY <2>3, <2>4, <2>5 DEF Headed, OnTheWay
  <2> QED BY <2>2, <2>6
<1> QED BY <1>2, <1>3

-----------------------------------------------------------------------------

\* A walk that the dispatcher has still to begin is under way.
LEMMA SentHeaded ==
  ASSUME NEW u, Sound(u), Timed(u), Sent(u)
  PROVE  Headed(u)
  BY DEF Headed, OnTheWay

\* The way is put behind what is in the dispatcher's list.
LEMMA PostedHeaded ==
  ASSUME NEW u, Sound(u), Timed(u), NEW n \in Int
  PROVE  LET v == Posted(u, n) IN Headed(v) /\ Sent(v)
<1>1. PICK g : g = [id |-> 0, do |-> "go", steps |-> n]
  OBVIOUS
<1>2. g \in Waiting /\ g.id = 0 /\ g.do = "go"
  BY <1>1 DEF Waiting
<1> DEFINE v == [u EXCEPT !.queue = Append(u.queue, g)]
<1>3. Posted(u, n) = v
  BY <1>1 DEF Posted
<1>4. u \in Plans /\ u.queue \in Seq(Waiting)
  BY DEF Sound, Shaped, Plans
<1>5. /\ v \in Plans /\ v.slot = u.slot /\ v.timers = u.timers /\ v.walkTask = u.walkTask
      /\ v.queue = Append(u.queue, g)
  <2>1. Append(u.queue, g) \in Seq(Waiting)
    BY <1>2, <1>4
  <2> QED BY <1>4, <2>1 DEF Plans
<1> HIDE DEF v
<1>6. /\ \A j \in DOMAIN u.queue : j \in DOMAIN v.queue /\ v.queue[j] = u.queue[j]
      /\ \A j \in DOMAIN v.queue : j \in DOMAIN u.queue \/ v.queue[j] = g
      /\ \E j \in DOMAIN v.queue : v.queue[j] = g
  <2>1. PICK q : q = u.queue
    OBVIOUS
  <2>2. q \in Seq(Waiting) /\ v.queue = Append(q, g)
    BY <1>4, <1>5, <2>1
  <2>3. Len(q) + 1 \in DOMAIN v.queue /\ v.queue[Len(q) + 1] = g
    BY <2>2
  <2>4. \A j \in DOMAIN q : j \in DOMAIN v.queue /\ v.queue[j] = q[j]
    BY <2>2
  <2>5. \A j \in DOMAIN v.queue : j \in DOMAIN q \/ v.queue[j] = g
    BY <2>2
  <2> QED BY <2>1, <2>3, <2>4, <2>5
<1>7. Stepping(v)
  <2>1. \A t \in v.timers : IsStep(v, t)
    BY <1>5 DEF Sound, Shaped, Stepping, IsStep
  <2>2. ASSUME NEW j \in DOMAIN v.queue PROVE IsStep(v, v.queue[j])
    <3>1. CASE j \in DOMAIN u.queue
      BY <1>5, <1>6, <3>1 DEF Sound, Shaped, Stepping, IsStep
    <3>2. CASE v.queue[j] = g
      BY <1>2, <3>2 DEF IsStep
    <3> QED BY <1>6, <3>1, <3>2
  <2> QED BY <2>1, <2>2 DEF Stepping
<1>8. Sound(v)
  BY <1>5, <1>7 DEF Sound, Shaped, Filed, Alone, Apart
<1>9. Timed(v)
  BY <1>5, <1>6 DEF Timed, Exists
<1>10. Sent(v)
  BY <1>2, <1>6 DEF Sent
<1> QED BY <1>3, <1>8, <1>9, <1>10, SentHeaded

\* What only puts something off leaves him on his way.
LEMMA AsideHeaded ==
  ASSUME NEW u, Headed(u), NEW v, Sound(v), Aside(u, v)
  PROVE  Headed(v)
  BY AsideIsOn, StillHeaded

\* A command that has to wait for the next action leaves him on his way.
LEMMA NextHeaded ==
  ASSUME NEW u, Headed(u), NEW do \in Commands \union {NoTask}
  PROVE  /\ Headed(NextAction(u, do)) /\ Headed(NextPush(u, do)) /\ Headed(NextPotion(u, do))
         /\ Headed(PushCancelled(u)) /\ Headed(NextWalkAction(u, NoTask))
<1>1. Sound(u)
  BY DEF Headed
<1>2. Headed(NextAction(u, do))
  BY <1>1, NextActionAside, AsideHeaded
<1>3. Headed(NextPush(u, do))
  BY <1>1, NextPushAside, AsideHeaded
<1>4. Headed(NextPotion(u, do))
  BY <1>1, NextPotionAside, AsideHeaded
<1>5. Headed(PushCancelled(u))
  BY <1>1, PushCancelledAside, AsideHeaded
<1>6. Headed(NextWalkAction(u, NoTask))
  BY <1>1, NextWalkActionSound, StillHeaded
<1> QED BY <1>2, <1>3, <1>4, <1>5, <1>6

\* The way is posted, and something is to be done at its end.
LEMMA FarHeaded ==
  ASSUME NEW u, Headed(u), NEW n \in Int, NEW do \in Commands \union {NoTask}
  PROVE  Headed(NextWalkAction(Posted(u, n), do))
<1> DEFINE v == Posted(u, n)
           w == NextWalkAction(v, do)
<1>1. Headed(v) /\ Sent(v)
  BY PostedHeaded DEF Headed
<1> HIDE DEF v
<1>2. Sound(w) /\ Timed(w) /\ w.queue = v.queue
  BY <1>1, NextWalkActionSound DEF Headed
<1> HIDE DEF w
<1>3. Sent(w)
  BY <1>1, <1>2 DEF Sent
<1>4. Headed(w)
  BY <1>2, <1>3, SentHeaded
<1> QED BY <1>4 DEF v, w

\* A push that begins or ends leaves him on his way.
LEMMA InPushHeaded ==
  ASSUME NEW u, Headed(u), NEW b \in BOOLEAN
  PROVE  Headed([u EXCEPT !.inPush = b])
<1> DEFINE v == [u EXCEPT !.inPush = b]
<1>1. v \in Plans /\ v.slot = u.slot /\ v.timers = u.timers /\ SameWalk(u, v)
  BY DEF Headed, Sound, Shaped, Plans, SameWalk
<1> HIDE DEF v
<1>2. Sound(v) /\ Aside(u, v)
  BY <1>1, InPushAside DEF Headed
<1>3. Headed(v)
  BY <1>2, AsideHeaded
<1> QED BY <1>3 DEF v

\* Using an item, on something or somebody or not, leaves him on his way.
LEMMA UsedHeaded ==
  ASSUME NEW u, Headed(u), NEW n \in Int, NEW found
  PROVE  Headed(Used(u, n, found))
<1>1. "use" \in Commands
  BY DEF Commands
<1> QED BY <1>1, FarHeaded, NextHeaded DEF Used

\* So does a rune or a potion.
LEMMA DrunkHeaded ==
  ASSUME NEW u, Headed(u), NEW n \in Int, NEW found
  PROVE  Headed(Drunk(u, n, found))
<1>1. "potion" \in Commands
  BY DEF Commands
<1>2. Headed(Posted(u, n))
  BY PostedHeaded DEF Headed
<1> QED BY <1>1, <1>2, NextHeaded DEF Drunk

\* So does Game::playerMoveItem.
LEMMA MovedHeaded ==
  ASSUME NEW u, Headed(u), NEW n \in Int, NEW found
  PROVE  Headed(Moved(u, n, found))
<1>1. "move" \in Commands
  BY DEF Commands
<1>2. Headed(NextAction(u, NoTask)) /\ Headed(NextAction(u, "move"))
  BY <1>1, NextHeaded
<1>3. /\ Headed(NextWalkAction(Posted(NextAction(u, NoTask), n), "move"))
      /\ Headed(PushCancelled(NextAction(u, NoTask)))
  BY <1>1, <1>2, FarHeaded, NextHeaded
<1> QED BY <1>2, <1>3 DEF Moved

\* So does Game::playerMoveCreature.
LEMMA PushedHeaded ==
  ASSUME NEW u, Headed(u), NEW n \in Int, NEW found
  PROVE  Headed(Pushed(u, n, found))
<1>1. "push" \in Commands
  BY DEF Commands
<1>2. PICK v : v = NextAction(u, NoTask)
  OBVIOUS
<1>3. Headed(v) /\ Headed(NextPush(u, "push"))
  BY <1>1, <1>2, NextHeaded
<1>4. PICK w : w = Posted(v, n)
  OBVIOUS
<1>5. Headed(w)
  BY <1>3, <1>4, PostedHeaded DEF Headed
<1>6. \A b \in BOOLEAN : Headed([w EXCEPT !.inPush = b]) /\ Headed([v EXCEPT !.inPush = b])
  BY <1>3, <1>5, InPushHeaded
<1>7. PICK x, z : x = [w EXCEPT !.inPush = TRUE] /\ z = [v EXCEPT !.inPush = FALSE]
  OBVIOUS
<1>8. Headed(x) /\ Headed(z)
  BY <1>6, <1>7, Zenon
<1>9. Headed(NextPush(x, "push"))
  BY <1>1, <1>8, NextHeaded
<1>10. \/ Pushed(u, n, found) = NextPush(u, "push")
       \/ Pushed(u, n, found) = NextPush(x, "push")
       \/ Pushed(u, n, found) = v
       \/ Pushed(u, n, found) = z
  BY <1>2, <1>4, <1>7, Zenon DEF Pushed
<1> QED BY <1>3, <1>8, <1>9, <1>10, Zenon

\* Every handler of a command leaves him on his way.
LEMMA HandledHeaded ==
  ASSUME NEW u, Headed(u), NEW do, NEW n \in Int, NEW found
  PROVE  Headed(Handled(u, do, n, found))
<1>1. Headed(Attacked(u, found))
  BY NextHeaded DEF Attacked, Commands
<1> QED BY <1>1, UsedHeaded, DrunkHeaded, MovedHeaded, PushedHeaded DEF Handled

-----------------------------------------------------------------------------
(* The steps *)

\* At first he goes nowhere.
LEMMA InitHeaded == WalkingInit => Headed(y)
<1> SUFFICES ASSUME WalkingInit PROVE Headed(y)
  OBVIOUS
<1>1. /\ y.steps = 0 /\ y.walkTask = NoTask /\ y.timers = {} /\ y.queue = << >>
      /\ y.slot = [s \in Slots |-> 0]
  BY DEF WalkingInit
<1>2. y \in Plans
  BY DEF WalkingInit, Plans
<1>3. IsFiniteSet(y.timers)
  BY <1>1, FS_EmptySet
<1>4. Filed(y) /\ Alone(y) /\ Apart(y) /\ Stepping(y)
  BY <1>1 DEF Filed, Alone, Apart, Stepping
<1>5. Timed(y) /\ ~Owed(y)
  BY <1>1 DEF Timed, Owed, Slots
<1> QED BY <1>2, <1>3, <1>4, <1>5 DEF Headed, Sound, Shaped, OnTheWay

\* Game::playerStopAutoWalk leaves him on his way, if he still has one.
LEMMA StopHeaded ==
  ASSUME Headed(y), PlayerStopAutoWalk
  PROVE  Headed(y')
<1> DEFINE v == [y EXCEPT !.cancel = TRUE]
<1>1. /\ v \in Plans /\ v.slot = y.slot /\ v.timers = y.timers /\ v.queue = y.queue
      /\ v.walkTask = y.walkTask
  BY DEF Headed, Sound, Shaped, Plans
<1>2. v.steps = y.steps /\ v.moves = y.moves /\ v.stranded = y.stranded
  BY DEF Headed, Sound, Shaped, Plans
<1>3. y' = v
  BY DEF PlayerStopAutoWalk
<1> HIDE DEF v
<1>4. Owed(v) => Owed(y)
  BY <1>1, <1>2 DEF Owed
<1>5. Sound(v) /\ On(y, v)
  BY <1>1, <1>4, SameTimersOn DEF Headed
<1>6. Headed(v)
  BY <1>5, StillHeaded
<1> QED BY <1>3, <1>6

\* Following another creature leaves him on his way.
LEMMA FollowsHeaded ==
  ASSUME Headed(y), FollowsAnother
  PROVE  Headed(y')
<1>1. PICK n \in Int : n = 0
  OBVIOUS
<1> DEFINE v == [y EXCEPT !.steps = n]
<1>2. /\ v \in Plans /\ v.slot = y.slot /\ v.timers = y.timers /\ v.queue = y.queue
      /\ v.walkTask = y.walkTask
      /\ v.steps = n /\ v.moves = y.moves /\ v.stranded = y.stranded
  BY DEF Headed, Sound, Shaped, Plans
<1>3. y' = NextWalkAction(v, NoTask)
  BY <1>1 DEF FollowsAnother
<1> HIDE DEF v
<1>4. Owed(v) => Owed(y)
  BY <1>1, <1>2 DEF Owed
<1>5. Sound(v) /\ On(y, v)
  BY <1>2, <1>4, SameTimersOn DEF Headed
<1>6. Headed(v)
  BY <1>5, StillHeaded
<1> QED BY <1>3, <1>6, NextHeaded

\* A timer expires.
LEMMA ExpireHeaded ==
  ASSUME Headed(y), NEW t \in y.timers, Expire(t)
  PROVE  Headed(y')
<1> DEFINE v == [y EXCEPT !.timers = y.timers \ {t}, !.queue = <<t>> \o y.queue]
<1>1. y' = v
  BY DEF Expire
<1>2. y \in Plans /\ t \in Waiting /\ y.queue \in Seq(Waiting)
  BY DEF Headed, Sound, Shaped, Plans, Waiting
<1>3. <<t>> \o y.queue \in Seq(Waiting)
  BY <1>2
<1>4. /\ v \in Plans /\ v.slot = y.slot /\ v.walkTask = y.walkTask
      /\ v.timers = y.timers \ {t} /\ v.queue = <<t>> \o y.queue
      /\ v.steps = y.steps /\ v.moves = y.moves /\ v.stranded = y.stranded
  BY <1>2, <1>3 DEF Plans
<1> HIDE DEF v
<1>5. /\ \A j \in DOMAIN y.queue : \E k \in DOMAIN v.queue : v.queue[k] = y.queue[j]
      /\ \A j \in DOMAIN v.queue : v.queue[j] = t \/ \E k \in DOMAIN y.queue : v.queue[j] = y.queue[k]
      /\ \E j \in DOMAIN v.queue : v.queue[j] = t
  <2>1. PICK q : q = y.queue
    OBVIOUS
  <2>2. q \in Seq(Waiting) /\ v.queue = <<t>> \o q
    BY <1>2, <1>4, <2>1
  <2>3. 1 \in DOMAIN v.queue /\ v.queue[1] = t
    BY <2>2
  <2>4. \A j \in DOMAIN q : j + 1 \in DOMAIN v.queue /\ v.queue[j + 1] = q[j]
    BY <2>2
  <2>5. \A j \in DOMAIN v.queue : j = 1 \/ (j - 1 \in DOMAIN q /\ v.queue[j] = q[j - 1])
    BY <2>2
  <2> QED BY <2>1, <2>3, <2>4, <2>5
<1>6. IsFiniteSet(v.timers)
  BY <1>4, FS_Subset DEF Headed, Sound, Shaped
<1>7. Filed(v) /\ Alone(v) /\ Apart(v)
  BY <1>4 DEF Headed, Sound, Shaped, Filed, Alone, Apart
<1>8. Stepping(v)
  <2>0. Stepping(y)
    BY DEF Headed, Sound, Shaped
  <2>1. \A x \in y.timers : IsStep(v, x)
    BY <1>4, <2>0 DEF Stepping, IsStep
  <2>2. \A k \in DOMAIN y.queue : IsStep(v, y.queue[k])
    BY <1>4, <2>0 DEF Stepping, IsStep
  <2>3. ASSUME NEW j \in DOMAIN v.queue PROVE IsStep(v, v.queue[j])
    BY <1>5, <2>1, <2>2
  <2> QED BY <1>4, <2>1, <2>3 DEF Stepping
<1>9. \A id : Exists(y, id) => Exists(v, id)
  <2> SUFFICES ASSUME NEW id, NEW x \in y.timers \union {y.queue[j] : j \in DOMAIN y.queue}, x.id = id
               PROVE Exists(v, id)
    BY DEF Exists
  <2>1. CASE x \in y.timers /\ x # t
    <3>1. x \in v.timers
      BY <1>4, <2>1
    <3> QED BY <3>1 DEF Exists
  <2>2. CASE x = t
    <3>1. PICK j \in DOMAIN v.queue : v.queue[j] = x
      BY <1>5, <2>2, Zenon
    <3> QED BY <3>1 DEF Exists
  <2>3. CASE \E j \in DOMAIN y.queue : x = y.queue[j]
    <3>1. PICK j \in DOMAIN v.queue : v.queue[j] = x
      BY <1>5, <2>3, Zenon
    <3> QED BY <3>1 DEF Exists
  <2> QED BY <2>1, <2>2, <2>3
<1>10. Sent(y) => Sent(v)
  BY <1>5 DEF Sent
<1>11. Owed(v) => Owed(y)
  BY <1>4 DEF Owed
<1>12. Headed(v)
  BY <1>4, <1>6, <1>7, <1>8, <1>9, <1>10, <1>11
     DEF Headed, Sound, Shaped, Timed, OnTheWay, UnderWay
<1> QED BY <1>1, <1>12

\* A task is taken from the dispatcher's list.
LEMMA PoppedSound ==
  ASSUME Headed(y), y.queue # << >>
  PROVE  LET t == Head(y.queue)
             u == [y EXCEPT !.queue = Tail(y.queue)]
         IN /\ Sound(u) /\ t \in Waiting /\ IsStep(u, t) /\ u.slot = y.slot
            /\ (t.do # "go" => OnTheWay(u) \/ y.slot["step"] # 0)
            /\ (t.do # "go" /\ Sent(y) => Sent(u))
            /\ (Owed(u) => Owed(y))
            /\ (t.id # y.slot["step"] => Timed(u))
<1> DEFINE t == Head(y.queue)
           u == [y EXCEPT !.queue = Tail(y.queue)]
<1>1. PICK q \in Seq(Waiting) : q = y.queue
  BY DEF Headed, Sound, Shaped, Plans
<1>2. PICK r \in Seq(Waiting) : r = Tail(q)
  <2>1. q # << >>
    BY <1>1
  <2>2. Tail(q) \in Seq(Waiting)
    BY <2>1
  <2> QED BY <2>2
<1>3. /\ t = q[1] /\ 1 \in DOMAIN q /\ t \in Waiting
      /\ \A j \in DOMAIN q : j = 1 \/ (j - 1 \in DOMAIN r /\ q[j] = r[j - 1])
      /\ \A j \in DOMAIN r : j + 1 \in DOMAIN q /\ r[j] = q[j + 1]
  BY <1>1, <1>2
<1>4. /\ u \in Plans /\ u.slot = y.slot /\ u.walkTask = y.walkTask
      /\ u.timers = y.timers /\ u.queue = r
      /\ u.steps = y.steps /\ u.moves = y.moves /\ u.stranded = y.stranded
  BY <1>1, <1>2 DEF Headed, Sound, Shaped, Plans
<1> HIDE DEF t, u
<1>5. \A j \in DOMAIN q : IsStep(u, q[j])
  BY <1>1, <1>4 DEF Headed, Sound, Shaped, Stepping, IsStep
<1>6. Stepping(u)
  <2>1. \A x \in u.timers : IsStep(u, x)
    BY <1>4 DEF Headed, Sound, Shaped, Stepping, IsStep
  <2>2. \A j \in DOMAIN r : IsStep(u, r[j])
    BY <1>3, <1>5
  <2> QED BY <1>4, <2>1, <2>2 DEF Stepping
<1>7. Sound(u)
  BY <1>4, <1>6 DEF Headed, Sound, Shaped, Filed, Alone, Apart
<1>8. IsStep(u, t)
  BY <1>3, <1>5
<1>9. ASSUME t.do # "go", Sent(y) PROVE Sent(u)
  <2>1. PICK j \in DOMAIN q : q[j].do = "go"
    BY <1>1, <1>9 DEF Sent
  <2>2. j - 1 \in DOMAIN u.queue /\ q[j] = u.queue[j - 1]
    BY <1>3, <1>4, <1>9, <2>1
  <2> QED BY <2>1, <2>2 DEF Sent
<1>10. Owed(u) => Owed(y)
  BY <1>4 DEF Owed
<1>11. t.do # "go" => OnTheWay(u) \/ y.slot["step"] # 0
  BY <1>9, <1>10 DEF Headed, OnTheWay, UnderWay
<1>12. ASSUME t.id # y.slot["step"], u.slot["step"] # 0 PROVE Exists(u, u.slot["step"])
  <2>1. PICK x \in y.timers \union {y.queue[j] : j \in DOMAIN y.queue} : x.id = y.slot["step"]
    BY <1>4, <1>12 DEF Headed, Timed, Exists
  <2>2. x \in u.timers \union {u.queue[j] : j \in DOMAIN u.queue}
    BY <1>1, <1>3, <1>4, <1>12, <2>1
  <2> QED BY <1>4, <2>1, <2>2 DEF Exists
<1> QED BY <1>3, <1>4, <1>7, <1>8, <1>9, <1>10, <1>11, <1>12 DEF t, u, Timed

\* The dispatcher's next task, whatever it is, leaves him on his way.
LEMMA RunNextHeaded ==
  ASSUME Headed(y), NEW n \in 1..MaxSteps, NEW what \in Happens, NEW found \in Founds,
         RunNext(n, what, found)
  PROVE  Headed(y')
<1>1. PICK t, u : t = Head(y.queue) /\ u = [y EXCEPT !.queue = Tail(y.queue)]
  OBVIOUS
<1>2. /\ y.queue # << >>
      /\ y' = IF t.do = "step" THEN WalkChecked(u, what)
              ELSE IF t.do = "go" THEN AutoWalk(u, t.steps, what)
              ELSE Handled(u, t.do, n, found)
  BY <1>1 DEF RunNext
<1>3. /\ Sound(u) /\ t \in Waiting /\ IsStep(u, t) /\ u.slot = y.slot
      /\ (t.do # "go" => OnTheWay(u) \/ y.slot["step"] # 0)
      /\ (t.do # "go" /\ Sent(y) => Sent(u))
      /\ (Owed(u) => Owed(y))
      /\ (t.id # y.slot["step"] => Timed(u))
  BY <1>1, <1>2, PoppedSound
<1>4. n \in Int
  OBVIOUS
<1>5. CASE t.do = "step"
  BY <1>2, <1>3, <1>5, WalkCheckedHeaded
<1>6. ASSUME t.do # "step" PROVE Timed(u)
  BY <1>3, <1>6 DEF IsStep, Timed
<1>7. CASE t.do = "go"
  <2>1. t.steps \in Int
    BY <1>3, <1>7 DEF Waiting, Timers, Commands
  <2>2. Timed(u)
    BY <1>6, <1>7
  <2> QED BY <1>2, <1>3, <1>7, <2>1, <2>2, AutoWalkHeaded
<1>8. CASE t.do # "step" /\ t.do # "go"
  <2>1. Timed(u)
    BY <1>6, <1>8
  <2>2. Owed(u) => UnderWay(u) \/ Sent(u)
    BY <1>3, <1>8, <2>1 DEF OnTheWay, UnderWay, Timed
  <2>3. Headed(u)
    BY <1>3, <2>1, <2>2 DEF Headed, OnTheWay
  <2> QED BY <1>2, <1>4, <1>8, <2>3, HandledHeaded
<1> QED BY <1>5, <1>7, <1>8

\* Every step leaves him on his way: one case for each action.
LEMMA NextKeeps == Headed(y) /\ [WalkingNext]_y => Headed(y')
<1> SUFFICES ASSUME Headed(y), [WalkingNext]_y PROVE Headed(y')
  OBVIOUS
<1>1. Sound(y) /\ Timed(y) /\ \A n \in 1..MaxSteps : n \in Int
  BY DEF Headed
<1>2. CASE y' = y
  BY <1>2
<1>3. ASSUME NEW n \in 1..MaxSteps, NEW do \in Commands, NEW found \in Founds, Command(do, n, found)
      PROVE  Headed(y')
  BY <1>1, <1>3, HandledHeaded DEF Command
<1>4. CASE PushNeighbour
  BY <1>4, NextHeaded DEF PushNeighbour, Commands
<1>5. CASE PlayerStopAutoWalk
  BY <1>5, StopHeaded
<1>6. CASE FollowsAnother
  BY <1>6, FollowsHeaded
<1>7. CASE ChangeSpeed
  <2>1. CASE y' = Paralysed(y)
    BY <1>1, <2>1, ParalysedSound, StillHeaded
  <2>2. CASE ~y.moves /\ y' = SpeedRegained(y)
    BY <2>2, SpeedRegainedHeaded
  <2> QED BY <1>7, <2>1, <2>2 DEF ChangeSpeed
<1>8. CASE Teleport
  BY <1>1, <1>8, TeleportedSound, StillHeaded DEF Teleport
<1>9. ASSUME NEW n \in 1..MaxSteps, NEW what \in Happens,
             PlayerMove(what) \/ PlayerAutoWalk(n, what) \/ GoToFollowCreature(n, what)
      PROVE  Headed(y')
  <2>1. CASE PlayerMove(what)
    <3>1. Headed(NextWalkAction(y, NoTask))
      BY NextHeaded
    <3>2. y' = AutoWalk(NextWalkAction(y, NoTask), 1, what)
      BY <2>1 DEF PlayerMove
    <3> QED BY <3>1, <3>2, AutoWalkHeaded DEF Headed
  <2>2. CASE PlayerAutoWalk(n, what) \/ GoToFollowCreature(n, what)
    <3>1. y' = AutoWalk(y, n, what)
      BY <2>2 DEF PlayerAutoWalk, GoToFollowCreature
    <3> QED BY <1>1, <3>1, AutoWalkHeaded
  <2> QED BY <1>9, <2>1, <2>2
<1>10. ASSUME NEW t \in y.timers, Expire(t) PROVE Headed(y')
  BY <1>10, ExpireHeaded
<1>11. ASSUME NEW n \in 1..MaxSteps, NEW what \in Happens, NEW found \in Founds, RunNext(n, what, found)
       PROVE  Headed(y')
  BY <1>11, RunNextHeaded
<1> QED BY <1>2, <1>3, <1>4, <1>5, <1>6, <1>7, <1>8, <1>9, <1>10, <1>11 DEF WalkingNext

\* The inductive invariant.
AlwaysOnHisWay == Headed(y)

\* He is always sound, timed and on his way.
LEMMA StaysOnHisWay == WalkingSpec => []AlwaysOnHisWay
<1>1. WalkingInit => AlwaysOnHisWay
  BY InitHeaded DEF AlwaysOnHisWay
<1>2. AlwaysOnHisWay /\ [WalkingNext]_y => AlwaysOnHisWay'
  BY NextKeeps DEF AlwaysOnHisWay
<1> QED BY <1>1, <1>2, PTL DEF WalkingSpec

\* A command that waits can always be called off: a timer of an action is in the
\* slot of its kind, where the next command of that kind finds it, and what waits
\* for the end of the walk waits alone (player.cpp 1643-1720).
THEOREM CanBeCalledOffHolds == WalkingSpec => []CanBeCalledOff
<1>1. AlwaysOnHisWay => CanBeCalledOff
  BY DEF AlwaysOnHisWay, Headed, Sound, Shaped, Filed, Alone, CanBeCalledOff
<1> QED BY <1>1, StaysOnHisWay, PTL

\* One who has steps to go, or something to do when he is there, and was not
\* paralysed or stopped by a teleport, has a timer of his next step, or the
\* dispatcher has still to start his walk (creature.cpp 191-291).
THEOREM WalksOnHolds == WalkingSpec => []WalksOn
<1>1. AlwaysOnHisWay => WalksOn
  BY DEF AlwaysOnHisWay, Headed, OnTheWay, Owed, UnderWay, Sent, WalksOn
<1> QED BY <1>1, StaysOnHisWay, PTL

-----------------------------------------------------------------------------
(* Sums *)

\* The element of a set that the library's folds take first.
Pick(s) == CHOOSE x \in s : TRUE
\* The subsets of D of at most n elements.
Smaller(D, n) == {s \in SUBSET D : Cardinality(s) <= n}

\* h satisfies the recursion equation of a sum of f, on the given sets.
SumsOn(f, Ds, h) ==
  h = [s \in Ds |-> IF s = {} THEN 0 ELSE f[Pick(s)] + h[s \ {Pick(s)}]]

\* The library's sum is the recursive function's value.
LEMMA SumIs ==
  ASSUME NEW f, NEW S
  PROVE  SumFunctionOnSet(f, S) = (CHOOSE h : SumsOn(f, SUBSET S, h))[S]
  BY DEF SumFunctionOnSet, FoldFunctionOnSet, MapThenFoldSet, SumsOn, Pick

\* Taking an element out of a set makes it smaller by one.
LEMMA OneLess ==
  ASSUME NEW s, IsFiniteSet(s), NEW x \in s
  PROVE  /\ IsFiniteSet(s \ {x}) 
         /\ Cardinality(s) \in Nat /\ Cardinality(s \ {x}) \in Nat
         /\ Cardinality(s \ {x}) + 1 = Cardinality(s)
<1>1. IsFiniteSet(s \ {x})
  BY FS_RemoveElement
<1>2. Cardinality(s \ {x}) = Cardinality(s) - 1
  BY FS_RemoveElement
<1>3. Cardinality(s) \in Nat /\ Cardinality(s \ {x}) \in Nat
  BY <1>1, FS_CardinalityType
<1> QED BY <1>1, <1>2, <1>3

\* The element picked is one of the set.
LEMMA PickIn ==
  ASSUME NEW s, s # {}
  PROVE  Pick(s) \in s
  BY DEF Pick

\* The recursion has a solution on the sets of n elements at most.
LEMMA SolvableStep ==
  ASSUME NEW f, NEW D, IsFiniteSet(D), NEW n \in Nat, NEW h, SumsOn(f, Smaller(D, n), h)
  PROVE  \E g : SumsOn(f, Smaller(D, n + 1), g)
<1> DEFINE g == [s \in Smaller(D, n + 1) |->
                   IF s = {} THEN 0 ELSE f[Pick(s)] + h[s \ {Pick(s)}]]
<1>1. ASSUME NEW s \in Smaller(D, n + 1), s # {}
      PROVE  /\ s \ {Pick(s)} \in Smaller(D, n)
             /\ s \ {Pick(s)} \in Smaller(D, n + 1)
  <2>1. s \subseteq D /\ Cardinality(s) <= n + 1 /\ IsFiniteSet(s) /\ Pick(s) \in s
    BY <1>1, FS_Subset, PickIn DEF Smaller
  <2>2. Cardinality(s \ {Pick(s)}) \in Nat /\ Cardinality(s \ {Pick(s)}) + 1 = Cardinality(s)
    BY <2>1, OneLess
  <2>3. Cardinality(s \ {Pick(s)}) <= n
    BY <2>1, <2>2
  <2>4. s \ {Pick(s)} \subseteq D /\ Cardinality(s \ {Pick(s)}) <= n + 1
    BY <2>1, <2>2, <2>3
  <2> QED BY <2>3, <2>4 DEF Smaller
<1>2. ASSUME NEW s \in Smaller(D, n)
      PROVE  g[s] = h[s]
  <2>1. s \in Smaller(D, n + 1)
    <3>1. s \subseteq D /\ Cardinality(s) <= n /\ IsFiniteSet(s)
      BY <1>2, FS_Subset DEF Smaller
    <3>2. Cardinality(s) \in Nat
      BY <3>1, FS_CardinalityType
    <3> QED BY <3>1, <3>2 DEF Smaller
  <2> QED BY <2>1 DEF SumsOn
<1>3. g = [s \in Smaller(D, n + 1) |-> IF s = {} THEN 0 ELSE f[Pick(s)] + g[s \ {Pick(s)}]]
  BY <1>1, <1>2
<1>4. QED BY <1>3 DEF SumsOn

\* The recursion has a solution on all subsets of a finite set.
LEMMA Solvable ==
  ASSUME NEW f, NEW D, IsFiniteSet(D)
  PROVE  \E h : SumsOn(f, SUBSET D, h)
<1> DEFINE Bad == {n \in Nat : ~\E h : SumsOn(f, Smaller(D, n), h)}
<1>1. 0 \notin Bad
  <2>1. Smaller(D, 0) = {{}}
    <3>1. ASSUME NEW s \in SUBSET D PROVE Cardinality(s) <= 0 <=> s = {}
      <4>1. IsFiniteSet(s) /\ Cardinality(s) \in Nat
        BY FS_Subset, FS_CardinalityType
      <4>2. Cardinality(s) = 0 <=> s = {}
        BY <4>1, FS_EmptySet
      <4> QED BY <4>1, <4>2
    <3> QED BY <3>1 DEF Smaller
  <2>2. SumsOn(f, {{}}, [s \in {{}} |-> 0])
    BY DEF SumsOn
  <2> QED BY <2>1, <2>2
<1>2. Bad = {}
  <2>1. SUFFICES ASSUME Bad # {} PROVE FALSE
    OBVIOUS
  <2>2. PICK n \in Bad : \A m \in Bad : n <= m
    BY <2>1, LeastNumber
  <2>3. n # 0 /\ n - 1 \in Nat /\ n - 1 \notin Bad
    BY <1>1, <2>2
  <2>4. PICK h : SumsOn(f, Smaller(D, n - 1), h)
    BY <2>3
  <2>5. \E g : SumsOn(f, Smaller(D, (n - 1) + 1), g)
    BY <2>3, <2>4, SolvableStep
  <2>6. (n - 1) + 1 = n
    BY <2>2
  <2> QED BY <2>2, <2>5, <2>6
<1>3. Smaller(D, Cardinality(D)) = SUBSET D
  BY FS_Subset DEF Smaller
<1>4. Cardinality(D) \in Nat
  BY FS_CardinalityType
<1>5. Cardinality(D) \notin Bad
  BY <1>2
<1>6. \E h : SumsOn(f, Smaller(D, Cardinality(D)), h)
  BY <1>4, <1>5
<1> QED BY <1>3, <1>6

\* Two solutions agree where both are defined.
LEMMA SolvedOnce ==
  ASSUME NEW f, NEW D, IsFiniteSet(D), NEW E, NEW h, NEW g,
         SumsOn(f, SUBSET D, h), SumsOn(f, SUBSET E, g), NEW s, s \subseteq D, s \subseteq E
  PROVE  h[s] = g[s]
<1> DEFINE Bad == {n \in Nat : \E t \in SUBSET D : t \subseteq E /\ Cardinality(t) = n /\ h[t] # g[t]}
<1>1. SUFFICES ASSUME h[s] # g[s] PROVE FALSE
  OBVIOUS
<1>2. Cardinality(s) \in Bad
  BY <1>1, FS_Subset, FS_CardinalityType
<1>3. PICK n \in Bad : \A m \in Bad : n <= m
  BY <1>2, LeastNumber
<1>4. PICK t \in SUBSET D : t \subseteq E /\ Cardinality(t) = n /\ h[t] # g[t]
  BY <1>3
<1>5. t # {}
  BY <1>4 DEF SumsOn
<1> DEFINE u == t \ {Pick(t)}
<1>6. Pick(t) \in t /\ IsFiniteSet(t) /\ u \in SUBSET D /\ u \subseteq E
  BY <1>4, <1>5, PickIn, FS_Subset
<1>7. Cardinality(u) \in Nat /\ Cardinality(u) + 1 = n
  BY <1>4, <1>6, OneLess
<1>8. h[t] = f[Pick(t)] + h[u] /\ g[t] = f[Pick(t)] + g[u]
  BY <1>4, <1>5 DEF SumsOn
<1>9. h[u] # g[u]
  BY <1>4, <1>8
<1>10. Cardinality(u) \in Bad
  BY <1>6, <1>7, <1>9
<1>11. n \in Nat /\ n <= Cardinality(u)
  BY <1>3, <1>10
<1> QED BY <1>7, <1>11

\* The sum of nothing, and of a set in terms of the element it picks.
LEMMA SumRecurs ==
  ASSUME NEW f, NEW S, IsFiniteSet(S)
  PROVE  SumFunctionOnSet(f, S) =
           IF S = {} THEN 0 ELSE f[Pick(S)] + SumFunctionOnSet(f, S \ {Pick(S)})
<1> DEFINE h == CHOOSE h : SumsOn(f, SUBSET S, h)
           T == S \ {Pick(S)}
           g == CHOOSE g : SumsOn(f, SUBSET T, g)
<1>1. SumsOn(f, SUBSET S, h)
  BY Solvable
<1>2. SumFunctionOnSet(f, S) = h[S] /\ SumFunctionOnSet(f, T) = g[T]
  BY SumIs
<1>3. IsFiniteSet(T) /\ T \subseteq S
  BY FS_Subset
<1>4. SumsOn(f, SUBSET T, g)
  BY <1>3, Solvable
<1> HIDE DEF h, g, T
<1>5. h[T] = g[T]
  BY <1>1, <1>3, <1>4, SolvedOnce
<1>6. h[S] = IF S = {} THEN 0 ELSE f[Pick(S)] + h[S \ {Pick(S)}]
  BY <1>1 DEF SumsOn
<1> QED BY <1>2, <1>5, <1>6 DEF T

\* A sum of integers is an integer; what it is of equal functions is equal.
LEMMA SumTyped ==
  ASSUME NEW f, NEW S, IsFiniteSet(S), \A x \in S : f[x] \in Int
  PROVE  SumFunctionOnSet(f, S) \in Int
<1> DEFINE Bad == {n \in Nat : \E t \in SUBSET S : Cardinality(t) = n /\ SumFunctionOnSet(f, t) \notin Int}
<1>1. SUFFICES ASSUME SumFunctionOnSet(f, S) \notin Int PROVE FALSE
  OBVIOUS
<1>2. Cardinality(S) \in Bad
  BY <1>1, FS_CardinalityType
<1>3. PICK n \in Bad : \A m \in Bad : n <= m
  BY <1>2, LeastNumber
<1>4. PICK t \in SUBSET S : Cardinality(t) = n /\ SumFunctionOnSet(f, t) \notin Int
  BY <1>3
<1> DEFINE u == t \ {Pick(t)}
<1>5. IsFiniteSet(t)
  BY FS_Subset
<1>6. /\ SumFunctionOnSet(f, t) = IF t = {} THEN 0 ELSE f[Pick(t)] + SumFunctionOnSet(f, u)
      /\ t # {}
  BY <1>4, <1>5, SumRecurs
<1>7. Pick(t) \in t /\ f[Pick(t)] \in Int
  BY <1>6, PickIn
<1>8. SumFunctionOnSet(f, u) \notin Int
  BY <1>4, <1>6, <1>7
<1>9. Cardinality(u) \in Nat /\ Cardinality(u) + 1 = n
  BY <1>4, <1>5, <1>7, OneLess
<1>10. Cardinality(u) \in Bad
  BY <1>8, <1>9
<1>11. n \in Nat /\ n <= Cardinality(u)
  BY <1>3, <1>10
<1> QED BY <1>9, <1>11

\* Any element can be taken out of a sum, not only the one it picks.
LEMMA SumTakeOut ==
  ASSUME NEW f, NEW S, IsFiniteSet(S), \A x \in S : f[x] \in Int, NEW x \in S
  PROVE  SumFunctionOnSet(f, S) = f[x] + SumFunctionOnSet(f, S \ {x})
<1> DEFINE Fails(t, e) == SumFunctionOnSet(f, t) # f[e] + SumFunctionOnSet(f, t \ {e})
           Bad == {n \in Nat : \E t \in SUBSET S : Cardinality(t) = n /\ \E e \in t : Fails(t, e)}
<1>1. SUFFICES ASSUME Fails(S, x) PROVE FALSE
  OBVIOUS
<1>2. Cardinality(S) \in Bad
  BY <1>1, FS_CardinalityType
<1>3. PICK n \in Bad : \A m \in Bad : n <= m
  BY <1>2, LeastNumber
<1>4. PICK t \in SUBSET S : Cardinality(t) = n /\ \E e \in t : Fails(t, e)
  BY <1>3
<1>5. PICK e \in t : Fails(t, e)
  BY <1>4
<1> DEFINE p == Pick(t)
           u == t \ {p}
<1>6. IsFiniteSet(t) /\ t # {} /\ p \in t
  BY <1>5, FS_Subset, PickIn
<1>7. SumFunctionOnSet(f, t) = f[p] + SumFunctionOnSet(f, u)
  BY <1>6, SumRecurs
<1>8. p # e
  BY <1>5, <1>7
<1>9. IsFiniteSet(u) /\ Cardinality(u) \in Nat /\ Cardinality(u) + 1 = n
  BY <1>4, <1>6, OneLess
<1>10. Cardinality(u) \notin Bad
  <2>1. ~(n <= Cardinality(u))
    BY <1>9
  <2> QED BY <1>3, <2>1
<1>11. u \in SUBSET S /\ e \in u
  BY <1>8
<1>12. ~Fails(u, e)
  BY <1>9, <1>10, <1>11
<1> DEFINE v == t \ {e}
<1>13. IsFiniteSet(v) /\ Cardinality(v) \in Nat /\ Cardinality(v) + 1 = n
  BY <1>4, <1>6, OneLess
<1>14. Cardinality(v) \notin Bad
  <2>1. ~(n <= Cardinality(v))
    BY <1>13
  <2> QED BY <1>3, <2>1
<1>15. v \in SUBSET S /\ p \in v
  BY <1>6, <1>8
<1>16. ~Fails(v, p)
  BY <1>13, <1>14, <1>15
<1>17. u \ {e} = v \ {p}
  OBVIOUS
<1>18. /\ f[p] \in Int /\ f[e] \in Int
       /\ SumFunctionOnSet(f, u \ {e}) \in Int
  <2>1. IsFiniteSet(u \ {e}) /\ \A z \in u \ {e} : f[z] \in Int
    BY <1>9, FS_Subset
  <2> QED BY <1>6, <2>1, SumTyped
<1>19. SumFunctionOnSet(f, t) = f[p] + (f[e] + SumFunctionOnSet(f, u \ {e}))
  BY <1>7, <1>12
<1>20. SumFunctionOnSet(f, v) = f[p] + SumFunctionOnSet(f, u \ {e})
  BY <1>16, <1>17
<1>21. SumFunctionOnSet(f, t) = f[e] + SumFunctionOnSet(f, v)
  BY <1>18, <1>19, <1>20
<1> QED BY <1>5, <1>21

\* The sum over no element.
LEMMA SumOfNothing == ASSUME NEW f PROVE SumFunctionOnSet(f, {}) = 0
  BY SumRecurs, FS_EmptySet

\* The sum of sums is the sum of the two sums.
LEMMA SumAdds ==
  ASSUME NEW S, IsFiniteSet(S), NEW f, NEW g, NEW h,
         \A x \in S : f[x] \in Int /\ g[x] \in Int /\ h[x] = f[x] + g[x]
  PROVE  SumFunctionOnSet(h, S) = SumFunctionOnSet(f, S) + SumFunctionOnSet(g, S)
<1> DEFINE Fails(t) == SumFunctionOnSet(h, t) # SumFunctionOnSet(f, t) + SumFunctionOnSet(g, t)
           Bad == {n \in Nat : \E t \in SUBSET S : Cardinality(t) = n /\ Fails(t)}
<1>1. SUFFICES ASSUME Fails(S) PROVE FALSE
  OBVIOUS
<1>2. Cardinality(S) \in Bad
  BY <1>1, FS_CardinalityType
<1>3. PICK n \in Bad : \A m \in Bad : n <= m
  BY <1>2, LeastNumber
<1>4. PICK t \in SUBSET S : Cardinality(t) = n /\ Fails(t)
  BY <1>3
<1> DEFINE p == Pick(t)
           u == t \ {p}
<1>5. t # {}
  <2>1. /\ SumFunctionOnSet(f, {}) = 0
        /\ SumFunctionOnSet(g, {}) = 0
        /\ SumFunctionOnSet(h, {}) = 0
    BY SumOfNothing
  <2>2. ~Fails({})
    BY <2>1
  <2> QED BY <1>4, <2>2
<1>6. IsFiniteSet(t) /\ p \in t
  BY <1>5, FS_Subset, PickIn
<1>7. /\ SumFunctionOnSet(f, t) = f[p] + SumFunctionOnSet(f, u)
      /\ SumFunctionOnSet(g, t) = g[p] + SumFunctionOnSet(g, u)
      /\ SumFunctionOnSet(h, t) = h[p] + SumFunctionOnSet(h, u)
  BY <1>5, <1>6, SumRecurs
<1>8. IsFiniteSet(u) /\ Cardinality(u) \in Nat /\ Cardinality(u) + 1 = n
  BY <1>4, <1>6, OneLess
<1>9. Cardinality(u) \notin Bad
  <2>1. ~(n <= Cardinality(u))
    BY <1>8
  <2> QED BY <1>3, <2>1
<1>10. ~Fails(u)
  BY <1>8, <1>9
<1>11. /\ SumFunctionOnSet(f, u) \in Int
       /\ SumFunctionOnSet(g, u) \in Int
  BY <1>8, SumTyped
<1>12. f[p] \in Int /\ g[p] \in Int /\ h[p] = f[p] + g[p]
  BY <1>6
<1> HIDE DEF u, p
<1>13. ~Fails(t)
  BY <1>7, <1>10, <1>11, <1>12
<1> QED BY <1>4, <1>13

\* A sum of zeros.
LEMMA SumZero ==
  ASSUME NEW S, IsFiniteSet(S), NEW f, \A x \in S : f[x] = 0
  PROVE  SumFunctionOnSet(f, S) = 0
<1>1. SumFunctionOnSet(f, S) = SumFunctionOnSet(f, S) + SumFunctionOnSet(f, S)
  BY SumAdds
<1>2. SumFunctionOnSet(f, S) \in Int
  BY SumTyped
<1>3. PICK n \in Int : n = SumFunctionOnSet(f, S)
  BY <1>2
<1>4. n = n + n
  BY <1>1, <1>3
<1>5. n = 0
  BY <1>4
<1> QED BY <1>3, <1>5, Zenon

\* Functions that agree on a set have the same sum over it.
LEMMA SumAgrees ==
  ASSUME NEW S, IsFiniteSet(S), NEW f, NEW g, \A x \in S : f[x] \in Int /\ g[x] = f[x]
  PROVE  SumFunctionOnSet(g, S) = SumFunctionOnSet(f, S)
<1> DEFINE z == [x \in S |-> 0]
<1>1. SumFunctionOnSet(z, S) = 0
  BY SumZero
<1>2. SumFunctionOnSet(g, S) = SumFunctionOnSet(f, S) + SumFunctionOnSet(z, S)
  BY SumAdds
<1>3. SumFunctionOnSet(f, S) \in Int
  BY SumTyped
<1> QED BY <1>1, <1>2, <1>3

\* A sum when one of its terms changes.
LEMMA SumChanges ==
  ASSUME NEW S, IsFiniteSet(S), NEW f, NEW g, NEW x \in S, g[x] \in Int,
         \A e \in S : f[e] \in Int, \A e \in S \ {x} : g[e] = f[e]
  PROVE  SumFunctionOnSet(g, S) = SumFunctionOnSet(f, S) - f[x] + g[x]
<1>1. IsFiniteSet(S \ {x})
  BY FS_Subset
<1>2. SumFunctionOnSet(g, S \ {x}) = SumFunctionOnSet(f, S \ {x})
  BY <1>1, SumAgrees
<1>3. SumFunctionOnSet(f, S \ {x}) \in Int
  BY <1>1, SumTyped
<1>4. SumFunctionOnSet(f, S) = f[x] + SumFunctionOnSet(f, S \ {x})
  BY SumTakeOut
<1>5. \A e \in S : g[e] \in Int
  OBVIOUS
<1>6. SumFunctionOnSet(g, S) = g[x] + SumFunctionOnSet(g, S \ {x})
  BY <1>5, SumTakeOut
<1>7. f[x] \in Int
  OBVIOUS
<1> QED BY <1>2, <1>3, <1>4, <1>6, <1>7

-----------------------------------------------------------------------------
(* Spawns *)

\* What is kept of a spawn.
SpawnStates ==
  [event : BOOLEAN, ever : BOOLEAN, doubled : BOOLEAN, checks : Seq(Int),
   near : [Ids -> Int], away : [Ids -> Int], removed : [Ids -> Int],
   coming : Seq([block : Blocks, left : Int])]

\* No monster of block b is there.
Missing(u, b) == u.near[b] = 0 /\ u.away[b] = 0 /\ u.removed[b] = 0

\* Those announced for it, by their places in the list.
Announced(u, b) == {i \in DOMAIN u.coming : u.coming[i].block = b}

\* A check lies between two times at which somebody arrives; and what was announced
\* with l left to go was so before the last check, if the next one is due in c.
Separate(l, m) == l + CheckEvery <= m
Since(l, c) == l + CheckEvery <= c + Effects

\* Nobody is there, and nobody was announced but by earlier checks.
Vacant(u, b) ==
  /\ Missing(u, b)
  /\ \A i \in Announced(u, b) : Separate(u.coming[i].left, Effects)

\* There is room for one more, and for those that there are.
RoomFor(u, b) == Claims(u, b) * CheckEvery <= Effects
Fits(u, b) == (Claims(u, b) - 1) * CheckEvery <= Effects

\* The event stands for a check, and for one only unless one was asked for twice;
\* where none is pending nobody was removed.
Listed(u) == u.event => u.checks # << >>
OneCheck(u) == ~u.doubled => (u.event => Len(u.checks) = 1) /\ (~u.event => u.checks = << >>)
Noticed(u) == ~u.event => \A b \in Ids : u.removed[b] = 0

\* Those announced come in turn, none of a kind that appears at once; those of one
\* block were announced by different checks, and all no later than the last one.
InTurn(u) ==
  /\ \A i \in DOMAIN u.coming :
       0 <= u.coming[i].left /\ u.coming[i].left <= Effects /\ u.coming[i].block \notin Blockable
  /\ \A i, j \in DOMAIN u.coming : i < j => u.coming[i].left <= u.coming[j].left
Spaced(u) ==
  ~u.doubled => \A i, j \in DOMAIN u.coming :
    i < j /\ u.coming[i].block = u.coming[j].block => Separate(u.coming[i].left, u.coming[j].left)
SinceCheck(u) ==
  ~u.doubled => \A i \in DOMAIN u.coming, j \in DOMAIN u.checks :
    Since(u.coming[i].left, u.checks[j])

\* A block has no more monsters, there or announced, than fit.
FewPerBlock(u) ==
  ~u.doubled => \A b \in Blocks : u.near[b] >= 0 /\ u.away[b] >= 0 /\ u.removed[b] >= 0 /\ Fits(u, b)

\* As many as there are blocks, unless a check is pending.
Enough(u) == u.ever /\ ~u.event => Size(u) >= NBlocks

\* The checks that are pending have only been asked for.
Lately(u) == ~u.doubled => \A j \in DOMAIN u.checks : u.checks[j] >= CheckEvery

Regular(u) ==
  /\ u \in SpawnStates /\ Listed(u) /\ OneCheck(u)
  /\ InTurn(u) /\ Spaced(u) /\ SinceCheck(u) /\ FewPerBlock(u)
Orderly(u) == Regular(u) /\ Noticed(u)

\* The same monsters, there and announced.
SameMonsters(u, v) ==
  /\ v.near = u.near /\ v.away = u.away /\ v.removed = u.removed
  /\ v.coming = u.coming /\ v.doubled = u.doubled

\* What the constants are.
LEMMA BlocksAre ==
  /\ NBlocks \in Nat /\ NBlocks # 0 /\ Blocks \subseteq Ids /\ IsFiniteSet(Ids) /\ 0 \in Ids
  /\ \A b \in Blocks : b # 0
  /\ CheckEvery \in Nat /\ CheckEvery > 0 /\ Effects \in Nat /\ Effects > 0
<1>1. NBlocks \in Nat /\ NBlocks # 0
  BY SpawnAssumption
<1>2. \A p, q \in Int : IsFiniteSet(p..q)
  BY FS_Interval
<1>3. 0 \in Int /\ NBlocks \in Int
  BY <1>1
<1>4. IsFiniteSet(Ids)
  BY <1>2, <1>3, Zenon DEF Ids
<1> QED BY <1>1, <1>4, SpawnAssumption DEF Ids, Blocks

\* What the lists hold.
LEMMA ListsHold ==
  ASSUME NEW u \in SpawnStates
  PROVE  /\ \A j \in DOMAIN u.checks : u.checks[j] \in Int
         /\ \A i \in DOMAIN u.coming : u.coming[i].block \in Blocks /\ u.coming[i].left \in Int
<1> DEFINE R == [block : Blocks, left : Int]
<1>1. PICK q \in Seq(R) : q = u.coming
  BY DEF SpawnStates
<1>2. PICK p \in Seq(Int) : p = u.checks
  BY DEF SpawnStates
<1>3. \A i \in DOMAIN q : q[i] \in R
  <2> HIDE DEF R
  <2> QED OBVIOUS
<1>4. \A j \in DOMAIN p : p[j] \in Int
  OBVIOUS
<1> QED BY <1>1, <1>2, <1>3, <1>4

\* The size is a number.
LEMMA SizeTyped ==
  ASSUME NEW u \in SpawnStates
  PROVE  Size(u) \in Int
<1> DEFINE f == [b \in Ids |-> u.near[b] + u.away[b] + u.removed[b]]
<1>1. \A b \in Ids : f[b] \in Int
  BY DEF SpawnStates
<1>2. DOMAIN f = Ids /\ Size(u) = SumFunctionOnSet(f, DOMAIN f)
  BY DEF Size, SumFunction
<1> HIDE DEF f
<1>3. SumFunctionOnSet(f, Ids) \in Int
  BY <1>1, BlocksAre, SumTyped
<1> QED BY <1>2, <1>3

\* A total when one number changes.
LEMMA TotalChanges ==
  ASSUME NEW S, IsFiniteSet(S), NEW f \in [S -> Int], NEW g \in [S -> Int], NEW x \in S, NEW n \in Int,
         \A e \in S \ {x} : g[e] = f[e], g[x] = f[x] + n
  PROVE  SumFunction(g) = SumFunction(f) + n
<1>1. /\ \A e \in S : f[e] \in Int /\ g[e] \in Int
      /\ DOMAIN f = S /\ DOMAIN g = S
  OBVIOUS
<1>2. SumFunctionOnSet(g, S) = SumFunctionOnSet(f, S) - f[x] + g[x]
  BY <1>1, SumChanges
<1>3. SumFunctionOnSet(f, S) \in Int
  BY <1>1, SumTyped
<1>4. SumFunctionOnSet(g, S) = SumFunctionOnSet(f, S) + n
  BY <1>1, <1>2, <1>3
<1> QED BY <1>1, <1>4 DEF SumFunction

\* A monster more, and as many as before.
LEMMA SizeGrows ==
  ASSUME NEW u \in SpawnStates, NEW v \in SpawnStates, NEW b \in Ids,
         v.near = [u.near EXCEPT ![b] = u.near[b] + 1], v.away = u.away, v.removed = u.removed
  PROVE  Size(v) = Size(u) + 1
<1> DEFINE f == [c \in Ids |-> u.near[c] + u.away[c] + u.removed[c]]
           g == [c \in Ids |-> v.near[c] + v.away[c] + v.removed[c]]
<1>0. /\ u.near \in [Ids -> Int] /\ u.away \in [Ids -> Int] /\ u.removed \in [Ids -> Int]
      /\ v.near \in [Ids -> Int] /\ v.away \in [Ids -> Int] /\ v.removed \in [Ids -> Int]
  BY DEF SpawnStates
<1>1. f \in [Ids -> Int] /\ g \in [Ids -> Int]
  BY <1>0
<1>2. g[b] = f[b] + 1 /\ \A c \in Ids \ {b} : g[c] = f[c]
  <2>1. \A c \in Ids \ {b} : v.near[c] = u.near[c]
    BY <1>0
  <2>2. v.near[b] = u.near[b] + 1
    BY <1>0
  <2>3. g[b] = f[b] + 1
    <3>1. u.near[b] \in Int /\ u.away[b] \in Int /\ u.removed[b] \in Int
      BY <1>0
    <3>2. g[b] = (u.near[b] + 1) + u.away[b] + u.removed[b]
      BY <2>2
    <3>3. f[b] = u.near[b] + u.away[b] + u.removed[b]
      OBVIOUS
    <3> HIDE DEF f, g
    <3> QED BY <3>1, <3>2, <3>3
  <2> QED BY <2>1, <2>3
<1>3. Size(u) = SumFunction(f) /\ Size(v) = SumFunction(g)
  BY DEF Size
<1> HIDE DEF f, g
<1>4. SumFunction(g) = SumFunction(f) + 1
  BY <1>1, <1>2, BlocksAre, TotalChanges
<1> QED BY <1>3, <1>4

\* As many as before, when no number of a block changes in all.
LEMMA SizeStays ==
  ASSUME NEW u \in SpawnStates, NEW v,
         \A b \in Ids : v.near[b] + v.away[b] + v.removed[b] = u.near[b] + u.away[b] + u.removed[b]
  PROVE  Size(v) = Size(u)
  BY DEF Size

\* What time and the checks do to these distances.
LEMMA SeparateAre ==
  /\ \A l, m \in Int : Separate(l, m) => Separate(l - 1, m - 1)
  /\ \A l, c \in Int : Since(l, c) => Since(l - 1, c - 1)
  /\ \A l, c \in Int : l <= Effects /\ c >= CheckEvery => Since(l, c)
  /\ \A l \in Int : l <= Effects => Since(l, CheckEvery)
  /\ \A l \in Int : Since(l, 0) => Separate(l, Effects)
<1>1. PICK g, e \in Int : g = CheckEvery /\ e = Effects
  BY BlocksAre
<1>2. \A l, m : /\ Separate(l, m) <=> l + g <= m
                /\ Since(l, m) <=> l + g <= m + e
  BY <1>1 DEF Separate, Since
<1>3. \A l, m \in Int : l + g <= m => (l - 1) + g <= m - 1
  OBVIOUS
<1>4. \A l, c \in Int : l + g <= c + e => (l - 1) + g <= (c - 1) + e
  OBVIOUS
<1>5. \A l, c \in Int : l <= e /\ c >= g => l + g <= c + e
  OBVIOUS
<1>6. \A l \in Int : l + g <= 0 + e => l + g <= e
  OBVIOUS
<1> HIDE DEF Separate, Since
<1> QED BY <1>1, <1>2, <1>3, <1>4, <1>5, <1>6

\* Of things that are at least d apart, n + 1 take up n * d.
LEMMA FarApart ==
  ASSUME NEW gap \in Nat, NEW e \in Nat, NEW l \in Nat, NEW f, NEW S \in SUBSET (1..l),
         \A i \in S : f[i] \in Int /\ 0 <= f[i] /\ f[i] <= e,
         \A i, j \in S : i < j => f[i] + gap <= f[j]
  PROVE  (Cardinality(S) - 1) * gap <= e
<1> DEFINE Reach(k) == \A T \in SUBSET S : Cardinality(T) = k + 1 => \E x \in T : k * gap <= f[x]
           Bad == {k \in Nat : ~Reach(k)}
<1>1. IsFiniteSet(S) /\ S \in SUBSET Int /\ \A T \in SUBSET S : IsFiniteSet(T)
  <2>1. IsFiniteSet(1..l) /\ S \in SUBSET Int
    BY FS_Interval
  <2> QED BY <2>1, FS_Subset
<1>2. ASSUME NEW T \in SUBSET S, T # {}
      PROVE  \E x \in T : \A z \in T : z <= x
  <2> DEFINE U == {l - z : z \in T}
  <2>1. U \in SUBSET Nat /\ U # {}
    <3>1. \A z \in T : z \in 1..l /\ l - z \in Nat
      OBVIOUS
    <3> QED BY <1>2, <3>1
  <2>2. PICK n \in U : \A m \in U : n <= m
    BY <2>1, LeastNumber
  <2>3. PICK x \in T : n = l - x
    BY <2>2
  <2>4. \A z \in T : l - x <= l - z /\ x \in Int /\ z \in Int
    BY <1>1, <2>2, <2>3
  <2> QED BY <2>4
<1>3. Bad = {}
  <2> SUFFICES ASSUME Bad # {} PROVE FALSE
    OBVIOUS
  <2>1. Bad \in SUBSET Nat
    OBVIOUS
  <2>2. PICK k \in Bad : \A m \in Bad : k <= m
    BY <2>1, LeastNumber
  <2>3. k \in Nat /\ ~Reach(k)
    BY <2>2
  <2>4. PICK T \in SUBSET S : Cardinality(T) = k + 1 /\ ~ \E x \in T : k * gap <= f[x]
    BY <2>3
  <2>5. IsFiniteSet(T) /\ T # {}
    BY <1>1, <2>3, <2>4, FS_EmptySet
  <2>6. PICK x \in T : \A z \in T : z <= x
    BY <1>2, <2>5
  <2>7. f[x] \in Int /\ 0 <= f[x]
    BY <2>4, <2>6
  <2>8. CASE k = 0
    <3>1. k * gap = 0
      BY <2>8
    <3> QED BY <2>4, <2>6, <2>7, <3>1
  <2>9. CASE k # 0
    <3>1. k - 1 \in Nat /\ k - 1 \notin Bad
      BY <2>2, <2>3, <2>9
    <3>2. Cardinality(T \ {x}) = (k - 1) + 1
      <4>1. Cardinality(T \ {x}) = Cardinality(T) - 1
        BY <2>5, <2>6, FS_RemoveElement
      <4>2. (k + 1) - 1 = (k - 1) + 1
        BY <2>3
      <4> QED BY <2>4, <4>1, <4>2
    <3>3. T \ {x} \in SUBSET S
      OBVIOUS
    <3>4. PICK z \in T \ {x} : (k - 1) * gap <= f[z]
      BY <3>1, <3>2, <3>3
    <3>5. z < x /\ f[z] \in Int /\ f[z] + gap <= f[x]
      BY <1>1, <2>4, <2>6, <3>4
    <3>6. (k - 1) * gap + gap = k * gap /\ (k - 1) * gap \in Int /\ k * gap \in Int
      BY <2>3
    <3>7. k * gap <= f[x]
      BY <2>7, <3>4, <3>5, <3>6
    <3> QED BY <2>4, <2>6, <3>7
  <2> QED BY <2>8, <2>9
<1>4. PICK c \in Nat : c = Cardinality(S)
  BY <1>1, FS_CardinalityType
<1>5. CASE c = 0
  <2>1. (c - 1) * gap <= 0
    BY <1>5
  <2> QED BY <1>4, <2>1
<1>6. CASE c # 0
  <2>1. c - 1 \in Nat /\ c - 1 \notin Bad /\ Cardinality(S) = (c - 1) + 1
    BY <1>3, <1>4, <1>6
  <2>2. PICK x \in S : (c - 1) * gap <= f[x]
    BY <2>1
  <2>3. (c - 1) * gap \in Int /\ f[x] \in Int /\ f[x] <= e
    BY <1>4
  <2> QED BY <1>4, <2>2, <2>3
<1> QED BY <1>5, <1>6

\* How many are announced for a block.
LEMMA AnnouncedTyped ==
  ASSUME NEW u \in SpawnStates, NEW b
  PROVE  /\ Len(u.coming) \in Nat /\ Announced(u, b) \in SUBSET (1..Len(u.coming))
         /\ IsFiniteSet(Announced(u, b)) /\ Cardinality(Announced(u, b)) \in Nat
<1> DEFINE R == [block : Blocks, left : Int]
<1>1. PICK q \in Seq(R) : q = u.coming
  BY DEF SpawnStates
<1> HIDE DEF R
<1>2. Len(q) \in Nat /\ DOMAIN q = 1..Len(q)
  OBVIOUS
<1>3. IsFiniteSet(1..Len(q))
  BY <1>2, FS_Interval
<1>4. Announced(u, b) \in SUBSET (1..Len(q))
  BY <1>1, <1>2 DEF Announced
<1>5. IsFiniteSet(Announced(u, b))
  BY <1>3, <1>4, FS_Subset
<1> QED BY <1>1, <1>2, <1>4, <1>5, FS_CardinalityType

\* Those announced, and those that are there.
LEMMA ClaimsAre ==
  ASSUME NEW u \in SpawnStates, NEW b \in Ids
  PROVE  /\ Claims(u, b) = Cardinality(Announced(u, b)) + (u.near[b] + u.away[b] + u.removed[b])
         /\ Claims(u, b) \in Int /\ u.near[b] + u.away[b] + u.removed[b] \in Int
<1>1. u.near[b] \in Int /\ u.away[b] \in Int /\ u.removed[b] \in Int
  BY DEF SpawnStates
<1>2. PICK c \in Nat : c = Cardinality(Announced(u, b))
  BY AnnouncedTyped
<1>3. Claims(u, b) = c + u.near[b] + u.away[b] + u.removed[b]
  BY <1>2 DEF Claims, Announced
<1> QED BY <1>1, <1>2, <1>3

\* The claims to a block as others are, and what fits.
LEMMA ClaimsCompared ==
  ASSUME NEW u \in SpawnStates, NEW v \in SpawnStates, NEW b \in Ids
  PROVE  /\ Claims(v, b) = Claims(u, b) /\ RoomFor(u, b) => RoomFor(v, b)
         /\ Claims(v, b) <= Claims(u, b) /\ Fits(u, b) => Fits(v, b)
         /\ Claims(v, b) = Claims(u, b) + 1 /\ RoomFor(u, b) => Fits(v, b)
         /\ Claims(v, b) = Claims(u, b) - 1 /\ Fits(u, b) => RoomFor(v, b)
         /\ Claims(v, b) = 0 => RoomFor(v, b)
<1>1. PICK x, z, gap, e \in Int : /\ x = Claims(u, b) /\ z = Claims(v, b) /\ gap = CheckEvery /\ e = Effects
                               /\ gap >= 0 /\ e >= 0
  BY ClaimsAre, BlocksAre
<1>2. z = x => z * gap = x * gap
  OBVIOUS
<1>3. z <= x => (z - 1) * gap <= (x - 1) * gap
  <2> SUFFICES ASSUME z <= x PROVE (z - 1) * gap <= (x - 1) * gap
    OBVIOUS
  <2>1. PICK n \in Nat : n = x - z
    OBVIOUS
  <2>2. n * gap >= 0 /\ n * gap \in Int
    BY <1>1
  <2>3. (x - 1) * gap = (z - 1) * gap + n * gap
    BY <2>1
  <2> QED BY <2>2, <2>3
<1>4. z = x + 1 => (z - 1) * gap = x * gap
  OBVIOUS
<1>5. z = x - 1 => z * gap = (x - 1) * gap
  OBVIOUS
<1>6. z = 0 => z * gap = 0
  OBVIOUS
<1>7. x * gap \in Int /\ z * gap \in Int /\ (x - 1) * gap \in Int /\ (z - 1) * gap \in Int
  OBVIOUS
<1> QED BY <1>1, <1>2, <1>3, <1>4, <1>5, <1>6, <1>7 DEF RoomFor, Fits

\* As many of a block, elsewhere.
LEMMA ClaimsStay ==
  ASSUME NEW u \in SpawnStates, NEW v \in SpawnStates, NEW b \in Ids, v.coming = u.coming,
         v.near[b] + v.away[b] + v.removed[b] = u.near[b] + u.away[b] + u.removed[b]
  PROVE  Claims(v, b) = Claims(u, b) /\ (Fits(u, b) => Fits(v, b)) /\ (RoomFor(u, b) => RoomFor(v, b))
<1>1. Announced(v, b) = Announced(u, b)
  BY DEF Announced
<1>2. Claims(v, b) = Claims(u, b)
  BY <1>1, ClaimsAre
<1> QED BY <1>2, ClaimsAre, ClaimsCompared

\* No more of a block than the announcements allow, when none of them is there.
LEMMA AnnouncedFit ==
  ASSUME NEW u \in SpawnStates, NEW b \in Ids, Missing(u, b), InTurn(u), Spaced(u), ~u.doubled
  PROVE  Fits(u, b)
<1> DEFINE f == [i \in DOMAIN u.coming |-> u.coming[i].left]
           S == Announced(u, b)
<1>1. Claims(u, b) = Cardinality(S)
  <2>1. u.near[b] + u.away[b] + u.removed[b] = 0
    BY DEF Missing
  <2> QED BY <2>1, ClaimsAre, AnnouncedTyped
<1>2. S \in SUBSET (1..Len(u.coming)) /\ Len(u.coming) \in Nat
  BY AnnouncedTyped
<1>3. \A i \in S : i \in DOMAIN u.coming /\ u.coming[i].block = b /\ f[i] = u.coming[i].left
  BY DEF Announced
<1>4. \A i \in S : f[i] \in Int /\ 0 <= f[i] /\ f[i] <= Effects
  BY <1>3, ListsHold DEF InTurn
<1>5. \A i, j \in S : i < j => f[i] + CheckEvery <= f[j]
  BY <1>3 DEF Spaced, Separate
<1> HIDE DEF f, S
<1>6. (Cardinality(S) - 1) * CheckEvery <= Effects
  BY <1>2, <1>4, <1>5, BlocksAre, FarApart
<1> QED BY <1>1, <1>6 DEF Fits

\* What depends only on the monsters.
LEMMA SameMonstersKept ==
  ASSUME NEW u, NEW v, SameMonsters(u, v)
  PROVE  /\ FewPerBlock(u) => FewPerBlock(v)
         /\ InTurn(u) => InTurn(v)
         /\ Spaced(u) => Spaced(v)
         /\ \A b : (Vacant(u, b) => Vacant(v, b)) /\ (RoomFor(u, b) => RoomFor(v, b))
<1>1. \A b : Announced(v, b) = Announced(u, b) /\ Claims(v, b) = Claims(u, b)
  BY DEF SameMonsters, Announced, Claims
<1>2. \A b : (Fits(u, b) => Fits(v, b)) /\ (RoomFor(u, b) => RoomFor(v, b))
  BY <1>1 DEF Fits, RoomFor
<1>3. \A b : Vacant(u, b) => Vacant(v, b)
  BY <1>1 DEF SameMonsters, Vacant, Missing
<1> QED BY <1>2, <1>3 DEF SameMonsters, FewPerBlock, InTurn, Spaced

\* A check is asked for.
LEMMA StartSpawnCheckOrderly ==
  ASSUME NEW u, Regular(u)
  PROVE  LET v == StartSpawnCheck(u) IN
         Orderly(v) /\ v.event /\ SameMonsters(u, v) /\ (Lately(u) => Lately(v))
<1>1. CASE u.event
  BY <1>1 DEF StartSpawnCheck, Orderly, Noticed, SameMonsters
<1>2. CASE ~u.event
  <2> DEFINE v == CheckAdded(u)
  <2>1. PICK q \in Seq(Int) : q = Append(u.checks, CheckEvery)
    <3>1. u.checks \in Seq(Int) /\ CheckEvery \in Int
      BY BlocksAre DEF Regular, SpawnStates
    <3>2. Append(u.checks, CheckEvery) \in Seq(Int)
      BY <3>1
    <3> QED BY <3>2
  <2>2. /\ v \in SpawnStates /\ v.event /\ v.checks = q /\ SameMonsters(u, v)
    BY <2>1 DEF CheckAdded, Regular, SpawnStates, SameMonsters
  <2>3. StartSpawnCheck(u) = v
    BY <1>2 DEF StartSpawnCheck
  <2> HIDE DEF v
  <2>4. /\ q # << >> /\ Len(q) = Len(u.checks) + 1
        /\ \A j \in DOMAIN q : q[j] = CheckEvery \/ (j \in DOMAIN u.checks /\ q[j] = u.checks[j])
        /\ Len(u.checks) \in Nat /\ (u.checks = << >> => Len(u.checks) = 0)
    <3>1. PICK p \in Seq(Int) : p = u.checks
      BY DEF Regular, SpawnStates
    <3>2. q = Append(p, CheckEvery)
      BY <2>1, <3>1
    <3>3. q # << >> /\ Len(q) = Len(p) + 1 /\ Len(p) \in Nat
      BY <3>2
    <3>4. \A j \in DOMAIN q : q[j] = CheckEvery \/ (j \in DOMAIN p /\ q[j] = p[j])
      BY <3>2
    <3> QED BY <3>1, <3>3, <3>4
  <2>5. v.doubled = u.doubled /\ v.coming = u.coming /\ FewPerBlock(v) /\ InTurn(v) /\ Spaced(v)
    BY <2>2, SameMonstersKept DEF SameMonsters, Regular
  <2>6. Listed(v) /\ OneCheck(v) /\ Noticed(v)
    BY <1>2, <2>2, <2>4, <2>5 DEF Listed, OneCheck, Noticed, Regular
  <2>7. SinceCheck(v)
    <3> SUFFICES ASSUME ~v.doubled, NEW i \in DOMAIN v.coming, NEW j \in DOMAIN v.checks
                 PROVE  Since(v.coming[i].left, v.checks[j])
      BY DEF SinceCheck
    <3>1. u.coming[i].left <= Effects /\ u.coming[i].left \in Int
      BY <2>5, ListsHold DEF Regular, InTurn
    <3>2. CASE q[j] = CheckEvery
      BY <2>2, <2>5, <3>1, <3>2, BlocksAre, SeparateAre
    <3>3. CASE j \in DOMAIN u.checks /\ q[j] = u.checks[j]
      <4>1. Since(u.coming[i].left, u.checks[j])
        BY <2>5, <3>3 DEF Regular, SinceCheck
      <4> QED BY <2>2, <2>5, <3>3, <4>1
    <3> QED BY <2>2, <2>4, <3>2, <3>3
  <2>8. Lately(u) => Lately(v)
    BY <2>2, <2>4, <2>5, BlocksAre DEF Lately
  <2> QED BY <2>2, <2>3, <2>5, <2>6, <2>7, <2>8 DEF Orderly, Regular
<1> QED BY <1>1, <1>2

\* Monsters are removed, and a check is asked for.
LEMMA MonstersRemovedOrderly ==
  ASSUME NEW u, Orderly(u), NEW ids \in SUBSET Ids
  PROVE  LET v == MonstersRemoved(u, ids) IN
         /\ Orderly(v) /\ v.doubled = u.doubled /\ v.coming = u.coming
         /\ v.event \/ v = u
         /\ Lately(u) => Lately(v)
         /\ \A b \in Blocks : Vacant(u, b) => Vacant(v, b)
         /\ \A b \in Blocks : RoomFor(u, b) => RoomFor(v, b)
<1> DEFINE hit == {b \in ids : u.near[b] > 0}
           n == [b \in Ids |-> IF b \in hit THEN u.near[b] - 1 ELSE u.near[b]]
           r == [b \in Ids |-> IF b \in hit THEN u.removed[b] + 1 ELSE u.removed[b]]
           w == [u EXCEPT !.near = n, !.removed = r]
<1>1. \/ MonstersRemoved(u, ids) = u
      \/ MonstersRemoved(u, ids) = StartSpawnCheck(w)
  BY DEF MonstersRemoved
<1>2. CASE MonstersRemoved(u, ids) = u
  BY <1>2
<1>3. CASE MonstersRemoved(u, ids) = StartSpawnCheck(w)
  <2>1. u \in SpawnStates
    BY DEF Orderly, Regular
  <2>2. /\ n \in [Ids -> Int] /\ r \in [Ids -> Int]
        /\ \A b \in Ids : \/ n[b] = u.near[b] /\ r[b] = u.removed[b]
                          \/ u.near[b] > 0 /\ n[b] = u.near[b] - 1 /\ r[b] = u.removed[b] + 1
    BY <2>1 DEF SpawnStates
  <2> HIDE DEF n, r
  <2>3. /\ w \in SpawnStates /\ w.near = n /\ w.removed = r /\ w.away = u.away
        /\ w.coming = u.coming /\ w.checks = u.checks
    BY <2>1, <2>2 DEF SpawnStates
  <2>4. w.doubled = u.doubled /\ w.event = u.event
    BY <2>1 DEF SpawnStates
  <2> HIDE DEF w
  <2>5. \A b \in Ids : u.near[b] \in Int /\ u.removed[b] \in Int /\ u.away[b] \in Int
    BY <2>1 DEF SpawnStates
  <2>6. \A b \in Ids : Missing(u, b) => Missing(w, b)
    BY <2>2, <2>3, <2>5 DEF Missing
  <2>7. \A b \in Ids : Claims(w, b) = Claims(u, b) /\ (Fits(u, b) => Fits(w, b)) /\ (RoomFor(u, b) => RoomFor(w, b))
    <3> SUFFICES ASSUME NEW b \in Ids
                 PROVE  Claims(w, b) = Claims(u, b) /\ (Fits(u, b) => Fits(w, b)) /\ (RoomFor(u, b) => RoomFor(w, b))
      OBVIOUS
    <3>1. w.near[b] + w.away[b] + w.removed[b] = u.near[b] + u.away[b] + u.removed[b]
      BY <2>2, <2>3, <2>5
    <3> QED BY <2>1, <2>3, <3>1, ClaimsStay
  <2>8. FewPerBlock(w)
    <3> SUFFICES ASSUME ~w.doubled, NEW b \in Blocks
                 PROVE  w.near[b] >= 0 /\ w.away[b] >= 0 /\ w.removed[b] >= 0 /\ Fits(w, b)
      BY DEF FewPerBlock
    <3>1. b \in Ids /\ u.near[b] >= 0 /\ u.away[b] >= 0 /\ u.removed[b] >= 0 /\ Fits(u, b)
      BY <2>4, BlocksAre DEF Orderly, Regular, FewPerBlock
    <3>2. w.near[b] >= 0 /\ w.away[b] >= 0 /\ w.removed[b] >= 0
      BY <2>2, <2>3, <2>5, <3>1
    <3> QED BY <2>7, <3>1, <3>2
  <2>9. Regular(w)
    BY <2>3, <2>4, <2>8
       DEF Orderly, Regular, Listed, OneCheck, InTurn, Spaced, SinceCheck
  <2>10. PICK v : v = StartSpawnCheck(w)
    OBVIOUS
  <2>11. Orderly(v) /\ v.event /\ SameMonsters(w, v) /\ (Lately(w) => Lately(v))
    BY <2>9, <2>10, StartSpawnCheckOrderly
  <2>12. v.doubled = u.doubled /\ v.coming = u.coming
    BY <2>3, <2>4, <2>11 DEF SameMonsters
  <2>13. Lately(u) => Lately(w)
    BY <2>3, <2>4 DEF Lately
  <2>14. \A b \in Blocks : (Vacant(u, b) => Vacant(w, b)) /\ (RoomFor(u, b) => RoomFor(w, b))
    <3>1. \A b \in Blocks : Announced(w, b) = Announced(u, b)
      BY <2>3 DEF Announced
    <3> QED BY <2>3, <2>6, <2>7, <3>1, BlocksAre DEF Vacant
  <2>15. \A b \in Blocks : (Vacant(w, b) => Vacant(v, b)) /\ (RoomFor(w, b) => RoomFor(v, b))
    BY <2>11, SameMonstersKept
  <2> QED BY <1>3, <2>10, <2>11, <2>12, <2>13, <2>14, <2>15
<1> QED BY <1>1, <1>2, <1>3

\* A monster more is near, where there is room for it.
LEMMA NearChanged ==
  ASSUME NEW u, Orderly(u), NEW b \in Blocks, ~u.doubled => RoomFor(u, b)
  PROVE  LET v == [u EXCEPT !.near[b] = u.near[b] + 1] IN
         /\ Orderly(v) /\ v.doubled = u.doubled
         /\ Lately(u) => Lately(v)
         /\ \A c \in Blocks \ {b} : Vacant(u, c) => Vacant(v, c)
         /\ Enough(u) => Enough(v)
<1>1. u \in SpawnStates /\ b \in Ids
  BY BlocksAre DEF Orderly, Regular
<1>2. PICK n : n = [u.near EXCEPT ![b] = u.near[b] + 1]
  OBVIOUS
<1> DEFINE v == [u EXCEPT !.near = n]
<1>3. v = [u EXCEPT !.near[b] = u.near[b] + 1]
  BY <1>2
<1>4. n \in [Ids -> Int] /\ n[b] = u.near[b] + 1 /\ \A c \in Ids \ {b} : n[c] = u.near[c]
  BY <1>1, <1>2 DEF SpawnStates
<1>5. /\ v \in SpawnStates /\ v.near = n /\ v.away = u.away /\ v.removed = u.removed
      /\ v.coming = u.coming /\ v.checks = u.checks
  BY <1>1, <1>4 DEF SpawnStates
<1>6. v.doubled = u.doubled /\ v.event = u.event /\ v.ever = u.ever
  BY <1>1 DEF SpawnStates
<1> HIDE DEF v
<1>7. \A c \in Ids : u.near[c] \in Int /\ u.removed[c] \in Int /\ u.away[c] \in Int
  BY <1>1 DEF SpawnStates
<1>8. \A c \in Blocks \ {b} : Missing(u, c) => Missing(v, c)
  BY <1>4, <1>5, BlocksAre DEF Missing
<1>9. \A c \in Ids : Announced(v, c) = Announced(u, c)
  BY <1>5 DEF Announced
<1>15. Claims(v, b) = Claims(u, b) + 1
  <2>1. v.near[b] + v.away[b] + v.removed[b] = (u.near[b] + u.away[b] + u.removed[b]) + 1
    BY <1>1, <1>4, <1>5, <1>7
  <2>2. Cardinality(Announced(u, b)) \in Nat
    BY <1>1, AnnouncedTyped
  <2> QED BY <1>1, <1>5, <1>9, <2>1, <2>2, ClaimsAre
<1>16. \A c \in Blocks \ {b} : Fits(u, c) => Fits(v, c)
  <2> SUFFICES ASSUME NEW c \in Blocks \ {b} PROVE Fits(u, c) => Fits(v, c)
    OBVIOUS
  <2>1. c \in Ids /\ v.near[c] + v.away[c] + v.removed[c] = u.near[c] + u.away[c] + u.removed[c]
    BY <1>4, <1>5, BlocksAre
  <2> QED BY <1>1, <1>5, <2>1, ClaimsStay
<1>10. FewPerBlock(v)
  <2> SUFFICES ASSUME ~v.doubled, NEW c \in Blocks
               PROVE  v.near[c] >= 0 /\ v.away[c] >= 0 /\ v.removed[c] >= 0 /\ Fits(v, c)
    BY DEF FewPerBlock
  <2>1. c \in Ids /\ u.near[c] >= 0 /\ u.away[c] >= 0 /\ u.removed[c] >= 0 /\ Fits(u, c)
    BY <1>6, BlocksAre DEF Orderly, Regular, FewPerBlock
  <2>2. v.near[c] >= 0 /\ v.away[c] >= 0 /\ v.removed[c] >= 0
    BY <1>4, <1>5, <1>7, <2>1
  <2>3. CASE c = b
    <3>1. Fits(v, b)
      BY <1>1, <1>5, <1>6, <1>15, ClaimsCompared
    <3> QED BY <2>2, <2>3, <3>1
  <2>4. CASE c # b
    BY <1>16, <2>1, <2>2, <2>4
  <2> QED BY <2>3, <2>4
<1>11. Orderly(v)
  BY <1>5, <1>6, <1>10
     DEF Orderly, Regular, Listed, OneCheck, Noticed, InTurn, Spaced, SinceCheck
<1>12. Lately(u) => Lately(v)
  BY <1>5, <1>6 DEF Lately
<1>13. \A c \in Blocks \ {b} : Vacant(u, c) => Vacant(v, c)
  BY <1>5, <1>8, <1>9, BlocksAre DEF Vacant
<1>14. Enough(u) => Enough(v)
  <2>1. Size(v) = Size(u) + 1 /\ Size(u) \in Int
    BY <1>1, <1>2, <1>5, SizeGrows, SizeTyped
  <2> QED BY <1>6, <2>1, BlocksAre DEF Enough
<1> QED BY <1>3, <1>6, <1>11, <1>12, <1>13, <1>14

\* A monster is placed, or not, and others are removed meanwhile.
LEMMA SpawnMonsterOrderly ==
  ASSUME NEW u, Orderly(u), NEW b \in Blocks, ~u.doubled => RoomFor(u, b),
         NEW outcome \in Outcomes, NEW culled \in SUBSET Ids
  PROVE  LET v == SpawnMonster(u, b, outcome, culled) IN
         /\ Orderly(v) /\ v.doubled = u.doubled
         /\ Lately(u) => Lately(v)
         /\ \A c \in Blocks \ {b} : Vacant(u, c) => Vacant(v, c)
         /\ Enough(u) => Enough(v)
<1>1. PICK w : w = MonstersRemoved(u, culled)
  OBVIOUS
<1>2. /\ Orderly(w) /\ w.doubled = u.doubled
      /\ w.event \/ w = u
      /\ Lately(u) => Lately(w)
      /\ \A c \in Blocks : Vacant(u, c) => Vacant(w, c)
      /\ \A c \in Blocks : RoomFor(u, c) => RoomFor(w, c)
  BY <1>1, MonstersRemovedOrderly
<1>3. Enough(u) => Enough(w)
  BY <1>2 DEF Enough
<1>4. CASE outcome = "no room"
  BY <1>4 DEF SpawnMonster
<1>5. CASE outcome = "refused"
  <2>1. PICK v : v = StartSpawnCheck(w)
    OBVIOUS
  <2>2. SpawnMonster(u, b, outcome, culled) = v
    BY <1>1, <1>5, <2>1 DEF SpawnMonster
  <2>3. Orderly(v) /\ v.event /\ SameMonsters(w, v) /\ (Lately(w) => Lately(v))
    BY <1>2, <2>1, StartSpawnCheckOrderly DEF Orderly
  <2>4. \A c : Vacant(w, c) => Vacant(v, c)
    BY <2>3, SameMonstersKept
  <2>5. v.doubled = u.doubled /\ Enough(v)
    BY <1>2, <2>3 DEF SameMonsters, Enough
  <2> QED BY <1>2, <2>2, <2>3, <2>4, <2>5
<1>6. CASE outcome = "spawned"
  <2>1. PICK v : v = [w EXCEPT !.near[b] = w.near[b] + 1]
    OBVIOUS
  <2>2. SpawnMonster(u, b, outcome, culled) = v
    BY <1>1, <1>6, <2>1 DEF SpawnMonster
  <2>3. ~w.doubled => RoomFor(w, b)
    BY <1>2
  <2>4. /\ Orderly(v) /\ v.doubled = w.doubled
        /\ Lately(w) => Lately(v)
        /\ \A c \in Blocks \ {b} : Vacant(w, c) => Vacant(v, c)
        /\ Enough(w) => Enough(v)
    BY <1>2, <2>1, <2>3, NearChanged
  <2> QED BY <1>2, <1>3, <2>2, <2>4
<1> QED BY <1>4, <1>5, <1>6 DEF Outcomes

\* A monster is announced for a block that has none, and none announced lately.
LEMMA AnnouncedOrderly ==
  ASSUME NEW u, Orderly(u), Lately(u), NEW b \in Blocks \ Blockable, ~u.doubled => Vacant(u, b)
  PROVE  LET v == [u EXCEPT !.coming = Append(u.coming, [block |-> b, left |-> Effects])] IN
         /\ Orderly(v) /\ v.doubled = u.doubled /\ Lately(v)
         /\ \A c \in Blocks \ {b} : Vacant(u, c) => Vacant(v, c)
<1> DEFINE R == [block : Blocks, left : Int]
<1>1. u \in SpawnStates
  BY DEF Orderly, Regular
<1>2. PICK r \in R : r = [block |-> b, left |-> Effects]
  <2>1. Effects \in Int
    BY BlocksAre
  <2>2. [block |-> b, left |-> Effects] \in R
    BY <2>1
  <2> QED BY <2>2
<1>3. r.block = b /\ r.left = Effects
  BY <1>2
<1>4. PICK p \in Seq(R) : p = u.coming
  BY <1>1 DEF SpawnStates
<1> HIDE DEF R
<1>5. PICK q \in Seq(R) : q = Append(p, r)
  <2>1. Append(p, r) \in Seq(R)
    BY <1>2
  <2> QED BY <2>1
<1> DEFINE v == [u EXCEPT !.coming = q]
<1>6. v = [u EXCEPT !.coming = Append(u.coming, [block |-> b, left |-> Effects])]
  BY <1>2, <1>4, <1>5
<1>7. /\ v \in SpawnStates /\ v.near = u.near /\ v.away = u.away /\ v.removed = u.removed
      /\ v.coming = q /\ v.checks = u.checks
  BY <1>1, <1>5 DEF SpawnStates, R
<1>8. v.doubled = u.doubled /\ v.event = u.event
  BY <1>1 DEF SpawnStates
<1> HIDE DEF v
<1>9. /\ \A i \in DOMAIN p : i \in DOMAIN q /\ q[i] = p[i] /\ i < Len(q)
      /\ \A i \in DOMAIN q : i = Len(q) \/ i \in DOMAIN p
      /\ q[Len(q)] = r
  BY <1>5
<1>10. \A i \in DOMAIN q : i \in Int /\ Len(q) \in Int
  OBVIOUS
<1>11. \A i \in DOMAIN p : p[i].block \in Blocks /\ p[i].left \in Int
  BY <1>1, <1>4, ListsHold
<1>12. InTurn(v)
  <2>1. /\ \A i \in DOMAIN p : 0 <= p[i].left /\ p[i].left <= Effects /\ p[i].block \notin Blockable
        /\ \A i, j \in DOMAIN p : i < j => p[i].left <= p[j].left
    BY <1>4 DEF Orderly, Regular, InTurn
  <2>2. ASSUME NEW i \in DOMAIN q PROVE 0 <= q[i].left /\ q[i].left <= Effects /\ q[i].block \notin Blockable
    BY <1>3, <1>9, <2>1, BlocksAre
  <2>3. ASSUME NEW i \in DOMAIN q, NEW j \in DOMAIN q, i < j PROVE q[i].left <= q[j].left
    <3>1. i \in DOMAIN p
      BY <1>9, <1>10, <2>3
    <3>2. CASE j \in DOMAIN p
      BY <1>9, <2>1, <2>3, <3>1, <3>2
    <3>3. CASE j = Len(q)
      BY <1>3, <1>9, <2>1, <3>1, <3>3
    <3> QED BY <1>9, <3>2, <3>3
  <2> QED BY <1>7, <2>2, <2>3 DEF InTurn
<1>13. SinceCheck(v)
  <2> SUFFICES ASSUME ~v.doubled, NEW i \in DOMAIN v.coming, NEW j \in DOMAIN v.checks
               PROVE  Since(v.coming[i].left, v.checks[j])
    BY DEF SinceCheck
  <2>1. v.checks[j] >= CheckEvery /\ v.checks[j] \in Int
    BY <1>1, <1>7, <1>8, ListsHold DEF Lately
  <2>2. v.coming[i].left <= Effects /\ v.coming[i].left \in Int
    BY <1>7, <1>12, ListsHold DEF InTurn
  <2> QED BY <2>1, <2>2, SeparateAre
<1>14. \A c : Missing(u, c) => Missing(v, c)
  BY <1>7 DEF Missing
<1>19. Spaced(v)
  <2> SUFFICES ASSUME ~v.doubled, NEW i \in DOMAIN q, NEW j \in DOMAIN q, i < j, q[i].block = q[j].block
               PROVE  Separate(q[i].left, q[j].left)
    BY <1>7 DEF Spaced
  <2>1. i \in DOMAIN p
    BY <1>9, <1>10
  <2>2. CASE j \in DOMAIN p
    <3>1. Separate(p[i].left, p[j].left)
      BY <1>4, <1>8, <1>9, <2>1, <2>2 DEF Orderly, Regular, Spaced
    <3> QED BY <1>9, <2>1, <2>2, <3>1
  <2>3. CASE j = Len(q)
    <3>1. i \in Announced(u, b)
      BY <1>3, <1>4, <1>9, <2>1, <2>3 DEF Announced
    <3>2. Separate(p[i].left, Effects)
      BY <1>4, <1>8, <3>1 DEF Vacant
    <3> QED BY <1>3, <1>9, <2>1, <2>3, <3>2
  <2> QED BY <1>9, <2>2, <2>3
<1>20. \A c \in Ids \ {b} : Announced(v, c) = Announced(u, c)
  <2> SUFFICES ASSUME NEW c \in Ids \ {b} PROVE Announced(v, c) = Announced(u, c)
    OBVIOUS
  <2>1. \A i : i \in DOMAIN q /\ q[i].block = c <=> i \in DOMAIN p /\ p[i].block = c
    BY <1>3, <1>9
  <2> QED BY <1>4, <1>7, <2>1 DEF Announced
<1>15. FewPerBlock(v)
  <2> SUFFICES ASSUME ~v.doubled, NEW c \in Blocks
               PROVE  v.near[c] >= 0 /\ v.away[c] >= 0 /\ v.removed[c] >= 0 /\ Fits(v, c)
    BY DEF FewPerBlock
  <2>1. c \in Ids /\ u.near[c] >= 0 /\ u.away[c] >= 0 /\ u.removed[c] >= 0 /\ Fits(u, c)
    BY <1>8, BlocksAre DEF Orderly, Regular, FewPerBlock
  <2>2. CASE c = b
    <3>1. Missing(v, b)
      BY <1>8, <1>14 DEF Vacant
    <3>2. b \in Ids
      BY BlocksAre
    <3>3. Fits(v, b)
      BY <1>7, <1>12, <1>19, <3>1, <3>2, AnnouncedFit
    <3> QED BY <1>7, <2>1, <2>2, <3>3
  <2>3. CASE c # b
    <3>1. Claims(v, c) = Claims(u, c)
      BY <1>1, <1>7, <1>20, <2>1, <2>3, ClaimsAre
    <3>2. Fits(v, c)
      BY <2>1, <3>1 DEF Fits
    <3> QED BY <1>7, <2>1, <3>2
  <2> QED BY <2>2, <2>3
<1>16. Orderly(v)
  BY <1>7, <1>8, <1>12, <1>13, <1>15, <1>19 DEF Orderly, Regular, Listed, OneCheck, Noticed
<1>17. Lately(v)
  BY <1>7, <1>8 DEF Lately
<1>18. ASSUME NEW c \in Blocks \ {b}, Vacant(u, c) PROVE Vacant(v, c)
  <2>1. Announced(v, c) = Announced(u, c) /\ Missing(v, c)
    BY <1>14, <1>18, <1>20, BlocksAre DEF Vacant
  <2>2. \A i \in Announced(u, c) : v.coming[i] = u.coming[i]
    BY <1>4, <1>7, <1>9 DEF Announced
  <2> QED BY <1>18, <2>1, <2>2 DEF Vacant
<1> QED BY <1>6, <1>8, <1>16, <1>17, <1>18

\* A block is tried: its monster appears, is announced, or finds no room.
LEMMA TriedOrderly ==
  ASSUME NEW u, Orderly(u), Lately(u), NEW b \in Blocks, ~u.doubled => Vacant(u, b),
         NEW outcome \in Outcomes, NEW culled \in SUBSET Ids
  PROVE  LET v == Tried(u, b, outcome, culled) IN
         /\ Orderly(v) /\ v.doubled = u.doubled /\ Lately(v)
         /\ \A c \in Blocks \ {b} : Vacant(u, c) => Vacant(v, c)
<1>1. CASE b \in Blockable
  <2>1. PICK v : v = SpawnMonster(u, b, outcome, culled)
    OBVIOUS
  <2>2. Tried(u, b, outcome, culled) = v
    BY <1>1, <2>1 DEF Tried
  <2>3. /\ Orderly(v) /\ v.doubled = u.doubled /\ (Lately(u) => Lately(v))
        /\ \A c \in Blocks \ {b} : Vacant(u, c) => Vacant(v, c)
    <3>1. ASSUME ~u.doubled PROVE RoomFor(u, b)
      <4>1. u \in SpawnStates /\ b \in Ids /\ Missing(u, b)
        BY <3>1, BlocksAre DEF Orderly, Regular, Vacant
      <4>2. Announced(u, b) = {}
        BY <1>1 DEF Orderly, Regular, InTurn, Announced
      <4>3. u.near[b] + u.away[b] + u.removed[b] = 0 /\ Cardinality(Announced(u, b)) = 0
        BY <4>1, <4>2, FS_EmptySet DEF Missing
      <4>4. Claims(u, b) = 0
        BY <4>1, <4>3, ClaimsAre
      <4> QED BY <4>1, <4>4, ClaimsCompared
    <3> QED BY <2>1, <3>1, SpawnMonsterOrderly
  <2> QED BY <2>2, <2>3
<1>2. CASE b \notin Blockable
  <2>1. PICK v : v = [u EXCEPT !.coming = Append(u.coming, [block |-> b, left |-> Effects])]
    OBVIOUS
  <2>2. Tried(u, b, outcome, culled) = v
    BY <1>2, <2>1 DEF Tried
  <2>3. /\ Orderly(v) /\ v.doubled = u.doubled /\ Lately(v)
        /\ \A c \in Blocks \ {b} : Vacant(u, c) => Vacant(v, c)
    <3>1. b \in Blocks \ Blockable
      BY <1>2
    <3> QED BY <2>1, <3>1, AnnouncedOrderly
  <2> QED BY <2>2, <2>3
<1> QED BY <1>1, <1>2

\* The loop, block by block, up to block n.
NextTried(u, b, tried, outcome, culled) == IF b \in tried THEN Tried(u, b, outcome, culled) ELSE u
Loops(u, tried, outcome, culled, n, after) ==
  after = [b \in 0..n |-> IF b = 0 THEN u ELSE NextTried(after[b - 1], b, tried, outcome, culled)]

\* The loop is the value of the recursion at the last block.
LEMMA LoopedIs ==
  ASSUME NEW u, NEW tried, NEW outcome, NEW culled
  PROVE  Looped(u, tried, outcome, culled) = (CHOOSE a : Loops(u, tried, outcome, culled, NBlocks, a))[NBlocks]
<1>1. \A a, b : (IF b \in tried THEN Tried(a[b - 1], b, outcome, culled) ELSE a[b - 1])
                = NextTried(a[b - 1], b, tried, outcome, culled)
  BY DEF NextTried
<1> QED BY <1>1 DEF Looped, Loops, NextTried

\* The recursion has a solution.
LEMMA Loopable ==
  ASSUME NEW u, NEW tried, NEW outcome, NEW culled, NEW n \in Nat
  PROVE  \E a : Loops(u, tried, outcome, culled, n, a)
<1> DEFINE L(m, a) == Loops(u, tried, outcome, culled, m, a)
           Nx(x, b) == NextTried(x, b, tried, outcome, culled)
           Bad == {m \in Nat : ~ \E a : L(m, a)}
<1>1. SUFFICES Bad = {}
  OBVIOUS
<1>2. SUFFICES ASSUME Bad # {} PROVE FALSE
  OBVIOUS
<1>3. PICK m \in Bad : \A k \in Bad : m <= k
  BY <1>2, LeastNumber
<1>4. CASE m = 0
  <2> DEFINE a == [b \in 0..0 |-> u]
  <2>1. L(0, a)
    BY DEF Loops
  <2> QED BY <1>3, <1>4, <2>1
<1>5. CASE m # 0
  <2>1. m - 1 \in Nat /\ m - 1 \notin Bad
    BY <1>3, <1>5
  <2>2. PICK a : L(m - 1, a)
    BY <2>1
  <2> DEFINE on == [b \in 0..m |-> IF b = m THEN Nx(a[m - 1], m) ELSE a[b]]
  <2>3. /\ DOMAIN on = 0..m /\ on[m] = Nx(on[m - 1], m)
        /\ \A b \in 0..(m - 1) : on[b] = a[b]
    BY <2>1
  <2>4. \A b \in 0..(m - 1) : a[b] = IF b = 0 THEN u ELSE Nx(a[b - 1], b)
    BY <2>1, <2>2 DEF Loops
  <2> HIDE DEF Nx
  <2>5. \A b \in 0..m : on[b] = IF b = 0 THEN u ELSE Nx(on[b - 1], b)
    <3> TAKE b \in 0..m
    <3>1. CASE b = m
      BY <1>5, <2>3, <3>1
    <3>2. CASE b # m
      <4>1. b \in 0..(m - 1) /\ (b # 0 => b - 1 \in 0..(m - 1))
        BY <2>1, <3>2
      <4> HIDE DEF on
      <4> QED BY <2>3, <2>4, <4>1
    <3> QED BY <3>1, <3>2
  <2>6. on = [b \in 0..m |-> on[b]]
    OBVIOUS
  <2> HIDE DEF on
  <2>7. on = [b \in 0..m |-> IF b = 0 THEN u ELSE Nx(on[b - 1], b)]
    BY <2>5, <2>6
  <2>8. L(m, on)
    BY <2>7 DEF Loops, Nx
  <2> QED BY <1>3, <2>8
<1> QED BY <1>4, <1>5

\* The loop tries each of the blocks once.
LEMMA LoopedOrderly ==
  ASSUME NEW u, Orderly(u), Lately(u), NEW tried \in SUBSET Blocks,
         ~u.doubled => \A c \in tried : Vacant(u, c),
         NEW outcome \in Outcomes, NEW culled \in SUBSET Ids
  PROVE  LET v == Looped(u, tried, outcome, culled) IN Orderly(v) /\ v.doubled = u.doubled
<1>1. PICK a : a = CHOOSE x : Loops(u, tried, outcome, culled, NBlocks, x)
  OBVIOUS
<1>2. Loops(u, tried, outcome, culled, NBlocks, a)
  BY <1>1, Loopable, BlocksAre
<1>3. Looped(u, tried, outcome, culled) = a[NBlocks]
  BY <1>1, LoopedIs
<1>4. NBlocks \in Nat
  BY BlocksAre
<1>5. a[0] = u /\ \A b \in 1..NBlocks : a[b] = NextTried(a[b - 1], b, tried, outcome, culled)
  <2>1. \A b \in 0..NBlocks : a[b] = IF b = 0 THEN u ELSE NextTried(a[b - 1], b, tried, outcome, culled)
    BY <1>2 DEF Loops
  <2> QED BY <1>4, <2>1
<1> DEFINE Ok(n) == /\ Orderly(a[n]) /\ Lately(a[n]) /\ a[n].doubled = u.doubled
                    /\ ~u.doubled => \A c \in tried : c > n => Vacant(a[n], c)
           Bad == {n \in 0..NBlocks : ~Ok(n)}
<1>6. Bad = {}
  <2> SUFFICES ASSUME Bad # {} PROVE FALSE
    OBVIOUS
  <2>1. Bad \in SUBSET Nat
    BY <1>4
  <2>2. PICK n \in Bad : \A k \in Bad : n <= k
    BY <2>1, LeastNumber
  <2>3. n # 0
    BY <1>5, <2>2
  <2>4. n \in 1..NBlocks /\ n - 1 \in 0..NBlocks /\ n - 1 \notin Bad
    BY <1>4, <2>2, <2>3
  <2>5. Ok(n - 1)
    BY <2>4
  <2>6. PICK m : m = n - 1
    OBVIOUS
  <2>7. /\ Orderly(a[m]) /\ Lately(a[m]) /\ a[m].doubled = u.doubled
        /\ ~u.doubled => \A c \in tried : c > m => Vacant(a[m], c)
        /\ a[n] = NextTried(a[m], n, tried, outcome, culled)
    BY <1>5, <2>4, <2>5, <2>6
  <2>8. \A c \in tried : c > n => c > m /\ c # n /\ c \in Blocks
    <3>1. tried \subseteq Blocks /\ Blocks \subseteq Int /\ n \in Int /\ m \in Int /\ n = m + 1
      BY <1>4, <2>4, <2>6 DEF Blocks
    <3> HIDE DEF Bad, Ok
    <3> QED BY <3>1
  <2>9. n > m /\ n \in Blocks
    BY <1>4, <2>4, <2>6 DEF Blocks
  <2>10. CASE n \notin tried
    <3>1. a[n] = a[m]
      BY <2>7, <2>10 DEF NextTried
    <3>2. Ok(n)
      BY <2>7, <2>8, <3>1
    <3> QED BY <2>2, <3>2
  <2>11. CASE n \in tried
    <3>1. a[n] = Tried(a[m], n, outcome, culled)
      BY <2>7, <2>11 DEF NextTried
    <3>2. ~a[m].doubled => Vacant(a[m], n)
      BY <2>7, <2>9, <2>11
    <3>3. PICK p, q : p = a[m] /\ q = a[n]
      OBVIOUS
    <3>4. /\ Orderly(q) /\ q.doubled = p.doubled /\ Lately(q)
          /\ \A c \in Blocks \ {n} : Vacant(p, c) => Vacant(q, c)
      BY <2>7, <2>9, <3>1, <3>2, <3>3, TriedOrderly
    <3>5. Ok(n)
      BY <2>7, <2>8, <3>3, <3>4
    <3> QED BY <2>2, <3>5
  <2> QED BY <2>10, <2>11
<1>7. Ok(NBlocks)
  BY <1>4, <1>6
<1> QED BY <1>3, <1>7

\* What the lists are after a step.
LEMMA ListsStay ==
  ASSUME NEW S, NEW p \in Seq(S)
  PROVE  /\ p # << >> => Tail(p) \in Seq(S)
         /\ \A x \in S : Append(p, x) \in Seq(S)
         /\ DOMAIN p = {} => p = << >>
<1>1. p # << >> => Tail(p) \in Seq(S)
  OBVIOUS
<1>2. \A x \in S : Append(p, x) \in Seq(S)
  OBVIOUS
<1>3. DOMAIN p = {} => p = << >>
  <2> SUFFICES ASSUME DOMAIN p = {} PROVE p = << >>
    OBVIOUS
  <2>1. Len(p) \in Nat /\ DOMAIN p = 1..Len(p)
    OBVIOUS
  <2>2. Len(p) = 0
    BY <2>1
  <2> QED BY <2>2
<1> QED BY <1>1, <1>2, <1>3

\* A check begins, a while after those that announced anybody.
LEMMA CheckBegunOrderly ==
  ASSUME NEW u, Orderly(u), u.checks # << >>, Head(u.checks) = 0,
         NEW tried, tried \subseteq {b \in Blocks : u.near[b] + u.removed[b] = 0}
  PROVE  LET v == Cleaned(CheckBegan(u)) IN
         /\ Orderly(v) /\ Lately(v)
         /\ ~v.doubled => \A c \in tried : Vacant(v, c)
<1>1. u \in SpawnStates
  BY DEF Orderly, Regular
<1>2. PICK p \in Seq(Int) : p = u.checks
  BY <1>1 DEF SpawnStates
<1>3. PICK q \in Seq(Int) : q = Tail(p)
  <2>1. Tail(p) \in Seq(Int)
    BY <1>2, ListsStay
  <2> QED BY <2>1
<1>4. PICK w : w = CheckBegan(u)
  OBVIOUS
<1>5. /\ w \in SpawnStates /\ w.checks = q /\ w.near = u.near /\ w.away = u.away
      /\ w.removed = u.removed /\ w.coming = u.coming
  BY <1>1, <1>2, <1>3, <1>4 DEF CheckBegan, SpawnStates
<1>6. w.doubled = u.doubled /\ ~w.event
  BY <1>1, <1>4 DEF CheckBegan, SpawnStates
<1>7. PICK s \in Int : s = SumFunction(u.away)
  <2>1. DOMAIN u.away = Ids /\ \A b \in Ids : u.away[b] \in Int
    BY <1>1 DEF SpawnStates
  <2>2. SumFunctionOnSet(u.away, Ids) \in Int
    BY <2>1, BlocksAre, SumTyped
  <2> QED BY <2>1, <2>2 DEF SumFunction
<1>8. PICK n : n = [u.near EXCEPT ![0] = u.near[0] + s]
  OBVIOUS
<1>9. n \in [Ids -> Int] /\ \A c \in Blocks : n[c] = u.near[c]
  BY <1>1, <1>8, BlocksAre DEF SpawnStates
<1>10. PICK z \in [Ids -> Int] : z = [b \in Ids |-> 0]
  <2>1. [b \in Ids |-> 0] \in [Ids -> Int]
    OBVIOUS
  <2> QED BY <2>1
<1>11. PICK v : v = Cleaned(w)
  OBVIOUS
<1>12. v = [w EXCEPT !.removed = z, !.away = z, !.near = n]
  <2>1. [w EXCEPT !.removed = z, !.away = z, !.near[0] = @ + s]
        = [w EXCEPT !.removed = z, !.away = z, !.near = n]
    BY <1>5, <1>8 DEF SpawnStates
  <2> QED BY <1>5, <1>7, <1>10, <1>11, <2>1 DEF Cleaned
<1>13. /\ v \in SpawnStates /\ v.near = n /\ v.away = z /\ v.removed = z
       /\ v.coming = u.coming /\ v.checks = q
  BY <1>5, <1>9, <1>12 DEF SpawnStates
<1>14. v.doubled = u.doubled /\ ~v.event
  BY <1>5, <1>6, <1>12 DEF SpawnStates
<1>15. \A b \in Ids : z[b] = 0
  BY <1>10
<1>16. ASSUME ~u.doubled
       PROVE  q = << >> /\ \A i \in DOMAIN u.coming : Separate(u.coming[i].left, Effects)
  <2>1. Len(p) = 1
    BY <1>2, <1>16 DEF Orderly, Regular, OneCheck
  <2>2. q = << >> /\ 1 \in DOMAIN p /\ p[1] = 0
    BY <1>2, <1>3, <2>1
  <2>3. \A i \in DOMAIN u.coming : Since(u.coming[i].left, 0)
    BY <1>2, <1>16, <2>2 DEF Orderly, Regular, SinceCheck
  <2>4. \A i \in DOMAIN u.coming : u.coming[i].left \in Int
    BY <1>1, ListsHold
  <2> QED BY <2>2, <2>3, <2>4, SeparateAre
<1>17. \A c \in Blocks : u.near[c] = 0 => Missing(v, c)
  BY <1>9, <1>13, <1>15, BlocksAre DEF Missing
<1>18. FewPerBlock(v)
  <2> SUFFICES ASSUME ~v.doubled, NEW c \in Blocks
               PROVE  v.near[c] >= 0 /\ v.away[c] >= 0 /\ v.removed[c] >= 0 /\ Fits(v, c)
    BY DEF FewPerBlock
  <2>1. c \in Ids /\ u.near[c] >= 0 /\ u.away[c] >= 0 /\ u.removed[c] >= 0 /\ Fits(u, c)
    BY <1>14, BlocksAre DEF Orderly, Regular, FewPerBlock
  <2>2. v.near[c] = u.near[c] /\ v.away[c] = 0 /\ v.removed[c] = 0
    BY <1>9, <1>13, <1>15, <2>1
  <2>3. Announced(v, c) = Announced(u, c)
    BY <1>13 DEF Announced
  <2>4. PICK k, x, e, g \in Int : /\ k = Cardinality(Announced(u, c))
                                 /\ x = u.near[c] /\ e = u.away[c] /\ g = u.removed[c]
    <3>1. u.near[c] \in Int /\ u.away[c] \in Int /\ u.removed[c] \in Int
      BY <1>1, <2>1 DEF SpawnStates
    <3>2. Cardinality(Announced(u, c)) \in Int
      BY <1>1, AnnouncedTyped
    <3> QED BY <3>1, <3>2
  <2>5. Claims(u, c) = k + (x + e + g) /\ Claims(v, c) = k + (x + 0 + 0)
    <3>1. Claims(u, c) = Cardinality(Announced(u, c)) + (u.near[c] + u.away[c] + u.removed[c])
      BY <1>1, <2>1, ClaimsAre
    <3>2. Claims(v, c) = Cardinality(Announced(v, c)) + (v.near[c] + v.away[c] + v.removed[c])
      BY <1>13, <2>1, ClaimsAre
    <3>3. v.near[c] = x /\ v.away[c] = 0 /\ v.removed[c] = 0 /\ Cardinality(Announced(v, c)) = k
      BY <2>2, <2>3, <2>4
    <3>4. Claims(u, c) = k + (x + e + g)
      BY <2>4, <3>1
    <3>5. Claims(v, c) = k + (x + 0 + 0)
      BY <3>2, <3>3
    <3> QED BY <3>4, <3>5
  <2>6. Claims(v, c) <= Claims(u, c)
    <3>1. e >= 0 /\ g >= 0
      BY <2>1, <2>4
    <3>2. k + (x + 0 + 0) <= k + (x + e + g)
      BY <3>1
    <3> QED BY <2>5, <3>2
  <2> QED BY <1>1, <1>13, <2>1, <2>2, <2>6, ClaimsCompared
<1>19. Orderly(v)
  BY <1>13, <1>14, <1>15, <1>16, <1>18
     DEF Orderly, Regular, Listed, OneCheck, Noticed, InTurn, Spaced, SinceCheck
<1>20. Lately(v)
  BY <1>13, <1>14, <1>16 DEF Lately
<1>21. ASSUME ~v.doubled, NEW c \in tried PROVE Vacant(v, c)
  <2>1. c \in Blocks /\ u.near[c] + u.removed[c] = 0
    OBVIOUS
  <2>2. u.near[c] >= 0 /\ u.removed[c] >= 0 /\ u.near[c] \in Int /\ u.removed[c] \in Int
    BY <1>1, <1>14, <1>21, <2>1, BlocksAre DEF Orderly, Regular, FewPerBlock, SpawnStates
  <2>3. Missing(v, c)
    BY <1>17, <2>1, <2>2
  <2> QED BY <1>13, <1>14, <1>16, <1>21, <2>3 DEF Vacant, Announced
<1> QED BY <1>4, <1>11, <1>19, <1>20, <1>21

\* A check ends with the next one asked for, or with nobody missing.
LEMMA CheckEndedOrderly ==
  ASSUME NEW u, Orderly(u)
  PROVE  LET v == CheckEnded(u) IN Orderly(v) /\ Enough(v)
<1>1. u \in SpawnStates
  BY DEF Orderly, Regular
<1>2. CASE Size(u) < NBlocks
  <2>1. PICK p \in Seq(Int) : p = u.checks
    BY <1>1 DEF SpawnStates
  <2>2. PICK q \in Seq(Int) : q = Append(p, CheckEvery)
    <3>1. Append(p, CheckEvery) \in Seq(Int)
      BY BlocksAre, ListsStay
    <3> QED BY <3>1
  <2>3. PICK v : v = CheckEnded(u)
    OBVIOUS
  <2>4. v = [u EXCEPT !.doubled = u.doubled \/ u.event, !.checks = q, !.event = TRUE, !.ever = TRUE]
    BY <1>1, <1>2, <2>1, <2>2, <2>3 DEF CheckEnded, CheckAdded, SpawnStates
  <2>5. /\ v \in SpawnStates /\ v.checks = q /\ v.near = u.near /\ v.away = u.away
        /\ v.removed = u.removed /\ v.coming = u.coming
    BY <1>1, <2>4 DEF SpawnStates
  <2>6. v.event /\ (v.doubled <=> u.doubled \/ u.event)
    BY <1>1, <2>4 DEF SpawnStates
  <2>7. Len(q) = Len(p) + 1 /\ q # << >> /\ Len(p) \in Nat
    BY <2>2
  <2>8. ASSUME ~v.doubled PROVE Len(q) = 1 /\ \A j \in DOMAIN q : q[j] = CheckEvery
    <3>1. p = << >>
      BY <2>1, <2>6, <2>8 DEF Orderly, Regular, OneCheck
    <3> QED BY <2>2, <3>1
  <2>9. OneCheck(v) /\ Listed(v) /\ Noticed(v) /\ InTurn(v) /\ Spaced(v)
    BY <2>5, <2>6, <2>7, <2>8 DEF Orderly, Regular, OneCheck, Listed, Noticed, InTurn, Spaced
  <2>10. FewPerBlock(v)
    BY <2>5, <2>6 DEF Orderly, Regular, FewPerBlock, Fits, Claims
  <2>11. SinceCheck(v)
    <3> SUFFICES ASSUME ~v.doubled, NEW i \in DOMAIN v.coming, NEW j \in DOMAIN v.checks
                 PROVE  Since(v.coming[i].left, v.checks[j])
      BY DEF SinceCheck
    <3>1. v.coming[i].left <= Effects /\ v.coming[i].left \in Int
      BY <2>5, <2>9, ListsHold DEF InTurn
    <3> QED BY <2>5, <2>8, <3>1, BlocksAre, SeparateAre
  <2> QED BY <2>3, <2>5, <2>6, <2>9, <2>10, <2>11 DEF Orderly, Regular, Enough
<1>3. CASE ~(Size(u) < NBlocks)
  <2>1. Size(u) >= NBlocks
    BY <1>1, <1>3, SizeTyped, BlocksAre
  <2> QED BY <1>3, <2>1 DEF CheckEnded, Enough
<1> QED BY <1>2, <1>3

\* The first of those announced is taken off.
LEMMA AnnouncedShift ==
  ASSUME NEW u \in SpawnStates, NEW w \in SpawnStates, u.coming # << >>, w.coming = Tail(u.coming), NEW c
  PROVE  Cardinality(Announced(w, c)) =
           IF c = u.coming[1].block THEN Cardinality(Announced(u, c)) - 1 ELSE Cardinality(Announced(u, c))
<1> DEFINE R == [block : Blocks, left : Int]
           A == Announced(u, c)
           B == Announced(w, c)
           f == [i \in B |-> i + 1]
<1>1. PICK p \in Seq(R) : p = u.coming
  BY DEF SpawnStates
<1> HIDE DEF R
<1>2. PICK q \in Seq(R) : q = w.coming /\ q = Tail(p)
  <2>1. Tail(p) \in Seq(R)
    BY <1>1, ListsStay
  <2> QED BY <1>1, <2>1
<1>3. /\ Len(p) \in Nat /\ DOMAIN p = 1..Len(p) /\ Len(p) # 0
      /\ DOMAIN q = 1..(Len(p) - 1) /\ \A i \in DOMAIN q : q[i] = p[i + 1]
  BY <1>1, <1>2
<1>4. \A i : i \in A <=> i \in 1..Len(p) /\ p[i].block = c
  BY <1>1, <1>3 DEF Announced
<1>5. \A i : i \in B <=> i \in 1..(Len(p) - 1) /\ p[i + 1].block = c
  BY <1>2, <1>3 DEF Announced
<1>6. IsFiniteSet(A) /\ IsFiniteSet(B) /\ Cardinality(A) \in Nat /\ Cardinality(B) \in Nat
  BY AnnouncedTyped
<1> HIDE DEF A, B
<1>7. f \in Bijection(B, A \ {1})
  <2>1. \A i \in B : f[i] \in A \ {1}
    BY <1>3, <1>4, <1>5
  <2>2. \A i, j \in B : f[i] = f[j] => i = j
    BY <1>3, <1>5
  <2>3. ASSUME NEW k \in A \ {1} PROVE \E i \in B : f[i] = k
    <3>1. k - 1 \in B /\ (k - 1) + 1 = k
      BY <1>3, <1>4, <1>5
    <3> QED BY <3>1
  <2>4. f \in [B -> A \ {1}]
    BY <2>1
  <2> HIDE DEF f
  <2>5. PICK T, g : T = A \ {1} /\ g = f
    OBVIOUS
  <2>6. g \in Injection(B, T)
    <3>1. DOMAIN g = B /\ g \in [B -> T]
      BY <2>4, <2>5
    <3> QED BY <2>2, <2>5, <3>1 DEF Injection, IsInjective
  <2>7. g \in Surjection(B, T)
    BY <2>3, <2>4, <2>5 DEF Surjection
  <2> QED BY <2>5, <2>6, <2>7 DEF Bijection
<1>8. IsFiniteSet(A \ {1}) /\ Cardinality(B) = Cardinality(A \ {1})
  <2>1. IsFiniteSet(A \ {1})
    BY <1>6, FS_Subset
  <2> HIDE DEF f
  <2> QED BY <1>6, <1>7, <2>1, FS_Bijection DEF ExistsBijection
<1>9. CASE c = u.coming[1].block
  <2>1. 1 \in A
    BY <1>1, <1>3, <1>4, <1>9
  <2>2. Cardinality(A \ {1}) = Cardinality(A) - 1
    BY <1>6, <2>1, FS_RemoveElement
  <2> QED BY <1>8, <1>9, <2>2 DEF A, B
<1>10. CASE c # u.coming[1].block
  <2>1. A \ {1} = A
    BY <1>1, <1>4, <1>10
  <2> QED BY <1>8, <1>10, <2>1 DEF A, B
<1> QED BY <1>9, <1>10

\* The block of the first that was announced has room for it once it is off the list.
LEMMA ArrivedOrderly ==
  ASSUME NEW u, Orderly(u), u.coming # << >>
  PROVE  LET w == [u EXCEPT !.coming = Tail(u.coming)]
             b == Head(u.coming).block IN
         /\ b \in Blocks /\ Orderly(w) /\ (Enough(u) => Enough(w))
         /\ ~w.doubled => RoomFor(w, b)
<1> DEFINE R == [block : Blocks, left : Int]
<1>1. u \in SpawnStates
  BY DEF Orderly, Regular
<1>2. PICK p \in Seq(R) : p = u.coming
  BY <1>1 DEF SpawnStates
<1> HIDE DEF R
<1>3. PICK q \in Seq(R) : q = Tail(p)
  <2>1. Tail(p) \in Seq(R)
    BY <1>2, ListsStay
  <2> QED BY <2>1
<1> DEFINE w == [u EXCEPT !.coming = q]
<1>4. /\ w \in SpawnStates /\ w.near = u.near /\ w.away = u.away /\ w.removed = u.removed
      /\ w.coming = q /\ w.checks = u.checks
  BY <1>1, <1>3 DEF SpawnStates, R
<1>5. w.doubled = u.doubled /\ w.event = u.event /\ w.ever = u.ever
  BY <1>1 DEF SpawnStates
<1>6. w = [u EXCEPT !.coming = Tail(u.coming)]
  BY <1>2, <1>3
<1> HIDE DEF w
<1>7. /\ 1 \in DOMAIN p /\ Head(u.coming) = p[1]
      /\ \A i \in DOMAIN q : i \in Int /\ i + 1 \in DOMAIN p /\ i + 1 # 1 /\ q[i] = p[i + 1]
  BY <1>2, <1>3
<1>8. p[1].block \in Blocks /\ \A i \in DOMAIN p : p[i].left \in Int
  BY <1>1, <1>2, <1>7, ListsHold
<1>9. InTurn(w)
  <2>1. /\ \A i \in DOMAIN p : 0 <= p[i].left /\ p[i].left <= Effects /\ p[i].block \notin Blockable
        /\ \A i, j \in DOMAIN p : i < j => p[i].left <= p[j].left
    BY <1>2 DEF Orderly, Regular, InTurn
  <2>2. ASSUME NEW i \in DOMAIN q, NEW j \in DOMAIN q, i < j PROVE q[i].left <= q[j].left
    <3>1. i + 1 < j + 1
      BY <1>7, <2>2
    <3> QED BY <1>7, <2>1, <3>1
  <2>3. ASSUME NEW i \in DOMAIN q PROVE 0 <= q[i].left /\ q[i].left <= Effects /\ q[i].block \notin Blockable
    BY <1>7, <2>1
  <2> QED BY <1>4, <2>2, <2>3 DEF InTurn
<1>10. SinceCheck(w)
  BY <1>2, <1>4, <1>5, <1>7 DEF Orderly, Regular, SinceCheck
<1>11. Spaced(w)
  <2> SUFFICES ASSUME ~w.doubled, NEW i \in DOMAIN q, NEW j \in DOMAIN q, i < j, q[i].block = q[j].block
               PROVE  Separate(q[i].left, q[j].left)
    BY <1>4 DEF Spaced
  <2>1. i + 1 < j + 1
    BY <1>7
  <2>2. PICK k, m \in DOMAIN p : k = i + 1 /\ m = j + 1 /\ q[i] = p[k] /\ q[j] = p[m]
    BY <1>7
  <2>3. \A a, b \in DOMAIN p : a < b /\ p[a].block = p[b].block => Separate(p[a].left, p[b].left)
    BY <1>2, <1>5 DEF Orderly, Regular, Spaced
  <2>4. k < m /\ p[k].block = p[m].block
    BY <2>1, <2>2
  <2>5. Separate(p[k].left, p[m].left)
    BY <2>3, <2>4
  <2> QED BY <2>2, <2>5
<1>12. \A c \in Ids : Cardinality(Announced(w, c)) =
         IF c = p[1].block THEN Cardinality(Announced(u, c)) - 1 ELSE Cardinality(Announced(u, c))
  <2>1. w.coming = Tail(u.coming) /\ u.coming[1] = p[1]
    BY <1>2, <1>3, <1>4
  <2> QED BY <1>1, <1>4, <2>1, AnnouncedShift
<1>13. FewPerBlock(w)
  <2> SUFFICES ASSUME ~w.doubled, NEW c \in Blocks
               PROVE  w.near[c] >= 0 /\ w.away[c] >= 0 /\ w.removed[c] >= 0 /\ Fits(w, c)
    BY DEF FewPerBlock
  <2>1. c \in Ids /\ u.near[c] >= 0 /\ u.away[c] >= 0 /\ u.removed[c] >= 0 /\ Fits(u, c)
    BY <1>5, BlocksAre DEF Orderly, Regular, FewPerBlock
  <2>2. Cardinality(Announced(u, c)) \in Nat
    BY <1>1, AnnouncedTyped
  <2>3. Claims(w, c) <= Claims(u, c)
    BY <1>1, <1>4, <1>12, <2>1, <2>2, ClaimsAre
  <2> QED BY <1>1, <1>4, <2>1, <2>3, ClaimsCompared
<1>14. Orderly(w)
  BY <1>4, <1>5, <1>9, <1>10, <1>11, <1>13 DEF Orderly, Regular, Listed, OneCheck, Noticed
<1>15. Enough(u) => Enough(w)
  <2>1. Size(w) = Size(u)
    BY <1>1, <1>4, SizeStays
  <2> QED BY <1>5, <2>1 DEF Enough
<1>16. ASSUME ~w.doubled PROVE RoomFor(w, p[1].block)
  <2>1. PICK b \in Blocks : b = p[1].block /\ b \in Ids
    BY <1>8, BlocksAre
  <2>2. Fits(u, b)
    BY <1>5, <1>16 DEF Orderly, Regular, FewPerBlock
  <2>3. Cardinality(Announced(u, b)) \in Nat
    BY <1>1, AnnouncedTyped
  <2>4. Claims(w, b) = Claims(u, b) - 1
    <3>1. Cardinality(Announced(w, b)) = Cardinality(Announced(u, b)) - 1
      BY <1>12, <2>1
    <3>2. Claims(w, b) = Cardinality(Announced(w, b)) + (u.near[b] + u.away[b] + u.removed[b])
      BY <1>4, <2>1, ClaimsAre
    <3>3. /\ Claims(u, b) = Cardinality(Announced(u, b)) + (u.near[b] + u.away[b] + u.removed[b])
          /\ u.near[b] + u.away[b] + u.removed[b] \in Int
      BY <1>1, <2>1, ClaimsAre
    <3>4. PICK n, x \in Int : n = Cardinality(Announced(u, b)) /\ x = u.near[b] + u.away[b] + u.removed[b]
      BY <2>3, <3>3
    <3>5. (n - 1) + x = (n + x) - 1
      OBVIOUS
    <3> QED BY <3>1, <3>2, <3>3, <3>4, <3>5
  <2> QED BY <1>1, <1>4, <2>1, <2>2, <2>4, ClaimsCompared
<1> QED BY <1>2, <1>6, <1>7, <1>8, <1>14, <1>15, <1>16

\* v has as many monsters of each id as u, and is otherwise as u is.
Elsewhere(u, v) ==
  /\ v.coming = u.coming /\ v.checks = u.checks
  /\ v.doubled = u.doubled /\ v.event = u.event /\ v.ever = u.ever
  /\ \A c \in Ids :
       /\ v.near[c] + v.away[c] + v.removed[c] = u.near[c] + u.away[c] + u.removed[c]
       /\ u.near[c] >= 0 => v.near[c] >= 0
       /\ u.away[c] >= 0 => v.away[c] >= 0
       /\ u.removed[c] >= 0 => v.removed[c] >= 0

\* Monsters of the same ids, elsewhere.
LEMMA MovedOrderly ==
  ASSUME NEW u, Regular(u), NEW v \in SpawnStates, Elsewhere(u, v)
  PROVE  Regular(v) /\ (Enough(u) => Enough(v))
<1>1. u \in SpawnStates
  BY DEF Regular
<1>2. v.coming = u.coming /\ v.checks = u.checks
  BY DEF Elsewhere
<1>3. v.doubled = u.doubled /\ v.event = u.event /\ v.ever = u.ever
  BY DEF Elsewhere
<1>10. \A c \in Ids : v.near[c] \in Int /\ v.away[c] \in Int /\ v.removed[c] \in Int
  BY DEF SpawnStates
<1>4. \A c \in Ids : u.near[c] \in Int /\ u.removed[c] \in Int /\ u.away[c] \in Int
  BY <1>1 DEF SpawnStates
<1>5. \A c \in Ids : Fits(u, c) => Fits(v, c)
  BY <1>1, <1>2, ClaimsStay DEF Elsewhere
<1>7. FewPerBlock(v)
  <2> SUFFICES ASSUME ~v.doubled, NEW c \in Blocks
               PROVE  v.near[c] >= 0 /\ v.away[c] >= 0 /\ v.removed[c] >= 0 /\ Fits(v, c)
    BY DEF FewPerBlock
  <2>1. c \in Ids /\ u.near[c] >= 0 /\ u.away[c] >= 0 /\ u.removed[c] >= 0 /\ Fits(u, c)
    BY <1>3, BlocksAre DEF Regular, FewPerBlock
  <2> QED BY <1>5, <2>1 DEF Elsewhere
<1>8. Regular(v)
  BY <1>2, <1>3, <1>7 DEF Regular, Listed, OneCheck, InTurn, Spaced, SinceCheck
<1>9. Enough(u) => Enough(v)
  <2>1. Size(v) = Size(u)
    BY <1>1, <1>2, SizeStays DEF Elsewhere
  <2> QED BY <1>3, <2>1 DEF Enough
<1> QED BY <1>2, <1>3, <1>8, <1>9

\* A function on 1..l is a list of l things.
LEMMA ListOf ==
  ASSUME NEW S, NEW l \in Nat, NEW f \in [1..l -> S]
  PROVE  f \in Seq(S) /\ DOMAIN f = 1..l /\ Len(f) = l
<1>1. f \in Seq(S)
  BY SeqDef
<1>2. Len(f) \in Nat /\ DOMAIN f = 1..Len(f) /\ DOMAIN f = 1..l
  BY <1>1, LenProperties
<1>3. Len(f) = l
  <2>1. Len(f) \in 1..Len(f) \/ Len(f) = 0
    BY <1>2
  <2>2. l \in 1..l \/ l = 0
    OBVIOUS
  <2> QED BY <1>2, <2>1, <2>2
<1> QED BY <1>1, <1>2, <1>3

\* One of those announced, a tick later.
LEMMA OneTickLess ==
  ASSUME NEW r \in [block : Blocks, left : Int]
  PROVE  LET t == [r EXCEPT !.left = r.left - 1] IN
         t \in [block : Blocks, left : Int] /\ t.block = r.block /\ t.left = r.left - 1
  OBVIOUS

\* The time of a tick, when nothing is due.
LEMMA TickOrderly ==
  ASSUME NEW u, Orderly(u), ~(u.checks # << >> /\ Head(u.checks) = 0),
         ~(u.coming # << >> /\ Head(u.coming).left = 0)
  PROVE  LET v == [u EXCEPT !.checks = [j \in DOMAIN u.checks |-> u.checks[j] - 1],
                            !.coming = [i \in DOMAIN u.coming |->
                                          [u.coming[i] EXCEPT !.left = u.coming[i].left - 1]]] IN
         Orderly(v) /\ (Enough(u) => Enough(v))
<1> DEFINE R == [block : Blocks, left : Int]
           k == [j \in DOMAIN u.checks |-> u.checks[j] - 1]
           m == [i \in DOMAIN u.coming |-> [u.coming[i] EXCEPT !.left = u.coming[i].left - 1]]
           v == [u EXCEPT !.checks = k, !.coming = m]
<1>1. u \in SpawnStates
  BY DEF Orderly, Regular
<1>2. PICK p \in Seq(Int) : p = u.checks
  BY <1>1 DEF SpawnStates
<1>3. PICK q \in Seq(R) : q = u.coming
  BY <1>1 DEF SpawnStates
<1>4. \A j \in DOMAIN p : p[j] \in Int
  OBVIOUS
<1>5. \A i \in DOMAIN q : q[i] \in R /\ q[i].block \in Blocks /\ q[i].left \in Int
  <2>1. \A i \in DOMAIN q : q[i] \in R
    <3> HIDE DEF R
    <3> QED OBVIOUS
  <2> QED BY <2>1
<1>6. /\ k \in Seq(Int) /\ DOMAIN k = DOMAIN p /\ Len(k) = Len(p)
      /\ \A j \in DOMAIN p : k[j] = p[j] - 1
  <2>1. k = [j \in DOMAIN p |-> p[j] - 1] /\ DOMAIN p = 1..Len(p) /\ Len(p) \in Nat
    BY <1>2
  <2>2. \A j \in 1..Len(p) : p[j] - 1 \in Int
    BY <1>4, <2>1
  <2>3. k \in [1..Len(p) -> Int]
    BY <2>1, <2>2
  <2> HIDE DEF k
  <2>4. k \in Seq(Int) /\ DOMAIN k = 1..Len(p) /\ Len(k) = Len(p)
    BY <2>1, <2>3, ListOf
  <2> QED BY <2>1, <2>4
<1>7. /\ m \in Seq(R) /\ DOMAIN m = DOMAIN q
      /\ \A i \in DOMAIN q : m[i].block = q[i].block /\ m[i].left = q[i].left - 1
  <2>1. m = [i \in DOMAIN q |-> [q[i] EXCEPT !.left = q[i].left - 1]]
        /\ DOMAIN q = 1..Len(q) /\ Len(q) \in Nat
    BY <1>3
  <2>2. ASSUME NEW i \in DOMAIN q
        PROVE  /\ [q[i] EXCEPT !.left = q[i].left - 1] \in R
               /\ m[i].block = q[i].block /\ m[i].left = q[i].left - 1
    <3>1. q[i] \in [block : Blocks, left : Int]
      BY <1>5
    <3>2. m[i] = [q[i] EXCEPT !.left = q[i].left - 1]
      BY <2>1
    <3> HIDE DEF m
    <3> QED BY <3>1, <3>2, OneTickLess
  <2>3. m \in [1..Len(q) -> R]
    <3> HIDE DEF R
    <3> QED BY <2>1, <2>2
  <2> HIDE DEF R, m
  <2>4. m \in Seq(R) /\ DOMAIN m = 1..Len(q)
    BY <2>1, <2>3, ListOf
  <2> QED BY <2>1, <2>2, <2>4
<1>19. v = [u EXCEPT !.checks = [j \in DOMAIN u.checks |-> u.checks[j] - 1],
                     !.coming = [i \in DOMAIN u.coming |->
                                   [u.coming[i] EXCEPT !.left = u.coming[i].left - 1]]]
  OBVIOUS
<1> HIDE DEF k, m, R
<1>8. /\ v \in SpawnStates /\ v.near = u.near /\ v.away = u.away /\ v.removed = u.removed
      /\ v.coming = m /\ v.checks = k
  BY <1>1, <1>6, <1>7 DEF SpawnStates, R
<1>9. v.doubled = u.doubled /\ v.event = u.event /\ v.ever = u.ever
  BY <1>1 DEF SpawnStates
<1> HIDE DEF v
<1>10. /\ \A i \in DOMAIN q : 0 <= q[i].left /\ q[i].left <= Effects /\ q[i].block \notin Blockable
       /\ \A i, j \in DOMAIN q : i < j => q[i].left <= q[j].left
  BY <1>3 DEF Orderly, Regular, InTurn
<1>11. \A i \in DOMAIN q : 0 < q[i].left
  <2> SUFFICES ASSUME NEW i \in DOMAIN q PROVE 0 < q[i].left
    OBVIOUS
  <2>1. 1 \in DOMAIN q /\ i \in Int /\ (i = 1 \/ 1 < i) /\ Head(q) = q[1] /\ q # << >>
    OBVIOUS
  <2>2. q[1].left # 0
    BY <1>3, <2>1
  <2>3. q[1].left \in Int /\ q[i].left \in Int /\ 0 <= q[1].left
    BY <1>5, <1>10, <2>1
  <2>4. q[1].left <= q[i].left
    BY <1>5, <1>10, <2>1, <2>3
  <2> QED BY <2>2, <2>3, <2>4
<1>12. InTurn(v)
  <2>1. \A x \in Int : 0 < x /\ x <= Effects => 0 <= x - 1 /\ x - 1 <= Effects
    BY BlocksAre
  <2>2. \A x, z \in Int : x <= z => x - 1 <= z - 1
    OBVIOUS
  <2>3. \A i \in DOMAIN m : 0 <= m[i].left /\ m[i].left <= Effects /\ m[i].block \notin Blockable
    BY <1>5, <1>7, <1>10, <1>11, <2>1
  <2>4. \A i, j \in DOMAIN m : i < j => m[i].left <= m[j].left
    BY <1>5, <1>7, <1>10, <2>2
  <2> QED BY <1>8, <2>3, <2>4 DEF InTurn
<1>13. SinceCheck(v)
  <2>1. ~u.doubled => \A i \in DOMAIN q, j \in DOMAIN p : Since(q[i].left, p[j])
    BY <1>2, <1>3 DEF Orderly, Regular, SinceCheck
  <2> SUFFICES ASSUME ~v.doubled, NEW i \in DOMAIN v.coming, NEW j \in DOMAIN v.checks
               PROVE  Since(v.coming[i].left, v.checks[j])
    BY DEF SinceCheck
  <2>2. i \in DOMAIN q /\ j \in DOMAIN p
    BY <1>6, <1>7, <1>8
  <2>3. Since(q[i].left, p[j])
    BY <1>9, <2>1, <2>2
  <2>4. m[i].left = q[i].left - 1 /\ k[j] = p[j] - 1
    BY <1>6, <1>7, <2>2
  <2>5. q[i].left \in Int /\ p[j] \in Int
    BY <1>4, <1>5, <2>2
  <2>6. Since(q[i].left - 1, p[j] - 1)
    BY <2>3, <2>5, SeparateAre
  <2> QED BY <1>8, <2>4, <2>6
<1>14. Spaced(v)
  <2>1. ~u.doubled => \A i, j \in DOMAIN q :
          i < j /\ q[i].block = q[j].block => Separate(q[i].left, q[j].left)
    BY <1>3 DEF Orderly, Regular, Spaced
  <2>3. ~v.doubled => \A i, j \in DOMAIN m :
          i < j /\ m[i].block = m[j].block => Separate(m[i].left, m[j].left)
    BY <1>5, <1>7, <1>9, <2>1, SeparateAre
  <2> QED BY <1>8, <2>3 DEF Spaced
<1>15. FewPerBlock(v)
  <2> SUFFICES ASSUME ~v.doubled, NEW c \in Blocks
               PROVE  v.near[c] >= 0 /\ v.away[c] >= 0 /\ v.removed[c] >= 0 /\ Fits(v, c)
    BY DEF FewPerBlock
  <2>1. c \in Ids /\ u.near[c] >= 0 /\ u.away[c] >= 0 /\ u.removed[c] >= 0 /\ Fits(u, c)
    BY <1>9, BlocksAre DEF Orderly, Regular, FewPerBlock
  <2>2. Announced(v, c) = Announced(u, c)
    BY <1>3, <1>7, <1>8 DEF Announced
  <2>3. Claims(v, c) = Claims(u, c)
    BY <1>1, <1>8, <2>1, <2>2, ClaimsAre
  <2> QED BY <1>8, <2>1, <2>3 DEF Fits
<1>16. Listed(v) /\ OneCheck(v) /\ Noticed(v)
  <2>1. (p # << >> => k # << >>) /\ (p = << >> => k = << >>)
    <3>1. p = << >> <=> Len(p) = 0
      OBVIOUS
    <3>2. k = << >> <=> Len(k) = 0
      BY <1>6
    <3> QED BY <1>6, <3>1, <3>2
  <2> QED BY <1>2, <1>6, <1>8, <1>9, <2>1 DEF Orderly, Regular, Listed, OneCheck, Noticed
<1>17. Enough(u) => Enough(v)
  <2>1. Size(v) = Size(u)
    BY <1>1, <1>8, SizeStays
  <2> QED BY <1>9, <2>1 DEF Enough
<1>18. Orderly(v)
  BY <1>8, <1>12, <1>13, <1>14, <1>15, <1>16 DEF Orderly, Regular
<1> QED BY <1>17, <1>18, <1>19

\* What is always so of the spawn.
SpawnInOrder == Orderly(spawn) /\ Enough(spawn)

\* The start-up leaves a spawn in order.
LEMMA SpawnBegins == SpawnInit => SpawnInOrder
<1> SUFFICES ASSUME SpawnInit PROVE SpawnInOrder
  OBVIOUS
<1>1. PICK placed, refused \in SUBSET Blocks :
        /\ placed \intersect refused = {}
        /\ spawn = [event |-> refused # {}, ever |-> refused # {}, doubled |-> FALSE,
                    checks |-> IF refused = {} THEN << >> ELSE << CheckEvery >>,
                    near |-> [b \in Ids |-> IF b \in placed THEN 1 ELSE 0],
                    away |-> [b \in Ids |-> 0], removed |-> [b \in Ids |-> 0], coming |-> << >>]
  BY DEF SpawnInit
<1>2. PICK q \in Seq(Int) : q = IF refused = {} THEN << >> ELSE << CheckEvery >>
  <2>1. << >> \in Seq(Int) /\ << CheckEvery >> \in Seq(Int)
    BY BlocksAre
  <2> QED BY <2>1
<1>3. PICK n \in [Ids -> Int] : n = [b \in Ids |-> IF b \in placed THEN 1 ELSE 0]
  <2>1. [b \in Ids |-> IF b \in placed THEN 1 ELSE 0] \in [Ids -> Int]
    OBVIOUS
  <2> QED BY <2>1
<1>4. PICK z \in [Ids -> Int] : z = [b \in Ids |-> 0]
  <2>1. [b \in Ids |-> 0] \in [Ids -> Int]
    OBVIOUS
  <2> QED BY <2>1
<1>5. PICK any \in BOOLEAN : any = (refused # {})
  OBVIOUS
<1>6. spawn = [event |-> any, ever |-> any, doubled |-> FALSE, checks |-> q,
               near |-> n, away |-> z, removed |-> z, coming |-> << >>]
  BY <1>1, <1>2, <1>3, <1>4, <1>5
<1>7. \A b \in Ids : n[b] \in {0, 1} /\ z[b] = 0
  BY <1>3, <1>4
<1>8. /\ any => Len(q) = 1 /\ q # << >>
      /\ ~any => q = << >>
  BY <1>2, <1>5
<1>9. spawn \in SpawnStates
  BY <1>6 DEF SpawnStates
<1>10. Orderly(spawn)
  <2>1. FewPerBlock(spawn)
    <3> SUFFICES ASSUME NEW b \in Blocks
                 PROVE  spawn.near[b] >= 0 /\ spawn.away[b] >= 0 /\ spawn.removed[b] >= 0 /\ Fits(spawn, b)
      BY DEF FewPerBlock
    <3>1. /\ b \in Ids /\ spawn.near[b] = n[b] /\ spawn.away[b] = z[b] /\ spawn.removed[b] = z[b]
          /\ n[b] \in {0, 1} /\ z[b] = 0
      BY <1>6, <1>7, BlocksAre
    <3>2. Announced(spawn, b) = {}
      BY <1>6 DEF Announced
    <3>3. Cardinality(Announced(spawn, b)) = 0
      BY <3>2, FS_EmptySet
    <3>4. Claims(spawn, b) = n[b]
      BY <1>9, <3>1, <3>3, ClaimsAre
    <3>5. n[b] - 1 <= 0 /\ n[b] - 1 \in Int
      BY <3>1
    <3>6. \A x \in Int : x <= 0 => x * CheckEvery <= 0
      BY BlocksAre
    <3>7. (n[b] - 1) * CheckEvery <= 0 /\ (n[b] - 1) * CheckEvery \in Int
      BY <3>5, <3>6, BlocksAre
    <3> QED BY <3>1, <3>4, <3>7, BlocksAre DEF Fits
  <2> QED BY <1>6, <1>7, <1>8, <1>9, <2>1, BlocksAre
             DEF Orderly, Regular, Listed, OneCheck, Noticed, InTurn, Spaced, SinceCheck
<1>11. Enough(spawn)
  BY <1>6 DEF Enough
<1> QED BY <1>10, <1>11 DEF SpawnInOrder

\* Every step leaves it in order: one case for each action.
LEMMA SpawnGoesOn == SpawnInOrder /\ [SpawnNext]_spawn => SpawnInOrder'
<1> SUFFICES ASSUME SpawnInOrder, [SpawnNext]_spawn PROVE SpawnInOrder'
  OBVIOUS
<1>1. PICK u, v : u = spawn /\ v = spawn'
  OBVIOUS
<1>2. Orderly(u) /\ Enough(u) /\ u \in SpawnStates
  BY <1>1 DEF SpawnInOrder, Orderly, Regular
<1>3. SUFFICES Orderly(v) /\ Enough(v)
  BY <1>1 DEF SpawnInOrder, Orderly, Regular, Listed, OneCheck, Noticed, InTurn, Spaced, SinceCheck,
              FewPerBlock, Fits, Claims, Enough, Size
<1>4. CASE CheckSpawn
  <2>1. u.checks # << >> /\ Head(u.checks) = 0
    BY <1>1, <1>4 DEF CheckSpawn, Due
  <2>2. PICK tried \in SUBSET {b \in Blocks : u.near[b] + u.removed[b] = 0},
             outcome \in Outcomes, culled \in SUBSET Ids :
               v = CheckEnded(Looped(Cleaned(CheckBegan(u)), tried, outcome, culled))
    BY <1>1, <1>4 DEF CheckSpawn
  <2>3. PICK w : w = Cleaned(CheckBegan(u))
    OBVIOUS
  <2>4. Orderly(w) /\ Lately(w) /\ (~w.doubled => \A c \in tried : Vacant(w, c))
    BY <1>2, <2>1, <2>3, CheckBegunOrderly
  <2>5. PICK x : x = Looped(w, tried, outcome, culled)
    OBVIOUS
  <2>6. tried \in SUBSET Blocks
    OBVIOUS
  <2>7. Orderly(x)
    BY <2>4, <2>5, <2>6, LoopedOrderly
  <2> QED BY <2>2, <2>3, <2>5, <2>7, CheckEndedOrderly
<1>5. CASE ScheduleSpawn
  <2>1. u.coming # << >>
    BY <1>1, <1>5 DEF ScheduleSpawn, Arriving
  <2>2. PICK w, b : w = [u EXCEPT !.coming = Tail(u.coming)] /\ b = Head(u.coming).block
    OBVIOUS
  <2>3. PICK outcome \in Outcomes, culled \in SUBSET Ids : v = SpawnMonster(w, b, outcome, culled)
    BY <1>1, <1>5, <2>2 DEF ScheduleSpawn
  <2>4. b \in Blocks /\ Orderly(w) /\ Enough(w) /\ (~w.doubled => RoomFor(w, b))
    BY <1>2, <2>1, <2>2, ArrivedOrderly
  <2> QED BY <2>3, <2>4, SpawnMonsterOrderly
<1>6. CASE Tick
  <2>1. /\ ~(u.checks # << >> /\ Head(u.checks) = 0)
        /\ ~(u.coming # << >> /\ Head(u.coming).left = 0)
        /\ v = [u EXCEPT !.checks = [j \in DOMAIN u.checks |-> u.checks[j] - 1],
                         !.coming = [i \in DOMAIN u.coming |->
                                       [u.coming[i] EXCEPT !.left = u.coming[i].left - 1]]]
    BY <1>1, <1>6 DEF Tick, Due, Arriving
  <2> QED BY <1>2, <2>1, TickOrderly
<1>7. ASSUME NEW b \in Ids, Dies(b) PROVE Orderly(v) /\ Enough(v)
  <2>1. CASE v = MonstersRemoved(u, {b})
    <3>1. {b} \in SUBSET Ids
      OBVIOUS
    <3>2. Orderly(v) /\ (v.event \/ v = u)
      BY <1>2, <2>1, <3>1, MonstersRemovedOrderly
    <3> QED BY <1>2, <3>2 DEF Enough
  <2>2. CASE u.away[b] > 0 /\ v = StartSpawnCheck([u EXCEPT !.away[b] = u.away[b] - 1,
                                                         !.removed[b] = u.removed[b] + 1])
    <3>1. PICK n, a, r : /\ n = u.near /\ a = [u.away EXCEPT ![b] = u.away[b] - 1]
                         /\ r = [u.removed EXCEPT ![b] = u.removed[b] + 1]
      OBVIOUS
    <3>2. n \in [Ids -> Int] /\ a \in [Ids -> Int] /\ r \in [Ids -> Int]
      BY <1>2, <3>1 DEF SpawnStates
    <3>3. \A c \in Ids : u.near[c] \in Int /\ u.removed[c] \in Int /\ u.away[c] \in Int
      BY <1>2 DEF SpawnStates
    <3>4. /\ a[b] = u.away[b] - 1 /\ r[b] = u.removed[b] + 1
          /\ \A c \in Ids \ {b} : a[c] = u.away[c] /\ r[c] = u.removed[c]
      BY <1>2, <3>1 DEF SpawnStates
    <3>6. PICK w : w = [u EXCEPT !.near = n, !.away = a, !.removed = r]
      OBVIOUS
    <3>5. w \in SpawnStates /\ w.near = n /\ w.away = a /\ w.removed = r
      BY <1>2, <3>2, <3>6 DEF SpawnStates
    <3>10. Elsewhere(u, w)
      <4>1. w.coming = u.coming /\ w.checks = u.checks
        BY <1>2, <3>6 DEF SpawnStates
      <4>2. w.doubled = u.doubled /\ w.event = u.event /\ w.ever = u.ever
        BY <1>2, <3>6 DEF SpawnStates
      <4>3. \A c \in Ids : /\ n[c] + a[c] + r[c] = u.near[c] + u.away[c] + u.removed[c]
                           /\ u.near[c] >= 0 => n[c] >= 0
                           /\ u.away[c] >= 0 => a[c] >= 0
                           /\ u.removed[c] >= 0 => r[c] >= 0
        BY <2>2, <3>1, <3>3, <3>4
      <4> QED BY <3>5, <4>1, <4>2, <4>3 DEF Elsewhere
    <3>7. Regular(w)
      BY <1>2, <3>5, <3>10, MovedOrderly DEF Orderly
    <3>8. v = StartSpawnCheck(w)
      <4>1. [u EXCEPT !.away[b] = u.away[b] - 1, !.removed[b] = u.removed[b] + 1] = w
        BY <1>2, <3>1, <3>6 DEF SpawnStates
      <4> QED BY <2>2, <4>1
    <3>9. Orderly(v) /\ v.event
      BY <3>7, <3>8, StartSpawnCheckOrderly
    <3> QED BY <3>9 DEF Enough
  <2> QED BY <1>1, <1>7, <2>1, <2>2 DEF Dies
<1>8. ASSUME NEW b \in Blocks, Strays(b) \/ ComesBack(b) PROVE Orderly(v) /\ Enough(v)
  <2>1. /\ b \in Ids /\ u.near \in [Ids -> Int] /\ u.away \in [Ids -> Int] /\ u.removed \in [Ids -> Int]
        /\ \A c \in Ids : u.near[c] \in Int /\ u.removed[c] \in Int /\ u.away[c] \in Int
    BY <1>2, BlocksAre DEF SpawnStates
  <2>2. ASSUME u.near[b] > 0, v = [u EXCEPT !.near[b] = u.near[b] - 1, !.away[b] = u.away[b] + 1]
       PROVE  v \in SpawnStates /\ v.removed = u.removed /\ Elsewhere(u, v)
    <3>1. PICK n, a : n = [u.near EXCEPT ![b] = u.near[b] - 1] /\ a = [u.away EXCEPT ![b] = u.away[b] + 1]
      OBVIOUS
    <3>2. v = [u EXCEPT !.near = n, !.away = a]
      BY <1>2, <2>2, <3>1 DEF SpawnStates
    <3>3. n \in [Ids -> Int] /\ a \in [Ids -> Int]
      BY <2>1, <3>1
    <3>4. n[b] = u.near[b] - 1 /\ a[b] = u.away[b] + 1
      BY <2>1, <3>1
    <3>5. \A c \in Ids \ {b} : n[c] = u.near[c] /\ a[c] = u.away[c]
      BY <2>1, <3>1
    <3>6. /\ v \in SpawnStates /\ v.near = n /\ v.away = a /\ v.removed = u.removed
          /\ v.coming = u.coming /\ v.checks = u.checks
      BY <1>2, <3>2, <3>3 DEF SpawnStates
    <3>7. v.doubled = u.doubled /\ v.event = u.event /\ v.ever = u.ever
      BY <1>2, <3>2 DEF SpawnStates
    <3>8. \A c \in Ids : /\ n[c] + a[c] + u.removed[c] = u.near[c] + u.away[c] + u.removed[c]
                         /\ u.near[c] >= 0 => n[c] >= 0
                         /\ u.away[c] >= 0 => a[c] >= 0
      BY <2>1, <2>2, <3>3, <3>4, <3>5
    <3>9. \A c \in Ids : u.removed[c] >= 0 => v.removed[c] >= 0
      BY <3>6
    <3> QED BY <3>6, <3>7, <3>8, <3>9 DEF Elsewhere
  <2>3. ASSUME u.away[b] > 0, v = [u EXCEPT !.near[b] = u.near[b] + 1, !.away[b] = u.away[b] - 1]
       PROVE  v \in SpawnStates /\ v.removed = u.removed /\ Elsewhere(u, v)
    <3>1. PICK n, a : n = [u.near EXCEPT ![b] = u.near[b] + 1] /\ a = [u.away EXCEPT ![b] = u.away[b] - 1]
      OBVIOUS
    <3>2. v = [u EXCEPT !.near = n, !.away = a]
      BY <1>2, <2>3, <3>1 DEF SpawnStates
    <3>3. n \in [Ids -> Int] /\ a \in [Ids -> Int]
      BY <2>1, <3>1
    <3>4. n[b] = u.near[b] + 1 /\ a[b] = u.away[b] - 1
      BY <2>1, <3>1
    <3>5. \A c \in Ids \ {b} : n[c] = u.near[c] /\ a[c] = u.away[c]
      BY <2>1, <3>1
    <3>6. /\ v \in SpawnStates /\ v.near = n /\ v.away = a /\ v.removed = u.removed
          /\ v.coming = u.coming /\ v.checks = u.checks
      BY <1>2, <3>2, <3>3 DEF SpawnStates
    <3>7. v.doubled = u.doubled /\ v.event = u.event /\ v.ever = u.ever
      BY <1>2, <3>2 DEF SpawnStates
    <3>8. \A c \in Ids : /\ n[c] + a[c] + u.removed[c] = u.near[c] + u.away[c] + u.removed[c]
                         /\ u.near[c] >= 0 => n[c] >= 0
                         /\ u.away[c] >= 0 => a[c] >= 0
      BY <2>1, <2>3, <3>3, <3>4, <3>5
    <3>9. \A c \in Ids : u.removed[c] >= 0 => v.removed[c] >= 0
      BY <3>6
    <3> QED BY <3>6, <3>7, <3>8, <3>9 DEF Elsewhere
  <2>4. v \in SpawnStates /\ v.removed = u.removed /\ Elsewhere(u, v)
    BY <1>1, <1>8, <2>2, <2>3 DEF Strays, ComesBack
  <2>5. Regular(v) /\ Enough(v)
    BY <1>2, <2>4, MovedOrderly DEF Orderly
  <2>6. Noticed(v)
    BY <1>2, <2>4 DEF Elsewhere, Orderly, Noticed
  <2> QED BY <2>5, <2>6 DEF Orderly
<1>9. CASE UNCHANGED spawn
  BY <1>1, <1>2, <1>9
<1> QED BY <1>4, <1>5, <1>6, <1>7, <1>8, <1>9 DEF SpawnNext

\* What is so of the spawn says that it is kept.
LEMMA InOrderIsKept == SpawnInOrder => SpawnsKept
<1> SUFFICES ASSUME SpawnInOrder PROVE SpawnsKept
  OBVIOUS
<1>1. PICK u : u = spawn
  OBVIOUS
<1>2. Orderly(u) /\ Enough(u) /\ u \in SpawnStates
  BY <1>1 DEF SpawnInOrder, Orderly, Regular
<1>3. u.checks = << >> => ~u.event
  BY <1>2 DEF Orderly, Regular, Listed
<1>4. u.ever /\ u.checks = << >> => Size(u) >= NBlocks
  BY <1>2, <1>3 DEF Enough
<1>5. u.checks = << >> => \A b \in Ids : u.removed[b] = 0
  BY <1>2, <1>3 DEF Orderly, Noticed
<1>6. ~u.doubled => Len(u.checks) <= 1
  <2> SUFFICES ASSUME ~u.doubled PROVE Len(u.checks) <= 1
    OBVIOUS
  <2>1. CASE u.event
    <3>1. Len(u.checks) = 1
      BY <1>2, <2>1 DEF Orderly, Regular, OneCheck
    <3> QED BY <3>1
  <2>2. CASE ~u.event
    <3>1. u.checks = << >>
      BY <1>2, <2>2 DEF Orderly, Regular, OneCheck
    <3>2. Len(u.checks) = 0
      BY <3>1
    <3> QED BY <3>2
  <2> QED BY <2>1, <2>2
<1>7. ASSUME ~u.doubled, NEW b \in Blocks
      PROVE  (Claims(u, b) - 1) * CheckEvery <= Effects
  BY <1>2, <1>7 DEF Orderly, Regular, FewPerBlock, Fits
<1> QED BY <1>1, <1>4, <1>5, <1>6, <1>7 DEF SpawnsKept

\* None of a spawn's monsters is missing for ever, no removed one goes unnoticed, and
\* unless a check was asked for twice one is pending at most and a block has, beside its
\* monster, there or announced, only as many as checks fit into the time of the effects
\* (spawn.cpp 275-400, Monster::onRemoveCreature), whatever the interval.
THEOREM SpawnsKeptHolds == SpawnSpec => []SpawnsKept
<1>1. SpawnInit => SpawnInOrder
  BY SpawnBegins
<1>2. SpawnInOrder /\ [SpawnNext]_spawn => SpawnInOrder'
  BY SpawnGoesOn
<1>3. SpawnInOrder => SpawnsKept
  BY InOrderIsKept
<1> QED BY <1>1, <1>2, <1>3, PTL DEF SpawnSpec

-----------------------------------------------------------------------------
(* Decay *)

\* Durations are whole seconds.
Durations == {t \in Nat : t % 1000 = 0}

DecayStates ==
  [kind : [Objects -> Kinds \union {Never}], held : [Objects -> BOOLEAN],
   dur : [Objects -> Durations], mark : [Objects -> BOOLEAN],
   refs : [Objects -> Int], released : [Objects -> Nat],
   toDecay : Seq(Objects), bucket : [Buckets -> Seq(Objects)], last : Buckets,
   asked : [Objects -> Durations], spent : [Objects -> Nat], copied : [Objects -> BOOLEAN]]

\* What is counted of item i: its references, but for x of them; a freed one has
\* nothing left of a former life.
Counted(u, i, x) ==
  /\ u.refs[i] = (IF u.held[i] THEN 1 ELSE 0) + Listings(u, i) + u.released[i] + x
  /\ u.held[i] => u.kind[i] \in Kinds
  /\ u.refs[i] = 0 => ~u.mark[i] /\ ~u.copied[i] /\ u.asked[i] = 0
  /\ u.asked[i] > 0 => Listings(u, i) <= 1

\* An item that decays has time left, and a marked one that has is listed.
Lasting(u, i) == CanDecay(u, i) => u.dur[i] > 0
Awaited(u, i) == u.held[i] /\ u.mark[i] /\ ~u.copied[i] => Listings(u, i) > 0 \/ u.dur[i] = 0

\* The turns item i has waited and, if it is in bucket c and l was served last, has
\* still to wait.
TurnsInAll(u, i, c, l) == u.spent[i] + ((c - l - 1) % NBuckets) + 1 + NBuckets * ((u.dur[i] \div Turn) - 1)

InTime(u, i, l, g, m) ==
  u.asked[i] > 0 /\ u.mark[i] =>
    /\ Times(u.toDecay, i) = 1 => u.dur[i] = u.asked[i] /\ u.spent[i] <= g
    /\ \A c \in Buckets : Times(u.bucket[c], i) = 1 =>
         TurnsInAll(u, i, c, l) - (IF c = l THEN m ELSE 0) - (u.asked[i] \div Interval) \in {0, 1}

\* What is demanded of item i.
Good(u, i, l, g, m) == Counted(u, i, 0) /\ Lasting(u, i) /\ Awaited(u, i) /\ InTime(u, i, l, g, m)

\* The objects that are free, and the items in the world.
FreeIn(u) == {i \in Objects : u.refs[i] = 0}
HeldIn(u) == {i \in Objects : u.held[i]}
Upto(s, n, i) == Cardinality({j \in 1..n : s[j] = i})

\* A number bounded by zero and n counts what is met up to n.
LEMMA UptoIs ==
  ASSUME NEW s, NEW i, NEW n \in Nat
  PROVE  /\ Upto(s, n, i) \in Nat /\ Upto(s, 0, i) = 0
         /\ Upto(s, n + 1, i) = Upto(s, n, i) + IF s[n + 1] = i THEN 1 ELSE 0
<1> DEFINE A(k) == {j \in 1..k : s[j] = i}
<1>1. \A k \in Nat : IsFiniteSet(A(k)) /\ Cardinality(A(k)) \in Nat
  <2> TAKE k \in Nat
  <2>1. IsFiniteSet(1..k)
    BY UpTo
  <2>2. IsFiniteSet(A(k))
    BY <2>1, FS_Subset
  <2> QED BY <2>2, FS_CardinalityType
<1>2. A(0) = {}
  OBVIOUS
<1>3. CASE s[n + 1] = i
  <2>1. A(n + 1) = A(n) \union {n + 1} /\ n + 1 \notin A(n)
    BY <1>3
  <2> HIDE DEF A
  <2>2. Cardinality(A(n) \union {n + 1}) = Cardinality(A(n)) + 1
    BY <1>1, <2>1, FS_AddElement
  <2> QED BY <1>1, <1>2, <1>3, <2>1, <2>2, FS_EmptySet DEF Upto, A
<1>4. CASE s[n + 1] # i
  <2>1. A(n + 1) = A(n)
    BY <1>4
  <2> HIDE DEF A
  <2> QED BY <1>1, <1>2, <1>4, <2>1, FS_EmptySet DEF Upto, A
<1> QED BY <1>3, <1>4

\* How often something is in a list.
LEMMA TimesIs ==
  ASSUME NEW S, NEW s \in Seq(S), NEW i
  PROVE  /\ Times(s, i) \in Nat /\ Len(s) \in Nat /\ Times(s, i) = Upto(s, Len(s), i)
         /\ Times(s, i) > 0 <=> \E j \in 1..Len(s) : s[j] = i
<1>1. Len(s) \in Nat /\ DOMAIN s = 1..Len(s)
  OBVIOUS
<1>2. Times(s, i) = Upto(s, Len(s), i)
  BY <1>1 DEF Times, Upto
<1>3. Upto(s, Len(s), i) \in Nat
  BY <1>1, UptoIs
<1>4. IsFiniteSet(1..Len(s))
  BY <1>1, UpTo
<1>5. IsFiniteSet({j \in 1..Len(s) : s[j] = i})
  BY <1>4, FS_Subset
<1>6. Upto(s, Len(s), i) = 0 <=> {j \in 1..Len(s) : s[j] = i} = {}
  BY <1>5, FS_EmptySet DEF Upto
<1> QED BY <1>1, <1>2, <1>3, <1>6

\* Two lists go on alike for n places, the one after a and the other after c.
Alike(r, a, s, c, n) == \A j \in 1..n : r[a + j] = s[c + j]

\* Then the counts grow alike.
LEMMA UptoGoesOn ==
  ASSUME NEW s, NEW r, NEW i, NEW a \in Nat, NEW c \in Nat, NEW N \in Nat, Alike(r, a, s, c, N)
  PROVE  Upto(r, a + N, i) = Upto(r, a, i) + Upto(s, c + N, i) - Upto(s, c, i)
<1> DEFINE P(n) == Upto(r, a + n, i) = Upto(r, a, i) + Upto(s, c + n, i) - Upto(s, c, i)
           Bad == {n \in 0..N : ~P(n)}
<1>1. \A n \in Nat : Upto(r, n, i) \in Nat /\ Upto(s, n, i) \in Nat
  BY UptoIs
<1>2. P(0)
  BY <1>1
<1>3. ASSUME NEW n \in 0..N, n # 0, P(n - 1) PROVE P(n)
  <2>1. n - 1 \in Nat /\ a + (n - 1) \in Nat /\ c + (n - 1) \in Nat /\ n \in 1..N
    BY <1>3
  <2>2. (a + (n - 1)) + 1 = a + n /\ (c + (n - 1)) + 1 = c + n
    OBVIOUS
  <2>3. Upto(r, a + n, i) = Upto(r, a + (n - 1), i) + IF r[a + n] = i THEN 1 ELSE 0
    BY <2>1, <2>2, UptoIs
  <2>4. Upto(s, c + n, i) = Upto(s, c + (n - 1), i) + IF s[c + n] = i THEN 1 ELSE 0
    BY <2>1, <2>2, UptoIs
  <2>5. r[a + n] = s[c + n]
    BY <2>1 DEF Alike
  <2> QED BY <1>1, <1>3, <2>1, <2>3, <2>4, <2>5
<1>4. Bad = {}
  <2> HIDE DEF P
  <2> SUFFICES ASSUME Bad # {} PROVE FALSE
    OBVIOUS
  <2>1. Bad \in SUBSET Nat
    OBVIOUS
  <2>2. PICK n \in Bad : \A m \in Bad : n <= m
    BY <2>1, LeastNumber
  <2>3. n # 0
    BY <1>2, <2>2
  <2>4. n - 1 \in 0..N /\ n - 1 \notin Bad
    BY <2>2, <2>3
  <2> QED BY <1>3, <2>2, <2>3, <2>4
<1>5. N \in 0..N
  OBVIOUS
<1> QED BY <1>4, <1>5

\* How often something is in a list that grew at its end, at its front, or lost its
\* first occurrence of something.
LEMMA TimesAppended ==
  ASSUME NEW S, NEW s \in Seq(S), NEW x \in S, NEW i
  PROVE  /\ Append(s, x) \in Seq(S)
         /\ Times(Append(s, x), i) = Times(s, i) + IF x = i THEN 1 ELSE 0
<1> DEFINE r == Append(s, x)
<1>1. PICK n \in Nat : n = Len(s)
  OBVIOUS
<1>2. /\ r \in Seq(S) /\ Len(r) = n + 1
      /\ \A j \in 1..n : r[j] = s[j]
      /\ r[n + 1] = x
  BY <1>1
<1> HIDE DEF r
<1>0. PICK z \in Nat, w \in Nat : z = 0 /\ w = 0
  OBVIOUS
<1>3. Alike(r, z, s, w, n)
  BY <1>0, <1>2 DEF Alike
<1>4. Upto(r, z + n, i) = Upto(r, z, i) + Upto(s, w + n, i) - Upto(s, w, i)
  BY <1>3, UptoGoesOn
<1>5. Upto(r, z, i) = 0 /\ Upto(s, w, i) = 0 /\ z + n = n /\ w + n = n
  BY <1>0, UptoIs
<1>8. Upto(r, n, i) \in Nat /\ Upto(r, n + 1, i) = Upto(r, n, i) + IF r[n + 1] = i THEN 1 ELSE 0
  BY UptoIs
<1>9. Upto(s, n, i) \in Nat
  BY UptoIs
<1>6. Times(r, i) = Upto(r, n + 1, i) /\ Times(s, i) = Upto(s, n, i)
  BY <1>1, <1>2, TimesIs
<1>7. r \in Seq(S) /\ Times(r, i) = Times(s, i) + IF x = i THEN 1 ELSE 0
  BY <1>2, <1>4, <1>5, <1>6, <1>8, <1>9
<1> QED BY <1>7 DEF r

\* An item put in front is one more of its kind, too.
LEMMA TimesPrepended ==
  ASSUME NEW S, NEW s \in Seq(S), NEW x \in S, NEW i
  PROVE  /\ <<x>> \o s \in Seq(S)
         /\ Times(<<x>> \o s, i) = Times(s, i) + IF x = i THEN 1 ELSE 0
<1> DEFINE r == <<x>> \o s
<1>1. PICK n \in Nat : n = Len(s)
  OBVIOUS
<1>2. /\ r \in Seq(S) /\ Len(r) = 1 + n
      /\ \A j \in 1..n : r[1 + j] = s[j]
      /\ r[1] = x
  BY <1>1
<1> HIDE DEF r
<1>0. PICK z \in Nat, o \in Nat : z = 0 /\ o = 1
  OBVIOUS
<1>3. Alike(r, o, s, z, n)
  BY <1>0, <1>2 DEF Alike
<1>4. Upto(r, o + n, i) = Upto(r, o, i) + Upto(s, z + n, i) - Upto(s, z, i)
  BY <1>3, UptoGoesOn
<1>5. Upto(r, z, i) = 0 /\ Upto(s, z, i) = 0 /\ z + n = n /\ z + 1 = o
  BY <1>0, UptoIs
<1>9. Upto(r, z + 1, i) = Upto(r, z, i) + IF r[z + 1] = i THEN 1 ELSE 0
  BY UptoIs
<1>10. Upto(s, n, i) \in Nat
  BY UptoIs
<1>6. Upto(r, o, i) = IF x = i THEN 1 ELSE 0
  BY <1>2, <1>5, <1>9
<1>7. Times(r, i) = Upto(r, o + n, i) /\ Times(s, i) = Upto(s, n, i)
  BY <1>0, <1>1, <1>2, TimesIs
<1>8. r \in Seq(S) /\ Times(r, i) = Times(s, i) + IF x = i THEN 1 ELSE 0
  BY <1>2, <1>4, <1>5, <1>6, <1>7, <1>10
<1> QED BY <1>8 DEF r

\* A list without its element at j: what came before stays, the rest moves up.
LEMMA Cut ==
  ASSUME NEW S, NEW m \in Seq(S), NEW j \in 1..Len(m)
  PROVE  /\ RemoveAt(m, j) \in Seq(S) /\ Len(RemoveAt(m, j)) = Len(m) - 1
         /\ \A i \in 1..(j - 1) : RemoveAt(m, j)[i] = m[i]
         /\ \A i \in (j + 1)..Len(m) : RemoveAt(m, j)[i - 1] = m[i]
<1> DEFINE L == SubSeq(m, 1, j - 1)
           R == SubSeq(m, j + 1, Len(m))
<1>1. Len(m) \in Nat /\ j \in Int /\ 1 <= j /\ j <= Len(m)
  OBVIOUS
<1>2. PICK n \in Nat : n = Len(m)
  BY <1>1
<1>3. \A i \in 1..n : m[i] \in S
  BY <1>2
<1>4. /\ L \in Seq(S) /\ Len(L) = j - 1
      /\ \A i \in 1..(j - 1) : L[i] = m[i]
  <2>1. \A i \in 1..(j - 1) : m[i] \in S
    BY <1>1, <1>2, <1>3
  <2>2. /\ L \in Seq(S) /\ Len(L) = IF 1 <= j - 1 THEN (j - 1) - 1 + 1 ELSE 0
        /\ \A i \in 1..((j - 1) - 1 + 1) : L[i] = m[1 + i - 1]
    BY <1>1, <2>1, SubSeqProperties
  <2>3. \A i \in 1..(j - 1) : i \in 1..((j - 1) - 1 + 1) /\ 1 + i - 1 = i
    BY <1>1
  <2> HIDE DEF L
  <2> QED BY <1>1, <2>2, <2>3
<1>5. /\ R \in Seq(S) /\ Len(R) = n - j
      /\ \A i \in 1..(n - j) : R[i] = m[j + i]
  <2>1. \A i \in (j + 1)..n : m[i] \in S
    BY <1>1, <1>2, <1>3
  <2>2. /\ R \in Seq(S) /\ Len(R) = IF j + 1 <= n THEN n - (j + 1) + 1 ELSE 0
        /\ \A i \in 1..(n - (j + 1) + 1) : R[i] = m[(j + 1) + i - 1]
    BY <1>1, <1>2, <2>1, SubSeqProperties
  <2>3. \A i \in 1..(n - j) : i \in 1..(n - (j + 1) + 1) /\ (j + 1) + i - 1 = j + i
    BY <1>1, <1>2
  <2> HIDE DEF R
  <2> QED BY <1>1, <1>2, <2>2, <2>3
<1> HIDE DEF L, R
<1>6. /\ L \o R \in Seq(S) /\ Len(L \o R) = Len(L) + Len(R)
      /\ \A i \in 1..(Len(L) + Len(R)) : (L \o R)[i] = IF i <= Len(L) THEN L[i] ELSE R[i - Len(L)]
  BY <1>4, <1>5, ConcatProperties
<1>7. /\ L \o R \in Seq(S) /\ Len(L \o R) = n - 1
      /\ \A i \in 1..(n - 1) : (L \o R)[i] = IF i <= j - 1 THEN L[i] ELSE R[i - (j - 1)]
  BY <1>1, <1>2, <1>4, <1>5, <1>6
<1>8. \A i \in 1..(j - 1) : (L \o R)[i] = m[i]
  BY <1>1, <1>2, <1>4, <1>7
<1>9. \A i \in (j + 1)..n : (L \o R)[i - 1] = m[i]
  <2> TAKE i \in (j + 1)..n
  <2>1. i - 1 \in 1..(n - 1) /\ ~(i - 1 <= j - 1) /\ (i - 1) - (j - 1) = i - j
    BY <1>1, <1>2
  <2>2. i - j \in 1..(n - j) /\ j + (i - j) = i
    BY <1>1, <1>2
  <2>3. (L \o R)[i - 1] = R[i - j]
    BY <1>7, <2>1
  <2>4. R[i - j] = m[j + (i - j)]
    BY <1>5, <2>2
  <2> QED BY <2>2, <2>3, <2>4
<1>10. RemoveAt(m, j) = L \o R
  BY DEF RemoveAt, L, R
<1> QED BY <1>2, <1>7, <1>8, <1>9, <1>10

\* An item taken off a list is one less of its kind.
LEMMA TimesRemoved ==
  ASSUME NEW S, NEW s \in Seq(S), NEW x \in S, Times(s, x) > 0, NEW i
  PROVE  /\ RemoveFirst(s, x) \in Seq(S)
         /\ Times(RemoveFirst(s, x), i) = Times(s, i) - IF x = i THEN 1 ELSE 0
<1>1. PICK n \in Nat : n = Len(s)
  OBVIOUS
<1>2. \E k \in 1..Len(s) : s[k] = x
  BY TimesIs
<1> DEFINE I == {k \in 1..Len(s) : s[k] = x}
<1>3. I \in SUBSET Nat /\ I # {}
  BY <1>2
<1>4. Min(I) \in I
  <2>1. \E k \in I : \A l \in I : k <= l
    BY <1>3, LeastNumber
  <2> HIDE DEF I
  <2> QED BY <2>1 DEF Min
<1>5. PICK j \in 1..n : j = Min(I) /\ s[j] = x
  BY <1>1, <1>4
<1>6. RemoveFirst(s, x) = RemoveAt(s, j)
  BY <1>2, <1>3, <1>5 DEF RemoveFirst, SelectInSeq
<1> DEFINE r == RemoveAt(s, j)
<1>7. /\ r \in Seq(S) /\ Len(r) = n - 1
      /\ \A k \in 1..(j - 1) : r[k] = s[k]
      /\ \A k \in (j + 1)..n : r[k - 1] = s[k]
  BY <1>1, Cut
<1> HIDE DEF r, I
<1>0. PICK z \in Nat, w \in Nat : z = 0 /\ w = 0
  OBVIOUS
<1>8. PICK a \in Nat : a = j - 1
  OBVIOUS
<1>9. PICK b \in Nat : b = n - j
  OBVIOUS
<1>10. Alike(r, z, s, w, a)
  BY <1>0, <1>7, <1>8 DEF Alike
<1>20. PICK c \in Nat : c = j
  OBVIOUS
<1>11. Alike(r, a, s, c, b)
  <2> SUFFICES ASSUME NEW k \in 1..b PROVE r[a + k] = s[c + k]
    BY DEF Alike
  <2>1. j + k \in (j + 1)..n /\ (j + k) - 1 = a + k
    BY <1>8, <1>9
  <2> QED BY <1>7, <1>20, <2>1
<1>12. Upto(r, z + a, i) = Upto(r, z, i) + Upto(s, w + a, i) - Upto(s, w, i)
  BY <1>10, UptoGoesOn
<1>13. Upto(r, a + b, i) = Upto(r, a, i) + Upto(s, c + b, i) - Upto(s, c, i)
  BY <1>11, UptoGoesOn
<1>14. /\ Upto(r, z, i) = 0 /\ Upto(s, w, i) = 0 /\ z + a = a /\ w + a = a /\ a + 1 = c
       /\ Upto(s, n, i) \in Nat /\ Upto(s, c, i) \in Nat
  BY <1>0, <1>8, <1>20, UptoIs
<1>18. /\ Upto(s, a, i) \in Nat
       /\ Upto(s, a + 1, i) = Upto(s, a, i) + IF s[a + 1] = i THEN 1 ELSE 0
  BY UptoIs
<1>15. a + b = n - 1 /\ c + b = n /\ n - 1 \in Nat
  BY <1>8, <1>9, <1>20
<1>16. Times(r, i) = Upto(r, n - 1, i) /\ Times(s, i) = Upto(s, n, i)
  <2>1. Times(r, i) = Upto(r, Len(r), i)
    BY <1>7, TimesIs
  <2>2. Times(s, i) = Upto(s, Len(s), i)
    BY TimesIs
  <2> QED BY <1>1, <1>7, <2>1, <2>2
<1>19. s[a + 1] = x
  BY <1>5, <1>8
<1>21. Upto(r, a, i) = Upto(s, a, i)
  BY <1>12, <1>14, <1>18
<1>22. Times(r, i) = Upto(r, a, i) + Times(s, i) - Upto(s, c, i)
  BY <1>13, <1>15, <1>16
<1>23. Times(s, i) \in Nat
  BY <1>14, <1>16
<1>24. Upto(s, c, i) = Upto(s, a, i) + IF x = i THEN 1 ELSE 0
  BY <1>14, <1>18, <1>19
<1>17. Times(r, i) = Times(s, i) - IF x = i THEN 1 ELSE 0
  BY <1>14, <1>18, <1>21, <1>22, <1>23, <1>24
<1> QED BY <1>6, <1>7, <1>17 DEF r

\* The buckets, one by one.
LEMMA BucketsAre == Buckets = {0, 1, 2, 3} /\ IsFiniteSet(Buckets) /\ NBuckets = 4 /\ Turn = 1000 /\ Interval = 250
<1>1. Buckets = 0..3
  BY DEF Buckets, NBuckets
<1>2. IsFiniteSet(Buckets)
  <2>1. \A p, q \in Int : IsFiniteSet(p..q)
    BY FS_Interval
  <2>2. 0 \in Int /\ 3 \in Int
    OBVIOUS
  <2> QED BY <1>1, <2>1, <2>2, Zenon
<1> QED BY <1>1, <1>2 DEF NBuckets, Turn, Interval

\* The listings of an item: those in toDecayItems and in each of the buckets.
LEMMA ListingsAre ==
  ASSUME NEW u \in DecayStates, NEW i
  PROVE  /\ Times(u.toDecay, i) \in Nat /\ \A b \in Buckets : Times(u.bucket[b], i) \in Nat
         /\ Listings(u, i) = Times(u.toDecay, i) + Times(u.bucket[0], i) + Times(u.bucket[1], i)
                             + Times(u.bucket[2], i) + Times(u.bucket[3], i)
<1>1. u.toDecay \in Seq(Objects) /\ \A b \in Buckets : u.bucket[b] \in Seq(Objects)
  BY DEF DecayStates
<1>2. Times(u.toDecay, i) \in Nat /\ \A b \in Buckets : Times(u.bucket[b], i) \in Nat
  BY <1>1, TimesIs
<1> DEFINE f == [b \in Buckets |-> Times(u.bucket[b], i)]
<1>3. SumFunction(f) = SumFunctionOnSet(f, {0, 1, 2, 3})
  BY BucketsAre DEF SumFunction, SumFunctionOnSet, FoldFunction
<1>4. \A b \in {0, 1, 2, 3} : f[b] \in Int
  BY <1>2, BucketsAre
<1>5. /\ f[0] = Times(u.bucket[0], i) /\ f[1] = Times(u.bucket[1], i)
      /\ f[2] = Times(u.bucket[2], i) /\ f[3] = Times(u.bucket[3], i)
  BY BucketsAre
<1>6. Listings(u, i) = Times(u.toDecay, i) + SumFunctionOnSet(f, {0, 1, 2, 3})
  BY <1>3 DEF Listings
<1> HIDE DEF f
<1>7. /\ IsFiniteSet({0, 1, 2, 3}) /\ IsFiniteSet({1, 2, 3})
      /\ IsFiniteSet({2, 3}) /\ IsFiniteSet({3})
  <2>1. IsFiniteSet({0, 1, 2, 3})
    BY BucketsAre
  <2> QED BY <2>1, FS_Subset
<1>8. SumFunctionOnSet(f, {0, 1, 2, 3}) = f[0] + SumFunctionOnSet(f, {1, 2, 3})
  <2>1. {0, 1, 2, 3} \ {0} = {1, 2, 3} /\ 0 \in {0, 1, 2, 3}
    OBVIOUS
  <2>2. SumFunctionOnSet(f, {0, 1, 2, 3}) = f[0] + SumFunctionOnSet(f, {0, 1, 2, 3} \ {0})
    BY <1>4, <1>7, <2>1, SumTakeOut
  <2> QED BY <2>1, <2>2
<1>9. SumFunctionOnSet(f, {1, 2, 3}) = f[1] + SumFunctionOnSet(f, {2, 3})
  <2>1. {1, 2, 3} \ {1} = {2, 3} /\ 1 \in {1, 2, 3}
    OBVIOUS
  <2>2. SumFunctionOnSet(f, {1, 2, 3}) = f[1] + SumFunctionOnSet(f, {1, 2, 3} \ {1})
    BY <1>4, <1>7, <2>1, SumTakeOut
  <2> QED BY <2>1, <2>2
<1>10. SumFunctionOnSet(f, {2, 3}) = f[2] + SumFunctionOnSet(f, {3})
  <2>1. {2, 3} \ {2} = {3} /\ 2 \in {2, 3}
    OBVIOUS
  <2>2. SumFunctionOnSet(f, {2, 3}) = f[2] + SumFunctionOnSet(f, {2, 3} \ {2})
    BY <1>4, <1>7, <2>1, SumTakeOut
  <2> QED BY <2>1, <2>2
<1>11. SumFunctionOnSet(f, {3}) = f[3]
  <2>1. {3} \ {3} = {} /\ 3 \in {3}
    OBVIOUS
  <2>2. SumFunctionOnSet(f, {3}) = f[3] + SumFunctionOnSet(f, {3} \ {3})
    BY <1>4, <1>7, <2>1, SumTakeOut
  <2>3. SumFunctionOnSet(f, {}) = 0
    BY SumOfNothing
  <2>4. SumFunctionOnSet(f, {3} \ {3}) = 0 /\ f[3] \in Int
    BY <1>4, <2>1, <2>3
  <2> QED BY <2>2, <2>4
<1>12. Listings(u, i) = Times(u.toDecay, i) + (f[0] + (f[1] + (f[2] + f[3])))
  BY <1>6, <1>8, <1>9, <1>10, <1>11
<1>13. 0 \in Buckets /\ 1 \in Buckets /\ 2 \in Buckets /\ 3 \in Buckets
  BY BucketsAre
<1> QED BY <1>2, <1>5, <1>12, <1>13

\* Item i is as it was: its fields, and how often it is in which list.
SameFields(u, v, i) ==
  /\ v.kind[i] = u.kind[i] /\ v.held[i] = u.held[i] /\ v.dur[i] = u.dur[i] /\ v.mark[i] = u.mark[i]
  /\ v.refs[i] = u.refs[i] /\ v.released[i] = u.released[i]
  /\ v.asked[i] = u.asked[i] /\ v.spent[i] = u.spent[i] /\ v.copied[i] = u.copied[i]
SameLists(u, v, i) ==
  /\ Times(v.toDecay, i) = Times(u.toDecay, i)
  /\ \A b \in Buckets : Times(v.bucket[b], i) = Times(u.bucket[b], i)

\* Only items in T change.
OnlyThese(u, v, T) ==
  /\ u \in DecayStates /\ v \in DecayStates /\ v.last = u.last
  /\ \A j \in Objects \ T : SameFields(u, v, j) /\ SameLists(u, v, j)

\* An item that is as it was is as good.
LEMMA SameListings ==
  ASSUME NEW u \in DecayStates, NEW v \in DecayStates, NEW i, SameLists(u, v, i)
  PROVE  Listings(v, i) = Listings(u, i)
<1>1. 0 \in Buckets /\ 1 \in Buckets /\ 2 \in Buckets /\ 3 \in Buckets
  BY BucketsAre
<1>2. Listings(u, i) = Times(u.toDecay, i) + Times(u.bucket[0], i) + Times(u.bucket[1], i)
                             + Times(u.bucket[2], i) + Times(u.bucket[3], i)
  BY ListingsAre
<1>3. Listings(v, i) = Times(v.toDecay, i) + Times(v.bucket[0], i) + Times(v.bucket[1], i)
                             + Times(v.bucket[2], i) + Times(v.bucket[3], i)
  BY ListingsAre
<1> QED BY <1>1, <1>2, <1>3 DEF SameLists

\* What holds of an item is kept while it stays as it was.
LEMMA SameIsGood ==
  ASSUME NEW u \in DecayStates, NEW v \in DecayStates, NEW i, SameFields(u, v, i), SameLists(u, v, i),
         NEW l, NEW g, NEW m, NEW x
  PROVE  /\ Counted(u, i, x) => Counted(v, i, x)
         /\ Awaited(u, i) => Awaited(v, i)
         /\ Lasting(u, i) => Lasting(v, i)
         /\ InTime(u, i, l, g, m) => InTime(v, i, l, g, m)
         /\ Good(u, i, l, g, m) => Good(v, i, l, g, m)
<1>1. Listings(v, i) = Listings(u, i)
  BY SameListings
<1>2. Counted(u, i, x) => Counted(v, i, x)
  BY <1>1 DEF Counted, SameFields
<1>3. Awaited(u, i) => Awaited(v, i)
  BY <1>1 DEF Awaited, SameFields
<1>6. Lasting(u, i) => Lasting(v, i)
  BY DEF Lasting, CanDecay, SameFields
<1>4. InTime(u, i, l, g, m) => InTime(v, i, l, g, m)
  BY DEF InTime, TurnsInAll, SameFields, SameLists
<1>5. Counted(u, i, 0) => Counted(v, i, 0)
  BY <1>1 DEF Counted, SameFields
<1> QED BY <1>2, <1>3, <1>4, <1>5, <1>6 DEF Good

\* Durations are the multiples of 1000.
LEMMA DurationsAre ==
  /\ 0 \in Durations /\ \A n \in Nat : 1000 * n \in Durations
  /\ \A t \in Durations : t \in Nat /\ \E q \in Nat : t = 1000 * q
<1>1. 0 \in Durations
  BY DEF Durations
<1>2. \A n \in Nat : 1000 * n \in Nat /\ (1000 * n) % 1000 = 0
  OBVIOUS
<1>3. \A t \in Nat : t % 1000 = 0 => (t \div 1000) \in Nat /\ t = 1000 * (t \div 1000)
  OBVIOUS
<1> QED BY <1>1, <1>2, <1>3 DEF Durations

\* A reference is to be given back.
IsReleased(u, v, i) ==
  /\ OnlyThese(u, v, {i}) /\ SameLists(u, v, i)
  /\ v.kind[i] = u.kind[i] /\ v.held[i] = u.held[i] /\ v.dur[i] = u.dur[i] /\ v.mark[i] = u.mark[i]
  /\ v.refs = u.refs /\ v.released[i] = u.released[i] + 1
  /\ v.asked[i] = u.asked[i] /\ v.spent[i] = u.spent[i] /\ v.copied[i] = u.copied[i]
  /\ v.held = u.held /\ v.bucket = u.bucket /\ v.toDecay = u.toDecay

\* Released does just that.
LEMMA ReleasedIs ==
  ASSUME NEW u \in DecayStates, NEW i \in Objects, NEW v, v = Released(u, i)
  PROVE  IsReleased(u, v, i)
<1>1. v \in DecayStates
  <2>1. PICK f : f = [u.released EXCEPT ![i] = u.released[i] + 1]
    OBVIOUS
  <2>2. f \in [Objects -> Nat]
    BY <2>1 DEF DecayStates
  <2>3. v = [u EXCEPT !.released = f]
    BY <2>1 DEF Released, DecayStates
  <2> QED BY <2>2, <2>3 DEF DecayStates
<1>2. /\ v.kind = u.kind /\ v.held = u.held /\ v.dur = u.dur /\ v.mark = u.mark /\ v.refs = u.refs
      /\ v.asked = u.asked /\ v.spent = u.spent /\ v.copied = u.copied
      /\ v.bucket = u.bucket /\ v.toDecay = u.toDecay /\ v.last = u.last
      /\ v.released[i] = u.released[i] + 1
      /\ \A j \in Objects \ {i} : v.released[j] = u.released[j]
  BY DEF Released, DecayStates
<1>3. \A j \in Objects \ {i} : SameFields(u, v, j)
  BY <1>2 DEF SameFields
<1>4. \A j \in Objects : SameLists(u, v, j)
  BY <1>2 DEF SameLists
<1> QED BY <1>1, <1>2, <1>3, <1>4 DEF OnlyThese, IsReleased

\* An item leaves the world.
IsRemoved(u, v, i) ==
  /\ OnlyThese(u, v, {i}) /\ SameLists(u, v, i)
  /\ v.kind[i] = u.kind[i] /\ ~v.held[i] /\ v.dur[i] = u.dur[i] /\ v.mark[i] = u.mark[i]
  /\ v.refs = u.refs /\ v.released[i] = u.released[i] + 1
  /\ v.asked[i] = u.asked[i] /\ v.spent[i] = u.spent[i] /\ v.copied[i] = u.copied[i]
  /\ v.bucket = u.bucket /\ v.toDecay = u.toDecay

\* Removed does just that.
LEMMA RemovedIs ==
  ASSUME NEW u \in DecayStates, NEW i \in Objects, NEW v, v = Removed(u, i)
  PROVE  IsRemoved(u, v, i)
<1>1. v \in DecayStates
  <2>1. PICK f, h : f = [u.released EXCEPT ![i] = u.released[i] + 1] /\ h = [u.held EXCEPT ![i] = FALSE]
    OBVIOUS
  <2>2. f \in [Objects -> Nat] /\ h \in [Objects -> BOOLEAN]
    BY <2>1 DEF DecayStates
  <2>3. v = [u EXCEPT !.released = f, !.held = h]
    BY <2>1 DEF Removed, Released, DecayStates
  <2> QED BY <2>2, <2>3 DEF DecayStates
<1>2. /\ v.kind = u.kind /\ v.dur = u.dur /\ v.mark = u.mark /\ v.refs = u.refs
      /\ v.asked = u.asked /\ v.spent = u.spent /\ v.copied = u.copied
      /\ v.bucket = u.bucket /\ v.toDecay = u.toDecay /\ v.last = u.last
      /\ v.released[i] = u.released[i] + 1 /\ ~v.held[i]
      /\ \A j \in Objects \ {i} : v.released[j] = u.released[j] /\ v.held[j] = u.held[j]
  BY DEF Removed, Released, DecayStates
<1>3. \A j \in Objects \ {i} : SameFields(u, v, j)
  BY <1>2 DEF SameFields
<1>4. \A j \in Objects : SameLists(u, v, j)
  BY <1>2 DEF SameLists
<1> QED BY <1>1, <1>2, <1>3, <1>4 DEF OnlyThese, IsRemoved

\* An item is made of an object that is free.
LEMMA CreatedIs ==
  ASSUME NEW u \in DecayStates, FreeIn(u) # {}, NEW k \in Kinds, NEW v, v = Created(u, k),
         NEW n, n = NewObject(u)
  PROVE  /\ n \in Objects /\ u.refs[n] = 0
         /\ OnlyThese(u, v, {n}) /\ SameLists(u, v, n)
         /\ v.kind[n] = k /\ v.held[n] /\ v.dur[n] = 1000 * DecayTime[k] /\ v.mark[n] = u.mark[n]
         /\ v.refs[n] = 1 /\ v.released[n] = u.released[n]
         /\ v.asked[n] = u.asked[n] /\ v.spent[n] = u.spent[n] /\ v.copied[n] = u.copied[n]
         /\ v.bucket = u.bucket /\ v.toDecay = u.toDecay
<1>1. n \in FreeIn(u)
  <2>1. FreeIn(u) \in SUBSET Nat
    BY DecayAssumption DEF FreeIn
  <2>2. \E a \in FreeIn(u) : \A b \in FreeIn(u) : a <= b
    BY <2>1, LeastNumber
  <2>3. n = Min(FreeIn(u))
    BY DEF NewObject, FreeIn
  <2> QED BY <2>2, <2>3 DEF Min
<1>2. n \in Objects /\ u.refs[n] = 0
  BY <1>1 DEF FreeIn
<1>3. v = [u EXCEPT !.kind[n] = k, !.held[n] = TRUE, !.refs[n] = 1, !.dur[n] = 1000 * DecayTime[k]]
  BY DEF Created
<1>4. 1000 * DecayTime[k] \in Durations /\ k \in Kinds \union {Never}
  BY DecayAssumption, DurationsAre
<1>5. v \in DecayStates
  <2>4. PICK e : e = 1000 * DecayTime[k]
    OBVIOUS
  <2>1. PICK a, h, r, t : /\ a = [u.kind EXCEPT ![n] = k] /\ h = [u.held EXCEPT ![n] = TRUE]
                          /\ r = [u.refs EXCEPT ![n] = 1] /\ t = [u.dur EXCEPT ![n] = e]
    OBVIOUS
  <2>2. /\ a \in [Objects -> Kinds \union {Never}] /\ h \in [Objects -> BOOLEAN]
        /\ r \in [Objects -> Int] /\ t \in [Objects -> Durations]
    BY <1>2, <1>4, <2>1, <2>4 DEF DecayStates
  <2>3. v = [u EXCEPT !.kind = a, !.held = h, !.refs = r, !.dur = t]
    BY <1>3, <2>1, <2>4 DEF DecayStates
  <2> QED BY <2>2, <2>3 DEF DecayStates
<1>6. /\ v.mark = u.mark /\ v.released = u.released
      /\ v.asked = u.asked /\ v.spent = u.spent /\ v.copied = u.copied
      /\ v.bucket = u.bucket /\ v.toDecay = u.toDecay /\ v.last = u.last
      /\ v.kind[n] = k /\ v.held[n] /\ v.dur[n] = 1000 * DecayTime[k] /\ v.refs[n] = 1
      /\ \A j \in Objects \ {n} : v.kind[j] = u.kind[j] /\ v.held[j] = u.held[j]
                                  /\ v.dur[j] = u.dur[j] /\ v.refs[j] = u.refs[j]
  BY <1>2, <1>3 DEF DecayStates
<1>7. \A j \in Objects \ {n} : SameFields(u, v, j)
  BY <1>6 DEF SameFields
<1>8. \A j \in Objects \union {n} : SameLists(u, v, j)
  BY <1>6 DEF SameLists
<1> QED BY <1>2, <1>5, <1>6, <1>7, <1>8 DEF OnlyThese

\* An item is listed.
LEMMA PutInBucketIs ==
  ASSUME NEW u \in DecayStates, NEW i \in Objects, NEW v, v = PutInBucket(u, i)
  PROVE  /\ OnlyThese(u, v, {i})
         /\ v.kind[i] = u.kind[i] /\ v.held[i] = u.held[i] /\ v.dur[i] = u.dur[i] /\ v.mark[i]
         /\ v.refs[i] = u.refs[i] + 1 /\ v.released[i] = u.released[i]
         /\ v.asked[i] = (IF Listings(u, i) = 0 THEN u.dur[i] ELSE 0) /\ v.spent[i] = 0 /\ ~v.copied[i]
         /\ Times(v.toDecay, i) = Times(u.toDecay, i) + 1
         /\ v.held = u.held /\ v.bucket = u.bucket
         /\ Listings(v, i) = Listings(u, i) + 1 /\ \A j \in Objects \ {i} : v.refs[j] = u.refs[j]
<1>1. PICK a : a = IF Listings(u, i) = 0 THEN u.dur[i] ELSE 0
  OBVIOUS
<1>2. v = [u EXCEPT !.refs[i] = u.refs[i] + 1, !.mark[i] = TRUE, !.toDecay = <<i>> \o u.toDecay,
                    !.asked[i] = a, !.spent[i] = 0, !.copied[i] = FALSE]
  BY <1>1 DEF PutInBucket, DecayStates
<1>3. a \in Durations
  BY <1>1, DurationsAre DEF DecayStates
<1>4. u.toDecay \in Seq(Objects)
  BY DEF DecayStates
<1>5. PICK q : q = <<i>> \o u.toDecay
  OBVIOUS
<1>6. q \in Seq(Objects) /\ \A j : Times(q, j) = Times(u.toDecay, j) + IF i = j THEN 1 ELSE 0
  BY <1>4, <1>5, TimesPrepended
<1>7. v \in DecayStates
  <2>1. PICK r, h, t, s, c : /\ r = [u.refs EXCEPT ![i] = u.refs[i] + 1] /\ h = [u.mark EXCEPT ![i] = TRUE]
                             /\ t = [u.asked EXCEPT ![i] = a] /\ s = [u.spent EXCEPT ![i] = 0]
                             /\ c = [u.copied EXCEPT ![i] = FALSE]
    OBVIOUS
  <2>2. /\ r \in [Objects -> Int] /\ h \in [Objects -> BOOLEAN] /\ t \in [Objects -> Durations]
        /\ s \in [Objects -> Nat] /\ c \in [Objects -> BOOLEAN]
    BY <1>3, <2>1 DEF DecayStates
  <2>3. v = [u EXCEPT !.refs = r, !.mark = h, !.toDecay = q, !.asked = t, !.spent = s, !.copied = c]
    BY <1>2, <1>5, <2>1 DEF DecayStates
  <2> QED BY <1>6, <2>2, <2>3 DEF DecayStates
<1>8. /\ v.kind = u.kind /\ v.dur = u.dur /\ v.held = u.held /\ v.released = u.released
      /\ v.bucket = u.bucket /\ v.toDecay = q /\ v.last = u.last
      /\ v.refs[i] = u.refs[i] + 1 /\ v.mark[i] /\ v.asked[i] = a /\ v.spent[i] = 0 /\ ~v.copied[i]
      /\ \A j \in Objects \ {i} : v.refs[j] = u.refs[j] /\ v.mark[j] = u.mark[j] /\ v.asked[j] = u.asked[j]
                                  /\ v.spent[j] = u.spent[j] /\ v.copied[j] = u.copied[j]
  BY <1>2, <1>5 DEF DecayStates
<1>9. \A j \in Objects \ {i} : SameFields(u, v, j)
  BY <1>8 DEF SameFields
<1>10. \A j \in Objects \ {i} : Times(v.toDecay, j) = Times(u.toDecay, j)
  <2>1. \A j : Times(u.toDecay, j) \in Nat
    BY <1>4, TimesIs
  <2> QED BY <1>6, <1>8, <2>1
<1>11. \A j \in Objects \ {i} : SameLists(u, v, j)
  BY <1>8, <1>10 DEF SameLists
<1>12. Listings(v, i) = Listings(u, i) + 1
  <2>1. /\ Listings(u, i) = Times(u.toDecay, i) + Times(u.bucket[0], i) + Times(u.bucket[1], i)
                               + Times(u.bucket[2], i) + Times(u.bucket[3], i)
        /\ Times(u.toDecay, i) \in Nat /\ \A b \in Buckets : Times(u.bucket[b], i) \in Nat
    BY ListingsAre
  <2>2. Listings(v, i) = Times(v.toDecay, i) + Times(v.bucket[0], i) + Times(v.bucket[1], i)
                               + Times(v.bucket[2], i) + Times(v.bucket[3], i)
    BY <1>7, ListingsAre
  <2>3. Times(v.toDecay, i) = Times(u.toDecay, i) + 1 /\ v.bucket = u.bucket
    BY <1>6, <1>8
  <2> QED BY <2>1, <2>2, <2>3, BucketsAre
<1> QED BY <1>1, <1>6, <1>7, <1>8, <1>9, <1>11, <1>12 DEF OnlyThese

\* What SetID asks of the new kind, and of the item.
Given(k) == 1000 * DecayTime[k]
Plain(k) == Given(k) = 0 /\ k \notin StopTime /\ DecayTo[k] = Never
Anew(u, i, k) == Given(k) > 0 /\ (u.kind[i] \notin StopTime \/ u.dur[i] = 0)

\* Item i with that kind, mark and time left.
Remade(u, i, k, m, t) ==
  [u EXCEPT !.kind = [u.kind EXCEPT ![i] = k], !.mark = [u.mark EXCEPT ![i] = m],
            !.dur = [u.dur EXCEPT ![i] = t]]

\* Item::setID in these terms.
LEMMA SetIDIs ==
  ASSUME NEW u \in DecayStates, NEW i \in Objects, NEW k,
         NEW m, m = IF Plain(k) \/ Anew(u, i, k) THEN FALSE ELSE u.mark[i],
         NEW t, t = IF Plain(k) THEN 0 ELSE IF Anew(u, i, k) THEN Given(k) ELSE u.dur[i]
  PROVE  SetID(u, i, k) = Remade(u, i, k, m, t)
<1> DEFINE pl == Plain(k)
           an == Anew(u, i, k)
           gi == Given(k)
<1>1. SetID(u, i, k) = [u EXCEPT !.kind[i] = k,
               !.mark[i] = IF pl \/ an THEN FALSE ELSE @,
               !.dur[i] = IF pl THEN 0 ELSE IF an THEN gi ELSE @]
  BY DEF SetID, Plain, Anew, Given
<1> HIDE DEF pl, an, gi
<1>2. SetID(u, i, k) =
           [u EXCEPT !.kind = [u.kind EXCEPT ![i] = k],
                     !.mark = [u.mark EXCEPT ![i] = IF pl \/ an THEN FALSE ELSE u.mark[i]],
                     !.dur = [u.dur EXCEPT ![i] = IF pl THEN 0 ELSE IF an THEN gi ELSE u.dur[i]]]
  BY <1>1 DEF DecayStates
<1>3. m = (IF pl \/ an THEN FALSE ELSE u.mark[i]) /\ t = IF pl THEN 0 ELSE IF an THEN gi ELSE u.dur[i]
  BY Zenon DEF pl, an, gi
<1> QED BY <1>2, <1>3, Zenon DEF Remade

\* An item becomes of another kind of its type.
IsRetyped(u, v, i, k) ==
  /\ OnlyThese(u, v, {i}) /\ SameLists(u, v, i)
  /\ v.kind[i] = k /\ v.held[i] = u.held[i]
  /\ v.refs = u.refs /\ v.released[i] = u.released[i] /\ v.held = u.held
  /\ v.asked[i] = u.asked[i] /\ v.spent[i] = u.spent[i] /\ v.copied[i] = u.copied[i]
  /\ v.mark[i] => u.mark[i] /\ v.dur[i] = u.dur[i]
  /\ DecayTime[k] > 0 => v.dur[i] > 0
  /\ v.bucket = u.bucket /\ v.toDecay = u.toDecay

\* transformItem within a type: the mark is never set, and time left stays.
LEMMA RetypedIs ==
  ASSUME NEW u \in DecayStates, NEW i \in Objects, NEW k \in Kinds, TypeOf[u.kind[i]] = TypeOf[k],
         NEW v, v = Transformed(u, i, k)
  PROVE  IsRetyped(u, v, i, k)
<1>1. PICK given : given = Given(k)
  OBVIOUS
<1>2. given \in Durations /\ given \in Nat /\ (DecayTime[k] > 0 => given > 0)
  <2>1. DecayTime[k] \in Nat
    BY DecayAssumption
  <2> QED BY <1>1, <2>1, DurationsAre DEF Given
<1>3. Plain(k) => given = 0
  BY <1>1 DEF Plain
<1>4. Anew(u, i, k) <=> given > 0 /\ (u.kind[i] \notin StopTime \/ u.dur[i] = 0)
  BY <1>1 DEF Anew
<1>5. PICK m : m = IF Plain(k) \/ Anew(u, i, k) THEN FALSE ELSE u.mark[i]
  OBVIOUS
<1>6. PICK t : t = IF Plain(k) THEN 0 ELSE IF Anew(u, i, k) THEN given ELSE u.dur[i]
  OBVIOUS
<1>7. SetID(u, i, k) = Remade(u, i, k, m, t)
  <2>1. t = IF Plain(k) THEN 0 ELSE IF Anew(u, i, k) THEN Given(k) ELSE u.dur[i]
    BY <1>1, <1>6, Zenon
  <2> QED BY <1>5, <2>1, SetIDIs
<1>8. PICK e : e = IF u.dur[i] > 0 THEN u.dur[i] ELSE t
  OBVIOUS
<1>17. PICK w : w = SetID(u, i, k)
  OBVIOUS
<1>18. v = [w EXCEPT !.dur[i] = IF u.dur[i] > 0 THEN u.dur[i] ELSE w.dur[i]]
  BY <1>17 DEF Transformed
<1>9. v = [u EXCEPT !.kind = [u.kind EXCEPT ![i] = k], !.mark = [u.mark EXCEPT ![i] = m],
                    !.dur = [u.dur EXCEPT ![i] = e]]
  <2>1. PICK a, b, c, z : /\ a = [u.kind EXCEPT ![i] = k] /\ b = [u.mark EXCEPT ![i] = m]
                          /\ c = [u.dur EXCEPT ![i] = t] /\ z = [u.dur EXCEPT ![i] = e]
    OBVIOUS
  <2>2. w = [u EXCEPT !.kind = a, !.mark = b, !.dur = c]
    BY <1>7, <1>17, <2>1, Zenon DEF Remade
  <2>3. w.dur = c /\ c[i] = t /\ z = [c EXCEPT ![i] = e]
    <3>1. u.dur \in [Objects -> Durations]
      BY DEF DecayStates
    <3>2. c[i] = t /\ z = [c EXCEPT ![i] = e]
      BY <2>1, <3>1
    <3>3. w.dur = c
      BY <2>2 DEF DecayStates
    <3> QED BY <3>2, <3>3
  <2>4. v = [w EXCEPT !.dur = z]
    BY <1>8, <1>18, <2>3
  <2>5. v = [u EXCEPT !.kind = a, !.mark = b, !.dur = z]
    BY <2>2, <2>4 DEF DecayStates
  <2> QED BY <2>1, <2>5, Zenon
<1>10. u.dur[i] \in Durations /\ u.dur[i] \in Nat /\ u.mark[i] \in BOOLEAN
  BY DurationsAre DEF DecayStates
<1>11. e \in Durations /\ m \in BOOLEAN
  <2>1. 0 \in Durations
    BY DurationsAre, Zenon
  <2>2. t = 0 \/ t = given \/ t = u.dur[i]
    BY <1>6, Zenon
  <2>3. t \in Durations
    BY <1>2, <1>10, <2>1, <2>2, Zenon
  <2>4. e = u.dur[i] \/ e = t
    BY <1>8, Zenon
  <2>5. m = FALSE \/ m = u.mark[i]
    BY <1>5, Zenon
  <2>6. m \in BOOLEAN
    BY <1>10, <2>5
  <2> QED BY <1>10, <2>3, <2>4, <2>6, Zenon
<1>12. m => u.mark[i] /\ e = u.dur[i]
  BY <1>5, <1>6, <1>8, <1>10
<1>13. DecayTime[k] > 0 => e > 0
  BY <1>2, <1>3, <1>4, <1>6, <1>8, <1>10
<1>14. v \in DecayStates
  <2>1. PICK a, b, c : a = [u.kind EXCEPT ![i] = k] /\ b = [u.mark EXCEPT ![i] = m] /\ c = [u.dur EXCEPT ![i] = e]
    OBVIOUS
  <2>2. a \in [Objects -> Kinds \union {Never}] /\ b \in [Objects -> BOOLEAN] /\ c \in [Objects -> Durations]
    BY <1>11, <2>1 DEF DecayStates
  <2>3. v = [u EXCEPT !.kind = a, !.mark = b, !.dur = c]
    BY <1>9, <2>1 DEF DecayStates
  <2> QED BY <2>2, <2>3 DEF DecayStates
<1>15. /\ v.held = u.held /\ v.released = u.released /\ v.refs = u.refs
       /\ v.asked = u.asked /\ v.spent = u.spent /\ v.copied = u.copied
       /\ v.bucket = u.bucket /\ v.toDecay = u.toDecay /\ v.last = u.last
       /\ v.kind[i] = k /\ v.dur[i] = e /\ v.mark[i] = m
       /\ \A j \in Objects \ {i} : v.kind[j] = u.kind[j] /\ v.mark[j] = u.mark[j] /\ v.dur[j] = u.dur[j]
  BY <1>9 DEF DecayStates
<1>16. \A j \in Objects \ {i} : SameFields(u, v, j)
  BY <1>15 DEF SameFields
<1>19. \A j \in Objects : SameLists(u, v, j)
  BY <1>15 DEF SameLists
<1> QED BY <1>12, <1>13, <1>14, <1>15, <1>16, <1>19 DEF OnlyThese, IsRetyped

\* An item is off a bucket, or on another.
IsOff(u, v, i, b) ==
  /\ OnlyThese(u, v, {i}) /\ SameFields(u, v, i)
  /\ v.toDecay = u.toDecay /\ Times(v.bucket[b], i) = Times(u.bucket[b], i) - 1
  /\ \A c \in Buckets \ {b} : v.bucket[c] = u.bucket[c]
  /\ Listings(v, i) = Listings(u, i) - 1 /\ v.refs = u.refs /\ v.held = u.held

\* Taking an item off its bucket does just that.
LEMMA OffBucketIs ==
  ASSUME NEW u \in DecayStates, NEW i \in Objects, NEW b \in Buckets, Times(u.bucket[b], i) > 0,
         NEW v, v = [u EXCEPT !.bucket[b] = RemoveFirst(u.bucket[b], i)]
  PROVE  IsOff(u, v, i, b)
<1>1. u.bucket[b] \in Seq(Objects)
  BY DEF DecayStates
<1>2. PICK q : q = RemoveFirst(u.bucket[b], i)
  OBVIOUS
<1>3. q \in Seq(Objects) /\ \A j : Times(q, j) = Times(u.bucket[b], j) - IF i = j THEN 1 ELSE 0
  BY <1>1, <1>2, TimesRemoved
<1>4. v \in DecayStates
  <2>1. PICK f : f = [u.bucket EXCEPT ![b] = q]
    OBVIOUS
  <2>2. f \in [Buckets -> Seq(Objects)]
    BY <1>3, <2>1 DEF DecayStates
  <2>3. v = [u EXCEPT !.bucket = f]
    BY <1>2, <2>1 DEF DecayStates
  <2> QED BY <2>2, <2>3 DEF DecayStates
<1>5. /\ v.kind = u.kind /\ v.held = u.held /\ v.dur = u.dur /\ v.mark = u.mark /\ v.refs = u.refs
      /\ v.asked = u.asked /\ v.spent = u.spent /\ v.copied = u.copied /\ v.released = u.released
      /\ v.toDecay = u.toDecay /\ v.last = u.last
      /\ v.bucket[b] = q /\ \A c \in Buckets \ {b} : v.bucket[c] = u.bucket[c]
  <2>1. PICK f : f = [u.bucket EXCEPT ![b] = q]
    OBVIOUS
  <2>2. v = [u EXCEPT !.bucket = f]
    BY <1>2, <2>1, Zenon
  <2>3. u.bucket \in [Buckets -> Seq(Objects)]
    BY DEF DecayStates
  <2>4. f[b] = q /\ \A c \in Buckets \ {b} : f[c] = u.bucket[c]
    BY <2>1, <2>3
  <2> QED BY <2>2, <2>4 DEF DecayStates
<1>6. \A j \in Objects : SameFields(u, v, j)
  BY <1>5 DEF SameFields
<1>7. \A j : \A c \in Buckets : Times(u.bucket[c], j) \in Nat
  BY ListingsAre
<1>8. \A j \in Objects \ {i} : SameLists(u, v, j)
  <2>1. TAKE j \in Objects \ {i}
  <2>2. Times(q, j) = Times(u.bucket[b], j)
    <3>1. Times(q, j) = Times(u.bucket[b], j) - IF i = j THEN 1 ELSE 0
      BY <1>3, Zenon
    <3>2. PICK x : x = Times(u.bucket[b], j)
      OBVIOUS
    <3>3. x \in Nat /\ i # j
      BY <1>7, <3>2
    <3>4. Times(q, j) = x - IF i = j THEN 1 ELSE 0
      BY <3>1, <3>2, Zenon
    <3>5. Times(q, j) = x - 0
      BY <3>3, <3>4, Zenon
    <3> QED BY <3>2, <3>3, <3>5
  <2>3. ASSUME NEW c \in Buckets
        PROVE  Times(v.bucket[c], j) = Times(u.bucket[c], j)
    <3>1. CASE c = b
      BY <1>5, <2>2, <3>1, Zenon
    <3>2. CASE c # b
      BY <1>5, <3>2, Zenon
    <3> QED BY <3>1, <3>2
  <2>4. Times(v.toDecay, j) = Times(u.toDecay, j)
    BY <1>5, Zenon
  <2> QED BY <2>3, <2>4, Zenon DEF SameLists
<1>9. Times(v.bucket[b], i) = Times(u.bucket[b], i) - 1
  BY <1>3, <1>5
<1>10. /\ Listings(u, i) = Times(u.toDecay, i) + Times(u.bucket[0], i) + Times(u.bucket[1], i)
                             + Times(u.bucket[2], i) + Times(u.bucket[3], i)
       /\ Times(u.toDecay, i) \in Nat
  BY ListingsAre
<1>11. Listings(v, i) = Times(v.toDecay, i) + Times(v.bucket[0], i) + Times(v.bucket[1], i)
                             + Times(v.bucket[2], i) + Times(v.bucket[3], i)
  BY <1>4, ListingsAre
<1>12. \A c \in Buckets \ {b} : Times(v.bucket[c], i) = Times(u.bucket[c], i)
  BY <1>5
<1>13. Listings(v, i) = Listings(u, i) - 1
  <2>1. PICK t \in Nat, t0 \in Nat, t1 \in Nat, t2 \in Nat, t3 \in Nat :
          t = Times(u.toDecay, i) /\ t0 = Times(u.bucket[0], i) /\ t1 = Times(u.bucket[1], i)
          /\ t2 = Times(u.bucket[2], i) /\ t3 = Times(u.bucket[3], i)
    BY <1>7, <1>10, BucketsAre
  <2>2. b = 0 \/ b = 1 \/ b = 2 \/ b = 3
    BY BucketsAre
  <2>3. Times(v.toDecay, i) = t
    BY <1>5, <2>1
  <2>4. CASE b = 0
    BY <1>9, <1>10, <1>11, <1>12, <2>1, <2>3, <2>4, BucketsAre
  <2>5. CASE b = 1
    BY <1>9, <1>10, <1>11, <1>12, <2>1, <2>3, <2>5, BucketsAre
  <2>6. CASE b = 2
    BY <1>9, <1>10, <1>11, <1>12, <2>1, <2>3, <2>6, BucketsAre
  <2>7. CASE b = 3
    BY <1>9, <1>10, <1>11, <1>12, <2>1, <2>3, <2>7, BucketsAre
  <2> QED BY <2>2, <2>4, <2>5, <2>6, <2>7
<1> QED BY <1>4, <1>5, <1>6, <1>8, <1>9, <1>13 DEF IsOff, OnlyThese

\* What is listed of an item is a number, and an item that is listed once is in one
\* list only.
LEMMA ListingsTyped ==
  ASSUME NEW u \in DecayStates, NEW i
  PROVE  /\ Listings(u, i) \in Nat /\ Times(u.toDecay, i) \in Nat /\ Times(u.toDecay, i) <= Listings(u, i)
         /\ \A b \in Buckets : Times(u.bucket[b], i) \in Nat
                               /\ Times(u.bucket[b], i) + Times(u.toDecay, i) <= Listings(u, i)
<1>1. /\ Listings(u, i) = Times(u.toDecay, i) + Times(u.bucket[0], i) + Times(u.bucket[1], i)
                             + Times(u.bucket[2], i) + Times(u.bucket[3], i)
      /\ Times(u.toDecay, i) \in Nat /\ \A b \in Buckets : Times(u.bucket[b], i) \in Nat
  BY ListingsAre
<1> QED BY <1>1, BucketsAre

\* An item that is not freed has a reference.
LEMMA NotFreed ==
  ASSUME NEW u \in DecayStates, NEW i \in Objects, NEW x \in Nat, Counted(u, i, x)
  PROVE  /\ u.refs[i] \in Nat
         /\ u.held[i] \/ Listings(u, i) > 0 \/ u.released[i] > 0 \/ x > 0 => u.refs[i] > 0
         /\ u.refs[i] = 0 => Listings(u, i) = 0 /\ u.released[i] = 0
<1>1. Listings(u, i) \in Nat /\ u.released[i] \in Nat /\ u.held[i] \in BOOLEAN
  BY ListingsTyped DEF DecayStates
<1>2. u.refs[i] = (IF u.held[i] THEN 1 ELSE 0) + Listings(u, i) + u.released[i] + x
  BY DEF Counted
<1> QED BY <1>1, <1>2

\* startDecay lists an item that decays; what decays has time left.
ListedIfDue(u, i) == IF Decays(u, i) THEN PutInBucket(u, i) ELSE u

\* An item that decays has time left, so startDecay can do no more.
LEMMA StartedIs ==
  ASSUME NEW u, NEW i, Lasting(u, i)
  PROVE  Started(u, i) = ListedIfDue(u, i)
BY DEF Started, ListedIfDue, Decays, Lasting

\* Listing an item leaves it as good, and the others as they were.
LEMMA ListedGood ==
  ASSUME NEW u \in DecayStates, NEW i \in Objects, NEW v, v = ListedIfDue(u, i),
         NEW x \in Nat, Counted(u, i, x), Lasting(u, i), Awaited(u, i),
         NEW l, NEW g \in Nat, NEW m, InTime(u, i, l, g, m)
  PROVE  /\ OnlyThese(u, v, {i})
         /\ Counted(v, i, x) /\ Lasting(v, i) /\ Awaited(v, i) /\ InTime(v, i, l, g, m)
         /\ v.held = u.held /\ v.bucket = u.bucket /\ FreeIn(v) = FreeIn(u)
<1>1. CASE ~Decays(u, i)
  <2>1. v = u
    BY <1>1 DEF ListedIfDue
  <2>2. OnlyThese(u, v, {i})
    BY <2>1 DEF OnlyThese, SameFields, SameLists
  <2> QED BY <2>1, <2>2
<1>2. CASE Decays(u, i)
  <2>1. v = PutInBucket(u, i)
    BY <1>2 DEF ListedIfDue
  <2>2. /\ OnlyThese(u, v, {i})
        /\ v.kind[i] = u.kind[i] /\ v.held[i] = u.held[i] /\ v.dur[i] = u.dur[i] /\ v.mark[i]
        /\ v.refs[i] = u.refs[i] + 1 /\ v.released[i] = u.released[i]
        /\ v.asked[i] = (IF Listings(u, i) = 0 THEN u.dur[i] ELSE 0) /\ v.spent[i] = 0 /\ ~v.copied[i]
        /\ Times(v.toDecay, i) = Times(u.toDecay, i) + 1
        /\ v.held = u.held /\ v.bucket = u.bucket
        /\ Listings(v, i) = Listings(u, i) + 1 /\ \A j \in Objects \ {i} : v.refs[j] = u.refs[j]
    BY <2>1, PutInBucketIs
  <2>3. u.held[i] /\ CanDecay(u, i) /\ ~u.mark[i]
    BY <1>2 DEF Decays, CanDecay
  <2>4. u.refs[i] \in Nat /\ u.refs[i] > 0
    BY <2>3, NotFreed
  <2>5. /\ Listings(u, i) \in Nat /\ Times(u.toDecay, i) \in Nat /\ Times(u.toDecay, i) <= Listings(u, i)
        /\ \A b \in Buckets : Times(u.bucket[b], i) \in Nat
                              /\ Times(u.bucket[b], i) + Times(u.toDecay, i) <= Listings(u, i)
    BY ListingsTyped
  <2>6. Counted(v, i, x)
    <3>1. v.refs[i] = (IF v.held[i] THEN 1 ELSE 0) + Listings(v, i) + v.released[i] + x
      <4>1. u.refs[i] = 1 + Listings(u, i) + u.released[i] + x /\ u.released[i] \in Nat
        BY <2>3 DEF Counted, DecayStates
      <4> QED BY <2>2, <2>3, <2>5, <4>1
    <3>2. v.held[i] => v.kind[i] \in Kinds
      BY <2>2 DEF Counted
    <3>3. v.refs[i] # 0
      BY <2>2, <2>4
    <3>4. v.asked[i] > 0 => Listings(v, i) <= 1
      BY <2>2, <2>5
    <3> QED BY <3>1, <3>2, <3>3, <3>4 DEF Counted
  <2>7. Lasting(v, i)
    BY <2>2 DEF Lasting, CanDecay
  <2>8. Awaited(v, i)
    BY <2>2, <2>5 DEF Awaited
  <2>9. InTime(v, i, l, g, m)
    <3> SUFFICES ASSUME v.asked[i] > 0
                 PROVE  /\ v.dur[i] = v.asked[i] /\ v.spent[i] <= g
                        /\ \A c \in Buckets : Times(v.bucket[c], i) # 1
      BY DEF InTime
    <3>1. Listings(u, i) = 0
      BY <2>2
    <3>2. \A c \in Buckets : Times(u.bucket[c], i) = 0
      BY <2>5, <3>1
    <3> QED BY <2>2, <3>1, <3>2
  <2>10. FreeIn(v) = FreeIn(u)
    BY <2>2, <2>4 DEF FreeIn
  <2> QED BY <2>2, <2>6, <2>7, <2>8, <2>9, <2>10
<1> QED BY <1>1, <1>2

\* No object is lost or won, and no item comes into the world but one that takes the
\* place of item i.
Swapped(u, v, i) ==
  \/ FreeIn(v) = FreeIn(u) /\ HeldIn(v) \subseteq HeldIn(u)
  \/ \E n \in FreeIn(u) :
       /\ FreeIn(v) = FreeIn(u) \ {n} /\ i \in HeldIn(u) /\ i # n
       /\ HeldIn(v) = (HeldIn(u) \ {i}) \union {n}

\* The items other than i are as good as they were.
OthersGood(u, v, i, l, g) ==
  \A j \in Objects \ {i} : \A q : Good(u, j, l, g, q) => Good(v, j, l, g, q)

\* Item i, of whose references x are held elsewhere, is good.
Fine(u, i, x, l, g, m) == Counted(u, i, x) /\ Lasting(u, i) /\ Awaited(u, i) /\ InTime(u, i, l, g, m)

\* Free objects carry nothing of an earlier life.
AllFresh(u) == FreeIn(u) # {} /\ \A j \in FreeIn(u) : Counted(u, j, 0)

\* A new item is good, and the others are as they were.
LEMMA CreatedGood ==
  ASSUME NEW u \in DecayStates, AllFresh(u), NEW k \in Kinds, NEW v, v = Created(u, k),
         NEW n, n = NewObject(u), NEW l, NEW g, NEW m
  PROVE  /\ n \in FreeIn(u) /\ OnlyThese(u, v, {n}) /\ SameLists(u, v, n) /\ v.bucket = u.bucket
         /\ v.held[n] /\ v.kind[n] = k /\ ~v.mark[n] /\ v.asked[n] = 0 /\ v.refs[n] = 1
         /\ ~v.copied[n] /\ Listings(v, n) = 0 /\ v.released[n] = 0
         /\ Good(v, n, l, g, m)
         /\ FreeIn(v) = FreeIn(u) \ {n} /\ HeldIn(v) = HeldIn(u) \union {n} /\ n \notin HeldIn(u)
<1>1. /\ n \in Objects /\ u.refs[n] = 0
      /\ OnlyThese(u, v, {n}) /\ SameLists(u, v, n)
      /\ v.kind[n] = k /\ v.held[n] /\ v.dur[n] = 1000 * DecayTime[k] /\ v.mark[n] = u.mark[n]
      /\ v.refs[n] = 1 /\ v.released[n] = u.released[n]
      /\ v.asked[n] = u.asked[n] /\ v.spent[n] = u.spent[n] /\ v.copied[n] = u.copied[n]
      /\ v.bucket = u.bucket /\ v.toDecay = u.toDecay
  BY CreatedIs DEF AllFresh
<1>2. n \in FreeIn(u) /\ Counted(u, n, 0)
  BY <1>1 DEF AllFresh, FreeIn
<1>3. ~u.mark[n] /\ ~u.copied[n] /\ u.asked[n] = 0
  BY <1>1, <1>2 DEF Counted
<1>4. Listings(u, n) = 0 /\ u.released[n] = 0 /\ ~u.held[n]
  BY <1>1, <1>2, NotFreed
<1>5. v \in DecayStates
  BY <1>1 DEF OnlyThese
<1>6. Listings(v, n) = 0
  BY <1>1, <1>4, <1>5, SameListings
<1>7. Counted(v, n, 0)
  BY <1>1, <1>3, <1>4, <1>6 DEF Counted
<1>8. Lasting(v, n)
  <2>1. DecayTime[k] \in Nat
    BY DecayAssumption
  <2> QED BY <1>1, <2>1 DEF Lasting, CanDecay
<1>9. Awaited(v, n) /\ InTime(v, n, l, g, m)
  BY <1>1, <1>3 DEF Awaited, InTime
<1>10. FreeIn(v) = FreeIn(u) \ {n} /\ HeldIn(v) = HeldIn(u) \union {n} /\ n \notin HeldIn(u)
  BY <1>1, <1>4 DEF FreeIn, HeldIn, OnlyThese, SameFields
<1> QED BY <1>1, <1>2, <1>3, <1>4, <1>6, <1>7, <1>8, <1>9, <1>10 DEF Good

\* An item that leaves the world is as good, and the others are as they were.
LEMMA RemovedGood ==
  ASSUME NEW u \in DecayStates, NEW i \in Objects, u.held[i], NEW v, v = Removed(u, i),
         NEW x \in Nat, NEW l, NEW g, NEW m, Counted(u, i, x), InTime(u, i, l, g, m)
  PROVE  /\ OnlyThese(u, v, {i}) /\ SameLists(u, v, i) /\ v.bucket = u.bucket /\ v.refs = u.refs
         /\ Fine(v, i, x, l, g, m) /\ ~v.held[i]
         /\ FreeIn(v) = FreeIn(u) /\ HeldIn(v) = HeldIn(u) \ {i}
<1>0. IsRemoved(u, v, i)
  BY RemovedIs
<1>1. /\ OnlyThese(u, v, {i}) /\ SameLists(u, v, i)
      /\ v.kind[i] = u.kind[i] /\ ~v.held[i] /\ v.dur[i] = u.dur[i] /\ v.mark[i] = u.mark[i]
      /\ v.refs = u.refs /\ v.released[i] = u.released[i] + 1
      /\ v.asked[i] = u.asked[i] /\ v.spent[i] = u.spent[i] /\ v.copied[i] = u.copied[i]
      /\ v.bucket = u.bucket /\ v.toDecay = u.toDecay
  BY <1>0 DEF IsRemoved
<1>2. v \in DecayStates
  BY <1>1 DEF OnlyThese
<1>3. Listings(v, i) = Listings(u, i) /\ Listings(u, i) \in Nat /\ u.released[i] \in Nat
  BY <1>1, <1>2, SameListings, ListingsTyped DEF DecayStates
<1>4. v.refs[i] = (IF v.held[i] THEN 1 ELSE 0) + Listings(v, i) + v.released[i] + x
  <2>1. u.refs[i] = 1 + Listings(u, i) + u.released[i] + x
    BY DEF Counted
  <2> QED BY <1>1, <1>3, <2>1
<1>5. Counted(v, i, x)
  BY <1>1, <1>3, <1>4 DEF Counted
<1>6. Lasting(v, i) /\ Awaited(v, i)
  BY <1>1 DEF Lasting, Awaited, CanDecay
<1>7. InTime(v, i, l, g, m)
  BY <1>1 DEF InTime, TurnsInAll, SameLists
<1>8. FreeIn(v) = FreeIn(u) /\ HeldIn(v) = HeldIn(u) \ {i}
  BY <1>1 DEF FreeIn, HeldIn, OnlyThese, SameFields
<1> QED BY <1>1, <1>5, <1>6, <1>7, <1>8 DEF Fine

\* What only some items have changed in is good for the others.
LEMMA OthersAreGood ==
  ASSUME NEW u, NEW v, NEW i, OnlyThese(u, v, {i}), NEW l, NEW g
  PROVE  OthersGood(u, v, i, l, g)
BY SameIsGood DEF OthersGood, OnlyThese

\* The others stay good over two steps.
LEMMA GoodOn ==
  ASSUME NEW u, NEW v, NEW w, NEW i, NEW l, NEW g, OthersGood(u, v, i, l, g), OthersGood(v, w, i, l, g)
  PROVE  OthersGood(u, w, i, l, g)
BY DEF OthersGood

\* What is left of item i is good, and so are the others.
Passed(u, v, i, x, l, g, m) ==
  /\ v \in DecayStates /\ v.last = u.last /\ v.bucket = u.bucket
  /\ Fine(v, i, x, l, g, m) /\ OthersGood(u, v, i, l, g) /\ Swapped(u, v, i)

\* So is n, which item i becomes.
Became(u, v, i, n, x, l, g, m) ==
  /\ Passed(u, v, i, x, l, g, m)
  /\ n \in Objects /\ (n # i => n \in FreeIn(u) /\ \A q : Good(v, n, l, g, q))

\* transformItem leaves all items good, what the item becomes among them.
LEMMA TransformedGood ==
  ASSUME NEW u \in DecayStates, NEW i \in Objects, u.held[i], AllFresh(u), NEW k \in Kinds,
         NEW v, v = Transformed(u, i, k), NEW n, n = Becomes(u, i, k),
         NEW x \in Nat, NEW l, NEW g, NEW m,
         Counted(u, i, x), Awaited(u, i), InTime(u, i, l, g, m)
  PROVE  Became(u, v, i, n, x, l, g, m) /\ \A j \in Objects : SameLists(u, v, j)
<1>1. CASE TypeOf[u.kind[i]] = TypeOf[k]
  <2>1. n = i
    BY <1>1 DEF Becomes
  <2>2. IsRetyped(u, v, i, k)
    BY <1>1, RetypedIs
  <2>3. v \in DecayStates /\ v.last = u.last /\ v.bucket = u.bucket
    BY <2>2 DEF IsRetyped, OnlyThese
  <2>4. OnlyThese(u, v, {i}) /\ SameLists(u, v, i)
    BY <2>2 DEF IsRetyped
  <2>5. OthersGood(u, v, i, l, g)
    BY <2>4, OthersAreGood
  <2>6. \A j \in Objects : SameLists(u, v, j)
    BY <2>4 DEF OnlyThese
  <2>7. Listings(v, i) = Listings(u, i)
    BY <2>3, <2>4, SameListings
  <2>8. Counted(v, i, x)
    BY <2>2, <2>7 DEF Counted, IsRetyped
  <2>9. Lasting(v, i)
    BY <2>2 DEF Lasting, CanDecay, IsRetyped
  <2>10. Awaited(v, i)
    BY <2>2, <2>7 DEF Awaited, IsRetyped
  <2>11. InTime(v, i, l, g, m)
    BY <2>2 DEF InTime, TurnsInAll, IsRetyped, SameLists
  <2>12. FreeIn(v) = FreeIn(u) /\ HeldIn(v) = HeldIn(u)
    BY <2>2 DEF IsRetyped, FreeIn, HeldIn
  <2>13. Fine(v, i, x, l, g, m)
    BY <2>8, <2>9, <2>10, <2>11 DEF Fine
  <2>14. Swapped(u, v, i)
    BY <2>12 DEF Swapped
  <2> QED BY <2>1, <2>3, <2>5, <2>6, <2>13, <2>14 DEF Became, Passed
<1>2. CASE TypeOf[u.kind[i]] # TypeOf[k]
  <2>1. n = NewObject(u)
    BY <1>2 DEF Becomes
  <2>2. PICK w : w = Created(u, k)
    OBVIOUS
  <2>3. v = Removed(w, i)
    BY <1>2, <2>2 DEF Transformed
  <2>4. \A q : /\ n \in FreeIn(u) /\ OnlyThese(u, w, {n}) /\ SameLists(u, w, n) /\ w.bucket = u.bucket
               /\ Good(w, n, l, g, q)
               /\ FreeIn(w) = FreeIn(u) \ {n} /\ HeldIn(w) = HeldIn(u) \union {n} /\ n \notin HeldIn(u)
    BY <2>1, <2>2, CreatedGood
  <2>5. i \in HeldIn(u) /\ n # i /\ n \in Objects
    BY <2>4 DEF HeldIn, FreeIn
  <2>6. w \in DecayStates /\ w.last = u.last /\ SameFields(u, w, i) /\ SameLists(u, w, i) /\ w.held[i]
    BY <2>4, <2>5 DEF OnlyThese, SameFields
  <2>7. Counted(w, i, x) /\ InTime(w, i, l, g, m)
    BY <2>6, SameIsGood
  <2>8. /\ OnlyThese(w, v, {i}) /\ SameLists(w, v, i) /\ v.bucket = w.bucket
        /\ Fine(v, i, x, l, g, m)
        /\ FreeIn(v) = FreeIn(w) /\ HeldIn(v) = HeldIn(w) \ {i}
    BY <2>3, <2>6, <2>7, RemovedGood
  <2>9. v \in DecayStates /\ v.last = u.last /\ v.bucket = u.bucket
    BY <2>4, <2>6, <2>8 DEF OnlyThese
  <2>10. SameFields(w, v, n) /\ SameLists(w, v, n)
    BY <2>5, <2>8 DEF OnlyThese
  <2>11. \A q : Good(v, n, l, g, q)
    BY <2>4, <2>6, <2>9, <2>10, SameIsGood
  <2>12. OthersGood(u, v, i, l, g)
    <3>1. OthersGood(w, v, i, l, g)
      BY <2>8, OthersAreGood
    <3>2. OthersGood(u, w, i, l, g)
      <4>1. \A j \in Objects \ {n} : SameFields(u, w, j) /\ SameLists(u, w, j)
        BY <2>4 DEF OnlyThese
      <4>2. \A j \in Objects \ {n} : \A q : Good(u, j, l, g, q) => Good(w, j, l, g, q)
        BY <2>6, <4>1, SameIsGood
      <4> QED BY <2>4, <4>2 DEF OthersGood
    <3> QED BY <3>1, <3>2, GoodOn
  <2>13. \A j \in Objects : SameLists(u, v, j)
    <3>1. \A j \in Objects : SameLists(u, w, j)
      BY <2>4 DEF OnlyThese
    <3>2. \A j \in Objects : SameLists(w, v, j)
      BY <2>8 DEF OnlyThese
    <3> QED BY <3>1, <3>2 DEF SameLists
  <2>14. Swapped(u, v, i)
    <3>1. FreeIn(v) = FreeIn(u) \ {n} /\ HeldIn(v) = (HeldIn(u) \ {i}) \union {n}
      BY <2>4, <2>5, <2>8
    <3> QED BY <2>4, <2>5, <3>1 DEF Swapped
  <2> QED BY <2>4, <2>5, <2>8, <2>9, <2>11, <2>12, <2>13, <2>14 DEF Became, Passed
<1> QED BY <1>1, <1>2

\* It may be listed then.
LEMMA BecameListed ==
  ASSUME NEW u \in DecayStates, NEW v, NEW i \in Objects, NEW n, NEW x \in Nat, NEW l, NEW g \in Nat, NEW m,
         Became(u, v, i, n, x, l, g, m), NEW w, w = ListedIfDue(v, n)
  PROVE  Became(u, w, i, n, x, l, g, m)
<1>1. /\ v \in DecayStates /\ v.last = u.last /\ v.bucket = u.bucket
      /\ Fine(v, i, x, l, g, m) /\ OthersGood(u, v, i, l, g) /\ Swapped(u, v, i)
      /\ n \in Objects /\ (n # i => n \in FreeIn(u) /\ \A q : Good(v, n, l, g, q))
  BY DEF Became, Passed
<1>2. ASSUME OnlyThese(v, w, {n}), w.held = v.held, w.bucket = v.bucket, FreeIn(w) = FreeIn(v)
      PROVE  /\ w \in DecayStates /\ w.last = u.last /\ w.bucket = u.bucket /\ Swapped(u, w, i)
  BY <1>1, <1>2 DEF OnlyThese, Swapped, HeldIn
<1>3. CASE n = i
  <2>1. /\ OnlyThese(v, w, {i}) /\ w.held = v.held /\ w.bucket = v.bucket /\ FreeIn(w) = FreeIn(v)
        /\ Counted(w, i, x) /\ Lasting(w, i) /\ Awaited(w, i) /\ InTime(w, i, l, g, m)
    BY <1>1, <1>3, ListedGood DEF Fine
  <2>2. OthersGood(u, w, i, l, g)
    BY <1>1, <2>1, OthersAreGood, GoodOn
  <2> QED BY <1>1, <1>2, <1>3, <2>1, <2>2 DEF Became, Passed, Fine
<1>4. CASE n # i
  <2>0. \A q : Counted(v, n, 0) /\ Lasting(v, n) /\ Awaited(v, n) /\ InTime(v, n, l, g, q)
    BY <1>1, <1>4 DEF Good
  <2>1. PICK z \in Nat : z = 0
    OBVIOUS
  <2>2. \A q : Counted(v, n, z) /\ Lasting(v, n) /\ Awaited(v, n) /\ InTime(v, n, l, g, q)
    BY <2>0, <2>1
  <2>3. \A q : /\ OnlyThese(v, w, {n}) /\ w.held = v.held /\ w.bucket = v.bucket /\ FreeIn(w) = FreeIn(v)
               /\ Counted(w, n, z) /\ Lasting(w, n) /\ Awaited(w, n) /\ InTime(w, n, l, g, q)
    BY <1>1, <2>2, ListedGood
  <2>4. \A q : Good(w, n, l, g, q)
    BY <2>1, <2>3 DEF Good
  <2>5. \A j \in Objects \ {n} : SameFields(v, w, j) /\ SameLists(v, w, j)
    BY <2>3 DEF OnlyThese
  <2>6. w \in DecayStates
    BY <2>3 DEF OnlyThese
  <2>7. \A j \in Objects \ {n} : \A q : Good(v, j, l, g, q) => Good(w, j, l, g, q)
    BY <1>1, <2>5, <2>6, SameIsGood
  <2>8. OthersGood(u, w, i, l, g)
    BY <1>1, <2>4, <2>7 DEF OthersGood
  <2>9. Fine(w, i, x, l, g, m)
    BY <1>1, <1>4, <2>5, <2>6, SameIsGood DEF Fine
  <2> QED BY <1>1, <1>2, <1>4, <2>3, <2>4, <2>8, <2>9 DEF Became, Passed
<1> QED BY <1>3, <1>4

\* An item whose time is over changes, or leaves the world.
LEMMA DecayedGood ==
  ASSUME NEW u \in DecayStates, NEW i \in Objects, CanDecay(u, i), AllFresh(u),
         NEW v, v = Decayed(u, i), NEW x \in Nat, NEW l, NEW g \in Nat, NEW m,
         Counted(u, i, x), Awaited(u, i), InTime(u, i, l, g, m)
  PROVE  Passed(u, v, i, x, l, g, m)
<1>1. u.held[i] /\ u.kind[i] \in Kinds /\ DecayTo[u.kind[i]] \in Kinds \union {Gone}
  BY DecayAssumption DEF CanDecay, Counted
<1>2. PICK k : k = DecayTo[u.kind[i]]
  OBVIOUS
<1>3. CASE k = Gone
  <2>1. v = Removed(u, i)
    BY <1>2, <1>3 DEF Decayed
  <2>2. /\ OnlyThese(u, v, {i}) /\ v.bucket = u.bucket
        /\ Fine(v, i, x, l, g, m)
        /\ FreeIn(v) = FreeIn(u) /\ HeldIn(v) = HeldIn(u) \ {i}
    BY <1>1, <2>1, RemovedGood
  <2>3. OthersGood(u, v, i, l, g)
    BY <2>2, OthersAreGood
  <2>4. HeldIn(v) \subseteq HeldIn(u)
    BY <2>2
  <2> QED BY <2>2, <2>3, <2>4 DEF Passed, OnlyThese, Swapped
<1>4. CASE k # Gone
  <2>1. k \in Kinds
    BY <1>1, <1>2, <1>4
  <2>2. PICK w : w = Transformed(u, i, k)
    OBVIOUS
  <2>3. PICK n : n = Becomes(u, i, k)
    OBVIOUS
  <2>4. Became(u, w, i, n, x, l, g, m)
    BY <1>1, <2>1, <2>2, <2>3, TransformedGood
  <2>5. v = ListedIfDue(w, n)
    BY <1>2, <1>4, <2>2, <2>3 DEF Decayed, ListedIfDue
  <2>6. Became(u, v, i, n, x, l, g, m)
    BY <2>4, <2>5, BecameListed
  <2> QED BY <2>6 DEF Became
<1> QED BY <1>3, <1>4

\* The reference held elsewhere becomes one to be given back.
LEMMA ReleasedGood ==
  ASSUME NEW u \in DecayStates, NEW i \in Objects, NEW v, v = Released(u, i),
         NEW l, NEW g, NEW m, Fine(u, i, 1, l, g, m)
  PROVE  /\ OnlyThese(u, v, {i}) /\ SameLists(u, v, i) /\ v.bucket = u.bucket
         /\ Good(v, i, l, g, m) /\ FreeIn(v) = FreeIn(u) /\ HeldIn(v) = HeldIn(u)
<1>0. IsReleased(u, v, i)
  BY ReleasedIs
<1>1. /\ OnlyThese(u, v, {i}) /\ SameLists(u, v, i) /\ v.bucket = u.bucket
      /\ FreeIn(v) = FreeIn(u) /\ HeldIn(v) = HeldIn(u)
  BY <1>0 DEF IsReleased, FreeIn, HeldIn
<1>2. Listings(v, i) = Listings(u, i) /\ Listings(u, i) \in Nat /\ u.released[i] \in Nat
  BY <1>1, SameListings, ListingsTyped DEF OnlyThese, DecayStates
<1>3. Counted(v, i, 0)
  <2>1. Counted(u, i, 1)
    BY DEF Fine
  <2>2. PICK h \in Nat : h = IF u.held[i] THEN 1 ELSE 0
    OBVIOUS
  <2>3. u.refs[i] = h + Listings(u, i) + u.released[i] + 1
    BY <2>1, <2>2 DEF Counted
  <2>4. v.refs[i] = u.refs[i] /\ v.released[i] = u.released[i] + 1 /\ v.held[i] = u.held[i]
    BY <1>0 DEF IsReleased
  <2>5. v.refs[i] = h + Listings(v, i) + v.released[i] + 0
    BY <1>2, <2>3, <2>4
  <2> QED BY <1>0, <1>2, <2>1, <2>2, <2>5 DEF Counted, IsReleased
<1>4. Lasting(v, i)
  BY <1>0 DEF Lasting, CanDecay, IsReleased, Fine
<1>5. Awaited(v, i)
  BY <1>0, <1>2 DEF Awaited, IsReleased, Fine
<1>6. InTime(v, i, l, g, m)
  BY <1>0 DEF InTime, TurnsInAll, IsReleased, SameLists, Fine
<1> QED BY <1>1, <1>3, <1>4, <1>5, <1>6 DEF Good

\* An item has its mark or its duration changed.
ButFor(u, v, i) ==
  /\ OnlyThese(u, v, {i}) /\ SameLists(u, v, i)
  /\ v.kind[i] = u.kind[i] /\ v.held[i] = u.held[i] /\ v.refs[i] = u.refs[i]
  /\ v.released[i] = u.released[i] /\ v.asked[i] = u.asked[i] /\ v.spent[i] = u.spent[i]
  /\ v.copied[i] = u.copied[i] /\ v.bucket = u.bucket /\ FreeIn(v) = FreeIn(u) /\ HeldIn(v) = HeldIn(u)

\* Taking the mark off changes nothing else.
LEMMA UnmarkedIs ==
  ASSUME NEW u \in DecayStates, NEW i \in Objects, NEW v, v = [u EXCEPT !.mark[i] = FALSE]
  PROVE  ButFor(u, v, i) /\ ~v.mark[i] /\ v.dur[i] = u.dur[i]
<1>1. v \in DecayStates
  <2>1. PICK f : f = [u.mark EXCEPT ![i] = FALSE]
    OBVIOUS
  <2>2. f \in [Objects -> BOOLEAN]
    BY <2>1 DEF DecayStates
  <2>3. v = [u EXCEPT !.mark = f]
    BY <2>1 DEF DecayStates
  <2> QED BY <2>2, <2>3 DEF DecayStates
<1>2. /\ v.kind = u.kind /\ v.held = u.held /\ v.dur = u.dur /\ v.refs = u.refs /\ v.released = u.released
      /\ v.asked = u.asked /\ v.spent = u.spent /\ v.copied = u.copied
      /\ v.bucket = u.bucket /\ v.toDecay = u.toDecay /\ v.last = u.last /\ ~v.mark[i]
      /\ \A j \in Objects \ {i} : v.mark[j] = u.mark[j]
  BY DEF DecayStates
<1>3. \A j \in Objects : SameLists(u, v, j)
  BY <1>2 DEF SameLists
<1>4. \A j \in Objects \ {i} : SameFields(u, v, j)
  BY <1>2 DEF SameFields
<1>5. OnlyThese(u, v, {i})
  BY <1>1, <1>2, <1>3, <1>4 DEF OnlyThese
<1> QED BY <1>2, <1>3, <1>5 DEF ButFor, FreeIn, HeldIn

IsTimed(u, v, i, t) == ButFor(u, v, i) /\ v.mark[i] = u.mark[i] /\ v.dur[i] = t

\* Setting the time that is left changes nothing else.
LEMMA TimedIs ==
  ASSUME NEW u \in DecayStates, NEW i \in Objects, NEW t \in Durations, NEW v, v = [u EXCEPT !.dur[i] = t]
  PROVE  IsTimed(u, v, i, t)
<1>1. v \in DecayStates
  <2>1. PICK f : f = [u.dur EXCEPT ![i] = t]
    OBVIOUS
  <2>2. f \in [Objects -> Durations]
    BY <2>1 DEF DecayStates
  <2>3. v = [u EXCEPT !.dur = f]
    BY <2>1 DEF DecayStates
  <2> QED BY <2>2, <2>3 DEF DecayStates
<1>2. /\ v.kind = u.kind /\ v.held = u.held /\ v.mark = u.mark /\ v.refs = u.refs /\ v.released = u.released
      /\ v.asked = u.asked /\ v.spent = u.spent /\ v.copied = u.copied
      /\ v.bucket = u.bucket /\ v.toDecay = u.toDecay /\ v.last = u.last /\ v.dur[i] = t
      /\ \A j \in Objects \ {i} : v.dur[j] = u.dur[j]
  BY DEF DecayStates
<1>3. \A j \in Objects : SameLists(u, v, j)
  BY <1>2 DEF SameLists
<1>4. \A j \in Objects \ {i} : SameFields(u, v, j)
  BY <1>2 DEF SameFields
<1>5. OnlyThese(u, v, {i})
  BY <1>1, <1>2, <1>3, <1>4 DEF OnlyThese
<1> QED BY <1>2, <1>3, <1>5 DEF IsTimed, ButFor, FreeIn, HeldIn

\* An item whose time or mark has changed is taken off its bucket: the listing's
\* reference is held elsewhere.
OffForTurn(u, w, t, i, b) ==
  /\ t \in DecayStates /\ t.last = u.last /\ SameFields(w, t, i)
  /\ Counted(t, i, 1) /\ OthersGood(u, t, i, b, 1) /\ \A q : InTime(t, i, b, 1, q)
  /\ FreeIn(t) = FreeIn(u) /\ HeldIn(t) = HeldIn(u) /\ (AllFresh(u) => AllFresh(t))
  /\ \A j \in Objects : Times(t.bucket[b], j) = Times(u.bucket[b], j) - IF j = i THEN 1 ELSE 0

\* The item is taken off bucket b: its reference is held by the round, and no turn is owed.
LEMMA TakenGood ==
  ASSUME NEW u \in DecayStates, NEW i \in Objects, NEW b \in Buckets, Times(u.bucket[b], i) > 0,
         Good(u, i, b, 1, 4), NEW w, ButFor(u, w, i),
         NEW t, t = [w EXCEPT !.bucket[b] = RemoveFirst(w.bucket[b], i)]
  PROVE  OffForTurn(u, w, t, i, b)
<1>1. /\ w \in DecayStates /\ w.last = u.last /\ OnlyThese(u, w, {i}) /\ SameLists(u, w, i)
      /\ w.bucket = u.bucket /\ FreeIn(w) = FreeIn(u) /\ HeldIn(w) = HeldIn(u)
  BY DEF ButFor, OnlyThese
<1>2. Times(w.bucket[b], i) > 0
  BY <1>1
<1>3. IsOff(w, t, i, b)
  BY <1>1, <1>2, OffBucketIs
<1>4. /\ t \in DecayStates /\ t.last = u.last /\ SameFields(w, t, i) /\ OnlyThese(w, t, {i})
      /\ FreeIn(t) = FreeIn(u) /\ HeldIn(t) = HeldIn(u) /\ Listings(t, i) = Listings(w, i) - 1
  BY <1>1, <1>3 DEF IsOff, OnlyThese, FreeIn, HeldIn
<1>5. OthersGood(u, t, i, b, 1)
  BY <1>1, <1>4, OthersAreGood, GoodOn
<1>6. Listings(w, i) = Listings(u, i) /\ Listings(u, i) \in Nat /\ Listings(u, i) > 0
  <2>1. Listings(w, i) = Listings(u, i)
    BY <1>1, SameListings
  <2>2. /\ Listings(u, i) \in Nat /\ Times(u.toDecay, i) \in Nat
        /\ Times(u.bucket[b], i) \in Nat /\ Times(u.bucket[b], i) + Times(u.toDecay, i) <= Listings(u, i)
    BY ListingsTyped
  <2> QED BY <2>1, <2>2
<1>7. Counted(u, i, 0)
  BY DEF Good
<1>8. u.refs[i] > 0 /\ u.refs[i] \in Nat
  BY <1>6, <1>7, NotFreed
<1>9. /\ t.kind[i] = u.kind[i] /\ t.held[i] = u.held[i] /\ t.refs[i] = u.refs[i]
      /\ t.released[i] = u.released[i] /\ t.asked[i] = u.asked[i] /\ t.copied[i] = u.copied[i]
  BY <1>4 DEF ButFor, SameFields
<1>10. Counted(t, i, 1)
  <2>1. u.refs[i] = (IF u.held[i] THEN 1 ELSE 0) + Listings(u, i) + u.released[i]
        /\ u.released[i] \in Nat
    BY <1>6, <1>7 DEF Counted, DecayStates
  <2>2. t.refs[i] = (IF t.held[i] THEN 1 ELSE 0) + Listings(t, i) + t.released[i] + 1
    BY <1>4, <1>6, <1>9, <2>1
  <2>3. t.asked[i] > 0 => Listings(t, i) <= 1
    BY <1>4, <1>6, <1>7, <1>9 DEF Counted
  <2> QED BY <1>7, <1>8, <1>9, <2>2, <2>3 DEF Counted
<1>11. \A q : InTime(t, i, b, 1, q)
  <2>1. CASE t.asked[i] > 0
    <3>1. Listings(t, i) = 0
      BY <1>4, <1>6, <1>7, <1>9, <2>1 DEF Counted
    <3>2. /\ Times(t.toDecay, i) \in Nat /\ Times(t.toDecay, i) <= Listings(t, i)
          /\ \A c \in Buckets : Times(t.bucket[c], i) \in Nat
                                /\ Times(t.bucket[c], i) + Times(t.toDecay, i) <= Listings(t, i)
      BY <1>4, ListingsTyped
    <3>3. Times(t.toDecay, i) # 1 /\ \A c \in Buckets : Times(t.bucket[c], i) # 1
      BY <3>1, <3>2
    <3> QED BY <3>3 DEF InTime
  <2> QED BY <2>1 DEF InTime
<1>12. ASSUME AllFresh(u) PROVE AllFresh(t)
  <2>1. ASSUME NEW j \in FreeIn(t) PROVE Counted(t, j, 0)
    <3>1. j \in Objects /\ j # i /\ Counted(u, j, 0)
      BY <1>4, <1>8, <1>12, <2>1 DEF AllFresh, FreeIn
    <3>2. Counted(w, j, 0)
      BY <1>1, <3>1, SameIsGood DEF OnlyThese
    <3> QED BY <1>1, <1>4, <3>1, <3>2, SameIsGood DEF OnlyThese
  <2> QED BY <1>4, <1>12, <2>1 DEF AllFresh
<1>13. \A j \in Objects : Times(t.bucket[b], j) = Times(u.bucket[b], j) - IF j = i THEN 1 ELSE 0
  <2> TAKE j \in Objects
  <2>1. Times(u.bucket[b], j) \in Nat
    BY ListingsAre
  <2>2. CASE j = i
    BY <1>1, <1>3, <2>2 DEF IsOff
  <2>3. CASE j # i
    BY <1>1, <1>4, <2>1, <2>3 DEF OnlyThese, SameLists
  <2> QED BY <2>2, <2>3
<1> QED BY <1>4, <1>5, <1>10, <1>11, <1>12, <1>13 DEF OffForTurn

\* Item i of bucket b is served: it is good when the turn is over, or at once if it is
\* listed more than once; the other items are as good as they were, and as often in
\* the bucket.
ServedRight(u, v, b, i) ==
  /\ v \in DecayStates /\ v.last = u.last
  /\ Good(v, i, b, 1, 0) /\ (Listings(u, i) > 1 => Good(v, i, b, 1, 4))
  /\ OthersGood(u, v, i, b, 1) /\ Swapped(u, v, i)
  /\ \A j \in Objects : Times(v.bucket[b], j) >= Times(u.bucket[b], j) - IF j = i THEN 1 ELSE 0

\* The item is taken off and its reference is to be given back, before or after it
\* has decayed.
LEMMA TakenOffGood ==
  ASSUME NEW u \in DecayStates, NEW i \in Objects, NEW b \in Buckets, Times(u.bucket[b], i) > 0,
         Good(u, i, b, 1, 4), NEW w, ButFor(u, w, i),
         NEW t, t = [w EXCEPT !.bucket[b] = RemoveFirst(w.bucket[b], i)],
         NEW e, \A q : Passed(t, e, i, 1, b, 1, q), NEW v, v = Released(e, i)
  PROVE  ServedRight(u, v, b, i)
<1>0. OffForTurn(u, w, t, i, b)
  BY TakenGood
<1>1. /\ t \in DecayStates /\ t.last = u.last /\ OthersGood(u, t, i, b, 1)
      /\ FreeIn(t) = FreeIn(u) /\ HeldIn(t) = HeldIn(u)
      /\ \A j \in Objects : Times(t.bucket[b], j) = Times(u.bucket[b], j) - IF j = i THEN 1 ELSE 0
  BY <1>0 DEF OffForTurn
<1>2. /\ e \in DecayStates /\ e.last = t.last /\ e.bucket = t.bucket
      /\ OthersGood(t, e, i, b, 1) /\ Swapped(t, e, i) /\ \A q : Fine(e, i, 1, b, 1, q)
  BY DEF Passed
<1>3. \A q : /\ OnlyThese(e, v, {i}) /\ v.bucket = e.bucket
             /\ Good(v, i, b, 1, q) /\ FreeIn(v) = FreeIn(e) /\ HeldIn(v) = HeldIn(e)
  BY <1>2, ReleasedGood
<1>4. v \in DecayStates /\ v.last = u.last /\ v.bucket = t.bucket
  BY <1>1, <1>2, <1>3 DEF OnlyThese
<1>5. OthersGood(u, v, i, b, 1)
  <2>1. OthersGood(e, v, i, b, 1)
    BY <1>3, OthersAreGood
  <2>2. OthersGood(t, v, i, b, 1)
    BY <1>2, <2>1, GoodOn
  <2> QED BY <1>1, <2>2, GoodOn
<1>6. Swapped(u, v, i)
  BY <1>1, <1>2, <1>3 DEF Swapped
<1>7. \A j \in Objects : Times(v.bucket[b], j) >= Times(u.bucket[b], j) - IF j = i THEN 1 ELSE 0
  <2> TAKE j \in Objects
  <2>1. Times(u.bucket[b], j) \in Nat
    BY ListingsAre
  <2> QED BY <1>1, <1>4, <2>1
<1> QED BY <1>3, <1>4, <1>5, <1>6, <1>7 DEF ServedRight

\* Game::checkDecay, one item: each of its four outcomes is right.
LEMMA ServedGood ==
  ASSUME NEW u \in DecayStates, NEW i \in Objects, NEW b \in Buckets, Times(u.bucket[b], i) > 0,
         Good(u, i, b, 1, 4), u.held[i] => AllFresh(u), NEW v, v = Served(u, b, i)
  PROVE  ServedRight(u, v, b, i)
<1>1. Counted(u, i, 0) /\ Lasting(u, i) /\ Awaited(u, i) /\ InTime(u, i, b, 1, 4)
  BY DEF Good
<1>2. CASE ~CanDecay(u, i)
  <2>1. v = Unlisted(u, b, i)
    BY <1>2 DEF Served
  <2>2. PICK w : w = [u EXCEPT !.mark[i] = FALSE]
    OBVIOUS
  <2>3. ButFor(u, w, i) /\ ~w.mark[i]
    BY <2>2, UnmarkedIs
  <2>4. PICK t : t = [w EXCEPT !.bucket[b] = RemoveFirst(w.bucket[b], i)]
    OBVIOUS
  <2>5. PICK r : r = RemoveFirst(u.bucket[b], i)
    OBVIOUS
  <2>6. t = [u EXCEPT !.mark[i] = FALSE, !.bucket[b] = r]
    <3>1. w.bucket = u.bucket
      BY <2>3 DEF ButFor
    <3>2. t = [w EXCEPT !.bucket[b] = r]
      BY <2>4, <2>5, <3>1
    <3> QED BY <2>2, <3>1, <3>2 DEF DecayStates
  <2>7. v = Released(t, i)
    <3>1. v = Released([u EXCEPT !.mark[i] = FALSE, !.bucket[b] = RemoveFirst(@, i)], i)
      BY <2>1 DEF Unlisted
    <3>2. [u EXCEPT !.mark[i] = FALSE, !.bucket[b] = RemoveFirst(@, i)] = [u EXCEPT !.mark[i] = FALSE, !.bucket[b] = r]
      BY <2>5 DEF DecayStates
    <3> QED BY <2>6, <3>1, <3>2
  <2>13. OffForTurn(u, w, t, i, b)
    BY <2>3, <2>4, TakenGood
  <2>8. /\ t \in DecayStates /\ SameFields(w, t, i)
        /\ Counted(t, i, 1) /\ \A q : InTime(t, i, b, 1, q)
    BY <2>13 DEF OffForTurn
  <2>9. ~CanDecay(t, i) /\ ~t.mark[i]
    BY <1>2, <2>3, <2>8 DEF CanDecay, SameFields, ButFor
  <2>10. \A q : Fine(t, i, 1, b, 1, q)
    BY <2>8, <2>9 DEF Fine, Lasting, Awaited
  <2>11. \A q : Passed(t, t, i, 1, b, 1, q)
    BY <2>8, <2>10 DEF Passed, OthersGood, Swapped
  <2> QED BY <2>3, <2>4, <2>7, <2>11, TakenOffGood
<1>3. CASE CanDecay(u, i)
  <2>1. u.held[i] /\ AllFresh(u)
    BY <1>3 DEF CanDecay
  <2>2. u.dur[i] \in Durations /\ u.dur[i] > 0
    BY <1>1, <1>3 DEF Lasting, DecayStates
  <2>0. PICK ms \in Durations : ms = u.dur[i]
    BY <2>2
  <2>3. PICK n \in Nat : u.dur[i] = 1000 * n
    <3>1. \E n \in Nat : ms = 1000 * n
      BY DurationsAre
    <3> QED BY <2>0, <3>1
  <2>4. n > 0
    BY <2>2, <2>3
  <2>5. PICK m \in Nat : m = n - 1
    BY <2>4
  <2>6. PICK left : left = 1000 * m
    OBVIOUS
  <2>7. left \in Durations /\ left \in Nat
    BY <2>6, DurationsAre
  <2>8. left = u.dur[i] - (IF u.dur[i] < Turn THEN u.dur[i] ELSE Turn)
    BY <2>3, <2>4, <2>5, <2>6, BucketsAre
  <2>9. PICK w : w = [u EXCEPT !.dur[i] = left]
    OBVIOUS
  <2>15. IsTimed(u, w, i, left)
    BY <2>7, <2>9, TimedIs
  <2>10. ButFor(u, w, i) /\ w.mark[i] = u.mark[i] /\ w.dur[i] = left
    BY <2>15 DEF IsTimed
  <2>11. PICK t : t = [w EXCEPT !.bucket[b] = RemoveFirst(@, i)]
    OBVIOUS
  <2>12. v = IF left = 0 THEN Released(Decayed(t, i), i) ELSE w
    <3>1. CASE left = 0
      <4>1. ~(0 < left) /\ ~(left >= Turn)
        BY <3>1, BucketsAre
      <4>2. PICK next : next = (b + ((left + Interval \div 2) \div 1000)) % NBuckets
        OBVIOUS
      <4>3. v = CASE ~CanDecay(u, i) -> Unlisted(u, b, i)
                  [] CanDecay(u, i) /\ (left = 0 \/ (left < Turn /\ next = b)) -> Released(Decayed(t, i), i)
                  [] CanDecay(u, i) /\ 0 < left /\ left < Turn /\ next # b ->
                       [t EXCEPT !.bucket[next] = Append(@, i)]
                  [] CanDecay(u, i) /\ left >= Turn -> w
        <5> DEFINE l0 == u.dur[i] - (IF u.dur[i] < Turn THEN u.dur[i] ELSE Turn)
                   w0 == [u EXCEPT !.dur[i] = l0]
                   t0 == [w0 EXCEPT !.bucket[b] = RemoveFirst(@, i)]
                   n0 == (b + ((l0 + Interval \div 2) \div 1000)) % NBuckets
        <5>1. v = CASE ~CanDecay(u, i) -> Unlisted(u, b, i)
                    [] CanDecay(u, i) /\ (l0 = 0 \/ (l0 < Turn /\ n0 = b)) -> Released(Decayed(t0, i), i)
                    [] CanDecay(u, i) /\ 0 < l0 /\ l0 < Turn /\ n0 # b ->
                         [t0 EXCEPT !.bucket[n0] = Append(@, i)]
                    [] CanDecay(u, i) /\ l0 >= Turn -> w0
          BY DEF Served
        <5>2. l0 = left
          BY <2>8
        <5> HIDE DEF l0
        <5>3. w0 = w
          BY <2>9, <5>2
        <5> HIDE DEF w0
        <5>4. t0 = t
          BY <2>11, <5>3
        <5>5. n0 = next
          BY <4>2, <5>2
        <5> HIDE DEF t0, n0
        <5> QED BY <5>1, <5>2, <5>3, <5>4, <5>5
      <4> QED BY <1>3, <3>1, <4>1, <4>3
    <3>2. CASE left # 0
      <4>1. left >= Turn /\ ~(left < Turn)
        BY <2>6, <3>2, BucketsAre
      <4> QED BY <1>3, <2>8, <2>9, <3>2, <4>1, Zenon DEF Served
    <3> QED BY <3>1, <3>2
  <2>13. CASE left = 0
    <3>1. t = [w EXCEPT !.bucket[b] = RemoveFirst(w.bucket[b], i)]
      BY <2>11, <2>10 DEF ButFor, OnlyThese, DecayStates
    <3>11. OffForTurn(u, w, t, i, b)
      BY <2>10, <3>1, TakenGood
    <3>2. /\ t \in DecayStates /\ SameFields(w, t, i) /\ AllFresh(t)
          /\ Counted(t, i, 1) /\ \A q : InTime(t, i, b, 1, q)
      BY <2>1, <3>11 DEF OffForTurn
    <3>3. CanDecay(t, i) /\ t.dur[i] = 0
      BY <1>3, <2>10, <2>13, <3>2 DEF CanDecay, SameFields, ButFor
    <3>4. Awaited(t, i)
      BY <3>3 DEF Awaited
    <3>5. PICK e : e = Decayed(t, i)
      OBVIOUS
    <3>6. v = Released(e, i)
      BY <2>12, <2>13, <3>5
    <3>7. PICK x \in Nat, g \in Nat : x = 1 /\ g = 1
      OBVIOUS
    <3>8. Counted(t, i, x) /\ \A q : InTime(t, i, b, g, q)
      BY <3>2, <3>7
    <3>9. \A q : Passed(t, e, i, x, b, g, q)
      BY <3>2, <3>3, <3>4, <3>5, <3>8, DecayedGood
    <3>10. \A q : Passed(t, e, i, 1, b, 1, q)
      BY <3>7, <3>9
    <3> QED BY <2>10, <3>1, <3>6, <3>10, TakenOffGood
  <2>14. CASE left # 0
    <3>1. v = w /\ m > 0
      BY <2>5, <2>6, <2>12, <2>14
    <3>2. /\ v \in DecayStates /\ v.last = u.last /\ OnlyThese(u, v, {i}) /\ SameLists(u, v, i)
          /\ FreeIn(v) = FreeIn(u) /\ HeldIn(v) = HeldIn(u) /\ v.bucket = u.bucket
      BY <2>10, <3>1 DEF ButFor, OnlyThese
    <3>3. OthersGood(u, v, i, b, 1) /\ Swapped(u, v, i)
      BY <3>2, OthersAreGood DEF Swapped
    <3>4. Listings(v, i) = Listings(u, i) /\ Listings(u, i) \in Nat
      BY <3>2, SameListings, ListingsTyped
    <3>5. Counted(v, i, 0)
      <4>1. u.refs[i] = 0 => ~u.mark[i] /\ ~u.copied[i] /\ u.asked[i] = 0
        BY <1>1 DEF Counted
      <4>2. v.refs[i] = 0 => ~v.mark[i] /\ ~v.copied[i] /\ v.asked[i] = 0
        BY <2>10, <3>1, <4>1 DEF ButFor
      <4> QED BY <1>1, <2>10, <3>1, <3>4, <4>2 DEF Counted, ButFor
    <3>6. Lasting(v, i)
      BY <2>6, <2>10, <3>1, <2>7, <2>14 DEF Lasting
    <3>7. Awaited(v, i)
      <4>1. Listings(u, i) > 0
        <5>1. /\ Listings(u, i) \in Nat /\ Times(u.toDecay, i) \in Nat
              /\ Times(u.bucket[b], i) \in Nat /\ Times(u.bucket[b], i) + Times(u.toDecay, i) <= Listings(u, i)
          BY ListingsTyped
        <5> QED BY <5>1
      <4> QED BY <3>4, <4>1 DEF Awaited
    <3>8. CASE Listings(u, i) > 1
      <4>1. v.asked[i] = 0
        <5>1. u.asked[i] \in Nat
          BY DurationsAre DEF DecayStates
        <5> QED BY <1>1, <2>10, <3>1, <3>4, <3>8, <5>1 DEF Counted, ButFor
      <4>2. InTime(v, i, b, 1, 0) /\ InTime(v, i, b, 1, 4)
        BY <4>1 DEF InTime
      <4>3. Good(v, i, b, 1, 0) /\ Good(v, i, b, 1, 4)
        BY <3>5, <3>6, <3>7, <4>2 DEF Good
      <4>4. \A j \in Objects : Times(v.bucket[b], j) >= Times(u.bucket[b], j) - IF j = i THEN 1 ELSE 0
        <5> TAKE j \in Objects
        <5>1. Times(u.bucket[b], j) \in Nat
          BY ListingsAre
        <5> QED BY <3>2, <5>1
      <4> QED BY <3>2, <3>3, <4>3, <4>4 DEF ServedRight
    <3>9. CASE ~(Listings(u, i) > 1)
      <4>1. InTime(v, i, b, 1, 0)
        <5> SUFFICES ASSUME v.asked[i] > 0, v.mark[i]
                     PROVE  /\ Times(v.toDecay, i) # 1
                            /\ \A c \in Buckets : Times(v.bucket[c], i) = 1 =>
                                 TurnsInAll(v, i, c, b) - (IF c = b THEN 0 ELSE 0) - (v.asked[i] \div Interval) \in {0, 1}
          BY DEF InTime
        <5>1. /\ Times(u.toDecay, i) = 0 /\ Times(u.bucket[b], i) = 1
              /\ \A c \in Buckets : Times(u.bucket[c], i) = 1 => c = b
          <6>1. /\ Listings(u, i) = Times(u.toDecay, i) + Times(u.bucket[0], i) + Times(u.bucket[1], i)
                                    + Times(u.bucket[2], i) + Times(u.bucket[3], i)
                /\ Times(u.toDecay, i) \in Nat /\ \A c \in Buckets : Times(u.bucket[c], i) \in Nat
            BY ListingsAre
          <6>2. PICK t0 \in Nat, t1 \in Nat, t2 \in Nat, t3 \in Nat, tt \in Nat :
                  /\ t0 = Times(u.bucket[0], i) /\ t1 = Times(u.bucket[1], i)
                  /\ t2 = Times(u.bucket[2], i) /\ t3 = Times(u.bucket[3], i) /\ tt = Times(u.toDecay, i)
            BY <6>1, BucketsAre
          <6>3. tt + t0 + t1 + t2 + t3 <= 1
            BY <3>4, <3>9, <6>1, <6>2
          <6>4. b \in {0, 1, 2, 3}
            BY BucketsAre
          <6>5. /\ (b = 0 => t0 > 0) /\ (b = 1 => t1 > 0) /\ (b = 2 => t2 > 0) /\ (b = 3 => t3 > 0)
            BY <6>2
          <6>6. tt = 0
            BY <6>3, <6>4, <6>5
          <6>7. /\ t0 = (IF b = 0 THEN 1 ELSE 0) /\ t1 = (IF b = 1 THEN 1 ELSE 0)
                /\ t2 = (IF b = 2 THEN 1 ELSE 0) /\ t3 = (IF b = 3 THEN 1 ELSE 0)
            BY <6>3, <6>4, <6>5
          <6>8. Times(u.bucket[b], i) = 1
            BY <6>2, <6>4, <6>7
          <6>9. ASSUME NEW c \in {0, 1, 2, 3}, Times(u.bucket[c], i) = 1 PROVE c = b
            <7>1. /\ (c = 0 => t0 = 1) /\ (c = 1 => t1 = 1) /\ (c = 2 => t2 = 1) /\ (c = 3 => t3 = 1)
              BY <6>2, <6>9
            <7> QED BY <6>7, <6>9, <7>1
          <6> QED BY <6>2, <6>6, <6>8, <6>9, BucketsAre
        <5>2. TurnsInAll(u, i, b, b) - 4 - (u.asked[i] \div Interval) \in {0, 1}
          <6>1. TurnsInAll(u, i, b, b) - (IF b = b THEN 4 ELSE 0) - (u.asked[i] \div Interval) \in {0, 1}
            BY <1>1, <2>10, <3>1, <5>1 DEF InTime, ButFor
          <6> QED BY <6>1
        <5>3. PICK z : z = ((b - b - 1) % NBuckets) + 1
          OBVIOUS
        <5>4. /\ TurnsInAll(u, i, b, b) = u.spent[i] + z + 4 * ((u.dur[i] \div 1000) - 1)
              /\ TurnsInAll(v, i, b, b) = v.spent[i] + z + 4 * ((v.dur[i] \div 1000) - 1)
              /\ z \in Int
          <6>1. z = 4
            BY <5>3, BucketsAre
          <6>2. u.dur[i] \div 1000 = n /\ v.dur[i] \div 1000 = m
            BY <2>3, <2>6, <2>10, <3>1
          <6>3. u.spent[i] \in Nat /\ v.spent[i] = u.spent[i]
            BY <2>10, <3>1 DEF DecayStates, ButFor
          <6>4. /\ TurnsInAll(u, i, b, b) = u.spent[i] + ((b - b - 1) % NBuckets) + 1 + NBuckets * ((u.dur[i] \div Turn) - 1)
                /\ TurnsInAll(v, i, b, b) = v.spent[i] + ((b - b - 1) % NBuckets) + 1 + NBuckets * ((v.dur[i] \div Turn) - 1)
            BY DEF TurnsInAll
          <6> QED BY <5>3, <6>1, <6>2, <6>3, <6>4, BucketsAre
        <5>5. TurnsInAll(v, i, b, b) = TurnsInAll(u, i, b, b) - 4
          <6>1. u.dur[i] \div 1000 = n /\ v.dur[i] \div 1000 = m
            BY <2>3, <2>6, <2>10, <3>1
          <6>2. u.spent[i] \in Nat /\ v.spent[i] = u.spent[i]
            BY <2>10, <3>1 DEF DecayStates, ButFor
          <6> QED BY <2>5, <5>4, <6>1, <6>2
        <5>6. v.asked[i] = u.asked[i] /\ Times(v.toDecay, i) = 0
          BY <2>10, <3>1, <3>2, <5>1 DEF ButFor, SameLists
        <5>7. u.asked[i] \div Interval \in Int
          <6>1. u.asked[i] \in Nat
            BY DurationsAre DEF DecayStates
          <6> QED BY <6>1, BucketsAre
        <5>8. TurnsInAll(u, i, b, b) \in Int
          <6>1. u.spent[i] \in Nat /\ u.dur[i] \div 1000 = n
            BY <2>3 DEF DecayStates
          <6> QED BY <5>4, <6>1
        <5>9. TurnsInAll(v, i, b, b) - (IF b = b THEN 0 ELSE 0) - (v.asked[i] \div Interval) \in {0, 1}
          BY <5>2, <5>5, <5>6, <5>7, <5>8
        <5> QED BY <3>2, <5>1, <5>6, <5>9
      <4>2. Good(v, i, b, 1, 0)
        BY <3>5, <3>6, <3>7, <4>1 DEF Good
      <4>3. \A j \in Objects : Times(v.bucket[b], j) >= Times(u.bucket[b], j) - IF j = i THEN 1 ELSE 0
        <5> TAKE j \in Objects
        <5>1. Times(u.bucket[b], j) \in Nat
          BY ListingsAre
        <5> QED BY <3>2, <5>1
      <4> QED BY <3>2, <3>3, <3>9, <4>2, <4>3 DEF ServedRight
    <3> QED BY <3>8, <3>9
  <2> QED BY <2>13, <2>14
<1> QED BY <1>2, <1>3


(* The loops over a list *)

\* What the loops do with one item: Game::checkDecay serves it, Game::cleanup puts it
\* in the bucket it belongs to in the state how.of, and a login (Speed) adds a
\* condition that was saved.
Do(how, v, i) ==
  IF how.what = "serve" THEN Served(v, how.b, i)
  ELSE IF how.what = "place" THEN [v EXCEPT !.bucket[BucketFor(how.of, i)] = Append(@, i)]
  ELSE ConditionAdded(v, i, FALSE, FALSE)

\* h satisfies the recursion equation of a loop over the list q, on the given sets of
\* places in it.
LoopsOn(how, q, start, Ds, h) ==
  h = [s \in Ds |-> IF s = {} THEN start ELSE Do(how, h[s \ {Max(s)}], q[Max(s)])]

\* A set of places has a last one, and that of 1..n is n.
LEMMA MaxIn ==
  ASSUME NEW n \in Nat, NEW s \in SUBSET (1..n), s # {}
  PROVE  Max(s) \in s /\ Max(s) \in 1..n /\ \A j \in s : Max(s) >= j
<1> DEFINE T == {m \in 0..n : n - m \in s}
<1>1. T \in SUBSET Nat /\ T # {}
  <2>1. PICK j \in s : TRUE
    OBVIOUS
  <2>2. j \in 1..n
    BY <2>1
  <2>3. n - j \in 0..n /\ n - (n - j) = j
    BY <2>2
  <2> QED BY <2>1, <2>3
<1>2. PICK m \in T : \A k \in T : m <= k
  BY <1>1, LeastNumber
<1>3. n - m \in s /\ m \in 0..n
  BY <1>2
<1>4. ASSUME NEW j \in s PROVE n - m >= j
  <2>1. j \in 1..n
    BY <1>4
  <2>2. n - j \in 0..n /\ n - (n - j) = j
    BY <2>1
  <2>3. n - j \in T
    BY <1>4, <2>2
  <2>4. m <= n - j
    BY <1>2, <2>3
  <2> QED BY <1>3, <2>1, <2>4
<1>5. \E x \in s : \A ms \in s : x >= ms
  BY <1>3, <1>4
<1> QED BY <1>5 DEF Max

\* The recursion has a solution on the sets of n places at most, and so on all sets.
LEMMA LoopStep ==
  ASSUME NEW how, NEW q, NEW start, NEW N \in Nat, NEW n \in Nat,
         NEW h, LoopsOn(how, q, start, Smaller(1..N, n), h)
  PROVE  \E g : LoopsOn(how, q, start, Smaller(1..N, n + 1), g)
<1> DEFINE D == 1..N
           g == [s \in Smaller(D, n + 1) |->
                   IF s = {} THEN start ELSE Do(how, h[s \ {Max(s)}], q[Max(s)])]
<1>0. IsFiniteSet(D)
  BY UpTo
<1>1. ASSUME NEW s \in Smaller(D, n + 1), s # {}
      PROVE  /\ s \ {Max(s)} \in Smaller(D, n)
             /\ s \ {Max(s)} \in Smaller(D, n + 1)
  <2>0. s \in SUBSET (1..N)
    BY DEF Smaller
  <2>1. s \subseteq D /\ Cardinality(s) <= n + 1 /\ IsFiniteSet(s) /\ Max(s) \in s
    BY <1>0, <1>1, <2>0, FS_Subset, MaxIn DEF Smaller
  <2>2. Cardinality(s \ {Max(s)}) \in Nat /\ Cardinality(s \ {Max(s)}) + 1 = Cardinality(s)
    BY <2>1, OneLess
  <2>3. Cardinality(s \ {Max(s)}) <= n
    BY <2>1, <2>2
  <2>5. s \ {Max(s)} \subseteq D
    BY <2>1
  <2>4. s \ {Max(s)} \subseteq D /\ Cardinality(s \ {Max(s)}) <= n + 1
    <3> HIDE DEF D
    <3> QED BY <2>2, <2>3, <2>5
  <2> QED BY <2>3, <2>4 DEF Smaller
<1>2. ASSUME NEW s \in Smaller(D, n)
      PROVE  g[s] = h[s]
  <2>1. s \in Smaller(D, n + 1)
    <3>1. s \subseteq D /\ Cardinality(s) <= n /\ IsFiniteSet(s)
      BY <1>0, <1>2, FS_Subset DEF Smaller
    <3>2. Cardinality(s) \in Nat
      BY <3>1, FS_CardinalityType
    <3> QED BY <3>1, <3>2 DEF Smaller
  <2> QED BY <2>1 DEF LoopsOn
<1>3. g = [s \in Smaller(D, n + 1) |-> IF s = {} THEN start ELSE Do(how, g[s \ {Max(s)}], q[Max(s)])]
  BY <1>1, <1>2
<1>4. QED BY <1>3 DEF LoopsOn

\* So the recursion has a solution on all sets of places.
LEMMA LoopHasTable ==
  ASSUME NEW how, NEW q, NEW start, NEW N \in Nat
  PROVE  \E h : LoopsOn(how, q, start, SUBSET (1..N), h)
<1> DEFINE D == 1..N
           Bad == {n \in Nat : ~\E h : LoopsOn(how, q, start, Smaller(D, n), h)}
<1>0. IsFiniteSet(D)
  BY UpTo
<1>1. 0 \notin Bad
  <2>1. Smaller(D, 0) = {{}}
    <3>1. ASSUME NEW s \in SUBSET D PROVE Cardinality(s) <= 0 <=> s = {}
      <4>1. IsFiniteSet(s) /\ Cardinality(s) \in Nat
        BY <1>0, FS_Subset, FS_CardinalityType
      <4>2. Cardinality(s) = 0 <=> s = {}
        BY <4>1, FS_EmptySet
      <4> QED BY <4>1, <4>2
    <3> QED BY <3>1 DEF Smaller
  <2>2. LoopsOn(how, q, start, {{}}, [s \in {{}} |-> start])
    BY DEF LoopsOn
  <2> QED BY <2>1, <2>2
<1>2. Bad = {}
  <2>1. SUFFICES ASSUME Bad # {} PROVE FALSE
    OBVIOUS
  <2>2. PICK n \in Bad : \A m \in Bad : n <= m
    BY <2>1, LeastNumber
  <2>3. n # 0 /\ n - 1 \in Nat /\ n - 1 \notin Bad
    BY <1>1, <2>2
  <2>4. PICK h : LoopsOn(how, q, start, Smaller(D, n - 1), h)
    BY <2>3
  <2>5. \E g : LoopsOn(how, q, start, Smaller(D, (n - 1) + 1), g)
    BY <2>3, <2>4, LoopStep
  <2>6. (n - 1) + 1 = n
    BY <2>2
  <2> QED BY <2>2, <2>5, <2>6
<1>3. Smaller(D, Cardinality(D)) = SUBSET D
  BY <1>0, FS_Subset DEF Smaller
<1>4. Cardinality(D) \in Nat
  BY <1>0, FS_CardinalityType
<1>5. Cardinality(D) \notin Bad
  BY <1>2
<1>6. \E h : LoopsOn(how, q, start, Smaller(D, Cardinality(D)), h)
  BY <1>4, <1>5
<1> QED BY <1>3, <1>6

\* r holds the states of a loop: r[0] before it, r[n] after the first n items.
Runs(how, q, start, N, r) ==
  /\ DOMAIN r = 0..N /\ r[0] = start
  /\ \A n \in 1..N : r[n] = Do(how, r[n - 1], q[n])

\* A solution holds them for the first places.
Solves(how, q, start, N, h) == LoopsOn(how, q, start, SUBSET (1..N), h)
EndsIn(how, q, start, N, x) == \E r : Runs(how, q, start, N, r) /\ r[N] = x

\* A solution ends where the loop ends.
LEMMA LoopRuns ==
  ASSUME NEW how, NEW q, NEW start, NEW N \in Nat, NEW h, Solves(how, q, start, N, h)
  PROVE  EndsIn(how, q, start, N, h[1..N])
<1>0. LoopsOn(how, q, start, SUBSET (1..N), h)
  BY DEF Solves
<1> DEFINE r == [n \in 0..N |-> h[1..n]]
<1>1. r[0] = start
  <2>1. 1..0 = {} /\ 0 \in 0..N
    OBVIOUS
  <2> QED BY <1>0, <2>1 DEF LoopsOn
<1>2. ASSUME NEW n \in 1..N PROVE r[n] = Do(how, r[n - 1], q[n])
  <2>1. 1..n \in SUBSET (1..N) /\ 1..n # {} /\ n \in 0..N /\ n - 1 \in 0..N
    OBVIOUS
  <2>2. Max(1..n) = n
    <3>1. Max(1..n) \in 1..n /\ \A j \in 1..n : Max(1..n) >= j
      BY <2>1, MaxIn
    <3>2. n \in 1..n
      OBVIOUS
    <3> QED BY <3>1, <3>2
  <2>3. (1..n) \ {n} = 1..(n - 1)
    OBVIOUS
  <2>4. h[1..n] = Do(how, h[(1..n) \ {Max(1..n)}], q[Max(1..n)])
    BY <1>0, <2>1 DEF LoopsOn
  <2>5. h[1..n] = Do(how, h[1..(n - 1)], q[n])
    BY <2>2, <2>3, <2>4
  <2> QED BY <2>1, <2>5
<1> HIDE DEF r
<1>3. DOMAIN r = 0..N
  BY DEF r
<1>4. Runs(how, q, start, N, r)
  BY <1>1, <1>2, <1>3 DEF Runs
<1>5. r[N] = h[1..N]
  BY DEF r
<1> QED BY <1>4, <1>5 DEF EndsIn

\* The rounds of Game::checkDecay and the placing of Game::cleanup are such loops.
ServesOn(u, b, Ds, h) ==
  h = [s \in Ds |-> IF s = {} THEN u ELSE Served(h[s \ {Max(s)}], b, u.bucket[b][Max(s)])]
PlacesOn(u, v, Ds, h) ==
  h = [s \in Ds |-> IF s = {} THEN v
                    ELSE [h[s \ {Max(s)}] EXCEPT !.bucket[BucketFor(u, u.toDecay[Max(s)])] = Append(@, u.toDecay[Max(s)])]]

\* The round of Game::checkDecay is what a solution holds for all its places.
LEMMA RoundIs ==
  ASSUME NEW u, NEW b
  PROVE  Round(u, b) = (CHOOSE h : ServesOn(u, b, SUBSET DOMAIN u.bucket[b], h))[DOMAIN u.bucket[b]]
  BY DEF Round, FoldLeft, MapThenFoldSet, ServesOn

\* So is the placing of Game::cleanup.
LEMMA PlacedIs ==
  ASSUME NEW u, NEW v
  PROVE  Placed(u, v) = (CHOOSE h : PlacesOn(u, v, SUBSET DOMAIN u.toDecay, h))[DOMAIN u.toDecay]
  BY DEF Placed, FoldLeft, MapThenFoldSet, PlacesOn

Serving(u, b) == [what |-> "serve", b |-> b, of |-> u]
Placing(u) == [what |-> "place", b |-> 0, of |-> u]

\* The round goes through the bucket, item by item.
LEMMA RoundRuns ==
  ASSUME NEW u \in DecayStates, NEW b \in Buckets, NEW q, q = u.bucket[b], NEW N, N = Len(q)
  PROVE  EndsIn(Serving(u, b), q, u, N, Round(u, b))
<1>1. N \in Nat /\ DOMAIN q = 1..N
  BY DEF DecayStates
<1>2. PICK how : how = Serving(u, b)
  OBVIOUS
<1>3. how.what = "serve" /\ how.b = b
  BY <1>2 DEF Serving
<1>4. ASSUME NEW h PROVE LoopsOn(how, q, u, SUBSET (1..N), h) <=> ServesOn(u, b, SUBSET (1..N), h)
  BY <1>3 DEF LoopsOn, ServesOn, Do
<1>5. \E h : LoopsOn(how, q, u, SUBSET (1..N), h)
  BY <1>1, LoopHasTable
<1>6. PICK h : h = CHOOSE g : ServesOn(u, b, SUBSET (1..N), g)
  OBVIOUS
<1>7. ServesOn(u, b, SUBSET (1..N), h)
  BY <1>4, <1>5, <1>6
<1>8. Round(u, b) = h[1..N]
  BY <1>1, <1>6, RoundIs
<1>9. LoopsOn(how, q, u, SUBSET (1..N), h)
  BY <1>4, <1>7
<1>10. Solves(how, q, u, N, h)
  BY <1>9 DEF Solves
<1>11. EndsIn(how, q, u, N, h[1..N])
  BY <1>1, <1>10, LoopRuns
<1> QED BY <1>2, <1>8, <1>11

\* The placing goes through the new items, one by one.
LEMMA PlacedRuns ==
  ASSUME NEW u \in DecayStates, NEW v, NEW q, q = u.toDecay, NEW N, N = Len(q)
  PROVE  EndsIn(Placing(u), q, v, N, Placed(u, v))
<1>1. N \in Nat /\ DOMAIN q = 1..N
  BY DEF DecayStates
<1>2. PICK how : how = Placing(u)
  OBVIOUS
<1>3. how.what = "place" /\ how.of = u
  BY <1>2 DEF Placing
<1>4. ASSUME NEW h PROVE LoopsOn(how, q, v, SUBSET (1..N), h) <=> PlacesOn(u, v, SUBSET (1..N), h)
  BY <1>3 DEF LoopsOn, PlacesOn, Do
<1>5. \E h : LoopsOn(how, q, v, SUBSET (1..N), h)
  BY <1>1, LoopHasTable
<1>6. PICK h : h = CHOOSE g : PlacesOn(u, v, SUBSET (1..N), g)
  OBVIOUS
<1>7. PlacesOn(u, v, SUBSET (1..N), h)
  BY <1>4, <1>5, <1>6
<1>8. Placed(u, v) = h[1..N]
  BY <1>1, <1>6, PlacedIs
<1>9. LoopsOn(how, q, v, SUBSET (1..N), h)
  BY <1>4, <1>7
<1>10. Solves(how, q, v, N, h)
  BY <1>9 DEF Solves
<1>11. EndsIn(how, q, v, N, h[1..N])
  BY <1>1, <1>10, LoopRuns
<1> QED BY <1>2, <1>8, <1>11

\* Since the state s, enough objects have stayed free for every item of that time that
\* is still in the world to be replaced by another.
Stock(s, w) ==
  /\ FreeIn(w) \subseteq FreeIn(s) /\ HeldIn(w) \subseteq HeldIn(s) \union FreeIn(s)
  /\ Cardinality(FreeIn(w)) >= Cardinality(HeldIn(s) \intersect HeldIn(w))
  /\ Cardinality(HeldIn(w)) <= MaxItems

\* Sets of objects are finite.
LEMMA ObjectsFinite ==
  ASSUME NEW S \in SUBSET Objects
  PROVE  IsFiniteSet(S) /\ Cardinality(S) \in Nat
<1>1. IsFiniteSet(Objects)
  BY DecayAssumption
<1> QED BY <1>1, FS_Subset, FS_CardinalityType

\* A smaller set has no more elements.
LEMMA NoMore ==
  ASSUME NEW T \in SUBSET Objects, NEW S \in SUBSET T
  PROVE  Cardinality(S) <= Cardinality(T)
<1>1. IsFiniteSet(T)
  BY ObjectsFinite
<1> QED BY <1>1, FS_Subset

\* An item that is replaced takes one object from the stock and leaves the world.
LEMMA StockKept ==
  ASSUME NEW s, NEW w, NEW v, NEW i, Stock(s, w), Swapped(w, v, i), i \notin FreeIn(s),
         HeldIn(s) \intersect FreeIn(s) = {}
  PROVE  Stock(s, v)
<1>0. /\ FreeIn(w) \subseteq FreeIn(s) /\ HeldIn(w) \subseteq HeldIn(s) \union FreeIn(s)
      /\ Cardinality(FreeIn(w)) >= Cardinality(HeldIn(s) \intersect HeldIn(w))
      /\ Cardinality(HeldIn(w)) <= MaxItems
      /\ MaxItems \in Nat
  BY DecayAssumption DEF Stock
<1>1. /\ FreeIn(w) \in SUBSET Objects /\ HeldIn(w) \in SUBSET Objects /\ HeldIn(v) \in SUBSET Objects
      /\ FreeIn(s) \in SUBSET Objects /\ HeldIn(s) \in SUBSET Objects /\ FreeIn(v) \in SUBSET Objects
  BY DEF FreeIn, HeldIn
<1> DEFINE A == HeldIn(s) \intersect HeldIn(w)
           B == HeldIn(s) \intersect HeldIn(v)
<1>2. A \in SUBSET Objects /\ B \in SUBSET Objects
  BY <1>1
<1>3. /\ Cardinality(A) \in Nat /\ Cardinality(B) \in Nat /\ Cardinality(HeldIn(w)) \in Nat
      /\ Cardinality(HeldIn(v)) \in Nat /\ Cardinality(FreeIn(w)) \in Nat /\ Cardinality(FreeIn(v)) \in Nat
  BY <1>1, <1>2, ObjectsFinite
<1>4. CASE FreeIn(v) = FreeIn(w) /\ HeldIn(v) \subseteq HeldIn(w)
  <2>1. Cardinality(HeldIn(v)) <= Cardinality(HeldIn(w))
    BY <1>1, <1>4, NoMore
  <2>2. B \subseteq A
    BY <1>4
  <2>3. Cardinality(B) <= Cardinality(A)
    BY <1>2, <2>2, NoMore
  <2> HIDE DEF A, B
  <2>4. Cardinality(FreeIn(v)) >= Cardinality(B)
    BY <1>0, <1>3, <1>4, <2>3 DEF A
  <2>5. Cardinality(HeldIn(v)) <= MaxItems
    BY <1>0, <1>3, <2>1
  <2>6. FreeIn(v) \subseteq FreeIn(s) /\ HeldIn(v) \subseteq HeldIn(s) \union FreeIn(s)
    BY <1>0, <1>4
  <2> QED BY <2>4, <2>5, <2>6 DEF Stock, B
<1>5. CASE ~(FreeIn(v) = FreeIn(w) /\ HeldIn(v) \subseteq HeldIn(w))
  <2>1. PICK n \in FreeIn(w) : /\ FreeIn(v) = FreeIn(w) \ {n} /\ i \in HeldIn(w) /\ i # n
                               /\ HeldIn(v) = (HeldIn(w) \ {i}) \union {n}
    BY <1>5 DEF Swapped
  <2>2. i \in A /\ IsFiniteSet(A) /\ IsFiniteSet(FreeIn(w)) /\ IsFiniteSet(HeldIn(w))
    BY <1>0, <1>1, <1>2, <2>1, ObjectsFinite
  <2>3. Cardinality(FreeIn(v)) + 1 = Cardinality(FreeIn(w))
    BY <2>1, <2>2, OneLess
  <2>4. B = A \ {i}
    BY <1>0, <2>1
  <2>5. Cardinality(B) + 1 = Cardinality(A)
    <3> HIDE DEF A, B
    <3> QED BY <2>2, <2>4, OneLess
  <2> HIDE DEF A, B
  <2>6. Cardinality(FreeIn(v)) >= Cardinality(B)
    BY <1>0, <1>3, <2>3, <2>5 DEF A
  <2>7. Cardinality(HeldIn(v)) <= MaxItems
    <3> DEFINE H == HeldIn(w) \ {i}
    <3>1. H \in SUBSET Objects /\ i \in HeldIn(w)
      BY <1>1, <2>1
    <3>2. IsFiniteSet(H) /\ Cardinality(H) \in Nat
      BY <3>1, ObjectsFinite
    <3>3. Cardinality(H) + 1 = Cardinality(HeldIn(w))
      BY <2>2, <3>1, OneLess
    <3>4. HeldIn(v) = H \union {n}
      BY <2>1
    <3> HIDE DEF H
    <3>5. Cardinality(H \union {n}) = Cardinality(H) \/ Cardinality(H \union {n}) = Cardinality(H) + 1
      BY <3>2, FS_AddElement
    <3> QED BY <1>0, <1>3, <3>2, <3>3, <3>4, <3>5
  <2>8. FreeIn(v) \subseteq FreeIn(s) /\ HeldIn(v) \subseteq HeldIn(s) \union FreeIn(s)
    BY <1>0, <2>1
  <2> QED BY <2>6, <2>7, <2>8 DEF Stock, B
<1> QED BY <1>4, <1>5

\* Of a list, no more is met in the first places than in all of it.
LEMMA UptoGrows ==
  ASSUME NEW s, NEW j, NEW N \in Nat, NEW n \in 0..N
  PROVE  Upto(s, n, j) <= Upto(s, N, j)
<1> DEFINE T == {k \in 1..N : s[k] = j}
           S == {k \in 1..n : s[k] = j}
<1>1. IsFiniteSet(1..N) /\ S \subseteq T
  BY UpTo
<1>2. IsFiniteSet(T)
  BY <1>1, FS_Subset
<1>3. Cardinality(S) <= Cardinality(T)
  BY <1>1, <1>2, FS_Subset
<1> QED BY <1>3 DEF Upto

\* What a turn still owes an item that is not in the bucket whose turn it is does not
\* count.
LEMMA OwesNothing ==
  ASSUME NEW u, NEW i, NEW l, NEW g, NEW m, NEW q, Times(u.bucket[l], i) # 1, InTime(u, i, l, g, m)
  PROVE  InTime(u, i, l, g, q)
BY DEF InTime

\* After n items of the list q of bucket b, in the round from u: the items still to
\* come are owed the turn, and are listed as often as they are to come.
ServedUpto(u, b, q, n, w) ==
  /\ w \in DecayStates /\ w.last = u.last /\ Stock(u, w)
  /\ \A j \in Objects : /\ Good(w, j, b, 1, IF Upto(q, n, j) < Times(q, j) THEN 4 ELSE 0)
                        /\ Times(w.bucket[b], j) >= Times(q, j) - Upto(q, n, j)

\* Items that are good before a round.
ReadyFor(u, b) ==
  /\ u \in DecayStates /\ b \in Buckets /\ \A i \in Objects : Good(u, i, b, 1, 4)
  /\ Cardinality(FreeIn(u)) >= MaxItems /\ Cardinality(HeldIn(u)) <= MaxItems

\* An item in the world is not free.
LEMMA HeldNotFree ==
  ASSUME NEW u \in DecayStates, \A i \in Objects : Counted(u, i, 0)
  PROVE  HeldIn(u) \intersect FreeIn(u) = {}
<1> SUFFICES ASSUME NEW i \in HeldIn(u), i \in FreeIn(u) PROVE FALSE
  OBVIOUS
<1>1. i \in Objects /\ u.held[i] /\ u.refs[i] = 0
  BY DEF HeldIn, FreeIn
<1>2. Counted(u, i, 0)
  BY <1>1
<1>3. u.refs[i] > 0 /\ u.refs[i] \in Nat
  BY <1>1, <1>2, NotFreed
<1> QED BY <1>1, <1>3

\* Before the first item nothing has happened.
LEMMA RoundStarts ==
  ASSUME NEW u, NEW b, ReadyFor(u, b), NEW q, q = u.bucket[b]
  PROVE  ServedUpto(u, b, q, 0, u)
<1>1. u \in DecayStates /\ b \in Buckets /\ \A i \in Objects : Good(u, i, b, 1, 4)
  BY DEF ReadyFor
<1>2. Stock(u, u)
  <2>1. HeldIn(u) \in SUBSET Objects /\ FreeIn(u) \in SUBSET Objects /\ HeldIn(u) \intersect HeldIn(u) = HeldIn(u)
    BY DEF HeldIn, FreeIn
  <2>2. Cardinality(HeldIn(u)) \in Nat /\ Cardinality(FreeIn(u)) \in Nat /\ MaxItems \in Nat
    BY <2>1, ObjectsFinite, DecayAssumption
  <2>3. Cardinality(FreeIn(u)) >= Cardinality(HeldIn(u)) /\ Cardinality(HeldIn(u)) <= MaxItems
    BY <2>2 DEF ReadyFor
  <2> QED BY <2>1, <2>3 DEF Stock
<1>3. ASSUME NEW j \in Objects
      PROVE  /\ Good(u, j, b, 1, IF Upto(q, 0, j) < Times(q, j) THEN 4 ELSE 0)
             /\ Times(u.bucket[b], j) >= Times(q, j) - Upto(q, 0, j)
  <2>1. Times(q, j) \in Nat
    BY <1>1, ListingsAre
  <2>2. PICK z \in Nat : z = 0
    OBVIOUS
  <2>3. Upto(q, z, j) = 0
    BY <2>2, UptoIs
  <2>4. Upto(q, 0, j) = 0
    BY <2>2, <2>3
  <2>5. Good(u, j, b, 1, 0) \/ Times(q, j) > 0
    <3>1. CASE Times(q, j) = 0
      <4>1. InTime(u, j, b, 1, 4) /\ Times(u.bucket[b], j) # 1
        BY <1>1, <3>1 DEF Good
      <4>2. InTime(u, j, b, 1, 0)
        BY <4>1, OwesNothing
      <4> QED BY <1>1, <4>2 DEF Good
    <3> QED BY <2>1, <3>1
  <2> QED BY <1>1, <2>1, <2>4, <2>5
<1> QED BY <1>1, <1>2, <1>3 DEF ServedUpto

\* One item more.
LEMMA RoundGoesOn ==
  ASSUME NEW u, NEW b, ReadyFor(u, b), NEW q, q = u.bucket[b], NEW n \in Nat, n < Len(q),
         NEW w, ServedUpto(u, b, q, n, w), NEW v, v = Served(w, b, q[n + 1])
  PROVE  ServedUpto(u, b, q, n + 1, v)
<1>1. /\ u \in DecayStates /\ b \in Buckets /\ \A i \in Objects : Good(u, i, b, 1, 4)
  BY DEF ReadyFor
<1>2. /\ w \in DecayStates /\ w.last = u.last /\ Stock(u, w)
      /\ \A j \in Objects : /\ Good(w, j, b, 1, IF Upto(q, n, j) < Times(q, j) THEN 4 ELSE 0)
                            /\ Times(w.bucket[b], j) >= Times(q, j) - Upto(q, n, j)
  BY DEF ServedUpto
<1>3. PICK N \in Nat, s \in Seq(Objects) : N = Len(s) /\ s = q
  BY <1>1 DEF DecayStates
<1>4. n + 1 \in 1..N /\ n + 1 \in 0..N /\ n \in 0..N /\ n + 1 \in Nat
  BY <1>3
<1>5. PICK i \in Objects : i = q[n + 1]
  BY <1>3, <1>4
<1>6. \A j : /\ Times(q, j) \in Nat /\ Upto(q, n, j) \in Nat
             /\ Upto(q, n + 1, j) = Upto(q, n, j) + (IF i = j THEN 1 ELSE 0)
             /\ Upto(q, n + 1, j) <= Times(q, j)
  <2> TAKE j
  <2>1. Times(s, j) \in Nat /\ Times(s, j) = Upto(s, N, j)
    BY <1>3, TimesIs
  <2>2. Upto(s, n, j) \in Nat /\ Upto(s, n + 1, j) = Upto(s, n, j) + IF s[n + 1] = j THEN 1 ELSE 0
    BY UptoIs
  <2>3. PICK k \in 0..N : k = n + 1
    BY <1>4
  <2>4. Upto(s, k, j) <= Upto(s, N, j)
    BY UptoGrows
  <2> QED BY <1>3, <1>5, <2>1, <2>2, <2>3, <2>4
<1>7. Upto(q, n, i) < Times(q, i)
  BY <1>6
<1>8. Good(w, i, b, 1, 4)
  BY <1>2, <1>7
<1>9. Times(w.bucket[b], i) >= Times(q, i) - Upto(q, n, i) /\ Times(w.bucket[b], i) \in Nat
  BY <1>2, <1>1, ListingsAre
<1>10. Times(w.bucket[b], i) > 0
  BY <1>6, <1>7, <1>9
<1>11. \A j \in Objects : Counted(u, j, 0) /\ Counted(w, j, 0)
  BY <1>1, <1>2 DEF Good
<1>12. HeldIn(u) \intersect FreeIn(u) = {}
  BY <1>1, <1>11, HeldNotFree
<1>13. i \notin FreeIn(u)
  <2>1. Times(u.bucket[b], i) > 0
    BY <1>6, <1>7
  <2>2. /\ Listings(u, i) \in Nat /\ Times(u.toDecay, i) \in Nat
        /\ Times(u.bucket[b], i) \in Nat /\ Times(u.bucket[b], i) + Times(u.toDecay, i) <= Listings(u, i)
    BY <1>1, ListingsTyped
  <2>3. Listings(u, i) > 0
    BY <2>1, <2>2
  <2>4. u.refs[i] > 0 /\ u.refs[i] \in Nat
    BY <1>1, <1>11, <2>3, NotFreed
  <2> QED BY <2>4 DEF FreeIn
<1>14. w.held[i] => AllFresh(w)
  <2> SUFFICES ASSUME w.held[i] PROVE AllFresh(w)
    OBVIOUS
  <2>1. i \in HeldIn(u) \intersect HeldIn(w)
    BY <1>2, <1>13 DEF Stock, HeldIn
  <2>2. HeldIn(u) \intersect HeldIn(w) \in SUBSET Objects /\ FreeIn(w) \in SUBSET Objects
    BY DEF HeldIn, FreeIn
  <2>3. /\ IsFiniteSet(HeldIn(u) \intersect HeldIn(w)) /\ Cardinality(HeldIn(u) \intersect HeldIn(w)) \in Nat
        /\ Cardinality(FreeIn(w)) \in Nat
    BY <2>2, ObjectsFinite
  <2>4. Cardinality(HeldIn(u) \intersect HeldIn(w)) # 0
    BY <2>1, <2>3, FS_EmptySet
  <2>5. Cardinality(FreeIn(w)) # 0
    BY <1>2, <2>3, <2>4 DEF Stock
  <2>6. FreeIn(w) # {}
    BY <2>5, FS_EmptySet
  <2> QED BY <1>11, <2>6 DEF AllFresh, FreeIn
<1>15. ServedRight(w, v, b, i)
  BY <1>1, <1>2, <1>5, <1>8, <1>10, <1>14, ServedGood
<1>16. /\ v \in DecayStates /\ v.last = w.last
       /\ Good(v, i, b, 1, 0) /\ (Listings(w, i) > 1 => Good(v, i, b, 1, 4))
       /\ OthersGood(w, v, i, b, 1) /\ Swapped(w, v, i)
       /\ \A j \in Objects : Times(v.bucket[b], j) >= Times(w.bucket[b], j) - IF j = i THEN 1 ELSE 0
  BY <1>15 DEF ServedRight
<1>17. Stock(u, v)
  BY <1>2, <1>12, <1>13, <1>16, StockKept
<1>18. ASSUME NEW j \in Objects
       PROVE  /\ Good(v, j, b, 1, IF Upto(q, n + 1, j) < Times(q, j) THEN 4 ELSE 0)
              /\ Times(v.bucket[b], j) >= Times(q, j) - Upto(q, n + 1, j)
  <2>1. /\ Times(q, j) \in Nat /\ Upto(q, n, j) \in Nat
        /\ Upto(q, n + 1, j) = Upto(q, n, j) + (IF i = j THEN 1 ELSE 0)
        /\ Times(w.bucket[b], j) \in Nat /\ Times(v.bucket[b], j) \in Nat
    BY <1>1, <1>2, <1>6, <1>16, ListingsAre
  <2>2. Times(v.bucket[b], j) >= Times(q, j) - Upto(q, n + 1, j)
    BY <1>2, <1>16, <2>1
  <2>3. CASE j # i
    <3>1. Upto(q, n + 1, j) = Upto(q, n, j)
      BY <2>1, <2>3
    <3>2. Good(w, j, b, 1, IF Upto(q, n, j) < Times(q, j) THEN 4 ELSE 0)
      BY <1>2
    <3>3. PICK m : m = IF Upto(q, n, j) < Times(q, j) THEN 4 ELSE 0
      OBVIOUS
    <3>4. Good(v, j, b, 1, m)
      BY <1>16, <2>3, <3>2, <3>3 DEF OthersGood
    <3> QED BY <2>2, <3>1, <3>3, <3>4
  <2>4. CASE j = i
    <3>1. CASE Upto(q, n + 1, i) < Times(q, i)
      <4>1. Times(w.bucket[b], i) > 1
        BY <1>9, <2>1, <2>4, <3>1
      <4>2. /\ Listings(w, i) \in Nat /\ Times(w.toDecay, i) \in Nat
            /\ Times(w.bucket[b], i) \in Nat /\ Times(w.bucket[b], i) + Times(w.toDecay, i) <= Listings(w, i)
        BY <1>1, <1>2, ListingsTyped
      <4>3. Listings(w, i) > 1
        BY <4>1, <4>2
      <4> QED BY <1>16, <2>2, <2>4, <3>1, <4>3
    <3>2. CASE ~(Upto(q, n + 1, i) < Times(q, i))
      BY <1>16, <2>2, <2>4, <3>2
    <3> QED BY <3>1, <3>2
  <2> QED BY <2>3, <2>4
<1> QED BY <1>2, <1>16, <1>17, <1>18 DEF ServedUpto

\* After a round the items are good, and nothing is owed.
LEMMA RoundGood ==
  ASSUME NEW u, NEW b, ReadyFor(u, b), NEW v, v = Round(u, b)
  PROVE  /\ v \in DecayStates /\ v.last = u.last /\ Cardinality(HeldIn(v)) <= MaxItems
         /\ \A i \in Objects : Good(v, i, b, 1, 0)
<1>1. u \in DecayStates /\ b \in Buckets
  BY DEF ReadyFor
<1>2. PICK q : q = u.bucket[b]
  OBVIOUS
<1>3. PICK N \in Nat : N = Len(q)
  BY <1>1, <1>2 DEF DecayStates
<1>4. EndsIn(Serving(u, b), q, u, N, v)
  BY <1>1, <1>2, <1>3, RoundRuns
<1>5. PICK r : Runs(Serving(u, b), q, u, N, r) /\ r[N] = v
  BY <1>4 DEF EndsIn
<1>6. r[0] = u /\ \A n \in 1..N : r[n] = Served(r[n - 1], b, q[n])
  BY <1>5 DEF Runs, Do, Serving
<1> DEFINE P(n) == ServedUpto(u, b, q, n, r[n])
           Bad == {n \in 0..N : ~P(n)}
<1>7. P(0)
  BY <1>2, <1>6, RoundStarts
<1>8. ASSUME NEW n \in 0..N, n # 0, P(n - 1) PROVE P(n)
  <2>1. PICK k \in Nat : k = n - 1 /\ k < N /\ n = k + 1 /\ n \in 1..N
    BY <1>8
  <2>2. PICK w : w = r[k] /\ ServedUpto(u, b, q, k, w)
    BY <1>8, <2>1
  <2>3. PICK x : x = r[n] /\ x = Served(w, b, q[k + 1])
    BY <1>6, <2>1, <2>2
  <2>4. ServedUpto(u, b, q, k + 1, x)
    BY <1>2, <1>3, <2>1, <2>2, <2>3, RoundGoesOn
  <2> QED BY <2>1, <2>3, <2>4
<1>9. Bad = {}
  <2> HIDE DEF P
  <2> SUFFICES ASSUME Bad # {} PROVE FALSE
    OBVIOUS
  <2>1. Bad \in SUBSET Nat
    OBVIOUS
  <2>2. PICK n \in Bad : \A m \in Bad : n <= m
    BY <2>1, LeastNumber
  <2>3. n # 0
    BY <1>7, <2>2
  <2>4. n - 1 \in 0..N /\ n - 1 \notin Bad
    BY <2>2, <2>3
  <2> QED BY <1>8, <2>2, <2>3, <2>4
<1>10. N \in 0..N
  OBVIOUS
<1>11. ServedUpto(u, b, q, N, v)
  BY <1>5, <1>9, <1>10
<1>12. ASSUME NEW j \in Objects PROVE Good(v, j, b, 1, 0)
  <2>1. q \in Seq(Objects)
    BY <1>1, <1>2 DEF DecayStates
  <2>2. Times(q, j) = Upto(q, N, j) /\ Times(q, j) \in Nat
    BY <1>3, <2>1, TimesIs
  <2> QED BY <1>11, <2>2 DEF ServedUpto
<1> QED BY <1>11, <1>12 DEF ServedUpto, Stock

\* Game::cleanup gives back the references and frees the objects that have none left.
Reset(u, v) ==
  /\ v \in DecayStates /\ v.last = u.last /\ v.toDecay = u.toDecay /\ v.bucket = u.bucket /\ v.held = u.held
  /\ \A i \in Objects :
       /\ v.refs[i] = u.refs[i] - u.released[i] /\ v.released[i] = 0
       /\ v.refs[i] # 0 => /\ v.kind[i] = u.kind[i] /\ v.dur[i] = u.dur[i] /\ v.mark[i] = u.mark[i]
                           /\ v.asked[i] = u.asked[i] /\ v.spent[i] = u.spent[i]
                           /\ v.copied[i] = u.copied[i]
       /\ v.refs[i] = 0 => ~v.mark[i] /\ ~v.copied[i] /\ v.asked[i] = 0

\* The first half of Game::cleanup, before the new items are placed.
LEMMA ResetIs ==
  ASSUME NEW u \in DecayStates
  PROVE  \E v : Reset(u, v) /\ Freed(u) = [Placed(u, v) EXCEPT !.toDecay = << >>]
<1> DEFINE refs == [i \in Objects |-> u.refs[i] - u.released[i]]
           none == [i \in Objects |-> 0]
           kind == [i \in Objects |-> IF refs[i] = 0 THEN Never ELSE u.kind[i]]
           dur == [i \in Objects |-> IF refs[i] = 0 THEN 0 ELSE u.dur[i]]
           mark == [i \in Objects |-> IF refs[i] = 0 THEN FALSE ELSE u.mark[i]]
           asked == [i \in Objects |-> IF refs[i] = 0 THEN 0 ELSE u.asked[i]]
           spent == [i \in Objects |-> IF refs[i] = 0 THEN 0 ELSE u.spent[i]]
           copied == [i \in Objects |-> IF refs[i] = 0 THEN FALSE ELSE u.copied[i]]
           v == [u EXCEPT !.refs = refs, !.released = none, !.kind = kind, !.dur = dur, !.mark = mark,
                          !.asked = asked, !.spent = spent, !.copied = copied]
<1>1. Freed(u) = [Placed(u, v) EXCEPT !.toDecay = << >>]
  <2> DEFINE Kept(f, z) == [i \in Objects |-> IF refs[i] = 0 THEN z ELSE f[i]]
             v0 == [u EXCEPT !.refs = refs, !.released = [i \in Objects |-> 0],
                             !.kind = Kept(@, Never), !.dur = Kept(@, 0), !.mark = Kept(@, FALSE),
                             !.asked = Kept(@, 0), !.spent = Kept(@, 0), !.copied = Kept(@, FALSE)]
  <2>1. Freed(u) = [Placed(u, v0) EXCEPT !.toDecay = << >>]
    BY DEF Freed
  <2>2. v0 = v
    OBVIOUS
  <2> HIDE DEF v0, v
  <2> QED BY <2>1, <2>2
<1>2. /\ refs \in [Objects -> Int] /\ none \in [Objects -> Nat] /\ kind \in [Objects -> Kinds \union {Never}]
      /\ dur \in [Objects -> Durations] /\ mark \in [Objects -> BOOLEAN] /\ asked \in [Objects -> Durations]
      /\ spent \in [Objects -> Nat] /\ copied \in [Objects -> BOOLEAN]
  <2>1. refs \in [Objects -> Int] /\ none \in [Objects -> Nat]
    BY DEF DecayStates
  <2> HIDE DEF refs
  <2>2. kind \in [Objects -> Kinds \union {Never}] /\ mark \in [Objects -> BOOLEAN] /\ copied \in [Objects -> BOOLEAN]
    BY DEF DecayStates
  <2>3. dur \in [Objects -> Durations] /\ asked \in [Objects -> Durations] /\ spent \in [Objects -> Nat]
    BY DurationsAre DEF DecayStates
  <2> QED BY <2>1, <2>2, <2>3
<1>3. ASSUME NEW i \in Objects
      PROVE  /\ refs[i] = u.refs[i] - u.released[i] /\ none[i] = 0
             /\ refs[i] # 0 => /\ kind[i] = u.kind[i] /\ dur[i] = u.dur[i] /\ mark[i] = u.mark[i]
                               /\ asked[i] = u.asked[i] /\ spent[i] = u.spent[i] /\ copied[i] = u.copied[i]
             /\ refs[i] = 0 => ~mark[i] /\ ~copied[i] /\ asked[i] = 0
  OBVIOUS
<1> HIDE DEF refs, none, kind, dur, mark, asked, spent, copied
<1>4. /\ v.refs = refs /\ v.released = none /\ v.kind = kind /\ v.dur = dur /\ v.mark = mark
      /\ v.asked = asked /\ v.spent = spent /\ v.copied = copied
      /\ v.last = u.last /\ v.toDecay = u.toDecay /\ v.bucket = u.bucket /\ v.held = u.held
      /\ v \in DecayStates
  BY <1>2 DEF DecayStates
<1> HIDE DEF v
<1>5. Reset(u, v)
  BY <1>3, <1>4 DEF Reset
<1> QED BY <1>1, <1>5

\* Items change only in which bucket they are.
ButBuckets(v, w) ==
  /\ w \in DecayStates /\ w.last = v.last /\ w.toDecay = v.toDecay /\ w.held = v.held
  /\ w.kind = v.kind /\ w.dur = v.dur /\ w.mark = v.mark /\ w.refs = v.refs /\ w.released = v.released
  /\ w.asked = v.asked /\ w.spent = v.spent /\ w.copied = v.copied

\* The first n of the listed items are in their buckets.
PlacedUpto(u, v, n, w) ==
  /\ ButBuckets(v, w)
  /\ \A c \in Buckets, i \in Objects :
       Times(w.bucket[c], i) = Times(v.bucket[c], i) + IF c = BucketFor(u, i) THEN Upto(u.toDecay, n, i) ELSE 0

\* A new item has a bucket; if it has time left, it is the one served last.
LEMMA BucketForIs ==
  ASSUME NEW u \in DecayStates, NEW i \in Objects
  PROVE  BucketFor(u, i) \in Buckets /\ (u.dur[i] > 0 => BucketFor(u, i) = u.last)
<1>1. PICK t \in Durations, l \in {0, 1, 2, 3} : t = u.dur[i] /\ l = u.last
  BY BucketsAre DEF DecayStates
<1>2. PICK n \in Nat : t = 1000 * n
  BY DurationsAre
<1>3. BucketFor(u, i) = IF t >= 1000 THEN l ELSE (l + 1 + (t \div 1000)) % 4
  BY <1>1, BucketsAre DEF BucketFor
<1>4. (l + 1 + (t \div 1000)) % 4 \in {0, 1, 2, 3}
  <2>1. t \div 1000 = n
    BY <1>2
  <2> QED BY <2>1
<1>5. t > 0 => t >= 1000
  BY <1>2
<1> QED BY <1>1, <1>3, <1>4, <1>5, BucketsAre

\* One item more is placed.
LEMMA PlacingGoesOn ==
  ASSUME NEW u \in DecayStates, NEW v \in DecayStates, NEW n \in Nat, NEW i \in Objects, i = u.toDecay[n + 1],
         NEW w, PlacedUpto(u, v, n, w), NEW x, x = [w EXCEPT !.bucket[BucketFor(u, i)] = Append(@, i)]
  PROVE  PlacedUpto(u, v, n + 1, x)
<1>1. PICK b \in Buckets : b = BucketFor(u, i)
  BY BucketForIs
<1>2. w \in DecayStates /\ ButBuckets(v, w)
  BY DEF PlacedUpto, ButBuckets
<1>3. PICK q : q = Append(w.bucket[b], i)
  OBVIOUS
<1>4. w.bucket[b] \in Seq(Objects)
  BY <1>2 DEF DecayStates
<1>5. q \in Seq(Objects) /\ \A j : Times(q, j) = Times(w.bucket[b], j) + IF i = j THEN 1 ELSE 0
  BY <1>3, <1>4, TimesAppended
<1>6. PICK f : f = [w.bucket EXCEPT ![b] = q]
  OBVIOUS
<1>7. f \in [Buckets -> Seq(Objects)]
  BY <1>2, <1>5, <1>6 DEF DecayStates
<1>8. x = [w EXCEPT !.bucket = f]
  <2>1. x = [w EXCEPT !.bucket[b] = Append(@, i)]
    BY <1>1, Zenon
  <2>2. x = [w EXCEPT !.bucket = [w.bucket EXCEPT ![b] = Append(w.bucket[b], i)]]
    BY <2>1, Zenon
  <2> QED BY <1>3, <1>6, <2>2, Zenon
<1>9. ButBuckets(v, x) /\ x.bucket = f
  <2>1. x \in DecayStates
    BY <1>2, <1>7, <1>8 DEF DecayStates
  <2>2. /\ x.last = w.last /\ x.toDecay = w.toDecay /\ x.held = w.held /\ x.kind = w.kind /\ x.dur = w.dur
        /\ x.mark = w.mark /\ x.refs = w.refs /\ x.released = w.released
        /\ x.asked = w.asked /\ x.spent = w.spent /\ x.copied = w.copied /\ x.bucket = f
    BY <1>2, <1>8 DEF DecayStates
  <2> QED BY <1>2, <2>1, <2>2, Zenon DEF ButBuckets
<1>10. ASSUME NEW c \in Buckets, NEW j \in Objects
       PROVE  Times(f[c], j) = Times(v.bucket[c], j) + IF c = BucketFor(u, j) THEN Upto(u.toDecay, n + 1, j) ELSE 0
  <2>1. Times(w.bucket[c], j) = Times(v.bucket[c], j) + IF c = BucketFor(u, j) THEN Upto(u.toDecay, n, j) ELSE 0
    BY DEF PlacedUpto
  <2>2. Upto(u.toDecay, n, j) \in Nat /\ Upto(u.toDecay, n + 1, j) = Upto(u.toDecay, n, j) + IF u.toDecay[n + 1] = j THEN 1 ELSE 0
    BY UptoIs
  <2>3. Times(v.bucket[c], j) \in Nat
    BY ListingsAre
  <2>4. Times(f[c], j) = Times(w.bucket[c], j) + IF c = b /\ i = j THEN 1 ELSE 0
    <3>1. Times(w.bucket[c], j) \in Nat
      BY <1>2, ListingsAre
    <3>2. CASE c = b
      <4>1. f[c] = q
        BY <1>2, <1>6, <3>2 DEF DecayStates
      <4> QED BY <1>5, <3>2, <4>1
    <3>3. CASE c # b
      <4>1. f[c] = w.bucket[c]
        BY <1>2, <1>6, <3>3 DEF DecayStates
      <4> QED BY <3>1, <3>3, <4>1
    <3> QED BY <3>2, <3>3
  <2>5. CASE i = j
    <3>1. /\ c = BucketFor(u, j) <=> c = b
          /\ Upto(u.toDecay, n + 1, j) = Upto(u.toDecay, n, j) + 1
      BY <1>1, <2>2, <2>5
    <3>2. CASE c = b
      BY <2>1, <2>2, <2>3, <2>4, <2>5, <3>1, <3>2
    <3>3. CASE c # b
      BY <2>1, <2>3, <2>4, <3>1, <3>3
    <3> QED BY <3>2, <3>3
  <2>6. CASE i # j
    <3>1. /\ Upto(u.toDecay, n + 1, j) = Upto(u.toDecay, n, j)
          /\ Times(f[c], j) = Times(w.bucket[c], j)
      <4>1. PICK k \in Nat : k = Times(w.bucket[c], j)
        BY <1>2, ListingsAre
      <4> QED BY <2>2, <2>4, <2>6, <4>1
    <3> QED BY <2>1, <3>1, Zenon
  <2> QED BY <2>5, <2>6
<1> QED BY <1>9, <1>10 DEF PlacedUpto

\* Every listed item is put in its bucket.
LEMMA PlacedAre ==
  ASSUME NEW u \in DecayStates, NEW v \in DecayStates, NEW p, p = Placed(u, v)
  PROVE  /\ ButBuckets(v, p)
         /\ \A c \in Buckets, i \in Objects :
              Times(p.bucket[c], i) = Times(v.bucket[c], i) + IF c = BucketFor(u, i) THEN Times(u.toDecay, i) ELSE 0
<1>1. PICK q \in Seq(Objects) : q = u.toDecay
  BY DEF DecayStates
<1>2. PICK N \in Nat : N = Len(q)
  BY <1>1
<1>3. EndsIn(Placing(u), q, v, N, p)
  BY <1>1, <1>2, PlacedRuns
<1>4. PICK r : Runs(Placing(u), q, v, N, r) /\ r[N] = p
  BY <1>3 DEF EndsIn
<1>5. r[0] = v /\ \A n \in 1..N : r[n] = [r[n - 1] EXCEPT !.bucket[BucketFor(u, q[n])] = Append(@, q[n])]
  BY <1>4 DEF Runs, Do, Placing
<1> DEFINE P(n) == PlacedUpto(u, v, n, r[n])
           Bad == {n \in 0..N : ~P(n)}
<1>6. P(0)
  <2>1. PICK z \in Nat : z = 0
    OBVIOUS
  <2>2. \A i : Upto(u.toDecay, z, i) = 0
    BY <2>1, UptoIs
  <2>3. \A c \in Buckets, i \in Objects : Times(v.bucket[c], i) \in Nat
    BY ListingsAre
  <2>4. ButBuckets(v, v)
    BY DEF ButBuckets
  <2> QED BY <1>5, <2>1, <2>2, <2>3, <2>4 DEF PlacedUpto
<1>7. ASSUME NEW n \in 0..N, n # 0, P(n - 1) PROVE P(n)
  <2>1. PICK k \in Nat : k = n - 1 /\ k < N /\ n = k + 1 /\ n \in 1..N
    BY <1>7
  <2>2. PICK w : w = r[k] /\ PlacedUpto(u, v, k, w)
    BY <1>7, <2>1
  <2>3. PICK i \in Objects : i = q[n]
    BY <1>1, <1>2, <2>1
  <2>4. PICK x : x = r[n]
    OBVIOUS
  <2>5. x = [w EXCEPT !.bucket[BucketFor(u, i)] = Append(@, i)]
    BY <1>5, <2>1, <2>2, <2>3, <2>4
  <2>6. i = u.toDecay[k + 1]
    BY <1>1, <2>1, <2>3
  <2>7. PlacedUpto(u, v, k + 1, x)
    BY <2>2, <2>5, <2>6, PlacingGoesOn
  <2> QED BY <2>1, <2>4, <2>7
<1>8. Bad = {}
  <2> HIDE DEF P
  <2> SUFFICES ASSUME Bad # {} PROVE FALSE
    OBVIOUS
  <2>1. Bad \in SUBSET Nat
    OBVIOUS
  <2>2. PICK n \in Bad : \A m \in Bad : n <= m
    BY <2>1, LeastNumber
  <2>3. n # 0
    BY <1>6, <2>2
  <2>4. n - 1 \in 0..N /\ n - 1 \notin Bad
    BY <2>2, <2>3
  <2> QED BY <1>7, <2>2, <2>3, <2>4
<1>9. N \in 0..N
  OBVIOUS
<1>10. PlacedUpto(u, v, N, p)
  BY <1>4, <1>8, <1>9
<1>11. \A i : Times(u.toDecay, i) = Upto(u.toDecay, N, i)
  BY <1>1, <1>2, TimesIs
<1> QED BY <1>10, <1>11 DEF PlacedUpto

\* After Game::cleanup every item is good, and what was listed is in its bucket.
LEMMA FreedGood ==
  ASSUME NEW u \in DecayStates, NEW g \in {0, 1}, \A i \in Objects : Good(u, i, u.last, g, 0),
         NEW v, v = Freed(u)
  PROVE  /\ v \in DecayStates /\ v.last = u.last /\ HeldIn(v) = HeldIn(u)
         /\ \A i \in Objects : Good(v, i, v.last, 0, 0)
<1>1. PICK w : Reset(u, w) /\ v = [Placed(u, w) EXCEPT !.toDecay = << >>]
  BY ResetIs
<1>2. /\ w \in DecayStates /\ w.last = u.last /\ w.toDecay = u.toDecay /\ w.bucket = u.bucket /\ w.held = u.held
      /\ \A i \in Objects :
           /\ w.refs[i] = u.refs[i] - u.released[i] /\ w.released[i] = 0
           /\ w.refs[i] # 0 => /\ w.kind[i] = u.kind[i] /\ w.dur[i] = u.dur[i] /\ w.mark[i] = u.mark[i]
                               /\ w.asked[i] = u.asked[i] /\ w.spent[i] = u.spent[i]
                               /\ w.copied[i] = u.copied[i]
           /\ w.refs[i] = 0 => ~w.mark[i] /\ ~w.copied[i] /\ w.asked[i] = 0
  BY <1>1 DEF Reset
<1>3. PICK p : p = Placed(u, w)
  OBVIOUS
<1>4. /\ ButBuckets(w, p)
      /\ \A c \in Buckets, i \in Objects :
           Times(p.bucket[c], i) = Times(u.bucket[c], i) + IF c = BucketFor(u, i) THEN Times(u.toDecay, i) ELSE 0
  BY <1>2, <1>3, PlacedAre
<1>5. << >> \in Seq(Objects)
  OBVIOUS
<1>6. /\ v \in DecayStates /\ v.last = u.last /\ v.toDecay = << >> /\ v.bucket = p.bucket /\ v.held = u.held
      /\ v.kind = w.kind /\ v.dur = w.dur /\ v.mark = w.mark /\ v.refs = w.refs /\ v.released = w.released
      /\ v.asked = w.asked /\ v.spent = w.spent /\ v.copied = w.copied
  BY <1>1, <1>2, <1>3, <1>4, <1>5 DEF ButBuckets, DecayStates
<1>7. HeldIn(v) = HeldIn(u)
  BY <1>6 DEF HeldIn
<1>8. ASSUME NEW i \in Objects PROVE Good(v, i, v.last, 0, 0)
  <2>1. Counted(u, i, 0) /\ Lasting(u, i) /\ Awaited(u, i) /\ InTime(u, i, u.last, g, 0)
    BY DEF Good
  <2>2. PICK b \in Buckets : b = BucketFor(u, i) /\ (u.dur[i] > 0 => b = u.last)
    BY BucketForIs
  <2>3. PICK t0 \in Nat, t1 \in Nat, t2 \in Nat, t3 \in Nat, t \in Nat :
          /\ t0 = Times(u.bucket[0], i) /\ t1 = Times(u.bucket[1], i)
          /\ t2 = Times(u.bucket[2], i) /\ t3 = Times(u.bucket[3], i) /\ t = Times(u.toDecay, i)
    BY ListingsAre, BucketsAre
  <2>4. Listings(u, i) = t + t0 + t1 + t2 + t3
    BY <2>3, ListingsAre
  <2>5. \A c \in Buckets : Times(v.bucket[c], i) = Times(u.bucket[c], i) + IF c = b THEN t ELSE 0
    BY <1>4, <1>6, <2>2, <2>3
  <2>6. Times(v.toDecay, i) = 0
    <3>1. Times(<< >>, i) \in Nat /\ Len(<< >>) = 0
          /\ (Times(<< >>, i) > 0 <=> \E j \in 1..Len(<< >>) : << >>[j] = i)
      BY <1>5, TimesIs
    <3> QED BY <1>6, <3>1
  <2>7. b \in {0, 1, 2, 3}
    BY BucketsAre
  <2>8. /\ Times(v.bucket[0], i) = t0 + (IF b = 0 THEN t ELSE 0)
        /\ Times(v.bucket[1], i) = t1 + (IF b = 1 THEN t ELSE 0)
        /\ Times(v.bucket[2], i) = t2 + (IF b = 2 THEN t ELSE 0)
        /\ Times(v.bucket[3], i) = t3 + (IF b = 3 THEN t ELSE 0)
    BY <2>3, <2>5, BucketsAre
  <2>9. Listings(v, i) = Listings(u, i)
    <3>1. Listings(v, i) = Times(v.toDecay, i) + Times(v.bucket[0], i) + Times(v.bucket[1], i)
                           + Times(v.bucket[2], i) + Times(v.bucket[3], i)
      BY <1>6, ListingsAre
    <3>2. PICK s0 \in Nat, s1 \in Nat, s2 \in Nat, s3 \in Nat :
            /\ s0 = Times(v.bucket[0], i) /\ s1 = Times(v.bucket[1], i)
            /\ s2 = Times(v.bucket[2], i) /\ s3 = Times(v.bucket[3], i)
      BY <2>3, <2>8
    <3>3. s0 + s1 + s2 + s3 = t + t0 + t1 + t2 + t3
      BY <2>7, <2>8, <3>2
    <3> QED BY <2>4, <2>6, <3>1, <3>2, <3>3
  <2>10. PICK h \in Nat, L \in Nat : h = (IF u.held[i] THEN 1 ELSE 0) /\ L = Listings(u, i)
    BY <2>4
  <2>11. u.released[i] \in Nat /\ u.refs[i] = h + L + u.released[i] + 0
    BY <2>1, <2>10 DEF Counted, DecayStates
  <2>12. v.refs[i] = h + L /\ v.released[i] = 0
    BY <1>2, <1>6, <2>11
  <2>13. u.held[i] \in BOOLEAN /\ v.held[i] = u.held[i]
    BY <1>6 DEF DecayStates
  <2>14. v.held[i] => v.refs[i] # 0
    BY <2>10, <2>12, <2>13
  <2>15. v.refs[i] # 0 => /\ v.kind[i] = u.kind[i] /\ v.dur[i] = u.dur[i] /\ v.mark[i] = u.mark[i]
                          /\ v.asked[i] = u.asked[i] /\ v.spent[i] = u.spent[i]
                          /\ v.copied[i] = u.copied[i]
    BY <1>2, <1>6
  <2>16. v.refs[i] = 0 => ~v.mark[i] /\ ~v.copied[i] /\ v.asked[i] = 0
    BY <1>2, <1>6
  <2>17. Counted(v, i, 0)
    <3>1. v.refs[i] = (IF v.held[i] THEN 1 ELSE 0) + Listings(v, i) + v.released[i] + 0
      BY <2>9, <2>10, <2>12, <2>13
    <3>2. v.held[i] => v.kind[i] \in Kinds
      BY <2>1, <2>13, <2>14, <2>15 DEF Counted
    <3>3. v.asked[i] > 0 => Listings(v, i) <= 1
      BY <2>1, <2>9, <2>15, <2>16 DEF Counted
    <3> QED BY <2>16, <3>1, <3>2, <3>3 DEF Counted
  <2>18. Lasting(v, i)
    BY <2>1, <2>13, <2>14, <2>15 DEF Lasting, CanDecay
  <2>19. Awaited(v, i)
    BY <2>1, <2>9, <2>13, <2>14, <2>15 DEF Awaited
  <2>20. InTime(v, i, v.last, 0, 0)
    <3> SUFFICES ASSUME v.asked[i] > 0, v.mark[i], NEW c \in Buckets, Times(v.bucket[c], i) = 1
                 PROVE  TurnsInAll(v, i, c, v.last) - 0 - (v.asked[i] \div Interval) \in {0, 1}
      BY <2>6 DEF InTime
    <3>1. v.refs[i] # 0
      BY <2>16
    <3>2. Listings(u, i) <= 1
      BY <2>1, <2>15, <3>1 DEF Counted
    <3>3. u.asked[i] > 0 /\ u.mark[i]
      BY <2>15, <3>1
    <3>4. TurnsInAll(v, i, c, v.last) = TurnsInAll(u, i, c, u.last)
      BY <1>6, <2>15, <3>1 DEF TurnsInAll
    <3>5. CASE t = 0
      <4>1. Times(u.bucket[c], i) = 1
        <5>1. Times(u.bucket[c], i) \in Nat
          BY ListingsAre
        <5> QED BY <2>5, <3>5, <5>1
      <4>2. TurnsInAll(u, i, c, u.last) - (IF c = u.last THEN 0 ELSE 0) - (u.asked[i] \div Interval) \in {0, 1}
        BY <2>1, <3>3, <4>1 DEF InTime
      <4> QED BY <2>15, <3>1, <3>4, <4>2
    <3>6. CASE t # 0
      <4>1. t = 1 /\ t0 = 0 /\ t1 = 0 /\ t2 = 0 /\ t3 = 0
        BY <2>4, <3>2, <3>6
      <4>2. u.dur[i] = u.asked[i] /\ u.spent[i] <= g
        BY <2>1, <2>3, <3>3, <4>1 DEF InTime
      <4>3. b = u.last
        BY <2>2, <3>3, <4>2
      <4>4. c = b
        <5>1. c \in {0, 1, 2, 3}
          BY BucketsAre
        <5>2. Times(u.bucket[c], i) = 0
          BY <2>3, <4>1, <5>1
        <5> QED BY <2>5, <5>2
      <4>5. PICK ms \in Durations : ms = u.dur[i]
        BY DEF DecayStates
      <4>6. PICK n \in Nat : ms = 1000 * n
        BY DurationsAre
      <4>7. ((c - u.last - 1) % NBuckets) + 1 = 4
        BY <2>7, <4>3, <4>4, BucketsAre
      <4>8. PICK s \in Nat : s = u.spent[i] /\ s \in {0, 1}
        <5>1. u.spent[i] \in Nat
          BY DEF DecayStates
        <5> QED BY <4>2, <5>1
      <4>9. TurnsInAll(u, i, c, u.last) = s + 4 * n
        <5>1. PICK z : z = ((c - u.last - 1) % NBuckets)
          OBVIOUS
        <5>2. c \in Int /\ u.last \in Int
          BY <2>7, <4>3, <4>4
        <5>3. z = 3
          BY <2>7, <4>3, <4>4, <5>1, BucketsAre
        <5>4. ms \div Turn = n
          BY <4>6, BucketsAre
        <5>5. TurnsInAll(u, i, c, u.last) = s + z + 1 + NBuckets * (n - 1)
          BY <4>5, <4>8, <5>1, <5>4 DEF TurnsInAll
        <5> QED BY <5>3, <5>5, BucketsAre
      <4>10. v.asked[i] \div Interval = 4 * n
        <5>1. v.asked[i] = ms
          BY <2>15, <3>1, <4>2, <4>5
        <5> QED BY <4>6, <5>1, BucketsAre
      <4> QED BY <3>4, <4>8, <4>9, <4>10
    <3> QED BY <3>5, <3>6
  <2> QED BY <2>17, <2>18, <2>19, <2>20 DEF Good
<1> QED BY <1>6, <1>7, <1>8

\* The remainder of a small number.
LEMMA SmallMod ==
  ASSUME NEW x \in Int, x >= -4, x < 4
  PROVE  x % 4 = IF x < 0 THEN x + 4 ELSE x
OBVIOUS

\* When the turn passes from bucket l to bucket b, bucket k is one turn nearer, or, if it
\* is k's turn, a full round away again.
LEMMA NextTurn ==
  ASSUME NEW k \in {0, 1, 2, 3}, NEW l \in {0, 1, 2, 3}, NEW b, b = (l + 1) % 4
  PROVE  ((k - b - 1) % 4) - (IF k = b THEN 4 ELSE 0) = ((k - l - 1) % 4) - 1
<1>1. b = IF l = 3 THEN 0 ELSE l + 1
  BY SmallMod
<1>2. b \in {0, 1, 2, 3}
  BY <1>1
<1>3. PICK x \in Int : x = k - b - 1 /\ x >= -4 /\ x < 4
  BY <1>1
<1>4. PICK ms \in Int : ms = k - l - 1 /\ ms >= -4 /\ ms < 4
  OBVIOUS
<1>5. x % 4 = (IF x < 0 THEN x + 4 ELSE x) /\ ms % 4 = (IF ms < 0 THEN ms + 4 ELSE ms)
  BY <1>3, <1>4, SmallMod
<1>6. (IF x < 0 THEN x + 4 ELSE x) - (IF k = b THEN 4 ELSE 0) = (IF ms < 0 THEN ms + 4 ELSE ms) - 1
  BY <1>1, <1>3, <1>4
<1> QED BY <1>3, <1>4, <1>5, <1>6

\* What is left after a division by four.
LEMMA ModFour == ASSUME NEW n \in Int PROVE n % 4 \in Int
  OBVIOUS

\* The turns of an item in all, in numbers.
LEMMA TurnsAre ==
  ASSUME NEW u, NEW i, NEW c, NEW l
  PROVE  TurnsInAll(u, i, c, l) = u.spent[i] + ((c - l - 1) % 4) + 1 + 4 * ((u.dur[i] \div 1000) - 1)
  BY BucketsAre, Zenon DEF TurnsInAll

\* When the next bucket's turn comes, every item in a list has waited one turn more.
LEMMA WaitedGood ==
  ASSUME NEW u \in DecayStates, \A i \in Objects : Good(u, i, u.last, 0, 0),
         Cardinality(FreeIn(u)) >= MaxItems, Cardinality(HeldIn(u)) <= MaxItems,
         NEW b, b = (u.last + 1) % NBuckets, NEW v, v = Waited(u)
  PROVE  ReadyFor(v, b)
<1>1. PICK l \in {0, 1, 2, 3} : l = u.last
  BY BucketsAre DEF DecayStates
<1>2. b = (l + 1) % 4 /\ b \in {0, 1, 2, 3}
  BY <1>1, BucketsAre
<1> DEFINE timed(i) == u.asked[i] > 0 /\ Listings(u, i) = 1
           asked == [i \in Objects |-> IF timed(i) THEN u.asked[i] ELSE 0]
           spent == [i \in Objects |-> IF timed(i) THEN u.spent[i] + 1 ELSE 0]
<1>3. v = [u EXCEPT !.asked = asked, !.spent = spent]
  BY DEF Waited
<1>4. asked \in [Objects -> Durations] /\ spent \in [Objects -> Nat]
  BY DurationsAre DEF DecayStates
<1>5. ASSUME NEW i \in Objects
      PROVE  /\ timed(i) => asked[i] = u.asked[i] /\ spent[i] = u.spent[i] + 1
             /\ ~timed(i) => asked[i] = 0
  OBVIOUS
<1> HIDE DEF asked, spent
<1>6. /\ v \in DecayStates /\ v.last = u.last /\ v.toDecay = u.toDecay /\ v.bucket = u.bucket /\ v.held = u.held
      /\ v.kind = u.kind /\ v.dur = u.dur /\ v.mark = u.mark /\ v.refs = u.refs /\ v.released = u.released
      /\ v.asked = asked /\ v.spent = spent /\ v.copied = u.copied
  BY <1>3, <1>4 DEF DecayStates
<1>7. ASSUME NEW i \in Objects PROVE Good(v, i, b, 1, 4)
  <2>1. Counted(u, i, 0) /\ Lasting(u, i) /\ Awaited(u, i) /\ InTime(u, i, u.last, 0, 0)
    BY DEF Good
  <2>2. SameLists(u, v, i)
    BY <1>6 DEF SameLists
  <2>3. Listings(v, i) = Listings(u, i)
    BY <1>6, <2>2, SameListings
  <2>4. u.asked[i] \in Nat /\ u.spent[i] \in Nat
    BY DurationsAre DEF DecayStates
  <2>5. v.asked[i] > 0 => u.asked[i] > 0 /\ v.asked[i] = u.asked[i] /\ v.spent[i] = u.spent[i] + 1
    BY <1>5, <1>6
  <2>6. u.asked[i] = 0 => v.asked[i] = 0
    BY <1>5, <1>6, <2>4
  <2>7. Counted(v, i, 0)
    BY <1>6, <2>1, <2>3, <2>5, <2>6 DEF Counted
  <2>8. Lasting(v, i) /\ Awaited(v, i)
    BY <1>6, <2>1, <2>3 DEF Lasting, Awaited, CanDecay
  <2>9. InTime(v, i, b, 1, 4)
    <3> SUFFICES ASSUME v.asked[i] > 0, v.mark[i]
                 PROVE  /\ Times(v.toDecay, i) = 1 => v.dur[i] = v.asked[i] /\ v.spent[i] <= 1
                        /\ \A c \in Buckets : Times(v.bucket[c], i) = 1 =>
                             TurnsInAll(v, i, c, b) - (IF c = b THEN 4 ELSE 0) - (v.asked[i] \div Interval) \in {0, 1}
      BY DEF InTime
    <3>1. /\ Times(u.toDecay, i) = 1 => u.dur[i] = u.asked[i] /\ u.spent[i] <= 0
          /\ \A c \in Buckets : Times(u.bucket[c], i) = 1 =>
               TurnsInAll(u, i, c, u.last) - (IF c = u.last THEN 0 ELSE 0) - (u.asked[i] \div Interval) \in {0, 1}
      BY <1>6, <2>1, <2>5 DEF InTime
    <3>2. Times(v.toDecay, i) = 1 => v.dur[i] = v.asked[i] /\ v.spent[i] <= 1
      BY <1>6, <2>4, <2>5, <3>1
    <3>3. ASSUME NEW c \in Buckets, Times(v.bucket[c], i) = 1
          PROVE  TurnsInAll(v, i, c, b) - (IF c = b THEN 4 ELSE 0) - (v.asked[i] \div Interval) \in {0, 1}
      <4>1. TurnsInAll(u, i, c, u.last) - 0 - (v.asked[i] \div Interval) \in {0, 1}
        BY <1>6, <2>5, <3>1, <3>3
      <4>2. PICK k \in {0, 1, 2, 3} : k = c
        BY BucketsAre
      <4>3. ((k - b - 1) % 4) - (IF k = b THEN 4 ELSE 0) = ((k - l - 1) % 4) - 1
        BY <1>1, <1>2, <4>2, NextTurn
      <4>4. PICK z \in Int : z = 4 * ((u.dur[i] \div 1000) - 1)
        <5>1. PICK ms \in Durations : ms = u.dur[i]
          BY DEF DecayStates
        <5>2. ms \in Nat
          BY DurationsAre
        <5> QED BY <5>1, <5>2
      <4>5. PICK x \in Int, e \in Int : x = (k - l - 1) % 4 /\ e = (k - b - 1) % 4
        <5>1. PICK p \in Int, q \in Int : p = k - l - 1 /\ q = k - b - 1
          BY <1>2
        <5>2. p % 4 \in Int /\ q % 4 \in Int
          BY ModFour
        <5> QED BY <5>1, <5>2, Zenon
      <4>6. /\ TurnsInAll(u, i, c, u.last) = u.spent[i] + x + 1 + z
            /\ TurnsInAll(v, i, c, b) = v.spent[i] + e + 1 + z
        <5>1. TurnsInAll(u, i, c, u.last) = u.spent[i] + ((c - u.last - 1) % 4) + 1 + 4 * ((u.dur[i] \div 1000) - 1)
          BY TurnsAre
        <5>2. TurnsInAll(v, i, c, b) = v.spent[i] + ((c - b - 1) % 4) + 1 + 4 * ((v.dur[i] \div 1000) - 1)
          BY TurnsAre
        <5>3. v.dur[i] = u.dur[i]
          BY <1>6
        <5>4. (c - u.last - 1) % 4 = x /\ (c - b - 1) % 4 = e
          BY <1>1, <4>2, <4>5, Zenon
        <5>5. 4 * ((v.dur[i] \div 1000) - 1) = z
          <6>1. PICK n : n = u.dur[i]
            OBVIOUS
          <6>2. v.dur[i] = n
            BY <5>3, <6>1, Zenon
          <6>3. z = 4 * ((n \div 1000) - 1)
            BY <4>4, <6>1, Zenon
          <6> QED BY <6>2, <6>3, Zenon
        <5>6. TurnsInAll(u, i, c, u.last) = u.spent[i] + x + 1 + z
          BY <4>4, <5>1, <5>4, Zenon
        <5>7. TurnsInAll(v, i, c, b) = v.spent[i] + e + 1 + z
          BY <5>2, <5>4, <5>5, Zenon
        <5> QED BY <5>6, <5>7
      <4>7. e - (IF k = b THEN 4 ELSE 0) = x - 1
        BY <4>3, <4>5
      <4>8. PICK s \in Nat : s = u.spent[i] /\ v.spent[i] = s + 1
        BY <2>4, <2>5
      <4>9. PICK m : m = IF k = b THEN 4 ELSE 0
        OBVIOUS
      <4>10. m \in Int
        BY <4>9
      <4>11. TurnsInAll(v, i, c, b) - m = TurnsInAll(u, i, c, u.last) - 0
        BY <4>4, <4>5, <4>6, <4>7, <4>8, <4>9, <4>10
      <4> QED BY <4>1, <4>2, <4>9, <4>11
    <3> QED BY <3>2, <3>3
  <2> QED BY <2>7, <2>8, <2>9 DEF Good
<1>8. FreeIn(v) = FreeIn(u) /\ HeldIn(v) = HeldIn(u)
  BY <1>6 DEF FreeIn, HeldIn
<1> QED BY <1>2, <1>6, <1>7, <1>8, BucketsAre DEF ReadyFor

\* What is demanded of all the items.
AllGood(u) == \A i \in Objects : Good(u, i, u.last, 0, 0)
InGoodOrder(u) == u \in DecayStates /\ Cardinality(HeldIn(u)) <= MaxItems /\ AllGood(u)

\* If one item changes and is good then, all are.
LEMMA OneChanged ==
  ASSUME NEW u, NEW v, NEW n \in Objects, OnlyThese(u, v, {n}), AllGood(u), Good(v, n, u.last, 0, 0)
  PROVE  v \in DecayStates /\ v.last = u.last /\ AllGood(v)
<1>1. /\ u \in DecayStates /\ v \in DecayStates /\ v.last = u.last
      /\ \A j \in Objects \ {n} : SameFields(u, v, j) /\ SameLists(u, v, j)
  BY DEF OnlyThese
<1>2. \A j \in Objects \ {n} : Good(u, j, u.last, 0, 0)
  BY DEF AllGood
<1>3. \A j \in Objects \ {n} : Good(v, j, u.last, 0, 0)
  BY <1>1, <1>2, SameIsGood
<1> QED BY <1>1, <1>3 DEF AllGood

\* startDecay leaves all items good.
LEMMA StartedGood ==
  ASSUME NEW u \in DecayStates, AllGood(u), NEW i \in Objects, NEW v, v = Started(u, i)
  PROVE  v \in DecayStates /\ v.last = u.last /\ AllGood(v) /\ HeldIn(v) = HeldIn(u)
<1>1. Counted(u, i, 0) /\ Lasting(u, i) /\ Awaited(u, i) /\ InTime(u, i, u.last, 0, 0)
  BY DEF AllGood, Good
<1>2. v = ListedIfDue(u, i)
  BY <1>1, StartedIs
<1>3. PICK z \in Nat, ms \in Nat : z = 0 /\ ms = 0
  OBVIOUS
<1>4. Counted(u, i, z) /\ InTime(u, i, u.last, ms, 0)
  BY <1>1, <1>3
<1>5. /\ OnlyThese(u, v, {i}) /\ v.held = u.held
      /\ Counted(v, i, z) /\ Lasting(v, i) /\ Awaited(v, i) /\ InTime(v, i, u.last, ms, 0)
  BY <1>1, <1>2, <1>4, ListedGood
<1>6. Good(v, i, u.last, 0, 0)
  BY <1>3, <1>5 DEF Good
<1> QED BY <1>5, <1>6, OneChanged DEF HeldIn

\* There is an object for a new item, and it is as good as new.
LEMMA RoomIsFresh ==
  ASSUME NEW u, InGoodOrder(u), Cardinality(FreeIn(u)) >= MaxItems,
         HeldIn(u) # {} \/ Cardinality(HeldIn(u)) < MaxItems
  PROVE  AllFresh(u)
<1>1. HeldIn(u) \in SUBSET Objects /\ FreeIn(u) \in SUBSET Objects
  BY DEF HeldIn, FreeIn
<1>2. IsFiniteSet(HeldIn(u)) /\ Cardinality(HeldIn(u)) \in Nat /\ Cardinality(FreeIn(u)) \in Nat
  BY <1>1, ObjectsFinite
<1>3. HeldIn(u) # {} => Cardinality(HeldIn(u)) # 0
  BY <1>2, FS_EmptySet
<1>4. Cardinality(FreeIn(u)) # 0
  BY <1>2, <1>3, DecayAssumption DEF InGoodOrder
<1>5. FreeIn(u) # {}
  BY <1>4, FS_EmptySet
<1> QED BY <1>1, <1>5 DEF AllFresh, InGoodOrder, AllGood, Good

\* Game::internalAddItem.
LEMMA AddedGood ==
  ASSUME NEW u, InGoodOrder(u), Cardinality(FreeIn(u)) >= MaxItems, Cardinality(HeldIn(u)) < MaxItems,
         NEW k \in Kinds, NEW w, w = Created(u, k), NEW n, n = NewObject(u),
         NEW v, v \in {w, Started(w, n)}
  PROVE  InGoodOrder(v)
<1>1. u \in DecayStates /\ AllFresh(u) /\ AllGood(u)
  BY RoomIsFresh DEF InGoodOrder
<1>2. /\ n \in FreeIn(u) /\ OnlyThese(u, w, {n}) /\ Good(w, n, u.last, 0, 0)
      /\ HeldIn(w) = HeldIn(u) \union {n} /\ n \notin HeldIn(u)
  BY <1>1, CreatedGood
<1>3. n \in Objects
  BY <1>2 DEF FreeIn
<1>4. w \in DecayStates /\ w.last = u.last /\ AllGood(w)
  BY <1>1, <1>2, <1>3, OneChanged
<1>5. Cardinality(HeldIn(w)) <= MaxItems
  <2>1. HeldIn(u) \in SUBSET Objects
    BY DEF HeldIn
  <2>2. IsFiniteSet(HeldIn(u)) /\ Cardinality(HeldIn(u)) \in Nat
    BY <2>1, ObjectsFinite
  <2>3. Cardinality(HeldIn(w)) = Cardinality(HeldIn(u)) + 1
    BY <1>2, <2>2, FS_AddElement
  <2> QED BY <2>2, <2>3, DecayAssumption
<1>6. CASE v = w
  BY <1>4, <1>5, <1>6 DEF InGoodOrder
<1>7. CASE v = Started(w, n)
  <2>1. v \in DecayStates /\ AllGood(v) /\ HeldIn(v) = HeldIn(w)
    BY <1>3, <1>4, <1>7, StartedGood
  <2> QED BY <1>5, <2>1 DEF InGoodOrder
<1> QED BY <1>6, <1>7

\* As many items are in the world when one takes the place of another.
LEMMA NoMoreHeld ==
  ASSUME NEW H \in SUBSET Objects, NEW i \in H, NEW n, n \notin H
  PROVE  Cardinality((H \ {i}) \union {n}) = Cardinality(H)
<1>1. IsFiniteSet(H) /\ Cardinality(H) \in Nat
  BY ObjectsFinite
<1>2. IsFiniteSet(H \ {i}) /\ Cardinality(H \ {i}) = Cardinality(H) - 1
  BY <1>1, FS_RemoveElement
<1>3. Cardinality((H \ {i}) \union {n}) = Cardinality(H \ {i}) + 1
  BY <1>2, FS_AddElement
<1> QED BY <1>1, <1>2, <1>3

\* What an item becomes leaves all items good.
LEMMA BecameGood ==
  ASSUME NEW u, InGoodOrder(u), NEW i \in Objects, NEW n, NEW v, Became(u, v, i, n, 0, u.last, 0, 0)
  PROVE  InGoodOrder(v)
<1>1. /\ v \in DecayStates /\ v.last = u.last /\ Fine(v, i, 0, u.last, 0, 0)
      /\ OthersGood(u, v, i, u.last, 0) /\ Swapped(u, v, i)
  BY DEF Became, Passed
<1>2. AllGood(v)
  <2>1. Good(v, i, u.last, 0, 0)
    BY <1>1 DEF Fine, Good
  <2>2. \A j \in Objects \ {i} : Good(v, j, u.last, 0, 0)
    BY <1>1 DEF OthersGood, InGoodOrder, AllGood
  <2> QED BY <1>1, <2>1, <2>2 DEF AllGood
<1>3. Cardinality(HeldIn(v)) <= MaxItems
  <2>1. HeldIn(u) \in SUBSET Objects /\ HeldIn(v) \in SUBSET Objects
    BY DEF HeldIn
  <2>2. IsFiniteSet(HeldIn(u)) /\ Cardinality(HeldIn(u)) \in Nat /\ Cardinality(HeldIn(v)) \in Nat
    BY <2>1, ObjectsFinite
  <2>3. CASE HeldIn(v) \subseteq HeldIn(u)
    <3>1. Cardinality(HeldIn(v)) <= Cardinality(HeldIn(u))
      BY <2>2, <2>3, FS_Subset
    <3> QED BY <2>2, <3>1, DecayAssumption DEF InGoodOrder
  <2>4. CASE \E o \in FreeIn(u) : i \in HeldIn(u) /\ HeldIn(v) = (HeldIn(u) \ {i}) \union {o}
    <3>1. PICK o \in FreeIn(u) : i \in HeldIn(u) /\ HeldIn(v) = (HeldIn(u) \ {i}) \union {o}
      BY <2>4
    <3>2. HeldIn(u) \intersect FreeIn(u) = {}
      BY HeldNotFree DEF InGoodOrder, AllGood, Good
    <3>3. Cardinality(HeldIn(v)) = Cardinality(HeldIn(u))
      BY <2>1, <3>1, <3>2, NoMoreHeld
    <3> QED BY <3>3 DEF InGoodOrder
  <2> QED BY <1>1, <2>3, <2>4 DEF Swapped
<1> QED BY <1>1, <1>2, <1>3 DEF InGoodOrder

\* Game::transformItem, and startDecay after it.
LEMMA TurnedGood ==
  ASSUME NEW u, InGoodOrder(u), Cardinality(FreeIn(u)) >= MaxItems, NEW i \in HeldIn(u), NEW k \in Kinds,
         NEW w, w = Transformed(u, i, k), NEW n, n = Becomes(u, i, k),
         NEW v, v \in {w, Started(w, n)}
  PROVE  InGoodOrder(v)
<1>1. /\ u \in DecayStates /\ AllFresh(u) /\ AllGood(u) /\ i \in Objects /\ u.held[i]
  BY RoomIsFresh DEF InGoodOrder, HeldIn
<1>2. Counted(u, i, 0) /\ Awaited(u, i) /\ InTime(u, i, u.last, 0, 0)
  BY <1>1 DEF AllGood, Good
<1>3. PICK z \in Nat : z = 0
  OBVIOUS
<1>4. Became(u, w, i, n, z, u.last, 0, 0)
  BY <1>1, <1>2, <1>3, TransformedGood
<1>5. InGoodOrder(w) /\ n \in Objects
  BY <1>1, <1>3, <1>4, BecameGood DEF Became
<1>6. CASE v = Started(w, n)
  <2>1. v \in DecayStates /\ AllGood(v) /\ HeldIn(v) = HeldIn(w)
    BY <1>5, <1>6, StartedGood DEF InGoodOrder
  <2> QED BY <1>5, <2>1 DEF InGoodOrder
<1> QED BY <1>5, <1>6

\* A stack is copied, with its mark and what is left of its time.
Copy(u, i, n) ==
  [Created(u, u.kind[i]) EXCEPT !.dur[n] = u.dur[i], !.mark[n] = u.mark[i], !.copied[n] = u.mark[i]]
IsCopied(u, v, i, n) ==
  /\ n \in Objects \ HeldIn(u) /\ OnlyThese(u, v, {n}) /\ Good(v, n, u.last, 0, 0)
  /\ HeldIn(v) = HeldIn(u) \union {n}

\* The copy of a stack is good, and the others are as they were.
LEMMA CopiedGood ==
  ASSUME NEW u, InGoodOrder(u), AllFresh(u), NEW i \in HeldIn(u), NEW n, n = NewObject(u),
         NEW v, v = Copy(u, i, n)
  PROVE  IsCopied(u, v, i, n)
<1>1. /\ u \in DecayStates /\ i \in Objects /\ u.held[i] /\ Good(u, i, u.last, 0, 0)
  BY DEF InGoodOrder, AllGood, HeldIn
<1>2. PICK k : k = u.kind[i]
  OBVIOUS
<1>3. k \in Kinds /\ Lasting(u, i)
  BY <1>1, <1>2 DEF Good, Counted
<1>4. PICK w : w = Created(u, k)
  OBVIOUS
<1>5. /\ n \in FreeIn(u) /\ OnlyThese(u, w, {n}) /\ SameLists(u, w, n)
      /\ w.held[n] /\ w.kind[n] = k /\ w.asked[n] = 0 /\ w.refs[n] = 1
      /\ Listings(w, n) = 0 /\ w.released[n] = 0
      /\ HeldIn(w) = HeldIn(u) \union {n} /\ n \notin HeldIn(u)
  BY <1>1, <1>3, <1>4, CreatedGood
<1>6. n \in Objects /\ n # i /\ w \in DecayStates /\ w.last = u.last
  BY <1>5 DEF FreeIn, OnlyThese
<1>7. PICK t, m, c : /\ t = [w.dur EXCEPT ![n] = u.dur[i]] /\ m = [w.mark EXCEPT ![n] = u.mark[i]]
                     /\ c = [w.copied EXCEPT ![n] = u.mark[i]]
  OBVIOUS
<1>8. t \in [Objects -> Durations] /\ m \in [Objects -> BOOLEAN] /\ c \in [Objects -> BOOLEAN]
  BY <1>1, <1>6, <1>7 DEF DecayStates
<1>9. v = [w EXCEPT !.dur = t, !.mark = m, !.copied = c]
  BY <1>2, <1>4, <1>6, <1>7 DEF Copy, DecayStates
<1>10. /\ v \in DecayStates /\ v.kind = w.kind /\ v.held = w.held /\ v.dur = t /\ v.mark = m
       /\ v.refs = w.refs /\ v.released = w.released /\ v.toDecay = w.toDecay /\ v.bucket = w.bucket
       /\ v.last = w.last /\ v.asked = w.asked /\ v.spent = w.spent /\ v.copied = c
  BY <1>6, <1>8, <1>9 DEF DecayStates
<1>11. /\ t[n] = u.dur[i] /\ m[n] = u.mark[i] /\ c[n] = u.mark[i]
       /\ \A j \in Objects \ {n} : t[j] = w.dur[j] /\ m[j] = w.mark[j] /\ c[j] = w.copied[j]
  BY <1>6, <1>7 DEF DecayStates
<1>12. OnlyThese(u, v, {n})
  BY <1>5, <1>6, <1>10, <1>11 DEF OnlyThese, SameFields, SameLists
<1>13. Good(v, n, u.last, 0, 0)
  <2>1. SameLists(w, v, n)
    BY <1>10 DEF SameLists
  <2>2. Listings(v, n) = 0
    BY <1>5, <1>6, <1>10, <2>1, SameListings
  <2>3. Counted(v, n, 0)
    BY <1>3, <1>5, <1>10, <2>2 DEF Counted
  <2>4. Lasting(v, n)
    BY <1>1, <1>2, <1>3, <1>5, <1>10, <1>11 DEF Lasting, CanDecay
  <2>5. Awaited(v, n) /\ InTime(v, n, u.last, 0, 0)
    BY <1>5, <1>10, <1>11 DEF Awaited, InTime
  <2> QED BY <2>3, <2>4, <2>5 DEF Good
<1>14. HeldIn(v) = HeldIn(u) \union {n}
  BY <1>5, <1>10 DEF HeldIn
<1> QED BY <1>5, <1>6, <1>12, <1>13, <1>14 DEF IsCopied

\* An item leaves the world.
LEMMA DroppedGood ==
  ASSUME NEW u \in DecayStates, AllGood(u), NEW i \in HeldIn(u), NEW v, v = Removed(u, i)
  PROVE  v \in DecayStates /\ v.last = u.last /\ AllGood(v) /\ HeldIn(v) = HeldIn(u) \ {i}
<1>1. i \in Objects /\ u.held[i] /\ Good(u, i, u.last, 0, 0)
  BY DEF HeldIn, AllGood
<1>2. PICK z \in Nat : z = 0
  OBVIOUS
<1>3. Counted(u, i, z) /\ InTime(u, i, u.last, 0, 0)
  BY <1>1, <1>2 DEF Good
<1>4. /\ OnlyThese(u, v, {i}) /\ Fine(v, i, z, u.last, 0, 0) /\ HeldIn(v) = HeldIn(u) \ {i}
  BY <1>1, <1>3, RemovedGood
<1>5. Good(v, i, u.last, 0, 0)
  BY <1>2, <1>4 DEF Fine, Good
<1> QED BY <1>1, <1>4, <1>5, OneChanged

\* Game::internalMoveItem.
LEMMA MovedGood ==
  ASSUME NEW u, InGoodOrder(u), Cardinality(FreeIn(u)) >= MaxItems, NEW i \in HeldIn(u),
         NEW n, n = NewObject(u), NEW w, w = Removed(Copy(u, i, n), i),
         NEW v, v \in {w, Started(w, n), Started(u, i)}
  PROVE  InGoodOrder(v)
<1>1. u \in DecayStates /\ AllGood(u) /\ i \in Objects /\ AllFresh(u)
  BY RoomIsFresh DEF InGoodOrder, HeldIn
<1>2. PICK c : c = Copy(u, i, n)
  OBVIOUS
<1>3. IsCopied(u, c, i, n)
  BY <1>1, <1>2, CopiedGood
<1>4. /\ n \in Objects \ HeldIn(u) /\ OnlyThese(u, c, {n}) /\ Good(c, n, u.last, 0, 0)
      /\ HeldIn(c) = HeldIn(u) \union {n}
  BY <1>3 DEF IsCopied
<1>5. c \in DecayStates /\ AllGood(c) /\ i \in HeldIn(c) /\ i # n
  BY <1>1, <1>4, OneChanged
<1>6. w \in DecayStates /\ AllGood(w) /\ HeldIn(w) = (HeldIn(u) \ {i}) \union {n}
  BY <1>2, <1>4, <1>5, DroppedGood
<1>7. Cardinality(HeldIn(w)) = Cardinality(HeldIn(u))
  <2>1. HeldIn(u) \in SUBSET Objects
    BY DEF HeldIn
  <2> QED BY <1>4, <1>6, <2>1, NoMoreHeld
<1>8. CASE v = w
  BY <1>6, <1>7, <1>8 DEF InGoodOrder
<1>9. CASE v = Started(w, n)
  <2>1. v \in DecayStates /\ AllGood(v) /\ HeldIn(v) = HeldIn(w)
    BY <1>4, <1>6, <1>9, StartedGood
  <2> QED BY <1>7, <2>1 DEF InGoodOrder
<1>10. CASE v = Started(u, i)
  <2>1. v \in DecayStates /\ AllGood(v) /\ HeldIn(v) = HeldIn(u)
    BY <1>1, <1>10, StartedGood
  <2> QED BY <2>1 DEF InGoodOrder
<1> QED BY <1>8, <1>9, <1>10

\* Game::cleanup.
LEMMA CleanedGood ==
  ASSUME NEW u, InGoodOrder(u), NEW v, v = Freed(u)
  PROVE  InGoodOrder(v)
<1>1. u \in DecayStates /\ AllGood(u)
  BY DEF InGoodOrder
<1>2. PICK g \in {0, 1} : g = 0
  OBVIOUS
<1>3. \A i \in Objects : Good(u, i, u.last, g, 0)
  BY <1>1, <1>2 DEF AllGood
<1>4. v \in DecayStates /\ HeldIn(v) = HeldIn(u) /\ \A i \in Objects : Good(v, i, v.last, 0, 0)
  BY <1>1, <1>3, FreedGood
<1> QED BY <1>4 DEF InGoodOrder, AllGood

\* Game::checkDecay.
LEMMA RoundIsGood ==
  ASSUME NEW u, InGoodOrder(u), Cardinality(FreeIn(u)) >= MaxItems, NEW b, b = (u.last + 1) % NBuckets,
         NEW v, v = Freed([Round(Waited(u), b) EXCEPT !.last = b])
  PROVE  InGoodOrder(v)
<1>1. u \in DecayStates /\ Cardinality(HeldIn(u)) <= MaxItems /\ \A i \in Objects : Good(u, i, u.last, 0, 0)
  BY DEF InGoodOrder, AllGood
<1>2. PICK w : w = Waited(u)
  OBVIOUS
<1>3. ReadyFor(w, b)
  BY <1>1, <1>2, WaitedGood
<1>4. PICK r : r = Round(w, b)
  OBVIOUS
<1>5. /\ r \in DecayStates /\ Cardinality(HeldIn(r)) <= MaxItems /\ b \in Buckets
      /\ \A i \in Objects : Good(r, i, b, 1, 0)
  BY <1>3, <1>4, RoundGood DEF ReadyFor
<1>6. PICK s : s = [r EXCEPT !.last = b]
  OBVIOUS
<1>7. /\ s \in DecayStates /\ s.kind = r.kind /\ s.held = r.held /\ s.dur = r.dur /\ s.mark = r.mark
      /\ s.refs = r.refs /\ s.released = r.released /\ s.toDecay = r.toDecay /\ s.bucket = r.bucket
      /\ s.last = b /\ s.asked = r.asked /\ s.spent = r.spent /\ s.copied = r.copied
  BY <1>5, <1>6 DEF DecayStates
<1>8. \A i \in Objects : SameFields(r, s, i) /\ SameLists(r, s, i)
  BY <1>7 DEF SameFields, SameLists
<1>9. \A i \in Objects : Good(s, i, b, 1, 0)
  BY <1>5, <1>7, <1>8, SameIsGood
<1>10. PICK g \in {0, 1} : g = 1
  OBVIOUS
<1>11. v = Freed(s) /\ \A i \in Objects : Good(s, i, s.last, g, 0)
  BY <1>2, <1>4, <1>6, <1>7, <1>9, <1>10
<1>12. v \in DecayStates /\ HeldIn(v) = HeldIn(s) /\ \A i \in Objects : Good(v, i, v.last, 0, 0)
  BY <1>7, <1>11, FreedGood
<1>13. HeldIn(s) = HeldIn(r)
  BY <1>7 DEF HeldIn
<1> QED BY <1>5, <1>12, <1>13 DEF InGoodOrder, AllGood

\* The inductive invariant.
DecayInv == InGoodOrder(d)

\* At first there are no items.
LEMMA DecayStarts == DecayInit => DecayInv
<1> SUFFICES ASSUME DecayInit PROVE InGoodOrder(d)
  BY DEF DecayInv
<1>1. /\ d.kind = [i \in Objects |-> Never] /\ d.held = [i \in Objects |-> FALSE]
      /\ d.dur = [i \in Objects |-> 0] /\ d.mark = [i \in Objects |-> FALSE]
      /\ d.refs = [i \in Objects |-> 0] /\ d.released = [i \in Objects |-> 0]
      /\ d.toDecay = << >> /\ d.bucket = [b \in Buckets |-> << >>] /\ d.last = 0
      /\ d.asked = [i \in Objects |-> 0] /\ d.spent = [i \in Objects |-> 0]
      /\ d.copied = [i \in Objects |-> FALSE]
  BY DEF DecayInit
<1>2. d \in DecayStates
  <2>1. 0 \in Buckets /\ 0 \in Durations /\ 0 \in Int /\ 0 \in Nat /\ << >> \in Seq(Objects)
    BY BucketsAre, DurationsAre
  <2> QED BY <2>1 DEF DecayInit, DecayStates
<1>3. Cardinality(HeldIn(d)) <= MaxItems
  <2>1. HeldIn(d) = {}
    BY <1>1 DEF HeldIn
  <2> QED BY <2>1, FS_EmptySet, DecayAssumption
<1>4. ASSUME NEW i \in Objects PROVE Good(d, i, d.last, 0, 0)
  <2>1. \A s : s = << >> => Times(s, i) = 0
    <3>1. \A s : s = << >> => {j \in DOMAIN s : s[j] = i} = {}
      OBVIOUS
    <3> QED BY <3>1, FS_EmptySet DEF Times
  <2>2. Listings(d, i) = 0
    BY <1>1, <1>2, <2>1, ListingsAre, BucketsAre
  <2>3. Counted(d, i, 0)
    BY <1>1, <2>2 DEF Counted
  <2>4. Lasting(d, i) /\ Awaited(d, i) /\ InTime(d, i, d.last, 0, 0)
    BY <1>1 DEF Lasting, CanDecay, Awaited, InTime
  <2> QED BY <2>3, <2>4 DEF Good
<1> QED BY <1>2, <1>3, <1>4 DEF InGoodOrder, AllGood

\* Every operation leaves the items good.
LEMMA DecayGoesOn == DecayInv /\ [DecayNext]_d => DecayInv'
<1> SUFFICES ASSUME InGoodOrder(d), [DecayNext]_d PROVE InGoodOrder(d')
  BY DEF DecayInv, InGoodOrder, AllGood, Good, DecayStates, HeldIn, Counted, Lasting, Awaited, InTime
<1>1. PICK e : e = d'
  OBVIOUS
<1>2. HeldIn(d) = InWorld /\ (Room => Cardinality(FreeIn(d)) >= MaxItems)
  BY DEF HeldIn, InWorld, Room, FreeIn
<1>3. ASSUME NEW k \in Kinds, AddItem(k) PROVE InGoodOrder(e)
  <2>1. PICK w, n : w = Created(d, k) /\ n = NewObject(d)
    OBVIOUS
  <2>2. Room /\ Cardinality(HeldIn(d)) < MaxItems /\ e \in {w, Started(w, n)}
    BY <1>1, <1>2, <1>3, <2>1 DEF AddItem
  <2> QED BY <1>2, <2>1, <2>2, AddedGood
<1>4. ASSUME NEW i \in Objects, NEW k \in Kinds, NEW decay \in BOOLEAN, TransformItem(i, k, decay)
      PROVE  InGoodOrder(e)
  <2>1. PICK w, n : w = Transformed(d, i, k) /\ n = Becomes(d, i, k)
    OBVIOUS
  <2>2. Room /\ i \in HeldIn(d) /\ e \in {w, Started(w, n)}
    BY <1>1, <1>2, <1>4, <2>1 DEF TransformItem
  <2> QED BY <1>2, <2>1, <2>2, TurnedGood
<1>5. ASSUME NEW i \in Objects, PutElsewhere(i) PROVE InGoodOrder(e)
  <2>1. PICK n : n = NewObject(d)
    OBVIOUS
  <2>2. PICK w : w = Removed(Copy(d, i, n), i)
    OBVIOUS
  <2>3. Room /\ i \in HeldIn(d)
    BY <1>2, <1>5 DEF PutElsewhere
  <2>4. e \in {w, Started(w, n), Started(d, i)}
    BY <1>1, <1>5, <2>1, <2>2 DEF PutElsewhere, Copy
  <2> QED BY <1>2, <2>1, <2>2, <2>3, <2>4, MovedGood
<1>6. ASSUME NEW i \in Objects, DropItem(i) PROVE InGoodOrder(e)
  <2>1. i \in HeldIn(d) /\ e = Removed(d, i)
    BY <1>1, <1>2, <1>6 DEF DropItem
  <2>2. e \in DecayStates /\ AllGood(e) /\ HeldIn(e) = HeldIn(d) \ {i}
    BY <2>1, DroppedGood DEF InGoodOrder
  <2>3. Cardinality(HeldIn(e)) <= MaxItems
    <3>1. HeldIn(d) \in SUBSET Objects /\ HeldIn(e) \in SUBSET Objects
      BY DEF HeldIn
    <3>2. IsFiniteSet(HeldIn(d)) /\ Cardinality(HeldIn(d)) \in Nat /\ Cardinality(HeldIn(e)) \in Nat
      BY <3>1, ObjectsFinite
    <3>3. Cardinality(HeldIn(e)) <= Cardinality(HeldIn(d))
      BY <2>2, <3>2, FS_Subset
    <3> QED BY <3>2, <3>3, DecayAssumption DEF InGoodOrder
  <2> QED BY <2>2, <2>3 DEF InGoodOrder
<1>7. ASSUME CheckDecay PROVE InGoodOrder(e)
  <2>1. PICK b : b = (d.last + 1) % NBuckets
    OBVIOUS
  <2>2. Room /\ e = Freed([Round(Waited(d), b) EXCEPT !.last = b])
    BY <1>1, <1>7, <2>1 DEF CheckDecay
  <2> QED BY <1>2, <2>1, <2>2, RoundIsGood
<1>8. ASSUME ReleaseItems PROVE InGoodOrder(e)
  BY <1>1, <1>8, CleanedGood DEF ReleaseItems
<1>9. ASSUME d' = d PROVE InGoodOrder(e)
  BY <1>1, <1>9
<1> QED BY <1>1, <1>3, <1>4, <1>5, <1>6, <1>7, <1>8, <1>9 DEF DecayNext

\* What the invariant is for.
LEMMA GoodIsKept ==
  ASSUME DecayInv
  PROVE  NeverForgotten /\ Punctual
<1>1. d \in DecayStates /\ \A i \in Objects : Counted(d, i, 0) /\ Lasting(d, i) /\ Awaited(d, i)
                                              /\ InTime(d, i, d.last, 0, 0)
  BY DEF DecayInv, InGoodOrder, AllGood, Good
<1>2. ASSUME NEW i \in Objects
      PROVE  /\ d.refs[i] = (IF d.held[i] THEN 1 ELSE 0) + Listings(d, i) + d.released[i]
             /\ CanDecay(d, i) /\ d.mark[i] /\ ~d.copied[i] => Listings(d, i) > 0
  <2>1. PICK h \in Nat : h = IF d.held[i] THEN 1 ELSE 0
    OBVIOUS
  <2>2. Listings(d, i) \in Nat /\ d.released[i] \in Nat
    BY <1>1, ListingsTyped DEF DecayStates
  <2>3. d.refs[i] = h + Listings(d, i) + d.released[i] + 0
    BY <1>1, <2>1 DEF Counted
  <2>4. d.refs[i] = h + Listings(d, i) + d.released[i]
    BY <2>1, <2>2, <2>3
  <2>5. CanDecay(d, i) => d.held[i] /\ ~(d.dur[i] = 0)
    BY <1>1 DEF Lasting, CanDecay
  <2>6. d.held[i] /\ d.mark[i] /\ ~d.copied[i] => Listings(d, i) > 0 \/ d.dur[i] = 0
    BY <1>1 DEF Awaited
  <2> QED BY <2>1, <2>4, <2>5, <2>6
<1>3. ASSUME NEW i \in Objects, NEW b \in Buckets,
             d.asked[i] > 0, d.mark[i], Times(d.bucket[b], i) = 1
      PROVE  (d.spent[i] + (((b - d.last - 1) % NBuckets) + 1) + NBuckets * ((d.dur[i] \div Turn) - 1))
               - (d.asked[i] \div Interval) \in {0, 1}
  <2>1. TurnsInAll(d, i, b, d.last) - 0 - (d.asked[i] \div Interval) \in {0, 1}
    BY <1>1, <1>3 DEF InTime
  <2>2. PICK c \in {0, 1, 2, 3}, l \in {0, 1, 2, 3} : c = b /\ l = d.last
    BY <1>1, BucketsAre DEF DecayStates
  <2>3. PICK z \in Int : z = 4 * ((d.dur[i] \div 1000) - 1)
    <3>1. PICK ms \in Durations : ms = d.dur[i]
      BY <1>1 DEF DecayStates
    <3>2. ms \in Nat
      BY DurationsAre
    <3> QED BY <3>1, <3>2
  <2>4. PICK x \in Int, s \in Nat : x = (c - l - 1) % 4 /\ s = d.spent[i]
    BY <1>1, <2>2 DEF DecayStates
  <2>5. PICK a \in Int : a = d.asked[i] \div 250
    <3>1. PICK ms \in Durations : ms = d.asked[i]
      BY <1>1 DEF DecayStates
    <3>2. ms \in Nat
      BY DurationsAre
    <3> QED BY <3>1, <3>2
  <2>6. s + x + 1 + z - 0 - a \in {0, 1}
    BY <2>1, <2>2, <2>3, <2>4, <2>5, BucketsAre DEF TurnsInAll
  <2>7. (s + (x + 1) + z) - a \in {0, 1}
    BY <2>3, <2>4, <2>5, <2>6
  <2> QED BY <2>2, <2>3, <2>4, <2>5, <2>7, BucketsAre
<1>4. NeverForgotten
  BY <1>2 DEF NeverForgotten
<1>5. Punctual
  <2> DEFINE inTime(i, b) ==
               (d.spent[i] + (((b - d.last - 1) % NBuckets) + 1) + NBuckets * ((d.dur[i] \div Turn) - 1))
                 - (d.asked[i] \div Interval) \in {0, 1}
  <2>1. \A i \in Objects, b \in Buckets :
          d.asked[i] > 0 /\ d.mark[i] /\ Times(d.bucket[b], i) = 1 => inTime(i, b)
    BY <1>3
  <2> HIDE DEF inTime
  <2>2. \A i \in Objects, b \in Buckets :
          d.asked[i] > 0 /\ Listings(d, i) = 1 /\ d.mark[i] /\ Times(d.bucket[b], i) = 1 => inTime(i, b)
    BY <2>1
  <2> QED BY <2>2, Zenon DEF Punctual, inTime
<1> QED BY <1>4, <1>5

\* Nothing that decays is forgotten, freed under a list or kept for ever
\* (Game::startDecay, checkDecay and cleanup, game.cpp 6496-6607 and 6770-6797).
THEOREM NeverForgottenHolds == DecaySpec => []NeverForgotten
<1>1. DecayInv => NeverForgotten
  BY GoodIsKept
<1> QED BY <1>1, DecayStarts, DecayGoesOn, PTL DEF DecaySpec

\* What decays lives as long as it was given, to the round.
THEOREM PunctualHolds == DecaySpec => []Punctual
<1>1. DecayInv => Punctual
  BY GoodIsKept
<1> QED BY <1>1, DecayStarts, DecayGoesOn, PTL DEF DecaySpec

-----------------------------------------------------------------------------
(* Speed.  SpeedAddsUp is about a player who is in the world; what makes it *)
(* inductive is that there is one condition of each type at most, so that a *)
(* refresh and the end of a condition take off what was added, that who     *)
(* rides has a mount and who profits wears something, and that nothing is   *)
(* left over from the last session.                                         *)

\* Conditions as a creature has them.
ConditionTypes == {"haste", "paralyze", "outfit"}
Had == [type : ConditionTypes, delta : Int, over : BOOLEAN]
DeltaOf == [c \in Had |-> c.delta]
Gives(S) == MapThenSumSet(LAMBDA c : c.delta, S)

\* h satisfies the recursion equation of what conditions give, on the given sets.
GivesOn(Ds, h) ==
  h = [s \in Ds |-> IF s = {} THEN 0 ELSE Pick(s).delta + h[s \ {Pick(s)}]]

\* The sum of the property is the recursive function's value.
LEMMA GivesChosen ==
  ASSUME NEW S
  PROVE  Gives(S) = (CHOOSE h : GivesOn(SUBSET S, h))[S]
  BY DEF Gives, MapThenSumSet, MapThenFoldSet, GivesOn, Pick

\* It is the sum of the function DeltaOf.
LEMMA GivesIs ==
  ASSUME NEW S \in SUBSET Had
  PROVE  Gives(S) = SumFunctionOnSet(DeltaOf, S)
<1>1. ASSUME NEW h PROVE GivesOn(SUBSET S, h) <=> SumsOn(DeltaOf, SUBSET S, h)
  <2>1. ASSUME NEW s \in SUBSET S, s # {} PROVE DeltaOf[Pick(s)] = Pick(s).delta
    <3>1. Pick(s) \in Had
      BY <2>1, PickIn
    <3> QED BY <3>1 DEF DeltaOf
  <2> QED BY <2>1 DEF GivesOn, SumsOn
<1>2. (CHOOSE h : GivesOn(SUBSET S, h)) = (CHOOSE h : SumsOn(DeltaOf, SUBSET S, h))
  BY <1>1
<1> QED BY <1>2, GivesChosen, SumIs

\* No conditions give nothing, and one more or less gives its delta more or less.
LEMMA GivesType ==
  ASSUME NEW S \in SUBSET Had, IsFiniteSet(S)
  PROVE  Gives(S) \in Int
<1>1. \A x \in S : DeltaOf[x] \in Int
  BY DEF DeltaOf, Had
<1>2. SumFunctionOnSet(DeltaOf, S) \in Int
  BY <1>1, SumTyped
<1> QED BY <1>2, GivesIs

LEMMA GivesNothing == Gives({}) = 0
  BY GivesIs, SumOfNothing

LEMMA GivesWithout ==
  ASSUME NEW S \in SUBSET Had, IsFiniteSet(S), NEW c \in S
  PROVE  Gives(S) = c.delta + Gives(S \ {c})
<1>1. \A x \in S : DeltaOf[x] \in Int
  BY DEF DeltaOf, Had
<1>2. SumFunctionOnSet(DeltaOf, S) = DeltaOf[c] + SumFunctionOnSet(DeltaOf, S \ {c})
  BY <1>1, SumTakeOut
<1>3. DeltaOf[c] = c.delta
  BY DEF DeltaOf
<1>4. S \ {c} \in SUBSET Had
  OBVIOUS
<1> QED BY <1>2, <1>3, <1>4, GivesIs

LEMMA GivesWith ==
  ASSUME NEW S \in SUBSET Had, IsFiniteSet(S), NEW c \in Had, c \notin S
  PROVE  Gives(S \union {c}) = Gives(S) + c.delta
<1>1. S \union {c} \in SUBSET Had /\ IsFiniteSet(S \union {c}) /\ c \in S \union {c}
  BY FS_AddElement
<1>2. (S \union {c}) \ {c} = S
  OBVIOUS
<1>3. Gives(S \union {c}) = c.delta + Gives(S)
  BY <1>1, <1>2, GivesWithout
<1>4. Gives(S) \in Int /\ c.delta \in Int
  BY GivesType DEF Had
<1> QED BY <1>3, <1>4

\* The types of what a player's speed depends on.
RunnerStates ==
  [in : BOOLEAN, pz : BOOLEAN, speed : Int, conds : SUBSET Had,
   adds : Seq([type : ConditionTypes, delta : Int]), removals : Nat, mounted : BOOLEAN,
   mount : Mounts \union {Nil}, was : BOOLEAN, worn : Clothes \union {Nil},
   able : BOOLEAN, astray : BOOLEAN]

\* There is one condition of each type at most, who rides has a mount, and who
\* profits from what he wears wears something.
OneOfEach(S) == \A a, b \in S : a.type = b.type => a = b
Sane(u) ==
  /\ u \in RunnerStates /\ IsFiniteSet(u.conds) /\ OneOfEach(u.conds)
  /\ u.mounted => u.mount \in Mounts
  /\ u.able => u.worn \in Clothes

\* How far the speed is from what it should be: 0 unless something went wrong.
Rides(u) == IF u.mounted THEN SpeedOf(u.mount) ELSE 0
Wears(u) == IF u.able THEN Bonus[u.worn] ELSE 0
Drift(u) == u.speed - Gives(u.conds) - Rides(u) - Wears(u)

\* What nearly every operation does: the drift stays as it was.
Keeps(u, v) == Sane(v) /\ v.in = u.in /\ v.astray = u.astray /\ Drift(v) = Drift(u)

\* The summands are integers.
LEMMA Summands ==
  ASSUME NEW u, Sane(u)
  PROVE  /\ u.speed \in Int /\ Gives(u.conds) \in Int /\ SpeedOf(u.mount) \in Int
         /\ Rides(u) \in Int /\ Wears(u) \in Int
         /\ u.worn \in Clothes => Bonus[u.worn] \in Int
<1>1. u.speed \in Int /\ u.conds \in SUBSET Had /\ u.mount \in Mounts \union {Nil}
  BY DEF Sane, RunnerStates
<1>2. Gives(u.conds) \in Int
  BY <1>1, GivesType DEF Sane
<1>3. SpeedOf(u.mount) \in Int
  BY <1>1, SpeedAssumption DEF SpeedOf
<1>4. u.worn \in Clothes => Bonus[u.worn] \in Int
  BY SpeedAssumption
<1>5. Wears(u) \in Int
  BY <1>4 DEF Wears, Sane
<1> QED BY <1>1, <1>2, <1>3, <1>4, <1>5 DEF Rides

\* Keeping is transitive and reflexive.
LEMMA KeepsOn ==
  ASSUME NEW u, NEW v, NEW x, Keeps(u, v), Keeps(v, x)
  PROVE  Keeps(u, x)
  BY DEF Keeps

LEMMA KeepsSame ==
  ASSUME NEW u, Sane(u)
  PROVE  Keeps(u, u)
  BY DEF Keeps

(* Mounts *)

\* Player::dismount of one who rides.
LEMMA DismountKeeps ==
  ASSUME NEW u, Sane(u), u.mounted
  PROVE  Keeps(u, Dismounted(u))
<1> DEFINE v == Dismounted(u)
<1>1. v = [u EXCEPT !.mounted = FALSE, !.speed = @ - SpeedOf(u.mount)]
  BY DEF Dismounted, Faster, Sane, RunnerStates
<1>2. PICK s \in Int : s = u.speed - SpeedOf(u.mount)
  BY Summands
<1>3. Sane(v) /\ v.speed = s /\ v.conds = u.conds /\ ~v.mounted /\ v.able = u.able /\ v.worn = u.worn
      /\ v.in = u.in /\ v.astray = u.astray
  BY <1>1, <1>2 DEF Sane, RunnerStates
<1> HIDE DEF v
<1>4. Rides(v) = 0 /\ Rides(u) = SpeedOf(u.mount) /\ Wears(v) = Wears(u)
  BY <1>3 DEF Rides, Wears
<1>5. Drift(v) = Drift(u)
  BY <1>2, <1>3, <1>4, Summands DEF Drift
<1> QED BY <1>3, <1>5 DEF Keeps, v

\* Player::toggleMount of one who does not ride
LEMMA MountUpKeeps ==
  ASSUME NEW u, Sane(u), NEW allowed \in BOOLEAN, NEW owned \in BOOLEAN
  PROVE  Keeps(u, MountUp(u, allowed, owned))
<1> DEFINE v == MountUp(u, allowed, owned)
<1>1. CASE v = u
  BY <1>1, KeepsSame
<1>2. CASE ~u.mounted /\ v = [u EXCEPT !.mount = Nil]
  <2>1. /\ Sane(v) /\ v.speed = u.speed /\ v.conds = u.conds /\ ~v.mounted /\ v.able = u.able
        /\ v.worn = u.worn /\ v.in = u.in /\ v.astray = u.astray
    BY <1>2 DEF Sane, RunnerStates
  <2> HIDE DEF v
  <2>2. Drift(v) = Drift(u)
    BY <1>2, <2>1 DEF Drift, Rides, Wears
  <2> QED BY <2>1, <2>2 DEF Keeps, v
<1>3. CASE /\ ~u.mounted /\ u.mount # Nil
           /\ v = [u EXCEPT !.mounted = TRUE, !.speed = @ + SpeedOf(u.mount)]
  <2>1. PICK s \in Int : s = u.speed + SpeedOf(u.mount)
    BY Summands
  <2>2. /\ Sane(v) /\ v.speed = s /\ v.conds = u.conds /\ v.mounted /\ v.mount = u.mount
        /\ v.able = u.able /\ v.worn = u.worn /\ v.in = u.in /\ v.astray = u.astray
    BY <1>3, <2>1 DEF Sane, RunnerStates
  <2> HIDE DEF v
  <2>3. Rides(u) = 0 /\ Rides(v) = SpeedOf(u.mount) /\ Wears(v) = Wears(u)
    BY <1>3, <2>2 DEF Rides, Wears
  <2>4. Drift(v) = Drift(u)
    BY <2>1, <2>2, <2>3, Summands DEF Drift
  <2> QED BY <2>2, <2>4 DEF Keeps, v
<1>4. \/ v = u
      \/ ~u.mounted /\ v = [u EXCEPT !.mount = Nil]
      \/ /\ ~u.mounted /\ u.mount # Nil
         /\ v = [u EXCEPT !.mounted = TRUE, !.speed = @ + SpeedOf(u.mount)]
  BY DEF MountUp, Faster, Sane, RunnerStates
<1> QED BY <1>1, <1>2, <1>3, <1>4

(* Conditions *)

\* One condition is over.
LEMMA OverKeeps ==
  ASSUME NEW u, Sane(u), NEW S \in SUBSET u.conds,
         NEW v, v = [u EXCEPT !.conds = @ \ S, !.speed = @ - Gives(S)]
  PROVE  Gives(u.conds) = Gives(u.conds \ S) + Gives(S) => Keeps(u, v)
<1> SUFFICES ASSUME Gives(u.conds) = Gives(u.conds \ S) + Gives(S) PROVE Keeps(u, v)
  OBVIOUS
<1>1. S \in SUBSET Had /\ IsFiniteSet(S) /\ u.conds \ S \in SUBSET Had /\ IsFiniteSet(u.conds \ S)
  BY FS_Subset DEF Sane, RunnerStates
<1>2. Gives(S) \in Int /\ Gives(u.conds \ S) \in Int
  BY <1>1, GivesType
<1>3. PICK s \in Int : s = u.speed - Gives(S)
  BY <1>2, Summands
<1>4. /\ v.conds = u.conds \ S /\ v.speed = s /\ v.mounted = u.mounted /\ v.mount = u.mount
      /\ v.able = u.able /\ v.worn = u.worn /\ v.in = u.in /\ v.astray = u.astray
      /\ v \in RunnerStates
  BY <1>1, <1>3 DEF Sane, RunnerStates
<1>5. Sane(v)
  BY <1>1, <1>4 DEF Sane, OneOfEach
<1>6. Rides(v) = Rides(u) /\ Wears(v) = Wears(u)
  BY <1>4 DEF Rides, Wears
<1>7. Drift(v) = Drift(u)
  BY <1>2, <1>3, <1>4, <1>6, Summands DEF Drift
<1> QED BY <1>4, <1>5, <1>7 DEF Keeps

\* What a loop that ends conditions has come to when those of s are over.
Without(u, s) == [u EXCEPT !.conds = @ \ s, !.speed = @ - Gives(s)]
EndsOn(u, Ds, h) ==
  h = [s \in Ds |-> IF s = {} THEN u ELSE ConditionOver(h[s \ {Pick(s)}], Pick(s))]
AllOver(u, S) == FoldSet(LAMBDA c, v : ConditionOver(v, c), u, S)

\* The loop is the recursive function's value.
LEMMA AllOverChosen ==
  ASSUME NEW u, NEW S
  PROVE  AllOver(u, S) = (CHOOSE h : EndsOn(u, SUBSET S, h))[S]
  BY DEF AllOver, FoldSet, MapThenFoldSet, EndsOn, Pick

\* One more is over.
LEMMA WithoutOne ==
  ASSUME NEW u, Sane(u), NEW s \in SUBSET u.conds, NEW c \in s
  PROVE  ConditionOver(Without(u, s \ {c}), c) = Without(u, s)
<1>1. s \in SUBSET Had /\ IsFiniteSet(s) /\ s \ {c} \in SUBSET Had /\ IsFiniteSet(s \ {c})
  BY FS_Subset DEF Sane, RunnerStates
<1>2. Gives(s) = c.delta + Gives(s \ {c}) /\ Gives(s \ {c}) \in Int /\ c.delta \in Int
  BY <1>1, GivesWithout, GivesType DEF Had
<1>3. PICK g \in Int : g = Gives(s \ {c})
  BY <1>2
<1>4. (u.speed - g) + -c.delta = u.speed - (c.delta + g)
  BY <1>2, Summands
<1>5. (u.conds \ (s \ {c})) \ {c} = u.conds \ s
  OBVIOUS
<1> QED BY <1>2, <1>3, <1>4, <1>5 DEF Without, ConditionOver, Faster, Sane, RunnerStates

\* A loop that ends conditions ends them all, in whatever order.
LEMMA AllOverIs ==
  ASSUME NEW u, Sane(u), NEW S \in SUBSET u.conds
  PROVE  AllOver(u, S) = Without(u, S)
<1> DEFINE f == [s \in SUBSET S |-> Without(u, s)]
           h == CHOOSE h : EndsOn(u, SUBSET S, h)
           Bad == {n \in Nat : \E t \in SUBSET S : Cardinality(t) = n /\ h[t] # Without(u, t)}
<1>1. IsFiniteSet(S)
  BY FS_Subset DEF Sane
<1>2. Without(u, {}) = u
  <2>1. u.conds \ {} = u.conds /\ u.speed - 0 = u.speed
    BY Summands
  <2> QED BY <2>1, GivesNothing DEF Without, Sane, RunnerStates
<1>3. EndsOn(u, SUBSET S, f)
  <2>1. ASSUME NEW s \in SUBSET S, s # {}
        PROVE  f[s] = ConditionOver(f[s \ {Pick(s)}], Pick(s))
    BY <2>1, PickIn, WithoutOne
  <2> HIDE DEF f
  <2>2. f[{}] = u
    BY <1>2 DEF f
  <2>3. f = [s \in SUBSET S |-> f[s]]
    BY DEF f
  <2> QED BY <2>1, <2>2, <2>3 DEF EndsOn
<1>4. EndsOn(u, SUBSET S, h)
  BY <1>3
<1> HIDE DEF f, h
<1>5. Bad = {}
  <2>1. SUFFICES ASSUME Bad # {} PROVE FALSE
    OBVIOUS
  <2>2. PICK n \in Bad : \A m \in Bad : n <= m
    BY <2>1, LeastNumber
  <2>3. PICK t \in SUBSET S : Cardinality(t) = n /\ h[t] # Without(u, t)
    BY <2>2
  <2>4. t # {}
    BY <1>2, <1>4, <2>3 DEF EndsOn
  <2> DEFINE c == Pick(t)
  <2>5. c \in t /\ IsFiniteSet(t)
    BY <1>1, <2>4, PickIn, FS_Subset
  <2>6. Cardinality(t \ {c}) \in Nat /\ Cardinality(t \ {c}) + 1 = n
    BY <2>3, <2>5, OneLess
  <2>7. h[t \ {c}] = Without(u, t \ {c})
    <3>1. ~(n <= Cardinality(t \ {c}))
      BY <2>6
    <3>2. Cardinality(t \ {c}) \notin Bad
      BY <2>2, <3>1
    <3> QED BY <2>6, <3>2
  <2>8. h[t] = ConditionOver(h[t \ {c}], c)
    BY <1>4, <2>4 DEF EndsOn
  <2>9. t \in SUBSET u.conds
    OBVIOUS
  <2> HIDE DEF c
  <2>10. h[t] = Without(u, t)
    BY <2>5, <2>7, <2>8, <2>9, WithoutOne
  <2> QED BY <2>3, <2>10
<1>6. Cardinality(S) \in Nat
  BY <1>1, FS_CardinalityType
<1>7. h[S] = Without(u, S)
  BY <1>5, <1>6
<1> QED BY <1>7, AllOverChosen DEF h

\* ... and takes off what they gave.
LEMMA GivesSplit ==
  ASSUME NEW D \in SUBSET Had, IsFiniteSet(D), NEW S \in SUBSET D
  PROVE  Gives(D) = Gives(D \ S) + Gives(S)
<1> DEFINE Bad == {n \in Nat : \E t \in SUBSET D : Cardinality(t) = n /\ Gives(D) # Gives(D \ t) + Gives(t)}
<1>1. SUFFICES ASSUME Gives(D) # Gives(D \ S) + Gives(S) PROVE FALSE
  OBVIOUS
<1>2. Cardinality(S) \in Bad
  BY <1>1, FS_Subset, FS_CardinalityType
<1>3. PICK n \in Bad : \A m \in Bad : n <= m
  BY <1>2, LeastNumber
<1>4. PICK t \in SUBSET D : Cardinality(t) = n /\ Gives(D) # Gives(D \ t) + Gives(t)
  BY <1>3
<1>5. t # {}
  <2>1. D \ {} = D /\ Gives(D) \in Int
    BY GivesType
  <2>2. Gives(D) = Gives(D \ {}) + Gives({})
    BY <2>1, GivesNothing
  <2> QED BY <1>4, <2>2
<1>6. PICK c \in t : TRUE
  BY <1>5
<1> DEFINE r == t \ {c}
<1>7. IsFiniteSet(t) /\ IsFiniteSet(r) /\ IsFiniteSet(D \ t) /\ IsFiniteSet(D \ r)
  BY FS_Subset
<1>8. Cardinality(r) \in Nat /\ Cardinality(r) + 1 = n
  BY <1>4, <1>6, <1>7, OneLess
<1>9. Gives(D) = Gives(D \ r) + Gives(r)
  <2>1. ~(n <= Cardinality(r))
    BY <1>8
  <2>2. Cardinality(r) \notin Bad
    BY <1>3, <2>1
  <2> QED BY <1>8, <2>2
<1>10. Gives(t) = c.delta + Gives(r)
  BY <1>6, <1>7, GivesWithout
<1>11. Gives(D \ r) = c.delta + Gives(D \ t)
  <2>1. c \in D \ r /\ (D \ r) \ {c} = D \ t
    BY <1>6
  <2> QED BY <1>7, <2>1, GivesWithout
<1>12. c.delta \in Int /\ Gives(r) \in Int /\ Gives(D \ t) \in Int
  BY <1>6, <1>7, GivesType DEF Had
<1> HIDE DEF r
<1> QED BY <1>4, <1>9, <1>10, <1>11, <1>12

LEMMA AllOverKeeps ==
  ASSUME NEW u, Sane(u), NEW S \in SUBSET u.conds
  PROVE  Keeps(u, AllOver(u, S)) /\ AllOver(u, S).conds = u.conds \ S
<1>1. u.conds \in SUBSET Had /\ IsFiniteSet(u.conds)
  BY DEF Sane, RunnerStates
<1>2. Gives(u.conds) = Gives(u.conds \ S) + Gives(S)
  BY <1>1, GivesSplit
<1>3. Keeps(u, Without(u, S))
  BY <1>2, OverKeeps DEF Without
<1>4. Without(u, S).conds = u.conds \ S
  BY DEF Without, Sane, RunnerStates
<1> QED BY <1>3, <1>4, AllOverIs

\* A condition comes to those of R, which is of another type than they.
LEMMA ChangedKeeps ==
  ASSUME NEW u, Sane(u), NEW R \in SUBSET u.conds, NEW n \in Had, \A x \in R : x.type # n.type,
         NEW s, s = u.speed + (Gives(R) + n.delta - Gives(u.conds)),
         NEW v, v = [u EXCEPT !.conds = R \union {n}, !.speed = s]
  PROVE  Keeps(u, v)
<1>1. R \in SUBSET Had /\ IsFiniteSet(R) /\ n \notin R
  BY FS_Subset DEF Sane, RunnerStates
<1>2. Gives(R \union {n}) = Gives(R) + n.delta /\ Gives(R) \in Int /\ n.delta \in Int
  BY <1>1, GivesWith, GivesType DEF Had
<1>3. s \in Int
  BY <1>2, Summands
<1>4. R \union {n} \in SUBSET Had /\ IsFiniteSet(R \union {n})
  BY <1>1, FS_AddElement
<1>5. /\ v.conds = R \union {n} /\ v.speed = s /\ v.mounted = u.mounted /\ v.mount = u.mount
      /\ v.able = u.able /\ v.worn = u.worn /\ v.in = u.in /\ v.astray = u.astray
      /\ v \in RunnerStates
  BY <1>3, <1>4 DEF Sane, RunnerStates
<1>6. OneOfEach(R \union {n})
  BY DEF OneOfEach, Sane
<1>7. Sane(v)
  BY <1>4, <1>5, <1>6 DEF Sane
<1>8. Rides(v) = Rides(u) /\ Wears(v) = Wears(u)
  BY <1>5 DEF Rides, Wears
<1>9. Drift(v) = Drift(u)
  BY <1>2, <1>3, <1>5, <1>8, Summands DEF Drift
<1> QED BY <1>5, <1>7, <1>9 DEF Keeps

\* What is put off does not change the speed.
LEMMA PutOffKeeps ==
  ASSUME NEW u, Sane(u), NEW q \in Seq([type : ConditionTypes, delta : Int]), NEW n \in Nat,
         NEW v, v = [u EXCEPT !.adds = q, !.removals = n]
  PROVE  Keeps(u, v)
<1>1. /\ v.conds = u.conds /\ v.speed = u.speed /\ v.mounted = u.mounted /\ v.mount = u.mount
      /\ v.able = u.able /\ v.worn = u.worn /\ v.in = u.in /\ v.astray = u.astray
      /\ v \in RunnerStates
  BY DEF Sane, RunnerStates
<1>2. Sane(v)
  BY <1>1 DEF Sane
<1> QED BY <1>1, <1>2 DEF Keeps, Drift, Rides, Wears

\* Creature::removeCondition
LEMMA RemovedKeeps ==
  ASSUME NEW u, Sane(u), NEW type, NEW forced \in BOOLEAN, NEW walking \in BOOLEAN
  PROVE  Keeps(u, ConditionRemoved(u, type, forced, walking))
<1> DEFINE those == {c \in u.conds : c.type = type}
           v == ConditionRemoved(u, type, forced, walking)
<1>1. CASE v = AllOver(u, those)
  BY <1>1, AllOverKeeps
<1>2. CASE v = [u EXCEPT !.removals = @ + 1]
  <2>1. v = [u EXCEPT !.adds = u.adds, !.removals = u.removals + 1]
    BY <1>2 DEF Sane, RunnerStates
  <2>2. u.adds \in Seq([type : ConditionTypes, delta : Int]) /\ u.removals + 1 \in Nat
    BY DEF Sane, RunnerStates
  <2> QED BY <2>1, <2>2, PutOffKeeps
<1>3. v = AllOver(u, those) \/ v = [u EXCEPT !.removals = @ + 1]
  BY DEF ConditionRemoved, AllOver
<1> QED BY <1>1, <1>2, <1>3

\* Player::onAddCondition
LEMMA OnAddedKeeps ==
  ASSUME NEW u, Sane(u), NEW type, NEW walking \in BOOLEAN
  PROVE  Keeps(u, OnConditionAdded(u, type, walking))
<1> DEFINE v == OnConditionAdded(u, type, walking)
<1>1. \/ v = ConditionRemoved(u, "haste", FALSE, walking)
      \/ v = ConditionRemoved(u, "paralyze", FALSE, walking)
      \/ u.mounted /\ v = Dismounted(u)
      \/ v = u
  BY DEF OnConditionAdded
<1> HIDE DEF v
<1>2. CASE v = ConditionRemoved(u, "haste", FALSE, walking)
  BY <1>2, RemovedKeeps DEF v
<1>3. CASE v = ConditionRemoved(u, "paralyze", FALSE, walking)
  BY <1>3, RemovedKeeps DEF v
<1>4. CASE u.mounted /\ v = Dismounted(u)
  BY <1>4, DismountKeeps DEF v
<1>5. CASE v = u
  BY <1>5, KeepsSame DEF v
<1> QED BY <1>1, <1>2, <1>3, <1>4, <1>5

\* A condition as it is given: of a type, with what it gives.
Givable(c) == c.type \in ConditionTypes /\ c.delta \in Int

\* Creature::addCondition
LEMMA AddedKeeps ==
  ASSUME NEW u, Sane(u), NEW c, Givable(c), NEW forced \in BOOLEAN, NEW walking \in BOOLEAN,
         walking => c \in [type : ConditionTypes, delta : Int]
  PROVE  Keeps(u, ConditionAdded(u, c, forced, walking))
<1> DEFINE v == ConditionAdded(u, c, forced, walking)
           n == AsNew(c)
           put == Faster([u EXCEPT !.conds = @ \union {n}], c.delta)
<1>0. n \in Had /\ n.type = c.type /\ n.delta = c.delta
  BY DEF AsNew, Had, Givable
<1>1. \/ walking /\ v = [u EXCEPT !.adds = Append(@, c)]
      \/ \E old \in u.conds : old.type = c.type /\ v = ConditionRefreshed(u, old, c)
      \/ (\A old \in u.conds : old.type # c.type) /\ v = OnConditionAdded(put, c.type, walking)
  BY DEF ConditionAdded
<1>2. CASE walking /\ v = [u EXCEPT !.adds = Append(@, c)]
  <2>1. v = [u EXCEPT !.adds = Append(u.adds, c), !.removals = u.removals]
    BY <1>2 DEF Sane, RunnerStates
  <2>2. Append(u.adds, c) \in Seq([type : ConditionTypes, delta : Int]) /\ u.removals \in Nat
    BY <1>2 DEF Sane, RunnerStates
  <2> HIDE DEF v
  <2>3. Keeps(u, v)
    BY <2>1, <2>2, PutOffKeeps
  <2> QED BY <2>3 DEF v
<1>3. CASE \E old \in u.conds : old.type = c.type /\ v = ConditionRefreshed(u, old, c)
  <2>1. PICK old \in u.conds : old.type = c.type /\ v = ConditionRefreshed(u, old, c)
    BY <1>3
  <2> DEFINE R == u.conds \ {old}
  <2>2. /\ u.conds \in SUBSET Had /\ IsFiniteSet(u.conds) /\ R \in SUBSET Had /\ IsFiniteSet(R)
        /\ \A x \in R : x.type # n.type
    BY <1>0, <2>1, FS_Subset DEF Sane, RunnerStates, OneOfEach
  <2>3. Gives(u.conds) = old.delta + Gives(R) /\ Gives(R) \in Int /\ old.delta \in Int
    BY <2>2, GivesWithout, GivesType DEF Had
  <2> DEFINE s == u.speed + (c.delta - old.delta)
  <2>4. s = u.speed + (Gives(R) + n.delta - Gives(u.conds))
    BY <1>0, <2>3, Summands DEF Givable
  <2>5. v = [u EXCEPT !.conds = R \union {n}, !.speed = s]
    BY <2>1 DEF ConditionRefreshed, Faster, Sane, RunnerStates
  <2> HIDE DEF v, n, R, s
  <2>6. R \in SUBSET u.conds
    BY DEF R
  <2>7. Keeps(u, v)
    BY <1>0, <2>2, <2>4, <2>5, <2>6, ChangedKeeps
  <2> QED BY <2>7 DEF v
<1>4. CASE (\A old \in u.conds : old.type # c.type) /\ v = OnConditionAdded(put, c.type, walking)
  <2> DEFINE s == u.speed + c.delta
  <2>1. s = u.speed + (Gives(u.conds) + n.delta - Gives(u.conds))
    BY <1>0, Summands DEF Givable
  <2>2. put = [u EXCEPT !.conds = u.conds \union {n}, !.speed = s]
    BY DEF Faster, Sane, RunnerStates
  <2>3. \A x \in u.conds : x.type # n.type
    BY <1>0, <1>4
  <2> HIDE DEF put, n, s
  <2>4. Keeps(u, put)
    BY <1>0, <2>1, <2>2, <2>3, ChangedKeeps
  <2>5. Keeps(put, OnConditionAdded(put, c.type, walking))
    BY <2>4, OnAddedKeeps DEF Keeps
  <2>6. Keeps(u, OnConditionAdded(put, c.type, walking))
    BY <2>4, <2>5, KeepsOn
  <2> QED BY <1>4, <2>6 DEF put
<1> QED BY <1>1, <1>2, <1>3, <1>4

(* What is worn *)

\* The item is put on as it is, or as what it becomes.
LEMMA EquippedKeeps ==
  ASSUME NEW u, Sane(u), u.worn \in Clothes
  PROVE  Keeps(u, Equipped(u)) /\ Equipped(u).able
<1> DEFINE v == Equipped(u)
           to == EquipTo[u.worn]
<1>1. CASE u.able
  <2>1. v = u
    BY <1>1 DEF Equipped
  <2> QED BY <1>1, <2>1, KeepsSame
<1>2. CASE ~u.able
  <2>0. to \in Clothes \union {Nil} /\ Nil \notin Clothes /\ (to # Nil => Bonus[u.worn] = 0 /\ Bonus[to] \in Int)
    BY SpeedAssumption
  <2> DEFINE k == IF to = Nil THEN u.worn ELSE to
             s == u.speed + Bonus[k]
  <2>1. k \in Clothes /\ Bonus[k] \in Int /\ s \in Int
    BY <2>0, Summands
  <2>2. v = [u EXCEPT !.worn = k, !.able = TRUE, !.speed = s]
    <3>1. CASE to = Nil
      <4>1. v = PutOn(u) /\ k = u.worn
        BY <1>2, <3>1 DEF Equipped
      <4> HIDE DEF v, k
      <4> QED BY <4>1 DEF PutOn, Faster, Sane, RunnerStates
    <3>2. CASE to # Nil
      <4>1. v = Faster(PutOn([u EXCEPT !.worn = k]), 0) /\ k = to
        BY <1>2, <2>0, <3>2 DEF Equipped
      <4>2. s + 0 = s
        BY <2>1
      <4> HIDE DEF v, k
      <4> QED BY <4>1, <4>2 DEF PutOn, Faster, Sane, RunnerStates
    <3> QED BY <3>1, <3>2
  <2> HIDE DEF v, k, s
  <2>3. /\ v.conds = u.conds /\ v.speed = s /\ v.mounted = u.mounted /\ v.mount = u.mount
        /\ v.able /\ v.worn = k /\ v.in = u.in /\ v.astray = u.astray
        /\ v \in RunnerStates
    BY <2>1, <2>2 DEF Sane, RunnerStates
  <2>4. Sane(v)
    BY <2>1, <2>3 DEF Sane
  <2>5. Rides(v) = Rides(u) /\ Wears(v) = Bonus[k] /\ Wears(u) = 0
    BY <1>2, <2>3 DEF Rides, Wears
  <2>6. Drift(v) = Drift(u)
    BY <2>1, <2>3, <2>5, Summands DEF Drift, s
  <2> QED BY <2>3, <2>4, <2>6 DEF Keeps, v
<1> QED BY <1>1, <1>2

\* The bonus of what is worn is taken off, and it may be another kind then, or gone.
LEMMA BareKeeps ==
  ASSUME NEW u, Sane(u), u.able, NEW k \in Clothes \union {Nil}
  PROVE  LET v == [u EXCEPT !.able = FALSE, !.speed = @ - Bonus[u.worn], !.worn = k]
         IN Keeps(u, v) /\ v.worn = k /\ ~v.able
<1> DEFINE v == [u EXCEPT !.able = FALSE, !.speed = @ - Bonus[u.worn], !.worn = k]
<1>0. u.worn \in Clothes
  BY DEF Sane
<1>1. PICK s \in Int : s = u.speed - Bonus[u.worn]
  BY <1>0, Summands
<1>2. /\ v.conds = u.conds /\ v.speed = s /\ v.mounted = u.mounted /\ v.mount = u.mount
      /\ ~v.able /\ v.worn = k /\ v.in = u.in /\ v.astray = u.astray
      /\ v \in RunnerStates
  BY <1>1 DEF Sane, RunnerStates
<1> HIDE DEF v
<1>3. Sane(v)
  BY <1>2 DEF Sane
<1>4. Rides(v) = Rides(u) /\ Wears(v) = 0 /\ Wears(u) = Bonus[u.worn]
  BY <1>2 DEF Rides, Wears
<1>5. Drift(v) = Drift(u)
  BY <1>0, <1>1, <1>2, <1>4, Summands DEF Drift
<1> QED BY <1>2, <1>3, <1>5 DEF Keeps, v

\* The kind of what is worn without a bonus does not matter.
LEMMA KindKeeps ==
  ASSUME NEW u, Sane(u), ~u.able, NEW k \in Clothes \union {Nil}
  PROVE  LET v == [u EXCEPT !.worn = k] IN Keeps(u, v) /\ v.worn = k /\ ~v.able
<1> DEFINE v == [u EXCEPT !.worn = k]
<1>2. /\ v.conds = u.conds /\ v.speed = u.speed /\ v.mounted = u.mounted /\ v.mount = u.mount
      /\ ~v.able /\ v.worn = k /\ v.in = u.in /\ v.astray = u.astray
      /\ v \in RunnerStates
  BY DEF Sane, RunnerStates
<1> HIDE DEF v
<1>3. Sane(v)
  BY <1>2 DEF Sane
<1>4. Rides(v) = Rides(u) /\ Wears(v) = 0 /\ Wears(u) = 0
  BY <1>2 DEF Rides, Wears
<1>5. Drift(v) = Drift(u)
  BY <1>2, <1>4 DEF Drift
<1> QED BY <1>2, <1>3, <1>5 DEF Keeps, v

\* What is worn is taken off and gone.
LEMMA UndressedKeeps ==
  ASSUME NEW u, Sane(u)
  PROVE  Keeps(u, [DeEquipped(u, Nil) EXCEPT !.worn = Nil])
<1>1. CASE u.able
  <2>1. [DeEquipped(u, Nil) EXCEPT !.worn = Nil]
          = [u EXCEPT !.able = FALSE, !.speed = @ - Bonus[u.worn], !.worn = Nil]
    BY <1>1, Summands DEF DeEquipped, Faster, Sane, RunnerStates
  <2> QED BY <1>1, <2>1, BareKeeps
<1>2. CASE ~u.able
  <2>1. DeEquipped(u, Nil) = u
    BY <1>2 DEF DeEquipped
  <2> QED BY <1>2, <2>1, KindKeeps
<1> QED BY <1>1, <1>2

\* Game::transformItem of what is worn keeps the drift, unless a kind that profits is
\* turned into another when taken off, and put on again.
LEMMA TransformedKeeps ==
  ASSUME NEW u, Sane(u), u.worn \in Clothes, NEW to \in Clothes,
         ~(u.able /\ DeEquipTo[u.worn] # Nil)
  PROVE  Keeps(u, WornTransformed(u, to))
<1> DEFINE x == [DeEquipped(u, DeEquipTo[u.worn]) EXCEPT !.worn = to]
<1>1. CASE u.worn = to
  BY <1>1, KeepsSame DEF WornTransformed
<1>2. CASE u.worn # to
  <2>1. WornTransformed(u, to) = Equipped(x)
    BY <1>2 DEF WornTransformed
  <2>2. Keeps(u, x) /\ x.worn = to
    <3>1. CASE u.able
      <4>1. DeEquipTo[u.worn] = Nil
        BY <3>1
      <4>2. x = [u EXCEPT !.able = FALSE, !.speed = @ - Bonus[u.worn], !.worn = to]
        BY <3>1, <4>1, Summands DEF DeEquipped, Faster, Sane, RunnerStates
      <4> HIDE DEF x
      <4> QED BY <3>1, <4>2, BareKeeps
    <3>2. CASE ~u.able
      <4>1. x = [u EXCEPT !.worn = to]
        BY <3>2 DEF DeEquipped
      <4> HIDE DEF x
      <4> QED BY <3>2, <4>1, KindKeeps
    <3> QED BY <3>1, <3>2
  <2> HIDE DEF x
  <2>3. Keeps(x, Equipped(x))
    BY <2>2, EquippedKeeps DEF Keeps
  <2> QED BY <2>1, <2>2, <2>3, KeepsOn
<1> QED BY <1>1, <1>2

\* In any case the player stays sane.
LEMMA TransformedSane ==
  ASSUME NEW u, Sane(u), u.worn \in Clothes, NEW to \in Clothes
  PROVE  /\ Sane(WornTransformed(u, to))
         /\ WornTransformed(u, to).in = u.in /\ WornTransformed(u, to).astray = u.astray
<1> DEFINE k == DeEquipTo[u.worn]
<1>1. CASE ~(u.able /\ k # Nil)
  BY <1>1, TransformedKeeps DEF Keeps
<1>2. CASE u.worn = to
  BY <1>2 DEF WornTransformed
<1>3. CASE u.able /\ k # Nil /\ u.worn # to
  <2>0. k \in Clothes /\ Bonus[u.worn] \in Int
    BY <1>3, SpeedAssumption
  <2> DEFINE x == [DeEquipped(u, k) EXCEPT !.worn = to]
  <2>1. WornTransformed(u, to) = Equipped(x)
    BY <1>3 DEF WornTransformed
  <2>2. Sane(x) /\ x.worn = to /\ x.in = u.in /\ x.astray = u.astray
    <3>1. CASE k = u.worn
      <4>0. x = [Faster([u EXCEPT !.able = FALSE], -Bonus[u.worn]) EXCEPT !.worn = to]
        BY <1>3, <3>1 DEF DeEquipped
      <4> HIDE DEF x, k
      <4>1. x = [u EXCEPT !.able = FALSE, !.speed = @ - Bonus[u.worn], !.worn = to]
        BY <2>0, <4>0, Summands DEF Faster, Sane, RunnerStates
      <4> QED BY <1>3, <4>1, BareKeeps DEF Keeps
    <3>2. CASE k # u.worn
      <4> DEFINE b == [[u EXCEPT !.able = FALSE] EXCEPT !.worn = k]
                 e == Equipped(b)
      <4>1. Sane(b) /\ b.worn = k /\ ~b.able /\ b.in = u.in /\ b.astray = u.astray
        BY <2>0 DEF Sane, RunnerStates
      <4>2. x = [Faster(e, -Bonus[u.worn]) EXCEPT !.worn = to]
        BY <1>3, <3>2 DEF DeEquipped
      <4> HIDE DEF x, b, k
      <4>3. Keeps(b, e)
        BY <2>0, <4>1, EquippedKeeps
      <4> HIDE DEF e
      <4>4. Sane(e) /\ e.in = u.in /\ e.astray = u.astray
        BY <4>1, <4>3 DEF Keeps
      <4>5. PICK s \in Int : s = e.speed + -Bonus[u.worn]
        BY <2>0, <4>4, Summands
      <4>6. x = [e EXCEPT !.speed = s, !.worn = to]
        BY <4>2, <4>4, <4>5 DEF Faster, Sane, RunnerStates
      <4>7. /\ x \in RunnerStates /\ x.conds = e.conds /\ x.mounted = e.mounted /\ x.mount = e.mount
            /\ x.worn = to /\ x.in = e.in /\ x.astray = e.astray
        BY <4>4, <4>6 DEF Sane, RunnerStates
      <4>8. Sane(x)
        BY <4>4, <4>7 DEF Sane
      <4> QED BY <4>4, <4>7, <4>8
    <3> QED BY <3>1, <3>2
  <2> HIDE DEF x
  <2>3. Keeps(x, Equipped(x))
    BY <2>2, EquippedKeeps
  <2> QED BY <2>1, <2>2, <2>3 DEF Keeps
<1> QED BY <1>1, <1>2, <1>3

(* Coming in *)

\* The saved conditions are added in their order: a loop like those of Decay.
AddsOn(u, q, Ds, h) ==
  h = [s \in Ds |-> IF s = {} THEN u ELSE ConditionAdded(h[s \ {Max(s)}], q[Max(s)], FALSE, FALSE)]
AllAdded(u, q) == FoldLeft(LAMBDA v, c : ConditionAdded(v, c, FALSE, FALSE), u, q)

LEMMA AllAddedIs ==
  ASSUME NEW u, NEW q
  PROVE  AllAdded(u, q) = (CHOOSE h : AddsOn(u, q, SUBSET DOMAIN q, h))[DOMAIN q]
  BY DEF AllAdded, FoldLeft, MapThenFoldSet, AddsOn

\* ... which goes through the list condition by condition, and keeps the drift.
LEMMA AllAddedKeeps ==
  ASSUME NEW u, Sane(u), NEW q \in Seq(Had)
  PROVE  Keeps(u, AllAdded(u, q))
<1>1. PICK N \in Nat : N = Len(q) /\ DOMAIN q = 1..N
  OBVIOUS
<1>2. PICK how : how = [what |-> "condition"]
  OBVIOUS
<1>3. how.what # "serve" /\ how.what # "place"
  BY <1>2
<1>4. ASSUME NEW h PROVE LoopsOn(how, q, u, SUBSET (1..N), h) <=> AddsOn(u, q, SUBSET (1..N), h)
  BY <1>3 DEF LoopsOn, AddsOn, Do
<1>5. \E h : LoopsOn(how, q, u, SUBSET (1..N), h)
  BY LoopHasTable
<1>6. PICK h : h = CHOOSE g : AddsOn(u, q, SUBSET (1..N), g)
  OBVIOUS
<1>7. AddsOn(u, q, SUBSET (1..N), h)
  BY <1>4, <1>5, <1>6
<1>8. AllAdded(u, q) = h[1..N]
  BY <1>1, <1>6, AllAddedIs
<1>9. Solves(how, q, u, N, h)
  BY <1>4, <1>7 DEF Solves
<1>10. EndsIn(how, q, u, N, AllAdded(u, q))
  BY <1>8, <1>9, LoopRuns
<1>11. PICK r : Runs(how, q, u, N, r) /\ r[N] = AllAdded(u, q)
  BY <1>10 DEF EndsIn
<1>12. r[0] = u /\ \A n \in 1..N : r[n] = ConditionAdded(r[n - 1], q[n], FALSE, FALSE)
  BY <1>3, <1>11 DEF Runs, Do
<1> DEFINE Bad == {n \in Nat : n <= N /\ ~Keeps(u, r[n])}
<1>13. Bad = {}
  <2>1. SUFFICES ASSUME Bad # {} PROVE FALSE
    OBVIOUS
  <2>2. PICK n \in Bad : \A m \in Bad : n <= m
    BY <2>1, LeastNumber
  <2>3. n # 0
    BY <1>12, <2>2, KeepsSame
  <2>4. n \in 1..N /\ n - 1 \in Nat /\ n - 1 \notin Bad
    BY <2>2, <2>3
  <2>5. Keeps(u, r[n - 1])
    BY <2>4
  <2>6. q[n] \in Had
    BY <1>1, <2>4
  <2>7. Givable(q[n])
    BY <2>6 DEF Givable, Had
  <2>8. Keeps(r[n - 1], ConditionAdded(r[n - 1], q[n], FALSE, FALSE))
    BY <2>5, <2>7, AddedKeeps DEF Keeps
  <2>9. Keeps(u, r[n])
    BY <1>12, <2>4, <2>5, <2>8, KeepsOn
  <2> QED BY <2>2, <2>9
<1>14. Keeps(u, r[N])
  BY <1>13
<1> QED BY <1>11, <1>14

(* The steps *)

\* What is known of the player, whatever happened to him.
Settled(u) ==
  /\ Sane(u)
  /\ u.in /\ ~u.astray => Drift(u) = 0
  /\ ~u.in => u.speed = 0 /\ ~u.able
SpeedInv == Settled(runner)

\* An operation that keeps the drift keeps that.
LEMMA KeepsSettled ==
  ASSUME NEW u, Settled(u), u.in, NEW v, Keeps(u, v)
  PROVE  Settled(v)
  BY DEF Settled, Keeps

\* Taking out of what was put off.
LEMMA TakenOut ==
  ASSUME NEW T, NEW q \in Seq(T), NEW i \in DOMAIN q
  PROVE  RemoveAt(q, i) \in Seq(T) /\ q[i] \in T
<1>1. i \in 1..Len(q) /\ Len(q) \in Nat
  OBVIOUS
<1>2. SubSeq(q, 1, i - 1) \in Seq(T) /\ SubSeq(q, i + 1, Len(q)) \in Seq(T)
  BY <1>1
<1> QED BY <1>1, <1>2 DEF RemoveAt

\* What conditions are given with.
LEMMA ConditionTypesAre ==
  ASSUME NEW c \in Conditions
  PROVE  c \in [type : ConditionTypes, delta : Int]
<1>1. {-p : p \in Paralyses} \subseteq Int /\ Hastes \subseteq Int /\ {0} \subseteq Int
  BY SpeedAssumption
<1>2. CASE c \in [type : {"haste"}, delta : Hastes]
  BY <1>1, <1>2 DEF ConditionTypes
<1>3. CASE c \in [type : {"paralyze"}, delta : {-p : p \in Paralyses}]
  <2>1. c \in [type : {"paralyze"}, delta : Int]
    <3> DEFINE P == {-p : p \in Paralyses}
    <3> HIDE DEF P
    <3>1. P \subseteq Int
      BY <1>1 DEF P
    <3>2. c \in [type : {"paralyze"}, delta : P]
      BY <1>3 DEF P
    <3> QED BY <3>1, <3>2
  <2> QED BY <2>1 DEF ConditionTypes
<1>4. CASE c \in [type : {"outfit"}, delta : {0}]
  BY <1>1, <1>4 DEF ConditionTypes
<1> QED BY <1>2, <1>3, <1>4 DEF Conditions

\* Creature::addCondition and Creature::removeCondition
LEMMA AddStep ==
  ASSUME SpeedInv, NEW c \in Conditions, NEW walking \in BOOLEAN, AddCondition(c, walking)
  PROVE  SpeedInv'
<1>1. c \in [type : ConditionTypes, delta : Int]
  BY ConditionTypesAre
<1>2. Givable(c)
  BY <1>1 DEF Givable
<1>3. runner.in /\ Sane(runner) /\ runner' = ConditionAdded(runner, c, FALSE, walking)
  BY DEF AddCondition, Playing, SpeedInv, Settled
<1>4. Keeps(runner, runner')
  BY <1>1, <1>2, <1>3, AddedKeeps
<1> QED BY <1>3, <1>4, KeepsSettled DEF SpeedInv

LEMMA RemoveStep ==
  ASSUME SpeedInv, NEW type, NEW walking \in BOOLEAN, RemoveCondition(type, walking)
  PROVE  SpeedInv'
<1>1. runner.in /\ Sane(runner) /\ runner' = ConditionRemoved(runner, type, FALSE, walking)
  BY DEF RemoveCondition, Playing, SpeedInv, Settled
<1>2. Keeps(runner, runner')
  BY <1>1, RemovedKeeps
<1> QED BY <1>1, <1>2, KeepsSettled DEF SpeedInv

\* What was put off comes while he plays, or when he is gone.
LEMMA PutOffSettled ==
  ASSUME NEW u, Settled(u), NEW q \in Seq([type : ConditionTypes, delta : Int]), NEW n \in Nat,
         NEW v, v = [u EXCEPT !.adds = q, !.removals = n]
  PROVE  Settled(v)
<1>1. Keeps(u, v)
  BY PutOffKeeps DEF Settled
<1>2. v.speed = u.speed /\ v.able = u.able
  BY DEF Settled, Sane, RunnerStates
<1> QED BY <1>1, <1>2 DEF Settled, Keeps

LEMMA ForceAddStep ==
  ASSUME SpeedInv, NEW i, NEW walking \in BOOLEAN, ForceAddCondition(i, walking)
  PROVE  SpeedInv'
<1> DEFINE u == [runner EXCEPT !.adds = RemoveAt(@, i)]
           c == runner.adds[i]
<1>1. /\ runner.adds \in Seq([type : ConditionTypes, delta : Int]) /\ i \in DOMAIN runner.adds
      /\ runner.removals \in Nat /\ runner \in RunnerStates
  BY DEF SpeedInv, Settled, Sane, RunnerStates, ForceAddCondition
<1>2. RemoveAt(runner.adds, i) \in Seq([type : ConditionTypes, delta : Int]) /\ c \in [type : ConditionTypes, delta : Int]
  BY <1>1, TakenOut
<1>3. u = [runner EXCEPT !.adds = RemoveAt(runner.adds, i), !.removals = runner.removals]
  BY <1>1 DEF RunnerStates
<1>4. u.in = runner.in
  BY <1>1 DEF RunnerStates
<1>5. runner' = IF runner.in THEN ConditionAdded(u, c, TRUE, walking) ELSE u
  BY DEF ForceAddCondition, Playing
<1> HIDE DEF u, c
<1>6. Settled(u)
  BY <1>1, <1>2, <1>3, PutOffSettled DEF SpeedInv
<1>7. CASE ~runner.in
  BY <1>5, <1>6, <1>7 DEF SpeedInv
<1>8. CASE runner.in
  <2>1. Givable(c)
    BY <1>2 DEF Givable
  <2>2. Keeps(u, runner')
    BY <1>2, <1>5, <1>6, <1>8, <2>1, AddedKeeps DEF Settled
  <2> QED BY <1>4, <1>6, <1>8, <2>2, KeepsSettled DEF SpeedInv
<1> QED BY <1>7, <1>8

LEMMA ForceRemoveStep ==
  ASSUME SpeedInv, ForceRemoveCondition
  PROVE  SpeedInv'
<1> DEFINE u == [runner EXCEPT !.removals = @ - 1]
<1>1. runner \in RunnerStates /\ runner.removals \in Nat /\ runner.removals > 0
  BY DEF SpeedInv, Settled, Sane, RunnerStates, ForceRemoveCondition
<1>2. PICK n \in Nat : n = runner.removals - 1
  BY <1>1
<1>3. u = [runner EXCEPT !.adds = runner.adds, !.removals = n] /\ u.in = runner.in
      /\ runner.adds \in Seq([type : ConditionTypes, delta : Int])
  BY <1>1, <1>2 DEF RunnerStates
<1>4. runner' = IF runner.in THEN ConditionRemoved(u, "paralyze", TRUE, FALSE) ELSE u
  BY DEF ForceRemoveCondition, Playing
<1> HIDE DEF u
<1>5. Settled(u)
  BY <1>3, PutOffSettled DEF SpeedInv
<1>6. CASE ~runner.in
  BY <1>4, <1>5, <1>6 DEF SpeedInv
<1>7. CASE runner.in
  <2>1. Keeps(u, runner')
    BY <1>4, <1>5, <1>7, RemovedKeeps DEF Settled
  <2> QED BY <1>3, <1>5, <1>7, <2>1, KeepsSettled DEF SpeedInv
<1> QED BY <1>6, <1>7

\* The time of a condition is over, and a round finds out.
LEMMA RunsOutStep ==
  ASSUME SpeedInv, NEW c \in runner.conds, RunsOut(c)
  PROVE  SpeedInv'
<1> DEFINE n == [c EXCEPT !.over = TRUE]
           R == runner.conds \ {c}
<1>1. /\ runner \in RunnerStates /\ Sane(runner) /\ runner.in
      /\ runner.conds \in SUBSET Had /\ IsFiniteSet(runner.conds)
  BY DEF SpeedInv, Settled, Sane, RunnerStates, RunsOut, Playing
<1>2. n \in Had /\ n.type = c.type /\ n.delta = c.delta /\ \A x \in R : x.type # n.type
  BY <1>1 DEF Had, Sane, OneOfEach
<1>3. Gives(runner.conds) = c.delta + Gives(R) /\ Gives(R) \in Int /\ c.delta \in Int
  <2>1. R \in SUBSET Had /\ IsFiniteSet(R)
    BY <1>1, FS_Subset
  <2> QED BY <1>1, <2>1, GivesWithout, GivesType DEF Had
<1>4. runner.speed = runner.speed + (Gives(R) + n.delta - Gives(runner.conds))
  BY <1>1, <1>2, <1>3, Summands
<1>5. runner' = [runner EXCEPT !.conds = R \union {n}, !.speed = runner.speed]
  BY <1>1 DEF RunsOut, RunnerStates
<1>6. R \in SUBSET runner.conds
  OBVIOUS
<1> HIDE DEF n, R
<1>7. Keeps(runner, runner')
  BY <1>1, <1>2, <1>4, <1>5, <1>6, ChangedKeeps
<1> QED BY <1>1, <1>7, KeepsSettled DEF SpeedInv

LEMMA ExecuteStep ==
  ASSUME SpeedInv, ExecuteConditions
  PROVE  SpeedInv'
<1> DEFINE S == {c \in runner.conds : c.over}
<1>1. runner.in /\ Sane(runner)
  BY DEF SpeedInv, Settled, ExecuteConditions, Playing
<1>2. runner' = AllOver(runner, S)
  BY DEF ExecuteConditions, AllOver
<1>3. S \in SUBSET runner.conds
  OBVIOUS
<1> HIDE DEF S
<1>4. Keeps(runner, runner')
  BY <1>1, <1>2, <1>3, AllOverKeeps
<1> QED BY <1>1, <1>4, KeepsSettled DEF SpeedInv

\* Mounting, exchanging the mount, leaving and losing it
LEMMA ToggleStep ==
  ASSUME SpeedInv, NEW allowed \in BOOLEAN, NEW owned \in BOOLEAN, ToggleMount(allowed, owned)
  PROVE  SpeedInv'
<1>1. runner.in /\ Sane(runner)
  BY DEF SpeedInv, Settled, ToggleMount, Playing
<1>2. Keeps(runner, runner')
  BY <1>1, DismountKeeps, MountUpKeeps DEF ToggleMount
<1> QED BY <1>1, <1>2, KeepsSettled DEF SpeedInv

\* Another mount, of one who does not ride.
LEMMA MountKeeps ==
  ASSUME NEW u, Sane(u), ~u.mounted, NEW m \in Mounts \union {Nil}
  PROVE  Keeps(u, [u EXCEPT !.mount = m])
<1> DEFINE v == [u EXCEPT !.mount = m]
<1>1. /\ v.conds = u.conds /\ v.speed = u.speed /\ ~v.mounted
      /\ v.able = u.able /\ v.worn = u.worn /\ v.in = u.in /\ v.astray = u.astray
      /\ v \in RunnerStates
  BY DEF Sane, RunnerStates
<1> HIDE DEF v
<1>2. Sane(v)
  BY <1>1 DEF Sane
<1>3. Keeps(u, v)
  BY <1>1, <1>2 DEF Keeps, Drift, Rides, Wears
<1> QED BY <1>3 DEF v

LEMMA OutfitStep ==
  ASSUME SpeedInv, NEW m \in Mounts \union {Nil}, ChangeOutfit(m)
  PROVE  SpeedInv'
<1>1. runner.in /\ Sane(runner)
  BY DEF SpeedInv, Settled, ChangeOutfit, Playing
<1>2. Keeps(runner, runner')
  <2>1. CASE m = Nil
    BY <1>1, <2>1, DismountKeeps, KeepsSame DEF ChangeOutfit
  <2>2. CASE m # Nil /\ runner.mounted
    <3>0. runner.mount \in Mounts /\ runner.mount # Nil
      BY <1>1, <2>2, SpeedAssumption DEF Sane
    <3>1. SpeedOf(m) \in Int /\ SpeedOf(runner.mount) \in Int
      BY <1>1, Summands, SpeedAssumption DEF SpeedOf
    <3>2. PICK s \in Int : s = runner.speed + (SpeedOf(m) - SpeedOf(runner.mount))
      BY <1>1, <3>1, Summands
    <3>3. runner' = [runner EXCEPT !.mount = m, !.speed = s]
      BY <1>1, <2>2, <3>0, <3>2 DEF ChangeOutfit, Faster, Sane, RunnerStates
    <3>4. /\ runner'.conds = runner.conds /\ runner'.speed = s /\ runner'.mounted /\ runner'.mount = m
          /\ runner'.able = runner.able /\ runner'.worn = runner.worn
          /\ runner'.in = runner.in /\ runner'.astray = runner.astray
          /\ runner' \in RunnerStates
      BY <1>1, <2>2, <3>3 DEF Sane, RunnerStates
    <3>5. Sane(runner')
      BY <1>1, <2>2, <3>4 DEF Sane
    <3>6. Rides(runner') = SpeedOf(m) /\ Rides(runner) = SpeedOf(runner.mount) /\ Wears(runner') = Wears(runner)
      BY <2>2, <3>4 DEF Rides, Wears
    <3>7. Drift(runner') = Drift(runner)
      BY <1>1, <3>1, <3>2, <3>4, <3>6, Summands DEF Drift
    <3> QED BY <3>4, <3>5, <3>7 DEF Keeps
  <2>3. CASE m # Nil /\ ~runner.mounted
    BY <1>1, <2>3, MountKeeps DEF ChangeOutfit
  <2> QED BY <2>1, <2>2, <2>3
<1> QED BY <1>1, <1>2, KeepsSettled DEF SpeedInv

LEMMA UntameStep ==
  ASSUME SpeedInv, UntameMount
  PROVE  SpeedInv'
<1> DEFINE u == IF runner.mounted THEN Dismounted(runner) ELSE runner
<1>1. runner.in /\ Sane(runner)
  BY DEF SpeedInv, Settled, UntameMount, Playing
<1>2. Keeps(runner, u)
  BY <1>1, DismountKeeps, KeepsSame
<1>3. ~u.mounted
  BY <1>1 DEF Dismounted, Faster, Sane, RunnerStates
<1>4. runner' = [u EXCEPT !.mount = Nil]
  BY DEF UntameMount
<1> HIDE DEF u
<1>5. Keeps(u, runner')
  BY <1>2, <1>3, <1>4, MountKeeps DEF Keeps
<1>6. Keeps(runner, runner')
  BY <1>2, <1>5, KeepsOn
<1> QED BY <1>1, <1>6, KeepsSettled DEF SpeedInv

\* Player::onChangeZone
LEMMA ZoneStep ==
  ASSUME SpeedInv, NEW allowed \in BOOLEAN, NEW owned \in BOOLEAN, ChangeZone(allowed, owned)
  PROVE  SpeedInv'
<1> DEFINE u == [runner EXCEPT !.pz = ~@]
<1>1. runner.in /\ Sane(runner) /\ runner \in RunnerStates
  BY DEF SpeedInv, Settled, Sane, ChangeZone, Playing
<1>2. Keeps(runner, u)
  <2>1. /\ u.conds = runner.conds /\ u.speed = runner.speed /\ u.mounted = runner.mounted
        /\ u.mount = runner.mount /\ u.able = runner.able /\ u.worn = runner.worn
        /\ u.in = runner.in /\ u.astray = runner.astray /\ u \in RunnerStates
    BY <1>1 DEF RunnerStates
  <2> HIDE DEF u
  <2>2. Sane(u)
    BY <1>1, <2>1 DEF Sane
  <2> QED BY <2>1, <2>2 DEF Keeps, Drift, Rides, Wears
<1>3. ASSUME NEW v, Keeps(u, v), NEW b \in BOOLEAN, runner' = [v EXCEPT !.was = b]
      PROVE  Keeps(u, runner')
  <2>1. Sane(v) /\ v \in RunnerStates
    BY <1>3 DEF Keeps, Sane
  <2>2. /\ runner'.conds = v.conds /\ runner'.speed = v.speed /\ runner'.mounted = v.mounted
        /\ runner'.mount = v.mount /\ runner'.able = v.able /\ runner'.worn = v.worn
        /\ runner'.in = v.in /\ runner'.astray = v.astray /\ runner' \in RunnerStates
    BY <1>3, <2>1 DEF RunnerStates
  <2>3. Sane(runner')
    BY <2>1, <2>2 DEF Sane
  <2>4. Keeps(v, runner')
    BY <2>2, <2>3 DEF Keeps, Drift, Rides, Wears
  <2> QED BY <1>3, <2>4, KeepsOn
<1>4. runner' = IF u.pz
                THEN IF u.mounted THEN [Dismounted(u) EXCEPT !.was = TRUE] ELSE u
                ELSE [IF u.was THEN MountUp(u, allowed, owned) ELSE u EXCEPT !.was = FALSE]
  BY DEF ChangeZone
<1> HIDE DEF u
<1>5. Sane(u)
  BY <1>2 DEF Keeps
<1>6. Keeps(u, runner')
  <2>1. CASE u.pz /\ u.mounted
    BY <1>3, <1>4, <1>5, <2>1, DismountKeeps
  <2>2. CASE u.pz /\ ~u.mounted
    BY <1>4, <1>5, <2>2, KeepsSame
  <2>3. CASE ~u.pz /\ u.was
    BY <1>3, <1>4, <1>5, <2>3, MountUpKeeps
  <2>4. CASE ~u.pz /\ ~u.was
    BY <1>3, <1>4, <1>5, <2>4, KeepsSame
  <2> QED BY <2>1, <2>2, <2>3, <2>4
<1>7. Keeps(runner, runner')
  BY <1>2, <1>6, KeepsOn
<1> QED BY <1>1, <1>7, KeepsSettled DEF SpeedInv

\* Putting on and taking off
LEMMA WearStep ==
  ASSUME SpeedInv, NEW k \in Clothes, Wear(k)
  PROVE  SpeedInv'
<1> DEFINE u == [runner EXCEPT !.worn = k]
<1>1. runner.in /\ Sane(runner) /\ runner.worn = Nil /\ runner' = Equipped(u)
  BY DEF SpeedInv, Settled, Wear, Playing
<1>2. ~runner.able
  BY <1>1, SpeedAssumption DEF Sane
<1>3. Keeps(runner, u) /\ u.worn = k
  BY <1>1, <1>2, KindKeeps
<1> HIDE DEF u
<1>4. Keeps(u, runner')
  BY <1>1, <1>3, EquippedKeeps DEF Keeps
<1>5. Keeps(runner, runner')
  BY <1>3, <1>4, KeepsOn
<1> QED BY <1>1, <1>5, KeepsSettled DEF SpeedInv

LEMMA UndressStep ==
  ASSUME SpeedInv, Undress
  PROVE  SpeedInv'
<1>1. runner.in /\ Sane(runner) /\ runner' = [DeEquipped(runner, Nil) EXCEPT !.worn = Nil]
  BY DEF SpeedInv, Settled, Undress, Playing
<1>2. Keeps(runner, runner')
  BY <1>1, UndressedKeeps
<1> QED BY <1>1, <1>2, KeepsSettled DEF SpeedInv

\* The history only.
LEMMA AstraySane ==
  ASSUME NEW u, Sane(u), NEW b \in BOOLEAN
  PROVE  LET v == [u EXCEPT !.astray = b]
         IN Sane(v) /\ v.in = u.in /\ v.astray = b /\ Drift(v) = Drift(u)
<1> DEFINE v == [u EXCEPT !.astray = b]
<1>1. /\ v.conds = u.conds /\ v.speed = u.speed /\ v.mounted = u.mounted
      /\ v.mount = u.mount /\ v.able = u.able /\ v.worn = u.worn
      /\ v.in = u.in /\ v.astray = b /\ v \in RunnerStates
  BY DEF Sane, RunnerStates
<1> HIDE DEF v
<1>2. Sane(v)
  BY <1>1 DEF Sane
<1> QED BY <1>1, <1>2 DEF Drift, Rides, Wears, v

LEMMA TransformStep ==
  ASSUME SpeedInv, NEW to \in Clothes, TransformWorn(to)
  PROVE  SpeedInv'
<1> DEFINE v == WornTransformed(runner, to)
           b == runner.astray \/ (runner.able /\ DeEquipTo[runner.worn] # Nil)
<1>1. runner.in /\ Sane(runner) /\ runner.worn \in Clothes /\ runner.astray \in BOOLEAN
  BY DEF SpeedInv, Settled, TransformWorn, Playing, Sane, RunnerStates
<1>2. Sane(v) /\ v.in = runner.in /\ v.astray = runner.astray
  BY <1>1, TransformedSane
<1>3. ~b => Keeps(runner, v)
  BY <1>1, TransformedKeeps
<1>4. b \in BOOLEAN /\ (~b => ~runner.astray)
  BY <1>1
<1>5. runner' = [v EXCEPT !.astray = v.astray \/ (runner.able /\ DeEquipTo[runner.worn] # Nil)]
  BY <1>2 DEF TransformWorn, Sane, RunnerStates
<1>6. runner' = [v EXCEPT !.astray = b]
  BY <1>2, <1>5
<1> HIDE DEF v, b
<1>7. Sane(runner') /\ runner'.in /\ runner'.astray = b /\ Drift(runner') = Drift(v)
  BY <1>1, <1>2, <1>4, <1>6, AstraySane
<1>8. ~b => Drift(runner') = 0
  BY <1>1, <1>3, <1>4, <1>7 DEF Keeps, SpeedInv, Settled
<1> QED BY <1>7, <1>8 DEF SpeedInv, Settled

\* A login, with the conditions that were saved: the number starts at 0.
LEMMA ComeInStep ==
  ASSUME SpeedInv, NEW pz \in BOOLEAN, NEW q \in SetToSeqs(runner.conds), ComeIn(pz, q)
  PROVE  SpeedInv'
<1> DEFINE here == [runner EXCEPT !.in = TRUE, !.pz = pz, !.conds = {}, !.astray = @ \/ runner.mounted]
           clad == IF here.worn = Nil THEN here ELSE Equipped(here)
           able == AllAdded(clad, q)
<1>1. ~runner.in /\ Sane(runner) /\ runner \in RunnerStates /\ runner.speed = 0 /\ ~runner.able
  BY DEF SpeedInv, Settled, Sane, ComeIn, Playing
<1>2. q \in Seq(Had)
  <2>1. IsFiniteSet(runner.conds) /\ Cardinality(runner.conds) \in Nat /\ runner.conds \in SUBSET Had
    BY <1>1, FS_CardinalityType DEF Sane, RunnerStates
  <2>2. q \in [1..Cardinality(runner.conds) -> Had]
    BY <2>1 DEF SetToSeqs
  <2> QED BY <2>1, <2>2
<1>3. runner' = IF pz /\ able.mounted THEN Dismounted(able) ELSE able
  BY DEF ComeIn, AllAdded
<1>4. /\ here \in RunnerStates /\ here.in /\ here.conds = {} /\ here.speed = 0 /\ ~here.able
      /\ here.mounted = runner.mounted /\ here.mount = runner.mount /\ here.worn = runner.worn
      /\ here.astray = (runner.astray \/ runner.mounted)
  <2>1. PICK a : a = [runner EXCEPT !.in = TRUE, !.pz = pz]
    OBVIOUS
  <2>2. PICK b \in BOOLEAN : b = (runner.astray \/ runner.mounted)
    BY <1>1 DEF RunnerStates
  <2>3. /\ a \in RunnerStates /\ a.in /\ a.speed = 0 /\ ~a.able /\ a.mounted = runner.mounted
        /\ a.mount = runner.mount /\ a.worn = runner.worn
    BY <1>1, <2>1 DEF RunnerStates
  <2>4. here = [a EXCEPT !.conds = {}, !.astray = b]
    BY <1>1, <2>1, <2>2 DEF RunnerStates
  <2> HIDE DEF here
  <2> QED BY <2>2, <2>3, <2>4 DEF RunnerStates
<1> HIDE DEF here
<1>5. Sane(here) /\ here.worn \in Clothes \union {Nil}
  BY <1>1, <1>4, FS_EmptySet DEF Sane, OneOfEach, RunnerStates
<1>6. ~here.astray => Drift(here) = 0
  <2>1. Wears(here) = 0 /\ Gives(here.conds) = 0
    BY <1>4, GivesNothing DEF Wears
  <2>2. ASSUME ~here.astray PROVE Rides(here) = 0
    BY <1>4, <2>2 DEF Rides
  <2> QED BY <1>4, <2>1, <2>2 DEF Drift
<1>7. Keeps(here, clad)
  BY <1>5, EquippedKeeps, KeepsSame
<1> HIDE DEF clad
<1>8. Keeps(clad, able)
  BY <1>2, <1>7, AllAddedKeeps DEF Keeps
<1> HIDE DEF able
<1>9. Keeps(able, runner')
  <2>1. Sane(able)
    BY <1>8 DEF Keeps
  <2> QED BY <1>3, <2>1, DismountKeeps, KeepsSame
<1>10. Keeps(here, runner')
  BY <1>7, <1>8, <1>9, KeepsOn
<1> QED BY <1>4, <1>5, <1>6, <1>10 DEF SpeedInv, Settled, Keeps

\* A logout, or a death: nothing is left of the number.
LEMMA GoOutStep ==
  ASSUME SpeedInv, NEW died \in BOOLEAN, GoOut(died)
  PROVE  SpeedInv'
<1>1. Sane(runner) /\ runner \in RunnerStates
  BY DEF SpeedInv, Settled, Sane
<1>2. PICK S \in SUBSET runner.conds :
        runner' = [runner EXCEPT !.in = FALSE, !.pz = FALSE, !.speed = 0, !.able = FALSE,
                     !.was = FALSE, !.astray = FALSE, !.conds = S]
  <2>1. CASE died
    BY <2>1 DEF GoOut
  <2>2. CASE ~died
    BY <2>2 DEF GoOut
  <2> QED BY <2>1, <2>2
<1>3. IsFiniteSet(S) /\ OneOfEach(S) /\ S \in SUBSET Had
  BY <1>1, FS_Subset DEF Sane, OneOfEach, RunnerStates
<1>4. /\ runner'.conds = S /\ runner'.speed = 0 /\ runner'.mounted = runner.mounted
      /\ runner'.mount = runner.mount /\ ~runner'.able /\ ~runner'.in /\ runner' \in RunnerStates
  <2>1. PICK z : z = [runner EXCEPT !.in = FALSE, !.pz = FALSE]
    OBVIOUS
  <2>2. PICK a : a = [z EXCEPT !.speed = 0]
    OBVIOUS
  <2>3. PICK b : b = [a EXCEPT !.able = FALSE, !.was = FALSE, !.astray = FALSE]
    OBVIOUS
  <2>4. runner' = [b EXCEPT !.conds = S]
    BY <1>2, <2>1, <2>2, <2>3, Zenon
  <2>5. z \in RunnerStates /\ z.mounted = runner.mounted /\ z.mount = runner.mount /\ ~z.in
    BY <1>1, <2>1 DEF RunnerStates
  <2>6. a \in RunnerStates
    BY <2>2, <2>5 DEF RunnerStates
  <2>7. a.speed = 0 /\ a.mounted = runner.mounted /\ a.mount = runner.mount /\ ~a.in
    BY <2>2, <2>5 DEF RunnerStates
  <2>8. b \in RunnerStates
    BY <2>3, <2>6 DEF RunnerStates
  <2>9. b.speed = 0 /\ b.mounted = runner.mounted /\ b.mount = runner.mount /\ ~b.in /\ ~b.able
    BY <2>3, <2>6, <2>7 DEF RunnerStates
  <2>10. runner' \in RunnerStates
    BY <1>3, <2>4, <2>8 DEF RunnerStates
  <2> QED BY <1>3, <2>4, <2>8, <2>9, <2>10 DEF RunnerStates
<1>5. Sane(runner')
  BY <1>1, <1>3, <1>4 DEF Sane
<1> QED BY <1>4, <1>5 DEF SpeedInv, Settled

\* A player who is not in the world has no speed.
LEMMA SpeedStarts == SpeedInit => SpeedInv
<1> SUFFICES ASSUME SpeedInit PROVE SpeedInv
  OBVIOUS
<1>1. /\ runner \in RunnerStates /\ runner.conds = {} /\ ~runner.mounted /\ ~runner.able
      /\ ~runner.in /\ runner.speed = 0
  BY DEF SpeedInit, RunnerStates
<1>2. Sane(runner)
  BY <1>1, FS_EmptySet DEF Sane, OneOfEach
<1> QED BY <1>1, <1>2 DEF SpeedInv, Settled

\* Every step keeps the invariant.
LEMMA SpeedSteps == SpeedInv /\ [SpeedNext]_runner => SpeedInv'
<1> SUFFICES ASSUME SpeedInv, [SpeedNext]_runner PROVE SpeedInv'
  OBVIOUS
<1>1. CASE \E c \in Conditions, walking \in BOOLEAN : AddCondition(c, walking)
  BY <1>1, AddStep
<1>2. CASE \E c \in Conditions, walking \in BOOLEAN : RemoveCondition(c.type, walking)
  BY <1>2, RemoveStep
<1>3. CASE \E i \in 1..MaxDelayed, walking \in BOOLEAN : ForceAddCondition(i, walking)
  BY <1>3, ForceAddStep
<1>4. CASE ForceRemoveCondition
  BY <1>4, ForceRemoveStep
<1>5. CASE \E c \in runner.conds : RunsOut(c)
  BY <1>5, RunsOutStep
<1>6. CASE ExecuteConditions
  BY <1>6, ExecuteStep
<1>7. CASE \E allowed, owned \in BOOLEAN : ToggleMount(allowed, owned) \/ ChangeZone(allowed, owned)
  BY <1>7, ToggleStep, ZoneStep
<1>8. CASE \E m \in Mounts \union {Nil} : ChangeOutfit(m)
  BY <1>8, OutfitStep
<1>9. CASE UntameMount
  BY <1>9, UntameStep
<1>10. CASE \E k \in Clothes : Wear(k) \/ TransformWorn(k)
  BY <1>10, WearStep, TransformStep
<1>11. CASE Undress
  BY <1>11, UndressStep
<1>12. CASE \E pz, died \in BOOLEAN : (\E order \in SetToSeqs(runner.conds) : ComeIn(pz, order)) \/ GoOut(died)
  BY <1>12, ComeInStep, GoOutStep
<1>13. CASE UNCHANGED runner
  BY <1>13 DEF SpeedInv
<1> QED BY <1>1, <1>2, <1>3, <1>4, <1>5, <1>6, <1>7, <1>8, <1>9, <1>10, <1>11, <1>12, <1>13 DEF SpeedNext

\* A player's speed is what his conditions, his mount and what he wears add up to:
\* everybody who takes something off the one number there is takes off what was put
\* there, in whatever order conditions start, are refreshed, put off and end, mounts
\* and clothes change, and he comes and goes (Game::changeSpeed, game.cpp 5559).
THEOREM SpeedAddsUpHolds == SpeedSpec => []SpeedAddsUp
<1>1. SpeedInv => SpeedAddsUp
  <2> SUFFICES ASSUME SpeedInv, runner.in, ~runner.astray
               PROVE  runner.speed = Gives(runner.conds)
                        + (IF runner.mounted THEN SpeedOf(runner.mount) ELSE 0)
                        + (IF runner.able THEN Bonus[runner.worn] ELSE 0)
    BY DEF SpeedAddsUp, Playing, Gives
  <2>1. Sane(runner) /\ Drift(runner) = 0
    BY DEF SpeedInv, Settled
  <2>2. runner.speed = Gives(runner.conds) + Rides(runner) + Wears(runner)
    BY <2>1, Summands DEF Drift
  <2> QED BY <2>2 DEF Rides, Wears
<1> QED BY <1>1, SpeedStarts, SpeedSteps, PTL DEF SpeedSpec
=============================================================================
