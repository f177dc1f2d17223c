------------------------------- MODULE Walking -------------------------------
(***************************************************************************)
(* What a player is doing next (player.cpp 1643-1720, creature.cpp         *)
(* 191-291, the handlers of game.cpp that begin with "need to walk").      *)
(*                                                                         *)
(* A command that cannot be carried out at once is put off: until the      *)
(* player may act again (a timer), or until he has walked there (walkTask, *)
(* which becomes a timer when the walk is complete).  A Player has a slot  *)
(* for the timer of each kind, and eventWalk for the next step of a walk.  *)
(* A timer that has expired lies in the dispatcher's list, in front, and   *)
(* stopEvent comes too late for it.                                        *)
(*                                                                         *)
(* One player; where things are and what time it is is left open, so every *)
(* handler may find its target out of reach, or find that it is too early, *)
(* and every timer may expire next.                                        *)
(***************************************************************************)
EXTENDS Integers, Sequences, FiniteSets, FiniteSetsExt

CONSTANTS
  MaxSteps,    \* bound: the longest walk
  MaxPending,  \* bound: timers and tasks under way before another is made
  MaxQueue,    \* bound: tasks that wait when a timer expires
  NoTask

ASSUME WalkingAssumption == MaxSteps \in Nat \ {0} /\ {MaxPending, MaxQueue} \subseteq Nat

VARIABLES
  y   \* the player, his timers and what the dispatcher has for him

Slots == {"step", "walk", "action", "potion", "push"}
Commands == {"use", "move", "potion", "push", "attack"}
Happens == {"nothing", "early", "teleport", "paralysed"}   \* to one who walks

WalkingInit ==
  y = [steps |-> 0, moves |-> TRUE, cancel |-> FALSE, stranded |-> FALSE,
       slot |-> [s \in Slots |-> 0], walkTask |-> NoTask, inPush |-> FALSE,
       timers |-> {}, queue |-> << >>]

-----------------------------------------------------------------------------
(* Timers: scheduler, dispatcher, slots *)

Taken(u) == {t.id : t \in u.timers} \union {u.queue[j].id : j \in DOMAIN u.queue}
             \union {u.slot[s] : s \in Slots}
NewId(u) == Min(1..(Cardinality(Taken(u)) + 1) \ Taken(u))
Exists(u, id) == \E t \in u.timers \union {u.queue[j] : j \in DOMAIN u.queue} : t.id = id

Stopped(u, s) ==
  [u EXCEPT !.slot[s] = 0, !.timers = {t \in @ : u.slot[s] = 0 \/ t.id # u.slot[s]}]

Armed(u, s, do) ==
  LET id == NewId(u) IN
  [u EXCEPT !.slot[s] = id, !.timers = @ \union {[id |-> id, do |-> do]}]

ArmedIf(u, s, do) == IF do = NoTask THEN u ELSE Armed(u, s, do)

\* Player::cancelPush.
PushCancelled(u) ==
  IF u.slot["push"] = 0 THEN u ELSE [Stopped(u, "push") EXCEPT !.inPush = FALSE]

\* Player::setNextWalkActionTask.
NextWalkAction(u, do) == [Stopped(u, "walk") EXCEPT !.walkTask = do]

\* (Mutant: the action put off before stays.)
NextAction_Added(u, do) == ArmedIf(IF u.inPush THEN u ELSE PushCancelled(u), "action", do)

\* Player::setNextActionTask, setNextActionPushTask and setNextPotionActionTask.
NextAction(u, do) ==
  LET v == Stopped(u, "action") IN
  ArmedIf(IF v.inPush THEN v ELSE PushCancelled(v), "action", do)
NextPush(u, do) == ArmedIf(Stopped(u, "push"), "push", do)
NextPotion(u, do) == ArmedIf(PushCancelled(Stopped(u, "potion")), "potion", do)

-----------------------------------------------------------------------------
(* Walking *)

\* Player::onWalkComplete and onWalkAborted.
WalkComplete(u) ==
  IF u.walkTask = NoTask THEN u ELSE [Armed(u, "walk", u.walkTask) EXCEPT !.walkTask = NoTask]
WalkAborted(u) == NextWalkAction([u EXCEPT !.steps = 0, !.cancel = FALSE], NoTask)

\* Creature::setSpeed, to 0 or less.
Paralysed(u) == [Stopped(u, "step") EXCEPT !.moves = FALSE, !.cancel = TRUE]

\* Creature::onCreatureMove: a teleport stops the walk where it is.  (History:
\* stranded is a walk whose steps or whose end nothing will bring about.)
Teleported(u) ==
  [Stopped(u, "step") EXCEPT !.stranded = @ \/ u.steps > 0 \/ u.walkTask # NoTask]

\* Creature::getNextStep and Player::onWalk, and what the step may bring.
Stepped(u, what) ==
  LET v == NextAction([u EXCEPT !.steps = @ - 1], NoTask) IN
  IF what = "teleport" THEN Teleported(v)
  ELSE IF what = "paralysed" THEN Paralysed(v) ELSE v

\* Creature::onCreatureWalk up to its last test.
Walked(u, what) ==
  LET v == IF what = "early" THEN u
           ELSE IF u.steps > 0 THEN Stepped(u, what) ELSE Stopped(WalkComplete(u), "step")
  IN IF v.cancel THEN WalkAborted(v) ELSE v

\* Creature::addEventWalk; the first step may be taken at once.
EventWalkAdded(u, first, what) ==
  LET v == [u EXCEPT !.cancel = FALSE] IN
  IF ~v.moves \/ v.slot["step"] # 0 THEN v
  ELSE Armed(IF first THEN Walked(v, what) ELSE v, "step", "step")

\* Creature::startAutoWalk.
AutoWalk(u, n, what) ==
  EventWalkAdded([u EXCEPT !.steps = n, !.stranded = FALSE], n = 1, what)

\* Game::checkCreatureWalk.
WalkChecked(u, what) ==
  LET v == Walked(u, what) IN
  IF v.slot["step"] = 0 THEN v
  ELSE EventWalkAdded([v EXCEPT !.slot["step"] = 0], FALSE, what)

\* (Mutant: the walk is not taken up again.)
SpeedRegained_Only(u) == [u EXCEPT !.moves = TRUE]

\* Creature::setSpeed, to more than 0; a walk without steps left is not ended.
SpeedRegained(u) ==
  IF ~u.moves /\ u.steps > 0 THEN EventWalkAdded([u EXCEPT !.moves = TRUE], FALSE, "nothing")
  ELSE [u EXCEPT !.moves = TRUE, !.stranded = @ \/ (u.slot["step"] = 0 /\ u.walkTask # NoTask)]

-----------------------------------------------------------------------------
(* The handlers; out of reach, the way is posted to the dispatcher as a task *)
(* of its own (Game::playerAutoWalk), behind what is in its list.            *)

Posted(u, n) == [u EXCEPT !.queue = Append(@, [id |-> 0, do |-> "go", steps |-> n])]

\* playerUseItem, playerUseItemEx, playerUseWithCreature and their like.
Used(u, n, found) ==
  IF found = "far" THEN NextWalkAction(Posted(u, n), "use")
  ELSE IF found = "noway" THEN u
  ELSE IF found = "busy" THEN NextAction(u, "use") ELSE NextAction(u, NoTask)

\* The same with a rune or a potion.
Drunk(u, n, found) ==
  IF found = "far" THEN NextPotion(Posted(u, n), "potion")
  ELSE IF found = "noway" THEN u
  ELSE IF found = "busy" THEN NextPotion(u, "potion") ELSE NextPotion(u, NoTask)

\* Game::playerMoveItem.
Moved(u, n, found) ==
  LET v == NextAction(u, NoTask) IN
  IF found = "busy" THEN NextAction(u, "move")
  ELSE IF found = "far" THEN NextWalkAction(Posted(v, n), "move")
  ELSE IF found = "noway" THEN v ELSE PushCancelled(v)

\* Game::playerMoveCreature.
Pushed(u, n, found) ==
  LET v == NextAction(u, NoTask) IN
  IF found = "busy" THEN NextPush(u, "push")
  ELSE IF found = "far" THEN NextPush([Posted(v, n) EXCEPT !.inPush = TRUE], "push")
  ELSE IF found = "noway" THEN v ELSE [v EXCEPT !.inPush = FALSE]

\* Player::doAttacking, called again as long as there is somebody to attack.
Attacked(u, found) == IF found = "busy" THEN NextAction(u, "attack") ELSE u

Handled(u, do, n, found) ==
  IF do = "use" THEN Used(u, n, found)
  ELSE IF do = "potion" THEN Drunk(u, n, found)
  ELSE IF do = "move" THEN Moved(u, n, found)
  ELSE IF do = "push" THEN Pushed(u, n, found) ELSE Attacked(u, found)

Founds == {"far", "noway", "busy", "done"}

-----------------------------------------------------------------------------

Calm == Cardinality(y.timers) + Len(y.queue) < MaxPending

Command(do, n, found) == Calm /\ y' = Handled(y, do, n, found)

\* Game::playerMoveThing: a neighbour is pushed after a delay.
PushNeighbour == Calm /\ y' = NextPush(y, "push")

\* Game::playerMove, a step with the keys.
PlayerMove(what) == Calm /\ y' = AutoWalk(NextWalkAction(y, NoTask), 1, what)

\* Game::playerAutoWalk on the client's request, and playerStopAutoWalk.
PlayerAutoWalk(n, what) == Calm /\ y' = AutoWalk(y, n, what)
PlayerStopAutoWalk == y' = [y EXCEPT !.cancel = TRUE]

\* Creature::setFollowCreature, then Player::goToFollowCreature.
FollowsAnother == 
  /\ y.steps > 0
  /\ y' = NextWalkAction([y EXCEPT !.steps = 0], NoTask)
GoToFollowCreature(n, what) == Calm /\ y.walkTask = NoTask /\ y' = AutoWalk(y, n, what)

ChangeSpeed ==
  \/ y.moves /\ y' = Paralysed(y)
  \/ ~y.moves /\ Calm /\ y' = SpeedRegained(y)
Teleport == y' = Teleported(y)

\* The scheduler hands an expired timer to the dispatcher, which puts it in front.
Expire(t) ==
  /\ t \in y.timers /\ Len(y.queue) < MaxQueue
  /\ y' = [y EXCEPT !.timers = @ \ {t}, !.queue = <<t>> \o @]

RunNext(n, what, found) ==
  /\ y.queue # << >>
  /\ LET t == Head(y.queue)
         u == [y EXCEPT !.queue = Tail(@)]
     IN y' = IF t.do = "step" THEN WalkChecked(u, what)
             ELSE IF t.do = "go" THEN AutoWalk(u, t.steps, what)
             ELSE Handled(u, t.do, n, found)

WalkingNext ==
  \/ \E n \in 1..MaxSteps, do \in Commands, found \in Founds : Command(do, n, found)
  \/ PushNeighbour \/ PlayerStopAutoWalk \/ FollowsAnother \/ ChangeSpeed \/ Teleport
  \/ \E n \in 1..MaxSteps, what \in Happens :
       PlayerMove(what) \/ PlayerAutoWalk(n, what) \/ GoToFollowCreature(n, what)
  \/ \E t \in y.timers : Expire(t)
  \/ \E n \in 1..MaxSteps, what \in Happens, found \in Founds : RunNext(n, what, found)

WalkingSpec == WalkingInit /\ [][WalkingNext]_y

-----------------------------------------------------------------------------
(* Properties *)

\* What was put off can still be called off: every timer of an action is in
\* the slot of its kind, so there is one of a kind, and the next command of
\* that kind finds it; and what waits for the end of the walk waits alone.
CanBeCalledOff ==
  /\ \A t \in y.timers : t.do # "step" => \E s \in Slots \ {"step"} : y.slot[s] = t.id
  /\ y.walkTask # NoTask => ~ \E t \in y.timers : t.id = y.slot["walk"]

\* One who has steps to go, or something to do when he is there, is on his
\* way: his next step is timed, or the dispatcher has the way he is to go,
\* unless he is paralysed, or was stopped by a teleport or at the last step.
WalksOn ==
  y.moves /\ ~y.stranded /\ (y.steps > 0 \/ y.walkTask # NoTask)
    => \/ y.slot["step"] # 0 /\ Exists(y, y.slot["step"])
       \/ \E j \in DOMAIN y.queue : y.queue[j].do = "go"
=============================================================================
