------------------------------ MODULE Creatures ------------------------------
(***************************************************************************)
(* The creatures of the world (creature.cpp, monster.cpp, game.cpp): who   *)
(* is checked, who hunts whom, whose summon is whose, and when a Creature  *)
(* object is freed.                                                        *)
(*                                                                         *)
(* Everything runs on the dispatcher thread, yet no step is alone: a round *)
(* of Game::checkCreatures goes through one of the ten check lists while   *)
(* what a creature thinks of adds creatures to that list, removes          *)
(* creatures from the world, kills them, and even runs Game::cleanup,      *)
(* which frees them (addEventWalk takes the first step of a walk at once,  *)
(* and checkCreatureWalk ends with cleanup).  Objects are counted: a       *)
(* creature in the world, in a check list, in a target or friend list, and *)
(* one that has a master, each has a reference for it.                     *)
(*                                                                         *)
(* The operations call each other, so each is a function of the state w of *)
(* all creatures.  A place stands for all positions that see each other:   *)
(* canSee and getSpectators are being in the same place.  Left out: the    *)
(* conditions and Lua calls that keep a monster awake, pets, partners in a *)
(* party, protection zones and NPCs.                                       *)
(***************************************************************************)
EXTENDS Integers, Sequences, FiniteSets, FiniteSetsExt, SequencesExt

CONSTANTS Humans, Monsters, Places,
  Home,          \* where a creature appears: its spawn, or a player's temple
  Summonable,    \* the monsters of a kind that can be summoned
  NLists,        \* EVENT_CREATURECOUNT
  Nobody

ASSUME CreaturesAssumption == 
  /\ Humans \intersect Monsters = {} /\ Nobody \notin Humans \union Monsters
  /\ Summonable \subseteq Monsters /\ Home \in [Humans \union Monsters -> Places]

VARIABLES
  w,       \* the creatures: one function per member variable
  round,   \* Game::checkCreatures: the running round's list, its iterator, who
           \* has his turn, and the list of the next round
  dice     \* the list uniform_random chooses next

creatureVars == <<w, round, dice>>

Beings == Humans \union Monsters
Lists == 1..NLists
Rest(next) == [list |-> 0, it |-> 0, turn |-> Nobody, next |-> next]

CreaturesInit ==
  /\ w = [life |-> [c \in Beings |-> "unborn"], dead |-> [c \in Beings |-> FALSE],
          place |-> [c \in Beings |-> Nobody], refs |-> [c \in Beings |-> 0],
          master |-> [c \in Beings |-> Nobody], summons |-> [c \in Beings |-> {}],
          attacked |-> [c \in Beings |-> Nobody], follow |-> [c \in Beings |-> Nobody],
          targets |-> [c \in Beings |-> {}], friends |-> [c \in Beings |-> {}],
          check |-> [c \in Beings |-> FALSE], listed |-> [c \in Beings |-> FALSE],
          released |-> [c \in Beings |-> 0], lists |-> [l \in Lists |-> << >>]]
  /\ round = Rest(1)
  /\ dice \in Lists

In(u, c) == u.life[c] = "in"
Spectators(u, pl) == {c \in Beings : In(u, c) /\ u.place[c] = pl}
Sees(u, c, d) == u.place[c] = u.place[d]
IsSummon(u, c) == u.master[c] # Nobody

-----------------------------------------------------------------------------
(* Counting references *)

Held(u, c) == [u EXCEPT !.refs[c] = @ + 1]

\* Player::setAttackedCreature calls the chase off with the attack.
CalledOff(u, c) == IF c \in Humans THEN [u EXCEPT !.follow[c] = Nobody] ELSE u

\* Creature::setAttackedCreature: what a master attacks its summons attack.
RECURSIVE Attacks(_, _, _)
Attacks(u, c, d) ==
  IF d # Nobody /\ ~Sees(u, c, d) THEN [u EXCEPT !.attacked[c] = Nobody]
  ELSE LET mine == [u EXCEPT !.attacked[c] = d] IN
       FoldSet(LAMBDA s, v : Attacks(v, s, d),
               IF d = Nobody THEN CalledOff(mine, c) ELSE mine, u.summons[c])

\* decrementReferenceCounter and the destructors
RECURSIVE CounterLowered(_, _)
CounterLowered(u, c) ==
  LET v == [u EXCEPT !.refs[c] = @ - 1]
      Orphan(s, x) == CounterLowered([Attacks(x, s, Nobody) EXCEPT !.master[s] = Nobody], s)
      Forget(d, x) == CounterLowered(x, d)
      gone == [v EXCEPT !.life[c] = "freed", !.summons[c] = {},
                        !.targets[c] = {}, !.friends[c] = {}]
  IN IF v.refs[c] > 0 THEN v
     ELSE FoldSet(Forget, FoldSet(Forget, FoldSet(Orphan, gone, v.summons[c]),
                                  v.targets[c]), v.friends[c])

AddTarget(u, m, c) ==
  IF c \in u.targets[m] THEN u ELSE Held([u EXCEPT !.targets[m] = @ \union {c}], c)
RemoveTarget(u, m, c) ==
  IF c \notin u.targets[m] THEN u ELSE CounterLowered([u EXCEPT !.targets[m] = @ \ {c}], c)
AddFriend(u, m, c) ==
  IF c \in u.friends[m] THEN u ELSE Held([u EXCEPT !.friends[m] = @ \union {c}], c)
RemoveFriend(u, m, c) ==
  IF c \notin u.friends[m] THEN u ELSE CounterLowered([u EXCEPT !.friends[m] = @ \ {c}], c)

RemoveTargets(u, m, gone) == FoldSet(LAMBDA c, v : RemoveTarget(v, m, c), u, gone)
RemoveFriends(u, m, gone) == FoldSet(LAMBDA c, v : RemoveFriend(v, m, c), u, gone)

-----------------------------------------------------------------------------
(* Checks and idleness *)

AddCreatureCheck(u, c) ==
  LET v == [u EXCEPT !.check[c] = TRUE] IN
  IF u.listed[c] THEN v
  ELSE Held([v EXCEPT !.listed[c] = TRUE, !.lists[dice] = Append(@, c)], c)

RemoveCreatureCheck(u, c) == IF u.listed[c] THEN [u EXCEPT !.check[c] = FALSE] ELSE u

SetIdle(u, m, idle) ==
  IF u.life[m] \in {"removed", "freed"} \/ u.dead[m] THEN u
  ELSE IF ~idle THEN AddCreatureCheck(u, m)
  ELSE RemoveCreatureCheck(RemoveFriends(RemoveTargets(u, m, u.targets[m]), m, u.friends[m]), m)

UpdateIdleStatus(u, m) == SetIdle(u, m, ~IsSummon(u, m) /\ u.targets[m] = {})

\* Creature::changeHealth with all the health there is; Monster's wakes it first
HealthLost(u, c) ==
  [(IF c \in Monsters THEN SetIdle(u, c, FALSE) ELSE u) EXCEPT !.dead[c] = TRUE]

-----------------------------------------------------------------------------
(* Friends and opponents of a monster *)

ServesPlayer(u, m) == u.master[m] \in Humans

IsFriend(u, m, c) ==
  IF ServesPlayer(u, m) THEN u.master[m] \in {c, u.master[c]}
  ELSE c \in Monsters /\ ~IsSummon(u, c)

IsOpponent(u, m, c) ==
  IF ServesPlayer(u, m) THEN c # u.master[m]
  ELSE c \in Humans \/ ServesPlayer(u, c)

OnCreatureFound(u, m, c) ==
  LET v == IF IsFriend(u, m, c) THEN AddFriend(u, m, c) ELSE u
  IN UpdateIdleStatus(IF IsOpponent(v, m, c) THEN AddTarget(v, m, c) ELSE v, m)

IdleIfAlone(u, m) == IF u.targets[m] = {} THEN UpdateIdleStatus(u, m) ELSE u
OpponentLeaves(u, m, c) ==
  IF IsOpponent(u, m, c) THEN IdleIfAlone(RemoveTarget(u, m, c), m) ELSE u
OnCreatureLeave(u, m, c) ==
  OpponentLeaves(IF IsFriend(u, m, c) THEN RemoveFriend(u, m, c) ELSE u, m, c)

\* only those are forgotten who are gone
UpdateTargetList_Shrink(u, m) ==
  LET Lost(S) == {c \in S : u.dead[c] \/ ~Sees(u, m, c)}
  IN RemoveTargets(RemoveFriends(u, m, Lost(u.friends[m])), m, Lost(u.targets[m]))

\* Monster::updateTargetList
UpdateTargetList(u, m) ==
  LET Lost(S) == {c \in S : u.dead[c] \/ ~Sees(u, m, c)}
      kept == RemoveTargets(RemoveFriends(u, m, Lost(u.friends[m])), m, Lost(u.targets[m]))
  IN FoldSet(LAMBDA c, v : OnCreatureFound(v, m, c), kept, Spectators(u, u.place[m]) \ {m})

FollowSet(u, c, d) == [u EXCEPT !.follow[c] = IF d # Nobody /\ Sees(u, c, d) THEN d ELSE Nobody]

SelectTarget(u, m, c) ==
  IF c \in u.targets[m] /\ In(u, c) /\ ~u.dead[c]
    THEN FollowSet(Attacks(u, m, c), m, c) ELSE u

-----------------------------------------------------------------------------
(* Masters and summons *)

\* Creature::setMaster
SetMaster(u, c, m) ==
  LET old == u.master[c]
      v == IF m = Nobody THEN u ELSE Held([u EXCEPT !.summons[m] = @ \union {c}], c)
      x == [v EXCEPT !.master[c] = m]
  IN IF old = Nobody \/ old = m \/ c \notin u.summons[old] THEN x
     ELSE CounterLowered([x EXCEPT !.summons[old] = @ \ {c}], c)

-----------------------------------------------------------------------------
(* Appearing, disappearing and moving, as every spectator hears of it *)

Unfollowed(u, x, c) == IF u.follow[x] = c THEN FollowSet(u, x, Nobody) ELSE u
OnCreatureDisappear(u, x, c) ==
  Unfollowed(IF u.attacked[x] = c THEN Attacks(u, x, Nobody) ELSE u, x, c)

OnCreatureAppear(u, x, c) ==
  CASE x \in Humans -> u
    [] x \in Monsters /\ x = c -> UpdateIdleStatus(UpdateTargetList(u, c), c)
    [] x \in Monsters /\ x # c -> OnCreatureFound(u, x, c)

\* Game::placeCreature
PlaceCreature(u, c, pl, m) ==
  LET put  == Held([u EXCEPT !.life[c] = "in", !.place[c] = pl], c)
      mine == IF m = Nobody THEN put ELSE SetMaster(put, c, m)
      seen == FoldSet(LAMBDA x, v : OnCreatureAppear(v, x, c), mine, Spectators(put, pl))
  IN AddCreatureCheck(seen, c)

\* Creature::onRemoveCreature and Monster's
SetFree(u, c) ==
  IF IsSummon(u, c) /\ In(u, u.master[c]) THEN SetMaster(u, c, Nobody) ELSE u
OnRemoveCreature(u, x, c) ==
  IF x \in Humans THEN OnCreatureDisappear(u, x, c)
  ELSE IF x # c THEN OnCreatureLeave(OnCreatureDisappear(u, x, c), x, c)
  ELSE SetIdle(SetFree(OnCreatureDisappear(u, c, c), c), c, TRUE)

\* the summons stay
RemoveCreature_Alone(u, c) ==
  LET told == FoldSet(LAMBDA x, v : OnRemoveCreature(v, x, c), u, Spectators(u, u.place[c]))
  IN IF ~In(u, c) THEN u
     ELSE RemoveCreatureCheck([told EXCEPT !.life[c] = "removed", !.released[c] = @ + 1], c)

\* Game::removeCreature, and after it the summons
RECURSIVE RemoveCreature(_, _)
RemoveSummons(u, c) == FoldSet(LAMBDA s, v : RemoveCreature(v, s), u, u.summons[c])
RemoveCreature(u, c) ==
  LET told == FoldSet(LAMBDA x, v : OnRemoveCreature(v, x, c), u, Spectators(u, u.place[c]))
      gone == RemoveCreatureCheck([told EXCEPT !.life[c] = "removed", !.released[c] = @ + 1], c)
  IN IF ~In(u, c) THEN u ELSE RemoveSummons(gone, c)

\* the part of Monster::onCreatureMove that looks at another creature
Pursues(u, x, c) ==
  IF ~IsSummon(u, x) /\ u.follow[x] = Nobody /\ IsOpponent(u, x, c)
    THEN SelectTarget(u, x, c) ELSE u
FindsCreature(u, x, c, from) ==
  LET enters == u.place[c] = u.place[x] /\ from # u.place[x]
      leaves == u.place[c] # u.place[x] /\ from = u.place[x]
  IN Pursues(UpdateIdleStatus(IF enters THEN OnCreatureFound(u, x, c)
                              ELSE IF leaves THEN OnCreatureLeave(u, x, c) ELSE u, x), x, c)

\* Monster::onCreatureMove: x saw that c moved
SawMove(u, x, c, from) ==
  IF x \in Humans THEN u
  ELSE IF x # c THEN FindsCreature(u, x, c, from)
  ELSE UpdateIdleStatus(UpdateTargetList(u, c), c)

\* Creature::onCreatureMove: c came from "from"; "left" are the summons of c that
\* are too far away now.
SightLost(u, x, c, d) ==
  IF d # Nobody /\ (d = c \/ x = c) /\ ~Sees(u, x, d) THEN OnCreatureDisappear(u, x, d) ELSE u
FollowedLost(u, x, c) == SightLost(u, x, c, u.follow[x])
AttackedLost(u, x, c) == SightLost(u, x, c, u.attacked[x])
LeftBehind(u, x, c, left) ==
  IF x = c THEN FoldSet(LAMBDA s, v : RemoveCreature(v, s), u, left) ELSE u
OnCreatureMove(u, x, c, from, left) ==
  SawMove(AttackedLost(FollowedLost(LeftBehind(u, x, c, left), x, c), x, c), x, c, from)

\* Map::moveCreature
MoveCreature(u, c, pl, left) ==
  LET from == u.place[c]
      put  == [u EXCEPT !.place[c] = pl]
  IN FoldSet(LAMBDA x, v : OnCreatureMove(v, x, c, from, left), put,
             Spectators(u, from) \union Spectators(u, pl))

\* Monster::death: its summons die with it, at their next check.
ListsCleared(u, m) == RemoveFriends(RemoveTargets(u, m, u.targets[m]), m, u.friends[m])
MonsterDeath(u, m) ==
  LET Kill(s, v) == CounterLowered([HealthLost(v, s) EXCEPT !.master[s] = Nobody], s)
      killed == FoldSet(Kill, Attacks(u, m, Nobody), u.summons[m])
  IN ListsCleared([killed EXCEPT !.summons[m] = {}], m)

\* Creature::onDeath
DeadRemoved(u, c) == RemoveCreature(IF IsSummon(u, c) THEN SetMaster(u, c, Nobody) ELSE u, c)
OnDeath(u, c) == DeadRemoved(IF c \in Monsters THEN MonsterDeath(u, c) ELSE u, c)

\* Player::death where players fight players: healed and sent home
Respawned(u, p) ==
  LET v == [u EXCEPT !.dead[p] = FALSE] IN
  IF Home[p] = u.place[p] THEN v
  ELSE MoveCreature(v, p, Home[p], {s \in u.summons[p] : u.place[s] # Home[p]})

-----------------------------------------------------------------------------
(* Handlers and what a creature may do in its turn.  Each may happen between *)
(* two tasks of the dispatcher and in the middle of a round.                 *)

BetweenRounds == round.turn = Nobody /\ round.list = 0
Acting(c) == (BetweenRounds /\ c \in Humans) \/ round.turn = c
Alive(c) == In(w, c) /\ ~w.dead[c]

\* A login, a spawn or a script puts a creature into the world; a player's
\* spell puts his summon there.
Appear(c) ==
  /\ BetweenRounds /\ w.life[c] = "unborn"
  /\ w' = PlaceCreature(w, c, Home[c], Nobody)
  /\ UNCHANGED round

Conjure(p, s) ==
  /\ Acting(p) /\ Alive(p) /\ w.life[s] = "unborn"
  /\ w' = PlaceCreature(w, s, w.place[p], p)
  /\ UNCHANGED round

\* Monster::onThinkDefense: placed first, given its master afterwards
Summon(m, s) ==
  /\ round.turn = m /\ Alive(m) /\ ~IsSummon(w, m) /\ w.follow[m] # Nobody
  /\ w.life[s] = "unborn"
  /\ w' = SetMaster(PlaceCreature(w, s, w.place[m], Nobody), s, m)
  /\ UNCHANGED round

Move(c, pl, left) ==
  /\ Acting(c) /\ Alive(c) /\ w.place[c] # pl
  /\ left \subseteq {s \in w.summons[c] : w.place[s] # pl}
  /\ w' = MoveCreature(w, c, pl, left)
  /\ UNCHANGED round

\* Game::combatChangeHealth, to the last point of health
Strike(d) ==
  /\ BetweenRounds \/ round.turn # Nobody
  /\ Alive(d)
  /\ w' = HealthLost(w, d)
  /\ UNCHANGED round

\* Player::setAttackedCreature, in chase mode
Attack(p, d) ==
  /\ BetweenRounds /\ In(w, p) /\ In(w, d) /\ d # p
  /\ LET v == Attacks(w, p, d) IN
     w' = IF ~Sees(w, p, d) THEN v
          ELSE FollowSet(v, p, d)
  /\ UNCHANGED round

\* Game::playerFollowCreature
Follow(p, d) ==
  /\ BetweenRounds /\ In(w, p) /\ In(w, d) /\ d # p
  /\ w' = FollowSet(Attacks(w, p, Nobody), p, d)
  /\ UNCHANGED round

\* A logout, a despawn, a monster that finds it may not be here.
Leave(c) ==
  /\ Acting(c) /\ In(w, c)
  /\ w' = RemoveCreature(w, c)
  /\ UNCHANGED round

-----------------------------------------------------------------------------
(* The turn of a monster *)

\* Monster::onThink: a summon looks to its master, others choose from the list.
Think(m) ==
  /\ round.turn = m /\ Alive(m)
  /\ LET u == UpdateIdleStatus(w, m)
         order == u.attacked[u.master[m]]
     IN \/ ~u.check[m] /\ w' = u
        \/ /\ u.check[m] /\ IsSummon(u, m) /\ u.attacked[m] = Nobody
           /\ w' = IF order # Nobody THEN SelectTarget(u, m, order)
                   ELSE FollowSet(u, m, u.master[m])
        \/ /\ u.check[m] /\ IsSummon(u, m) /\ u.attacked[m] \notin {Nobody, u.follow[m]}
           /\ w' = FollowSet(u, m, u.attacked[m])
        \/ /\ u.check[m] /\ ~IsSummon(u, m)
           /\ \E c \in u.targets[m] : w' = SelectTarget(u, m, c)
  /\ UNCHANGED round

\* Monster::onFollowCreatureComplete: a summon gives up whom it cannot reach.
StopFighting(m) ==
  /\ Acting(m) /\ Alive(m) /\ IsSummon(w, m) /\ w.follow[m] \in w.targets[m]
  /\ w' = RemoveTarget(w, m, w.follow[m])
  /\ UNCHANGED round

-----------------------------------------------------------------------------
(* Rounds and cleanup *)

\* Game::cleanup
ListSwept(u) ==
  LET Release(c, v) ==
        CounterLowered([v EXCEPT !.released[c] = 0, !.refs[c] = @ - (u.released[c] - 1)], c)
  IN FoldSet(Release, u, {c \in Beings : u.released[c] > 0})

\* checkDecay, checkLight and the walk of a creature end with it.
ReleaseCreatures ==
  /\ BetweenRounds /\ \E c \in Beings : w.released[c] > 0
  /\ w' = ListSwept(w)
  /\ UNCHANGED round

\* Game::checkCreatureWalk, called by addEventWalk for the first step
FirstStep ==
  /\ round.turn # Nobody /\ Alive(round.turn)
  /\ \E c \in Beings : w.released[c] > 0
  /\ w' = ListSwept(w)
  /\ UNCHANGED round

StartRound ==
  /\ BetweenRounds
  /\ round' = [list |-> round.next, it |-> 1, turn |-> Nobody, next |-> (round.next % NLists) + 1]
  /\ UNCHANGED w

Checked == w.lists[round.list][round.it]
Checking == round.list # 0 /\ round.turn = Nobody /\ round.it <= Len(w.lists[round.list])

BeginTurn ==
  /\ Checking /\ w.check[Checked] /\ ~w.dead[Checked]
  /\ round' = [round EXCEPT !.turn = Checked]
  /\ UNCHANGED w

EndTurn ==
  /\ round.turn # Nobody
  /\ round' = [round EXCEPT !.turn = Nobody, !.it = @ + 1]
  /\ UNCHANGED w

CheckDead ==
  /\ Checking /\ w.check[Checked] /\ w.dead[Checked]
  /\ \/ w' = OnDeath(w, Checked)
     \/ Checked \in Humans /\ w' = Respawned(w, Checked)
  /\ round' = [round EXCEPT !.it = @ + 1]

DropUnchecked ==
  /\ Checking /\ ~w.check[Checked]
  /\ w' = [w EXCEPT !.listed[Checked] = FALSE, !.released[Checked] = @ + 1,
                    !.lists[round.list] = RemoveAt(@, round.it)]
  /\ UNCHANGED round

EndRound ==
  /\ round.list # 0 /\ round.turn = Nobody /\ ~Checking
  /\ w' = ListSwept(w)
  /\ round' = Rest(round.next)

CheckCreatures == BeginTurn \/ EndTurn \/ CheckDead \/ DropUnchecked \/ EndRound

CreaturesNext ==
  /\ dice' \in Lists
  /\ \/ \E c \in Beings : Appear(c) \/ Strike(c) \/ Leave(c)
     \/ \E c \in Beings, pl \in Places, left \in SUBSET Summonable : Move(c, pl, left)
     \/ \E s \in Summonable : (\E p \in Humans : Conjure(p, s)) \/ (\E m \in Monsters : Summon(m, s))
     \/ \E p \in Humans, d \in Beings : Follow(p, d) \/ Attack(p, d)
     \/ \E m \in Monsters : Think(m) \/ StopFighting(m)
     \/ ReleaseCreatures \/ FirstStep
     \/ StartRound \/ CheckCreatures

-----------------------------------------------------------------------------
(* Properties *)

Owners(c) ==
  (IF In(w, c) THEN 1 ELSE 0) + w.released[c] + (IF IsSummon(w, c) THEN 1 ELSE 0)
  + Cardinality(UNION {{<<l, k>> : k \in {j \in DOMAIN w.lists[l] : w.lists[l][j] = c}} : l \in Lists})
  + Cardinality({m \in Monsters : c \in w.targets[m]})
  + Cardinality({m \in Monsters : c \in w.friends[m]})

\* Masters and summons agree; a summon leaves the world no later than its master.
SummonsAgree ==
  \A c, m \in Beings :
    w.life[c] # "freed" /\ w.life[m] # "freed" =>
      /\ c \in w.summons[m] <=> w.master[c] = m
      /\ c \in w.summons[m] /\ In(w, c) => In(w, m)

\* A creature's counter is the number of those who hold it, each check list
\* holding it at most once, so that it is freed exactly when nobody does;
\* nobody who may still act points to a creature that was freed; and masters and
\* summons, who point to each other, agree.
NobodyDangles ==
  LET gone == {c \in Beings : w.life[c] = "freed"} IN
  /\ SummonsAgree
  /\ \A c \in {x \in Beings : w.life[x] # "unborn"} :
       /\ w.refs[c] = Owners(c)
       /\ w.life[c] = "freed" => w.refs[c] = 0
       /\ w.listed[c] <=> \E l \in Lists : Contains(w.lists[l], c)
       /\ \A l \in Lists : IsInjective(w.lists[l])
  /\ \A c \in {x \in Beings : In(w, x)} \union ({round.turn} \ {Nobody}) :
       {w.attacked[c], w.follow[c], w.master[c]} \intersect gone = {}

\* A monster without a master knows everyone it should fight where it is, and is
\* checked: it never sleeps beside a player.  Whoever has no health left is
\* checked too, so that a round takes him out of the world.
NeverAsleepBeside ==
  /\ \A m \in Monsters, c \in Beings :
       /\ Alive(m) /\ ~IsSummon(w, m) /\ c # m
       /\ Alive(c) /\ Sees(w, m, c) /\ IsOpponent(w, m, c)
       => c \in w.targets[m] /\ w.check[m] /\ w.listed[m]
  /\ \A c \in Beings : In(w, c) /\ w.dead[c] => w.check[c] /\ w.listed[c]
=============================================================================
