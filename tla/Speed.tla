-------------------------------- MODULE Speed --------------------------------
(***************************************************************************)
(* How fast a player is (Game::changeSpeed and all that call it): haste    *)
(* and paralysis, mounts, and what he wears.                               *)
(*                                                                         *)
(* A Player has one number, varSpeed, and everybody adds to it what he     *)
(* takes off again later: conditions when they start, change and end, a    *)
(* mount when it is mounted, exchanged and left, an item when it is put    *)
(* on, taken off and turned into another while it is worn, which puts on   *)
(* and takes off in the middle of itself.  What keeps it right is that     *)
(* whoever takes off knows what was added.                                 *)
(*                                                                         *)
(* Left out: imbuements, conditions without an end or of several ids,      *)
(* kinds of items that are replaced by a new item when they change, and    *)
(* members of the staff, who may ride where others may not.                *)
(***************************************************************************)
EXTENDS Integers, Sequences, FiniteSets, FiniteSetsExt, SequencesExt

CONSTANTS
  Hastes, Paralyses,    \* how much faster, or slower, conditions make
  Mounts, MountSpeed,
  Clothes,              \* the kinds of a thing to wear
  Bonus,                \* abilities->speed of a kind
  EquipTo, DeEquipTo,   \* what a kind is turned into when put on, taken off
  WornTo,               \* bound: what decay and scripts turn a worn kind into
  MaxDelayed,           \* bound: conditions whose start, or end, is put off
  Nil                   \* no mount, nothing worn, no kind

ASSUME SpeedAssumption ==
  /\ Hastes \subseteq Nat /\ Paralyses \subseteq Nat /\ MaxDelayed \in Nat
  /\ Nil \notin Mounts \union Clothes /\ MountSpeed \in [Mounts -> Nat]
  /\ Bonus \in [Clothes -> Int] /\ WornTo \in [Clothes -> SUBSET Clothes]
  /\ {EquipTo, DeEquipTo} \subseteq [Clothes -> Clothes \union {Nil}]
  /\ \A k \in Clothes : EquipTo[k] # Nil => EquipTo[EquipTo[k]] = Nil /\ Bonus[k] = 0

VARIABLES
  runner   \* the player: in (the world), pz (in a protection zone), speed (varSpeed),
           \* conds (type, delta, and whether its time is over), adds and removals
           \* (those put off), mounted (lookMount), mount (getCurrentMount), was
           \* (wasMounted), worn, able (isItemAbilityEnabled), and the history astray:
           \* in this session the number went wrong.

Conditions ==
  [type : {"haste"}, delta : Hastes] \union [type : {"paralyze"}, delta : {-p : p \in Paralyses}]
  \union [type : {"outfit"}, delta : {0}]
AsNew(c) == [type |-> c.type, delta |-> c.delta, over |-> FALSE]

SpeedInit ==
  runner = [in |-> FALSE, pz |-> FALSE, speed |-> 0, conds |-> {}, adds |-> << >>,
            removals |-> 0, mounted |-> FALSE, mount |-> Nil, was |-> FALSE,
            worn |-> Nil, able |-> FALSE, astray |-> FALSE]

Faster(u, delta) == [u EXCEPT !.speed = @ + delta]

-----------------------------------------------------------------------------
(* Mounts *)

SpeedOf(m) == IF m = Nil THEN 0 ELSE MountSpeed[m]

\* Player::dismount
Dismounted(u) == Faster([u EXCEPT !.mounted = FALSE], -SpeedOf(u.mount))

-----------------------------------------------------------------------------
(* Conditions *)

\* Creature::hasCondition: not one whose time is over.
HasCondition(u, type) == \E c \in u.conds : c.type = type /\ ~c.over

ConditionOver(u, c) == Faster([u EXCEPT !.conds = @ \ {c}], -c.delta)

\* Creature::removeCondition: the end of a paralysis waits for the current step.
ConditionRemoved(u, type, forced, walking) ==
  LET those == {c \in u.conds : c.type = type} IN
  IF those # {} /\ type = "paralyze" /\ ~forced /\ walking
  THEN [u EXCEPT !.removals = @ + 1]
  ELSE FoldSet(LAMBDA c, v : ConditionOver(v, c), u, those)

\* Player::onAddCondition
OnConditionAdded(u, type, walking) ==
  IF type = "paralyze" /\ HasCondition(u, "haste") THEN ConditionRemoved(u, "haste", FALSE, walking)
  ELSE IF type = "haste" /\ HasCondition(u, "paralyze") THEN ConditionRemoved(u, "paralyze", FALSE, walking)
  ELSE IF type = "outfit" /\ u.mounted THEN Dismounted(u)
  ELSE u

\* (Mutant: the speed it gave before is not taken off.)
ConditionRefreshed_Adds(u, old, c) ==
  Faster([u EXCEPT !.conds = (@ \ {old}) \union {AsNew(c)}], c.delta)

\* ConditionSpeed::addCondition; ConditionOutfit's has no speed.
ConditionRefreshed(u, old, c) ==
  Faster([u EXCEPT !.conds = (@ \ {old}) \union {AsNew(c)}], c.delta - old.delta)

\* Creature::addCondition
ConditionAdded(u, c, forced, walking) ==
  IF ~forced /\ c.type = "haste" /\ HasCondition(u, "paralyze") /\ walking
  THEN [u EXCEPT !.adds = Append(@, c)]
  ELSE IF \E old \in u.conds : old.type = c.type
  THEN ConditionRefreshed(u, CHOOSE old \in u.conds : old.type = c.type, c)
  ELSE OnConditionAdded(Faster([u EXCEPT !.conds = @ \union {AsNew(c)}], c.delta), c.type, walking)

-----------------------------------------------------------------------------
(* What is worn *)

\* MoveEvent::EquipItem.  A kind that is turned into another when put on is put on as
\* that one by Game::transformItem, in the middle of it: nothing is to be taken off
\* yet, and what it has become is not turned into a third.
PutOn(u) == Faster([u EXCEPT !.able = TRUE], Bonus[u.worn])
Equipped(u) ==
  LET to == EquipTo[u.worn] IN
  IF u.able THEN u
  ELSE IF to = Nil THEN PutOn(u)
  ELSE Faster(PutOn([u EXCEPT !.worn = to]), Bonus[u.worn])

\* MoveEvent::DeEquipItem, which turns the item into another if it is still there.
\* Game::transformItem puts that one on again, in the middle of it.
DeEquipped(u, to) ==
  LET bare == [u EXCEPT !.able = FALSE] IN
  IF ~u.able THEN u
  ELSE Faster(IF to \in {Nil, u.worn} THEN bare ELSE Equipped([bare EXCEPT !.worn = to]), -Bonus[u.worn])

\* Game::transformItem of what is worn: taken off as the old kind, put on as the new.
WornTransformed(u, to) ==
  IF u.worn = to THEN u
  ELSE Equipped([DeEquipped(u, DeEquipTo[u.worn]) EXCEPT !.worn = to])

-----------------------------------------------------------------------------

Playing == runner.in
FewDelayed == Len(runner'.adds) <= MaxDelayed /\ runner'.removals <= MaxDelayed

\* Combat, spells, fields and scripts; walking: getWalkDelay() > 0.
AddCondition(c, walking) ==
  /\ Playing /\ runner' = ConditionAdded(runner, c, FALSE, walking) /\ FewDelayed
RemoveCondition(type, walking) ==
  /\ Playing /\ runner' = ConditionRemoved(runner, type, FALSE, walking) /\ FewDelayed

\* Game::forceAddCondition, Game::forceRemoveCondition: a player has his id again
\* when he comes back.
ForceAddCondition(i, walking) ==
  /\ i \in DOMAIN runner.adds
  /\ LET u == [runner EXCEPT !.adds = RemoveAt(@, i)]
     IN runner' = IF Playing THEN ConditionAdded(u, runner.adds[i], TRUE, walking) ELSE u
  /\ FewDelayed
ForceRemoveCondition ==
  /\ runner.removals > 0
  /\ LET u == [runner EXCEPT !.removals = @ - 1]
     IN runner' = IF Playing THEN ConditionRemoved(u, "paralyze", TRUE, FALSE) ELSE u

\* Time passes; the next round of executeConditions finds out.
RunsOut(c) ==
  /\ Playing /\ ~c.over
  /\ runner' = [runner EXCEPT !.conds = (@ \ {c}) \union {[c EXCEPT !.over = TRUE]}]
ExecuteConditions ==
  /\ Playing /\ \E c \in runner.conds : c.over
  /\ runner' = FoldSet(LAMBDA c, u : ConditionOver(u, c), runner, {c \in runner.conds : c.over})

\* Player::toggleMount; allowed: not too soon, premium, an outfit that is known;
\* owned: hasMount.
MountUp(u, allowed, owned) ==
  IF u.mounted \/ u.pz \/ u.mount = Nil \/ ~allowed THEN u
  ELSE IF ~owned THEN [u EXCEPT !.mount = Nil]
  ELSE IF HasCondition(u, "outfit") THEN u
  ELSE Faster([u EXCEPT !.mounted = TRUE], SpeedOf(u.mount))
ToggleMount(allowed, owned) ==
  /\ Playing
  /\ runner' = IF runner.mounted THEN Dismounted(runner) ELSE MountUp(runner, allowed, owned)

\* Game::playerChangeOutfit, with a mount of his or without.
ChangeOutfit(m) ==
  /\ Playing
  /\ runner' =
       IF m = Nil THEN IF runner.mounted THEN Dismounted(runner) ELSE runner
       ELSE IF runner.mounted /\ runner.mount # Nil
       THEN Faster([runner EXCEPT !.mount = m], SpeedOf(m) - SpeedOf(runner.mount))
       ELSE [runner EXCEPT !.mount = m]

\* Player::untameMount of the current one
UntameMount ==
  /\ Playing /\ runner.mount # Nil
  /\ runner' = [IF runner.mounted THEN Dismounted(runner) ELSE runner EXCEPT !.mount = Nil]

\* Player::onChangeZone
ChangeZone(allowed, owned) ==
  /\ Playing
  /\ LET u == [runner EXCEPT !.pz = ~@] IN
     runner' = IF u.pz
               THEN IF u.mounted THEN [Dismounted(u) EXCEPT !.was = TRUE] ELSE u
               ELSE [IF u.was THEN MountUp(u, allowed, owned) ELSE u EXCEPT !.was = FALSE]

\* Player::postAddNotification, postRemoveNotification: moved in, moved out.
Wear(k) ==
  /\ Playing /\ runner.worn = Nil
  /\ runner' = Equipped([runner EXCEPT !.worn = k])
Undress ==
  /\ Playing /\ runner.worn # Nil
  /\ runner' = [DeEquipped(runner, Nil) EXCEPT !.worn = Nil]

\* Game::internalDecayItem, or a script.  A kind that is turned into another when
\* taken off is put on again in the middle of it.
TransformWorn(to) ==
  /\ Playing /\ runner.worn # Nil /\ to \in WornTo[runner.worn]
  /\ runner' = [WornTransformed(runner, to) EXCEPT
                  !.astray = @ \/ (runner.able /\ DeEquipTo[runner.worn] # Nil)]

\* Player::onCreatureAppear of himself.  A mount is saved and its speed is not.
ComeIn(pz, conds) ==
  /\ ~Playing
  /\ LET here == [runner EXCEPT !.in = TRUE, !.pz = pz, !.conds = {}, !.astray = @ \/ runner.mounted]
         clad == IF here.worn = Nil THEN here ELSE Equipped(here)
         able == FoldLeft(LAMBDA u, c : ConditionAdded(u, c, FALSE, FALSE), clad, conds)
     IN runner' = IF pz /\ able.mounted THEN Dismounted(able) ELSE able

\* Logging out saves the conditions; death ends them first.
GoOut(died) ==
  /\ Playing
  /\ runner' = [runner EXCEPT !.in = FALSE, !.pz = FALSE, !.speed = 0, !.able = FALSE,
                  !.was = FALSE, !.astray = FALSE, !.conds = IF died THEN {} ELSE @]

SpeedNext ==
  \/ \E c \in Conditions, walking \in BOOLEAN : AddCondition(c, walking)
  \/ \E c \in Conditions, walking \in BOOLEAN : RemoveCondition(c.type, walking)
  \/ \E i \in 1..MaxDelayed, walking \in BOOLEAN : ForceAddCondition(i, walking)
  \/ ForceRemoveCondition
  \/ \E c \in runner.conds : RunsOut(c)
  \/ ExecuteConditions
  \/ \E allowed, owned \in BOOLEAN : ToggleMount(allowed, owned) \/ ChangeZone(allowed, owned)
  \/ \E m \in Mounts \union {Nil} : ChangeOutfit(m)
  \/ UntameMount
  \/ \E k \in Clothes : Wear(k) \/ TransformWorn(k)
  \/ Undress
  \/ \E pz, died \in BOOLEAN : (\E order \in SetToSeqs(runner.conds) : ComeIn(pz, order)) \/ GoOut(died)

SpeedSpec == SpeedInit /\ [][SpeedNext]_runner

-----------------------------------------------------------------------------
(* Properties *)

\* The player's speed is what his conditions, his mount and what he wears add
\* up to, in whatever order they came, changed and went, so that nobody stays
\* slow, or fast, without a reason.  (Unless he came in mounted, or what he wore
\* was transformed from a kind that is turned into another when taken off.)
SpeedAddsUp ==
  Playing /\ ~runner.astray =>
    runner.speed = MapThenSumSet(LAMBDA c : c.delta, runner.conds)
                   + (IF runner.mounted THEN SpeedOf(runner.mount) ELSE 0)
                   + (IF runner.able THEN Bonus[runner.worn] ELSE 0)
=============================================================================
