------------------------------- MODULE Spawns -------------------------------
(***************************************************************************)
(* One spawn: the monsters of a place and the check that replaces them     *)
(* (spawn.cpp, and Monster::onRemoveCreature).                             *)
(*                                                                         *)
(* A spawn has blocks, each of which should have one monster.  A check is  *)
(* pending only while one is missing: a monster that is removed starts it, *)
(* or the check before it does, and each tells by the id of the event      *)
(* whether one is pending.  A monster that strayed gives up its block but  *)
(* is still counted; most kinds appear three effects after the check that  *)
(* called them, and until then a check finds their block empty; and a      *)
(* script may refuse a monster that was placed, or remove others, in the   *)
(* middle of a check.                                                      *)
(*                                                                         *)
(* Time passes in ticks of any length, and not while something is due.     *)
(* Left open: whether a block's time has come, the hour lets its kind      *)
(* appear, a player stands by, and there is room.                          *)
(***************************************************************************)
EXTENDS Integers, Sequences, FiniteSets, Functions

CONSTANTS
  NBlocks,      \* the spawn's blocks are 1..NBlocks
  Blockable,    \* those whose kind appears at once, but not beside a player
  CheckEvery,   \* Spawn::getInterval, in ticks
  Effects,      \* 3 * NONBLOCKABLE_SPAWN_INTERVAL, in ticks
  Rate          \* rateSpawn: so many blocks are tried in one check

Blocks == 1..NBlocks
Ids == 0..NBlocks   \* the keys of spawnedMap: 0 for a monster that strayed

\* The effects may be over before the next check, or last through several.
ASSUME SpawnAssumption ==
  /\ NBlocks \in Nat \ {0} /\ Blockable \subseteq Blocks
  /\ CheckEvery \in Nat \ {0} /\ Effects \in Nat \ {0} /\ Rate \in Nat \ {0}

VARIABLES
  spawn   \* event: checkSpawnEvent is not 0; checks: the ticks left of each check;
          \* near, away, removed: the monsters in spawnedMap, counted, by where they are;
          \* coming: [block, left] for each monster announced by effects;
          \* ever: there was a check; doubled: a check was added to one that was pending.

\* spawnedMap.size()
Size(u) == SumFunction([b \in Ids |-> u.near[b] + u.away[b] + u.removed[b]])

CheckAdded(u) == [u EXCEPT !.checks = Append(@, CheckEvery), !.event = TRUE, !.ever = TRUE]

\* Spawn::startSpawnCheck
StartSpawnCheck(u) == IF u.event THEN u ELSE CheckAdded(u)

\* Spawns::startup: some monsters find no room, and a script refuses some.
SpawnInit ==
  \E placed, refused \in SUBSET Blocks :
    /\ placed \intersect refused = {}
    /\ spawn = [event |-> refused # {}, ever |-> refused # {}, doubled |-> FALSE,
                checks |-> IF refused = {} THEN <<>> ELSE <<CheckEvery>>,
                near |-> [b \in Ids |-> IF b \in placed THEN 1 ELSE 0],
                away |-> [b \in Ids |-> 0], removed |-> [b \in Ids |-> 0], coming |-> <<>>]

-----------------------------------------------------------------------------
(* What the actions are made of *)

\* Monster::onRemoveCreature: of each of the ids a monster that is near is removed.
MonstersRemoved(u, ids) ==
  LET hit == {b \in ids : u.near[b] > 0} IN
  IF hit = {} THEN u
  ELSE StartSpawnCheck(
         [u EXCEPT !.near = [b \in Ids |-> IF b \in hit THEN u.near[b] - 1 ELSE u.near[b]],
                   !.removed = [b \in Ids |-> IF b \in hit THEN u.removed[b] + 1 ELSE u.removed[b]]])

\* Spawn::spawnMonster: a script that is asked may remove some of the others.
Outcomes == {"no room", "refused", "spawned"}
SpawnMonster(u, b, outcome, culled) ==
  LET asked == MonstersRemoved(u, culled) IN
  CASE outcome = "no room" -> u
    [] outcome = "refused" -> StartSpawnCheck(asked)
    [] outcome = "spawned" -> [asked EXCEPT !.near[b] = @ + 1]

\* Spawn::cleanup
Cleaned(u) ==
  [u EXCEPT !.removed = [b \in Ids |-> 0], !.away = [b \in Ids |-> 0],
            !.near[0] = @ + SumFunction(u.away)]

\* the body of checkSpawn's loop, for a block whose monster is missing, though it
\* may have been announced by an earlier check
Tried(u, b, outcome, culled) ==
  IF b \in Blockable THEN SpawnMonster(u, b, outcome, culled)
  ELSE [u EXCEPT !.coming = Append(@, [block |-> b, left |-> Effects])]

\* checkSpawn's loop over spawnMap, which has the blocks in their order
Looped(u, tried, outcome, culled) ==
  LET after[b \in 0..NBlocks] ==
        IF b = 0 THEN u
        ELSE IF b \in tried THEN Tried(after[b - 1], b, outcome, culled) ELSE after[b - 1]
  IN after[NBlocks]

\* (Mutant: the check does not forget that it was pending.)
CheckBegan_Remembers(u) == [u EXCEPT !.checks = Tail(@)]

\* Spawn::checkSpawn, before its loop and after it
CheckBegan(u) == [u EXCEPT !.checks = Tail(@), !.event = FALSE]
CheckEnded(u) ==
  IF Size(u) < NBlocks THEN CheckAdded([u EXCEPT !.doubled = @ \/ u.event]) ELSE u

-----------------------------------------------------------------------------

Due == spawn.checks # <<>> /\ Head(spawn.checks) = 0
Arriving == spawn.coming # <<>> /\ Head(spawn.coming).left = 0

\* Spawn::checkSpawn: a block whose monster is only now found removed waits.
CheckSpawn ==
  /\ Due
  /\ \E tried \in SUBSET {b \in Blocks : spawn.near[b] + spawn.removed[b] = 0},
        outcome \in Outcomes, culled \in SUBSET Ids :
       /\ Cardinality(tried) <= Rate
       /\ spawn' = CheckEnded(Looped(Cleaned(CheckBegan(spawn)), tried, outcome, culled))

\* the last call of Spawn::scheduleSpawn
ScheduleSpawn ==
  /\ Arriving
  /\ \E outcome \in Outcomes, culled \in SUBSET Ids :
       spawn' = SpawnMonster([spawn EXCEPT !.coming = Tail(@)],
                             Head(spawn.coming).block, outcome, culled)

\* A monster dies or is removed by a script.
Dies(b) ==
  \/ spawn.near[b] > 0 /\ spawn' = MonstersRemoved(spawn, {b})
  \/ /\ spawn.away[b] > 0
     /\ spawn' = StartSpawnCheck([spawn EXCEPT !.away[b] = @ - 1, !.removed[b] = @ + 1])

\* A monster leaves the spawn's zone, or comes back.
Strays(b) ==
  /\ spawn.near[b] > 0
  /\ spawn' = [spawn EXCEPT !.near[b] = @ - 1, !.away[b] = @ + 1]
ComesBack(b) ==
  /\ spawn.away[b] > 0
  /\ spawn' = [spawn EXCEPT !.near[b] = @ + 1, !.away[b] = @ - 1]

\* the scheduler's time
Tick ==
  /\ ~Due /\ ~Arriving
  /\ spawn' = [spawn EXCEPT
                 !.checks = [j \in DOMAIN spawn.checks |-> spawn.checks[j] - 1],
                 !.coming = [i \in DOMAIN spawn.coming |->
                               [spawn.coming[i] EXCEPT !.left = spawn.coming[i].left - 1]]]

SpawnNext ==
  \/ CheckSpawn \/ ScheduleSpawn \/ Tick
  \/ \E b \in Ids : Dies(b)
  \/ \E b \in Blocks : Strays(b) \/ ComesBack(b)

SpawnSpec == SpawnInit /\ [][SpawnNext]_spawn

-----------------------------------------------------------------------------
(* Properties *)

\* the monsters of block b, there or announced
Claims(u, b) ==
  Cardinality({i \in DOMAIN u.coming : u.coming[i].block = b}) + u.near[b] + u.away[b] + u.removed[b]

\* Once a spawn was checked, none of its monsters is missing for ever: while no
\* check is pending none of them is removed, and as many are counted as there
\* are blocks.  And unless a script removed one in the middle of a check, so
\* that the next check was asked for twice, one check is pending at most, and a
\* block has, beside its one monster, there or announced, only as many as there
\* are checks that fit into the time of the effects: none when the interval is
\* longer than they last.
SpawnsKept ==
  /\ spawn.ever /\ spawn.checks = <<>> => Size(spawn) >= NBlocks
  /\ spawn.checks = <<>> => \A b \in Ids : spawn.removed[b] = 0
  /\ ~spawn.doubled =>
       /\ Len(spawn.checks) <= 1
       /\ \A b \in Blocks : (Claims(spawn, b) - 1) * CheckEvery <= Effects
=============================================================================
