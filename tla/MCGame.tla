------------------------------- MODULE MCGame --------------------------------
(***************************************************************************)
(* Creatures, the map's lists of them, spawns, decaying items, walks and   *)
(* speeds, for TLC: a behaviour plays one scene, chosen at the start, and  *)
(* the other parts stay as they are.                                       *)
(***************************************************************************)
EXTENDS Creatures, SpectatorLists, Spawns, Decay, Walking, Speed, TLC

CONSTANTS hero, wolf, ghost,
          square, corner,
          off, on, glow, ash,
          pony, horse, idle, swift

VARIABLE scene

\* A player and two monsters, one of which can be summoned, in two places.
MCHome == [c \in {hero, wolf, ghost} |-> 1]

\* Two positions in two leaves of the map.
MCLeafOf == square :> 1 @@ corner :> 2

\* A lamp that is off or on, then glows, then leaves ash, which can be stacked.
MCDecayTo == off :> Never @@ on :> glow @@ glow :> ash @@ ash :> Gone
MCDecayTime == off :> 0 @@ on :> 2 @@ glow :> 1 @@ ash :> 1
MCTypeOf == off :> 1 @@ on :> 1 @@ glow :> 1 @@ ash :> 2
MCTurns == off :> {on} @@ on :> {off, glow} @@ glow :> {off} @@ ash :> {}

\* Two mounts, and a ring that becomes another while it is worn.
MCMountSpeed == pony :> 1 @@ horse :> 2
MCBonus == idle :> 0 @@ swift :> 5
MCEquipTo == idle :> swift @@ swift :> Nil
MCDeEquipTo == idle :> Nil @@ swift :> idle
MCWornTo == idle :> {} @@ swift :> {idle}

MCVars == <<scene, creatureVars, map, spawn, d, y, runner>>

MCInit ==
  /\ scene \in {"creatures", "map", "spawn", "decay", "walk", "speed"}
  /\ CreaturesInit /\ SpectatorInit /\ SpawnInit /\ DecayInit /\ WalkingInit /\ SpeedInit

MCNext ==
  /\ UNCHANGED scene
  /\ \/ scene = "creatures" /\ CreaturesNext /\ UNCHANGED <<map, spawn, d, y, runner>>
     \/ scene = "map" /\ SpectatorNext /\ UNCHANGED <<creatureVars, spawn, d, y, runner>>
     \/ scene = "spawn" /\ SpawnNext /\ UNCHANGED <<creatureVars, map, d, y, runner>>
     \/ scene = "decay" /\ DecayNext /\ UNCHANGED <<creatureVars, map, spawn, y, runner>>
     \/ scene = "walk" /\ WalkingNext /\ UNCHANGED <<creatureVars, map, spawn, d, runner>>
     \/ scene = "speed" /\ SpeedNext /\ UNCHANGED <<creatureVars, map, spawn, d, y>>

MCSpec == MCInit /\ [][MCNext]_MCVars

\* Bound: one creature dies at a time, and no more than two leave the world.
FewGone ==
  /\ Cardinality({c \in Beings : In(w, c) /\ w.dead[c]}) <= 1
  /\ Cardinality({c \in Beings : w.life[c] \notin {"unborn", "in"}}) <= 2

\* Bound: two checks of the spawn are pending at most, three monsters announced,
\* and two counted beyond the blocks.
FewSpawned ==
  Len(spawn.checks) <= 2 /\ Len(spawn.coming) <= 3 /\ Size(spawn) <= NBlocks + 2

\* Bound: a session in which the speed has gone wrong is not followed any further.
NotAstray == runner.in => ~runner.astray

-----------------------------------------------------------------------------
(* Of two states that differ in nothing but names, one is enough: items    *)
(* have no names, and the buckets are counted from the last one whose turn *)
(* it was; event ids are only compared, so what counts is which slot holds *)
(* the id of which event; what a freed creature had does not count, nor    *)
(* whom a creature out of the world attacks and follows, once its turn is  *)
(* over; in the map's lists creatures of one sort are alike, and of the    *)
(* slot one remembers it only matters whether it is the one it is in.      *)

Unburied ==
  LET Kept(f) == [c \in Beings |-> IF w.life[c] = "freed" THEN Nobody ELSE f[c]]
      Seen(f) == [c \in Beings |-> IF w.life[c] = "removed" /\ round.turn # c
                                    THEN Nobody ELSE Kept(f)[c]]
  IN <<[w EXCEPT !.place = Kept(@), !.dead = Kept(@), !.master = Kept(@), !.check = Kept(@),
                 !.attacked = Seen(@), !.follow = Seen(@)],
       round, dice>>

Unnamed ==
  LET Shown(e, i) ==
        <<IF e.creature = Off THEN 0 ELSE IF e.creature \in Watchers THEN 1 ELSE 2,
          e.pos, e.player,
          e.creature # Off => map.id[e.creature] = i /\ map.at[e.creature] = e.pos>>
  IN <<map = map,   \* evaluates all of it, which TLC leaves to a view
       [l \in Leaves |->
          [map.holder[l] EXCEPT !.slot = [i \in DOMAIN @ |-> Shown(@[i], i)]]]>>

Turned ==
  LET Live == {i \in Objects : d.refs[i] > 0}
      Within(list, i) == {j \in DOMAIN list : list[j] = i}
      Shown(i) == <<d.kind[i], d.held[i], d.dur[i], d.mark[i], d.refs[i], d.released[i],
                    d.asked[i], d.spent[i], d.copied[i], Within(d.toDecay, i),
                    [b \in Buckets |-> Within(d.bucket[(b + d.last) % NBuckets], i)]>>
  IN <<d = d, Cardinality(Live), {Shown(i) : i \in Live}>>

HeldBy(t) == {s \in Slots : t.id # 0 /\ y.slot[s] = t.id}

Unnumbered ==
  <<Cardinality(y.timers),
    [y EXCEPT !.timers = {<<t.do, HeldBy(t)>> : t \in @},
              !.queue = [j \in DOMAIN @ |->
                           <<HeldBy(@[j]), IF @[j].do = "go" THEN @[j] ELSE @[j].do>>],
              !.slot = [s \in Slots |-> IF @[s] = 0 THEN "free"
                                        ELSE IF Exists(y, @[s]) THEN "set" ELSE "over"]]>>

View ==
  <<scene, CASE scene = "creatures" -> Unburied
             [] scene = "map" -> Unnamed
             [] scene = "spawn" -> spawn
             [] scene = "decay" -> Turned
             [] scene = "walk" -> Unnumbered
             [] scene = "speed" -> <<runner = runner, runner>>>>
=============================================================================
