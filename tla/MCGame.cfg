SPECIFICATION MCSpec
CONSTANTS
  \* Creatures
  hero = hero
  wolf = wolf
  ghost = ghost
  Humans = {hero}
  Monsters = {wolf, ghost}
  Places = {1, 2}
  Home <- MCHome
  Summonable = {ghost}
  NLists = 1
  Nobody = Nobody
  \* SpectatorLists
  square = square
  corner = corner
  Watchers = {x1, x2, x3}
  Beasts = {y1, y2}
  Spots = {square, corner}
  LeafOf <- MCLeafOf
  Off = Off
  \* Spawns
  NBlocks = 2
  Blockable = {1}
  CheckEvery = 2
  Effects = 5
  Rate = 1
  \* Decay
  off = off
  on = on
  glow = glow
  ash = ash
  Kinds = {off, on, glow, ash}
  Objects = {1, 2, 3}
  MaxItems = 1
  MaxListings = 2
  Turns <- MCTurns
  DecayTo <- MCDecayTo
  DecayTime <- MCDecayTime
  TypeOf <- MCTypeOf
  StopTime = {off}
  Stackable = {ash}
  Gone = Gone
  Never = Never
  \* Walking
  MaxSteps = 2
  MaxPending = 2
  MaxQueue = 1
  NoTask = NoTask
  \* Speed
  pony = pony
  horse = horse
  idle = idle
  swift = swift
  Hastes = {10, 20}
  Paralyses = {40}
  Mounts = {pony, horse}
  MountSpeed <- MCMountSpeed
  Clothes = {idle, swift}
  Bonus <- MCBonus
  EquipTo <- MCEquipTo
  DeEquipTo <- MCDeEquipTo
  WornTo <- MCWornTo
  MaxDelayed = 1
  Nil = Nil
INVARIANTS NobodyDangles NeverAsleepBeside EveryoneFound SpawnsKept NeverForgotten Punctual CanBeCalledOff WalksOn SpeedAddsUp
CHECK_DEADLOCK FALSE
CONSTRAINTS FewGone FewSpawned NotAstray
VIEW View
