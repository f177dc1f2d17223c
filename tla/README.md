# A TLA+ model of the OTX game server

This directory specifies the concurrent and stateful core of the server under
`engine/src`: its threads and queues, its connections and sessions, and the
parts of the game that spread one fact over several objects (market, trade,
party, creatures and the lists that hold them, spawns, decaying items, walks,
speed, open windows, records in the database, live casts). TLC checks each specification on
a small instance; TLAPS proves the most important properties for every value of
the constants.

Contents: 1 the system, 2 the modules and the code, 3 the runs, 4 bounds and
fairness, 5 the proofs, 6 where the code disagrees with its comments, 7 what is
not modelled, 8 the plan.

## 1. The system

### Threads

| thread | code | state it owns | talks to others by |
|---|---|---|---|
| dispatcher | `tasks.cpp` | the whole game world | runs every `Task`; posts timers, queries, messages |
| scheduler | `scheduler.cpp` | timer queue, event ids | puts due tasks in front of the dispatcher's list |
| database | `databasetasks.cpp` | asynchronous queries | posts each query's callback to the dispatcher |
| network (main) | `connection.cpp`, `server.cpp`, `signals.cpp` | sockets, timers of connections | posts packets, releases and signals to the dispatcher |

The world is single-threaded: whatever is done to players, items and parties is
a task on the dispatcher, so a handler is one step. The hard behaviour is
elsewhere: in how tasks get to the dispatcher and stop getting there, in what a
task finds when it runs later than it was posted, and in facts that live in
several places at once.

### Components, their state, and what makes them correct

* **Dispatcher**: a list under a mutex, a condition variable that is notified
  *after* unlocking and only when the list was empty, a thread state read
  without the lock. No wake-up may be lost, each task run once and deleted once,
  the list drained before the thread ends.
* **Scheduler**: a priority queue of tasks by due time and a set of live ids.
  `stopEvent` withdraws the id and leaves the task queued; the thread hands due
  tasks over without the lock. No oversleeping, no task stopped and fired, ids
  that wrap around without confusion.
* **DatabaseTasks**: a list with *two* runners, the thread and `flush()` on the
  dispatcher. Each query executed once; nothing missing after a flush or a join.
* **Server lifecycle**: signal, `setGameState(SHUTDOWN)`, `Game::shutdown`, three
  joins. Nothing accepted is lost, no timer runs on a world that is shut down.
* **Connection / Protocol**: one object shared by the network thread and, by
  weak pointers, the dispatcher. Reads and writes outstanding, two timers, a
  message queue. What is written is what is queued; every wait is timed; a
  closed connection is freed; its protocol is told.
* **Game session**: `ProtocolGame` objects and one `Player`: login, replacing a
  client, release, logout, removal, autosend. One client per character, no
  `Player` used after it was deleted, none leaked.
* **Waiting list**: two lists and a place that depends on both. No one loses his
  place to a later one, who gives up is dropped.
* **Market**: a table, changed synchronously by players and asynchronously by
  the expiry check, and coin balances changed through the query queue.
  Conservation of gold, goods and coins; every offer settled once.
* **Trade**: two `Player` objects and `Game::tradeItems`. The three agree, and
  what was shown is what is on offer.
* **Party**: leader, members and invitations, each known on both sides by raw
  pointers, in an object that deletes itself. Both sides agree.
* **Creatures**: ten check lists, of which a round walks one while what a creature
  thinks of adds, removes, kills and even frees creatures; targets, friends,
  masters and summons, each with a reference or without. Nobody points to a freed
  creature, every reference is given back, no monster sleeps beside a player.
* **The map's lists of creatures**: an array per leaf with the players in front, that
  doubles and halves; each creature remembers its slot. A search finds everybody
  once.
* **Spawns**: blocks, the monsters counted for them, and whether a check is pending.
  No monster is missing for ever, no block has two.
* **Decay**: a list, four buckets, a mark on the item, and nothing that unlists it.
  No item is forgotten, freed while listed, or late by more than a round.
* **Walking**: the steps to go, a task for the end of the way, and a slot for the timer
  of each kind of action put off. What was put off can be called off; who has
  a way to go is on his way.
* **Speed**: one number that conditions, mounts and worn items add to when they
  begin and take from when they end. What is taken off is what was added.
* **Windows**: bare pointers to open containers, and counted containers for browsed
  fields. Every window shows something that exists and is in reach.
* **Saving**: one database connection for two threads, transactions, a lock that
  is taken after `BEGIN`, statements that are sent again on a new connection. A
  record is in the database as it was at one time; a query is not undone.

* **Live casts**: a caster's `ProtocolGame`, a map of casts, spectators with a client and a
  `Player` of their own, a row of the database; and copies of messages handed from the
  dispatcher to the network thread. Who watches is the same everywhere, and what
  spectators see comes in order, once, and without gaps.

How they interact:

```
 network thread ── packets, releases, signals ──► dispatcher ◄── due tasks ── scheduler
      ▲                                          │     ▲  │                      ▲
      └────── send / disconnect (weak ptr) ──────┘     │  └─ addEvent/stopEvent ─┘
                                             callbacks │
                                         database thread ◄── addTask / flush ── dispatcher
```

## 2. The modules and the code

| module | models | notes |
|---|---|---|
| `Dispatcher` | `Dispatcher`, `ThreadHolder` | a section under `taskLock` is one action, the notify after it another |
| `TimerService` | the promise of the scheduler | abstract specification, implemented by `Scheduler` |
| `Scheduler` | `Scheduler`, `SchedulerTask` | ids wrap at `MaxEventId`; hand-over is an action of its own |
| `DatabaseTasks` | `DatabaseTasks` | a query's execution is one step of its runner |
| `ServerLifecycle` | `main`, `Signals`, `setGameState`, `Game::shutdown` | instantiates the three above and closes what they leave open |
| `ConnectionLife` | what a protocol may rely on | abstract specification, implemented by `Connection` |
| `Connection` | `Connection`, `ServicePort::onAccept`, `ConnectionManager::closeAll` | a function's body is an operator on one record |
| `GameSession` | `ProtocolGame::login/connect/release/logout`, autosend | its connections are those of `ConnectionLife` |
| `WaitingList` | `WaitingList` | time in ticks of five seconds |
| `Market`, `MCMarket` | `Game::player*MarketOffer`, `IOMarket`, `IOAccount::addCoins` | the database thread is one queue |
| `Online` | `Game::players` | shared by the next two |
| `Trade` | `player*Trade`, `internal*Trade`, the move notifications | items are whole |
| `Party` | `Party`, `Game::player*Party*` | methods are functions on the state of all parties |
| `World` | login and logout | composes `Trade` and `Party` as `Player::onRemoveCreature` does |
| `Saving` | `Database`, `DBTransaction`, `IOLoginData::savePlayer`, `IOMapSerialize::saveHouseInfo` | a statement is a step; a table is the versions whose rows are in it |
| `Windows` | `openContainers`, `browseFields`, `Player::post*Notification`, `autoCloseContainers` | tiles on a line; every thing is a bag |
| `LiveCast` | `ProtocolGame`'s cast, `ProtocolSpectator`, `Connection::dispatchBroadcastMessage` | sockets, tasks and the network thread's handlers of every client are part of one record |
| `Creatures` | `Creature`, `Monster`, `Game::checkCreatures`, `removeCreature`, `cleanup` | methods are functions on the state of all creatures; a creature's turn is split into its callbacks |
| `SpectatorLists` | `FastSpectatorHolder`, `Map::getSpectators` | indices are `uint16_t` |
| `Spawns` | `Spawn`, `Monster::onRemoveCreature` | time in ticks of any length |
| `Decay` | `Game::startDecay`, `checkDecay`, `internalDecayItem`, `transformItem`, `Item::setID` | time in milliseconds |
| `Walking` | the `setNext*Task` of `Player`, `Creature::onWalk`, `Game::playerAutoWalk`, the handlers that begin with "need to walk" | one player; every timer may be next |
| `Speed` | `Game::changeSpeed` and its callers: `ConditionSpeed`, `Player::mount/dismount/toggleMount`, `MoveEvent::EquipItem/DeEquipItem`, `Game::transformItem` of a worn item | one player; whoever changes the speed is an action |
| `MCWorld`, `MCGame` | | several parts for one run, one *scene* each |
| `*Proofs` | | theorems of the module they are named after; `WorldProofs` has those of `Trade`, `Party`, `Saving` and `SpectatorLists`, `GameProofs` those of `Walking`, `Spawns`, `Decay` and `Speed`, `GameSessionProofs` also those of `WaitingList` and `Windows`, `ConnectionProofs` those of `ServerLifecycle` and `LiveCast` |

`PROJECT.json` maps every definition to the lines it stands for. Conventions:
variables keep the names of the fields they model; a variable commented
"history" is not in the code and only lets a property speak about the past; an
operator `X_Something` in front of `X` is `X` with a plausible mistake, used to
make sure that the properties can fail, and is not part of the specification.

### Some correspondences worth knowing

* *Notify after unlock.* `AddTask` changes the list, `NotifyWorker` notifies;
  between them anything may happen. The worker's wait is three steps: begin to
  wait (atomic with releasing the lock), be woken, re-acquire.
* *Thread state.* `shutdown()` of scheduler and database stores `TERMINATED`
  before taking the lock, and `CheckState` reads it without the lock: both are
  steps. That gap is the finding of section 6.
* *Timers first.* `addTask(task, true)` pushes to the front, so two timers due
  together run in reverse. `Dispatcher!Placed` and `GameSession!ConnectDue` keep
  that.
* *A closed connection may be closed again.* Every `close()` posts one more
  `release`; `GameSession` allows as many as the code can produce.
* *Market purses.* Money in bags and in the bank are one number, since
  `removeMoney` takes from both; an offline player is loaded, changed and saved
  inside the handler, so on- and offline purses are the same thing. Store coins
  are not: the `Player`'s copy, the table and the queued updates are three
  variables (`cached`, `account`, `tasks`).
* *Trade.* `Notices` is the union of the tests in `onRemoveInventoryItem`,
  `onRemoveTileItem` and `onRemoveContainerItem`: for an item taken out of a bag
  the code compares with the bag, for one taken from an inventory or a tile it
  asks whether the trade item is or lies in it. `AcceptNothing` is the step
  where a player accepts in state *acknowledge* without ever having made a
  counter-offer and his partner has accepted too: the null item reaches
  `setItemMetatable` (`luascript.cpp:713`), which dereferences it, and the
  process ends (`alive`). The shipped `data/events/events.xml` enables that
  handler.
* *Party.* Operations call each other (`leaveParty` → `passPartyLeadership` →
  `disband`), so each method is a function from the state of the parties to the
  next and calls are composition, as in the code. `RemoveFirst` is `std::find` and `erase`.

* *Creatures.* A round (`CheckCreatures`) is not one step: the model stops between
  the callbacks of a turn, because a creature's first step runs
  `checkCreatureWalk`, which ends with `cleanup` (`game.cpp:5490`). The list is a
  `std::vector` walked by iterator while others are appended; the model keeps the
  index.
* *Spawns.* `checkSpawnEvent` is set to 0 at the start of a check. A script that
  removes a monster of the spawn during the check therefore arms a second event,
  and the check arms one more at its end: from then on the spawn is checked
  twice as often (history variable `doubled`). Strays keep id 0 in
  `spawnedMap` and count, so a block may stay empty while they live; the property
  says as many monsters as blocks, not one for each block. A kind that is not
  blockable is placed three effects (4.2 s) after the check, and until then neither
  `spawnedMap` nor `lastSpawn` shows that it was announced (`spawn.cpp:381`, `401`).
  The interval may be shorter: `loadFromXml` takes any `spawntime` over 1 s, and
  `getInterval` divides it by `spawnSpeed`, which `config.lua` sets to 2. A check that
  comes before the monster finds the block empty and announces it once more, so a
  block may get `1 + Effects \div CheckEvery` monsters. That is what `SpawnsKept` says
  of any interval, as `(Claims - 1) * CheckEvery <= Effects`; only an interval over
  4.2 s makes it one. The second monster counts in `spawnedMap.size()`, so
  another block may stay empty, without a check, until one dies. Time stands still while something is
  due; with a dispatcher that is late, `Effects` is the time they take with the
  delays. The loop over `spawnMap` is
  the recursive function of `Looped`, block by block.
* *Decay.* The bucket is found by rounding, so an item may live one turn less than
  its duration; `Punctual` allows one. `Item::clone` copies the mark
  `DECAYING_TRUE` but not the listing, so a part of a decaying stack that is
  moved away never decays (`copied`).
* *Walking.* A timer that has expired is in the dispatcher's list and `stopEvent`
  does nothing, so two chains of steps may run for one player; and one who is
  paralysed at his last step keeps a `walkTask` that nothing will run
  (`stranded`).
* *Saving.* `Database::executeQuery` repeats a statement on a new connection. If that
  happens inside a transaction, the statements before it are rolled back by the
  server, those after it are committed one by one, and `DBTransaction::commit`
  reports success; `SavedWhole` leaves out the records that were saved across a
  lost connection (`torn.lost`), and the house lists after an `UPDATE` whose result
  `saveHouseInfo` ignores (`torn.skipped`).
* *Speed.* A condition is added, refreshed or ended at once or by a task that
  is put off (`MaxDelayed`). A worn thing of a kind with `transformDeEquipTo` that is
  turned into another is taken off and put on in the middle of the change
  (`movement.cpp:815`). Some histories do leave a player too fast or too slow for the
  rest of a session, for example a mount that was saved as worn and gave no speed
  at login (`iologindata.cpp:600`) but takes it off when left; `astray` marks those,
  and the property is about all others.
* *Windows.* Nobody closes a player's windows when he leaves; `Player::~Player` does not
  give back the references of browsed fields either, so their container lives on
  (`leaked`, bounded). Windows restored at login are left out.
* *Live casts.* `io_service::dispatch` runs a handler at once when called on the network
  thread and posts it otherwise, so `Sent` (the dispatcher begins to write) appends to `io`
  and `NextWritten` (the network thread does) calls `Broadcast` itself; the handlers
  posted run in their order (`RunHandler`). They cannot change places, because a
  message is written only when the one before is done and that is a handler behind
  the first one's broadcast: this is what `SeenInOrder` checks. The tasks of one protocol
  keep their order, those of different ones run in any.

## 3. The runs

| run | properties | what it shows |
|---|---|---|
| `dispatcher` | `DrainedAtExit EveryTaskServed` | notifying outside the lock, only on an empty list, loses no task; `shutdown()` drains |
| `scheduler` | `NoOversleep EveryEventResolved ImplementsTimers` | the queue with lazy deletion implements the abstract timer service |
| `database_tasks` | `ExecutedInOrder DrainedAtJoin FlushIsComplete EveryQueryExecuted` | two runners, one list; what a save or a shutdown may rely on |
| `lifecycle` | `OrderlyEnd GameThreadEnds` | the three composed: a shutdown loses nothing and ends the game thread |
| `lifecycle_signal` | `SignalShutsDown` | violated: section 6 |
| `connection` | `WriteMatchesQueue SentInOrder NeverUntimed ClosedIsFreed ImplementsLife` | handlers, sends, time-outs and closes in every order |
| `session` | `OneClient NoUseAfterFree AutosendIsServed EveryLoginAnswered` | two clients for one character |
| `session_leak` | `PlayerNotLeaked` | violated: section 6 |
| `waiting_list_expiry` | `ExpiredLeave` | violated: section 6 |
| `market` | `Conserved HistoryAddsUp ExpiredOffersLeave` | requests against two expiry checks in flight and queued coin updates |
| `world`, people | `TradesConsistent OffersIntact PartiesConsistent` | three players trade, group, come and go |
| `world`, door | `PlacesAheadKept` | premium, staff and ordinary characters, two places |
| `world`, disk | `SavedWhole QueriesKept` | a character and the houses saved while a query is executed; failures, crashes, a lost connection |
| `world`, windows | `WindowsKept` | bags and fields open while bags are carried about, players walk, leave and come back |
| `world`, cast | `CastKept` | a player shows his game from one client and the next; spectators come, go and are cut off while messages are buffered, queued, sent and copied |
| `game`, creatures | `NobodyDangles NeverAsleepBeside` | a player, a monster and one that can be summoned, in and between check rounds |
| `game`, map | `EveryoneFound` | three players and two others come, go and step between two leaves |
| `game`, spawn | `SpawnsKept` | monsters die, stray, are refused or removed in the middle of a check, and are announced again before they are there |
| `game`, decay | `NeverForgotten Punctual` | an item is lit, put out, moved and removed while its bucket comes up |
| `game`, walk | `CanBeCalledOff WalksOn` | commands put off until a timer or the end of a way |
| `game`, speed | `SpeedAddsUp` | conditions, mounts and a worn item come, change and go, across logouts |

`world` and `game` are one TLC run each. Their parts share no state that the
properties are about, so `MCWorld` and `MCGame` do not interleave them: the first
state chooses a *scene*, and only its part moves. Trade and party are the
exception, they are composed in `World` and move together.

Run one with `tlc -config X.cfg M`. Where a module's types are not worth a
property of their own, `TypeOK` is the first conjunct of another invariant
(`ExecutedInOrder`, `OrderlyEnd`, `WriteMatchesQueue`, `OneClient`, `Conserved`).
`TypeOK`, `OneOwner` and `IdsMatchQueue` of `Scheduler`, `TypeOK`, `OneOwner`,
`NoLostWakeup` and `FifoOrder` of `Dispatcher`, and `NoLostWakeup` of `DatabaseTasks`, are proved
(section 5), so no run repeats them.
`ExecutedInOrder` says that each query is executed once and by whom it may be
overtaken; `OrderlyEnd` says what is handed over, which timers may still run, and
what the process leaves behind.

Some properties say less than one might wish, because the code does:

* `Conserved` lets something be created when an offer was *partly* accepted while
  the expiry's snapshot held it. `processExpiredOffers` then pays the amount of
  the snapshot (`iomarket.cpp:132`) for an offer that holds less. Everything
  else, cancelling, selling out and expiring twice in that window included, is
  paid once. The history variable `raced` records the exception.
* Nothing says that a coin balance stays above zero. The check before a sale reads
  the `Player`'s copy (`game.cpp:7632`) or the table (`game.cpp:7818`) and the
  deduction is a queued query, so two sales within one round trip overdraw the
  account. The coins still add up, which is what `Conserved` states; the column
  is then read as an unsigned number (`HasCoins`).

## 4. Bounds and fairness

Bounds are constants or `cfg` values, named where they bite.

| run | bound | why it is enough |
|---|---|---|
| dispatcher | 3 tasks (1 timer), 2 posting threads and the worker | two posters can race on an empty list while the worker goes to sleep or ends; a third task is pushed in front of or behind another |
| scheduler | 3 timers, 2 callers, ids wrap after 2, clock 0..1 | an id is reused while its first owner is queued; a new earliest event arrives during a timed wait |
| database_tasks | 3 queries, 2 callers | one in each runner's hand and one in the list |
| lifecycle | 1 request, timer, query with callback, signal | each kind of task can be before, between or after each step of the shutdown |
| connection | 2 messages | the second is queued while the first is being written |
| session | 2 protocols, hence up to 2 Player objects | one replaces the other, and a Player is created after the first was removed; packets: one pending per client |
| world, door | 4 characters, 2 places | one playing, one of each list waiting, one of the staff passing |
| market | 2 players, 2 offers, amounts 1..2, 2 checks in flight | a partial acceptance, a sale and a cancellation can each fall between a snapshot and its processing, and two snapshots can hold the same offer |
| world, people | 3 players, a pouch and a coin | two trade while the third interferes; the coin goes in and out of the pouch; parties with a leader, a member and an invited player, or two parties |
| world, disk | 1 character, the house lists, 1 query, `MaxVersion` 2, `MaxLost` 1 | one record is saved while the other is not, the query falls before, into and after every gap of a save, the connection is lost at each statement, any number of crashes |
| world, windows | 2 players, 2 bags, 2 fields two steps apart, 2 windows each, `MaxLeaks` 1 | a bag in a bag, on a field or carried; a field browsed from two sides, from the tile itself and out of a bag; a window replaced, closed by a step, or lost |
| world, cast | 2 clients one after the other, 2 spectators, 2 protocols with tasks, 1 while a ping waits (`FewWaiting`); `MaxShown` 2, `MaxPings` 1 | the second message is buffered, queued behind a ping or posted while the first is on its way; a spectator joins, leaves or is cut off before, between and after them; a second client casts while a spectator of the first has tasks to run |
| game, creatures | 1 player, 2 monsters (1 summonable), 2 places, 1 check list; `FewGone`: one dead at a time, two gone | a summon and its master, a hunter and its prey, each removed or freed while the round stands before, at and behind them |
| game, map | 3 players, 2 others, 2 leaves | arrays of 2, 4 and 8 slots, grown and halved, with freed slots before and behind the last player, and 65535 for no player |
| game, spawn | 2 blocks (1 at once, 1 announced), rate 1; `FewSpawned`: 2 checks pending, 3 announced, 2 more than the blocks | a check that finds one, two or no block empty, and scripts that remove others in it; `CheckEvery` 2 ticks, `Effects` 5: two more checks fit into the time of an announcement, so a block gets up to three monsters, the first arriving while others are on their way |
| game, decay | 3 `Item` objects, `MaxItems` 1, `MaxListings` 2, times of 1 and 2 s | an item listed twice, or in two buckets, and one that is gone but still listed, next to its successor |
| game, walk | ways of 2 steps, `MaxPending` 2, `MaxQueue` 1 | a timer of one kind expires while another is armed or stopped, and while a way waits in the list |
| game, speed | 2 hastes, 1 paralysis, 2 mounts, 2 kinds of a worn thing, `MaxDelayed` 1; `NotAstray` | a stronger haste replaces a weaker one, and a paralysis falls on a haste, at once and late; a mount is exchanged; a worn item changes its kind both ways |

The bound of `SpawnsKept` is met: with `CheckEvery` 2 and `Effects` 5 TLC finds a block
with three monsters, with 4 and 3 none with two. `Spawns` assumes of the two only that
they are at least a tick.

`MCGame` gives TLC a `VIEW`, since items, timers and slots are numbered objects
whose numbers mean nothing. Two states with one view differ in the names of items,
the origin of the buckets' numbers, event ids (what counts is which slot holds whose
id), what a freed creature once had, or which of two creatures of a sort is in a
slot; no action and no property tells these apart, so one of them stands for all.
`MCWorld` has one too: of the scene that plays, and for a cast without the names of
clients and spectators and without those that are done (`Over`).

With three items (a bag in a bag) and two players `World` was explored by hand as
well, without a difference, and so was `LiveCast` with three messages and one spectator, and
with two spectators and no limit on tasks. Deadlock is checked for `market`,
which never stops; the other systems do stop (threads end, the clock is bounded,
the connection is gone, the process exits, a counter of the model is at its bound).

Fairness, always weak but for one action:

* *Threads are scheduled*: `WF` of each thread's step. A thread blocked on a
  condition variable continues only when notified or when its deadline has
  come; spurious wake-ups are possible steps and never relied upon.
* *Time passes* (`Tick`, `Clock`) and `io_service.run` executes every completed
  handler and expired timer. The peer owes nothing: `DataArrives`, `DataSent` have
  no fairness.
* *Strong fairness of `Destroy`* in `Connection`: dropping the last `shared_ptr` frees
  the object at once; the only thing that disables the step is a temporary
  reference of a handler, so it cannot be put off for ever.
* *Nobody is obliged* to post, flush, stop, shut down, log in, trade or buy.
* Market: the check, the database thread and the dispatcher's processing each get
  `WF`; the check arms itself again (`iomarket.cpp:207`).

## 5. The proofs

All are checked by TLAPS down to the last leaf, from the assumptions declared next
to the constants and nothing else.

| module | theorem | argument |
|---|---|---|
| `DispatcherProofs` | `TypeCorrect`, `NoLostWakeupHolds`, `OneOwnerHolds`, `FifoOrderHolds`, `DrainedAtExitHolds` | `NoLostWakeup` is inductive by itself: who owes a notify is in `posting`. `OneOwner` is inductive together with the types. `FifoOrder` is inductive together with who may end the thread (`ExitInv`), from which `DrainedAtExit` follows (`AcceptKeepsOrder`, `PushFrontKeepsOrder`, `PopKeepsOrder`) |
| `SchedulerProofs` | `TypeCorrect`, `NoOversleepHolds`, `IdsMatchQueueHolds`, `OneOwnerHolds`, `ImplementsTimersHolds` | refinement mapping: an event's status is *armed* while queued with a live id, *cancelled* once stopped, *fired* from `TakeTop` on; `RefInv` relates ids, queue, hand and history |
| `DatabaseTasksProofs` | `NoLostWakeupHolds`, `DrainedAtJoinHolds`, `FlushIsCompleteHolds`, `ExecutedInOrderHolds` | `Accounted`: every accepted query is in the list, in one of the two hands, or executed. For the order: the list is the last part of what was accepted (`Queued`), and nothing is in two places or executed twice (`TakenOnce`) |
| `ConnectionProofs`, connection | `WriteMatchesQueueHolds`, `SentInOrderHolds`, `NeverUntimedHolds`, `ImplementsLifeSafely` | inductive with "nothing has completed that is not outstanding" (`Sound`); the handlers are compositions of the operators on the connection record, so each operator has a lemma that it keeps a connection sound, and the actions follow. The order of what is sent (`OrderInv`) adds that what was written and what is queued are together what was accepted. `LiveInv` adds that a queue has a timer (`Served`), a read has one (`Watched`) and a closed connection has told its protocol (`Told`). The refinement follows from what a step may change of a connection (`Moves`), the same for every action |
| `ConnectionProofs`, server | `OrderlyEndHolds` | `ServerInv` has a part for each of the three threads and one for what holds between them. The dispatcher's (`DispatcherInv`): timers are in front of `Game::shutdown` in the list (`TimersFirst`), the halting task has nothing behind it (`HaltLast`), and the thread ends only after it. The scheduler's and the query queue's: past a point of its `shutdown()` nothing is queued. Between them (`LifeInv`): nothing is stopped before `Game::shutdown` is posted, and the dispatcher's thread stays inside the handler of the signal from then until the dispatcher is stopped too, so no timer gets behind it; the halting task is created only after the two others have been shut down. `MainInv` says whom the main thread has joined. Most steps concern one thread and leave what the others see of it (`CalmKeeps`) |
| `ConnectionProofs`, cast | `CastKeptHolds` | `CastInv`. `Linked`: the caster is the client, and who watches is the same everywhere. `LogsIn`: a spectator logs in once, and has seen nothing before. `Streams`: the handlers of a client are there only while a message is written, at most one that copies it and one for its end behind that (`Attended`), and queue and buffer hold what was written in its order (`Ascending`). Of each spectator, `SeenBefore` (what he has seen comes before what is on its way) and `NoGap`. A step either leaves what is sent alone (`Calm`, `CalmFlows`: it may close connections, and a client's last buffer then is the end of what is shown, `FirstPart`), or moves messages on without changing what is shown (`PassesOn`: sending, sweeping, copying, the end of a write), or writes one more. `SightsInOrder` then reads the lists of `SeenInOrder` off the parts of the invariant |
| `GameSessionProofs`, session | `OneClientHolds`, `NoUseAfterFreeHolds`, `AutosendIsServedHolds` | the invariant `Inv` is mostly about the dispatcher's list: `Orderly` (a packet of a client stands before the release of its protocol, which ends it), `OneAttempt` (a protocol has one login or connect pending at most, and no player while it has), `Counted` (a player's references are those the world, the protocols and the release list hold), `Agreed` (player and protocol point to each other) |
| `GameSessionProofs`, door | `PlacesAheadKeptHolds` | `WaitInv`: nobody has two entries in the lists together (`Once`). Cleaning, erasing, refreshing and growing older keep the order (`InOrder`), the two lists put together included; so whoever still waits in front of a client stood in front of him in the cleaned lists too, and there are fewer of those than his slot (`FewAhead`), which fits in the free places when he is let in |
| `GameSessionProofs`, windows | `WindowsKeptHolds` | `Overseen`. The references of a browsed field are those owed (`Owed`: its windows, its timer, what was lost), and it lists what is there. Every bag has an outermost one (`Grounded`), so what is in a bag has its top parent, and a bag that is moved takes that along and nothing else (`MovedTop`). A bag is carried only by players who are in the world (`Carried`). With these, the windows that a move takes out of reach belong to players who stand near the old place (`Near`) and are told; each of the three loops, over windows, players and containers left behind, only closes windows (`Closes`) and leaves none on what it was called for (`NoneIn`) |
| `MarketProofs` | `HistoryAddsUpHolds`, `ConservedHolds` | the history is inductive with `IdsPassed` (an id names one offer, for ever) and the types of rows and ledger. For `Conserved`, sums over players and offers get a theory of their own; each request, settlement and refund is followed through purses, table and queue and shown to be `Balanced`. What makes it inductive is `SnapshotsFit`: a row on its way to `processExpiredOffers` is the offer of its id, if that is still there, and no smaller, or it was partly accepted since (`raced`); so what is paid covers what leaves the table |
| `WorldProofs`, people | `TradesConsistentHolds`, `OffersIntactHolds`, `PartiesConsistentHolds` | trades: `NothingForgotten`, since a player in state *none* or *acknowledge* who had something on the table could make a counter-offer and leave an item locked for ever; `ClosingKeeps` carries moves, removals, settling and logouts at once. Offers: nothing is inside itself (`Acyclic`), and what was shown is all that goes with the offer (`Displayed`), so a move that closes no trade moves nothing that was shown. Parties: `Kept(g, E, O, N)`, what agrees in the middle of an operation, when the parties in E may be deserted and players have left the world (O) or their own list of invitations is not up to date (N); every method has a lemma that takes one such state to the next, and `Agreeing` is the state between operations |
| `WorldProofs`, disk | `SavingInvHolds`, `SavedWholeHolds`, `QueriesKeptHolds` | `SavingInv`: for each step of a save, who holds the lock, whether a transaction is open and which tables hold which version |
| `WorldProofs`, map | `EveryoneFoundHolds` | `SpectatorInv`: the array of every leaf is `Good`: each creature that stands in the leaf is in the slot it remembers and nobody else is in one, the players are in the first slots (`Arranged`), the last player's index is one less than their number, or `0xFFFF` (`Before`), the count is right and the capacity is 2 doubled some times (`Powers`). Adding, removing and stepping are shown to take a good array to a good one and to leave the other leaves alone (`Only`); an array half full of the creatures still to be moved is `Halving`. `Room` finds the free slot that the loops look for: fewer creatures than slots leave one empty |
| `GameProofs`, walk | `CanBeCalledOffHolds`, `WalksOnHolds` | `Headed`. `Sound`: the timer of an action is filed in some slot, no two slots hold one id, and the slot of the next step holds a step; without the last two, stopping one timer could lose another. `Timed`: who is to make a step has a timer that exists. `OnTheWay` is `WalksOn`. A step that only concerns actions put off leaves the walk alone (`Aside`), one that starts a walk leaves it as far on (`On`); each operator has a lemma of the one kind or the other |
| `GameProofs`, spawn | `SpawnsKeptHolds` | `Orderly`: the event stands for a pending check, those announced for one block are as far apart as the checks that announced them (`Spaced`), and no block has more monsters than fit (`Fits`). It takes `SinceCheck`, that nobody was announced after the last check, to see that the next one, when it announces somebody again, keeps that distance; then `FarApart`, that n + 1 things at least d apart take up n * d, bounds their number. Once announced, a monster arrives, strays or dies without the number for its block growing (`ClaimsCompared`). In the middle of a check, `Lately` says that a check asked for by a script is a whole interval away. `Enough` counts |
| `GameProofs`, decay | `NeverForgottenHolds`, `PunctualHolds` | `InGoodOrder`: every item is `Good` and no more than `MaxItems` are in the world. `Good` is what is `Counted` of an item (its references; a freed object carries nothing of an earlier life), that what decays has time left (`Lasting`), that a marked item in the world is listed or has no time left (`Awaited`), and that the turns behind and ahead of it make up its time (`InTime`). A turn breaks all of that and repairs it: in the middle of the loop over a bucket, the turn has passed for the items still to come but is not yet taken off their time, so the sum is a full round too long for them and right for those served (`ServedUpto`); an item that is replaced by another takes a free object, and there are enough of them (`Stock`). The loops of `checkDecay` and `cleanup` are folds, whose states are taken one by one (`Runs`) |
| `GameProofs`, speed | `SpeedAddsUpHolds` | `Settled`. `Sane`: of each type of condition the player has one at most, who rides has a mount, who profits from his clothes wears something. The `Drift`, by how much the number is more than conditions, mount and clothes add up to, is 0 unless the number went astray, and who is not in the world has only what he is saved with. Most operations leave the drift as it was (`Keeps`), the two ways in which the code itself loses count mark the session as astray. The loops over conditions are folds: the one that ends them all has an explicit solution (`AllOverIs`), the one that starts those put off is taken state by state (`AllAddedKeeps`) |

The theorems assume what the `ASSUME`s of the modules say: sets of players, of offers,
of items or of objects that are finite, values that stand for nothing and are no member of a
set (`Nobody`, `None`, `Off`, `Away`), numbers that are natural, and of `ServerLifecycle`
that its scripted tasks and its timers are objects of their own, with the one `CallbackTask` its
dispatcher accepts once. Of the interval of a spawn and the time of its effects they
assume only that both are positive. The bounds of
section 4 that are constants (`MaxPending`, `MaxQueue`, `MaxListings`, `MaxShown`, `MaxPings`) are guards of actions in these modules; the
proofs never use them, so they hold without. `MaxItems` they do use: an operation of `Decay`
finds a free object because at least as many are free as may be in the world (`Room`).
`SpectatorLists` assumes at most 32768 creatures: with more of them in one leaf the `uint16_t`
capacity would double to 0, which the model leaves out. `Speed` assumes that what is
turned into another kind when put on gives no speed itself, and that this other kind is not
turned into a third, as in `items.xml`.

Several arguments are by induction: on the size of a set (the library's sums and
folds), along a list, up a chain of containers, over a loop of the code. They are
given as *least counterexamples*: a set of natural numbers with something in it
has a least one (`LeastNumber`, from the well-foundedness of `<`). A recursive
function is first shown to have a solution (`Solvable`, `Loopable`, `LoopHasTable`, `Cleanable`, `Foldable`).

Only model-checked: everything under fairness (`EveryTaskServed`,
`EveryEventResolved`, `EveryQueryExecuted`, `GameThreadEnds`, `ClosedIsFreed`,
`EveryLoginAnswered`, `ExpiredOffersLeave`, and of `ImplementsLife` that the object is freed in
the end), since the prover has no rule for `ENABLED`; what is written with `RECURSIVE`
operators, which it cannot take (`NobodyDangles`, `NeverAsleepBeside`).

## 6. Where the code disagrees with its comments

* **A signal may not end the process** (`lifecycle_signal`). `signals.cpp:88` says
  "Shuts the server down". `Scheduler::shutdown` stores `TERMINATED` before it takes
  the lock (`scheduler.cpp:121`) and notifies once; a scheduler thread that had
  just read the old state then waits on an empty queue for ever, and `main` waits in
  `join()`. `DatabaseTasks::shutdown` has the same gap.
* **A Player can be leaked** (`session_leak`). The comment at `protocolgame.cpp:213`
  says that `release()` has been called when the connection has expired, and takes
  that for the only such case. `release()` may have run while the `Connection` object still
  exists; `connect()` then takes a reference nobody gives back.
* **Entries of the waiting list do not expire** (`waiting_list_expiry`). The comment
  at `waitlist.cpp:59` gives an entry 15 seconds beyond its retry; the unsigned
  difference in `cleanupList` is `<= 0` only when it is exactly zero.

### Seen while modelling

These are not contradictions of a comment, so no run is about them; the models do
what the code does, and the properties say where they stop.

* `connect()` may return without clearing `isConnecting` (`protocolgame.cpp:215`).
* A statement repeated on a new connection inside a transaction leaves part of a save
  committed, and `commit()` reports success.
* `beginTransaction` sends `BEGIN` before it takes the lock the transaction is held
  under (`database.cpp:64`), so a query of the other thread may become part of it.
* `Item::clone` copies the mark of decay; `transformItem` to another decaying kind and
  the `decay()` after it may list an item twice.
* A monster that a script refuses keeps the reference its spawn took
  (`spawn.cpp:326`); a removal during a check arms the spawn's event twice.
* A teleport leaves the old way and the task at its end; `playerAutoWalk` is not told.
* `createLeaf` (`map.h:233`) moves the leaves of a node to a larger array;
  `FastSpectatorHolder` has a destructor and no copy or move of its own, so the moved
  leaf keeps the pointer to an array that the old one frees. `SpectatorLists` has
  its leaves from the start.
* Windows of a player who leaves keep their references on browsed fields.
* Refreshing a paralysis leaves in the list a haste that has expired.
* What a spectator is shown when he joins waits in his buffer for a sweep, so messages
  copied to him may come first, and what the caster had on its way may be shown again.
* `ProtocolSpectator::parsePacket` reads `player` on the network thread, which the
  dispatcher may be setting to null (`protocolspectator.cpp:345`).
* `AcceptNothing`: a trade accepted without a counter-offer dereferences null.

## 7. What is not modelled

`PROJECT.json` lists every part with its reason. The map covers a few percent of the
118 000 lines under `src`, and could not honestly cover many more: 16 000 are
generated protobuf code, 19 000 the Lua binding (one argument-checking wrapper per
method, with no state of its own), and most of the rest reads or writes one
message, one row, one XML attribute or one formula. What was chosen is the code
where state outlives a call and is shared.

* *Pure functions and formats*: message layout, cryptography, file formats,
  damage and experience formulas, `mainLoader`, configuration.
* *The Lua binding and the scripts behind it*: a hook that may refuse, or that removes
  something in the middle of a handler, is a choice in the models.
* *Single steps on the dispatcher, whose state is in one place*: houses and beds, chat,
  guilds and VIP lists, store and quests, raids, bestiary, charms and imbuements,
  damage in combat.
* *Replays*: a stream read from a file, one client, no state shared. Of live casts, what
  spectators say and what they are shown of the world when they join.
* *Status and login protocols*: one request, one answer, no state between them.
* *A crash between a market row and the player's save.* `Market` has no crashes and
  `Saving` has no market; the combination is the hazard at `game.cpp:7755`.

Some models leave out one case of a hazard they are about:

* `Scheduler` lets ids wrap around but assumes (`IdIsFree`) that an id is not issued
  again while an event that had it is queued: no event outlives 2^32 later ones.
* `Decay` only meets whole seconds, the unit of `items.xml` and of every script under
  `data`. Then less than a turn left is nothing left, and the branches of `checkDecay`
  that round and move an item to another bucket (`game.cpp:6591`-`6599`), although
  modelled, are never taken.
* `Walking` says in which slot the timer of an action is. That a handler already
  under way begins with `setNextActionTask(nullptr)`, and so stops the action put off
  after it (`game.cpp:989`, `2674`), is a step of the code, and no property forbids it.
* `Creatures` visits the spectators of a place in one order, although a
  `SpectatorHashSet` has any.

Four hazards in `PROJECT.json` have no property, each with the reason: besides that
crash, `isConnecting` left set (`protocolgame.cpp:215`), the raw item pointer of a
quick loot put off (`game.cpp:4583`), and the null item of a trade
(`luascript.cpp:715`). In each the code simply has no defence that a property
could state.

## 8. The plan

Done first, because everything else rests on it: the three threads, their
composition and shutdown. Then the network side (connection, session), the
parts of the game whose state is spread (waiting list, market, trade, party), and the
parts that hold what the world frees or changes under them (creatures and their
lists, decay, spawns, walks, windows, speed, live casts, records in the database). Proved: the
queues, the refinements of scheduler and (but for its fairness) connection, session,
the waiting list, market, trade, party, saving, walks, spawns, decay, speed, windows, the map's lists of
creatures, live casts and the shutdown of the server.

Left, in this order:

1. *Proofs*: the lists and pointers of `Creatures`, whose operations call each other recursively.
2. *Crash and restart*: the market's rows against the saves of the players.
3. *Damage in combat*: a death in the middle of the callbacks that caused it.
4. *Chat, guilds and VIP lists*: who is told of a logout.

Runs are kept to one per question, so a new component comes as a scene of `MCWorld` or
`MCGame` or as part of an existing composition.
