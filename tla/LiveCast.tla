------------------------------ MODULE LiveCast ------------------------------
(***************************************************************************)
(* A player shows his game to spectators (ProtocolGame's live cast,        *)
(* ProtocolSpectator, and the broadcast in Connection).                    *)
(*                                                                         *)
(* Who watches is in a vector of the caster's ProtocolGame, a map of       *)
(* casts, two fields of each spectator, a reference to the Player and a    *)
(* row of the database.  What a spectator sees is what the caster's client *)
(* is sent: a message that begins to be written is handed to the network   *)
(* thread, which copies it to all who watch by then; if it is the network  *)
(* thread that begins to write it, at once, past what waits for it.        *)
(*                                                                         *)
(* Left out: what spectators say, what they are shown of the world when    *)
(* they join, and a client that connects after its release (GameSession).  *)
(***************************************************************************)
EXTENDS Integers, Sequences, FiniteSets, FiniteSetsExt, SequencesExt

CONSTANTS
  Casters,    \* the player's ProtocolGame objects, each connects once
  Viewers,    \* the ProtocolSpectator objects, each logs in once
  MaxShown,   \* bound: things written to the player's clients
  MaxPings,   \* bound: messages for the client alone that are queued
  Off         \* a null pointer, no row

ASSUME LiveCastAssumption ==
  /\ Casters \intersect Viewers = {} /\ Off \notin Casters \union Nat
  /\ MaxShown \in Nat /\ MaxPings \in Nat

VARIABLES
  air  \* of the player: life, refs, client; owner and caster (the ProtocolGames with a
       \* player, and isCaster), listed (liveCasts), spectators, row (the table's, once
       \* all queries have run); watching (the spectators with a player), of (their
       \* client), begun; conn and tasks of each protocol; buffer (outputBuffer), queue
       \* (messageQueue), io (the network thread's handlers).  History:
       \* written, what each spectator has seen, and since when.

Protocols == Casters \union Viewers
Blank == [items |-> << >>, all |-> FALSE]

\* The player is in the world without a client, as after a lost connection in a fight.
LiveCastInit ==
  air = [life |-> "in", refs |-> 1, client |-> Off, owner |-> {}, caster |-> {},
         listed |-> Off, spectators |-> [c \in Casters |-> {}], row |-> Off,
         watching |-> {}, of |-> [v \in Viewers |-> Off], begun |-> {},
         conn |-> [p \in Protocols |-> "open"], tasks |-> [p \in Protocols |-> << >>],
         buffer |-> [c \in Casters |-> Blank], queue |-> [c \in Casters |-> << >>],
         io |-> << >>, written |-> 0,
         seen |-> [v \in Viewers |-> << >>], since |-> [v \in Viewers |-> 0]]

Open(u, p) == u.conn[p] = "open"
Handed(u, p, t) == [u EXCEPT !.tasks[p] = Append(@, t)]

\* Connection::close.  Closed again it posts one more release, which finds nothing to do.
Disconnected(u, p) ==
  IF Open(u, p) THEN [Handed(u, p, "release") EXCEPT !.conn[p] = "closed"] ELSE u

-----------------------------------------------------------------------------
(* Messages: the items written to it, and isBroadcastMsg *)

\* Connection::broadcastMessage, on the network thread
Broadcast(u, c, items) ==
  [u EXCEPT !.seen = [v \in Viewers |->
     IF v \in u.spectators[c] /\ Open(u, v) THEN @[v] \o items ELSE @[v]]]

\* Connection::send, and internalSend if nothing is being written
Sent(u, c, m) ==
  LET queued == [u EXCEPT !.queue[c] = Append(@, m)]
  IN CASE ~Open(u, c) -> u
       [] Open(u, c) /\ u.queue[c] = << >> /\ m.all ->
            [queued EXCEPT !.io = Append(@, [do |-> "broadcast", client |-> c, items |-> m.items])]
       [] OTHER -> queued

\* Protocol::getOutputBuffer and ProtocolGame::writeToOutputBuffer: what does not fit
\* goes into a new message.
Wrote(u, c, fits) ==
  LET v == IF fits THEN u ELSE [Sent(u, c, u.buffer[c]) EXCEPT !.buffer[c] = Blank]
  IN [v EXCEPT !.written = @ + 1,
               !.buffer[c] = [items |-> Append(@.items, v.written + 1),
                              all |-> @.all \/ c \in v.caster]]

\* OutputMessagePool::sendAll, for one of the protocols
Swept(u, c) == [Sent(u, c, u.buffer[c]) EXCEPT !.buffer[c] = Blank]

\* (Mutant: only what send() begins to write is handed on.)
NextWritten_Silent(u, c) == [u EXCEPT !.queue[c] = Tail(@)]

\* Connection::onWriteOperation without an error, and the next internalSend
NextWritten(u, c) ==
  LET v == [u EXCEPT !.queue[c] = Tail(@)]
      next == Head(v.queue[c])
  IN IF v.queue[c] # << >> /\ next.all THEN Broadcast(v, c, next.items) ELSE v

-----------------------------------------------------------------------------
(* Casts *)

\* ProtocolGame::removeSpectator, and what ProtocolSpectator gives back
ViewerLeft(u, v) ==
  IF v \notin u.watching THEN u
  ELSE LET c == u.of[v]
       IN [u EXCEPT !.spectators[c] = @ \ {v}, !.watching = @ \ {v}, !.refs = @ - 1,
                    !.row = IF v \in u.spectators[c] /\ @ # Off
                            THEN Cardinality(u.spectators[c] \ {v}) ELSE @]

\* ProtocolSpectator::onLiveCastStop
CastEnded(u, v) ==
  Disconnected(
    IF v \in u.watching THEN [u EXCEPT !.watching = @ \ {v}, !.refs = @ - 1] ELSE u, v)

\* ProtocolGame::stopLiveCast
CastStopped(u, c) ==
  IF c \notin u.caster THEN u
  ELSE FoldSet(LAMBDA v, w : CastEnded(w, v),
               [u EXCEPT !.spectators[c] = {}, !.caster = @ \ {c}, !.listed = Off, !.row = Off],
               u.spectators[c])

\* ProtocolGame::startLiveCast: neither the map nor the table takes a second one.
CastStarted(u, c) ==
  [u EXCEPT !.caster = @ \union {c},
            !.listed = IF @ = Off THEN c ELSE @, !.row = IF @ = Off THEN 0 ELSE @]

\* ProtocolGame::release
ClientReleased(u, c) ==
  LET v == CastStopped(u, c)
  IN IF c \in v.owner /\ v.client = c
     THEN [v EXCEPT !.client = Off, !.refs = @ - 1, !.owner = @ \ {c}] ELSE v

-----------------------------------------------------------------------------
(* The dispatcher *)

\* ProtocolGame::connect
Connect(c) ==
  /\ c \notin air.begun /\ air.life = "in" /\ air.client = Off
  /\ Open(air, c) \/ air.tasks[c] # << >>
  /\ air' = [air EXCEPT !.begun = @ \union {c}, !.owner = @ \union {c},
                        !.client = c, !.refs = @ + 1]

\* What happens in the game is shown to the client.
Write(c) ==
  /\ air.client = c /\ air.written < MaxShown
  /\ \E fits \in BOOLEAN :
       /\ air.buffer[c] = Blank => fits
       /\ air' = Wrote(air, c, fits)

\* ProtocolGameBase::sendPing of one who casts
Ping(c) ==
  /\ air.client = c /\ c \in air.caster
  /\ Cardinality({i \in DOMAIN air.queue[c] : air.queue[c][i] = Blank}) < MaxPings
  /\ air' = Sent(air, c, Blank)

Sweep(c) ==
  /\ c \in air.owner /\ air.buffer[c] # Blank
  /\ air' = Swept(air, c)

\* Player::startLiveCast; the new channel is the first thing shown.
StartCast(c) ==
  /\ air.client = c /\ c \notin air.caster /\ air.life = "in" /\ air.written < MaxShown
  /\ \E fits \in BOOLEAN :
       /\ air.buffer[c] = Blank => fits
       /\ air' = Wrote(CastStarted(air, c), c, fits)

StopCast(c) ==
  /\ air.client = c /\ c \in air.caster
  /\ air' = CastStopped(air, c)

\* ProtocolGame::logout that nothing forbids, of one who is dead too
LogOff(c) ==
  /\ air.client = c
  /\ air' = [Disconnected(CastStopped(air, c), c) EXCEPT
               !.life = IF @ = "in" THEN "removed" ELSE @]

\* Game::removeCreature of one who died, and Game::cleanup
Die == air.life = "in" /\ air' = [air EXCEPT !.life = "removed"]
Cleanup == air.life = "removed" /\ air' = [air EXCEPT !.life = "cleaned", !.refs = @ - 1]

\* ProtocolSpectator::login: refused too if the version or the password is another, or
\* if twenty watch.
LoggedIn(u, v) ==
  LET c == u.listed
      watchers == u.spectators[c] \union {v}
  IN {Disconnected(u, v)} \union
     (IF u.life = "in" /\ c \in u.caster
      THEN {[u EXCEPT !.refs = @ + 1, !.watching = @ \union {v}, !.of[v] = c,
                      !.spectators[c] = watchers, !.since[v] = u.written,
                      !.row = IF @ = Off THEN Off ELSE Cardinality(watchers)]}
      ELSE {})

\* The next task of a protocol.  Those of different protocols come in any order.
RunTask(p) ==
  /\ air.tasks[p] # << >>
  /\ LET t == Head(air.tasks[p])
         u == [air EXCEPT !.tasks[p] = Tail(@)]
     IN \/ t = "login" /\ air' \in LoggedIn(u, p)
        \/ t = "logout" /\ air' = Disconnected(ViewerLeft(u, p), p)   \* ProtocolSpectator::logout
        \/ t = "stop" /\ air' = CastStopped(u, p)
        \/ t = "release" /\ air' = IF p \in Casters THEN ClientReleased(u, p) ELSE ViewerLeft(u, p)

-----------------------------------------------------------------------------
(* The network thread *)

\* ProtocolSpectator::onRecvFirstMessage
FirstPacket(v) ==
  /\ Open(air, v) /\ v \notin air.begun
  /\ air' = [Handed(air, v, "login") EXCEPT !.begun = @ \union {v}]

\* ProtocolSpectator::parsePacket.  (It reads the player that the dispatcher may be
\* taking from it; the model takes the reading for one step.  Bound: one logout pending.)
ViewerPacket(v) ==
  /\ Open(air, v) /\ v \in air.watching
  /\ IF air.life = "in"
     THEN air.tasks[v] = << >> /\ air' = Handed(air, v, "logout")
     ELSE air' = Disconnected(air, v)

\* ProtocolGame::parsePacket of one who is dead.  (Bound: one such packet is pending.)
ClientPacket(c) ==
  /\ Open(air, c) /\ c \in air.owner /\ air.life # "in" /\ air.tasks[c] = << >>
  /\ air' = Handed(air, c, "stop")

\* The peer goes, or times out.
HangUp(p) == Open(air, p) /\ air' = Disconnected(air, p)

\* A write ends, and its handler waits for its turn.
WriteEnds(c) ==
  /\ air.queue[c] # << >>
  /\ \A i \in DOMAIN air.io : ~(air.io[i].do = "written" /\ air.io[i].client = c)
  /\ air' = [air EXCEPT !.io = Append(@, [do |-> "written", client |-> c])]

\* io_service.run: the next handler; a write may have failed.
RunHandler ==
  /\ air.io # << >>
  /\ LET h == Head(air.io)
         u == [air EXCEPT !.io = Tail(@)]
     IN \/ h.do = "broadcast" /\ air' = Broadcast(u, h.client, h.items)
        \/ h.do = "written" /\ air' = NextWritten(u, h.client)
        \/ h.do = "written" /\ air' = Disconnected([u EXCEPT !.queue[h.client] = << >>], h.client)

LiveCastNext ==
  \/ \E c \in Casters : \/ Connect(c) \/ Write(c) \/ Ping(c) \/ Sweep(c)
                        \/ StartCast(c) \/ StopCast(c) \/ LogOff(c)
                        \/ ClientPacket(c) \/ WriteEnds(c)
  \/ \E v \in Viewers : FirstPacket(v) \/ ViewerPacket(v)
  \/ \E p \in Protocols : RunTask(p) \/ HangUp(p)
  \/ Die \/ Cleanup \/ RunHandler

\* The player and his casts from then on.
LiveCastSpec == LiveCastInit /\ [][LiveCastNext]_air

-----------------------------------------------------------------------------

\* Who watches is the same everywhere it is kept: nobody watches a cast that is over, a
\* cast belongs to the player's client, each spectator has a reference of his own, and
\* the table has the cast with its number of spectators.
WatchersAgree ==
  /\ air.caster = IF air.listed = Off THEN {} ELSE {air.listed}
  /\ air.caster \subseteq air.owner \intersect {air.client}
  /\ \A c \in Casters :
       air.spectators[c] = {v \in air.watching : air.of[v] = c} /\
       (air.spectators[c] # {} => c \in air.caster)
  /\ air.refs = (IF air.life \in {"in", "removed"} THEN 1 ELSE 0)
                + (IF air.client = Off THEN 0 ELSE 1) + Cardinality(air.watching)
  /\ air.row = IF air.listed = Off THEN Off ELSE Cardinality(air.spectators[air.listed])

\* The lists of items on their way from a client to those who watch: handed to the
\* network thread, queued behind the message being written, and buffered.
OnItsWay(c) ==
  [i \in DOMAIN air.io |->
     IF air.io[i].do = "broadcast" /\ air.io[i].client = c THEN air.io[i].items ELSE << >>]
  \o [i \in DOMAIN air.queue[c] |->
        IF i > 1 /\ air.queue[c][i].all THEN air.queue[c][i].items ELSE << >>]
  \o <<IF Open(air, c) /\ air.buffer[c].all THEN air.buffer[c].items ELSE << >>>>

\* What stands before s[y] and t[y] is less.
Rising(s) == \A x, y \in DOMAIN s : x < y => s[x] < s[y]
Below(s, t) == \A x \in DOMAIN s, y \in DOMAIN t : s[x] < t[y]
AllRising(lists) ==
  \A i \in DOMAIN lists : /\ Rising(lists[i])
                          /\ \A j \in DOMAIN lists : i < j => Below(lists[i], lists[j])

\* A spectator sees what the client is shown in its order and nothing twice; of what was
\* written since he joined nothing is left out, as long as the client's connection lasts.
SeenInOrder ==
  \A v \in air.watching : Open(air, v) =>
    LET c == air.of[v]
        lists == <<air.seen[v]>> \o OnItsWay(c)
        new == {n \in UNION {ToSet(lists[i]) : i \in DOMAIN lists} : n > air.since[v]}
    IN /\ AllRising(lists)
       /\ \A n \in new : air.since[v] + 1 .. n \subseteq new
       /\ Open(air, c) => new = air.since[v] + 1 .. air.written

\* A live cast is kept in one piece: who watches, and what they see.
CastKept == WatchersAgree /\ SeenInOrder
=============================================================================
