---------------------------- MODULE GameSession -----------------------------
(***************************************************************************)
(* Several clients log in with the same character (protocolgame.cpp): the  *)
(* game connections, their ProtocolGame objects and the Player object.     *)
(* Packets, closes and the last reference to a connection happen on the    *)
(* network thread and reach the game as tasks for the dispatcher; a login  *)
(* that finds the character in the world replaces its client, one second   *)
(* later if that client has to be disconnected first.                      *)
(*                                                                         *)
(* A connection is the one of ConnectionLife; each time it is closed again *)
(* it posts one more release.  Each login creates at most one Player,      *)
(* which is named after the protocol that created it.                      *)
(***************************************************************************)
EXTENDS Integers, Sequences

CONSTANTS Protocols,   \* the connections' protocols, each logs in once
          Chatty,      \* those whose packets after the login are explored
          None         \* a null pointer

ASSUME NoneAssumption == None \notin Protocols

Players == Protocols

VARIABLES conn,               \* the connection of each protocol
          begun,              \* protocols whose first packet was parsed
          tasks,              \* the dispatcher's list
          timers,             \* eventConnect: <<protocol, player>> pairs
          owner,              \* ProtocolGame::player
          acceptPackets,      \* protocols that parse packets
          bufferedProtocols,  \* the autosend list (outputmessage.cpp)
          sweeps,             \* sendAll events scheduled
          online,             \* the Player in the world under this name
          removed,            \* players taken out of the world
          toRelease,          \* those whose reference the game still holds
          client,             \* Player::client
          isConnecting,       \* players waiting for a replacing client
          refs                \* Player reference counts

vars == <<conn, begun, tasks, timers, owner, acceptPackets, bufferedProtocols,
          sweeps, online, removed, toRelease, client, isConnecting, refs>>

sessionVars == <<owner, acceptPackets, client, isConnecting>>
worldVars   == <<online, removed, toRelease>>
autosend    == <<bufferedProtocols, sweeps>>

Init ==
    /\ conn = [p \in Protocols |-> "open"] /\ begun = {}
    /\ tasks = <<>> /\ timers = {}
    /\ owner = [p \in Protocols |-> None] /\ acceptPackets = {}
    /\ bufferedProtocols = <<>> /\ sweeps = 0
    /\ online = None /\ removed = {} /\ toRelease = {}
    /\ client = [o \in Players |-> None] /\ isConnecting = {}
    /\ refs = [o \in Players |-> 0]

Task(what, p, o) == [do |-> what, protocol |-> p, player |-> o]
Release(p) == Task("release", p, None)
Queued(t) == \E i \in DOMAIN tasks : tasks[i] = t

\* Protocol::disconnect: through a weak pointer, and close() posts a release.
Disconnected(p) == IF conn[p] = "gone" THEN conn ELSE [conn EXCEPT ![p] = "closed"]
Releases(p) == IF conn[p] = "gone" THEN <<>> ELSE <<Release(p)>>

\* addProtocolToAutosend: the first one listed schedules a sweep.
AddToAutosend_Unswept(p) ==
    bufferedProtocols' = Append(bufferedProtocols, p) /\ UNCHANGED sweeps

AddToAutosend(p) ==
    /\ bufferedProtocols' = Append(bufferedProtocols, p)
    /\ sweeps' = IF bufferedProtocols = <<>> THEN sweeps + 1 ELSE sweeps

\* removeProtocolFromAutosend: the first one found is overwritten by the last.
RemoveFromAutosend(p) ==
    LET list == bufferedProtocols
        places == {i \in DOMAIN list : list[i] = p}
        i == CHOOSE i \in places : \A j \in places : i <= j
    IN  /\ bufferedProtocols' =
               IF places = {} THEN list
               ELSE SubSeq([list EXCEPT ![i] = list[Len(list)]], 1, Len(list) - 1)
        /\ UNCHANGED sweeps
-----------------------------------------------------------------------------
(* The network thread.                                                     *)

\* onRecvFirstMessage, when it accepts: otherwise it is a hang-up.
FirstPacket(p) ==
    /\ conn[p] = "open" /\ p \notin begun
    /\ begun' = begun \cup {p}
    /\ tasks' = Append(tasks, Task("login", p, None))
    /\ UNCHANGED <<conn, timers, sessionVars, autosend, worldVars, refs>>

\* parsePacket, which runs inside the connection's lock: a task with the raw
\* Player pointer, followed by the logout if that is what the client wants.
\* At most one packet of a client is explored as pending.
ClientPacket(p) ==
    /\ p \in Chatty
    /\ conn[p] = "open" /\ p \in acceptPackets /\ owner[p] # None
    /\ ~\E o \in Players : Queued(Task("packet", p, o))
    /\ \/ /\ owner[p] \notin removed
          /\ tasks' = Append(tasks, Task("packet", p, owner[p]))
       \/ tasks' = tasks \o <<Task("packet", p, owner[p]), Task("logout", p, None)>>
    /\ UNCHANGED <<conn, begun, timers, sessionVars, autosend, worldVars, refs>>

\* The peer goes, times out or floods: close() on the network thread.
HangUp(p) ==
    /\ conn[p] = "open"
    /\ conn' = [conn EXCEPT ![p] = "closed"]
    /\ tasks' = Append(tasks, Release(p))
    /\ UNCHANGED <<begun, timers, sessionVars, autosend, worldVars, refs>>

\* The last handler of a closed connection ends; it may have closed it again.
Free(p) ==
    /\ conn[p] = "closed"
    /\ conn' = [conn EXCEPT ![p] = "gone"]
    /\ tasks' \in {tasks, Append(tasks, Release(p))}
    /\ UNCHANGED <<begun, timers, sessionVars, autosend, worldVars, refs>>
-----------------------------------------------------------------------------
(* The dispatcher thread: tasks of a protocol.                             *)

IsNext(what, p) == tasks # <<>> /\ Head(tasks).do = what /\ Head(tasks).protocol = p

\* The task that runs leaves the list; what it posts goes to the end.
Done(posted) == tasks' = Tail(tasks) \o posted

Drops(p, posted) == conn' = Disconnected(p) /\ Done(posted \o Releases(p))

\* login() of a name that is not in the world: a new Player for protocol p.
LoginNew(p) ==
    /\ IsNext("login", p) /\ online = None
    /\ owner' = [owner EXCEPT ![p] = p]
    /\ client' = [client EXCEPT ![p] = p]
    /\ UNCHANGED <<begun, timers, isConnecting, removed, toRelease>>
    /\ \/ \* preloadPlayer fails, before anything counts as a reference
          /\ Drops(p, <<>>)
          /\ UNCHANGED <<acceptPackets, autosend, online, refs>>
       \/ \* banned, closed, waiting list, could not be loaded or placed
          /\ Drops(p, <<>>)
          /\ refs' = [refs EXCEPT ![p] = 1]
          /\ UNCHANGED <<acceptPackets, autosend, online>>
       \/ \* in the world, which holds a reference of its own
          /\ online' = p
          /\ refs' = [refs EXCEPT ![p] = 2]
          /\ acceptPackets' = acceptPackets \cup {p}
          /\ AddToAutosend(p)
          /\ Done(<<>>)
          /\ UNCHANGED conn

MayAttach_Anyway(p, o) == o = online

\* connect(), whether from login() or from its timer.
MayAttach(p, o) == o = online /\ client[o] = None

AttachRefs_None(o) == refs
AttachRefs(o) == [refs EXCEPT ![o] = @ + 1]

Attached(p, o) ==
    /\ owner' = [owner EXCEPT ![p] = o]
    /\ client' = [client EXCEPT ![o] = p]
    /\ isConnecting' = isConnecting \ {o}
    /\ refs' = AttachRefs(o)
    /\ acceptPackets' = acceptPackets \cup {p}
    /\ Done(<<>>)
    /\ UNCHANGED conn

Connect_Silent(p, o) ==
    IF MayAttach(p, o) /\ conn[p] # "gone" THEN Attached(p, o)
    ELSE Done(<<>>) /\ UNCHANGED <<conn, sessionVars, refs>>

Connect(p, o) ==
    IF ~MayAttach(p, o) THEN Drops(p, <<>>) /\ UNCHANGED <<sessionVars, refs>>
    ELSE IF conn[p] = "gone" THEN Done(<<>>) /\ UNCHANGED <<conn, sessionVars, refs>>
    ELSE Attached(p, o)

\* login() of a character in the world, with replaceKickOnLogin: its client is
\* disconnected and replaced after a second, or it has none and is taken over.
LoginReplace(p) ==
    /\ IsNext("login", p) /\ online # None
    /\ AddToAutosend(p)
    /\ IF client[online] # None
       THEN /\ conn' = Disconnected(client[online])
            /\ Done(Releases(client[online]))
            /\ isConnecting' = isConnecting \cup {online}
            /\ timers' = timers \cup {<<p, online>>}
            /\ UNCHANGED <<owner, acceptPackets, client, refs>>
       ELSE Connect(p, online) /\ UNCHANGED timers
    /\ UNCHANGED <<begun, worldVars>>

\* eventConnect: the scheduler puts its task at the front.
ConnectDue(p, o) ==
    /\ <<p, o>> \in timers
    /\ timers' = timers \ {<<p, o>>}
    /\ tasks' = <<Task("connect", p, o)>> \o tasks
    /\ UNCHANGED <<conn, begun, sessionVars, autosend, worldVars, refs>>

RunConnect(p) ==
    /\ IsNext("connect", p)
    /\ Connect(p, Head(tasks).player)
    /\ UNCHANGED <<begun, timers, worldVars, autosend>>

\* release()
RunRelease(p) ==
    /\ IsNext("release", p)
    /\ IF owner[p] # None /\ client[owner[p]] = p
       THEN /\ client' = [client EXCEPT ![owner[p]] = None]
            /\ refs' = [refs EXCEPT ![owner[p]] = @ - 1]
            /\ owner' = [owner EXCEPT ![p] = None]
       ELSE UNCHANGED <<client, refs, owner>>
    /\ RemoveFromAutosend(p)
    /\ Done(<<>>)
    /\ UNCHANGED <<conn, begun, timers, acceptPackets, isConnecting, worldVars>>

\* A packet's task hands the Player to a script.
RunPacket(p) ==
    /\ IsNext("packet", p)
    /\ Done(<<>>)
    /\ UNCHANGED <<conn, begun, timers, sessionVars, autosend, worldVars, refs>>

\* Game::removeCreature, which a second removal does not pass.
RemoveCreature(o) ==
    IF o \in removed THEN UNCHANGED worldVars
    ELSE /\ online' = None
         /\ removed' = removed \cup {o}
         /\ toRelease' = toRelease \cup {o}

\* logout(): without a player nothing happens, and it may be refused.
RunLogout(p) ==
    /\ IsNext("logout", p)
    /\ \/ /\ owner[p] # None
          /\ Drops(p, <<>>)
          /\ RemoveCreature(owner[p])
       \/ /\ owner[p] = None \/ owner[p] \notin removed
          /\ Done(<<>>)
          /\ UNCHANGED <<conn, worldVars>>
    /\ UNCHANGED <<begun, timers, sessionVars, autosend, refs>>
-----------------------------------------------------------------------------
(* The dispatcher thread: what the game does between those tasks.          *)

\* Taken out of the world, its client, if any, being disconnected.
TakenOut(o) ==
    /\ RemoveCreature(o)
    /\ IF client[o] = None THEN UNCHANGED <<conn, tasks>>
       ELSE /\ conn' = Disconnected(client[o])
            /\ tasks' = tasks \o Releases(client[o])
    /\ UNCHANGED <<begun, timers, sessionVars, autosend, refs>>

\* sendPing, after a minute without an answer.
PingTimeout(o) == online = o /\ o \notin isConnecting /\ TakenOut(o)

\* kickPlayer, by an operator or for being idle.
Kick(o) == online = o /\ TakenOut(o)

\* The character dies: it leaves the world, the client stays for a while.
Die(o) ==
    /\ online = o
    /\ RemoveCreature(o)
    /\ UNCHANGED <<conn, begun, tasks, timers, sessionVars, autosend, refs>>

\* Game::cleanup gives up the references of what was removed.
Cleanup ==
    /\ toRelease # {}
    /\ refs' = [o \in Players |-> IF o \in toRelease THEN refs[o] - 1 ELSE refs[o]]
    /\ toRelease' = {}
    /\ UNCHANGED <<conn, begun, tasks, timers, sessionVars, autosend, online, removed>>

\* sendAll on an empty list is not scheduled again; otherwise it sends what
\* has been buffered, which is not modelled, and the number of sweeps stays.
SweepEnds ==
    /\ sweeps > 0 /\ bufferedProtocols = <<>>
    /\ sweeps' = sweeps - 1
    /\ UNCHANGED <<conn, begun, tasks, timers, sessionVars, bufferedProtocols, worldVars, refs>>
-----------------------------------------------------------------------------
RunTask == \E p \in Protocols :
    \/ LoginNew(p) \/ LoginReplace(p) \/ RunConnect(p)
    \/ RunRelease(p) \/ RunPacket(p) \/ RunLogout(p)

Next ==
    \/ \E p \in Protocols : FirstPacket(p) \/ ClientPacket(p) \/ HangUp(p) \/ Free(p)
    \/ RunTask
    \/ \E p \in Protocols, o \in Players : ConnectDue(p, o)
    \/ \E o \in Players : PingTimeout(o) \/ Kick(o) \/ Die(o)
    \/ Cleanup \/ SweepEnds

\* The dispatcher and the scheduler run what they hold.
Fairness ==
    /\ WF_vars(RunTask)
    /\ \A p \in Protocols, o \in Players : WF_vars(ConnectDue(p, o))

Spec == Init /\ [][Next]_vars /\ Fairness
-----------------------------------------------------------------------------
TypeOK ==
    /\ conn \in [Protocols -> {"open", "closed", "gone"}]
    /\ begun \subseteq Protocols
    /\ tasks \in Seq([do : {"login", "connect", "release", "logout", "packet"},
                      protocol : Protocols, player : Players \cup {None}])
    /\ timers \subseteq Protocols \X Players
    /\ owner \in [Protocols -> Players \cup {None}]
    /\ acceptPackets \subseteq Protocols
    /\ bufferedProtocols \in Seq(Protocols) /\ sweeps \in Nat
    /\ online \in Players \cup {None}
    /\ removed \subseteq Players /\ toRelease \subseteq removed
    /\ client \in [Players -> Protocols \cup {None}]
    /\ isConnecting \subseteq Players
    /\ refs \in [Players -> -1 .. 2]

(* A character obeys one client: a protocol acts for a player exactly when *)
(* it is that player's client, so that no packet of a replaced client and  *)
(* no second login can act for it.                                         *)
OneClient ==
    TypeOK /\ \A p \in Protocols, o \in Players : owner[p] = o <=> client[o] = p

(* A Player that the world, a protocol or a packet's task points to has    *)
(* not been deleted: the task carries a raw pointer and relies on the      *)
(* release of its protocol being posted after it.  (The Player of a failed *)
(* preload was never counted.)                                             *)
NoUseAfterFree ==
    /\ online # None => refs[online] > 0
    /\ \A i \in DOMAIN tasks : tasks[i].do = "packet" => refs[tasks[i].player] > 0
    /\ \A p \in acceptPackets : owner[p] # None => refs[owner[p]] > 0

(* The autosend list holds clients that are connected, or whose release is *)
(* still to come wherever the login or the replacing had got to, and it is *)
(* swept as long as it is not empty, also when it was emptied and filled   *)
(* again before the sweep came round.                                      *)
AutosendIsServed ==
    /\ bufferedProtocols # <<>> => sweeps > 0
    /\ \A i \in DOMAIN bufferedProtocols :
           LET p == bufferedProtocols[i] IN conn[p] # "open" => Queued(Release(p))

(* A client that has sent its first packet gets into the world or is       *)
(* disconnected; none is left waiting, also when two replace the same.     *)
EveryLoginAnswered ==
    \A p \in Protocols :
        p \in begun /\ conn[p] = "open" ~> p \in acceptPackets \/ conn[p] # "open"

AllOver == /\ tasks = <<>> /\ timers = {} /\ toRelease = {}
           /\ \A p \in Protocols : conn[p] = "gone"

(* connect() gives up "to prevent leakage of the Player": once the player  *)
(* is out of the world, its clients are gone and nothing is pending,       *)
(* nothing refers to it any more.                                          *)
PlayerNotLeaked == AllOver => \A o \in removed : refs[o] = 0
=============================================================================
