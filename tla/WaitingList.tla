----------------------------- MODULE WaitingList -----------------------------
(***************************************************************************)
(* The queue in front of a full server (engine/src/waitlist.cpp), as seen  *)
(* by ProtocolGame::login: a client that is refused is told when to retry  *)
(* and keeps its place; premium accounts wait in a list of their own that  *)
(* comes first.  Time is counted in ticks of five seconds, and an entry    *)
(* carries the ticks left before its timeout, which may have passed.       *)
(***************************************************************************)
EXTENDS Integers, Sequences, FiniteSets, SequencesExt

CONSTANTS Clients,    \* the characters that want to play
          Premium,    \* those with a premium account
          Staff,      \* those who can always log in
          Quitters,   \* those who may stop retrying
          MaxPlayers  \* the configuration's maxPlayers; 0 means no limit

ASSUME ClientAssumption ==
    Premium \subseteq Clients /\ Staff \subseteq Clients /\ Quitters \subseteq Clients
ASSUME MaxPlayersAssumption == MaxPlayers \in Nat

VARIABLES priorityWaitList, waitList,  \* entries, in order
          players,                     \* who is online
          gone                         \* who has stopped trying

waitVars == <<priorityWaitList, waitList, players, gone>>

Guids(list) == {list[i].guid : i \in DOMAIN list}
Enlisted == Guids(priorityWaitList) \cup Guids(waitList)

WaitInit ==
    /\ priorityWaitList = <<>> /\ waitList = <<>>
    /\ players = {} /\ gone = {}

\* getTime and getTimeout, in ticks.
GetTime(slot) == IF slot < 5 THEN 1 ELSE IF slot < 10 THEN 2 ELSE IF slot < 20 THEN 4
                 ELSE IF slot < 50 THEN 12 ELSE 24
GetTimeout(slot) == GetTime(slot) + 3
LongPast == -1
-----------------------------------------------------------------------------
\* cleanupList: timeout is a size_t, so timeout - time is never negative and
\* only an entry examined at the very instant of its timeout is dropped.
TimedOut(e) == e.left = 0
ListCleaned(list) ==
    LET Kept[n \in 0 .. Len(list)] ==
            IF n = 0 THEN <<>>
            ELSE IF TimedOut(list[n]) THEN Kept[n - 1] ELSE Append(Kept[n - 1], list[n])
    IN  Kept[Len(list)]

Entry(c, slot) == [guid |-> c, left |-> GetTimeout(slot)]

\* findClient: the lists count as one, the priority list first.
PlaceIn(list, c) == CHOOSE i \in DOMAIN list : list[i].guid = c

Slot(first, second, c) ==
    IF c \in Guids(first) THEN PlaceIn(first, c) ELSE Len(first) + PlaceIn(second, c)

MayEnter(slot) == Cardinality(players) + slot <= MaxPlayers

\* waitList.erase(it), also for an iterator into the priority list: the entry
\* is unlinked from the list it is in, only the lists' size() go wrong.
Erased(list, c) == IF c \in Guids(list) THEN RemoveAt(list, PlaceIn(list, c)) ELSE list

Refreshed(list, c, slot) ==
    [i \in DOMAIN list |-> IF list[i].guid = c THEN Entry(c, slot) ELSE list[i]]

\* login goes on after clientLogin returned true; loading may still fail.
Enters(c) == players' \in {players, players \cup {c}}

\* Logins that do not look at the lists.
Unhindered_Overtakes(c) ==
    c \in Staff \/ MaxPlayers = 0 \/ Cardinality(players) < MaxPlayers

Unhindered(c) ==
    \/ c \in Staff
    \/ MaxPlayers = 0
    \/ priorityWaitList = <<>> /\ waitList = <<>> /\ Cardinality(players) < MaxPlayers

Wants(c) == c \notin players /\ c \notin gone

LoginAtOnce(c) ==
    /\ Wants(c) /\ Unhindered(c)
    /\ Enters(c)
    /\ UNCHANGED <<priorityWaitList, waitList, gone>>

\* clientLogin past its shortcuts: clean both lists, then look for the client.
Retry(c) ==
    LET first  == ListCleaned(priorityWaitList)
        second == ListCleaned(waitList)
        slot   == Slot(first, second, c)
    IN  /\ Wants(c) /\ ~Unhindered(c)
        /\ c \in Guids(first) \cup Guids(second)
        /\ \/ /\ MayEnter(slot)
              /\ priorityWaitList' = Erased(first, c)
              /\ waitList' = Erased(second, c)
              /\ Enters(c)
           \/ /\ ~MayEnter(slot)
              /\ priorityWaitList' = Refreshed(first, c, slot)
              /\ waitList' = Refreshed(second, c, slot)
              /\ UNCHANGED players
        /\ UNCHANGED gone

JoinsPriority(c) == c \in Premium

Enlist(c) ==
    LET first  == ListCleaned(priorityWaitList)
        second == ListCleaned(waitList)
    IN  /\ Wants(c) /\ ~Unhindered(c)
        /\ c \notin Guids(first) \cup Guids(second)
        /\ IF JoinsPriority(c)
           THEN /\ priorityWaitList' = Append(first, Entry(c, Len(first) + 1))
                /\ waitList' = second
           ELSE /\ priorityWaitList' = first
                /\ waitList' = Append(second, Entry(c, Len(first) + Len(second) + 1))
        /\ UNCHANGED <<players, gone>>

ClientLogin(c) == LoginAtOnce(c) \/ Retry(c) \/ Enlist(c)
-----------------------------------------------------------------------------
LeavesGame(c) ==
    /\ c \in players
    /\ players' = players \ {c}
    /\ UNCHANGED <<priorityWaitList, waitList, gone>>

StopsTrying(c) ==
    /\ c \in Quitters /\ Wants(c)
    /\ gone' = gone \cup {c}
    /\ UNCHANGED <<priorityWaitList, waitList, players>>

Aged(list) ==
    [i \in DOMAIN list |->
        [list[i] EXCEPT !.left = IF @ = LongPast THEN LongPast ELSE @ - 1]]

Tick ==
    /\ \E i \in DOMAIN (priorityWaitList \o waitList) :
           (priorityWaitList \o waitList)[i].left # LongPast
    /\ priorityWaitList' = Aged(priorityWaitList)
    /\ waitList' = Aged(waitList)
    /\ UNCHANGED <<players, gone>>

WaitNext ==
    \/ \E c \in Clients : ClientLogin(c) \/ LeavesGame(c) \/ StopsTrying(c)
    \/ Tick

WaitSpec == WaitInit /\ [][WaitNext]_waitVars
-----------------------------------------------------------------------------
\* Those who wait before c; all who wait, when c does not wait himself.
Before(c) ==
    LET all == priorityWaitList \o waitList
    IN  IF c \in Enlisted THEN {all[i].guid : i \in 1 .. PlaceIn(all, c) - 1} ELSE Enlisted

(* Whoever is let in leaves a place for each of those who wait before him, *)
(* so that a lucky moment to retry never costs another one his place.      *)
PlacesAheadKept ==
    [][\A c \in Clients \ Staff : MaxPlayers > 0 /\ c \notin players /\ c \in players' =>
          Cardinality(players') + Cardinality(Before(c) \cap Enlisted') <= MaxPlayers]_waitVars

(* An entry lasts 15 seconds longer than the retry it waits for (the       *)
(* comment at waitlist.cpp:59): when the lists have been cleaned, none is  *)
(* left whose timeout has passed.                                          *)
ExpiredLeave ==
    [][\A c \in Clients : Retry(c) \/ Enlist(c) =>
          \A i \in DOMAIN (priorityWaitList' \o waitList') :
              (priorityWaitList' \o waitList')[i].left > 0]_waitVars
=============================================================================
