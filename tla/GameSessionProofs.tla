------------------------- MODULE GameSessionProofs -------------------------
(***************************************************************************)
(* One client for each character, no Player used after it was deleted, and *)
(* an autosend list that is served, for any number of clients; and, in     *)
(* parts of their own, a place for each of those who wait in front of a    *)
(* full server, and open windows that show what is there and in reach, for *)
(* any players, bags and fields.                                           *)
(*                                                                         *)
(* The first three rest on the order of the dispatcher's list (Orderly): a *)
(* packet's task comes before the release of its protocol, a login before  *)
(* the release that its closed connection posted, and a protocol has one   *)
(* attempt to get into the game, in the list or on its way there.  Until   *)
(* it has made it, it owns no player and takes no packets (Undecided);     *)
(* nobody else can know the Player it will create (Unborn).  Who takes     *)
(* packets owns a Player that is, or was, in the world (Acting), and whose *)
(* references are all counted (Counted).                                   *)
(***************************************************************************)
EXTENDS GameSession, WaitingList, Windows, TLAPS, FiniteSetTheorems, WellFoundedInduction,
        NaturalsInduction, SequenceTheorems

Whats == {"login", "connect", "release", "logout", "packet"}
Tasks == {t \in [do : Whats, protocol : Protocols, player : Players \cup {None}] :
            t.do = "connect" => t.player \in Players}

Typed ==
    /\ conn \in [Protocols -> {"open", "closed", "gone"}]
    /\ begun \subseteq Protocols
    /\ tasks \in Seq(Tasks)
    /\ timers \subseteq Protocols \X Players
    /\ owner \in [Protocols -> Players \cup {None}]
    /\ acceptPackets \subseteq Protocols
    /\ bufferedProtocols \in Seq(Protocols) /\ sweeps \in Nat
    /\ online \in Players \cup {None}
    /\ removed \subseteq Players /\ toRelease \subseteq removed
    /\ client \in [Players -> Protocols \cup {None}]
    /\ isConnecting \subseteq Players
    /\ refs \in [Players -> Int]

-----------------------------------------------------------------------------
(* The order of a list of tasks.                                           *)

IsTask(t, what, p) == t.do = what /\ t.protocol = p
Attempts(t, p) == t.do \in {"login", "connect"} /\ t.protocol = p
HasAttempt(ts, p) == \E i \in DOMAIN ts : Attempts(ts[i], p)
HasLogin(ts, p) == \E i \in DOMAIN ts : IsTask(ts[i], "login", p)
HasRelease(ts, p) == \E i \in DOMAIN ts : ts[i] = Release(p)

\* A release follows the end of its connection, which no packet follows.
Orderly(ts, cn, ow, acc) ==
    /\ \A i \in DOMAIN ts : ts[i].do = "release" => cn[ts[i].protocol] # "open"
    /\ \A i \in DOMAIN ts : ts[i].do = "logout" => ts[i].protocol \in acc
    /\ \A i \in DOMAIN ts : ts[i].do = "packet" =>
          /\ ts[i].protocol \in acc
          /\ ts[i].player \in Players /\ ow[ts[i].protocol] = ts[i].player
          /\ \A j \in DOMAIN ts : j < i => ~IsTask(ts[j], "release", ts[i].protocol)
    /\ \A i \in DOMAIN ts : ts[i].do = "login" /\ cn[ts[i].protocol] # "open" =>
          \E j \in DOMAIN ts : i < j /\ ts[j] = Release(ts[i].protocol)
    /\ \A p \in Protocols : \A i, j \in DOMAIN ts :
          Attempts(ts[i], p) /\ Attempts(ts[j], p) => i = j

-----------------------------------------------------------------------------
Undecided(p) == p \notin begun \/ HasAttempt(tasks, p) \/ \E o \in Players : <<p, o>> \in timers
Unborn(p) == p \notin begun \/ HasLogin(tasks, p)

\* One attempt: yet to come, in the list, or in a timer.
OneAttempt ==
    /\ \A p \in Protocols : HasAttempt(tasks, p) => p \in begun
    /\ \A p \in Protocols, o \in Players :
          <<p, o>> \in timers => p \in begun /\ ~HasAttempt(tasks, p)
    /\ \A p \in Protocols, o \in Players, q \in Players :
          <<p, o>> \in timers /\ <<p, q>> \in timers => o = q

Waiting ==
    /\ \A p \in Protocols : Undecided(p) => owner[p] = None /\ p \notin acceptPackets
    /\ \A p \in Protocols : Unborn(p) =>
          /\ client[p] = None /\ refs[p] = 0 /\ online # p /\ p \notin removed
          /\ \A i \in DOMAIN bufferedProtocols : bufferedProtocols[i] # p

Agreed == \A p \in Protocols, o \in Players : owner[p] = o <=> client[o] = p

\* Who takes packets owns a Player that is or was in the world.
Acting ==
    /\ online \notin removed
    /\ \A p \in acceptPackets : owner[p] # None => owner[p] = online \/ owner[p] \in removed

\* The references: a client's, and the world's until cleanup.
Held(o) == (IF client[o] # None THEN 1 ELSE 0)
           + (IF online = o \/ o \in toRelease THEN 1 ELSE 0)
Counted ==
    \A o \in Players :
        \/ refs[o] = Held(o)
        \/ refs[o] = Held(o) - 1 /\ online # o /\ o \notin removed

\* The autosend list holds each protocol once.
Swept ==
    /\ bufferedProtocols # <<>> => sweeps > 0
    /\ \A i, j \in DOMAIN bufferedProtocols : bufferedProtocols[i] = bufferedProtocols[j] => i = j
    /\ \A i \in DOMAIN bufferedProtocols :
          conn[bufferedProtocols[i]] # "open" => HasRelease(tasks, bufferedProtocols[i])

Inv ==
    /\ Typed /\ Orderly(tasks, conn, owner, acceptPackets)
    /\ OneAttempt /\ Waiting /\ Agreed /\ Acting /\ Counted /\ Swept
-----------------------------------------------------------------------------
(* Lists of tasks.                                                         *)

\* What ends of a list of tasks are.
LEMMA TaskLists ==
    ASSUME NEW ts \in Seq(Tasks)
    PROVE  /\ DOMAIN ts = 1..Len(ts) /\ Len(ts) \in Nat
           /\ \A i \in DOMAIN ts : ts[i] \in Tasks
           /\ ts # <<>> => /\ Head(ts) = ts[1] /\ 1 \in DOMAIN ts
                           /\ Tail(ts) \in Seq(Tasks) /\ Len(Tail(ts)) = Len(ts) - 1
                           /\ \A i \in 1..Len(Tail(ts)) : Tail(ts)[i] = ts[i + 1]
  OBVIOUS

\* What a list is with another behind it.
LEMMA Joined ==
    ASSUME NEW ts \in Seq(Tasks), NEW us \in Seq(Tasks)
    PROVE  /\ ts \o us \in Seq(Tasks) /\ Len(ts \o us) = Len(ts) + Len(us)
           /\ \A i \in 1..Len(ts) : (ts \o us)[i] = ts[i]
           /\ \A i \in 1..Len(us) : (ts \o us)[Len(ts) + i] = us[i]
  OBVIOUS

\* A release is a task like others.
LEMMA ReleaseIsTask ==
    ASSUME NEW p \in Protocols
    PROVE  /\ Release(p) \in Tasks /\ Release(p).do = "release" /\ Release(p).protocol = p
  BY DEF Release, Task, Tasks, Whats

\* The order of a list stays when its first task is taken off.
LEMMA TailOrderly ==
    ASSUME NEW ts \in Seq(Tasks), ts # <<>>, NEW cn, NEW ow, NEW acc, Orderly(ts, cn, ow, acc)
    PROVE  Orderly(Tail(ts), cn, ow, acc)
<1> DEFINE us == Tail(ts)
<1>1. /\ DOMAIN us = 1..Len(us) /\ Len(us) \in Nat /\ DOMAIN ts = 1..Len(ts) /\ Len(ts) \in Nat
      /\ Len(us) = Len(ts) - 1
      /\ \A i \in DOMAIN us : us[i] = ts[i + 1] /\ i + 1 \in DOMAIN ts
  BY TaskLists
<1> HIDE DEF us
<1>2. \A i \in DOMAIN us : us[i].do = "release" => cn[us[i].protocol] # "open"
  BY <1>1 DEF Orderly
<1>3. \A i \in DOMAIN us : us[i].do = "logout" => us[i].protocol \in acc
  BY <1>1 DEF Orderly
<1>4. ASSUME NEW i \in DOMAIN us, us[i].do = "packet"
      PROVE  /\ us[i].protocol \in acc
             /\ us[i].player \in Players /\ ow[us[i].protocol] = us[i].player
             /\ \A j \in DOMAIN us : j < i => ~IsTask(us[j], "release", us[i].protocol)
  <2>1. ts[i + 1].do = "packet"
    BY <1>1, <1>4
  <2>2. \A j \in DOMAIN us : j < i => ~IsTask(ts[j + 1], "release", ts[i + 1].protocol)
    BY <1>1, <2>1 DEF Orderly
  <2> QED BY <1>1, <2>1, <2>2 DEF Orderly
<1>5. ASSUME NEW i \in DOMAIN us, us[i].do = "login", cn[us[i].protocol] # "open"
      PROVE  \E j \in DOMAIN us : i < j /\ us[j] = Release(us[i].protocol)
  <2>1. PICK j \in DOMAIN ts : i + 1 < j /\ ts[j] = Release(ts[i + 1].protocol)
    BY <1>1, <1>5 DEF Orderly
  <2>2. j - 1 \in DOMAIN us /\ i < j - 1 /\ us[j - 1] = ts[(j - 1) + 1] /\ (j - 1) + 1 = j
    BY <1>1, <2>1
  <2> QED BY <1>1, <2>1, <2>2
<1>6. \A p \in Protocols : \A i, j \in DOMAIN us : Attempts(us[i], p) /\ Attempts(us[j], p) => i = j
  <2> TAKE p \in Protocols
  <2> TAKE i, j \in DOMAIN us
  <2>1. Attempts(ts[i + 1], p) /\ Attempts(ts[j + 1], p) => i + 1 = j + 1
    BY <1>1 DEF Orderly
  <2> QED BY <1>1, <2>1
<1> QED BY <1>2, <1>3, <1>4, <1>5, <1>6 DEF Orderly, us

\* A release may be posted once its connection is not open any more.
LEMMA ReleaseOrderly ==
    ASSUME NEW ts \in Seq(Tasks), NEW cn, NEW cn2, NEW ow, NEW acc, Orderly(ts, cn, ow, acc),
           NEW q \in Protocols, cn2[q] # "open", \A p \in Protocols : p # q => cn2[p] = cn[p]
    PROVE  Orderly(ts \o <<Release(q)>>, cn2, ow, acc)
<1> DEFINE us == ts \o <<Release(q)>>
           n == Len(ts)
<1>1. /\ <<Release(q)>> \in Seq(Tasks) /\ Len(<<Release(q)>>) = 1 /\ <<Release(q)>>[1] = Release(q)
  BY ReleaseIsTask
<1>2. /\ DOMAIN us = 1..(n + 1) /\ DOMAIN ts = 1..n /\ n \in Nat
      /\ \A i \in DOMAIN ts : us[i] = ts[i] /\ i \in DOMAIN us
      /\ us[n + 1] = Release(q) /\ n + 1 \in DOMAIN us
      /\ \A i \in DOMAIN us : i \in DOMAIN ts \/ i = n + 1
      /\ \A i \in DOMAIN us : us[i] \in Tasks
  BY <1>1, Joined, TaskLists
<1>3. us[n + 1].do = "release" /\ us[n + 1].protocol = q /\ us[n + 1].do # "login"
      /\ us[n + 1].do # "packet" /\ us[n + 1].do # "logout" /\ us[n + 1].do # "connect"
  BY <1>2, ReleaseIsTask
<1>4. \A i \in DOMAIN us : us[i].protocol \in Protocols
  BY <1>2 DEF Tasks
<1> HIDE DEF us, n
<1>5. \A i \in DOMAIN us : us[i].do = "release" => cn2[us[i].protocol] # "open"
  BY <1>2, <1>3, <1>4 DEF Orderly
<1>6. \A i \in DOMAIN us : us[i].do = "logout" => us[i].protocol \in acc
  BY <1>2, <1>3 DEF Orderly
<1>7. ASSUME NEW i \in DOMAIN us, us[i].do = "packet"
      PROVE  /\ us[i].protocol \in acc
             /\ us[i].player \in Players /\ ow[us[i].protocol] = us[i].player
             /\ \A j \in DOMAIN us : j < i => ~IsTask(us[j], "release", us[i].protocol)
  <2>1. i \in DOMAIN ts /\ ts[i].do = "packet" /\ us[i] = ts[i]
    BY <1>2, <1>3, <1>7
  <2>2. \A j \in DOMAIN us : j < i => j \in DOMAIN ts /\ us[j] = ts[j]
    BY <1>2, <2>1
  <2> QED BY <2>1, <2>2 DEF Orderly
<1>8. ASSUME NEW i \in DOMAIN us, us[i].do = "login", cn2[us[i].protocol] # "open"
      PROVE  \E j \in DOMAIN us : i < j /\ us[j] = Release(us[i].protocol)
  <2>1. i \in DOMAIN ts /\ us[i] = ts[i] /\ i < n + 1
    BY <1>2, <1>3, <1>8
  <2>2. CASE us[i].protocol = q
    BY <1>2, <2>1, <2>2
  <2>3. CASE us[i].protocol # q
    <3>1. PICK j \in DOMAIN ts : i < j /\ ts[j] = Release(ts[i].protocol)
      BY <1>4, <1>8, <2>1, <2>3 DEF Orderly
    <3> QED BY <1>2, <2>1, <3>1
  <2> QED BY <2>2, <2>3
<1>9. \A p \in Protocols : \A i, j \in DOMAIN us : Attempts(us[i], p) /\ Attempts(us[j], p) => i = j
  <2> TAKE p \in Protocols
  <2> TAKE i, j \in DOMAIN us
  <2>1. Attempts(us[i], p) /\ Attempts(us[j], p) => i \in DOMAIN ts /\ j \in DOMAIN ts
    BY <1>2, <1>3 DEF Attempts
  <2> QED BY <1>2, <2>1 DEF Orderly
<1> QED BY <1>5, <1>6, <1>7, <1>8, <1>9 DEF Orderly, us

\* What a task must satisfy to be put behind the others.
LEMMA AppendOrderly ==
    ASSUME NEW ts \in Seq(Tasks), NEW cn, NEW ow, NEW acc, Orderly(ts, cn, ow, acc),
           NEW t \in Tasks, t.do \in {"login", "packet", "logout"},
           t.do = "login" => cn[t.protocol] = "open" /\ ~HasAttempt(ts, t.protocol),
           t.do \in {"packet", "logout"} => t.protocol \in acc,
           t.do = "packet" => /\ t.player \in Players /\ ow[t.protocol] = t.player
                              /\ cn[t.protocol] = "open"
    PROVE  Orderly(ts \o <<t>>, cn, ow, acc)
<1> DEFINE us == ts \o <<t>>
           n == Len(ts)
<1>1. /\ <<t>> \in Seq(Tasks) /\ Len(<<t>>) = 1 /\ <<t>>[1] = t
  OBVIOUS
<1>2. /\ DOMAIN us = 1..(n + 1) /\ DOMAIN ts = 1..n /\ n \in Nat
      /\ \A i \in DOMAIN ts : us[i] = ts[i] /\ i \in DOMAIN us
      /\ us[n + 1] = t /\ n + 1 \in DOMAIN us
      /\ \A i \in DOMAIN us : i \in DOMAIN ts \/ i = n + 1
  BY <1>1, Joined, TaskLists
<1> HIDE DEF us, n
<1>3. \A i \in DOMAIN us : us[i].do = "release" => cn[us[i].protocol] # "open"
  BY <1>2 DEF Orderly
<1>4. \A i \in DOMAIN us : us[i].do = "logout" => us[i].protocol \in acc
  BY <1>2 DEF Orderly
<1>5. ASSUME NEW i \in DOMAIN us, us[i].do = "packet"
      PROVE  /\ us[i].protocol \in acc
             /\ us[i].player \in Players /\ ow[us[i].protocol] = us[i].player
             /\ \A j \in DOMAIN us : j < i => ~IsTask(us[j], "release", us[i].protocol)
  <2>1. \A j \in DOMAIN us : j < i => j \in DOMAIN ts /\ us[j] = ts[j]
    BY <1>2
  <2>2. CASE i \in DOMAIN ts
    <3>1. ts[i].do = "packet" /\ us[i] = ts[i]
      BY <1>2, <1>5, <2>2
    <3> QED BY <2>1, <2>2, <3>1 DEF Orderly
  <2>3. CASE i = n + 1
    <3>1. us[i] = t /\ t.do = "packet"
      BY <1>2, <1>5, <2>3
    <3>2. \A j \in DOMAIN ts : ~IsTask(ts[j], "release", t.protocol)
      BY <3>1 DEF Orderly, IsTask
    <3> QED BY <2>1, <3>1, <3>2
  <2> QED BY <1>2, <2>2, <2>3
<1>6. ASSUME NEW i \in DOMAIN us, us[i].do = "login", cn[us[i].protocol] # "open"
      PROVE  \E j \in DOMAIN us : i < j /\ us[j] = Release(us[i].protocol)
  <2>1. i \in DOMAIN ts /\ us[i] = ts[i]
    BY <1>2, <1>6
  <2>2. PICK j \in DOMAIN ts : i < j /\ ts[j] = Release(ts[i].protocol)
    BY <1>6, <2>1 DEF Orderly
  <2> QED BY <1>2, <2>1, <2>2
<1>7. \A p \in Protocols : \A i, j \in DOMAIN us : Attempts(us[i], p) /\ Attempts(us[j], p) => i = j
  <2>1. \A p \in Protocols : \A i \in DOMAIN ts : Attempts(ts[i], p) => ~Attempts(t, p)
    BY DEF HasAttempt, Attempts
  <2> TAKE p \in Protocols
  <2> TAKE i, j \in DOMAIN us
  <2>2. CASE i \in DOMAIN ts /\ j \in DOMAIN ts
    BY <1>2, <2>2 DEF Orderly
  <2>3. CASE i = n + 1 \/ j = n + 1
    BY <1>2, <2>1, <2>3
  <2> QED BY <1>2, <2>2, <2>3
<1> QED BY <1>3, <1>4, <1>5, <1>6, <1>7 DEF Orderly, us

\* The timer's task goes to the front.
LEMMA PrependOrderly ==
    ASSUME NEW ts \in Seq(Tasks), NEW cn, NEW ow, NEW acc, Orderly(ts, cn, ow, acc),
           NEW t \in Tasks, t.do = "connect", ~HasAttempt(ts, t.protocol)
    PROVE  Orderly(<<t>> \o ts, cn, ow, acc)
<1> DEFINE us == <<t>> \o ts
           n == Len(ts)
<1>1. /\ <<t>> \in Seq(Tasks) /\ Len(<<t>>) = 1 /\ <<t>>[1] = t
  OBVIOUS
<1>2. /\ DOMAIN us = 1..(n + 1) /\ DOMAIN ts = 1..n /\ n \in Nat
      /\ \A i \in DOMAIN ts : us[i + 1] = ts[i] /\ i + 1 \in DOMAIN us
      /\ us[1] = t
      /\ \A i \in DOMAIN us : i # 1 => i - 1 \in DOMAIN ts /\ us[i] = ts[i - 1]
  <2>1. us \in Seq(Tasks) /\ Len(us) = 1 + n /\ n \in Nat /\ DOMAIN ts = 1..n
    BY <1>1, Joined, TaskLists
  <2>2. us[1] = t /\ \A i \in 1..n : us[1 + i] = ts[i]
    BY <1>1, Joined
  <2>3. ASSUME NEW i \in 1..(n + 1), i # 1 PROVE i - 1 \in 1..n /\ us[i] = ts[i - 1]
    <3>1. i - 1 \in 1..n /\ 1 + (i - 1) = i
      BY <2>1, <2>3
    <3> HIDE DEF us, n
    <3>2. us[1 + (i - 1)] = ts[i - 1]
      BY <2>2, <3>1
    <3> QED BY <3>1, <3>2
  <2>4. DOMAIN us = 1..(n + 1)
    BY <2>1, TaskLists
  <2> HIDE DEF us, n
  <2> QED BY <2>1, <2>2, <2>3, <2>4
<1> HIDE DEF us, n
<1>3. \A i \in DOMAIN us : us[i].do = "release" => cn[us[i].protocol] # "open"
  BY <1>2 DEF Orderly
<1>4. \A i \in DOMAIN us : us[i].do = "logout" => us[i].protocol \in acc
  BY <1>2 DEF Orderly
<1>5. ASSUME NEW i \in DOMAIN us, us[i].do = "packet"
      PROVE  /\ us[i].protocol \in acc
             /\ us[i].player \in Players /\ ow[us[i].protocol] = us[i].player
             /\ \A j \in DOMAIN us : j < i => ~IsTask(us[j], "release", us[i].protocol)
  <2>1. i # 1
    BY <1>2, <1>5
  <2>2. i - 1 \in DOMAIN ts /\ us[i] = ts[i - 1] /\ ts[i - 1].do = "packet"
    BY <1>2, <1>5, <2>1
  <2>3. \A j \in DOMAIN us : j < i /\ j # 1 => j - 1 < i - 1 /\ j - 1 \in DOMAIN ts /\ us[j] = ts[j - 1]
    BY <1>2
  <2>4. \A j \in DOMAIN us : j < i /\ j # 1 => ~IsTask(us[j], "release", us[i].protocol)
    BY <2>2, <2>3 DEF Orderly
  <2>5. ~IsTask(us[1], "release", us[i].protocol)
    BY <1>2 DEF IsTask
  <2> QED BY <2>2, <2>4, <2>5 DEF Orderly
<1>6. ASSUME NEW i \in DOMAIN us, us[i].do = "login", cn[us[i].protocol] # "open"
      PROVE  \E j \in DOMAIN us : i < j /\ us[j] = Release(us[i].protocol)
  <2>1. i # 1
    BY <1>2, <1>6
  <2>2. i - 1 \in DOMAIN ts /\ us[i] = ts[i - 1]
    BY <1>2, <2>1
  <2>3. PICK j \in DOMAIN ts : i - 1 < j /\ ts[j] = Release(ts[i - 1].protocol)
    BY <1>6, <2>2 DEF Orderly
  <2>4. j + 1 \in DOMAIN us /\ us[j + 1] = ts[j] /\ i < j + 1
    BY <1>2, <2>3
  <2> QED BY <2>2, <2>3, <2>4
<1>7. \A p \in Protocols : \A i, j \in DOMAIN us : Attempts(us[i], p) /\ Attempts(us[j], p) => i = j
  <2>1. \A p \in Protocols : \A i \in DOMAIN ts : Attempts(ts[i], p) => ~Attempts(t, p)
    BY DEF HasAttempt, Attempts
  <2> TAKE p \in Protocols
  <2> TAKE i, j \in DOMAIN us
  <2>2. CASE i # 1 /\ j # 1
    <3>1. Attempts(ts[i - 1], p) /\ Attempts(ts[j - 1], p) => i - 1 = j - 1
      BY <1>2, <2>2 DEF Orderly
    <3> QED BY <1>2, <2>2, <3>1
  <2>3. CASE i = 1 \/ j = 1
    BY <1>2, <2>1, <2>3
  <2> QED BY <2>2, <2>3
<1> QED BY <1>3, <1>4, <1>5, <1>6, <1>7 DEF Orderly, us

\* A protocol without packets in the list may change its player.
LEMMA OwnerOrderly ==
    ASSUME NEW ts \in Seq(Tasks), NEW cn, NEW ow, NEW ow2, NEW acc, NEW acc2,
           Orderly(ts, cn, ow, acc), NEW p \in Protocols, p \notin acc, acc \subseteq acc2,
           \A q \in Protocols : q # p => ow2[q] = ow[q]
    PROVE  Orderly(ts, cn, ow2, acc2)
<1>1. \A i \in DOMAIN ts : ts[i].protocol \in Protocols
  BY TaskLists DEF Tasks
<1>2. \A i \in DOMAIN ts : ts[i].do = "packet" => ow2[ts[i].protocol] = ow[ts[i].protocol]
  BY <1>1 DEF Orderly
<1> QED BY <1>2 DEF Orderly

\* So may one whose release is next.
LEMMA ReleasedOrderly ==
    ASSUME NEW ts \in Seq(Tasks), ts # <<>>, NEW cn, NEW ow, NEW ow2, NEW acc,
           Orderly(ts, cn, ow, acc), NEW p \in Protocols, IsTask(Head(ts), "release", p),
           \A q \in Protocols : q # p => ow2[q] = ow[q]
    PROVE  Orderly(Tail(ts), cn, ow2, acc)
<1> DEFINE us == Tail(ts)
<1>1. /\ DOMAIN us = 1..Len(us) /\ Len(us) \in Nat /\ DOMAIN ts = 1..Len(ts) /\ Len(ts) \in Nat
      /\ Len(us) = Len(ts) - 1 /\ 1 \in DOMAIN ts /\ Head(ts) = ts[1]
      /\ \A i \in DOMAIN us : us[i] = ts[i + 1] /\ i + 1 \in DOMAIN ts /\ us[i] \in Tasks
  BY TaskLists
<1>2. Orderly(us, cn, ow, acc)
  BY TailOrderly
<1> HIDE DEF us
<1>3. ASSUME NEW i \in DOMAIN us, us[i].do = "packet" PROVE us[i].protocol # p
  <2>1. i + 1 \in DOMAIN ts /\ ts[i + 1].do = "packet" /\ 1 < i + 1
    BY <1>1, <1>3
  <2>2. ~IsTask(ts[1], "release", ts[i + 1].protocol)
    BY <1>1, <2>1 DEF Orderly
  <2> QED BY <1>1, <2>2
<1>4. \A i \in DOMAIN us : us[i].protocol \in Protocols
  BY <1>1 DEF Tasks
<1>5. \A i \in DOMAIN us : us[i].do = "packet" => ow2[us[i].protocol] = ow[us[i].protocol]
  BY <1>3, <1>4
<1> QED BY <1>2, <1>5 DEF Orderly, us

-----------------------------------------------------------------------------
(* What is in a list of tasks.                                             *)

\* Without its first task a list has no more in it.
LEMMA TailHas ==
    ASSUME NEW ts \in Seq(Tasks), ts # <<>>, NEW p \in Protocols
    PROVE  /\ HasAttempt(Tail(ts), p) => HasAttempt(ts, p)
           /\ HasLogin(Tail(ts), p) => HasLogin(ts, p)
           /\ HasRelease(ts, p) /\ Head(ts) # Release(p) => HasRelease(Tail(ts), p)
<1> DEFINE us == Tail(ts)
<1>1. /\ DOMAIN us = 1..Len(us) /\ Len(us) \in Nat /\ DOMAIN ts = 1..Len(ts) /\ Len(ts) \in Nat
      /\ Len(us) = Len(ts) - 1 /\ Head(ts) = ts[1]
      /\ \A i \in DOMAIN us : us[i] = ts[i + 1] /\ i + 1 \in DOMAIN ts
  BY TaskLists
<1> HIDE DEF us
<1>2. HasAttempt(us, p) => HasAttempt(ts, p)
  BY <1>1 DEF HasAttempt
<1>3. HasLogin(us, p) => HasLogin(ts, p)
  BY <1>1 DEF HasLogin
<1>4. ASSUME HasRelease(ts, p), Head(ts) # Release(p) PROVE HasRelease(us, p)
  <2>1. PICK i \in DOMAIN ts : ts[i] = Release(p)
    BY <1>4 DEF HasRelease
  <2>2. i # 1
    BY <1>1, <1>4, <2>1
  <2>3. i - 1 \in DOMAIN us /\ (i - 1) + 1 = i
    BY <1>1, <2>2
  <2>4. us[i - 1] = ts[(i - 1) + 1]
    BY <1>1, <2>3
  <2> QED BY <2>1, <2>3, <2>4 DEF HasRelease
<1> QED BY <1>2, <1>3, <1>4 DEF us

\* Once made, an attempt is not in the list any more; if the connection was
\* closed before a login was, the release is still to come.
LEMMA AttemptMade ==
    ASSUME NEW ts \in Seq(Tasks), ts # <<>>, NEW cn, NEW ow, NEW acc, Orderly(ts, cn, ow, acc),
           NEW p \in Protocols, Attempts(Head(ts), p)
    PROVE  /\ HasAttempt(ts, p) /\ ~HasAttempt(Tail(ts), p) /\ ~HasLogin(Tail(ts), p)
           /\ Head(ts).do = "login" => HasLogin(ts, p)
           /\ Head(ts).do = "login" /\ cn[p] # "open" => HasRelease(Tail(ts), p)
<1> DEFINE us == Tail(ts)
<1>1. /\ DOMAIN us = 1..Len(us) /\ Len(us) \in Nat /\ DOMAIN ts = 1..Len(ts) /\ Len(ts) \in Nat
      /\ Len(us) = Len(ts) - 1 /\ Head(ts) = ts[1] /\ 1 \in DOMAIN ts
      /\ \A i \in DOMAIN us : us[i] = ts[i + 1] /\ i + 1 \in DOMAIN ts /\ i + 1 # 1
  BY TaskLists
<1> HIDE DEF us
<1>2. \A i \in DOMAIN us : ~Attempts(us[i], p)
  BY <1>1 DEF Orderly
<1>3. ~HasAttempt(us, p) /\ ~HasLogin(us, p)
  BY <1>2 DEF HasAttempt, HasLogin, IsTask, Attempts
<1>4. HasAttempt(ts, p) /\ (Head(ts).do = "login" => HasLogin(ts, p))
  BY <1>1 DEF HasAttempt, HasLogin, IsTask, Attempts
<1>5. ASSUME Head(ts).do = "login", cn[p] # "open" PROVE HasRelease(us, p)
  <2>1. ts[1].do = "login" /\ ts[1].protocol = p
    BY <1>1, <1>5 DEF Attempts
  <2>2. PICK j \in DOMAIN ts : 1 < j /\ ts[j] = Release(p)
    BY <1>1, <1>5, <2>1 DEF Orderly
  <2>3. j - 1 \in DOMAIN us /\ (j - 1) + 1 = j
    BY <1>1, <2>2
  <2>4. us[j - 1] = ts[(j - 1) + 1]
    BY <1>1, <2>3
  <2> QED BY <2>2, <2>3, <2>4 DEF HasRelease
<1> QED BY <1>3, <1>4, <1>5 DEF us

\* What a list has in it with one more task behind or in front of it.
LEMMA AddedHas ==
    ASSUME NEW ts \in Seq(Tasks), NEW t \in Tasks, NEW us,
           us = ts \o <<t>> \/ us = <<t>> \o ts, NEW p \in Protocols
    PROVE  /\ us \in Seq(Tasks)
           /\ HasAttempt(us, p) <=> HasAttempt(ts, p) \/ Attempts(t, p)
           /\ HasLogin(us, p) <=> HasLogin(ts, p) \/ IsTask(t, "login", p)
           /\ HasRelease(us, p) <=> HasRelease(ts, p) \/ t = Release(p)
<1>1. /\ <<t>> \in Seq(Tasks) /\ Len(<<t>>) = 1 /\ <<t>>[1] = t
  OBVIOUS
<1>2. /\ DOMAIN us = 1..(Len(ts) + 1) /\ DOMAIN ts = 1..Len(ts) /\ Len(ts) \in Nat
      /\ us \in Seq(Tasks)
  <2>1. us \in Seq(Tasks) /\ Len(ts) \in Nat /\ (Len(us) = Len(ts) + 1 \/ Len(us) = 1 + Len(ts))
    <3>1. CASE us = ts \o <<t>>
      BY <1>1, <3>1, Joined, TaskLists
    <3>2. CASE us = <<t>> \o ts
      BY <1>1, <3>2, Joined, TaskLists
    <3> QED BY <3>1, <3>2
  <2> QED BY <2>1, TaskLists
<1>3. /\ \A i \in DOMAIN ts : \E j \in DOMAIN us : us[j] = ts[i]
      /\ \E j \in DOMAIN us : us[j] = t
      /\ \A j \in DOMAIN us : us[j] = t \/ \E i \in DOMAIN ts : us[j] = ts[i]
  <2>1. CASE us = ts \o <<t>>
    <3>1. /\ \A i \in 1..Len(ts) : us[i] = ts[i]
          /\ us[Len(ts) + 1] = t
      BY <1>1, <2>1, Joined
    <3>2. \A j \in 1..(Len(ts) + 1) : j \in 1..Len(ts) \/ j = Len(ts) + 1
      BY <1>2
    <3> QED BY <1>2, <3>1, <3>2
  <2>2. CASE us = <<t>> \o ts
    <3>1. us[1] = t /\ \A i \in 1..Len(ts) : us[1 + i] = ts[i]
      BY <1>1, <2>2, Joined
    <3>2. ASSUME NEW j \in 1..(Len(ts) + 1), j # 1 PROVE \E i \in 1..Len(ts) : us[j] = ts[i]
      <4>1. j - 1 \in 1..Len(ts) /\ 1 + (j - 1) = j
        BY <1>2, <3>2
      <4> QED BY <3>1, <4>1
    <3>3. \A i \in 1..Len(ts) : 1 + i \in 1..(Len(ts) + 1)
      BY <1>2
    <3>4. /\ 1 \in 1..(Len(ts) + 1)
          /\ \A i \in 1..Len(ts) : \E j \in 1..(Len(ts) + 1) : us[j] = ts[i]
      BY <1>2, <3>1, <3>3
    <3>5. \A j \in 1..(Len(ts) + 1) : us[j] = t \/ \E i \in 1..Len(ts) : us[j] = ts[i]
      BY <3>1, <3>2
    <3> QED BY <1>2, <3>1, <3>4, <3>5
  <2> QED BY <2>1, <2>2
<1>4. HasAttempt(us, p) <=> HasAttempt(ts, p) \/ Attempts(t, p)
  BY <1>3 DEF HasAttempt
<1>5. HasLogin(us, p) <=> HasLogin(ts, p) \/ IsTask(t, "login", p)
  BY <1>3 DEF HasLogin
<1>6. HasRelease(us, p) <=> HasRelease(ts, p) \/ t = Release(p)
  BY <1>3 DEF HasRelease
<1> QED BY <1>2, <1>4, <1>5, <1>6

-----------------------------------------------------------------------------
(* What actions have in common.                                            *)

\* Disconnecting a client posts a release, unless there is nobody to tell.
LEMMA DropKeeps ==
    ASSUME conn \in [Protocols -> {"open", "closed", "gone"}], NEW q \in Protocols,
           NEW ts \in Seq(Tasks), NEW ow, NEW acc, Orderly(ts, conn, ow, acc),
           NEW us, us = ts \o Releases(q), NEW cn, cn = Disconnected(q)
    PROVE  /\ cn \in [Protocols -> {"open", "closed", "gone"}]
           /\ us \in Seq(Tasks) /\ Orderly(us, cn, ow, acc)
           /\ \A p \in Protocols :
                 /\ HasAttempt(us, p) => HasAttempt(ts, p)
                 /\ HasLogin(us, p) => HasLogin(ts, p)
                 /\ HasRelease(ts, p) => HasRelease(us, p)
                 /\ cn[p] # "open" => conn[p] # "open" \/ HasRelease(us, p)
<1>1. CASE conn[q] = "gone"
  <2>1. cn = conn /\ us = ts
    BY <1>1 DEF Releases, Disconnected
  <2> QED BY <2>1
<1>2. CASE conn[q] # "gone"
  <2>1. cn = [conn EXCEPT ![q] = "closed"] /\ us = ts \o <<Release(q)>> /\ Release(q) \in Tasks
    BY <1>2, ReleaseIsTask DEF Releases, Disconnected
  <2>2. /\ cn \in [Protocols -> {"open", "closed", "gone"}] /\ cn[q] # "open"
        /\ \A p \in Protocols : p # q => cn[p] = conn[p]
    BY <2>1
  <2>3. Orderly(us, cn, ow, acc)
    <3>1. Orderly(ts \o <<Release(q)>>, cn, ow, acc)
      BY ONLY <2>2, ReleaseOrderly, ts \in Seq(Tasks), Orderly(ts, conn, ow, acc), q \in Protocols
    <3> QED BY <2>1, <3>1
  <2>4. \A p \in Protocols : ~Attempts(Release(q), p) /\ ~IsTask(Release(q), "login", p)
    BY ReleaseIsTask DEF Attempts, IsTask
  <2>5. /\ us \in Seq(Tasks)
        /\ \A p \in Protocols :
              /\ HasAttempt(us, p) <=> HasAttempt(ts, p)
              /\ HasLogin(us, p) <=> HasLogin(ts, p)
              /\ HasRelease(us, p) <=> HasRelease(ts, p) \/ Release(q) = Release(p)
    BY <2>1, <2>4, AddedHas
  <2> QED BY <2>2, <2>3, <2>5
<1> QED BY <1>1, <1>2

\* A step that makes no attempt, nor takes one on its way.
LEMMA AttemptsKept ==
    ASSUME OneAttempt, begun' = begun, timers' = timers,
           \A p \in Protocols : /\ HasAttempt(tasks', p) => HasAttempt(tasks, p)
                                /\ HasLogin(tasks', p) => HasLogin(tasks, p)
    PROVE  /\ OneAttempt'
           /\ \A p \in Protocols : Undecided(p)' => Undecided(p)
           /\ \A p \in Protocols : Unborn(p)' => Unborn(p)
  BY DEF OneAttempt, Undecided, Unborn

\* The autosend list loses one protocol, and nothing else.
LEMMA RemovedFromAutosend ==
    ASSUME bufferedProtocols \in Seq(Protocols), NEW p \in Protocols, RemoveFromAutosend(p),
           \A i, j \in DOMAIN bufferedProtocols :
              bufferedProtocols[i] = bufferedProtocols[j] => i = j
    PROVE  /\ bufferedProtocols' \in Seq(Protocols) /\ sweeps' = sweeps
           /\ \A k \in DOMAIN bufferedProtocols' : bufferedProtocols'[k] # p
                 /\ \E j \in DOMAIN bufferedProtocols : bufferedProtocols'[k] = bufferedProtocols[j]
           /\ \A k, l \in DOMAIN bufferedProtocols' :
                 bufferedProtocols'[k] = bufferedProtocols'[l] => k = l
<1> DEFINE list == bufferedProtocols
           places == {i \in DOMAIN list : list[i] = p}
           i == CHOOSE i \in places : \A j \in places : i <= j
           swapped == [list EXCEPT ![i] = list[Len(list)]]
           n == Len(list)
<1>1. /\ DOMAIN list = 1..n /\ n \in Nat /\ \A k \in DOMAIN list : list[k] \in Protocols
  OBVIOUS
<1>2. CASE places = {}
  <2>1. bufferedProtocols' = list /\ sweeps' = sweeps
    BY <1>2 DEF RemoveFromAutosend
  <2> QED BY <1>2, <2>1
<1>3. CASE places # {}
  <2>1. PICK x \in places : TRUE
    BY <1>3
  <2>2. \A y \in places : y = x
    BY <2>1
  <2>3. i = x
    <3>1. \A y \in places : x <= y
      BY <1>1, <2>1, <2>2
    <3> QED BY <2>1, <2>2, <3>1
  <2>4. i \in 1..n /\ list[i] = p /\ \A k \in 1..n : k # i => list[k] # p
    BY <1>1, <2>1, <2>2, <2>3
  <2>5. bufferedProtocols' = SubSeq(swapped, 1, n - 1) /\ sweeps' = sweeps
    BY <1>3 DEF RemoveFromAutosend
  <2> HIDE DEF i, places
  <2>6. /\ swapped \in Seq(Protocols) /\ Len(swapped) = n
        /\ \A k \in 1..n : swapped[k] = IF k = i THEN list[n] ELSE list[k]
    BY <1>1, <2>4
  <2> HIDE DEF swapped
  <2>7. /\ bufferedProtocols' \in Seq(Protocols)
        /\ DOMAIN bufferedProtocols' = 1..(n - 1)
        /\ \A k \in 1..(n - 1) : bufferedProtocols'[k] = IF k = i THEN list[n] ELSE list[k]
    BY <1>1, <2>4, <2>5, <2>6
  <2> HIDE DEF list, n
  <2>8. \A k \in 1..(n - 1) : k \in 1..n /\ k # n
    BY <1>1
  <2>9. n \in 1..n
    BY <1>1, <2>4
  <2>10. \A k \in 1..(n - 1) : bufferedProtocols'[k] # p
    BY <2>4, <2>7, <2>8, <2>9
  <2>11. \A k \in 1..(n - 1) : \E j \in 1..n : bufferedProtocols'[k] = list[j]
    BY <2>7, <2>8, <2>9
  <2>12. \A k, l \in 1..n : list[k] = list[l] => k = l
    BY <1>1 DEF list, n
  <2>13. \A k, l \in 1..(n - 1) : bufferedProtocols'[k] = bufferedProtocols'[l] => k = l
    BY <2>7, <2>8, <2>9, <2>12
  <2> QED BY <1>1, <2>5, <2>7, <2>10, <2>11, <2>13 DEF list
<1> QED BY <1>2, <1>3

\* A player of the world leaves it; his reference is kept for cleanup.
LEMMA LeavingKeeps ==
    ASSUME Inv, NEW o \in Players, o = online \/ o \in removed, RemoveCreature(o),
           owner' = owner, acceptPackets' = acceptPackets, client' = client, refs' = refs
    PROVE  /\ online' \in Players \cup {None} /\ removed' \subseteq Players
           /\ toRelease' \subseteq removed' /\ Acting' /\ Counted'
           /\ \A p \in Players : p # online /\ p \notin removed => online' # p /\ p \notin removed'
<1>1. None \notin Players
  BY NoneAssumption DEF Players
<1>2. CASE o \in removed
  <2>1. online' = online /\ removed' = removed /\ toRelease' = toRelease
    BY <1>2 DEF RemoveCreature, worldVars
  <2> QED BY <2>1 DEF Inv, Typed, Acting, Counted, Held
<1>3. CASE o \notin removed
  <2>1. /\ online = o /\ online' = None
        /\ removed' = removed \cup {o} /\ toRelease' = toRelease \cup {o}
    BY <1>3 DEF RemoveCreature
  <2>2. online' \in Players \cup {None} /\ removed' \subseteq Players /\ toRelease' \subseteq removed'
    BY <2>1 DEF Inv, Typed
  <2>3. Acting'
    BY <1>1, <2>1 DEF Inv, Typed, Acting
  <2>4. Counted'
    BY <1>1, <2>1 DEF Inv, Typed, Counted, Held
  <2> QED BY <1>1, <2>1, <2>2, <2>3, <2>4
<1> QED BY <1>2, <1>3

-----------------------------------------------------------------------------
(* Every action keeps the invariant.                                       *)

\* Nobody is connected yet.
LEMMA Initially == Init => Inv
<1> SUFFICES ASSUME Init PROVE Inv
  OBVIOUS
<1>1. None \notin Players /\ tasks = <<>> /\ bufferedProtocols = <<>>
  BY NoneAssumption DEF Players, Init
<1>2. Typed
  BY <1>1 DEF Init, Typed
<1>3. Orderly(tasks, conn, owner, acceptPackets)
  BY <1>1 DEF Orderly
<1>4. OneAttempt /\ Swept
  BY <1>1 DEF Init, OneAttempt, HasAttempt, Swept
<1>5. Waiting /\ Agreed /\ Acting /\ Counted
  BY <1>1 DEF Init, Waiting, Agreed, Acting, Counted, Held, Players
<1> QED BY <1>2, <1>3, <1>4, <1>5 DEF Inv

\* The parts that do not depend on the list of tasks.
LEMMA SessionKept ==
    ASSUME Inv, UNCHANGED <<owner, acceptPackets, client, refs, online, removed, toRelease>>
    PROVE  Agreed' /\ Acting' /\ Counted'
  BY DEF Inv, Agreed, Acting, Counted, Held

\* A login is posted: its protocol has one attempt, in the list.
LEMMA FirstPacketKeeps ==
    ASSUME Inv, NEW p \in Protocols, FirstPacket(p)
    PROVE  Inv'
<1> DEFINE t == Task("login", p, None)
<1>1. t \in Tasks /\ t.do = "login" /\ t.protocol = p /\ t # Release(p)
  BY DEF Task, Tasks, Whats, Release
<1>2. /\ conn[p] = "open" /\ p \notin begun /\ begun' = begun \cup {p}
      /\ UNCHANGED <<conn, timers, owner, acceptPackets, client, isConnecting,
                     bufferedProtocols, sweeps, online, removed, toRelease, refs>>
  BY DEF FirstPacket, sessionVars, autosend, worldVars
<1>3. tasks \in Seq(Tasks) /\ tasks' = tasks \o <<t>>
  BY <1>1, AppendIsConcat DEF FirstPacket, Inv, Typed
<1> HIDE DEF t
<1>4. \A q \in Protocols : Attempts(t, q) => q = p
  BY <1>1 DEF Attempts
<1>5. Typed'
  BY <1>1, <1>2, <1>3, AddedHas DEF Inv, Typed
<1>6. ~HasAttempt(tasks, p) /\ \A o \in Players : <<p, o>> \notin timers
  BY <1>2 DEF Inv, OneAttempt
<1>7. Orderly(tasks, conn, owner, acceptPackets)'
  <2>1. Orderly(tasks \o <<t>>, conn, owner, acceptPackets)
    BY <1>1, <1>2, <1>3, <1>6, AppendOrderly DEF Inv
  <2> QED BY <1>2, <1>3, <2>1
<1>8. \A q \in Protocols : /\ HasAttempt(tasks', q) => HasAttempt(tasks, q) \/ q = p
                           /\ HasLogin(tasks', q) => HasLogin(tasks, q) \/ q = p
                           /\ HasRelease(tasks, q) => HasRelease(tasks', q)
  <2>1. \A q \in Protocols : IsTask(t, "login", q) => q = p
    BY <1>1 DEF IsTask
  <2> QED BY <1>1, <1>3, <1>4, <2>1, AddedHas
<1>9. OneAttempt'
  BY <1>2, <1>6, <1>8 DEF Inv, OneAttempt
<1>10. \A q \in Protocols : (Undecided(q)' => Undecided(q)) /\ (Unborn(q)' => Unborn(q))
  BY <1>2, <1>8 DEF Undecided, Unborn
<1>11. Waiting'
  BY <1>2, <1>10 DEF Inv, Waiting
<1>12. Swept'
  BY <1>2, <1>8 DEF Inv, Typed, Swept
<1> QED BY <1>2, <1>5, <1>7, <1>9, <1>11, <1>12, SessionKept DEF Inv

\* Tasks come and go, connections end, players leave: nothing else changes.
LEMMA StepKeeps ==
    ASSUME Inv, Orderly(tasks, conn, owner, acceptPackets)',
           tasks' \in Seq(Tasks), conn' \in [Protocols -> {"open", "closed", "gone"}],
           UNCHANGED <<begun, timers, owner, acceptPackets, client, isConnecting,
                       bufferedProtocols, sweeps, refs>>,
           \A p \in Protocols :
              /\ HasAttempt(tasks', p) => HasAttempt(tasks, p)
              /\ HasLogin(tasks', p) => HasLogin(tasks, p)
              /\ HasRelease(tasks, p) => HasRelease(tasks', p)
              /\ conn'[p] # "open" => conn[p] # "open" \/ HasRelease(tasks', p),
           online' \in Players \cup {None}, removed' \subseteq Players,
           toRelease' \subseteq removed', Acting', Counted',
           \A p \in Players : p # online /\ p \notin removed => online' # p /\ p \notin removed'
    PROVE  Inv'
<1>1. /\ OneAttempt'
      /\ \A p \in Protocols : (Undecided(p)' => Undecided(p)) /\ (Unborn(p)' => Unborn(p))
  BY AttemptsKept DEF Inv
<1>2. Typed'
  BY DEF Inv, Typed
<1>3. Waiting'
  BY <1>1 DEF Inv, Waiting, Players
<1>4. Swept'
  BY DEF Inv, Typed, Swept
<1>5. Agreed'
  BY DEF Inv, Agreed
<1> QED BY <1>1, <1>2, <1>3, <1>4, <1>5 DEF Inv

\* Tasks come and go, connections end, and the world stays as it is.
LEMMA PostingKeeps ==
    ASSUME Inv, Orderly(tasks, conn, owner, acceptPackets)',
           tasks' \in Seq(Tasks), conn' \in [Protocols -> {"open", "closed", "gone"}],
           UNCHANGED <<begun, timers, owner, acceptPackets, client, isConnecting,
                       bufferedProtocols, sweeps, online, removed, toRelease, refs>>,
           \A p \in Protocols :
              /\ HasAttempt(tasks', p) => HasAttempt(tasks, p)
              /\ HasLogin(tasks', p) => HasLogin(tasks, p)
              /\ HasRelease(tasks, p) => HasRelease(tasks', p)
              /\ conn'[p] # "open" => conn[p] # "open" \/ HasRelease(tasks', p)
    PROVE  Inv'
<1>1. Acting' /\ Counted'
  BY SessionKept
<1>2. online \in Players \cup {None} /\ removed \subseteq Players /\ toRelease \subseteq removed
  BY DEF Inv, Typed
<1> QED BY <1>1, <1>2, StepKeeps

\* A packet is posted while its connection is open, before any release.
LEMMA ClientPacketKeeps ==
    ASSUME Inv, NEW p \in Protocols, ClientPacket(p)
    PROVE  Inv'
<1> DEFINE t == Task("packet", p, owner[p])
           l == Task("logout", p, None)
<1>1. /\ conn[p] = "open" /\ p \in acceptPackets /\ owner[p] \in Players
      /\ UNCHANGED <<conn, begun, timers, owner, acceptPackets, client, isConnecting,
                     bufferedProtocols, sweeps, online, removed, toRelease, refs>>
  BY DEF ClientPacket, sessionVars, autosend, worldVars, Inv, Typed
<1>2. /\ t \in Tasks /\ t.do = "packet" /\ t.protocol = p /\ t.player = owner[p]
      /\ l \in Tasks /\ l.do = "logout" /\ l.protocol = p
  BY <1>1 DEF Task, Tasks, Whats
<1>3. \A q \in Protocols : /\ ~Attempts(t, q) /\ ~IsTask(t, "login", q)
                           /\ ~Attempts(l, q) /\ ~IsTask(l, "login", q)
  BY <1>2 DEF Attempts, IsTask
<1>4. tasks' = Append(tasks, t) \/ tasks' = tasks \o <<t, l>>
  BY DEF ClientPacket
<1> HIDE DEF t, l
<1> DEFINE us == tasks \o <<t>>
<1>5. tasks \in Seq(Tasks) /\ us \in Seq(Tasks) /\ (tasks' = us \/ tasks' = us \o <<l>>)
  <2>1. tasks \in Seq(Tasks) /\ <<t>> \in Seq(Tasks) /\ <<l>> \in Seq(Tasks)
    BY <1>2 DEF Inv, Typed
  <2>2. us \in Seq(Tasks) /\ Append(tasks, t) = us
    BY <1>2, <2>1, Joined, AppendIsConcat
  <2>3. <<t>> \o <<l>> = <<t, l>>
    <3>1. /\ <<t>> \o <<l>> \in Seq(Tasks) /\ <<t, l>> \in Seq(Tasks)
          /\ Len(<<t>> \o <<l>>) = 2 /\ Len(<<t, l>>) = 2
          /\ \A i \in 1..2 : (<<t>> \o <<l>>)[i] = <<t, l>>[i]
      BY <1>2, <2>1
    <3>2. \A r, s \in Seq(Tasks) : Len(r) = Len(s) /\ (\A i \in 1..Len(r) : r[i] = s[i]) => r = s
      BY SeqEqual
    <3> DEFINE both == <<t>> \o <<l>>
               pair == <<t, l>>
    <3> HIDE DEF both, pair
    <3>3. both = pair
      BY <3>1, <3>2 DEF both, pair
    <3> QED BY <3>3 DEF both, pair
  <2>4. us \o <<l>> = tasks \o (<<t>> \o <<l>>)
    BY <2>1, ConcatAssociative
  <2> QED BY <1>4, <2>1, <2>2, <2>3, <2>4
<1>6. Orderly(us, conn, owner, acceptPackets)
  BY <1>1, <1>2, <1>5, AppendOrderly DEF Inv
<1>7. Orderly(us \o <<l>>, conn, owner, acceptPackets)
  BY <1>1, <1>2, <1>5, <1>6, AppendOrderly
<1>8. Orderly(tasks, conn, owner, acceptPackets)'
  BY <1>1, <1>5, <1>6, <1>7
<1>9. \A q \in Protocols : /\ HasAttempt(us, q) => HasAttempt(tasks, q)
                           /\ HasLogin(us, q) => HasLogin(tasks, q)
                           /\ HasRelease(tasks, q) => HasRelease(us, q)
  BY <1>2, <1>3, <1>5, AddedHas
<1> HIDE DEF us
<1>10. /\ us \o <<l>> \in Seq(Tasks)
       /\ \A q \in Protocols : /\ HasAttempt(us \o <<l>>, q) => HasAttempt(us, q)
                               /\ HasLogin(us \o <<l>>, q) => HasLogin(us, q)
                               /\ HasRelease(us, q) => HasRelease(us \o <<l>>, q)
  BY <1>2, <1>3, <1>5, AddedHas
<1>11. \A q \in Protocols : /\ HasAttempt(tasks', q) => HasAttempt(tasks, q)
                            /\ HasLogin(tasks', q) => HasLogin(tasks, q)
                            /\ HasRelease(tasks, q) => HasRelease(tasks', q)
  BY <1>5, <1>9, <1>10
<1>12. tasks' \in Seq(Tasks) /\ conn' \in [Protocols -> {"open", "closed", "gone"}]
  BY <1>1, <1>5, <1>10 DEF Inv, Typed
<1> QED BY <1>1, <1>8, <1>11, <1>12, PostingKeeps

\* A connection ends, with a release.
LEMMA EndedKeeps ==
    ASSUME Inv, NEW p \in Protocols, NEW s \in {"closed", "gone"},
           conn' = [conn EXCEPT ![p] = s],
           \/ tasks' = Append(tasks, Release(p))
           \/ tasks' = tasks /\ conn[p] = "closed",
           UNCHANGED <<begun, timers, owner, acceptPackets, client, isConnecting,
                       bufferedProtocols, sweeps, online, removed, toRelease, refs>>
    PROVE  Inv'
<1>1. /\ tasks \in Seq(Tasks) /\ conn \in [Protocols -> {"open", "closed", "gone"}]
      /\ Release(p) \in Tasks
  BY ReleaseIsTask DEF Inv, Typed
<1>2. /\ conn' \in [Protocols -> {"open", "closed", "gone"}] /\ conn'[p] # "open"
      /\ \A q \in Protocols : q # p => conn'[q] = conn[q]
  BY <1>1
<1>3. \A q \in Protocols : ~Attempts(Release(p), q) /\ ~IsTask(Release(p), "login", q)
  BY ReleaseIsTask DEF Attempts, IsTask
<1>4. CASE tasks' = Append(tasks, Release(p))
  <2>1. tasks' = tasks \o <<Release(p)>>
    BY <1>1, <1>4, AppendIsConcat
  <2>2. Orderly(tasks \o <<Release(p)>>, conn', owner, acceptPackets)
    BY <1>1, <1>2, ReleaseOrderly DEF Inv
  <2>3. Orderly(tasks, conn, owner, acceptPackets)'
    BY <2>1, <2>2
  <2>4. /\ tasks' \in Seq(Tasks)
        /\ \A q \in Protocols : /\ HasAttempt(tasks', q) => HasAttempt(tasks, q)
                                /\ HasLogin(tasks', q) => HasLogin(tasks, q)
                                /\ HasRelease(tasks', q) <=> HasRelease(tasks, q) \/ Release(p) = Release(q)
    BY <1>1, <1>3, <2>1, AddedHas
  <2> QED BY <1>2, <2>3, <2>4, PostingKeeps
<1>5. CASE tasks' = tasks /\ conn[p] = "closed"
  <2>1. \A q \in Protocols : conn'[q] # "open" <=> conn[q] # "open"
    BY <1>2, <1>5
  <2>2. \A i \in DOMAIN tasks : tasks[i].protocol \in Protocols
    BY <1>1, TaskLists DEF Tasks
  <2>3. Orderly(tasks, conn', owner, acceptPackets)
    BY <2>1, <2>2 DEF Inv, Orderly
  <2>4. Orderly(tasks, conn, owner, acceptPackets)'
    BY <1>5, <2>3
  <2> QED BY <1>1, <1>2, <1>5, <2>1, <2>4, PostingKeeps
<1> QED BY <1>4, <1>5

\* A connection is closed, or freed.
LEMMA HangUpKeeps ==
    ASSUME Inv, NEW p \in Protocols, HangUp(p) \/ Free(p)
    PROVE  Inv'
<1>1. UNCHANGED <<begun, timers, owner, acceptPackets, client, isConnecting,
                  bufferedProtocols, sweeps, online, removed, toRelease, refs>>
  BY DEF HangUp, Free, sessionVars, autosend, worldVars
<1>2. CASE HangUp(p)
  BY <1>1, <1>2, EndedKeeps DEF HangUp
<1>3. CASE Free(p)
  BY <1>1, <1>3, EndedKeeps DEF Free
<1> QED BY <1>2, <1>3

\* The task that is next: it is taken off the list.
LEMMA NextTask ==
    ASSUME Inv, NEW p \in Protocols, NEW what, IsNext(what, p)
    PROVE  /\ tasks \in Seq(Tasks) /\ tasks # <<>> /\ Tail(tasks) \in Seq(Tasks)
           /\ Head(tasks) \in Tasks /\ IsTask(Head(tasks), what, p)
           /\ Orderly(Tail(tasks), conn, owner, acceptPackets)
           /\ \A q \in Protocols :
                 /\ HasAttempt(Tail(tasks), q) => HasAttempt(tasks, q)
                 /\ HasLogin(Tail(tasks), q) => HasLogin(tasks, q)
                 /\ HasRelease(tasks, q) /\ (what # "release" \/ q # p) => HasRelease(Tail(tasks), q)
<1>1. tasks \in Seq(Tasks) /\ tasks # <<>> /\ Orderly(tasks, conn, owner, acceptPackets)
  BY DEF IsNext, Inv, Typed
<1>2. Tail(tasks) \in Seq(Tasks) /\ Head(tasks) \in Tasks
  BY <1>1, TaskLists
<1>3. Head(tasks).do = what /\ Head(tasks).protocol = p
  BY DEF IsNext
<1>4. \A q \in Protocols : what # "release" \/ q # p => Head(tasks) # Release(q)
  BY <1>3, ReleaseIsTask
<1>5. Orderly(Tail(tasks), conn, owner, acceptPackets)
  BY <1>1, TailOrderly
<1> QED BY <1>1, <1>2, <1>3, <1>4, <1>5, TailHas DEF IsTask

\* Nothing is posted.
LEMMA NothingPosted == Done(<<>>) /\ Tail(tasks) \in Seq(Tasks) => tasks' = Tail(tasks)
  BY DEF Done

\* A client is dropped by the task that is next, whoever owns what by then.
LEMMA TaskDrops ==
    ASSUME Inv, NEW p \in Protocols, NEW q \in Protocols, NEW what \in Whats \ {"release"},
           IsNext(what, p), Drops(q, <<>>), NEW ow, Orderly(Tail(tasks), conn, ow, acceptPackets)
    PROVE  /\ conn' \in [Protocols -> {"open", "closed", "gone"}] /\ tasks' \in Seq(Tasks)
           /\ Orderly(tasks', conn', ow, acceptPackets)
           /\ \A r \in Protocols :
                 /\ HasAttempt(tasks', r) => HasAttempt(Tail(tasks), r)
                 /\ HasLogin(tasks', r) => HasLogin(Tail(tasks), r)
                 /\ HasRelease(Tail(tasks), r) => HasRelease(tasks', r)
                 /\ conn'[r] # "open" => conn[r] # "open" \/ HasRelease(tasks', r)
<1>1. Releases(q) \in Seq(Tasks)
  BY ReleaseIsTask DEF Releases
<1>2. conn' = Disconnected(q) /\ tasks' = Tail(tasks) \o Releases(q)
  BY <1>1 DEF Drops, Done
<1>3. Tail(tasks) \in Seq(Tasks)
  BY NextTask
<1>4. conn \in [Protocols -> {"open", "closed", "gone"}]
  BY DEF Inv, Typed
<1> QED BY <1>2, <1>3, <1>4, DropKeeps

\* A packet's task runs.
LEMMA RunPacketKeeps ==
    ASSUME Inv, NEW p \in Protocols, RunPacket(p)
    PROVE  Inv'
<1>1. /\ IsNext("packet", p) /\ Done(<<>>)
      /\ UNCHANGED <<conn, begun, timers, owner, acceptPackets, client, isConnecting,
                     bufferedProtocols, sweeps, online, removed, toRelease, refs>>
  BY DEF RunPacket, sessionVars, autosend, worldVars
<1>2. tasks' = Tail(tasks) /\ tasks' \in Seq(Tasks)
  BY <1>1, NextTask, NothingPosted
<1>3. Orderly(tasks, conn, owner, acceptPackets)'
  BY <1>1, <1>2, NextTask
<1>4. conn' \in [Protocols -> {"open", "closed", "gone"}]
  BY <1>1 DEF Inv, Typed
<1>5. \A q \in Protocols :
         /\ HasAttempt(tasks', q) => HasAttempt(tasks, q)
         /\ HasLogin(tasks', q) => HasLogin(tasks, q)
         /\ HasRelease(tasks, q) => HasRelease(tasks', q)
  BY <1>1, <1>2, NextTask
<1> QED BY <1>1, <1>2, <1>3, <1>4, <1>5, PostingKeeps

\* A logout: who has accepted packets owns a player of the world.
LEMMA RunLogoutKeeps ==
    ASSUME Inv, NEW p \in Protocols, RunLogout(p)
    PROVE  Inv'
<1>1. /\ IsNext("logout", p)
      /\ UNCHANGED <<begun, timers, owner, acceptPackets, client, isConnecting,
                     bufferedProtocols, sweeps, refs>>
  BY DEF RunLogout, sessionVars, autosend
<1>2. p \in acceptPackets
  <2>1. 1 \in DOMAIN tasks /\ tasks[1] = Head(tasks) /\ IsTask(Head(tasks), "logout", p)
    BY <1>1, NextTask, TaskLists
  <2> QED BY <2>1 DEF Inv, Orderly, IsTask
<1>3. CASE owner[p] # None /\ Drops(p, <<>>) /\ RemoveCreature(owner[p])
  <2>1. owner[p] \in Players /\ (owner[p] = online \/ owner[p] \in removed)
    BY <1>2, <1>3 DEF Inv, Typed, Acting
  <2>2. /\ conn' \in [Protocols -> {"open", "closed", "gone"}] /\ tasks' \in Seq(Tasks)
        /\ Orderly(tasks', conn', owner, acceptPackets)
        /\ \A r \in Protocols :
              /\ HasAttempt(tasks', r) => HasAttempt(tasks, r)
              /\ HasLogin(tasks', r) => HasLogin(tasks, r)
              /\ HasRelease(tasks, r) => HasRelease(tasks', r)
              /\ conn'[r] # "open" => conn[r] # "open" \/ HasRelease(tasks', r)
    BY <1>1, <1>3, TaskDrops, NextTask DEF Whats
  <2>3. Orderly(tasks, conn, owner, acceptPackets)'
    BY <1>1, <2>2
  <2> QED BY <1>1, <1>3, <2>1, <2>2, <2>3, LeavingKeeps, StepKeeps
<1>4. CASE Done(<<>>) /\ UNCHANGED <<conn, worldVars>>
  <2>1. tasks' = Tail(tasks) /\ tasks' \in Seq(Tasks)
    BY <1>1, <1>4, NextTask, NothingPosted
  <2>2. UNCHANGED <<conn, online, removed, toRelease>>
    BY <1>4 DEF worldVars
  <2>3. Orderly(tasks, conn, owner, acceptPackets)'
    BY <1>1, <2>1, <2>2, NextTask
  <2>4. conn' \in [Protocols -> {"open", "closed", "gone"}]
    BY <2>2 DEF Inv, Typed
  <2>5. \A q \in Protocols :
           /\ HasAttempt(tasks', q) => HasAttempt(tasks, q)
           /\ HasLogin(tasks', q) => HasLogin(tasks, q)
           /\ HasRelease(tasks, q) => HasRelease(tasks', q)
    BY <1>1, <2>1, NextTask
  <2> QED BY <1>1, <2>1, <2>2, <2>3, <2>4, <2>5, PostingKeeps
<1> QED BY <1>3, <1>4 DEF RunLogout

\* A player is kicked, times out or dies.
LEMMA TakenOutKeeps ==
    ASSUME Inv, NEW o \in Players, PingTimeout(o) \/ Kick(o) \/ Die(o)
    PROVE  Inv'
<1>1. /\ online = o /\ RemoveCreature(o)
      /\ UNCHANGED <<begun, timers, owner, acceptPackets, client, isConnecting,
                     bufferedProtocols, sweeps, refs>>
  BY DEF PingTimeout, Kick, Die, TakenOut, sessionVars, autosend
<1>2. /\ tasks \in Seq(Tasks) /\ conn \in [Protocols -> {"open", "closed", "gone"}]
      /\ client[o] \in Protocols \cup {None} /\ Orderly(tasks, conn, owner, acceptPackets)
  BY DEF Inv, Typed
<1>3. CASE UNCHANGED <<conn, tasks>>
  <2>1. Orderly(tasks, conn, owner, acceptPackets)'
    BY <1>1, <1>2, <1>3
  <2> QED BY <1>1, <1>2, <1>3, <2>1, LeavingKeeps, StepKeeps
<1>4. CASE /\ client[o] # None /\ conn' = Disconnected(client[o])
           /\ tasks' = tasks \o Releases(client[o])
  <2>1. /\ conn' \in [Protocols -> {"open", "closed", "gone"}] /\ tasks' \in Seq(Tasks)
        /\ Orderly(tasks', conn', owner, acceptPackets)
        /\ \A r \in Protocols :
              /\ HasAttempt(tasks', r) => HasAttempt(tasks, r)
              /\ HasLogin(tasks', r) => HasLogin(tasks, r)
              /\ HasRelease(tasks, r) => HasRelease(tasks', r)
              /\ conn'[r] # "open" => conn[r] # "open" \/ HasRelease(tasks', r)
    <3> PICK q \in Protocols : q = client[o]
      BY <1>2, <1>4
    <3>1. conn' = Disconnected(q) /\ tasks' = tasks \o Releases(q)
      BY <1>4
    <3> QED BY ONLY <1>2, <3>1, DropKeeps, q \in Protocols
  <2>2. Orderly(tasks, conn, owner, acceptPackets)'
    BY <1>1, <2>1
  <2> QED BY <1>1, <2>1, <2>2, LeavingKeeps, StepKeeps
<1> QED BY <1>3, <1>4 DEF PingTimeout, Kick, Die, TakenOut

\* The world gives up its references, of removed players only.
LEMMA CleanupKeeps == Inv /\ Cleanup => Inv'
<1> SUFFICES ASSUME Inv, Cleanup PROVE Inv'
  OBVIOUS
<1>1. /\ toRelease' = {}
      /\ UNCHANGED <<conn, begun, tasks, timers, owner, acceptPackets, client, isConnecting,
                     bufferedProtocols, sweeps, online, removed>>
      /\ refs' = [o \in Players |-> IF o \in toRelease THEN refs[o] - 1 ELSE refs[o]]
  BY DEF Cleanup, sessionVars, autosend
<1>2. Typed'
  BY <1>1 DEF Inv, Typed
<1>3. \A o \in Players : o \in toRelease => o \in removed /\ online # o
  BY DEF Inv, Typed, Acting
<1>4. Counted'
  <2> SUFFICES ASSUME NEW o \in Players
               PROVE  (refs[o] = Held(o) \/ (refs[o] = Held(o) - 1 /\ online # o /\ o \notin removed))'
    BY DEF Counted
  <2>1. CASE o \in toRelease
    <3>1. refs[o] = Held(o) /\ refs[o] \in Int
      BY <1>3, <2>1 DEF Inv, Typed, Counted
    <3>2. Held(o)' = Held(o) - 1 /\ refs'[o] = refs[o] - 1
      BY <1>1, <1>3, <2>1 DEF Held
    <3> QED BY <3>1, <3>2
  <2>2. CASE o \notin toRelease
    <3>1. Held(o)' = Held(o) /\ refs'[o] = refs[o]
      BY <1>1, <2>2 DEF Held
    <3> QED BY <1>1, <3>1 DEF Inv, Counted
  <2> QED BY <2>1, <2>2
<1>5. \A p \in Players : p \notin removed => refs'[p] = refs[p]
  BY <1>1, <1>3
<1>6. Waiting'
  BY <1>1, <1>5 DEF Inv, Waiting, Undecided, Unborn, Players
<1>7. OneAttempt' /\ Agreed' /\ Acting' /\ Swept' /\ Orderly(tasks, conn, owner, acceptPackets)'
  BY <1>1 DEF Inv, OneAttempt, Agreed, Acting, Swept
<1> QED BY <1>2, <1>4, <1>6, <1>7 DEF Inv

\* A sweep ends on an empty list.
LEMMA SweepEndsKeeps == Inv /\ SweepEnds => Inv'
<1> SUFFICES ASSUME Inv, SweepEnds PROVE Inv'
  OBVIOUS
<1>1. /\ sweeps > 0 /\ bufferedProtocols = <<>> /\ sweeps' = sweeps - 1
      /\ UNCHANGED <<conn, begun, tasks, timers, owner, acceptPackets, client, isConnecting,
                     bufferedProtocols, online, removed, toRelease, refs>>
  BY DEF SweepEnds, sessionVars, worldVars
<1>2. Typed' /\ Swept'
  BY <1>1 DEF Inv, Typed, Swept
<1>3. Waiting' /\ OneAttempt' /\ Orderly(tasks, conn, owner, acceptPackets)'
  BY <1>1 DEF Inv, Waiting, Undecided, Unborn, OneAttempt
<1> QED BY <1>1, <1>2, <1>3, SessionKept DEF Inv

\* The timer's attempt goes into the list.
LEMMA ConnectDueKeeps ==
    ASSUME Inv, NEW p \in Protocols, NEW o \in Players, ConnectDue(p, o)
    PROVE  Inv'
<1> DEFINE t == Task("connect", p, o)
<1>1. t \in Tasks /\ t.do = "connect" /\ t.protocol = p /\ t # Release(p)
  BY DEF Task, Tasks, Whats, Release
<1>2. /\ <<p, o>> \in timers /\ timers' = timers \ {<<p, o>>} /\ tasks' = <<t>> \o tasks
      /\ UNCHANGED <<conn, begun, owner, acceptPackets, client, isConnecting,
                     bufferedProtocols, sweeps, online, removed, toRelease, refs>>
  BY DEF ConnectDue, sessionVars, autosend, worldVars
<1> HIDE DEF t
<1>3. tasks \in Seq(Tasks) /\ p \in begun /\ ~HasAttempt(tasks, p)
  BY <1>2 DEF Inv, Typed, OneAttempt
<1>4. \A q \in Protocols :
         /\ HasAttempt(tasks', q) <=> HasAttempt(tasks, q) \/ q = p
         /\ HasLogin(tasks', q) <=> HasLogin(tasks, q)
         /\ HasRelease(tasks, q) => HasRelease(tasks', q)
  <2>1. \A q \in Protocols : (Attempts(t, q) <=> q = p) /\ ~IsTask(t, "login", q)
    BY <1>1 DEF Attempts, IsTask
  <2> QED BY <1>1, <1>2, <1>3, <2>1, AddedHas
<1>5. Typed'
  BY <1>1, <1>2, <1>3, AddedHas DEF Inv, Typed
<1>6. Orderly(tasks, conn, owner, acceptPackets)'
  <2>1. Orderly(<<t>> \o tasks, conn, owner, acceptPackets)
    BY <1>1, <1>3, PrependOrderly DEF Inv
  <2> QED BY <1>2, <2>1
<1>7. OneAttempt'
  <2>1. \A q \in Players : <<p, q>> \in timers => q = o
    BY <1>2 DEF Inv, OneAttempt
  <2>2. \A q \in Protocols, r \in Players : <<q, r>> \in timers' => q # p /\ <<q, r>> \in timers
    BY <1>2, <2>1
  <2> QED BY <1>2, <1>3, <1>4, <2>2 DEF Inv, OneAttempt
<1>8. \A q \in Protocols : (Undecided(q)' => Undecided(q)) /\ (Unborn(q)' => Unborn(q))
  BY <1>2, <1>4 DEF Undecided, Unborn
<1>9. Waiting'
  BY <1>2, <1>8 DEF Inv, Waiting
<1>10. Swept'
  BY <1>2, <1>4 DEF Inv, Typed, Swept
<1> QED BY <1>2, <1>5, <1>6, <1>7, <1>9, <1>10, SessionKept DEF Inv

\* A release: no packet of its protocol is behind it.
LEMMA RunReleaseKeeps ==
    ASSUME Inv, NEW p \in Protocols, RunRelease(p)
    PROVE  Inv'
<1>1. /\ IsNext("release", p) /\ Done(<<>>) /\ RemoveFromAutosend(p)
      /\ UNCHANGED <<conn, begun, timers, acceptPackets, isConnecting, online, removed, toRelease>>
  BY DEF RunRelease, worldVars
<1>2. tasks' = Tail(tasks) /\ tasks' \in Seq(Tasks)
  BY <1>1, NextTask, NothingPosted
<1>3. Typed /\ OneAttempt /\ Waiting /\ Agreed /\ Acting /\ Counted /\ Swept
  BY DEF Inv
<1>4. None \notin Players
  BY NoneAssumption DEF Players
<1>5. \A q \in Protocols :
         /\ HasAttempt(tasks', q) => HasAttempt(tasks, q)
         /\ HasLogin(tasks', q) => HasLogin(tasks, q)
         /\ q # p => (HasRelease(tasks, q) => HasRelease(tasks', q))
  BY <1>1, <1>2, NextTask
<1>6. /\ OneAttempt'
      /\ \A q \in Protocols : (Undecided(q)' => Undecided(q)) /\ (Unborn(q)' => Unborn(q))
  BY <1>1, <1>3, <1>5, AttemptsKept
<1>7. /\ bufferedProtocols' \in Seq(Protocols) /\ sweeps' = sweeps
      /\ \A k \in DOMAIN bufferedProtocols' : bufferedProtocols'[k] # p
            /\ \E j \in DOMAIN bufferedProtocols : bufferedProtocols'[k] = bufferedProtocols[j]
      /\ \A k, l \in DOMAIN bufferedProtocols' :
            bufferedProtocols'[k] = bufferedProtocols'[l] => k = l
  BY <1>1, <1>3, RemovedFromAutosend DEF Typed, Swept
<1>8. Swept'
  <2>1. bufferedProtocols' # <<>> => sweeps' > 0
    <3>1. ASSUME bufferedProtocols' # <<>> PROVE bufferedProtocols # <<>>
      <4>1. 1 \in DOMAIN bufferedProtocols'
        BY <1>7, <3>1
      <4>2. PICK j \in DOMAIN bufferedProtocols : TRUE
        BY <1>7, <4>1
      <4> QED BY <4>2
    <3> QED BY <1>3, <1>7, <3>1 DEF Swept
  <2>2. ASSUME NEW k \in DOMAIN bufferedProtocols', conn'[bufferedProtocols'[k]] # "open"
        PROVE  HasRelease(tasks', bufferedProtocols'[k])
    <3>1. PICK j \in DOMAIN bufferedProtocols : bufferedProtocols'[k] = bufferedProtocols[j]
      BY <1>7
    <3>2. bufferedProtocols[j] \in Protocols /\ bufferedProtocols[j] # p
      BY <1>3, <1>7, <3>1 DEF Typed
    <3>3. HasRelease(tasks, bufferedProtocols[j])
      BY <1>1, <1>3, <2>2, <3>1 DEF Swept
    <3> QED BY <1>5, <3>1, <3>2, <3>3
  <2> QED BY <1>7, <2>1, <2>2 DEF Swept
<1>9. \A q \in Protocols : (\A i \in DOMAIN bufferedProtocols : bufferedProtocols[i] # q)
                        => (\A i \in DOMAIN bufferedProtocols' : bufferedProtocols'[i] # q)
  BY <1>7
<1>10. CASE UNCHANGED <<client, refs, owner>>
  <2>1. Typed'
    BY <1>1, <1>2, <1>3, <1>7, <1>10 DEF Typed
  <2>2. Orderly(tasks, conn, owner, acceptPackets)'
    BY <1>1, <1>2, <1>10, NextTask
  <2>3. Waiting'
    BY <1>1, <1>3, <1>6, <1>9, <1>10 DEF Waiting
  <2> QED BY <1>1, <1>6, <1>8, <1>10, <2>1, <2>2, <2>3, SessionKept DEF Inv
<1>11. CASE /\ owner[p] # None /\ client[owner[p]] = p
            /\ client' = [client EXCEPT ![owner[p]] = None]
            /\ refs' = [refs EXCEPT ![owner[p]] = @ - 1]
            /\ owner' = [owner EXCEPT ![p] = None]
  <2>0. owner[p] \in Players
    BY <1>3, <1>11 DEF Typed
  <2> PICK o \in Players : o = owner[p]
    BY <2>0
  <2>1. o \in Players /\ owner[p] = o /\ client[o] = p /\ p # None
    BY <1>3, <1>11, NoneAssumption DEF Typed
  <2>2. /\ \A q \in Protocols : owner'[q] = IF q = p THEN None ELSE owner[q]
        /\ \A q \in Players : /\ client'[q] = IF q = o THEN None ELSE client[q]
                              /\ refs'[q] = IF q = o THEN refs[q] - 1 ELSE refs[q]
    BY <1>3, <1>11, <2>1 DEF Typed
  <2>3. Typed'
    BY <1>1, <1>2, <1>3, <1>7, <1>11, <2>1 DEF Typed
  <2>4. Orderly(tasks, conn, owner, acceptPackets)'
    <3>1. Orderly(Tail(tasks), conn, owner', acceptPackets)
      <4>1. tasks \in Seq(Tasks) /\ tasks # <<>> /\ IsTask(Head(tasks), "release", p)
        BY <1>1, NextTask
      <4>2. Orderly(tasks, conn, owner, acceptPackets)
        BY DEF Inv
      <4>3. \A q \in Protocols : q # p => owner'[q] = owner[q]
        BY <2>2
      <4> QED BY <4>1, <4>2, <4>3, ReleasedOrderly
    <3> QED BY <1>1, <1>2, <3>1
  <2>5. Agreed'
    BY <1>3, <1>4, <2>1, <2>2, NoneAssumption DEF Agreed
  <2>6. Acting'
    BY <1>1, <1>3, <2>2 DEF Acting, Typed
  <2>7. Counted'
    <3>1. Held(o)' = Held(o) - 1
      BY <1>1, <2>1, <2>2 DEF Held
    <3>2. \A q \in Players : q # o => Held(q)' = Held(q)
      BY <1>1, <2>2 DEF Held
    <3>3. \A q \in Players : Held(q) \in Int /\ refs[q] \in Int
      BY <1>3 DEF Held, Typed
    <3> QED BY <1>1, <1>3, <2>1, <2>2, <3>1, <3>2, <3>3 DEF Counted
  <2>8. Waiting'
    <3>1. \A q \in Protocols : Unborn(q) => q # o
      BY <1>3, <2>1, NoneAssumption DEF Waiting
    <3>2. \A q \in Protocols : q \in Players
      BY DEF Players
    <3> QED BY <1>1, <1>3, <1>6, <1>9, <2>2, <3>1, <3>2 DEF Waiting
  <2> QED BY <1>6, <1>8, <2>3, <2>4, <2>5, <2>6, <2>7, <2>8 DEF Inv
<1> QED BY <1>10, <1>11 DEF RunRelease

\* A protocol that is not in the autosend list gets a place, and a sweep.
LEMMA AddedToAutosend ==
    ASSUME bufferedProtocols \in Seq(Protocols), sweeps \in Nat, bufferedProtocols # <<>> => sweeps > 0,
           NEW p \in Protocols, AddToAutosend(p),
           \A i \in DOMAIN bufferedProtocols : bufferedProtocols[i] # p,
           \A i, j \in DOMAIN bufferedProtocols :
              bufferedProtocols[i] = bufferedProtocols[j] => i = j
    PROVE  /\ bufferedProtocols' \in Seq(Protocols) /\ sweeps' \in Nat /\ sweeps' > 0
           /\ \A k \in DOMAIN bufferedProtocols' : \/ bufferedProtocols'[k] = p
                 \/ \E j \in DOMAIN bufferedProtocols : bufferedProtocols'[k] = bufferedProtocols[j]
           /\ \A k, l \in DOMAIN bufferedProtocols' :
                 bufferedProtocols'[k] = bufferedProtocols'[l] => k = l
<1> DEFINE n == Len(bufferedProtocols)
<1>1. sweeps' \in Nat /\ sweeps' > 0
  BY DEF AddToAutosend
<1>2. /\ DOMAIN bufferedProtocols = 1..n /\ n \in Nat
      /\ bufferedProtocols' \in Seq(Protocols) /\ DOMAIN bufferedProtocols' = 1..(n + 1)
      /\ bufferedProtocols'[n + 1] = p
      /\ \A k \in 1..n : bufferedProtocols'[k] = bufferedProtocols[k]
  BY DEF AddToAutosend
<1> HIDE DEF n
<1>3. \A k \in 1..(n + 1) : k \in 1..n \/ k = n + 1
  BY <1>2
<1> QED BY <1>1, <1>2, <1>3

\* An attempt is made: until then its protocol owned nothing.
LEMMA AttemptIsNext ==
    ASSUME Inv, NEW p \in Protocols, NEW what \in {"login", "connect"}, IsNext(what, p)
    PROVE  /\ p \in begun /\ p \notin acceptPackets /\ owner[p] = None
           /\ ~HasAttempt(Tail(tasks), p) /\ ~HasLogin(Tail(tasks), p)
           /\ \A o \in Players : <<p, o>> \notin timers /\ client[o] # p
           /\ what = "login" => Unborn(p) /\ (conn[p] # "open" => HasRelease(Tail(tasks), p))
<1>1. /\ tasks \in Seq(Tasks) /\ tasks # <<>> /\ Orderly(tasks, conn, owner, acceptPackets)
      /\ Head(tasks).do = what /\ Attempts(Head(tasks), p)
  BY NextTask DEF Inv, IsTask, Attempts
<1>2. /\ HasAttempt(tasks, p) /\ ~HasAttempt(Tail(tasks), p) /\ ~HasLogin(Tail(tasks), p)
      /\ what = "login" => HasLogin(tasks, p)
      /\ what = "login" /\ conn[p] # "open" => HasRelease(Tail(tasks), p)
  BY <1>1, AttemptMade
<1>3. p \in begun /\ \A o \in Players : <<p, o>> \notin timers
  BY <1>2 DEF Inv, OneAttempt
<1>4. owner[p] = None /\ p \notin acceptPackets
  BY <1>2 DEF Inv, Waiting, Undecided
<1>5. \A o \in Players : client[o] # p
  BY <1>4, NoneAssumption DEF Inv, Agreed, Players
<1> QED BY <1>2, <1>3, <1>4, <1>5 DEF Unborn

\* Once it is made the protocol has decided.
LEMMA Decided ==
    ASSUME Inv, NEW p \in Protocols, NEW what \in {"login", "connect"}, IsNext(what, p),
           begun' = begun, timers' = timers,
           \A q \in Protocols : /\ HasAttempt(tasks', q) => HasAttempt(Tail(tasks), q)
                                /\ HasLogin(tasks', q) => HasLogin(Tail(tasks), q)
    PROVE  /\ OneAttempt'
           /\ \A q \in Protocols : Undecided(q)' => Undecided(q) /\ q # p
           /\ \A q \in Protocols : Unborn(q)' => Unborn(q) /\ q # p
<1>1. \A q \in Protocols : /\ HasAttempt(tasks', q) => HasAttempt(tasks, q)
                           /\ HasLogin(tasks', q) => HasLogin(tasks, q)
  BY NextTask
<1>2. /\ OneAttempt'
      /\ \A q \in Protocols : Undecided(q)' => Undecided(q)
      /\ \A q \in Protocols : Unborn(q)' => Unborn(q)
  BY <1>1, AttemptsKept DEF Inv
<1>3. ~Undecided(p)' /\ ~Unborn(p)'
  BY AttemptIsNext DEF Undecided, Unborn
<1> QED BY <1>2, <1>3

\* A login creates a Player nobody knows, in the world or not.
LEMMA LoginNewKeeps ==
    ASSUME Inv, NEW p \in Protocols, LoginNew(p)
    PROVE  Inv'
<1>1. /\ IsNext("login", p) /\ online = None
      /\ owner' = [owner EXCEPT ![p] = p] /\ client' = [client EXCEPT ![p] = p]
      /\ UNCHANGED <<begun, timers, isConnecting, removed, toRelease>>
  BY DEF LoginNew
<1>2. Typed /\ OneAttempt /\ Waiting /\ Agreed /\ Acting /\ Counted /\ Swept
  BY DEF Inv
<1>3. p \in Players /\ p # None /\ None \notin Players
  BY NoneAssumption DEF Players
<1>4. /\ p \in begun /\ p \notin acceptPackets /\ owner[p] = None
      /\ \A o \in Players : client[o] # p
      /\ Unborn(p) /\ (conn[p] # "open" => HasRelease(Tail(tasks), p))
  BY <1>1, AttemptIsNext
<1>5. /\ client[p] = None /\ refs[p] = 0 /\ p \notin removed /\ p \notin toRelease
      /\ \A i \in DOMAIN bufferedProtocols : bufferedProtocols[i] # p
  BY <1>2, <1>4 DEF Waiting, Typed
<1>6. /\ \A q \in Protocols : owner'[q] = IF q = p THEN p ELSE owner[q]
      /\ \A q \in Players : client'[q] = IF q = p THEN p ELSE client[q]
      /\ owner' \in [Protocols -> Players \cup {None}] /\ client' \in [Players -> Protocols \cup {None}]
  BY <1>1, <1>2, <1>3 DEF Typed
<1>7. Agreed'
  <2> SUFFICES ASSUME NEW q \in Protocols, NEW o \in Players
               PROVE  owner'[q] = o <=> client'[o] = q
    BY DEF Agreed
  <2>1. q # None /\ (owner[q] = o <=> client[o] = q)
    BY <1>2, NoneAssumption DEF Agreed
  <2>2. CASE q = p
    BY <1>3, <1>4, <1>6, <2>2
  <2>3. CASE q # p
    BY <1>3, <1>5, <1>6, <2>1, <2>3
  <2> QED BY <2>2, <2>3
<1>8. /\ Tail(tasks) \in Seq(Tasks)
      /\ Orderly(Tail(tasks), conn, owner', acceptPackets)
      /\ Orderly(Tail(tasks), conn, owner', acceptPackets \cup {p})
      /\ \A q \in Protocols : HasRelease(tasks, q) => HasRelease(Tail(tasks), q)
  <2>1. /\ Tail(tasks) \in Seq(Tasks) /\ Orderly(Tail(tasks), conn, owner, acceptPackets)
        /\ \A q \in Protocols : HasRelease(tasks, q) => HasRelease(Tail(tasks), q)
    BY <1>1, NextTask
  <2>2. \A q \in Protocols : q # p => owner'[q] = owner[q]
    BY <1>6
  <2>3. /\ Orderly(Tail(tasks), conn, owner', acceptPackets)
        /\ Orderly(Tail(tasks), conn, owner', acceptPackets \cup {p})
    BY <1>4, <2>1, <2>2, OwnerOrderly
  <2> QED BY <2>1, <2>3
<1>9. CASE /\ Drops(p, <<>>) /\ UNCHANGED <<acceptPackets, bufferedProtocols, sweeps, online>>
           /\ (refs' = refs \/ refs' = [refs EXCEPT ![p] = 1])
  <2>1. /\ conn' \in [Protocols -> {"open", "closed", "gone"}] /\ tasks' \in Seq(Tasks)
        /\ Orderly(tasks', conn', owner', acceptPackets)
        /\ \A r \in Protocols :
              /\ HasAttempt(tasks', r) => HasAttempt(Tail(tasks), r)
              /\ HasLogin(tasks', r) => HasLogin(Tail(tasks), r)
              /\ HasRelease(Tail(tasks), r) => HasRelease(tasks', r)
              /\ conn'[r] # "open" => conn[r] # "open" \/ HasRelease(tasks', r)
    BY <1>1, <1>8, <1>9, TaskDrops DEF Whats
  <2>2. Orderly(tasks, conn, owner, acceptPackets)'
    BY <1>9, <2>1
  <2>3. /\ OneAttempt'
        /\ \A q \in Protocols : Undecided(q)' => Undecided(q) /\ q # p
        /\ \A q \in Protocols : Unborn(q)' => Unborn(q) /\ q # p
    BY <1>1, <2>1, Decided
  <2>4. /\ refs' \in [Players -> Int] /\ \A q \in Players : q # p => refs'[q] = refs[q]
        /\ refs'[p] \in {0, 1}
    BY <1>2, <1>3, <1>5, <1>9 DEF Typed
  <2>5. Typed'
    BY <1>1, <1>2, <1>6, <1>9, <2>1, <2>4 DEF Typed
  <2>6. Waiting'
    BY <1>1, <1>2, <1>3, <1>6, <1>9, <2>3, <2>4 DEF Waiting, Players
  <2>7. Acting'
    BY <1>1, <1>2, <1>4, <1>6, <1>9 DEF Acting, Typed
  <2>8. Counted'
    <3>1. \A q \in Players : q # p => Held(q)' = Held(q)
      BY <1>1, <1>6, <1>9 DEF Held
    <3>2. Held(p)' = 1
      BY <1>1, <1>3, <1>5, <1>6, <1>9 DEF Held
    <3> QED BY <1>1, <1>2, <1>3, <1>5, <1>9, <2>4, <3>1, <3>2 DEF Counted
  <2>9. Swept'
    BY <1>2, <1>8, <1>9, <2>1 DEF Swept, Typed
  <2> QED BY <1>7, <2>2, <2>3, <2>5, <2>6, <2>7, <2>8, <2>9 DEF Inv
<1>10. CASE /\ online' = p /\ refs' = [refs EXCEPT ![p] = 2]
            /\ acceptPackets' = acceptPackets \cup {p}
            /\ AddToAutosend(p) /\ Done(<<>>) /\ UNCHANGED conn
  <2>1. tasks' = Tail(tasks)
    BY <1>8, <1>10, NothingPosted
  <2>2. Orderly(tasks, conn, owner, acceptPackets)'
    BY <1>8, <1>10, <2>1
  <2>3. /\ OneAttempt'
        /\ \A q \in Protocols : Undecided(q)' => Undecided(q) /\ q # p
        /\ \A q \in Protocols : Unborn(q)' => Unborn(q) /\ q # p
    BY <1>1, <2>1, Decided
  <2>4. /\ refs' \in [Players -> Int] /\ \A q \in Players : q # p => refs'[q] = refs[q]
        /\ refs'[p] = 2
    BY <1>2, <1>3, <1>10 DEF Typed
  <2>5. /\ bufferedProtocols' \in Seq(Protocols) /\ sweeps' \in Nat /\ sweeps' > 0
        /\ \A k \in DOMAIN bufferedProtocols' : \/ bufferedProtocols'[k] = p
              \/ \E j \in DOMAIN bufferedProtocols : bufferedProtocols'[k] = bufferedProtocols[j]
        /\ \A k, l \in DOMAIN bufferedProtocols' :
              bufferedProtocols'[k] = bufferedProtocols'[l] => k = l
    BY <1>2, <1>5, <1>10, AddedToAutosend DEF Typed, Swept
  <2>6. Typed'
    BY <1>1, <1>2, <1>3, <1>6, <1>8, <1>10, <2>1, <2>4, <2>5 DEF Typed
  <2>7. Waiting'
    BY <1>1, <1>2, <1>3, <1>6, <1>10, <2>3, <2>4, <2>5 DEF Waiting, Players
  <2>8. Acting'
    BY <1>1, <1>2, <1>5, <1>6, <1>10 DEF Acting, Typed
  <2>9. Counted'
    <3>1. \A q \in Players : q # p => Held(q)' = Held(q) /\ online' # q
      BY <1>1, <1>3, <1>6, <1>10 DEF Held
    <3>2. Held(p)' = 2
      BY <1>1, <1>3, <1>5, <1>6, <1>10 DEF Held
    <3> QED BY <1>1, <1>2, <1>5, <1>10, <2>4, <3>1, <3>2 DEF Counted
  <2>10. Swept'
    <3>1. ASSUME NEW k \in DOMAIN bufferedProtocols', conn'[bufferedProtocols'[k]] # "open"
          PROVE  HasRelease(tasks', bufferedProtocols'[k])
      <4>1. CASE bufferedProtocols'[k] = p
        BY <1>4, <1>10, <2>1, <3>1, <4>1
      <4>2. CASE bufferedProtocols'[k] # p
        <5>1. PICK j \in DOMAIN bufferedProtocols : bufferedProtocols'[k] = bufferedProtocols[j]
          BY <2>5, <4>2
        <5>2. bufferedProtocols[j] \in Protocols /\ HasRelease(tasks, bufferedProtocols[j])
          BY <1>2, <1>10, <3>1, <5>1 DEF Typed, Swept
        <5> QED BY <1>8, <2>1, <5>1, <5>2
      <4> QED BY <4>1, <4>2
    <3> QED BY <2>5, <3>1 DEF Swept
  <2> QED BY <1>7, <2>2, <2>3, <2>6, <2>7, <2>8, <2>9, <2>10 DEF Inv
<1> QED BY <1>9, <1>10 DEF LoginNew, autosend

\* connect(): refused, too late, or attached.
LEMMA ConnectKeeps ==
    ASSUME Inv, NEW p \in Protocols, NEW what \in {"login", "connect"}, IsNext(what, p),
           NEW o \in Players, Connect(p, o),
           UNCHANGED <<begun, timers, online, removed, toRelease>>,
           bufferedProtocols' \in Seq(Protocols), sweeps' \in Nat,
           bufferedProtocols' # <<>> => sweeps' > 0,
           \A k \in DOMAIN bufferedProtocols' : \/ what = "login" /\ bufferedProtocols'[k] = p
              \/ \E j \in DOMAIN bufferedProtocols : bufferedProtocols'[k] = bufferedProtocols[j],
           \A k, l \in DOMAIN bufferedProtocols' :
              bufferedProtocols'[k] = bufferedProtocols'[l] => k = l
    PROVE  Inv'
<1>1. Typed /\ OneAttempt /\ Waiting /\ Agreed /\ Acting /\ Counted /\ Swept
  BY DEF Inv
<1>2. p # None /\ None \notin Players
  BY NoneAssumption DEF Players
<1>3. /\ p \notin acceptPackets /\ owner[p] = None /\ \A q \in Players : client[q] # p
      /\ what = "login" => (conn[p] # "open" => HasRelease(Tail(tasks), p))
  BY AttemptIsNext
<1>4. /\ Tail(tasks) \in Seq(Tasks) /\ Orderly(Tail(tasks), conn, owner, acceptPackets)
      /\ \A q \in Protocols : HasRelease(tasks, q) => HasRelease(Tail(tasks), q)
  BY NextTask
<1>5. ASSUME \A q \in Protocols : /\ HasAttempt(tasks', q) => HasAttempt(Tail(tasks), q)
                                  /\ HasLogin(tasks', q) => HasLogin(Tail(tasks), q)
      PROVE  /\ OneAttempt'
             /\ \A q \in Protocols : Undecided(q)' => Undecided(q) /\ q # p
             /\ \A q \in Protocols : Unborn(q)' => Unborn(q) /\ q # p
  BY <1>5, Decided
<1>6. ASSUME \A q \in Protocols :
                /\ HasRelease(Tail(tasks), q) => HasRelease(tasks', q)
                /\ conn'[q] # "open" => conn[q] # "open" \/ HasRelease(tasks', q)
      PROVE  Swept'
  <2>1. ASSUME NEW k \in DOMAIN bufferedProtocols', conn'[bufferedProtocols'[k]] # "open"
        PROVE  HasRelease(tasks', bufferedProtocols'[k])
    <3>1. CASE what = "login" /\ bufferedProtocols'[k] = p
      BY <1>3, <1>6, <2>1, <3>1
    <3>2. CASE \E j \in DOMAIN bufferedProtocols : bufferedProtocols'[k] = bufferedProtocols[j]
      <4>1. PICK j \in DOMAIN bufferedProtocols : bufferedProtocols'[k] = bufferedProtocols[j]
        BY <3>2
      <4>2. /\ bufferedProtocols[j] \in Protocols
            /\ conn[bufferedProtocols[j]] # "open" => HasRelease(tasks, bufferedProtocols[j])
        BY <1>1, <4>1 DEF Typed, Swept
      <4> QED BY <1>4, <1>6, <2>1, <4>1, <4>2
    <3> QED BY <3>1, <3>2
  <2> QED BY <2>1 DEF Swept
<1>7. \A q \in Protocols : q # p /\ (\A i \in DOMAIN bufferedProtocols : bufferedProtocols[i] # q)
                        => (\A i \in DOMAIN bufferedProtocols' : bufferedProtocols'[i] # q)
  OBVIOUS
<1>8. CASE Drops(p, <<>>) /\ UNCHANGED <<sessionVars, refs>>
  <2>1. UNCHANGED <<owner, acceptPackets, client, isConnecting, refs>>
    BY <1>8 DEF sessionVars
  <2>2. /\ conn' \in [Protocols -> {"open", "closed", "gone"}] /\ tasks' \in Seq(Tasks)
        /\ Orderly(tasks', conn', owner, acceptPackets)
        /\ \A r \in Protocols :
              /\ HasAttempt(tasks', r) => HasAttempt(Tail(tasks), r)
              /\ HasLogin(tasks', r) => HasLogin(Tail(tasks), r)
              /\ HasRelease(Tail(tasks), r) => HasRelease(tasks', r)
              /\ conn'[r] # "open" => conn[r] # "open" \/ HasRelease(tasks', r)
    BY <1>4, <1>8, TaskDrops DEF Whats
  <2>3. Orderly(tasks, conn, owner, acceptPackets)'
    BY <2>1, <2>2
  <2>4. Typed'
    BY <1>1, <2>1, <2>2 DEF Typed
  <2>5. Waiting'
    BY <1>1, <1>5, <1>7, <2>1, <2>2 DEF Waiting
  <2> QED BY <1>5, <1>6, <2>1, <2>2, <2>3, <2>4, <2>5, SessionKept DEF Inv
<1>9. CASE Done(<<>>) /\ UNCHANGED <<conn, sessionVars, refs>>
  <2>1. UNCHANGED <<conn, owner, acceptPackets, client, isConnecting, refs>>
    BY <1>9 DEF sessionVars
  <2>2. tasks' = Tail(tasks)
    BY <1>4, <1>9, NothingPosted
  <2>3. Orderly(tasks, conn, owner, acceptPackets)'
    BY <1>4, <2>1, <2>2
  <2>4. Typed'
    BY <1>1, <1>4, <2>1, <2>2 DEF Typed
  <2>5. Waiting'
    BY <1>1, <1>5, <1>7, <2>1, <2>2 DEF Waiting
  <2> QED BY <1>5, <1>6, <2>1, <2>2, <2>3, <2>4, <2>5, SessionKept DEF Inv
<1>10. CASE MayAttach(p, o) /\ Attached(p, o)
  <2>1. /\ o = online /\ client[o] = None
        /\ owner' = [owner EXCEPT ![p] = o] /\ client' = [client EXCEPT ![o] = p]
        /\ isConnecting' = isConnecting \ {o} /\ refs' = [refs EXCEPT ![o] = @ + 1]
        /\ acceptPackets' = acceptPackets \cup {p} /\ Done(<<>>) /\ UNCHANGED conn
    BY <1>10 DEF MayAttach, Attached, AttachRefs
  <2>2. tasks' = Tail(tasks)
    BY <1>4, <2>1, NothingPosted
  <2>3. /\ \A q \in Protocols : owner'[q] = IF q = p THEN o ELSE owner[q]
        /\ \A q \in Players : client'[q] = IF q = o THEN p ELSE client[q]
        /\ \A q \in Players : refs'[q] = IF q = o THEN refs[q] + 1 ELSE refs[q]
    BY <1>1, <2>1 DEF Typed
  <2>4. Orderly(tasks, conn, owner, acceptPackets)'
    <3>1. Orderly(Tail(tasks), conn, owner', acceptPackets \cup {p})
      <4>1. \A q \in Protocols : q # p => owner'[q] = owner[q]
        BY <2>3
      <4> QED BY <1>3, <1>4, <4>1, OwnerOrderly
    <3> QED BY <2>1, <2>2, <3>1
  <2>5. Typed'
    BY <1>1, <1>4, <2>1, <2>2 DEF Typed
  <2>6. Waiting'
    <3>1. \A q \in Protocols : Unborn(q) => q # o
      BY <1>1, <2>1 DEF Waiting
    <3> QED BY <1>1, <1>5, <1>7, <2>1, <2>2, <2>3, <3>1 DEF Waiting, Players
  <2>7. Agreed'
    <3> SUFFICES ASSUME NEW q \in Protocols, NEW r \in Players
                 PROVE  owner'[q] = r <=> client'[r] = q
      BY DEF Agreed
    <3>1. q # None /\ (owner[q] = r <=> client[r] = q)
      BY <1>1, NoneAssumption DEF Agreed
    <3>2. CASE q = p
      BY <1>3, <2>3, <3>2
    <3>3. CASE q # p
      BY <2>1, <2>3, <3>1, <3>3
    <3> QED BY <3>2, <3>3
  <2>8. Acting'
    BY <1>1, <2>1, <2>3 DEF Acting, Typed
  <2>9. Counted'
    <3>1. Held(o)' = Held(o) + 1
      BY <1>2, <2>1, <2>3 DEF Held
    <3>2. \A q \in Players : q # o => Held(q)' = Held(q)
      BY <2>1, <2>3 DEF Held
    <3> QED BY <1>1, <2>1, <2>3, <3>1, <3>2 DEF Counted
  <2> QED BY <1>5, <1>6, <2>1, <2>2, <2>4, <2>5, <2>6, <2>7, <2>8, <2>9 DEF Inv
<1> QED BY <1>8, <1>9, <1>10 DEF Connect

\* The attempt that a timer put off.
LEMMA RunConnectKeeps ==
    ASSUME Inv, NEW p \in Protocols, RunConnect(p)
    PROVE  Inv'
<1>1. /\ IsNext("connect", p) /\ Connect(p, Head(tasks).player)
      /\ UNCHANGED <<begun, timers, online, removed, toRelease, bufferedProtocols, sweeps>>
  BY DEF RunConnect, worldVars, autosend
<1>2. Head(tasks) \in Tasks /\ Head(tasks).do = "connect"
  BY <1>1, NextTask DEF IsTask
<1> PICK o \in Players : o = Head(tasks).player
  BY <1>2 DEF Tasks
<1>3. Connect(p, o)
  BY <1>1
<1>4. /\ bufferedProtocols' \in Seq(Protocols) /\ sweeps' \in Nat
      /\ bufferedProtocols' # <<>> => sweeps' > 0
      /\ \A k \in DOMAIN bufferedProtocols' :
            \E j \in DOMAIN bufferedProtocols : bufferedProtocols'[k] = bufferedProtocols[j]
      /\ \A k, l \in DOMAIN bufferedProtocols' :
            bufferedProtocols'[k] = bufferedProtocols'[l] => k = l
  BY <1>1 DEF Inv, Typed, Swept
<1> QED BY <1>1, <1>3, <1>4, ConnectKeeps

\* A login finds the character in the world, with a client or without.
LEMMA LoginReplaceKeeps ==
    ASSUME Inv, NEW p \in Protocols, LoginReplace(p)
    PROVE  Inv'
<1>1. /\ IsNext("login", p) /\ online # None /\ AddToAutosend(p)
      /\ UNCHANGED <<begun, online, removed, toRelease>>
  BY DEF LoginReplace, worldVars
<1>2. Typed /\ OneAttempt /\ Waiting /\ Agreed /\ Acting /\ Counted /\ Swept
  BY DEF Inv
<1>3. /\ p \in begun /\ p \notin acceptPackets /\ owner[p] = None
      /\ ~HasAttempt(Tail(tasks), p) /\ ~HasLogin(Tail(tasks), p)
      /\ \A q \in Players : <<p, q>> \notin timers
      /\ Unborn(p) /\ (conn[p] # "open" => HasRelease(Tail(tasks), p))
  BY <1>1, AttemptIsNext
<1>4. \A i \in DOMAIN bufferedProtocols : bufferedProtocols[i] # p
  BY <1>2, <1>3 DEF Waiting
<1>5. /\ bufferedProtocols' \in Seq(Protocols) /\ sweeps' \in Nat /\ sweeps' > 0
      /\ \A k \in DOMAIN bufferedProtocols' : \/ bufferedProtocols'[k] = p
            \/ \E j \in DOMAIN bufferedProtocols : bufferedProtocols'[k] = bufferedProtocols[j]
      /\ \A k, l \in DOMAIN bufferedProtocols' :
            bufferedProtocols'[k] = bufferedProtocols'[l] => k = l
  BY <1>1, <1>2, <1>4, AddedToAutosend DEF Typed, Swept
<1> PICK o \in Players : o = online
  BY <1>1, <1>2 DEF Typed
<1>6. CASE client[online] = None
  <2>1. Connect(p, o) /\ UNCHANGED timers
    BY <1>6 DEF LoginReplace
  <2> QED BY <1>1, <1>5, <2>1, ConnectKeeps
<1>7. CASE client[online] # None
  <2> PICK q \in Protocols : q = client[online]
    BY <1>1, <1>2, <1>7 DEF Typed
  <2>1. /\ conn' = Disconnected(q) /\ Done(Releases(q))
        /\ isConnecting' = isConnecting \cup {o} /\ timers' = timers \cup {<<p, o>>}
        /\ UNCHANGED <<owner, acceptPackets, client, refs>>
    BY <1>7 DEF LoginReplace
  <2>2. /\ Tail(tasks) \in Seq(Tasks) /\ Orderly(Tail(tasks), conn, owner, acceptPackets)
        /\ \A r \in Protocols :
              /\ HasAttempt(Tail(tasks), r) => HasAttempt(tasks, r)
              /\ HasLogin(Tail(tasks), r) => HasLogin(tasks, r)
              /\ HasRelease(tasks, r) => HasRelease(Tail(tasks), r)
    BY <1>1, NextTask
  <2>3. /\ conn' \in [Protocols -> {"open", "closed", "gone"}] /\ tasks' \in Seq(Tasks)
        /\ Orderly(tasks', conn', owner, acceptPackets)
        /\ \A r \in Protocols :
              /\ HasAttempt(tasks', r) => HasAttempt(Tail(tasks), r)
              /\ HasLogin(tasks', r) => HasLogin(Tail(tasks), r)
              /\ HasRelease(Tail(tasks), r) => HasRelease(tasks', r)
              /\ conn'[r] # "open" => conn[r] # "open" \/ HasRelease(tasks', r)
    <3>1. tasks' = Tail(tasks) \o Releases(q)
      BY <2>1 DEF Done
    <3>2. conn \in [Protocols -> {"open", "closed", "gone"}]
      BY <1>2 DEF Typed
    <3> QED BY ONLY <2>1, <2>2, <3>1, <3>2, DropKeeps, q \in Protocols
  <2>4. Orderly(tasks, conn, owner, acceptPackets)'
    BY <2>1, <2>3
  <2>5. Typed'
    BY <1>1, <1>2, <1>5, <2>1, <2>3 DEF Typed
  <2>6. \A r \in Protocols : /\ HasAttempt(tasks', r) => HasAttempt(tasks, r) /\ r # p
                             /\ HasLogin(tasks', r) => HasLogin(tasks, r) /\ r # p
    BY <1>3, <2>2, <2>3
  <2>7. OneAttempt'
    <3>1. \A r \in Protocols, x \in Players :
             <<r, x>> \in timers' => <<r, x>> \in timers \/ (r = p /\ x = o)
      BY <2>1
    <3>2. \A r \in Protocols : HasAttempt(tasks', r) => r \in begun'
      BY <1>1, <1>2, <2>6 DEF OneAttempt
    <3>3. \A r \in Protocols, x \in Players :
             <<r, x>> \in timers' => r \in begun' /\ ~HasAttempt(tasks', r)
      BY <1>1, <1>2, <1>3, <2>6, <3>1 DEF OneAttempt
    <3>4. \A r \in Protocols, x \in Players, y \in Players :
             <<r, x>> \in timers' /\ <<r, y>> \in timers' => x = y
      BY <1>2, <1>3, <3>1 DEF OneAttempt
    <3> QED BY <3>2, <3>3, <3>4 DEF OneAttempt
  <2>8. \A r \in Protocols : /\ Undecided(r)' => Undecided(r)
                             /\ Unborn(r)' => Unborn(r) /\ r # p
    <3>1. \A r \in Protocols : Unborn(r)' => Unborn(r) /\ r # p
      BY <1>1, <1>3, <2>6 DEF Unborn
    <3>2. Undecided(p)
      BY <1>1, AttemptIsNext, NextTask, AttemptMade DEF Inv, IsTask, Attempts, Undecided
    <3>3. \A r \in Protocols : Undecided(r)' => Undecided(r)
      BY <1>1, <2>1, <2>6, <3>2 DEF Undecided
    <3> QED BY <3>1, <3>3
  <2>9. Waiting'
    <3>1. \A r \in Protocols : r # p /\ (\A i \in DOMAIN bufferedProtocols : bufferedProtocols[i] # r)
                        => (\A i \in DOMAIN bufferedProtocols' : bufferedProtocols'[i] # r)
      BY <1>5
    <3> QED BY <1>1, <1>2, <2>1, <2>8, <3>1 DEF Waiting
  <2>10. Swept'
    <3>1. ASSUME NEW k \in DOMAIN bufferedProtocols', conn'[bufferedProtocols'[k]] # "open"
          PROVE  HasRelease(tasks', bufferedProtocols'[k])
      <4>1. CASE bufferedProtocols'[k] = p
        BY <1>3, <2>3, <3>1, <4>1
      <4>2. CASE bufferedProtocols'[k] # p
        <5>1. PICK j \in DOMAIN bufferedProtocols : bufferedProtocols'[k] = bufferedProtocols[j]
          BY <1>5, <4>2
        <5>2. /\ bufferedProtocols[j] \in Protocols
              /\ conn[bufferedProtocols[j]] # "open" => HasRelease(tasks, bufferedProtocols[j])
          BY <1>2, <5>1 DEF Typed, Swept
        <5> QED BY <2>2, <2>3, <3>1, <5>1, <5>2
      <4> QED BY <4>1, <4>2
    <3> QED BY <1>5, <3>1 DEF Swept
  <2> QED BY <1>1, <2>1, <2>4, <2>5, <2>7, <2>9, <2>10, SessionKept DEF Inv
<1> QED BY <1>6, <1>7

-----------------------------------------------------------------------------
(* The theorems.                                                           *)

\* The invariant is inductive.
LEMMA NextKeeps == Inv /\ [Next]_vars => Inv'
<1> SUFFICES ASSUME Inv, [Next]_vars PROVE Inv'
  OBVIOUS
<1>1. CASE \E p \in Protocols : FirstPacket(p) \/ ClientPacket(p) \/ HangUp(p) \/ Free(p)
  BY <1>1, FirstPacketKeeps, ClientPacketKeeps, HangUpKeeps
<1>2. CASE RunTask
  BY <1>2, LoginNewKeeps, LoginReplaceKeeps, RunConnectKeeps, RunReleaseKeeps, RunPacketKeeps,
     RunLogoutKeeps DEF RunTask
<1>3. CASE \E p \in Protocols, o \in Players : ConnectDue(p, o)
  BY <1>3, ConnectDueKeeps
<1>4. CASE \E o \in Players : PingTimeout(o) \/ Kick(o) \/ Die(o)
  BY <1>4, TakenOutKeeps
<1>5. CASE Cleanup \/ SweepEnds
  BY <1>5, CleanupKeeps, SweepEndsKeeps
<1>6. CASE UNCHANGED vars
  <2>1. UNCHANGED <<conn, begun, tasks, timers, owner, acceptPackets, client, isConnecting,
                    bufferedProtocols, sweeps, online, removed, toRelease, refs>>
    BY <1>6 DEF vars
  <2> QED BY <2>1 DEF Inv, Typed, OneAttempt, Waiting, Undecided, Unborn, Agreed, Acting,
             Counted, Held, Swept
<1> QED BY <1>1, <1>2, <1>3, <1>4, <1>5, <1>6 DEF Next

\* It holds in every state.
LEMMA InvHolds == Spec => []Inv
<1>1. Init => Inv
  BY Initially
<1>2. Inv /\ [Next]_vars => Inv'
  BY NextKeeps
<1> QED BY <1>1, <1>2, PTL DEF Spec

\* References are at least those that are held, for all but a failed preload.
LEMMA References ==
    ASSUME Typed, Counted, NEW o \in Players
    PROVE  /\ refs[o] \in -1..2
           /\ (online = o \/ o \in removed) /\ (online = o \/ client[o] # None) => refs[o] > 0
<1>1. Held(o) \in 0..2 /\ (online = o \/ client[o] # None => Held(o) > 0)
  BY DEF Held
<1> QED BY <1>1 DEF Typed, Counted

\* A protocol acts for a player exactly when it is that player's client, and
\* references are counted right (ProtocolGame::login, connect, release).
THEOREM OneClientHolds == Spec => []OneClient
<1>1. Inv => OneClient
  <2> SUFFICES ASSUME Inv PROVE OneClient
    OBVIOUS
  <2>1. tasks \in Seq([do : {"login", "connect", "release", "logout", "packet"},
                       protocol : Protocols, player : Players \cup {None}])
    <3> DEFINE All == [do : {"login", "connect", "release", "logout", "packet"},
                       protocol : Protocols, player : Players \cup {None}]
    <3>1. tasks \in Seq(Tasks) /\ Tasks \subseteq All
      BY DEF Inv, Typed, Tasks, Whats
    <3> HIDE DEF All
    <3>2. tasks \in Seq(All)
      BY <3>1, SeqMonotonic
    <3> QED BY <3>2 DEF All
  <2>2. refs \in [Players -> -1..2]
    BY References DEF Inv, Typed
  <2>3. TypeOK
    BY <2>1, <2>2 DEF Inv, Typed, TypeOK
  <2> QED BY <2>3 DEF Inv, Agreed, OneClient
<1> QED BY <1>1, InvHolds, PTL

\* No packet's task finds a deleted Player, though it holds a raw pointer: the
\* release that gives up the client's reference comes after it in the list.
THEOREM NoUseAfterFreeHolds == Spec => []NoUseAfterFree
<1>1. Inv => NoUseAfterFree
  <2> SUFFICES ASSUME Inv PROVE NoUseAfterFree
    OBVIOUS
  <2>1. \A o \in Players : (online = o \/ o \in removed) /\ (online = o \/ client[o] # None) => refs[o] > 0
    BY References DEF Inv
  <2>2. online # None => refs[online] > 0
    BY <2>1 DEF Inv, Typed
  <2>3. ASSUME NEW p \in acceptPackets, owner[p] # None PROVE refs[owner[p]] > 0
    <3>1. p \in Protocols /\ owner[p] \in Players /\ (owner[p] = online \/ owner[p] \in removed)
      BY <2>3 DEF Inv, Typed, Acting
    <3>2. client[owner[p]] = p /\ p # None
      BY <3>1, NoneAssumption DEF Inv, Agreed
    <3> QED BY <2>1, <3>1, <3>2
  <2>4. ASSUME NEW i \in DOMAIN tasks, tasks[i].do = "packet" PROVE refs[tasks[i].player] > 0
    <3>1. /\ tasks[i].protocol \in acceptPackets /\ tasks[i].player \in Players
          /\ owner[tasks[i].protocol] = tasks[i].player
      BY <2>4 DEF Inv, Orderly
    <3>2. tasks[i].player # None
      BY <3>1, NoneAssumption DEF Players
    <3> QED BY <2>3, <3>1, <3>2
  <2> QED BY <2>2, <2>3, <2>4 DEF NoUseAfterFree
<1> QED BY <1>1, InvHolds, PTL

\* Whoever is in the autosend list is connected, or his release is to come,
\* and the list is swept as long as somebody is in it.
THEOREM AutosendIsServedHolds == Spec => []AutosendIsServed
<1>1. Inv => AutosendIsServed
  BY DEF Inv, Swept, HasRelease, AutosendIsServed, Queued
<1> QED BY <1>1, InvHolds, PTL

-----------------------------------------------------------------------------
\* A set of numbers with something in it has a least one.
LEMMA LeastNumber ==
  ASSUME NEW T \in SUBSET Nat, T # {}
  PROVE  \E n \in T : \A m \in T : n <= m
<1>1. PICK n \in T : \A m \in T : ~(<<m, n>> \in OpToRel(<, Nat))
  BY WFMin, NatLessThanWellFounded
<1>2. \A m \in T : <<m, n>> \in OpToRel(<, Nat) <=> m < n
  BY DEF OpToRel
<1>3. \A m \in T : ~(m < n)
  BY <1>1, <1>2, Zenon
<1>4. QED BY <1>3

-----------------------------------------------------------------------------
(* The waiting list (WaitingList) *)

WaitEntries == [guid : Clients, left : Int]

\* Nobody has two entries.
Once(s) == \A i, j \in DOMAIN s : i < j => s[i].guid # s[j].guid

\* Those in the list s are in t, in the same order.
InOrder(s, t) ==
  /\ \A i \in DOMAIN s : \E k \in DOMAIN t : t[k].guid = s[i].guid
  /\ \A i, j \in DOMAIN s : i < j =>
       \E k, m \in DOMAIN t : k < m /\ t[k].guid = s[i].guid /\ t[m].guid = s[j].guid

\* Then nobody is in s twice, if he is not in t.
LEMMA OnceInOrder ==
  ASSUME NEW s, NEW t, InOrder(s, t), Once(t)
  PROVE  Once(s)
BY DEF InOrder, Once

\* Order is kept over two steps.
LEMMA OrderOfOrder ==
  ASSUME NEW r, NEW s \in Seq(WaitEntries), NEW t \in Seq(WaitEntries), InOrder(r, s), InOrder(s, t)
  PROVE  InOrder(r, t)
<1>1. ASSUME NEW i \in DOMAIN r PROVE \E k \in DOMAIN t : t[k].guid = r[i].guid
  BY DEF InOrder
<1>2. ASSUME NEW i \in DOMAIN r, NEW j \in DOMAIN r, i < j
      PROVE  \E k, m \in DOMAIN t : k < m /\ t[k].guid = r[i].guid /\ t[m].guid = r[j].guid
  <2>1. PICK a \in DOMAIN s, b \in DOMAIN s : a < b /\ s[a].guid = r[i].guid /\ s[b].guid = r[j].guid
    BY <1>2 DEF InOrder
  <2>2. PICK k \in DOMAIN t, m \in DOMAIN t : k < m /\ t[k].guid = s[a].guid /\ t[m].guid = s[b].guid
    BY <2>1 DEF InOrder
  <2> QED BY <2>1, <2>2
<1> QED BY <1>1, <1>2 DEF InOrder

\* The list r is s, of ns entries, and behind it t, of nt.
Concatenated(r, s, t, ns, nt) ==
  /\ DOMAIN s = 1..ns /\ DOMAIN t = 1..nt /\ DOMAIN r = 1..(ns + nt)
  /\ \A i \in 1..ns : r[i] = s[i]
  /\ \A i \in 1..nt : r[ns + i] = t[i]

\* s \o t is such a list.
LEMMA JoinedIs ==
  ASSUME NEW s \in Seq(WaitEntries), NEW t \in Seq(WaitEntries)
  PROVE  /\ s \o t \in Seq(WaitEntries) /\ Len(s) \in Nat /\ Len(t) \in Nat
         /\ Concatenated(s \o t, s, t, Len(s), Len(t))
BY DEF Concatenated

\* If the two parts of a list are in order, so is the list.
LEMMA JoinedKeepOrder ==
  ASSUME NEW ns \in Nat, NEW nt \in Nat, NEW np \in Nat, NEW nq \in Nat,
         NEW r, NEW s, NEW t, Concatenated(r, s, t, ns, nt), NEW o, NEW p, NEW q, Concatenated(o, p, q, np, nq),
         InOrder(s, p), InOrder(t, q)
  PROVE  InOrder(r, o)
<1>1. /\ DOMAIN s = 1..ns /\ DOMAIN t = 1..nt /\ DOMAIN r = 1..(ns + nt)
      /\ \A i \in 1..ns : r[i] = s[i]
      /\ \A i \in 1..nt : r[ns + i] = t[i]
  BY DEF Concatenated
<1>2. /\ DOMAIN p = 1..np /\ DOMAIN q = 1..nq /\ DOMAIN o = 1..(np + nq)
      /\ \A i \in 1..np : o[i] = p[i]
      /\ \A i \in 1..nq : o[np + i] = q[i]
  BY DEF Concatenated
<1>3. \A i \in 1..ns : \E k \in 1..np : p[k].guid = s[i].guid
  <2>1. DOMAIN s = 1..ns /\ DOMAIN p = 1..np
    BY <1>1, <1>2
  <2>2. \A i \in DOMAIN s : \E k \in DOMAIN p : p[k].guid = s[i].guid
    BY Zenon DEF InOrder
  <2> QED BY <2>1, <2>2, Zenon
<1>4. \A i \in 1..nt : \E k \in 1..nq : q[k].guid = t[i].guid
  <2>1. DOMAIN t = 1..nt /\ DOMAIN q = 1..nq
    BY <1>1, <1>2
  <2>2. \A i \in DOMAIN t : \E k \in DOMAIN q : q[k].guid = t[i].guid
    BY Zenon DEF InOrder
  <2> QED BY <2>1, <2>2, Zenon
<1>5. ASSUME NEW i \in 1..ns PROVE \E k \in 1..np : o[k].guid = r[i].guid
  <2>1. PICK k \in 1..np : p[k].guid = s[i].guid
    BY <1>3
  <2>2. r[i] = s[i] /\ o[k] = p[k]
    BY <1>1, <1>2
  <2> QED BY <2>1, <2>2
<1>6. ASSUME NEW i \in 1..nt PROVE \E k \in 1..nq : o[np + k].guid = r[ns + i].guid
  <2>1. PICK k \in 1..nq : q[k].guid = t[i].guid
    BY <1>4
  <2>2. r[ns + i] = t[i] /\ o[np + k] = q[k]
    BY <1>1, <1>2
  <2> QED BY <2>1, <2>2
<1>7. ASSUME NEW i \in 1..(ns + nt), i > ns PROVE \E k \in 1..(np + nq) : k > np /\ o[k].guid = r[i].guid
  <2>1. PICK h : h = i - ns
    OBVIOUS
  <2>2. h \in 1..nt /\ i = ns + h
    BY <1>7, <2>1
  <2>3. PICK k \in 1..nq : o[np + k].guid = r[i].guid
    BY <1>6, <2>2
  <2> QED BY <2>3
<1>8. \A i \in 1..(ns + nt) : \E k \in 1..(np + nq) : o[k].guid = r[i].guid
  <2> TAKE i \in 1..(ns + nt)
  <2>1. CASE i <= ns
    BY <1>5, <2>1
  <2>2. CASE i > ns
    BY <1>7, <2>2
  <2> QED BY <2>1, <2>2
<1>9. ASSUME NEW i \in 1..(ns + nt), NEW j \in 1..(ns + nt), i < j
      PROVE  \E k, m \in 1..(np + nq) : k < m /\ o[k].guid = r[i].guid /\ o[m].guid = r[j].guid
  <2>1. CASE j <= ns
    <3>1. i \in 1..ns /\ j \in 1..ns
      BY <1>9, <2>1
    <3>2. PICK k \in 1..np, m \in 1..np : k < m /\ p[k].guid = s[i].guid /\ p[m].guid = s[j].guid
      <4>1. i \in DOMAIN s /\ j \in DOMAIN s
        BY <1>1, <3>1
      <4>2. \E k, m \in DOMAIN p : k < m /\ p[k].guid = s[i].guid /\ p[m].guid = s[j].guid
        BY <1>9, <4>1 DEF InOrder
      <4> QED BY <1>2, <4>2
    <3> QED BY <1>1, <1>2, <3>1, <3>2
  <2>2. CASE i <= ns /\ j > ns
    <3>1. PICK k \in 1..np : o[k].guid = r[i].guid
      BY <1>5, <2>2
    <3>2. PICK m \in 1..(np + nq) : m > np /\ o[m].guid = r[j].guid
      BY <1>7, <2>2
    <3> QED BY <3>1, <3>2
  <2>3. CASE i > ns
    <3>1. PICK g, h : g = i - ns /\ h = j - ns
      OBVIOUS
    <3>2. g \in 1..nt /\ h \in 1..nt /\ g < h /\ i = ns + g /\ j = ns + h
      BY <1>9, <2>3, <3>1
    <3>3. PICK k \in 1..nq, m \in 1..nq : k < m /\ q[k].guid = t[g].guid /\ q[m].guid = t[h].guid
      <4>1. g \in DOMAIN t /\ h \in DOMAIN t
        BY <1>1, <3>2
      <4>2. \E k, m \in DOMAIN q : k < m /\ q[k].guid = t[g].guid /\ q[m].guid = t[h].guid
        BY <3>2, <4>1 DEF InOrder
      <4> QED BY <1>2, <4>2
    <3>4. o[np + k].guid = r[i].guid /\ o[np + m].guid = r[j].guid
      BY <1>1, <1>2, <3>2, <3>3
    <3> QED BY <3>3, <3>4
  <2> QED BY <2>1, <2>2, <2>3
<1>10. \A i \in DOMAIN r : \E k \in DOMAIN o : o[k].guid = r[i].guid
  BY <1>1, <1>2, <1>8
<1>11. ASSUME NEW i \in DOMAIN r, NEW j \in DOMAIN r, i < j
       PROVE  \E k, m \in DOMAIN o : k < m /\ o[k].guid = r[i].guid /\ o[m].guid = r[j].guid
  <2>1. i \in 1..(ns + nt) /\ j \in 1..(ns + nt)
    BY <1>1, <1>11
  <2>2. PICK k \in 1..(np + nq), m \in 1..(np + nq) : k < m /\ o[k].guid = r[i].guid /\ o[m].guid = r[j].guid
    BY <1>9, <1>11, <2>1
  <2>3. k \in DOMAIN o /\ m \in DOMAIN o
    BY <1>2
  <2> QED BY <2>2, <2>3
<1> QED BY <1>10, <1>11 DEF InOrder

\* The same for lists that are put together with \o.
LEMMA JoinedInOrder ==
  ASSUME NEW s \in Seq(WaitEntries), NEW t \in Seq(WaitEntries),
         NEW p \in Seq(WaitEntries), NEW q \in Seq(WaitEntries), InOrder(s, p), InOrder(t, q)
  PROVE  InOrder(s \o t, p \o q)
BY JoinedIs, JoinedKeepOrder

\* a holds the lists that the loop of cleanupList has made of the first n entries.
Cleans(list, n, a) ==
  a = [j \in 0..n |-> IF j = 0 THEN <<>>
                      ELSE IF TimedOut(list[j]) THEN a[j - 1] ELSE Append(a[j - 1], list[j])]

\* The last of them is the cleaned list.
LEMMA CleanedIs ==
  ASSUME NEW list
  PROVE  ListCleaned(list) = (CHOOSE a : Cleans(list, Len(list), a))[Len(list)]
BY DEF ListCleaned, Cleans

\* There are such lists.
LEMMA Cleanable ==
  ASSUME NEW list, NEW n \in Nat
  PROVE  \E a : Cleans(list, n, a)
<1> DEFINE Nx(x, j) == IF TimedOut(list[j]) THEN x ELSE Append(x, list[j])
           Bad == {m \in Nat : ~ \E a : Cleans(list, m, a)}
<1>1. SUFFICES ASSUME Bad # {} PROVE FALSE
  OBVIOUS
<1>2. Bad \in SUBSET Nat
  OBVIOUS
<1>3. PICK m \in Bad : \A k \in Bad : m <= k
  BY <1>1, <1>2, LeastNumber
<1>4. CASE m = 0
  <2>1. Cleans(list, 0, [j \in 0..0 |-> <<>>])
    BY DEF Cleans
  <2> QED BY <1>3, <1>4, <2>1
<1>5. CASE m # 0
  <2>1. m - 1 \in Nat /\ m - 1 \notin Bad
    BY <1>3, <1>5
  <2>2. PICK a : Cleans(list, m - 1, a)
    BY <2>1
  <2> DEFINE on == [j \in 0..m |-> IF j = m THEN Nx(a[m - 1], m) ELSE a[j]]
  <2>3. /\ DOMAIN on = 0..m /\ on[m] = Nx(on[m - 1], m)
        /\ \A j \in 0..(m - 1) : on[j] = a[j]
    BY <2>1
  <2>4. \A j \in 0..(m - 1) : a[j] = IF j = 0 THEN <<>> ELSE Nx(a[j - 1], j)
    BY <2>1, <2>2 DEF Cleans
  <2> HIDE DEF Nx
  <2>5. \A j \in 0..m : on[j] = IF j = 0 THEN <<>> ELSE Nx(on[j - 1], j)
    <3> TAKE j \in 0..m
    <3>1. CASE j = m
      BY <1>5, <2>3, <3>1
    <3>2. CASE j # m
      <4>1. j \in 0..(m - 1) /\ (j # 0 => j - 1 \in 0..(m - 1))
        BY <2>1, <3>2
      <4> HIDE DEF on
      <4> QED BY <2>3, <2>4, <4>1
    <3> QED BY <3>1, <3>2
  <2>6. on = [j \in 0..m |-> on[j]]
    OBVIOUS
  <2> HIDE DEF on
  <2>7. on = [j \in 0..m |-> IF j = 0 THEN <<>> ELSE Nx(on[j - 1], j)]
    BY <2>5, <2>6
  <2>8. Cleans(list, m, on)
    BY <2>7 DEF Cleans, Nx
  <2> QED BY <1>3, <2>8
<1> QED BY <1>4, <1>5

\* What is kept of the first n entries is in order.
Kept(s, list, n) ==
  /\ s \in Seq(WaitEntries)
  /\ \A i \in 1..Len(s) : \E k \in 1..n : list[k].guid = s[i].guid
  /\ \A i, j \in 1..Len(s) : i < j =>
       \E k, m \in 1..n : k < m /\ list[k].guid = s[i].guid /\ list[m].guid = s[j].guid

\* It stays so with the next entry, kept or dropped.
LEMMA KeepsOn ==
  ASSUME NEW list \in Seq(WaitEntries), NEW n \in 1..Len(list), NEW s, Kept(s, list, n - 1)
  PROVE  Kept(s, list, n) /\ Kept(Append(s, list[n]), list, n)
<1>1. PICK e \in WaitEntries : e = list[n]
  OBVIOUS
<1>0. s \in Seq(WaitEntries) /\ Len(s) \in Nat
  BY DEF Kept
<1>12. PICK l \in Nat : l = Len(s)
  BY <1>0
<1>2. PICK r : l = Len(s) /\ r = Append(s, e)
  BY <1>12
<1>3. n \in Nat /\ n - 1 \in Nat /\ n \in 1..n /\ \A k \in 1..(n - 1) : k \in 1..n /\ k < n
  OBVIOUS
<1>4. /\ \A i \in 1..l : \E k \in 1..(n - 1) : list[k].guid = s[i].guid
      /\ \A i, j \in 1..l : i < j =>
           \E k, m \in 1..(n - 1) : k < m /\ list[k].guid = s[i].guid /\ list[m].guid = s[j].guid
  BY <1>2 DEF Kept
<1>5. /\ \A i \in 1..l : \E k \in 1..n : list[k].guid = s[i].guid
      /\ \A i, j \in 1..l : i < j =>
           \E k, m \in 1..n : k < m /\ list[k].guid = s[i].guid /\ list[m].guid = s[j].guid
  BY <1>3, <1>4
<1>6. Kept(s, list, n)
  BY <1>0, <1>2, <1>5 DEF Kept
<1>7. r \in Seq(WaitEntries) /\ Len(r) = l + 1 /\ r[l + 1] = e /\ \A i \in 1..l : r[i] = s[i]
  BY <1>0, <1>2
<1>8. \A i \in 1..(l + 1) : i \in 1..l \/ i = l + 1
  OBVIOUS
<1>9. \A i \in 1..(l + 1) : \E k \in 1..n : list[k].guid = r[i].guid
  <2> TAKE i \in 1..(l + 1)
  <2>1. CASE i = l + 1
    BY <1>1, <1>3, <1>7, <2>1
  <2>2. CASE i # l + 1
    <3>1. i \in 1..l /\ r[i] = s[i]
      BY <1>7, <1>8, <2>2
    <3> QED BY <1>5, <3>1
  <2> QED BY <2>1, <2>2
<1>10. ASSUME NEW i \in 1..(l + 1), NEW j \in 1..(l + 1), i < j
       PROVE  \E k, m \in 1..n : k < m /\ list[k].guid = r[i].guid /\ list[m].guid = r[j].guid
  <2>1. i \in 1..l /\ r[i] = s[i]
    BY <1>7, <1>10
  <2>2. CASE j = l + 1
    <3>1. PICK k \in 1..(n - 1) : list[k].guid = s[i].guid
      BY <1>4, <2>1
    <3>2. k \in 1..n /\ k < n /\ list[n].guid = r[j].guid
      BY <1>1, <1>3, <1>7, <2>2
    <3> QED BY <1>3, <2>1, <3>1, <3>2
  <2>3. CASE j # l + 1
    <3>1. j \in 1..l /\ r[j] = s[j]
      BY <1>7, <1>8, <2>3
    <3>2. PICK k \in 1..n, m \in 1..n : k < m /\ list[k].guid = s[i].guid /\ list[m].guid = s[j].guid
      BY <1>5, <1>10, <2>1, <3>1
    <3> QED BY <2>1, <3>1, <3>2
  <2> QED BY <2>2, <2>3
<1>11. Kept(r, list, n)
  BY <1>7, <1>9, <1>10 DEF Kept
<1> QED BY <1>1, <1>2, <1>6, <1>11

\* cleanupList only leaves out.
LEMMA CleanedInOrder ==
  ASSUME NEW list \in Seq(WaitEntries)
  PROVE  ListCleaned(list) \in Seq(WaitEntries) /\ InOrder(ListCleaned(list), list)
<1>1. PICK N \in Nat : N = Len(list)
  OBVIOUS
<1>2. PICK a : a = CHOOSE f : Cleans(list, N, f)
  OBVIOUS
<1>3. Cleans(list, N, a)
  BY <1>2, Cleanable
<1>4. ListCleaned(list) = a[N]
  BY <1>1, <1>2, CleanedIs
<1>5. a[0] = <<>>
  BY <1>3 DEF Cleans
<1>6. \A n \in 1..N : a[n] = IF TimedOut(list[n]) THEN a[n - 1] ELSE Append(a[n - 1], list[n])
  <2>1. \A n \in 0..N : a[n] = IF n = 0 THEN <<>>
                               ELSE IF TimedOut(list[n]) THEN a[n - 1] ELSE Append(a[n - 1], list[n])
    BY <1>3 DEF Cleans
  <2> QED BY <2>1
<1> DEFINE Bad == {n \in 0..N : ~Kept(a[n], list, n)}
<1>7. Bad = {}
  <2> SUFFICES ASSUME Bad # {} PROVE FALSE
    OBVIOUS
  <2>1. Bad \in SUBSET Nat
    OBVIOUS
  <2>2. PICK n \in Bad : \A k \in Bad : n <= k
    BY <2>1, LeastNumber
  <2>3. Kept(a[0], list, 0)
    BY <1>5 DEF Kept
  <2>4. n \in 1..N /\ n - 1 \in 0..N /\ n - 1 \notin Bad
    BY <2>2, <2>3
  <2>5. Kept(a[n - 1], list, n - 1)
    BY <2>4
  <2>6. Kept(a[n - 1], list, n) /\ Kept(Append(a[n - 1], list[n]), list, n)
    BY <1>1, <2>4, <2>5, KeepsOn
  <2>7. Kept(a[n], list, n)
    BY <1>6, <2>4, <2>6
  <2> QED BY <2>2, <2>7
<1>8. Kept(a[N], list, N)
  BY <1>7
<1>9. PICK s : s = a[N]
  OBVIOUS
<1>10. Kept(s, list, Len(list))
  BY <1>1, <1>8, <1>9
<1>11. s \in Seq(WaitEntries) /\ InOrder(s, list)
  <2>1. s \in Seq(WaitEntries) /\ DOMAIN s = 1..Len(s) /\ DOMAIN list = 1..Len(list)
    BY <1>10 DEF Kept
  <2>2. \A i \in DOMAIN s : \E k \in DOMAIN list : list[k].guid = s[i].guid
    BY <1>10, <2>1 DEF Kept
  <2>3. ASSUME NEW i \in DOMAIN s, NEW j \in DOMAIN s, i < j
        PROVE  \E k, m \in DOMAIN list : k < m /\ list[k].guid = s[i].guid /\ list[m].guid = s[j].guid
    <3>1. i \in 1..Len(s) /\ j \in 1..Len(s)
      BY <2>1
    <3>2. \E k, m \in 1..Len(list) : k < m /\ list[k].guid = s[i].guid /\ list[m].guid = s[j].guid
      BY <1>10, <2>3, <3>1 DEF Kept
    <3> QED BY <2>1, <3>2
  <2> QED BY <2>1, <2>2, <2>3 DEF InOrder
<1> QED BY <1>4, <1>9, <1>11

\* Lists that name the same ones are in order.
LEMMA SameInOrder ==
  ASSUME NEW s, NEW t, DOMAIN s = DOMAIN t, \A i \in DOMAIN s : s[i].guid = t[i].guid
  PROVE  InOrder(s, t)
BY DEF InOrder

\* Every list is in order with itself.
LEMMA ItselfInOrder == ASSUME NEW s PROVE InOrder(s, s)
BY SameInOrder

\* waitList.erase only leaves out.
LEMMA ErasedInOrder ==
  ASSUME NEW s \in Seq(WaitEntries), NEW c
  PROVE  Erased(s, c) \in Seq(WaitEntries) /\ InOrder(Erased(s, c), s)
<1>1. CASE c \notin Guids(s)
  BY <1>1, ItselfInOrder DEF Erased
<1>2. CASE c \in Guids(s)
  <2>1. PICK k : k = PlaceIn(s, c)
    OBVIOUS
  <2>2. \E i \in DOMAIN s : s[i].guid = c
    BY <1>2 DEF Guids
  <2>3. k \in DOMAIN s
    BY <2>1, <2>2 DEF PlaceIn
  <2>4. PICK n \in Nat : n = Len(s) /\ DOMAIN s = 1..n
    OBVIOUS
  <2>5. PICK r : r = RemoveAt(s, k)
    OBVIOUS
  <2>6. r \in Seq(WaitEntries) /\ Len(r) = n - 1 /\ \A i \in 1..(n - 1) : r[i] = IF i < k THEN s[i] ELSE s[i + 1]
    <3>1. k \in 1..n
      BY <2>3, <2>4
    <3>2. PICK p, q : p = SubSeq(s, 1, k - 1) /\ q = SubSeq(s, k + 1, n)
      OBVIOUS
    <3>3. p \in Seq(WaitEntries) /\ Len(p) = k - 1 /\ \A i \in 1..(k - 1) : p[i] = s[i]
      BY <2>4, <3>1, <3>2
    <3>4. q \in Seq(WaitEntries) /\ Len(q) = n - k /\ \A i \in 1..(n - k) : q[i] = s[k + i]
      BY <2>4, <3>1, <3>2
    <3>5. r = p \o q
      BY <2>4, <2>5, <3>2 DEF RemoveAt
    <3>6. r \in Seq(WaitEntries) /\ Len(r) = n - 1
      <4>0. p \in Seq(WaitEntries) /\ q \in Seq(WaitEntries)
        BY <3>3, <3>4
      <4>1. r \in Seq(WaitEntries) /\ Len(r) = Len(p) + Len(q)
        <5>1. p \o q \in Seq(WaitEntries) /\ Len(p \o q) = Len(p) + Len(q)
          BY <4>0
        <5> QED BY <3>5, <5>1
      <4>2. (k - 1) + (n - k) = n - 1
        BY <3>1
      <4> QED BY <3>3, <3>4, <4>1, <4>2
    <3>7. ASSUME NEW i \in 1..(n - 1) PROVE r[i] = IF i < k THEN s[i] ELSE s[i + 1]
      <4>1. CASE i < k
        BY <3>1, <3>3, <3>4, <3>5, <4>1
      <4>2. CASE i >= k
        <5>1. PICK h : h = i - (k - 1)
          OBVIOUS
        <5>2. h \in 1..(n - k) /\ i = (k - 1) + h /\ k + h = i + 1
          BY <3>1, <4>2, <5>1
        <5>3. r[i] = q[h]
          BY <3>1, <3>3, <3>4, <3>5, <5>2
        <5> QED BY <3>1, <3>4, <4>2, <5>2, <5>3
      <4> QED BY <3>1, <4>1, <4>2
    <3> QED BY <3>6, <3>7
  <2>7. DOMAIN r = 1..(n - 1)
    BY <2>4, <2>6
  <2>8. ASSUME NEW i \in 1..(n - 1)
        PROVE  \E a \in 1..n : r[i] = s[a] /\ a = IF i < k THEN i ELSE i + 1
    BY <2>4, <2>6
  <2>9. \A i \in DOMAIN r : \E a \in DOMAIN s : s[a].guid = r[i].guid
    BY <2>4, <2>7, <2>8
  <2>10. ASSUME NEW i \in DOMAIN r, NEW j \in DOMAIN r, i < j
         PROVE  \E a, b \in DOMAIN s : a < b /\ s[a].guid = r[i].guid /\ s[b].guid = r[j].guid
    <3>1. PICK a \in 1..n : r[i] = s[a] /\ a = IF i < k THEN i ELSE i + 1
      BY <2>7, <2>8
    <3>2. PICK b \in 1..n : r[j] = s[b] /\ b = IF j < k THEN j ELSE j + 1
      BY <2>7, <2>8
    <3>3. i \in Int /\ j \in Int /\ k \in Int
      BY <2>3, <2>4, <2>7
    <3>4. a < b
      BY <2>10, <3>1, <3>2, <3>3
    <3>5. a \in DOMAIN s /\ b \in DOMAIN s
      BY <2>4
    <3> QED BY <3>1, <3>2, <3>4, <3>5
  <2>11. InOrder(r, s)
    BY <2>9, <2>10 DEF InOrder
  <2> QED BY <1>2, <2>1, <2>5, <2>6, <2>11 DEF Erased
<1> QED BY <1>1, <1>2

\* A refreshed entry keeps its place.
LEMMA RefreshedInOrder ==
  ASSUME NEW s \in Seq(WaitEntries), NEW c \in Clients, NEW slot
  PROVE  Refreshed(s, c, slot) \in Seq(WaitEntries) /\ InOrder(Refreshed(s, c, slot), s)
<1>1. PICK e : e = Entry(c, slot)
  OBVIOUS
<1>2. e \in WaitEntries /\ e.guid = c
  BY <1>1 DEF Entry, GetTimeout, GetTime, WaitEntries
<1>3. PICK n \in Nat : n = Len(s) /\ DOMAIN s = 1..n
  OBVIOUS
<1>4. PICK r : r = [i \in 1..n |-> IF s[i].guid = c THEN e ELSE s[i]]
  OBVIOUS
<1>5. r = Refreshed(s, c, slot)
  BY <1>1, <1>3, <1>4 DEF Refreshed
<1>6. \A i \in 1..n : s[i] \in WaitEntries
  BY <1>3
<1>7. r \in Seq(WaitEntries)
  BY <1>2, <1>4, <1>6
<1>8. DOMAIN r = DOMAIN s /\ \A i \in DOMAIN r : r[i].guid = s[i].guid
  BY <1>2, <1>3, <1>4
<1> QED BY <1>5, <1>7, <1>8, SameInOrder

\* So does one that grows older.
LEMMA AgedInOrder ==
  ASSUME NEW s \in Seq(WaitEntries)
  PROVE  Aged(s) \in Seq(WaitEntries) /\ InOrder(Aged(s), s)
<1>1. PICK n \in Nat : n = Len(s) /\ DOMAIN s = 1..n
  OBVIOUS
<1>2. PICK r : r = [i \in 1..n |-> [s[i] EXCEPT !.left = IF @ = LongPast THEN LongPast ELSE @ - 1]]
  OBVIOUS
<1>3. r = Aged(s)
  BY <1>1, <1>2 DEF Aged
<1>4. ASSUME NEW i \in 1..n PROVE r[i] \in WaitEntries /\ r[i].guid = s[i].guid
  <2>1. s[i] \in WaitEntries
    BY <1>1
  <2>2. PICK e \in WaitEntries : e = s[i]
    BY <2>1
  <2>3. PICK left \in Int : left = IF e.left = LongPast THEN LongPast ELSE e.left - 1
    BY <2>2 DEF WaitEntries, LongPast
  <2>4. r[i] = [e EXCEPT !.left = left]
    BY <1>2, <2>2, <2>3
  <2> QED BY <2>2, <2>4 DEF WaitEntries
<1>5. DOMAIN r = 1..n
  BY <1>2
<1>6. r \in Seq(WaitEntries)
  BY <1>2, <1>4, <1>5
<1> QED BY <1>1, <1>3, <1>4, <1>5, <1>6, SameInOrder

\* Of a list in which nobody is twice, and one more.
LEMMA EnlistedOnce ==
  ASSUME NEW s \in Seq(WaitEntries), NEW t \in Seq(WaitEntries), Once(s \o t),
         NEW e \in WaitEntries, e.guid \notin Guids(s) \union Guids(t)
  PROVE  Once(Append(s, e) \o t) /\ Once(s \o Append(t, e))
<1>1. PICK ns \in Nat, nt \in Nat : ns = Len(s) /\ nt = Len(t)
  OBVIOUS
<1>2. PICK r, a, b : r = s \o t /\ a = Append(s, e) \o t /\ b = s \o Append(t, e)
  OBVIOUS
<1>3. /\ DOMAIN r = 1..(ns + nt)
      /\ \A i \in 1..ns : r[i] = s[i]
      /\ \A i \in 1..nt : r[ns + i] = t[i]
  BY <1>1, <1>2, JoinedIs DEF Concatenated
<1>4. \A i \in 1..(ns + nt) : r[i].guid # e.guid
  <2>1. ASSUME NEW i \in 1..(ns + nt) PROVE r[i].guid \in Guids(s) \union Guids(t)
    <3>1. DOMAIN s = 1..ns /\ DOMAIN t = 1..nt
      BY <1>1
    <3>2. CASE i <= ns
      <4>1. i \in DOMAIN s /\ r[i] = s[i]
        BY <1>3, <3>1, <3>2
      <4> QED BY <4>1 DEF Guids
    <3>3. CASE i > ns
      <4>1. PICK h : h = i - ns
        OBVIOUS
      <4>2. h \in 1..nt /\ i = ns + h
        BY <3>3, <4>1
      <4>3. h \in DOMAIN t /\ r[i] = t[h]
        BY <1>3, <3>1, <4>2
      <4> QED BY <4>3 DEF Guids
    <3> QED BY <3>2, <3>3
  <2> QED BY <2>1
<1>5. \A i, j \in 1..(ns + nt) : i < j => r[i].guid # r[j].guid
  BY <1>2, <1>3 DEF Once
<1>6. /\ DOMAIN a = 1..(ns + nt + 1)
      /\ \A i \in 1..(ns + nt + 1) : a[i] = IF i <= ns THEN r[i] ELSE IF i = ns + 1 THEN e ELSE r[i - 1]
  <2>1. PICK q : q = Append(s, e)
    OBVIOUS
  <2>2. /\ q \in Seq(WaitEntries) /\ Len(q) = ns + 1
        /\ \A i \in 1..(ns + 1) : q[i] = IF i <= ns THEN s[i] ELSE e
    BY <1>1, <2>1
  <2>3. /\ DOMAIN a = 1..(ns + 1 + nt)
        /\ \A i \in 1..(ns + 1 + nt) : a[i] = IF i <= ns + 1 THEN q[i] ELSE t[i - (ns + 1)]
    <3>1. a = q \o t
      BY <1>2, <2>1
    <3>2. /\ Len(q \o t) = Len(q) + Len(t) /\ q \o t \in Seq(WaitEntries)
          /\ \A i \in 1..(Len(q) + Len(t)) : (q \o t)[i] = IF i <= Len(q) THEN q[i] ELSE t[i - Len(q)]
      BY <2>2, ConcatProperties
    <3>3. Len(q) = ns + 1 /\ Len(t) = nt
      BY <1>1, <2>2
    <3> QED BY <3>1, <3>2, <3>3
  <2>4. \A i \in 1..(ns + nt) : r[i] = IF i <= ns THEN s[i] ELSE t[i - ns]
    BY <1>1, <1>2
  <2>5. ASSUME NEW i \in 1..(ns + nt + 1)
        PROVE  a[i] = IF i <= ns THEN r[i] ELSE IF i = ns + 1 THEN e ELSE r[i - 1]
    <3>1. CASE i <= ns + 1
      BY <2>2, <2>3, <2>4, <3>1
    <3>2. CASE i > ns + 1
      <4>1. PICK k \in 1..(ns + nt) : k = i - 1 /\ k - ns = i - (ns + 1) /\ k > ns
        BY <3>2
      <4>2. a[i] = t[i - (ns + 1)] /\ r[k] = t[k - ns]
        BY <2>3, <2>4, <3>2, <4>1
      <4> QED BY <3>2, <4>1, <4>2
    <3> QED BY <3>1, <3>2
  <2> QED BY <2>3, <2>5
<1>7. /\ DOMAIN b = 1..(ns + nt + 1)
      /\ \A i \in 1..(ns + nt + 1) : b[i] = IF i <= ns + nt THEN r[i] ELSE e
  BY <1>1, <1>2
<1>8. ASSUME NEW i \in DOMAIN a, NEW j \in DOMAIN a, i < j PROVE a[i].guid # a[j].guid
  <2>1. i \in 1..(ns + nt + 1) /\ j \in 1..(ns + nt + 1)
    BY <1>6
  <2>2. ASSUME NEW x \in 1..(ns + nt + 1), x # ns + 1
        PROVE  \E m \in 1..(ns + nt) : a[x] = r[m] /\ m = IF x <= ns THEN x ELSE x - 1
    <3>1. CASE x <= ns
      BY <1>6, <2>2, <3>1
    <3>2. CASE x > ns
      <4>1. x - 1 \in 1..(ns + nt)
        BY <2>2, <3>2
      <4> QED BY <1>6, <2>2, <3>2, <4>1
    <3> QED BY <2>2, <3>1, <3>2
  <2>3. a[ns + 1] = e
    BY <1>6
  <2>4. CASE i = ns + 1
    <3>1. PICK m \in 1..(ns + nt) : a[j] = r[m]
      BY <1>8, <2>1, <2>2, <2>4
    <3> QED BY <1>4, <2>3, <2>4, <3>1
  <2>5. CASE j = ns + 1
    <3>1. PICK m \in 1..(ns + nt) : a[i] = r[m]
      BY <1>8, <2>1, <2>2, <2>5
    <3> QED BY <1>4, <2>3, <2>5, <3>1
  <2>6. CASE i # ns + 1 /\ j # ns + 1
    <3>1. PICK m \in 1..(ns + nt) : a[i] = r[m] /\ m = IF i <= ns THEN i ELSE i - 1
      BY <2>1, <2>2, <2>6
    <3>2. PICK k \in 1..(ns + nt) : a[j] = r[k] /\ k = IF j <= ns THEN j ELSE j - 1
      BY <2>1, <2>2, <2>6
    <3>3. m < k
      BY <1>8, <2>1, <2>6, <3>1, <3>2
    <3> QED BY <1>5, <3>1, <3>2, <3>3
  <2> QED BY <2>4, <2>5, <2>6
<1>9. ASSUME NEW i \in DOMAIN b, NEW j \in DOMAIN b, i < j PROVE b[i].guid # b[j].guid
  <2>1. i \in 1..(ns + nt + 1) /\ j \in 1..(ns + nt + 1)
    BY <1>7
  <2> QED BY <1>4, <1>5, <1>7, <1>9, <2>1
<1> QED BY <1>2, <1>8, <1>9 DEF Once

\* Somebody who is in a list once is where he is found.
LEMMA PlaceFound ==
  ASSUME NEW s, NEW n \in Nat, DOMAIN s = 1..n, Once(s), NEW k \in 1..n
  PROVE  PlaceIn(s, s[k].guid) = k
<1>1. PICK c : c = s[k].guid
  OBVIOUS
<1>2. PICK i : i = PlaceIn(s, c)
  OBVIOUS
<1>3. \E j \in DOMAIN s : s[j].guid = c
  BY <1>1
<1>4. i \in DOMAIN s /\ s[i].guid = c
  BY <1>2, <1>3 DEF PlaceIn
<1>5. i \in 1..n /\ k \in DOMAIN s
  BY <1>4
<1>6. ~(i < k) /\ ~(k < i)
  BY <1>1, <1>4, <1>5 DEF Once
<1>7. i = k
  BY <1>5, <1>6
<1> QED BY <1>1, <1>2, <1>7

\* The slot that findClient answers is the client's place in the two lists.
LEMMA SlotIs ==
  ASSUME NEW f \in Seq(WaitEntries), NEW g \in Seq(WaitEntries), NEW c, c \in Guids(f) \union Guids(g)
  PROVE  Slot(f, g, c) \in 1..(Len(f) + Len(g)) /\ (f \o g)[Slot(f, g, c)].guid = c
<1>0. PICK nf \in Nat, ng \in Nat : nf = Len(f) /\ ng = Len(g)
  OBVIOUS
<1>1. PICK r : r = f \o g /\ nf = Len(f) /\ ng = Len(g)
  BY <1>0
<1>2. /\ DOMAIN f = 1..nf /\ DOMAIN g = 1..ng
      /\ \A i \in 1..nf : r[i] = f[i]
      /\ \A i \in 1..ng : r[nf + i] = g[i]
  BY <1>1, JoinedIs DEF Concatenated
<1>3. CASE c \in Guids(f)
  <2>1. PICK k : k = PlaceIn(f, c)
    OBVIOUS
  <2>2. \E i \in DOMAIN f : f[i].guid = c
    BY <1>3 DEF Guids
  <2>3. k \in DOMAIN f /\ f[k].guid = c
    BY <2>1, <2>2 DEF PlaceIn
  <2>4. Slot(f, g, c) = k
    BY <1>3, <2>1 DEF Slot
  <2>5. k \in 1..nf
    BY <1>2, <2>3
  <2>6. k \in 1..(nf + ng) /\ r[k].guid = c
    BY <1>2, <2>3, <2>5
  <2> QED BY <1>1, <2>4, <2>6
<1>4. CASE c \notin Guids(f)
  <2>1. PICK k : k = PlaceIn(g, c)
    OBVIOUS
  <2>2. \E i \in DOMAIN g : g[i].guid = c
    BY <1>4 DEF Guids
  <2>3. k \in DOMAIN g /\ g[k].guid = c
    BY <2>1, <2>2 DEF PlaceIn
  <2>4. Slot(f, g, c) = nf + k
    BY <1>1, <1>4, <2>1 DEF Slot
  <2>5. k \in 1..ng
    BY <1>2, <2>3
  <2>6. nf + k \in 1..(nf + ng) /\ r[nf + k].guid = c
    BY <1>2, <2>3, <2>5
  <2> QED BY <1>1, <2>4, <2>6
<1> QED BY <1>3, <1>4

\* Those in front of him in t who are also in s are in front of him there.
LEMMA AheadThere ==
  ASSUME NEW s, NEW t, NEW n \in Nat, NEW m \in Nat, DOMAIN s = 1..n, DOMAIN t = 1..m,
         InOrder(s, t), Once(t), NEW k \in 1..n, NEW a \in 1..(PlaceIn(t, s[k].guid) - 1),
         t[a].guid \in Guids(s)
  PROVE  \E j \in 1..(k - 1) : s[j].guid = t[a].guid
<1>1. PICK c, h : c = s[k].guid /\ h = t[a].guid
  OBVIOUS
<1>2. PICK b \in 1..m : t[b].guid = c
  BY <1>1 DEF InOrder
<1>3. PlaceIn(t, c) = b
  BY <1>2, PlaceFound
<1>4. a \in 1..m /\ a < b
  BY <1>1, <1>3
<1>5. PICK j \in 1..n : s[j].guid = h
  BY <1>1 DEF Guids
<1>6. PlaceIn(t, h) = a
  BY <1>1, <1>4, PlaceFound
<1>7. j # k
  <2>1. c # h
    BY <1>3, <1>4, <1>6
  <2> QED BY <1>1, <1>5, <2>1
<1>8. ~(k < j)
  <2> SUFFICES ASSUME k < j PROVE FALSE
    OBVIOUS
  <2>1. PICK x \in DOMAIN t, y \in DOMAIN t : x < y /\ t[x].guid = c /\ t[y].guid = h
    <3>1. InOrder(s, t) /\ k \in DOMAIN s /\ j \in DOMAIN s /\ s[k].guid = c /\ s[j].guid = h
      BY <1>1, <1>5
    <3>2. \A i, z \in DOMAIN s : i < z =>
            \E x, y \in DOMAIN t : x < y /\ t[x].guid = s[i].guid /\ t[y].guid = s[z].guid
      BY <3>1 DEF InOrder
    <3> QED BY <3>1, <3>2
  <2>2. x \in 1..m /\ y \in 1..m
    BY <2>1
  <2>3. PlaceIn(t, c) = x /\ PlaceIn(t, h) = y
    BY <2>1, <2>2, PlaceFound
  <2> QED BY <1>3, <1>4, <1>6, <2>1, <2>3
<1>9. j \in 1..(k - 1)
  BY <1>5, <1>7, <1>8
<1> QED BY <1>1, <1>5, <1>9

\* Those in front of c in the list t.
InFrontOf(c, t) == {t[i].guid : i \in 1..(PlaceIn(t, c) - 1)}

\* There are no more of them in s than places in front of his.
LEMMA FewAhead ==
  ASSUME NEW s, NEW t, NEW n \in Nat, NEW m \in Nat, DOMAIN s = 1..n, DOMAIN t = 1..m,
         InOrder(s, t), Once(t), NEW k \in 1..n, NEW X, X \subseteq Guids(s)
  PROVE  /\ Cardinality(InFrontOf(s[k].guid, t) \cap X) \in Nat
         /\ Cardinality(InFrontOf(s[k].guid, t) \cap X) <= k - 1
<1> DEFINE B == InFrontOf(s[k].guid, t)
           J == 1..(k - 1)
           F == {s[j].guid : j \in J}
           f == [j \in J |-> s[j].guid]
<1>1. IsFiniteSet(J) /\ Cardinality(J) = k - 1
  BY FS_Interval
<1>2. f \in Surjection(J, F)
  BY DEF Surjection
<1>3. IsFiniteSet(F) /\ Cardinality(F) <= k - 1
  <2> HIDE DEF f, F, J
  <2>1. IsFiniteSet(F) /\ Cardinality(F) <= Cardinality(J)
    BY <1>1, <1>2, FS_Surjection
  <2> QED BY <1>1, <2>1
<1>4. B \cap X \subseteq F
  <2> SUFFICES ASSUME NEW g \in B \cap X PROVE g \in F
    OBVIOUS
  <2>1. PICK a \in 1..(PlaceIn(t, s[k].guid) - 1) : g = t[a].guid
    BY DEF InFrontOf
  <2>2. t[a].guid \in Guids(s)
    BY <2>1
  <2>3. PICK j \in 1..(k - 1) : s[j].guid = t[a].guid
    BY <2>2, AheadThere
  <2> QED BY <2>1, <2>3
<1>5. IsFiniteSet(B \cap X) /\ Cardinality(B \cap X) <= Cardinality(F)
  <2> HIDE DEF B, F
  <2> QED BY <1>3, <1>4, FS_Subset
<1>6. Cardinality(B \cap X) \in Nat /\ Cardinality(F) \in Nat
  <2> HIDE DEF B, F
  <2> QED BY <1>3, <1>5, FS_CardinalityType
<1>7. Cardinality(B \cap X) <= k - 1
  <2> HIDE DEF B, F
  <2> QED BY <1>3, <1>5, <1>6
<1> QED BY <1>6, <1>7

\* What holds of the lists at every moment: nobody waits in two places.
WaitInv ==
  /\ priorityWaitList \in Seq(WaitEntries)
  /\ waitList \in Seq(WaitEntries)
  /\ Once(priorityWaitList \o waitList)
  /\ IsFiniteSet(players)

\* It holds of two empty lists.
LEMMA WaitInvInitially == WaitInit => WaitInv
<1> SUFFICES ASSUME WaitInit PROVE WaitInv
  OBVIOUS
<1>1. PICK e : e = <<>>
  OBVIOUS
<1>2. priorityWaitList = e /\ waitList = e /\ players = {}
  BY <1>1 DEF WaitInit
<1>3. e \in Seq(WaitEntries) /\ DOMAIN (e \o e) = {}
  BY <1>1
<1>4. Once(e \o e)
  BY <1>3 DEF Once
<1> QED BY <1>2, <1>3, <1>4, FS_EmptySet DEF WaitInv

\* The lists p and q have come out of the lists priorityWaitList and waitList
\* by leaving out and changing entries.
Thinner(p, q) ==
  /\ p \in Seq(WaitEntries) /\ q \in Seq(WaitEntries)
  /\ InOrder(p, priorityWaitList) /\ InOrder(q, waitList)

\* Then nobody is in them twice, and their order is the one of the two lists.
LEMMA ThinnerOnce ==
  ASSUME WaitInv, NEW p, NEW q, Thinner(p, q)
  PROVE  Once(p \o q) /\ InOrder(p \o q, priorityWaitList \o waitList)
<1>1. InOrder(p \o q, priorityWaitList \o waitList)
  BY JoinedInOrder DEF WaitInv, Thinner
<1> QED BY <1>1, OnceInOrder DEF WaitInv

\* Lists that have come out of cleaned ones have come out of the lists.
LEMMA ThinnerThan ==
  ASSUME WaitInv, NEW p \in Seq(WaitEntries), NEW q \in Seq(WaitEntries),
         InOrder(p, ListCleaned(priorityWaitList)), InOrder(q, ListCleaned(waitList))
  PROVE  Thinner(p, q)
<1>1. priorityWaitList \in Seq(WaitEntries) /\ waitList \in Seq(WaitEntries)
  BY DEF WaitInv
<1>2. /\ ListCleaned(priorityWaitList) \in Seq(WaitEntries)
      /\ InOrder(ListCleaned(priorityWaitList), priorityWaitList)
  BY <1>1, CleanedInOrder
<1>3. /\ ListCleaned(waitList) \in Seq(WaitEntries)
      /\ InOrder(ListCleaned(waitList), waitList)
  BY <1>1, CleanedInOrder
<1>4. InOrder(p, priorityWaitList)
  BY <1>1, <1>2, OrderOfOrder
<1>5. InOrder(q, waitList)
  BY <1>1, <1>3, OrderOfOrder
<1> QED BY <1>4, <1>5 DEF Thinner

\* What a client's retry leaves of the lists: without him, if he may enter,
\* and with his entry refreshed, if not.
LEMMA RetryThins ==
  ASSUME WaitInv, NEW c \in Clients, Retry(c)
  PROVE  Thinner(priorityWaitList', waitList')
<1>1. PICK f, g, slot : /\ f = ListCleaned(priorityWaitList) /\ g = ListCleaned(waitList)
                        /\ slot = Slot(f, g, c)
  OBVIOUS
<1>2. f \in Seq(WaitEntries) /\ g \in Seq(WaitEntries)
  BY <1>1, CleanedInOrder DEF WaitInv
<1>3. \/ priorityWaitList' = Erased(f, c) /\ waitList' = Erased(g, c)
      \/ priorityWaitList' = Refreshed(f, c, slot) /\ waitList' = Refreshed(g, c, slot)
  BY <1>1, Zenon DEF Retry
<1>4. /\ priorityWaitList' \in Seq(WaitEntries) /\ InOrder(priorityWaitList', f)
      /\ waitList' \in Seq(WaitEntries) /\ InOrder(waitList', g)
  <2>1. CASE priorityWaitList' = Erased(f, c) /\ waitList' = Erased(g, c)
    BY <1>2, <2>1, ErasedInOrder
  <2>2. CASE priorityWaitList' = Refreshed(f, c, slot) /\ waitList' = Refreshed(g, c, slot)
    BY <1>2, <2>2, RefreshedInOrder
  <2> QED BY <1>3, <2>1, <2>2
<1> QED BY <1>1, <1>4, ThinnerThan

\* A retry gives nobody a second entry.
LEMMA RetryOnce ==
  ASSUME WaitInv, NEW c \in Clients, Retry(c)
  PROVE  WaitInv'
<1>1. Thinner(priorityWaitList', waitList')
  BY RetryThins
<1>2. Once(priorityWaitList' \o waitList')
  BY <1>1, ThinnerOnce
<1>3. players' \in {players, players \union {c}}
  BY DEF Retry, Enters
<1>4. IsFiniteSet(players')
  BY <1>3, FS_AddElement DEF WaitInv
<1> QED BY <1>1, <1>2, <1>4 DEF WaitInv, Thinner

\* A client is enlisted who is in neither list.
LEMMA EnlistOnce ==
  ASSUME WaitInv, NEW c \in Clients, Enlist(c)
  PROVE  WaitInv'
<1>1. PICK f, g : f = ListCleaned(priorityWaitList) /\ g = ListCleaned(waitList)
  OBVIOUS
<1>2. /\ f \in Seq(WaitEntries) /\ InOrder(f, ListCleaned(priorityWaitList))
      /\ g \in Seq(WaitEntries) /\ InOrder(g, ListCleaned(waitList))
  BY <1>1, CleanedInOrder, ItselfInOrder DEF WaitInv
<1>3. Once(f \o g)
  BY <1>2, ThinnerThan, ThinnerOnce
<1>4. PICK d, e : d = Entry(c, Len(f) + 1) /\ e = Entry(c, Len(f) + Len(g) + 1)
  OBVIOUS
<1>5. /\ d \in WaitEntries /\ d.guid = c
      /\ e \in WaitEntries /\ e.guid = c
  BY <1>4 DEF Entry, GetTimeout, GetTime, WaitEntries
<1>6. c \notin Guids(f) \union Guids(g) /\ players' = players
  BY <1>1 DEF Enlist
<1>7. \/ priorityWaitList' = Append(f, d) /\ waitList' = g
      \/ priorityWaitList' = f /\ waitList' = Append(g, e)
  BY <1>1, <1>4, Zenon DEF Enlist
<1>8. Once(Append(f, d) \o g) /\ Once(f \o Append(g, e))
  BY <1>2, <1>3, <1>5, <1>6, EnlistedOnce
<1>9. Append(f, d) \in Seq(WaitEntries) /\ Append(g, e) \in Seq(WaitEntries)
  BY <1>2, <1>5
<1>10. /\ priorityWaitList' \in Seq(WaitEntries) /\ waitList' \in Seq(WaitEntries)
       /\ Once(priorityWaitList' \o waitList')
  BY <1>2, <1>7, <1>8, <1>9
<1> QED BY <1>6, <1>10 DEF WaitInv

\* The lists stay so whatever happens.
LEMMA WaitInvKept == WaitInv /\ [WaitNext]_waitVars => WaitInv'
<1> SUFFICES ASSUME WaitInv, [WaitNext]_waitVars PROVE WaitInv'
  OBVIOUS
<1>1. CASE \E c \in Clients : LoginAtOnce(c)
  BY <1>1, FS_AddElement DEF WaitInv, LoginAtOnce, Enters
<1>2. CASE \E c \in Clients : Retry(c)
  BY <1>2, RetryOnce
<1>3. CASE \E c \in Clients : Enlist(c)
  BY <1>3, EnlistOnce
<1>4. CASE \E c \in Clients : LeavesGame(c)
  BY <1>4, FS_RemoveElement DEF WaitInv, LeavesGame
<1>5. CASE \E c \in Clients : StopsTrying(c)
  BY <1>5 DEF WaitInv, StopsTrying
<1>6. CASE Tick
  <2>1. priorityWaitList' = Aged(priorityWaitList) /\ waitList' = Aged(waitList) /\ players' = players
    BY <1>6 DEF Tick
  <2>2. Thinner(priorityWaitList', waitList')
    BY <2>1, AgedInOrder DEF WaitInv, Thinner
  <2>3. Once(priorityWaitList' \o waitList')
    BY <2>2, ThinnerOnce
  <2> QED BY <2>1, <2>2, <2>3 DEF WaitInv, Thinner
<1>7. CASE UNCHANGED waitVars
  BY <1>7 DEF WaitInv, waitVars
<1> QED BY <1>1, <1>2, <1>3, <1>4, <1>5, <1>6, <1>7 DEF WaitNext, ClientLogin

\* A client who enters leaves a place for each of those in front of him.
LeavesPlaces(c) ==
  Cardinality(players') + Cardinality(Before(c) \cap Enlisted') <= MaxPlayers

\* One who is let in at once finds the lists empty.
LEMMA AtOnceLeavesPlaces ==
  ASSUME WaitInv, NEW c \in Clients \ Staff, LoginAtOnce(c), MaxPlayers > 0,
         c \notin players, c \in players'
  PROVE  LeavesPlaces(c)
<1>1. priorityWaitList = <<>> /\ waitList = <<>> /\ Cardinality(players) < MaxPlayers
  BY MaxPlayersAssumption DEF LoginAtOnce, Unhindered
<1>2. Guids(priorityWaitList) = {} /\ Guids(waitList) = {}
  BY <1>1 DEF Guids
<1>3. Before(c) = {}
  BY <1>2 DEF Before, Enlisted
<1>4. Cardinality(Before(c) \cap Enlisted') = 0
  <2>1. Before(c) \cap Enlisted' = {}
    BY <1>3
  <2> QED BY <2>1, FS_EmptySet
<1>5. players' = players \union {c}
  BY DEF LoginAtOnce, Enters
<1>6. Cardinality(players') = Cardinality(players) + 1 /\ Cardinality(players) \in Nat
  BY <1>5, FS_AddElement, FS_CardinalityType DEF WaitInv
<1> QED BY <1>1, <1>4, <1>6, MaxPlayersAssumption DEF LeavesPlaces

\* Those in a list that has come out of another are in that one too.
LEMMA InOrderGuids ==
  ASSUME NEW s, NEW t, InOrder(s, t)
  PROVE  Guids(s) \subseteq Guids(t)
BY DEF InOrder, Guids

\* The two lists name who is in the one or the other.
LEMMA JoinedGuids ==
  ASSUME NEW s \in Seq(WaitEntries), NEW t \in Seq(WaitEntries)
  PROVE  Guids(s) \union Guids(t) \subseteq Guids(s \o t)
<1>1. PICK ns \in Nat, nt \in Nat : ns = Len(s) /\ nt = Len(t)
  OBVIOUS
<1>2. PICK r : r = s \o t
  OBVIOUS
<1>3. /\ DOMAIN s = 1..ns /\ DOMAIN t = 1..nt /\ DOMAIN r = 1..(ns + nt)
      /\ \A i \in 1..ns : r[i] = s[i]
      /\ \A i \in 1..nt : r[ns + i] = t[i]
  BY <1>1, <1>2, JoinedIs DEF Concatenated
<1>4. ASSUME NEW i \in 1..ns PROVE s[i].guid \in Guids(r)
  <2>1. i \in DOMAIN r /\ r[i] = s[i]
    BY <1>3
  <2> QED BY <2>1 DEF Guids
<1>5. ASSUME NEW i \in 1..nt PROVE t[i].guid \in Guids(r)
  <2>1. ns + i \in DOMAIN r /\ r[ns + i] = t[i]
    BY <1>3
  <2> QED BY <2>1 DEF Guids
<1>6. ASSUME NEW g \in Guids(s) PROVE g \in Guids(r)
  <2>1. PICK i \in DOMAIN s : g = s[i].guid
    BY Zenon DEF Guids
  <2> QED BY <1>3, <1>4, <2>1
<1>7. ASSUME NEW g \in Guids(t) PROVE g \in Guids(r)
  <2>1. PICK i \in DOMAIN t : g = t[i].guid
    BY Zenon DEF Guids
  <2> QED BY <1>3, <1>5, <2>1
<1> QED BY <1>2, <1>6, <1>7

\* One who waited is let in when his slot is one of the free places.
LEMMA RetryLeavesPlaces ==
  ASSUME WaitInv, NEW c \in Clients, Retry(c), c \notin players, c \in players'
  PROVE  LeavesPlaces(c)
<1>1. PICK f, g, slot : /\ f = ListCleaned(priorityWaitList) /\ g = ListCleaned(waitList)
                        /\ slot = Slot(f, g, c)
  OBVIOUS
<1>2. /\ f \in Seq(WaitEntries) /\ InOrder(f, priorityWaitList)
      /\ g \in Seq(WaitEntries) /\ InOrder(g, waitList)
  BY <1>1, CleanedInOrder DEF WaitInv
<1>3. c \in Guids(f) \union Guids(g)
  BY <1>1, Zenon DEF Retry
<1>4. /\ MayEnter(slot) /\ players' = players \union {c}
      /\ priorityWaitList' = Erased(f, c) /\ waitList' = Erased(g, c)
  BY <1>1 DEF Retry, Enters
<1>5. PICK s, t : s = f \o g /\ t = priorityWaitList \o waitList
  OBVIOUS
<1>6. PICK n \in Nat, m \in Nat : DOMAIN s = 1..n /\ DOMAIN t = 1..m /\ n = Len(f) + Len(g)
  <2>1. DOMAIN s = 1..(Len(f) + Len(g)) /\ Len(f) + Len(g) \in Nat
    BY <1>2, <1>5, JoinedIs DEF Concatenated
  <2>2. t \in Seq(WaitEntries)
    BY <1>5, JoinedIs DEF WaitInv
  <2>3. DOMAIN t = 1..Len(t) /\ Len(t) \in Nat
    BY <2>2
  <2> QED BY <2>1, <2>3
<1>7. InOrder(s, t) /\ Once(t)
  BY <1>2, <1>5, JoinedInOrder, SMTT(20) DEF WaitInv
<1>8. slot \in 1..n /\ s[slot].guid = c
  BY <1>1, <1>2, <1>3, <1>5, <1>6, SlotIs
<1>9. Enlisted' \subseteq Guids(s)
  <2>1. InOrder(priorityWaitList', f) /\ InOrder(waitList', g)
    BY <1>2, <1>4, ErasedInOrder
  <2>2. Guids(priorityWaitList') \subseteq Guids(f) /\ Guids(waitList') \subseteq Guids(g)
    BY <2>1, InOrderGuids
  <2>3. Guids(f) \union Guids(g) \subseteq Guids(s)
    BY <1>2, <1>5, JoinedGuids
  <2> QED BY <2>2, <2>3 DEF Enlisted
<1>10. c \in Enlisted
  BY <1>2, <1>3, InOrderGuids DEF Enlisted
<1>11. Before(c) = {t[i].guid : i \in 1..(PlaceIn(t, c) - 1)}
  BY <1>5, <1>10 DEF Before
<1>12. PICK X : X = Enlisted'
  OBVIOUS
<1>13. PICK k \in Nat : k = Cardinality(Before(c) \cap X) /\ k <= slot - 1
  <2>1. Before(c) = InFrontOf(s[slot].guid, t)
    BY <1>8, <1>11 DEF InFrontOf
  <2>2. X \subseteq Guids(s)
    BY <1>9, <1>12
  <2> QED BY <1>6, <1>7, <1>8, <2>1, <2>2, FewAhead
<1>14. Cardinality(players') = Cardinality(players) + 1 /\ Cardinality(players) \in Nat
  BY <1>4, FS_AddElement, FS_CardinalityType DEF WaitInv
<1>15. Cardinality(players) + slot <= MaxPlayers
  BY <1>4 DEF MayEnter
<1>16. slot \in Nat
  BY <1>8
<1>17. Cardinality(players') + k <= MaxPlayers
  BY <1>13, <1>14, <1>15, <1>16, MaxPlayersAssumption
<1> QED BY <1>12, <1>13, <1>17 DEF LeavesPlaces

\* The step of PlacesAheadKept, for every step of the waiting list.
LEMMA StepLeavesPlaces ==
  ASSUME WaitInv, [WaitNext]_waitVars
  PROVE  \A c \in Clients \ Staff : MaxPlayers > 0 /\ c \notin players /\ c \in players' =>
           Cardinality(players') + Cardinality(Before(c) \cap Enlisted') <= MaxPlayers
<1> SUFFICES ASSUME NEW c \in Clients \ Staff, MaxPlayers > 0, c \notin players, c \in players'
             PROVE  LeavesPlaces(c)
  BY DEF LeavesPlaces
<1>1. ASSUME NEW d \in Clients, LoginAtOnce(d) PROVE LeavesPlaces(c)
  <2>1. c = d
    BY <1>1 DEF LoginAtOnce, Enters
  <2> QED BY <1>1, <2>1, AtOnceLeavesPlaces
<1>2. ASSUME NEW d \in Clients, Retry(d) PROVE LeavesPlaces(c)
  <2>1. c = d
    BY <1>2 DEF Retry, Enters
  <2> QED BY <1>2, <2>1, RetryLeavesPlaces
<1>3. ASSUME NEW d \in Clients, Enlist(d) PROVE FALSE
  BY <1>3 DEF Enlist
<1>4. ASSUME NEW d \in Clients, LeavesGame(d) \/ StopsTrying(d) PROVE FALSE
  BY <1>4 DEF LeavesGame, StopsTrying
<1>5. ~Tick
  BY DEF Tick
<1>6. ~UNCHANGED waitVars
  BY DEF waitVars
<1> QED BY <1>1, <1>2, <1>3, <1>4, <1>5, <1>6 DEF WaitNext, ClientLogin

\* Whoever is let in leaves a place for each of those who wait before him
\* (WaitingList::clientLogin), however many clients there are.
THEOREM PlacesAheadKeptHolds == WaitSpec => PlacesAheadKept
<1>1. WaitInit => WaitInv
  BY WaitInvInitially
<1>2. WaitInv /\ [WaitNext]_waitVars => WaitInv'
  BY WaitInvKept
<1>3. WaitInv /\ [WaitNext]_waitVars =>
        [\A c \in Clients \ Staff : MaxPlayers > 0 /\ c \notin players /\ c \in players' =>
           Cardinality(players') + Cardinality(Before(c) \cap Enlisted') <= MaxPlayers]_waitVars
  BY StepLeavesPlaces
<1> QED BY <1>1, <1>2, <1>3, PTL DEF WaitSpec, PlacesAheadKept

-----------------------------------------------------------------------------
(* Sets, and folds over them *)

\* What a fold over the set s takes first, and the sets of n elements at most.
Pick(s) == CHOOSE x \in s : TRUE
Smaller(D, n) == {s \in SUBSET D : Cardinality(s) <= n}

\* A finite set without one of its elements.
LEMMA OneLess ==
  ASSUME NEW s, IsFiniteSet(s), NEW x \in s
  PROVE  /\ IsFiniteSet(s \ {x})
         /\ Cardinality(s) \in Nat /\ Cardinality(s \ {x}) \in Nat
         /\ Cardinality(s \ {x}) + 1 = Cardinality(s)
<1>1. IsFiniteSet(s \ {x})
  BY FS_RemoveElement
<1>2. Cardinality(s \ {x}) = Cardinality(s) - 1
  BY FS_RemoveElement
<1>3. Cardinality(s) \in Nat /\ Cardinality(s \ {x}) \in Nat
  BY <1>1, FS_CardinalityType
<1> QED BY <1>1, <1>2, <1>3

\* What is taken was in the set.
LEMMA PickIn ==
  ASSUME NEW s, s # {}
  PROVE  Pick(s) \in s
  BY DEF Pick

-----------------------------------------------------------------------------
(* Open windows (Windows).  The bags around a bag are the least set that   *)
(* has it and with a bag the one that is in; every bag has an outermost    *)
(* one (Grounded), so all that goes with it has the same holder in the     *)
(* end, who is in the world if he is a player (Carried).  Those whom the   *)
(* windows on a bag belong to are hence among those who are told when it,  *)
(* or what it is in, is taken away.                                        *)

BagPlaces == Sacks \union Fields \union Openers \union Carriers \union {Away}
WindowStates ==
  [pos : [Openers -> Fields \union {Away}], at : [Sacks -> BagPlaces],
   win : [Openers -> [Cids -> Sacks \union Fields \union {Away}]],
   refs : [Fields -> Int], list : [Fields -> SUBSET Sacks], timer : [Fields -> BOOLEAN],
   leaked : [Fields -> Nat]]

\* The bags around b are the least such set.
LEMMA ParentsAre ==
  ASSUME NEW u, NEW b \in Sacks
  PROVE  /\ b \in Parents(u, b) /\ Parents(u, b) \in SUBSET Sacks /\ ClosedUp(u, Parents(u, b))
         /\ \A S \in SUBSET Sacks : b \in S /\ ClosedUp(u, S) => Parents(u, b) \subseteq S
<1>1. /\ b \in Parents(u, b) /\ Parents(u, b) \in SUBSET Sacks
      /\ \A S \in SUBSET Sacks : b \in S /\ ClosedUp(u, S) => Parents(u, b) \subseteq S
  BY DEF Parents
<1>2. ASSUME NEW y \in Parents(u, b), u.at[y] \in Sacks PROVE u.at[y] \in Parents(u, b)
  <2>1. ASSUME NEW S \in SUBSET Sacks, b \in S, ClosedUp(u, S) PROVE u.at[y] \in S
    <3>1. y \in S
      BY <1>1, <2>1
    <3> QED BY <1>2, <2>1, <3>1 DEF ClosedUp
  <2> QED BY <1>2, <2>1 DEF Parents
<1> QED BY <1>1, <1>2 DEF ClosedUp

\* What is around something around b is around b.
LEMMA ParentsTwice ==
  ASSUME NEW u, NEW b \in Sacks, NEW x \in Parents(u, b)
  PROVE  x \in Sacks /\ Parents(u, x) \subseteq Parents(u, b)
<1>1. x \in Sacks
  BY ParentsAre
<1> QED BY <1>1, ParentsAre

\* They are b and what is around the bag it is in.
LEMMA ParentsUnfold ==
  ASSUME NEW u, NEW b \in Sacks, NEW x \in Parents(u, b), x # b
  PROVE  u.at[b] \in Sacks /\ x \in Parents(u, u.at[b])
<1> DEFINE S == {b} \union (IF u.at[b] \in Sacks THEN Parents(u, u.at[b]) ELSE {})
<1>1. S \in SUBSET Sacks /\ b \in S
  BY ParentsAre
<1>2. ASSUME NEW y \in S, u.at[y] \in Sacks PROVE u.at[y] \in S
  <2>1. CASE y = b
    BY <1>2, <2>1, ParentsAre
  <2>2. CASE y # b
    <3>1. u.at[b] \in Sacks /\ y \in Parents(u, u.at[b])
      BY <2>2
    <3>2. u.at[y] \in Parents(u, u.at[b])
      BY <1>2, <3>1, ParentsAre DEF ClosedUp
    <3> QED BY <3>1, <3>2
  <2> QED BY <2>1, <2>2
<1>3. Parents(u, b) \subseteq S
  <2> HIDE DEF S
  <2>1. ClosedUp(u, S)
    BY <1>2 DEF ClosedUp
  <2> QED BY <1>1, <2>1, ParentsAre
<1> QED BY <1>3

\* x is the outermost of the bags around b.
Outermost(u, b, x) == x \in Parents(u, b) /\ u.at[x] \notin Sacks

\* There is one outermost at most, and it is the outermost of all around b.
LEMMA OneOutermost ==
  ASSUME NEW u, NEW b \in Sacks, NEW x, Outermost(u, b, x)
  PROVE  /\ \A y \in Parents(u, b) : Outermost(u, y, x)
         /\ \A y : Outermost(u, b, y) => y = x
<1> DEFINE S == {y \in Parents(u, b) : x \in Parents(u, y)}
<1>1. x \in Sacks /\ u.at[x] \notin Sacks /\ Parents(u, b) \in SUBSET Sacks
  BY ParentsAre DEF Outermost
<1>2. S \in SUBSET Sacks /\ b \in S
  BY <1>1, ParentsAre DEF Outermost
<1>3. ASSUME NEW y \in S, u.at[y] \in Sacks PROVE u.at[y] \in S
  <2>1. y \in Sacks /\ y # x /\ x \in Parents(u, y)
    BY <1>1, <1>3
  <2>2. x \in Parents(u, u.at[y])
    BY <2>1, ParentsUnfold
  <2>3. u.at[y] \in Parents(u, b)
    BY <1>3, ParentsAre DEF ClosedUp
  <2> QED BY <2>2, <2>3
<1>4. Parents(u, b) \subseteq S
  <2>1. ClosedUp(u, S)
    BY <1>3 DEF ClosedUp
  <2> HIDE DEF S
  <2> QED BY <1>2, <2>1, ParentsAre
<1>5. \A y \in Parents(u, b) : Outermost(u, y, x)
  BY <1>1, <1>4 DEF Outermost
<1>6. ASSUME NEW y, Outermost(u, b, y) PROVE y = x
  <2>1. y \in Sacks /\ u.at[y] \notin Sacks /\ x \in Parents(u, y)
    BY <1>1, <1>4, <1>6 DEF Outermost
  <2> QED BY <2>1, ParentsUnfold
<1> QED BY <1>5, <1>6

\* Every bag has an outermost one.
Grounded(u) == \A b \in Sacks : \E x : Outermost(u, b, x)

\* Its holder is the top parent.
LEMMA TopIs ==
  ASSUME NEW u, NEW b \in Sacks, NEW x, Outermost(u, b, x)
  PROVE  TopParent(u, b) = u.at[x]
<1> DEFINE T == {u.at[y] : y \in Parents(u, b)}
<1>1. PICK t : t = CHOOSE s \in T : s \notin Sacks
  OBVIOUS
<1>2. TopParent(u, b) = t
  BY <1>1 DEF TopParent
<1>3. u.at[x] \in T /\ u.at[x] \notin Sacks
  BY DEF Outermost
<1>4. t \in T /\ t \notin Sacks
  BY <1>1, <1>3
<1>5. PICK y \in Parents(u, b) : t = u.at[y]
  BY <1>4
<1>6. y = x
  BY <1>4, <1>5, OneOutermost DEF Outermost
<1> QED BY <1>2, <1>5, <1>6

\* What is in a bag has its top parent.
LEMMA OneTopParent ==
  ASSUME NEW u, Grounded(u), NEW b \in Sacks, NEW y \in Parents(u, b)
  PROVE  y \in Sacks /\ TopParent(u, y) = TopParent(u, b) /\ TopParent(u, b) \notin Sacks
<1>1. y \in Sacks
  BY ParentsAre
<1>2. PICK x : Outermost(u, b, x)
  BY DEF Grounded
<1>3. Outermost(u, y, x)
  BY <1>2, OneOutermost
<1>4. TopParent(u, y) = u.at[x] /\ TopParent(u, b) = u.at[x]
  BY <1>1, <1>2, <1>3, TopIs
<1> QED BY <1>1, <1>2, <1>4 DEF Outermost

\* What does not concern the way up from b leaves it and its end the same.
LEMMA ParentsSame ==
  ASSUME NEW u, NEW w, NEW b \in Sacks,
         \A y \in Parents(u, b) : w.at[y] = u.at[y] \/ (w.at[y] \notin Sacks /\ u.at[y] \notin Sacks)
  PROVE  Parents(w, b) = Parents(u, b) /\ \A x : Outermost(w, b, x) <=> Outermost(u, b, x)
<1>1. Parents(w, b) \subseteq Parents(u, b)
  <2>1. ClosedUp(w, Parents(u, b))
    BY ParentsAre DEF ClosedUp
  <2> QED BY <2>1, ParentsAre
<1>2. Parents(u, b) \subseteq Parents(w, b)
  <2>1. ClosedUp(u, Parents(w, b))
    BY <1>1, ParentsAre DEF ClosedUp
  <2> QED BY <2>1, ParentsAre
<1>3. Parents(w, b) = Parents(u, b)
  BY <1>1, <1>2
<1> QED BY <1>3 DEF Outermost

\* The same bags.
LEMMA SameBags ==
  ASSUME NEW u, NEW w, w.at = u.at
  PROVE  /\ \A x : Parents(w, x) = Parents(u, x) /\ TopParent(w, x) = TopParent(u, x)
         /\ Grounded(u) => Grounded(w)
<1>1. \A x : Parents(w, x) = Parents(u, x)
  BY DEF Parents, ClosedUp
<1>2. ASSUME NEW x PROVE TopParent(w, x) = TopParent(u, x)
  <2>1. {w.at[y] : y \in Parents(w, x)} = {u.at[y] : y \in Parents(u, x)}
    BY <1>1
  <2>2. CASE x \in Sacks
    <3>1. /\ TopParent(w, x) = CHOOSE t \in {w.at[y] : y \in Parents(w, x)} : t \notin Sacks
          /\ TopParent(u, x) = CHOOSE t \in {u.at[y] : y \in Parents(u, x)} : t \notin Sacks
      BY <2>2, Zenon DEF TopParent
    <3> QED BY <2>1, <3>1, Zenon
  <2>3. CASE x \notin Sacks
    BY <2>3, Zenon DEF TopParent
  <2> QED BY <2>2, <2>3
<1>3. Grounded(u) => Grounded(w)
  BY <1>1 DEF Grounded, Outermost
<1> QED BY <1>1, <1>2, <1>3

\* The windows that show the field t.
Views(u, t) == {pc \in Openers \X Cids : u.win[pc[1]][pc[2]] = t}

\* The container of a field has the references of its windows, of its timer and of what
\* was lost, and that of x has one more; and it lists what lies there.
One(b) == IF b THEN 1 ELSE 0
Owed(u, x) ==
  \A t \in Fields : u.refs[t] = Cardinality(Views(u, t)) + One(u.timer[t]) + u.leaked[t] + One(t = x)
Listed(u) == \A t \in Fields : u.refs[t] > 0 => u.list[t] = {b \in Sacks : u.at[b] = t}
Tidy(u) == u \in WindowStates /\ Owed(u, Away) /\ Listed(u)

LEMMA ViewsFinite ==
  ASSUME WindowsAssumption, NEW u, NEW t
  PROVE  IsFiniteSet(Views(u, t)) /\ Cardinality(Views(u, t)) \in Nat
<1>1. IsFiniteSet(Openers \X Cids)
  BY FS_Product DEF WindowsAssumption
<1>2. Views(u, t) \subseteq Openers \X Cids
  BY DEF Views
<1> QED BY <1>1, <1>2, FS_Subset, FS_CardinalityType

\* The windows once c of p shows x.
WithWindow(u, p, c, x) == [u.win EXCEPT ![p] = [u.win[p] EXCEPT ![c] = x]]

\* One window shows x instead.
LEMMA ViewsChange ==
  ASSUME WindowsAssumption, NEW u \in WindowStates, NEW p \in Openers, NEW c \in Cids, NEW x,
         NEW w, w.win = WithWindow(u, p, c, x), NEW t
  PROVE  Cardinality(Views(w, t)) + One(t = u.win[p][c]) = Cardinality(Views(u, t)) + One(t = x)
<1>1. PICK e, V, W : e = <<p, c>> /\ V = Views(u, t) /\ W = Views(w, t)
  OBVIOUS
<1>2. IsFiniteSet(V) /\ Cardinality(V) \in Nat /\ IsFiniteSet(W) /\ Cardinality(W) \in Nat
  BY <1>1, ViewsFinite
<1>3. \A q \in Openers, d \in Cids : w.win[q][d] = IF q = p /\ d = c THEN x ELSE u.win[q][d]
  BY DEF WindowStates, WithWindow
<1>4. \A pc \in Openers \X Cids : pc[1] \in Openers /\ pc[2] \in Cids /\ (pc = e <=> pc[1] = p /\ pc[2] = c)
  BY <1>1
<1>5. e \in Openers \X Cids
  BY <1>1
<1>6. ASSUME NEW pc \in Openers \X Cids
      PROVE  w.win[pc[1]][pc[2]] = IF pc = e THEN x ELSE u.win[pc[1]][pc[2]]
  <2>1. PICK q \in Openers, d \in Cids : q = pc[1] /\ d = pc[2]
    BY <1>4
  <2>2. w.win[q][d] = IF q = p /\ d = c THEN x ELSE u.win[q][d]
    BY <1>3
  <2>3. pc = e <=> q = p /\ d = c
    BY <1>4, <2>1
  <2> QED BY <2>1, <2>2, <2>3
<1>7. e[1] = p /\ e[2] = c
  BY <1>1
<1>8. /\ \A pc \in Openers \X Cids : pc # e => (pc \in W <=> pc \in V)
      /\ e \in W <=> x = t
      /\ e \in V <=> u.win[p][c] = t
  BY <1>1, <1>5, <1>6, <1>7 DEF Views
<1>9. V \subseteq Openers \X Cids /\ W \subseteq Openers \X Cids
  BY <1>1 DEF Views
<1>10. V \ {e} = W \ {e}
  BY <1>8, <1>9
<1>11. ASSUME NEW S, IsFiniteSet(S), Cardinality(S) \in Nat
       PROVE  Cardinality(S) = Cardinality(S \ {e}) + One(e \in S)
  <2>1. CASE e \in S
    BY <1>11, <2>1, OneLess DEF One
  <2>2. CASE e \notin S
    <3>1. S \ {e} = S
      BY <2>2
    <3> QED BY <1>11, <2>2, <3>1 DEF One
  <2> QED BY <2>1, <2>2
<1>12. /\ Cardinality(V) = Cardinality(V \ {e}) + One(e \in V)
       /\ Cardinality(W) = Cardinality(V \ {e}) + One(e \in W)
       /\ Cardinality(V \ {e}) \in Nat
  <2>1. Cardinality(V \ {e}) \in Nat
    BY <1>2, FS_RemoveElement, FS_CardinalityType
  <2> QED BY <1>2, <1>10, <1>11, <2>1
<1>13. /\ One(e \in V) = One(t = u.win[p][c]) /\ One(e \in W) = One(t = x)
       /\ One(e \in V) \in Nat /\ One(e \in W) \in Nat
  BY <1>8 DEF One
<1> QED BY <1>1, <1>12, <1>13

\* The rest is the same.
SameBut(u, w) ==
  /\ w.pos = u.pos /\ w.at = u.at /\ w.timer = u.timer /\ w.leaked = u.leaked

\* A reference too many is given back.
LEMMA DroppedTidy ==
  ASSUME WindowsAssumption, NEW u \in WindowStates, NEW x, Owed(u, x), Listed(u)
  PROVE  Tidy(Dropped(u, x)) /\ SameBut(u, Dropped(u, x)) /\ Dropped(u, x).win = u.win
<1>1. CASE x \notin Fields
  <2>1. Dropped(u, x) = u
    BY <1>1 DEF Dropped
  <2>2. \A t \in Fields : One(t = x) = 0 /\ One(t = Away) = 0
    BY <1>1 DEF One, WindowsAssumption
  <2>3. Owed(u, Away)
    BY <2>2 DEF Owed
  <2> QED BY <2>1, <2>3 DEF Tidy, SameBut
<1>2. CASE x \in Fields
  <2>1. PICK r, l : /\ r = [u.refs EXCEPT ![x] = u.refs[x] - 1]
                    /\ l = [u.list EXCEPT ![x] = IF u.refs[x] = 1 THEN {} ELSE u.list[x]]
    OBVIOUS
  <2>2. r \in [Fields -> Int] /\ l \in [Fields -> SUBSET Sacks]
    BY <1>2, <2>1 DEF WindowStates
  <2>3. PICK w : w = [u EXCEPT !.refs = r, !.list = l]
    OBVIOUS
  <2>4. Dropped(u, x) = w
    BY <1>2, <2>1, <2>3 DEF Dropped
  <2>5. w \in WindowStates /\ w.refs = r /\ w.list = l /\ w.win = u.win /\ SameBut(u, w)
    BY <2>2, <2>3 DEF WindowStates, SameBut
  <2>6. \A t \in Fields : /\ r[t] = u.refs[t] - One(t = x)
                          /\ One(t = Away) = 0 /\ One(t = x) \in {0, 1}
                          /\ l[t] = IF t = x /\ u.refs[x] = 1 THEN {} ELSE u.list[t]
                          /\ u.refs[t] \in Int
    BY <1>2, <2>1 DEF WindowStates, One, WindowsAssumption
  <2>7. \A t : Views(w, t) = Views(u, t)
    BY <2>5 DEF Views
  <2>8. Owed(w, Away)
    <3>1. ASSUME NEW t \in Fields
          PROVE  w.refs[t] = Cardinality(Views(w, t)) + One(w.timer[t]) + w.leaked[t] + One(t = Away)
      <4>1. PICK k \in Nat, m \in Nat, i \in Nat :
              k = Cardinality(Views(u, t)) /\ m = One(u.timer[t]) /\ i = u.leaked[t]
        BY ViewsFinite DEF WindowStates, One
      <4>2. u.refs[t] = k + m + i + One(t = x)
        BY <4>1 DEF Owed
      <4>3. k = Cardinality(Views(w, t)) /\ m = One(w.timer[t]) /\ i = w.leaked[t]
        BY <2>5, <2>7, <4>1 DEF SameBut
      <4>4. w.refs[t] = k + m + i + One(t = Away)
        BY <2>5, <2>6, <4>2
      <4> QED BY <4>3, <4>4
    <3> QED BY <3>1 DEF Owed
  <2>9. Listed(w)
    <3>1. w.at = u.at
      BY <2>5 DEF SameBut
    <3>2. ASSUME NEW t \in Fields, w.refs[t] > 0 PROVE w.list[t] = {b \in Sacks : w.at[b] = t}
      <4>1. u.refs[t] > 0 /\ w.list[t] = u.list[t]
        BY <2>5, <2>6, <3>2 DEF One
      <4> QED BY <3>1, <4>1 DEF Listed
    <3> QED BY <3>2 DEF Listed
  <2> QED BY <2>4, <2>5, <2>8, <2>9 DEF Tidy
<1> QED BY <1>1, <1>2

\* Player::closeContainer
LEMMA CloseContainerIs ==
  ASSUME WindowsAssumption, NEW u, Tidy(u), NEW p \in Openers, NEW c \in Cids
  PROVE  /\ Tidy(CloseContainer(u, p, c)) /\ SameBut(u, CloseContainer(u, p, c))
         /\ CloseContainer(u, p, c).win = WithWindow(u, p, c, Away)
<1>1. PICK g, x : g = WithWindow(u, p, c, Away) /\ x = u.win[p][c]
  OBVIOUS
<1>2. u \in WindowStates
  BY DEF Tidy
<1>3. g \in [Openers -> [Cids -> Sacks \union Fields \union {Away}]]
  BY <1>1, <1>2 DEF WindowStates, WithWindow
<1>4. PICK v : v = [u EXCEPT !.win = g]
  OBVIOUS
<1>5. v \in WindowStates /\ v.win = g /\ SameBut(u, v) /\ v.refs = u.refs /\ v.list = u.list
  BY <1>2, <1>3, <1>4 DEF WindowStates, SameBut
<1>6. CloseContainer(u, p, c) = Dropped(v, x)
  BY <1>1, <1>2, <1>4 DEF CloseContainer, WithWindow, WindowStates
<1>7. Owed(v, x)
  <2>1. ASSUME NEW t \in Fields
        PROVE  v.refs[t] = Cardinality(Views(v, t)) + One(v.timer[t]) + v.leaked[t] + One(t = x)
    <3>1. PICK k \in Nat, m \in Nat, i \in Nat, n \in Nat :
            k = Cardinality(Views(u, t)) /\ m = One(u.timer[t]) /\ i = u.leaked[t] /\ n = Cardinality(Views(v, t))
      BY <1>2, ViewsFinite DEF WindowStates, One
    <3>2. u.refs[t] = k + m + i + One(t = Away)
      BY <3>1 DEF Tidy, Owed
    <3>3. n + One(t = x) = k + One(t = Away)
      BY <1>1, <1>2, <1>5, <3>1, ViewsChange
    <3>4. v.refs[t] = n + m + i + One(t = x)
      BY <1>5, <3>2, <3>3 DEF One
    <3> QED BY <1>5, <3>1, <3>4 DEF SameBut
  <2> QED BY <2>1 DEF Owed
<1>8. Listed(v)
  BY <1>5 DEF Tidy, Listed, SameBut
<1>9. Tidy(Dropped(v, x)) /\ SameBut(v, Dropped(v, x)) /\ Dropped(v, x).win = v.win
  BY <1>5, <1>7, <1>8, DroppedTidy
<1> QED BY <1>1, <1>5, <1>6, <1>9 DEF SameBut

\* Player::addContainer, of a bag or of a field that has a container
LEMMA AddContainerIs ==
  ASSUME WindowsAssumption, NEW u, Tidy(u), NEW p \in Openers, NEW c \in Cids, NEW x \in Sacks \union Fields,
         x \in Fields => u.refs[x] > 0
  PROVE  /\ Tidy(AddContainer(u, p, c, x)) /\ SameBut(u, AddContainer(u, p, c, x))
         /\ AddContainer(u, p, c, x).win = WithWindow(u, p, c, x)
<1>1. PICK g, r, y : /\ g = WithWindow(u, p, c, x) /\ y = u.win[p][c]
                     /\ r = IF x \in Fields THEN [u.refs EXCEPT ![x] = u.refs[x] + 1] ELSE u.refs
  OBVIOUS
<1>2. u \in WindowStates
  BY DEF Tidy
<1>3. g \in [Openers -> [Cids -> Sacks \union Fields \union {Away}]] /\ r \in [Fields -> Int]
  <2>1. g \in [Openers -> [Cids -> Sacks \union Fields \union {Away}]]
    BY <1>1, <1>2 DEF WindowStates, WithWindow
  <2>2. u.refs \in [Fields -> Int]
    BY <1>2 DEF WindowStates
  <2>3. r \in [Fields -> Int]
    <3>1. CASE x \in Fields
      <4>1. u.refs[x] \in Int
        BY <2>2, <3>1
      <4>2. u.refs[x] + 1 \in Int
        BY <4>1
      <4>3. PICK n \in Int : n = u.refs[x] + 1
        BY <4>2
      <4> QED BY <1>1, <2>2, <3>1, <4>3
    <3>2. CASE x \notin Fields
      BY <1>1, <2>2, <3>2
    <3> QED BY <3>1, <3>2
  <2> QED BY <2>1, <2>3
<1>4. PICK v : v = [u EXCEPT !.refs = r, !.win = g]
  OBVIOUS
<1>5. v \in WindowStates /\ v.win = g /\ SameBut(u, v) /\ v.refs = r /\ v.list = u.list
  BY <1>2, <1>3, <1>4 DEF WindowStates, SameBut
<1>6. \A t \in Fields : r[t] = u.refs[t] + One(t = x) /\ u.refs[t] \in Int /\ One(t = x) \in {0, 1}
  BY <1>1, <1>2 DEF One, WindowStates
<1>7. AddContainer(u, p, c, x) = Dropped(v, y)
  <2>1. CASE x \in Fields
    <3>1. [[u EXCEPT !.refs[x] = @ + 1] EXCEPT !.win[p][c] = x] = v
      BY <1>1, <1>2, <1>4, <2>1 DEF WithWindow, WindowStates
    <3> QED BY <1>1, <2>1, <3>1 DEF AddContainer
  <2>2. CASE x \notin Fields
    <3>1. [u EXCEPT !.win[p][c] = x] = v
      BY <1>1, <1>2, <1>4, <2>2 DEF WithWindow, WindowStates
    <3> QED BY <1>1, <2>2, <3>1 DEF AddContainer
  <2> QED BY <2>1, <2>2
<1>8. Owed(v, y)
  <2>1. ASSUME NEW t \in Fields
        PROVE  v.refs[t] = Cardinality(Views(v, t)) + One(v.timer[t]) + v.leaked[t] + One(t = y)
    <3>1. PICK k \in Nat, m \in Nat, i \in Nat, n \in Nat :
            k = Cardinality(Views(u, t)) /\ m = One(u.timer[t]) /\ i = u.leaked[t] /\ n = Cardinality(Views(v, t))
      BY <1>2, ViewsFinite DEF WindowStates, One
    <3>2. u.refs[t] = k + m + i
      <4>1. t # Away /\ Owed(u, Away)
        BY DEF Tidy, WindowsAssumption
      <4>2. u.refs[t] = k + m + i + One(t = Away)
        BY <3>1, <4>1 DEF Owed
      <4> QED BY <4>1, <4>2 DEF One
    <3>3. n + One(t = y) = k + One(t = x)
      <4>1. v.win = WithWindow(u, p, c, x) /\ y = u.win[p][c]
        BY <1>1, <1>5
      <4>2. Cardinality(Views(v, t)) + One(t = u.win[p][c]) = Cardinality(Views(u, t)) + One(t = x)
        BY <1>2, <4>1, ViewsChange
      <4> QED BY <3>1, <4>1, <4>2
    <3>4. v.refs[t] = n + m + i + One(t = y)
      BY <1>5, <1>6, <3>2, <3>3 DEF One
    <3> QED BY <1>5, <3>1, <3>4 DEF SameBut
  <2> QED BY <2>1 DEF Owed
<1>9. Listed(v)
  <2>1. \A t \in Fields : v.refs[t] > 0 => u.refs[t] > 0
    BY <1>5, <1>6 DEF One
  <2> QED BY <1>5, <2>1 DEF Tidy, Listed, SameBut
<1>10. Tidy(Dropped(v, y)) /\ SameBut(v, Dropped(v, y)) /\ Dropped(v, y).win = v.win
  BY <1>5, <1>8, <1>9, DroppedTidy
<1> QED BY <1>1, <1>5, <1>7, <1>10 DEF SameBut

\* f satisfies the recursion equation of a fold of F over sets, starting with g.
FoldsOn(f, Ds, g, F) ==
  f = [s \in Ds |-> IF s = {} THEN g ELSE F[<<Pick(s), f[s \ {Pick(s)}]>>]]

\* What an element less leads to is led to by all the elements.
LEMMA ByElements ==
  ASSUME NEW D, IsFiniteSet(D), NEW Q \in SUBSET SUBSET D, {} \in Q,
         \A s \in SUBSET D : s # {} /\ s \ {Pick(s)} \in Q => s \in Q
  PROVE  D \in Q
<1> DEFINE Bad == {n \in Nat : \E s \in SUBSET D : Cardinality(s) = n /\ s \notin Q}
<1>1. SUFFICES ASSUME D \notin Q PROVE FALSE
  OBVIOUS
<1>2. Bad # {} /\ Bad \in SUBSET Nat
  <2>1. Cardinality(D) \in Nat
    BY FS_CardinalityType
  <2> QED BY <1>1, <2>1
<1>3. PICK n \in Bad : \A m \in Bad : n <= m
  BY <1>2, LeastNumber
<1>4. PICK s \in SUBSET D : Cardinality(s) = n /\ s \notin Q
  BY <1>3
<1>5. PICK u : u = s \ {Pick(s)}
  OBVIOUS
<1>6. s # {} /\ Pick(s) \in s /\ IsFiniteSet(s) /\ u \in SUBSET D
  BY <1>4, <1>5, FS_Subset, PickIn
<1>7. Cardinality(u) \in Nat /\ Cardinality(u) + 1 = n
  BY <1>4, <1>5, <1>6, OneLess
<1>8. u \notin Q
  BY <1>4, <1>5, <1>6
<1>9. n <= Cardinality(u) /\ n \in Nat
  <2>1. Cardinality(u) \in Bad
    BY <1>6, <1>7, <1>8
  <2> HIDE DEF Bad
  <2> QED BY <1>2, <1>3, <2>1
<1> QED BY <1>7, <1>9

\* The fold has a solution on the sets of n elements at most, ...
LEMMA FoldStep ==
  ASSUME NEW D, IsFiniteSet(D), NEW G, NEW g \in G, NEW F \in [D \X G -> G], NEW n \in Nat,
         NEW f \in [Smaller(D, n) -> G], FoldsOn(f, Smaller(D, n), g, F)
  PROVE  \E h \in [Smaller(D, n + 1) -> G] : FoldsOn(h, Smaller(D, n + 1), g, F)
<1> DEFINE h == [s \in Smaller(D, n + 1) |-> IF s = {} THEN g ELSE F[<<Pick(s), f[s \ {Pick(s)}]>>]]
<1>1. ASSUME NEW s \in Smaller(D, n + 1), s # {}
      PROVE  Pick(s) \in D /\ s \ {Pick(s)} \in Smaller(D, n)
  <2>1. s \subseteq D /\ Cardinality(s) <= n + 1 /\ IsFiniteSet(s) /\ Pick(s) \in s
    BY <1>1, FS_Subset, PickIn DEF Smaller
  <2>2. Cardinality(s \ {Pick(s)}) \in Nat /\ Cardinality(s \ {Pick(s)}) + 1 = Cardinality(s)
    BY <2>1, OneLess
  <2>3. Cardinality(s \ {Pick(s)}) <= n
    BY <2>1, <2>2
  <2>4. s \ {Pick(s)} \subseteq D
    BY <2>1
  <2> QED BY <2>1, <2>3, <2>4 DEF Smaller
<1>2. ASSUME NEW s \in Smaller(D, n)
      PROVE  s \in Smaller(D, n + 1) /\ h[s] = f[s]
  <2>1. s \in Smaller(D, n + 1)
    <3>1. s \subseteq D /\ Cardinality(s) <= n /\ IsFiniteSet(s)
      BY <1>2, FS_Subset DEF Smaller
    <3>2. Cardinality(s) \in Nat
      BY <3>1, FS_CardinalityType
    <3> QED BY <3>1, <3>2 DEF Smaller
  <2> QED BY <2>1 DEF FoldsOn
<1>3. h \in [Smaller(D, n + 1) -> G]
  <2>1. ASSUME NEW s \in Smaller(D, n + 1) PROVE h[s] \in G
    <3>1. CASE s = {}
      BY <3>1
    <3>2. CASE s # {}
      <4>1. <<Pick(s), f[s \ {Pick(s)}]>> \in D \X G
        BY <1>1, <3>2
      <4> QED BY <3>2, <4>1
    <3> QED BY <3>1, <3>2
  <2> QED BY <2>1
<1>4. h = [s \in Smaller(D, n + 1) |-> IF s = {} THEN g ELSE F[<<Pick(s), h[s \ {Pick(s)}]>>]]
  <2>1. \A s \in Smaller(D, n + 1) : s # {} => h[s \ {Pick(s)}] = f[s \ {Pick(s)}]
    BY <1>1, <1>2
  <2> QED BY <2>1
<1> QED BY <1>3, <1>4 DEF FoldsOn

\* ... and so on all.
LEMMA Foldable ==
  ASSUME NEW D, IsFiniteSet(D), NEW G, NEW g \in G, NEW F \in [D \X G -> G]
  PROVE  \E f \in [SUBSET D -> G] : FoldsOn(f, SUBSET D, g, F)
<1> DEFINE Bad == {n \in Nat : ~\E f \in [Smaller(D, n) -> G] : FoldsOn(f, Smaller(D, n), g, F)}
<1>1. 0 \notin Bad
  <2>1. Smaller(D, 0) = {{}}
    <3>1. ASSUME NEW s \in SUBSET D PROVE Cardinality(s) <= 0 <=> s = {}
      <4>1. IsFiniteSet(s) /\ Cardinality(s) \in Nat
        BY FS_Subset, FS_CardinalityType
      <4>2. Cardinality(s) = 0 <=> s = {}
        BY <4>1, FS_EmptySet
      <4> QED BY <4>1, <4>2
    <3> QED BY <3>1 DEF Smaller
  <2>2. FoldsOn([s \in {{}} |-> g], {{}}, g, F) /\ [s \in {{}} |-> g] \in [{{}} -> G]
    BY DEF FoldsOn
  <2> QED BY <2>1, <2>2
<1>2. Bad = {}
  <2>1. SUFFICES ASSUME Bad # {} PROVE FALSE
    OBVIOUS
  <2>2. PICK n \in Bad : \A m \in Bad : n <= m
    BY <2>1, LeastNumber
  <2>3. n # 0 /\ n - 1 \in Nat /\ n - 1 \notin Bad
    BY <1>1, <2>2
  <2>4. PICK f \in [Smaller(D, n - 1) -> G] : FoldsOn(f, Smaller(D, n - 1), g, F)
    BY <2>3
  <2>5. \E h \in [Smaller(D, (n - 1) + 1) -> G] : FoldsOn(h, Smaller(D, (n - 1) + 1), g, F)
    BY <2>3, <2>4, FoldStep
  <2>6. (n - 1) + 1 = n
    BY <2>2
  <2> QED BY <2>2, <2>5, <2>6
<1>3. Smaller(D, Cardinality(D)) = SUBSET D
  <2>1. \A s \in SUBSET D : Cardinality(s) <= Cardinality(D)
    BY FS_Subset
  <2> QED BY <2>1 DEF Smaller
<1>4. Cardinality(D) \in Nat
  BY FS_CardinalityType
<1>5. Cardinality(D) \notin Bad
  BY <1>2
<1> QED BY <1>3, <1>4, <1>5

TidyStates == {u \in WindowStates : Tidy(u)}

\* Windows s of p are closed, the others are as they were.
ClosedIn(u, w, p, s) ==
  /\ Tidy(w) /\ SameBut(u, w)
  /\ \A q \in Openers, c \in Cids : w.win[q][c] = IF q = p /\ c \in s THEN Away ELSE u.win[q][c]

\* One more is closed.
LEMMA CloseOne ==
  ASSUME WindowsAssumption, NEW u \in TidyStates, NEW v, NEW p \in Openers, NEW s \in SUBSET Cids, NEW c \in Cids,
         ClosedIn(u, v, p, s)
  PROVE  ClosedIn(u, CloseContainer(v, p, c), p, s \union {c})
<1>1. PICK w : w = CloseContainer(v, p, c)
  OBVIOUS
<1>2. Tidy(v) /\ SameBut(u, v)
  BY DEF ClosedIn
<1>3. Tidy(w) /\ SameBut(v, w) /\ w.win = WithWindow(v, p, c, Away)
  BY <1>1, <1>2, CloseContainerIs
<1>4. \A q \in Openers, d \in Cids : w.win[q][d] = IF q = p /\ d = c THEN Away ELSE v.win[q][d]
  <2>1. v.win \in [Openers -> [Cids -> Sacks \union Fields \union {Away}]]
    BY <1>2 DEF Tidy, WindowStates
  <2> QED BY <1>3, <2>1 DEF WithWindow
<1>5. \A q \in Openers, d \in Cids :
        w.win[q][d] = IF q = p /\ d \in s \union {c} THEN Away ELSE u.win[q][d]
  BY <1>4 DEF ClosedIn
<1>6. SameBut(u, w)
  BY <1>2, <1>3 DEF SameBut
<1> QED BY <1>1, <1>3, <1>5, <1>6 DEF ClosedIn

\* The loop of Player::autoCloseContainers over the windows to close
LEMMA CloseAllIs ==
  ASSUME WindowsAssumption, NEW u \in TidyStates, NEW p \in Openers, NEW S \in SUBSET Cids
  PROVE  ClosedIn(u, CloseAll(u, p, S), p, S)
<1> DEFINE F == [cv \in S \X TidyStates |-> CloseContainer(cv[2], p, cv[1])]
           E(f) == f = [s \in SUBSET S |-> IF s = {} THEN u ELSE CloseContainer(f[s \ {Pick(s)}], p, Pick(s))]
<1>1. IsFiniteSet(S)
  BY FS_Subset DEF WindowsAssumption
<1>2. ASSUME NEW c \in S, NEW v \in TidyStates
      PROVE  CloseContainer(v, p, c) \in TidyStates /\ F[<<c, v>>] = CloseContainer(v, p, c)
  <2>1. Tidy(CloseContainer(v, p, c))
    BY <1>2, CloseContainerIs DEF TidyStates
  <2> QED BY <1>2, <2>1 DEF Tidy, TidyStates
<1>3. F \in [S \X TidyStates -> TidyStates]
  BY <1>2
<1>4. \E f : E(f)
  <2>1. PICK f \in [SUBSET S -> TidyStates] : FoldsOn(f, SUBSET S, u, F)
    <3> HIDE DEF F
    <3> QED BY <1>1, <1>3, Foldable
  <2>2. ASSUME NEW s \in SUBSET S, s # {}
        PROVE  F[<<Pick(s), f[s \ {Pick(s)}]>>] = CloseContainer(f[s \ {Pick(s)}], p, Pick(s))
    <3>1. Pick(s) \in S /\ f[s \ {Pick(s)}] \in TidyStates
      BY <2>2, PickIn
    <3> HIDE DEF F
    <3> QED BY <1>2, <3>1
  <2>3. E(f)
    <3> HIDE DEF F
    <3> QED BY <2>1, <2>2 DEF FoldsOn
  <2> QED BY <2>3
<1>5. PICK h : h = CHOOSE f : E(f)
  OBVIOUS
<1>6. E(h)
  BY <1>4, <1>5, Zenon
<1>7. CloseAll(u, p, S) = h[S]
  BY <1>5 DEF CloseAll, FoldSet, MapThenFoldSet, Pick
<1>8. PICK Q : Q = {s \in SUBSET S : ClosedIn(u, h[s], p, s)}
  OBVIOUS
<1>9. {} \in Q
  <2>1. h[{}] = u
    BY <1>6
  <2> QED BY <1>8, <2>1 DEF ClosedIn, SameBut, TidyStates
<1>10. ASSUME NEW s \in SUBSET S, s # {}, s \ {Pick(s)} \in Q PROVE s \in Q
  <2>1. PICK c, r : c = Pick(s) /\ r = s \ {c}
    OBVIOUS
  <2>2. c \in S /\ r \in SUBSET S /\ r \union {c} = s /\ ClosedIn(u, h[r], p, r)
    <3>1. c \in s /\ r \in Q
      BY <1>10, <2>1, PickIn
    <3> QED BY <1>8, <1>10, <2>1, <3>1
  <2>3. h[s] = CloseContainer(h[r], p, c)
    <3>1. \A z \in SUBSET S : z # {} => h[z] = CloseContainer(h[z \ {Pick(z)}], p, Pick(z))
      BY <1>6
    <3> HIDE DEF E, F
    <3>2. h[s] = CloseContainer(h[s \ {Pick(s)}], p, Pick(s))
      BY <1>10, <3>1
    <3> QED BY <2>1, <3>2
  <2>4. ClosedIn(u, CloseContainer(h[r], p, c), p, r \union {c})
    BY <2>2, CloseOne
  <2> QED BY <1>8, <2>2, <2>3, <2>4
<1>11. S \in Q
  <2> HIDE DEF E, F
  <2>1. Q \in SUBSET SUBSET S
    BY <1>8
  <2> QED BY <1>1, <1>9, <1>10, <2>1, ByElements
<1> QED BY <1>7, <1>8, <1>11

\* From u to w some windows were closed, and nothing else happened.
Closes(u, w) ==
  /\ Tidy(w) /\ SameBut(u, w)
  /\ \A q \in Openers, c \in Cids : w.win[q][c] \in {u.win[q][c], Away}

LEMMA ClosesOn ==
  ASSUME NEW u, NEW v, NEW w, Closes(u, v), Closes(v, w)
  PROVE  Closes(u, w)
  BY DEF Closes, SameBut

\* Player p has no window left on x or on what is in x.
NoneIn(u, p, x) == \A c \in Cids : u.win[p][c] # Away => x \notin Parents(u, u.win[p][c])

LEMMA StillNoneIn ==
  ASSUME NEW u, NEW w, Closes(u, w), NEW p \in Openers, NEW x, NoneIn(u, p, x)
  PROVE  NoneIn(w, p, x)
<1>1. w.at = u.at /\ \A c \in Cids : w.win[p][c] \in {u.win[p][c], Away}
  BY DEF Closes, SameBut
<1>2. \A y : Parents(w, y) = Parents(u, y)
  BY <1>1, SameBags
<1> QED BY <1>1, <1>2 DEF NoneIn

\* Player::autoCloseContainers
LEMMA AutoCloseIs ==
  ASSUME WindowsAssumption, NEW u, Tidy(u), NEW p \in Openers, NEW x
  PROVE  Closes(u, AutoCloseContainers(u, p, x)) /\ NoneIn(AutoCloseContainers(u, p, x), p, x)
<1>1. PICK S : S = {c \in Cids : u.win[p][c] # Away /\
                    (x \in Parents(u, u.win[p][c]) \/ IsRemoved(u, u.win[p][c]))}
  OBVIOUS
<1>2. PICK w : w = CloseAll(u, p, S)
  OBVIOUS
<1>3. w = AutoCloseContainers(u, p, x)
  BY <1>1, <1>2, Zenon DEF AutoCloseContainers
<1>4. ClosedIn(u, w, p, S)
  BY <1>1, <1>2, CloseAllIs DEF TidyStates, Tidy
<1>5. Closes(u, w)
  BY <1>4 DEF ClosedIn, Closes
<1>6. NoneIn(w, p, x)
  <2>1. w.at = u.at
    BY <1>5 DEF Closes, SameBut
  <2>2. \A y : Parents(w, y) = Parents(u, y)
    BY <2>1, SameBags
  <2>3. ASSUME NEW c \in Cids, w.win[p][c] # Away PROVE x \notin Parents(w, w.win[p][c])
    <3>1. c \notin S /\ w.win[p][c] = u.win[p][c]
      BY <1>4, <2>3 DEF ClosedIn
    <3>2. x \notin Parents(u, u.win[p][c])
      BY <1>1, <2>3, <3>1
    <3> QED BY <2>2, <3>1, <3>2
  <2> QED BY <2>3 DEF NoneIn
<1> QED BY <1>3, <1>5, <1>6

\* Of the players in s, those who do not reach b have no window left on what is in it.
ToldOf(u, w, b, s) ==
  /\ Closes(u, w)
  /\ \A p \in s : ~Reaches(u, p, b) => NoneIn(w, p, b)

\* What a player reaches depends on where the bags and the players are.
LEMMA SameReach ==
  ASSUME NEW u, NEW w, w.at = u.at, w.pos = u.pos, NEW p, NEW x
  PROVE  /\ Reaches(w, p, x) <=> Reaches(u, p, x)
         /\ \A t : Within1(w, p, t) <=> Within1(u, p, t)
<1>1. TopParent(w, x) = TopParent(u, x)
  BY SameBags
<1>2. \A t : Within1(w, p, t) <=> Within1(u, p, t)
  BY DEF Within1
<1> QED BY <1>1, <1>2 DEF Reaches

\* One more is told.
LEMMA TellOne ==
  ASSUME WindowsAssumption, NEW u, NEW v, NEW b, NEW s \in SUBSET Openers, NEW p \in Openers, ToldOf(u, v, b, s)
  PROVE  ToldOf(u, PostRemove(v, p, b), b, s \union {p})
<1>1. PICK w : w = PostRemove(v, p, b)
  OBVIOUS
<1>2. Closes(u, v) /\ Tidy(v)
  BY DEF ToldOf, Closes
<1>3. Reaches(v, p, b) <=> Reaches(u, p, b)
  <2>1. v.at = u.at /\ v.pos = u.pos
    BY <1>2 DEF Closes, SameBut
  <2> QED BY <2>1, SameReach
<1>4. Closes(v, w) /\ (~Reaches(u, p, b) => NoneIn(w, p, b))
  <2>1. CASE Reaches(v, p, b)
    <3>1. w = v
      BY <1>1, <2>1 DEF PostRemove
    <3> QED BY <1>2, <1>3, <2>1, <3>1 DEF Closes, SameBut
  <2>2. CASE ~Reaches(v, p, b)
    <3>1. w = AutoCloseContainers(v, p, b)
      BY <1>1, <2>2 DEF PostRemove
    <3> QED BY <1>2, <3>1, AutoCloseIs
  <2> QED BY <2>1, <2>2
<1>5. ASSUME NEW q \in s \union {p}, ~Reaches(u, q, b) PROVE NoneIn(w, q, b)
  <2>1. CASE q = p
    BY <1>4, <1>5, <2>1
  <2>2. CASE q \in s
    <3>1. NoneIn(v, q, b) /\ q \in Openers
      BY <1>5, <2>2 DEF ToldOf
    <3> QED BY <1>4, <3>1, StillNoneIn
  <2> QED BY <1>5, <2>1, <2>2
<1>6. Closes(u, w)
  BY <1>2, <1>4, ClosesOn
<1> QED BY <1>1, <1>5, <1>6 DEF ToldOf

\* Who is near what a bag was taken from.
Near(u, top) == {p \in Openers : u.pos[p] # Away /\ (top = p \/ (top \in Fields /\ Within1(u, p, top)))}

\* Container::postRemoveNotification
LEMMA NotifyRemovedIs ==
  ASSUME WindowsAssumption, NEW u, Tidy(u), NEW top, NEW b
  PROVE  ToldOf(u, NotifyRemoved(u, top, b), b, Near(u, top))
<1> DEFINE S == Near(u, top)
           F == [pv \in S \X TidyStates |-> PostRemove(pv[2], pv[1], b)]
           E(f) == f = [s \in SUBSET S |-> IF s = {} THEN u ELSE PostRemove(f[s \ {Pick(s)}], Pick(s), b)]
<1>1. S \in SUBSET Openers /\ IsFiniteSet(S) /\ u \in TidyStates
  BY FS_Subset DEF WindowsAssumption, Near, TidyStates, Tidy
<1>2. ASSUME NEW p \in S, NEW v \in TidyStates
      PROVE  PostRemove(v, p, b) \in TidyStates /\ F[<<p, v>>] = PostRemove(v, p, b)
  <2>1. Tidy(v) /\ p \in Openers
    BY <1>1, <1>2 DEF TidyStates
  <2>2. Tidy(AutoCloseContainers(v, p, b))
    BY <2>1, AutoCloseIs DEF Closes
  <2>3. Tidy(PostRemove(v, p, b))
    BY <2>1, <2>2 DEF PostRemove
  <2> QED BY <1>2, <2>3 DEF Tidy, TidyStates
<1> HIDE DEF S
<1>3. F \in [S \X TidyStates -> TidyStates]
  BY <1>2
<1>4. \E f : E(f)
  <2>1. PICK f \in [SUBSET S -> TidyStates] : FoldsOn(f, SUBSET S, u, F)
    <3> HIDE DEF F
    <3> QED BY <1>1, <1>3, Foldable
  <2>2. ASSUME NEW s \in SUBSET S, s # {}
        PROVE  F[<<Pick(s), f[s \ {Pick(s)}]>>] = PostRemove(f[s \ {Pick(s)}], Pick(s), b)
    <3>1. Pick(s) \in S /\ f[s \ {Pick(s)}] \in TidyStates
      BY <2>2, PickIn
    <3> HIDE DEF F
    <3> QED BY <1>2, <3>1
  <2>3. E(f)
    <3> HIDE DEF F
    <3> QED BY <2>1, <2>2 DEF FoldsOn
  <2> QED BY <2>3
<1>5. PICK h : h = CHOOSE f : E(f)
  OBVIOUS
<1>6. E(h)
  BY <1>4, <1>5, Zenon
<1>7. NotifyRemoved(u, top, b) = h[S]
  BY <1>5 DEF NotifyRemoved, FoldSet, MapThenFoldSet, Pick, S, Near
<1>8. PICK Q : Q = {s \in SUBSET S : ToldOf(u, h[s], b, s)}
  OBVIOUS
<1>9. {} \in Q
  <2>1. h[{}] = u
    BY <1>6
  <2> QED BY <1>8, <2>1 DEF ToldOf, Closes, SameBut
<1>10. ASSUME NEW s \in SUBSET S, s # {}, s \ {Pick(s)} \in Q PROVE s \in Q
  <2>1. PICK p, r : p = Pick(s) /\ r = s \ {p}
    OBVIOUS
  <2>2. p \in S /\ r \in SUBSET S /\ r \union {p} = s /\ ToldOf(u, h[r], b, r)
    BY <1>8, <1>10, <2>1, PickIn
  <2>3. h[s] = PostRemove(h[r], p, b)
    BY <1>6, <1>10, <2>1
  <2>4. r \in SUBSET Openers /\ p \in Openers
    BY <1>1, <2>2
  <2>5. ToldOf(u, PostRemove(h[r], p, b), b, r \union {p})
    BY <2>2, <2>4, TellOne
  <2> QED BY <1>8, <2>2, <2>3, <2>5
<1>11. S \in Q
  <2> HIDE DEF E, F
  <2>1. Q \in SUBSET SUBSET S
    BY <1>8
  <2> QED BY <1>1, <1>9, <1>10, <2>1, ByElements
<1>12. ToldOf(u, NotifyRemoved(u, top, b), b, S)
  BY <1>7, <1>8, <1>11
<1> QED BY <1>12 DEF S

\* Player p has no window left on what is in s, nor on what is in that.
GoneFrom(u, w, p, s) == Closes(u, w) /\ \A x \in s : NoneIn(w, p, x)

\* What p closes when he has moved on, D being what was left behind.
LeavingIs(u, w, p, D) == w = FoldSet(LAMBDA x, v : AutoCloseContainers(v, p, x), u, D)

\* The loop of Player::postAddNotification over the containers to close
LEMMA ClosedBehind ==
  ASSUME WindowsAssumption, NEW u, Tidy(u), NEW p \in Openers, NEW D, IsFiniteSet(D), NEW w, LeavingIs(u, w, p, D)
  PROVE  GoneFrom(u, w, p, D)
<1> DEFINE F == [xv \in D \X TidyStates |-> AutoCloseContainers(xv[2], p, xv[1])]
           E(f) == f = [s \in SUBSET D |-> IF s = {} THEN u ELSE AutoCloseContainers(f[s \ {Pick(s)}], p, Pick(s))]
<1>1. u \in TidyStates
  BY DEF TidyStates, Tidy
<1>2. ASSUME NEW x \in D, NEW v \in TidyStates
      PROVE  AutoCloseContainers(v, p, x) \in TidyStates /\ F[<<x, v>>] = AutoCloseContainers(v, p, x)
  <2>1. Tidy(AutoCloseContainers(v, p, x))
    BY <1>2, AutoCloseIs DEF TidyStates, Closes
  <2> QED BY <1>2, <2>1 DEF Tidy, TidyStates
<1>3. F \in [D \X TidyStates -> TidyStates]
  BY <1>2
<1>4. \E f : E(f)
  <2>1. PICK f \in [SUBSET D -> TidyStates] : FoldsOn(f, SUBSET D, u, F)
    <3> HIDE DEF F
    <3> QED BY <1>1, <1>3, Foldable
  <2>2. ASSUME NEW s \in SUBSET D, s # {}
        PROVE  F[<<Pick(s), f[s \ {Pick(s)}]>>] = AutoCloseContainers(f[s \ {Pick(s)}], p, Pick(s))
    <3>1. Pick(s) \in D /\ f[s \ {Pick(s)}] \in TidyStates
      BY <2>2, PickIn
    <3> HIDE DEF F
    <3> QED BY <1>2, <3>1
  <2>3. E(f)
    <3> HIDE DEF F
    <3> QED BY <2>1, <2>2 DEF FoldsOn
  <2> QED BY <2>3
<1>5. PICK h : h = CHOOSE f : E(f)
  OBVIOUS
<1>6. E(h)
  BY <1>4, <1>5, Zenon
<1>7. w = h[D]
  BY <1>5 DEF LeavingIs, FoldSet, MapThenFoldSet, Pick
<1>8. PICK Q : Q = {s \in SUBSET D : GoneFrom(u, h[s], p, s)}
  OBVIOUS
<1>9. {} \in Q
  <2>1. h[{}] = u
    BY <1>6
  <2> QED BY <1>8, <2>1 DEF GoneFrom, Closes, SameBut
<1>10. ASSUME NEW s \in SUBSET D, s # {}, s \ {Pick(s)} \in Q PROVE s \in Q
  <2>1. PICK x, r, v, y : x = Pick(s) /\ r = s \ {x} /\ v = h[r] /\ y = h[s]
    OBVIOUS
  <2>2. x \in D /\ r \in SUBSET D /\ r \union {x} = s /\ GoneFrom(u, v, p, r)
    BY <1>8, <1>10, <2>1, PickIn
  <2>3. y = AutoCloseContainers(v, p, x)
    BY <1>6, <1>10, <2>1
  <2>4. Closes(u, v) /\ Tidy(v)
    BY <2>2 DEF GoneFrom, Closes
  <2>5. Closes(v, y) /\ NoneIn(y, p, x)
    BY <2>3, <2>4, AutoCloseIs
  <2>6. \A z \in r : NoneIn(y, p, z)
    BY <2>2, <2>5, StillNoneIn DEF GoneFrom
  <2>7. Closes(u, y)
    BY <2>4, <2>5, ClosesOn
  <2>8. GoneFrom(u, y, p, s)
    BY <2>2, <2>5, <2>6, <2>7 DEF GoneFrom
  <2> QED BY <1>8, <2>1, <2>8
<1>11. D \in Q
  <2> HIDE DEF E, F
  <2>1. Q \in SUBSET SUBSET D
    BY <1>8
  <2> QED BY <1>9, <1>10, <2>1, ByElements
<1> QED BY <1>7, <1>8, <1>11

\* A bag put somewhere is where it is put, and what is listed is what is there.
LEMMA PutIs ==
  ASSUME WindowsAssumption, NEW u, Tidy(u), NEW b \in Sacks, NEW to \in BagPlaces
  PROVE  /\ Tidy(Put(u, b, to)) /\ Put(u, b, to).at = [u.at EXCEPT ![b] = to]
         /\ Put(u, b, to).pos = u.pos /\ Put(u, b, to).win = u.win
<1>1. PICK a, from : a = [u.at EXCEPT ![b] = to] /\ from = u.at[b]
  OBVIOUS
<1>2. PICK l : l = [t \in Fields |->
                     LET kept == IF t = from THEN u.list[t] \ {b} ELSE u.list[t]
                     IN IF t = to /\ u.refs[t] > 0 THEN kept \union {b} ELSE kept]
  OBVIOUS
<1>3. u \in WindowStates
  BY DEF Tidy
<1>4. a \in [Sacks -> BagPlaces] /\ \A y \in Sacks : a[y] = IF y = b THEN to ELSE u.at[y]
  BY <1>1, <1>3 DEF WindowStates
<1>5. l \in [Fields -> SUBSET Sacks]
  <2>1. \A t \in Fields : u.list[t] \in SUBSET Sacks
    BY <1>3 DEF WindowStates
  <2> QED BY <1>2, <2>1
<1>6. PICK v : v = [u EXCEPT !.at = a, !.list = l]
  OBVIOUS
<1>7. Put(u, b, to) = v
  <2>1. PICK w : w = [u EXCEPT !.at = a]
    OBVIOUS
  <2>2. Put(u, b, to) = Relisted(w, b, from, to)
    BY <1>1, <2>1, Zenon DEF Put
  <2>3. w.list = u.list /\ w.refs = u.refs /\ v = [w EXCEPT !.list = l]
    BY <1>3, <1>6, <2>1 DEF WindowStates
  <2> QED BY <1>2, <2>2, <2>3 DEF Relisted
<1>8. /\ v \in WindowStates /\ v.at = a /\ v.list = l /\ v.pos = u.pos /\ v.win = u.win
      /\ v.refs = u.refs /\ v.timer = u.timer /\ v.leaked = u.leaked
  BY <1>3, <1>4, <1>5, <1>6 DEF WindowStates
<1>9. Owed(v, Away)
  <2>1. \A t : Views(v, t) = Views(u, t)
    BY <1>8 DEF Views
  <2> QED BY <1>8, <2>1 DEF Tidy, Owed
<1>10. Listed(v)
  <2>1. ASSUME NEW t \in Fields, v.refs[t] > 0 PROVE v.list[t] = {y \in Sacks : v.at[y] = t}
    <3>1. u.list[t] = {y \in Sacks : u.at[y] = t} /\ u.refs[t] > 0
      BY <1>8, <2>1 DEF Tidy, Listed
    <3>2. ASSUME NEW y \in Sacks PROVE y \in l[t] <=> a[y] = t
      BY <1>1, <1>2, <1>4, <3>1
    <3> QED BY <1>5, <1>8, <3>2
  <2> QED BY <2>1 DEF Listed
<1>11. Tidy(v)
  BY <1>8, <1>9, <1>10 DEF Tidy
<1> QED BY <1>1, <1>7, <1>8, <1>11

\* Game::playerBrowseField: the field has a container then.
LEMMA BrowsedIs ==
  ASSUME WindowsAssumption, NEW u, Tidy(u), NEW t \in Fields
  PROVE  /\ Tidy(Browsed(u, t)) /\ Browsed(u, t).refs[t] > 0
         /\ Browsed(u, t).at = u.at /\ Browsed(u, t).pos = u.pos /\ Browsed(u, t).win = u.win
<1>1. CASE u.refs[t] > 0
  <2>1. Browsed(u, t) = u
    BY <1>1 DEF Browsed
  <2> QED BY <1>1, <2>1
<1>2. CASE ~(u.refs[t] > 0)
  <2>1. PICK r, m, l : /\ r = [u.refs EXCEPT ![t] = 1] /\ m = [u.timer EXCEPT ![t] = TRUE]
                       /\ l = [u.list EXCEPT ![t] = {b \in Sacks : u.at[b] = t}]
    OBVIOUS
  <2>2. u \in WindowStates
    BY DEF Tidy
  <2>3. r \in [Fields -> Int] /\ m \in [Fields -> BOOLEAN] /\ l \in [Fields -> SUBSET Sacks]
    BY <2>1, <2>2 DEF WindowStates
  <2>4. PICK v : v = [u EXCEPT !.refs = r, !.timer = m, !.list = l]
    OBVIOUS
  <2>5. Browsed(u, t) = v
    BY <1>2, <2>1, <2>4, <2>2 DEF Browsed, WindowStates
  <2>6. /\ v \in WindowStates /\ v.refs = r /\ v.timer = m /\ v.list = l
        /\ v.at = u.at /\ v.pos = u.pos /\ v.win = u.win /\ v.leaked = u.leaked
    BY <2>2, <2>3, <2>4 DEF WindowStates
  <2>7. \A s : Views(v, s) = Views(u, s)
    BY <2>6 DEF Views
  <2>8. ASSUME NEW s \in Fields
        PROVE  v.refs[s] = Cardinality(Views(v, s)) + One(v.timer[s]) + v.leaked[s] + One(s = Away)
    <3>1. u.refs[s] = Cardinality(Views(u, s)) + One(u.timer[s]) + u.leaked[s] + One(s = Away)
      BY DEF Tidy, Owed
    <3>2. CASE s # t
      <4>1. r[s] = u.refs[s] /\ m[s] = u.timer[s]
        BY <2>1, <2>2, <3>2 DEF WindowStates
      <4> QED BY <2>6, <2>7, <3>1, <4>1
    <3>3. CASE s = t
      <4>1. PICK k \in Nat, i \in Nat, j \in Nat :
              k = Cardinality(Views(u, s)) /\ i = u.leaked[s] /\ j = One(u.timer[s])
        BY <2>2, ViewsFinite DEF WindowStates, One
      <4>2. One(s = Away) = 0
        BY DEF One, WindowsAssumption
      <4>3. k + j + i <= 0
        <5>1. u.refs[s] = k + j + i + 0
          BY <3>1, <4>1, <4>2
        <5> QED BY <1>2, <3>3, <5>1
      <4>4. k = 0 /\ i = 0
        BY <4>3
      <4>5. r[s] = 1 /\ m[s] = TRUE
        BY <2>1, <2>2, <3>3 DEF WindowStates
      <4>6. One(m[s]) = 1
        BY <4>5 DEF One
      <4>7. Cardinality(Views(v, s)) = 0 /\ One(v.timer[s]) = 1 /\ v.leaked[s] = 0 /\ v.refs[s] = 1
        BY <2>6, <2>7, <4>1, <4>4, <4>5, <4>6
      <4> QED BY <4>2, <4>7
    <3> QED BY <3>2, <3>3
  <2>9. Owed(v, Away)
    BY <2>8 DEF Owed
  <2>10. Listed(v)
    <3>1. ASSUME NEW s \in Fields, v.refs[s] > 0 PROVE v.list[s] = {b \in Sacks : v.at[b] = s}
      <4>1. CASE s = t
        BY <2>1, <2>2, <2>6, <4>1 DEF WindowStates
      <4>2. CASE s # t
        <5>1. r[s] = u.refs[s] /\ l[s] = u.list[s]
          BY <2>1, <2>2, <4>2 DEF WindowStates
        <5> QED BY <2>6, <3>1, <5>1 DEF Tidy, Listed
      <4> QED BY <4>1, <4>2
    <3> QED BY <3>1 DEF Listed
  <2>11. v.refs[t] > 0
    BY <2>1, <2>2, <2>6 DEF WindowStates
  <2> QED BY <2>5, <2>6, <2>9, <2>10, <2>11 DEF Tidy
<1> QED BY <1>1, <1>2

\* Bags that are put into none leave every bag an outermost one.
LEMMA GroundedStill ==
  ASSUME NEW u, NEW w, Grounded(u), \A y \in Sacks : w.at[y] \in Sacks => w.at[y] = u.at[y]
  PROVE  Grounded(w)
<1>1. SUFFICES ASSUME NEW b \in Sacks, \A y \in Parents(w, b) : w.at[y] \in Sacks PROVE FALSE
  BY DEF Grounded, Outermost
<1>2. b \in Parents(w, b) /\ Parents(w, b) \in SUBSET Sacks /\ ClosedUp(w, Parents(w, b))
  BY ParentsAre
<1>3. ClosedUp(u, Parents(w, b))
  BY <1>1, <1>2 DEF ClosedUp
<1>4. PICK x : Outermost(u, b, x)
  BY DEF Grounded
<1>5. x \in Parents(w, b) /\ u.at[x] \notin Sacks
  BY <1>2, <1>3, <1>4, ParentsAre DEF Outermost
<1> QED BY <1>1, <1>2, <1>5

\* And so does one that is put into another which is not in it.
LEMMA GroundedInto ==
  ASSUME NEW u, NEW w, NEW b \in Sacks, NEW to \in Sacks, Grounded(u), b \notin Parents(u, to),
         w.at[b] = to, \A y \in Sacks \ {b} : w.at[y] = u.at[y]
  PROVE  Grounded(w)
<1>1. SUFFICES ASSUME NEW x \in Sacks, \A y \in Parents(w, x) : w.at[y] \in Sacks PROVE FALSE
  BY DEF Grounded, Outermost
<1>2. x \in Parents(w, x) /\ Parents(w, x) \in SUBSET Sacks /\ ClosedUp(w, Parents(w, x))
  BY ParentsAre
<1>3. CASE b \in Parents(w, x)
  <2>1. to \in Parents(w, x)
    BY <1>2, <1>3 DEF ClosedUp
  <2>2. Parents(w, to) \subseteq Parents(w, x)
    BY <2>1, ParentsTwice
  <2>3. Parents(w, to) = Parents(u, to)
    <3>1. \A y \in Parents(u, to) : w.at[y] = u.at[y]
      BY ParentsAre
    <3> QED BY <3>1, ParentsSame
  <2>4. PICK o : Outermost(u, to, o)
    BY DEF Grounded
  <2>5. o \in Parents(u, to) /\ u.at[o] \notin Sacks /\ o \in Sacks
    BY <2>4, ParentsAre DEF Outermost
  <2>6. w.at[o] = u.at[o] /\ o \in Parents(w, x)
    BY <2>2, <2>3, <2>5
  <2> QED BY <1>1, <2>5, <2>6
<1>4. CASE b \notin Parents(w, x)
  <2>1. \A y \in Parents(w, x) : w.at[y] = u.at[y]
    BY <1>2, <1>4
  <2>2. ClosedUp(u, Parents(w, x))
    BY <1>2, <2>1 DEF ClosedUp
  <2>3. PICK o : Outermost(u, x, o)
    BY DEF Grounded
  <2>4. o \in Parents(w, x) /\ u.at[o] \notin Sacks
    BY <1>2, <2>2, <2>3, ParentsAre DEF Outermost
  <2> QED BY <1>1, <2>1, <2>4
<1> QED BY <1>3, <1>4

\* A bag that is moved takes with it what is in it, and nothing else.
LEMMA MovedTop ==
  ASSUME NEW u, NEW w, Grounded(u), Grounded(w), NEW b \in Sacks,
         \A y \in Sacks \ {b} : w.at[y] = u.at[y], NEW x \in Sacks
  PROVE  TopParent(w, x) = IF b \in Parents(u, x) THEN TopParent(w, b) ELSE TopParent(u, x)
<1>1. CASE b \notin Parents(u, x)
  <2>1. \A y \in Parents(u, x) : w.at[y] = u.at[y]
    BY <1>1, ParentsAre
  <2>2. PICK o : Outermost(u, x, o)
    BY DEF Grounded
  <2>3. Outermost(w, x, o)
    BY <2>1, <2>2, ParentsSame
  <2>4. w.at[o] = u.at[o]
    BY <2>1, <2>2 DEF Outermost
  <2>5. TopParent(w, x) = w.at[o] /\ TopParent(u, x) = u.at[o]
    BY <2>2, <2>3, TopIs
  <2> QED BY <1>1, <2>4, <2>5
<1>2. CASE b \in Parents(u, x)
  <2>1. b \in Parents(w, x)
    <3>1. SUFFICES ASSUME b \notin Parents(w, x) PROVE FALSE
      OBVIOUS
    <3>2. \A y \in Parents(w, x) : u.at[y] = w.at[y]
      BY <3>1, ParentsAre
    <3>3. Parents(u, x) = Parents(w, x)
      BY <3>2, ParentsSame
    <3> QED BY <1>2, <3>1, <3>3
  <2>2. TopParent(w, b) = TopParent(w, x)
    BY <2>1, OneTopParent
  <2> QED BY <1>2, <2>2
<1> QED BY <1>1, <1>2

\* The open windows are in reach, and a bag is carried only by players who are there.
InReach(u) ==
  \A p \in Openers, c \in Cids :
    /\ u.win[p][c] \in Sacks => Reaches(u, p, u.win[p][c])
    /\ u.win[p][c] \in Fields => Within1(u, p, u.win[p][c])
Carried(u) == \A b \in Sacks, p \in Openers : u.at[b] = p => u.pos[p] # Away

\* The inductive invariant of the open windows.
Overseen(u) == Tidy(u) /\ Grounded(u) /\ InReach(u) /\ Carried(u)

\* To close windows is harmless.
LEMMA ClosesKeeps ==
  ASSUME WindowsAssumption, NEW u, Overseen(u), NEW w, Closes(u, w)
  PROVE  Overseen(w)
<1>1. /\ Tidy(w) /\ w.at = u.at /\ w.pos = u.pos
      /\ \A q \in Openers, c \in Cids : w.win[q][c] \in {u.win[q][c], Away}
  BY DEF Closes, SameBut
<1>2. Grounded(w)
  BY <1>1, SameBags DEF Overseen
<1>3. Carried(w)
  BY <1>1 DEF Overseen, Carried
<1>4. InReach(w)
  <2>1. ASSUME NEW p \in Openers, NEW c \in Cids
        PROVE  /\ w.win[p][c] \in Sacks => Reaches(w, p, w.win[p][c])
               /\ w.win[p][c] \in Fields => Within1(w, p, w.win[p][c])
    <3>1. CASE w.win[p][c] = Away
      BY <3>1 DEF WindowsAssumption
    <3>2. CASE w.win[p][c] = u.win[p][c]
      <4>1. PICK x : x = u.win[p][c]
        OBVIOUS
      <4>2. (x \in Sacks => Reaches(u, p, x)) /\ (x \in Fields => Within1(u, p, x))
        BY <4>1 DEF Overseen, InReach
      <4>3. (Reaches(w, p, x) <=> Reaches(u, p, x)) /\ (Within1(w, p, x) <=> Within1(u, p, x))
        BY <1>1, SameReach
      <4> QED BY <3>2, <4>1, <4>2, <4>3
    <3> QED BY <1>1, <3>1, <3>2
  <2> QED BY <2>1 DEF InReach
<1> QED BY <1>1, <1>2, <1>3, <1>4 DEF Overseen

\* The bags have one that contains nothing moved to a place that fits: those who lose
\* it out of reach are told, and the rest still reach what they have open.
LEMMA MovedKeeps ==
  ASSUME WindowsAssumption, NEW u, Overseen(u), NEW b \in Sacks, NEW to \in BagPlaces,
         Grounded(Put(u, b, to)), to \in Openers => u.pos[to] # Away
  PROVE  Overseen(NotifyRemoved(Put(u, b, to), TopParent(u, b), b))
<1>1. PICK v, top, w : v = Put(u, b, to) /\ top = TopParent(u, b) /\ w = NotifyRemoved(v, top, b)
  OBVIOUS
<1>2. Tidy(v) /\ v.at = [u.at EXCEPT ![b] = to] /\ v.pos = u.pos /\ v.win = u.win
  BY <1>1, PutIs DEF Overseen
<1>3. u.at \in [Sacks -> BagPlaces]
  BY DEF Overseen, Tidy, WindowStates
<1>4. v.at[b] = to /\ \A y \in Sacks \ {b} : v.at[y] = u.at[y]
  BY <1>2, <1>3
<1>5. ToldOf(v, w, b, Near(v, top))
  BY <1>1, <1>2, NotifyRemovedIs
<1>6. Closes(v, w)
  BY <1>5 DEF ToldOf
<1>7. /\ Tidy(w) /\ w.at = v.at /\ w.pos = v.pos
      /\ \A q \in Openers, c \in Cids : w.win[q][c] \in {v.win[q][c], Away}
  BY <1>6 DEF Closes, SameBut
<1>8. Grounded(v) /\ Grounded(w) /\ Grounded(u)
  BY <1>1, <1>7, SameBags DEF Overseen
<1>9. Carried(w)
  <2>1. ASSUME NEW y \in Sacks, NEW p \in Openers, w.at[y] = p PROVE w.pos[p] # Away
    <3>1. CASE y = b
      BY <1>2, <1>4, <1>7, <2>1, <3>1
    <3>2. CASE y # b
      <4>1. u.at[y] = p
        BY <1>4, <1>7, <2>1, <3>2
      <4> QED BY <1>2, <1>7, <4>1 DEF Overseen, Carried
    <3> QED BY <3>1, <3>2
  <2> QED BY <2>1 DEF Carried
<1>10. ASSUME NEW p \in Openers, NEW x \in Sacks, Reaches(u, p, x), b \in Parents(u, x)
       PROVE  p \in Near(v, top)
  <2>1. TopParent(u, x) = top
    BY <1>1, <1>8, <1>10, OneTopParent
  <2>2. top = p \/ (top \in Fields /\ Within1(u, p, top))
    BY <1>10, <2>1 DEF Reaches
  <2>3. CASE top = p
    <3>1. PICK o : Outermost(u, x, o)
      BY <1>8 DEF Grounded
    <3>2. o \in Sacks /\ u.at[o] = top
      BY <2>1, <3>1, TopIs, ParentsAre DEF Outermost
    <3>3. u.pos[p] # Away
      BY <2>3, <3>2 DEF Overseen, Carried
    <3> QED BY <1>2, <2>3, <3>3 DEF Near
  <2>4. CASE top \in Fields /\ Within1(u, p, top)
    BY <1>2, <2>4 DEF Near, Within1
  <2> QED BY <2>2, <2>3, <2>4
<1>11. InReach(w)
  <2>1. ASSUME NEW p \in Openers, NEW c \in Cids, w.win[p][c] # Away
        PROVE  /\ w.win[p][c] \in Sacks => Reaches(w, p, w.win[p][c])
               /\ w.win[p][c] \in Fields => Within1(w, p, w.win[p][c])
    <3>1. PICK x : x = u.win[p][c]
      OBVIOUS
    <3>2. w.win[p][c] = x
      BY <1>2, <1>7, <2>1, <3>1
    <3>3. (x \in Sacks => Reaches(u, p, x)) /\ (x \in Fields => Within1(u, p, x))
      BY <3>1 DEF Overseen, InReach
    <3>4. ASSUME x \in Fields PROVE Within1(w, p, x)
      BY <1>2, <1>7, <3>3, <3>4 DEF Within1
    <3>5. ASSUME x \in Sacks PROVE Reaches(w, p, x)
      <4>1. Reaches(w, p, x) <=> Reaches(v, p, x)
        BY <1>7, SameReach
      <4>2. TopParent(v, x) = IF b \in Parents(u, x) THEN TopParent(v, b) ELSE TopParent(u, x)
        BY <1>4, <1>8, <3>5, MovedTop
      <4>3. CASE b \notin Parents(u, x)
        <5>1. \A t : Within1(v, p, t) <=> Within1(u, p, t)
          BY <1>2 DEF Within1
        <5>2. Reaches(v, p, x)
          BY <3>3, <3>5, <4>2, <4>3, <5>1 DEF Reaches
        <5> QED BY <4>1, <5>2
      <4>4. CASE b \in Parents(u, x)
        <5>1. p \in Near(v, top)
          BY <1>10, <3>3, <3>5, <4>4
        <5>2. Reaches(v, p, b)
          <6>1. SUFFICES ASSUME ~Reaches(v, p, b) PROVE FALSE
            OBVIOUS
          <6>2. NoneIn(w, p, b)
            BY <1>5, <5>1, <6>1 DEF ToldOf
          <6>3. b \notin Parents(w, x)
            BY <2>1, <3>2, <6>2 DEF NoneIn
          <6>4. \A y \in Parents(w, x) : u.at[y] = w.at[y]
            BY <1>4, <1>7, <3>5, <6>3, ParentsAre
          <6>5. Parents(u, x) = Parents(w, x)
            BY <3>5, <6>4, ParentsSame
          <6> QED BY <4>4, <6>3, <6>5
        <5>3. Reaches(v, p, x)
          BY <4>2, <4>4, <5>2 DEF Reaches
        <5> QED BY <4>1, <5>3
      <4> QED BY <4>3, <4>4
    <3> QED BY <3>2, <3>4, <3>5
  <2> QED BY <2>1 DEF InReach, WindowsAssumption
<1> QED BY <1>1, <1>7, <1>8, <1>9, <1>11 DEF Overseen

\* Game::internalMoveItem
LEMMA MoveSackKeeps ==
  ASSUME WindowsAssumption, Overseen(ui),
         NEW b \in Sacks, NEW to \in Fields \union Openers \union Carriers \union Sacks, MoveSack(b, to)
  PROVE  Overseen(ui')
<1>1. PICK v : v = Put(ui, b, to)
  OBVIOUS
<1>2. /\ to \in BagPlaces
      /\ to \in Openers => ui.pos[to] # Away
      /\ to \in Sacks => b \notin Parents(ui, to)
      /\ ui' = NotifyRemoved(v, TopParent(ui, b), b)
  BY <1>1 DEF MoveSack, BagPlaces
<1>3. v.at = [ui.at EXCEPT ![b] = to] /\ ui.at \in [Sacks -> BagPlaces]
  <2>1. Tidy(ui) /\ to \in BagPlaces
    BY <1>2 DEF Overseen
  <2>2. v.at = [ui.at EXCEPT ![b] = to]
    BY <1>1, <2>1, PutIs
  <2> QED BY <2>1, <2>2 DEF Tidy, WindowStates
<1>4. v.at[b] = to /\ \A y \in Sacks \ {b} : v.at[y] = ui.at[y]
  BY <1>3
<1>5. Grounded(v)
  <2>1. CASE to \in Sacks
    BY <1>2, <1>4, <2>1, GroundedInto DEF Overseen
  <2>2. CASE to \notin Sacks
    <3>1. \A y \in Sacks : v.at[y] \in Sacks => v.at[y] = ui.at[y]
      BY <1>4, <2>2
    <3> QED BY <3>1, GroundedStill DEF Overseen
  <2> QED BY <2>1, <2>2
<1> QED BY <1>1, <1>2, <1>5, MovedKeeps

\* Game::internalRemoveItem
LEMMA RemoveSackKeeps ==
  ASSUME WindowsAssumption, Overseen(ui), NEW b \in Sacks, RemoveSack(b)
  PROVE  Overseen(ui')
<1>1. PICK v : v = Put(ui, b, Away)
  OBVIOUS
<1>2. Away \in BagPlaces /\ Away \notin Openers /\ Away \notin Sacks
  BY DEF BagPlaces, WindowsAssumption
<1>3. v.at = [ui.at EXCEPT ![b] = Away] /\ ui.at \in [Sacks -> BagPlaces]
  <2>1. Tidy(ui) /\ Away \in BagPlaces
    BY <1>2 DEF Overseen
  <2>2. v.at = [ui.at EXCEPT ![b] = Away]
    BY <1>1, <2>1, PutIs
  <2> QED BY <2>1, <2>2 DEF Tidy, WindowStates
<1>4. \A y \in Sacks : v.at[y] \in Sacks => v.at[y] = ui.at[y]
  BY <1>2, <1>3
<1>5. Grounded(v)
  BY <1>4, GroundedStill DEF Overseen
<1>6. ui' = NotifyRemoved(v, TopParent(ui, b), b)
  BY <1>1 DEF RemoveSack
<1> QED BY <1>1, <1>2, <1>5, <1>6, MovedKeeps

\* A bag that is nowhere is in reach of nobody, nor is what is in it.
LEMMA NowhereIsFar ==
  ASSUME WindowsAssumption, NEW u, Overseen(u), NEW b \in Sacks, u.at[b] = Away,
         NEW p \in Openers, NEW x \in Sacks, Reaches(u, p, x)
  PROVE  b \notin Parents(u, x)
<1>1. SUFFICES ASSUME b \in Parents(u, x) PROVE FALSE
  OBVIOUS
<1>2. Outermost(u, x, b)
  BY <1>1 DEF Outermost, WindowsAssumption
<1>3. TopParent(u, x) = Away
  BY <1>2, TopIs
<1> QED BY <1>3 DEF Reaches, WindowsAssumption

\* What lies on the way of no bag in reach may change, if none is put into another:
\* the windows still reach what they show.
LEMMA AsideKeeps ==
  ASSUME WindowsAssumption, NEW u, Overseen(u), NEW w, Tidy(w), w.pos = u.pos, w.win = u.win,
         \A y \in Sacks : w.at[y] \in Sacks => w.at[y] = u.at[y],
         \A y \in Sacks : w.at[y] \in Openers => w.at[y] = u.at[y],
         \A p \in Openers, x \in Sacks : Reaches(u, p, x) => \A y \in Parents(u, x) : w.at[y] = u.at[y]
  PROVE  Overseen(w)
<1>1. Grounded(w)
  BY GroundedStill DEF Overseen
<1>2. Carried(w)
  <2>1. ASSUME NEW y \in Sacks, NEW p \in Openers, w.at[y] = p PROVE w.pos[p] # Away
    <3>1. u.at[y] = p
      BY <2>1
    <3> QED BY <3>1 DEF Overseen, Carried
  <2> QED BY <2>1 DEF Carried
<1>3. InReach(w)
  <2>1. ASSUME NEW p \in Openers, NEW c \in Cids
        PROVE  /\ w.win[p][c] \in Sacks => Reaches(w, p, w.win[p][c])
               /\ w.win[p][c] \in Fields => Within1(w, p, w.win[p][c])
    <3>1. PICK x : x = u.win[p][c]
      OBVIOUS
    <3>2. (x \in Sacks => Reaches(u, p, x)) /\ (x \in Fields => Within1(u, p, x))
      BY <3>1 DEF Overseen, InReach
    <3>3. \A t : Within1(w, p, t) <=> Within1(u, p, t)
      BY DEF Within1
    <3>4. ASSUME x \in Sacks PROVE Reaches(w, p, x)
      <4>1. \A y \in Parents(u, x) : w.at[y] = u.at[y]
        BY <3>2, <3>4
      <4>2. PICK o : Outermost(u, x, o)
        BY <3>4 DEF Overseen, Grounded
      <4>3. Outermost(w, x, o) /\ w.at[o] = u.at[o]
        BY <3>4, <4>1, <4>2, ParentsSame DEF Outermost
      <4>4. TopParent(w, x) = TopParent(u, x)
        BY <3>4, <4>2, <4>3, TopIs
      <4> QED BY <3>2, <3>3, <3>4, <4>4 DEF Reaches
    <3> QED BY <3>1, <3>2, <3>3, <3>4
  <2> QED BY <2>1 DEF InReach
<1> QED BY <1>1, <1>2, <1>3 DEF Overseen

\* Game::internalAddItem
LEMMA NewSackKeeps ==
  ASSUME WindowsAssumption, Overseen(ui), NEW b \in Sacks, NEW t \in Fields, NewSack(b, t)
  PROVE  Overseen(ui')
<1>1. PICK a, v : /\ a = [x \in Sacks |-> IF ui.at[x] = b THEN Away ELSE ui.at[x]]
                  /\ v = [ui EXCEPT !.at = a]
  OBVIOUS
<1>2. ui.at[b] = Away /\ ui' = Put(v, b, t)
  BY <1>1 DEF NewSack
<1>3. ui \in WindowStates /\ Tidy(ui)
  BY DEF Overseen, Tidy
<1>4. a \in [Sacks -> BagPlaces]
  <2>1. ui.at \in [Sacks -> BagPlaces] /\ Away \in BagPlaces
    BY <1>3 DEF WindowStates, BagPlaces
  <2> QED BY <1>1, <2>1
<1>5. /\ v \in WindowStates /\ v.at = a /\ v.pos = ui.pos /\ v.win = ui.win
      /\ v.refs = ui.refs /\ v.list = ui.list /\ v.timer = ui.timer /\ v.leaked = ui.leaked
  BY <1>1, <1>3, <1>4 DEF WindowStates
<1>6. Tidy(v)
  <2>1. \A s : Views(v, s) = Views(ui, s)
    BY <1>5 DEF Views
  <2>2. Owed(v, Away)
    BY <1>3, <1>5, <2>1 DEF Tidy, Owed
  <2>3. ASSUME NEW s \in Fields, v.refs[s] > 0 PROVE v.list[s] = {y \in Sacks : v.at[y] = s}
    <3>1. ui.list[s] = {y \in Sacks : ui.at[y] = s}
      BY <1>3, <1>5, <2>3 DEF Tidy, Listed
    <3>2. \A y \in Sacks : a[y] = s <=> ui.at[y] = s
      BY <1>1 DEF WindowsAssumption
    <3> QED BY <1>5, <3>1, <3>2
  <2> QED BY <1>5, <2>2, <2>3 DEF Tidy, Listed
<1>7. t \in BagPlaces /\ t \notin Sacks /\ t \notin Openers /\ Away \notin Sacks /\ Away \notin Openers
  BY DEF BagPlaces, WindowsAssumption
<1>8. PICK w : w = Put(v, b, t)
  OBVIOUS
<1>9. Tidy(w) /\ w.at = [a EXCEPT ![b] = t] /\ w.pos = ui.pos /\ w.win = ui.win
  BY <1>5, <1>6, <1>7, <1>8, PutIs
<1>10. \A y \in Sacks : w.at[y] = IF y = b THEN t ELSE IF ui.at[y] = b THEN Away ELSE ui.at[y]
  BY <1>1, <1>9
<1>11. ASSUME NEW p \in Openers, NEW x \in Sacks, Reaches(ui, p, x), NEW y \in Parents(ui, x)
       PROVE  w.at[y] = ui.at[y]
  <2>1. b \notin Parents(ui, x)
    BY <1>2, <1>11, NowhereIsFar
  <2>2. y \in Sacks /\ y # b /\ ui.at[y] # b
    BY <1>11, <2>1, ParentsAre DEF ClosedUp
  <2> QED BY <1>10, <2>2
<1>12. Overseen(w)
  <2>1. /\ \A y \in Sacks : w.at[y] \in Sacks => w.at[y] = ui.at[y]
        /\ \A y \in Sacks : w.at[y] \in Openers => w.at[y] = ui.at[y]
    BY <1>7, <1>10
  <2> QED BY <1>9, <1>11, <2>1, AsideKeeps
<1> QED BY <1>2, <1>8, <1>12

\* A window is closed.
LEMMA CloseKeeps ==
  ASSUME WindowsAssumption, NEW u, Overseen(u), NEW p \in Openers, NEW c \in Cids
  PROVE  Overseen(CloseContainer(u, p, c))
<1>1. PICK w : w = CloseContainer(u, p, c)
  OBVIOUS
<1>2. Tidy(u) /\ u.win \in [Openers -> [Cids -> Sacks \union Fields \union {Away}]]
  BY DEF Overseen, Tidy, WindowStates
<1>3. Tidy(w) /\ SameBut(u, w) /\ w.win = WithWindow(u, p, c, Away)
  BY <1>1, <1>2, CloseContainerIs
<1>4. \A q \in Openers, d \in Cids : w.win[q][d] \in {u.win[q][d], Away}
  BY <1>2, <1>3 DEF WithWindow
<1>5. Closes(u, w)
  BY <1>3, <1>4 DEF Closes
<1> QED BY <1>1, <1>5, ClosesKeeps

\* One is opened on what its player reaches.
LEMMA OpenKeeps ==
  ASSUME WindowsAssumption, NEW u, Overseen(u), NEW p \in Openers, NEW c \in Cids, NEW x \in Sacks \union Fields,
         x \in Fields => u.refs[x] > 0 /\ Within1(u, p, x), x \in Sacks => Reaches(u, p, x)
  PROVE  Overseen(AddContainer(u, p, c, x))
<1>1. PICK w : w = AddContainer(u, p, c, x)
  OBVIOUS
<1>2. Tidy(u) /\ u.win \in [Openers -> [Cids -> Sacks \union Fields \union {Away}]]
  BY DEF Overseen, Tidy, WindowStates
<1>3. Tidy(w) /\ SameBut(u, w) /\ w.win = WithWindow(u, p, c, x)
  BY <1>1, <1>2, AddContainerIs
<1>4. \A q \in Openers, d \in Cids : w.win[q][d] = IF q = p /\ d = c THEN x ELSE u.win[q][d]
  BY <1>2, <1>3 DEF WithWindow
<1>5. w.at = u.at /\ w.pos = u.pos
  BY <1>3 DEF SameBut
<1>6. Grounded(w) /\ Carried(w)
  BY <1>5, SameBags DEF Overseen, Carried
<1>7. InReach(w)
  <2>1. ASSUME NEW q \in Openers, NEW d \in Cids
        PROVE  /\ w.win[q][d] \in Sacks => Reaches(w, q, w.win[q][d])
               /\ w.win[q][d] \in Fields => Within1(w, q, w.win[q][d])
    <3>1. PICK y : y = w.win[q][d]
      OBVIOUS
    <3>2. (y \in Sacks => Reaches(u, q, y)) /\ (y \in Fields => Within1(u, q, y))
      <4>1. CASE q = p /\ d = c
        BY <1>4, <3>1, <4>1
      <4>2. CASE ~(q = p /\ d = c)
        BY <1>4, <3>1, <4>2 DEF Overseen, InReach
      <4> QED BY <4>1, <4>2
    <3>3. (Reaches(w, q, y) <=> Reaches(u, q, y)) /\ (Within1(w, q, y) <=> Within1(u, q, y))
      BY <1>5, SameReach
    <3> QED BY <3>1, <3>2, <3>3
  <2> QED BY <2>1 DEF InReach
<1> QED BY <1>1, <1>3, <1>6, <1>7 DEF Overseen

\* A field gets a container.
LEMMA BrowsedKeeps ==
  ASSUME WindowsAssumption, NEW u, Overseen(u), NEW t \in Fields
  PROVE  Overseen(Browsed(u, t))
<1>1. PICK w : w = Browsed(u, t)
  OBVIOUS
<1>2. Tidy(w) /\ w.at = u.at /\ w.pos = u.pos /\ w.win = u.win
  BY <1>1, BrowsedIs DEF Overseen
<1> QED BY <1>1, <1>2, AsideKeeps

\* Actions::internalUseItem of a container
LEMMA UseSackKeeps ==
  ASSUME WindowsAssumption, Overseen(ui), NEW p \in Openers, NEW b \in Sacks, NEW c \in Cids, UseSack(p, b, c)
  PROVE  Overseen(ui')
<1>1. PICK open : open = {k \in Cids : ui.win[p][k] = b}
  OBVIOUS
<1>2. /\ Reaches(ui, p, b)
      /\ ui' = IF open # {} THEN CloseContainer(ui, p, Min(open)) ELSE AddContainer(ui, p, c, b)
  BY <1>1 DEF UseSack
<1>3. CASE open # {}
  <2>1. open \in SUBSET Nat
    BY <1>1 DEF WindowsAssumption
  <2>2. PICK n \in open : \A m \in open : n <= m
    BY <1>3, <2>1, LeastNumber
  <2>3. Min(open) \in open
    BY <2>2 DEF Min
  <2>4. Min(open) \in Cids
    BY <1>1, <2>3
  <2> QED BY <1>2, <1>3, <2>4, CloseKeeps
<1>4. CASE open = {}
  <2>1. b \notin Fields
    BY DEF WindowsAssumption
  <2> QED BY <1>2, <1>4, <2>1, OpenKeeps
<1> QED BY <1>3, <1>4

\* Game::playerBrowseField
LEMMA BrowseFieldKeeps ==
  ASSUME WindowsAssumption, Overseen(ui), NEW p \in Openers, NEW t \in Fields, BrowseField(p, t)
  PROVE  Overseen(ui')
<1>1. PICK u, c : u = Browsed(ui, t) /\ c = DummyCid[t]
  OBVIOUS
<1>2. /\ Within1(ui, p, t)
      /\ ui' = IF ui.win[p][c] # Away THEN CloseContainer(u, p, c) ELSE AddContainer(u, p, c, t)
  BY <1>1 DEF BrowseField
<1>3. c \in Cids /\ t \notin Sacks
  BY <1>1 DEF WindowsAssumption
<1>4. Overseen(u) /\ u.refs[t] > 0 /\ u.pos = ui.pos
  BY <1>1, BrowsedKeeps, BrowsedIs DEF Overseen
<1>5. Within1(u, p, t)
  BY <1>2, <1>4 DEF Within1
<1>6. Overseen(CloseContainer(u, p, c))
  BY <1>3, <1>4, CloseKeeps
<1>7. Overseen(AddContainer(u, p, c, t))
  BY <1>3, <1>4, <1>5, OpenKeeps
<1> QED BY <1>2, <1>6, <1>7

\* Game::playerMoveUpContainer
LEMMA MoveUpKeeps ==
  ASSUME WindowsAssumption, Overseen(ui), NEW p \in Openers, NEW c \in Cids, MoveUp(p, c)
  PROVE  Overseen(ui')
<1>1. PICK x, holder, field : /\ x = ui.win[p][c]
                              /\ holder = IF x \in Sacks THEN ui.at[x] ELSE x
                              /\ field = IF holder = p THEN ui.pos[p] ELSE holder
  OBVIOUS
<1>2. /\ x # Away
      /\ ui' = IF holder \in Sacks THEN AddContainer(ui, p, c, holder)
               ELSE AddContainer(Browsed(ui, field), p, c, field)
  BY <1>1 DEF MoveUp
<1>3. /\ ui.win \in [Openers -> [Cids -> Sacks \union Fields \union {Away}]]
      /\ ui.pos \in [Openers -> Fields \union {Away}]
  BY DEF Overseen, Tidy, WindowStates
<1>4. x \in Sacks \union Fields
  <2>1. x = ui.win[p][c]
    BY <1>1
  <2>2. ui.win[p][c] \in Sacks \union Fields \union {Away}
    BY <1>3
  <2> QED BY <1>2, <2>1, <2>2
<1>5. (x \in Sacks => Reaches(ui, p, x)) /\ (x \in Fields => Within1(ui, p, x))
  BY <1>1 DEF Overseen, InReach
<1>6. CASE holder \in Sacks
  <2>1. x \in Sacks /\ holder = ui.at[x]
    BY <1>1, <1>4, <1>6
  <2>2. holder \in Parents(ui, x)
    BY <1>6, <2>1, ParentsAre DEF ClosedUp
  <2>3. TopParent(ui, holder) = TopParent(ui, x)
    BY <2>1, <2>2, OneTopParent DEF Overseen
  <2>4. Reaches(ui, p, holder)
    BY <1>5, <2>1, <2>3 DEF Reaches
  <2>5. holder \notin Fields
    BY <1>6 DEF WindowsAssumption
  <2>6. Overseen(AddContainer(ui, p, c, holder))
    BY <1>6, <2>4, <2>5, OpenKeeps
  <2> QED BY <1>2, <1>6, <2>6
<1>7. CASE holder \notin Sacks
  <2>1. field \in Fields /\ Within1(ui, p, field)
    <3>1. CASE x \in Sacks
      <4>1. Outermost(ui, x, x) /\ holder = ui.at[x]
        BY <1>1, <1>7, <3>1, ParentsAre DEF Outermost
      <4>2. TopParent(ui, x) = holder
        BY <3>1, <4>1, TopIs
      <4>3. holder = p \/ (holder \in Fields /\ Within1(ui, p, holder))
        BY <1>5, <3>1, <4>2 DEF Reaches
      <4>4. CASE holder = p
        <5>1. ui.pos[p] # Away /\ field = ui.pos[p]
          BY <1>1, <3>1, <4>1, <4>4 DEF Overseen, Carried
        <5>2. field \in Fields /\ field \in Int
          BY <1>3, <5>1 DEF WindowsAssumption
        <5> QED BY <5>1, <5>2 DEF Within1
      <4>5. CASE holder # p
        BY <1>1, <4>3, <4>5
      <4> QED BY <4>4, <4>5
    <3>2. CASE x \notin Sacks
      <4>1. holder = x /\ x \in Fields /\ x # p
        BY <1>1, <1>4, <3>2 DEF WindowsAssumption
      <4> QED BY <1>1, <1>5, <4>1
    <3> QED BY <3>1, <3>2
  <2>2. PICK u : u = Browsed(ui, field)
    OBVIOUS
  <2>3. Overseen(u) /\ u.refs[field] > 0 /\ u.pos = ui.pos
    BY <2>1, <2>2, BrowsedKeeps, BrowsedIs DEF Overseen
  <2>4. Within1(u, p, field) /\ field \notin Sacks
    BY <2>1, <2>3 DEF Within1, WindowsAssumption
  <2>5. Overseen(AddContainer(u, p, c, field))
    BY <2>1, <2>3, <2>4, OpenKeeps
  <2> QED BY <1>2, <1>7, <2>2, <2>5
<1> QED BY <1>6, <1>7

\* Game::playerCloseContainer
LEMMA CloseWindowKeeps ==
  ASSUME WindowsAssumption, Overseen(ui), NEW p \in Openers, NEW c \in Cids, CloseWindow(p, c)
  PROVE  Overseen(ui')
  BY CloseKeeps DEF CloseWindow

\* Game::decreaseBrowseFieldRef
LEMMA BrowseTimerKeeps ==
  ASSUME WindowsAssumption, Overseen(ui), NEW t \in Fields, BrowseTimer(t)
  PROVE  Overseen(ui')
<1>1. PICK m : m = [ui.timer EXCEPT ![t] = FALSE]
  OBVIOUS
<1>2. PICK v : v = [ui EXCEPT !.timer = m]
  OBVIOUS
<1>3. ui \in WindowStates /\ ui.timer[t] /\ Tidy(ui)
  BY DEF Overseen, Tidy, BrowseTimer
<1>4. ui' = Dropped(v, t)
  BY <1>1, <1>2, <1>3 DEF BrowseTimer, WindowStates
<1>5. /\ v \in WindowStates /\ v.timer = m /\ v.at = ui.at /\ v.pos = ui.pos /\ v.win = ui.win
      /\ v.refs = ui.refs /\ v.list = ui.list /\ v.leaked = ui.leaked
  <2>1. m \in [Fields -> BOOLEAN]
    BY <1>1, <1>3 DEF WindowStates
  <2> QED BY <1>2, <1>3, <2>1 DEF WindowStates
<1>6. \A s : Views(v, s) = Views(ui, s)
  BY <1>5 DEF Views
<1>7. ASSUME NEW s \in Fields
      PROVE  v.refs[s] = Cardinality(Views(v, s)) + One(v.timer[s]) + v.leaked[s] + One(s = t)
  <2>1. PICK k \in Nat, i \in Nat, j \in Nat :
          k = Cardinality(Views(ui, s)) /\ i = ui.leaked[s] /\ j = One(ui.timer[s])
    BY <1>3, ViewsFinite DEF WindowStates, One
  <2>2. One(s = Away) = 0
    BY DEF One, WindowsAssumption
  <2>3. ui.refs[s] = k + j + i
    <3>1. ui.refs[s] = k + j + i + 0
      BY <1>3, <2>1, <2>2 DEF Tidy, Owed
    <3> QED BY <3>1
  <2>4. CASE s = t
    <3>1. j = 1 /\ One(v.timer[s]) = 0 /\ One(s = t) = 1
      BY <1>1, <1>3, <1>5, <2>1, <2>4 DEF One, WindowStates
    <3> QED BY <1>5, <1>6, <2>1, <2>3, <3>1
  <2>5. CASE s # t
    <3>1. v.timer[s] = ui.timer[s] /\ One(s = t) = 0
      BY <1>1, <1>3, <1>5, <2>5 DEF One, WindowStates
    <3> QED BY <1>5, <1>6, <2>1, <2>3, <3>1
  <2> QED BY <2>4, <2>5
<1>8. Owed(v, t) /\ Listed(v)
  BY <1>3, <1>5, <1>7 DEF Owed, Listed, Tidy
<1>9. PICK w : w = Dropped(v, t)
  OBVIOUS
<1>10. Tidy(w) /\ SameBut(v, w) /\ w.win = v.win
  BY <1>5, <1>8, <1>9, DroppedTidy
<1>11. w.at = ui.at /\ w.pos = ui.pos /\ w.win = ui.win
  BY <1>5, <1>10 DEF SameBut
<1>12. Overseen(w)
  BY <1>10, <1>11, AsideKeeps
<1> QED BY <1>4, <1>9, <1>12

\* Player::postAddNotification of the player himself
LEMMA WalkToKeeps ==
  ASSUME WindowsAssumption, Overseen(ui), NEW p \in Openers, NEW t \in Fields, WalkTo(p, t)
  PROVE  Overseen(ui')
<1>1. PICK a, u : a = [ui.pos EXCEPT ![p] = t] /\ u = [ui EXCEPT !.pos = a]
  OBVIOUS
<1>2. ui \in WindowStates /\ Tidy(ui)
  BY DEF Overseen, Tidy
<1>3. /\ u \in WindowStates /\ u.pos = a /\ u.at = ui.at /\ u.win = ui.win /\ u.timer = ui.timer
      /\ u.refs = ui.refs /\ u.list = ui.list /\ u.leaked = ui.leaked
  <2>1. a \in [Openers -> Fields \union {Away}]
    BY <1>1, <1>2 DEF WindowStates
  <2> QED BY <1>1, <1>2, <2>1 DEF WindowStates
<1>4. a[p] = t /\ t # Away /\ \A q \in Openers \ {p} : a[q] = ui.pos[q]
  BY <1>1, <1>2 DEF WindowStates, WindowsAssumption
<1>5. Tidy(u)
  <2>1. \A s : Views(u, s) = Views(ui, s)
    BY <1>3 DEF Views
  <2>2. Owed(u, Away)
    BY <1>2, <1>3, <2>1 DEF Tidy, Owed
  <2>3. Listed(u)
    BY <1>2, <1>3 DEF Tidy, Listed
  <2> QED BY <1>3, <2>2, <2>3 DEF Tidy
<1>6. PICK D : D = {x \in Sacks \union Fields :
                      (IF x \in Sacks THEN ~Reaches(u, p, x) ELSE x # Away /\ ~Within1(u, p, x))
                      /\ \E c \in Cids : u.win[p][c] = x}
  OBVIOUS
<1>7. LeavingIs(u, ui', p, D)
  <2>1. u = [ui EXCEPT !.pos[p] = t]
    BY <1>1, <1>2 DEF WindowStates
  <2> QED BY <1>6, <2>1 DEF WalkTo, LeavingIs
<1>8. IsFiniteSet(D)
  <2>1. PICK f, T : f = u.win[p] /\ T = {f[c] : c \in Cids}
    OBVIOUS
  <2>2. f \in [Cids -> Sacks \union Fields \union {Away}]
    BY <1>3, <2>1 DEF WindowStates
  <2>3. f \in Surjection(Cids, T)
    BY <2>1, <2>2 DEF Surjection
  <2>4. IsFiniteSet(T)
    BY <2>3, FS_Surjection DEF WindowsAssumption
  <2>5. D \subseteq T
    BY <1>6, <2>1
  <2> QED BY <2>4, <2>5, FS_Subset
<1>9. PICK w : w = ui'
  OBVIOUS
<1>10. GoneFrom(u, w, p, D)
  BY <1>5, <1>7, <1>8, <1>9, ClosedBehind
<1>11. /\ Tidy(w) /\ w.at = u.at /\ w.pos = u.pos
       /\ \A q \in Openers, c \in Cids : w.win[q][c] \in {u.win[q][c], Away}
  BY <1>10 DEF GoneFrom, Closes, SameBut
<1>12. Grounded(w)
  BY <1>3, <1>11, SameBags DEF Overseen
<1>13. Carried(w)
  <2>1. ASSUME NEW b \in Sacks, NEW q \in Openers, w.at[b] = q PROVE w.pos[q] # Away
    <3>1. ui.pos[q] # Away
      BY <1>3, <1>11, <2>1 DEF Overseen, Carried
    <3> QED BY <1>3, <1>4, <1>11, <3>1
  <2> QED BY <2>1 DEF Carried
<1>14. ASSUME NEW q \in Openers, NEW c \in Cids, NEW x, x = w.win[q][c], x # Away
       PROVE  (x \in Sacks => Reaches(u, q, x)) /\ (x \in Fields => Within1(u, q, x))
  <2>1. x = u.win[q][c]
    BY <1>11, <1>14
  <2>2. CASE q = p
    <3>1. x \notin D
      <4>1. SUFFICES ASSUME x \in D PROVE FALSE
        OBVIOUS
      <4>2. x \notin Parents(w, x)
        BY <1>10, <1>14, <2>2, <4>1 DEF GoneFrom, NoneIn
      <4>3. x \in Parents(w, x)
        <5>1. CASE x \in Sacks
          BY <5>1, ParentsAre
        <5>2. CASE x \notin Sacks
          BY <5>2 DEF Parents
        <5> QED BY <5>1, <5>2
      <4> QED BY <4>2, <4>3
    <3> QED BY <1>6, <1>14, <2>1, <2>2, <3>1 DEF WindowsAssumption
  <2>3. CASE q # p
    <3>1. (x \in Sacks => Reaches(ui, q, x)) /\ (x \in Fields => Within1(ui, q, x))
      BY <1>3, <2>1 DEF Overseen, InReach
    <3>2. \A s : Within1(u, q, s) <=> Within1(ui, q, s)
      <4>1. u.pos[q] = ui.pos[q]
        BY <1>3, <1>4, <2>3
      <4> QED BY <4>1 DEF Within1
    <3>3. TopParent(u, x) = TopParent(ui, x)
      BY <1>3, SameBags
    <3> QED BY <3>1, <3>2, <3>3 DEF Reaches
  <2> QED BY <2>2, <2>3
<1>15. InReach(w)
  <2>1. ASSUME NEW q \in Openers, NEW c \in Cids
        PROVE  /\ w.win[q][c] \in Sacks => Reaches(w, q, w.win[q][c])
               /\ w.win[q][c] \in Fields => Within1(w, q, w.win[q][c])
    <3>1. PICK x : x = w.win[q][c]
      OBVIOUS
    <3>2. CASE x = Away
      BY <3>1, <3>2 DEF WindowsAssumption
    <3>3. CASE x # Away
      <4>1. (x \in Sacks => Reaches(u, q, x)) /\ (x \in Fields => Within1(u, q, x))
        BY <1>14, <3>1, <3>3
      <4>2. (Reaches(w, q, x) <=> Reaches(u, q, x)) /\ (Within1(w, q, x) <=> Within1(u, q, x))
        BY <1>11, SameReach
      <4> QED BY <3>1, <4>1, <4>2
    <3> QED BY <3>2, <3>3
  <2> QED BY <2>1 DEF InReach
<1>16. Overseen(w)
  BY <1>11, <1>12, <1>13, <1>15 DEF Overseen
<1> QED BY <1>9, <1>16

\* A player logs in: he has no windows yet.
LEMMA LogInKeeps ==
  ASSUME WindowsAssumption, Overseen(ui), NEW p \in Openers, NEW t \in Fields, LogIn(p, t)
  PROVE  Overseen(ui')
<1>1. PICK a, w : a = [ui.pos EXCEPT ![p] = t] /\ w = [ui EXCEPT !.pos = a]
  OBVIOUS
<1>2. ui \in WindowStates /\ Tidy(ui)
  BY DEF Overseen, Tidy
<1>3. ui.pos[p] = Away /\ ui' = w
  BY <1>1, <1>2 DEF LogIn, WindowStates
<1>4. /\ w \in WindowStates /\ w.pos = a /\ w.at = ui.at /\ w.win = ui.win /\ w.timer = ui.timer
      /\ w.refs = ui.refs /\ w.list = ui.list /\ w.leaked = ui.leaked
  <2>1. a \in [Openers -> Fields \union {Away}]
    BY <1>1, <1>2 DEF WindowStates
  <2> QED BY <1>1, <1>2, <2>1 DEF WindowStates
<1>5. a[p] = t /\ t # Away /\ \A q \in Openers \ {p} : a[q] = ui.pos[q]
  BY <1>1, <1>2 DEF WindowStates, WindowsAssumption
<1>6. Tidy(w)
  <2>1. \A s : Views(w, s) = Views(ui, s)
    BY <1>4 DEF Views
  <2>2. Owed(w, Away)
    BY <1>2, <1>4, <2>1 DEF Tidy, Owed
  <2>3. Listed(w)
    BY <1>2, <1>4 DEF Tidy, Listed
  <2> QED BY <1>4, <2>2, <2>3 DEF Tidy
<1>7. Grounded(w)
  BY <1>4, SameBags DEF Overseen
<1>8. Carried(w)
  BY <1>4, <1>5 DEF Overseen, Carried
<1>9. ASSUME NEW q \in Openers, NEW s, Within1(ui, q, s)
      PROVE  Within1(w, q, s)
  <2>1. q # p
    BY <1>3, <1>9 DEF Within1
  <2>2. w.pos[q] = ui.pos[q]
    BY <1>4, <1>5, <2>1
  <2> QED BY <1>9, <2>2 DEF Within1
<1>10. ASSUME NEW q \in Openers, NEW x, Reaches(ui, q, x) PROVE Reaches(w, q, x)
  <2>1. TopParent(w, x) = TopParent(ui, x)
    BY <1>4, SameBags
  <2> QED BY <1>9, <1>10, <2>1 DEF Reaches
<1>11. InReach(w)
  BY <1>4, <1>9, <1>10 DEF Overseen, InReach
<1> QED BY <1>3, <1>6, <1>7, <1>8, <1>11 DEF Overseen

\* The windows of p that show t, and what there is without them.
OwnViews(u, p, t) == {c \in Cids : u.win[p][c] = t}
WithoutWindows(u, w, p) ==
  /\ \A q \in Openers \ {p}, c \in Cids : w.win[q][c] = u.win[q][c]
  /\ \A c \in Cids : w.win[p][c] = Away

LEMMA ViewsLeft ==
  ASSUME WindowsAssumption, NEW u, NEW w, NEW p \in Openers, NEW t \in Fields,
         WithoutWindows(u, w, p)
  PROVE  /\ Cardinality(OwnViews(u, p, t)) \in Nat
         /\ Cardinality(Views(u, t)) = Cardinality(Views(w, t)) + Cardinality(OwnViews(u, p, t))
<1>1. PICK M, N, V, W : M = OwnViews(u, p, t) /\ N = {p} \X M /\ V = Views(u, t) /\ W = Views(w, t)
  OBVIOUS
<1>2. IsFiniteSet(M) /\ Cardinality(M) \in Nat /\ IsFiniteSet(W) /\ Cardinality(W) \in Nat
  <2>1. M \subseteq Cids
    BY <1>1 DEF OwnViews
  <2>2. IsFiniteSet(M)
    BY <2>1, FS_Subset DEF WindowsAssumption
  <2> QED BY <1>1, <2>2, ViewsFinite, FS_CardinalityType
<1>3. IsFiniteSet(N) /\ Cardinality(N) = Cardinality(M)
  <2>1. PICK f : f = [c \in M |-> <<p, c>>]
    OBVIOUS
  <2>2. /\ f \in [M -> N] /\ \A c \in M : f[c] = <<p, c>>
        /\ \A e \in N : \E c \in M : e = <<p, c>>
        /\ \A c, d \in M : <<p, c>> = <<p, d>> => c = d
    BY <1>1, <2>1
  <2>3. f \in Surjection(M, N)
    BY <2>2 DEF Surjection
  <2>4. f \in Injection(M, N)
    BY <2>2 DEF Injection, IsInjective
  <2> QED BY <1>2, <2>3, <2>4, FS_Surjection
<1>4. \A q \in Openers, c \in Cids :
        /\ <<q, c>> \in V <=> u.win[q][c] = t
        /\ <<q, c>> \in W <=> w.win[q][c] = t
        /\ <<q, c>> \in N <=> q = p /\ u.win[p][c] = t
  BY <1>1 DEF Views, OwnViews
<1>5. V \subseteq Openers \X Cids /\ W \subseteq Openers \X Cids /\ N \subseteq Openers \X Cids
  BY <1>1 DEF Views, OwnViews
<1>6. ASSUME NEW q \in Openers, NEW c \in Cids
      PROVE  /\ <<q, c>> \in V <=> <<q, c>> \in W \/ <<q, c>> \in N
             /\ ~(<<q, c>> \in W /\ <<q, c>> \in N)
  <2>1. CASE q = p
    <3>1. w.win[q][c] = Away /\ Away # t
      BY <2>1 DEF WithoutWindows, WindowsAssumption
    <3> QED BY <1>4, <2>1, <3>1
  <2>2. CASE q # p
    <3>1. w.win[q][c] = u.win[q][c]
      BY <2>2 DEF WithoutWindows
    <3> QED BY <1>4, <2>2, <3>1
  <2> QED BY <2>1, <2>2
<1>7. ASSUME NEW e \in Openers \X Cids
      PROVE  (e \in V <=> e \in W \/ e \in N) /\ ~(e \in W /\ e \in N)
  <2>1. PICK q, c : q = e[1] /\ c = e[2]
    OBVIOUS
  <2>2. q \in Openers /\ c \in Cids /\ e = <<q, c>>
    BY <2>1
  <2> QED BY <1>6, <2>2
<1>8. V = W \union N
  BY <1>5, <1>7
<1>9. W \intersect N = {}
  BY <1>5, <1>7
<1>10. Cardinality(V) = Cardinality(W) + Cardinality(N) - Cardinality({})
  BY <1>2, <1>3, <1>8, <1>9, FS_Union
<1>11. Cardinality({}) = 0
  BY FS_EmptySet
<1> QED BY <1>1, <1>2, <1>3, <1>10, <1>11

\* Player::~Player
LEMMA LogOutKeeps ==
  ASSUME WindowsAssumption, Overseen(ui), NEW p \in Openers, LogOut(p)
  PROVE  Overseen(ui')
<1>1. PICK o, g, a, k :
        /\ o = [ui.pos EXCEPT ![p] = Away] /\ g = [ui.win EXCEPT ![p] = [c \in Cids |-> Away]]
        /\ a = [b \in Sacks |-> IF ui.at[b] = p THEN Away ELSE ui.at[b]]
        /\ k = [t \in Fields |-> ui.leaked[t] + Cardinality(OwnViews(ui, p, t))]
  OBVIOUS
<1>2. PICK w : w = [ui EXCEPT !.pos = o, !.win = g, !.at = a, !.leaked = k]
  OBVIOUS
<1>3. ui \in WindowStates /\ Tidy(ui)
  BY DEF Overseen, Tidy
<1>4. ui' = w
  <2>1. ui' = [ui EXCEPT !.pos[p] = Away, !.win[p] = [c \in Cids |-> Away],
                         !.at = [b \in Sacks |-> IF @[b] = p THEN Away ELSE @[b]],
                         !.leaked = [t \in Fields |-> @[t] + Cardinality(OwnViews(ui, p, t))]]
    BY DEF LogOut, OwnViews
  <2> QED BY <1>1, <1>2, <1>3, <2>1 DEF WindowStates
<1>5. /\ \A q \in Openers : g[q] = IF q = p THEN [c \in Cids |-> Away] ELSE ui.win[q]
      /\ \A q \in Openers : o[q] = IF q = p THEN Away ELSE ui.pos[q]
      /\ o \in [Openers -> Fields \union {Away}]
      /\ g \in [Openers -> [Cids -> Sacks \union Fields \union {Away}]]
  BY <1>1, <1>3 DEF WindowStates
<1>6. a \in [Sacks -> BagPlaces] /\ \A b \in Sacks : a[b] = IF ui.at[b] = p THEN Away ELSE ui.at[b]
  <2>1. ui.at \in [Sacks -> BagPlaces] /\ Away \in BagPlaces
    BY <1>3 DEF WindowStates, BagPlaces
  <2> QED BY <1>1, <2>1
<1>7. ASSUME NEW t \in Fields
      PROVE  /\ Cardinality(OwnViews(ui, p, t)) \in Nat
             /\ g = w.win => Cardinality(Views(ui, t)) = Cardinality(Views(w, t)) + Cardinality(OwnViews(ui, p, t))
  <2>1. PICK v : v = [ui EXCEPT !.win = g]
    OBVIOUS
  <2>2. v.win = g
    BY <1>3, <2>1 DEF WindowStates
  <2>3. WithoutWindows(ui, v, p)
    BY <1>5, <2>2 DEF WithoutWindows
  <2>4. /\ Cardinality(OwnViews(ui, p, t)) \in Nat
        /\ Cardinality(Views(ui, t)) = Cardinality(Views(v, t)) + Cardinality(OwnViews(ui, p, t))
    BY <2>3, ViewsLeft
  <2>5. g = w.win => Views(w, t) = Views(v, t)
    BY <2>2 DEF Views
  <2> QED BY <2>4, <2>5
<1>8. k \in [Fields -> Nat] /\ \A t \in Fields : k[t] = ui.leaked[t] + Cardinality(OwnViews(ui, p, t))
  <2>1. \A t \in Fields : ui.leaked[t] \in Nat /\ Cardinality(OwnViews(ui, p, t)) \in Nat
    BY <1>3, <1>7 DEF WindowStates
  <2>2. \A t \in Fields : ui.leaked[t] + Cardinality(OwnViews(ui, p, t)) \in Nat
    BY <2>1
  <2> QED BY <1>1, <2>2
<1>9. /\ w \in WindowStates /\ w.pos = o /\ w.win = g /\ w.at = a /\ w.leaked = k
      /\ w.refs = ui.refs /\ w.list = ui.list /\ w.timer = ui.timer
  BY <1>2, <1>3, <1>5, <1>6, <1>8 DEF WindowStates
<1>10. Owed(w, Away)
  <2>1. ASSUME NEW t \in Fields
        PROVE  w.refs[t] = Cardinality(Views(w, t)) + One(w.timer[t]) + w.leaked[t] + One(t = Away)
    <3>1. PICK i \in Nat, j \in Nat, m \in Nat, n \in Nat, z \in Nat :
            /\ i = Cardinality(Views(w, t)) /\ j = Cardinality(OwnViews(ui, p, t)) /\ m = One(ui.timer[t])
            /\ n = ui.leaked[t] /\ z = One(t = Away)
      BY <1>3, <1>7, ViewsFinite DEF WindowStates, One
    <3>2. Cardinality(Views(ui, t)) = i + j
      BY <1>7, <1>9, <3>1
    <3>3. ui.refs[t] = Cardinality(Views(ui, t)) + One(ui.timer[t]) + ui.leaked[t] + One(t = Away)
      BY <1>3 DEF Tidy, Owed
    <3>4. ui.refs[t] = (i + j) + m + n + z
      BY <3>1, <3>2, <3>3
    <3>5. w.refs[t] = ui.refs[t] /\ One(w.timer[t]) = m /\ w.leaked[t] = n + j
      BY <1>8, <1>9, <3>1
    <3>6. w.refs[t] = i + m + (n + j) + z
      BY <3>4, <3>5
    <3> QED BY <3>1, <3>5, <3>6
  <2> QED BY <2>1 DEF Owed
<1>11. Listed(w)
  <2>1. ASSUME NEW s \in Fields, w.refs[s] > 0 PROVE w.list[s] = {y \in Sacks : w.at[y] = s}
    <3>1. ui.list[s] = {y \in Sacks : ui.at[y] = s}
      BY <1>3, <1>9, <2>1 DEF Tidy, Listed
    <3>2. \A y \in Sacks : a[y] = s <=> ui.at[y] = s
      BY <1>6 DEF WindowsAssumption
    <3> QED BY <1>9, <3>1, <3>2
  <2> QED BY <2>1 DEF Listed
<1>12. Tidy(w)
  BY <1>9, <1>10, <1>11 DEF Tidy
<1>13. p \notin Sacks /\ p \notin Fields /\ Away \notin Sacks /\ Away \notin Openers /\ Away \notin Fields
  BY DEF WindowsAssumption
<1>14. Grounded(w)
  <2>1. \A y \in Sacks : w.at[y] \in Sacks => w.at[y] = ui.at[y]
    BY <1>6, <1>9, <1>13
  <2> QED BY <2>1, GroundedStill DEF Overseen
<1>15. Carried(w)
  <2>1. ASSUME NEW b \in Sacks, NEW q \in Openers, w.at[b] = q PROVE w.pos[q] # Away
    <3>1. ui.at[b] = q /\ q # p
      BY <1>6, <1>9, <1>13, <2>1
    <3>2. ui.pos[q] # Away
      BY <3>1 DEF Overseen, Carried
    <3> QED BY <1>5, <1>9, <3>1, <3>2
  <2> QED BY <2>1 DEF Carried
<1>16. ASSUME NEW q \in Openers, q # p
       PROVE  /\ \A t : Within1(w, q, t) <=> Within1(ui, q, t)
              /\ \A x \in Sacks : Reaches(ui, q, x) => Reaches(w, q, x)
  <2>1. w.pos[q] = ui.pos[q]
    BY <1>5, <1>9, <1>16
  <2>2. \A t : Within1(w, q, t) <=> Within1(ui, q, t)
    BY <2>1 DEF Within1
  <2>3. ASSUME NEW x \in Sacks, Reaches(ui, q, x) PROVE Reaches(w, q, x)
    <3>1. PICK y : Outermost(ui, x, y)
      BY DEF Overseen, Grounded
    <3>2. TopParent(ui, x) = ui.at[y] /\ y \in Sacks
      BY <3>1, TopIs, ParentsAre DEF Outermost
    <3>3. ui.at[y] = q \/ ui.at[y] \in Fields
      BY <2>3, <3>2 DEF Reaches
    <3>4. w.at[y] = ui.at[y]
      BY <1>6, <1>9, <1>13, <1>16, <3>2, <3>3
    <3>5. \A z \in Parents(ui, x) : w.at[z] = ui.at[z] \/ (w.at[z] \notin Sacks /\ ui.at[z] \notin Sacks)
      BY <1>6, <1>9, <1>13, ParentsAre
    <3>6. Outermost(w, x, y)
      BY <3>1, <3>5, ParentsSame
    <3>7. TopParent(w, x) = TopParent(ui, x)
      BY <3>2, <3>4, <3>6, TopIs
    <3> QED BY <2>2, <2>3, <3>7 DEF Reaches
  <2> QED BY <2>2, <2>3
<1>17. InReach(w)
  <2>1. ASSUME NEW q \in Openers, NEW c \in Cids
        PROVE  /\ w.win[q][c] \in Sacks => Reaches(w, q, w.win[q][c])
               /\ w.win[q][c] \in Fields => Within1(w, q, w.win[q][c])
    <3>1. CASE q = p
      BY <1>5, <1>9, <1>13, <3>1
    <3>2. CASE q # p
      <4>1. w.win[q][c] = ui.win[q][c]
        BY <1>5, <1>9, <3>2
      <4> QED BY <1>16, <3>2, <4>1 DEF Overseen, InReach
    <3> QED BY <3>1, <3>2
  <2> QED BY <2>1 DEF InReach
<1> QED BY <1>4, <1>12, <1>14, <1>15, <1>17 DEF Overseen

\* At the start everything is nowhere.
LEMMA WindowsInitHolds ==
  ASSUME WindowsAssumption, WindowsInit
  PROVE  Overseen(ui)
<1>1. /\ ui.pos = [p \in Openers |-> Away] /\ ui.at = [b \in Sacks |-> Away]
      /\ ui.win = [p \in Openers |-> [c \in Cids |-> Away]]
      /\ ui.refs = [t \in Fields |-> 0] /\ ui.list = [t \in Fields |-> {}]
      /\ ui.timer = [t \in Fields |-> FALSE] /\ ui.leaked = [t \in Fields |-> 0]
  BY DEF WindowsInit
<1>2. ui \in WindowStates
  BY DEF WindowsInit, WindowStates, BagPlaces
<1>3. Owed(ui, Away)
  <2>1. ASSUME NEW t \in Fields
        PROVE  ui.refs[t] = Cardinality(Views(ui, t)) + One(ui.timer[t]) + ui.leaked[t] + One(t = Away)
    <3>1. t # Away
      BY DEF WindowsAssumption
    <3>2. Views(ui, t) = {}
      <4>1. ASSUME NEW e \in Openers \X Cids PROVE ui.win[e[1]][e[2]] # t
        <5>1. e[1] \in Openers /\ e[2] \in Cids
          OBVIOUS
        <5> QED BY <1>1, <3>1, <5>1
      <4> QED BY <4>1 DEF Views
    <3>3. Cardinality(Views(ui, t)) = 0
      BY <3>2, FS_EmptySet
    <3>4. One(ui.timer[t]) = 0 /\ One(t = Away) = 0
      BY <1>1, <3>1 DEF One
    <3>5. ui.refs[t] = 0 /\ ui.leaked[t] = 0
      BY <1>1
    <3> QED BY <3>3, <3>4, <3>5
  <2> QED BY <2>1 DEF Owed
<1>4. Listed(ui)
  BY <1>1 DEF Listed
<1>5. Grounded(ui)
  <2>1. ASSUME NEW b \in Sacks PROVE Outermost(ui, b, b)
    BY <1>1, ParentsAre DEF Outermost, WindowsAssumption
  <2> QED BY <2>1 DEF Grounded
<1>6. InReach(ui)
  <2>1. \A p \in Openers, c \in Cids : ui.win[p][c] = Away
    BY <1>1
  <2> QED BY <2>1 DEF InReach, WindowsAssumption
<1>7. Carried(ui)
  BY <1>1 DEF Carried, WindowsAssumption
<1> QED BY <1>2, <1>3, <1>4, <1>5, <1>6, <1>7 DEF Overseen, Tidy

\* Every step keeps it.
LEMMA WindowsNextKeeps ==
  ASSUME WindowsAssumption, Overseen(ui), WindowsNext
  PROVE  Overseen(ui')
<1>1. ASSUME NEW b \in Sacks, NEW to \in Fields \union Openers \union Carriers \union Sacks, MoveSack(b, to)
      PROVE  Overseen(ui')
  BY <1>1, MoveSackKeeps
<1>2. ASSUME NEW b \in Sacks, RemoveSack(b) PROVE Overseen(ui')
  BY <1>2, RemoveSackKeeps
<1>3. ASSUME NEW b \in Sacks, NEW t \in Fields, NewSack(b, t) PROVE Overseen(ui')
  BY <1>3, NewSackKeeps
<1>4. ASSUME NEW p \in Openers, NEW b \in Sacks, NEW c \in Cids, UseSack(p, b, c) PROVE Overseen(ui')
  BY <1>4, UseSackKeeps
<1>5. ASSUME NEW p \in Openers, NEW t \in Fields, BrowseField(p, t) PROVE Overseen(ui')
  BY <1>5, BrowseFieldKeeps
<1>6. ASSUME NEW p \in Openers, NEW t \in Fields, WalkTo(p, t) PROVE Overseen(ui')
  BY <1>6, WalkToKeeps
<1>7. ASSUME NEW p \in Openers, NEW t \in Fields, LogIn(p, t) PROVE Overseen(ui')
  BY <1>7, LogInKeeps
<1>8. ASSUME NEW p \in Openers, NEW c \in Cids, MoveUp(p, c) PROVE Overseen(ui')
  BY <1>8, MoveUpKeeps
<1>9. ASSUME NEW p \in Openers, NEW c \in Cids, CloseWindow(p, c) PROVE Overseen(ui')
  BY <1>9, CloseWindowKeeps
<1>10. ASSUME NEW p \in Openers, LogOut(p) PROVE Overseen(ui')
  BY <1>10, LogOutKeeps
<1>11. ASSUME NEW t \in Fields, BrowseTimer(t) PROVE Overseen(ui')
  BY <1>11, BrowseTimerKeeps
<1> QED BY <1>1, <1>2, <1>3, <1>4, <1>5, <1>6, <1>7, <1>8, <1>9, <1>10, <1>11 DEF WindowsNext

\* And it says what WindowsKept says, and more.
LEMMA OverseenSays ==
  ASSUME WindowsAssumption, Overseen(ui)
  PROVE  WindowsKept
<1>1. ASSUME NEW t \in Fields
      PROVE  ui.refs[t] = Cardinality({pc \in Openers \X Cids : ui.win[pc[1]][pc[2]] = t})
                          + (IF ui.timer[t] THEN 1 ELSE 0) + ui.leaked[t]
  <2>1. ui \in WindowStates /\ Owed(ui, Away) /\ t # Away
    BY DEF Overseen, Tidy, WindowsAssumption
  <2>2. PICK k \in Nat, i \in Nat, j \in Nat : k = Cardinality(Views(ui, t)) /\ i = ui.leaked[t] /\ j = One(ui.timer[t])
    BY <2>1, ViewsFinite DEF WindowStates, One
  <2>3. ui.refs[t] = k + j + i + One(t = Away)
    BY <2>1, <2>2 DEF Owed
  <2>4. One(t = Away) = 0
    BY <2>1 DEF One
  <2>5. ui.refs[t] = k + j + i
    BY <2>3, <2>4
  <2>6. k = Cardinality({pc \in Openers \X Cids : ui.win[pc[1]][pc[2]] = t}) /\ j = IF ui.timer[t] THEN 1 ELSE 0
    BY <2>2 DEF Views, One
  <2> QED BY <2>2, <2>5, <2>6
<1>2. ASSUME NEW t \in Fields, ui.refs[t] > 0 PROVE ui.list[t] = {b \in Sacks : ui.at[b] = t}
  BY <1>2 DEF Overseen, Tidy, Listed
<1>3. ASSUME NEW p \in Openers, NEW c \in Cids
      PROVE  /\ ui.win[p][c] \in Sacks => Reaches(ui, p, ui.win[p][c])
             /\ ui.win[p][c] \in Fields => Within1(ui, p, ui.win[p][c])
  BY DEF Overseen, InReach
<1> QED BY <1>1, <1>2, <1>3 DEF WindowsKept

\* In every run: the open windows are in reach, and the containers of browsed fields are
\* counted right and list what lies there.
THEOREM WindowsKeptHolds == WindowsSpec => []WindowsKept
<1> DEFINE WindowsInv == Overseen(ui)
<1>1. WindowsInit => WindowsInv
  BY WindowsAssumption, WindowsInitHolds
<1>2. WindowsInv /\ [WindowsNext]_ui => WindowsInv'
  <2>1. CASE WindowsNext
    BY <2>1, WindowsAssumption, WindowsNextKeeps
  <2>2. CASE UNCHANGED ui
    BY <2>2
  <2> QED BY <2>1, <2>2
<1>3. WindowsInv => WindowsKept
  BY WindowsAssumption, OverseenSays
<1> HIDE DEF WindowsInv
<1> QED BY <1>1, <1>2, <1>3, PTL DEF WindowsSpec
=============================================================================
