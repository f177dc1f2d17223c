------------------------------- MODULE MCWorld -------------------------------
(***************************************************************************)
(* Players together (trades and parties), at the door of a full server,    *)
(* on their way into the database, with bags and fields open, and showing  *)
(* their game to spectators, for TLC.                                      *)
(* The parts share no state that their properties are about, so they are   *)
(* not interleaved: a behaviour plays one scene, chosen at the start, and  *)
(* the other parts stay as they are.                                       *)
(***************************************************************************)
EXTENDS World, WaitingList, Saving, Windows, LiveCast, TLC

CONSTANTS anna, bert, carl, pouch, coin, premium, staff, quitter, plain,
          character, houses, query,
          alice, bob, sack, purse,
          h1, h2, g1, g2

VARIABLE scene

\* Anna has a pouch, Bert a coin, Carl makes the third.
MCStartAt == (pouch :> anna) @@ (coin :> bert)

\* Whatever the field, one window is for browsing.
MCDummyCid == [t \in Fields |-> 15]

MCVars == <<scene, vars, waitVars, savingVars, ui, air>>

MCInit ==
  /\ scene \in {"people", "door", "disk", "windows", "cast"}
  /\ Init /\ WaitInit /\ SavingInit /\ WindowsInit /\ LiveCastInit

MCNext ==
  /\ UNCHANGED scene
  /\ \/ scene = "people" /\ Next /\ UNCHANGED <<waitVars, savingVars, ui, air>>
     \/ scene = "door" /\ WaitNext /\ UNCHANGED <<vars, savingVars, ui, air>>
     \/ scene = "disk" /\ SavingNext /\ UNCHANGED <<vars, waitVars, ui, air>>
     \/ scene = "windows" /\ WindowsNext /\ UNCHANGED <<vars, waitVars, savingVars, air>>
     \/ scene = "cast" /\ LiveCastNext /\ UNCHANGED <<vars, waitVars, savingVars, ui>>

MCSpec == MCInit /\ [][MCNext]_MCVars

\* A protocol that has been released, or never got so far, does nothing any more.
Over(p) ==
  IF p \in Casters THEN p \notin air.owner /\ (p \in air.begun \/ (~Open(air, p) /\ air.tasks[p] = << >>))
  ELSE ~Open(air, p) /\ p \notin air.watching /\ "login" \notin ToSet(air.tasks[p])

\* Bound: two of the cast's protocols have tasks in the dispatcher's list, one when a
\* ping waits to be sent.
FewWaiting ==
  scene = "cast" =>
    Cardinality({p \in Protocols : air.tasks[p] # << >> /\ ~Over(p)})
      <= IF \E c \in Casters : Blank \in ToSet(air.queue[c]) THEN 1 ELSE 2

AsCaster(c) ==
  LET links == <<c \in air.caster, air.listed = c, air.client = c>>
  IN IF Over(c) THEN <<links, air.spectators[c] # {}>>
     ELSE <<links, c \in air.begun, air.conn[c], air.tasks[c], air.buffer[c], air.queue[c]>>
AsViewer(v) ==
  IF Over(v) THEN << >>
  ELSE <<v \in air.begun, air.conn[v], air.tasks[v],
         IF v \in air.watching THEN <<air.seen[v], air.since[v]>> ELSE << >>,
         {<<AsCaster(c), v \in air.spectators[c]>> : c \in {c \in Casters :
            v \in air.spectators[c] \/ (v \in air.watching /\ air.of[v] = c)}}>>
Anonymous ==
  LET live == SelectSeq(air.io, LAMBDA h : ~Over(h.client))
  IN <<air.life, air.refs, air.row, air.written,
       {AsCaster(c) : c \in Casters}, {AsViewer(v) : v \in Viewers},
       [i \in DOMAIN live |-> [live[i] EXCEPT !.client = AsCaster(@)]]>>

View ==
  <<scene, CASE scene = "people" -> vars [] scene = "door" -> waitVars
             [] scene = "disk" -> savingVars [] scene = "windows" -> ui
             [] scene = "cast" -> Anonymous>>
=============================================================================
