--------------------------- MODULE SpectatorLists ---------------------------
(***************************************************************************)
(* Who sees what happens: the creatures of each part of the map            *)
(* (FastSpectatorHolder in map.h and map.cpp 852-964, Map::getSpectators). *)
(*                                                                         *)
(* Every leaf of the map keeps its creatures in an array of its own: a     *)
(* monster takes any free slot, players are swapped to the front, so that  *)
(* a search for players ends at the first creature that is none, each      *)
(* creature remembers its slot, and the array doubles and halves.  Where   *)
(* the search for a free slot begins, the last player's slot (which starts *)
(* at 0xFFFF and wraps), the count, the marks left behind in freed slots   *)
(* and the slots that the creatures remember must all agree.               *)
(*                                                                         *)
(* A spot stands for a position; a range of positions is a set of spots.   *)
(* The viewport's arithmetic and the floors are left out.                  *)
(***************************************************************************)
EXTENDS Integers, Sequences, FiniteSets, FiniteSetsExt, SequencesExt

CONSTANTS
  Watchers, Beasts,   \* the players, and the other creatures
  Spots, LeafOf,      \* the positions, and the leaf each is in
  Off                 \* not on the map; no creature

Everyone == Watchers \union Beasts
Leaves == {LeafOf[p] : p \in Spots}

Wrap == 65536   \* of a uint16_t

\* With more creatures than that in one leaf its capacity would be 0 again.
ASSUME SpectatorAssumption ==
  /\ Off \notin Everyone \union Spots /\ Watchers \intersect Beasts = {} /\ DOMAIN LeafOf = Spots
  /\ IsFiniteSet(Everyone) /\ 2 * Cardinality(Everyone) <= Wrap

VARIABLES
  map   \* the holder of each leaf, and of each creature its spectatorId and its spot

Free == [creature |-> Off, pos |-> Off, player |-> FALSE]
NoSlots == [slot |-> [i \in 0..1 |-> Free], capacity |-> 2, index |-> 0, count |-> 0,
            playerIndex |-> Wrap - 1]

SpectatorInit ==
  map = [holder |-> [l \in Leaves |-> NoSlots], id |-> [c \in Everyone |-> 0],
       at |-> [c \in Everyone |-> Off]]

Occupied(a, i) == a.slot[i].creature # Off

-----------------------------------------------------------------------------
(* FastSpectatorHolder: what is done to the holder of leaf l *)

\* (Mutant: the creature that made room is not told its new slot.)
Told_Alone(ids, a, c, i, last) == [ids EXCEPT ![c] = last]

\* The slots remembered by a player put into slot last, and by whom he found there.
Told(ids, a, c, i, last) ==
  LET before == a.slot[last].creature IN
  [d \in Everyone |-> IF d = c THEN last ELSE IF d = before THEN i ELSE ids[d]]

\* FastSpectatorHolder::_add
PutAt(u, l, c, pos, i) ==
  LET a == u.holder[l]
      last == (a.playerIndex + 1) % Wrap
      put == [a EXCEPT !.slot[i] = [creature |-> c, pos |-> pos, player |-> c \in Watchers],
                       !.index = (i + 1) % a.capacity, !.count = @ + 1]
      swapped == [put EXCEPT !.playerIndex = last,
                             !.slot[i] = put.slot[last], !.slot[last] = put.slot[i]]
  IN IF c \in Watchers
     THEN [u EXCEPT !.holder[l] = swapped, !.id = Told(@, put, c, i, last)]
     ELSE [u EXCEPT !.holder[l] = put, !.id[c] = i]

\* FastSpectatorHolder::add
Add(u, l, c, pos) ==
  LET a == u.holder[l]
      ahead == {i \in a.index..a.capacity - 1 : ~Occupied(a, i)}
      behind == {i \in 0..a.index : ~Occupied(a, i)}
      grown == [a EXCEPT !.capacity = 2 * @,
                         !.slot = [i \in 0..2 * a.capacity - 1 |->
                                     IF i < a.capacity THEN a.slot[i] ELSE Free]]
  IN IF a.count < a.capacity
     THEN PutAt(u, l, c, pos, Min(IF ahead # {} THEN ahead ELSE behind))
     ELSE PutAt([u EXCEPT !.holder[l] = grown], l, c, pos, a.capacity)

\* the new array of FastSpectatorHolder::remove, and what its loops put into it
Halved(a) ==
  LET half == a.capacity \div 2
  IN [a EXCEPT !.capacity = half, !.index = 0,
               !.slot = [i \in 0..half - 1 |-> IF Occupied(a, i) THEN a.slot[i] ELSE Free]]

Pulled(u, l, s) ==
  LET j == Min({i \in DOMAIN u.holder[l].slot : ~Occupied(u.holder[l], i)})
  IN [u EXCEPT !.holder[l].slot[j] = s, !.id[s.creature] = j]

\* the end of FastSpectatorHolder::remove: half of the slots will do
Shrunk(u, l) ==
  LET a == u.holder[l]
      half == a.capacity \div 2
      After[n \in 0..half] ==
        IF n = 0 THEN [u EXCEPT !.holder[l] = Halved(a)]
        ELSE IF Occupied(a, half + n - 1) THEN Pulled(After[n - 1], l, a.slot[half + n - 1])
        ELSE After[n - 1]
  IN After[half]

\* the players in slots i and last change places, and there is one player less
Exchanged(u, l, i, last) ==
  LET f == u.holder[l].slot
      swapped == [u.holder[l] EXCEPT !.slot = [f EXCEPT ![i] = f[last], ![last] = f[i]],
                                     !.playerIndex = (last - 1) % Wrap]
  IN [u EXCEPT !.holder[l] = swapped,
               !.id = [d \in Everyone |-> IF d = f[last].creature /\ last # i THEN i ELSE @[d]]]

\* slot i is freed
Vacated(u, l, i) ==
  LET freed == [u.holder[l] EXCEPT !.slot[i].creature = Off, !.index = i, !.count = @ - 1]
  IN [u EXCEPT !.holder[l] = freed]

\* FastSpectatorHolder::remove
TakeOff(u, l, c) ==
  LET a == u.holder[l]
      i == u.id[c]
      last == IF Occupied(a, a.playerIndex) THEN a.playerIndex ELSE a.playerIndex - 1
      w == IF a.slot[i].player THEN Vacated(Exchanged(u, l, i, last), l, last) ELSE Vacated(u, l, i)
      b == w.holder[l]
  IN IF b.capacity # 2 /\ 2 * b.capacity > 5 * b.count THEN Shrunk(w, l) ELSE w

-----------------------------------------------------------------------------

\* Map::placeCreature
AppearAt(c, p) ==
  /\ map.at[c] = Off
  /\ map' = Add([map EXCEPT !.at[c] = p], LeafOf[p], c, p)

\* Map::moveCreature
GoTo(c, p) ==
  /\ map.at[c] \notin {Off, p}
  /\ LET from == LeafOf[map.at[c]]
         to == LeafOf[p]
         v == [map EXCEPT !.at[c] = p]
     IN map' = IF from = to THEN [v EXCEPT !.holder[to].slot[map.id[c]].pos = p]
             ELSE Add(TakeOff(v, from, c), to, c, p)

\* Tile::removeCreature
Vanish(c) ==
  /\ map.at[c] # Off
  /\ map' = TakeOff([map EXCEPT !.at[c] = Off], LeafOf[map.at[c]], c)

SpectatorNext ==
  \E c \in Everyone : Vanish(c) \/ \E p \in Spots : AppearAt(c, p) \/ GoTo(c, p)

\* What happens to the lists from the start on.
SpectatorSpec == SpectatorInit /\ [][SpectatorNext]_map

\* Map::getSpectators: the slots of a leaf whose creature is found.
Hits(a, range, onlyPlayers) ==
  {i \in DOMAIN a.slot :
     /\ Occupied(a, i) /\ a.slot[i].pos \in range
     /\ onlyPlayers => \A j \in 0..i : Occupied(a, j) => a.slot[j].player}

-----------------------------------------------------------------------------
(* Properties *)

\* Whatever came, went and moved, a search finds each creature in its range,
\* or each player, once, and nobody else.
EveryoneFound ==
  \A range \in SUBSET Spots, onlyPlayers \in BOOLEAN :
    LET there == {c \in IF onlyPlayers THEN Watchers ELSE Everyone : map.at[c] \in range}
        hits == UNION {{<<l, i>> : i \in Hits(map.holder[l], range, onlyPlayers)} : l \in Leaves}
    IN /\ {map.holder[hit[1]].slot[hit[2]].creature : hit \in hits} = there
       /\ Cardinality(hits) = Cardinality(there)
=============================================================================
