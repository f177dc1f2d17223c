-------------------------------- MODULE Decay --------------------------------
(***************************************************************************)
(* Items that change by themselves: torches, worn rings, corpses, fields   *)
(* (game.cpp 6496-6607, item.cpp setID).                                   *)
(*                                                                         *)
(* An item that decays is marked DECAYING_TRUE and listed, with a          *)
(* reference, in toDecayItems; the next Game::cleanup moves it to one of   *)
(* four buckets, of which Game::checkDecay serves one every 250 ms.        *)
(* Nothing takes an item off its bucket when it is put out, transformed,   *)
(* moved or removed: the mark and the listing part, and only the bucket's  *)
(* turn finds out.  So scripts (transform, decay), moves and removals in   *)
(* between are what the model interleaves with the rounds.                 *)
(*                                                                         *)
(* Times are in milliseconds.  Left out: unique ids, DECAYING_PENDING (an  *)
(* unmarked item that equipping starts), the skills a worn item gives, and *)
(* items that change between the layers of a tile.                         *)
(***************************************************************************)
EXTENDS Integers, Sequences, FiniteSets, FiniteSetsExt, SequencesExt

CONSTANTS
  Objects,     \* the numbers of Item objects, allocated lowest first
  Turns,       \* bound: the kinds that scripts turn a kind into
  MaxItems,    \* bound: how many lie in the world at a time
  MaxListings, \* bound: how many listings there are before a new one is made
  Kinds,
  DecayTo, DecayTime, StopTime, TypeOf, Stackable,   \* the ItemType of a kind
  Gone,        \* decayTo = 0: the item vanishes
  Never        \* decayTo = -1: the kind does not decay

ASSUME DecayAssumption ==
  /\ Objects \subseteq Nat /\ IsFiniteSet(Objects) /\ MaxItems \in Nat
  /\ Gone \notin Kinds /\ Never \notin Kinds
  /\ DecayTo \in [Kinds -> Kinds \union {Gone, Never}]
  /\ Turns \in [Kinds -> SUBSET Kinds] /\ \A k \in Kinds : k \notin Turns[k]
  /\ DecayTime \in [Kinds -> Nat]
  /\ StopTime \subseteq Kinds /\ Stackable \subseteq Kinds

VARIABLES
  d   \* the items: one function per attribute, the buckets, and of each item
      \* the history of its decay (asked, spent, copied)

Interval == 250
NBuckets == 4
Turn == Interval * NBuckets
Buckets == 0..NBuckets - 1

DecayInit ==
  d = [kind |-> [i \in Objects |-> Never], held |-> [i \in Objects |-> FALSE],
       dur |-> [i \in Objects |-> 0], mark |-> [i \in Objects |-> FALSE],
       refs |-> [i \in Objects |-> 0], released |-> [i \in Objects |-> 0],
       toDecay |-> << >>, bucket |-> [b \in Buckets |-> << >>], last |-> 0,
       asked |-> [i \in Objects |-> 0], spent |-> [i \in Objects |-> 0],
       copied |-> [i \in Objects |-> FALSE]]

Times(s, i) == Cardinality({j \in DOMAIN s : s[j] = i})
Listings(u, i) == Times(u.toDecay, i) + SumFunction([b \in Buckets |-> Times(u.bucket[b], i)])

\* Item::canDecay; held is having a parent that is in the world.
CanDecay(u, i) ==
  u.held[i] /\ DecayTo[u.kind[i]] # Never /\ DecayTime[u.kind[i]] > 0

-----------------------------------------------------------------------------
(* What the operations do to the items u *)

Released(u, i) == [u EXCEPT !.released[i] = @ + 1]

Removed(u, i) == Released([u EXCEPT !.held[i] = FALSE], i)

\* Item::CreateItem and the constructor's default duration.
NewObject(u) == Min({i \in Objects : u.refs[i] = 0})
Created(u, k) ==
  LET n == NewObject(u) IN
  [u EXCEPT !.kind[n] = k, !.held[n] = TRUE, !.refs[n] = 1, !.dur[n] = 1000 * DecayTime[k]]

\* Item::setID.  A duration of 0 is no duration attribute.
SetID(u, i, k) ==
  LET given == 1000 * DecayTime[k]
      plain == given = 0 /\ k \notin StopTime /\ DecayTo[k] = Never
      anew == given > 0 /\ (u.kind[i] \notin StopTime \/ u.dur[i] = 0)
  IN [u EXCEPT !.kind[i] = k,
               !.mark[i] = IF plain \/ anew THEN FALSE ELSE @,
               !.dur[i] = IF plain THEN 0 ELSE IF anew THEN given ELSE @]

\* Game::transformItem: within a type the object stays and keeps what is left
\* of its duration; otherwise a new object takes its place.
Becomes(u, i, k) == IF TypeOf[u.kind[i]] = TypeOf[k] THEN i ELSE NewObject(u)
Transformed(u, i, k) ==
  IF TypeOf[u.kind[i]] = TypeOf[k]
  THEN LET v == SetID(u, i, k)
       IN [v EXCEPT !.dur[i] = IF u.dur[i] > 0 THEN u.dur[i] ELSE @]
  ELSE Removed(Created(u, k), i)

\* Game::startDecay, an item with time left.  (History: asked is what it has
\* to live, unless an earlier listing takes time from it as well.)
PutInBucket(u, i) ==
  [u EXCEPT !.refs[i] = @ + 1, !.mark[i] = TRUE, !.toDecay = <<i>> \o @,
            !.asked[i] = IF Listings(u, i) = 0 THEN u.dur[i] ELSE 0,
            !.spent[i] = 0, !.copied[i] = FALSE]

Decays(u, i) == CanDecay(u, i) /\ ~u.mark[i]

\* Game::internalDecayItem; what it becomes has a decayTime if it decays.
Decayed(u, i) ==
  LET k == DecayTo[u.kind[i]] IN
  IF k = Gone THEN Removed(u, i)
  ELSE LET v == Transformed(u, i, k)
           n == Becomes(u, i, k)
       IN IF Decays(v, n) THEN PutInBucket(v, n) ELSE v

\* Game::startDecay.
Started(u, i) ==
  IF ~Decays(u, i) THEN u
  ELSE IF u.dur[i] > 0 THEN PutInBucket(u, i) ELSE Decayed(u, i)

\* (Mutant: an item dropped from its bucket stays marked.)
Unlisted_Marked(u, b, i) == Released([u EXCEPT !.bucket[b] = RemoveFirst(@, i)], i)

\* Game::checkDecay, an item that no longer decays.
Unlisted(u, b, i) ==
  Released([u EXCEPT !.mark[i] = FALSE, !.bucket[b] = RemoveFirst(@, i)], i)

\* Game::checkDecay, one item of bucket b.
Served(u, b, i) ==
  LET left == u.dur[i] - (IF u.dur[i] < Turn THEN u.dur[i] ELSE Turn)
      v == [u EXCEPT !.dur[i] = left]
      taken == [v EXCEPT !.bucket[b] = RemoveFirst(@, i)]
      next == (b + ((left + Interval \div 2) \div 1000)) % NBuckets
  IN CASE ~CanDecay(u, i) -> Unlisted(u, b, i)
       [] CanDecay(u, i) /\ (left = 0 \/ (left < Turn /\ next = b)) -> Released(Decayed(taken, i), i)
       [] CanDecay(u, i) /\ 0 < left /\ left < Turn /\ next # b ->
            [taken EXCEPT !.bucket[next] = Append(@, i)]
       [] CanDecay(u, i) /\ left >= Turn -> v

\* (Mutant: a long duration starts in the bucket served next.)
BucketFor_Next(u, i) == (u.last + 1) % NBuckets

\* Game::cleanup: where a newly listed item goes.
BucketFor(u, i) ==
  IF u.dur[i] >= Turn THEN u.last ELSE (u.last + 1 + (u.dur[i] \div 1000)) % NBuckets

Placed(u, v) ==
  FoldLeft(LAMBDA w, i : [w EXCEPT !.bucket[BucketFor(u, i)] = Append(@, i)], v, u.toDecay)

\* Game::cleanup: references are given back, objects freed, new items listed.
Freed(u) ==
  LET refs == [i \in Objects |-> u.refs[i] - u.released[i]]
      Kept(f, none) == [i \in Objects |-> IF refs[i] = 0 THEN none ELSE f[i]]
      v == [u EXCEPT !.refs = refs, !.released = [i \in Objects |-> 0],
                     !.kind = Kept(@, Never), !.dur = Kept(@, 0), !.mark = Kept(@, FALSE),
                     !.asked = Kept(@, 0), !.spent = Kept(@, 0), !.copied = Kept(@, FALSE)]
  IN [Placed(u, v) EXCEPT !.toDecay = << >>]

\* Of an item in one list only, the turns it has waited are counted, this one too.
Waited(u) ==
  LET Timed(i) == u.asked[i] > 0 /\ Listings(u, i) = 1
  IN [u EXCEPT !.asked = [i \in Objects |-> IF Timed(i) THEN @[i] ELSE 0],
               !.spent = [i \in Objects |-> IF Timed(i) THEN @[i] + 1 ELSE 0]]

\* The loop of Game::checkDecay over bucket b
Round(u, b) == FoldLeft(LAMBDA v, i : Served(v, b, i), u, u.bucket[b])

-----------------------------------------------------------------------------

InWorld == {i \in Objects : d.held[i]}
AllListings == MapThenSumSet(LAMBDA i : Listings(d, i), Objects)
Room == Cardinality({i \in Objects : d.refs[i] = 0}) >= MaxItems

\* Game::internalAddItem of a new item.
AddItem(k) ==
  /\ Room /\ Cardinality(InWorld) < MaxItems /\ AllListings < MaxListings
  /\ LET v == Created(d, k) IN
     d' = IF DecayTime[k] > 0 THEN Started(v, NewObject(d)) ELSE v

\* Item:transform of a script, and Item:decay after it (MoveEvent::EquipItem
\* and DeEquipItem do the same): a torch is lit or put out, a ring worn.
TransformItem(i, k, decay) ==
  /\ Room /\ i \in InWorld /\ k \in Turns[d.kind[i]]
  /\ decay => AllListings < MaxListings
  /\ LET v == Transformed(d, i, k) IN
     d' = IF decay THEN Started(v, Becomes(d, i, k)) ELSE v

\* Game::internalMoveItem: a stack is moved by copying it, marks and all.
PutElsewhere(i) ==
  /\ Room /\ i \in InWorld /\ AllListings < MaxListings
  /\ LET n == NewObject(d)
         copy == [Created(d, d.kind[i]) EXCEPT !.dur[n] = d.dur[i], !.mark[n] = d.mark[i],
                                               !.copied[n] = d.mark[i]]
         moved == Removed(copy, i)
     IN d' = IF d.kind[i] \in Stackable
             THEN IF CanDecay(d, i) THEN Started(moved, n) ELSE moved
             ELSE Started(d, i)

\* Game::internalRemoveItem; decayItems->remove never happens, since a removed
\* item cannot decay.
DropItem(i) == i \in InWorld /\ d' = Removed(d, i)

\* Game::checkDecay, every 250 ms.
CheckDecay ==
  /\ Room
  /\ LET b == (d.last + 1) % NBuckets IN d' = Freed([Round(Waited(d), b) EXCEPT !.last = b])

\* Game::cleanup at the end of another round (checkCreatures, a walk).
ReleaseItems == d' = Freed(d)

DecayNext ==
  \/ \E k \in Kinds : AddItem(k)
  \/ \E i \in Objects, k \in Kinds, decay \in BOOLEAN : TransformItem(i, k, decay)
  \/ \E i \in Objects : PutElsewhere(i) \/ DropItem(i)
  \/ CheckDecay
  \/ ReleaseItems

DecaySpec == DecayInit /\ [][DecayNext]_d

-----------------------------------------------------------------------------
(* Properties *)

\* An Item has one reference for being in the world, one for each listing and
\* each release still to be carried out: no list leads to a freed item, and no
\* item is kept for ever.  And one that is marked as decaying is in a list, so it
\* will decay, however often it was put out and lit again meanwhile.  (Not so a
\* copied stack: the mark is copied and the listing is not.)
NeverForgotten ==
  \A i \in Objects :
    /\ d.refs[i] = (IF d.held[i] THEN 1 ELSE 0) + Listings(d, i) + d.released[i]
    /\ CanDecay(d, i) /\ d.mark[i] /\ ~d.copied[i] => Listings(d, i) > 0

\* An item in one list only lives as long as it was given, rounded up to the
\* next round or down to the one before: the turns it has waited and those
\* still to come add up to its time.
Punctual ==
  \A i \in Objects, b \in Buckets :
    d.asked[i] > 0 /\ Listings(d, i) = 1 /\ d.mark[i] /\ Times(d.bucket[b], i) = 1
      => LET ahead == ((b - d.last - 1) % NBuckets) + 1
             rounds == d.spent[i] + ahead + NBuckets * ((d.dur[i] \div Turn) - 1)
         IN rounds - (d.asked[i] \div Interval) \in {0, 1}
=============================================================================
