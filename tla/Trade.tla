-------------------------------- MODULE Trade --------------------------------
(***************************************************************************)
(* The safe trade between two players (game.cpp 3932-4360).                *)
(*                                                                         *)
(* A trade is spread over three places: the tradeState, tradePartner and   *)
(* tradeItem of each of the two Player objects, and Game::tradeItems, the  *)
(* table of all items on offer.  An offered item stays where it is, in the *)
(* inventory, in a bag or on the ground, where its owner and others may    *)
(* still move it; the only protection is that every change of an inventory,*)
(* a container or a tile is notified to the players around, and a Player   *)
(* whose offer is touched closes his trade (player.cpp 1227-1260,          *)
(* 1538-1644).                                                             *)
(*                                                                         *)
(* Everything here runs on the dispatcher, so a handler is one step, and   *)
(* TRADE_TRANSFER, set and left inside playerAcceptTrade, is never seen    *)
(* between steps.  Distances, room and capacity are abstracted: each step  *)
(* that depends on them may go either way.  Stacks are whole.              *)
(***************************************************************************)
EXTENDS Online

CONSTANTS
  Items,
  Bags,         \* the items that are containers
  StartAt,      \* [item |-> player] at the start
  Ground,       \* the tiles around the players
  Nowhere       \* where removed items are

ASSUME TradeAssumption ==
  /\ Bags \subseteq Items /\ IsFiniteSet(Items)
  /\ StartAt \in [Items -> Players]
  /\ {Ground, Nowhere, None} \intersect (Players \union Items) = {}
  /\ Players \intersect Items = {}

VARIABLES
  at,           \* Item::parent: the player, bag or ground an item is in
  trade,        \* [player |-> tradeState, tradePartner, tradeItem]
  tradeItems,   \* Game::tradeItems: [item |-> player who offers it]
  shown         \* history: what an offer was made of when it was shown

tradeVars == <<at, trade, tradeItems, shown>>

States == {"none", "initiated", "accept", "acknowledge"}
Idle == [state |-> "none", partner |-> None, item |-> None]

TradeInit ==
  /\ at = StartAt
  /\ trade = [p \in Players |-> Idle]
  /\ tradeItems = [i \in Items |-> None]
  /\ shown = [p \in Players |-> {}]

-----------------------------------------------------------------------------
(* Where things are *)

Depth == Cardinality(Items)

\* The cylinders above an item, one level after the other, up to the topmost.
Above(i) ==
  LET up[n \in 0..Depth] ==
        IF n = 0 THEN i ELSE IF up[n - 1] \in Items THEN at[up[n - 1]] ELSE up[n - 1]
  IN up

Chain(i) == {Above(i)[n] : n \in 1..Depth}
Top(i) == Above(i)[Depth]
Whole(i) == {i} \union {j \in Items : i \in Chain(j)}
Reachable(p, i) == Top(i) \in {p, Ground}
Offering(p) == trade[p].item # None

-----------------------------------------------------------------------------
(* Game::internalCloseTrade of some players: each with his partner. *)

WithPartners(ps) == ps \union {trade[p].partner : p \in ps}

\* an offer whose owner has accepted already is not released
OfferOf_Pending(ps) == {trade[p].item : p \in {q \in ps : trade[q].state = "initiated"}}

OfferOf(ps) == {trade[p].item : p \in ps}

Closed(ps) ==
  LET all == WithPartners(ps) \intersect Players IN
  /\ trade' = [p \in Players |-> IF p \in all THEN Idle ELSE trade[p]]
  /\ tradeItems' = [i \in Items |-> IF i \in OfferOf(all) THEN None ELSE tradeItems[i]]
  /\ shown' = [p \in Players |-> IF p \in all THEN {} ELSE shown[p]]

\* playerCloseTrade, and Player::onCreatureMove out of reach of the item or
\* the partner.
CloseTrade(p) ==
  /\ p \in online
  /\ trade[p].partner # None
  /\ Closed({p})
  /\ UNCHANGED <<online, alive, at>>

-----------------------------------------------------------------------------
(* Game::internalStartTrade *)

\* the player is free, or was asked by this very partner
MayStart(p, q) ==
  /\ trade[p].state = "none" \/ (trade[p].state = "acknowledge" /\ trade[p].partner = q)
  /\ trade[q].state = "none" \/ trade[q].partner = p

StartTrade(p, q, i) ==
  /\ MayStart(p, q)
  /\ trade' = [trade EXCEPT
       ![p] = [state |-> "initiated", partner |-> q, item |-> i],
       ![q] = IF @.state = "none"
                THEN [@ EXCEPT !.state = "acknowledge", !.partner = p] ELSE @]
  /\ tradeItems' = [tradeItems EXCEPT ![i] = p]
  /\ shown' = [shown EXCEPT ![p] = Whole(i)]

\* What playerRequestTrade refuses: an item on offer, inside one, or around one.
Overlaps(i, j) == i = j \/ i \in Chain(j) \/ j \in Chain(i)

RequestTrade(p, q, i) ==
  /\ {p, q} \subseteq online /\ p # q
  /\ Reachable(p, i)
  /\ \A j \in Items : tradeItems[j] # None => ~Overlaps(i, j)
  /\ StartTrade(p, q, i)
  /\ UNCHANGED <<online, alive, at>>

-----------------------------------------------------------------------------
(* Moves of items, and whom they make close their trade *)

\* checkTradeState alone: nobody looks into a bag that is taken away
Notices_NotInside(x, i) == x = i \/ x \in Chain(i)

\* onRemoveInventoryItem, onRemoveTileItem and onRemoveContainerItem of item i,
\* for the player who offers x: i is on offer, is inside it, or is around it;
\* out of a bag, x must not lie in that bag itself.
Notices(x, i) ==
  \/ x = i
  \/ x \in Chain(i)
  \/ IF at[i] \in Bags THEN at[x] # at[i] /\ at[i] \in Chain(x) ELSE i \in Chain(x)

\* onAddContainerItem of something put into b, for the player who offers x
NoticesInto(x, b) == b \in Items /\ (x = b \/ x \in Chain(b))

Touched(i, to) ==
  {p \in online : Offering(p) /\ (Notices(trade[p].item, i) \/ NoticesInto(trade[p].item, to))}

\* Container::queryAdd: no bag goes into itself or into what it holds.
MayHold(b, i) == b \notin Whole(i)

\* internalMoveItem, asked for by a player who reaches both ends.
MoveItem(p, i, to) ==
  /\ p \in online
  /\ Reachable(p, i)
  /\ to \in {p, Ground} \/ (to \in Bags /\ MayHold(to, i) /\ Reachable(p, to))
  /\ to # at[i]
  /\ at' = [at EXCEPT ![i] = to]
  /\ Closed(Touched(i, to))
  /\ UNCHANGED <<online, alive>>

\* internalRemoveItem: an item within somebody's reach decays or is used up.
RemoveItem(i) ==
  /\ Top(i) \in online \union {Ground}
  /\ at' = [at EXCEPT ![i] = Nowhere]
  /\ Closed(Touched(i, Nowhere))
  /\ UNCHANGED <<online, alive>>

-----------------------------------------------------------------------------
(* Game::playerAcceptTrade *)

MayAccept(p) ==
  /\ p \in online
  /\ trade[p].state \in {"acknowledge", "initiated"}
  /\ trade[p].partner # None

\* The first of the two accepts.
AcceptFirst(p) ==
  /\ MayAccept(p)
  /\ trade[trade[p].partner].state # "accept"
  /\ trade' = [trade EXCEPT ![p].state = "accept"]
  /\ UNCHANGED <<online, alive, at, tradeItems, shown>>

\* The second: the items change hands, or, when the event script objects or
\* there is no room on one side, stay; the trade is over either way.  A bag is
\* a place for an item unless it goes away with the other one.  The moves are
\* notified as any others; players in TRADE_TRANSFER take no notice.
AcceptSecond(p) ==
  LET q == trade[p].partner
      PlacesOf(r) == {r} \union {b \in Bags : Top(b) = r /\ b \notin Whole(trade[r].item)}
  IN
  /\ MayAccept(p)
  /\ trade[q].state = "accept"
  /\ Offering(p) /\ Offering(q)
  /\ \/ at' = at /\ Closed({p})
     \/ \E to \in PlacesOf(q), back \in PlacesOf(p) :
          /\ at' = [at EXCEPT ![trade[p].item] = to, ![trade[q].item] = back]
          /\ Closed({p} \union Touched(trade[p].item, to) \union Touched(trade[q].item, back))
  /\ UNCHANGED <<online, alive>>

\* The second, while one of them has put nothing on the table: the state
\* acknowledge admits accepting without an offer, and eventPlayerOnTradeAccept
\* hands the missing item to setItemMetatable, which dereferences it.
AcceptNothing(p) ==
  /\ MayAccept(p)
  /\ trade[trade[p].partner].state = "accept"
  /\ ~(Offering(p) /\ Offering(trade[p].partner))
  /\ alive' = FALSE
  /\ UNCHANGED <<online, at, trade, tradeItems, shown>>

\* Player::onRemoveCreature and a new Player object, as far as trading goes.
TradeLogout(p) ==
  /\ Closed(IF trade[p].partner # None THEN {p} ELSE {})
  /\ UNCHANGED at

TradeLogin(p) ==
  /\ trade' = [trade EXCEPT ![p] = Idle]
  /\ UNCHANGED <<at, tradeItems, shown>>

TradeNext ==
  \E p \in Players :
    \/ CloseTrade(p) \/ AcceptFirst(p) \/ AcceptSecond(p) \/ AcceptNothing(p)
    \/ \E q \in Players, i \in Items : RequestTrade(p, q, i)
    \/ \E i \in Items, to \in {p, Ground} \union Bags : MoveItem(p, i, to)

-----------------------------------------------------------------------------
(* Properties *)

\* The table of items on offer and the Player objects say the same: an entry
\* for each offer and an offer for each entry, so no item stays locked and no
\* offer unprotected (game.cpp 4085, 4150-4160, 4325-4350).
OffersTabled ==
  /\ \A p \in Players : Offering(p) => tradeItems[trade[p].item] = p
  /\ \A i \in Items : tradeItems[i] # None => trade[tradeItems[i]].item = i

\* Trades are between two: partners name each other, both are online, and
\* whoever has a partner is in a trade (game.cpp 4064-4104, player.cpp 1408).
PartnersAgree ==
  \A p \in Players :
    LET q == trade[p].partner IN
    /\ (q # None) <=> (trade[p].state # "none")
    /\ q # None => p \in online /\ q \in online /\ trade[q].partner = p
    /\ trade[p].state = "initiated" => Offering(p)

\* The table and the two Player objects of every trade tell one story,
\* whatever starts, counters, settles or breaks it off.
TradesConsistent == OffersTabled /\ PartnersAgree

\* What is on offer is what the partner was shown, is still in its owner's
\* hands or on the ground, and is part of no other offer, however the item, its
\* contents or the bags around it have been moved by anybody
\* (game.cpp 4000-4045, player.cpp 1227-1260, 1538-1644).
OffersIntact ==
  \A p \in Players : Offering(p) =>
    /\ Whole(trade[p].item) = shown[p]
    /\ Reachable(p, trade[p].item)
    /\ \A q \in Players \ {p} : shown[p] \intersect shown[q] = {}
=============================================================================
